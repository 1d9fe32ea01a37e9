------------------------------- MODULE CueText -------------------------------
(***************************************************************************)
(* The cue text parser (src/libwebvtt/cuetext.c): the tokenizer reads the  *)
(* text of a cue one symbol at a time, and every token it completes adds a *)
(* node to the tree of the cue, closes the node that is open, or is thrown *)
(* away.  One action is one turn of the loop of one tokenizer state, or    *)
(* what webvtt_parse_cuetext does with one token.                          *)
(***************************************************************************)
EXTENDS CueMarkup

CONSTANTS
  Texts,      \* the texts a cue may have
  UnsetKinds  \* what a local variable of type webvtt_node_kind may hold
              \* before it is assigned

InternalKinds == {"BOLD", "VOICE", "RUBY", "RUBY_TEXT", "LANG"}
LeafKinds == {"TEXT", "TIME_STAMP"}
\* STRAY stands for a value that is no kind of node at all.
Kinds == {"HEAD", "STRAY"} \cup InternalKinds \cup LeafKinds

ASSUME TextsAssumption == Texts \subseteq Seq(TextSymbols)
ASSUME UnsetAssumption == UnsetKinds \subseteq Kinds

VARIABLES
  text,     \* the text of the cue
  pos,      \* how much of it is read
  state,    \* token_state, of the tokenizer
  result, annotation, classes, buffer,
            \* the strings the tokenizer gathers
  token,    \* the token that is complete, or NoToken
  nodes,    \* the nodes of the tree, in the order they were created
  current,  \* the node that is open
  kind,     \* the local variable of webvtt_parse_cuetext
  langs     \* lang_stack

gathered  == <<result, annotation, classes, buffer>>
tokenizer == <<state, gathered>>
tree      == <<nodes, current, kind, langs>>
vars == <<text, pos, tokenizer, token, tree>>

TokenStates == {"DATA", "ESCAPE", "TAG", "START_TAG", "START_TAG_CLASS",
                "START_TAG_ANNOTATION", "END_TAG", "TIME_STAMP_TAG"}

\* A text is followed by the character 0.
Ch == IF pos < Len(text) THEN text[pos + 1] ELSE "NUL"

-----------------------------------------------------------------------------
(* Tokens.                                                                 *)

Token(type, name, content, css, note) ==
  [type |-> type, name |-> name, content |-> content, classes |-> css, annotation |-> note]
NoToken == Token("NONE", << >>, << >>, << >>, << >>)

\* What the state the tokenizer stopped in makes of what it gathered.
TokenOf(s, res, css, note) ==
  CASE s \in {"DATA", "ESCAPE"} -> Token("TEXT", << >>, res, << >>, << >>)
    [] s = "END_TAG"            -> Token("END", res, << >>, << >>, << >>)
    [] s = "TIME_STAMP_TAG"     -> Token("TIME_STAMP", << >>, res, << >>, << >>)
    [] OTHER -> Token("START", res, << >>, css, IF AcceptsAnnotation(res) THEN note ELSE << >>)

-----------------------------------------------------------------------------
(* The tokenizer.                                                          *)

Node(k, parent) == [kind |-> k, parent |-> parent, children |-> << >>, lang |-> << >>,
                    annotation |-> << >>, classes |-> << >>, content |-> << >>]

Init ==
  /\ text \in Texts /\ pos = 0
  /\ state = "DATA" /\ result = << >> /\ annotation = << >> /\ classes = << >> /\ buffer = << >>
  /\ token = NoToken
  /\ nodes = <<Node("HEAD", 0)>> /\ current = 1 /\ kind \in UnsetKinds /\ langs = << >>

\* The loop of a state goes on while there is a text, and no token is complete.
In(s) == state = s /\ token = NoToken /\ (s = "DATA" => pos < Len(text) \/ result # << >>)

\* The symbol is used up and the tokenizer is in state s.
Go(s) == /\ pos' = pos + 1 /\ state' = s
         /\ UNCHANGED <<text, token, tree>>

\* The token is complete; only a closing > is used up.
Complete(s, res, css, note) ==
  /\ token' = TokenOf(s, res, css, note)
  /\ pos' = IF Ch = "GT" THEN pos + 1 ELSE pos
  /\ state' = "DATA"
  /\ result' = << >> /\ annotation' = << >> /\ classes' = << >> /\ buffer' = << >>
  /\ UNCHANGED <<text, tree>>

Keep == /\ result' = Append(result, Ch)
        /\ UNCHANGED <<annotation, classes, buffer>>

DataEscape == /\ In("DATA") /\ Ch = "AMP" /\ Go("ESCAPE")
              /\ buffer' = <<"AMP">> /\ UNCHANGED <<result, annotation, classes>>
DataTag == In("DATA") /\ Ch = "LT" /\ result = << >> /\ Go("TAG") /\ UNCHANGED gathered
DataEnd == /\ In("DATA") /\ (Ch = "NUL" \/ (Ch = "LT" /\ result # << >>))
           /\ Complete("DATA", result, classes, annotation)
DataChar == In("DATA") /\ Ch \notin {"AMP", "LT", "NUL"} /\ Go("DATA") /\ Keep

\* What a buffer that ends in a semicolon stands for.
Unescaped(b) == CASE b = <<"AMP", "amp">> -> <<"AMP">>
                  [] b = <<"AMP", "lt">>  -> <<"LT">>
                  [] OTHER -> Append(b, "SEMI")

AlphaNumeric(c) == c \in Letters \cup Words \cup {"7"}

\* What was gathered as an escape sequence is text after all.
\* Mutant: it is dropped when the sequence turns out not to be one.
AsTextDropped(rest) == result \o rest
AsText(rest) == (result \o buffer) \o rest

EscapeEnd == /\ In("ESCAPE") /\ Ch \in {"NUL", "LT"}
             /\ Complete("ESCAPE", AsText(<< >>), classes, annotation)
EscapeAgain == /\ In("ESCAPE") /\ Ch = "AMP" /\ Go("ESCAPE")
               /\ result' = AsText(<< >>) /\ buffer' = <<"AMP">>
               /\ UNCHANGED <<annotation, classes>>
EscapeClose == /\ In("ESCAPE") /\ Ch = "SEMI" /\ Go("DATA")
               /\ result' = result \o Unescaped(buffer) /\ buffer' = << >>
               /\ UNCHANGED <<annotation, classes>>
EscapeName == /\ In("ESCAPE") /\ AlphaNumeric(Ch) /\ Go("ESCAPE")
              /\ buffer' = Append(buffer, Ch) /\ UNCHANGED <<result, annotation, classes>>
EscapeBad == /\ In("ESCAPE") /\ Ch \in {"GT", "DOT", "SLASH", "SP"} /\ Go("DATA")
             /\ result' = AsText(<<Ch>>) /\ buffer' = << >>
             /\ UNCHANGED <<annotation, classes>>

TagEnds == Ch \in {"GT", "NUL"}

TagEnd == In("TAG") /\ TagEnds /\ Complete("TAG", result, classes, annotation)
TagOpens == /\ In("TAG") /\ ~TagEnds
            /\ \/ Ch = "SP" /\ Go("START_TAG_ANNOTATION") /\ UNCHANGED gathered
               \/ Ch = "DOT" /\ Go("START_TAG_CLASS") /\ UNCHANGED gathered
               \/ Ch = "SLASH" /\ Go("END_TAG") /\ UNCHANGED gathered
               \/ Ch = "7" /\ Go("TIME_STAMP_TAG") /\ Keep
               \/ Ch \notin {"SP", "DOT", "SLASH", "7"} /\ Go("START_TAG") /\ Keep

StartTagEnd == In("START_TAG") /\ TagEnds /\ Complete("START_TAG", result, classes, annotation)
StartTagGoes == /\ In("START_TAG") /\ ~TagEnds
                /\ \/ Ch = "SP" /\ Go("START_TAG_ANNOTATION") /\ UNCHANGED gathered
                   \/ Ch = "DOT" /\ Go("START_TAG_CLASS") /\ UNCHANGED gathered
                   \/ Ch \notin {"SP", "DOT"} /\ Go("START_TAG") /\ Keep

\* White space after a class completes the token, and is not used up.
ClassEnd == In("START_TAG_CLASS") /\ TagEnds
            /\ Complete("START_TAG_CLASS", result, Append(classes, buffer), annotation)
ClassSpace == /\ In("START_TAG_CLASS") /\ Ch = "SP"
              /\ Complete("START_TAG_ANNOTATION", result,
                          IF buffer = << >> THEN classes ELSE Append(classes, buffer), annotation)
ClassNext == /\ In("START_TAG_CLASS") /\ Ch = "DOT" /\ Go("START_TAG_CLASS")
             /\ classes' = Append(classes, buffer) /\ buffer' = << >>
             /\ UNCHANGED <<result, annotation>>
ClassChar == /\ In("START_TAG_CLASS") /\ ~TagEnds /\ Ch \notin {"SP", "DOT"} /\ Go("START_TAG_CLASS")
             /\ buffer' = Append(buffer, Ch) /\ UNCHANGED <<result, annotation, classes>>

AnnotationEnd == /\ In("START_TAG_ANNOTATION") /\ TagEnds
                 /\ Complete("START_TAG_ANNOTATION", result, classes, annotation)
AnnotationChar == /\ In("START_TAG_ANNOTATION") /\ ~TagEnds /\ Go("START_TAG_ANNOTATION")
                  /\ annotation' = Append(annotation, Ch) /\ UNCHANGED <<result, classes, buffer>>

PlainTags == {"END_TAG", "TIME_STAMP_TAG"}
PlainEnd == \E s \in PlainTags : In(s) /\ TagEnds /\ Complete(s, result, classes, annotation)
PlainChar == \E s \in PlainTags : In(s) /\ ~TagEnds /\ Go(s) /\ Keep

-----------------------------------------------------------------------------
(* webvtt_parse_cuetext: what a token does to the tree.                    *)

Take(type) == token.type = type /\ token' = NoToken /\ UNCHANGED <<text, pos, tokenizer>>
ThrownAway == UNCHANGED tree

Closes(k) == \/ nodes[current].kind = k
             \/ nodes[current].kind = "RUBY_TEXT" /\ k = "RUBY"

\* Mutant: the call goes on with the token it has thrown away.
EndAtHeadStays == token.type = "END" /\ nodes[current].kind = "HEAD" /\ UNCHANGED vars
EndAtHead == Take("END") /\ nodes[current].kind = "HEAD" /\ ThrownAway
EndUnknown == /\ Take("END") /\ nodes[current].kind # "HEAD" /\ KindOf(token.name) = "INVALID"
              /\ ThrownAway

\* The kind of the end tag; a name of one byte leaves the one of an earlier tag.
EndKind == IF KindOf(token.name) = "UNSET" THEN kind ELSE KindOf(token.name)
EndNamed == Take("END") /\ nodes[current].kind # "HEAD" /\ KindOf(token.name) # "INVALID"

\* Mutant: the language stays in effect after its tag is closed.
LangsKept(k) == langs
LangsClosed(k) == IF k = "LANG" /\ langs # << >> THEN Front(langs) ELSE langs

EndCloses == /\ EndNamed /\ Closes(EndKind)
             /\ kind' = EndKind
             /\ current' = nodes[current].parent
             /\ langs' = LangsClosed(EndKind)
             /\ UNCHANGED nodes
EndIgnored == /\ EndNamed /\ ~Closes(EndKind)
              /\ kind' = EndKind
              /\ UNCHANGED <<nodes, current, langs>>

\* webvtt_attach_node: the new node n is the last child of the open one.
WithChild(m, i) == [m EXCEPT !.children = Append(@, i)]
Attached(n) == Append([nodes EXCEPT ![current] = WithChild(@, Len(nodes) + 1)], n)

Leaf == /\ Take(token.type) /\ token.type \in LeafKinds
        /\ nodes' = Attached([Node(token.type, current) EXCEPT !.content = token.content])
        /\ UNCHANGED <<current, kind, langs>>

\* The kinds the node of a start tag can get.
StartKinds == IF KindOf(token.name) = "UNSET" THEN UnsetKinds ELSE {KindOf(token.name)}

StartInvalid == Take("START") /\ KindOf(token.name) = "INVALID" /\ ThrownAway

\* Mutant: a ruby text may stand inside another one.
OutOfPlaceNested(k) == k = "RUBY_TEXT" /\ nodes[current].kind \notin {"RUBY", "RUBY_TEXT"}
OutOfPlace(k) == k = "RUBY_TEXT" /\ nodes[current].kind # "RUBY"
StartOutOfPlace == /\ Take("START") /\ KindOf(token.name) # "INVALID"
                   /\ \E k \in StartKinds : OutOfPlace(k)
                   /\ ThrownAway

\* A node becomes the open one unless its kind is that of a leaf.
Entered(k, n) == IF k \in LeafKinds THEN current ELSE n
\* A language tag keeps its annotation as the language; any other node has the
\* language that is in effect.
Opened(k) ==
  LET n == [Node(k, current) EXCEPT !.classes = token.classes]
  IN  IF k = "LANG" THEN [n EXCEPT !.lang = token.annotation]
      ELSE [n EXCEPT !.annotation = token.annotation,
                     !.lang = IF langs = << >> THEN << >> ELSE Last(langs)]

StartOpens ==
  /\ Take("START") /\ KindOf(token.name) # "INVALID"
  /\ \E k \in StartKinds :
       /\ ~OutOfPlace(k)
       /\ nodes' = Attached(Opened(k))
       /\ langs' = IF k = "LANG" THEN Append(langs, token.annotation) ELSE langs
       /\ current' = Entered(k, Len(nodes) + 1)
  /\ UNCHANGED kind

Done == pos = Len(text) /\ state = "DATA" /\ result = << >> /\ token = NoToken
Finished == Done /\ UNCHANGED vars

-----------------------------------------------------------------------------
Data == DataEscape \/ DataTag \/ DataEnd \/ DataChar
Escape == EscapeEnd \/ EscapeAgain \/ EscapeClose \/ EscapeName \/ EscapeBad
StartTag == TagEnd \/ TagOpens \/ StartTagEnd \/ StartTagGoes
Class == ClassEnd \/ ClassSpace \/ ClassNext \/ ClassChar
Rest == AnnotationEnd \/ AnnotationChar \/ PlainEnd \/ PlainChar
Tokenize == Data \/ Escape \/ StartTag \/ Class \/ Rest

End == EndAtHead \/ EndUnknown \/ EndCloses \/ EndIgnored
Build == End \/ Leaf \/ StartInvalid \/ StartOutOfPlace \/ StartOpens

Next == Tokenize \/ Build \/ Finished

\* webvtt_parse_cuetext is one call, which runs to its end.
Spec == Init /\ [][Next]_vars /\ WF_vars(Tokenize \/ Build)

-----------------------------------------------------------------------------
(* Properties.                                                             *)

NodeNumbers == DOMAIN nodes
NodeType == [kind : Kinds, parent : Nat, children : Seq(Nat), lang : Seq(TextSymbols),
             annotation : Seq(TextSymbols), classes : Seq(Seq(TextSymbols)),
             content : Seq(TextSymbols)]
TokenType == [type : {"NONE", "START", "END"} \cup LeafKinds, name : Seq(TextSymbols),
              content : Seq(TextSymbols), classes : Seq(Seq(TextSymbols)),
              annotation : Seq(TextSymbols)]

\* Every variable keeps its type, and the open node can have children.
TypeOK ==
  /\ text \in Seq(TextSymbols) /\ pos \in 0..Len(text) /\ state \in TokenStates
  /\ result \in Seq(TextSymbols) /\ annotation \in Seq(TextSymbols)
  /\ classes \in Seq(Seq(TextSymbols)) /\ buffer \in Seq(TextSymbols)
  /\ token \in TokenType
  /\ nodes \in Seq(NodeType) /\ current \in NodeNumbers
  /\ nodes[current].kind \notin LeafKinds
  /\ kind \in Kinds /\ langs \in Seq(Seq(TextSymbols))

\* The nodes form a tree: each but the head is a child of its parent, once, and
\* of no other node, and it was created after its parent.
TreeShape ==
  \A i \in NodeNumbers :
    /\ i > 1 => /\ nodes[i].parent \in 1 .. i - 1
                /\ \E j \in DOMAIN nodes[nodes[i].parent].children :
                     nodes[nodes[i].parent].children[j] = i
    /\ \A j \in DOMAIN nodes[i].children :
         /\ nodes[i].children[j] \in i + 1 .. Len(nodes)
         /\ nodes[nodes[i].children[j]].parent = i
         /\ \A l \in 1 .. j - 1 : nodes[i].children[l] < nodes[i].children[j]

\* Whatever the tags and their order, a ruby text is a child of a ruby.
RubyTextInRuby ==
  \A i \in NodeNumbers : nodes[i].kind = "RUBY_TEXT" => nodes[nodes[i].parent].kind = "RUBY"

\* The languages of the language tags around a node.
Around[i \in NodeNumbers] ==
  IF i = 1 THEN << >>
  ELSE IF nodes[i].kind = "LANG" THEN Append(Around[nodes[i].parent], nodes[i].lang)
  ELSE Around[nodes[i].parent]

\* The two records of open languages agree: a node other than a language tag has the
\* language of the node around it, and the languages on the stack are those of the
\* language tags that are open, in whatever order tags are closed.
LangsSound ==
  /\ \A i \in NodeNumbers : (i > 1 /\ nodes[i].kind \notin LeafKinds \cup {"LANG"})
       => nodes[i].lang = nodes[nodes[i].parent].lang
  /\ langs = Around[current]

\* The tree, read from the head along the children, each node with its depth.
Depth[i \in NodeNumbers] == IF i = 1 THEN 0 ELSE Depth[nodes[i].parent] + 1
Below[i \in NodeNumbers] ==
  <<i>> \o FlattenSeq([j \in DOMAIN nodes[i].children |-> Below[nodes[i].children[j]]])
Outline ==
  LET order == Tail(Below[1])
  IN  [j \in DOMAIN order |->
        LET n == nodes[order[j]]
        IN  Entry(Depth[order[j]], n.kind, n.lang, n.annotation, n.classes, n.content)]

\* The tokenizer and the tree together read a text as its markup says: the same
\* nodes, in the same places, with the same classes, annotations, languages and
\* text, but for the texts that CueMarkup names as read in another way.
TreeExact ==
  (Done /\ ~HasUnknownLetter(text) /\ ~HasSpaceAfterClass(text) /\ ~HasOmittedEnd(text))
    => Outline = MarkupOf(text)

\* The call returns, whatever the text: no state of the tokenizer waits for a
\* symbol that never comes, and no token leaves the text where it was.
Returns == <>Done

=============================================================================
