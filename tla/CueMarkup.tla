------------------------------ MODULE CueMarkup ------------------------------
(***************************************************************************)
(* The text of a cue, and the tree it describes when it is read as markup: *)
(* cut into tags and the text between them, each read as a whole.  Nothing *)
(* here knows about the states of a tokenizer or about nodes.              *)
(*                                                                         *)
(* LT, GT, AMP, SEMI, DOT, SLASH are the characters < > & ; . /; SP is any *)
(* white space, "7" any digit; b, v and x are one letter (x one that names *)
(* no tag), ruby, rt, lang, amp and lt a word.                             *)
(***************************************************************************)
EXTENDS Integers, Sequences, SequencesExt

Letters == {"b", "v", "x"}
Words == {"ruby", "rt", "lang", "amp", "lt"}
TextSymbols == {"LT", "GT", "AMP", "SEMI", "DOT", "SLASH", "SP", "7"} \cup Letters \cup Words

\* webvtt_node_kind_from_tag_name: a name of one byte that is no tag's leaves
\* the kind unset, and is no error.
KnownKind(name) ==
  CASE name = <<"b">>    -> "BOLD"
    [] name = <<"v">>    -> "VOICE"
    [] name = <<"ruby">> -> "RUBY"
    [] name = <<"rt">>   -> "RUBY_TEXT"
    [] name = <<"lang">> -> "LANG"
    [] OTHER             -> "INVALID"
OneByte(name) == Len(name) = 1 /\ name[1] \notin Words
KindOf(name) == IF KnownKind(name) = "INVALID" /\ OneByte(name) THEN "UNSET" ELSE KnownKind(name)

AcceptsAnnotation(name) == name \in {<<"v">>, <<"lang">>}

-----------------------------------------------------------------------------
(* The pieces of a text: its tags, without their brackets, and the runs of *)
(* text between them.  Only > ends a tag, and only < a run of text.        *)

Piece(tag, content) == [tag |-> tag, content |-> content]

Cut(acc, s) ==
  LET n == Len(acc.pieces)
      extended == [acc.pieces EXCEPT ![n].content = Append(@, s)]
  IN  CASE acc.inTag /\ s = "GT" -> [acc EXCEPT !.inTag = FALSE]
        [] acc.inTag /\ s # "GT" -> [acc EXCEPT !.pieces = extended]
        [] ~acc.inTag /\ s = "LT" ->
             [pieces |-> Append(acc.pieces, Piece(TRUE, << >>)), inTag |-> TRUE]
        [] OTHER ->
             [acc EXCEPT !.pieces = IF n # 0 /\ ~acc.pieces[n].tag THEN extended
                                    ELSE Append(acc.pieces, Piece(FALSE, <<s>>))]

\* The pieces of the first n symbols, and whether the last is a tag that is not ended.
Cuts(t) ==
  LET f[n \in 0 .. Len(t)] == IF n = 0 THEN [pieces |-> << >>, inTag |-> FALSE]
                             ELSE Cut(f[n - 1], t[n])
  IN  f
Pieces(t) == Cuts(t)[Len(t)].pieces

\* A run of text with its escapes, &amp; and &lt;, replaced; of its first n symbols.
EscapeTexts == {<<"AMP", "amp", "SEMI">>, <<"AMP", "lt", "SEMI">>}
EscapeEndsAt(t, n) == n > 2 /\ <<t[n - 2], t[n - 1], t[n]>> \in EscapeTexts
Plains(t) ==
  LET f[n \in 0 .. Len(t)] ==
        IF n = 0 THEN << >>
        ELSE IF EscapeEndsAt(t, n) THEN Append(f[n - 3], IF t[n - 1] = "amp" THEN "AMP" ELSE "LT")
        ELSE Append(f[n - 1], t[n])
  IN  f
Plain(t) == Plains(t)[Len(t)]

-----------------------------------------------------------------------------
(* One tag.                                                                *)

\* What comes before the first symbol of S in c, and what comes after it.
Places(c, S) == {i \in 1 .. Len(c) : c[i] \in S}
Before(c, S) == IF Places(c, S) = {} THEN c ELSE SubSeq(c, 1, Min(Places(c, S)) - 1)
After(c, S) == IF Places(c, S) = {} THEN << >> ELSE SubSeq(c, Min(Places(c, S)) + 1, Len(c))

IsEnd(c) == c # << >> /\ c[1] = "SLASH"
IsTime(c) == c # << >> /\ c[1] = "7"
TagName(c) == IF IsEnd(c) THEN Tail(c) ELSE Before(c, {"SP", "DOT"})

\* The part of a start tag between its name and its first white space.
ClassPart(c) == After(Before(c, {"SP"}), {"DOT"})
HasClasses(c) == Places(Before(c, {"SP"}), {"DOT"}) # {}
SplitAtDot(acc, s) == IF s = "DOT" THEN Append(acc, << >>)
                      ELSE Append(Front(acc), Append(Last(acc), s))
Dotted(c) ==
  LET f[n \in 0 .. Len(c)] == IF n = 0 THEN <<<< >>>> ELSE SplitAtDot(f[n - 1], c[n])
  IN  f
Classes(c) == IF HasClasses(c) THEN Dotted(ClassPart(c))[Len(ClassPart(c))] ELSE << >>
AnnotationOf(c) == IF AcceptsAnnotation(TagName(c)) THEN After(c, {"SP"}) ELSE << >>

-----------------------------------------------------------------------------
(* The tree, as its nodes in document order, each with its depth.          *)

Entry(depth, k, lang, note, css, content) ==
  [depth |-> depth, kind |-> k, lang |-> lang, annotation |-> note, classes |-> css,
   content |-> content]

\* open holds the kind and the language of the nodes that are open.
Top(r) == r.open[Len(r.open)]
InnerKind(r) == Top(r).kind
InnerLang(r) == Top(r).lang

AddLeaf(r, k, content) ==
  [r EXCEPT !.out = Append(@, Entry(Len(r.open), k, << >>, << >>, << >>, content))]

AddNode(r, k, c) ==
  LET lang == IF k = "LANG" THEN AnnotationOf(c) ELSE InnerLang(r)
      note == IF k = "LANG" THEN << >> ELSE AnnotationOf(c)
  IN  [r EXCEPT !.out = Append(@, Entry(Len(r.open), k, lang, note, Classes(c), << >>)),
                !.open = Append(@, [kind |-> k, lang |-> lang])]

\* An end tag closes the node it names, if that is the one that is open; the
\* end of a ruby closes its last ruby text too.
CloseNode(r, k) ==
  CASE InnerKind(r) = k -> [r EXCEPT !.open = Front(@)]
    [] InnerKind(r) = "RUBY_TEXT" /\ k = "RUBY" -> [r EXCEPT !.open = Front(Front(@))]
    [] OTHER -> r

Read(r, p) ==
  LET k == KnownKind(TagName(p.content))
  IN  CASE ~p.tag -> AddLeaf(r, "TEXT", Plain(p.content))
        [] p.tag /\ IsTime(p.content) -> AddLeaf(r, "TIME_STAMP", p.content)
        [] p.tag /\ IsEnd(p.content) -> IF k = "INVALID" THEN r ELSE CloseNode(r, k)
        [] OTHER -> IF k = "INVALID" \/ (k = "RUBY_TEXT" /\ InnerKind(r) # "RUBY")
                    THEN r ELSE AddNode(r, k, p.content)

Nothing == [out |-> << >>, open |-> <<[kind |-> "HEAD", lang |-> << >>]>>]
\* The tree of the first n pieces.
Reads(ps) ==
  LET f[n \in 0 .. Len(ps)] == IF n = 0 THEN Nothing ELSE Read(f[n - 1], ps[n])
  IN  f
MarkupOf(t) == Reads(Pieces(t))[Len(Pieces(t))].out

-----------------------------------------------------------------------------
(* Texts that the parser reads in another way.                             *)

Tags(t) == {p.content : p \in {q \in ToSet(Pieces(t)) : q.tag}}

\* A tag with a name of one byte that names no tag: it takes a kind left over
\* from elsewhere.
HasUnknownLetter(t) == \E c \in Tags(t) : ~IsTime(c) /\ KindOf(TagName(c)) = "UNSET"
\* A start tag with classes and white space after them: the white space ends it.
HasSpaceAfterClass(t) ==
  \E c \in Tags(t) : ~IsEnd(c) /\ ~IsTime(c) /\ HasClasses(c) /\ \E i \in DOMAIN c : c[i] = "SP"
\* The end of a ruby whose last ruby text is still open: only that is closed.
HasOmittedEnd(t) ==
  \E n \in DOMAIN Pieces(t) :
    LET p == Pieces(t)[n]
        r == Reads(Pieces(t))[n - 1]
    IN  p.tag /\ IsEnd(p.content) /\ KnownKind(TagName(p.content)) = "RUBY"
        /\ InnerKind(r) = "RUBY_TEXT"

=============================================================================
