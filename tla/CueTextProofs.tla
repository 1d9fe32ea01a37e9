---------------------------- MODULE CueTextProofs ----------------------------
(***************************************************************************)
(* Proofs about CueText: for every text and every value an uninitialised   *)
(* kind may have, the nodes form a tree, its inner nodes are no leaves,    *)
(* every ruby text is in a ruby, every node has the language around it,    *)
(* and the tree is the one that the text, read as markup, describes: the   *)
(* tokenizer gathers the pieces that Cuts cuts (Gathers), and the nodes    *)
(* that stand for pieces are, in their order, the rows that Reads reads    *)
(* off them (Fits).                                                        *)
(***************************************************************************)
EXTENDS CueText, FiniteSetTheorems, SequenceTheorems, WellFoundedInduction, TLAPS

\* The head is never closed, and only nodes that are no leaves have children:
\* what makes the parent of the open node a node that can be open.
HeadFirst == Len(nodes) >= 1 /\ nodes[1].kind = "HEAD"
InnerParents ==
  \A i \in NodeNumbers : i > 1 => /\ nodes[i].parent \in 1 .. i - 1
                                  /\ nodes[nodes[i].parent].kind \notin LeafKinds

IInv == TypeOK /\ HeadFirst /\ InnerParents /\ TreeShape /\ RubyTextInRuby

-----------------------------------------------------------------------------
(* The tokenizer changes nothing of the tree.                              *)

\* A symbol of the text, or the end of it.
LEMMA ChType ==
  ASSUME text \in Seq(TextSymbols), pos \in 0..Len(text)
  PROVE  /\ Ch \in TextSymbols \cup {"NUL"}
         /\ Ch # "NUL" => Ch \in TextSymbols /\ pos + 1 \in 0..Len(text)
  <1>1. CASE pos < Len(text)
    <2>1. text[pos + 1] \in TextSymbols
      BY <1>1
    <2> QED BY <1>1, <2>1 DEF Ch
  <1>2. CASE ~(pos < Len(text))
    BY <1>2 DEF Ch
  <1> QED BY <1>1, <1>2

\* The empty sequence is a sequence of anything, and has no element.
LEMMA EmptyIsSeq == \A S : << >> \in Seq(S) /\ Len(<< >>) = 0
  OBVIOUS

\* A token made of strings is a token.
LEMMA TokenOfType ==
  ASSUME NEW s \in TokenStates, NEW r \in Seq(TextSymbols), NEW c \in Seq(Seq(TextSymbols)),
         NEW a \in Seq(TextSymbols)
  PROVE  TokenOf(s, r, c, a) \in TokenType
  BY EmptyIsSeq DEF TokenOf, Token, TokenType, TokenStates, LeafKinds

\* A step of the tokenizer that keeps the types keeps the invariant.
LEMMA TokenizerKeeps ==
  ASSUME IInv, UNCHANGED <<text, tree>>,
         pos' \in 0..Len(text), state' \in TokenStates,
         result' \in Seq(TextSymbols), annotation' \in Seq(TextSymbols),
         classes' \in Seq(Seq(TextSymbols)), buffer' \in Seq(TextSymbols), token' \in TokenType
  PROVE  IInv'
  BY DEF IInv, TypeOK, HeadFirst, InnerParents, TreeShape, RubyTextInRuby, NodeNumbers, tree

\* Completing a token does.
LEMMA CompleteKeeps ==
  ASSUME IInv, NEW s \in TokenStates, NEW r \in Seq(TextSymbols),
         NEW c \in Seq(Seq(TextSymbols)), NEW a \in Seq(TextSymbols), Complete(s, r, c, a)
  PROVE  IInv'
  <1>1. token' \in TokenType
    BY TokenOfType DEF Complete
  <1>2. pos' \in 0..Len(text)
    BY ChType DEF Complete, IInv, TypeOK
  <1>3. state' \in TokenStates
    BY DEF Complete, TokenStates
  <1> QED
    BY <1>1, <1>2, <1>3, EmptyIsSeq, TokenizerKeeps DEF Complete

\* So does going on with a symbol.
LEMMA GoKeeps ==
  ASSUME IInv, NEW s \in TokenStates, Go(s), Ch # "NUL",
         result' \in Seq(TextSymbols), annotation' \in Seq(TextSymbols),
         classes' \in Seq(Seq(TextSymbols)), buffer' \in Seq(TextSymbols)
  PROVE  IInv'
  <1>1. pos' \in 0..Len(text) /\ token' \in TokenType
    BY ChType DEF Go, IInv, TypeOK
  <1> QED
    BY <1>1, TokenizerKeeps DEF Go

\* What the tokenizer has gathered, with the symbol it is at, are strings.
LEMMA Strings ==
  ASSUME IInv
  PROVE  /\ Ch # "NUL" => /\ Append(result, Ch) \in Seq(TextSymbols)
                          /\ Append(annotation, Ch) \in Seq(TextSymbols)
                          /\ Append(buffer, Ch) \in Seq(TextSymbols)
                          /\ <<Ch>> \in Seq(TextSymbols)
         /\ Append(classes, buffer) \in Seq(Seq(TextSymbols))
         /\ \A rest \in Seq(TextSymbols) : AsText(rest) \in Seq(TextSymbols)
         /\ result \o Unescaped(buffer) \in Seq(TextSymbols)
         /\ <<"AMP">> \in Seq(TextSymbols)
         /\ result \in Seq(TextSymbols) /\ annotation \in Seq(TextSymbols)
         /\ classes \in Seq(Seq(TextSymbols)) /\ buffer \in Seq(TextSymbols)
  <1>1. /\ result \in Seq(TextSymbols) /\ annotation \in Seq(TextSymbols)
        /\ classes \in Seq(Seq(TextSymbols)) /\ buffer \in Seq(TextSymbols)
    BY DEF IInv, TypeOK
  <1>2. Ch # "NUL" => Ch \in TextSymbols
    BY ChType DEF IInv, TypeOK
  <1>3. {"AMP", "LT", "SEMI"} \subseteq TextSymbols
    BY DEF TextSymbols
  <1>4. <<"AMP">> \in Seq(TextSymbols) /\ <<"LT">> \in Seq(TextSymbols)
        /\ Append(buffer, "SEMI") \in Seq(TextSymbols)
    BY <1>1, <1>3
  <1>5. Unescaped(buffer) \in Seq(TextSymbols)
    BY <1>4 DEF Unescaped
  <1>6. \A rest \in Seq(TextSymbols) : AsText(rest) \in Seq(TextSymbols)
    BY <1>1 DEF AsText
  <1> QED
    BY <1>1, <1>2, <1>4, <1>5, <1>6

\* Every step of the tokenizer keeps the invariant.
LEMMA TokenizeKeeps == IInv /\ Tokenize => IInv'
  <1> SUFFICES ASSUME IInv, Tokenize PROVE IInv'
    OBVIOUS
  <1>s. TokenStates = {"DATA", "ESCAPE", "TAG", "START_TAG", "START_TAG_CLASS",
                       "START_TAG_ANNOTATION", "END_TAG", "TIME_STAMP_TAG"}
    BY DEF TokenStates
  <1>1. CASE Data
    <2>1. CASE DataEscape
      BY <1>s, <2>1, Strings, GoKeeps DEF DataEscape
    <2>2. CASE DataTag
      BY <1>s, <2>2, Strings, GoKeeps DEF DataTag, gathered
    <2>3. CASE DataEnd
      BY <1>s, <2>3, Strings, CompleteKeeps DEF DataEnd
    <2>4. CASE DataChar
      BY <1>s, <2>4, Strings, GoKeeps DEF DataChar, Keep
    <2> QED BY <1>1, <2>1, <2>2, <2>3, <2>4 DEF Data
  <1>2. CASE Escape
    <2>1. CASE EscapeEnd
      BY <1>s, <2>1, Strings, EmptyIsSeq, CompleteKeeps DEF EscapeEnd
    <2>2. CASE EscapeAgain
      BY <1>s, <2>2, Strings, EmptyIsSeq, GoKeeps DEF EscapeAgain
    <2>3. CASE EscapeClose
      BY <1>s, <2>3, Strings, EmptyIsSeq, GoKeeps DEF EscapeClose
    <2>4. CASE EscapeName
      BY <1>s, <2>4, Strings, GoKeeps DEF EscapeName, AlphaNumeric, Letters, Words
    <2>5. CASE EscapeBad
      BY <1>s, <2>5, Strings, EmptyIsSeq, GoKeeps DEF EscapeBad
    <2> QED BY <1>2, <2>1, <2>2, <2>3, <2>4, <2>5 DEF Escape
  <1>3. CASE StartTag
    <2>1. CASE TagEnd
      BY <1>s, <2>1, Strings, CompleteKeeps DEF TagEnd
    <2>2. CASE TagOpens
      BY <1>s, <2>2, Strings, GoKeeps DEF TagOpens, TagEnds, gathered, Keep
    <2>3. CASE StartTagEnd
      BY <1>s, <2>3, Strings, CompleteKeeps DEF StartTagEnd
    <2>4. CASE StartTagGoes
      BY <1>s, <2>4, Strings, GoKeeps DEF StartTagGoes, TagEnds, gathered, Keep
    <2> QED BY <1>3, <2>1, <2>2, <2>3, <2>4 DEF StartTag
  <1>4. CASE Class
    <2>1. CASE ClassEnd
      BY <1>s, <2>1, Strings, CompleteKeeps DEF ClassEnd
    <2>2. CASE ClassSpace
      BY <1>s, <2>2, Strings, CompleteKeeps DEF ClassSpace
    <2>3. CASE ClassNext
      BY <1>s, <2>3, Strings, EmptyIsSeq, GoKeeps DEF ClassNext
    <2>4. CASE ClassChar
      BY <1>s, <2>4, Strings, GoKeeps DEF ClassChar, TagEnds
    <2> QED BY <1>4, <2>1, <2>2, <2>3, <2>4 DEF Class
  <1>5. CASE Rest
    <2>1. CASE AnnotationEnd
      BY <1>s, <2>1, Strings, CompleteKeeps DEF AnnotationEnd
    <2>2. CASE AnnotationChar
      BY <1>s, <2>2, Strings, GoKeeps DEF AnnotationChar, TagEnds
    <2>3. CASE PlainEnd
      BY <1>s, <2>3, Strings, CompleteKeeps DEF PlainEnd, PlainTags
    <2>4. CASE PlainChar
      BY <1>s, <2>4, Strings, GoKeeps DEF PlainChar, PlainTags, TagEnds, Keep
    <2> QED BY <1>5, <2>1, <2>2, <2>3, <2>4 DEF Rest
  <1> QED BY <1>1, <1>2, <1>3, <1>4, <1>5 DEF Tokenize

-----------------------------------------------------------------------------
(* What a token does to the tree.                                          *)

\* A node made of strings is a node without children.
LEMMA NodeIsNode ==
  ASSUME NEW k \in Kinds, NEW p \in Nat
  PROVE  /\ Node(k, p) \in NodeType /\ Node(k, p).kind = k /\ Node(k, p).parent = p
         /\ Node(k, p).children = << >>
  BY EmptyIsSeq DEF Node, NodeType

\* A node with one more child is a node, and is otherwise as it was.
LEMMA WithChildType ==
  ASSUME NEW m \in NodeType, NEW i \in Nat
  PROVE  /\ WithChild(m, i) \in NodeType
         /\ WithChild(m, i).kind = m.kind /\ WithChild(m, i).parent = m.parent
         /\ WithChild(m, i).lang = m.lang
         /\ WithChild(m, i).children = Append(m.children, i)
         /\ m.children \in Seq(Nat)
  <1>1. m.children \in Seq(Nat)
    BY DEF NodeType
  <1>2. PICK c : c = Append(m.children, i)
    OBVIOUS
  <1>3. c \in Seq(Nat)
    BY <1>1, <1>2
  <1>4. WithChild(m, i) = [m EXCEPT !.children = c]
    BY <1>2 DEF WithChild
  <1>5. /\ [m EXCEPT !.children = c] \in NodeType
        /\ [m EXCEPT !.children = c].kind = m.kind
        /\ [m EXCEPT !.children = c].lang = m.lang
        /\ [m EXCEPT !.children = c].parent = m.parent
        /\ [m EXCEPT !.children = c].children = c
    BY <1>3 DEF NodeType
  <1> QED
    BY <1>1, <1>2, <1>4, <1>5

\* Attaching puts the new node at the end, and its number at the end of the
\* children of the open node; nothing else of any node changes.
LEMMA AttachedNodes ==
  ASSUME IInv, NEW n \in NodeType
  PROVE  /\ Attached(n) \in Seq(NodeType)
         /\ Len(Attached(n)) = Len(nodes) + 1
         /\ Attached(n)[Len(nodes) + 1] = n
         /\ \A i \in 1..Len(nodes) :
              /\ Attached(n)[i].kind = nodes[i].kind
              /\ Attached(n)[i].parent = nodes[i].parent
              /\ Attached(n)[i].lang = nodes[i].lang
              /\ i # current => Attached(n)[i].children = nodes[i].children
              /\ nodes[i].children \in Seq(Nat)
         /\ Attached(n)[current].children = Append(nodes[current].children, Len(nodes) + 1)
  <1> DEFINE new == Len(nodes) + 1
             with == [nodes EXCEPT ![current] = WithChild(@, new)]
  <1>1. nodes \in Seq(NodeType) /\ current \in 1..Len(nodes) /\ new \in Nat
    BY DEF IInv, TypeOK, NodeNumbers
  <1>2. \A i \in 1..Len(nodes) : nodes[i] \in NodeType
    BY <1>1
  <1>9. /\ WithChild(nodes[current], new) \in NodeType
        /\ WithChild(nodes[current], new).kind = nodes[current].kind
        /\ WithChild(nodes[current], new).parent = nodes[current].parent
        /\ WithChild(nodes[current], new).lang = nodes[current].lang
        /\ WithChild(nodes[current], new).children = Append(nodes[current].children, new)
    BY <1>1, <1>2, WithChildType
  <1>3. with \in Seq(NodeType) /\ Len(with) = Len(nodes)
    BY <1>1, <1>9
  <1>4. \A i \in 1..Len(nodes) :
          with[i] = IF i = current THEN WithChild(nodes[i], new) ELSE nodes[i]
    BY <1>1
  <1>5. /\ \A i \in 1..Len(nodes) :
             /\ with[i].kind = nodes[i].kind /\ with[i].parent = nodes[i].parent
             /\ with[i].lang = nodes[i].lang
             /\ i # current => with[i].children = nodes[i].children
             /\ nodes[i].children \in Seq(Nat)
        /\ with[current].children = Append(nodes[current].children, new)
    <2>1. \A i \in 1..Len(nodes) : nodes[i].children \in Seq(Nat)
      BY <1>1, <1>2, WithChildType
    <2>2. with[current] = WithChild(nodes[current], new)
      BY <1>1, <1>4
    <2>3. \A i \in 1..Len(nodes) : i # current => with[i] = nodes[i]
      BY <1>4
    <2> HIDE DEF with, new
    <2> QED BY <1>1, <1>9, <2>1, <2>2, <2>3
  <1>6. Attached(n) = Append(with, n)
    BY DEF Attached
  <1>7. \A i \in 1..Len(nodes) : Append(with, n)[i] = with[i]
    BY <1>3
  <1>8. /\ Append(with, n) \in Seq(NodeType) /\ Len(Append(with, n)) = new
        /\ Append(with, n)[new] = n
    BY <1>1, <1>3
  <1> HIDE DEF with
  <1> QED
    BY <1>1, <1>5, <1>6, <1>7, <1>8

\* With a new node that is a child of the open one, and no misplaced ruby text,
\* the nodes still are the tree the invariant speaks of.
LEMMA AttachKeeps ==
  ASSUME IInv, NEW n \in NodeType, n.parent = current, n.children = << >>,
         n.kind = "RUBY_TEXT" => nodes[current].kind = "RUBY",
         nodes' = Attached(n)
  PROVE  HeadFirst' /\ InnerParents' /\ TreeShape' /\ RubyTextInRuby'
         /\ nodes' \in Seq(NodeType) /\ DOMAIN nodes' = 1 .. Len(nodes) + 1
         /\ nodes'[current].kind = nodes[current].kind
         /\ nodes'[Len(nodes) + 1] = n
  <1> DEFINE new == Len(nodes) + 1
  <1>1. /\ nodes \in Seq(NodeType) /\ DOMAIN nodes = 1..Len(nodes) /\ current \in 1..Len(nodes)
        /\ nodes[current].kind \notin LeafKinds /\ Len(nodes) \in Nat
    BY DEF IInv, TypeOK, NodeNumbers
  <1>2. /\ nodes' \in Seq(NodeType) /\ DOMAIN nodes' = 1..new /\ Len(nodes') = new
        /\ nodes'[new] = n
        /\ \A i \in 1..Len(nodes) : /\ nodes'[i].kind = nodes[i].kind
                                    /\ nodes'[i].parent = nodes[i].parent
                                    /\ i # current => nodes'[i].children = nodes[i].children
                                    /\ nodes[i].children \in Seq(Nat)
        /\ nodes'[current].children = Append(nodes[current].children, new)
    <2>1. /\ nodes' \in Seq(NodeType) /\ Len(nodes') = new
      BY AttachedNodes
    <2>2. /\ Attached(n)[new] = n
          /\ \A i \in 1..Len(nodes) : /\ Attached(n)[i].kind = nodes[i].kind
                                      /\ Attached(n)[i].parent = nodes[i].parent
                                      /\ i # current => Attached(n)[i].children = nodes[i].children
                                      /\ nodes[i].children \in Seq(Nat)
          /\ Attached(n)[current].children = Append(nodes[current].children, new)
      BY AttachedNodes
    <2> QED BY <1>1, <2>1, <2>2
  <1>3. HeadFirst'
    <2>1. Len(nodes) >= 1 /\ nodes[1].kind = "HEAD"
      BY DEF IInv, HeadFirst
    <2>2. 1 \in 1..Len(nodes) /\ new >= 1
      BY <1>1, <2>1
    <2>3. nodes'[1].kind = "HEAD"
      BY <1>2, <2>1, <2>2
    <2>4. Len(nodes') >= 1
      BY <1>2, <2>2
    <2> QED BY <2>3, <2>4 DEF HeadFirst
  <1>4. InnerParents'
    <2> SUFFICES ASSUME NEW i \in 1..new, i > 1
                 PROVE  /\ nodes'[i].parent \in 1 .. i - 1
                        /\ nodes'[nodes'[i].parent].kind \notin LeafKinds
      BY <1>2 DEF InnerParents, NodeNumbers
    <2>1. CASE i = new
      BY <1>1, <1>2, <2>1
    <2>2. CASE i \in 1..Len(nodes)
      <3>1. nodes[i].parent \in 1 .. i - 1 /\ nodes[nodes[i].parent].kind \notin LeafKinds
        BY <1>1, <2>2 DEF IInv, InnerParents, NodeNumbers
      <3>2. nodes[i].parent \in 1..Len(nodes)
        BY <1>1, <2>2, <3>1
      <3> QED BY <1>2, <2>2, <3>1, <3>2
    <2> QED BY <1>1, <2>1, <2>2
  <1>5. RubyTextInRuby'
    <2> SUFFICES ASSUME NEW i \in 1..new, nodes'[i].kind = "RUBY_TEXT"
                 PROVE  nodes'[nodes'[i].parent].kind = "RUBY"
      BY <1>2 DEF RubyTextInRuby, NodeNumbers
    <2>1. CASE i = new
      BY <1>1, <1>2, <2>1
    <2>2. CASE i \in 1..Len(nodes)
      <3>1. nodes[i].kind = "RUBY_TEXT" /\ nodes[nodes[i].parent].kind = "RUBY"
        BY ZenonT(30), <1>1, <1>2, <2>2 DEF IInv, RubyTextInRuby, NodeNumbers
      <3>2. i # 1
        BY <3>1 DEF IInv, HeadFirst
      <3>3. nodes[i].parent \in 1..Len(nodes)
        <4>1. nodes[i].parent \in 1 .. i - 1
          BY <1>1, <2>2, <3>2 DEF IInv, InnerParents, NodeNumbers
        <4> QED BY <1>1, <2>2, <4>1
      <3> QED BY <1>2, <2>2, <3>1, <3>3
    <2> QED BY <1>1, <2>1, <2>2
  <1>6. TreeShape'
    <2>1. \A i \in 1..new : i > 1 =>
            \E j \in DOMAIN nodes'[nodes'[i].parent].children :
               nodes'[nodes'[i].parent].children[j] = i
      <3> SUFFICES ASSUME NEW i \in 1..new, i > 1
                   PROVE  \E j \in DOMAIN nodes'[nodes'[i].parent].children :
                             nodes'[nodes'[i].parent].children[j] = i
        OBVIOUS
      <3> DEFINE kids == nodes[current].children
      <3>0. kids \in Seq(Nat) /\ nodes'[current].children = Append(kids, new)
        BY <1>1, <1>2
      <3>1. CASE i = new
        <4>1. nodes'[i].parent = current
          BY <1>2, <3>1
        <4>2. Len(kids) + 1 \in DOMAIN Append(kids, new) /\ Append(kids, new)[Len(kids) + 1] = new
          BY <1>1, <3>0
        <4> QED BY <3>0, <3>1, <4>1, <4>2
      <3>2. CASE i \in 1..Len(nodes)
        <4>1. nodes[i].parent \in 1..Len(nodes) /\ nodes'[i].parent = nodes[i].parent
          <5>1. nodes[i].parent \in 1 .. i - 1
            BY <1>1, <3>2 DEF IInv, TreeShape, NodeNumbers
          <5> QED BY <1>1, <1>2, <3>2, <5>1
        <4>2. PICK j \in DOMAIN nodes[nodes[i].parent].children :
                nodes[nodes[i].parent].children[j] = i
          BY <1>1, <3>2 DEF IInv, TreeShape, NodeNumbers
        <4>3. CASE nodes[i].parent = current
          <5>1. j \in DOMAIN Append(kids, new) /\ Append(kids, new)[j] = i
            BY <1>1, <3>0, <4>2, <4>3
          <5> QED BY <3>0, <4>1, <4>3, <5>1
        <4>4. CASE nodes[i].parent # current
          BY <1>2, <4>1, <4>2, <4>4
        <4> QED BY <4>3, <4>4
      <3> QED BY <1>1, <3>1, <3>2
    <2>2. \A i \in 1..new : \A j \in DOMAIN nodes'[i].children :
            /\ nodes'[i].children[j] \in i + 1 .. new
            /\ nodes'[nodes'[i].children[j]].parent = i
            /\ \A l \in 1 .. j - 1 : nodes'[i].children[l] < nodes'[i].children[j]
      <3> SUFFICES ASSUME NEW i \in 1..new, NEW j \in DOMAIN nodes'[i].children
                   PROVE  /\ nodes'[i].children[j] \in i + 1 .. new
                          /\ nodes'[nodes'[i].children[j]].parent = i
                          /\ \A l \in 1 .. j - 1 : nodes'[i].children[l] < nodes'[i].children[j]
        OBVIOUS
      <3>1. i # new
        BY <1>2
      <3>2. i \in 1..Len(nodes)
        BY <1>1, <3>1
      <3> DEFINE kids == nodes[i].children
      <3>3. kids \in Seq(Nat)
        BY <1>2, <3>2
      <3>4. \A m \in DOMAIN kids : /\ kids[m] \in i + 1 .. Len(nodes)
                                   /\ nodes[kids[m]].parent = i
                                   /\ \A l \in 1 .. m - 1 : kids[l] < kids[m]
        BY <1>1, <3>2 DEF IInv, TreeShape, NodeNumbers
      <3>5. CASE j \in DOMAIN kids
        <4>0. j \in 1..Len(kids)
          BY <3>3, <3>5
        <4>1. \A l \in 1..j : nodes'[i].children[l] = kids[l]
          <5>1. CASE i = current
            <6>1. \A l \in 1..Len(kids) : Append(kids, new)[l] = kids[l]
              BY <3>3
            <6>2. nodes'[i].children = Append(kids, new)
              BY <1>2, <5>1
            <6> HIDE DEF kids
            <6> QED BY <3>3, <4>0, <6>1, <6>2
          <5>2. CASE i # current
            BY <1>2, <3>2, <5>2
          <5> QED BY <5>1, <5>2
        <4>2. nodes'[i].children[j] = kids[j]
          BY SMTT(20), <3>3, <3>5, <4>1
        <4>3. kids[j] \in 1..Len(nodes)
          BY <1>1, <3>2, <3>4, <3>5
        <4>4. nodes'[kids[j]].parent = i
          BY <1>2, <3>4, <3>5, <4>3
        <4>5. \A l \in 1 .. j - 1 : nodes'[i].children[l] < kids[j]
          BY SMTT(20), <3>4, <3>5, <4>0, <4>1
        <4> QED BY <1>1, <3>2, <3>4, <3>5, <4>2, <4>4, <4>5
      <3>6. CASE j \notin DOMAIN kids
        <4>1. i = current
          BY <1>2, <3>2, <3>6
        <4>2. j = Len(kids) + 1 /\ nodes'[i].children = Append(kids, new)
          BY <1>2, <3>3, <3>6, <4>1
        <4>3. nodes'[i].children[j] = new
          BY <3>3, <4>2
        <4>4. \A l \in 1 .. j - 1 : nodes'[i].children[l] < new
          BY <1>1, <3>2, <3>3, <3>4, <4>2, SMTT(30)
        <4> QED BY <1>1, <1>2, <3>2, <4>1, <4>3, <4>4
      <3> QED BY <3>5, <3>6
    <2> QED
      BY <1>2, <1>4, <2>1, <2>2 DEF TreeShape, InnerParents, NodeNumbers
  <1> QED
    BY <1>1, <1>2, <1>3, <1>4, <1>5, <1>6

-----------------------------------------------------------------------------
(* The steps of webvtt_parse_cuetext.                                      *)

\* A name of one byte has any kind the variable may hold, any other name the
\* kind of its tag; none is left when the name is invalid.
LEMMA KindOfType ==
  ASSUME NEW name \in Seq(TextSymbols)
  PROVE  KindOf(name) \in InternalKinds \cup {"UNSET", "INVALID"}
  BY DEF KindOf, KnownKind, InternalKinds

\* The node of a text or of a time stamp.
LeafNode(n) ==
  /\ n \in NodeType /\ n.kind \in LeafKinds /\ n.parent = current /\ n.children = << >>

\* What a text or a time stamp becomes is one,
LEMMA LeafIsNode ==
  ASSUME IInv, Leaf
  PROVE  LeafNode([Node(token.type, current) EXCEPT !.content = token.content])
  <1> DEFINE m == Node(token.type, current)
             n == [m EXCEPT !.content = token.content]
  <1>1. token.type \in LeafKinds /\ token.type \in Kinds /\ current \in Nat
        /\ token.content \in Seq(TextSymbols)
    BY DEF Leaf, Kinds, IInv, TypeOK, TokenType, NodeNumbers
  <1>2. m \in NodeType /\ m.kind = token.type /\ m.parent = current /\ m.children = << >>
    BY <1>1, NodeIsNode
  <1>3. n = [m EXCEPT !.content = token.content]
    OBVIOUS
  <1> HIDE DEF m, n
  <1>4. n \in NodeType /\ n.kind = m.kind /\ n.parent = m.parent /\ n.children = m.children
    BY <1>1, <1>2, <1>3 DEF NodeType
  <1>5. LeafNode(n)
    BY <1>1, <1>2, <1>4 DEF LeafNode
  <1> QED BY <1>3, <1>5 DEF m

\* The node of a start tag.
OpenedNode(k) ==
  /\ Opened(k) \in NodeType /\ Opened(k).kind = k /\ Opened(k).parent = current
  /\ Opened(k).children = << >>
  /\ Opened(k).lang = IF k = "LANG" THEN token.annotation
                      ELSE IF langs = << >> THEN << >> ELSE Last(langs)

\* and so is what a start tag becomes.
LEMMA OpenedIsNode ==
  ASSUME IInv, StartOpens, NEW k \in StartKinds PROVE OpenedNode(k)
  <1> DEFINE m == Node(k, current)
  <1>1. /\ current \in Nat /\ langs \in Seq(Seq(TextSymbols)) /\ token.name \in Seq(TextSymbols)
        /\ token.classes \in Seq(Seq(TextSymbols)) /\ token.annotation \in Seq(TextSymbols)
    BY DEF IInv, TypeOK, TokenType, NodeNumbers
  <1>2. k \in Kinds
    <2>1. KindOf(token.name) \in InternalKinds \cup {"UNSET"}
      BY <1>1, KindOfType DEF StartOpens
    <2> QED BY <2>1, UnsetAssumption DEF StartKinds, Kinds
  <1>3. m \in NodeType /\ m.kind = k /\ m.parent = current /\ m.children = << >>
    BY <1>1, <1>2, NodeIsNode
  <1>4. PICK l \in Seq(TextSymbols) : l = IF langs = << >> THEN << >> ELSE Last(langs)
    BY <1>1, EmptyIsSeq DEF Last
  <1>5. Opened(k) = IF k = "LANG"
                    THEN [m EXCEPT !.classes = token.classes, !.lang = token.annotation]
                    ELSE [m EXCEPT !.classes = token.classes,
                                   !.annotation = token.annotation, !.lang = l]
    BY <1>3, <1>4 DEF Opened, NodeType
  <1> HIDE DEF m
  <1> QED BY <1>1, <1>3, <1>4, <1>5 DEF OpenedNode, NodeType

\* Every step that adds a token to the tree keeps the invariant.
LEMMA BuildKeeps == IInv /\ Build => IInv'
  <1> SUFFICES ASSUME IInv, Build PROVE IInv'
    OBVIOUS
  <1>1. /\ nodes \in Seq(NodeType) /\ DOMAIN nodes = 1..Len(nodes) /\ current \in 1..Len(nodes)
        /\ nodes[current].kind \notin LeafKinds /\ Len(nodes) \in Nat
        /\ token \in TokenType /\ kind \in Kinds /\ langs \in Seq(Seq(TextSymbols))
    BY DEF IInv, TypeOK, NodeNumbers
  <1>2. /\ token.name \in Seq(TextSymbols) /\ token.content \in Seq(TextSymbols)
        /\ token.classes \in Seq(Seq(TextSymbols)) /\ token.annotation \in Seq(TextSymbols)
    BY <1>1 DEF TokenType
  <1>3. NoToken \in TokenType
    BY EmptyIsSeq DEF NoToken, Token, TokenType
  <1>4. InternalKinds \subseteq Kinds /\ LeafKinds \subseteq Kinds /\ UnsetKinds \subseteq Kinds
    BY UnsetAssumption DEF Kinds
  \* A token that is thrown away.
  <1>5. ASSUME NEW type, Take(type), UNCHANGED tree
        PROVE  IInv'
    BY <1>3, <1>5, TokenizerKeeps
       DEF Take, tokenizer, gathered, IInv, TypeOK
  \* What is left to show when the nodes stay, or get one more.
  <1>6. ASSUME NEW type, Take(type), nodes' \in Seq(NodeType), current' \in DOMAIN nodes',
               nodes'[current'].kind \notin LeafKinds, kind' \in Kinds,
               langs' \in Seq(Seq(TextSymbols))
        PROVE  TypeOK'
    BY <1>3, <1>6 DEF Take, tokenizer, gathered, IInv, TypeOK, NodeNumbers
  <1>7. CASE End
    <2>1. CASE EndAtHead
      BY <1>5, <2>1 DEF EndAtHead, ThrownAway
    <2>2. CASE EndUnknown
      BY <1>5, <2>2 DEF EndUnknown, ThrownAway
    <2>3. EndNamed => EndKind \in Kinds
      <3>1. EndNamed => KindOf(token.name) \in InternalKinds \cup {"UNSET"}
        BY <1>2, KindOfType DEF EndNamed
      <3>2. "UNSET" \notin Kinds
        BY DEF Kinds, InternalKinds, LeafKinds
      <3> QED BY <1>1, <1>4, <3>1, <3>2 DEF EndKind
    <2>4. CASE EndCloses
      <3>1. current # 1
        BY <2>4 DEF EndCloses, EndNamed, IInv, HeadFirst
      <3>2. /\ nodes[current].parent \in 1 .. current - 1
            /\ nodes[nodes[current].parent].kind \notin LeafKinds
        <4>1. current \in NodeNumbers /\ current > 1
          BY <1>1, <3>1 DEF NodeNumbers
        <4> QED BY <4>1 DEF IInv, InnerParents
      <3>3. LangsClosed(EndKind) \in Seq(Seq(TextSymbols))
        BY <1>1 DEF LangsClosed, Front
      <3>4. nodes' = nodes /\ current' \in 1..Len(nodes) /\ nodes[current'].kind \notin LeafKinds
        BY <1>1, <2>4, <3>2 DEF EndCloses
      <3>5. TypeOK'
        BY <1>1, <1>6, <2>3, <2>4, <3>3, <3>4 DEF EndCloses, EndNamed
      <3> QED
        BY <3>4, <3>5 DEF IInv, HeadFirst, InnerParents, TreeShape, RubyTextInRuby, NodeNumbers
    <2>5. CASE EndIgnored
      <3>1. TypeOK'
        BY <1>1, <1>6, <2>3, <2>5 DEF EndIgnored, EndNamed
      <3> QED
        BY <2>5, <3>1 DEF EndIgnored, IInv, HeadFirst, InnerParents, TreeShape, RubyTextInRuby, NodeNumbers
    <2> QED BY <1>7, <2>1, <2>2, <2>4, <2>5 DEF End
  <1>8. CASE Leaf
    <2> DEFINE n == [Node(token.type, current) EXCEPT !.content = token.content]
    <2>2. n \in NodeType /\ n.kind \in LeafKinds /\ n.parent = current /\ n.children = << >>
      BY <1>8, LeafIsNode DEF LeafNode
    <2>3. n.kind # "RUBY_TEXT" /\ nodes' = Attached(n) /\ current' = current /\ kind' = kind
          /\ langs' = langs /\ Take(token.type)
      BY <1>8, <2>2 DEF Leaf, LeafKinds
    <2> HIDE DEF n
    <2>4. /\ HeadFirst' /\ InnerParents' /\ TreeShape' /\ RubyTextInRuby'
          /\ nodes' \in Seq(NodeType) /\ DOMAIN nodes' = 1 .. Len(nodes) + 1
          /\ nodes'[current].kind = nodes[current].kind
      BY <2>2, <2>3, AttachKeeps
    <2>5. TypeOK'
      BY <1>1, <1>6, <2>3, <2>4
    <2> QED BY <2>4, <2>5 DEF IInv
  <1>9. CASE StartInvalid
    BY <1>5, <1>9 DEF StartInvalid, ThrownAway
  <1>10. CASE StartOutOfPlace
    BY <1>5, <1>10 DEF StartOutOfPlace, ThrownAway
  <1>11. CASE StartOpens
    <2>1. PICK k \in StartKinds :
            /\ ~OutOfPlace(k)
            /\ nodes' = Attached(Opened(k))
            /\ langs' = IF k = "LANG" THEN Append(langs, token.annotation) ELSE langs
            /\ current' = Entered(k, Len(nodes) + 1)
      BY <1>11 DEF StartOpens
    <2>3. Opened(k) \in NodeType /\ Opened(k).kind = k /\ Opened(k).parent = current
          /\ Opened(k).children = << >>
      BY <1>11, OpenedIsNode DEF OpenedNode
    <2>4. k = "RUBY_TEXT" => nodes[current].kind = "RUBY"
      BY <2>1 DEF OutOfPlace
    <2>5. /\ HeadFirst' /\ InnerParents' /\ TreeShape' /\ RubyTextInRuby'
          /\ nodes' \in Seq(NodeType) /\ DOMAIN nodes' = 1 .. Len(nodes) + 1
          /\ nodes'[current].kind = nodes[current].kind
          /\ nodes'[Len(nodes) + 1].kind = k
      BY <2>1, <2>3, <2>4, AttachKeeps
    <2>6. current' \in DOMAIN nodes' /\ nodes'[current'].kind \notin LeafKinds
      BY <1>1, <2>1, <2>5 DEF Entered
    <2>7. langs' \in Seq(Seq(TextSymbols))
      BY <1>1, <1>2, <2>1
    <2>8. TypeOK'
      BY <1>1, <1>6, <1>11, <2>5, <2>6, <2>7 DEF StartOpens
    <2> QED BY <2>5, <2>8 DEF IInv
  <1> QED BY <1>7, <1>8, <1>9, <1>10, <1>11 DEF Build

-----------------------------------------------------------------------------
(* The theorems.                                                           *)

\* The tree of the head alone is a tree.
LEMMA InitInvariant == Init => IInv
  <1> SUFFICES ASSUME Init PROVE IInv
    OBVIOUS
  <1>1. text \in Seq(TextSymbols) /\ pos \in 0..Len(text)
    BY TextsAssumption DEF Init
  <1>2. Node("HEAD", 0) \in NodeType /\ Node("HEAD", 0).kind = "HEAD"
        /\ Node("HEAD", 0).children = << >>
    BY NodeIsNode DEF Kinds
  <1>3. nodes \in Seq(NodeType) /\ DOMAIN nodes = {1} /\ Len(nodes) = 1
        /\ nodes[1].kind = "HEAD" /\ nodes[1].children = << >> /\ current = 1
    BY <1>2 DEF Init
  <1>4. NoToken \in TokenType /\ "DATA" \in TokenStates /\ "HEAD" \notin LeafKinds
    BY EmptyIsSeq DEF NoToken, Token, TokenType, TokenStates, LeafKinds
  <1>5. TypeOK
    BY <1>1, <1>3, <1>4, EmptyIsSeq, UnsetAssumption DEF Init, TypeOK, NodeNumbers
  <1> QED
    BY <1>3, <1>5, EmptyIsSeq DEF IInv, HeadFirst, InnerParents, TreeShape, RubyTextInRuby, NodeNumbers

\* Reading a text keeps the invariant: every step of the tokenizer, and
\* everything a token does to the tree.
THEOREM Invariant == Spec => []IInv
  <1>1. Init => IInv
    BY InitInvariant
  <1>2. IInv /\ [Next]_vars => IInv'
    <2> SUFFICES ASSUME IInv, [Next]_vars PROVE IInv'
      OBVIOUS
    <2>1. CASE UNCHANGED vars
      BY <2>1 DEF vars, tokenizer, gathered, tree, IInv, TypeOK, HeadFirst, InnerParents, TreeShape,
        RubyTextInRuby, NodeNumbers
    <2> QED BY <2>1, TokenizeKeeps, BuildKeeps DEF Next, Finished
  <1> QED BY <1>1, <1>2, PTL DEF Spec

\* Every variable keeps its type, and the open node can have children.
THEOREM TypeCorrect == Spec => []TypeOK
  <1>1. IInv => TypeOK
    BY DEF IInv
  <1> QED BY <1>1, Invariant, PTL

\* Whatever the tags of a text and their order, its nodes form one tree.
THEOREM NodesAreATree == Spec => []TreeShape
  <1>1. IInv => TreeShape
    BY DEF IInv
  <1> QED BY <1>1, Invariant, PTL

\* Whatever the tags of a text, and whatever an uninitialised kind may be, a
\* ruby text is a child of a ruby.
THEOREM RubyTextsInRuby == Spec => []RubyTextInRuby
  <1>1. IInv => RubyTextInRuby
    BY DEF IInv
  <1> QED BY <1>1, Invariant, PTL

-----------------------------------------------------------------------------
(* The languages.  Around is a recursive function: that its equation has a *)
(* solution, and no other, is a part of the invariant.                     *)

\* A set of numbers that is not empty has a least element.
LEMMA Least ==
  ASSUME NEW S \in SUBSET Nat, S # {} PROVE \E n \in S : \A m \in S : n <= m
  <1>1. PICK k \in S : TRUE
    OBVIOUS
  <1> DEFINE Spans == {X \in FiniteSubsetsOf(Nat) : \E n \in S : X = 0 .. n}
  <1>2. 0 .. k \in Spans
    BY FS_Interval DEF FiniteSubsetsOf
  <1>3. PICK X \in Spans : \A Y \in Spans : <<Y, X>> \notin StrictSubsetOrdering(Nat)
    <2> HIDE DEF Spans
    <2>1. Spans \subseteq FiniteSubsetsOf(Nat) /\ Spans # {}
      BY <1>2 DEF Spans
    <2> QED BY <2>1, FS_StrictSubsetOrderingWellFounded, WFMin
  <1>4. PICK n \in S : X = 0 .. n
    OBVIOUS
  <1>5. ASSUME NEW m \in S, m < n PROVE FALSE
    <2>1. 0 .. m \in Spans
      BY FS_Interval DEF FiniteSubsetsOf
    <2>2. <<0 .. m, X>> \in StrictSubsetOrdering(Nat)
      BY <1>4, <1>5 DEF StrictSubsetOrdering
    <2> QED BY <1>3, <2>1, <2>2
  <1> QED BY <1>5

\* f gives every node of ns the languages of the language tags around it.
LangsAt(ns, f, i) ==
  IF i = 1 THEN << >>
  ELSE IF ns[i].kind = "LANG" THEN Append(f[ns[i].parent], ns[i].lang)
  ELSE f[ns[i].parent]
GivesLangs(ns, f) == f = [i \in DOMAIN ns |-> LangsAt(ns, f, i)]

\* The language in effect where these are open.
Innermost(ls) == IF ls = << >> THEN << >> ELSE Last(ls)

\* A node that can be around others has the language in effect inside it, and the
\* languages on the stack are those around the open node.
InEffect ==
  \A i \in NodeNumbers : nodes[i].kind \notin LeafKinds => nodes[i].lang = Innermost(Around[i])
LangInv == /\ GivesLangs(nodes, Around) /\ Around \in [NodeNumbers -> Seq(Seq(TextSymbols))]
           /\ langs = Around[current] /\ InEffect

\* When there is such a function, Around is one.
LEMMA AroundIsOne ==
  ASSUME NEW f, GivesLangs(nodes, f) PROVE GivesLangs(nodes, Around)
  BY DEF Around, GivesLangs, LangsAt, NodeNumbers

\* So it is after a step.
LEMMA AroundIsOneNext ==
  ASSUME NEW f, GivesLangs(nodes', f) PROVE GivesLangs(nodes', Around')
  BY DEF Around, GivesLangs, LangsAt, NodeNumbers

\* What such a function gives a node.
LEMMA LangsGiven ==
  ASSUME NEW ns, NEW f, GivesLangs(ns, f), NEW i \in DOMAIN ns PROVE f[i] = LangsAt(ns, f, i)
  BY DEF GivesLangs

\* Every node is younger than its parent, so functions that solve the equations of the
\* nodes up to n agree there.
OlderParents(n, ns) == \A i \in 2..n : ns[i].parent \in 1 .. i - 1
Solves(n, ns, f) == \A i \in 1..n : f[i] = LangsAt(ns, f, i)

\* They give the same languages.
LEMMA LangsAgree ==
  ASSUME NEW n \in Nat, NEW ns, NEW f, NEW g, OlderParents(n, ns), Solves(n, ns, f), Solves(n, ns, g)
  PROVE  \A i \in 1..n : f[i] = g[i]
  <1> DEFINE Apart == {i \in 1..n : f[i] # g[i]}
  <1> SUFFICES ASSUME Apart # {} PROVE FALSE
    OBVIOUS
  <1>1. Apart \in SUBSET Nat
    OBVIOUS
  <1> HIDE DEF Apart
  <1>2. PICK i \in Apart : \A j \in Apart : i <= j
    BY <1>1, Least
  <1>3. i \in 1..n /\ f[i] # g[i]
    BY <1>2 DEF Apart
  <1>4. f[i] = LangsAt(ns, f, i) /\ g[i] = LangsAt(ns, g, i)
    BY <1>3 DEF Solves
  <1>5. CASE i = 1
    BY <1>3, <1>4, <1>5 DEF LangsAt
  <1>6. CASE i # 1
    <2>1. ns[i].parent \in 1..n /\ ns[i].parent < i
      BY <1>3, <1>6 DEF OlderParents
    <2>2. f[ns[i].parent] = g[ns[i].parent]
      BY <1>1, <1>2, <2>1 DEF Apart
    <2> QED BY <1>3, <1>4, <1>6, <2>2 DEF LangsAt
  <1> QED BY <1>5, <1>6

\* What a new node changes: nothing of the languages around the old ones.
LEMMA AroundExtends ==
  ASSUME IInv, LangInv, NEW n \in NodeType, n.parent = current, n.children = << >>,
         n.kind = "RUBY_TEXT" => nodes[current].kind = "RUBY", nodes' = Attached(n)
  PROVE  /\ GivesLangs(nodes', Around')
         /\ \A i \in 1..Len(nodes) : Around'[i] = Around[i]
         /\ Around'[Len(nodes) + 1] = IF n.kind = "LANG" THEN Append(langs, n.lang) ELSE langs
         /\ Around' \in [NodeNumbers' -> Seq(Seq(TextSymbols))]
  <1> DEFINE new == Len(nodes) + 1
             last == IF n.kind = "LANG" THEN Append(langs, n.lang) ELSE langs
             f == [i \in 1..new |-> IF i = new THEN last ELSE Around[i]]
  <1>1. /\ nodes \in Seq(NodeType) /\ DOMAIN nodes = 1..Len(nodes) /\ Len(nodes) \in Nat
        /\ current \in 1..Len(nodes) /\ langs \in Seq(Seq(TextSymbols)) /\ new > 1
    BY DEF IInv, TypeOK, NodeNumbers, HeadFirst
  <1>2. /\ DOMAIN nodes' = 1..new /\ nodes'[new] = n
        /\ \A i \in 1..Len(nodes) : /\ nodes'[i].kind = nodes[i].kind
                                    /\ nodes'[i].parent = nodes[i].parent
                                    /\ nodes'[i].lang = nodes[i].lang
    BY <1>1, AttachKeeps, AttachedNodes
  <1>3. OlderParents(new, nodes')
    <2> SUFFICES ASSUME NEW i \in 2..new PROVE nodes'[i].parent \in 1 .. i - 1
      BY DEF OlderParents
    <2>1. CASE i = new
      BY <1>1, <1>2, <2>1
    <2>2. CASE i # new
      <3>1. i \in 1..Len(nodes) /\ i > 1
        BY <1>1, <2>2
      <3>2. nodes[i].parent \in 1 .. i - 1
        BY <1>1, <3>1 DEF IInv, InnerParents, NodeNumbers
      <3> QED BY <1>2, <3>1, <3>2
    <2> QED BY <2>1, <2>2
  <1>4. \A i \in 1..Len(nodes) : Around[i] = LangsAt(nodes, Around, i)
    BY <1>1, LangsGiven DEF LangInv
  <1>5. \A i \in 1..new : f[i] = LangsAt(nodes', f, i)
    <2> SUFFICES ASSUME NEW i \in 1..new PROVE f[i] = LangsAt(nodes', f, i)
      OBVIOUS
    <2>1. CASE i = new
      <3>1. f[current] = Around[current] /\ f[i] = last
        BY <1>1, <2>1
      <3> HIDE DEF f
      <3> QED BY <1>1, <1>2, <2>1, <3>1 DEF LangsAt, LangInv
    <2>2. CASE i \in 1..Len(nodes) /\ i # 1
      <3>1. nodes[i].parent \in 1..Len(nodes)
        <4>1. i \in 2..new /\ nodes'[i].parent = nodes[i].parent
          BY <1>1, <1>2, <2>2
        <4> QED BY <1>1, <1>3, <2>2, <4>1 DEF OlderParents
      <3>2. f[i] = Around[i] /\ f[nodes[i].parent] = Around[nodes[i].parent]
        BY <1>1, <2>2, <3>1
      <3>3. Around[i] = LangsAt(nodes, Around, i)
        BY <1>4, <2>2
      <3> HIDE DEF f
      <3> QED BY <1>2, <2>2, <3>2, <3>3 DEF LangsAt
    <2>3. CASE i = 1
      BY <1>1, <1>4, <2>3 DEF LangsAt
    <2> QED BY <1>1, <2>1, <2>2, <2>3
  <1>6. GivesLangs(nodes', f)
    <2>1. f = [i \in 1..new |-> f[i]]
      OBVIOUS
    <2> HIDE DEF f
    <2> QED BY <1>2, <1>5, <2>1 DEF GivesLangs
  <1>7. f \in [1..new -> Seq(Seq(TextSymbols))] /\ f[new] = last
        /\ \A i \in 1..Len(nodes) : f[i] = Around[i]
    <2>1. last \in Seq(Seq(TextSymbols))
      BY <1>1 DEF NodeType
    <2> HIDE DEF last
    <2> QED BY <1>1, <2>1 DEF LangInv, NodeNumbers
  <1> HIDE DEF f, last
  <1>8. GivesLangs(nodes', Around')
    BY <1>6, AroundIsOneNext
  <1>9. \A i \in 1..new : Around'[i] = f[i]
    <2>1. Solves(new, nodes', Around')
      BY <1>2, <1>8, LangsGiven DEF Solves
    <2>2. Solves(new, nodes', f) /\ new \in Nat
      BY <1>1, <1>5 DEF Solves
    <2> HIDE DEF new
    <2> QED BY <1>3, <2>1, <2>2, LangsAgree
  <1>10. Around' = f
    <2>1. Around' = [i \in 1..new |-> Around'[i]] /\ f = [i \in 1..new |-> f[i]]
      BY <1>2, <1>7, <1>8 DEF GivesLangs
    <2> QED BY <1>9, <2>1
  <1> QED BY <1>1, <1>2, <1>7, <1>8, <1>10 DEF last, NodeNumbers

\* A new node, and what becomes of the open one and the stack.
LEMMA NewNodeLangs ==
  ASSUME IInv, LangInv, NEW n \in NodeType, n.parent = current, n.children = << >>,
         n.kind = "RUBY_TEXT" => nodes[current].kind = "RUBY", nodes' = Attached(n),
         n.kind \notin LeafKinds \cup {"LANG"} => n.lang = Innermost(langs),
         langs' = IF n.kind = "LANG" THEN Append(langs, n.lang) ELSE langs,
         current' = Entered(n.kind, Len(nodes) + 1)
  PROVE  LangInv'
  <1>1. /\ nodes \in Seq(NodeType) /\ DOMAIN nodes = 1..Len(nodes) /\ Len(nodes) \in Nat
        /\ current \in 1..Len(nodes) /\ langs \in Seq(Seq(TextSymbols))
    BY DEF IInv, TypeOK, NodeNumbers
  <1>2. /\ DOMAIN nodes' = 1 .. Len(nodes) + 1 /\ nodes'[Len(nodes) + 1] = n
        /\ \A i \in 1..Len(nodes) : /\ nodes'[i].kind = nodes[i].kind
                                    /\ nodes'[i].lang = nodes[i].lang
    BY <1>1, AttachKeeps, AttachedNodes
  <1>3. /\ GivesLangs(nodes', Around')
        /\ \A i \in 1..Len(nodes) : Around'[i] = Around[i]
        /\ Around'[Len(nodes) + 1] = langs'
        /\ Around' \in [NodeNumbers' -> Seq(Seq(TextSymbols))]
    BY AroundExtends
  <1>4. langs' = Around'[current']
    <2>1. CASE n.kind \in LeafKinds
      <3>1. current' = current /\ langs' = langs
        BY <2>1 DEF Entered, LeafKinds
      <3> QED BY <1>1, <1>3, <3>1 DEF LangInv
    <2>2. CASE n.kind \notin LeafKinds
      BY <1>3, <2>2 DEF Entered
    <2> QED BY <2>1, <2>2
  <1>5. InEffect'
    <2> SUFFICES ASSUME NEW i \in 1 .. Len(nodes) + 1, nodes'[i].kind \notin LeafKinds
                 PROVE  nodes'[i].lang = Innermost(Around'[i])
      BY <1>2 DEF InEffect, NodeNumbers
    <2>1. CASE i \in 1..Len(nodes)
      BY <1>1, <1>2, <1>3, <2>1 DEF LangInv, InEffect, NodeNumbers
    <2>2. CASE i = Len(nodes) + 1
      <3>1. nodes'[i] = n /\ Around'[i] = langs'
        BY <1>2, <1>3, <2>2
      <3>2. CASE n.kind = "LANG"
        <4>1. Innermost(Append(langs, n.lang)) = n.lang
          <5>1. n.lang \in Seq(TextSymbols)
            BY DEF NodeType
          <5> QED BY <1>1, <5>1 DEF Innermost, Last
        <4> QED BY <3>1, <3>2, <4>1
      <3>3. CASE n.kind # "LANG"
        BY <3>1, <3>3
      <3> QED BY <3>2, <3>3
    <2>3. i \in 1..Len(nodes) \/ i = Len(nodes) + 1
      BY SMTT(20), <1>1
    <2> QED BY <2>1, <2>2, <2>3
  <1> QED BY <1>3, <1>4, <1>5 DEF LangInv

\* Where no node is made the languages around each stay.
LEMMA SameNodesLangs ==
  ASSUME LangInv, nodes' = nodes, langs' = Around[current'] PROVE LangInv'
  <1>1. Around' = Around
    BY DEF Around, NodeNumbers
  <1> QED BY <1>1 DEF LangInv, InEffect, NodeNumbers

\* Closing the open node takes its language off the stack if it is a language tag.
LEMMA CloseLangs ==
  ASSUME IInv, LangInv, EndCloses PROVE LangInv'
  <1>1. /\ current \in 2..Len(nodes) /\ DOMAIN nodes = 1..Len(nodes)
        /\ nodes[current].parent \in 1..Len(nodes)
    <2>1. current \in 1..Len(nodes) /\ DOMAIN nodes = 1..Len(nodes)
      BY DEF IInv, TypeOK, NodeNumbers
    <2>2. current # 1
      BY DEF EndCloses, EndNamed, IInv, HeadFirst
    <2>3. nodes[current].parent \in 1 .. current - 1
      BY <2>1, <2>2 DEF IInv, InnerParents, NodeNumbers
    <2> QED BY <2>1, <2>2, <2>3
  <1> DEFINE outer == Around[nodes[current].parent]
  <1>2. langs = IF nodes[current].kind = "LANG" THEN Append(outer, nodes[current].lang) ELSE outer
    <2>1. Around[current] = LangsAt(nodes, Around, current)
      BY <1>1, LangsGiven DEF LangInv
    <2> QED BY <1>1, <2>1 DEF LangInv, LangsAt
  <1>3. outer \in Seq(Seq(TextSymbols))
    BY <1>1 DEF LangInv, NodeNumbers
  <1>4. (EndKind = "LANG") <=> (nodes[current].kind = "LANG")
    BY DEF EndCloses, Closes
  <1> HIDE DEF outer
  <1>5. langs' = outer
    <2>1. CASE nodes[current].kind = "LANG"
      <3>1. langs = Append(outer, nodes[current].lang)
        BY <1>2, <2>1
      <3>2. langs # << >> /\ Front(langs) = outer
        BY <1>3, <3>1 DEF Front
      <3> QED BY <1>4, <2>1, <3>2 DEF EndCloses, LangsClosed
    <2>2. CASE nodes[current].kind # "LANG"
      BY <1>2, <1>4, <2>2 DEF EndCloses, LangsClosed
    <2> QED BY <2>1, <2>2
  <1>6. nodes' = nodes /\ current' = nodes[current].parent
    BY DEF EndCloses
  <1> QED BY <1>5, <1>6, SameNodesLangs DEF outer

\* Any step.
LEMMA LangsKeep == IInv /\ LangInv /\ [Next]_vars => LangInv'
  <1> SUFFICES ASSUME IInv, LangInv, [Next]_vars PROVE LangInv'
    OBVIOUS
  <1>1. ASSUME UNCHANGED <<nodes, current, langs>> PROVE LangInv'
    BY <1>1, SameNodesLangs DEF LangInv
  <1>2. CASE Tokenize \/ Finished \/ UNCHANGED vars
    BY <1>1, <1>2 DEF Tokenize, Data, Escape, StartTag, Class, Rest, DataEscape, DataTag, DataEnd,
      DataChar, EscapeEnd, EscapeAgain, EscapeClose, EscapeName, EscapeBad, TagEnd, TagOpens,
      StartTagEnd, StartTagGoes, ClassEnd, ClassSpace, ClassNext, ClassChar, AnnotationEnd,
      AnnotationChar, PlainEnd, PlainChar, Go, Complete, Finished, vars, tree
  <1>3. CASE EndAtHead \/ EndUnknown \/ EndIgnored \/ StartInvalid \/ StartOutOfPlace
    BY <1>1, <1>3 DEF EndAtHead, EndUnknown, EndIgnored, StartInvalid, StartOutOfPlace, ThrownAway,
      tree
  <1>4. CASE Leaf
    <2> DEFINE n == [Node(token.type, current) EXCEPT !.content = token.content]
    <2>1. LeafNode(n)
      BY <1>4, LeafIsNode
    <2>2. nodes' = Attached(n) /\ current' = current /\ langs' = langs
      BY <1>4 DEF Leaf
    <2> HIDE DEF n
    <2>3. n.kind \notin {"LANG", "RUBY_TEXT"} /\ Entered(n.kind, Len(nodes) + 1) = current
      BY <2>1 DEF LeafNode, Entered, LeafKinds
    <2> QED BY <2>1, <2>2, <2>3, NewNodeLangs DEF LeafNode
  <1>5. CASE StartOpens
    <2>1. PICK k \in StartKinds :
            /\ ~OutOfPlace(k)
            /\ nodes' = Attached(Opened(k))
            /\ langs' = IF k = "LANG" THEN Append(langs, token.annotation) ELSE langs
            /\ current' = Entered(k, Len(nodes) + 1)
      BY <1>5 DEF StartOpens
    <2>2. OpenedNode(k)
      BY <1>5, OpenedIsNode
    <2>3. k = "RUBY_TEXT" => nodes[current].kind = "RUBY"
      BY <2>1 DEF OutOfPlace
    <2> QED BY <2>1, <2>2, <2>3, NewNodeLangs DEF OpenedNode, Innermost
  <1> QED BY <1>2, <1>3, <1>4, <1>5, CloseLangs DEF Next, Build, End

\* The head has no language around it.
LEMMA InitLangs == Init => LangInv
  <1> SUFFICES ASSUME Init PROVE LangInv
    OBVIOUS
  <1>1. /\ nodes = <<Node("HEAD", 0)>> /\ DOMAIN nodes = {1} /\ current = 1 /\ langs = << >>
        /\ nodes[1].lang = << >>
    BY DEF Init, Node
  <1> DEFINE f == [i \in {1} |-> << >>]
  <1>2. GivesLangs(nodes, f)
    BY <1>1 DEF GivesLangs, LangsAt
  <1>3. GivesLangs(nodes, Around)
    <2> HIDE DEF f
    <2> QED BY <1>2, AroundIsOne
  <1>4. Around = [i \in {1} |-> << >>]
    BY <1>1, <1>3 DEF GivesLangs, LangsAt
  <1> QED BY <1>1, <1>3, <1>4, EmptyIsSeq DEF LangInv, InEffect, NodeNumbers, Innermost

\* However tags are nested, left open or closed in the wrong order, every node but a
\* language tag has the language of the node around it, and the languages on the stack
\* of webvtt_parse_cuetext are those of the language tags that are open.
THEOREM LangsFollowTags == Spec => []LangsSound
  <1>1. Spec => []LangInv
    BY InitLangs, LangsKeep, Invariant, PTL DEF Spec
  <1>2. IInv /\ LangInv => LangsSound
    <2> SUFFICES ASSUME IInv, LangInv, NEW i \in NodeNumbers, i > 1,
                        nodes[i].kind \notin LeafKinds \cup {"LANG"}
                 PROVE  nodes[i].lang = nodes[nodes[i].parent].lang
      BY DEF LangsSound, LangInv
    <2>1. /\ nodes[i].parent \in 1 .. i - 1
          /\ nodes[nodes[i].parent].kind \notin LeafKinds
      BY DEF IInv, InnerParents
    <2>2. nodes[i].parent \in NodeNumbers
      BY <2>1 DEF IInv, TypeOK, NodeNumbers
    <2>3. Around[i] = Around[nodes[i].parent]
      <3>1. Around[i] = LangsAt(nodes, Around, i)
        BY LangsGiven DEF LangInv, NodeNumbers
      <3> QED BY <3>1 DEF LangsAt
    <2> QED BY <2>1, <2>2, <2>3 DEF LangInv, InEffect
  <1> QED BY <1>1, <1>2, Invariant, PTL

-----------------------------------------------------------------------------
(* The recursive functions of CueMarkup: there are functions that satisfy  *)
(* their equations, and where two sequences agree so do the functions.     *)

NoCuts == [pieces |-> << >>, inTag |-> FALSE]
IsCuts(f, t, N) == f = [n \in 0 .. N |-> IF n = 0 THEN NoCuts ELSE Cut(f[n - 1], t[n])]
\* For every length there is a function that satisfies the equation of Cuts,
LEMMA CutsExist == ASSUME NEW t, NEW N \in Nat PROVE \E f : IsCuts(f, t, N)
  <1> DEFINE Bad == {K \in Nat : ~\E f : IsCuts(f, t, K)}
  <1>1. SUFFICES ASSUME Bad # {} PROVE FALSE
    OBVIOUS
  <1>2. PICK K \in Bad : \A m \in Bad : K <= m
    BY <1>1, Least
  <1>3. CASE K = 0
    <2> DEFINE f == [n \in 0 .. 0 |-> NoCuts]
    <2>1. f = [n \in 0 .. 0 |-> IF n = 0 THEN NoCuts ELSE Cut(f[n - 1], t[n])]
      OBVIOUS
    <2> HIDE DEF f
    <2> QED BY <2>1, <1>2, <1>3 DEF IsCuts
  <1>4. CASE K # 0
    <2>1. K \in Nat /\ K - 1 \in Nat /\ K - 1 \notin Bad
      BY <1>2, <1>4
    <2>2. PICK g : IsCuts(g, t, K - 1)
      BY <2>1
    <2>3. \A n \in 0 .. K - 1 : g[n] = IF n = 0 THEN NoCuts ELSE Cut(g[n - 1], t[n])
      BY <2>2 DEF IsCuts
    <2> DEFINE f == [n \in 0 .. K |-> IF n = K THEN Cut(g[K - 1], t[K]) ELSE g[n]]
    <2>4. ASSUME NEW n \in 0 .. K
          PROVE  f[n] = IF n = 0 THEN NoCuts ELSE Cut(f[n - 1], t[n])
      <3>1. n # 0 => n - 1 \in 0 .. K /\ n - 1 # K /\ f[n - 1] = g[n - 1]
        BY <2>1
      <3>2. CASE n = K
        BY <3>1, <3>2, <1>4
      <3>3. CASE n # K
        <4>1. n \in 0 .. K - 1 /\ f[n] = g[n]
          BY <3>3, <2>1
        <4> QED BY <4>1, <3>1, <2>3
      <3> QED BY <3>2, <3>3
    <2>5. f = [n \in 0 .. K |-> f[n]]
      OBVIOUS
    <2> HIDE DEF f
    <2>6. IsCuts(f, t, K)
      BY <2>4, <2>5, Zenon DEF IsCuts
    <2> QED BY <2>6, <1>2
  <1> QED BY <1>3, <1>4

\* so that Cuts cuts a text symbol by symbol.
LEMMA CutsEquation ==
  ASSUME NEW t, Len(t) \in Nat
  PROVE  /\ Cuts(t)[0] = NoCuts
         /\ \A n \in 1 .. Len(t) : Cuts(t)[n] = Cut(Cuts(t)[n - 1], t[n])
  <1>1. PICK g : IsCuts(g, t, Len(t))
    BY CutsExist
  <1> DEFINE f == CHOOSE h : IsCuts(h, t, Len(t))
  <1>2. IsCuts(f, t, Len(t))
    BY <1>1
  <1>3. Cuts(t) = f
    BY Zenon DEF Cuts, IsCuts, NoCuts
  <1> HIDE DEF f
  <1>4. \A n \in 0 .. Len(t) : f[n] = IF n = 0 THEN NoCuts ELSE Cut(f[n - 1], t[n])
    BY <1>2 DEF IsCuts
  <1> QED BY <1>3, <1>4

NoDots == <<<< >>>>
IsDotted(f, t, N) == f = [n \in 0 .. N |-> IF n = 0 THEN NoDots ELSE SplitAtDot(f[n - 1], t[n])]
\* The same of Dotted:
LEMMA DottedExist == ASSUME NEW t, NEW N \in Nat PROVE \E f : IsDotted(f, t, N)
  <1> DEFINE Bad == {K \in Nat : ~\E f : IsDotted(f, t, K)}
  <1>1. SUFFICES ASSUME Bad # {} PROVE FALSE
    OBVIOUS
  <1>2. PICK K \in Bad : \A m \in Bad : K <= m
    BY <1>1, Least
  <1>3. CASE K = 0
    <2> DEFINE f == [n \in 0 .. 0 |-> NoDots]
    <2>1. f = [n \in 0 .. 0 |-> IF n = 0 THEN NoDots ELSE SplitAtDot(f[n - 1], t[n])]
      OBVIOUS
    <2> HIDE DEF f
    <2> QED BY <2>1, <1>2, <1>3 DEF IsDotted
  <1>4. CASE K # 0
    <2>1. K \in Nat /\ K - 1 \in Nat /\ K - 1 \notin Bad
      BY <1>2, <1>4
    <2>2. PICK g : IsDotted(g, t, K - 1)
      BY <2>1
    <2>3. \A n \in 0 .. K - 1 : g[n] = IF n = 0 THEN NoDots ELSE SplitAtDot(g[n - 1], t[n])
      BY <2>2 DEF IsDotted
    <2> DEFINE f == [n \in 0 .. K |-> IF n = K THEN SplitAtDot(g[K - 1], t[K]) ELSE g[n]]
    <2>4. ASSUME NEW n \in 0 .. K
          PROVE  f[n] = IF n = 0 THEN NoDots ELSE SplitAtDot(f[n - 1], t[n])
      <3>1. n # 0 => n - 1 \in 0 .. K /\ n - 1 # K /\ f[n - 1] = g[n - 1]
        BY <2>1
      <3>2. CASE n = K
        BY <3>1, <3>2, <1>4
      <3>3. CASE n # K
        <4>1. n \in 0 .. K - 1 /\ f[n] = g[n]
          BY <3>3, <2>1
        <4> QED BY <4>1, <3>1, <2>3
      <3> QED BY <3>2, <3>3
    <2>5. f = [n \in 0 .. K |-> f[n]]
      OBVIOUS
    <2> HIDE DEF f
    <2>6. IsDotted(f, t, K)
      BY <2>4, <2>5, Zenon DEF IsDotted
    <2> QED BY <2>6, <1>2
  <1> QED BY <1>3, <1>4

\* it splits a text symbol by symbol.
LEMMA DottedEquation ==
  ASSUME NEW t, Len(t) \in Nat
  PROVE  /\ Dotted(t)[0] = NoDots
         /\ \A n \in 1 .. Len(t) : Dotted(t)[n] = SplitAtDot(Dotted(t)[n - 1], t[n])
  <1>1. PICK g : IsDotted(g, t, Len(t))
    BY DottedExist
  <1> DEFINE f == CHOOSE h : IsDotted(h, t, Len(t))
  <1>2. IsDotted(f, t, Len(t))
    BY <1>1
  <1>3. Dotted(t) = f
    BY Zenon DEF Dotted, IsDotted, NoDots
  <1> HIDE DEF f
  <1>4. \A n \in 0 .. Len(t) : f[n] = IF n = 0 THEN NoDots ELSE SplitAtDot(f[n - 1], t[n])
    BY <1>2 DEF IsDotted
  <1> QED BY <1>3, <1>4

\* Where two texts are the same, so are their parts,
LEMMA DottedAgree ==
  ASSUME NEW a, NEW b, NEW N \in Nat, Len(a) \in Nat, Len(b) \in Nat, N <= Len(a), N <= Len(b),
         \A n \in 1 .. N : a[n] = b[n]
  PROVE  \A n \in 0 .. N : Dotted(a)[n] = Dotted(b)[n]
  <1> DEFINE Apart == {n \in 0 .. N : Dotted(a)[n] # Dotted(b)[n]}
  <1> SUFFICES ASSUME Apart # {} PROVE FALSE
    OBVIOUS
  <1>1. Apart \in SUBSET Nat
    OBVIOUS
  <1> HIDE DEF Apart
  <1>2. PICK n \in Apart : \A m \in Apart : n <= m
    BY <1>1, Least
  <1>3. n # 0
    BY <1>2, DottedEquation DEF Apart
  <1>4. n \in 1 .. N /\ n \in 1 .. Len(a) /\ n \in 1 .. Len(b) /\ n - 1 \in 0 .. N
    BY <1>2, <1>3 DEF Apart
  <1>5. Dotted(a)[n - 1] = Dotted(b)[n - 1]
    BY <1>2, <1>4 DEF Apart
  <1>6. /\ Dotted(a)[n] = SplitAtDot(Dotted(a)[n - 1], a[n])
        /\ Dotted(b)[n] = SplitAtDot(Dotted(b)[n - 1], b[n])
    BY <1>4, DottedEquation
  <1> QED BY <1>2, <1>4, <1>5, <1>6 DEF Apart

\* and one more symbol changes the parts as it should.
LEMMA DottedGrow ==
  ASSUME NEW S, NEW c \in Seq(S), NEW s \in S
  PROVE  /\ \A n \in 0 .. Len(c) : Dotted(Append(c, s))[n] = Dotted(c)[n]
         /\ Dotted(Append(c, s))[Len(c) + 1] = SplitAtDot(Dotted(c)[Len(c)], s)
  <1> DEFINE t == Append(c, s)
  <1>1. /\ Len(c) \in Nat /\ Len(t) = Len(c) + 1 /\ t[Len(c) + 1] = s
        /\ \A n \in 1 .. Len(c) : t[n] = c[n]
    OBVIOUS
  <1> HIDE DEF t
  <1>2. \A n \in 0 .. Len(c) : Dotted(t)[n] = Dotted(c)[n]
    <2>1. Len(c) <= Len(t) /\ Len(t) \in Nat
      BY <1>1
    <2> QED BY <1>1, <2>1, DottedAgree
  <1>3. Dotted(t)[Len(c) + 1] = SplitAtDot(Dotted(t)[Len(c)], t[Len(c) + 1])
    <2>1. Len(c) + 1 \in 1 .. Len(t) /\ Len(c) + 1 - 1 = Len(c)
      BY <1>1
    <2> QED BY <1>1, <2>1, DottedEquation
  <1> QED BY <1>1, <1>2, <1>3 DEF t

IsReads(f, t, N) == f = [n \in 0 .. N |-> IF n = 0 THEN Nothing ELSE Read(f[n - 1], t[n])]
\* The same of Reads:
LEMMA ReadsExist == ASSUME NEW t, NEW N \in Nat PROVE \E f : IsReads(f, t, N)
  <1> DEFINE Bad == {K \in Nat : ~\E f : IsReads(f, t, K)}
  <1>1. SUFFICES ASSUME Bad # {} PROVE FALSE
    OBVIOUS
  <1>2. PICK K \in Bad : \A m \in Bad : K <= m
    BY <1>1, Least
  <1>3. CASE K = 0
    <2> DEFINE f == [n \in 0 .. 0 |-> Nothing]
    <2>1. f = [n \in 0 .. 0 |-> IF n = 0 THEN Nothing ELSE Read(f[n - 1], t[n])]
      OBVIOUS
    <2> HIDE DEF f
    <2> QED BY <2>1, <1>2, <1>3 DEF IsReads
  <1>4. CASE K # 0
    <2>1. K \in Nat /\ K - 1 \in Nat /\ K - 1 \notin Bad
      BY <1>2, <1>4
    <2>2. PICK g : IsReads(g, t, K - 1)
      BY <2>1
    <2>3. \A n \in 0 .. K - 1 : g[n] = IF n = 0 THEN Nothing ELSE Read(g[n - 1], t[n])
      BY <2>2 DEF IsReads
    <2> DEFINE f == [n \in 0 .. K |-> IF n = K THEN Read(g[K - 1], t[K]) ELSE g[n]]
    <2>4. ASSUME NEW n \in 0 .. K
          PROVE  f[n] = IF n = 0 THEN Nothing ELSE Read(f[n - 1], t[n])
      <3>1. n # 0 => n - 1 \in 0 .. K /\ n - 1 # K /\ f[n - 1] = g[n - 1]
        BY <2>1
      <3>2. CASE n = K
        BY <3>1, <3>2, <1>4
      <3>3. CASE n # K
        <4>1. n \in 0 .. K - 1 /\ f[n] = g[n]
          BY <3>3, <2>1
        <4> QED BY <4>1, <3>1, <2>3
      <3> QED BY <3>2, <3>3
    <2>5. f = [n \in 0 .. K |-> f[n]]
      OBVIOUS
    <2> HIDE DEF f
    <2>6. IsReads(f, t, K)
      BY <2>4, <2>5, Zenon DEF IsReads
    <2> QED BY <2>6, <1>2
  <1> QED BY <1>3, <1>4

\* it reads the pieces one by one.
LEMMA ReadsEquation ==
  ASSUME NEW t, Len(t) \in Nat
  PROVE  /\ Reads(t)[0] = Nothing
         /\ \A n \in 1 .. Len(t) : Reads(t)[n] = Read(Reads(t)[n - 1], t[n])
  <1>1. PICK g : IsReads(g, t, Len(t))
    BY ReadsExist
  <1> DEFINE f == CHOOSE h : IsReads(h, t, Len(t))
  <1>2. IsReads(f, t, Len(t))
    BY <1>1
  <1>3. Reads(t) = f
    BY Zenon DEF Reads, IsReads
  <1> HIDE DEF f
  <1>4. \A n \in 0 .. Len(t) : f[n] = IF n = 0 THEN Nothing ELSE Read(f[n - 1], t[n])
    BY <1>2 DEF IsReads
  <1> QED BY <1>3, <1>4

\* Where the pieces are the same, so are their trees,
LEMMA ReadsAgree ==
  ASSUME NEW a, NEW b, NEW N \in Nat, Len(a) \in Nat, Len(b) \in Nat, N <= Len(a), N <= Len(b),
         \A n \in 1 .. N : a[n] = b[n]
  PROVE  \A n \in 0 .. N : Reads(a)[n] = Reads(b)[n]
  <1> DEFINE Apart == {n \in 0 .. N : Reads(a)[n] # Reads(b)[n]}
  <1> SUFFICES ASSUME Apart # {} PROVE FALSE
    OBVIOUS
  <1>1. Apart \in SUBSET Nat
    OBVIOUS
  <1> HIDE DEF Apart
  <1>2. PICK n \in Apart : \A m \in Apart : n <= m
    BY <1>1, Least
  <1>3. n # 0
    BY <1>2, ReadsEquation DEF Apart
  <1>4. n \in 1 .. N /\ n \in 1 .. Len(a) /\ n \in 1 .. Len(b) /\ n - 1 \in 0 .. N
    BY <1>2, <1>3 DEF Apart
  <1>5. Reads(a)[n - 1] = Reads(b)[n - 1]
    BY <1>2, <1>4 DEF Apart
  <1>6. /\ Reads(a)[n] = Read(Reads(a)[n - 1], a[n])
        /\ Reads(b)[n] = Read(Reads(b)[n - 1], b[n])
    BY <1>4, ReadsEquation
  <1> QED BY <1>2, <1>4, <1>5, <1>6 DEF Apart

\* and one more piece changes the tree as it should.
LEMMA ReadsGrow ==
  ASSUME NEW S, NEW c \in Seq(S), NEW s \in S
  PROVE  /\ \A n \in 0 .. Len(c) : Reads(Append(c, s))[n] = Reads(c)[n]
         /\ Reads(Append(c, s))[Len(c) + 1] = Read(Reads(c)[Len(c)], s)
  <1> DEFINE t == Append(c, s)
  <1>1. /\ Len(c) \in Nat /\ Len(t) = Len(c) + 1 /\ t[Len(c) + 1] = s
        /\ \A n \in 1 .. Len(c) : t[n] = c[n]
    OBVIOUS
  <1> HIDE DEF t
  <1>2. \A n \in 0 .. Len(c) : Reads(t)[n] = Reads(c)[n]
    <2>1. Len(c) <= Len(t) /\ Len(t) \in Nat
      BY <1>1
    <2> QED BY <1>1, <2>1, ReadsAgree
  <1>3. Reads(t)[Len(c) + 1] = Read(Reads(t)[Len(c)], t[Len(c) + 1])
    <2>1. Len(c) + 1 \in 1 .. Len(t) /\ Len(c) + 1 - 1 = Len(c)
      BY <1>1
    <2> QED BY <1>1, <2>1, ReadsEquation
  <1> QED BY <1>1, <1>2, <1>3 DEF t

\* Plains looks further back than one symbol: what the first n symbols stand for.
PlainAt(f, t, n) ==
  IF n = 0 THEN << >>
  ELSE IF EscapeEndsAt(t, n) THEN Append(f[n - 3], IF t[n - 1] = "amp" THEN "AMP" ELSE "LT")
  ELSE Append(f[n - 1], t[n])
IsPlains(f, t, N) == f = [n \in 0 .. N |-> PlainAt(f, t, n)]

\* It depends on what comes before.
LEMMA PlainAtSame ==
  ASSUME NEW f, NEW g, NEW t, NEW n \in Nat, \A m \in Nat : m < n => f[m] = g[m]
  PROVE  PlainAt(f, t, n) = PlainAt(g, t, n)
  <1>1. n # 0 => n - 1 \in Nat /\ f[n - 1] = g[n - 1]
    OBVIOUS
  <1>2. n > 2 => n - 3 \in Nat /\ f[n - 3] = g[n - 3]
    OBVIOUS
  <1> QED BY <1>1, <1>2 DEF PlainAt, EscapeEndsAt

\* For every length there is a function that satisfies the equation of Plains,
LEMMA PlainsExist == ASSUME NEW t, NEW N \in Nat PROVE \E f : IsPlains(f, t, N)
  <1> DEFINE Bad == {K \in Nat : ~\E f : IsPlains(f, t, K)}
  <1>1. SUFFICES ASSUME Bad # {} PROVE FALSE
    OBVIOUS
  <1>2. PICK K \in Bad : \A m \in Bad : K <= m
    BY <1>1, Least
  <1>3. CASE K = 0
    <2> DEFINE f == [n \in 0 .. 0 |-> << >>]
    <2>1. f = [n \in 0 .. 0 |-> PlainAt(f, t, n)]
      BY DEF PlainAt
    <2> HIDE DEF f
    <2> QED BY <2>1, <1>2, <1>3 DEF IsPlains
  <1>4. CASE K # 0
    <2>1. K \in Nat /\ K - 1 \in Nat /\ K - 1 \notin Bad
      BY <1>2, <1>4
    <2>2. PICK g : IsPlains(g, t, K - 1)
      BY <2>1
    <2>3. \A n \in 0 .. K - 1 : g[n] = PlainAt(g, t, n)
      BY <2>2 DEF IsPlains
    <2> DEFINE f == [n \in 0 .. K |-> IF n = K THEN PlainAt(g, t, K) ELSE g[n]]
    <2>4. ASSUME NEW n \in 0 .. K PROVE f[n] = PlainAt(f, t, n)
      <3>1. \A m \in Nat : m < n => f[m] = g[m]
        BY <2>1
      <3>2. f[n] = PlainAt(g, t, n)
        <4>1. CASE n = K
          BY <4>1
        <4>2. CASE n # K
          BY <2>1, <2>3, <4>2
        <4> QED BY <4>1, <4>2
      <3> HIDE DEF f
      <3> QED BY <3>1, <3>2, PlainAtSame
    <2>5. f = [n \in 0 .. K |-> f[n]]
      OBVIOUS
    <2> HIDE DEF f
    <2>6. IsPlains(f, t, K)
      BY <2>4, <2>5, Zenon DEF IsPlains
    <2> QED BY <2>6, <1>2
  <1> QED BY <1>3, <1>4

\* so that Plains replaces escapes symbol by symbol.
LEMMA PlainsEquation ==
  ASSUME NEW t, Len(t) \in Nat
  PROVE  \A n \in 0 .. Len(t) : Plains(t)[n] = PlainAt(Plains(t), t, n)
  <1>1. PICK g : IsPlains(g, t, Len(t))
    BY PlainsExist
  <1> DEFINE f == CHOOSE h : IsPlains(h, t, Len(t))
  <1>2. IsPlains(f, t, Len(t))
    BY <1>1
  <1>3. Plains(t) = f
    BY Zenon DEF Plains, IsPlains, PlainAt
  <1> HIDE DEF f
  <1> QED BY <1>2, <1>3 DEF IsPlains

\* Where two texts are the same, so is what they stand for,
LEMMA PlainsAgree ==
  ASSUME NEW a, NEW b, NEW N \in Nat, Len(a) \in Nat, Len(b) \in Nat, N <= Len(a), N <= Len(b),
         \A n \in 1 .. N : a[n] = b[n]
  PROVE  \A n \in 0 .. N : Plains(a)[n] = Plains(b)[n]
  <1> DEFINE Apart == {n \in 0 .. N : Plains(a)[n] # Plains(b)[n]}
  <1> SUFFICES ASSUME Apart # {} PROVE FALSE
    OBVIOUS
  <1>1. Apart \in SUBSET Nat
    OBVIOUS
  <1> HIDE DEF Apart
  <1>2. PICK n \in Apart : \A m \in Apart : n <= m
    BY <1>1, Least
  <1>3. n \in 0 .. N /\ n \in 0 .. Len(a) /\ n \in 0 .. Len(b)
    BY <1>2 DEF Apart
  <1>4. \A m \in Nat : m < n => Plains(a)[m] = Plains(b)[m]
    BY <1>2, <1>3 DEF Apart
  <1>5. Plains(a)[n] = PlainAt(Plains(a), a, n) /\ Plains(b)[n] = PlainAt(Plains(b), b, n)
    BY <1>3, PlainsEquation
  <1>6. PlainAt(Plains(a), a, n) = PlainAt(Plains(b), a, n)
    BY <1>3, <1>4, PlainAtSame
  <1>7. PlainAt(Plains(b), a, n) = PlainAt(Plains(b), b, n)
    <2>1. n # 0 => a[n] = b[n]
      BY <1>3
    <2>2. n > 2 => a[n - 1] = b[n - 1] /\ a[n - 2] = b[n - 2]
      BY <1>3
    <2>3. EscapeEndsAt(a, n) <=> EscapeEndsAt(b, n)
      BY <1>3, <2>1, <2>2 DEF EscapeEndsAt
    <2> QED BY <1>3, <2>1, <2>2, <2>3 DEF PlainAt, EscapeEndsAt
  <1> QED BY <1>2, <1>5, <1>6, <1>7 DEF Apart

\* and one more symbol changes it as it should.
LEMMA PlainGrows ==
  ASSUME NEW S, NEW c \in Seq(S), NEW s \in S
  PROVE  /\ \A n \in 0 .. Len(c) : Plains(Append(c, s))[n] = Plains(c)[n]
         /\ Plain(Append(c, s))
              = IF EscapeEndsAt(Append(c, s), Len(c) + 1)
                THEN Append(Plains(c)[Len(c) - 2], IF c[Len(c)] = "amp" THEN "AMP" ELSE "LT")
                ELSE Append(Plain(c), s)
  <1> DEFINE t == Append(c, s)
             n == Len(c) + 1
  <1>1. /\ Len(c) \in Nat /\ Len(t) = n /\ t[n] = s /\ n \in 0 .. Len(t) /\ n - 1 = Len(c)
        /\ \A m \in 1 .. Len(c) : t[m] = c[m]
    OBVIOUS
  <1> HIDE DEF t
  <1>2. \A m \in 0 .. Len(c) : Plains(t)[m] = Plains(c)[m]
    BY <1>1, PlainsAgree
  <1>3. Plain(t) = PlainAt(Plains(t), t, n)
    BY <1>1, PlainsEquation DEF Plain
  <1>4. CASE EscapeEndsAt(t, n)
    <2>1. Len(c) >= 2 /\ n - 3 = Len(c) - 2 /\ n - 3 \in 0 .. Len(c) /\ t[n - 1] = c[Len(c)]
      BY <1>1, <1>4 DEF EscapeEndsAt
    <2>2. Plains(t)[n - 3] = Plains(c)[Len(c) - 2]
      BY <1>2, <2>1
    <2>3. Plain(t) = Append(Plains(t)[n - 3], IF t[n - 1] = "amp" THEN "AMP" ELSE "LT")
      BY <1>1, <1>3, <1>4 DEF PlainAt
    <2> QED BY <1>2, <1>4, <2>1, <2>2, <2>3 DEF t
  <1>5. CASE ~EscapeEndsAt(t, n)
    <2>1. Plain(t) = Append(Plains(t)[n - 1], t[n])
      BY <1>1, <1>3, <1>5 DEF PlainAt
    <2>2. Plains(t)[n - 1] = Plain(c)
      BY <1>1, <1>2 DEF Plain
    <2> QED BY <1>1, <1>2, <1>5, <2>1, <2>2 DEF t
  <1> QED BY <1>4, <1>5

-----------------------------------------------------------------------------
(* Sequences, and what comes before and after a symbol in one.             *)

\* A sequence that is not empty is its front and its last element,
LEMMA FrontAndLast ==
  ASSUME NEW S, NEW q \in Seq(S), q # << >>
  PROVE  /\ Len(q) \in Nat \ {0} /\ Front(q) \in Seq(S) /\ Len(Front(q)) = Len(q) - 1
         /\ Last(q) \in S /\ Last(q) = q[Len(q)] /\ q = Append(Front(q), Last(q))
         /\ \A i \in 1 .. Len(q) - 1 : Front(q)[i] = q[i]
  <1>1. Len(q) \in Nat \ {0}
    OBVIOUS
  <1>2. Front(q) \in Seq(S) /\ Len(Front(q)) = Len(q) - 1
        /\ \A i \in 1 .. Len(q) - 1 : Front(q)[i] = q[i]
    <2>1. 1 \in Int /\ Len(q) - 1 \in Int /\ \A i \in 1 .. Len(q) - 1 : q[i] \in S
      BY <1>1
    <2>2. /\ Front(q) \in Seq(S)
          /\ Len(Front(q)) = IF 1 <= Len(q) - 1 THEN Len(q) - 1 - 1 + 1 ELSE 0
          /\ \A i \in 1 .. Len(q) - 1 - 1 + 1 : Front(q)[i] = q[1 + i - 1]
      BY <2>1, SubSeqProperties DEF Front
    <2>3. Len(Front(q)) = Len(q) - 1 /\ Len(q) - 1 - 1 + 1 = Len(q) - 1
      <3> DEFINE n == Len(q)
                 k == Len(Front(q))
      <3>1. n \in Nat \ {0} /\ k = IF 1 <= n - 1 THEN n - 1 - 1 + 1 ELSE 0
        BY <1>1, <2>2
      <3> HIDE DEF n, k
      <3>2. k = n - 1 /\ n - 1 - 1 + 1 = n - 1
        BY <3>1
      <3> QED BY <3>2 DEF n, k
    <2>4. ASSUME NEW i \in 1 .. Len(q) - 1 PROVE Front(q)[i] = q[i]
      <3>1. Front(q)[i] = q[1 + i - 1] /\ 1 + i - 1 = i
        BY <2>2, <2>3
      <3> QED BY <3>1
    <2> QED BY <2>2, <2>3, <2>4
  <1>3. Last(q) \in S /\ Last(q) = q[Len(q)]
    BY <1>1 DEF Last
  <1>4. q = Append(Front(q), Last(q))
    BY <1>1, <1>2, <1>3
  <1> QED BY <1>1, <1>2, <1>3, <1>4

\* and the front of one that was appended to is what it was.
LEMMA FrontOfAppend ==
  ASSUME NEW S, NEW q \in Seq(S), NEW x \in S
  PROVE  Append(q, x) # << >> /\ Front(Append(q, x)) = q /\ Last(Append(q, x)) = x
  <1>1. /\ Append(q, x) \in Seq(S) /\ Len(Append(q, x)) = Len(q) + 1 /\ Len(q) \in Nat
        /\ Append(q, x)[Len(q) + 1] = x /\ \A i \in 1 .. Len(q) : Append(q, x)[i] = q[i]
    OBVIOUS
  <1>2. Append(q, x) # << >>
    BY <1>1
  <1>3. Front(Append(q, x)) = q
    BY <1>1 DEF Front
  <1>4. Last(Append(q, x)) = x
    BY <1>1 DEF Last
  <1> QED BY <1>2, <1>3, <1>4

\* The least of a set of numbers is one of them and below all others,
LEMMA MinIs ==
  ASSUME NEW S \in SUBSET Nat, S # {} PROVE Min(S) \in S /\ \A m \in S : Min(S) <= m
  BY Least DEF Min

\* and a number of the set that is below all others is the least.
LEMMA MinOf ==
  ASSUME NEW S \in SUBSET Nat, NEW n \in S, \A m \in S : n <= m PROVE Min(S) = n
  <1>1. Min(S) \in S /\ Min(S) <= n /\ n <= Min(S)
    BY MinIs
  <1> HIDE DEF Min
  <1>2. Min(S) \in Nat
    BY <1>1
  <1> QED BY <1>1, <1>2

\* One more symbol, and where those of S are.
LEMMA PlacesGrow ==
  ASSUME NEW c \in Seq(TextSymbols), NEW s \in TextSymbols, NEW S
  PROVE  /\ Places(Append(c, s), S) = Places(c, S) \cup (IF s \in S THEN {Len(c) + 1} ELSE {})
         /\ Places(c, S) \in SUBSET (1 .. Len(c)) /\ Len(c) \in Nat
  <1>1. /\ Len(Append(c, s)) = Len(c) + 1 /\ Append(c, s)[Len(c) + 1] = s /\ Len(c) \in Nat
        /\ \A i \in 1 .. Len(c) : Append(c, s)[i] = c[i]
    OBVIOUS
  <1> DEFINE t == Append(c, s)
  <1> HIDE DEF t
  <1>2. /\ Len(t) = Len(c) + 1 /\ t[Len(c) + 1] = s
        /\ \A i \in 1 .. Len(c) : t[i] = c[i]
    BY <1>1 DEF t
  <1>3. ASSUME NEW i \in 1 .. Len(t)
        PROVE  t[i] \in S <=> (i \in Places(c, S) \/ (s \in S /\ i = Len(c) + 1))
    BY <1>1, <1>2, <1>3 DEF Places
  <1>4. Places(t, S) = Places(c, S) \cup (IF s \in S THEN {Len(c) + 1} ELSE {})
    BY <1>1, <1>2, <1>3 DEF Places
  <1> QED BY <1>1, <1>4 DEF t, Places

\* What comes before them, and what comes after.
LEMMA AroundGrow ==
  ASSUME NEW c \in Seq(TextSymbols), NEW s \in TextSymbols, NEW S
  PROVE  /\ Before(Append(c, s), S) = IF Places(c, S) # {} THEN Before(c, S)
                                      ELSE IF s \in S THEN c ELSE Append(c, s)
         /\ After(Append(c, s), S) = IF Places(c, S) # {} THEN Append(After(c, S), s) ELSE << >>
  <1> DEFINE t == Append(c, s)
  <1>1. /\ Len(t) = Len(c) + 1 /\ t[Len(c) + 1] = s /\ Len(c) \in Nat /\ t \in Seq(TextSymbols)
        /\ \A i \in 1 .. Len(c) : t[i] = c[i]
    OBVIOUS
  <1>2. /\ Places(t, S) = Places(c, S) \cup (IF s \in S THEN {Len(c) + 1} ELSE {})
        /\ Places(c, S) \in SUBSET (1 .. Len(c))
    BY PlacesGrow
  <1>3. Places(c, S) \in SUBSET Nat /\ Places(t, S) \in SUBSET Nat
    BY <1>1, <1>2
  <1>4. CASE Places(c, S) # {}
    <2> DEFINE m == Min(Places(c, S))
    <2>1. m \in Places(c, S) /\ \A i \in Places(c, S) : m <= i
      BY <1>3, <1>4, MinIs
    <2>2. m \in 1 .. Len(c)
      BY <1>2, <2>1
    <2>3. Min(Places(t, S)) = m
      <3>1. m \in Places(t, S) /\ \A i \in Places(t, S) : m <= i
        BY <1>1, <1>2, <2>1, <2>2
      <3> HIDE DEF m
      <3> QED BY <1>3, <3>1, MinOf
    <2> HIDE DEF m, t
    <2>4. SubSeq(t, 1, m - 1) = SubSeq(c, 1, m - 1)
      BY <1>1, <2>2
    <2>5. SubSeq(t, m + 1, Len(t)) = Append(SubSeq(c, m + 1, Len(c)), s)
      <3> DEFINE a == SubSeq(t, m + 1, Len(t))
                 b == SubSeq(c, m + 1, Len(c))
      <3>1. /\ a \in Seq(TextSymbols) /\ Len(a) = Len(c) + 1 - m
            /\ \A i \in 1 .. Len(c) + 1 - m : a[i] = t[m + i]
        <4>1. m + 1 \in Int /\ Len(t) \in Int /\ \A i \in m + 1 .. Len(t) : t[i] \in TextSymbols
          BY <1>1, <2>2
        <4>2. /\ a \in Seq(TextSymbols)
              /\ Len(a) = IF m + 1 <= Len(t) THEN Len(t) - (m + 1) + 1 ELSE 0
              /\ \A i \in 1 .. Len(t) - (m + 1) + 1 : a[i] = t[m + 1 + i - 1]
          BY <4>1, SubSeqProperties
        <4> HIDE DEF a
        <4>3. Len(t) - (m + 1) + 1 = Len(c) + 1 - m /\ m + 1 <= Len(t)
          BY <1>1, <2>2
        <4>4. \A i \in 1 .. Len(c) + 1 - m : m + 1 + i - 1 = m + i
          BY <1>1, <2>2
        <4> QED BY <4>2, <4>3, <4>4
      <3>2. /\ b \in Seq(TextSymbols) /\ Len(b) = Len(c) - m
            /\ \A i \in 1 .. Len(c) - m : b[i] = c[m + i]
        <4>1. m + 1 \in Int /\ Len(c) \in Int /\ \A i \in m + 1 .. Len(c) : c[i] \in TextSymbols
          BY <1>1, <2>2
        <4>2. /\ b \in Seq(TextSymbols)
              /\ Len(b) = IF m + 1 <= Len(c) THEN Len(c) - (m + 1) + 1 ELSE 0
              /\ \A i \in 1 .. Len(c) - (m + 1) + 1 : b[i] = c[m + 1 + i - 1]
          BY <4>1, SubSeqProperties
        <4> HIDE DEF b
        <4> QED BY <1>1, <2>2, <4>2
      <3> HIDE DEF a, b
      <3>4. /\ Append(b, s) \in Seq(TextSymbols) /\ Len(Append(b, s)) = Len(b) + 1
            /\ Append(b, s)[Len(b) + 1] = s /\ \A i \in 1 .. Len(b) : Append(b, s)[i] = b[i]
        BY <3>2, AppendProperties
      <3>3. ASSUME NEW i \in 1 .. Len(a) PROVE a[i] = Append(b, s)[i]
        <4>1. i \in 1 .. Len(b) + 1 /\ a[i] = t[m + i]
          BY <1>1, <2>2, <3>1, <3>2
        <4>2. CASE i = Len(b) + 1
          BY <1>1, <2>2, <3>2, <3>4, <4>1, <4>2
        <4>3. CASE i # Len(b) + 1
          <5>1. i \in 1 .. Len(b) /\ m + i \in 1 .. Len(c) /\ i \in 1 .. Len(c) - m
            <6>1. Len(c) \in Nat /\ m \in Nat /\ i \in Nat /\ Len(b) = Len(c) - m /\ Len(b) \in Nat
              BY <1>1, <2>2, <3>2, <4>1
            <6>2. 1 <= i /\ i <= Len(b) + 1
              BY <4>1, <6>1
            <6>3. i <= Len(b) /\ 1 <= i
              BY <4>3, <6>1, <6>2
            <6> QED BY <2>2, <6>1, <6>3
          <5> QED BY <1>1, <3>2, <3>4, <4>1, <5>1
        <4> QED BY <4>2, <4>3
      <3>5. Len(Append(b, s)) = Len(a)
        BY <1>1, <2>2, <3>1, <3>2, <3>4
      <3> QED BY <3>1, <3>3, <3>4, <3>5, SeqEqual DEF a, b
    <2>6. Before(t, S) = Before(c, S) /\ After(t, S) = Append(After(c, S), s)
      BY <1>2, <1>4, <2>3, <2>4, <2>5 DEF Before, After, m
    <2> QED BY <1>4, <2>6 DEF t
  <1>5. CASE Places(c, S) = {} /\ s \in S
    <2>1. Places(t, S) = {Len(c) + 1}
      BY <1>2, <1>5
    <2>2. Min(Places(t, S)) = Len(c) + 1
      BY <1>1, <1>3, <2>1, MinOf
    <2> HIDE DEF t
    <2>3. SubSeq(t, 1, Len(c) + 1 - 1) = c
      BY <1>1
    <2>4. SubSeq(t, Len(c) + 1 + 1, Len(t)) = << >>
      BY <1>1
    <2>5. Places(t, S) # {}
      BY <2>1
    <2> HIDE DEF Min
    <2>6. /\ Before(t, S) = SubSeq(t, 1, Min(Places(t, S)) - 1)
          /\ After(t, S) = SubSeq(t, Min(Places(t, S)) + 1, Len(t))
      BY <2>5 DEF Before, After
    <2>7. Before(t, S) = c /\ After(t, S) = << >>
      BY <2>2, <2>3, <2>4, <2>6
    <2> QED BY <1>5, <2>7 DEF t
  <1>6. CASE Places(c, S) = {} /\ s \notin S
    <2>1. Places(t, S) = {}
      BY <1>2, <1>6
    <2> QED BY <1>6, <2>1 DEF Before, After
  <1> QED BY <1>4, <1>5, <1>6

\* In an empty text there is nothing.
LEMMA NothingAround ==
  ASSUME NEW S PROVE Places(<< >>, S) = {} /\ Before(<< >>, S) = << >> /\ After(<< >>, S) = << >>
  BY DEF Places, Before, After

-----------------------------------------------------------------------------
(* Cutting a text into pieces.                                             *)

PieceType == [tag : BOOLEAN, content : Seq(TextSymbols)]
CutType == [pieces : Seq(PieceType), inTag : BOOLEAN]
\* A tag that is not ended is the last piece.
TagIsLast(a) == a.inTag => a.pieces # << >> /\ Last(a.pieces).tag
\* The next symbol belongs to the last piece.
Extends(a, s) == \/ a.inTag /\ s # "GT"
                 \/ ~a.inTag /\ s # "LT" /\ a.pieces # << >> /\ ~Last(a.pieces).tag
\* It starts a run of text.
Begins(a, s) == ~a.inTag /\ s # "LT" /\ (a.pieces = << >> \/ Last(a.pieces).tag)

\* A piece is a piece.
LEMMA PieceIs ==
  ASSUME NEW b \in BOOLEAN, NEW c \in Seq(TextSymbols)
  PROVE  Piece(b, c) \in PieceType /\ Piece(b, c).tag = b /\ Piece(b, c).content = c
  BY DEF Piece, PieceType

\* What a symbol does: it ends the tag,
LEMMA CutEnds ==
  ASSUME NEW a \in CutType, a.inTag
  PROVE  /\ Cut(a, "GT") \in CutType /\ Cut(a, "GT").pieces = a.pieces
         /\ ~Cut(a, "GT").inTag
  <1>1. Cut(a, "GT") = [a EXCEPT !.inTag = FALSE]
    BY DEF Cut
  <1> QED BY <1>1 DEF CutType

\* it starts one,
LEMMA CutOpens ==
  ASSUME NEW a \in CutType, ~a.inTag
  PROVE  /\ Cut(a, "LT") \in CutType /\ Cut(a, "LT").inTag
         /\ Cut(a, "LT").pieces = Append(a.pieces, Piece(TRUE, << >>))
  <1>1. Cut(a, "LT") = [pieces |-> Append(a.pieces, Piece(TRUE, << >>)), inTag |-> TRUE]
    BY DEF Cut
  <1>2. Append(a.pieces, Piece(TRUE, << >>)) \in Seq(PieceType)
    <2>1. Piece(TRUE, << >>) \in PieceType /\ a.pieces \in Seq(PieceType)
      BY PieceIs, EmptyIsSeq DEF CutType
    <2> QED BY <2>1, AppendProperties
  <1> DEFINE q == Append(a.pieces, Piece(TRUE, << >>))
  <1> HIDE DEF q
  <1>3. Cut(a, "LT") = [pieces |-> q, inTag |-> TRUE] /\ q \in Seq(PieceType)
    BY <1>1, <1>2 DEF q
  <1>4. Cut(a, "LT").pieces = q /\ Cut(a, "LT").inTag
    BY <1>3
  <1>5. Cut(a, "LT") \in CutType
    <2>1. [pieces |-> q, inTag |-> TRUE] \in [pieces : Seq(PieceType), inTag : BOOLEAN]
      BY <1>3
    <2> QED BY <1>3, <2>1, Zenon DEF CutType
  <1> QED BY <1>4, <1>5 DEF q

\* it is one more of the last piece,
LEMMA CutExtends ==
  ASSUME NEW a \in CutType, NEW s \in TextSymbols, TagIsLast(a), Extends(a, s)
  PROVE  /\ Cut(a, s) \in CutType /\ Cut(a, s).inTag = a.inTag /\ a.pieces # << >>
         /\ Cut(a, s).pieces = Append(Front(a.pieces),
              Piece(Last(a.pieces).tag, Append(Last(a.pieces).content, s)))
  <1> DEFINE q == a.pieces
             n == Len(q)
             p == Last(q)
             e == Piece(p.tag, Append(p.content, s))
  <1>1. q \in Seq(PieceType) /\ q # << >> /\ a.inTag \in BOOLEAN
    BY DEF CutType, TagIsLast, Extends
  <1>2. n \in Nat \ {0} /\ p \in PieceType /\ p = q[n] /\ Front(q) \in Seq(PieceType)
        /\ Len(Front(q)) = n - 1 /\ \A i \in 1 .. n - 1 : Front(q)[i] = q[i]
    BY <1>1, FrontAndLast
  <1>3. e \in PieceType
    <2>1. p.tag \in BOOLEAN /\ Append(p.content, s) \in Seq(TextSymbols)
      BY <1>2 DEF PieceType
    <2> QED BY <2>1, PieceIs
  <1>4. [p EXCEPT !.content = Append(p.content, s)] = e
    <2>1. p = [tag |-> p.tag, content |-> p.content]
      BY <1>2 DEF PieceType
    <2>2. [[tag |-> p.tag, content |-> p.content] EXCEPT !.content = Append(p.content, s)]
            = [tag |-> p.tag, content |-> Append(p.content, s)]
      BY SMTT(30)
    <2> HIDE DEF p
    <2> QED BY <2>1, <2>2, Zenon DEF Piece
  <1> HIDE DEF e, p
  <1>5. [q EXCEPT ![n].content = Append(@, s)] = [q EXCEPT ![n] = e]
    BY <1>2, <1>4
  <1>6. [q EXCEPT ![n] = e] = Append(Front(q), e)
    <2> DEFINE u == [q EXCEPT ![n] = e]
               v == Append(Front(q), e)
    <2>1. u \in Seq(PieceType) /\ Len(u) = n /\ \A j \in 1 .. n : u[j] = IF j = n THEN e ELSE q[j]
      BY <1>1, <1>2, <1>3, ExceptSeq
    <2>2. v \in Seq(PieceType) /\ Len(v) = n /\ \A j \in 1 .. n : v[j] = IF j = n THEN e ELSE q[j]
      <3> HIDE DEF n, q
      <3>1. /\ v \in Seq(PieceType) /\ Len(v) = Len(Front(q)) + 1 /\ v[Len(Front(q)) + 1] = e
            /\ \A j \in 1 .. Len(Front(q)) : v[j] = Front(q)[j]
        BY <1>2, <1>3, AppendProperties
      <3> HIDE DEF v
      <3> QED BY <1>2, <3>1
    <2> HIDE DEF u, v
    <2> QED BY <2>1, <2>2, SeqEqual DEF u, v
  <1>7. Append(Front(q), e) \in Seq(PieceType)
    BY <1>2, <1>3
  <1>8. Cut(a, s) = [a EXCEPT !.pieces = [q EXCEPT ![n].content = Append(@, s)]]
    <2>1. n # 0 /\ q[n] = p
      BY <1>2
    <2>2. CASE a.inTag /\ s # "GT"
      BY <2>2 DEF Cut
    <2>3. CASE ~a.inTag /\ s # "LT" /\ ~p.tag
      BY <2>1, <2>3 DEF Cut
    <2> QED BY <2>2, <2>3 DEF Extends, p
  <1> HIDE DEF q, n
  <1>9. Cut(a, s) = [a EXCEPT !.pieces = Append(Front(q), e)]
    BY <1>5, <1>6, <1>8
  <1> QED BY <1>1, <1>7, <1>9 DEF CutType, q, e, p

\* or it starts a run of text.
LEMMA CutBegins ==
  ASSUME NEW a \in CutType, NEW s \in TextSymbols, Begins(a, s)
  PROVE  /\ Cut(a, s) \in CutType /\ ~Cut(a, s).inTag
         /\ Cut(a, s).pieces = Append(a.pieces, Piece(FALSE, <<s>>))
  <1> DEFINE q == a.pieces
  <1>1. q \in Seq(PieceType) /\ a.inTag = FALSE
    BY DEF CutType, Begins
  <1>2. Piece(FALSE, <<s>>) \in PieceType
    <2>1. <<s>> \in Seq(TextSymbols)
      OBVIOUS
    <2> QED BY <2>1, PieceIs
  <1>3. Len(q) = 0 \/ q[Len(q)].tag
    BY <1>1 DEF Begins, Last
  <1>4. Cut(a, s) = [a EXCEPT !.pieces = Append(q, Piece(FALSE, <<s>>))]
    BY <1>1, <1>3 DEF Cut, Begins
  <1>5. Append(q, Piece(FALSE, <<s>>)) \in Seq(PieceType)
    BY <1>1, <1>2, AppendProperties
  <1> HIDE DEF q
  <1> QED BY <1>1, <1>4, <1>5 DEF CutType, q

\* There is no other, and a tag that is not ended stays the last piece.
LEMMA CutSound ==
  ASSUME NEW a \in CutType, NEW s \in TextSymbols, TagIsLast(a)
  PROVE  Cut(a, s) \in CutType /\ TagIsLast(Cut(a, s))
  <1>0. a.pieces \in Seq(PieceType) /\ a.inTag \in BOOLEAN
    BY DEF CutType
  <1>1. CASE a.inTag /\ s = "GT"
    BY <1>1, CutEnds DEF TagIsLast
  <1>2. CASE ~a.inTag /\ s = "LT"
    <2>1. Piece(TRUE, << >>) \in PieceType /\ Piece(TRUE, << >>).tag
      BY PieceIs, EmptyIsSeq
    <2>2. Last(Cut(a, s).pieces) = Piece(TRUE, << >>) /\ Cut(a, s).pieces # << >>
      <3>1. Cut(a, s).pieces = Append(a.pieces, Piece(TRUE, << >>))
        BY <1>2, CutOpens
      <3> HIDE DEF Last
      <3> QED BY <1>0, <2>1, <3>1, FrontOfAppend, ZenonT(30)
    <2> QED BY <1>2, <2>1, <2>2, CutOpens DEF TagIsLast
  <1>3. CASE Extends(a, s)
    <2>1. /\ Cut(a, s) \in CutType /\ Cut(a, s).inTag = a.inTag /\ a.pieces # << >>
          /\ Cut(a, s).pieces = Append(Front(a.pieces),
               Piece(Last(a.pieces).tag, Append(Last(a.pieces).content, s)))
      BY <1>3, CutExtends
    <2>2. Last(a.pieces) \in PieceType /\ Front(a.pieces) \in Seq(PieceType)
      BY <1>0, <2>1, FrontAndLast
    <2> DEFINE e == Piece(Last(a.pieces).tag, Append(Last(a.pieces).content, s))
    <2>3. e \in PieceType /\ e.tag = Last(a.pieces).tag
      <3>1. Last(a.pieces).tag \in BOOLEAN /\ Append(Last(a.pieces).content, s) \in Seq(TextSymbols)
        BY <2>2 DEF PieceType
      <3> QED BY <3>1, PieceIs
    <2> HIDE DEF e
    <2>4. Last(Append(Front(a.pieces), e)) = e /\ Append(Front(a.pieces), e) # << >>
      BY <2>2, <2>3, FrontOfAppend
    <2>5. TagIsLast(Cut(a, s))
      BY <2>1, <2>3, <2>4 DEF TagIsLast, e
    <2> QED BY <2>1, <2>5
  <1>4. CASE Begins(a, s)
    BY <1>4, CutBegins DEF TagIsLast
  <1> QED BY <1>0, <1>1, <1>2, <1>3, <1>4 DEF Extends, Begins

\* So it is at every place of a text.
LEMMA CutsAre ==
  ASSUME NEW t \in Seq(TextSymbols)
  PROVE  \A n \in 0 .. Len(t) : Cuts(t)[n] \in CutType /\ TagIsLast(Cuts(t)[n])
  <1> DEFINE Bad == {n \in 0 .. Len(t) : ~(Cuts(t)[n] \in CutType /\ TagIsLast(Cuts(t)[n]))}
  <1> SUFFICES ASSUME Bad # {} PROVE FALSE
    OBVIOUS
  <1>1. Bad \in SUBSET Nat /\ Len(t) \in Nat
    OBVIOUS
  <1> HIDE DEF Bad
  <1>2. PICK n \in Bad : \A m \in Bad : n <= m
    BY <1>1, Least
  <1>3. n \in 0 .. Len(t)
    BY <1>2 DEF Bad
  <1>4. CASE n = 0
    <2>1. Cuts(t)[0] = NoCuts
      BY <1>1, CutsEquation
    <2>2. NoCuts \in CutType /\ TagIsLast(NoCuts)
      BY EmptyIsSeq DEF NoCuts, CutType, TagIsLast
    <2> QED BY <1>2, <1>4, <2>1, <2>2 DEF Bad
  <1>5. CASE n # 0
    <2>1. n - 1 \in 0 .. Len(t) /\ n - 1 \notin Bad /\ n \in 1 .. Len(t) /\ t[n] \in TextSymbols
      BY <1>1, <1>2, <1>3, <1>5
    <2>2. Cuts(t)[n - 1] \in CutType /\ TagIsLast(Cuts(t)[n - 1])
      BY <2>1 DEF Bad
    <2>3. Cuts(t)[n] = Cut(Cuts(t)[n - 1], t[n])
      BY <1>1, <2>1, CutsEquation
    <2> QED BY <1>2, <1>3, <2>1, <2>2, <2>3, CutSound DEF Bad
  <1> QED BY <1>4, <1>5

-----------------------------------------------------------------------------
(* What the tokenizer has gathered of the piece it is in, whose content is *)
(* c so far: in a run of text, in an escape, in the name of a tag, in its  *)
(* classes, in its annotation, in an end tag and in a time stamp.          *)

\* The text ends in what may be the beginning of an escape.
Escaping(c) ==
  c # << >> /\ \/ c[Len(c)] = "AMP"
               \/ Len(c) > 1 /\ c[Len(c) - 1] = "AMP" /\ c[Len(c)] \in {"amp", "lt"}
AsRun(c, r) == r = Plain(c) /\ ~Escaping(c)
AsEscape(c, r, b) ==
  /\ b # << >> /\ b[1] = "AMP" /\ \A i \in 2 .. Len(b) : AlphaNumeric(b[i])
  /\ Len(b) <= Len(c) /\ \A i \in 1 .. Len(b) : c[Len(c) - Len(b) + i] = b[i]
  /\ r = Plains(c)[Len(c) - Len(b)] /\ Plain(c) = r \o b

IsStart(c) == ~IsEnd(c) /\ ~IsTime(c)
AsName(c, r) == IsStart(c) /\ c = r /\ Places(c, {"SP", "DOT"}) = {}
AsClasses(c, r, css, b) ==
  /\ c # << >> /\ IsStart(c) /\ r = TagName(c) /\ Places(c, {"SP"}) = {} /\ Places(c, {"DOT"}) # {}
  /\ Append(css, b) = Dotted(ClassPart(c))[Len(ClassPart(c))]
AsNote(c, r, note) ==
  /\ c # << >> /\ IsStart(c) /\ r = TagName(c) /\ Places(c, {"SP"}) # {} /\ ~HasClasses(c)
  /\ note = After(c, {"SP"})
AsEndTag(c, r) == IsEnd(c) /\ r = Tail(c)
AsTime(c, r) == IsTime(c) /\ r = c

\* A sequence and one more element.
LEMMA OneMore ==
  ASSUME NEW S, NEW c \in Seq(S), NEW s \in S
  PROVE  /\ Append(c, s) \in Seq(S) /\ Len(Append(c, s)) = Len(c) + 1 /\ Len(c) \in Nat
         /\ Append(c, s)[Len(c) + 1] = s /\ \A i \in 1 .. Len(c) : Append(c, s)[i] = c[i]
         /\ Append(c, s) # << >>
  BY AppendProperties, LenProperties

\* Nothing is a run of text as well.
LEMMA EmptyRun == AsRun(<< >>, << >>)
  <1>1. Len(<< >>) = 0 /\ 0 \in 0 .. 0
    OBVIOUS
  <1>2. Plains(<< >>)[0] = PlainAt(Plains(<< >>), << >>, 0)
    BY <1>1, PlainsEquation
  <1>3. Plain(<< >>) = << >>
    BY <1>1, <1>2 DEF Plain, PlainAt
  <1> QED BY <1>3 DEF AsRun, Escaping

\* When no escape ends with a symbol it stands for itself.
LEMMA PlainSymbol ==
  ASSUME NEW c \in Seq(TextSymbols), NEW x \in TextSymbols, ~EscapeEndsAt(Append(c, x), Len(c) + 1)
  PROVE  Plain(Append(c, x)) = Append(Plain(c), x)
  BY PlainGrows

\* Only a semicolon ends one, after its name.
LEMMA EscapeEndsWith ==
  ASSUME NEW c \in Seq(TextSymbols), NEW x \in TextSymbols
  PROVE  EscapeEndsAt(Append(c, x), Len(c) + 1) <=>
           /\ x = "SEMI" /\ Len(c) > 1 /\ c[Len(c) - 1] = "AMP" /\ c[Len(c)] \in {"amp", "lt"}
  <1> DEFINE t == Append(c, x)
             n == Len(c)
  <1>1. n \in Nat /\ t[n + 1] = x /\ \A i \in 1 .. n : t[i] = c[i]
    BY OneMore
  <1> HIDE DEF t, n
  <1>2. CASE n > 1
    <2>1. t[(n + 1) - 2] = c[n - 1] /\ t[(n + 1) - 1] = c[n] /\ t[n + 1] = x /\ n + 1 > 2
      <3>1. n - 1 \in 1 .. n /\ n \in 1 .. n /\ (n + 1) - 2 = n - 1 /\ (n + 1) - 1 = n
        BY <1>1, <1>2
      <3> QED BY <1>1, <1>2, <3>1
    <2>2. EscapeEndsAt(t, n + 1) <=> <<c[n - 1], c[n], x>> \in EscapeTexts
      <3>1. <<t[(n + 1) - 2], t[(n + 1) - 1], t[n + 1]>> = <<c[n - 1], c[n], x>>
        BY <2>1, Zenon
      <3> QED BY <2>1, <3>1, Zenon DEF EscapeEndsAt
    <2>3. <<c[n - 1], c[n], x>> \in EscapeTexts
            <=> (x = "SEMI" /\ c[n - 1] = "AMP" /\ c[n] \in {"amp", "lt"})
      BY DEF EscapeTexts
    <2> QED BY <1>2, <2>2, <2>3 DEF t, n
  <1>3. CASE ~(n > 1)
    <2>1. ~(n + 1 > 2)
      BY <1>1, <1>3
    <2> QED BY <1>3, <2>1 DEF EscapeEndsAt, t, n
  <1> QED BY <1>2, <1>3

\* After one that is neither an ampersand nor the name of an escape no escape is begun.
LEMMA NotEscaping ==
  ASSUME NEW c \in Seq(TextSymbols), NEW x \in TextSymbols, x # "AMP",
         x \in {"amp", "lt"} => ~Escaping(c)
  PROVE  ~Escaping(Append(c, x))
  <1> DEFINE t == Append(c, x)
             n == Len(c)
  <1>1. n \in Nat /\ Len(t) = n + 1 /\ t[n + 1] = x /\ \A i \in 1 .. n : t[i] = c[i]
    BY OneMore
  <1> HIDE DEF t
  <1> SUFFICES ASSUME Escaping(t) PROVE FALSE
    BY DEF t
  <1>2. n + 1 > 1 /\ t[n] = "AMP" /\ x \in {"amp", "lt"}
    <2>1. Len(t) - 1 = n
      BY <1>1
    <2> QED BY <1>1, <2>1 DEF Escaping
  <1>3. n \in 1 .. n /\ c[n] = "AMP" /\ c # << >>
    BY <1>1, <1>2
  <1> QED BY <1>2, <1>3 DEF Escaping

\* A run of text goes on with any symbol but an ampersand,
LEMMA RunGrows ==
  ASSUME NEW c \in Seq(TextSymbols), NEW r, AsRun(c, r), NEW x \in TextSymbols, x # "AMP"
  PROVE  AsRun(Append(c, x), Append(r, x))
  <1>1. ~EscapeEndsAt(Append(c, x), Len(c) + 1)
    <2> SUFFICES ASSUME EscapeEndsAt(Append(c, x), Len(c) + 1) PROVE FALSE
      OBVIOUS
    <2>1. Len(c) > 1 /\ c[Len(c) - 1] = "AMP" /\ c[Len(c)] \in {"amp", "lt"}
      BY EscapeEndsWith
    <2>2. c # << >>
      BY <2>1
    <2> QED BY <2>1, <2>2 DEF AsRun, Escaping
  <1>2. Plain(Append(c, x)) = Append(Plain(c), x)
    BY <1>1, PlainSymbol
  <1>3. ~Escaping(Append(c, x))
    BY NotEscaping DEF AsRun
  <1> QED BY <1>2, <1>3 DEF AsRun

\* and an ampersand begins an escape.
LEMMA EscapeBegins ==
  ASSUME NEW c \in Seq(TextSymbols), NEW r \in Seq(TextSymbols), r = Plain(c)
  PROVE  AsEscape(Append(c, "AMP"), r, <<"AMP">>)
  <1> DEFINE x == "AMP"
             t == Append(c, x)
             b == <<x>>
  <1>1. /\ Len(c) \in Nat /\ Len(t) = Len(c) + 1 /\ t[Len(c) + 1] = x /\ x \in TextSymbols
    BY OneMore DEF TextSymbols
  <1>2. Plains(t)[Len(c)] = Plain(c)
    BY <1>1, PlainGrows DEF Plain
  <1>3. ~EscapeEndsAt(t, Len(c) + 1)
    BY <1>1, EscapeEndsWith
  <1>4. Plain(t) = Append(r, x)
    BY <1>1, <1>3, PlainSymbol
  <1>5. Append(r, x) = r \o <<x>>
    BY <1>1, AppendIsConcat
  <1>6. Len(b) = 1 /\ b[1] = x /\ b # << >>
    OBVIOUS
  <1> HIDE DEF t, b
  <1>7. Len(t) - Len(b) = Len(c) /\ Len(b) <= Len(t)
    BY <1>1, <1>6
  <1>8. \A i \in 1 .. Len(b) : t[Len(t) - Len(b) + i] = b[i]
    BY <1>1, <1>6, <1>7
  <1>9. \A i \in 2 .. Len(b) : AlphaNumeric(b[i])
    BY <1>6
  <1> QED BY <1>2, <1>4, <1>5, <1>6, <1>7, <1>8, <1>9 DEF AsEscape, t, b

\* An escape goes on with a letter, a word or a digit,
LEMMA EscapeGrows ==
  ASSUME NEW c \in Seq(TextSymbols), NEW r \in Seq(TextSymbols), NEW b \in Seq(TextSymbols),
         AsEscape(c, r, b), NEW x \in TextSymbols, AlphaNumeric(x)
  PROVE  AsEscape(Append(c, x), r, Append(b, x))
  <1> DEFINE t == Append(c, x)
             d == Append(b, x)
             k == Len(c) - Len(b)
  <1>1. /\ Len(c) \in Nat /\ Len(t) = Len(c) + 1 /\ t[Len(c) + 1] = x /\ t \in Seq(TextSymbols)
        /\ \A i \in 1 .. Len(c) : t[i] = c[i]
    BY OneMore
  <1>2. /\ Len(b) \in Nat /\ Len(d) = Len(b) + 1 /\ d[Len(b) + 1] = x /\ d \in Seq(TextSymbols)
        /\ d # << >> /\ \A i \in 1 .. Len(b) : d[i] = b[i]
    BY OneMore
  <1>3. /\ b # << >> /\ b[1] = "AMP" /\ \A i \in 2 .. Len(b) : AlphaNumeric(b[i])
        /\ Len(b) <= Len(c) /\ \A i \in 1 .. Len(b) : c[k + i] = b[i]
        /\ r = Plains(c)[k] /\ Plain(c) = r \o b
    BY DEF AsEscape
  <1>4. Len(b) > 0
    BY <1>2, <1>3
  <1>5. k \in 0 .. Len(c) /\ Len(t) - Len(d) = k /\ k + Len(b) = Len(c)
    BY <1>1, <1>2, <1>3
  <1>6. x # "SEMI"
    BY DEF AlphaNumeric, Letters, Words
  <1>7. Plain(t) = Append(r \o b, x)
    <2>1. ~EscapeEndsAt(t, Len(c) + 1)
      BY <1>6, EscapeEndsWith
    <2>2. Plain(t) = Append(Plain(c), x)
      BY <2>1, PlainSymbol
    <2> QED BY <1>3, <2>2
  <1>8. Append(r \o b, x) = r \o d
    <2>1. r \o b \in Seq(TextSymbols) /\ <<x>> \in Seq(TextSymbols)
      BY ConcatProperties
    <2>2. Append(r \o b, x) = (r \o b) \o <<x>> /\ d = b \o <<x>>
      BY <2>1, AppendIsConcat
    <2> HIDE DEF d
    <2> QED BY <2>1, <2>2, ConcatAssociative, SMTT(30)
  <1>9. Plains(t)[k] = r
    BY <1>3, <1>5, PlainGrows
  <1> HIDE DEF t, d, k
  <1>10. d[1] = "AMP"
    BY <1>2, <1>3, <1>4
  <1>11. ASSUME NEW i \in 2 .. Len(d) PROVE AlphaNumeric(d[i])
    <2>1. CASE i = Len(b) + 1
      BY <1>2, <2>1
    <2>2. CASE i # Len(b) + 1
      <3>1. i \in 2 .. Len(b) /\ i \in 1 .. Len(b)
        BY <1>2, <2>2
      <3> QED BY <1>2, <1>3, <3>1
    <2> QED BY <2>1, <2>2
  <1>12. ASSUME NEW i \in 1 .. Len(d) PROVE t[k + i] = d[i]
    <2>1. CASE i = Len(b) + 1
      <3>1. k + i = Len(c) + 1
        BY <1>1, <1>2, <1>5, <2>1
      <3> QED BY <1>1, <1>2, <2>1, <3>1
    <2>2. CASE i # Len(b) + 1
      <3>1. i \in 1 .. Len(b) /\ k + i \in 1 .. Len(c)
        BY <1>1, <1>2, <1>5, <2>2
      <3> QED BY <1>1, <1>2, <1>3, <3>1
    <2> QED BY <2>1, <2>2
  <1>13. Len(d) <= Len(t)
    BY <1>1, <1>2, <1>3
  <1> QED BY <1>2, <1>5, <1>7, <1>8, <1>9, <1>10, <1>11, <1>12, <1>13 DEF AsEscape, t, d

\* when no escape ends there what was gathered of it is text after all,
LEMMA EscapeIsText ==
  ASSUME NEW c \in Seq(TextSymbols), NEW r \in Seq(TextSymbols), NEW b \in Seq(TextSymbols),
         AsEscape(c, r, b), NEW x \in TextSymbols, ~EscapeEndsAt(Append(c, x), Len(c) + 1)
  PROVE  Plain(Append(c, x)) = (r \o b) \o <<x>>
  <1>1. Plain(c) = r \o b /\ r \o b \in Seq(TextSymbols)
    BY ConcatProperties DEF AsEscape
  <1> QED BY <1>1, PlainSymbol, AppendIsConcat

\* with the symbol after it,
LEMMA EscapeFails ==
  ASSUME NEW c \in Seq(TextSymbols), NEW r \in Seq(TextSymbols), NEW b \in Seq(TextSymbols),
         AsEscape(c, r, b), NEW x \in {"GT", "DOT", "SLASH", "SP"}
  PROVE  AsRun(Append(c, x), (r \o b) \o <<x>>)
  <1>1. x \in TextSymbols /\ x # "SEMI" /\ x # "AMP" /\ x \notin {"amp", "lt"}
    BY DEF TextSymbols
  <1>2. ~EscapeEndsAt(Append(c, x), Len(c) + 1) /\ ~Escaping(Append(c, x))
    BY <1>1, EscapeEndsWith, NotEscaping
  <1> QED BY <1>1, <1>2, EscapeIsText DEF AsRun

\* and with a semicolon it is what the escape stands for.
LEMMA EscapeCloses ==
  ASSUME NEW c \in Seq(TextSymbols), NEW r \in Seq(TextSymbols), NEW b \in Seq(TextSymbols),
         AsEscape(c, r, b)
  PROVE  AsRun(Append(c, "SEMI"), r \o Unescaped(b))
  <1> DEFINE x == "SEMI"
             t == Append(c, x)
             n == Len(c)
             k == n - Len(b)
  <1>1. x \in TextSymbols /\ x # "AMP" /\ x \notin {"amp", "lt"}
    BY DEF TextSymbols
  <1>2. n \in Nat /\ Len(b) \in Nat
    OBVIOUS
  <1>3. ~Escaping(t)
    BY <1>1, NotEscaping
  <1>4. /\ b # << >> /\ b[1] = "AMP" /\ \A i \in 2 .. Len(b) : AlphaNumeric(b[i])
        /\ Len(b) <= n /\ \A i \in 1 .. Len(b) : c[k + i] = b[i]
        /\ r = Plains(c)[k] /\ Plain(c) = r \o b
    BY DEF AsEscape
  <1>5. Len(b) > 0 /\ c[n] = b[Len(b)] /\ (Len(b) > 1 => c[n - 1] = b[Len(b) - 1])
    <2>1. Len(b) > 0
      BY <1>2, <1>4
    <2>2. k + Len(b) = n /\ k + (Len(b) - 1) = n - 1
      BY <1>2
    <2>3. Len(b) \in 1 .. Len(b) /\ (Len(b) > 1 => Len(b) - 1 \in 1 .. Len(b))
      BY <1>2, <2>1
    <2> HIDE DEF k, n
    <2> QED BY <1>4, <2>1, <2>2, <2>3
  <1> DEFINE named == b = <<"AMP", "amp">> \/ b = <<"AMP", "lt">>
  <1>6. CASE named
    <2>1. Len(b) = 2 /\ b[1] = "AMP" /\ b[2] \in {"amp", "lt"}
      BY <1>6
    <2>2. n > 1 /\ c[n - 1] = "AMP" /\ c[n] = b[2] /\ k = n - 2
      BY <1>2, <1>4, <1>5, <2>1
    <2>3. EscapeEndsAt(t, n + 1)
      BY <1>1, <2>1, <2>2, EscapeEndsWith
    <2> DEFINE y == IF c[n] = "amp" THEN "AMP" ELSE "LT"
    <2>4. Plain(t) = Append(Plains(c)[n - 2], y)
      BY <1>1, <2>3, PlainGrows
    <2>5. Unescaped(b) = <<y>> /\ y \in TextSymbols
      BY <1>6, <2>2 DEF Unescaped, TextSymbols
    <2> HIDE DEF y
    <2>6. Plain(t) = r \o Unescaped(b)
      BY <1>4, <2>2, <2>4, <2>5, AppendIsConcat
    <2> QED BY <1>3, <2>6 DEF AsRun
  <1>7. CASE ~named
    <2>1. ~EscapeEndsAt(t, n + 1)
      <3> SUFFICES ASSUME EscapeEndsAt(t, n + 1) PROVE FALSE
        OBVIOUS
      <3>1. n > 1 /\ c[n - 1] = "AMP" /\ c[n] \in {"amp", "lt"}
        BY <1>1, EscapeEndsWith
      <3>2. CASE Len(b) = 1
        BY <1>4, <1>5, <3>1, <3>2
      <3>3. CASE Len(b) = 2
        <4>1. b[1] = "AMP" /\ b[2] \in {"amp", "lt"}
          BY <1>4, <1>5, <3>1, <3>3
        <4>2. b = <<b[1], b[2]>>
          BY <3>3
        <4> QED BY <1>7, <4>1, <4>2
      <3>4. CASE Len(b) > 2
        <4>1. Len(b) - 1 \in 2 .. Len(b) /\ b[Len(b) - 1] = "AMP"
          BY <1>2, <1>5, <3>1, <3>4
        <4>2. AlphaNumeric("AMP")
          BY <1>4, <4>1
        <4> QED BY <4>2 DEF AlphaNumeric, Letters, Words
      <3>5. Len(b) = 1 \/ Len(b) = 2 \/ Len(b) > 2
        <4> DEFINE m == Len(b)
        <4>1. m \in Nat /\ m > 0
          BY <1>2, <1>5
        <4> HIDE DEF m
        <4>2. m = 1 \/ m = 2 \/ m > 2
          BY <4>1
        <4> QED BY <4>2 DEF m
      <3> QED BY <3>2, <3>3, <3>4, <3>5, Zenon
    <2>2. Plain(t) = (r \o b) \o <<x>>
      BY <1>1, <2>1, EscapeIsText
    <2>3. Unescaped(b) = b \o <<x>>
      BY <1>1, <1>7, AppendIsConcat DEF Unescaped
    <2>4. (r \o b) \o <<x>> = r \o (b \o <<x>>)
      <3>1. <<x>> \in Seq(TextSymbols)
        BY <1>1
      <3> QED BY <3>1, ConcatAssociative
    <2> QED BY <1>3, <2>2, <2>3, <2>4 DEF AsRun
  <1> QED BY <1>6, <1>7

-----------------------------------------------------------------------------
(* The inside of a tag, symbol by symbol.                                  *)

\* A symbol is a space, a dot or neither.
LEMMA PlacesParts ==
  ASSUME NEW c
  PROVE  Places(c, {"SP", "DOT"}) = Places(c, {"SP"}) \cup Places(c, {"DOT"})
  BY DEF Places

\* One more symbol: a place that is there stays, and only a symbol of S is a new one.
LEMMA PlacesKept ==
  ASSUME NEW c \in Seq(TextSymbols), NEW x \in TextSymbols, NEW S
  PROVE  /\ Places(c, S) # {} => Places(Append(c, x), S) # {}
         /\ x \in S => Places(Append(c, x), S) # {}
         /\ x \notin S => Places(Append(c, x), S) = Places(c, S)
  <1> DEFINE P == Places(c, S)
             Q == Places(Append(c, x), S)
  <1>1. Q = P \cup (IF x \in S THEN {Len(c) + 1} ELSE {})
    BY PlacesGrow
  <1> HIDE DEF P, Q
  <1>2. (P # {} => Q # {}) /\ (x \in S => Q # {}) /\ (x \notin S => Q = P)
    BY <1>1
  <1> QED BY <1>2 DEF P, Q

\* A tag with a start stays what it is.
LEMMA StartGrows ==
  ASSUME NEW c \in Seq(TextSymbols), IsStart(c), NEW x \in TextSymbols,
         c # << >> \/ x \notin {"SLASH", "7"}
  PROVE  IsStart(Append(c, x)) /\ IsEnd(Append(c, x)) = FALSE
  <1> DEFINE t == Append(c, x)
  <1>1. Len(c) \in Nat /\ t[Len(c) + 1] = x /\ \A i \in 1 .. Len(c) : t[i] = c[i]
    BY OneMore
  <1> HIDE DEF t
  <1>2. CASE c = << >>
    <2>1. Len(c) = 0
      BY <1>2
    <2> QED BY <1>1, <1>2, <2>1 DEF IsStart, IsEnd, IsTime, t
  <1>3. CASE c # << >>
    <2>1. 1 \in 1 .. Len(c)
      BY <1>3
    <2> QED BY <1>1, <1>3, <2>1 DEF IsStart, IsEnd, IsTime, t
  <1> QED BY <1>2, <1>3

\* Nothing is the beginning of a name.
LEMMA EmptyName == AsName(<< >>, << >>)
  BY NothingAround DEF AsName, IsStart, IsEnd, IsTime

\* Its name goes on,
LEMMA NameGrows ==
  ASSUME NEW c \in Seq(TextSymbols), NEW r, AsName(c, r), NEW x \in TextSymbols,
         x \notin {"SP", "DOT"}, c # << >> \/ x \notin {"SLASH", "7"}
  PROVE  AsName(Append(c, x), Append(r, x))
  <1>1. Places(Append(c, x), {"SP", "DOT"}) = Places(c, {"SP", "DOT"})
    BY PlacesKept
  <1>2. IsStart(Append(c, x))
    BY StartGrows DEF AsName
  <1> QED BY <1>1, <1>2 DEF AsName

\* and ends with a space, after which the annotation begins,
LEMMA NameSpace ==
  ASSUME NEW c \in Seq(TextSymbols), NEW r, AsName(c, r)
  PROVE  AsNote(Append(c, "SP"), r, << >>)
  <1> DEFINE x == "SP"
             t == Append(c, x)
  <1>1. x \in TextSymbols /\ x \notin {"SLASH", "7"} /\ x \in {"SP", "DOT"} /\ x \in {"SP"}
    BY DEF TextSymbols
  <1>2. Places(c, {"SP", "DOT"}) = {} /\ Places(c, {"SP"}) = {} /\ Places(c, {"DOT"}) = {} /\ c = r
    BY PlacesParts DEF AsName
  <1>3. IsStart(t) /\ ~IsEnd(t)
    BY <1>1, StartGrows DEF AsName, IsStart
  <1>4. Before(t, {"SP", "DOT"}) = c /\ Before(t, {"SP"}) = c /\ After(t, {"SP"}) = << >>
    BY <1>1, <1>2, AroundGrow
  <1>5. Places(t, {"SP"}) # {}
    BY <1>1, PlacesKept
  <1>6. t # << >>
    BY <1>1, OneMore
  <1> HIDE DEF t
  <1>7. TagName(t) = r /\ ~HasClasses(t)
    BY <1>2, <1>3, <1>4 DEF TagName, HasClasses
  <1> QED BY <1>3, <1>4, <1>5, <1>6, <1>7 DEF AsNote, t

\* or with a dot, after which the classes begin.
LEMMA NameDot ==
  ASSUME NEW c \in Seq(TextSymbols), NEW r, AsName(c, r)
  PROVE  AsClasses(Append(c, "DOT"), r, << >>, << >>)
  <1> DEFINE x == "DOT"
             t == Append(c, x)
  <1>1. x \in TextSymbols /\ x \notin {"SLASH", "7"} /\ x \in {"SP", "DOT"} /\ x \notin {"SP"}
        /\ x \in {"DOT"}
    BY DEF TextSymbols
  <1>2. Places(c, {"SP", "DOT"}) = {} /\ Places(c, {"SP"}) = {} /\ Places(c, {"DOT"}) = {} /\ c = r
    BY PlacesParts DEF AsName
  <1>3. IsStart(t) /\ ~IsEnd(t)
    BY <1>1, StartGrows DEF AsName, IsStart
  <1>4. Before(t, {"SP", "DOT"}) = c /\ After(t, {"DOT"}) = << >> /\ Before(t, {"SP"}) = t
    BY <1>1, <1>2, AroundGrow
  <1>5. Places(t, {"SP"}) = {} /\ Places(t, {"DOT"}) # {}
    BY <1>1, <1>2, PlacesKept
  <1>6. t # << >>
    BY <1>1, OneMore
  <1> HIDE DEF t
  <1>7. TagName(t) = r /\ ClassPart(t) = << >>
    BY <1>2, <1>3, <1>4 DEF TagName, ClassPart
  <1>8. Dotted(<< >>)[0] = <<<< >>>>
    BY DottedEquation DEF NoDots
  <1>9. Append(<< >>, << >>) = <<<< >>>> /\ Len(<< >>) = 0
    OBVIOUS
  <1> QED BY <1>3, <1>5, <1>6, <1>7, <1>8, <1>9 DEF AsClasses, t

\* The classes go on with any symbol that is no space.
LEMMA ClassPartGrows ==
  ASSUME NEW c \in Seq(TextSymbols), NEW r, NEW css, NEW b, AsClasses(c, r, css, b),
         NEW x \in TextSymbols, x # "SP", ClassPart(c) \in Seq(TextSymbols),
         NEW e, NEW d, SplitAtDot(Append(css, b), x) = Append(e, d)
  PROVE  AsClasses(Append(c, x), r, e, d) /\ ClassPart(Append(c, x)) = Append(ClassPart(c), x)
  <1> DEFINE t == Append(c, x)
             p == ClassPart(c)
  <1>1. /\ c # << >> /\ IsStart(c) /\ r = TagName(c) /\ Places(c, {"SP"}) = {}
        /\ Places(c, {"DOT"}) # {} /\ Append(css, b) = Dotted(p)[Len(p)]
    BY DEF AsClasses
  <1>2. IsStart(t) /\ ~IsEnd(t) /\ t # << >> /\ ~IsEnd(c)
    <2>1. IsStart(t)
      BY <1>1, StartGrows
    <2>2. t # << >>
      BY OneMore
    <2> QED BY <1>1, <2>1, <2>2 DEF IsStart
  <1>3. Places(t, {"SP"}) = {} /\ Places(t, {"DOT"}) # {}
    <2>1. x \notin {"SP"}
      OBVIOUS
    <2> QED BY <1>1, <2>1, PlacesKept
  <1>4. Before(t, {"SP"}) = t /\ Before(c, {"SP"}) = c
    BY <1>1, <1>3 DEF Before
  <1>5. After(t, {"DOT"}) = Append(After(c, {"DOT"}), x)
    BY <1>1, AroundGrow
  <1>6. Before(t, {"SP", "DOT"}) = Before(c, {"SP", "DOT"})
    <2>1. Places(c, {"SP", "DOT"}) # {}
      BY <1>1, PlacesParts
    <2> QED BY <2>1, AroundGrow
  <1> HIDE DEF t
  <1>7. TagName(t) = r /\ ClassPart(t) = Append(p, x)
    BY <1>1, <1>2, <1>4, <1>5, <1>6 DEF TagName, ClassPart
  <1>8. Dotted(Append(p, x))[Len(p) + 1] = SplitAtDot(Dotted(p)[Len(p)], x)
        /\ Len(Append(p, x)) = Len(p) + 1
    BY DottedGrow, OneMore
  <1> HIDE DEF p
  <1>9. Append(e, d) = Dotted(ClassPart(t))[Len(ClassPart(t))]
    BY <1>1, <1>7, <1>8
  <1> QED BY <1>1, <1>2, <1>3, <1>7, <1>9 DEF AsClasses, t, p

\* What comes after a symbol is text,
LEMMA AfterIsText ==
  ASSUME NEW c \in Seq(TextSymbols), NEW S PROVE After(c, S) \in Seq(TextSymbols)
  <1>1. CASE Places(c, S) = {}
    BY <1>1, EmptyIsSeq DEF After
  <1>2. CASE Places(c, S) # {}
    <2> DEFINE m == Min(Places(c, S))
    <2>1. Places(c, S) \in SUBSET Nat /\ Len(c) \in Nat
      BY DEF Places
    <2>2. m \in Nat /\ After(c, S) = SubSeq(c, m + 1, Len(c))
      <3>1. m \in Places(c, S)
        BY <1>2, <2>1, MinIs
      <3> HIDE DEF m
      <3> QED BY <1>2, <2>1, <3>1 DEF After, m
    <2> HIDE DEF m
    <2>3. m + 1 \in Int /\ Len(c) \in Int /\ \A i \in m + 1 .. Len(c) : c[i] \in TextSymbols
      BY <2>1, <2>2
    <2>4. SubSeq(c, m + 1, Len(c)) \in Seq(TextSymbols)
      BY <2>3, SubSeqProperties
    <2> QED BY <2>2, <2>4
  <1> QED BY <1>1, <1>2

\* and so is the part with the classes.
LEMMA ClassPartIsText ==
  ASSUME NEW c \in Seq(TextSymbols), Places(c, {"SP"}) = {} PROVE ClassPart(c) \in Seq(TextSymbols)
  BY AfterIsText DEF ClassPart, Before

\* One more symbol in that part is one more for Dotted.
LEMMA ClassesMore ==
  ASSUME NEW c \in Seq(TextSymbols), NEW r, NEW css, NEW b, AsClasses(c, r, css, b),
         NEW x \in TextSymbols, x # "SP", NEW e, NEW d, SplitAtDot(Append(css, b), x) = Append(e, d)
  PROVE  AsClasses(Append(c, x), r, e, d)
  <1>1. ClassPart(c) \in Seq(TextSymbols)
    BY ClassPartIsText DEF AsClasses
  <1> QED BY <1>1, ClassPartGrows

\* So a symbol of a class is added to it,
LEMMA ClassesGrow ==
  ASSUME NEW c \in Seq(TextSymbols), NEW r, NEW css \in Seq(Seq(TextSymbols)),
         NEW b \in Seq(TextSymbols), AsClasses(c, r, css, b),
         NEW x \in TextSymbols, x \notin {"SP", "DOT"}
  PROVE  AsClasses(Append(c, x), r, css, Append(b, x))
  <1>1. Front(Append(css, b)) = css /\ Last(Append(css, b)) = b
    BY FrontOfAppend
  <1> DEFINE d == Append(b, x)
             w == Append(css, b)
  <1>2. SplitAtDot(w, x) = Append(css, d) /\ x # "SP"
    BY <1>1 DEF SplitAtDot
  <1> HIDE DEF d
  <1>3. AsClasses(Append(c, x), r, css, d)
    BY <1>2, ClassesMore
  <1> QED BY <1>3 DEF d

\* and a dot ends it and begins another.
LEMMA ClassesNext ==
  ASSUME NEW c \in Seq(TextSymbols), NEW r, NEW css, NEW b, AsClasses(c, r, css, b)
  PROVE  AsClasses(Append(c, "DOT"), r, Append(css, b), << >>)
  <1>1. "DOT" \in TextSymbols /\ "DOT" # "SP"
    BY DEF TextSymbols
  <1>2. SplitAtDot(Append(css, b), "DOT") = Append(Append(css, b), << >>)
    BY DEF SplitAtDot
  <1> QED BY <1>1, <1>2, ClassesMore

\* The annotation goes on with any symbol,
LEMMA NoteGrows ==
  ASSUME NEW c \in Seq(TextSymbols), NEW r, NEW note, AsNote(c, r, note), NEW x \in TextSymbols
  PROVE  AsNote(Append(c, x), r, Append(note, x))
  <1> DEFINE t == Append(c, x)
  <1>1. /\ c # << >> /\ IsStart(c) /\ r = TagName(c) /\ Places(c, {"SP"}) # {} /\ ~HasClasses(c)
        /\ note = After(c, {"SP"})
    BY DEF AsNote
  <1>2. IsStart(t) /\ ~IsEnd(t) /\ t # << >> /\ ~IsEnd(c)
    <2>1. IsStart(t)
      BY <1>1, StartGrows
    <2>2. t # << >>
      BY OneMore
    <2> QED BY <1>1, <2>1, <2>2 DEF IsStart
  <1>3. Places(t, {"SP"}) # {}
    BY <1>1, PlacesKept
  <1>4. Before(t, {"SP"}) = Before(c, {"SP"}) /\ After(t, {"SP"}) = Append(note, x)
    BY <1>1, AroundGrow
  <1>5. Before(t, {"SP", "DOT"}) = Before(c, {"SP", "DOT"})
    <2>1. Places(c, {"SP", "DOT"}) # {}
      BY <1>1, PlacesParts
    <2> QED BY <2>1, AroundGrow
  <1> HIDE DEF t
  <1>6. TagName(t) = r /\ ~HasClasses(t)
    BY <1>1, <1>2, <1>4, <1>5 DEF TagName, HasClasses
  <1> QED BY <1>2, <1>3, <1>4, <1>6 DEF AsNote, t

\* An end tag begins,
LEMMA EndTagBegins == AsEndTag(Append(<< >>, "SLASH"), << >>)
  <1>1. Append(<< >>, "SLASH") = <<"SLASH">>
    OBVIOUS
  <1>2. <<"SLASH">> # << >> /\ <<"SLASH">>[1] = "SLASH" /\ Tail(<<"SLASH">>) = << >>
    OBVIOUS
  <1> QED BY <1>1, <1>2 DEF AsEndTag, IsEnd

\* that goes on,
LEMMA EndTagGrows ==
  ASSUME NEW c \in Seq(TextSymbols), NEW r, AsEndTag(c, r), NEW x \in TextSymbols
  PROVE  AsEndTag(Append(c, x), Append(r, x))
  <1>1. c # << >> /\ c[1] = "SLASH" /\ r = Tail(c)
    BY DEF AsEndTag, IsEnd
  <1>2. Append(c, x) # << >> /\ Append(c, x)[1] = "SLASH"
    <2>1. 1 \in 1 .. Len(c)
      BY <1>1
    <2> QED BY <1>1, <2>1, OneMore
  <1>3. Tail(Append(c, x)) = Append(r, x)
    BY <1>1, HeadTailAppend
  <1> QED BY <1>2, <1>3 DEF AsEndTag, IsEnd

\* A time stamp begins,
LEMMA TimeBegins == AsTime(Append(<< >>, "7"), Append(<< >>, "7"))
  <1>1. Append(<< >>, "7") = <<"7">>
    OBVIOUS
  <1>2. <<"7">> # << >> /\ <<"7">>[1] = "7"
    OBVIOUS
  <1> QED BY <1>1, <1>2 DEF AsTime, IsTime

\* that goes on.
LEMMA TimeGrows ==
  ASSUME NEW c \in Seq(TextSymbols), NEW r, AsTime(c, r), NEW x \in TextSymbols
  PROVE  AsTime(Append(c, x), Append(r, x))
  <1>1. c # << >> /\ c[1] = "7" /\ r = c
    BY DEF AsTime, IsTime
  <1>2. Append(c, x) # << >> /\ Append(c, x)[1] = "7"
    <2>1. 1 \in 1 .. Len(c)
      BY <1>1
    <2> QED BY <1>1, <2>1, OneMore
  <1> QED BY <1>1, <1>2 DEF AsTime, IsTime

-----------------------------------------------------------------------------
(* The token that a piece stands for.                                      *)

TokenFor(p) ==
  IF ~p.tag THEN Token("TEXT", << >>, Plain(p.content), << >>, << >>)
  ELSE IF IsTime(p.content) THEN Token("TIME_STAMP", << >>, p.content, << >>, << >>)
  ELSE IF IsEnd(p.content) THEN Token("END", Tail(p.content), << >>, << >>, << >>)
  ELSE Token("START", TagName(p.content), << >>, Classes(p.content), AnnotationOf(p.content))

\* It is the one that the tokenizer makes of what it gathered: of text,
LEMMA TokenOfText ==
  ASSUME NEW p, ~p.tag, NEW r, r = Plain(p.content), NEW s \in {"DATA", "ESCAPE"}, NEW css, NEW note
  PROVE  TokenFor(p) = TokenOf(s, r, css, note)
  BY DEF TokenFor, TokenOf

\* of a time stamp,
LEMMA TokenOfTime ==
  ASSUME NEW p, p.tag, NEW r, AsTime(p.content, r), NEW css, NEW note
  PROVE  TokenFor(p) = TokenOf("TIME_STAMP_TAG", r, css, note)
  BY DEF TokenFor, TokenOf, AsTime

\* of an end tag,
LEMMA TokenOfEnd ==
  ASSUME NEW p, p.tag, NEW r, AsEndTag(p.content, r), NEW css, NEW note
  PROVE  TokenFor(p) = TokenOf("END_TAG", r, css, note)
  <1>1. ~IsTime(p.content)
    BY DEF AsEndTag, IsEnd, IsTime
  <1> QED BY <1>1 DEF TokenFor, TokenOf, AsEndTag

\* and of a start tag with nothing but a name,
LEMMA TokenOfName ==
  ASSUME NEW p, p.tag, NEW r, AsName(p.content, r), NEW s \in {"TAG", "START_TAG"}
  PROVE  TokenFor(p) = TokenOf(s, r, << >>, << >>)
  <1> DEFINE c == p.content
  <1>1. Places(c, {"SP"}) = {} /\ Places(c, {"DOT"}) = {} /\ Places(c, {"SP", "DOT"}) = {}
    BY PlacesParts DEF AsName
  <1>2. c = r /\ ~IsEnd(c) /\ ~IsTime(c)
    BY DEF AsName, IsStart
  <1> HIDE DEF c
  <1>3. TagName(c) = r
    BY <1>1, <1>2 DEF TagName, Before
  <1>4. Classes(c) = << >>
    BY <1>1 DEF Classes, HasClasses, Before
  <1>5. AnnotationOf(c) = << >>
    BY <1>1 DEF AnnotationOf, After
  <1>6. TokenFor(p) = Token("START", r, << >>, << >>, << >>)
    BY <1>2, <1>3, <1>4, <1>5 DEF TokenFor, c
  <1> QED BY <1>6 DEF TokenOf

\* with classes,
LEMMA TokenOfClasses ==
  ASSUME NEW p, p.tag, NEW r, NEW css, NEW b, AsClasses(p.content, r, css, b)
  PROVE  TokenFor(p) = TokenOf("START_TAG_CLASS", r, Append(css, b), << >>)
  <1> DEFINE c == p.content
  <1>1. /\ r = TagName(c) /\ Places(c, {"SP"}) = {} /\ Places(c, {"DOT"}) # {}
        /\ Append(css, b) = Dotted(ClassPart(c))[Len(ClassPart(c))] /\ ~IsEnd(c) /\ ~IsTime(c)
    BY DEF AsClasses, IsStart
  <1> HIDE DEF c
  <1>4. Classes(c) = Append(css, b)
    <2>1. Before(c, {"SP"}) = c
      BY <1>1 DEF Before
    <2>2. HasClasses(c)
      BY <1>1, <2>1 DEF HasClasses
    <2> QED BY <1>1, <2>2 DEF Classes
  <1>5. AnnotationOf(c) = << >>
    BY <1>1 DEF AnnotationOf, After
  <1>6. TokenFor(p) = Token("START", r, << >>, Append(css, b), << >>)
    BY <1>1, <1>4, <1>5 DEF TokenFor, c
  <1> QED BY <1>6 DEF TokenOf

\* or with an annotation.
LEMMA TokenOfNote ==
  ASSUME NEW p, p.tag, NEW r, NEW note, AsNote(p.content, r, note)
  PROVE  TokenFor(p) = TokenOf("START_TAG_ANNOTATION", r, << >>, note)
  <1> DEFINE c == p.content
  <1>1. r = TagName(c) /\ ~HasClasses(c) /\ note = After(c, {"SP"}) /\ ~IsEnd(c) /\ ~IsTime(c)
    BY DEF AsNote, IsStart
  <1> HIDE DEF c
  <1>4. Classes(c) = << >>
    BY <1>1 DEF Classes
  <1>5. AnnotationOf(c) = IF AcceptsAnnotation(r) THEN note ELSE << >>
    BY <1>1 DEF AnnotationOf
  <1>6. TokenFor(p) = Token("START", r, << >>, << >>, IF AcceptsAnnotation(r) THEN note ELSE << >>)
    BY <1>1, <1>4, <1>5 DEF TokenFor, c
  <1> QED BY <1>6 DEF TokenOf

-----------------------------------------------------------------------------
(* Where the tokenizer is in the text, and what it has gathered of it.     *)

Here == Cuts(text)[pos]
InRun(h) == ~h.inTag /\ h.pieces # << >> /\ ~Last(h.pieces).tag
InTag(h) == h.inTag /\ h.pieces # << >> /\ Last(h.pieces).tag
Inside(h) == Last(h.pieces).content
\* The next symbol is none of the last piece: that is ended, or the text is.
Between(h, ch) == /\ h.inTag => ch = "NUL"
                  /\ h.pieces # << >> /\ ~Last(h.pieces).tag => ch \in {"LT", "NUL"}

\* In the middle of a piece.
Half(h, s, r, note, css, b) ==
  \/ s = "DATA" /\ InRun(h) /\ AsRun(Inside(h), r) /\ r # << >>
     /\ note = << >> /\ css = << >> /\ b = << >>
  \/ s = "ESCAPE" /\ InRun(h) /\ AsEscape(Inside(h), r, b) /\ note = << >> /\ css = << >>
  \/ s = "TAG" /\ InTag(h) /\ AsName(Inside(h), r) /\ r = << >>
     /\ note = << >> /\ css = << >> /\ b = << >>
  \/ s = "START_TAG" /\ InTag(h) /\ AsName(Inside(h), r) /\ r # << >>
     /\ note = << >> /\ css = << >> /\ b = << >>
  \/ s = "START_TAG_CLASS" /\ InTag(h) /\ AsClasses(Inside(h), r, css, b) /\ note = << >>
  \/ s = "START_TAG_ANNOTATION" /\ InTag(h) /\ AsNote(Inside(h), r, note)
     /\ css = << >> /\ b = << >>
  \/ s = "END_TAG" /\ InTag(h) /\ AsEndTag(Inside(h), r)
     /\ note = << >> /\ css = << >> /\ b = << >>
  \/ s = "TIME_STAMP_TAG" /\ InTag(h) /\ AsTime(Inside(h), r)
     /\ note = << >> /\ css = << >> /\ b = << >>

\* A token is complete, a piece is begun, or neither.
Busy == token # NoToken \/ state # "DATA" \/ result # << >>
Idle == state = "DATA" /\ result = << >> /\ annotation = << >> /\ classes = << >> /\ buffer = << >>
Waits == token # NoToken /\ Idle /\ Between(Here, Ch) /\ Here.pieces # << >>
         /\ token = TokenFor(Last(Here.pieces))
Gathers == \/ Waits
           \/ token = NoToken /\ Idle /\ Between(Here, Ch)
           \/ token = NoToken /\ Half(Here, state, result, annotation, classes, buffer)

\* The pieces whose tokens are done with.
Taken == IF Busy THEN Front(Here.pieces) ELSE Here.pieces

\* They are pieces,
LEMMA HereIs ==
  ASSUME TypeOK
  PROVE  /\ Here \in CutType /\ TagIsLast(Here) /\ Here.pieces \in Seq(PieceType)
         /\ Here.pieces # << >> => Inside(Here) \in Seq(TextSymbols)
  <1>1. text \in Seq(TextSymbols) /\ pos \in 0 .. Len(text)
    BY DEF TypeOK
  <1>2. Here \in CutType /\ TagIsLast(Here)
    BY <1>1, CutsAre DEF Here
  <1>3. Here.pieces \in Seq(PieceType)
    BY <1>2 DEF CutType
  <1>4. ASSUME Here.pieces # << >> PROVE Inside(Here) \in Seq(TextSymbols)
    <2>1. Last(Here.pieces) \in PieceType
      BY <1>3, <1>4, FrontAndLast
    <2> QED BY <2>1 DEF Inside, PieceType
  <1> QED BY <1>2, <1>3, <1>4

\* and one symbol further they are cut further.
LEMMA HereGoes ==
  ASSUME TypeOK, Ch # "NUL", pos' = pos + 1, text' = text
  PROVE  Here' = Cut(Here, Ch) /\ Ch \in TextSymbols
  <1>1. text \in Seq(TextSymbols) /\ pos \in 0 .. Len(text) /\ Len(text) \in Nat
    BY DEF TypeOK
  <1>2. pos < Len(text) /\ Ch = text[pos + 1] /\ Ch \in TextSymbols
    <2>1. pos < Len(text)
      BY <1>1 DEF Ch
    <2> QED BY <1>1, <2>1, ChType DEF Ch
  <1>3. pos + 1 \in 1 .. Len(text) /\ pos + 1 - 1 = pos
    BY <1>1, <1>2
  <1>4. Cuts(text)[pos + 1] = Cut(Cuts(text)[pos], Ch)
    BY <1>1, <1>2, <1>3, CutsEquation
  <1> QED BY <1>2, <1>4 DEF Here

\* The last piece is longer,
LEMMA PieceGoes ==
  ASSUME TypeOK, Ch # "NUL", pos' = pos + 1, text' = text, Extends(Here, Ch)
  PROVE  /\ Here'.pieces # << >> /\ Front(Here'.pieces) = Front(Here.pieces)
         /\ Here.pieces # << >>
         /\ Here'.inTag = Here.inTag /\ Last(Here'.pieces).tag = Last(Here.pieces).tag
         /\ Inside(Here') = Append(Inside(Here), Ch)
  <1>1. Here' = Cut(Here, Ch) /\ Ch \in TextSymbols
    BY HereGoes
  <1>2. Here \in CutType /\ TagIsLast(Here) /\ Here.pieces \in Seq(PieceType)
    BY HereIs
  <1> DEFINE p == Last(Here.pieces)
             e == Piece(p.tag, Append(p.content, Ch))
  <1>3. Here.pieces # << >> /\ Here'.inTag = Here.inTag /\ Here'.pieces = Append(Front(Here.pieces), e)
    BY <1>1, <1>2, CutExtends
  <1>4. Front(Here.pieces) \in Seq(PieceType) /\ p \in PieceType
    BY <1>2, <1>3, FrontAndLast
  <1>5. p.tag \in BOOLEAN /\ p.content \in Seq(TextSymbols)
    BY <1>4 DEF PieceType
  <1>6. Append(p.content, Ch) \in Seq(TextSymbols)
    BY <1>1, <1>5, AppendProperties
  <1>7. e \in PieceType /\ e.tag = p.tag /\ e.content = Append(p.content, Ch)
    BY <1>5, <1>6, PieceIs
  <1> HIDE DEF e
  <1>8. /\ Here'.pieces # << >> /\ Front(Here'.pieces) = Front(Here.pieces)
        /\ Last(Here'.pieces) = e
    BY <1>3, <1>4, <1>7, FrontOfAppend
  <1> QED BY <1>3, <1>7, <1>8 DEF Inside

\* a run of text that goes on,
LEMMA RunGoes ==
  ASSUME TypeOK, InRun(Here), Ch \notin {"NUL", "LT"}, pos' = pos + 1, text' = text
  PROVE  /\ InRun(Here') /\ Inside(Here') = Append(Inside(Here), Ch)
         /\ Front(Here'.pieces) = Front(Here.pieces)
  <1>1. Extends(Here, Ch)
    BY DEF Extends, InRun
  <1> QED BY <1>1, PieceGoes DEF InRun

\* or a tag that goes on,
LEMMA TagGoes ==
  ASSUME TypeOK, InTag(Here), Ch \notin {"NUL", "GT"}, pos' = pos + 1, text' = text
  PROVE  /\ InTag(Here') /\ Inside(Here') = Append(Inside(Here), Ch)
         /\ Front(Here'.pieces) = Front(Here.pieces)
  <1>1. Extends(Here, Ch)
    BY DEF Extends, InTag
  <1> QED BY <1>1, PieceGoes DEF InTag

\* or another is begun: a run of text,
LEMMA RunStarts ==
  ASSUME TypeOK, Between(Here, Ch), Ch \notin {"NUL", "LT"}, pos' = pos + 1, text' = text
  PROVE  /\ InRun(Here') /\ Inside(Here') = Append(<< >>, Ch)
         /\ Front(Here'.pieces) = Here.pieces
  <1>1. Here' = Cut(Here, Ch) /\ Ch \in TextSymbols
    BY HereGoes
  <1>2. Here \in CutType /\ TagIsLast(Here) /\ Here.pieces \in Seq(PieceType)
    BY HereIs
  <1>3. Begins(Here, Ch)
    BY DEF Begins, Between
  <1>4. ~Here'.inTag /\ Here'.pieces = Append(Here.pieces, Piece(FALSE, <<Ch>>))
    BY <1>1, <1>2, <1>3, CutBegins
  <1>5. <<Ch>> \in Seq(TextSymbols) /\ <<Ch>> = Append(<< >>, Ch)
    BY <1>1
  <1>6. Piece(FALSE, <<Ch>>) \in PieceType /\ Piece(FALSE, <<Ch>>).tag = FALSE
        /\ Piece(FALSE, <<Ch>>).content = <<Ch>>
    BY <1>5, PieceIs
  <1> DEFINE e == Piece(FALSE, <<Ch>>)
  <1> HIDE DEF e
  <1>7. /\ Here'.pieces # << >> /\ Front(Here'.pieces) = Here.pieces
        /\ Last(Here'.pieces) = e
    <2>1. e \in PieceType /\ Here'.pieces = Append(Here.pieces, e)
      BY <1>4, <1>6 DEF e
    <2> QED BY <1>2, <2>1, FrontOfAppend
  <1>8. e.tag = FALSE /\ e.content = Append(<< >>, Ch)
    BY <1>5, <1>6 DEF e
  <1> QED BY <1>4, <1>7, <1>8 DEF Inside, InRun

\* or a tag.
LEMMA TagStarts ==
  ASSUME TypeOK, Between(Here, Ch), Ch = "LT", pos' = pos + 1, text' = text
  PROVE  InTag(Here') /\ Inside(Here') = << >> /\ Front(Here'.pieces) = Here.pieces
  <1>1. Here' = Cut(Here, "LT")
    BY HereGoes
  <1>2. Here \in CutType /\ TagIsLast(Here) /\ Here.pieces \in Seq(PieceType)
    BY HereIs
  <1>3. ~Here.inTag
    BY DEF Between
  <1> DEFINE e == Piece(TRUE, << >>)
  <1>4. Here'.inTag /\ Here'.pieces = Append(Here.pieces, e)
    BY <1>1, <1>2, <1>3, CutOpens
  <1>5. e \in PieceType /\ e.tag = TRUE /\ e.content = << >>
    BY EmptyIsSeq, PieceIs
  <1> HIDE DEF e
  <1>6. /\ Here'.pieces # << >> /\ Front(Here'.pieces) = Here.pieces
        /\ Last(Here'.pieces) = e
    BY <1>2, <1>4, <1>5, FrontOfAppend
  <1> QED BY <1>4, <1>5, <1>6 DEF Inside, InTag

-----------------------------------------------------------------------------
(* One step of the tokenizer: it gathers the piece it is in, and takes none. *)

\* In the middle of a piece the tokenizer is not idle.
LEMMA HalfIsBusy ==
  ASSUME NEW h, NEW s, NEW r, NEW note, NEW css, NEW b, Half(h, s, r, note, css, b)
  PROVE  s # "DATA" \/ r # << >>
  BY DEF Half

\* A tokenizer that has begun a piece is in the middle of it.
LEMMA HalfHere ==
  ASSUME Gathers, token = NoToken, state # "DATA" \/ result # << >>
  PROVE  Half(Here, state, result, annotation, classes, buffer) /\ Busy
  BY DEF Gathers, Waits, Idle, Busy

\* The symbol is one more of the piece,
LEMMA GoesOn ==
  ASSUME NEW s, Go(s), token = NoToken, Busy, Front(Here'.pieces) = Front(Here.pieces),
         Half(Here', s, result', annotation', classes', buffer')
  PROVE  Gathers' /\ Taken' = Taken
  <1>1. token' = NoToken /\ state' = s
    BY DEF Go
  <1>2. Gathers'
    BY <1>1 DEF Gathers
  <1>3. Busy'
    BY <1>1, HalfIsBusy DEF Busy
  <1> QED BY <1>2, <1>3 DEF Taken

\* or the first one,
LEMMA Starts ==
  ASSUME NEW s, Go(s), token = NoToken, ~Busy, Front(Here'.pieces) = Here.pieces,
         Half(Here', s, result', annotation', classes', buffer')
  PROVE  Gathers' /\ Taken' = Taken
  <1>1. token' = NoToken /\ state' = s
    BY DEF Go
  <1>2. Gathers'
    BY <1>1 DEF Gathers
  <1>3. Busy'
    BY <1>1, HalfIsBusy DEF Busy
  <1> QED BY <1>2, <1>3 DEF Taken

\* or it shows that the piece is complete.
LEMMA Completes ==
  ASSUME TypeOK, NEW s, NEW res, NEW css, NEW note, Complete(s, res, css, note), Busy,
         token = NoToken,
         (InTag(Here) /\ Ch \in {"GT", "NUL"}) \/ (InRun(Here) /\ Ch \in {"LT", "NUL"}),
         TokenFor(Last(Here.pieces)) = TokenOf(s, res, css, note)
  PROVE  Gathers' /\ Taken' = Taken
  <1>1. /\ token' = TokenOf(s, res, css, note) /\ text' = text
        /\ pos' = IF Ch = "GT" THEN pos + 1 ELSE pos
        /\ state' = "DATA" /\ result' = << >> /\ annotation' = << >> /\ classes' = << >>
        /\ buffer' = << >>
    BY DEF Complete
  <1>2. token' # NoToken
    BY <1>1 DEF TokenOf, Token, NoToken
  <1>3. Here.pieces # << >> /\ Here'.pieces = Here.pieces /\ Between(Here, Ch)'
    <2>1. CASE Ch = "GT"
      <3>1. InTag(Here) /\ pos' = pos + 1
        BY <1>1, <2>1
      <3>2. Here' = Cut(Here, "GT")
        BY <1>1, <2>1, <3>1, HereGoes
      <3>3. Here'.pieces = Here.pieces /\ ~Here'.inTag
        BY <3>1, <3>2, HereIs, CutEnds DEF InTag
      <3> QED BY <3>1, <3>3 DEF InTag, Between
    <2>2. CASE Ch # "GT"
      <3>1. Here' = Here /\ Ch' = Ch
        BY <1>1, <2>2 DEF Here, Ch
      <3> QED BY <2>2, <3>1 DEF InTag, InRun, Between
    <2> QED BY <2>1, <2>2
  <1>4. Waits'
    BY <1>1, <1>2, <1>3 DEF Waits, Idle
  <1>5. Busy'
    BY <1>2 DEF Busy
  <1> QED BY <1>3, <1>4, <1>5 DEF Gathers, Taken

-----------------------------------------------------------------------------
(* White space after a class: where the tokenizer stops early, the text is *)
(* one that HasSpaceAfterClass names.                                      *)

\* A start tag with classes and a space.
Stray(c) == IsStart(c) /\ HasClasses(c) /\ Places(c, {"SP"}) # {}
StrayIn(ps) == \E n \in 1 .. Len(ps) : ps[n].tag /\ Stray(ps[n].content)

\* It stays one when it goes on,
LEMMA StrayGrows ==
  ASSUME NEW c \in Seq(TextSymbols), Stray(c), NEW x \in TextSymbols
  PROVE  Stray(Append(c, x))
  <1>1. IsStart(c) /\ HasClasses(c) /\ Places(c, {"SP"}) # {}
    BY DEF Stray
  <1>2. c # << >>
    BY <1>1, NothingAround
  <1>3. IsStart(Append(c, x))
    BY <1>1, <1>2, StartGrows
  <1>4. Before(Append(c, x), {"SP"}) = Before(c, {"SP"})
    BY <1>1, AroundGrow
  <1>5. Places(Append(c, x), {"SP"}) # {}
    BY <1>1, PlacesKept
  <1> QED BY <1>1, <1>3, <1>4, <1>5 DEF Stray, HasClasses

\* classes and a space make it one,
LEMMA ClassesAreStray ==
  ASSUME NEW c \in Seq(TextSymbols), NEW r, NEW css, NEW b, AsClasses(c, r, css, b)
  PROVE  Stray(Append(c, "SP"))
  <1> DEFINE x == "SP"
             t == Append(c, x)
  <1>1. x \in TextSymbols /\ x \in {"SP"}
    BY DEF TextSymbols
  <1>2. c # << >> /\ IsStart(c) /\ Places(c, {"SP"}) = {} /\ Places(c, {"DOT"}) # {}
    BY DEF AsClasses
  <1>3. IsStart(t)
    BY <1>1, <1>2, StartGrows
  <1>4. Before(t, {"SP"}) = c
    BY <1>1, <1>2, AroundGrow
  <1>5. Places(t, {"SP"}) # {}
    BY <1>1, PlacesKept
  <1> HIDE DEF t
  <1> QED BY <1>2, <1>3, <1>4, <1>5 DEF Stray, HasClasses, t

\* and what is cut after it leaves it there.
LEMMA StrayStays ==
  ASSUME NEW a \in CutType, TagIsLast(a), NEW s \in TextSymbols, StrayIn(a.pieces)
  PROVE  StrayIn(Cut(a, s).pieces)
  <1>1. a.pieces \in Seq(PieceType) /\ a.inTag \in BOOLEAN
    BY DEF CutType
  <1>2. PICK n \in 1 .. Len(a.pieces) : a.pieces[n].tag /\ Stray(a.pieces[n].content)
    BY DEF StrayIn
  <1>3. a.pieces # << >> /\ Len(a.pieces) \in Nat
    BY <1>1, <1>2
  <1>4. CASE a.inTag /\ s = "GT"
    BY <1>4, CutEnds
  <1>5. ASSUME NEW e \in PieceType, Cut(a, s).pieces = Append(a.pieces, e)
        PROVE  StrayIn(Cut(a, s).pieces)
    <2> DEFINE q == Append(a.pieces, e)
    <2>1. Len(q) = Len(a.pieces) + 1 /\ q[n] = a.pieces[n]
      BY <1>1, <1>2, OneMore
    <2> HIDE DEF q
    <2>2. n \in 1 .. Len(q)
      BY <1>2, <1>3, <2>1
    <2>3. StrayIn(q)
      BY <1>2, <2>1, <2>2 DEF StrayIn
    <2> QED BY <1>5, <2>3 DEF q
  <1>6. CASE Extends(a, s)
    <2> DEFINE p == Last(a.pieces)
               e == Piece(p.tag, Append(p.content, s))
               f == Front(a.pieces)
               q == Append(f, e)
    <2>1. Cut(a, s).pieces = q
      BY <1>6, CutExtends
    <2>2. /\ p \in PieceType /\ p = a.pieces[Len(a.pieces)] /\ f \in Seq(PieceType)
          /\ Len(f) = Len(a.pieces) - 1 /\ \A i \in 1 .. Len(a.pieces) - 1 : f[i] = a.pieces[i]
      BY <1>1, <1>3, FrontAndLast
    <2>3. p.tag \in BOOLEAN /\ p.content \in Seq(TextSymbols)
      BY <2>2 DEF PieceType
    <2>4. Append(p.content, s) \in Seq(TextSymbols)
      BY <2>3, AppendProperties
    <2>5. e \in PieceType /\ e.tag = p.tag /\ e.content = Append(p.content, s)
      BY <2>3, <2>4, PieceIs
    <2> HIDE DEF e, f, p
    <2>6. /\ Len(q) = Len(f) + 1 /\ q[Len(f) + 1] = e /\ \A i \in 1 .. Len(f) : q[i] = f[i]
      BY <2>2, <2>5, OneMore
    <2> HIDE DEF q
    <2>7. n \in 1 .. Len(q)
      BY <1>2, <1>3, <2>2, <2>6
    <2>8. CASE n = Len(a.pieces)
      <3>1. q[n] = e /\ a.pieces[n] = p
        BY <1>3, <2>2, <2>6, <2>8
      <3>2. Stray(Append(p.content, s))
        BY <1>2, <2>3, <3>1, StrayGrows
      <3>3. q[n].tag /\ Stray(q[n].content)
        BY <1>2, <2>5, <3>1, <3>2
      <3> QED BY <2>1, <2>7, <3>3 DEF StrayIn
    <2>9. CASE n # Len(a.pieces)
      <3>1. n \in 1 .. Len(a.pieces) - 1 /\ n \in 1 .. Len(f)
        BY <1>2, <1>3, <2>2, <2>9
      <3>2. q[n] = a.pieces[n]
        BY <2>2, <2>6, <3>1
      <3> QED BY <1>2, <2>1, <2>7, <3>2 DEF StrayIn
    <2> QED BY <2>8, <2>9
  <1>7. CASE ~a.inTag /\ s = "LT"
    <2>1. Piece(TRUE, << >>) \in PieceType
      BY PieceIs, EmptyIsSeq
    <2>2. Cut(a, s).pieces = Append(a.pieces, Piece(TRUE, << >>))
      BY <1>7, CutOpens
    <2> QED BY <1>5, <2>1, <2>2
  <1>8. CASE Begins(a, s)
    <2>1. <<s>> \in Seq(TextSymbols)
      OBVIOUS
    <2>2. Piece(FALSE, <<s>>) \in PieceType
      BY <2>1, PieceIs
    <2>3. Cut(a, s).pieces = Append(a.pieces, Piece(FALSE, <<s>>))
      BY <1>8, CutBegins
    <2> QED BY <1>5, <2>2, <2>3
  <1> QED BY <1>1, <1>3, <1>4, <1>6, <1>7, <1>8 DEF Extends, Begins

\* So it is one of the pieces of the whole text.
LEMMA StrayToTheEnd ==
  ASSUME NEW t \in Seq(TextSymbols), NEW k \in 0 .. Len(t), StrayIn(Cuts(t)[k].pieces)
  PROVE  StrayIn(Pieces(t))
  <1> DEFINE Bad == {n \in k .. Len(t) : ~StrayIn(Cuts(t)[n].pieces)}
  <1> SUFFICES ASSUME Bad # {} PROVE FALSE
    <2>1. Len(t) \in k .. Len(t)
      OBVIOUS
    <2> QED BY <2>1 DEF Pieces
  <1>1. Bad \in SUBSET Nat /\ Len(t) \in Nat /\ k \in Nat
    OBVIOUS
  <1> HIDE DEF Bad
  <1>2. PICK n \in Bad : \A m \in Bad : n <= m
    BY <1>1, Least
  <1>3. n \in k .. Len(t) /\ ~StrayIn(Cuts(t)[n].pieces) /\ n # k
    BY <1>2 DEF Bad
  <1>4. n - 1 \in k .. Len(t) /\ n - 1 \notin Bad /\ n \in 1 .. Len(t) /\ t[n] \in TextSymbols
        /\ n - 1 \in 0 .. Len(t)
    BY <1>1, <1>2, <1>3
  <1>5. StrayIn(Cuts(t)[n - 1].pieces)
    BY <1>4 DEF Bad
  <1>6. Cuts(t)[n] = Cut(Cuts(t)[n - 1], t[n])
    BY <1>1, <1>4, CutsEquation
  <1>7. Cuts(t)[n - 1] \in CutType /\ TagIsLast(Cuts(t)[n - 1])
    BY <1>4, CutsAre
  <1> QED BY <1>3, <1>4, <1>5, <1>6, <1>7, StrayStays

\* CueMarkup names that text.
LEMMA StrayIsNamed ==
  ASSUME NEW t \in Seq(TextSymbols), StrayIn(Pieces(t)) PROVE HasSpaceAfterClass(t)
  <1>1. PICK n \in 1 .. Len(Pieces(t)) : Pieces(t)[n].tag /\ Stray(Pieces(t)[n].content)
    BY DEF StrayIn
  <1> DEFINE p == Pieces(t)[n]
             c == p.content
  <1>2. Pieces(t) \in Seq(PieceType)
    <2>1. Len(t) \in 0 .. Len(t)
      OBVIOUS
    <2> QED BY <2>1, CutsAre DEF Pieces, CutType
  <1>3. p \in PieceType /\ p \in ToSet(Pieces(t)) /\ p.tag
    BY <1>1, <1>2 DEF ToSet
  <1>4. c \in Tags(t)
    BY <1>3 DEF Tags
  <1>5. c \in Seq(TextSymbols)
    BY <1>3 DEF PieceType
  <1>6. ~IsEnd(c) /\ ~IsTime(c) /\ HasClasses(c) /\ Places(c, {"SP"}) # {}
    BY <1>1 DEF Stray, IsStart
  <1> HIDE DEF c
  <1>7. \E i \in DOMAIN c : c[i] = "SP"
    BY <1>5, <1>6 DEF Places
  <1> QED BY <1>4, <1>6, <1>7 DEF HasSpaceAfterClass

-----------------------------------------------------------------------------
(* The steps of the tokenizer, state by state.                             *)

\* What is gathered are strings.
LEMMA Gathered ==
  ASSUME TypeOK
  PROVE  /\ result \in Seq(TextSymbols) /\ annotation \in Seq(TextSymbols)
         /\ classes \in Seq(Seq(TextSymbols)) /\ buffer \in Seq(TextSymbols)
         /\ Ch # "NUL" => Ch \in TextSymbols
  <1>1. text \in Seq(TextSymbols) /\ pos \in 0 .. Len(text)
    BY DEF TypeOK
  <1> QED BY <1>1, ChType DEF TypeOK

\* Between two pieces,
LEMMA IdleBetween ==
  ASSUME Gathers, token = NoToken, state = "DATA", result = << >>
  PROVE  Idle /\ Between(Here, Ch) /\ ~Busy
  BY DEF Gathers, Waits, Half, Idle, Busy

\* in a run of text,
LEMMA DataInRun ==
  ASSUME TypeOK, Gathers, token = NoToken, state = "DATA", result # << >>
  PROVE  /\ InRun(Here) /\ AsRun(Inside(Here), result) /\ Inside(Here) \in Seq(TextSymbols)
         /\ annotation = << >> /\ classes = << >> /\ buffer = << >> /\ Busy
  <1>1. Half(Here, state, result, annotation, classes, buffer) /\ Busy
    BY HalfHere
  <1>2. InRun(Here) /\ AsRun(Inside(Here), result) /\ annotation = << >> /\ classes = << >>
        /\ buffer = << >>
    BY <1>1 DEF Half
  <1>3. Inside(Here) \in Seq(TextSymbols)
    BY <1>2, HereIs DEF InRun
  <1> QED BY <1>1, <1>2, <1>3

\* in an escape,
LEMMA InEscape ==
  ASSUME TypeOK, Gathers, token = NoToken, state = "ESCAPE"
  PROVE  /\ InRun(Here) /\ AsEscape(Inside(Here), result, buffer)
         /\ Inside(Here) \in Seq(TextSymbols)
         /\ annotation = << >> /\ classes = << >> /\ Busy
  <1>1. Half(Here, state, result, annotation, classes, buffer) /\ Busy
    BY HalfHere
  <1>2. InRun(Here) /\ AsEscape(Inside(Here), result, buffer) /\ annotation = << >>
        /\ classes = << >>
    BY <1>1 DEF Half
  <1>3. Inside(Here) \in Seq(TextSymbols)
    BY <1>2, HereIs DEF InRun
  <1> QED BY <1>1, <1>2, <1>3

\* and in a tag.
LEMMA InsideTag ==
  ASSUME TypeOK, Gathers, token = NoToken, state \notin {"DATA", "ESCAPE"}
  PROVE  /\ InTag(Here) /\ Half(Here, state, result, annotation, classes, buffer)
         /\ Inside(Here) \in Seq(TextSymbols) /\ Busy
  <1>1. Half(Here, state, result, annotation, classes, buffer) /\ Busy
    BY HalfHere
  <1>2. InTag(Here)
    BY <1>1 DEF Half
  <1>3. Inside(Here) \in Seq(TextSymbols)
    BY <1>2, HereIs DEF InTag
  <1> QED BY <1>1, <1>2, <1>3

\* In a run of text: an escape begins,
LEMMA DataEscapeGathers ==
  ASSUME TypeOK, Gathers, DataEscape PROVE Gathers' /\ Taken' = Taken
  <1>1. /\ state = "DATA" /\ token = NoToken /\ Ch = "AMP" /\ Go("ESCAPE")
        /\ buffer' = <<"AMP">> /\ result' = result /\ annotation' = annotation
        /\ classes' = classes /\ pos' = pos + 1 /\ text' = text
    BY DEF DataEscape, In, Go
  <1>2. CASE result = << >>
    <2>1. Idle /\ Between(Here, Ch) /\ ~Busy
      BY <1>1, <1>2, IdleBetween
    <2>2. InRun(Here') /\ Inside(Here') = Append(<< >>, "AMP") /\ Front(Here'.pieces) = Here.pieces
      BY <1>1, <2>1, RunStarts
    <2>3. AsEscape(Append(<< >>, "AMP"), << >>, <<"AMP">>)
      BY EmptyRun, EmptyIsSeq, EscapeBegins DEF AsRun
    <2>4. Half(Here', "ESCAPE", result', annotation', classes', buffer')
      BY <1>1, <1>2, <2>1, <2>2, <2>3 DEF Half, Idle
    <2> QED BY <1>1, <2>1, <2>2, <2>4, Starts
  <1>3. CASE result # << >>
    <2>1. /\ InRun(Here) /\ AsRun(Inside(Here), result) /\ Inside(Here) \in Seq(TextSymbols)
          /\ annotation = << >> /\ classes = << >> /\ Busy
      BY <1>1, <1>3, DataInRun
    <2>2. InRun(Here') /\ Inside(Here') = Append(Inside(Here), "AMP")
          /\ Front(Here'.pieces) = Front(Here.pieces)
      BY <1>1, <2>1, RunGoes
    <2>3. AsEscape(Append(Inside(Here), "AMP"), result, <<"AMP">>)
      BY <2>1, Gathered, EscapeBegins DEF AsRun
    <2>4. Half(Here', "ESCAPE", result', annotation', classes', buffer')
      BY <1>1, <2>1, <2>2, <2>3 DEF Half
    <2> QED BY <1>1, <2>1, <2>2, <2>4, GoesOn
  <1> QED BY <1>2, <1>3

\* a tag begins,
LEMMA DataTagGathers ==
  ASSUME TypeOK, Gathers, DataTag PROVE Gathers' /\ Taken' = Taken
  <1>1. /\ state = "DATA" /\ token = NoToken /\ Ch = "LT" /\ Go("TAG") /\ result = << >>
        /\ buffer' = buffer /\ result' = result /\ annotation' = annotation
        /\ classes' = classes /\ pos' = pos + 1 /\ text' = text
    BY DEF DataTag, In, Go, gathered
  <1>2. Idle /\ Between(Here, Ch) /\ ~Busy
    BY <1>1, IdleBetween
  <1>3. InTag(Here') /\ Inside(Here') = << >> /\ Front(Here'.pieces) = Here.pieces
    BY <1>1, <1>2, TagStarts
  <1>4. Half(Here', "TAG", result', annotation', classes', buffer')
    BY <1>1, <1>2, <1>3, EmptyName DEF Half, Idle
  <1> QED BY <1>1, <1>2, <1>3, <1>4, Starts

\* the run ends,
LEMMA DataEndGathers ==
  ASSUME TypeOK, Gathers, DataEnd PROVE Gathers' /\ Taken' = Taken
  <1>1. /\ state = "DATA" /\ token = NoToken /\ Ch \in {"LT", "NUL"}
        /\ Complete("DATA", result, classes, annotation) /\ result # << >>
    <2>1. text \in Seq(TextSymbols) /\ pos \in 0 .. Len(text)
      BY DEF TypeOK
    <2>2. pos < Len(text) => Ch # "NUL"
      <3>1. pos < Len(text) => text[pos + 1] \in TextSymbols
        BY <2>1
      <3> QED BY <3>1 DEF Ch, TextSymbols, Letters, Words
    <2> QED BY <2>2 DEF DataEnd, In
  <1>2. InRun(Here) /\ AsRun(Inside(Here), result) /\ Busy
    BY <1>1, DataInRun
  <1>3. TokenFor(Last(Here.pieces)) = TokenOf("DATA", result, classes, annotation)
    BY <1>2, TokenOfText DEF InRun, AsRun, Inside
  <1> QED BY <1>1, <1>2, <1>3, Completes

\* or it goes on.
LEMMA DataCharGathers ==
  ASSUME TypeOK, Gathers, DataChar PROVE Gathers' /\ Taken' = Taken
  <1>1. /\ state = "DATA" /\ token = NoToken /\ Ch \notin {"AMP", "LT", "NUL"} /\ Go("DATA")
        /\ buffer' = buffer /\ result' = Append(result, Ch) /\ annotation' = annotation
        /\ classes' = classes /\ pos' = pos + 1 /\ text' = text
    BY DEF DataChar, In, Go, Keep
  <1>2. Ch \in TextSymbols /\ result' # << >>
    BY <1>1, Gathered, OneMore, ZenonT(30)
  <1>3. CASE result = << >>
    <2>1. Idle /\ Between(Here, Ch) /\ ~Busy
      BY <1>1, <1>3, IdleBetween
    <2>2. InRun(Here') /\ Inside(Here') = Append(<< >>, Ch) /\ Front(Here'.pieces) = Here.pieces
      BY <1>1, <2>1, RunStarts
    <2>3. AsRun(Append(<< >>, Ch), Append(<< >>, Ch))
      BY <1>1, <1>2, EmptyRun, EmptyIsSeq, RunGrows
    <2>4. Half(Here', "DATA", result', annotation', classes', buffer')
      BY <1>1, <1>2, <1>3, <2>1, <2>2, <2>3 DEF Half, Idle
    <2> QED BY <1>1, <2>1, <2>2, <2>4, Starts
  <1>4. CASE result # << >>
    <2>1. /\ InRun(Here) /\ AsRun(Inside(Here), result) /\ Inside(Here) \in Seq(TextSymbols)
          /\ annotation = << >> /\ classes = << >> /\ buffer = << >> /\ Busy
      BY <1>1, <1>4, DataInRun
    <2>2. InRun(Here') /\ Inside(Here') = Append(Inside(Here), Ch)
          /\ Front(Here'.pieces) = Front(Here.pieces)
      BY <1>1, <2>1, RunGoes
    <2>3. AsRun(Append(Inside(Here), Ch), Append(result, Ch))
      BY <1>1, <1>2, <2>1, RunGrows
    <2>4. Half(Here', "DATA", result', annotation', classes', buffer')
      BY <1>1, <1>2, <2>1, <2>2, <2>3 DEF Half
    <2> QED BY <1>1, <2>1, <2>2, <2>4, GoesOn
  <1> QED BY <1>3, <1>4

\* In an escape.
LEMMA EscapeGathers ==
  ASSUME TypeOK, Gathers, Escape PROVE Gathers' /\ Taken' = Taken
  <1>1. state = "ESCAPE" /\ token = NoToken
    BY DEF Escape, EscapeEnd, EscapeAgain, EscapeClose, EscapeName, EscapeBad, In
  <1>2. /\ InRun(Here) /\ AsEscape(Inside(Here), result, buffer)
        /\ Inside(Here) \in Seq(TextSymbols) /\ annotation = << >> /\ classes = << >> /\ Busy
    BY <1>1, InEscape
  <1>3. /\ result \in Seq(TextSymbols) /\ buffer \in Seq(TextSymbols)
        /\ Ch # "NUL" => Ch \in TextSymbols
    BY Gathered
  <1>4. result \o buffer \in Seq(TextSymbols) /\ Plain(Inside(Here)) = result \o buffer
        /\ (result \o buffer) \o << >> = result \o buffer
    <2>1. result \o buffer \in Seq(TextSymbols)
      BY <1>3, ConcatProperties
    <2> QED BY <1>2, <2>1, ConcatEmptySeq DEF AsEscape
  <1>5. ASSUME NEW s, Go(s), Ch \notin {"NUL", "LT"}
        PROVE  /\ InRun(Here') /\ Inside(Here') = Append(Inside(Here), Ch)
               /\ Front(Here'.pieces) = Front(Here.pieces)
    BY <1>2, <1>5, RunGoes DEF Go
  <1>6. CASE EscapeEnd
    <2>1. Complete("ESCAPE", result \o buffer, classes, annotation) /\ Ch \in {"LT", "NUL"}
      BY <1>4, <1>6 DEF EscapeEnd, AsText
    <2>2. TokenFor(Last(Here.pieces)) = TokenOf("ESCAPE", result \o buffer, classes, annotation)
      BY <1>2, <1>4, TokenOfText DEF InRun, Inside
    <2> QED BY <1>1, <1>2, <2>1, <2>2, Completes
  <1>7. CASE EscapeAgain
    <2>1. /\ Go("ESCAPE") /\ Ch = "AMP" /\ result' = result \o buffer /\ buffer' = <<"AMP">>
          /\ annotation' = << >> /\ classes' = << >>
      BY <1>2, <1>4, <1>7 DEF EscapeAgain, AsText
    <2>2. AsEscape(Append(Inside(Here), "AMP"), result \o buffer, <<"AMP">>)
      BY <1>2, <1>4, EscapeBegins
    <2>3. Half(Here', "ESCAPE", result', annotation', classes', buffer')
      BY <1>5, <2>1, <2>2 DEF Half
    <2> QED BY <1>1, <1>2, <1>5, <2>1, <2>3, GoesOn
  <1>8. CASE EscapeClose
    <2>1. /\ Go("DATA") /\ Ch = "SEMI" /\ result' = result \o Unescaped(buffer) /\ buffer' = << >>
          /\ annotation' = << >> /\ classes' = << >>
      BY <1>2, <1>8 DEF EscapeClose
    <2>2. AsRun(Append(Inside(Here), "SEMI"), result \o Unescaped(buffer))
      BY <1>2, <1>3, EscapeCloses
    <2>3. result' # << >>
      <3>1. Unescaped(buffer) \in Seq(TextSymbols) /\ Unescaped(buffer) # << >>
        <4>1. CASE buffer \in {<<"AMP", "amp">>, <<"AMP", "lt">>}
          <5>1. Unescaped(buffer) \in {<<"AMP">>, <<"LT">>}
            BY <4>1 DEF Unescaped
          <5>2. "AMP" \in TextSymbols /\ "LT" \in TextSymbols
            BY DEF TextSymbols
          <5>3. <<"AMP">> \in Seq(TextSymbols) /\ <<"LT">> \in Seq(TextSymbols)
            BY <5>2
          <5>4. <<"AMP">> # << >> /\ <<"LT">> # << >>
            OBVIOUS
          <5> QED BY <5>1, <5>3, <5>4
        <4>2. CASE buffer \notin {<<"AMP", "amp">>, <<"AMP", "lt">>}
          <5>1. Unescaped(buffer) = Append(buffer, "SEMI") /\ "SEMI" \in TextSymbols
            BY <4>2 DEF Unescaped, TextSymbols
          <5> QED BY <1>3, <5>1, AppendProperties
        <4> QED BY <4>1, <4>2
      <3> QED BY <1>3, <2>1, <3>1, ConcatEqualIffEmpty
    <2>4. Half(Here', "DATA", result', annotation', classes', buffer')
      BY <1>5, <2>1, <2>2, <2>3 DEF Half
    <2> QED BY <1>1, <1>2, <1>5, <2>1, <2>4, GoesOn
  <1>9. CASE EscapeName
    <2>1. /\ Go("ESCAPE") /\ AlphaNumeric(Ch) /\ result' = result /\ buffer' = Append(buffer, Ch)
          /\ annotation' = << >> /\ classes' = << >>
      BY <1>2, <1>9 DEF EscapeName
    <2>2. Ch \notin {"NUL", "LT"} /\ Ch \in TextSymbols
      BY <1>3, <2>1 DEF AlphaNumeric, Letters, Words
    <2>3. AsEscape(Append(Inside(Here), Ch), result, Append(buffer, Ch))
      BY <1>2, <1>3, <2>1, <2>2, EscapeGrows
    <2>4. Half(Here', "ESCAPE", result', annotation', classes', buffer')
      BY <1>5, <2>1, <2>2, <2>3 DEF Half
    <2> QED BY <1>1, <1>2, <1>5, <2>1, <2>2, <2>4, GoesOn
  <1>10. CASE EscapeBad
    <2>1. /\ Go("DATA") /\ Ch \in {"GT", "DOT", "SLASH", "SP"}
          /\ result' = (result \o buffer) \o <<Ch>> /\ buffer' = << >>
          /\ annotation' = << >> /\ classes' = << >>
      BY <1>2, <1>10 DEF EscapeBad, AsText
    <2>2. AsRun(Append(Inside(Here), Ch), (result \o buffer) \o <<Ch>>)
      BY <1>2, <1>3, <2>1, EscapeFails
    <2>3. result' # << >>
      <3>1. (result \o buffer) \o <<Ch>> = Append(result \o buffer, Ch)
        BY <1>3, <1>4, <2>1, AppendIsConcat
      <3> QED BY <1>3, <1>4, <2>1, <3>1, AppendProperties
    <2>4. Half(Here', "DATA", result', annotation', classes', buffer')
      BY <1>5, <2>1, <2>2, <2>3 DEF Half
    <2> QED BY <1>1, <1>2, <1>5, <2>1, <2>4, GoesOn
  <1> QED BY <1>6, <1>7, <1>8, <1>9, <1>10 DEF Escape

\* In the name of a tag: what a step to another state has gathered.
LEMMA TagStep ==
  ASSUME TypeOK, token = NoToken, InTag(Here), Busy, NEW s, Go(s), Ch \notin {"GT", "NUL"},
         \A h : (InTag(h) /\ Inside(h) = Append(Inside(Here), Ch))
                  => Half(h, s, result', annotation', classes', buffer')
  PROVE  Gathers' /\ Taken' = Taken
  <1>1. InTag(Here') /\ Inside(Here') = Append(Inside(Here), Ch)
        /\ Front(Here'.pieces) = Front(Here.pieces)
    BY TagGoes DEF Go
  <1>2. Half(Here', s, result', annotation', classes', buffer')
    BY <1>1
  <1> QED BY <1>1, <1>2, GoesOn

\* The name goes on or ends.
LEMMA StartTagGathers ==
  ASSUME TypeOK, Gathers, StartTag PROVE Gathers' /\ Taken' = Taken
  <1>1. state \in {"TAG", "START_TAG"} /\ token = NoToken
    BY DEF StartTag, TagEnd, TagOpens, StartTagEnd, StartTagGoes, In
  <1>2. /\ InTag(Here) /\ Half(Here, state, result, annotation, classes, buffer)
        /\ Inside(Here) \in Seq(TextSymbols) /\ Busy
    BY <1>1, InsideTag
  <1>3. /\ AsName(Inside(Here), result) /\ annotation = << >> /\ classes = << >> /\ buffer = << >>
        /\ (state = "TAG" <=> result = << >>)
    BY <1>1, <1>2 DEF Half
  <1>4. Inside(Here) = result /\ (Ch # "NUL" => Ch \in TextSymbols)
    BY <1>3, Gathered DEF AsName
  <1>5. ASSUME NEW s \in {"TAG", "START_TAG"}, Complete(s, result, classes, annotation), TagEnds
        PROVE  Gathers' /\ Taken' = Taken
    <2>1. TokenFor(Last(Here.pieces)) = TokenOf(s, result, classes, annotation)
      BY <1>2, <1>3, TokenOfName DEF InTag, Inside
    <2> QED BY <1>1, <1>2, <1>5, <2>1, Completes DEF TagEnds
  <1>6. ASSUME Ch = "SP", Go("START_TAG_ANNOTATION"), UNCHANGED gathered
        PROVE  Gathers' /\ Taken' = Taken
    <2>1. AsNote(Append(Inside(Here), Ch), result, << >>)
      BY <1>2, <1>3, <1>6, NameSpace
    <2>2. ASSUME NEW h, InTag(h), Inside(h) = Append(Inside(Here), Ch)
          PROVE  Half(h, "START_TAG_ANNOTATION", result', annotation', classes', buffer')
      BY <1>3, <1>6, <2>1, <2>2 DEF Half, gathered
    <2> QED BY <1>1, <1>2, <1>6, <2>2, TagStep
  <1>7. ASSUME Ch = "DOT", Go("START_TAG_CLASS"), UNCHANGED gathered
        PROVE  Gathers' /\ Taken' = Taken
    <2>1. AsClasses(Append(Inside(Here), Ch), result, << >>, << >>)
      BY <1>2, <1>3, <1>7, NameDot
    <2>2. ASSUME NEW h, InTag(h), Inside(h) = Append(Inside(Here), Ch)
          PROVE  Half(h, "START_TAG_CLASS", result', annotation', classes', buffer')
      BY <1>3, <1>7, <2>1, <2>2 DEF Half, gathered
    <2> QED BY <1>1, <1>2, <1>7, <2>2, TagStep
  <1>8. ASSUME Ch = "SLASH", state = "TAG", Go("END_TAG"), UNCHANGED gathered
        PROVE  Gathers' /\ Taken' = Taken
    <2>1. AsEndTag(Append(Inside(Here), Ch), result)
      BY <1>3, <1>4, <1>8, EndTagBegins
    <2>2. ASSUME NEW h, InTag(h), Inside(h) = Append(Inside(Here), Ch)
          PROVE  Half(h, "END_TAG", result', annotation', classes', buffer')
      BY <1>3, <1>8, <2>1, <2>2 DEF Half, gathered
    <2> QED BY <1>1, <1>2, <1>8, <2>2, TagStep
  <1>9. ASSUME Ch = "7", state = "TAG", Go("TIME_STAMP_TAG"), Keep
        PROVE  Gathers' /\ Taken' = Taken
    <2>1. AsTime(Append(Inside(Here), Ch), Append(result, Ch))
      BY <1>3, <1>4, <1>9, TimeBegins
    <2>2. ASSUME NEW h, InTag(h), Inside(h) = Append(Inside(Here), Ch)
          PROVE  Half(h, "TIME_STAMP_TAG", result', annotation', classes', buffer')
      BY <1>3, <1>9, <2>1, <2>2 DEF Half, Keep
    <2> QED BY <1>1, <1>2, <1>9, <2>2, TagStep
  <1>10. ASSUME ~TagEnds, Ch \notin {"SP", "DOT"}, state = "TAG" => Ch \notin {"SLASH", "7"},
                Go("START_TAG"), Keep
         PROVE  Gathers' /\ Taken' = Taken
    <2>1. Ch \notin {"GT", "NUL"} /\ Ch \in TextSymbols
      BY <1>4, <1>10 DEF TagEnds
    <2>2. AsName(Append(Inside(Here), Ch), Append(result, Ch))
      <3>1. Inside(Here) # << >> \/ Ch \notin {"SLASH", "7"}
        BY <1>3, <1>4, <1>10, <1>1
      <3> QED BY <1>2, <1>3, <1>10, <2>1, <3>1, NameGrows
    <2>3. Append(result, Ch) # << >>
      BY <2>1, Gathered, AppendProperties
    <2>4. ASSUME NEW h, InTag(h), Inside(h) = Append(Inside(Here), Ch)
          PROVE  Half(h, "START_TAG", result', annotation', classes', buffer')
      BY <1>3, <1>10, <2>2, <2>3, <2>4 DEF Half, Keep
    <2> QED BY <1>1, <1>2, <1>10, <2>1, <2>4, TagStep
  <1>11. CASE TagEnd
    BY <1>5, <1>11 DEF TagEnd
  <1>12. CASE TagOpens
    BY <1>6, <1>7, <1>8, <1>9, <1>10, <1>12 DEF TagOpens, In
  <1>13. CASE StartTagEnd
    BY <1>5, <1>13 DEF StartTagEnd
  <1>14. CASE StartTagGoes
    BY <1>6, <1>7, <1>10, <1>14 DEF StartTagGoes, In
  <1> QED BY <1>11, <1>12, <1>13, <1>14 DEF StartTag

\* In the classes of a tag: white space is where the text is read in another way.
LEMMA ClassGathers ==
  ASSUME TypeOK, Gathers, Class PROVE HasSpaceAfterClass(text) \/ (Gathers' /\ Taken' = Taken)
  <1>1. state = "START_TAG_CLASS" /\ token = NoToken
    BY DEF Class, ClassEnd, ClassSpace, ClassNext, ClassChar, In
  <1>2. /\ InTag(Here) /\ Half(Here, state, result, annotation, classes, buffer)
        /\ Inside(Here) \in Seq(TextSymbols) /\ Busy
    BY <1>1, InsideTag
  <1>3. AsClasses(Inside(Here), result, classes, buffer) /\ annotation = << >>
    BY <1>1, <1>2 DEF Half
  <1>4. /\ classes \in Seq(Seq(TextSymbols)) /\ buffer \in Seq(TextSymbols)
        /\ Ch # "NUL" => Ch \in TextSymbols
    BY Gathered
  <1>5. CASE ClassEnd
    <2>1. TagEnds /\ Complete("START_TAG_CLASS", result, Append(classes, buffer), annotation)
      BY <1>5 DEF ClassEnd
    <2>2. TokenFor(Last(Here.pieces))
            = TokenOf("START_TAG_CLASS", result, Append(classes, buffer), annotation)
      BY <1>2, <1>3, TokenOfClasses DEF InTag, Inside
    <2> QED BY <1>1, <1>2, <2>1, <2>2, Completes DEF TagEnds
  <1>6. CASE ClassSpace
    <2>1. Ch = "SP"
      BY <1>6 DEF ClassSpace
    <2>2. text \in Seq(TextSymbols) /\ pos \in 0 .. Len(text) /\ Len(text) \in Nat
      BY DEF TypeOK
    <2>3. pos < Len(text) /\ text[pos + 1] = "SP" /\ "SP" \in TextSymbols
      BY <2>1 DEF Ch, TextSymbols
    <2> DEFINE h == Cuts(text)[pos + 1]
    <2>4. h = Cut(Here, "SP")
      <3>1. pos + 1 \in 1 .. Len(text) /\ pos + 1 - 1 = pos
        BY <2>2, <2>3
      <3> QED BY <2>2, <2>3, <3>1, CutsEquation DEF Here
    <2>5. Here \in CutType /\ TagIsLast(Here) /\ Here.pieces \in Seq(PieceType)
      BY HereIs
    <2>6. Extends(Here, "SP") /\ Last(Here.pieces).tag /\ Here.pieces # << >>
      BY <1>2 DEF Extends, InTag
    <2> DEFINE e == Piece(Last(Here.pieces).tag, Append(Last(Here.pieces).content, "SP"))
               q == Append(Front(Here.pieces), e)
    <2>7. h.pieces = q
      <3> HIDE DEF h
      <3>1. Cut(Here, "SP").pieces = q
        <4>1. "SP" \in TextSymbols /\ Here \in CutType /\ TagIsLast(Here) /\ Extends(Here, "SP")
          BY <2>3, <2>5, <2>6
        <4> QED BY ONLY <4>1, CutExtends
      <3> QED BY ONLY <2>4, <3>1
    <2>8. Last(Here.pieces) \in PieceType /\ Front(Here.pieces) \in Seq(PieceType)
      BY <2>5, <2>6, FrontAndLast
    <2>9. e \in PieceType /\ e.tag = TRUE /\ e.content = Append(Inside(Here), "SP")
      <3>1. Last(Here.pieces).tag \in BOOLEAN /\ Append(Inside(Here), "SP") \in Seq(TextSymbols)
        BY <1>2, <2>3, <2>8, AppendProperties DEF PieceType
      <3> QED BY <2>6, <3>1, PieceIs DEF Inside
    <2>10. Stray(e.content)
      BY <1>2, <1>3, <2>9, ClassesAreStray
    <2> HIDE DEF e
    <2>11. /\ Len(q) = Len(Front(Here.pieces)) + 1 /\ Len(Front(Here.pieces)) \in Nat
           /\ q[Len(Front(Here.pieces)) + 1] = e
      BY <2>8, <2>9, OneMore
    <2> HIDE DEF q
    <2>12. Len(q) \in 1 .. Len(q) /\ q[Len(q)] = e
      BY <2>11
    <2>13. StrayIn(q)
      BY <2>9, <2>10, <2>12 DEF StrayIn
    <2> HIDE DEF h
    <2>14. StrayIn(Pieces(text))
      <3>1. pos + 1 \in 0 .. Len(text)
        BY <2>2, <2>3
      <3> QED BY <2>2, <2>7, <2>13, <3>1, StrayToTheEnd DEF h
    <2> QED BY <2>2, <2>14, StrayIsNamed
  <1>7. CASE ClassNext
    <2>1. /\ Go("START_TAG_CLASS") /\ Ch = "DOT" /\ result' = result /\ annotation' = annotation
          /\ classes' = Append(classes, buffer) /\ buffer' = << >>
      BY <1>7 DEF ClassNext
    <2>2. AsClasses(Append(Inside(Here), Ch), result, Append(classes, buffer), << >>)
      BY <1>2, <1>3, <2>1, ClassesNext
    <2>3. ASSUME NEW h, InTag(h), Inside(h) = Append(Inside(Here), Ch)
          PROVE  Half(h, "START_TAG_CLASS", result', annotation', classes', buffer')
      BY <1>3, <2>1, <2>2, <2>3 DEF Half
    <2> QED BY <1>1, <1>2, <2>1, <2>3, TagStep
  <1>8. CASE ClassChar
    <2>1. /\ Go("START_TAG_CLASS") /\ Ch \notin {"SP", "DOT", "GT", "NUL"} /\ result' = result
          /\ annotation' = annotation /\ classes' = classes /\ buffer' = Append(buffer, Ch)
      BY <1>8 DEF ClassChar, TagEnds
    <2>2. AsClasses(Append(Inside(Here), Ch), result, classes, Append(buffer, Ch))
      BY <1>2, <1>3, <1>4, <2>1, ClassesGrow
    <2>3. ASSUME NEW h, InTag(h), Inside(h) = Append(Inside(Here), Ch)
          PROVE  Half(h, "START_TAG_CLASS", result', annotation', classes', buffer')
      BY <1>3, <2>1, <2>2, <2>3 DEF Half
    <2> QED BY <1>1, <1>2, <2>1, <2>3, TagStep
  <1> QED BY <1>5, <1>6, <1>7, <1>8 DEF Class

\* In an annotation, an end tag or a time stamp.
LEMMA RestGathers ==
  ASSUME TypeOK, Gathers, Rest PROVE Gathers' /\ Taken' = Taken
  <1>1. state \in {"START_TAG_ANNOTATION", "END_TAG", "TIME_STAMP_TAG"} /\ token = NoToken
    BY DEF Rest, AnnotationEnd, AnnotationChar, PlainEnd, PlainChar, PlainTags, In
  <1>2. /\ InTag(Here) /\ Half(Here, state, result, annotation, classes, buffer)
        /\ Inside(Here) \in Seq(TextSymbols) /\ Busy
    BY <1>1, InsideTag
  <1>3. Ch # "NUL" => Ch \in TextSymbols
    BY Gathered
  <1>4. CASE state = "START_TAG_ANNOTATION"
    <2>1. AsNote(Inside(Here), result, annotation) /\ classes = << >> /\ buffer = << >>
      BY <1>2, <1>4 DEF Half
    <2>2. AnnotationEnd \/ AnnotationChar
      BY <1>4 DEF Rest, PlainEnd, PlainChar, PlainTags, In
    <2>3. CASE AnnotationEnd
      <3>1. TagEnds /\ Complete("START_TAG_ANNOTATION", result, classes, annotation)
        BY <2>3 DEF AnnotationEnd
      <3>2. TokenFor(Last(Here.pieces)) = TokenOf("START_TAG_ANNOTATION", result, classes, annotation)
        BY <1>2, <2>1, TokenOfNote DEF InTag, Inside
      <3> QED BY <1>1, <1>2, <3>1, <3>2, Completes DEF TagEnds
    <2>4. CASE AnnotationChar
      <3>1. /\ Go("START_TAG_ANNOTATION") /\ Ch \notin {"GT", "NUL"} /\ result' = result
            /\ annotation' = Append(annotation, Ch) /\ classes' = classes /\ buffer' = buffer
        BY <2>4 DEF AnnotationChar, TagEnds
      <3>2. AsNote(Append(Inside(Here), Ch), result, Append(annotation, Ch))
        BY <1>2, <1>3, <2>1, <3>1, NoteGrows
      <3>3. ASSUME NEW h, InTag(h), Inside(h) = Append(Inside(Here), Ch)
            PROVE  Half(h, "START_TAG_ANNOTATION", result', annotation', classes', buffer')
        BY <2>1, <3>1, <3>2, <3>3 DEF Half
      <3> QED BY <1>1, <1>2, <3>1, <3>3, TagStep
    <2> QED BY <2>2, <2>3, <2>4
  <1>5. CASE state = "END_TAG"
    <2>1. AsEndTag(Inside(Here), result) /\ annotation = << >> /\ classes = << >> /\ buffer = << >>
      BY <1>2, <1>5 DEF Half
    <2>2. \/ TagEnds /\ Complete("END_TAG", result, classes, annotation)
          \/ ~TagEnds /\ Go("END_TAG") /\ Keep
      BY <1>5 DEF Rest, AnnotationEnd, AnnotationChar, PlainEnd, PlainChar, PlainTags, In
    <2>3. CASE TagEnds /\ Complete("END_TAG", result, classes, annotation)
      <3>1. TokenFor(Last(Here.pieces)) = TokenOf("END_TAG", result, classes, annotation)
        BY <1>2, <2>1, TokenOfEnd DEF InTag, Inside
      <3> QED BY <1>1, <1>2, <2>3, <3>1, Completes DEF TagEnds
    <2>4. CASE ~TagEnds /\ Go("END_TAG") /\ Keep
      <3>1. AsEndTag(Append(Inside(Here), Ch), Append(result, Ch))
        BY <1>2, <1>3, <2>1, <2>4, EndTagGrows DEF TagEnds
      <3>2. ASSUME NEW h, InTag(h), Inside(h) = Append(Inside(Here), Ch)
            PROVE  Half(h, "END_TAG", result', annotation', classes', buffer')
        BY <2>1, <2>4, <3>1, <3>2 DEF Half, Keep
      <3> QED BY <1>1, <1>2, <2>4, <3>2, TagStep DEF TagEnds
    <2> QED BY <2>2, <2>3, <2>4
  <1>6. CASE state = "TIME_STAMP_TAG"
    <2>1. AsTime(Inside(Here), result) /\ annotation = << >> /\ classes = << >> /\ buffer = << >>
      BY <1>2, <1>6 DEF Half
    <2>2. \/ TagEnds /\ Complete("TIME_STAMP_TAG", result, classes, annotation)
          \/ ~TagEnds /\ Go("TIME_STAMP_TAG") /\ Keep
      BY <1>6 DEF Rest, AnnotationEnd, AnnotationChar, PlainEnd, PlainChar, PlainTags, In
    <2>3. CASE TagEnds /\ Complete("TIME_STAMP_TAG", result, classes, annotation)
      <3>1. TokenFor(Last(Here.pieces)) = TokenOf("TIME_STAMP_TAG", result, classes, annotation)
        BY <1>2, <2>1, TokenOfTime DEF InTag, Inside
      <3> QED BY <1>1, <1>2, <2>3, <3>1, Completes DEF TagEnds
    <2>4. CASE ~TagEnds /\ Go("TIME_STAMP_TAG") /\ Keep
      <3>1. AsTime(Append(Inside(Here), Ch), Append(result, Ch))
        BY <1>2, <1>3, <2>1, <2>4, TimeGrows DEF TagEnds
      <3>2. ASSUME NEW h, InTag(h), Inside(h) = Append(Inside(Here), Ch)
            PROVE  Half(h, "TIME_STAMP_TAG", result', annotation', classes', buffer')
        BY <2>1, <2>4, <3>1, <3>2 DEF Half, Keep
      <3> QED BY <1>1, <1>2, <2>4, <3>2, TagStep DEF TagEnds
    <2> QED BY <2>2, <2>3, <2>4
  <1> QED BY <1>1, <1>4, <1>5, <1>6

\* So the tokenizer gathers what the markup says, and takes no piece.
LEMMA TokenizeGathers ==
  ASSUME TypeOK, Gathers, Tokenize
  PROVE  HasSpaceAfterClass(text) \/ (Gathers' /\ Taken' = Taken)
  <1>1. CASE Data
    BY <1>1, DataEscapeGathers, DataTagGathers, DataEndGathers, DataCharGathers DEF Data
  <1>2. CASE Escape
    BY <1>2, EscapeGathers
  <1>3. CASE StartTag
    BY <1>3, StartTagGathers
  <1>4. CASE Class
    BY <1>4, ClassGathers
  <1>5. CASE Rest
    BY <1>5, RestGathers
  <1> QED BY <1>1, <1>2, <1>3, <1>4, <1>5 DEF Tokenize

\* What becomes of a token takes its piece.
LEMMA BuildGathers ==
  ASSUME TypeOK, Gathers, Build
  PROVE  /\ Waits /\ Gathers' /\ Taken = Front(Here.pieces) /\ Taken' = Here.pieces
         /\ text' = text /\ token = TokenFor(Last(Here.pieces))
  <1>1. /\ token.type \in {"END", "START"} \cup LeafKinds /\ token' = NoToken
        /\ UNCHANGED <<text, pos, tokenizer>>
    BY DEF Build, End, EndAtHead, EndUnknown, EndCloses, EndIgnored, EndNamed, Leaf, StartInvalid,
           StartOutOfPlace, StartOpens, Take, LeafKinds
  <1>2. token # NoToken
    BY <1>1 DEF NoToken, Token, LeafKinds
  <1>3. Waits
    BY <1>2 DEF Gathers
  <1>4. Idle' /\ Between(Here, Ch)' /\ Here' = Here
    BY <1>1, <1>3 DEF Waits, Idle, Between, Here, Ch, tokenizer, gathered
  <1>5. Busy /\ ~Busy'
    BY <1>1, <1>2, <1>4 DEF Busy, Idle
  <1> QED BY <1>1, <1>3, <1>4, <1>5 DEF Gathers, Taken, Waits

-----------------------------------------------------------------------------
(* The shape of the tree: the depth of every node, the path from the head  *)
(* to the open node, and the last node below every node.                   *)

\* The nodes are a tree, and the children of a node are its own.
Family(ns) ==
  /\ ns \in Seq(NodeType) /\ Len(ns) >= 1
  /\ \A i \in 1 .. Len(ns) :
       /\ ns[i].children \in Seq(1 .. Len(ns))
       /\ i > 1 => /\ ns[i].parent \in 1 .. i - 1
                   /\ \E j \in 1 .. Len(ns[ns[i].parent].children) :
                        ns[ns[i].parent].children[j] = i
       /\ \A j \in 1 .. Len(ns[i].children) :
            /\ ns[i].children[j] \in i + 1 .. Len(ns)
            /\ ns[ns[i].children[j]].parent = i

\* The same but for the children.
Alike(m, n) == /\ m.kind = n.kind /\ m.parent = n.parent /\ m.lang = n.lang
               /\ m.annotation = n.annotation /\ m.classes = n.classes /\ m.content = n.content

\* ms is ns with the node n, the last child of the open one.
Grown(ns, cur, n, ms) ==
  /\ ms \in Seq(NodeType) /\ Len(ms) = Len(ns) + 1 /\ ms[Len(ns) + 1] = n
  /\ cur \in 1 .. Len(ns) /\ n \in NodeType /\ n.parent = cur /\ n.children = << >>
  /\ \A i \in 1 .. Len(ns) : Alike(ms[i], ns[i]) /\ (i # cur => ms[i].children = ns[i].children)
  /\ ms[cur].children = Append(ns[cur].children, Len(ns) + 1)

Deep(ns, dep) ==
  /\ dep \in [1 .. Len(ns) -> Nat] /\ dep[1] = 0
  /\ \A i \in 2 .. Len(ns) : dep[i] = dep[ns[i].parent] + 1

\* path is the way from the head to the node cur,
Leads(ns, path, cur, dep) ==
  /\ path \in Seq(1 .. Len(ns)) /\ Len(path) >= 1 /\ path[1] = 1 /\ path[Len(path)] = cur
  /\ dep[cur] = Len(path) - 1
  /\ \A k \in 2 .. Len(path) : ns[path[k]].parent = path[k - 1]
  /\ \A k \in 1 .. Len(path) : \A l \in 1 .. k - 1 : path[l] < path[k]
On(path, i) == \E k \in 1 .. Len(path) : path[k] = i

\* and below i are the nodes up to e[i]: what is below the first child comes
\* first, and so on.
Chain(kids, i, e) ==
  /\ kids = << >> => e[i] = i
  /\ kids # << >> => kids[1] = i + 1 /\ e[kids[Len(kids)]] = e[i]
  /\ \A j \in 2 .. Len(kids) : kids[j] = e[kids[j - 1]] + 1
Spans(ns, path, e) ==
  /\ \A i \in 1 .. Len(ns) : e[i] \in i .. Len(ns) /\ Chain(ns[i].children, i, e)
  /\ \A i \in 1 .. Len(ns) : On(path, i) => e[i] = Len(ns)

\* The rows of the outline, and the nodes that are open.
RowOf(n, d) == Entry(d, n.kind, n.lang, n.annotation, n.classes, n.content)
Rows(ns, dep) == [j \in 1 .. Len(ns) - 1 |-> RowOf(ns[j + 1], dep[j + 1])]
OpenAt(ns, path) ==
  [k \in 1 .. Len(path) |-> [kind |-> ns[path[k]].kind, lang |-> ns[path[k]].lang]]

\* The tree as it is built is the one that was read.
Fits(r, ns, cur) ==
  \E dep, path, e :
    /\ Deep(ns, dep) /\ Leads(ns, path, cur, dep) /\ Spans(ns, path, e)
    /\ r = [out |-> Rows(ns, dep), open |-> OpenAt(ns, path)]

\* What changes, and what does not.
LEMMA GrownIs ==
  ASSUME NEW ns, NEW cur, NEW n, NEW ms, Family(ns), Grown(ns, cur, n, ms)
  PROVE  /\ Len(ns) \in Nat \ {0} /\ Len(ms) = Len(ns) + 1 /\ ms[Len(ns) + 1] = n
         /\ cur \in 1 .. Len(ns) /\ n.parent = cur
         /\ \A i \in 1 .. Len(ns) : /\ ms[i].kind = ns[i].kind /\ ms[i].parent = ns[i].parent
                                    /\ ms[i].lang = ns[i].lang
         /\ \A i \in 1 .. Len(ns) : Alike(ms[i], ns[i])
         /\ \A i \in 1 .. Len(ns) : i > 1 => ns[i].parent \in 1 .. i - 1
  <1>1. Len(ns) \in Nat /\ Len(ns) >= 1
    BY LenProperties DEF Family
  <1>2. Len(ns) \in Nat \ {0}
    BY <1>1
  <1>3. \A i \in 1 .. Len(ns) : Alike(ms[i], ns[i])
    BY DEF Grown
  <1>4. \A i \in 1 .. Len(ns) : /\ ms[i].kind = ns[i].kind /\ ms[i].parent = ns[i].parent
                                /\ ms[i].lang = ns[i].lang
    BY <1>3 DEF Alike
  <1>5. \A i \in 1 .. Len(ns) : i > 1 => ns[i].parent \in 1 .. i - 1
    BY Zenon DEF Family
  <1>6. /\ Len(ms) = Len(ns) + 1 /\ ms[Len(ns) + 1] = n
        /\ cur \in 1 .. Len(ns) /\ n.parent = cur
    BY Zenon DEF Grown
  <1> QED BY <1>2, <1>3, <1>4, <1>5, <1>6

\* A new node is one deeper than the open one.
Deeper(dep, N, cur) == [i \in 1 .. N + 1 |-> IF i = N + 1 THEN dep[cur] + 1 ELSE dep[i]]

\* It has a depth, and the others keep theirs.
LEMMA DeepGrows ==
  ASSUME NEW ns, NEW cur, NEW n, NEW ms, NEW dep, Family(ns), Grown(ns, cur, n, ms), Deep(ns, dep)
  PROVE  Deep(ms, Deeper(dep, Len(ns), cur))
  <1> DEFINE N == Len(ns)
             d == Deeper(dep, Len(ns), cur)
  <1>1. /\ N \in Nat \ {0} /\ Len(ms) = N + 1 /\ cur \in 1 .. N /\ ms[N + 1].parent = cur
        /\ \A i \in 1 .. N : ms[i].parent = ns[i].parent
        /\ \A i \in 1 .. N : i > 1 => ns[i].parent \in 1 .. i - 1
    BY GrownIs
  <1>2. dep \in [1 .. N -> Nat] /\ dep[1] = 0
        /\ \A i \in 2 .. N : dep[i] = dep[ns[i].parent] + 1
    BY DEF Deep
  <1>0. d = [i \in 1 .. N + 1 |-> IF i = N + 1 THEN dep[cur] + 1 ELSE dep[i]]
    BY DEF Deeper
  <1> HIDE DEF N, d
  <1>3. /\ d \in [1 .. N + 1 -> Nat] /\ d[N + 1] = dep[cur] + 1
        /\ \A i \in 1 .. N : d[i] = dep[i]
    <2>1. dep[cur] + 1 \in Nat /\ N + 1 \in 1 .. N + 1 /\ \A i \in 1 .. N : i # N + 1
      BY <1>1, <1>2
    <2>2. \A i \in 1 .. N + 1 : i # N + 1 => i \in 1 .. N
      BY <1>1
    <2> QED BY <1>0, <1>1, <1>2, <2>1, <2>2
  <1>4. ASSUME NEW i \in 2 .. N + 1 PROVE d[i] = d[ms[i].parent] + 1
    <2>1. CASE i = N + 1
      BY <1>1, <1>3, <2>1
    <2>2. CASE i # N + 1
      <3>1. i \in 1 .. N /\ i \in 2 .. N /\ i > 1
        BY <1>1, <2>2
      <3>2. ns[i].parent \in 1 .. N
        BY <1>1, <3>1
      <3> QED BY <1>1, <1>2, <1>3, <3>1, <3>2
    <2> QED BY <2>1, <2>2
  <1>5. d[1] = 0
    BY <1>1, <1>2, <1>3
  <1>6. Deep(ms, d)
    BY <1>1, <1>3, <1>4, <1>5 DEF Deep
  <1> QED BY <1>6 DEF d, N

\* The rows are one more.
LEMMA RowsGrow ==
  ASSUME NEW ns, NEW cur, NEW n, NEW ms, NEW dep, Family(ns), Grown(ns, cur, n, ms), Deep(ns, dep)
  PROVE  Rows(ms, Deeper(dep, Len(ns), cur)) = Append(Rows(ns, dep), RowOf(n, dep[cur] + 1))
  <1> DEFINE N == Len(ns)
             d == Deeper(dep, Len(ns), cur)
             a == Rows(ns, dep)
             b == Rows(ms, d)
             x == RowOf(n, dep[cur] + 1)
             S == {a[j] : j \in 1 .. N - 1} \cup {x}
  <1>1. /\ N \in Nat \ {0} /\ Len(ms) = N + 1 /\ cur \in 1 .. N /\ ms[N + 1] = n
        /\ \A i \in 1 .. N : Alike(ms[i], ns[i])
    BY GrownIs
  <1>2. d[N + 1] = dep[cur] + 1 /\ \A i \in 1 .. N : d[i] = dep[i]
    BY <1>1 DEF Deeper
  <1>3. a = [j \in 1 .. N - 1 |-> RowOf(ns[j + 1], dep[j + 1])]
    BY DEF Rows
  <1>4. b = [j \in 1 .. N |-> RowOf(ms[j + 1], d[j + 1])]
    <2>1. Len(ms) - 1 = N
      BY <1>1
    <2> QED BY <2>1 DEF Rows
  <1>5. ASSUME NEW i \in 1 .. N, NEW x1 PROVE RowOf(ms[i], x1) = RowOf(ns[i], x1)
    BY <1>1 DEF RowOf, Alike
  <1> HIDE DEF a, b, d, N
  <1>6. a \in Seq(S) /\ Len(a) = N - 1
    <2>1. a \in [1 .. N - 1 -> S] /\ N - 1 \in Nat
      BY <1>1, <1>3
    <2> HIDE DEF S
    <2> QED BY <2>1
  <1>7. /\ Append(a, x) \in Seq(S) /\ Len(Append(a, x)) = N /\ Append(a, x)[N] = x
        /\ \A j \in 1 .. N - 1 : Append(a, x)[j] = a[j]
    <2>1. x \in S
      OBVIOUS
    <2> HIDE DEF S, x
    <2>2. Len(a) + 1 = N
      BY <1>1, <1>6
    <2> QED BY <1>6, <2>1, <2>2, OneMore
  <1>8. ASSUME NEW j \in 1 .. N PROVE b[j] = Append(a, x)[j]
    <2>1. b[j] = RowOf(ms[j + 1], d[j + 1])
      BY <1>4
    <2>2. CASE j = N
      BY <1>1, <1>2, <1>7, <2>1, <2>2
    <2>3. CASE j # N
      <3>1. j \in 1 .. N - 1 /\ j + 1 \in 1 .. N
        BY <1>1, <2>3
      <3>2. a[j] = RowOf(ns[j + 1], dep[j + 1])
        BY <1>3, <3>1
      <3>3. RowOf(ms[j + 1], d[j + 1]) = RowOf(ns[j + 1], dep[j + 1])
        BY <1>2, <1>5, <3>1
      <3> QED BY <1>7, <2>1, <3>1, <3>2, <3>3
    <2> QED BY <2>2, <2>3
  <1> HIDE DEF x
  <1>9. b \in Seq(S) /\ Len(b) = N
    <2>1. ASSUME NEW j \in 1 .. N PROVE b[j] \in S
      <3>1. Append(a, x)[j] \in S
        BY <1>1, <1>7, ElementOfSeq
      <3> QED BY <1>8, <3>1
    <2>2. b \in [1 .. N -> S]
      <3> HIDE DEF S
      <3> QED BY <1>4, <2>1
    <2> HIDE DEF S
    <2> QED BY <1>1, <2>2
  <1>10. b = Append(a, x)
    <2> HIDE DEF S
    <2> QED BY <1>7, <1>8, <1>9, SeqEqual
  <1> QED BY <1>10 DEF a, b, d, x, N

\* The way to the open node stays when a node is added,
LEMMA PathStays ==
  ASSUME NEW ns, NEW cur, NEW n, NEW ms, NEW dep, NEW path,
         Family(ns), Grown(ns, cur, n, ms), Leads(ns, path, cur, dep)
  PROVE  Leads(ms, path, cur, Deeper(dep, Len(ns), cur)) /\ OpenAt(ms, path) = OpenAt(ns, path)
  <1> DEFINE N == Len(ns)
             d == Deeper(dep, Len(ns), cur)
             K == Len(path)
  <1>1. /\ N \in Nat \ {0} /\ Len(ms) = N + 1 /\ cur \in 1 .. N
        /\ \A i \in 1 .. N : /\ ms[i].parent = ns[i].parent /\ ms[i].kind = ns[i].kind
                             /\ ms[i].lang = ns[i].lang
    BY GrownIs
  <1>2. /\ path \in Seq(1 .. N) /\ K >= 1 /\ path[1] = 1 /\ path[K] = cur /\ dep[cur] = K - 1
        /\ \A k \in 2 .. K : ns[path[k]].parent = path[k - 1]
        /\ \A k \in 1 .. K : \A l \in 1 .. k - 1 : path[l] < path[k]
    BY DEF Leads
  <1>3. d[cur] = dep[cur]
    BY <1>1 DEF Deeper
  <1> HIDE DEF N, d
  <1>4. K \in Nat /\ \A k \in 1 .. K : path[k] \in 1 .. N
    BY <1>2, LenProperties, ElementOfSeq
  <1>5. path \in Seq(1 .. N + 1)
    <2>1. 1 .. N \subseteq 1 .. N + 1
      BY <1>1
    <2> QED BY <1>2, <2>1, SeqMonotonic
  <1>6. \A k \in 2 .. K : ms[path[k]].parent = path[k - 1]
    <2>1. \A k \in 2 .. K : k \in 1 .. K
      BY <1>4
    <2> QED BY <1>1, <1>2, <1>4, <2>1
  <1>7. Leads(ms, path, cur, d)
    BY <1>1, <1>2, <1>3, <1>5, <1>6 DEF Leads
  <1>8. OpenAt(ms, path) = OpenAt(ns, path)
    <2>1. \A k \in 1 .. K : ms[path[k]].kind = ns[path[k]].kind
                            /\ ms[path[k]].lang = ns[path[k]].lang
      BY <1>1, <1>4
    <2> QED BY <2>1 DEF OpenAt
  <1> QED BY <1>7, <1>8 DEF d, N

\* and goes on to it when it is the one that is open now,
LEMMA PathEnters ==
  ASSUME NEW ns, NEW cur, NEW n, NEW ms, NEW dep, NEW path,
         Family(ns), Grown(ns, cur, n, ms), Leads(ns, path, cur, dep)
  PROVE  /\ Leads(ms, Append(path, Len(ns) + 1), Len(ns) + 1, Deeper(dep, Len(ns), cur))
         /\ OpenAt(ms, Append(path, Len(ns) + 1))
              = Append(OpenAt(ns, path), [kind |-> n.kind, lang |-> n.lang])
         /\ \A i : On(Append(path, Len(ns) + 1), i) => On(path, i) \/ i = Len(ns) + 1
  <1> DEFINE N == Len(ns)
             d == Deeper(dep, Len(ns), cur)
             K == Len(path)
             q == Append(path, N + 1)
  <1>1. /\ N \in Nat \ {0} /\ Len(ms) = N + 1 /\ cur \in 1 .. N /\ ms[N + 1] = n /\ n.parent = cur
    BY GrownIs
  <1>2. /\ Leads(ms, path, cur, d) /\ OpenAt(ms, path) = OpenAt(ns, path)
    BY PathStays
  <1>3. /\ path \in Seq(1 .. N + 1) /\ K >= 1 /\ path[1] = 1 /\ path[K] = cur /\ d[cur] = K - 1
        /\ \A k \in 2 .. K : ms[path[k]].parent = path[k - 1]
        /\ \A k \in 1 .. K : \A l \in 1 .. k - 1 : path[l] < path[k]
    BY <1>1, <1>2 DEF Leads
  <1>4. d[N + 1] = d[cur] + 1
    BY <1>1 DEF Deeper
  <1>5. path \in Seq(1 .. N)
    BY DEF Leads
  <1> HIDE DEF N, d
  <1>6. K \in Nat /\ \A k \in 1 .. K : path[k] \in 1 .. N
    BY <1>5, LenProperties, ElementOfSeq
  <1>7. /\ q \in Seq(1 .. N + 1) /\ Len(q) = K + 1 /\ q[K + 1] = N + 1
        /\ \A k \in 1 .. K : q[k] = path[k]
    <2>1. N + 1 \in 1 .. N + 1
      BY <1>1
    <2> QED BY <1>3, <2>1, OneMore
  <1> HIDE DEF q
  <1>8. ASSUME NEW k \in 2 .. K + 1 PROVE ms[q[k]].parent = q[k - 1]
    <2>1. CASE k = K + 1
      <3>1. q[k] = N + 1 /\ q[k - 1] = cur
        BY <1>3, <1>6, <1>7, <2>1
      <3> QED BY <1>1, <3>1
    <2>2. CASE k # K + 1
      <3>1. k \in 2 .. K /\ k \in 1 .. K /\ k - 1 \in 1 .. K
        BY <1>6, <2>2
      <3> QED BY <1>3, <1>7, <3>1
    <2> QED BY <2>1, <2>2
  <1>9. ASSUME NEW k \in 1 .. K + 1, NEW l \in 1 .. k - 1 PROVE q[l] < q[k]
    <2>0. l \in 1 .. K
      BY <1>6
    <2>1. CASE k = K + 1
      <3>1. q[k] = N + 1 /\ q[l] \in 1 .. N
        BY <1>6, <1>7, <2>0, <2>1
      <3> QED BY <1>1, <3>1
    <2>2. CASE k # K + 1
      <3>1. k \in 1 .. K
        BY <1>6, <2>2
      <3> QED BY <1>3, <1>7, <2>0, <3>1
    <2> QED BY <2>1, <2>2
  <1>10. Leads(ms, q, N + 1, d)
    <2>1. d[N + 1] = Len(q) - 1 /\ Len(q) >= 1 /\ q[1] = 1 /\ q[Len(q)] = N + 1
      BY <1>3, <1>4, <1>6, <1>7
    <2> QED BY <1>1, <1>7, <1>8, <1>9, <2>1 DEF Leads
  <1>11. \A i : On(q, i) => On(path, i) \/ i = N + 1
    <2> SUFFICES ASSUME NEW i, On(q, i) PROVE On(path, i) \/ i = N + 1
      OBVIOUS
    <2>1. PICK k \in 1 .. K + 1 : q[k] = i
      BY <1>7 DEF On
    <2>2. k = K + 1 \/ k \in 1 .. K
      BY <1>6
    <2> QED BY <1>7, <2>1, <2>2 DEF On
  <1>12. OpenAt(ms, q) = Append(OpenAt(ms, path), [kind |-> n.kind, lang |-> n.lang])
    <2> DEFINE f(i) == [kind |-> ms[i].kind, lang |-> ms[i].lang]
               S == {f(i) : i \in 1 .. N + 1}
               a == OpenAt(ms, path)
               b == OpenAt(ms, q)
    <2>1. a = [k \in 1 .. K |-> f(path[k])] /\ b = [k \in 1 .. K + 1 |-> f(q[k])]
      BY <1>7 DEF OpenAt
    <2>2. \A i \in 1 .. N + 1 : f(i) \in S
      OBVIOUS
    <2>3. f(N + 1) = [kind |-> n.kind, lang |-> n.lang]
      BY <1>1
    <2> HIDE DEF a, b, f, S
    <2>4. a \in Seq(S) /\ Len(a) = K
      <3>1. \A k \in 1 .. K : path[k] \in 1 .. N + 1
        BY <1>1, <1>6
      <3>2. a \in [1 .. K -> S]
        BY <2>1, <2>2, <3>1
      <3> QED BY <1>6, <3>2
    <2>5. b \in Seq(S) /\ Len(b) = K + 1
      <3>1. \A k \in 1 .. K + 1 : q[k] \in 1 .. N + 1
        BY <1>7, ElementOfSeq
      <3>2. b \in [1 .. K + 1 -> S]
        BY <2>1, <2>2, <3>1
      <3> QED BY <1>6, <3>2
    <2>6. N + 1 \in 1 .. N + 1
      BY <1>1
    <2>7. /\ Append(a, f(N + 1)) \in Seq(S) /\ Len(Append(a, f(N + 1))) = K + 1
          /\ Append(a, f(N + 1))[K + 1] = f(N + 1)
          /\ \A k \in 1 .. K : Append(a, f(N + 1))[k] = a[k]
      BY <2>2, <2>4, <2>6, OneMore
    <2>8. ASSUME NEW k \in 1 .. K + 1 PROVE b[k] = Append(a, f(N + 1))[k]
      <3>1. b[k] = f(q[k])
        BY <2>1
      <3>2. CASE k = K + 1
        BY <1>7, <2>7, <3>1, <3>2
      <3>3. CASE k # K + 1
        <4>1. k \in 1 .. K
          BY <1>6, <3>3
        <4> QED BY <1>7, <2>1, <2>7, <3>1, <4>1
      <3> QED BY <3>2, <3>3
    <2>9. b = Append(a, f(N + 1))
      BY <2>5, <2>7, <2>8, SeqEqual
    <2> QED BY <2>3, <2>9 DEF a, b
  <1> QED BY <1>2, <1>10, <1>11, <1>12 DEF q, d, N

\* and goes back to its parent when it is closed.
LEMMA PathGoesBack ==
  ASSUME NEW ns, NEW cur, NEW dep, NEW path,
         Family(ns), Deep(ns, dep), Leads(ns, path, cur, dep), cur > 1
  PROVE  /\ Leads(ns, Front(path), ns[cur].parent, dep)
         /\ OpenAt(ns, Front(path)) = Front(OpenAt(ns, path))
         /\ \A i : On(Front(path), i) => On(path, i)
         /\ path # << >>
  <1> DEFINE N == Len(ns)
             K == Len(path)
             q == Front(path)
  <1>1. /\ path \in Seq(1 .. N) /\ K >= 1 /\ path[1] = 1 /\ path[K] = cur /\ dep[cur] = K - 1
        /\ \A k \in 2 .. K : ns[path[k]].parent = path[k - 1]
        /\ \A k \in 1 .. K : \A l \in 1 .. k - 1 : path[l] < path[k]
    BY DEF Leads
  <1>2. N \in Nat \ {0}
    BY LenProperties DEF Family
  <1> HIDE DEF N
  <1>3. K \in Nat /\ \A k \in 1 .. K : path[k] \in 1 .. N
    BY <1>1, LenProperties, ElementOfSeq
  <1>4. K # 1
    BY <1>1
  <1>5. path # << >>
    BY <1>1
  <1>6. /\ q \in Seq(1 .. N) /\ Len(q) = K - 1 /\ \A k \in 1 .. K - 1 : q[k] = path[k]
    BY <1>1, <1>5, FrontAndLast
  <1> HIDE DEF q
  <1>7. K \in 2 .. K /\ K - 1 \in 1 .. K - 1 /\ 1 \in 1 .. K - 1
    BY <1>1, <1>3, <1>4
  <1>8. q[K - 1] = ns[cur].parent /\ q[1] = 1
    BY <1>1, <1>6, <1>7
  <1>9. dep[ns[cur].parent] = (K - 1) - 1
    <2>1. cur \in 2 .. N
      BY <1>1, <1>3, <1>7, <1>2
    <2>2. dep[cur] = dep[ns[cur].parent] + 1
      BY <2>1 DEF Deep, N
    <2>3. q[K - 1] \in 1 .. N
      BY <1>3, <1>6, <1>7
    <2>4. dep[ns[cur].parent] \in Nat
      BY <1>8, <2>3 DEF Deep, N
    <2> QED BY <1>1, <1>3, <2>2, <2>4
  <1>10. \A k \in 2 .. K - 1 : ns[q[k]].parent = q[k - 1]
    <2>1. \A k \in 2 .. K - 1 : k \in 2 .. K /\ k \in 1 .. K - 1 /\ k - 1 \in 1 .. K - 1
      BY <1>3
    <2> QED BY <1>1, <1>6, <2>1
  <1>11. \A k \in 1 .. K - 1 : \A l \in 1 .. k - 1 : q[l] < q[k]
    <2>1. \A k \in 1 .. K - 1 : k \in 1 .. K /\ \A l \in 1 .. k - 1 : l \in 1 .. K - 1
      BY <1>3
    <2> QED BY <1>1, <1>6, <2>1
  <1>12. Leads(ns, q, ns[cur].parent, dep)
    <2>1. Len(q) >= 1
      BY <1>3, <1>6, <1>7
    <2> QED BY <1>6, <1>8, <1>9, <1>10, <1>11, <2>1 DEF Leads, N
  <1>13. \A i : On(q, i) => On(path, i)
    <2>1. \A k \in 1 .. K - 1 : k \in 1 .. K
      BY <1>3
    <2> QED BY <1>6, <2>1 DEF On
  <1>14. OpenAt(ns, q) = Front(OpenAt(ns, path))
    <2> DEFINE f(i) == [kind |-> ns[i].kind, lang |-> ns[i].lang]
               S == {f(i) : i \in 1 .. N}
               a == OpenAt(ns, path)
               b == OpenAt(ns, q)
    <2>1. a = [k \in 1 .. K |-> f(path[k])] /\ b = [k \in 1 .. K - 1 |-> f(q[k])]
      BY <1>6 DEF OpenAt
    <2>2. \A i \in 1 .. N : f(i) \in S
      OBVIOUS
    <2> HIDE DEF a, b, f, S
    <2>3. a \in Seq(S) /\ Len(a) = K
      <3>1. a \in [1 .. K -> S]
        BY <1>3, <2>1, <2>2
      <3> QED BY <1>3, <3>1
    <2>4. b \in Seq(S) /\ Len(b) = K - 1
      <3>1. \A k \in 1 .. K - 1 : q[k] \in 1 .. N
        BY <1>6, ElementOfSeq
      <3>2. b \in [1 .. K - 1 -> S] /\ K - 1 \in Nat
        BY <1>3, <1>7, <2>1, <2>2, <3>1
      <3> QED BY <3>2
    <2>5. a # << >>
      BY <1>1, <2>3
    <2>6. Front(a) \in Seq(S) /\ Len(Front(a)) = K - 1 /\ \A k \in 1 .. K - 1 : Front(a)[k] = a[k]
      BY <2>3, <2>5, FrontAndLast
    <2>7. \A k \in 1 .. K - 1 : b[k] = Front(a)[k]
      <3>1. \A k \in 1 .. K - 1 : k \in 1 .. K
        BY <1>3
      <3> QED BY <1>6, <2>1, <2>6, <3>1
    <2>8. b = Front(a)
      BY <2>4, <2>6, <2>7, SeqEqual
    <2> QED BY <2>8 DEF a, b
  <1> QED BY <1>5, <1>12, <1>13, <1>14 DEF q

\* A new node is the last one below itself and below every node on the way to it,
Further(path, e, N) == [i \in 1 .. N + 1 |-> IF i = N + 1 \/ On(path, i) THEN N + 1 ELSE e[i]]

\* so that what was below the others is what is below them,
LEMMA ChainStays ==
  ASSUME NEW kids, NEW i, NEW e, NEW f, Chain(kids, i, e), Len(kids) \in Nat,
         f[i] = e[i], \A j \in 1 .. Len(kids) : f[kids[j]] = e[kids[j]],
         kids # << >> => Len(kids) >= 1
  PROVE  Chain(kids, i, f)
  <1>1. kids # << >> => Len(kids) \in 1 .. Len(kids)
    OBVIOUS
  <1>2. \A j \in 2 .. Len(kids) : j - 1 \in 1 .. Len(kids)
    OBVIOUS
  <1> QED BY <1>1, <1>2 DEF Chain

\* what is below a node on the way goes on in its last child,
LEMMA ChainGoesOn ==
  ASSUME NEW kids, NEW i, NEW e, NEW f, NEW N, Chain(kids, i, e), Len(kids) \in Nat, Len(kids) >= 1,
         f[i] = N, \A j \in 1 .. Len(kids) - 1 : f[kids[j]] = e[kids[j]], f[kids[Len(kids)]] = N
  PROVE  Chain(kids, i, f)
  <1>1. kids # << >>
    <2>1. Len(<< >>) = 0
      OBVIOUS
    <2> QED BY <2>1
  <1>2. \A j \in 2 .. Len(kids) : j - 1 \in 1 .. Len(kids) - 1
    OBVIOUS
  <1>3. \A j \in 2 .. Len(kids) : kids[j] = f[kids[j - 1]] + 1
    BY <1>2 DEF Chain
  <1> QED BY <1>1, <1>3 DEF Chain

\* and what is below the open node gets a new last child.
LEMMA ChainGrows ==
  ASSUME NEW S, NEW kids \in Seq(S), NEW i, NEW e, NEW f, NEW N \in Nat, N + 1 \in S,
         Chain(kids, i, e), e[i] = N, f[i] = N + 1, f[N + 1] = N + 1,
         \A j \in 1 .. Len(kids) : f[kids[j]] = e[kids[j]]
  PROVE  Chain(Append(kids, N + 1), i, f)
  <1> DEFINE q == Append(kids, N + 1)
             K == Len(kids)
  <1>1. /\ q \in Seq(S) /\ Len(q) = K + 1 /\ K \in Nat /\ q[K + 1] = N + 1
        /\ \A j \in 1 .. K : q[j] = kids[j]
    BY OneMore
  <1>2. q # << >>
    BY OneMore
  <1> HIDE DEF q
  <1>3. f[q[Len(q)]] = f[i]
    BY <1>1
  <1>4. CASE kids = << >>
    <2>1. K = 0 /\ e[i] = i
      BY <1>4 DEF Chain
    <2>2. q[1] = i + 1
      BY <1>1, <2>1
    <2>3. \A j \in 2 .. Len(q) : FALSE
      BY <1>1, <2>1
    <2> QED BY <1>2, <1>3, <2>2, <2>3 DEF Chain, q
  <1>5. CASE kids # << >>
    <2>1. K >= 1
      BY <1>1, <1>5, EmptySeq
    <2>2. kids[1] = i + 1 /\ e[kids[K]] = e[i] /\ \A j \in 2 .. K : kids[j] = e[kids[j - 1]] + 1
      BY <1>5 DEF Chain
    <2>3. q[1] = i + 1
      <3>1. 1 \in 1 .. K
        BY <1>1, <2>1
      <3> QED BY <1>1, <2>2, <3>1
    <2>4. ASSUME NEW j \in 2 .. K + 1 PROVE q[j] = f[q[j - 1]] + 1
      <3>1. j - 1 \in 1 .. K
        BY <1>1
      <3>2. f[q[j - 1]] = e[kids[j - 1]]
        BY <1>1, <3>1
      <3>3. CASE j = K + 1
        <4>1. j - 1 = K
          BY <1>1, <3>3
        <4>2. f[q[j - 1]] = N
          BY <2>2, <3>2, <4>1
        <4> QED BY <1>1, <3>3, <4>2
      <3>4. CASE j # K + 1
        <4>1. j \in 2 .. K /\ j \in 1 .. K
          BY <1>1, <3>4
        <4> QED BY <1>1, <2>2, <3>2, <4>1
      <3> QED BY <3>3, <3>4
    <2> QED BY <1>1, <1>2, <1>3, <2>3, <2>4 DEF Chain, q
  <1> QED BY <1>4, <1>5

\* On the way from the head a node is followed by one of its children, the last;
LEMMA OnTheWay ==
  ASSUME NEW ns, NEW cur, NEW dep, NEW path, NEW e,
         Family(ns), Leads(ns, path, cur, dep), Spans(ns, path, e),
         NEW i \in 1 .. Len(ns), NEW K, K = Len(ns[i].children)
  PROVE  /\ ~On(path, i) \/ i = cur => \A j \in 1 .. K : ~On(path, ns[i].children[j])
         /\ On(path, i) /\ i # cur =>
              /\ K >= 1
              /\ \A j \in 1 .. K - 1 : ~On(path, ns[i].children[j])
              /\ On(path, ns[i].children[K])
  <1> DEFINE N == Len(ns)
             P == Len(path)
             kids == ns[i].children
  <1>1. /\ N \in Nat \ {0} /\ kids \in Seq(1 .. N) /\ K \in Nat
        /\ \A j \in 1 .. K : kids[j] \in i + 1 .. N /\ ns[kids[j]].parent = i
    <2>1. N \in Nat \ {0} /\ kids \in Seq(1 .. N)
      BY LenProperties DEF Family
    <2>2. K \in Nat
      BY <2>1, LenProperties
    <2> QED BY <2>1, <2>2 DEF Family
  <1>2. /\ path \in Seq(1 .. N) /\ P >= 1 /\ path[1] = 1 /\ path[P] = cur
        /\ \A k \in 2 .. P : ns[path[k]].parent = path[k - 1]
        /\ \A k \in 1 .. P : \A l \in 1 .. k - 1 : path[l] < path[k]
    BY DEF Leads
  <1>3. P \in Nat /\ \A k \in 1 .. P : path[k] \in 1 .. N
    BY <1>2, LenProperties, ElementOfSeq
  <1>4. \A j \in 1 .. N : j > 1 =>
          \E k \in 1 .. Len(ns[ns[j].parent].children) : ns[ns[j].parent].children[k] = j
    BY DEF Family
  <1>5. /\ Chain(kids, i, e) /\ \A j \in 1 .. N : e[j] \in j .. N
        /\ \A j \in 1 .. N : On(path, j) => e[j] = N
    BY DEF Spans
  <1>9. \A j \in 1 .. K : kids[j] \in 1 .. N
    BY <1>1, ElementOfSeq
  \* A child on the way comes after its parent on the way.
  <1>6. ASSUME NEW j \in 1 .. K, On(path, kids[j])
        PROVE  \E k \in 2 .. P : path[k] = kids[j] /\ path[k - 1] = i
    <2>1. PICK k \in 1 .. P : path[k] = kids[j]
      BY <1>6 DEF On
    <2>2. k # 1
      BY <1>1, <1>2, <2>1
    <2>3. k \in 2 .. P
      BY <1>3, <2>2
    <2> QED BY <1>1, <1>2, <2>1, <2>3
  <1>7. ASSUME ~On(path, i) \/ i = cur, NEW j \in 1 .. K PROVE ~On(path, kids[j])
    <2> SUFFICES ASSUME On(path, kids[j]) PROVE FALSE
      OBVIOUS
    <2>1. PICK k \in 2 .. P : path[k] = kids[j] /\ path[k - 1] = i
      BY <1>6
    <2>2. k - 1 \in 1 .. P - 1 /\ k - 1 \in 1 .. P /\ P \in 1 .. P
      BY <1>3
    <2>3. On(path, i)
      BY <2>1, <2>2 DEF On
    <2>4. path[k - 1] < path[P]
      BY <1>2, <2>2
    <2> QED BY <1>1, <1>2, <1>3, <1>7, <2>1, <2>2, <2>3, <2>4
  <1>8. ASSUME On(path, i), i # cur
        PROVE  /\ K >= 1 /\ \A j \in 1 .. K - 1 : ~On(path, kids[j])
               /\ On(path, kids[K])
    <2>1. PICK k \in 1 .. P : path[k] = i
      BY <1>8 DEF On
    <2>2. k + 1 \in 2 .. P /\ k + 1 \in 1 .. P /\ k + 1 - 1 = k
      BY <1>2, <1>3, <1>8, <2>1
    <2>3. ns[path[k + 1]].parent = i /\ path[k + 1] \in 1 .. N
      BY <1>2, <1>3, <2>1, <2>2
    <2>4. path[k + 1] > 1
      <3>1. 1 \in 1 .. (k + 1) - 1
        BY <1>3
      <3>2. path[1] < path[k + 1]
        BY <1>2, <2>2, <3>1
      <3> QED BY <1>2, <1>3, <2>3, <3>2
    <2>5. PICK m \in 1 .. K : kids[m] = path[k + 1]
      BY <1>4, <2>3, <2>4
    <2>6. On(path, kids[m])
      BY <2>2, <2>5 DEF On
    <2>7. ASSUME NEW j \in 1 .. K - 1 PROVE ~On(path, kids[j])
      <3> SUFFICES ASSUME On(path, kids[j]) PROVE FALSE
        OBVIOUS
      <3>1. j \in 1 .. K /\ j + 1 \in 2 .. K /\ j + 1 \in 1 .. K /\ j + 1 - 1 = j
        BY <1>1, SMTT(30)
      <3> DEFINE a == kids[j]
                 b == kids[j + 1]
      <3>2. a \in 1 .. N /\ b \in 1 .. N
        BY <1>9, <3>1
      <3>3. e[a] = N
        BY <1>5, <3>2
      <3>4. b = e[a] + 1
        <4>1. kids # << >> /\ j + 1 \in 2 .. Len(kids)
          BY <3>1
        <4> QED BY <1>5, <3>1, <4>1 DEF Chain
      <3> HIDE DEF a, b
      <3> QED BY <1>1, <3>2, <3>3, <3>4
    <2> HIDE DEF kids
    <2>8. m = K /\ K >= 1
      BY <1>1, <2>6, <2>7
    <2>9. On(path, kids[K])
      BY <2>6, <2>8
    <2> QED BY <2>7, <2>8, <2>9
  <1> QED BY <1>7, <1>8

\* so that a new node leaves the tree one that is read from the head along the children.
LEMMA SpansGrow ==
  ASSUME NEW ns, NEW cur, NEW n, NEW ms, NEW dep, NEW path, NEW e, NEW q,
         Family(ns), Grown(ns, cur, n, ms), Leads(ns, path, cur, dep), Spans(ns, path, e),
         \A i : On(q, i) => On(path, i) \/ i = Len(ns) + 1
  PROVE  Spans(ms, q, Further(path, e, Len(ns)))
  <1> DEFINE N == Len(ns)
             f == Further(path, e, N)
  <1>1. /\ N \in Nat \ {0} /\ Len(ms) = N + 1 /\ cur \in 1 .. N
        /\ ms[N + 1].children = << >>
        /\ \A i \in 1 .. N : i # cur => ms[i].children = ns[i].children
        /\ ms[cur].children = Append(ns[cur].children, N + 1)
        /\ \A i \in 1 .. N : ns[i].children \in Seq(1 .. N)
        /\ \A i \in 1 .. N : \A j \in 1 .. Len(ns[i].children) : ns[i].children[j] \in 1 .. N
    <2>1. N \in Nat \ {0} /\ \A i \in 1 .. N : ns[i].children \in Seq(1 .. N)
      BY LenProperties DEF Family
    <2>2. \A i \in 1 .. N : \A j \in 1 .. Len(ns[i].children) : ns[i].children[j] \in 1 .. N
      BY <2>1, ElementOfSeq
    <2> QED BY <2>1, <2>2 DEF Grown
  <1>2. /\ \A i \in 1 .. N : e[i] \in i .. N /\ Chain(ns[i].children, i, e)
        /\ \A i \in 1 .. N : On(path, i) => e[i] = N
    BY DEF Spans
  <1>3. f = [i \in 1 .. N + 1 |-> IF i = N + 1 \/ On(path, i) THEN N + 1 ELSE e[i]]
    BY DEF Further
  <1>4. On(path, cur)
    <2>1. Len(path) \in 1 .. Len(path) /\ path[Len(path)] = cur
      BY LenProperties DEF Leads
    <2> QED BY <2>1 DEF On
  <1> HIDE DEF N, f
  <1>5. /\ f[N + 1] = N + 1
        /\ \A i \in 1 .. N : On(path, i) => f[i] = N + 1
        /\ \A i \in 1 .. N : ~On(path, i) => f[i] = e[i]
    <2>1. \A i \in 1 .. N : i \in 1 .. N + 1 /\ i # N + 1
      BY <1>1
    <2>2. N + 1 \in 1 .. N + 1
      BY <1>1
    <2> QED BY <1>3, <2>1, <2>2
  <1>6. ASSUME NEW i \in 1 .. N + 1 PROVE f[i] \in i .. N + 1
    <2>1. CASE i = N + 1
      BY <1>1, <1>5, <2>1
    <2>2. CASE i # N + 1
      <3>1. i \in 1 .. N
        BY <1>1, <2>2
      <3>2. e[i] \in i .. N
        BY <1>2, <3>1
      <3>3. f[i] = N + 1 \/ f[i] = e[i]
        BY <1>5, <3>1
      <3> QED BY <1>1, <3>1, <3>2, <3>3
    <2> QED BY <2>1, <2>2
  <1>7. ASSUME NEW i \in 1 .. N + 1 PROVE Chain(ms[i].children, i, f)
    <2>1. CASE i = N + 1
      <3>1. Len(<< >>) = 0
        OBVIOUS
      <3>2. \A j \in 2 .. 0 : FALSE
        OBVIOUS
      <3> QED BY <1>1, <1>5, <2>1, <3>1, <3>2 DEF Chain
    <2>2. CASE i # N + 1
      <3> DEFINE kids == ns[i].children
                 K == Len(ns[i].children)
      <3>0. K = Len(kids)
        OBVIOUS
      <3>1. i \in 1 .. N
        BY <1>1, <2>2
      <3>2. /\ kids \in Seq(1 .. N) /\ K \in Nat /\ Chain(kids, i, e)
            /\ \A j \in 1 .. K : kids[j] \in 1 .. N
        <4>1. kids \in Seq(1 .. N)
          BY <1>1, <3>1
        <4>2. K \in Nat
          BY <4>1, LenProperties
        <4> QED BY <1>1, <1>2, <3>1, <4>1, <4>2
      <3>3. kids # << >> => K >= 1
        BY <3>2, EmptySeq
      <3>4. i \in 1 .. Len(ns)
        BY <3>1 DEF N
      <3> HIDE DEF kids, K
      <3>5. /\ ~On(path, i) \/ i = cur => \A j \in 1 .. K : ~On(path, kids[j])
            /\ On(path, i) /\ i # cur =>
                 K >= 1 /\ (\A j \in 1 .. K - 1 : ~On(path, kids[j])) /\ On(path, kids[K])
        BY <3>4, OnTheWay DEF kids, K
      <3>6. CASE ~On(path, i)
        <4>1. \A j \in 1 .. K : f[kids[j]] = e[kids[j]]
          BY <1>5, <3>2, <3>5, <3>6
        <4>2. f[i] = e[i]
          BY <1>5, <3>1, <3>6
        <4>3. Chain(kids, i, f)
          BY <3>2, <3>3, <4>1, <4>2, <3>0, ChainStays
        <4> QED BY <1>1, <1>4, <3>1, <3>6, <4>3 DEF kids
      <3>7. CASE On(path, i) /\ i # cur
        <4>1. /\ K >= 1 /\ K \in 1 .. K /\ On(path, kids[K])
              /\ \A j \in 1 .. K - 1 : ~On(path, kids[j]) /\ j \in 1 .. K
          BY <3>2, <3>5, <3>7
        <4>2. \A j \in 1 .. K - 1 : f[kids[j]] = e[kids[j]]
          BY <1>5, <3>2, <4>1
        <4>3. f[kids[K]] = N + 1 /\ f[i] = N + 1
          BY <1>5, <3>1, <3>2, <3>7, <4>1
        <4>4. Chain(kids, i, f)
          BY <3>2, <4>1, <4>2, <4>3, <3>0, ChainGoesOn
        <4> QED BY <1>1, <3>1, <3>7, <4>4 DEF kids
      <3>8. CASE i = cur
        <4>1. \A j \in 1 .. K : f[kids[j]] = e[kids[j]]
          BY <1>5, <3>2, <3>5, <3>8
        <4>2. e[i] = N /\ f[i] = N + 1
          BY <1>2, <1>4, <1>5, <3>1, <3>8
        <4>3. kids \in Seq(1 .. N + 1) /\ N + 1 \in 1 .. N + 1 /\ N \in Nat
          <5>1. 1 .. N \subseteq 1 .. N + 1 /\ N + 1 \in 1 .. N + 1 /\ N \in Nat
            BY <1>1
          <5> QED BY <3>2, <5>1, SeqMonotonic
        <4>4. Chain(Append(kids, N + 1), i, f)
          BY <1>5, <3>2, <4>1, <4>2, <4>3, <3>0, ChainGrows
        <4> QED BY <1>1, <3>8, <4>4 DEF kids
      <3> QED BY <3>6, <3>7, <3>8
    <2> QED BY <2>1, <2>2
  <1>8. ASSUME NEW i \in 1 .. N + 1, On(q, i) PROVE f[i] = N + 1
    <2>1. On(path, i) \/ i = N + 1
      BY <1>8 DEF N
    <2>2. i = N + 1 \/ i \in 1 .. N
      BY <1>1
    <2> QED BY <1>5, <2>1, <2>2
  <1>9. Spans(ms, q, f)
    BY <1>1, <1>6, <1>7, <1>8 DEF Spans
  <1> QED BY <1>9 DEF f, N

-----------------------------------------------------------------------------
(* A token does to the tree what its piece does to the outline.            *)

\* The open node is the last of the open ones,
LEMMA FitsTop ==
  ASSUME NEW r, NEW ns, NEW cur, Fits(r, ns, cur)
  PROVE  /\ r = [out |-> r.out, open |-> r.open]
         /\ InnerKind(r) = ns[cur].kind /\ InnerLang(r) = ns[cur].lang
  <1>1. PICK dep, path, e :
          /\ Deep(ns, dep) /\ Leads(ns, path, cur, dep) /\ Spans(ns, path, e)
          /\ r = [out |-> Rows(ns, dep), open |-> OpenAt(ns, path)]
    BY DEF Fits
  <1> DEFINE K == Len(path)
             a == OpenAt(ns, path)
  <1>2. K \in Nat /\ K >= 1 /\ path[K] = cur
    BY <1>1, LenProperties DEF Leads
  <1>3. a = [k \in 1 .. K |-> [kind |-> ns[path[k]].kind, lang |-> ns[path[k]].lang]]
    BY DEF OpenAt
  <1>4. r.open = a
    BY <1>1
  <1> HIDE DEF a, K
  <1>5. Len(a) = K
    BY <1>2, <1>3
  <1>6. a[Len(a)] = [kind |-> ns[cur].kind, lang |-> ns[cur].lang]
    <2>1. K \in 1 .. K
      BY <1>2
    <2> QED BY <1>2, <1>3, <1>5, <2>1
  <1>7. r = [out |-> r.out, open |-> r.open]
    BY <1>1
  <1> QED BY <1>4, <1>6, <1>7 DEF InnerKind, InnerLang, Top

\* a leaf is a row more,
LEMMA FitsLeaf ==
  ASSUME NEW r, NEW ns, NEW cur, NEW n, NEW ms, NEW k, NEW c,
         Family(ns), Grown(ns, cur, n, ms), Fits(r, ns, cur), n.kind = k, n.lang = << >>,
         n.annotation = << >>, n.classes = << >>, n.content = c
  PROVE  Fits(AddLeaf(r, k, c), ms, cur)
  <1>1. PICK dep, path, e :
          /\ Deep(ns, dep) /\ Leads(ns, path, cur, dep) /\ Spans(ns, path, e)
          /\ r = [out |-> Rows(ns, dep), open |-> OpenAt(ns, path)]
    BY DEF Fits
  <1> DEFINE d == Deeper(dep, Len(ns), cur)
             f == Further(path, e, Len(ns))
             x == RowOf(n, dep[cur] + 1)
  <1>2. Deep(ms, d) /\ Leads(ms, path, cur, d) /\ OpenAt(ms, path) = OpenAt(ns, path)
    BY <1>1, DeepGrows, PathStays
  <1>3. Spans(ms, path, f)
    BY <1>1, SpansGrow
  <1>4. Rows(ms, d) = Append(Rows(ns, dep), x)
    BY <1>1, RowsGrow
  <1>5. x = Entry(Len(OpenAt(ns, path)), k, << >>, << >>, << >>, c)
    <2>1. Len(OpenAt(ns, path)) = Len(path) /\ dep[cur] + 1 = Len(path)
      <3>1. Len(path) \in Nat /\ dep[cur] = Len(path) - 1
        BY <1>1, LenProperties DEF Leads
      <3> QED BY <3>1 DEF OpenAt
    <2> QED BY <2>1 DEF RowOf
  <1> HIDE DEF d, f, x
  <1>6. AddLeaf(r, k, c) = [out |-> Append(Rows(ns, dep), x), open |-> OpenAt(ns, path)]
    BY <1>1, <1>5 DEF AddLeaf
  <1> QED BY <1>2, <1>3, <1>4, <1>6 DEF Fits

\* and so is a node that is opened.
LEMMA FitsNode ==
  ASSUME NEW r, NEW ns, NEW cur, NEW n, NEW ms, NEW k, NEW c,
         Family(ns), Grown(ns, cur, n, ms), Fits(r, ns, cur), n.kind = k,
         n.lang = IF k = "LANG" THEN AnnotationOf(c) ELSE InnerLang(r),
         n.annotation = IF k = "LANG" THEN << >> ELSE AnnotationOf(c),
         n.classes = Classes(c), n.content = << >>
  PROVE  Fits(AddNode(r, k, c), ms, Len(ns) + 1)
  <1>1. PICK dep, path, e :
          /\ Deep(ns, dep) /\ Leads(ns, path, cur, dep) /\ Spans(ns, path, e)
          /\ r = [out |-> Rows(ns, dep), open |-> OpenAt(ns, path)]
    BY DEF Fits
  <1> DEFINE d == Deeper(dep, Len(ns), cur)
             f == Further(path, e, Len(ns))
             q == Append(path, Len(ns) + 1)
             x == RowOf(n, dep[cur] + 1)
             y == [kind |-> n.kind, lang |-> n.lang]
  <1>2. /\ Deep(ms, d) /\ Leads(ms, q, Len(ns) + 1, d)
        /\ OpenAt(ms, q) = Append(OpenAt(ns, path), y)
        /\ \A i : On(q, i) => On(path, i) \/ i = Len(ns) + 1
    <2>1. Deep(ms, d)
      BY <1>1, DeepGrows
    <2>2. /\ Leads(ms, q, Len(ns) + 1, d)
          /\ OpenAt(ms, q) = Append(OpenAt(ns, path), y)
          /\ \A i : On(q, i) => On(path, i) \/ i = Len(ns) + 1
      BY Zenon, <1>1, PathEnters
    <2> QED BY <2>1, <2>2
  <1> HIDE DEF q
  <1>3. Spans(ms, q, f)
    BY <1>1, <1>2, SpansGrow
  <1>4. Rows(ms, d) = Append(Rows(ns, dep), x)
    BY <1>1, RowsGrow
  <1>5. x = Entry(Len(OpenAt(ns, path)), k, n.lang, n.annotation, n.classes, << >>)
    <2>1. Len(OpenAt(ns, path)) = Len(path) /\ dep[cur] + 1 = Len(path)
      <3>1. Len(path) \in Nat /\ dep[cur] = Len(path) - 1
        BY <1>1, LenProperties DEF Leads
      <3> QED BY <3>1 DEF OpenAt
    <2> QED BY <2>1 DEF RowOf
  <1>6. AddNode(r, k, c) =
          [r EXCEPT !.out = Append(@, Entry(Len(r.open), k, n.lang, n.annotation, n.classes, << >>)),
                    !.open = Append(@, y)]
    BY DEF AddNode
  <1> HIDE DEF d, f, x, y
  <1>7. AddNode(r, k, c) = [out |-> Append(Rows(ns, dep), x), open |-> Append(OpenAt(ns, path), y)]
    BY <1>1, <1>5, <1>6
  <1> QED BY <1>2, <1>3, <1>4, <1>7 DEF Fits

\* A node that is closed is the last of the open ones no more.
LEMMA FitsBack ==
  ASSUME NEW r, NEW ns, NEW cur, Family(ns), Fits(r, ns, cur), cur > 1
  PROVE  Fits([r EXCEPT !.open = Front(@)], ns, ns[cur].parent)
  <1>1. PICK dep, path, e :
          /\ Deep(ns, dep) /\ Leads(ns, path, cur, dep) /\ Spans(ns, path, e)
          /\ r = [out |-> Rows(ns, dep), open |-> OpenAt(ns, path)]
    BY DEF Fits
  <1>2. /\ Leads(ns, Front(path), ns[cur].parent, dep)
        /\ OpenAt(ns, Front(path)) = Front(OpenAt(ns, path))
        /\ \A i : On(Front(path), i) => On(path, i)
    BY <1>1, PathGoesBack
  <1>3. Spans(ns, Front(path), e)
    BY <1>1, <1>2 DEF Spans
  <1>4. [r EXCEPT !.open = Front(@)] = [out |-> Rows(ns, dep), open |-> OpenAt(ns, Front(path))]
    BY <1>1, <1>2
  <1> QED BY <1>1, <1>2, <1>3, <1>4 DEF Fits

\* The nodes of the tree are a family,
LEMMA NodesAreFamily ==
  ASSUME IInv PROVE Family(nodes)
  <1>1. /\ nodes \in Seq(NodeType) /\ DOMAIN nodes = 1 .. Len(nodes) /\ Len(nodes) \in Nat
        /\ Len(nodes) >= 1
    BY DEF IInv, TypeOK, HeadFirst
  <1>2. ASSUME NEW i \in 1 .. Len(nodes)
        PROVE  /\ nodes[i].children \in Seq(1 .. Len(nodes))
               /\ \A j \in 1 .. Len(nodes[i].children) :
                    /\ nodes[i].children[j] \in i + 1 .. Len(nodes)
                    /\ nodes[nodes[i].children[j]].parent = i
    <2> DEFINE kids == nodes[i].children
    <2>1. kids \in Seq(Nat)
      <3>1. nodes[i] \in NodeType
        BY <1>1, ElementOfSeq
      <3> QED BY <3>1 DEF NodeType
    <2>2. \A j \in DOMAIN kids : kids[j] \in i + 1 .. Len(nodes) /\ nodes[kids[j]].parent = i
      BY <1>1 DEF IInv, TreeShape, NodeNumbers
    <2> HIDE DEF kids
    <2>3. Len(kids) \in Nat /\ DOMAIN kids = 1 .. Len(kids) /\ kids \in [1 .. Len(kids) -> Nat]
      BY <2>1, LenProperties
    <2>4. \A j \in 1 .. Len(kids) : kids[j] \in 1 .. Len(nodes)
      BY <1>1, <2>2, <2>3
    <2>5. kids \in [1 .. Len(kids) -> 1 .. Len(nodes)]
      BY <2>3, <2>4
    <2>6. kids \in Seq(1 .. Len(nodes))
      BY <2>3, <2>5
    <2> QED BY <2>2, <2>3, <2>6 DEF kids
  <1>3. ASSUME NEW i \in 1 .. Len(nodes), i > 1
        PROVE  /\ nodes[i].parent \in 1 .. i - 1
               /\ \E j \in 1 .. Len(nodes[nodes[i].parent].children) :
                    nodes[nodes[i].parent].children[j] = i
    <2>1. /\ nodes[i].parent \in 1 .. i - 1
          /\ \E j \in DOMAIN nodes[nodes[i].parent].children :
               nodes[nodes[i].parent].children[j] = i
      BY <1>1, <1>3 DEF IInv, TreeShape, NodeNumbers
    <2>2. nodes[i].parent \in 1 .. Len(nodes)
      BY <1>1, <2>1
    <2> DEFINE kids == nodes[nodes[i].parent].children
    <2>3. DOMAIN kids = 1 .. Len(kids)
      <3>1. kids \in Seq(1 .. Len(nodes))
        BY <1>2, <2>2
      <3> HIDE DEF kids
      <3> QED BY <3>1, LenProperties
    <2> QED BY <2>1, <2>3
  <1> QED BY <1>1, <1>2, <1>3 DEF Family

\* one that gets a child is otherwise as it was,
LEMMA WithChildAlike ==
  ASSUME NEW m \in NodeType, NEW i \in Nat PROVE Alike(WithChild(m, i), m)
  BY DEF NodeType, WithChild, Alike

\* and one more node grows them.
LEMMA NodesGrow ==
  ASSUME IInv, NEW n \in NodeType, n.parent = current, n.children = << >>
  PROVE  Grown(nodes, current, n, Attached(n))
  <1> DEFINE N == Len(nodes)
             with == [nodes EXCEPT ![current] = WithChild(@, N + 1)]
  <1>1. /\ nodes \in Seq(NodeType) /\ current \in 1 .. N /\ N \in Nat
    BY DEF IInv, TypeOK, NodeNumbers
  <1>2. /\ Attached(n) \in Seq(NodeType) /\ Len(Attached(n)) = N + 1 /\ Attached(n)[N + 1] = n
        /\ \A i \in 1 .. N : i # current => Attached(n)[i].children = nodes[i].children
        /\ Attached(n)[current].children = Append(nodes[current].children, N + 1)
    BY AttachedNodes
  <1>3. \A i \in 1 .. N : nodes[i] \in NodeType
    BY <1>1, ElementOfSeq
  <1>4. with \in Seq(NodeType) /\ Len(with) = N
        /\ \A i \in 1 .. N : with[i] = IF i = current THEN WithChild(nodes[i], N + 1) ELSE nodes[i]
    <2>1. WithChild(nodes[current], N + 1) \in NodeType
      <3>1. nodes[current] \in NodeType /\ N + 1 \in Nat
        BY <1>1, <1>3
      <3> QED BY <3>1, WithChildType
    <2> QED BY <1>1, <2>1, ExceptSeq
  <1>5. Attached(n) = Append(with, n)
    BY DEF Attached
  <1> HIDE DEF with
  <1>6. \A i \in 1 .. N : Attached(n)[i] = with[i]
    BY <1>4, <1>5, OneMore
  <1>7. ASSUME NEW i \in 1 .. N PROVE Alike(Attached(n)[i], nodes[i])
    <2>1. Attached(n)[i] = IF i = current THEN WithChild(nodes[i], N + 1) ELSE nodes[i]
      BY <1>4, <1>6
    <2>2. Alike(nodes[i], nodes[i])
      BY DEF Alike
    <2>3. Alike(WithChild(nodes[i], N + 1), nodes[i])
      BY <1>1, <1>3, WithChildAlike
    <2> QED BY <2>1, <2>2, <2>3
  <1> QED BY <1>1, <1>2, <1>7 DEF Grown

\* What the node of a leaf is made of,
LEMMA LeafIsMade ==
  ASSUME IInv, Leaf, NEW n, n = [Node(token.type, current) EXCEPT !.content = token.content]
  PROVE  /\ n \in NodeType /\ n.parent = current /\ n.children = << >> /\ n.kind = token.type
         /\ n.lang = << >> /\ n.annotation = << >> /\ n.classes = << >>
         /\ n.content = token.content
  <1>1. n \in NodeType /\ n.parent = current /\ n.children = << >>
    BY LeafIsNode DEF LeafNode
  <1>2. /\ n.kind = token.type /\ n.lang = << >> /\ n.annotation = << >> /\ n.classes = << >>
        /\ n.content = token.content
    BY DEF Node
  <1> QED BY <1>1, <1>2

\* and that of a start tag.
LEMMA OpenedIsMade ==
  ASSUME IInv, StartOpens, NEW k \in StartKinds
  PROVE  /\ Opened(k) \in NodeType /\ Opened(k).parent = current /\ Opened(k).children = << >>
         /\ Opened(k).kind = k
         /\ Opened(k).lang = IF k = "LANG" THEN token.annotation ELSE Innermost(langs)
         /\ Opened(k).annotation = IF k = "LANG" THEN << >> ELSE token.annotation
         /\ Opened(k).classes = token.classes /\ Opened(k).content = << >>
  <1>1. /\ Opened(k) \in NodeType /\ Opened(k).parent = current /\ Opened(k).children = << >>
        /\ Opened(k).kind = k
        /\ Opened(k).lang = IF k = "LANG" THEN token.annotation ELSE Innermost(langs)
    BY OpenedIsNode DEF OpenedNode, Innermost
  <1>2. /\ Opened(k).annotation = IF k = "LANG" THEN << >> ELSE token.annotation
        /\ Opened(k).classes = token.classes /\ Opened(k).content = << >>
    BY DEF Opened, Node
  <1> QED BY <1>1, <1>2

\* The texts that CueMarkup names: a tag with a letter for a name, and the end of a
\* ruby whose ruby text is open.
Unnamed(c) == ~IsTime(c) /\ KindOf(TagName(c)) = "UNSET"
Omits(c, r) == IsEnd(c) /\ KnownKind(TagName(c)) = "RUBY" /\ InnerKind(r) = "RUBY_TEXT"
Even(p, r) == p.tag => ~Unnamed(p.content) /\ ~Omits(p.content, r)

\* A name that is no such letter has the kind of its tag, if it has one.
LEMMA KnownKinds ==
  ASSUME NEW name, KindOf(name) # "UNSET"
  PROVE  /\ KindOf(name) = KnownKind(name) /\ KnownKind(name) \in InternalKinds \cup {"INVALID"}
  BY DEF KindOf, KnownKind, InternalKinds

\* What a token says is what its piece says.
LEMMA PieceOfToken ==
  ASSUME NEW p \in PieceType, token = TokenFor(p)
  PROVE  /\ token.type = "TEXT" => ~p.tag /\ token.content = Plain(p.content)
         /\ token.type = "TIME_STAMP" => p.tag /\ IsTime(p.content) /\ token.content = p.content
         /\ token.type = "END" => p.tag /\ ~IsTime(p.content) /\ IsEnd(p.content)
                                  /\ token.name = TagName(p.content)
         /\ token.type = "START" => /\ p.tag /\ ~IsTime(p.content) /\ ~IsEnd(p.content)
                                    /\ token.name = TagName(p.content)
                                    /\ token.classes = Classes(p.content)
                                    /\ token.annotation = AnnotationOf(p.content)
  <1>1. ASSUME IsEnd(p.content) PROVE Tail(p.content) = TagName(p.content)
    BY <1>1 DEF TagName
  <1> QED BY <1>1 DEF TokenFor, Token

\* A leaf,
LEMMA LeafFits ==
  ASSUME IInv, NEW p \in PieceType, token = TokenFor(p), NEW r, Fits(r, nodes, current), Leaf
  PROVE  Fits(Read(r, p), nodes', current')
  <1> DEFINE n == [Node(token.type, current) EXCEPT !.content = token.content]
  <1>1. /\ n \in NodeType /\ n.parent = current /\ n.children = << >> /\ n.kind = token.type
        /\ n.lang = << >> /\ n.annotation = << >> /\ n.classes = << >>
        /\ n.content = token.content
    BY LeafIsMade
  <1>2. nodes' = Attached(n) /\ current' = current /\ token.type \in LeafKinds
    BY DEF Leaf
  <1> HIDE DEF n
  <1>3. Fits(AddLeaf(r, token.type, token.content), nodes', current')
    <2>1. Grown(nodes, current, n, nodes') /\ Family(nodes)
      BY <1>1, <1>2, NodesGrow, NodesAreFamily
    <2> QED BY <1>1, <1>2, <2>1, FitsLeaf
  <1>4. Read(r, p) = AddLeaf(r, token.type, token.content)
    <2>1. CASE token.type = "TEXT"
      BY <2>1, PieceOfToken DEF Read
    <2>2. CASE token.type = "TIME_STAMP"
      <3>1. p.tag /\ IsTime(p.content) /\ token.content = p.content
        BY <2>2, PieceOfToken
      <3>2. ~IsEnd(p.content)
        BY <3>1 DEF IsTime, IsEnd
      <3> QED BY <2>2, <3>1, <3>2 DEF Read
    <2> QED BY <1>2, <2>1, <2>2 DEF LeafKinds
  <1> QED BY <1>3, <1>4

\* an end tag,
LEMMA EndFits ==
  ASSUME IInv, NEW p \in PieceType, token = TokenFor(p), NEW r, Fits(r, nodes, current),
         Even(p, r), End
  PROVE  Fits(Read(r, p), nodes', current')
  <1> DEFINE k == KnownKind(TagName(p.content))
  <1>1. token.type = "END"
    BY DEF End, EndAtHead, EndUnknown, EndCloses, EndIgnored, EndNamed, Take
  <1>2. /\ p.tag /\ ~IsTime(p.content) /\ IsEnd(p.content) /\ token.name = TagName(p.content)
    BY <1>1, PieceOfToken
  <1>3. /\ KindOf(token.name) = k /\ k \in InternalKinds \cup {"INVALID"} /\ k # "UNSET"
        /\ ~(k = "RUBY" /\ InnerKind(r) = "RUBY_TEXT")
    <2>1. KindOf(TagName(p.content)) # "UNSET"
      BY <1>2 DEF Even, Unnamed
    <2>2. k # "UNSET"
      BY <2>1, KnownKinds DEF InternalKinds
    <2> QED BY <1>2, <2>1, <2>2, KnownKinds DEF Even, Omits
  <1>4. InnerKind(r) = nodes[current].kind
    BY FitsTop
  <1>5. Read(r, p) = IF k = "INVALID" THEN r ELSE CloseNode(r, k)
    BY <1>2 DEF Read
  <1> HIDE DEF k
  \* Nothing happens, here and there.
  <1>6. ASSUME nodes' = nodes, current' = current, Read(r, p) = r
        PROVE  Fits(Read(r, p), nodes', current')
    BY <1>6
  <1>7. CASE EndAtHead
    <2>1. nodes[current].kind = "HEAD" /\ nodes' = nodes /\ current' = current
      BY <1>7 DEF EndAtHead, ThrownAway, tree
    <2>2. k # "INVALID" => k # "HEAD"
      BY <1>3 DEF InternalKinds
    <2>3. Read(r, p) = r
      BY <1>4, <1>5, <2>1, <2>2 DEF CloseNode
    <2> QED BY <1>6, <2>1, <2>3
  <1>8. CASE EndUnknown
    <2>1. nodes' = nodes /\ current' = current /\ k = "INVALID"
      BY <1>3, <1>8 DEF EndUnknown, ThrownAway, tree
    <2> QED BY <1>5, <1>6, <2>1
  <1>9. CASE EndCloses
    <2>1. /\ k # "INVALID" /\ EndKind = k /\ Closes(k) /\ nodes' = nodes
          /\ current' = nodes[current].parent /\ nodes[current].kind # "HEAD"
      BY <1>3, <1>9 DEF EndCloses, EndNamed, EndKind
    <2>2. InnerKind(r) = k
      BY <1>3, <1>4, <2>1 DEF Closes
    <2>3. Read(r, p) = [r EXCEPT !.open = Front(@)]
      BY <1>5, <2>1, <2>2 DEF CloseNode
    <2>4. current > 1
      <3>1. current \in 1 .. Len(nodes) /\ nodes[1].kind = "HEAD"
        BY DEF IInv, TypeOK, NodeNumbers, HeadFirst
      <3> QED BY <2>1, <3>1
    <2> QED BY <2>1, <2>3, <2>4, NodesAreFamily, FitsBack
  <1>10. CASE EndIgnored
    <2>1. /\ k # "INVALID" /\ EndKind = k /\ ~Closes(k) /\ nodes' = nodes /\ current' = current
      BY <1>3, <1>10 DEF EndIgnored, EndNamed, EndKind
    <2>2. Read(r, p) = r
      BY <1>4, <1>5, <2>1 DEF CloseNode, Closes
    <2> QED BY <1>6, <2>1, <2>2
  <1> QED BY <1>7, <1>8, <1>9, <1>10 DEF End

\* and a start tag.
LEMMA StartFits ==
  ASSUME IInv, LangInv, NEW p \in PieceType, token = TokenFor(p), NEW r,
         Fits(r, nodes, current), Even(p, r), StartInvalid \/ StartOutOfPlace \/ StartOpens
  PROVE  Fits(Read(r, p), nodes', current')
  <1> DEFINE k == KnownKind(TagName(p.content))
  <1>1. token.type = "START"
    BY DEF StartInvalid, StartOutOfPlace, StartOpens, Take
  <1>2. /\ p.tag /\ ~IsTime(p.content) /\ ~IsEnd(p.content) /\ token.name = TagName(p.content)
        /\ token.classes = Classes(p.content) /\ token.annotation = AnnotationOf(p.content)
    BY <1>1, PieceOfToken
  <1>3. /\ KindOf(token.name) = k /\ k \in InternalKinds \cup {"INVALID"}
        /\ KindOf(token.name) # "UNSET"
    <2>1. KindOf(TagName(p.content)) # "UNSET"
      BY <1>2 DEF Even, Unnamed
    <2> QED BY <1>2, <2>1, KnownKinds
  <1>4. InnerKind(r) = nodes[current].kind /\ InnerLang(r) = nodes[current].lang
    BY FitsTop
  <1>5. Read(r, p) = IF k = "INVALID" \/ (k = "RUBY_TEXT" /\ InnerKind(r) # "RUBY")
                     THEN r ELSE AddNode(r, k, p.content)
    BY <1>2 DEF Read
  <1>6. StartKinds = {k}
    BY <1>3 DEF StartKinds
  <1> HIDE DEF k
  <1>7. CASE StartInvalid
    <2>1. nodes' = nodes /\ current' = current /\ k = "INVALID"
      BY <1>3, <1>7 DEF StartInvalid, ThrownAway, tree
    <2> QED BY <1>5, <2>1
  <1>8. CASE StartOutOfPlace
    <2>1. nodes' = nodes /\ current' = current /\ OutOfPlace(k)
      BY <1>6, <1>8 DEF StartOutOfPlace, ThrownAway, tree
    <2>2. Read(r, p) = r
      BY <1>4, <1>5, <2>1 DEF OutOfPlace
    <2> QED BY <2>1, <2>2
  <1>9. CASE StartOpens
    <2>1. /\ k # "INVALID" /\ ~OutOfPlace(k) /\ nodes' = Attached(Opened(k))
          /\ current' = Entered(k, Len(nodes) + 1)
      BY <1>3, <1>6, <1>9 DEF StartOpens
    <2>2. /\ Opened(k) \in NodeType /\ Opened(k).parent = current /\ Opened(k).children = << >>
          /\ Opened(k).kind = k
          /\ Opened(k).lang = IF k = "LANG" THEN token.annotation ELSE Innermost(langs)
          /\ Opened(k).annotation = IF k = "LANG" THEN << >> ELSE token.annotation
          /\ Opened(k).classes = token.classes /\ Opened(k).content = << >>
      <3>1. k \in StartKinds
        BY <1>6
      <3> QED BY <1>9, <3>1, OpenedIsMade
    <2>3. InnerLang(r) = Innermost(langs)
      <3>1. current \in NodeNumbers /\ nodes[current].kind \notin LeafKinds
        BY DEF IInv, TypeOK
      <3> QED BY <1>4, <3>1 DEF LangInv, InEffect
    <2>4. current' = Len(nodes) + 1
      <3>1. k \notin LeafKinds
        BY <1>3, <2>1 DEF InternalKinds, LeafKinds
      <3> QED BY <2>1, <3>1 DEF Entered
    <2>5. Read(r, p) = AddNode(r, k, p.content)
      BY <1>4, <1>5, <2>1 DEF OutOfPlace
    <2>6. Grown(nodes, current, Opened(k), nodes') /\ Family(nodes)
      BY <2>1, <2>2, NodesGrow, NodesAreFamily
    <2>7. /\ Opened(k).lang = IF k = "LANG" THEN AnnotationOf(p.content) ELSE InnerLang(r)
          /\ Opened(k).annotation = IF k = "LANG" THEN << >> ELSE AnnotationOf(p.content)
          /\ Opened(k).classes = Classes(p.content)
      BY <1>2, <2>2, <2>3
    <2>8. Fits(AddNode(r, k, p.content), nodes', Len(nodes) + 1)
      BY <2>2, <2>6, <2>7, FitsNode
    <2> QED BY <2>4, <2>5, <2>8
  <1> QED BY <1>7, <1>8, <1>9

\* Any token.
LEMMA BuildFits ==
  ASSUME IInv, LangInv, NEW p \in PieceType, token = TokenFor(p), NEW r,
         Fits(r, nodes, current), Even(p, r), Build
  PROVE  Fits(Read(r, p), nodes', current')
  BY LeafFits, EndFits, StartFits DEF Build

-----------------------------------------------------------------------------
(* The tree is that of the pieces that are taken.                          *)

\* One of the pieces is a tag that CueMarkup names as read in another way.
Odd(ps) == \E n \in 1 .. Len(ps) : ~Even(ps[n], Reads(ps)[n - 1])

\* With one more piece it is still, and otherwise that piece is not.
LEMMA OddGrows ==
  ASSUME NEW S, NEW ps \in Seq(S), NEW p \in S
  PROVE  /\ Odd(ps) => Odd(Append(ps, p))
         /\ ~Even(p, Reads(ps)[Len(ps)]) => Odd(Append(ps, p))
  <1> DEFINE qs == Append(ps, p)
  <1>1. /\ Len(ps) \in Nat /\ Len(qs) = Len(ps) + 1 /\ qs[Len(ps) + 1] = p
        /\ \A n \in 1 .. Len(ps) : qs[n] = ps[n]
    BY OneMore
  <1>2. \A n \in 0 .. Len(ps) : Reads(qs)[n] = Reads(ps)[n]
    BY ReadsGrow
  <1> HIDE DEF qs
  <1>3. ASSUME Odd(ps) PROVE Odd(qs)
    <2>1. PICK n \in 1 .. Len(ps) : ~Even(ps[n], Reads(ps)[n - 1])
      BY <1>3 DEF Odd
    <2>2. n - 1 \in 0 .. Len(ps) /\ n \in 1 .. Len(qs)
      BY <1>1
    <2>3. ~Even(qs[n], Reads(qs)[n - 1])
      BY <1>1, <1>2, <2>1, <2>2
    <2> QED BY <2>2, <2>3 DEF Odd
  <1>4. ASSUME ~Even(p, Reads(ps)[Len(ps)]) PROVE Odd(qs)
    <2>1. Len(ps) + 1 \in 1 .. Len(qs) /\ Len(ps) \in 0 .. Len(ps) /\ (Len(ps) + 1) - 1 = Len(ps)
      BY <1>1
    <2>2. ~Even(qs[Len(ps) + 1], Reads(qs)[(Len(ps) + 1) - 1])
      BY <1>1, <1>2, <1>4, <2>1
    <2> QED BY <2>1, <2>2 DEF Odd
  <1> QED BY <1>3, <1>4 DEF qs

\* At the end it is one of the two that are named.
LEMMA OddIsNamed ==
  ASSUME NEW t \in Seq(TextSymbols), Odd(Pieces(t))
  PROVE  HasUnknownLetter(t) \/ HasOmittedEnd(t)
  <1> DEFINE ps == Pieces(t)
  <1>1. PICK n \in 1 .. Len(ps) : ~Even(ps[n], Reads(ps)[n - 1])
    BY DEF Odd
  <1>2. ps \in Seq(PieceType)
    <2>1. Cuts(t)[Len(t)] \in CutType
      <3>1. Len(t) \in 0 .. Len(t)
        BY LenProperties
      <3> QED BY <3>1, CutsAre
    <2> QED BY <2>1 DEF Pieces, CutType
  <1> HIDE DEF ps
  <1>3. /\ DOMAIN ps = 1 .. Len(ps) /\ ps[n] \in ToSet(ps)
    <2>1. DOMAIN ps = 1 .. Len(ps)
      BY <1>2, LenProperties
    <2> QED BY <2>1 DEF ToSet
  <1>4. CASE ps[n].tag /\ Unnamed(ps[n].content)
    <2>1. ps[n].content \in Tags(t)
      BY <1>3, <1>4 DEF Tags, ps
    <2> QED BY <1>4, <2>1 DEF HasUnknownLetter, Unnamed
  <1>5. CASE ps[n].tag /\ Omits(ps[n].content, Reads(ps)[n - 1])
    BY <1>3, <1>5 DEF HasOmittedEnd, Omits, ps
  <1> QED BY <1>1, <1>4, <1>5 DEF Even

SoFar == Reads(Taken)[Len(Taken)]
Follows == HasSpaceAfterClass(text) \/ (Gathers /\ (Odd(Taken) \/ Fits(SoFar, nodes, current)))

\* Nothing is read, and there is only the head.
LEMMA InitFollows == Init => Follows
  <1> SUFFICES ASSUME Init PROVE Follows
    OBVIOUS
  <1>1. /\ text \in Seq(TextSymbols) /\ pos = 0 /\ Idle /\ token = NoToken
        /\ nodes = <<Node("HEAD", 0)>> /\ current = 1
    BY TextsAssumption DEF Init, Idle
  <1>2. Len(text) \in Nat
    BY <1>1, LenProperties
  <1>3. Here = NoCuts
    BY <1>1, <1>2, CutsEquation DEF Here
  <1>4. Gathers
    BY <1>1, <1>3 DEF Gathers, Between, NoCuts
  <1>5. Taken = << >>
    BY <1>1, <1>3 DEF Taken, Busy, Idle, NoCuts
  <1>6. SoFar = Nothing
    <2>1. Len(<< >>) = 0
      OBVIOUS
    <2> QED BY <1>5, <2>1, ReadsEquation DEF SoFar
  <1>7. Fits(Nothing, nodes, current)
    <2> DEFINE one == [i \in 1 .. 1 |-> 1]
               dep == [i \in 1 .. 1 |-> 0]
    <2>1. /\ Len(nodes) = 1 /\ nodes[1].kind = "HEAD" /\ nodes[1].lang = << >>
          /\ nodes[1].children = << >>
      BY <1>1 DEF Node
    <2>2. \A j \in 2 .. 1 : FALSE
      OBVIOUS
    <2>3. one \in Seq(1 .. 1) /\ Len(one) = 1 /\ one[1] = 1
      OBVIOUS
    <2>4. dep \in [1 .. 1 -> Nat] /\ dep[1] = 0
      OBVIOUS
    <2> HIDE DEF one, dep
    <2>5. Deep(nodes, dep)
      BY <2>1, <2>2, <2>4 DEF Deep
    <2>6. Leads(nodes, one, current, dep)
      <3>1. \A k \in 1 .. 1 : \A l \in 1 .. k - 1 : FALSE
        OBVIOUS
      <3> QED BY <1>1, <2>1, <2>2, <2>3, <2>4, <3>1 DEF Leads
    <2>7. Spans(nodes, one, one)
      <3>1. Len(<< >>) = 0 /\ \A j \in 2 .. 0 : FALSE
        OBVIOUS
      <3>2. Chain(<< >>, 1, one)
        BY <2>3, <3>1 DEF Chain
      <3>3. \A i \in 1 .. 1 : i = 1
        OBVIOUS
      <3> QED BY <2>1, <2>3, <3>2, <3>3 DEF Spans
    <2>8. Rows(nodes, dep) = << >>
      BY <2>1 DEF Rows
    <2>9. OpenAt(nodes, one) = <<[kind |-> "HEAD", lang |-> << >>]>>
      BY <2>1, <2>3 DEF OpenAt
    <2> QED BY <2>5, <2>6, <2>7, <2>8, <2>9 DEF Fits, Nothing
  <1> QED BY <1>4, <1>6, <1>7 DEF Follows

\* Every step keeps to what the markup says.
LEMMA NextFollows == IInv /\ LangInv /\ Follows /\ [Next]_vars => Follows'
  <1> SUFFICES ASSUME IInv, LangInv, Follows, [Next]_vars PROVE Follows'
    OBVIOUS
  <1>1. TypeOK
    BY DEF IInv
  <1>2. text' = text
    BY DEF Next, Finished, vars, Build, End, EndAtHead, EndUnknown, EndCloses, EndIgnored, EndNamed,
      Leaf, StartInvalid, StartOutOfPlace, StartOpens, Take, Tokenize, Data, Escape, StartTag, Class,
      Rest, DataEscape, DataTag, DataEnd, DataChar, EscapeEnd, EscapeAgain, EscapeClose, EscapeName,
      EscapeBad, TagEnd, TagOpens, StartTagEnd, StartTagGoes, ClassEnd, ClassSpace, ClassNext,
      ClassChar, AnnotationEnd, AnnotationChar, PlainEnd, PlainChar, Go, Complete
  <1>3. CASE HasSpaceAfterClass(text)
    BY <1>2, <1>3 DEF Follows
  <1>4. CASE ~HasSpaceAfterClass(text)
    <2>1. Gathers /\ (Odd(Taken) \/ Fits(SoFar, nodes, current))
      BY <1>4 DEF Follows
    <2>2. CASE UNCHANGED vars
      <3>1. Here' = Here
        BY <2>2 DEF vars, Here
      <3>2. Taken' = Taken
        BY <2>2, <3>1 DEF vars, Taken, Busy, tokenizer, gathered
      <3>3. Gathers'
        BY <2>1, <2>2, <3>1 DEF vars, Gathers, Waits, Idle, Between, Ch, tokenizer, gathered
      <3>4. SoFar' = SoFar /\ nodes' = nodes /\ current' = current
        BY <2>2, <3>2 DEF SoFar, vars, tree
      <3> QED BY <2>1, <3>2, <3>3, <3>4 DEF Follows
    <2>3. CASE Tokenize
      <3>1. Gathers' /\ Taken' = Taken
        BY <1>1, <1>4, <2>1, <2>3, TokenizeGathers
      <3>2. nodes' = nodes /\ current' = current
        BY <2>3 DEF tree, Tokenize, Data, Escape, StartTag, Class,
          Rest, DataEscape, DataTag, DataEnd, DataChar, EscapeEnd, EscapeAgain, EscapeClose,
          EscapeName, EscapeBad, TagEnd, TagOpens, StartTagEnd, StartTagGoes, ClassEnd, ClassSpace,
          ClassNext, ClassChar, AnnotationEnd, AnnotationChar, PlainEnd, PlainChar, Go, Complete
      <3>3. SoFar' = SoFar
        BY <3>1 DEF SoFar
      <3> QED BY <2>1, <3>1, <3>2, <3>3 DEF Follows
    <2>4. CASE Build
      <3> DEFINE ps == Front(Here.pieces)
                 p == Last(Here.pieces)
      <3>1. /\ Waits /\ Gathers' /\ Taken = ps /\ Taken' = Here.pieces /\ token = TokenFor(p)
        BY <1>1, <2>1, <2>4, BuildGathers
      <3>2. Here.pieces \in Seq(PieceType) /\ Here.pieces # << >>
        BY <1>1, <3>1, HereIs DEF Waits
      <3>3. ps \in Seq(PieceType) /\ p \in PieceType /\ Here.pieces = Append(ps, p)
        BY <3>2, FrontAndLast
      <3> HIDE DEF ps, p
      <3>4. Taken' = Append(ps, p) /\ Len(Append(ps, p)) = Len(ps) + 1
        BY <3>1, <3>3, OneMore
      <3>5. SoFar' = Read(SoFar, p)
        <4>1. Reads(Append(ps, p))[Len(ps) + 1] = Read(Reads(ps)[Len(ps)], p)
          BY <3>3, ReadsGrow
        <4> QED BY <3>1, <3>4, <4>1 DEF SoFar
      <3>6. CASE Odd(Taken')
        BY <3>1, <3>6 DEF Follows
      <3>7. CASE ~Odd(Taken')
        <4>1. ~Odd(Taken) /\ Even(p, SoFar)
          BY <3>1, <3>3, <3>4, <3>7, OddGrows DEF SoFar
        <4>2. Fits(SoFar, nodes, current)
          BY <2>1, <4>1
        <4>3. Fits(Read(SoFar, p), nodes', current')
          BY <2>4, <3>1, <3>3, <4>1, <4>2, BuildFits
        <4>4. Fits(SoFar', nodes', current')
          BY <3>5, <4>3
        <4> QED BY <3>1, <4>4 DEF Follows
      <3> QED BY <3>6, <3>7
    <2> QED BY <2>2, <2>3, <2>4 DEF Next, Finished
  <1> QED BY <1>3, <1>4

-----------------------------------------------------------------------------
(* The outline of a tree that fits.                                        *)

IsDepth(f) == f = [i \in NodeNumbers |-> IF i = 1 THEN 0 ELSE f[nodes[i].parent] + 1]

\* The depths are those that fit: their equations have one solution.
LEMMA DepthIs ==
  ASSUME Family(nodes), NEW dep, Deep(nodes, dep) PROVE Depth = dep
  <1> DEFINE N == Len(nodes)
  <1>1. /\ N \in Nat \ {0} /\ NodeNumbers = 1 .. N
        /\ \A i \in 1 .. N : i > 1 => nodes[i].parent \in 1 .. i - 1
    BY LenProperties DEF Family, NodeNumbers
  <1>2. dep \in [1 .. N -> Nat] /\ dep[1] = 0
        /\ \A i \in 2 .. N : dep[i] = dep[nodes[i].parent] + 1
    BY DEF Deep
  <1> HIDE DEF N
  <1>3. IsDepth(dep)
    <2>1. \A i \in 1 .. N : dep[i] = IF i = 1 THEN 0 ELSE dep[nodes[i].parent] + 1
      <3>1. \A i \in 1 .. N : i # 1 => i \in 2 .. N
        BY <1>1
      <3> QED BY <1>2, <3>1
    <2>2. dep = [i \in 1 .. N |-> dep[i]]
      BY <1>2
    <2> QED BY <1>1, <2>1, <2>2 DEF IsDepth
  <1>4. IsDepth(Depth)
    <2> DEFINE f == CHOOSE g : IsDepth(g)
    <2>1. IsDepth(f)
      BY <1>3
    <2>2. Depth = f
      BY Zenon DEF Depth, IsDepth
    <2> QED BY <2>1, <2>2
  <1>5. Depth = [i \in 1 .. N |-> Depth[i]] /\ dep = [i \in 1 .. N |-> dep[i]]
    BY <1>1, <1>2, <1>4 DEF IsDepth
  <1>6. \A i \in 1 .. N : Depth[i] = IF i = 1 THEN 0 ELSE Depth[nodes[i].parent] + 1
    BY <1>1, <1>4 DEF IsDepth
  <1>7. ASSUME NEW i \in 1 .. N PROVE Depth[i] = dep[i]
    <2> DEFINE Apart == {j \in 1 .. N : Depth[j] # dep[j]}
    <2> SUFFICES ASSUME Apart # {} PROVE FALSE
      BY <1>7
    <2>1. Apart \in SUBSET Nat
      BY <1>1
    <2> HIDE DEF Apart
    <2>2. PICK j \in Apart : \A m \in Apart : j <= m
      BY <2>1, Least
    <2>3. j \in 1 .. N /\ Depth[j] # dep[j]
      BY <2>2 DEF Apart
    <2>4. j # 1
      BY <1>2, <1>6, <2>3
    <2>5. j > 1 /\ j \in 2 .. N
      BY <1>1, <2>3, <2>4
    <2> DEFINE m == nodes[j].parent
    <2>6. m \in 1 .. j - 1 /\ m \in 1 .. N
      BY <1>1, <2>3, <2>5
    <2>7. Depth[j] = Depth[m] + 1 /\ dep[j] = dep[m] + 1
      BY <1>2, <1>6, <2>3, <2>4, <2>5
    <2> HIDE DEF m
    <2>8. m \in Apart
      BY <2>3, <2>6, <2>7 DEF Apart
    <2> QED BY <2>1, <2>2, <2>6, <2>8
  <1> QED BY <1>5, <1>7

\* The numbers from a to b.
Stretch(a, b) == [k \in 1 .. (b - a) + 1 |-> a + k - 1]

\* They are as many as they are,
LEMMA StretchIs ==
  ASSUME NEW a \in Nat, NEW b \in Nat, a <= b + 1
  PROVE  /\ Stretch(a, b) \in Seq(Nat) /\ Len(Stretch(a, b)) = (b - a) + 1
         /\ \A k \in 1 .. (b - a) + 1 : Stretch(a, b)[k] = a + k - 1
  <1> DEFINE n == (b - a) + 1
  <1>1. n \in Nat /\ \A k \in 1 .. n : a + k - 1 \in Nat
    OBVIOUS
  <1>2. Stretch(a, b) = [k \in 1 .. n |-> a + k - 1]
    BY DEF Stretch
  <1> HIDE DEF n
  <1>3. Stretch(a, b) \in [1 .. n -> Nat]
    BY <1>1, <1>2
  <1>4. Stretch(a, b) \in Seq(Nat) /\ Len(Stretch(a, b)) = n
    BY <1>1, <1>3
  <1> QED BY <1>2, <1>4 DEF n

\* one stretch goes on where another ends,
LEMMA StretchJoins ==
  ASSUME NEW a \in Nat, NEW b \in Nat, NEW c \in Nat, a <= b + 1, b <= c
  PROVE  Stretch(a, b) \o Stretch(b + 1, c) = Stretch(a, c)
  <1> DEFINE s == Stretch(a, b)
             t == Stretch(b + 1, c)
             u == Stretch(a, c)
             m == (b - a) + 1
             n == c - b
  <1>1. m \in Nat /\ n \in Nat /\ (c - (b + 1)) + 1 = n /\ (c - a) + 1 = m + n
    OBVIOUS
  <1>2. s \in Seq(Nat) /\ Len(s) = m /\ \A k \in 1 .. m : s[k] = a + k - 1
    BY StretchIs
  <1>3. t \in Seq(Nat) /\ Len(t) = n /\ \A k \in 1 .. n : t[k] = (b + 1) + k - 1
    <2>1. b + 1 \in Nat /\ b + 1 <= c + 1
      OBVIOUS
    <2>2. /\ t \in Seq(Nat) /\ Len(t) = (c - (b + 1)) + 1
          /\ \A k \in 1 .. (c - (b + 1)) + 1 : t[k] = (b + 1) + k - 1
      BY <2>1, StretchIs
    <2> QED BY <1>1, <2>2
  <1>4. u \in Seq(Nat) /\ Len(u) = m + n /\ \A k \in 1 .. m + n : u[k] = a + k - 1
    <2>1. a <= c + 1
      OBVIOUS
    <2>2. /\ u \in Seq(Nat) /\ Len(u) = (c - a) + 1 /\ \A k \in 1 .. (c - a) + 1 : u[k] = a + k - 1
      BY <2>1, StretchIs
    <2> QED BY <1>1, <2>2
  <1> HIDE DEF s, t, u
  <1>5. /\ s \o t \in Seq(Nat) /\ Len(s \o t) = m + n
        /\ \A i \in 1 .. m + n : (s \o t)[i] = IF i <= m THEN s[i] ELSE t[i - m]
    <2> HIDE DEF m, n
    <2> QED BY <1>2, <1>3, ConcatProperties
  <1>6. ASSUME NEW i \in 1 .. m + n PROVE (s \o t)[i] = u[i]
    <2>1. CASE i <= m
      <3>1. i \in 1 .. m
        BY <1>1, <2>1
      <3> QED BY <1>2, <1>4, <1>5, <2>1, <3>1
    <2>2. CASE ~(i <= m)
      <3>1. i - m \in 1 .. n /\ (b + 1) + (i - m) - 1 = a + i - 1
        BY <1>1, <2>2
      <3>2. (s \o t)[i] = t[i - m] /\ t[i - m] = (b + 1) + (i - m) - 1
        BY <1>3, <1>5, <2>2, <3>1
      <3> QED BY <1>4, <3>1, <3>2
    <2> QED BY <2>1, <2>2
  <1> HIDE DEF m, n
  <1>7. s \o t = u
    BY <1>4, <1>5, <1>6, SeqEqual
  <1> QED BY <1>7 DEF s, t, u

\* and one number is a stretch.
LEMMA StretchOfOne ==
  ASSUME NEW a \in Nat PROVE Stretch(a, a) = <<a>>
  <1>1. (a - a) + 1 = 1 /\ a <= a + 1
    OBVIOUS
  <1>2. Stretch(a, a) \in Seq(Nat) /\ Len(Stretch(a, a)) = 1 /\ Stretch(a, a)[1] = a
    <2>1. /\ Stretch(a, a) \in Seq(Nat) /\ Len(Stretch(a, a)) = (a - a) + 1
          /\ \A k \in 1 .. (a - a) + 1 : Stretch(a, a)[k] = a + k - 1
      BY <1>1, StretchIs
    <2>2. 1 \in 1 .. (a - a) + 1 /\ a + 1 - 1 = a
      BY <1>1
    <2> QED BY <1>1, <2>1, <2>2
  <1>3. <<a>> \in Seq(Nat) /\ Len(<<a>>) = 1 /\ <<a>>[1] = a
    OBVIOUS
  <1>4. \A i \in 1 .. 1 : i = 1
    OBVIOUS
  <1> QED BY <1>2, <1>3, <1>4, SeqEqual

IsFlat(f, seqs) ==
  f = [i \in 1 .. Len(seqs) |-> IF i = 1 THEN seqs[i] ELSE f[i - 1] \o seqs[i]]

\* Many that go on where the one before ends are one.
LEMMA StretchesJoin ==
  ASSUME NEW K \in Nat \ {0}, NEW a, NEW b, NEW seqs,
         \A j \in 1 .. K : a[j] \in Nat /\ b[j] \in Nat /\ a[j] <= b[j],
         \A j \in 2 .. K : a[j] = b[j - 1] + 1,
         Len(seqs) = K, \A j \in 1 .. K : seqs[j] = Stretch(a[j], b[j])
  PROVE  FlattenSeq(seqs) = Stretch(a[1], b[K])
  <1>1. \A i \in 1 .. K : i # 1 => i \in 2 .. K /\ i - 1 \in 1 .. K /\ i - 1 < i
    OBVIOUS
  \* From the first to any of them there is one stretch.
  <1>2. ASSUME NEW i \in 1 .. K PROVE a[1] <= b[i]
    <2> DEFINE Bad == {j \in 1 .. K : ~(a[1] <= b[j])}
    <2> SUFFICES ASSUME Bad # {} PROVE FALSE
      BY <1>2
    <2>1. Bad \in SUBSET Nat
      OBVIOUS
    <2> HIDE DEF Bad
    <2>2. PICK j \in Bad : \A m \in Bad : j <= m
      BY <2>1, Least
    <2>3. j \in 1 .. K /\ ~(a[1] <= b[j])
      BY <2>2 DEF Bad
    <2>4. j # 1
      BY <2>3
    <2>5. j - 1 \in 1 .. K /\ j \in 2 .. K /\ 1 \in 1 .. K
      BY <1>1, <2>3, <2>4
    <2>6. a[1] \in Nat /\ b[j] \in Nat /\ b[j - 1] \in Nat /\ a[j] \in Nat /\ a[j] <= b[j]
          /\ a[j] = b[j - 1] + 1
      BY <2>3, <2>5
    <2>7. j - 1 \in Bad
      <3> DEFINE x == a[1]
                 y == b[j - 1]
                 z == b[j]
                 w == a[j]
      <3>1. ~(x <= z) /\ w <= z /\ w = y + 1 /\ x \in Nat /\ y \in Nat /\ z \in Nat
        BY <2>3, <2>6
      <3> HIDE DEF x, y, z, w
      <3>2. ~(x <= y)
        BY <3>1
      <3> QED BY <2>5, <3>2 DEF Bad, x, y
    <2> QED BY <2>1, <2>2, <2>3, <2>7
  <1> DEFINE h == [i \in 1 .. K |-> Stretch(a[1], b[i])]
  <1>3. ASSUME NEW i \in 1 .. K PROVE h[i] = IF i = 1 THEN seqs[i] ELSE h[i - 1] \o seqs[i]
    <2>1. CASE i = 1
      BY <2>1
    <2>2. CASE i # 1
      <3>1. i \in 2 .. K /\ i - 1 \in 1 .. K /\ 1 \in 1 .. K
        BY <1>1, <2>2
      <3>2. h[i] = Stretch(a[1], b[i]) /\ h[i - 1] = Stretch(a[1], b[i - 1])
            /\ seqs[i] = Stretch(b[i - 1] + 1, b[i])
        BY <3>1
      <3> DEFINE x == a[1]
                 y == b[i - 1]
                 z == b[i]
      <3>3. x \in Nat /\ y \in Nat /\ z \in Nat /\ x <= y + 1 /\ y <= z
        <4>1. x \in Nat /\ y \in Nat /\ z \in Nat /\ x <= y /\ a[i] = y + 1 /\ a[i] <= z
          BY <1>2, <3>1
        <4> HIDE DEF x, y, z
        <4> QED BY <4>1
      <3> HIDE DEF x, y, z
      <3>4. Stretch(x, y) \o Stretch(y + 1, z) = Stretch(x, z)
        BY <3>3, StretchJoins
      <3> HIDE DEF h
      <3> QED BY <2>2, <3>2, <3>4 DEF x, y, z
    <2> QED BY <2>1, <2>2
  <1>4. IsFlat(h, seqs)
    <2>1. h = [i \in 1 .. K |-> h[i]]
      OBVIOUS
    <2> HIDE DEF h
    <2> QED BY <1>3, <2>1 DEF IsFlat
  <1> DEFINE f == CHOOSE g : IsFlat(g, seqs)
  <1>5. IsFlat(f, seqs)
    BY <1>4
  <1>6. FlattenSeq(seqs) = f[K]
    <2>1. Len(seqs) # 0
      OBVIOUS
    <2> QED BY Zenon, <2>1 DEF FlattenSeq, IsFlat
  <1>7. h[K] = Stretch(a[1], b[K])
    OBVIOUS
  <1> HIDE DEF f, h
  <1>8. \A i \in 1 .. K : f[i] = IF i = 1 THEN seqs[i] ELSE f[i - 1] \o seqs[i]
    BY <1>5 DEF IsFlat
  <1>9. f[K] = h[K]
    <2> DEFINE Apart == {j \in 1 .. K : f[j] # h[j]}
    <2> SUFFICES ASSUME Apart # {} PROVE FALSE
      OBVIOUS
    <2>1. Apart \in SUBSET Nat
      OBVIOUS
    <2> HIDE DEF Apart
    <2>2. PICK j \in Apart : \A m \in Apart : j <= m
      BY <2>1, Least
    <2>3. j \in 1 .. K /\ f[j] # h[j]
      BY <2>2 DEF Apart
    <2>4. j # 1
      BY <1>3, <1>8, <2>3
    <2>5. j - 1 \in 1 .. K /\ j - 1 < j
      BY <1>1, <2>3, <2>4
    <2>6. f[j - 1] # h[j - 1]
      BY <1>3, <1>8, <2>3, <2>4
    <2>7. j - 1 \in Apart
      BY <2>5, <2>6 DEF Apart
    <2> QED BY <2>1, <2>2, <2>5, <2>7
  <1> QED BY <1>6, <1>7, <1>9

IsBelow(f) ==
  f = [i \in NodeNumbers |->
        <<i>> \o FlattenSeq([j \in DOMAIN nodes[i].children |-> f[nodes[i].children[j]]])]

\* What is below a node is a stretch of the nodes that begins with it,
LEMMA StretchBelow ==
  ASSUME Family(nodes), NEW path, NEW e, Spans(nodes, path, e), NEW f, NEW i \in 1 .. Len(nodes),
         \A j \in 1 .. Len(nodes) : j > i => f[j] = Stretch(j, e[j])
  PROVE  <<i>> \o FlattenSeq([j \in DOMAIN nodes[i].children |-> f[nodes[i].children[j]]])
           = Stretch(i, e[i])
  <1> DEFINE N == Len(nodes)
             kids == nodes[i].children
             K == Len(kids)
             seqs == [j \in DOMAIN kids |-> f[kids[j]]]
  <1>1. /\ N \in Nat /\ kids \in Seq(1 .. N)
        /\ \A j \in 1 .. K : kids[j] \in i + 1 .. N
    <2>1. N \in Nat /\ kids \in Seq(1 .. N)
      BY LenProperties DEF Family
    <2> QED BY <2>1 DEF Family
  <1>2. Chain(kids, i, e) /\ \A j \in 1 .. N : e[j] \in j .. N
    BY DEF Spans
  <1> HIDE DEF kids
  <1>3. K \in Nat /\ DOMAIN kids = 1 .. K
    BY <1>1, LenProperties
  <1>4. seqs = [j \in 1 .. K |-> f[kids[j]]]
    BY <1>3
  <1>5. Len(seqs) = K
    BY <1>3, <1>4
  <1> HIDE DEF N, seqs
  <1>6. i \in 1 .. N /\ i \in Nat /\ e[i] \in Nat /\ i <= e[i]
    <2>1. i \in 1 .. N
      BY DEF N
    <2> QED BY <1>1, <1>2, <2>1
  <1>7. CASE kids = << >>
    <2>1. K = 0 /\ e[i] = i
      BY <1>2, <1>7 DEF Chain
    <2>2. FlattenSeq(seqs) = << >>
      BY <1>4, <1>5, <2>1 DEF FlattenSeq
    <2>3. <<i>> \o << >> = <<i>>
      OBVIOUS
    <2>4. Stretch(i, i) = <<i>>
      BY <1>6, StretchOfOne
    <2>5. <<i>> \o FlattenSeq(seqs) = Stretch(i, e[i])
      BY <2>1, <2>2, <2>3, <2>4
    <2> QED BY <2>5 DEF seqs, kids
  <1>8. CASE kids # << >>
    <2>1. K \in Nat \ {0}
      BY <1>1, <1>8, EmptySeq
    <2>2. kids[1] = i + 1 /\ e[kids[K]] = e[i] /\ \A j \in 2 .. K : kids[j] = e[kids[j - 1]] + 1
      BY <1>8, <1>2 DEF Chain
    <2> DEFINE b == [j \in 1 .. K |-> e[kids[j]]]
    <2>3. ASSUME NEW j \in 1 .. K
          PROVE  kids[j] \in Nat /\ b[j] \in Nat /\ kids[j] <= b[j] /\ seqs[j] = Stretch(kids[j], b[j])
      <3> DEFINE x == kids[j]
      <3>1. x \in i + 1 .. N
        BY <1>1
      <3>2. seqs[j] = f[x] /\ b[j] = e[x]
        BY <1>4
      <3> HIDE DEF x, b
      <3>3. x \in 1 .. N /\ x > i /\ x \in Nat
        BY <1>1, <1>6, <3>1
      <3>4. e[x] \in x .. N
        BY <1>2, <3>3
      <3>5. f[x] = Stretch(x, e[x])
        BY <3>3 DEF N
      <3>6. e[x] \in Nat /\ x <= e[x]
        BY <3>3, <3>4
      <3> QED BY <3>2, <3>3, <3>5, <3>6 DEF x
    <2>4. \A j \in 2 .. K : kids[j] = b[j - 1] + 1
      <3>1. \A j \in 2 .. K : j - 1 \in 1 .. K
        BY <2>1
      <3> QED BY <2>2, <3>1
    <2>5. b[K] = e[i]
      <3>1. K \in 1 .. K
        BY <2>1
      <3> QED BY <2>2, <3>1
    <2> HIDE DEF b, K
    <2>6. FlattenSeq(seqs) = Stretch(kids[1], b[K])
      <3>1. \A j \in 1 .. K : kids[j] \in Nat /\ b[j] \in Nat /\ kids[j] <= b[j]
        BY <2>3
      <3>2. \A j \in 1 .. K : seqs[j] = Stretch(kids[j], b[j])
        BY <2>3
      <3> QED BY ONLY <1>5, <2>1, <2>4, <3>1, <3>2, StretchesJoin, SMTT(30)
    <2>7. Stretch(i, i) \o Stretch(i + 1, e[i]) = Stretch(i, e[i])
      <3>1. i \in Nat /\ e[i] \in Nat /\ i <= i + 1 /\ i <= e[i]
        BY <1>6
      <3> QED BY <3>1, StretchJoins
    <2>8. <<i>> \o FlattenSeq(seqs) = Stretch(i, e[i])
      BY <1>6, <2>2, <2>5, <2>6, <2>7, StretchOfOne
    <2> QED BY <2>8 DEF seqs, kids
  <1> QED BY <1>7, <1>8

\* so that below the head are all of them in their order.
LEMMA BelowIs ==
  ASSUME Family(nodes), NEW path, NEW e, Spans(nodes, path, e), On(path, 1)
  PROVE  Below[1] = Stretch(1, Len(nodes))
  <1> DEFINE N == Len(nodes)
             h == [i \in 1 .. N |-> Stretch(i, e[i])]
  <1>1. N \in Nat \ {0} /\ NodeNumbers = 1 .. N
    BY LenProperties DEF Family, NodeNumbers
  <1>2. e[1] = N
    BY <1>1 DEF Spans
  <1>3. \A i \in 1 .. N : h[i] = Stretch(i, e[i])
    OBVIOUS
  <1>4. h = [i \in 1 .. N |-> h[i]]
    OBVIOUS
  <1> HIDE DEF N, h
  <1>5. IsBelow(h)
    <2>1. ASSUME NEW i \in 1 .. N
          PROVE  h[i] = <<i>> \o FlattenSeq([j \in DOMAIN nodes[i].children |->
                                               h[nodes[i].children[j]]])
      <3>1. \A j \in 1 .. Len(nodes) : j > i => h[j] = Stretch(j, e[j])
        BY <1>3 DEF N
      <3>2. i \in 1 .. Len(nodes)
        BY DEF N
      <3>3. <<i>> \o FlattenSeq([j \in DOMAIN nodes[i].children |-> h[nodes[i].children[j]]])
              = Stretch(i, e[i])
        BY <3>1, <3>2, StretchBelow
      <3> QED BY <1>3, <3>3
    <2> QED BY <1>1, <1>4, <2>1, Zenon DEF IsBelow
  <1> DEFINE f == CHOOSE g : IsBelow(g)
  <1>6. IsBelow(f)
    BY <1>5
  <1>7. Below = f
    BY Zenon DEF Below, IsBelow
  <1> HIDE DEF f
  <1>8. ASSUME NEW i \in 1 .. N
        PROVE  f[i] = <<i>> \o FlattenSeq([j \in DOMAIN nodes[i].children |->
                                             f[nodes[i].children[j]]])
    BY <1>1, <1>6 DEF IsBelow
  <1>9. f[1] = Stretch(1, e[1])
    <2> DEFINE Apart == {m \in 0 .. N - 1 : f[N - m] # Stretch(N - m, e[N - m])}
    <2> SUFFICES ASSUME Apart # {} PROVE FALSE
      <3>1. N - 1 \in 0 .. N - 1 /\ N - (N - 1) = 1
        BY <1>1
      <3> QED BY <3>1
    <2>1. Apart \in SUBSET Nat
      BY <1>1
    <2> HIDE DEF Apart
    <2>2. PICK m \in Apart : \A l \in Apart : m <= l
      BY <2>1, Least
    <2> DEFINE i == N - m
    <2>3. m \in 0 .. N - 1 /\ f[i] # Stretch(i, e[i])
      BY <2>2 DEF Apart
    <2>4. i \in 1 .. N
      BY <1>1, <2>3
    <2>5. ASSUME NEW j \in 1 .. N, j > i PROVE f[j] = Stretch(j, e[j])
      <3>1. N - j \in 0 .. N - 1 /\ N - (N - j) = j /\ N - j < m
        BY <1>1, <2>3, <2>5
      <3>2. N - j \notin Apart
        BY <2>1, <2>2, <3>1
      <3> QED BY <3>1, <3>2 DEF Apart
    <2> HIDE DEF i
    <2>6. <<i>> \o FlattenSeq([j \in DOMAIN nodes[i].children |-> f[nodes[i].children[j]]])
            = Stretch(i, e[i])
      <3>1. i \in 1 .. Len(nodes) /\ \A j \in 1 .. Len(nodes) : j > i => f[j] = Stretch(j, e[j])
        BY <2>4, <2>5 DEF N
      <3> QED BY <3>1, StretchBelow
    <2> QED BY <1>8, <2>3, <2>4, <2>6
  <1> QED BY <1>2, <1>7, <1>9 DEF N

\* The outline is that of the tree that was read.
LEMMA OutlineIs ==
  ASSUME Family(nodes), NEW r, NEW cur, Fits(r, nodes, cur) PROVE Outline = r.out
  <1>1. PICK dep, path, e :
          /\ Deep(nodes, dep) /\ Leads(nodes, path, cur, dep) /\ Spans(nodes, path, e)
          /\ r = [out |-> Rows(nodes, dep), open |-> OpenAt(nodes, path)]
    BY DEF Fits
  <1> DEFINE N == Len(nodes)
             order == Tail(Below[1])
  <1>2. N \in Nat \ {0}
    BY LenProperties DEF Family
  <1>3. On(path, 1)
    <2>1. 1 \in 1 .. Len(path) /\ path[1] = 1
      BY <1>1, LenProperties DEF Leads
    <2> QED BY <2>1 DEF On
  <1>4. Below[1] = Stretch(1, N)
    BY <1>1, <1>3, BelowIs
  <1>5. /\ Stretch(1, N) \in Seq(Nat) /\ Len(Stretch(1, N)) = N
        /\ \A k \in 1 .. N : Stretch(1, N)[k] = k
    <2>1. 1 \in Nat /\ N \in Nat /\ 1 <= N + 1 /\ (N - 1) + 1 = N
      BY <1>2
    <2>2. \A k \in 1 .. N : 1 + k - 1 = k
      OBVIOUS
    <2> HIDE DEF N
    <2>3. /\ Stretch(1, N) \in Seq(Nat) /\ Len(Stretch(1, N)) = (N - 1) + 1
          /\ \A k \in 1 .. (N - 1) + 1 : Stretch(1, N)[k] = 1 + k - 1
      BY <2>1, StretchIs
    <2> QED BY <2>1, <2>2, <2>3
  <1> HIDE DEF N, order
  <1>6. DOMAIN order = 1 .. N - 1 /\ \A j \in 1 .. N - 1 : order[j] = j + 1
    <2>1. Stretch(1, N) # << >>
      BY <1>2, <1>5
    <2>2. order \in Seq(Nat) /\ Len(order) = N - 1
          /\ \A j \in 1 .. N - 1 : order[j] = Stretch(1, N)[j + 1]
      BY <1>4, <1>5, <2>1, HeadTailProperties DEF order
    <2>3. \A j \in 1 .. N - 1 : j + 1 \in 1 .. N
      BY <1>2
    <2> QED BY <1>5, <2>2, <2>3, LenProperties
  <1>7. Depth = dep
    BY <1>1, DepthIs
  <1>8. Outline = [j \in DOMAIN order |-> RowOf(nodes[order[j]], Depth[order[j]])]
    BY Zenon DEF Outline, order, RowOf
  <1>9. r.out = [j \in 1 .. N - 1 |-> RowOf(nodes[j + 1], dep[j + 1])]
    BY <1>1 DEF Rows, N
  <1> QED BY <1>6, <1>7, <1>8, <1>9

\* Whatever the text of a cue: when webvtt_parse_cuetext returns, the tree it has built
\* is the one that the text, read as markup, describes - the same nodes, at the same
\* depths and in the same order, with the same languages, annotations, classes and
\* text.  Excepted are the three kinds of text that CueMarkup names.
THEOREM TreeIsExact == Spec => []TreeExact
  <1>1. Init => LangInv /\ Follows
    BY InitLangs, InitFollows
  <1>2. IInv /\ LangInv /\ Follows /\ [Next]_vars => LangInv' /\ Follows'
    BY LangsKeep, NextFollows
  <1>3. IInv /\ LangInv /\ Follows => TreeExact
    <2> SUFFICES ASSUME IInv, Follows, Done, ~HasUnknownLetter(text), ~HasSpaceAfterClass(text),
                        ~HasOmittedEnd(text)
                 PROVE  Outline = MarkupOf(text)
      BY DEF TreeExact
    <2>1. Gathers /\ (Odd(Taken) \/ Fits(SoFar, nodes, current)) /\ text \in Seq(TextSymbols)
      BY DEF Follows, IInv, TypeOK
    <2>2. Taken = Pieces(text)
      BY DEF Done, Taken, Busy, Here, Pieces
    <2>3. Fits(SoFar, nodes, current)
      BY <2>1, <2>2, OddIsNamed
    <2>4. MarkupOf(text) = SoFar.out
      BY <2>2 DEF MarkupOf, SoFar
    <2> QED BY <2>3, <2>4, NodesAreFamily, OutlineIs
  <1> QED BY <1>1, <1>2, <1>3, Invariant, PTL DEF Spec

=============================================================================
