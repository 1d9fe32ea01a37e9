---------------------------- MODULE StringsProofs ----------------------------
(***************************************************************************)
(* Proofs about Strings, for any number of handles and buffers and any     *)
(* texts: every buffer counts exactly the handles that have it, the static *)
(* empty string is never written to, and handles that are detached before  *)
(* they are written to behave as values of their own.                      *)
(***************************************************************************)
EXTENDS Strings, FiniteSetTheorems, SequenceTheorems, WellFoundedInduction, TLAPS

Texts == Seq(Bytes)

Shape == /\ d \in [Handles -> Blocks \cup {Null}]
         /\ refs \in [Blocks -> Nat]
         /\ alloc = [b \in Blocks |-> alloc[b]]
         /\ text \in [Blocks -> Texts]

IInv == Shape /\ RefsExact /\ EmptyIsEmpty

\* The values of the handles, as StringValues sees them.
value == [h \in Handles |-> IF d[h] = Null THEN Null ELSE text[d[h]]]

-----------------------------------------------------------------------------
(* Texts.                                                                  *)

\* No text is the value of a handle without a string.
LEMMA NoTextIsNull == \A t \in Texts : t # Null
  BY NullAssumption DEF Texts

\* The empty text is a text.
LEMMA EmptyText == << >> \in Texts /\ Len(<< >>) = 0
  BY DEF Texts

\* What a handle holds is a text.
LEMMA TextOfIsText ==
  ASSUME IInv, NEW h \in Handles
  PROVE  /\ TextOf(h) \in Texts /\ Length(h) \in Nat
         /\ d[h] # Null => TextOf(h) = text[d[h]]
  BY EmptyText, BlocksAssumption DEF IInv, Shape, TextOf, Length, Texts

\* Texts can be put one after the other, and be put in place of another.
LEMMA TextsJoin ==
  ASSUME NEW s \in Texts, NEW t \in Texts
  PROVE  s \o t \in Texts
  BY DEF Texts

\* What is written is a text, and not the empty one.
LEMMA PiecesAreTexts == \A s \in Pieces : s \in Texts /\ Len(s) \in Nat /\ Len(s) > 0
  <1> SUFFICES ASSUME NEW s \in Pieces PROVE s \in Texts /\ Len(s) \in Nat /\ Len(s) > 0
    OBVIOUS
  <1>1. s \in Seq(Bytes) /\ s # << >>
    BY PiecesAssumption
  <1> QED BY <1>1, EmptySeq DEF Texts

\* A text with a piece replaced is a text.
LEMMA WithIsText ==
  ASSUME NEW t \in Texts, NEW s \in Pieces, NEW r \in Pieces, NEW i \in 1 .. Len(t)
  PROVE  Values!With(t, s, r, i) \in Texts
  <1>1. t \in Seq(Bytes) /\ r \in Seq(Bytes) /\ s \in Seq(Bytes)
    BY PiecesAreTexts DEF Texts
  <1>2. Len(t) \in Nat /\ Len(s) \in Nat /\ i - 1 \in Int /\ i + Len(s) \in Int /\ 1 \in Int
    BY <1>1
  <1>3. \A j \in 1 .. i - 1 : t[j] \in Bytes
    BY <1>1, <1>2
  <1>4. \A j \in i + Len(s) .. Len(t) : t[j] \in Bytes
    BY <1>1, <1>2
  <1>5. SubSeq(t, 1, i - 1) \in Seq(Bytes)
    BY <1>2, <1>3, SubSeqProperties
  <1>6. SubSeq(t, i + Len(s), Len(t)) \in Seq(Bytes)
    BY <1>2, <1>4, SubSeqProperties
  <1> QED BY <1>1, <1>5, <1>6, TextsJoin DEF Values!With, Texts

-----------------------------------------------------------------------------
(* Handles and the references to their buffers.                            *)

\* A buffer has finitely many holders.
LEMMA HoldersFinite ==
  ASSUME NEW b \in Blocks
  PROVE  IsFiniteSet(Holders(b)) /\ Cardinality(Holders(b)) \in Nat
  <1>1. Holders(b) \subseteq Handles
    BY DEF Holders
  <1>2. IsFiniteSet(Holders(b))
    BY <1>1, BlocksAssumption, FS_Subset
  <1> QED BY <1>2, FS_CardinalityType

\* The handles that have b in d or in what becomes of d.
HoldersIn(f, b) == {h \in Handles : f[h] = b}

\* When h changes from one buffer to another, the one loses a holder and the
\* other gets one.
LEMMA HoldersChange ==
  ASSUME NEW f \in [Handles -> Blocks \cup {Null}], NEW h \in Handles,
         NEW v \in Blocks \cup {Null}, NEW b \in Blocks
  PROVE  /\ Cardinality(HoldersIn(f, b)) \in Nat
         /\ Cardinality(HoldersIn([f EXCEPT ![h] = v], b)) =
              Cardinality(HoldersIn(f, b))
                - (IF f[h] = b THEN 1 ELSE 0) + (IF v = b THEN 1 ELSE 0)
  <1> DEFINE others == HoldersIn(f, b) \ {h}
  <1>1. HoldersIn(f, b) \subseteq Handles
    BY DEF HoldersIn
  <1>2. IsFiniteSet(HoldersIn(f, b)) /\ IsFiniteSet(others) /\ h \notin others
    BY <1>1, BlocksAssumption, FS_Subset
  <1>3. Cardinality(others) \in Nat /\ Cardinality(HoldersIn(f, b)) \in Nat
    BY <1>2, FS_CardinalityType
  <1>4. Cardinality(others \cup {h}) = Cardinality(others) + 1
    BY <1>2, FS_AddElement
  <1>5. HoldersIn(f, b) = IF f[h] = b THEN others \cup {h} ELSE others
    BY DEF HoldersIn
  <1>6. HoldersIn([f EXCEPT ![h] = v], b) = IF v = b THEN others \cup {h} ELSE others
    BY DEF HoldersIn
  <1> HIDE DEF others
  <1> QED BY <1>3, <1>4, <1>5, <1>6

\* h changes to v, and every reference with it.
Recounted(h, v) ==
  /\ d' = [d EXCEPT ![h] = v]
  /\ \A b \in Blocks : refs'[b] = refs[b] - (IF d[h] = b THEN 1 ELSE 0)
                                          + (IF v = b THEN 1 ELSE 0)

\* The references are exact if each changes with the holders of its buffer.
LEMMA RefsChange ==
  ASSUME Shape, RefsExact, NEW h \in Handles, NEW v \in Blocks \cup {Null}, Recounted(h, v)
  PROVE  RefsExact'
  <1> SUFFICES ASSUME NEW b \in Blocks
               PROVE  refs'[b] = Cardinality(HoldersIn(d', b)) + (IF b = Empty THEN 1 ELSE 0)
    BY DEF RefsExact, Holders, HoldersIn
  <1>1. refs[b] = Cardinality(HoldersIn(d, b)) + (IF b = Empty THEN 1 ELSE 0)
    BY DEF RefsExact, Holders, HoldersIn
  <1>2. /\ Cardinality(HoldersIn(d, b)) \in Nat
        /\ Cardinality(HoldersIn(d', b)) = Cardinality(HoldersIn(d, b))
             - (IF d[h] = b THEN 1 ELSE 0) + (IF v = b THEN 1 ELSE 0)
    <2>1. d \in [Handles -> Blocks \cup {Null}] /\ d' = [d EXCEPT ![h] = v]
      BY DEF Shape, Recounted
    <2> QED BY ZenonT(30), <2>1, HoldersChange
  <1>3. refs'[b] = refs[b] - (IF d[h] = b THEN 1 ELSE 0) + (IF v = b THEN 1 ELSE 0)
    BY DEF Recounted
  <1> QED BY <1>1, <1>2, <1>3

\* The empty string is always counted.
LEMMA EmptyIsCounted ==
  ASSUME RefsExact', d' \in [Handles -> Blocks \cup {Null}]
  PROVE  refs'[Empty] # 0
  <1>1. HoldersIn(d', Empty) \subseteq Handles
    BY DEF HoldersIn
  <1>2. Cardinality(HoldersIn(d', Empty)) \in Nat
    BY <1>1, BlocksAssumption, FS_Subset, FS_CardinalityType
  <1>3. refs'[Empty] = Cardinality(HoldersIn(d', Empty)) + 1
    BY DEF RefsExact, Holders, HoldersIn, Blocks
  <1> QED BY <1>2, <1>3

\* A block that a handle has is counted at least once.
LEMMA HeldIsCounted ==
  ASSUME RefsExact, refs \in [Blocks -> Nat], NEW h \in Handles, d[h] \in Blocks
  PROVE  refs[d[h]] > 0
  <1>1. h \in Holders(d[h])
    BY DEF Holders
  <1>2. IsFiniteSet(Holders(d[h])) /\ Cardinality(Holders(d[h])) \in Nat
    BY HoldersFinite
  <1>3. Cardinality(Holders(d[h])) # 0
    BY <1>1, <1>2, FS_EmptySet
  <1> QED BY <1>2, <1>3 DEF RefsExact

\* A block counted once is held by nobody else.
LEMMA UnsharedIsAlone ==
  ASSUME IInv, NEW h \in Handles, NEW g \in Handles, d[h] \in Blocks, ~Shared(h), d[g] = d[h]
  PROVE  g = h
  <1>1. IsFiniteSet(Holders(d[h])) /\ Cardinality(Holders(d[h])) \in Nat
    BY HoldersFinite
  <1>2. refs[d[h]] = 1
    BY DEF Shared
  <1>3. Cardinality(Holders(d[h])) <= 1
    BY <1>1, <1>2 DEF IInv, RefsExact
  <1>4. h \in Holders(d[h]) /\ g \in Holders(d[h])
    BY DEF Holders
  <1>5. Holders(d[h]) # {}
    BY <1>4
  <1>6. Cardinality(Holders(d[h])) = 1
    BY <1>1, <1>3, <1>5, FS_EmptySet
  <1>7. \E x : Holders(d[h]) = {x}
    BY <1>1, <1>6, FS_Singleton
  <1> QED BY <1>4, <1>7

-----------------------------------------------------------------------------
(* What the steps are made of: each keeps the invariant, and changes the   *)
(* value of one handle at most.                                            *)

\* Moving to a new block.
LEMMA MovedKeeps ==
  ASSUME IInv, NEW h \in Handles, NEW b \in Buffers, Free(b), NEW cap, NEW t \in Texts,
         Moved(h, b, cap, t)
  PROVE  IInv' /\ value' = [value EXCEPT ![h] = t]
  <1> USE BlocksAssumption DEF Blocks
  <1>1. d' = [d EXCEPT ![h] = b] /\ refs[b] = 0 /\ b # Null /\ b # Empty
    BY DEF Moved, Free
  <1>2. \A g \in Handles : d[g] # b
    BY <1>1, HeldIsCounted DEF IInv, Shape
  <1>3. \A c \in Blocks : d[h] = c => refs[c] > 0
    BY HeldIsCounted DEF IInv, Shape
  <1>4. refs' \in [Blocks -> Nat]
    BY <1>1, <1>2, <1>3 DEF Moved, Dropped, IInv, Shape
  <1>5. \A c \in Blocks :
          refs'[c] = IF c = b THEN 1 ELSE refs[c] - (IF d[h] = c THEN 1 ELSE 0)
    BY <1>1, <1>3 DEF Moved, Dropped, IInv, Shape
  <1>6. RefsExact'
    <2>1. Recounted(h, b)
      BY <1>1, <1>2, <1>5 DEF Recounted, IInv, Shape
    <2> QED BY <1>1, <2>1, RefsChange DEF IInv
  <1>7. refs'[Empty] # 0
    BY <1>1, <1>6, EmptyIsCounted DEF IInv, Shape
  <1>8. /\ text' \in [Blocks -> Texts] /\ alloc' = [c \in Blocks |-> alloc'[c]]
        /\ \A c \in Blocks : refs'[c] # 0 => /\ text'[c] = IF c = b THEN t ELSE text[c]
                                             /\ c # b => alloc'[c] = alloc[c]
    BY EmptyText DEF Moved, Kept, IInv, Shape
  <1>9. d' \in [Handles -> Blocks \cup {Null}]
    BY <1>1 DEF IInv, Shape
  <1>10. IInv'
    BY <1>1, <1>4, <1>6, <1>7, <1>8, <1>9 DEF IInv, Shape, EmptyIsEmpty
  <1>11. \A g \in Handles : g # h /\ d[g] # Null => text'[d'[g]] = text[d[g]]
    <2> SUFFICES ASSUME NEW g \in Handles, g # h, d[g] # Null
                 PROVE  text'[d'[g]] = text[d[g]]
      OBVIOUS
    <2>1. d'[g] = d[g] /\ d[g] \in Blocks /\ d[g] # b
      BY <1>1, <1>2 DEF IInv, Shape
    <2>2. refs'[d'[g]] > 0
      <3>1. refs[d[g]] > 0
        BY <2>1, HeldIsCounted DEF IInv, Shape
      <3>2. CASE d[g] # d[h]
        BY <1>5, <2>1, <3>1, <3>2 DEF IInv, Shape
      <3>3. CASE d[g] = d[h] /\ refs[d[g]] > 1
        BY <1>5, <2>1, <3>3 DEF IInv, Shape
      <3>4. CASE d[g] = d[h] /\ refs[d[g]] = 1
        BY <2>1, <3>4, UnsharedIsAlone DEF Shared
      <3> QED BY <2>1, <3>1, <3>2, <3>3, <3>4 DEF IInv, Shape
    <2> QED BY <1>8, <2>1, <2>2
  <1>12. d'[h] = b /\ text'[b] = t
    <2>1. d'[h] = b
      BY <1>1 DEF IInv, Shape
    <2>2. refs'[b] # 0
      BY <1>5
    <2> QED BY <1>8, <2>1, <2>2
  <1>13. \A g \in Handles : g # h => d'[g] = d[g]
    BY <1>1 DEF IInv, Shape
  <1>14. value' = [value EXCEPT ![h] = t]
    <2>1. \A g \in Handles : (IF d'[g] = Null THEN Null ELSE text'[d'[g]]) =
            IF g = h THEN t ELSE IF d[g] = Null THEN Null ELSE text[d[g]]
      BY <1>1, <1>11, <1>12, <1>13
    <2> QED BY <2>1 DEF value
  <1> QED BY <1>10, <1>14

\* Moving to whichever block is free.
LEMMA MovedToNewKeeps ==
  ASSUME IInv, NEW h \in Handles, NEW cap, NEW t \in Texts, MovedToNew(h, cap, t)
  PROVE  IInv' /\ value' = [value EXCEPT ![h] = t]
  BY MovedKeeps DEF MovedToNew

\* Writing in place: no other value changes if nobody else has the block.
LEMMA InPlaceKeeps ==
  ASSUME IInv, NEW h \in Handles, NEW t \in Texts, d[h] # Null, d[h] # Empty, InPlace(h, t)
  PROVE  IInv' /\ (~Shared(h) => value' = [value EXCEPT ![h] = t])
  <1>1. d[h] \in Blocks
    BY DEF IInv, Shape
  <1>2. IInv'
    <2>1. Shape'
      BY <1>1 DEF InPlace, IInv, Shape
    <2>2. RefsExact'
      BY DEF InPlace, IInv, RefsExact, Holders
    <2>3. EmptyIsEmpty'
      BY <1>1 DEF InPlace, IInv, Shape, EmptyIsEmpty, Blocks
    <2> QED BY <2>1, <2>2, <2>3 DEF IInv
  <1>3. ~Shared(h) => \A g \in Handles : g # h => d[g] # d[h]
    BY <1>1, UnsharedIsAlone
  <1>4. ~Shared(h) => value' = [value EXCEPT ![h] = t]
    BY <1>1, <1>3 DEF value, InPlace, IInv, Shape
  <1> QED BY <1>2, <1>4

\* Nothing happens.
LEMMA NothingKeeps ==
  ASSUME IInv, UNCHANGED vars
  PROVE  IInv' /\ UNCHANGED value
  BY DEF vars, value, IInv, Shape, RefsExact, Holders, EmptyIsEmpty

\* The empty string has no room.
LEMMA EmptyHasNoRoom ==
  ASSUME IInv, NEW h \in Handles, d[h] = Empty, NEW need \in Nat, need > 0
  PROVE  ~Room(h, need)
  <1>1. alloc[d[h]] = 0 /\ Length(h) = 0
    BY EmptyText, BlocksAssumption DEF IInv, EmptyIsEmpty, TextOf, Length, Blocks
  <1> QED BY <1>1 DEF Room

\* Growing a string and writing to it.
LEMMA WriteKeeps ==
  ASSUME IInv, NEW h \in Handles, NEW need \in Nat, need > 0, NEW t \in Texts, d[h] # Null,
         Write(h, need, t)
  PROVE  IInv' /\ (~Shared(h) \/ d[h] = Empty => value' = [value EXCEPT ![h] = t] \/ UNCHANGED value)
  <1>1. CASE Room(h, need) /\ InPlace(h, t)
    BY <1>1, EmptyHasNoRoom, InPlaceKeeps
  <1>2. CASE MovedToNew(h, Capacity(h, need), t)
    BY <1>2, MovedToNewKeeps
  <1>3. CASE UNCHANGED vars
    BY <1>3, NothingKeeps
  <1> QED BY <1>1, <1>2, <1>3 DEF Write

\* A handle without a buffer gets one that others have.
LEMMA SharingKeeps ==
  ASSUME IInv, NEW h \in Handles, NEW b \in Blocks, Shares(h, b)
  PROVE  d[h] = Null /\ IInv' /\ value' = [value EXCEPT ![h] = text[b]]
  <1> USE BlocksAssumption DEF Shares, Counted
  <1>1. Shape'
    BY DEF IInv, Shape
  <1>2. RefsExact'
    <2>1. Recounted(h, b)
      BY DEF Recounted, IInv, Shape
    <2> QED BY <2>1, RefsChange DEF IInv
  <1>3. EmptyIsEmpty'
    BY DEF IInv, EmptyIsEmpty
  <1>4. value' = [value EXCEPT ![h] = text[b]]
    BY DEF value, IInv, Shape
  <1> QED BY <1>1, <1>2, <1>3, <1>4 DEF IInv

-----------------------------------------------------------------------------
(* The functions.  Whatever the callers do, each keeps the invariant; if   *)
(* they detach what they write to, each is a step of StringValues.         *)

Step == IInv' /\ (Detaches => Values!Next \/ UNCHANGED value)

\* The value of a handle is its text.
LEMMA ValueIsText ==
  ASSUME IInv, NEW h \in Handles
  PROVE  /\ Values!Text(h) = TextOf(h) /\ (value[h] = Null <=> d[h] = Null)
         /\ d[h] # Null => value[h] = TextOf(h)
  <1>1. d[h] # Null => text[d[h]] \in Texts
    BY DEF IInv, Shape
  <1>2. d[h] # Null => text[d[h]] # Null
    BY <1>1, NoTextIsNull
  <1> QED BY <1>1, <1>2 DEF Values!Text, TextOf, value

\* A handle that gets its first text begins.
LEMMA BeginIsStep ==
  ASSUME IInv, NEW h \in Handles, d[h] = Null, NEW s \in Pieces \cup {<< >>}, IInv',
         value' = [value EXCEPT ![h] = s]
  PROVE  Step
  <1>1. value[h] = Null
    BY DEF value
  <1> QED BY <1>1 DEF Step, Values!Next, Values!Begin, Values!Is, Values!Written, value

\* A handle that gets more of a text is extended.
LEMMA ExtendIsStep ==
  ASSUME IInv, NEW h \in Handles, NEW s \in Values!Written, IInv',
         Detaches => value' = [value EXCEPT ![h] = TextOf(h) \o s] \/ UNCHANGED value
  PROVE  Step
  <1>1. Values!Text(h) = TextOf(h)
    BY ValueIsText
  <1>2. value' = [value EXCEPT ![h] = TextOf(h) \o s] => Values!Extend(h)
    BY <1>1 DEF Values!Extend, Values!Is, value
  <1> QED BY <1>2 DEF Step, Values!Next

\* The value of the handle stays as it is.
LEMMA SameIsStep ==
  ASSUME IInv, NEW h \in Handles, d[h] # Null, IInv', value' = [value EXCEPT ![h] = TextOf(h)]
  PROVE  Step
  <1>1. value' = [value EXCEPT ![h] = TextOf(h)]
    OBVIOUS
  <1>2. value[h] = TextOf(h)
    BY ValueIsText
  <1>3. value' = value
    BY <1>1, <1>2 DEF value
  <1> QED BY <1>3 DEF Step

\* Becoming the empty string.
LEMMA InitStringStep == \A h \in Handles : IInv /\ InitString(h) => Step
  <1> SUFFICES ASSUME NEW h \in Handles, IInv, InitString(h) PROVE Step
    OBVIOUS
  <1>1. IInv' /\ value' = [value EXCEPT ![h] = text[Empty]]
    <2>1. Empty \in Blocks
      BY DEF Blocks
    <2> QED BY <2>1, SharingKeeps DEF InitString, Shares
  <1>2. d[h] = Null /\ text[Empty] = << >>
    BY DEF InitString, Shares, IInv, EmptyIsEmpty
  <1> QED BY <1>1, <1>2, BeginIsStep

\* A new buffer.
LEMMA CreateStringStep == \A h \in Handles : IInv /\ CreateString(h) => Step
  BY MovedToNewKeeps, EmptyText, BeginIsStep DEF CreateString

\* A new buffer with a text in it.
LEMMA CreateStringWithTextStep == \A h \in Handles : IInv /\ CreateStringWithText(h) => Step
  BY MovedToNewKeeps, PiecesAreTexts, BeginIsStep, InitStringStep DEF CreateStringWithText

\* Sharing the buffer of another handle.
LEMMA CopyStringStep == \A h, g \in Handles : IInv /\ CopyString(h, g) => Step
  <1> SUFFICES ASSUME NEW h \in Handles, NEW g \in Handles, IInv, CopyString(h, g) PROVE Step
    OBVIOUS
  <1> DEFINE b == IF d[g] = Null THEN Empty ELSE d[g]
  <1>1. b \in Blocks /\ (b = Empty \/ refs[b] > 0)
    BY HeldIsCounted DEF IInv, Shape, Blocks
  <1>2. IInv' /\ value' = [value EXCEPT ![h] = text[b]]
    BY <1>1, SharingKeeps DEF CopyString, Shares
  <1>3. text[b] = TextOf(g)
    BY DEF TextOf, IInv, EmptyIsEmpty
  <1>4. value[h] = Null /\ Values!Text(g) = TextOf(g)
    BY ValueIsText DEF CopyString, Shares
  <1> HIDE DEF b
  <1>5. Values!Share(h, g)
    BY <1>2, <1>3, <1>4 DEF Values!Share, Values!Is, value
  <1> QED BY <1>2, <1>5 DEF Step, Values!Next

\* Letting go of a buffer: if nobody else has it, it is free.
LEMMA ReleaseStringStep == \A h \in Handles : IInv /\ ReleaseString(h) => Step
  <1> SUFFICES ASSUME NEW h \in Handles, IInv, ReleaseString(h) PROVE Step
    OBVIOUS
  <1> USE BlocksAssumption
  <1>1. d' = [d EXCEPT ![h] = Null] /\ d[h] \in Blocks /\ refs[d[h]] > 0
    BY HeldIsCounted DEF ReleaseString, IInv, Shape
  <1>2. /\ refs' \in [Blocks -> Nat]
        /\ \A c \in Blocks : refs'[c] = refs[c] - (IF d[h] = c THEN 1 ELSE 0)
    BY <1>1 DEF ReleaseString, Dropped, IInv, Shape
  <1>3. RefsExact'
    <2>1. Recounted(h, Null)
      BY <1>1, <1>2 DEF Recounted, IInv, Shape
    <2> QED BY <1>1, <2>1, RefsChange DEF IInv
  <1>4. /\ text' \in [Blocks -> Texts] /\ alloc' = [c \in Blocks |-> alloc'[c]]
        /\ \A c \in Blocks : refs'[c] # 0 => text'[c] = text[c] /\ alloc'[c] = alloc[c]
    BY <1>2, EmptyText DEF ReleaseString, Kept, IInv, Shape
  <1>5. d' \in [Handles -> Blocks \cup {Null}]
    BY <1>1 DEF IInv, Shape
  <1>6. refs' = [c \in Blocks |-> refs'[c]]
    BY <1>2
  <1>7. \A g \in Handles : d'[g] \in Blocks => refs'[d'[g]] > 0
    <2> SUFFICES ASSUME NEW g \in Handles, d'[g] \in Blocks PROVE refs'[d'[g]] > 0
      OBVIOUS
    <2>1. g # h /\ d'[g] = d[g]
      BY <1>1, <1>5 DEF IInv, Shape
    <2>2. refs[d[g]] > 0 /\ refs[d[g]] \in Nat
      BY <2>1, HeldIsCounted DEF IInv, Shape
    <2>3. d[g] = d[h] => refs[d[g]] # 1
      BY <1>1, <2>1, UnsharedIsAlone DEF Shared
    <2> QED BY <1>2, <2>1, <2>2, <2>3
  <1>8. refs'[Empty] # 0
    BY <1>3, <1>5, EmptyIsCounted
  <1>9. IInv'
    BY <1>2, <1>3, <1>4, <1>5, <1>8 DEF IInv, Shape, EmptyIsEmpty, Blocks
  <1>10. \A g \in Handles : /\ g # h => d'[g] = d[g]
                            /\ d'[g] # Null => text'[d'[g]] = text[d'[g]]
    BY <1>1, <1>4, <1>5, <1>7 DEF IInv, Shape
  <1>11. value' = [value EXCEPT ![h] = Null]
    BY <1>1, <1>10 DEF value, IInv, Shape
  <1> QED BY <1>9, <1>11 DEF Step, Values!Next, Values!Drop, Values!Is, value

\* The value of the handle stays as it is, when it detaches.
LEMMA DetachStep == \A h \in Handles : IInv /\ Detach(h) => Step
  BY TextOfIsText, MovedToNewKeeps, SameIsStep DEF Detach

\* One more character, and no more than one.
LEMMA PutCStep == \A h \in Handles : IInv /\ PutC(h) => Step
  <1> SUFFICES ASSUME NEW h \in Handles, IInv, PutC(h) PROVE Step
    OBVIOUS
  <1>1. PICK c \in Bytes :
          LET t == Append(TextOf(h), c)
          IN  \/ ~Shared(h) /\ Write(h, 1, t)
              \/ Shared(h) /\ MovedToNew(h, IF Room(h, 1) THEN alloc[d[h]] ELSE Capacity(h, 1), t)
              \/ Shared(h) /\ ~Room(h, 1) /\ Refuses /\ MovedToNew(h, alloc[d[h]], TextOf(h))
    BY DEF PutC
  <1>2. d[h] # Null /\ TextOf(h) \in Texts
    BY TextOfIsText DEF PutC
  <1> DEFINE t == Append(TextOf(h), c)
  <1>3. t \in Texts /\ t = TextOf(h) \o <<c>>
    BY <1>2 DEF Texts
  <1>4. <<c>> \in Values!Written
    BY DEF Values!Written, Values!Bytes, Bytes
  <1>5. CASE ~Shared(h) /\ Write(h, 1, t)
    <2> DEFINE need == 1
    <2>1. need \in Nat /\ need > 0 /\ Write(h, need, t)
      BY <1>5
    <2> HIDE DEF t, need
    <2>2. IInv' /\ (value' = [value EXCEPT ![h] = t] \/ UNCHANGED value)
      BY <1>2, <1>3, <1>5, <2>1, WriteKeeps
    <2> QED BY <1>3, <1>4, <2>2, ExtendIsStep
  <1>6. CASE \E cap : MovedToNew(h, cap, t)
    BY ZenonT(30), <1>3, <1>4, <1>6, MovedToNewKeeps, ExtendIsStep
  <1>7. CASE MovedToNew(h, alloc[d[h]], TextOf(h))
    BY <1>2, <1>7, MovedToNewKeeps, SameIsStep
  <1> QED BY <1>1, <1>5, <1>6, <1>7

\* Appending a text: to no string it begins one, to a string it extends it.
LEMMA AppendToKeeps ==
  ASSUME IInv, NEW h \in Handles, NEW s \in Texts, AppendTo(h, s)
  PROVE  \/ Step /\ InitString(h)
         \/ IInv' /\ (Detaches => value' = [value EXCEPT ![h] = TextOf(h) \o s] \/ UNCHANGED value)
  <1>1. CASE d[h] = Null /\ InitString(h)
    BY <1>1, InitStringStep
  <1>2. CASE d[h] = Null /\ MovedToNew(h, NewSize(Header + Len(s)) - Header, s)
    <2>1. TextOf(h) \o s = s
      BY <1>2 DEF TextOf, Texts
    <2> QED BY <1>2, <2>1, MovedToNewKeeps
  <1>3. CASE /\ d[h] # Null /\ s # << >> /\ MayWrite(h)
             /\ Write(h, Length(h) + Len(s), TextOf(h) \o s)
    <2>1. TextOf(h) \in Texts /\ Length(h) \in Nat
      BY TextOfIsText
    <2>2. Len(s) \in Nat /\ Len(s) > 0
      BY <1>3 DEF Texts
    <2>3. TextOf(h) \o s \in Texts
      BY <2>1, TextsJoin
    <2> DEFINE t == TextOf(h) \o s
               need == Length(h) + Len(s)
    <2>4. need \in Nat /\ need > 0 /\ t \in Texts
      BY <2>1, <2>2, <2>3
    <2>5. Write(h, need, t) /\ d[h] # Null
      BY <1>3
    <2> HIDE DEF t, need
    <2>6. IInv' /\ (~Shared(h) \/ d[h] = Empty => value' = [value EXCEPT ![h] = t] \/ UNCHANGED value)
      BY <2>4, <2>5, WriteKeeps
    <2>7. Detaches => ~Shared(h) \/ d[h] = Empty
      BY <1>3 DEF MayWrite
    <2> QED BY <2>6, <2>7 DEF t
  <1> QED BY <1>1, <1>2, <1>3 DEF AppendTo

\* Appending a text of the program.
LEMMA AppendTextStep == \A h \in Handles : IInv /\ AppendText(h) => Step
  <1> SUFFICES ASSUME NEW h \in Handles, IInv, AppendText(h) PROVE Step
    OBVIOUS
  <1>1. PICK s \in Pieces : AppendTo(h, s)
    BY DEF AppendText
  <1>2. s \in Texts /\ s \in Values!Written
    BY PiecesAreTexts DEF Values!Written
  <1> QED BY <1>1, <1>2, AppendToKeeps, ExtendIsStep

\* Appending the text of another handle.
LEMMA AppendStringStep == \A h, g \in Handles : IInv /\ AppendString(h, g) => Step
  <1> SUFFICES ASSUME NEW h \in Handles, NEW g \in Handles, IInv, AppendString(h, g) PROVE Step
    OBVIOUS
  <1>1. AppendTo(h, TextOf(g)) /\ TextOf(g) \in Texts
    BY TextOfIsText DEF AppendString
  <1>2. Values!Text(g) = TextOf(g) /\ Values!Text(h) = TextOf(h)
    BY ValueIsText
  <1>3. CASE Step
    BY <1>3
  <1>4. CASE IInv' /\ (Detaches => value' = [value EXCEPT ![h] = TextOf(h) \o TextOf(g)]
                                   \/ UNCHANGED value)
    <2>1. value' = [value EXCEPT ![h] = TextOf(h) \o TextOf(g)] => Values!ExtendWith(h, g)
      BY <1>2 DEF Values!ExtendWith, Values!Is, value
    <2> QED BY <1>4, <2>1 DEF Step, Values!Next
  <1> QED BY <1>1, <1>3, <1>4, AppendToKeeps

\* Reading a line: what is read is kept whole, or not at all.
LEMMA GetLineStep == \A h \in Handles : IInv /\ GetLine(h) => Step
  <1> SUFFICES ASSUME NEW h \in Handles, IInv, GetLine(h) PROVE Step
    OBVIOUS
  <1>1. PICK s \in Pieces \cup {<< >>} :
          \/ d[h] = Null /\ StartLine(h, s)
          \/ d[h] # Null /\ MayWrite(h) /\ ~Tight(h, s) /\ InPlace(h, TextOf(h) \o s)
          \/ d[h] # Null /\ MayWrite(h) /\ Tight(h, s) /\ Write(h, Len(s) + 1, TextOf(h) \o s)
          \/ d[h] # Null /\ MayWrite(h) /\ Tight(h, s) /\ alloc[d[h]] >= MaxLine
             /\ InPlace(h, CutOff(h, s))
    BY DEF GetLine
  <1>2. /\ s \in Texts /\ Len(s) \in Nat /\ s \in Values!Written /\ << >> \in Values!Written
        /\ TextOf(h) \in Texts /\ Length(h) \in Nat
    BY PiecesAreTexts, EmptyText, TextOfIsText DEF Values!Written
  <1> DEFINE t == TextOf(h) \o s
             need == Len(s) + 1
  <1>3. t \in Texts /\ need \in Nat /\ need > 0
    BY <1>2, TextsJoin
  <1>4. MayWrite(h) => (Detaches => ~Shared(h) \/ d[h] = Empty)
    BY DEF MayWrite
  <1>5. CASE d[h] = Null /\ StartLine(h, s)
    <2>1. PICK cap \in {LineAlloc, Capacity(h, Len(s) + 1)}, u \in {s, << >>} : MovedToNew(h, cap, u)
      BY <1>5 DEF StartLine
    <2>2. u \in Texts /\ u \in Values!Written
      BY <1>2, EmptyText
    <2> QED BY <1>5, <2>1, <2>2, MovedToNewKeeps, BeginIsStep
  <1>6. d[h] = Empty => alloc[d[h]] = 0
    BY DEF IInv, EmptyIsEmpty
  <1>7. CASE d[h] # Null /\ MayWrite(h) /\ ~Tight(h, s) /\ InPlace(h, t)
    <2>1. d[h] # Empty
      BY <1>2, <1>6, <1>7 DEF Tight
    <2> HIDE DEF t
    <2>2. IInv' /\ (~Shared(h) => value' = [value EXCEPT ![h] = t])
      BY <1>3, <1>7, <2>1, InPlaceKeeps
    <2> QED BY <1>2, <1>4, <1>7, <2>1, <2>2, ExtendIsStep DEF t
  <1>8. CASE d[h] # Null /\ MayWrite(h) /\ Write(h, need, t)
    <2> HIDE DEF t, need
    <2>1. IInv' /\ (~Shared(h) \/ d[h] = Empty => value' = [value EXCEPT ![h] = t] \/ UNCHANGED value)
      BY <1>3, <1>8, WriteKeeps
    <2> QED BY <1>2, <1>4, <1>8, <2>1, ExtendIsStep DEF t
  <1>9. CASE d[h] # Null /\ MayWrite(h) /\ alloc[d[h]] >= MaxLine /\ InPlace(h, CutOff(h, s))
    <2>1. d[h] # Empty
      BY <1>6, <1>9, LineAssumption, LengthsAssumption
    <2>2. CutOff(h, s) = t \/ CutOff(h, s) = TextOf(h)
      BY DEF CutOff
    <2> DEFINE u == CutOff(h, s)
    <2>3. u \in Texts /\ (u = t \/ u = TextOf(h))
      BY <1>2, <1>3, <2>2
    <2>4. InPlace(h, u)
      BY <1>9
    <2> HIDE DEF u
    <2>5. IInv' /\ (~Shared(h) => value' = [value EXCEPT ![h] = u])
      BY <1>9, <2>1, <2>3, <2>4, InPlaceKeeps
    <2>6. TextOf(h) \o << >> = TextOf(h)
      BY <1>2 DEF Texts
    <2>7. CASE u = t
      BY <1>2, <1>4, <1>9, <2>1, <2>5, <2>7, ExtendIsStep
    <2>8. CASE u = TextOf(h)
      BY <1>2, <1>4, <1>9, <2>1, <2>5, <2>6, <2>8, ExtendIsStep
    <2> QED BY <2>3, <2>7, <2>8
  <1> QED BY <1>1, <1>5, <1>7, <1>8, <1>9

\* Replacing the first occurrence of a piece.
LEMMA ReplaceStep == \A h \in Handles : IInv /\ Replace(h) => Step
  <1> SUFFICES ASSUME NEW h \in Handles, IInv, Replace(h) PROVE Step
    OBVIOUS
  <1>1. PICK s \in Pieces, r \in Pieces : \E i \in Values!First(TextOf(h), s) :
          LET t == Values!With(TextOf(h), s, r, i)
          IN  d[h] # Null /\ MayWrite(h) /\ Write(h, Len(r), t)
    BY DEF Replace
  <1>2. PICK i \in Values!First(TextOf(h), s) :
          /\ d[h] # Null /\ MayWrite(h)
          /\ Write(h, Len(r), Values!With(TextOf(h), s, r, i))
    BY <1>1
  <1> DEFINE t == Values!With(TextOf(h), s, r, i)
             need == Len(r)
  <1>3. i \in 1 .. Len(TextOf(h)) /\ TextOf(h) \in Texts
    BY TextOfIsText DEF Values!First, Values!Places
  <1>4. t \in Texts /\ need \in Nat /\ need > 0 /\ Write(h, need, t)
    BY <1>2, <1>3, WithIsText, PiecesAreTexts
  <1>5. Values!Text(h) = TextOf(h)
    BY ValueIsText
  <1>6. value' = [value EXCEPT ![h] = t] => Values!Replace(h)
    BY <1>5 DEF Values!Replace, Values!Is, value
  <1> HIDE DEF t, need
  <1>7. IInv' /\ (~Shared(h) \/ d[h] = Empty => value' = [value EXCEPT ![h] = t] \/ UNCHANGED value)
    BY <1>2, <1>4, WriteKeeps
  <1>8. Detaches => ~Shared(h) \/ d[h] = Empty
    BY <1>2 DEF MayWrite
  <1> QED BY <1>6, <1>7, <1>8 DEF Step, Values!Next

-----------------------------------------------------------------------------
(* Sizes.                                                                  *)

\* What grow rounds a request to is a number, and reaches as far as is assumed.
LEMMA PowersReach ==
  Powers \subseteq Nat /\ 2^30 \in Powers /\ 2^30 \in Nat
  <1>1. \A k \in 0 .. 30 : 2^k \in Nat
    <2> SUFFICES ASSUME NEW k \in 0 .. 30 PROVE 2^k \in Nat
      OBVIOUS
    <2>1. CASE k \in 0 .. 7
      <3>1. k = 0 \/ k = 1 \/ k = 2 \/ k = 3 \/ k = 4 \/ k = 5 \/ k = 6 \/ k = 7
        BY <2>1
      <3>2. /\ 2^0 \in Nat /\ 2^1 \in Nat /\ 2^2 \in Nat /\ 2^3 \in Nat
            /\ 2^4 \in Nat /\ 2^5 \in Nat /\ 2^6 \in Nat /\ 2^7 \in Nat
        OBVIOUS
      <3> QED BY <3>1, <3>2, Zenon
    <2>2. CASE k \in 8 .. 15
      <3>1. k = 8 \/ k = 9 \/ k = 10 \/ k = 11 \/ k = 12 \/ k = 13 \/ k = 14 \/ k = 15
        BY <2>2
      <3>2. /\ 2^8 \in Nat /\ 2^9 \in Nat /\ 2^10 \in Nat /\ 2^11 \in Nat
            /\ 2^12 \in Nat /\ 2^13 \in Nat /\ 2^14 \in Nat /\ 2^15 \in Nat
        OBVIOUS
      <3> QED BY <3>1, <3>2, Zenon
    <2>3. CASE k \in 16 .. 23
      <3>1. k = 16 \/ k = 17 \/ k = 18 \/ k = 19 \/ k = 20 \/ k = 21 \/ k = 22 \/ k = 23
        BY <2>3
      <3>2. /\ 2^16 \in Nat /\ 2^17 \in Nat /\ 2^18 \in Nat /\ 2^19 \in Nat
            /\ 2^20 \in Nat /\ 2^21 \in Nat /\ 2^22 \in Nat /\ 2^23 \in Nat
        OBVIOUS
      <3> QED BY <3>1, <3>2, Zenon
    <2>4. CASE k \in 24 .. 30
      <3>1. k = 24 \/ k = 25 \/ k = 26 \/ k = 27 \/ k = 28 \/ k = 29 \/ k = 30
        BY <2>4
      <3>2. /\ 2^24 \in Nat /\ 2^25 \in Nat /\ 2^26 \in Nat /\ 2^27 \in Nat
            /\ 2^28 \in Nat /\ 2^29 \in Nat /\ 2^30 \in Nat
        OBVIOUS
      <3> QED BY <3>1, <3>2, Zenon
    <2> QED BY <2>1, <2>2, <2>3, <2>4
  <1>2. 2^30 \in Powers
    BY DEF Powers
  <1> QED BY <1>1, <1>2 DEF Powers

\* A set of numbers that is not empty has a least one.
LEMMA LeastNumber ==
  ASSUME NEW S \in SUBSET Nat, S # {} PROVE \E n \in S : \A m \in S : n <= m
  <1>1. PICK k \in S : TRUE
    OBVIOUS
  <1> DEFINE Spans == {X \in FiniteSubsetsOf(Nat) : \E n \in S : X = 0 .. n}
  <1>2. 0 .. k \in Spans
    BY FS_Interval DEF FiniteSubsetsOf
  <1>3. PICK X \in Spans : \A Y \in Spans : <<Y, X>> \notin StrictSubsetOrdering(Nat)
    <2> HIDE DEF Spans
    <2>1. Spans \subseteq FiniteSubsetsOf(Nat) /\ Spans # {}
      BY <1>2 DEF Spans
    <2> QED BY <2>1, FS_StrictSubsetOrderingWellFounded, WFMin
  <1>4. PICK n \in S : X = 0 .. n
    OBVIOUS
  <1>5. ASSUME NEW m \in S, m < n PROVE FALSE
    <2>1. 0 .. m \in Spans
      BY FS_Interval DEF FiniteSubsetsOf
    <2>2. <<0 .. m, X>> \in StrictSubsetOrdering(Nat)
      BY <1>4, <1>5 DEF StrictSubsetOrdering
    <2> QED BY <1>3, <2>1, <2>2
  <1> QED BY <1>5

\* The least of some powers is one of them.
LEMMA MinOfPowers ==
  ASSUME NEW S \in SUBSET Powers, S # {} PROVE Min(S) \in S
  <1>1. S \in SUBSET Nat
    BY PowersReach
  <1>2. \E x \in S : \A y \in S : x <= y
    BY <1>1, LeastNumber
  <1> QED BY <1>2 DEF Min

\* The larger of two numbers is one of them, and not the smaller.
LEMMA MaxOfTwo ==
  ASSUME NEW a \in Nat, NEW b \in Nat
  PROVE  Max({a, b}) \in {a, b} /\ Max({a, b}) >= b
  <1>1. \E x \in {a, b} : \A y \in {a, b} : x >= y
    <2>1. CASE a >= b
      BY <2>1
    <2>2. CASE b >= a
      BY <2>2
    <2> QED BY <2>1, <2>2
  <1> QED BY <1>1 DEF Max

\* The block that grow finds holds what it is asked for.
LEMMA NewSizeHolds ==
  ASSUME NEW g \in Nat, g < 2^30
  PROVE  NewSize(g) \in Nat /\ NewSize(g) >= g
  <1>1. /\ 2^30 \in Powers /\ Powers \subseteq Nat /\ 2^30 \in Nat
        /\ Page < 2^30 /\ Page \in Nat /\ Least \in Nat
    BY PowersReach, SizesAssumption
  <1>2. CASE g < Page
    <2> DEFINE S == {p \in Powers : p > g}
    <2>1. S \in SUBSET Powers /\ S # {}
      BY <1>1
    <2>2. Min(S) \in S
      BY <2>1, MinOfPowers
    <2>3. Min(S) \in Nat /\ Min(S) >= g
      <3>1. Min(S) \in Powers /\ Min(S) > g
        BY <2>2
      <3> DEFINE m == Min(S)
      <3>2. m \in Powers /\ m > g /\ Powers \subseteq Nat
        BY <3>1, PowersReach
      <3> HIDE DEF m
      <3>3. m \in Nat
        BY <3>2
      <3> QED BY <3>2, <3>3 DEF m
    <2>4. Max({Least, Min(S)}) \in {Least, Min(S)} /\ Max({Least, Min(S)}) >= Min(S)
      BY <1>1, <2>3, MaxOfTwo
    <2>5. NewSize(g) = Max({Least, Min(S)})
      BY <1>2 DEF NewSize
    <2> HIDE DEF S
    <2> QED BY <1>1, <2>3, <2>4, <2>5
  <1>3. CASE ~(g < Page)
    <2> DEFINE S == {p \in Powers : p > Page /\ p >= g}
    <2>1. S \in SUBSET Powers /\ S # {}
      BY <1>1
    <2>2. Min(S) \in S
      BY <2>1, MinOfPowers
    <2> QED BY <1>1, <1>3, <2>2 DEF NewSize
  <1> QED BY <1>2, <1>3

\* Every text fits into its buffer, and is no longer than texts may be.  (A free
\* block has neither text nor room.)
Sized == \A b \in Blocks : /\ alloc[b] \in Nat
                           /\ Len(text[b]) <= alloc[b] /\ Len(text[b]) <= MaxLength

\* The texts of handles are as long as those of the buffers.
LEMMA LengthsBounded ==
  ASSUME IInv, Sized, NEW h \in Handles
  PROVE  /\ TextOf(h) \in Seq(Bytes) /\ Length(h) \in Nat /\ Length(h) = Len(TextOf(h))
         /\ Length(h) <= MaxLength
         /\ d[h] # Null => Length(h) <= alloc[d[h]] /\ alloc[d[h]] \in Nat
  <1>1. TextOf(h) \in Texts /\ Length(h) \in Nat /\ Length(h) = Len(TextOf(h))
    BY TextOfIsText DEF Length
  <1>2. CASE d[h] = Null
    BY <1>1, <1>2, EmptyText, LengthsAssumption DEF TextOf, Texts
  <1>3. CASE d[h] # Null
    BY <1>1, <1>3, TextOfIsText DEF Sized, IInv, Shape, Texts
  <1> QED BY <1>2, <1>3

\* Moving to a new block that has room for the text.
LEMMA MovedFits ==
  ASSUME IInv, Sized, NEW h \in Handles, NEW cap \in Nat, NEW t,
         Len(t) \in Nat, Len(t) <= cap, Len(t) <= MaxLength, MovedToNew(h, cap, t)
  PROVE  Sized'
  <1>1. PICK b \in Buffers : Moved(h, b, cap, t)
    BY DEF MovedToNew
  <1>2. \A c \in Blocks :
          \/ alloc'[c] = 0 /\ text'[c] = << >>
          \/ alloc'[c] = alloc[c] /\ text'[c] = text[c]
          \/ alloc'[c] = cap /\ text'[c] = t
    BY <1>1 DEF Moved, Kept, IInv, Shape
  <1> QED BY <1>2, EmptyText, LengthsAssumption DEF Sized

\* Writing in place what there is room for.
LEMMA InPlaceFits ==
  ASSUME IInv, Sized, NEW h \in Handles, d[h] # Null, NEW t,
         Len(t) \in Nat, Len(t) <= alloc[d[h]], Len(t) <= MaxLength, InPlace(h, t)
  PROVE  Sized'
  <1>1. \A c \in Blocks : alloc'[c] = alloc[c]
          /\ (text'[c] = text[c] \/ (c = d[h] /\ text'[c] = t))
    BY DEF InPlace, IInv, Shape
  <1> QED BY <1>1 DEF Sized

\* Writing what is no longer than the room that was asked for.
LEMMA WriteFits ==
  ASSUME IInv, Sized, NEW h \in Handles, d[h] # Null, NEW need \in Nat, NEW t,
         Len(t) \in Nat, Len(t) <= Length(h) + need, Len(t) <= MaxLength,
         need <= MaxLength + 1, Length(h) + need <= 2 * MaxLength + 1, Write(h, need, t)
  PROVE  Sized'
  <1>1. Length(h) \in Nat /\ alloc[d[h]] \in Nat
    BY LengthsBounded
  <1>2. CASE Room(h, need) /\ InPlace(h, t)
    BY <1>1, <1>2, InPlaceFits DEF Room
  <1>3. CASE MovedToNew(h, Capacity(h, need), t)
    <2>1. Header + Length(h) + need \in Nat /\ Header + Length(h) + need < 2^30
      BY <1>1, LengthsAssumption, PowersReach
    <2>2. Capacity(h, need) \in Nat /\ Capacity(h, need) >= Length(h) + need
      <3> DEFINE g == Header + Length(h) + need
      <3>1. NewSize(g) \in Nat /\ NewSize(g) >= g
        BY <2>1, NewSizeHolds
      <3>2. Header \in Nat
        BY LengthsAssumption
      <3> QED BY <1>1, <3>1, <3>2 DEF Capacity
    <2> DEFINE cap == Capacity(h, need)
    <2>3. cap \in Nat /\ Len(t) <= cap /\ MovedToNew(h, cap, t)
      BY <1>1, <1>3, <2>2
    <2> HIDE DEF cap
    <2> QED BY <2>3, MovedFits
  <1>4. CASE UNCHANGED vars
    BY <1>4 DEF vars, Sized
  <1> QED BY <1>2, <1>3, <1>4 DEF Write

\* A new string with a text.
LEMMA NewTextFits ==
  ASSUME IInv, Sized, NEW h \in Handles, NEW s, Len(s) \in Nat, Len(s) <= MaxLength,
         MovedToNew(h, NewSize(Header + Len(s)) - Header, s)
  PROVE  Sized'
  <1> DEFINE g == Header + Len(s)
             cap == NewSize(g) - Header
  <1>1. Header \in Nat /\ g \in Nat /\ g < 2^30
    BY LengthsAssumption, PowersReach
  <1>2. NewSize(g) \in Nat /\ NewSize(g) >= g
    BY <1>1, NewSizeHolds
  <1>3. cap \in Nat /\ Len(s) <= cap /\ MovedToNew(h, cap, s)
    BY <1>1, <1>2
  <1> HIDE DEF cap
  <1> QED BY <1>3, MovedFits

\* Becoming the empty string.
LEMMA InitStringFits == \A h \in Handles : Sized /\ InitString(h) => Sized'
  BY DEF InitString, Shares, Sized

\* A text of the program.
LEMMA PieceLengths ==
  \A s \in Pieces \cup {<< >>} : s \in Seq(Bytes) /\ Len(s) \in Nat /\ Len(s) <= MaxLength
  <1>1. \A s \in Pieces : s \in Seq(Bytes) /\ Len(s) \in Nat /\ Len(s) <= MaxLength
    BY PiecesAreTexts, LengthsAssumption DEF Texts
  <1>2. << >> \in Seq(Bytes) /\ Len(<< >>) = 0
    BY EmptyText DEF Texts
  <1>3. ASSUME NEW s, s = << >> PROVE s \in Seq(Bytes) /\ Len(s) \in Nat /\ Len(s) <= MaxLength
    BY <1>2, <1>3, LengthsAssumption
  <1> QED BY <1>1, <1>3

\* A new, empty string.
LEMMA CreateStringFits == \A h \in Handles : IInv /\ Sized /\ CreateString(h) => Sized'
  BY MovedFits, EmptyText, LengthsAssumption DEF CreateString

\* A new string with a text.
LEMMA CreateStringWithTextFits ==
  \A h \in Handles : IInv /\ Sized /\ CreateStringWithText(h) => Sized'
  BY NewTextFits, PieceLengths, InitStringFits DEF CreateStringWithText

\* Letting go of a string.
LEMMA ReleaseStringFits == \A h \in Handles : IInv /\ Sized /\ ReleaseString(h) => Sized'
  <1> SUFFICES ASSUME NEW h \in Handles, IInv, Sized, ReleaseString(h) PROVE Sized'
    OBVIOUS
  <1>1. \A c \in Blocks : \/ alloc'[c] = 0 /\ text'[c] = << >>
                          \/ alloc'[c] = alloc[c] /\ text'[c] = text[c]
    BY DEF ReleaseString, Kept
  <1> QED BY <1>1, EmptyText, LengthsAssumption DEF Sized

\* A copy has the room of the original.
LEMMA DetachFits == \A h \in Handles : IInv /\ Sized /\ Detach(h) => Sized'
  BY MovedFits, LengthsBounded DEF Detach

\* One more character.
LEMMA PutCFits == \A h \in Handles : IInv /\ Sized /\ PutC(h) => Sized'
  <1> SUFFICES ASSUME NEW h \in Handles, IInv, Sized, PutC(h) PROVE Sized'
    OBVIOUS
  <1>1. PICK c \in Bytes :
          LET t == Append(TextOf(h), c)
          IN  \/ ~Shared(h) /\ Write(h, 1, t)
              \/ Shared(h) /\ MovedToNew(h, IF Room(h, 1) THEN alloc[d[h]] ELSE Capacity(h, 1), t)
              \/ Shared(h) /\ ~Room(h, 1) /\ Refuses /\ MovedToNew(h, alloc[d[h]], TextOf(h))
    BY DEF PutC
  <1>2. /\ d[h] # Null /\ Length(h) < MaxLength /\ Length(h) = Len(TextOf(h))
        /\ TextOf(h) \in Seq(Bytes) /\ Length(h) \in Nat /\ Length(h) <= alloc[d[h]]
        /\ alloc[d[h]] \in Nat /\ MaxLength \in Nat /\ Header \in Nat
    BY LengthsBounded, LengthsAssumption DEF PutC
  <1> DEFINE t == Append(TextOf(h), c)
             one == 1
  <1>3. Len(t) = Length(h) + 1 /\ Len(t) \in Nat
    BY <1>2
  <1>4. CASE Write(h, one, t)
    <2>1. /\ one \in Nat /\ one <= MaxLength + 1 /\ Length(h) + one <= 2 * MaxLength + 1
          /\ Len(t) <= Length(h) + one /\ Len(t) <= MaxLength
      BY <1>2, <1>3
    <2> HIDE DEF t, one
    <2> QED BY <1>2, <1>3, <1>4, <2>1, WriteFits
  <1>5. CASE MovedToNew(h, IF Room(h, 1) THEN alloc[d[h]] ELSE Capacity(h, 1), t)
    <2> DEFINE cap == IF Room(h, 1) THEN alloc[d[h]] ELSE Capacity(h, 1)
    <2>1. CASE Room(h, 1)
      <3>1. cap = alloc[d[h]] /\ cap \in Nat /\ Len(t) <= cap
        BY <1>2, <1>3, <2>1 DEF Room
      <3> HIDE DEF t, cap
      <3> QED BY <1>2, <1>3, <1>5, <3>1, MovedFits DEF cap
    <2>2. CASE ~Room(h, 1)
      <3> DEFINE g == Header + Length(h) + 1
      <3>1. g \in Nat /\ g < 2^30
        BY <1>2, LengthsAssumption, PowersReach
      <3>2. NewSize(g) \in Nat /\ NewSize(g) >= g
        BY <3>1, NewSizeHolds
      <3>3. cap = NewSize(g) - Header
        BY <2>2 DEF Capacity
      <3>4. cap \in Nat /\ Len(t) <= cap
        BY <1>2, <1>3, <3>2, <3>3
      <3>5. MovedToNew(h, cap, t)
        BY <1>5
      <3>6. Len(t) <= MaxLength
        BY <1>2, <1>3
      <3> HIDE DEF t, cap
      <3> QED BY <1>3, <3>4, <3>5, <3>6, MovedFits
    <2> QED BY <2>1, <2>2
  <1>6. CASE MovedToNew(h, alloc[d[h]], TextOf(h))
    BY <1>2, <1>6, MovedFits
  <1> QED BY <1>1, <1>4, <1>5, <1>6

\* What append asks for, as much again as there is, is enough for any text.
LEMMA AppendToFits ==
  ASSUME IInv, Sized, NEW h \in Handles, NEW s \in Seq(Bytes),
         Length(h) + Len(s) <= MaxLength, AppendTo(h, s)
  PROVE  Sized'
  <1>1. /\ TextOf(h) \in Seq(Bytes) /\ Length(h) \in Nat /\ Length(h) = Len(TextOf(h))
        /\ Len(s) \in Nat /\ MaxLength \in Nat
    BY LengthsBounded, LengthsAssumption
  <1>2. CASE InitString(h)
    BY <1>2, InitStringFits
  <1>3. CASE MovedToNew(h, NewSize(Header + Len(s)) - Header, s)
    <2>1. Len(s) <= MaxLength
      BY <1>1
    <2> QED BY <1>1, <1>3, <2>1, NewTextFits
  <1>4. CASE d[h] # Null /\ Write(h, Length(h) + Len(s), TextOf(h) \o s)
    <2> DEFINE t == TextOf(h) \o s
               need == Length(h) + Len(s)
    <2>1. Len(t) = Length(h) + Len(s)
      BY <1>1
    <2>2. /\ need \in Nat /\ Len(t) \in Nat /\ Len(t) <= Length(h) + need
          /\ Len(t) <= MaxLength /\ need <= MaxLength + 1
          /\ Length(h) + need <= 2 * MaxLength + 1
      BY <1>1, <2>1
    <2>3. Write(h, need, t)
      BY <1>4
    <2> HIDE DEF t, need
    <2> QED BY <1>4, <2>2, <2>3, WriteFits
  <1> QED BY <1>2, <1>3, <1>4 DEF AppendTo

\* Appending a text of the program, or that of another handle.
LEMMA AppendTextFits == \A h \in Handles : IInv /\ Sized /\ AppendText(h) => Sized'
  BY AppendToFits, PieceLengths DEF AppendText
LEMMA AppendStringFits ==
  \A h, g \in Handles : IInv /\ Sized /\ AppendString(h, g) => Sized'
  <1> SUFFICES ASSUME NEW h \in Handles, NEW g \in Handles, IInv, Sized, AppendString(h, g)
               PROVE  Sized'
    OBVIOUS
  <1>1. TextOf(g) \in Seq(Bytes) /\ Length(g) = Len(TextOf(g))
    BY LengthsBounded
  <1>2. Length(h) + Len(TextOf(g)) <= MaxLength /\ AppendTo(h, TextOf(g))
    BY <1>1 DEF AppendString
  <1> QED BY <1>1, <1>2, AppendToFits

\* Reading a line: either there is room for it, or grow finds it, or what does
\* not fit is cut off.
LEMMA GetLineFits == \A h \in Handles : IInv /\ Sized /\ GetLine(h) => Sized'
  <1> SUFFICES ASSUME NEW h \in Handles, IInv, Sized, GetLine(h) PROVE Sized'
    OBVIOUS
  <1>1. PICK s \in Pieces \cup {<< >>} :
          /\ Length(h) + Len(s) <= MaxLength
          /\ \/ d[h] = Null /\ StartLine(h, s)
             \/ d[h] # Null /\ MayWrite(h) /\ ~Tight(h, s) /\ InPlace(h, TextOf(h) \o s)
             \/ d[h] # Null /\ MayWrite(h) /\ Tight(h, s) /\ Write(h, Len(s) + 1, TextOf(h) \o s)
             \/ d[h] # Null /\ MayWrite(h) /\ Tight(h, s) /\ alloc[d[h]] >= MaxLine
                /\ InPlace(h, CutOff(h, s))
    BY DEF GetLine
  <1>2. /\ s \in Seq(Bytes) /\ Len(s) \in Nat /\ Len(s) <= MaxLength
        /\ TextOf(h) \in Seq(Bytes) /\ Length(h) \in Nat /\ Length(h) = Len(TextOf(h))
        /\ Length(h) <= MaxLength
        /\ d[h] # Null => Length(h) <= alloc[d[h]] /\ alloc[d[h]] \in Nat
        /\ MaxLength \in Nat /\ LineAlloc \in Nat
    BY LengthsBounded, PieceLengths, LengthsAssumption
  <1> DEFINE t == TextOf(h) \o s
             need == Len(s) + 1
  <1>3. Len(t) = Length(h) + Len(s) /\ Len(t) \in Nat /\ Len(t) <= MaxLength
    BY <1>1, <1>2
  <1>4. CASE StartLine(h, s)
    <2>1. CASE Len(s) + 1 <= LineAlloc /\ MovedToNew(h, LineAlloc, s)
      BY <1>2, <2>1, MovedFits
    <2>2. CASE Len(s) + 1 > LineAlloc /\ MovedToNew(h, Capacity(h, Len(s) + 1), s)
      <3> DEFINE cap == Capacity(h, Len(s) + 1)
                 g == Header + Length(h) + (Len(s) + 1)
      <3>1. g \in Nat /\ g < 2^30 /\ Len(s) + Header <= g
        BY <1>1, <1>2, LengthsAssumption, PowersReach
      <3>2. NewSize(g) \in Nat /\ NewSize(g) >= g
        BY <3>1, NewSizeHolds
      <3>3. cap = NewSize(g) - Header
        BY DEF Capacity
      <3>4. cap \in Nat /\ Len(s) <= cap
        BY <1>2, <3>1, <3>2, <3>3, LengthsAssumption
      <3>5. MovedToNew(h, cap, s)
        BY <2>2
      <3> HIDE DEF cap, g
      <3> QED BY <1>2, <3>4, <3>5, MovedFits
    <2>3. CASE MovedToNew(h, LineAlloc, << >>)
      <3> DEFINE nothing == << >>
      <3>1. Len(nothing) \in Nat /\ Len(nothing) <= LineAlloc /\ Len(nothing) <= MaxLength
        BY <1>2
      <3>2. MovedToNew(h, LineAlloc, nothing)
        BY <2>3
      <3> HIDE DEF nothing
      <3> QED BY <1>2, <3>1, <3>2, MovedFits
    <2> QED BY <1>4, <2>1, <2>2, <2>3 DEF StartLine
  <1>5. CASE d[h] # Null /\ ~Tight(h, s) /\ InPlace(h, t)
    <2>1. Len(t) <= alloc[d[h]]
      BY <1>2, <1>3, <1>5 DEF Tight
    <2> HIDE DEF t
    <2> QED BY <1>3, <1>5, <2>1, InPlaceFits
  <1>6. CASE d[h] # Null /\ Write(h, need, t)
    <2>1. /\ need \in Nat /\ need <= MaxLength + 1 /\ Len(t) <= Length(h) + need
          /\ Length(h) + need <= 2 * MaxLength + 1
      BY <1>2, <1>3
    <2> HIDE DEF t, need
    <2> QED BY <1>3, <1>6, <2>1, WriteFits
  <1>7. CASE d[h] # Null /\ InPlace(h, CutOff(h, s))
    <2> DEFINE u == CutOff(h, s)
    <2>1. Len(u) \in Nat /\ Len(u) <= alloc[d[h]] /\ Len(u) <= MaxLength
      <3>1. CASE Length(h) + Len(s) < alloc[d[h]]
        BY <1>2, <1>3, <1>7, <3>1 DEF CutOff
      <3>2. CASE ~(Length(h) + Len(s) < alloc[d[h]])
        BY <1>2, <1>7, <3>2 DEF CutOff
      <3> QED BY <3>1, <3>2
    <2>2. InPlace(h, u)
      BY <1>7
    <2> HIDE DEF u
    <2> QED BY <1>7, <2>1, <2>2, InPlaceFits
  <1> QED BY <1>1, <1>4, <1>5, <1>6, <1>7

\* A text with a piece replaced is at most the new piece longer than it was.
LEMMA WithLength ==
  ASSUME NEW t \in Seq(Bytes), NEW s \in Pieces, NEW r \in Pieces, NEW i \in 1 .. Len(t)
  PROVE  /\ Len(Values!With(t, s, r, i)) \in Nat
         /\ Len(Values!With(t, s, r, i)) <= Len(t) + Len(r)
  <1>1. /\ r \in Seq(Bytes) /\ s \in Seq(Bytes) /\ Len(r) \in Nat /\ Len(s) \in Nat
        /\ Len(s) > 0 /\ Len(t) \in Nat
    BY PiecesAreTexts DEF Texts
  <1> DEFINE u == SubSeq(t, 1, i - 1)
             w == SubSeq(t, i + Len(s), Len(t))
  <1>2. u \in Seq(Bytes) /\ Len(u) = i - 1
    <2>1. \A j \in 1 .. i - 1 : t[j] \in Bytes
      BY <1>1
    <2> QED BY <1>1, <2>1, SubSeqProperties
  <1>3. w \in Seq(Bytes) /\ Len(w) <= Len(t) - i
    <2>1. \A j \in i + Len(s) .. Len(t) : t[j] \in Bytes
      BY <1>1
    <2>2. w \in Seq(Bytes) /\ Len(w) = IF i + Len(s) <= Len(t) THEN Len(t) - (i + Len(s)) + 1 ELSE 0
      BY <1>1, <2>1, SubSeqProperties
    <2> QED BY <1>1, <2>2
  <1>4. Values!With(t, s, r, i) = (u \o r) \o w
    BY DEF Values!With
  <1> HIDE DEF u, w
  <1>5. u \o r \in Seq(Bytes) /\ Len(u \o r) = i - 1 + Len(r)
    <2>1. u \o r \in Seq(Bytes) /\ Len(u \o r) = Len(u) + Len(r)
      BY <1>1, <1>2, ConcatProperties
    <2> QED BY <1>2, <2>1
  <1>6. Len((u \o r) \o w) = i - 1 + Len(r) + Len(w) /\ Len(w) \in Nat
    <2> DEFINE v == u \o r
    <2>1. v \in Seq(Bytes) /\ w \in Seq(Bytes) /\ Len(v) = i - 1 + Len(r)
      BY <1>3, <1>5
    <2> HIDE DEF v
    <2>2. Len(v \o w) = Len(v) + Len(w)
      BY <2>1, ConcatProperties, Zenon
    <2>3. Len(w) \in Nat
      BY <2>1
    <2> QED BY <2>1, <2>2, <2>3 DEF v
  <1> QED BY <1>1, <1>3, <1>4, <1>6

\* Replacing: room for all of the new piece is enough.
LEMMA ReplaceFits == \A h \in Handles : IInv /\ Sized /\ Replace(h) => Sized'
  <1> SUFFICES ASSUME NEW h \in Handles, IInv, Sized, Replace(h) PROVE Sized'
    OBVIOUS
  <1>1. PICK s \in Pieces, r \in Pieces : \E i \in Values!First(TextOf(h), s) :
          LET t == Values!With(TextOf(h), s, r, i)
          IN  d[h] # Null /\ Len(t) <= MaxLength /\ MayWrite(h) /\ Write(h, Len(r), t)
    BY DEF Replace
  <1>2. PICK i \in Values!First(TextOf(h), s) :
          LET t == Values!With(TextOf(h), s, r, i)
          IN  d[h] # Null /\ Len(t) <= MaxLength /\ MayWrite(h) /\ Write(h, Len(r), t)
    BY <1>1
  <1> DEFINE t == Values!With(TextOf(h), s, r, i)
             need == Len(r)
  <1>3. /\ TextOf(h) \in Seq(Bytes) /\ Length(h) \in Nat /\ Length(h) = Len(TextOf(h))
        /\ Length(h) <= MaxLength /\ MaxLength \in Nat
        /\ need \in Nat /\ need <= MaxLength
    BY LengthsBounded, PieceLengths, LengthsAssumption
  <1>4. i \in 1 .. Len(TextOf(h))
    BY DEF Values!First, Values!Places
  <1>5. Len(t) \in Nat /\ Len(t) <= Length(h) + need
    BY <1>3, <1>4, WithLength
  <1>6. d[h] # Null /\ Len(t) <= MaxLength /\ Write(h, need, t)
    BY <1>2
  <1> HIDE DEF t, need
  <1>7. need <= MaxLength + 1 /\ Length(h) + need <= 2 * MaxLength + 1
    BY <1>3
  <1> QED BY <1>3, <1>5, <1>6, <1>7, WriteFits

-----------------------------------------------------------------------------
(* The theorems.                                                           *)

\* No handle has a buffer at the start.
LEMMA InitHolds == Init => IInv /\ Values!Init
  <1> SUFFICES ASSUME Init PROVE IInv /\ Values!Init
    OBVIOUS
  <1> USE BlocksAssumption
  <1>1. Shape
    BY EmptyText DEF Init, Shape, Blocks
  <1>2. \A b \in Blocks : Holders(b) = {}
    BY DEF Init, Holders
  <1>3. RefsExact
    <2>1. Cardinality({}) = 0
      BY FS_EmptySet
    <2>2. \A b \in Blocks : Cardinality(Holders(b)) = 0
      BY <1>2, <2>1
    <2> QED BY <2>2 DEF Init, RefsExact
  <1>4. EmptyIsEmpty
    BY DEF Init, EmptyIsEmpty, Blocks
  <1>5. Values!Init
    BY DEF Init, Values!Init
  <1> QED BY <1>1, <1>3, <1>4, <1>5 DEF IInv

\* Every call keeps the invariant and is a step of StringValues.
LEMMA NextSteps == IInv /\ [Next]_vars => Step
  <1> SUFFICES ASSUME IInv, [Next]_vars PROVE Step
    OBVIOUS
  <1>1. CASE UNCHANGED vars
    BY <1>1, NothingKeeps DEF Step
  <1>2. CASE Next
    BY <1>2, InitStringStep, CreateStringStep, CreateStringWithTextStep, ReleaseStringStep,
       DetachStep, PutCStep, AppendTextStep, GetLineStep, ReplaceStep, CopyStringStep,
       AppendStringStep DEF Next
  <1> QED BY <1>1, <1>2

\* Every buffer counts exactly the handles that have it, and the static empty
\* string one more, after any calls: none is freed while a handle has it.
THEOREM ReferencesExact == Spec => []RefsExact
  <1>1. IInv /\ [Next]_vars => IInv'
    BY NextSteps DEF Step
  <1>2. IInv => RefsExact
    BY DEF IInv
  <1> QED BY <1>1, <1>2, InitHolds, PTL DEF Spec

\* No call ever writes to the static empty string.
THEOREM EmptyStaysEmpty == Spec => []EmptyIsEmpty
  <1>1. IInv /\ [Next]_vars => IInv'
    BY NextSteps DEF Step
  <1>2. IInv => EmptyIsEmpty
    BY DEF IInv
  <1> QED BY <1>1, <1>2, InitHolds, PTL DEF Spec

\* If callers detach the strings they write to, the handles behave as values of
\* their own: the calls on buffers implement those of StringValues.
THEOREM ValuesImplemented == ASSUME Detaches PROVE Spec => SharingUnobserved
  <1>1. IInv /\ [Next]_vars => IInv' /\ [Values!Next]_value
    BY NextSteps DEF Step
  <1> QED BY <1>1, InitHolds, PTL DEF Spec, SharingUnobserved, Values!Spec, value

\* Every call leaves every text within its buffer.
LEMMA NextFits == IInv /\ Sized /\ [Next]_vars => Sized'
  <1> SUFFICES ASSUME IInv, Sized, [Next]_vars PROVE Sized'
    OBVIOUS
  <1>1. CASE UNCHANGED vars
    BY <1>1 DEF vars, Sized
  <1>2. ASSUME NEW h \in Handles, NEW g \in Handles, CopyString(h, g) PROVE Sized'
    BY <1>2 DEF CopyString, Shares, Sized
  <1>3. CASE Next
    BY <1>2, <1>3, InitStringFits, CreateStringFits, CreateStringWithTextFits,
       ReleaseStringFits, DetachFits, PutCFits, AppendTextFits, GetLineFits, ReplaceFits,
       AppendStringFits DEF Next
  <1> QED BY <1>1, <1>3

\* No call ever writes past the end of a buffer: what each asks grow for is enough
\* for what it writes, and grow finds as much.
THEOREM TextsFit == Spec => []Fits
  <1>1. Init => Sized
    BY EmptyText, LengthsAssumption DEF Init, Sized
  <1>2. IInv /\ [Next]_vars => IInv'
    BY NextSteps DEF Step
  <1>3. Sized => Fits
    BY DEF Sized, Fits
  <1> QED BY <1>1, <1>2, <1>3, InitHolds, NextFits, PTL DEF Spec

=============================================================================
