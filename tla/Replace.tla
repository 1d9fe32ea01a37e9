------------------------------ MODULE Replace ------------------------------
(***************************************************************************)
(* webvtt_string_replace_all (string.c): webvtt_string_replace again and   *)
(* again as long as it finds something, with the bytes of the block that   *)
(* lie behind the text, which the moves of memory take along.  The parser  *)
(* replaces NUL by U+FFFD in every line it reads.                          *)
(***************************************************************************)
EXTENDS StringSizes, Sequences, SequencesExt

CONSTANTS
  Bytes,       \* the bytes of texts before the call
  Junk,        \* what a byte is that was never set, or the NUL behind a text
  MaxLength,   \* bound on texts
  Calls,       \* what is searched for, and what it is replaced by
  Header,      \* the bytes of a block before its text
  Spare        \* bytes of a block behind those that alloc counts: 8, or 4 if pointers
               \* have 32 bits

VARIABLES
  original,   \* the text before the call
  call,       \* search and replace
  block,      \* the bytes of str->d->text
  length,     \* str->d->length
  status      \* "running" while the loop goes on; what is returned, or "outside" when
              \* bytes were moved that are not of the block
vars == <<original, call, block, length, status>>

search == call[1]
replace == call[2]
alloc == Len(block) - Spare
Text == SubSeq(block, 1, length)

\* A block with room for so many bytes that begins with these.
Block(room, t) == [i \in 1 .. room + Spare |-> IF i <= Len(t) THEN t[i] ELSE Junk]
Capacity(n) == NewSize(Header + n) - Header

\* The text is in a block that holds it, however tightly.
Init ==
  /\ original \in UNION {[1..n -> Bytes] : n \in 0..MaxLength} /\ call \in Calls
  /\ \E room \in {Capacity(n) : n \in 0..MaxLength} :
       Len(original) <= room /\ block = Block(room, original)
  /\ length = Len(original) /\ status = "running"

\* Where the text has what is searched for.
Found == {i \in 1 .. length - Len(search) + 1 : SubSeq(block, i, i + Len(search) - 1) = search}

\* grow, when there is memory.
Grown == IF length + Len(replace) <= alloc THEN block
         ELSE Block(Capacity(length + Len(replace)), Text)

\* How many bytes are moved when what is found at i is not as long as what replaces it.
\* Mutant: without the last.
MovedButOne(i) == length - i - 1
Moved(i) == length - i

\* n bytes of b from one position moved to another.
MemMove(b, to, from, n) ==
  [j \in DOMAIN b |-> IF j \in to .. to + n - 1 THEN b[j - to + from] ELSE b[j]]
MemCpy(b, to, s) == [j \in DOMAIN b |-> IF j \in to .. to + Len(s) - 1 THEN s[j - to + 1] ELSE b[j]]

\* Mutant: the loop ends with the first that is replaced.
OnlyOnce == "SUCCESS"
Again == "running"

Replaced(i) ==
  LET n == IF Len(search) = Len(replace) THEN 0 ELSE Moved(i)
      from == i + Len(search)
      to == i + Len(replace)
  IN  IF n > 0 /\ Max({from, to}) + n - 1 > Len(Grown)
      THEN status' = "outside" /\ UNCHANGED <<block, length>>
      ELSE /\ length' = length - Len(search) + Len(replace)
           /\ block' = [MemCpy(MemMove(Grown, to, from, n), i, replace) EXCEPT ![length' + 1] = Junk]
           /\ status' = Again

ReplaceOne ==
  /\ status = "running" /\ Found # {}
  /\ Replaced(Min(Found))
  /\ UNCHANGED <<original, call>>

NoMemory ==
  /\ status = "running" /\ Found # {} /\ length + Len(replace) > alloc
  /\ status' = "OUT_OF_MEMORY"
  /\ UNCHANGED <<original, call, block, length>>

NoneLeft ==
  /\ status = "running" /\ Found = {} /\ status' = "SUCCESS"
  /\ UNCHANGED <<original, call, block, length>>

Returned == status # "running" /\ UNCHANGED vars
Next == ReplaceOne \/ NoMemory \/ NoneLeft \/ Returned

\* One thread runs the call to its end.
Spec == Init /\ [][Next]_vars /\ WF_vars(Next)

-----------------------------------------------------------------------------
(* Properties.                                                             *)

\* Each byte of a text replaced, if it is the one that is searched for.
Each(t) == FlattenSeq([i \in DOMAIN t |-> IF <<t[i]>> = search THEN replace ELSE <<t[i]>>])

\* When one byte is searched for, as the parser does, the text is at any time the
\* original with that byte replaced up to some place, also when memory runs out: what
\* follows was neither lost nor taken from behind the text.
ReplacedSoFar ==
  Len(search) = 1 =>
    \E k \in 0 .. Len(original) :
      Text = Each(SubSeq(original, 1, k)) \o SubSeq(original, k + 1, Len(original))

\* The loop ends, the bytes it moves are all of the block, and unless memory ran out
\* nothing is left to replace, though a replacement may make a new one to be found.
AllReplaced == <>(status = "OUT_OF_MEMORY" \/ (status = "SUCCESS" /\ Found = {}))

=============================================================================
