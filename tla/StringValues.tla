---------------------------- MODULE StringValues ----------------------------
(***************************************************************************)
(* What the string functions promise, without buffers: every handle has a  *)
(* value of its own, and a call changes the value of the handle it is      *)
(* given and of no other.                                                  *)
(***************************************************************************)
EXTENDS Sequences, SequencesExt

CONSTANTS
  Handles,   \* the webvtt_string variables of a program
  Pieces,    \* the texts that it writes
  None       \* the value of a handle that holds no string

Bytes == UNION {{s[i] : i \in DOMAIN s} : s \in Pieces}
Written == Pieces \cup {<<c>> : c \in Bytes} \cup {<< >>}

VARIABLE value

Init == value = [h \in Handles |-> None]

Is(h, v) == value' = [value EXCEPT ![h] = v]
Text(h) == IF value[h] = None THEN << >> ELSE value[h]

\* Where s occurs in t for the first time, if it does, and t with r put there.
Places(t, s) == {i \in 1 .. Len(t) : IsPrefix(s, SubSeq(t, i, Len(t)))}
First(t, s) == {i \in Places(t, s) : \A j \in Places(t, s) : i <= j}
With(t, s, r, i) == SubSeq(t, 1, i - 1) \o r \o SubSeq(t, i + Len(s), Len(t))

Begin(h) == \E s \in Written : value[h] = None /\ Is(h, s)
Share(h, g) == value[h] = None /\ Is(h, Text(g))
Drop(h) == Is(h, None)
Extend(h) == \E s \in Written : Is(h, Text(h) \o s)
ExtendWith(h, g) == Is(h, Text(h) \o Text(g))
Replace(h) == \E s, r \in Pieces : \E i \in First(Text(h), s) : Is(h, With(Text(h), s, r, i))

Next == \E h \in Handles : \/ Begin(h) \/ Drop(h) \/ Extend(h) \/ Replace(h)
                           \/ \E g \in Handles : Share(h, g) \/ ExtendWith(h, g)
Spec == Init /\ [][Next]_value

=============================================================================
