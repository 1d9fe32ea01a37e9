------------------------------- MODULE Growth -------------------------------
(***************************************************************************)
(* The loops of grow (src/libwebvtt/string.c) that find the size of a new  *)
(* block, one turn a step, in arithmetic of 32 bits.                       *)
(***************************************************************************)
EXTENDS StringSizes

CONSTANTS
  Requests, \* the sizes that may be asked for
  Word      \* 2^32: where the arithmetic of webvtt_uint32 wraps

ASSUME RealSizes == Page = 4096 /\ Least = 64
\* A request above half a word has no power of two left to be rounded to.
ASSUME RequestsFit == /\ Word \in Nat /\ Requests \subseteq Nat
                      /\ \A g \in Requests : 2 * g <= Word
                      /\ Word > 4 * Page

VARIABLES
  grow,  \* the bytes asked for
  n,     \* the size found so far
  at     \* the loop that is running, or "done"

vars == <<grow, n, at>>

Init == /\ grow \in Requests /\ n = Page
        /\ at = IF grow < Page THEN "halving" ELSE "doubling"

\* Mutant: the last halving is not undone.
SettledLow(m) == IF m < Least THEN Least ELSE m
Settled(m) == IF m < Least THEN Least ELSE m * 2

Halve == /\ at = "halving"
         /\ LET half == n \div 2
            IN  IF half > grow THEN n' = half /\ at' = "halving"
                ELSE n' = Settled(half) /\ at' = "done"
         /\ UNCHANGED grow

Doubled(m) == (m * 2) % Word
Double == /\ at = "doubling"
          /\ n' = Doubled(n)
          /\ at' = IF Doubled(n) < grow THEN "doubling" ELSE "done"
          /\ UNCHANGED grow

Finished == at = "done" /\ UNCHANGED vars

Next == Halve \/ Double \/ Finished
\* grow is one call, which runs to its end.
Spec == Init /\ [][Next]_vars /\ WF_vars(Halve \/ Double)

-----------------------------------------------------------------------------
\* The block holds what was asked for.
BigEnough == at = "done" => n >= grow
\* A size is found, no loop runs past the largest power of two, and it is the size that
\* the other models use.
Found == <>(at = "done" /\ n = NewSize(grow))

=============================================================================
