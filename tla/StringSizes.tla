----------------------------- MODULE StringSizes -----------------------------
(***************************************************************************)
(* The sizes of string buffers: what grow (src/libwebvtt/string.c) is to   *)
(* find, said without its loops.                                           *)
(***************************************************************************)
EXTENDS Naturals, FiniteSetsExt

CONSTANTS
  Page,   \* where the two ways to grow meet: 0x1000
  Least   \* the smallest block: 1 << 6

ASSUME SizesAssumption == Least \in Nat /\ Page \in Nat /\ Page < 2^30

\* The powers of two below half of what 32 bits count.
Powers == {2^k : k \in 0 .. 30}

\* The block for a request of g bytes: a power of two that holds it, and no
\* larger than the double of it unless it is the smallest one of its kind.
NewSize(g) == IF g < Page THEN Max({Least, Min({p \in Powers : p > g})})
              ELSE Min({p \in Powers : p > Page /\ p >= g})

=============================================================================
