--------------------------- MODULE TimestampText ----------------------------
(***************************************************************************)
(* What a time is, said of the text and not of a routine that reads it:    *)
(* two or three runs of digits with colons between them, a point, and a    *)
(* last run.  Numbers are those of arithmetic: nothing wraps.              *)
(***************************************************************************)
EXTENDS Numbers

\* The number of digits at place p, and the number they spell.
Run(s, p) == DigitsEnd(s, p) - p
Spelled(s, p, k) ==
  LET acc[i \in 0 .. k] == IF i = 0 THEN 0 ELSE acc[i - 1] * Base + DigitValue(s[p + i - 1])
  IN  acc[k]

\* The places of the runs of digits of a time at place p: minutes, seconds and
\* fraction, or hours before them.
After(s, p) == p + Run(s, p) + 1
PlacesFrom(s, p, q, r) == IF Char(s, r - 1) = ":" THEN <<p, q, r, After(s, r)>> ELSE <<p, q, r>>
Places(s, p) == PlacesFrom(s, p, After(s, p), After(s, After(s, p)))

\* A time stands at place p: its runs are separated as they must be, and only the
\* seconds after hours may have no digit.
Usable(s, p) ==
  LET at == Places(s, p) IN
  /\ \A i \in DOMAIN at : Run(s, at[i]) > 0 \/ (i = 3 /\ Len(at) = 4)
  /\ \A i \in 2 .. Len(at) : Char(s, at[i] - 1) = IF i = Len(at) THEN "." ELSE ":"

Fields(s, p) == LET at == Places(s, p)
                IN  [i \in DOMAIN at |-> Spelled(s, at[i], Run(s, at[i]))]

TimeLength(s, p) == LET at == Places(s, p)
                    IN  at[Len(at)] + Run(s, at[Len(at)]) - p

TimeValue(s, p) ==
  LET x == Fields(s, p)
      k == Len(x)
      hours == IF k = 4 THEN x[1] ELSE 0
  IN  ((hours * Sixty + x[k - 2]) * Sixty + x[k - 1]) * Thousand + x[k]

\* Two digits below sixty everywhere, three in the fraction.  Any number of hours
\* will do, and so will one digit of them (the format asks for two).
Strict(s, p) ==
  LET at == Places(s, p)
      x  == Fields(s, p)
      k  == Len(at)
  IN  /\ Run(s, at[k]) = 3
      /\ \A i \in {k - 2, k - 1} : Run(s, at[i]) = 2 /\ x[i] < Sixty

\* Every number of the time, and the time, is one a webvtt_int64 holds.
TimeFits(s, p) == \A x \in ToSet(Fields(s, p)) \cup {TimeValue(s, p)} : x < Word \div 2
=============================================================================
