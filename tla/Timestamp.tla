----------------------------- MODULE Timestamp ------------------------------
(***************************************************************************)
(* webvtt_parse_timestamp: one call reads a time at a place of the line.   *)
(* An action is a stretch of the routine between two of its jumps.  The    *)
(* numbers 60 and 1000 of the code are parameters, as its base is: two     *)
(* digits spell more than Sixty values and three digits spell Thousand.    *)
(***************************************************************************)
EXTENDS Numbers

VARIABLES
  text,       \* the line
  st,         \* where the routine is, "idle" outside of it
  b,          \* the place it reads next
  n,          \* what it counts as read
  v,          \* hours, minutes, seconds, milliseconds
  haveHours,
  malformed,
  result      \* the time it returns

stamp == <<st, b, n, v, haveHours, malformed, result>>

\* All ones, the time that stands for none.
BadTime == Word - 1
MsPerSecond == Thousand
MsPerMinute == Sixty * Thousand
MsPerHour == Sixty * Sixty * Thousand

Sections == {"idle", "first", "second", "third", "fraction", "carry", "returned"}

Idle == /\ st = "idle" /\ b = 1 /\ n = 0 /\ v = <<0, 0, 0, 0>>
        /\ haveHours = FALSE /\ malformed = FALSE /\ result = BadTime

\* The call at place p.  v is not initialised: each field is set before it is read.
Call(p) == /\ st' = "first" /\ b' = p /\ n' = 0 /\ haveHours' = FALSE /\ malformed' = FALSE
           /\ UNCHANGED <<v, result>>

NotTimestamp == /\ st' = "returned" /\ result' = BadTime
                /\ UNCHANGED <<b, n, v, haveHours, malformed>>

\* Digits, then a colon; hours when they cannot be minutes.
NoDigit == st = "first" /\ ~IsDigit(Char(text, b)) /\ NotTimestamp

First ==
  LET x == ParseInt(text, b) IN
  /\ st = "first" /\ IsDigit(Char(text, b))
  /\ v' = [v EXCEPT ![1] = x.value]
  /\ haveHours' = (x.digits # 2 \/ x.value > Sixty - 1)
  /\ n' = n + x.digits /\ b' = x.next /\ st' = "second"
  /\ UNCHANGED <<malformed, result>>

\* The second number.
Colon(p) == Char(text, p) = ":" /\ IsDigit(Char(text, p + 1))

NoSecond == st = "second" /\ ~Colon(b) /\ NotTimestamp

Second ==
  LET x == ParseInt(text, b + 1) IN
  /\ st = "second" /\ Colon(b)
  /\ v' = [v EXCEPT ![2] = x.value]
  /\ malformed' = (x.digits # 2)
  /\ n' = n + 1 + x.digits /\ b' = x.next /\ st' = "third"
  /\ UNCHANGED <<haveHours, result>>

\* A third number, which may have no digit at all ...
NoThird == /\ st = "third" /\ haveHours /\ Char(text, b) \notin {":", "."}
           /\ NotTimestamp

Third ==
  LET x == ParseInt(text, b + 1)
      none == ~IsDigit(Char(text, b + 1))
  IN
  /\ st = "third" /\ Char(text, b) = ":"
  /\ v' = [v EXCEPT ![3] = IF none THEN 0 ELSE x.value]
  /\ malformed' = (malformed \/ none \/ x.digits # 2)
  /\ n' = n + 1 + (IF none THEN 0 ELSE x.digits)
  /\ b' = IF none THEN b + 1 ELSE x.next
  /\ st' = "fraction"
  /\ UNCHANGED <<haveHours, result>>

\* ... or there are only minutes and seconds; what was taken for hours cannot be minutes.
Shift ==
  /\ st = "third" /\ Char(text, b) # ":" /\ (haveHours => Char(text, b) = ".")
  /\ v' = <<0, v[1], v[2], v[4]>>
  /\ malformed' = (malformed \/ haveHours)
  /\ st' = "fraction"
  /\ UNCHANGED <<b, n, haveHours, result>>

\* The milliseconds.
Point(p) == Char(text, p) = "." /\ IsDigit(Char(text, p + 1))

NoFraction == st = "fraction" /\ ~Point(b) /\ NotTimestamp

Fraction ==
  LET x == ParseInt(text, b + 1) IN
  /\ st = "fraction" /\ Point(b)
  /\ v' = [v EXCEPT ![4] = x.value]
  /\ malformed' = (malformed \/ x.digits # 3)
  /\ n' = n + 1 + x.digits /\ b' = x.next /\ st' = "carry"
  /\ UNCHANGED <<haveHours, result>>

\* Too many milliseconds, seconds or minutes are carried over, in this order; the
\* sum is taken in the width of a time.  What is divided is positive, so that C
\* rounds as TLA+ does.  Mutant: what is carried replaces what was there.
Over(fields, i, limit) == fields[i] > limit - 1
CarryOverLost(fields, i, limit) ==
  IF Over(fields, i, limit)
  THEN [fields EXCEPT ![i - 1] = Signed(fields[i] \div limit, Word), ![i] = @ % limit]
  ELSE fields
CarryOver(fields, i, limit) ==
  IF Over(fields, i, limit)
  THEN [fields EXCEPT ![i - 1] = Signed(@ + fields[i] \div limit, Word), ![i] = @ % limit]
  ELSE fields
Milliseconds(f) ==
  Unsigned(f[1] * MsPerHour + f[2] * MsPerMinute + f[3] * MsPerSecond + f[4], Word)

Carry ==
  LET ms      == CarryOver(v, 4, Thousand)
      seconds == CarryOver(ms, 3, Sixty)
      minutes == CarryOver(seconds, 2, Sixty)
  IN
  /\ st = "carry"
  /\ v' = minutes
  /\ malformed' = (malformed \/ minutes # v)
  /\ result' = Milliseconds(minutes)
  /\ st' = "returned"
  /\ UNCHANGED <<b, n, haveHours>>

Step == \/ NoDigit \/ First \/ NoSecond \/ Second \/ NoThird \/ Third \/ Shift
        \/ NoFraction \/ Fraction \/ Carry

\* The routine returns non-zero.
WellFormed == result # BadTime /\ ~malformed
=============================================================================
