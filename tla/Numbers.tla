------------------------------ MODULE Numbers -------------------------------
(***************************************************************************)
(* The integers the parser reads (webvtt_parse_int) and the characters of  *)
(* a line as its C code sees them: a string is read up to the NUL that     *)
(* ends it.  The base and the width of an integer are parameters, so that  *)
(* an instance of a few digits reaches the places where numbers wrap.      *)
(***************************************************************************)
EXTENDS Integers, Sequences, SequencesExt

CONSTANTS
  Digits,   \* the digit characters, "0" first; ten of them in the code
  Word,     \* the number of values a webvtt_int64 has; 2^64 in the code
  Sixty,    \* seconds in a minute and minutes in an hour
  Thousand  \* milliseconds in a second

ASSUME DigitsAssumption ==
  /\ Digits \in Seq(STRING) /\ Len(Digits) > 1 /\ IsInjective(Digits)
  /\ ToSet(Digits) \cap {"-", ":", ".", "NUL"} = {}
ASSUME WordAssumption == Word \in Nat \ {0} /\ Word % 2 = 0

Base == Len(Digits)

\* Two digits spell more than Sixty values, three spell Thousand.
ASSUME UnitsAssumption == /\ Sixty \in Nat \ {0} /\ Sixty < Base * Base
                          /\ Thousand = Base * Base * Base

DigitChars == ToSet(Digits)
IsDigit(c) == c \in DigitChars
DigitValue(c) == (CHOOSE i \in DOMAIN Digits : Digits[i] = c) - 1

\* webvtt_isspace; the characters of a line are the members of a small set.
Spaces == {" ", "TAB", "FF", "LF", "CR"}
IsSpace(c) == c \in Spaces

\* The character at place p; the NUL is read, nothing after it is.
Char(s, p) == IF p <= Len(s) THEN s[p] ELSE "NUL"

\* What is left of an integer in two's complement of w values, and unsigned.
Signed(x, w) == ((x + w \div 2) % w) - w \div 2
Unsigned(x, w) == x % w

-----------------------------------------------------------------------------
\* The first place from p on whose character passes a test, or the place of the NUL.
FirstWhere(s, p, Test(_)) ==
  CHOOSE q \in p .. p + Len(s) + 1 : /\ q > Len(s) \/ Test(s[q])
                                     /\ \A i \in p .. q - 1 : i <= Len(s) /\ ~Test(s[i])

DigitsEnd(s, p) == FirstWhere(s, p, LAMBDA c : ~IsDigit(c))

\* The number spelled by the digits of places p to q - 1, each step in w values.
Accumulate(s, p, q, w) ==
  LET acc[i \in p .. q] == IF i = p THEN 0
                           ELSE Signed(acc[i - 1] * Base + DigitValue(s[i - 1]), w)
  IN  acc[q]

\* webvtt_parse_int at place p: the value, how many digits, the place after them.
ParseInt(s, p) ==
  LET minus == Char(s, p) = "-"
      start == IF minus THEN p + 1 ELSE p
      stop  == DigitsEnd(s, start)
      value == Accumulate(s, start, stop, Word)
  IN  [value |-> IF minus THEN Signed(-value, Word) ELSE value,
       digits |-> stop - start, next |-> stop]

\* webvtt_string_skip_whitespace from place p: the first place after it.
SkipSpace(s, p) == FirstWhere(s, p, LAMBDA c : ~IsSpace(c))

\* webvtt_string_collect_word from place p: the first place after the word.
WordEnd(s, p) == FirstWhere(s, p, IsSpace)
=============================================================================
