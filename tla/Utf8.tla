-------------------------------- MODULE Utf8 --------------------------------
(***************************************************************************)
(* Characters in a text of bytes (string.c): String::charCount, and        *)
(* String::utf16At of webvttxx/string with webvtt_skip_utf8 and            *)
(* webvtt_utf8_to_utf16, one turn of their loops a step.  begin is where   *)
(* the caller of webvtt_skip_utf8 starts; String starts at the first byte. *)
(***************************************************************************)
EXTENDS Integers, Sequences, SequencesExt, FiniteSets

CONSTANTS
  Texts,    \* texts, as sequences of bytes
  Offsets   \* how many characters may be skipped

VARIABLES
  text, begin, offset,   \* the arguments
  at,                    \* the loop that is running, or "done"
  count,                 \* the characters counted
  p,                     \* the position in the text
  left,                  \* n_chars
  need, uc, min,         \* of webvtt_utf8_to_utf16
  result, high           \* the units; high may stay as it was, unset

decoding == <<need, uc, min>>
arguments == <<text, begin, offset>>
vars == <<arguments, at, count, p, left, decoding, result, high>>

End == Len(text) + 1
Byte(i) == IF i = End THEN 0 ELSE text[i]
Trail(ch) == ch \in 128..191

\* webvtt_utf8_length.
Utf8Length(ch) ==
  CASE ch < 128 -> 1
    [] ch \in 192..223 -> 2
    [] ch \in 224..239 -> 3
    [] ch \in 240..247 -> 4
    [] ch \in 252..253 -> 5
    [] OTHER -> -1

Init ==
  /\ text \in Texts /\ begin \in 1..End /\ offset \in Offsets
  /\ at = (IF Byte(1) = 0 THEN "skip" ELSE "count") /\ count = 0
  /\ p = (IF at = "skip" THEN begin ELSE 1)
  /\ left = offset
  /\ need = 0 /\ uc = 0 /\ min = 0 /\ result = 0 /\ high = "unset"

-----------------------------------------------------------------------------
\* webvtt_utf8_chcount.
Count ==
  /\ at = "count"
  /\ IF p < End /\ Utf8Length(Byte(p)) > 0
     THEN count' = count + 1 /\ p' = p + Utf8Length(Byte(p)) /\ UNCHANGED at
     ELSE at' = "skip" /\ p' = begin /\ UNCHANGED count
  /\ UNCHANGED <<arguments, left, decoding, result, high>>

\* webvtt_next_utf8: where begin is moved to, if it is moved.
AfterTrails(i) == CHOOSE j \in i + 1 .. End : /\ j = End \/ ~Trail(Byte(j))
                                              /\ \A k \in i + 1 .. j - 1 : Trail(Byte(k))
NextUtf8(i) ==
  LET j == CASE Utf8Length(Byte(i)) > 0 -> i + Utf8Length(Byte(i))
             [] Trail(Byte(i)) -> AfterTrails(i)
             [] OTHER -> i
  IN  IF Byte(i) = 0 \/ j > End THEN i ELSE j

\* webvtt_skip_utf8, which goes on when webvtt_next_utf8 does not move.
\* Mutant: a trail byte is not counted as the rest of a character.
LeftAfterTrails(i) == IF Trail(Byte(i)) THEN left ELSE left - 1
LeftAfter(i) == left - 1
Skip ==
  /\ at = "skip" /\ left > 0 /\ p < End
  /\ p' = NextUtf8(p)
  /\ left' = (IF p' = p THEN left ELSE LeftAfter(p))
  /\ UNCHANGED <<arguments, at, count, decoding, result, high>>

Skipped ==
  /\ at = "skip" /\ (left <= 0 \/ p = End)
  /\ at' = (IF left = 0 THEN "convert" ELSE "done")
  /\ UNCHANGED <<arguments, count, p, left, decoding, result, high>>

-----------------------------------------------------------------------------
(* webvtt_utf8_to_utf16.                                                   *)

Return(r) == at' = "done" /\ result' = r

Convert ==
  /\ at = "convert"
  /\ high' = (IF p < End THEN 0 ELSE high)
  /\ CASE p = End \/ Trail(Byte(p)) -> Return(0)
       [] p < End /\ Byte(p) < 128 -> Return(Byte(p))
       [] OTHER -> at' = "decode" /\ UNCHANGED result
  /\ UNCHANGED <<arguments, count, p, left, decoding>>

Lead ==
  LET ch == Byte(p)
      Starts(bits, n, least) == uc' = bits /\ need' = n /\ min' = least
                                /\ UNCHANGED <<at, result>>
  IN  /\ at = "decode" /\ p < End /\ need = 0
      /\ p' = p + 1
      /\ CASE ch \in 192..223 -> Starts(ch % 32, 1, 128)
           [] ch \in 224..239 -> Starts(ch % 16, 2, 2048)
           [] ch \in 240..247 -> Starts(ch % 8, 3, 65536)
           [] OTHER -> Return(65533) /\ UNCHANGED decoding
      /\ UNCHANGED <<arguments, count, left, high>>

NonCharacter(c) == /\ c >= 64976 /\ c <= 1114111
                   /\ c <= 65007 \/ c % 65536 \in {65534, 65535}
Supplementary(c) == c > 65535 /\ c < 1114112
\* Mutant: a sequence that is longer than it need be is taken for its character.
RefusedNotOverlong(c) == c \in 55296..57343 \/ NonCharacter(c) \/ c >= 1114112
Refused(c) == c < min \/ c \in 55296..57343 \/ NonCharacter(c) \/ c >= 1114112

\* A byte that is not one of the trail is passed over.
Continue ==
  LET c == uc * 64 + (Byte(p) % 64) IN
  /\ at = "decode" /\ p < End /\ need > 0
  /\ p' = p + 1
  /\ IF ~Trail(Byte(p)) THEN UNCHANGED <<at, need, uc, result, high>>
     ELSE /\ uc' = c /\ need' = need - 1
          /\ CASE need > 1 -> UNCHANGED <<at, result, high>>
               [] need = 1 /\ Supplementary(c) /\ ~NonCharacter(c) ->
                    high' = (c \div 1024) + 55232 /\ Return((c % 1024) + 56320)
               [] OTHER -> Return(IF Refused(c) THEN 65533 ELSE c) /\ UNCHANGED high
  /\ UNCHANGED <<arguments, count, left, min>>

Ended ==
  /\ at = "decode" /\ p = End /\ Return(0)
  /\ UNCHANGED <<arguments, count, p, left, decoding, high>>

-----------------------------------------------------------------------------
Finished == at = "done" /\ UNCHANGED vars
Next == Count \/ Skip \/ Skipped \/ Convert \/ Lead \/ Continue \/ Ended \/ Finished

\* One thread runs the calls to their end.
Spec == Init /\ [][Next]_vars /\ WF_vars(Next)

-----------------------------------------------------------------------------
(* Properties.                                                             *)

\* Where characters start, and the position that is n characters behind begin.
Starts == {i \in 1..Len(text) : ~Trail(text[i])}
Behind == {i \in Starts : i > begin} \cup (IF begin < End THEN {End} ELSE {})
IsNth(i, n) == IF n = 0 THEN i = begin
               ELSE i \in Behind /\ Cardinality({j \in Behind : j <= i}) = n

\* The UTF-16 of a code point that was read from so many bytes; a sequence that stands
\* for no character has the replacement character, and "none" says that there is no
\* first unit.
Shortest(c) == CASE c < 128 -> 1 [] c \in 128..2047 -> 2 [] c \in 2048..65535 -> 3 [] OTHER -> 4
IsCharacter(c, bytes) ==
  /\ bytes = Shortest(c) /\ c <= 1114111 /\ c \notin 55296..57343
  /\ c \notin 64976..65007 /\ c % 65536 \notin {65534, 65535}
Units(c, bytes) == CASE ~IsCharacter(c, bytes) -> <<0, 65533>>
                     [] IsCharacter(c, bytes) /\ c < 65536 -> <<0, c>>
                     [] OTHER -> <<55296 + ((c - 65536) \div 1024), 56320 + ((c - 65536) % 1024)>>

CodePoint(bytes) ==
  LET lead == Head(bytes) % (CASE Len(bytes) = 1 -> 128 [] Len(bytes) = 2 -> 32
                               [] Len(bytes) = 3 -> 16 [] OTHER -> 8)
  IN  FoldLeft(LAMBDA c, b : c * 64 + b - 128, lead, Tail(bytes))

\* The last byte of the character that starts at i, which may lack some of its trail.
LastOf(i) == CHOOSE j \in i..Len(text) : /\ j = Len(text) \/ j + 1 \in Starts
                                        /\ \A k \in i + 1 .. j : k \notin Starts
CutOff(i) == LastOf(i) - i + 1 < Utf8Length(text[i])

\* To skip what is cut off takes forever.
Stuck == offset >= Cardinality(Behind) /\ \E i \in Starts : i >= begin /\ CutOff(i)

UnitsAt(i) ==
  IF i \notin Starts THEN IF i = End THEN <<"unset", 0>> ELSE <<0, 0>>
  ELSE IF CutOff(i) THEN <<0, 0>>
  ELSE LET last == LastOf(i) IN Units(CodePoint(SubSeq(text, i, last)), last - i + 1)

\* In a text in which at most the last character lacks some of its trail, and if that
\* one is not to be skipped, the calls return: the characters are counted, and if there
\* are enough of them behind begin (the end of the text counts as one), what is returned
\* are the UTF-16 units of the character that is offset characters away.  Sequences
\* that stand for no character, surrogates and sequences that are too long, count as
\* characters and give U+FFFD; the one that is cut off gives 0.
Utf16AtExact ==
  ~Stuck =>
    <>(/\ at = "done" /\ count = Cardinality(Starts)
       /\ IF \E i \in 1..End : IsNth(i, offset)
          THEN \E i \in 1..End : IsNth(i, offset) /\ <<high, result>> = UnitsAt(i)
          ELSE result = 0)

=============================================================================
