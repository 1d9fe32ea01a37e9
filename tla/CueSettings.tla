---------------------------- MODULE CueSettings -----------------------------
(***************************************************************************)
(* The settings of a cue (cue.c): the five setters, the lookup by keyword  *)
(* and the splitting of a word at its colon.  A keyword or a value without *)
(* digits is one character here.  The number 100, the room for a keyword   *)
(* and the width of an int are parameters.                                 *)
(***************************************************************************)
EXTENDS Numbers, TLC

CONSTANTS
  Hundred,   \* the largest percentage
  KeyRoom,   \* how many characters the buffer for a keyword has; 32 in the code
  IntWord    \* the number of values an int has

ASSUME SettingsAssumption ==
  /\ Hundred \in Nat /\ KeyRoom \in Nat \ {0, 1} /\ "%" \notin DigitChars
  /\ IntWord \in Nat \ {0} /\ IntWord % 2 = 0 /\ 2 * Hundred < IntWord /\ IntWord <= Word

Aligns == {"start", "middle", "end", "left", "right"}
Verticals == {"lr", "rl"}
Keys == {"align", "line", "position", "size", "vertical"}

\* WEBVTT_AUTO is a line number like any other: -1 once it is an int.
AutoLine == -1

\* have: the flags that a setting was given.
NewSettings == [align |-> "middle", line |-> AutoLine, snap |-> TRUE, position |-> Hundred \div 2,
                size |-> Hundred, vertical |-> "horizontal", have |-> {}]

\* What a setter leaves: the new value is there even when it is the second one.
Taken(new, c, key) ==
  [settings |-> [new EXCEPT !.have = @ \cup {key}],
   status   |-> <<IF key \in c.have THEN "ALREADY" ELSE "SUCCESS", key>>]
Refused(c, key) == [settings |-> c, status |-> <<"BAD", key>>]

-----------------------------------------------------------------------------
SetAlign(c, value) ==
  IF \E a \in Aligns : value = <<a>>
  THEN Taken([c EXCEPT !.align = value[1]], c, "align") ELSE Refused(c, "align")

SetVertical(c, value) ==
  IF \E a \in Verticals : value = <<a>>
  THEN Taken([c EXCEPT !.vertical = value[1]], c, "vertical") ELSE Refused(c, "vertical")

OnlyWith(value, extra) == \A i \in DOMAIN value : IsDigit(value[i]) \/ value[i] \in extra
HasDigit(value) == \E i \in DOMAIN value : IsDigit(value[i])
\* The place of the first percent sign, 0 if there is none.
Percent(value) == SelectInSeq(value, LAMBDA x : x = "%")

\* A percent sign is looked at wherever the digits end.  Mutant: the flag is written
\* before the range is looked at.
SetLineEarly(c, value) ==
  LET x == ParseInt(value, 1)
      percent == Char(value, x.next) = "%"
      snapped == [c EXCEPT !.snap = ~percent]
  IN
  IF \/ ~OnlyWith(value, {"-", "%"}) \/ ~HasDigit(value)
     \/ \E i \in 2 .. Len(value) : value[i] = "-"
     \/ Percent(value) # 0 /\ (Percent(value) # Len(value) \/ value[1] = "-")
  THEN Refused(c, "line")
  ELSE IF percent /\ x.value > Hundred THEN Refused(snapped, "line")
  ELSE Taken([snapped EXCEPT !.line = Signed(x.value, IntWord)], c, "line")
SetLine(c, value) ==
  LET x == ParseInt(value, 1)
      percent == Char(value, x.next) = "%"
  IN
  IF \/ ~OnlyWith(value, {"-", "%"}) \/ ~HasDigit(value)
     \/ \E i \in 2 .. Len(value) : value[i] = "-"
     \/ Percent(value) # 0 /\ (Percent(value) # Len(value) \/ value[1] = "-")
     \/ percent /\ x.value > Hundred
  THEN Refused(c, "line")
  ELSE Taken([c EXCEPT !.line = Signed(x.value, IntWord), !.snap = ~percent], c, "line")

\* What position and size share: a percentage, and nothing after its sign.
BadPercentage(value) ==
  \/ ~OnlyWith(value, {"%"}) \/ ~HasDigit(value)
  \/ Percent(value) # Len(value)
  \/ ParseInt(value, 1).value > Hundred
Percentage(value) == Unsigned(ParseInt(value, 1).value, IntWord)

SetPosition(c, value) ==
  IF BadPercentage(value) THEN Refused(c, "position")
  ELSE Taken([c EXCEPT !.position = Percentage(value)], c, "position")
SetSize(c, value) ==
  IF BadPercentage(value) THEN Refused(c, "size")
  ELSE Taken([c EXCEPT !.size = Percentage(value)], c, "size")

\* webvtt_cue_set_setting
SetSetting(c, key, value) ==
  CASE key = <<"align">>    -> SetAlign(c, value)
    [] key = <<"line">>     -> SetLine(c, value)
    [] key = <<"position">> -> SetPosition(c, value)
    [] key = <<"size">>     -> SetSize(c, value)
    [] key = <<"vertical">> -> SetVertical(c, value)
    [] OTHER                -> Refused(c, "cuesetting")

-----------------------------------------------------------------------------
\* webvtt_cue_set_setting_from_string: the word is split at its first colon.
ColonAt(word) == SelectInSeq(word, LAMBDA x : x = ":")
KeyLength(word) == ColonAt(word) - 1
Splits(word) == ColonAt(word) \notin {0, 1, Len(word)}

\* How many characters of the word are copied to the buffer, and a NUL after them.
\* Mutant: the NUL is forgotten.
CopiedNoNul(word) == IF Splits(word) /\ KeyLength(word) <= KeyRoom
                     THEN KeyLength(word) + 1 ELSE 0
Copied(word) == IF Splits(word) /\ KeyLength(word) <= KeyRoom - 1
                THEN KeyLength(word) + 1 ELSE 0

SetFromString(c, word) ==
  IF Copied(word) = 0 THEN Refused(c, "cuesetting")
  ELSE SetSetting(c, SubSeq(word, 1, KeyLength(word)), SubSeq(word, ColonAt(word) + 1, Len(word)))

\* webvtt_error_for_status, for what setters return.
ErrorFor ==
     <<"BAD", "align">>    :> "ALIGN_BAD_VALUE"    @@ <<"ALREADY", "align">>    :> "ALIGN_ALREADY_SET"
  @@ <<"BAD", "line">>     :> "LINE_BAD_VALUE"     @@ <<"ALREADY", "line">>     :> "LINE_ALREADY_SET"
  @@ <<"BAD", "position">> :> "POSITION_BAD_VALUE" @@ <<"ALREADY", "position">> :> "POSITION_ALREADY_SET"
  @@ <<"BAD", "size">>     :> "SIZE_BAD_VALUE"     @@ <<"ALREADY", "size">>     :> "SIZE_ALREADY_SET"
  @@ <<"BAD", "vertical">> :> "VERTICAL_BAD_VALUE" @@ <<"ALREADY", "vertical">> :> "VERTICAL_ALREADY_SET"
  @@ <<"BAD", "cuesetting">> :> "INVALID_CUESETTING"
=============================================================================
