---------------------------- MODULE SettingsText ----------------------------
(***************************************************************************)
(* What the settings of a cue say, read off the text: the words of it, the *)
(* meaning of each, the value each key ends with and what there is to      *)
(* report.  The comments of the setters quote the format step by step;     *)
(* here each setting is said in one piece, with the numbers of arithmetic. *)
(***************************************************************************)
EXTENDS TimestampText, TLC

CONSTANTS Hundred, IntWord

\* The places where the words of s between places p and q start, and the word at one.
Starts(s, p, q) == {i \in p .. q - 1 : ~IsSpace(s[i]) /\ (i = p \/ IsSpace(s[i - 1]))}
WordAt(s, i) == SubSeq(s, i, WordEnd(s, i) - 1)

\* A word is a key, a colon and a value, neither of them empty; there is one way to
\* take the colon, the first.
Key(w) == LET i == SelectInSeq(w, LAMBDA c : c = ":")
          IN  IF i > 1 /\ i < Len(w) THEN SubSeq(w, 1, i - 1) ELSE << >>
Value(w) == SubSeq(w, SelectInSeq(w, LAMBDA c : c = ":") + 1, Len(w))

IsNumber(x) == x # << >> /\ \A i \in DOMAIN x : IsDigit(x[i])
NumberOf(x) == Spelled(x, 1, Len(x))
Signless(x) == IF x # << >> /\ Head(x) = "-" THEN Tail(x) ELSE x

\* A number of percent, at most a hundred; a line number.
IsPercentage(x) == /\ x # << >> /\ x[Len(x)] = "%" /\ IsNumber(Front(x))
                   /\ NumberOf(Front(x)) <= Hundred
IsLine(x) == IsPercentage(x) \/ IsNumber(Signless(x))

\* The word is a setting of this key.
Means(w, key) ==
  /\ Key(w) = <<key>>
  /\ CASE key = "align"    -> \E a \in {"start", "middle", "end", "left", "right"} : Value(w) = <<a>>
       [] key = "vertical" -> Value(w) \in {<<"lr">>, <<"rl">>}
       [] key = "line"     -> IsLine(Value(w))
       [] OTHER            -> IsPercentage(Value(w))

TextKeys == {"align", "line", "position", "size", "vertical"}

\* No number in the word is too long for the integer it is read into, or kept in.
WordFits(w) ==
  LET x == Value(w)
  IN  Key(w) = << >> \/ \A i \in DOMAIN x : Spelled(x, i, Run(x, i)) < IntWord \div 2

-----------------------------------------------------------------------------
\* Of the words of s at the places S that mean something to a key, the last is the one
\* that counts: its place, 0 if there is none.
Meaning(s, S, key) == {i \in S : Means(WordAt(s, i), key)}
LastMeaning(s, S, key) == IF Meaning(s, S, key) = {} THEN 0 ELSE Max(Meaning(s, S, key))

LineNumber(x) == IF x[Len(x)] = "%" THEN NumberOf(Front(x))
                 ELSE IF Head(x) = "-" THEN -NumberOf(Tail(x)) ELSE NumberOf(x)

\* The settings a cue with settings c has after the words of s at the places S.
Final(s, S, c) ==
  LET Is(key) == LastMeaning(s, S, key)
      Of(key) == Value(WordAt(s, Is(key)))
  IN  [align    |-> IF Is("align") = 0 THEN c.align ELSE Of("align")[1],
       vertical |-> IF Is("vertical") = 0 THEN c.vertical ELSE Of("vertical")[1],
       position |-> IF Is("position") = 0 THEN c.position ELSE NumberOf(Front(Of("position"))),
       size     |-> IF Is("size") = 0 THEN c.size ELSE NumberOf(Front(Of("size"))),
       line     |-> IF Is("line") = 0 THEN c.line ELSE LineNumber(Of("line")),
       snap     |-> IF Is("line") = 0 THEN c.snap ELSE Of("line")[Len(Of("line"))] # "%",
       have     |-> c.have \cup {key \in TextKeys : Is(key) # 0}]

BadValue == "align" :> "ALIGN_BAD_VALUE" @@ "line" :> "LINE_BAD_VALUE"
         @@ "position" :> "POSITION_BAD_VALUE" @@ "size" :> "SIZE_BAD_VALUE"
         @@ "vertical" :> "VERTICAL_BAD_VALUE"
AlreadySet == "align" :> "ALIGN_ALREADY_SET" @@ "line" :> "LINE_ALREADY_SET"
           @@ "position" :> "POSITION_ALREADY_SET" @@ "size" :> "SIZE_ALREADY_SET"
           @@ "vertical" :> "VERTICAL_ALREADY_SET"

\* What is said of the word at place i of the places S: that no key takes it, that its
\* key does not, or that its key has had a value before.
Complaint(s, S, i) ==
  LET w == WordAt(s, i)
      keys == {key \in TextKeys : Key(w) = <<key>>}
      key == CHOOSE k \in keys : TRUE
  IN  IF keys = {} THEN "INVALID_CUESETTING"
      ELSE IF ~Means(w, key) THEN BadValue[key]
      ELSE IF \E j \in Meaning(s, S, key) : j < i THEN AlreadySet[key]
      ELSE "none"

-----------------------------------------------------------------------------
(* The line of a cue's times: where its parts are, what it makes the       *)
(* parser say, in order, each with the column it is at, and how it ends.   *)

\* Columns count from the first character that is not white space.
Column(s, p) == p - SkipSpace(s, 1) + 1
FirstTime(s) == SkipSpace(s, 1)
ArrowPlace(s) == SkipSpace(s, FirstTime(s) + TimeLength(s, FirstTime(s)))
HasArrowThere(s) == /\ ArrowPlace(s) + 2 <= Len(s)
                    /\ SubSeq(s, ArrowPlace(s), ArrowPlace(s) + 2) = <<"-", "-", ">">>
SecondTime(s) == SkipSpace(s, ArrowPlace(s) + 3)
Rest(s) == SecondTime(s) + TimeLength(s, SecondTime(s))

Ending(s) == CASE ~Usable(s, FirstTime(s))  -> "BAD_CUE"
               [] ~HasArrowThere(s)         -> "PARSE_ERROR"
               [] ~Usable(s, SecondTime(s)) -> "BAD_CUE"
               [] OTHER                     -> "SUCCESS"

TimeComplaint(s, p) ==
  IF ~Usable(s, p) THEN <<<<"EXPECTED_TIMESTAMP", Column(s, p)>>>>
  ELSE IF ~Strict(s, p) THEN <<<<"MALFORMED_TIMESTAMP", Column(s, p)>>>> ELSE << >>

SettingComplaints(s, p) ==
  LET S == Starts(s, p, Len(s) + 1)
      said[i \in p - 1 .. Len(s)] ==
        IF i < p THEN << >>
        ELSE IF i \notin S \/ Complaint(s, S, i) = "none" THEN said[i - 1]
        ELSE Append(said[i - 1], <<Complaint(s, S, i), Column(s, i)>>)
  IN  said[Len(s)]

Complaints(s) ==
  TimeComplaint(s, FirstTime(s))
  \o IF ~Usable(s, FirstTime(s)) \/ ~HasArrowThere(s) THEN << >>
     ELSE TimeComplaint(s, SecondTime(s))
          \o IF ~Usable(s, SecondTime(s)) THEN << >>
             ELSE (IF Rest(s) <= Len(s) /\ ~IsSpace(s[Rest(s)])
                   THEN <<<<"EXPECTED_WHITESPACE", Column(s, Rest(s))>>>> ELSE << >>)
                  \o SettingComplaints(s, SkipSpace(s, Rest(s)))
=============================================================================
