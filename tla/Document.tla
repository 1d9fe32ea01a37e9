------------------------------ MODULE Document ------------------------------
(***************************************************************************)
(* WebVTT documents at the grain the parser tells apart, and what such a   *)
(* document says when it is read line by line.                             *)
(*                                                                         *)
(* A document is a sequence of symbols.  The six bytes of the signature    *)
(* are two symbols, so that a chunk can end inside it; a line terminator   *)
(* is LF, CR or CR followed by LF, so that a chunk can end inside it too.  *)
(* A timing symbol stands for a whole stretch of text that holds "-->":    *)
(*   OK     two well-formed times, the second later than the first         *)
(*   BACK   two well-formed times, the second not later than the first     *)
(*   MAL    two malformed but usable times (one digit of minutes)          *)
(*   GLUE   two well-formed times with a setting glued to the second       *)
(*   NOSEP  a time that is not followed by "-->", which comes later        *)
(* None of VTT, WEB, TXT starts with a digit or holds a part of "-->".     *)
(***************************************************************************)
EXTENDS Naturals, Sequences, SequencesExt

TimingSymbols == {"OK", "BACK", "MAL", "GLUE", "NOSEP"}
Symbols == {"WEB", "VTT", "SP", "TXT", "LF", "CR"} \cup TimingSymbols

IsEol(s) == s \in {"LF", "CR"}

-----------------------------------------------------------------------------
(* One line of text (no line terminator in it).                            *)

HasArrow(line) == \E i \in DOMAIN line : line[i] \in TimingSymbols

\* What is left after leading white space decides what the timings are.
FirstField(line) == SelectInSeq(line, LAMBDA s : s # "SP")

TimingKind(line) ==
  LET i == FirstField(line)
  IN  IF i # 0 /\ line[i] \in TimingSymbols THEN line[i] ELSE "BAD"

\* The errors collecting timings of this kind reports, in order.
TimingReports(kind) ==
  CASE kind = "BAD"  -> <<"EXPECTED_TIMESTAMP">>
    [] kind = "MAL"  -> <<"MALFORMED_TIMESTAMP", "MALFORMED_TIMESTAMP">>
    [] kind = "GLUE" -> <<"EXPECTED_WHITESPACE">>
    [] OTHER         -> << >>

\* The status of the collection when the application lets every report pass,
\* and when it answers one of them with a negative value.
TimingStatus(kind) ==
  CASE kind = "NOSEP" -> "PARSE_ERROR"
    [] kind = "BAD"   -> "BAD_CUE"
    [] OTHER          -> "SUCCESS"
TimingDeadStatus(kind) == IF kind = "MAL" THEN "BAD_CUE" ELSE "PARSE_ERROR"

\* webvtt_validate_cue: both times were read and the end is after the start.
ValidTimes(kind) == kind \in {"OK", "MAL", "GLUE"}

-----------------------------------------------------------------------------
(* The reference reading: the document is split into lines first, and the  *)
(* lines are read one after the other.  Nothing here knows about chunks,   *)
(* tokens, stacks or buffers.                                              *)

SplitSymbol(acc, s) ==
  CASE s = "LF" /\ acc.cr -> [acc EXCEPT !.cr = FALSE]
    [] IsEol(s) /\ ~(s = "LF" /\ acc.cr) ->
         [lines |-> Append(acc.lines, acc.rest), rest |-> << >>, cr |-> s = "CR"]
    [] OTHER -> [acc EXCEPT !.rest = Append(@, s), !.cr = FALSE]

\* The terminated lines of the first n symbols, and the text after the last of them.
Splits(doc) ==
  LET f[n \in 0 .. Len(doc)] == IF n = 0 THEN [lines |-> << >>, rest |-> << >>, cr |-> FALSE]
                               ELSE SplitSymbol(f[n - 1], doc[n])
  IN  f
Split(doc) == Splits(doc)[Len(doc)]

\* An unterminated last line counts as a line when there is text on it.
Lines(doc) == LET s == Split(doc) IN
  IF s.rest = << >> THEN s.lines ELSE Append(s.lines, s.rest)

IsSignature(line) == \/ line = <<"WEB", "VTT">>
                     \/ Len(line) > 2 /\ SubSeq(line, 1, 3) = <<"WEB", "VTT", "SP">>

\* A cue as the application sees it: its id line, its timings, its text.
NoCue == [id |-> << >>, time |-> "none", body |-> << >>]

\* Where the reader of lines is: "header" and "gap" are the first line and
\* the one after it, "body" is between cues, "id" follows an id line, "text"
\* and "skip" are inside the text of a good and of a bad cue, "dead" follows
\* a first line that is not the signature.
ReaderStart == [phase |-> "header", cue |-> NoCue, cues |-> << >>,
                errors |-> {}, line |-> 1, chained |-> FALSE]

Emit(r) == IF r.phase = "text" /\ ValidTimes(r.cue.time)
           THEN [r EXCEPT !.cues = Append(@, r.cue)] ELSE r

Complain(r, code) == [r EXCEPT !.errors = @ \cup {<<code, r.line>>}]

StartTimings(r, id, l) ==
  LET k == TimingKind(l)
      e == TimingReports(k)
      said == IF e = << >> THEN r ELSE Complain(r, Head(e))
  IN  IF TimingStatus(k) = "SUCCESS"
      THEN [said EXCEPT !.phase = "text", !.cue = [id |-> id, time |-> k, body |-> << >>]]
      ELSE [said EXCEPT !.phase = "skip", !.cue = NoCue]

ReadBodyLine(r, l) ==
  CASE l = << >> -> [r EXCEPT !.phase = "body"]
    [] HasArrow(l) -> StartTimings(r, << >>, l)
    [] OTHER -> [r EXCEPT !.phase = "id", !.cue = [NoCue EXCEPT !.id = l]]

ReadTextLine(r, l) ==
  CASE l = << >> -> [Emit(r) EXCEPT !.phase = "body", !.cue = NoCue]
    [] HasArrow(l) -> StartTimings([Emit(r) EXCEPT !.chained = TRUE], << >>, l)
    [] OTHER -> IF r.phase = "text" THEN [r EXCEPT !.cue.body = Append(@, l)] ELSE r

ReadLine(r, l) ==
  LET next ==
        CASE r.phase = "header" ->
               IF IsSignature(l) THEN [r EXCEPT !.phase = "gap"]
               ELSE [Complain(r, "MALFORMED_TAG") EXCEPT !.phase = "dead"]
          [] r.phase = "gap" ->
               ReadBodyLine(IF l = << >> THEN r ELSE Complain(r, "EXPECTED_EOL"), l)
          [] r.phase = "body" -> ReadBodyLine(r, l)
          [] r.phase = "id" ->
               IF HasArrow(l) THEN StartTimings(r, r.cue.id, l)
               ELSE [Complain(r, "CUE_INCOMPLETE") EXCEPT !.phase = "skip", !.cue = NoCue]
          [] r.phase \in {"text", "skip"} -> ReadTextLine(r, l)
          [] OTHER -> r
  IN  [next EXCEPT !.line = @ + 1]

\* The reader after the first n lines.
Readers(lines) ==
  LET f[n \in 0 .. Len(lines)] == IF n = 0 THEN ReaderStart ELSE ReadLine(f[n - 1], lines[n])
  IN  f
Reading(doc) == Readers(Lines(doc))[Len(Lines(doc))]

\* The cues of a document, in order.
CuesOf(doc) == Emit(Reading(doc)).cues

\* The errors there are to report, each with its line.  A document that ends
\* after an id line leaves a cue incomplete.
ErrorsOf(doc) == LET r == Reading(doc) IN
  r.errors \cup IF r.phase = "id" THEN {<<"CUE_INCOMPLETE", r.line - 1>>} ELSE {}

\* Some cue starts on a line inside the text of another.
Chained(doc) == Reading(doc).chained

\* Every time that starts a line of timings is followed by its separator.
Separated(doc) == \A i \in DOMAIN doc : doc[i] # "NOSEP"

\* Something follows the signature on its line.
Commented(doc) == Len(doc) > 2 /\ SubSeq(doc, 1, 3) = <<"WEB", "VTT", "SP">>

\* How many lines certainly end inside the document: the one before a CR at
\* its very end may still be followed by LF.
Ended(doc) == LET s == Split(doc) IN
  Len(s.lines) - (IF s.rest = << >> /\ s.cr THEN 1 ELSE 0)

\* The line that does not, if there is one, and where the reader is before it.
OpenLine(doc) == IF Len(Lines(doc)) > Ended(doc) THEN Last(Lines(doc)) ELSE << >>
BeforeOpen(doc) == Readers(Lines(doc))[Ended(doc)].phase

\* The open line would start a cue inside the text of another.
ArrowAtEnd(doc) == HasArrow(OpenLine(doc)) /\ BeforeOpen(doc) \in {"text", "skip"}

\* The n-th symbol ends a line that a cue starts with: its id or its timings.
StartsCue(phase, l) == \/ phase \in {"gap", "body"} /\ l # << >>
                       \/ phase = "id"
                       \/ phase \in {"text", "skip"} /\ HasArrow(l)
EndsCueLine(doc, n) ==
  LET ended == Splits(doc)[n].lines
      m == Len(ended)
  IN  n > 0 /\ doc[n] = "LF" /\ StartsCue(Readers(Lines(doc))[m - 1].phase, ended[m])

\* The open line, outside any cue, ends inside a token.
Partial(line) == line = <<"WEB">> \/ \A i \in DOMAIN line : line[i] = "SP"
EndsInToken(doc) == LET l == OpenLine(doc) IN
  \/ l # << >> /\ Partial(l) /\ BeforeOpen(doc) \in {"gap", "body"}
  \/ /\ Len(Lines(doc)) > Ended(doc) /\ BeforeOpen(doc) = "header"
     /\ Partial(l) \/ l = <<"WEB", "VTT", "WEB">>

=============================================================================
