----------------------------- MODULE CueTimings -----------------------------
(***************************************************************************)
(* The timings line of a cue: webvtt_proc_cueline of a line that holds     *)
(* "-->" reads a time, the arrow, a time and the settings into the cue     *)
(* (webvtt_collect_timings_and_settings), reports what is wrong at its     *)
(* column, and says what comes of the cue.  The settings may also be set   *)
(* by the application itself (webvtt_cue_set_settings), with no parser.    *)
(* Every report may be answered with a negative value, and either of the   *)
(* two allocations may fail.  Columns count characters of the model.       *)
(***************************************************************************)
EXTENDS Timestamp, CueSettings

CONSTANTS
  TimingLines, \* the lines, each with "-->" somewhere in it
  Settings,    \* what an application sets
  MayFail      \* whether allocations may fail

ASSUME LinesAssumption == /\ TimingLines \subseteq Seq(STRING) /\ Settings \subseteq Seq(STRING)
                          /\ MayFail \in BOOLEAN
\* The lexer ends a line at a terminator.
ASSUME TerminatorsAssumption ==
  \A s \in TimingLines : \A i \in DOMAIN s : s[i] \notin {"CR", "LF"}

VARIABLES
  at,         \* what happens next
  parsing,    \* there is a parser; otherwise the application sets settings
  pos,        \* the place in the line (position)
  column,     \* self->column, and the local copy while settings are read
  times,      \* cue->from and cue->until, as far as they were read
  settings,   \* cue->settings, with snap_to_lines and the flags
  word,       \* the setting being looked at
  limit,      \* where the settings end
  errors,     \* the errors reported, with their column
  refused,    \* one of them was answered with a negative value
  failed,     \* an allocation failed
  status      \* what webvtt_collect_timings_and_settings returned

cueline == <<pos, column, times, settings, word, limit, errors, refused, failed, status>>
timings == <<text, parsing, at, stamp, cueline>>

Arrow == <<"-", "-", ">">>
ArrowAt(s, p) == p + 2 <= Len(s) /\ SubSeq(s, p, p + 2) = Arrow
HasArrow(s) == \E p \in DOMAIN s : ArrowAt(s, p)

TimingsInit ==
  /\ parsing \in BOOLEAN
  /\ text \in IF parsing THEN TimingLines ELSE Settings
  /\ at = (IF parsing THEN "start" ELSE "settings") /\ Idle
  /\ pos = 1 /\ column = (IF parsing THEN 1 ELSE 0) /\ times = << >>
  /\ settings = NewSettings /\ word = << >> /\ limit = 0
  /\ errors = << >> /\ refused = FALSE /\ failed = FALSE /\ status = "none"

Goto(where) == at' = where
Return(s) == at' = "done" /\ status' = s
Says(code, col) == errors' = Append(errors, <<code, col>>)

-----------------------------------------------------------------------------
\* Leading white space is passed over, and not counted.
Start ==
  /\ at = "start" /\ Goto("time")
  /\ pos' = SkipSpace(text, 1)
  /\ Call(pos')
  /\ UNCHANGED <<text, parsing, column, times, settings, word, limit, errors, refused, failed, status>>

\* webvtt_parse_timestamp runs.
ReadTime == at = "time" /\ Step /\ UNCHANGED <<text, parsing, at, cueline>>

\* webvtt_collect_timestamp: there is no time here ...
BadStamp ==
  /\ at = "time" /\ st = "returned" /\ result = BadTime
  /\ st' = "idle"
  /\ Says("EXPECTED_TIMESTAMP", column)
  /\ times' = Append(times, BadTime)
  /\ \/ Return("BAD_CUE") /\ UNCHANGED refused
     \/ Return("PARSE_ERROR") /\ refused' = TRUE
  /\ UNCHANGED <<text, parsing, pos, column, settings, word, limit, failed,
                 b, n, v, haveHours, malformed, result>>

\* ... or a malformed one that the application will not have ...
MalformedRefused ==
  /\ at = "time" /\ st = "returned" /\ result # BadTime /\ malformed
  /\ st' = "idle"
  /\ Says("MALFORMED_TIMESTAMP", column)
  /\ times' = Append(times, result)
  /\ Return("BAD_CUE") /\ refused' = TRUE
  /\ UNCHANGED <<text, parsing, pos, column, settings, word, limit, failed,
                 b, n, v, haveHours, malformed, result>>

\* ... or one to go on with.  White space after it is passed over, and counted.
\* Mutant: the column is where the time starts.
AfterStampBehind(len) ==
  LET p == SkipSpace(text, pos + len) IN pos' = p /\ column' = column + (p - pos - len)
AfterStamp(len) ==
  LET p == IF times = << >> THEN SkipSpace(text, pos + len) ELSE pos + len
  IN  pos' = p /\ column' = column + (p - pos)

GoodStamp ==
  /\ at = "time" /\ st = "returned" /\ result # BadTime
  /\ st' = "idle"
  /\ IF malformed THEN Says("MALFORMED_TIMESTAMP", column) ELSE UNCHANGED errors
  /\ times' = Append(times, result)
  /\ AfterStamp(n)
  /\ Goto(IF times = << >> THEN "arrow" ELSE "glue")
  /\ UNCHANGED <<text, parsing, settings, word, limit, refused, failed, status,
                 b, n, v, haveHours, malformed, result>>

NoArrow ==
  /\ at = "arrow" /\ ~ArrowAt(text, pos)
  /\ Return("PARSE_ERROR")
  /\ UNCHANGED <<text, parsing, stamp, pos, column, times, settings, word, limit, errors,
                 refused, failed>>

SkipArrow ==
  LET p == SkipSpace(text, pos + 3) IN
  /\ at = "arrow" /\ ArrowAt(text, pos)
  /\ pos' = p /\ column' = column + (p - pos)
  /\ Call(p) /\ Goto("time")
  /\ UNCHANGED <<text, parsing, times, settings, word, limit, errors, refused, failed, status>>

\* Something is glued to the second time.  Mutant: so is the end of the line.
GluedEnd == Char(text, pos) \notin Spaces
Glued == Char(text, pos) \notin Spaces \cup {"NUL"}

Glue ==
  /\ at = "glue"
  /\ \/ ~Glued /\ Goto("copy") /\ UNCHANGED <<errors, refused, status>>
     \/ Glued /\ Says("EXPECTED_WHITESPACE", column) /\ Goto("copy") /\ UNCHANGED <<refused, status>>
     \/ /\ Glued /\ Says("EXPECTED_WHITESPACE", column)
        /\ Return("PARSE_ERROR") /\ refused' = TRUE
  /\ UNCHANGED <<text, parsing, stamp, pos, column, times, settings, word, limit, failed>>

\* The rest of the line is copied, to be read as settings.
CopySettings ==
  /\ at = "copy" /\ Goto("settings")
  /\ UNCHANGED <<text, parsing, stamp, cueline>>

\* Without memory the copy is empty, and there are no settings.
CopyFails ==
  /\ at = "copy" /\ MayFail /\ pos <= Len(text) /\ failed' = TRUE
  /\ Return("SUCCESS")
  /\ UNCHANGED <<text, parsing, stamp, pos, column, times, settings, word, limit, errors, refused>>

-----------------------------------------------------------------------------
(* webvtt_cue_validate_set_settings, one word at a time.                   *)

\* The settings end at the first CR, or else at the first LF, or with the text.
Limit(s) == LET cr == SelectInSeq(s, LAMBDA c : c = "CR")
                lf == SelectInSeq(s, LAMBDA c : c = "LF")
            IN  IF cr # 0 THEN cr ELSE IF lf # 0 THEN lf ELSE Len(s) + 1

Begin ==
  LET p == SkipSpace(text, pos) IN
  /\ at = "settings" /\ Goto("word")
  /\ limit' = Limit(text)
  /\ pos' = p /\ column' = column + (p - pos)
  /\ UNCHANGED <<text, parsing, stamp, times, settings, word, errors, refused, failed, status>>

\* The next word is copied.
CollectWord ==
  /\ at = "word" /\ pos < limit /\ Goto("set")
  /\ pos' = WordEnd(text, pos)
  /\ word' = SubSeq(text, pos, pos' - 1)
  /\ UNCHANGED <<text, parsing, stamp, column, times, settings, limit, errors, refused, failed, status>>

\* No memory for it: the rest is given up, self->column stays, and what was copied of
\* the word is not released; only an application that sets settings is told.
WordFails ==
  /\ at = "word" /\ pos < limit /\ MayFail /\ failed' = TRUE
  /\ Return(IF parsing THEN "SUCCESS" ELSE "OUT_OF_MEMORY")
  /\ UNCHANGED <<text, parsing, stamp, pos, column, times, settings, word, limit, errors, refused>>

\* A setter looks at it, and what it says is reported; no answer to that ends the
\* loop.
SetWord ==
  /\ at = "set" /\ Goto("word")
  /\ \E r \in {SetFromString(settings, word)} :
       /\ settings' = r.settings
       /\ IF parsing /\ r.status \in DOMAIN ErrorFor THEN Says(ErrorFor[r.status], column)
                                                     ELSE UNCHANGED errors
  /\ pos' = SkipSpace(text, pos)
  /\ column' = column + Len(word) + (pos' - pos)
  /\ UNCHANGED <<text, parsing, stamp, times, word, limit, refused, failed, status>>

\* White space may reach past where the settings end.
Finished ==
  /\ at = "word" /\ pos >= limit
  /\ Return("SUCCESS")
  /\ UNCHANGED <<text, parsing, stamp, pos, column, times, settings, word, limit, errors,
                 refused, failed>>

-----------------------------------------------------------------------------
TimingsNext == \/ Start \/ ReadTime \/ BadStamp \/ MalformedRefused \/ GoodStamp
               \/ NoArrow \/ SkipArrow \/ Glue \/ CopySettings \/ CopyFails
               \/ Begin \/ CollectWord \/ WordFails \/ SetWord \/ Finished

TimingsSpec == TimingsInit /\ [][TimingsNext]_timings /\ WF_timings(TimingsNext)

\* What webvtt_proc_cueline makes of it: the cue goes on, or is skipped, or the parse
\* ends; and what webvtt_validate_cue says of the cue.
Mode == CASE status = "SUCCESS"     -> "M_CUETEXT"
          [] status = "PARSE_ERROR" -> "none"
          [] OTHER                  -> "M_SKIP_CUE"
Validates == /\ Len(times) = 2
             /\ \A i \in 1..2 : times[i] # BadTime
             /\ times[2] > times[1]

-----------------------------------------------------------------------------
(* Properties.  Said is what the text says; it knows of no routine.        *)

Said == INSTANCE SettingsText
Doc == INSTANCE Document

\* The numbers of the line are ones that the code's integers hold.
TimesFit(s) ==
  /\ Said!Usable(s, Said!FirstTime(s)) => Said!TimeFits(s, Said!FirstTime(s))
  /\ Said!Usable(s, Said!SecondTime(s)) => Said!TimeFits(s, Said!SecondTime(s))
WordsFit(S) == \A i \in S : Said!WordFits(Said!WordAt(text, i))

\* Where the words that are settings start, in a line of times or in what an application
\* sets.
SettingPlaces ==
  IF parsing THEN Said!Starts(text, SkipSpace(text, Said!Rest(text)), Len(text) + 1)
  ELSE Said!Starts(text, SkipSpace(text, 1), Limit(text))

\* No position passes the NUL of the line, no word outgrows the buffer its keyword is
\* copied to, no field leaves the range of its type, whatever numbers the text holds.
InBounds ==
  /\ parsing \in BOOLEAN /\ refused \in BOOLEAN /\ failed \in BOOLEAN
  /\ at \in {"start", "time", "arrow", "glue", "copy", "settings", "word", "set", "done"}
  /\ st \in Sections /\ b \in 1 .. Len(text) + 1 /\ n \in 0 .. Len(text)
  /\ \A i \in 1..4 : v[i] \in -(Word \div 2) .. Word \div 2 - 1
  /\ haveHours \in BOOLEAN /\ malformed \in BOOLEAN /\ result \in 0 .. Word - 1
  /\ pos \in 1 .. Len(text) + 1 /\ column \in 0 .. Len(text) + 1
  /\ Len(times) <= 2 /\ \A i \in DOMAIN times : times[i] \in 0 .. Word - 1
  /\ Copied(word) <= KeyRoom
  /\ settings.have \subseteq Keys /\ limit \in 0 .. Len(text) + 1
  /\ status \in {"none", "SUCCESS", "BAD_CUE", "PARSE_ERROR", "OUT_OF_MEMORY"}

\* webvtt_parse_timestamp takes for a time what is one, as long as the text says, and
\* gives it its value and the right mark of being malformed, whatever the jumps it
\* went through and whatever it carried over, while numbers do not wrap.
StampExact ==
  st = "returned" =>
    LET usable == Said!Usable(text, pos) IN
    /\ ~usable => result = BadTime
    /\ usable => n = Said!TimeLength(text, pos) /\ b = pos + n
    /\ usable /\ Said!TimeFits(text, pos) =>
         /\ result = Said!TimeValue(text, pos)
         /\ malformed = ~Said!Strict(text, pos)

\* What the parser says of a line of times, and the columns it says it at, are what
\* the text calls for, in order; a refused report is the last one, except among the
\* settings, and one about a malformed time costs the cue and any other the parse.
ReportsExact ==
  /\ IsPrefix(errors, Said!Complaints(text))
  /\ ~refused /\ ~failed => /\ errors = Said!Complaints(text)
                            /\ status = Said!Ending(text)
  /\ refused => status = IF Last(errors)[1] = "MALFORMED_TIMESTAMP" THEN "BAD_CUE"
                                                                   ELSE "PARSE_ERROR"
\* Every call returns, whatever the line, the callback's answers and the allocator's, and
\* where the numbers fit its reports are the ones that the line deserves.
LineExact ==
  <>(at = "done" /\ (parsing /\ TimesFit(text) /\ WordsFit(SettingPlaces) => ReportsExact))

\* When all the words were read, each setting has the last value that is one, others
\* have the value they had, and the flags tell which were given; the application that
\* sets them gets the same as the parser.
SettingsExact ==
  at = "done" /\ status = "SUCCESS" /\ ~failed /\ WordsFit(SettingPlaces) =>
    settings = Said!Final(text, SettingPlaces, NewSettings)

\* The kinds of timings that Document tells apart, as lines of characters, without
\* settings; a line of another kind has no kind here.
IsKind(s, kind) ==
  \E p \in {Said!FirstTime(s)}, q \in {Said!SecondTime(s)}, rest \in {Said!Rest(s)} :
    LET two == Said!Usable(s, p) /\ Said!HasArrowThere(s) /\ Said!Usable(s, q)
        later == Said!TimeValue(s, q) > Said!TimeValue(s, p)
        bare == SkipSpace(s, rest) > Len(s)
        strict == Said!Strict(s, p) /\ Said!Strict(s, q)
    IN
    CASE kind = "BAD"   -> ~Said!Usable(s, p)
      [] kind = "NOSEP" -> Said!Usable(s, p) /\ Said!Strict(s, p) /\ ~Said!HasArrowThere(s)
      [] kind = "OK"    -> two /\ strict /\ bare /\ later
      [] kind = "BACK"  -> two /\ strict /\ bare /\ ~later
      [] kind = "MAL"   -> two /\ bare /\ later /\ ~Said!Strict(s, p) /\ ~Said!Strict(s, q)
      [] kind = "GLUE"  -> /\ two /\ strict /\ later /\ Char(s, rest) \notin Spaces \cup {"NUL"}
                           /\ Said!SettingComplaints(s, rest) = << >>

\* The table of Document, from which Parser takes what a line of times does, is what
\* the characters of such a line do: the reports, the outcome, with an application
\* that refuses one and with one that does not, and whether the cue is a valid one.
DocumentAgrees ==
  at = "done" /\ parsing /\ ~failed /\ TimesFit(text) =>
    \A kind \in {k \in Doc!TimingSymbols \cup {"BAD"} : IsKind(text, k)} :
      /\ IF refused
         THEN status = Doc!TimingDeadStatus(kind)
         ELSE /\ status = Doc!TimingStatus(kind)
              /\ [i \in DOMAIN errors |-> errors[i][1]] = Doc!TimingReports(kind)
      /\ status = "SUCCESS" => (Validates <=> Doc!ValidTimes(kind))
=============================================================================
