------------------------------- MODULE Parser -------------------------------
(***************************************************************************)
(* The incremental WebVTT parser (src/libwebvtt/parser.c) and a client     *)
(* that feeds it a document in chunks of its choosing, finishes it and     *)
(* deletes it.  The parser runs in the client's thread: between two calls  *)
(* nothing moves, and inside a call each action below is one turn of one   *)
(* of the parser's loops.  Whatever a call has not used is gone when it    *)
(* returns, so all that the parser knows of earlier chunks is its state:   *)
(* the frames of its stack, the lexer's state and token, the line buffer.  *)
(***************************************************************************)
EXTENDS Document, FiniteSets

CONSTANTS
  Docs,      \* the documents a client may have
  Dies,      \* which report of a call the error callback answers with a
             \* negative value: the k-th, or none when k = 0
  Resume,    \* the statuses after which the client feeds the next chunk
  Scarce     \* the documents that are read while memory may run out

ASSUME DocsAssumption == Docs \subseteq Seq(Symbols)
ASSUME DiesAssumption == Dies \subseteq Nat
ASSUME ResumeAssumption == /\ Resume \subseteq {"SUCCESS", "UNFINISHED"}
                           /\ "SUCCESS" \in Resume

VARIABLES
  doc,       \* the client's document
  lim,       \* how much of it has been handed over, this chunk included
  pos,       \* how much of it the current call has used
  call,      \* "idle", or the call that is running, or "deleted"
  ret,       \* what the last call returned
  status,    \* the local variable of the running call
  tk,        \* the local variable token of parse_webvtt, "none" between turns
  mode, finished, stack, top, popped, lineBuf, tstate, token, line,
             \* fields of the parser
  cues,      \* every cue ever created
  delivered, \* the cues handed to the application, in order
  errors,    \* the errors reported, with their line
  strings    \* how many strings holding a line of the document are allocated

input    == <<doc, lim, pos>>
calling  == <<call, ret, status>>
lexer    == <<tstate, token, tk>>
frames   == <<stack, top, popped>>
outcome  == <<delivered, errors>>
heap     == <<cues, strings>>
vars == <<input, calling, lexer, frames, outcome, heap, mode, finished, lineBuf, line>>

States   == {"T_INITIAL", "T_TAG", "T_TAGCOMMENT", "T_EOL", "T_BODY", "T_CUE", "T_CUEREAD"}
Types    == {"V_NONE", "V_INTEGER", "V_CUE", "V_TEXT"}
Modes    == {"M_WEBVTT", "M_CUETEXT", "M_SKIP_CUE"}
Tokens   == {"BADTOKEN", "WEBVTT", "NEWLINE", "WHITESPACE"}
LexStates == {"L_START", "L_WEBVTT", "L_NEWLINE0", "L_WHITESPACE"}
Statuses == {"SUCCESS", "UNFINISHED", "PARSE_ERROR", "FAILED_ASSERTION", "OUT_OF_MEMORY"}

Depth == 0..2   \* no frame is ever pushed above the second (see StackShape)

\* The mark read_cuetext leaves at the end of the line buffer once the line is
\* complete and only its terminator is still to be read.
Mark == "NL"

-----------------------------------------------------------------------------
(* Stack frames.  text, cue and value share memory (the union v).          *)

Frame == [state : States, type : Types, back : Depth, flags : 0..1,
          text : Seq(Symbols), cue : Nat, value : Nat]

NewFrame(s, type, back) == [state |-> s, type |-> type, back |-> back, flags |-> 0,
                            text |-> << >>, cue |-> 0, value |-> 0]
EmptyFrame == NewFrame("T_INITIAL", "V_NONE", 0)

InState(f, state) == [f EXCEPT !.state = state]
BackTo(f, state) == [f EXCEPT !.state = state, !.back = 0]
WithText(f, text) == [f EXCEPT !.text = text]
WithCue(f, k) == [f EXCEPT !.cue = k]
WithValue(f, n) == [f EXCEPT !.value = n]
AtEol(f) == [f EXCEPT !.flags = 1]
ClearValue(f) == [f EXCEPT !.text = << >>, !.cue = 0, !.value = 0]
Vacate(f) == [ClearValue(f) EXCEPT !.type = "V_NONE"]

Top == stack[top]
Above == stack[top + 1]

\* A line was read for the cue on top, which has not looked at it yet.
LinePending == popped /\ Above.state = "T_CUEREAD"

-----------------------------------------------------------------------------
(* Cues.  owner says who must release the cue; nobody can release a cue    *)
(* that is lost.                                                           *)

Times == {"none", "OK", "BACK", "MAL", "GLUE"}
Owners == {"parser", "application", "released", "lost"}
Cue == [id : Seq(Symbols), haveId : BOOLEAN, time : Times,
        body : Seq(Seq(Symbols)), owner : Owners]

NewCue == [id |-> << >>, haveId |-> FALSE, time |-> "none", body |-> << >>,
           owner |-> "parser"]

AsSeen(c) == [id |-> c.id, time |-> c.time, body |-> c.body]

-----------------------------------------------------------------------------
(* Error reports: the k-th report ends the call when k = die.              *)

Report(codes, die) ==
  LET dead == die \in 1..Len(codes)
  IN  [dead |-> dead, codes |-> IF dead THEN SubSeq(codes, 1, die) ELSE codes]

Codes == {"MALFORMED_TAG", "EXPECTED_EOL", "EXPECTED_TIMESTAMP", "MALFORMED_TIMESTAMP",
          "EXPECTED_WHITESPACE", "CUE_INCOMPLETE", "ALLOCATION_FAILED", "PARSE_ERROR"}

AtLine(codes, l) == [i \in 1..Len(codes) |-> <<codes[i], l>>]

\* An allocation that fails is reported, in most places, and ends the call: at once,
\* with a parse error, when the application refuses the report.
NoMemory(die) ==
  LET r == Report(<<"ALLOCATION_FAILED">>, die)
  IN  [dead |-> r.dead, codes |-> r.codes,
       status |-> IF r.dead THEN "PARSE_ERROR" ELSE "OUT_OF_MEMORY"]

\* Whether allocations may fail, and whether the one a handler makes does.
MayFail == doc \in Scarce
Failing == {f \in BOOLEAN : f => MayFail}

-----------------------------------------------------------------------------
(* The lexer (src/libwebvtt/lexer.c), one symbol at a time: the token it   *)
(* completes ("none" when it needs more), its next state, and whether the  *)
(* symbol was used or backed up.                                           *)

Step(tok, next, used) == [token |-> tok, next |-> next, used |-> used]

Lexed(ts, s) ==
  CASE ts = "L_START" /\ s = "WEB"      -> Step("none", "L_WEBVTT", TRUE)
    [] ts = "L_START" /\ s = "SP"       -> Step("none", "L_WHITESPACE", TRUE)
    [] ts = "L_START" /\ s = "CR"       -> Step("none", "L_NEWLINE0", TRUE)
    [] ts = "L_START" /\ s = "LF"       -> Step("NEWLINE", "L_START", TRUE)
    [] ts = "L_WEBVTT" /\ s = "VTT"     -> Step("WEBVTT", "L_START", TRUE)
    [] ts = "L_NEWLINE0"                -> Step("NEWLINE", "L_START", s = "LF")
    [] ts = "L_WHITESPACE" /\ s = "SP"  -> Step("none", "L_WHITESPACE", TRUE)
    [] ts = "L_WHITESPACE" /\ s # "SP"  -> Step("WHITESPACE", "L_START", FALSE)
    [] OTHER                            -> Step("BADTOKEN", "L_START", FALSE)

\* webvtt_lex_newline: only a line terminator, and the line is not counted.
LexedNewline(ts, s) ==
  CASE ts = "L_START" /\ s = "CR"       -> Step("none", "L_NEWLINE0", TRUE)
    [] ts = "L_START" /\ s = "LF"       -> Step("NEWLINE", "L_START", TRUE)
    [] ts = "L_NEWLINE0"                -> Step("NEWLINE", "L_START", s = "LF")
    [] OTHER                            -> Step("BADTOKEN", "L_START", FALSE)

More == pos < lim
Sym == doc[pos + 1]

\* The lexer takes step x on the next symbol.
Consume(x) == /\ pos' = IF x.used THEN pos + 1 ELSE pos
              /\ tstate' = x.next

\* The token text after step x.  Mutant: a symbol backed up is not taken off again.
SpelledBackedUp(x) == Append(token, Sym)
Spelled(x) == IF x.used THEN Append(token, Sym) ELSE token

-----------------------------------------------------------------------------
(* A new parser, and the end of a call.                                    *)

Init ==
  /\ doc \in Docs /\ lim = 0 /\ pos = 0
  /\ call = "idle" /\ ret = "SUCCESS" /\ status = "SUCCESS"
  /\ mode = "M_WEBVTT" /\ finished = FALSE
  /\ stack = [i \in Depth |-> EmptyFrame] /\ top = 0 /\ popped = FALSE
  /\ lineBuf = << >> /\ tstate = "L_START" /\ token = << >> /\ tk = "none"
  /\ line = 1 /\ cues = << >> /\ delivered = << >> /\ errors = << >> /\ strings = 0

\* The call returns s, and what is left of its chunk is forgotten.
Return(s) == /\ call' = "idle" /\ ret' = s
             /\ pos' = lim /\ tk' = "none"
             /\ UNCHANGED <<doc, lim, status>>

\* The frames in use that hold a value of this type.
\* Mutant: the top frame is passed over.
HeldBelowTop(type) == {i \in 0 .. top - 1 : stack[i].type = type}
Held(type) == {i \in 0..top : stack[i].type = type}

\* cleanup_stack: what the frames up to the top hold is released.
CleanupStack ==
  LET held == Held("V_CUE")
  IN  /\ cues' = [k \in DOMAIN cues |->
                    IF \E i \in held : stack[i].cue = k
                    THEN [cues[k] EXCEPT !.owner = "released"] ELSE cues[k]]
      /\ stack' = [i \in Depth |->
                    IF i <= top THEN Vacate(stack[i])
                    ELSE stack[i]]
      /\ top' = 0
      /\ strings' = strings - (Cardinality(Held("V_TEXT"))
                    + (IF call = "idle" /\ lineBuf # << >> THEN 1 ELSE 0))

Feed ==
  /\ call = "idle" /\ ~finished /\ ret \in Resume
  /\ lim' \in lim + 1 .. Len(doc)
  /\ pos' = lim
  /\ call' = "chunk" /\ status' = "SUCCESS"
  /\ UNCHANGED <<doc, ret, lexer, frames, outcome, heap, mode, finished, lineBuf, line>>

\* A failed allocation for the id of a cue ends the call only with the chunk.
Starved == mode = "M_WEBVTT" /\ status = "OUT_OF_MEMORY"

\* The chunk is used up.  A cue text that goes on in the next chunk is no
\* failure; the text of a skipped cue that does is reported to the client.
ChunkDone ==
  /\ call = "chunk" /\ tk = "none" /\ ~More /\ ~Starved
  /\ Return(IF mode = "M_CUETEXT" /\ status = "UNFINISHED" THEN "SUCCESS" ELSE status)
  /\ UNCHANGED <<tstate, token, frames, outcome, heap, mode, finished, lineBuf, line>>

ChunkStarved ==
  /\ call = "chunk" /\ tk = "none" /\ ~More /\ Starved
  /\ CleanupStack
  /\ Return(status)
  /\ UNCHANGED <<tstate, token, popped, outcome, mode, finished, lineBuf, line>>

-----------------------------------------------------------------------------
(* parse_webvtt: the turn gets a token ...                                 *)

Turn == call = "chunk" /\ mode = "M_WEBVTT" /\ tk = "none" /\ More

Lex ==
  /\ Turn /\ Top.state # "T_CUEREAD" /\ ~(Top.state = "T_CUE" /\ LinePending)
  /\ LET x == Lexed(tstate, Sym) IN
       /\ Consume(x)
       /\ token' = Spelled(x)
       /\ tk' = x.token
       /\ line' = IF x.token = "NEWLINE" THEN line + 1 ELSE line
  /\ UNCHANGED <<doc, lim, calling, frames, outcome, heap, mode, finished, lineBuf>>

(* ... and the frame on top decides what it means.                         *)

On(state) == call = "chunk" /\ tk # "none" /\ Top.state = state

EndTurn == /\ tk' = "none" /\ token' = << >>
           /\ UNCHANGED <<input, calling, tstate>>

Quiet == UNCHANGED <<outcome, heap, mode, finished, lineBuf, line>>

\* Mutant: popping back from the new frame stops one frame short.
PushSameBack(state) ==
  /\ stack' = [stack EXCEPT ![top + 1] = NewFrame(state, "V_NONE", Top.back)]
  /\ top' = top + 1 /\ popped' = FALSE
Push(state) ==
  /\ stack' = [stack EXCEPT ![top + 1] = NewFrame(state, "V_NONE", Top.back + 1)]
  /\ top' = top + 1 /\ popped' = FALSE

\* The frame the top frame pops back to, counting line terminators from here.
PopBackAndCount(state) ==
  LET t == top - Top.back IN
  /\ stack' = [stack EXCEPT
       ![t] = BackTo(@, state),
       ![t + 1] = WithValue(NewFrame("T_EOL", "V_INTEGER", 1), 1)]
  /\ top' = t + 1 /\ popped' = FALSE

Reject(l) ==
  /\ errors' = Append(errors, <<"MALFORMED_TAG", l>>)
  /\ Return("PARSE_ERROR")
  /\ UNCHANGED <<tstate, token, frames, delivered, heap, mode, finished, lineBuf, line>>

InitialSignature == On("T_INITIAL") /\ tk = "WEBVTT" /\ Push("T_TAG") /\ EndTurn /\ Quiet
InitialReject == On("T_INITIAL") /\ tk # "WEBVTT" /\ Reject(1)

TagSpace == On("T_TAG") /\ tk = "WHITESPACE" /\ Push("T_TAGCOMMENT") /\ EndTurn /\ Quiet
TagNewline == On("T_TAG") /\ tk = "NEWLINE" /\ PopBackAndCount("T_BODY") /\ EndTurn /\ Quiet
TagReject == On("T_TAG") /\ tk \notin {"WHITESPACE", "NEWLINE"} /\ Reject(line)

\* The bottom frame keeps the state it had.
CommentNewline ==
  /\ On("T_TAGCOMMENT") /\ tk = "NEWLINE"
  /\ PopBackAndCount(stack[top - Top.back].state)
  /\ EndTurn /\ Quiet

\* Everything up to the terminator is passed over; the token is not reset.
CommentSkip ==
  /\ On("T_TAGCOMMENT") /\ tk # "NEWLINE"
  /\ pos' \in {q \in pos .. lim : (q = lim \/ IsEol(doc[q + 1]))
                                 /\ \A i \in pos + 1 .. q : ~IsEol(doc[i])}
  /\ tk' = "none"
  /\ UNCHANGED <<doc, lim, calling, tstate, token, frames>> /\ Quiet

EolCount ==
  /\ On("T_EOL") /\ tk = "NEWLINE"
  /\ stack' = [stack EXCEPT ![top] = WithValue(@, @.value + 1)]
  /\ UNCHANGED <<top, popped>> /\ EndTurn /\ Quiet

\* Not a terminator: the frame below looks at the same token (RECHECK).
\* Mutant: the frame is not popped, and looks at the same token again.
EolStay ==
  /\ On("T_EOL") /\ tk # "NEWLINE"
  /\ popped' = TRUE
  /\ UNCHANGED <<input, calling, lexer, stack, top>> /\ Quiet
EolPop ==
  /\ On("T_EOL") /\ tk # "NEWLINE"
  /\ top' = top - Top.back /\ popped' = TRUE
  /\ stack' = [stack EXCEPT ![top - Top.back] = BackTo(@, @.state)]
  /\ UNCHANGED <<input, calling, lexer>> /\ Quiet

\* T_BODY, reached from T_EOL: the blank line after the header may be missing.
FromHeader == popped /\ Above.state = "T_EOL"

\* Mutant: the line the header ends is not counted.
BodyReportsLate == IF FromHeader /\ Above.value < 1 THEN <<"EXPECTED_EOL">> ELSE << >>
BodyReports == IF FromHeader /\ Above.value < 2 THEN <<"EXPECTED_EOL">> ELSE << >>

BodyStack == IF FromHeader
             THEN [stack EXCEPT ![top + 1] = InState(ClearValue(@), "T_INITIAL")]
             ELSE stack

BodyDead(die) ==
  LET r == Report(BodyReports, die) IN
  /\ On("T_BODY") /\ r.dead
  /\ errors' = errors \o AtLine(r.codes, line)
  /\ Return("PARSE_ERROR")
  /\ UNCHANGED <<tstate, token, frames, delivered, heap, mode, finished, lineBuf, line>>

BodyNewline(die) ==
  LET r == Report(BodyReports, die) IN
  /\ On("T_BODY") /\ ~r.dead /\ tk = "NEWLINE"
  /\ errors' = errors \o AtLine(r.codes, line)
  /\ stack' = BodyStack
  /\ EndTurn
  /\ UNCHANGED <<top, popped, delivered, heap, mode, finished, lineBuf, line>>

\* A cue starts here; the token is the beginning of its first line.
BodyCue(die) ==
  LET r == Report(BodyReports, die) IN
  /\ On("T_BODY") /\ ~r.dead /\ tk # "NEWLINE"
  /\ errors' = errors \o AtLine(r.codes, line)
  /\ cues' = Append(cues, NewCue)
  /\ strings' = strings + 1
  /\ stack' = [BodyStack EXCEPT
       ![top + 1] = WithCue(NewFrame("T_CUE", "V_CUE", Top.back + 1), Len(cues) + 1),
       ![top + 2] = WithText(NewFrame("T_CUEREAD", "V_TEXT", Top.back + 2), token)]
  /\ top' = top + 2 /\ popped' = FALSE
  /\ EndTurn
  /\ UNCHANGED <<delivered, mode, finished, lineBuf, line>>

\* There is no memory for the cue, or none for its first line.  A cue that was made
\* is released, but after the report: when the report is refused it is lost.
NotMade(dead) == IF dead THEN "lost" ELSE "released"

BodyStarved(die) ==
  LET r == Report(Append(BodyReports, "ALLOCATION_FAILED"), die) IN
  /\ On("T_BODY") /\ MayFail /\ ~Report(BodyReports, die).dead /\ tk # "NEWLINE"
  /\ errors' = errors \o AtLine(r.codes, line)
  /\ cues' \in {cues, Append(cues, [NewCue EXCEPT !.owner = NotMade(r.dead)])}
  /\ stack' = IF r.dead THEN BodyStack ELSE [BodyStack EXCEPT ![top] = Vacate(@)]
  /\ Return(IF r.dead THEN "PARSE_ERROR" ELSE "OUT_OF_MEMORY")
  /\ UNCHANGED <<tstate, token, top, popped, delivered, strings, mode, finished, lineBuf, line>>

-----------------------------------------------------------------------------
(* T_CUEREAD reads a line of the cue, whatever chunks it comes in.         *)

CueReadText ==
  /\ Turn /\ Top.state = "T_CUEREAD" /\ Top.flags = 0 /\ ~IsEol(Sym)
  /\ stack' = [stack EXCEPT ![top] = WithText(@, Append(@.text, Sym))]
  /\ pos' = pos + 1
  /\ UNCHANGED <<doc, lim, calling, lexer, top, popped>> /\ Quiet

CueReadEol ==
  /\ Turn /\ Top.state = "T_CUEREAD" /\ Top.flags = 0 /\ IsEol(Sym)
  /\ stack' = [stack EXCEPT ![top] = AtEol(@)]
  /\ UNCHANGED <<input, calling, lexer, top, popped>> /\ Quiet

\* The token is not reset after this terminator.
CueReadNewline ==
  LET x == LexedNewline(tstate, Sym) IN
  /\ Turn /\ Top.state = "T_CUEREAD" /\ Top.flags = 1 /\ x.token # "BADTOKEN"
  /\ Consume(x)
  /\ token' = Spelled(x)
  /\ IF x.token = "NEWLINE" THEN top' = top - 1 /\ popped' = TRUE
                            ELSE UNCHANGED <<top, popped>>
  /\ UNCHANGED <<doc, lim, calling, tk, stack>> /\ Quiet

\* There is no memory for more of the line.  Its string is released and its frame
\* popped; if the report is not refused, what is below is cleaned up too.
CueReadStarved(die) ==
  LET r == NoMemory(die) IN
  /\ Turn /\ MayFail /\ Top.state = "T_CUEREAD" /\ Top.flags = 0
  /\ errors' = errors \o AtLine(r.codes, line)
  /\ IF r.dead THEN /\ stack' = [stack EXCEPT ![top] = Vacate(@)] /\ top' = top - 1
                    /\ strings' = strings - 1 /\ UNCHANGED cues
               ELSE CleanupStack
  /\ popped' = TRUE
  /\ Return(r.status)
  /\ UNCHANGED <<tstate, token, delivered, mode, finished, lineBuf, line>>

-----------------------------------------------------------------------------
(* webvtt_proc_cueline: the line is the timings of the cue, or its id, or  *)
(* neither.  The result is the cue afterwards, the mode, the status, the   *)
(* errors reported, whether another line is to be read, and whether the    *)
(* string holding the line, if there is one, was released.                 *)

TimingsLine(c, l, die) ==
  LET k == TimingKind(l)
      r == Report(TimingReports(k), die)
      s == IF r.dead THEN TimingDeadStatus(k) ELSE TimingStatus(k)
  IN  [cue |-> IF s = "SUCCESS" THEN [c EXCEPT !.time = k] ELSE c,
       mode |-> CASE s = "SUCCESS" -> "M_CUETEXT"
                  [] s = "BAD_CUE" -> "M_SKIP_CUE"
                  [] OTHER         -> "M_WEBVTT",
       status |-> IF s = "PARSE_ERROR" THEN s ELSE "SUCCESS",
       codes |-> r.codes, again |-> FALSE, released |-> s # "PARSE_ERROR"]

SecondIdLine(c, die) ==
  LET r == Report(<<"CUE_INCOMPLETE">>, die)
  IN  [cue |-> c, mode |-> IF r.dead THEN "M_WEBVTT" ELSE "M_SKIP_CUE",
       status |-> IF r.dead THEN "PARSE_ERROR" ELSE "SUCCESS",
       codes |-> r.codes, again |-> FALSE, released |-> TRUE]

IdLine(c, l) ==
  [cue |-> [c EXCEPT !.id = l, !.haveId = TRUE], mode |-> "M_WEBVTT",
   status |-> "SUCCESS", codes |-> << >>, again |-> TRUE, released |-> TRUE]

\* There is no memory for the id, or no line in the frame to take it from.
IdStarved(c, die) ==
  LET r == NoMemory(die)
  IN  [cue |-> c, mode |-> "M_WEBVTT", status |-> r.status,
       codes |-> r.codes, again |-> FALSE, released |-> TRUE]

\* f is the frame that holds the line.
ProcCueLine(c, f, die, fails) ==
  CASE HasArrow(f.text) -> TimingsLine(c, f.text, die)
    [] ~HasArrow(f.text) /\ c.haveId -> SecondIdLine(c, die)
    [] ~HasArrow(f.text) /\ ~c.haveId /\ (fails \/ f.type # "V_TEXT") -> IdStarved(c, die)
    [] OTHER -> IdLine(c, f.text)

\* The frames once r is the result of a line of the cue in frame t of stk.
AfterLine(stk, t, r) ==
  IF r.again THEN [stk EXCEPT ![t + 1] = NewFrame("T_CUEREAD", "V_TEXT", stk[t].back + 1)]
             ELSE stk

StringsAfterLine(r, f) ==
  (strings - (IF r.released /\ f.type = "V_TEXT" THEN 1 ELSE 0)) + (IF r.again THEN 1 ELSE 0)

CueLine(die, fails) ==
  /\ Turn /\ Top.state = "T_CUE" /\ LinePending /\ Top.cue # 0
  /\ LET r == ProcCueLine(cues[Top.cue], Above, die, fails)
         stk == [stack EXCEPT ![top + 1] = Vacate(@)]
     IN /\ cues' = [cues EXCEPT ![Top.cue] = r.cue]
        /\ strings' = StringsAfterLine(r, Above)
        /\ stack' = AfterLine(stk, top, r)
        /\ top' = IF r.again THEN top + 1 ELSE top
        /\ errors' = errors \o AtLine(r.codes, line)
        /\ mode' = r.mode
        /\ status' = r.status
        /\ IF r.mode = "M_WEBVTT" THEN popped' = FALSE /\ token' = << >>
                                  ELSE UNCHANGED <<popped, token>>
  /\ line' = line + 1
  /\ UNCHANGED <<input, call, ret, tstate, tk, delivered, finished, lineBuf>>

\* The cue of this line could not be made: the line is dropped, never released.
CueMissing ==
  /\ Turn /\ Top.state = "T_CUE" /\ LinePending /\ Top.cue = 0
  /\ errors' = Append(errors, <<"PARSE_ERROR", line>>)
  /\ stack' = [stack EXCEPT ![top + 1] = Vacate(@)]
  /\ Return("PARSE_ERROR")
  /\ UNCHANGED <<tstate, token, top, popped, delivered, heap, mode, finished, lineBuf, line>>

\* The SAFE_ASSERT of T_CUE fails when there is no line to look at.
CueAssert ==
  /\ On("T_CUE")
  /\ Return("FAILED_ASSERTION")
  /\ UNCHANGED <<tstate, token, frames, outcome, heap, mode, finished, lineBuf, line>>

-----------------------------------------------------------------------------
(* webvtt_proc_cuetext and webvtt_read_cuetext: the lines after the        *)
(* timings, gathered in the line buffer, up to a blank line or to a line   *)
(* that holds "-->".                                                       *)

\* The line in the buffer is complete.
Marked == lineBuf # << >> /\ Last(lineBuf) = Mark

\* The line buffer is allocated when it is first written.
\* Mutant: it is allocated again for every chunk.
WithNewLineBuf == strings + 1
WithLineBuf == strings + (IF lineBuf = << >> THEN 1 ELSE 0)

InText == call = "chunk" /\ mode # "M_WEBVTT" /\ More

TextRead ==
  /\ InText /\ ~Marked
  /\ IF IsEol(Sym) THEN lineBuf' = Append(lineBuf, Mark) /\ pos' = pos
                   ELSE lineBuf' = Append(lineBuf, Sym) /\ pos' = pos + 1
  /\ strings' = WithLineBuf
  /\ status' = "UNFINISHED"
  /\ UNCHANGED <<doc, lim, call, ret, lexer, frames, outcome, cues, mode, finished, line>>

\* There is no memory for what the chunk adds to the line (which is read in one
\* piece: as the first thing in the chunk, or at the start of the line), or none to
\* replace the NULs of the complete line.  The buffer stays.  (One that was made and
\* could not grow is allocated and empty: it holds no line, and is << >> here like none
\* at all.  The code then looks for the mark before the beginning of its text,
\* parser.c:851, which C leaves undefined; here it finds none.)
TextStarved(die) ==
  LET r == NoMemory(die) IN
  /\ InText /\ MayFail /\ ~Marked
  /\ \/ (lineBuf = << >> \/ status = "SUCCESS") /\ UNCHANGED lineBuf
     \/ IsEol(Sym) /\ lineBuf # << >> /\ lineBuf' = Append(lineBuf, Mark)
  /\ errors' = errors \o AtLine(r.codes, line)
  /\ Return(r.status)
  /\ UNCHANGED <<tstate, token, frames, delivered, heap, mode, finished, line>>

TextCarriageReturn ==
  LET x == LexedNewline(tstate, Sym) IN
  /\ InText /\ Marked /\ x.token = "none"
  /\ Consume(x)
  /\ token' = Spelled(x)
  /\ status' = "UNFINISHED"
  /\ UNCHANGED <<doc, lim, call, ret, tk, frames, outcome, heap, mode, finished, lineBuf, line>>

\* finish_cue and the release in M_SKIP_CUE: whose the cue is now.
\* Mutant: the cue is handed over unvalidated.
NewOwnerUnvalidated(c) == "application"
NewOwner(c) == IF mode = "M_CUETEXT" /\ ValidTimes(c.time) THEN "application" ELSE "released"

\* The cue that takes the place of cue k when a line of its text starts another.
\* Mutant: none is created and k is used again.
SameCue(k) == k
NextCue(k) == Len(cues) + 1

\* The cue on top is done with its text; another starts if a line is pending, even if
\* there is no memory for it.
CloseCue(c, above) ==
  LET k == Top.cue
      done == [cues EXCEPT ![k] = [c EXCEPT !.owner = NewOwner(c)]]
  IN  /\ delivered' = IF NewOwner(c) = "application" THEN Append(delivered, k) ELSE delivered
      /\ mode' = "M_WEBVTT"
      /\ IF above.type = "V_NONE"
         THEN /\ cues' = done
              /\ stack' = [stack EXCEPT
                   ![top] = InState(Vacate(@), "T_INITIAL"),
                   ![top + 1] = InState(@, "T_INITIAL")]
              /\ top' = top - 1 /\ popped' = TRUE
         ELSE /\ \/ /\ cues' = Append(done, NewCue)
                    /\ stack' = [stack EXCEPT ![top] = WithCue(@, NextCue(k)), ![top + 1] = above]
                 \/ /\ MayFail /\ cues' = done
                    /\ stack' = [stack EXCEPT ![top] = WithCue(@, 0), ![top + 1] = above]
              /\ top' = top /\ popped' = TRUE

\* A line that is text, and the cue with it.  Nobody looks whether there was memory
\* for it: if not, all that is added is the separator from the text before.
IsText(l) == l # << >> /\ ~HasArrow(l)
WithLine(c, l) == [c EXCEPT !.body = Append(@, l)]
WithoutLine(c) == IF c.body = << >> THEN c ELSE WithLine(c, << >>)
Longer(c, l) == IF IsText(l)
                THEN {WithLine(c, l)} \cup (IF MayFail THEN {WithoutLine(c)} ELSE {})
                ELSE {c}

\* Line l of the cue text is complete; closed says that the text is.  n strings are
\* allocated.
EndTextLine(l, closed, n) ==
  /\ lineBuf' = << >>
  /\ token' = << >>
  /\ line' = line + 1
  /\ strings' = IF HasArrow(l) THEN n ELSE n - 1
  /\ \E c \in Longer(cues[Top.cue], l) :
       IF closed
       THEN CloseCue(c, IF HasArrow(l) THEN WithText(NewFrame("T_CUEREAD", "V_TEXT", 0), l) ELSE Above)
       ELSE /\ cues' = [cues EXCEPT ![Top.cue] = c]
            /\ UNCHANGED <<delivered, mode, frames>>

AtNewline == InText /\ Marked /\ LexedNewline(tstate, Sym).token = "NEWLINE"

TextNewline ==
  LET l == Front(lineBuf) IN
  /\ AtNewline
  /\ Consume(LexedNewline(tstate, Sym))
  /\ EndTextLine(l, ~IsText(l), strings)
  /\ status' = IF IsText(l) THEN "UNFINISHED" ELSE "SUCCESS"
  /\ UNCHANGED <<doc, lim, call, ret, tk, errors, finished>>

\* There is no memory to parse the text: the cue is handed over all the same.
TextUnparsed ==
  LET l == Front(lineBuf) IN
  /\ AtNewline /\ MayFail /\ mode = "M_CUETEXT" /\ ~IsText(l)
  /\ tstate' = LexedNewline(tstate, Sym).next
  /\ EndTextLine(l, TRUE, strings)
  /\ Return("OUT_OF_MEMORY")
  /\ UNCHANGED <<errors, finished>>

\* A line that is not the first needs a separator, and there is no memory for that:
\* the line stays in its buffer, without its mark.
NoSeparator(l) == /\ MayFail /\ IsText(l) /\ cues[Top.cue].body # << >>
                  /\ lineBuf' = l /\ token' = << >> /\ line' = line + 1

TextUnseparated ==
  /\ AtNewline
  /\ tstate' = LexedNewline(tstate, Sym).next
  /\ NoSeparator(Front(lineBuf))
  /\ Return("OUT_OF_MEMORY")
  /\ UNCHANGED <<frames, outcome, heap, mode, finished>>

-----------------------------------------------------------------------------
(* webvtt_finish_parsing and webvtt_delete_parser.                         *)

\* The client is through with its document, or with the parser.
FinishCall ==
  /\ call = "idle" /\ ~finished
  /\ lim = Len(doc) \/ ret \notin Resume
  /\ finished' = TRUE
  /\ call' = "finish" /\ status' = "SUCCESS"
  /\ UNCHANGED <<input, ret, lexer, frames, outcome, heap, mode, lineBuf, line>>

\* A line of a cue was being read, or was read and not looked at.
FinishInCue == call = "finish" /\ mode = "M_WEBVTT" /\ Top.state \in {"T_CUE", "T_CUEREAD"}

FinishTop == IF Top.state = "T_CUEREAD" THEN top - 1 ELSE top
\* Mutant: finishing inside T_CUEREAD does not count as popping it.
FinishHasLineUnpopped == LinePending
FinishHasLine == Top.state = "T_CUEREAD" \/ LinePending

FinishCueLine(die, dieIncomplete, fails) ==
  LET t == FinishTop
      k == stack[t].cue
      r == ProcCueLine(cues[k], stack[t + 1], die, fails)
      bare == Report(IF r.cue.haveId /\ r.cue.time = "none"
                     THEN <<"CUE_INCOMPLETE">> ELSE << >>, dieIncomplete)
      stk == [stack EXCEPT ![t + 1] = InState(Vacate(@), "T_INITIAL")]
  IN  /\ FinishInCue /\ FinishHasLine /\ k # 0
      /\ cues' = [cues EXCEPT ![k] = r.cue]
      /\ strings' = StringsAfterLine(r, stack[t + 1])
      /\ stack' = AfterLine(stk, t, r)
      /\ top' = IF r.again THEN t + 1 ELSE t
      /\ popped' = ~r.again
      /\ errors' = errors \o AtLine(r.codes \o bare.codes, line)
      /\ mode' = r.mode
      /\ IF bare.dead
         THEN Return("PARSE_ERROR") /\ UNCHANGED line
         ELSE /\ call' = IF r.mode = "M_CUETEXT" THEN "finish" ELSE "cleanup"
              /\ status' = r.status
              /\ line' = line + 1
              /\ UNCHANGED <<input, ret, tk>>
      /\ UNCHANGED <<delivered, finished, lineBuf, tstate, token>>

\* There is no line, or no cue for it.
FinishAssert ==
  /\ FinishInCue /\ (~FinishHasLine \/ stack[FinishTop].cue = 0)
  /\ Return("FAILED_ASSERTION")
  /\ UNCHANGED <<tstate, token, frames, outcome, heap, mode, finished, lineBuf, line>>

\* The line the text ends with.  Mutant: the mark is not taken off.
LastLineMarked == lineBuf
LastLine == IF Marked THEN Front(lineBuf) ELSE lineBuf
FinishInText == call = "finish" /\ mode = "M_CUETEXT"

\* The text may be parsed or not, for want of memory.
FinishCueText ==
  /\ FinishInText
  /\ EndTextLine(LastLine, TRUE, WithLineBuf)
  /\ call' = "cleanup"
  /\ status' \in {"SUCCESS"} \cup (IF MayFail THEN {"OUT_OF_MEMORY"} ELSE {})
  /\ tstate' = "L_START"
  /\ UNCHANGED <<input, ret, tk, errors, finished>>

\* There is no memory for the line, or none for its separator.
FinishTextStarved(die) ==
  LET r == NoMemory(die) IN
  /\ FinishInText /\ MayFail /\ ~Marked
  /\ \/ UNCHANGED lineBuf
     \/ lineBuf # << >> /\ lineBuf' = Append(lineBuf, Mark)
  /\ errors' = errors \o AtLine(r.codes, line)
  /\ call' = "cleanup" /\ status' = r.status
  /\ UNCHANGED <<input, ret, lexer, frames, delivered, heap, mode, finished, line>>

FinishUnseparated ==
  /\ FinishInText
  /\ NoSeparator(LastLine)
  /\ call' = "cleanup" /\ status' = "OUT_OF_MEMORY"
  /\ tstate' = "L_START"
  /\ UNCHANGED <<input, ret, tk, frames, outcome, heap, mode, finished>>

FinishElse ==
  /\ call = "finish"
  /\ \/ mode = "M_SKIP_CUE"
     \/ mode = "M_WEBVTT" /\ Top.state \notin {"T_CUE", "T_CUEREAD"}
  /\ call' = "cleanup"
  /\ UNCHANGED <<input, ret, status, lexer, frames, outcome, heap, mode, finished, lineBuf, line>>

FinishCleanup ==
  /\ call = "cleanup"
  /\ CleanupStack
  /\ Return(status)
  /\ UNCHANGED <<tstate, token, popped, outcome, mode, finished, lineBuf, line>>

Delete ==
  /\ call = "idle"
  /\ CleanupStack
  /\ lineBuf' = << >>
  /\ call' = "deleted"
  /\ UNCHANGED <<input, ret, status, lexer, popped, outcome, mode, finished, line>>

Gone == call = "deleted" /\ UNCHANGED vars

-----------------------------------------------------------------------------
Client == Feed \/ FinishCall \/ Delete

TurnStep ==
  \/ Lex \/ CueReadText \/ CueReadEol \/ CueReadNewline \/ CueMissing
  \/ \E d \in Dies : CueReadStarved(d) \/ \E f \in Failing : CueLine(d, f)

TokenStep ==
  \/ InitialSignature \/ InitialReject \/ TagSpace \/ TagNewline \/ TagReject
  \/ CommentNewline \/ CommentSkip \/ EolCount \/ EolPop \/ CueAssert
  \/ \E d \in Dies : BodyDead(d) \/ BodyNewline(d) \/ BodyCue(d) \/ BodyStarved(d)

TextStep ==
  \/ TextRead \/ TextCarriageReturn \/ TextNewline \/ TextUnparsed \/ TextUnseparated
  \/ \E d \in Dies : TextStarved(d)

FinishStep ==
  \/ FinishAssert \/ FinishCueText \/ FinishUnseparated \/ FinishElse \/ FinishCleanup
  \/ \E d \in Dies : FinishTextStarved(d)
  \/ \E d, e \in Dies : \E f \in Failing : FinishCueLine(d, e, f)

Parser == ChunkDone \/ ChunkStarved \/ TurnStep \/ TokenStep \/ TextStep \/ FinishStep

Next == Client \/ Parser \/ Gone

\* A call that has started runs to its end: it is the client's own thread.
Spec == Init /\ [][Next]_vars /\ WF_vars(Parser)

-----------------------------------------------------------------------------
(* Properties.                                                             *)

\* Every field keeps its type; in particular no string is released twice.
TypeOK ==
  /\ doc \in Seq(Symbols) /\ lim \in Nat /\ pos \in Nat
  /\ call \in {"idle", "chunk", "finish", "cleanup", "deleted"}
  /\ ret \in Statuses /\ status \in Statuses
  /\ tk \in Tokens \cup {"none"} /\ tstate \in LexStates /\ token \in Seq(Symbols)
  /\ mode \in Modes /\ finished \in BOOLEAN
  /\ stack \in [Depth -> Frame] /\ top \in Depth /\ popped \in BOOLEAN
  /\ lineBuf \in Seq(Symbols \cup {Mark}) /\ line \in Nat
  /\ cues \in Seq(Cue) /\ delivered \in Seq(Nat)
  /\ errors \in Seq(Codes \X Nat) /\ strings \in Nat

Live == call # "deleted" /\ (call = "idle" => ~finished)

HoldsCue(i) == /\ stack[i].type = "V_CUE" /\ stack[i].cue \in DOMAIN cues
               /\ cues[stack[i].cue].owner = "parser"

\* There was no memory for the cue that a line of text starts.
LacksCue(i) == MayFail /\ stack[i].type = "V_CUE" /\ stack[i].cue = 0 /\ mode = "M_WEBVTT"

BottomShape == top = 0 => Top.state \in {"T_INITIAL", "T_BODY"}
MiddleShape ==
  top = 1 => \/ Top.state \in {"T_TAG", "T_EOL"} /\ Top.back = 1
             \/ Top.state = "T_CUE" /\ (HoldsCue(1) \/ LacksCue(1))
TopShape ==
  top = 2 => \/ Top.state = "T_TAGCOMMENT" /\ Top.back = 2 /\ stack[1].state = "T_TAG"
             \/ /\ Top.state = "T_CUEREAD" /\ Top.type = "V_TEXT"
                /\ stack[1].state = "T_CUE" /\ HoldsCue(1)
TextShape ==
  mode # "M_WEBVTT" => top = 1 /\ Top.state = "T_CUE" /\ Above.type = "V_NONE"

\* The stack only ever has the shapes the handlers expect: do_push never has to
\* grow it, a line is read only for a cue that is there, and proc_cuetext, which
\* asserts it, always finds a cue of its own on top and nothing pending above.
StackShape == Live => BottomShape /\ MiddleShape /\ TopShape /\ TextShape

\* No SAFE_ASSERT of parse_webvtt or webvtt_finish_parsing fails, as long as the
\* times have their separators and there is memory.  (After a line where one is missing T_CUE is
\* entered again without a line, and its assertion does fail.)
AssertionsHold == Separated(doc) => ret # "FAILED_ASSERTION"

\* A cue the parser owns is in exactly one frame in use, a cue it does not own
\* is in none, and one was handed to the application exactly once.
OneOwner ==
  \A k \in DOMAIN cues :
    LET holders == {i \in 0..top : stack[i].type = "V_CUE" /\ stack[i].cue = k}
        times == {i \in DOMAIN delivered : delivered[i] = k}
    IN  /\ Cardinality(holders) = IF cues[k].owner = "parser" THEN 1 ELSE 0
        /\ Cardinality(times) = IF cues[k].owner = "application" THEN 1 ELSE 0

\* A cue that was handed over or released is never written again.
HandedOverIsFinal ==
  [][\A k \in DOMAIN cues : cues[k].owner # "parser" => cues'[k] = cues[k]]_vars

\* The strings that something holds: the frames in use, the frame above them when a
\* line is handed over in it, and the line buffer.
HeldLines == Cardinality(Held("V_TEXT"))
             + (IF LinePending /\ Above.type = "V_TEXT" THEN 1 ELSE 0)
             + (IF lineBuf # << >> THEN 1 ELSE 0)

\* The parser failed on a line of timings: a time lacks its separator, or the
\* application refused a report about it.
TimingsRefused ==
  /\ {status, ret} \cap {"PARSE_ERROR", "FAILED_ASSERTION"} # {}
  /\ \/ ~Separated(doc)
     \/ \E e \in ToSet(errors) : e[1] \in {"EXPECTED_TIMESTAMP", "EXPECTED_WHITESPACE"}

\* The parser was finished in a line that was to start a cue in the text of another, or
\* deleted when it had read a line of a cue and not looked at it.
EndedOnLine == \/ finished /\ call \in {"idle", "deleted"} /\ ArrowAtEnd(doc)
               \/ ~finished /\ call = "deleted" /\ EndsCueLine(doc, lim)

\* While there is memory, every string allocated for a line has one holder, which
\* is to release it, except for one: the line of timings on which the parser fails
\* (parser.c:515), and the line handed over in the frame above the top when nobody
\* goes on to look at it, as cleanup_stack starts at the top (parser.c:115).
\* (After a comment the parser does not read the lines of the document.)
StringsAccounted ==
  (~MayFail /\ ~Commented(doc)) =>
    \/ strings = HeldLines
    \/ strings = HeldLines + 1 /\ (TimingsRefused \/ EndedOnLine)

Contents == [i \in 1..Len(delivered) |-> AsSeen(cues[delivered[i]])]
Complete == finished /\ call = "idle" /\ lim = Len(doc)

\* However a document is cut into chunks, the errors reported are those of its
\* lines, read one by one, with the lines they are on, unless a cue starts
\* inside the text of another (its line is counted twice from there on) or a
\* time lacks its separator (the parser stops there).  Only at the very end may
\* a cue with an id and bad timings be called incomplete too.
\* (A comment after the signature is the other exception: see SignatureAccepted.)
ErrorsExact ==
  (/\ Complete /\ Separated(doc) /\ ~Chained(doc)
   /\ ~ArrowAtEnd(doc) /\ ~EndsInToken(doc) /\ ~Commented(doc))
    => /\ ErrorsOf(doc) \subseteq ToSet(errors)
       /\ ToSet(errors) \subseteq ErrorsOf(doc) \cup {<<"CUE_INCOMPLETE", line - 1>>}

\* The elements of part are elements of whole, in their order.
InOrder(part, whole) ==
  \E at \in [1..Len(part) -> 1..Len(whole)] :
    /\ \A i, j \in 1..Len(part) : i < j => at[i] < at[j]
    /\ \A i \in 1..Len(part) : part[i] = whole[at[i]]

\* Whatever the application refuses and whatever stops the parser early, a cue
\* that is handed over is one of the document, whole, and comes after those before
\* it.  (A comment after the signature is an exception: when the line after it is a
\* signature again, the parser takes it for the header, and it is no id of a cue.)
DeliveredSound ==
  (call = "deleted" /\ ~MayFail /\ ~Commented(doc)) => InOrder(Contents, CuesOf(doc))

\* The lines of part are lines of whole in their order, or the beginnings of some.
IsLinesOf(part, whole) ==
  \E at \in [1..Len(part) -> 1..Len(whole)] :
    /\ \A i, j \in 1..Len(part) : i < j => at[i] < at[j]
    /\ \A i \in 1..Len(part) : IsPrefix(part[i], whole[at[i]])

\* When memory runs out text is lost, and nothing else: a cue that is handed over
\* has the id and the times of a cue of the document, and its text is what is left
\* of the text of that cue, and may end in the beginning of a line that was to start
\* another cue, if memory ran out before its "-->".
DeliveredInPart ==
  (call = "deleted" /\ ~Commented(doc)) =>
    LET whole == ToSet(CuesOf(doc))
        arrows == {l \in ToSet(Lines(doc)) : HasArrow(l)}
    IN  \A c \in ToSet(Contents) :
          /\ \A i \in DOMAIN c.body : ~HasArrow(c.body[i])
          /\ \E d \in whole : /\ c.id = d.id /\ c.time = d.time
                             /\ \E l \in arrows : IsLinesOf(c.body, Append(d.body, l))

\* A failed allocation was reported.
Reported == \E i \in DOMAIN errors : errors[i][1] = "ALLOCATION_FAILED"

\* Once its parser is deleted every cue was handed over or released, but for one
\* whose first line found no memory, when the report of that was refused.
NoCueLeaked ==
  call = "deleted" =>
    \A k \in DOMAIN cues : /\ cues[k].owner # "parser"
                           /\ cues[k].owner = "lost" => Reported

\* Every call returns.
CallsReturn == (call \in {"chunk", "finish", "cleanup"}) ~> (call = "idle")

-----------------------------------------------------------------------------
(* The parser implements Delivery.                                         *)

Stage == CASE call \in {"finish", "cleanup"} -> "finishing"
           [] finished /\ call \in {"idle", "deleted"} -> "finished"
           [] ~finished /\ call = "deleted" -> "abandoned"
           [] OTHER -> "open"

Promise == INSTANCE Delivery WITH handed <- Contents, stage <- Stage

\* With an application that lets every error pass, the incremental parser hands
\* over the cues of the document as the line by line reading has them, in order,
\* one at a time, all of them before webvtt_finish_parsing returns.
KeepsPromise == Promise!Spec

-----------------------------------------------------------------------------
(* Why TypeOK, StackShape, HandedOverIsFinal and NoCueLeaked hold: what     *)
(* every step keeps, whatever the documents, the chunks and the refusals.  *)

\* A call uses no more than its chunk, and a chunk is a part of the document.
WithinChunk == pos <= lim /\ lim <= Len(doc)

\* The frame of the document itself stays at the bottom.
BottomFrame == stack[0].state \in {"T_INITIAL", "T_BODY"} /\ stack[0].back = 0
MiddleFrame == stack[1].back <= 1

\* Only the middle frame holds a cue, one the parser owns, and only while it
\* is in use; every cue the parser owns is held there.
CueFrames ==
  \A i \in Depth : stack[i].type = "V_CUE"
    => i = 1 /\ top # 0 /\ stack[1].state = "T_CUE" /\ (HoldsCue(1) \/ LacksCue(1))
CueIsHeld ==
  \A k \in DOMAIN cues : cues[k].owner = "parser"
    => stack[1].type = "V_CUE" /\ stack[1].cue = k

\* Only the upper frame holds a line.
LineFrames == \A i \in Depth : stack[i].type = "V_TEXT" => i = 2

\* Nothing follows the mark in the line buffer.
MarkIsLast == \A i \in 1..Len(lineBuf) : lineBuf[i] = Mark => i = Len(lineBuf)

\* The strings in use are allocated.
StringsInUse == (IF stack[2].type = "V_TEXT" THEN 1 ELSE 0)
                + (IF lineBuf # << >> THEN 1 ELSE 0)
StringsCovered == strings >= StringsInUse

Finishing == call \in {"finish", "cleanup"} => finished
Deleted == call = "deleted" => top = 0

IInv ==
  /\ TypeOK /\ StackShape
  /\ WithinChunk /\ BottomFrame /\ MiddleFrame
  /\ CueFrames /\ CueIsHeld
  /\ LineFrames /\ MarkIsLast /\ StringsCovered
  /\ Finishing /\ Deleted

-----------------------------------------------------------------------------
(* What the repository says and the parser does not do.                    *)

\* A signature line with a comment leads to the body like one without.
SignatureAccepted ==
  (Lines(doc) # << >> /\ IsSignature(Lines(doc)[1]))
    => \A i \in DOMAIN errors : errors[i][1] # "MALFORMED_TAG"

\* A client that stops on failure, as FileParser does, gets every cue of a
\* document that no call refused.
AllCuesWhenNothingFailed ==
  (finished /\ call = "idle" /\ ret = "SUCCESS" /\ ~ArrowAtEnd(doc)) => Contents = CuesOf(doc)

=============================================================================
