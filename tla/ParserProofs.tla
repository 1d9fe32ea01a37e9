---------------------------- MODULE ParserProofs ----------------------------
(***************************************************************************)
(* Proofs about Parser, for every set of documents, every way to cut them  *)
(* into chunks, every refusal of the application and every client.         *)
(***************************************************************************)
EXTENDS Parser, FiniteSetTheorems, WellFoundedInduction, TLAPS

(* What the helpers return.                                                *)

\* The empty sequence is a sequence of anything.
LEMMA EmptySeq == \A S : << >> \in Seq(S) /\ Len(<< >>) = 0
  OBVIOUS

\* A new frame is a frame, with the fields it was given and no value.
LEMMA NewFrameType ==
  ASSUME NEW s \in States, NEW t \in Types, NEW b \in Depth
  PROVE  /\ NewFrame(s, t, b) \in Frame
         /\ NewFrame(s, t, b).state = s /\ NewFrame(s, t, b).type = t
         /\ NewFrame(s, t, b).back = b /\ NewFrame(s, t, b).flags = 0
         /\ NewFrame(s, t, b).text = << >> /\ NewFrame(s, t, b).cue = 0
  BY EmptySeq DEF NewFrame, Frame

\* Changing some fields of a frame gives a frame, the others as they were.
LEMMA InStateType ==
  ASSUME NEW f \in Frame, NEW s \in States
  PROVE  /\ InState(f, s) \in Frame /\ InState(f, s).state = s
         /\ InState(f, s).type = f.type /\ InState(f, s).back = f.back
  BY DEF InState, Frame

\* A frame that a pop comes back to is a frame in the given state.
LEMMA BackToType ==
  ASSUME NEW f \in Frame, NEW s \in States
  PROVE  /\ BackTo(f, s) \in Frame
         /\ BackTo(f, s).state = s /\ BackTo(f, s).type = f.type /\ BackTo(f, s).back = 0
  <1>1. 0 \in Depth
    BY DEF Depth
  <1> QED BY <1>1 DEF BackTo, Frame

\* Setting a frame's value leaves it a frame.
LEMMA WithValueType ==
  ASSUME NEW f \in Frame, NEW n \in Nat
  PROVE  /\ WithValue(f, n) \in Frame /\ WithValue(f, n).state = f.state
         /\ WithValue(f, n).type = f.type /\ WithValue(f, n).back = f.back
  BY DEF WithValue, Frame

\* So does giving it a cue,
LEMMA WithCueType ==
  ASSUME NEW f \in Frame, NEW k \in Nat
  PROVE  /\ WithCue(f, k) \in Frame /\ WithCue(f, k).state = f.state
         /\ WithCue(f, k).type = f.type /\ WithCue(f, k).back = f.back
         /\ WithCue(f, k).cue = k
  BY DEF WithCue, Frame

\* giving it a text,
LEMMA WithTextType ==
  ASSUME NEW f \in Frame, NEW t \in Seq(Symbols)
  PROVE  /\ WithText(f, t) \in Frame /\ WithText(f, t).state = f.state
         /\ WithText(f, t).type = f.type /\ WithText(f, t).back = f.back
         /\ WithText(f, t).cue = f.cue
  BY DEF WithText, Frame

\* noting the end of a line,
LEMMA AtEolType ==
  ASSUME NEW f \in Frame
  PROVE  /\ AtEol(f) \in Frame /\ AtEol(f).state = f.state /\ AtEol(f).type = f.type
         /\ AtEol(f).back = f.back /\ AtEol(f).cue = f.cue
  BY DEF AtEol, Frame

\* clearing its value,
LEMMA ClearValueType ==
  ASSUME NEW f \in Frame
  PROVE  /\ ClearValue(f) \in Frame /\ ClearValue(f).state = f.state
         /\ ClearValue(f).type = f.type /\ ClearValue(f).back = f.back
  BY EmptySeq DEF ClearValue, Frame

\* and taking its value away.
LEMMA VacateType ==
  ASSUME NEW f \in Frame
  PROVE  /\ Vacate(f) \in Frame /\ Vacate(f).state = f.state
         /\ Vacate(f).type = "V_NONE" /\ Vacate(f).back = f.back
  BY ClearValueType DEF Vacate, Frame, Types

\* A set of numbers that is not empty has a least element.
LEMMA Least ==
  ASSUME NEW S \in SUBSET Nat, S # {} PROVE \E n \in S : \A m \in S : n <= m
  <1>1. PICK k \in S : TRUE
    OBVIOUS
  <1> DEFINE Spans == {X \in FiniteSubsetsOf(Nat) : \E n \in S : X = 0 .. n}
  <1>2. 0 .. k \in Spans
    BY FS_Interval DEF FiniteSubsetsOf
  <1>3. PICK X \in Spans : \A Y \in Spans : <<Y, X>> \notin StrictSubsetOrdering(Nat)
    <2> HIDE DEF Spans
    <2>1. Spans \subseteq FiniteSubsetsOf(Nat) /\ Spans # {}
      BY <1>2 DEF Spans
    <2> QED BY <2>1, FS_StrictSubsetOrderingWellFounded, WFMin
  <1>4. PICK n \in S : X = 0 .. n
    OBVIOUS
  <1>5. ASSUME NEW m \in S, m < n PROVE FALSE
    <2>1. 0 .. m \in Spans
      BY FS_Interval DEF FiniteSubsetsOf
    <2>2. <<0 .. m, X>> \in StrictSubsetOrdering(Nat)
      BY <1>4, <1>5 DEF StrictSubsetOrdering
    <2> QED BY <1>3, <2>1, <2>2
  <1> QED BY <1>5

\* What is reported is a beginning of what there is to report.
LEMMA ReportType ==
  ASSUME NEW codes \in Seq(Codes), NEW die \in Nat
  PROVE  Report(codes, die).codes \in Seq(Codes)
  <1> DEFINE n == Len(codes)
  <1>1. CASE die \in 1..n
    BY <1>1 DEF Report
  <1>2. CASE die \notin 1..n
    BY <1>2 DEF Report
  <1> QED BY <1>1, <1>2

\* So is what is reported when there is no memory.
LEMMA NoMemoryType ==
  ASSUME NEW die \in Nat
  PROVE  NoMemory(die).codes \in Seq(Codes) /\ NoMemory(die).status \in Statuses
  <1>1. <<"ALLOCATION_FAILED">> \in Seq(Codes)
    BY DEF Codes
  <1>2. Report(<<"ALLOCATION_FAILED">>, die).codes \in Seq(Codes)
    BY <1>1, ReportType
  <1> QED BY <1>2 DEF NoMemory, Statuses

\* Reports at a line are reports.
LEMMA AtLineType ==
  ASSUME NEW codes \in Seq(Codes), NEW l \in Nat
  PROVE  AtLine(codes, l) \in Seq(Codes \X Nat)
  BY DEF AtLine

\* Init
LEMMA InitInvariant == Init => IInv
  <1> SUFFICES ASSUME Init PROVE IInv
    OBVIOUS
  <1>1. EmptyFrame \in Frame /\ EmptyFrame.state = "T_INITIAL"
        /\ EmptyFrame.type = "V_NONE" /\ EmptyFrame.back = 0
    BY NewFrameType DEF EmptyFrame, States, Types, Depth
  <1>2. TypeOK
    <2>1. doc \in Seq(Symbols)
      BY DocsAssumption DEF Init
    <2>2. stack \in [Depth -> Frame] /\ top \in Depth
      BY <1>1 DEF Init, Depth
    <2>3. errors \in Seq(Codes \X Nat) /\ token \in Seq(Symbols) /\ cues \in Seq(Cue)
          /\ delivered \in Seq(Nat) /\ lineBuf \in Seq(Symbols \cup {Mark})
      BY EmptySeq DEF Init
    <2> QED
      BY <2>1, <2>2, <2>3 DEF Init, TypeOK, Statuses, LexStates, Modes, Tokens
  <1>3. \A i \in Depth : stack[i] = EmptyFrame
    BY DEF Init
  <1>4. lineBuf = << >> /\ cues = << >> /\ top = 0 /\ doc \in Seq(Symbols)
    BY <1>2 DEF Init, TypeOK
  <1>5. StackShape /\ CueFrames /\ LineFrames /\ BottomFrame /\ MiddleFrame
    BY <1>1, <1>3, <1>4 DEF Init, StackShape, BottomShape, MiddleShape, TopShape, TextShape, 
      BottomFrame, MiddleFrame, CueFrames, LineFrames, Depth, Top
  <1>6. CueIsHeld /\ MarkIsLast /\ StringsCovered
    BY <1>1, <1>3, <1>4, EmptySeq DEF Init, CueIsHeld, MarkIsLast, StringsCovered, StringsInUse,
      Depth
  <1>7. WithinChunk /\ Finishing /\ Deleted
    BY <1>4 DEF Init, WithinChunk, Finishing, Deleted
  <1> QED
    BY <1>2, <1>5, <1>6, <1>7 DEF IInv

-----------------------------------------------------------------------------
(* What the invariant says of the frame on top and of the chunk.           *)

\* The state of the frame on top tells how deep the stack is and what it holds.
LEMMA WhereTop ==
  ASSUME IInv, Live
  PROVE  /\ Top.state \in {"T_INITIAL", "T_BODY"} => top = 0
         /\ Top.state \in {"T_TAG", "T_EOL"} => top = 1 /\ Top.back = 1
         /\ Top.state = "T_TAGCOMMENT" => top = 2 /\ Top.back = 2
         /\ Top.state = "T_CUE" => top = 1 /\ (HoldsCue(1) \/ LacksCue(1))
         /\ Top.state = "T_CUEREAD" => /\ top = 2 /\ Top.type = "V_TEXT"
                                       /\ stack[1].state = "T_CUE" /\ HoldsCue(1)
         /\ top \in Depth /\ stack \in [Depth -> Frame]
  <1>1. top \in 0..2 /\ stack \in [0..2 -> Frame]
    BY DEF IInv, TypeOK, Depth
  <1>2. CASE top = 0
    BY <1>1, <1>2 DEF IInv, StackShape, BottomShape, Depth
  <1>3. CASE top = 1
    BY <1>1, <1>3 DEF IInv, StackShape, MiddleShape, Depth
  <1>4. CASE top = 2
    BY <1>1, <1>4 DEF IInv, StackShape, TopShape, Depth
  <1> QED BY <1>1, <1>2, <1>3, <1>4

\* The next symbol of a chunk is one of the document's.
LEMMA SymType ==
  ASSUME IInv, More
  PROVE  Sym \in Symbols /\ pos + 1 \in Nat /\ pos + 1 <= lim
  BY DEF IInv, TypeOK, WithinChunk, More, Sym

\* The lexer's steps.
LEMMA LexedType ==
  ASSUME NEW ts, NEW s
  PROVE  /\ Lexed(ts, s).token \in Tokens \cup {"none"}
         /\ Lexed(ts, s).next \in LexStates
         /\ LexedNewline(ts, s).token \in Tokens \cup {"none"}
         /\ LexedNewline(ts, s).next \in LexStates
  BY DEF Lexed, LexedNewline, Step, Tokens, LexStates

\* Reading a token stays inside the chunk, and its spelling is a text.
LEMMA ConsumeType ==
  ASSUME IInv, More, NEW x, Consume(x), x.next \in LexStates
  PROVE  /\ pos' \in Nat /\ pos' <= lim /\ tstate' \in LexStates
         /\ Spelled(x) \in Seq(Symbols)
  BY SymType, EmptySeq DEF IInv, TypeOK, WithinChunk, Consume, Spelled

\* A step adds to what was reported.
ReportsAdded == \E e \in Seq(Codes \X Nat) : errors' = errors \o e

\* Then there are reports afterwards.
LEMMA Added ==
  ASSUME IInv, NEW e \in Seq(Codes \X Nat), errors' = errors \o e
  PROVE  ReportsAdded /\ errors' \in Seq(Codes \X Nat)
  <1>1. errors \in Seq(Codes \X Nat)
    BY DEF IInv, TypeOK
  <1>2. errors \o e \in Seq(Codes \X Nat)
    BY <1>1
  <1> QED BY <1>2 DEF ReportsAdded

\* To append is to concatenate.
LEMMA AppendIsConcat ==
  ASSUME NEW S, NEW s \in Seq(S), NEW x \in S
  PROVE  <<x>> \in Seq(S) /\ Append(s, x) = s \o <<x>>
  OBVIOUS

\* One more is one at the end.
LEMMA AddedOne ==
  ASSUME IInv, NEW t \in Codes, NEW l \in Nat, errors' = Append(errors, <<t, l>>)
  PROVE  ReportsAdded /\ errors' \in Seq(Codes \X Nat)
  <1> DEFINE x == <<t, l>>
             Pairs == Codes \X Nat
  <1>1. errors \in Seq(Pairs) /\ x \in Pairs /\ errors' = Append(errors, x)
    BY DEF IInv, TypeOK
  <1> HIDE DEF x, Pairs
  <1>2. <<x>> \in Seq(Pairs) /\ Append(errors, x) = errors \o <<x>>
    BY <1>1, AppendIsConcat
  <1>3. errors' = errors \o <<x>>
    BY <1>1, <1>2
  <1> QED BY <1>2, <1>3, Added DEF Pairs

-----------------------------------------------------------------------------
(* Steps that leave the frames and the cues alone.                         *)

\* The parts of the invariant about frames, cues and strings.
Holdings == /\ StackShape /\ BottomFrame /\ MiddleFrame
            /\ CueFrames /\ CueIsHeld
            /\ LineFrames /\ MarkIsLast /\ StringsCovered

\* What a step may do to cues that are no longer the parser's, and when it loses one.
OthersKept ==
  /\ \A k \in DOMAIN cues : cues[k].owner # "parser" => cues'[k] = cues[k]
  /\ \A k \in DOMAIN cues' : cues'[k].owner = "lost"
       => Reported' \/ (k \in DOMAIN cues /\ cues[k].owner = "lost")

\* What keeps frames, cues and mode keeps all that is said of them.
LEMMA SameFrames ==
  ASSUME IInv, Live' => Live, UNCHANGED <<doc, frames, cues, mode>>
  PROVE  /\ StackShape' /\ BottomFrame' /\ MiddleFrame' /\ CueFrames' /\ CueIsHeld'
         /\ LineFrames' /\ OthersKept
  <1>1. StackShape'
    BY DEF IInv, StackShape, BottomShape, MiddleShape, TopShape, TextShape, HoldsCue, LacksCue,
      MayFail, Top, Above, frames
  <1>2. BottomFrame' /\ MiddleFrame' /\ CueFrames' /\ CueIsHeld' /\ LineFrames'
    BY DEF IInv, BottomFrame, MiddleFrame, CueFrames, CueIsHeld, LineFrames, HoldsCue, LacksCue,
      MayFail, frames
  <1> QED BY <1>1, <1>2 DEF OthersKept

\* If it keeps the strings too, it keeps what the parser holds.
LEMMA SameHoldings ==
  ASSUME IInv, Live' => Live, UNCHANGED <<doc, frames, cues, mode, lineBuf, strings>>
  PROVE  Holdings' /\ OthersKept
  <1>1. MarkIsLast' /\ StringsCovered'
    BY DEF IInv, MarkIsLast, StringsCovered, StringsInUse, frames
  <1> QED BY <1>1, SameFrames DEF Holdings

\* A call that returns early leaves everything it has not assigned alone.
LEMMA ReturnStep ==
  ASSUME IInv, call \in {"chunk", "finish", "cleanup"}, NEW s \in Statuses, Return(s),
         UNCHANGED <<tstate, token, frames, delivered, heap, mode, finished, lineBuf, line>>,
         errors' \in Seq(Codes \X Nat)
  PROVE  IInv' /\ OthersKept
  <1>1. Live' => Live
    BY DEF Live, Return
  <1>2. TypeOK'
    BY DEF IInv, TypeOK, Return, frames, heap, Tokens
  <1>3. Holdings' /\ OthersKept
    BY <1>1, SameHoldings DEF Return, heap, frames
  <1>4. WithinChunk' /\ Finishing' /\ Deleted'
    BY DEF IInv, TypeOK, WithinChunk, Finishing, Deleted, Return
  <1> QED BY <1>2, <1>3, <1>4 DEF IInv, Holdings

\* The client passes the next chunk.
LEMMA FeedStep == ASSUME IInv, Feed PROVE IInv' /\ OthersKept
  <1>1. Live' => Live
    BY DEF Live, Feed
  <1>2. TypeOK' /\ WithinChunk'
    BY DEF IInv, TypeOK, WithinChunk, Feed, lexer, frames, outcome, heap, Statuses
  <1>3. Holdings' /\ OthersKept
    BY <1>1, SameHoldings DEF Feed, heap
  <1>4. Finishing' /\ Deleted'
    BY DEF Feed, Finishing, Deleted
  <1> QED BY <1>2, <1>3, <1>4 DEF IInv, Holdings

\* A chunk has been read to its end.
LEMMA ChunkDoneStep == ASSUME IInv, ChunkDone PROVE IInv' /\ OthersKept
  <1> DEFINE s == IF mode = "M_CUETEXT" /\ status = "UNFINISHED" THEN "SUCCESS" ELSE status
  <1>1. s \in Statuses
    BY DEF IInv, TypeOK, Statuses
  <1> QED BY <1>1, ReturnStep DEF ChunkDone, outcome, IInv, TypeOK

\* The lexer reads a symbol.
LEMMA LexStep == ASSUME IInv, Lex PROVE IInv' /\ OthersKept
  <1>1. Live' => Live
    BY DEF Live, Lex, calling
  <1> DEFINE x == Lexed(tstate, Sym)
  <1>2. /\ pos' \in Nat /\ pos' <= lim /\ tstate' \in LexStates
        /\ token' \in Seq(Symbols) /\ tk' \in Tokens \cup {"none"}
    BY LexedType, ConsumeType DEF Lex, Turn
  <1>3. TypeOK' /\ WithinChunk'
    BY <1>2 DEF IInv, TypeOK, WithinChunk, Lex, calling, frames, outcome, heap
  <1>4. Holdings' /\ OthersKept
    BY <1>1, SameHoldings DEF Lex, heap
  <1>5. Finishing' /\ Deleted'
    BY DEF Lex, Finishing, Deleted, IInv, frames, calling
  <1> QED BY <1>3, <1>4, <1>5 DEF IInv, Holdings

\* The document is refused.
LEMMA RejectStep ==
  ASSUME IInv, call = "chunk", NEW l \in Nat, Reject(l)
  PROVE  IInv' /\ OthersKept
  <1>1. errors' \in Seq(Codes \X Nat)
    BY DEF Reject, IInv, TypeOK, Codes
  <1> QED BY <1>1, ReturnStep DEF Reject, Statuses

\* A token of the signature's comment is skipped.
LEMMA CommentSkipStep == ASSUME IInv, CommentSkip PROVE IInv' /\ OthersKept
  <1>1. Live' => Live
    BY DEF Live, CommentSkip, calling, Quiet
  <1>2. pos' \in Nat /\ pos' <= lim
    BY DEF CommentSkip, IInv, TypeOK
  <1>3. TypeOK' /\ WithinChunk'
    BY <1>2 DEF IInv, TypeOK, WithinChunk, CommentSkip, calling, frames, outcome, heap, Quiet
  <1>4. Holdings' /\ OthersKept
    BY <1>1, SameHoldings DEF CommentSkip, heap, Quiet
  <1>5. Finishing' /\ Deleted'
    BY DEF CommentSkip, Finishing, Deleted, IInv, frames, calling, Quiet
  <1> QED BY <1>3, <1>4, <1>5 DEF IInv, Holdings

\* The client says that there is no more.
LEMMA FinishCallStep == ASSUME IInv, FinishCall PROVE IInv' /\ OthersKept
  <1>1. Live' => Live
    BY DEF Live, FinishCall
  <1>2. TypeOK' /\ WithinChunk' /\ Finishing' /\ Deleted'
    BY DEF IInv, TypeOK, WithinChunk, Finishing, Deleted, FinishCall, input, lexer, frames,
      outcome, heap, Statuses
  <1>3. Holdings' /\ OthersKept
    BY <1>1, SameHoldings DEF FinishCall, input, heap
  <1> QED BY <1>2, <1>3 DEF IInv, Holdings

\* There was nothing that could be finished.
LEMMA FinishElseStep == ASSUME IInv, FinishElse PROVE IInv' /\ OthersKept
  <1>1. Live' => Live
    BY DEF Live, FinishElse
  <1>2. TypeOK' /\ WithinChunk' /\ Finishing' /\ Deleted'
    BY DEF IInv, TypeOK, WithinChunk, Finishing, Deleted, FinishElse, input, lexer, frames,
      outcome, heap
  <1>3. Holdings' /\ OthersKept
    BY <1>1, SameHoldings DEF FinishElse, input, heap
  <1> QED BY <1>2, <1>3 DEF IInv, Holdings

\* An assertion ends the call.
LEMMA AssertStep == ASSUME IInv, CueAssert \/ FinishAssert PROVE IInv' /\ OthersKept
  BY ReturnStep DEF CueAssert, FinishAssert, On, FinishInCue, Statuses, outcome, IInv, TypeOK

-----------------------------------------------------------------------------
(* Steps that push, pop or change frames, and leave the cues alone.        *)

\* The parts of the invariant such a step cannot disturb.
LEMMA QuietStep ==
  ASSUME IInv, call = "chunk", Quiet, UNCHANGED <<doc, lim, calling>>, tk' \in Tokens \cup {"none"},
         pos' \in Nat, pos' <= lim, tstate' \in LexStates, token' \in Seq(Symbols),
         stack' \in [Depth -> Frame], top' \in Depth, popped' \in BOOLEAN
  PROVE  /\ TypeOK' /\ WithinChunk' /\ MarkIsLast' /\ Finishing' /\ Deleted' /\ OthersKept
         /\ Live /\ cues' = cues /\ mode' = mode
  BY DEF IInv, TypeOK, WithinChunk, MarkIsLast, Finishing, Deleted, OthersKept, Quiet,
    calling, outcome, heap, Live

\* No cue is held while the header is read, and none between cues.
LEMMA NoCueInHeader ==
  ASSUME IInv, Live, Top.state \in {"T_INITIAL", "T_TAG", "T_TAGCOMMENT", "T_EOL", "T_BODY"}
  PROVE  /\ mode = "M_WEBVTT"
         /\ \A i \in Depth : stack[i].type # "V_CUE"
         /\ \A k \in DOMAIN cues : cues[k].owner # "parser"
  <1>1. mode = "M_WEBVTT"
    BY DEF IInv, StackShape, TextShape, TypeOK
  <1>2. stack[1].type # "V_CUE"
    <2>1. top \in 0..2
      BY DEF IInv, TypeOK, Depth
    <2>2. CASE top = 0
      BY <2>2 DEF IInv, CueFrames, Depth
    <2>3. CASE top = 1
      BY <2>3 DEF IInv, CueFrames, Depth, Top
    <2>4. CASE top = 2
      BY <2>4, WhereTop DEF IInv, CueFrames, Depth, Top, StackShape, TopShape
    <2> QED BY <2>1, <2>2, <2>3, <2>4
  <1> QED BY <1>1, <1>2 DEF IInv, CueFrames, CueIsHeld

\* Frames of no cue and no line are put on or taken off.
LEMMA HeaderFrames ==
  ASSUME IInv, Live, UNCHANGED <<cues, mode, lineBuf, strings>>,
         Top.state \in {"T_INITIAL", "T_TAG", "T_TAGCOMMENT", "T_EOL", "T_BODY"},
         stack' \in [Depth -> Frame], top' \in Depth,
         \A i \in Depth : stack'[i].type \in {"V_NONE", "V_INTEGER"} \/ stack'[i] = stack[i],
         BottomFrame',
         top' = 1 => stack'[1].state \in {"T_TAG", "T_EOL"} /\ stack'[1].back = 1,
         top' = 2 => /\ stack'[2].state = "T_TAGCOMMENT" /\ stack'[2].back = 2
                     /\ stack'[1].state = "T_TAG",
         stack'[1].back <= 1
  PROVE  Holdings'
  <1>1. stack \in [0..2 -> Frame] /\ top \in 0..2 /\ strings \in Nat /\ mode' = "M_WEBVTT"
    BY NoCueInHeader DEF IInv, TypeOK, Depth
  <1>2. CueFrames'
    BY <1>1, NoCueInHeader DEF CueFrames, Depth
  <1>2b. LineFrames'
    BY <1>1 DEF IInv, LineFrames, Depth
  <1>2c. CueIsHeld'
    BY <1>1, NoCueInHeader DEF CueIsHeld
  <1>3. StringsCovered' /\ MarkIsLast'
    BY <1>1 DEF IInv, StringsCovered, StringsInUse, MarkIsLast, Depth
  <1>4. StackShape' /\ MiddleFrame'
    BY <1>1 DEF StackShape, BottomShape, MiddleShape, TopShape, TextShape,
      BottomFrame, MiddleFrame, Top
  <1> QED BY <1>2, <1>2b, <1>2c, <1>3, <1>4 DEF Holdings

\* A turn that does nothing else.
LEMMA HeaderStep ==
  ASSUME IInv, call = "chunk", EndTurn, Quiet,
         Top.state \in {"T_INITIAL", "T_TAG", "T_TAGCOMMENT", "T_EOL", "T_BODY"},
         stack' \in [Depth -> Frame], top' \in Depth, popped' \in BOOLEAN,
         \A i \in Depth : stack'[i].type \in {"V_NONE", "V_INTEGER"} \/ stack'[i] = stack[i],
         BottomFrame',
         top' = 1 => stack'[1].state \in {"T_TAG", "T_EOL"} /\ stack'[1].back = 1,
         top' = 2 => /\ stack'[2].state = "T_TAGCOMMENT" /\ stack'[2].back = 2
                     /\ stack'[1].state = "T_TAG",
         stack'[1].back <= 1
  PROVE  IInv' /\ OthersKept
  <1>1. Live
    BY DEF Live
  <1>2. Holdings'
    BY <1>1, HeaderFrames DEF Quiet, heap
  <1>3. TypeOK' /\ WithinChunk' /\ Finishing' /\ Deleted' /\ OthersKept
    BY EmptySeq, QuietStep DEF EndTurn, IInv, TypeOK, input, WithinChunk
  <1> QED BY <1>2, <1>3 DEF IInv, Holdings

\* What a frame that is pushed becomes.
LEMMA PushFrames ==
  ASSUME IInv, NEW state \in States, NEW b \in Depth, top + 1 \in Depth, Top.back + 1 = b,
         Push(state)
  PROVE  /\ stack' \in [Depth -> Frame] /\ top' = top + 1 /\ popped' \in BOOLEAN
         /\ stack'[top + 1].state = state /\ stack'[top + 1].type = "V_NONE"
         /\ stack'[top + 1].back = b
         /\ \A i \in Depth : i # top + 1 => stack'[i] = stack[i]
  <1> DEFINE f == NewFrame(state, "V_NONE", b)
  <1>1. f \in Frame /\ f.state = state /\ f.type = "V_NONE" /\ f.back = b
    BY NewFrameType DEF Types
  <1>2. stack' = [stack EXCEPT ![top + 1] = f] /\ top' = top + 1
    BY DEF Push
  <1>3. stack \in [Depth -> Frame]
    BY DEF IInv, TypeOK
  <1>4. popped' \in BOOLEAN
    BY DEF Push
  <1> HIDE DEF f
  <1> QED BY <1>1, <1>2, <1>3, <1>4

\* The signature at the start.
LEMMA InitialSignatureStep == ASSUME IInv, InitialSignature PROVE IInv' /\ OthersKept
  <1>1. /\ call = "chunk" /\ Top.state = "T_INITIAL" /\ top = 0
        /\ Top.back + 1 = 1 /\ top + 1 = 1
    BY WhereTop DEF InitialSignature, On, Live, IInv, BottomFrame, Top
  <1>2. /\ stack' \in [Depth -> Frame] /\ top' = 1 /\ popped' \in BOOLEAN
        /\ stack'[1].state = "T_TAG" /\ stack'[1].type = "V_NONE" /\ stack'[1].back = 1
        /\ \A i \in Depth : i # 1 => stack'[i] = stack[i]
    <2>1. Push("T_TAG") /\ "T_TAG" \in States /\ 1 \in Depth
      BY DEF InitialSignature, States, Depth
    <2> QED BY <1>1, <2>1, PushFrames
  <1>3. BottomFrame'
    BY <1>2 DEF IInv, BottomFrame, Depth
  <1>4. \A i \in Depth : stack'[i].type \in {"V_NONE", "V_INTEGER"} \/ stack'[i] = stack[i]
    BY <1>2 DEF Depth
  <1>5. top' \in Depth /\ stack'[1].back <= 1
    BY <1>2 DEF Depth
  <1> QED BY <1>1, <1>2, <1>3, <1>4, <1>5, HeaderStep DEF InitialSignature

\* White space behind the signature.
LEMMA TagSpaceStep == ASSUME IInv, TagSpace PROVE IInv' /\ OthersKept
  <1>1. /\ call = "chunk" /\ Top.state = "T_TAG" /\ top = 1
        /\ Top.back + 1 = 2 /\ top + 1 = 2 /\ stack[1].state = "T_TAG"
    BY WhereTop DEF TagSpace, On, Live, Top
  <1>2. /\ stack' \in [Depth -> Frame] /\ top' = 2 /\ popped' \in BOOLEAN
        /\ stack'[2].state = "T_TAGCOMMENT" /\ stack'[2].type = "V_NONE" /\ stack'[2].back = 2
        /\ \A i \in Depth : i # 2 => stack'[i] = stack[i]
    <2>1. Push("T_TAGCOMMENT") /\ "T_TAGCOMMENT" \in States /\ 2 \in Depth
      BY DEF TagSpace, States, Depth
    <2> QED BY <1>1, <2>1, PushFrames
  <1>3. BottomFrame'
    BY <1>2 DEF IInv, BottomFrame, Depth
  <1>4. \A i \in Depth : stack'[i].type \in {"V_NONE", "V_INTEGER"} \/ stack'[i] = stack[i]
    BY <1>2 DEF Depth
  <1>5. top' \in Depth /\ stack'[1].state = "T_TAG" /\ stack'[1].back <= 1
    BY <1>1, <1>2 DEF Depth, IInv, MiddleFrame
  <1> QED BY <1>1, <1>2, <1>3, <1>4, <1>5, HeaderStep DEF TagSpace

\* The frames once line terminators are counted.
LEMMA CountFrames ==
  ASSUME IInv, NEW state \in {"T_INITIAL", "T_BODY"}, top - Top.back = 0,
         PopBackAndCount(state)
  PROVE  /\ stack' \in [Depth -> Frame] /\ top' = 1 /\ popped' \in BOOLEAN
         /\ BottomFrame' /\ stack'[0].type = stack[0].type
         /\ stack'[1].state = "T_EOL" /\ stack'[1].type = "V_INTEGER" /\ stack'[1].back = 1
         /\ stack'[2] = stack[2]
  <1> DEFINE f == NewFrame("T_EOL", "V_INTEGER", 1)
             g == WithValue(f, 1)
             b == BackTo(stack[0], state)
  <1>1. stack \in [0..2 -> Frame] /\ stack[0] \in Frame
    BY DEF IInv, TypeOK, Depth
  <1>2. f \in Frame /\ f.state = "T_EOL" /\ f.type = "V_INTEGER" /\ f.back = 1
    BY NewFrameType DEF States, Types, Depth
  <1>3. b \in Frame /\ b.state = state /\ b.back = 0 /\ b.type = stack[0].type
    BY <1>1, BackToType DEF States
  <1>6. popped' \in BOOLEAN
    BY DEF PopBackAndCount
  <1>4. stack' = [stack EXCEPT ![0] = b, ![1] = g] /\ top' = 1
    <2>1. top - Top.back + 1 = 1
      OBVIOUS
    <2> QED BY <1>1, <2>1 DEF PopBackAndCount
  <1> HIDE DEF f
  <1>5. g \in Frame /\ g.state = "T_EOL" /\ g.type = "V_INTEGER" /\ g.back = 1
    BY <1>2, WithValueType
  <1> HIDE DEF g, b
  <1> QED BY <1>1, <1>3, <1>4, <1>5, <1>6 DEF BottomFrame, Depth

\* The end of the signature's line, with a comment or without.
LEMMA NewlineStep == ASSUME IInv, TagNewline \/ CommentNewline PROVE IInv' /\ OthersKept
  <1>1. /\ call = "chunk" /\ Top.state \in {"T_TAG", "T_TAGCOMMENT"} /\ top - Top.back = 0
        /\ EndTurn /\ Quiet
    BY WhereTop DEF TagNewline, CommentNewline, On, Live
  <1>2. PICK state \in {"T_INITIAL", "T_BODY"} : PopBackAndCount(state)
    BY <1>1 DEF TagNewline, CommentNewline, IInv, BottomFrame
  <1>3. /\ stack' \in [Depth -> Frame] /\ top' = 1 /\ popped' \in BOOLEAN
        /\ BottomFrame' /\ stack'[0].type = stack[0].type
        /\ stack'[1].state = "T_EOL" /\ stack'[1].type = "V_INTEGER" /\ stack'[1].back = 1
        /\ stack'[2] = stack[2]
    BY <1>1, <1>2, CountFrames
  <1>4. stack[0].type \in {"V_NONE", "V_INTEGER"}
    BY DEF IInv, TypeOK, CueFrames, LineFrames, Depth, Frame, Types
  <1>5. \A i \in Depth : stack'[i].type \in {"V_NONE", "V_INTEGER"} \/ stack'[i] = stack[i]
    BY <1>3, <1>4 DEF Depth
  <1>6. top' \in Depth
    BY <1>3 DEF Depth
  <1> QED BY <1>1, <1>3, <1>5, <1>6, HeaderStep

\* One more of the ends of line behind the signature.
LEMMA EolCountStep == ASSUME IInv, EolCount PROVE IInv' /\ OthersKept
  <1>1. /\ call = "chunk" /\ Top.state = "T_EOL" /\ top = 1 /\ Top.back = 1
        /\ stack[1].state = "T_EOL" /\ stack[1].back = 1
        /\ stack \in [0..2 -> Frame] /\ stack[1] \in Frame /\ Live
    BY WhereTop DEF EolCount, On, Live, Top, Depth
  <1> DEFINE f == WithValue(stack[1], stack[1].value + 1)
  <1>2. f \in Frame /\ f.state = "T_EOL" /\ f.type = stack[1].type /\ f.back = 1
    <2>1. stack[1].value + 1 \in Nat
      BY <1>1 DEF Frame
    <2> QED BY <1>1, <2>1, WithValueType
  <1>3. stack' = [stack EXCEPT ![1] = f] /\ top' = top /\ popped' = popped
    BY <1>1 DEF EolCount
  <1> HIDE DEF f
  <1>4. stack[1].type \in {"V_NONE", "V_INTEGER"}
    BY <1>1, NoCueInHeader DEF IInv, TypeOK, LineFrames, Depth, Frame, Types
  <1>5. stack' \in [Depth -> Frame] /\ popped' \in BOOLEAN /\ stack'[1] = f
        /\ stack'[0] = stack[0] /\ stack'[2] = stack[2]
    BY <1>1, <1>2, <1>3 DEF IInv, TypeOK, Depth
  <1>6. BottomFrame'
    BY <1>5 DEF IInv, BottomFrame
  <1>7. \A i \in Depth : stack'[i].type \in {"V_NONE", "V_INTEGER"} \/ stack'[i] = stack[i]
    BY <1>2, <1>4, <1>5 DEF Depth
  <1> QED BY <1>1, <1>2, <1>3, <1>5, <1>6, <1>7, HeaderStep DEF EolCount, Depth

\* The first token that is no end of line.
LEMMA EolPopStep == ASSUME IInv, EolPop PROVE IInv' /\ OthersKept
  <1>1. /\ call = "chunk" /\ Top.state = "T_EOL" /\ top = 1 /\ top - Top.back = 0
        /\ stack \in [0..2 -> Frame] /\ stack[0] \in Frame /\ Live
    BY WhereTop DEF EolPop, On, Live, Depth
  <1> DEFINE f == BackTo(stack[0], stack[0].state)
  <1>2. f \in Frame /\ f.state = stack[0].state /\ f.type = stack[0].type /\ f.back = 0
    <2>1. stack[0].state \in States
      BY <1>1 DEF Frame
    <2> QED BY <1>1, <2>1, BackToType
  <1>3. stack' = [stack EXCEPT ![0] = f] /\ top' = 0 /\ popped' = TRUE
    BY <1>1 DEF EolPop
  <1> HIDE DEF f
  <1>4. stack[0].type \in {"V_NONE", "V_INTEGER"}
    BY <1>1 DEF IInv, TypeOK, CueFrames, LineFrames, Depth, Frame, Types
  <1>5. Holdings'
    BY <1>1, <1>2, <1>3, <1>4, HeaderFrames DEF EolPop, Quiet, heap, Depth, IInv, BottomFrame, MiddleFrame
  <1>6. TypeOK' /\ WithinChunk' /\ Finishing' /\ Deleted' /\ OthersKept
    BY <1>1, <1>2, <1>3, QuietStep DEF EolPop, lexer, input, Depth, IInv, TypeOK, WithinChunk
  <1> QED BY <1>5, <1>6 DEF IInv, Holdings

-----------------------------------------------------------------------------
(* The body: between cues, and the lines of a cue.                         *)

\* The stack that the body works on is one of frames, like the stack it was.
LEMMA BodyFrames ==
  ASSUME IInv, Live, Top.state = "T_BODY"
  PROVE  /\ top = 0 /\ BodyStack \in [Depth -> Frame]
         /\ BodyStack[0] = stack[0] /\ BodyStack[2] = stack[2]
         /\ BodyStack[1].type = stack[1].type /\ BodyStack[1].back = stack[1].back
         /\ stack[0] \in Frame /\ stack[0].back = 0
         /\ stack[0].type \in {"V_NONE", "V_INTEGER"}
         /\ stack[1].type \in {"V_NONE", "V_INTEGER"}
  <1>1. top = 0 /\ stack \in [0..2 -> Frame] /\ stack[1] \in Frame
    BY WhereTop DEF Depth
  <1> DEFINE f == InState(ClearValue(stack[1]), "T_INITIAL")
  <1>2. f \in Frame /\ f.type = stack[1].type /\ f.back = stack[1].back
    <2>1. ClearValue(stack[1]) \in Frame /\ "T_INITIAL" \in States
      BY <1>1, ClearValueType DEF States
    <2> QED BY <1>1, <2>1, ClearValueType, InStateType
  <1>3. BodyStack = IF FromHeader THEN [stack EXCEPT ![1] = f] ELSE stack
    BY <1>1 DEF BodyStack
  <1> HIDE DEF f
  <1>4. \A i \in 0..1 : stack[i].type \in {"V_NONE", "V_INTEGER"}
    BY <1>1, NoCueInHeader DEF IInv, LineFrames, Frame, Types, Depth
  <1> QED BY <1>1, <1>2, <1>3, <1>4 DEF Depth, IInv, BottomFrame

\* What the body reports are reports.
LEMMA BodyErrors ==
  ASSUME IInv, NEW die \in Dies,
         NEW codes \in {BodyReports, Append(BodyReports, "ALLOCATION_FAILED")}
  PROVE  /\ AtLine(Report(codes, die).codes, line) \in Seq(Codes \X Nat)
         /\ errors \o AtLine(Report(codes, die).codes, line) \in Seq(Codes \X Nat)
  <1>1. codes \in Seq(Codes)
    <2>1. <<"EXPECTED_EOL">> \in Seq(Codes) /\ "ALLOCATION_FAILED" \in Codes
      BY DEF Codes
    <2>2. BodyReports \in Seq(Codes)
      BY <2>1, EmptySeq DEF BodyReports
    <2> QED BY <2>1, <2>2
  <1>2. AtLine(Report(codes, die).codes, line) \in Seq(Codes \X Nat)
    BY <1>1, ReportType, AtLineType, DiesAssumption DEF IInv, TypeOK
  <1> QED BY <1>2 DEF IInv, TypeOK

\* The client stops the parser at a report.
LEMMA BodyDeadStep == ASSUME IInv, NEW d \in Dies, BodyDead(d) PROVE IInv' /\ OthersKept
  <1>1. errors' \in Seq(Codes \X Nat)
    BY BodyErrors DEF BodyDead
  <1> QED BY <1>1, ReturnStep DEF BodyDead, On, Statuses

\* An empty line between cues.
LEMMA BodyNewlineStep == ASSUME IInv, NEW d \in Dies, BodyNewline(d) PROVE IInv' /\ OthersKept
  <1>1. Live /\ call = "chunk" /\ Top.state = "T_BODY"
    BY DEF BodyNewline, On, Live
  <1>2. errors' \in Seq(Codes \X Nat)
    BY BodyErrors DEF BodyNewline
  <1>3. stack' = BodyStack /\ top' = 0 /\ popped' = popped
    BY <1>1, BodyFrames DEF BodyNewline
  <1>4. Holdings'
    <2>1. \A i \in Depth : stack'[i].type \in {"V_NONE", "V_INTEGER"} \/ stack'[i] = stack[i]
      BY <1>1, <1>3, BodyFrames DEF Depth
    <2>2. BottomFrame' /\ stack'[1].back <= 1 /\ top' \in Depth /\ stack' \in [Depth -> Frame]
      BY <1>1, <1>3, BodyFrames DEF IInv, BottomFrame, MiddleFrame, Depth
    <2> QED BY <1>1, <1>3, <2>1, <2>2, HeaderFrames DEF BodyNewline, heap
  <1>5. TypeOK' /\ WithinChunk' /\ Finishing' /\ Deleted'
    BY <1>1, <1>2, <1>3, BodyFrames, EmptySeq DEF BodyNewline, EndTurn, heap, input, calling, IInv, TypeOK,
      WithinChunk, Finishing, Deleted, Tokens, Depth
  <1>6. OthersKept
    BY DEF OthersKept, BodyNewline, heap
  <1> QED BY <1>4, <1>5, <1>6 DEF IInv, Holdings

\* A line is read into the upper frame, and taken off it.
LEMMA LineFrame ==
  ASSUME IInv, Live, Top.state = "T_CUEREAD", UNCHANGED <<cues, mode, lineBuf, strings>>,
         stack' \in [Depth -> Frame], top' \in {1, 2},
         stack'[0] = stack[0], stack'[1] = stack[1],
         stack'[2].state = "T_CUEREAD", stack'[2].type = "V_TEXT"
  PROVE  Holdings'
  <1>1. /\ top = 2 /\ stack[2].type = "V_TEXT" /\ stack[1].state = "T_CUE" /\ HoldsCue(1)
        /\ mode = "M_WEBVTT" /\ stack \in [0..2 -> Frame]
    BY WhereTop DEF IInv, StackShape, TextShape, Depth, Top
  <1>2. HoldsCue(1)'
    BY <1>1 DEF HoldsCue
  <1>3. StackShape'
    BY <1>1, <1>2 DEF StackShape, BottomShape, MiddleShape, TopShape, TextShape,
      Top, Above
  <1>4. BottomFrame' /\ MiddleFrame' /\ LineFrames'
    BY <1>1 DEF IInv, BottomFrame, MiddleFrame, LineFrames, Depth
  <1>5. CueFrames' /\ CueIsHeld'
    BY <1>1, <1>2 DEF IInv, CueFrames, CueIsHeld, Depth
  <1>6. MarkIsLast' /\ StringsCovered'
    BY <1>1 DEF IInv, MarkIsLast, StringsCovered, StringsInUse
  <1> QED BY <1>3, <1>4, <1>5, <1>6 DEF Holdings

\* The line that starts a cue.
LEMMA CueReadTextStep == ASSUME IInv, CueReadText PROVE IInv' /\ OthersKept
  <1>1. /\ Live /\ call = "chunk" /\ Top.state = "T_CUEREAD" /\ top = 2 /\ Top = stack[2]
        /\ stack[2].type = "V_TEXT" /\ stack \in [0..2 -> Frame] /\ stack[2] \in Frame
    BY WhereTop DEF CueReadText, Turn, Live, Depth, Top
  <1> DEFINE f == WithText(stack[2], Append(stack[2].text, Sym))
  <1>2. f \in Frame /\ f.state = stack[2].state /\ f.type = "V_TEXT"
    <2>1. Append(stack[2].text, Sym) \in Seq(Symbols)
      BY <1>1, SymType DEF CueReadText, Turn, Frame
    <2> QED BY <1>1, <2>1, WithTextType
  <1>3. stack' = [stack EXCEPT ![2] = f] /\ top' = 2 /\ popped' = popped
    BY <1>1 DEF CueReadText
  <1> HIDE DEF f
  <1>4. Holdings'
    BY <1>1, <1>2, <1>3, LineFrame DEF CueReadText, Quiet, heap, Depth
  <1>5. stack' \in [Depth -> Frame] /\ top' \in Depth /\ popped' \in BOOLEAN
    BY <1>1, <1>2, <1>3 DEF Depth, IInv, TypeOK
  <1>6. TypeOK' /\ WithinChunk' /\ Finishing' /\ Deleted' /\ OthersKept
    <2>1. pos' \in Nat /\ pos' <= lim
      BY SymType DEF CueReadText, Turn
    <2> QED BY <1>1, <1>5, <2>1, QuietStep DEF CueReadText, lexer, IInv, TypeOK
  <1> QED BY <1>4, <1>6 DEF IInv, Holdings

\* Its end has been read.
LEMMA CueReadEolStep == ASSUME IInv, CueReadEol PROVE IInv' /\ OthersKept
  <1>1. /\ Live /\ call = "chunk" /\ Top.state = "T_CUEREAD" /\ top = 2 /\ Top = stack[2]
        /\ stack[2].type = "V_TEXT" /\ stack \in [0..2 -> Frame] /\ stack[2] \in Frame
    BY WhereTop DEF CueReadEol, Turn, Live, Depth, Top
  <1>2. AtEol(stack[2]) \in Frame /\ AtEol(stack[2]).state = stack[2].state
        /\ AtEol(stack[2]).type = "V_TEXT"
    BY <1>1, AtEolType
  <1>3. stack' = [stack EXCEPT ![2] = AtEol(stack[2])] /\ top' = 2 /\ popped' = popped
    BY <1>1 DEF CueReadEol
  <1>4. Holdings'
    BY <1>1, <1>2, <1>3, LineFrame DEF CueReadEol, Quiet, heap, Depth
  <1>5. stack' \in [Depth -> Frame] /\ top' \in Depth /\ popped' \in BOOLEAN
    BY <1>1, <1>2, <1>3 DEF Depth, IInv, TypeOK
  <1>6. TypeOK' /\ WithinChunk' /\ Finishing' /\ Deleted' /\ OthersKept
    BY <1>1, <1>5, QuietStep DEF CueReadEol, lexer, input, IInv, TypeOK, WithinChunk
  <1> QED BY <1>4, <1>6 DEF IInv, Holdings

\* Its end is the next token.
LEMMA CueReadNewlineStep == ASSUME IInv, CueReadNewline PROVE IInv' /\ OthersKept
  <1> DEFINE x == LexedNewline(tstate, Sym)
  <1>1. /\ Live /\ call = "chunk" /\ Top.state = "T_CUEREAD" /\ top = 2 /\ Top = stack[2]
        /\ stack[2].type = "V_TEXT" /\ stack \in [Depth -> Frame]
    BY WhereTop DEF CueReadNewline, Turn, Live, Top
  <1>2. stack' = stack /\ top' \in {1, 2} /\ popped' \in BOOLEAN
    <2>1. CASE x.token = "NEWLINE"
      <3>1. stack' = stack /\ top' = top - 1
        BY <2>1 DEF CueReadNewline
      <3>2. popped' \in BOOLEAN
        BY <2>1 DEF CueReadNewline
      <3> QED BY <1>1, <3>1, <3>2
    <2>2. CASE x.token # "NEWLINE"
      BY <1>1, <2>2 DEF CueReadNewline, IInv, TypeOK
    <2> QED BY <2>1, <2>2
  <1>3. Holdings'
    BY <1>1, <1>2, LineFrame DEF CueReadNewline, Quiet, heap
  <1>4. /\ pos' \in Nat /\ pos' <= lim /\ tstate' \in LexStates /\ token' \in Seq(Symbols)
    BY LexedType, ConsumeType DEF CueReadNewline, Turn
  <1>5. TypeOK' /\ WithinChunk' /\ Finishing' /\ Deleted' /\ OthersKept
    BY <1>1, <1>2, <1>4, QuietStep DEF CueReadNewline, IInv, TypeOK, Depth
  <1> QED BY <1>3, <1>5 DEF IInv, Holdings

\* A new cue is a cue, and the parser's.
LEMMA NewCueType == NewCue \in Cue /\ NewCue.owner = "parser"
  BY EmptySeq DEF NewCue, Cue, Times, Owners

\* A cue starts in the body.
LEMMA BodyCueStep == ASSUME IInv, NEW d \in Dies, BodyCue(d) PROVE IInv' /\ OthersKept
  <1>1. Live /\ call = "chunk" /\ Top.state = "T_BODY" /\ top = 0 /\ Top = stack[0] /\ Top.back = 0
    BY BodyFrames DEF BodyCue, On, Live, Top
  <1>2. errors' \in Seq(Codes \X Nat)
    BY BodyErrors DEF BodyCue
  <1> DEFINE k == Len(cues) + 1
             f == WithCue(NewFrame("T_CUE", "V_CUE", 1), k)
             g == WithText(NewFrame("T_CUEREAD", "V_TEXT", 2), token)
  <1>3. k \in Nat /\ cues \in Seq(Cue) /\ token \in Seq(Symbols) /\ strings \in Nat
    BY DEF IInv, TypeOK
  <1>4. f \in Frame /\ f.state = "T_CUE" /\ f.type = "V_CUE" /\ f.back = 1 /\ f.cue = k
    <2>1. "T_CUE" \in States /\ "V_CUE" \in Types /\ 1 \in Depth
      BY DEF States, Types, Depth
    <2>2. /\ NewFrame("T_CUE", "V_CUE", 1) \in Frame
          /\ NewFrame("T_CUE", "V_CUE", 1).state = "T_CUE"
          /\ NewFrame("T_CUE", "V_CUE", 1).type = "V_CUE"
          /\ NewFrame("T_CUE", "V_CUE", 1).back = 1
      BY <2>1, NewFrameType
    <2> QED BY <1>3, <2>2, WithCueType
  <1>5. g \in Frame /\ g.state = "T_CUEREAD" /\ g.type = "V_TEXT"
    <2>1. "T_CUEREAD" \in States /\ "V_TEXT" \in Types /\ 2 \in Depth
      BY DEF States, Types, Depth
    <2>2. /\ NewFrame("T_CUEREAD", "V_TEXT", 2) \in Frame
          /\ NewFrame("T_CUEREAD", "V_TEXT", 2).state = "T_CUEREAD"
          /\ NewFrame("T_CUEREAD", "V_TEXT", 2).type = "V_TEXT"
      BY <2>1, NewFrameType
    <2> QED BY <1>3, <2>2, WithTextType
  <1>6. stack' = [BodyStack EXCEPT ![1] = f, ![2] = g] /\ top' = 2 /\ popped' \in BOOLEAN
    <2>1. top + 1 = 1 /\ top + 2 = 2 /\ Top.back + 1 = 1 /\ Top.back + 2 = 2
      BY <1>1
    <2>2. popped' \in BOOLEAN
      BY DEF BodyCue
    <2>3. stack' = [BodyStack EXCEPT
            ![top + 1] = WithCue(NewFrame("T_CUE", "V_CUE", Top.back + 1), Len(cues) + 1),
            ![top + 2] = WithText(NewFrame("T_CUEREAD", "V_TEXT", Top.back + 2), token)]
      BY DEF BodyCue
    <2>4. top' = top + 2
      BY DEF BodyCue
    <2> QED BY <2>1, <2>2, <2>3, <2>4
  <1> HIDE DEF f, g
  <1>7. /\ stack' \in [Depth -> Frame] /\ stack'[0] = stack[0] /\ stack'[1] = f /\ stack'[2] = g
    BY <1>1, <1>4, <1>5, <1>6, BodyFrames DEF Depth
  <1>8. cues' = Append(cues, NewCue) /\ strings' = strings + 1 /\ mode' = mode /\ lineBuf' = lineBuf
    BY DEF BodyCue
  <1>9. /\ cues' \in Seq(Cue) /\ Len(cues') = k /\ cues'[k] = NewCue
        /\ \A i \in DOMAIN cues : cues'[i] = cues[i]
        /\ DOMAIN cues' = DOMAIN cues \cup {k}
    BY <1>3, <1>8, NewCueType
  <1>10. mode = "M_WEBVTT" /\ \A i \in DOMAIN cues : cues[i].owner # "parser"
    BY <1>1, NoCueInHeader
  <1>11. HoldsCue(1)'
    BY <1>4, <1>7, <1>9, NewCueType DEF HoldsCue
  <1>12. StackShape'
    BY <1>4, <1>5, <1>6, <1>7, <1>8, <1>10, <1>11 DEF StackShape, BottomShape, MiddleShape,
      TopShape, TextShape, Top
  <1>13. BottomFrame' /\ MiddleFrame' /\ LineFrames'
    BY <1>1, <1>4, <1>5, <1>7, BodyFrames DEF IInv, BottomFrame, MiddleFrame, LineFrames, Depth
  <1>14. CueFrames'
    BY <1>1, <1>4, <1>5, <1>6, <1>7, <1>11, BodyFrames DEF CueFrames, Depth
  <1>15. CueIsHeld'
    BY <1>4, <1>7, <1>9, <1>10 DEF CueIsHeld
  <1>16. MarkIsLast' /\ StringsCovered'
    BY <1>3, <1>7, <1>8 DEF IInv, MarkIsLast, StringsCovered, StringsInUse
  <1>17. TypeOK' /\ WithinChunk' /\ Finishing' /\ Deleted'
    BY SMTT(20), <1>1, <1>2, <1>3, <1>6, <1>7, <1>8, <1>9, EmptySeq DEF BodyCue, EndTurn, input, calling, IInv,
      TypeOK, WithinChunk, Finishing, Deleted, Tokens, Depth
  <1>18. OthersKept
    BY <1>9, NewCueType DEF OthersKept
  <1> QED BY <1>12, <1>13, <1>14, <1>15, <1>16, <1>17, <1>18 DEF IInv

\* No memory for a cue or for its first line.
LEMMA BodyStarvedStep == ASSUME IInv, NEW d \in Dies, BodyStarved(d) PROVE IInv' /\ OthersKept
  <1> DEFINE codes == Append(BodyReports, "ALLOCATION_FAILED")
             r == Report(codes, d)
             c == [NewCue EXCEPT !.owner = NotMade(r.dead)]
             f == Vacate(stack[0])
  <1>1. /\ Live /\ call = "chunk" /\ Top.state = "T_BODY" /\ top = 0 /\ stack[0] \in Frame
        /\ BodyStack \in [Depth -> Frame] /\ BodyStack[0] = stack[0]
        /\ BodyStack[2] = stack[2] /\ BodyStack[1].type = stack[1].type
        /\ BodyStack[1].back = stack[1].back
        /\ stack[0].type \in {"V_NONE", "V_INTEGER"} /\ stack[1].type \in {"V_NONE", "V_INTEGER"}
    BY BodyFrames DEF BodyStarved, On, Live
  <1>2. /\ mode = "M_WEBVTT" /\ \A k \in DOMAIN cues : cues[k].owner # "parser"
        /\ cues \in Seq(Cue) /\ strings \in Nat
    BY <1>1, NoCueInHeader DEF IInv, TypeOK
  <1>3. /\ errors' = errors \o AtLine(r.codes, line) /\ cues' \in {cues, Append(cues, c)}
        /\ \/ stack' = BodyStack
           \/ stack' = [BodyStack EXCEPT ![0] = f]
        /\ UNCHANGED <<tstate, token, top, popped, delivered, strings, mode, finished, lineBuf, line>>
    BY <1>1 DEF BodyStarved
  <1>4. PICK s \in Statuses : Return(s)
    BY DEF BodyStarved, Statuses
  <1>5. errors' \in Seq(Codes \X Nat)
    BY <1>3, BodyErrors
  <1>6. c \in Cue /\ c.owner \in {"lost", "released"} /\ (c.owner = "lost" => r.dead)
    <2>1. NotMade(r.dead) \in {"lost", "released"} /\ (NotMade(r.dead) = "lost" => r.dead)
      BY DEF NotMade
    <2> HIDE DEF r
    <2> QED BY <2>1, NewCueType DEF Cue, Owners
  <1>7. c.owner = "lost" => Reported'
    <2>1. BodyReports \in Seq(Codes) /\ Len(codes) = Len(BodyReports) + 1
      <3>1. <<"EXPECTED_EOL">> \in Seq(Codes)
        BY DEF Codes
      <3>2. BodyReports \in Seq(Codes)
        BY <3>1, EmptySeq DEF BodyReports
      <3> QED BY <3>2
    <2>2. r.dead => r.codes = codes
      <3>1. ~Report(BodyReports, d).dead
        BY DEF BodyStarved
      <3>2. d \notin 1..Len(BodyReports)
        BY <3>1 DEF Report
      <3>3. ASSUME r.dead PROVE r.codes = codes
        <4>1. d \in 1..Len(codes)
          BY <3>3 DEF Report
        <4>2. d = Len(codes)
          BY <2>1, <3>2, <4>1
        <4>3. r.codes = SubSeq(codes, 1, d)
          BY <4>1 DEF Report
        <4>4. codes \in Seq(Codes)
          BY <2>1 DEF Codes
        <4> HIDE DEF codes
        <4> QED BY <4>2, <4>3, <4>4
      <3> QED BY <3>3
    <2>3. ASSUME r.dead PROVE Reported'
      <3> DEFINE n == Len(codes)
                 q == AtLine(codes, line)
      <3>1. q[n] = <<"ALLOCATION_FAILED", line>> /\ n \in 1..Len(q) /\ q \in Seq(Codes \X Nat)
        <4>1. codes[n] = "ALLOCATION_FAILED" /\ n \in 1..n /\ n \in Nat /\ codes \in Seq(Codes)
          BY <2>1 DEF Codes
        <4> HIDE DEF codes
        <4> QED BY <4>1, AtLineType DEF AtLine, IInv, TypeOK
      <3>2. errors' = errors \o q /\ errors \in Seq(Codes \X Nat)
        BY <1>3, <2>2, <2>3 DEF IInv, TypeOK
      <3> HIDE DEF n, q
      <3>3. /\ Len(errors) + n \in DOMAIN errors'
            /\ errors'[Len(errors) + n] = <<"ALLOCATION_FAILED", line>>
        BY <3>1, <3>2
      <3> QED BY <3>3 DEF Reported
    <2> QED BY <1>6, <2>3
  <1>8. f \in Frame /\ f.type = "V_NONE" /\ f.state = stack[0].state /\ f.back = stack[0].back
    BY <1>1, VacateType
  <1> HIDE DEF c, r, f, codes
  <1>9. /\ stack' \in [Depth -> Frame] /\ stack'[2] = stack[2]
        /\ stack'[1].type = stack[1].type /\ stack'[1].back = stack[1].back
        /\ stack'[0].state = stack[0].state /\ stack'[0].back = stack[0].back
        /\ stack'[0].type \in {"V_NONE", "V_INTEGER"}
    BY <1>1, <1>3, <1>8 DEF Depth
  <1>10. /\ cues' \in Seq(Cue) /\ \A k \in DOMAIN cues' : cues'[k].owner # "parser"
         /\ OthersKept
    <2>1. CASE cues' = cues
      BY <1>2, <2>1 DEF OthersKept
    <2>2. CASE cues' = Append(cues, c)
      <3>1. /\ cues' \in Seq(Cue) /\ DOMAIN cues' = DOMAIN cues \cup {Len(cues) + 1}
            /\ cues'[Len(cues) + 1] = c /\ \A k \in DOMAIN cues : cues'[k] = cues[k]
        BY <1>2, <1>6, <2>2
      <3> QED BY <1>2, <1>6, <1>7, <3>1 DEF OthersKept
    <2> QED BY <1>3, <2>1, <2>2
  <1>11. StackShape' /\ BottomFrame' /\ MiddleFrame' /\ LineFrames'
    BY <1>1, <1>2, <1>3, <1>9 DEF StackShape, BottomShape, MiddleShape, TopShape, TextShape, Top,
      IInv, BottomFrame, MiddleFrame, LineFrames, Depth
  <1>12. CueFrames' /\ CueIsHeld'
    BY <1>1, <1>9, <1>10 DEF IInv, CueFrames, CueIsHeld, Depth
  <1>13. StringsCovered' /\ MarkIsLast'
    BY <1>3, <1>9 DEF IInv, StringsCovered, StringsInUse, MarkIsLast
  <1>14. TypeOK' /\ WithinChunk' /\ Finishing' /\ Deleted'
    BY <1>1, <1>3, <1>4, <1>5, <1>9, <1>10 DEF Return, IInv, TypeOK, WithinChunk, Finishing, Deleted
  <1> QED BY <1>10, <1>11, <1>12, <1>13, <1>14 DEF IInv

-----------------------------------------------------------------------------
(* A line of a cue: webvtt_proc_cueline.                                   *)

\* r is what a line of cue c can result in.
LineResult(r, c) ==
  /\ r.cue \in Cue /\ r.cue.owner = c.owner /\ r.codes \in Seq(Codes)
  /\ r.mode \in Modes /\ r.status \in Statuses
  /\ r.again \in BOOLEAN /\ r.released \in BOOLEAN
  /\ r.again => r.mode = "M_WEBVTT" /\ r.released

\* What a line of timings does to a cue, whatever the client says to its reports.
LEMMA TimingsLineType ==
  ASSUME NEW c \in Cue, NEW l \in Seq(Symbols), NEW die \in Nat
  PROVE  LineResult(TimingsLine(c, l, die), c)
  <1> DEFINE k == TimingKind(l)
             rep == Report(TimingReports(k), die)
             s == IF rep.dead THEN TimingDeadStatus(k) ELSE TimingStatus(k)
             d == IF s = "SUCCESS" THEN [c EXCEPT !.time = k] ELSE c
  <1>1. k \in TimingSymbols \cup {"BAD"}
    BY DEF TimingKind
  <1>2. rep.codes \in Seq(Codes)
    <2>1. /\ <<"EXPECTED_TIMESTAMP">> \in Seq(Codes)
          /\ <<"MALFORMED_TIMESTAMP", "MALFORMED_TIMESTAMP">> \in Seq(Codes)
          /\ <<"EXPECTED_WHITESPACE">> \in Seq(Codes)
      BY DEF Codes
    <2>2. TimingReports(k) \in Seq(Codes)
      BY <2>1, EmptySeq DEF TimingReports
    <2> QED BY <2>2, ReportType
  <1>3. s \in {"SUCCESS", "BAD_CUE", "PARSE_ERROR"} /\ (s = "SUCCESS" => k \in Times)
    BY <1>1 DEF TimingStatus, TimingDeadStatus, TimingSymbols, Times
  <1>4. d \in Cue /\ d.owner = c.owner
    BY <1>3 DEF Cue
  <1>5. TimingsLine(c, l, die) =
          [cue |-> d,
           mode |-> CASE s = "SUCCESS" -> "M_CUETEXT"
                      [] s = "BAD_CUE" -> "M_SKIP_CUE"
                      [] OTHER         -> "M_WEBVTT",
           status |-> IF s = "PARSE_ERROR" THEN s ELSE "SUCCESS",
           codes |-> rep.codes, again |-> FALSE, released |-> s # "PARSE_ERROR"]
    BY DEF TimingsLine
  <1> HIDE DEF d, s, rep, k
  <1> QED BY <1>2, <1>3, <1>4, <1>5 DEF Modes, Statuses, LineResult

\* What a second line without timings does to a cue.
LEMMA SecondIdLineType ==
  ASSUME NEW c \in Cue, NEW die \in Nat
  PROVE  LineResult(SecondIdLine(c, die), c)
  <1>1. <<"CUE_INCOMPLETE">> \in Seq(Codes)
    BY DEF Codes
  <1>2. Report(<<"CUE_INCOMPLETE">>, die).codes \in Seq(Codes)
    BY <1>1, ReportType
  <1> QED BY <1>2 DEF SecondIdLine, Modes, Statuses, LineResult

\* What an id does to a cue.
LEMMA IdLineType ==
  ASSUME NEW c \in Cue, NEW l \in Seq(Symbols)
  PROVE  LineResult(IdLine(c, l), c)
  BY EmptySeq DEF IdLine, Cue, Statuses, Modes, LineResult

\* What an id there is no memory for does to a cue.
LEMMA IdStarvedType ==
  ASSUME NEW c \in Cue, NEW die \in Nat
  PROVE  LineResult(IdStarved(c, die), c)
  BY NoMemoryType DEF IdStarved, Modes, LineResult

\* What any line before the cue text does to a cue.
LEMMA ProcCueLineType ==
  ASSUME NEW c \in Cue, NEW f \in Frame, NEW die \in Nat, NEW fails \in BOOLEAN
  PROVE  LineResult(ProcCueLine(c, f, die, fails), c)
  <1>1. f.text \in Seq(Symbols)
    BY DEF Frame
  <1>2. CASE HasArrow(f.text)
    BY <1>1, <1>2, TimingsLineType DEF ProcCueLine
  <1>3. CASE ~HasArrow(f.text) /\ c.haveId
    BY <1>3, SecondIdLineType DEF ProcCueLine
  <1>4. CASE ~HasArrow(f.text) /\ ~c.haveId /\ (fails \/ f.type # "V_TEXT")
    BY <1>4, IdStarvedType DEF ProcCueLine
  <1>5. CASE ~HasArrow(f.text) /\ ~c.haveId /\ ~(fails \/ f.type # "V_TEXT")
    BY <1>1, <1>5, IdLineType DEF ProcCueLine
  <1> QED BY <1>2, <1>3, <1>4, <1>5

\* What becomes of the frames, the cue and the strings once a line of the cue is
\* dealt with; f is what is left of its frame.
LEMMA LineDone ==
  ASSUME IInv, mode = "M_WEBVTT", stack[1].state = "T_CUE", HoldsCue(1),
         NEW f \in Frame, f.type = "V_NONE",
         NEW r, LineResult(r, cues[stack[1].cue]),
         cues' = [cues EXCEPT ![stack[1].cue] = r.cue],
         strings' = StringsAfterLine(r, stack[2]),
         stack' = AfterLine([stack EXCEPT ![2] = f], 1, r),
         top' = (IF r.again THEN 2 ELSE 1),
         mode' = r.mode, lineBuf' = lineBuf
  PROVE  /\ Holdings' /\ OthersKept
         /\ stack' \in [Depth -> Frame] /\ top' \in Depth /\ cues' \in Seq(Cue)
         /\ strings' \in Nat /\ mode' \in Modes
  <1> DEFINE k == stack[1].cue
             g == NewFrame("T_CUEREAD", "V_TEXT", stack[1].back + 1)
  <1>1. /\ stack \in [0..2 -> Frame] /\ strings \in Nat /\ cues \in Seq(Cue)
        /\ stack[1] \in Frame /\ k \in DOMAIN cues /\ cues[k].owner = "parser"
        /\ stack[1].type = "V_CUE"
    BY DEF IInv, TypeOK, Depth, HoldsCue
  <1>2. g \in Frame /\ g.state = "T_CUEREAD" /\ g.type = "V_TEXT"
    <2>1. "T_CUEREAD" \in States /\ "V_TEXT" \in Types /\ stack[1].back + 1 \in Depth
      BY SMTT(20), <1>1 DEF States, Types, Depth, Frame, IInv, MiddleFrame
    <2> QED BY <2>1, NewFrameType
  <1>3. stack' = IF r.again THEN [stack EXCEPT ![2] = g] ELSE [stack EXCEPT ![2] = f]
    <2> DEFINE stk == [stack EXCEPT ![2] = f]
    <2>1. stk[1] = stack[1] /\ stack' = AfterLine(stk, 1, r)
      BY <1>1
    <2>2. [stk EXCEPT ![2] = g] = [stack EXCEPT ![2] = g]
      BY <1>1
    <2>3. ~r.again => stack' = stk
      BY DEF AfterLine
    <2>4. CASE r.again
      <3> HIDE DEF stk
      <3>1. stack' = [stk EXCEPT ![1 + 1] = NewFrame("T_CUEREAD", "V_TEXT", stk[1].back + 1)]
        BY <2>1, <2>4 DEF AfterLine
      <3>2. stk[1].back + 1 = stack[1].back + 1 /\ 1 + 1 = 2
        BY <2>1
      <3>3. stack' = [stk EXCEPT ![2] = g]
        BY <3>1, <3>2
      <3> QED BY <2>2, <2>4, <3>3
    <2> QED BY <2>3, <2>4
  <1>4. /\ r.cue \in Cue /\ r.cue.owner = "parser" /\ r.mode \in Modes
        /\ r.again => r.mode = "M_WEBVTT" /\ r.released
    BY <1>1 DEF LineResult
  <1>5. strings' = (strings - (IF r.released /\ stack[2].type = "V_TEXT" THEN 1 ELSE 0))
                    + (IF r.again THEN 1 ELSE 0)
    BY DEF StringsAfterLine
  <1>6. /\ stack' \in [Depth -> Frame] /\ stack'[0] = stack[0] /\ stack'[1] = stack[1]
        /\ stack'[2].state = (IF r.again THEN "T_CUEREAD" ELSE f.state)
        /\ stack'[2].type = (IF r.again THEN "V_TEXT" ELSE "V_NONE")
    <2> HIDE DEF g
    <2>1. CASE r.again
      BY SMTT(20), <1>1, <1>2, <1>3, <2>1 DEF Depth
    <2>2. CASE ~r.again
      BY <1>1, <1>3, <2>2 DEF Depth
    <2> QED BY <2>1, <2>2
  <1> HIDE DEF g
  <1>7. /\ cues' \in Seq(Cue) /\ DOMAIN cues' = DOMAIN cues /\ cues'[k].owner = "parser"
        /\ \A i \in DOMAIN cues : i # k => cues'[i] = cues[i]
    BY <1>1, <1>4
  <1>8. HoldsCue(1)'
    BY <1>1, <1>6, <1>7 DEF HoldsCue
  <1>9. StackShape'
    <2>1. CASE r.again
      BY <1>2, <1>4, <1>6, <1>8, <2>1 DEF StackShape, BottomShape, MiddleShape, TopShape, TextShape,
        Top, Above
    <2>2. CASE ~r.again
      BY <1>4, <1>6, <1>8, <2>2 DEF StackShape, BottomShape, MiddleShape, TopShape, TextShape,
        LinePending, Top, Above
    <2> QED BY <2>1, <2>2
  <1>10. BottomFrame' /\ MiddleFrame' /\ LineFrames'
    BY <1>1, <1>2, <1>6 DEF IInv, BottomFrame, MiddleFrame, LineFrames, Depth
  <1>11. CueFrames' /\ CueIsHeld'
    <2>1. CueFrames'
      BY <1>1, <1>6, <1>8 DEF IInv, CueFrames, Depth
    <2>2. CueIsHeld'
      BY <1>1, <1>6, <1>7 DEF IInv, CueIsHeld
    <2> QED BY <2>1, <2>2
  <1>12. MarkIsLast' /\ StringsCovered' /\ strings' \in Nat
    BY <1>1, <1>2, <1>4, <1>5, <1>6 DEF IInv, MarkIsLast, StringsCovered, StringsInUse
  <1>13. OthersKept
    BY <1>1, <1>7 DEF OthersKept
  <1> QED BY <1>4, <1>6, <1>7, <1>9, <1>10, <1>11, <1>12, <1>13 DEF Holdings, Depth

\* A line before the cue text.
LEMMA CueLineStep ==
  ASSUME IInv, NEW d \in Dies, NEW fails \in Failing, CueLine(d, fails)
  PROVE  IInv' /\ OthersKept /\ ReportsAdded
  <1> DEFINE r == ProcCueLine(cues[Top.cue], Above, d, fails)
             f == Vacate(stack[2])
  <1>1. /\ Live /\ call = "chunk" /\ mode = "M_WEBVTT" /\ top = 1 /\ Top = stack[1]
        /\ Above = stack[2] /\ stack[1].state = "T_CUE" /\ HoldsCue(1)
        /\ LinePending /\ stack \in [0..2 -> Frame] /\ stack[2] \in Frame
    BY WhereTop DEF CueLine, Turn, Live, Depth, Top, Above, LacksCue
  <1>3. f \in Frame /\ f.type = "V_NONE"
    BY <1>1, VacateType
  <1>4. LineResult(r, cues[stack[1].cue])
    <2>1. cues[Top.cue] \in Cue
      BY <1>1 DEF IInv, TypeOK, HoldsCue
    <2>2. Above \in Frame /\ d \in Nat /\ fails \in BOOLEAN
      BY <1>1, DiesAssumption DEF Failing
    <2> QED BY <1>1, <2>1, <2>2, ProcCueLineType
  <1>5. /\ cues' = [cues EXCEPT ![stack[1].cue] = r.cue]
        /\ strings' = StringsAfterLine(r, stack[2])
        /\ stack' = AfterLine([stack EXCEPT ![2] = f], 1, r)
        /\ top' = (IF r.again THEN 2 ELSE 1)
        /\ mode' = r.mode /\ status' = r.status
        /\ errors' = errors \o AtLine(r.codes, line)
        /\ lineBuf' = lineBuf
    BY <1>1 DEF CueLine
  <1>7. popped' \in BOOLEAN /\ token' \in Seq(Symbols)
    <2>1. CASE r.mode = "M_WEBVTT"
      <3>1. popped' = FALSE /\ token' = << >>
        BY <2>1 DEF CueLine
      <3>2. popped' \in BOOLEAN
        BY <3>1
      <3> QED BY <3>1, <3>2, EmptySeq
    <2>2. CASE r.mode # "M_WEBVTT"
      BY <2>2 DEF CueLine, IInv, TypeOK
    <2> QED BY <2>1, <2>2
  <1>8. errors' \in Seq(Codes \X Nat) /\ ReportsAdded /\ status' \in Statuses
    <2>1. AtLine(r.codes, line) \in Seq(Codes \X Nat)
      BY <1>4, AtLineType DEF LineResult, IInv, TypeOK
    <2>2. errors' = errors \o AtLine(r.codes, line) /\ status' \in Statuses
      BY <1>4, <1>5 DEF LineResult
    <2> HIDE DEF r
    <2> QED BY <2>1, <2>2, Added
  <1> HIDE DEF r, f
  <1>9. /\ Holdings' /\ OthersKept
        /\ stack' \in [Depth -> Frame] /\ top' \in Depth /\ cues' \in Seq(Cue)
        /\ strings' \in Nat /\ mode' \in Modes
    BY <1>1, <1>3, <1>4, <1>5, LineDone
  <1>10. TypeOK' /\ WithinChunk' /\ Finishing' /\ Deleted'
    <2>1. TypeOK'
      <3>1. /\ UNCHANGED <<doc, lim, pos, call, ret, tstate, tk, delivered, finished, lineBuf>>
            /\ line' = line + 1
        BY DEF CueLine, input
      <3> QED BY <1>7, <1>8, <1>9, <3>1 DEF IInv, TypeOK
    <2>2. WithinChunk' /\ Finishing' /\ Deleted'
      BY <1>1 DEF CueLine, input, IInv, WithinChunk, Finishing, Deleted
    <2> QED BY <2>1, <2>2
  <1> QED BY <1>8, <1>9, <1>10 DEF IInv, Holdings

-----------------------------------------------------------------------------
(* The text of a cue.                                                      *)

\* The mark is no symbol, so an unmarked line is all symbols, and so is what
\* is before the mark.
LEMMA LineBufText ==
  ASSUME IInv
  PROVE  /\ ~Marked => lineBuf \in Seq(Symbols)
         /\ Marked => Front(lineBuf) \in Seq(Symbols) /\ Len(lineBuf) > 0
  <1>1. lineBuf \in Seq(Symbols \cup {Mark}) /\ Mark \notin Symbols
    BY DEF IInv, TypeOK, Mark, Symbols, TimingSymbols
  <1>2. ASSUME ~Marked PROVE lineBuf \in Seq(Symbols)
    <2>1. \A i \in 1..Len(lineBuf) : lineBuf[i] # Mark
      BY <1>1, <1>2 DEF Marked, Last, IInv, MarkIsLast
    <2> QED BY <1>1, <2>1
  <1>3. ASSUME Marked PROVE Front(lineBuf) \in Seq(Symbols) /\ Len(lineBuf) > 0
    <2>1. Len(lineBuf) > 0
      BY <1>1, <1>3 DEF Marked
    <2>2. \A i \in 1..Len(lineBuf) - 1 : lineBuf[i] \in Symbols
      BY <1>1 DEF IInv, MarkIsLast
    <2>3. Front(lineBuf) = SubSeq(lineBuf, 1, Len(lineBuf) - 1)
      BY DEF Front
    <2> QED BY <1>1, <2>1, <2>2, <2>3
  <1> QED BY <1>2, <1>3

\* A line buffer that is written is allocated.
LEMMA LineBufAllocated ==
  ASSUME IInv
  PROVE  /\ WithLineBuf \in Nat
         /\ WithLineBuf >= (IF stack[2].type = "V_TEXT" THEN 1 ELSE 0) + 1
  BY DEF IInv, TypeOK, StringsCovered, StringsInUse, WithLineBuf

\* Cue text up to the end of the chunk or of a line.
LEMMA TextReadStep == ASSUME IInv, TextRead PROVE IInv' /\ OthersKept
  <1>1. Live /\ call = "chunk" /\ Live'
    BY DEF TextRead, InText, Live
  <1>2. lineBuf \in Seq(Symbols) /\ Mark \notin Symbols /\ Sym \in Symbols
    BY LineBufText, SymType DEF TextRead, InText, Mark, Symbols, TimingSymbols
  <1>3. PICK s \in Symbols \cup {Mark} : lineBuf' = Append(lineBuf, s)
    BY <1>2 DEF TextRead
  <1>4. /\ lineBuf' \in Seq(Symbols \cup {Mark}) /\ lineBuf' # << >>
        /\ MarkIsLast'
    BY <1>2, <1>3 DEF MarkIsLast
  <1>5. strings' \in Nat /\ StringsCovered'
    BY <1>4, LineBufAllocated DEF TextRead, StringsCovered, StringsInUse, frames
  <1>6. pos' \in Nat /\ pos' <= lim /\ lim' = lim /\ doc' = doc
    BY SymType DEF TextRead, InText, IInv, TypeOK, WithinChunk
  <1>7. TypeOK' /\ WithinChunk' /\ Finishing' /\ Deleted'
    BY <1>1, <1>4, <1>5, <1>6 DEF TextRead, lexer, frames, outcome, IInv, TypeOK, WithinChunk,
      Finishing, Deleted, Statuses
  <1> QED BY <1>1, <1>4, <1>5, <1>7, SameFrames DEF TextRead, IInv

\* A carriage return may end the line with the line feed of the next chunk.
LEMMA TextCarriageReturnStep == ASSUME IInv, TextCarriageReturn PROVE IInv' /\ OthersKept
  <1>1. Live /\ call = "chunk"
    BY DEF TextCarriageReturn, InText, Live
  <1>2. /\ pos' \in Nat /\ pos' <= lim /\ tstate' \in LexStates /\ token' \in Seq(Symbols)
    BY LexedType, ConsumeType DEF TextCarriageReturn, InText
  <1>3. Holdings' /\ OthersKept
    BY <1>1, SameHoldings DEF TextCarriageReturn, heap
  <1>4. TypeOK' /\ WithinChunk' /\ Finishing' /\ Deleted'
    BY <1>1, <1>2 DEF TextCarriageReturn, frames, outcome, heap, IInv, TypeOK, WithinChunk,
      Finishing, Deleted, Statuses
  <1> QED BY <1>3, <1>4 DEF IInv, Holdings

\* What a cue without more text becomes.
LEMMA NewOwnerType ==
  ASSUME NEW c \in Cue
  PROVE  /\ NewOwner(c) \in {"application", "released"}
         /\ [c EXCEPT !.owner = NewOwner(c)] \in Cue
  BY DEF NewOwner, Cue, Owners

\* One more line of text leaves a cue a cue of the same owner,
LEMMA BodyType ==
  ASSUME NEW c \in Cue, NEW l \in Seq(Symbols)
  PROVE  WithLine(c, l) \in Cue /\ WithLine(c, l).owner = c.owner
  <1>1. c.body \in Seq(Seq(Symbols))
    BY DEF Cue
  <1>2. Append(c.body, l) \in Seq(Seq(Symbols))
    BY <1>1
  <1> QED BY <1>2 DEF Cue, WithLine

\* whether there is memory for it or not.
LEMMA LongerType ==
  ASSUME NEW c \in Cue, NEW l \in Seq(Symbols), NEW d \in Longer(c, l)
  PROVE  d \in Cue /\ d.owner = c.owner
  <1>1. d \in {c, WithLine(c, l), WithLine(c, << >>)}
    BY DEF Longer, WithoutLine
  <1> QED BY <1>1, EmptySeq, BodyType

\* The parts of the invariant after a line of cue text, and the types.
Gathered ==
  /\ StackShape /\ BottomFrame /\ MiddleFrame /\ CueFrames /\ CueIsHeld
  /\ LineFrames
  /\ stack \in [Depth -> Frame] /\ top \in Depth /\ popped \in BOOLEAN
  /\ cues \in Seq(Cue) /\ delivered \in Seq(Nat) /\ mode \in Modes

\* Outside the header the stack is the body's, with one cue on it.
LEMMA HeldCue ==
  ASSUME IInv, Live, mode # "M_WEBVTT"
  PROVE  /\ top = 1 /\ Top = stack[1] /\ Above = stack[2] /\ stack \in [0..2 -> Frame]
         /\ stack[1] \in Frame /\ stack[2] \in Frame /\ stack[2].type = "V_NONE"
         /\ stack[1].state = "T_CUE" /\ HoldsCue(1) /\ stack[1].type = "V_CUE"
         /\ stack[1].cue \in DOMAIN cues /\ cues[stack[1].cue] \in Cue
         /\ cues[stack[1].cue].owner = "parser" /\ cues \in Seq(Cue)
         /\ \A k \in DOMAIN cues : cues[k].owner = "parser" => k = stack[1].cue
  <1>1. top = 1 /\ stack[1].state = "T_CUE" /\ stack[2].type = "V_NONE" /\ stack \in [0..2 -> Frame]
        /\ cues \in Seq(Cue)
    BY DEF IInv, TypeOK, StackShape, TextShape, Top, Above, Depth
  <1>2. HoldsCue(1)
    BY <1>1 DEF IInv, StackShape, MiddleShape, Top, LacksCue
  <1> QED BY <1>1, <1>2 DEF HoldsCue, Top, Above, IInv, CueIsHeld

\* The cue is done, and no line is pending.
LEMMA CloseLast ==
  ASSUME IInv, Live, mode # "M_WEBVTT", NEW c \in Cue, CloseCue(c, Above)
  PROVE  Gathered' /\ OthersKept /\ stack'[2].type = "V_NONE"
  <1> DEFINE k == stack[1].cue
             d == [c EXCEPT !.owner = NewOwner(c)]
             f == InState(Vacate(stack[1]), "T_INITIAL")
             g == InState(stack[2], "T_INITIAL")
  <1>1. d \in Cue /\ d.owner \in {"application", "released"}
    BY NewOwnerType DEF Cue
  <1>2. f \in Frame /\ f.type = "V_NONE" /\ f.back = stack[1].back
    <2>1. "T_INITIAL" \in States /\ stack[1] \in Frame
      BY HeldCue DEF States
    <2>2. Vacate(stack[1]) \in Frame
      BY <2>1, VacateType
    <2> QED BY <2>1, <2>2, VacateType, InStateType
  <1>3. g \in Frame /\ g.type = "V_NONE" /\ g.state = "T_INITIAL"
    <2>1. "T_INITIAL" \in States
      BY DEF States
    <2> QED BY <2>1, HeldCue, InStateType
  <1>4. /\ cues' = [cues EXCEPT ![k] = d] /\ mode' = "M_WEBVTT" /\ top' = 0
        /\ stack' = [stack EXCEPT ![1] = f, ![2] = g]
    BY HeldCue DEF CloseCue
  <1>5. popped' \in BOOLEAN
    BY HeldCue DEF CloseCue
  <1>6. delivered' \in Seq(Nat)
    BY HeldCue DEF CloseCue, IInv, TypeOK, Frame
  <1> HIDE DEF d, f, g
  <1>7. /\ cues' \in Seq(Cue) /\ DOMAIN cues' = DOMAIN cues /\ cues'[k] = d
        /\ \A i \in DOMAIN cues : i # k => cues'[i] = cues[i]
    BY <1>1, <1>4, HeldCue
  <1>8. /\ stack' \in [Depth -> Frame] /\ stack'[0] = stack[0] /\ stack'[1] = f /\ stack'[2] = g
    BY <1>2, <1>3, <1>4, HeldCue DEF Depth
  <1>9. StackShape' /\ BottomFrame' /\ MiddleFrame' /\ LineFrames'
    BY <1>2, <1>3, <1>4, <1>8 DEF IInv, StackShape, BottomShape, MiddleShape, TopShape, TextShape,
      BottomFrame, MiddleFrame, LineFrames, Top, Depth
  <1>10. CueFrames'
    BY <1>2, <1>3, <1>8 DEF IInv, CueFrames, Depth
  <1>11. CueIsHeld' /\ OthersKept
    BY <1>1, <1>7, HeldCue DEF CueIsHeld, OthersKept
  <1>12. mode' \in Modes /\ top' \in Depth
    BY <1>4 DEF Modes, Depth
  <1> QED BY <1>3, <1>5, <1>6, <1>7, <1>8, <1>9, <1>10, <1>11, <1>12 DEF Gathered

\* The cue is done, and the next one has a line pending, or could not be made.
LEMMA CloseChained ==
  ASSUME IInv, Live, mode # "M_WEBVTT", NEW c \in Cue, NEW above \in Frame,
         above.type = "V_TEXT", CloseCue(c, above), doc' = doc
  PROVE  Gathered' /\ OthersKept
  <1> DEFINE k == stack[1].cue
             n == Len(cues) + 1
             d == [c EXCEPT !.owner = NewOwner(c)]
             done == [cues EXCEPT ![k] = d]
             f == WithCue(stack[1], n)
             e == WithCue(stack[1], 0)
  <1>1. d \in Cue /\ d.owner \in {"application", "released"}
    BY NewOwnerType DEF Cue
  <1>2. /\ f \in Frame /\ f.type = "V_CUE" /\ f.state = "T_CUE" /\ f.cue = n
        /\ f.back = stack[1].back /\ n \in Nat
    <2>1. n \in Nat
      BY HeldCue
    <2> QED BY <2>1, HeldCue, WithCueType
  <1>3. /\ e \in Frame /\ e.type = "V_CUE" /\ e.state = "T_CUE" /\ e.cue = 0
        /\ e.back = stack[1].back
    <2>1. stack[1] \in Frame /\ 0 \in Nat
      BY HeldCue
    <2>2. stack[1].type = "V_CUE" /\ stack[1].state = "T_CUE"
      BY HeldCue
    <2> QED BY <2>1, <2>2, WithCueType
  <1>4. /\ mode' = "M_WEBVTT" /\ top' = 1
        /\ \/ cues' = Append(done, NewCue) /\ stack' = [stack EXCEPT ![1] = f, ![2] = above]
           \/ MayFail /\ cues' = done /\ stack' = [stack EXCEPT ![1] = e, ![2] = above]
    <2>1. top = 1 /\ Top = stack[1] /\ stack \in [0..2 -> Frame] /\ above.type # "V_NONE"
      BY HeldCue
    <2>2. /\ mode' = "M_WEBVTT" /\ top' = top
          /\ \/ /\ cues' = Append(done, NewCue)
                /\ stack' = [stack EXCEPT ![top] = WithCue(@, n), ![top + 1] = above]
             \/ /\ MayFail /\ cues' = done
                /\ stack' = [stack EXCEPT ![top] = WithCue(@, 0), ![top + 1] = above]
      BY <2>1 DEF CloseCue, NextCue
    <2> HIDE DEF done, n
    <2> QED BY <2>1, <2>2
  <1>5. popped' \in BOOLEAN
    BY HeldCue DEF CloseCue
  <1>6. delivered' \in Seq(Nat)
    <2>1. k \in Nat /\ delivered \in Seq(Nat)
      BY HeldCue DEF IInv, TypeOK, Frame
    <2>2. delivered' = delivered \/ delivered' = Append(delivered, k)
      BY HeldCue DEF CloseCue
    <2> QED BY <2>1, <2>2
  <1>7. /\ done \in Seq(Cue) /\ Len(done) = Len(cues) /\ done[k] = d
        /\ \A i \in DOMAIN cues : i # k => done[i] = cues[i]
    BY <1>1, HeldCue
  <1>8. mode' \in Modes /\ top' \in Depth
    BY <1>4 DEF Modes, Depth
  <1> HIDE DEF d, f, e, done
  <1>9. CASE cues' = Append(done, NewCue) /\ stack' = [stack EXCEPT ![1] = f, ![2] = above]
    <2>1. /\ cues' \in Seq(Cue) /\ DOMAIN cues' = DOMAIN cues \cup {n} /\ n \notin DOMAIN cues
          /\ cues'[k] = d /\ cues'[n] = NewCue
          /\ \A i \in DOMAIN cues : i # k => cues'[i] = cues[i]
      BY <1>7, <1>9, HeldCue, NewCueType
    <2>2. /\ stack' \in [Depth -> Frame] /\ stack'[0] = stack[0] /\ stack'[1] = f
          /\ stack'[2] = above
      BY <1>2, <1>9, HeldCue DEF Depth
    <2>3. HoldsCue(1)'
      BY <1>2, <2>1, <2>2, NewCueType DEF HoldsCue
    <2>4. StackShape'
      BY <1>2, <1>4, <2>2, <2>3 DEF StackShape, BottomShape, MiddleShape, TopShape, TextShape,
        Top, Above
    <2>5. BottomFrame' /\ MiddleFrame' /\ LineFrames'
      BY <1>2, <2>2 DEF IInv, BottomFrame, MiddleFrame, LineFrames, Depth
    <2>6. CueFrames'
      BY <1>2, <1>4, <2>2, <2>3 DEF IInv, CueFrames, Depth
    <2>7. CueIsHeld' /\ OthersKept
      BY <1>1, <1>2, <2>1, <2>2, HeldCue, NewCueType DEF CueIsHeld, OthersKept
    <2> QED BY <1>5, <1>6, <1>8, <2>1, <2>2, <2>4, <2>5, <2>6, <2>7 DEF Gathered
  <1>10. CASE MayFail /\ cues' = done /\ stack' = [stack EXCEPT ![1] = e, ![2] = above]
    <2>1. /\ cues' \in Seq(Cue) /\ DOMAIN cues' = DOMAIN cues /\ cues'[k] = d
          /\ \A i \in DOMAIN cues : i # k => cues'[i] = cues[i]
      BY <1>7, <1>10, HeldCue
    <2>2. /\ stack' \in [Depth -> Frame] /\ stack'[0] = stack[0] /\ stack'[1] = e
          /\ stack'[2] = above
      BY <1>3, <1>10, HeldCue DEF Depth
    <2>3. LacksCue(1)'
      BY <1>3, <1>4, <1>10, <2>2 DEF LacksCue, MayFail
    <2>4. StackShape'
      BY <1>3, <1>4, <2>2, <2>3 DEF StackShape, BottomShape, MiddleShape, TopShape, TextShape,
        Top, Above
    <2>5. BottomFrame' /\ MiddleFrame' /\ LineFrames'
      BY <1>3, <2>2 DEF IInv, BottomFrame, MiddleFrame, LineFrames, Depth
    <2>6. CueFrames'
      BY <1>3, <1>4, <2>2, <2>3 DEF IInv, CueFrames, Depth
    <2>7. CueIsHeld' /\ OthersKept
      BY <1>1, <2>1, HeldCue DEF CueIsHeld, OthersKept
    <2> QED BY <1>5, <1>6, <1>8, <2>1, <2>2, <2>4, <2>5, <2>6, <2>7 DEF Gathered
  <1> QED BY <1>4, <1>9, <1>10

\* A line of text is complete.
LEMMA LineEnds ==
  ASSUME IInv, Live, mode # "M_WEBVTT", NEW l \in Seq(Symbols), NEW closed \in BOOLEAN,
         ~closed => IsText(l), NEW n \in Nat, n >= 1, EndTextLine(l, closed, n), doc' = doc
  PROVE  /\ Gathered' /\ OthersKept /\ MarkIsLast' /\ StringsCovered'
         /\ lineBuf' = << >> /\ token' = << >> /\ line' = line + 1 /\ strings' \in Nat
  <1> DEFINE arrow == HasArrow(l)
             above == WithText(NewFrame("T_CUEREAD", "V_TEXT", 0), l)
             Ends(c) == IF closed THEN CloseCue(c, IF arrow THEN above ELSE Above)
                        ELSE /\ cues' = [cues EXCEPT ![Top.cue] = c]
                             /\ UNCHANGED <<delivered, mode, frames>>
  <1>0. PICK longer \in Longer(cues[Top.cue], l) : Ends(longer)
    BY DEF EndTextLine
  <1>1. longer \in Cue /\ longer.owner = "parser"
    <2>1. cues[Top.cue] \in Cue /\ cues[Top.cue].owner = "parser"
      BY HeldCue
    <2> QED BY <2>1, LongerType
  <1>2. above \in Frame /\ above.type = "V_TEXT"
    <2>1. "T_CUEREAD" \in States /\ "V_TEXT" \in Types /\ 0 \in Depth
      BY DEF States, Types, Depth
    <2>2. NewFrame("T_CUEREAD", "V_TEXT", 0) \in Frame
          /\ NewFrame("T_CUEREAD", "V_TEXT", 0).type = "V_TEXT"
      BY <2>1, NewFrameType
    <2> QED BY <2>2, WithTextType
  <1>3. /\ lineBuf' = << >> /\ token' = << >> /\ line' = line + 1
        /\ strings' = (IF arrow THEN n ELSE n - 1) /\ MarkIsLast'
    BY DEF EndTextLine, MarkIsLast
  <1>4. arrow => closed
    BY DEF IsText
  <1>5. CASE arrow
    <2>1. CloseCue(longer, above)
      BY <1>0, <1>4, <1>5
    <2>2. Gathered' /\ OthersKept
      BY <1>1, <1>2, <2>1, CloseChained
    <2>3. strings' \in Nat /\ StringsCovered'
      BY <1>3, <1>5 DEF StringsCovered, StringsInUse
    <2> QED BY <1>3, <2>2, <2>3
  <1>6. CASE ~arrow /\ closed
    <2>1. CloseCue(longer, Above)
      BY <1>0, <1>6
    <2>2. Gathered' /\ OthersKept /\ stack'[2].type = "V_NONE"
      BY <1>1, <2>1, CloseLast
    <2>3. strings' \in Nat /\ StringsCovered'
      BY <1>3, <1>6, <2>2 DEF StringsCovered, StringsInUse
    <2> QED BY <1>3, <2>2, <2>3
  <1>7. CASE ~arrow /\ ~closed
    <2>1. cues' = [cues EXCEPT ![stack[1].cue] = longer] /\ UNCHANGED <<delivered, mode, frames>>
      BY <1>0, <1>7, HeldCue
    <2>2. /\ cues' \in Seq(Cue) /\ DOMAIN cues' = DOMAIN cues
          /\ cues'[stack[1].cue].owner = "parser"
          /\ \A i \in DOMAIN cues : i # stack[1].cue => cues'[i] = cues[i]
      BY <1>1, <2>1, HeldCue
    <2>3. HoldsCue(1)'
      BY <2>1, <2>2, HeldCue DEF HoldsCue, frames
    <2>4. StackShape'
      BY <2>1, <2>3, HeldCue DEF StackShape, BottomShape, MiddleShape, TopShape, TextShape,
        Top, Above, frames
    <2>5. BottomFrame' /\ MiddleFrame' /\ LineFrames' /\ CueFrames'
      BY <2>1, <2>3, HeldCue DEF IInv, BottomFrame, MiddleFrame, LineFrames, CueFrames, frames, Depth
    <2>6. CueIsHeld' /\ OthersKept
      BY <2>1, <2>2, HeldCue DEF CueIsHeld, OthersKept, frames
    <2>7. strings' \in Nat /\ StringsCovered'
      BY <1>3, <1>7, <2>1, HeldCue DEF StringsCovered, StringsInUse, frames
    <2>8. Gathered'
      BY <2>1, <2>2, <2>4, <2>5, <2>6 DEF Gathered, IInv, TypeOK, frames
    <2> QED BY <1>3, <2>6, <2>7, <2>8
  <1> QED BY <1>5, <1>6, <1>7

\* What the end of a line of cue text finds.
LEMMA AtNewlineState ==
  ASSUME IInv, AtNewline
  PROVE  /\ Live /\ call = "chunk" /\ mode # "M_WEBVTT" /\ Marked
         /\ Front(lineBuf) \in Seq(Symbols) /\ strings \in Nat /\ strings >= 1
         /\ LexedNewline(tstate, Sym).next \in LexStates
  <1>1. Live /\ call = "chunk" /\ mode # "M_WEBVTT" /\ Marked
    BY DEF AtNewline, InText, Live
  <1>2. Front(lineBuf) \in Seq(Symbols) /\ Len(lineBuf) > 0
    BY <1>1, LineBufText
  <1>3. strings \in Nat /\ strings >= 1
    BY <1>2 DEF IInv, TypeOK, StringsCovered, StringsInUse
  <1> QED BY <1>1, <1>2, <1>3, LexedType

\* The end of a line of cue text.
LEMMA TextNewlineStep == ASSUME IInv, TextNewline PROVE IInv' /\ OthersKept
  <1> DEFINE l == Front(lineBuf)
  <1>1. /\ Live /\ call = "chunk" /\ mode # "M_WEBVTT" /\ l \in Seq(Symbols)
        /\ strings \in Nat /\ strings >= 1 /\ EndTextLine(l, ~IsText(l), strings)
    BY AtNewlineState DEF TextNewline
  <1>2. status' \in Statuses
    BY DEF TextNewline, Statuses
  <1>3. /\ pos' \in Nat /\ pos' <= lim /\ tstate' \in LexStates
    BY LexedType, ConsumeType DEF TextNewline, AtNewline, InText
  <1>4. UNCHANGED <<doc, lim, call, ret, tk, errors, finished>>
    BY DEF TextNewline
  <1> HIDE DEF l
  <1>5. IsText(l) \in BOOLEAN
    BY DEF IsText
  <1>6. /\ Gathered' /\ OthersKept /\ MarkIsLast' /\ StringsCovered'
        /\ lineBuf' = << >> /\ token' = << >> /\ line' = line + 1 /\ strings' \in Nat
    BY <1>1, <1>4, <1>5, LineEnds
  <1>7. TypeOK' /\ WithinChunk' /\ Finishing' /\ Deleted'
    <2>1. TypeOK'
      BY <1>2, <1>3, <1>4, <1>6, EmptySeq DEF Gathered, IInv, TypeOK
    <2> QED BY <1>1, <1>3, <1>4, <2>1 DEF IInv, WithinChunk, Finishing, Deleted
  <1> QED BY <1>6, <1>7 DEF IInv, Gathered

\* The end of the text, and no memory to parse it.
LEMMA TextUnparsedStep == ASSUME IInv, TextUnparsed PROVE IInv' /\ OthersKept
  <1> DEFINE l == Front(lineBuf)
  <1>1. /\ Live /\ call = "chunk" /\ mode # "M_WEBVTT" /\ l \in Seq(Symbols)
        /\ strings \in Nat /\ strings >= 1 /\ EndTextLine(l, TRUE, strings)
        /\ tstate' \in LexStates
    BY AtNewlineState DEF TextUnparsed
  <1>2. /\ call' = "idle" /\ ret' = "OUT_OF_MEMORY" /\ pos' = lim /\ tk' = "none"
        /\ UNCHANGED <<doc, lim, status, errors, finished>>
    BY DEF TextUnparsed, Return
  <1> HIDE DEF l
  <1>3. /\ Gathered' /\ OthersKept /\ MarkIsLast' /\ StringsCovered'
        /\ lineBuf' = << >> /\ token' = << >> /\ line' = line + 1 /\ strings' \in Nat
    BY <1>1, <1>2, LineEnds
  <1>4. TypeOK'
    BY <1>1, <1>2, <1>3, EmptySeq DEF Gathered, IInv, TypeOK, Statuses
  <1>5. WithinChunk' /\ Finishing' /\ Deleted'
    BY <1>2 DEF IInv, TypeOK, WithinChunk, Finishing, Deleted
  <1> QED BY <1>3, <1>4, <1>5 DEF IInv, Gathered

\* The parts of the invariant that are left when only the line buffer changes.
LEMMA BufferStep ==
  ASSUME IInv, call \in {"chunk", "finish"}, call' \in {"idle", "cleanup"}, call = "finish" \/ call' = "idle",
         lineBuf' \in Seq(Symbols \cup {Mark}), MarkIsLast', lineBuf' # << >> => lineBuf # << >>,
         UNCHANGED <<doc, lim, frames, delivered, heap, mode, finished>>,
         pos' \in {pos, lim}, tstate' \in LexStates, token' \in Seq(Symbols),
         tk' \in {tk, "none"}, ret' \in Statuses, status' \in Statuses, line' \in Nat,
         errors' \in Seq(Codes \X Nat)
  PROVE  IInv' /\ OthersKept
  <1>1. (Live' => Live) /\ UNCHANGED cues
    BY DEF Live, heap
  <1>2. StringsCovered'
    <2>1. strings' = strings /\ stack' = stack /\ strings \in Nat
      BY DEF IInv, TypeOK, heap, frames
    <2>2. StringsInUse' \in 0..StringsInUse
      BY <2>1 DEF StringsInUse
    <2>3. StringsInUse \in Nat /\ strings >= StringsInUse
      BY DEF IInv, StringsCovered, StringsInUse
    <2> QED BY <2>1, <2>2, <2>3 DEF StringsCovered
  <1>3. TypeOK'
    BY DEF IInv, TypeOK, frames, heap, Tokens
  <1>4. WithinChunk' /\ Finishing' /\ Deleted'
    BY DEF IInv, TypeOK, WithinChunk, Finishing, Deleted
  <1> QED BY <1>1, <1>2, <1>3, <1>4, SameFrames DEF IInv

\* A line that is marked, where it is all symbols.
LEMMA MarkedLine ==
  ASSUME IInv, ~Marked, lineBuf # << >>, lineBuf' = Append(lineBuf, Mark)
  PROVE  lineBuf' \in Seq(Symbols \cup {Mark}) /\ MarkIsLast'
  BY LineBufText DEF MarkIsLast, Mark, Symbols, TimingSymbols

\* No memory for a line of cue text.
LEMMA TextStarvedStep == ASSUME IInv, NEW d \in Dies, TextStarved(d) PROVE IInv' /\ OthersKept
  <1> DEFINE r == NoMemory(d)
  <1>1. r.codes \in Seq(Codes) /\ r.status \in Statuses
    BY NoMemoryType, DiesAssumption
  <1>2. /\ call = "chunk" /\ ~Marked /\ errors' = errors \o AtLine(r.codes, line) /\ Return(r.status)
        /\ \/ UNCHANGED lineBuf
           \/ lineBuf # << >> /\ lineBuf' = Append(lineBuf, Mark)
        /\ UNCHANGED <<tstate, token, frames, delivered, heap, mode, finished, line>>
    BY DEF TextStarved, InText
  <1> HIDE DEF r
  <1>3. errors' \in Seq(Codes \X Nat)
    <2>1. AtLine(r.codes, line) \in Seq(Codes \X Nat)
      BY <1>1, AtLineType DEF IInv, TypeOK
    <2> QED BY <1>2, <2>1, Added
  <1>4. lineBuf' \in Seq(Symbols \cup {Mark}) /\ MarkIsLast' /\ (lineBuf' # << >> => lineBuf # << >>)
    BY <1>2, MarkedLine DEF IInv, TypeOK, MarkIsLast
  <1>5. /\ call' = "idle" /\ pos' = lim /\ tk' = "none" /\ ret' \in Statuses /\ status' \in Statuses
        /\ UNCHANGED <<doc, lim>>
    BY <1>1, <1>2 DEF Return, IInv, TypeOK
  <1>6. tstate' \in LexStates /\ token' \in Seq(Symbols) /\ line' \in Nat
    BY <1>2 DEF IInv, TypeOK
  <1> QED BY <1>2, <1>3, <1>4, <1>5, <1>6, BufferStep

\* No memory for the separator before a line of cue text.
LEMMA TextUnseparatedStep == ASSUME IInv, TextUnseparated PROVE IInv' /\ OthersKept
  <1>1. /\ call = "chunk" /\ Marked /\ Front(lineBuf) \in Seq(Symbols) /\ tstate' \in LexStates
        /\ lineBuf # << >>
    BY AtNewlineState, LineBufText DEF TextUnseparated, Marked
  <1>2. /\ lineBuf' = Front(lineBuf) /\ token' = << >> /\ line' = line + 1
        /\ UNCHANGED <<frames, outcome, heap, mode, finished>>
    BY DEF TextUnseparated, NoSeparator
  <1>3. /\ call' = "idle" /\ pos' = lim /\ tk' = "none" /\ ret' \in Statuses /\ status' \in Statuses
        /\ UNCHANGED <<doc, lim>>
    BY DEF TextUnseparated, Return, IInv, TypeOK, Statuses
  <1>4. lineBuf' \in Seq(Symbols \cup {Mark}) /\ MarkIsLast'
    BY <1>1, <1>2 DEF MarkIsLast, Mark, Symbols, TimingSymbols
  <1>5. token' \in Seq(Symbols) /\ line' \in Nat /\ errors' \in Seq(Codes \X Nat)
        /\ UNCHANGED delivered
    BY <1>2, EmptySeq DEF IInv, TypeOK, outcome
  <1> QED BY <1>1, <1>2, <1>3, <1>4, <1>5, BufferStep

-----------------------------------------------------------------------------
(* Finishing and deleting.                                                 *)

\* The document ends in the text of a cue.
LEMMA FinishCueTextStep == ASSUME IInv, FinishCueText PROVE IInv' /\ OthersKept
  <1> DEFINE l == LastLine
  <1>1. Live /\ call = "finish" /\ mode # "M_WEBVTT" /\ finished
    BY DEF FinishCueText, FinishInText, Live, IInv, Finishing
  <1>2. l \in Seq(Symbols) /\ WithLineBuf \in Nat /\ WithLineBuf >= 1
    BY LineBufText, LineBufAllocated DEF LastLine
  <1>3. EndTextLine(l, TRUE, WithLineBuf) /\ doc' = doc
    BY DEF FinishCueText, input
  <1> HIDE DEF l
  <1>4. /\ Gathered' /\ OthersKept /\ MarkIsLast' /\ StringsCovered'
        /\ lineBuf' = << >> /\ token' = << >> /\ line' = line + 1 /\ strings' \in Nat
    BY <1>1, <1>2, <1>3, LineEnds
  <1>5. /\ UNCHANGED <<doc, lim, pos, ret, tk, errors, finished>>
        /\ call' = "cleanup" /\ tstate' = "L_START" /\ status' \in Statuses
    BY DEF FinishCueText, input, Statuses
  <1>6. TypeOK' /\ WithinChunk' /\ Finishing' /\ Deleted'
    <2>1. TypeOK'
      BY <1>4, <1>5, EmptySeq DEF Gathered, IInv, TypeOK, LexStates
    <2> QED BY <1>1, <1>5, <2>1 DEF IInv, WithinChunk, Finishing, Deleted
  <1> QED BY <1>4, <1>6 DEF IInv, Gathered

\* It ends there, and there is no memory for the last line,
LEMMA FinishTextStarvedStep ==
  ASSUME IInv, NEW d \in Dies, FinishTextStarved(d) PROVE IInv' /\ OthersKept
  <1> DEFINE r == NoMemory(d)
  <1>1. r.codes \in Seq(Codes) /\ r.status \in Statuses
    BY NoMemoryType, DiesAssumption
  <1>2. /\ call = "finish" /\ ~Marked /\ errors' = errors \o AtLine(r.codes, line)
        /\ \/ UNCHANGED lineBuf
           \/ lineBuf # << >> /\ lineBuf' = Append(lineBuf, Mark)
        /\ call' = "cleanup" /\ status' = r.status
        /\ UNCHANGED <<input, ret, lexer, frames, delivered, heap, mode, finished, line>>
    BY DEF FinishTextStarved, FinishInText
  <1> HIDE DEF r
  <1>3. errors' \in Seq(Codes \X Nat)
    <2>1. AtLine(r.codes, line) \in Seq(Codes \X Nat)
      BY <1>1, AtLineType DEF IInv, TypeOK
    <2> QED BY <1>2, <2>1, Added
  <1>4. lineBuf' \in Seq(Symbols \cup {Mark}) /\ MarkIsLast' /\ (lineBuf' # << >> => lineBuf # << >>)
    BY <1>2, MarkedLine DEF IInv, TypeOK, MarkIsLast
  <1>5. /\ UNCHANGED <<doc, lim, pos, tk>> /\ ret' \in Statuses /\ status' \in Statuses
        /\ tstate' \in LexStates /\ token' \in Seq(Symbols) /\ line' \in Nat
    BY <1>1, <1>2 DEF IInv, TypeOK, input, lexer
  <1> QED BY <1>2, <1>3, <1>4, <1>5, BufferStep

\* or none for its separator.
LEMMA FinishUnseparatedStep == ASSUME IInv, FinishUnseparated PROVE IInv' /\ OthersKept
  <1>1. /\ call = "finish" /\ lineBuf' = LastLine /\ token' = << >> /\ line' = line + 1
        /\ call' = "cleanup" /\ status' = "OUT_OF_MEMORY" /\ tstate' = "L_START"
        /\ UNCHANGED <<doc, lim, pos, ret, tk, frames, outcome, heap, mode, finished>>
    BY DEF FinishUnseparated, FinishInText, NoSeparator, input
  <1>2. LastLine \in Seq(Symbols)
    BY LineBufText DEF LastLine
  <1>3. lineBuf' \in Seq(Symbols \cup {Mark}) /\ MarkIsLast' /\ (lineBuf' # << >> => lineBuf # << >>)
    <2>1. LastLine # << >> => lineBuf # << >>
      BY DEF LastLine, Marked
    <2> HIDE DEF LastLine
    <2> QED BY <1>1, <1>2, <2>1 DEF MarkIsLast, Mark, Symbols, TimingSymbols
  <1>4. /\ ret' \in Statuses /\ status' \in Statuses /\ tstate' \in LexStates
        /\ token' \in Seq(Symbols) /\ line' \in Nat /\ errors' \in Seq(Codes \X Nat)
        /\ UNCHANGED delivered
    BY <1>1, EmptySeq DEF IInv, TypeOK, outcome, Statuses, LexStates
  <1> QED BY <1>1, <1>3, <1>4, BufferStep

\* The document ends in a line before the text of a cue.
LEMMA FinishCueLineStep ==
  ASSUME IInv, NEW d \in Dies, NEW e \in Dies, NEW fails \in Failing,
         FinishCueLine(d, e, fails)
  PROVE  IInv' /\ OthersKept /\ ReportsAdded
  <1> DEFINE t == FinishTop
             r == ProcCueLine(cues[stack[t].cue], stack[t + 1], d, fails)
             codes == IF r.cue.haveId /\ r.cue.time = "none" THEN <<"CUE_INCOMPLETE">> ELSE << >>
             bare == Report(codes, e)
             f == InState(Vacate(stack[t + 1]), "T_INITIAL")
  <1>1. FinishInCue /\ FinishHasLine /\ stack[t].cue # 0
    BY DEF FinishCueLine
  <1>2. /\ cues' = [cues EXCEPT ![stack[t].cue] = r.cue]
        /\ strings' = StringsAfterLine(r, stack[t + 1])
        /\ stack' = AfterLine([stack EXCEPT ![t + 1] = f], t, r)
        /\ top' = (IF r.again THEN t + 1 ELSE t)
        /\ mode' = r.mode
        /\ errors' = errors \o AtLine(r.codes \o bare.codes, line)
        /\ UNCHANGED <<delivered, finished, lineBuf, tstate, token>>
    BY DEF FinishCueLine
  <1>3. popped' \in BOOLEAN
    BY DEF FinishCueLine
  <1>4. \/ Return("PARSE_ERROR") /\ line' = line
        \/ /\ call' \in {"finish", "cleanup"} /\ status' = r.status /\ line' = line + 1
           /\ UNCHANGED <<doc, lim, pos, ret, tk>>
    BY DEF FinishCueLine, input
  <1>5. codes \in Seq(Codes)
    <2>1. <<"CUE_INCOMPLETE">> \in Seq(Codes)
      BY DEF Codes
    <2> QED BY <2>1, EmptySeq
  <1>6. bare.codes \in Seq(Codes)
    <2>1. e \in Nat
      BY DiesAssumption
    <2> HIDE DEF codes
    <2> QED BY <1>5, <2>1, ReportType
  <1>7. /\ Live /\ call = "finish" /\ mode = "M_WEBVTT" /\ finished
        /\ stack \in [0..2 -> Frame] /\ stack[2] \in Frame
    BY <1>1 DEF FinishInCue, Live, IInv, TypeOK, Depth, Finishing
  <1>8. t = 1 /\ t + 1 = 2 /\ stack[1].state = "T_CUE" /\ HoldsCue(1)
    <2>1. CASE Top.state = "T_CUE"
      <3>1. top = 1 /\ stack[1].state = "T_CUE" /\ (HoldsCue(1) \/ LacksCue(1)) /\ t = 1
        BY <1>7, <2>1, WhereTop DEF FinishTop, Top
      <3> QED BY <1>1, <3>1 DEF LacksCue
    <2>2. CASE Top.state = "T_CUEREAD"
      BY <1>7, <2>2, WhereTop DEF FinishTop, Top
    <2> QED BY <1>1, <2>1, <2>2 DEF FinishInCue
  <1> HIDE DEF t
  <1>9. f \in Frame /\ f.type = "V_NONE" /\ f.state = "T_INITIAL"
    <2>1. "T_INITIAL" \in States /\ stack[t + 1] \in Frame
      BY <1>7, <1>8 DEF States
    <2>2. Vacate(stack[t + 1]) \in Frame /\ Vacate(stack[t + 1]).type = "V_NONE"
      BY <2>1, VacateType
    <2> QED BY <2>1, <2>2, InStateType
  <1>10. LineResult(r, cues[stack[1].cue])
    <2>1. cues[stack[t].cue] \in Cue /\ stack[t + 1] \in Frame /\ d \in Nat
          /\ fails \in BOOLEAN
      <3>1. stack[1].cue \in DOMAIN cues /\ cues \in Seq(Cue)
        BY <1>8 DEF HoldsCue, IInv, TypeOK
      <3>2. cues[stack[1].cue] \in Cue
        BY <3>1
      <3>3. stack[2] \in Frame /\ d \in Nat /\ fails \in BOOLEAN
        BY <1>7, DiesAssumption DEF Failing
      <3> QED BY <1>8, <3>2, <3>3
    <2>2. LineResult(r, cues[stack[t].cue])
      BY <2>1, ProcCueLineType
    <2> QED BY <1>8, <2>2
  <1> HIDE DEF r, f, bare, codes
  <1>11. errors' \in Seq(Codes \X Nat) /\ ReportsAdded
    <2>1. r.codes \o bare.codes \in Seq(Codes)
      BY <1>6, <1>10 DEF LineResult
    <2>2. AtLine(r.codes \o bare.codes, line) \in Seq(Codes \X Nat)
      BY <2>1, AtLineType DEF IInv, TypeOK
    <2> QED BY <1>2, <2>2, Added
  <1>12. /\ Holdings' /\ OthersKept
         /\ stack' \in [Depth -> Frame] /\ top' \in Depth /\ cues' \in Seq(Cue)
         /\ strings' \in Nat /\ mode' \in Modes
    <2>1. /\ cues' = [cues EXCEPT ![stack[1].cue] = r.cue]
          /\ strings' = StringsAfterLine(r, stack[2])
          /\ stack' = AfterLine([stack EXCEPT ![2] = f], 1, r)
          /\ top' = (IF r.again THEN 2 ELSE 1)
          /\ mode' = r.mode /\ lineBuf' = lineBuf
      BY <1>2, <1>8
    <2> QED BY <1>7, <1>8, <1>9, <1>10, <2>1, LineDone
  <1>13. /\ pos' \in Nat /\ pos' <= lim /\ tk' \in Tokens \cup {"none"} /\ line' \in Nat
         /\ ret' \in Statuses /\ status' \in Statuses /\ call' \in {"idle", "finish", "cleanup"}
         /\ doc' = doc /\ lim' = lim
    <2>1. CASE Return("PARSE_ERROR") /\ line' = line
      BY <2>1 DEF Return, IInv, TypeOK, WithinChunk, Statuses
    <2>2. CASE /\ call' \in {"finish", "cleanup"} /\ status' = r.status /\ line' = line + 1
               /\ UNCHANGED <<doc, lim, pos, ret, tk>>
      BY <1>10, <2>2 DEF IInv, TypeOK, WithinChunk, LineResult
    <2> QED BY <1>4, <2>1, <2>2
  <1>14. TypeOK'
    BY <1>2, <1>3, <1>11, <1>12, <1>13 DEF IInv, TypeOK
  <1>15. WithinChunk' /\ Finishing' /\ Deleted'
    BY <1>2, <1>7, <1>13 DEF IInv, TypeOK, WithinChunk, Finishing, Deleted
  <1> QED BY <1>11, <1>12, <1>14, <1>15 DEF IInv, Holdings

\* What cleanup_stack leaves.
LEMMA CleanedUp ==
  ASSUME IInv, CleanupStack
  PROVE  /\ stack' \in [Depth -> Frame] /\ top' = 0 /\ cues' \in Seq(Cue) /\ OthersKept
         /\ BottomFrame' /\ MiddleFrame' /\ CueFrames' /\ CueIsHeld' /\ LineFrames'
         /\ strings' \in Nat
         /\ strings' >= (IF stack'[2].type = "V_TEXT" THEN 1 ELSE 0)
                        + (IF call # "idle" /\ lineBuf # << >> THEN 1 ELSE 0)
  <1>1. stack \in [0..2 -> Frame] /\ top \in 0..2 /\ cues \in Seq(Cue) /\ strings \in Nat
    BY DEF IInv, TypeOK, Depth
  <1>2. /\ stack' = [i \in Depth |-> IF i <= top THEN Vacate(stack[i]) ELSE stack[i]]
        /\ top' = 0
    BY DEF CleanupStack
  <1>3. \A i \in Depth : /\ Vacate(stack[i]) \in Frame /\ Vacate(stack[i]).type = "V_NONE"
                          /\ Vacate(stack[i]).state = stack[i].state
                          /\ Vacate(stack[i]).back = stack[i].back
    BY <1>1, VacateType DEF Depth
  <1>4. /\ stack' \in [Depth -> Frame]
        /\ \A i \in Depth : /\ stack'[i].state = stack[i].state /\ stack'[i].back = stack[i].back
                            /\ stack'[i].type = IF i <= top THEN "V_NONE" ELSE stack[i].type
    BY <1>1, <1>2, <1>3 DEF Depth
  <1>5. BottomFrame' /\ MiddleFrame' /\ LineFrames'
    BY <1>4 DEF IInv, BottomFrame, MiddleFrame, LineFrames, Depth
  <1>6. CueFrames'
    BY <1>1, <1>4 DEF IInv, CueFrames, Depth
  <1> DEFINE held(k) == \E i \in Held("V_CUE") : stack[i].cue = k
  <1>7. cues' = [k \in DOMAIN cues |-> IF held(k) THEN [cues[k] EXCEPT !.owner = "released"]
                                      ELSE cues[k]]
    BY DEF CleanupStack
  <1>8. \A k \in DOMAIN cues : held(k) <=> cues[k].owner = "parser"
    <2>1. \A k \in DOMAIN cues : held(k) => cues[k].owner = "parser"
      BY <1>1 DEF Held, IInv, CueFrames, HoldsCue, LacksCue, Depth
    <2>2. \A k \in DOMAIN cues : cues[k].owner = "parser" => held(k)
      BY <1>1 DEF Held, IInv, CueFrames, CueIsHeld, HoldsCue, Depth
    <2> QED BY <2>1, <2>2
  <1> HIDE DEF held
  <1>9. \A k \in DOMAIN cues :
          /\ [cues[k] EXCEPT !.owner = "released"] \in Cue
          /\ [cues[k] EXCEPT !.owner = "released"].owner = "released"
    <2> TAKE k \in DOMAIN cues
    <2>1. cues[k] \in Cue
      BY <1>1
    <2> QED BY <2>1 DEF Cue, Owners
  <1>10. /\ cues' \in Seq(Cue) /\ DOMAIN cues' = DOMAIN cues
         /\ \A k \in DOMAIN cues : cues'[k] = IF cues[k].owner = "parser"
                THEN [cues[k] EXCEPT !.owner = "released"] ELSE cues[k]
    BY <1>1, <1>7, <1>8, <1>9
  <1>11. CueIsHeld' /\ OthersKept
    BY <1>9, <1>10 DEF CueIsHeld, OthersKept
  <1>12. Cardinality(Held("V_TEXT")) = IF top = 2 /\ stack[2].type = "V_TEXT" THEN 1 ELSE 0
    <2>1. CASE top = 2 /\ stack[2].type = "V_TEXT"
      <3>1. Held("V_TEXT") = {2}
        BY <1>1, <2>1 DEF Held, IInv, LineFrames, Depth
      <3> QED BY <2>1, <3>1, FS_Singleton
    <2>2. CASE ~(top = 2 /\ stack[2].type = "V_TEXT")
      <3>1. Held("V_TEXT") = {}
        BY <1>1, <2>2 DEF Held, IInv, LineFrames, Depth
      <3> QED BY <2>2, <3>1, FS_EmptySet
    <2> QED BY <2>1, <2>2
  <1>13. strings' = strings - (Cardinality(Held("V_TEXT"))
                               + (IF call = "idle" /\ lineBuf # << >> THEN 1 ELSE 0))
    BY DEF CleanupStack
  <1>14. /\ strings' \in Nat
         /\ strings' >= (IF stack'[2].type = "V_TEXT" THEN 1 ELSE 0)
                        + (IF call # "idle" /\ lineBuf # << >> THEN 1 ELSE 0)
    BY <1>1, <1>4, <1>12, <1>13 DEF IInv, StringsCovered, StringsInUse, Depth
  <1> QED BY <1>2, <1>4, <1>5, <1>6, <1>10, <1>11, <1>14

\* What is left on the stack at the end is let go.
LEMMA FinishCleanupStep == ASSUME IInv, FinishCleanup PROVE IInv' /\ OthersKept
  <1>1. /\ call = "cleanup" /\ call' = "idle" /\ finished /\ finished' = finished
        /\ lineBuf' = lineBuf /\ pos' = lim /\ lim' = lim /\ doc' = doc
    BY DEF FinishCleanup, Return, IInv, Finishing
  <1>2. ~Live'
    BY <1>1 DEF Live
  <1>3. StackShape'
    BY <1>2 DEF StackShape
  <1>4. MarkIsLast' /\ StringsCovered'
    BY <1>1, CleanedUp DEF FinishCleanup, StringsCovered, StringsInUse, IInv, MarkIsLast
  <1>5. TypeOK' /\ WithinChunk' /\ Finishing' /\ Deleted'
    BY <1>1, CleanedUp DEF FinishCleanup, Return, outcome, IInv, TypeOK, WithinChunk, Finishing,
      Deleted, Depth
  <1> QED BY <1>3, <1>4, <1>5, CleanedUp DEF IInv, FinishCleanup

\* A call that found no memory cleans up as well.
LEMMA CleanupStep ==
  ASSUME IInv, call = "chunk", mode = "M_WEBVTT", CleanupStack, NEW s \in Statuses, Return(s),
         UNCHANGED <<tstate, token, delivered, mode, finished, lineBuf, line>>,
         popped' \in BOOLEAN, errors' \in Seq(Codes \X Nat)
  PROVE  IInv' /\ OthersKept
  <1>1. call' = "idle" /\ pos' = lim /\ lim' = lim /\ doc' = doc
    BY DEF Return
  <1>2. StackShape'
    BY CleanedUp DEF StackShape, BottomShape, MiddleShape, TopShape, TextShape, BottomFrame, Top
  <1>3. MarkIsLast' /\ StringsCovered'
    BY CleanedUp DEF StringsCovered, StringsInUse, IInv, MarkIsLast
  <1>4. TypeOK' /\ WithinChunk' /\ Finishing' /\ Deleted'
    BY <1>1, CleanedUp DEF Return, IInv, TypeOK, WithinChunk, Finishing, Deleted, Depth
  <1> QED BY <1>2, <1>3, <1>4, CleanedUp DEF IInv

\* So does a chunk in which there was none for an id.
LEMMA ChunkStarvedStep == ASSUME IInv, ChunkStarved PROVE IInv' /\ OthersKept
  BY CleanupStep DEF ChunkStarved, Starved, outcome, IInv, TypeOK

\* No memory for a line before the cue text.
LEMMA CueReadStarvedStep ==
  ASSUME IInv, NEW d \in Dies, CueReadStarved(d) PROVE IInv' /\ OthersKept
  <1> DEFINE r == NoMemory(d)
             f == Vacate(stack[2])
  <1>1. r.codes \in Seq(Codes) /\ r.status \in Statuses
    BY NoMemoryType, DiesAssumption
  <1>2. /\ Live /\ call = "chunk" /\ mode = "M_WEBVTT" /\ top = 2 /\ stack[2].type = "V_TEXT"
        /\ stack[1].state = "T_CUE" /\ HoldsCue(1) /\ stack \in [0..2 -> Frame]
        /\ stack[2] \in Frame
    BY WhereTop DEF CueReadStarved, Turn, Live, Depth, Top
  <1>3. /\ errors' = errors \o AtLine(r.codes, line) /\ Return(r.status)
        /\ UNCHANGED <<tstate, token, delivered, mode, finished, lineBuf, line>>
    BY DEF CueReadStarved
  <1>4. popped' \in BOOLEAN
    <2>1. popped' = TRUE
      BY DEF CueReadStarved
    <2> QED BY <2>1
  <1>5. \/ CleanupStack
        \/ /\ stack' = [stack EXCEPT ![2] = f] /\ top' = 1 /\ strings' = strings - 1
           /\ UNCHANGED cues
    <2>1. CASE r.dead
      BY <1>2, <2>1 DEF CueReadStarved
    <2>2. CASE ~r.dead
      BY <2>2 DEF CueReadStarved
    <2> QED BY <2>1, <2>2
  <1>6. f \in Frame /\ f.type = "V_NONE"
    BY <1>2, VacateType
  <1> HIDE DEF r, f
  <1>7. errors' \in Seq(Codes \X Nat)
    <2>1. AtLine(r.codes, line) \in Seq(Codes \X Nat)
      BY <1>1, AtLineType DEF IInv, TypeOK
    <2> QED BY <1>3, <2>1, Added
  <1>8. CASE CleanupStack
    BY <1>1, <1>2, <1>3, <1>4, <1>7, <1>8, CleanupStep
  <1>9. CASE /\ stack' = [stack EXCEPT ![2] = f] /\ top' = 1 /\ strings' = strings - 1
             /\ UNCHANGED cues
    <2>1. /\ stack' \in [Depth -> Frame] /\ top' \in Depth /\ stack'[0] = stack[0]
          /\ stack'[1] = stack[1] /\ stack'[2] = f
      BY <1>2, <1>6, <1>9 DEF Depth
    <2>2. HoldsCue(1)'
      BY <1>2, <1>9, <2>1 DEF HoldsCue
    <2>3. StackShape' /\ BottomFrame' /\ MiddleFrame' /\ LineFrames'
      BY <1>2, <1>3, <1>6, <1>9, <2>1, <2>2 DEF StackShape, BottomShape, MiddleShape, TopShape,
        TextShape, Top, IInv, BottomFrame, MiddleFrame, LineFrames, Depth
    <2>4. CueFrames' /\ CueIsHeld' /\ OthersKept
      BY <1>2, <1>6, <1>9, <2>1, <2>2 DEF IInv, CueFrames, CueIsHeld, OthersKept, Depth
    <2>5. strings' \in Nat /\ StringsCovered' /\ MarkIsLast'
      BY <1>2, <1>3, <1>6, <1>9, <2>1 DEF IInv, TypeOK, StringsCovered, StringsInUse, MarkIsLast
    <2>6. TypeOK' /\ WithinChunk' /\ Finishing' /\ Deleted'
      BY <1>1, <1>2, <1>3, <1>4, <1>7, <1>9, <2>1, <2>5 DEF Return, IInv, TypeOK, WithinChunk,
        Finishing, Deleted
    <2> QED BY <2>3, <2>4, <2>5, <2>6 DEF IInv
  <1> QED BY <1>5, <1>8, <1>9

\* A line whose cue could not be made.
LEMMA CueMissingStep == ASSUME IInv, CueMissing PROVE IInv' /\ OthersKept
  <1> DEFINE f == Vacate(stack[2])
  <1>1. /\ Live /\ call = "chunk" /\ mode = "M_WEBVTT" /\ top = 1 /\ Top = stack[1]
        /\ stack[1].state = "T_CUE" /\ stack[1].cue = 0
        /\ stack \in [0..2 -> Frame] /\ stack[2] \in Frame /\ (HoldsCue(1) \/ LacksCue(1))
    BY WhereTop DEF CueMissing, Turn, Live, Depth, Top
  <1>2. LacksCue(1)
    BY <1>1 DEF HoldsCue, IInv, TypeOK
  <1>3. f \in Frame /\ f.type = "V_NONE"
    BY <1>1, VacateType
  <1>4. /\ stack' = [stack EXCEPT ![2] = f] /\ Return("PARSE_ERROR")
        /\ errors' = Append(errors, <<"PARSE_ERROR", line>>)
        /\ UNCHANGED <<tstate, token, top, popped, delivered, cues, strings, mode, finished,
                       lineBuf, line>>
    BY <1>1 DEF CueMissing, heap
  <1> HIDE DEF f
  <1>5. /\ stack' \in [Depth -> Frame] /\ stack'[0] = stack[0] /\ stack'[1] = stack[1]
        /\ stack'[2] = f
    BY <1>1, <1>3, <1>4 DEF Depth
  <1>6. LacksCue(1)'
    BY <1>2, <1>4, <1>5 DEF LacksCue, MayFail, Return
  <1>7. StackShape' /\ BottomFrame' /\ MiddleFrame' /\ LineFrames'
    BY <1>1, <1>3, <1>4, <1>5, <1>6 DEF StackShape, BottomShape, MiddleShape, TopShape,
      TextShape, Top, IInv, BottomFrame, MiddleFrame, LineFrames, Depth
  <1>8. CueFrames' /\ CueIsHeld' /\ OthersKept
    BY <1>1, <1>3, <1>4, <1>5, <1>6 DEF IInv, CueFrames, CueIsHeld, OthersKept, Depth
  <1>9. StringsCovered' /\ MarkIsLast'
    BY <1>1, <1>3, <1>4, <1>5 DEF IInv, TypeOK, StringsCovered, StringsInUse, MarkIsLast
  <1>10. errors' \in Seq(Codes \X Nat)
    BY <1>4 DEF IInv, TypeOK, Codes
  <1>11. TypeOK' /\ WithinChunk' /\ Finishing' /\ Deleted'
    BY <1>1, <1>4, <1>5, <1>10 DEF Return, IInv, TypeOK, WithinChunk, Finishing, Deleted, Statuses
  <1> QED BY <1>7, <1>8, <1>9, <1>11 DEF IInv

\* The parser is deleted.
LEMMA DeleteStep == ASSUME IInv, Delete PROVE IInv' /\ OthersKept
  <1>1. /\ call = "idle" /\ call' = "deleted" /\ lineBuf' = << >> /\ UNCHANGED input
    BY DEF Delete
  <1>2. ~Live'
    BY <1>1 DEF Live
  <1>3. StackShape'
    BY <1>2 DEF StackShape
  <1>4. MarkIsLast' /\ StringsCovered'
    BY <1>1, CleanedUp DEF Delete, StringsCovered, StringsInUse, MarkIsLast
  <1>5. TypeOK' /\ WithinChunk' /\ Finishing' /\ Deleted'
    BY <1>1, CleanedUp, EmptySeq DEF Delete, input, lexer, outcome, IInv, TypeOK, WithinChunk,
      Finishing, Deleted, Depth
  <1> QED BY <1>3, <1>4, <1>5, CleanedUp DEF IInv, Delete

-----------------------------------------------------------------------------
(* The theorems.                                                           *)

\* Every step keeps the invariant and the cues that are no longer the parser's.
LEMMA StepInvariant == IInv /\ [Next]_vars => IInv' /\ OthersKept
  <1> SUFFICES ASSUME IInv, [Next]_vars PROVE IInv' /\ OthersKept
    OBVIOUS
  <1>1. CASE Client
    BY <1>1, FeedStep, FinishCallStep, DeleteStep DEF Client
  <1>2. CASE ChunkDone \/ ChunkStarved
    BY <1>2, ChunkDoneStep, ChunkStarvedStep
  <1>3. CASE TurnStep
    BY <1>3, LexStep, CueReadTextStep, CueReadEolStep, CueReadNewlineStep, CueMissingStep,
      CueReadStarvedStep, CueLineStep DEF TurnStep
  <1>4. CASE TokenStep
    <2>1. CASE InitialReject \/ TagReject
      BY <2>1, RejectStep DEF InitialReject, TagReject, On, IInv, TypeOK
    <2>2. CASE \E d \in Dies : BodyDead(d) \/ BodyNewline(d) \/ BodyCue(d) \/ BodyStarved(d)
      BY <2>2, BodyDeadStep, BodyNewlineStep, BodyCueStep, BodyStarvedStep
    <2>3. CASE InitialSignature \/ TagSpace \/ TagNewline \/ CommentNewline \/ CommentSkip
               \/ EolCount \/ EolPop \/ CueAssert
      BY <2>3, InitialSignatureStep, TagSpaceStep, NewlineStep, CommentSkipStep, EolCountStep,
        EolPopStep, AssertStep
    <2> QED BY <1>4, <2>1, <2>2, <2>3 DEF TokenStep
  <1>5. CASE TextStep
    BY <1>5, TextReadStep, TextCarriageReturnStep, TextNewlineStep, TextUnparsedStep,
      TextUnseparatedStep, TextStarvedStep DEF TextStep
  <1>6. CASE FinishStep
    BY <1>6, AssertStep, FinishCueTextStep, FinishUnseparatedStep, FinishElseStep,
      FinishCleanupStep, FinishTextStarvedStep, FinishCueLineStep DEF FinishStep
  <1>7. CASE UNCHANGED vars
    <2>1. Live' => Live
      BY <1>7 DEF vars, calling, Live
    <2>2. Holdings' /\ OthersKept
      BY <1>7, <2>1, SameHoldings DEF vars, input, frames, heap
    <2>3. TypeOK'
      BY <1>7 DEF vars, input, calling, lexer, frames, outcome, heap, IInv, TypeOK
    <2>4. WithinChunk' /\ Finishing' /\ Deleted'
      BY <1>7 DEF vars, input, calling, frames, IInv, WithinChunk, Finishing, Deleted
    <2> QED BY <2>2, <2>3, <2>4 DEF IInv, Holdings
  <1> QED BY <1>1, <1>2, <1>3, <1>4, <1>5, <1>6, <1>7 DEF Next, Parser, Gone

\* The inductive invariant holds in every state a client can bring a parser to.
THEOREM Invariant == Spec => []IInv
  <1>1. Init => IInv
    BY InitInvariant
  <1>2. IInv /\ [Next]_vars => IInv'
    BY StepInvariant
  <1> QED BY <1>1, <1>2, PTL DEF Spec

\* Types: every pointer into the stack stays within it, no string of a line is
\* released that is not allocated, and the frames keep the union's member they use.
THEOREM TypeCorrect == Spec => []TypeOK
  <1>1. IInv => TypeOK
    BY DEF IInv
  <1> QED BY <1>1, Invariant, PTL

\* The stack of frames only has the shapes the handlers of parse_webvtt,
\* webvtt_proc_cuetext and webvtt_finish_parsing expect, whatever the document,
\* however it is cut, and whatever error the application refuses.
THEOREM StackShapeHolds == Spec => []StackShape
  <1>1. IInv => StackShape
    BY DEF IInv
  <1> QED BY <1>1, Invariant, PTL

\* The application owns a cue it was handed: the parser never writes it again,
\* and never writes one it has released.
THEOREM HandedOverStaysFinal == Spec => HandedOverIsFinal
  <1>1. IInv /\ [Next]_vars => [\A k \in DOMAIN cues : cues[k].owner # "parser" => cues'[k] = cues[k]]_vars
    BY StepInvariant DEF OthersKept
  <1> QED BY <1>1, Invariant, PTL DEF Spec, HandedOverIsFinal

\* What was reported stays reported.
LEMMA ReportsStay == IInv /\ [Next]_vars => (Reported => Reported')
  <1> SUFFICES ASSUME IInv, [Next]_vars, Reported PROVE Reported'
    OBVIOUS
  <1>1. ASSUME ReportsAdded PROVE Reported'
    <2>1. PICK e \in Seq(Codes \X Nat) : errors' = errors \o e
      BY <1>1 DEF ReportsAdded
    <2>2. PICK i \in DOMAIN errors : errors[i][1] = "ALLOCATION_FAILED"
      BY DEF Reported
    <2>3. i \in DOMAIN errors' /\ errors'[i] = errors[i]
      BY <2>1, <2>2 DEF IInv, TypeOK
    <2> QED BY <2>2, <2>3 DEF Reported
  <1>2. ASSUME errors' = errors PROVE Reported'
    BY <1>2 DEF Reported
  <1>3. CASE Client \/ ChunkDone \/ ChunkStarved \/ UNCHANGED vars
    BY <1>2, <1>3 DEF Client, Feed, FinishCall, Delete, ChunkDone, ChunkStarved, vars, outcome
  <1>4. CASE TurnStep
    <2>1. CASE \E d \in Dies : CueReadStarved(d)
      <3>1. PICK d \in Dies : CueReadStarved(d)
        BY <2>1
      <3>2. errors' = errors \o AtLine(NoMemory(d).codes, line)
        BY <3>1 DEF CueReadStarved
      <3>3. AtLine(NoMemory(d).codes, line) \in Seq(Codes \X Nat)
        BY NoMemoryType, AtLineType, DiesAssumption DEF IInv, TypeOK
      <3> QED BY <1>1, <3>2, <3>3 DEF ReportsAdded
    <2>2. CASE \E d \in Dies : \E f \in Failing : CueLine(d, f)
      BY <1>1, <2>2, CueLineStep
    <2>3. CASE CueMissing
      BY <1>1, <2>3, AddedOne DEF CueMissing, IInv, TypeOK, Codes
    <2>4. CASE Lex \/ CueReadText \/ CueReadEol \/ CueReadNewline
      BY <1>2, <2>4 DEF Lex, CueReadText, CueReadEol, CueReadNewline, Quiet, outcome
    <2> QED BY <1>4, <2>1, <2>2, <2>3, <2>4 DEF TurnStep
  <1>5. CASE TokenStep
    <2>1. CASE InitialReject \/ TagReject
      <3>1. PICK l \in Nat : errors' = Append(errors, <<"MALFORMED_TAG", l>>)
        BY <2>1 DEF InitialReject, TagReject, Reject, IInv, TypeOK
      <3> QED BY <1>1, <3>1, AddedOne DEF Codes
    <2>2. CASE \E d \in Dies : BodyDead(d) \/ BodyNewline(d) \/ BodyCue(d) \/ BodyStarved(d)
      BY <1>1, <2>2, BodyErrors DEF BodyDead, BodyNewline, BodyCue, BodyStarved, ReportsAdded
    <2>3. CASE InitialSignature \/ TagSpace \/ TagNewline \/ CommentNewline \/ CommentSkip
               \/ EolCount \/ EolPop \/ CueAssert
      BY <1>2, <2>3 DEF InitialSignature, TagSpace, TagNewline, CommentNewline, CommentSkip,
        EolCount, EolPop, CueAssert, Quiet, outcome
    <2> QED BY <1>5, <2>1, <2>2, <2>3 DEF TokenStep
  <1>6. CASE TextStep
    <2>1. CASE \E d \in Dies : TextStarved(d)
      <3>1. PICK d \in Dies : TextStarved(d)
        BY <2>1
      <3>2. errors' = errors \o AtLine(NoMemory(d).codes, line)
        BY <3>1 DEF TextStarved
      <3>3. AtLine(NoMemory(d).codes, line) \in Seq(Codes \X Nat)
        BY NoMemoryType, AtLineType, DiesAssumption DEF IInv, TypeOK
      <3> QED BY <1>1, <3>2, <3>3 DEF ReportsAdded
    <2>2. CASE TextRead \/ TextCarriageReturn \/ TextNewline \/ TextUnparsed \/ TextUnseparated
      BY <1>2, <2>2 DEF TextRead, TextCarriageReturn, TextNewline, TextUnparsed, TextUnseparated,
        outcome
    <2> QED BY <1>6, <2>1, <2>2 DEF TextStep
  <1>7. CASE FinishStep
    <2>1. CASE \E d \in Dies : FinishTextStarved(d)
      <3>1. PICK d \in Dies : FinishTextStarved(d)
        BY <2>1
      <3>2. errors' = errors \o AtLine(NoMemory(d).codes, line)
        BY <3>1 DEF FinishTextStarved
      <3>3. AtLine(NoMemory(d).codes, line) \in Seq(Codes \X Nat)
        BY NoMemoryType, AtLineType, DiesAssumption DEF IInv, TypeOK
      <3> QED BY <1>1, <3>2, <3>3 DEF ReportsAdded
    <2>2. CASE \E d, e \in Dies : \E f \in Failing : FinishCueLine(d, e, f)
      BY <1>1, <2>2, FinishCueLineStep
    <2>3. CASE FinishAssert \/ FinishCueText \/ FinishUnseparated \/ FinishElse \/ FinishCleanup
      BY <1>2, <2>3 DEF FinishAssert, FinishCueText, FinishUnseparated, FinishElse, FinishCleanup,
        outcome
    <2> QED BY <1>7, <2>1, <2>2, <2>3 DEF FinishStep
  <1> QED BY <1>3, <1>4, <1>5, <1>6, <1>7 DEF Next, Parser, Gone

\* A cue is only lost with a failed allocation reported.
LostReported == \A k \in DOMAIN cues : cues[k].owner = "lost" => Reported

\* Deleting a parser, at any moment between two calls, leaves no cue of its own, and
\* none that nobody owns, unless a failed allocation was reported.
THEOREM NoCueIsLeaked == Spec => []NoCueLeaked
  <1>1. Init => LostReported
    BY DEF Init, LostReported
  <1>2. IInv /\ LostReported /\ [Next]_vars => LostReported'
    <2> SUFFICES ASSUME IInv, LostReported, [Next]_vars PROVE LostReported'
      OBVIOUS
    <2>1. OthersKept /\ (Reported => Reported')
      BY StepInvariant, ReportsStay
    <2> QED BY <2>1 DEF LostReported, OthersKept
  <1>3. Spec => []LostReported
    BY <1>1, <1>2, Invariant, PTL DEF Spec
  <1>4. IInv /\ LostReported => NoCueLeaked
    BY DEF IInv, LostReported, NoCueLeaked, Deleted, CueIsHeld, CueFrames, Depth
  <1> QED BY <1>3, <1>4, Invariant, PTL

-----------------------------------------------------------------------------
(* Who owns a cue.                                                         *)

\* The cues handed to the application are the ones it owns, each handed over once.
Handed ==
  /\ \A k \in DOMAIN cues : cues[k].owner = "application"
       => \E i \in DOMAIN delivered : delivered[i] = k
  /\ \A i \in DOMAIN delivered : /\ delivered[i] \in DOMAIN cues
                                 /\ cues[delivered[i]].owner = "application"
  /\ \A i, j \in DOMAIN delivered : delivered[i] = delivered[j] => i = j

\* A step that hands no cue over, and one that hands over a cue of the parser's.
NoneHanded ==
  /\ delivered' = delivered /\ DOMAIN cues \subseteq DOMAIN cues'
  /\ \A j \in DOMAIN cues' : cues'[j].owner = "application"
       => j \in DOMAIN cues /\ cues[j].owner = "application"

OneHanded ==
  \E k \in DOMAIN cues :
    /\ cues[k].owner = "parser" /\ delivered' = Append(delivered, k)
    /\ DOMAIN cues \subseteq DOMAIN cues' /\ cues'[k].owner = "application"
    /\ \A j \in DOMAIN cues' : cues'[j].owner = "application"
         => j = k \/ (j \in DOMAIN cues /\ cues[j].owner = "application")

\* What leaves the cues and the deliveries alone hands nothing over.
LEMMA HandsNone == ASSUME UNCHANGED <<cues, delivered>> PROVE NoneHanded
  BY DEF NoneHanded

\* A new cue is not the application's, whether the parser keeps it or not.
LEMMA NewIsNotHanded ==
  ASSUME IInv, UNCHANGED delivered, NEW c \in Cue, c.owner # "application",
         cues' = Append(cues, c)
  PROVE  NoneHanded
  <1>1. cues \in Seq(Cue)
    BY DEF IInv, TypeOK
  <1>2. /\ DOMAIN cues' = DOMAIN cues \cup {Len(cues) + 1} /\ cues'[Len(cues) + 1] = c
        /\ \A j \in DOMAIN cues : cues'[j] = cues[j]
    BY <1>1
  <1> QED BY <1>2 DEF NoneHanded

\* Neither is one that changes without a change of owner.
LEMMA ChangedIsNotHanded ==
  ASSUME IInv, UNCHANGED delivered, NEW k \in DOMAIN cues, NEW c, c.owner = cues[k].owner,
         cues' = [cues EXCEPT ![k] = c]
  PROVE  NoneHanded
  <1>1. cues \in Seq(Cue)
    BY DEF IInv, TypeOK
  <1>2. /\ DOMAIN cues' = DOMAIN cues /\ cues'[k] = c
        /\ \A j \in DOMAIN cues : j # k => cues'[j] = cues[j]
    BY <1>1
  <1> QED BY <1>2 DEF NoneHanded

\* Cleaning the stack up hands nothing over.
LEMMA CleanupHandsNone ==
  ASSUME IInv, CleanupStack, UNCHANGED delivered PROVE NoneHanded
  <1> DEFINE held(k) == \E i \in Held("V_CUE") : stack[i].cue = k
  <1>1. cues' = [k \in DOMAIN cues |-> IF held(k) THEN [cues[k] EXCEPT !.owner = "released"]
                                      ELSE cues[k]]
    BY DEF CleanupStack
  <1>2. \A k \in DOMAIN cues : cues[k] \in Cue
    BY DEF IInv, TypeOK
  <1>3. \A k \in DOMAIN cues : [cues[k] EXCEPT !.owner = "released"].owner = "released"
    BY <1>2 DEF Cue
  <1> HIDE DEF held
  <1> QED BY <1>1, <1>3 DEF NoneHanded

\* A cue that is done is handed over or released; the one that takes its place, if
\* there is one, is the parser's.
LEMMA CloseHands ==
  ASSUME IInv, Live, mode # "M_WEBVTT", NEW c \in Cue, NEW above, CloseCue(c, above)
  PROVE  NoneHanded \/ OneHanded
  <1> DEFINE k == stack[1].cue
             d == [c EXCEPT !.owner = NewOwner(c)]
             done == [cues EXCEPT ![k] = d]
  <1>1. d \in Cue /\ d.owner = NewOwner(c) /\ NewOwner(c) \in {"application", "released"}
    BY NewOwnerType DEF Cue
  <1>2. /\ k \in DOMAIN cues /\ cues[k].owner = "parser" /\ cues \in Seq(Cue)
    BY HeldCue
  <1>3. delivered' = (IF NewOwner(c) = "application" THEN Append(delivered, k) ELSE delivered)
    BY HeldCue DEF CloseCue
  <1>4. cues' = done \/ cues' = Append(done, NewCue)
    BY HeldCue DEF CloseCue
  <1> HIDE DEF d, k
  <1>5. /\ done \in Seq(Cue) /\ Len(done) = Len(cues) /\ done[k] = d
        /\ \A j \in DOMAIN cues : j # k => done[j] = cues[j]
    BY <1>1, <1>2
  <1> HIDE DEF done
  <1>6. /\ DOMAIN cues' \subseteq DOMAIN cues \cup {Len(cues) + 1} /\ cues'[k] = d
        /\ DOMAIN cues \subseteq DOMAIN cues'
        /\ \A j \in DOMAIN cues : j # k => cues'[j] = cues[j]
        /\ \A j \in DOMAIN cues' : j \notin DOMAIN cues => cues'[j] = NewCue
    <2>1. CASE cues' = done
      BY <1>2, <1>5, <2>1
    <2>2. CASE cues' = Append(done, NewCue)
      <3>1. /\ DOMAIN cues' = DOMAIN done \cup {Len(cues) + 1} /\ cues'[Len(cues) + 1] = NewCue
            /\ \A j \in DOMAIN done : cues'[j] = done[j]
        BY <1>5, <2>2, NewCueType
      <3>2. DOMAIN done = DOMAIN cues
        BY <1>2, <1>5
      <3> QED BY <1>2, <1>5, <3>1, <3>2
    <2> QED BY <1>4, <2>1, <2>2
  <1>7. CASE NewOwner(c) = "application"
    BY <1>1, <1>2, <1>3, <1>6, <1>7, NewCueType DEF OneHanded
  <1>8. CASE NewOwner(c) # "application"
    BY <1>1, <1>2, <1>3, <1>6, <1>8, NewCueType DEF NoneHanded
  <1> QED BY <1>7, <1>8

\* The end of a line of cue text hands over the cue whose text it closes, if any.
LEMMA LineHands ==
  ASSUME IInv, Live, mode # "M_WEBVTT", NEW l \in Seq(Symbols), NEW closed \in BOOLEAN,
         NEW n, EndTextLine(l, closed, n)
  PROVE  NoneHanded \/ OneHanded
  <1>1. PICK c \in Longer(cues[Top.cue], l) :
          IF closed
          THEN CloseCue(c, IF HasArrow(l) THEN WithText(NewFrame("T_CUEREAD", "V_TEXT", 0), l)
                           ELSE Above)
          ELSE /\ cues' = [cues EXCEPT ![Top.cue] = c]
               /\ UNCHANGED <<delivered, mode, frames>>
    BY DEF EndTextLine
  <1>2. c \in Cue /\ c.owner = cues[Top.cue].owner
    BY HeldCue, LongerType
  <1>3. CASE closed
    BY <1>1, <1>2, <1>3, CloseHands
  <1>4. CASE ~closed
    BY <1>1, <1>2, <1>4, HeldCue, ChangedIsNotHanded
  <1> QED BY <1>3, <1>4

\* A line before the cue text changes its cue and hands nothing over.
LEMMA CueLineHands ==
  ASSUME IInv, NEW d \in Dies, NEW fails \in Failing, CueLine(d, fails) PROVE NoneHanded
  <1>1. HoldsCue(1) /\ Top = stack[1] /\ stack \in [0..2 -> Frame] /\ Above = stack[2]
    BY WhereTop DEF CueLine, Turn, Live, Depth, Top, Above, LacksCue
  <1>2. cues[Top.cue] \in Cue /\ Above \in Frame /\ d \in Nat /\ fails \in BOOLEAN
    BY <1>1, DiesAssumption DEF HoldsCue, IInv, TypeOK, Failing
  <1>3. ProcCueLine(cues[Top.cue], Above, d, fails).cue.owner = cues[Top.cue].owner
    BY <1>2, ProcCueLineType DEF LineResult
  <1>4. /\ cues' = [cues EXCEPT ![Top.cue] = ProcCueLine(cues[Top.cue], Above, d, fails).cue]
        /\ UNCHANGED delivered /\ Top.cue \in DOMAIN cues
    BY <1>1 DEF CueLine, HoldsCue
  <1> QED BY <1>3, <1>4, ChangedIsNotHanded

\* Neither does the last one of a document.
LEMMA FinishCueLineHands ==
  ASSUME IInv, NEW d \in Dies, NEW e \in Dies, NEW fails \in Failing, FinishCueLine(d, e, fails)
  PROVE  NoneHanded
  <1> DEFINE k == stack[FinishTop].cue
             r == ProcCueLine(cues[k], stack[FinishTop + 1], d, fails)
  <1>1. Live /\ FinishInCue /\ k # 0
    BY DEF FinishCueLine, FinishInCue, Live
  <1>2. FinishTop = 1 /\ HoldsCue(1) /\ stack \in [0..2 -> Frame]
    BY <1>1, WhereTop DEF FinishInCue, FinishTop, LacksCue, Top, Depth
  <1>3. k \in DOMAIN cues /\ cues[k] \in Cue /\ stack[FinishTop + 1] \in Frame /\ d \in Nat
        /\ fails \in BOOLEAN
    BY <1>2, DiesAssumption DEF HoldsCue, IInv, TypeOK, Failing
  <1>4. r.cue.owner = cues[k].owner
    BY <1>3, ProcCueLineType DEF LineResult
  <1>5. cues' = [cues EXCEPT ![k] = r.cue] /\ UNCHANGED delivered
    BY DEF FinishCueLine
  <1> QED BY <1>3, <1>4, <1>5, ChangedIsNotHanded

\* Every step hands over one cue of the parser's, or none.
LEMMA StepHands == IInv /\ [Next]_vars => NoneHanded \/ OneHanded
  <1> SUFFICES ASSUME IInv, [Next]_vars PROVE NoneHanded \/ OneHanded
    OBVIOUS
  <1>1. CASE Client
    BY <1>1, HandsNone, CleanupHandsNone DEF Client, Feed, FinishCall, Delete, outcome, heap
  <1>2. CASE ChunkDone \/ ChunkStarved
    BY <1>2, HandsNone, CleanupHandsNone DEF ChunkDone, ChunkStarved, outcome, heap
  <1>3. CASE TurnStep
    <2>1. CASE \E d \in Dies : CueReadStarved(d)
      BY <2>1, HandsNone, CleanupHandsNone DEF CueReadStarved
    <2>2. CASE \E d \in Dies : \E f \in Failing : CueLine(d, f)
      BY <2>2, CueLineHands
    <2>3. CASE Lex \/ CueReadText \/ CueReadEol \/ CueReadNewline \/ CueMissing
      BY <2>3, HandsNone DEF Lex, CueReadText, CueReadEol, CueReadNewline, CueMissing, Quiet,
        outcome, heap
    <2> QED BY <1>3, <2>1, <2>2, <2>3 DEF TurnStep
  <1>4. CASE TokenStep
    <2>1. CASE \E d \in Dies : BodyCue(d)
      BY <2>1, NewCueType, NewIsNotHanded DEF BodyCue
    <2>2. CASE \E d \in Dies : BodyStarved(d)
      <3>1. PICK d \in Dies : BodyStarved(d)
        BY <2>2
      <3> DEFINE dead == Report(Append(BodyReports, "ALLOCATION_FAILED"), d).dead
                 c == [NewCue EXCEPT !.owner = NotMade(dead)]
      <3>2. c \in Cue /\ c.owner # "application"
        <4>1. NotMade(dead) \in {"lost", "released"}
          BY DEF NotMade
        <4> HIDE DEF dead
        <4> QED BY <4>1, NewCueType DEF Cue, Owners
      <3>3. cues' \in {cues, Append(cues, c)} /\ UNCHANGED delivered
        BY <3>1 DEF BodyStarved
      <3> HIDE DEF c
      <3> QED BY <3>2, <3>3, HandsNone, NewIsNotHanded
    <2>3. CASE \E d \in Dies : BodyDead(d) \/ BodyNewline(d)
      BY <2>3, HandsNone DEF BodyDead, BodyNewline, heap
    <2>4. CASE InitialSignature \/ InitialReject \/ TagSpace \/ TagNewline \/ TagReject
               \/ CommentNewline \/ CommentSkip \/ EolCount \/ EolPop \/ CueAssert
      BY <2>4, HandsNone DEF InitialSignature, InitialReject, TagSpace, TagNewline, TagReject,
        Reject, CommentNewline, CommentSkip, EolCount, EolPop, CueAssert, Quiet, outcome, heap
    <2> QED BY <1>4, <2>1, <2>2, <2>3, <2>4 DEF TokenStep
  <1>5. CASE TextStep
    <2>1. CASE TextNewline
      <3> DEFINE l == Front(lineBuf)
      <3>1. EndTextLine(l, ~IsText(l), strings) /\ AtNewline
        BY <2>1 DEF TextNewline
      <3>2. Live /\ mode # "M_WEBVTT" /\ l \in Seq(Symbols)
        BY <3>1, AtNewlineState
      <3> HIDE DEF l
      <3>3. IsText(l) \in BOOLEAN
        BY DEF IsText
      <3> QED BY <3>1, <3>2, <3>3, LineHands
    <2>2. CASE TextUnparsed
      BY <2>2, AtNewlineState, LineHands DEF TextUnparsed
    <2>3. CASE TextRead \/ TextCarriageReturn \/ TextUnseparated \/ \E d \in Dies : TextStarved(d)
      BY <2>3, HandsNone DEF TextRead, TextCarriageReturn, TextUnseparated, TextStarved, outcome,
        heap
    <2> QED BY <1>5, <2>1, <2>2, <2>3 DEF TextStep
  <1>6. CASE FinishStep
    <2>1. CASE FinishCueText
      <3>1. Live /\ mode # "M_WEBVTT"
        BY <2>1 DEF FinishCueText, FinishInText, Live
      <3>2. LastLine \in Seq(Symbols)
        BY LineBufText DEF LastLine
      <3> QED BY <2>1, <3>1, <3>2, LineHands DEF FinishCueText
    <2>2. CASE \E d, e \in Dies : \E f \in Failing : FinishCueLine(d, e, f)
      BY <2>2, FinishCueLineHands
    <2>3. CASE FinishCleanup
      BY <2>3, CleanupHandsNone DEF FinishCleanup, outcome
    <2>4. CASE FinishAssert \/ FinishUnseparated \/ FinishElse \/ \E d \in Dies : FinishTextStarved(d)
      BY <2>4, HandsNone DEF FinishAssert, FinishUnseparated, FinishElse, FinishTextStarved,
        outcome, heap
    <2> QED BY <1>6, <2>1, <2>2, <2>3, <2>4 DEF FinishStep
  <1>7. CASE UNCHANGED vars
    BY <1>7, HandsNone DEF vars, outcome, heap
  <1> QED BY <1>1, <1>2, <1>3, <1>4, <1>5, <1>6, <1>7 DEF Next, Parser, Gone

\* So what was handed over is what the application owns.
LEMMA StepHanded == IInv /\ Handed /\ [Next]_vars => Handed'
  <1> SUFFICES ASSUME IInv, Handed, [Next]_vars PROVE Handed'
    OBVIOUS
  <1>1. /\ \A k \in DOMAIN cues : cues[k].owner # "parser" => cues'[k] = cues[k]
        /\ delivered \in Seq(Nat) /\ cues \in Seq(Cue)
    BY StepInvariant DEF OthersKept, IInv, TypeOK
  <1>2. CASE NoneHanded
    BY <1>1, <1>2 DEF Handed, NoneHanded
  <1>3. CASE OneHanded
    <2>1. PICK k \in DOMAIN cues :
            /\ cues[k].owner = "parser" /\ delivered' = Append(delivered, k)
            /\ DOMAIN cues \subseteq DOMAIN cues' /\ cues'[k].owner = "application"
            /\ \A j \in DOMAIN cues' : cues'[j].owner = "application"
                 => j = k \/ (j \in DOMAIN cues /\ cues[j].owner = "application")
      BY <1>3 DEF OneHanded
    <2> DEFINE n == Len(delivered) + 1
    <2>2. /\ DOMAIN delivered' = DOMAIN delivered \cup {n} /\ delivered'[n] = k
          /\ \A i \in DOMAIN delivered : i # n /\ delivered'[i] = delivered[i]
      BY <1>1, <2>1
    <2>3. \A i \in DOMAIN delivered : delivered[i] # k
      BY <2>1 DEF Handed
    <2> HIDE DEF n
    <2>4. ASSUME NEW j \in DOMAIN cues', cues'[j].owner = "application"
          PROVE  \E i \in DOMAIN delivered' : delivered'[i] = j
      <3>1. CASE j = k
        BY <2>2, <3>1
      <3>2. CASE j # k
        <4>1. PICK i \in DOMAIN delivered : delivered[i] = j
          BY <2>1, <2>4, <3>2 DEF Handed
        <4> QED BY <2>2, <4>1
      <3> QED BY <3>1, <3>2
    <2>5. ASSUME NEW i \in DOMAIN delivered'
          PROVE  delivered'[i] \in DOMAIN cues' /\ cues'[delivered'[i]].owner = "application"
      <3>1. CASE i = n
        BY <2>1, <2>2, <3>1
      <3>2. CASE i # n
        <4>1. i \in DOMAIN delivered /\ delivered'[i] = delivered[i]
          BY <2>2, <3>2
        <4> QED BY <1>1, <2>1, <4>1 DEF Handed
      <3> QED BY <3>1, <3>2
    <2>6. ASSUME NEW i \in DOMAIN delivered', NEW j \in DOMAIN delivered',
                 delivered'[i] = delivered'[j]
          PROVE  i = j
      <3>1. CASE i \in DOMAIN delivered /\ j \in DOMAIN delivered
        BY <2>2, <2>6, <3>1 DEF Handed
      <3>2. CASE i = n \/ j = n
        BY <2>2, <2>3, <2>6, <3>2
      <3> QED BY <2>2, <3>1, <3>2
    <2> QED BY <2>4, <2>5, <2>6 DEF Handed
  <1> QED BY <1>2, <1>3, StepHands

\* Every cue has one owner, in the frames and in the deliveries too: a cue of the
\* parser's is in exactly one frame in use, another in none, and a cue the application
\* owns was handed to it exactly once, another never.
THEOREM EveryCueHasOneOwner == Spec => []OneOwner
  <1>1. Init => Handed
    BY DEF Init, Handed
  <1>2. Spec => []Handed
    BY <1>1, StepHanded, Invariant, PTL DEF Spec
  <1>3. IInv /\ Handed => OneOwner
    <2> SUFFICES ASSUME IInv, Handed, NEW k \in DOMAIN cues
                 PROVE  /\ Cardinality({i \in 0..top : stack[i].type = "V_CUE" /\ stack[i].cue = k})
                             = IF cues[k].owner = "parser" THEN 1 ELSE 0
                        /\ Cardinality({i \in DOMAIN delivered : delivered[i] = k})
                             = IF cues[k].owner = "application" THEN 1 ELSE 0
      BY DEF OneOwner
    <2>1. top \in 0..2 /\ k \in Nat \ {0}
      BY DEF IInv, TypeOK, Depth
    <2>2. {i \in 0..top : stack[i].type = "V_CUE" /\ stack[i].cue = k}
            = IF cues[k].owner = "parser" THEN {1} ELSE {}
      <3>1. \A i \in 0..top : stack[i].type = "V_CUE" /\ stack[i].cue = k
                                => i = 1 /\ cues[k].owner = "parser"
        BY <2>1 DEF IInv, CueFrames, HoldsCue, LacksCue, Depth
      <3>2. cues[k].owner = "parser"
              => 1 \in 0..top /\ stack[1].type = "V_CUE" /\ stack[1].cue = k
        BY <2>1 DEF IInv, CueIsHeld, CueFrames, Depth
      <3> QED BY <3>1, <3>2
    <2>3. \/ /\ cues[k].owner = "application"
             /\ \E i : {j \in DOMAIN delivered : delivered[j] = k} = {i}
          \/ /\ cues[k].owner # "application"
             /\ {j \in DOMAIN delivered : delivered[j] = k} = {}
      <3>1. CASE cues[k].owner = "application"
        <4>1. PICK i \in DOMAIN delivered : delivered[i] = k
          BY <3>1 DEF Handed
        <4>2. {j \in DOMAIN delivered : delivered[j] = k} = {i}
          BY <4>1 DEF Handed
        <4> QED BY <3>1, <4>2
      <3>2. CASE cues[k].owner # "application"
        BY <3>2 DEF Handed
      <3> QED BY <3>1, <3>2
    <2> QED BY <2>2, <2>3, FS_Singleton, FS_EmptySet
  <1> QED BY <1>2, <1>3, Invariant, PTL

-----------------------------------------------------------------------------
(* Reading a document whose times have their separators.                   *)

\* Then every text the parser keeps is one of times with separators.
TextsSeparated ==
  Separated(lineBuf) /\ Separated(token) /\ \A i \in Depth : Separated(stack[i].text)

\* The client keeps its document.
LEMMA DocumentStays == [Next]_vars => doc' = doc
  <1> SUFFICES ASSUME [Next]_vars PROVE doc' = doc
    OBVIOUS
  <1>1. CASE Client \/ ChunkDone \/ ChunkStarved \/ UNCHANGED vars
    BY <1>1 DEF Client, Feed, FinishCall, Delete, ChunkDone, ChunkStarved, Return, vars, input
  <1>2. CASE TurnStep
    BY <1>2 DEF TurnStep, Lex, CueReadText, CueReadEol, CueReadNewline, CueMissing, CueReadStarved,
      CueLine, Return, input
  <1>3. CASE TokenStep
    BY <1>3 DEF TokenStep, InitialSignature, InitialReject, TagSpace, TagNewline, TagReject, Reject,
      CommentNewline, CommentSkip, EolCount, EolPop, CueAssert, BodyDead, BodyNewline, BodyCue,
      BodyStarved, EndTurn, Return, input
  <1>4. CASE TextStep
    BY <1>4 DEF TextStep, TextRead, TextCarriageReturn, TextNewline, TextUnparsed,
      TextUnseparated, TextStarved, Return
  <1>5. CASE FinishStep
    BY ZenonT(30), <1>5 DEF FinishStep, FinishAssert, FinishCueText, FinishUnseparated, FinishElse,
      FinishCleanup, FinishTextStarved, FinishCueLine, Return, input
  <1> QED BY <1>1, <1>2, <1>3, <1>4, <1>5 DEF Next, Parser, Gone

\* The texts of the frames that the handlers put on the stack.
LEMMA FrameTexts ==
  /\ \A s, t, b, k, n : /\ NewFrame(s, t, b).text = << >>
                        /\ WithValue(NewFrame(s, t, b), n).text = << >>
                        /\ WithCue(NewFrame(s, t, b), k).text = << >>
  /\ \A s, t, b, l : WithText(NewFrame(s, t, b), l).text = l
  /\ \A f \in Frame : \A s : InState(f, s).text = f.text
  /\ \A f \in Frame : \A s : BackTo(f, s).text = f.text
  /\ \A f \in Frame : \A k : WithCue(f, k).text = f.text
  /\ \A f \in Frame : \A n : WithValue(f, n).text = f.text
  /\ \A f \in Frame : \A l : WithText(f, l).text = l
  /\ \A f \in Frame : AtEol(f).text = f.text
  /\ \A f \in Frame : Vacate(f).text = << >>
  /\ \A f \in Frame : \A s : InState(ClearValue(f), s).text = << >>
  /\ \A f \in Frame : \A s : InState(Vacate(f), s).text = << >>
  <1>1. \A s, t, b, k, n : /\ NewFrame(s, t, b).text = << >>
                           /\ WithValue(NewFrame(s, t, b), n).text = << >>
                           /\ WithCue(NewFrame(s, t, b), k).text = << >>
    BY DEF NewFrame, WithValue, WithCue
  <1>2. \A s, t, b, l : WithText(NewFrame(s, t, b), l).text = l
    BY DEF NewFrame, WithText
  <1>3. ASSUME NEW f \in Frame
        PROVE  /\ \A s : InState(f, s).text = f.text
               /\ \A s : BackTo(f, s).text = f.text
               /\ \A k : WithCue(f, k).text = f.text
               /\ \A n : WithValue(f, n).text = f.text
               /\ \A l : WithText(f, l).text = l
               /\ AtEol(f).text = f.text /\ Vacate(f).text = << >>
               /\ \A s : InState(ClearValue(f), s).text = << >>
               /\ \A s : InState(Vacate(f), s).text = << >>
    BY DEF InState, BackTo, WithCue, WithValue, AtEol, WithText, Vacate, ClearValue, Frame
  <1> QED BY <1>1, <1>2, <1>3

\* Texts stay separated when a symbol of such a document, or a mark, is appended.
LEMMA SeparatedText ==
  /\ Separated(<< >>)
  /\ \A S : \A t \in Seq(S) : \A s \in S : Separated(t) /\ s # "NOSEP" => Separated(Append(t, s))
  /\ \A S : \A t \in Seq(S) : Separated(t) => Separated(Front(t))
  <1>1. Separated(<< >>)
    BY DEF Separated
  <1>2. ASSUME NEW S, NEW t \in Seq(S), NEW s \in S, Separated(t), s # "NOSEP"
        PROVE  Separated(Append(t, s))
    BY <1>2 DEF Separated
  <1>3. ASSUME NEW S, NEW t \in Seq(S), Separated(t) PROVE Separated(Front(t))
    <2>1. Front(t) = SubSeq(t, 1, Len(t) - 1)
      BY DEF Front
    <2>2. CASE t = << >>
      BY <1>3, <2>1, <2>2 DEF Separated
    <2>3. CASE t # << >>
      BY <1>3, <2>1, <2>3 DEF Separated
    <2> QED BY <2>2, <2>3
  <1> QED BY <1>1, <1>2, <1>3

\* The next symbol is not the one without a separator, nor is one in the token.
LEMMA SeparatedSymbol ==
  ASSUME IInv, More, Separated(doc), TextsSeparated
  PROVE  Sym # "NOSEP" /\ \A x : Separated(Spelled(x))
  <1>1. Sym # "NOSEP" /\ Sym \in Symbols
    <2>1. pos + 1 \in DOMAIN doc
      BY DEF IInv, TypeOK, WithinChunk, More
    <2> QED BY <2>1, SymType DEF Separated, Sym
  <1>2. Separated(Append(token, Sym))
    BY <1>1, SeparatedText DEF TextsSeparated, IInv, TypeOK
  <1> QED BY <1>1, <1>2 DEF Spelled, TextsSeparated

\* A step of the header or the body.
LEMMA TokenTexts ==
  ASSUME IInv, Separated(doc), TextsSeparated, TokenStep PROVE TextsSeparated'
  <1>1. stack \in [Depth -> Frame] /\ Live /\ Separated(<< >>) /\ top \in 0..2
    <2>1. call = "chunk"
      BY DEF TokenStep, InitialSignature, InitialReject, TagSpace, TagNewline, TagReject,
        CommentNewline, CommentSkip, EolCount, EolPop, CueAssert, BodyDead, BodyNewline, BodyCue,
        BodyStarved, On
    <2> QED BY <2>1, SeparatedText DEF Live, IInv, TypeOK, Depth
  <1>2. CASE InitialReject \/ TagReject \/ CommentSkip \/ CueAssert \/ \E d \in Dies : BodyDead(d)
    BY <1>2 DEF InitialReject, TagReject, Reject, CommentSkip, CueAssert, BodyDead, Quiet, frames,
      TextsSeparated
  <1>3. CASE InitialSignature \/ TagSpace
    <2>1. token' = << >> /\ lineBuf' = lineBuf
      BY <1>3 DEF InitialSignature, TagSpace, EndTurn, Quiet
    <2>2. PICK s : Push(s)
      BY <1>3 DEF InitialSignature, TagSpace
    <2>3. \A i \in Depth : stack'[i] \in {NewFrame(s, "V_NONE", Top.back + 1), stack[i]}
      BY <1>1, <2>2 DEF Push
    <2> QED BY <1>1, <2>1, <2>3, FrameTexts DEF TextsSeparated
  <1>4. CASE TagNewline \/ CommentNewline
    <2>1. token' = << >> /\ lineBuf' = lineBuf
      BY <1>4 DEF TagNewline, CommentNewline, EndTurn, Quiet
    <2>2. PICK s : PopBackAndCount(s)
      BY <1>4 DEF TagNewline, CommentNewline
    <2>3. \A i \in Depth : stack'[i] \in {WithValue(NewFrame("T_EOL", "V_INTEGER", 1), 1),
                                          BackTo(stack[i], s), stack[i]}
      BY <1>1, <2>2 DEF PopBackAndCount
    <2>4. \A i \in Depth : stack'[i].text \in {<< >>, stack[i].text}
      BY <1>1, <2>3, FrameTexts
    <2> QED BY <1>1, <2>1, <2>4 DEF TextsSeparated
  <1>5. CASE EolCount \/ EolPop
    <2>1. token' \in {<< >>, token} /\ lineBuf' = lineBuf
      BY <1>5 DEF EolCount, EolPop, EndTurn, Quiet, lexer
    <2>2. \A i \in Depth : stack'[i] \in {WithValue(stack[i], stack[i].value + 1),
                                          BackTo(stack[i], stack[i].state), stack[i]}
      BY <1>1, <1>5 DEF EolCount, EolPop
    <2>3. \A i \in Depth : stack'[i].text = stack[i].text
      <3> TAKE i \in Depth
      <3>1. /\ WithValue(stack[i], stack[i].value + 1).text = stack[i].text
            /\ BackTo(stack[i], stack[i].state).text = stack[i].text
        BY <1>1, FrameTexts
      <3> QED BY <2>2, <3>1
    <2> QED BY <1>1, <2>1, <2>3 DEF TextsSeparated
  <1>6. \A i \in Depth : BodyStack[i].text \in {<< >>, stack[i].text}
    <2>1. \A i \in Depth : BodyStack[i] \in {InState(ClearValue(stack[i]), "T_INITIAL"), stack[i]}
      BY <1>1 DEF BodyStack
    <2> QED BY <1>1, <2>1, FrameTexts
  <1>7. CASE \E d \in Dies : BodyNewline(d)
    BY <1>1, <1>6, <1>7 DEF BodyNewline, EndTurn, TextsSeparated
  <1>8. CASE \E d \in Dies : BodyCue(d)
    <2> DEFINE f == WithCue(NewFrame("T_CUE", "V_CUE", Top.back + 1), Len(cues) + 1)
               g == WithText(NewFrame("T_CUEREAD", "V_TEXT", Top.back + 2), token)
    <2>1. /\ stack' = [BodyStack EXCEPT ![top + 1] = f, ![top + 2] = g]
          /\ token' = << >> /\ lineBuf' = lineBuf
      BY <1>8 DEF BodyCue, EndTurn
    <2>2. f.text = << >> /\ g.text = token
      BY FrameTexts
    <2>3. DOMAIN BodyStack = Depth
      BY <1>1 DEF BodyStack
    <2> HIDE DEF f, g
    <2>4. \A i \in Depth : stack'[i] \in {f, g, BodyStack[i]}
      BY <2>1, <2>3
    <2> QED BY <1>1, <1>6, <2>1, <2>2, <2>4 DEF TextsSeparated
  <1>9. CASE \E d \in Dies : BodyStarved(d)
    <2>1. /\ stack' = BodyStack \/ stack' = [BodyStack EXCEPT ![top] = Vacate(@)]
          /\ token' = token /\ lineBuf' = lineBuf
      BY <1>9 DEF BodyStarved
    <2>2. DOMAIN BodyStack = Depth /\ BodyStack[top] \in Frame
      BY <1>1, <1>9, BodyFrames DEF BodyStarved, On, Depth
    <2>3. Vacate(BodyStack[top]).text = << >>
      BY <2>2, FrameTexts
    <2>4. \A i \in Depth : stack'[i].text \in {<< >>, BodyStack[i].text}
      BY <2>1, <2>2, <2>3
    <2> QED BY <1>1, <1>6, <2>1, <2>4 DEF TextsSeparated
  <1> QED BY <1>2, <1>3, <1>4, <1>5, <1>7, <1>8, <1>9 DEF TokenStep

\* A line of a cue, once it is dealt with.
LEMMA LineTexts ==
  ASSUME IInv, TextsSeparated, NEW t \in 0..1, NEW f, f.text = << >>, NEW r,
         stack' = AfterLine([stack EXCEPT ![t + 1] = f], t, r)
  PROVE  \A i \in Depth : Separated(stack'[i].text)
  <1> DEFINE stk == [stack EXCEPT ![t + 1] = f]
             g == NewFrame("T_CUEREAD", "V_TEXT", stk[t].back + 1)
  <1>1. stack \in [Depth -> Frame] /\ t + 1 \in Depth
    BY DEF IInv, TypeOK, Depth
  <1>2. \A i \in Depth : stk[i].text \in {<< >>, stack[i].text}
    BY <1>1
  <1>3. DOMAIN stk = Depth
    BY <1>1
  <1>4. g.text = << >>
    BY FrameTexts
  <1>5. stack' = [stk EXCEPT ![t + 1] = g] \/ stack' = stk
    BY DEF AfterLine
  <1> HIDE DEF g, stk
  <1>6. \A i \in Depth : stack'[i].text \in {<< >>, stack[i].text}
    BY <1>1, <1>2, <1>3, <1>4, <1>5
  <1> QED BY <1>6, SeparatedText DEF TextsSeparated

\* The frames above the last are vacated, if any, when the stack is cleaned up.
LEMMA CleanupTexts ==
  ASSUME IInv, TextsSeparated, CleanupStack PROVE \A i \in Depth : Separated(stack'[i].text)
  <1>1. \A i \in Depth : stack[i] \in Frame /\ stack'[i] \in {Vacate(stack[i]), stack[i]}
    BY DEF CleanupStack, IInv, TypeOK
  <1>2. \A i \in Depth : stack'[i].text \in {<< >>, stack[i].text}
    BY <1>1, FrameTexts
  <1> QED BY <1>2, SeparatedText DEF TextsSeparated

\* A turn of the loop that reads the lines of a cue.
LEMMA TurnTexts ==
  ASSUME IInv, Separated(doc), TextsSeparated, TurnStep PROVE TextsSeparated'
  <1>1. stack \in [Depth -> Frame] /\ Live /\ Separated(<< >>) /\ More
    <2>1. Turn
      BY DEF TurnStep, Lex, CueReadText, CueReadEol, CueReadNewline, CueMissing, CueReadStarved,
        CueLine
    <2> QED BY <2>1, SeparatedText DEF Turn, Live, IInv, TypeOK
  <1>2. CASE Lex
    BY <1>1, <1>2, SeparatedSymbol DEF Lex, frames, TextsSeparated
  <1>3. CASE CueReadText
    <2>1. Top.state = "T_CUEREAD" /\ Top = stack[2] /\ top = 2 /\ stack[2] \in Frame
      BY <1>1, <1>3, WhereTop DEF CueReadText, Top, Depth
    <2>2. Separated(Append(stack[2].text, Sym))
      BY <1>1, <2>1, SymType, SeparatedText, SeparatedSymbol DEF TextsSeparated, Frame, Depth
    <2>3. \A i \in Depth : stack'[i] \in {WithText(stack[2], Append(stack[2].text, Sym)), stack[i]}
      BY <1>1, <1>3, <2>1 DEF CueReadText
    <2>4. \A i \in Depth : stack'[i].text \in {Append(stack[2].text, Sym), stack[i].text}
      <3>1. WithText(stack[2], Append(stack[2].text, Sym)).text = Append(stack[2].text, Sym)
        BY <2>1, FrameTexts
      <3> QED BY <2>3, <3>1
    <2> QED BY <1>3, <2>2, <2>4 DEF CueReadText, Quiet, lexer, TextsSeparated
  <1>4. CASE CueReadEol
    <2>1. \A i \in Depth : stack'[i] \in {AtEol(stack[i]), stack[i]}
      BY <1>1, <1>4 DEF CueReadEol
    <2>2. \A i \in Depth : stack'[i].text = stack[i].text
      BY <1>1, <2>1, FrameTexts
    <2> QED BY <1>4, <2>2 DEF CueReadEol, Quiet, lexer, TextsSeparated
  <1>5. CASE CueReadNewline
    BY <1>1, <1>5, SeparatedSymbol DEF CueReadNewline, Quiet, TextsSeparated
  <1>6. CASE CueMissing
    <2>1. \A i \in Depth : stack'[i] \in {Vacate(stack[i]), stack[i]}
      BY <1>1, <1>6 DEF CueMissing
    <2>2. \A i \in Depth : stack'[i].text \in {<< >>, stack[i].text}
      BY <1>1, <2>1, FrameTexts
    <2> QED BY <1>1, <1>6, <2>2 DEF CueMissing, TextsSeparated
  <1>7. CASE \E d \in Dies : CueReadStarved(d)
    <2>1. \A i \in Depth : Separated(stack'[i].text)
      <3>1. CASE CleanupStack
        BY <3>1, CleanupTexts
      <3>2. CASE stack' = [stack EXCEPT ![top] = Vacate(@)]
        <4>1. \A i \in Depth : stack'[i] \in {Vacate(stack[i]), stack[i]}
          BY <1>1, <3>2
        <4> QED BY <1>1, <4>1, FrameTexts DEF TextsSeparated
      <3> QED BY <1>7, <3>1, <3>2 DEF CueReadStarved
    <2> QED BY <1>7, <2>1 DEF CueReadStarved, TextsSeparated
  <1>8. CASE \E d \in Dies : \E f \in Failing : CueLine(d, f)
    <2>1. PICK d \in Dies, fails \in Failing : CueLine(d, fails)
      BY <1>8
    <2> DEFINE r == ProcCueLine(cues[Top.cue], Above, d, fails)
    <2>2. top = 1 /\ stack[2] \in Frame
      BY <1>1, <2>1, WhereTop DEF CueLine, Depth
    <2>3. /\ stack' = AfterLine([stack EXCEPT ![top + 1] = Vacate(@)], top, r)
          /\ lineBuf' = lineBuf
      BY <2>1 DEF CueLine
    <2>4. token' \in {<< >>, token}
      BY <2>1 DEF CueLine
    <2> HIDE DEF r
    <2>5. stack' = AfterLine([stack EXCEPT ![1 + 1] = Vacate(stack[2])], 1, r)
      BY <1>1, <2>2, <2>3
    <2>6. Vacate(stack[2]).text = << >> /\ 1 \in 0..1
      BY <2>2, FrameTexts
    <2>7. \A i \in Depth : Separated(stack'[i].text)
      BY <2>5, <2>6, LineTexts
    <2> QED BY <1>1, <2>3, <2>4, <2>7 DEF TextsSeparated
  <1> QED BY <1>2, <1>3, <1>4, <1>5, <1>6, <1>7, <1>8 DEF TurnStep

\* The end of a line of cue text.
LEMMA EndTexts ==
  ASSUME IInv, TextsSeparated, Live, mode # "M_WEBVTT", NEW l \in Seq(Symbols), Separated(l),
         NEW closed \in BOOLEAN, NEW n, EndTextLine(l, closed, n)
  PROVE  TextsSeparated'
  <1> DEFINE above == IF HasArrow(l) THEN WithText(NewFrame("T_CUEREAD", "V_TEXT", 0), l) ELSE Above
  <1>1. /\ stack \in [Depth -> Frame] /\ top = 1 /\ Above = stack[2] /\ Separated(<< >>)
        /\ lineBuf' = << >> /\ token' = << >>
    BY HeldCue, SeparatedText DEF EndTextLine, IInv, TypeOK
  <1>2. Separated(above.text)
    BY <1>1, FrameTexts DEF TextsSeparated, Depth
  <1>3. CASE ~closed
    BY <1>1, <1>3 DEF EndTextLine, frames, TextsSeparated
  <1>4. CASE closed
    <2>1. PICK c : CloseCue(c, above)
      BY <1>4 DEF EndTextLine
    <2> HIDE DEF above
    <2>2. \/ stack' = [stack EXCEPT ![1] = InState(Vacate(stack[1]), "T_INITIAL"),
                                    ![2] = InState(stack[2], "T_INITIAL")]
          \/ stack' = [stack EXCEPT ![1] = WithCue(stack[1], NextCue(Top.cue)), ![2] = above]
          \/ stack' = [stack EXCEPT ![1] = WithCue(stack[1], 0), ![2] = above]
      BY <1>1, <2>1 DEF CloseCue, Depth
    <2>3. /\ stack'[0] = stack[0]
          /\ stack'[1].text \in {<< >>, stack[1].text} /\ stack'[2].text \in {above.text, stack[2].text}
      <3>1. /\ InState(Vacate(stack[1]), "T_INITIAL").text = << >>
            /\ InState(stack[2], "T_INITIAL").text = stack[2].text
            /\ WithCue(stack[1], NextCue(Top.cue)).text = stack[1].text
            /\ WithCue(stack[1], 0).text = stack[1].text
        <4>1. stack[1] \in Frame /\ stack[2] \in Frame
          BY <1>1 DEF Depth
        <4> QED BY <4>1, FrameTexts
      <3> QED BY <1>1, <2>2, <3>1 DEF Depth
    <2> QED BY <1>1, <1>2, <2>3 DEF TextsSeparated, Depth
  <1> QED BY <1>3, <1>4

\* What is in the line buffer without the mark.
LEMMA LineBufSeparated ==
  ASSUME IInv, TextsSeparated
  PROVE  Separated(LastLine) /\ LastLine \in Seq(Symbols) /\ Separated(Front(lineBuf))
  BY LineBufText, SeparatedText DEF LastLine, TextsSeparated, IInv, TypeOK

\* A turn of the loop that reads the text of a cue.
LEMMA TextTexts ==
  ASSUME IInv, Separated(doc), TextsSeparated, TextStep PROVE TextsSeparated'
  <1>1. /\ Live /\ Separated(<< >>) /\ More /\ lineBuf \in Seq(Symbols \cup {Mark})
        /\ \A s \in Symbols \cup {Mark} : s # "NOSEP" => Separated(Append(lineBuf, s))
    <2>1. InText
      BY DEF TextStep, TextRead, TextCarriageReturn, TextNewline, TextUnparsed, TextUnseparated,
        TextStarved, AtNewline
    <2> QED BY <2>1, SeparatedText DEF InText, Live, IInv, TypeOK, TextsSeparated
  <1>2. Mark # "NOSEP" /\ Sym # "NOSEP" /\ Sym \in Symbols /\ \A x : Separated(Spelled(x))
    BY <1>1, SeparatedSymbol, SymType DEF Mark
  <1>3. CASE TextRead
    BY <1>1, <1>2, <1>3 DEF TextRead, lexer, frames, TextsSeparated
  <1>4. CASE TextCarriageReturn
    BY <1>2, <1>4 DEF TextCarriageReturn, frames, TextsSeparated
  <1>5. CASE TextNewline \/ TextUnparsed
    <2> DEFINE l == Front(lineBuf)
    <2>1. AtNewline /\ \E closed \in BOOLEAN : EndTextLine(l, closed, strings)
      BY <1>5 DEF TextNewline, TextUnparsed, IsText
    <2>2. mode # "M_WEBVTT" /\ l \in Seq(Symbols) /\ Separated(l)
      BY <2>1, AtNewlineState, LineBufSeparated
    <2> HIDE DEF l
    <2> QED BY <1>1, <2>1, <2>2, EndTexts
  <1>6. CASE TextUnseparated
    BY <1>1, <1>6, LineBufSeparated DEF TextUnseparated, NoSeparator, frames, TextsSeparated
  <1>7. CASE \E d \in Dies : TextStarved(d)
    BY <1>1, <1>2, <1>7 DEF TextStarved, frames, TextsSeparated
  <1> QED BY <1>3, <1>4, <1>5, <1>6, <1>7 DEF TextStep

\* The end of the document.
LEMMA FinishTexts ==
  ASSUME IInv, TextsSeparated, FinishStep PROVE TextsSeparated'
  <1>1. /\ stack \in [Depth -> Frame] /\ Separated(<< >>) /\ lineBuf \in Seq(Symbols \cup {Mark})
        /\ Separated(Append(lineBuf, Mark))
    BY SeparatedText DEF IInv, TypeOK, TextsSeparated, Mark
  <1>2. CASE FinishAssert \/ FinishElse
    BY <1>2 DEF FinishAssert, FinishElse, lexer, frames, TextsSeparated
  <1>3. CASE FinishCueText
    <2>1. Live /\ mode # "M_WEBVTT" /\ EndTextLine(LastLine, TRUE, WithLineBuf)
      BY <1>3 DEF FinishCueText, FinishInText, Live
    <2> QED BY <2>1, LineBufSeparated, EndTexts
  <1>4. CASE FinishUnseparated
    BY <1>1, <1>4, LineBufSeparated DEF FinishUnseparated, NoSeparator, frames, TextsSeparated
  <1>5. CASE FinishCleanup
    BY <1>5, CleanupTexts DEF FinishCleanup, TextsSeparated
  <1>6. CASE \E d \in Dies : FinishTextStarved(d)
    BY <1>1, <1>6 DEF FinishTextStarved, lexer, frames, TextsSeparated
  <1>7. CASE \E d, e \in Dies : \E f \in Failing : FinishCueLine(d, e, f)
    <2>1. PICK d \in Dies, e \in Dies, fails \in Failing : FinishCueLine(d, e, fails)
      BY <1>7
    <2> DEFINE t == FinishTop
               f == InState(Vacate(stack[t + 1]), "T_INITIAL")
               r == ProcCueLine(cues[stack[t].cue], stack[t + 1], d, fails)
    <2>2. /\ stack' = AfterLine([stack EXCEPT ![t + 1] = InState(Vacate(@), "T_INITIAL")], t, r)
          /\ token' = token /\ lineBuf' = lineBuf /\ FinishInCue
      BY <2>1 DEF FinishCueLine
    <2>3. Live /\ t = 1
      BY <2>2, WhereTop DEF FinishInCue, FinishTop, Live
    <2> HIDE DEF t, r
    <2>4. f.text = << >> /\ t \in 0..1 /\ t + 1 \in Depth
      BY <1>1, <2>3, FrameTexts DEF Depth
    <2>5. stack' = AfterLine([stack EXCEPT ![t + 1] = f], t, r)
      BY <1>1, <2>2, <2>4
    <2> HIDE DEF f
    <2>6. \A i \in Depth : Separated(stack'[i].text)
      BY <2>4, <2>5, LineTexts
    <2> QED BY <2>2, <2>6 DEF TextsSeparated
  <1> QED BY <1>2, <1>3, <1>4, <1>5, <1>6, <1>7 DEF FinishStep

\* Any step.
LEMMA StepTexts ==
  IInv /\ [Next]_vars => (Separated(doc) /\ TextsSeparated => TextsSeparated')
  <1> SUFFICES ASSUME IInv, [Next]_vars, Separated(doc), TextsSeparated PROVE TextsSeparated'
    OBVIOUS
  <1>1. CASE Client
    <2>1. CASE Delete
      BY <2>1, CleanupTexts, SeparatedText DEF Delete, lexer, TextsSeparated
    <2>2. CASE Feed \/ FinishCall
      BY <2>2 DEF Feed, FinishCall, lexer, frames, TextsSeparated
    <2> QED BY <1>1, <2>1, <2>2 DEF Client
  <1>2. CASE ChunkDone \/ UNCHANGED vars
    BY <1>2 DEF ChunkDone, vars, lexer, frames, TextsSeparated
  <1>3. CASE ChunkStarved
    BY <1>3, CleanupTexts DEF ChunkStarved, TextsSeparated
  <1> QED BY <1>1, <1>2, <1>3, TurnTexts, TokenTexts, TextTexts, FinishTexts DEF Next, Parser, Gone

-----------------------------------------------------------------------------
(* Reading such a document when there is memory and the application lets   *)
(* every error pass.                                                       *)

Calm == Separated(doc) /\ ~MayFail
Underway == Live /\ call # "cleanup"

\* A cue on top has a line to look at,
LinePends ==
  (Underway /\ mode = "M_WEBVTT" /\ Top.state = "T_CUE") => LinePending /\ Above.type = "V_TEXT"

\* a token is for another frame,
TokenIsLexed == tk # "none" => call = "chunk" /\ Top.state \notin {"T_CUE", "T_CUEREAD"}

\* a line that is held is being read, or is looked at next,
LineIsRead ==
  (Live /\ stack[2].type = "V_TEXT") =>
    \/ top = 2 /\ Top.state = "T_CUEREAD"
    \/ top = 1 /\ Top.state = "T_CUE" /\ LinePending

\* no other string is allocated, and no call fails for want of memory or by assertion.
AllInUse == strings = StringsInUse
Unfailed == ret \in {"SUCCESS", "UNFINISHED", "PARSE_ERROR"}
            /\ status \in {"SUCCESS", "UNFINISHED", "PARSE_ERROR"}

Calmly == LinePends /\ TokenIsLexed /\ LineIsRead /\ AllInUse /\ Unfailed

\* No report is refused and no allocation fails.
LEMMA NothingRefused ==
  ASSUME Dies \subseteq {0}, ~MayFail, NEW d \in Dies
  PROVE  d = 0 /\ Failing = {FALSE} /\ \A codes : ~Report(codes, d).dead
  <1>1. d = 0 /\ Failing = {FALSE}
    BY DEF Failing
  <1>2. ASSUME NEW codes PROVE ~Report(codes, d).dead
    <2>1. 0 \notin 1..Len(codes)
      OBVIOUS
    <2> QED BY <1>1, <2>1 DEF Report
  <1> QED BY <1>1, <1>2

\* The frames of a calm parser: a cue on the stack is there.
LEMMA CalmTop ==
  ASSUME IInv, Calm, Live, Top.state \in {"T_CUE", "T_CUEREAD"}
  PROVE  /\ HoldsCue(1) /\ stack[1].state = "T_CUE" /\ stack[1].cue # 0
         /\ stack \in [0..2 -> Frame] /\ top \in {1, 2}
         /\ Top.state = "T_CUE" => top = 1
         /\ Top.state = "T_CUEREAD" => top = 2 /\ stack[2].type = "V_TEXT"
  BY WhereTop DEF LacksCue, Calm, HoldsCue, Top, Depth, IInv, TypeOK

\* What leaves frames, mode and strings alone keeps all this.
LEMMA CalmSame ==
  ASSUME Calmly, UNCHANGED <<frames, mode, lineBuf, strings>>, Live' => Live,
         Underway' => Underway, ret' \in {ret, "SUCCESS", "UNFINISHED", "PARSE_ERROR"},
         status' \in {status, "SUCCESS", "UNFINISHED", "PARSE_ERROR"},
         tk' # "none" => call' = "chunk" /\ Top.state \notin {"T_CUE", "T_CUEREAD"}
  PROVE  Calmly'
  <1>1. Unfailed'
    BY DEF Calmly, Unfailed
  <1>2. LinePends' /\ LineIsRead' /\ AllInUse'
    BY DEF Calmly, LinePends, LineIsRead, AllInUse, StringsInUse, LinePending, Top, Above, frames
  <1>3. TokenIsLexed'
    BY DEF TokenIsLexed, Top, frames
  <1> QED BY <1>1, <1>2, <1>3 DEF Calmly

\* A call that reads on, or returns with a parse error.
LEMMA CalmReturn ==
  ASSUME Calmly, call \in {"chunk", "finish"}, NEW s \in {"SUCCESS", "UNFINISHED", "PARSE_ERROR"},
         Return(s), UNCHANGED <<frames, mode, finished, lineBuf, strings>>
  PROVE  Calmly'
  BY CalmSame DEF Return, Live, Underway

\* Frames of no cue and no line are put on or taken off.
LEMMA CalmHeader ==
  ASSUME IInv, IInv', Calm, Calm', Calmly, call = "chunk",
         Top.state \in {"T_INITIAL", "T_TAG", "T_TAGCOMMENT", "T_EOL", "T_BODY"},
         UNCHANGED <<calling, cues, mode, lineBuf, strings>>, tk' \in {"none", tk},
         stack'[2].type # "V_TEXT" \/ stack'[2].type = stack[2].type
  PROVE  Calmly'
  <1>1. Live /\ Live' /\ mode = "M_WEBVTT" /\ \A k \in DOMAIN cues : cues[k].owner # "parser"
    <2>1. Live /\ Live'
      BY DEF Live, calling
    <2> QED BY <2>1, NoCueInHeader
  <1>2. stack[2].type # "V_TEXT" /\ stack'[2].type # "V_TEXT"
    BY <1>1 DEF Calmly, LineIsRead
  <1>3. Top.state' \notin {"T_CUE", "T_CUEREAD"}
    <2>1. ~HoldsCue(1)' /\ ~LacksCue(1)'
      BY <1>1 DEF HoldsCue, LacksCue, Calm
    <2>2. top' \in 0..2
      BY DEF IInv, TypeOK, Depth
    <2>3. BottomShape' /\ MiddleShape' /\ TopShape'
      BY <1>1 DEF IInv, StackShape
    <2>4. CASE top' = 0
      BY <2>3, <2>4 DEF BottomShape
    <2>5. CASE top' = 1
      BY <2>1, <2>3, <2>5 DEF MiddleShape
    <2>6. CASE top' = 2
      BY <2>1, <2>3, <2>6 DEF TopShape
    <2> QED BY <2>2, <2>4, <2>5, <2>6
  <1>4. LinePends' /\ LineIsRead' /\ TokenIsLexed'
    BY <1>1, <1>2, <1>3 DEF LinePends, LineIsRead, TokenIsLexed, calling
  <1>5. AllInUse' /\ Unfailed'
    BY <1>2 DEF Calmly, AllInUse, StringsInUse, Unfailed, calling
  <1> QED BY <1>4, <1>5 DEF Calmly

\* A token of the header or the body.
LEMMA CalmToken ==
  ASSUME IInv, IInv', Calm, Calm', Calmly, Dies \subseteq {0}, TokenStep PROVE Calmly'
  <1>1. /\ stack \in [0..2 -> Frame] /\ top \in 0..2 /\ call = "chunk" /\ Live
        /\ tk # "none" /\ Top.state \notin {"T_CUE", "T_CUEREAD"}
    <2>1. call = "chunk" /\ tk # "none"
      BY DEF TokenStep, InitialSignature, InitialReject, TagSpace, TagNewline, TagReject,
        CommentNewline, CommentSkip, EolCount, EolPop, CueAssert, BodyDead, BodyNewline, BodyCue,
        BodyStarved, On
    <2> QED BY <2>1 DEF Live, IInv, TypeOK, Depth, Calmly, TokenIsLexed
  <1>2. CASE InitialReject \/ TagReject
    BY <1>1, <1>2, CalmReturn DEF InitialReject, TagReject, Reject, heap
  <1>3. CASE CommentSkip
    BY <1>1, <1>3, CalmSame DEF CommentSkip, Quiet, calling, heap, Live, Underway
  <1>4. CASE CueAssert
    BY <1>1, <1>4 DEF CueAssert, On
  <1>5. CASE InitialSignature \/ TagSpace
    <2>1. /\ Top.state \in {"T_INITIAL", "T_TAG"} /\ UNCHANGED <<calling, cues, mode, lineBuf, strings>>
          /\ tk' = "none"
      BY <1>5 DEF InitialSignature, TagSpace, On, EndTurn, Quiet, heap
    <2>2. PICK s \in States : Push(s)
      BY <1>5 DEF InitialSignature, TagSpace, States
    <2>3. stack'[2] \in {NewFrame(s, "V_NONE", Top.back + 1), stack[2]}
      BY <1>1, <2>2 DEF Push
    <2>4. NewFrame(s, "V_NONE", Top.back + 1).type = "V_NONE"
      BY DEF NewFrame
    <2> QED BY <1>1, <2>1, <2>3, <2>4, CalmHeader
  <1>6. CASE TagNewline \/ CommentNewline
    <2>1. /\ Top.state \in {"T_TAG", "T_TAGCOMMENT"}
          /\ UNCHANGED <<calling, cues, mode, lineBuf, strings>> /\ tk' = "none"
      BY <1>6 DEF TagNewline, CommentNewline, On, EndTurn, Quiet, heap
    <2>2. top - Top.back = 0
      BY <1>1, <2>1, WhereTop
    <2>3. PICK state \in {"T_INITIAL", "T_BODY"} : PopBackAndCount(state)
      BY <1>6, <2>2 DEF TagNewline, CommentNewline, IInv, BottomFrame
    <2>4. stack'[2] = stack[2]
      BY <2>2, <2>3, CountFrames
    <2> QED BY <1>1, <2>1, <2>4, CalmHeader
  <1>7. CASE EolCount \/ EolPop
    <2>1. /\ Top.state = "T_EOL" /\ UNCHANGED <<calling, cues, mode, lineBuf, strings>>
          /\ tk' \in {"none", tk}
      BY <1>7 DEF EolCount, EolPop, On, EndTurn, Quiet, heap, lexer
    <2>2. top = 1 /\ top - Top.back = 0
      BY <1>1, <2>1, WhereTop
    <2>3. stack'[2] = stack[2]
      BY <1>1, <1>7, <2>2 DEF EolCount, EolPop
    <2> QED BY <1>1, <2>1, <2>3, CalmHeader
  <1>8. CASE \E d \in Dies : BodyDead(d) \/ BodyStarved(d)
    BY <1>8, NothingRefused DEF BodyDead, BodyStarved, Calm
  <1>9. CASE \E d \in Dies : BodyNewline(d)
    <2>1. /\ Top.state = "T_BODY" /\ UNCHANGED <<calling, cues, mode, lineBuf, strings>>
          /\ tk' = "none" /\ stack' = BodyStack
      BY <1>9 DEF BodyNewline, On, EndTurn, heap
    <2>2. stack'[2] = stack[2]
      BY <1>1, <2>1, BodyFrames
    <2> QED BY <1>1, <2>1, <2>2, CalmHeader
  <1>10. CASE \E d \in Dies : BodyCue(d)
    <2> DEFINE f == WithCue(NewFrame("T_CUE", "V_CUE", Top.back + 1), Len(cues) + 1)
               g == WithText(NewFrame("T_CUEREAD", "V_TEXT", Top.back + 2), token)
    <2>1. /\ Top.state = "T_BODY" /\ stack' = [BodyStack EXCEPT ![top + 1] = f, ![top + 2] = g]
          /\ tk' = "none" /\ strings' = strings + 1 /\ top' = top + 2
          /\ UNCHANGED <<calling, mode, lineBuf>>
      BY <1>10 DEF BodyCue, On, EndTurn
    <2>2. g.state = "T_CUEREAD" /\ g.type = "V_TEXT"
      BY DEF NewFrame, WithText
    <2>3. top = 0 /\ DOMAIN BodyStack = Depth
      BY <1>1, <2>1, BodyFrames
    <2> HIDE DEF f, g
    <2>4. top' = 2 /\ stack'[2] = g
      BY <2>1, <2>3 DEF Depth
    <2>5. stack[2].type # "V_TEXT"
      BY <1>1 DEF Calmly, LineIsRead
    <2>6. LinePends' /\ TokenIsLexed' /\ LineIsRead' /\ Unfailed'
      BY <2>1, <2>2, <2>4 DEF Calmly, LinePends, TokenIsLexed, LineIsRead, Unfailed, Top, calling
    <2>7. AllInUse'
      BY <2>1, <2>2, <2>4, <2>5 DEF Calmly, AllInUse, StringsInUse, IInv, TypeOK
    <2> QED BY <2>6, <2>7 DEF Calmly
  <1> QED BY <1>2, <1>3, <1>4, <1>5, <1>6, <1>7, <1>8, <1>9, <1>10 DEF TokenStep

\* The timings of a line have their separator if the line has.
LEMMA TimingsSeparated ==
  ASSUME NEW l \in Seq(Symbols), Separated(l) PROVE TimingKind(l) # "NOSEP"
  <1> DEFINE I == {i \in 1..Len(l) : l[i] # "SP"}
             i == FirstField(l)
  <1>1. i = IF I # {} THEN Min(I) ELSE 0
    BY DEF FirstField, SelectInSeq
  <1>2. I # {} => Min(I) \in I
    <2> HIDE DEF I
    <2> SUFFICES ASSUME I # {} PROVE Min(I) \in I
      OBVIOUS
    <2>1. \E n \in I : \A m \in I : n <= m
      <3>1. I \in SUBSET Nat
        BY DEF I
      <3> QED BY <3>1, Least
    <2> QED BY <2>1 DEF Min
  <1>3. i # 0 => i \in DOMAIN l
    BY <1>1, <1>2
  <1> HIDE DEF i
  <1>4. TimingKind(l) = IF i # 0 /\ l[i] \in TimingSymbols THEN l[i] ELSE "BAD"
    BY DEF TimingKind, i
  <1> QED BY <1>3, <1>4 DEF Separated

\* So a line of such a document leads to the text, past it, or to another line.
LEMMA CalmLine ==
  ASSUME Dies \subseteq {0}, ~MayFail, NEW d \in Dies, NEW fails \in Failing, NEW c \in Cue,
         NEW f \in Frame, f.type = "V_TEXT", Separated(f.text)
  PROVE  LET r == ProcCueLine(c, f, d, fails)
         IN  r.status = "SUCCESS" /\ r.released /\ (r.mode = "M_WEBVTT" => r.again)
  <1> DEFINE r == ProcCueLine(c, f, d, fails)
  <1>1. fails = FALSE /\ \A codes : ~Report(codes, d).dead
    BY NothingRefused
  <1>2. f.text \in Seq(Symbols)
    BY DEF Frame
  <1>3. CASE HasArrow(f.text)
    <2> DEFINE k == TimingKind(f.text)
               s == TimingStatus(k)
    <2>1. s \in {"SUCCESS", "BAD_CUE"}
      BY <1>2, TimingsSeparated DEF TimingStatus
    <2>2. r = TimingsLine(c, f.text, d)
      BY <1>3 DEF ProcCueLine
    <2>3. ~Report(TimingReports(k), d).dead
      BY <1>1
    <2>4. /\ r.mode = (CASE s = "SUCCESS" -> "M_CUETEXT"
                         [] s = "BAD_CUE" -> "M_SKIP_CUE"
                         [] OTHER         -> "M_WEBVTT")
          /\ r.status = (IF s = "PARSE_ERROR" THEN s ELSE "SUCCESS")
          /\ r.released = (s # "PARSE_ERROR")
      BY <2>2, <2>3 DEF TimingsLine
    <2> HIDE DEF s, k
    <2> QED BY <2>1, <2>4
  <1>4. CASE ~HasArrow(f.text) /\ c.haveId
    <2>1. r = SecondIdLine(c, d)
      BY <1>4 DEF ProcCueLine
    <2> QED BY <1>1, <2>1 DEF SecondIdLine
  <1>5. CASE ~HasArrow(f.text) /\ ~c.haveId
    <2>1. r = IdLine(c, f.text)
      BY <1>1, <1>5 DEF ProcCueLine
    <2> QED BY <2>1 DEF IdLine
  <1> QED BY <1>3, <1>4, <1>5

\* The stack after such a line, which stk no longer holds.
LEMMA LineStack ==
  ASSUME NEW stk \in [0..2 -> Frame], stk[2].type = "V_NONE", NEW r, r.again \in BOOLEAN,
         stack' = AfterLine(stk, 1, r)
  PROVE  /\ stack'[1] = stk[1]
         /\ r.again => stack'[2].type = "V_TEXT" /\ stack'[2].state = "T_CUEREAD"
         /\ ~r.again => stack'[2].type = "V_NONE"
  <1> DEFINE g == NewFrame("T_CUEREAD", "V_TEXT", stk[1].back + 1)
  <1>1. g.type = "V_TEXT" /\ g.state = "T_CUEREAD"
    BY DEF NewFrame
  <1>2. stack' = IF r.again THEN [stk EXCEPT ![2] = g] ELSE stk
    BY DEF AfterLine
  <1> HIDE DEF g
  <1>3. CASE r.again
    <2>1. stack' = [stk EXCEPT ![2] = g]
      BY <1>2, <1>3
    <2> QED BY <1>1, <1>3, <2>1
  <1>4. CASE ~r.again
    <2>1. stack' = stk
      BY <1>2, <1>4
    <2> QED BY <1>4, <2>1
  <1> QED BY <1>3, <1>4

\* and the strings.
LEMMA LineStrings ==
  ASSUME IInv, AllInUse, stack[2].type = "V_TEXT", NEW r, r.released, r.again \in BOOLEAN,
         strings' = StringsAfterLine(r, stack[2]), lineBuf' = lineBuf,
         r.again => stack'[2].type = "V_TEXT", ~r.again => stack'[2].type = "V_NONE"
  PROVE  AllInUse'
  <1> DEFINE b == IF lineBuf # << >> THEN 1 ELSE 0
  <1>1. strings = 1 + b /\ b \in {0, 1}
    BY DEF AllInUse, StringsInUse
  <1>2. strings' = (strings - 1) + (IF r.again THEN 1 ELSE 0)
    BY DEF StringsAfterLine
  <1>3. StringsInUse' = (IF stack'[2].type = "V_TEXT" THEN 1 ELSE 0) + b
    BY DEF StringsInUse
  <1> HIDE DEF b
  <1>4. CASE r.again
    BY <1>1, <1>2, <1>3, <1>4 DEF AllInUse
  <1>5. CASE ~r.again
    BY <1>1, <1>2, <1>3, <1>5 DEF AllInUse
  <1> QED BY <1>4, <1>5

\* A turn of the loop that reads the lines of a cue.
LEMMA CalmTurn ==
  ASSUME IInv, IInv', Calm, Calm', TextsSeparated, Calmly, Dies \subseteq {0}, TurnStep
  PROVE  Calmly'
  <1>1. /\ Turn /\ Live /\ Underway /\ mode = "M_WEBVTT" /\ tk = "none" /\ call = "chunk"
        /\ stack \in [0..2 -> Frame]
    <2>1. Turn
      BY DEF TurnStep, Lex, CueReadText, CueReadEol, CueReadNewline, CueMissing, CueReadStarved,
        CueLine
    <2> QED BY <2>1 DEF Turn, Live, Underway, IInv, TypeOK, Depth
  <1>2. CASE Lex
    <2>1. Top.state \notin {"T_CUE", "T_CUEREAD"}
      BY <1>1, <1>2 DEF Lex, Calmly, LinePends
    <2> QED BY <1>1, <1>2, <2>1, CalmSame DEF Lex, calling, heap, Live, Underway
  <1>3. CASE CueReadText \/ CueReadEol \/ CueReadNewline
    <2>1. /\ Top.state = "T_CUEREAD" /\ UNCHANGED <<calling, mode, lineBuf, strings>> /\ tk' = tk
      BY <1>3 DEF CueReadText, CueReadEol, CueReadNewline, Quiet, heap, lexer
    <2>2. top = 2 /\ Top = stack[2] /\ stack[2].type = "V_TEXT" /\ stack[1].state = "T_CUE"
      BY <1>1, <2>1, CalmTop DEF Top
    <2>3. /\ stack'[1] = stack[1] /\ stack'[2].state = "T_CUEREAD" /\ stack'[2].type = "V_TEXT"
      <3>1. /\ AtEol(stack[2]).state = stack[2].state /\ AtEol(stack[2]).type = stack[2].type
            /\ WithText(stack[2], Append(stack[2].text, Sym)).state = stack[2].state
            /\ WithText(stack[2], Append(stack[2].text, Sym)).type = stack[2].type
        BY <1>1 DEF AtEol, WithText, Frame
      <3> QED BY <1>1, <1>3, <2>1, <2>2, <3>1 DEF CueReadText, CueReadEol, CueReadNewline
    <2>4. top' = 2 \/ (top' = 1 /\ popped')
      BY <1>3, <2>2 DEF CueReadText, CueReadEol, CueReadNewline
    <2>5. LinePends' /\ LineIsRead' /\ TokenIsLexed'
      BY <1>1, <2>1, <2>2, <2>3, <2>4 DEF LinePends, LineIsRead, TokenIsLexed, LinePending, Top, Above
    <2>6. AllInUse' /\ Unfailed'
      BY <2>1, <2>2, <2>3 DEF Calmly, AllInUse, Unfailed, StringsInUse, calling
    <2> QED BY <2>5, <2>6 DEF Calmly
  <1>4. CASE CueMissing
    BY <1>1, <1>4, CalmTop DEF CueMissing, Top
  <1>5. CASE \E d \in Dies : CueReadStarved(d)
    BY <1>5 DEF CueReadStarved, Calm
  <1>6. CASE \E d \in Dies : \E f \in Failing : CueLine(d, f)
    <2>1. PICK d \in Dies, fails \in Failing : CueLine(d, fails)
      BY <1>6
    <2>2. /\ top = 1 /\ Top = stack[1] /\ Above = stack[2] /\ stack[2].type = "V_TEXT"
          /\ cues[Top.cue] \in Cue /\ stack[2] \in Frame /\ Top.state = "T_CUE"
      <3>1. Top.state = "T_CUE" /\ Above.type = "V_TEXT"
        BY <1>1, <2>1 DEF CueLine, Calmly, LinePends
      <3>2. top = 1 /\ HoldsCue(1)
        BY <1>1, <3>1, CalmTop
      <3>3. Top = stack[1] /\ Above = stack[2] /\ stack[2] \in Frame
        BY <1>1, <3>2 DEF Top, Above
      <3>4. cues \in Seq(Cue) /\ stack[1].cue \in DOMAIN cues
        BY <3>2 DEF HoldsCue, IInv, TypeOK
      <3>5. cues[stack[1].cue] \in Cue
        BY <3>4
      <3> QED BY <3>1, <3>2, <3>3, <3>5
    <2> DEFINE r == ProcCueLine(cues[Top.cue], Above, d, fails)
               stk == [stack EXCEPT ![2] = Vacate(@)]
    <2>3. LineResult(r, cues[Top.cue])
      <3>1. d \in Nat /\ fails \in BOOLEAN
        BY DiesAssumption DEF Failing
      <3> QED BY <2>2, <3>1, ProcCueLineType
    <2>4. r.status = "SUCCESS" /\ r.released /\ (r.mode = "M_WEBVTT" => r.again)
      <3>1. ~MayFail /\ Separated(Above.text)
        BY <2>2 DEF Calm, TextsSeparated, Depth
      <3> QED BY <2>2, <3>1, CalmLine
    <2>5. /\ strings' = StringsAfterLine(r, stack[2]) /\ top' = (IF r.again THEN 2 ELSE 1)
          /\ stack' = AfterLine(stk, 1, r)
          /\ mode' = r.mode /\ status' = r.status /\ UNCHANGED <<call, ret, tk, lineBuf>>
      BY <2>1, <2>2 DEF CueLine
    <2>6. stk \in [0..2 -> Frame] /\ stk[2].type = "V_NONE"
      BY <1>1, <2>2, VacateType
    <2> HIDE DEF r, stk
    <2>7. r.again \in BOOLEAN /\ (r.again => r.mode = "M_WEBVTT")
      BY <2>3 DEF LineResult
    <2>8. /\ r.again => stack'[2].type = "V_TEXT" /\ stack'[2].state = "T_CUEREAD"
          /\ ~r.again => stack'[2].type = "V_NONE"
      BY <2>5, <2>6, <2>7, LineStack
    <2>9. AllInUse' /\ Unfailed'
      BY <2>2, <2>4, <2>5, <2>7, <2>8, LineStrings DEF Calmly, Unfailed
    <2>10. LinePends' /\ LineIsRead' /\ TokenIsLexed'
      BY <1>1, <2>4, <2>5, <2>7, <2>8 DEF LinePends, LineIsRead, TokenIsLexed, Top
    <2> QED BY <2>9, <2>10 DEF Calmly
  <1> QED BY <1>2, <1>3, <1>4, <1>5, <1>6 DEF TurnStep

\* The end of a line of cue text.
LEMMA CalmEnds ==
  ASSUME IInv, IInv', AllInUse, Live, mode # "M_WEBVTT", NEW l \in Seq(Symbols),
         NEW closed \in BOOLEAN, ~closed => IsText(l), EndTextLine(l, closed, WithLineBuf)
  PROVE  LinePends' /\ LineIsRead' /\ AllInUse' /\ top' # 2
  <1> DEFINE above == WithText(NewFrame("T_CUEREAD", "V_TEXT", 0), l)
  <1>1. /\ stack \in [0..2 -> Frame] /\ top = 1 /\ Top = stack[1] /\ Above = stack[2]
        /\ stack[2].type = "V_NONE" /\ stack[1].state = "T_CUE" /\ stack[1] \in Frame
    BY HeldCue
  <1>2. WithLineBuf = 1
    BY <1>1 DEF AllInUse, StringsInUse, WithLineBuf
  <1>3. lineBuf' = << >> /\ strings' = IF HasArrow(l) THEN 1 ELSE 0
    BY <1>2 DEF EndTextLine
  <1>4. CASE ~closed
    <2>1. UNCHANGED <<mode, frames>> /\ strings' = 0
      BY <1>3, <1>4 DEF EndTextLine, IsText
    <2> QED BY <1>1, <1>3, <2>1 DEF LinePends, LineIsRead, AllInUse, StringsInUse, frames
  <1>5. CASE closed /\ HasArrow(l)
    <2>1. PICK c : CloseCue(c, above)
      BY <1>5 DEF EndTextLine
    <2>2. above.type = "V_TEXT" /\ above.state = "T_CUEREAD"
      BY DEF WithText, NewFrame
    <2> HIDE DEF above
    <2>3. /\ \/ stack' = [stack EXCEPT ![1] = WithCue(stack[1], NextCue(Top.cue)), ![2] = above]
             \/ stack' = [stack EXCEPT ![1] = WithCue(stack[1], 0), ![2] = above]
          /\ top' = 1 /\ popped' = TRUE
      BY <1>1, <2>1, <2>2 DEF CloseCue
    <2>4. \A k : WithCue(stack[1], k).state = "T_CUE"
      BY <1>1 DEF WithCue, Frame
    <2>5. stack'[1].state = "T_CUE" /\ stack'[2] = above
      BY <1>1, <2>3, <2>4
    <2> QED BY <1>3, <1>5, <2>2, <2>3, <2>5 DEF LinePends, LineIsRead, AllInUse, StringsInUse,
      LinePending, Top, Above
  <1>6. CASE closed /\ ~HasArrow(l)
    <2>1. PICK c : CloseCue(c, Above)
      BY <1>6 DEF EndTextLine
    <2>2. stack' = [stack EXCEPT ![1] = InState(Vacate(@), "T_INITIAL"),
                                 ![2] = InState(@, "T_INITIAL")] /\ top' = 0
      BY <1>1, <2>1 DEF CloseCue
    <2>3. InState(stack[2], "T_INITIAL").type = "V_NONE"
      BY <1>1 DEF InState, Frame
    <2>4. stack'[2].type = "V_NONE" /\ Top.state' # "T_CUE"
      BY <1>1, <2>2, <2>3 DEF IInv, BottomFrame, Top
    <2> QED BY <1>3, <1>6, <2>2, <2>4 DEF LinePends, LineIsRead, AllInUse, StringsInUse
  <1> QED BY <1>4, <1>5, <1>6

\* A turn of the loop that reads the text of a cue.
LEMMA CalmText ==
  ASSUME IInv, IInv', Calm, Calmly, TextStep PROVE Calmly'
  <1>1. /\ Live /\ call = "chunk" /\ mode # "M_WEBVTT" /\ InText
    <2>1. InText
      BY DEF TextStep, TextRead, TextCarriageReturn, TextNewline, TextUnparsed, TextUnseparated,
        TextStarved, AtNewline
    <2> QED BY <2>1 DEF InText, Live
  <1>2. tk = "none" /\ Top.state = "T_CUE" /\ stack[2].type = "V_NONE"
    BY <1>1, HeldCue DEF Calmly, TokenIsLexed
  <1>3. CASE TextRead
    <2>1. /\ lineBuf' # << >> /\ strings' = WithLineBuf /\ status' = "UNFINISHED"
          /\ UNCHANGED <<call, ret, tk, frames, mode, finished>>
      <3>1. lineBuf \in Seq(Symbols \cup {Mark}) /\ Sym \in Symbols
        BY <1>1, SymType DEF InText, IInv, TypeOK
      <3>2. PICK s \in Symbols \cup {Mark} : lineBuf' = Append(lineBuf, s)
        BY <1>3, <3>1 DEF TextRead
      <3>3. lineBuf' # << >>
        BY <3>1, <3>2
      <3> QED BY <1>3, <3>3 DEF TextRead, lexer
    <2>2. LinePends' /\ LineIsRead' /\ TokenIsLexed' /\ Unfailed'
      BY <1>1, <1>2, <2>1 DEF LinePends, LineIsRead, TokenIsLexed, Calmly, Unfailed, frames
    <2>3. AllInUse'
      BY SMTT(20), <1>2, <2>1 DEF Calmly, AllInUse, StringsInUse, WithLineBuf, frames, IInv, TypeOK
    <2> QED BY <2>2, <2>3 DEF Calmly
  <1>4. CASE TextCarriageReturn
    BY <1>1, <1>2, <1>4, CalmSame DEF TextCarriageReturn, heap, Live, Underway
  <1>5. CASE TextNewline
    <2> DEFINE l == Front(lineBuf)
    <2>1. AtNewline /\ EndTextLine(l, ~IsText(l), strings) /\ lineBuf # << >>
      BY <1>5 DEF TextNewline, AtNewline, Marked
    <2>2. l \in Seq(Symbols) /\ strings = WithLineBuf
      BY <2>1, AtNewlineState DEF WithLineBuf
    <2>3. /\ status' \in {"UNFINISHED", "SUCCESS"} /\ UNCHANGED <<call, ret, tk>>
      BY <1>5 DEF TextNewline
    <2> HIDE DEF l
    <2>4. IsText(l) \in BOOLEAN
      BY DEF IsText
    <2>5. LinePends' /\ LineIsRead' /\ AllInUse'
      BY <1>1, <2>1, <2>2, <2>4, CalmEnds DEF Calmly
    <2> QED BY <1>2, <2>3, <2>5 DEF Calmly, TokenIsLexed, Unfailed
  <1>6. CASE TextUnparsed \/ TextUnseparated \/ \E d \in Dies : TextStarved(d)
    BY <1>6 DEF TextUnparsed, TextUnseparated, TextStarved, NoSeparator, Calm
  <1> QED BY <1>3, <1>4, <1>5, <1>6 DEF TextStep

\* What cleaning the stack up releases.
LEMMA CleanedExactly ==
  ASSUME IInv, CleanupStack
  PROVE  /\ strings' = strings - ((IF top = 2 /\ stack[2].type = "V_TEXT" THEN 1 ELSE 0)
                                  + (IF call = "idle" /\ lineBuf # << >> THEN 1 ELSE 0))
         /\ stack'[2].type = IF top = 2 THEN "V_NONE" ELSE stack[2].type
  <1>1. stack \in [0..2 -> Frame] /\ top \in 0..2
    BY DEF IInv, TypeOK, Depth
  <1>2. stack'[2].type = IF top = 2 THEN "V_NONE" ELSE stack[2].type
    <2>1. Vacate(stack[2]).type = "V_NONE"
      BY <1>1, VacateType
    <2> QED BY <1>1, <2>1 DEF CleanupStack, Depth
  <1>3. Cardinality(Held("V_TEXT")) = IF top = 2 /\ stack[2].type = "V_TEXT" THEN 1 ELSE 0
    <2>1. Held("V_TEXT") = IF top = 2 /\ stack[2].type = "V_TEXT" THEN {2} ELSE {}
      BY <1>1 DEF Held, IInv, LineFrames, Depth
    <2> QED BY <2>1, FS_Singleton, FS_EmptySet
  <1> QED BY <1>2, <1>3 DEF CleanupStack

\* So what is still allocated is in use, whether the line buffer goes with the parser or stays.
LEMMA CalmCleanup ==
  ASSUME IInv, AllInUse, CleanupStack, lineBuf' = IF call = "idle" THEN << >> ELSE lineBuf
  PROVE  AllInUse'
  <1> DEFINE b == IF lineBuf # << >> THEN 1 ELSE 0
             n == IF stack[2].type = "V_TEXT" THEN 1 ELSE 0
             freed == IF top = 2 /\ stack[2].type = "V_TEXT" THEN 1 ELSE 0
             buffer == IF call = "idle" /\ lineBuf # << >> THEN 1 ELSE 0
  <1>1. strings = n + b /\ b \in {0, 1} /\ n \in {0, 1}
    BY DEF AllInUse, StringsInUse
  <1>2. strings' = strings - (freed + buffer)
    BY CleanedExactly
  <1>3. (IF lineBuf' # << >> THEN 1 ELSE 0) = b - buffer
    OBVIOUS
  <1>4. (IF stack'[2].type = "V_TEXT" THEN 1 ELSE 0) = n - freed
    BY CleanedExactly
  <1>5. StringsInUse' = (n - freed) + (b - buffer)
    BY <1>3, <1>4 DEF StringsInUse
  <1>6. freed \in {0, 1} /\ buffer \in {0, 1}
    OBVIOUS
  <1> HIDE DEF b, n, freed, buffer
  <1> QED BY <1>1, <1>2, <1>5, <1>6 DEF AllInUse

\* The end of the document.
LEMMA CalmFinish ==
  ASSUME IInv, IInv', Calm, TextsSeparated, Calmly, Dies \subseteq {0}, FinishStep
  PROVE  Calmly'
  <1>1. /\ call \in {"finish", "cleanup"} /\ finished /\ Live /\ tk = "none"
        /\ stack \in [0..2 -> Frame]
    <2>1. call \in {"finish", "cleanup"}
      BY ZenonT(30) DEF FinishStep, FinishAssert, FinishCueText, FinishUnseparated, FinishElse, FinishCleanup,
        FinishTextStarved, FinishCueLine, FinishInCue, FinishInText
    <2> QED BY <2>1 DEF Live, IInv, TypeOK, Finishing, Calmly, TokenIsLexed, Depth
  <1>2. FinishInCue => FinishHasLine /\ FinishTop = 1 /\ HoldsCue(1) /\ stack[1].cue # 0
                       /\ stack[2].type = "V_TEXT"
    <2> SUFFICES ASSUME FinishInCue PROVE FinishHasLine /\ FinishTop = 1 /\ HoldsCue(1)
                       /\ stack[1].cue # 0 /\ stack[2].type = "V_TEXT"
      OBVIOUS
    <2>1. /\ Underway /\ mode = "M_WEBVTT" /\ Top.state \in {"T_CUE", "T_CUEREAD"}
      BY <1>1 DEF FinishInCue, Underway
    <2>2. CASE Top.state = "T_CUE"
      BY <1>1, <2>1, <2>2, CalmTop DEF FinishHasLine, FinishTop, Calmly, LinePends, Above
    <2>3. CASE Top.state = "T_CUEREAD"
      BY <1>1, <2>1, <2>3, CalmTop DEF FinishHasLine, FinishTop
    <2> QED BY <2>1, <2>2, <2>3
  <1>3. CASE FinishAssert
    BY <1>2, <1>3 DEF FinishAssert
  <1>4. CASE FinishElse
    BY <1>1, <1>4, CalmSame DEF FinishElse, heap, lexer, Live, Underway
  <1>5. CASE FinishUnseparated \/ \E d \in Dies : FinishTextStarved(d)
    BY <1>5 DEF FinishUnseparated, FinishTextStarved, NoSeparator, Calm
  <1>6. CASE FinishCueText
    <2>1. /\ EndTextLine(LastLine, TRUE, WithLineBuf) /\ mode # "M_WEBVTT" /\ status' = "SUCCESS"
          /\ UNCHANGED <<ret, tk>>
      BY <1>6 DEF FinishCueText, FinishInText, Calm
    <2>2. LastLine \in Seq(Symbols)
      BY LineBufText DEF LastLine
    <2>3. LinePends' /\ LineIsRead' /\ AllInUse'
      BY <1>1, <2>1, <2>2, CalmEnds DEF Calmly
    <2> QED BY <1>1, <2>1, <2>3 DEF Calmly, TokenIsLexed, Unfailed
  <1>7. CASE FinishCleanup
    <2>1. /\ CleanupStack /\ call = "cleanup" /\ call' = "idle" /\ finished' = finished
          /\ ret' = status /\ status' = status /\ tk' = "none" /\ lineBuf' = lineBuf
      BY <1>7 DEF FinishCleanup, Return
    <2>2. ~Live'
      BY <1>1, <2>1 DEF Live
    <2>3. AllInUse'
      BY <2>1, CalmCleanup DEF Calmly
    <2> QED BY <2>1, <2>2, <2>3 DEF Calmly, LinePends, Underway, TokenIsLexed, LineIsRead, Unfailed
  <1>8. CASE \E d, e \in Dies : \E f \in Failing : FinishCueLine(d, e, f)
    <2>1. PICK d \in Dies, e \in Dies, fails \in Failing : FinishCueLine(d, e, fails)
      BY <1>8
    <2> DEFINE t == FinishTop
               r == ProcCueLine(cues[stack[t].cue], stack[t + 1], d, fails)
               bare == Report(IF r.cue.haveId /\ r.cue.time = "none"
                              THEN <<"CUE_INCOMPLETE">> ELSE << >>, e)
               f == InState(Vacate(stack[t + 1]), "T_INITIAL")
               stk == [stack EXCEPT ![t + 1] = f]
    <2>2. /\ strings' = StringsAfterLine(r, stack[t + 1])
          /\ top' = (IF r.again THEN t + 1 ELSE t)
          /\ stack' = AfterLine(stk, t, r)
          /\ mode' = r.mode /\ lineBuf' = lineBuf /\ FinishInCue
      BY <2>1 DEF FinishCueLine
    <2>3. ~bare.dead => /\ call' = (IF r.mode = "M_CUETEXT" THEN "finish" ELSE "cleanup")
                        /\ status' = r.status /\ ret' = ret /\ tk' = tk
      BY <2>1 DEF FinishCueLine
    <2>4. ~bare.dead
      <3>1. ~MayFail
        BY DEF Calm
      <3> QED BY <3>1, NothingRefused
    <2>5. t = 1 /\ HoldsCue(1) /\ stack[2].type = "V_TEXT" /\ stack[2] \in Frame
      BY <1>1, <1>2, <2>2
    <2> HIDE DEF t
    <2>6. cues[stack[t].cue] \in Cue /\ d \in Nat /\ fails \in BOOLEAN
      <3>1. cues \in Seq(Cue) /\ stack[1].cue \in DOMAIN cues
        BY <2>5 DEF HoldsCue, IInv, TypeOK
      <3>2. cues[stack[1].cue] \in Cue
        BY <3>1
      <3> QED BY <2>5, <3>2, DiesAssumption DEF Failing
    <2>7. LineResult(r, cues[stack[t].cue])
      BY <2>5, <2>6, ProcCueLineType
    <2>8. r.status = "SUCCESS" /\ r.released /\ (r.mode = "M_WEBVTT" => r.again)
      <3>1. ~MayFail /\ Separated(stack[2].text)
        BY DEF Calm, TextsSeparated, Depth
      <3> QED BY <2>5, <2>6, <3>1, CalmLine
    <2>9. stk \in [0..2 -> Frame] /\ stk[2].type = "V_NONE"
      <3>1. f \in Frame /\ f.type = "V_NONE"
        BY <2>5, VacateType, InStateType DEF States
      <3> HIDE DEF f
      <3> QED BY <1>1, <2>5, <3>1
    <2> HIDE DEF r, bare, f, stk
    <2>10. r.again \in BOOLEAN /\ (r.again => r.mode = "M_WEBVTT")
      BY <2>7 DEF LineResult
    <2>11. /\ r.again => stack'[2].type = "V_TEXT" /\ stack'[2].state = "T_CUEREAD"
           /\ ~r.again => stack'[2].type = "V_NONE"
      BY <2>2, <2>5, <2>9, <2>10, LineStack
    <2>12. AllInUse' /\ Unfailed'
      <3>1. strings' = StringsAfterLine(r, stack[2])
        BY <2>2, <2>5
      <3> QED BY <2>2, <2>3, <2>4, <2>5, <2>8, <2>10, <2>11, <3>1, LineStrings
        DEF Calmly, Unfailed
    <2>13. LinePends' /\ LineIsRead' /\ TokenIsLexed'
      BY <1>1, <2>2, <2>3, <2>4, <2>5, <2>8, <2>10, <2>11 DEF LinePends, LineIsRead, TokenIsLexed,
        Top, Underway
    <2> QED BY <2>12, <2>13 DEF Calmly
  <1> QED BY <1>3, <1>4, <1>5, <1>6, <1>7, <1>8 DEF FinishStep

\* Any step.
LEMMA StepCalm ==
  ASSUME Dies \subseteq {0}
  PROVE  IInv /\ [Next]_vars => ((Calm => TextsSeparated /\ Calmly)
                                   => (Calm => TextsSeparated /\ Calmly)')
  <1> SUFFICES ASSUME IInv, [Next]_vars, Calm', Calm => TextsSeparated /\ Calmly
               PROVE  TextsSeparated' /\ Calmly'
    OBVIOUS
  <1>1. IInv' /\ Calm /\ doc' = doc
    BY StepInvariant, DocumentStays DEF Calm, MayFail
  <1>2. TextsSeparated'
    BY <1>1, StepTexts DEF Calm
  <1>3. Calmly
    BY <1>1
  <1>4. CASE Client
    <2>1. CASE Feed \/ FinishCall
      <3>1. tk = "none"
        BY <1>3, <2>1 DEF Feed, FinishCall, Calmly, TokenIsLexed
      <3> QED BY <1>2, <1>3, <2>1, <3>1, CalmSame DEF Feed, FinishCall, lexer, heap, Live, Underway
    <2>2. CASE Delete
      <3>1. /\ call = "idle" /\ CleanupStack /\ call' = "deleted" /\ lineBuf' = << >>
            /\ UNCHANGED <<ret, status, tk>>
        BY <2>2 DEF Delete, lexer
      <3>2. ~Live'
        BY <3>1 DEF Live
      <3>3. AllInUse'
        BY <1>3, <3>1, CalmCleanup DEF Calmly
      <3> QED BY <1>2, <1>3, <3>1, <3>2, <3>3 DEF Calmly, LinePends, Underway, TokenIsLexed,
        LineIsRead, Unfailed
    <2> QED BY <1>4, <2>1, <2>2 DEF Client
  <1>5. CASE ChunkDone
    <2>1. PICK s \in {"SUCCESS", "UNFINISHED", "PARSE_ERROR"} : Return(s)
      BY <1>3, <1>5 DEF ChunkDone, Calmly, Unfailed
    <2> QED BY <1>2, <1>3, <1>5, <2>1, CalmReturn DEF ChunkDone, heap
  <1>6. CASE ChunkStarved
    BY <1>3, <1>6 DEF ChunkStarved, Starved, Calmly, Unfailed
  <1>7. CASE UNCHANGED vars
    <2>1. UNCHANGED <<call, ret, status, tk, frames, mode, finished, lineBuf, strings>>
      BY <1>7 DEF vars, calling, heap, lexer
    <2> QED BY <1>2, <1>3, <2>1, CalmSame DEF Live, Underway, Calmly, TokenIsLexed
  <1> QED BY <1>1, <1>2, <1>3, <1>4, <1>5, <1>6, <1>7, CalmToken, CalmTurn, CalmText, CalmFinish
    DEF Next, Parser, Gone

\* It starts with nothing read.
LEMMA InitCalm == Init => TextsSeparated /\ Calmly
  <1> SUFFICES ASSUME Init PROVE TextsSeparated /\ Calmly
    OBVIOUS
  <1>1. /\ EmptyFrame.text = << >> /\ EmptyFrame.type = "V_NONE" /\ EmptyFrame.state = "T_INITIAL"
        /\ \A i \in 0..2 : stack[i] = EmptyFrame
    BY DEF EmptyFrame, NewFrame, Init, Depth
  <1> QED BY <1>1, SeparatedText DEF Init, TextsSeparated, Calmly, LinePends, TokenIsLexed,
    LineIsRead, AllInUse, StringsInUse, Unfailed, Top, Depth

\* When the application lets every error pass and there is memory, no SAFE_ASSERT of
\* parse_webvtt or webvtt_finish_parsing fails on a document whose times have their
\* separators, however it is cut into chunks.
THEOREM AssertionsNeverFail ==
  ASSUME Dies \subseteq {0} PROVE Spec => [](doc \notin Scarce => AssertionsHold)
  <1>1. Spec => [](Calm => TextsSeparated /\ Calmly)
    BY InitCalm, StepCalm, Invariant, PTL DEF Spec
  <1>2. (Calm => TextsSeparated /\ Calmly) => (doc \notin Scarce => AssertionsHold)
    BY DEF Calm, MayFail, Calmly, Unfailed, AssertionsHold
  <1> QED BY <1>1, <1>2, PTL

-----------------------------------------------------------------------------
(* The strings while there is memory, whatever the document and the reports *)
(* that the application refuses.                                            *)

\* A line to look at is there, and a line that is held is being read or looked at.
LineIsThere ==
  (Underway /\ mode = "M_WEBVTT" /\ Top.state = "T_CUE" /\ LinePending) => Above.type = "V_TEXT"
FramesKept == /\ LineIsThere /\ LineIsRead
              /\ top = 2 => ~popped
              /\ status # "OUT_OF_MEMORY"

\* The parser failed on a line of timings, which nobody holds any more: it stays at the
\* cue and has nothing to look at.
AtCue == mode = "M_WEBVTT" /\ top = 1 /\ Top.state = "T_CUE" /\ ~LinePending
Failures == {"PARSE_ERROR", "FAILED_ASSERTION"}
Stuck ==
  \/ call = "chunk" /\ status = "PARSE_ERROR" /\ AtCue
  \/ call \in {"idle", "finish"} /\ ret \in Failures /\ AtCue
  \/ call = "cleanup" /\ status = "PARSE_ERROR"
  \/ (call = "deleted" \/ (call = "idle" /\ finished)) /\ ret \in Failures

ReportsTimings(e) == e[1] \in {"EXPECTED_TIMESTAMP", "EXPECTED_WHITESPACE"}
Refusal == ~Separated(doc) \/ \E i \in DOMAIN errors : ReportsTimings(errors[i])

OneMore == strings = StringsInUse + 1 /\ stack[2].type # "V_TEXT"
LineLost == OneMore /\ Stuck /\ Refusal

Accounted == FramesKept /\ (AllInUse \/ LineLost)

\* What leaves frames and mode alone keeps the frames,
LEMMA FramesStay ==
  ASSUME FramesKept, UNCHANGED <<frames, mode>>, Live' => Live, Underway' => Underway,
         status' # "OUT_OF_MEMORY"
  PROVE  FramesKept'
  BY DEF FramesKept, LineIsThere, LineIsRead, LinePending, Top, Above, frames

\* and with the strings their account.
LEMMA AccountStays ==
  ASSUME Accounted, UNCHANGED <<frames, mode, lineBuf, strings, doc, errors>>,
         Live' => Live, Underway' => Underway, status' # "OUT_OF_MEMORY",
         Stuck => Stuck'
  PROVE  Accounted'
  <1>1. FramesKept'
    BY FramesStay DEF Accounted
  <1>2. AllInUse => AllInUse'
    BY DEF AllInUse, StringsInUse, frames
  <1>3. LineLost => LineLost'
    BY DEF LineLost, OneMore, StringsInUse, Refusal, frames
  <1> QED BY <1>1, <1>2, <1>3 DEF Accounted

\* A cue is on the stack when there is memory.
LEMMA CueIsThere ==
  ASSUME IInv, ~MayFail, Live, Top.state \in {"T_CUE", "T_CUEREAD"}
  PROVE  /\ HoldsCue(1) /\ stack[1].state = "T_CUE" /\ stack[1].cue # 0
         /\ stack \in [0..2 -> Frame] /\ top \in {1, 2} /\ cues[stack[1].cue] \in Cue
         /\ Top.state = "T_CUE" => top = 1
         /\ Top.state = "T_CUEREAD" => top = 2 /\ stack[2].type = "V_TEXT"
  <1>1. /\ HoldsCue(1) /\ stack[1].state = "T_CUE"
        /\ stack \in [0..2 -> Frame] /\ top \in {1, 2}
        /\ Top.state = "T_CUE" => top = 1
        /\ Top.state = "T_CUEREAD" => top = 2 /\ stack[2].type = "V_TEXT"
    BY WhereTop DEF LacksCue, Top, Depth
  <1>2. cues \in Seq(Cue) /\ stack[1].cue \in DOMAIN cues
    BY <1>1 DEF HoldsCue, IInv, TypeOK
  <1>3. cues[stack[1].cue] \in Cue /\ stack[1].cue # 0
    BY <1>2
  <1> QED BY <1>1, <1>3

\* A call of the parser that has no line to look at reads none.
LEMMA StuckStays ==
  ASSUME IInv, ~MayFail, FramesKept, LineLost, Client \/ Parser PROVE Accounted'
  <1>1. Accounted /\ doc' = doc
    BY DocumentStays DEF Accounted, Next
  <1>2. CASE Feed
    BY <1>2, ResumeAssumption DEF Feed, LineLost, Stuck, Failures
  <1>3. CASE FinishCall
    <2>1. /\ UNCHANGED <<frames, mode, lineBuf, strings, doc, errors, ret>>
          /\ call = "idle" /\ ~finished /\ call' = "finish" /\ status' = "SUCCESS"
      BY <1>3 DEF FinishCall, input, heap, outcome
    <2>2. Stuck'
      BY <2>1 DEF LineLost, Stuck, AtCue, LinePending, Top, Above, frames
    <2> QED BY <1>1, <2>1, <2>2, AccountStays DEF Live, Underway
  <1>4. CASE Delete
    <2>1. /\ CleanupStack /\ call = "idle" /\ call' = "deleted" /\ lineBuf' = << >>
          /\ UNCHANGED <<ret, status, errors>>
      BY <1>4 DEF Delete, outcome
    <2>2. Stuck'
      BY <2>1 DEF LineLost, Stuck
    <2>3. strings' = StringsInUse' + 1 /\ stack'[2].type # "V_TEXT"
      <3> DEFINE b == IF lineBuf # << >> THEN 1 ELSE 0
      <3>1. strings' = strings - (0 + b) /\ stack'[2].type # "V_TEXT"
        BY <2>1, CleanedExactly DEF LineLost, OneMore
      <3>2. strings = b + 1 /\ b \in {0, 1}
        BY DEF LineLost, OneMore, StringsInUse
      <3>3. StringsInUse' = 0
        BY <2>1, <3>1 DEF StringsInUse
      <3> HIDE DEF b
      <3> QED BY <3>1, <3>2, <3>3
    <2>4. FramesKept'
      <3>1. ~Live' /\ top' = 0
        BY <2>1 DEF Live, CleanupStack
      <3> QED BY <2>1, <3>1 DEF FramesKept, LineIsThere, LineIsRead, Underway
    <2> QED BY <1>1, <2>1, <2>2, <2>3, <2>4 DEF Accounted, LineLost, OneMore, Refusal
  <1>5. ASSUME call = "chunk", Parser PROVE Accounted'
    <2>1. status = "PARSE_ERROR" /\ mode = "M_WEBVTT" /\ top = 1 /\ Top.state = "T_CUE" /\ ~LinePending
      BY <1>5 DEF LineLost, Stuck, AtCue
    <2>2. CASE ChunkDone
      <3>1. /\ UNCHANGED <<frames, mode, lineBuf, strings, doc, errors, status, finished>>
            /\ call' = "idle" /\ ret' = "PARSE_ERROR"
        BY <2>1, <2>2 DEF ChunkDone, Return, heap, outcome
      <3>2. Stuck'
        BY <2>1, <3>1 DEF Stuck, AtCue, Failures, LinePending, Top, Above, frames
      <3> QED BY <1>1, <1>5, <2>1, <3>1, <3>2, AccountStays DEF Live, Underway
    <2>3. CASE Lex
      <3>1. UNCHANGED <<frames, mode, lineBuf, strings, doc, errors, status, finished, call, ret>>
        BY <2>3 DEF Lex, heap, outcome, calling
      <3>2. Stuck'
        BY <1>5, <2>1, <3>1 DEF Stuck, AtCue, LinePending, Top, Above, frames
      <3> QED BY <1>1, <2>1, <3>1, <3>2, AccountStays DEF Live, Underway
    <2>4. CASE CueAssert
      <3>1. /\ UNCHANGED <<frames, mode, lineBuf, strings, doc, errors, status, finished>>
            /\ call' = "idle" /\ ret' = "FAILED_ASSERTION"
        BY <2>4 DEF CueAssert, Return, heap, outcome
      <3>2. Stuck'
        BY <2>1, <3>1 DEF Stuck, AtCue, Failures, LinePending, Top, Above, frames
      <3> QED BY <1>1, <1>5, <2>1, <3>1, <3>2, AccountStays DEF Live, Underway
    <2>5. ASSUME ChunkStarved PROVE FALSE
      BY <2>1, <2>5 DEF ChunkStarved, Starved
    <2>6. ASSUME TurnStep, ~Lex PROVE FALSE
      BY <2>1, <2>6 DEF TurnStep, CueReadText, CueReadEol, CueReadNewline, CueMissing,
        CueReadStarved, CueLine
    <2>7. ASSUME TokenStep, ~CueAssert PROVE FALSE
      BY <2>1, <2>7 DEF TokenStep, InitialSignature, InitialReject, TagSpace, TagNewline, TagReject,
        CommentNewline, CommentSkip, EolCount, EolPop, BodyDead, BodyNewline, BodyCue, BodyStarved, On
    <2>8. ASSUME TextStep PROVE FALSE
      BY <2>1, <2>8 DEF TextStep, TextRead, TextCarriageReturn, TextNewline, TextUnparsed,
        TextUnseparated, TextStarved, AtNewline, InText
    <2>9. ASSUME FinishStep PROVE FALSE
      BY ZenonT(30), <1>5, <2>9 DEF FinishStep, FinishAssert, FinishCueText, FinishUnseparated, FinishElse,
        FinishCleanup, FinishTextStarved, FinishCueLine, FinishInCue, FinishInText
    <2> QED BY <1>5, <2>2, <2>3, <2>4, <2>5, <2>6, <2>7, <2>8, <2>9 DEF Parser
  <1>6. ASSUME call # "chunk", Parser PROVE Accounted'
    <2>1. FinishStep
      BY <1>6 DEF Parser, ChunkDone, ChunkStarved, TurnStep, TokenStep, TextStep, Lex, CueReadText, CueReadEol,
        CueReadNewline, CueMissing, CueReadStarved, CueLine, Turn, InitialSignature, InitialReject,
        TagSpace, TagNewline, TagReject, CommentNewline, CommentSkip, EolCount, EolPop, CueAssert,
        BodyDead, BodyNewline, BodyCue, BodyStarved, On, TextRead, TextCarriageReturn, TextNewline,
        TextUnparsed, TextUnseparated, TextStarved, AtNewline, InText
    <2>2. call \in {"finish", "cleanup"} /\ finished
      <3>1. call \in {"finish", "cleanup"}
        BY ZenonT(30), <2>1 DEF FinishStep, FinishAssert, FinishCueText, FinishUnseparated, FinishElse,
          FinishCleanup, FinishTextStarved, FinishCueLine, FinishInCue, FinishInText
      <3> QED BY <3>1 DEF IInv, Finishing
    <2>3. call = "finish" => ret \in Failures /\ AtCue
      BY DEF LineLost, Stuck
    <2>4. CASE FinishAssert
      <3>1. /\ UNCHANGED <<frames, mode, lineBuf, strings, doc, errors, status, finished>>
            /\ call' = "idle" /\ ret' = "FAILED_ASSERTION" /\ call = "finish"
        BY <2>4 DEF FinishAssert, FinishInCue, Return, heap, outcome
      <3>2. Stuck'
        BY <2>2, <3>1 DEF Stuck, Failures
      <3>3. status' # "OUT_OF_MEMORY" /\ ~Live'
        BY <2>2, <3>1 DEF FramesKept, Live
      <3> QED BY <1>1, <3>1, <3>2, <3>3, AccountStays DEF Underway
    <2>5. CASE FinishCleanup
      <3>1. /\ CleanupStack /\ call = "cleanup" /\ call' = "idle" /\ finished' = finished
            /\ ret' = status /\ status' = status /\ lineBuf' = lineBuf /\ errors' = errors
            /\ status = "PARSE_ERROR"
        BY <2>5 DEF FinishCleanup, Return, outcome, LineLost, Stuck
      <3>2. Stuck'
        BY <2>2, <3>1 DEF Stuck, Failures
      <3>3. strings' = StringsInUse' + 1 /\ stack'[2].type # "V_TEXT"
        <4> DEFINE b == IF lineBuf # << >> THEN 1 ELSE 0
        <4>1. strings' = strings - (0 + 0) /\ stack'[2].type # "V_TEXT"
          BY <3>1, CleanedExactly DEF LineLost, OneMore
        <4>2. strings = b + 1 /\ b \in {0, 1}
          BY DEF LineLost, OneMore, StringsInUse
        <4>3. StringsInUse' = b
          BY <3>1, <4>1 DEF StringsInUse
        <4> HIDE DEF b
        <4> QED BY <4>1, <4>2, <4>3
      <3>4. FramesKept'
        <4>1. ~Live' /\ top' = 0
          BY <2>2, <3>1 DEF Live, CleanupStack
        <4> QED BY <3>1, <4>1 DEF FramesKept, LineIsThere, LineIsRead, Underway
      <3> QED BY <1>1, <3>1, <3>2, <3>3, <3>4 DEF Accounted, LineLost, OneMore, Refusal
    <2>6. ASSUME ~FinishAssert, ~FinishCleanup PROVE FALSE
      <3>1. (mode = "M_WEBVTT" /\ Top.state = "T_CUE" /\ ~FinishHasLine) \/ call = "cleanup"
        BY <2>2, <2>3 DEF AtCue, FinishHasLine
      <3> QED BY ZenonT(30), <2>1, <2>6, <3>1 DEF FinishStep, FinishCueText, FinishUnseparated,
        FinishElse, FinishTextStarved, FinishCueLine, FinishInCue, FinishInText
    <2> QED BY <2>4, <2>5, <2>6
  <1> QED BY <1>2, <1>3, <1>4, <1>5, <1>6 DEF Client

\* What keeps the frames and the strings when nothing is lost.
LEMMA InUseStays ==
  ASSUME FramesKept, AllInUse, UNCHANGED <<frames, mode, lineBuf, strings>>,
         Live' => Live, Underway' => Underway, status' # "OUT_OF_MEMORY"
  PROVE  Accounted'
  <1>1. FramesKept'
    BY FramesStay
  <1>2. AllInUse'
    BY DEF AllInUse, StringsInUse, frames
  <1> QED BY <1>1, <1>2 DEF Accounted

\* Frames of no cue and no line are put on or taken off.
LEMMA HeaderAccounted ==
  ASSUME IInv, IInv', ~MayFail, ~MayFail', FramesKept, AllInUse, call = "chunk",
         Top.state \in {"T_INITIAL", "T_TAG", "T_TAGCOMMENT", "T_EOL", "T_BODY"},
         UNCHANGED <<calling, cues, mode, lineBuf, strings>>,
         stack'[2].type # "V_TEXT" \/ stack'[2].type = stack[2].type,
         top' = 2 => ~popped'
  PROVE  Accounted'
  <1>1. Live /\ Live' /\ mode = "M_WEBVTT" /\ \A k \in DOMAIN cues : cues[k].owner # "parser"
    <2>1. Live /\ Live'
      BY DEF Live, calling
    <2> QED BY <2>1, NoCueInHeader
  <1>2. stack[2].type # "V_TEXT" /\ stack'[2].type # "V_TEXT"
    BY <1>1 DEF FramesKept, LineIsRead
  <1>3. Top.state' \notin {"T_CUE", "T_CUEREAD"}
    <2>1. ~HoldsCue(1)' /\ ~LacksCue(1)'
      BY <1>1 DEF HoldsCue, LacksCue
    <2>2. top' \in 0..2
      BY DEF IInv, TypeOK, Depth
    <2>3. BottomShape' /\ MiddleShape' /\ TopShape'
      BY <1>1 DEF IInv, StackShape
    <2>4. CASE top' = 0
      BY <2>3, <2>4 DEF BottomShape
    <2>5. CASE top' = 1
      BY <2>1, <2>3, <2>5 DEF MiddleShape
    <2>6. CASE top' = 2
      BY <2>1, <2>3, <2>6 DEF TopShape
    <2> QED BY <2>2, <2>4, <2>5, <2>6
  <1>4. FramesKept'
    BY <1>2, <1>3 DEF FramesKept, LineIsThere, LineIsRead, calling
  <1>5. AllInUse'
    BY <1>2 DEF AllInUse, StringsInUse
  <1> QED BY <1>4, <1>5 DEF Accounted

\* A token of the header or the body.
LEMMA TokenAccounted ==
  ASSUME IInv, IInv', ~MayFail, ~MayFail', FramesKept, AllInUse, TokenStep PROVE Accounted'
  <1>1. /\ stack \in [0..2 -> Frame] /\ top \in 0..2 /\ call = "chunk" /\ Live /\ Underway
        /\ status # "OUT_OF_MEMORY"
    <2>1. call = "chunk"
      BY DEF TokenStep, InitialSignature, InitialReject, TagSpace, TagNewline, TagReject,
        CommentNewline, CommentSkip, EolCount, EolPop, CueAssert, BodyDead, BodyNewline, BodyCue,
        BodyStarved, On
    <2> QED BY <2>1 DEF Live, Underway, IInv, TypeOK, Depth, FramesKept
  <1>2. CASE InitialReject \/ TagReject \/ CueAssert \/ \E d \in Dies : BodyDead(d)
    <2>1. UNCHANGED <<frames, mode, lineBuf, strings, status>>
      BY <1>2 DEF InitialReject, TagReject, Reject, CueAssert, BodyDead, Return, heap
    <2> QED BY <1>1, <2>1, InUseStays
  <1>3. CASE CommentSkip
    BY <1>1, <1>3, InUseStays DEF CommentSkip, Quiet, calling, heap
  <1>5. CASE InitialSignature \/ TagSpace
    <2>1. /\ Top.state \in {"T_INITIAL", "T_TAG"} /\ UNCHANGED <<calling, cues, mode, lineBuf, strings>>
      BY <1>5 DEF InitialSignature, TagSpace, On, EndTurn, Quiet, heap
    <2>2. PICK s \in States : Push(s)
      BY <1>5 DEF InitialSignature, TagSpace, States
    <2>3. stack'[2] \in {NewFrame(s, "V_NONE", Top.back + 1), stack[2]} /\ popped' = FALSE
      BY <1>1, <2>2 DEF Push
    <2>4. NewFrame(s, "V_NONE", Top.back + 1).type = "V_NONE"
      BY DEF NewFrame
    <2> QED BY <1>1, <2>1, <2>3, <2>4, HeaderAccounted
  <1>6. CASE TagNewline \/ CommentNewline
    <2>1. /\ Top.state \in {"T_TAG", "T_TAGCOMMENT"}
          /\ UNCHANGED <<calling, cues, mode, lineBuf, strings>>
      BY <1>6 DEF TagNewline, CommentNewline, On, EndTurn, Quiet, heap
    <2>2. top - Top.back = 0
      BY <1>1, <2>1, WhereTop
    <2>3. PICK state \in {"T_INITIAL", "T_BODY"} : PopBackAndCount(state)
      BY <1>6, <2>2 DEF TagNewline, CommentNewline, IInv, BottomFrame
    <2>4. stack'[2] = stack[2] /\ top' = 1
      BY <2>2, <2>3, CountFrames
    <2> QED BY <1>1, <2>1, <2>4, HeaderAccounted
  <1>7. CASE EolCount \/ EolPop
    <2>1. /\ Top.state = "T_EOL" /\ UNCHANGED <<calling, cues, mode, lineBuf, strings>>
      BY <1>7 DEF EolCount, EolPop, On, EndTurn, Quiet, heap
    <2>2. top = 1 /\ top - Top.back = 0
      BY <1>1, <2>1, WhereTop
    <2>3. stack'[2] = stack[2] /\ top' \in {0, 1}
      BY <1>1, <1>7, <2>2 DEF EolCount, EolPop
    <2> QED BY <1>1, <2>1, <2>3, HeaderAccounted
  <1>8. ASSUME \E d \in Dies : BodyStarved(d) PROVE FALSE
    BY <1>8 DEF BodyStarved
  <1>9. CASE \E d \in Dies : BodyNewline(d)
    <2>1. /\ Top.state = "T_BODY" /\ UNCHANGED <<calling, cues, mode, lineBuf, strings, top>>
          /\ stack' = BodyStack
      BY <1>9 DEF BodyNewline, On, EndTurn, heap
    <2>2. stack'[2] = stack[2] /\ top' = 0
      BY <1>1, <2>1, BodyFrames
    <2> QED BY <1>1, <2>1, <2>2, HeaderAccounted
  <1>10. CASE \E d \in Dies : BodyCue(d)
    <2> DEFINE f == WithCue(NewFrame("T_CUE", "V_CUE", Top.back + 1), Len(cues) + 1)
               g == WithText(NewFrame("T_CUEREAD", "V_TEXT", Top.back + 2), token)
    <2>1. /\ Top.state = "T_BODY" /\ stack' = [BodyStack EXCEPT ![top + 1] = f, ![top + 2] = g]
          /\ strings' = strings + 1 /\ top' = top + 2 /\ popped' = FALSE
          /\ UNCHANGED <<calling, mode, lineBuf>>
      BY <1>10 DEF BodyCue, On, EndTurn
    <2>2. g.state = "T_CUEREAD" /\ g.type = "V_TEXT"
      BY DEF NewFrame, WithText
    <2>3. top = 0 /\ DOMAIN BodyStack = Depth
      BY <1>1, <2>1, BodyFrames
    <2> HIDE DEF f, g
    <2>4. top' = 2 /\ stack'[2] = g
      BY <2>1, <2>3 DEF Depth
    <2>5. stack[2].type # "V_TEXT"
      BY <1>1, <2>3 DEF FramesKept, LineIsRead
    <2>6. FramesKept'
      BY <2>1, <2>2, <2>4 DEF FramesKept, LineIsThere, LineIsRead, Top, LinePending, calling
    <2>7. AllInUse'
      BY <2>1, <2>2, <2>4, <2>5 DEF AllInUse, StringsInUse, IInv, TypeOK
    <2> QED BY <2>6, <2>7 DEF Accounted
  <1> QED BY <1>2, <1>3, <1>5, <1>6, <1>7, <1>8, <1>9, <1>10 DEF TokenStep

\* What a line of a cue results in while there is memory: its string is released, unless
\* the parser fails on it because a separator is missing or a report about it is refused.
LEMMA LineOutcome ==
  ASSUME ~MayFail, NEW d \in Nat, NEW fails \in Failing, NEW c \in Cue,
         NEW f \in Frame, f.type = "V_TEXT"
  PROVE  LET r == ProcCueLine(c, f, d, fails)
         IN  /\ r.status \in {"SUCCESS", "PARSE_ERROR"}
             /\ ~r.released =>
                  /\ r.status = "PARSE_ERROR" /\ r.mode = "M_WEBVTT" /\ ~r.again
                  /\ \/ TimingKind(f.text) = "NOSEP"
                     \/ r.codes \in {<<"EXPECTED_TIMESTAMP">>, <<"EXPECTED_WHITESPACE">>}
  <1> DEFINE r == ProcCueLine(c, f, d, fails)
  <1>1. fails = FALSE
    BY DEF Failing
  <1>2. f.text \in Seq(Symbols)
    BY DEF Frame
  <1>3. CASE HasArrow(f.text)
    <2> DEFINE k == TimingKind(f.text)
               said == TimingReports(k)
               rep == Report(said, d)
               s == IF rep.dead THEN TimingDeadStatus(k) ELSE TimingStatus(k)
    <2>1. r = TimingsLine(c, f.text, d)
      BY <1>3 DEF ProcCueLine
    <2>2. /\ r.mode = (CASE s = "SUCCESS" -> "M_CUETEXT"
                         [] s = "BAD_CUE" -> "M_SKIP_CUE"
                         [] OTHER         -> "M_WEBVTT")
          /\ r.status = (IF s = "PARSE_ERROR" THEN s ELSE "SUCCESS")
          /\ r.released = (s # "PARSE_ERROR") /\ r.again = FALSE /\ r.codes = rep.codes
      BY <2>1 DEF TimingsLine
    <2>3. k \in TimingSymbols \cup {"BAD"}
      BY DEF TimingKind
    <2>4. said \in {<< >>, <<"EXPECTED_TIMESTAMP">>, <<"MALFORMED_TIMESTAMP", "MALFORMED_TIMESTAMP">>,
                    <<"EXPECTED_WHITESPACE">>}
          /\ (k # "MAL" => said \in {<< >>, <<"EXPECTED_TIMESTAMP">>, <<"EXPECTED_WHITESPACE">>})
      BY DEF TimingReports
    <2> HIDE DEF k
    <2>5. ASSUME s = "PARSE_ERROR", ~rep.dead PROVE k = "NOSEP"
      BY <2>5, <2>3 DEF TimingStatus
    <2>6. ASSUME s = "PARSE_ERROR", rep.dead
          PROVE  rep.codes \in {<<"EXPECTED_TIMESTAMP">>, <<"EXPECTED_WHITESPACE">>}
      <3>1. k # "MAL" /\ d \in 1 .. Len(said) /\ rep.codes = SubSeq(said, 1, d)
        BY <2>6 DEF TimingDeadStatus, Report
      <3>2. said \in {<<"EXPECTED_TIMESTAMP">>, <<"EXPECTED_WHITESPACE">>}
        BY <2>4, <3>1
      <3>3. Len(said) = 1 /\ d = 1
        BY <3>1, <3>2
      <3>4. SubSeq(said, 1, 1) = said
        BY <3>2
      <3> QED BY <3>1, <3>2, <3>3, <3>4
    <2> HIDE DEF s, rep, said
    <2> QED BY <2>2, <2>5, <2>6 DEF k
  <1>4. CASE ~HasArrow(f.text) /\ c.haveId
    <2>1. r = SecondIdLine(c, d)
      BY <1>4 DEF ProcCueLine
    <2> QED BY <2>1 DEF SecondIdLine
  <1>5. CASE ~HasArrow(f.text) /\ ~c.haveId
    <2>1. r = IdLine(c, f.text)
      BY <1>1, <1>5 DEF ProcCueLine
    <2> QED BY <2>1 DEF IdLine
  <1> QED BY <1>3, <1>4, <1>5

\* The strings after a line whose string is not released.
LEMMA LineDropped ==
  ASSUME IInv, AllInUse, stack[2].type = "V_TEXT", NEW r, ~r.released, ~r.again,
         strings' = StringsAfterLine(r, stack[2]), lineBuf' = lineBuf,
         stack'[2].type = "V_NONE"
  PROVE  OneMore'
  <1> DEFINE b == IF lineBuf # << >> THEN 1 ELSE 0
  <1>1. strings = 1 + b /\ b \in {0, 1}
    BY DEF AllInUse, StringsInUse
  <1>2. strings' = (strings - 0) + 0
    BY DEF StringsAfterLine
  <1>3. StringsInUse' = 0 + b
    BY DEF StringsInUse
  <1> HIDE DEF b
  <1> QED BY <1>1, <1>2, <1>3 DEF OneMore

\* Where the elements of a concatenation are.
LEMMA SecondPart ==
  ASSUME NEW S, NEW s \in Seq(S), NEW b \in Seq(S), b # << >>
  PROVE  /\ s \o b \in Seq(S) /\ Len(s \o b) = Len(s) + Len(b)
         /\ Len(s) + 1 \in DOMAIN (s \o b) /\ (s \o b)[Len(s) + 1] = b[1]
  OBVIOUS

LEMMA Joined ==
  ASSUME NEW S, NEW a \in Seq(S), NEW e \in Seq(S)
  PROVE  a \o e \in Seq(S) /\ Len(a \o e) = Len(a) + Len(e)
  OBVIOUS

LEMMA FirstPart ==
  ASSUME NEW S, NEW a \in Seq(S), NEW e \in Seq(S), Len(a) = 1
  PROVE  a \o e \in Seq(S) /\ a \o e # << >> /\ (a \o e)[1] = a[1]
  <1>1. a \o e \in Seq(S) /\ Len(a \o e) = Len(a) + Len(e)
    BY Joined
  <1>2. Len(a \o e) # 0
    BY <1>1
  <1>3. (a \o e)[1] = a[1]
    OBVIOUS
  <1> QED BY <1>1, <1>2, <1>3

\* A report about a line of timings is among the errors.
LEMMA TimingsReported ==
  ASSUME IInv, NEW more \in Seq(Codes),
         NEW code \in {"EXPECTED_TIMESTAMP", "EXPECTED_WHITESPACE"},
         errors' = errors \o AtLine(<<code>> \o more, line)
  PROVE  \E i \in DOMAIN errors' : ReportsTimings(errors'[i])
  <1> DEFINE one == <<code>>
             codes == one \o more
             b == AtLine(codes, line)
             x == <<code, line>>
  <1>1. /\ code \in Codes /\ Len(one) = 1 /\ one[1] = code /\ line \in Nat
        /\ errors \in Seq(Codes \X Nat)
    BY DEF Codes, IInv, TypeOK
  <1>2. one \in Seq(Codes)
    BY <1>1
  <1>3. errors' = errors \o b
    OBVIOUS
  <1> HIDE DEF one
  <1>4. codes \in Seq(Codes) /\ codes # << >> /\ codes[1] = code
    BY <1>1, <1>2, FirstPart
  <1> HIDE DEF codes
  <1>5. b \in Seq(Codes \X Nat) /\ b # << >> /\ b[1] = x
    <2>1. b \in Seq(Codes \X Nat)
      BY <1>1, <1>4, AtLineType
    <2>2. b = [i \in 1 .. Len(codes) |-> <<codes[i], line>>]
      BY DEF AtLine
    <2>3. Len(codes) \in Nat /\ Len(codes) # 0
      BY <1>4
    <2>4. DOMAIN b = 1 .. Len(codes) /\ b[1] = x
      BY <1>4, <2>2, <2>3
    <2> HIDE DEF b
    <2> QED BY <2>1, <2>3, <2>4
  <1> HIDE DEF b
  <1>6. Len(errors) + 1 \in DOMAIN errors' /\ errors'[Len(errors) + 1] = x
    <2>1. /\ Len(errors) + 1 \in DOMAIN (errors \o b)
          /\ (errors \o b)[Len(errors) + 1] = b[1]
      BY <1>1, <1>5, SecondPart
    <2> QED BY <1>3, <1>5, <2>1
  <1>7. ReportsTimings(x)
    BY DEF ReportsTimings
  <1> QED BY <1>6, <1>7

\* What a line of a cue leaves of the strings.
LEMMA LineAccounted ==
  ASSUME IInv, ~MayFail, doc' = doc, Separated(doc) => TextsSeparated, AllInUse,
         stack[2].type = "V_TEXT", stack[2] \in Frame, NEW c \in Cue, NEW d \in Dies, NEW fails \in Failing,
         NEW r, r = ProcCueLine(c, stack[2], d, fails), r.again \in BOOLEAN, r.released \in BOOLEAN,
         NEW more \in Seq(Codes), errors' = errors \o AtLine(r.codes \o more, line),
         strings' = StringsAfterLine(r, stack[2]), lineBuf' = lineBuf,
         r.again => stack'[2].type = "V_TEXT", ~r.again => stack'[2].type = "V_NONE",
         ~r.released => Stuck'
  PROVE  AllInUse' \/ LineLost'
  <1>1. CASE r.released
    BY <1>1, LineStrings
  <1>2. CASE ~r.released
    <2>1. /\ ~r.again
          /\ \/ TimingKind(stack[2].text) = "NOSEP"
             \/ r.codes \in {<<"EXPECTED_TIMESTAMP">>, <<"EXPECTED_WHITESPACE">>}
      BY <1>2, LineOutcome, DiesAssumption
    <2>2. OneMore'
      BY <1>2, <2>1, LineDropped
    <2>3. CASE TimingKind(stack[2].text) = "NOSEP"
      <3>1. stack[2].text \in Seq(Symbols)
        BY DEF Frame
      <3>2. ~Separated(stack[2].text)
        BY <2>3, <3>1, TimingsSeparated
      <3>3. ~Separated(doc)
        BY <3>2 DEF TextsSeparated, Depth
      <3> QED BY <1>2, <2>2, <3>3 DEF LineLost, Refusal
    <2>4. CASE r.codes \in {<<"EXPECTED_TIMESTAMP">>, <<"EXPECTED_WHITESPACE">>}
      <3>1. PICK code \in {"EXPECTED_TIMESTAMP", "EXPECTED_WHITESPACE"} : r.codes = <<code>>
        BY <2>4
      <3>2. errors' = errors \o AtLine(<<code>> \o more, line)
        BY <3>1
      <3>3. \E i \in DOMAIN errors' : ReportsTimings(errors'[i])
        BY <3>2, TimingsReported
      <3> QED BY <1>2, <2>2, <3>3 DEF LineLost, Refusal
    <2> QED BY <2>1, <2>3, <2>4
  <1> QED BY <1>1, <1>2

\* A turn of the loop that reads the lines of a cue.
LEMMA TurnAccounted ==
  ASSUME IInv, IInv', ~MayFail, doc' = doc, Separated(doc) => TextsSeparated,
         FramesKept, AllInUse, TurnStep
  PROVE  Accounted'
  <1>1. /\ Turn /\ Live /\ Underway /\ mode = "M_WEBVTT" /\ call = "chunk"
        /\ stack \in [0..2 -> Frame] /\ status # "OUT_OF_MEMORY"
    <2>1. Turn
      BY DEF TurnStep, Lex, CueReadText, CueReadEol, CueReadNewline, CueMissing, CueReadStarved,
        CueLine
    <2> QED BY <2>1 DEF Turn, Live, Underway, IInv, TypeOK, Depth, FramesKept
  <1>2. CASE Lex
    BY <1>1, <1>2, InUseStays DEF Lex, calling, heap
  <1>3. CASE CueReadText \/ CueReadEol \/ CueReadNewline
    <2>1. /\ Top.state = "T_CUEREAD" /\ UNCHANGED <<calling, mode, lineBuf, strings>>
      BY <1>3 DEF CueReadText, CueReadEol, CueReadNewline, Quiet, heap
    <2>2. top = 2 /\ Top = stack[2] /\ stack[2].type = "V_TEXT" /\ stack[1].state = "T_CUE"
      BY <1>1, <2>1, CueIsThere DEF Top
    <2>3. /\ stack'[1] = stack[1] /\ stack'[2].state = "T_CUEREAD" /\ stack'[2].type = "V_TEXT"
      <3>1. /\ AtEol(stack[2]).state = stack[2].state /\ AtEol(stack[2]).type = stack[2].type
            /\ WithText(stack[2], Append(stack[2].text, Sym)).state = stack[2].state
            /\ WithText(stack[2], Append(stack[2].text, Sym)).type = stack[2].type
        BY <1>1 DEF AtEol, WithText, Frame
      <3> QED BY <1>1, <1>3, <2>1, <2>2, <3>1 DEF CueReadText, CueReadEol, CueReadNewline
    <2>4. (top' = 2 /\ popped' = popped) \/ (top' = 1 /\ popped')
      BY <1>3, <2>2 DEF CueReadText, CueReadEol, CueReadNewline
    <2>5. FramesKept'
      BY <1>1, <2>1, <2>2, <2>3, <2>4 DEF FramesKept, LineIsThere, LineIsRead, LinePending, Top,
        Above, calling
    <2>6. AllInUse'
      BY <2>1, <2>2, <2>3 DEF AllInUse, StringsInUse
    <2> QED BY <2>5, <2>6 DEF Accounted
  <1>4. ASSUME CueMissing PROVE FALSE
    BY <1>1, <1>4, CueIsThere DEF CueMissing, Top
  <1>5. ASSUME \E d \in Dies : CueReadStarved(d) PROVE FALSE
    BY <1>5 DEF CueReadStarved
  <1>6. CASE \E d \in Dies : \E f \in Failing : CueLine(d, f)
    <2>1. PICK d \in Dies, fails \in Failing : CueLine(d, fails)
      BY <1>6
    <2>2. /\ top = 1 /\ Top = stack[1] /\ Above = stack[2] /\ stack[2].type = "V_TEXT"
          /\ cues[Top.cue] \in Cue /\ stack[2] \in Frame /\ Top.state = "T_CUE"
      <3>1. Top.state = "T_CUE" /\ LinePending
        BY <2>1 DEF CueLine
      <3>2. Above.type = "V_TEXT"
        BY <1>1, <3>1 DEF FramesKept, LineIsThere
      <3>3. top = 1 /\ cues[stack[1].cue] \in Cue
        BY <1>1, <3>1, CueIsThere
      <3> QED BY <1>1, <3>1, <3>2, <3>3 DEF Top, Above
    <2> DEFINE c == cues[Top.cue]
               r == ProcCueLine(c, stack[2], d, fails)
               stk == [stack EXCEPT ![2] = Vacate(@)]
    <2>3. LineResult(r, c)
      <3>1. d \in Nat /\ fails \in BOOLEAN
        BY DiesAssumption DEF Failing
      <3> QED BY <2>2, <3>1, ProcCueLineType
    <2>4. /\ r.status \in {"SUCCESS", "PARSE_ERROR"}
          /\ ~r.released => r.status = "PARSE_ERROR" /\ r.mode = "M_WEBVTT" /\ ~r.again
      BY <2>2, LineOutcome, DiesAssumption
    <2>5. /\ strings' = StringsAfterLine(r, stack[2]) /\ top' = (IF r.again THEN 2 ELSE 1)
          /\ stack' = AfterLine(stk, 1, r) /\ errors' = errors \o AtLine(r.codes, line)
          /\ mode' = r.mode /\ status' = r.status /\ UNCHANGED <<call, ret, lineBuf>>
          /\ r.mode = "M_WEBVTT" => popped' = FALSE
      BY <2>1, <2>2 DEF CueLine
    <2>6. stk \in [0..2 -> Frame] /\ stk[2].type = "V_NONE" /\ stk[1] = stack[1]
      BY <1>1, <2>2, VacateType
    <2>7. /\ r.again \in BOOLEAN /\ r.released \in BOOLEAN /\ (r.again => r.mode = "M_WEBVTT")
          /\ r.codes \in Seq(Codes)
      BY <2>3 DEF LineResult
    <2>8. errors' = errors \o AtLine(r.codes \o << >>, line)
      <3>1. ASSUME NEW codes \in Seq(Codes) PROVE codes \o << >> = codes
        OBVIOUS
      <3>2. r.codes \o << >> = r.codes
        BY <2>7, <3>1
      <3> QED BY <2>5, <3>2
    <2> HIDE DEF r, stk, c
    <2>10. /\ r.again => stack'[2].type = "V_TEXT" /\ stack'[2].state = "T_CUEREAD"
           /\ ~r.again => stack'[2].type = "V_NONE"
           /\ stack'[1] = stack[1]
      BY <2>5, <2>6, <2>7, LineStack
    <2>11. FramesKept'
      BY <1>1, <2>4, <2>5, <2>7, <2>10 DEF FramesKept, LineIsThere, LineIsRead, LinePending, Top
    <2>12. ~r.released => Stuck'
      BY <1>1, <2>2, <2>4, <2>5, <2>10 DEF Stuck, AtCue, LinePending, Top
    <2>13. AllInUse' \/ LineLost'
      <3>1. << >> \in Seq(Codes)
        BY EmptySeq
      <3> QED BY <2>2, <2>5, <2>7, <2>8, <2>10, <2>12, <3>1, LineAccounted DEF r, c
    <2> QED BY <2>11, <2>13 DEF Accounted
  <1> QED BY <1>2, <1>3, <1>4, <1>5, <1>6 DEF TurnStep

\* A turn of the loop that reads the text of a cue.
LEMMA TextAccounted ==
  ASSUME IInv, IInv', ~MayFail, FramesKept, AllInUse, TextStep PROVE Accounted'
  <1>1. /\ Live /\ Underway /\ call = "chunk" /\ mode # "M_WEBVTT" /\ InText
        /\ status # "OUT_OF_MEMORY" /\ top = 1 /\ stack[2].type = "V_NONE"
    <2>1. InText
      BY DEF TextStep, TextRead, TextCarriageReturn, TextNewline, TextUnparsed, TextUnseparated,
        TextStarved, AtNewline
    <2>2. Live /\ mode # "M_WEBVTT"
      BY <2>1 DEF InText, Live
    <2> QED BY <2>1, <2>2, HeldCue DEF InText, Underway, FramesKept
  <1>3. CASE TextRead
    <2>1. /\ lineBuf' # << >> /\ strings' = WithLineBuf /\ status' = "UNFINISHED"
          /\ UNCHANGED <<call, frames, mode, finished>>
      <3>1. lineBuf \in Seq(Symbols \cup {Mark}) /\ Sym \in Symbols
        BY <1>1, SymType DEF InText, IInv, TypeOK
      <3>2. PICK s \in Symbols \cup {Mark} : lineBuf' = Append(lineBuf, s)
        BY <1>3, <3>1 DEF TextRead
      <3>3. lineBuf' # << >>
        BY <3>1, <3>2
      <3> QED BY <1>3, <3>3 DEF TextRead
    <2>2. FramesKept'
      BY <1>1, <2>1, FramesStay DEF Live, Underway
    <2>3. AllInUse'
      BY SMTT(20), <1>1, <2>1 DEF AllInUse, StringsInUse, WithLineBuf, frames, IInv, TypeOK
    <2> QED BY <2>2, <2>3 DEF Accounted
  <1>4. CASE TextCarriageReturn
    BY <1>1, <1>4, InUseStays DEF TextCarriageReturn, heap
  <1>5. CASE TextNewline
    <2> DEFINE l == Front(lineBuf)
    <2>1. AtNewline /\ EndTextLine(l, ~IsText(l), strings) /\ lineBuf # << >>
      BY <1>5 DEF TextNewline, AtNewline, Marked
    <2>2. l \in Seq(Symbols) /\ strings = WithLineBuf
      BY <2>1, AtNewlineState DEF WithLineBuf
    <2>3. status' \in {"UNFINISHED", "SUCCESS"} /\ call' = call
      BY <1>5 DEF TextNewline
    <2> HIDE DEF l
    <2>4. IsText(l) \in BOOLEAN
      BY DEF IsText
    <2>5. LinePends' /\ LineIsRead' /\ AllInUse' /\ top' # 2
      BY <1>1, <2>1, <2>2, <2>4, CalmEnds
    <2> QED BY <2>3, <2>5 DEF Accounted, FramesKept, LineIsThere, LinePends
  <1>6. ASSUME TextUnparsed \/ TextUnseparated \/ \E d \in Dies : TextStarved(d) PROVE FALSE
    BY <1>6 DEF TextUnparsed, TextUnseparated, TextStarved, NoSeparator
  <1> QED BY <1>3, <1>4, <1>5, <1>6 DEF TextStep

\* The end of the document.
LEMMA FinishAccounted ==
  ASSUME IInv, IInv', ~MayFail, doc' = doc, Separated(doc) => TextsSeparated,
         FramesKept, AllInUse, FinishStep
  PROVE  Accounted'
  <1>1. /\ call \in {"finish", "cleanup"} /\ finished /\ Live /\ status # "OUT_OF_MEMORY"
        /\ stack \in [0..2 -> Frame]
    <2>1. call \in {"finish", "cleanup"}
      BY ZenonT(30) DEF FinishStep, FinishAssert, FinishCueText, FinishUnseparated, FinishElse, FinishCleanup,
        FinishTextStarved, FinishCueLine, FinishInCue, FinishInText
    <2> QED BY <2>1 DEF Live, IInv, TypeOK, Finishing, FramesKept, Depth
  <1>2. FinishInCue /\ FinishHasLine =>
          FinishTop = 1 /\ stack[1].cue # 0 /\ stack[2].type = "V_TEXT" /\ cues[stack[1].cue] \in Cue
    <2> SUFFICES ASSUME FinishInCue, FinishHasLine
                 PROVE  /\ FinishTop = 1 /\ stack[1].cue # 0 /\ stack[2].type = "V_TEXT"
                        /\ cues[stack[1].cue] \in Cue
      OBVIOUS
    <2>1. /\ Underway /\ mode = "M_WEBVTT" /\ Top.state \in {"T_CUE", "T_CUEREAD"}
      BY <1>1 DEF FinishInCue, Underway
    <2>2. CASE Top.state = "T_CUE"
      BY <1>1, <2>1, <2>2, CueIsThere DEF FinishHasLine, FinishTop, FramesKept, LineIsThere, Above
    <2>3. CASE Top.state = "T_CUEREAD"
      BY <1>1, <2>1, <2>3, CueIsThere DEF FinishTop
    <2> QED BY <2>1, <2>2, <2>3
  <1>3. CASE FinishAssert
    <2>1. UNCHANGED <<frames, mode, lineBuf, strings, finished, status>> /\ call' = "idle"
      BY <1>3 DEF FinishAssert, Return, heap
    <2> QED BY <1>1, <2>1, InUseStays DEF Live, Underway
  <1>4. CASE FinishElse
    BY <1>1, <1>4, InUseStays DEF FinishElse, heap, Live, Underway
  <1>5. ASSUME FinishUnseparated \/ \E d \in Dies : FinishTextStarved(d) PROVE FALSE
    BY <1>5 DEF FinishUnseparated, FinishTextStarved, NoSeparator
  <1>6. CASE FinishCueText
    <2>1. /\ EndTextLine(LastLine, TRUE, WithLineBuf) /\ mode # "M_WEBVTT" /\ status' = "SUCCESS"
          /\ call' = "cleanup"
      BY <1>6 DEF FinishCueText, FinishInText
    <2>2. LastLine \in Seq(Symbols)
      BY LineBufText DEF LastLine
    <2>3. LineIsRead' /\ AllInUse' /\ top' # 2
      BY <1>1, <2>1, <2>2, CalmEnds
    <2> QED BY <2>1, <2>3 DEF Accounted, FramesKept, LineIsThere, Underway
  <1>7. CASE FinishCleanup
    <2>1. /\ CleanupStack /\ call = "cleanup" /\ call' = "idle" /\ finished' = finished
          /\ status' = status /\ lineBuf' = lineBuf
      BY <1>7 DEF FinishCleanup, Return
    <2>2. ~Live' /\ top' = 0
      BY <1>1, <2>1 DEF Live, CleanupStack
    <2>3. AllInUse'
      BY <2>1, CalmCleanup
    <2> QED BY <1>1, <2>1, <2>2, <2>3 DEF Accounted, FramesKept, LineIsThere, LineIsRead, Underway
  <1>8. CASE \E d, e \in Dies : \E f \in Failing : FinishCueLine(d, e, f)
    <2>1. PICK d \in Dies, e \in Dies, fails \in Failing : FinishCueLine(d, e, fails)
      BY <1>8
    <2> DEFINE t == FinishTop
               c == cues[stack[t].cue]
               r == ProcCueLine(c, stack[t + 1], d, fails)
               codes == IF r.cue.haveId /\ r.cue.time = "none" THEN <<"CUE_INCOMPLETE">> ELSE << >>
               bare == Report(codes, e)
               f == InState(Vacate(stack[t + 1]), "T_INITIAL")
               stk == [stack EXCEPT ![t + 1] = f]
    <2>2. /\ strings' = StringsAfterLine(r, stack[t + 1])
          /\ top' = (IF r.again THEN t + 1 ELSE t) /\ popped' = ~r.again
          /\ stack' = AfterLine(stk, t, r) /\ finished' = finished
          /\ mode' = r.mode /\ lineBuf' = lineBuf /\ FinishInCue /\ FinishHasLine
          /\ errors' = errors \o AtLine(r.codes \o bare.codes, line)
      BY <2>1 DEF FinishCueLine
    <2>3. \/ call' = "idle" /\ ret' = "PARSE_ERROR" /\ status' = status
          \/ call' = (IF r.mode = "M_CUETEXT" THEN "finish" ELSE "cleanup") /\ status' = r.status
      BY <2>1 DEF FinishCueLine, Return
    <2>4. bare.codes \in Seq(Codes)
      <3>1. codes \in Seq(Codes)
        <4>1. <<"CUE_INCOMPLETE">> \in Seq(Codes)
          BY DEF Codes
        <4> QED BY <4>1, EmptySeq
      <3>2. e \in Nat
        BY DiesAssumption
      <3> HIDE DEF codes
      <3> QED BY <3>1, <3>2, ReportType
    <2>5. t = 1 /\ stack[2].type = "V_TEXT" /\ stack[2] \in Frame /\ c \in Cue
      <3> HIDE DEF r, bare, codes, f, stk
      <3>1. t = 1 /\ stack[2].type = "V_TEXT" /\ cues[stack[1].cue] \in Cue
        BY <1>2, <2>2
      <3>2. stack[2] \in Frame
        BY <1>1
      <3> HIDE DEF t
      <3> QED BY <3>1, <3>2
    <2> HIDE DEF t
    <2>6. r = ProcCueLine(c, stack[2], d, fails) /\ stack[t + 1] = stack[2]
      BY <2>5
    <2>7. LineResult(r, c)
      <3>1. d \in Nat /\ fails \in BOOLEAN
        BY DiesAssumption DEF Failing
      <3> HIDE DEF r, c
      <3> QED BY <2>5, <2>6, <3>1, ProcCueLineType
    <2>8. /\ r.status \in {"SUCCESS", "PARSE_ERROR"}
          /\ ~r.released => r.status = "PARSE_ERROR" /\ r.mode = "M_WEBVTT" /\ ~r.again
      <3> HIDE DEF r, c
      <3> QED BY <2>5, <2>6, LineOutcome, DiesAssumption
    <2>9. stk \in [0..2 -> Frame] /\ stk[2].type = "V_NONE"
      <3>1. f \in Frame /\ f.type = "V_NONE"
        BY <2>5, VacateType, InStateType DEF States
      <3> HIDE DEF f
      <3> QED BY <1>1, <2>5, <3>1
    <2> HIDE DEF r, bare, f, stk, c, codes
    <2>10. /\ r.again \in BOOLEAN /\ r.released \in BOOLEAN /\ (r.again => r.mode = "M_WEBVTT")
      BY <2>7 DEF LineResult
    <2>11. /\ r.again => stack'[2].type = "V_TEXT" /\ stack'[2].state = "T_CUEREAD"
           /\ ~r.again => stack'[2].type = "V_NONE"
      BY <2>2, <2>5, <2>9, <2>10, LineStack
    <2>12. ~r.released => Stuck'
      BY <1>1, <2>2, <2>3, <2>8 DEF Stuck, Failures
    <2>13. AllInUse' \/ LineLost'
      <3>1. strings' = StringsAfterLine(r, stack[2])
        BY <2>2, <2>6
      <3> QED BY <2>2, <2>4, <2>5, <2>6, <2>10, <2>11, <2>12, <3>1, LineAccounted
    <2>14. FramesKept'
      <3>1. top' = (IF r.again THEN 2 ELSE 1) /\ status' # "OUT_OF_MEMORY"
        BY <1>1, <2>2, <2>3, <2>5, <2>8
      <3>2. LineIsRead'
        BY <1>1, <2>2, <2>11, <3>1 DEF LineIsRead, Top
      <3>3. LineIsThere'
        BY <1>1, <2>2, <2>3 DEF LineIsThere, Underway, Live
      <3>4. top' = 2 => ~popped'
        <4>1. popped' = ~r.again
          BY <2>2
        <4>2. CASE r.again
          BY Zenon, <4>1, <4>2
        <4>3. CASE ~r.again
          BY <3>1, <4>3
        <4> QED BY <4>2, <4>3
      <3> QED BY <3>1, <3>2, <3>3, <3>4 DEF FramesKept
    <2> QED BY <2>13, <2>14 DEF Accounted
  <1> QED BY <1>3, <1>4, <1>5, <1>6, <1>7, <1>8 DEF FinishStep

\* What the client does, and the end of a chunk.
LEMMA ClientAccounted ==
  ASSUME IInv, ~MayFail, FramesKept, AllInUse, Client \/ ChunkDone PROVE Accounted'
  <1>1. CASE Feed \/ FinishCall \/ ChunkDone
    <2>1. /\ UNCHANGED <<frames, mode, lineBuf, strings>>
          /\ Live /\ Underway /\ status' # "OUT_OF_MEMORY"
      BY <1>1 DEF Feed, FinishCall, ChunkDone, Return, heap, Live, Underway, FramesKept
    <2> QED BY <2>1, InUseStays
  <1>2. CASE Delete
    <2>1. /\ CleanupStack /\ call = "idle" /\ call' = "deleted" /\ lineBuf' = << >> /\ status' = status
      BY <1>2 DEF Delete
    <2>2. ~Live' /\ top' = 0
      BY <2>1 DEF Live, CleanupStack
    <2>3. AllInUse'
      BY <2>1, CalmCleanup
    <2> QED BY <2>1, <2>2, <2>3 DEF Accounted, FramesKept, LineIsThere, LineIsRead, Underway
  <1> QED BY <1>1, <1>2 DEF Client

\* Any step.
LEMMA StepAccounted ==
  ASSUME IInv, IInv', ~MayFail, Separated(doc) => TextsSeparated, Accounted, [Next]_vars
  PROVE  Accounted'
  <1>1. doc' = doc /\ ~MayFail'
    BY DocumentStays DEF MayFail
  <1>2. CASE UNCHANGED vars \/ Gone
    <2>1. UNCHANGED <<call, ret, status, frames, mode, finished, lineBuf, strings, doc, errors>>
      BY <1>2 DEF Gone, vars, calling, heap, input, outcome
    <2>2. Stuck => Stuck'
      BY <2>1 DEF Stuck, AtCue, LinePending, Top, Above, frames
    <2> QED BY <2>1, <2>2, AccountStays DEF Live, Underway, Accounted, FramesKept
  <1>3. CASE LineLost /\ (Client \/ Parser)
    BY <1>3, StuckStays DEF Accounted
  <1>4. CASE AllInUse /\ (Client \/ Parser)
    <2>1. FramesKept /\ AllInUse
      BY <1>4 DEF Accounted
    <2>2. ~ChunkStarved
      BY <2>1 DEF ChunkStarved, Starved, FramesKept
    <2> QED BY <1>1, <1>4, <2>1, <2>2, ClientAccounted, TurnAccounted, TokenAccounted, TextAccounted,
      FinishAccounted DEF Parser
  <1> QED BY <1>2, <1>3, <1>4 DEF Next, Accounted

LEMMA InitAccounted == Init => Accounted
  <1> SUFFICES ASSUME Init PROVE Accounted
    OBVIOUS
  <1>1. /\ EmptyFrame.type = "V_NONE" /\ EmptyFrame.state = "T_INITIAL"
        /\ \A i \in 0..2 : stack[i] = EmptyFrame
    BY DEF EmptyFrame, NewFrame, Init, Depth
  <1> QED BY <1>1 DEF Init, Accounted, FramesKept, LineIsThere, LineIsRead, AllInUse, StringsInUse, Top

=============================================================================
