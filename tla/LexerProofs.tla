---------------------------- MODULE LexerProofs -----------------------------
(***************************************************************************)
(* Proofs about Lexer, for every set of documents, every way to cut them   *)
(* into chunks, and every size of the token buffer that holds the          *)
(* signature.                                                              *)
(***************************************************************************)
EXTENDS Lexer, FiniteSetTheorems, TLAPS

\* The empty sequence is a sequence of anything.
LEMMA EmptySeq == \A S : << >> \in Seq(S) /\ Len(<< >>) = 0
  OBVIOUS

\* The byte that is looked at is one.
LEMMA ByteType ==
  ASSUME TypeOK, Turn
  PROVE  Byte \in Bytes /\ pos + 1 \in 0 .. lim
  BY DocsAssumption DEF TypeOK, Turn, Byte

\* The token has a length.
LEMMA TokenLength == TypeOK => Len(token) \in Nat
  BY DEF TypeOK

\* The initial states have the right types.
LEMMA InitType == Init => TypeOK
  <1> SUFFICES ASSUME Init PROVE TypeOK
    OBVIOUS
  <1>1. lim \in 0 .. Len(doc) /\ pos \in 0 .. lim /\ bytes \in 0 .. ManyBytes
        /\ line \in Nat /\ eols \in Nat /\ chained \in Nat
    BY DocsAssumption DEF Init, ManyBytes
  <1>2. token \in Seq(Bytes) /\ text \in Seq(Bytes)
        /\ errors \in Seq({"MALFORMED_TAG", "EXPECTED_EOL"} \X Nat)
    BY EmptySeq DEF Init
  <1> QED BY <1>1, <1>2 DEF Init, TypeOK, LexStates, States, LexedStates

\* What an action that puts a byte into the buffer leaves there.
LEMMA PutType ==
  ASSUME TypeOK, Turn, Put
  PROVE  /\ token' \in Seq(Bytes) /\ Len(token') = Len(token) + 1
         /\ bytes' \in 0 .. ManyBytes
  BY ByteType DEF TypeOK, Put, OneMore, ManyBytes

\* The reports the parser makes have the right type.
LEMMA ReportType ==
  ASSUME TypeOK
  PROVE  /\ errors \o EolReports \in Seq({"MALFORMED_TAG", "EXPECTED_EOL"} \X Nat)
         /\ \A l \in Nat : Append(errors, <<"MALFORMED_TAG", l>>)
                             \in Seq({"MALFORMED_TAG", "EXPECTED_EOL"} \X Nat)
  <1> DEFINE E == {"MALFORMED_TAG", "EXPECTED_EOL"} \X Nat
  <1>1. errors \in Seq(E) /\ line \in Nat
    BY DEF TypeOK
  <1>2. <<"EXPECTED_EOL", line>> \in E /\ \A l \in Nat : <<"MALFORMED_TAG", l>> \in E
    BY <1>1
  <1> HIDE DEF E
  <1>3. EolReports \in Seq(E)
    BY <1>2 DEF EolReports
  <1>4. errors \o EolReports \in Seq(E) /\ \A l \in Nat : Append(errors, <<"MALFORMED_TAG", l>>) \in Seq(E)
    BY <1>1, <1>2, <1>3
  <1> QED BY <1>4 DEF E

\* A step of the tokenizer keeps the types.
LEMMA LexType ==
  ASSUME TypeOK, Lead \/ SpaceFull \/ SkipMark \/ End \/ BackUp \/ Overrun
  PROVE  TypeOK'
  <1> USE EmptySeq DEF TypeOK, Keep, read, ManyBytes
  <1>1. CASE Lead
    <2>1. Turn /\ Put /\ pos' = pos + 1 /\ tstate' \in LexStates
      BY <1>1 DEF Lead, Lexing, Use, Leads, LexStates
    <2> QED BY <1>1, <2>1, ByteType, PutType DEF Lead
  <1>2. CASE SpaceFull
    <2>1. Turn /\ Put /\ pos' = pos + 1 /\ tstate' \in LexStates /\ tk' \in Tokens
      BY <1>2 DEF SpaceFull, Lexing, Use, LexStates, Tokens
    <2> QED BY <1>2, <2>1, ByteType, PutType DEF SpaceFull
  <1>3. CASE SkipMark
    BY <1>3, ByteType DEF SkipMark, Lexing, LexStates
  <1>4. CASE End
    <2>1. Turn /\ Put /\ pos' = pos + 1 /\ tstate' \in LexStates /\ tk' \in Tokens /\ line' \in Nat
      BY <1>4 DEF End, Lexing, Use, LexStates, Tokens, Ends, NextLine
    <2> QED BY <1>4, <2>1, ByteType, PutType DEF End
  <1>5. CASE BackUp
    <2>1. tstate' \in LexStates /\ tk' \in Tokens /\ line' \in Nat /\ bytes' \in 0 .. ManyBytes
      BY <1>5 DEF BackUp, LexStates, Tokens, Otherwise, NextLine, OneMore
    <2> QED BY <1>5, <2>1 DEF BackUp
  <1>6. CASE Overrun
    BY <1>6 DEF Overrun, lexer, turn, read
  <1> QED BY <1>1, <1>2, <1>3, <1>4, <1>5, <1>6

\* A turn of parse_webvtt over a token keeps the types,
LEMMA TokenType ==
  ASSUME TypeOK,
         \/ InitialSignature \/ InitialReject \/ TagSpace \/ TagNewline \/ TagReject
         \/ CommentNewline \/ CommentSkip \/ EolCount \/ EolInitial \/ EolBody
         \/ BodyNewline \/ BodyCue
  PROVE  TypeOK'
  <1> USE EmptySeq DEF TypeOK, EndTurn, read, lexer, turn, States, LexedStates, LineStates
  <1>1. CASE InitialSignature \/ TagSpace
    BY <1>1 DEF InitialSignature, TagSpace
  <1>2. CASE TagNewline \/ CommentNewline
    <2>1. eols' \in Nat
      BY <1>2 DEF TagNewline, CommentNewline
    <2> QED BY <1>2, <2>1 DEF TagNewline, CommentNewline
  <1>3. CASE EolCount
    <2>1. eols' \in Nat
      BY <1>3 DEF EolCount
    <2> QED BY <1>3, <2>1 DEF EolCount
  <1>4. CASE InitialReject \/ TagReject
    BY <1>4, ReportType DEF InitialReject, TagReject, Reject
  <1>5. CASE CommentSkip
    BY <1>5 DEF CommentSkip
  <1>6. CASE EolInitial
    BY <1>6 DEF EolInitial
  <1>7. CASE EolBody
    BY <1>7, ReportType DEF EolBody
  <1>8. CASE BodyNewline
    BY <1>8 DEF BodyNewline
  <1>9. CASE BodyCue
    BY <1>9 DEF BodyCue
  <1> QED BY <1>1, <1>4, <1>5, <1>6, <1>7, <1>8, <1>9, <1>2, <1>3

\* and so does a step of the reading of a cue's lines.
LEMMA LineType ==
  ASSUME TypeOK, LineText \/ LineEol \/ CarriageReturn \/ CueLine \/ TextNewline \/ TakeLine
  PROVE  TypeOK'
  <1> USE EmptySeq DEF TypeOK, SameLine, ManyBytes, Reading
  <1>1. CASE LineText
    BY <1>1, ByteType DEF LineText, lexer
  <1>2. CASE LineEol
    BY <1>2 DEF LineEol, lexer
  <1>3. CASE CarriageReturn
    <2>1. Turn /\ Put /\ pos' = pos + 1 /\ tstate' \in LexStates
      BY <1>3 DEF CarriageReturn, Use, LexStates
    <2> QED BY <1>3, <2>1, ByteType, PutType DEF CarriageReturn
  <1>4. CASE CueLine
    <2>1. Turn /\ tstate' \in LexStates /\ state' \in States
      BY <1>4 DEF CueLine, Newline, LexStates, States
    <2>2. pos' \in 0 .. lim /\ token' \in Seq(Bytes) /\ bytes' \in 0 .. ManyBytes
      BY <1>4, <2>1, ByteType, PutType DEF CueLine, Newline, Use
    <2> QED BY <1>4, <2>1, <2>2 DEF CueLine
  <1>5. CASE TextNewline
    <2>1. Turn /\ tstate' \in LexStates /\ state' \in States /\ token' \in Seq(Bytes)
      BY <1>5 DEF TextNewline, LexStates, States, LexedStates, LineStates
    <2>2. pos' \in 0 .. lim /\ bytes' \in 0 .. ManyBytes
      BY <1>5, <2>1, ByteType DEF TextNewline, OneMore
    <2>3. text' \in Seq(Bytes) /\ fromText' \in BOOLEAN
      BY <1>5 DEF TextNewline
    <2>4. line' \in Nat /\ atEol' = FALSE /\ UNCHANGED <<doc, lim, call, tk, bottom, eols, chained, errors>>
      BY <1>5 DEF TextNewline
    <2> QED BY <2>1, <2>2, <2>3, <2>4
  <1>6. CASE TakeLine
    <2>1. line' \in Nat /\ chained' \in Nat
      BY <1>6 DEF TakeLine
    <2>2. token' \in Seq(Bytes) /\ text' \in Seq(Bytes) /\ state' \in States
          /\ call' \in {"idle", "chunk", "ended", "undefined"}
      BY <1>6 DEF TakeLine, States, LineStates
    <2>3. atEol' = FALSE /\ fromText' = FALSE
          /\ UNCHANGED <<doc, lim, pos, tstate, bytes, tk, bottom, eols, errors>>
      BY <1>6 DEF TakeLine
    <2> QED BY <2>1, <2>2, <2>3
  <1> QED BY <1>1, <1>2, <1>3, <1>4, <1>5, <1>6

\* Every step keeps the types.
LEMMA NextType == TypeOK /\ [Next]_vars => TypeOK'
  <1> SUFFICES ASSUME TypeOK, [Next]_vars PROVE TypeOK'
    OBVIOUS
  <1>1. CASE Feed
    BY <1>1 DEF Feed, TypeOK, lexer, turn, read
  <1>2. CASE ChunkDone
    BY <1>2 DEF ChunkDone, TypeOK, lexer, turn, read
  <1>3. CASE UNCHANGED vars
    BY <1>3 DEF vars, TypeOK, lexer, turn, read
  <1> QED BY <1>1, <1>2, <1>3, LexType, TokenType, LineType DEF Next, Call

\* The variables always have the values of their types: no call reads behind what was
\* handed over, and every state, token and report is a known one.
THEOREM TypeCorrect == Spec => []TypeOK
  BY InitType, NextType, PTL DEF Spec

-----------------------------------------------------------------------------
(* The token stays in its buffer.                                          *)

\* How much of a token was put into the buffer when the tokenizer is in a state.
Begun(ts) == IF ts = "L_START" THEN 0
             ELSE IF ts \in {"L_BOM0", "L_WEBVTT0", "L_NEWLINE0"} THEN 1
             ELSE IF ts \in {"L_BOM1", "L_WEBVTT1"} THEN 2
             ELSE IF ts = "L_WEBVTT2" THEN 3
             ELSE IF ts = "L_WEBVTT3" THEN 4 ELSE 5

\* While a token is lexed, outside the comment: exactly what the state stands for.
LexedBound ==
  state \in LexedStates \ {"T_TAGCOMMENT"} /\ tk = "none" =>
    IF tstate = "L_WHITESPACE" THEN Len(token) \in 1 .. BufSize - 2
                               ELSE Len(token) = Begun(tstate)

\* While a cue's lines are read: the terminator of this line, and in M_CUETEXT also that
\* of the line before, which parse_webvtt left there.
LineBound ==
  /\ state \in LineStates => tstate \in {"L_START", "L_NEWLINE0"}
  /\ state = "T_CUEREAD" => Len(token) <= 1
  /\ state = "T_CUEREAD" /\ tstate = "L_START" => Len(token) = 0
  /\ state = "T_CUE" => tstate = "L_START" /\ Len(token) <= 2
  /\ state = "M_CUETEXT" => Len(token) <= 3
  /\ state = "M_CUETEXT" /\ tstate = "L_START" => Len(token) <= 2

\* A token is known once the tokenizer is back in its first state, and only while a
\* token is what the frame waits for.
KnownToken ==
  /\ tk # "none" => tstate = "L_START" /\ state \in LexedStates
  /\ atEol => state \in LineStates

\* With them, what is to be shown is inductive.
IInv == LexedBound /\ LineBound /\ KnownToken /\ TokenFits

LEMMA InitIInv == Init => IInv
  BY DEF Init, IInv, LexedBound, LineBound, KnownToken, TokenFits, Begun, LexedStates, LineStates

\* The length of a token in the making leaves room for one byte more.
LEMMA RoomLeft ==
  ASSUME TypeOK, IInv, Turn, state # "T_TAGCOMMENT", state \in LexedStates \/ atEol
  PROVE  Room
  <1>1. tk = "none" /\ Len(token) \in Nat
    BY DEF Turn, TypeOK
  <1>2. CASE state \in LexedStates
    <2>1. CASE tstate = "L_WHITESPACE"
      BY <1>1, <1>2, <2>1, BufAssumption DEF IInv, LexedBound, Room
    <2>2. CASE tstate # "L_WHITESPACE"
      <3>1. Len(token) = Begun(tstate) /\ tstate \in LexStates
        BY <1>1, <1>2, <2>2 DEF IInv, LexedBound, TypeOK
      <3>2. Begun(tstate) <= 5
        BY <2>2, <3>1 DEF Begun, LexStates
      <3> QED BY <3>1, <3>2, BufAssumption DEF Room
    <2> QED BY <2>1, <2>2
  <1>3. CASE atEol
    <2>1. state = "T_CUEREAD" \/ state = "M_CUETEXT"
      BY <1>3 DEF IInv, KnownToken, LineStates
    <2>2. Len(token) <= 3
      BY <1>1, <2>1 DEF IInv, LineBound
    <2> QED BY <1>1, <2>2, BufAssumption DEF Room
  <1> QED BY <1>2, <1>3

\* The steps of the tokenizer keep the bound,
LEMMA LexIInv ==
  ASSUME TypeOK, IInv, Lead \/ SpaceFull \/ SkipMark \/ End \/ BackUp \/ Overrun
  PROVE  IInv'
  <1> USE DEF Keep, read, IInv
  <1>1. CASE Lead
    <2>1. Turn /\ Put /\ state \in LexedStates /\ tk = "none"
      BY <1>1 DEF Lead, Lexing, Use, Turn
    <2>2. Len(token') = Len(token) + 1 /\ Len(token) \in Nat
      BY <2>1, PutType DEF TypeOK
    <2>3. UNCHANGED <<tk, state, call, atEol>>
      BY <1>1 DEF Lead
    <2>4. LexedBound'
      <3>1. CASE state = "T_TAGCOMMENT"
        BY <2>3, <3>1 DEF LexedBound
      <3>2. CASE state # "T_TAGCOMMENT"
        <4>1. CASE tstate = "L_WHITESPACE"
          <5>1. tstate' = "L_WHITESPACE" /\ ~Full /\ Len(token) \in 1 .. BufSize - 2
            BY <1>1, <2>1, <3>2, <4>1 DEF Lead, Leads, LexedBound
          <5> QED BY <2>2, <2>3, <5>1, BufAssumption DEF Full, LexedBound
        <4>2. CASE tstate # "L_WHITESPACE"
          <5>1. Len(token) = Begun(tstate)
            BY <2>1, <3>2, <4>2 DEF LexedBound
          <5>2. \/ tstate = "L_START" /\ tstate' = "L_WHITESPACE"
                \/ tstate' # "L_WHITESPACE" /\ Begun(tstate') = Begun(tstate) + 1
            BY <1>1, <4>2 DEF Lead, Leads, Begun
          <5>3. Begun("L_START") = 0
            BY DEF Begun
          <5> QED BY <2>2, <2>3, <5>1, <5>2, <5>3, BufAssumption DEF LexedBound
        <4> QED BY <4>1, <4>2
      <3> QED BY <3>1, <3>2
    <2>5. LineBound' /\ KnownToken' /\ TokenFits'
      BY <2>1, <2>3 DEF LineBound, KnownToken, TokenFits, LexedStates, LineStates
    <2> QED BY <2>4, <2>5
  <1>2. CASE SpaceFull \/ End \/ BackUp
    <2>1. tk' # "none" /\ tstate' = "L_START" /\ state \in LexedStates /\ UNCHANGED <<state, call, atEol>>
      BY <1>2 DEF SpaceFull, End, BackUp, Lexing, Ends, Otherwise
    <2> QED BY <2>1 DEF LexedBound, LineBound, KnownToken, TokenFits, LexedStates, LineStates
  <1>3. CASE SkipMark
    <2>1. tk' = tk /\ tstate' = "L_START" /\ token' = << >> /\ state \in LexedStates /\ UNCHANGED <<state, call, atEol>>
      BY <1>3 DEF SkipMark, Lexing
    <2> QED BY <2>1 DEF LexedBound, LineBound, KnownToken, TokenFits, LexedStates, LineStates, Begun
  <1>4. CASE Overrun
    <2>1. state = "T_TAGCOMMENT"
      BY <1>4, RoomLeft DEF Overrun
    <2> QED BY <1>4, <2>1 DEF Overrun, lexer, turn, LexedBound, LineBound, KnownToken, TokenFits
  <1> QED BY <1>1, <1>2, <1>3, <1>4

\* the turns over a token empty the buffer or keep the token,
LEMMA TokenIInv ==
  ASSUME TypeOK, IInv,
         \/ InitialSignature \/ InitialReject \/ TagSpace \/ TagNewline \/ TagReject
         \/ CommentNewline \/ CommentSkip \/ EolCount \/ EolInitial \/ EolBody
         \/ BodyNewline \/ BodyCue
  PROVE  IInv'
  <1> USE DEF IInv, LexedBound, LineBound, KnownToken, TokenFits, On
  <1>1. CASE InitialSignature \/ TagSpace \/ TagNewline \/ CommentNewline \/ EolCount \/ BodyNewline
    BY <1>1 DEF InitialSignature, TagSpace, TagNewline, CommentNewline, EolCount, BodyNewline,
                EndTurn, read, Begun, LexedStates, LineStates
  <1>2. CASE InitialReject \/ TagReject
    BY <1>2 DEF InitialReject, TagReject, Reject, lexer, turn, read
  <1>3. CASE CommentSkip
    BY <1>3 DEF CommentSkip, lexer, read, LexedStates, LineStates
  <1>4. CASE EolInitial \/ EolBody
    BY <1>4 DEF EolInitial, EolBody, EolReports, lexer, read, LexedStates, LineStates
  <1>5. CASE BodyCue
    BY <1>5 DEF BodyCue, EndTurn, LexedStates, LineStates
  <1> QED BY <1>1, <1>2, <1>3, <1>4, <1>5

\* and a line's terminator adds at most two bytes.
LEMMA LineIInv ==
  ASSUME TypeOK, IInv,
         LineText \/ LineEol \/ CarriageReturn \/ CueLine \/ TextNewline \/ TakeLine
  PROVE  IInv'
  <1> USE DEF IInv, LexedBound, LineBound, KnownToken, TokenFits, SameLine
  <1>1. CASE LineText \/ LineEol
    BY <1>1 DEF LineText, LineEol, lexer, Reading, LexedStates, LineStates
  <1>2. CASE CarriageReturn
    <2>1. Len(token') = Len(token) + 1 /\ Len(token) \in Nat
      BY <1>2, PutType DEF CarriageReturn, Reading, Use, TypeOK
    <2> QED BY <1>2, <2>1 DEF CarriageReturn, Reading, LexedStates, LineStates
  <1>3. CASE CueLine
    <2>1. Len(token) <= 1 /\ Len(token) \in Nat
      BY <1>3, TokenLength DEF CueLine
    <2>2. CASE Completes
      <3>1. Len(token') = Len(token) + 1
        BY <1>3, <2>2, PutType DEF CueLine, Newline, Reading, Use
      <3> QED BY <1>3, <2>1, <3>1 DEF CueLine, Newline, Reading, Turn, LexedStates, LineStates
    <2>3. CASE ~Completes
      <3>1. token' = token
        BY <1>3, <2>3 DEF CueLine, Newline
      <3> QED BY <1>3, <2>1, <3>1 DEF CueLine, Newline, Reading, Turn, LexedStates, LineStates
    <2> QED BY <2>2, <2>3
  <1>4. CASE TextNewline
    BY <1>4 DEF TextNewline, Reading, Turn, Begun, LexedStates, LineStates
  <1>5. CASE TakeLine
    BY <1>5 DEF TakeLine, Turn, LexedStates, LineStates
  <1> QED BY <1>1, <1>2, <1>3, <1>4, <1>5

\* Every step keeps the bound.
LEMMA NextIInv == TypeOK /\ IInv /\ [Next]_vars => IInv'
  <1> SUFFICES ASSUME TypeOK, IInv, [Next]_vars PROVE IInv'
    OBVIOUS
  <1> USE DEF IInv, LexedBound, LineBound, KnownToken, TokenFits
  <1>1. CASE Feed
    BY <1>1 DEF Feed, lexer, turn, read
  <1>2. CASE ChunkDone
    BY <1>2 DEF ChunkDone, lexer, turn, read
  <1>3. CASE UNCHANGED vars
    BY <1>3 DEF vars, lexer, turn, read
  <1> QED BY <1>1, <1>2, <1>3, LexIInv, TokenIInv, LineIInv DEF Next, Call

\* However long the buffer (at least the signature's seven bytes), whatever the document
\* and wherever it is cut, only the comment of the signature line takes the token out of
\* its buffer: lexer.c itself guards white space alone.
THEOREM TokenStays == Spec => []TokenFits
  <1>1. IInv => TokenFits
    BY DEF IInv
  <1> QED BY <1>1, InitType, NextType, InitIInv, NextIInv, PTL DEF Spec

-----------------------------------------------------------------------------
(* The parser's line.                                                      *)

\* The byte at i begins a terminator, or is all of it.
Begins(i) == doc[i] = "CR" \/ (doc[i] = "LF" /\ (i = 1 \/ doc[i - 1] # "CR"))

\* One byte more is at most one terminator more.
LEMMA OneTerminator ==
  ASSUME TypeOK, NEW p \in Nat
  PROVE  /\ Terminators(p) \in Nat
         /\ Terminators(p + 1) = Terminators(p) + Count(Begins(p + 1))
  <1> DEFINE T(q) == {i \in 1 .. q : Begins(i)}
  <1>1. Terminators(p) = Cardinality(T(p)) /\ Terminators(p + 1) = Cardinality(T(p + 1))
    BY DEF Terminators, Begins
  <1>2. IsFiniteSet(1 .. p)
    BY FS_Interval
  <1>3. IsFiniteSet(T(p)) /\ Cardinality(T(p)) \in Nat
    BY <1>2, FS_Subset, FS_CardinalityType
  <1>4. p + 1 \notin T(p)
    OBVIOUS
  <1>5. CASE Begins(p + 1)
    <2>1. T(p + 1) = T(p) \cup {p + 1}
      BY <1>5
    <2>2. Cardinality(T(p + 1)) = Cardinality(T(p)) + 1
      BY <1>3, <1>4, <2>1, FS_AddElement
    <2> QED BY <1>1, <1>3, <1>5, <2>2 DEF Count
  <1>6. CASE ~Begins(p + 1)
    <2>1. T(p + 1) = T(p)
      BY <1>6
    <2> QED BY <1>1, <1>3, <1>6, <2>1 DEF Count
  <1> QED BY <1>5, <1>6

\* A stretch without terminators adds none.
LEMMA NoTerminator ==
  ASSUME TypeOK, NEW p \in Nat, NEW q \in Nat, p <= q,
         \A i \in p + 1 .. q : ~IsEol(doc[i])
  PROVE  Terminators(q) = Terminators(p)
  <1>1. \A i \in 1 .. q : Begins(i) => i \in 1 .. p
    BY DEF Begins, IsEol
  <1>2. {i \in 1 .. q : Begins(i)} = {i \in 1 .. p : Begins(i)}
    BY <1>1
  <1> QED BY <1>2 DEF Terminators, Begins

\* A carriage return that was used is waiting for what follows it, or what follows is
\* known not to be a line feed.
ReturnSeen ==
  /\ tstate = "L_NEWLINE0" => pos > 0 /\ doc[pos] = "CR"
  /\ pos > 0 /\ doc[pos] = "CR" /\ tstate # "L_NEWLINE0" => pos < lim /\ doc[pos + 1] # "LF"

\* Only the terminator of a line is lexed while a cue's lines are read; a token is
\* known once the tokenizer is back in its first state; and only a line for the T_CUE
\* frame comes from a cue's text.
Phases ==
  /\ tk # "none" => tstate = "L_START" /\ state \in LexedStates
  /\ state = "T_CUE" => tstate = "L_START"
  /\ state \in LineStates => tstate \in {"L_START", "L_NEWLINE0"}
  /\ state \in LineStates /\ ~atEol => tstate = "L_START"
  /\ fromText => state = "T_CUE"

\* With them, LineCount is inductive.
CInv == ReturnSeen /\ Phases /\ LineCount

LEMMA InitCInv == Init => CInv
  <1> SUFFICES ASSUME Init PROVE CInv
    OBVIOUS
  <1>1. Terminators(0) = 0
    <2>1. {i \in 1 .. 0 : Begins(i)} = {}
      OBVIOUS
    <2> QED BY <2>1, FS_EmptySet DEF Terminators, Begins
  <1> QED BY <1>1 DEF Init, CInv, ReturnSeen, Phases, LineCount, Count, LineStates

\* What a byte that is used adds, given what is known of the byte before it.
LEMMA UsedByte ==
  ASSUME TypeOK, Turn, ReturnSeen
  PROVE  /\ pos \in Nat /\ Terminators(pos) \in Nat
         /\ pos + 1 > 0 /\ pos + 1 <= lim
         /\ ~IsEol(Byte) => Terminators(pos + 1) = Terminators(pos)
         /\ Byte = "CR" => Terminators(pos + 1) = Terminators(pos) + 1
         /\ Byte = "LF" /\ tstate = "L_NEWLINE0" => Terminators(pos + 1) = Terminators(pos)
         /\ Byte = "LF" /\ tstate # "L_NEWLINE0" => Terminators(pos + 1) = Terminators(pos) + 1
  <1>1. pos \in Nat /\ lim \in Nat /\ pos < lim /\ pos + 1 <= lim
    BY DocsAssumption DEF TypeOK, Turn
  <1>2. Terminators(pos) \in Nat /\ Terminators(pos + 1) = Terminators(pos) + Count(Begins(pos + 1))
    BY <1>1, OneTerminator
  <1>3. /\ ~IsEol(Byte) => ~Begins(pos + 1)
        /\ Byte = "CR" => Begins(pos + 1)
        /\ Byte = "LF" /\ tstate = "L_NEWLINE0" => ~Begins(pos + 1)
        /\ Byte = "LF" /\ tstate # "L_NEWLINE0" => Begins(pos + 1)
    BY <1>1 DEF Begins, Byte, IsEol, ReturnSeen
  <1> QED BY <1>1, <1>2, <1>3 DEF Count

\* What each step keeps of a terminator that is being read.
LEMMA ReturnKept ==
  ASSUME TypeOK, Turn, ReturnSeen, doc' = doc, lim' = lim,
         \/ pos' = pos + 1 /\ (Byte = "CR" <=> tstate' = "L_NEWLINE0")
         \/ pos' = pos /\ tstate' # "L_NEWLINE0" /\ (tstate = "L_NEWLINE0" => Byte # "LF")
  PROVE  ReturnSeen'
  <1>1. pos \in Nat /\ pos < lim /\ lim \in Nat
    BY DocsAssumption DEF TypeOK, Turn
  <1>2. CASE pos' = pos + 1 /\ (Byte = "CR" <=> tstate' = "L_NEWLINE0")
    BY <1>1, <1>2 DEF ReturnSeen, Byte
  <1>3. CASE pos' = pos /\ tstate' # "L_NEWLINE0" /\ (tstate = "L_NEWLINE0" => Byte # "LF")
    BY <1>1, <1>3 DEF ReturnSeen, Byte
  <1> QED BY <1>2, <1>3

\* The steps of the tokenizer count what they use,
LEMMA LexCInv ==
  ASSUME TypeOK, CInv, Lead \/ SpaceFull \/ SkipMark \/ End \/ BackUp \/ Overrun
  PROVE  CInv'
  <1> USE DEF CInv, Keep, read
  <1>1. line \in Nat /\ chained \in Nat /\ line' \in Nat
    BY LexType DEF TypeOK
  <1>2. CASE Overrun
    BY <1>2 DEF Overrun, lexer, turn, ReturnSeen, Phases, LineCount, Terminators, Turn
  <1>3. ASSUME ~Overrun PROVE CInv'
    <2>1. /\ Turn /\ state \in LexedStates /\ tk = "none" /\ call = "chunk"
          /\ UNCHANGED <<doc, lim, call, state, atEol, chained, fromText>>
      BY <1>3 DEF Lead, SpaceFull, SkipMark, End, BackUp, Lexing, Turn
    <2>2. state # "T_CUE" /\ state \notin LineStates
      BY <2>1 DEF LexedStates, LineStates
    <2>3. line + Count(tstate = "L_NEWLINE0") = 1 + Terminators(pos) + chained
      BY <1>1, <2>1, <2>2 DEF LineCount, Count
    <2>4. \A q : Terminators(q)' = Terminators(q)
      BY <2>1 DEF Terminators
    <2>5. CASE Lead
      <3>1. pos' = pos + 1 /\ line' = line /\ tstate # "L_NEWLINE0"
            /\ (Byte = "CR" <=> tstate' = "L_NEWLINE0") /\ Byte # "LF"
        BY <2>5 DEF Lead, Use, Leads
      <3>2. ReturnSeen'
        BY <2>1, <3>1, ReturnKept
      <3>3. line' + Count(tstate' = "L_NEWLINE0") = 1 + Terminators(pos') + chained
        BY <1>1, <2>1, <2>3, <3>1, UsedByte DEF Count, IsEol
      <3>4. Phases'
        BY <2>1, <2>2, <2>5 DEF Phases, Lead
      <3> QED BY <1>1, <2>1, <2>2, <2>4, <3>2, <3>3, <3>4 DEF LineCount, Count
    <2>6. CASE SpaceFull \/ SkipMark
      <3>1. pos' = pos + 1 /\ line' = line /\ tstate # "L_NEWLINE0" /\ tstate' = "L_START"
            /\ Byte \notin {"LF", "CR"}
        BY <2>6 DEF SpaceFull, SkipMark, Use, FirstMark
      <3>2. ReturnSeen'
        BY <2>1, <3>1, ReturnKept
      <3>3. line' + Count(tstate' = "L_NEWLINE0") = 1 + Terminators(pos') + chained
        BY <1>1, <2>1, <2>3, <3>1, UsedByte DEF Count, IsEol
      <3>4. Phases'
        BY <2>1, <2>2, <3>1 DEF Phases
      <3> QED BY <1>1, <2>1, <2>2, <2>4, <3>2, <3>3, <3>4 DEF LineCount, Count
    <2>7. CASE End
      <3>1. pos' = pos + 1 /\ tstate' = "L_START" /\ Byte # "CR"
            /\ \/ Byte = "LF" /\ line' = line + 1
               \/ Byte # "LF" /\ line' = line /\ tstate # "L_NEWLINE0"
        BY <2>7 DEF End, Use, Ends, NextLine
      <3>2. ReturnSeen'
        BY <2>1, <3>1, ReturnKept
      <3>3. line' + Count(tstate' = "L_NEWLINE0") = 1 + Terminators(pos') + chained
        BY <1>1, <2>1, <2>3, <3>1, UsedByte DEF Count, IsEol
      <3>4. Phases'
        BY <2>1, <2>2, <3>1 DEF Phases
      <3> QED BY <1>1, <2>1, <2>2, <2>4, <3>2, <3>3, <3>4 DEF LineCount, Count
    <2>8. CASE BackUp
      <3>1. pos' = pos /\ tstate' = "L_START" /\ (tstate = "L_NEWLINE0" => Byte # "LF")
            /\ line' = NextLine(Otherwise(tstate))
        <4>1. <<"L_NEWLINE0", "LF", "NEWLINE">> \in Leads \cup Ends
          BY DEF Ends
        <4>2. ~(tstate = "L_NEWLINE0" /\ Byte = "LF")
          BY <2>8, <4>1 DEF BackUp
        <4> QED BY <2>8, <4>2 DEF BackUp
      <3>2. ReturnSeen'
        BY <2>1, <3>1, ReturnKept
      <3>3. line' + Count(tstate' = "L_NEWLINE0") = 1 + Terminators(pos') + chained
        BY <1>1, <2>3, <3>1, UsedByte, <2>1 DEF Count, NextLine, Otherwise
      <3>4. Phases'
        BY <2>1, <2>2, <3>1 DEF Phases
      <3> QED BY <1>1, <2>1, <2>2, <2>4, <3>2, <3>3, <3>4 DEF LineCount, Count
    <2> QED BY <1>3, <2>5, <2>6, <2>7, <2>8
  <1> QED BY <1>2, <1>3

\* a turn over a token counts nothing, and the comment is passed over up to the
\* terminator,
LEMMA TokenCInv ==
  ASSUME TypeOK, CInv,
         \/ InitialSignature \/ InitialReject \/ TagSpace \/ TagNewline \/ TagReject
         \/ CommentNewline \/ CommentSkip \/ EolCount \/ EolInitial \/ EolBody
         \/ BodyNewline \/ BodyCue
  PROVE  CInv'
  <1> USE DEF CInv, On, read
  <1>1. line \in Nat /\ chained \in Nat /\ pos \in Nat /\ lim \in Nat
    BY DocsAssumption DEF TypeOK
  <1>2. /\ tk # "none" /\ tstate = "L_START" /\ state # "T_CUE" /\ state \notin LineStates
        /\ state \in LexedStates /\ ~fromText
        /\ UNCHANGED <<doc, lim, tstate, line, chained>>
    BY DEF InitialSignature, InitialReject, TagSpace, TagNewline, TagReject, CommentNewline,
           CommentSkip, EolCount, EolInitial, EolBody, BodyNewline, BodyCue, EndTurn, Reject,
           lexer, Phases, LexedStates, LineStates
  <1>3. line = 1 + Terminators(pos) + chained \/ call = "ended"
    BY <1>1, <1>2 DEF LineCount, Count
  <1>4. \A q : Terminators(q)' = Terminators(q)
    BY <1>2 DEF Terminators
  <1>5. CASE CommentSkip
    <2>1. /\ pos' \in Nat /\ pos <= pos' /\ pos' <= lim /\ \A i \in pos + 1 .. pos' : ~IsEol(doc[i])
          /\ UNCHANGED <<state, call, fromText, atEol>> /\ tk' = "none"
      BY <1>1, <1>5 DEF CommentSkip, NextEol
    <2>2. Terminators(pos') = Terminators(pos)
      BY <1>1, <2>1, NoTerminator
    <2>3. ReturnSeen'
      <3>1. CASE pos' = pos
        BY <1>2, <2>1, <3>1 DEF ReturnSeen
      <3>2. CASE pos' > pos
        <4>1. ~IsEol(doc[pos'])
          BY <1>1, <2>1, <3>2
        <4> QED BY <1>2, <4>1 DEF ReturnSeen, IsEol
      <3> QED BY <1>1, <2>1, <3>1, <3>2
    <2>4. Phases' /\ LineCount'
      BY <1>1, <1>2, <1>3, <1>4, <2>1, <2>2 DEF Phases, LineCount, Count
    <2> QED BY <2>3, <2>4
  <1>6. CASE ~CommentSkip
    <2>1. pos' = pos
      BY <1>6 DEF InitialSignature, InitialReject, TagSpace, TagNewline, TagReject, CommentNewline,
                  EolCount, EolInitial, EolBody, BodyNewline, BodyCue, EndTurn, Reject
    <2>2. /\ state' # "T_CUE" /\ ~fromText' /\ (state' \in LineStates => tk' = "none" /\ tstate' = "L_START")
          /\ (tk' # "none" => state' \in LexedStates) /\ (call' # "ended" => call # "ended")
      BY <1>2, <1>6 DEF InitialSignature, InitialReject, TagSpace, TagNewline, TagReject, CommentNewline,
                  EolCount, EolInitial, EolBody, BodyNewline, BodyCue, EndTurn, Reject, turn,
                  LexedStates, LineStates
    <2>3. ReturnSeen'
      BY <1>2, <2>1 DEF ReturnSeen
    <2> QED BY <1>1, <1>2, <1>3, <1>4, <2>1, <2>2, <2>3 DEF Phases, LineCount, Count
  <1> QED BY <1>5, <1>6

\* and a line of a cue counts when it was read, or when it was looked at.
LEMMA LineCInv ==
  ASSUME TypeOK, CInv,
         LineText \/ LineEol \/ CarriageReturn \/ CueLine \/ TextNewline \/ TakeLine
  PROVE  CInv'
  <1> USE DEF CInv
  <1>1. line \in Nat /\ chained \in Nat
    BY DEF TypeOK
  <1>2. /\ Turn /\ tk = "none" /\ tk' = tk /\ doc' = doc /\ lim' = lim /\ call = "chunk"
    BY DEF LineText, LineEol, CarriageReturn, CueLine, TextNewline, TakeLine, Newline, Reading,
           Turn, SameLine
  <1>3. \A q : Terminators(q)' = Terminators(q)
    BY <1>2 DEF Terminators
  <1>4. line + Count(state = "T_CUE" /\ ~fromText) + Count(tstate = "L_NEWLINE0") = 1 + Terminators(pos) + chained
    BY <1>2 DEF LineCount
  <1>5. CASE LineText
    <2>1. /\ state \in LineStates /\ ~atEol /\ ~IsEol(Byte) /\ pos' = pos + 1
          /\ UNCHANGED <<tstate, line, state, atEol, chained, fromText, call>>
      BY <1>5 DEF LineText, Reading, lexer, SameLine
    <2>2. tstate = "L_START" /\ tstate' = "L_START"
      BY <2>1 DEF Phases
    <2>3. ReturnSeen'
      BY <1>2, <2>1, <2>2, ReturnKept DEF IsEol
    <2>4. Phases'
      BY <1>2, <2>1, <2>2 DEF Phases
    <2>5. Terminators(pos') = Terminators(pos)
      BY <1>2, <2>1, UsedByte
    <2> QED BY <1>2, <1>3, <1>4, <2>1, <2>2, <2>3, <2>4, <2>5 DEF LineCount, Count
  <1>6. CASE LineEol
    <2>1. /\ atEol' = TRUE /\ state \in LineStates
          /\ UNCHANGED <<pos, tstate, line, state, chained, fromText, call>>
      BY <1>6 DEF LineEol, Reading, lexer, SameLine
    <2> QED BY <1>2, <1>3, <2>1 DEF ReturnSeen, Phases, LineCount, LineStates
  <1>7. CASE CarriageReturn
    <2>1. /\ state \in LineStates /\ atEol /\ Byte = "CR" /\ pos' = pos + 1
          /\ tstate = "L_START" /\ tstate' = "L_NEWLINE0"
          /\ UNCHANGED <<line, state, atEol, chained, fromText, call>>
      BY <1>7 DEF CarriageReturn, Reading, Use, SameLine
    <2>2. ReturnSeen'
      BY <1>2, <2>1, ReturnKept
    <2>3. Phases'
      BY <1>2, <2>1 DEF Phases, LineStates
    <2>4. state # "T_CUE" /\ Terminators(pos') = Terminators(pos) + 1 /\ Terminators(pos) \in Nat
      BY <1>2, <2>1, UsedByte DEF LineStates
    <2> QED BY <1>1, <1>2, <1>3, <1>4, <2>1, <2>2, <2>3, <2>4 DEF LineCount, Count
  <1>8. CASE CueLine
    <2>1. /\ state = "T_CUEREAD" /\ state' = "T_CUE" /\ tstate' = "L_START"
          /\ UNCHANGED <<line, chained, fromText, call>>
          /\ \/ Byte = "LF" /\ pos' = pos + 1
             \/ Byte # "LF" /\ pos' = pos /\ tstate = "L_NEWLINE0"
      BY <1>8 DEF CueLine, Newline, Completes, Use, SameLine
    <2>2. ~fromText /\ tstate \in {"L_START", "L_NEWLINE0"}
      BY <2>1 DEF Phases, LineStates
    <2>3. ReturnSeen'
      BY <1>2, <2>1, ReturnKept
    <2>4. Phases'
      BY <1>2, <2>1, <2>2 DEF Phases, LineStates
    <2>5. Terminators(pos) \in Nat /\ Terminators(pos') + Count(tstate = "L_NEWLINE0") = Terminators(pos) + 1
      BY <1>2, <2>1, <2>2, UsedByte DEF Count
    <2>6. Terminators(pos') \in Nat
      BY <1>2, <2>1, UsedByte, OneTerminator
    <2> QED BY <1>1, <1>2, <1>3, <1>4, <2>1, <2>2, <2>3, <2>4, <2>5, <2>6 DEF LineCount, Count
  <1>9. CASE TextNewline
    <2>1. /\ state = "M_CUETEXT" /\ tstate' = "L_START" /\ line' = line + 1
          /\ UNCHANGED <<chained, call>> /\ atEol' = FALSE
          /\ \/ Byte = "LF" /\ pos' = pos + 1
             \/ Byte # "LF" /\ pos' = pos /\ tstate = "L_NEWLINE0"
      BY <1>9 DEF TextNewline, Completes
    <2>2. fromText = FALSE /\ tstate \in {"L_START", "L_NEWLINE0"}
      BY <2>1 DEF Phases, LineStates, TypeOK
    <2>3. \/ state' \in {"T_BODY", "M_CUETEXT"} /\ fromText' = FALSE
          \/ state' = "T_CUE" /\ fromText' = TRUE
      <3>1. \/ state' = "T_BODY" /\ fromText' = fromText
            \/ state' = state /\ fromText' = fromText
            \/ state' = "T_CUE" /\ fromText' = TRUE
        BY <1>9 DEF TextNewline
      <3> QED BY <2>1, <2>2, <3>1
    <2>4. ReturnSeen'
      BY <1>2, <2>1, ReturnKept
    <2>5. Phases'
      BY <1>2, <2>1, <2>3 DEF Phases, LineStates
    <2>6. Terminators(pos) \in Nat /\ Terminators(pos') + Count(tstate = "L_NEWLINE0") = Terminators(pos) + 1
      BY <1>2, <2>1, <2>2, UsedByte DEF Count
    <2>7. Terminators(pos') \in Nat
      BY <1>2, <2>1, UsedByte, OneTerminator
    <2>8. line' = 1 + Terminators(pos') + chained
      BY <1>1, <1>4, <2>1, <2>2, <2>6, <2>7 DEF Count
    <2> QED BY <1>1, <1>3, <2>1, <2>3, <2>4, <2>5, <2>7, <2>8 DEF LineCount, Count
  <1>10. CASE TakeLine
    <2>1. /\ state = "T_CUE" /\ line' = line + 1
          /\ chained' = (IF fromText THEN chained + 1 ELSE chained)
          /\ atEol' = FALSE /\ ~fromText' /\ UNCHANGED <<pos, tstate>>
          /\ (state' \in LineStates \/ (call' = "ended" /\ state' = state))
      BY <1>10 DEF TakeLine, LineStates
    <2>2. tstate = "L_START"
      BY <2>1 DEF Phases
    <2>3. ReturnSeen'
      BY <1>2, <2>1 DEF ReturnSeen
    <2>4. Phases'
      BY <1>2, <2>1, <2>2 DEF Phases, LineStates
    <2>5. Terminators(pos) \in Nat
      BY <1>2, UsedByte
    <2>6. line' = 1 + Terminators(pos) + chained'
      BY <1>1, <1>4, <2>1, <2>2, <2>5 DEF Count
    <2>7. state' # "T_CUE" \/ call' = "ended"
      BY <2>1 DEF LineStates
    <2> QED BY <1>1, <1>3, <2>1, <2>2, <2>3, <2>4, <2>5, <2>6, <2>7 DEF LineCount, Count
  <1> QED BY <1>5, <1>6, <1>7, <1>8, <1>9, <1>10

\* Every step counts what it uses.
LEMMA NextCInv == TypeOK /\ CInv /\ [Next]_vars => CInv'
  <1> SUFFICES ASSUME TypeOK, CInv, [Next]_vars PROVE CInv'
    OBVIOUS
  <1>1. ASSUME doc' = doc, pos' = pos, pos < lim => pos < lim', call' # "ended" => call # "ended",
               UNCHANGED <<lexer, turn, read>>
        PROVE  CInv'
    <2>1. ReturnSeen'
      BY <1>1 DEF CInv, ReturnSeen, lexer
    <2>2. Phases' /\ LineCount'
      BY <1>1 DEF CInv, Phases, LineCount, Terminators, lexer, turn, read
    <2> QED BY <2>1, <2>2 DEF CInv
  <1>2. CASE Feed
    <2>1. pos \in Nat /\ lim \in Nat /\ Len(doc) \in Nat
      BY DocsAssumption DEF TypeOK
    <2>2. pos < lim => pos < lim'
      BY <1>2, <2>1 DEF Feed
    <2> QED BY <1>1, <1>2, <2>2 DEF Feed
  <1>3. CASE ChunkDone
    BY <1>1, <1>3, DocsAssumption DEF ChunkDone, TypeOK
  <1>4. CASE UNCHANGED vars
    BY <1>1, <1>4, DocsAssumption DEF vars, TypeOK
  <1> QED BY <1>2, <1>3, <1>4, LexCInv, TokenCInv, LineCInv DEF Next, Call

\* Whatever the document and wherever it is cut, also inside CR LF, the line the parser
\* reports is the document's, but for the lines of cue text that began another cue,
\* each of which it counts twice.
THEOREM LinesCounted == Spec => []LineCount
  <1>1. CInv => LineCount
    BY DEF CInv
  <1> QED BY <1>1, InitType, NextType, InitCInv, NextCInv, PTL DEF Spec

-----------------------------------------------------------------------------
(* The lines of a cue.                                                     *)

\* The place of the last terminator in the first p bytes of w, and that t is all that
\* follows it up to p.
LastEol(w, p) == SelectLastInSeq(SubSeq(w, 1, p), IsEol)
IsLine(w, t, p) == LastEol(w, p) \in 0 .. p /\ t = SubSeq(w, 1 + LastEol(w, p), p)

\* Then t is the line before p.
LEMMA LineIsBefore == \A t, p : IsLine(doc, t, p) => t = LineBefore(p)
  BY DEF IsLine, LastEol, LineBefore

\* After a terminator, and at the start, nothing has been read of a line.
LEMMA LineBegins ==
  ASSUME NEW w \in Seq(Bytes), NEW p \in 0 .. Len(w), p = 0 \/ IsEol(w[p])
  PROVE  IsLine(w, << >>, p)
  <1> DEFINE u == SubSeq(w, 1, p)
             I == {i \in 1 .. Len(u) : IsEol(u[i])}
  <1>1. Len(u) = p /\ \A i \in 1 .. p : u[i] = w[i]
    OBVIOUS
  <1>2. LastEol(w, p) = p
    <2>1. LastEol(w, p) = IF I # {} THEN Max(I) ELSE 0
      BY DEF LastEol, SelectLastInSeq
    <2>2. CASE p = 0
      <3>1. I = {}
        BY <1>1, <2>2
      <3> HIDE DEF I
      <3> QED BY <2>1, <2>2, <3>1
    <2>3. CASE p # 0
      <3>1. p \in I /\ \A i \in I : i \in Nat /\ i <= p
        BY <1>1, <2>3
      <3> HIDE DEF I
      <3>2. \E x \in I : \A y \in I : x >= y
        BY <3>1
      <3>3. Max(I) \in I /\ \A y \in I : Max(I) >= y
        BY <3>2, Zenon DEF Max
      <3>4. p \in Nat
        BY Len(w) \in Nat
      <3> DEFINE m == Max(I)
      <3>5. m \in I /\ \A y \in I : m >= y
        BY <3>3
      <3> HIDE DEF m
      <3>6. m \in Nat /\ m <= p /\ m >= p
        BY <3>1, <3>5
      <3>7. m = p
        BY <3>4, <3>6
      <3> QED BY <2>1, <3>1, <3>7 DEF m
    <2> QED BY <2>2, <2>3
  <1>3. SubSeq(w, 1 + p, p) = << >>
    OBVIOUS
  <1> QED BY <1>2, <1>3 DEF IsLine

\* A byte that is not of a terminator makes the line longer.
LEMMA LineGrows ==
  ASSUME NEW w \in Seq(Bytes), NEW p \in Nat, p + 1 <= Len(w), NEW t, IsLine(w, t, p),
         ~IsEol(w[p + 1])
  PROVE  IsLine(w, Append(t, w[p + 1]), p + 1)
  <1> DEFINE u == SubSeq(w, 1, p)
             v == SubSeq(w, 1, p + 1)
             I == {i \in 1 .. Len(u) : IsEol(u[i])}
             J == {i \in 1 .. Len(v) : IsEol(v[i])}
             k == LastEol(w, p)
  <1>1. /\ Len(u) = p /\ \A i \in 1 .. p : u[i] = w[i]
        /\ Len(v) = p + 1 /\ \A i \in 1 .. p + 1 : v[i] = w[i]
    OBVIOUS
  <1>2. I = J
    BY <1>1
  <1>3. LastEol(w, p + 1) = k
    <2>1. LastEol(w, p) = IF I # {} THEN Max(I) ELSE 0
      BY DEF LastEol, SelectLastInSeq
    <2>2. LastEol(w, p + 1) = IF J # {} THEN Max(J) ELSE 0
      BY DEF LastEol, SelectLastInSeq
    <2> HIDE DEF I, J
    <2> QED BY <1>2, <2>1, <2>2
  <1>4. k \in 0 .. p /\ t = SubSeq(w, 1 + k, p)
    BY DEF IsLine
  <1> HIDE DEF k
  <1>5. SubSeq(w, 1 + k, p + 1) = Append(SubSeq(w, 1 + k, p), w[p + 1])
    BY <1>4
  <1>6. LastEol(w, p + 1) \in 0 .. p + 1
    BY <1>3, <1>4
  <1>7. SubSeq(w, 1 + LastEol(w, p + 1), p + 1) = Append(t, w[p + 1])
    BY <1>3, <1>4, <1>5, Zenon
  <1> QED BY <1>6, <1>7, Zenon DEF IsLine

\* How many bytes there must have been before a part of the signature.
Spelt(ts) == IF ts = "L_WEBVTT0" THEN 1 ELSE IF ts = "L_WEBVTT1" THEN 2
             ELSE IF ts = "L_WEBVTT2" THEN 3 ELSE IF ts \in {"L_WEBVTT3", "L_WEBVTT4"} THEN 4
             ELSE 0

\* No byte order mark is forgotten after the signature: by then too many bytes were used.
MarkIsOver == /\ bytes >= Spelt(tstate)
              /\ tk = "WEBVTT" => bytes = ManyBytes
              /\ state # "T_INITIAL" => bytes = ManyBytes

\* After the header the token is all that was read of a line, or its terminator.
TokenIsLine ==
  /\ tk = "NEWLINE" => pos > 0 /\ IsEol(doc[pos])
  /\ state \in {"T_EOL", "T_BODY"} /\ tk # "NEWLINE" /\ tstate # "L_NEWLINE0" => IsLine(doc, token, pos)

\* So is what was read of the line of a cue.
TextIsLine ==
  call # "ended" =>
    /\ state \in LineStates => IsLine(doc, text, IF tstate = "L_NEWLINE0" THEN pos - 1 ELSE pos)
    /\ state = "T_CUE" => /\ pos > 0 /\ IsEol(doc[pos])
                          /\ IsLine(doc, text, pos - TerminatorLength(pos))

\* Together with what was shown before, these are inductive.
XInv == MarkIsOver /\ TokenIsLine /\ TextIsLine
Before == TypeOK /\ IInv /\ CInv

LEMMA InitXInv == Init => XInv
  BY DEF Init, XInv, MarkIsOver, TokenIsLine, TextIsLine, Spelt, LineStates

\* What is known of the document and the place in it.
LEMMA Place ==
  ASSUME TypeOK
  PROVE  /\ doc \in Seq(Bytes) /\ pos \in Nat /\ pos \in 0 .. Len(doc) /\ lim \in Nat
         /\ Turn => pos + 1 \in 0 .. Len(doc) /\ Byte = doc[pos + 1] /\ pos + 1 > 0
  BY DocsAssumption DEF TypeOK, Turn, Byte

\* A token is lexed from a line, and from its terminator,
LEMMA LexXInv ==
  ASSUME Before, XInv, Lead \/ SpaceFull \/ SkipMark \/ End \/ BackUp \/ Overrun
  PROVE  XInv'
  <1> USE DEF Before
  <1>1. /\ doc \in Seq(Bytes) /\ pos \in Nat /\ pos \in 0 .. Len(doc)
        /\ bytes \in 0 .. 4 /\ tstate \in LexStates
    BY Place DEF TypeOK, ManyBytes
  <1>2. CASE Overrun
    BY <1>2 DEF Overrun, Turn, lexer, turn, read, XInv, MarkIsOver, TokenIsLine, TextIsLine, TerminatorLength
  <1>3. ASSUME ~Overrun PROVE XInv'
    <2>1. /\ Turn /\ state \in LexedStates /\ tk = "none" /\ call = "chunk"
          /\ UNCHANGED <<doc, lim, call, state, atEol, text>>
      BY <1>3 DEF Lead, SpaceFull, SkipMark, End, BackUp, Lexing, Turn, Keep, read
    <2>2. pos + 1 \in 0 .. Len(doc) /\ Byte = doc[pos + 1]
      BY <2>1, Place
    <2>3. TextIsLine'
      BY <2>1 DEF TextIsLine, LexedStates, LineStates
    <2>4. MarkIsOver'
      <3>1. CASE Lead
        <4>1. bytes' = OneMore(bytes) /\ Spelt(tstate') <= Spelt(tstate) + 1 /\ Spelt(tstate') <= 4 /\ tk' = tk
          BY <3>1 DEF Lead, Leads, Spelt, Use, Put
        <4>2. Spelt(tstate) \in Nat /\ Spelt(tstate') \in Nat
          BY DEF Spelt
        <4> QED BY <1>1, <2>1, <4>1, <4>2 DEF XInv, MarkIsOver, OneMore, ManyBytes
      <3>2. CASE SpaceFull \/ BackUp
        <4>1. bytes' = OneMore(bytes) /\ tstate' = "L_START" /\ tk' # "WEBVTT"
          BY <3>2 DEF SpaceFull, BackUp, Use, Put, Otherwise
        <4> QED BY <1>1, <2>1, <4>1 DEF XInv, MarkIsOver, OneMore, ManyBytes, Spelt
      <3>3. CASE End
        <4>1. bytes' = OneMore(bytes) /\ tstate' = "L_START" /\ (tk' = "WEBVTT" => tstate = "L_WEBVTT4")
          BY <3>3 DEF End, Ends, Use, Put
        <4>2. Spelt("L_WEBVTT4") = 4
          BY DEF Spelt
        <4> QED BY <1>1, <2>1, <4>1, <4>2 DEF XInv, MarkIsOver, OneMore, ManyBytes, Spelt
      <3>4. CASE SkipMark
        <4>1. bytes = 2 /\ bytes' = 0 /\ tstate' = "L_START" /\ tk' = tk
          BY <3>4 DEF SkipMark, FirstMark
        <4> QED BY <2>1, <4>1 DEF XInv, MarkIsOver, ManyBytes, Spelt
      <3> QED BY <1>3, <3>1, <3>2, <3>3, <3>4
    <2>5. TokenIsLine'
      <3>1. CASE Lead \/ SpaceFull
        <4>1. /\ pos' = pos + 1 /\ token' = Append(token, Byte) /\ tk' # "NEWLINE"
              /\ tstate # "L_NEWLINE0" /\ (tstate' # "L_NEWLINE0" => ~IsEol(Byte))
          BY <2>1, <3>1 DEF Lead, SpaceFull, Use, Put, Leads, IsEol
        <4> QED BY <1>1, <2>1, <2>2, <4>1, LineGrows DEF XInv, TokenIsLine
      <3>2. CASE End
        <4>1. /\ pos' = pos + 1 /\ token' = Append(token, Byte)
              /\ \/ tk' = "NEWLINE" /\ Byte = "LF"
                 \/ tk' # "NEWLINE" /\ ~IsEol(Byte) /\ tstate # "L_NEWLINE0"
          BY <3>2 DEF End, Use, Put, Ends, IsEol
        <4> QED BY <1>1, <2>1, <2>2, <4>1, LineGrows DEF XInv, TokenIsLine, IsEol
      <3>3. CASE BackUp
        <4>1. pos' = pos /\ token' = token /\ (tk' = "NEWLINE" <=> tstate = "L_NEWLINE0")
          BY <3>3 DEF BackUp, Otherwise
        <4>2. tstate = "L_NEWLINE0" => pos > 0 /\ IsEol(doc[pos])
          BY DEF CInv, ReturnSeen, IsEol
        <4> QED BY <2>1, <4>1, <4>2 DEF XInv, TokenIsLine
      <3>4. CASE SkipMark
        <4>1. bytes = 2 /\ tk' = tk
          BY <3>4 DEF SkipMark, FirstMark
        <4>2. state = "T_INITIAL"
          BY <4>1 DEF XInv, MarkIsOver, ManyBytes
        <4> QED BY <2>1, <4>1, <4>2 DEF TokenIsLine
      <3> QED BY <1>3, <3>1, <3>2, <3>3, <3>4
    <2> QED BY <2>3, <2>4, <2>5 DEF XInv
  <1> QED BY <1>2, <1>3

\* a turn over a token keeps it for the cue, or starts behind a terminator,
LEMMA TokenXInv ==
  ASSUME Before, XInv,
         \/ InitialSignature \/ InitialReject \/ TagSpace \/ TagNewline \/ TagReject
         \/ CommentNewline \/ CommentSkip \/ EolCount \/ EolInitial \/ EolBody
         \/ BodyNewline \/ BodyCue
  PROVE  XInv'
  <1> USE DEF Before
  <1>1. doc \in Seq(Bytes) /\ pos \in Nat /\ pos \in 0 .. Len(doc)
    BY Place
  <1>2. /\ tk # "none" /\ state \in LexedStates /\ tstate = "L_START"
        /\ UNCHANGED <<doc, tstate, bytes>>
    BY DEF InitialSignature, InitialReject, TagSpace, TagNewline, TagReject, CommentNewline,
           CommentSkip, EolCount, EolInitial, EolBody, BodyNewline, BodyCue, EndTurn, Reject,
           lexer, On, CInv, Phases
  <1>3. MarkIsOver'
    <2>1. /\ tk' = tk \/ tk' = "none"
          /\ state' # "T_INITIAL" => state # "T_INITIAL" \/ tk = "WEBVTT"
      BY DEF InitialSignature, InitialReject, TagSpace, TagNewline, TagReject, CommentNewline,
           CommentSkip, EolCount, EolInitial, EolBody, BodyNewline, BodyCue, EndTurn, Reject,
           turn, On
    <2> QED BY <1>2, <2>1 DEF XInv, MarkIsOver
  <1>4. CASE InitialReject \/ TagReject
    <2>1. call' = "ended" /\ UNCHANGED <<pos, token, state, tk>>
      BY <1>4 DEF InitialReject, TagReject, Reject, lexer, turn
    <2> QED BY <1>2, <1>3, <2>1 DEF XInv, TokenIsLine, TextIsLine
  <1>5. CASE InitialSignature \/ TagSpace \/ CommentSkip
    <2>1. tk' = "none" /\ state' \in {"T_TAG", "T_TAGCOMMENT"}
      BY <1>5 DEF InitialSignature, TagSpace, CommentSkip, EndTurn, On
    <2> QED BY <1>3, <2>1 DEF XInv, TokenIsLine, TextIsLine, LineStates
  <1>6. CASE TagNewline \/ CommentNewline \/ EolCount \/ BodyNewline
    <2>1. tk = "NEWLINE" /\ tk' = "none" /\ token' = << >> /\ pos' = pos /\ state' \in {"T_EOL", "T_BODY"}
      BY <1>6 DEF TagNewline, CommentNewline, EolCount, BodyNewline, EndTurn, On
    <2>2. IsLine(doc, << >>, pos)
      BY <1>1, <2>1, LineBegins DEF XInv, TokenIsLine
    <2> QED BY <1>2, <1>3, <2>1, <2>2 DEF XInv, TokenIsLine, TextIsLine, LineStates
  <1>7. CASE EolInitial \/ EolBody
    <2>1. state = "T_EOL" /\ tk # "NEWLINE" /\ state' \in {"T_INITIAL", "T_BODY"} /\ UNCHANGED <<pos, token, tk>>
      BY <1>7 DEF EolInitial, EolBody, lexer, On
    <2> QED BY <1>2, <1>3, <2>1 DEF XInv, TokenIsLine, TextIsLine, LineStates
  <1>8. CASE BodyCue
    <2>1. /\ state = "T_BODY" /\ tk # "NEWLINE" /\ tk' = "none" /\ state' = "T_CUEREAD"
          /\ text' = token /\ pos' = pos
      BY <1>8 DEF BodyCue, EndTurn, On
    <2>2. IsLine(doc, token, pos)
      BY <1>2, <2>1 DEF XInv, TokenIsLine
    <2> QED BY <1>2, <1>3, <2>1, <2>2 DEF XInv, TokenIsLine, TextIsLine, LineStates
  <1> QED BY <1>4, <1>5, <1>6, <1>7, <1>8

\* A line's terminator, as it is completed: what was read of the line ends before it,
\* and the next line begins behind it.
LEMMA TerminatorRead ==
  ASSUME Before, XInv, Turn, state \in LineStates, call = "chunk", doc' = doc,
         \/ Byte = "LF" /\ pos' = pos + 1
         \/ Byte # "LF" /\ tstate = "L_NEWLINE0" /\ pos' = pos
  PROVE  /\ pos' \in 0 .. Len(doc) /\ pos' > 0 /\ IsEol(doc[pos'])
         /\ IsLine(doc, text, pos' - TerminatorLength(pos)')
         /\ IsLine(doc, << >>, pos')
  <1> USE DEF Before
  <1>1. /\ doc \in Seq(Bytes) /\ pos \in Nat /\ pos \in 0 .. Len(doc)
        /\ pos + 1 \in 0 .. Len(doc) /\ Byte = doc[pos + 1] /\ pos < lim
    BY Place DEF Turn
  <1>2. /\ tstate = "L_NEWLINE0" => pos > 0 /\ doc[pos] = "CR"
        /\ pos > 0 /\ doc[pos] = "CR" /\ tstate # "L_NEWLINE0" => doc[pos + 1] # "LF"
    BY DEF CInv, ReturnSeen
  <1>3. IsLine(doc, text, IF tstate = "L_NEWLINE0" THEN pos - 1 ELSE pos)
    BY DEF XInv, TextIsLine
  <1>4. pos' \in 0 .. Len(doc) /\ pos' > 0 /\ IsEol(doc[pos'])
    BY <1>1, <1>2 DEF IsEol
  <1>5. pos' - TerminatorLength(pos)' = IF tstate = "L_NEWLINE0" THEN pos - 1 ELSE pos
    BY <1>1, <1>2 DEF TerminatorLength
  <1> QED BY <1>1, <1>3, <1>4, <1>5, LineBegins

\* and a line of a cue is read up to its terminator.
LEMMA LineXInv ==
  ASSUME Before, XInv,
         LineText \/ LineEol \/ CarriageReturn \/ CueLine \/ TextNewline \/ TakeLine
  PROVE  XInv'
  <1> USE DEF Before
  <1>1. /\ doc \in Seq(Bytes) /\ pos \in Nat /\ pos \in 0 .. Len(doc) /\ bytes \in 0 .. 4
    BY Place DEF TypeOK, ManyBytes
  <1>2. /\ Turn /\ tk = "none" /\ tk' = "none" /\ doc' = doc /\ call = "chunk"
        /\ state \in LineStates \cup {"T_CUE"} /\ state # "T_INITIAL"
    BY DEF LineText, LineEol, CarriageReturn, CueLine, TextNewline, TakeLine, Newline, Reading,
           Turn, SameLine, LineStates
  <1>3. pos + 1 \in 0 .. Len(doc) /\ Byte = doc[pos + 1]
    BY <1>2, Place
  <1>4. MarkIsOver'
    <2>1. /\ bytes' = bytes \/ bytes' = OneMore(bytes)
          /\ tstate' \in {"L_START", "L_NEWLINE0"} /\ state' # "T_INITIAL"
      BY <1>2 DEF LineText, LineEol, CarriageReturn, CueLine, TextNewline, TakeLine, Newline, Use, Put,
             Reading, lexer, LineStates, CInv, Phases
    <2>2. bytes = 4
      BY <1>2 DEF XInv, MarkIsOver, ManyBytes
    <2> QED BY <1>2, <2>1, <2>2 DEF MarkIsOver, OneMore, ManyBytes, Spelt
  <1>5. CASE LineText
    <2>1. /\ state \in LineStates /\ ~IsEol(Byte) /\ text' = Append(text, Byte) /\ pos' = pos + 1
          /\ UNCHANGED <<state, tstate>> /\ tstate = "L_START"
      BY <1>5 DEF LineText, Reading, lexer, SameLine, CInv, Phases
    <2>2. IsLine(doc, text', pos')
      BY <1>1, <1>2, <1>3, <2>1, LineGrows DEF XInv, TextIsLine
    <2> QED BY <1>2, <1>4, <2>1, <2>2 DEF XInv, TokenIsLine, TextIsLine, LineStates
  <1>6. CASE LineEol
    <2>1. state \in LineStates /\ UNCHANGED <<state, tstate, text, pos, call>>
      BY <1>6 DEF LineEol, Reading, lexer, SameLine
    <2> QED BY <1>2, <1>4, <2>1 DEF XInv, TokenIsLine, TextIsLine, LineStates
  <1>7. CASE CarriageReturn
    <2>1. /\ state \in LineStates /\ pos' = pos + 1 /\ tstate = "L_START" /\ tstate' = "L_NEWLINE0"
          /\ UNCHANGED <<state, text>>
      BY <1>7 DEF CarriageReturn, Reading, Use, SameLine
    <2>2. IsLine(doc, text, pos' - 1)
      BY <1>1, <1>2, <2>1 DEF XInv, TextIsLine
    <2> QED BY <1>2, <1>4, <2>1, <2>2 DEF XInv, TokenIsLine, TextIsLine, LineStates
  <1>8. CASE CueLine
    <2>1. /\ state \in LineStates /\ state' = "T_CUE" /\ text' = text
          /\ \/ Byte = "LF" /\ pos' = pos + 1
             \/ Byte # "LF" /\ tstate = "L_NEWLINE0" /\ pos' = pos
      BY <1>8 DEF CueLine, Newline, Completes, Use, LineStates
    <2>2. pos' > 0 /\ IsEol(doc[pos']) /\ IsLine(doc, text, pos' - TerminatorLength(pos)')
      BY <1>2, <2>1, TerminatorRead
    <2> QED BY <1>2, <1>4, <2>1, <2>2 DEF XInv, TokenIsLine, TextIsLine, LineStates
  <1>9. CASE TextNewline
    <2>1. /\ state \in LineStates /\ tstate' = "L_START" /\ token' = << >>
          /\ \/ Byte = "LF" /\ pos' = pos + 1
             \/ Byte # "LF" /\ tstate = "L_NEWLINE0" /\ pos' = pos
          /\ \/ state' = "T_BODY"
             \/ state' \in LineStates /\ text' = << >>
             \/ state' = "T_CUE" /\ text' = text
      BY <1>9 DEF TextNewline, Completes, LineStates
    <2>2. /\ pos' > 0 /\ IsEol(doc[pos']) /\ IsLine(doc, text, pos' - TerminatorLength(pos)')
          /\ IsLine(doc, << >>, pos')
      BY <1>2, <2>1, TerminatorRead
    <2> QED BY <1>2, <1>4, <2>1, <2>2 DEF XInv, TokenIsLine, TextIsLine, LineStates
  <1>10. CASE TakeLine
    <2>1. /\ state = "T_CUE" /\ text' = << >> /\ UNCHANGED <<pos, tstate>>
          /\ state' \in LineStates \/ (call' = "ended" /\ state' = state)
      BY <1>10 DEF TakeLine, LineStates
    <2>2. tstate = "L_START"
      BY <2>1 DEF CInv, Phases
    <2>3. IsLine(doc, << >>, pos)
      BY <1>1, <1>2, <2>1, LineBegins DEF XInv, TextIsLine
    <2> QED BY <1>2, <1>4, <2>1, <2>2, <2>3 DEF XInv, TokenIsLine, TextIsLine, LineStates
  <1> QED BY <1>5, <1>6, <1>7, <1>8, <1>9, <1>10

\* Every step keeps the lines.
LEMMA NextXInv == Before /\ XInv /\ [Next]_vars => XInv'
  <1> SUFFICES ASSUME Before, XInv, [Next]_vars PROVE XInv'
    OBVIOUS
  <1>1. ASSUME UNCHANGED <<doc, pos, lexer, turn, read>>, call' # "ended" => call # "ended" PROVE XInv'
    BY <1>1 DEF XInv, MarkIsOver, TokenIsLine, TextIsLine, TerminatorLength, lexer, turn, read
  <1>2. CASE Feed \/ ChunkDone \/ UNCHANGED vars
    BY <1>1, <1>2 DEF Feed, ChunkDone, vars
  <1> QED BY <1>2, LexXInv, TokenXInv, LineXInv DEF Next, Call

\* Whatever the document, wherever it is cut and whatever the size of the buffer: the
\* line of a cue is what the document has between two terminators; no byte of it is lost
\* in the buffer, and none of another line is left there.
THEOREM TextIsExact == Spec => []TextExact
  <1>1. XInv => TextExact
    BY LineIsBefore DEF XInv, TextIsLine, TextExact
  <1>2. Before /\ [Next]_vars => Before'
    BY NextType, NextIInv, NextCInv DEF Before
  <1>3. Init => Before
    BY InitType, InitIInv, InitCInv DEF Before
  <1> QED BY <1>1, <1>2, <1>3, InitXInv, NextXInv, PTL DEF Spec

-----------------------------------------------------------------------------
(* The header of a document.                                               *)

\* The n bytes after p, one by one.
Reads(p, b) == \A i \in DOMAIN b : At(p + i) = b[i]
Signature == <<"W", "E", "B", "V", "T", "T">>
Mark == <<"EF", "BB", "BF">>

LEMMA StretchReads == \A p \in Nat : /\ Stretch(p + 1, 6) = Signature <=> Reads(p, Signature)
                                     /\ Stretch(p + 1, 3) = Mark <=> Reads(p, Mark)
  <1> SUFFICES ASSUME NEW p \in Nat
               PROVE  /\ Stretch(p + 1, 6) = Signature <=> Reads(p, Signature)
                      /\ Stretch(p + 1, 3) = Mark <=> Reads(p, Mark)
    OBVIOUS
  <1>1. \A n \in Nat : DOMAIN Stretch(p + 1, n) = 1 .. n /\ \A i \in 1 .. n : Stretch(p + 1, n)[i] = At(p + i)
    BY DEF Stretch
  <1>2. DOMAIN Signature = 1 .. 6 /\ DOMAIN Mark = 1 .. 3
    BY DEF Signature, Mark
  <1>3. ASSUME NEW b, NEW n \in Nat, DOMAIN b = 1 .. n, b = [i \in 1 .. n |-> b[i]]
        PROVE  Stretch(p + 1, n) = b <=> Reads(p, b)
    BY <1>1, <1>3 DEF Stretch, Reads
  <1>4. Signature = [i \in 1 .. 6 |-> Signature[i]] /\ Mark = [i \in 1 .. 3 |-> Mark[i]]
    BY DEF Signature, Mark
  <1> QED BY <1>2, <1>3, <1>4

\* The first m triples of bytes are marks, and the next one is not: there are m of them.
LEMMA MarksAre ==
  ASSUME doc \in Seq(Bytes), NEW m \in Nat, \A i \in 0 .. m - 1 : IsMark(i), ~IsMark(m)
  PROVE  Marks = m
  <1> DEFINE P(n) == n \in 0 .. Len(doc) /\ ~IsMark(n) /\ \A i \in 0 .. n - 1 : IsMark(i)
  <1>1. m \in 0 .. Len(doc)
    <2>1. CASE m = 0
      BY <2>1
    <2>2. CASE m # 0
      <3>1. IsMark(m - 1) /\ m - 1 \in Nat
        BY <2>2
      <3>2. Reads(3 * (m - 1), Mark)
        BY <3>1, StretchReads DEF IsMark, Mark
      <3>3. At(3 * (m - 1) + 3) = "BF"
        BY <3>2 DEF Reads, Mark
      <3>4. 3 * (m - 1) + 3 <= Len(doc)
        BY <3>3 DEF At
      <3> QED BY <3>1, <3>4
    <2> QED BY <2>1, <2>2
  <1>2. P(m)
    BY <1>1
  <1>3. \A n : P(n) => n = m
    BY <1>2
  <1> HIDE DEF P
  <1>4. P(CHOOSE n : P(n))
    BY <1>2
  <1>5. Marks = CHOOSE n : P(n)
    BY DEF Marks, P
  <1> QED BY <1>3, <1>4, <1>5

\* What was read of a token before its tstate.
ReadIn(ts) == IF ts = "L_START" THEN << >>
              ELSE IF ts = "L_WEBVTT0" THEN <<"W">>
              ELSE IF ts = "L_WEBVTT1" THEN <<"W", "E">>
              ELSE IF ts = "L_WEBVTT2" THEN <<"W", "E", "B">>
              ELSE IF ts = "L_WEBVTT3" THEN <<"W", "E", "B", "V">>
              ELSE IF ts = "L_WEBVTT4" THEN <<"W", "E", "B", "V", "T">>
              ELSE IF ts = "L_BOM0" THEN <<"EF">>
              ELSE IF ts = "L_BOM1" THEN <<"EF", "BB">>
              ELSE IF ts = "L_NEWLINE0" THEN <<"CR">>
              ELSE <<"SP">>

\* The token that is lexed, or was, began behind byte p, on line l, and this is what the
\* document says there.
LexedFrom(p, l) ==
  /\ tk = "none" => /\ Reads(p, ReadIn(tstate))
                    /\ tstate # "L_WHITESPACE" => pos = p + Len(ReadIn(tstate))
  /\ tk = "WEBVTT" => Reads(p, Signature) /\ pos = p + 6
  /\ tk = "BOM" => Reads(p, Mark)
  /\ tk = "WHITESPACE" => At(p + 1) = "SP"
  /\ tk = "NEWLINE" => /\ IsEol(At(p + 1))
                       /\ pos = IF At(p + 1) = "CR" /\ At(p + 2) = "LF" THEN p + 2 ELSE p + 1
  /\ tk = "BADTOKEN" => /\ ~Reads(p, Signature) /\ ~Reads(p, Mark)
                        /\ ~IsEol(At(p + 1)) /\ At(p + 1) # "SP"
  /\ line = IF tk = "NEWLINE" THEN l + 1 ELSE l

\* What was read, byte by byte.
Spelling(p) ==
  /\ Reads(p, ReadIn("L_START")) /\ Len(ReadIn("L_START")) = 0
  /\ Reads(p, ReadIn("L_WEBVTT0")) <=> At(p + 1) = "W"
  /\ Reads(p, ReadIn("L_WEBVTT1")) <=> At(p + 1) = "W" /\ At(p + 2) = "E"
  /\ Reads(p, ReadIn("L_WEBVTT2")) <=> At(p + 1) = "W" /\ At(p + 2) = "E" /\ At(p + 3) = "B"
  /\ Reads(p, ReadIn("L_WEBVTT3")) <=>
       At(p + 1) = "W" /\ At(p + 2) = "E" /\ At(p + 3) = "B" /\ At(p + 4) = "V"
  /\ Reads(p, ReadIn("L_WEBVTT4")) <=>
       At(p + 1) = "W" /\ At(p + 2) = "E" /\ At(p + 3) = "B" /\ At(p + 4) = "V" /\ At(p + 5) = "T"
  /\ Reads(p, ReadIn("L_BOM0")) <=> At(p + 1) = "EF"
  /\ Reads(p, ReadIn("L_BOM1")) <=> At(p + 1) = "EF" /\ At(p + 2) = "BB"
  /\ Reads(p, ReadIn("L_NEWLINE0")) <=> At(p + 1) = "CR"
  /\ Reads(p, ReadIn("L_WHITESPACE")) <=> At(p + 1) = "SP"
  /\ Reads(p, Signature) <=> /\ At(p + 1) = "W" /\ At(p + 2) = "E" /\ At(p + 3) = "B"
                             /\ At(p + 4) = "V" /\ At(p + 5) = "T" /\ At(p + 6) = "T"
  /\ Reads(p, Mark) <=> At(p + 1) = "EF" /\ At(p + 2) = "BB" /\ At(p + 3) = "BF"

LEMMA ReadBytes == \A p \in Nat : Spelling(p)
  BY DEF Reads, ReadIn, Signature, Mark, Spelling

LEMMA ReadLengths ==
  /\ Len(ReadIn("L_WEBVTT0")) = 1 /\ Len(ReadIn("L_WEBVTT1")) = 2 /\ Len(ReadIn("L_WEBVTT2")) = 3
  /\ Len(ReadIn("L_WEBVTT3")) = 4 /\ Len(ReadIn("L_WEBVTT4")) = 5 /\ Len(ReadIn("L_BOM0")) = 1
  /\ Len(ReadIn("L_BOM1")) = 2 /\ Len(ReadIn("L_NEWLINE0")) = 1 /\ Len(ReadIn("L_START")) = 0
  BY DEF ReadIn

\* The document stays, and with it what is said of it.
LEMMA FromAfter ==
  ASSUME doc' = doc, NEW p, NEW l,
         /\ tk' = "none" => /\ Reads(p, ReadIn(tstate'))
                            /\ tstate' # "L_WHITESPACE" => pos' = p + Len(ReadIn(tstate'))
         /\ tk' = "WEBVTT" => Reads(p, Signature) /\ pos' = p + 6
         /\ tk' = "BOM" => Reads(p, Mark)
         /\ tk' = "WHITESPACE" => At(p + 1) = "SP"
         /\ tk' = "NEWLINE" => /\ IsEol(At(p + 1))
                               /\ pos' = IF At(p + 1) = "CR" /\ At(p + 2) = "LF" THEN p + 2 ELSE p + 1
         /\ tk' = "BADTOKEN" => /\ ~Reads(p, Signature) /\ ~Reads(p, Mark)
                                /\ ~IsEol(At(p + 1)) /\ At(p + 1) # "SP"
         /\ line' = IF tk' = "NEWLINE" THEN l + 1 ELSE l
  PROVE  LexedFrom(p, l)'
  <1>1. \A q : At(q)' = At(q)
    BY DEF At
  <1>2. \A b : Reads(p, b)' = Reads(p, b)
    BY DEF Reads, At
  <1> QED BY <1>1, <1>2 DEF LexedFrom

LEMMA LexFrom ==
  ASSUME TypeOK, NEW p \in Nat, NEW l \in Nat, LexedFrom(p, l), Lead \/ SpaceFull \/ End \/ BackUp
  PROVE  LexedFrom(p, l)'
  <1>1. /\ doc' = doc /\ tk = "none" /\ pos \in Nat /\ Byte \in Bytes /\ Byte = At(pos + 1)
        /\ tstate \in LexStates /\ Reads(p, ReadIn(tstate)) /\ line = l
        /\ tstate # "L_WHITESPACE" => pos = p + Len(ReadIn(tstate))
    <2>1. Turn /\ doc' = doc
      BY DEF Lead, SpaceFull, End, BackUp, Lexing, Keep
    <2>2. doc \in Seq(Bytes) /\ pos \in Nat /\ pos + 1 \in 0 .. Len(doc) /\ Byte = doc[pos + 1] /\ pos + 1 > 0
      BY <2>1, Place
    <2> QED BY <2>1, <2>2 DEF Turn, TypeOK, LexedFrom, At
  <1>2. Spelling(p)
    BY ReadBytes
  <1>3. /\ tstate = "L_START" => pos + 1 = p + 1
        /\ tstate \in {"L_WEBVTT0", "L_BOM0", "L_NEWLINE0"} => pos + 1 = p + 2
        /\ tstate \in {"L_WEBVTT1", "L_BOM1"} => pos + 1 = p + 3
        /\ tstate = "L_WEBVTT2" => pos + 1 = p + 4
        /\ tstate = "L_WEBVTT3" => pos + 1 = p + 5
        /\ tstate = "L_WEBVTT4" => pos + 1 = p + 6
    <2> DEFINE n == Len(ReadIn(tstate))
    <2>1. /\ tstate = "L_START" => n = 0
          /\ tstate \in {"L_WEBVTT0", "L_BOM0", "L_NEWLINE0"} => n = 1
          /\ tstate \in {"L_WEBVTT1", "L_BOM1"} => n = 2
          /\ tstate = "L_WEBVTT2" => n = 3
          /\ tstate = "L_WEBVTT3" => n = 4
          /\ tstate = "L_WEBVTT4" => n = 5
      BY ReadLengths
    <2>2. tstate # "L_WHITESPACE" => pos = p + n
      BY <1>1
    <2> HIDE DEF n
    <2> QED BY <1>1, <2>1, <2>2
  <1>4. CASE Lead
    <2>1. PICK r \in Leads : r[1] = tstate /\ r[2] = Byte /\ tstate' = r[3]
      BY <1>4 DEF Lead
    <2>2. tk' = "none" /\ pos' = pos + 1 /\ line' = line
      BY <1>1, <1>4 DEF Lead, Use
    <2> DEFINE Said(x, y, z) == tstate = x /\ At(pos + 1) = y /\ tstate' = z
    <2>3. \/ Said("L_START", "W", "L_WEBVTT0") \/ Said("L_WEBVTT0", "E", "L_WEBVTT1")
          \/ Said("L_WEBVTT1", "B", "L_WEBVTT2") \/ Said("L_WEBVTT2", "V", "L_WEBVTT3")
          \/ Said("L_WEBVTT3", "T", "L_WEBVTT4") \/ Said("L_START", "EF", "L_BOM0")
          \/ Said("L_BOM0", "BB", "L_BOM1") \/ Said("L_START", "CR", "L_NEWLINE0")
          \/ Said("L_START", "SP", "L_WHITESPACE") \/ Said("L_WHITESPACE", "SP", "L_WHITESPACE")
      BY <1>1, <2>1 DEF Leads
    <2>4. Reads(p, ReadIn(tstate')) /\ (tstate' # "L_WHITESPACE" => pos' = p + Len(ReadIn(tstate')))
      BY <1>1, <2>2, <2>3, <1>2, <1>3, ReadLengths DEF Spelling
    <2> QED BY <1>1, <2>2, <2>4, FromAfter
  <1>5. CASE SpaceFull
    <2>1. tk' = "WHITESPACE" /\ line' = line /\ At(p + 1) = "SP"
      BY <1>1, <1>5, <1>2 DEF Spelling, SpaceFull
    <2> QED BY <1>1, <2>1, FromAfter
  <1>6. CASE End
    <2>1. PICK r \in Ends : r[1] = tstate /\ r[2] = Byte /\ tk' = r[3] /\ line' = NextLine(r[3])
      BY <1>6 DEF End
    <2>2. pos' = pos + 1
      BY <1>6 DEF End, Use
    <2> DEFINE Said(x, y, z) == tstate = x /\ At(pos + 1) = y /\ tk' = z
    <2>3. \/ Said("L_WEBVTT4", "T", "WEBVTT") \/ Said("L_START", "LF", "NEWLINE")
          \/ Said("L_NEWLINE0", "LF", "NEWLINE") \/ Said("L_BOM1", "BF", "BOM")
      BY <1>1, <2>1 DEF Ends
    <2>4. line' = IF tk' = "NEWLINE" THEN l + 1 ELSE l
      BY <1>1, <2>1 DEF NextLine
    <2>5. CASE Said("L_WEBVTT4", "T", "WEBVTT")
      <3>1. Reads(p, Signature) /\ pos' = p + 6
        BY <1>1, <2>2, <2>5, <1>2, <1>3, ReadLengths DEF Spelling
      <3> QED BY <1>1, <2>4, <2>5, <3>1, FromAfter
    <2>6. CASE Said("L_START", "LF", "NEWLINE") \/ Said("L_NEWLINE0", "LF", "NEWLINE")
      <3>1. IsEol(At(p + 1)) /\ pos' = IF At(p + 1) = "CR" /\ At(p + 2) = "LF" THEN p + 2 ELSE p + 1
        BY <1>1, <2>2, <2>6, <1>2, <1>3 DEF Spelling, IsEol
      <3> QED BY <1>1, <2>4, <2>6, <3>1, FromAfter
    <2>7. CASE Said("L_BOM1", "BF", "BOM")
      <3>1. Reads(p, Mark)
        BY <1>1, <2>2, <2>7, <1>2, <1>3, ReadLengths DEF Spelling
      <3> QED BY <1>1, <2>4, <2>7, <3>1, FromAfter
    <2> QED BY <2>3, <2>5, <2>6, <2>7
  <1>7. CASE BackUp
    <2>1. /\ tk' = Otherwise(tstate) /\ pos' = pos /\ line' = NextLine(Otherwise(tstate))
          /\ \A r \in Leads \cup Ends : ~(r[1] = tstate /\ r[2] = At(pos + 1))
      BY <1>1, <1>7 DEF BackUp
    <2>2. line' = IF tk' = "NEWLINE" THEN l + 1 ELSE l
      BY <1>1, <2>1 DEF NextLine
    <2>3. CASE tstate = "L_NEWLINE0"
      <3>1. tk' = "NEWLINE" /\ At(p + 1) = "CR" /\ pos' = p + 1
        BY <1>1, <2>1, <2>3, <1>2, <1>3 DEF Spelling, Otherwise
      <3>2. At(p + 2) # "LF"
        <4>1. <<"L_NEWLINE0", "LF", "NEWLINE">> \in Leads \cup Ends
          BY DEF Ends
        <4> QED BY <1>1, <2>1, <2>3, <4>1, <3>1
      <3> QED BY <1>1, <2>2, <3>1, <3>2, FromAfter DEF IsEol
    <2>4. CASE tstate = "L_WHITESPACE"
      <3>1. tk' = "WHITESPACE" /\ At(p + 1) = "SP"
        BY <1>1, <2>1, <2>4, <1>2 DEF Spelling, Otherwise
      <3> QED BY <1>1, <2>2, <3>1, FromAfter
    <2>5. CASE tstate \notin {"L_NEWLINE0", "L_WHITESPACE"}
      <3>1. tk' = "BADTOKEN" /\ pos = p + Len(ReadIn(tstate))
        BY <1>1, <2>1, <2>5 DEF Otherwise
      <3>2. /\ tstate = "L_START" => At(pos + 1) \notin {"W", "EF", "CR", "SP", "LF"}
            /\ tstate = "L_WEBVTT0" => At(pos + 1) # "E"
            /\ tstate = "L_WEBVTT1" => At(pos + 1) # "B"
            /\ tstate = "L_WEBVTT2" => At(pos + 1) # "V"
            /\ tstate = "L_WEBVTT3" => At(pos + 1) # "T"
            /\ tstate = "L_WEBVTT4" => At(pos + 1) # "T"
            /\ tstate = "L_BOM0" => At(pos + 1) # "BB"
            /\ tstate = "L_BOM1" => At(pos + 1) # "BF"
        <4> DEFINE No(x, y) == tstate = x => At(pos + 1) # y
        <4>1. \A x, y, z : <<x, y, z>> \in Leads \cup Ends => No(x, y)
          BY <2>1
        <4> HIDE DEF No
        <4>2. /\ No("L_START", "W") /\ No("L_START", "EF") /\ No("L_START", "CR")
              /\ No("L_START", "SP") /\ No("L_WEBVTT0", "E") /\ No("L_WEBVTT1", "B")
              /\ No("L_WEBVTT2", "V") /\ No("L_WEBVTT3", "T") /\ No("L_BOM0", "BB")
          BY <4>1, Zenon DEF Leads
        <4>3. No("L_START", "LF") /\ No("L_WEBVTT4", "T") /\ No("L_BOM1", "BF")
          BY <4>1, Zenon DEF Ends
        <4> USE DEF No
        <4> QED BY <4>2, <4>3
      <3>3. ~Reads(p, Signature) /\ ~Reads(p, Mark) /\ ~IsEol(At(p + 1)) /\ At(p + 1) # "SP"
        BY <1>1, <2>5, <3>1, <3>2, <1>2, <1>3 DEF Spelling, LexStates, IsEol
      <3> QED BY <1>1, <2>2, <3>1, <3>3, FromAfter
    <2> QED BY <2>3, <2>4, <2>5
  <1> QED BY <1>4, <1>5, <1>6, <1>7

\* Where the parser is in the header.  A comment after the signature ends what is said.
Commented == Signed /\ After = "SP"
Opening ==
  /\ state = "T_INITIAL" /\ errors = << >>
  /\ \E m \in Nat : /\ \A i \in 0 .. m - 1 : IsMark(i)
                    /\ LexedFrom(3 * m, 1) /\ tk # "BOM"
                    /\ tk = "none" /\ tstate \in {"L_START", "L_BOM0", "L_BOM1"} => bytes = pos - 3 * m
Named ==
  /\ state = "T_TAG" /\ errors = << >> /\ Marks \in Nat
  /\ Reads(3 * Marks, Signature) /\ LexedFrom(3 * Marks + 6, 1)
EmptyLine ==
  /\ state = "T_EOL" /\ bottom = "T_BODY" /\ errors = << >> /\ Signed /\ Marks \in Nat
  /\ \/ eols = 1 /\ LexedFrom(SecondLine - 1, 2)
     \/ eols >= 2 /\ IsEol(At(SecondLine))
InBody ==
  /\ state \in {"T_BODY", "T_CUE"} \cup LineStates /\ Signed
  /\ errors = IF IsEol(At(SecondLine)) THEN << >> ELSE <<<<"EXPECTED_EOL", 2>>>>
Refused ==
  /\ call = "ended" /\ state \in {"T_INITIAL", "T_TAG"} /\ ~Signed
  /\ \E n : errors = <<<<"MALFORMED_TAG", n>>>>

Header == Commented \/ Opening \/ Named \/ EmptyLine \/ InBody \/ Refused

\* What Signed says.
LEMMA SignedIs ==
  ASSUME Marks \in Nat
  PROVE  /\ Signed <=> Reads(3 * Marks, Signature) /\ (After = "SP" \/ IsEol(After))
         /\ After = At(3 * Marks + 6 + 1)
         /\ SecondLine \in Nat /\ SecondLine > 0
         /\ SecondLine - 1 = IF After = "CR" /\ At(3 * Marks + 6 + 2) = "LF" THEN 3 * Marks + 8
                             ELSE 3 * Marks + 7
  <1> DEFINE m == Marks
  <1>1. m \in Nat
    OBVIOUS
  <1>2. Signed <=> Stretch(3 * m + 1, 6) = Signature /\ (After = "SP" \/ IsEol(After))
    BY DEF Signed, Signature
  <1>3. After = At(3 * m + 7)
    BY DEF After
  <1>4. SecondLine = IF After = "CR" /\ At(3 * m + 8) = "LF" THEN 3 * m + 9 ELSE 3 * m + 8
    BY <1>1 DEF SecondLine
  <1> HIDE DEF m
  <1>5. 3 * m \in Nat /\ 3 * m + 6 + 1 = 3 * m + 7 /\ 3 * m + 6 + 2 = 3 * m + 8
    BY <1>1
  <1>6. Signed <=> Reads(3 * m, Signature) /\ (After = "SP" \/ IsEol(After))
    BY <1>2, <1>5, StretchReads
  <1>7. SecondLine \in Nat /\ SecondLine > 0
        /\ SecondLine - 1 = IF After = "CR" /\ At(3 * m + 6 + 2) = "LF" THEN 3 * m + 8 ELSE 3 * m + 7
    BY <1>4, <1>5
  <1> QED BY <1>3, <1>5, <1>6, <1>7 DEF m

\* All this is said of the document, which stays.
LEMMA DocStays ==
  ASSUME doc' = doc
  PROVE  /\ \A p : At(p)' = At(p)
         /\ \A p, b : Reads(p, b)' = Reads(p, b)
         /\ \A i : IsMark(i)' = IsMark(i)
         /\ Marks' = Marks /\ After' = After /\ SecondLine' = SecondLine /\ Signed' = Signed
  <1>1. (\A p : At(p)' = At(p)) /\ \A p, b : Reads(p, b)' = Reads(p, b)
    BY DEF At, Reads
  <1>2. \A i : IsMark(i)' = IsMark(i)
    BY DEF IsMark, Stretch, At
  <1>3. Marks' = Marks
    BY <1>2 DEF Marks
  <1>4. After' = After
    BY <1>1, <1>3 DEF After
  <1>5. SecondLine' = SecondLine
    BY <1>1, <1>3, <1>4 DEF SecondLine
  <1>6. Signed' = Signed
    BY <1>3, <1>4 DEF Signed, Stretch, At
  <1> QED BY <1>1, <1>2, <1>3, <1>4, <1>5, <1>6

\* What does not touch the tokenizer leaves it all.
LEMMA StillHeader ==
  ASSUME Header, UNCHANGED <<doc, pos, tstate, bytes, line, tk, state, bottom, eols, errors>>,
         call' = call \/ call # "ended"
  PROVE  Header'
  <1>1. \A p, l : LexedFrom(p, l) => LexedFrom(p, l)'
    BY FromAfter DEF LexedFrom
  <1>2. CASE Commented
    BY <1>2, DocStays DEF Header, Commented
  <1>3. CASE Opening
    BY <1>1, <1>3, DocStays DEF Header, Opening
  <1>4. CASE Named
    BY <1>1, <1>4, DocStays DEF Header, Named
  <1>5. CASE EmptyLine
    BY <1>1, <1>5, DocStays DEF Header, EmptyLine
  <1>6. CASE InBody
    BY <1>6, DocStays DEF Header, InBody
  <1>7. CASE Refused
    BY <1>7, DocStays DEF Header, Refused
  <1> QED BY <1>2, <1>3, <1>4, <1>5, <1>6, <1>7 DEF Header

\* Between two tokens.
LEMMA FreshToken ==
  ASSUME doc' = doc, NEW p \in Nat, NEW l, tk' = "none", tstate' = "L_START", pos' = p, line' = l
  PROVE  LexedFrom(p, l)'
  <1>1. Reads(p, ReadIn("L_START")) /\ Len(ReadIn("L_START")) = 0
    BY ReadBytes DEF Spelling
  <1>2. pos' = p + 0
    OBVIOUS
  <1> QED BY <1>1, <1>2, FromAfter

LEMMA InitHeader == Init => Header
  <1> SUFFICES ASSUME Init PROVE Header
    OBVIOUS
  <1>1. LexedFrom(3 * 0, 1)
    BY ReadLengths, ReadBytes DEF Init, LexedFrom, Spelling
  <1> QED BY <1>1 DEF Init, Header, Opening

\* A mark is its three bytes.
LEMMA MarkReads == \A m \in Nat : IsMark(m) <=> Reads(3 * m, Mark)
  <1> SUFFICES ASSUME NEW m \in Nat PROVE IsMark(m) <=> Reads(3 * m, Mark)
    OBVIOUS
  <1>1. 3 * m \in Nat
    OBVIOUS
  <1> QED BY <1>1, StretchReads DEF IsMark, Mark

\* One more mark.
LEMMA MarkPassed ==
  ASSUME Before, MarkIsOver, Opening, SkipMark
  PROVE  Opening'
  <1>1. PICK m \in Nat : /\ \A i \in 0 .. m - 1 : IsMark(i)
                         /\ LexedFrom(3 * m, 1) /\ tk # "BOM"
                         /\ tk = "none" /\ tstate \in {"L_START", "L_BOM0", "L_BOM1"} => bytes = pos - 3 * m
    BY DEF Opening
  <1>2. /\ tk = "none" /\ tk' = "none" /\ tstate = "L_BOM1" /\ Byte = "BF" /\ doc' = doc
        /\ pos' = pos + 1 /\ tstate' = "L_START" /\ bytes' = 0 /\ line' = line
        /\ UNCHANGED <<state, errors>> /\ Turn
    BY DEF SkipMark, FirstMark, Lexing, Turn, Keep
  <1>3. 3 * m \in Nat /\ 3 * (m + 1) = 3 * m + 3 /\ m + 1 \in Nat /\ 3 * (m + 1) \in Nat
    OBVIOUS
  <1>4. pos = 3 * m + 2 /\ At(3 * m + 1) = "EF" /\ At(3 * m + 2) = "BB"
    BY <1>1, <1>2, <1>3, ReadBytes, ReadLengths DEF LexedFrom, Spelling
  <1>5. At(pos + 1) = "BF"
    BY <1>2, Place DEF At, Before
  <1>6. At(3 * m + 3) = "BF" /\ pos' = 3 * (m + 1)
    BY <1>2, <1>3, <1>4, <1>5
  <1>7. IsMark(m)
    BY <1>3, <1>4, <1>6, ReadBytes, MarkReads DEF Spelling
  <1>8. \A i \in 0 .. (m + 1) - 1 : IsMark(i)
    BY <1>1, <1>7
  <1>9. LexedFrom(3 * (m + 1), 1)'
    <2> DEFINE p == 3 * (m + 1)
    <2>1. p \in Nat /\ pos' = p + 0
      BY <1>3, <1>6
    <2> HIDE DEF p
    <2>2. Reads(p, ReadIn("L_START")) /\ Len(ReadIn("L_START")) = 0 /\ line' = 1
      BY <1>1, <1>2, <2>1, ReadBytes DEF Spelling, LexedFrom
    <2>3. LexedFrom(p, 1)'
      BY <1>2, <2>1, <2>2, FromAfter
    <2> QED BY <2>3 DEF p
  <1>10. \A i \in 0 .. (m + 1) - 1 : IsMark(i)'
    BY <1>2, <1>8, DocStays
  <1>11. bytes' = pos' - 3 * (m + 1)
    BY <1>2, <1>3, <1>6
  <1> QED BY <1>2, <1>3, <1>9, <1>10, <1>11 DEF Opening

\* The tokenizer reads on.
LEMMA LexHeader ==
  ASSUME Before, MarkIsOver, Header, Lead \/ SpaceFull \/ SkipMark \/ End \/ BackUp
  PROVE  Header'
  <1>1. /\ Turn /\ tk = "none" /\ call = "chunk" /\ state \in LexedStates
        /\ UNCHANGED <<doc, state, bottom, eols, errors>>
    BY DEF Lead, SpaceFull, SkipMark, End, BackUp, Lexing, Turn, Keep
  <1>2. TypeOK
    BY DEF Before
  <1>3. CASE Commented
    BY <1>1, <1>3, DocStays DEF Header, Commented
  <1>4. CASE Opening
    <2>1. CASE SkipMark
      BY <1>4, <2>1, MarkPassed DEF Header
    <2>2. CASE ~SkipMark
      <3>1. PICK m \in Nat : /\ \A i \in 0 .. m - 1 : IsMark(i)
                             /\ LexedFrom(3 * m, 1) /\ tk # "BOM"
                             /\ tk = "none" /\ tstate \in {"L_START", "L_BOM0", "L_BOM1"} => bytes = pos - 3 * m
        BY <1>4 DEF Opening
      <3>2. 3 * m \in Nat /\ pos \in Nat
        BY <1>2, Place
      <3>3. LexedFrom(3 * m, 1)'
        BY <1>2, <2>2, <3>1, <3>2, LexFrom
      <3>4. \A i \in 0 .. m - 1 : IsMark(i)'
        BY <1>1, <3>1, DocStays
      <3>5. tk' # "BOM"
        <4>1. CASE End
          <5>1. ASSUME tk' = "BOM" PROVE FALSE
            <6>1. tstate = "L_BOM1" /\ Byte = "BF" /\ bytes # 2
              <7>1. PICK r \in Ends : r[1] = tstate /\ r[2] = Byte /\ tk' = r[3]
                BY <4>1 DEF End
              <7>2. tstate = "L_BOM1" /\ Byte = "BF"
                BY <5>1, <7>1 DEF Ends
              <7> QED BY <4>1, <7>2 DEF End, FirstMark
            <6>2. pos = 3 * m + 2 /\ bytes = pos - 3 * m
              BY <1>1, <3>1, <6>1, ReadLengths DEF LexedFrom
            <6> QED BY <3>2, <6>1, <6>2
          <5> QED BY <5>1
        <4> QED BY <1>1, <2>2, <4>1 DEF Lead, SpaceFull, BackUp, Otherwise
      <3>6. ASSUME tk' = "none", tstate' \in {"L_START", "L_BOM0", "L_BOM1"} PROVE bytes' = pos' - 3 * m
        <4>1. Lead
          BY <2>2, <3>6 DEF SpaceFull, End, Ends, BackUp, Otherwise
        <4>2. tstate \in {"L_START", "L_BOM0"} /\ pos' = pos + 1 /\ bytes' = OneMore(bytes)
          BY <3>6, <4>1 DEF Lead, Leads, Use, Put
        <4>3. bytes = pos - 3 * m /\ pos - 3 * m < 4
          <5>1. Len(ReadIn(tstate)) \in {0, 1}
            BY <4>2, ReadLengths
          <5>2. bytes = pos - 3 * m /\ pos = 3 * m + Len(ReadIn(tstate))
            BY <1>1, <3>1, <4>2 DEF LexedFrom
          <5> QED BY <3>2, <5>1, <5>2
        <4> QED BY <3>2, <4>2, <4>3 DEF OneMore, ManyBytes
      <3>7. Opening'
        BY <1>1, <1>4, <3>3, <3>4, <3>5, <3>6 DEF Opening
      <3> QED BY <3>7 DEF Header
    <2> QED BY <2>1, <2>2
  <1>5. state # "T_INITIAL" => ~SkipMark
    BY DEF MarkIsOver, SkipMark, FirstMark, ManyBytes
  <1>6. CASE Named
    <2>1. 3 * Marks + 6 \in Nat /\ ~SkipMark
      BY <1>5, <1>6 DEF Named
    <2>2. PICK p \in Nat : p = 3 * Marks + 6
      BY <2>1
    <2>3. LexedFrom(3 * Marks + 6, 1)'
      <3>1. LexedFrom(p, 1)
        BY <1>6, <2>2 DEF Named
      <3>2. LexedFrom(p, 1)'
        BY <1>2, <2>1, <3>1, LexFrom
      <3>3. p = (3 * Marks + 6)'
        BY <1>1, <2>2, DocStays
      <3> QED BY <3>2, <3>3 DEF LexedFrom
    <2> QED BY <1>1, <1>6, <2>3, DocStays DEF Header, Named
  <1>7. CASE EmptyLine
    <2>1. SecondLine - 1 \in Nat /\ ~SkipMark
      BY <1>5, <1>7, SignedIs DEF EmptyLine
    <2>2. eols = 1 /\ LexedFrom(SecondLine - 1, 2) => LexedFrom(SecondLine - 1, 2)'
      <3>1. PICK p \in Nat : p = SecondLine - 1
        BY <2>1
      <3>2. LexedFrom(p, 2) => LexedFrom(p, 2)'
        BY <1>2, <2>1, LexFrom
      <3>3. p = (SecondLine - 1)'
        BY <1>1, <3>1, DocStays
      <3> QED BY <3>1, <3>2, <3>3 DEF LexedFrom
    <2> QED BY <1>1, <1>7, <2>2, DocStays DEF Header, EmptyLine
  <1>8. CASE InBody
    BY <1>1, <1>8, DocStays DEF Header, InBody
  <1>9. CASE Refused
    BY <1>1, <1>9 DEF Refused
  <1> QED BY <1>3, <1>4, <1>6, <1>7, <1>8, <1>9 DEF Header

\* The token that opens the document is its signature or not.
LEMMA OpeningHeader ==
  ASSUME Before, Opening, InitialSignature \/ InitialReject
  PROVE  Header'
  <1>1. PICK m \in Nat : (\A i \in 0 .. m - 1 : IsMark(i)) /\ LexedFrom(3 * m, 1) /\ tk # "BOM"
    BY DEF Opening
  <1>2. 3 * m \in Nat /\ doc \in Seq(Bytes) /\ tk \in Tokens /\ tstate = "L_START"
    BY Place DEF InitialSignature, InitialReject, On, Before, TypeOK, CInv, Phases
  <1>3. ~Reads(3 * m, Mark)
    BY <1>1, <1>2, ReadBytes DEF LexedFrom, Spelling, Tokens, IsEol
  <1>4. Marks = m
    BY <1>1, <1>2, <1>3, MarkReads, MarksAre
  <1>5. CASE InitialSignature
    <2>1. /\ Reads(3 * m, Signature) /\ pos = 3 * m + 6 /\ line = 1
          /\ tk' = "none" /\ state' = "T_TAG" /\ errors' = << >>
          /\ UNCHANGED <<doc, pos, line, tstate>>
      BY <1>1, <1>5 DEF InitialSignature, LexedFrom, EndTurn, Opening
    <2>2. PICK p \in Nat : p = 3 * m + 6
      BY <1>2
    <2>3. LexedFrom(p, 1)'
      BY <1>2, <2>1, <2>2, FreshToken
    <2>4. Marks' = Marks /\ Reads(3 * m, Signature)'
      BY <2>1, DocStays
    <2>5. p = (3 * Marks + 6)' /\ 3 * m = (3 * Marks)'
      BY <1>4, <2>2, <2>4
    <2>6. LexedFrom(3 * Marks + 6, 1)' /\ Reads(3 * Marks, Signature)'
      BY <2>3, <2>4, <2>5 DEF LexedFrom, Reads
    <2> QED BY <1>4, <2>1, <2>4, <2>6 DEF Header, Named
  <1>6. CASE InitialReject
    <2>1. tk # "WEBVTT" /\ Reject(1)
      BY <1>6 DEF InitialReject
    <2>2. ~Reads(3 * m, Signature)
      BY <1>1, <1>2, <2>1, ReadBytes DEF LexedFrom, Spelling, Tokens, IsEol
    <2>3. ~Signed
      BY <1>4, <2>2, SignedIs
    <2>4. errors' = <<<<"MALFORMED_TAG", 1>>>> /\ call' = "ended" /\ doc' = doc /\ state' = "T_INITIAL"
      BY <2>1 DEF Reject, turn, Opening
    <2> QED BY <2>3, <2>4, DocStays DEF Header, Refused
  <1> QED BY <1>5, <1>6

\* What follows the signature is a comment, the end of the line, or not allowed.
LEMMA NamedHeader ==
  ASSUME Before, Named, TagSpace \/ TagNewline \/ TagReject
  PROVE  Header'
  <1>1. PICK p \in Nat : p = 3 * Marks + 6
    BY DEF Named
  <1>2. /\ LexedFrom(p, 1) /\ Marks \in Nat /\ tk \in Tokens /\ tstate = "L_START"
        /\ Reads(3 * Marks, Signature) /\ errors = << >> /\ doc' = doc
    BY <1>1 DEF TagSpace, TagNewline, TagReject, EndTurn, Reject, On, Named, Before, TypeOK, CInv, Phases
  <1>3. /\ After = At(p + 1) /\ SecondLine \in Nat
        /\ SecondLine - 1 = IF After = "CR" /\ At(p + 2) = "LF" THEN p + 2 ELSE p + 1
        /\ Signed <=> After = "SP" \/ IsEol(After)
    BY <1>1, <1>2, SignedIs
  <1>4. CASE TagSpace
    <2>1. After = "SP" /\ Signed
      BY <1>2, <1>3, <1>4 DEF TagSpace, LexedFrom
    <2> QED BY <1>2, <2>1, DocStays DEF Header, Commented
  <1>5. CASE TagNewline
    <2>1. /\ tk = "NEWLINE" /\ tk' = "none" /\ state' = "T_EOL" /\ bottom' = "T_BODY" /\ eols' = 1
          /\ UNCHANGED <<pos, line, tstate, errors>>
      BY <1>5 DEF TagNewline, EndTurn
    <2>2. IsEol(After) /\ line = 2 /\ pos = SecondLine - 1
      BY <1>2, <1>3, <2>1 DEF LexedFrom
    <2>3. PICK q \in Nat : q = SecondLine - 1
      BY <1>3
    <2>4. LexedFrom(q, 2)'
      BY <1>2, <2>1, <2>2, <2>3, FreshToken
    <2>5. Signed' /\ Marks' = Marks /\ q = (SecondLine - 1)'
      BY <1>2, <1>3, <2>2, <2>3, DocStays
    <2>6. LexedFrom(SecondLine - 1, 2)'
      BY <2>4, <2>5 DEF LexedFrom
    <2> QED BY <1>2, <2>1, <2>5, <2>6 DEF Header, EmptyLine
  <1>6. CASE TagReject
    <2>1. tk \in {"WEBVTT", "BOM", "BADTOKEN"} /\ Reject(line) /\ state = "T_TAG"
      BY <1>2, <1>6 DEF TagReject, Tokens, On
    <2>2. ~IsEol(After) /\ After # "SP"
      BY <1>2, <1>3, <2>1, ReadBytes DEF LexedFrom, Spelling, IsEol
    <2>3. errors' = <<<<"MALFORMED_TAG", line>>>> /\ call' = "ended" /\ state' = state
      BY <1>2, <2>1 DEF Reject, turn
    <2> QED BY <1>2, <1>3, <2>1, <2>2, <2>3, DocStays DEF Header, Refused
  <1> QED BY <1>4, <1>5, <1>6

\* The line after the signature is empty, or that is reported.
LEMMA EolHeader ==
  ASSUME Before, EmptyLine, EolCount \/ EolInitial \/ EolBody
  PROVE  Header'
  <1>1. /\ doc' = doc /\ tk \in Tokens /\ Marks \in Nat /\ eols \in Nat /\ Signed /\ errors = << >>
        /\ bottom = "T_BODY"
    BY DEF EolCount, EolInitial, EolBody, EndTurn, On, EmptyLine, Before, TypeOK
  <1>2. SecondLine \in Nat /\ SecondLine > 0
    BY <1>1, SignedIs
  <1>3. PICK q \in Nat : q = SecondLine - 1
    BY <1>2
  <1>4. /\ q + 1 = SecondLine
        /\ (eols = 1 /\ LexedFrom(q, 2)) \/ (eols >= 2 /\ IsEol(At(SecondLine)))
    <2>1. q + 1 = SecondLine
      BY <1>2, <1>3
    <2> QED BY <1>3, <2>1 DEF EmptyLine
  <1>5. CASE EolCount
    <2>1. IsEol(At(SecondLine))
      BY <1>4, <1>5 DEF EolCount, LexedFrom
    <2>2. eols' >= 2
      BY <1>1, <1>4, <1>5 DEF EolCount
    <2>3. state' = "T_EOL" /\ bottom' = bottom /\ errors' = errors
      BY <1>5 DEF EolCount, On
    <2> QED BY <1>1, <2>1, <2>2, <2>3, DocStays DEF Header, EmptyLine
  <1>6. CASE EolBody
    <2>1. tk # "NEWLINE" /\ state' = "T_BODY" /\ errors' = << >> \o EolReports
      BY <1>1, <1>6 DEF EolBody
    <2>2. errors' = IF IsEol(At(SecondLine)) THEN << >> ELSE <<<<"EXPECTED_EOL", 2>>>>
      <3>1. CASE eols = 1 /\ LexedFrom(q, 2)
        <4>1. ~IsEol(At(q + 1)) /\ line = 2
          BY <1>1, <2>1, <3>1, ReadBytes DEF LexedFrom, Spelling, Tokens, IsEol
        <4>2. EolReports = <<<<"EXPECTED_EOL", 2>>>>
          BY <3>1, <4>1 DEF EolReports
        <4> QED BY <1>4, <2>1, <4>1, <4>2
      <3>2. CASE eols >= 2 /\ IsEol(At(SecondLine))
        <4>1. EolReports = << >>
          BY <1>1, <3>2 DEF EolReports
        <4> QED BY <2>1, <3>2, <4>1
      <3> QED BY <1>4, <3>1, <3>2
    <2>3. Signed' /\ At(SecondLine)' = At(SecondLine)
      BY <1>1, DocStays
    <2> QED BY <2>1, <2>2, <2>3 DEF Header, InBody
  <1> QED BY <1>1, <1>5, <1>6 DEF EolInitial

\* Every token is taken for what it is.
LEMMA TokenHeader ==
  ASSUME Before, Header,
         \/ InitialSignature \/ InitialReject \/ TagSpace \/ TagNewline \/ TagReject
         \/ CommentNewline \/ CommentSkip \/ EolCount \/ EolInitial \/ EolBody
         \/ BodyNewline \/ BodyCue
  PROVE  Header'
  <1>1. doc' = doc /\ call = "chunk"
    BY DEF InitialSignature, InitialReject, TagSpace, TagNewline, TagReject, CommentNewline,
           CommentSkip, EolCount, EolInitial, EolBody, BodyNewline, BodyCue, EndTurn, Reject, On
  <1>2. CASE Commented
    BY <1>1, <1>2, DocStays DEF Header, Commented
  <1>3. CASE Opening
    <2>1. InitialSignature \/ InitialReject
      BY <1>3 DEF Opening, TagSpace, TagNewline, TagReject, CommentNewline,
           CommentSkip, EolCount, EolInitial, EolBody, BodyNewline, BodyCue, On
    <2> QED BY <1>3, <2>1, OpeningHeader
  <1>4. CASE Named
    <2>1. TagSpace \/ TagNewline \/ TagReject
      BY <1>4 DEF Named, InitialSignature, InitialReject, CommentNewline,
           CommentSkip, EolCount, EolInitial, EolBody, BodyNewline, BodyCue, On
    <2> QED BY <1>4, <2>1, NamedHeader
  <1>5. CASE EmptyLine
    <2>1. EolCount \/ EolInitial \/ EolBody
      BY <1>5 DEF EmptyLine, InitialSignature, InitialReject, TagSpace, TagNewline, TagReject,
           CommentNewline, CommentSkip, BodyNewline, BodyCue, On
    <2> QED BY <1>5, <2>1, EolHeader
  <1>6. CASE InBody
    <2>1. BodyNewline \/ BodyCue
      BY <1>6 DEF InBody, LineStates, InitialSignature, InitialReject, TagSpace, TagNewline, TagReject,
           CommentNewline, CommentSkip, EolCount, EolInitial, EolBody, On
    <2>2. state' \in {"T_BODY", "T_CUEREAD"} /\ errors' = errors
      BY <1>6, <2>1 DEF BodyNewline, BodyCue, On
    <2> QED BY <1>1, <1>6, <2>2, DocStays DEF Header, InBody, LineStates
  <1>7. CASE Refused
    BY <1>1, <1>7 DEF Refused
  <1> QED BY <1>2, <1>3, <1>4, <1>5, <1>6, <1>7 DEF Header

\* The lines of a cue change nothing of it.
LEMMA LineHeader ==
  ASSUME Header, LineText \/ LineEol \/ CarriageReturn \/ CueLine \/ TextNewline \/ TakeLine
  PROVE  Header'
  <1>1. /\ doc' = doc /\ call = "chunk" /\ errors' = errors
        /\ state \in LineStates \cup {"T_CUE"} /\ state' \in {"T_BODY", "T_CUE"} \cup LineStates
    BY DEF LineText, LineEol, CarriageReturn, CueLine, TextNewline, TakeLine, Newline, Reading,
           Turn, SameLine, LineStates
  <1>2. CASE Commented
    BY <1>1, <1>2, DocStays DEF Header, Commented
  <1>3. CASE InBody
    BY <1>1, <1>3, DocStays DEF Header, InBody
  <1>4. ~Opening /\ ~Named /\ ~EmptyLine /\ ~Refused
    BY <1>1 DEF Opening, Named, EmptyLine, Refused, LineStates
  <1> QED BY <1>2, <1>3, <1>4 DEF Header

LEMMA NextHeader == Before /\ XInv /\ Header /\ [Next]_vars => Header'
  <1> SUFFICES ASSUME Before, XInv, Header, [Next]_vars PROVE Header'
    OBVIOUS
  <1>1. MarkIsOver
    BY DEF XInv
  <1>2. CASE Feed \/ ChunkDone \/ Overrun \/ UNCHANGED vars
    <2>1. /\ UNCHANGED <<doc, pos, tstate, bytes, line, tk, state, bottom, eols, errors>>
          /\ call' = call \/ call # "ended"
      BY <1>2 DEF Feed, ChunkDone, Overrun, Turn, vars, lexer, turn
    <2> QED BY <2>1, StillHeader
  <1> QED BY <1>1, <1>2, LexHeader, TokenHeader, LineHeader DEF Next, Call

\* Whatever the document, wherever it is cut, also inside a byte order mark or inside the
\* signature, and however many marks there are: the header is taken for one if and only
\* if it is one, and a line after it that is not empty is reported, once and on line 2,
\* if and only if there is one.
THEOREM VerdictIsExact == Spec => []VerdictExact
  <1>1. Header => VerdictExact
    <2>1. Commented => VerdictExact
      BY DEF Commented, VerdictExact
    <2>2. Opening \/ Named \/ EmptyLine => VerdictExact
      <3>1. DOMAIN << >> = {}
        OBVIOUS
      <3> QED BY <3>1 DEF Opening, Named, EmptyLine, VerdictExact
    <2>3. InBody => VerdictExact
      BY DEF InBody, VerdictExact
    <2>4. Refused => VerdictExact
      BY DEF Refused, VerdictExact
    <2> QED BY <2>1, <2>2, <2>3, <2>4 DEF Header
  <1>2. Before /\ [Next]_vars => Before'
    BY NextType, NextIInv, NextCInv DEF Before
  <1>3. Init => Before
    BY InitType, InitIInv, InitCInv DEF Before
  <1> QED BY <1>1, <1>2, <1>3, InitXInv, NextXInv, InitHeader, NextHeader, PTL DEF Spec

=============================================================================
