------------------------------- MODULE Lexer --------------------------------
(***************************************************************************)
(* The tokenizer (lexer.c) byte by byte, with its token buffer, and the    *)
(* turns of parse_webvtt and webvtt_read_cuetext that drive it: what they  *)
(* do with a token, and whether they empty the buffer after it.  Parser    *)
(* takes the signature for two symbols and has no byte order mark; here    *)
(* they are the bytes they are.  What a line of a cue says does not matter *)
(* here: after it comes any of what it may lead to.                        *)
(***************************************************************************)
EXTENDS Naturals, Sequences, SequencesExt, FiniteSets

CONSTANTS
  Docs,      \* the documents
  BufSize    \* bytes of the token buffer, sizeof(self->token)

\* "x" stands for a byte that is none of the others, SP for space and tab, and
\* EF BB BF are a byte order mark.
Bytes == {"W", "E", "B", "V", "T", "EF", "BB", "BF", "SP", "LF", "CR", "x"}

ASSUME DocsAssumption == Docs \subseteq Seq(Bytes)
\* The signature and the NUL after it have room.
ASSUME BufAssumption == BufSize \in Nat /\ BufSize > 6

VARIABLES
  doc, lim, pos,   \* the document, what of it was handed over and what was used
  call,            \* "idle" between two calls, "chunk" in one, "ended" once one
                   \* failed, "undefined" once the token left its buffer
  tstate, token, bytes, line,   \* fields of the parser; token up to token_pos
  tk,              \* the token of this turn, "none" before it is known
  state,           \* what the turn is about
  bottom,          \* the state of the bottom frame
  eols,            \* the terminators counted in T_EOL
  atEol,           \* the line of a cue was read up to its terminator
  text,            \* the line of a cue that is being read, or was read
  chained,         \* how many lines of cue text began another cue
  fromText,        \* the last line read was one of those
  errors           \* what was reported

lexer == <<tstate, token, bytes, line>>
turn  == <<tk, state, bottom, eols>>
read  == <<atEol, text, chained, fromText>>
vars  == <<doc, lim, pos, call, lexer, turn, read, errors>>

LexStates == {"L_START", "L_BOM0", "L_BOM1", "L_WEBVTT0", "L_WEBVTT1", "L_WEBVTT2",
              "L_WEBVTT3", "L_WEBVTT4", "L_NEWLINE0", "L_WHITESPACE"}
Tokens == {"BADTOKEN", "WEBVTT", "NEWLINE", "WHITESPACE", "BOM"}
LexedStates == {"T_INITIAL", "T_TAG", "T_TAGCOMMENT", "T_EOL", "T_BODY"}
LineStates == {"T_CUEREAD", "M_CUETEXT"}
States == LexedStates \cup LineStates \cup {"T_CUE"}
IsEol(c) == c \in {"LF", "CR"}

\* Of self->bytes only whether it is 3 is ever asked: it is not counted further.
ManyBytes == 4
OneMore(n) == IF n < ManyBytes THEN n + 1 ELSE n

Init ==
  /\ doc \in Docs /\ lim = 0 /\ pos = 0 /\ call = "idle"
  /\ tstate = "L_START" /\ token = << >> /\ bytes = 0 /\ line = 1
  /\ tk = "none" /\ state = "T_INITIAL" /\ bottom = "T_INITIAL" /\ eols = 0
  /\ atEol = FALSE /\ text = << >> /\ chained = 0 /\ fromText = FALSE /\ errors = << >>

Feed ==
  /\ call = "idle" /\ call' = "chunk"
  /\ lim' \in lim + 1 .. Len(doc)
  /\ UNCHANGED <<doc, pos, lexer, turn, read, errors>>

\* The chunk is used up, and a token in the making stays in the buffer.
ChunkDone ==
  /\ call = "chunk" /\ tk = "none" /\ pos = lim /\ call' = "idle"
  /\ UNCHANGED <<doc, lim, pos, lexer, turn, read, errors>>

Turn == call = "chunk" /\ tk = "none" /\ pos < lim
Byte == doc[pos + 1]

-----------------------------------------------------------------------------
(* webvtt_lex, one byte at a time.                                         *)

\* From a state, with a byte, to the next state; and to a token.
Leads == {<<"L_START", "W", "L_WEBVTT0">>, <<"L_WEBVTT0", "E", "L_WEBVTT1">>,
          <<"L_WEBVTT1", "B", "L_WEBVTT2">>, <<"L_WEBVTT2", "V", "L_WEBVTT3">>,
          <<"L_WEBVTT3", "T", "L_WEBVTT4">>, <<"L_START", "EF", "L_BOM0">>,
          <<"L_BOM0", "BB", "L_BOM1">>, <<"L_START", "CR", "L_NEWLINE0">>,
          <<"L_START", "SP", "L_WHITESPACE">>, <<"L_WHITESPACE", "SP", "L_WHITESPACE">>}
Ends == {<<"L_WEBVTT4", "T", "WEBVTT">>, <<"L_START", "LF", "NEWLINE">>,
         <<"L_NEWLINE0", "LF", "NEWLINE">>, <<"L_BOM1", "BF", "BOM">>}

\* What a byte that belongs to neither completes.
Otherwise(ts) == IF ts = "L_NEWLINE0" THEN "NEWLINE"
                 ELSE IF ts = "L_WHITESPACE" THEN "WHITESPACE" ELSE "BADTOKEN"

Lexing == Turn /\ state \in LexedStates
Room == Len(token) + 1 < BufSize
Keep == UNCHANGED <<doc, lim, call, state, bottom, eols, read, errors>>

\* The byte is put into the buffer.
Put == Room /\ token' = Append(token, Byte) /\ bytes' = OneMore(bytes)
Use == Put /\ pos' = pos + 1

\* White space that fills the buffer is a token.  Mutant: when there is room for one
\* byte more.
FullLate == Len(token) + 1 >= BufSize
Full == Len(token) + 1 >= BufSize - 1

Lead ==
  /\ Lexing /\ Use
  /\ \E r \in Leads : /\ r[1] = tstate /\ r[2] = Byte /\ tstate' = r[3]
                      /\ ~(tstate = "L_WHITESPACE" /\ Full)
  /\ UNCHANGED <<tk, line>> /\ Keep

SpaceFull ==
  /\ Lexing /\ Use
  /\ tstate = "L_WHITESPACE" /\ Byte = "SP" /\ Full
  /\ tstate' = "L_START" /\ tk' = "WHITESPACE"
  /\ UNCHANGED line /\ Keep

\* A byte order mark in the first three bytes is forgotten, and the next three are the
\* first again.  Mutant: the third byte is looked for before it is counted.
FirstMarkLate == tstate = "L_BOM1" /\ Byte = "BF" /\ bytes = 3
FirstMark == tstate = "L_BOM1" /\ Byte = "BF" /\ bytes = 2

SkipMark ==
  /\ Lexing /\ Room /\ FirstMark
  /\ pos' = pos + 1 /\ tstate' = "L_START" /\ token' = << >> /\ bytes' = 0
  /\ UNCHANGED <<tk, line>> /\ Keep

NextLine(tok) == IF tok = "NEWLINE" THEN line + 1 ELSE line

End ==
  /\ Lexing /\ Use /\ ~FirstMark
  /\ \E r \in Ends : r[1] = tstate /\ r[2] = Byte /\ tk' = r[3] /\ line' = NextLine(r[3])
  /\ tstate' = "L_START"
  /\ Keep

\* The byte belongs to something else: it is put into the buffer, and taken off again,
\* but stays counted.  Mutant: it is left there.
BackUpHalf ==
  /\ Lexing /\ Put
  /\ \A r \in Leads \cup Ends : ~(r[1] = tstate /\ r[2] = Byte)
  /\ tstate' = "L_START" /\ tk' = Otherwise(tstate) /\ line' = NextLine(Otherwise(tstate))
  /\ UNCHANGED pos /\ Keep
BackUp ==
  /\ Lexing /\ Room
  /\ \A r \in Leads \cup Ends : ~(r[1] = tstate /\ r[2] = Byte)
  /\ bytes' = OneMore(bytes)
  /\ tstate' = "L_START" /\ tk' = Otherwise(tstate) /\ line' = NextLine(Otherwise(tstate))
  /\ UNCHANGED <<pos, token>> /\ Keep

\* The byte, or the NUL after it, is stored behind the buffer.
Overrun ==
  /\ Turn /\ (state \in LexedStates \/ atEol) /\ ~Room
  /\ call' = "undefined"
  /\ UNCHANGED <<doc, lim, pos, lexer, turn, read, errors>>

-----------------------------------------------------------------------------
(* parse_webvtt: what a token means.                                       *)

On(s) == call = "chunk" /\ state = s /\ tk # "none"
EndTurn == tk' = "none" /\ token' = << >> /\ UNCHANGED <<doc, lim, pos, call, tstate, bytes, line>>

Reject(l) == /\ errors' = Append(errors, <<"MALFORMED_TAG", l>>) /\ call' = "ended"
             /\ UNCHANGED <<doc, lim, pos, lexer, turn, read>>

InitialSignature ==
  /\ On("T_INITIAL") /\ tk = "WEBVTT" /\ state' = "T_TAG"
  /\ EndTurn /\ UNCHANGED <<bottom, eols, read, errors>>
InitialReject == On("T_INITIAL") /\ tk # "WEBVTT" /\ Reject(1)

TagSpace ==
  /\ On("T_TAG") /\ tk = "WHITESPACE" /\ state' = "T_TAGCOMMENT"
  /\ EndTurn /\ UNCHANGED <<bottom, eols, read, errors>>
TagNewline ==
  /\ On("T_TAG") /\ tk = "NEWLINE"
  /\ state' = "T_EOL" /\ bottom' = "T_BODY" /\ eols' = 1
  /\ EndTurn /\ UNCHANGED <<read, errors>>
TagReject == On("T_TAG") /\ tk \notin {"WHITESPACE", "NEWLINE"} /\ Reject(line)

\* The bottom frame keeps its state.
CommentNewline ==
  /\ On("T_TAGCOMMENT") /\ tk = "NEWLINE"
  /\ state' = "T_EOL" /\ eols' = 1
  /\ EndTurn /\ UNCHANGED <<bottom, read, errors>>

\* The turn is over without the buffer being emptied (continue).
NextEol(p) == /\ \A i \in pos + 1 .. p : ~IsEol(doc[i])
              /\ p = lim \/ IsEol(doc[p + 1])
CommentSkip ==
  /\ On("T_TAGCOMMENT") /\ tk # "NEWLINE"
  /\ pos' \in {p \in pos .. lim : NextEol(p)}
  /\ tk' = "none"
  /\ UNCHANGED <<doc, lim, call, lexer, state, bottom, eols, read, errors>>

EolCount ==
  /\ On("T_EOL") /\ tk = "NEWLINE" /\ eols' = eols + 1
  /\ EndTurn /\ UNCHANGED <<state, bottom, read, errors>>

\* The frame below looks at the same token (RECHECK).
EolInitial ==
  /\ On("T_EOL") /\ tk # "NEWLINE" /\ bottom = "T_INITIAL"
  /\ state' = "T_INITIAL"
  /\ UNCHANGED <<doc, lim, pos, call, lexer, tk, bottom, eols, read, errors>>

EolReports == IF eols < 2 THEN <<<<"EXPECTED_EOL", line>>>> ELSE << >>

EolBody ==
  /\ On("T_EOL") /\ tk # "NEWLINE" /\ bottom = "T_BODY"
  /\ errors' = errors \o EolReports
  /\ \/ state' = "T_BODY" /\ UNCHANGED call
     \/ state' = "T_BODY" /\ EolReports # << >> /\ call' = "ended"
  /\ UNCHANGED <<doc, lim, pos, lexer, tk, bottom, eols, read>>

BodyNewline ==
  /\ On("T_BODY") /\ tk = "NEWLINE"
  /\ EndTurn /\ UNCHANGED <<state, bottom, eols, read, errors>>

\* A cue starts with what is in the buffer.
BodyCue ==
  /\ On("T_BODY") /\ tk # "NEWLINE"
  /\ text' = token /\ atEol' = FALSE /\ fromText' = FALSE /\ state' = "T_CUEREAD"
  /\ EndTurn /\ UNCHANGED <<bottom, eols, chained, errors>>

-----------------------------------------------------------------------------
(* The lines of a cue: webvtt_string_getline up to the terminator, then    *)
(* webvtt_lex_newline, which may need the next chunk to see the end of it. *)

Reading == Turn /\ state \in LineStates
SameLine == UNCHANGED <<doc, lim, call, tk, bottom, eols, chained, fromText, errors>>

LineText ==
  /\ Reading /\ ~atEol /\ ~IsEol(Byte)
  /\ text' = Append(text, Byte) /\ pos' = pos + 1
  /\ UNCHANGED <<lexer, state, atEol>> /\ SameLine

LineEol ==
  /\ Reading /\ ~atEol /\ IsEol(Byte) /\ atEol' = TRUE
  /\ UNCHANGED <<pos, lexer, state, text>> /\ SameLine

CarriageReturn ==
  /\ Reading /\ atEol /\ Use
  /\ tstate = "L_START" /\ Byte = "CR" /\ tstate' = "L_NEWLINE0"
  /\ UNCHANGED <<line, state, atEol, text>> /\ SameLine

\* The terminator is complete: with this byte, or before it.  Mutant: a byte after CR
\* is used whatever it is.
CompletesAny == tstate = "L_NEWLINE0" \/ Byte = "LF"
Completes == Byte = "LF"

Newline ==
  /\ Reading /\ atEol /\ Room
  /\ IF Completes THEN Use
     ELSE tstate = "L_NEWLINE0" /\ UNCHANGED <<pos, token, bytes>>
  /\ tstate' = "L_START"

\* A line for the T_CUE frame; the buffer is not emptied.
CueLine ==
  /\ state = "T_CUEREAD" /\ Newline
  /\ state' = "T_CUE" /\ atEol' = FALSE
  /\ UNCHANGED <<line, text>> /\ SameLine

\* A line of cue text: an empty one ends the cue, another one may begin the next cue.
\* The buffer is emptied.
TextNewline ==
  /\ state = "M_CUETEXT" /\ Reading /\ atEol /\ Room
  /\ IF Completes THEN pos' = pos + 1 /\ bytes' = OneMore(bytes)
     ELSE tstate = "L_NEWLINE0" /\ UNCHANGED <<pos, bytes>>
  /\ tstate' = "L_START" /\ token' = << >> /\ atEol' = FALSE /\ line' = line + 1
  /\ \/ text = << >> /\ state' = "T_BODY" /\ UNCHANGED <<text, fromText>>
     \/ text # << >> /\ text' = << >> /\ UNCHANGED <<state, fromText>>
     \/ text # << >> /\ state' = "T_CUE" /\ fromText' = TRUE /\ UNCHANGED text
  /\ UNCHANGED <<doc, lim, call, tk, bottom, eols, chained, errors>>

\* webvtt_proc_cueline: an id, and another line is read; times, or neither, and the
\* text comes; or the end.  A line of cue text was counted when it was read, and is
\* counted again.
TakeLine ==
  /\ Turn /\ state = "T_CUE"
  /\ line' = line + 1
  /\ chained' = (IF fromText THEN chained + 1 ELSE chained)
  /\ text' = << >> /\ atEol' = FALSE /\ fromText' = FALSE
  /\ \/ state' = "T_CUEREAD" /\ token' = << >> /\ UNCHANGED call
     \/ state' = "M_CUETEXT" /\ UNCHANGED <<token, call>>
     \/ UNCHANGED <<state, token>> /\ call' = "ended"
  /\ UNCHANGED <<doc, lim, pos, tstate, bytes, tk, bottom, eols, errors>>

-----------------------------------------------------------------------------
Call == \/ ChunkDone
        \/ Lead \/ SpaceFull \/ SkipMark \/ End \/ BackUp \/ Overrun
        \/ InitialSignature \/ InitialReject \/ TagSpace \/ TagNewline \/ TagReject
        \/ CommentNewline \/ CommentSkip \/ EolCount \/ EolInitial \/ EolBody
        \/ BodyNewline \/ BodyCue
        \/ LineText \/ LineEol \/ CarriageReturn \/ CueLine \/ TextNewline \/ TakeLine

Next == Feed \/ Call

Spec == Init /\ [][Next]_vars

-----------------------------------------------------------------------------
(* Properties.                                                             *)

\* The variables have the values of their types.
TypeOK ==
  /\ doc \in Docs /\ lim \in 0 .. Len(doc) /\ pos \in 0 .. lim
  /\ call \in {"idle", "chunk", "ended", "undefined"}
  /\ tstate \in LexStates /\ token \in Seq(Bytes) /\ bytes \in 0 .. ManyBytes /\ line \in Nat
  /\ tk \in Tokens \cup {"none"} /\ state \in States /\ bottom \in {"T_INITIAL", "T_BODY"}
  /\ eols \in Nat /\ atEol \in BOOLEAN /\ text \in Seq(Bytes)
  /\ chained \in Nat /\ fromText \in BOOLEAN
  /\ errors \in Seq({"MALFORMED_TAG", "EXPECTED_EOL"} \X Nat)

\* No document and no way to cut it makes the token leave its buffer, except in the
\* comment of the signature line, the one place where parse_webvtt goes on without
\* emptying the buffer: white space is the only token that is cut to size, and every
\* other user of the buffer relies on it being emptied in time.
TokenFits == call = "undefined" => state = "T_TAGCOMMENT"

\* The bytes of the line that ends at p, and how long the terminator before p is.
LineBefore(p) == SubSeq(doc, 1 + SelectLastInSeq(SubSeq(doc, 1, p), IsEol), p)
TerminatorLength(p) == IF p > 1 /\ doc[p] = "LF" /\ doc[p - 1] = "CR" THEN 2 ELSE 1

\* The line of a cue is what the document has between two terminators, whatever the
\* tokenizer took of its beginning (a byte order mark, a part of the signature, white
\* space, in one or in several chunks) before it was known to be one, and whatever it
\* left in the buffer from the line before.
TextExact ==
  call # "ended" =>
    /\ state = "T_CUE" => text = LineBefore(pos - TerminatorLength(pos))
    /\ state \in LineStates =>
         text = LineBefore(IF tstate = "L_NEWLINE0" THEN pos - 1 ELSE pos)

At(p) == IF p <= Len(doc) THEN doc[p] ELSE "none"
Stretch(p, n) == [i \in 1..n |-> At(p + i - 1)]

\* The byte order marks a document starts with, one after the other: the code passes
\* over any number of them.  After them, the signature, and what may follow it.
IsMark(i) == Stretch(3 * i + 1, 3) = <<"EF", "BB", "BF">>
Marks == CHOOSE m \in 0 .. Len(doc) : ~IsMark(m) /\ \A i \in 0 .. m - 1 : IsMark(i)
After == At(3 * Marks + 7)
Signed == /\ Stretch(3 * Marks + 1, 6) = <<"W", "E", "B", "V", "T", "T">>
          /\ After = "SP" \/ IsEol(After)
SecondLine == LET p == 3 * Marks + 8
              IN  IF After = "CR" /\ At(p) = "LF" THEN p + 1 ELSE p

\* The header is taken for one if and only if it is one, and the line after it is
\* missed if and only if it is not empty, wherever chunks end, also inside a mark or
\* inside the signature.  A comment after the signature is another matter: the line
\* after it is taken for the first line.
VerdictExact ==
  /\ state \notin {"T_INITIAL", "T_TAG"} => Signed
  /\ \A i \in DOMAIN errors :
       /\ errors[i][1] = "MALFORMED_TAG" => ~Signed \/ After = "SP"
       /\ errors[i][1] = "EXPECTED_EOL" /\ After # "SP" => ~IsEol(At(SecondLine)) /\ errors[i][2] = 2
  /\ state \in {"T_BODY", "T_CUEREAD"} /\ After # "SP" /\ ~IsEol(At(SecondLine)) => errors # << >>

\* The terminators in the first p bytes: CR LF is one.
Terminators(p) == Cardinality({i \in 1 .. p : doc[i] = "CR"
                                              \/ (doc[i] = "LF" /\ (i = 1 \/ doc[i - 1] # "CR"))})
Count(condition) == IF condition THEN 1 ELSE 0

\* The parser's line is the document's, once a terminator is complete and the line of
\* a cue was looked at, except that every line of cue text that began another cue is
\* counted twice.
LineCount ==
  call # "ended" =>
    line + Count(state = "T_CUE" /\ ~fromText) + Count(tstate = "L_NEWLINE0")
      = 1 + Terminators(pos) + chained

=============================================================================
