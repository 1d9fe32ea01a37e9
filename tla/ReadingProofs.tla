---------------------------- MODULE ReadingProofs ----------------------------
(***************************************************************************)
(* Proofs that Parser finds the cues and the errors that a reader of whole *)
(* lines (Document) finds: for documents of any length, however they are   *)
(* cut.  And, at the end, that the strings of lines are accounted for.     *)
(***************************************************************************)
EXTENDS ParserProofs

-----------------------------------------------------------------------------
(* The reading of a whole document, symbol by symbol.                      *)

NoLines == [lines |-> << >>, rest |-> << >>, cr |-> FALSE]

\* The functions Splits and Readers choose satisfy their equations.
IsSplits(f, d, N) == f = [n \in 0 .. N |-> IF n = 0 THEN NoLines ELSE SplitSymbol(f[n - 1], d[n])]
\* For every length there is a function that satisfies the equation of Splits,
LEMMA SplitsExist == ASSUME NEW d, NEW N \in Nat PROVE \E f : IsSplits(f, d, N)
  <1> DEFINE Bad == {K \in Nat : ~\E f : IsSplits(f, d, K)}
  <1>1. SUFFICES ASSUME Bad # {} PROVE FALSE
    OBVIOUS
  <1>2. PICK K \in Bad : \A m \in Bad : K <= m
    BY <1>1, Least
  <1>3. CASE K = 0
    <2> DEFINE f == [n \in 0 .. 0 |-> NoLines]
    <2>1. f = [n \in 0 .. 0 |-> IF n = 0 THEN NoLines ELSE SplitSymbol(f[n - 1], d[n])]
      OBVIOUS
    <2> HIDE DEF f
    <2> QED BY <2>1, <1>2, <1>3 DEF IsSplits
  <1>4. CASE K # 0
    <2>1. K \in Nat /\ K - 1 \in Nat /\ K - 1 \notin Bad
      BY <1>2, <1>4
    <2>2. PICK g : IsSplits(g, d, K - 1)
      BY <2>1
    <2>3. \A n \in 0 .. K - 1 : g[n] = IF n = 0 THEN NoLines ELSE SplitSymbol(g[n - 1], d[n])
      BY <2>2 DEF IsSplits
    <2> DEFINE f == [n \in 0 .. K |-> IF n = K THEN SplitSymbol(g[K - 1], d[K]) ELSE g[n]]
    <2>4. ASSUME NEW n \in 0 .. K
          PROVE  f[n] = IF n = 0 THEN NoLines ELSE SplitSymbol(f[n - 1], d[n])
      <3>1. n # 0 => n - 1 \in 0 .. K /\ n - 1 # K /\ f[n - 1] = g[n - 1]
        BY <2>1
      <3>2. CASE n = K
        BY <3>1, <3>2, <1>4
      <3>3. CASE n # K
        <4>1. n \in 0 .. K - 1 /\ f[n] = g[n]
          BY <3>3, <2>1
        <4> QED BY <4>1, <3>1, <2>3
      <3> QED BY <3>2, <3>3
    <2>5. f = [n \in 0 .. K |-> f[n]]
      OBVIOUS
    <2> HIDE DEF f
    <2>6. IsSplits(f, d, K)
      BY <2>4, <2>5, Zenon DEF IsSplits
    <2> QED BY <2>6, <1>2
  <1> QED BY <1>3, <1>4

\* so that Splits is the splitting of a document symbol by symbol.
LEMMA SplitsEquation ==
  ASSUME NEW d, Len(d) \in Nat
  PROVE  /\ Splits(d)[0] = NoLines
         /\ \A n \in 1 .. Len(d) : Splits(d)[n] = SplitSymbol(Splits(d)[n - 1], d[n])
  <1>1. PICK g : IsSplits(g, d, Len(d))
    BY SplitsExist
  <1> DEFINE f == CHOOSE h : IsSplits(h, d, Len(d))
  <1>2. IsSplits(f, d, Len(d))
    BY <1>1
  <1>3. Splits(d) = f
    BY Zenon DEF Splits, IsSplits, NoLines
  <1> HIDE DEF f
  <1>4. \A n \in 0 .. Len(d) : f[n] = IF n = 0 THEN NoLines ELSE SplitSymbol(f[n - 1], d[n])
    BY <1>2 DEF IsSplits
  <1> QED BY <1>3, <1>4

IsReaders(f, w, N) == f = [n \in 0 .. N |-> IF n = 0 THEN ReaderStart ELSE ReadLine(f[n - 1], w[n])]
\* For every length there is a function that satisfies the equation of Readers,
LEMMA ReadersExist == ASSUME NEW w, NEW N \in Nat PROVE \E f : IsReaders(f, w, N)
  <1> DEFINE Bad == {K \in Nat : ~\E f : IsReaders(f, w, K)}
  <1>1. SUFFICES ASSUME Bad # {} PROVE FALSE
    OBVIOUS
  <1>2. PICK K \in Bad : \A m \in Bad : K <= m
    BY <1>1, Least
  <1>3. CASE K = 0
    <2> DEFINE f == [n \in 0 .. 0 |-> ReaderStart]
    <2>1. f = [n \in 0 .. 0 |-> IF n = 0 THEN ReaderStart ELSE ReadLine(f[n - 1], w[n])]
      OBVIOUS
    <2> HIDE DEF f
    <2> QED BY <2>1, <1>2, <1>3 DEF IsReaders
  <1>4. CASE K # 0
    <2>1. K \in Nat /\ K - 1 \in Nat /\ K - 1 \notin Bad
      BY <1>2, <1>4
    <2>2. PICK g : IsReaders(g, w, K - 1)
      BY <2>1
    <2>3. \A n \in 0 .. K - 1 : g[n] = IF n = 0 THEN ReaderStart ELSE ReadLine(g[n - 1], w[n])
      BY <2>2 DEF IsReaders
    <2> DEFINE f == [n \in 0 .. K |-> IF n = K THEN ReadLine(g[K - 1], w[K]) ELSE g[n]]
    <2>4. ASSUME NEW n \in 0 .. K
          PROVE  f[n] = IF n = 0 THEN ReaderStart ELSE ReadLine(f[n - 1], w[n])
      <3>1. n # 0 => n - 1 \in 0 .. K /\ n - 1 # K /\ f[n - 1] = g[n - 1]
        BY <2>1
      <3>2. CASE n = K
        BY <3>1, <3>2, <1>4
      <3>3. CASE n # K
        <4>1. n \in 0 .. K - 1 /\ f[n] = g[n]
          BY <3>3, <2>1
        <4> QED BY <4>1, <3>1, <2>3
      <3> QED BY <3>2, <3>3
    <2>5. f = [n \in 0 .. K |-> f[n]]
      OBVIOUS
    <2> HIDE DEF f
    <2>6. IsReaders(f, w, K)
      BY <2>4, <2>5, Zenon DEF IsReaders
    <2> QED BY <2>6, <1>2
  <1> QED BY <1>3, <1>4

\* so that Readers is the reading of lines one by one.
LEMMA ReadersEquation ==
  ASSUME NEW w, Len(w) \in Nat
  PROVE  /\ Readers(w)[0] = ReaderStart
         /\ \A n \in 1 .. Len(w) : Readers(w)[n] = ReadLine(Readers(w)[n - 1], w[n])
  <1>1. PICK g : IsReaders(g, w, Len(w))
    BY ReadersExist
  <1> DEFINE f == CHOOSE h : IsReaders(h, w, Len(w))
  <1>2. IsReaders(f, w, Len(w))
    BY <1>1
  <1>3. Readers(w) = f
    BY Zenon DEF Readers, IsReaders
  <1> HIDE DEF f
  <1>4. \A n \in 0 .. Len(w) : f[n] = IF n = 0 THEN ReaderStart ELSE ReadLine(f[n - 1], w[n])
    BY <1>2 DEF IsReaders
  <1> QED BY <1>3, <1>4

-----------------------------------------------------------------------------
(* One symbol, and one line.                                               *)

Text == Seq(Symbols)
Splittings == [lines : Seq(Text), rest : Text, cr : BOOLEAN]
Seen == [id : Text, time : Times, body : Seq(Text)]
Phases == {"header", "gap", "body", "id", "text", "skip", "dead"}
Readings == [phase : Phases, cue : Seen, cues : Seq(Seen), errors : SUBSET (Codes \X Nat),
             line : Nat, chained : BOOLEAN]

\* Whether symbol s ends a line, after a CR or not.
Ends(s, cr) == IsEol(s) /\ ~(s = "LF" /\ cr)

\* One more symbol ends the line or is the next of it; the LF after a CR does neither.
LEMMA SplitOne ==
  ASSUME NEW a \in Splittings, NEW s \in Symbols
  PROVE  /\ SplitSymbol(a, s) \in Splittings /\ (SplitSymbol(a, s).cr <=> s = "CR")
         /\ Ends(s, a.cr) => /\ SplitSymbol(a, s).lines = Append(a.lines, a.rest)
                             /\ SplitSymbol(a, s).rest = << >>
         /\ ~IsEol(s) => /\ SplitSymbol(a, s).lines = a.lines
                         /\ SplitSymbol(a, s).rest = Append(a.rest, s)
         /\ s = "LF" /\ a.cr => /\ SplitSymbol(a, s).lines = a.lines
                                /\ SplitSymbol(a, s).rest = a.rest
  <1>1. << >> \in Text
    BY EmptySeq DEF Text
  <1>2. a.lines \in Seq(Text) /\ a.rest \in Text /\ a.cr \in BOOLEAN
    BY DEF Splittings
  <1>3. Append(a.lines, a.rest) \in Seq(Text)
    BY <1>2
  <1>4. Append(a.rest, s) \in Text
    BY <1>2 DEF Text
  <1>5. CASE s = "LF" /\ a.cr
    BY <1>2, <1>5 DEF SplitSymbol, Splittings, IsEol, Ends
  <1>6. CASE Ends(s, a.cr)
    <2>1. SplitSymbol(a, s) = [lines |-> Append(a.lines, a.rest), rest |-> << >>, cr |-> s = "CR"]
      BY <1>6 DEF SplitSymbol, IsEol, Ends
    <2>2. SplitSymbol(a, s) \in Splittings
      BY <1>1, <1>3, <2>1 DEF Splittings
    <2> DEFINE b == SplitSymbol(a, s)
    <2>3. b.lines = Append(a.lines, a.rest) /\ b.rest = << >> /\ b.cr = (s = "CR")
      BY <2>1
    <2>4. IsEol(s) /\ ~(s = "LF" /\ a.cr)
      BY <1>6 DEF Ends
    <2> HIDE DEF b
    <2> QED BY <2>2, <2>3, <2>4 DEF b
  <1>7. CASE ~IsEol(s)
    <2>1. SplitSymbol(a, s) = [a EXCEPT !.rest = Append(@, s), !.cr = FALSE]
      BY <1>7 DEF SplitSymbol, IsEol
    <2> QED BY <1>2, <1>4, <1>7, <2>1 DEF Splittings, IsEol, Ends
  <1> QED BY <1>5, <1>6, <1>7 DEF Ends

\* The parts of a document split after n symbols.
Rest(d, n) == Splits(d)[n].rest
Count(d, n) == Len(Splits(d)[n].lines)
Before(d, n) == Readers(Lines(d))[Count(d, n)]

\* Every stage of a split is lines and the rest of a line.
LEMMA SplitsType ==
  ASSUME NEW d \in Text PROVE \A n \in 0 .. Len(d) : Splits(d)[n] \in Splittings
  <1>1. NoLines \in Splittings
    BY EmptySeq DEF NoLines, Splittings, Text
  <1> DEFINE Bad == {n \in 0 .. Len(d) : Splits(d)[n] \notin Splittings}
  <1>2. SUFFICES ASSUME Bad # {} PROVE FALSE
    OBVIOUS
  <1>3. Len(d) \in Nat
    BY DEF Text
  <1>4. PICK n \in Bad : \A m \in Bad : n <= m
    <2>1. Bad \in SUBSET Nat
      BY <1>3
    <2> QED BY <1>2, <2>1, Least
  <1>5. n # 0
    BY <1>1, <1>3, <1>4, SplitsEquation
  <1>6. n - 1 \in 0 .. Len(d) /\ n - 1 \notin Bad /\ n \in 1 .. Len(d)
    BY <1>3, <1>4, <1>5
  <1>7. d[n] \in Symbols
    BY <1>6 DEF Text
  <1>8. Splits(d)[n] = SplitSymbol(Splits(d)[n - 1], d[n])
    BY <1>3, <1>6, SplitsEquation
  <1> QED BY <1>4, <1>6, <1>7, <1>8, SplitOne

\* What one more symbol changes.
LEMMA SplitNext ==
  ASSUME NEW d \in Text, NEW n \in 0 .. Len(d) - 1
  PROVE  LET a == Splits(d)[n] b == Splits(d)[n + 1] s == d[n + 1] IN
         /\ s \in Symbols /\ a \in Splittings /\ b \in Splittings
         /\ a.cr <=> n > 0 /\ d[n] = "CR"
         /\ b = SplitSymbol(a, s)
  <1>1. Len(d) \in Nat /\ n \in 0 .. Len(d) /\ n + 1 \in 1 .. Len(d) /\ (n + 1) - 1 = n
    BY DEF Text
  <1>2. d[n + 1] \in Symbols /\ Splits(d)[n] \in Splittings /\ Splits(d)[n + 1] \in Splittings
    BY <1>1, SplitsType DEF Text
  <1>3. Splits(d)[n + 1] = SplitSymbol(Splits(d)[n], d[n + 1])
    BY <1>1, SplitsEquation
  <1>4. CASE n = 0
    <2>1. Splits(d)[n].cr = FALSE
      BY <1>1, <1>4, SplitsEquation DEF NoLines
    <2> QED BY <1>2, <1>3, <1>4, <2>1
  <1>5. CASE n # 0
    <2>1. n \in 1 .. Len(d) /\ n - 1 \in 0 .. Len(d) /\ n > 0
      BY <1>1, <1>5
    <2>2. Splits(d)[n] = SplitSymbol(Splits(d)[n - 1], d[n]) /\ Splits(d)[n - 1] \in Splittings
          /\ d[n] \in Symbols
      BY <1>1, <2>1, SplitsEquation, SplitsType DEF Text
    <2> QED BY <1>2, <1>3, <2>1, <2>2, SplitOne
  <1> QED BY <1>4, <1>5


\* What a line with timings in it starts: the text of a cue with this id, or one to skip.
Starts(q, id, l) ==
  IF TimingStatus(TimingKind(l)) = "SUCCESS"
  THEN q.phase = "text" /\ q.cue = [id |-> id, time |-> TimingKind(l), body |-> << >>]
  ELSE q.phase = "skip"

\* A timing line is good or bad; a good one is the times of a cue, and a bad one is reported
\* by a code of the parser.
LEMMA TimingKindIs ==
  ASSUME NEW l
  PROVE  /\ TimingKind(l) \in TimingSymbols \cup {"BAD"}
         /\ TimingStatus(TimingKind(l)) = "SUCCESS" => TimingKind(l) \in Times
         /\ TimingReports(TimingKind(l)) # << >> => Head(TimingReports(TimingKind(l))) \in Codes
  <1>1. TimingKind(l) \in TimingSymbols \cup {"BAD"}
    BY DEF TimingKind
  <1>2. TimingStatus(TimingKind(l)) = "SUCCESS" => TimingKind(l) \in Times
    BY <1>1 DEF TimingSymbols, TimingStatus, Times
  <1>3. ASSUME TimingReports(TimingKind(l)) # << >>
        PROVE  Head(TimingReports(TimingKind(l))) \in Codes
    BY <1>3 DEF TimingReports, Codes
  <1> QED BY <1>1, <1>2, <1>3

\* A report changes nothing but the errors.
LEMMA ComplainType ==
  ASSUME NEW r \in Readings, NEW c \in Codes
  PROVE  /\ Complain(r, c) \in Readings /\ Complain(r, c).phase = r.phase
         /\ Complain(r, c).cue = r.cue /\ Complain(r, c).cues = r.cues
         /\ Complain(r, c).line = r.line
  <1>1. r.errors \cup {<<c, r.line>>} \in SUBSET (Codes \X Nat)
    BY DEF Readings
  <1> QED BY <1>1 DEF Complain, Readings

\* The cue that a reader starts with, and what is empty.
LEMMA NoCueType == NoCue \in Seen /\ << >> \in Seq(Text) /\ << >> \in Text
  BY EmptySeq DEF NoCue, Seen, Times, Text

\* What a timing line does to a reader.
LEMMA StartTimingsIs ==
  ASSUME NEW r \in Readings, NEW id \in Text, NEW l
  PROVE  /\ StartTimings(r, id, l) \in Readings /\ Starts(StartTimings(r, id, l), id, l)
         /\ StartTimings(r, id, l).cues = r.cues
  <1> DEFINE k == TimingKind(l)
             e == TimingReports(k)
             said == IF e = << >> THEN r ELSE Complain(r, Head(e))
             c == [id |-> id, time |-> k, body |-> << >>]
  <1>1. said \in Readings /\ said.cues = r.cues
    BY ComplainType, TimingKindIs
  <1>2. StartTimings(r, id, l) = IF TimingStatus(k) = "SUCCESS"
                                 THEN [said EXCEPT !.phase = "text", !.cue = c]
                                 ELSE [said EXCEPT !.phase = "skip", !.cue = NoCue]
    BY DEF StartTimings
  <1>3. CASE TimingStatus(k) = "SUCCESS"
    <2>1. c \in Seen
      BY <1>3, TimingKindIs, NoCueType DEF Seen
    <2> HIDE DEF said, c
    <2>2. StartTimings(r, id, l) = [said EXCEPT !.phase = "text", !.cue = c]
      BY <1>2, <1>3
    <2>3. /\ StartTimings(r, id, l) \in Readings /\ StartTimings(r, id, l).phase = "text"
          /\ StartTimings(r, id, l).cue = c /\ StartTimings(r, id, l).cues = said.cues
      BY <1>1, <2>1, <2>2 DEF Readings, Phases
    <2> QED BY <1>1, <1>3, <2>3 DEF Starts, c
  <1>4. CASE TimingStatus(k) # "SUCCESS"
    <2> HIDE DEF said
    <2>2. StartTimings(r, id, l) = [said EXCEPT !.phase = "skip", !.cue = NoCue]
      BY <1>2, <1>4
    <2>3. /\ StartTimings(r, id, l) \in Readings /\ StartTimings(r, id, l).phase = "skip"
          /\ StartTimings(r, id, l).cues = said.cues
      BY <1>1, <2>2, NoCueType DEF Readings, Phases
    <2> QED BY <1>1, <1>4, <2>3 DEF Starts
  <1> QED BY <1>3, <1>4

\* A reader that ends a text hands over its cue, if the times are good.
LEMMA EmitIs ==
  ASSUME NEW r \in Readings
  PROVE  /\ Emit(r) \in Readings /\ Emit(r).phase = r.phase /\ Emit(r).cue = r.cue
         /\ Emit(r).cues = IF r.phase = "text" /\ ValidTimes(r.cue.time)
                           THEN Append(r.cues, r.cue) ELSE r.cues
  <1>1. r.cues \in Seq(Seen) /\ r.cue \in Seen
    BY DEF Readings
  <1>2. Append(r.cues, r.cue) \in Seq(Seen)
    BY <1>1
  <1> QED BY <1>2 DEF Emit, Readings

\* The lines a reader may come to, by what it is in.
ReadsBody(r, q, l) ==
  /\ q.cues = r.cues
  /\ l = << >> => q.phase = "body"
  /\ HasArrow(l) => Starts(q, << >>, l)
  /\ l # << >> /\ ~HasArrow(l) => q.phase = "id" /\ q.cue.id = l
ReadsId(r, q, l) ==
  /\ q.cues = r.cues
  /\ HasArrow(l) => Starts(q, r.cue.id, l)
  /\ ~HasArrow(l) => q.phase = "skip"
ReadsText(r, q, l) ==
  /\ l = << >> => q.phase = "body" /\ q.cues = Emit(r).cues
  /\ HasArrow(l) => Starts(q, << >>, l) /\ q.cues = Emit(r).cues
  /\ l # << >> /\ ~HasArrow(l) =>
       /\ q.phase = r.phase /\ q.cues = r.cues
       /\ r.phase = "text" => q.cue = [r.cue EXCEPT !.body = Append(@, l)]
Reads(r, q, l) ==
  /\ r.phase = "header" => q.phase = (IF IsSignature(l) THEN "gap" ELSE "dead") /\ q.cues = r.cues
  /\ r.phase = "dead" => q.phase = "dead" /\ q.cues = r.cues
  /\ r.phase \in {"gap", "body"} => ReadsBody(r, q, l)
  /\ r.phase = "id" => ReadsId(r, q, l)
  /\ r.phase \in {"text", "skip"} => ReadsText(r, q, l)

\* What a line between cues does to a reader.
LEMMA ReadBodyLineIs ==
  ASSUME NEW r \in Readings, NEW l \in Text
  PROVE  ReadBodyLine(r, l) \in Readings /\ ReadsBody(r, ReadBodyLine(r, l), l)
  <1>1. CASE l = << >>
    <2>1. ~HasArrow(l)
      BY <1>1 DEF HasArrow
    <2> QED BY <1>1, <2>1 DEF ReadBodyLine, ReadsBody, Readings, Phases
  <1>2. CASE HasArrow(l)
    <2>1. l # << >>
      BY <1>2 DEF HasArrow
    <2>2. ReadBodyLine(r, l) = StartTimings(r, << >>, l)
      BY <1>2, <2>1 DEF ReadBodyLine
    <2> QED BY <1>2, <2>1, <2>2, NoCueType, StartTimingsIs DEF ReadsBody
  <1>3. CASE l # << >> /\ ~HasArrow(l)
    <2> DEFINE c == [NoCue EXCEPT !.id = l]
    <2>1. c \in Seen /\ c.id = l
      BY NoCueType DEF Seen, NoCue
    <2> HIDE DEF c
    <2>2. ReadBodyLine(r, l) = [r EXCEPT !.phase = "id", !.cue = c]
      BY <1>3 DEF ReadBodyLine, c
    <2> QED BY <1>3, <2>1, <2>2 DEF ReadsBody, Readings, Phases
  <1> QED BY <1>1, <1>2, <1>3

\* What a line of the text of a cue does to a reader.
LEMMA ReadTextLineIs ==
  ASSUME NEW r \in Readings, NEW l \in Text, r.phase \in {"text", "skip"}
  PROVE  ReadTextLine(r, l) \in Readings /\ ReadsText(r, ReadTextLine(r, l), l)
  <1> DEFINE e == Emit(r)
  <1>0. e \in Readings /\ e.cues = Emit(r).cues
    BY EmitIs
  <1> HIDE DEF e
  <1>1. CASE l = << >>
    <2>1. ~HasArrow(l)
      BY <1>1 DEF HasArrow
    <2>2. ReadTextLine(r, l) = [e EXCEPT !.phase = "body", !.cue = NoCue]
      BY <1>1, <2>1 DEF ReadTextLine, e
    <2> QED BY <1>0, <1>1, <2>1, <2>2, NoCueType DEF ReadsText, Readings, Phases
  <1>2. CASE HasArrow(l)
    <2>1. l # << >>
      BY <1>2 DEF HasArrow
    <2> DEFINE f == [e EXCEPT !.chained = TRUE]
    <2>2. ReadTextLine(r, l) = StartTimings(f, << >>, l)
      BY <1>2, <2>1 DEF ReadTextLine, e
    <2>3. f \in Readings /\ f.cues = e.cues
      BY <1>0 DEF Readings
    <2> HIDE DEF f
    <2> QED BY <1>0, <1>2, <2>1, <2>2, <2>3, NoCueType, StartTimingsIs DEF ReadsText
  <1>3. CASE l # << >> /\ ~HasArrow(l) /\ r.phase = "text"
    <2>1. r.cue \in Seen /\ r.cue.body \in Seq(Text)
      BY DEF Readings, Seen
    <2>2. Append(r.cue.body, l) \in Seq(Text)
      BY <2>1
    <2> DEFINE c == [r.cue EXCEPT !.body = Append(@, l)]
    <2>3. c \in Seen
      BY <2>1, <2>2 DEF Seen
    <2>4. ReadTextLine(r, l) = [r EXCEPT !.cue = c]
      BY <1>3, <2>1 DEF ReadTextLine, Readings, Seen
    <2>5. [r EXCEPT !.cue = c] \in Readings /\ [r EXCEPT !.cue = c].cue = c
          /\ [r EXCEPT !.cue = c].phase = r.phase /\ [r EXCEPT !.cue = c].cues = r.cues
      BY <2>3 DEF Readings
    <2> QED BY <1>3, <2>4, <2>5 DEF ReadsText
  <1>4. CASE l # << >> /\ ~HasArrow(l) /\ r.phase = "skip"
    BY <1>4 DEF ReadTextLine, ReadsText
  <1> QED BY <1>1, <1>2, <1>3, <1>4


\* What any line does to a reader.
LEMMA ReadLineIs ==
  ASSUME NEW r \in Readings, NEW l \in Text
  PROVE  ReadLine(r, l) \in Readings /\ Reads(r, ReadLine(r, l), l)
  <1>1. PICK next : ReadLine(r, l) = [next EXCEPT !.line = @ + 1]
                    /\ next \in Readings /\ Reads(r, next, l)
    <2>1. CASE r.phase = "header"
      <3> DEFINE q == IF IsSignature(l) THEN [r EXCEPT !.phase = "gap"]
                      ELSE [Complain(r, "MALFORMED_TAG") EXCEPT !.phase = "dead"]
      <3>1. "MALFORMED_TAG" \in Codes
        BY DEF Codes
      <3>2. Complain(r, "MALFORMED_TAG") \in Readings /\ Complain(r, "MALFORMED_TAG").cues = r.cues
        BY <3>1, ComplainType
      <3>3. q \in Readings /\ q.phase = (IF IsSignature(l) THEN "gap" ELSE "dead")
            /\ q.cues = r.cues
        BY <3>2 DEF Readings, Phases
      <3>4. ReadLine(r, l) = [q EXCEPT !.line = @ + 1]
        BY <2>1 DEF ReadLine
      <3> HIDE DEF q
      <3> QED BY <2>1, <3>3, <3>4 DEF Reads
    <2>2. CASE r.phase = "gap"
      <3> DEFINE c == IF l = << >> THEN r ELSE Complain(r, "EXPECTED_EOL")
                 q == ReadBodyLine(c, l)
      <3>1. "EXPECTED_EOL" \in Codes
        BY DEF Codes
      <3>2. c \in Readings /\ c.cues = r.cues
        BY <3>1, ComplainType
      <3>4. ReadLine(r, l) = [q EXCEPT !.line = @ + 1]
        BY <2>2 DEF ReadLine
      <3> HIDE DEF c
      <3>5. q \in Readings /\ ReadsBody(c, q, l)
        BY <3>2, ReadBodyLineIs
      <3> HIDE DEF q
      <3>6. ReadsBody(r, q, l)
        BY <3>2, <3>5 DEF ReadsBody
      <3> QED BY <2>2, <3>4, <3>5, <3>6 DEF Reads
    <2>3. CASE r.phase = "body"
      <3> DEFINE q == ReadBodyLine(r, l)
      <3>4. ReadLine(r, l) = [q EXCEPT !.line = @ + 1]
        BY <2>3 DEF ReadLine
      <3>5. q \in Readings /\ ReadsBody(r, q, l)
        BY ReadBodyLineIs
      <3> HIDE DEF q
      <3> QED BY <2>3, <3>4, <3>5 DEF Reads
    <2>4. CASE r.phase = "id" /\ HasArrow(l)
      <3> DEFINE q == StartTimings(r, r.cue.id, l)
      <3>1. r.cue.id \in Text
        BY DEF Readings, Seen
      <3>2. q \in Readings /\ Starts(q, r.cue.id, l) /\ q.cues = r.cues
        BY <3>1, StartTimingsIs
      <3>4. ReadLine(r, l) = [q EXCEPT !.line = @ + 1]
        BY <2>4 DEF ReadLine
      <3> HIDE DEF q
      <3> QED BY <2>4, <3>2, <3>4 DEF Reads, ReadsId
    <2>5. CASE r.phase = "id" /\ ~HasArrow(l)
      <3> DEFINE c == Complain(r, "CUE_INCOMPLETE")
                 q == [c EXCEPT !.phase = "skip", !.cue = NoCue]
      <3>1. "CUE_INCOMPLETE" \in Codes
        BY DEF Codes
      <3>2. c \in Readings /\ c.cues = r.cues
        BY <3>1, ComplainType
      <3>4. ReadLine(r, l) = [q EXCEPT !.line = @ + 1]
        BY <2>5 DEF ReadLine
      <3> HIDE DEF c
      <3>5. q \in Readings /\ q.phase = "skip" /\ q.cues = c.cues
        BY <3>2, NoCueType DEF Readings, Phases
      <3> HIDE DEF q
      <3> QED BY <2>5, <3>2, <3>4, <3>5 DEF Reads, ReadsId
    <2>6. CASE r.phase \in {"text", "skip"}
      <3> DEFINE q == ReadTextLine(r, l)
      <3>4. ReadLine(r, l) = [q EXCEPT !.line = @ + 1]
        BY <2>6 DEF ReadLine
      <3>5. q \in Readings /\ ReadsText(r, q, l)
        BY <2>6, ReadTextLineIs
      <3> HIDE DEF q
      <3> QED BY <2>6, <3>4, <3>5 DEF Reads
    <2>7. CASE r.phase = "dead"
      <3>1. ReadLine(r, l) = [r EXCEPT !.line = @ + 1]
        BY <2>7 DEF ReadLine
      <3> QED BY <2>7, <3>1 DEF Reads
    <2>8. r.phase \in Phases
      BY DEF Readings
    <2> QED BY <2>1, <2>2, <2>3, <2>4, <2>5, <2>6, <2>7, <2>8 DEF Phases
  <1> DEFINE q == ReadLine(r, l)
  <1>2. q \in Readings /\ q.phase = next.phase /\ q.cues = next.cues /\ q.cue = next.cue
    BY SMTT(20), <1>1 DEF Readings
  <1> HIDE DEF q
  <1>3. Reads(r, q, l)
    BY <1>1, <1>2 DEF Reads, ReadsBody, ReadsId, ReadsText, Starts
  <1> QED BY <1>2, <1>3 DEF q

\* A reader starts as a reader.
LEMMA ReaderStartType == ReaderStart \in Readings
  BY NoCueType DEF ReaderStart, Readings, Phases, Seen

\* Every stage of a reading is a reader.
LEMMA ReadersType ==
  ASSUME NEW w \in Seq(Text) PROVE \A n \in 0 .. Len(w) : Readers(w)[n] \in Readings
  <1> DEFINE Bad == {n \in 0 .. Len(w) : Readers(w)[n] \notin Readings}
  <1>2. SUFFICES ASSUME Bad # {} PROVE FALSE
    OBVIOUS
  <1>3. Len(w) \in Nat
    OBVIOUS
  <1>4. PICK n \in Bad : \A m \in Bad : n <= m
    <2>1. Bad \in SUBSET Nat
      BY <1>3
    <2> QED BY <1>2, <2>1, Least
  <1>5. n # 0
    BY <1>3, <1>4, ReadersEquation, ReaderStartType
  <1>6. n - 1 \in 0 .. Len(w) /\ n - 1 \notin Bad /\ n \in 1 .. Len(w)
    BY <1>3, <1>4, <1>5
  <1>7. w[n] \in Text
    BY <1>6
  <1>8. Readers(w)[n] = ReadLine(Readers(w)[n - 1], w[n])
    BY <1>3, <1>6, ReadersEquation
  <1> QED BY <1>4, <1>6, <1>7, <1>8, ReadLineIs


\* Lines that were read stay as they are.
Kept(d, n) == /\ Count(d, n) <= Count(d, Len(d))
              /\ \A i \in 1 .. Count(d, n) : Splits(d)[n].lines[i] = Split(d).lines[i]
\* Every line that was split off stays.
LEMMA LinesStay == ASSUME NEW d \in Text PROVE \A n \in 0 .. Len(d) : Kept(d, n)
  <1> DEFINE N == Len(d)
             Bad == {m \in 0 .. N : ~Kept(d, N - m)}
  <1>1. N \in Nat /\ N = Len(d)
    BY DEF Text
  <1>2. Bad = {}
    <2>1. SUFFICES ASSUME Bad # {} PROVE FALSE
      OBVIOUS
    <2>2. PICK m \in Bad : \A k \in Bad : m <= k
      <3>1. Bad \in SUBSET Nat
        BY <1>1
      <3> QED BY <2>1, <3>1, Least
    <2>3. \A n \in 0 .. N : Splits(d)[n] \in Splittings /\ Count(d, n) \in Nat
      BY SplitsType DEF Count, Splittings
    <2>4. CASE m = 0
      <3>1. N - m = N /\ N \in 0 .. N
        BY <1>1, <2>4
      <3>2. Kept(d, N)
        BY <2>3, <3>1 DEF Kept, Split
      <3> QED BY <2>2, <3>1, <3>2
    <2>5. CASE m # 0
      <3> DEFINE n == N - m
      <3>1. n \in 0 .. N - 1 /\ m - 1 \in 0 .. N /\ N - (m - 1) = n + 1 /\ m - 1 \notin Bad
            /\ n \in 0 .. N /\ n + 1 \in 0 .. N
        BY <1>1, <2>2, <2>5
      <3>2. Kept(d, n + 1)
        BY <3>1
      <3> DEFINE a == Splits(d)[n]
                 b == Splits(d)[n + 1]
      <3>3. a \in Splittings /\ d[n + 1] \in Symbols /\ b = SplitSymbol(a, d[n + 1])
        BY <1>1, <3>1, SplitNext
      <3>4. b.lines = a.lines \/ b.lines = Append(a.lines, a.rest)
        BY SMTT(20), <3>3, SplitOne DEF Ends
      <3>5. a.lines \in Seq(Text) /\ a.rest \in Text
        BY <3>3 DEF Splittings
      <3>6. Len(a.lines) <= Len(b.lines) /\ \A i \in 1 .. Len(a.lines) : b.lines[i] = a.lines[i]
        BY SMTT(20), <3>4, <3>5
      <3>7. Count(d, n) = Len(a.lines) /\ Count(d, n + 1) = Len(b.lines)
        BY DEF Count
      <3> HIDE DEF a, b
      <3>8. Count(d, n) \in Nat /\ Count(d, n + 1) \in Nat /\ Count(d, N) \in Nat
        BY <1>1, <2>3, <3>1
      <3>9. Count(d, n) <= Count(d, N)
        BY <1>1, <3>2, <3>6, <3>7, <3>8 DEF Kept
      <3>10. ASSUME NEW i \in 1 .. Count(d, n)
             PROVE  Splits(d)[n].lines[i] = Split(d).lines[i]
        <4>1. i \in 1 .. Count(d, n + 1)
          BY <3>6, <3>7, <3>8
        <4>2. Splits(d)[n + 1].lines[i] = Split(d).lines[i]
          BY <3>2, <4>1 DEF Kept
        <4> QED BY <3>6, <3>7, <4>2 DEF a, b
      <3>11. Kept(d, n)
        BY <1>1, <3>9, <3>10 DEF Kept
      <3> QED BY <2>2, <3>11
    <2> QED BY <2>4, <2>5
  <1>3. ASSUME NEW n \in 0 .. N PROVE Kept(d, n)
    <2>1. N - n \in 0 .. N /\ N - (N - n) = n
      BY <1>1
    <2> QED BY <1>2, <2>1
  <1> QED BY <1>3

\* The lines of a document are those that ended, and the rest when there is one.
LEMMA LinesAre ==
  ASSUME NEW d \in Text
  PROVE  /\ Lines(d) \in Seq(Text) /\ Count(d, Len(d)) \in Nat
         /\ Len(Lines(d)) = Count(d, Len(d)) + (IF Rest(d, Len(d)) = << >> THEN 0 ELSE 1)
         /\ Rest(d, Len(d)) # << >> => Lines(d)[Len(Lines(d))] = Rest(d, Len(d))
         /\ \A n \in 0 .. Len(d) :
              /\ Count(d, n) \in 0 .. Len(Lines(d))
              /\ \A i \in 1 .. Count(d, n) : Splits(d)[n].lines[i] = Lines(d)[i]
  <1> DEFINE s == Split(d)
  <1>1. Len(d) \in Nat /\ Len(d) \in 0 .. Len(d)
    BY DEF Text
  <1>2. s \in Splittings /\ s = Splits(d)[Len(d)]
    BY <1>1, SplitsType DEF Split
  <1>3. s.lines \in Seq(Text) /\ s.rest \in Text /\ Count(d, Len(d)) = Len(s.lines)
        /\ Rest(d, Len(d)) = s.rest
    BY <1>2 DEF Splittings, Count, Rest
  <1>4. Lines(d) = IF s.rest = << >> THEN s.lines ELSE Append(s.lines, s.rest)
    BY DEF Lines
  <1> DEFINE ls == s.lines
             rs == s.rest
             w == Lines(d)
  <1>5. ls \in Seq(Text) /\ rs \in Text /\ Count(d, Len(d)) = Len(ls) /\ Rest(d, Len(d)) = rs
        /\ w = IF rs = << >> THEN ls ELSE Append(ls, rs)
    BY <1>3, <1>4
  <1>6. \A n \in 0 .. Len(d) : /\ Count(d, n) \in Nat /\ Count(d, n) <= Count(d, Len(d))
                               /\ \A i \in 1 .. Count(d, n) : Splits(d)[n].lines[i] = ls[i]
    <2> SUFFICES ASSUME NEW n \in 0 .. Len(d)
                 PROVE  /\ Count(d, n) \in Nat /\ Count(d, n) <= Count(d, Len(d))
                        /\ \A i \in 1 .. Count(d, n) : Splits(d)[n].lines[i] = ls[i]
      OBVIOUS
    <2>1. Splits(d)[n].lines \in Seq(Text)
      BY SplitsType DEF Splittings
    <2>2. Count(d, n) \in Nat
      BY <2>1 DEF Count
    <2>3. Kept(d, n) /\ ls = Split(d).lines
      BY LinesStay DEF s, ls
    <2> QED BY <2>2, <2>3 DEF Kept
  <1> HIDE DEF s, ls, rs, w
  <1>7. /\ w \in Seq(Text) /\ Len(ls) \in Nat
        /\ Len(w) = Len(ls) + (IF rs = << >> THEN 0 ELSE 1)
        /\ \A i \in 1 .. Len(ls) : w[i] = ls[i]
        /\ rs # << >> => w[Len(w)] = rs
    <2>1. CASE rs = << >>
      BY <1>5, <2>1
    <2>2. CASE rs # << >>
      <3>1. w = Append(ls, rs)
        BY <1>5, <2>2
      <3>2. w \in Seq(Text) /\ Len(ls) \in Nat /\ Len(w) = Len(ls) + 1
            /\ \A i \in 1 .. Len(ls) : w[i] = ls[i]
        BY <1>5, <3>1
      <3>3. w[Len(ls) + 1] = rs
        BY <1>5, <3>1
      <3> QED BY <2>2, <3>2, <3>3
    <2> QED BY <2>1, <2>2
  <1>8. ASSUME NEW n \in 0 .. Len(d)
        PROVE  /\ Count(d, n) \in 0 .. Len(w)
               /\ \A i \in 1 .. Count(d, n) : Splits(d)[n].lines[i] = w[i]
    <2>1. Count(d, n) \in Nat /\ Count(d, n) <= Len(ls)
      BY <1>5, <1>6
    <2>2. Count(d, n) \in 0 .. Len(w)
      BY <1>7, <2>1
    <2>3. ASSUME NEW i \in 1 .. Count(d, n)
          PROVE  Splits(d)[n].lines[i] = w[i]
      <3>1. i \in 1 .. Len(ls)
        BY <1>7, <2>1
      <3> QED BY <1>6, <1>7, <3>1
    <2> QED BY <2>2, <2>3
  <1> QED BY <1>5, <1>7, <1>8 DEF w

\* The reader before the line that symbol n + 1 is on or ends.
LEMMA BeforeType ==
  ASSUME NEW d \in Text, NEW n \in 0 .. Len(d)
  PROVE  Before(d, n) \in Readings /\ Rest(d, n) \in Text /\ Reading(d) \in Readings
  <1>1. Lines(d) \in Seq(Text) /\ Count(d, n) \in 0 .. Len(Lines(d))
    BY LinesAre
  <1>2. Len(Lines(d)) \in 0 .. Len(Lines(d))
    BY <1>1
  <1> QED BY <1>1, <1>2, ReadersType, SplitsType DEF Before, Rest, Splittings, Reading

\* Before the first symbol the reader has read nothing.
LEMMA BeforeFirst ==
  ASSUME NEW d \in Text PROVE Before(d, 0) = ReaderStart /\ Rest(d, 0) = << >>
  <1>1. Len(d) \in Nat /\ Len(Lines(d)) \in Nat
    BY LinesAre DEF Text
  <1>2. Splits(d)[0] = NoLines
    BY <1>1, SplitsEquation
  <1>3. Count(d, 0) = 0 /\ Rest(d, 0) = << >>
    BY <1>2 DEF Count, Rest, NoLines
  <1> QED BY <1>1, <1>3, ReadersEquation DEF Before

\* A symbol that ends a line has the reader read it.
LEMMA BeforeEnding ==
  ASSUME NEW d \in Text, NEW n \in 0 .. Len(d) - 1, Ends(d[n + 1], n > 0 /\ d[n] = "CR")
  PROVE  /\ Before(d, n + 1) = ReadLine(Before(d, n), Rest(d, n))
         /\ Rest(d, n + 1) = << >>
  <1> DEFINE a == Splits(d)[n]
             b == Splits(d)[n + 1]
             c == Len(a.lines)
  <1>1. Len(d) \in Nat /\ n \in 0 .. Len(d) /\ n + 1 \in 0 .. Len(d)
    BY DEF Text
  <1>2. a \in Splittings /\ d[n + 1] \in Symbols /\ b = SplitSymbol(a, d[n + 1])
        /\ Ends(d[n + 1], a.cr)
    BY SplitNext DEF Ends
  <1>3. b.lines = Append(a.lines, a.rest) /\ b.rest = << >>
    BY <1>2, SplitOne
  <1>4. a.lines \in Seq(Text) /\ a.rest \in Text
    BY <1>2 DEF Splittings
  <1>5. Len(b.lines) = c + 1 /\ b.lines[c + 1] = a.rest /\ c \in Nat
    BY <1>3, <1>4
  <1>6. Count(d, n) = c /\ Count(d, n + 1) = c + 1 /\ Rest(d, n) = a.rest
        /\ Rest(d, n + 1) = << >>
    BY <1>3, <1>5 DEF Count, Rest
  <1> HIDE DEF c
  <1>7. c + 1 \in 1 .. Len(Lines(d)) /\ Lines(d)[c + 1] = a.rest /\ Len(Lines(d)) \in Nat
    <2>1. c + 1 \in 0 .. Len(Lines(d))
      BY <1>1, <1>6, LinesAre
    <2>2. c + 1 \in 1 .. Count(d, n + 1)
      BY <1>5, <1>6
    <2>3. Splits(d)[n + 1].lines[c + 1] = Lines(d)[c + 1]
      BY <1>1, <2>2, LinesAre
    <2>4. Len(Lines(d)) \in Nat
      BY LinesAre
    <2> QED BY <1>5, <2>1, <2>3, <2>4
  <1>8. Readers(Lines(d))[c + 1] = ReadLine(Readers(Lines(d))[(c + 1) - 1], Lines(d)[c + 1])
    BY <1>7, ReadersEquation
  <1>9. (c + 1) - 1 = c
    BY <1>5
  <1> QED BY <1>6, <1>7, <1>8, <1>9 DEF Before

\* A symbol of a line is added to the line.
LEMMA BeforeText ==
  ASSUME NEW d \in Text, NEW n \in 0 .. Len(d) - 1, ~IsEol(d[n + 1])
  PROVE  /\ Before(d, n + 1) = Before(d, n)
         /\ Rest(d, n + 1) = Append(Rest(d, n), d[n + 1])
  <1> DEFINE a == Splits(d)[n]
             b == Splits(d)[n + 1]
  <1>1. a \in Splittings /\ d[n + 1] \in Symbols /\ b = SplitSymbol(a, d[n + 1])
    BY SplitNext
  <1>2. b.lines = a.lines /\ b.rest = Append(a.rest, d[n + 1])
    BY <1>1, SplitOne
  <1> QED BY <1>2 DEF Before, Count, Rest

\* The LF after a CR changes nothing.
LEMMA BeforeReturn ==
  ASSUME NEW d \in Text, NEW n \in 1 .. Len(d) - 1, d[n] = "CR", d[n + 1] = "LF"
  PROVE  /\ Before(d, n + 1) = Before(d, n)
         /\ Rest(d, n) = << >> /\ Rest(d, n + 1) = << >>
  <1>1. Len(d) \in Nat /\ n - 1 \in 0 .. Len(d) - 1 /\ (n - 1) + 1 = n /\ n \in 0 .. Len(d) - 1
        /\ n > 0
    BY DEF Text
  <1>2. Ends(d[n], n - 1 > 0 /\ d[n - 1] = "CR")
    BY DEF Ends, IsEol
  <1>3. Rest(d, n) = << >>
    BY <1>1, <1>2, BeforeEnding
  <1>4. SplitSymbol(Splits(d)[n], "LF").lines = Splits(d)[n].lines
        /\ SplitSymbol(Splits(d)[n], "LF").rest = Splits(d)[n].rest
        /\ Splits(d)[n + 1] = SplitSymbol(Splits(d)[n], "LF")
    BY <1>1, SplitNext, SplitOne
  <1> QED BY <1>3, <1>4 DEF Before, Count, Rest

\* At the end of the document the reader reads the rest as a line.
LEMMA ReadingEnds ==
  ASSUME NEW d \in Text
  PROVE  LET n == Len(d)
         IN  Reading(d) = IF Rest(d, n) = << >> THEN Before(d, n)
                          ELSE ReadLine(Before(d, n), Rest(d, n))
  <1> DEFINE c == Count(d, Len(d))
  <1>1. /\ c \in Nat /\ Len(Lines(d)) = c + (IF Rest(d, Len(d)) = << >> THEN 0 ELSE 1)
        /\ Rest(d, Len(d)) # << >> => Lines(d)[Len(Lines(d))] = Rest(d, Len(d))
    BY LinesAre
  <1>2. Before(d, Len(d)) = Readers(Lines(d))[c]
    BY DEF Before
  <1> HIDE DEF c
  <1>3. CASE Rest(d, Len(d)) = << >>
    BY <1>1, <1>2, <1>3 DEF Reading
  <1>4. CASE Rest(d, Len(d)) # << >>
    <2>1. Len(Lines(d)) = c + 1 /\ c + 1 \in 1 .. c + 1 /\ (c + 1) - 1 = c /\ c + 1 \in Nat
      BY <1>1, <1>4
    <2>2. Readers(Lines(d))[c + 1] = ReadLine(Readers(Lines(d))[(c + 1) - 1], Lines(d)[c + 1])
      BY <2>1, ReadersEquation
    <2> QED BY <1>1, <1>2, <1>4, <2>1, <2>2 DEF Reading
  <1> QED BY <1>3, <1>4


-----------------------------------------------------------------------------
(* The cues there are, and the documents that have none.                   *)

\* One sequence begins with another.
Begins(p, q) == Len(p) <= Len(q) /\ \A i \in 1 .. Len(p) : p[i] = q[i]

\* Begins is a preorder, and appending extends a sequence.
LEMMA BeginsWith ==
  ASSUME NEW S, NEW p \in Seq(S)
  PROVE  /\ Begins(p, p)
         /\ \A x \in S : Begins(p, Append(p, x))
         /\ \A q, r \in Seq(S) : Begins(p, q) /\ Begins(q, r) => Begins(p, r)
  <1>1. Begins(p, p)
    BY DEF Begins
  <1>2. ASSUME NEW x \in S PROVE Begins(p, Append(p, x))
    BY DEF Begins
  <1>3. ASSUME NEW q \in Seq(S), NEW r \in Seq(S), Begins(p, q), Begins(q, r)
        PROVE  Begins(p, r)
    <2>1. Len(p) \in Nat /\ Len(q) \in Nat /\ Len(r) \in Nat
      OBVIOUS
    <2> QED BY <1>3, <2>1 DEF Begins
  <1> QED BY <1>1, <1>2, <1>3

\* Reading a line takes no cue back, nor does ending a text.
LEMMA ReadLineGrows ==
  ASSUME NEW r \in Readings, NEW l \in Text
  PROVE  Begins(r.cues, ReadLine(r, l).cues) /\ Begins(r.cues, Emit(r).cues)
  <1> DEFINE q == ReadLine(r, l)
  <1>1. r.cues \in Seq(Seen) /\ r.cue \in Seen /\ r.phase \in Phases
    BY DEF Readings
  <1>2. Reads(r, q, l)
    BY ReadLineIs
  <1> HIDE DEF q
  <1>3. Begins(r.cues, r.cues) /\ Begins(r.cues, Append(r.cues, r.cue))
    BY <1>1, BeginsWith
  <1>4. Begins(r.cues, Emit(r).cues)
    BY <1>3, EmitIs
  <1>5. q.cues = r.cues \/ q.cues = Emit(r).cues
    BY <1>1, <1>2 DEF Reads, ReadsBody, ReadsId, ReadsText, Phases
  <1> QED BY <1>3, <1>4, <1>5 DEF q

\* Reading lines takes no cue back.
LEMMA ReadersGrow ==
  ASSUME NEW w \in Seq(Text)
  PROVE  \A n \in 0 .. Len(w) : Begins(Readers(w)[n].cues, Readers(w)[Len(w)].cues)
  <1> DEFINE N == Len(w)
             C(n) == Readers(w)[n].cues
             Bad == {m \in 0 .. N : ~Begins(C(N - m), C(N))}
  <1>1. N \in Nat /\ N = Len(w)
    OBVIOUS
  <1>2. \A n \in 0 .. N : Readers(w)[n] \in Readings /\ C(n) \in Seq(Seen)
    BY ReadersType DEF Readings
  <1>3. Bad = {}
    <2>1. SUFFICES ASSUME Bad # {} PROVE FALSE
      OBVIOUS
    <2>2. PICK m \in Bad : \A k \in Bad : m <= k
      <3>1. Bad \in SUBSET Nat
        BY <1>1
      <3> QED BY <2>1, <3>1, Least
    <2>4. CASE m = 0
      <3>1. N - m = N /\ N \in 0 .. N
        BY <1>1, <2>4
      <3>2. Begins(C(N), C(N))
        BY <1>2, <3>1, BeginsWith
      <3> QED BY <2>2, <3>1, <3>2
    <2>5. CASE m # 0
      <3> DEFINE n == N - m
      <3>1. n \in 0 .. N /\ m - 1 \in 0 .. N /\ N - (m - 1) = n + 1 /\ m - 1 \notin Bad
            /\ n + 1 \in 1 .. N /\ (n + 1) - 1 = n /\ n + 1 \in 0 .. N /\ N \in 0 .. N
        BY <1>1, <2>2, <2>5
      <3>2. Begins(C(n + 1), C(N))
        BY <3>1
      <3>3. Readers(w)[n + 1] = ReadLine(Readers(w)[n], w[n + 1]) /\ w[n + 1] \in Text
        BY <1>1, <3>1, ReadersEquation
      <3>4. Begins(C(n), C(n + 1))
        BY <1>2, <3>1, <3>3, ReadLineGrows
      <3>5. Begins(C(n), C(N))
        <4>1. C(n) \in Seq(Seen) /\ C(n + 1) \in Seq(Seen) /\ C(N) \in Seq(Seen)
          BY <1>2, <3>1
        <4> HIDE DEF C
        <4> QED BY <3>2, <3>4, <4>1, BeginsWith
      <3> QED BY <2>2, <3>5
    <2> QED BY <2>4, <2>5
  <1>4. ASSUME NEW n \in 0 .. N PROVE Begins(C(n), C(N))
    <2>1. N - n \in 0 .. N /\ N - (N - n) = n
      BY <1>1
    <2> QED BY <1>3, <2>1
  <1> QED BY <1>4

\* The cues read so far are the first of those of the document.
LEMMA CuesGrow ==
  ASSUME NEW d \in Text
  PROVE  /\ CuesOf(d) \in Seq(Seen) /\ Begins(Reading(d).cues, CuesOf(d))
         /\ \A n \in 0 .. Len(d) : Begins(Before(d, n).cues, CuesOf(d))
  <1>1. Len(d) \in 0 .. Len(d)
    BY DEF Text
  <1>2. Reading(d) \in Readings
    BY <1>1, BeforeType
  <1>3. Reading(d).cues \in Seq(Seen) /\ CuesOf(d) \in Seq(Seen)
    BY <1>2, EmitIs DEF Readings, CuesOf
  <1>4. Begins(Reading(d).cues, CuesOf(d))
    BY <1>2, ReadLineGrows, NoCueType DEF CuesOf
  <1>5. ASSUME NEW n \in 0 .. Len(d) PROVE Begins(Before(d, n).cues, CuesOf(d))
    <2>1. Lines(d) \in Seq(Text) /\ Count(d, n) \in 0 .. Len(Lines(d))
      BY LinesAre
    <2>2. Begins(Before(d, n).cues, Reading(d).cues)
      BY <2>1, ReadersGrow DEF Before, Reading
    <2>3. Before(d, n).cues \in Seq(Seen)
      BY BeforeType DEF Readings
    <2> QED BY <1>3, <1>4, <2>2, <2>3, BeginsWith
  <1> QED BY <1>3, <1>4, <1>5

\* Documents that do not start with a signature, at the symbol that shows it.
Unsigned(d) == \/ Len(d) > 0 /\ d[1] # "WEB"
               \/ Len(d) > 1 /\ d[2] # "VTT"
               \/ Len(d) > 2 /\ d[3] \notin {"SP", "LF", "CR"}

\* A first line that no signature begins with; it leaves the reader dead.
BadStart(l) == \/ Len(l) > 0 /\ l[1] # "WEB"
               \/ Len(l) > 1 /\ l[2] # "VTT"
               \/ Len(l) > 2 /\ l[3] # "SP"
Dead(r) == r.phase = "dead" /\ r.cues = << >>
NotYet(d, n) == \/ Before(d, n) = ReaderStart /\ BadStart(Rest(d, n))
                \/ Dead(Before(d, n))

\* The first line decides whether the document is read.
LEMMA FirstLineRead ==
  ASSUME NEW l \in Text
  PROVE  LET q == ReadLine(ReaderStart, l)
         IN  /\ q \in Readings /\ q.cues = << >>
             /\ q.phase = IF IsSignature(l) THEN "gap" ELSE "dead"
  <1>1. ReaderStart.phase = "header" /\ ReaderStart.cues = << >>
    BY DEF ReaderStart
  <1> QED BY <1>1, ReaderStartType, ReadLineIs DEF Reads

\* A line that starts badly, an empty one and a lone WEB are no signature.
LEMMA BadIsUnsigned == ASSUME NEW l \in Text, BadStart(l) \/ l = << >> \/ l = <<"WEB">>
                       PROVE  ~IsSignature(l)
  <1>1. CASE l = << >> \/ l = <<"WEB">>
    <2>1. Len(l) < 2
      BY <1>1
    <2> QED BY <2>1 DEF IsSignature
  <1>2. CASE BadStart(l)
    <2>1. SUFFICES ASSUME IsSignature(l) PROVE FALSE
      OBVIOUS
    <2>2. CASE l = <<"WEB", "VTT">>
      <3>1. Len(l) = 2 /\ l[1] = "WEB" /\ l[2] = "VTT"
        BY <2>2
      <3> QED BY <1>2, <3>1 DEF BadStart
    <2>3. CASE Len(l) > 2 /\ SubSeq(l, 1, 3) = <<"WEB", "VTT", "SP">>
      <3> DEFINE b == SubSeq(l, 1, 3)
      <3>1. Len(l) \in Nat /\ b[1] = l[1] /\ b[2] = l[2] /\ b[3] = l[3]
        BY <2>3 DEF Text
      <3>2. b = <<"WEB", "VTT", "SP">>
        BY <2>3
      <3> HIDE DEF b
      <3>3. b[1] = "WEB" /\ b[2] = "VTT" /\ b[3] = "SP"
        BY <3>2
      <3> QED BY <1>2, <3>1, <3>3 DEF BadStart
    <2> QED BY <2>1, <2>2, <2>3 DEF IsSignature
  <1> QED BY <1>1, <1>2

\* A reader that has given up stays so and has no cue.
LEMMA DeadStays ==
  ASSUME NEW r \in Readings, NEW l \in Text, Dead(r)
  PROVE  Dead(ReadLine(r, l)) /\ Emit(r).cues = << >>
  BY ReadLineIs, EmitIs DEF Dead, Reads

\* A first line that cannot be a signature stays so, symbol by symbol.
LEMMA NotYetStays ==
  ASSUME NEW d \in Text, NEW n \in 0 .. Len(d) - 1, NotYet(d, n) PROVE NotYet(d, n + 1)
  <1>1. n \in 0 .. Len(d) /\ d[n + 1] \in Symbols /\ n \in Nat
    BY DEF Text
  <1>2. Before(d, n) \in Readings /\ Rest(d, n) \in Text
    BY <1>1, BeforeType
  <1>3. CASE ~IsEol(d[n + 1])
    <2> DEFINE l == Rest(d, n)
               m == Append(l, d[n + 1])
    <2>1. Before(d, n + 1) = Before(d, n) /\ Rest(d, n + 1) = m
      BY <1>3, BeforeText
    <2>2. l \in Seq(Symbols) /\ d[n + 1] \in Symbols
      BY <1>1, <1>2 DEF Text
    <2> HIDE DEF l
    <2>3. Len(m) = Len(l) + 1 /\ Len(l) \in Nat /\ \A i \in 1 .. Len(l) : m[i] = l[i]
      BY <2>2
    <2> HIDE DEF m
    <2>4. BadStart(l) => BadStart(m)
      BY <2>3 DEF BadStart
    <2> QED BY <2>1, <2>4 DEF NotYet, l
  <1>4. CASE Ends(d[n + 1], n > 0 /\ d[n] = "CR")
    <2>1. Before(d, n + 1) = ReadLine(Before(d, n), Rest(d, n))
      BY <1>4, BeforeEnding
    <2>2. CASE Before(d, n) = ReaderStart /\ BadStart(Rest(d, n))
      BY <1>2, <2>1, <2>2, FirstLineRead, BadIsUnsigned DEF NotYet, Dead
    <2>3. CASE Dead(Before(d, n))
      BY <1>2, <2>1, <2>3, DeadStays DEF NotYet
    <2> QED BY <2>2, <2>3 DEF NotYet
  <1>5. CASE d[n + 1] = "LF" /\ n > 0 /\ d[n] = "CR"
    <2>1. n \in 1 .. Len(d) - 1
      BY <1>1, <1>5 DEF Text
    <2>2. Before(d, n + 1) = Before(d, n) /\ Rest(d, n) = << >>
      BY <1>5, <2>1, BeforeReturn
    <2>3. ~BadStart(<< >>)
      BY DEF BadStart
    <2> QED BY <2>2, <2>3 DEF NotYet
  <1> QED BY <1>3, <1>4, <1>5 DEF Ends

\* Sequences of the same length and elements are the same.
LEMMA SameSequence ==
  ASSUME NEW S, NEW s \in Seq(S), NEW t \in Seq(S), Len(s) = Len(t),
         \A i \in 1 .. Len(s) : s[i] = t[i]
  PROVE  s = t
  <1>1. s \in [1 .. Len(s) -> S] /\ t \in [1 .. Len(t) -> S]
    OBVIOUS
  <1>2. s = [i \in 1 .. Len(s) |-> s[i]] /\ t = [i \in 1 .. Len(t) |-> t[i]]
    BY <1>1
  <1> QED BY <1>2

\* The elements of a sequence that was appended to.
LEMMA AppendParts ==
  ASSUME NEW S, NEW s \in Seq(S), NEW x \in S
  PROVE  /\ Append(s, x) \in Seq(S) /\ Len(Append(s, x)) = Len(s) + 1
         /\ \A i \in 1 .. Len(s) : Append(s, x)[i] = s[i]
         /\ Append(s, x)[Len(s) + 1] = x
  OBVIOUS

\* A sequence of literals, taken for what its length and its elements are.
LEMMA AppendedTo ==
  ASSUME NEW S, NEW s \in Seq(S), NEW t \in Seq(S), NEW x \in S,
         Len(t) = Len(s) + 1, \A i \in 1 .. Len(s) : t[i] = s[i], t[Len(s) + 1] = x
  PROVE  Append(s, x) = t
  <1> DEFINE u == Append(s, x)
  <1>1. /\ u \in Seq(S) /\ Len(u) = Len(s) + 1 /\ u[Len(s) + 1] = x
        /\ \A i \in 1 .. Len(s) : u[i] = s[i]
    BY AppendParts
  <1> HIDE DEF u
  <1>2. Len(s) \in Nat
    OBVIOUS
  <1>3. \A i \in 1 .. Len(u) : i \in 1 .. Len(s) \/ i = Len(s) + 1
    BY <1>1, <1>2
  <1>4. \A i \in 1 .. Len(u) : u[i] = t[i]
    BY <1>1, <1>3
  <1>5. u = t
    BY <1>1, <1>4, SameSequence
  <1> QED BY <1>5 DEF u

\* The first three appends.
LEMMA Appended ==
  ASSUME NEW S, NEW x \in S, NEW y \in S, NEW z \in S
  PROVE  /\ Append(<< >>, x) = <<x>> /\ Append(<<x>>, y) = <<x, y>>
         /\ Append(<<x, y>>, z) = <<x, y, z>>
  <1>1. Append(<< >>, x) = <<x>>
    OBVIOUS
  <1>2. ASSUME NEW s, NEW t, s = <<x>>, t = <<x, y>> PROVE Append(s, y) = t
    <2>1. s \in Seq(S) /\ Len(s) = 1 /\ s[1] = x
      BY <1>2
    <2>2. t \in Seq(S) /\ Len(t) = 2 /\ t[1] = x /\ t[2] = y
      BY <1>2
    <2>3. Len(t) = Len(s) + 1 /\ (\A i \in 1 .. Len(s) : t[i] = s[i]) /\ t[Len(s) + 1] = y
      <3>1. \A i \in 1 .. Len(s) : i = 1
        BY <2>1
      <3> QED BY <2>1, <2>2, <3>1
    <2> QED BY ZenonT(30), <2>1, <2>2, <2>3, AppendedTo
  <1>3. ASSUME NEW s, NEW t, s = <<x, y>>, t = <<x, y, z>> PROVE Append(s, z) = t
    <2>1. s \in Seq(S) /\ Len(s) = 2 /\ s[1] = x /\ s[2] = y
      BY <1>3
    <2>2. t \in Seq(S) /\ Len(t) = 3 /\ t[1] = x /\ t[2] = y /\ t[3] = z
      BY <1>3
    <2>3. Len(t) = Len(s) + 1 /\ (\A i \in 1 .. Len(s) : t[i] = s[i]) /\ t[Len(s) + 1] = z
      <3>1. \A i \in 1 .. Len(s) : i = 1 \/ i = 2
        BY <2>1
      <3> QED BY <2>1, <2>2, <3>1
    <2> QED BY <2>1, <2>2, <2>3, AppendedTo
  <1> QED BY <1>1, <1>2, <1>3

\* What the reader has of a document that starts with WEB, or WEB and VTT.
LEMMA Opened ==
  ASSUME NEW d \in Text, Len(d) > 0, d[1] = "WEB"
  PROVE  /\ Before(d, 1) = ReaderStart /\ Rest(d, 1) = <<"WEB">>
         /\ Len(d) > 1 /\ d[2] = "VTT"
            => Before(d, 2) = ReaderStart /\ Rest(d, 2) = <<"WEB", "VTT">>
  <1>1. Len(d) \in Nat /\ 0 \in 0 .. Len(d) - 1 /\ 0 + 1 = 1 /\ 1 + 1 = 2
    BY DEF Text
  <1>2. ~IsEol(d[1])
    BY DEF IsEol
  <1>3. Before(d, 1) = ReaderStart /\ Rest(d, 1) = Append(<< >>, "WEB")
    <2>1. Before(d, 0 + 1) = Before(d, 0) /\ Rest(d, 0 + 1) = Append(Rest(d, 0), d[0 + 1])
      BY <1>1, <1>2, BeforeText
    <2> QED BY <1>1, <2>1, BeforeFirst
  <1>4. ASSUME Len(d) > 1, d[2] = "VTT"
        PROVE  Before(d, 2) = ReaderStart /\ Rest(d, 2) = Append(<<"WEB">>, "VTT")
    <2>1. 1 \in 0 .. Len(d) - 1 /\ ~IsEol(d[2])
      BY <1>1, <1>4 DEF IsEol
    <2>2. Before(d, 1 + 1) = Before(d, 1) /\ Rest(d, 1 + 1) = Append(Rest(d, 1), d[1 + 1])
      BY <1>1, <2>1, BeforeText
    <2>3. Rest(d, 1) = <<"WEB">>
      BY <1>3, Appended
    <2> QED BY <1>1, <1>3, <1>4, <2>2, <2>3
  <1> QED BY <1>3, <1>4

\* The signature and the end of its line.
LEMMA OpenedGap ==
  ASSUME NEW d \in Text, Len(d) > 2, d[1] = "WEB", d[2] = "VTT", IsEol(d[3])
  PROVE  /\ Before(d, 3).phase = "gap" /\ Before(d, 3).cues = << >> /\ Rest(d, 3) = << >>
  <1>1. Len(d) \in Nat /\ 2 \in 0 .. Len(d) - 1 /\ 2 + 1 = 3 /\ Len(d) > 0 /\ Len(d) > 1
    BY DEF Text
  <1>2. Ends(d[2 + 1], 2 > 0 /\ d[2] = "CR")
    BY <1>1 DEF Ends
  <1>3. Before(d, 2 + 1) = ReadLine(Before(d, 2), Rest(d, 2)) /\ Rest(d, 2 + 1) = << >>
    BY <1>1, <1>2, BeforeEnding
  <1>4. Before(d, 2) = ReaderStart /\ Rest(d, 2) = <<"WEB", "VTT">>
    BY <1>1, Opened
  <1>5. <<"WEB", "VTT">> \in Text /\ IsSignature(<<"WEB", "VTT">>)
    BY DEF Text, Symbols, IsSignature
  <1> QED BY <1>1, <1>3, <1>4, <1>5, FirstLineRead

\* In an unsigned document some symbol shows that the first line is no signature.
LEMMA NotYetSometime ==
  ASSUME NEW d \in Text, Unsigned(d) PROVE \E n \in 1 .. Len(d) : NotYet(d, n)
  <1>1. Len(d) \in Nat
    BY DEF Text
  <1>2. \A i \in 1 .. Len(d) : d[i] \in Symbols
    BY DEF Text
  <1>3. CASE Len(d) > 0 /\ d[1] # "WEB"
    <2>1. 0 \in 0 .. Len(d) - 1 /\ 0 + 1 = 1 /\ 1 \in 1 .. Len(d)
      BY <1>1, <1>3
    <2>2. CASE IsEol(d[1])
      <3>1. Before(d, 0 + 1) = ReadLine(Before(d, 0), Rest(d, 0))
        BY <2>1, <2>2, BeforeEnding DEF Ends
      <3>2. Dead(Before(d, 1))
        BY <2>1, <3>1, BeforeFirst, FirstLineRead, BadIsUnsigned, NoCueType DEF Dead
      <3> QED BY <2>1, <3>2 DEF NotYet
    <2>3. CASE ~IsEol(d[1])
      <3>1. Before(d, 0 + 1) = Before(d, 0) /\ Rest(d, 0 + 1) = Append(Rest(d, 0), d[0 + 1])
        BY <2>1, <2>3, BeforeText
      <3>2. Before(d, 1) = ReaderStart /\ Rest(d, 1) = <<d[1]>>
        <4>1. d[1] \in Symbols
          BY <1>2, <2>1
        <4>2. Append(<< >>, d[1]) = <<d[1]>>
          BY <4>1, Appended
        <4> QED BY <2>1, <3>1, <4>2, BeforeFirst
      <3>3. BadStart(<<d[1]>>)
        BY <1>3 DEF BadStart
      <3> QED BY <2>1, <3>2, <3>3 DEF NotYet
    <2> QED BY <2>2, <2>3
  <1>4. CASE Len(d) > 1 /\ d[1] = "WEB" /\ d[2] # "VTT"
    <2>1. 1 \in 0 .. Len(d) - 1 /\ 1 + 1 = 2 /\ 2 \in 1 .. Len(d) /\ Len(d) > 0
      BY <1>1, <1>4
    <2>2. Before(d, 1) = ReaderStart /\ Rest(d, 1) = <<"WEB">>
      BY <1>4, <2>1, Opened
    <2>3. CASE IsEol(d[2])
      <3>1. Before(d, 1 + 1) = ReadLine(Before(d, 1), Rest(d, 1))
        BY <1>4, <2>1, <2>3, BeforeEnding DEF Ends
      <3>2. <<"WEB">> \in Text
        BY DEF Text, Symbols
      <3>3. Dead(Before(d, 2))
        BY <2>1, <2>2, <3>1, <3>2, FirstLineRead, BadIsUnsigned DEF Dead
      <3> QED BY <2>1, <3>3 DEF NotYet
    <2>4. CASE ~IsEol(d[2])
      <3>1. Before(d, 1 + 1) = Before(d, 1) /\ Rest(d, 1 + 1) = Append(Rest(d, 1), d[1 + 1])
        BY <2>1, <2>4, BeforeText
      <3>2. Before(d, 2) = ReaderStart /\ Rest(d, 2) = <<"WEB", d[2]>>
        <4>2. d[2] \in Symbols /\ "WEB" \in Symbols
          BY <1>2, <2>1 DEF Symbols
        <4>1. Append(<<"WEB">>, d[2]) = <<"WEB", d[2]>>
          BY <4>2, Appended
        <4> QED BY <2>1, <2>2, <3>1, <4>1
      <3>3. BadStart(<<"WEB", d[2]>>)
        BY <1>4 DEF BadStart
      <3> QED BY <2>1, <3>2, <3>3 DEF NotYet
    <2> QED BY <2>3, <2>4
  <1>5. CASE Len(d) > 2 /\ d[1] = "WEB" /\ d[2] = "VTT" /\ d[3] \notin {"SP", "LF", "CR"}
    <2>1. 2 \in 0 .. Len(d) - 1 /\ 2 + 1 = 3 /\ 3 \in 1 .. Len(d) /\ Len(d) > 0 /\ Len(d) > 1
      BY <1>1, <1>5
    <2>2. Before(d, 2) = ReaderStart /\ Rest(d, 2) = <<"WEB", "VTT">>
      BY <1>5, <2>1, Opened
    <2>3. ~IsEol(d[3])
      BY <1>5 DEF IsEol
    <2>4. Before(d, 2 + 1) = Before(d, 2) /\ Rest(d, 2 + 1) = Append(Rest(d, 2), d[2 + 1])
      BY <2>1, <2>3, BeforeText
    <2>5. Before(d, 3) = ReaderStart /\ Rest(d, 3) = <<"WEB", "VTT", d[3]>>
      <3>2. d[3] \in Symbols /\ "WEB" \in Symbols /\ "VTT" \in Symbols
        BY <1>2, <2>1 DEF Symbols
      <3>1. Append(<<"WEB", "VTT">>, d[3]) = <<"WEB", "VTT", d[3]>>
        BY <3>2, Appended
      <3> QED BY <2>1, <2>2, <2>4, <3>1
    <2>6. BadStart(<<"WEB", "VTT", d[3]>>)
      BY <1>5 DEF BadStart
    <2> QED BY <2>1, <2>5, <2>6 DEF NotYet
  <1>6. Len(d) > 2 => Len(d) > 1 /\ Len(d) > 0
    BY <1>1
  <1>7. Len(d) > 1 => Len(d) > 0
    BY <1>1
  <1> QED BY <1>3, <1>4, <1>5, <1>6, <1>7 DEF Unsigned

\* Such a document leaves the reader dead,
LEMMA UnsignedIsDead == ASSUME NEW d \in Text, Unsigned(d) PROVE Dead(Reading(d))
  <1> DEFINE N == Len(d)
             Bad == {n \in 1 .. N : NotYet(d, n)}
             Last0 == {m \in Nat : m < N /\ N - m \in Bad}
  <1>1. N \in Nat /\ N = Len(d) /\ N \in 0 .. Len(d)
    BY DEF Text
  <1>2. NotYet(d, N)
    <2>1. PICK n \in 1 .. N : NotYet(d, n)
      BY NotYetSometime
    <2>2. N - n \in Last0
      BY <1>1, <2>1
    <2>3. PICK m \in Last0 : \A k \in Last0 : m <= k
      <3>1. Last0 \in SUBSET Nat /\ Last0 # {}
        BY <2>2
      <3> HIDE DEF Last0
      <3> QED BY <3>1, Least
    <2>4. CASE m = 0
      BY <1>1, <2>3, <2>4
    <2>5. CASE m # 0
      <3>1. N - m \in 0 .. N - 1 /\ (N - m) + 1 = N - (m - 1) /\ m - 1 \in Nat /\ m - 1 < N
            /\ N - (m - 1) \in 1 .. N
        BY <1>1, <2>3, <2>5
      <3>2. NotYet(d, N - (m - 1))
        BY <2>3, <3>1, NotYetStays
      <3>3. m - 1 \in Last0 /\ ~(m <= m - 1)
        BY <3>1, <3>2
      <3> QED BY <2>3, <3>3
    <2> QED BY <2>4, <2>5
  <1>3. Before(d, N) \in Readings /\ Rest(d, N) \in Text /\ Reading(d) \in Readings
    BY <1>1, BeforeType
  <1>4. Dead(Reading(d))
    <2>1. CASE Dead(Before(d, N))
      BY <1>3, <2>1, ReadingEnds, DeadStays
    <2>2. CASE Before(d, N) = ReaderStart /\ BadStart(Rest(d, N))
      <3>1. Rest(d, N) # << >>
        BY <2>2 DEF BadStart
      <3>2. Reading(d) = ReadLine(ReaderStart, Rest(d, N))
        BY <2>2, <3>1, ReadingEnds
      <3> QED BY <1>3, <2>2, <3>2, FirstLineRead, BadIsUnsigned DEF Dead
    <2> QED BY <1>2, <2>1, <2>2 DEF NotYet
  <1> QED BY <1>4

\* and has no cues.
LEMMA UnsignedHasNone == ASSUME NEW d \in Text, Unsigned(d) PROVE CuesOf(d) = << >>
  <1>1. Len(d) \in 0 .. Len(d)
    BY DEF Text
  <1>2. Reading(d) \in Readings
    BY <1>1, BeforeType
  <1> QED BY <1>2, UnsignedIsDead, DeadStays, NoCueType DEF CuesOf

-----------------------------------------------------------------------------
(* What was handed over.                                                   *)

\* A cue as the application sees it.
LEMMA AsSeenType == ASSUME NEW c \in Cue PROVE AsSeen(c) \in Seen
  BY DEF Cue, AsSeen, Seen, Text

\* Contents are the cues that were handed over, in their order.
LEMMA ContentsType ==
  ASSUME IInv, Handed
  PROVE  /\ Contents \in Seq(Seen) /\ Len(Contents) = Len(delivered) /\ Len(delivered) \in Nat
         /\ \A i \in 1 .. Len(delivered) : Contents[i] = AsSeen(cues[delivered[i]])
  <1>1. delivered \in Seq(Nat) /\ cues \in Seq(Cue)
    BY DEF IInv, TypeOK
  <1>2. \A i \in 1 .. Len(delivered) : AsSeen(cues[delivered[i]]) \in Seen
    BY <1>1, AsSeenType DEF Handed
  <1>3. Contents = [i \in 1 .. Len(delivered) |-> AsSeen(cues[delivered[i]])]
    BY DEF Contents
  <1> QED BY <1>1, <1>2, <1>3

\* The invariants the steps below start from, and what every step keeps.
Sound == /\ IInv /\ Handed /\ IInv' /\ Handed' /\ OthersKept /\ doc' = doc
         /\ ~MayFail /\ ~Commented(doc)

\* What is not handed over changes nothing,
LEMMA HandsNothing ==
  ASSUME Sound, delivered' = delivered PROVE Contents' = Contents
  <1>1. delivered \in Seq(Nat)
    BY DEF Sound, IInv, TypeOK
  <1>2. \A i \in 1 .. Len(delivered) : cues'[delivered[i]] = cues[delivered[i]]
    BY <1>1 DEF Sound, Handed, OthersKept
  <1>3. Contents = [i \in 1 .. Len(delivered) |-> AsSeen(cues[delivered[i]])]
    BY DEF Contents
  <1>4. Contents' = [i \in 1 .. Len(delivered) |-> AsSeen(cues'[delivered[i]])]
    BY DEF Contents
  <1> QED BY <1>2, <1>3, <1>4

\* and a cue that is comes at the end.
LEMMA HandsOne ==
  ASSUME Sound, NEW k \in Nat, delivered' = Append(delivered, k)
  PROVE  Contents' = Append(Contents, AsSeen(cues'[k])) /\ AsSeen(cues'[k]) \in Seen
  <1> DEFINE n == Len(delivered)
  <1>1. delivered \in Seq(Nat)
    BY DEF Sound, IInv, TypeOK
  <1>2. n \in Nat /\ Len(delivered') = n + 1 /\ delivered'[n + 1] = k
        /\ \A i \in 1 .. n : delivered'[i] = delivered[i]
    BY <1>1
  <1>3. \A i \in 1 .. n : cues'[delivered[i]] = cues[delivered[i]]
    BY <1>1 DEF Sound, Handed, OthersKept
  <1>4. /\ Contents \in Seq(Seen) /\ Len(Contents) = n
        /\ \A i \in 1 .. n : Contents[i] = AsSeen(cues[delivered[i]])
    BY ContentsType DEF Sound
  <1>5. k \in DOMAIN cues' /\ cues' \in Seq(Cue)
    <2>1. n + 1 \in DOMAIN delivered'
      BY <1>1, <1>2
    <2>2. cues' \in Seq(Cue)
      BY DEF Sound, IInv, TypeOK
    <2>3. \A i \in DOMAIN delivered' : delivered'[i] \in DOMAIN cues'
      BY DEF Sound, Handed
    <2> QED BY <1>2, <2>1, <2>2, <2>3
  <1>6. AsSeen(cues'[k]) \in Seen
    BY <1>5, AsSeenType
  <1>7. Contents' = [i \in 1 .. n + 1 |-> AsSeen(cues'[delivered'[i]])]
    BY <1>2 DEF Contents
  <1> HIDE DEF n
  <1> DEFINE s == Contents'
             t == Contents
  <1>8. s \in Seq(Seen) /\ Len(s) = n + 1
    <2>1. \A i \in 1 .. n + 1 : i \in 1 .. n \/ i = n + 1
      BY <1>2
    <2>2. \A i \in 1 .. n + 1 : AsSeen(cues'[delivered'[i]]) \in Seen
      <3>1. \A i \in 1 .. n : AsSeen(cues'[delivered'[i]]) = t[i] /\ t[i] \in Seen
        BY <1>2, <1>3, <1>4
      <3> QED BY <1>2, <1>6, <2>1, <3>1
    <2> QED BY <1>2, <1>7, <2>2
  <1>9. (\A i \in 1 .. n : s[i] = t[i]) /\ s[n + 1] = AsSeen(cues'[k])
    <2>1. \A i \in 1 .. n : i \in 1 .. n + 1
      BY <1>2
    <2>2. n + 1 \in 1 .. n + 1
      BY <1>2
    <2> QED BY <1>2, <1>3, <1>4, <1>7, <2>1, <2>2
  <1> HIDE DEF s, t
  <1>10. Append(t, AsSeen(cues'[k])) = s
    <2>1. t \in Seq(Seen) /\ Len(t) = n
      BY <1>4 DEF t
    <2> QED BY <1>6, <1>8, <1>9, <2>1, AppendedTo
  <1> QED BY <1>6, <1>10 DEF s, t

-----------------------------------------------------------------------------
(* Cues in their order.                                                    *)

\* A sequence is in its own order.
LEMMA InOrderItself == ASSUME NEW S, NEW p \in Seq(S) PROVE InOrder(p, p)
  <1> DEFINE at == [i \in 1 .. Len(p) |-> i]
  <1>1. at \in [1 .. Len(p) -> 1 .. Len(p)] /\ \A i \in 1 .. Len(p) : at[i] = i
    OBVIOUS
  <1> HIDE DEF at
  <1> QED BY <1>1 DEF InOrder

\* When there are more in the whole,
LEMMA InOrderGrows ==
  ASSUME NEW S, NEW p \in Seq(S), NEW w \in Seq(S), NEW v \in Seq(S), InOrder(p, w), Begins(w, v)
  PROVE  InOrder(p, v)
  <1>1. PICK at \in [1 .. Len(p) -> 1 .. Len(w)] :
          /\ \A i, j \in 1 .. Len(p) : i < j => at[i] < at[j]
          /\ \A i \in 1 .. Len(p) : p[i] = w[at[i]]
    BY DEF InOrder
  <1>2. Len(w) \in Nat /\ Len(v) \in Nat /\ Len(w) <= Len(v)
    BY DEF Begins
  <1>3. at \in [1 .. Len(p) -> 1 .. Len(v)]
    BY <1>2
  <1>4. \A i \in 1 .. Len(p) : p[i] = v[at[i]]
    BY <1>1 DEF Begins
  <1> QED BY <1>1, <1>3, <1>4 DEF InOrder

\* and when there is one more in both.
LEMMA InOrderBoth ==
  ASSUME NEW S, NEW p \in Seq(S), NEW w \in Seq(S), NEW x \in S, InOrder(p, w)
  PROVE  InOrder(Append(p, x), Append(w, x))
  <1> DEFINE n == Len(p)
             m == Len(w)
             q == Append(p, x)
             v == Append(w, x)
  <1>1. PICK at \in [1 .. n -> 1 .. m] :
          /\ \A i, j \in 1 .. n : i < j => at[i] < at[j]
          /\ \A i \in 1 .. n : p[i] = w[at[i]]
    BY DEF InOrder
  <1>2. /\ n \in Nat /\ m \in Nat /\ Len(q) = n + 1 /\ Len(v) = m + 1
        /\ \A i \in 1 .. n : q[i] = p[i]
        /\ \A i \in 1 .. m : v[i] = w[i]
        /\ q[n + 1] = x /\ v[m + 1] = x
    BY AppendParts
  <1> HIDE DEF n, m, q, v
  <1> DEFINE bt == [i \in 1 .. n + 1 |-> IF i = n + 1 THEN m + 1 ELSE at[i]]
  <1>3. \A i \in 1 .. n + 1 : i \in 1 .. n \/ i = n + 1
    BY <1>2
  <1>4. /\ \A i \in 1 .. n : i \in 1 .. n + 1 /\ i # n + 1 /\ at[i] \in 1 .. m
        /\ n + 1 \in 1 .. n + 1
    BY <1>1, <1>2
  <1>5. (\A i \in 1 .. n : bt[i] = at[i]) /\ bt[n + 1] = m + 1
    BY <1>4
  <1>6. bt \in [1 .. n + 1 -> 1 .. m + 1]
    <2>1. \A i \in 1 .. n + 1 : (IF i = n + 1 THEN m + 1 ELSE at[i]) \in 1 .. m + 1
      BY <1>2, <1>3, <1>4
    <2> QED BY <2>1
  <1> HIDE DEF bt
  <1>7. ASSUME NEW i \in 1 .. n + 1, NEW j \in 1 .. n + 1, i < j PROVE bt[i] < bt[j]
    <2>1. i \in 1 .. n
      BY <1>2, <1>7
    <2>2. CASE j = n + 1
      BY <1>2, <1>4, <1>5, <2>1, <2>2
    <2>3. CASE j \in 1 .. n
      BY <1>1, <1>5, <1>7, <2>1, <2>3
    <2> QED BY <1>3, <2>2, <2>3
  <1>8. ASSUME NEW i \in 1 .. n + 1 PROVE q[i] = v[bt[i]]
    <2>1. CASE i = n + 1
      BY <1>2, <1>5, <2>1
    <2>2. CASE i \in 1 .. n
      <3>1. at[i] \in 1 .. m /\ bt[i] = at[i] /\ q[i] = p[i]
        BY <1>2, <1>4, <1>5, <2>2
      <3>2. p[i] = w[at[i]]
        BY <1>1, <2>2
      <3> QED BY <1>2, <3>1, <3>2
    <2> QED BY <1>3, <2>1, <2>2
  <1>9. InOrder(q, v)
    <2>1. bt \in [1 .. Len(q) -> 1 .. Len(v)]
      BY <1>2, <1>6
    <2>2. \A i, j \in 1 .. Len(q) : i < j => bt[i] < bt[j]
      BY <1>2, <1>7
    <2>3. \A i \in 1 .. Len(q) : q[i] = v[bt[i]]
      BY <1>2, <1>8
    <2> QED BY <2>1, <2>2, <2>3, Zenon DEF InOrder
  <1> QED BY <1>9 DEF q, v

-----------------------------------------------------------------------------
(* Where the parser is in the document, and what a reader makes of it.     *)

Lenient == Dies \subseteq {0}

\* What was handed over, compared with what there is to hand over.
Fits(part, whole) == InOrder(part, whole) /\ (Lenient => part = whole)

\* A line terminator that may go on is not used yet.
Place == IF tstate = "L_NEWLINE0" THEN pos - 1 ELSE pos
Reader == Before(doc, Place)
Left == Rest(doc, Place)

\* A CR that was used waits for what follows it, or something else than LF does.
ReturnSeen ==
  /\ tstate = "L_NEWLINE0" => pos # 0 /\ doc[pos] = "CR"
  /\ tstate # "L_NEWLINE0" /\ pos # 0 /\ doc[pos] = "CR"
       => pos < Len(doc) /\ doc[pos + 1] # "LF"

\* The places of the parser are in the document.
LEMMA Where ==
  ASSUME IInv, ReturnSeen
  PROVE  /\ doc \in Text /\ Len(doc) \in Nat /\ pos \in 0 .. Len(doc) /\ lim \in 0 .. Len(doc)
         /\ pos \in Nat /\ lim \in Nat /\ Place \in 0 .. Len(doc)
         /\ tstate = "L_NEWLINE0" => pos \in 1 .. Len(doc)
         /\ Reader \in Readings /\ Left \in Text /\ Reading(doc) \in Readings
         /\ More => pos \in 0 .. Len(doc) - 1 /\ Sym \in Symbols /\ pos + 1 \in 1 .. Len(doc)
  <1>1. /\ doc \in Text /\ Len(doc) \in Nat /\ pos \in 0 .. Len(doc) /\ lim \in 0 .. Len(doc)
        /\ pos \in Nat /\ lim \in Nat /\ pos <= lim
    BY DEF IInv, TypeOK, WithinChunk, Text
  <1>2. tstate = "L_NEWLINE0" => pos \in 1 .. Len(doc)
    BY <1>1 DEF ReturnSeen
  <1>3. Place \in 0 .. Len(doc)
    BY <1>1, <1>2 DEF Place
  <1>4. Reader \in Readings /\ Left \in Text /\ Reading(doc) \in Readings
    BY <1>1, <1>3, BeforeType DEF Reader, Left
  <1>5. ASSUME More PROVE pos \in 0 .. Len(doc) - 1 /\ Sym \in Symbols /\ pos + 1 \in 1 .. Len(doc)
    <2>1. pos < lim
      BY <1>5 DEF More
    <2>2. pos \in 0 .. Len(doc) - 1 /\ pos + 1 \in 1 .. Len(doc)
      BY <1>1, <2>1
    <2> QED BY <1>1, <2>2 DEF Sym, Text
  <1> QED BY <1>1, <1>2, <1>3, <1>4, <1>5

\* A step that uses nothing.
LEMMA StaysThere ==
  ASSUME doc' = doc, pos' = pos, tstate' = "L_NEWLINE0" <=> tstate = "L_NEWLINE0"
  PROVE  /\ Place' = Place /\ Reader' = Reader /\ Left' = Left
         /\ ReturnSeen => ReturnSeen'
  <1>1. Place' = Place
    BY DEF Place
  <1> QED BY <1>1 DEF Reader, Left, ReturnSeen

\* A symbol inside a line.
LEMMA UsesText ==
  ASSUME IInv, ReturnSeen, More, doc' = doc, pos' = pos + 1, ~IsEol(Sym),
         tstate # "L_NEWLINE0", tstate' # "L_NEWLINE0"
  PROVE  Reader' = Reader /\ Left' = Append(Left, Sym) /\ ReturnSeen'
  <1>1. doc \in Text /\ pos \in 0 .. Len(doc) - 1 /\ pos \in Nat
    BY Where
  <1>2. Before(doc, pos + 1) = Before(doc, pos) /\ Rest(doc, pos + 1) = Append(Rest(doc, pos), Sym)
    BY <1>1, BeforeText DEF Sym
  <1>3. Place = pos /\ Place' = pos + 1
    BY DEF Place
  <1>4. ReturnSeen'
    BY <1>1 DEF ReturnSeen, Sym, IsEol
  <1> QED BY <1>2, <1>3, <1>4 DEF Reader, Left

\* A CR, which LF may follow.
LEMMA UsesReturn ==
  ASSUME IInv, ReturnSeen, More, doc' = doc, pos' = pos + 1, Sym = "CR",
         tstate # "L_NEWLINE0", tstate' = "L_NEWLINE0"
  PROVE  Reader' = Reader /\ Left' = Left /\ ReturnSeen'
  <1>1. pos \in Nat
    BY Where
  <1>2. Place = pos /\ Place' = pos
    BY <1>1 DEF Place
  <1>3. ReturnSeen'
    BY <1>1 DEF ReturnSeen, Sym
  <1> QED BY <1>2, <1>3 DEF Reader, Left

\* The end of a line.
LEMMA UsesLine ==
  ASSUME IInv, ReturnSeen, More, doc' = doc, NEW x, Consume(x),
         \/ x = Step("NEWLINE", "L_START", TRUE) /\ Sym = "LF" /\ tstate # "L_NEWLINE0"
         \/ x = Step("NEWLINE", "L_START", Sym = "LF") /\ tstate = "L_NEWLINE0"
  PROVE  /\ Reader' = ReadLine(Reader, Left) /\ Left' = << >> /\ ReturnSeen'
         /\ tstate' = "L_START"
  <1>1. doc \in Text /\ pos \in 0 .. Len(doc) - 1 /\ pos \in Nat /\ Len(doc) \in Nat
    BY Where
  <1>2. tstate' = "L_START" /\ Place' = pos' /\ pos' = IF x.used THEN pos + 1 ELSE pos
    BY DEF Consume, Step, Place
  <1>3. CASE tstate # "L_NEWLINE0"
    <2>1. Sym = "LF" /\ pos' = pos + 1 /\ Place = pos
      BY <1>2, <1>3 DEF Step, Place
    <2>2. Ends(doc[pos + 1], pos > 0 /\ doc[pos] = "CR")
      BY <1>1, <1>3, <2>1 DEF ReturnSeen, Ends, IsEol, Sym
    <2>3. Before(doc, pos + 1) = ReadLine(Before(doc, pos), Rest(doc, pos))
          /\ Rest(doc, pos + 1) = << >>
      BY <1>1, <2>2, BeforeEnding
    <2>4. ReturnSeen'
      BY <1>1, <1>2, <2>1 DEF ReturnSeen, Sym
    <2> QED BY <1>2, <2>1, <2>3, <2>4 DEF Reader, Left
  <1>4. CASE tstate = "L_NEWLINE0"
    <2>1. /\ pos # 0 /\ doc[pos] = "CR" /\ Place = pos - 1
          /\ pos' = IF Sym = "LF" THEN pos + 1 ELSE pos
      <3>1. x = Step("NEWLINE", "L_START", Sym = "LF")
        BY <1>4
      <3>2. x.used <=> Sym = "LF"
        BY <3>1 DEF Step
      <3> QED BY <1>2, <1>4, <3>2 DEF Place, ReturnSeen
    <2>2. pos - 1 \in 0 .. Len(doc) - 1 /\ (pos - 1) + 1 = pos /\ pos \in 1 .. Len(doc) - 1
      BY <1>1, <2>1
    <2>3. Before(doc, pos) = ReadLine(Before(doc, pos - 1), Rest(doc, pos - 1))
          /\ Rest(doc, pos) = << >>
      <3>1. Ends(doc[(pos - 1) + 1], pos - 1 > 0 /\ doc[pos - 1] = "CR")
        BY <2>1, <2>2 DEF Ends, IsEol
      <3>2. Before(doc, (pos - 1) + 1) = ReadLine(Before(doc, pos - 1), Rest(doc, pos - 1))
            /\ Rest(doc, (pos - 1) + 1) = << >>
        BY <1>1, <2>2, <3>1, BeforeEnding
      <3> QED BY <2>2, <3>2
    <2>4. CASE Sym = "LF"
      <3>1. Before(doc, pos + 1) = Before(doc, pos) /\ Rest(doc, pos + 1) = << >>
        BY <1>1, <2>1, <2>2, <2>4, BeforeReturn DEF Sym
      <3>2. ReturnSeen'
        BY <1>1, <1>2, <2>1, <2>4 DEF ReturnSeen, Sym
      <3> QED BY <1>2, <2>1, <2>3, <2>4, <3>1, <3>2 DEF Reader, Left
    <2>5. CASE Sym # "LF"
      <3>1. ReturnSeen'
        BY <1>1, <1>2, <2>1, <2>2, <2>5 DEF ReturnSeen, Sym
      <3> QED BY <1>2, <2>1, <2>3, <2>5, <3>1 DEF Reader, Left
    <2> QED BY <2>4, <2>5
  <1> QED BY <1>3, <1>4

\* One more cue on both sides still fits; a client that is not lenient may miss one.
LEMMA FitsSame ==
  ASSUME NEW S, NEW p \in Seq(S), NEW w \in Seq(S), NEW x \in S, Fits(p, w)
  PROVE  Fits(Append(p, x), Append(w, x)) /\ (~Lenient => Fits(p, Append(w, x)))
  <1>1. InOrder(Append(p, x), Append(w, x))
    BY InOrderBoth DEF Fits
  <1>2. Append(w, x) \in Seq(S) /\ Begins(w, Append(w, x))
    BY BeginsWith
  <1>3. InOrder(p, Append(w, x))
    BY <1>2, InOrderGrows DEF Fits
  <1> QED BY <1>1, <1>3 DEF Fits

-----------------------------------------------------------------------------
(* The end of the document.                                                *)

\* What a reader makes of it from the last place.
LEMMA AtEnd ==
  ASSUME NEW d \in Text, NEW p \in 0 .. Len(d),
         p = Len(d) \/ (p = Len(d) - 1 /\ d[Len(d)] = "CR")
  PROVE  /\ Reading(d) = IF p = Len(d) /\ Rest(d, p) = << >> THEN Before(d, p)
                         ELSE ReadLine(Before(d, p), Rest(d, p))
         /\ HasArrow(Rest(d, p)) /\ Before(d, p).phase \in {"text", "skip"} => ArrowAtEnd(d)
         /\ Rest(d, p) # << >> \/ p # Len(d) =>
              /\ Len(Lines(d)) > Ended(d) /\ OpenLine(d) = Rest(d, p)
              /\ BeforeOpen(d) = Before(d, p).phase
  <1> DEFINE N == Len(d)
             s == Splits(d)[N]
             w == Lines(d)
             l == Rest(d, p)
  <1>1. N \in Nat /\ N \in 0 .. Len(d) /\ N = Len(d)
    BY DEF Text
  <1>2. /\ w \in Seq(Text) /\ Count(d, N) \in Nat
        /\ Len(w) = Count(d, N) + (IF Rest(d, N) = << >> THEN 0 ELSE 1)
        /\ Rest(d, N) # << >> => w[Len(w)] = Rest(d, N)
    BY LinesAre
  <1>3. s.lines = Split(d).lines /\ s.rest = Rest(d, N) /\ Count(d, N) = Len(s.lines)
        /\ Ended(d) = Count(d, N) - (IF Rest(d, N) = << >> /\ s.cr THEN 1 ELSE 0)
    BY DEF Split, Rest, Count, Ended
  <1>4. OpenLine(d) = IF Len(w) > Ended(d) THEN w[Len(w)] ELSE << >>
    BY DEF OpenLine, Last
  <1>5. BeforeOpen(d) = Readers(w)[Ended(d)].phase
    BY DEF BeforeOpen
  <1>6. HasArrow(l) => l # << >>
    BY DEF HasArrow
  <1>7. CASE p = N
    <2>1. Reading(d) = IF l = << >> THEN Before(d, p) ELSE ReadLine(Before(d, p), l)
      BY <1>7, ReadingEnds
    <2>2. ASSUME l # << >>
          PROVE  Len(w) > Ended(d) /\ OpenLine(d) = l /\ BeforeOpen(d) = Before(d, p).phase
      <3>1. Ended(d) = Count(d, N) /\ Len(w) = Count(d, N) + 1 /\ w[Len(w)] = l
        BY <1>2, <1>3, <1>7, <2>2
      <3>2. Len(w) > Ended(d) /\ OpenLine(d) = l
        BY <1>2, <1>4, <3>1
      <3>3. BeforeOpen(d) = Before(d, p).phase
        BY <1>5, <1>7, <3>1 DEF Before
      <3> QED BY <3>2, <3>3
    <2>3. ASSUME HasArrow(l), Before(d, p).phase \in {"text", "skip"} PROVE ArrowAtEnd(d)
      BY <1>6, <2>2, <2>3 DEF ArrowAtEnd
    <2> QED BY <1>7, <2>1, <2>2, <2>3
  <1>8. CASE p = N - 1 /\ d[N] = "CR" /\ p # N
    <2>1. p \in 0 .. Len(d) - 1 /\ p + 1 = N /\ p \in 0 .. Len(d)
      BY <1>1, <1>8
    <2>2. Ends(d[p + 1], p > 0 /\ d[p] = "CR")
      BY <1>8, <2>1 DEF Ends, IsEol
    <2>3. Before(d, N) = ReadLine(Before(d, p), l) /\ Rest(d, N) = << >>
      BY <2>1, <2>2, BeforeEnding
    <2>4. Reading(d) = ReadLine(Before(d, p), l)
      BY <2>3, ReadingEnds
    <2> DEFINE a == Splits(d)[p]
    <2>5. /\ a \in Splittings /\ s = SplitSymbol(a, "CR") /\ "CR" \in Symbols /\ Ends("CR", a.cr)
      BY <1>8, <2>1, SplitNext DEF Ends, IsEol
    <2>6. s.cr /\ s.lines = Append(a.lines, a.rest) /\ a.lines \in Seq(Text) /\ a.rest \in Text
      BY ZenonT(30), <2>5, SplitOne DEF Splittings
    <2>7. Count(d, p) = Len(a.lines) /\ l = a.rest /\ Len(a.lines) \in Nat
      BY <2>6 DEF Count, Rest
    <2>8. Count(d, N) = Len(a.lines) + 1 /\ s.lines[Len(a.lines) + 1] = l
      BY <1>3, <2>6, <2>7
    <2> HIDE DEF a, s
    <2>9. Ended(d) = Count(d, p) /\ Len(w) = Count(d, p) + 1
      BY <1>2, <1>3, <2>3, <2>6, <2>7, <2>8
    <2>10. w[Len(w)] = l
      <3>1. Len(w) \in 1 .. Count(d, N) /\ Len(w) = Len(a.lines) + 1
        BY <2>7, <2>8, <2>9
      <3>2. Splits(d)[N].lines[Len(w)] = w[Len(w)]
        BY <1>1, <3>1, LinesAre
      <3> QED BY <2>8, <3>1, <3>2 DEF s
    <2>11. Len(w) > Ended(d) /\ OpenLine(d) = l
      BY <1>4, <2>7, <2>9, <2>10
    <2>12. BeforeOpen(d) = Before(d, p).phase
      BY <1>5, <2>9 DEF Before
    <2> QED BY <1>8, <2>4, <2>11, <2>12 DEF ArrowAtEnd
  <1> QED BY <1>7, <1>8

\* So it is for the parser when it has used all of it.
LEMMA AllUsed ==
  ASSUME IInv, ReturnSeen, pos = Len(doc)
  PROVE  /\ Reading(doc) = Reader \/ Reading(doc) = ReadLine(Reader, Left)
         /\ Left # << >> => Reading(doc) = ReadLine(Reader, Left)
         /\ tstate # "L_NEWLINE0" /\ Left = << >> => Reading(doc) = Reader
         /\ tstate = "L_NEWLINE0" => Reading(doc) = ReadLine(Reader, Left)
         /\ HasArrow(Left) /\ Reader.phase \in {"text", "skip"} => ArrowAtEnd(doc)
         /\ Left # << >> \/ tstate = "L_NEWLINE0" =>
              /\ Len(Lines(doc)) > Ended(doc) /\ OpenLine(doc) = Left
              /\ BeforeOpen(doc) = Reader.phase
  <1> DEFINE p == Place
  <1>1. doc \in Text /\ Len(doc) \in Nat /\ p \in 0 .. Len(doc)
    BY Where
  <1>2. p = Len(doc) \/ (p = Len(doc) - 1 /\ doc[Len(doc)] = "CR")
    BY DEF Place, ReturnSeen
  <1>3. tstate # "L_NEWLINE0" <=> p = Len(doc)
    BY <1>1 DEF Place
  <1>4. Reader = Before(doc, p) /\ Left = Rest(doc, p)
    BY DEF Reader, Left
  <1> HIDE DEF p
  <1>5. /\ Reading(doc) = IF p = Len(doc) /\ Rest(doc, p) = << >> THEN Before(doc, p)
                          ELSE ReadLine(Before(doc, p), Rest(doc, p))
        /\ HasArrow(Rest(doc, p)) /\ Before(doc, p).phase \in {"text", "skip"} => ArrowAtEnd(doc)
        /\ Rest(doc, p) # << >> \/ p # Len(doc) =>
             /\ Len(Lines(doc)) > Ended(doc) /\ OpenLine(doc) = Rest(doc, p)
             /\ BeforeOpen(doc) = Before(doc, p).phase
    BY <1>1, <1>2, AtEnd
  <1> QED BY <1>3, <1>4, <1>5

-----------------------------------------------------------------------------
(* How far the parser follows the reader of lines.                         *)

Fit == Fits(Contents, Reader.cues)

\* A call that has not failed, and a client that goes on.
Going ==
  /\ call \in {"idle", "chunk", "finish"}
  /\ call # "finish" => ~finished
  /\ call = "idle" => ret \in {"SUCCESS", "UNFINISHED"}
  /\ call = "idle" /\ mode # "M_SKIP_CUE" => ret = "SUCCESS"
  /\ call # "chunk" => pos = lim
  /\ call = "finish" /\ (mode # "M_SKIP_CUE" \/ {"SUCCESS", "UNFINISHED"} \subseteq Resume)
       => lim = Len(doc)
  /\ status \in {"SUCCESS", "UNFINISHED"}
  /\ mode = "M_WEBVTT" => status = "SUCCESS" /\ lineBuf = << >>
  /\ tk # "none" => call = "chunk" /\ mode = "M_WEBVTT" /\ tstate = "L_START"
  /\ ReturnSeen

\* On the first line,
InInitial ==
  /\ mode = "M_WEBVTT" /\ top = 0 /\ Top.state = "T_INITIAL" /\ ~LinePending
  /\ delivered = << >>
  /\ \/ tk = "none" /\ tstate = "L_START" /\ pos = 0
     \/ tk = "none" /\ tstate = "L_WEBVTT" /\ pos = 1 /\ doc[1] = "WEB"
     \/ tk = "none" /\ tstate = "L_WHITESPACE" /\ pos > 0 /\ doc[1] = "SP"
     \/ tk = "none" /\ tstate = "L_NEWLINE0" /\ pos = 1 /\ doc[1] = "CR"
     \/ tk = "WEBVTT" /\ pos = 2 /\ doc[1] = "WEB" /\ doc[2] = "VTT"
     \/ tk \notin {"none", "WEBVTT"} /\ Unsigned(doc)

\* after the signature,
InTag ==
  /\ mode = "M_WEBVTT" /\ top = 1 /\ Top.state = "T_TAG" /\ ~LinePending
  /\ delivered = << >>
  /\ pos > 1 /\ doc[1] = "WEB" /\ doc[2] = "VTT"
  /\ \/ tk = "none" /\ tstate = "L_START" /\ pos = 2
     \/ tk = "none" /\ tstate = "L_WEBVTT" /\ pos = 3 /\ doc[3] = "WEB"
     \/ tk = "none" /\ tstate = "L_NEWLINE0" /\ pos = 3 /\ doc[3] = "CR"
     \/ tk = "NEWLINE" /\ Reader.phase = "gap" /\ Reader.cues = << >> /\ Left = << >>
     \/ tk \in {"BADTOKEN", "WEBVTT"} /\ Unsigned(doc)

\* between cues: the token is what is left of the line,
InBody == stack[0].state = "T_BODY"

Between ==
  /\ InBody /\ mode = "M_WEBVTT" /\ (top = 0 \/ (top = 1 /\ Top.state = "T_EOL"))
  /\ ~LinePending
  /\ Reader.phase \in {"gap", "body"} /\ Fit
  /\ tk = "none" => /\ tstate \in {"L_START", "L_NEWLINE0"} => Left = << >>
                    /\ tstate # "L_NEWLINE0" => Left = token
                    /\ tstate \in {"L_WEBVTT", "L_WHITESPACE"} => token # << >>
                    /\ ~HasArrow(Left)
  /\ tk = "NEWLINE" => Left = << >>
  /\ tk \notin {"none", "NEWLINE"} =>
       Left = token /\ (token = << >> => More /\ ~IsEol(Sym))

\* on the first line of a cue, or on the one after its id: the frame has the line,
TheCue == cues[stack[1].cue]

FirstLine == /\ Reader.phase \in {"gap", "body"} /\ ~TheCue.haveId /\ TheCue.id = << >>
             /\ Left = << >> => Top.flags = 0 /\ call = "chunk" /\ More /\ ~IsEol(Sym)
SecondLine == Reader.phase = "id" /\ TheCue.haveId /\ TheCue.id = Reader.cue.id

InFirstLines ==
  /\ InBody /\ mode = "M_WEBVTT" /\ top = 2 /\ Top.state = "T_CUEREAD" /\ tk = "none"
  /\ Fit
  /\ TheCue.body = << >>
  /\ Left = Top.text
  /\ Top.flags = 0 => tstate = "L_START"
  /\ FirstLine \/ SecondLine

\* at the end of such a line, which the parser has yet to look at,
Understood(l, c, r) ==
  /\ HasArrow(l) => Starts(r, c.id, l)
  /\ ~HasArrow(l) /\ c.haveId => r.phase = "skip"
  /\ ~HasArrow(l) /\ ~c.haveId => r.phase = "id" /\ r.cue.id = l

LineToLookAt ==
  /\ InBody /\ mode = "M_WEBVTT" /\ top = 1 /\ Top.state = "T_CUE" /\ LinePending
  /\ Above.type = "V_TEXT" /\ tk = "none" /\ tstate = "L_START" /\ Left = << >>
  /\ Fit
  /\ TheCue.body = << >>
  /\ Understood(Above.text, TheCue, Reader)

\* in the text of a cue: the line buffer has the line,
Follows(r) == r.phase = "text" /\ r.cue = AsSeen(TheCue) /\ Fits(Contents, r.cues)

InCueText ==
  /\ InBody /\ mode = "M_CUETEXT"
  /\ \/ Follows(Reader) /\ Left = LastLine /\ (~Marked => tstate = "L_START")
     \/ call = "finish" /\ lineBuf = << >> /\ Follows(Reading(doc))

\* or in the text of a cue that is skipped.
InSkipped ==
  /\ InBody /\ mode = "M_SKIP_CUE"
  /\ Reader.phase \in {"text", "skip"} /\ (Lenient => Reader.phase = "skip")
  /\ Fit
  /\ Left = LastLine /\ (~Marked => tstate = "L_START")

Following == \/ InInitial \/ InTag \/ Between \/ InFirstLines \/ LineToLookAt
             \/ InCueText \/ InSkipped

\* Nothing is handed over any more.
NoLine == mode = "M_WEBVTT" /\ Top.state # "T_CUEREAD" /\ ~LinePending
Halted ==
  \/ call = "deleted"
  \/ finished /\ call \in {"idle", "cleanup"}
  \/ call = "idle" /\ ret \notin {"SUCCESS", "UNFINISHED"} /\ NoLine
  \/ call = "finish" /\ NoLine
  \/ call = "chunk" /\ status = "PARSE_ERROR" /\ top = 1 /\ Top.state = "T_CUE" /\ NoLine

Faultless == /\ Lenient /\ {"SUCCESS", "UNFINISHED"} \subseteq Resume
             /\ Separated(doc) /\ ~ArrowAtEnd(doc)
Abandoned == call = "deleted" /\ ~finished

Over ==
  /\ Halted
  /\ InOrder(Contents, CuesOf(doc))
  /\ Faultless /\ ~Abandoned => Contents = CuesOf(doc)

Tracks == ~MayFail /\ ~Commented(doc) => Over \/ (Going /\ Following)

-----------------------------------------------------------------------------
(* After the end there is nothing to hand over.                            *)

\* What hands nothing over does not change what there is to say of the end.
LEMMA OverWhenHalted ==
  ASSUME Sound, Over, delivered' = delivered, Halted', Abandoned => Abandoned' PROVE Over'
  <1>1. Contents' = Contents /\ doc' = doc
    BY HandsNothing DEF Sound
  <1>2. Faultless' <=> Faultless
    BY <1>1 DEF Faultless, Lenient
  <1> QED BY <1>1, <1>2 DEF Over

\* Whether a line is pending depends on the frames and the mode alone.
LEMMA SameLine == ASSUME UNCHANGED <<frames, mode>> PROVE NoLine' <=> NoLine
  BY DEF NoLine, LinePending, Top, Above, frames

\* What is over stays so when the client acts,
LEMMA OverClient == ASSUME Sound, Over, Client PROVE Over'
  <1>1. CASE Feed
    BY <1>1, ResumeAssumption DEF Feed, Over, Halted
  <1>2. CASE FinishCall
    <2>1. call = "idle" /\ call' = "finish" /\ delivered' = delivered /\ (NoLine' <=> NoLine)
          /\ ~finished
      BY <1>2, SameLine DEF FinishCall, outcome
    <2>2. Halted'
      BY <2>1 DEF Over, Halted
    <2> QED BY <2>1, <2>2, OverWhenHalted DEF Abandoned
  <1>3. CASE Delete
    <2>1. call = "idle" /\ call' = "deleted" /\ delivered' = delivered
      BY <1>3 DEF Delete, outcome
    <2>2. Halted'
      BY <2>1 DEF Halted
    <2> QED BY <2>1, <2>2, OverWhenHalted DEF Abandoned
  <1> QED BY <1>1, <1>2, <1>3 DEF Client

\* In a chunk a parser reads,
LEMMA InChunk ==
  ASSUME ChunkDone \/ ChunkStarved \/ TurnStep \/ TokenStep \/ TextStep PROVE call = "chunk"
  BY DEF ChunkDone, ChunkStarved, TurnStep, TokenStep, TextStep, Lex, CueReadText, CueReadEol,
    CueReadNewline, CueMissing, CueReadStarved, CueLine, Turn, InitialSignature, InitialReject,
    TagSpace, TagNewline, TagReject, CommentNewline, CommentSkip, EolCount, EolPop, CueAssert,
    BodyDead, BodyNewline, BodyCue, BodyStarved, On, TextRead, TextCarriageReturn, TextNewline,
    TextUnparsed, TextUnseparated, TextStarved, AtNewline, InText

\* and after the last it finishes.
LEMMA InFinish == ASSUME IInv, FinishStep PROVE call \in {"finish", "cleanup"} /\ finished
  <1>1. call \in {"finish", "cleanup"}
    <2>1. FinishAssert \/ FinishElse \/ FinishCleanup => call \in {"finish", "cleanup"}
      BY DEF FinishAssert, FinishElse, FinishCleanup, FinishInCue
    <2>2. FinishCueText \/ FinishUnseparated => call \in {"finish", "cleanup"}
      BY DEF FinishCueText, FinishUnseparated, FinishInText
    <2>3. ASSUME NEW d \in Dies, FinishTextStarved(d) PROVE call \in {"finish", "cleanup"}
      BY <2>3 DEF FinishTextStarved, FinishInText
    <2>4. ASSUME NEW d \in Dies, NEW e \in Dies, NEW f \in Failing, FinishCueLine(d, e, f)
          PROVE  call \in {"finish", "cleanup"}
      BY <2>4 DEF FinishCueLine, FinishInCue
    <2> QED BY <2>1, <2>2, <2>3, <2>4 DEF FinishStep
  <1> QED BY <1>1 DEF IInv, Finishing

\* when a chunk is parsed,
LEMMA OverChunk ==
  ASSUME Sound, Over, ChunkDone \/ ChunkStarved \/ TurnStep \/ TokenStep \/ TextStep PROVE Over'
  <1>1. call = "chunk"
    BY InChunk
  <1>2. status = "PARSE_ERROR" /\ top = 1 /\ Top.state = "T_CUE" /\ NoLine /\ mode = "M_WEBVTT"
    BY <1>1 DEF Over, Halted, NoLine
  <1>3. ~Abandoned
    BY <1>1 DEF Abandoned
  <1>4. CASE ChunkDone
    <2>1. call' = "idle" /\ ret' = "PARSE_ERROR" /\ delivered' = delivered /\ (NoLine' <=> NoLine)
      BY <1>2, <1>4, SameLine DEF ChunkDone, Return, outcome
    <2> QED BY <1>2, <1>3, <2>1, OverWhenHalted DEF Halted
  <1>5. CASE ChunkStarved
    BY <1>2, <1>5 DEF ChunkStarved, Starved
  <1>6. CASE Lex
    <2>1. /\ UNCHANGED <<call, status, top, Top>> /\ delivered' = delivered /\ (NoLine' <=> NoLine)
      BY <1>6, SameLine DEF Lex, calling, frames, outcome, Top
    <2> QED BY <1>1, <1>2, <1>3, <2>1, OverWhenHalted DEF Halted
  <1>7. CASE CueAssert
    <2>1. call' = "idle" /\ ret' = "FAILED_ASSERTION" /\ delivered' = delivered
          /\ (NoLine' <=> NoLine)
      BY <1>7, SameLine DEF CueAssert, Return, outcome
    <2> QED BY <1>2, <1>3, <2>1, OverWhenHalted DEF Halted
  <1>8. ASSUME TurnStep, ~Lex PROVE FALSE
    BY <1>2, <1>8 DEF TurnStep, CueReadText, CueReadEol, CueReadNewline, CueMissing,
      CueReadStarved, CueLine, NoLine
  <1>9. ASSUME TokenStep, ~CueAssert PROVE FALSE
    BY <1>2, <1>9 DEF TokenStep, InitialSignature, InitialReject, TagSpace, TagNewline, TagReject,
      CommentNewline, CommentSkip, EolCount, EolPop, BodyDead, BodyNewline, BodyCue, BodyStarved, On
  <1>10. ASSUME TextStep PROVE FALSE
    BY <1>2, <1>10 DEF TextStep, TextRead, TextCarriageReturn, TextNewline, TextUnparsed,
      TextUnseparated, TextStarved, AtNewline, InText
  <1> QED BY <1>4, <1>5, <1>6, <1>7, <1>8, <1>9, <1>10

\* and while the parser finishes.
LEMMA OverFinish == ASSUME Sound, Over, FinishStep PROVE Over'
  <1>1. call \in {"finish", "cleanup"} /\ finished
    BY InFinish DEF Sound
  <1>2. call = "finish" => NoLine
    BY <1>1 DEF Over, Halted
  <1>3. ~Abandoned
    BY <1>1 DEF Abandoned
  <1>4. CASE FinishAssert
    <2>1. call' = "idle" /\ finished' = finished /\ delivered' = delivered
      BY <1>4 DEF FinishAssert, Return, outcome
    <2> QED BY <1>1, <1>3, <2>1, OverWhenHalted DEF Halted
  <1>5. CASE FinishElse
    <2>1. call' = "cleanup" /\ finished' = finished /\ delivered' = delivered
      BY <1>5 DEF FinishElse, outcome
    <2> QED BY <1>1, <1>3, <2>1, OverWhenHalted DEF Halted
  <1>6. CASE FinishCleanup
    <2>1. call' = "idle" /\ finished' = finished /\ delivered' = delivered
      BY <1>6 DEF FinishCleanup, Return, outcome
    <2> QED BY <1>1, <1>3, <2>1, OverWhenHalted DEF Halted
  <1>7. ASSUME ~FinishAssert, ~FinishElse, ~FinishCleanup PROVE FALSE
    BY ZenonT(30), <1>2, <1>7 DEF FinishStep, FinishCueText, FinishUnseparated, FinishTextStarved,
      FinishCueLine, FinishInCue, FinishInText, FinishHasLine, NoLine
  <1> QED BY <1>4, <1>5, <1>6, <1>7

\* What was handed over are cues of the document, in their order.
LEMMA FollowingInOrder ==
  ASSUME IInv, Handed, ReturnSeen, Following PROVE InOrder(Contents, CuesOf(doc))
  <1>1. /\ doc \in Text /\ Place \in 0 .. Len(doc) /\ Contents \in Seq(Seen)
        /\ Reader \in Readings /\ Reading(doc) \in Readings
    BY Where, ContentsType
  <1>2. CuesOf(doc) \in Seq(Seen) /\ Begins(Reading(doc).cues, CuesOf(doc))
        /\ Begins(Reader.cues, CuesOf(doc))
    BY <1>1, CuesGrow DEF Reader
  <1>3. Reader.cues \in Seq(Seen) /\ Reading(doc).cues \in Seq(Seen)
    BY <1>1 DEF Readings
  <1>4. CASE delivered = << >>
    <2>1. Contents = << >>
      <3> DEFINE s == Contents
      <3>1. s \in Seq(Seen) /\ Len(s) = 0
        BY <1>1, <1>4, ContentsType
      <3> HIDE DEF s
      <3>2. s = << >>
        BY <3>1
      <3> QED BY <3>2 DEF s
    <2>2. << >> \in Seq(Seen) /\ InOrder(<< >>, << >>)
      BY EmptySeq, InOrderItself
    <2>3. Begins(<< >>, CuesOf(doc))
      <3> DEFINE w == CuesOf(doc)
      <3>1. w \in Seq(Seen)
        BY <1>2
      <3> HIDE DEF w
      <3>2. Begins(<< >>, w)
        BY <3>1, EmptySeq DEF Begins
      <3> QED BY <3>2 DEF w
    <2> QED BY <1>2, <2>1, <2>2, <2>3, InOrderGrows
  <1>5. CASE InOrder(Contents, Reader.cues)
    BY <1>1, <1>2, <1>3, <1>5, InOrderGrows
  <1>6. CASE InOrder(Contents, Reading(doc).cues)
    BY <1>1, <1>2, <1>3, <1>6, InOrderGrows
  <1> QED BY <1>4, <1>5, <1>6 DEF Following, InInitial, InTag, Between, InFirstLines,
    LineToLookAt, InCueText, InSkipped, Follows, Fit, Fits

\* A parser that stops short,
LEMMA Stops ==
  ASSUME Sound, Going, Following, delivered' = delivered, Halted', ~Faultless \/ Abandoned'
  PROVE  Over'
  <1>1. Contents' = Contents /\ doc' = doc
    BY HandsNothing DEF Sound
  <1>2. Faultless' <=> Faultless
    BY <1>1 DEF Faultless, Lenient
  <1>3. InOrder(Contents, CuesOf(doc))
    BY FollowingInOrder DEF Sound, Going
  <1> QED BY <1>1, <1>2, <1>3 DEF Over

\* and one that is through.
LEMMA IsThrough ==
  ASSUME Sound, Halted', InOrder(Contents', CuesOf(doc)), Faultless => Contents' = CuesOf(doc)
  PROVE  Over'
  <1>1. doc' = doc
    BY DEF Sound
  <1>2. Faultless' <=> Faultless
    BY <1>1 DEF Faultless, Lenient
  <1> QED BY <1>1, <1>2 DEF Over

\* A document whose cues are those of the reader.
LEMMA NothingLeft ==
  ASSUME Sound, Going, Following, Halted', delivered' = delivered, Fit,
         Faultless => CuesOf(doc) = Reader.cues
  PROVE  Over'
  <1>1. Contents' = Contents
    BY HandsNothing
  <1>2. InOrder(Contents, CuesOf(doc))
    BY FollowingInOrder DEF Sound, Going
  <1>3. Faultless => Contents = CuesOf(doc)
    BY DEF Fit, Fits, Faultless
  <1> QED BY <1>1, <1>2, <1>3, IsThrough

\* What leaves the place and what is held alone goes on following.
LEMMA FollowsOn ==
  ASSUME Sound, ReturnSeen, Following, tk = "none", call # "finish", call = "chunk" => ~More,
         UNCHANGED <<pos, tstate, tk, token, frames, delivered, cues, mode, lineBuf>>
  PROVE  Following' /\ ReturnSeen'
  <1>1. Contents' = Contents /\ doc' = doc
    BY HandsNothing DEF Sound
  <1>2. Reader' = Reader /\ Left' = Left /\ ReturnSeen'
    BY <1>1, StaysThere
  <1>3. /\ Top' = Top /\ Above' = Above /\ (LinePending' <=> LinePending) /\ TheCue' = TheCue
        /\ (InBody' <=> InBody) /\ top' = top
    BY DEF Top, Above, LinePending, TheCue, InBody, frames
  <1>4. Fit' <=> Fit
    BY <1>1, <1>2 DEF Fit, Fits, Lenient
  <1>5. CASE InInitial
    <2>1. InInitial'
      BY <1>1, <1>3, <1>5 DEF InInitial
    <2> QED BY <1>2, <2>1 DEF Following
  <1>6. CASE InTag
    <2>1. InTag'
      BY <1>1, <1>3, <1>6 DEF InTag
    <2> QED BY <1>2, <2>1 DEF Following
  <1>7. CASE Between
    <2>1. Between'
      BY <1>1, <1>2, <1>3, <1>4, <1>7 DEF Between
    <2> QED BY <1>2, <2>1 DEF Following
  <1>8. CASE InFirstLines
    <2>1. FirstLine => FirstLine'
      BY <1>1, <1>2, <1>3 DEF FirstLine
    <2>2. SecondLine => SecondLine'
      BY <1>2, <1>3 DEF SecondLine
    <2>3. InFirstLines'
      BY <1>2, <1>3, <1>4, <1>8, <2>1, <2>2 DEF InFirstLines
    <2> QED BY <1>2, <2>3 DEF Following
  <1>9. CASE LineToLookAt
    <2>1. LineToLookAt'
      BY <1>2, <1>3, <1>4, <1>9 DEF LineToLookAt
    <2> QED BY <1>2, <2>1 DEF Following
  <1>10. CASE InCueText
    <2>1. Follows(Reader)' <=> Follows(Reader)
      BY <1>1, <1>2, <1>3 DEF Follows, Fits, Lenient
    <2>2. LastLine' = LastLine /\ (Marked' <=> Marked)
      BY DEF LastLine, Marked
    <2>3. InCueText'
      BY <1>2, <1>3, <1>10, <2>1, <2>2 DEF InCueText
    <2> QED BY <1>2, <2>3 DEF Following
  <1>11. CASE InSkipped
    <2>2. LastLine' = LastLine /\ (Marked' <=> Marked)
      BY DEF LastLine, Marked
    <2>3. InSkipped'
      BY <1>2, <1>3, <1>4, <1>11, <2>2 DEF InSkipped, Lenient
    <2> QED BY <1>2, <2>3 DEF Following
  <1> QED BY <1>5, <1>6, <1>7, <1>8, <1>9, <1>10, <1>11 DEF Following

\* Between the calls.
LEMMA ClientGoes ==
  ASSUME Sound, Going, Following, Client PROVE Over' \/ (Going' /\ Following')
  <1>1. call = "idle" /\ tk = "none" /\ ~finished /\ pos = lim
    BY DEF Client, Feed, FinishCall, Delete, Going
  <1>2. CASE Delete
    <2>1. call' = "deleted" /\ ~finished' /\ delivered' = delivered
      BY <1>1, <1>2 DEF Delete, outcome
    <2> QED BY <2>1, Stops DEF Halted, Abandoned
  <1>3. CASE Feed
    <2>1. /\ UNCHANGED <<ret, pos, tstate, tk, token, frames, delivered, cues, mode, lineBuf, finished>>
          /\ call' = "chunk" /\ status' = "SUCCESS"
      BY <1>1, <1>3 DEF Feed, lexer, outcome, heap
    <2>2. Following' /\ ReturnSeen'
      BY <1>1, <2>1, FollowsOn DEF Going
    <2>3. Going'
      BY <1>1, <2>1, <2>2 DEF Going
    <2> QED BY <2>2, <2>3
  <1>4. CASE FinishCall
    <2>1. /\ UNCHANGED <<lim, ret, pos, tstate, tk, token, frames, delivered, cues, mode, lineBuf>>
          /\ call' = "finish" /\ status' = "SUCCESS" /\ (lim = Len(doc) \/ ret \notin Resume)
          /\ doc' = doc
      BY <1>1, <1>4 DEF FinishCall, input, lexer, outcome, heap
    <2>2. Following' /\ ReturnSeen'
      BY <1>1, <2>1, FollowsOn DEF Going
    <2>3. (mode # "M_SKIP_CUE" \/ {"SUCCESS", "UNFINISHED"} \subseteq Resume) => lim = Len(doc)
      BY <1>1, <2>1, ResumeAssumption DEF Going
    <2>4. Going'
      BY <1>1, <2>1, <2>2, <2>3 DEF Going
    <2> QED BY <2>2, <2>4
  <1> QED BY <1>2, <1>3, <1>4 DEF Client

\* The chunk is used up.
LEMMA ChunkDoneGoes ==
  ASSUME Sound, Going, Following, ChunkDone PROVE Going' /\ Following'
  <1>1. call = "chunk" /\ tk = "none" /\ ~More /\ ~finished
    BY DEF ChunkDone, Going
  <1>2. pos = lim
    BY <1>1 DEF More, Sound, IInv, TypeOK, WithinChunk
  <1>3. /\ UNCHANGED <<lim, status, pos, tstate, tk, token, frames, delivered, cues, mode, lineBuf,
                       finished>>
        /\ call' = "idle" /\ doc' = doc
        /\ ret' = IF mode = "M_CUETEXT" /\ status = "UNFINISHED" THEN "SUCCESS" ELSE status
    BY <1>1, <1>2 DEF ChunkDone, Return, outcome, heap
  <1>4. Following' /\ ReturnSeen'
    BY <1>1, <1>3, FollowsOn DEF Going
  <1>5. mode \in Modes
    BY DEF Sound, IInv, TypeOK
  <1>6. Going'
    BY <1>1, <1>2, <1>3, <1>4, <1>5 DEF Going, Modes
  <1> QED BY <1>4, <1>6

\* A turn of the same call.
LEMMA GoesOn ==
  ASSUME Sound, Going, call = "chunk", UNCHANGED <<call, finished>>,
         status' \in {"SUCCESS", "UNFINISHED"},
         mode' = "M_WEBVTT" => status' = "SUCCESS" /\ lineBuf' = << >>,
         tk' # "none" => mode' = "M_WEBVTT" /\ tstate' = "L_START", ReturnSeen'
  PROVE  Going'
  BY DEF Going

-----------------------------------------------------------------------------
(* What the lexer does with a symbol.                                      *)

\* It uses a symbol of a token,
LexText ==
  /\ ~IsEol(Sym) /\ pos' = pos + 1 /\ token' = Append(token, Sym) /\ tstate' # "L_NEWLINE0"
  /\ \/ tstate = "L_START" /\ Sym = "WEB" /\ tstate' = "L_WEBVTT" /\ tk' = "none"
     \/ tstate \in {"L_START", "L_WHITESPACE"} /\ Sym = "SP" /\ tstate' = "L_WHITESPACE"
        /\ tk' = "none"
     \/ tstate = "L_WEBVTT" /\ Sym = "VTT" /\ tstate' = "L_START" /\ tk' = "WEBVTT"
  /\ Reader' = Reader /\ Left' = Append(Left, Sym)

\* or a CR,
LexReturn ==
  /\ tstate = "L_START" /\ Sym = "CR" /\ pos' = pos + 1 /\ tstate' = "L_NEWLINE0"
  /\ tk' = "none"
  /\ Reader' = Reader /\ Left' = Left

\* comes to the end of a line,
LexLine ==
  /\ \/ tstate = "L_START" /\ Sym = "LF"
     \/ tstate = "L_NEWLINE0"
  /\ tstate' = "L_START" /\ tk' = "NEWLINE" /\ pos' >= pos
  /\ Reader' = ReadLine(Reader, Left) /\ Left' = << >>

\* or takes the symbol back.
LexBack ==
  /\ pos' = pos /\ token' = token /\ tstate' = "L_START"
  /\ \/ tstate = "L_WHITESPACE" /\ Sym # "SP" /\ tk' = "WHITESPACE"
     \/ tstate = "L_START" /\ Sym \notin {"WEB", "SP", "CR", "LF"} /\ tk' = "BADTOKEN"
     \/ tstate = "L_WEBVTT" /\ Sym # "VTT" /\ tk' = "BADTOKEN"
  /\ Reader' = Reader /\ Left' = Left

\* Every step of the lexer is one of the four.
LEMMA LexDoes ==
  ASSUME Sound, ReturnSeen, Lex
  PROVE  (LexText \/ LexReturn \/ LexLine \/ LexBack) /\ ReturnSeen'
  <1> DEFINE x == Lexed(tstate, Sym)
  <1>1. /\ IInv /\ doc' = doc /\ More /\ Consume(x) /\ token' = Spelled(x) /\ tk' = x.token
        /\ tstate \in LexStates /\ Sym \in Symbols
    BY SymType DEF Sound, Lex, Turn, IInv, TypeOK
  <1>2. tstate' = x.next /\ pos' = (IF x.used THEN pos + 1 ELSE pos)
        /\ token' = (IF x.used THEN Append(token, Sym) ELSE token)
    BY <1>1 DEF Consume, Spelled
  <1>3. pos \in Nat
    BY Where DEF Sound
  <1>4. CASE tstate = "L_START" /\ Sym = "WEB"
    <2>1. x = Step("none", "L_WEBVTT", TRUE)
      BY <1>4 DEF Lexed
    <2>2. tstate' = "L_WEBVTT" /\ pos' = pos + 1 /\ token' = Append(token, Sym) /\ tk' = "none"
      BY <1>1, <1>2, <2>1 DEF Step
    <2>3. ~IsEol(Sym)
      BY <1>4 DEF IsEol
    <2> QED BY <1>1, <1>4, <2>2, <2>3, UsesText DEF LexText
  <1>5. CASE tstate \in {"L_START", "L_WHITESPACE"} /\ Sym = "SP"
    <2>1. x = Step("none", "L_WHITESPACE", TRUE)
      BY <1>5 DEF Lexed
    <2>2. tstate' = "L_WHITESPACE" /\ pos' = pos + 1 /\ token' = Append(token, Sym) /\ tk' = "none"
      BY <1>1, <1>2, <2>1 DEF Step
    <2>3. ~IsEol(Sym)
      BY <1>5 DEF IsEol
    <2> QED BY <1>1, <1>5, <2>2, <2>3, UsesText DEF LexText
  <1>6. CASE tstate = "L_WEBVTT" /\ Sym = "VTT"
    <2>1. x = Step("WEBVTT", "L_START", TRUE)
      BY <1>6 DEF Lexed
    <2>2. tstate' = "L_START" /\ pos' = pos + 1 /\ token' = Append(token, Sym) /\ tk' = "WEBVTT"
      BY <1>1, <1>2, <2>1 DEF Step
    <2>3. ~IsEol(Sym)
      BY <1>6 DEF IsEol
    <2> QED BY <1>1, <1>6, <2>2, <2>3, UsesText DEF LexText
  <1>7. CASE tstate = "L_START" /\ Sym = "CR"
    <2>1. x = Step("none", "L_NEWLINE0", TRUE)
      BY <1>7 DEF Lexed
    <2>2. tstate' = "L_NEWLINE0" /\ pos' = pos + 1 /\ tk' = "none"
      BY <1>1, <1>2, <2>1 DEF Step
    <2> QED BY <1>1, <1>7, <2>2, UsesReturn DEF LexReturn
  <1>8. CASE (tstate = "L_START" /\ Sym = "LF") \/ tstate = "L_NEWLINE0"
    <2>1. \/ x = Step("NEWLINE", "L_START", TRUE) /\ Sym = "LF" /\ tstate # "L_NEWLINE0"
          \/ x = Step("NEWLINE", "L_START", Sym = "LF") /\ tstate = "L_NEWLINE0"
      BY <1>8 DEF Lexed
    <2>2. tk' = "NEWLINE" /\ pos' >= pos
      BY <1>1, <1>2, <1>3, <2>1 DEF Step
    <2>3. Reader' = ReadLine(Reader, Left) /\ Left' = << >> /\ ReturnSeen' /\ tstate' = "L_START"
      BY <1>1, <2>1, UsesLine
    <2> QED BY <1>8, <2>2, <2>3 DEF LexLine
  <1>9. CASE tstate = "L_WHITESPACE" /\ Sym # "SP"
    <2>1. x = Step("WHITESPACE", "L_START", FALSE)
      BY <1>9 DEF Lexed
    <2>2. tstate' = "L_START" /\ pos' = pos /\ token' = token /\ tk' = "WHITESPACE"
      BY <1>1, <1>2, <2>1 DEF Step
    <2> QED BY <1>1, <1>9, <2>2, StaysThere DEF LexBack
  <1>10. CASE \/ tstate = "L_START" /\ Sym \notin {"WEB", "SP", "CR", "LF"}
              \/ tstate = "L_WEBVTT" /\ Sym # "VTT"
    <2>1. x = Step("BADTOKEN", "L_START", FALSE)
      BY <1>10 DEF Lexed
    <2>2. tstate' = "L_START" /\ pos' = pos /\ token' = token /\ tk' = "BADTOKEN"
      BY <1>1, <1>2, <2>1 DEF Step
    <2> QED BY <1>1, <1>10, <2>2, StaysThere DEF LexBack
  <1> QED BY <1>1, <1>4, <1>5, <1>6, <1>7, <1>8, <1>9, <1>10 DEF LexStates

\* It leaves the rest alone.
LEMMA LexKeeps ==
  ASSUME Sound, Going, Lex
  PROVE  /\ call = "chunk" /\ mode = "M_WEBVTT" /\ tk = "none" /\ More /\ More' = (pos' < lim)
         /\ tstate' = "L_START" /\ ReturnSeen' => Going'
         /\ tk' = "none" /\ ReturnSeen' => Going'
         /\ UNCHANGED <<top, Top, Above, mode, delivered, TheCue>> /\ (LinePending' <=> LinePending)
         /\ (InBody' <=> InBody) /\ Contents' = Contents /\ doc' = doc
  <1>1. /\ call = "chunk" /\ mode = "M_WEBVTT" /\ tk = "none" /\ More
        /\ UNCHANGED <<call, status, ret, lim, finished, mode, lineBuf, delivered, cues, frames, doc>>
    BY DEF Lex, Turn, calling, outcome, heap
  <1>2. More' = (pos' < lim)
    BY <1>1 DEF More
  <1>3. UNCHANGED <<top, Top, Above, TheCue>> /\ (LinePending' <=> LinePending)
        /\ (InBody' <=> InBody) /\ Contents' = Contents
    BY <1>1, HandsNothing DEF Top, Above, TheCue, LinePending, InBody, frames
  <1>4. tstate' = "L_START" /\ ReturnSeen' => Going'
    BY <1>1, GoesOn DEF Going
  <1>5. tk' = "none" /\ ReturnSeen' => Going'
    BY <1>1, GoesOn DEF Going
  <1> QED BY <1>1, <1>2, <1>3, <1>4, <1>5

-----------------------------------------------------------------------------
(* The first line.                                                         *)

\* The lexer before the signature,
LEMMA LexInitial == ASSUME Sound, Going, InInitial, Lex PROVE Going' /\ InInitial'
  <1>1. ReturnSeen' /\ (LexText \/ LexReturn \/ LexLine \/ LexBack)
    BY LexDoes DEF Going
  <1>2. Going'
    BY <1>1, LexKeeps DEF LexText, LexReturn, LexLine, LexBack
  <1>3. /\ doc \in Text /\ Len(doc) \in Nat /\ pos \in Nat /\ pos + 1 <= Len(doc) /\ doc' = doc
        /\ Sym = doc[pos + 1]
    <2>1. pos \in 0 .. Len(doc) - 1
      BY LexKeeps, Where DEF Sound, Going
    <2> QED BY <2>1, Where DEF Sound, Going, Sym
  <1>4. tk = "none" /\ pos' \in Nat
    BY LexKeeps DEF Sound, IInv, TypeOK
  <1>5. \/ tk' = "none" /\ tstate' = "L_START" /\ pos' = 0
        \/ tk' = "none" /\ tstate' = "L_WEBVTT" /\ pos' = 1 /\ doc[1] = "WEB"
        \/ tk' = "none" /\ tstate' = "L_WHITESPACE" /\ pos' > 0 /\ doc[1] = "SP"
        \/ tk' = "none" /\ tstate' = "L_NEWLINE0" /\ pos' = 1 /\ doc[1] = "CR"
        \/ tk' = "WEBVTT" /\ pos' = 2 /\ doc[1] = "WEB" /\ doc[2] = "VTT"
        \/ tk' \notin {"none", "WEBVTT"} /\ Unsigned(doc)
    <2>1. CASE tstate = "L_START" /\ pos = 0
      BY <1>1, <1>3, <2>1 DEF LexText, LexReturn, LexLine, LexBack, Unsigned
    <2>2. CASE tstate = "L_WEBVTT" /\ pos = 1 /\ doc[1] = "WEB"
      BY <1>1, <1>3, <2>2 DEF LexText, LexReturn, LexLine, LexBack, Unsigned
    <2>3. CASE tstate = "L_WHITESPACE" /\ pos > 0 /\ doc[1] = "SP"
      BY <1>1, <1>3, <2>3 DEF LexText, LexReturn, LexLine, LexBack, Unsigned
    <2>4. CASE tstate = "L_NEWLINE0" /\ pos = 1 /\ doc[1] = "CR"
      BY <1>1, <1>3, <2>4 DEF LexText, LexReturn, LexLine, LexBack, Unsigned
    <2> QED BY <1>4, <2>1, <2>2, <2>3, <2>4 DEF InInitial
  <1>6. InInitial'
    BY <1>3, <1>5, LexKeeps DEF InInitial
  <1> QED BY <1>2, <1>6

\* The reader after the signature.
LEMMA SignatureRead ==
  ASSUME IInv, ReturnSeen, Len(doc) > 1, doc[1] = "WEB", doc[2] = "VTT", Place = 2
  PROVE  /\ Reader = ReaderStart /\ Left = <<"WEB", "VTT">>
         /\ ReadLine(Reader, Left).phase = "gap" /\ ReadLine(Reader, Left).cues = << >>
  <1>1. doc \in Text /\ Len(doc) \in Nat
    BY Where
  <1>2. Before(doc, 2) = ReaderStart /\ Rest(doc, 2) = <<"WEB", "VTT">>
    BY <1>1, Opened
  <1>3. <<"WEB", "VTT">> \in Text /\ IsSignature(<<"WEB", "VTT">>)
    BY DEF Text, Symbols, IsSignature
  <1> QED BY <1>2, <1>3, FirstLineRead DEF Reader, Left

\* A comment would start with a space.
LEMMA NoComment ==
  ASSUME NEW d \in Text, ~Commented(d), Len(d) > 2, d[1] = "WEB", d[2] = "VTT" PROVE d[3] # "SP"
  <1> SUFFICES ASSUME d[3] = "SP" PROVE FALSE
    OBVIOUS
  <1> DEFINE s == SubSeq(d, 1, 3)
             t == <<"WEB", "VTT", "SP">>
  <1>1. d \in Seq(Symbols) /\ Len(d) \in Nat
    BY DEF Text
  <1>2. s \in Seq(Symbols) /\ Len(s) = 3 /\ s[1] = "WEB" /\ s[2] = "VTT" /\ s[3] = "SP"
    BY <1>1
  <1>3. t \in Seq(Symbols) /\ Len(t) = 3 /\ t[1] = "WEB" /\ t[2] = "VTT" /\ t[3] = "SP"
    BY DEF Symbols
  <1> HIDE DEF s, t
  <1>4. \A i \in 1 .. Len(s) : i = 1 \/ i = 2 \/ i = 3
    BY <1>2
  <1>5. \A i \in 1 .. Len(s) : s[i] = t[i]
    BY <1>2, <1>3, <1>4
  <1>6. s = t
    BY <1>2, <1>3, <1>5, SameSequence
  <1> QED BY <1>6 DEF s, t, Commented

\* and after it, up to the end of the line.
LEMMA LexTag == ASSUME Sound, Going, InTag, Lex PROVE Going' /\ InTag'
  <1>1. ReturnSeen' /\ (LexText \/ LexReturn \/ LexLine \/ LexBack)
    BY LexDoes DEF Going
  <1>2. Going'
    BY <1>1, LexKeeps DEF LexText, LexReturn, LexLine, LexBack
  <1>3. /\ doc \in Text /\ Len(doc) \in Nat /\ pos \in Nat /\ pos + 1 <= Len(doc) /\ doc' = doc
        /\ Sym = doc[pos + 1] /\ IInv /\ ReturnSeen
    <2>1. pos \in 0 .. Len(doc) - 1
      BY LexKeeps, Where DEF Sound, Going
    <2> QED BY <2>1, Where DEF Sound, Going, Sym
  <1>4. tk = "none" /\ pos' \in Nat
    BY LexKeeps DEF Sound, IInv, TypeOK
  <1>5. pos > 1 /\ doc[1] = "WEB" /\ doc[2] = "VTT"
    BY DEF InTag
  <1>6. Len(doc) > 2 /\ Len(doc) > 1 /\ doc[3] # "SP"
    BY <1>3, <1>5, NoComment DEF Sound
  <1>7. pos' > 1 /\
        \/ tk' = "none" /\ tstate' = "L_START" /\ pos' = 2
        \/ tk' = "none" /\ tstate' = "L_WEBVTT" /\ pos' = 3 /\ doc[3] = "WEB"
        \/ tk' = "none" /\ tstate' = "L_NEWLINE0" /\ pos' = 3 /\ doc[3] = "CR"
        \/ tk' = "NEWLINE" /\ Reader'.phase = "gap" /\ Reader'.cues = << >> /\ Left' = << >>
        \/ tk' \in {"BADTOKEN", "WEBVTT"} /\ Unsigned(doc)
    <2>1. CASE tstate = "L_START" /\ pos = 2
      <3>1. ReadLine(Reader, Left).phase = "gap" /\ ReadLine(Reader, Left).cues = << >>
        <4>1. Place = 2
          BY <2>1 DEF Place
        <4> QED BY <1>3, <1>5, <1>6, <4>1, SignatureRead
      <3>2. CASE LexLine
        BY <1>3, <1>4, <2>1, <3>1, <3>2 DEF LexLine
      <3> QED BY <1>1, <1>3, <1>6, <2>1, <3>2 DEF LexText, LexReturn, LexBack, Unsigned
    <2>2. CASE tstate = "L_WEBVTT" /\ pos = 3 /\ doc[3] = "WEB"
      BY <1>1, <1>3, <2>2 DEF LexText, LexReturn, LexLine, LexBack, Unsigned
    <2>3. CASE tstate = "L_NEWLINE0" /\ pos = 3 /\ doc[3] = "CR"
      <3>1. ReadLine(Reader, Left).phase = "gap" /\ ReadLine(Reader, Left).cues = << >>
        <4>1. Place = 2
          BY <2>3 DEF Place
        <4> QED BY <1>3, <1>5, <1>6, <4>1, SignatureRead
      <3>2. CASE LexLine
        BY <1>3, <1>4, <2>3, <3>1, <3>2 DEF LexLine
      <3> QED BY <1>1, <1>3, <1>6, <2>3, <3>2 DEF LexText, LexReturn, LexBack
    <2> QED BY <1>4, <2>1, <2>2, <2>3 DEF InTag
  <1>8. InTag'
    BY <1>3, <1>5, <1>7, LexKeeps DEF InTag
  <1> QED BY <1>2, <1>8

-----------------------------------------------------------------------------
(* Up to the first line of a cue.                                          *)

\* A line gets an arrow only with a symbol that has one.
LEMMA ArrowAppended ==
  ASSUME NEW l \in Text, NEW s \in Symbols
  PROVE  HasArrow(Append(l, s)) <=> HasArrow(l) \/ s \in TimingSymbols
  <1> DEFINE m == Append(l, s)
             n == Len(l)
  <1>1. l \in Seq(Symbols) /\ n \in Nat
    BY DEF Text
  <1>2. Len(m) = n + 1 /\ m[n + 1] = s /\ \A i \in 1 .. n : m[i] = l[i]
    BY <1>1, AppendParts
  <1>3. DOMAIN l = 1 .. n /\ DOMAIN m = 1 .. n + 1
    <2>1. m \in Seq(Symbols)
      BY <1>1, AppendParts
    <2> HIDE DEF m
    <2> QED BY <1>1, <1>2, <2>1
  <1> HIDE DEF m, n
  <1>4. \A i \in 1 .. n + 1 : i \in 1 .. n \/ i = n + 1
    BY <1>1
  <1>5. 1 .. n \subseteq 1 .. n + 1 /\ n + 1 \in 1 .. n + 1
    BY <1>1
  <1>6. HasArrow(m) <=> HasArrow(l) \/ s \in TimingSymbols
    BY <1>2, <1>3, <1>4, <1>5 DEF HasArrow
  <1> QED BY <1>6 DEF m

\* An empty line has no arrow.
LEMMA NoArrowInEmpty == ~HasArrow(<< >>)
  BY DEF HasArrow

\* When nothing was handed over it fits a reader without cues.
LEMMA NothingYet ==
  ASSUME IInv, Handed, delivered = << >> PROVE Contents = << >> /\ Fits(Contents, << >>)
  <1> DEFINE s == Contents
  <1>1. s \in Seq(Seen) /\ Len(s) = 0
    BY ContentsType
  <1> HIDE DEF s
  <1>2. s = << >>
    BY <1>1
  <1>3. InOrder(<< >>, << >>)
    BY EmptySeq, InOrderItself
  <1> QED BY <1>2, <1>3 DEF s, Fits

\* The lexer between cues.
LEMMA LexBetween == ASSUME Sound, Going, Between, Lex PROVE Going' /\ Between'
  <1>1. ReturnSeen' /\ (LexText \/ LexReturn \/ LexLine \/ LexBack)
    BY LexDoes DEF Going
  <1>2. Going'
    BY <1>1, LexKeeps DEF LexText, LexReturn, LexLine, LexBack
  <1>3. /\ Reader \in Readings /\ Left \in Text /\ Sym \in Symbols /\ More /\ doc' = doc
        /\ tk = "none" /\ token \in Text /\ pos \in Nat /\ lim \in Nat
    BY LexKeeps, Where DEF Sound, Going, IInv, TypeOK, Text
  <1>4. /\ (tstate \in {"L_START", "L_NEWLINE0"} => Left = << >>)
        /\ (tstate # "L_NEWLINE0" => Left = token)
        /\ (tstate \in {"L_WEBVTT", "L_WHITESPACE"} => token # << >>)
        /\ ~HasArrow(Left) /\ Reader.phase \in {"gap", "body"} /\ Fit
    BY <1>3 DEF Between
  <1>5. ASSUME Reader' = Reader PROVE Fit'
    <2>1. Contents' = Contents /\ doc' = doc
      BY LexKeeps
    <2> QED BY <1>4, <1>5, <2>1 DEF Fit, Fits, Lenient
  <1>6. /\ Reader'.phase \in {"gap", "body"} /\ Fit'
        /\ tk' = "none" => /\ tstate' \in {"L_START", "L_NEWLINE0"} => Left' = << >>
                           /\ tstate' # "L_NEWLINE0" => Left' = token'
                           /\ tstate' \in {"L_WEBVTT", "L_WHITESPACE"} => token' # << >>
                           /\ ~HasArrow(Left')
        /\ tk' = "NEWLINE" => Left' = << >>
        /\ tk' \notin {"none", "NEWLINE"} =>
             Left' = token' /\ (token' = << >> => More' /\ ~IsEol(Sym'))
    <2>1. CASE LexText
      <3>1. Left' = token' /\ token' # << >> /\ tk' # "NEWLINE" /\ tstate' # "L_NEWLINE0"
            /\ (tk' = "none" => tstate' # "L_START")
        <4>1. Left' = Append(Left, Sym) /\ token' = Append(token, Sym) /\ tstate # "L_NEWLINE0"
              /\ tk' # "NEWLINE" /\ tstate' # "L_NEWLINE0" /\ (tk' = "none" => tstate' # "L_START")
          BY <2>1 DEF LexText
        <4>2. Append(token, Sym) # << >>
          BY <1>3 DEF Text
        <4> QED BY <1>4, <4>1, <4>2
      <3>2. tk' = "none" => ~HasArrow(Left')
        <4>1. tk' = "none" => Sym \notin TimingSymbols
          BY <2>1 DEF LexText, TimingSymbols
        <4>2. Left' = Append(Left, Sym)
          BY <2>1 DEF LexText
        <4> QED BY <1>3, <1>4, <4>1, <4>2, ArrowAppended
      <3>3. Reader' = Reader
        BY <2>1 DEF LexText
      <3> QED BY <1>4, <1>5, <3>1, <3>2, <3>3
    <2>2. CASE LexReturn
      BY <1>4, <1>5, <2>2 DEF LexReturn
    <2>3. CASE LexLine
      <3>1. Reader' = ReadLine(Reader, << >>) /\ Left' = << >> /\ tk' = "NEWLINE"
        BY <1>4, <2>3 DEF LexLine
      <3>2. Reads(Reader, Reader', << >>)
        BY <1>3, <3>1, ReadLineIs, NoCueType
      <3>3. Reader'.phase = "body" /\ Reader'.cues = Reader.cues
        BY <1>4, <3>2 DEF Reads, ReadsBody
      <3>4. Contents' = Contents
        BY LexKeeps
      <3>5. Fit'
        BY <1>4, <3>3, <3>4 DEF Fit, Fits, Lenient
      <3> QED BY <3>1, <3>3, <3>5
    <2>4. CASE LexBack
      <3>1. Sym' = Sym /\ More'
        BY <1>3, <2>4, LexKeeps DEF LexBack, Sym, More
      <3>2. /\ Left' = token' /\ token' = token /\ tk' \notin {"none", "NEWLINE"} /\ Reader' = Reader
            /\ (token = << >> => ~IsEol(Sym))
        BY <1>4, <2>4 DEF LexBack, IsEol
      <3> QED BY <1>4, <1>5, <3>1, <3>2
    <2> QED BY <1>1, <2>1, <2>2, <2>3, <2>4
  <1>7. UNCHANGED <<top, Top, Above, mode>> /\ (LinePending' <=> LinePending) /\ (InBody' <=> InBody)
    BY LexKeeps
  <1>8. Between'
    BY <1>6, <1>7 DEF Between
  <1> QED BY <1>2, <1>8

\* A turn that has its token.
LEMMA TurnEnds ==
  ASSUME Sound, Going, tk # "none", EndTurn, UNCHANGED <<mode, finished, lineBuf>>
  PROVE  /\ Going' /\ Reader' = Reader /\ Left' = Left /\ More' = More /\ Sym' = Sym
         /\ tk' = "none" /\ token' = << >> /\ tstate' = "L_START" /\ tstate = "L_START" /\ pos' = pos
         /\ call' = "chunk" /\ doc' = doc
  <1>1. /\ UNCHANGED <<doc, lim, pos, call, ret, status, tstate>> /\ tk' = "none" /\ token' = << >>
    BY DEF EndTurn, input, calling
  <1>2. call = "chunk" /\ mode = "M_WEBVTT" /\ tstate = "L_START" /\ lineBuf = << >>
        /\ status = "SUCCESS"
    BY DEF Going
  <1>3. Reader' = Reader /\ Left' = Left /\ ReturnSeen'
    BY <1>1, StaysThere DEF Going
  <1>4. Going'
    BY <1>1, <1>2, <1>3, GoesOn
  <1> QED BY <1>1, <1>2, <1>3, <1>4 DEF More, Sym

\* Who looks at a token.
LEMMA LooksAtToken ==
  ASSUME Going, Following, NEW state, On(state)
  PROVE  /\ call = "chunk" /\ tk # "none" /\ mode = "M_WEBVTT" /\ Top.state = state
         /\ \/ state = "T_INITIAL" /\ InInitial
            \/ state = "T_TAG" /\ InTag
            \/ state = "T_EOL" /\ Between /\ top = 1
            \/ state = "T_BODY" /\ Between /\ top = 0
  <1>1. call = "chunk" /\ tk # "none" /\ mode = "M_WEBVTT" /\ Top.state = state
    BY DEF On, Going
  <1>2. InInitial \/ InTag \/ Between
    BY <1>1 DEF Following, InFirstLines, LineToLookAt, InCueText, InSkipped
  <1>3. InInitial => state = "T_INITIAL"
    BY <1>1 DEF InInitial
  <1>4. InTag => state = "T_TAG"
    BY <1>1 DEF InTag
  <1>5. Between => (top = 1 /\ state = "T_EOL") \/ (top = 0 /\ state = "T_BODY")
    BY <1>1 DEF Between, InBody, Top
  <1> QED BY <1>1, <1>2, <1>3, <1>4, <1>5

\* A document that does not start with a signature.
LEMMA Rejected ==
  ASSUME Sound, Going, NoLine, Unsigned(doc), delivered = << >>, Reject(line) \/ Reject(1)
  PROVE  Over'
  <1>1. /\ call' = "idle" /\ ret' = "PARSE_ERROR" /\ delivered' = delivered
        /\ UNCHANGED <<frames, mode>>
    BY DEF Reject, Return
  <1>2. NoLine'
    BY <1>1, SameLine
  <1>3. Halted'
    BY <1>1, <1>2 DEF Halted
  <1>4. doc \in Text
    BY DEF Sound, IInv, TypeOK, Text
  <1>5. CuesOf(doc) = << >>
    BY <1>4, UnsignedHasNone
  <1>6. Contents' = << >> /\ InOrder(<< >>, << >>)
    BY <1>1, NothingYet, HandsNothing DEF Sound, Fits
  <1> QED BY <1>3, <1>5, <1>6, IsThrough

\* What a token does before the signature,
LEMMA InitialGoes ==
  ASSUME Sound, Going, Following, InitialSignature \/ InitialReject
  PROVE  Over' \/ (Going' /\ Following')
  <1>1. On("T_INITIAL")
    BY DEF InitialSignature, InitialReject
  <1>2. InInitial /\ tk # "none" /\ mode = "M_WEBVTT" /\ Top.state = "T_INITIAL"
    BY <1>1, LooksAtToken
  <1>3. CASE InitialReject
    <2>1. Unsigned(doc) /\ delivered = << >> /\ NoLine /\ Reject(1)
      BY <1>2, <1>3 DEF InInitial, InitialReject, NoLine
    <2> QED BY <2>1, Rejected
  <1>4. CASE InitialSignature
    <2>1. EndTurn /\ UNCHANGED <<mode, finished, lineBuf, delivered>> /\ Push("T_TAG") /\ tk = "WEBVTT"
      BY <1>4 DEF InitialSignature, Quiet, outcome
    <2>2. /\ Going' /\ tk' = "none" /\ tstate' = "L_START" /\ pos' = pos /\ doc' = doc
      BY <1>2, <2>1, TurnEnds
    <2>3. /\ pos = 2 /\ doc[1] = "WEB" /\ doc[2] = "VTT" /\ delivered = << >> /\ top = 0
      BY <1>2, <2>1 DEF InInitial
    <2>4. top' = 1 /\ Top'.state = "T_TAG" /\ popped' = FALSE
      <3>1. stack \in [Depth -> Frame]
        BY DEF Sound, IInv, TypeOK
      <3> QED BY <2>1, <2>3, <3>1 DEF Push, Top, NewFrame, Depth
    <2>5. InTag'
      BY <1>2, <2>1, <2>2, <2>3, <2>4 DEF InTag, LinePending
    <2> QED BY <2>2, <2>5 DEF Following
  <1> QED BY <1>3, <1>4

\* and what it does after.
LEMMA TagGoes ==
  ASSUME Sound, Going, Following, TagSpace \/ TagNewline \/ TagReject
  PROVE  Over' \/ (Going' /\ Following')
  <1>1. On("T_TAG")
    BY DEF TagSpace, TagNewline, TagReject
  <1>2. InTag /\ tk # "none" /\ mode = "M_WEBVTT" /\ Top.state = "T_TAG" /\ top = 1
    BY <1>1, LooksAtToken DEF InTag
  <1>3. tk # "WHITESPACE"
    BY <1>2 DEF InTag
  <1>4. CASE TagReject
    <2>1. Unsigned(doc) /\ delivered = << >> /\ NoLine /\ Reject(line)
      BY <1>2, <1>4 DEF InTag, TagReject, NoLine
    <2> QED BY <2>1, Rejected
  <1>5. CASE TagNewline
    <2>1. EndTurn /\ UNCHANGED <<mode, finished, lineBuf, delivered>> /\ PopBackAndCount("T_BODY")
          /\ tk = "NEWLINE"
      BY <1>5 DEF TagNewline, Quiet, outcome
    <2>2. /\ Going' /\ tk' = "none" /\ tstate' = "L_START" /\ token' = << >> /\ Reader' = Reader
          /\ Left' = Left
      BY <1>2, <2>1, TurnEnds
    <2>3. Reader.phase = "gap" /\ Reader.cues = << >> /\ Left = << >> /\ delivered = << >>
      BY <1>2, <2>1 DEF InTag
    <2>4. Top.back = 1 /\ stack \in [Depth -> Frame]
      BY <1>2 DEF Sound, IInv, TypeOK, StackShape, MiddleShape, Going, Live
    <2>5. top' = 1 /\ Top'.state = "T_EOL" /\ popped' = FALSE /\ InBody'
      <3>1. top - Top.back = 0 /\ (top - Top.back) + 1 = 1
        BY <1>2, <2>4
      <3>2. stack' = [stack EXCEPT ![0] = BackTo(@, "T_BODY"),
                                   ![1] = WithValue(NewFrame("T_EOL", "V_INTEGER", 1), 1)]
            /\ top' = 1 /\ popped' = FALSE
        BY <2>1, <3>1 DEF PopBackAndCount
      <3>3. stack'[0] = BackTo(stack[0], "T_BODY")
            /\ stack'[1] = WithValue(NewFrame("T_EOL", "V_INTEGER", 1), 1)
        BY <2>4, <3>2 DEF Depth
      <3>4. stack[0] \in Frame
        BY <2>4 DEF Depth
      <3>5. stack'[0].state = "T_BODY"
        BY <3>3, <3>4 DEF BackTo, Frame
      <3>6. stack'[1].state = "T_EOL"
        BY <3>3 DEF WithValue, NewFrame
      <3> QED BY <3>2, <3>5, <3>6 DEF Top, InBody
    <2>6. Fit'
      <3>1. Contents' = Contents
        BY <2>1, HandsNothing
      <3> QED BY <2>2, <2>3, <3>1, NothingYet DEF Fit, Fits, Sound, Lenient
    <2>7. Between'
      BY <1>2, <2>1, <2>2, <2>3, <2>5, <2>6, NoArrowInEmpty DEF Between, LinePending
    <2> QED BY <2>2, <2>7 DEF Following
  <1> QED BY <1>3, <1>4, <1>5 DEF TagSpace

\* A line between cues that has ended.
LEMMA LineBetween ==
  ASSUME Sound, Going, Between, tk = "NEWLINE", EndTurn,
         UNCHANGED <<mode, finished, lineBuf, delivered>>, top' = top, Top'.state = Top.state,
         ~LinePending', InBody'
  PROVE  Going' /\ Between'
  <1>1. /\ Going' /\ tk' = "none" /\ tstate' = "L_START" /\ token' = << >> /\ Reader' = Reader
        /\ Left' = Left /\ doc' = doc
    BY TurnEnds
  <1>2. Left = << >> /\ Fit
    BY DEF Between
  <1>3. Contents' = Contents
    BY HandsNothing
  <1>4. Fit'
    BY <1>1, <1>2, <1>3 DEF Fit, Fits, Lenient
  <1> QED BY <1>1, <1>2, <1>4, NoArrowInEmpty DEF Between

\* What a line end does,
LEMMA EolGoes ==
  ASSUME Sound, Going, Following, EolCount \/ EolPop PROVE Going' /\ Following'
  <1>1. On("T_EOL")
    BY DEF EolCount, EolPop
  <1>2. Between /\ tk # "none" /\ call = "chunk" /\ mode = "M_WEBVTT" /\ Top.state = "T_EOL"
        /\ top = 1
    BY <1>1, LooksAtToken
  <1>3. stack \in [Depth -> Frame] /\ stack[0] \in Frame /\ stack[1] \in Frame
        /\ stack[1].state = "T_EOL" /\ stack[0].state = "T_BODY"
    BY <1>2 DEF Sound, IInv, TypeOK, Depth, Between, InBody, Top
  <1>4. CASE EolCount
    <2>1. EndTurn /\ UNCHANGED <<mode, finished, lineBuf, delivered, top, popped>> /\ tk = "NEWLINE"
          /\ stack' = [stack EXCEPT ![1] = WithValue(@, @.value + 1)]
      BY <1>2, <1>4 DEF EolCount, Quiet, outcome
    <2>2. stack'[1].state = "T_EOL" /\ stack'[0] = stack[0] /\ stack'[2] = stack[2]
      BY <1>3, <2>1 DEF WithValue, Frame, Depth
    <2>3. Top'.state = Top.state /\ InBody' /\ ~LinePending'
      BY <1>2, <1>3, <2>1, <2>2 DEF Top, InBody, LinePending, Above, Between
    <2> QED BY <1>2, <2>1, <2>3, LineBetween DEF Following
  <1>5. CASE EolPop
    <2>1. /\ UNCHANGED <<doc, lim, pos, call, ret, status, tstate, token, tk, mode, finished,
                         lineBuf, delivered>>
          /\ top' = top - Top.back /\ popped' = TRUE
          /\ stack' = [stack EXCEPT ![top - Top.back] = BackTo(@, @.state)] /\ tk # "NEWLINE"
      BY <1>5 DEF EolPop, input, calling, lexer, Quiet, outcome
    <2>2. Top.back = 1
      BY <1>2 DEF Sound, IInv, StackShape, MiddleShape, Live
    <2>3. top - Top.back = 0
      BY <1>2, <2>2
    <2>4. top' = 0 /\ stack' = [stack EXCEPT ![0] = BackTo(@, @.state)]
      BY <2>1, <2>3
    <2>5. stack'[0].state = "T_BODY" /\ stack'[1] = stack[1]
      BY <1>3, <2>4 DEF BackTo, Frame, Depth
    <2>6. InBody' /\ ~LinePending'
      BY <1>3, <2>4, <2>5 DEF InBody, LinePending, Above
    <2>7. Reader' = Reader /\ Left' = Left /\ ReturnSeen' /\ More' = More /\ Sym' = Sym
      BY <2>1, StaysThere DEF Going, More, Sym
    <2>8. Going'
      BY <1>2, <2>1, <2>7, GoesOn DEF Going
    <2>9. Contents' = Contents
      BY <2>1, HandsNothing
    <2>10. Fit'
      BY <1>2, <2>1, <2>7, <2>9 DEF Fit, Fits, Lenient, Between
    <2>11. Between'
      BY <1>2, <2>1, <2>4, <2>6, <2>7, <2>10 DEF Between
    <2> QED BY <2>8, <2>11 DEF Following
  <1> QED BY <1>4, <1>5

\* what a token does between cues,
LEMMA BodyGoes ==
  ASSUME Sound, Going, Following, NEW die \in Dies,
         BodyDead(die) \/ BodyNewline(die) \/ BodyCue(die) \/ BodyStarved(die)
  PROVE  Over' \/ (Going' /\ Following')
  <1>1. On("T_BODY")
    BY DEF BodyDead, BodyNewline, BodyCue, BodyStarved
  <1>2. Between /\ tk # "none" /\ call = "chunk" /\ mode = "M_WEBVTT" /\ Top.state = "T_BODY"
        /\ top = 0
    BY <1>1, LooksAtToken
  <1>3. stack \in [Depth -> Frame] /\ stack[0] \in Frame /\ stack[1] \in Frame
        /\ stack[0].state = "T_BODY" /\ ~LinePending
    BY <1>2 DEF Sound, IInv, TypeOK, Depth, Between, InBody
  <1>4. CASE BodyDead(die)
    <2>1. /\ call' = "idle" /\ ret' = "PARSE_ERROR" /\ delivered' = delivered
          /\ UNCHANGED <<frames, mode>> /\ Report(BodyReports, die).dead
      BY <1>4 DEF BodyDead, Return
    <2>2. NoLine
      BY <1>2, <1>3 DEF NoLine
    <2>3. Halted' /\ ~Faultless
      BY <2>1, <2>2, SameLine, NothingRefused DEF Halted, Faultless, Lenient, Sound
    <2> QED BY <2>1, <2>3, Stops
  <1>5. BodyStack \in [Depth -> Frame] /\ BodyStack[0] = stack[0]
        /\ (popped => BodyStack[1].state # "T_CUEREAD")
    <2>1. CASE FromHeader
      <3> DEFINE f == InState(ClearValue(stack[1]), "T_INITIAL")
      <3>1. f \in Frame /\ f.state = "T_INITIAL"
        BY <1>3, EmptySeq DEF InState, ClearValue, Frame, States
      <3> HIDE DEF f
      <3>2. 0 + 1 = 1
        OBVIOUS
      <3>3. BodyStack = [stack EXCEPT ![1] = f]
        BY <1>2, <2>1, <3>2 DEF BodyStack, f
      <3> QED BY <1>3, <3>1, <3>3 DEF Depth
    <2>2. CASE ~FromHeader
      <3>1. BodyStack = stack
        BY <2>2 DEF BodyStack
      <3> QED BY <1>2, <1>3, <3>1 DEF LinePending, Above
    <2> QED BY <2>1, <2>2
  <1> HIDE DEF BodyStack
  <1>6. CASE BodyNewline(die)
    <2>1. EndTurn /\ UNCHANGED <<mode, finished, lineBuf, delivered, top, popped>> /\ tk = "NEWLINE"
          /\ stack' = BodyStack
      BY <1>6 DEF BodyNewline
    <2>2. Top'.state = Top.state /\ InBody' /\ ~LinePending'
      BY <1>2, <1>3, <1>5, <2>1 DEF Top, InBody, LinePending, Above
    <2> QED BY <1>2, <2>1, <2>2, LineBetween DEF Following
  <1>7. CASE BodyCue(die)
    <2> DEFINE f == WithCue(NewFrame("T_CUE", "V_CUE", Top.back + 1), Len(cues) + 1)
               g == WithText(NewFrame("T_CUEREAD", "V_TEXT", Top.back + 2), token)
    <2>1. EndTurn /\ UNCHANGED <<mode, finished, lineBuf, delivered>> /\ tk # "NEWLINE"
          /\ cues' = Append(cues, NewCue) /\ popped' = FALSE
          /\ stack' = [BodyStack EXCEPT ![top + 1] = f, ![top + 2] = g] /\ top' = top + 2
      BY <1>7 DEF BodyCue
    <2>2. 0 + 1 = 1 /\ 0 + 2 = 2
      OBVIOUS
    <2>3. top' = 2 /\ stack' = [BodyStack EXCEPT ![1] = f, ![2] = g]
      BY <1>2, <2>1, <2>2
    <2>4. /\ f.cue = Len(cues) + 1
          /\ g.state = "T_CUEREAD" /\ g.flags = 0 /\ g.text = token
      BY DEF WithCue, WithText, NewFrame
    <2> HIDE DEF f, g
    <2>5. stack'[0] = stack[0] /\ stack'[1] = f /\ stack'[2] = g
      BY <1>5, <2>3 DEF Depth
    <2>6. cues \in Seq(Cue) /\ token \in Text
      BY DEF Sound, IInv, TypeOK, Text
    <2>7. cues'[Len(cues) + 1] = NewCue
      BY <2>1, <2>6
    <2>8. TheCue' = NewCue /\ Top' = g /\ InBody'
      BY <1>3, <2>3, <2>4, <2>5, <2>7 DEF TheCue, Top, InBody
    <2>9. /\ Going' /\ tk' = "none" /\ tstate' = "L_START" /\ Reader' = Reader
          /\ Left' = Left /\ doc' = doc /\ More' = More /\ Sym' = Sym /\ call' = "chunk"
      BY <1>2, <2>1, TurnEnds
    <2>10. Left = token /\ (token = << >> => More /\ ~IsEol(Sym)) /\ Fit
           /\ Reader.phase \in {"gap", "body"}
      BY <1>2, <2>1 DEF Between
    <2>11. Fit'
      <3>1. Contents' = Contents
        BY <2>1, HandsNothing
      <3> QED BY <2>9, <2>10, <3>1 DEF Fit, Fits, Lenient
    <2>12. ~TheCue'.haveId /\ TheCue'.id = << >> /\ TheCue'.body = << >>
      BY <2>8 DEF NewCue
    <2>13. FirstLine'
      BY <2>4, <2>8, <2>9, <2>10, <2>12 DEF FirstLine
    <2>14. InFirstLines'
      BY <1>2, <2>1, <2>3, <2>4, <2>8, <2>9, <2>10, <2>11, <2>12, <2>13 DEF InFirstLines
    <2> QED BY <2>9, <2>14 DEF Following
  <1>8. ~BodyStarved(die)
    BY DEF BodyStarved, Sound
  <1> QED BY <1>4, <1>6, <1>7, <1>8

\* and what any token does.
LEMMA TokenGoes ==
  ASSUME Sound, Going, Following, TokenStep PROVE Over' \/ (Going' /\ Following')
  <1>1. ~On("T_TAGCOMMENT") /\ ~On("T_CUE")
    BY LooksAtToken
  <1>2. ~CommentNewline /\ ~CommentSkip /\ ~CueAssert
    BY <1>1 DEF CommentNewline, CommentSkip, CueAssert
  <1> QED BY <1>2, InitialGoes, TagGoes, EolGoes, BodyGoes DEF TokenStep

-----------------------------------------------------------------------------
(* The first lines of a cue.                                               *)

\* Who reads a line, and who looks at it.
LEMMA CueFrame ==
  ASSUME Sound, Going, InFirstLines \/ LineToLookAt
  PROVE  /\ stack \in [Depth -> Frame] /\ stack[0] \in Frame /\ stack[1] \in Frame
         /\ stack[2] \in Frame /\ stack[0].state = "T_BODY" /\ stack[1].state = "T_CUE"
         /\ stack[1].type = "V_CUE" /\ stack[2].type = "V_TEXT" /\ stack[2].state = "T_CUEREAD"
         /\ stack[1].cue \in DOMAIN cues /\ cues \in Seq(Cue) /\ TheCue \in Cue
         /\ stack[1].cue \in Nat \ {0}
         /\ InFirstLines => top = 2 /\ Top = stack[2]
         /\ LineToLookAt => top = 1 /\ Top = stack[1] /\ Above = stack[2] /\ popped
  <1>1. stack \in [Depth -> Frame] /\ stack[0] \in Frame /\ stack[1] \in Frame /\ stack[2] \in Frame
        /\ cues \in Seq(Cue) /\ StackShape /\ Live /\ ~MayFail
    BY SMTT(20) DEF Sound, Going, IInv, TypeOK, Depth, Live
  <1>2. InFirstLines => top = 2 /\ Top = stack[2] /\ stack[2].state = "T_CUEREAD" /\ InBody
    BY DEF InFirstLines, Top
  <1>3. LineToLookAt => top = 1 /\ Top = stack[1] /\ Above = stack[2] /\ popped
                        /\ stack[1].state = "T_CUE" /\ stack[2].state = "T_CUEREAD"
                        /\ stack[2].type = "V_TEXT" /\ InBody
    BY DEF LineToLookAt, Top, Above, LinePending
  <1>4. stack[1].state = "T_CUE" /\ HoldsCue(1) /\ stack[2].type = "V_TEXT"
    BY <1>1, <1>2, <1>3 DEF StackShape, TopShape, MiddleShape, LacksCue
  <1>5. stack[1].cue \in DOMAIN cues /\ stack[1].type = "V_CUE"
    BY <1>4 DEF HoldsCue
  <1>6. TheCue \in Cue /\ stack[1].cue \in Nat \ {0}
    BY <1>1, <1>5 DEF TheCue
  <1> QED BY <1>1, <1>2, <1>3, <1>4, <1>5, <1>6 DEF InBody

\* Reading the first lines of a cue.
LEMMA CueReadGoes ==
  ASSUME Sound, Going, InFirstLines, CueReadText \/ CueReadEol \/ CueReadNewline
  PROVE  Going' /\ Following'
  <1>1. /\ Turn /\ call = "chunk" /\ mode = "M_WEBVTT" /\ tk = "none" /\ More /\ doc' = doc
        /\ UNCHANGED <<call, ret, status, lim, tk, finished, mode, lineBuf, delivered, cues>>
        /\ status = "SUCCESS" /\ lineBuf = << >>
    BY DEF CueReadText, CueReadEol, CueReadNewline, Turn, calling, lexer, Quiet, outcome, heap, Going,
      Sound, input
  <1>2. /\ top = 2 /\ Top = stack[2] /\ stack \in [Depth -> Frame] /\ stack[2] \in Frame
        /\ stack[0].state = "T_BODY" /\ stack[1].state = "T_CUE" /\ stack[2].state = "T_CUEREAD"
        /\ stack[2].type = "V_TEXT"
    BY CueFrame
  <1>3. Reader \in Readings /\ Left \in Text /\ Sym \in Symbols /\ IInv /\ ReturnSeen /\ pos \in Nat
    BY <1>1, Where DEF Sound, Going
  <1>4. /\ Fit /\ TheCue.body = << >> /\ Left = stack[2].text
        /\ (stack[2].flags = 0 => tstate = "L_START") /\ (FirstLine \/ SecondLine)
    BY <1>2 DEF InFirstLines
  <1>5. Contents' = Contents
    BY <1>1, HandsNothing
  <1>6. ASSUME Reader' = Reader, stack'[1] = stack[1]
        PROVE  Fit' /\ TheCue' = TheCue /\ (SecondLine => SecondLine')
    <2>1. TheCue' = TheCue
      BY <1>1, <1>6 DEF TheCue
    <2> QED BY <1>1, <1>4, <1>5, <1>6, <2>1 DEF Fit, Fits, Lenient, SecondLine
  <1>7. CASE CueReadText
    <2> DEFINE f == WithText(stack[2], Append(stack[2].text, Sym))
    <2>1. /\ stack' = [stack EXCEPT ![2] = f] /\ pos' = pos + 1 /\ UNCHANGED <<tstate, token, top, popped>>
          /\ ~IsEol(Sym) /\ stack[2].flags = 0
      BY <1>2, <1>7 DEF CueReadText, lexer
    <2>2. f.text = Append(stack[2].text, Sym) /\ f.state = "T_CUEREAD" /\ f.flags = 0
      BY <1>2, <2>1 DEF WithText, Frame
    <2> HIDE DEF f
    <2>3. stack'[0] = stack[0] /\ stack'[1] = stack[1] /\ stack'[2] = f
      BY <1>2, <2>1 DEF Depth
    <2>4. Reader' = Reader /\ Left' = Append(Left, Sym) /\ ReturnSeen'
      BY <1>1, <1>3, <1>4, <2>1, UsesText
    <2>5. Left' # << >>
      BY <1>3, <2>4 DEF Text
    <2>6. Going'
      BY <1>1, <2>4, GoesOn
    <2>7. FirstLine => FirstLine'
      BY <1>6, <2>3, <2>4, <2>5 DEF FirstLine
    <2>8. Top' = f /\ top' = 2 /\ InBody'
      BY <1>2, <2>1, <2>3 DEF Top, InBody
    <2>9. InFirstLines'
      BY <1>1, <1>4, <1>6, <2>1, <2>2, <2>3, <2>4, <2>7, <2>8 DEF InFirstLines
    <2> QED BY <2>6, <2>9 DEF Following
  <1>8. CASE CueReadEol
    <2> DEFINE f == AtEol(stack[2])
    <2>1. /\ stack' = [stack EXCEPT ![2] = f] /\ UNCHANGED <<pos, tstate, token, top, popped>>
          /\ IsEol(Sym) /\ stack[2].flags = 0
      BY <1>2, <1>8 DEF CueReadEol, lexer, input
    <2>2. f.text = stack[2].text /\ f.state = "T_CUEREAD" /\ f.flags = 1
      BY <1>2 DEF AtEol, Frame
    <2> HIDE DEF f
    <2>3. stack'[0] = stack[0] /\ stack'[1] = stack[1] /\ stack'[2] = f
      BY <1>2, <2>1 DEF Depth
    <2>4. Reader' = Reader /\ Left' = Left /\ ReturnSeen'
      BY <1>1, <1>3, <2>1, StaysThere
    <2>5. Going'
      BY <1>1, <2>4, GoesOn
    <2>6. FirstLine => FirstLine'
      BY <1>6, <2>1, <2>3, <2>4 DEF FirstLine
    <2>7. Top' = f /\ top' = 2 /\ InBody'
      BY <1>2, <2>1, <2>3 DEF Top, InBody
    <2>8. InFirstLines'
      BY <1>1, <1>4, <1>6, <2>1, <2>2, <2>3, <2>4, <2>6, <2>7 DEF InFirstLines
    <2> QED BY <2>5, <2>8 DEF Following
  <1>9. CASE CueReadNewline
    <2> DEFINE x == LexedNewline(tstate, Sym)
    <2>1. /\ Consume(x) /\ x.token # "BADTOKEN" /\ stack' = stack /\ stack[2].flags = 1
          /\ (x.token = "NEWLINE" => top' = top - 1 /\ popped' = TRUE)
          /\ (x.token # "NEWLINE" => UNCHANGED <<top, popped>>)
      BY <1>2, <1>9 DEF CueReadNewline
    <2>2. FirstLine => Left # << >>
      BY <1>2, <2>1 DEF FirstLine
    <2>3. CASE x.token # "NEWLINE"
      <3>1. x = Step("none", "L_NEWLINE0", TRUE) /\ Sym = "CR" /\ tstate = "L_START"
        BY <2>1, <2>3 DEF LexedNewline, Step
      <3>2. pos' = pos + 1 /\ tstate' = "L_NEWLINE0"
        BY <2>1, <3>1 DEF Consume, Step
      <3>3. Reader' = Reader /\ Left' = Left /\ ReturnSeen'
        BY <1>1, <1>3, <3>1, <3>2, UsesReturn
      <3>4. Going'
        BY <1>1, <3>3, GoesOn
      <3>5. FirstLine => FirstLine'
        BY <1>6, <2>1, <2>2, <3>3 DEF FirstLine
      <3>6. Top' = stack[2] /\ top' = 2 /\ InBody'
        BY <1>2, <2>1, <2>3 DEF Top, InBody
      <3>7. InFirstLines'
        BY <1>1, <1>2, <1>4, <1>6, <2>1, <3>3, <3>5, <3>6 DEF InFirstLines
      <3> QED BY <3>4, <3>7 DEF Following
    <2>4. CASE x.token = "NEWLINE"
      <3>1. \/ x = Step("NEWLINE", "L_START", TRUE) /\ Sym = "LF" /\ tstate # "L_NEWLINE0"
            \/ x = Step("NEWLINE", "L_START", Sym = "LF") /\ tstate = "L_NEWLINE0"
        BY <2>4 DEF LexedNewline, Step
      <3> HIDE DEF x
      <3>2. Reader' = ReadLine(Reader, Left) /\ Left' = << >> /\ ReturnSeen' /\ tstate' = "L_START"
        BY <1>1, <1>3, <2>1, <3>1, UsesLine
      <3>3. Going'
        BY <1>1, <3>2, GoesOn
      <3>4. top' = 1 /\ popped' = TRUE
        BY <1>2, <2>1, <2>4
      <3>5. /\ Top'.state = "T_CUE" /\ Above' = stack[2] /\ LinePending' /\ InBody' /\ TheCue' = TheCue
        BY <1>1, <1>2, <2>1, <3>4 DEF Top, Above, LinePending, InBody, TheCue
      <3>6. Reads(Reader, Reader', Left)
        BY <1>3, <3>2, ReadLineIs
      <3>7. Reader'.cues = Reader.cues /\ Understood(Left, TheCue, Reader')
        <4>1. CASE FirstLine
          BY <2>2, <3>6, <4>1 DEF FirstLine, Reads, ReadsBody, Understood
        <4>2. CASE SecondLine
          BY <3>6, <4>2 DEF SecondLine, Reads, ReadsId, Understood
        <4> QED BY <1>4, <4>1, <4>2
      <3>8. Fit'
        BY <1>4, <1>5, <3>7 DEF Fit, Fits, Lenient
      <3>9. LineToLookAt'
        BY <1>1, <1>2, <1>4, <3>2, <3>4, <3>5, <3>7, <3>8 DEF LineToLookAt
      <3> QED BY <3>3, <3>9 DEF Following
    <2> QED BY <2>3, <2>4
  <1> QED BY <1>7, <1>8, <1>9

\* What a line says to the parser, and to the reader.
TellsAll(l, c, q, r) ==
  /\ r.mode = "M_CUETEXT" => /\ q.phase = "text" /\ q.cue = AsSeen(r.cue) /\ r.status = "SUCCESS"
                             /\ ~r.again /\ r.cue.time # "none"
  /\ r.mode = "M_SKIP_CUE" => /\ q.phase \in {"text", "skip"} /\ (Lenient => q.phase = "skip")
                              /\ r.status = "SUCCESS" /\ ~r.again
  /\ r.again => /\ q.phase = "id" /\ r.cue.haveId /\ q.cue.id = r.cue.id
                /\ r.mode = "M_WEBVTT" /\ r.status = "SUCCESS"
  /\ r.mode = "M_WEBVTT" /\ ~r.again =>
       /\ r.status = "PARSE_ERROR"
       /\ Lenient => TimingKind(l) = "NOSEP" /\ q.phase = "skip"
  /\ r.cue.body = << >> /\ r.mode \in Modes

\* A timing line says the same to the parser and to the reader,
LEMMA TimingsTell ==
  ASSUME NEW c \in Cue, c.body = << >>, NEW l \in Text, NEW q \in Readings, NEW die \in Dies,
         Starts(q, c.id, l), ~MayFail
  PROVE  TellsAll(l, c, q, TimingsLine(c, l, die))
  <1> DEFINE k == TimingKind(l)
             dead == Report(TimingReports(k), die).dead
             s == IF dead THEN TimingDeadStatus(k) ELSE TimingStatus(k)
             r == TimingsLine(c, l, die)
  <1>1. /\ r.cue = (IF s = "SUCCESS" THEN [c EXCEPT !.time = k] ELSE c)
        /\ r.mode = (CASE s = "SUCCESS" -> "M_CUETEXT"
                       [] s = "BAD_CUE" -> "M_SKIP_CUE"
                       [] OTHER         -> "M_WEBVTT")
        /\ r.status = (IF s = "PARSE_ERROR" THEN s ELSE "SUCCESS") /\ (r.again <=> FALSE)
    BY DEF TimingsLine
  <1>2. k \in TimingSymbols \cup {"BAD"}
    BY TimingKindIs
  <1>3. dead => ~Lenient
    BY NothingRefused DEF Lenient
  <1>4. IF TimingStatus(k) = "SUCCESS"
        THEN q.phase = "text" /\ q.cue = [id |-> c.id, time |-> k, body |-> << >>]
        ELSE q.phase = "skip"
    BY DEF Starts
  <1> HIDE DEF r, dead, k
  <1>5. ASSUME s = "SUCCESS" PROVE TellsAll(l, c, q, r)
    <2>1. ~dead /\ TimingStatus(k) = "SUCCESS"
      BY <1>5 DEF TimingDeadStatus
    <2>2. /\ r.cue = [c EXCEPT !.time = k] /\ r.mode = "M_CUETEXT" /\ r.status = "SUCCESS"
          /\ ~r.again
      BY <1>1, <1>5
    <2>3. r.cue.id = c.id /\ r.cue.time = k /\ r.cue.body = << >>
      BY <2>2 DEF Cue
    <2>4. q.cue = AsSeen(r.cue)
      BY <1>4, <2>1, <2>3 DEF AsSeen
    <2>5. k # "none"
      BY <1>2 DEF TimingSymbols
    <2> QED BY <1>4, <2>1, <2>2, <2>3, <2>4, <2>5 DEF TellsAll, Modes
  <1>6. ASSUME s = "BAD_CUE" PROVE TellsAll(l, c, q, r)
    <2>1. r.cue = c /\ r.mode = "M_SKIP_CUE" /\ r.status = "SUCCESS" /\ ~r.again
      BY <1>1, <1>6
    <2>2. q.phase \in {"text", "skip"} /\ (Lenient => q.phase = "skip")
      BY <1>3, <1>4, <1>6
    <2> QED BY <2>1, <2>2 DEF TellsAll, Modes
  <1>7. ASSUME s \notin {"SUCCESS", "BAD_CUE"} PROVE TellsAll(l, c, q, r)
    <2>1. s = "PARSE_ERROR"
      BY <1>7 DEF TimingStatus, TimingDeadStatus
    <2>2. r.cue = c /\ r.mode = "M_WEBVTT" /\ r.status = "PARSE_ERROR" /\ ~r.again
      BY <1>1, <2>1
    <2>3. Lenient => TimingStatus(k) = "PARSE_ERROR" /\ q.phase = "skip"
      BY <1>3, <1>4, <2>1
    <2>4. TimingStatus(k) = "PARSE_ERROR" => k = "NOSEP"
      BY DEF TimingStatus
    <2> QED BY <2>2, <2>3, <2>4 DEF TellsAll, Modes, k
  <1>8. TellsAll(l, c, q, r)
    BY <1>5, <1>6, <1>7
  <1> QED BY <1>8 DEF r

\* and so does any line of a cue that was understood so far.
LEMMA LineTells ==
  ASSUME NEW c \in Cue, c.body = << >>, NEW f \in Frame, f.type = "V_TEXT", NEW q \in Readings,
         NEW die \in Dies, NEW fails \in Failing, ~MayFail,
         Understood(f.text, c, q)
  PROVE  TellsAll(f.text, c, q, ProcCueLine(c, f, die, fails))
  <1> DEFINE l == f.text
             r == ProcCueLine(c, f, die, fails)
  <1>1. l \in Text /\ fails = FALSE
    BY NothingRefused DEF Frame, Text, Failing
  <1>2. CASE HasArrow(l)
    <2>1. r = TimingsLine(c, l, die)
      BY <1>2 DEF ProcCueLine
    <2>2. Starts(q, c.id, l)
      BY <1>2, NoArrowInEmpty DEF Understood
    <2> QED BY <1>1, <2>1, <2>2, TimingsTell
  <1>3. CASE ~HasArrow(l) /\ c.haveId
    <2>1. r = SecondIdLine(c, die)
      BY <1>3 DEF ProcCueLine
    <2> DEFINE dead == Report(<<"CUE_INCOMPLETE">>, die).dead
    <2>2. /\ r.cue = c /\ r.mode = (IF dead THEN "M_WEBVTT" ELSE "M_SKIP_CUE")
          /\ r.status = (IF dead THEN "PARSE_ERROR" ELSE "SUCCESS") /\ (r.again <=> FALSE)
      BY <2>1 DEF SecondIdLine
    <2>3. dead => ~Lenient
      BY NothingRefused DEF Lenient
    <2> HIDE DEF r, dead, l
    <2>4. TellsAll(l, c, q, r)
      BY <1>3, <2>2, <2>3 DEF TellsAll, Modes, Understood, l
    <2> QED BY <2>4 DEF l, r
  <1>4. CASE ~HasArrow(l) /\ ~c.haveId
    <2>1. r = IdLine(c, l)
      BY <1>1, <1>4 DEF ProcCueLine
    <2>2. /\ r.cue = [c EXCEPT !.id = l, !.haveId = TRUE] /\ r.mode = "M_WEBVTT"
          /\ r.status = "SUCCESS" /\ (r.again <=> TRUE)
      BY <2>1 DEF IdLine
    <2>3. q.phase = "id" /\ q.cue.id = l
      BY <1>4 DEF Understood
    <2> HIDE DEF r, l
    <2>4. r.cue.id = l /\ r.cue.haveId /\ r.cue.body = << >>
      BY <2>2 DEF Cue
    <2>5. TellsAll(l, c, q, r)
      BY <2>2, <2>3, <2>4 DEF TellsAll, Modes
    <2> QED BY <2>5 DEF l, r
  <1> QED BY <1>2, <1>3, <1>4

\* What the parser has in its place when it looked at a line of a cue.
LEMMA CueLineGoes ==
  ASSUME Sound, Going, LineToLookAt, Separated(doc) => TextsSeparated,
         NEW die \in Dies, NEW fails \in Failing, CueLine(die, fails)
  PROVE  Over' \/ (Going' /\ Following')
  <1> DEFINE k == stack[1].cue
             f == stack[2]
             c == TheCue
             r == ProcCueLine(c, f, die, fails)
             g == Vacate(f)
             stk == [stack EXCEPT ![2] = g]
  <1>1. /\ stack \in [Depth -> Frame] /\ f \in Frame /\ stack[0].state = "T_BODY"
        /\ stack[1].state = "T_CUE" /\ f.type = "V_TEXT" /\ f.state = "T_CUEREAD"
        /\ k \in DOMAIN cues /\ cues \in Seq(Cue) /\ c \in Cue /\ top = 1 /\ Top = stack[1]
        /\ Above = f
    BY CueFrame
  <1>2. /\ Fit /\ c.body = << >> /\ tk = "none" /\ tstate = "L_START" /\ Left = << >>
        /\ Understood(f.text, c, Reader)
    BY <1>1 DEF LineToLookAt
  <1>3. 1 + 1 = 2
    OBVIOUS
  <1>4. /\ cues' = [cues EXCEPT ![k] = r.cue] /\ stack' = AfterLine(stk, 1, r)
        /\ top' = (IF r.again THEN 2 ELSE 1) /\ mode' = r.mode /\ status' = r.status
        /\ (r.mode = "M_WEBVTT" => popped' = FALSE /\ token' = << >>)
        /\ UNCHANGED <<pos, lim, call, ret, tstate, tk, delivered, finished, lineBuf>>
        /\ call = "chunk" /\ doc' = doc /\ mode = "M_WEBVTT"
    <2> HIDE DEF r
    <2>1. c = cues[Top.cue] /\ k = Top.cue
      BY <1>1 DEF TheCue
    <2> QED BY <1>1, <1>3, <2>1 DEF CueLine, Turn, input, r
  <1>5. Reader \in Readings /\ ~MayFail /\ ReturnSeen
    BY Where DEF Sound, Going
  <1>6. TellsAll(f.text, c, Reader, r)
    BY <1>1, <1>2, <1>5, LineTells
  <1>7. Reader' = Reader /\ Left' = Left /\ ReturnSeen'
    BY <1>4, <1>5, StaysThere
  <1>8. Contents' = Contents
    BY <1>4, HandsNothing
  <1>9. Fits(Contents', Reader'.cues)
    BY <1>2, <1>4, <1>7, <1>8 DEF Fit, Fits, Lenient
  <1>10. lineBuf' = << >> /\ LastLine' = << >> /\ ~Marked' /\ tk' = "none" /\ tstate' = "L_START"
    BY <1>2, <1>4 DEF Going, LastLine, Marked
  <1> HIDE DEF r, c
  <1>11. cues'[k] = r.cue
    BY <1>1, <1>4
  <1>12. g.state = "T_CUEREAD" /\ g \in Frame
    BY <1>1, EmptySeq DEF Vacate, ClearValue, Frame, Types
  <1> HIDE DEF g
  <1>13. CASE ~r.again
    <2>1. stack' = stk /\ top' = 1
      BY <1>4, <1>13 DEF AfterLine
    <2>2. stack'[0] = stack[0] /\ stack'[1] = stack[1] /\ stack'[2] = g
      BY <1>1, <2>1 DEF Depth
    <2>3. InBody' /\ TheCue' = r.cue /\ Top'.state = "T_CUE"
      BY <1>1, <1>11, <2>1, <2>2 DEF InBody, TheCue, Top
    <2>4. CASE r.mode = "M_CUETEXT"
      <3>1. status' = "SUCCESS" /\ mode' = "M_CUETEXT"
        BY <1>4, <1>6, <2>4 DEF TellsAll
      <3>2. Going'
        BY <1>4, <1>7, <1>10, <3>1, GoesOn
      <3>3. Reader'.phase = "text" /\ Reader'.cue = AsSeen(r.cue)
        BY <1>6, <1>7, <2>4 DEF TellsAll
      <3>4. Follows(Reader)'
        BY <1>9, <2>3, <3>3 DEF Follows
      <3>5. InCueText'
        BY <1>2, <1>7, <1>10, <2>3, <3>1, <3>4 DEF InCueText
      <3> QED BY <3>2, <3>5 DEF Following
    <2>5. CASE r.mode = "M_SKIP_CUE"
      <3>1. status' = "SUCCESS" /\ mode' = "M_SKIP_CUE"
        BY <1>4, <1>6, <2>5 DEF TellsAll
      <3>2. Going'
        BY <1>4, <1>7, <1>10, <3>1, GoesOn
      <3>3. Reader'.phase \in {"text", "skip"} /\ (Lenient => Reader'.phase = "skip")
        BY <1>6, <1>7, <2>5 DEF TellsAll
      <3>4. Fit'
        BY <1>9 DEF Fit
      <3>5. InSkipped'
        BY <1>2, <1>7, <1>10, <2>3, <3>1, <3>3, <3>4 DEF InSkipped, Lenient
      <3> QED BY <3>2, <3>5 DEF Following
    <2>6. CASE r.mode = "M_WEBVTT"
      <3>1. status' = "PARSE_ERROR" /\ mode' = "M_WEBVTT" /\ popped' = FALSE
            /\ (Lenient => TimingKind(f.text) = "NOSEP")
        BY <1>4, <1>6, <1>13, <2>6 DEF TellsAll
      <3>2. Halted'
        BY <1>4, <2>1, <2>3, <3>1 DEF Halted, NoLine, LinePending
      <3>3. ~Faultless
        <4>1. SUFFICES ASSUME Faultless PROVE FALSE
          OBVIOUS
        <4>2. Separated(f.text) /\ f.text \in Seq(Symbols)
          BY <1>1, <4>1 DEF Faultless, TextsSeparated, Depth, Frame
        <4> QED BY <3>1, <4>1, <4>2, TimingsSeparated DEF Faultless
      <3> QED BY <1>4, <3>2, <3>3, Stops DEF Following
    <2> QED BY <1>6, <2>4, <2>5, <2>6 DEF TellsAll, Modes
  <1>14. CASE r.again
    <2> DEFINE h == NewFrame("T_CUEREAD", "V_TEXT", stk[1].back + 1)
    <2>1. /\ mode' = "M_WEBVTT" /\ status' = "SUCCESS" /\ Reader.phase = "id" /\ r.cue.haveId
          /\ Reader.cue.id = r.cue.id /\ r.cue.body = << >>
      BY <1>4, <1>6, <1>14 DEF TellsAll
    <2>2. stack' = [stk EXCEPT ![2] = h] /\ top' = 2
      BY <1>3, <1>4, <1>14 DEF AfterLine
    <2>3. h.state = "T_CUEREAD" /\ h.text = << >> /\ h.flags = 0
      BY DEF NewFrame
    <2> HIDE DEF h
    <2>4. stack'[0] = stack[0] /\ stack'[1] = stack[1] /\ stack'[2] = h
      BY <1>1, <2>2 DEF Depth
    <2>5. InBody' /\ TheCue' = r.cue /\ Top' = h
      BY <1>1, <1>11, <2>2, <2>4 DEF InBody, TheCue, Top
    <2>6. Going'
      BY <1>4, <1>7, <1>10, <2>1, GoesOn
    <2>7. Fit' /\ SecondLine'
      BY <1>7, <1>9, <2>1, <2>5 DEF Fit, SecondLine
    <2>8. InFirstLines'
      BY <1>2, <1>7, <1>10, <2>1, <2>2, <2>3, <2>5, <2>7 DEF InFirstLines
    <2> QED BY <2>6, <2>8 DEF Following
  <1> QED BY <1>13, <1>14

\* Who takes a turn.
LEMMA TurnGoes ==
  ASSUME Sound, Going, Following, Separated(doc) => TextsSeparated, TurnStep
  PROVE  Over' \/ (Going' /\ Following')
  <1>1. CASE Lex
    <2>1. mode = "M_WEBVTT" /\ ~InFirstLines /\ ~LineToLookAt
      BY <1>1 DEF Lex, Turn, InFirstLines, LineToLookAt
    <2>2. InInitial \/ InTag \/ Between
      BY <2>1 DEF Following, InCueText, InSkipped
    <2> QED BY <1>1, <2>2, LexInitial, LexTag, LexBetween DEF Following
  <1>2. CASE CueReadText \/ CueReadEol \/ CueReadNewline
    <2>1. mode = "M_WEBVTT" /\ Top.state = "T_CUEREAD"
      BY <1>2 DEF CueReadText, CueReadEol, CueReadNewline, Turn
    <2>2. InFirstLines
      BY <2>1 DEF Following, InInitial, InTag, Between, InBody, LineToLookAt, InCueText, InSkipped, Top
    <2> QED BY <1>2, <2>2, CueReadGoes
  <1>3. ASSUME NEW die \in Dies, NEW fails \in Failing, CueLine(die, fails)
        PROVE  Over' \/ (Going' /\ Following')
    <2>1. mode = "M_WEBVTT" /\ Top.state = "T_CUE"
      BY <1>3 DEF CueLine, Turn
    <2>2. LineToLookAt
      BY <2>1 DEF Following, InInitial, InTag, Between, InBody, InFirstLines, InCueText, InSkipped, Top
    <2> QED BY <1>3, <2>2, CueLineGoes
  <1>4. CASE CueMissing
    <2>1. mode = "M_WEBVTT" /\ Top.state = "T_CUE" /\ Top.cue = 0
      BY <1>4 DEF CueMissing, Turn
    <2>2. LineToLookAt
      BY <2>1 DEF Following, InInitial, InTag, Between, InBody, InFirstLines, InCueText, InSkipped, Top
    <2> QED BY <2>1, <2>2, CueFrame
  <1>5. ASSUME NEW die \in Dies, CueReadStarved(die) PROVE FALSE
    BY <1>5 DEF CueReadStarved, Sound
  <1> QED BY <1>1, <1>2, <1>3, <1>4, <1>5 DEF TurnStep

-----------------------------------------------------------------------------
(* The text of a cue.                                                      *)

\* What closing a cue hands over is what a reader has when it ends the text.
LEMMA Closed ==
  ASSUME Sound, Live, mode # "M_WEBVTT", NEW c \in Cue, NEW above, CloseCue(c, above),
         NEW r \in Readings, Fits(Contents, r.cues),
         mode = "M_CUETEXT" => r.phase = "text" /\ r.cue = AsSeen(c),
         mode = "M_SKIP_CUE" => r.phase \in {"text", "skip"} /\ (Lenient => r.phase = "skip")
  PROVE  Fits(Contents', Emit(r).cues)
  <1> DEFINE k == stack[1].cue
             o == NewOwner(c)
             d == [c EXCEPT !.owner = o]
             done == [cues EXCEPT ![k] = d]
  <1>1. /\ top = 1 /\ Top = stack[1] /\ k \in DOMAIN cues /\ cues \in Seq(Cue) /\ Top.cue = k
        /\ ~MayFail
    BY HeldCue DEF Sound
  <1>2. delivered' = (IF o = "application" THEN Append(delivered, k) ELSE delivered)
    BY <1>1 DEF CloseCue
  <1>3. cues' = done \/ cues' = Append(done, NewCue)
    BY <1>1 DEF CloseCue
  <1>4. d \in Cue /\ AsSeen(d) = AsSeen(c)
    BY DEF NewOwner, Cue, Owners, AsSeen
  <1> HIDE DEF d
  <1>5. cues'[k] = d
    <2>1. done \in Seq(Cue) /\ done[k] = d /\ k \in 1 .. Len(done)
      BY <1>1, <1>4
    <2>2. NewCue \in Cue
      BY NewCueType
    <2> HIDE DEF done
    <2> QED BY <1>3, <2>1, <2>2
  <1>6. Emit(r).cues = (IF r.phase = "text" /\ ValidTimes(r.cue.time)
                        THEN Append(r.cues, r.cue) ELSE r.cues)
        /\ r.cues \in Seq(Seen) /\ r.cue \in Seen
    BY EmitIs DEF Readings
  <1>7. Contents \in Seq(Seen)
    BY ContentsType DEF Sound
  <1>8. Lenient' <=> Lenient
    BY DEF Lenient
  <1>9. CASE o = "application"
    <2>1. mode = "M_CUETEXT" /\ ValidTimes(c.time)
      BY <1>9 DEF NewOwner
    <2>2. r.phase = "text" /\ r.cue = AsSeen(c) /\ r.cue.time = c.time
      BY <2>1 DEF AsSeen
    <2>3. Emit(r).cues = Append(r.cues, AsSeen(c))
      BY <1>6, <2>1, <2>2
    <2>4. k \in Nat /\ delivered' = Append(delivered, k)
      BY <1>1, <1>2, <1>9
    <2>5. Contents' = Append(Contents, AsSeen(c)) /\ AsSeen(c) \in Seen
      BY <1>4, <1>5, <2>4, HandsOne
    <2>6. Fits(Append(Contents, AsSeen(c)), Append(r.cues, AsSeen(c)))
      BY <1>6, <1>7, <2>5, FitsSame
    <2> QED BY <2>3, <2>5, <2>6
  <1>10. CASE o # "application"
    <2>1. Contents' = Contents
      BY <1>2, <1>10, HandsNothing
    <2>2. CASE r.phase = "text" /\ ValidTimes(r.cue.time)
      <3>1. mode # "M_CUETEXT"
        BY <1>10, <2>2 DEF NewOwner, AsSeen
      <3>2. ~Lenient
        BY <2>2, <3>1 DEF Sound, IInv, TypeOK, Modes
      <3>3. Fits(Contents, Append(r.cues, r.cue))
        BY <1>6, <1>7, <3>2, FitsSame
      <3> QED BY <1>6, <2>1, <2>2, <3>3
    <2>3. CASE ~(r.phase = "text" /\ ValidTimes(r.cue.time))
      BY <1>6, <2>1, <2>3
    <2> QED BY <2>2, <2>3
  <1> QED BY <1>9, <1>10

\* The line buffer without its mark.
LEMMA BufferParts ==
  ASSUME IInv
  PROVE  /\ LastLine \in Text
         /\ ~Marked => LastLine = lineBuf
         /\ Marked => LastLine = Front(lineBuf)
         /\ ~Marked => \A s \in Symbols : /\ ~(Last(Append(lineBuf, s)) = Mark)
                                          /\ Append(lineBuf, s) # << >>
         /\ ~Marked => /\ Append(lineBuf, Mark) # << >> /\ Last(Append(lineBuf, Mark)) = Mark
                       /\ Front(Append(lineBuf, Mark)) = lineBuf
  <1>1. ~Marked => lineBuf \in Seq(Symbols)
    BY LineBufText
  <1>2. LastLine \in Text
    BY <1>1, LineBufText DEF LastLine, Text
  <1>3. Mark \notin Symbols
    BY DEF Mark, Symbols, TimingSymbols
  <1>4. ASSUME ~Marked, NEW s \in Symbols PROVE ~(Last(Append(lineBuf, s)) = Mark) /\ Append(lineBuf, s) # << >>
    <2> DEFINE b == Append(lineBuf, s)
    <2>1. b \in Seq(Symbols) /\ Len(b) = Len(lineBuf) + 1 /\ b[Len(lineBuf) + 1] = s /\ Len(lineBuf) \in Nat
      BY <1>1, <1>4, AppendParts
    <2> HIDE DEF b
    <2>2. Last(b) = s /\ b # << >>
      BY <2>1 DEF Last
    <2> QED BY <1>3, <2>2 DEF b
  <1>5. ASSUME ~Marked
        PROVE  /\ Append(lineBuf, Mark) # << >> /\ Last(Append(lineBuf, Mark)) = Mark
               /\ Front(Append(lineBuf, Mark)) = lineBuf
    <2> DEFINE b == Append(lineBuf, Mark)
               S == Symbols \cup {Mark}
               n == Len(lineBuf)
    <2>1. lineBuf \in Seq(S)
      BY DEF IInv, TypeOK
    <2> HIDE DEF S
    <2>2. Mark \in S
      BY DEF S
    <2>3. b \in Seq(S) /\ Len(b) = n + 1 /\ b[n + 1] = Mark /\ n \in Nat
          /\ \A i \in 1 .. n : b[i] = lineBuf[i]
      BY <2>1, <2>2, AppendParts
    <2> HIDE DEF b
    <2>4. Last(b) = Mark /\ b # << >>
      BY <2>3 DEF Last
    <2>5. Front(b) \in Seq(S) /\ Len(Front(b)) = n /\ \A i \in 1 .. n : Front(b)[i] = b[i]
      BY <2>3 DEF Front
    <2>6. Front(b) = lineBuf
      BY <2>1, <2>3, <2>5, SameSequence
    <2> QED BY <2>4, <2>6 DEF b
  <1> QED BY <1>2, <1>4, <1>5 DEF LastLine

\* In the text of a cue, good or bad, before the parser finishes.
InTextOf ==
  /\ mode = "M_CUETEXT" => InCueText
  /\ mode = "M_SKIP_CUE" => InSkipped

\* The cue once the line is in its text.
Grown(l) == IF IsText(l) THEN WithLine(TheCue, l) ELSE TheCue

\* What is known in the text of a cue,
LEMMA TextHolds ==
  ASSUME Sound, Going, Following, mode # "M_WEBVTT"
  PROVE  /\ mode \in {"M_CUETEXT", "M_SKIP_CUE"} /\ InTextOf /\ InBody /\ Live
         /\ mode = "M_CUETEXT" => InCueText
         /\ mode = "M_SKIP_CUE" => InSkipped
  <1>1. mode \in {"M_CUETEXT", "M_SKIP_CUE"}
    BY DEF Sound, IInv, TypeOK, Modes
  <1>2. InCueText \/ InSkipped
    BY DEF Following, InInitial, InTag, Between, InFirstLines, LineToLookAt
  <1> QED BY <1>1, <1>2 DEF InTextOf, InCueText, InSkipped, Going, Live

\* while a line of it is read.
LEMMA TextReads ==
  ASSUME Sound, Going, Following, InText
  PROVE  /\ call = "chunk" /\ mode \in {"M_CUETEXT", "M_SKIP_CUE"} /\ More /\ InBody /\ Live
         /\ Left = LastLine /\ (~Marked => tstate = "L_START") /\ tk = "none"
         /\ Fits(Contents, Reader.cues)
         /\ mode = "M_CUETEXT" => Reader.phase = "text" /\ Reader.cue = AsSeen(TheCue)
         /\ mode = "M_SKIP_CUE" => /\ Reader.phase \in {"text", "skip"}
                                   /\ (Lenient => Reader.phase = "skip")
  BY TextHolds DEF InText, Going, InCueText, InSkipped, Follows, Fit

\* A line that goes on.
LEMMA TextStays ==
  ASSUME Sound, Going, Following, InText, delivered' = delivered, tk' = tk, UNCHANGED <<call, finished, mode>>,
         status' \in {"SUCCESS", "UNFINISHED"}, ReturnSeen', InBody',
         Left' = LastLine', ~Marked' => tstate' = "L_START",
         Reader'.phase = Reader.phase, Reader'.cues = Reader.cues,
         mode = "M_CUETEXT" => Reader'.cue = AsSeen(TheCue')
  PROVE  Going' /\ Following'
  <1>1. /\ call = "chunk" /\ mode \in {"M_CUETEXT", "M_SKIP_CUE"} /\ tk = "none"
        /\ Fits(Contents, Reader.cues)
        /\ mode = "M_CUETEXT" => Reader.phase = "text"
        /\ mode = "M_SKIP_CUE" => /\ Reader.phase \in {"text", "skip"}
                                  /\ (Lenient => Reader.phase = "skip")
    BY TextReads
  <1>2. Contents' = Contents
    BY HandsNothing
  <1>3. Fit'
    BY <1>1, <1>2 DEF Fit, Fits, Lenient
  <1>4. Going'
    BY <1>1, GoesOn
  <1>5. mode = "M_CUETEXT" => InCueText'
    <2>1. mode = "M_CUETEXT" => Follows(Reader)'
      BY <1>1, <1>3 DEF Follows, Fit
    <2> QED BY <2>1 DEF InCueText
  <1>6. mode = "M_SKIP_CUE" => InSkipped'
    BY <1>1, <1>3 DEF InSkipped, Lenient
  <1> QED BY <1>1, <1>4, <1>5, <1>6 DEF Following

\* Reading a symbol of a line of text.
LEMMA TextReadGoes ==
  ASSUME Sound, Going, Following, TextRead \/ TextCarriageReturn PROVE Going' /\ Following'
  <1>1. /\ InText /\ UNCHANGED <<call, finished, mode, delivered, tk, cues, stack>> /\ doc' = doc
        /\ status' = "UNFINISHED"
    BY DEF TextRead, TextCarriageReturn, lexer, frames, outcome, heap
  <1>2. InBody' /\ TheCue' = TheCue
    BY <1>1, TextReads DEF InBody, TheCue
  <1>3. /\ More /\ Left = LastLine /\ (~Marked => tstate = "L_START") /\ IInv /\ ReturnSeen
        /\ mode = "M_CUETEXT" => Reader.cue = AsSeen(TheCue)
    BY <1>1, TextReads DEF Going, Sound
  <1>4. Sym \in Symbols
    BY <1>3, Where
  <1>5. CASE TextRead /\ IsEol(Sym)
    <2>1. lineBuf' = Append(lineBuf, Mark) /\ pos' = pos /\ tstate' = tstate /\ ~Marked
      BY <1>5 DEF TextRead, lexer
    <2>2. Marked' /\ LastLine' = lineBuf /\ LastLine = lineBuf
      BY <1>3, <2>1, BufferParts DEF Marked, LastLine
    <2>3. Reader' = Reader /\ Left' = Left /\ ReturnSeen'
      BY <1>1, <1>3, <2>1, StaysThere
    <2> QED BY <1>1, <1>2, <1>3, <2>2, <2>3, TextStays
  <1>6. CASE TextRead /\ ~IsEol(Sym)
    <2>1. lineBuf' = Append(lineBuf, Sym) /\ pos' = pos + 1 /\ tstate' = tstate /\ ~Marked
      BY <1>6 DEF TextRead, lexer
    <2>2. ~Marked' /\ LastLine' = lineBuf' /\ LastLine = lineBuf
      BY <1>3, <1>4, <2>1, BufferParts DEF Marked, LastLine
    <2>3. Reader' = Reader /\ Left' = Append(Left, Sym) /\ ReturnSeen'
      BY <1>1, <1>3, <1>6, <2>1, UsesText
    <2> QED BY <1>1, <1>2, <1>3, <2>1, <2>2, <2>3, TextStays
  <1>7. CASE TextCarriageReturn
    <2> DEFINE x == LexedNewline(tstate, Sym)
    <2>1. /\ Marked /\ x.token = "none" /\ Consume(x) /\ lineBuf' = lineBuf
      BY <1>7 DEF TextCarriageReturn
    <2>2. x = Step("none", "L_NEWLINE0", TRUE) /\ Sym = "CR" /\ tstate = "L_START"
      BY <2>1 DEF LexedNewline, Step
    <2>3. pos' = pos + 1 /\ tstate' = "L_NEWLINE0"
      BY <2>1, <2>2 DEF Consume, Step
    <2>4. Reader' = Reader /\ Left' = Left /\ ReturnSeen'
      BY <1>1, <1>3, <2>2, <2>3, UsesReturn
    <2>5. Marked' /\ LastLine' = LastLine
      BY <2>1 DEF Marked, LastLine
    <2> QED BY <1>1, <1>2, <1>3, <2>4, <2>5, TextStays
  <1> QED BY <1>5, <1>6, <1>7

\* The text of a cue has one more line.
LEMMA AddsLine ==
  ASSUME NEW c \in Cue, NEW l \in Text
  PROVE  /\ WithLine(c, l) \in Cue
         /\ AsSeen(WithLine(c, l)) = [AsSeen(c) EXCEPT !.body = Append(@, l)]
  <1>1. Append(c.body, l) \in Seq(Seq(Symbols))
    BY DEF Cue, Text
  <1>2. WithLine(c, l) = [c EXCEPT !.body = Append(c.body, l)]
    BY DEF WithLine
  <1>3. /\ WithLine(c, l) \in Cue /\ WithLine(c, l).id = c.id /\ WithLine(c, l).time = c.time
        /\ WithLine(c, l).body = Append(c.body, l)
    BY <1>1, <1>2 DEF Cue
  <1> DEFINE w == WithLine(c, l)
             a == AsSeen(c)
             b == Append(c.body, l)
  <1> HIDE DEF b
  <1>4. AsSeen(w) = [id |-> c.id, time |-> c.time, body |-> b]
    BY <1>3 DEF AsSeen, b
  <1>5. [a EXCEPT !.body = Append(a.body, l)] = [id |-> c.id, time |-> c.time, body |-> b]
    <2>1. a = [id |-> c.id, time |-> c.time, body |-> c.body] /\ a.body = c.body
      BY DEF AsSeen
    <2>2. b = Append(a.body, l)
      BY <2>1 DEF b
    <2> HIDE DEF a
    <2>3. [a EXCEPT !.body = b] = [id |-> c.id, time |-> c.time, body |-> b]
      BY <2>1
    <2> QED BY <2>2, <2>3
  <1> QED BY <1>3, <1>4, <1>5 DEF b

\* What the end of a line of text does.
LEMMA TextLineEnds ==
  ASSUME Sound, Live, mode # "M_WEBVTT", NEW l \in Text, NEW closed \in BOOLEAN, NEW n,
         EndTextLine(l, closed, n)
  PROVE  /\ Grown(l) \in Cue /\ lineBuf' = << >> /\ token' = << >>
         /\ closed => CloseCue(Grown(l), IF HasArrow(l)
                                         THEN WithText(NewFrame("T_CUEREAD", "V_TEXT", 0), l)
                                         ELSE Above)
         /\ ~closed => /\ cues' = [cues EXCEPT ![stack[1].cue] = Grown(l)]
                       /\ UNCHANGED <<delivered, mode, stack>>
  <1> DEFINE c == Grown(l)
  <1>1. TheCue = cues[Top.cue] /\ TheCue \in Cue /\ Top.cue = stack[1].cue /\ ~MayFail
    BY HeldCue DEF TheCue, Sound
  <1>2. c \in Cue
    BY <1>1, AddsLine DEF Grown
  <1>3. Longer(cues[Top.cue], l) = {c}
    BY <1>1 DEF Longer, Grown
  <1>4. /\ lineBuf' = << >> /\ token' = << >>
        /\ IF closed
           THEN CloseCue(c, IF HasArrow(l) THEN WithText(NewFrame("T_CUEREAD", "V_TEXT", 0), l) ELSE Above)
           ELSE /\ cues' = [cues EXCEPT ![stack[1].cue] = c]
                /\ UNCHANGED <<delivered, mode, frames>>
    BY <1>1, <1>3 DEF EndTextLine
  <1> QED BY <1>2, <1>4 DEF frames

\* The frame a line waits in for the next cue.
WaitingLine(l) == WithText(NewFrame("T_CUEREAD", "V_TEXT", 0), l)

\* A line that waits is a text to be read.
LEMMA WaitingLineIs ==
  ASSUME NEW l
  PROVE  /\ WaitingLine(l).type = "V_TEXT" /\ WaitingLine(l).state = "T_CUEREAD"
         /\ WaitingLine(l).text = l
  BY DEF WaitingLine, WithText, NewFrame

\* What is on the stack once the text of a cue is closed.
LEMMA ClosedFrames ==
  ASSUME Sound, Live, InBody, mode # "M_WEBVTT", NEW c \in Cue, NEW above, CloseCue(c, above)
  PROVE  /\ InBody' /\ mode' = "M_WEBVTT"
         /\ above.type = "V_NONE" => top' = 0 /\ ~LinePending'
         /\ above.type # "V_NONE" => /\ top' = 1 /\ Top'.state = "T_CUE" /\ Above' = above
                                     /\ popped' /\ TheCue' = NewCue
  <1> DEFINE k == stack[1].cue
             done == [cues EXCEPT ![k] = [c EXCEPT !.owner = NewOwner(c)]]
  <1>1. /\ top = 1 /\ Top = stack[1] /\ stack \in [0..2 -> Frame] /\ stack[1] \in Frame
        /\ stack[1].state = "T_CUE" /\ k \in DOMAIN cues /\ cues \in Seq(Cue) /\ ~MayFail
        /\ Top.cue = k /\ stack[2] \in Frame
    BY HeldCue DEF Sound
  <1>2. 1 + 1 = 2 /\ 1 - 1 = 0 /\ 0 + 1 = 1
    OBVIOUS
  <1>3. CASE above.type = "V_NONE"
    <2>1. /\ stack' = [stack EXCEPT ![1] = InState(Vacate(@), "T_INITIAL"),
                                    ![2] = InState(@, "T_INITIAL")]
          /\ top' = 0 /\ mode' = "M_WEBVTT"
      BY <1>1, <1>2, <1>3 DEF CloseCue
    <2>2. stack'[0] = stack[0] /\ stack'[1] = InState(Vacate(stack[1]), "T_INITIAL")
      BY <1>1, <2>1
    <2>3. InState(Vacate(stack[1]), "T_INITIAL").state = "T_INITIAL"
      BY <1>1 DEF InState, Vacate, ClearValue, Frame
    <2>4. Above'.state = "T_INITIAL"
      BY <1>2, <2>1, <2>2, <2>3 DEF Above
    <2> QED BY <1>3, <2>1, <2>2, <2>4 DEF InBody, LinePending
  <1>4. CASE above.type # "V_NONE"
    <2> DEFINE n == Len(cues) + 1
               f == WithCue(stack[1], n)
    <2>1. /\ cues' = Append(done, NewCue) /\ stack' = [stack EXCEPT ![1] = f, ![2] = above]
          /\ top' = 1 /\ mode' = "M_WEBVTT" /\ popped'
      BY <1>1, <1>2, <1>4 DEF CloseCue, NextCue
    <2>2. f.state = "T_CUE" /\ f.cue = n
      BY <1>1 DEF WithCue, Frame
    <2>3. stack'[0] = stack[0] /\ stack'[1] = f /\ stack'[2] = above
      BY <1>1, <2>1
    <2>4. cues'[n] = NewCue
      <3>1. done \in Seq(Cue) /\ Len(done) = Len(cues) /\ NewCue \in Cue /\ Len(cues) \in Nat
        <4>1. [c EXCEPT !.owner = NewOwner(c)] \in Cue
          BY DEF NewOwner, Cue, Owners
        <4> QED BY <1>1, <4>1, NewCueType
      <3> HIDE DEF done
      <3> QED BY <2>1, <3>1
    <2> HIDE DEF f, n
    <2>5. Top' = f /\ Above' = above /\ TheCue' = NewCue /\ InBody'
      BY <1>2, <2>1, <2>2, <2>3, <2>4 DEF Top, Above, TheCue, InBody
    <2> QED BY <1>4, <2>1, <2>2, <2>5
  <1> QED BY <1>3, <1>4

\* A line of text that has ended.
LEMMA TextNewlineGoes ==
  ASSUME Sound, Going, Following, TextNewline PROVE Going' /\ Following'
  <1> DEFINE l == Front(lineBuf)
             x == LexedNewline(tstate, Sym)
  <1>1. /\ InText /\ Marked /\ x.token = "NEWLINE" /\ Consume(x) /\ mode # "M_WEBVTT" /\ call = "chunk"
        /\ EndTextLine(l, ~IsText(l), strings)
        /\ status' = (IF IsText(l) THEN "UNFINISHED" ELSE "SUCCESS")
        /\ UNCHANGED <<call, tk, finished>> /\ doc' = doc
    BY DEF TextNewline, AtNewline, InText
  <1>2. /\ Live /\ InBody /\ mode \in {"M_CUETEXT", "M_SKIP_CUE"} /\ More
        /\ Left = LastLine /\ tk = "none" /\ Fits(Contents, Reader.cues)
        /\ (mode = "M_CUETEXT" => Reader.phase = "text" /\ Reader.cue = AsSeen(TheCue))
        /\ (mode = "M_SKIP_CUE" => /\ Reader.phase \in {"text", "skip"}
                                   /\ (Lenient => Reader.phase = "skip"))
    BY <1>1, TextReads
  <1>3. l = Left /\ l \in Text /\ IInv /\ ReturnSeen
    BY <1>1, <1>2, BufferParts DEF Sound, Going
  <1>4. Reader \in Readings /\ TheCue \in Cue
    BY <1>1, <1>2, <1>3, Where, HeldCue DEF TheCue
  <1>5. \/ x = Step("NEWLINE", "L_START", TRUE) /\ Sym = "LF" /\ tstate # "L_NEWLINE0"
        \/ x = Step("NEWLINE", "L_START", Sym = "LF") /\ tstate = "L_NEWLINE0"
    BY <1>1 DEF LexedNewline, Step
  <1> HIDE DEF x, l
  <1>6. Reader' = ReadLine(Reader, l) /\ Left' = << >> /\ ReturnSeen' /\ tstate' = "L_START"
    BY <1>1, <1>2, <1>3, <1>5, UsesLine
  <1>7. ReadsText(Reader, Reader', l)
    <2>1. Reads(Reader, Reader', l)
      BY <1>3, <1>4, <1>6, ReadLineIs
    <2> QED BY <1>2, <2>1 DEF Reads
  <1>8. /\ Grown(l) \in Cue /\ lineBuf' = << >> /\ token' = << >>
        /\ ~IsText(l) => CloseCue(Grown(l), IF HasArrow(l) THEN WaitingLine(l) ELSE Above)
        /\ IsText(l) => /\ cues' = [cues EXCEPT ![stack[1].cue] = Grown(l)]
                        /\ UNCHANGED <<delivered, mode, stack>>
    BY <1>1, <1>2, <1>3, TextLineEnds DEF WaitingLine
  <1>9. ~Marked' /\ LastLine' = << >>
    BY <1>8 DEF Marked, LastLine
  <1>10. CASE IsText(l)
    <2>1. /\ cues' = [cues EXCEPT ![stack[1].cue] = WithLine(TheCue, l)]
          /\ UNCHANGED <<delivered, mode, stack>> /\ status' = "UNFINISHED"
      BY <1>1, <1>8, <1>10 DEF Grown
    <2>2. stack[1].cue \in DOMAIN cues /\ cues \in Seq(Cue)
      BY <1>1, <1>2, <1>3, HeldCue
    <2>3. TheCue' = WithLine(TheCue, l) /\ InBody'
      BY <1>2, <2>1, <2>2 DEF TheCue, InBody
    <2>4. AsSeen(TheCue') = [AsSeen(TheCue) EXCEPT !.body = Append(@, l)]
      BY <1>3, <1>4, <2>3, AddsLine
    <2>5. /\ Reader'.phase = Reader.phase /\ Reader'.cues = Reader.cues
          /\ (Reader.phase = "text" => Reader'.cue = [Reader.cue EXCEPT !.body = Append(@, l)])
      BY <1>7, <1>10 DEF ReadsText, IsText
    <2>6. mode = "M_CUETEXT" => Reader'.cue = AsSeen(TheCue')
      BY <1>2, <2>4, <2>5
    <2> QED BY <1>1, <1>6, <1>9, <2>1, <2>3, <2>5, <2>6, TextStays
  <1>11. CASE ~IsText(l)
    <2> DEFINE above == IF HasArrow(l) THEN WaitingLine(l) ELSE Above
    <2>1. /\ CloseCue(TheCue, above) /\ status' = "SUCCESS"
      BY <1>1, <1>8, <1>11 DEF Grown
    <2> HIDE DEF above
    <2>2. /\ InBody' /\ mode' = "M_WEBVTT"
          /\ above.type = "V_NONE" => top' = 0 /\ ~LinePending'
          /\ above.type # "V_NONE" => /\ top' = 1 /\ Top'.state = "T_CUE" /\ Above' = above
                                      /\ popped' /\ TheCue' = NewCue
      BY <1>1, <1>2, <1>4, <2>1, ClosedFrames
    <2>3. Fits(Contents', Emit(Reader).cues)
      BY <1>1, <1>2, <1>4, <2>1, Closed
    <2>4. Reader'.cues = Emit(Reader).cues
      BY <1>7, <1>11 DEF ReadsText, IsText
    <2>5. Fit'
      BY <2>3, <2>4 DEF Fit, Fits, Lenient
    <2>6. Going'
      BY <1>1, <1>2, <1>6, <1>8, <2>1, <2>2, GoesOn
    <2>7. CASE HasArrow(l)
      <3>1. above.type = "V_TEXT" /\ above.state = "T_CUEREAD" /\ above.text = l
        BY <2>7, WaitingLineIs DEF above
      <3>2. /\ top' = 1 /\ Top'.state = "T_CUE" /\ Above' = above /\ LinePending' /\ TheCue' = NewCue
        BY <2>2, <3>1 DEF LinePending
      <3>3. NewCue.id = << >> /\ NewCue.body = << >>
        BY DEF NewCue
      <3>4. Starts(Reader', << >>, l)
        BY <1>7, <2>7 DEF ReadsText
      <3>5. Understood(l, NewCue, Reader')
        BY <2>7, <3>3, <3>4 DEF Understood
      <3>6. LineToLookAt'
        BY <1>1, <1>2, <1>6, <2>2, <2>5, <3>1, <3>2, <3>3, <3>5 DEF LineToLookAt
      <3> QED BY <2>6, <3>6 DEF Following
    <2>8. CASE ~HasArrow(l)
      <3>1. above.type = "V_NONE" /\ l = << >>
        BY <1>1, <1>2, <1>3, <1>11, <2>8, HeldCue DEF above, IsText
      <3>2. Reader'.phase = "body"
        BY <1>7, <3>1 DEF ReadsText
      <3>3. Between'
        BY <1>1, <1>2, <1>6, <1>8, <2>2, <2>5, <3>1, <3>2, NoArrowInEmpty DEF Between
      <3> QED BY <2>6, <3>3 DEF Following
    <2> QED BY <2>7, <2>8
  <1> QED BY <1>10, <1>11

\* Who reads text.
LEMMA TextGoes ==
  ASSUME Sound, Going, Following, TextStep PROVE Going' /\ Following'
  <1>1. ~TextUnparsed /\ ~TextUnseparated /\ \A d \in Dies : ~TextStarved(d)
    BY DEF TextUnparsed, TextUnseparated, TextStarved, NoSeparator, Sound
  <1> QED BY <1>1, TextReadGoes, TextNewlineGoes DEF TextStep

-----------------------------------------------------------------------------
(* The end of the document.                                                *)

\* A reader that is not in the text of a good cue has nothing more to hand over.
LEMMA NothingMore ==
  ASSUME NEW d \in Text, Reading(d).phase # "text" PROVE CuesOf(d) = Reading(d).cues
  <1>1. Len(d) \in Nat /\ Len(d) \in 0 .. Len(d)
    BY DEF Text
  <1>2. Reading(d) \in Readings
    BY <1>1, BeforeType
  <1> QED BY <1>2, EmitIs DEF CuesOf

\* What the reader of the whole document makes of the last line of a cue.
LEMMA LastLineRead ==
  ASSUME Sound, Going, call = "finish", InFirstLines \/ LineToLookAt
  PROVE  /\ TheCue.body = << >> /\ Fits(Contents, Reading(doc).cues) /\ lim = Len(doc)
         /\ Reading(doc) \in Readings /\ mode = "M_WEBVTT" /\ tk = "none" /\ finished
         /\ \/ Understood(stack[2].text, TheCue, Reading(doc))
            \/ Reading(doc).phase = "id" /\ TheCue.haveId /\ ~HasArrow(stack[2].text)
  <1> DEFINE q == Reading(doc)
  <1>1. /\ IInv /\ ReturnSeen /\ mode = "M_WEBVTT" /\ pos = lim /\ lim = Len(doc) /\ tk = "none"
        /\ TheCue.body = << >> /\ Fit /\ finished
    BY DEF Sound, Going, InFirstLines, LineToLookAt, IInv, Finishing
  <1>2. /\ q = Reader \/ q = ReadLine(Reader, Left)
        /\ Left # << >> => q = ReadLine(Reader, Left)
        /\ tstate # "L_NEWLINE0" /\ Left = << >> => q = Reader
    BY <1>1, AllUsed
  <1>3. Reader \in Readings /\ q \in Readings /\ Left \in Text
    BY <1>1, Where
  <1>4. /\ InFirstLines => Top = stack[2]
        /\ LineToLookAt => Above = stack[2]
    BY CueFrame
  <1> HIDE DEF q
  <1>5. Reads(Reader, ReadLine(Reader, Left), Left)
    BY <1>3, ReadLineIs
  <1>6. CASE LineToLookAt
    <2>1. q = Reader
      BY <1>2, <1>6 DEF LineToLookAt
    <2>2. Understood(stack[2].text, TheCue, q) /\ Fits(Contents, q.cues)
      BY <1>4, <1>6, <2>1 DEF LineToLookAt, Fit
    <2> QED BY <1>1, <1>3, <2>2 DEF q
  <1>7. CASE InFirstLines /\ FirstLine
    <2>1. Left # << >> /\ Left = stack[2].text
      BY <1>4, <1>7 DEF InFirstLines, FirstLine
    <2>2. q.cues = Reader.cues /\ Understood(Left, TheCue, q)
      BY <1>2, <1>5, <1>7, <2>1 DEF FirstLine, Reads, ReadsBody, Understood
    <2> QED BY <1>1, <1>3, <2>1, <2>2 DEF Fit, q
  <1>8. CASE InFirstLines /\ SecondLine
    <2>1. Left = stack[2].text
      BY <1>4, <1>8 DEF InFirstLines
    <2>2. CASE q = ReadLine(Reader, Left)
      <3>1. q.cues = Reader.cues /\ Understood(Left, TheCue, q)
        BY <1>5, <1>8, <2>2 DEF SecondLine, Reads, ReadsId, Understood
      <3> QED BY <1>1, <1>3, <2>1, <3>1 DEF Fit, q
    <2>3. CASE q = Reader /\ q # ReadLine(Reader, Left)
      <3>1. Left = << >>
        BY <1>2, <2>3
      <3>2. ~HasArrow(stack[2].text) /\ q.phase = "id" /\ TheCue.haveId
        BY <1>8, <2>1, <2>3, <3>1, NoArrowInEmpty DEF SecondLine
      <3> QED BY <1>1, <1>3, <2>3, <3>2 DEF Fit, q
    <2> QED BY <1>2, <2>2, <2>3
  <1> QED BY <1>6, <1>7, <1>8 DEF InFirstLines

\* A first line of a cue that the document ends.
LEMMA FinishCueLineGoes ==
  ASSUME Sound, Going, Following, NEW die \in Dies, NEW dieIncomplete \in Dies, NEW fails \in Failing,
         FinishCueLine(die, dieIncomplete, fails)
  PROVE  Over' \/ (Going' /\ Following')
  <1> DEFINE k == stack[1].cue
             c == TheCue
             f == stack[2]
             q == Reading(doc)
             r == ProcCueLine(c, f, die, fails)
             bare == Report(IF r.cue.haveId /\ r.cue.time = "none"
                            THEN <<"CUE_INCOMPLETE">> ELSE << >>, dieIncomplete)
             g == InState(Vacate(f), "T_INITIAL")
             stk == [stack EXCEPT ![2] = g]
  <1>1. call = "finish" /\ mode = "M_WEBVTT" /\ Top.state \in {"T_CUE", "T_CUEREAD"} /\ doc' = doc
    BY DEF FinishCueLine, FinishInCue, Sound
  <1>2. InFirstLines \/ LineToLookAt
    BY <1>1 DEF Following, InInitial, InTag, Between, InBody, InCueText, InSkipped, Top
  <1>3. /\ c.body = << >> /\ Fits(Contents, q.cues) /\ lim = Len(doc) /\ q \in Readings
        /\ tk = "none" /\ finished
        /\ \/ Understood(f.text, c, q)
           \/ q.phase = "id" /\ c.haveId /\ ~HasArrow(f.text)
    BY <1>1, <1>2, LastLineRead
  <1>4. /\ stack \in [Depth -> Frame] /\ f \in Frame /\ f.type = "V_TEXT" /\ stack[0].state = "T_BODY"
        /\ k \in DOMAIN cues /\ cues \in Seq(Cue) /\ c \in Cue
        /\ (InFirstLines => top = 2 /\ Top = stack[2] /\ stack[2].state = "T_CUEREAD")
        /\ (LineToLookAt => top = 1 /\ Top = stack[1] /\ stack[1].state = "T_CUE")
    BY <1>2, CueFrame
  <1>5. 2 - 1 = 1 /\ 1 + 1 = 2
    OBVIOUS
  <1>6. FinishTop = 1
    BY <1>2, <1>4, <1>5 DEF FinishTop
  <1>7. c = cues[k]
    BY DEF TheCue
  <1>8. /\ cues' = [cues EXCEPT ![k] = r.cue] /\ stack' = AfterLine(stk, 1, r) /\ mode' = r.mode
        /\ UNCHANGED <<delivered, finished, lineBuf, tstate, token>>
        /\ bare.dead => call' = "idle"
        /\ ~bare.dead => /\ call' = (IF r.mode = "M_CUETEXT" THEN "finish" ELSE "cleanup")
                         /\ status' = r.status /\ UNCHANGED <<pos, lim, tk>>
    <2> HIDE DEF r
    <2> QED BY <1>5, <1>6, <1>7 DEF FinishCueLine, Return, input, r
  <1>9. bare.dead => ~Lenient
    BY NothingRefused DEF Lenient, Sound
  <1>10. /\ r.mode = "M_CUETEXT" => /\ q.phase = "text" /\ q.cue = AsSeen(r.cue) /\ r.status = "SUCCESS"
                                    /\ ~r.again
         /\ r.mode # "M_CUETEXT" /\ Lenient => q.phase # "text"
    <2>1. CASE Understood(f.text, c, q)
      <3>1. TellsAll(f.text, c, q, r)
        BY <1>3, <1>4, <2>1, LineTells DEF Sound
      <3> QED BY <3>1 DEF TellsAll, Modes
    <2>2. CASE q.phase = "id" /\ c.haveId /\ ~HasArrow(f.text)
      <3>1. r = SecondIdLine(c, die)
        BY <2>2 DEF ProcCueLine
      <3>2. r.mode # "M_CUETEXT"
        BY <3>1 DEF SecondIdLine
      <3> QED BY <2>2, <3>2
    <2> QED BY <1>3, <2>1, <2>2
  <1>11. Contents' = Contents /\ InOrder(Contents, CuesOf(doc))
    BY <1>8, HandsNothing, FollowingInOrder DEF Sound, Going
  <1>12. doc \in Text
    BY Where DEF Sound, Going
  <1> HIDE DEF r, bare, c, q
  <1>13. CASE bare.dead
    <2>1. Halted' /\ ~Faultless
      BY <1>3, <1>8, <1>9, <1>13 DEF Halted, Faultless
    <2> QED BY <1>8, <2>1, Stops
  <1>14. CASE ~bare.dead /\ r.mode # "M_CUETEXT"
    <2>1. Halted'
      BY <1>3, <1>8, <1>14 DEF Halted
    <2>2. Faultless => Contents' = CuesOf(doc)
      <3>1. SUFFICES ASSUME Lenient PROVE Contents' = CuesOf(doc)
        BY DEF Faultless
      <3>2. q.phase # "text" /\ Contents = q.cues
        BY <1>3, <1>10, <1>14, <3>1 DEF Fits
      <3>3. CuesOf(doc) = q.cues
        BY <1>12, <3>2, NothingMore DEF q
      <3> QED BY <1>11, <3>2, <3>3
    <2> QED BY <1>11, <2>1, <2>2, IsThrough
  <1>15. CASE ~bare.dead /\ r.mode = "M_CUETEXT"
    <2>1. /\ call' = "finish" /\ status' = "SUCCESS" /\ mode' = "M_CUETEXT" /\ ~r.again
          /\ UNCHANGED <<pos, lim, tk>>
      BY <1>8, <1>10, <1>15
    <2>2. stack' = stk
      BY <1>8, <2>1 DEF AfterLine
    <2> HIDE DEF g
    <2>3. stack'[0] = stack[0] /\ stack'[1] = stack[1] /\ cues'[k] = r.cue
      BY <1>4, <1>8, <2>2 DEF Depth
    <2>4. InBody' /\ TheCue' = r.cue
      BY <1>4, <2>3 DEF InBody, TheCue
    <2>5. ReturnSeen'
      BY <1>1, <1>8, <2>1, StaysThere DEF Going
    <2>6. Going'
      BY <1>1, <1>3, <1>8, <2>1, <2>5 DEF Going
    <2>7. Fits(Contents', Reading(doc)'.cues) /\ Reading(doc)' = q
      BY <1>1, <1>3, <1>11 DEF Fits, Lenient, q
    <2>8. Follows(Reading(doc))'
      BY <1>10, <1>15, <2>4, <2>7 DEF Follows
    <2>9. lineBuf' = << >>
      BY <1>1, <1>8 DEF Going
    <2>10. InCueText'
      BY <2>1, <2>4, <2>8, <2>9 DEF InCueText
    <2> QED BY <2>6, <2>10 DEF Following
  <1> QED BY <1>13, <1>14, <1>15

\* After a step, too, what was handed over are cues.
LEMMA ContentsNext == ASSUME Sound PROVE Contents' \in Seq(Seen)
  <1>1. delivered' \in Seq(Nat) /\ cues' \in Seq(Cue)
    BY DEF Sound, IInv, TypeOK
  <1>2. \A i \in 1 .. Len(delivered') : AsSeen(cues'[delivered'[i]]) \in Seen
    BY <1>1, AsSeenType DEF Sound, Handed
  <1>3. Contents' = [i \in 1 .. Len(delivered') |-> AsSeen(cues'[delivered'[i]])]
    BY DEF Contents
  <1> QED BY <1>1, <1>2, <1>3

\* The text of a cue that the document ends.
LEMMA FinishCueTextGoes ==
  ASSUME Sound, Going, Following, FinishCueText PROVE Over'
  <1> DEFINE l == LastLine
             q == Reading(doc)
             above == IF HasArrow(l) THEN WaitingLine(l) ELSE Above
  <1>1. /\ call = "finish" /\ mode = "M_CUETEXT" /\ EndTextLine(l, TRUE, WithLineBuf)
        /\ call' = "cleanup" /\ finished' = finished
    BY DEF FinishCueText, FinishInText
  <1>2. finished /\ pos = lim /\ lim = Len(doc) /\ Live /\ IInv /\ ReturnSeen
    BY <1>1 DEF Going, Sound, IInv, Finishing, Live
  <1>3. InCueText
    BY <1>1 DEF Following, InInitial, InTag, Between, InFirstLines, LineToLookAt, InSkipped
  <1>4. doc \in Text /\ Reader \in Readings /\ q \in Readings /\ l \in Text /\ TheCue \in Cue
    BY <1>1, <1>2, Where, BufferParts, HeldCue DEF TheCue
  <1>5. Halted'
    BY <1>1, <1>2 DEF Halted
  <1>6. q.phase # "text" => CuesOf(doc) = q.cues
    BY <1>4, NothingMore
  <1>7. CuesOf(doc) = Emit(q).cues
    BY DEF CuesOf
  <1>8. /\ q = Reader \/ q = ReadLine(Reader, Left)
        /\ (Left # << >> => q = ReadLine(Reader, Left))
        /\ (HasArrow(Left) /\ Reader.phase \in {"text", "skip"} => ArrowAtEnd(doc))
    BY <1>2, AllUsed
  <1>9. /\ Left # << >> => q = ReadLine(Reader, Left)
        /\ HasArrow(Left) /\ Reader.phase \in {"text", "skip"} => ArrowAtEnd(doc)
    BY <1>2, AllUsed
  <1> HIDE DEF l, q, above
  <1>10. Grown(l) \in Cue /\ CloseCue(Grown(l), above)
    BY <1>1, <1>2, <1>4, TextLineEnds DEF above, WaitingLine
  <1>11. ASSUME NEW r \in Readings, r.phase = "text", r.cue = AsSeen(Grown(l)), Fits(Contents, r.cues)
         PROVE  Fits(Contents', Emit(r).cues)
    BY <1>1, <1>2, <1>10, <1>11, Closed
  <1>12. ASSUME Fits(Contents', CuesOf(doc)) PROVE Over'
    BY <1>5, <1>12, IsThrough DEF Fits, Faultless
  <1>13. CASE lineBuf = << >> /\ Follows(q)
    <2>1. l = << >> /\ Grown(l) = TheCue
      BY <1>13 DEF l, LastLine, Marked, Grown, IsText
    <2>2. Fits(Contents', Emit(q).cues)
      BY <1>4, <1>11, <1>13, <2>1 DEF Follows
    <2> QED BY <1>7, <1>12, <2>2
  <1>14. CASE Follows(Reader) /\ Left = l
    <2>1. Reader.phase = "text" /\ Reader.cue = AsSeen(TheCue) /\ Fits(Contents, Reader.cues)
      BY <1>14 DEF Follows
    <2>2. ReadsText(Reader, ReadLine(Reader, l), l) /\ ReadLine(Reader, l) \in Readings
      <3>1. Reads(Reader, ReadLine(Reader, l), l) /\ ReadLine(Reader, l) \in Readings
        BY <1>4, ReadLineIs
      <3> QED BY <2>1, <3>1 DEF Reads
    <2>3. CASE IsText(l)
      <3>1. q = ReadLine(Reader, l)
        BY <1>9, <1>14, <2>3 DEF IsText
      <3>2. q.phase = "text" /\ q.cues = Reader.cues
            /\ q.cue = [Reader.cue EXCEPT !.body = Append(@, l)]
        BY <2>1, <2>2, <2>3, <3>1 DEF ReadsText, IsText
      <3>3. q.cue = AsSeen(Grown(l))
        <4>1. Grown(l) = WithLine(TheCue, l)
          BY <2>3 DEF Grown
        <4> QED BY <1>4, <2>1, <3>2, <4>1, AddsLine
      <3>4. Fits(Contents', Emit(q).cues)
        BY <1>4, <1>11, <2>1, <3>2, <3>3
      <3> QED BY <1>7, <1>12, <3>4
    <2>4. CASE ~IsText(l)
      <3>1. Grown(l) = TheCue
        BY <2>4 DEF Grown
      <3>2. Fits(Contents', Emit(Reader).cues)
        BY <1>4, <1>11, <2>1, <3>1
      <3>3. CASE q = Reader
        BY <1>7, <1>12, <3>2, <3>3
      <3>4. CASE q = ReadLine(Reader, l) /\ l = << >>
        <4>1. q.phase = "body" /\ q.cues = Emit(Reader).cues
          BY <2>2, <3>4 DEF ReadsText
        <4> QED BY <1>6, <1>12, <3>2, <4>1
      <3>5. CASE q = ReadLine(Reader, l) /\ HasArrow(l)
        <4>1. q.cues = Emit(Reader).cues
          BY <2>2, <3>5 DEF ReadsText
        <4>2. ~Faultless
          BY <1>9, <1>14, <2>1, <3>5 DEF Faultless
        <4>3. Begins(q.cues, CuesOf(doc)) /\ CuesOf(doc) \in Seq(Seen) /\ q.cues \in Seq(Seen)
          <5>1. Begins(Reading(doc).cues, CuesOf(doc)) /\ CuesOf(doc) \in Seq(Seen)
            BY <1>4, CuesGrow
          <5> QED BY <1>4, <5>1 DEF Readings, q
        <4>4. InOrder(Contents', q.cues)
          BY <3>2, <4>1 DEF Fits
        <4>5. InOrder(Contents', CuesOf(doc))
          BY <4>3, <4>4, ContentsNext, InOrderGrows
        <4> QED BY <1>5, <4>2, <4>5, IsThrough
      <3> QED BY <1>8, <1>14, <2>4, <3>3, <3>4, <3>5 DEF IsText
    <2> QED BY <2>3, <2>4
  <1> QED BY <1>3, <1>13, <1>14 DEF InCueText, l, q

\* A document that ends before the signature line does.
LEMMA NoCuesYet ==
  ASSUME Sound, Going, call = "finish", InInitial \/ InTag PROVE CuesOf(doc) = << >>
  <1> DEFINE q == Reading(doc)
  <1>1. /\ IInv /\ ReturnSeen /\ pos = lim /\ lim = Len(doc) /\ tk = "none"
    BY DEF Sound, Going, InInitial, InTag
  <1>2. doc \in Text /\ Len(doc) \in Nat /\ pos = Len(doc) /\ Left \in Text /\ pos \in Nat
    BY <1>1, Where
  <1>3. /\ q = Reader \/ q = ReadLine(Reader, Left)
        /\ Left # << >> => q = ReadLine(Reader, Left)
        /\ tstate # "L_NEWLINE0" /\ Left = << >> => q = Reader
        /\ tstate = "L_NEWLINE0" => q = ReadLine(Reader, Left)
    BY <1>1, AllUsed
  <1>4. Unsigned(doc) => CuesOf(doc) = << >>
    BY <1>2, UnsignedHasNone
  <1>5. q.phase # "text" /\ q.cues = << >> => CuesOf(doc) = << >>
    BY <1>2, NothingMore
  <1> HIDE DEF q
  <1>6. CASE InTag
    <2>1. pos > 1 /\ doc[1] = "WEB" /\ doc[2] = "VTT" /\ Len(doc) > 1
      BY <1>2, <1>6 DEF InTag
    <2>2. CASE pos = 3 /\ doc[3] = "WEB"
      BY <1>2, <1>4, <2>2 DEF Unsigned
    <2>3. CASE (tstate = "L_START" /\ pos = 2) \/ (tstate = "L_NEWLINE0" /\ pos = 3)
      <3>1. Place = 2
        BY <2>3 DEF Place
      <3>2. /\ Left = <<"WEB", "VTT">>
            /\ ReadLine(Reader, Left).phase = "gap" /\ ReadLine(Reader, Left).cues = << >>
        BY <1>1, <2>1, <3>1, SignatureRead
      <3>3. Left # << >>
        BY <3>2
      <3>4. q = ReadLine(Reader, Left)
        BY <1>3, <3>3
      <3> QED BY <1>5, <3>2, <3>4
    <2> QED BY <1>1, <1>6, <2>2, <2>3 DEF InTag
  <1>7. CASE InInitial
    <2>1. CASE tstate = "L_START" /\ pos = 0
      <3>1. Reader = ReaderStart /\ Left = << >>
        BY <1>2, <2>1, BeforeFirst DEF Reader, Left, Place
      <3>2. q = ReaderStart
        BY <1>3, <2>1, <3>1
      <3>3. q.phase = "header" /\ q.cues = << >>
        BY <3>2 DEF ReaderStart
      <3> QED BY <1>5, <3>3
    <2>2. CASE tstate = "L_WEBVTT" /\ pos = 1 /\ doc[1] = "WEB"
      <3>1. Place = 1 /\ Len(doc) > 0
        BY <1>2, <2>2 DEF Place
      <3>2. Reader = ReaderStart /\ Left = <<"WEB">>
        BY <1>2, <2>2, <3>1, Opened DEF Reader, Left
      <3>3. Left # << >>
        BY <3>2
      <3>4. q = ReadLine(ReaderStart, Left)
        BY <1>3, <3>2, <3>3
      <3>5. q.cues = << >> /\ q.phase \in {"gap", "dead"}
        BY <1>2, <3>4, FirstLineRead
      <3> QED BY <1>5, <3>5
    <2>3. CASE pos > 0 /\ doc[1] \in {"SP", "CR"}
      BY <1>2, <1>4, <2>3 DEF Unsigned
    <2> QED BY <1>1, <1>7, <2>1, <2>2, <2>3 DEF InInitial
  <1> QED BY <1>6, <1>7

\* A document that ends with no cue open.
LEMMA FinishElseGoes ==
  ASSUME Sound, Going, Following, FinishElse PROVE Over'
  <1> DEFINE q == Reading(doc)
  <1>1. /\ call = "finish" /\ call' = "cleanup" /\ finished' = finished /\ delivered' = delivered
        /\ mode = "M_SKIP_CUE" \/ (mode = "M_WEBVTT" /\ Top.state \notin {"T_CUE", "T_CUEREAD"})
    BY DEF FinishElse, outcome
  <1>2. finished /\ pos = lim /\ tk = "none" /\ IInv /\ ReturnSeen /\ Handed
    BY <1>1 DEF Going, Sound, IInv, Finishing
  <1>3. Halted'
    BY <1>1, <1>2 DEF Halted
  <1>4. doc \in Text /\ Reader \in Readings /\ q \in Readings /\ Left \in Text
    BY <1>2, Where
  <1>5. lim = Len(doc) => /\ q = Reader \/ q = ReadLine(Reader, Left)
                          /\ HasArrow(Left) /\ Reader.phase \in {"text", "skip"} => ArrowAtEnd(doc)
    BY <1>2, AllUsed
  <1>6. q.phase # "text" => CuesOf(doc) = q.cues
    BY <1>4, NothingMore
  <1>7. Reads(Reader, ReadLine(Reader, Left), Left)
    BY <1>4, ReadLineIs
  <1> HIDE DEF q
  <1>8. CASE InSkipped
    <2>1. Faultless => CuesOf(doc) = Reader.cues
      <3>1. SUFFICES ASSUME Faultless PROVE q.phase # "text" /\ q.cues = Reader.cues
        BY <1>6
      <3>2. Reader.phase = "skip" /\ lim = Len(doc) /\ ~ArrowAtEnd(doc)
        BY <1>1, <1>8, <3>1 DEF Faultless, InSkipped, Going
      <3>3. ~HasArrow(Left)
        BY <1>5, <3>2
      <3>4. Emit(Reader).cues = Reader.cues
        BY <1>4, <3>2, EmitIs
      <3>5. ReadsText(Reader, ReadLine(Reader, Left), Left)
        BY <1>7, <3>2 DEF Reads
      <3>6. CASE q = ReadLine(Reader, Left)
        BY <3>2, <3>3, <3>4, <3>5, <3>6 DEF ReadsText
      <3> QED BY <1>5, <3>2, <3>6
    <2> QED BY <1>1, <1>3, <1>8, <2>1, NothingLeft DEF InSkipped
  <1>9. CASE Between
    <2>1. CuesOf(doc) = Reader.cues
      <3>1. Reader.phase \in {"gap", "body"} /\ ~HasArrow(Left) /\ lim = Len(doc)
        BY <1>1, <1>2, <1>9 DEF Between, Going
      <3>2. ReadsBody(Reader, ReadLine(Reader, Left), Left)
        BY <1>7, <3>1 DEF Reads
      <3>3. CASE q = ReadLine(Reader, Left)
        BY <1>6, <3>1, <3>2, <3>3 DEF ReadsBody
      <3> QED BY <1>5, <1>6, <3>1, <3>3
    <2> QED BY <1>1, <1>3, <1>9, <2>1, NothingLeft DEF Between
  <1>10. CASE InInitial \/ InTag
    <2>1. CuesOf(doc) = << >>
      BY <1>1, <1>10, NoCuesYet
    <2>2. Contents = << >>
      BY <1>2, <1>10, NothingYet DEF InInitial, InTag
    <2>3. Contents' = Contents /\ InOrder(Contents, CuesOf(doc))
      BY <1>1, <1>2, HandsNothing, FollowingInOrder
    <2> QED BY <1>3, <2>1, <2>2, <2>3, IsThrough
  <1> QED BY <1>1, <1>8, <1>9, <1>10 DEF Following, InFirstLines, LineToLookAt, InCueText

\* Whoever finishes on the first lines of a cue has a line and a cue.
LEMMA NoneAsserted == ASSUME Sound, Going, Following PROVE ~FinishAssert
  <1>1. SUFFICES ASSUME FinishAssert PROVE FALSE
    OBVIOUS
  <1>2. call = "finish" /\ mode = "M_WEBVTT" /\ Top.state \in {"T_CUE", "T_CUEREAD"}
        /\ (~FinishHasLine \/ stack[FinishTop].cue = 0)
    BY <1>1 DEF FinishAssert, FinishInCue
  <1>3. InFirstLines \/ LineToLookAt
    BY <1>2 DEF Following, InInitial, InTag, Between, InBody, InCueText, InSkipped, Top
  <1>4. FinishHasLine
    BY <1>3 DEF InFirstLines, LineToLookAt, FinishHasLine
  <1>5. /\ InFirstLines => top = 2 /\ Top.state = "T_CUEREAD"
        /\ LineToLookAt => top = 1 /\ Top.state = "T_CUE"
    BY DEF InFirstLines, LineToLookAt
  <1>6. FinishTop = 1
    BY <1>3, <1>5 DEF FinishTop
  <1>7. stack[1].cue # 0
    BY <1>3, CueFrame
  <1> QED BY <1>2, <1>4, <1>6, <1>7

\* Who finishes.
LEMMA FinishGoes ==
  ASSUME Sound, Going, Following, FinishStep PROVE Over' \/ (Going' /\ Following')
  <1>1. ~FinishUnseparated /\ ~FinishCleanup /\ \A d \in Dies : ~FinishTextStarved(d)
    BY DEF FinishUnseparated, NoSeparator, FinishCleanup, FinishTextStarved, Sound, Going
  <1>2. ~FinishAssert
    BY NoneAsserted
  <1> QED BY <1>1, <1>2, FinishCueTextGoes, FinishElseGoes, FinishCueLineGoes DEF FinishStep

-----------------------------------------------------------------------------
(* Every step.                                                             *)

\* The parser starts where the reader does,
LEMMA InitTracks == Init => Tracks
  <1> SUFFICES ASSUME Init PROVE Going /\ InInitial
    BY DEF Tracks, Following
  <1>1. Top = EmptyFrame /\ EmptyFrame.state = "T_INITIAL"
    BY DEF Init, Top, Depth, EmptyFrame, NewFrame
  <1>2. Going
    BY DEF Init, Going, ReturnSeen
  <1> QED BY <1>1, <1>2 DEF Init, InInitial, LinePending

\* What is said of the place when nothing changes,
LEMMA SamePlace ==
  ASSUME UNCHANGED vars
  PROVE  /\ UNCHANGED <<Top, Above, TheCue, Contents, LastLine, Reader, Left>>
         /\ (MayFail' <=> MayFail) /\ (NoLine' <=> NoLine) /\ (Marked' <=> Marked)
         /\ (More' <=> More) /\ (Going' <=> Going) /\ (FromHeader' <=> FromHeader)
         /\ Follows(Reader)' <=> Follows(Reader)
         /\ Follows(Reading(doc))' <=> Follows(Reading(doc))
         /\ Following => Following'
  <1>1. /\ UNCHANGED <<doc, lim, pos, call, ret, status, tk, mode, finished, stack, top, popped,
                       lineBuf, tstate, token, cues, delivered>>
    BY DEF vars, input, calling, lexer, frames, outcome, heap
  <1>2. /\ UNCHANGED <<Top, Above, TheCue, Contents, Place, LastLine, Sym>>
        /\ (MayFail' <=> MayFail) /\ (LinePending' <=> LinePending) /\ (InBody' <=> InBody)
        /\ (Marked' <=> Marked) /\ (More' <=> More) /\ (ReturnSeen' <=> ReturnSeen)
    BY <1>1 DEF Top, Above, TheCue, Contents, Place, LastLine, Sym, MayFail, LinePending, InBody,
      Marked, More, ReturnSeen
  <1>3. UNCHANGED <<Reader, Left>>
    BY <1>1, <1>2 DEF Reader, Left
  <1>4. (Fit' <=> Fit) /\ (Follows(Reader)' <=> Follows(Reader))
        /\ (Follows(Reading(doc))' <=> Follows(Reading(doc)))
    BY <1>1, <1>2, <1>3 DEF Fit, Follows, Fits, Lenient
  <1>5. (NoLine' <=> NoLine) /\ (Going' <=> Going) /\ (FromHeader' <=> FromHeader)
    BY <1>1, <1>2 DEF NoLine, Going, FromHeader
  <1>6. Following => Following'
    <2>1. InInitial => InInitial'
      BY <1>1, <1>2 DEF InInitial
    <2>2. InTag => InTag'
      BY <1>1, <1>2, <1>3 DEF InTag
    <2>3. Between => Between'
      BY <1>1, <1>2, <1>3, <1>4 DEF Between
    <2>4. InFirstLines => InFirstLines'
      <3>1. (FirstLine => FirstLine') /\ (SecondLine => SecondLine')
        BY <1>1, <1>2, <1>3 DEF FirstLine, SecondLine
      <3> QED BY <1>1, <1>2, <1>3, <1>4, <3>1 DEF InFirstLines
    <2>5. LineToLookAt => LineToLookAt'
      BY <1>1, <1>2, <1>3, <1>4 DEF LineToLookAt
    <2>6. InCueText => InCueText'
      BY <1>1, <1>2, <1>3, <1>4 DEF InCueText
    <2>7. InSkipped => InSkipped'
      BY <1>1, <1>2, <1>3, <1>4 DEF InSkipped, Lenient
    <2> QED BY <2>1, <2>2, <2>3, <2>4, <2>5, <2>6, <2>7 DEF Following
  <1> QED BY <1>2, <1>3, <1>4, <1>5, <1>6

\* stays there then,
LEMMA SameTracks == ASSUME UNCHANGED vars, Tracks PROVE Tracks'
  <1>1. UNCHANGED <<doc, call, ret, status, mode, finished, top>>
    BY DEF vars, input, calling, frames
  <1>2. /\ UNCHANGED <<Top, Contents>> /\ (MayFail' <=> MayFail) /\ (NoLine' <=> NoLine)
        /\ (Going' <=> Going) /\ (Following => Following')
    BY SamePlace
  <1>3. Over => Over'
    BY <1>1, <1>2 DEF Over, Halted, Abandoned, Faultless, Lenient
  <1> QED BY <1>1, <1>2, <1>3 DEF Tracks

\* follows it with every step,
LEMMA StepTracks ==
  IInv /\ Handed /\ (Separated(doc) => TextsSeparated) /\ Tracks /\ [Next]_vars => Tracks'
  <1> SUFFICES ASSUME IInv, Handed, Separated(doc) => TextsSeparated, Tracks, [Next]_vars PROVE Tracks'
    OBVIOUS
  <1>1. CASE UNCHANGED vars
    BY <1>1, SameTracks
  <1>2. CASE ~UNCHANGED vars
    <2>1. SUFFICES ASSUME (~MayFail)', ~Commented(doc)' PROVE Over' \/ (Going' /\ Following')
      BY DEF Tracks
    <2>2. doc' = doc
      BY DocumentStays
    <2>3. Sound
      BY <2>1, <2>2, StepInvariant, StepHanded DEF Sound, MayFail
    <2>4. Over \/ (Going /\ Following)
      BY <2>3 DEF Tracks, Sound
    <2>5. CASE Over
      BY <1>2, <2>3, <2>5, OverClient, OverChunk, OverFinish DEF Next, Parser, Gone
    <2>6. CASE Going /\ Following
      <3>1. ~ChunkStarved
        BY <2>6 DEF ChunkStarved, Starved, Going
      <3> QED BY <1>2, <2>3, <2>6, <3>1, ClientGoes, ChunkDoneGoes, TurnGoes, TokenGoes, TextGoes,
                 FinishGoes DEF Next, Parser, Gone
    <2> QED BY <2>4, <2>5, <2>6
  <1> QED BY <1>1, <1>2

\* A document whose times have their separators is never read as one without.
LEMMA InitSeparated == Init => Handed /\ (Separated(doc) => TextsSeparated)
  <1> SUFFICES ASSUME Init PROVE Handed /\ TextsSeparated
    OBVIOUS
  <1> QED BY InitCalm, EmptySeq DEF Init, Handed

\* and so always.
LEMMA SpecTracks == Spec => [](Handed /\ (Separated(doc) => TextsSeparated) /\ Tracks)
  <1> DEFINE J == Handed /\ (Separated(doc) => TextsSeparated) /\ Tracks
  <1>1. Init => J
    BY InitSeparated, InitTracks
  <1>2. IInv /\ J /\ [Next]_vars => J'
    <2> SUFFICES ASSUME IInv, J, [Next]_vars PROVE J'
      OBVIOUS
    <2>1. Handed' /\ doc' = doc
      BY StepHanded, DocumentStays
    <2>2. (Separated(doc) => TextsSeparated)'
      BY <2>1, StepTexts
    <2>3. Tracks'
      BY StepTracks
    <2> QED BY <2>1, <2>2, <2>3
  <1> QED BY <1>1, <1>2, Invariant, PTL DEF Spec

\* However a document is cut into chunks, and whatever the application answers to the
\* errors, the cues it is handed are cues of the document as the line by line reading
\* has them, whole and in their order, as long as there is memory and no comment
\* follows the signature.
THEOREM DeliveredIsSound == Spec => []DeliveredSound
  <1>1. Handed /\ (Separated(doc) => TextsSeparated) /\ Tracks => DeliveredSound
    BY DEF Tracks, Over, Going, DeliveredSound
  <1> QED BY <1>1, SpecTracks, PTL

-----------------------------------------------------------------------------
(* The parser implements Delivery.                                         *)

\* How a step moves the running call, and when it may hand over a cue.
CallGoes ==
  \/ UNCHANGED <<call, finished, delivered>>
  \/ call = "chunk" /\ call' \in {"chunk", "idle"} /\ finished' = finished
  \/ call = "finish" /\ call' \in {"finish", "cleanup"} /\ finished' = finished
  \/ call \in {"finish", "cleanup"} /\ call' = "idle" /\ UNCHANGED <<finished, delivered>>
  \/ call = "idle" /\ ~finished /\ call' = "chunk" /\ UNCHANGED <<finished, delivered>>
  \/ call = "idle" /\ ~finished /\ call' = "finish" /\ finished' /\ delivered' = delivered
  \/ call = "idle" /\ call' = "deleted" /\ UNCHANGED <<finished, delivered>>

\* Every step is one of these.
LEMMA StepCalls == [Next]_vars => CallGoes
  <1> SUFFICES ASSUME [Next]_vars PROVE CallGoes
    OBVIOUS
  <1>1. CASE Client
    BY <1>1 DEF Client, Feed, FinishCall, Delete, outcome, CallGoes
  <1>2. CASE ChunkDone \/ ChunkStarved
    BY <1>2 DEF ChunkDone, ChunkStarved, Return, CallGoes
  <1>3. CASE TurnStep
    <2>1. CASE Lex \/ CueReadText \/ CueReadEol \/ CueReadNewline \/ CueMissing
      BY <2>1 DEF Lex, CueReadText, CueReadEol, CueReadNewline, CueMissing, Turn, calling, Return,
        Quiet, outcome, CallGoes
    <2>2. ASSUME NEW d \in Dies, CueReadStarved(d) PROVE CallGoes
      BY <2>2 DEF CueReadStarved, Turn, Return, CallGoes
    <2>3. ASSUME NEW d \in Dies, NEW f \in Failing, CueLine(d, f) PROVE CallGoes
      BY <2>3 DEF CueLine, Turn, CallGoes
    <2> QED BY <1>3, <2>1, <2>2, <2>3 DEF TurnStep
  <1>4. CASE TokenStep
    BY <1>4 DEF TokenStep, InitialSignature, InitialReject, TagSpace, TagNewline, TagReject, Reject,
      CommentNewline, CommentSkip, EolCount, EolPop, CueAssert, BodyDead, BodyNewline, BodyCue,
      BodyStarved, On, EndTurn, Return, calling, Quiet, outcome, CallGoes
  <1>5. CASE TextStep
    BY <1>5 DEF TextStep, TextRead, TextCarriageReturn, TextNewline, TextUnparsed,
      TextUnseparated, TextStarved, AtNewline, InText, Return, CallGoes
  <1>6. CASE FinishStep
    <2>1. CASE FinishAssert \/ FinishCueText \/ FinishUnseparated \/ FinishElse \/ FinishCleanup
      BY <2>1 DEF FinishAssert, FinishInCue, FinishInText, FinishCueText, FinishUnseparated,
        FinishElse, FinishCleanup, Return, outcome, CallGoes
    <2>2. ASSUME NEW d \in Dies, FinishTextStarved(d) PROVE CallGoes
      BY <2>2 DEF FinishTextStarved, FinishInText, CallGoes
    <2>3. ASSUME NEW d \in Dies, NEW e \in Dies, NEW f \in Failing, FinishCueLine(d, e, f)
          PROVE  CallGoes
      BY <2>3 DEF FinishCueLine, FinishInCue, Return, CallGoes
    <2> QED BY <1>6, <2>1, <2>2, <2>3 DEF FinishStep
  <1>7. CASE UNCHANGED vars
    BY <1>7 DEF vars, calling, outcome, CallGoes
  <1> QED BY <1>1, <1>2, <1>3, <1>4, <1>5, <1>6, <1>7 DEF Next, Parser, Gone

\* An application that lets every error pass, and documents that are read in full.
Promised == /\ Dies \subseteq {0} /\ {"SUCCESS", "UNFINISHED"} \subseteq Resume /\ Scarce = {}
            /\ \A d \in Docs : Separated(d) /\ ~ArrowAtEnd(d) /\ ~Commented(d)

\* A chunk is parsed before the document is finished.
InTurn == doc \in Docs /\ (call = "chunk" => ~finished)

\* What was handed over are the first cues of the document, and all of them in the end.
Leads == /\ call # "deleted" => Begins(Contents, CuesOf(doc)) /\ Contents \in Seq(Seen)
         /\ finished /\ call = "idle" => Contents = CuesOf(doc)
         /\ CuesOf(doc) \in Seq(Seen)

\* A parser that follows the reader has handed over its first cues, and at the end all of them.
LEMMA TracksLeads == ASSUME Promised, IInv, Handed, Tracks, InTurn PROVE Leads
  <1>1. ~MayFail /\ ~Commented(doc) /\ Lenient /\ Faultless
    BY DEF Promised, MayFail, InTurn, Lenient, Faultless
  <1>2. doc \in Text /\ CuesOf(doc) \in Seq(Seen) /\ Contents \in Seq(Seen)
    <2>1. doc \in Text
      BY DEF IInv, TypeOK, Text
    <2> QED BY <2>1, CuesGrow, ContentsType
  <1>3. CASE Over
    <2>1. call = "deleted" \/ Contents = CuesOf(doc)
      BY <1>1, <1>3 DEF Over, Abandoned
    <2> QED BY <1>2, <2>1, BeginsWith DEF Leads
  <1>4. CASE Going /\ Following
    <2>1. finished => call # "idle"
      BY <1>4 DEF Going
    <2>2. /\ Begins(Reading(doc).cues, CuesOf(doc)) /\ Begins(Reader.cues, CuesOf(doc))
      <3>1. Place \in 0 .. Len(doc)
        BY <1>4, Where DEF Going
      <3> QED BY <1>2, <3>1, CuesGrow DEF Reader
    <2>3. CASE delivered = << >>
      <3>1. Len(Contents) = 0 /\ Len(CuesOf(doc)) \in Nat
        <4>1. Len(delivered) = 0 /\ Len(Contents) = Len(delivered)
          BY <2>3, ContentsType
        <4> QED BY <1>2, <4>1
      <3>2. Begins(Contents, CuesOf(doc))
        BY <3>1 DEF Begins
      <3> QED BY <1>2, <2>1, <3>2 DEF Leads
    <2>4. CASE Contents \in {Reader.cues, Reading(doc).cues}
      BY <1>2, <2>1, <2>2, <2>4 DEF Leads
    <2> QED BY <1>1, <1>4, <2>3, <2>4 DEF Following, InInitial, InTag, Between, InFirstLines,
      LineToLookAt, InCueText, InSkipped, Follows, Fit, Fits
  <1> QED BY <1>1, <1>3, <1>4 DEF Tracks

\* A step hands over nothing, or the next cue.
LEMMA NextCueHanded ==
  ASSUME IInv, Handed, IInv', Handed', OthersKept, doc' = doc, ~MayFail, ~Commented(doc),
         NoneHanded \/ OneHanded, Leads, Leads', call' # "deleted"
  PROVE  \/ Contents' = Contents
         \/ /\ Len(Contents) < Len(CuesOf(doc))
            /\ Contents' = Append(Contents, CuesOf(doc)[Len(Contents) + 1])
  <1>1. Sound
    BY DEF Sound
  <1>2. CASE NoneHanded
    BY <1>1, <1>2, HandsNothing DEF NoneHanded
  <1>3. CASE OneHanded
    <2>1. PICK k \in DOMAIN cues : delivered' = Append(delivered, k)
      BY <1>3 DEF OneHanded
    <2>2. k \in Nat
      BY <2>1 DEF IInv, TypeOK
    <2> DEFINE x == AsSeen(cues'[k])
               w == CuesOf(doc)
               n == Len(Contents)
    <2>3. Contents' = Append(Contents, x) /\ x \in Seen
      BY <1>1, <2>1, <2>2, HandsOne
    <2>4. Contents \in Seq(Seen) /\ w \in Seq(Seen)
      BY <1>1, ContentsType DEF Leads
    <2>5. /\ n \in Nat /\ Len(Contents') = n + 1 /\ Contents'[n + 1] = x
      BY <2>3, <2>4, AppendParts
    <2>6. Begins(Contents', w)
      BY DEF Leads
    <2> HIDE DEF x, w
    <2>7. n + 1 <= Len(w) /\ Contents'[n + 1] = w[n + 1] /\ Len(w) \in Nat
      BY <2>4, <2>5, <2>6 DEF Begins
    <2> QED BY <2>3, <2>5, <2>7 DEF w
  <1> QED BY <1>2, <1>3

\* So every step is a step of Delivery or changes nothing it sees,
LEMMA PromiseStep ==
  Promised /\ IInv /\ Handed /\ Leads /\ InTurn /\ Leads' /\ [Next]_vars
    => [Promise!Next]_(Promise!vars)
  <1> SUFFICES ASSUME Promised, IInv, Handed, Leads, InTurn, Leads', [Next]_vars
               PROVE  [Promise!Next]_(Promise!vars)
    OBVIOUS
  <1>1. IInv' /\ Handed' /\ OthersKept /\ doc' = doc /\ CallGoes /\ (NoneHanded \/ OneHanded)
    BY StepInvariant, StepHanded, DocumentStays, StepCalls, StepHands
  <1>2. ~MayFail /\ ~Commented(doc)
    BY DEF Promised, MayFail, InTurn
  <1>3. Sound
    BY <1>1, <1>2 DEF Sound
  <1>4. delivered' = delivered => Contents' = Contents
    BY <1>3, HandsNothing
  <1>5. CASE Stage' = Stage /\ Contents' = Contents
    BY <1>1, <1>5 DEF Promise!vars
  <1>6. CASE Stage' = Stage /\ Stage \in {"open", "finishing"} /\ call' # "deleted"
    <2>1. \/ Contents' = Contents
          \/ /\ Len(Contents) < Len(CuesOf(doc))
             /\ Contents' = Append(Contents, CuesOf(doc)[Len(Contents) + 1])
      BY <1>1, <1>2, <1>6, NextCueHanded
    <2> QED BY <1>1, <1>5, <1>6, <2>1 DEF Promise!Next, Promise!HandOver
  <1>7. call \in {"finish", "cleanup"} => finished
    BY DEF IInv, Finishing
  <1>8. CASE UNCHANGED <<call, finished, delivered>>
    BY <1>4, <1>5, <1>8 DEF Stage
  <1>9. CASE call = "chunk" /\ call' \in {"chunk", "idle"} /\ finished' = finished
    <2>1. Stage = "open" /\ Stage' = "open"
      BY <1>9 DEF InTurn, Stage
    <2> QED BY <1>6, <1>9, <2>1
  <1>10. CASE call = "finish" /\ call' \in {"finish", "cleanup"} /\ finished' = finished
    <2>1. Stage = "finishing" /\ Stage' = "finishing"
      BY <1>10 DEF Stage
    <2> QED BY <1>6, <1>10, <2>1
  <1>11. CASE call \in {"finish", "cleanup"} /\ call' = "idle" /\ UNCHANGED <<finished, delivered>>
    <2>1. Stage = "finishing" /\ Stage' = "finished"
      BY <1>7, <1>11 DEF Stage
    <2>2. Contents' = Contents /\ Contents = CuesOf(doc)
      BY <1>1, <1>4, <1>7, <1>11 DEF Leads
    <2> QED BY <1>1, <2>1, <2>2 DEF Promise!Next, Promise!Finish
  <1>12. CASE call = "idle" /\ ~finished /\ call' = "chunk" /\ UNCHANGED <<finished, delivered>>
    <2>1. Stage = "open" /\ Stage' = "open"
      BY <1>12 DEF Stage
    <2> QED BY <1>4, <1>5, <1>12, <2>1
  <1>13. CASE call = "idle" /\ ~finished /\ call' = "finish" /\ finished' /\ delivered' = delivered
    <2>1. Stage = "open" /\ Stage' = "finishing"
      BY <1>13 DEF Stage
    <2> QED BY <1>1, <1>4, <1>13, <2>1 DEF Promise!Next, Promise!StartFinishing
  <1>14. CASE call = "idle" /\ call' = "deleted" /\ UNCHANGED <<finished, delivered>>
    <2>1. CASE finished
      <3>1. Stage = "finished" /\ Stage' = "finished"
        BY <1>14, <2>1 DEF Stage
      <3> QED BY <1>4, <1>5, <1>14, <3>1
    <2>2. CASE ~finished
      <3>1. Stage = "open" /\ Stage' = "abandoned"
        BY <1>14, <2>2 DEF Stage
      <3> QED BY <1>1, <1>4, <1>14, <3>1 DEF Promise!Next, Promise!Abandon
    <2> QED BY <2>1, <2>2
  <1> QED BY <1>1, <1>8, <1>9, <1>10, <1>11, <1>12, <1>13, <1>14 DEF CallGoes

\* and it starts as Delivery does.
LEMMA PromiseInit == Init => Promise!Init
  <1> SUFFICES ASSUME Init PROVE Promise!Init
    OBVIOUS
  <1>1. Contents = << >>
    BY NothingYet, InitInvariant, InitSeparated DEF Init
  <1>2. Stage = "open"
    BY DEF Init, Stage
  <1> QED BY <1>1, <1>2 DEF Init, Promise!Init

\* Every step keeps the document and the order of the calls.
LEMMA StepOpened == InTurn /\ [Next]_vars => InTurn'
  <1> SUFFICES ASSUME InTurn, [Next]_vars PROVE InTurn'
    OBVIOUS
  <1>1. doc' = doc /\ CallGoes
    BY DocumentStays, StepCalls
  <1> QED BY <1>1 DEF InTurn, CallGoes

\* With an application that lets every error pass and goes on feeding, as long as there
\* is memory, the incremental parser implements Delivery: on documents whose times have
\* their separators, whose last line starts no cue inside the text of another, and
\* whose signature has no comment, it hands over the next cue of the line by line
\* reading or none at every step, all of them before webvtt_finish_parsing returns.
THEOREM ParserDelivers ==
  ASSUME Dies \subseteq {0}, {"SUCCESS", "UNFINISHED"} \subseteq Resume, Scarce = {},
         \A d \in Docs : Separated(d) /\ ~ArrowAtEnd(d) /\ ~Commented(d)
  PROVE  Spec => KeepsPromise
  <1>1. Promised
    BY DEF Promised
  <1>2. Init => InTurn
    BY DEF Init, InTurn
  <1>3. IInv /\ (Handed /\ (Separated(doc) => TextsSeparated) /\ Tracks) /\ InTurn => Leads
    BY <1>1, TracksLeads
  <1>4. IInv /\ (Handed /\ (Separated(doc) => TextsSeparated) /\ Tracks) /\ Leads /\ InTurn
          /\ Leads' /\ [Next]_vars => [Promise!Next]_(Promise!vars)
    BY <1>1, PromiseStep
  <1>5. Spec => []InTurn
    BY <1>2, StepOpened, PTL DEF Spec
  <1> QED BY <1>3, <1>4, <1>5, PromiseInit, Invariant, SpecTracks, PTL
            DEF Spec, KeepsPromise, Promise!Spec

-----------------------------------------------------------------------------
(* The errors that a reader of lines reports.                              *)

\* What timings on line n report.
TimingNotes(l, n) == ToSet(AtLine(TimingReports(TimingKind(l)), n))

\* Reports of the same line, one after the other or at once.
LEMMA ToldOnce ==
  ASSUME NEW n
  PROVE  /\ ToSet(AtLine(<< >>, n)) = {}
         /\ \A c : ToSet(AtLine(<<c>>, n)) = {<<c, n>>}
         /\ \A c : ToSet(AtLine(<<c, c>>, n)) = {<<c, n>>}
  BY DEF ToSet, AtLine

\* What timings report is one code, or none.
LEMMA TimingNotesAre ==
  ASSUME NEW l, NEW n
  PROVE  TimingNotes(l, n) = IF TimingReports(TimingKind(l)) = << >> THEN {}
                             ELSE {<<Head(TimingReports(TimingKind(l))), n>>}
  <1> DEFINE k == TimingKind(l)
  <1>1. k \in TimingSymbols \cup {"BAD"}
    BY TimingKindIs
  <1>2. TimingNotes(l, n) = ToSet(AtLine(TimingReports(k), n))
    BY DEF TimingNotes
  <1> HIDE DEF k
  <1>3. CASE k = "BAD"
    BY <1>2, <1>3, ToldOnce DEF TimingReports, k
  <1>4. CASE k = "MAL"
    <2>1. TimingReports(k) = <<"MALFORMED_TIMESTAMP", "MALFORMED_TIMESTAMP">>
      BY <1>4 DEF TimingReports
    <2>2. TimingReports(k) # << >> /\ Head(TimingReports(k)) = "MALFORMED_TIMESTAMP"
      BY <2>1
    <2>3. TimingNotes(l, n) = {<<"MALFORMED_TIMESTAMP", n>>}
      BY <1>2, <2>1, ToldOnce
    <2> QED BY <2>2, <2>3 DEF k
  <1>5. CASE k = "GLUE"
    BY <1>2, <1>5, ToldOnce DEF TimingReports, k
  <1>6. CASE k \in {"OK", "BACK", "NOSEP"}
    BY <1>2, <1>6, ToldOnce DEF TimingReports, k
  <1> QED BY <1>1, <1>3, <1>4, <1>5, <1>6 DEF TimingSymbols

\* What is said of line l, which follows what q was told of.
Adds(r, q, said) == /\ q.errors = r.errors \cup said /\ q.line = r.line
                    /\ q.chained = r.chained

\* A complaint is of the line that is being read.
LEMMA ComplainAdds ==
  ASSUME NEW r \in Readings, NEW c PROVE Adds(r, Complain(r, c), {<<c, r.line>>})
  BY DEF Complain, Adds, Readings

\* Timings are complained of on their line.
LEMMA StartTimingsAdds ==
  ASSUME NEW r \in Readings, NEW id, NEW l
  PROVE  Adds(r, StartTimings(r, id, l), TimingNotes(l, r.line))
  <1> DEFINE k == TimingKind(l)
             e == TimingReports(k)
             said == IF e = << >> THEN r ELSE Complain(r, Head(e))
             c == [id |-> id, time |-> k, body |-> << >>]
  <1>1. said \in Readings
    BY ComplainType, TimingKindIs
  <1>2. Adds(r, said, TimingNotes(l, r.line))
    BY TimingNotesAre, ComplainAdds DEF Adds
  <1>3. StartTimings(r, id, l) = IF TimingStatus(k) = "SUCCESS"
                                 THEN [said EXCEPT !.phase = "text", !.cue = c]
                                 ELSE [said EXCEPT !.phase = "skip", !.cue = NoCue]
    BY DEF StartTimings
  <1> HIDE DEF said, c
  <1>5. Adds(said, StartTimings(r, id, l), {})
    <2>1. CASE TimingStatus(k) = "SUCCESS"
      <3>1. StartTimings(r, id, l) = [said EXCEPT !.phase = "text", !.cue = c]
        BY <1>3, <2>1
      <3> QED BY <1>1, <3>1 DEF Adds, Readings
    <2>2. CASE TimingStatus(k) # "SUCCESS"
      <3>1. StartTimings(r, id, l) = [said EXCEPT !.phase = "skip", !.cue = NoCue]
        BY <1>3, <2>2
      <3> QED BY <1>1, <3>1 DEF Adds, Readings
    <2> QED BY <2>1, <2>2
  <1> QED BY <1>2, <1>5 DEF Adds

\* What a reader says of a line that may start a cue.
BodyNotes(l, n) == IF HasArrow(l) THEN TimingNotes(l, n) ELSE {}

\* It says no more than that,
LEMMA ReadBodyLineAdds ==
  ASSUME NEW r \in Readings, NEW l
  PROVE  Adds(r, ReadBodyLine(r, l), BodyNotes(l, r.line))
  <1>1. CASE l = << >>
    <2>1. ~HasArrow(l) /\ ReadBodyLine(r, l) = [r EXCEPT !.phase = "body"]
      BY <1>1, NoArrowInEmpty DEF ReadBodyLine
    <2> QED BY <2>1 DEF Adds, BodyNotes, Readings
  <1>2. CASE HasArrow(l)
    <2>1. ReadBodyLine(r, l) = StartTimings(r, << >>, l)
      BY <1>2, NoArrowInEmpty DEF ReadBodyLine
    <2> QED BY <1>2, <2>1, StartTimingsAdds DEF BodyNotes
  <1>3. CASE l # << >> /\ ~HasArrow(l)
    <2> DEFINE c == [NoCue EXCEPT !.id = l]
    <2>1. ReadBodyLine(r, l) = [r EXCEPT !.phase = "id", !.cue = c]
      BY <1>3 DEF ReadBodyLine
    <2> HIDE DEF c
    <2> QED BY <1>3, <2>1 DEF Adds, BodyNotes, Readings
  <1> QED BY <1>1, <1>2, <1>3

\* What a reader makes of a line of text: nothing, unless the line starts a cue, and
\* then the cues of the document are chained.
LEMMA ReadTextLineAdds ==
  ASSUME NEW r \in Readings, NEW l, r.phase \in {"text", "skip"}
  PROVE  /\ ReadTextLine(r, l).line = r.line
         /\ r.chained \/ HasArrow(l) => ReadTextLine(r, l).chained
         /\ ~HasArrow(l) => ReadTextLine(r, l).errors = r.errors
  <1> DEFINE e == Emit(r)
  <1>1. e \in Readings
    BY EmitIs
  <1>2. e.errors = r.errors /\ e.line = r.line /\ e.chained = r.chained
    BY DEF Emit, Readings
  <1> HIDE DEF e
  <1>3. CASE l = << >>
    <2>1. ~HasArrow(l)
      BY <1>3, NoArrowInEmpty
    <2>2. ReadTextLine(r, l) = [e EXCEPT !.phase = "body", !.cue = NoCue]
      BY <1>3, <2>1 DEF ReadTextLine, e
    <2> QED BY <1>1, <1>2, <2>1, <2>2 DEF Readings
  <1>4. CASE HasArrow(l)
    <2> DEFINE f == [e EXCEPT !.chained = TRUE]
    <2>1. ReadTextLine(r, l) = StartTimings(f, << >>, l)
      BY <1>4, NoArrowInEmpty DEF ReadTextLine, e
    <2>2. f \in Readings /\ f.line = e.line /\ f.chained
      BY <1>1 DEF Readings
    <2> HIDE DEF f
    <2>3. Adds(f, StartTimings(f, << >>, l), TimingNotes(l, f.line))
      BY <2>2, StartTimingsAdds
    <2> QED BY <1>2, <1>4, <2>1, <2>2, <2>3 DEF Adds
  <1>5. CASE l # << >> /\ ~HasArrow(l) /\ r.phase = "text"
    <2>1. ReadTextLine(r, l) = [r EXCEPT !.cue.body = Append(@, l)]
      BY <1>5 DEF ReadTextLine
    <2> QED BY <1>5, <2>1 DEF Readings
  <1>6. CASE l # << >> /\ ~HasArrow(l) /\ r.phase = "skip"
    BY <1>6 DEF ReadTextLine
  <1> QED BY <1>3, <1>4, <1>5, <1>6

\* What a reader at r, which becomes q, says of line l.
Notes(r, q, l) ==
  /\ q.line = r.line + 1
  /\ r.chained => q.chained
  /\ r.phase = "header" =>
       q.errors = r.errors \cup (IF IsSignature(l) THEN {} ELSE {<<"MALFORMED_TAG", r.line>>})
  /\ r.phase = "dead" => q.errors = r.errors
  /\ r.phase = "gap" =>
       q.errors = r.errors \cup (IF l = << >> THEN {} ELSE {<<"EXPECTED_EOL", r.line>>})
                           \cup BodyNotes(l, r.line)
  /\ r.phase = "body" => q.errors = r.errors \cup BodyNotes(l, r.line)
  /\ r.phase = "id" =>
       q.errors = r.errors \cup (IF HasArrow(l) THEN TimingNotes(l, r.line)
                                 ELSE {<<"CUE_INCOMPLETE", r.line>>})
  /\ r.phase \in {"text", "skip"} =>
       /\ HasArrow(l) => q.chained
       /\ ~HasArrow(l) => q.errors = r.errors

\* So it reads every line.
LEMMA ReadLineNotes ==
  ASSUME NEW r \in Readings, NEW l \in Text PROVE Notes(r, ReadLine(r, l), l)
  <1> DEFINE q == ReadLine(r, l)
             Is(next) == /\ q = [next EXCEPT !.line = @ + 1] /\ next \in Readings
                         /\ next.line = r.line /\ (r.chained => next.chained)
  <1>1. ASSUME NEW next, Is(next)
        PROVE  /\ q.line = r.line + 1 /\ q.errors = next.errors
               /\ r.chained => q.chained
               /\ next.chained => q.chained
    <2> HIDE DEF q
    <2> QED BY SMTT(20), <1>1 DEF Readings
  <1>2. CASE r.phase = "header"
    <2> DEFINE c == Complain(r, "MALFORMED_TAG")
               next == IF IsSignature(l) THEN [r EXCEPT !.phase = "gap"]
                       ELSE [c EXCEPT !.phase = "dead"]
    <2>1. c \in Readings /\ Adds(r, c, {<<"MALFORMED_TAG", r.line>>})
      BY ComplainType, ComplainAdds DEF Codes
    <2>2. q = [next EXCEPT !.line = @ + 1]
      BY <1>2 DEF ReadLine
    <2> HIDE DEF c, q
    <2>3. /\ next \in Readings /\ next.line = r.line /\ (r.chained => next.chained)
          /\ next.errors = r.errors \cup (IF IsSignature(l) THEN {} ELSE {<<"MALFORMED_TAG", r.line>>})
      BY <2>1 DEF Readings, Phases, Adds
    <2> HIDE DEF next
    <2>4. Is(next)
      BY <2>2, <2>3
    <2> QED BY <1>1, <1>2, <2>3, <2>4 DEF Notes, q
  <1>3. CASE r.phase = "gap"
    <2> DEFINE c == IF l = << >> THEN r ELSE Complain(r, "EXPECTED_EOL")
               next == ReadBodyLine(c, l)
    <2>1. /\ c \in Readings
          /\ Adds(r, c, IF l = << >> THEN {} ELSE {<<"EXPECTED_EOL", r.line>>})
      BY ComplainType, ComplainAdds DEF Codes, Adds
    <2>2. q = [next EXCEPT !.line = @ + 1]
      BY <1>3 DEF ReadLine
    <2> HIDE DEF c, q
    <2>3. next \in Readings /\ Adds(c, next, BodyNotes(l, c.line))
      BY <2>1, ReadBodyLineIs, ReadBodyLineAdds
    <2> HIDE DEF next
    <2>4. /\ Is(next)
          /\ next.errors = r.errors \cup (IF l = << >> THEN {} ELSE {<<"EXPECTED_EOL", r.line>>})
                                    \cup BodyNotes(l, r.line)
      BY <2>1, <2>2, <2>3 DEF Adds
    <2> QED BY <1>1, <1>3, <2>4 DEF Notes, q
  <1>4. CASE r.phase = "body"
    <2> DEFINE next == ReadBodyLine(r, l)
    <2>1. q = [next EXCEPT !.line = @ + 1]
      BY <1>4 DEF ReadLine
    <2> HIDE DEF q
    <2>2. next \in Readings /\ Adds(r, next, BodyNotes(l, r.line))
      BY ReadBodyLineIs, ReadBodyLineAdds
    <2> HIDE DEF next
    <2>3. Is(next) /\ next.errors = r.errors \cup BodyNotes(l, r.line)
      BY <2>1, <2>2 DEF Adds
    <2> QED BY <1>1, <1>4, <2>3 DEF Notes, q
  <1>5. CASE r.phase = "id" /\ HasArrow(l)
    <2> DEFINE next == StartTimings(r, r.cue.id, l)
    <2>1. q = [next EXCEPT !.line = @ + 1]
      BY <1>5 DEF ReadLine
    <2> HIDE DEF q
    <2>2. next \in Readings /\ Adds(r, next, TimingNotes(l, r.line))
      <3>1. r.cue.id \in Text
        BY DEF Readings, Seen
      <3> QED BY <3>1, StartTimingsIs, StartTimingsAdds
    <2> HIDE DEF next
    <2>3. Is(next) /\ next.errors = r.errors \cup TimingNotes(l, r.line)
      BY <2>1, <2>2 DEF Adds
    <2> QED BY <1>1, <1>5, <2>3 DEF Notes, q
  <1>6. CASE r.phase = "id" /\ ~HasArrow(l)
    <2> DEFINE c == Complain(r, "CUE_INCOMPLETE")
               next == [c EXCEPT !.phase = "skip", !.cue = NoCue]
    <2>1. c \in Readings /\ Adds(r, c, {<<"CUE_INCOMPLETE", r.line>>})
      BY ComplainType, ComplainAdds DEF Codes
    <2>2. q = [next EXCEPT !.line = @ + 1]
      BY <1>6 DEF ReadLine
    <2> HIDE DEF c, q
    <2>3. /\ next \in Readings /\ next.line = c.line /\ next.chained = c.chained
          /\ next.errors = c.errors
      BY <2>1, NoCueType DEF Readings, Phases
    <2> HIDE DEF next
    <2>4. Is(next) /\ next.errors = r.errors \cup {<<"CUE_INCOMPLETE", r.line>>}
      BY <2>1, <2>2, <2>3 DEF Adds
    <2> QED BY <1>1, <1>6, <2>4 DEF Notes, q
  <1>7. CASE r.phase \in {"text", "skip"}
    <2> DEFINE next == ReadTextLine(r, l)
    <2>1. q = [next EXCEPT !.line = @ + 1]
      BY <1>7 DEF ReadLine
    <2> HIDE DEF q
    <2>2. /\ next \in Readings /\ next.line = r.line
          /\ r.chained \/ HasArrow(l) => next.chained
          /\ ~HasArrow(l) => next.errors = r.errors
      BY <1>7, ReadTextLineIs, ReadTextLineAdds
    <2> HIDE DEF next
    <2>3. Is(next)
      BY <2>1, <2>2
    <2> QED BY <1>1, <1>7, <2>2, <2>3 DEF Notes, q
  <1>8. CASE r.phase = "dead"
    <2>1. q = [r EXCEPT !.line = @ + 1]
      BY <1>8 DEF ReadLine
    <2>2. Is(r)
      BY <2>1
    <2> QED BY <1>1, <1>8, <2>2 DEF Notes
  <1>9. r.phase \in Phases
    BY DEF Readings
  <1> QED BY <1>2, <1>3, <1>4, <1>5, <1>6, <1>7, <1>8, <1>9 DEF Phases

\* Once cues are chained they stay so.
LEMMA ChainedStays ==
  ASSUME NEW d \in Text, NEW n \in 0 .. Len(d), Before(d, n).chained PROVE Chained(d)
  <1> DEFINE w == Lines(d)
             N == Len(w)
             R(i) == Readers(w)[i]
             Bad == {m \in 0 .. N : ~R(m).chained /\ m >= Count(d, n)}
  <1>1. w \in Seq(Text) /\ N \in Nat /\ Count(d, n) \in 0 .. N
    BY LinesAre
  <1>2. \A i \in 0 .. N : R(i) \in Readings
    BY <1>1, ReadersType
  <1>3. R(Count(d, n)).chained
    BY DEF Before
  <1>4. Bad = {}
    <2>1. SUFFICES ASSUME Bad # {} PROVE FALSE
      OBVIOUS
    <2>2. PICK m \in Bad : \A k \in Bad : m <= k
      <3>1. Bad \in SUBSET Nat
        BY <1>1
      <3> QED BY <2>1, <3>1, Least
    <2>3. m # Count(d, n) /\ m > Count(d, n) /\ m \in 1 .. N /\ m - 1 \in 0 .. N
          /\ m - 1 >= Count(d, n)
      BY <1>1, <1>3, <2>2
    <2>4. R(m - 1).chained
      <3>1. m - 1 \notin Bad
        BY <1>1, <2>2, <2>3
      <3> QED BY <2>3, <3>1
    <2>5. R(m) = ReadLine(R(m - 1), w[m]) /\ w[m] \in Text
      BY <1>1, <2>3, ReadersEquation
    <2>6. R(m - 1) \in Readings
      BY <1>2, <2>3
    <2> HIDE DEF R
    <2>7. R(m).chained
      BY <2>4, <2>5, <2>6, ReadLineNotes DEF Notes
    <2> QED BY <2>2, <2>7
  <1>5. R(N).chained
    BY <1>1, <1>4
  <1> QED BY <1>5 DEF Chained, Reading

\* A reader that has seen no line says nothing, and one that is dead one thing.
Sane(r) == /\ r.phase = "header" => r = ReaderStart
           /\ r.phase = "dead" => r.errors = {<<"MALFORMED_TAG", 1>>}

\* So it stays with every line,
LEMMA ReadLineSane ==
  ASSUME NEW r \in Readings, NEW l \in Text, Sane(r) PROVE Sane(ReadLine(r, l))
  <1> DEFINE q == ReadLine(r, l)
  <1>1. Reads(r, q, l) /\ Notes(r, q, l) /\ r.phase \in Phases
    BY ReadLineIs, ReadLineNotes DEF Readings
  <1>2. r.phase = "header" => r.line = 1 /\ r.errors = {}
    BY DEF Sane, ReaderStart
  <1> HIDE DEF q
  <1>3. q.phase # "header"
    <2>1. CASE r.phase \in {"header", "dead", "gap", "body", "id"}
      BY <1>1, <2>1 DEF Reads, ReadsBody, ReadsId, Starts
    <2>2. CASE r.phase \in {"text", "skip"}
      BY <1>1, <2>2 DEF Reads, ReadsText, Starts
    <2> QED BY <1>1, <2>1, <2>2 DEF Phases
  <1>4. q.phase = "dead" => r.phase \in {"header", "dead"}
    <2>1. CASE r.phase \in {"gap", "body", "id"}
      BY <1>1, <2>1 DEF Reads, ReadsBody, ReadsId, Starts
    <2>2. CASE r.phase \in {"text", "skip"}
      BY <1>1, <2>2 DEF Reads, ReadsText, Starts
    <2> QED BY <1>1, <2>1, <2>2 DEF Phases
  <1>5. ASSUME r.phase = "header" PROVE Sane(q)
    BY <1>1, <1>2, <1>3, <1>5 DEF Reads, Notes, Sane
  <1>6. ASSUME r.phase = "dead" PROVE Sane(q)
    BY <1>1, <1>3, <1>6 DEF Reads, Notes, Sane
  <1>7. Sane(q)
    BY <1>3, <1>4, <1>5, <1>6 DEF Sane
  <1> QED BY <1>7 DEF q

\* and so are the readers of a document.
LEMMA ReadersSane ==
  ASSUME NEW w \in Seq(Text) PROVE \A n \in 0 .. Len(w) : Sane(Readers(w)[n])
  <1> DEFINE Bad == {n \in 0 .. Len(w) : ~Sane(Readers(w)[n])}
  <1>1. SUFFICES ASSUME Bad # {} PROVE FALSE
    OBVIOUS
  <1>2. Len(w) \in Nat
    OBVIOUS
  <1>3. PICK n \in Bad : \A m \in Bad : n <= m
    <2>1. Bad \in SUBSET Nat
      BY <1>2
    <2> QED BY <1>1, <2>1, Least
  <1>4. n # 0
    <2>1. Sane(ReaderStart)
      BY DEF Sane, ReaderStart
    <2> QED BY <1>2, <1>3, <2>1, ReadersEquation
  <1>5. n - 1 \in 0 .. Len(w) /\ n - 1 \notin Bad /\ n \in 1 .. Len(w)
    BY <1>2, <1>3, <1>4
  <1>6. w[n] \in Text /\ Readers(w)[n - 1] \in Readings
    BY <1>5, ReadersType
  <1>7. Readers(w)[n] = ReadLine(Readers(w)[n - 1], w[n])
    BY <1>2, <1>5, ReadersEquation
  <1> QED BY <1>3, <1>5, <1>6, <1>7, ReadLineSane

\* A document without a signature has one error.
LEMMA UnsignedErrors ==
  ASSUME NEW d \in Text, Unsigned(d) PROVE ErrorsOf(d) = {<<"MALFORMED_TAG", 1>>}
  <1>1. Reading(d).phase = "dead"
    BY UnsignedIsDead DEF Dead
  <1>2. Lines(d) \in Seq(Text) /\ Len(Lines(d)) \in 0 .. Len(Lines(d))
    BY LinesAre
  <1>3. Sane(Reading(d))
    BY <1>2, ReadersSane DEF Reading
  <1> QED BY <1>1, <1>3 DEF Sane, ErrorsOf

-----------------------------------------------------------------------------
(* What was reported, wherever the parser is.                              *)

\* The documents whose errors are all found, by an application that lets them pass.
Readable == /\ Lenient /\ Separated(doc) /\ ~Chained(doc)
            /\ ~ArrowAtEnd(doc) /\ ~EndsInToken(doc)

\* The parser has reported what the reader has, and is on its line.
Said == ToSet(errors)
Agrees(r) == Said = r.errors /\ line = r.line

\* What line n of a cue says of the cue.
LineNotes(l, c, n) == CASE HasArrow(l) -> TimingNotes(l, n)
                        [] ~HasArrow(l) /\ c.haveId -> {<<"CUE_INCOMPLETE", n>>}
                        [] OTHER -> {}

\* On the first line,
Spaces(l) == \A i \in DOMAIN l : l[i] = "SP"

SaysInitial ==
  /\ errors = << >>
  /\ tk \in {"none", "WEBVTT"} => line = 1
  /\ tk = "none" /\ tstate = "L_WHITESPACE" => Reader = ReaderStart /\ Left # << >> /\ Spaces(Left)

\* after the signature,
SaysTag ==
  /\ errors = << >>
  /\ tk = "NEWLINE" => line = 2 /\ Reader.line = 2 /\ Reader.errors = {}
  /\ tk # "NEWLINE" => line = 1

\* between cues, where the frame that is popped has counted the line ends,
MissedEol == FromHeader /\ Above.value < 2
Counted == IF tk = "NEWLINE" THEN Reader.phase = "body" ELSE Top.value < 2 <=> Reader.phase = "gap"
Unmissed == MissedEol <=> Reader.phase = "gap"

SaysBetween ==
  /\ Agrees(Reader)
  /\ top = 1 => Top.value > 0 /\ Counted
  /\ top = 0 => Unmissed /\ (tk \in {"none", "NEWLINE"} => ~FromHeader)
  /\ tk = "none" /\ tstate = "L_WEBVTT" => token = <<"WEB">>
  /\ tk = "none" /\ tstate = "L_WHITESPACE" => Spaces(token)

\* on the first lines of a cue, and at the end of one of them,
GapNotes == IF Reader.phase = "gap" THEN {<<"EXPECTED_EOL", line>>} ELSE {}

SaysFirst ==
  /\ Said = Reader.errors \cup GapNotes
  /\ line = Reader.line
  /\ Left = << >> /\ tstate # "L_NEWLINE0" => call = "chunk" /\ More
  /\ TheCue.time = "none"

SaysLook ==
  /\ line + 1 = Reader.line
  /\ Reader.errors = Said \cup LineNotes(Above.text, TheCue, line)
  /\ TheCue.time = "none"

\* and in the text of a cue.
SaysText ==
  \/ Follows(Reader) /\ Left = LastLine /\ (~Marked => tstate = "L_START") /\ Agrees(Reader)
  \/ /\ call = "finish" /\ lineBuf = << >> /\ Follows(Reading(doc))
     /\ Said = Reading(doc).errors

SaysHere ==
  /\ mode = "M_WEBVTT" =>
       /\ Top.state = "T_INITIAL" => SaysInitial
       /\ Top.state = "T_TAG" => SaysTag
       /\ Top.state \in {"T_EOL", "T_BODY"} => SaysBetween
       /\ Top.state = "T_CUEREAD" => SaysFirst
       /\ Top.state = "T_CUE" => SaysLook
  /\ mode = "M_CUETEXT" => SaysText
  /\ mode = "M_SKIP_CUE" => Agrees(Reader)

\* In the end everything is reported.
Exact == lim = Len(doc) => /\ ErrorsOf(doc) \subseteq Said
                           /\ Said \subseteq ErrorsOf(doc) \cup {<<"CUE_INCOMPLETE", line - 1>>}
Done == \/ call = "deleted"
        \/ finished /\ call \in {"idle", "cleanup"}
        \/ /\ call \in {"idle", "finish"} /\ ret = "PARSE_ERROR" /\ mode = "M_WEBVTT"
           /\ Top.state \in {"T_INITIAL", "T_TAG"}

Tells == (~MayFail /\ ~Commented(doc) /\ Readable) =>
  \/ Done /\ (call # "deleted" => Exact)
  \/ Going /\ Following /\ SaysHere

\* A call that goes on without a failure has not come to its end.
LEMMA NotOver ==
  ASSUME Over' \/ (Going' /\ Following'),
         (call' = "chunk" /\ status' # "PARSE_ERROR") \/ (call' = "finish" /\ mode' # "M_WEBVTT")
  PROVE  Going' /\ Following'
  BY DEF Over, Halted, NoLine

\* The members of two sequences, one after the other.
LEMMA ToldBoth ==
  ASSUME NEW S, NEW s \in Seq(S), NEW t \in Seq(S) PROVE ToSet(s \o t) = ToSet(s) \cup ToSet(t)
  <1>1. DOMAIN s = 1 .. Len(s) /\ DOMAIN t = 1 .. Len(t) /\ DOMAIN (s \o t) = 1 .. Len(s) + Len(t)
        /\ Len(s) \in Nat /\ Len(t) \in Nat
    OBVIOUS
  <1>2. \A i \in 1 .. Len(s) : (s \o t)[i] = s[i]
    OBVIOUS
  <1>3. \A i \in 1 .. Len(t) : (s \o t)[Len(s) + i] = t[i]
    OBVIOUS
  <1>4. ASSUME NEW x \in ToSet(s \o t) PROVE x \in ToSet(s) \cup ToSet(t)
    <2>1. PICK i \in 1 .. Len(s) + Len(t) : x = (s \o t)[i]
      BY <1>1 DEF ToSet
    <2>2. CASE i <= Len(s)
      <3>1. i \in 1 .. Len(s) /\ x = s[i]
        BY <1>1, <1>2, <2>1, <2>2
      <3> QED BY <1>1, <3>1 DEF ToSet
    <2>3. CASE i > Len(s)
      <3>1. i - Len(s) \in 1 .. Len(t) /\ Len(s) + (i - Len(s)) = i
        BY <1>1, <2>1, <2>3
      <3>2. x = t[i - Len(s)]
        BY <1>3, <2>1, <3>1
      <3> QED BY <1>1, <3>1, <3>2 DEF ToSet
    <2> QED BY <1>1, <2>1, <2>2, <2>3
  <1>5. ASSUME NEW x \in ToSet(s) PROVE x \in ToSet(s \o t)
    <2>1. PICK i \in 1 .. Len(s) : x = s[i]
      BY <1>1, <1>5 DEF ToSet
    <2>2. i \in 1 .. Len(s) + Len(t)
      BY <1>1
    <2> QED BY <1>1, <1>2, <2>1, <2>2 DEF ToSet
  <1>6. ASSUME NEW x \in ToSet(t) PROVE x \in ToSet(s \o t)
    <2>1. PICK i \in 1 .. Len(t) : x = t[i]
      BY <1>1, <1>6 DEF ToSet
    <2>2. Len(s) + i \in 1 .. Len(s) + Len(t)
      BY <1>1
    <2> QED BY <1>1, <1>3, <2>1, <2>2 DEF ToSet
  <1> QED BY <1>4, <1>5, <1>6

\* What is reported in addition to what was.
LEMMA ReportsMore ==
  ASSUME IInv, NEW codes \in Seq(Codes), NEW l \in Nat, errors' = errors \o AtLine(codes, l)
  PROVE  Said' = Said \cup ToSet(AtLine(codes, l))
  <1> DEFINE S == Codes \X Nat
             s == errors
             t == AtLine(codes, l)
  <1>1. s \in Seq(S) /\ t \in Seq(S)
    BY DEF IInv, TypeOK, AtLine
  <1>2. Said' = ToSet(s \o t) /\ Said = ToSet(s)
    BY DEF Said
  <1> HIDE DEF s, t, S
  <1>3. ToSet(s \o t) = ToSet(s) \cup ToSet(t)
    BY <1>1, ToldBoth
  <1> QED BY <1>2, <1>3 DEF t

\* Nothing was reported.
LEMMA NothingSaid == ASSUME errors = << >> PROVE Said = {}
  BY DEF Said, ToSet

\* What leaves the place and what is held alone reports nothing,
LEMMA SaysOn ==
  ASSUME Sound, ReturnSeen, SaysHere, tk = "none", call # "finish", call = "chunk" => ~More,
         UNCHANGED <<pos, tstate, tk, token, frames, cues, delivered, mode, lineBuf, errors, line>>
  PROVE  SaysHere'
  <1>1. Contents' = Contents /\ doc' = doc
    BY HandsNothing DEF Sound
  <1>2. Reader' = Reader /\ Left' = Left
    BY <1>1, StaysThere
  <1>3. /\ Top' = Top /\ Above' = Above /\ (FromHeader' <=> FromHeader) /\ TheCue' = TheCue
        /\ top' = top /\ Said' = Said
    BY DEF Top, Above, FromHeader, TheCue, frames, Said
  <1>4. SaysInitial => SaysInitial'
    BY <1>2 DEF SaysInitial
  <1>5. SaysTag => SaysTag'
    BY <1>2 DEF SaysTag
  <1>6. SaysBetween => SaysBetween'
    BY <1>2, <1>3 DEF SaysBetween, Agrees, Counted, Unmissed, MissedEol
  <1>7. SaysFirst => SaysFirst'
    BY <1>2, <1>3 DEF SaysFirst, GapNotes
  <1>8. SaysLook => SaysLook'
    BY <1>2, <1>3 DEF SaysLook
  <1>9. SaysText => SaysText'
    <2>1. Follows(Reader)' <=> Follows(Reader)
      BY <1>1, <1>2, <1>3 DEF Follows, Fits, Lenient
    <2>2. LastLine' = LastLine /\ (Marked' <=> Marked)
      BY DEF LastLine, Marked
    <2> QED BY <1>2, <1>3, <2>1, <2>2 DEF SaysText, Agrees
  <1>10. Agrees(Reader) => Agrees(Reader)'
    BY <1>2, <1>3 DEF Agrees
  <1> QED BY <1>3, <1>4, <1>5, <1>6, <1>7, <1>8, <1>9, <1>10 DEF SaysHere

\* as when a client feeds or finishes,
LEMMA ClientSays ==
  ASSUME Sound, Going, Following, SaysHere, Feed \/ FinishCall PROVE Going' /\ Following' /\ SaysHere'
  <1>1. /\ UNCHANGED <<pos, tstate, tk, token, frames, cues, delivered, mode, lineBuf, errors, line>>
        /\ tk = "none" /\ call = "idle" /\ ReturnSeen
    BY DEF Feed, FinishCall, Going, lexer, outcome, heap, input
  <1>2. SaysHere'
    BY <1>1, SaysOn
  <1>3. Going' /\ Following'
    <2>1. CASE Feed
      <3>1. Over' \/ (Going' /\ Following')
        BY <2>1, ClientGoes DEF Client
      <3> QED BY <2>1, <3>1, NotOver DEF Feed
    <2>2. CASE FinishCall
      <3>1. /\ UNCHANGED <<lim, ret>> /\ call' = "finish" /\ status' = "SUCCESS" /\ doc' = doc
            /\ lim = Len(doc) \/ ret \notin Resume
        BY <2>2 DEF FinishCall, input
      <3>2. Following' /\ ReturnSeen'
        BY <1>1, FollowsOn
      <3>3. (mode # "M_SKIP_CUE" \/ {"SUCCESS", "UNFINISHED"} \subseteq Resume) => lim = Len(doc)
        BY <1>1, <3>1, ResumeAssumption DEF Going
      <3> QED BY <1>1, <3>1, <3>2, <3>3 DEF Going
    <2> QED BY <2>1, <2>2
  <1> QED BY <1>2, <1>3

\* and when a chunk is used up.
LEMMA ChunkDoneSays ==
  ASSUME Sound, Going, Following, SaysHere, ChunkDone PROVE SaysHere'
  <1>1. call = "chunk" /\ tk = "none" /\ ~More /\ ReturnSeen
    BY DEF ChunkDone, Going
  <1>2. pos = lim
    BY <1>1 DEF More, Sound, IInv, TypeOK, WithinChunk
  <1>3. UNCHANGED <<pos, tstate, tk, token, frames, cues, delivered, mode, lineBuf, errors, line>>
    BY <1>1, <1>2 DEF ChunkDone, Return, outcome, heap
  <1> QED BY <1>1, <1>3, SaysOn

\* The lexer reports nothing, and counts the lines.
LEMMA LexCounts ==
  ASSUME Sound, Lex
  PROVE  /\ errors' = errors /\ Said' = Said /\ (FromHeader' <=> FromHeader)
         /\ tk' = "NEWLINE" => line' = line + 1
         /\ tk' # "NEWLINE" => line' = line
  BY DEF Lex, outcome, frames, Said, FromHeader, Above

\* Before the signature,
LEMMA LexInitialSays ==
  ASSUME Sound, Going, InInitial, SaysHere, Lex PROVE SaysHere'
  <1>1. ReturnSeen' /\ (LexText \/ LexReturn \/ LexLine \/ LexBack)
    BY LexDoes DEF Going
  <1>2. /\ Left \in Text /\ Sym \in Symbols /\ doc \in Text /\ tk = "none" /\ Top' = Top /\ mode' = mode
        /\ Top.state = "T_INITIAL" /\ mode = "M_WEBVTT"
    BY LexKeeps, Where DEF Sound, Going, InInitial
  <1>3. SaysInitial
    BY <1>2 DEF SaysHere
  <1>4. errors' = << >> /\ (tk' \in {"none", "WEBVTT"} => line' = 1)
    BY <1>2, <1>3, LexCounts DEF SaysInitial
  <1>5. ASSUME tk' = "none", tstate' = "L_WHITESPACE"
        PROVE  Reader' = ReaderStart /\ Left' # << >> /\ Spaces(Left')
    <2>1. /\ LexText /\ tstate \in {"L_START", "L_WHITESPACE"} /\ Sym = "SP" /\ Reader' = Reader
          /\ Left' = Append(Left, Sym)
      BY <1>1, <1>5 DEF LexText, LexReturn, LexLine, LexBack
    <2>2. Reader = ReaderStart /\ Spaces(Left)
      <3>1. CASE tstate = "L_START"
        <4>1. pos = 0
          BY <1>2, <3>1 DEF InInitial
        <4>2. Place = 0
          BY <3>1, <4>1 DEF Place
        <4> QED BY <1>2, <4>2, BeforeFirst DEF Reader, Left, Spaces
      <3>2. CASE tstate = "L_WHITESPACE"
        BY <1>2, <1>3, <3>2 DEF SaysInitial
      <3> QED BY <2>1, <3>1, <3>2
    <2>3. Left' # << >> /\ Spaces(Left')
      <3> DEFINE m == Append(Left, "SP")
                 n == Len(Left)
      <3>1. Left \in Seq(Symbols) /\ "SP" \in Symbols
        BY <1>2 DEF Text, Symbols
      <3>2. m \in Seq(Symbols) /\ Len(m) = n + 1 /\ n \in Nat /\ m[n + 1] = "SP"
            /\ \A i \in 1 .. n : m[i] = Left[i]
        BY <3>1, AppendParts
      <3>3. Left' = m /\ DOMAIN Left = 1 .. n
        BY <2>1, <3>1
      <3> HIDE DEF m
      <3>4. DOMAIN m = 1 .. n + 1 /\ m # << >> /\ \A i \in 1 .. n + 1 : i \in 1 .. n \/ i = n + 1
        BY <3>2
      <3> QED BY <2>2, <3>2, <3>3, <3>4 DEF Spaces
    <2> QED BY <2>1, <2>2, <2>3
  <1>6. SaysInitial'
    BY <1>4, <1>5 DEF SaysInitial
  <1> QED BY <1>2, <1>6 DEF SaysHere

\* The reader is on the second line then.
LEMMA SignatureSaid ==
  ASSUME IInv, ReturnSeen, Len(doc) > 1, doc[1] = "WEB", doc[2] = "VTT", Place = 2
  PROVE  /\ Reader = ReaderStart /\ Left = <<"WEB", "VTT">>
         /\ ReadLine(Reader, Left).line = 2 /\ ReadLine(Reader, Left).errors = {}
  <1>1. Reader = ReaderStart /\ Left = <<"WEB", "VTT">> /\ Reader \in Readings /\ Left \in Text
    BY SignatureRead, Where
  <1>2. IsSignature(<<"WEB", "VTT">>)
    BY DEF IsSignature
  <1>3. Notes(Reader, ReadLine(Reader, Left), Left)
    BY <1>1, ReadLineNotes
  <1>4. Reader.phase = "header" /\ Reader.line = 1 /\ Reader.errors = {}
    BY <1>1 DEF ReaderStart
  <1> QED BY <1>1, <1>2, <1>3, <1>4 DEF Notes

\* after it, up to the end of the line,
LEMMA LexTagSays ==
  ASSUME Sound, Going, InTag, SaysHere, Lex PROVE SaysHere'
  <1>1. ReturnSeen' /\ (LexText \/ LexReturn \/ LexLine \/ LexBack)
    BY LexDoes DEF Going
  <1>2. /\ IInv /\ ReturnSeen /\ tk = "none" /\ Top' = Top /\ mode' = mode /\ Top.state = "T_TAG"
        /\ mode = "M_WEBVTT" /\ Len(doc) \in Nat /\ pos + 1 \in 1 .. Len(doc) /\ pos \in Nat
    BY LexKeeps, Where DEF Sound, Going, InTag
  <1>3. SaysTag
    BY <1>2 DEF SaysHere
  <1>4. errors' = << >> /\ (tk' = "NEWLINE" => line' = 2) /\ (tk' # "NEWLINE" => line' = 1)
    BY <1>2, <1>3, LexCounts DEF SaysTag
  <1>5. ASSUME tk' = "NEWLINE" PROVE Reader'.line = 2 /\ Reader'.errors = {}
    <2>1. LexLine
      BY <1>1, <1>5 DEF LexText, LexReturn, LexBack
    <2>2. tstate \in {"L_START", "L_NEWLINE0"} /\ Reader' = ReadLine(Reader, Left)
      BY <2>1 DEF LexLine
    <2>3. Place = 2
      BY <1>2, <2>2 DEF InTag, Place
    <2>4. Len(doc) > 1 /\ doc[1] = "WEB" /\ doc[2] = "VTT"
      BY <1>2 DEF InTag
    <2> QED BY <1>2, <2>2, <2>3, <2>4, SignatureSaid
  <1>6. SaysTag'
    BY <1>4, <1>5 DEF SaysTag
  <1> QED BY <1>2, <1>6 DEF SaysHere

\* and between cues.
LEMMA LexBetweenSays ==
  ASSUME Sound, Going, Between, SaysHere, Lex PROVE SaysHere'
  <1>1. ReturnSeen' /\ (LexText \/ LexReturn \/ LexLine \/ LexBack)
    BY LexDoes DEF Going
  <1>2. /\ Reader \in Readings /\ Left \in Text /\ token \in Text
        /\ tk = "none" /\ Top' = Top /\ mode' = mode /\ top' = top /\ Above' = Above
        /\ Top.state \in {"T_EOL", "T_BODY"} /\ mode = "M_WEBVTT"
    BY LexKeeps, Where DEF Sound, Going, Between, IInv, TypeOK, Text, InBody, Top
  <1>3. /\ SaysBetween
        /\ (tstate \in {"L_START", "L_NEWLINE0"} => Left = << >>)
        /\ (tstate # "L_NEWLINE0" => Left = token) /\ Reader.phase \in {"gap", "body"}
    BY <1>2 DEF SaysHere, Between
  <1>4. /\ Agrees(Reader) /\ (top = 1 => Top.value > 0 /\ (Top.value < 2 <=> Reader.phase = "gap"))
        /\ (top = 0 => Unmissed /\ ~FromHeader)
        /\ (tstate = "L_WHITESPACE" => Spaces(token))
    BY <1>2, <1>3 DEF SaysBetween, Counted
  <1>5. CASE LexLine
    <2>1. /\ tk' = "NEWLINE" /\ Left = << >> /\ Reader' = ReadLine(Reader, << >>)
          /\ line' = line + 1
      BY <1>3, <1>5, LexCounts DEF LexLine
    <2>2. /\ Notes(Reader, Reader', << >>) /\ Reads(Reader, Reader', << >>)
      BY <1>2, <2>1, ReadLineNotes, ReadLineIs
    <2>3. Reader'.phase = "body" /\ Reader'.errors = Reader.errors /\ Reader'.line = Reader.line + 1
      BY <1>3, <2>2, NoArrowInEmpty DEF Notes, Reads, ReadsBody, BodyNotes
    <2>4. Agrees(Reader)'
      BY <1>4, <2>1, <2>3, LexCounts DEF Agrees
    <2>5. top = 0 => Unmissed' /\ ~FromHeader'
      BY <1>4, <2>3, LexCounts DEF Unmissed, MissedEol
    <2>6. SaysBetween'
      BY <1>2, <1>4, <2>1, <2>3, <2>4, <2>5 DEF SaysBetween, Counted
    <2> QED BY <1>2, <2>6 DEF SaysHere
  <1>6. CASE ~LexLine
    <2>1. Reader' = Reader /\ tk' # "NEWLINE" /\ line' = line
      BY <1>1, <1>6, LexCounts DEF LexText, LexReturn, LexBack
    <2>2. Agrees(Reader)' /\ (top = 0 => Unmissed' /\ ~FromHeader')
      BY <1>2, <1>4, <2>1, LexCounts DEF Agrees, Unmissed, MissedEol
    <2>3. ASSUME tk' = "none", tstate' \in {"L_WEBVTT", "L_WHITESPACE"}
          PROVE  /\ token' = Append(token, Sym)
                 /\ tstate' = "L_WEBVTT" => Sym = "WEB" /\ token = << >>
                 /\ tstate' = "L_WHITESPACE" => Sym = "SP" /\ Spaces(token)
      <3>1. LexText
        BY <1>1, <1>6, <2>3 DEF LexReturn, LexBack
      <3>2. tstate = "L_START" => token = << >>
        BY <1>3
      <3>3. Spaces(<< >>)
        BY DEF Spaces
      <3> QED BY <1>4, <2>3, <3>1, <3>2, <3>3 DEF LexText
    <2>4. tk' = "none" /\ tstate' = "L_WEBVTT" => token' = <<"WEB">>
      BY <2>3
    <2>5. tk' = "none" /\ tstate' = "L_WHITESPACE" => Spaces(token')
      <3> SUFFICES ASSUME tk' = "none", tstate' = "L_WHITESPACE" PROVE Spaces(token')
        OBVIOUS
      <3> DEFINE m == Append(token, "SP")
                 n == Len(token)
      <3>1. token \in Seq(Symbols) /\ "SP" \in Symbols
        BY <1>2 DEF Text, Symbols
      <3>2. m \in Seq(Symbols) /\ Len(m) = n + 1 /\ n \in Nat /\ m[n + 1] = "SP"
            /\ \A i \in 1 .. n : m[i] = token[i]
        BY <3>1, AppendParts
      <3>3. token' = m /\ DOMAIN token = 1 .. n /\ Spaces(token)
        BY <2>3, <3>1
      <3> HIDE DEF m
      <3>4. DOMAIN m = 1 .. n + 1 /\ \A i \in 1 .. n + 1 : i \in 1 .. n \/ i = n + 1
        BY <3>2
      <3> QED BY <3>2, <3>3, <3>4 DEF Spaces
    <2>6. SaysBetween'
      BY <1>2, <1>4, <2>1, <2>2, <2>4, <2>5 DEF SaysBetween, Counted
    <2> QED BY <1>2, <2>6 DEF SaysHere
  <1> QED BY <1>5, <1>6

\* What a token does before the signature,
LEMMA SignatureSays ==
  ASSUME Sound, Going, Following, SaysHere, InitialSignature PROVE SaysHere'
  <1>1. InInitial /\ tk = "WEBVTT" /\ mode = "M_WEBVTT" /\ Top.state = "T_INITIAL" /\ top = 0
    BY LooksAtToken DEF InitialSignature, InInitial
  <1>2. SaysInitial
    BY <1>1 DEF SaysHere
  <1>3. /\ Push("T_TAG") /\ tk' = "none" /\ UNCHANGED <<errors, line, mode>>
    BY DEF InitialSignature, EndTurn, Quiet, outcome
  <1>4. Top'.state = "T_TAG"
    <2>1. stack \in [Depth -> Frame]
      BY DEF Sound, IInv, TypeOK
    <2> QED BY <1>1, <1>3, <2>1 DEF Push, Top, NewFrame, Depth
  <1>5. SaysTag'
    BY <1>1, <1>2, <1>3 DEF SaysInitial, SaysTag
  <1> QED BY <1>1, <1>3, <1>4, <1>5 DEF SaysHere

\* after it,
LEMMA TagSays ==
  ASSUME Sound, Going, Following, SaysHere, TagNewline PROVE SaysHere'
  <1>1. InTag /\ tk = "NEWLINE" /\ mode = "M_WEBVTT" /\ Top.state = "T_TAG" /\ top = 1
        /\ call = "chunk"
    BY LooksAtToken DEF TagNewline, InTag
  <1>2. SaysTag
    BY <1>1 DEF SaysHere
  <1>3. /\ EndTurn /\ PopBackAndCount("T_BODY") /\ UNCHANGED <<errors, line, mode, finished, lineBuf>>
    BY DEF TagNewline, Quiet, outcome
  <1>4. tk' = "none" /\ tstate' = "L_START" /\ Reader' = Reader
    BY <1>1, <1>3, TurnEnds
  <1>5. Top.back = 1 /\ stack \in [Depth -> Frame]
    BY <1>1 DEF Sound, IInv, TypeOK, StackShape, MiddleShape, Live
  <1>6. top' = 1 /\ Top'.state = "T_EOL" /\ Top'.value = 1
    <2>1. top - Top.back = 0 /\ (top - Top.back) + 1 = 1
      BY <1>1, <1>5
    <2> DEFINE g == WithValue(NewFrame("T_EOL", "V_INTEGER", 1), 1)
    <2>2. stack' = [stack EXCEPT ![0] = BackTo(@, "T_BODY"), ![1] = g] /\ top' = 1
      BY <1>3, <2>1 DEF PopBackAndCount
    <2>3. g.state = "T_EOL" /\ g.value = 1
      BY DEF WithValue, NewFrame
    <2> HIDE DEF g
    <2> QED BY <1>5, <2>2, <2>3 DEF Depth, Top
  <1>7. SaysBetween'
    <2>1. Agrees(Reader)' /\ Reader'.phase = "gap"
      BY <1>1, <1>2, <1>3, <1>4, NothingSaid DEF SaysTag, Agrees, InTag, Said
    <2> QED BY <1>4, <1>6, <2>1 DEF SaysBetween, Counted
  <1> QED BY <1>1, <1>3, <1>6, <1>7 DEF SaysHere

\* at the end of a line,
LEMMA EolSays ==
  ASSUME Sound, Going, Following, SaysHere, EolCount \/ EolPop PROVE SaysHere'
  <1>1. Between /\ tk # "none" /\ call = "chunk" /\ mode = "M_WEBVTT" /\ Top.state = "T_EOL"
        /\ top = 1
    BY LooksAtToken DEF EolCount, EolPop
  <1>2. stack \in [Depth -> Frame] /\ stack[0] \in Frame /\ stack[1] \in Frame
        /\ stack[1].state = "T_EOL" /\ stack[0].state = "T_BODY" /\ Top = stack[1]
    BY <1>1 DEF Sound, IInv, TypeOK, Depth, Between, InBody, Top
  <1>3. Agrees(Reader) /\ Top.value > 0 /\ Counted /\ Top.value \in Nat
    BY <1>1, <1>2 DEF SaysHere, SaysBetween, Frame
  <1>4. UNCHANGED <<errors, line, mode, finished, lineBuf>>
    BY DEF EolCount, EolPop, Quiet, outcome
  <1>5. CASE EolCount
    <2>1. EndTurn /\ tk = "NEWLINE" /\ stack' = [stack EXCEPT ![1] = WithValue(@, @.value + 1)]
          /\ top' = 1
      BY <1>1, <1>5 DEF EolCount
    <2>2. tk' = "none" /\ tstate' = "L_START" /\ Reader' = Reader
      BY <1>1, <1>4, <2>1, TurnEnds
    <2>3. Top'.state = "T_EOL" /\ Top'.value = Top.value + 1
      BY <1>2, <2>1 DEF WithValue, Frame, Depth, Top
    <2>4. Agrees(Reader)' /\ Counted'
      BY <1>3, <1>4, <2>1, <2>2, <2>3 DEF Agrees, Said, Counted
    <2>5. SaysBetween'
      BY <1>3, <2>1, <2>2, <2>3, <2>4 DEF SaysBetween
    <2> QED BY <1>1, <1>4, <2>3, <2>5 DEF SaysHere
  <1>6. CASE EolPop
    <2>1. /\ UNCHANGED <<doc, pos, tstate, token, tk>> /\ tk # "NEWLINE"
          /\ top' = top - Top.back /\ popped' = TRUE
          /\ stack' = [stack EXCEPT ![top - Top.back] = BackTo(@, @.state)]
      BY <1>6 DEF EolPop, input, lexer
    <2>2. Top.back = 1
      BY <1>1 DEF Sound, IInv, StackShape, MiddleShape, Live
    <2>3. top - Top.back = 0 /\ 0 + 1 = 1
      BY <1>1, <2>2
    <2>4. top' = 0 /\ stack'[0].state = "T_BODY" /\ stack'[1] = stack[1]
      BY <1>2, <2>1, <2>3 DEF BackTo, Frame, Depth
    <2>5. FromHeader' /\ Above'.value = Top.value /\ Top'.state = "T_BODY"
      BY <1>2, <2>1, <2>3, <2>4 DEF FromHeader, Above, Top
    <2>6. Reader' = Reader
      BY <2>1, StaysThere DEF Going
    <2>7. Agrees(Reader)' /\ Unmissed'
      BY <1>3, <1>4, <2>1, <2>5, <2>6 DEF Agrees, Said, Unmissed, MissedEol, Counted
    <2>8. SaysBetween'
      BY <1>1, <2>1, <2>4, <2>7 DEF SaysBetween
    <2> QED BY <1>1, <1>4, <2>5, <2>8 DEF SaysHere
  <1> QED BY <1>5, <1>6

\* What is reported in one place.
LEMMA ReportIs ==
  ASSUME NEW codes, NEW die, ~Report(codes, die).dead PROVE Report(codes, die).codes = codes
  BY DEF Report

\* and between cues, where a line end is missing, or the first line of a cue begins.
LEMMA BodySays ==
  ASSUME Sound, Going, Following, SaysHere, Dies \subseteq {0}, NEW die \in Dies,
         BodyDead(die) \/ BodyNewline(die) \/ BodyCue(die) \/ BodyStarved(die)
  PROVE  SaysHere'
  <1>1. On("T_BODY") /\ IInv /\ ~MayFail
    BY DEF BodyDead, BodyNewline, BodyCue, BodyStarved, Sound
  <1>2. Between /\ tk # "none" /\ call = "chunk" /\ mode = "M_WEBVTT" /\ Top.state = "T_BODY"
        /\ top = 0
    BY <1>1, LooksAtToken
  <1>3. stack \in [Depth -> Frame] /\ stack[0].state = "T_BODY" /\ stack[1] \in Frame
    BY <1>1, <1>2 DEF IInv, TypeOK, Depth, Top
  <1>4. ~Report(BodyReports, die).dead
    BY <1>1, NothingRefused
  <1>5. ~BodyDead(die) /\ ~BodyStarved(die)
    BY <1>1, <1>4 DEF BodyDead, BodyStarved
  <1>6. Report(BodyReports, die).codes = BodyReports
    BY <1>4, ReportIs
  <1>7. SaysBetween /\ Agrees(Reader) /\ Unmissed /\ (tk = "NEWLINE" => ~FromHeader)
    BY <1>2 DEF SaysHere, SaysBetween
  <1>8. BodyReports = IF MissedEol THEN <<"EXPECTED_EOL">> ELSE << >>
    BY DEF BodyReports, MissedEol
  <1>9. BodyStack[0] = stack[0] /\ BodyStack \in [Depth -> Frame]
    <2>1. CASE FromHeader
      <3> DEFINE f == InState(ClearValue(stack[1]), "T_INITIAL")
      <3>1. f \in Frame
        BY <1>3, EmptySeq DEF InState, ClearValue, Frame, States, Depth
      <3> HIDE DEF f
      <3>2. 0 + 1 = 1
        OBVIOUS
      <3>3. BodyStack = [stack EXCEPT ![1] = f]
        BY <1>2, <2>1, <3>2 DEF BodyStack, f
      <3> QED BY <1>3, <3>1, <3>3 DEF Depth
    <2>2. CASE ~FromHeader
      BY <1>3, <2>2 DEF BodyStack
    <2> QED BY <2>1, <2>2
  <1>10. CASE BodyNewline(die)
    <2>1. /\ EndTurn /\ UNCHANGED <<mode, finished, lineBuf, top, popped, line>> /\ tk = "NEWLINE"
          /\ stack' = BodyStack /\ errors' = errors \o AtLine(Report(BodyReports, die).codes, line)
      BY <1>10 DEF BodyNewline
    <2>2. ~FromHeader
      BY <1>7, <2>1
    <2>3. stack' = stack /\ BodyReports = << >>
      BY <1>8, <2>1, <2>2 DEF BodyStack, MissedEol
    <2>4. errors' = errors
      <3>1. AtLine(<< >>, line) = << >>
        BY DEF AtLine
      <3>2. errors \in Seq(Codes \X Nat)
        BY <1>1 DEF IInv, TypeOK
      <3> QED BY <1>6, <2>1, <2>3, <3>1, <3>2
    <2>5. tk' = "none" /\ tstate' = "L_START" /\ Reader' = Reader
      BY <1>1, <1>2, <2>1, TurnEnds
    <2>6. Top' = Top /\ (FromHeader' <=> FromHeader) /\ Above' = Above
      BY <2>1, <2>3 DEF Top, FromHeader, Above
    <2>7. SaysBetween'
      BY <1>2, <1>7, <2>1, <2>2, <2>4, <2>5, <2>6 DEF SaysBetween, Agrees, Said, Unmissed, MissedEol
    <2> QED BY <1>2, <2>1, <2>6, <2>7 DEF SaysHere
  <1>11. CASE BodyCue(die)
    <2> DEFINE f == WithCue(NewFrame("T_CUE", "V_CUE", Top.back + 1), Len(cues) + 1)
               g == WithText(NewFrame("T_CUEREAD", "V_TEXT", Top.back + 2), token)
    <2>1. EndTurn /\ UNCHANGED <<mode, finished, lineBuf, line>> /\ tk # "NEWLINE"
          /\ cues' = Append(cues, NewCue)
          /\ stack' = [BodyStack EXCEPT ![top + 1] = f, ![top + 2] = g] /\ top' = top + 2
          /\ errors' = errors \o AtLine(Report(BodyReports, die).codes, line)
      BY <1>11 DEF BodyCue
    <2>2. 0 + 1 = 1 /\ 0 + 2 = 2
      OBVIOUS
    <2>3. top' = 2 /\ stack' = [BodyStack EXCEPT ![1] = f, ![2] = g]
      BY <1>2, <2>1, <2>2
    <2>4. f.cue = Len(cues) + 1 /\ g.state = "T_CUEREAD"
      BY DEF WithCue, WithText, NewFrame
    <2> HIDE DEF f, g
    <2>5. stack'[1] = f /\ stack'[2] = g
      BY <1>9, <2>3 DEF Depth
    <2>6. cues \in Seq(Cue) /\ line \in Nat
      BY <1>1 DEF IInv, TypeOK
    <2>7. cues'[Len(cues) + 1] = NewCue
      BY <2>1, <2>6
    <2>8. TheCue'.time = "none" /\ Top'.state = "T_CUEREAD"
      BY <2>3, <2>4, <2>5, <2>7 DEF TheCue, Top, NewCue
    <2>9. /\ tk' = "none" /\ tstate' = "L_START" /\ Reader' = Reader
          /\ Left' = Left /\ (More' <=> More) /\ call' = "chunk"
      BY <1>1, <1>2, <2>1, TurnEnds
    <2>10. Left = token /\ (token = << >> => More)
      BY <1>2, <2>1 DEF Between
    <2>11. Said' = Said \cup GapNotes
      <3>1. BodyReports \in Seq(Codes)
        <4>1. "EXPECTED_EOL" \in Codes
          BY DEF Codes
        <4>2. <<"EXPECTED_EOL">> \in Seq(Codes) /\ << >> \in Seq(Codes)
          BY <4>1
        <4> QED BY <1>8, <4>2
      <3>2. Said' = Said \cup ToSet(AtLine(BodyReports, line))
        BY <1>1, <1>6, <2>1, <2>6, <3>1, ReportsMore
      <3>3. ToSet(AtLine(BodyReports, line)) = GapNotes
        BY <1>7, <1>8, ToldOnce DEF GapNotes, Unmissed
      <3> QED BY <3>2, <3>3
    <2>12. SaysFirst'
      BY <1>7, <2>1, <2>8, <2>9, <2>10, <2>11 DEF SaysFirst, Agrees, GapNotes
    <2> QED BY <1>2, <2>1, <2>8, <2>12 DEF SaysHere
  <1> QED BY <1>5, <1>10, <1>11

\* What one reports of a line that starts a cue.
LEMMA FirstNotes ==
  ASSUME NEW r \in Readings, NEW q, NEW l, Notes(r, q, l),
         NEW c, ~c.haveId, l # << >>, r.phase \in {"gap", "body"}
  PROVE  /\ q.line = r.line + 1
         /\ q.errors = (r.errors \cup IF r.phase = "gap" THEN {<<"EXPECTED_EOL", r.line>>} ELSE {})
                       \cup LineNotes(l, c, r.line)
  <1>1. LineNotes(l, c, r.line) = BodyNotes(l, r.line)
    BY DEF LineNotes, BodyNotes
  <1>2. CASE r.phase = "gap"
    BY <1>1, <1>2 DEF Notes
  <1>3. CASE r.phase = "body"
    BY <1>1, <1>3 DEF Notes
  <1> QED BY <1>2, <1>3

\* and of the line after the id.
LEMMA SecondNotes ==
  ASSUME NEW r \in Readings, NEW q, NEW l, Notes(r, q, l), NEW c, c.haveId, r.phase = "id"
  PROVE  q.line = r.line + 1 /\ q.errors = r.errors \cup LineNotes(l, c, r.line)
  BY DEF Notes, LineNotes

\* The first lines of a cue are read without a word,
LEMMA CueReadSays ==
  ASSUME Sound, Going, InFirstLines, SaysHere, CueReadText \/ CueReadEol \/ CueReadNewline
  PROVE  SaysHere'
  <1>1. /\ Turn /\ call = "chunk" /\ mode = "M_WEBVTT" /\ tk = "none" /\ More /\ doc' = doc
        /\ UNCHANGED <<call, mode, cues, errors, line, lim>>
    BY DEF CueReadText, CueReadEol, CueReadNewline, Turn, calling, Quiet, outcome, heap, Going,
      Sound, input
  <1>2. /\ top = 2 /\ Top = stack[2] /\ stack \in [Depth -> Frame] /\ stack[2] \in Frame
        /\ stack[1].state = "T_CUE" /\ stack[2].state = "T_CUEREAD"
    BY CueFrame
  <1>3. Reader \in Readings /\ Left \in Text /\ Sym \in Symbols /\ IInv /\ ReturnSeen /\ pos \in Nat
        /\ lim \in Nat
    BY <1>1, Where DEF Sound, Going
  <1>4. /\ Left = stack[2].text /\ (stack[2].flags = 0 => tstate = "L_START")
        /\ (FirstLine \/ SecondLine)
    BY <1>2 DEF InFirstLines
  <1>5. SaysFirst
    BY <1>1, <1>2 DEF SaysHere
  <1>6. ASSUME Reader' = Reader, stack'[1] = stack[1]
        PROVE  TheCue' = TheCue /\ GapNotes' = GapNotes /\ Said' = Said
    BY <1>1, <1>6 DEF TheCue, GapNotes, Said
  <1>7. CASE CueReadText
    <2> DEFINE f == WithText(stack[2], Append(stack[2].text, Sym))
    <2>1. /\ stack' = [stack EXCEPT ![2] = f] /\ pos' = pos + 1 /\ UNCHANGED <<tstate, top>>
          /\ ~IsEol(Sym) /\ stack[2].flags = 0
      BY <1>2, <1>7 DEF CueReadText, lexer
    <2>2. f.state = "T_CUEREAD"
      BY <1>2 DEF WithText, Frame
    <2> HIDE DEF f
    <2>3. stack'[1] = stack[1] /\ stack'[2] = f
      BY <1>2, <2>1 DEF Depth
    <2>4. Reader' = Reader /\ Left' = Append(Left, Sym)
      BY <1>1, <1>3, <1>4, <2>1, UsesText
    <2>5. Left' # << >>
      BY <1>3, <2>4 DEF Text
    <2>6. Top'.state = "T_CUEREAD"
      BY <1>2, <2>1, <2>2, <2>3 DEF Top
    <2>7. SaysFirst'
      BY <1>1, <1>5, <1>6, <2>3, <2>4, <2>5 DEF SaysFirst
    <2> QED BY <1>1, <2>6, <2>7 DEF SaysHere
  <1>8. CASE CueReadEol
    <2> DEFINE f == AtEol(stack[2])
    <2>1. /\ stack' = [stack EXCEPT ![2] = f] /\ UNCHANGED <<pos, tstate, top>>
      BY <1>2, <1>8 DEF CueReadEol, lexer, input
    <2>2. f.state = "T_CUEREAD"
      BY <1>2 DEF AtEol, Frame
    <2> HIDE DEF f
    <2>3. stack'[1] = stack[1] /\ stack'[2] = f
      BY <1>2, <2>1 DEF Depth
    <2>4. Reader' = Reader /\ Left' = Left /\ (More' <=> More)
      BY <1>1, <1>3, <2>1, StaysThere DEF More
    <2>6. Top'.state = "T_CUEREAD"
      BY <1>2, <2>1, <2>2, <2>3 DEF Top
    <2>7. SaysFirst'
      BY <1>1, <1>5, <1>6, <2>1, <2>3, <2>4 DEF SaysFirst
    <2> QED BY <1>1, <2>6, <2>7 DEF SaysHere
  <1>9. CASE CueReadNewline
    <2> DEFINE x == LexedNewline(tstate, Sym)
    <2>1. /\ Consume(x) /\ x.token # "BADTOKEN" /\ stack' = stack /\ stack[2].flags = 1
          /\ (x.token = "NEWLINE" => top' = top - 1 /\ popped' = TRUE)
          /\ (x.token # "NEWLINE" => UNCHANGED <<top, popped>>)
      BY <1>2, <1>9 DEF CueReadNewline
    <2>2. CASE x.token # "NEWLINE"
      <3>1. x = Step("none", "L_NEWLINE0", TRUE) /\ Sym = "CR" /\ tstate = "L_START"
        BY <2>1, <2>2 DEF LexedNewline, Step
      <3>2. pos' = pos + 1 /\ tstate' = "L_NEWLINE0"
        BY <2>1, <3>1 DEF Consume, Step
      <3>3. Reader' = Reader
        BY <1>1, <1>3, <3>1, <3>2, UsesReturn
      <3>6. Top'.state = "T_CUEREAD"
        BY <1>2, <2>1, <2>2 DEF Top
      <3>7. SaysFirst'
        BY <1>1, <1>5, <1>6, <2>1, <3>2, <3>3 DEF SaysFirst
      <3> QED BY <1>1, <3>6, <3>7 DEF SaysHere
    <2>3. CASE x.token = "NEWLINE"
      <3>1. \/ x = Step("NEWLINE", "L_START", TRUE) /\ Sym = "LF" /\ tstate # "L_NEWLINE0"
            \/ x = Step("NEWLINE", "L_START", Sym = "LF") /\ tstate = "L_NEWLINE0"
        BY <2>3 DEF LexedNewline, Step
      <3> HIDE DEF x
      <3>2. Reader' = ReadLine(Reader, Left)
        BY <1>1, <1>3, <2>1, <3>1, UsesLine
      <3>3. top' = 1 /\ 1 + 1 = 2
        BY <1>2, <2>1, <2>3
      <3>4. Top'.state = "T_CUE" /\ Above' = stack[2] /\ TheCue' = TheCue
        BY <1>1, <1>2, <2>1, <3>3 DEF Top, Above, TheCue
      <3>5. Notes(Reader, Reader', Left)
        BY <1>3, <3>2, ReadLineNotes
      <3>6. Reader'.errors = Said \cup LineNotes(Left, TheCue, line) /\ Reader'.line = line + 1
        <4> DEFINE q == Reader'
        <4> HIDE DEF q
        <4>1. Notes(Reader, q, Left)
          BY <3>5 DEF q
        <4>2. ASSUME FirstLine PROVE q.errors = Said \cup LineNotes(Left, TheCue, line) /\ q.line = line + 1
          <5>1. Left # << >> /\ ~TheCue.haveId /\ Reader.phase \in {"gap", "body"}
            BY <1>2, <2>1, <4>2 DEF FirstLine
          <5>2. Said = Reader.errors \cup (IF Reader.phase = "gap" THEN {<<"EXPECTED_EOL", line>>} ELSE {})
                /\ line = Reader.line
            BY <1>5 DEF SaysFirst, GapNotes
          <5> DEFINE said == Reader.errors
                             \cup IF Reader.phase = "gap" THEN {<<"EXPECTED_EOL", Reader.line>>} ELSE {}
          <5>3. q.line = Reader.line + 1 /\ q.errors = said \cup LineNotes(Left, TheCue, Reader.line)
            BY <1>3, <4>1, <5>1, FirstNotes
          <5>4. Said = said
            BY <5>2
          <5> HIDE DEF said
          <5> QED BY <5>2, <5>3, <5>4
        <4>3. ASSUME SecondLine PROVE q.errors = Said \cup LineNotes(Left, TheCue, line) /\ q.line = line + 1
          <5>1. TheCue.haveId /\ Reader.phase = "id"
            BY <4>3 DEF SecondLine
          <5>2. Said = Reader.errors /\ line = Reader.line
            BY <1>5, <5>1 DEF SaysFirst, GapNotes
          <5>3. q.line = Reader.line + 1 /\ q.errors = Reader.errors \cup LineNotes(Left, TheCue, Reader.line)
            BY <1>3, <4>1, <5>1, SecondNotes
          <5> QED BY <5>2, <5>3
        <4> QED BY <1>4, <4>2, <4>3 DEF q
      <3>7. SaysLook'
        <4>1. Above'.text = Left /\ Said' = Said /\ line' = line
          BY <1>1, <1>4, <3>4 DEF Said
        <4>2. TheCue'.time = "none"
          BY <1>5, <3>4 DEF SaysFirst
        <4> QED BY <3>4, <3>6, <4>1, <4>2 DEF SaysLook
      <3> QED BY <1>1, <3>4, <3>7 DEF SaysHere
    <2> QED BY <2>2, <2>3
  <1> QED BY <1>7, <1>8, <1>9

\* What a line of a cue reports, when every report passes.
SaysAll(r, l, c, n) ==
  /\ r.codes \in Seq(Codes)
  /\ ToSet(AtLine(r.codes, n)) = LineNotes(l, c, n)
  /\ r.again => LineNotes(l, c, n) = {} /\ r.cue.time = c.time
  /\ ~r.again => r.mode \in {"M_CUETEXT", "M_SKIP_CUE"}

\* It reports what the reader does.
LEMMA LineSays ==
  ASSUME NEW c \in Cue, NEW f \in Frame, f.type = "V_TEXT", NEW die \in Dies,
         NEW fails \in Failing, ~MayFail, Dies \subseteq {0}, Separated(f.text), NEW n
  PROVE  SaysAll(ProcCueLine(c, f, die, fails), f.text, c, n)
  <1> DEFINE l == f.text
             r == ProcCueLine(c, f, die, fails)
  <1>1. l \in Seq(Symbols) /\ fails = FALSE /\ die \in Nat
    BY NothingRefused DEF Frame, Failing
  <1>2. r.codes \in Seq(Codes)
    BY <1>1, ProcCueLineType DEF LineResult
  <1>3. CASE HasArrow(l)
    <2> DEFINE k == TimingKind(l)
               w == Report(TimingReports(k), die)
               s == IF w.dead THEN TimingDeadStatus(k) ELSE TimingStatus(k)
    <2>1. r = TimingsLine(c, l, die)
      BY <1>3 DEF ProcCueLine
    <2>2. /\ r.codes = w.codes /\ (r.again <=> FALSE)
          /\ r.mode = (CASE s = "SUCCESS" -> "M_CUETEXT"
                         [] s = "BAD_CUE" -> "M_SKIP_CUE"
                         [] OTHER         -> "M_WEBVTT")
      BY <2>1 DEF TimingsLine
    <2>3. ~w.dead
      BY NothingRefused
    <2>4. w.codes = TimingReports(k)
      BY <2>3, ReportIs
    <2>5. k # "NOSEP"
      BY <1>1, TimingsSeparated
    <2> HIDE DEF k, w, r
    <2>6. s \in {"SUCCESS", "BAD_CUE"}
      BY <2>3, <2>5 DEF TimingStatus
    <2>7. r.mode \in {"M_CUETEXT", "M_SKIP_CUE"}
      BY <2>2, <2>6
    <2>8. ToSet(AtLine(r.codes, n)) = TimingNotes(l, n)
      BY <2>2, <2>4 DEF TimingNotes, k
    <2>9. LineNotes(l, c, n) = TimingNotes(l, n)
      BY <1>3 DEF LineNotes
    <2>10. SaysAll(r, l, c, n)
      BY <1>2, <2>2, <2>7, <2>8, <2>9 DEF SaysAll
    <2> QED BY <2>10 DEF r
  <1>4. CASE ~HasArrow(l) /\ c.haveId
    <2> DEFINE w == Report(<<"CUE_INCOMPLETE">>, die)
    <2>1. r = SecondIdLine(c, die)
      BY <1>4 DEF ProcCueLine
    <2>2. /\ r.codes = w.codes /\ (r.again <=> FALSE)
          /\ r.mode = (IF w.dead THEN "M_WEBVTT" ELSE "M_SKIP_CUE")
      BY <2>1 DEF SecondIdLine
    <2>3. ~w.dead
      BY NothingRefused
    <2>4. w.codes = <<"CUE_INCOMPLETE">>
      BY <2>3, ReportIs
    <2> HIDE DEF w, r, l
    <2>5. ToSet(AtLine(r.codes, n)) = {<<"CUE_INCOMPLETE", n>>}
      BY <2>2, <2>4, ToldOnce
    <2>6. LineNotes(l, c, n) = {<<"CUE_INCOMPLETE", n>>}
      BY <1>4 DEF LineNotes
    <2>7. SaysAll(r, l, c, n)
      BY <1>2, <2>2, <2>3, <2>5, <2>6 DEF SaysAll
    <2> QED BY <2>7 DEF r, l
  <1>5. CASE ~HasArrow(l) /\ ~c.haveId
    <2>1. r = IdLine(c, l)
      BY <1>1, <1>5 DEF ProcCueLine
    <2>2. r.cue = [c EXCEPT !.id = l, !.haveId = TRUE] /\ r.codes = << >> /\ (r.again <=> TRUE)
      BY <2>1 DEF IdLine
    <2> HIDE DEF r, l
    <2>3. r.cue.time = c.time
      BY <2>2 DEF Cue
    <2>4. LineNotes(l, c, n) = {}
      BY <1>5 DEF LineNotes
    <2>5. SaysAll(r, l, c, n)
      BY <1>2, <2>2, <2>3, <2>4, ToldOnce DEF SaysAll
    <2> QED BY <2>5 DEF r, l
  <1> QED BY <1>3, <1>4, <1>5

\* So it is when the parser looks at it,
LEMMA CueLineSays ==
  ASSUME Sound, Going, LineToLookAt, SaysHere, TextsSeparated, Dies \subseteq {0},
         NEW die \in Dies, NEW fails \in Failing, CueLine(die, fails)
  PROVE  SaysHere' /\ (mode' # "M_WEBVTT" \/ Top'.state # "T_CUE")
  <1> DEFINE k == stack[1].cue
             f == stack[2]
             c == TheCue
             r == ProcCueLine(c, f, die, fails)
             g == Vacate(f)
             stk == [stack EXCEPT ![2] = g]
  <1>1. /\ stack \in [Depth -> Frame] /\ f \in Frame
        /\ stack[1].state = "T_CUE" /\ f.type = "V_TEXT"
        /\ k \in DOMAIN cues /\ cues \in Seq(Cue) /\ c \in Cue /\ top = 1 /\ Top = stack[1]
        /\ Above = f
    BY CueFrame
  <1>2. /\ tk = "none" /\ tstate = "L_START" /\ Left = << >> /\ mode = "M_WEBVTT"
        /\ Understood(f.text, c, Reader) /\ c.body = << >>
    BY <1>1 DEF LineToLookAt
  <1>3. 1 + 1 = 2
    OBVIOUS
  <1>4. /\ cues' = [cues EXCEPT ![k] = r.cue] /\ stack' = AfterLine(stk, 1, r)
        /\ top' = (IF r.again THEN 2 ELSE 1) /\ mode' = r.mode
        /\ UNCHANGED <<pos, lim, call, tstate, tk, delivered, lineBuf>>
        /\ call = "chunk" /\ More /\ doc' = doc
        /\ errors' = errors \o AtLine(r.codes, line) /\ line' = line + 1
    <2> HIDE DEF r
    <2>1. c = cues[Top.cue] /\ k = Top.cue
      BY <1>1 DEF TheCue
    <2> QED BY <1>1, <1>3, <2>1 DEF CueLine, Turn, input, r
  <1>5. Reader \in Readings /\ ~MayFail /\ ReturnSeen /\ IInv /\ line \in Nat
    BY Where DEF Sound, Going, IInv, TypeOK
  <1>6. Separated(f.text)
    BY DEF TextsSeparated, Depth
  <1>7. SaysAll(r, f.text, c, line) /\ TellsAll(f.text, c, Reader, r)
    BY <1>1, <1>2, <1>5, <1>6, LineSays, LineTells
  <1>8. SaysLook /\ c.time = "none"
    BY <1>1, <1>2 DEF SaysHere, SaysLook
  <1>9. Reader' = Reader /\ Left' = Left /\ (More' <=> More)
    BY <1>4, <1>5, StaysThere DEF More
  <1>10. lineBuf' = << >> /\ LastLine' = << >> /\ ~Marked'
    BY <1>2, <1>4 DEF Going, LastLine, Marked
  <1> HIDE DEF r, c
  <1>11. Said' = Said \cup LineNotes(f.text, c, line)
    BY <1>4, <1>5, <1>7, ReportsMore DEF SaysAll
  <1>12. Agrees(Reader)'
    BY <1>1, <1>4, <1>8, <1>9, <1>11 DEF Agrees, SaysLook, c
  <1>13. cues'[k] = r.cue
    BY <1>1, <1>4
  <1>14. CASE ~r.again
    <2>1. stack' = stk /\ top' = 1
      BY <1>4, <1>14 DEF AfterLine
    <2>2. stack'[1] = stack[1]
      BY <1>1, <2>1 DEF Depth
    <2>3. TheCue' = r.cue
      BY <1>13, <2>2 DEF TheCue
    <2>4. mode' \in {"M_CUETEXT", "M_SKIP_CUE"}
      BY <1>4, <1>7, <1>14 DEF SaysAll
    <2>5. CASE mode' = "M_CUETEXT"
      <3>1. Reader'.phase = "text" /\ Reader'.cue = AsSeen(r.cue)
        BY <1>4, <1>7, <1>9, <2>5 DEF TellsAll
      <3>2. Fits(Contents', Reader'.cues)
        <4>1. Contents' = Contents
          BY <1>4, HandsNothing
        <4> QED BY <1>9, <4>1 DEF LineToLookAt, Fit, Fits, Lenient
      <3>3. Follows(Reader)'
        BY <2>3, <3>1, <3>2 DEF Follows
      <3>4. SaysText'
        BY <1>2, <1>4, <1>9, <1>10, <1>12, <3>3 DEF SaysText
      <3> QED BY <2>5, <3>4 DEF SaysHere
    <2>6. CASE mode' = "M_SKIP_CUE"
      BY <1>12, <2>6 DEF SaysHere
    <2> QED BY <2>4, <2>5, <2>6
  <1>15. CASE r.again
    <2> DEFINE h == NewFrame("T_CUEREAD", "V_TEXT", stk[1].back + 1)
    <2>1. mode' = "M_WEBVTT" /\ Reader.phase = "id"
      BY <1>4, <1>7, <1>15 DEF TellsAll
    <2>2. stack' = [stk EXCEPT ![2] = h] /\ top' = 2
      BY <1>3, <1>4, <1>15 DEF AfterLine
    <2>3. h.state = "T_CUEREAD"
      BY DEF NewFrame
    <2> HIDE DEF h, g
    <2>4. stack'[1] = stack[1] /\ stack'[2] = h
      BY <1>1, <2>2 DEF Depth
    <2>5. TheCue' = r.cue /\ Top'.state = "T_CUEREAD"
      BY <1>13, <2>2, <2>3, <2>4 DEF TheCue, Top
    <2>6. TheCue'.time = "none" /\ call' = "chunk" /\ More'
      BY <1>4, <1>7, <1>8, <1>9, <1>15, <2>5 DEF SaysAll
    <2>7. SaysFirst'
      <3>1. GapNotes' = {}
        BY <1>9, <2>1 DEF GapNotes
      <3> QED BY <1>12, <2>6, <3>1 DEF SaysFirst, Agrees
    <2> QED BY <2>1, <2>5, <2>7 DEF SaysHere
  <1> QED BY <1>14, <1>15

\* In the text of a cue what follows the reader agrees with it.
LEMMA TextAgrees ==
  ASSUME Following', call' = "chunk", mode' \in {"M_CUETEXT", "M_SKIP_CUE"}, Agrees(Reader)'
  PROVE  SaysHere'
  <1>1. CASE mode' = "M_CUETEXT"
    <2>1. InCueText'
      BY <1>1 DEF Following, InInitial, InTag, Between, InFirstLines, LineToLookAt, InSkipped
    <2>2. SaysText'
      BY <2>1 DEF InCueText, SaysText
    <2> QED BY <1>1, <2>2 DEF SaysHere
  <1>2. CASE mode' = "M_SKIP_CUE"
    BY <1>2 DEF SaysHere
  <1> QED BY <1>1, <1>2

\* and in a call that goes on the reader has reported what the parser has.
LEMMA TextAgreed ==
  ASSUME Sound, mode # "M_WEBVTT", call = "chunk", SaysHere
  PROVE  mode \in {"M_CUETEXT", "M_SKIP_CUE"} /\ Agrees(Reader)
  <1>1. mode \in {"M_CUETEXT", "M_SKIP_CUE"}
    BY DEF Sound, IInv, TypeOK, Modes
  <1> QED BY <1>1 DEF SaysHere, SaysText

\* While a line of text is read nothing is reported,
LEMMA TextReadSays ==
  ASSUME Sound, Going, Following, SaysHere, TextRead \/ TextCarriageReturn PROVE SaysHere'
  <1>1. /\ InText /\ UNCHANGED <<call, mode, errors, line, tk>> /\ doc' = doc
    BY DEF TextRead, TextCarriageReturn, lexer, outcome
  <1>2. Agrees(Reader) /\ mode \in {"M_CUETEXT", "M_SKIP_CUE"} /\ call = "chunk"
    BY <1>1, TextAgreed DEF InText
  <1>3. /\ More /\ (~Marked => tstate = "L_START") /\ IInv /\ ReturnSeen
    BY <1>1, TextReads DEF Going, Sound
  <1>4. Reader' = Reader
    <2>1. CASE TextRead /\ IsEol(Sym)
      <3>1. pos' = pos /\ tstate' = tstate
        BY <2>1 DEF TextRead, lexer
      <3> QED BY <1>1, <1>3, <3>1, StaysThere
    <2>2. CASE TextRead /\ ~IsEol(Sym)
      <3>1. pos' = pos + 1 /\ tstate' = tstate /\ ~Marked
        BY <2>2 DEF TextRead, lexer
      <3> QED BY <1>1, <1>3, <2>2, <3>1, UsesText
    <2>3. CASE TextCarriageReturn
      <3> DEFINE x == LexedNewline(tstate, Sym)
      <3>1. Marked /\ x.token = "none" /\ Consume(x)
        BY <2>3 DEF TextCarriageReturn
      <3>2. x = Step("none", "L_NEWLINE0", TRUE) /\ Sym = "CR" /\ tstate = "L_START"
        BY <3>1 DEF LexedNewline, Step
      <3>3. pos' = pos + 1 /\ tstate' = "L_NEWLINE0"
        BY <3>1, <3>2 DEF Consume, Step
      <3> QED BY <1>1, <1>3, <3>2, <3>3, UsesReturn
    <2> QED BY <2>1, <2>2, <2>3
  <1>5. Agrees(Reader)'
    BY <1>1, <1>2, <1>4 DEF Agrees, Said
  <1>6. Following'
    BY TextReadGoes
  <1> QED BY <1>1, <1>2, <1>5, <1>6, TextAgrees

\* A cue that is closed by a blank line leaves no trace of a header.
LEMMA BlankCloses ==
  ASSUME Sound, Live, InBody, mode # "M_WEBVTT", NEW c \in Cue, NEW above, CloseCue(c, above),
         above.type = "V_NONE"
  PROVE  /\ top' = 0 /\ mode' = "M_WEBVTT" /\ ~FromHeader' /\ Top'.state = "T_BODY"
  <1>1. /\ top = 1 /\ stack \in [0..2 -> Frame] /\ stack[1] \in Frame
    BY HeldCue DEF Sound
  <1>2. 1 + 1 = 2 /\ 1 - 1 = 0 /\ 0 + 1 = 1
    OBVIOUS
  <1>3. /\ stack' = [stack EXCEPT ![1] = InState(Vacate(@), "T_INITIAL"),
                                  ![2] = InState(@, "T_INITIAL")]
        /\ top' = 0 /\ mode' = "M_WEBVTT"
    BY <1>1, <1>2 DEF CloseCue
  <1>4. stack'[0] = stack[0] /\ stack'[1] = InState(Vacate(stack[1]), "T_INITIAL")
    BY <1>1, <1>3
  <1>5. InState(Vacate(stack[1]), "T_INITIAL").state = "T_INITIAL"
    BY <1>1 DEF InState, Vacate, ClearValue, Frame
  <1>6. Above'.state = "T_INITIAL" /\ Top'.state = "T_BODY"
    BY <1>2, <1>3, <1>4, <1>5 DEF Above, Top, InBody
  <1> QED BY <1>3, <1>6 DEF FromHeader

\* nor at the end of a line, which starts no cue in the text of another.
LEMMA TextNewlineSays ==
  ASSUME Sound, Going, Following, SaysHere, ~Chained(doc), TextNewline PROVE SaysHere'
  <1> DEFINE l == Front(lineBuf)
             x == LexedNewline(tstate, Sym)
  <1>1. /\ InText /\ Marked /\ x.token = "NEWLINE" /\ Consume(x) /\ mode # "M_WEBVTT" /\ call = "chunk"
        /\ EndTextLine(l, ~IsText(l), strings)
        /\ UNCHANGED <<call, tk, errors>> /\ doc' = doc /\ line' = line + 1
    BY DEF TextNewline, AtNewline, InText, EndTextLine
  <1>2. /\ Live /\ InBody /\ mode \in {"M_CUETEXT", "M_SKIP_CUE"} /\ More
        /\ Left = LastLine /\ tk = "none" /\ Reader.phase \in {"text", "skip"}
        /\ (mode = "M_CUETEXT" => Reader.phase = "text")
    BY <1>1, TextReads
  <1>3. l = Left /\ l \in Text /\ IInv /\ ReturnSeen
    BY <1>1, <1>2, BufferParts DEF Sound, Going
  <1>4. Reader \in Readings /\ TheCue \in Cue /\ doc \in Text
    BY <1>1, <1>2, <1>3, Where, HeldCue DEF TheCue
  <1>5. \/ x = Step("NEWLINE", "L_START", TRUE) /\ Sym = "LF" /\ tstate # "L_NEWLINE0"
        \/ x = Step("NEWLINE", "L_START", Sym = "LF") /\ tstate = "L_NEWLINE0"
    BY <1>1 DEF LexedNewline, Step
  <1> HIDE DEF x, l
  <1>6. Reader' = ReadLine(Reader, l) /\ tstate' = "L_START"
    BY <1>1, <1>2, <1>3, <1>5, UsesLine
  <1>7. Notes(Reader, Reader', l) /\ Reads(Reader, Reader', l)
    BY <1>3, <1>4, <1>6, ReadLineNotes, ReadLineIs
  <1>8. ~HasArrow(l)
    <2>1. SUFFICES ASSUME HasArrow(l) PROVE FALSE
      OBVIOUS
    <2>2. Reader'.chained
      BY <1>2, <1>7, <2>1 DEF Notes
    <2>3. Reader' = Before(doc, pos') /\ pos' \in 0 .. Len(doc)
      BY <1>1, <1>6 DEF Reader, Place, Sound, IInv, TypeOK, WithinChunk, Text
    <2> QED BY <1>4, <2>2, <2>3, ChainedStays
  <1>9. Agrees(Reader) /\ Agrees(Reader)'
    <2>1. Agrees(Reader)
      BY <1>1, TextAgreed
    <2>2. Reader'.errors = Reader.errors /\ Reader'.line = Reader.line + 1
      BY <1>2, <1>7, <1>8 DEF Notes
    <2> QED BY <1>1, <2>1, <2>2 DEF Agrees, Said
  <1>10. /\ Grown(l) \in Cue
         /\ ~IsText(l) => CloseCue(Grown(l), IF HasArrow(l) THEN WaitingLine(l) ELSE Above)
         /\ IsText(l) => mode' = mode
    BY <1>1, <1>2, <1>3, TextLineEnds DEF WaitingLine
  <1>11. CASE IsText(l)
    <2>1. Following'
      BY TextNewlineGoes
    <2> QED BY <1>1, <1>2, <1>9, <1>10, <1>11, <2>1, TextAgrees
  <1>12. CASE ~IsText(l)
    <2>1. CloseCue(Grown(l), Above) /\ Above.type = "V_NONE" /\ l = << >>
      BY <1>1, <1>2, <1>3, <1>8, <1>10, <1>12, HeldCue DEF IsText
    <2>2. top' = 0 /\ mode' = "M_WEBVTT" /\ ~FromHeader' /\ Top'.state = "T_BODY"
      BY <1>1, <1>2, <1>10, <2>1, BlankCloses
    <2>3. Reader'.phase = "body"
      BY <1>2, <1>7, <2>1 DEF Reads, ReadsText
    <2>4. SaysBetween'
      BY <1>1, <1>2, <1>6, <1>9, <2>2, <2>3 DEF SaysBetween, Unmissed, MissedEol
    <2> QED BY <2>2, <2>4 DEF SaysHere
  <1> QED BY <1>11, <1>12

\* Reports of one line, one after the other.
LEMMA ToldOfLine ==
  ASSUME NEW s \in Seq(Codes), NEW t \in Seq(Codes), NEW n
  PROVE  ToSet(AtLine(s \o t, n)) = ToSet(AtLine(s, n)) \cup ToSet(AtLine(t, n))
  <1>1. ASSUME NEW x \in Seq(Codes) PROVE ToSet(AtLine(x, n)) = {<<c, n>> : c \in ToSet(x)}
    <2>1. DOMAIN x = 1 .. Len(x)
      OBVIOUS
    <2> DEFINE y == AtLine(x, n)
    <2>2. DOMAIN y = 1 .. Len(x) /\ \A i \in 1 .. Len(x) : y[i] = <<x[i], n>>
      BY DEF AtLine
    <2>3. ToSet(y) = {y[i] : i \in 1 .. Len(x)} /\ ToSet(x) = {x[i] : i \in 1 .. Len(x)}
      BY <2>1, <2>2 DEF ToSet
    <2> HIDE DEF y
    <2>4. ToSet(y) = {<<c, n>> : c \in ToSet(x)}
      BY <2>2, <2>3
    <2> QED BY <2>4 DEF y
  <1>2. s \o t \in Seq(Codes) /\ ToSet(s \o t) = ToSet(s) \cup ToSet(t)
    BY ToldBoth
  <1> DEFINE both == ToSet(s \o t)
  <1>3. /\ ToSet(AtLine(s \o t, n)) = {<<c, n>> : c \in both}
        /\ ToSet(AtLine(s, n)) = {<<c, n>> : c \in ToSet(s)}
        /\ ToSet(AtLine(t, n)) = {<<c, n>> : c \in ToSet(t)}
    BY <1>1, <1>2
  <1>4. both = ToSet(s) \cup ToSet(t)
    BY <1>2
  <1> HIDE DEF both
  <1>5. {<<c, n>> : c \in both} = {<<c, n>> : c \in ToSet(s)} \cup {<<c, n>> : c \in ToSet(t)}
    BY <1>4
  <1> QED BY <1>3, <1>5

\* A document without a signature is rejected with its one error.
LEMMA RejectSays ==
  ASSUME Sound, Going, Following, SaysHere, InitialReject \/ TagReject PROVE Done' /\ Exact'
  <1>1. On("T_INITIAL") \/ On("T_TAG")
    BY DEF InitialReject, TagReject
  <1>2. /\ mode = "M_WEBVTT" /\ tk # "none"
        /\ InitialReject => Top.state = "T_INITIAL" /\ InInitial
        /\ TagReject => Top.state = "T_TAG" /\ InTag
    BY <1>1, LooksAtToken DEF InitialReject, TagReject
  <1>3. doc \in Text /\ doc' = doc
    BY DEF Sound, IInv, TypeOK, Text
  <1>4. /\ Unsigned(doc) /\ errors = << >> /\ Reject(1) /\ Top.state \in {"T_INITIAL", "T_TAG"}
    <2>1. CASE InitialReject
      BY <1>2, <2>1 DEF InitialReject, InInitial, SaysHere, SaysInitial
    <2>2. CASE TagReject
      <3>1. Unsigned(doc) /\ tk # "NEWLINE"
        BY <1>2, <2>2 DEF TagReject, InTag
      <3>2. errors = << >> /\ line = 1
        BY <1>2, <2>2, <3>1 DEF SaysHere, SaysTag
      <3> QED BY <1>2, <2>2, <3>1, <3>2 DEF TagReject
    <2> QED BY <2>1, <2>2
  <1>5. /\ errors' = Append(<< >>, <<"MALFORMED_TAG", 1>>) /\ call' = "idle" /\ ret' = "PARSE_ERROR"
        /\ mode' = mode /\ UNCHANGED frames
    BY <1>4 DEF Reject, Return
  <1>6. Done'
    BY <1>2, <1>4, <1>5 DEF Done, frames, Top
  <1>7. Said' = {<<"MALFORMED_TAG", 1>>}
    <2>1. errors' = <<<<"MALFORMED_TAG", 1>>>>
      BY <1>5
    <2> QED BY <2>1 DEF Said, ToSet
  <1>8. ErrorsOf(doc) = {<<"MALFORMED_TAG", 1>>}
    BY <1>3, <1>4, UnsignedErrors
  <1>9. Exact'
    BY <1>3, <1>7, <1>8 DEF Exact
  <1> QED BY <1>6, <1>9

\* What the reader of the whole document reports of the last line of a cue.
LEMMA LastLineNotes ==
  ASSUME Sound, Going, SaysHere, call = "finish", InFirstLines \/ LineToLookAt
  PROVE  /\ Reading(doc).errors = Said \cup LineNotes(stack[2].text, TheCue, line)
         /\ Reading(doc).line = line + 1 /\ TheCue.time = "none"
         /\ Understood(stack[2].text, TheCue, Reading(doc))
  <1> DEFINE q == Reading(doc)
             n == ReadLine(Reader, Left)
  <1>1. /\ IInv /\ ReturnSeen /\ mode = "M_WEBVTT" /\ pos = lim /\ lim = Len(doc) /\ line \in Nat
    BY DEF Sound, Going, InFirstLines, LineToLookAt, IInv, TypeOK
  <1>2. /\ Left # << >> => q = n
        /\ tstate # "L_NEWLINE0" /\ Left = << >> => q = Reader
        /\ tstate = "L_NEWLINE0" => q = n
    BY <1>1, AllUsed
  <1>3. Reader \in Readings /\ Left \in Text
    BY <1>1, Where
  <1>4. /\ InFirstLines => Top = stack[2]
        /\ LineToLookAt => Above = stack[2]
    BY CueFrame
  <1>5. Reads(Reader, n, Left) /\ Notes(Reader, n, Left)
    BY <1>3, ReadLineIs, ReadLineNotes
  <1> HIDE DEF q, n
  <1>6. CASE LineToLookAt
    <2>1. q = Reader /\ Understood(stack[2].text, TheCue, q) /\ SaysLook
      BY <1>1, <1>2, <1>4, <1>6 DEF LineToLookAt, SaysHere
    <2> QED BY <1>4, <1>6, <2>1 DEF SaysLook, q
  <1>7. ASSUME InFirstLines
        PROVE  SaysFirst /\ (FirstLine \/ SecondLine) /\ Left = stack[2].text
    BY <1>1, <1>4, <1>7 DEF InFirstLines, SaysHere
  <1>8. CASE InFirstLines /\ FirstLine
    <2>1. Left # << >> /\ Left = stack[2].text /\ q = n /\ ~TheCue.haveId
          /\ Reader.phase \in {"gap", "body"}
      BY <1>2, <1>7, <1>8 DEF FirstLine
    <2>2. Understood(Left, TheCue, q)
      BY <1>5, <1>8, <2>1 DEF FirstLine, Reads, ReadsBody, Understood
    <2>3. /\ q.line = Reader.line + 1
          /\ q.errors = (Reader.errors \cup IF Reader.phase = "gap" THEN {<<"EXPECTED_EOL", Reader.line>>} ELSE {})
                        \cup LineNotes(Left, TheCue, Reader.line)
      BY <1>3, <1>5, <2>1, FirstNotes
    <2>4. /\ line = Reader.line /\ TheCue.time = "none"
          /\ Said = Reader.errors \cup (IF Reader.phase = "gap" THEN {<<"EXPECTED_EOL", Reader.line>>} ELSE {})
      BY <1>7, <1>8 DEF SaysFirst, GapNotes
    <2>5. q.errors = Said \cup LineNotes(Left, TheCue, line)
      BY <2>3, <2>4
    <2> QED BY <2>1, <2>2, <2>3, <2>4, <2>5 DEF q
  <1>9. CASE InFirstLines /\ SecondLine
    <2>1. SaysFirst /\ Left = stack[2].text
      BY <1>7, <1>9
    <2>2. q = n
      BY <1>2, <2>1 DEF SaysFirst
    <2>3. Understood(Left, TheCue, q)
      BY <1>5, <1>9, <2>2 DEF SecondLine, Reads, ReadsId, Understood
    <2>4. TheCue.haveId /\ Reader.phase = "id"
      BY <1>9 DEF SecondLine
    <2>5. Said = Reader.errors /\ line = Reader.line /\ TheCue.time = "none"
      BY <2>1, <2>4 DEF SaysFirst, GapNotes
    <2>6. q.line = Reader.line + 1 /\ q.errors = Reader.errors \cup LineNotes(Left, TheCue, Reader.line)
      BY <1>3, <1>5, <2>2, <2>4, SecondNotes
    <2> QED BY <2>1, <2>3, <2>5, <2>6 DEF q
  <1> QED BY <1>6, <1>7, <1>8, <1>9

\* A first line of a cue that the document ends: the line, and that the cue lacks the
\* rest if it does.
LEMMA FinishCueLineSays ==
  ASSUME Sound, Going, Following, SaysHere, TextsSeparated, Dies \subseteq {0},
         NEW die \in Dies, NEW dieIncomplete \in Dies, NEW fails \in Failing,
         FinishCueLine(die, dieIncomplete, fails)
  PROVE  (Going' /\ Following' /\ SaysHere') \/ (Done' /\ Exact')
  <1> DEFINE k == stack[1].cue
             c == TheCue
             f == stack[2]
             q == Reading(doc)
             r == ProcCueLine(c, f, die, fails)
             codes == IF r.cue.haveId /\ r.cue.time = "none" THEN <<"CUE_INCOMPLETE">> ELSE << >>
             bare == Report(codes, dieIncomplete)
             g == InState(Vacate(f), "T_INITIAL")
             stk == [stack EXCEPT ![2] = g]
  <1>1. call = "finish" /\ mode = "M_WEBVTT" /\ Top.state \in {"T_CUE", "T_CUEREAD"} /\ doc' = doc
        /\ ~MayFail /\ IInv /\ line \in Nat
    BY DEF FinishCueLine, FinishInCue, Sound, IInv, TypeOK
  <1>2. InFirstLines \/ LineToLookAt
    BY <1>1 DEF Following, InInitial, InTag, Between, InBody, InCueText, InSkipped, Top
  <1>3. /\ q.errors = Said \cup LineNotes(f.text, c, line) /\ q.line = line + 1 /\ c.time = "none"
        /\ Understood(f.text, c, q)
    BY <1>1, <1>2, LastLineNotes
  <1>4. /\ stack \in [Depth -> Frame] /\ f \in Frame /\ f.type = "V_TEXT"
        /\ k \in DOMAIN cues /\ cues \in Seq(Cue) /\ c \in Cue
        /\ (InFirstLines => top = 2 /\ Top = stack[2] /\ stack[2].state = "T_CUEREAD")
        /\ (LineToLookAt => top = 1 /\ Top = stack[1] /\ stack[1].state = "T_CUE")
    BY <1>2, CueFrame
  <1>5. c.body = << >> /\ Fits(Contents, q.cues) /\ lim = Len(doc) /\ q \in Readings /\ finished
    BY <1>1, <1>2, LastLineRead
  <1>6. FinishTop = 1 /\ 1 + 1 = 2
    <2>1. 2 - 1 = 1 /\ 1 + 1 = 2
      OBVIOUS
    <2> QED BY <1>2, <1>4, <2>1 DEF FinishTop
  <1>7. ~bare.dead /\ bare.codes = codes
    BY <1>1, NothingRefused, ReportIs
  <1> HIDE DEF bare
  <1>8. /\ cues' = [cues EXCEPT ![k] = r.cue] /\ stack' = AfterLine(stk, 1, r) /\ mode' = r.mode
        /\ UNCHANGED <<delivered, finished, lineBuf, lim>>
        /\ errors' = errors \o AtLine(r.codes \o bare.codes, line) /\ line' = line + 1
        /\ call' = (IF r.mode = "M_CUETEXT" THEN "finish" ELSE "cleanup")
        /\ status' = r.status
    <2>1. c = cues[k]
      BY DEF TheCue
    <2> HIDE DEF r, codes
    <2> QED BY <1>6, <1>7, <2>1 DEF FinishCueLine, input, r, bare, codes
  <1>9. Separated(f.text)
    BY DEF TextsSeparated, Depth
  <1>10. SaysAll(r, f.text, c, line) /\ TellsAll(f.text, c, q, r)
    BY <1>1, <1>3, <1>4, <1>5, <1>9, LineSays, LineTells
  <1>11. r.codes \in Seq(Codes) /\ ToSet(AtLine(r.codes, line)) = LineNotes(f.text, c, line)
    BY <1>10 DEF SaysAll
  <1> DEFINE b == ToSet(AtLine(codes, line))
  <1> HIDE DEF r, c, q
  <1>12. /\ r.cue.haveId /\ r.cue.time = "none" => b = {<<"CUE_INCOMPLETE", line>>}
         /\ ~(r.cue.haveId /\ r.cue.time = "none") => b = {}
         /\ codes \in Seq(Codes)
    <2>1. "CUE_INCOMPLETE" \in Codes
      BY DEF Codes
    <2>2. <<"CUE_INCOMPLETE">> \in Seq(Codes) /\ << >> \in Seq(Codes)
      BY <2>1
    <2> QED BY <2>2, ToldOnce
  <1> HIDE DEF codes
  <1>13. Said' = q.errors \cup b
    <2> DEFINE s == r.codes
               all == s \o codes
    <2>1. all \in Seq(Codes)
      BY <1>11, <1>12
    <2>2. Said' = Said \cup ToSet(AtLine(all, line))
      BY <1>1, <1>7, <1>8, <2>1, ReportsMore
    <2>3. ToSet(AtLine(all, line)) = ToSet(AtLine(s, line)) \cup b
      BY <1>11, <1>12, ToldOfLine DEF b
    <2> HIDE DEF all
    <2> QED BY <1>3, <1>11, <2>2, <2>3
  <1>14. ErrorsOf(doc) = q.errors \cup (IF q.phase = "id" THEN {<<"CUE_INCOMPLETE", line>>} ELSE {})
    <2>1. q.line - 1 = line
      BY <1>1, <1>3
    <2> QED BY <2>1 DEF ErrorsOf, q
  <1>15. line' - 1 = line
    BY <1>1, <1>8
  <1> HIDE DEF b
  <1>16. CASE r.again
    <2>1. q.phase = "id" /\ r.cue.haveId /\ r.cue.time = "none" /\ r.mode = "M_WEBVTT"
      BY <1>3, <1>10, <1>16 DEF SaysAll, TellsAll
    <2>2. Said' = ErrorsOf(doc)
      BY <1>12, <1>13, <1>14, <2>1
    <2>3. Done' /\ Exact'
      BY <1>1, <1>5, <1>8, <2>1, <2>2 DEF Done, Exact
    <2> QED BY <2>3
  <1>17. CASE ~r.again /\ r.mode = "M_SKIP_CUE"
    <2>1. q.phase = "skip"
      BY <1>10, <1>17 DEF TellsAll, Lenient
    <2>2. q.errors = ErrorsOf(doc) /\ Said' \subseteq ErrorsOf(doc) \cup {<<"CUE_INCOMPLETE", line>>}
      BY <1>12, <1>13, <1>14, <2>1
    <2>3. Done' /\ Exact'
      BY <1>1, <1>5, <1>8, <1>13, <1>15, <1>17, <2>2 DEF Done, Exact
    <2> QED BY <2>3
  <1>18. CASE ~r.again /\ r.mode = "M_CUETEXT"
    <2>1. q.phase = "text" /\ q.cue = AsSeen(r.cue) /\ r.cue.time # "none"
      BY <1>10, <1>18 DEF TellsAll
    <2>2. Said' = q.errors
      BY <1>12, <1>13, <2>1
    <2>3. stack' = stk /\ call' = "finish" /\ mode' = "M_CUETEXT"
      BY <1>8, <1>18 DEF AfterLine
    <2> HIDE DEF g
    <2>4. stack'[1] = stack[1]
      BY <1>4, <2>3 DEF Depth
    <2>12. cues'[k] = r.cue
      BY <1>4, <1>8
    <2>5. TheCue' = r.cue
      BY <2>4, <2>12 DEF TheCue
    <2>6. Contents' = Contents
      BY <1>8, HandsNothing
    <2>7. Fits(Contents', Reading(doc)'.cues) /\ Reading(doc)' = q
      BY <1>1, <1>5, <2>6 DEF Fits, Lenient, q
    <2>8. Follows(Reading(doc))'
      BY <2>1, <2>5, <2>7 DEF Follows
    <2>9. lineBuf' = << >>
      BY <1>1, <1>8 DEF Going
    <2>10. SaysText'
      BY <2>2, <2>3, <2>7, <2>8, <2>9 DEF SaysText
    <2>11. Going' /\ Following'
      <3>1. Over' \/ (Going' /\ Following')
        BY FinishCueLineGoes
      <3> QED BY <2>3, <3>1, NotOver
    <2> QED BY <2>3, <2>10, <2>11 DEF SaysHere
  <1>19. ~r.again => r.mode \in {"M_CUETEXT", "M_SKIP_CUE"}
    BY <1>10 DEF SaysAll
  <1> QED BY <1>16, <1>17, <1>18, <1>19

\* The text of a cue that the document ends is no cause for complaint.
LEMMA FinishCueTextSays ==
  ASSUME Sound, Going, Following, SaysHere, Readable, FinishCueText PROVE Done' /\ Exact'
  <1> DEFINE l == LastLine
             q == Reading(doc)
  <1>1. /\ call = "finish" /\ mode = "M_CUETEXT" /\ UNCHANGED <<finished, errors, lim>> /\ doc' = doc
        /\ call' = "cleanup"
    BY DEF FinishCueText, FinishInText, input
  <1>2. finished /\ pos = lim /\ lim = Len(doc) /\ IInv /\ ReturnSeen
    BY <1>1 DEF Going, Sound, IInv, Finishing
  <1>3. doc \in Text /\ Reader \in Readings /\ Left \in Text
    BY <1>2, Where
  <1>4. /\ q = Reader \/ q = ReadLine(Reader, Left)
        /\ (HasArrow(Left) /\ Reader.phase \in {"text", "skip"} => ArrowAtEnd(doc))
    BY <1>2, AllUsed
  <1> HIDE DEF q
  <1>5. SaysText
    BY <1>1 DEF SaysHere
  <1>6. Done'
    BY <1>1, <1>2 DEF Done
  <1>7. ASSUME Said = q.errors, q.phase # "id" PROVE Exact'
    <2>1. ErrorsOf(doc) = Said /\ Said' = Said
      BY <1>1, <1>7 DEF ErrorsOf, Said, q
    <2> QED BY <1>1, <2>1 DEF Exact
  <1>8. CASE Follows(Reader) /\ Agrees(Reader)
    <2>1. Reader.phase = "text" /\ ~HasArrow(Left) /\ Said = Reader.errors
      BY <1>4, <1>8 DEF Follows, Agrees, Readable
    <2> DEFINE n == ReadLine(Reader, Left)
    <2>2. Notes(Reader, n, Left) /\ Reads(Reader, n, Left)
      BY <1>3, ReadLineNotes, ReadLineIs
    <2> HIDE DEF n
    <2>3. n.errors = Said /\ n.phase # "id"
      BY <2>1, <2>2 DEF Notes, Reads, ReadsText
    <2> QED BY <1>4, <1>6, <1>7, <2>1, <2>3 DEF n
  <1>9. CASE Follows(Reading(doc)) /\ Said = Reading(doc).errors
    <2>1. q.phase = "text" /\ Said = q.errors
      BY <1>9 DEF Follows, q
    <2> QED BY <1>6, <1>7, <2>1
  <1> QED BY <1>5, <1>8, <1>9 DEF SaysText

\* A document that ends before the signature line does, but in no token, has no error.
LEMMA NoErrorsYet ==
  ASSUME Sound, Going, SaysHere, call = "finish", InInitial \/ InTag, ~EndsInToken(doc)
  PROVE  ErrorsOf(doc) = {} /\ errors = << >> /\ lim = Len(doc)
  <1> DEFINE q == Reading(doc)
  <1>1. /\ IInv /\ ReturnSeen /\ pos = lim /\ lim = Len(doc) /\ tk = "none" /\ mode = "M_WEBVTT"
    BY DEF Sound, Going, InInitial, InTag
  <1>2. doc \in Text /\ Len(doc) \in Nat /\ pos = Len(doc) /\ Left \in Text /\ pos \in Nat
    BY <1>1, Where
  <1>3. /\ Left # << >> => q = ReadLine(Reader, Left)
        /\ tstate # "L_NEWLINE0" /\ Left = << >> => q = Reader
        /\ tstate = "L_NEWLINE0" => q = ReadLine(Reader, Left)
        /\ Left # << >> \/ tstate = "L_NEWLINE0" =>
             /\ Len(Lines(doc)) > Ended(doc) /\ OpenLine(doc) = Left
             /\ BeforeOpen(doc) = Reader.phase
    BY <1>1, AllUsed
  <1>4. q.phase # "id" /\ q.errors = {} => ErrorsOf(doc) = {}
    BY DEF ErrorsOf
  <1>5. InInitial => SaysInitial
    BY <1>1 DEF InInitial, SaysHere
  <1>6. InTag => SaysTag
    BY <1>1 DEF InTag, SaysHere
  <1>7. errors = << >>
    BY <1>5, <1>6 DEF SaysInitial, SaysTag
  <1>8. ReaderStart.phase = "header" /\ ReaderStart.errors = {}
    BY DEF ReaderStart
  <1> HIDE DEF q
  <1>9. ASSUME Left # << >> \/ tstate = "L_NEWLINE0", Reader = ReaderStart, Partial(Left)
        PROVE  FALSE
    BY <1>3, <1>8, <1>9 DEF EndsInToken
  <1>10. CASE InTag
    <2>1. pos > 1 /\ doc[1] = "WEB" /\ doc[2] = "VTT" /\ Len(doc) > 1
      BY <1>2, <1>10 DEF InTag
    <2>2. ~(tstate = "L_WEBVTT" /\ pos = 3 /\ doc[3] = "WEB")
      <3>1. SUFFICES ASSUME tstate = "L_WEBVTT", pos = 3, doc[3] = "WEB" PROVE FALSE
        OBVIOUS
      <3>2. Place = 3 /\ 2 \in 0 .. Len(doc) - 1 /\ 2 + 1 = 3
        BY <1>2, <3>1 DEF Place
      <3>3. Before(doc, 2) = ReaderStart /\ Rest(doc, 2) = <<"WEB", "VTT">>
        BY <1>2, <2>1, Opened
      <3>4. Before(doc, 3) = ReaderStart /\ Rest(doc, 3) = Append(<<"WEB", "VTT">>, "WEB")
        BY <1>2, <3>1, <3>2, <3>3, BeforeText DEF IsEol
      <3>5. Reader.phase = "header" /\ Left = <<"WEB", "VTT", "WEB">>
        BY <1>8, <3>2, <3>4 DEF Reader, Left
      <3>6. Left # << >>
        BY <3>5
      <3> QED BY <1>3, <3>5, <3>6 DEF EndsInToken
    <2>3. (tstate = "L_START" /\ pos = 2) \/ (tstate = "L_NEWLINE0" /\ pos = 3)
      BY <1>1, <1>10, <2>2 DEF InTag
    <2>4. Place = 2
      BY <2>3 DEF Place
    <2>5. /\ Left = <<"WEB", "VTT">> /\ ReadLine(Reader, Left).phase = "gap"
          /\ ReadLine(Reader, Left).errors = {}
      BY <1>1, <2>1, <2>4, SignatureRead, SignatureSaid
    <2>6. Left # << >>
      BY <2>5
    <2>7. q.phase = "gap" /\ q.errors = {}
      BY <1>3, <2>5, <2>6
    <2> QED BY <1>1, <1>4, <1>7, <2>7
  <1>11. CASE InInitial
    <2>1. CASE tstate = "L_START" /\ pos = 0
      <3>1. Reader = ReaderStart /\ Left = << >>
        BY <1>2, <2>1, BeforeFirst DEF Reader, Left, Place
      <3>2. q = ReaderStart
        BY <1>3, <2>1, <3>1
      <3> QED BY <1>1, <1>4, <1>7, <1>8, <3>2
    <2>2. CASE tstate = "L_WEBVTT" /\ pos = 1 /\ doc[1] = "WEB"
      <3>1. Place = 1 /\ Len(doc) > 0
        BY <1>2, <2>2 DEF Place
      <3>2. Reader = ReaderStart /\ Left = <<"WEB">>
        BY <1>2, <2>2, <3>1, Opened DEF Reader, Left
      <3>3. Left # << >>
        BY <3>2
      <3> QED BY <1>9, <3>2, <3>3 DEF Partial
    <2>3. CASE tstate = "L_WHITESPACE"
      <3>1. Reader = ReaderStart /\ Left # << >> /\ Partial(Left)
        BY <1>1, <1>5, <1>11, <2>3 DEF SaysInitial, Spaces, Partial
      <3> QED BY <1>9, <3>1
    <2>4. CASE tstate = "L_NEWLINE0" /\ pos = 1
      <3>1. Reader = ReaderStart /\ Left = << >>
        BY <1>2, <2>4, BeforeFirst DEF Reader, Left, Place
      <3>2. Partial(<< >>)
        BY DEF Partial
      <3> QED BY <1>9, <2>4, <3>1, <3>2
    <2> QED BY <1>1, <1>11, <2>1, <2>2, <2>3, <2>4 DEF InInitial
  <1> QED BY <1>10, <1>11

\* A document that ends with no cue open.
LEMMA FinishElseSays ==
  ASSUME Sound, Going, Following, SaysHere, Readable, FinishElse PROVE Done' /\ Exact'
  <1> DEFINE q == Reading(doc)
             n == ReadLine(Reader, Left)
  <1>1. /\ call = "finish" /\ call' = "cleanup" /\ UNCHANGED <<finished, errors, lim, line>>
        /\ doc' = doc
        /\ mode = "M_SKIP_CUE" \/ (mode = "M_WEBVTT" /\ Top.state \notin {"T_CUE", "T_CUEREAD"})
    BY DEF FinishElse, outcome, input
  <1>2. finished /\ pos = lim /\ tk = "none" /\ IInv /\ ReturnSeen
    BY <1>1 DEF Going, Sound, IInv, Finishing
  <1>3. Reader \in Readings /\ Left \in Text
    BY <1>2, Where
  <1>4. lim = Len(doc) =>
          /\ q = Reader \/ q = n
          /\ Left # << >> => q = n
          /\ tstate # "L_NEWLINE0" /\ Left = << >> => q = Reader
          /\ HasArrow(Left) /\ Reader.phase \in {"text", "skip"} => ArrowAtEnd(doc)
          /\ Left # << >> => /\ Len(Lines(doc)) > Ended(doc) /\ OpenLine(doc) = Left
                             /\ BeforeOpen(doc) = Reader.phase
    BY <1>2, AllUsed
  <1>5. Notes(Reader, n, Left) /\ Reads(Reader, n, Left)
    BY <1>3, ReadLineNotes, ReadLineIs
  <1> HIDE DEF q, n
  <1>6. Done' /\ Said' = Said
    BY <1>1, <1>2 DEF Done, Said
  <1>7. ASSUME lim = Len(doc) => ErrorsOf(doc) = Said PROVE Exact'
    BY <1>1, <1>6, <1>7 DEF Exact
  <1>8. Said = q.errors /\ q.phase # "id" => ErrorsOf(doc) = Said
    BY DEF ErrorsOf, q
  <1>9. CASE InSkipped
    <2>1. ASSUME lim = Len(doc) PROVE ErrorsOf(doc) = Said
      <3>1. Reader.phase = "skip" /\ Agrees(Reader) /\ ~HasArrow(Left)
        BY <1>4, <1>9, <2>1 DEF InSkipped, SaysHere, Readable
      <3>2. n.errors = Reader.errors /\ n.phase # "id"
        BY <1>5, <3>1 DEF Notes, Reads, ReadsText
      <3> QED BY <1>4, <1>8, <2>1, <3>1, <3>2 DEF Agrees
    <2> QED BY <1>6, <1>7, <2>1
  <1>10. CASE Between
    <2>1. /\ Reader.phase \in {"gap", "body"} /\ lim = Len(doc) /\ mode = "M_WEBVTT"
          /\ Top.state \in {"T_EOL", "T_BODY"}
          /\ tstate \in {"L_START", "L_NEWLINE0"} => Left = << >>
          /\ tstate # "L_NEWLINE0" => Left = token
          /\ tstate \in {"L_WEBVTT", "L_WHITESPACE"} => token # << >>
      BY <1>1, <1>2, <1>10 DEF Between, Going, InBody, Top
    <2>2. SaysBetween
      BY <2>1 DEF SaysHere
    <2>3. ~(Left # << >> /\ Partial(Left))
      BY <1>4, <2>1 DEF Readable, EndsInToken
    <2>4. tstate \notin {"L_WEBVTT", "L_WHITESPACE"}
      BY <1>2, <2>1, <2>2, <2>3 DEF SaysBetween, Partial, Spaces
    <2>5. Left = << >>
      BY <1>2, <2>1, <2>4 DEF IInv, TypeOK, LexStates
    <2>6. n.errors = Reader.errors /\ n.phase = "body"
      BY <1>5, <2>1, <2>5, NoArrowInEmpty DEF Notes, BodyNotes, Reads, ReadsBody
    <2>7. ErrorsOf(doc) = Said
      BY <1>4, <1>8, <2>1, <2>2, <2>6 DEF SaysBetween, Agrees
    <2> QED BY <1>6, <1>7, <2>7
  <1>11. CASE InInitial \/ InTag
    <2>1. ErrorsOf(doc) = Said
      BY <1>1, <1>11, NoErrorsYet, NothingSaid DEF Readable
    <2> QED BY <1>6, <1>7, <2>1
  <1> QED BY <1>1, <1>9, <1>10, <1>11 DEF Following, InFirstLines, LineToLookAt, InCueText

\* A token that is looked at without a failure leaves the call in the chunk.
LEMMA TokenKept ==
  ASSUME Sound, Going, Following, tk # "none", EndTurn, UNCHANGED <<mode, finished, lineBuf>>,
         Over' \/ (Going' /\ Following')
  PROVE  Going' /\ Following'
  <1>1. Going' /\ call' = "chunk"
    BY TurnEnds
  <1>2. status' # "PARSE_ERROR"
    BY <1>1 DEF Going
  <1> QED BY <1>1, <1>2, NotOver

\* What a token reports: nothing before the signature is read, unless there is none, and
\* a missing line end between cues.
LEMMA TokenSays ==
  ASSUME Sound, Going, Following, SaysHere, Dies \subseteq {0}, TokenStep
  PROVE  (Going' /\ Following' /\ SaysHere') \/ (Done' /\ Exact')
  <1>1. ~On("T_TAGCOMMENT") /\ ~On("T_CUE")
    BY LooksAtToken
  <1>2. ~CommentNewline /\ ~CommentSkip /\ ~CueAssert
    BY <1>1 DEF CommentNewline, CommentSkip, CueAssert
  <1>3. ~TagSpace
    <2>1. On("T_TAG") => InTag
      BY LooksAtToken
    <2> QED BY <2>1 DEF TagSpace, InTag
  <1>4. CASE InitialReject \/ TagReject
    BY <1>4, RejectSays
  <1>5. CASE InitialSignature
    <2>1. tk # "none" /\ EndTurn /\ UNCHANGED <<mode, finished, lineBuf>>
      BY <1>5 DEF InitialSignature, On, Quiet
    <2>2. Going' /\ Following'
      BY <1>5, <2>1, InitialGoes, TokenKept
    <2> QED BY <1>5, <2>2, SignatureSays
  <1>6. CASE TagNewline
    <2>1. tk # "none" /\ EndTurn /\ UNCHANGED <<mode, finished, lineBuf>>
      BY <1>6 DEF TagNewline, On, Quiet
    <2>2. Going' /\ Following'
      BY <1>6, <2>1, TagGoes, TokenKept
    <2> QED BY <1>6, <2>2, TagSays
  <1>7. CASE EolCount \/ EolPop
    BY <1>7, EolGoes, EolSays
  <1>8. ASSUME NEW d \in Dies, BodyDead(d) \/ BodyNewline(d) \/ BodyCue(d) \/ BodyStarved(d)
        PROVE  Going' /\ Following' /\ SaysHere'
    <2>1. ~BodyStarved(d) /\ ~BodyDead(d)
      BY NothingRefused DEF BodyStarved, BodyDead, Sound
    <2>2. tk # "none" /\ EndTurn /\ UNCHANGED <<mode, finished, lineBuf>>
      BY <1>8, <2>1 DEF BodyNewline, BodyCue, On
    <2>3. Over' \/ (Going' /\ Following')
      BY <1>8, BodyGoes
    <2>4. Going' /\ Following'
      BY <2>2, <2>3, TokenKept
    <2> QED BY <1>8, <2>4, BodySays
  <1> QED BY <1>2, <1>3, <1>4, <1>5, <1>6, <1>7, <1>8 DEF TokenStep

\* What a turn reports.
LEMMA TurnSays ==
  ASSUME Sound, Going, Following, SaysHere, TextsSeparated, Dies \subseteq {0}, TurnStep
  PROVE  Going' /\ Following' /\ SaysHere'
  <1>1. CASE Lex
    <2>1. mode = "M_WEBVTT" /\ ~InFirstLines /\ ~LineToLookAt
      BY <1>1 DEF Lex, Turn, InFirstLines, LineToLookAt
    <2>2. InInitial \/ InTag \/ Between
      BY <2>1 DEF Following, InCueText, InSkipped
    <2>3. Going' /\ Following'
      BY <1>1, <2>2, LexInitial, LexTag, LexBetween DEF Following
    <2>4. SaysHere'
      BY <1>1, <2>2, LexInitialSays, LexTagSays, LexBetweenSays
    <2> QED BY <2>3, <2>4
  <1>2. CASE CueReadText \/ CueReadEol \/ CueReadNewline
    <2>1. mode = "M_WEBVTT" /\ Top.state = "T_CUEREAD"
      BY <1>2 DEF CueReadText, CueReadEol, CueReadNewline, Turn
    <2>2. InFirstLines
      BY <2>1 DEF Following, InInitial, InTag, Between, InBody, LineToLookAt, InCueText, InSkipped, Top
    <2> QED BY <1>2, <2>2, CueReadGoes, CueReadSays
  <1>3. ASSUME NEW die \in Dies, NEW fails \in Failing, CueLine(die, fails)
        PROVE  Going' /\ Following' /\ SaysHere'
    <2>1. mode = "M_WEBVTT" /\ Top.state = "T_CUE" /\ call' = "chunk"
      BY <1>3 DEF CueLine, Turn
    <2>2. LineToLookAt
      BY <2>1 DEF Following, InInitial, InTag, Between, InBody, InFirstLines, InCueText, InSkipped, Top
    <2>3. SaysHere' /\ (mode' # "M_WEBVTT" \/ Top'.state # "T_CUE")
      BY <1>3, <2>2, CueLineSays
    <2>4. Over' \/ (Going' /\ Following')
      BY <1>3, <2>2, CueLineGoes
    <2>5. ~Over'
      BY <2>1, <2>3 DEF Over, Halted, NoLine
    <2> QED BY <2>3, <2>4, <2>5
  <1>4. CASE CueMissing
    <2>1. mode = "M_WEBVTT" /\ Top.state = "T_CUE" /\ Top.cue = 0
      BY <1>4 DEF CueMissing, Turn
    <2>2. LineToLookAt
      BY <2>1 DEF Following, InInitial, InTag, Between, InBody, InFirstLines, InCueText, InSkipped, Top
    <2> QED BY <2>1, <2>2, CueFrame
  <1>5. ASSUME NEW die \in Dies, CueReadStarved(die) PROVE FALSE
    BY <1>5 DEF CueReadStarved, Sound
  <1> QED BY <1>1, <1>2, <1>3, <1>4, <1>5 DEF TurnStep

\* What a line of text reports: nothing.
LEMMA TextSays ==
  ASSUME Sound, Going, Following, SaysHere, ~Chained(doc), TextStep
  PROVE  Going' /\ Following' /\ SaysHere'
  <1>1. ~TextUnparsed /\ ~TextUnseparated /\ \A d \in Dies : ~TextStarved(d)
    BY DEF TextUnparsed, TextUnseparated, TextStarved, NoSeparator, Sound
  <1>2. Going' /\ Following'
    BY TextGoes
  <1> QED BY <1>1, <1>2, TextReadSays, TextNewlineSays DEF TextStep

\* What the end of the document reports.
LEMMA FinishSays ==
  ASSUME Sound, Going, Following, SaysHere, TextsSeparated, Readable, FinishStep
  PROVE  (Going' /\ Following' /\ SaysHere') \/ (Done' /\ Exact')
  <1>1. ~FinishUnseparated /\ ~FinishCleanup /\ \A d \in Dies : ~FinishTextStarved(d)
    BY DEF FinishUnseparated, NoSeparator, FinishCleanup, FinishTextStarved, Sound, Going
  <1>2. ~FinishAssert
    BY NoneAsserted
  <1>3. Dies \subseteq {0}
    BY DEF Readable, Lenient
  <1>4. ASSUME NEW d \in Dies, NEW e \in Dies, NEW f \in Failing, FinishCueLine(d, e, f)
        PROVE  (Going' /\ Following' /\ SaysHere') \/ (Done' /\ Exact')
    BY <1>3, <1>4, FinishCueLineSays
  <1> QED BY <1>1, <1>2, <1>4, FinishCueTextSays, FinishElseSays DEF FinishStep

\* A step that reports nothing leaves it said.
LEMMA ExactStays == ASSUME Exact, UNCHANGED <<errors, line, lim, doc>> PROVE Exact'
  BY DEF Exact, Said

\* In the end nothing more is reported.
LEMMA DoneStays ==
  ASSUME Sound, Done, call # "deleted" => Exact, Client \/ Parser
  PROVE  Done' /\ (call' # "deleted" => Exact')
  <1>1. doc' = doc /\ IInv
    BY DEF Sound
  <1>2. CASE Client
    <2>1. call = "idle" /\ UNCHANGED <<errors, line, lim, ret, mode>> /\ ~Feed
      <3>1. ~Feed
        BY ResumeAssumption DEF Done, Feed
      <3> QED BY <1>2, <3>1 DEF Client, FinishCall, Delete, input, calling, outcome
    <2>2. Exact'
      BY <1>1, <2>1, ExactStays
    <2>3. CASE Delete
      BY <2>2, <2>3 DEF Delete, Done
    <2>4. CASE FinishCall
      <3>1. call' = "finish" /\ ~finished /\ UNCHANGED frames
        BY <2>4 DEF FinishCall
      <3> QED BY <2>1, <2>2, <3>1 DEF Done, frames, Top
    <2> QED BY <1>2, <2>1, <2>3, <2>4 DEF Client
  <1>3. CASE ChunkDone \/ ChunkStarved \/ TurnStep \/ TokenStep \/ TextStep
    <2>1. call = "chunk"
      BY <1>3, InChunk
    <2> QED BY <2>1 DEF Done
  <1>4. CASE FinishStep
    <2>1. call \in {"finish", "cleanup"} /\ finished
      BY <1>1, <1>4, InFinish
    <2>2. call = "finish" => mode = "M_WEBVTT" /\ Top.state \in {"T_INITIAL", "T_TAG"}
      BY <2>1 DEF Done
    <2>3. ASSUME ~FinishElse, ~FinishCleanup PROVE FALSE
      BY ZenonT(30), <1>4, <2>2, <2>3 DEF FinishStep, FinishAssert, FinishCueText,
        FinishUnseparated, FinishTextStarved, FinishCueLine, FinishInCue, FinishInText
    <2>4. UNCHANGED <<errors, line, lim, finished>> /\ call' \in {"idle", "cleanup"}
      BY <2>3 DEF FinishElse, FinishCleanup, Return, input, outcome
    <2>5. Exact'
      BY <1>1, <2>1, <2>4, ExactStays
    <2> QED BY <2>1, <2>4, <2>5 DEF Done
  <1> QED BY <1>2, <1>3, <1>4 DEF Parser

\* The parser has told what the reader has when it starts,
LEMMA InitTells == Init => Tells
  <1> SUFFICES ASSUME Init PROVE Going /\ InInitial /\ SaysHere
    BY DEF Tells, Following
  <1>1. Top = EmptyFrame /\ EmptyFrame.state = "T_INITIAL"
    BY DEF Init, Top, Depth, EmptyFrame, NewFrame
  <1>2. Going
    BY DEF Init, Going, ReturnSeen
  <1>3. SaysInitial
    BY DEF Init, SaysInitial
  <1>4. SaysHere
    BY <1>1, <1>3 DEF Init, SaysHere
  <1> QED BY <1>1, <1>2, <1>4 DEF Init, InInitial, LinePending

\* when nothing changes,
LEMMA SameTells == ASSUME UNCHANGED vars, Tells PROVE Tells'
  <1>1. UNCHANGED <<doc, lim, call, ret, mode, finished, top, tstate, tk, token, lineBuf, errors,
                    line>>
    BY DEF vars, input, calling, lexer, frames, outcome
  <1>2. /\ UNCHANGED <<Top, Above, TheCue, LastLine, Reader, Left>>
        /\ (MayFail' <=> MayFail) /\ (Marked' <=> Marked) /\ (More' <=> More)
        /\ (Going' <=> Going) /\ (FromHeader' <=> FromHeader)
        /\ Follows(Reader)' <=> Follows(Reader)
        /\ Follows(Reading(doc))' <=> Follows(Reading(doc))
        /\ Following => Following'
    BY SamePlace
  <1>3. Said' = Said /\ (Exact => Exact') /\ (Done => Done')
    BY <1>1, <1>2 DEF Said, Exact, Done
  <1>4. /\ SaysInitial => SaysInitial'
        /\ SaysTag => SaysTag'
    BY <1>1, <1>2 DEF SaysInitial, SaysTag
  <1>5. SaysBetween => SaysBetween'
    BY <1>1, <1>2, <1>3 DEF SaysBetween, Agrees, Counted, Unmissed, MissedEol
  <1>6. SaysFirst => SaysFirst'
    BY <1>1, <1>2, <1>3 DEF SaysFirst, GapNotes
  <1>7. SaysLook => SaysLook'
    BY <1>1, <1>2, <1>3 DEF SaysLook
  <1>8. (SaysText => SaysText') /\ (Agrees(Reader) => Agrees(Reader)')
    BY <1>1, <1>2, <1>3 DEF SaysText, Agrees
  <1>9. SaysHere => SaysHere'
    BY <1>1, <1>2, <1>4, <1>5, <1>6, <1>7, <1>8 DEF SaysHere
  <1>10. Readable' <=> Readable
    BY <1>1 DEF Readable, Lenient
  <1> QED BY <1>1, <1>2, <1>3, <1>9, <1>10 DEF Tells

\* and with every step,
LEMMA StepTells ==
  ASSUME IInv, Handed, Separated(doc) => TextsSeparated, Tells, [Next]_vars PROVE Tells'
  <1>1. CASE UNCHANGED vars
    BY <1>1, SameTells
  <1>2. CASE ~UNCHANGED vars
    <2>1. SUFFICES ASSUME (~MayFail)', ~Commented(doc)', Readable'
                   PROVE  \/ Done' /\ (call' # "deleted" => Exact')
                          \/ Going' /\ Following' /\ SaysHere'
      BY DEF Tells
    <2>2. doc' = doc
      BY DocumentStays
    <2>3. Sound
      BY <2>1, <2>2, StepInvariant, StepHanded DEF Sound, MayFail
    <2>4. Readable /\ TextsSeparated /\ ~Chained(doc) /\ Dies \subseteq {0}
      BY <2>1, <2>2 DEF Readable, Lenient
    <2>5. (Client \/ Parser) /\ call # "deleted"
      <3>1. Client \/ Parser
        BY <1>2 DEF Next, Gone
      <3>2. Client => call # "deleted"
        BY DEF Client, Feed, FinishCall, Delete
      <3>3. FinishStep => call # "deleted"
        BY <2>3, InFinish DEF Sound
      <3> QED BY <3>1, <3>2, <3>3, InChunk DEF Parser
    <2>6. (Done /\ Exact) \/ (Going /\ Following /\ SaysHere)
      BY <2>3, <2>4, <2>5 DEF Tells, Sound
    <2>7. CASE Done /\ Exact
      BY <2>3, <2>5, <2>7, DoneStays
    <2>8. CASE Going /\ Following /\ SaysHere
      <3>1. ~ChunkStarved
        BY <2>8 DEF ChunkStarved, Starved, Going
      <3>2. Delete => Done' /\ call' = "deleted"
        BY DEF Delete, Done
      <3>3. Feed \/ FinishCall => Going' /\ Following' /\ SaysHere'
        BY <2>3, <2>8, ClientSays
      <3>4. ChunkDone => Going' /\ Following' /\ SaysHere'
        BY <2>3, <2>8, ChunkDoneGoes, ChunkDoneSays
      <3>5. TurnStep \/ TextStep => Going' /\ Following' /\ SaysHere'
        BY <2>3, <2>4, <2>8, TurnSays, TextSays
      <3>6. TokenStep \/ FinishStep => (Going' /\ Following' /\ SaysHere') \/ (Done' /\ Exact')
        BY <2>3, <2>4, <2>8, TokenSays, FinishSays
      <3> QED BY <2>5, <3>1, <3>2, <3>3, <3>4, <3>5, <3>6 DEF Client, Parser
    <2> QED BY <2>6, <2>7, <2>8
  <1> QED BY <1>1, <1>2

\* and so always.
LEMMA SpecTells == Spec => []Tells
  <1> DEFINE J == Handed /\ (Separated(doc) => TextsSeparated) /\ Tracks
  <1>1. Spec => []J
    BY SpecTracks
  <1>2. IInv /\ J /\ Tells /\ [Next]_vars => Tells'
    BY StepTells
  <1> HIDE DEF J
  <1> QED BY <1>1, <1>2, InitTells, Invariant, PTL DEF Spec

\* An application that lets every error pass is told, of a document that is read to its
\* end, every error of the line by line reading at its line, and no other, except that of
\* a cue whose last line may be taken for one that lacks its times: as long as there is
\* memory, no comment follows the signature, the times have their separators, no timing
\* line stands inside the text of another cue or ends the document unterminated, and the
\* document does not end inside a token.
THEOREM ErrorsAreExact ==
  ASSUME Dies \subseteq {0} PROVE Spec => [](doc \notin Scarce => ErrorsExact)
  <1>1. Tells => (doc \notin Scarce => ErrorsExact)
    <2> SUFFICES ASSUME Tells, doc \notin Scarce, Complete, Separated(doc), ~Chained(doc),
                        ~ArrowAtEnd(doc), ~EndsInToken(doc), ~Commented(doc)
                 PROVE  /\ ErrorsOf(doc) \subseteq ToSet(errors)
                        /\ ToSet(errors) \subseteq ErrorsOf(doc) \cup {<<"CUE_INCOMPLETE", line - 1>>}
      BY DEF ErrorsExact
    <2>1. (Done /\ (call # "deleted" => Exact)) \/ Going
      BY DEF Tells, MayFail, Readable, Lenient
    <2>2. ~Going /\ call # "deleted" /\ lim = Len(doc)
      BY DEF Complete, Going
    <2> QED BY <2>1, <2>2 DEF Exact, Said
  <1> QED BY <1>1, SpecTells, PTL

-----------------------------------------------------------------------------
(* The line that nobody goes on to look at.                                *)

\* A line the parser has read and not looked at ends where the reader's does.
Unseen == Going /\ LineToLookAt /\ call \in {"idle", "chunk"}
LineEnded == Unseen => pos < lim \/ EndsCueLine(doc, pos)

\* When the parser is through, a line is left above the top for one reason only.
LineLeft ==
  /\ ~Live /\ stack[2].type = "V_TEXT" => top = 2 \/ EndedOnLine
  /\ call = "cleanup" /\ stack[2].type = "V_TEXT" /\ top # 2 => ArrowAtEnd(doc)

\* The last line that ended before the n-th symbol was used.
LEMMA LastEnded ==
  ASSUME NEW d \in Text, NEW n \in 0 .. Len(d) - 1, Ends(d[n + 1], n > 0 /\ d[n] = "CR")
  PROVE  /\ Count(d, n + 1) - 1 = Count(d, n)
         /\ Splits(d)[n + 1].lines[Count(d, n + 1)] = Rest(d, n)
  <1> DEFINE a == Splits(d)[n]
             b == Splits(d)[n + 1]
             c == Len(a.lines)
  <1>1. a \in Splittings /\ d[n + 1] \in Symbols /\ b = SplitSymbol(a, d[n + 1])
        /\ Ends(d[n + 1], a.cr)
    BY SplitNext DEF Ends
  <1>2. b.lines = Append(a.lines, a.rest)
    BY <1>1, SplitOne
  <1>3. a.lines \in Seq(Text) /\ a.rest \in Text
    BY <1>1 DEF Splittings
  <1>4. Len(b.lines) = c + 1 /\ b.lines[c + 1] = a.rest /\ c \in Nat
    BY <1>2, <1>3
  <1> QED BY <1>4 DEF Count, Rest

\* A line that starts a cue ends: at LF, if nothing more is there to read.
LEMMA CueLineEnds ==
  ASSUME IInv, ReturnSeen, More, doc' = doc, lim' = lim, NEW x, Consume(x),
         \/ x = Step("NEWLINE", "L_START", TRUE) /\ Sym = "LF" /\ tstate # "L_NEWLINE0"
         \/ x = Step("NEWLINE", "L_START", Sym = "LF") /\ tstate = "L_NEWLINE0",
         StartsCue(Reader.phase, Left)
  PROVE  pos' < lim' \/ EndsCueLine(doc, pos)'
  <1>1. /\ doc \in Text /\ pos \in 0 .. Len(doc) - 1 /\ pos \in Nat /\ Len(doc) \in Nat
        /\ pos + 1 \in Nat
    BY Where
  <1>2. pos' = IF x.used THEN pos + 1 ELSE pos
    BY DEF Consume
  <1>3. x.used => Sym = "LF"
    <2>1. CASE x = Step("NEWLINE", "L_START", TRUE) /\ Sym = "LF"
      BY <2>1
    <2>2. CASE x = Step("NEWLINE", "L_START", Sym = "LF")
      BY <2>2 DEF Step
    <2> QED BY <2>1, <2>2
  <1>4. CASE ~x.used
    BY <1>2, <1>4 DEF More
  <1>5. CASE x.used
    <2> DEFINE n == pos + 1
               ended == Splits(doc)[n].lines
               m == Count(doc, n)
    <2>1. doc[n] = "LF" /\ n > 0
      BY <1>1, <1>3, <1>5 DEF Sym
    <2>2. m - 1 = Count(doc, Place) /\ ended[m] = Left
      <3>1. CASE tstate # "L_NEWLINE0"
        <4>1. Place = pos
          BY <3>1 DEF Place
        <4>2. Ends(doc[pos + 1], pos > 0 /\ doc[pos] = "CR")
          BY <1>1, <2>1, <3>1 DEF ReturnSeen, Ends, IsEol
        <4> QED BY <1>1, <4>1, <4>2, LastEnded DEF Left
      <3>2. CASE tstate = "L_NEWLINE0"
        <4>1. Place = pos - 1 /\ doc[pos] = "CR" /\ pos # 0
          BY <3>2 DEF Place, ReturnSeen
        <4>2. pos - 1 \in 0 .. Len(doc) - 1 /\ (pos - 1) + 1 = pos
          BY <1>1, <4>1
        <4>3. Ends(doc[(pos - 1) + 1], pos - 1 > 0 /\ doc[pos - 1] = "CR")
          BY <4>1, <4>2 DEF Ends, IsEol
        <4>4. /\ Count(doc, pos) - 1 = Count(doc, pos - 1)
              /\ Splits(doc)[pos].lines[Count(doc, pos)] = Rest(doc, pos - 1)
          <5>1. /\ Count(doc, (pos - 1) + 1) - 1 = Count(doc, pos - 1)
                /\ Splits(doc)[(pos - 1) + 1].lines[Count(doc, (pos - 1) + 1)] = Rest(doc, pos - 1)
            BY <1>1, <4>2, <4>3, LastEnded
          <5> QED BY <4>2, <5>1
        <4>5. Splits(doc)[n].lines = Splits(doc)[pos].lines
          <5>1. /\ Splits(doc)[pos] \in Splittings /\ doc[n] \in Symbols
                /\ Splits(doc)[n] = SplitSymbol(Splits(doc)[pos], doc[n])
                /\ Splits(doc)[pos].cr
            BY <1>1, <4>1, SplitNext
          <5> QED BY <2>1, <5>1, SplitOne
        <4> QED BY <4>1, <4>4, <4>5 DEF Left, Count
      <3> QED BY <3>1, <3>2
    <2>3. Readers(Lines(doc))[m - 1] = Reader
      BY <2>2 DEF Reader, Before
    <2>4. Len(ended) = m
      BY DEF Count
    <2>5. EndsCueLine(doc, n)
      <3> HIDE DEF n
      <3> QED BY <2>1, <2>2, <2>3, <2>4 DEF EndsCueLine
    <2>6. EndsCueLine(doc', pos')
      BY <1>2, <1>5, <2>5
    <2> QED BY <2>6
  <1> QED BY <1>4, <1>5

\* The parser has a line to look at: the reader has read it.
LEMMA LooksNext ==
  ASSUME Sound, Live, ~finished, FramesKept, Over \/ (Going /\ Following),
         call \in {"idle", "chunk"}, stack[2].type = "V_TEXT", top # 2
  PROVE  Going /\ LineToLookAt
  <1>1. top = 1 /\ Top.state = "T_CUE" /\ LinePending
    BY DEF FramesKept, LineIsRead
  <1>2. ~Over
    BY <1>1 DEF Over, Halted, NoLine
  <1>3. mode = "M_WEBVTT"
    BY HeldCue DEF Sound
  <1>4. ~InInitial /\ ~InTag /\ ~Between /\ ~InFirstLines /\ ~InCueText /\ ~InSkipped
    BY <1>1, <1>3 DEF InInitial, InTag, Between, InFirstLines, InCueText, InSkipped
  <1> QED BY <1>2, <1>4 DEF Following

\* A frame with no line to look at, or none to read.
LEMMA NotUnseen ==
  ASSUME \/ mode' # "M_WEBVTT" \/ top' # 1 \/ ~popped' \/ stack'[1].state # "T_CUE"
         \/ call' \notin {"idle", "chunk"} \/ (call' = "idle" /\ ret' \notin {"SUCCESS", "UNFINISHED"})
         \/ finished' \/ stack'[2].state # "T_CUEREAD"
  PROVE  LineEnded'
  BY DEF LineEnded, Unseen, Going, LineToLookAt, LinePending, Top, Above

\* Reading the first lines of a cue.
LEMMA TurnUnseen ==
  ASSUME Sound, Going, Following, TurnStep PROVE LineEnded'
  <1>1. /\ Turn /\ call = "chunk" /\ mode = "M_WEBVTT" /\ tk = "none" /\ More /\ doc' = doc
    BY DEF TurnStep, Lex, CueReadText, CueReadEol, CueReadNewline, CueMissing, CueReadStarved, CueLine, Turn,
      Sound
  <1>2. CASE Lex
    <2>1. UNCHANGED <<stack, top, popped, mode>> /\ ~(Top.state = "T_CUE" /\ LinePending)
      BY <1>2 DEF Lex, frames
    <2>2. ~(top = 1 /\ popped /\ stack[1].state = "T_CUE" /\ stack[2].state = "T_CUEREAD")
      BY <2>1 DEF LinePending, Top, Above
    <2>3. top' # 1 \/ ~popped' \/ stack'[1].state # "T_CUE" \/ stack'[2].state # "T_CUEREAD"
      BY Zenon, <2>1, <2>2
    <2> QED BY <2>3, NotUnseen
  <1>3. CASE CueReadText \/ CueReadEol \/ CueReadNewline
    <2>1. /\ Top.state = "T_CUEREAD" /\ lim' = lim
      BY <1>3 DEF CueReadText, CueReadEol, CueReadNewline, input
    <2>2. InFirstLines
      BY <1>1, <2>1 DEF Following, InInitial, InTag, Between, LineToLookAt, InCueText, InSkipped, InBody, Top
    <2>3. /\ top = 2 /\ Top = stack[2] /\ Left = Top.text /\ (FirstLine \/ SecondLine)
          /\ (Top.flags = 0 => tstate = "L_START")
      BY <2>2, CueFrame DEF InFirstLines
    <2>4. CASE top' = 2
      BY <2>4, NotUnseen
    <2>5. CASE top' # 2
      <3> DEFINE x == LexedNewline(tstate, Sym)
      <3>1. CueReadNewline /\ x.token = "NEWLINE" /\ Consume(x) /\ Top.flags = 1
        BY <1>3, <2>3, <2>5 DEF CueReadText, CueReadEol, CueReadNewline
      <3>2. \/ x = Step("NEWLINE", "L_START", TRUE) /\ Sym = "LF" /\ tstate # "L_NEWLINE0"
            \/ x = Step("NEWLINE", "L_START", Sym = "LF") /\ tstate = "L_NEWLINE0"
        BY <3>1 DEF LexedNewline, Step
      <3>3. StartsCue(Reader.phase, Left)
        BY <2>3, <3>1 DEF FirstLine, SecondLine, StartsCue
      <3> HIDE DEF x
      <3>4. pos' < lim' \/ EndsCueLine(doc, pos)'
        BY <1>1, <2>1, <3>1, <3>2, <3>3, CueLineEnds DEF Sound, Going
      <3> QED BY <3>4 DEF LineEnded
    <2> QED BY <2>4, <2>5
  <1>4. CASE CueMissing
    <2>1. call' = "idle" /\ ret' = "PARSE_ERROR"
      BY <1>4 DEF CueMissing, Return
    <2> QED BY <2>1, NotUnseen
  <1>5. ASSUME \E d \in Dies : CueReadStarved(d) PROVE FALSE
    BY <1>5 DEF CueReadStarved, Sound
  <1>6. CASE \E d \in Dies : \E f \in Failing : CueLine(d, f)
    <2>1. mode' # "M_WEBVTT" \/ ~popped'
      BY <1>6 DEF CueLine
    <2> QED BY <2>1, NotUnseen
  <1> QED BY <1>2, <1>3, <1>4, <1>5, <1>6 DEF TurnStep

\* A token of the header or the body.
LEMMA TokenUnseen ==
  ASSUME Sound, Going, Following, TokenStep PROVE LineEnded'
  <1>1. /\ stack \in [0..2 -> Frame] /\ top \in 0..2 /\ call = "chunk" /\ Live /\ IInv
    <2>1. call = "chunk"
      BY DEF TokenStep, InitialSignature, InitialReject, TagSpace, TagNewline, TagReject,
        CommentNewline, CommentSkip, EolCount, EolPop, CueAssert, BodyDead, BodyNewline, BodyCue,
        BodyStarved, On
    <2> QED BY <2>1 DEF Live, Sound, IInv, TypeOK, Depth
  <1>2. CASE InitialReject \/ TagReject \/ CueAssert \/ \E d \in Dies : BodyDead(d)
    <2>1. call' = "idle" /\ ret' \in {"PARSE_ERROR", "FAILED_ASSERTION"}
      BY <1>2 DEF InitialReject, TagReject, Reject, CueAssert, BodyDead, Return
    <2> QED BY <2>1, NotUnseen
  <1>3. CASE CommentSkip
    <2>1. Top.state = "T_TAGCOMMENT" /\ UNCHANGED <<stack, top>>
      BY <1>3 DEF CommentSkip, On, frames
    <2>2. top' # 1
      BY <1>1, <2>1, WhereTop
    <2> QED BY <2>2, NotUnseen
  <1>4. CASE InitialSignature \/ TagSpace \/ TagNewline \/ CommentNewline \/ \E d \in Dies : BodyCue(d)
    <2>1. ~popped'
      BY <1>4 DEF InitialSignature, TagSpace, TagNewline, CommentNewline, Push, PopBackAndCount, BodyCue
    <2> QED BY <2>1, NotUnseen
  <1>5. CASE EolCount
    <2>1. Top.state = "T_EOL" /\ stack' = [stack EXCEPT ![top] = WithValue(@, @.value + 1)] /\ top' = top
      BY <1>5 DEF EolCount, On
    <2>2. top = 1 /\ stack[1].state = "T_EOL"
      BY <1>1, <2>1, WhereTop DEF Top
    <2>3. stack'[1].state = "T_EOL"
      BY <1>1, <2>1, <2>2 DEF WithValue, Frame
    <2> QED BY <2>3, NotUnseen
  <1>6. CASE EolPop
    <2>1. Top.state = "T_EOL" /\ top' = top - Top.back
      BY <1>6 DEF EolPop, On
    <2>2. top' = 0
      BY <1>1, <2>1, WhereTop
    <2> QED BY <2>2, NotUnseen
  <1>7. CASE \E d \in Dies : BodyNewline(d)
    <2>1. Top.state = "T_BODY" /\ top' = top
      BY <1>7 DEF BodyNewline, On
    <2>2. top' = 0
      BY <1>1, <2>1, WhereTop
    <2> QED BY <2>2, NotUnseen
  <1>8. ASSUME \E d \in Dies : BodyStarved(d) PROVE FALSE
    BY <1>8 DEF BodyStarved, Sound
  <1> QED BY <1>2, <1>3, <1>4, <1>5, <1>6, <1>7, <1>8 DEF TokenStep

\* Reading the text of a cue.
LEMMA TextUnseen ==
  ASSUME Sound, Going, Following, TextStep PROVE LineEnded'
  <1>1. /\ InText /\ mode # "M_WEBVTT" /\ doc' = doc /\ IInv /\ ReturnSeen
    BY DEF TextStep, TextRead, TextCarriageReturn, TextNewline, TextUnparsed, TextUnseparated,
      TextStarved, AtNewline, InText, Sound, Going
  <1>2. CASE TextRead \/ TextCarriageReturn
    <2>1. mode' = mode
      BY <1>2 DEF TextRead, TextCarriageReturn
    <2> QED BY <1>1, <2>1, NotUnseen
  <1>3. CASE TextNewline
    <2> DEFINE l == Front(lineBuf)
               x == LexedNewline(tstate, Sym)
    <2>1. /\ Marked /\ x.token = "NEWLINE" /\ Consume(x) /\ EndTextLine(l, ~IsText(l), strings) /\ lim' = lim
      BY <1>3 DEF TextNewline, AtNewline
    <2>2. /\ Live /\ InBody /\ More /\ Left = LastLine /\ mode \in {"M_CUETEXT", "M_SKIP_CUE"}
          /\ Reader.phase \in {"text", "skip"}
      BY <1>1, TextReads
    <2>3. l = Left /\ l \in Text
      BY <1>1, <2>1, <2>2, BufferParts
    <2>4. \/ x = Step("NEWLINE", "L_START", TRUE) /\ Sym = "LF" /\ tstate # "L_NEWLINE0"
          \/ x = Step("NEWLINE", "L_START", Sym = "LF") /\ tstate = "L_NEWLINE0"
      BY <2>1 DEF LexedNewline, Step
    <2> HIDE DEF x, l
    <2>5. CASE HasArrow(l)
      <3>1. StartsCue(Reader.phase, Left)
        BY <2>2, <2>3, <2>5 DEF StartsCue
      <3>2. pos' < lim' \/ EndsCueLine(doc, pos)'
        BY <1>1, <2>1, <2>2, <2>4, <3>1, CueLineEnds
      <3> QED BY <3>2 DEF LineEnded
    <2>6. CASE IsText(l)
      <3>1. mode' = mode
        BY <2>1, <2>6 DEF EndTextLine
      <3> QED BY <1>1, <3>1, NotUnseen
    <2>7. CASE ~IsText(l) /\ ~HasArrow(l)
      <3>1. PICK c : CloseCue(c, Above)
        BY <2>1, <2>7 DEF EndTextLine
      <3>2. top = 1 /\ Above.type = "V_NONE"
        BY <1>1, <2>2, HeldCue
      <3>3. top' = 0
        BY <3>1, <3>2 DEF CloseCue
      <3> QED BY <3>3, NotUnseen
    <2> QED BY <2>5, <2>6, <2>7
  <1>4. ASSUME TextUnparsed \/ TextUnseparated \/ \E d \in Dies : TextStarved(d) PROVE FALSE
    BY <1>4 DEF TextUnparsed, TextUnseparated, TextStarved, NoSeparator, Sound
  <1> QED BY <1>2, <1>3, <1>4 DEF TextStep

\* What the client does, and the end of a chunk.
LEMMA ClientUnseen ==
  ASSUME Sound, Going, Following, FramesKept, LineEnded, InTurn, Client \/ ChunkDone PROVE LineEnded'
  <1>1. pos \in Nat /\ lim \in Nat /\ pos <= lim /\ doc' = doc
    BY DEF Sound, IInv, TypeOK, WithinChunk
  <1>2. CASE Feed
    <2>1. pos' = lim /\ lim' > lim
      BY <1>1, <1>2 DEF Feed, Sound, IInv, TypeOK
    <2>2. pos' < lim'
      BY <1>1, <2>1
    <2> QED BY <2>2 DEF LineEnded
  <1>3. CASE FinishCall \/ Delete
    <2>1. call' \in {"finish", "deleted"}
      BY <1>3 DEF FinishCall, Delete
    <2> QED BY <2>1, NotUnseen
  <1>4. CASE ChunkDone
    <2>1. /\ call = "chunk" /\ ~finished /\ Live /\ pos' = lim /\ ~(pos < lim)
          /\ UNCHANGED <<stack, top, popped, mode, lim>>
      BY <1>4 DEF ChunkDone, Return, frames, InTurn, Live, More
    <2>2. pos = lim /\ pos' = pos
      BY <1>1, <2>1
    <2>3. CASE stack[2].type = "V_TEXT" /\ top # 2
      <3>1. Unseen
        BY <2>1, <2>3, LooksNext DEF Unseen
      <3>2. EndsCueLine(doc, pos)
        BY <2>1, <3>1 DEF LineEnded
      <3>3. EndsCueLine(doc', pos')
        BY <1>1, <2>2, <3>2
      <3> QED BY <3>3 DEF LineEnded
    <2>4. CASE stack[2].type # "V_TEXT"
      BY <2>1, <2>4 DEF LineEnded, Unseen, LineToLookAt, Above
    <2>5. CASE top = 2
      BY <2>1, <2>5, NotUnseen
    <2> QED BY <2>3, <2>4, <2>5
  <1> QED BY <1>2, <1>3, <1>4 DEF Client

\* So it is after every step.
LEMMA StepUnseen ==
  ASSUME Sound, Separated(doc) => TextsSeparated, Tracks, FramesKept, LineEnded, InTurn, Client \/ Parser
  PROVE  LineEnded'
  <1>1. Over \/ (Going /\ Following)
    BY DEF Tracks, Sound
  <1>2. CASE Over
    <2>1. Over'
      BY <1>2, OverClient, OverChunk, OverFinish DEF Parser
    <2>2. Halted'
      BY <2>1 DEF Over
    <2> QED BY <2>2 DEF Halted, LineEnded, Unseen, Going, LineToLookAt, NoLine
  <1>3. CASE Going /\ Following
    <2>1. CASE FinishStep
      <3>1. call \in {"finish", "cleanup"} /\ finished
        BY <2>1, InFinish DEF Sound
      <3>2. finished'
        BY <3>1, StepCalls DEF CallGoes, Next, Parser
      <3> QED BY <3>2, NotUnseen
    <2>2. ~ChunkStarved
      BY <1>3 DEF ChunkStarved, Starved, Going
    <2> QED BY <1>3, <2>1, <2>2, ClientUnseen, TurnUnseen, TokenUnseen, TextUnseen DEF Parser
  <1> QED BY <1>1, <1>2, <1>3

\* What cleanup_stack leaves above the top stays there,
LEMMA LeftByCleanup ==
  ASSUME IInv, CleanupStack, stack'[2].type = "V_TEXT"
  PROVE  top # 2 /\ stack[2].type = "V_TEXT"
  BY CleanedExactly

\* a parser that is finished in a line of a cue looks at it,
LEMMA FinishLineLeft ==
  ASSUME Sound, FramesKept, FinishStep, ~FinishCueText, ~FinishCleanup
  PROVE  top' = 2 \/ stack'[2].type # "V_TEXT"
  <1>1. /\ IInv /\ ~MayFail /\ Live /\ stack \in [0..2 -> Frame] /\ call \in {"finish", "cleanup"}
    <2>1. IInv /\ ~MayFail /\ call \in {"finish", "cleanup"}
      BY InFinish DEF Sound
    <2> QED BY <2>1 DEF Live, IInv, TypeOK, Depth
  <1>2. CASE FinishAssert
    <2>1. /\ UNCHANGED <<stack, top>> /\ FinishInCue /\ Top.state \in {"T_CUE", "T_CUEREAD"}
          /\ ~FinishHasLine \/ stack[FinishTop].cue = 0
      BY <1>2 DEF FinishAssert, FinishInCue, frames
    <2>2. top = 2 \/ ~LinePending
      BY <1>1, <2>1, CueIsThere DEF FinishHasLine, FinishTop
    <2> QED BY <1>1, <2>1, <2>2 DEF FramesKept, LineIsRead
  <1>3. CASE FinishElse
    <2>1. UNCHANGED <<stack, top>>
      BY <1>3 DEF FinishElse, frames
    <2>2. mode # "M_WEBVTT" \/ Top.state \notin {"T_CUE", "T_CUEREAD"}
      BY <1>3 DEF FinishElse
    <2> QED BY <1>1, <2>1, <2>2, HeldCue DEF FramesKept, LineIsRead
  <1>4. ASSUME FinishUnseparated \/ \E d \in Dies : FinishTextStarved(d) PROVE FALSE
    BY <1>1, <1>4 DEF FinishUnseparated, FinishTextStarved, NoSeparator
  <1>5. ASSUME NEW d \in Dies, NEW e \in Dies, NEW f \in Failing, FinishCueLine(d, e, f)
        PROVE  top' = 2 \/ stack'[2].type # "V_TEXT"
    <2> DEFINE t == FinishTop
               r == ProcCueLine(cues[stack[t].cue], stack[t + 1], d, f)
               g == InState(Vacate(stack[t + 1]), "T_INITIAL")
               stk == [stack EXCEPT ![t + 1] = g]
    <2>1. /\ FinishInCue /\ FinishHasLine /\ top' = (IF r.again THEN t + 1 ELSE t)
          /\ stack' = AfterLine(stk, t, r)
      BY <1>5 DEF FinishCueLine
    <2>2. t = 1
      BY <1>1, <2>1, CueIsThere DEF FinishInCue, FinishTop
    <2>3. stk \in [0..2 -> Frame] /\ stk[2].type = "V_NONE"
      <3>1. g \in Frame /\ g.type = "V_NONE"
        BY <1>1, <2>2, VacateType, InStateType DEF States
      <3> HIDE DEF g
      <3> QED BY <1>1, <2>2, <3>1
    <2> HIDE DEF t, r, g, stk
    <2>4. CASE r.again
      BY <2>1, <2>2, <2>4
    <2>5. CASE ~r.again
      BY <2>1, <2>3, <2>5 DEF AfterLine
    <2> QED BY <2>4, <2>5
  <1> QED BY <1>2, <1>3, <1>4, <1>5 DEF FinishStep

\* and one that is finished in the text of a cue leaves a line that starts another.
LEMMA FinishTextLeft ==
  ASSUME Sound, Over \/ (Going /\ Following), FinishCueText, stack'[2].type = "V_TEXT"
  PROVE  ArrowAtEnd(doc)
  <1>1. IInv /\ call = "finish" /\ mode = "M_CUETEXT" /\ Live /\ EndTextLine(LastLine, TRUE, WithLineBuf)
    BY DEF FinishCueText, FinishInText, Sound, Live
  <1>2. Going /\ InCueText
    <2>1. ~Over
      BY <1>1 DEF Over, Halted, NoLine
    <2>2. Going /\ Following
      BY <2>1
    <2> QED BY <1>1, <2>2 DEF Following, InInitial, InTag, Between, InFirstLines, LineToLookAt, InSkipped
  <1>3. HasArrow(LastLine)
    <2>1. SUFFICES ASSUME ~HasArrow(LastLine) PROVE FALSE
      OBVIOUS
    <2>2. PICK c : CloseCue(c, Above)
      BY <1>1, <2>1 DEF EndTextLine
    <2>3. top = 1 /\ Above = stack[2] /\ Above.type = "V_NONE" /\ stack \in [0..2 -> Frame] /\ stack[2] \in Frame
      BY <1>1, HeldCue
    <2>4. stack'[2] = InState(stack[2], "T_INITIAL")
      BY <2>2, <2>3 DEF CloseCue
    <2>5. stack'[2].type = "V_NONE"
      BY <2>3, <2>4 DEF InState, Frame
    <2> QED BY <2>5
  <1>4. Left = LastLine /\ Follows(Reader)
    <2>1. CASE lineBuf = << >>
      <3>1. LastLine = << >>
        BY <2>1 DEF LastLine, Marked
      <3> QED BY <1>3, <3>1 DEF HasArrow
    <2> QED BY <1>2, <2>1 DEF InCueText
  <1>5. Reader.phase = "text"
    BY <1>4 DEF Follows
  <1>6. pos = Len(doc) /\ ReturnSeen
    BY <1>1, <1>2 DEF Going
  <1> QED BY <1>1, <1>3, <1>4, <1>5, <1>6, AllUsed

\* When the parser is through, so it is with what every step leaves.
LEMMA StepLeft ==
  ASSUME Sound, Tracks, InTurn, FramesKept, LineEnded, LineLeft, Client \/ Parser
  PROVE  LineLeft'
  <1>1. IInv /\ doc' = doc /\ (Over \/ (Going /\ Following))
    BY DEF Tracks, Sound
  <1>2. CASE Delete
    <2>1. /\ CleanupStack /\ call = "idle" /\ call' = "deleted" /\ finished' = finished /\ lim' = lim
      BY <1>2 DEF Delete, input
    <2>2. SUFFICES ASSUME stack'[2].type = "V_TEXT" PROVE EndedOnLine'
      BY <2>1 DEF LineLeft
    <2>3. top # 2 /\ stack[2].type = "V_TEXT"
      BY <1>1, <2>1, <2>2, LeftByCleanup
    <2>4. CASE finished
      BY <1>1, <2>1, <2>3, <2>4 DEF LineLeft, EndedOnLine, Live
    <2>5. CASE ~finished
      <3>1. Going /\ LineToLookAt
        BY <1>1, <2>1, <2>3, <2>5, LooksNext DEF Live
      <3>2. pos = lim
        BY <2>1, <3>1 DEF Going
      <3>3. lim \in Nat /\ ~(pos < lim)
        BY <1>1, <3>2 DEF IInv, TypeOK
      <3>4. EndsCueLine(doc, lim)
        BY <2>1, <3>1, <3>2, <3>3 DEF LineEnded, Unseen
      <3> QED BY <1>1, <2>1, <2>5, <3>4 DEF EndedOnLine
    <2> QED BY <2>4, <2>5
  <1>3. CASE Feed \/ FinishCall
    <2>1. call' \in {"chunk", "finish"}
      BY <1>3 DEF Feed, FinishCall
    <2> QED BY <2>1 DEF LineLeft, Live
  <1>4. CASE FinishCleanup
    <2>1. /\ CleanupStack /\ call = "cleanup" /\ call' = "idle" /\ finished' = finished /\ finished
      BY <1>1, <1>4 DEF FinishCleanup, Return, IInv, Finishing
    <2>2. stack'[2].type = "V_TEXT" => ArrowAtEnd(doc)
      BY <1>1, <2>1, LeftByCleanup DEF LineLeft
    <2> QED BY <1>1, <2>1, <2>2 DEF LineLeft, EndedOnLine
  <1>5. CASE FinishCueText
    <2>1. call' = "cleanup"
      BY <1>5 DEF FinishCueText
    <2>2. stack'[2].type = "V_TEXT" => ArrowAtEnd(doc)
      BY <1>1, <1>5, FinishTextLeft
    <2> QED BY <1>1, <2>1, <2>2 DEF LineLeft, Live
  <1>6. CASE FinishStep /\ ~FinishCueText /\ ~FinishCleanup
    BY <1>6, FinishLineLeft DEF LineLeft
  <1>7. CASE Parser /\ ~FinishStep
    <2>1. call = "chunk" /\ ~finished
      BY <1>7, InChunk DEF Parser, InTurn
    <2>2. call' \in {"chunk", "idle"} /\ finished' = finished
      BY <2>1, <1>7, StepCalls DEF CallGoes, Next
    <2> QED BY <2>1, <2>2 DEF LineLeft, Live
  <1> QED BY <1>2, <1>3, <1>4, <1>5, <1>6, <1>7 DEF Client

\* The strings are those that are held, but for the one that may be left.
LEMMA HeldAccounted ==
  ASSUME IInv, Accounted, LineLeft
  PROVE  \/ strings = HeldLines
         \/ strings = HeldLines + 1 /\ (TimingsRefused \/ EndedOnLine)
  <1> DEFINE b == IF lineBuf # << >> THEN 1 ELSE 0
             above == IF LinePending /\ Above.type = "V_TEXT" THEN 1 ELSE 0
             inUse == IF top = 2 /\ stack[2].type = "V_TEXT" THEN 1 ELSE 0
  <1>1. stack \in [0..2 -> Frame] /\ top \in 0..2
    BY DEF IInv, TypeOK, Depth
  <1>2. HeldLines = inUse + above + b
    <2>1. Held("V_TEXT") = IF top = 2 /\ stack[2].type = "V_TEXT" THEN {2} ELSE {}
      BY <1>1 DEF Held, IInv, LineFrames, Depth
    <2>2. Cardinality(Held("V_TEXT")) = inUse
      BY <2>1, FS_Singleton, FS_EmptySet
    <2> QED BY <2>2 DEF HeldLines
  <1>3. b \in {0, 1} /\ above \in {0, 1} /\ inUse \in {0, 1}
    OBVIOUS
  <1>4. above = 1 => stack[2].type = "V_TEXT" /\ top = 1
    <2> SUFFICES ASSUME LinePending, Above.type = "V_TEXT" PROVE stack[2].type = "V_TEXT" /\ top = 1
      OBVIOUS
    <2>1. top # 2
      BY DEF Accounted, FramesKept, LinePending
    <2>2. top + 1 = 2
      BY <1>1, <2>1 DEF Above, IInv, LineFrames, Depth
    <2> QED BY <1>1, <2>2 DEF Above
  <1>5. StringsInUse = (IF stack[2].type = "V_TEXT" THEN 1 ELSE 0) + b
    BY DEF StringsInUse
  <1>6. CASE stack[2].type # "V_TEXT"
    <2>1. HeldLines = b /\ StringsInUse = b
      <3>1. above = 0 /\ inUse = 0
        BY <1>3, <1>4, <1>6
      <3> HIDE DEF b, above, inUse
      <3> QED BY <1>2, <1>3, <1>5, <1>6, <3>1
    <2>2. LineLost => TimingsRefused
      <3> SUFFICES ASSUME Stuck, Refusal PROVE TimingsRefused
        BY DEF LineLost
      <3>1. status \in Failures \/ ret \in Failures
        BY DEF Stuck, Failures
      <3>2. {status, ret} \cap {"PARSE_ERROR", "FAILED_ASSERTION"} # {}
        BY <3>1 DEF Failures
      <3>3. ~Separated(doc) \/ \E e \in ToSet(errors) : e[1] \in {"EXPECTED_TIMESTAMP", "EXPECTED_WHITESPACE"}
        BY DEF Refusal, ReportsTimings, ToSet
      <3> QED BY <3>2, <3>3 DEF TimingsRefused
    <2> QED BY <2>1, <2>2 DEF Accounted, AllInUse, LineLost, OneMore
  <1>7. CASE stack[2].type = "V_TEXT"
    <2>1. strings = 1 + b
      BY <1>5, <1>7 DEF Accounted, AllInUse, LineLost, OneMore
    <2>2. CASE Live
      <3>1. inUse + above = 1
        <4>1. CASE top = 2
          BY <1>3, <1>4, <1>7, <4>1
        <4>2. CASE top = 1 /\ LinePending
          <5>1. Above.type = "V_TEXT"
            BY <1>7, <4>2 DEF Above
          <5> QED BY <4>2, <5>1
        <4> QED BY <1>7, <2>2, <4>1, <4>2 DEF Accounted, FramesKept, LineIsRead
      <3> HIDE DEF b, above, inUse
      <3> QED BY <1>2, <2>1, <3>1
    <2>3. CASE ~Live /\ top = 2
      <3>1. above = 0 /\ inUse = 1
        BY <1>3, <1>4, <1>7, <2>3
      <3> HIDE DEF b, above, inUse
      <3> QED BY <1>2, <1>3, <2>1, <3>1
    <2>4. CASE ~Live /\ top # 2
      <3>1. inUse = 0 /\ EndedOnLine
        BY <1>7, <2>4 DEF LineLeft
      <3> HIDE DEF b, above, inUse
      <3> QED BY <1>2, <1>3, <2>1, <3>1
    <2> QED BY <2>2, <2>3, <2>4
  <1> QED BY <1>6, <1>7

\* While there is memory, every string allocated for a line of a document with no comment
\* after the signature has one holder: a frame in use, the frame above them when a line is
\* handed over in it, or the line buffer.  The one exception is a single line that nobody
\* is left to release: the line of timings on which the parser fails, and the line handed
\* over above the top when the parser is finished or deleted before it looks at it.  It
\* holds of any document, any cutting into chunks and any reports that are refused.
THEOREM StringsAreAccounted == Spec => []StringsAccounted
  <1> DEFINE J == Handed /\ (Separated(doc) => TextsSeparated) /\ Tracks
             K == ~MayFail /\ ~Commented(doc) => Accounted /\ LineEnded /\ LineLeft
  <1>1. Init => K
    <2> SUFFICES ASSUME Init PROVE Accounted /\ LineEnded /\ LineLeft
      OBVIOUS
    <2>1. Top = EmptyFrame /\ EmptyFrame.state = "T_INITIAL"
      BY DEF Init, Top, Depth, EmptyFrame, NewFrame
    <2> QED BY <2>1, InitAccounted DEF Init, LineEnded, Unseen, LineToLookAt, LineLeft, Live
  <1>2. IInv /\ J /\ InTurn /\ K /\ [Next]_vars => K'
    <2> SUFFICES ASSUME IInv, J, InTurn, K, [Next]_vars, (~MayFail)', ~Commented(doc)'
                 PROVE  Accounted' /\ LineEnded' /\ LineLeft'
      OBVIOUS
    <2>1. Sound
      BY DocumentStays, StepInvariant, StepHanded DEF Sound, MayFail
    <2>2. Accounted /\ LineEnded /\ LineLeft /\ FramesKept
      BY <2>1 DEF Sound, Accounted
    <2>3. Accounted'
      BY <2>1, <2>2, StepAccounted DEF Sound
    <2>4. CASE Client \/ Parser
      BY <2>1, <2>2, <2>3, <2>4, StepUnseen, StepLeft
    <2>5. CASE UNCHANGED vars \/ Gone
      <3>1. UNCHANGED vars
        BY <2>5 DEF Gone
      <3>2. UNCHANGED <<doc, lim, pos, call, ret, mode, finished, top, stack, popped>>
        BY <3>1 DEF vars, input, calling, frames
      <3>3. LineLeft'
        BY <2>2, <3>2 DEF LineLeft, Live, EndedOnLine
      <3>4. Unseen' => Unseen
        <4>1. UNCHANGED <<Top, Above, TheCue, Contents, Reader, Left>> /\ (Going' => Going)
          BY <3>1, SamePlace
        <4>2. UNCHANGED <<tk, tstate>>
          BY <3>1 DEF vars, lexer
        <4>3. LineToLookAt' => LineToLookAt
          BY <3>2, <4>1, <4>2 DEF LineToLookAt, InBody, LinePending, Fit, Fits, Understood, Lenient
        <4> QED BY <3>2, <4>1, <4>3 DEF Unseen
      <3>5. LineEnded'
        BY <2>2, <3>2, <3>4 DEF LineEnded
      <3> QED BY <2>3, <3>3, <3>5
    <2> QED BY <2>4, <2>5 DEF Next
  <1>3. IInv /\ K => StringsAccounted
    BY HeldAccounted DEF StringsAccounted
  <1>4. Spec => []InTurn
    <2>1. Init => InTurn
      BY DEF Init, InTurn
    <2> QED BY <2>1, StepOpened, PTL DEF Spec
  <1>5. Spec => []J
    BY SpecTracks
  <1> HIDE DEF J, K
  <1> QED BY <1>1, <1>2, <1>3, <1>4, <1>5, Invariant, PTL DEF Spec

=============================================================================
