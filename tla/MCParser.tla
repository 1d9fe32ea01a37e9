------------------------------ MODULE MCParser ------------------------------
(***************************************************************************)
(* Instances of Parser.  Every document of the runs is a header, or any    *)
(* first symbols at all, followed by every sequence of at most BodyLength  *)
(* symbols of BodySymbols; the client cuts it into chunks in every way.    *)
(***************************************************************************)
EXTENDS Parser

CONSTANTS BodySymbols, BodyLength

Strings(S, n) == UNION {[1..m -> S] : m \in 0..n}
Tails == Strings(BodySymbols, BodyLength)

\* Documents with a plain header and the blank line after it.
Plain(S) == {<<"WEB", "VTT", "LF", "LF">> \o s : s \in S}
Bodies == Plain(Tails)

\* ... and a few without the blank line.
MoreBodies == Bodies \cup {<<"WEB", "VTT", "LF">> \o s : s \in {t \in Tails : Len(t) < 3}}

\* Documents that start in any way, and with a bare signature.
Openings(S) == S \cup {<<"WEB", "VTT">> \o s : s \in S}
Headers == Openings(Tails)

\* Short bodies, and a little more after the timings of a good cue.
Refusals == MoreBodies \cup Plain({<<"OK", "LF">> \o s : s \in {t \in Tails : Len(t) < 3}})

\* What memory runs out in: bodies, and a little more after the timings of a good cue,
\* so that its text has two lines or three, or starts another cue; and an id with the
\* beginning of a token after it.
Starvations ==
  LET Few == Strings({"TXT", "OK", "LF"}, 3)
      Longest == {<<"TXT", "LF">> \o s : s \in {t \in Few : Len(t) = 3}}
      Ids == {<<"TXT", "LF">> \o s : s \in Strings({"SP", "CR"}, 2)}
  IN  Plain(Few \cup Ids \cup {<<"OK", "LF">> \o s : s \in Few \cup Longest})

FailingDocs == Refusals \cup Starvations
ScarceDocs == Starvations

\* Bodies, every way a document can start, and lines that start with white space
\* or a part of the signature, so that the lexer sees them first.  None of these
\* documents ends in a line with "-->" that is not terminated, inside the text of a
\* cue: webvtt_finish_parsing begins a cue there that nothing completes.  None of
\* those with a comment after the signature has a cue.
Readings ==
  {d \in MoreBodies
         \cup Openings(Strings({"WEB", "VTT", "SP", "TXT", "LF", "CR"}, 4))
         \cup Plain(Strings({"SP", "WEB", "VTT", "OK", "BACK", "LF"}, 4)) : ~ArrowAtEnd(d)}

=============================================================================
