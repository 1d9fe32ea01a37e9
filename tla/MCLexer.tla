------------------------------ MODULE MCLexer -------------------------------
(***************************************************************************)
(* Instances of Lexer with a token buffer of eight bytes.                  *)
(***************************************************************************)
EXTENDS Lexer

Strings(S, n) == UNION {[1..m -> S] : m \in 0..n}
Sign == <<"W", "E", "B", "V", "T", "T">>
BOM == <<"EF", "BB", "BF">>
Repeat(c, n) == [i \in 1..n |-> c]

\* Ways to start: marks, pieces of marks and of the signature, a second signature.
Starts == {<< >>, BOM, BOM \o BOM, <<"EF", "BB">>, <<"x">>, <<"LF">>, <<"W", "E">>}
Headers == {s \o Sign \o t : s \in Starts, t \in Strings({"SP", "LF", "CR", "x"}, 3)}
           \cup {<<"EF">> \o s : s \in Strings({"BB", "BF", "W"}, 3)}
           \cup {Sign \o <<"SP", "LF">> \o Sign \o t : t \in Strings({"SP", "LF", "W"}, 3)}

\* Bodies: lines that begin like tokens.
Bodies == {Sign \o <<"LF", "LF">> \o t : t \in Strings({"W", "SP", "LF", "CR", "x"}, 4)}
          \cup {Sign \o <<"CR", "LF", "CR">> \o t : t \in Strings({"EF", "LF", "CR"}, 3)}
          \cup {Sign \o <<"LF", "LF">> \o BOM \o t : t \in Strings({"x", "LF"}, 2)}
          \cup {Sign \o <<"LF", "LF">> \o SubSeq(Sign, 1, k) \o <<"E", "LF", "CR", "LF", "LF", "x">> : k \in 1..6}

\* Lines of cue text that each begin another cue.
Chains == {Sign \o <<"LF", "LF", "x", "LF", "W", "LF", "SP", "CR", "LF", "x", "CR", "LF", "LF">>}

\* White space that fills the buffer, and comments in pieces that do.
Long == {Sign \o <<"LF", "LF">> \o Repeat("SP", k) \o <<"x", "LF", "W">> : k \in 5..9}
        \cup {Sign \o Repeat("SP", k) \o <<"LF", "LF">> : k \in 5..9}
        \cup {Sign \o <<"SP">> \o SubSeq(Sign, 1, 5) \o <<"x">> \o SubSeq(Sign, 1, 4),
              Sign \o <<"SP">> \o SubSeq(Sign, 1, 3) \o <<"x", "SP", "SP", "x", "W", "E">>}

AllDocs == Headers \cup Bodies \cup Chains \cup Long
=============================================================================
