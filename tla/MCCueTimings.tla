---------------------------- MODULE MCCueTimings ----------------------------
(***************************************************************************)
(* Instances of CueTimings: numbers in base four, an hour of ten minutes   *)
(* of ten seconds of 64 milliseconds, a percentage of at most 16, integers *)
(* of 8 and 16 bits, room for a keyword of one character.                  *)
(***************************************************************************)
EXTENDS CueTimings

Four == <<"0", "1", "2", "3">>

One(S) == {<<c>> : c \in S}
Cat(S, T) == {s \o t : s \in S, t \in T}

\* Runs of digits: none, one, two of them at the boundary of Sixty, three at that of
\* Thousand, and four.
Runs == {<< >>, <<"1">>, <<"2", "1">>, <<"2", "2">>, <<"3", "3", "3">>, <<"1", "0", "0", "0">>}
FewRuns == {<<"1">>, <<"2", "1">>, <<"2", "2">>, <<"3", "3", "3">>}
\* A number that wraps, and wraps to a negative one.
Big == <<"2", "0", "0", "0", "0", "0", "0", "1">>
Huge == <<"1", "1">> \o Big

Joined(A, x, B) == Cat(A, Cat(One(x), B))
Short(R) == Joined(R, {":"}, Joined(R, {"."}, R))
Long(R) == Joined(R, {":"}, Joined(R, {":"}, Joined(R, {"."}, R)))
Broken == Joined(FewRuns, {":", ".", "-", "a"}, Joined(FewRuns, {":", ".", "a"}, FewRuns))
          \cup Joined({<<"1", "1">>}, {":"}, Joined(FewRuns \cup {<< >>}, {":"},
                 Joined(FewRuns \cup {<< >>}, {":", ".", "a"}, {<<"1", "1", "1">>, << >>})))
Wide == {Big \o <<":">> \o x : x \in Joined(FewRuns, {"."}, FewRuns)}
        \cup Joined({<<"1">>}, {":"}, Joined({Big, Huge}, {":"}, Joined({Huge}, {"."}, {Big, Huge})))

\* Times at the start of a line, and after the arrow.
T0 == <<"0", "0", ":", "0", "1", ".", "0", "0", "0">>
T1 == <<"0", "0", ":", "0", "2", ".", "0", "0", "0">>
T2 == <<"1", ":", "1", ".", "1", "0", "0">>
Sp == <<" ">>
AllTimes == Short(Runs) \cup Long(Runs) \cup Broken \cup Wide
SomeTimes == {T0, T1, T2, << >>, Big} \cup {Big \o <<":">> \o T1} \cup Short({<<"2", "2">>, <<"1", "1", "1">>})

TimeLines ==
  Cat(AllTimes, {Arrow \o T1})
  \cup Cat({<< >>, Sp \o <<"TAB">>},
           Cat({T0, T2, << >>}, Cat({Sp, << >>, <<"a">>, <<"-">>}, Cat({Arrow \o Sp, Arrow \o <<"-">>, Arrow},
               Cat(SomeTimes, {<< >>, Sp, <<"a", ":", "b">>, <<"align", ":", "left">>, Sp \o Arrow})))))

-----------------------------------------------------------------------------
\* Settings: every key with values at the edges of what it takes, and words that are
\* no settings at all.
Percents == {<<"1", "0", "0", "%">>, <<"1", "0", "1", "%">>, <<"0", "%">>, <<"3">>, <<"%">>,
             <<"1", "%", "1">>, <<"-", "1", "%">>, <<"2", "2", "2", "%", "%">>}
LineValues == Percents \cup {<<"-", "1">>, <<"1", "-">>, <<"-">>, <<"-", "-", "1">>, <<"1", "3", "3", "3">>,
                             <<"2", "0", "1">>}
Words == Cat({<<"line", ":">>}, LineValues)
         \cup Cat(One({"position", "size"}), Cat({<<":">>}, Percents))
         \cup Cat({<<"align", ":">>}, {<<"left">>, <<"middle">>, <<"lr">>, <<"left", "a">>})
         \cup Cat({<<"vertical", ":">>}, {<<"lr">>, <<"rl">>, <<"rl", ":">>})
         \cup {<<"a">>, <<":">>, <<"a", ":">>, <<":", "lr">>, <<"a", ":", "1">>,
               <<"a", "align", ":", "left">>, <<"align", "a", "1", ":", "left">>}
FewWords == {<<"line", ":", "2", "%">>, <<"line", ":", "-", "2">>, <<"line", ":", "1", "1", "1", "%">>,
             <<"align", ":", "end">>, <<"vertical", ":", "rl">>,
             <<"position", ":", "1", "%">>, <<"position", ":", "2", "%">>, <<"size", ":", "3", "%">>, <<"a">>}

InARow == Words \cup Cat(Words, Cat({Sp}, Words))
          \cup Cat(FewWords, Cat({<<"TAB", "FF">>}, Cat(FewWords, Cat({Sp}, FewWords))))

SettingLines == Cat({T0 \o Arrow \o T1 \o Sp}, InARow \cup Cat(FewWords, {Sp}))
CueLines == TimeLines \cup SettingLines

\* What an application sets may hold line terminators.
Given == Words \cup Cat({<< >>, Sp}, Cat(FewWords, Cat({Sp, <<"LF">>, <<"CR">>, <<"CR", "LF">>, <<"LF", " ">>},
                                              Cat(FewWords, {<< >>, <<"CR">>}))))
=============================================================================
