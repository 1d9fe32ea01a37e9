------------------------------ MODULE MCCueText ------------------------------
(***************************************************************************)
(* Instances of CueText.  The texts of a run are every sequence of at most *)
(* Length whole tags, and the inside of a tag and of an escape symbol by   *)
(* symbol.                                                                 *)
(***************************************************************************)
EXTENDS CueText

CONSTANT Length  \* how many chunks a text of whole tags has

Strings(C, n) == {FlattenSeq(s) : s \in UNION {[1..m -> C] : m \in 0..n}}
Behind(S, T) == {s \o t : s \in S, t \in T}
Singles(S) == {<<s>> : s \in S}

StartTagChunk(name) == <<"LT", name, "GT">>
EndTagChunk(name) == <<"LT", "SLASH", name, "GT">>

\* Whole tags with text between them, for the shape of the tree.
TagNames == {"b", "ruby", "rt", "lang"}
WholeTags == {StartTagChunk(n) : n \in TagNames} \cup {EndTagChunk(n) : n \in TagNames}
                \cup {<<"LT", "lang", "SP", "v", "GT">>, <<"x">>}

\* Tags with a name of one letter that no tag has, among others.
LetterTags == {StartTagChunk("x"), EndTagChunk("x"), StartTagChunk("b"), EndTagChunk("b"),
               StartTagChunk("lang"), EndTagChunk("lang"), StartTagChunk("rt"), StartTagChunk("ruby")}

\* The inside of one tag, symbol by symbol, closed or not.
TagSymbols == Singles({"LT", "GT", "DOT", "SP", "SLASH", "v", "7"})
Insides == Behind({<<"LT">>}, Strings(TagSymbols, 4))

\* An escape, symbol by symbol, closed or not, after text or after nothing.
EscapeSymbols == Singles({"LT", "AMP", "SEMI", "amp", "lt", "x", "GT", "SP"})
Escapes == Behind({<<"AMP">>, <<"x", "AMP">>}, Strings(EscapeSymbols, 4))

AllTexts == Strings(WholeTags, Length) \cup Strings(LetterTags, Length) \cup Insides \cup Escapes

=============================================================================
