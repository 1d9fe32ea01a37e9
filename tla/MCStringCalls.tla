---------------------------- MODULE MCStringCalls ----------------------------
(***************************************************************************)
(* Calls for StringCalls.                                                  *)
(***************************************************************************)
EXTENDS StringCalls

CONSTANT Largest
RequestsUpToLargest == 0..Largest

-----------------------------------------------------------------------------
\* NUL by the three bytes of U+FFFD, as in the parser; replacements that are shorter, as
\* long, or nothing; and two that make what is searched for out of what was around it.
Sound == {<< <<"0">>, <<"e", "f", "d">> >>, << <<"a">>, <<"b">> >>, << <<"a">>, << >> >>,
          << <<"a", "b">>, << >> >>, << <<"a", "b", "b", "a", "a">>, << >> >>,
          << <<"a", "a", "b">>, <<"b", "a">> >>,
          << <<"a", "b">>, <<"0", "d", "f">> >>}

-----------------------------------------------------------------------------
\* The trail bytes of a code point, and its encoding in so many bytes, be it the
\* shortest or not.
TrailOf(c, k) == [i \in 1..k |-> 128 + ((c \div 64^(k - i)) % 64)]
Encode(c, bytes) ==
  CASE bytes = 1 -> <<c>>
    [] bytes = 2 -> <<192 + (c \div 64)>> \o TrailOf(c, 1)
    [] bytes = 3 -> <<224 + (c \div 4096)>> \o TrailOf(c, 2)
    [] OTHER -> <<240 + (c \div 262144)>> \o TrailOf(c, 3)

Boundaries ==
  {Encode(c, 1) : c \in {1, 127}}
  \cup {Encode(c, 2) : c \in {127, 128, 2047}}
  \cup {Encode(c, 3) : c \in {2047, 2048, 55295, 55296, 57343, 57344,
                              64975, 64976, 65007, 65008, 65533, 65534, 65535}}
  \cup {Encode(c, 4) : c \in {65535, 65536, 131069, 131070, 131072, 1114109, 1114110,
                              1114111, 1114112, 2097151}}

\* A boundary alone, and between characters of one and of two bytes; and characters
\* that are cut off at the end.
Separate == {<< >>, <<65>>, <<195, 169>>}
Cut == {<<195>>, <<226, 130>>, <<240, 159, 152>>}
WellFormed == {<< >>} \cup {x \o b \o y : x, y \in Separate, b \in Boundaries}
                     \cup {x \o y \o c : x, y \in Separate, c \in Cut}

\* As many characters as there are, one more, and fewer than none.
ToSkip == -1 .. 4

=============================================================================
