----------------------------- MODULE StringCalls -----------------------------
(***************************************************************************)
(* The functions of string.c that loop, each in a call of its own: grow,   *)
(* webvtt_string_replace_all, and those that count and find characters for *)
(* String::charCount and String::utf16At.  The first state says which of   *)
(* them is called, and with what; the call runs to its end.                *)
(***************************************************************************)
EXTENDS Growth, Sequences

CONSTANTS
  Bytes, Junk, MaxLength, Calls, Header, Spare,  \* of Replace
  SmallPage, SmallLeast,                         \* its block sizes, scaled down
  Texts, Offsets                                 \* of Utf8

ASSUME CallsAssumption == \A c \in Calls : Len(c[1]) \in 1 .. Spare + 1 /\ Len(c[2]) \in Nat
ASSUME BlocksAssumption == Spare \in Nat \ {0} /\ Header \in Nat /\ Junk \notin Bytes
ASSUME SmallSizes == SmallLeast \in Nat /\ SmallPage \in Nat /\ SmallPage < 2^30
ASSUME TextsAssumption == \A t \in Texts : t \in Seq(0..255)

VARIABLES
  original, call, block, length, status,
  text, begin, offset, step, count, p, left, need, uc, min, result, high

replacing == <<original, call, block, length, status>>
reading == <<text, begin, offset, step, count, p, left, need, uc, min, result, high>>
all == <<vars, replacing, reading>>

Replacing == INSTANCE Replace WITH Page <- SmallPage, Least <- SmallLeast
Reading == INSTANCE Utf8 WITH at <- step

NoGrowing == grow = 0 /\ n = 0 /\ at = "none"
NoReplacing == /\ original = << >> /\ call = <<<< >>, << >>>> /\ block = << >>
               /\ length = 0 /\ status = "none"
NoReading == /\ text = << >> /\ begin = 1 /\ offset = 0 /\ step = "none" /\ count = 0 /\ p = 1
             /\ left = 0 /\ need = 0 /\ uc = 0 /\ min = 0 /\ result = 0 /\ high = "unset"

OneCall == \/ Init /\ NoReplacing /\ NoReading
           \/ NoGrowing /\ Replacing!Init /\ NoReading
           \/ NoGrowing /\ NoReplacing /\ Reading!Init

Step == \/ Next /\ UNCHANGED <<replacing, reading>>
        \/ Replacing!Next /\ UNCHANGED <<vars, reading>>
        \/ Reading!Next /\ UNCHANGED <<vars, replacing>>

\* One thread runs the call.
CallSpec == OneCall /\ [][Step]_all /\ WF_all(Step)

-----------------------------------------------------------------------------
(* Properties: what the modules state, of the call that is made.           *)

\* A size is found, no loop of grow runs past the largest power of two, and it is the
\* size that Strings and StringLists rely on.
SizeFound == at # "none" => Found

\* A replaced NUL leaves all the rest of its text as it was.
ReplacedSoFar == status # "none" => Replacing!ReplacedSoFar

\* webvtt_string_replace_all ends with nothing left to replace.
AllReplaced == status # "none" => Replacing!AllReplaced

\* String::utf16At gives the units of the character it is asked for, and
\* String::charCount the number of characters.
Utf16AtExact == step # "none" => Reading!Utf16AtExact

=============================================================================
