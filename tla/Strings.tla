------------------------------- MODULE Strings -------------------------------
(***************************************************************************)
(* The strings of the library (src/libwebvtt/string.c): handles that share *)
(* reference counted buffers.  One action is one call of one function; the *)
(* allocator may refuse any request.  Nothing here runs concurrently: what *)
(* can go wrong is a sequence of calls on handles that share a buffer.     *)
(***************************************************************************)
EXTENDS StringSizes, Sequences, FiniteSets

CONSTANTS
  Handles,       \* the webvtt_string variables of a program
  Buffers,       \* the blocks the allocator may hand out
  Null, Empty,   \* no buffer, and the static empty_string
  Pieces,        \* the texts that are written
  Header,        \* sizeof( webvtt_string_data )
  Capacities,    \* the capacities strings are created with
  LineAlloc,     \* the capacity webvtt_string_getline starts with: 0x100
  MaxLine,       \* WEBVTT_MAX_LINE
  MaxLength,     \* bound on the length of a text
  Refuses,       \* whether the allocator may fail
  Detaches       \* whether callers detach a string before they append to it,
                 \* read a line into it, or replace in it

Blocks == Buffers \cup {Empty}
Bytes == UNION {{s[i] : i \in DOMAIN s} : s \in Pieces}

ASSUME BlocksAssumption == Null \notin Blocks /\ Empty \notin Buffers /\ IsFiniteSet(Handles)
ASSUME PiecesAssumption == \A s \in Pieces : s \in Seq(Bytes) /\ s # << >>
\* No string at all is not an empty string.
ASSUME NullAssumption == Null \notin Seq(Bytes)
\* The block a line starts with is below the limit of lines: no first piece is cut off.
ASSUME LineAssumption == MaxLine \in Nat /\ LineAlloc < MaxLine

\* No size that is asked for comes near what 32 bits count.
ASSUME LengthsAssumption ==
  /\ Header \in Nat /\ Capacities \subseteq Nat /\ LineAlloc \in Nat
  /\ MaxLength \in Nat /\ Header + 2 * MaxLength + 1 < 2^30
  /\ \A s \in Pieces : Len(s) <= MaxLength

VARIABLES
  d,      \* the buffer of every handle
  refs,   \* the references every buffer counts; a block with none is free
  alloc,  \* its capacity
  text    \* its text

vars == <<d, refs, alloc, text>>

Init == /\ d = [h \in Handles |-> Null]
        /\ refs = [b \in Blocks |-> IF b = Empty THEN 1 ELSE 0]
        /\ alloc = [b \in Blocks |-> 0]
        /\ text = [b \in Blocks |-> << >>]

-----------------------------------------------------------------------------
(* Buffers.                                                                *)

Free(b) == b \in Buffers /\ refs[b] = 0

\* webvtt_deref, and webvtt_free when it was the last reference.
\* Mutant: the reference is dropped, but stays counted.
DroppedNot(r, b) == r
Dropped(r, b) == IF b = Null THEN r ELSE [r EXCEPT ![b] = @ - 1]

\* What a free block holds is of no account.
Kept(r, f, nothing) == [b \in Blocks |-> IF r[b] = 0 THEN nothing ELSE f[b]]

\* h gets the new block b, with room for cap and text t, and lets go of its own.
Moved(h, b, cap, t) ==
  /\ d' = [d EXCEPT ![h] = b]
  /\ refs' = [Dropped(refs, d[h]) EXCEPT ![b] = 1]
  /\ alloc' = Kept(refs', [alloc EXCEPT ![b] = cap], 0)
  /\ text' = Kept(refs', [text EXCEPT ![b] = t], << >>)
MovedToNew(h, cap, t) == \E b \in Buffers : Free(b) /\ Moved(h, b, cap, t)

\* The text of the block h has, shared or not, becomes t.
InPlace(h, t) == text' = [text EXCEPT ![d[h]] = t] /\ UNCHANGED <<d, refs, alloc>>

TextOf(h) == IF d[h] = Null THEN << >> ELSE text[d[h]]
Length(h) == Len(TextOf(h))
Room(h, need) == Length(h) + need <= alloc[d[h]]

\* The capacity grow finds for need more characters.
Capacity(h, need) == NewSize(Header + Length(h) + need) - Header

\* grow, and then the text of h becomes t; nothing happens if there is no room
\* and the allocator refuses.
\* Mutant: the text is written even if there is no room for it.
WriteUnchecked(h, need, t) == InPlace(h, t)
Write(h, need, t) ==
  \/ Room(h, need) /\ InPlace(h, t)
  \/ ~Room(h, need) /\ MovedToNew(h, Capacity(h, need), t)
  \/ ~Room(h, need) /\ Refuses /\ UNCHANGED vars

-----------------------------------------------------------------------------
(* The functions.                                                          *)

\* A handle without a buffer gets one that others have.
Counted(b) == [refs EXCEPT ![b] = @ + 1]
Shares(h, b) == /\ d[h] = Null /\ d' = [d EXCEPT ![h] = b] /\ refs' = Counted(b)
                /\ UNCHANGED <<alloc, text>>

\* webvtt_init_string
InitString(h) == Shares(h, Empty)

CreateString(h) == /\ d[h] = Null
                   /\ \E cap \in Capacities : MovedToNew(h, cap, << >>)

\* A string with a text starts as the empty string; if the allocator refuses it
\* stays so.
CreateStringWithText(h) ==
  \/ \E s \in Pieces :
       d[h] = Null /\ MovedToNew(h, NewSize(Header + Len(s)) - Header, s)
  \/ Refuses /\ InitString(h)

CopyString(h, g) == h # g /\ Shares(h, IF d[g] = Null THEN Empty ELSE d[g])

ReleaseString(h) == /\ d[h] # Null
                    /\ d' = [d EXCEPT ![h] = Null] /\ refs' = Dropped(refs, d[h])
                    /\ alloc' = Kept(refs', alloc, 0) /\ text' = Kept(refs', text, << >>)

\* A failure of the allocator ends the program here: it is not looked at.
\* Mutant: the last reference but one is taken for the last.
SharedByMore(h) == refs[d[h]] > 2
Shared(h) == refs[d[h]] # 1
Detach(h) == /\ d[h] # Null /\ Shared(h)
             /\ MovedToNew(h, alloc[d[h]], TextOf(h))

\* webvtt_string_putc detaches; if it cannot grow after that, it leaves the copy.
PutC(h) ==
  /\ d[h] # Null /\ Length(h) < MaxLength
  /\ \E c \in Bytes :
       LET t == Append(TextOf(h), c)
       IN  \/ ~Shared(h) /\ Write(h, 1, t)
           \/ Shared(h) /\ MovedToNew(h, IF Room(h, 1) THEN alloc[d[h]] ELSE Capacity(h, 1), t)
           \/ Shared(h) /\ ~Room(h, 1) /\ Refuses /\ MovedToNew(h, alloc[d[h]], TextOf(h))

\* The discipline of the callers: only a string of its own is written to.
MayWrite(h) == Detaches => (~Shared(h) \/ d[h] = Empty)

\* webvtt_string_append asks for as much room again as the text already has.
AppendTo(h, s) ==
  \/ d[h] = Null /\ s = << >> /\ InitString(h)
  \/ d[h] = Null /\ s # << >> /\ MovedToNew(h, NewSize(Header + Len(s)) - Header, s)
  \/ d[h] = Null /\ s # << >> /\ Refuses /\ InitString(h)
  \/ d[h] # Null /\ s # << >> /\ MayWrite(h) /\ Write(h, Length(h) + Len(s), TextOf(h) \o s)
AppendText(h) == \E s \in Pieces : Length(h) + Len(s) <= MaxLength /\ AppendTo(h, s)
\* A string is not appended to itself: its text would move while it is read.
AppendString(h, g) == /\ h # g /\ d[g] # Null /\ Length(h) + Length(g) <= MaxLength
                      /\ AppendTo(h, TextOf(g))

\* webvtt_string_getline, with what it finds before the end of the line.  With
\* a counter to report it to, a line that is too long is cut off.
CutOff(h, s) == IF Length(h) + Len(s) < alloc[d[h]] THEN TextOf(h) \o s ELSE TextOf(h)
Tight(h, s) == Length(h) + Len(s) + 1 >= alloc[d[h]]
\* A string without a buffer gets one first, and keeps it empty if it does not
\* hold the line and cannot grow.
StartLine(h, s) ==
  \/ Len(s) + 1 <= LineAlloc /\ MovedToNew(h, LineAlloc, s)
  \/ Len(s) + 1 > LineAlloc /\ MovedToNew(h, Capacity(h, Len(s) + 1), s)
  \/ Len(s) + 1 > LineAlloc /\ Refuses /\ MovedToNew(h, LineAlloc, << >>)
GetLine(h) ==
  \E s \in Pieces \cup {<< >>} :
    /\ Length(h) + Len(s) <= MaxLength
    /\ \/ d[h] = Null /\ StartLine(h, s)
       \/ d[h] # Null /\ MayWrite(h) /\ ~Tight(h, s) /\ InPlace(h, TextOf(h) \o s)
       \/ d[h] # Null /\ MayWrite(h) /\ Tight(h, s) /\ Write(h, Len(s) + 1, TextOf(h) \o s)
       \/ d[h] # Null /\ MayWrite(h) /\ Tight(h, s) /\ alloc[d[h]] >= MaxLine
          /\ InPlace(h, CutOff(h, s))

\* What a handle is worth to a caller who does not know of buffers.
Values == INSTANCE StringValues WITH
            None <- Null, value <- [h \in Handles |-> IF d[h] = Null THEN Null ELSE text[d[h]]]

\* webvtt_string_replace; webvtt_string_replace_all calls it as long as it finds
\* something to replace.
Replace(h) ==
  \E s, r \in Pieces : \E i \in Values!First(TextOf(h), s) :
    LET t == Values!With(TextOf(h), s, r, i)
    IN  d[h] # Null /\ Len(t) <= MaxLength /\ MayWrite(h) /\ Write(h, Len(r), t)

-----------------------------------------------------------------------------
Next == \E h \in Handles :
          \/ InitString(h) \/ CreateString(h) \/ CreateStringWithText(h) \/ ReleaseString(h)
          \/ Detach(h) \/ PutC(h) \/ AppendText(h) \/ GetLine(h) \/ Replace(h)
          \/ \E g \in Handles : CopyString(h, g) \/ AppendString(h, g)
Spec == Init /\ [][Next]_vars

-----------------------------------------------------------------------------
(* Properties.                                                             *)

\* Every buffer counts exactly the handles that have it, the empty string one
\* more: no buffer is freed that a handle still has, none is lost, and the
\* static empty string is never freed.
Holders(b) == {h \in Handles : d[h] = b}
RefsExact ==
  \A b \in Blocks : refs[b] = Cardinality(Holders(b)) + (IF b = Empty THEN 1 ELSE 0)

\* Every text fits into its buffer; that of the static empty string, which every handle
\* without a text shares, has no room.
Fits == \A b \in Blocks : refs[b] # 0 => Len(text[b]) <= alloc[b]

\* Nothing is ever written to the static empty string.
EmptyIsEmpty == text[Empty] = << >> /\ alloc[Empty] = 0

\* As long as callers detach what they write to, handles behave as values of
\* their own: sharing cannot be observed.  (If they do not, a write to a shared
\* buffer that has room is seen by all who have it: only putc detaches itself.)
SharingUnobserved == Values!Spec

=============================================================================
