----------------------------- MODULE StringLists -----------------------------
(***************************************************************************)
(* The reference counted lists of strings (src/libwebvtt/string.c): a list *)
(* holds references to strings, and is held itself by the variables of a   *)
(* program, by tokens and by nodes.  Strings are only shared here, never   *)
(* written to.  What a program does after an item has been written past    *)
(* the room of a list is undefined, and nothing is said of it.             *)
(***************************************************************************)
EXTENDS Naturals, Sequences, SequencesExt, FiniteSets

CONSTANTS
  Handles,   \* the webvtt_string variables of a program
  Strings,   \* the buffers that strings may have
  Holders,   \* the pointers to lists
  Lists,     \* the blocks lists may be in
  Null,      \* no string, or no list
  MaxItems,  \* bound on the length of a list
  Refuses    \* whether the allocator may fail

ASSUME NullAssumption == Null \notin Strings \cup Lists
ASSUME FiniteAssumption == IsFiniteSet(Handles) /\ IsFiniteSet(Holders) /\ IsFiniteSet(Lists)
ASSUME MaxItemsAssumption == MaxItems \in Nat

VARIABLES
  d,      \* the string of every handle
  refs,   \* the references every string counts
  held,   \* the list of every holder
  list    \* the lists; room is what items was allocated for

vars == <<d, refs, held, list>>

NoList == [refs |-> 0, alloc |-> 0, room |-> 0, items |-> << >>]

Init == /\ d = [h \in Handles |-> Null] /\ refs = [s \in Strings |-> 0]
        /\ held = [p \in Holders |-> Null] /\ list = [l \in Lists |-> NoList]

Occurrences(s, items) == Cardinality({i \in DOMAIN items : items[i] = s})

-----------------------------------------------------------------------------
(* Strings, as far as lists are concerned.                                 *)

NewString(h) ==
  /\ d[h] = Null
  /\ \E s \in Strings : /\ refs[s] = 0
                        /\ d' = [d EXCEPT ![h] = s] /\ refs' = [refs EXCEPT ![s] = 1]
  /\ UNCHANGED <<held, list>>

ReleaseString(h) ==
  /\ d[h] # Null
  /\ d' = [d EXCEPT ![h] = Null] /\ refs' = [refs EXCEPT ![d[h]] = @ - 1]
  /\ UNCHANGED <<held, list>>

-----------------------------------------------------------------------------
(* Lists.                                                                  *)

CreateStringlist(p) ==
  /\ held[p] = Null
  /\ \E l \in Lists : /\ list[l].refs = 0
                      /\ held' = [held EXCEPT ![p] = l]
                      /\ list' = [list EXCEPT ![l] = [NoList EXCEPT !.refs = 1]]
  /\ UNCHANGED <<d, refs>>

Referenced(r) == [r EXCEPT !.refs = @ + 1]
CopyStringlist(p, q) ==
  /\ held[p] = Null /\ held[q] # Null
  /\ held' = [held EXCEPT ![p] = held[q]]
  /\ list' = [list EXCEPT ![held[q]] = Referenced(@)]
  /\ UNCHANGED <<d, refs>>

\* The last reference to a list takes its references to strings with it.
\* Mutant: the references to the strings are kept.
ItemsLeft(items) == refs
ItemsReleased(items) == [s \in Strings |-> refs[s] - Occurrences(s, items)]
ReleaseStringlist(p) ==
  LET l == held[p]
  IN  /\ l # Null /\ held' = [held EXCEPT ![p] = Null]
      /\ \/ /\ list[l].refs > 1 /\ list' = [list EXCEPT ![l].refs = @ - 1]
            /\ UNCHANGED refs
         \/ /\ list[l].refs = 1 /\ list' = [list EXCEPT ![l] = NoList]
            /\ refs' = ItemsReleased(list[l].items)
      /\ UNCHANGED d

\* A list grows when it is filled to about two thirds.
\* Mutant: a list grows only when it has more items than room.
FullLate(r) == Len(r.items) > r.alloc
Full(r) == Len(r.items) + 1 >= (r.alloc \div 3) * 2
Larger(r) == IF r.alloc = 0 THEN 8 ELSE r.alloc * 2

Pushed(s) == [refs EXCEPT ![s] = @ + 1]

\* A list that could not grow keeps its items, but counts as grown: it has less
\* room than it says when it is pushed to again (as at cuetext.c:794, which does
\* not look at whether the push before succeeded).
StringlistPush(p, h) ==
  LET l == held[p]
      s == d[h]
      r == list[l]
      grown == IF Full(r) THEN [r EXCEPT !.alloc = Larger(r), !.room = Larger(r)] ELSE r
  IN  /\ l # Null /\ s # Null /\ Len(r.items) < MaxItems
      /\ \/ /\ refs' = Pushed(s)
            /\ list' = [list EXCEPT ![l] = [grown EXCEPT !.items = Append(@, s)]]
         \/ /\ Refuses /\ Full(r)
            /\ list' = [list EXCEPT ![l].alloc = Larger(r)] /\ UNCHANGED refs
      /\ UNCHANGED <<d, held>>

\* The reference of the list becomes one of the handle.
StringlistPop(p, h) ==
  LET l == held[p]
      r == list[l]
  IN  /\ l # Null /\ d[h] = Null /\ r.items # << >>
      /\ d' = [d EXCEPT ![h] = Last(r.items)]
      /\ list' = [list EXCEPT ![l].items = Front(@)]
      /\ UNCHANGED <<refs, held>>

\* Whether list l has had an item written past its room.
Overrun(l) == Len(list[l].items) > list[l].room

Next == /\ \A l \in Lists : ~Overrun(l)
        /\ \/ \E h \in Handles : NewString(h) \/ ReleaseString(h)
           \/ \E p \in Holders : CreateStringlist(p) \/ ReleaseStringlist(p)
           \/ \E p, q \in Holders : CopyStringlist(p, q)
           \/ \E p \in Holders, h \in Handles : StringlistPush(p, h) \/ StringlistPop(p, h)
Spec == Init /\ [][Next]_vars

-----------------------------------------------------------------------------
(* Properties.                                                             *)

\* The handles that have string s, the places lists have it in, and the holders of list l.
HandlesOf(s) == {h \in Handles : d[h] = s}
PlacesOf(s) ==
  UNION {{l} \X {i \in DOMAIN list[l].items : list[l].items[i] = s} : l \in Lists}
HoldersOf(l) == {p \in Holders : held[p] = l}

\* Every string counts exactly the handles and the items of lists that have it,
\* every list the pointers to it: what is on a list outlives the handle it came
\* from, and nothing outlives its last holder.
CountsExact ==
  /\ \A s \in Strings : refs[s] = Cardinality(HandlesOf(s)) + Cardinality(PlacesOf(s))
  /\ \A l \in Lists : list[l].refs = Cardinality(HoldersOf(l))

\* An item is written past the room of a list only when the list could not grow
\* before, counts as grown all the same, and is pushed to again
\* (webvtt_stringlist_push): in a program whose allocator does not fail, and in
\* one that gives up a list it could not push to, no list overruns its room.
OverrunsAfterFailure == \A l \in Lists : Overrun(l) => list[l].room < list[l].alloc

=============================================================================
