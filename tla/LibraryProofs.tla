---------------------------- MODULE LibraryProofs ----------------------------
(***************************************************************************)
(* Proofs about StringLists: for any number of handles, strings, lists and *)
(* holders the references are counted exactly, and a list that is not      *)
(* pushed to after it could not grow has room for its items.  About        *)
(* Allocator: with one thread the blocks are counted exactly.  And about   *)
(* CueTimings: whatever a line of times holds, every place is in it, every *)
(* number is in the range of its type, a time is what the line says and    *)
(* the settings are what the last words of each kind say.                  *)
(***************************************************************************)
EXTENDS StringLists, Allocator, CueTimings, FiniteSetTheorems, SequenceTheorems,
        WellFoundedInduction, TLAPS

ListType == [refs : Nat, alloc : Nat, room : Nat, items : Seq(Strings)]

TypeOK ==
  /\ d \in [Handles -> Strings \cup {Null}] /\ refs \in [Strings -> Nat]
  /\ held \in [Holders -> Lists \cup {Null}] /\ list \in [Lists -> ListType]

\* A block nobody holds has nothing on it, and no list is longer than the bound.
FreeLists == \A l \in Lists : list[l].refs = 0 => list[l].items = << >>
SmallLists == \A l \in Lists : Len(list[l].items) <= MaxItems

IInv == TypeOK /\ FreeLists /\ SmallLists /\ CountsExact

-----------------------------------------------------------------------------
(* Counting.                                                               *)

\* Who has w according to f.
With(S, f, w) == {x \in S : f[x] = w}

\* One more has w,
LEMMA OneMore ==
  ASSUME NEW S, IsFiniteSet(S), NEW f, NEW g, NEW x \in S, NEW w,
         g[x] = w, f[x] # w, \A y \in S \ {x} : g[y] = f[y]
  PROVE  Cardinality(With(S, g, w)) = Cardinality(With(S, f, w)) + 1
  <1>1. With(S, g, w) = With(S, f, w) \cup {x} /\ x \notin With(S, f, w)
    BY DEF With
  <1>2. IsFiniteSet(With(S, f, w))
    BY FS_Subset DEF With
  <1> QED BY <1>1, <1>2, FS_AddElement

\* and as many as before.
LEMMA AsMany ==
  ASSUME NEW S, NEW f, NEW g, NEW x, NEW w, f[x] # w, g[x] # w,
         \A y \in S \ {x} : g[y] = f[y]
  PROVE  With(S, g, w) = With(S, f, w)
  BY DEF With

\* How many have w is a number, and it is not 0 when somebody has it.
LEMMA HowMany ==
  ASSUME NEW S, IsFiniteSet(S), NEW f, NEW w
  PROVE  /\ Cardinality(With(S, f, w)) \in Nat
         /\ \A x \in S : f[x] = w => Cardinality(With(S, f, w)) > 0
  <1>1. IsFiniteSet(With(S, f, w))
    BY FS_Subset DEF With
  <1>2. ASSUME NEW x \in S, f[x] = w PROVE With(S, f, w) # {}
    BY <1>2 DEF With
  <1> QED BY <1>1, <1>2, FS_CardinalityType, FS_EmptySet

\* The places the lists have s in.
Places(ls, s) == UNION {{l} \X {i \in DOMAIN ls[l].items : ls[l].items[i] = s} : l \in Lists}

LEMMA PlaceIs ==
  ASSUME NEW ls, NEW s, NEW x
  PROVE  x \in Places(ls, s)
           <=> \E l \in Lists : \E i \in DOMAIN ls[l].items : x = <<l, i>> /\ ls[l].items[i] = s
  BY DEF Places

\* Lists of any length, as far as MaxItems.
Within(ls) == \A l \in Lists : ls[l].items \in Seq(Strings) /\ Len(ls[l].items) <= MaxItems

LEMMA PlacesFinite ==
  ASSUME NEW ls, Within(ls), NEW s
  PROVE  IsFiniteSet(Places(ls, s)) /\ Cardinality(Places(ls, s)) \in Nat
  <1>1. Places(ls, s) \subseteq Lists \X (1..MaxItems)
    <2> SUFFICES ASSUME NEW x \in Places(ls, s) PROVE x \in Lists \X (1..MaxItems)
      OBVIOUS
    <2>1. PICK l \in Lists : \E i \in DOMAIN ls[l].items : x = <<l, i>>
      BY PlaceIs
    <2>2. PICK i \in DOMAIN ls[l].items : x = <<l, i>>
      BY <2>1
    <2>3. i \in 1..MaxItems
      BY MaxItemsAssumption DEF Within
    <2> QED BY <2>2, <2>3
  <1>2. IsFiniteSet(Lists \X (1..MaxItems))
    <2>1. IsFiniteSet(1..MaxItems)
      BY MaxItemsAssumption, FS_Interval
    <2> QED BY <2>1, FiniteAssumption, FS_Product
  <1>3. IsFiniteSet(Places(ls, s))
    BY <1>1, <1>2, FS_Subset
  <1> QED BY <1>3, FS_CardinalityType

\* Only the items matter.
LEMMA SamePlaces ==
  ASSUME NEW ls, NEW ms, \A l \in Lists : ms[l].items = ls[l].items, NEW s
  PROVE  Places(ms, s) = Places(ls, s)
  <1>1. \A x : x \in Places(ms, s) <=> x \in Places(ls, s)
    BY PlaceIs
  <1> QED BY <1>1

\* One item more at the end of list k.
OneMoreOn(ls, ms, k, t) ==
  /\ ms[k].items = Append(ls[k].items, t)
  /\ \A l \in Lists \ {k} : ms[l].items = ls[l].items

LEMMA PlacesPushed ==
  ASSUME NEW ls, Within(ls), NEW ms, NEW k \in Lists, NEW t, OneMoreOn(ls, ms, k, t), NEW s
  PROVE  /\ s = t => Cardinality(Places(ms, s)) = Cardinality(Places(ls, s)) + 1
         /\ s # t => Cardinality(Places(ms, s)) = Cardinality(Places(ls, s))
  <1> DEFINE new == Len(ls[k].items) + 1
  <1>1. /\ DOMAIN ls[k].items = 1..Len(ls[k].items) /\ Len(ls[k].items) \in Nat
        /\ DOMAIN ms[k].items = 1..new /\ ms[k].items[new] = t
        /\ \A i \in DOMAIN ls[k].items : ms[k].items[i] = ls[k].items[i]
    BY DEF Within, OneMoreOn
  <1>2. \A l, i : (l \in Lists /\ i \in DOMAIN ms[l].items /\ ms[l].items[i] = s)
                  <=> \/ l \in Lists /\ i \in DOMAIN ls[l].items /\ ls[l].items[i] = s
                      \/ l = k /\ i = new /\ s = t
    <2> SUFFICES ASSUME NEW l, NEW i
                 PROVE  (l \in Lists /\ i \in DOMAIN ms[l].items /\ ms[l].items[i] = s)
                        <=> \/ l \in Lists /\ i \in DOMAIN ls[l].items /\ ls[l].items[i] = s
                            \/ l = k /\ i = new /\ s = t
      OBVIOUS
    <2>1. CASE l # k
      BY <2>1 DEF OneMoreOn
    <2>2. CASE l = k
      <3>1. (i \in 1..new) <=> (i \in DOMAIN ls[k].items \/ i = new)
        BY <1>1
      <3> HIDE DEF new
      <3> QED BY <1>1, <2>2, <3>1
    <2> QED BY <2>1, <2>2
  <1>3. <<k, new>> \notin Places(ls, s)
    <2>1. new \notin DOMAIN ls[k].items
      BY <1>1
    <2> QED BY <2>1, PlaceIs
  <1> HIDE DEF new
  <1>4. \A x : x \in Places(ms, s) <=> (x \in Places(ls, s) \/ (x = <<k, new>> /\ s = t))
    BY <1>2, PlaceIs
  <1>5. IsFiniteSet(Places(ls, s)) /\ Cardinality(Places(ls, s)) \in Nat
    BY PlacesFinite
  <1>6. CASE s = t
    <2>1. Places(ms, s) = Places(ls, s) \cup {<<k, new>>}
      BY <1>4, <1>6
    <2> QED BY <1>3, <1>5, <1>6, <2>1, FS_AddElement
  <1>7. CASE s # t
    <2>1. Places(ms, s) = Places(ls, s)
      BY <1>4, <1>7
    <2> QED BY <1>5, <1>7, <2>1
  <1> QED BY <1>6, <1>7

\* List k loses all it has.
LEMMA PlacesDropped ==
  ASSUME NEW ls, Within(ls), NEW ms, NEW k \in Lists, ms[k].items = << >>,
         \A l \in Lists \ {k} : ms[l].items = ls[l].items, NEW s
  PROVE  /\ Occurrences(s, ls[k].items) \in Nat
         /\ Cardinality(Places(ls, s)) = Cardinality(Places(ms, s)) + Occurrences(s, ls[k].items)
  <1> DEFINE I == {i \in DOMAIN ls[k].items : ls[k].items[i] = s}
  <1>1. Within(ms)
    <2>1. ms[k].items \in Seq(Strings) /\ Len(ms[k].items) = 0
      OBVIOUS
    <2>2. Len(ms[k].items) <= MaxItems
      BY <2>1, MaxItemsAssumption
    <2> QED BY <2>1, <2>2 DEF Within
  <1>2. /\ IsFiniteSet(Places(ls, s)) /\ Cardinality(Places(ls, s)) \in Nat
        /\ IsFiniteSet(Places(ms, s)) /\ Cardinality(Places(ms, s)) \in Nat
    BY <1>1, PlacesFinite
  <1>3. IsFiniteSet(I) /\ Cardinality(I) \in Nat
    <2>1. I \subseteq 1..Len(ls[k].items) /\ Len(ls[k].items) \in Nat
      BY DEF Within
    <2>2. IsFiniteSet(1..Len(ls[k].items))
      BY <2>1, FS_Interval
    <2> HIDE DEF I
    <2> QED BY <2>1, <2>2, FS_Subset, FS_CardinalityType
  <1>4. Occurrences(s, ls[k].items) = Cardinality(I)
    BY DEF Occurrences
  <1>5. \A x : x \in {k} \X I <=> \E i \in DOMAIN ls[k].items : x = <<k, i>> /\ ls[k].items[i] = s
    OBVIOUS
  <1> HIDE DEF I
  <1>6. IsFiniteSet({k} \X I) /\ Cardinality({k} \X I) = Cardinality(I)
    <2>1. IsFiniteSet({k}) /\ Cardinality({k}) = 1
      BY FS_Singleton
    <2>2. /\ IsFiniteSet({k} \X I)
          /\ Cardinality({k} \X I) = Cardinality({k}) * Cardinality(I)
      BY <1>3, <2>1, FS_Product
    <2>3. Cardinality({k} \X I) = 1 * Cardinality(I)
      BY <2>1, <2>2
    <2> QED BY <1>3, <2>2, <2>3
  <1>7. \A x : x \in Places(ms, s)
               <=> \E l \in Lists \ {k} : \E i \in DOMAIN ls[l].items :
                     x = <<l, i>> /\ ls[l].items[i] = s
    <2>1. DOMAIN ms[k].items = {}
      OBVIOUS
    <2> QED BY <2>1, PlaceIs
  <1>8. Places(ls, s) = Places(ms, s) \cup ({k} \X I) /\ Places(ms, s) \cap ({k} \X I) = {}
    BY <1>5, <1>7, PlaceIs
  <1>9. Cardinality(Places(ls, s))
          = Cardinality(Places(ms, s)) + Cardinality({k} \X I) - Cardinality({})
    BY <1>2, <1>6, <1>8, FS_Union
  <1> QED BY <1>2, <1>3, <1>4, <1>6, <1>9, FS_EmptySet

-----------------------------------------------------------------------------
(* The actions.                                                            *)

LEMMA Counted ==
  ASSUME TypeOK, SmallLists
  PROVE  /\ Within(list)
         /\ \A s : PlacesOf(s) = Places(list, s) /\ HandlesOf(s) = With(Handles, d, s)
         /\ \A l : HoldersOf(l) = With(Holders, held, l)
         /\ \A s : Cardinality(With(Handles, d, s)) \in Nat
                   /\ Cardinality(Places(list, s)) \in Nat
         /\ \A l : Cardinality(With(Holders, held, l)) \in Nat
  <1>1. Within(list)
    BY DEF TypeOK, ListType, SmallLists, Within
  <1>2. \A s : PlacesOf(s) = Places(list, s) /\ HandlesOf(s) = With(Handles, d, s)
    BY DEF PlacesOf, Places, HandlesOf, With
  <1>3. \A l : HoldersOf(l) = With(Holders, held, l)
    BY DEF HoldersOf, With
  <1>4. \A s : Cardinality(With(Handles, d, s)) \in Nat
    BY HowMany, FiniteAssumption
  <1>5. \A l : Cardinality(With(Holders, held, l)) \in Nat
    BY HowMany, FiniteAssumption
  <1>6. \A s : Cardinality(Places(list, s)) \in Nat
    BY <1>1, PlacesFinite
  <1> QED BY <1>1, <1>2, <1>3, <1>4, <1>5, <1>6

\* The counts, in the terms of the lemmas above.
Exact(dd, rr, hh, ll) ==
  /\ \A s \in Strings :
       rr[s] = Cardinality(With(Handles, dd, s)) + Cardinality(Places(ll, s))
  /\ \A l \in Lists : ll[l].refs = Cardinality(With(Holders, hh, l))

LEMMA ExactIs ==
  /\ CountsExact <=> Exact(d, refs, held, list)
  /\ CountsExact' <=> Exact(d', refs', held', list')
  <1>1. /\ \A s : PlacesOf(s) = Places(list, s) /\ HandlesOf(s) = With(Handles, d, s)
        /\ \A l : HoldersOf(l) = With(Holders, held, l)
    BY DEF PlacesOf, Places, HandlesOf, HoldersOf, With
  <1>2. /\ \A s : PlacesOf(s)' = Places(list', s) /\ HandlesOf(s)' = With(Handles, d', s)
        /\ \A l : HoldersOf(l)' = With(Holders, held', l)
    BY DEF PlacesOf, Places, HandlesOf, HoldersOf, With
  <1>3. CountsExact <=> Exact(d, refs, held, list)
    BY <1>1 DEF CountsExact, Exact
  <1>4. CountsExact' <=> Exact(d', refs', held', list')
    BY <1>2 DEF CountsExact, Exact
  <1> QED BY <1>3, <1>4

LEMMA NoListIs ==
  NoList \in ListType /\ NoList.refs = 0 /\ NoList.items = << >> /\ Len(NoList.items) = 0
  BY DEF NoList, ListType

LEMMA InitInvariant == Init => IInv
  <1> SUFFICES ASSUME Init PROVE IInv
    OBVIOUS
  <1>1. TypeOK /\ FreeLists /\ SmallLists
    <2> QED BY NoListIs, MaxItemsAssumption DEF Init, TypeOK, FreeLists, SmallLists
  <1>2. ASSUME NEW s \in Strings PROVE With(Handles, d, s) = {} /\ Places(list, s) = {}
    <2>1. \A l \in Lists : DOMAIN list[l].items = {}
      BY DEF Init, NoList
    <2>2. Places(list, s) = {}
      BY <2>1, PlaceIs
    <2> QED BY <2>2, NullAssumption DEF Init, With
  <1>3. ASSUME NEW l \in Lists PROVE With(Holders, held, l) = {}
    BY NullAssumption DEF Init, With
  <1>4. Exact(d, refs, held, list)
    <2>1. Cardinality({}) = 0
      BY FS_EmptySet
    <2>2. \A s \in Strings : refs[s] = 0
      BY DEF Init
    <2>3. \A l \in Lists : list[l].refs = 0
      BY DEF Init, NoList
    <2>4. \A s \in Strings : Cardinality(With(Handles, d, s)) = 0 /\ Cardinality(Places(list, s)) = 0
      BY <1>2, <2>1
    <2>5. \A l \in Lists : Cardinality(With(Holders, held, l)) = 0
      BY <1>3, <2>1
    <2> QED BY <2>2, <2>3, <2>4, <2>5 DEF Exact
  <1> QED BY <1>1, <1>4, ExactIs DEF IInv

LEMMA NewStringStep ==
  ASSUME IInv, NEW h \in Handles, NewString(h)
  PROVE  IInv'
  <1>1. PICK s \in Strings : /\ refs[s] = 0 /\ d' = [d EXCEPT ![h] = s]
                             /\ refs' = [refs EXCEPT ![s] = 1]
    BY DEF NewString
  <1>2. d[h] = Null /\ held' = held /\ list' = list
    BY DEF NewString
  <1>3. TypeOK' /\ FreeLists' /\ SmallLists'
    BY <1>1, <1>2 DEF IInv, TypeOK, FreeLists, SmallLists
  <1>4. Exact(d, refs, held, list)
    BY ExactIs DEF IInv
  <1>5. ASSUME NEW t \in Strings
        PROVE  refs'[t] = Cardinality(With(Handles, d', t)) + Cardinality(Places(list, t))
    <2>1. d[h] # t /\ \A y \in Handles \ {h} : d'[y] = d[y]
      BY <1>1, <1>2, NullAssumption DEF IInv, TypeOK
    <2>2. CASE t = s
      <3>1. d'[h] = t /\ refs'[t] = 1 /\ refs[t] = 0
        BY <1>1, <2>2 DEF IInv, TypeOK
      <3>2. Cardinality(With(Handles, d', t)) = Cardinality(With(Handles, d, t)) + 1
        BY <2>1, <3>1, OneMore, FiniteAssumption
      <3> QED BY <1>4, <3>1, <3>2, Counted DEF Exact, IInv
    <2>3. CASE t # s
      <3>1. d'[h] # t /\ refs'[t] = refs[t]
        BY <1>1, <2>3 DEF IInv, TypeOK
      <3>2. With(Handles, d', t) = With(Handles, d, t)
        BY <2>1, <3>1, AsMany
      <3> QED BY <1>4, <3>1, <3>2 DEF Exact
    <2> QED BY <2>2, <2>3
  <1>6. Exact(d', refs', held', list')
    BY <1>2, <1>4, <1>5 DEF Exact
  <1> QED BY <1>3, <1>6, ExactIs DEF IInv

LEMMA ReleaseStringStep ==
  ASSUME IInv, NEW h \in Handles, ReleaseString(h)
  PROVE  IInv'
  <1> DEFINE s == d[h]
  <1>1. /\ s \in Strings /\ d' = [d EXCEPT ![h] = Null] /\ refs' = [refs EXCEPT ![s] = @ - 1]
        /\ held' = held /\ list' = list
    BY DEF ReleaseString, IInv, TypeOK
  <1>2. Exact(d, refs, held, list)
    BY ExactIs DEF IInv
  <1>3. d'[h] = Null /\ \A y \in Handles \ {h} : d[y] = d'[y]
    BY <1>1 DEF IInv, TypeOK
  <1>4. Cardinality(With(Handles, d, s)) = Cardinality(With(Handles, d', s)) + 1
    <2>1. d[h] = s /\ d'[h] # s
      BY <1>1, <1>3, NullAssumption
    <2> HIDE DEF s
    <2> QED BY <1>3, <2>1, OneMore, FiniteAssumption
  <1>5. Cardinality(With(Handles, d', s)) \in Nat
    BY HowMany, FiniteAssumption
  <1>6. /\ refs[s] - 1 = Cardinality(With(Handles, d', s)) + Cardinality(Places(list, s))
        /\ refs[s] - 1 \in Nat
    BY <1>1, <1>2, <1>4, <1>5, Counted DEF Exact, IInv
  <1>7. TypeOK' /\ FreeLists' /\ SmallLists'
    BY <1>1, <1>6 DEF IInv, TypeOK, FreeLists, SmallLists
  <1>8. ASSUME NEW t \in Strings
        PROVE  refs'[t] = Cardinality(With(Handles, d', t)) + Cardinality(Places(list, t))
    <2>1. CASE t = s
      BY <1>1, <1>6, <2>1 DEF IInv, TypeOK
    <2>2. CASE t # s
      <3>1. With(Handles, d', t) = With(Handles, d, t)
        <4>1. d[h] # t /\ d'[h] # t
          BY <1>3, <2>2, NullAssumption
        <4> QED BY <1>3, <4>1, AsMany
      <3>2. refs'[t] = refs[t]
        BY <1>1, <2>2 DEF IInv, TypeOK
      <3> QED BY <1>2, <3>1, <3>2 DEF Exact
    <2> QED BY <2>1, <2>2
  <1>9. Exact(d', refs', held', list')
    BY <1>1, <1>2, <1>8 DEF Exact
  <1> QED BY <1>7, <1>9, ExactIs DEF IInv

\* The holders of the lists, when one holder gets or gives up a list.
LEMMA HolderGets ==
  ASSUME NEW p \in Holders, NEW k \in Lists, held[p] = Null,
         held'[p] = k, \A y \in Holders \ {p} : held'[y] = held[y]
  PROVE  /\ Cardinality(With(Holders, held', k)) = Cardinality(With(Holders, held, k)) + 1
         /\ \A l \in Lists \ {k} : With(Holders, held', l) = With(Holders, held, l)
  <1>2. \A l \in Lists : held[p] # l
    BY NullAssumption
  <1>3. Cardinality(With(Holders, held', k)) = Cardinality(With(Holders, held, k)) + 1
    BY <1>2, OneMore, FiniteAssumption
  <1>4. ASSUME NEW l \in Lists \ {k} PROVE With(Holders, held', l) = With(Holders, held, l)
    <2>1. held[p] # l /\ held'[p] # l
      BY <1>2
    <2> QED BY <2>1, AsMany
  <1> QED BY <1>3, <1>4

LEMMA HolderGives ==
  ASSUME NEW p \in Holders, NEW k \in Lists, held[p] = k,
         held'[p] = Null, \A y \in Holders \ {p} : held'[y] = held[y]
  PROVE  /\ Cardinality(With(Holders, held, k)) = Cardinality(With(Holders, held', k)) + 1
         /\ \A l \in Lists \ {k} : With(Holders, held', l) = With(Holders, held, l)
  <1>2. \A l \in Lists : held'[p] # l
    BY NullAssumption
  <1>3. Cardinality(With(Holders, held, k)) = Cardinality(With(Holders, held', k)) + 1
    BY <1>2, OneMore, FiniteAssumption
  <1>4. ASSUME NEW l \in Lists \ {k} PROVE With(Holders, held', l) = With(Holders, held, l)
    <2>1. held[p] # l /\ held'[p] # l
      BY <1>2
    <2> QED BY <2>1, AsMany
  <1> QED BY <1>3, <1>4
LEMMA CreateStep ==
  ASSUME IInv, NEW p \in Holders, CreateStringlist(p)
  PROVE  IInv'
  <1> DEFINE new == [NoList EXCEPT !.refs = 1]
  <1>1. PICK k \in Lists : /\ list[k].refs = 0 /\ held' = [held EXCEPT ![p] = k]
                           /\ list' = [list EXCEPT ![k] = new]
    BY DEF CreateStringlist
  <1>2. held[p] = Null /\ d' = d /\ refs' = refs
    BY DEF CreateStringlist
  <1>3. new \in ListType /\ new.refs = 1 /\ new.items = << >> /\ Len(new.items) = 0
    BY NoListIs DEF ListType
  <1> HIDE DEF new
  <1>4. /\ list'[k] = new /\ \A l \in Lists \ {k} : list'[l] = list[l]
        /\ held'[p] = k /\ \A y \in Holders \ {p} : held'[y] = held[y]
    BY <1>1 DEF IInv, TypeOK
  <1>5. TypeOK'
    BY <1>1, <1>2, <1>3 DEF IInv, TypeOK
  <1>6. FreeLists' /\ SmallLists'
    <2>1. ASSUME NEW l \in Lists
          PROVE  (list'[l].refs = 0 => list'[l].items = << >>) /\ Len(list'[l].items) <= MaxItems
      <3>1. CASE l = k
        BY <1>3, <1>4, <3>1, MaxItemsAssumption
      <3>2. CASE l # k
        BY <1>4, <3>2 DEF IInv, FreeLists, SmallLists
      <3> QED BY <3>1, <3>2
    <2> QED BY <2>1 DEF FreeLists, SmallLists
  <1>7. Exact(d, refs, held, list)
    BY ExactIs DEF IInv
  <1>8. ASSUME NEW s \in Strings PROVE Places(list', s) = Places(list, s)
    <2>1. \A l \in Lists : list'[l].items = list[l].items
      BY <1>1, <1>3, <1>4 DEF IInv, FreeLists
    <2> QED BY <2>1, SamePlaces
  <1>9. ASSUME NEW l \in Lists PROVE list'[l].refs = Cardinality(With(Holders, held', l))
    <2>1. CASE l = k
      <3>1. Cardinality(With(Holders, held', k)) = Cardinality(With(Holders, held, k)) + 1
        BY <1>2, <1>4, HolderGets
      <3>2. Cardinality(With(Holders, held, k)) = 0
        BY <1>1, <1>7 DEF Exact
      <3> QED BY <1>3, <1>4, <2>1, <3>1, <3>2
    <2>2. CASE l # k
      BY <1>2, <1>4, <1>7, <2>2, HolderGets DEF Exact
    <2> QED BY <2>1, <2>2
  <1>10. Exact(d', refs', held', list')
    BY <1>2, <1>7, <1>8, <1>9 DEF Exact
  <1> QED BY <1>5, <1>6, <1>10, ExactIs DEF IInv

LEMMA CopyStep ==
  ASSUME IInv, NEW p \in Holders, NEW q \in Holders, CopyStringlist(p, q)
  PROVE  IInv'
  <1> DEFINE k == held[q]
             more == Referenced(list[k])
  <1>1. /\ k \in Lists /\ held' = [held EXCEPT ![p] = k] /\ list' = [list EXCEPT ![k] = more]
        /\ held[p] = Null /\ d' = d /\ refs' = refs /\ list[k] \in ListType
    BY DEF CopyStringlist, IInv, TypeOK
  <1>2. /\ more \in ListType /\ more.refs = list[k].refs + 1 /\ more.refs # 0
        /\ more.items = list[k].items
    BY <1>1 DEF Referenced, ListType
  <1> HIDE DEF k, more
  <1>3. /\ list'[k] = more /\ \A l \in Lists \ {k} : list'[l] = list[l]
        /\ held'[p] = k /\ \A y \in Holders \ {p} : held'[y] = held[y]
    BY <1>1 DEF IInv, TypeOK
  <1>4. TypeOK'
    BY <1>1, <1>2 DEF IInv, TypeOK
  <1>5. \A l \in Lists : list'[l].items = list[l].items
    BY <1>2, <1>3
  <1>6. FreeLists' /\ SmallLists'
    BY <1>2, <1>3, <1>5 DEF IInv, FreeLists, SmallLists
  <1>7. Exact(d, refs, held, list)
    BY ExactIs DEF IInv
  <1>8. ASSUME NEW s \in Strings PROVE Places(list', s) = Places(list, s)
    BY <1>5, SamePlaces
  <1>9. ASSUME NEW l \in Lists PROVE list'[l].refs = Cardinality(With(Holders, held', l))
    <2>1. CASE l = k
      BY <1>1, <1>2, <1>3, <1>7, <2>1, HolderGets DEF Exact
    <2>2. CASE l # k
      BY <1>1, <1>3, <1>7, <2>2, HolderGets DEF Exact
    <2> QED BY <2>1, <2>2
  <1>10. Exact(d', refs', held', list')
    BY <1>1, <1>7, <1>8, <1>9 DEF Exact
  <1> QED BY <1>4, <1>6, <1>10, ExactIs DEF IInv

\* One of several references to a list is given up, or the last one.
LEMMA ReleaseStringlistStep ==
  ASSUME IInv, NEW p \in Holders, ReleaseStringlist(p)
  PROVE  IInv'
  <1> DEFINE k == held[p]
  <1>1. /\ k \in Lists /\ held' = [held EXCEPT ![p] = Null] /\ d' = d /\ list[k] \in ListType
        /\ held[p] = k
    BY DEF ReleaseStringlist, IInv, TypeOK
  <1>2. \/ list[k].refs > 1 /\ list' = [list EXCEPT ![k].refs = @ - 1] /\ refs' = refs
        \/ /\ list[k].refs = 1 /\ list' = [list EXCEPT ![k] = NoList]
           /\ refs' = ItemsReleased(list[k].items)
    BY DEF ReleaseStringlist
  <1> HIDE DEF k
  <1>3. held'[p] = Null /\ \A y \in Holders \ {p} : held'[y] = held[y]
    BY <1>1 DEF IInv, TypeOK
  <1>4. Exact(d, refs, held, list)
    BY ExactIs DEF IInv
  <1>5. held' \in [Holders -> Lists \cup {Null}]
    BY <1>1 DEF IInv, TypeOK
  <1>6. Cardinality(With(Holders, held', k)) = list[k].refs - 1
    <2>1. list[k].refs = Cardinality(With(Holders, held', k)) + 1
      BY <1>1, <1>3, <1>4, HolderGives DEF Exact
    <2>2. Cardinality(With(Holders, held', k)) \in Nat
      BY HowMany, FiniteAssumption
    <2> QED BY <2>1, <2>2
  <1>7. \A l \in Lists \ {k} : list[l].refs = Cardinality(With(Holders, held', l))
    BY <1>1, <1>3, <1>4, HolderGives DEF Exact
  <1>8. CASE list[k].refs > 1 /\ list' = [list EXCEPT ![k].refs = @ - 1] /\ refs' = refs
    <2> DEFINE less == [list[k] EXCEPT !.refs = @ - 1]
    <2>1. /\ less \in ListType /\ less.refs = list[k].refs - 1 /\ less.refs # 0
          /\ less.items = list[k].items
      BY <1>1, <1>8 DEF ListType
    <2>2. list' = [list EXCEPT ![k] = less]
      BY <1>8
    <2> HIDE DEF less
    <2>3. list'[k] = less /\ \A l \in Lists \ {k} : list'[l] = list[l]
      BY <1>1, <2>2 DEF IInv, TypeOK
    <2>4. \A l \in Lists : list'[l].items = list[l].items
      BY <2>1, <2>3
    <2>5. TypeOK'
      BY <1>1, <1>5, <1>8, <2>1, <2>2 DEF IInv, TypeOK
    <2>6. FreeLists' /\ SmallLists'
      BY <2>1, <2>3, <2>4 DEF IInv, FreeLists, SmallLists
    <2>7. ASSUME NEW s \in Strings PROVE Places(list', s) = Places(list, s)
      BY <2>4, SamePlaces
    <2>8. \A l \in Lists : list'[l].refs = Cardinality(With(Holders, held', l))
      BY <1>6, <1>7, <2>1, <2>3
    <2>9. Exact(d', refs', held', list')
      BY <1>1, <1>4, <1>8, <2>7, <2>8 DEF Exact
    <2> QED BY <2>5, <2>6, <2>9, ExactIs DEF IInv
  <1>9. CASE /\ list[k].refs = 1 /\ list' = [list EXCEPT ![k] = NoList]
             /\ refs' = ItemsReleased(list[k].items)
    <2>1. NoList \in ListType /\ NoList.items = << >> /\ Len(NoList.items) = 0 /\ NoList.refs = 0
      BY NoListIs
    <2>2. list'[k] = NoList /\ \A l \in Lists \ {k} : list'[l] = list[l]
      BY <1>1, <1>9 DEF IInv, TypeOK
    <2>3. list'[k].items = << >> /\ \A l \in Lists \ {k} : list'[l].items = list[l].items
      BY <2>1, <2>2
    <2>4. list' \in [Lists -> ListType]
      BY <1>9, <2>1 DEF IInv, TypeOK
    <2>5. SmallLists'
      <3>1. ASSUME NEW l \in Lists PROVE Len(list'[l].items) <= MaxItems
        <4>1. CASE l = k
          BY <2>1, <2>2, <4>1, MaxItemsAssumption
        <4>2. CASE l # k
          BY <2>2, <4>2 DEF IInv, SmallLists
        <4> QED BY <4>1, <4>2
      <3> QED BY <3>1 DEF SmallLists
    <2>6. ASSUME NEW s \in Strings
          PROVE  /\ refs'[s] \in Nat
                 /\ refs'[s] = Cardinality(With(Handles, d, s)) + Cardinality(Places(list', s))
      <3>1. /\ Occurrences(s, list[k].items) \in Nat
            /\ Cardinality(Places(list, s))
                 = Cardinality(Places(list', s)) + Occurrences(s, list[k].items)
        BY <1>1, <2>3, Counted, PlacesDropped DEF IInv
      <3>2. Cardinality(Places(list', s)) \in Nat
        <4>1. Within(list')
          BY <2>4, <2>5 DEF Within, SmallLists, ListType
        <4> QED BY <4>1, PlacesFinite
      <3>3. refs'[s] = refs[s] - Occurrences(s, list[k].items)
        BY <1>9 DEF ItemsReleased
      <3>4. refs[s] = Cardinality(With(Handles, d, s)) + Cardinality(Places(list, s))
        BY <1>4 DEF Exact
      <3>5. Cardinality(With(Handles, d, s)) \in Nat
        BY Counted DEF IInv
      <3> QED BY <3>1, <3>2, <3>3, <3>4, <3>5
    <2>7. TypeOK'
      <3>1. refs' = [s \in Strings |-> refs'[s]]
        BY <1>9 DEF ItemsReleased
      <3>2. refs' \in [Strings -> Nat]
        BY <2>6, <3>1
      <3> QED BY <1>1, <1>5, <2>4, <3>2 DEF IInv, TypeOK
    <2>8. FreeLists'
      BY <2>1, <2>2 DEF IInv, FreeLists
    <2>9. \A l \in Lists : list'[l].refs = Cardinality(With(Holders, held', l))
      BY <1>6, <1>7, <1>9, <2>1, <2>2
    <2>10. Exact(d', refs', held', list')
      BY <1>1, <2>6, <2>9 DEF Exact
    <2> QED BY <2>5, <2>7, <2>8, <2>10, ExactIs DEF IInv
  <1> QED BY <1>2, <1>8, <1>9
\* What a push does to the list: it grows at most, and gets the string.
LEMMA PushStep ==
  ASSUME IInv, NEW p \in Holders, NEW h \in Handles, StringlistPush(p, h)
  PROVE  IInv'
  <1> DEFINE k == held[p]
             s == d[h]
             r == list[k]
             grown == IF Full(r) THEN [r EXCEPT !.alloc = Larger(r), !.room = Larger(r)] ELSE r
             more == [grown EXCEPT !.items = Append(@, s)]
             kept == [r EXCEPT !.alloc = Larger(r)]
  <1>1. /\ k \in Lists /\ s \in Strings /\ r \in ListType /\ Len(r.items) < MaxItems
        /\ d' = d /\ held' = held
    BY DEF StringlistPush, IInv, TypeOK
  <1>2. \/ refs' = [refs EXCEPT ![s] = @ + 1] /\ list' = [list EXCEPT ![k] = more]
        \/ refs' = refs /\ list' = [list EXCEPT ![k] = kept]
    <2>1. \/ refs' = Pushed(s) /\ list' = [list EXCEPT ![k] = [grown EXCEPT !.items = Append(@, s)]]
          \/ refs' = refs /\ list' = [list EXCEPT ![k].alloc = Larger(r)]
      BY DEF StringlistPush
    <2> QED BY <2>1 DEF Pushed
  <1>3. Exact(d, refs, held, list)
    BY ExactIs DEF IInv
  <1>4. Larger(r) \in Nat
    BY <1>1 DEF Larger, ListType
  <1>5. grown \in ListType /\ grown.refs = r.refs /\ grown.items = r.items
    <2>1. CASE Full(r)
      BY <1>1, <1>4, <2>1 DEF ListType
    <2>2. CASE ~Full(r)
      BY <1>1, <2>2
    <2> QED BY <2>1, <2>2
  <1>6. kept \in ListType /\ kept.refs = r.refs /\ kept.items = r.items
    BY <1>1, <1>4 DEF ListType
  <1>7. more \in ListType /\ more.refs = r.refs /\ more.items = Append(r.items, s)
    <2> HIDE DEF grown
    <2>1. Append(grown.items, s) \in Seq(Strings)
      BY <1>1, <1>5 DEF ListType
    <2> QED BY <1>1, <1>5, <2>1 DEF ListType
  <1>8. r.items \in Seq(Strings) /\ Len(Append(r.items, s)) = Len(r.items) + 1 /\ Len(r.items) \in Nat
    BY <1>1 DEF ListType
  <1>9. r = list[k] /\ (r.refs = 0 => r.items = << >>) /\ r.refs = Cardinality(With(Holders, held, k))
    BY <1>1, <1>3 DEF IInv, FreeLists, Exact
  <1>10. r.refs # 0
    <2>1. held[p] = k
      OBVIOUS
    <2> HIDE DEF k
    <2> QED BY <1>9, <2>1, HowMany, FiniteAssumption
  <1> HIDE DEF k, s, r, grown, more, kept
  <1>11. CASE refs' = [refs EXCEPT ![s] = @ + 1] /\ list' = [list EXCEPT ![k] = more]
    <2>1. list'[k] = more /\ \A l \in Lists \ {k} : list'[l] = list[l]
      BY <1>1, <1>11 DEF IInv, TypeOK
    <2>2. TypeOK'
      BY <1>1, <1>7, <1>11 DEF IInv, TypeOK
    <2>3. ASSUME NEW l \in Lists
          PROVE  /\ list'[l].refs = list[l].refs /\ (list'[l].refs = 0 => list'[l].items = << >>)
                 /\ Len(list'[l].items) <= MaxItems
      <3>1. CASE l = k
        BY <1>1, <1>7, <1>8, <1>9, <1>10, <2>1, <3>1, MaxItemsAssumption
      <3>2. CASE l # k
        BY <2>1, <3>2 DEF IInv, FreeLists, SmallLists
      <3> QED BY <3>1, <3>2
    <2>4. FreeLists' /\ SmallLists'
      BY <2>3 DEF FreeLists, SmallLists
    <2>5. ASSUME NEW t \in Strings
          PROVE  refs'[t] = Cardinality(With(Handles, d, t)) + Cardinality(Places(list', t))
      <3>1. OneMoreOn(list, list', k, s)
        BY <1>7, <1>9, <2>1 DEF OneMoreOn
      <3>2. /\ t = s => Cardinality(Places(list', t)) = Cardinality(Places(list, t)) + 1
            /\ t # s => Cardinality(Places(list', t)) = Cardinality(Places(list, t))
        BY <1>1, <3>1, Counted, PlacesPushed DEF IInv
      <3>3. (t = s => refs'[t] = refs[t] + 1) /\ (t # s => refs'[t] = refs[t])
        BY <1>11 DEF IInv, TypeOK
      <3>4. refs[t] = Cardinality(With(Handles, d, t)) + Cardinality(Places(list, t))
        BY <1>3 DEF Exact
      <3>5. Cardinality(With(Handles, d, t)) \in Nat /\ Cardinality(Places(list, t)) \in Nat
        BY Counted DEF IInv
      <3> QED BY <3>2, <3>3, <3>4, <3>5
    <2>6. Exact(d', refs', held', list')
      BY <1>1, <1>3, <2>3, <2>5 DEF Exact
    <2> QED BY <2>2, <2>4, <2>6, ExactIs DEF IInv
  <1>12. CASE refs' = refs /\ list' = [list EXCEPT ![k] = kept]
    <2>1. list'[k] = kept /\ \A l \in Lists \ {k} : list'[l] = list[l]
      BY <1>1, <1>12 DEF IInv, TypeOK
    <2>2. TypeOK'
      BY <1>1, <1>6, <1>12 DEF IInv, TypeOK
    <2>3. \A l \in Lists : list'[l].items = list[l].items /\ list'[l].refs = list[l].refs
      BY <1>6, <1>9, <2>1
    <2>4. FreeLists' /\ SmallLists'
      BY <2>3 DEF IInv, FreeLists, SmallLists
    <2>5. ASSUME NEW t \in Strings PROVE Places(list', t) = Places(list, t)
      BY <2>3, SamePlaces
    <2>6. Exact(d', refs', held', list')
      BY <1>1, <1>3, <1>12, <2>3, <2>5 DEF Exact
    <2> QED BY <2>2, <2>4, <2>6, ExactIs DEF IInv
  <1> QED BY <1>2, <1>11, <1>12

LEMMA FrontAndLast ==
  ASSUME NEW items \in Seq(Strings), items # << >>
  PROVE  /\ Front(items) \in Seq(Strings) /\ Last(items) \in Strings
         /\ items = Append(Front(items), Last(items))
         /\ Len(Front(items)) = Len(items) - 1 /\ Len(items) \in Nat
  <1>1. Len(items) \in Nat /\ Len(items) > 0
    OBVIOUS
  <1>2. Front(items) \in Seq(Strings) /\ Len(Front(items)) = Len(items) - 1
    <2>1. Len(items) - 1 \in Int /\ \A i \in 1..Len(items) - 1 : items[i] \in Strings
      BY <1>1
    <2>2. /\ Front(items) \in Seq(Strings)
          /\ Len(Front(items)) = IF 1 <= Len(items) - 1 THEN (Len(items) - 1) - 1 + 1 ELSE 0
      BY <2>1, SubSeqProperties DEF Front
    <2>3. CASE Len(items) = 1
      <3>1. Len(Front(items)) = 0
        BY <2>2, <2>3
      <3> QED BY <2>2, <2>3, <3>1
    <2>4. CASE Len(items) > 1
      <3>1. (Len(items) - 1) - 1 + 1 = Len(items) - 1 /\ 1 <= Len(items) - 1
        BY <1>1, <2>4
      <3> QED BY <2>2, <3>1
    <2>5. \A m \in Nat : m > 0 => m = 1 \/ m > 1
      OBVIOUS
    <2>6. Len(items) = 1 \/ Len(items) > 1
      BY <1>1, <2>5
    <2> QED BY <2>3, <2>4, <2>6
  <1>3. Last(items) \in Strings
    BY <1>1 DEF Last
  <1>4. items = Append(Front(items), Last(items))
    BY <1>1 DEF Front, Last
  <1> QED BY <1>1, <1>2, <1>3, <1>4

\* The reference only changes hands.
LEMMA PopStep ==
  ASSUME IInv, NEW p \in Holders, NEW h \in Handles, StringlistPop(p, h)
  PROVE  IInv'
  <1> DEFINE k == held[p]
             r == list[k]
             s == Last(r.items)
             less == [r EXCEPT !.items = Front(@)]
  <1>1. /\ k \in Lists /\ r \in ListType /\ r.items # << >> /\ r = list[k]
        /\ d[h] = Null /\ d' = [d EXCEPT ![h] = s] /\ list' = [list EXCEPT ![k] = less]
        /\ refs' = refs /\ held' = held
    BY DEF StringlistPop, IInv, TypeOK
  <1>2. /\ Front(r.items) \in Seq(Strings) /\ s \in Strings
        /\ r.items = Append(Front(r.items), s)
        /\ Len(Front(r.items)) = Len(r.items) - 1 /\ Len(r.items) \in Nat
    BY <1>1, FrontAndLast DEF ListType
  <1>3. less \in ListType /\ less.refs = r.refs /\ less.items = Front(r.items)
    BY <1>1, <1>2 DEF ListType
  <1> HIDE DEF k, r, s, less
  <1>4. /\ list'[k] = less /\ \A l \in Lists \ {k} : list'[l] = list[l]
        /\ d'[h] = s /\ \A y \in Handles \ {h} : d'[y] = d[y]
    BY <1>1 DEF IInv, TypeOK
  <1>5. TypeOK'
    BY <1>1, <1>2, <1>3 DEF IInv, TypeOK
  <1>6. ASSUME NEW l \in Lists
        PROVE  /\ list'[l].refs = list[l].refs /\ (list'[l].refs = 0 => list'[l].items = << >>)
               /\ Len(list'[l].items) <= MaxItems
    <2>1. CASE l = k
      <3>1. r.refs # 0 /\ Len(r.items) <= MaxItems
        BY <1>1 DEF IInv, FreeLists, SmallLists
      <3> QED BY <1>1, <1>2, <1>3, <1>4, <2>1, <3>1, MaxItemsAssumption
    <2>2. CASE l # k
      BY <1>4, <2>2 DEF IInv, FreeLists, SmallLists
    <2> QED BY <2>1, <2>2
  <1>7. FreeLists' /\ SmallLists'
    BY <1>6 DEF FreeLists, SmallLists
  <1>8. Exact(d, refs, held, list)
    BY ExactIs DEF IInv
  <1>9. Within(list')
    <2>1. ASSUME NEW l \in Lists PROVE list'[l].items \in Seq(Strings) /\ Len(list'[l].items) <= MaxItems
      <3>1. list'[l] \in ListType
        BY <1>5 DEF TypeOK
      <3> QED BY <1>6, <3>1 DEF ListType
    <2> QED BY <2>1 DEF Within
  <1>10. ASSUME NEW t \in Strings
         PROVE  refs'[t] = Cardinality(With(Handles, d', t)) + Cardinality(Places(list', t))
    <2>1. OneMoreOn(list', list, k, s)
      BY <1>1, <1>2, <1>3, <1>4 DEF OneMoreOn
    <2>2. /\ t = s => Cardinality(Places(list, t)) = Cardinality(Places(list', t)) + 1
          /\ t # s => Cardinality(Places(list, t)) = Cardinality(Places(list', t))
      BY <1>1, <1>9, <2>1, PlacesPushed
    <2>3. /\ t = s => Cardinality(With(Handles, d', t)) = Cardinality(With(Handles, d, t)) + 1
          /\ t # s => Cardinality(With(Handles, d', t)) = Cardinality(With(Handles, d, t))
      <3>1. d[h] # t
        BY <1>1, NullAssumption
      <3>2. CASE t = s
        <4>1. d'[h] = t
          BY <1>4, <3>2
        <4> QED BY <1>4, <3>1, <3>2, <4>1, OneMore, FiniteAssumption
      <3>3. CASE t # s
        <4>1. d'[h] # t
          BY <1>4, <3>3
        <4>2. With(Handles, d', t) = With(Handles, d, t)
          BY <1>4, <3>1, <4>1, AsMany
        <4>3. Cardinality(With(Handles, d, t)) \in Nat
          BY HowMany, FiniteAssumption
        <4> QED BY <3>3, <4>2, <4>3
      <3> QED BY <3>2, <3>3
    <2>4. refs'[t] = Cardinality(With(Handles, d, t)) + Cardinality(Places(list, t))
      BY <1>1, <1>8 DEF Exact
    <2>5. Cardinality(With(Handles, d, t)) \in Nat /\ Cardinality(Places(list', t)) \in Nat
      BY <1>9, PlacesFinite, HowMany, FiniteAssumption
    <2> QED BY <2>2, <2>3, <2>4, <2>5
  <1>11. Exact(d', refs', held', list')
    BY <1>1, <1>6, <1>8, <1>10 DEF Exact
  <1> QED BY <1>5, <1>7, <1>11, ExactIs DEF IInv

LEMMA StepInvariant == IInv /\ [Next]_vars => IInv'
  <1> SUFFICES ASSUME IInv, [Next]_vars PROVE IInv'
    OBVIOUS
  <1>1. CASE Next
    <2>1. ASSUME NEW h \in Handles, NewString(h) \/ ReleaseString(h) PROVE IInv'
      BY <2>1, NewStringStep, ReleaseStringStep
    <2>2. ASSUME NEW p \in Holders, CreateStringlist(p) \/ ReleaseStringlist(p) PROVE IInv'
      BY <2>2, CreateStep, ReleaseStringlistStep
    <2>3. ASSUME NEW p \in Holders, NEW q \in Holders, CopyStringlist(p, q) PROVE IInv'
      BY <2>3, CopyStep
    <2>4. ASSUME NEW p \in Holders, NEW h \in Handles, StringlistPush(p, h) \/ StringlistPop(p, h)
          PROVE  IInv'
      BY <2>4, PushStep, PopStep
    <2> QED BY <1>1, <2>1, <2>2, <2>3, <2>4 DEF Next
  <1>2. CASE UNCHANGED vars
    <2>1. d' = d /\ refs' = refs /\ held' = held /\ list' = list
      BY <1>2 DEF vars
    <2>2. TypeOK' /\ FreeLists' /\ SmallLists'
      BY <2>1 DEF IInv, TypeOK, FreeLists, SmallLists
    <2>3. Exact(d', refs', held', list')
      BY <2>1, ExactIs DEF IInv
    <2> QED BY <2>2, <2>3, ExactIs DEF IInv
  <1> QED BY <1>1, <1>2

\* Whatever a program creates, copies, pushes, pops and releases, and in whatever
\* order: a string counts the handles and the items that have it, a list the
\* pointers to it (webvtt_ref_string, webvtt_release_string, webvtt_copy_stringlist,
\* webvtt_release_stringlist, webvtt_stringlist_push, webvtt_stringlist_pop).
THEOREM ReferencesAreCounted == Spec => []CountsExact
  <1>1. IInv => CountsExact
    BY DEF IInv
  <1> QED BY <1>1, InitInvariant, StepInvariant, PTL DEF Spec

-----------------------------------------------------------------------------
(* Room.                                                                   *)

\* A list has no more room than it says, and items past its room only where it says more.
RoomKept(r) == r.room <= r.alloc /\ (Len(r.items) > r.room => r.room < r.alloc)
RoomKnown == \A l \in Lists : RoomKept(list[l])

\* A list that has not been overrun, pushed to.
LEMMA RoomPushed ==
  ASSUME NEW r \in ListType, r.room <= r.alloc, Len(r.items) <= r.room
  PROVE  /\ r.room <= Larger(r)
         /\ Len(r.items) + 1 <= IF Full(r) THEN Larger(r) ELSE r.alloc
  <1>1. Len(r.items) \in Nat /\ r.alloc \in Nat /\ r.room \in Nat
    BY DEF ListType
  <1>2. r.room <= Larger(r) /\ Len(r.items) + 1 <= Larger(r)
    BY <1>1 DEF Larger
  <1>3. CASE ~Full(r)
    <2>1. Len(r.items) + 1 < (r.alloc \div 3) * 2
      BY <1>1, <1>3 DEF Full
    <2>2. (r.alloc \div 3) * 2 <= r.alloc
      BY <1>1
    <2>3. Len(r.items) + 1 <= r.alloc
      BY <1>1, <2>1, <2>2
    <2> QED BY <1>2, <1>3, <2>3
  <1> QED BY <1>2, <1>3

LEMMA RoomyStep ==
  ASSUME IInv, RoomKnown, [Next]_vars
  PROVE  RoomKnown'
  <1>1. \A l \in Lists : list[l] \in ListType
    BY DEF IInv, TypeOK
  <1>2. CASE list' = list
    BY <1>2 DEF RoomKnown
  <1>3. ASSUME NEW k \in Lists, NEW r, list' = [list EXCEPT ![k] = r],
               RoomKept(r)
        PROVE  RoomKnown'
    <2>1. ASSUME NEW l \in Lists PROVE RoomKept(list'[l])
      <3>1. CASE l = k
        BY <1>3, <3>1 DEF IInv, TypeOK
      <3>2. CASE l # k
        BY <1>3, <3>2 DEF IInv, TypeOK, RoomKnown
      <3> QED BY <3>1, <3>2
    <2> QED BY <2>1 DEF RoomKnown
  <1>4. ASSUME NEW p \in Holders, CreateStringlist(p) PROVE RoomKnown'
    <2> DEFINE new == [NoList EXCEPT !.refs = 1]
    <2>1. PICK k \in Lists : list' = [list EXCEPT ![k] = new]
      BY <1>4 DEF CreateStringlist
    <2>2. Len(new.items) = 0 /\ new.room = 0 /\ new.alloc = 0
      BY DEF NoList
    <2> HIDE DEF new
    <2>3. RoomKept(new)
      BY <2>2 DEF RoomKept
    <2> QED BY <1>3, <2>1, <2>3
  <1>5. ASSUME NEW p \in Holders, NEW q \in Holders, CopyStringlist(p, q) PROVE RoomKnown'
    <2> DEFINE k == held[q]
               r == Referenced(list[k])
    <2>1. k \in Lists /\ list' = [list EXCEPT ![k] = r]
      BY <1>5 DEF CopyStringlist, IInv, TypeOK
    <2>2. r.items = list[k].items /\ r.room = list[k].room /\ r.alloc = list[k].alloc
      BY <1>1, <2>1 DEF Referenced, ListType
    <2>3. RoomKept(r)
      BY <2>1, <2>2 DEF RoomKnown, RoomKept
    <2> HIDE DEF k, r
    <2> QED BY <1>3, <2>1, <2>3
  <1>6. ASSUME NEW p \in Holders, ReleaseStringlist(p) PROVE RoomKnown'
    <2> DEFINE k == held[p]
               r == [list[k] EXCEPT !.refs = @ - 1]
    <2>1. /\ k \in Lists
          /\ list' = [list EXCEPT ![k] = r] \/ list' = [list EXCEPT ![k] = NoList]
      BY <1>6 DEF ReleaseStringlist, IInv, TypeOK
    <2>2. r.items = list[k].items /\ r.room = list[k].room /\ r.alloc = list[k].alloc
      BY <1>1, <2>1 DEF ListType
    <2>3. RoomKept(r)
      BY <2>1, <2>2 DEF RoomKnown, RoomKept
    <2>4. RoomKept(NoList)
      BY DEF NoList, RoomKept
    <2> HIDE DEF k, r
    <2> QED BY <1>3, <2>1, <2>3, <2>4
  <1>7. ASSUME NEW p \in Holders, NEW h \in Handles, StringlistPush(p, h),
               \A l \in Lists : ~Overrun(l)
        PROVE  RoomKnown'
    <2> DEFINE k == held[p]
               s == d[h]
               r == list[k]
               grown == IF Full(r) THEN [r EXCEPT !.alloc = Larger(r), !.room = Larger(r)] ELSE r
               more == [grown EXCEPT !.items = Append(@, s)]
               kept == [r EXCEPT !.alloc = Larger(r)]
    <2>1. /\ k \in Lists /\ s \in Strings /\ r \in ListType /\ r.room <= r.alloc
          /\ list' = [list EXCEPT ![k] = more] \/ list' = [list EXCEPT ![k] = kept]
      BY <1>7 DEF StringlistPush, IInv, TypeOK, RoomKnown, RoomKept
    <2>2. Len(r.items) <= r.room /\ Len(r.items) \in Nat /\ r.room \in Nat /\ r.alloc \in Nat
      BY <1>1, <1>7, <2>1 DEF Overrun, ListType
    <2>3. kept.items = r.items /\ kept.room = r.room /\ kept.alloc = Larger(r)
      BY <2>1 DEF ListType
    <2>4. /\ grown.items = r.items
          /\ grown.room = IF Full(r) THEN Larger(r) ELSE r.room
          /\ grown.alloc = IF Full(r) THEN Larger(r) ELSE r.alloc
      BY <2>1 DEF ListType
    <2>5. more.room = grown.room /\ more.alloc = grown.alloc /\ more.items = Append(grown.items, s)
      BY <2>1 DEF ListType
    <2>6. Len(more.items) = Len(r.items) + 1
      BY <2>1, <2>4, <2>5 DEF ListType
    <2>7. /\ r.room <= Larger(r) /\ Larger(r) \in Nat
          /\ Len(r.items) + 1 <= IF Full(r) THEN Larger(r) ELSE r.alloc
      BY <2>1, <2>2, RoomPushed DEF Larger
    <2>8. RoomKept(more)
      <3> HIDE DEF k, s, r, grown, more, kept
      <3> QED BY <2>1, <2>2, <2>4, <2>5, <2>6, <2>7 DEF RoomKept
    <2>9. RoomKept(kept)
      <3> HIDE DEF k, s, r, grown, more, kept
      <3> QED BY <2>2, <2>3, <2>7 DEF RoomKept
    <2> HIDE DEF k, s, r, grown, more, kept
    <2> QED BY <1>3, <2>1, <2>8, <2>9
  <1>8. ASSUME NEW p \in Holders, NEW h \in Handles, StringlistPop(p, h) PROVE RoomKnown'
    <2> DEFINE k == held[p]
               r == [list[k] EXCEPT !.items = Front(@)]
    <2>1. k \in Lists /\ list[k].items # << >> /\ list' = [list EXCEPT ![k] = r]
      BY <1>8 DEF StringlistPop, IInv, TypeOK
    <2>2. /\ r.items = Front(list[k].items) /\ r.room = list[k].room /\ r.alloc = list[k].alloc
          /\ list[k].room \in Nat /\ list[k].alloc \in Nat
      BY <1>1, <2>1 DEF ListType
    <2>3. RoomKept(r)
      <3>1. list[k].items \in Seq(Strings)
        BY <1>1, <2>1 DEF ListType
      <3>2. Len(Front(list[k].items)) = Len(list[k].items) - 1 /\ Len(list[k].items) \in Nat
        BY <2>1, <3>1, FrontAndLast
      <3> QED BY <2>1, <2>2, <3>2 DEF RoomKnown, RoomKept
    <2> HIDE DEF k, r
    <2> QED BY <1>3, <2>1, <2>3
  <1>9. CASE Next
    <2>1. ASSUME NEW h \in Handles, NewString(h) \/ ReleaseString(h) PROVE RoomKnown'
      BY <1>2, <2>1 DEF NewString, ReleaseString
    <2> QED BY <1>4, <1>5, <1>6, <1>7, <1>8, <1>9, <2>1 DEF Next
  <1> QED BY <1>2, <1>9 DEF vars

\* Whatever the program pushes, and wherever it goes on after a failure: a list is
\* overrun only if it could not grow before and was pushed to again
\* (webvtt_stringlist_push).
THEOREM ListsHaveRoom == Spec => []OverrunsAfterFailure
  <1>1. Init => RoomKnown
    BY DEF Init, NoList, RoomKnown, RoomKept
  <1>2. IInv /\ RoomKnown /\ [Next]_vars => RoomKnown'
    BY RoomyStep
  <1>3. RoomKnown => OverrunsAfterFailure
    BY DEF RoomKnown, RoomKept, OverrunsAfterFailure, Overrun
  <1> QED BY <1>1, <1>2, <1>3, InitInvariant, StepInvariant, PTL DEF Spec


-----------------------------------------------------------------------------
(* Allocator, for programs that call the library from one thread: any      *)
(* number of blocks and allocators.                                        *)

CONSTANT Caller
Single == Threads = {Caller}

\* What the count is going to change by.
Owed == CASE step[Caller] \in {"allocated", "incrementing"} -> 1
          [] step[Caller] \in {"freed", "decrementing"} -> -1
          [] OTHER -> 0

\* The count and what is owed to it make up the blocks in use; what has been
\* read is still so; and no block is in use while the allocator changes.
CountingInv ==
  /\ CountingTypes
  /\ n_alloc + Owed = Cardinality(InUse)
  /\ step[Caller] \in {"incrementing", "decrementing"} => seen[Caller] = n_alloc
  /\ step[Caller] = "setting" => n_alloc = 0 /\ has[Caller] \in Allocators
  /\ FromCurrent

\* There are no more blocks in use than blocks.
LEMMA InUseFits == /\ IsFiniteSet(InUse) /\ Cardinality(InUse) \in Nat
                   /\ Cardinality(InUse) < Wrap
  <1>1. InUse \subseteq Blocks
    BY DEF InUse
  <1>2. IsFiniteSet(InUse) /\ Cardinality(InUse) <= Cardinality(Blocks)
    BY <1>1, BlocksAssumption, FS_Subset
  <1>3. Cardinality(InUse) \in Nat /\ Cardinality(Blocks) \in Nat
    BY <1>2, BlocksAssumption, FS_CardinalityType
  <1> QED BY <1>2, <1>3, BlocksAssumption

\* Every step of the one thread keeps the invariant.
LEMMA CallingKeeps == Single /\ CountingInv /\ [Calling]_counting => CountingInv'
  <1> SUFFICES ASSUME Single, CountingInv, [Calling]_counting PROVE CountingInv'
    OBVIOUS
  <1> USE AllocatorsAssumption
  <1>1. IsFiniteSet(InUse) /\ Cardinality(InUse) \in Nat /\ Cardinality(InUse) < Wrap /\ Wrap \in Nat
    BY InUseFits, BlocksAssumption
  <1>2. CASE UNCHANGED counting
    BY <1>2 DEF counting, CountingInv, CountingTypes, Owed, InUse, FromCurrent
  <1>3. ASSUME NEW x \in Blocks, Alloc(Caller, x) PROVE CountingInv'
    <2>1. InUse' = InUse \cup {x} /\ x \notin InUse
      BY <1>3 DEF Alloc, InUse, CountingInv, CountingTypes
    <2>2. Cardinality(InUse \cup {x}) = Cardinality(InUse) + 1
      BY <1>1, <2>1, FS_AddElement
    <2>3. Owed = 0 /\ Owed' = 1
      BY <1>3 DEF Alloc, Owed, CountingInv, CountingTypes, Single
    <2>4. n_alloc' = n_alloc /\ n_alloc \in Nat /\ n_alloc + Owed = Cardinality(InUse)
      BY <1>3 DEF Alloc, CountingInv, CountingTypes
    <2>5. n_alloc' + Owed' = Cardinality(InUse')
      BY <1>1, <2>1, <2>2, <2>3, <2>4
    <2>6. CountingTypes'
      BY <1>3 DEF Alloc, CountingInv, CountingTypes, Steps, Single
    <2>7. FromCurrent'
      BY <1>3 DEF Alloc, CountingInv, CountingTypes, FromCurrent, InUse
    <2>8. step'[Caller] = "allocated"
      BY <1>3 DEF Alloc, CountingInv, CountingTypes, Single
    <2> QED BY <2>5, <2>6, <2>7, <2>8 DEF CountingInv, InUse
  <1>4. ASSUME NEW x \in Blocks, Dealloc(Caller, x) PROVE CountingInv'
    <2>1. InUse' = InUse \ {x} /\ x \in InUse
      BY <1>4 DEF Dealloc, InUse, CountingInv, CountingTypes
    <2>2. Cardinality(InUse \ {x}) = Cardinality(InUse) - 1
      BY <1>1, <2>1, FS_RemoveElement
    <2>3. Owed = 0 /\ Owed' = -1
      BY <1>4 DEF Dealloc, Owed, CountingInv, CountingTypes, Single
    <2>4. n_alloc' = n_alloc /\ n_alloc \in Nat /\ n_alloc + Owed = Cardinality(InUse)
      BY <1>4 DEF Dealloc, CountingInv, CountingTypes
    <2>5. n_alloc' + Owed' = Cardinality(InUse')
      BY <1>1, <2>1, <2>2, <2>3, <2>4
    <2>6. CountingTypes'
      BY <1>4 DEF Dealloc, CountingInv, CountingTypes, Steps, Single
    <2>7. FromCurrent'
      BY <1>4, <2>1 DEF Dealloc, CountingInv, CountingTypes, FromCurrent, InUse
    <2>8. step'[Caller] = "freed"
      BY <1>4 DEF Dealloc, CountingInv, CountingTypes, Single
    <2> QED BY <2>5, <2>6, <2>7, <2>8 DEF CountingInv, InUse
  <1>5. CASE Read(Caller)
    <2>1. Owed' = Owed /\ InUse' = InUse
      BY <1>5 DEF Read, Owed, InUse, CountingInv, CountingTypes, Single
    <2>2. CountingTypes'
      BY <1>5 DEF Read, CountingInv, CountingTypes, Steps, Single
    <2>3. seen'[Caller] = n_alloc' /\ step'[Caller] # "setting"
      BY <1>5 DEF Read, CountingInv, CountingTypes, Single
    <2>4. FromCurrent'
      BY <1>5 DEF Read, CountingInv, FromCurrent, InUse
    <2> QED BY <1>5, <2>1, <2>2, <2>3, <2>4 DEF Read, CountingInv
  <1>6. CASE Write(Caller)
    <2>1. InUse' = InUse /\ step'[Caller] = "idle" /\ Owed' = 0
      BY <1>6 DEF Write, Owed, InUse, CountingInv, CountingTypes, Single
    <2>2. n_alloc' = Cardinality(InUse)
      <3>1. CASE step[Caller] = "incrementing"
        <4>1. n_alloc' = (n_alloc + 1) % Wrap /\ n_alloc + 1 = Cardinality(InUse)
          BY <1>6, <3>1 DEF Write, Owed, CountingInv
        <4> QED BY <1>1, <4>1 DEF CountingInv, CountingTypes
      <3>2. CASE step[Caller] = "decrementing"
        <4>1. n_alloc' = (n_alloc - 1) % Wrap /\ n_alloc - 1 = Cardinality(InUse)
          BY <1>6, <3>2 DEF Write, Less, Owed, CountingInv, CountingTypes
        <4> QED BY <1>1, <4>1 DEF CountingInv, CountingTypes
      <3> QED BY <1>6, <3>1, <3>2 DEF Write
    <2>3. CountingTypes'
      BY <1>1, <1>6, <2>2 DEF Write, CountingInv, CountingTypes, Steps, Single
    <2>4. FromCurrent'
      BY <1>6 DEF Write, CountingInv, FromCurrent, InUse
    <2> QED BY <1>1, <2>1, <2>2, <2>3, <2>4 DEF CountingInv
  <1>7. ASSUME NEW a \in Allocators, Check(Caller, a) PROVE CountingInv'
    <2>1. Owed' = 0 /\ Owed = 0 /\ InUse' = InUse
      BY <1>7 DEF Check, Owed, InUse, CountingInv, CountingTypes, Single
    <2>2. CountingTypes' /\ step'[Caller] = "setting" /\ has'[Caller] = a
      BY <1>7 DEF Check, CountingInv, CountingTypes, Steps, Single
    <2>3. n_alloc' = 0 /\ n_alloc = 0
      BY <1>7 DEF Check, Unused
    <2>4. FromCurrent'
      BY <1>7 DEF Check, CountingInv, FromCurrent, InUse
    <2> QED BY <2>1, <2>2, <2>3, <2>4 DEF CountingInv
  <1>8. CASE Assign(Caller)
    <2>1. n_alloc = 0 /\ Owed = 0 /\ has[Caller] \in Allocators
      BY <1>8 DEF Assign, Owed, CountingInv
    <2>2. InUse = {}
      BY <1>1, <2>1, FS_EmptySet DEF CountingInv
    <2>3. InUse' = InUse /\ Owed' = 0 /\ n_alloc' = n_alloc /\ step'[Caller] = "idle"
      BY <1>8 DEF Assign, Owed, InUse, CountingInv, CountingTypes, Single
    <2>4. CountingTypes'
      BY <1>8, <2>1 DEF Assign, CountingInv, CountingTypes, Steps, Single
    <2>5. FromCurrent'
      BY <2>2, <2>3 DEF FromCurrent
    <2> QED BY <2>1, <2>3, <2>4, <2>5 DEF CountingInv
  <1> QED BY <1>2, <1>3, <1>4, <1>5, <1>6, <1>7, <1>8 DEF Calling, Single

\* No block is in use at the start.
LEMMA NoneInUseHolds == Single /\ NoneInUse => CountingInv
  <1> SUFFICES ASSUME Single, NoneInUse PROVE CountingInv
    OBVIOUS
  <1>1. InUse = {}
    BY DEF NoneInUse, InUse
  <1>2. Cardinality(InUse) = 0
    BY <1>1, FS_EmptySet
  <1>3. n_alloc = 0 /\ Owed = 0 /\ step[Caller] = "idle"
    BY DEF NoneInUse, Owed, Single
  <1>4. CountingTypes
    BY AllocatorsAssumption DEF NoneInUse, CountingTypes, Steps
  <1>5. FromCurrent
    BY <1>1 DEF FromCurrent
  <1> QED BY <1>2, <1>3, <1>4, <1>5 DEF CountingInv

\* With one calling thread, between calls the count is exact.
THEOREM CountIsExact == ASSUME Single PROVE AllocatorSpec => []CountExact
  <1>1. NoneInUse => CountingInv
    BY NoneInUseHolds
  <1>2. CountingInv /\ [Calling]_counting => CountingInv'
    BY CallingKeeps
  <1>3. CountingInv => CountExact
    <2> SUFFICES ASSUME CountingInv, \A t \in Threads : step[t] = "idle"
                 PROVE  n_alloc = Cardinality(InUse)
      BY DEF CountExact
    <2>1. step[Caller] = "idle"
      BY DEF Single
    <2> QED BY <2>1 DEF CountingInv, Owed, CountingTypes
  <1> QED BY <1>1, <1>2, <1>3, PTL DEF AllocatorSpec

\* With one calling thread, every block in use is from the allocator that is
\* set: it is given back to the functions it was asked from.
THEOREM BlocksFromCurrent == ASSUME Single PROVE AllocatorSpec => []FromCurrent
  <1>1. NoneInUse => CountingInv
    BY NoneInUseHolds
  <1>2. CountingInv /\ [Calling]_counting => CountingInv'
    BY CallingKeeps
  <1>3. CountingInv => FromCurrent
    BY DEF CountingInv
  <1> QED BY <1>1, <1>2, <1>3, PTL DEF AllocatorSpec

-----------------------------------------------------------------------------
(* Scanning a line of times.                                               *)

Line == Seq(STRING)

\* A set of numbers that is not empty has a least one.
LEMMA Least ==
  ASSUME NEW S \in SUBSET Nat, S # {}
  PROVE  \E m \in S : \A x \in S : m <= x
  <1>1. IsWellFoundedOn(OpToRel(<, Nat), Nat)
    BY NatLessThanWellFounded
  <1>2. PICK m \in S : \A x \in S : ~(<<x, m>> \in OpToRel(<, Nat))
    BY <1>1, WFMin
  <1>3. \A x \in S : m <= x
    <2> TAKE x \in S
    <2>1. m \in Nat /\ x \in Nat /\ ~(x < m)
      BY <1>2 DEF OpToRel
    <2> QED BY <2>1
  <1> QED BY <1>3

\* q is the first place from p on whose character is not in T, or the place of the NUL.
FirstOutside(s, p, q, T) ==
  /\ q \in Nat /\ q >= p
  /\ q > Len(s) \/ s[q] \notin T
  /\ \A i \in p .. q - 1 : i <= Len(s) /\ s[i] \in T

LEMMA FirstOutsideExists ==
  ASSUME NEW s \in Line, NEW p \in Nat, NEW T
  PROVE  \E q \in p .. p + Len(s) + 1 : FirstOutside(s, p, q, T)
  <1>1. Len(s) \in Nat
    BY LenProperties DEF Line
  <1> DEFINE S == {q \in p .. p + Len(s) + 1 : q > Len(s) \/ s[q] \notin T}
  <1>2. S \in SUBSET Nat /\ p + Len(s) + 1 \in S
    BY <1>1
  <1>3. PICK q \in S : \A x \in S : q <= x
    <2> HIDE DEF S
    <2> QED BY <1>2, Least
  <1>4. q \in p .. p + Len(s) + 1 /\ (q > Len(s) \/ s[q] \notin T)
    OBVIOUS
  <1>5. ASSUME NEW i \in p .. q - 1 PROVE i <= Len(s) /\ s[i] \in T
    <2>1. i \in p .. p + Len(s) + 1 /\ ~(q <= i)
      BY <1>1, <1>4
    <2>2. i \notin S
      BY <2>1, <1>3
    <2> QED BY <2>1, <2>2, <1>1
  <1>6. q \in Nat /\ q >= p
    BY <1>1, <1>4
  <1>7. FirstOutside(s, p, q, T)
    BY <1>4, <1>5, <1>6 DEF FirstOutside
  <1> QED BY <1>4, <1>7

\* There is one such place, before the end of the text if p is.
LEMMA OneFirstOutside ==
  ASSUME NEW s \in Line, NEW p \in Nat, NEW q, NEW r, NEW T,
         FirstOutside(s, p, q, T), FirstOutside(s, p, r, T)
  PROVE  q = r
  <1>1. q \in Nat /\ r \in Nat /\ q >= p /\ r >= p
    BY DEF FirstOutside
  <1>2. ~(q < r)
    <2> SUFFICES ASSUME q < r PROVE FALSE
      OBVIOUS
    <2>1. q \in p .. r - 1
      BY <1>1
    <2> QED BY <2>1, <1>1, LenProperties DEF FirstOutside, Line
  <1>3. ~(r < q)
    <2> SUFFICES ASSUME r < q PROVE FALSE
      OBVIOUS
    <2>1. r \in p .. q - 1
      BY <1>1
    <2> QED BY <2>1, <1>1, LenProperties DEF FirstOutside, Line
  <1> QED BY <1>1, <1>2, <1>3

LEMMA FirstOutsideIn ==
  ASSUME NEW s \in Line, NEW p \in 1 .. Len(s) + 1, NEW q, NEW T, FirstOutside(s, p, q, T)
  PROVE  q \in p .. Len(s) + 1
  <1>1. Len(s) \in Nat /\ q \in Nat /\ q >= p
    BY LenProperties DEF Line, FirstOutside
  <1>2. ~(q > Len(s) + 1)
    <2> SUFFICES ASSUME q > Len(s) + 1 PROVE FALSE
      OBVIOUS
    <2>1. Len(s) + 1 \in p .. q - 1
      BY <1>1
    <2> QED BY <2>1, <1>1 DEF FirstOutside
  <1> QED BY <1>1, <1>2

\* The three scans.
LEMMA DigitsEndIs ==
  ASSUME NEW s \in Line, NEW p \in Nat
  PROVE  FirstOutside(s, p, DigitsEnd(s, p), DigitChars)
  <1> DEFINE Is(q) == /\ q > Len(s) \/ ~IsDigit(s[q])
                      /\ \A i \in p .. q - 1 : i <= Len(s) /\ ~~IsDigit(s[i])
  <1>1. PICK q \in p .. p + Len(s) + 1 : FirstOutside(s, p, q, DigitChars)
    BY FirstOutsideExists
  <1>2. Is(q)
    BY <1>1 DEF FirstOutside, IsDigit
  <1>3. DigitsEnd(s, p) = CHOOSE x \in p .. p + Len(s) + 1 : Is(x)
    BY Zenon DEF DigitsEnd, FirstWhere
  <1>4. DigitsEnd(s, p) \in p .. p + Len(s) + 1 /\ Is(DigitsEnd(s, p))
    <2> HIDE DEF Is
    <2> QED BY <1>2, <1>3
  <1> QED BY <1>4, LenProperties DEF FirstOutside, IsDigit, Line

LEMMA SkipSpaceIs ==
  ASSUME NEW s \in Line, NEW p \in Nat
  PROVE  FirstOutside(s, p, SkipSpace(s, p), Spaces)
  <1> DEFINE Is(q) == /\ q > Len(s) \/ ~IsSpace(s[q])
                      /\ \A i \in p .. q - 1 : i <= Len(s) /\ ~~IsSpace(s[i])
  <1>1. PICK q \in p .. p + Len(s) + 1 : FirstOutside(s, p, q, Spaces)
    BY FirstOutsideExists
  <1>2. Is(q)
    BY <1>1 DEF FirstOutside, IsSpace
  <1>3. SkipSpace(s, p) = CHOOSE x \in p .. p + Len(s) + 1 : Is(x)
    BY Zenon DEF SkipSpace, FirstWhere
  <1>4. SkipSpace(s, p) \in p .. p + Len(s) + 1 /\ Is(SkipSpace(s, p))
    <2> HIDE DEF Is
    <2> QED BY <1>2, <1>3
  <1> QED BY <1>4, LenProperties DEF FirstOutside, IsSpace, Line

LEMMA WordEndIs ==
  ASSUME NEW s \in Line, NEW p \in Nat \ {0}
  PROVE  FirstOutside(s, p, WordEnd(s, p), STRING \ Spaces)
  <1> DEFINE Is(q) == /\ q > Len(s) \/ IsSpace(s[q])
                      /\ \A i \in p .. q - 1 : i <= Len(s) /\ ~IsSpace(s[i])
  <1>1. PICK q \in p .. p + Len(s) + 1 : FirstOutside(s, p, q, STRING \ Spaces)
    BY FirstOutsideExists
  <1>2. Len(s) \in Nat /\ \A i \in 1 .. Len(s) : s[i] \in STRING
    BY LenProperties, ElementOfSeq DEF Line
  <1>3. Is(q)
    <2>1. q > Len(s) \/ (q \in 1 .. Len(s) /\ s[q] \notin STRING \ Spaces)
      BY <1>1, <1>2 DEF FirstOutside
    <2>2. q > Len(s) \/ IsSpace(s[q])
      BY <2>1, <1>2 DEF IsSpace
    <2> QED BY <1>1, <2>2 DEF FirstOutside, IsSpace
  <1>4. WordEnd(s, p) = CHOOSE x \in p .. p + Len(s) + 1 : Is(x)
    BY Zenon DEF WordEnd, FirstWhere
  <1>5. WordEnd(s, p) \in p .. p + Len(s) + 1 /\ Is(WordEnd(s, p))
    <2> HIDE DEF Is
    <2> QED BY <1>3, <1>4
  <1>6. ASSUME NEW i \in p .. WordEnd(s, p) - 1 PROVE i <= Len(s) /\ s[i] \in STRING \ Spaces
    <2> HIDE DEF WordEnd
    <2>1. i <= Len(s) /\ ~IsSpace(s[i]) /\ i \in 1 .. Len(s)
      BY <1>2, <1>5
    <2> QED BY <2>1, <1>2 DEF IsSpace
  <1>7. WordEnd(s, p) > Len(s) \/ s[WordEnd(s, p)] \notin STRING \ Spaces
    BY <1>5 DEF IsSpace
  <1>8. WordEnd(s, p) \in Nat /\ WordEnd(s, p) >= p
    BY <1>2, <1>5
  <1> QED BY <1>6, <1>7, <1>8 DEF FirstOutside

\* None of them leaves the line.
LEMMA ScansIn ==
  ASSUME NEW s \in Line, NEW p \in 1 .. Len(s) + 1
  PROVE  /\ DigitsEnd(s, p) \in p .. Len(s) + 1 /\ SkipSpace(s, p) \in p .. Len(s) + 1
         /\ WordEnd(s, p) \in p .. Len(s) + 1
  <1>1. p \in Nat \ {0} /\ p \in Nat
    BY LenProperties DEF Line
  <1> QED BY <1>1, DigitsEndIs, SkipSpaceIs, WordEndIs, FirstOutsideIn

-----------------------------------------------------------------------------
(* Numbers.                                                                *)

Half == Word \div 2
Wide == -Half .. Half - 1

LEMMA WordIs == Word \in Nat /\ Half \in Nat /\ Half > 0 /\ Word = 2 * Half
  BY WordAssumption DEF Half

\* What is left of a number is in the range of its type.
LEMMA SignedIn == ASSUME NEW x \in Int PROVE Signed(x, Word) \in Wide
  <1>1. (x + Half) % Word \in 0 .. Word - 1
    BY WordIs
  <1>2. Signed(x, Word) = ((x + Half) % Word) - Half
    BY DEF Signed, Half
  <1> QED BY <1>1, <1>2, WordIs DEF Wide

\* A number in the range is left as it is.
LEMMA SignedSame == ASSUME NEW x \in Wide PROVE Signed(x, Word) = x
  <1>1. x + Half \in 0 .. Word - 1
    BY WordIs DEF Wide
  <1>2. (x + Half) % Word = x + Half
    <2> DEFINE y == x + Half
    <2> HIDE DEF y
    <2> QED BY <1>1, WordIs DEF y
  <1>3. Signed(x, Word) = ((x + Half) % Word) - Half
    BY DEF Signed, Half
  <1> QED BY <1>1, <1>2, <1>3, WordIs DEF Wide

LEMMA BaseIs == Base \in Nat /\ Base > 1
  BY DigitsAssumption, LenProperties DEF Base

LEMMA DigitIn == ASSUME NEW c \in DigitChars PROVE DigitValue(c) \in 0 .. Base - 1
  <1>1. \E i \in DOMAIN Digits : Digits[i] = c
    BY DEF DigitChars, ToSet
  <1>2. DOMAIN Digits = 1 .. Base /\ Base \in Nat
    BY DigitsAssumption, LenProperties DEF Base
  <1> DEFINE k == CHOOSE i \in DOMAIN Digits : Digits[i] = c
  <1>3. k \in 1 .. Base
    BY <1>1, <1>2
  <1>4. DigitValue(c) = k - 1
    BY DEF DigitValue
  <1> HIDE DEF k
  <1> QED BY <1>2, <1>3, <1>4

\* The number of the digits of places p to q - 1, in a width of w values.
IsAcc(f, s, p, q, w) ==
  f = [i \in p .. q |-> IF i = p THEN 0 ELSE Signed(f[i - 1] * Base + DigitValue(s[i - 1]), w)]

LEMMA AccExists ==
  ASSUME NEW s, NEW p \in Nat, NEW w, NEW N \in Nat
  PROVE  \E f : IsAcc(f, s, p, p + N, w)
  <1> DEFINE Bad == {K \in Nat : ~\E f : IsAcc(f, s, p, p + K, w)}
  <1>1. SUFFICES ASSUME Bad # {} PROVE FALSE
    OBVIOUS
  <1>2. PICK K \in Bad : \A m \in Bad : K <= m
    BY <1>1, Least
  <1>3. CASE K = 0
    <2> DEFINE f == [i \in p .. p |-> 0]
    <2>1. f = [i \in p .. p |-> IF i = p THEN 0 ELSE Signed(f[i - 1] * Base + DigitValue(s[i - 1]), w)]
      OBVIOUS
    <2> HIDE DEF f
    <2>2. p + K = p
      BY <1>3
    <2> QED BY <2>1, <2>2, <1>2 DEF IsAcc
  <1>4. CASE K # 0
    <2>1. K \in Nat /\ K - 1 \in Nat /\ K - 1 \notin Bad
      BY <1>2, <1>4
    <2> DEFINE e == p + (K - 1)
    <2>2. PICK g : IsAcc(g, s, p, e, w)
      BY <2>1
    <2>3. \A i \in p .. e : g[i] = IF i = p THEN 0 ELSE Signed(g[i - 1] * Base + DigitValue(s[i - 1]), w)
      BY <2>2 DEF IsAcc
    <2>4. e \in Nat /\ p + K = e + 1 /\ e >= p
      BY <2>1
    <2> HIDE DEF e
    <2> DEFINE last == Signed(g[e] * Base + DigitValue(s[e]), w)
               f == [i \in p .. e + 1 |-> IF i = e + 1 THEN last ELSE g[i]]
    <2>5. ASSUME NEW i \in p .. e + 1
          PROVE  f[i] = IF i = p THEN 0 ELSE Signed(f[i - 1] * Base + DigitValue(s[i - 1]), w)
      <3>1. i # p => i - 1 \in p .. e + 1 /\ i - 1 # e + 1 /\ f[i - 1] = g[i - 1]
        BY <2>4
      <3>2. CASE i = e + 1
        <4>1. i # p /\ i - 1 = e /\ f[i] = last
          BY <3>2, <2>4
        <4> HIDE DEF f
        <4> QED BY <4>1, <3>1
      <3>3. CASE i # e + 1
        <4>1. i \in p .. e /\ f[i] = g[i]
          BY <3>3, <2>4
        <4> HIDE DEF f
        <4> QED BY <4>1, <3>1, <2>3
      <3> QED BY <3>2, <3>3
    <2>6. f = [i \in p .. e + 1 |-> f[i]]
      OBVIOUS
    <2> HIDE DEF f
    <2>7. IsAcc(f, s, p, e + 1, w)
      BY <2>5, <2>6, Zenon DEF IsAcc
    <2> QED BY <2>4, <2>7, <1>2
  <1> QED BY <1>3, <1>4

LEMMA AccumulateIs ==
  ASSUME NEW s, NEW p \in Nat, NEW q \in Nat, q >= p, NEW w
  PROVE  \E f : IsAcc(f, s, p, q, w) /\ Accumulate(s, p, q, w) = f[q]
  <1> DEFINE f == CHOOSE g : IsAcc(g, s, p, q, w)
  <1>1. q - p \in Nat /\ p + (q - p) = q
    OBVIOUS
  <1>2. IsAcc(f, s, p, q, w)
    BY <1>1, AccExists
  <1>3. Accumulate(s, p, q, w) = f[q]
    BY Zenon DEF Accumulate, IsAcc
  <1> QED BY <1>2, <1>3

\* It is in the range of the type, where there are digits.
LEMMA AccumulateIn ==
  ASSUME NEW s, NEW p \in Nat, NEW q \in Nat, q >= p, \A i \in p .. q - 1 : s[i] \in DigitChars
  PROVE  Accumulate(s, p, q, Word) \in Wide
  <1>1. PICK f : IsAcc(f, s, p, q, Word) /\ Accumulate(s, p, q, Word) = f[q]
    BY AccumulateIs
  <1> DEFINE Bad == {i \in p .. q : f[i] \notin Wide}
  <1>2. SUFFICES ASSUME Bad # {} PROVE FALSE
    BY <1>1
  <1>3. Bad \in SUBSET Nat
    OBVIOUS
  <1> HIDE DEF Bad
  <1>4. PICK i \in Bad : \A j \in Bad : i <= j
    BY <1>2, <1>3, Least
  <1>5. i \in p .. q /\ f[i] \notin Wide
    BY <1>4 DEF Bad
  <1>6. f[i] = IF i = p THEN 0 ELSE Signed(f[i - 1] * Base + DigitValue(s[i - 1]), Word)
    BY <1>1, <1>5 DEF IsAcc
  <1>7. i # p
    BY <1>5, <1>6, WordIs DEF Wide
  <1>8. i - 1 \in p .. q - 1 /\ i - 1 \in p .. q /\ ~(i <= i - 1)
    BY <1>5, <1>7
  <1>9. f[i - 1] \in Wide
    BY <1>4, <1>8 DEF Bad
  <1>10. f[i - 1] * Base + DigitValue(s[i - 1]) \in Int
    <2>1. f[i - 1] \in Int /\ s[i - 1] \in DigitChars
      BY <1>8, <1>9, WordIs DEF Wide
    <2>2. DigitValue(s[i - 1]) \in Int
      BY <2>1, DigitIn, BaseIs
    <2> QED BY <2>1, <2>2, BaseIs
  <1> QED BY <1>5, <1>6, <1>7, <1>10, SignedIn

\* webvtt_parse_int.
LEMMA ParseIntIn ==
  ASSUME NEW s \in Line, NEW p \in Nat \ {0}
  PROVE  ParseInt(s, p).value \in Wide
  <1> DEFINE minus == Char(s, p) = "-"
             start == IF minus THEN p + 1 ELSE p
             stop == DigitsEnd(s, start)
             acc == Accumulate(s, start, stop, Word)
  <1>1. start \in Nat
    OBVIOUS
  <1>2. FirstOutside(s, start, stop, DigitChars)
    BY <1>1, DigitsEndIs
  <1>3. acc \in Wide
    <2> HIDE DEF start, stop
    <2> QED BY <1>1, <1>2, AccumulateIn DEF FirstOutside
  <1>4. -acc \in Int
    BY <1>3, WordIs DEF Wide
  <1>5. ParseInt(s, p).value = IF minus THEN Signed(-acc, Word) ELSE acc
    BY DEF ParseInt
  <1> HIDE DEF acc, minus
  <1> QED BY <1>3, <1>4, <1>5, SignedIn

LEMMA ParseIntAt ==
  ASSUME NEW s \in Line, NEW p \in 1 .. Len(s) + 1, IsDigit(Char(s, p))
  PROVE  LET x == ParseInt(s, p) IN
         /\ x.value \in Wide /\ x.value = Accumulate(s, p, DigitsEnd(s, p), Word)
         /\ x.next = DigitsEnd(s, p) /\ x.next \in p + 1 .. Len(s) + 1
         /\ x.digits = x.next - p
  <1>1. Char(s, p) # "-" /\ Char(s, p) # "NUL"
    BY DigitsAssumption DEF IsDigit, DigitChars
  <1>2. p \in Nat \ {0} /\ p <= Len(s) /\ s[p] \in DigitChars /\ Len(s) \in Nat
    BY <1>1, LenProperties DEF Char, IsDigit, Line
  <1>3. FirstOutside(s, p, DigitsEnd(s, p), DigitChars) /\ DigitsEnd(s, p) \in p .. Len(s) + 1
    BY <1>2, DigitsEndIs, ScansIn
  <1>4. DigitsEnd(s, p) # p
    BY <1>2, <1>3 DEF FirstOutside
  <1>5. ParseInt(s, p) = [value |-> Accumulate(s, p, DigitsEnd(s, p), Word),
                          digits |-> DigitsEnd(s, p) - p, next |-> DigitsEnd(s, p)]
    BY <1>1 DEF ParseInt
  <1>6. ParseInt(s, p).value \in Wide
    BY <1>2, ParseIntIn
  <1> QED BY <1>2, <1>3, <1>4, <1>5, <1>6

-----------------------------------------------------------------------------
(* Settings.                                                               *)

SettingsType ==
  [align : Aligns, line : Int, snap : BOOLEAN, position : Int, size : Int,
   vertical : Verticals \cup {"horizontal"}, have : SUBSET Keys]

LEMMA NewSettingsIn == NewSettings \in SettingsType
  <1> DEFINE half == Hundred \div 2
  <1>0. Hundred \in Nat
    BY SettingsAssumption
  <1>1. half \in Int /\ Hundred \in Int /\ AutoLine \in Int
    BY <1>0 DEF AutoLine
  <1>2. NewSettings = [align |-> "middle", line |-> AutoLine, snap |-> TRUE, position |-> half,
                       size |-> Hundred, vertical |-> "horizontal", have |-> {}]
    BY DEF NewSettings
  <1>3. {} \in SUBSET Keys /\ TRUE \in BOOLEAN
    OBVIOUS
  <1>4. "middle" \in Aligns
    BY DEF Aligns
  <1> HIDE DEF half, AutoLine
  <1> QED BY <1>1, <1>2, <1>3, <1>4, Zenon DEF SettingsType

\* A setter leaves settings.
Sets(r) == r.settings \in SettingsType

LEMMA RefusedSets == ASSUME NEW c \in SettingsType, NEW key PROVE Sets(Refused(c, key))
  BY DEF Sets, Refused

LEMMA TakenSets ==
  ASSUME NEW c \in SettingsType, NEW new \in SettingsType, NEW key \in Keys
  PROVE  Sets(Taken(new, c, key))
  BY DEF Sets, Taken, SettingsType

LEMMA IntWordIs == IntWord \in Nat /\ IntWord > 0 /\ IntWord \div 2 \in Nat
  BY SettingsAssumption

\* What is kept of a number is one.
LEMMA KeptNumbers ==
  ASSUME NEW s \in Line
  PROVE  Signed(ParseInt(s, 1).value, IntWord) \in Int /\ Percentage(s) \in Int
  <1>1. ParseInt(s, 1).value \in Int
    BY ParseIntIn, WordIs DEF Wide
  <1> DEFINE x == ParseInt(s, 1).value
  <1> HIDE DEF x
  <1>2. x \in Int
    BY <1>1 DEF x
  <1>3. (x + IntWord \div 2) % IntWord \in Int /\ x % IntWord \in Int
    BY <1>2, IntWordIs
  <1> QED BY <1>3, IntWordIs DEF Signed, Percentage, Unsigned, x

LEMMA SetSettingSets ==
  ASSUME NEW c \in SettingsType, NEW key, NEW value \in Line
  PROVE  Sets(SetSetting(c, key, value))
  <1>1. Sets(SetAlign(c, value))
    <2>1. CASE \E a \in Aligns : value = <<a>>
      <3>1. value[1] \in Aligns
        BY <2>1
      <3>2. [c EXCEPT !.align = value[1]] \in SettingsType
        BY <3>1 DEF SettingsType
      <3> QED BY <2>1, <3>2, TakenSets DEF SetAlign, Keys
    <2>2. CASE ~\E a \in Aligns : value = <<a>>
      BY <2>2, RefusedSets DEF SetAlign
    <2> QED BY <2>1, <2>2
  <1>2. Sets(SetVertical(c, value))
    <2>1. CASE \E a \in Verticals : value = <<a>>
      <3>1. value[1] \in Verticals
        BY <2>1
      <3>2. [c EXCEPT !.vertical = value[1]] \in SettingsType
        BY <3>1 DEF SettingsType
      <3> QED BY <2>1, <3>2, TakenSets DEF SetVertical, Keys
    <2>2. CASE ~\E a \in Verticals : value = <<a>>
      BY <2>2, RefusedSets DEF SetVertical
    <2> QED BY <2>1, <2>2
  <1>3. Sets(SetLine(c, value))
    <2> DEFINE kept == Signed(ParseInt(value, 1).value, IntWord)
               percent == Char(value, ParseInt(value, 1).next) = "%"
               new == [c EXCEPT !.line = kept, !.snap = ~percent]
    <2>1. kept \in Int
      BY KeptNumbers
    <2>2. percent \in BOOLEAN
      OBVIOUS
    <2>3. SetLine(c, value) \in {Refused(c, "line"), Taken(new, c, "line")}
      BY Zenon DEF SetLine
    <2> HIDE DEF kept, percent
    <2>4. new \in SettingsType
      BY <2>1, <2>2 DEF SettingsType
    <2> HIDE DEF new
    <2>5. Sets(Refused(c, "line")) /\ Sets(Taken(new, c, "line"))
      BY <2>4, TakenSets, RefusedSets DEF Keys
    <2> QED BY <2>3, <2>5
  <1>4. Sets(SetPosition(c, value)) /\ Sets(SetSize(c, value))
    <2> DEFINE kept == Percentage(value)
    <2>1. kept \in Int
      BY KeptNumbers
    <2>2. /\ SetPosition(c, value) \in {Refused(c, "position"), Taken([c EXCEPT !.position = kept], c, "position")}
          /\ SetSize(c, value) \in {Refused(c, "size"), Taken([c EXCEPT !.size = kept], c, "size")}
      BY Zenon DEF SetPosition, SetSize
    <2> HIDE DEF kept
    <2>3. [c EXCEPT !.position = kept] \in SettingsType /\ [c EXCEPT !.size = kept] \in SettingsType
      BY <2>1 DEF SettingsType
    <2>4. /\ Sets(Refused(c, "position")) /\ Sets(Taken([c EXCEPT !.position = kept], c, "position"))
          /\ Sets(Refused(c, "size")) /\ Sets(Taken([c EXCEPT !.size = kept], c, "size"))
      BY <2>3, TakenSets, RefusedSets DEF Keys
    <2> QED BY <2>2, <2>4
  <1>5. SetSetting(c, key, value) \in {SetAlign(c, value), SetVertical(c, value), SetLine(c, value),
           SetPosition(c, value), SetSize(c, value), Refused(c, "cuesetting")}
    BY Zenon DEF SetSetting
  <1>6. Sets(Refused(c, "cuesetting"))
    BY RefusedSets
  <1> HIDE DEF Sets, SetSetting, SetAlign, SetVertical, SetLine, SetPosition, SetSize, Refused
  <1> QED BY <1>1, <1>2, <1>3, <1>4, <1>5, <1>6

\* The place of a character of a word, if it is there.
LEMMA SelectIn ==
  ASSUME NEW s \in Line
  PROVE  ColonAt(s) \in 0 .. Len(s) /\ Limit(s) \in 0 .. Len(s) + 1
  <1>1. Len(s) \in Nat
    BY LenProperties DEF Line
  <1>2. ASSUME NEW S \in SUBSET (1 .. Len(s)) PROVE (IF S # {} THEN Min(S) ELSE 0) \in 0 .. Len(s)
    <2>1. CASE S # {}
      <3>1. \E m \in S : \A x \in S : m <= x
        <4>1. S \in SUBSET Nat
          OBVIOUS
        <4> QED BY <2>1, <4>1, Least
      <3>2. Min(S) \in S
        BY <3>1 DEF Min
      <3> DEFINE m == Min(S)
      <3>3. m \in 1 .. Len(s)
        BY <3>2
      <3> HIDE DEF m
      <3>4. m \in 0 .. Len(s)
        BY <3>3, <1>1
      <3> QED BY <2>1, <3>4 DEF m
    <2>2. CASE S = {}
      BY <2>2, <1>1
    <2> QED BY <2>1, <2>2
  <1> DEFINE At(x) == {i \in 1 .. Len(s) : s[i] = x}
             Of(x) == IF At(x) # {} THEN Min(At(x)) ELSE 0
  <1>3. ASSUME NEW x PROVE Of(x) \in 0 .. Len(s)
    <2>1. At(x) \in SUBSET (1 .. Len(s))
      OBVIOUS
    <2> HIDE DEF At
    <2> QED BY <1>2, <2>1
  <1>4. ColonAt(s) = Of(":")
    BY Zenon DEF ColonAt, SelectInSeq
  <1>5. Limit(s) = IF Of("CR") # 0 THEN Of("CR") ELSE IF Of("LF") # 0 THEN Of("LF") ELSE Len(s) + 1
    BY Zenon DEF Limit, SelectInSeq
  <1> HIDE DEF Of
  <1> QED BY <1>1, <1>3, <1>4, <1>5

\* No keyword outgrows the buffer, and a word leaves settings.
LEMMA WordSets ==
  ASSUME NEW c \in SettingsType, NEW s \in Line
  PROVE  Copied(s) <= KeyRoom /\ Sets(SetFromString(c, s))
  <1>1. ColonAt(s) \in 0 .. Len(s) /\ Len(s) \in Nat /\ KeyRoom \in Nat
    BY SelectIn, LenProperties, SettingsAssumption DEF Line
  <1>2. Copied(s) <= KeyRoom
    <2>1. KeyLength(s) \in Int
      BY <1>1 DEF KeyLength
    <2> QED BY <1>1, <2>1 DEF Copied
  <1>3. Sets(SetFromString(c, s))
    <2>1. CASE Copied(s) = 0
      BY <2>1, RefusedSets DEF SetFromString
    <2>2. CASE Copied(s) # 0
      <3> DEFINE value == SubSeq(s, ColonAt(s) + 1, Len(s))
      <3>1. value \in Line
        <4>1. \A i \in ColonAt(s) + 1 .. Len(s) : i \in 1 .. Len(s)
          BY <1>1
        <4> QED BY <1>1, <4>1, SubSeqProperties, ElementOfSeq DEF Line
      <3>2. SetFromString(c, s) = SetSetting(c, SubSeq(s, 1, KeyLength(s)), value)
        BY <2>2, Zenon DEF SetFromString
      <3> HIDE DEF value
      <3> QED BY <3>1, <3>2, SetSettingSets
    <2> QED BY <2>1, <2>2
  <1> QED BY <1>2, <1>3

-----------------------------------------------------------------------------
(* Bounds.                                                                 *)

\* The call of webvtt_parse_timestamp: what it reads next and what it counts agree.
StampIn ==
  /\ st \in Sections /\ b \in 1 .. Len(text) + 1 /\ n \in 0 .. Len(text)
  /\ v \in [1 .. 4 -> Wide] /\ haveHours \in BOOLEAN /\ malformed \in BOOLEAN
  /\ result \in 0 .. Word - 1
  /\ st # "idle" => b = pos + n

\* The line: a column is not beyond its place.
LineIn ==
  /\ text \in Line /\ pos \in 1 .. Len(text) + 1 /\ column \in 0 .. pos
  /\ times \in Seq(0 .. Word - 1) /\ Len(times) <= 2
  /\ settings \in SettingsType /\ word \in Line /\ limit \in 0 .. Len(text) + 1
  /\ at = "set" => column + Len(word) <= pos

Stages == {"start", "time", "arrow", "glue", "copy", "settings", "word", "set", "done"}
Outcomes == {"none", "SUCCESS", "BAD_CUE", "PARSE_ERROR", "OUT_OF_MEMORY"}

\* How far the routines are.
StageIn ==
  /\ parsing \in BOOLEAN /\ refused \in BOOLEAN /\ failed \in BOOLEAN
  /\ at \in Stages /\ status \in Outcomes
  /\ at = "time" <=> st # "idle"
  /\ at = "start" => times = << >> /\ column = 1
  /\ at = "time" => Len(times) <= 1
  /\ at = "arrow" => Len(times) = 1

BoundsInv == StampIn /\ LineIn /\ StageIn

LEMMA BoundsHold == BoundsInv => InBounds
  <1> SUFFICES ASSUME BoundsInv PROVE InBounds
    OBVIOUS
  <1> USE DEF BoundsInv
  <1>1. Len(text) \in Nat /\ Len(times) \in Nat
    BY LenProperties DEF LineIn, Line
  <1>2. \A i \in 1 .. 4 : v[i] \in -(Word \div 2) .. Word \div 2 - 1
    BY DEF StampIn, Wide, Half
  <1>3. pos \in 1 .. Len(text) + 1 /\ column \in 0 .. Len(text) + 1
    BY <1>1 DEF LineIn
  <1>4. \A i \in DOMAIN times : times[i] \in 0 .. Word - 1
    BY ElementOfSeq, LenProperties DEF LineIn
  <1>5. Copied(word) <= KeyRoom
    BY WordSets DEF LineIn
  <1>6. settings.have \subseteq Keys
    BY DEF LineIn, SettingsType
  <1> QED BY <1>1, <1>2, <1>3, <1>4, <1>5, <1>6 DEF InBounds, StampIn, LineIn, StageIn, Stages, Outcomes

LEMMA InitBounds == TimingsInit => BoundsInv
  <1> SUFFICES ASSUME TimingsInit PROVE BoundsInv
    OBVIOUS
  <1> USE DEF TimingsInit
  <1>1. text \in Line
    BY LinesAssumption DEF Line
  <1>2. Len(text) \in Nat
    BY <1>1, LenProperties DEF Line
  <1>3. v \in [1 .. 4 -> Wide]
    <2>1. 0 \in Wide
      BY WordIs DEF Wide
    <2>2. v = [i \in 1 .. 4 |-> 0]
      BY DEF Idle
    <2> QED BY <2>1, <2>2
  <1>4. StampIn
    <2>1. /\ st = "idle" /\ b = 1 /\ n = 0 /\ haveHours = FALSE /\ malformed = FALSE
          /\ result = Word - 1
      BY DEF Idle, BadTime
    <2>2. b \in 1 .. Len(text) + 1 /\ n \in 0 .. Len(text) /\ result \in 0 .. Word - 1
      BY <1>2, <2>1, WordIs
    <2> QED BY <1>3, <2>1, <2>2 DEF StampIn, Sections
  <1>5. LineIn
    <2>1. NewSettings \in SettingsType
      BY NewSettingsIn
    <2>2. << >> \in Line /\ << >> \in Seq(0 .. Word - 1) /\ Len(<< >>) = 0
      BY EmptySeq DEF Line
    <2> QED BY <1>1, <1>2, <2>1, <2>2 DEF LineIn
  <1>6. StageIn
    BY DEF StageIn, Idle, Stages, Outcomes
  <1> QED BY <1>4, <1>5, <1>6 DEF BoundsInv

\* One field is set.
LEMMA FieldSet ==
  ASSUME NEW f \in [1 .. 4 -> Wide], NEW k \in 1 .. 4, NEW x \in Wide
  PROVE  [f EXCEPT ![k] = x] \in [1 .. 4 -> Wide]
  OBVIOUS

LEMMA CarryKeeps ==
  ASSUME NEW f \in [1 .. 4 -> Wide], NEW i \in 2 .. 4, NEW L \in Nat \ {0}
  PROVE  CarryOver(f, i, L) \in [1 .. 4 -> Wide]
  <1>1. CASE ~Over(f, i, L)
    BY <1>1 DEF CarryOver
  <1>2. CASE Over(f, i, L)
    <2> DEFINE x == f[i]
               y == f[i - 1] + x \div L
    <2>1. x \in Wide /\ x >= L /\ f[i - 1] \in Wide
      BY <1>2, WordIs DEF Over, Wide
    <2> HIDE DEF x
    <2>2. x \div L \in Int /\ x % L \in 0 .. L - 1
      BY <2>1, WordIs DEF Wide
    <2>3. x % L \in Wide
      BY <2>1, <2>2, WordIs DEF Wide
    <2>4. y \in Int
      BY <2>1, <2>2, WordIs DEF Wide
    <2> HIDE DEF y
    <2>5. Signed(y, Word) \in Wide
      BY <2>4, SignedIn
    <2>6. [f EXCEPT ![i - 1] = Signed(y, Word)] \in [1 .. 4 -> Wide]
      BY <2>5
    <2>7. CarryOver(f, i, L) = [[f EXCEPT ![i - 1] = Signed(y, Word)] EXCEPT ![i] = x % L]
      <3>1. CarryOver(f, i, L) = [f EXCEPT ![i - 1] = Signed(f[i - 1] + f[i] \div L, Word), ![i] = f[i] % L]
        BY <1>2 DEF CarryOver
      <3>2. i # i - 1
        OBVIOUS
      <3> QED BY <3>1, <3>2 DEF x, y
    <2> QED BY <2>3, <2>6, <2>7
  <1> QED BY <1>1, <1>2

LEMMA UnitsAre == Sixty \in Nat \ {0} /\ Thousand \in Nat \ {0}
  <1>1. Base * Base \in Nat \ {0}
    BY BaseIs
  <1> QED BY <1>1, BaseIs, UnitsAssumption

\* The sum is a time.
LEMMA MillisecondsIn ==
  ASSUME NEW f \in [1 .. 4 -> Wide] PROVE Milliseconds(f) \in 0 .. Word - 1
  <1>1. f[1] \in Int /\ f[2] \in Int /\ f[3] \in Int /\ f[4] \in Int
    BY WordIs DEF Wide
  <1>2. MsPerHour \in Int /\ MsPerMinute \in Int /\ MsPerSecond \in Int
    BY UnitsAre DEF MsPerHour, MsPerMinute, MsPerSecond
  <1> DEFINE x == f[1] * MsPerHour + f[2] * MsPerMinute + f[3] * MsPerSecond + f[4]
  <1>3. x \in Int
    BY <1>1, <1>2
  <1> HIDE DEF x
  <1>4. x % Word \in 0 .. Word - 1
    BY <1>3, WordIs
  <1> QED BY <1>4 DEF Milliseconds, Unsigned, x

\* A character that is there, and one after it.
LEMMA CharIn ==
  ASSUME NEW s \in Line, NEW p \in Nat \ {0}
  PROVE  /\ Char(s, p) # "NUL" => p <= Len(s)
         /\ IsDigit(Char(s, p)) => p <= Len(s) /\ s[p] \in DigitChars
  <1>1. Len(s) \in Nat
    BY LenProperties DEF Line
  <1>2. "NUL" \notin DigitChars
    BY DigitsAssumption DEF DigitChars
  <1> QED BY <1>1, <1>2 DEF Char, IsDigit

\* Numbers that are read after a separator, and where they end.
LEMMA After ==
  ASSUME NEW s \in Line, NEW p \in 1 .. Len(s) + 1, IsDigit(Char(s, p + 1))
  PROVE  /\ ParseInt(s, p + 1).value \in Wide
         /\ ParseInt(s, p + 1).next \in p + 2 .. Len(s) + 1
         /\ ParseInt(s, p + 1).digits = ParseInt(s, p + 1).next - (p + 1)
  <1> DEFINE q == p + 1
  <1>1. Len(s) \in Nat /\ q \in Nat \ {0}
    BY LenProperties DEF Line
  <1>2. q <= Len(s)
    BY <1>1, CharIn
  <1>3. q \in 1 .. Len(s) + 1
    BY <1>1, <1>2
  <1> HIDE DEF q
  <1>4. IsDigit(Char(s, q))
    BY DEF q
  <1> DEFINE x == ParseInt(s, q)
  <1>5. x.value \in Wide /\ x.next \in q + 1 .. Len(s) + 1 /\ x.digits = x.next - q
    BY <1>3, <1>4, ParseIntAt
  <1> HIDE DEF x
  <1> QED BY <1>5, <1>1 DEF x, q

\* What is read is counted.
LEMMA ColumnMoves ==
  ASSUME NEW L \in Nat, NEW p \in 1 .. L + 1, NEW q \in 1 .. L + 1, NEW k \in 0 .. L, q = p + k,
         NEW e \in {0, 1}, NEW r, NEW g, NEW m,
         r \in q + e .. L + 1, g = r - (q + e), m = k + e + g
  PROVE  r \in 1 .. L + 1 /\ m \in 0 .. L /\ r = p + m
  OBVIOUS

\* A step of webvtt_parse_timestamp.
LEMMA StepBounds ==
  ASSUME StampIn, text \in Line, pos \in 1 .. Len(text) + 1, Step, text' = text, pos' = pos
  PROVE  StampIn' /\ st' # "idle" /\ st # "idle"
  <1>1. Len(text) \in Nat
    BY LenProperties DEF Line
  <1>2. /\ st \in Sections /\ b \in 1 .. Len(text) + 1 /\ n \in 0 .. Len(text)
        /\ v \in [1 .. 4 -> Wide] /\ haveHours \in BOOLEAN /\ malformed \in BOOLEAN
        /\ result \in 0 .. Word - 1
        /\ st # "idle" => b = pos + n
    BY DEF StampIn
  <1>3. b \in Nat \ {0}
    BY <1>1, <1>2
  <1>4. ASSUME NotTimestamp, st # "idle" PROVE StampIn' /\ st' # "idle"
    BY <1>2, <1>4, WordIs DEF NotTimestamp, StampIn, Sections, BadTime
  <1>5. CASE NoDigit \/ NoSecond \/ NoThird \/ NoFraction
    BY <1>4, <1>5 DEF NoDigit, NoSecond, NoThird, NoFraction
  <1>6. CASE First
    <2> DEFINE x == ParseInt(text, b)
    <2>1. st = "first" /\ IsDigit(Char(text, b))
      BY <1>6 DEF First
    <2>2. x.value \in Wide /\ x.next \in b + 1 .. Len(text) + 1 /\ x.digits = x.next - b
      BY <1>2, <2>1, ParseIntAt
    <2>3. /\ v' = [v EXCEPT ![1] = x.value] /\ n' = n + x.digits /\ b' = x.next /\ st' = "second"
          /\ malformed' = malformed /\ result' = result
          /\ haveHours' = (x.digits # 2 \/ x.value > Sixty - 1)
      BY <1>6 DEF First
    <2> HIDE DEF x
    <2>4. v' \in [1 .. 4 -> Wide]
      BY <1>2, <2>2, <2>3, FieldSet
    <2>5. haveHours' \in BOOLEAN
      BY <2>3
    <2>6. b' \in 1 .. Len(text) + 1 /\ n' \in 0 .. Len(text) /\ b' = pos + n'
      <3>1. x.next \in b + 0 .. Len(text) + 1 /\ x.digits = x.next - (b + 0)
        BY <1>1, <1>2, <2>2
      <3>2. n' = n + 0 + x.digits /\ b' = x.next /\ b = pos + n
        BY <1>1, <1>2, <2>1, <2>2, <2>3
      <3> QED BY ONLY <1>1, <1>2, <3>1, <3>2, ColumnMoves, pos \in 1 .. Len(text) + 1
    <2> QED BY <1>2, <2>1, <2>3, <2>4, <2>5, <2>6 DEF StampIn, Sections
  <1>7. CASE Second
    <2> DEFINE x == ParseInt(text, b + 1)
    <2>1. st = "second" /\ IsDigit(Char(text, b + 1))
      BY <1>7 DEF Second, Colon
    <2>2. x.value \in Wide /\ x.next \in b + 2 .. Len(text) + 1 /\ x.digits = x.next - (b + 1)
      BY <1>2, <2>1, After
    <2>3. /\ v' = [v EXCEPT ![2] = x.value] /\ n' = n + 1 + x.digits /\ b' = x.next /\ st' = "third"
          /\ haveHours' = haveHours /\ result' = result /\ malformed' = (x.digits # 2)
      BY <1>7 DEF Second
    <2> HIDE DEF x
    <2>4. v' \in [1 .. 4 -> Wide]
      BY <1>2, <2>2, <2>3, FieldSet
    <2>5. malformed' \in BOOLEAN
      BY <2>3
    <2>6. b' \in 1 .. Len(text) + 1 /\ n' \in 0 .. Len(text) /\ b' = pos + n'
      <3>1. x.next \in b + 1 .. Len(text) + 1
        BY <1>1, <1>2, <2>2
      <3>2. n' = n + 1 + x.digits /\ b' = x.next /\ b = pos + n
        BY <1>2, <2>1, <2>3
      <3> QED BY ONLY <1>1, <1>2, <2>2, <3>1, <3>2, ColumnMoves, pos \in 1 .. Len(text) + 1
    <2> QED BY <1>2, <2>1, <2>3, <2>4, <2>5, <2>6 DEF StampIn, Sections
  <1>8. CASE Third
    <2> DEFINE x == ParseInt(text, b + 1)
               none == ~IsDigit(Char(text, b + 1))
    <2>1. st = "third" /\ Char(text, b) = ":"
      BY <1>8 DEF Third
    <2>2. b <= Len(text)
      BY <1>3, <2>1, CharIn
    <2>3. ~none => x.value \in Wide /\ x.next \in b + 2 .. Len(text) + 1 /\ x.digits = x.next - (b + 1)
      BY <1>2, After
    <2>4. /\ v' = [v EXCEPT ![3] = IF none THEN 0 ELSE x.value]
          /\ malformed' = (malformed \/ none \/ x.digits # 2)
          /\ n' = n + 1 + (IF none THEN 0 ELSE x.digits)
          /\ b' = (IF none THEN b + 1 ELSE x.next) /\ st' = "fraction"
          /\ haveHours' = haveHours /\ result' = result
      BY <1>8 DEF Third
    <2> HIDE DEF x, none
    <2>5. 0 \in Wide
      BY WordIs DEF Wide
    <2>6. v' \in [1 .. 4 -> Wide]
      BY <1>2, <2>3, <2>4, <2>5, FieldSet
    <2>7. malformed' \in BOOLEAN
      BY <2>4
    <2>8. b' \in 1 .. Len(text) + 1 /\ n' \in 0 .. Len(text) /\ b' = pos + n'
      <3> DEFINE e == IF none THEN b + 1 ELSE x.next
                 g == IF none THEN 0 ELSE x.digits
      <3>1. e \in b + 1 .. Len(text) + 1 /\ g = e - (b + 1)
        <4>1. CASE none
          BY <4>1, <1>1, <1>2, <2>2
        <4>2. CASE ~none
          <5>1. e = x.next /\ g = x.digits
            BY <4>2
          <5> HIDE DEF e, g
          <5> QED BY ONLY <5>1, <4>2, <2>3, <1>1, <1>2
        <4> QED BY <4>1, <4>2
      <3>2. n' = n + 1 + g /\ b' = e /\ b = pos + n
        BY <1>2, <2>1, <2>4
      <3> HIDE DEF e, g
      <3> QED BY ONLY <1>1, <1>2, <3>1, <3>2, ColumnMoves, pos \in 1 .. Len(text) + 1
    <2> QED BY <1>2, <2>1, <2>4, <2>6, <2>7, <2>8 DEF StampIn, Sections
  <1>9. CASE Shift
    <2>1. /\ st = "third" /\ v' = <<0, v[1], v[2], v[4]>> /\ malformed' = (malformed \/ haveHours)
          /\ st' = "fraction" /\ b' = b /\ n' = n /\ haveHours' = haveHours /\ result' = result
      BY <1>9 DEF Shift
    <2>2. 0 \in Wide /\ v[1] \in Wide /\ v[2] \in Wide /\ v[4] \in Wide
      BY <1>2, WordIs DEF Wide
    <2>3. <<0, v[1], v[2], v[4]>> \in [1 .. 4 -> Wide]
      BY <2>2
    <2> QED BY <1>2, <2>1, <2>3 DEF StampIn, Sections
  <1>10. CASE Fraction
    <2> DEFINE x == ParseInt(text, b + 1)
    <2>1. st = "fraction" /\ IsDigit(Char(text, b + 1))
      BY <1>10 DEF Fraction, Point
    <2>2. x.value \in Wide /\ x.next \in b + 2 .. Len(text) + 1 /\ x.digits = x.next - (b + 1)
      BY <1>2, <2>1, After
    <2>3. /\ v' = [v EXCEPT ![4] = x.value] /\ n' = n + 1 + x.digits /\ b' = x.next /\ st' = "carry"
          /\ haveHours' = haveHours /\ result' = result /\ malformed' = (malformed \/ x.digits # 3)
      BY <1>10 DEF Fraction
    <2> HIDE DEF x
    <2>4. v' \in [1 .. 4 -> Wide]
      BY <1>2, <2>2, <2>3, FieldSet
    <2>5. malformed' \in BOOLEAN
      BY <2>3
    <2>6. b' \in 1 .. Len(text) + 1 /\ n' \in 0 .. Len(text) /\ b' = pos + n'
      <3>1. x.next \in b + 1 .. Len(text) + 1
        BY <1>1, <1>2, <2>2
      <3>2. n' = n + 1 + x.digits /\ b' = x.next /\ b = pos + n
        BY <1>2, <2>1, <2>3
      <3> QED BY ONLY <1>1, <1>2, <2>2, <3>1, <3>2, ColumnMoves, pos \in 1 .. Len(text) + 1
    <2> QED BY <1>2, <2>1, <2>3, <2>4, <2>5, <2>6 DEF StampIn, Sections
  <1>11. CASE Carry
    <2> DEFINE ms == CarryOver(v, 4, Thousand)
               seconds == CarryOver(ms, 3, Sixty)
               minutes == CarryOver(seconds, 2, Sixty)
    <2>1. /\ st = "carry" /\ v' = minutes /\ malformed' = (malformed \/ minutes # v)
          /\ result' = Milliseconds(minutes) /\ st' = "returned"
          /\ b' = b /\ n' = n /\ haveHours' = haveHours
      BY <1>11 DEF Carry
    <2>0. 2 \in 2 .. 4 /\ 3 \in 2 .. 4 /\ 4 \in 2 .. 4
      OBVIOUS
    <2>2. ms \in [1 .. 4 -> Wide]
      BY <1>2, <2>0, UnitsAre, CarryKeeps, Zenon
    <2> HIDE DEF ms
    <2>3. seconds \in [1 .. 4 -> Wide]
      BY <2>2, <2>0, UnitsAre, CarryKeeps, Zenon
    <2> HIDE DEF seconds
    <2>4. minutes \in [1 .. 4 -> Wide]
      BY <2>3, <2>0, UnitsAre, CarryKeeps, Zenon
    <2> HIDE DEF minutes
    <2>5. Milliseconds(minutes) \in 0 .. Word - 1
      BY <2>4, MillisecondsIn
    <2>6. malformed' \in BOOLEAN
      BY <2>1
    <2> QED BY <1>2, <2>1, <2>4, <2>5, <2>6 DEF StampIn, Sections
  <1> QED BY <1>5, <1>6, <1>7, <1>8, <1>9, <1>10, <1>11
          DEF Step, NoDigit, NoSecond, NoThird, NoFraction, First, Second, Third, Shift, Fraction, Carry

\* The call returned, or is not there.
LEMMA StampIdle ==
  ASSUME StampIn, st' = "idle", text' = text,
         UNCHANGED <<b, n, v, haveHours, malformed, result>>
  PROVE  StampIn'
  BY DEF StampIn, Sections

\* It is called where the line is.
LEMMA StampCalled ==
  ASSUME StampIn, LineIn, NEW p \in 1 .. Len(text) + 1, Call(p), pos' = p, text' = text
  PROVE  StampIn' /\ st' # "idle"
  <1>1. /\ st' = "first" /\ b' = p /\ n' = 0 /\ haveHours' = FALSE /\ malformed' = FALSE
        /\ v' = v /\ result' = result
    BY DEF Call
  <1>2. Len(text) \in Nat
    BY LenProperties DEF LineIn, Line
  <1>3. n' \in 0 .. Len(text) /\ b' = pos' + n' /\ b' \in 1 .. Len(text) + 1
    BY <1>1, <1>2
  <1> QED BY <1>1, <1>3 DEF StampIn, Sections

\* The end of the routine.
LEMMA Returns ==
  ASSUME BoundsInv, at # "set", st' = "idle", NEW s \in Outcomes, Return(s),
         UNCHANGED <<text, parsing, pos, column, settings, word, limit>>,
         refused' \in BOOLEAN, failed' \in BOOLEAN, times' \in Seq(0 .. Word - 1), Len(times') <= 2,
         UNCHANGED <<b, n, v, haveHours, malformed, result>>
  PROVE  BoundsInv'
  <1>1. StampIn'
    BY StampIdle DEF BoundsInv
  <1>2. at' = "done" /\ status' = s
    BY DEF Return
  <1>3. LineIn'
    BY <1>2 DEF BoundsInv, LineIn
  <1>4. StageIn'
    BY <1>2 DEF BoundsInv, StageIn, Stages
  <1> QED BY <1>1, <1>3, <1>4 DEF BoundsInv

\* One more time is read.
LEMMA OneMoreTime ==
  ASSUME LineIn, Len(times) <= 1, NEW x \in 0 .. Word - 1
  PROVE  /\ Append(times, x) \in Seq(0 .. Word - 1) /\ Len(Append(times, x)) = Len(times) + 1
         /\ Len(Append(times, x)) <= 2
  <1>1. times \in Seq(0 .. Word - 1) /\ Len(times) \in Nat
    BY LenProperties DEF LineIn
  <1> QED BY <1>1, AppendProperties

\* A place that moves on, and a column with it.
LEMMA Moves ==
  ASSUME NEW L \in Nat, NEW p \in 1 .. L + 1, NEW c \in 0 .. p, NEW q \in p .. L + 1
  PROVE  /\ q \in 1 .. L + 1 /\ c \in 0 .. q /\ c + (q - p) \in 0 .. q
         /\ q - 1 \in Int /\ p \in Int /\ q - 1 - p + 1 = q - p /\ (p > q - 1 => q - p = 0)
         /\ \A i \in p .. q - 1 : i \in 1 .. L
         /\ c + (q - p) <= q
  OBVIOUS

LEMMA NextBounds == BoundsInv /\ [TimingsNext]_timings => BoundsInv'
  <1> SUFFICES ASSUME BoundsInv, [TimingsNext]_timings PROVE BoundsInv'
    OBVIOUS
  <1>1. StampIn /\ LineIn /\ StageIn
    BY DEF BoundsInv
  <1>2. /\ text \in Line /\ Len(text) \in Nat /\ pos \in 1 .. Len(text) + 1 /\ column \in 0 .. pos
        /\ times \in Seq(0 .. Word - 1) /\ Len(times) <= 2 /\ Len(times) \in Nat
        /\ settings \in SettingsType /\ word \in Line /\ limit \in 0 .. Len(text) + 1
    BY <1>1, LenProperties DEF LineIn, Line
  <1>3. /\ parsing \in BOOLEAN /\ refused \in BOOLEAN /\ failed \in BOOLEAN
        /\ at = "time" <=> st # "idle"
        /\ at \in Stages /\ status \in Outcomes
    BY <1>1 DEF StageIn
  <1>4. result \in 0 .. Word - 1 /\ n \in 0 .. Len(text) /\ (st # "idle" => b = pos + n)
        /\ b \in 1 .. Len(text) + 1
    BY <1>1 DEF StampIn
  <1>5. CASE Start
    <2> DEFINE p == SkipSpace(text, 1)
    <2>1. p \in 1 .. Len(text) + 1
      <3>1. 1 \in 1 .. Len(text) + 1
        BY <1>2
      <3> QED BY <1>2, <3>1, ScansIn
    <2>2. /\ at = "start" /\ at' = "time" /\ pos' = p /\ Call(p)
          /\ UNCHANGED <<text, parsing, column, times, settings, word, limit, errors, refused, failed, status>>
      BY <1>5 DEF Start, Goto
    <2> HIDE DEF p
    <2>3. StampIn' /\ st' # "idle"
      BY <1>1, <2>1, <2>2, StampCalled
    <2>4. times = << >> /\ column = 1
      BY <1>1, <2>2 DEF StageIn
    <2>5. LineIn'
      BY <1>1, <1>2, <2>1, <2>2, <2>4 DEF LineIn
    <2>6. StageIn'
      BY <1>1, <2>2, <2>3, <2>4, EmptySeq DEF StageIn, Stages
    <2> QED BY <2>3, <2>5, <2>6 DEF BoundsInv
  <1>6. CASE ReadTime
    <2>1. Step /\ UNCHANGED <<text, parsing, at, cueline>>
      BY <1>6 DEF ReadTime
    <2>2. StampIn' /\ st # "idle" /\ st' # "idle"
      BY <1>1, <1>2, <2>1, StepBounds DEF cueline
    <2>3. LineIn' /\ StageIn'
      BY <1>1, <2>1, <2>2 DEF cueline, LineIn, StageIn
    <2> QED BY <2>2, <2>3 DEF BoundsInv
  <1>7. CASE BadStamp
    <2>1. /\ at = "time" /\ st' = "idle" /\ times' = Append(times, BadTime)
          /\ \/ Return("BAD_CUE") /\ refused' = refused
             \/ Return("PARSE_ERROR") /\ refused' = TRUE
          /\ UNCHANGED <<text, parsing, pos, column, settings, word, limit, failed,
                         b, n, v, haveHours, malformed, result>>
      BY <1>7 DEF BadStamp
    <2>2. Len(times) <= 1
      BY <1>1, <2>1 DEF StageIn
    <2>3. BadTime \in 0 .. Word - 1
      BY WordIs DEF BadTime
    <2>4. times' \in Seq(0 .. Word - 1) /\ Len(times') <= 2
      BY <1>1, <2>1, <2>2, <2>3, OneMoreTime
    <2> QED BY <1>3, <2>1, <2>4, Returns DEF Outcomes
  <1>8. CASE MalformedRefused
    <2>1. /\ at = "time" /\ st' = "idle" /\ times' = Append(times, result)
          /\ Return("BAD_CUE") /\ refused' = TRUE
          /\ UNCHANGED <<text, parsing, pos, column, settings, word, limit, failed,
                         b, n, v, haveHours, malformed, result>>
      BY <1>8 DEF MalformedRefused
    <2>2. Len(times) <= 1
      BY <1>1, <2>1 DEF StageIn
    <2>3. times' \in Seq(0 .. Word - 1) /\ Len(times') <= 2
      BY <1>1, <1>4, <2>1, <2>2, OneMoreTime
    <2> QED BY <1>3, <2>1, <2>3, Returns DEF Outcomes
  <1>9. CASE GoodStamp
    <2>1. /\ at = "time" /\ st' = "idle" /\ times' = Append(times, result) /\ AfterStamp(n)
          /\ at' = IF times = << >> THEN "arrow" ELSE "glue"
          /\ UNCHANGED <<text, parsing, settings, word, limit, refused, failed, status,
                         b, n, v, haveHours, malformed, result>>
      BY <1>9 DEF GoodStamp, Goto
    <2>2. Len(times) <= 1
      BY <1>1, <2>1 DEF StageIn
    <2>3. times' \in Seq(0 .. Word - 1) /\ Len(times') <= 2 /\ Len(times') = Len(times) + 1
      BY <1>1, <1>4, <2>1, <2>2, OneMoreTime
    <2> DEFINE q == pos + n
    <2>4. q \in pos .. Len(text) + 1 /\ q \in 1 .. Len(text) + 1
      BY <1>2, <1>3, <1>4, <2>1
    <2>5. SkipSpace(text, q) \in q .. Len(text) + 1
      BY <1>2, <2>4, ScansIn
    <2>6. pos' \in pos .. Len(text) + 1 /\ column' = column + (pos' - pos)
      <3> DEFINE p == IF times = << >> THEN SkipSpace(text, q) ELSE q
      <3>1. pos' = p /\ column' = column + (p - pos)
        BY <2>1 DEF AfterStamp
      <3>2. p \in pos .. Len(text) + 1
        <4> HIDE DEF q
        <4> QED BY <1>2, <2>4, <2>5
      <3> HIDE DEF p
      <3> QED BY <3>1, <3>2
    <2>7. LineIn'
      <3>1. pos' \in 1 .. Len(text) + 1 /\ column' \in 0 .. pos'
        BY ONLY <1>2, <2>6, Moves
      <3> QED BY <1>1, <2>1, <2>3, <3>1 DEF LineIn
    <2>8. StampIn'
      BY <1>1, <2>1, StampIdle
    <2>9. times = << >> => Len(times) = 0
      BY EmptySeq
    <2>10. StageIn'
      BY <1>1, <2>1, <2>3, <2>9 DEF StageIn, Stages
    <2> QED BY <2>7, <2>8, <2>10 DEF BoundsInv
  <1>10. CASE NoArrow
    <2>1. /\ at = "arrow" /\ Return("PARSE_ERROR")
          /\ UNCHANGED <<text, parsing, st, b, n, v, haveHours, malformed, result, pos, times,
                         column, settings, word, limit, refused, failed>>
      BY <1>10 DEF NoArrow, stamp
    <2>2. st' = "idle"
      BY <1>3, <2>1
    <2> QED BY <1>2, <1>3, <2>1, <2>2, Returns DEF Outcomes
  <1>11. CASE SkipArrow
    <2> DEFINE p == SkipSpace(text, pos + 3)
    <2>1. /\ at = "arrow" /\ ArrowAt(text, pos) /\ at' = "time"
          /\ pos' = p /\ column' = column + (p - pos) /\ Call(p)
          /\ UNCHANGED <<text, parsing, times, settings, word, limit, refused, failed, status>>
      BY <1>11 DEF SkipArrow, Goto
    <2>2. p \in pos + 3 .. Len(text) + 1
      <3>1. pos + 3 \in 1 .. Len(text) + 1
        BY <1>2, <2>1 DEF ArrowAt
      <3> QED BY <1>2, <3>1, ScansIn
    <2> HIDE DEF p
    <2>3. p \in 1 .. Len(text) + 1 /\ column' \in 0 .. pos'
      BY ONLY <1>2, <2>1, <2>2
    <2>4. StampIn' /\ st' # "idle"
      BY <1>1, <2>1, <2>3, StampCalled
    <2>5. LineIn'
      BY <1>1, <2>1, <2>3 DEF LineIn
    <2>6. StageIn'
      <3>1. /\ Len(times') <= 1
            /\ parsing' \in BOOLEAN /\ refused' \in BOOLEAN /\ failed' \in BOOLEAN
            /\ status' \in Outcomes
        <4>1. Len(times) = 1
          BY <1>1, <2>1 DEF StageIn
        <4>2. Len(times') <= 1
          BY <2>1, <4>1
        <4>3. UNCHANGED <<parsing, refused, failed>>
          BY <2>1
        <4>4. parsing' \in BOOLEAN /\ refused' \in BOOLEAN /\ failed' \in BOOLEAN
          BY <1>3, <4>3
        <4>5. status' \in Outcomes
          BY <1>3, <2>1
        <4> QED BY <4>2, <4>4, <4>5
      <3>2. at' = "time"
        BY <2>1
      <3>3. at' \in Stages /\ at' # "start" /\ at' # "arrow"
        BY ONLY <3>2 DEF Stages
      <3>4. at' = "time" <=> st' # "idle"
        BY ONLY <2>4, <3>2
      <3> QED BY ONLY <3>1, <3>3, <3>4 DEF StageIn
    <2> QED BY <2>4, <2>5, <2>6 DEF BoundsInv
  <1>12. CASE Glue
    <2>1. /\ at = "glue"
          /\ \/ at' = "copy" /\ UNCHANGED <<refused, status>>
             \/ Return("PARSE_ERROR") /\ refused' = TRUE
          /\ UNCHANGED <<text, parsing, st, b, n, v, haveHours, malformed, result, pos, times,
                         column, settings, word, limit, failed>>
      BY <1>12 DEF Glue, stamp, Goto
    <2>2. st' = "idle"
      BY <1>3, <2>1
    <2>3. CASE at' = "copy" /\ UNCHANGED <<refused, status>>
      <3>1. StampIn'
        BY <1>1, <2>1, <2>2, StampIdle
      <3>2. LineIn'
        BY <1>1, <2>1, <2>3 DEF LineIn
      <3>3. StageIn'
        BY <1>1, <2>1, <2>2, <2>3 DEF StageIn, Stages
      <3> QED BY <3>1, <3>2, <3>3 DEF BoundsInv
    <2>4. CASE Return("PARSE_ERROR") /\ refused' = TRUE
      BY <1>2, <1>3, <2>1, <2>2, <2>4, Returns DEF Outcomes
    <2> QED BY <2>1, <2>3, <2>4
  <1>13. CASE CopySettings
    <2>1. /\ at = "copy" /\ at' = "settings"
          /\ UNCHANGED <<text, parsing, st, b, n, v, haveHours, malformed, result, pos, times,
                         column, settings, word, limit, refused, failed, status>>
      BY <1>13 DEF CopySettings, stamp, cueline, Goto
    <2>2. StampIn'
      BY <1>1, <1>3, <2>1, StampIdle
    <2>3. LineIn' /\ StageIn'
      BY <1>1, <1>3, <2>1 DEF LineIn, StageIn, Stages
    <2> QED BY <2>2, <2>3 DEF BoundsInv
  <1>14. CASE CopyFails
    <2>1. /\ at = "copy" /\ failed' = TRUE /\ Return("SUCCESS")
          /\ UNCHANGED <<text, parsing, st, b, n, v, haveHours, malformed, result, pos, times,
                         column, settings, word, limit, refused>>
      BY <1>14 DEF CopyFails, stamp
    <2> QED BY <1>2, <1>3, <2>1, Returns DEF Outcomes
  <1>15. CASE Begin
    <2> DEFINE p == SkipSpace(text, pos)
    <2>1. /\ at = "settings" /\ at' = "word" /\ limit' = Limit(text)
          /\ pos' = p /\ column' = column + (p - pos)
          /\ UNCHANGED <<text, parsing, st, b, n, v, haveHours, malformed, result, times,
                         settings, word, refused, failed, status>>
      BY <1>15 DEF Begin, stamp, Goto
    <2>2. p \in pos .. Len(text) + 1 /\ limit' \in 0 .. Len(text) + 1
      BY <1>2, <2>1, ScansIn, SelectIn
    <2> HIDE DEF p
    <2>3. pos' \in 1 .. Len(text) + 1 /\ column' \in 0 .. pos'
      BY ONLY <1>2, <2>1, <2>2
    <2>4. StampIn'
      BY <1>1, <1>3, <2>1, StampIdle
    <2>5. LineIn' /\ StageIn'
      BY <1>1, <1>3, <2>1, <2>2, <2>3 DEF LineIn, StageIn, Stages
    <2> QED BY <2>4, <2>5 DEF BoundsInv
  <1>16. CASE CollectWord
    <2>1. /\ at = "word" /\ pos < limit /\ at' = "set" /\ pos' = WordEnd(text, pos)
          /\ word' = SubSeq(text, pos, pos' - 1)
          /\ UNCHANGED <<text, parsing, st, b, n, v, haveHours, malformed, result, column, times,
                         settings, limit, refused, failed, status>>
      BY <1>16 DEF CollectWord, stamp, Goto
    <2>2. pos' \in pos .. Len(text) + 1
      BY <1>2, <2>1, ScansIn
    <2>3. word' \in Line /\ Len(word') = pos' - pos
      <3> DEFINE q == pos'
                 L == Len(text)
      <3>0. L \in Nat /\ pos \in 1 .. L + 1 /\ q \in pos .. L + 1
        BY <1>2, <2>2
      <3> DEFINE last == pos' - 1
      <3>1. last \in Int /\ pos \in Int /\ last - pos + 1 = pos' - pos /\ (pos > last => pos' - pos = 0)
        <4>1. last = q - 1
          OBVIOUS
        <4> HIDE DEF q, L, last
        <4>2. last \in Int /\ pos \in Int /\ last - pos + 1 = q - pos /\ (pos > last => q - pos = 0)
          BY ONLY <3>0, <4>1
        <4> QED BY <4>2 DEF q
      <3>2. \A i \in pos .. last : i \in 1 .. Len(text)
        BY ONLY <1>2, <2>2, Moves
      <3>3. word' = SubSeq(text, pos, last)
        BY <2>1
      <3> HIDE DEF last
      <3>4. \A i \in pos .. last : text[i] \in STRING
        BY <1>2, <3>2, ElementOfSeq DEF Line
      <3>5. SubSeq(text, pos, last) \in Line /\ Len(SubSeq(text, pos, last)) = IF pos <= last THEN last - pos + 1 ELSE 0
        BY <3>1, <3>4, SubSeqProperties DEF Line
      <3> QED BY <3>1, <3>3, <3>5
    <2>4. pos' \in 1 .. Len(text) + 1 /\ column \in 0 .. pos' /\ column + Len(word') <= pos'
      BY ONLY <1>2, <2>2, <2>3, Moves
    <2>5. StampIn'
      BY <1>1, <1>3, <2>1, StampIdle
    <2>6. LineIn' /\ StageIn'
      BY <1>1, <1>3, <2>1, <2>3, <2>4 DEF LineIn, StageIn, Stages
    <2> QED BY <2>5, <2>6 DEF BoundsInv
  <1>17. CASE WordFails
    <2>1. /\ at = "word" /\ failed' = TRUE
          /\ Return(IF parsing THEN "SUCCESS" ELSE "OUT_OF_MEMORY")
          /\ UNCHANGED <<text, parsing, st, b, n, v, haveHours, malformed, result, pos, times,
                         column, settings, word, limit, refused>>
      BY <1>17 DEF WordFails, stamp
    <2>2. (IF parsing THEN "SUCCESS" ELSE "OUT_OF_MEMORY") \in Outcomes
      BY DEF Outcomes
    <2> QED BY <1>2, <1>3, <2>1, <2>2, Returns
  <1>18. CASE SetWord
    <2> DEFINE p == SkipSpace(text, pos)
               r == SetFromString(settings, word)
    <2>1. /\ at = "set" /\ at' = "word" /\ settings' = r.settings
          /\ pos' = p /\ column' = column + Len(word) + (pos' - pos)
          /\ UNCHANGED <<text, parsing, st, b, n, v, haveHours, malformed, result, times,
                         word, limit, refused, failed, status>>
      BY <1>18 DEF SetWord, stamp, Goto
    <2>2. p \in pos .. Len(text) + 1
      BY <1>2, ScansIn
    <2>3. settings' \in SettingsType
      BY <1>2, <2>1, WordSets DEF Sets
    <2> HIDE DEF p, r
    <2>4. column + Len(word) <= pos /\ Len(word) \in Nat
      BY <1>1, <1>2, <2>1, LenProperties DEF LineIn, Line
    <2>5. pos' \in 1 .. Len(text) + 1 /\ column' \in 0 .. pos'
      BY ONLY <1>2, <2>1, <2>2, <2>4
    <2>6. StampIn'
      BY <1>1, <1>3, <2>1, StampIdle
    <2>7. LineIn' /\ StageIn'
      BY <1>1, <1>3, <2>1, <2>3, <2>5 DEF LineIn, StageIn, Stages
    <2> QED BY <2>6, <2>7 DEF BoundsInv
  <1>19. CASE Finished
    <2>1. /\ at = "word" /\ Return("SUCCESS")
          /\ UNCHANGED <<text, parsing, st, b, n, v, haveHours, malformed, result, pos, times,
                         column, settings, word, limit, refused, failed>>
      BY <1>19 DEF Finished, stamp
    <2> QED BY <1>2, <1>3, <2>1, Returns DEF Outcomes
  <1>20. CASE UNCHANGED timings
    BY <1>1, <1>20 DEF timings, stamp, cueline, BoundsInv, StampIn, LineIn, StageIn
  <1> QED BY <1>5, <1>6, <1>7, <1>8, <1>9, <1>10, <1>11, <1>12, <1>13, <1>14, <1>15, <1>16, <1>17,
             <1>18, <1>19, <1>20 DEF TimingsNext

\* Whatever the line, the answers and the allocator, no place is beyond the NUL, no
\* keyword outgrows its buffer and no number leaves the range of its type.
THEOREM LineStaysInBounds == TimingsSpec => []InBounds
  <1>1. TimingsSpec => []BoundsInv
    BY InitBounds, NextBounds, PTL DEF TimingsSpec
  <1> QED BY <1>1, BoundsHold, PTL

-----------------------------------------------------------------------------
(* What a time is, in terms of the scans of the routine.                   *)

\* A run of digits: how many there are, what they come to and what they spell, and
\* the place behind the character after them.
Count(s, p) == DigitsEnd(s, p) - p
Worth(s, p) == Accumulate(s, p, DigitsEnd(s, p), Word)
Spelt(s, p) == Said!Spelled(s, p, Count(s, p))
Behind(s, p) == DigitsEnd(s, p) + 1

\* TimestampText scans as the routine does.
LEMMA SaidEnds == \A s, p : Said!DigitsEnd(s, p) = DigitsEnd(s, p)
  <1> TAKE s, p
  <1> DEFINE Is(q) == /\ q > Len(s) \/ ~IsDigit(s[q])
                      /\ \A i \in p .. q - 1 : i <= Len(s) /\ ~~IsDigit(s[i])
  <1>1. DigitsEnd(s, p) = CHOOSE x \in p .. p + Len(s) + 1 : Is(x)
    BY Zenon DEF DigitsEnd, FirstWhere
  <1>2. Said!DigitsEnd(s, p) = CHOOSE x \in p .. p + Len(s) + 1 : Is(x)
    BY Zenon DEF Said!DigitsEnd, Said!FirstWhere, Said!IsDigit, Said!DigitChars, Said!ToSet,
                 IsDigit, DigitChars, ToSet
  <1> QED BY <1>1, <1>2

LEMMA SaidChars == \A s, p : Said!Char(s, p) = Char(s, p)
  BY DEF Said!Char, Char

LEMMA SaidRuns ==
  ASSUME NEW s \in Line, NEW p \in Nat
  PROVE  /\ Said!Run(s, p) = Count(s, p) /\ Said!After(s, p) = Behind(s, p)
         /\ DigitsEnd(s, p) \in Nat /\ Count(s, p) \in Nat /\ Behind(s, p) \in Nat
  <1>1. DigitsEnd(s, p) \in Nat /\ DigitsEnd(s, p) >= p
    BY DigitsEndIs DEF FirstOutside
  <1>2. Said!Run(s, p) = DigitsEnd(s, p) - p
    BY SaidEnds DEF Said!Run
  <1>3. Said!After(s, p) = p + (DigitsEnd(s, p) - p) + 1
    BY <1>2 DEF Said!After
  <1> QED BY <1>1, <1>2, <1>3 DEF Count, Behind

\* The places of a time at p.
P2(s, p) == Behind(s, p)
P3(s, p) == Behind(s, P2(s, p))
P4(s, p) == Behind(s, P3(s, p))
Long(s, p) == Char(s, P3(s, p) - 1) = ":"

LEMMA SaidPlaces ==
  ASSUME NEW s \in Line, NEW p \in Nat
  PROVE  /\ P2(s, p) \in Nat /\ P3(s, p) \in Nat /\ P4(s, p) \in Nat
         /\ Said!Places(s, p) = IF Long(s, p) THEN <<p, P2(s, p), P3(s, p), P4(s, p)>>
                                              ELSE <<p, P2(s, p), P3(s, p)>>
  <1>1. P2(s, p) \in Nat /\ Said!After(s, p) = P2(s, p)
    BY SaidRuns DEF P2
  <1>2. P3(s, p) \in Nat /\ Said!After(s, P2(s, p)) = P3(s, p)
    BY <1>1, SaidRuns DEF P3
  <1>3. P4(s, p) \in Nat /\ Said!After(s, P3(s, p)) = P4(s, p)
    BY <1>2, SaidRuns DEF P4
  <1>4. Said!Places(s, p) = Said!PlacesFrom(s, p, P2(s, p), P3(s, p))
    BY <1>1, <1>2 DEF Said!Places
  <1> QED BY <1>1, <1>2, <1>3, <1>4, SaidChars DEF Said!PlacesFrom, Long

\* What makes it a time.
Two(s, p) == Count(s, p) > 0 /\ Char(s, P2(s, p) - 1) = ":" /\ Count(s, P2(s, p)) > 0

LEMMA UsableIs ==
  ASSUME NEW s \in Line, NEW p \in Nat
  PROVE  Said!Usable(s, p) <=>
           /\ Two(s, p)
           /\ IF Long(s, p)
              THEN Char(s, P4(s, p) - 1) = "." /\ Count(s, P4(s, p)) > 0
              ELSE Char(s, P3(s, p) - 1) = "." /\ Count(s, P3(s, p)) > 0
  <1> DEFINE q == P2(s, p)
             r == P3(s, p)
             f == P4(s, p)
             places == Said!Places(s, p)
             Good(i) == Said!Run(s, places[i]) > 0 \/ (i = 3 /\ Len(places) = 4)
             Apart(i) == Said!Char(s, places[i] - 1) = IF i = Len(places) THEN "." ELSE ":"
  <1>1. q \in Nat /\ r \in Nat /\ f \in Nat
        /\ places = IF Long(s, p) THEN <<p, q, r, f>> ELSE <<p, q, r>>
    BY SaidPlaces
  <1>2. Said!Usable(s, p) <=> (\A i \in DOMAIN places : Good(i)) /\ (\A i \in 2 .. Len(places) : Apart(i))
    BY Zenon DEF Said!Usable
  <1>3. /\ Said!Run(s, p) = Count(s, p) /\ Said!Run(s, q) = Count(s, q)
        /\ Said!Run(s, r) = Count(s, r) /\ Said!Run(s, f) = Count(s, f)
    BY <1>1, SaidRuns
  <1> HIDE DEF q, r, f, places
  <1>4. CASE Long(s, p)
    <2>1. places = <<p, q, r, f>>
      BY <1>1, <1>4
    <2>2. DOMAIN places = 1 .. 4 /\ Len(places) = 4 /\ places[1] = p /\ places[2] = q /\ places[3] = r /\ places[4] = f
      BY <2>1
    <2>3. (\A i \in DOMAIN places : Good(i)) <=> Count(s, p) > 0 /\ Count(s, q) > 0 /\ Count(s, f) > 0
      <3>1. (\A i \in DOMAIN places : Good(i)) <=> Good(1) /\ Good(2) /\ Good(3) /\ Good(4)
        <4> HIDE DEF Good
        <4> QED BY <2>2
      <3> QED BY <1>3, <2>2, <3>1
    <2>4. (\A i \in 2 .. Len(places) : Apart(i))
          <=> Char(s, q - 1) = ":" /\ Char(s, r - 1) = ":" /\ Char(s, f - 1) = "."
      <3>1. (\A i \in 2 .. Len(places) : Apart(i)) <=> Apart(2) /\ Apart(3) /\ Apart(4)
        <4> HIDE DEF Apart
        <4> QED BY <2>2
      <3> QED BY <2>2, <3>1, SaidChars
    <2>5. Char(s, r - 1) = ":"
      BY <1>4 DEF Long, r
    <2> HIDE DEF Good, Apart
    <2> QED BY <1>2, <1>4, <2>3, <2>4, <2>5 DEF Two, q, r, f
  <1>5. CASE ~Long(s, p)
    <2>1. places = <<p, q, r>>
      BY <1>1, <1>5
    <2>2. DOMAIN places = 1 .. 3 /\ Len(places) = 3 /\ places[1] = p /\ places[2] = q /\ places[3] = r
      BY <2>1
    <2>3. (\A i \in DOMAIN places : Good(i)) <=> Count(s, p) > 0 /\ Count(s, q) > 0 /\ Count(s, r) > 0
      <3>1. (\A i \in DOMAIN places : Good(i)) <=> Good(1) /\ Good(2) /\ Good(3)
        <4> HIDE DEF Good
        <4> QED BY <2>2
      <3> QED BY <1>3, <2>2, <3>1
    <2>4. (\A i \in 2 .. Len(places) : Apart(i)) <=> Char(s, q - 1) = ":" /\ Char(s, r - 1) = "."
      <3>1. (\A i \in 2 .. Len(places) : Apart(i)) <=> Apart(2) /\ Apart(3)
        <4> HIDE DEF Apart
        <4> QED BY <2>2
      <3> QED BY <2>2, <3>1, SaidChars
    <2> HIDE DEF Good, Apart
    <2> QED BY <1>2, <1>5, <2>3, <2>4 DEF Two, q, r, f
  <1> QED BY <1>4, <1>5

\* What is said of one with hours,
LEMMA LongIs ==
  ASSUME NEW s \in Line, NEW p \in Nat, Long(s, p)
  PROVE  LET q == P2(s, p)
             r == P3(s, p)
             f == P4(s, p)
         IN  /\ Said!TimeLength(s, p) = f + Count(s, f) - p
             /\ Said!Fields(s, p) = <<Spelt(s, p), Spelt(s, q), Spelt(s, r), Spelt(s, f)>>
             /\ Said!Strict(s, p) <=> /\ Count(s, f) = 3 /\ Count(s, r) = 2 /\ Count(s, q) = 2
                                      /\ Spelt(s, r) < Sixty /\ Spelt(s, q) < Sixty
  <1> DEFINE q == P2(s, p)
             r == P3(s, p)
             f == P4(s, p)
             places == Said!Places(s, p)
             x == Said!Fields(s, p)
  <1>1. q \in Nat /\ r \in Nat /\ f \in Nat /\ places = <<p, q, r, f>>
    BY SaidPlaces
  <1>2. /\ Said!Run(s, p) = Count(s, p) /\ Said!Run(s, q) = Count(s, q)
        /\ Said!Run(s, r) = Count(s, r) /\ Said!Run(s, f) = Count(s, f)
    BY <1>1, SaidRuns
  <1>3. Said!TimeLength(s, p) = places[Len(places)] + Said!Run(s, places[Len(places)]) - p
    BY Zenon DEF Said!TimeLength
  <1>4. x = [i \in DOMAIN places |-> Said!Spelled(s, places[i], Said!Run(s, places[i]))]
    BY Zenon DEF Said!Fields
  <1>5. Said!Strict(s, p) <=>
          /\ Said!Run(s, places[Len(places)]) = 3
          /\ \A i \in {Len(places) - 2, Len(places) - 1} : Said!Run(s, places[i]) = 2 /\ x[i] < Sixty
    BY Zenon DEF Said!Strict
  <1> HIDE DEF q, r, f, places, x
  <1>6. DOMAIN places = 1 .. 4 /\ Len(places) = 4 /\ places[1] = p /\ places[2] = q /\ places[3] = r /\ places[4] = f
    BY <1>1
  <1>7. x = <<Spelt(s, p), Spelt(s, q), Spelt(s, r), Spelt(s, f)>>
    <2> DEFINE g(i) == Said!Spelled(s, places[i], Said!Run(s, places[i]))
    <2>1. g(1) = Spelt(s, p) /\ g(2) = Spelt(s, q) /\ g(3) = Spelt(s, r) /\ g(4) = Spelt(s, f)
      BY <1>2, <1>6 DEF Spelt
    <2>2. x = [i \in 1 .. 4 |-> g(i)]
      BY <1>4, <1>6
    <2> HIDE DEF g
    <2> QED BY <2>1, <2>2
  <1>8. x[2] = Spelt(s, q) /\ x[3] = Spelt(s, r)
    BY <1>7
  <1>9. Said!TimeLength(s, p) = f + Count(s, f) - p
    BY <1>2, <1>3, <1>6
  <1>10. Said!Strict(s, p) <=> /\ Count(s, f) = 3 /\ Count(s, r) = 2 /\ Count(s, q) = 2
                               /\ Spelt(s, r) < Sixty /\ Spelt(s, q) < Sixty
    <2> DEFINE Fine(i) == Said!Run(s, places[i]) = 2 /\ x[i] < Sixty
    <2>1. (\A i \in {Len(places) - 2, Len(places) - 1} : Fine(i)) <=> Fine(2) /\ Fine(3)
      <3>1. {Len(places) - 2, Len(places) - 1} = {2, 3}
        BY <1>6
      <3> HIDE DEF Fine
      <3> QED BY <3>1
    <2> QED BY <1>2, <1>5, <1>6, <1>8, <2>1
  <1> QED BY <1>7, <1>9, <1>10 DEF x, q, r, f

\* and of one without.
LEMMA ShortIs ==
  ASSUME NEW s \in Line, NEW p \in Nat, ~Long(s, p)
  PROVE  LET q == P2(s, p)
             r == P3(s, p)
         IN  /\ Said!TimeLength(s, p) = r + Count(s, r) - p
             /\ Said!Fields(s, p) = <<Spelt(s, p), Spelt(s, q), Spelt(s, r)>>
             /\ Said!Strict(s, p) <=> /\ Count(s, r) = 3 /\ Count(s, q) = 2 /\ Count(s, p) = 2
                                      /\ Spelt(s, q) < Sixty /\ Spelt(s, p) < Sixty
  <1> DEFINE q == P2(s, p)
             r == P3(s, p)
             places == Said!Places(s, p)
             x == Said!Fields(s, p)
  <1>1. q \in Nat /\ r \in Nat /\ places = <<p, q, r>>
    BY SaidPlaces
  <1>2. /\ Said!Run(s, p) = Count(s, p) /\ Said!Run(s, q) = Count(s, q)
        /\ Said!Run(s, r) = Count(s, r)
    BY <1>1, SaidRuns
  <1>3. Said!TimeLength(s, p) = places[Len(places)] + Said!Run(s, places[Len(places)]) - p
    BY Zenon DEF Said!TimeLength
  <1>4. x = [i \in DOMAIN places |-> Said!Spelled(s, places[i], Said!Run(s, places[i]))]
    BY Zenon DEF Said!Fields
  <1>5. Said!Strict(s, p) <=>
          /\ Said!Run(s, places[Len(places)]) = 3
          /\ \A i \in {Len(places) - 2, Len(places) - 1} : Said!Run(s, places[i]) = 2 /\ x[i] < Sixty
    BY Zenon DEF Said!Strict
  <1> HIDE DEF q, r, places, x
  <1>6. DOMAIN places = 1 .. 3 /\ Len(places) = 3 /\ places[1] = p /\ places[2] = q /\ places[3] = r
    BY <1>1
  <1>7. x = <<Spelt(s, p), Spelt(s, q), Spelt(s, r)>>
    <2> DEFINE g(i) == Said!Spelled(s, places[i], Said!Run(s, places[i]))
    <2>1. g(1) = Spelt(s, p) /\ g(2) = Spelt(s, q) /\ g(3) = Spelt(s, r)
      BY <1>2, <1>6 DEF Spelt
    <2>2. x = [i \in 1 .. 3 |-> g(i)]
      BY <1>4, <1>6
    <2> HIDE DEF g
    <2> QED BY <2>1, <2>2
  <1>8. x[1] = Spelt(s, p) /\ x[2] = Spelt(s, q)
    BY <1>7
  <1>9. Said!TimeLength(s, p) = r + Count(s, r) - p
    BY <1>2, <1>3, <1>6
  <1>10. Said!Strict(s, p) <=> /\ Count(s, r) = 3 /\ Count(s, q) = 2 /\ Count(s, p) = 2
                               /\ Spelt(s, q) < Sixty /\ Spelt(s, p) < Sixty
    <2> DEFINE Fine(i) == Said!Run(s, places[i]) = 2 /\ x[i] < Sixty
    <2>1. (\A i \in {Len(places) - 2, Len(places) - 1} : Fine(i)) <=> Fine(1) /\ Fine(2)
      <3>1. {Len(places) - 2, Len(places) - 1} = {1, 2}
        BY <1>6
      <3> HIDE DEF Fine
      <3> QED BY <3>1
    <2> QED BY <1>2, <1>5, <1>6, <1>8, <2>1
  <1> QED BY <1>7, <1>9, <1>10 DEF x, q, r

\* The time as four fields, of which there may be no hours.
FieldsAt(s, p) ==
  IF Long(s, p) THEN <<Spelt(s, p), Spelt(s, P2(s, p)), Spelt(s, P3(s, p)), Spelt(s, P4(s, p))>>
                ELSE <<0, Spelt(s, p), Spelt(s, P2(s, p)), Spelt(s, P3(s, p))>>
Sum(x) == ((x[1] * Sixty + x[2]) * Sixty + x[3]) * Thousand + x[4]

LEMMA ValueIs ==
  ASSUME NEW s \in Line, NEW p \in Nat, Said!TimeFits(s, p)
  PROVE  /\ Said!TimeValue(s, p) = Sum(FieldsAt(s, p)) /\ Sum(FieldsAt(s, p)) < Half
         /\ Spelt(s, p) < Half /\ Spelt(s, P2(s, p)) < Half /\ Spelt(s, P3(s, p)) < Half
         /\ Long(s, p) => Spelt(s, P4(s, p)) < Half
  <1> DEFINE x == Said!Fields(s, p)
             y == FieldsAt(s, p)
             hours == IF Len(x) = 4 THEN x[1] ELSE 0
  <1>1. Said!TimeValue(s, p) = ((hours * Sixty + x[Len(x) - 2]) * Sixty + x[Len(x) - 1]) * Thousand + x[Len(x)]
    BY Zenon DEF Said!TimeValue
  <1>2. (\A i \in DOMAIN x : x[i] < Half) /\ Said!TimeValue(s, p) < Half
    BY DEF Said!TimeFits, Said!ToSet, Half
  <1>3. CASE Long(s, p)
    <2>1. x = <<Spelt(s, p), Spelt(s, P2(s, p)), Spelt(s, P3(s, p)), Spelt(s, P4(s, p))>> /\ y = x
      BY <1>3, LongIs DEF FieldsAt
    <2> HIDE DEF x, y
    <2>2. DOMAIN x = 1 .. 4 /\ Len(x) = 4
      BY <2>1
    <2>3. Said!TimeValue(s, p) = ((x[1] * Sixty + x[2]) * Sixty + x[3]) * Thousand + x[4]
      BY <1>1, <2>2
    <2>4. x[1] < Half /\ x[2] < Half /\ x[3] < Half /\ x[4] < Half
      BY <1>2, <2>2
    <2>5. x[1] = Spelt(s, p) /\ x[2] = Spelt(s, P2(s, p)) /\ x[3] = Spelt(s, P3(s, p)) /\ x[4] = Spelt(s, P4(s, p))
      BY <2>1
    <2>6. Said!TimeValue(s, p) = Sum(y)
      BY <2>1, <2>3, Zenon DEF Sum
    <2> QED BY <1>2, <2>4, <2>5, <2>6 DEF y
  <1>4. CASE ~Long(s, p)
    <2>1. x = <<Spelt(s, p), Spelt(s, P2(s, p)), Spelt(s, P3(s, p))>>
      BY <1>4, ShortIs
    <2>2. y = <<0, Spelt(s, p), Spelt(s, P2(s, p)), Spelt(s, P3(s, p))>>
      BY <1>4 DEF FieldsAt
    <2> HIDE DEF x, y
    <2>3. DOMAIN x = 1 .. 3 /\ Len(x) = 3
      BY <2>1
    <2>4. Said!TimeValue(s, p) = ((0 * Sixty + x[1]) * Sixty + x[2]) * Thousand + x[3]
      BY <1>1, <2>3
    <2>5. x[1] < Half /\ x[2] < Half /\ x[3] < Half
      BY <1>2, <2>3
    <2>6. x[1] = Spelt(s, p) /\ x[2] = Spelt(s, P2(s, p)) /\ x[3] = Spelt(s, P3(s, p))
      BY <2>1
    <2>7. y[1] = 0 /\ y[2] = x[1] /\ y[3] = x[2] /\ y[4] = x[3]
      BY <2>2, <2>6
    <2>8. Said!TimeValue(s, p) = Sum(y)
      BY <2>4, <2>7, Zenon DEF Sum
    <2> QED BY <1>2, <1>4, <2>5, <2>6, <2>8 DEF y
  <1> QED BY <1>3, <1>4

\* What k digits from place p on spell, one after the other.
IsSpelled(f, s, p, k) ==
  f = [i \in 0 .. k |-> IF i = 0 THEN 0 ELSE f[i - 1] * Base + DigitValue(s[p + i - 1])]

LEMMA SpelledExists ==
  ASSUME NEW s, NEW p, NEW N \in Nat
  PROVE  \E f : IsSpelled(f, s, p, N)
  <1> DEFINE Bad == {K \in Nat : ~\E f : IsSpelled(f, s, p, K)}
  <1>1. SUFFICES ASSUME Bad # {} PROVE FALSE
    OBVIOUS
  <1>2. PICK K \in Bad : \A m \in Bad : K <= m
    BY <1>1, Least
  <1>3. CASE K = 0
    <2> DEFINE f == [i \in 0 .. 0 |-> 0]
    <2>1. f = [i \in 0 .. 0 |-> IF i = 0 THEN 0 ELSE f[i - 1] * Base + DigitValue(s[p + i - 1])]
      OBVIOUS
    <2> HIDE DEF f
    <2> QED BY <2>1, <1>2, <1>3 DEF IsSpelled
  <1>4. CASE K # 0
    <2>1. K \in Nat /\ K - 1 \in Nat /\ K - 1 \notin Bad
      BY <1>2, <1>4
    <2> DEFINE e == K - 1
    <2>2. PICK g : IsSpelled(g, s, p, e)
      BY <2>1
    <2>3. \A i \in 0 .. e : g[i] = IF i = 0 THEN 0 ELSE g[i - 1] * Base + DigitValue(s[p + i - 1])
      BY <2>2 DEF IsSpelled
    <2>4. e \in Nat /\ K = e + 1
      BY <2>1
    <2> HIDE DEF e
    <2> DEFINE last == g[e] * Base + DigitValue(s[p + (e + 1) - 1])
               f == [i \in 0 .. e + 1 |-> IF i = e + 1 THEN last ELSE g[i]]
    <2>5. ASSUME NEW i \in 0 .. e + 1
          PROVE  f[i] = IF i = 0 THEN 0 ELSE f[i - 1] * Base + DigitValue(s[p + i - 1])
      <3>1. i # 0 => i - 1 \in 0 .. e + 1 /\ i - 1 # e + 1 /\ f[i - 1] = g[i - 1]
        BY <2>4
      <3>2. CASE i = e + 1
        <4>1. i # 0 /\ i - 1 = e /\ f[i] = last
          BY <3>2, <2>4
        <4> HIDE DEF f
        <4> QED BY <4>1, <3>1, <3>2
      <3>3. CASE i # e + 1
        <4>1. i \in 0 .. e /\ f[i] = g[i]
          BY <3>3, <2>4
        <4> HIDE DEF f
        <4> QED BY <4>1, <3>1, <2>3
      <3> QED BY <3>2, <3>3
    <2>6. f = [i \in 0 .. e + 1 |-> f[i]]
      OBVIOUS
    <2> HIDE DEF f
    <2>7. IsSpelled(f, s, p, e + 1)
      BY <2>5, <2>6, Zenon DEF IsSpelled
    <2> QED BY <2>4, <2>7, <1>2
  <1> QED BY <1>3, <1>4

LEMMA SpelledIs ==
  ASSUME NEW s, NEW p, NEW k \in Nat
  PROVE  \E f : IsSpelled(f, s, p, k) /\ Said!Spelled(s, p, k) = f[k]
  <1> DEFINE f == CHOOSE g : IsSpelled(g, s, p, k)
  <1>1. IsSpelled(f, s, p, k)
    BY SpelledExists
  <1>2. Said!Spelled(s, p, k) = f[k]
    BY Zenon DEF Said!Spelled, IsSpelled, Said!Base, Said!DigitValue, Base, DigitValue
  <1> QED BY <1>1, <1>2

\* The digits from p on are k, and d are their values.
DigitsThere(s, p, k) == \A i \in 1 .. k : DigitValue(s[p + i - 1]) \in 0 .. Base - 1

LEMMA RunIs ==
  ASSUME NEW s \in Line, NEW p \in Nat
  PROVE  DigitsThere(s, p, Count(s, p))
  <1>1. FirstOutside(s, p, DigitsEnd(s, p), DigitChars)
    BY DigitsEndIs
  <1>2. ASSUME NEW i \in 1 .. Count(s, p) PROVE DigitValue(s[p + i - 1]) \in 0 .. Base - 1
    <2>1. p + i - 1 \in p .. DigitsEnd(s, p) - 1
      BY <1>1 DEF Count, FirstOutside
    <2>2. s[p + i - 1] \in DigitChars
      BY <1>1, <2>1 DEF FirstOutside
    <2> QED BY <2>2, DigitIn
  <1> QED BY <1>2 DEF DigitsThere

\* It never gets less.
LEMMA Grows ==
  ASSUME NEW x \in Nat, NEW y \in 0 .. Base - 1
  PROVE  x * Base + y \in Nat /\ x * Base + y >= x
  <1>1. x * Base \in Nat /\ x * Base >= x
    BY BaseIs
  <1>2. y \in Nat
    BY BaseIs
  <1> DEFINE z == x * Base
  <1> HIDE DEF z
  <1> QED BY <1>1, <1>2 DEF z

LEMMA SpelledGrows ==
  ASSUME NEW s, NEW p, NEW k \in Nat, NEW f, IsSpelled(f, s, p, k), DigitsThere(s, p, k)
  PROVE  /\ f[0] = 0 /\ \A i \in 0 .. k : f[i] \in Nat
         /\ \A i \in 1 .. k : f[i] = f[i - 1] * Base + DigitValue(s[p + i - 1]) /\ f[i] >= f[i - 1]
  <1>1. \A i \in 0 .. k : f[i] = IF i = 0 THEN 0 ELSE f[i - 1] * Base + DigitValue(s[p + i - 1])
    BY DEF IsSpelled
  <1>2. f[0] = 0
    BY <1>1
  <1>3. \A i \in 0 .. k : f[i] \in Nat
    <2> DEFINE Bad == {i \in 0 .. k : f[i] \notin Nat}
    <2>1. SUFFICES ASSUME Bad # {} PROVE FALSE
      OBVIOUS
    <2>2. Bad \in SUBSET Nat
      OBVIOUS
    <2> HIDE DEF Bad
    <2>3. PICK i \in Bad : \A j \in Bad : i <= j
      BY <2>1, <2>2, Least
    <2>4. i \in 0 .. k /\ f[i] \notin Nat /\ i # 0
      BY <2>3, <1>2 DEF Bad
    <2>5. i - 1 \in 0 .. k /\ ~(i <= i - 1) /\ i \in 1 .. k
      BY <2>4
    <2>6. f[i - 1] \in Nat
      BY <2>3, <2>5 DEF Bad
    <2>7. f[i] = f[i - 1] * Base + DigitValue(s[p + i - 1])
      BY <1>1, <2>4
    <2>8. DigitValue(s[p + i - 1]) \in 0 .. Base - 1
      BY <2>5 DEF DigitsThere
    <2> QED BY <2>4, <2>6, <2>7, <2>8, Grows
  <1>4. ASSUME NEW i \in 1 .. k
        PROVE  f[i] = f[i - 1] * Base + DigitValue(s[p + i - 1]) /\ f[i] >= f[i - 1]
    <2>1. i \in 0 .. k /\ i - 1 \in 0 .. k /\ i # 0
      OBVIOUS
    <2>2. f[i] = f[i - 1] * Base + DigitValue(s[p + i - 1])
      BY <1>1, <2>1
    <2>3. DigitValue(s[p + i - 1]) \in 0 .. Base - 1
      BY DEF DigitsThere
    <2> QED BY <1>3, <2>1, <2>2, <2>3, Grows
  <1> QED BY <1>2, <1>3, <1>4

\* So what is below the half of a word at the end is so all the way, and is what the
\* routine comes to.
LEMMA SpeltIs ==
  ASSUME NEW s \in Line, NEW p \in Nat
  PROVE  Spelt(s, p) \in Nat /\ (Spelt(s, p) < Half => Worth(s, p) = Spelt(s, p))
  <1> DEFINE k == Count(s, p)
             e == DigitsEnd(s, p)
  <1>1. k \in Nat /\ e = p + k /\ e \in Nat /\ e >= p
    BY SaidRuns DEF Count
  <1>2. DigitsThere(s, p, k)
    BY RunIs
  <1> HIDE DEF k, e
  <1>3. PICK f : IsSpelled(f, s, p, k) /\ Said!Spelled(s, p, k) = f[k]
    BY <1>1, SpelledIs
  <1>4. /\ f[0] = 0 /\ \A i \in 0 .. k : f[i] \in Nat
        /\ \A i \in 1 .. k : f[i] = f[i - 1] * Base + DigitValue(s[p + i - 1]) /\ f[i] >= f[i - 1]
    BY <1>1, <1>2, <1>3, SpelledGrows
  <1>5. Spelt(s, p) = f[k]
    BY <1>3 DEF Spelt, k
  <1>6. ASSUME f[k] < Half PROVE Worth(s, p) = f[k]
    <2>1. PICK g : IsAcc(g, s, p, e, Word) /\ Accumulate(s, p, e, Word) = g[e]
      BY <1>1, AccumulateIs
    <2>2. \A i \in p .. e : g[i] = IF i = p THEN 0 ELSE Signed(g[i - 1] * Base + DigitValue(s[i - 1]), Word)
      BY <2>1 DEF IsAcc
    <2>3. \A i \in 0 .. k : f[i] < Half
      <3> DEFINE Bad == {j \in 0 .. k : ~(f[k - j] < Half)}
      <3>1. SUFFICES ASSUME Bad # {} PROVE FALSE
        <4> SUFFICES ASSUME Bad = {}, NEW i \in 0 .. k PROVE f[i] < Half
          OBVIOUS
        <4>1. k - i \in 0 .. k /\ k - (k - i) = i
          BY <1>1
        <4>2. k - i \notin Bad
          OBVIOUS
        <4> QED BY <4>1, <4>2
      <3>2. Bad \in SUBSET Nat
        BY <1>1
      <3> HIDE DEF Bad
      <3>3. PICK j \in Bad : \A m \in Bad : j <= m
        BY <3>1, <3>2, Least
      <3>4. j \in 0 .. k /\ ~(f[k - j] < Half) /\ j # 0
        BY <3>3, <1>1, <1>6 DEF Bad
      <3>5. j - 1 \in 0 .. k /\ ~(j <= j - 1) /\ k - j \in 0 .. k /\ k - (j - 1) \in 1 .. k
            /\ k - (j - 1) - 1 = k - j /\ k - (j - 1) \in 0 .. k
        BY <3>4, <1>1
      <3>6. f[k - (j - 1)] < Half
        BY <3>3, <3>5 DEF Bad
      <3>7. f[k - (j - 1)] >= f[k - j] /\ f[k - j] \in Nat /\ f[k - (j - 1)] \in Nat
        BY <3>5, <1>4
      <3> QED BY <3>4, <3>6, <3>7, WordIs
    <2>4. \A i \in 0 .. k : g[p + i] = f[i]
      <3> DEFINE Bad == {i \in 0 .. k : g[p + i] # f[i]}
      <3>1. SUFFICES ASSUME Bad # {} PROVE FALSE
        OBVIOUS
      <3>2. Bad \in SUBSET Nat
        BY <1>1
      <3> HIDE DEF Bad
      <3>3. PICK i \in Bad : \A j \in Bad : i <= j
        BY <3>1, <3>2, Least
      <3>4. i \in 0 .. k /\ g[p + i] # f[i]
        BY <3>3 DEF Bad
      <3>5. p + i \in p .. e
        BY <3>4, <1>1
      <3>6. i # 0
        BY <3>4, <3>5, <2>2, <1>4
      <3>7. i - 1 \in 0 .. k /\ i \in 1 .. k /\ ~(i <= i - 1) /\ p + i # p /\ (p + i) - 1 = p + (i - 1)
            /\ p + i - 1 = p + (i - 1)
        BY <1>1, <3>4, <3>6
      <3>8. g[p + (i - 1)] = f[i - 1]
        BY <3>3, <3>7 DEF Bad
      <3>9. g[p + i] = Signed(g[p + (i - 1)] * Base + DigitValue(s[p + (i - 1)]), Word)
        BY <2>2, <3>5, <3>7
      <3>10. f[i] = f[i - 1] * Base + DigitValue(s[p + (i - 1)])
        BY <1>4, <3>7
      <3>11. f[i] \in Wide
        BY <1>4, <2>3, <3>4, WordIs DEF Wide
      <3> QED BY <3>4, <3>8, <3>9, <3>10, <3>11, SignedSame
    <2>5. g[e] = f[k]
      BY <2>4, <1>1
    <2> QED BY <2>1, <2>5 DEF Worth, e
  <1> QED BY <1>1, <1>4, <1>5, <1>6

\* Three digits spell less than a thousand.
LEMMA ThreeDigits ==
  ASSUME NEW s \in Line, NEW p \in Nat, Count(s, p) = 3
  PROVE  Spelt(s, p) < Thousand
  <1>1. DigitsThere(s, p, 3)
    BY RunIs
  <1>2. PICK f : IsSpelled(f, s, p, 3) /\ Said!Spelled(s, p, 3) = f[3]
    BY SpelledIs
  <1>3. /\ f[0] = 0 /\ \A i \in 0 .. 3 : f[i] \in Nat
        /\ \A i \in 1 .. 3 : f[i] = f[i - 1] * Base + DigitValue(s[p + i - 1]) /\ f[i] >= f[i - 1]
    BY <1>1, <1>2, SpelledGrows
  <1> DEFINE x == DigitValue(s[p + 1 - 1])
             y == DigitValue(s[p + 2 - 1])
             z == DigitValue(s[p + 3 - 1])
  <1>4. x \in 0 .. Base - 1 /\ y \in 0 .. Base - 1 /\ z \in 0 .. Base - 1
    BY <1>1 DEF DigitsThere
  <1>5. f[1] = f[0] * Base + x /\ f[2] = f[1] * Base + y /\ f[3] = f[2] * Base + z
    <2>1. 1 \in 1 .. 3 /\ 2 \in 1 .. 3 /\ 3 \in 1 .. 3 /\ 1 - 1 = 0 /\ 2 - 1 = 1 /\ 3 - 1 = 2
      OBVIOUS
    <2> QED BY <1>3, <2>1
  <1> HIDE DEF x, y, z
  <1>6. f[1] = x /\ f[1] <= Base - 1
    BY <1>3, <1>4, <1>5, BaseIs
  <1>7. ASSUME NEW m \in Nat, NEW M \in Nat, m <= M - 1, NEW w \in 0 .. Base - 1
        PROVE  m * Base + w <= M * Base - 1
    <2>1. m * Base <= (M - 1) * Base /\ (M - 1) * Base = M * Base - Base
      BY <1>7, BaseIs
    <2>2. m * Base \in Nat /\ M * Base \in Nat
      BY BaseIs
    <2> DEFINE a == m * Base
               c == M * Base
    <2> HIDE DEF a, c
    <2> QED BY <2>1, <2>2, BaseIs DEF a, c
  <1>8. f[1] \in Nat /\ f[2] \in Nat /\ f[3] \in Nat /\ Base \in Nat /\ Base * Base \in Nat
    BY <1>3, BaseIs
  <1>9. f[2] <= Base * Base - 1
    BY <1>4, <1>5, <1>6, <1>7, <1>8
  <1>10. f[3] <= Base * Base * Base - 1
    BY <1>4, <1>5, <1>7, <1>8, <1>9
  <1> QED BY <1>2, <1>8, <1>10, UnitsAssumption, UnitsAre DEF Spelt

-----------------------------------------------------------------------------
(* Carrying over.                                                          *)

LEMMA Divided ==
  ASSUME NEW x \in Nat, NEW L \in Nat \ {0}
  PROVE  /\ x \div L \in Nat /\ x % L \in 0 .. L - 1 /\ x = (x \div L) * L + (x % L)
         /\ x \div L <= x /\ (x < L => x \div L = 0 /\ x % L = x) /\ x % L <= x
  <1>1. x \div L \in Nat /\ x % L \in 0 .. L - 1 /\ x = (x \div L) * L + (x % L)
    OBVIOUS
  <1> DEFINE quot == x \div L
             m == x % L
             y == quot * L
  <1>2. quot \in Nat /\ m \in 0 .. L - 1 /\ x = y + m
    BY <1>1
  <1> HIDE DEF quot, m
  <1>3. y \in Nat /\ quot <= y /\ (quot # 0 => y >= L)
    BY <1>2
  <1> HIDE DEF y
  <1>4. quot <= x /\ m <= x /\ (x < L => quot = 0)
    BY <1>2, <1>3
  <1>5. x < L => quot = 0 /\ m = x
    BY <1>2, <1>4 DEF y
  <1> QED BY <1>1, <1>4, <1>5 DEF quot, m

\* It does not change the sum.
LEMMA Carried ==
  ASSUME NEW a \in Nat, NEW x \in Nat, NEW L \in Nat \ {0}
  PROVE  /\ (a + (x \div L)) * L + (x % L) = a * L + x
         /\ a + (x \div L) \in Nat /\ a + (x \div L) <= a * L + x
         /\ a * L + x \in Nat /\ x <= a * L + x
  <1> DEFINE quot == x \div L
             m == x % L
  <1>1. quot \in Nat /\ m \in 0 .. L - 1 /\ x = quot * L + m
    BY Divided
  <1> HIDE DEF quot, m
  <1>2. (a + quot) * L = a * L + quot * L
    BY <1>1
  <1>3. a * L \in Nat /\ quot * L \in Nat /\ a * L >= a /\ quot * L >= quot
    BY <1>1
  <1> DEFINE y == a * L
             z == quot * L
  <1> HIDE DEF y, z
  <1>4. (a + quot) * L + m = y + x /\ a + quot \in Nat /\ a + quot <= y + x /\ y + x \in Nat /\ x <= y + x
    BY <1>1, <1>2, <1>3 DEF y, z
  <1> QED BY <1>4 DEF quot, m, y

LEMMA CarryIs ==
  ASSUME NEW f \in [1 .. 4 -> Wide], NEW i \in 2 .. 4, NEW L \in Nat \ {0},
         f[i] >= 0, f[i - 1] >= 0, f[i - 1] + (f[i] \div L) < Half
  PROVE  LET g == CarryOver(f, i, L) IN
         /\ g \in [1 .. 4 -> Wide]
         /\ g[i - 1] = f[i - 1] + (f[i] \div L) /\ g[i] = f[i] % L
         /\ \A j \in 1 .. 4 \ {i - 1, i} : g[j] = f[j]
  <1> DEFINE g == CarryOver(f, i, L)
             x == f[i]
             y == f[i - 1]
  <1>1. i - 1 \in 1 .. 4 /\ i \in 1 .. 4 /\ i - 1 # i
    OBVIOUS
  <1>2. x \in Nat /\ y \in Nat /\ x \in Wide /\ y \in Wide
    BY <1>1, WordIs DEF Wide
  <1>3. g \in [1 .. 4 -> Wide]
    BY CarryKeeps
  <1>4. CASE ~Over(f, i, L)
    <2>1. g = f
      BY <1>4 DEF CarryOver
    <2>2. x < L
      BY <1>2, <1>4 DEF Over
    <2> HIDE DEF x, y
    <2>3. x \div L = 0 /\ x % L = x
      BY <1>2, <2>2, Divided
    <2>4. y + (x \div L) = y
      BY <1>2, <2>3
    <2> QED BY <1>3, <2>1, <2>3, <2>4 DEF x, y
  <1>5. CASE Over(f, i, L)
    <2> DEFINE z == y + (x \div L)
    <2>1. x \div L \in Nat
      BY <1>2, Divided
    <2>2. z \in Wide
      <3> HIDE DEF x, y
      <3>1. z \in Nat
        BY <1>2, <2>1
      <3>2. z < Half
        BY DEF x, y
      <3> HIDE DEF z
      <3> QED BY <3>1, <3>2, WordIs DEF Wide
    <2>3. Signed(z, Word) = z
      BY <2>2, SignedSame
    <2>4. g = [f EXCEPT ![i - 1] = Signed(z, Word), ![i] = x % L]
      BY <1>5 DEF CarryOver
    <2> HIDE DEF z
    <2>5. g[i - 1] = z /\ g[i] = x % L /\ \A j \in 1 .. 4 \ {i - 1, i} : g[j] = f[j]
      BY <1>1, <2>3, <2>4
    <2> QED BY <1>3, <2>5 DEF z
  <1> QED BY <1>4, <1>5

\* The milliseconds of fields that are small enough are their sum.
LEMMA MillisecondsAre ==
  ASSUME NEW h \in Nat, NEW m \in Nat, NEW s \in Nat, NEW t \in Nat, NEW f,
         f[1] = h, f[2] = m, f[3] = s, f[4] = t,
         ((h * Sixty + m) * Sixty + s) * Thousand + t < Half
  PROVE  Milliseconds(f) = ((h * Sixty + m) * Sixty + s) * Thousand + t
  <1> DEFINE S == Sixty
             T == Thousand
             sum == ((h * S + m) * S + s) * T + t
  <1>1. S \in Nat /\ T \in Nat
    BY UnitsAre
  <1>2. Milliseconds(f) = (h * (S * S * T) + m * (S * T) + s * T + t) % Word
    BY DEF Milliseconds, Unsigned, MsPerHour, MsPerMinute, MsPerSecond
  <1> HIDE DEF S, T
  <1>3. h * (S * S * T) + m * (S * T) + s * T + t = sum
    <2>1. \A a, c, e \in Nat : (a + c) * e = a * e + c * e /\ a * c \in Nat /\ a * (c * e) = (a * c) * e
      OBVIOUS
    <2>2. h * S \in Nat /\ (h * S) * S \in Nat /\ m * S \in Nat /\ h * S + m \in Nat /\ (h * S + m) * S \in Nat
      BY <1>1, <2>1
    <2>3. (h * S + m) * S = (h * S) * S + m * S
      BY <1>1, <2>1, <2>2
    <2>4. ((h * S + m) * S + s) * T = ((h * S + m) * S) * T + s * T
      BY <1>1, <2>1, <2>2
    <2>5. ((h * S) * S + m * S) * T = ((h * S) * S) * T + (m * S) * T
      BY <1>1, <2>1, <2>2
    <2>6. ((h * S) * S) * T = h * (S * S * T)
      BY <1>1, <2>1, <2>2
    <2>7. (m * S) * T = m * (S * T)
      BY <1>1, <2>1
    <2> QED BY <2>3, <2>4, <2>5, <2>6, <2>7
  <1>4. sum \in Nat /\ sum < Half
    <2>1. h * S + m \in Nat
      BY <1>1
    <2>2. (h * S + m) * S + s \in Nat
      BY <1>1, <2>1
    <2> QED BY <1>1, <2>2 DEF S, T
  <1> HIDE DEF sum
  <1>5. sum % Word = sum
    BY <1>4, WordIs
  <1> QED BY <1>2, <1>3, <1>5 DEF sum, S, T

\* Carrying over keeps the time, and changes the fields just when one is too large.
LEMMA CarriesKeep ==
  ASSUME NEW f \in [1 .. 4 -> Wide], \A i \in 1 .. 4 : f[i] >= 0, Sum(f) < Half
  PROVE  LET g == CarryOver(CarryOver(CarryOver(f, 4, Thousand), 3, Sixty), 2, Sixty) IN
         /\ Milliseconds(g) = Sum(f)
         /\ g # f <=> f[4] >= Thousand \/ f[3] >= Sixty \/ f[2] >= Sixty
  <1> DEFINE S == Sixty
             T == Thousand
             h == f[1]
             m == f[2]
             s == f[3]
             t == f[4]
             s1 == s + (t \div T)
             m1 == m + (s1 \div S)
             h1 == h + (m1 \div S)
             A == h * S + m
             A1 == h * S + m1
             B == A * S + s
             B1 == A * S + s1
             total == B * T + t
  <1>1. S \in Nat \ {0} /\ T \in Nat \ {0}
    BY UnitsAre
  <1>2. h \in Nat /\ m \in Nat /\ s \in Nat /\ t \in Nat
    BY WordIs DEF Wide
  <1>3. total < Half
    BY DEF Sum
  <1> HIDE DEF S, T, h, m, s, t
  <1>4. A \in Nat
    BY <1>1, <1>2
  <1> HIDE DEF A
  <1>5. B \in Nat /\ s <= B
    BY <1>1, <1>2, <1>4, Carried
  <1>6. t \div T \in Nat /\ s1 \in Nat
    BY <1>1, <1>2, Divided
  <1>7. B1 = B + (t \div T) /\ B1 \in Nat /\ s1 <= B1 /\ B1 <= total /\ B1 * T + (t % T) = total
    <2>1. B1 = B + (t \div T)
      <3> DEFINE y == A * S
                 z == t \div T
      <3>1. y \in Nat /\ z \in Nat
        BY <1>1, <1>4, <1>6
      <3> HIDE DEF y, z
      <3> QED BY <1>2, <3>1 DEF y, z
    <2>2. B1 \in Nat /\ s1 <= B1
      BY <1>1, <1>4, <1>6, Carried
    <2> HIDE DEF B, B1
    <2> QED BY <1>1, <1>2, <1>5, <2>1, <2>2, Carried
  <1> HIDE DEF B, s1
  <1>8. s1 \div S \in Nat /\ m1 \in Nat
    BY <1>1, <1>2, <1>6, Divided
  <1>9. A1 = A + (s1 \div S) /\ A1 \in Nat /\ m1 <= A1 /\ A1 <= B1 /\ A1 * S + (s1 % S) = B1
    <2>1. A1 = A + (s1 \div S)
      <3> DEFINE y == h * S
                 z == s1 \div S
      <3>1. y \in Nat /\ z \in Nat
        BY <1>1, <1>2, <1>8
      <3> HIDE DEF y, z
      <3> QED BY <1>2, <3>1 DEF A, y, z
    <2>2. A1 \in Nat /\ m1 <= A1
      BY <1>1, <1>2, <1>8, Carried
    <2> HIDE DEF A1
    <2> QED BY <1>1, <1>4, <1>6, <2>1, <2>2, Carried
  <1> HIDE DEF m1
  <1>10. h1 \in Nat /\ h1 <= A1 /\ h1 * S + (m1 % S) = A1
    BY <1>1, <1>2, <1>8, Carried
  <1> HIDE DEF A1, B1, h1, total
  <1>11. total \in Nat
    BY <1>1, <1>2, <1>5, Carried DEF total
  <1>12. s1 < Half /\ m1 < Half /\ h1 < Half
    BY <1>3, <1>6, <1>7, <1>8, <1>9, <1>10, <1>11, WordIs
  <1> DEFINE f1 == CarryOver(f, 4, T)
             f2 == CarryOver(f1, 3, S)
             g == CarryOver(f2, 2, S)
  <1>13. f1 \in [1 .. 4 -> Wide] /\ f1[1] = h /\ f1[2] = m /\ f1[3] = s1 /\ f1[4] = t % T
    <2>1. f[4] >= 0 /\ f[4 - 1] >= 0 /\ f[4 - 1] + (f[4] \div T) < Half
      BY <1>2, <1>12 DEF s1, s, t
    <2>2. /\ f1 \in [1 .. 4 -> Wide] /\ f1[4 - 1] = f[4 - 1] + (f[4] \div T) /\ f1[4] = f[4] % T
          /\ \A j \in 1 .. 4 \ {4 - 1, 4} : f1[j] = f[j]
      <3> HIDE DEF f1
      <3> QED BY <1>1, <2>1, CarryIs DEF f1
    <2> HIDE DEF f1
    <2> QED BY <2>2 DEF h, m, s1, s, t
  <1> HIDE DEF f1
  <1>14. f2 \in [1 .. 4 -> Wide] /\ f2[1] = h /\ f2[2] = m1 /\ f2[3] = s1 % S /\ f2[4] = t % T
    <2>1. f1[3] >= 0 /\ f1[3 - 1] >= 0 /\ f1[3 - 1] + (f1[3] \div S) < Half
      BY <1>2, <1>6, <1>12, <1>13 DEF m1
    <2>2. /\ f2 \in [1 .. 4 -> Wide] /\ f2[3 - 1] = f1[3 - 1] + (f1[3] \div S) /\ f2[3] = f1[3] % S
          /\ \A j \in 1 .. 4 \ {3 - 1, 3} : f2[j] = f1[j]
      <3> HIDE DEF f2
      <3> QED BY <1>1, <1>13, <2>1, CarryIs DEF f2
    <2> HIDE DEF f2
    <2> QED BY <1>13, <2>2 DEF m1
  <1> HIDE DEF f2
  <1>15. g[1] = h1 /\ g[2] = m1 % S /\ g[3] = s1 % S /\ g[4] = t % T /\ g \in [1 .. 4 -> Wide]
    <2>1. f2[2] >= 0 /\ f2[2 - 1] >= 0 /\ f2[2 - 1] + (f2[2] \div S) < Half
      BY <1>2, <1>8, <1>12, <1>14 DEF h1
    <2>2. /\ g \in [1 .. 4 -> Wide] /\ g[2 - 1] = f2[2 - 1] + (f2[2] \div S) /\ g[2] = f2[2] % S
          /\ \A j \in 1 .. 4 \ {2 - 1, 2} : g[j] = f2[j]
      <3> HIDE DEF g
      <3> QED BY <1>1, <1>14, <2>1, CarryIs DEF g
    <2> HIDE DEF g
    <2> QED BY <1>14, <2>2 DEF h1
  <1> HIDE DEF g
  <1>16. t % T \in Nat /\ s1 % S \in Nat /\ m1 % S \in Nat
    BY <1>1, <1>2, <1>6, <1>8, Divided
  <1> DEFINE x == t % T
             y == s1 % S
             z == m1 % S
  <1>17. Milliseconds(g) = total
    <2> HIDE DEF x, y, z
    <2>1. ((h1 * S + z) * S + y) * T + x = total
      BY <1>7, <1>9, <1>10 DEF x, y, z
    <2>2. ((h1 * Sixty + z) * Sixty + y) * Thousand + x = total
      BY <2>1 DEF S, T
    <2>3. g[1] = h1 /\ g[2] = z /\ g[3] = y /\ g[4] = x /\ x \in Nat /\ y \in Nat /\ z \in Nat
      BY <1>15, <1>16 DEF x, y, z
    <2> QED BY ONLY <1>3, <1>10, <2>2, <2>3, MillisecondsAre
  <1>18. total = Sum(f)
    BY DEF Sum, total, B, A, h, m, s, t, S, T
  <1>19. g # f <=> t >= T \/ s >= S \/ m >= S
    <2>1. ASSUME t >= T PROVE g # f
      <3>1. t % T < T
        BY <1>1, <1>2, Divided
      <3> QED BY <1>1, <1>2, <1>15, <1>16, <2>1, <3>1 DEF t
    <2>2. ASSUME s >= S PROVE g # f
      <3>1. s1 % S < S
        BY <1>1, <1>6, Divided
      <3> QED BY <1>1, <1>2, <1>15, <1>16, <2>2, <3>1 DEF s
    <2>3. ASSUME m >= S PROVE g # f
      <3>1. m1 % S < S
        BY <1>1, <1>8, Divided
      <3> QED BY <1>1, <1>2, <1>15, <1>16, <2>3, <3>1 DEF m
    <2>4. ASSUME t < T, s < S, m < S PROVE g = f
      <3>1. t % T = t /\ t \div T = 0
        BY <1>1, <1>2, <2>4, Divided
      <3>2. s1 = s
        BY <1>2, <3>1 DEF s1
      <3>3. s1 % S = s /\ s1 \div S = 0
        BY <1>1, <1>2, <2>4, <3>2, Divided
      <3>4. m1 = m
        BY <1>2, <3>3 DEF m1
      <3>5. m1 % S = m /\ m1 \div S = 0
        BY <1>1, <1>2, <2>4, <3>4, Divided
      <3>6. h1 = h
        BY <1>2, <3>5 DEF h1
      <3>7. g[1] = f[1] /\ g[2] = f[2] /\ g[3] = f[3] /\ g[4] = f[4]
        BY <1>15, <3>1, <3>3, <3>5, <3>6 DEF h, m, s, t
      <3>8. \A i \in 1 .. 4 : g[i] = f[i]
        BY <3>7
      <3> QED BY <1>15, <3>8
    <2> QED BY <1>1, <1>2, <2>1, <2>2, <2>3, <2>4
  <1> QED BY <1>17, <1>18, <1>19 DEF g, f2, f1, S, T, m, s, t

-----------------------------------------------------------------------------
(* What webvtt_parse_timestamp has found.                                  *)

\* A number that is read, and one that is not there.
LEMMA ReadThere ==
  ASSUME NEW s \in Line, NEW p \in Nat \ {0}, IsDigit(Char(s, p))
  PROVE  /\ ParseInt(s, p).value = Worth(s, p) /\ ParseInt(s, p).digits = Count(s, p)
         /\ ParseInt(s, p).next = DigitsEnd(s, p) /\ Count(s, p) > 0
  <1>1. Char(s, p) # "-"
    BY DigitsAssumption DEF IsDigit, DigitChars
  <1>2. /\ ParseInt(s, p).value = Worth(s, p) /\ ParseInt(s, p).digits = Count(s, p)
        /\ ParseInt(s, p).next = DigitsEnd(s, p)
    BY <1>1 DEF ParseInt, Worth, Count
  <1>3. p <= Len(s) /\ s[p] \in DigitChars
    BY CharIn
  <1>4. DigitsEnd(s, p) \in Nat /\ DigitsEnd(s, p) >= p /\ DigitsEnd(s, p) # p
    BY <1>3, DigitsEndIs, LenProperties DEF FirstOutside, Line
  <1> QED BY <1>2, <1>4 DEF Count

LEMMA NoneThere ==
  ASSUME NEW s \in Line, NEW p \in Nat \ {0}, ~IsDigit(Char(s, p))
  PROVE  DigitsEnd(s, p) = p /\ Count(s, p) = 0 /\ Worth(s, p) = 0
  <1> DEFINE e == DigitsEnd(s, p)
  <1>1. FirstOutside(s, p, e, DigitChars)
    BY DigitsEndIs
  <1> HIDE DEF e
  <1>2. e = p
    <2> SUFFICES ASSUME e # p PROVE FALSE
      OBVIOUS
    <2>1. p \in p .. e - 1
      BY <1>1 DEF FirstOutside
    <2> QED BY <1>1, <2>1 DEF FirstOutside, Char, IsDigit
  <1>3. PICK f : IsAcc(f, s, p, p, Word) /\ Accumulate(s, p, p, Word) = f[p]
    BY AccumulateIs
  <1>4. f[p] = 0
    BY <1>3 DEF IsAcc
  <1> QED BY <1>2, <1>3, <1>4 DEF e, Count, Worth

\* What was taken for hours cannot be minutes.
HoursThere(s, p) == Count(s, p) # 2 \/ Worth(s, p) > Sixty - 1

\* Each stretch of the routine: the place, the fields so far and what was noted.
AtSecond(s, p) ==
  /\ b + 1 = P2(s, p) /\ Count(s, p) > 0
  /\ v[1] = Worth(s, p) /\ (haveHours <=> HoursThere(s, p)) /\ ~malformed

AtThird(s, p) ==
  /\ b + 1 = P3(s, p) /\ Two(s, p)
  /\ v[1] = Worth(s, p) /\ v[2] = Worth(s, P2(s, p))
  /\ (haveHours <=> HoursThere(s, p)) /\ (malformed <=> Count(s, P2(s, p)) # 2)

LongSoFar(s, p) ==
  /\ Long(s, p) /\ Two(s, p)
  /\ v[1] = Worth(s, p) /\ v[2] = Worth(s, P2(s, p)) /\ v[3] = Worth(s, P3(s, p))
ShortSoFar(s, p) ==
  /\ ~Long(s, p) /\ Two(s, p)
  /\ v[1] = 0 /\ v[2] = Worth(s, p) /\ v[3] = Worth(s, P2(s, p))
LongOdd(s, p) == Count(s, P2(s, p)) # 2 \/ Count(s, P3(s, p)) # 2
ShortOdd(s, p) == Count(s, P2(s, p)) # 2 \/ HoursThere(s, p)

AtFraction(s, p) ==
  \/ LongSoFar(s, p) /\ b + 1 = P4(s, p) /\ (malformed <=> LongOdd(s, p))
  \/ ShortSoFar(s, p) /\ b + 1 = P3(s, p) /\ (malformed <=> ShortOdd(s, p))

AtCarry(s, p) ==
  /\ Said!Usable(s, p)
  /\ \/ /\ LongSoFar(s, p) /\ v[4] = Worth(s, P4(s, p)) /\ b = DigitsEnd(s, P4(s, p))
        /\ malformed <=> LongOdd(s, p) \/ Count(s, P4(s, p)) # 3
     \/ /\ ShortSoFar(s, p) /\ v[4] = Worth(s, P3(s, p)) /\ b = DigitsEnd(s, P3(s, p))
        /\ malformed <=> ShortOdd(s, p) \/ Count(s, P3(s, p)) # 3

Returned(s, p) ==
  LET usable == Said!Usable(s, p) IN
  /\ ~usable => result = BadTime
  /\ usable => n = Said!TimeLength(s, p) /\ b = p + n
  /\ usable /\ Said!TimeFits(s, p) =>
       /\ result = Said!TimeValue(s, p)
       /\ malformed = ~Said!Strict(s, p)

Found(s, p) ==
  /\ st = "first" => b = p /\ ~malformed
  /\ st = "second" => AtSecond(s, p)
  /\ st = "third" => AtThird(s, p)
  /\ st = "fraction" => AtFraction(s, p)
  /\ st = "carry" => AtCarry(s, p)
  /\ st = "returned" => Returned(s, p)

\* What is returned for no time.
LEMMA NoTimeThere ==
  ASSUME NEW s, NEW p, ~Said!Usable(s, p), NotTimestamp PROVE Found(s, p)'
  BY DEF Found, Returned, NotTimestamp

\* Places in the text.
LEMMA PlacesAre ==
  ASSUME NEW s \in Line, NEW p \in Nat \ {0}
  PROVE  /\ P2(s, p) \in Nat \ {0} /\ P3(s, p) \in Nat \ {0} /\ P4(s, p) \in Nat \ {0}
         /\ P2(s, p) = DigitsEnd(s, p) + 1 /\ P3(s, p) = DigitsEnd(s, P2(s, p)) + 1
         /\ P4(s, p) = DigitsEnd(s, P3(s, p)) + 1
         /\ \A q \in Nat : DigitsEnd(s, q) \in Nat /\ Count(s, q) \in Nat
  <1>1. \A q \in Nat : DigitsEnd(s, q) \in Nat /\ Count(s, q) \in Nat
    BY SaidRuns
  <1>2. P2(s, p) = DigitsEnd(s, p) + 1 /\ P3(s, p) = DigitsEnd(s, P2(s, p)) + 1
        /\ P4(s, p) = DigitsEnd(s, P3(s, p)) + 1
    BY DEF P2, P3, P4, Behind
  <1>3. P2(s, p) \in Nat /\ P3(s, p) \in Nat /\ P4(s, p) \in Nat
    BY SaidPlaces
  <1> QED BY <1>1, <1>2, <1>3

LEMMA StepFinds ==
  ASSUME NEW s \in Line, NEW p \in Nat \ {0}, text = s, StampIn, pos = p, Found(s, p), Step,
         StampIn', pos' = p
  PROVE  Found(s, p)'
  <1> DEFINE q == P2(s, p)
             r == P3(s, p)
             f == P4(s, p)
  <1>1. /\ q \in Nat \ {0} /\ r \in Nat \ {0} /\ f \in Nat \ {0}
        /\ q = DigitsEnd(s, p) + 1 /\ r = DigitsEnd(s, q) + 1 /\ f = DigitsEnd(s, r) + 1
        /\ \A x \in Nat : DigitsEnd(s, x) \in Nat /\ Count(s, x) \in Nat
    BY PlacesAre
  <1>2. /\ b \in Nat /\ v \in [1 .. 4 -> Wide] /\ malformed \in BOOLEAN /\ haveHours \in BOOLEAN
    BY LenProperties DEF StampIn, Line
  <1> USE DEF Found
  <1> HIDE DEF q, r, f
  <1>3. CASE NoDigit
    <2>1. st = "first" /\ NotTimestamp /\ b = p /\ ~IsDigit(Char(s, p))
      BY <1>3 DEF NoDigit
    <2>2. Count(s, p) = 0
      BY <2>1, NoneThere
    <2>3. ~Said!Usable(s, p)
      BY <2>2, UsableIs DEF Two
    <2> QED BY <2>1, <2>3, NoTimeThere
  <1>4. CASE First
    <2> DEFINE x == ParseInt(s, p)
    <2>1. st = "first" /\ b = p /\ ~malformed /\ IsDigit(Char(s, p))
      BY <1>4 DEF First
    <2>2. x.value = Worth(s, p) /\ x.digits = Count(s, p) /\ x.next = DigitsEnd(s, p) /\ Count(s, p) > 0
      BY <2>1, ReadThere
    <2>3. /\ v' = [v EXCEPT ![1] = x.value] /\ (haveHours' <=> x.digits # 2 \/ x.value > Sixty - 1)
          /\ b' = x.next /\ st' = "second" /\ malformed' = malformed
      BY <1>4, <2>1 DEF First
    <2> HIDE DEF x
    <2>4. v'[1] = Worth(s, p)
      BY <1>2, <2>2, <2>3
    <2>5. haveHours' <=> HoursThere(s, p)
      BY <2>2, <2>3 DEF HoursThere
    <2>6. b' + 1 = P2(s, p)
      BY <1>1, <2>2, <2>3 DEF q
    <2>7. AtSecond(s, p)'
      BY <2>1, <2>2, <2>3, <2>4, <2>5, <2>6 DEF AtSecond
    <2> QED BY <2>3, <2>7
  <1>5. CASE NoSecond
    <2>1. st = "second" /\ NotTimestamp /\ b + 1 = q /\ ~(Char(s, b) = ":" /\ IsDigit(Char(s, b + 1)))
      BY <1>5 DEF NoSecond, Colon, AtSecond, q
    <2>2. q - 1 = b
      BY <1>2, <2>1
    <2>3. ~(Char(s, q - 1) = ":" /\ Count(s, q) > 0)
      <3>1. CASE Char(s, b) # ":"
        BY <2>2, <3>1
      <3>2. CASE ~IsDigit(Char(s, q))
        BY <1>1, <3>2, NoneThere
      <3> QED BY <2>1, <3>1, <3>2
    <2>4. ~Said!Usable(s, p)
      BY <2>3, UsableIs DEF Two, q
    <2> QED BY <2>1, <2>4, NoTimeThere
  <1>6. CASE Second
    <2> DEFINE x == ParseInt(s, b + 1)
    <2>1. st = "second" /\ AtSecond(s, p) /\ Char(s, b) = ":" /\ IsDigit(Char(s, b + 1))
      BY <1>6 DEF Second, Colon
    <2>2. b + 1 = q /\ q - 1 = b
      BY <1>2, <2>1 DEF AtSecond, q
    <2>3. x.value = Worth(s, q) /\ x.digits = Count(s, q) /\ x.next = DigitsEnd(s, q) /\ Count(s, q) > 0
      BY <1>1, <2>1, <2>2, ReadThere
    <2>4. /\ v' = [v EXCEPT ![2] = x.value] /\ (malformed' <=> x.digits # 2)
          /\ b' = x.next /\ st' = "third" /\ haveHours' = haveHours
      BY <1>6 DEF Second
    <2> HIDE DEF x
    <2>5. v'[1] = Worth(s, p) /\ v'[2] = Worth(s, q)
      BY <1>2, <2>1, <2>3, <2>4 DEF AtSecond
    <2>6. Two(s, p)
      BY <2>1, <2>2, <2>3 DEF Two, AtSecond, q
    <2>7. haveHours' <=> HoursThere(s, p)
      BY <2>1, <2>4 DEF AtSecond
    <2>8. b' + 1 = r
      BY <1>1, <2>3, <2>4
    <2>9. malformed' <=> Count(s, q) # 2
      BY <2>3, <2>4
    <2>10. AtThird(s, p)'
      BY <2>5, <2>6, <2>7, <2>8, <2>9 DEF AtThird, q, r
    <2> QED BY <2>4, <2>10
  <1>7. CASE NoThird
    <2>1. st = "third" /\ NotTimestamp /\ b + 1 = r /\ Char(s, b) \notin {":", "."}
      BY <1>7 DEF NoThird, AtThird, r
    <2>2. r - 1 = b
      BY <1>2, <2>1
    <2>3. ~Said!Usable(s, p)
      BY <2>1, <2>2, UsableIs DEF Long, r
    <2> QED BY <2>1, <2>3, NoTimeThere
  <1>8. CASE Third
    <2> DEFINE x == ParseInt(s, b + 1)
               none == ~IsDigit(Char(s, b + 1))
    <2>1. st = "third" /\ AtThird(s, p) /\ Char(s, b) = ":"
      BY <1>8 DEF Third
    <2>2. b + 1 = r /\ r - 1 = b
      BY <1>2, <2>1 DEF AtThird, r
    <2>3. /\ v' = [v EXCEPT ![3] = IF none THEN 0 ELSE x.value]
          /\ (malformed' <=> malformed \/ none \/ x.digits # 2)
          /\ b' = (IF none THEN b + 1 ELSE x.next) /\ st' = "fraction"
      BY <1>8 DEF Third
    <2>4. ~none => x.value = Worth(s, r) /\ x.digits = Count(s, r) /\ x.next = DigitsEnd(s, r)
      BY <1>1, <2>2, ReadThere
    <2>5. none => DigitsEnd(s, r) = r /\ Count(s, r) = 0 /\ Worth(s, r) = 0
      BY <1>1, <2>2, NoneThere
    <2> HIDE DEF x, none
    <2>6. b' = DigitsEnd(s, r) /\ (IF none THEN 0 ELSE x.value) = Worth(s, r)
          /\ (none \/ x.digits # 2 <=> Count(s, r) # 2)
      BY <2>2, <2>3, <2>4, <2>5
    <2>7. v'[1] = Worth(s, p) /\ v'[2] = Worth(s, q) /\ v'[3] = Worth(s, r)
      BY <1>2, <2>1, <2>3, <2>6 DEF AtThird, q
    <2>8. malformed' <=> LongOdd(s, p)
      BY <2>1, <2>3, <2>6 DEF AtThird, LongOdd, q, r
    <2>9. b' + 1 = f
      BY <1>1, <2>6
    <2>10. Long(s, p) /\ Two(s, p)
      BY <2>1, <2>2 DEF Long, r, AtThird
    <2>11. AtFraction(s, p)'
      BY <2>7, <2>8, <2>9, <2>10 DEF AtFraction, LongSoFar, q, r, f
    <2> QED BY <2>3, <2>11
  <1>9. CASE Shift
    <2>1. st = "third" /\ AtThird(s, p) /\ Char(s, b) # ":"
      BY <1>9 DEF Shift
    <2>2. b + 1 = r /\ r - 1 = b
      BY <1>2, <2>1 DEF AtThird, r
    <2>3. /\ v' = <<0, v[1], v[2], v[4]>> /\ (malformed' <=> malformed \/ haveHours)
          /\ b' = b /\ st' = "fraction"
      BY <1>9 DEF Shift
    <2>4. v'[1] = 0 /\ v'[2] = Worth(s, p) /\ v'[3] = Worth(s, q)
      BY <2>1, <2>3 DEF AtThird, q
    <2>5. malformed' <=> ShortOdd(s, p)
      BY <2>1, <2>3 DEF AtThird, ShortOdd
    <2>6. ~Long(s, p) /\ Two(s, p)
      BY <2>1, <2>2 DEF Long, r, AtThird
    <2>7. AtFraction(s, p)'
      BY <2>2, <2>3, <2>4, <2>5, <2>6 DEF AtFraction, ShortSoFar, q, r
    <2> QED BY <2>3, <2>7
  <1>10. CASE NoFraction
    <2>1. st = "fraction" /\ NotTimestamp /\ AtFraction(s, p) /\ ~(Char(s, b) = "." /\ IsDigit(Char(s, b + 1)))
      BY <1>10 DEF NoFraction, Point
    <2>2. ASSUME NEW e \in Nat \ {0}, b + 1 = e PROVE ~(Char(s, e - 1) = "." /\ Count(s, e) > 0)
      <3>1. e - 1 = b
        BY <1>2, <2>2
      <3>2. CASE Char(s, b) # "."
        BY <3>1, <3>2
      <3>3. CASE ~IsDigit(Char(s, e))
        BY <3>3, NoneThere
      <3> QED BY <2>1, <2>2, <3>2, <3>3
    <2>3. ~Said!Usable(s, p)
      <3>1. CASE LongSoFar(s, p) /\ b + 1 = f
        BY <1>1, <2>2, <3>1, UsableIs DEF LongSoFar, f
      <3>2. CASE ShortSoFar(s, p) /\ b + 1 = r
        BY <1>1, <2>2, <3>2, UsableIs DEF ShortSoFar, r
      <3> QED BY <2>1, <3>1, <3>2 DEF AtFraction, f, r
    <2> QED BY <2>1, <2>3, NoTimeThere
  <1>11. CASE Fraction
    <2> DEFINE x == ParseInt(s, b + 1)
    <2>1. st = "fraction" /\ AtFraction(s, p) /\ Char(s, b) = "." /\ IsDigit(Char(s, b + 1))
      BY <1>11 DEF Fraction, Point
    <2>2. /\ v' = [v EXCEPT ![4] = x.value] /\ (malformed' <=> malformed \/ x.digits # 3)
          /\ b' = x.next /\ st' = "carry"
      BY <1>11 DEF Fraction
    <2>3. ASSUME NEW e \in Nat \ {0}, b + 1 = e
          PROVE  /\ e - 1 = b /\ x.value = Worth(s, e) /\ x.digits = Count(s, e)
                 /\ x.next = DigitsEnd(s, e) /\ Count(s, e) > 0
      BY <1>2, <2>1, <2>3, ReadThere
    <2> HIDE DEF x
    <2>4. v'[1] = v[1] /\ v'[2] = v[2] /\ v'[3] = v[3] /\ v'[4] = x.value
      BY <1>2, <2>2
    <2>5. CASE LongSoFar(s, p) /\ b + 1 = f /\ (malformed <=> LongOdd(s, p))
      <3>1. /\ f - 1 = b /\ x.value = Worth(s, f) /\ x.digits = Count(s, f)
            /\ x.next = DigitsEnd(s, f) /\ Count(s, f) > 0
        BY <1>1, <2>3, <2>5
      <3>2. Said!Usable(s, p)
        BY <2>1, <2>5, <3>1, UsableIs DEF LongSoFar, f
      <3>3. LongSoFar(s, p)'
        BY <2>4, <2>5 DEF LongSoFar
      <3>4. malformed' <=> LongOdd(s, p) \/ Count(s, f) # 3
        BY <2>2, <2>5, <3>1
      <3>5. AtCarry(s, p)'
        BY <2>2, <2>4, <3>1, <3>2, <3>3, <3>4 DEF AtCarry, f
      <3> QED BY <2>2, <3>5
    <2>6. CASE ShortSoFar(s, p) /\ b + 1 = r /\ (malformed <=> ShortOdd(s, p))
      <3>1. /\ r - 1 = b /\ x.value = Worth(s, r) /\ x.digits = Count(s, r)
            /\ x.next = DigitsEnd(s, r) /\ Count(s, r) > 0
        BY <1>1, <2>3, <2>6
      <3>2. Said!Usable(s, p)
        BY <2>1, <2>6, <3>1, UsableIs DEF ShortSoFar, r
      <3>3. ShortSoFar(s, p)'
        BY <2>4, <2>6 DEF ShortSoFar
      <3>4. malformed' <=> ShortOdd(s, p) \/ Count(s, r) # 3
        BY <2>2, <2>6, <3>1
      <3>5. AtCarry(s, p)'
        BY <2>2, <2>4, <3>1, <3>2, <3>3, <3>4 DEF AtCarry, r
      <3> QED BY <2>2, <3>5
    <2> QED BY <2>1, <2>5, <2>6 DEF AtFraction, f, r
  <1>12. CASE Carry
    <2> DEFINE g == CarryOver(CarryOver(CarryOver(v, 4, Thousand), 3, Sixty), 2, Sixty)
    <2>1. /\ st = "carry" /\ AtCarry(s, p) /\ (malformed' = (malformed \/ g # v))
          /\ result' = Milliseconds(g) /\ st' = "returned" /\ b' = b /\ n' = n
      BY <1>12 DEF Carry
    <2>2. Said!Usable(s, p)
      BY <2>1 DEF AtCarry
    <2>3. b = p + n /\ n \in Nat
      BY <2>1, LenProperties DEF StampIn, Line
    <2> HIDE DEF g
    <2>4. n = Said!TimeLength(s, p)
      <3>1. CASE LongSoFar(s, p) /\ b = DigitsEnd(s, f)
        <4>1. Said!TimeLength(s, p) = f + (DigitsEnd(s, f) - f) - p
          BY <3>1, LongIs DEF LongSoFar, f, Count
        <4> QED BY <1>1, <2>3, <3>1, <4>1
      <3>2. CASE ShortSoFar(s, p) /\ b = DigitsEnd(s, r)
        <4>1. Said!TimeLength(s, p) = r + (DigitsEnd(s, r) - r) - p
          BY <3>2, ShortIs DEF ShortSoFar, r, Count
        <4> QED BY <1>1, <2>3, <3>2, <4>1
      <3> QED BY <2>1, <3>1, <3>2 DEF AtCarry, f, r
    <2>5. ASSUME Said!TimeFits(s, p)
          PROVE  /\ Milliseconds(g) = Said!TimeValue(s, p)
                 /\ (malformed \/ g # v) <=> ~Said!Strict(s, p)
      <3> DEFINE y == FieldsAt(s, p)
      <3>1. /\ Said!TimeValue(s, p) = Sum(y) /\ Sum(y) < Half
            /\ Spelt(s, p) < Half /\ Spelt(s, q) < Half /\ Spelt(s, r) < Half
            /\ Long(s, p) => Spelt(s, f) < Half
        BY <2>5, ValueIs DEF q, r, f
      <3>2. /\ Spelt(s, p) \in Nat /\ Worth(s, p) = Spelt(s, p)
            /\ Spelt(s, q) \in Nat /\ Worth(s, q) = Spelt(s, q)
            /\ Spelt(s, r) \in Nat /\ Worth(s, r) = Spelt(s, r)
            /\ Spelt(s, f) \in Nat /\ (Long(s, p) => Worth(s, f) = Spelt(s, f))
        BY <1>1, <3>1, SpeltIs
      <3>3. Sixty \in Nat /\ Thousand \in Nat
        BY UnitsAre
      <3>4. ASSUME v[1] = y[1], v[2] = y[2], v[3] = y[3], v[4] = y[4], \A i \in 1 .. 4 : v[i] >= 0
            PROVE  /\ Milliseconds(g) = Said!TimeValue(s, p)
                   /\ g # v <=> v[4] >= Thousand \/ v[3] >= Sixty \/ v[2] >= Sixty
        <4>1. Sum(v) = Sum(y)
          BY <3>4 DEF Sum
        <4> HIDE DEF y
        <4> QED BY <1>2, <3>1, <3>4, <4>1, CarriesKeep DEF g
      <3>5. CASE /\ LongSoFar(s, p) /\ v[4] = Worth(s, f)
                 /\ malformed <=> LongOdd(s, p) \/ Count(s, f) # 3
        <4>1. y = <<Spelt(s, p), Spelt(s, q), Spelt(s, r), Spelt(s, f)>> /\ Long(s, p)
          BY <3>5 DEF LongSoFar, FieldsAt, q, r, f
        <4>2. v[1] = Spelt(s, p) /\ v[2] = Spelt(s, q) /\ v[3] = Spelt(s, r) /\ v[4] = Spelt(s, f)
          BY <3>2, <3>5, <4>1 DEF LongSoFar, q, r
        <4>3. /\ Milliseconds(g) = Said!TimeValue(s, p)
              /\ g # v <=> v[4] >= Thousand \/ v[3] >= Sixty \/ v[2] >= Sixty
          <5>1. v[1] = y[1] /\ v[2] = y[2] /\ v[3] = y[3] /\ v[4] = y[4]
            BY <4>1, <4>2
          <5>2. \A i \in 1 .. 4 : v[i] >= 0
            BY <3>2, <4>2
          <5> HIDE DEF y
          <5> QED BY <3>4, <5>1, <5>2
        <4>4. Said!Strict(s, p) <=> /\ Count(s, f) = 3 /\ Count(s, r) = 2 /\ Count(s, q) = 2
                                    /\ Spelt(s, r) < Sixty /\ Spelt(s, q) < Sixty
          BY <4>1, LongIs DEF q, r, f
        <4>5. Count(s, f) = 3 => Spelt(s, f) < Thousand
          BY <1>1, ThreeDigits
        <4>6. malformed <=> Count(s, q) # 2 \/ Count(s, r) # 2 \/ Count(s, f) # 3
          BY <3>5 DEF LongOdd, q, r
        <4>7. g # v <=> Spelt(s, f) >= Thousand \/ Spelt(s, r) >= Sixty \/ Spelt(s, q) >= Sixty
          BY <4>2, <4>3
        <4>8. /\ Spelt(s, f) >= Thousand <=> ~(Spelt(s, f) < Thousand)
              /\ Spelt(s, r) >= Sixty <=> ~(Spelt(s, r) < Sixty)
              /\ Spelt(s, q) >= Sixty <=> ~(Spelt(s, q) < Sixty)
          BY <3>2, <3>3
        <4> QED BY ONLY <4>3, <4>4, <4>5, <4>6, <4>7, <4>8, Zenon
      <3>6. CASE /\ ShortSoFar(s, p) /\ v[4] = Worth(s, r)
                 /\ malformed <=> ShortOdd(s, p) \/ Count(s, r) # 3
        <4>1. y = <<0, Spelt(s, p), Spelt(s, q), Spelt(s, r)>> /\ ~Long(s, p)
          BY <3>6 DEF ShortSoFar, FieldsAt, q, r, f
        <4>2. v[1] = 0 /\ v[2] = Spelt(s, p) /\ v[3] = Spelt(s, q) /\ v[4] = Spelt(s, r)
          BY <3>2, <3>6 DEF ShortSoFar, q
        <4>3. /\ Milliseconds(g) = Said!TimeValue(s, p)
              /\ g # v <=> v[4] >= Thousand \/ v[3] >= Sixty \/ v[2] >= Sixty
          <5>1. v[1] = y[1] /\ v[2] = y[2] /\ v[3] = y[3] /\ v[4] = y[4]
            BY <4>1, <4>2
          <5>2. \A i \in 1 .. 4 : v[i] >= 0
            BY <3>2, <4>2
          <5> HIDE DEF y
          <5> QED BY <3>4, <5>1, <5>2
        <4>4. Said!Strict(s, p) <=> /\ Count(s, r) = 3 /\ Count(s, q) = 2 /\ Count(s, p) = 2
                                    /\ Spelt(s, q) < Sixty /\ Spelt(s, p) < Sixty
          BY <4>1, ShortIs DEF q, r
        <4>5. Count(s, r) = 3 => Spelt(s, r) < Thousand
          BY <1>1, ThreeDigits
        <4>6. malformed <=> Count(s, q) # 2 \/ Count(s, p) # 2 \/ ~(Spelt(s, p) < Sixty) \/ Count(s, r) # 3
          <5>1. HoursThere(s, p) <=> Count(s, p) # 2 \/ ~(Spelt(s, p) < Sixty)
            BY <3>2, <3>3 DEF HoursThere
          <5> QED BY <3>6, <5>1 DEF ShortOdd, q
        <4>7. g # v <=> Spelt(s, r) >= Thousand \/ Spelt(s, q) >= Sixty \/ Spelt(s, p) >= Sixty
          BY <4>2, <4>3
        <4>8. /\ Spelt(s, r) >= Thousand <=> ~(Spelt(s, r) < Thousand)
              /\ Spelt(s, q) >= Sixty <=> ~(Spelt(s, q) < Sixty)
              /\ Spelt(s, p) >= Sixty <=> ~(Spelt(s, p) < Sixty)
          BY <3>2, <3>3
        <4> QED BY ONLY <4>3, <4>4, <4>5, <4>6, <4>7, <4>8, Zenon
      <3> QED BY <2>1, <3>5, <3>6 DEF AtCarry, f, r
    <2>6. Said!TimeFits(s, p) => malformed' = ~Said!Strict(s, p)
      <3>1. CASE malformed \/ g # v
        BY <2>1, <2>5, <3>1
      <3>2. CASE ~(malformed \/ g # v)
        BY <2>1, <2>5, <3>2
      <3> QED BY <3>1, <3>2
    <2>7. Returned(s, p)'
      BY <2>1, <2>2, <2>3, <2>4, <2>5, <2>6 DEF Returned
    <2> QED BY <2>1, <2>7
  <1> QED BY <1>3, <1>4, <1>5, <1>6, <1>7, <1>8, <1>9, <1>10, <1>11, <1>12 DEF Step

\* Outside of a call, and at the start of one.
LEMMA NothingFound == st' = "idle" => Found(text, pos)'
  BY DEF Found

LEMMA CallFinds == Call(pos') => Found(text, pos)'
  BY DEF Found, Call

LEMMA NextFinds ==
  BoundsInv /\ Found(text, pos) /\ [TimingsNext]_timings => Found(text, pos)'
  <1> SUFFICES ASSUME BoundsInv, Found(text, pos), [TimingsNext]_timings PROVE Found(text, pos)'
    OBVIOUS
  <1>1. BoundsInv'
    BY NextBounds
  <1>2. StampIn /\ StampIn' /\ text \in Line /\ pos \in Nat \ {0} /\ (at = "time" <=> st # "idle")
    BY <1>1, LenProperties DEF BoundsInv, LineIn, StageIn, Line
  <1>3. CASE Start \/ SkipArrow
    BY <1>3, CallFinds DEF Start, SkipArrow
  <1>4. CASE ReadTime
    <2>1. Step /\ text' = text /\ pos' = pos
      BY <1>4 DEF ReadTime, cueline
    <2> QED BY <1>2, <2>1, StepFinds, Zenon
  <1>5. CASE BadStamp \/ MalformedRefused \/ GoodStamp
    BY <1>5, NothingFound DEF BadStamp, MalformedRefused, GoodStamp
  <1>6. ASSUME UNCHANGED stamp, at # "time" PROVE Found(text, pos)'
    BY <1>2, <1>6, NothingFound DEF stamp
  <1>7. CASE NoArrow
    BY <1>6, <1>7 DEF NoArrow
  <1>8. CASE Glue
    BY <1>6, <1>8 DEF Glue
  <1>9. CASE CopySettings \/ CopyFails
    BY <1>6, <1>9 DEF CopySettings, CopyFails
  <1>10. CASE Begin \/ CollectWord \/ WordFails \/ Finished
    BY <1>6, <1>10 DEF Begin, CollectWord, WordFails, Finished
  <1>11. CASE SetWord
    BY <1>6, <1>11 DEF SetWord
  <1>12. CASE UNCHANGED timings
    <2>1. UNCHANGED <<text, pos, st, b, n, v, haveHours, malformed, result>>
      BY <1>12 DEF timings, stamp, cueline
    <2> QED BY <2>1 DEF Found, AtSecond, AtThird, AtFraction, AtCarry, LongSoFar, ShortSoFar, Returned
  <1> QED BY <1>3, <1>4, <1>5, <1>7, <1>8, <1>9, <1>10, <1>11, <1>12 DEF TimingsNext

LEMMA InitFinds == TimingsInit => Found(text, pos)
  BY DEF TimingsInit, Idle, Found

\* What webvtt_parse_timestamp takes for a time is one, as long as the text says and of
\* that value, and is malformed when the text says so, while numbers do not wrap.
THEOREM StampsAreExact == TimingsSpec => []StampExact
  <1>1. BoundsInv /\ Found(text, pos) => StampExact
    BY DEF Found, Returned, StampExact
  <1> QED BY <1>1, InitBounds, NextBounds, InitFinds, NextFinds, PTL DEF TimingsSpec
-----------------------------------------------------------------------------
(* Where a character is, and what settings spell.                          *)

\* The first place of a character, 0 if it is nowhere.
SpotsOf(s, x) == {i \in 1 .. Len(s) : s[i] = x}
SpotOf(s, x) == IF SpotsOf(s, x) # {} THEN Min(SpotsOf(s, x)) ELSE 0

LEMMA SpotIs ==
  ASSUME NEW s \in Line, NEW x
  PROVE  /\ SpotOf(s, x) \in 0 .. Len(s)
         /\ SpotOf(s, x) = 0 => \A i \in 1 .. Len(s) : s[i] # x
         /\ SpotOf(s, x) # 0 => /\ s[SpotOf(s, x)] = x
                                 /\ \A i \in 1 .. SpotOf(s, x) - 1 : s[i] # x
  <1> DEFINE S == SpotsOf(s, x)
  <1>1. Len(s) \in Nat /\ S \in SUBSET Nat /\ S \in SUBSET (1 .. Len(s))
    BY LenProperties DEF Line, SpotsOf
  <1>2. CASE S = {}
    <2>1. SpotOf(s, x) = 0
      BY <1>2 DEF SpotOf
    <2> QED BY <1>1, <1>2, <2>1 DEF SpotsOf
  <1>3. CASE S # {}
    <2> HIDE DEF S
    <2>1. \E m \in S : \A y \in S : m <= y
      BY <1>1, <1>3, Least
    <2>2. Min(S) \in S /\ \A y \in S : Min(S) <= y
      BY <2>1 DEF Min
    <2>3. SpotOf(s, x) = Min(S)
      BY <1>3 DEF SpotOf, S
    <2> DEFINE m == Min(S)
    <2>4. m \in 1 .. Len(s) /\ s[m] = x
      BY <1>1, <2>2 DEF S, SpotsOf
    <2>5. \A i \in 1 .. Len(s) : s[i] = x => m <= i
      BY <2>2 DEF S, SpotsOf
    <2>6. SpotOf(s, x) = m
      BY <2>3
    <2> HIDE DEF m
    <2> QED BY <1>1, <2>4, <2>5, <2>6
  <1> QED BY <1>2, <1>3

PercentSign == "%"

LEMMA PlacesFound ==
  ASSUME NEW s
  PROVE  /\ ColonAt(s) = SpotOf(s, ":") /\ Percent(s) = SpotOf(s, PercentSign)
         /\ Said!SelectInSeq(s, LAMBDA c : c = ":") = SpotOf(s, ":")
         /\ Limit(s) = IF SpotOf(s, "CR") # 0 THEN SpotOf(s, "CR")
                       ELSE IF SpotOf(s, "LF") # 0 THEN SpotOf(s, "LF") ELSE Len(s) + 1
  <1>1. ColonAt(s) = SpotOf(s, ":")
    BY Zenon DEF ColonAt, SelectInSeq, SpotOf, SpotsOf
  <1>2. Percent(s) = SpotOf(s, PercentSign)
    BY Zenon DEF Percent, SelectInSeq, SpotOf, SpotsOf, PercentSign
  <1>3. Said!SelectInSeq(s, LAMBDA c : c = ":") = SpotOf(s, ":")
    BY Zenon DEF Said!SelectInSeq, Said!Min, Min, SpotOf, SpotsOf
  <1>4. Limit(s) = IF SpotOf(s, "CR") # 0 THEN SpotOf(s, "CR")
                   ELSE IF SpotOf(s, "LF") # 0 THEN SpotOf(s, "LF") ELSE Len(s) + 1
    BY Zenon DEF Limit, SelectInSeq, SpotOf, SpotsOf
  <1> QED BY <1>1, <1>2, <1>3, <1>4

\* The same digits spell the same.
LEMMA SpelledSame ==
  ASSUME NEW s, NEW p, NEW t, NEW q, NEW k \in Nat,
         \A i \in 1 .. k : s[p + i - 1] = t[q + i - 1]
  PROVE  Said!Spelled(s, p, k) = Said!Spelled(t, q, k)
  <1>1. PICK f : IsSpelled(f, s, p, k) /\ Said!Spelled(s, p, k) = f[k]
    BY SpelledIs
  <1>2. PICK g : IsSpelled(g, t, q, k) /\ Said!Spelled(t, q, k) = g[k]
    BY SpelledIs
  <1>3. \A i \in 0 .. k : f[i] = IF i = 0 THEN 0 ELSE f[i - 1] * Base + DigitValue(s[p + i - 1])
    BY <1>1 DEF IsSpelled
  <1>4. \A i \in 0 .. k : g[i] = IF i = 0 THEN 0 ELSE g[i - 1] * Base + DigitValue(t[q + i - 1])
    BY <1>2 DEF IsSpelled
  <1> DEFINE Bad == {i \in 0 .. k : f[i] # g[i]}
  <1>5. SUFFICES ASSUME Bad # {} PROVE FALSE
    BY <1>1, <1>2
  <1>6. Bad \in SUBSET Nat
    OBVIOUS
  <1> HIDE DEF Bad
  <1>7. PICK i \in Bad : \A j \in Bad : i <= j
    BY <1>5, <1>6, Least
  <1>8. i \in 0 .. k /\ f[i] # g[i] /\ i # 0
    BY <1>3, <1>4, <1>7 DEF Bad
  <1>9. i - 1 \in 0 .. k /\ i \in 1 .. k /\ ~(i <= i - 1)
    BY <1>8
  <1>10. f[i - 1] = g[i - 1]
    BY <1>7, <1>9 DEF Bad
  <1>11. f[i] = f[i - 1] * Base + DigitValue(s[p + i - 1])
    BY <1>3, <1>8
  <1>12. g[i] = g[i - 1] * Base + DigitValue(t[q + i - 1])
    BY <1>4, <1>8
  <1>13. s[p + i - 1] = t[q + i - 1]
    BY <1>9
  <1> QED BY <1>8, <1>10, <1>11, <1>12, <1>13

-----------------------------------------------------------------------------
(* The values of the settings.                                             *)

\* What a value with a number looks like.
DigitsFrom(x, p, q) == \A i \in p .. q : x[i] \in DigitChars
Plain(x) == Len(x) > 0 /\ DigitsFrom(x, 1, Len(x))
Negative(x) == Len(x) > 1 /\ x[1] = "-" /\ DigitsFrom(x, 2, Len(x))
PerCent(x) == Len(x) > 1 /\ x[Len(x)] = PercentSign /\ DigitsFrom(x, 1, Len(x) - 1)

LEMMA NoDigits ==
  /\ "-" \notin DigitChars /\ PercentSign \notin DigitChars /\ "NUL" \notin DigitChars
  /\ PercentSign # "-" /\ PercentSign # "NUL"
  <1>1. "-" \notin DigitChars /\ "NUL" \notin DigitChars
    BY DigitsAssumption DEF DigitChars
  <1>2. PercentSign \notin DigitChars
    BY SettingsAssumption, Zenon DEF PercentSign
  <1>3. PercentSign # "-" /\ PercentSign # "NUL"
    BY Zenon DEF PercentSign
  <1> QED BY <1>1, <1>2, <1>3

LEMMA SaidDigits == \A c : Said!IsDigit(c) <=> c \in DigitChars
  BY Zenon DEF Said!IsDigit, Said!DigitChars, Said!ToSet, DigitChars, ToSet

LEMMA FrontIs ==
  ASSUME NEW x \in Line, x # << >>
  PROVE  /\ Len(x) \in Nat /\ Len(x) > 0
         /\ Said!Front(x) \in Line /\ Len(Said!Front(x)) = Len(x) - 1
         /\ \A i \in 1 .. Len(x) - 1 : Said!Front(x)[i] = x[i]
         /\ Tail(x) \in Line /\ Len(Tail(x)) = Len(x) - 1
         /\ \A i \in 1 .. Len(x) - 1 : Tail(x)[i] = x[i + 1]
         /\ Head(x) = x[1]
  <1>1. Len(x) \in Nat /\ Len(x) > 0
    BY LenProperties, EmptySeq DEF Line
  <1>2. \A i \in 1 .. Len(x) - 1 : x[i] \in STRING
    BY <1>1, ElementOfSeq DEF Line
  <1> DEFINE m == Len(x) - 1
  <1>3. m \in Nat
    BY <1>1
  <1>4. /\ SubSeq(x, 1, m) \in Line /\ Len(SubSeq(x, 1, m)) = m
        /\ \A i \in 1 .. m : SubSeq(x, 1, m)[i] = x[1 + i - 1]
    <2>1. \A i \in 1 .. m : x[i] \in STRING
      BY <1>2
    <2> HIDE DEF m
    <2>2. /\ SubSeq(x, 1, m) \in Line /\ Len(SubSeq(x, 1, m)) = IF 1 <= m THEN m - 1 + 1 ELSE 0
          /\ \A i \in 1 .. m - 1 + 1 : SubSeq(x, 1, m)[i] = x[1 + i - 1]
      BY <1>3, <2>1, SubSeqProperties DEF Line
    <2>3. m - 1 + 1 = m /\ (1 <= m \/ m = 0)
      BY <1>3
    <2> QED BY <2>2, <2>3
  <1>5. Said!Front(x) = SubSeq(x, 1, m)
    BY DEF Said!Front
  <1>6. \A i \in 1 .. m : 1 + i - 1 = i
    BY <1>3
  <1>7. /\ Tail(x) \in Line /\ Len(Tail(x)) = Len(x) - 1
        /\ \A i \in 1 .. Len(Tail(x)) : Tail(x)[i] = x[i + 1]
    BY HeadTailProperties DEF Line
  <1>8. Head(x) = x[1]
    OBVIOUS
  <1> QED BY <1>1, <1>4, <1>5, <1>6, <1>7, <1>8

LEMMA NumberForm ==
  ASSUME NEW x \in Line
  PROVE  Said!IsNumber(x) <=> Plain(x)
  <1>1. x # << >> <=> Len(x) > 0
    BY LenProperties, EmptySeq DEF Line
  <1>2. DOMAIN x = 1 .. Len(x)
    BY LenProperties DEF Line
  <1> QED BY <1>1, <1>2, SaidDigits DEF Said!IsNumber, Plain, DigitsFrom

\* What is a number of percent, but for its size, and a line number.
LEMMA PercentForm ==
  ASSUME NEW x \in Line
  PROVE  x # << >> /\ x[Len(x)] = PercentSign /\ Said!IsNumber(Said!Front(x)) <=> PerCent(x)
  <1>1. Len(x) \in Nat /\ (x # << >> <=> Len(x) > 0)
    BY LenProperties, EmptySeq DEF Line
  <1>2. CASE x = << >>
    BY <1>1, <1>2 DEF PerCent
  <1>3. CASE x # << >>
    <2>1. Said!IsNumber(Said!Front(x)) <=> Plain(Said!Front(x))
      BY <1>3, FrontIs, NumberForm
    <2>2. Plain(Said!Front(x)) <=> Len(x) > 1 /\ DigitsFrom(x, 1, Len(x) - 1)
      <3> DEFINE f == Said!Front(x)
      <3>1. Len(x) \in Nat /\ Len(f) = Len(x) - 1 /\ \A i \in 1 .. Len(x) - 1 : f[i] = x[i]
        BY <1>3, FrontIs
      <3> HIDE DEF f
      <3>2. Plain(f) <=> Len(x) > 1 /\ DigitsFrom(x, 1, Len(x) - 1)
        BY <3>1 DEF Plain, DigitsFrom
      <3> QED BY <3>2 DEF f
    <2> QED BY <1>3, <2>1, <2>2 DEF PerCent
  <1> QED BY <1>2, <1>3

LEMMA LineForm ==
  ASSUME NEW x \in Line
  PROVE  Said!IsNumber(Said!Signless(x)) <=> Plain(x) \/ Negative(x)
  <1>1. Len(x) \in Nat /\ (x # << >> <=> Len(x) > 0)
    BY LenProperties, EmptySeq DEF Line
  <1>2. CASE x # << >> /\ x[1] = "-"
    <2>1. Said!Signless(x) = Tail(x)
      BY <1>2, FrontIs DEF Said!Signless
    <2>2. Said!IsNumber(Tail(x)) <=> Plain(Tail(x))
      BY <1>2, FrontIs, NumberForm
    <2>3. Plain(Tail(x)) <=> Len(x) > 1 /\ \A i \in 1 .. Len(x) - 1 : x[i + 1] \in DigitChars
      BY <1>2, FrontIs DEF Plain, DigitsFrom
    <2>4. (\A i \in 1 .. Len(x) - 1 : x[i + 1] \in DigitChars) <=> DigitsFrom(x, 2, Len(x))
      <3>1. ASSUME \A i \in 1 .. Len(x) - 1 : x[i + 1] \in DigitChars, NEW j \in 2 .. Len(x)
            PROVE  x[j] \in DigitChars
        <4>1. j - 1 \in 1 .. Len(x) - 1 /\ (j - 1) + 1 = j
          BY <1>1
        <4> QED BY <3>1, <4>1
      <3>2. \A i \in 1 .. Len(x) - 1 : i + 1 \in 2 .. Len(x)
        BY <1>1
      <3> QED BY <3>1, <3>2 DEF DigitsFrom
    <2>5. ~Plain(x)
      BY <1>1, <1>2, NoDigits DEF Plain, DigitsFrom
    <2> QED BY <1>2, <2>1, <2>2, <2>3, <2>4, <2>5 DEF Negative
  <1>3. CASE ~(x # << >> /\ x[1] = "-")
    <2>1. Said!Signless(x) = x
      BY <1>3, FrontIs DEF Said!Signless
    <2>2. ~Negative(x)
      BY <1>1, <1>3 DEF Negative
    <2> QED BY <2>1, <2>2, NumberForm
  <1> QED BY <1>2, <1>3

LEMMA DigitsSeen ==
  ASSUME NEW x \in Line
  PROVE  /\ \A E : OnlyWith(x, E) <=> \A i \in 1 .. Len(x) : x[i] \in DigitChars \/ x[i] \in E
         /\ HasDigit(x) <=> \E i \in 1 .. Len(x) : x[i] \in DigitChars
  <1>1. DOMAIN x = 1 .. Len(x)
    BY LenProperties DEF Line
  <1> QED BY <1>1, Zenon DEF OnlyWith, HasDigit, IsDigit

\* What the setters take for one, before they look at its size.
LEMMA PercentTaken ==
  ASSUME NEW x \in Line
  PROVE  OnlyWith(x, {PercentSign}) /\ HasDigit(x) /\ Percent(x) = Len(x) <=> PerCent(x)
  <1> DEFINE k == Percent(x)
  <1>1. /\ k \in 0 .. Len(x) /\ Len(x) \in Nat
        /\ k = 0 => \A i \in 1 .. Len(x) : x[i] # PercentSign
        /\ k # 0 => x[k] = PercentSign /\ \A i \in 1 .. k - 1 : x[i] # PercentSign
    <2>1. k = SpotOf(x, PercentSign) /\ Len(x) \in Nat
      BY PlacesFound, LenProperties DEF Line
    <2> QED BY <2>1, SpotIs
  <1> HIDE DEF k
  <1>2. ASSUME OnlyWith(x, {PercentSign}), HasDigit(x), k = Len(x) PROVE PerCent(x)
    <2>1. PICK i \in 1 .. Len(x) : x[i] \in DigitChars
      BY <1>1, <1>2, DigitsSeen
    <2>2. x[Len(x)] = PercentSign /\ i # Len(x)
      BY <1>1, <1>2, <2>1, NoDigits
    <2>3. \A j \in 1 .. Len(x) - 1 : x[j] \in DigitChars
      BY <1>1, <1>2, <2>1, DigitsSeen
    <2> QED BY <1>1, <2>1, <2>2, <2>3 DEF PerCent, DigitsFrom
  <1>3. ASSUME PerCent(x) PROVE OnlyWith(x, {PercentSign}) /\ HasDigit(x) /\ k = Len(x)
    <2>1. Len(x) > 1 /\ x[Len(x)] = PercentSign /\ \A i \in 1 .. Len(x) - 1 : x[i] \in DigitChars
      BY <1>3 DEF PerCent, DigitsFrom
    <2>2. OnlyWith(x, {PercentSign}) /\ HasDigit(x)
      BY <1>1, <2>1, DigitsSeen
    <2>3. k # 0 /\ ~(k \in 1 .. Len(x) - 1)
      BY <1>1, <2>1, NoDigits
    <2> QED BY <1>1, <2>2, <2>3
  <1> QED BY <1>2, <1>3 DEF k

LineTaken(x) ==
  /\ OnlyWith(x, {"-", PercentSign}) /\ HasDigit(x)
  /\ ~\E i \in 2 .. Len(x) : x[i] = "-"
  /\ ~(Percent(x) # 0 /\ (Percent(x) # Len(x) \/ x[1] = "-"))

LEMMA LineIsTaken ==
  ASSUME NEW x \in Line
  PROVE  LineTaken(x) <=> Plain(x) \/ Negative(x) \/ PerCent(x)
  <1> DEFINE k == Percent(x)
  <1>1. /\ k \in 0 .. Len(x) /\ Len(x) \in Nat
        /\ k = 0 => \A i \in 1 .. Len(x) : x[i] # PercentSign
        /\ k # 0 => x[k] = PercentSign /\ \A i \in 1 .. k - 1 : x[i] # PercentSign
    <2>1. k = SpotOf(x, PercentSign) /\ Len(x) \in Nat
      BY PlacesFound, LenProperties DEF Line
    <2> QED BY <2>1, SpotIs
  <1> HIDE DEF k
  <1>2. ASSUME LineTaken(x) PROVE Plain(x) \/ Negative(x) \/ PerCent(x)
    <2>1. PICK i \in 1 .. Len(x) : x[i] \in DigitChars
      BY <1>2, DigitsSeen DEF LineTaken
    <2>2. /\ \A j \in 1 .. Len(x) : x[j] \in DigitChars \/ x[j] \in {"-", PercentSign}
          /\ \A j \in 2 .. Len(x) : x[j] # "-"
          /\ k # 0 => k = Len(x) /\ x[1] # "-"
      BY <1>1, <1>2, DigitsSeen DEF LineTaken, k
    <2>3. CASE k = 0 /\ x[1] # "-"
      <3>1. \A j \in 1 .. Len(x) : x[j] \in DigitChars
        BY <1>1, <2>2, <2>3
      <3> QED BY <1>1, <2>1, <3>1 DEF Plain, DigitsFrom
    <2>4. CASE k = 0 /\ x[1] = "-"
      <3>1. i # 1
        BY <2>1, <2>4, NoDigits
      <3>2. \A j \in 2 .. Len(x) : x[j] \in DigitChars
        BY <1>1, <2>2, <2>4
      <3> QED BY <1>1, <2>1, <2>4, <3>1, <3>2 DEF Negative, DigitsFrom
    <2>5. CASE k # 0
      <3>1. k = Len(x) /\ x[Len(x)] = PercentSign /\ i # Len(x)
        BY <1>1, <2>1, <2>2, <2>5, NoDigits
      <3>2. \A j \in 1 .. Len(x) - 1 : x[j] \in DigitChars
        BY <1>1, <2>2, <2>5, <3>1
      <3> QED BY <1>1, <2>1, <3>1, <3>2 DEF PerCent, DigitsFrom
    <2> QED BY <2>3, <2>4, <2>5
  <1>3. ASSUME Plain(x) PROVE LineTaken(x)
    <2>1. Len(x) > 0 /\ \A i \in 1 .. Len(x) : x[i] \in DigitChars
      BY <1>3 DEF Plain, DigitsFrom
    <2>2. k = 0
      BY <1>1, <2>1, NoDigits
    <2>3. ~\E i \in 2 .. Len(x) : x[i] = "-"
      BY <1>1, <2>1, NoDigits
    <2>4. OnlyWith(x, {"-", PercentSign}) /\ HasDigit(x)
      BY <1>1, <2>1, DigitsSeen
    <2> QED BY <2>2, <2>3, <2>4 DEF LineTaken, k
  <1>4. ASSUME Negative(x) PROVE LineTaken(x)
    <2>1. Len(x) > 1 /\ x[1] = "-" /\ \A i \in 2 .. Len(x) : x[i] \in DigitChars
      BY <1>4 DEF Negative, DigitsFrom
    <2>2. \A i \in 1 .. Len(x) : i = 1 \/ i \in 2 .. Len(x)
      BY <1>1
    <2>3. k = 0
      BY <1>1, <2>1, <2>2, NoDigits
    <2>4. ~\E i \in 2 .. Len(x) : x[i] = "-"
      BY <1>1, <2>1, NoDigits
    <2>5. OnlyWith(x, {"-", PercentSign}) /\ HasDigit(x)
      BY <1>1, <2>1, <2>2, DigitsSeen
    <2> QED BY <2>3, <2>4, <2>5 DEF LineTaken, k
  <1>5. ASSUME PerCent(x) PROVE LineTaken(x)
    <2>1. Len(x) > 1 /\ x[Len(x)] = PercentSign /\ \A i \in 1 .. Len(x) - 1 : x[i] \in DigitChars
      BY <1>5 DEF PerCent, DigitsFrom
    <2>2. \A i \in 1 .. Len(x) : i = Len(x) \/ i \in 1 .. Len(x) - 1
      BY <1>1
    <2>3. k # 0 => k = Len(x)
      BY <1>1, <2>1, <2>2, NoDigits
    <2>4. x[1] # "-" /\ ~\E i \in 2 .. Len(x) : x[i] = "-"
      BY <1>1, <2>1, <2>2, NoDigits
    <2>5. OnlyWith(x, {"-", PercentSign}) /\ HasDigit(x)
      BY <1>1, <2>1, <2>2, DigitsSeen
    <2> QED BY <2>3, <2>4, <2>5 DEF LineTaken, k
  <1> QED BY <1>2, <1>3, <1>4, <1>5

\* No number of it is too long for an int.
ValueFits(x) == \A i \in 1 .. Len(x) : Spelt(x, i) < IntWord \div 2

\* A number that fits an int is kept as it is.
LEMMA Fitting ==
  ASSUME NEW y \in Nat, y < IntWord \div 2
  PROVE  /\ y < Half /\ Signed(y, IntWord) = y /\ Signed(-y, IntWord) = -y
         /\ Unsigned(y, IntWord) = y /\ Signed(-y, Word) = -y
  <1> DEFINE h == IntWord \div 2
  <1>1. h \in Nat /\ IntWord = 2 * h /\ IntWord \in Nat /\ IntWord <= Word /\ IntWord > 0
    BY SettingsAssumption
  <1> HIDE DEF h
  <1>2. y < h
    BY DEF h
  <1>3. y < Half
    BY <1>1, <1>2, WordIs
  <1>4. -y \in Wide
    BY <1>3, WordIs DEF Wide
  <1>5. ASSUME NEW z \in 0 .. IntWord - 1 PROVE z % IntWord = z
    BY <1>1
  <1>6. y + h \in 0 .. IntWord - 1 /\ -y + h \in 0 .. IntWord - 1 /\ y \in 0 .. IntWord - 1
    BY <1>1, <1>2
  <1>7. (y + h) % IntWord = y + h /\ (-y + h) % IntWord = -y + h /\ y % IntWord = y
    BY <1>5, <1>6
  <1>8. Signed(y, IntWord) = ((y + h) % IntWord) - h /\ Signed(-y, IntWord) = ((-y + h) % IntWord) - h
    BY DEF Signed, h
  <1>9. (y + h) - h = y /\ (-y + h) - h = -y
    BY <1>1
  <1> QED BY <1>3, <1>4, <1>7, <1>8, <1>9, SignedSame DEF Unsigned

\* Where the digits of a value end, and what they come to.
LEMMA DigitsEndAt ==
  ASSUME NEW x \in Line, NEW p \in 1 .. Len(x), NEW q \in p .. Len(x) + 1,
         DigitsFrom(x, p, q - 1), q = Len(x) + 1 \/ x[q] \notin DigitChars
  PROVE  DigitsEnd(x, p) = q /\ Count(x, p) = q - p
  <1>1. Len(x) \in Nat /\ p \in Nat /\ q \in Nat /\ q >= p
    BY LenProperties DEF Line
  <1>2. FirstOutside(x, p, q, DigitChars)
    BY <1>1 DEF FirstOutside, DigitsFrom
  <1>3. DigitsEnd(x, p) = q
    BY <1>1, <1>2, DigitsEndIs, OneFirstOutside
  <1> QED BY <1>3 DEF Count

LEMMA PlainIs ==
  ASSUME NEW x \in Line, Plain(x)
  PROVE  /\ ParseInt(x, 1).value = Worth(x, 1) /\ ParseInt(x, 1).next = Len(x) + 1
         /\ Said!NumberOf(x) = Spelt(x, 1)
         /\ x[Len(x)] # PercentSign /\ Head(x) # "-" /\ x # << >>
  <1>1. Len(x) \in Nat /\ Len(x) > 0 /\ \A i \in 1 .. Len(x) : x[i] \in DigitChars
    BY LenProperties DEF Line, Plain, DigitsFrom
  <1>2. DigitsEnd(x, 1) = Len(x) + 1 /\ Count(x, 1) = Len(x)
    <2> DEFINE q == Len(x) + 1
    <2>1. q \in 1 .. Len(x) + 1 /\ DigitsFrom(x, 1, q - 1) /\ 1 \in 1 .. Len(x)
      BY <1>1 DEF DigitsFrom
    <2>2. DigitsEnd(x, 1) = q /\ Count(x, 1) = q - 1
      <3> HIDE DEF q
      <3> QED BY <2>1, DigitsEndAt DEF q
    <2> QED BY <1>1, <2>2
  <1>3. IsDigit(Char(x, 1))
    BY <1>1 DEF IsDigit, Char
  <1>4. Said!NumberOf(x) = Said!Spelled(x, 1, Len(x))
    BY DEF Said!NumberOf
  <1>5. x # << >>
    BY <1>1, EmptySeq, LenProperties
  <1>6. Head(x) = x[1]
    OBVIOUS
  <1> QED BY <1>1, <1>2, <1>3, <1>4, <1>5, <1>6, ReadThere, NoDigits DEF Spelt

LEMMA PerCentIs ==
  ASSUME NEW x \in Line, PerCent(x)
  PROVE  /\ ParseInt(x, 1).value = Worth(x, 1) /\ ParseInt(x, 1).next = Len(x)
         /\ Said!NumberOf(Said!Front(x)) = Spelt(x, 1)
         /\ x[Len(x)] = PercentSign /\ Len(x) \in Nat /\ Len(x) > 1
  <1>1. /\ Len(x) \in Nat /\ Len(x) > 1 /\ \A i \in 1 .. Len(x) - 1 : x[i] \in DigitChars
        /\ x[Len(x)] = PercentSign
    BY LenProperties DEF Line, PerCent, DigitsFrom
  <1>2. DigitsEnd(x, 1) = Len(x) /\ Count(x, 1) = Len(x) - 1
    <2> DEFINE q == Len(x)
    <2>1. /\ q \in 1 .. Len(x) + 1 /\ DigitsFrom(x, 1, q - 1) /\ 1 \in 1 .. Len(x)
          /\ x[q] \notin DigitChars
      BY <1>1, NoDigits DEF DigitsFrom
    <2>2. DigitsEnd(x, 1) = q /\ Count(x, 1) = q - 1
      <3> HIDE DEF q
      <3> QED BY <2>1, DigitsEndAt
    <2> QED BY <1>1, <2>2
  <1>3. IsDigit(Char(x, 1))
    <2>1. 1 \in 1 .. Len(x) - 1 /\ 1 <= Len(x)
      BY <1>1
    <2> QED BY <1>1, <2>1 DEF IsDigit, Char
  <1>4. Said!NumberOf(Said!Front(x)) = Spelt(x, 1)
    <2>1. x # << >>
      BY <1>1, EmptySeq, LenProperties
    <2>2. /\ Len(Said!Front(x)) = Len(x) - 1
          /\ \A i \in 1 .. Len(x) - 1 : Said!Front(x)[i] = x[i]
      BY <2>1, FrontIs
    <2>3. Said!NumberOf(Said!Front(x)) = Said!Spelled(Said!Front(x), 1, Len(x) - 1)
      BY <2>2 DEF Said!NumberOf
    <2> DEFINE k == Len(x) - 1
               f == Said!Front(x)
    <2>4. k \in Nat
      BY <1>1
    <2>5. \A i \in 1 .. k : f[1 + i - 1] = x[1 + i - 1]
      <3>1. \A i \in 1 .. k : 1 + i - 1 = i
        BY <2>4
      <3> QED BY <2>2, <3>1
    <2> HIDE DEF k, f
    <2>6. Said!Spelled(f, 1, k) = Said!Spelled(x, 1, k)
      BY <2>4, <2>5, SpelledSame
    <2> QED BY <1>2, <2>3, <2>6 DEF Spelt, k, f
  <1> QED BY <1>1, <1>2, <1>3, <1>4, ReadThere

LEMMA NegativeIs ==
  ASSUME NEW x \in Line, Negative(x)
  PROVE  /\ ParseInt(x, 1).value = Signed(-Worth(x, 2), Word) /\ ParseInt(x, 1).next = Len(x) + 1
         /\ Said!NumberOf(Tail(x)) = Spelt(x, 2)
         /\ x[Len(x)] # PercentSign /\ Head(x) = "-" /\ Len(x) > 1 /\ Len(x) \in Nat
  <1>1. /\ Len(x) \in Nat /\ Len(x) > 1 /\ \A i \in 2 .. Len(x) : x[i] \in DigitChars
        /\ x[1] = "-" /\ 1 + 1 = 2
    BY LenProperties DEF Line, Negative, DigitsFrom
  <1>2. DigitsEnd(x, 2) = Len(x) + 1 /\ Count(x, 2) = Len(x) - 1
    <2> DEFINE q == Len(x) + 1
    <2>1. q \in 2 .. Len(x) + 1 /\ DigitsFrom(x, 2, q - 1) /\ 2 \in 1 .. Len(x)
      BY <1>1 DEF DigitsFrom
    <2>2. DigitsEnd(x, 2) = q /\ Count(x, 2) = q - 2
      <3> HIDE DEF q
      <3> QED BY <2>1, DigitsEndAt DEF q
    <2> QED BY <1>1, <2>2
  <1>3. Char(x, 1) = "-"
    BY <1>1 DEF Char
  <1>4. /\ ParseInt(x, 1).value = Signed(-Accumulate(x, 2, DigitsEnd(x, 2), Word), Word)
        /\ ParseInt(x, 1).next = DigitsEnd(x, 2)
    BY <1>1, <1>3 DEF ParseInt
  <1>5. Said!NumberOf(Tail(x)) = Spelt(x, 2)
    <2>1. x # << >>
      BY <1>1, EmptySeq, LenProperties
    <2>2. /\ Len(Tail(x)) = Len(x) - 1
          /\ \A i \in 1 .. Len(x) - 1 : Tail(x)[i] = x[i + 1]
      BY <2>1, FrontIs
    <2>3. Said!NumberOf(Tail(x)) = Said!Spelled(Tail(x), 1, Len(x) - 1)
      BY <2>2 DEF Said!NumberOf
    <2> DEFINE k == Len(x) - 1
               f == Tail(x)
    <2>4. k \in Nat
      BY <1>1
    <2>5. \A i \in 1 .. k : f[1 + i - 1] = x[2 + i - 1]
      <3>1. \A i \in 1 .. k : 1 + i - 1 = i /\ 2 + i - 1 = i + 1
        BY <2>4
      <3> QED BY <2>2, <3>1
    <2> HIDE DEF k, f
    <2>6. Said!Spelled(f, 1, k) = Said!Spelled(x, 2, k)
      BY <2>4, <2>5, SpelledSame
    <2> QED BY <1>2, <2>3, <2>6 DEF Spelt, k, f
  <1>6. x[Len(x)] # PercentSign /\ Head(x) = "-"
    <2>1. Head(x) = x[1]
      OBVIOUS
    <2>2. Len(x) \in 2 .. Len(x)
      BY <1>1
    <2>3. x[Len(x)] \in DigitChars
      BY <1>1, <2>2
    <2> QED BY <1>1, <2>1, <2>3, NoDigits
  <1> QED BY <1>1, <1>2, <1>4, <1>5, <1>6 DEF Worth

LEMMA MeansPercent ==
  ASSUME NEW x \in Line
  PROVE  Said!IsPercentage(x) <=> PerCent(x) /\ Spelt(x, 1) <= Hundred
  <1>1. Said!IsPercentage(x) <=> /\ x # << >> /\ x[Len(x)] = PercentSign /\ Said!IsNumber(Said!Front(x))
                                 /\ Said!NumberOf(Said!Front(x)) <= Hundred
    BY Zenon DEF Said!IsPercentage, PercentSign
  <1>2. Said!IsPercentage(x) <=> PerCent(x) /\ Said!NumberOf(Said!Front(x)) <= Hundred
    BY <1>1, PercentForm
  <1> QED BY <1>2, PerCentIs

LEMMA MeansLine ==
  ASSUME NEW x \in Line
  PROVE  Said!IsLine(x) <=> Plain(x) \/ Negative(x) \/ (PerCent(x) /\ Spelt(x, 1) <= Hundred)
  BY MeansPercent, LineForm DEF Said!IsLine

\* A percentage that is not too large fits an int, and what fits is read as it is spelled.
LEMMA WorthIs ==
  ASSUME NEW x \in Line, NEW p \in Nat
  PROVE  /\ Spelt(x, p) \in Nat
         /\ Spelt(x, p) <= Hundred => Spelt(x, p) < IntWord \div 2
         /\ Spelt(x, p) < IntWord \div 2 => Worth(x, p) = Spelt(x, p)
  <1>1. Spelt(x, p) \in Nat
    BY SpeltIs
  <1>2. Hundred \in Nat /\ Hundred < IntWord \div 2
    BY SettingsAssumption
  <1>3. Spelt(x, p) < IntWord \div 2 => Spelt(x, p) < Half
    BY <1>1, Fitting
  <1>4. Spelt(x, p) <= Hundred => Spelt(x, p) < IntWord \div 2
    <2> DEFINE h == IntWord \div 2
    <2>1. h \in Nat
      BY IntWordIs
    <2> HIDE DEF h
    <2>2. Hundred < h
      BY <1>2 DEF h
    <2>3. Spelt(x, p) <= Hundred => Spelt(x, p) < h
      BY <1>1, <1>2, <2>1, <2>2
    <2> QED BY <2>3 DEF h
  <1> QED BY <1>1, <1>3, <1>4, SpeltIs

\* webvtt_cue_set_position and _size take what is one.
LEMMA PercentageSetter ==
  ASSUME NEW x \in Line
  PROVE  /\ Said!IsPercentage(x) =>
              ~BadPercentage(x) /\ Percentage(x) = Said!NumberOf(Said!Front(x))
         /\ ValueFits(x) /\ ~Said!IsPercentage(x) => BadPercentage(x)
  <1>1. BadPercentage(x) <=> ~PerCent(x) \/ ParseInt(x, 1).value > Hundred
    <2>1. BadPercentage(x) <=> \/ ~(OnlyWith(x, {PercentSign}) /\ HasDigit(x) /\ Percent(x) = Len(x))
                               \/ ParseInt(x, 1).value > Hundred
      BY Zenon DEF BadPercentage, PercentSign
    <2> QED BY <2>1, PercentTaken
  <1>2. ASSUME PerCent(x), Spelt(x, 1) < IntWord \div 2
        PROVE  /\ ParseInt(x, 1).value = Spelt(x, 1)
               /\ Percentage(x) = Spelt(x, 1) /\ Said!NumberOf(Said!Front(x)) = Spelt(x, 1)
    <2>1. ParseInt(x, 1).value = Spelt(x, 1) /\ Said!NumberOf(Said!Front(x)) = Spelt(x, 1)
      BY <1>2, PerCentIs, WorthIs
    <2>2. Unsigned(Spelt(x, 1), IntWord) = Spelt(x, 1)
      BY <1>2, WorthIs, Fitting
    <2> QED BY <2>1, <2>2 DEF Percentage
  <1>3. Spelt(x, 1) \in Nat /\ Hundred \in Nat /\ (Spelt(x, 1) <= Hundred => Spelt(x, 1) < IntWord \div 2)
    BY WorthIs, SettingsAssumption
  <1>4. ASSUME Said!IsPercentage(x)
        PROVE  ~BadPercentage(x) /\ Percentage(x) = Said!NumberOf(Said!Front(x))
    <2>1. PerCent(x) /\ Spelt(x, 1) <= Hundred
      BY <1>4, MeansPercent
    <2>2. ParseInt(x, 1).value = Spelt(x, 1) /\ Percentage(x) = Said!NumberOf(Said!Front(x))
      BY <1>2, <1>3, <2>1
    <2>3. ~(Spelt(x, 1) > Hundred)
      BY <1>3, <2>1
    <2> QED BY <1>1, <2>1, <2>2, <2>3
  <1>5. ASSUME ValueFits(x), ~Said!IsPercentage(x), PerCent(x) PROVE BadPercentage(x)
    <2>1. 1 \in 1 .. Len(x)
      BY <1>5, PerCentIs
    <2>2. Spelt(x, 1) < IntWord \div 2
      BY <1>5, <2>1 DEF ValueFits
    <2>3. ParseInt(x, 1).value = Spelt(x, 1)
      BY <1>2, <1>5, <2>2
    <2>4. ~(Spelt(x, 1) <= Hundred)
      BY <1>5, MeansPercent
    <2>5. Spelt(x, 1) > Hundred
      BY <1>3, <2>4
    <2> QED BY <1>1, <2>3, <2>5
  <1> QED BY <1>1, <1>4, <1>5

\* webvtt_cue_set_line takes what is one.
HasSign(x) == Char(x, ParseInt(x, 1).next) = PercentSign
LineKept(x) == Signed(ParseInt(x, 1).value, IntWord)
BadLine(x) == ~LineTaken(x) \/ (HasSign(x) /\ ParseInt(x, 1).value > Hundred)

LEMMA LineSetter ==
  ASSUME NEW x \in Line
  PROVE  /\ Said!IsLine(x) => ~BadLine(x)
         /\ ValueFits(x) /\ ~Said!IsLine(x) => BadLine(x)
         /\ ValueFits(x) /\ Said!IsLine(x) =>
              LineKept(x) = Said!LineNumber(x) /\ (HasSign(x) <=> x[Len(x)] = PercentSign)
  <1>1. /\ Said!IsLine(x) <=> Plain(x) \/ Negative(x) \/ (PerCent(x) /\ Spelt(x, 1) <= Hundred)
        /\ LineTaken(x) <=> Plain(x) \/ Negative(x) \/ PerCent(x)
    BY MeansLine, LineIsTaken
  <1>2. Len(x) \in Nat /\ Hundred \in Nat /\ Spelt(x, 1) \in Nat
    BY LenProperties, SettingsAssumption, WorthIs DEF Line
  <1>3. Said!LineNumber(x) = IF x[Len(x)] = PercentSign THEN Said!NumberOf(Said!Front(x))
                             ELSE IF Head(x) = "-" THEN -Said!NumberOf(Tail(x)) ELSE Said!NumberOf(x)
    BY Zenon DEF Said!LineNumber, PercentSign
  <1>4. CASE Plain(x)
    <2>1. ~HasSign(x) /\ x[Len(x)] # PercentSign
      BY <1>2, <1>4, PlainIs, NoDigits DEF HasSign, Char
    <2>2. ASSUME ValueFits(x) PROVE LineKept(x) = Said!LineNumber(x)
      <3>1. Len(x) > 0 /\ 1 \in 1 .. Len(x)
        BY <1>2, <1>4 DEF Plain
      <3>2. Spelt(x, 1) < IntWord \div 2
        BY <2>2, <3>1 DEF ValueFits
      <3>3. ParseInt(x, 1).value = Spelt(x, 1) /\ Signed(Spelt(x, 1), IntWord) = Spelt(x, 1)
        BY <1>4, <3>2, PlainIs, WorthIs, Fitting
      <3>4. Said!LineNumber(x) = Spelt(x, 1)
        BY <1>3, <1>4, PlainIs
      <3> QED BY <3>3, <3>4 DEF LineKept
    <2> QED BY <1>1, <1>4, <2>1, <2>2 DEF BadLine
  <1>5. CASE Negative(x)
    <2>1. ~HasSign(x) /\ x[Len(x)] # PercentSign
      BY <1>2, <1>5, NegativeIs, NoDigits DEF HasSign, Char
    <2>2. ASSUME ValueFits(x) PROVE LineKept(x) = Said!LineNumber(x)
      <3>1. 2 \in 1 .. Len(x)
        BY <1>2, <1>5, NegativeIs
      <3>2. Spelt(x, 2) < IntWord \div 2 /\ Spelt(x, 2) \in Nat /\ Worth(x, 2) = Spelt(x, 2)
        BY <2>2, <3>1, WorthIs DEF ValueFits
      <3> DEFINE y == Spelt(x, 2)
      <3>3. Signed(-y, Word) = -y /\ Signed(-y, IntWord) = -y
        <4> HIDE DEF y
        <4> QED BY <3>2, Fitting DEF y
      <3>4. ParseInt(x, 1).value = Signed(-y, Word)
        BY <1>5, <3>2, NegativeIs
      <3>5. Said!LineNumber(x) = -y
        BY <1>3, <1>5, NegativeIs
      <3> HIDE DEF y
      <3> QED BY <3>3, <3>4, <3>5 DEF LineKept
    <2> QED BY <1>1, <1>5, <2>1, <2>2 DEF BadLine
  <1>6. CASE PerCent(x)
    <2>1. HasSign(x) /\ x[Len(x)] = PercentSign
      BY <1>2, <1>6, PerCentIs DEF HasSign, Char
    <2>2. ~Plain(x) /\ ~Negative(x)
      BY <2>1, PlainIs, NegativeIs
    <2>3. ASSUME Spelt(x, 1) < IntWord \div 2
          PROVE  ParseInt(x, 1).value = Spelt(x, 1) /\ LineKept(x) = Said!LineNumber(x)
      <3>1. ParseInt(x, 1).value = Spelt(x, 1) /\ Said!NumberOf(Said!Front(x)) = Spelt(x, 1)
        BY <1>6, <2>3, PerCentIs, WorthIs
      <3>2. Signed(Spelt(x, 1), IntWord) = Spelt(x, 1)
        BY <1>2, <2>3, Fitting
      <3> QED BY <1>3, <2>1, <3>1, <3>2 DEF LineKept
    <2>4. ValueFits(x) => Spelt(x, 1) < IntWord \div 2
      <3>1. 1 \in 1 .. Len(x)
        BY <1>6, PerCentIs
      <3> QED BY <3>1 DEF ValueFits
    <2>5. Spelt(x, 1) <= Hundred => Spelt(x, 1) < IntWord \div 2
      BY WorthIs
    <2>6. Spelt(x, 1) <= Hundred <=> ~(Spelt(x, 1) > Hundred)
      BY <1>2
    <2> QED BY <1>1, <1>6, <2>1, <2>2, <2>3, <2>4, <2>5, <2>6 DEF BadLine
  <1>7. CASE ~(Plain(x) \/ Negative(x) \/ PerCent(x))
    BY <1>1, <1>7 DEF BadLine
  <1> QED BY <1>4, <1>5, <1>6, <1>7

\* The value is one that the key takes, and what it is taken for.
Takes(key, x) ==
  CASE key = "align"    -> \E a \in Aligns : x = <<a>>
    [] key = "vertical" -> \E a \in Verticals : x = <<a>>
    [] key = "line"     -> Said!IsLine(x)
    [] OTHER            -> Said!IsPercentage(x)

Given(c, key, x) ==
  [align    |-> IF key = "align" THEN x[1] ELSE c.align,
   vertical |-> IF key = "vertical" THEN x[1] ELSE c.vertical,
   position |-> IF key = "position" THEN Said!NumberOf(Said!Front(x)) ELSE c.position,
   size     |-> IF key = "size" THEN Said!NumberOf(Said!Front(x)) ELSE c.size,
   line     |-> IF key = "line" THEN Said!LineNumber(x) ELSE c.line,
   snap     |-> IF key = "line" THEN x[Len(x)] # PercentSign ELSE c.snap,
   have     |-> c.have \cup {key}]

Agrees(r, c, key, x) ==
  /\ Takes(key, x) => r.status = <<IF key \in c.have THEN "ALREADY" ELSE "SUCCESS", key>>
  /\ ValueFits(x) /\ ~Takes(key, x) => r = Refused(c, key)
  /\ ValueFits(x) /\ Takes(key, x) => r.settings = Given(c, key, x)

\* Settings, field by field.
Record(a, l, q, p, z, u, h) ==
  [align |-> a, line |-> l, snap |-> q, position |-> p, size |-> z, vertical |-> u, have |-> h]
RecordOf(c) == Record(c.align, c.line, c.snap, c.position, c.size, c.vertical, c.have)

LEMMA RecordIs == ASSUME NEW c \in SettingsType PROVE c = RecordOf(c)
  BY DEF RecordOf, Record, SettingsType

\* Settings with one more flag.
Having(r, y) == [r EXCEPT !.have = @ \cup {y}]

LEMMA RecordHas ==
  ASSUME NEW a, NEW l, NEW q, NEW p, NEW z, NEW u, NEW h, NEW y, NEW r, r = Record(a, l, q, p, z, u, h)
  PROVE  Having(r, y) = Record(a, l, q, p, z, u, h \cup {y})
  BY DEF Record, Having

LEMMA TwoFields ==
  ASSUME NEW c, NEW y, NEW z
  PROVE  [c EXCEPT !.line = y, !.snap = z] = [[c EXCEPT !.line = y] EXCEPT !.snap = z]
  OBVIOUS

LEMMA GivenIs ==
  ASSUME NEW c, NEW x
  PROVE  /\ Given(c, "align", x) =
              Record(x[1], c.line, c.snap, c.position, c.size, c.vertical, c.have \cup {"align"})
         /\ Given(c, "vertical", x) =
              Record(c.align, c.line, c.snap, c.position, c.size, x[1], c.have \cup {"vertical"})
         /\ Given(c, "position", x) =
              Record(c.align, c.line, c.snap, Said!NumberOf(Said!Front(x)), c.size, c.vertical,
                     c.have \cup {"position"})
         /\ Given(c, "size", x) =
              Record(c.align, c.line, c.snap, c.position, Said!NumberOf(Said!Front(x)), c.vertical,
                     c.have \cup {"size"})
         /\ Given(c, "line", x) =
              Record(c.align, Said!LineNumber(x), x[Len(x)] # PercentSign, c.position, c.size,
                     c.vertical, c.have \cup {"line"})
  BY DEF Given, Record

LEMMA TakenIs ==
  ASSUME NEW new, NEW c, NEW key
  PROVE  /\ Taken(new, c, key).status = <<IF key \in c.have THEN "ALREADY" ELSE "SUCCESS", key>>
         /\ Taken(new, c, key).settings = Having(new, key)
  BY DEF Taken, Having

LEMMA AlignAgrees ==
  ASSUME NEW c \in SettingsType, NEW x \in Line
  PROVE  Agrees(SetAlign(c, x), c, "align", x)
  <1>1. Takes("align", x) <=> \E a \in Aligns : x = <<a>>
    BY DEF Takes
  <1>2. CASE ~Takes("align", x)
    BY <1>1, <1>2 DEF Agrees, SetAlign
  <1>3. CASE Takes("align", x)
    <2> DEFINE new == [c EXCEPT !.align = x[1]]
    <2>1. SetAlign(c, x) = Taken(new, c, "align")
      BY <1>1, <1>3 DEF SetAlign
    <2>2. Having(new, "align") = Given(c, "align", x)
      <3>1. c = RecordOf(c)
        BY RecordIs
      <3>2. new = [RecordOf(c) EXCEPT !.align = x[1]]
        BY <3>1
      <3> HIDE DEF new
      <3>3. new = Record(x[1], c.line, c.snap, c.position, c.size, c.vertical, c.have)
        BY <3>2 DEF RecordOf, Record
      <3>4. Having(new, "align") =
              Record(x[1], c.line, c.snap, c.position, c.size, c.vertical, c.have \cup {"align"})
        BY ONLY <3>3, RecordHas
      <3> QED BY <3>4, GivenIs
    <2> HIDE DEF new
    <2> QED BY <1>3, <2>1, <2>2, TakenIs DEF Agrees
  <1> QED BY <1>2, <1>3

LEMMA VerticalAgrees ==
  ASSUME NEW c \in SettingsType, NEW x \in Line
  PROVE  Agrees(SetVertical(c, x), c, "vertical", x)
  <1>1. Takes("vertical", x) <=> \E a \in Verticals : x = <<a>>
    BY DEF Takes
  <1>2. CASE ~Takes("vertical", x)
    BY <1>1, <1>2 DEF Agrees, SetVertical
  <1>3. CASE Takes("vertical", x)
    <2> DEFINE new == [c EXCEPT !.vertical = x[1]]
    <2>1. SetVertical(c, x) = Taken(new, c, "vertical")
      BY <1>1, <1>3 DEF SetVertical
    <2>2. Having(new, "vertical") = Given(c, "vertical", x)
      <3>1. c = RecordOf(c)
        BY RecordIs
      <3>2. new = [RecordOf(c) EXCEPT !.vertical = x[1]]
        BY <3>1
      <3> HIDE DEF new
      <3>3. new = Record(c.align, c.line, c.snap, c.position, c.size, x[1], c.have)
        BY <3>2 DEF RecordOf, Record
      <3>4. Having(new, "vertical") =
              Record(c.align, c.line, c.snap, c.position, c.size, x[1], c.have \cup {"vertical"})
        BY ONLY <3>3, RecordHas
      <3> QED BY <3>4, GivenIs
    <2> HIDE DEF new
    <2> QED BY <1>3, <2>1, <2>2, TakenIs DEF Agrees
  <1> QED BY <1>2, <1>3

LEMMA PercentAgrees ==
  ASSUME NEW c \in SettingsType, NEW x \in Line
  PROVE  /\ Agrees(SetPosition(c, x), c, "position", x)
         /\ Agrees(SetSize(c, x), c, "size", x)
  <1> DEFINE y == Said!NumberOf(Said!Front(x))
  <1>1. /\ Takes("position", x) <=> Said!IsPercentage(x)
        /\ Takes("size", x) <=> Said!IsPercentage(x)
    BY DEF Takes
  <1>2. /\ Said!IsPercentage(x) => ~BadPercentage(x) /\ Percentage(x) = y
        /\ ValueFits(x) /\ ~Said!IsPercentage(x) => BadPercentage(x)
    BY PercentageSetter
  <1>3. CASE BadPercentage(x)
    BY <1>1, <1>2, <1>3 DEF Agrees, SetPosition, SetSize
  <1>4. CASE ~BadPercentage(x) /\ ~Said!IsPercentage(x)
    BY <1>1, <1>2, <1>4 DEF Agrees
  <1>5. CASE ~BadPercentage(x) /\ Said!IsPercentage(x)
    <2> DEFINE first == [c EXCEPT !.position = y]
               second == [c EXCEPT !.size = y]
    <2>1. SetPosition(c, x) = Taken(first, c, "position") /\ SetSize(c, x) = Taken(second, c, "size")
      BY <1>2, <1>5, Zenon DEF SetPosition, SetSize
    <2>2. Having(first, "position") = Given(c, "position", x)
      <3>1. c = RecordOf(c)
        BY RecordIs
      <3>2. first = [RecordOf(c) EXCEPT !.position = y]
        BY <3>1
      <3> HIDE DEF first
      <3>3. first = Record(c.align, c.line, c.snap, y, c.size, c.vertical, c.have)
        BY <3>2 DEF RecordOf, Record
      <3> HIDE DEF y
      <3>4. Having(first, "position") =
              Record(c.align, c.line, c.snap, y, c.size, c.vertical, c.have \cup {"position"})
        BY ONLY <3>3, RecordHas
      <3> QED BY <3>4, GivenIs DEF y
    <2>3. Having(second, "size") = Given(c, "size", x)
      <3>1. c = RecordOf(c)
        BY RecordIs
      <3>2. second = [RecordOf(c) EXCEPT !.size = y]
        BY <3>1
      <3> HIDE DEF second
      <3>3. second = Record(c.align, c.line, c.snap, c.position, y, c.vertical, c.have)
        BY <3>2 DEF RecordOf, Record
      <3> HIDE DEF y
      <3>4. Having(second, "size") =
              Record(c.align, c.line, c.snap, c.position, y, c.vertical, c.have \cup {"size"})
        BY ONLY <3>3, RecordHas
      <3> QED BY <3>4, GivenIs DEF y
    <2> HIDE DEF first, second
    <2> QED BY <1>1, <1>5, <2>1, <2>2, <2>3, TakenIs DEF Agrees
  <1> QED BY <1>3, <1>4, <1>5

LEMMA LineAgrees ==
  ASSUME NEW c \in SettingsType, NEW x \in Line
  PROVE  Agrees(SetLine(c, x), c, "line", x)
  <1> DEFINE new == [c EXCEPT !.line = LineKept(x), !.snap = ~HasSign(x)]
  <1>1. Takes("line", x) <=> Said!IsLine(x)
    BY DEF Takes
  <1>2. SetLine(c, x) = IF BadLine(x) THEN Refused(c, "line") ELSE Taken(new, c, "line")
    <2>1. SetLine(c, x) =
            IF \/ ~OnlyWith(x, {"-", PercentSign}) \/ ~HasDigit(x)
               \/ \E i \in 2 .. Len(x) : x[i] = "-"
               \/ Percent(x) # 0 /\ (Percent(x) # Len(x) \/ x[1] = "-")
               \/ HasSign(x) /\ ParseInt(x, 1).value > Hundred
            THEN Refused(c, "line") ELSE Taken(new, c, "line")
      BY Zenon DEF SetLine, PercentSign, HasSign, LineKept
    <2> QED BY <2>1, Zenon DEF BadLine, LineTaken
  <1>3. /\ Said!IsLine(x) => ~BadLine(x)
        /\ ValueFits(x) /\ ~Said!IsLine(x) => BadLine(x)
        /\ ValueFits(x) /\ Said!IsLine(x) =>
             LineKept(x) = Said!LineNumber(x) /\ (HasSign(x) <=> x[Len(x)] = PercentSign)
    BY LineSetter
  <1>4. CASE BadLine(x)
    BY <1>1, <1>2, <1>3, <1>4 DEF Agrees
  <1>5. CASE ~BadLine(x)
    <2>1. SetLine(c, x) = Taken(new, c, "line")
      BY <1>2, <1>5
    <2>2. ASSUME ValueFits(x), Said!IsLine(x)
          PROVE  Having(new, "line") = Given(c, "line", x)
      <3> DEFINE q == (x[Len(x)] # PercentSign)
                 k == Said!LineNumber(x)
      <3>1. LineKept(x) = k /\ (~HasSign(x)) = q
        BY <1>3, <2>2
      <3>2. c = RecordOf(c)
        BY RecordIs
      <3>3. new = [c EXCEPT !.line = k, !.snap = q]
        <4> HIDE DEF q, k
        <4> QED BY <3>1
      <3> HIDE DEF q, k, new
      <3>4. new = [[c EXCEPT !.line = k] EXCEPT !.snap = q]
        BY <3>3, TwoFields
      <3>5. new = [[RecordOf(c) EXCEPT !.line = k] EXCEPT !.snap = q]
        BY <3>2, <3>4
      <3>6. [RecordOf(c) EXCEPT !.line = k] =
              Record(c.align, k, c.snap, c.position, c.size, c.vertical, c.have)
        BY DEF RecordOf, Record
      <3>7. new = Record(c.align, k, q, c.position, c.size, c.vertical, c.have)
        <4>1. new = [Record(c.align, k, c.snap, c.position, c.size, c.vertical, c.have) EXCEPT !.snap = q]
          BY <3>5, <3>6
        <4> QED BY ONLY <4>1 DEF Record
      <3>8. Given(c, "line", x) =
              Record(c.align, k, q, c.position, c.size, c.vertical, c.have \cup {"line"})
        BY GivenIs DEF q, k
      <3>9. Having(new, "line") =
              Record(c.align, k, q, c.position, c.size, c.vertical, c.have \cup {"line"})
        BY ONLY <3>7, RecordHas
      <3> QED BY <3>8, <3>9
    <2> HIDE DEF new
    <2>3. Takes("line", x)
      => SetLine(c, x).status = <<IF "line" \in c.have THEN "ALREADY" ELSE "SUCCESS", "line">>
      <3>1. Taken(new, c, "line").status = <<IF "line" \in c.have THEN "ALREADY" ELSE "SUCCESS", "line">>
        BY TakenIs
      <3> QED BY <2>1, <3>1
    <2>4. ~(ValueFits(x) /\ ~Takes("line", x))
      BY <1>1, <1>3, <1>5
    <2>5. ValueFits(x) /\ Takes("line", x) => SetLine(c, x).settings = Given(c, "line", x)
      BY <1>1, <2>1, <2>2, TakenIs
    <2> QED BY <2>3, <2>4, <2>5, Zenon DEF Agrees
  <1> QED BY <1>4, <1>5

\* So do all of them: what takes a value takes what is one.
LEMMA SettersAgree ==
  ASSUME NEW c \in SettingsType, NEW key \in Keys, NEW x \in Line
  PROVE  Agrees(SetSetting(c, <<key>>, x), c, key, x)
  <1>1. CASE key = "align"
    BY <1>1, AlignAgrees DEF SetSetting
  <1>2. CASE key = "line"
    BY <1>2, LineAgrees DEF SetSetting
  <1>3. CASE key = "position"
    BY <1>3, PercentAgrees DEF SetSetting
  <1>4. CASE key = "size"
    BY <1>4, PercentAgrees DEF SetSetting
  <1>5. CASE key = "vertical"
    BY <1>5, VerticalAgrees DEF SetSetting
  <1> QED BY <1>1, <1>2, <1>3, <1>4, <1>5 DEF Keys

-----------------------------------------------------------------------------
(* Words.                                                                  *)

KeyOf(w) == Said!Key(w)
ValueOf(w) == Said!Value(w)

LEMMA SplitIs ==
  ASSUME NEW w \in Line
  PROVE  LET k == SpotOf(w, ":") IN
         /\ k \in 0 .. Len(w) /\ Len(w) \in Nat /\ ColonAt(w) = k
         /\ KeyOf(w) = IF k > 1 /\ k < Len(w) THEN SubSeq(w, 1, k - 1) ELSE << >>
         /\ ValueOf(w) = SubSeq(w, k + 1, Len(w)) /\ ValueOf(w) \in Line
         /\ k > 1 => Len(SubSeq(w, 1, k - 1)) = k - 1
  <1> DEFINE k == SpotOf(w, ":")
  <1>1. k \in 0 .. Len(w) /\ Len(w) \in Nat /\ ColonAt(w) = k
    BY SpotIs, PlacesFound, LenProperties DEF Line
  <1>2. KeyOf(w) = IF k > 1 /\ k < Len(w) THEN SubSeq(w, 1, k - 1) ELSE << >>
    BY PlacesFound, Zenon DEF KeyOf, Said!Key
  <1>3. ValueOf(w) = SubSeq(w, k + 1, Len(w))
    BY PlacesFound, Zenon DEF ValueOf, Said!Value
  <1> HIDE DEF k
  <1>4. \A i \in 1 .. Len(w) : w[i] \in STRING
    BY ElementOfSeq DEF Line
  <1>5. SubSeq(w, k + 1, Len(w)) \in Line
    <2>1. \A i \in k + 1 .. Len(w) : w[i] \in STRING
      BY <1>1, <1>4
    <2>2. k + 1 \in Int /\ Len(w) \in Int
      BY <1>1
    <2> QED BY <2>1, <2>2, SubSeqProperties DEF Line
  <1>6. ASSUME k > 1 PROVE Len(SubSeq(w, 1, k - 1)) = k - 1
    <2> DEFINE m == k - 1
    <2>1. m \in Int /\ 1 <= m /\ m - 1 + 1 = m /\ \A i \in 1 .. m : w[i] \in STRING
      BY <1>1, <1>4, <1>6
    <2> HIDE DEF m
    <2>2. Len(SubSeq(w, 1, m)) = m
      BY <2>1, SubSeqProperties
    <2> QED BY <2>2 DEF m
  <1> QED BY <1>1, <1>2, <1>3, <1>5, <1>6 DEF k

LEMMA MeansIs ==
  ASSUME NEW w, NEW key \in Keys
  PROVE  Said!Means(w, key) <=> KeyOf(w) = <<key>> /\ Takes(key, ValueOf(w))
  <1>1. ValueOf(w) \in {<<"lr">>, <<"rl">>} <=> \E a \in Verticals : ValueOf(w) = <<a>>
    BY Zenon DEF Verticals
  <1>2. (\E a \in {"start", "middle", "end", "left", "right"} : ValueOf(w) = <<a>>)
        <=> \E a \in Aligns : ValueOf(w) = <<a>>
    BY Zenon DEF Aligns
  <1>3. CASE key = "align"
    BY <1>2, <1>3 DEF Said!Means, Takes, KeyOf, ValueOf
  <1>4. CASE key = "vertical"
    BY <1>1, <1>4 DEF Said!Means, Takes, KeyOf, ValueOf
  <1>5. CASE key = "line"
    BY <1>5 DEF Said!Means, Takes, KeyOf, ValueOf
  <1>6. CASE key \in {"position", "size"}
    BY <1>6 DEF Said!Means, Takes, KeyOf, ValueOf
  <1> QED BY <1>3, <1>4, <1>5, <1>6 DEF Keys

\* The word goes to the setter of its key, if there is one.
LEMMA SetterFound ==
  ASSUME NEW c, NEW w \in Line
  PROVE  /\ \A key \in Keys : KeyOf(w) = <<key>> =>
              SetFromString(c, w) = SetSetting(c, <<key>>, ValueOf(w))
         /\ (\A key \in Keys : KeyOf(w) # <<key>>) => SetFromString(c, w) = Refused(c, "cuesetting")
  <1> DEFINE k == SpotOf(w, ":")
             name == SubSeq(w, 1, k - 1)
  <1>1. /\ k \in 0 .. Len(w) /\ Len(w) \in Nat /\ ColonAt(w) = k
        /\ KeyOf(w) = IF k > 1 /\ k < Len(w) THEN name ELSE << >>
        /\ ValueOf(w) = SubSeq(w, k + 1, Len(w))
        /\ k > 1 => Len(name) = k - 1
    BY SplitIs
  <1>2. KeyRoom \in Nat /\ KeyRoom > 1
    BY SettingsAssumption
  <1>3. KeyLength(w) = k - 1 /\ (Splits(w) <=> k > 1 /\ k < Len(w))
    <2>1. KeyLength(w) = k - 1
      BY <1>1 DEF KeyLength
    <2>2. Splits(w) <=> k \notin {0, 1, Len(w)}
      BY <1>1 DEF Splits
    <2> HIDE DEF k
    <2> QED BY <1>1, <2>1, <2>2
  <1>4. SetFromString(c, w) = IF Copied(w) = 0 THEN Refused(c, "cuesetting")
                              ELSE SetSetting(c, name, ValueOf(w))
    BY <1>1, <1>3, Zenon DEF SetFromString
  <1>5. ASSUME NEW key \in Keys, KeyOf(w) = <<key>>
        PROVE  SetFromString(c, w) = SetSetting(c, <<key>>, ValueOf(w))
    <2>1. <<key>> # << >> /\ Len(<<key>>) = 1
      OBVIOUS
    <2>2. k > 1 /\ k < Len(w) /\ name = <<key>>
      <3> HIDE DEF k, name
      <3> QED BY <1>1, <1>5, <2>1
    <2>3. Copied(w) # 0
      <3> HIDE DEF k, name
      <3>1. k - 1 = 1
        BY <1>1, <2>1, <2>2
      <3> QED BY <1>2, <1>3, <2>2, <3>1 DEF Copied
    <2> QED BY <1>4, <2>2, <2>3, Zenon
  <1>6. ASSUME \A key \in Keys : KeyOf(w) # <<key>>
        PROVE  SetFromString(c, w) = Refused(c, "cuesetting")
    <2>1. CASE Copied(w) = 0
      BY <1>4, <2>1
    <2>2. CASE Copied(w) # 0
      <3>1. KeyOf(w) = name
        BY <1>1, <1>3, <2>2 DEF Copied
      <3>2. /\ name # <<"align">> /\ name # <<"line">> /\ name # <<"position">>
            /\ name # <<"size">> /\ name # <<"vertical">>
        BY <1>6, <3>1, Zenon DEF Keys
      <3> HIDE DEF name
      <3>3. SetSetting(c, name, ValueOf(w)) = Refused(c, "cuesetting")
        BY <3>2, Zenon DEF SetSetting
      <3> QED BY <1>4, <2>2, <3>3
    <2> QED BY <2>1, <2>2
  <1> QED BY <1>5, <1>6

LEMMA WordFitsIs ==
  ASSUME NEW w \in Line, Said!WordFits(w), KeyOf(w) # << >>
  PROVE  ValueFits(ValueOf(w))
  <1> DEFINE x == ValueOf(w)
  <1>1. x \in Line
    BY SplitIs
  <1>2. \A i \in DOMAIN x : Said!Spelled(x, i, Said!Run(x, i)) < IntWord \div 2
    BY DEF Said!WordFits, KeyOf, ValueOf
  <1> HIDE DEF x
  <1>3. DOMAIN x = 1 .. Len(x)
    BY <1>1, LenProperties DEF Line
  <1>4. ASSUME NEW i \in 1 .. Len(x) PROVE Spelt(x, i) < IntWord \div 2
    <2>1. i \in Nat
      OBVIOUS
    <2>2. Said!Run(x, i) = Count(x, i)
      BY <1>1, <2>1, SaidRuns
    <2>3. i \in DOMAIN x
      BY <1>3
    <2>4. Said!Spelled(x, i, Said!Run(x, i)) < IntWord \div 2
      BY <1>2, <2>3
    <2> QED BY <2>2, <2>4 DEF Spelt
  <1> QED BY <1>4 DEF ValueFits, x

\* What is left of settings after a word, and what is said of it.
LEMMA WordGives ==
  ASSUME NEW c \in SettingsType, NEW w \in Line
  PROVE  LET r == SetFromString(c, w) IN
         /\ \A key \in Keys : Said!Means(w, key) =>
              r.status = <<IF key \in c.have THEN "ALREADY" ELSE "SUCCESS", key>>
         /\ \A key \in Keys : Said!Means(w, key) /\ Said!WordFits(w) =>
              r.settings = Given(c, key, ValueOf(w))
         /\ \A key \in Keys : KeyOf(w) = <<key>> /\ ~Said!Means(w, key) /\ Said!WordFits(w) =>
              r = Refused(c, key)
         /\ (\A key \in Keys : KeyOf(w) # <<key>>) => r = Refused(c, "cuesetting")
  <1> DEFINE r == SetFromString(c, w)
  <1>1. ValueOf(w) \in Line
    BY SplitIs
  <1>2. ASSUME NEW key \in Keys, KeyOf(w) = <<key>>
        PROVE  /\ Agrees(r, c, key, ValueOf(w)) /\ (Said!Means(w, key) <=> Takes(key, ValueOf(w)))
               /\ Said!WordFits(w) => ValueFits(ValueOf(w))
    <2>1. r = SetSetting(c, <<key>>, ValueOf(w))
      BY <1>2, SetterFound
    <2>2. Agrees(r, c, key, ValueOf(w))
      BY <1>1, <2>1, SettersAgree
    <2>3. Said!Means(w, key) <=> Takes(key, ValueOf(w))
      BY <1>2, MeansIs
    <2>4. KeyOf(w) # << >>
      BY <1>2
    <2> QED BY <2>2, <2>3, <2>4, WordFitsIs
  <1>3. \A key \in Keys : Said!Means(w, key) => KeyOf(w) = <<key>>
    BY MeansIs
  <1>4. (\A key \in Keys : KeyOf(w) # <<key>>) => r = Refused(c, "cuesetting")
    BY SetterFound
  <1> HIDE DEF r
  <1>5. \A key \in Keys : Said!Means(w, key) =>
              r.status = <<IF key \in c.have THEN "ALREADY" ELSE "SUCCESS", key>>
    BY <1>2, <1>3 DEF Agrees
  <1>6. \A key \in Keys : Said!Means(w, key) /\ Said!WordFits(w) =>
              r.settings = Given(c, key, ValueOf(w))
    BY <1>2, <1>3 DEF Agrees
  <1>7. \A key \in Keys : KeyOf(w) = <<key>> /\ ~Said!Means(w, key) /\ Said!WordFits(w) =>
              r = Refused(c, key)
    BY <1>2 DEF Agrees
  <1> QED BY <1>4, <1>5, <1>6, <1>7 DEF r

-----------------------------------------------------------------------------
(* The words of a line.                                                    *)

\* The settings when the last word of each key is at place f[key], 0 if there is none.
FinalOf(f, s, c) ==
  LET Of(key) == ValueOf(Said!WordAt(s, f[key])) IN
  [align    |-> IF f["align"] = 0 THEN c.align ELSE Of("align")[1],
   vertical |-> IF f["vertical"] = 0 THEN c.vertical ELSE Of("vertical")[1],
   position |-> IF f["position"] = 0 THEN c.position ELSE Said!NumberOf(Said!Front(Of("position"))),
   size     |-> IF f["size"] = 0 THEN c.size ELSE Said!NumberOf(Said!Front(Of("size"))),
   line     |-> IF f["line"] = 0 THEN c.line ELSE Said!LineNumber(Of("line")),
   snap     |-> IF f["line"] = 0 THEN c.snap ELSE Of("line")[Len(Of("line"))] # PercentSign,
   have     |-> c.have \cup {key \in Keys : f[key] # 0}]

Lasts(s, S) == [key \in Keys |-> Said!LastMeaning(s, S, key)]

LEMMA FinalIs ==
  ASSUME NEW s, NEW S, NEW c
  PROVE  Said!Final(s, S, c) = FinalOf(Lasts(s, S), s, c)
  <1> DEFINE f == Lasts(s, S)
  <1>1. /\ f["align"] = Said!LastMeaning(s, S, "align") /\ f["line"] = Said!LastMeaning(s, S, "line")
        /\ f["position"] = Said!LastMeaning(s, S, "position")
        /\ f["size"] = Said!LastMeaning(s, S, "size")
        /\ f["vertical"] = Said!LastMeaning(s, S, "vertical")
        /\ \A key \in Keys : f[key] = Said!LastMeaning(s, S, key)
    BY DEF Lasts, Keys
  <1> HIDE DEF f
  <1>2. {key \in Said!TextKeys : Said!LastMeaning(s, S, key) # 0} = {key \in Keys : f[key] # 0}
    BY <1>1 DEF Said!TextKeys, Keys
  <1>3. Said!Final(s, S, c) = FinalOf(f, s, c)
    BY <1>1, <1>2, Zenon DEF Said!Final, FinalOf, ValueOf, PercentSign
  <1> QED BY <1>3 DEF f

\* One more word after those at the places S.
LEMMA LastMore ==
  ASSUME NEW s, NEW S \in SUBSET Nat, NEW i \in Nat \ {0}, \A j \in S : j < i, NEW key
  PROVE  Said!LastMeaning(s, S \cup {i}, key) =
           IF Said!Means(Said!WordAt(s, i), key) THEN i ELSE Said!LastMeaning(s, S, key)
  <1> DEFINE M == Said!Meaning(s, S, key)
             N == Said!Meaning(s, S \cup {i}, key)
  <1>1. CASE Said!Means(Said!WordAt(s, i), key)
    <2>1. i \in N /\ \A j \in N : j \in Nat /\ j <= i
      BY <1>1 DEF Said!Meaning
    <2> HIDE DEF N
    <2> DEFINE m == Said!Max(N)
    <2>2. m \in N /\ m >= i
      <3>1. \E x \in N : \A y \in N : x >= y
        BY <2>1
      <3>2. m = CHOOSE x \in N : \A y \in N : x >= y
        BY DEF Said!Max
      <3> HIDE DEF m
      <3>3. m \in N /\ \A y \in N : m >= y
        BY <3>1, <3>2
      <3> QED BY <2>1, <3>3
    <2> HIDE DEF m
    <2>3. m = i
      BY <2>1, <2>2
    <2>4. N # {}
      BY <2>1
    <2> QED BY <1>1, <2>3, <2>4 DEF Said!LastMeaning, N, m
  <1>2. CASE ~Said!Means(Said!WordAt(s, i), key)
    <2>1. N = M
      BY <1>2 DEF Said!Meaning
    <2> QED BY <1>2, <2>1 DEF Said!LastMeaning
  <1> QED BY <1>1, <1>2

LEMMA FinalMore ==
  ASSUME NEW s, NEW S \in SUBSET Nat, NEW i \in Nat \ {0}, \A j \in S : j < i, NEW c,
         NEW key \in Keys, Said!Means(Said!WordAt(s, i), key)
  PROVE  Said!Final(s, S \cup {i}, c) = Given(Said!Final(s, S, c), key, ValueOf(Said!WordAt(s, i)))
  <1> DEFINE f == Lasts(s, S)
             g == Lasts(s, S \cup {i})
             w == Said!WordAt(s, i)
  <1>1. KeyOf(w) = <<key>>
    BY MeansIs
  <1>2. \A y \in Keys : y # key => ~Said!Means(w, y)
    BY <1>1, MeansIs
  <1>3. g[key] = i /\ \A y \in Keys : y # key => g[y] = f[y]
    BY <1>2, LastMore DEF Lasts
  <1>4. {y \in Keys : g[y] # 0} = {y \in Keys : f[y] # 0} \cup {key}
    BY <1>3
  <1> HIDE DEF f, g
  <1>5. FinalOf(g, s, c) = Given(FinalOf(f, s, c), key, ValueOf(w))
    <2> DEFINE F == FinalOf(f, s, c)
               G == FinalOf(g, s, c)
               x == ValueOf(w)
    <2>1. i # 0 /\ ValueOf(Said!WordAt(s, g[key])) = x
      BY <1>3
    <2>2. (c.have \cup {y \in Keys : f[y] # 0}) \cup {key} = c.have \cup {y \in Keys : g[y] # 0}
      BY <1>4
    <2> HIDE DEF x
    <2>3. CASE key = "align"
      <3>1. /\ g["align"] = i /\ g["line"] = f["line"] /\ g["position"] = f["position"]
            /\ g["size"] = f["size"] /\ g["vertical"] = f["vertical"]
        BY <1>3, <2>3 DEF Keys
      <3> QED BY <2>1, <2>2, <2>3, <3>1 DEF FinalOf, Given
    <2>4. CASE key = "line"
      <3>1. /\ g["line"] = i /\ g["align"] = f["align"] /\ g["position"] = f["position"]
            /\ g["size"] = f["size"] /\ g["vertical"] = f["vertical"]
        BY <1>3, <2>4 DEF Keys
      <3> QED BY <2>1, <2>2, <2>4, <3>1 DEF FinalOf, Given
    <2>5. CASE key = "position"
      <3>1. /\ g["position"] = i /\ g["align"] = f["align"] /\ g["line"] = f["line"]
            /\ g["size"] = f["size"] /\ g["vertical"] = f["vertical"]
        BY <1>3, <2>5 DEF Keys
      <3> QED BY <2>1, <2>2, <2>5, <3>1 DEF FinalOf, Given
    <2>6. CASE key = "size"
      <3>1. /\ g["size"] = i /\ g["align"] = f["align"] /\ g["line"] = f["line"]
            /\ g["position"] = f["position"] /\ g["vertical"] = f["vertical"]
        BY <1>3, <2>6 DEF Keys
      <3> QED BY <2>1, <2>2, <2>6, <3>1 DEF FinalOf, Given
    <2>7. CASE key = "vertical"
      <3>1. /\ g["vertical"] = i /\ g["align"] = f["align"] /\ g["line"] = f["line"]
            /\ g["position"] = f["position"] /\ g["size"] = f["size"]
        BY <1>3, <2>7 DEF Keys
      <3> QED BY <2>1, <2>2, <2>7, <3>1 DEF FinalOf, Given
    <2> QED BY <2>3, <2>4, <2>5, <2>6, <2>7 DEF Keys
  <1> QED BY <1>5, FinalIs DEF f, g

LEMMA FinalSame ==
  ASSUME NEW s, NEW S \in SUBSET Nat, NEW i \in Nat \ {0}, \A j \in S : j < i, NEW c,
         \A key \in Keys : ~Said!Means(Said!WordAt(s, i), key)
  PROVE  Said!Final(s, S \cup {i}, c) = Said!Final(s, S, c)
  <1>1. \A key \in Keys : Said!LastMeaning(s, S \cup {i}, key) = Said!LastMeaning(s, S, key)
    BY LastMore
  <1>2. Lasts(s, S \cup {i}) = Lasts(s, S)
    BY <1>1 DEF Lasts
  <1> QED BY <1>2, FinalIs

LEMMA FinalNone ==
  ASSUME NEW s, NEW c \in SettingsType
  PROVE  Said!Final(s, {}, c) = c
  <1>1. \A key \in Keys : Said!LastMeaning(s, {}, key) = 0
    BY DEF Said!LastMeaning, Said!Meaning
  <1> DEFINE f == Lasts(s, {})
  <1>2. /\ f["align"] = 0 /\ f["line"] = 0 /\ f["position"] = 0 /\ f["size"] = 0 /\ f["vertical"] = 0
        /\ \A key \in Keys : f[key] = 0
    BY <1>1 DEF Lasts, Keys
  <1> HIDE DEF f
  <1>3. c.have \cup {key \in Keys : f[key] # 0} = c.have
    BY <1>2
  <1>4. FinalOf(f, s, c) = RecordOf(c)
    BY <1>2, <1>3 DEF FinalOf, RecordOf, Record
  <1> QED BY <1>4, RecordIs, FinalIs DEF f

-----------------------------------------------------------------------------
(* Where the words start.                                                  *)

LEMMA SaidSpaces == \A c : Said!IsSpace(c) <=> c \in Spaces
  BY DEF Said!IsSpace, Said!Spaces, Spaces

LEMMA SaidSkips == \A s, p : Said!SkipSpace(s, p) = SkipSpace(s, p)
  <1> TAKE s, p
  <1> DEFINE Is(q) == /\ q > Len(s) \/ ~IsSpace(s[q])
                      /\ \A i \in p .. q - 1 : i <= Len(s) /\ ~~IsSpace(s[i])
  <1>1. SkipSpace(s, p) = CHOOSE x \in p .. p + Len(s) + 1 : Is(x)
    BY Zenon DEF SkipSpace, FirstWhere
  <1>2. Said!SkipSpace(s, p) = CHOOSE x \in p .. p + Len(s) + 1 : Is(x)
    BY Zenon DEF Said!SkipSpace, Said!FirstWhere, Said!IsSpace, Said!Spaces, IsSpace, Spaces
  <1> QED BY <1>1, <1>2

LEMMA SaidWords ==
  \A s, p : Said!WordEnd(s, p) = WordEnd(s, p) /\ Said!WordAt(s, p) = SubSeq(s, p, WordEnd(s, p) - 1)
  <1> TAKE s, p
  <1> DEFINE Is(q) == /\ q > Len(s) \/ IsSpace(s[q])
                      /\ \A i \in p .. q - 1 : i <= Len(s) /\ ~IsSpace(s[i])
  <1>1. WordEnd(s, p) = CHOOSE x \in p .. p + Len(s) + 1 : Is(x)
    BY Zenon DEF WordEnd, FirstWhere
  <1>2. Said!WordEnd(s, p) = CHOOSE x \in p .. p + Len(s) + 1 : Is(x)
    BY Zenon DEF Said!WordEnd, Said!FirstWhere, Said!IsSpace, Said!Spaces, IsSpace, Spaces
  <1>3. Said!WordEnd(s, p) = WordEnd(s, p)
    BY <1>1, <1>2
  <1> QED BY <1>3 DEF Said!WordAt

Before(S, p) == {i \in S : i < p}

\* The words that start between p and q.
StartsIn(s, p, q) == Said!Starts(s, p, q)

LEMMA StartsAre ==
  ASSUME NEW s, NEW p, NEW q
  PROVE  StartsIn(s, p, q) = {i \in p .. q - 1 : s[i] \notin Spaces /\ (i = p \/ s[i - 1] \in Spaces)}
  BY SaidSpaces, Zenon DEF StartsIn, Said!Starts

LEMMA FirstStart ==
  ASSUME NEW s \in Line, NEW o \in 1 .. Len(s) + 1, NEW q \in 0 .. Len(s) + 1
  PROVE  LET p == SkipSpace(s, o)
             S == StartsIn(s, p, q)
         IN  /\ p \in 1 .. Len(s) + 1 /\ S \in SUBSET (1 .. Len(s)) /\ \A i \in S : i < q
             /\ p < q => p \in S
             /\ Before(S, p) = {}
  <1> DEFINE p == SkipSpace(s, o)
             S == StartsIn(s, p, q)
  <1>1. Len(s) \in Nat /\ o \in Nat
    BY LenProperties DEF Line
  <1>2. p \in o .. Len(s) + 1 /\ FirstOutside(s, o, p, Spaces)
    BY <1>1, ScansIn, SkipSpaceIs
  <1> HIDE DEF p
  <1>3. p \in 1 .. Len(s) + 1 /\ p \in Nat /\ (p > Len(s) \/ s[p] \notin Spaces)
    BY <1>1, <1>2 DEF FirstOutside
  <1>4. S = {i \in p .. q - 1 : s[i] \notin Spaces /\ (i = p \/ s[i - 1] \in Spaces)}
    BY StartsAre
  <1> HIDE DEF S
  <1>5. \A i \in S : i \in p .. q - 1
    BY <1>4
  <1>6. S \in SUBSET (1 .. Len(s)) /\ \A i \in S : i < q
    BY <1>1, <1>3, <1>5
  <1>7. p < q => p \in S
    BY <1>1, <1>3, <1>4
  <1>8. Before(S, p) = {}
    BY <1>3, <1>5 DEF Before
  <1> QED BY <1>3, <1>6, <1>7, <1>8 DEF p, S

\* After a word and the white space behind it is the next one.
LEMMA NextStart ==
  ASSUME NEW s \in Line, NEW p \in 1 .. Len(s) + 1, NEW q \in 0 .. Len(s) + 1,
         NEW i \in StartsIn(s, p, q)
  PROVE  LET S == StartsIn(s, p, q)
             z == SkipSpace(s, WordEnd(s, i))
         IN  /\ i \in 1 .. Len(s) /\ WordEnd(s, i) \in i .. Len(s) + 1 /\ z \in WordEnd(s, i) .. Len(s) + 1
             /\ z < q => z \in S
             /\ Before(S, z) = Before(S, i) \cup {i}
  <1> DEFINE S == StartsIn(s, p, q)
             e == WordEnd(s, i)
             z == SkipSpace(s, e)
  <1>1. Len(s) \in Nat /\ p \in Nat /\ q \in Nat
    BY LenProperties DEF Line
  <1>2. S = {j \in p .. q - 1 : s[j] \notin Spaces /\ (j = p \/ s[j - 1] \in Spaces)}
    BY StartsAre
  <1>3. i \in p .. q - 1 /\ i \in 1 .. Len(s) /\ s[i] \notin Spaces
    BY <1>1, <1>2
  <1>4. FirstOutside(s, i, e, STRING \ Spaces) /\ e \in i .. Len(s) + 1
    <2>1. i \in Nat \ {0} /\ i \in 1 .. Len(s) + 1
      BY <1>1, <1>3
    <2> QED BY <2>1, WordEndIs, ScansIn
  <1> HIDE DEF e
  <1>5. e \in 1 .. Len(s) + 1 /\ e \in Nat /\ e >= i
    BY <1>1, <1>3, <1>4
  <1>6. FirstOutside(s, e, z, Spaces) /\ z \in e .. Len(s) + 1
    BY <1>5, SkipSpaceIs, ScansIn
  <1> HIDE DEF z, S
  <1>7. \A j \in i .. e - 1 : s[j] \notin Spaces
    BY <1>4 DEF FirstOutside
  <1>8. e <= Len(s) => s[e] \in Spaces
    <2>1. ASSUME e <= Len(s) PROVE s[e] \in STRING
      <3>1. e \in 1 .. Len(s)
        BY <1>5, <2>1
      <3> QED BY <3>1, ElementOfSeq DEF Line
    <2>2. e > Len(s) \/ s[e] \notin STRING \ Spaces
      BY <1>4 DEF FirstOutside
    <2> QED BY <1>1, <1>5, <2>1, <2>2
  <1>9. e > i
    <2>1. e # i
      BY <1>1, <1>3, <1>8
    <2> QED BY <1>3, <1>5, <2>1
  <1>10. /\ \A j \in e .. z - 1 : s[j] \in Spaces
         /\ z > Len(s) \/ s[z] \notin Spaces
    BY <1>6 DEF FirstOutside
  <1>11. ASSUME z < q PROVE z \in S
    <2>1. z <= Len(s) /\ s[z] \notin Spaces /\ z \in Nat /\ e <= Len(s)
      BY <1>1, <1>6, <1>10, <1>11, <1>5
    <2>2. z # e
      BY <1>8, <2>1
    <2>3. z - 1 \in e .. z - 1 /\ z \in p .. q - 1
      BY <1>1, <1>3, <1>5, <1>6, <1>11, <2>2
    <2>4. s[z - 1] \in Spaces
      BY <1>10, <2>3
    <2> QED BY <1>2, <2>1, <2>3, <2>4
  <1>12. ASSUME NEW j \in S, j < z PROVE j < i \/ j = i
    <2>1. j \in p .. q - 1 /\ s[j] \notin Spaces /\ (j = p \/ s[j - 1] \in Spaces)
      BY <1>2
    <2>2. SUFFICES ASSUME j > i PROVE FALSE
      BY <1>1, <1>3, <2>1
    <2>3. CASE j < e
      <3>1. j - 1 \in i .. e - 1 /\ j # p
        BY <1>1, <1>3, <1>5, <2>1, <2>2, <2>3
      <3> QED BY <1>7, <2>1, <3>1
    <2>4. CASE j >= e
      <3>1. j \in e .. z - 1
        BY <1>1, <1>5, <1>6, <1>12, <2>1, <2>4
      <3> QED BY <1>10, <2>1, <3>1
    <2> QED BY <1>5, <2>1, <2>3, <2>4
  <1>13. i < z /\ i \in S
    BY <1>3, <1>5, <1>6, <1>9 DEF S
  <1>14. \A j \in S : j < i => j < z
    <2>1. \A j \in S : j \in Int
      BY <1>2
    <2> QED BY <1>3, <1>5, <1>6, <1>13, <2>1
  <1>15. Before(S, z) = Before(S, i) \cup {i}
    BY <1>12, <1>13, <1>14 DEF Before
  <1> QED BY <1>3, <1>4, <1>6, <1>11, <1>15 DEF S, e, z

\* A line of times has no terminator, so its settings end where it does.
LEMMA LineEnds ==
  ASSUME NEW s \in Line, s \in TimingLines
  PROVE  Limit(s) = Len(s) + 1
  <1>1. DOMAIN s = 1 .. Len(s)
    BY LenProperties DEF Line
  <1>2. \A i \in 1 .. Len(s) : s[i] # "CR" /\ s[i] # "LF"
    BY <1>1, TerminatorsAssumption
  <1>3. SpotOf(s, "CR") = 0 /\ SpotOf(s, "LF") = 0
    <2> DEFINE k == SpotOf(s, "CR")
               m == SpotOf(s, "LF")
    <2>1. /\ k \in 0 .. Len(s) /\ (k # 0 => s[k] = "CR")
          /\ m \in 0 .. Len(s) /\ (m # 0 => s[m] = "LF") /\ Len(s) \in Nat
      BY SpotIs, LenProperties DEF Line
    <2> HIDE DEF k, m
    <2>2. k # 0 => k \in 1 .. Len(s)
      BY <2>1
    <2>3. m # 0 => m \in 1 .. Len(s)
      BY <2>1
    <2>4. k = 0 /\ m = 0
      BY <1>2, <2>1, <2>2, <2>3
    <2> QED BY <2>4 DEF k, m
  <1> QED BY <1>3, PlacesFound

-----------------------------------------------------------------------------
(* Where the parser is in the line.                                        *)

FirstUsable(s) == Said!Usable(s, Said!FirstTime(s))
TwoTimes(s) ==
  FirstUsable(s) /\ Said!HasArrowThere(s) /\ Said!Usable(s, Said!SecondTime(s))

Where ==
  /\ parsing => text \in TimingLines
  /\ ~parsing => at \in {"settings", "word", "set", "done"}
  /\ at = "time" /\ times = << >> => pos = Said!FirstTime(text)
  /\ at = "arrow" => pos = Said!ArrowPlace(text) /\ FirstUsable(text)
  /\ at = "time" /\ times # << >> =>
       pos = Said!SecondTime(text) /\ FirstUsable(text) /\ Said!HasArrowThere(text)
  /\ at \in {"glue", "copy"} => pos = Said!Rest(text) /\ TwoTimes(text)
  /\ at = "settings" => pos = IF parsing THEN Said!Rest(text) ELSE 1
  /\ at \in {"settings", "word", "set"} /\ parsing => TwoTimes(text)

LEMMA InitWhere == TimingsInit => Where
  <1> SUFFICES ASSUME TimingsInit PROVE Where
    OBVIOUS
  <1>1. parsing \in BOOLEAN /\ (parsing => text \in TimingLines)
    BY DEF TimingsInit
  <1>2. at = (IF parsing THEN "start" ELSE "settings") /\ pos = 1
    BY DEF TimingsInit
  <1> QED BY <1>1, <1>2 DEF Where

\* The places where the parts of the line start, as the routines find them.
LEMMA PartsAre ==
  /\ Said!FirstTime(text) = SkipSpace(text, 1)
  /\ Said!ArrowPlace(text) = SkipSpace(text, Said!FirstTime(text) + Said!TimeLength(text, Said!FirstTime(text)))
  /\ Said!SecondTime(text) = SkipSpace(text, Said!ArrowPlace(text) + 3)
  /\ Said!Rest(text) = Said!SecondTime(text) + Said!TimeLength(text, Said!SecondTime(text))
  /\ Said!HasArrowThere(text) <=> ArrowAt(text, Said!ArrowPlace(text))
  <1>1. Said!HasArrowThere(text) <=> ArrowAt(text, Said!ArrowPlace(text))
    BY Zenon DEF Said!HasArrowThere, ArrowAt, Arrow
  <1> QED BY <1>1, SaidSkips, Zenon DEF Said!FirstTime, Said!ArrowPlace, Said!SecondTime, Said!Rest

LEMMA NextWhere ==
  BoundsInv /\ Found(text, pos) /\ Where /\ [TimingsNext]_timings => Where'
  <1> SUFFICES ASSUME BoundsInv, Found(text, pos), Where, [TimingsNext]_timings PROVE Where'
    OBVIOUS
  <1>1. /\ text' = text /\ parsing' = parsing /\ (parsing => text \in TimingLines)
        /\ ~parsing => at \in {"settings", "word", "set", "done"}
    BY DEF TimingsNext, timings, Where, Start, ReadTime, BadStamp, MalformedRefused, GoodStamp,
           NoArrow, SkipArrow, Glue, CopySettings, CopyFails, Begin, CollectWord, WordFails, SetWord,
           Finished
  <1>2. CASE at' = "done"
    BY <1>1, <1>2 DEF Where
  <1>3. CASE Start
    <2>1. at' = "time" /\ pos' = SkipSpace(text, 1) /\ times' = << >> /\ parsing
      BY <1>1, <1>3 DEF Start, Goto, BoundsInv, StageIn
    <2> QED BY <1>1, <2>1, PartsAre DEF Where
  <1>4. CASE ReadTime
    <2>1. at' = at /\ pos' = pos /\ times' = times
      BY <1>4 DEF ReadTime, cueline
    <2> QED BY <1>1, <2>1 DEF Where
  <1>5. CASE GoodStamp
    <2>1. at = "time" /\ st = "returned" /\ result # BadTime /\ AfterStamp(n) /\ parsing
          /\ times' = Append(times, result) /\ at' = (IF times = << >> THEN "arrow" ELSE "glue")
      BY <1>1, <1>5 DEF GoodStamp, Goto
    <2>2. Said!Usable(text, pos) /\ n = Said!TimeLength(text, pos)
      BY <2>1 DEF Found, Returned
    <2>3. CASE times = << >>
      <3>1. pos' = SkipSpace(text, pos + n) /\ pos = Said!FirstTime(text) /\ at' = "arrow"
        BY <2>1, <2>3 DEF AfterStamp, Where
      <3>2. pos' = Said!ArrowPlace(text) /\ FirstUsable(text)
        BY <2>2, <3>1, PartsAre DEF FirstUsable
      <3> QED BY <1>1, <2>1, <3>1, <3>2 DEF Where
    <2>4. CASE times # << >>
      <3>1. pos' = pos + n /\ pos = Said!SecondTime(text) /\ at' = "glue" /\ FirstUsable(text)
            /\ Said!HasArrowThere(text)
        BY <2>1, <2>4 DEF AfterStamp, Where
      <3>2. pos' = Said!Rest(text) /\ TwoTimes(text)
        BY <2>2, <3>1, PartsAre DEF TwoTimes
      <3> QED BY <1>1, <2>1, <3>1, <3>2 DEF Where
    <2> QED BY <2>3, <2>4
  <1>6. CASE SkipArrow
    <2>1. /\ at = "arrow" /\ ArrowAt(text, pos) /\ at' = "time" /\ times' = times /\ parsing
          /\ pos' = SkipSpace(text, pos + 3)
      BY <1>1, <1>6 DEF SkipArrow, Goto
    <2>2. times # << >>
      BY <2>1 DEF BoundsInv, StageIn
    <2>3. pos = Said!ArrowPlace(text) /\ FirstUsable(text)
      BY <2>1 DEF Where
    <2>4. pos' = Said!SecondTime(text) /\ Said!HasArrowThere(text)
      BY <2>1, <2>3, PartsAre
    <2> QED BY <1>1, <2>1, <2>2, <2>3, <2>4 DEF Where
  <1>7. CASE Glue /\ at' # "done"
    <2>1. at = "glue" /\ at' = "copy" /\ pos' = pos /\ parsing
      BY <1>1, <1>7 DEF Glue, Goto, Return
    <2> QED BY <1>1, <2>1 DEF Where
  <1>8. CASE CopySettings
    <2>1. at = "copy" /\ at' = "settings" /\ pos' = pos /\ parsing
      BY <1>1, <1>8 DEF CopySettings, Goto, cueline
    <2> QED BY <1>1, <2>1 DEF Where
  <1>9. CASE Begin \/ CollectWord \/ SetWord
    <2>1. at \in {"settings", "word", "set"} /\ at' \in {"word", "set"}
      BY <1>9 DEF Begin, CollectWord, SetWord, Goto
    <2> QED BY <1>1, <2>1 DEF Where
  <1>10. CASE BadStamp \/ MalformedRefused \/ NoArrow \/ CopyFails \/ WordFails \/ Finished
    BY <1>2, <1>10 DEF BadStamp, MalformedRefused, NoArrow, CopyFails, WordFails, Finished, Return
  <1>11. CASE UNCHANGED timings
    <2>1. UNCHANGED <<text, parsing, at, pos, times>>
      BY <1>11 DEF timings, cueline
    <2> QED BY <2>1 DEF Where
  <1> QED BY <1>2, <1>3, <1>4, <1>5, <1>6, <1>7, <1>8, <1>9, <1>10, <1>11 DEF TimingsNext

-----------------------------------------------------------------------------
(* The settings that are read.                                             *)

\* Where the first word is looked for, and where the word that is looked at starts.
Origin == IF parsing THEN Said!Rest(text) ELSE 1
WordStart == pos - Len(word)

\* The settings are those of the words before place p, if their numbers fit.
KeptBefore(S, p) ==
  WordsFit(S) => settings = Said!Final(text, Before(S, p), NewSettings)

Kept ==
  /\ at \in {"start", "time", "arrow", "glue", "copy", "settings"} => settings = NewSettings
  /\ at \in {"word", "set"} => limit = Limit(text) /\ Origin \in 1 .. Len(text) + 1
  /\ at = "word" => (pos < limit => pos \in SettingPlaces) /\ KeptBefore(SettingPlaces, pos)
  /\ at = "set" => /\ WordStart \in SettingPlaces /\ word = Said!WordAt(text, WordStart)
                   /\ pos = WordEnd(text, WordStart) /\ KeptBefore(SettingPlaces, WordStart)
  /\ at = "done" /\ status = "SUCCESS" /\ ~failed /\ WordsFit(SettingPlaces) =>
       settings = Said!Final(text, SettingPlaces, NewSettings)

LEMMA SettingsPlaced ==
  ASSUME text \in Line, parsing => text \in TimingLines
  PROVE  SettingPlaces = StartsIn(text, SkipSpace(text, Origin), Limit(text))
  <1>1. CASE parsing
    <2>1. Limit(text) = Len(text) + 1
      BY <1>1, LineEnds
    <2> QED BY <1>1, <2>1, Zenon DEF SettingPlaces, StartsIn, Origin
  <1>2. CASE ~parsing
    BY <1>2, Zenon DEF SettingPlaces, StartsIn, Origin
  <1> QED BY <1>1, <1>2

\* What a word adds.
LEMMA WordAdds ==
  ASSUME NEW S \in SUBSET Nat, NEW i \in S, i # 0, NEW c \in SettingsType, NEW w \in Line,
         w = Said!WordAt(text, i), Said!WordFits(w),
         c = Said!Final(text, Before(S, i), NewSettings)
  PROVE  SetFromString(c, w).settings = Said!Final(text, Before(S, i) \cup {i}, NewSettings)
  <1> DEFINE B == Before(S, i)
             r == SetFromString(c, w)
  <1>1. B \in SUBSET Nat /\ i \in Nat \ {0} /\ \A j \in B : j < i
    BY DEF Before
  <1> HIDE DEF B
  <1>2. /\ \A key \in Keys : Said!Means(w, key) => r.settings = Given(c, key, ValueOf(w))
        /\ \A key \in Keys : KeyOf(w) = <<key>> /\ ~Said!Means(w, key) => r = Refused(c, key)
        /\ (\A key \in Keys : KeyOf(w) # <<key>>) => r = Refused(c, "cuesetting")
    BY WordGives
  <1> HIDE DEF r
  <1>3. CASE \E key \in Keys : Said!Means(w, key)
    <2>1. PICK key \in Keys : Said!Means(w, key)
      BY <1>3
    <2>2. r.settings = Given(c, key, ValueOf(w))
      BY <1>2, <2>1
    <2>3. Said!Final(text, B \cup {i}, NewSettings)
          = Given(Said!Final(text, B, NewSettings), key, ValueOf(Said!WordAt(text, i)))
      BY <1>1, <2>1, FinalMore
    <2> QED BY <2>2, <2>3 DEF B, r
  <1>4. CASE \A key \in Keys : ~Said!Means(w, key)
    <2>1. Said!Final(text, B \cup {i}, NewSettings) = c
      BY <1>1, <1>4, FinalSame DEF B
    <2>2. r.settings = c
      <3>1. CASE \E key \in Keys : KeyOf(w) = <<key>>
        BY <1>2, <1>4, <3>1 DEF Refused
      <3>2. CASE \A key \in Keys : KeyOf(w) # <<key>>
        BY <1>2, <3>2 DEF Refused
      <3> QED BY <3>1, <3>2
    <2> QED BY <2>1, <2>2 DEF B, r
  <1> QED BY <1>3, <1>4

LEMMA InitKept == TimingsInit => Kept
  <1> SUFFICES ASSUME TimingsInit PROVE Kept
    OBVIOUS
  <1>1. at \in {"start", "settings"} /\ settings = NewSettings
    BY DEF TimingsInit
  <1> QED BY <1>1 DEF Kept

LEMMA NextKept ==
  BoundsInv /\ BoundsInv' /\ Where /\ Kept /\ [TimingsNext]_timings => Kept'
  <1> SUFFICES ASSUME BoundsInv, BoundsInv', Where, Kept, [TimingsNext]_timings PROVE Kept'
    OBVIOUS
  <1> DEFINE S == SettingPlaces
             L == Len(text)
  <1>1. /\ text' = text /\ parsing' = parsing
    BY DEF TimingsNext, timings, Start, ReadTime, BadStamp, MalformedRefused, GoodStamp,
           NoArrow, SkipArrow, Glue, CopySettings, CopyFails, Begin, CollectWord, WordFails, SetWord,
           Finished
  <1>2. /\ text \in Line /\ L \in Nat /\ pos \in 1 .. L + 1 /\ limit \in 0 .. L + 1
        /\ settings \in SettingsType /\ word \in Line /\ Limit(text) \in 0 .. L + 1
        /\ S = StartsIn(text, SkipSpace(text, Origin), Limit(text))
    BY LenProperties, SelectIn, SettingsPlaced DEF BoundsInv, LineIn, Line, Where
  <1>3. S' = S /\ Origin' = Origin /\ Limit(text)' = Limit(text) /\ WordsFit(S)' = WordsFit(S) /\ L' = L
    BY <1>1 DEF SettingPlaces, Origin, WordsFit
  <1>4. ASSUME Origin \in 1 .. L + 1
        PROVE  LET p == SkipSpace(text, Origin) IN
               /\ p \in 1 .. L + 1 /\ S \in SUBSET (1 .. L) /\ \A i \in S : i < Limit(text)
               /\ p < Limit(text) => p \in S
               /\ Before(S, p) = {}
    BY <1>2, <1>4, FirstStart
  <1> HIDE DEF S, L
  <1>5. CASE at' \in {"start", "time", "arrow", "glue", "copy", "settings"}
    <2>1. at \in {"start", "time", "arrow", "glue", "copy", "settings"} /\ settings' = settings
      BY <1>5 DEF TimingsNext, timings, cueline, Start, ReadTime, BadStamp, MalformedRefused, GoodStamp,
           NoArrow, SkipArrow, Glue, CopySettings, CopyFails, Begin, CollectWord, WordFails, SetWord,
           Finished, Goto, Return
    <2> QED BY <1>5, <2>1 DEF Kept
  <1>6. CASE Begin
    <2>1. /\ at = "settings" /\ at' = "word" /\ limit' = Limit(text) /\ settings' = settings
          /\ pos' = SkipSpace(text, pos)
      BY <1>6 DEF Begin, Goto
    <2>2. pos = Origin /\ settings = NewSettings /\ Origin \in 1 .. L + 1
      BY <1>2, <2>1 DEF Where, Kept, Origin
    <2>3. /\ pos' < limit' => pos' \in S
          /\ Before(S, pos') = {}
      BY <1>4, <2>1, <2>2
    <2>4. settings' = Said!Final(text, Before(S, pos'), NewSettings)
      BY <2>1, <2>2, <2>3, FinalNone, NewSettingsIn
    <2>5. KeptBefore(SettingPlaces, pos)'
      BY <1>1, <1>3, <2>4 DEF KeptBefore, S
    <2> QED BY <1>1, <1>3, <2>1, <2>2, <2>3, <2>5 DEF Kept, S, L
  <1>7. CASE CollectWord
    <2>1. /\ at = "word" /\ pos < limit /\ at' = "set" /\ limit' = limit /\ settings' = settings
          /\ pos' = WordEnd(text, pos) /\ word' = SubSeq(text, pos, pos' - 1)
      BY <1>7 DEF CollectWord, Goto
    <2>2. limit = Limit(text) /\ Origin \in 1 .. L + 1 /\ pos \in S /\ KeptBefore(S, pos)
      BY <2>1 DEF Kept, S, L
    <2>3. WordEnd(text, pos) \in pos .. L + 1 /\ pos \in 1 .. L
      BY <1>2, <1>4, <2>2, NextStart DEF L
    <2>4. Len(word') = pos' - pos /\ word' = Said!WordAt(text, pos)
      <3> DEFINE e == pos' - 1
      <3>1. \A i \in pos .. e : text[i] \in STRING
        <4>1. \A i \in pos .. e : i \in 1 .. Len(text)
          BY <1>2, <2>1, <2>3 DEF L
        <4> QED BY <1>2, <4>1, ElementOfSeq DEF Line
      <3>2. pos \in Int /\ e \in Int /\ (pos <= e \/ pos = e + 1) /\ pos' = e + 1
        BY <1>2, <2>1, <2>3
      <3> HIDE DEF e
      <3>3. Len(SubSeq(text, pos, e)) = IF pos <= e THEN e - pos + 1 ELSE 0
        BY <3>1, <3>2, SubSeqProperties
      <3>4. Len(SubSeq(text, pos, e)) = pos' - pos
        BY <3>2, <3>3
      <3>5. word' = SubSeq(text, pos, e)
        BY <2>1 DEF e
      <3> QED BY <2>1, <3>4, <3>5, SaidWords
    <2>5. WordStart' = pos
      <3>1. WordStart' = pos' - Len(word')
        BY DEF WordStart
      <3> QED BY <1>2, <2>1, <2>3, <2>4, <3>1
    <2>6. KeptBefore(SettingPlaces, WordStart)'
      BY <1>1, <1>3, <2>1, <2>2, <2>5 DEF KeptBefore, S
    <2>7. /\ WordStart' \in S /\ word' = Said!WordAt(text, WordStart')
          /\ pos' = WordEnd(text, WordStart')
      BY <2>1, <2>2, <2>4, <2>5
    <2> QED BY <1>1, <1>3, <2>1, <2>2, <2>6, <2>7 DEF Kept, S, L
  <1>8. CASE SetWord
    <2> DEFINE i == WordStart
    <2>1. /\ at = "set" /\ at' = "word" /\ limit' = limit /\ pos' = SkipSpace(text, pos)
          /\ settings' = SetFromString(settings, word).settings
      BY <1>8 DEF SetWord, Goto
    <2>2. /\ limit = Limit(text) /\ Origin \in 1 .. L + 1 /\ i \in S
          /\ word = Said!WordAt(text, i) /\ pos = WordEnd(text, i) /\ KeptBefore(S, i)
      BY <2>1 DEF Kept, S, L
    <2>3. S \in SUBSET Nat /\ i \in Nat /\ i # 0
      BY <1>2, <1>4, <2>2
    <2>4. /\ pos' < Limit(text) => pos' \in S
          /\ Before(S, pos') = Before(S, i) \cup {i}
      BY <1>2, <1>4, <2>1, <2>2, NextStart DEF L
    <2> HIDE DEF i
    <2>5. ASSUME WordsFit(S)
          PROVE  settings' = Said!Final(text, Before(S, pos'), NewSettings)
      <3>1. Said!WordFits(word) /\ settings = Said!Final(text, Before(S, i), NewSettings)
        BY <2>2, <2>5 DEF WordsFit, KeptBefore
      <3> QED BY <1>2, <2>1, <2>2, <2>3, <2>4, <3>1, WordAdds
    <2>6. KeptBefore(SettingPlaces, pos)'
      BY <1>1, <1>3, <2>5 DEF KeptBefore, S
    <2> QED BY <1>1, <1>3, <2>1, <2>2, <2>4, <2>6 DEF Kept, S, L
  <1>9. CASE Finished
    <2>1. /\ at = "word" /\ ~(pos < limit) /\ at' = "done" /\ settings' = settings
      BY <1>2, <1>9 DEF Finished, Return
    <2>2. limit = Limit(text) /\ Origin \in 1 .. L + 1 /\ KeptBefore(S, pos)
      BY <2>1 DEF Kept, S, L
    <2>3. Before(S, pos) = S
      <3>1. \A i \in S : i < limit /\ i \in Nat
        BY <1>4, <2>2
      <3>2. \A i \in S : i < pos
        BY <1>2, <2>1, <3>1
      <3> QED BY <3>2 DEF Before
    <2>4. WordsFit(S) => settings' = Said!Final(text, S, NewSettings)
      BY <2>1, <2>2, <2>3 DEF KeptBefore
    <2> QED BY <1>1, <1>3, <2>1, <2>4 DEF Kept, S
  <1>10. CASE BadStamp \/ MalformedRefused \/ NoArrow \/ Glue
    <2>1. at' # "done" \/ status' # "SUCCESS"
      BY <1>10 DEF BadStamp, MalformedRefused, NoArrow, Glue, Return, Goto
    <2>2. at' \in {"done", "copy"}
      BY <1>10 DEF BadStamp, MalformedRefused, NoArrow, Glue, Return, Goto
    <2> QED BY <1>5, <2>1, <2>2 DEF Kept
  <1>11. CASE CopyFails \/ WordFails
    <2>1. at' = "done" /\ failed'
      BY <1>11 DEF CopyFails, WordFails, Return
    <2> QED BY <2>1 DEF Kept
  <1>12. CASE Start \/ ReadTime \/ GoodStamp \/ SkipArrow \/ CopySettings
    <2>1. at' \in {"start", "time", "arrow", "glue", "copy", "settings"}
      BY <1>12 DEF Start, ReadTime, GoodStamp, SkipArrow, CopySettings, Goto
    <2> QED BY <1>5, <2>1
  <1>13. CASE UNCHANGED timings
    <2>1. UNCHANGED <<text, parsing, at, pos, settings, word, limit, failed, status>>
      BY <1>13 DEF timings, cueline
    <2>2. KeptBefore(SettingPlaces, pos)' = KeptBefore(SettingPlaces, pos)
          /\ KeptBefore(SettingPlaces, WordStart)' = KeptBefore(SettingPlaces, WordStart)
          /\ WordStart' = WordStart
      BY <1>3, <2>1 DEF KeptBefore, WordStart, S
    <2> QED BY <1>3, <2>1, <2>2 DEF Kept, S, L
  <1> QED BY <1>6, <1>7, <1>8, <1>9, <1>10, <1>11, <1>12, <1>13 DEF TimingsNext

\* When all the words were read, each setting has the last value that is one, whatever
\* the text and whoever sets it, while its numbers fit an int.
THEOREM SettingsAreExact == TimingsSpec => []SettingsExact
  <1>1. Kept => SettingsExact
    BY DEF Kept, SettingsExact
  <1> QED BY <1>1, InitBounds, NextBounds, InitFinds, NextFinds, InitWhere, NextWhere, InitKept,
             NextKept, PTL DEF TimingsSpec
=============================================================================
