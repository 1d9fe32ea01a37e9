--------------------------- MODULE NodeTreeProofs ---------------------------
(***************************************************************************)
(* Proofs about NodeTree, for any number of nodes, of failures and of C++  *)
(* objects and any first size of an array: what is counted is what is      *)
(* held, and nothing that was freed is touched.                            *)
(***************************************************************************)
EXTENDS NodeTree, FiniteSetTheorems, WellFoundedInduction, TLAPS

NodeSet ==
  [kind : Internal \cup Leaves \cup {"EMPTY"}, refs : Nat, parent : Nat,
   data : BOOLEAN, children : Seq(Nat), alloc : Nat, freed : BOOLEAN]
Calls == Seq(Nat \X Nat)

(* The invariant, in parts that take the state as parameters: most actions *)
(* are compositions of two changes to it.                                  *)

\* Calls that are active are about different nodes, each with no holder, not yet freed.
Distinct(w) == \A j, k \in DOMAIN w : w[j][1] = w[k][1] => j = k
WorkSound(ns, w) ==
  /\ Distinct(w)
  /\ \A k \in DOMAIN w :
       /\ w[k][1] \in DOMAIN ns \ {Empty}
       /\ ns[w[k][1]].refs = 0 /\ ~ns[w[k][1]].freed /\ ns[w[k][1]].data

\* Places where a parent still holds n: Entries, without a choice.
LetGo(w, p, i) == \E k \in DOMAIN w : w[k][1] = p /\ i <= w[k][2]
Places(ns, w, n) ==
  {e \in (DOMAIN ns) \X (1 .. MaxNodes) :
     /\ ~ns[e[1]].freed
     /\ e[2] <= Len(ns[e[1]].children) /\ ns[e[1]].children[e[2]] = n
     /\ ~LetGo(w, e[1], e[2])}
Holders(hs, n) == {h \in NodeObjects : hs[h] = n}
HeldBy(ns, w, alive, hd, t, hs, n) ==
  Cardinality(Places(ns, w, n)) + Count(alive /\ hd = n) + Count(t = n)
    + Cardinality(Holders(hs, n))
Counted(ns, w, alive, hd, t, hs) ==
  \A n \in DOMAIN ns \ {Empty} : ns[n].refs = HeldBy(ns, w, alive, hd, t, hs, n)

\* A node that was freed has no holder.
FreedUnheld(ns) == \A n \in DOMAIN ns \ {Empty} : ns[n].freed => ns[n].refs = 0

\* Children are nodes, complete ones, and there is room for them.
Complete(ns, n) == ns[n].kind \in Internal => ns[n].data
ChildrenSound(ns) ==
  \A p \in DOMAIN ns :
    /\ Len(ns[p].children) < Len(ns) /\ Len(ns[p].children) <= MaxNodes
    /\ Len(ns[p].children) <= ns[p].alloc
    /\ ~ns[p].data => ns[p].children = << >>
    /\ \A i \in 1 .. Len(ns[p].children) :
         ns[p].children[i] \in DOMAIN ns \ {Empty} /\ Complete(ns, ns[p].children[i])

\* What an inner node is in can be given children.
ParentsSound(ns) ==
  \A n \in DOMAIN ns : ns[n].kind \in InnerKinds => ns[n].parent \in DOMAIN ns /\ ns[ns[n].parent].data

\* What the stage of the call says of the variables.
Stages ==
  /\ at = "start" => Len(nodes) = 1 /\ head = Null /\ temp = Null
  /\ at # "app" => work = << >>
  /\ at \in {"start", "parse", "parsed"} => cueRefs = 1 /\ cues = 0
  /\ at = "app" => cueRefs = cues
  /\ at = "parse" => current \in DOMAIN nodes /\ nodes[current].data
  /\ head # Empty /\ temp # Empty
  /\ Empty \in DOMAIN nodes
  /\ nodes[Empty].refs > 0 /\ ~nodes[Empty].freed /\ nodes[Empty].kind = "EMPTY" /\ ~nodes[Empty].data

\* What must have failed when something is missing.
FaultsKnown ==
  /\ at = "parse" /\ ~langs => "langs" \in faults
  /\ at = "parse" /\ "open" \notin faults =>
       ~nodes[current].freed /\ \A n \in DOMAIN nodes : nodes[n].kind \in InnerKinds => ~nodes[nodes[n].parent].freed
  /\ head # Null /\ "head data" \notin faults => Complete(nodes, head)
  /\ \A h \in NodeObjects : holds[h] # Null /\ "head data" \notin faults => Complete(nodes, holds[h])
  /\ \A h \in NodeObjects : holds[h] = Empty => "unset" \in faults

Exact ==
  /\ Stages /\ FaultsKnown /\ ParentsSound(nodes) /\ WorkSound(nodes, work) /\ FreedUnheld(nodes)
  /\ Counted(nodes, work, CueAlive, head, temp, holds)

IInv ==
  /\ TypeOK /\ ChildrenSound(nodes) /\ DefinedOtherwise
  /\ at = "undefined" => work = << >>
  /\ at # "undefined" => Exact

-----------------------------------------------------------------------------
(* What the operators do to the nodes, field by field.                     *)

\* What stays of a node: its kind, its parent, and whether it has data.
SameNode(a, b) == a.kind = b.kind /\ a.parent = b.parent /\ a.data = b.data

\* A node as it is created.
LEMMA NewNode ==
  ASSUME NEW kind \in Internal \cup Leaves, NEW p \in Nat, NEW d \in BOOLEAN
  PROVE  /\ Node(kind, p, d) \in NodeSet
         /\ Node(kind, p, d).kind = kind /\ Node(kind, p, d).refs = 1 /\ Node(kind, p, d).parent = p
         /\ (Node(kind, p, d).data <=> d) /\ Node(kind, p, d).children = << >>
         /\ Node(kind, p, d).alloc = 0 /\ ~Node(kind, p, d).freed
  <1>1. << >> \in Seq(Nat)
    OBVIOUS
  <1> QED BY <1>1 DEF Node, NodeSet, Internal, Leaves, InnerKinds

\* A node with another value of one field.
WithRefs(a, x) == [a EXCEPT !.refs = x]
AsFreed(a) == [a EXCEPT !.freed = TRUE]
LEMMA NodeType ==
  ASSUME NEW a \in NodeSet
  PROVE  /\ a.kind \in Internal \cup Leaves \cup {"EMPTY"} /\ a.refs \in Nat /\ a.parent \in Nat
         /\ a.data \in BOOLEAN /\ a.children \in Seq(Nat) /\ a.alloc \in Nat /\ a.freed \in BOOLEAN
  BY DEF NodeSet

\* The same with another count,
LEMMA NodeWithRefs ==
  ASSUME NEW a \in NodeSet, NEW x \in Nat
  PROVE  /\ WithRefs(a, x) \in NodeSet /\ SameNode(WithRefs(a, x), a)
         /\ WithRefs(a, x).refs = x /\ WithRefs(a, x).children = a.children
         /\ WithRefs(a, x).alloc = a.alloc /\ WithRefs(a, x).freed = a.freed
  BY DEF NodeSet, SameNode, WithRefs

\* and freed.
LEMMA NodeAsFreed ==
  ASSUME NEW a \in NodeSet
  PROVE  /\ AsFreed(a) \in NodeSet /\ SameNode(AsFreed(a), a)
         /\ AsFreed(a).freed = TRUE /\ AsFreed(a).children = a.children
         /\ AsFreed(a).alloc = a.alloc /\ AsFreed(a).refs = a.refs
  BY DEF NodeSet, SameNode, AsFreed

\* One node of the sequence is replaced.
LEMMA Replaced ==
  ASSUME NEW S, NEW s \in Seq(S), NEW n \in DOMAIN s, NEW x \in S
  PROVE  /\ [s EXCEPT ![n] = x] \in Seq(S) /\ DOMAIN [s EXCEPT ![n] = x] = DOMAIN s
         /\ Len([s EXCEPT ![n] = x]) = Len(s)
         /\ \A m \in DOMAIN s : [s EXCEPT ![n] = x][m] = IF m = n THEN x ELSE s[m]
  OBVIOUS

\* A reference is dropped: the count, and for the last one either an active call or
\* the end of the node.
DropsTo(ns, w, n, ns2, w2) ==
  /\ ns2 \in Seq(NodeSet) /\ w2 \in Calls /\ DOMAIN ns2 = DOMAIN ns /\ Len(ns2) = Len(ns)
  /\ \A m \in DOMAIN ns \ {n} : ns2[m] = ns[m]
  /\ SameNode(ns2[n], ns[n]) /\ ns2[n].children = ns[n].children /\ ns2[n].alloc = ns[n].alloc
  /\ ns2[n].refs = ns[n].refs - 1
  /\ ns2[n].freed <=> (ns[n].freed \/ (ns[n].refs = 1 /\ ~ns[n].data))
  /\ IF ns[n].refs = 1 /\ ns[n].data THEN w2 = Append(w, <<n, 0>>) ELSE w2 = w
LEMMA ReleasedFields ==
  ASSUME NEW ns \in Seq(NodeSet), NEW w \in Calls, NEW n \in DOMAIN ns, ns[n].refs > 0
  PROVE  DropsTo(ns, w, n, Released(ns, w, n)[1], Released(ns, w, n)[2])
  <1>0. ns[n] \in NodeSet
    OBVIOUS
  <1>1. ns[n].refs \in Nat /\ ns[n].refs - 1 \in Nat
    <2>1. ns[n].refs \in Nat
      BY <1>0, NodeType
    <2> QED BY <2>1
  <1> DEFINE a == WithRefs(ns[n], ns[n].refs - 1)
             dropped == [ns EXCEPT ![n] = a]
             gone == [dropped EXCEPT ![n] = AsFreed(dropped[n])]
  <1>2. /\ a \in NodeSet /\ SameNode(a, ns[n]) /\ a.refs = ns[n].refs - 1 /\ a.children = ns[n].children
        /\ a.alloc = ns[n].alloc /\ a.freed = ns[n].freed
    BY <1>0, <1>1, NodeWithRefs
  <1>3. /\ AsFreed(a) \in NodeSet /\ SameNode(AsFreed(a), a) /\ AsFreed(a).freed = TRUE
        /\ AsFreed(a).children = a.children /\ AsFreed(a).alloc = a.alloc /\ AsFreed(a).refs = a.refs
    BY <1>2, NodeAsFreed
  <1>4. /\ Released(ns, w, n)[1] = IF ns[n].refs = 1 /\ ~ns[n].data THEN gone ELSE dropped
        /\ Released(ns, w, n)[2] = IF ns[n].refs = 1 /\ ns[n].data THEN Append(w, <<n, 0>>) ELSE w
    BY <1>1 DEF Released, WithRefs, AsFreed
  <1> HIDE DEF a
  <1>5. dropped \in Seq(NodeSet) /\ DOMAIN dropped = DOMAIN ns /\ Len(dropped) = Len(ns)
        /\ \A m \in DOMAIN ns : dropped[m] = IF m = n THEN a ELSE ns[m]
    BY <1>2, Replaced
  <1> HIDE DEF dropped
  <1>6. gone \in Seq(NodeSet) /\ DOMAIN gone = DOMAIN ns /\ Len(gone) = Len(ns)
        /\ \A m \in DOMAIN ns : gone[m] = IF m = n THEN AsFreed(a) ELSE dropped[m]
    BY <1>3, <1>5, Replaced
  <1>7. n \in Nat /\ Append(w, <<n, 0>>) \in Calls
    BY DEF Calls
  <1> HIDE DEF gone
  <1>8. CASE ns[n].refs = 1 /\ ~ns[n].data
    <2>1. Released(ns, w, n)[1] = gone /\ Released(ns, w, n)[2] = w
      BY <1>8, <1>4
    <2>2. gone[n] = AsFreed(a) /\ \A m \in DOMAIN ns \ {n} : gone[m] = ns[m]
      BY <1>5, <1>6
    <2> QED BY <1>8, <1>2, <1>3, <1>6, <2>1, <2>2 DEF DropsTo, SameNode
  <1>9. CASE ~(ns[n].refs = 1 /\ ~ns[n].data)
    <2>1. Released(ns, w, n)[1] = dropped
          /\ Released(ns, w, n)[2] = IF ns[n].refs = 1 /\ ns[n].data THEN Append(w, <<n, 0>>) ELSE w
      BY <1>9, <1>4
    <2>2. dropped[n] = a /\ \A m \in DOMAIN ns \ {n} : dropped[m] = ns[m]
      BY <1>5
    <2> QED BY <1>9, <1>2, <1>5, <1>7, <2>1, <2>2 DEF DropsTo
  <1> QED BY <1>8, <1>9

\* The parser's own reference is dropped.
WithEnd(a, x, b) == [a EXCEPT !.refs = x, !.freed = b]
AsDropped(a) == WithEnd(a, a.refs - 1, a.freed \/ (a.refs = 1))
LEMMA NodeWithEnd ==
  ASSUME NEW a \in NodeSet, NEW x \in Nat, NEW b \in BOOLEAN
  PROVE  /\ WithEnd(a, x, b) \in NodeSet /\ SameNode(WithEnd(a, x, b), a)
         /\ WithEnd(a, x, b).children = a.children /\ WithEnd(a, x, b).alloc = a.alloc
         /\ WithEnd(a, x, b).refs = x /\ WithEnd(a, x, b).freed = b
  BY DEF NodeSet, SameNode, WithEnd

\* The node that was just created, once the parser lets go of it.
LEMMA DroppedFields ==
  ASSUME NEW ns \in Seq(NodeSet), New \in DOMAIN ns, ns[New].refs > 0
  PROVE  /\ Dropped(ns) \in Seq(NodeSet) /\ DOMAIN Dropped(ns) = DOMAIN ns /\ Len(Dropped(ns)) = Len(ns)
         /\ \A m \in DOMAIN ns \ {New} : Dropped(ns)[m] = ns[m]
         /\ SameNode(Dropped(ns)[New], ns[New])
         /\ Dropped(ns)[New].children = ns[New].children /\ Dropped(ns)[New].alloc = ns[New].alloc
         /\ Dropped(ns)[New].refs = ns[New].refs - 1
         /\ Dropped(ns)[New].freed <=> (ns[New].freed \/ ns[New].refs = 1)
  <1> DEFINE n == New
  <1>0. ns[n] \in NodeSet
    OBVIOUS
  <1>1. ns[n].refs \in Nat /\ ns[n].freed \in BOOLEAN
    BY <1>0, NodeType
  <1>2. ns[n].refs - 1 \in Nat
    BY <1>1
  <1>3. ASSUME NEW a \in NodeSet, a.refs > 0
        PROVE  /\ AsDropped(a) \in NodeSet /\ SameNode(AsDropped(a), a)
               /\ AsDropped(a).children = a.children /\ AsDropped(a).alloc = a.alloc
               /\ AsDropped(a).refs = a.refs - 1
               /\ AsDropped(a).freed <=> (a.freed \/ a.refs = 1)
    <2>1. a.refs - 1 \in Nat
      BY <1>3, NodeType
    <2>2. (a.freed \/ (a.refs = 1)) \in BOOLEAN
      OBVIOUS
    <2> DEFINE b == a.freed \/ (a.refs = 1)
    <2> HIDE DEF b
    <2>3. /\ WithEnd(a, a.refs - 1, b) \in NodeSet /\ SameNode(WithEnd(a, a.refs - 1, b), a)
          /\ WithEnd(a, a.refs - 1, b).children = a.children /\ WithEnd(a, a.refs - 1, b).alloc = a.alloc
          /\ WithEnd(a, a.refs - 1, b).refs = a.refs - 1 /\ WithEnd(a, a.refs - 1, b).freed = b
      <3>1. b \in BOOLEAN
        BY <2>2 DEF b
      <3> QED BY <2>1, <3>1, NodeWithEnd
    <2> QED BY <2>3 DEF AsDropped, b
  <1>4. AsDropped(ns[n]) \in NodeSet
    BY <1>0, <1>3
  <1>5. Dropped(ns) = [ns EXCEPT ![n] = AsDropped(ns[n])]
    BY DEF Dropped, AsDropped, WithEnd
  <1> HIDE DEF n
  <1>6. /\ Dropped(ns) \in Seq(NodeSet) /\ DOMAIN Dropped(ns) = DOMAIN ns /\ Len(Dropped(ns)) = Len(ns)
        /\ \A m \in DOMAIN ns : Dropped(ns)[m] = IF m = n THEN AsDropped(ns[n]) ELSE ns[m]
    BY <1>4, <1>5, Replaced DEF n
  <1>7. n \in DOMAIN ns /\ Dropped(ns)[n] = AsDropped(ns[n])
    BY <1>6 DEF n
  <1> QED BY <1>0, <1>3, <1>6, <1>7 DEF n

\* A node with one more child.
NewAlloc(a) == (IF Full(a) THEN 2 ELSE 1) * FirstAlloc(a)
WithChildren(a, x, s) == [a EXCEPT !.alloc = x, !.children = s]
Given(a, x, s, b) ==
  /\ b \in NodeSet /\ SameNode(b, a) /\ b.children = s /\ b.alloc = x
  /\ b.refs = a.refs /\ b.freed = a.freed
LEMMA NodeWithChildren ==
  ASSUME NEW a \in NodeSet, NEW x \in Nat, NEW s \in Seq(Nat)
  PROVE  Given(a, x, s, WithChildren(a, x, s))
  BY DEF NodeSet, SameNode, WithChildren, Given

\* The array that was not full, or that was made larger, has room for one more child.
LEMMA RoomForChild ==
  ASSUME NEW a \in NodeSet, Len(a.children) <= a.alloc
  PROVE  /\ NewAlloc(a) \in Nat /\ Len(a.children) + 1 <= NewAlloc(a)
         /\ FirstAlloc(a) \in Nat /\ Len(a.children) <= FirstAlloc(a)
  <1>1. a.alloc \in Nat /\ Len(a.children) \in Nat
    BY NodeType
  <1>2. FirstAlloc(a) \in Nat /\ FirstAlloc(a) > 0 /\ Len(a.children) <= FirstAlloc(a)
    BY <1>1, RoomAssumption DEF FirstAlloc
  <1>3. CASE Full(a)
    BY <1>1, <1>2, <1>3 DEF NewAlloc
  <1>4. CASE ~Full(a)
    <2>1. FirstAlloc(a) \div 3 \in Nat /\ (FirstAlloc(a) \div 3) * 2 <= FirstAlloc(a)
      BY <1>2
    <2>2. Len(a.children) + 1 < (FirstAlloc(a) \div 3) * 2
      BY <1>1, <1>4, <2>1 DEF Full
    <2> QED BY <1>1, <1>2, <1>4, <2>1, <2>2 DEF NewAlloc
  <1> QED BY <1>3, <1>4

\* A child is attached: it counts one more, its parent has it last.
AttachesTo(ns, p, n, ns2) ==
  /\ ns2 \in Seq(NodeSet)
  /\ DOMAIN ns2 = DOMAIN ns /\ Len(ns2) = Len(ns)
  /\ \A m \in DOMAIN ns \ {p, n} : ns2[m] = ns[m]
  /\ SameNode(ns2[p], ns[p])
  /\ ns2[p].refs = ns[p].refs /\ ns2[p].freed = ns[p].freed
  /\ ns2[p].children = Append(ns[p].children, n)
  /\ Len(ns[p].children) + 1 <= ns2[p].alloc
  /\ SameNode(ns2[n], ns[n])
  /\ ns2[n].refs = ns[n].refs + 1 /\ ns2[n].freed = ns[n].freed
  /\ ns2[n].children = ns[n].children /\ ns2[n].alloc = ns[n].alloc
LEMMA AttachedFields ==
  ASSUME NEW ns \in Seq(NodeSet), NEW p \in DOMAIN ns, NEW n \in DOMAIN ns, p # n,
         Len(ns[p].children) <= ns[p].alloc
  PROVE  AttachesTo(ns, p, n, Attached(ns, p, n))
  <1>0. ns[p] \in NodeSet /\ ns[n] \in NodeSet /\ n \in Nat
    OBVIOUS
  <1> DEFINE a == WithChildren(ns[p], NewAlloc(ns[p]), Append(ns[p].children, n))
             b == WithRefs(ns[n], ns[n].refs + 1)
             given == [ns EXCEPT ![p] = a]
             both == [given EXCEPT ![n] = b]
  <1>1. /\ a \in NodeSet /\ SameNode(a, ns[p]) /\ a.children = Append(ns[p].children, n)
        /\ a.alloc = NewAlloc(ns[p]) /\ a.refs = ns[p].refs /\ a.freed = ns[p].freed
        /\ Len(ns[p].children) + 1 <= a.alloc
    <2>1. NewAlloc(ns[p]) \in Nat /\ Len(ns[p].children) + 1 <= NewAlloc(ns[p])
      BY <1>0, RoomForChild
    <2>2. Append(ns[p].children, n) \in Seq(Nat)
      <3>1. ns[p].children \in Seq(Nat)
        BY <1>0, NodeType
      <3> QED BY <1>0, <3>1
    <2> DEFINE x == NewAlloc(ns[p])
               s == Append(ns[p].children, n)
    <2>3. x \in Nat /\ s \in Seq(Nat)
      BY <2>1, <2>2
    <2> HIDE DEF x, s
    <2> DEFINE d == ns[p]
    <2>4. d \in NodeSet
      BY <1>0
    <2> HIDE DEF d
    <2>5. Given(d, x, s, WithChildren(d, x, s))
      BY Zenon, <2>3, <2>4, NodeWithChildren
    <2>6. a = WithChildren(d, x, s)
      BY DEF d, x, s
    <2> HIDE DEF a
    <2>7. Given(ns[p], NewAlloc(ns[p]), Append(ns[p].children, n), a)
      BY Zenon, <2>5, <2>6 DEF d, x, s
    <2> QED BY <2>1, <2>7 DEF Given
  <1>2. /\ b \in NodeSet /\ SameNode(b, ns[n]) /\ b.refs = ns[n].refs + 1 /\ b.freed = ns[n].freed
        /\ b.children = ns[n].children /\ b.alloc = ns[n].alloc
    <2>1. ns[n].refs + 1 \in Nat
      BY <1>0, NodeType
    <2> QED BY <1>0, <2>1, NodeWithRefs
  <1>3. Attached(ns, p, n) = both
    BY DEF Attached, WithChildren, WithRefs, NewAlloc
  <1> HIDE DEF a, b
  <1>4. given \in Seq(NodeSet) /\ DOMAIN given = DOMAIN ns /\ Len(given) = Len(ns)
        /\ \A m \in DOMAIN ns : given[m] = IF m = p THEN a ELSE ns[m]
    BY <1>1, Replaced
  <1> HIDE DEF given
  <1>5. both \in Seq(NodeSet) /\ DOMAIN both = DOMAIN ns /\ Len(both) = Len(ns)
        /\ \A m \in DOMAIN ns : both[m] = IF m = n THEN b ELSE given[m]
    BY <1>2, <1>4, Replaced
  <1> HIDE DEF both
  <1>6. both[p] = a /\ both[n] = b /\ \A m \in DOMAIN ns \ {p, n} : both[m] = ns[m]
    BY <1>4, <1>5
  <1> QED BY <1>1, <1>2, <1>3, <1>5, <1>6 DEF AttachesTo

\* The array cannot be had: at most its size on record changes.
LEMMA RefusedFields ==
  ASSUME NEW ns \in Seq(NodeSet), NEW p \in DOMAIN ns, NEW r \in Refused(ns, p),
         Len(ns[p].children) <= ns[p].alloc
  PROVE  /\ r \in Seq(NodeSet) /\ DOMAIN r = DOMAIN ns /\ Len(r) = Len(ns)
         /\ \A m \in DOMAIN ns \ {p} : r[m] = ns[m]
         /\ SameNode(r[p], ns[p]) /\ r[p].refs = ns[p].refs /\ r[p].freed = ns[p].freed
         /\ r[p].children = ns[p].children /\ Len(r[p].children) <= r[p].alloc
  <1>0. ns[p] \in NodeSet
    OBVIOUS
  <1>1. CASE r = ns
    BY <1>1 DEF SameNode
  <1>2. CASE r = [ns EXCEPT ![p].alloc = FirstAlloc(ns[p])]
    <2> DEFINE a == [ns[p] EXCEPT !.alloc = FirstAlloc(ns[p])]
    <2>1. FirstAlloc(ns[p]) \in Nat /\ Len(ns[p].children) <= FirstAlloc(ns[p])
      BY <1>0, RoomForChild
    <2>2. /\ a \in NodeSet /\ SameNode(a, ns[p]) /\ a.refs = ns[p].refs /\ a.freed = ns[p].freed
          /\ a.children = ns[p].children /\ a.alloc = FirstAlloc(ns[p])
      BY <1>0, <2>1 DEF NodeSet, SameNode
    <2>3. r = [ns EXCEPT ![p] = a]
      BY <1>2
    <2> HIDE DEF a
    <2>4. r \in Seq(NodeSet) /\ DOMAIN r = DOMAIN ns /\ Len(r) = Len(ns)
          /\ \A m \in DOMAIN ns : r[m] = IF m = p THEN a ELSE ns[m]
      BY <2>2, <2>3, Replaced
    <2> QED BY <2>1, <2>2, <2>4
  <1> QED BY <1>1, <1>2 DEF Refused

-----------------------------------------------------------------------------
(* Who holds a node.                                                       *)

\* There are finitely many places and holders, so they can be counted.
LEMMA PlacesFinite ==
  ASSUME NEW ns \in Seq(NodeSet), NEW w, NEW n, NEW hs
  PROVE  /\ IsFiniteSet(Places(ns, w, n)) /\ Cardinality(Places(ns, w, n)) \in Nat
         /\ IsFiniteSet(Holders(hs, n)) /\ Cardinality(Holders(hs, n)) \in Nat
  <1>1. DOMAIN ns = 1 .. Len(ns) /\ Len(ns) \in Nat /\ MaxNodes \in Nat
    BY BoundAssumption
  <1>2. IsFiniteSet(1 .. Len(ns)) /\ IsFiniteSet(1 .. MaxNodes)
    BY <1>1, FS_Interval
  <1>3. IsFiniteSet((DOMAIN ns) \X (1 .. MaxNodes))
    BY <1>1, <1>2, FS_Product
  <1>4. Places(ns, w, n) \in SUBSET ((DOMAIN ns) \X (1 .. MaxNodes))
    BY DEF Places
  <1>5. Holders(hs, n) \in SUBSET NodeObjects
    BY DEF Holders
  <1> QED BY <1>3, <1>4, <1>5, ObjectsAssumption, FS_Subset, FS_CardinalityType

\* Places stay if children stay, and whoever still holds some.
LEMMA PlacesSame ==
  ASSUME NEW ns \in Seq(NodeSet), NEW ns2 \in Seq(NodeSet), NEW w, NEW w2, NEW n,
         DOMAIN ns2 = DOMAIN ns,
         \A p \in DOMAIN ns : ns2[p].children = ns[p].children,
         \A p \in DOMAIN ns : \A i \in 1 .. Len(ns[p].children) :
           (ns2[p].freed \/ LetGo(w2, p, i)) <=> (ns[p].freed \/ LetGo(w, p, i))
  PROVE  Places(ns2, w2, n) = Places(ns, w, n)
  <1>1. ASSUME NEW e \in (DOMAIN ns) \X (1 .. MaxNodes)
        PROVE  e \in Places(ns2, w2, n) <=> e \in Places(ns, w, n)
    <2>1. e[1] \in DOMAIN ns /\ e[2] \in 1 .. MaxNodes
      OBVIOUS
    <2>2. ns2[e[1]].children = ns[e[1]].children
      BY <2>1
    <2>3. CASE ~(e[2] <= Len(ns[e[1]].children))
      BY <2>2, <2>3 DEF Places
    <2>4. CASE e[2] <= Len(ns[e[1]].children)
      <3>1. ns[e[1]] \in NodeSet
        BY <2>1
      <3>2. Len(ns[e[1]].children) \in Nat
        BY <3>1, NodeType
      <3>3. e[2] \in 1 .. Len(ns[e[1]].children)
        BY <2>1, <2>4, <3>2, BoundAssumption
      <3>4. (ns2[e[1]].freed \/ LetGo(w2, e[1], e[2])) <=> (ns[e[1]].freed \/ LetGo(w, e[1], e[2]))
        BY <2>1, <3>3
      <3> QED BY <2>1, <2>2, <3>4 DEF Places
    <2> QED BY <2>3, <2>4
  <1> QED BY <1>1 DEF Places

\* The shape of the tree stays with the kinds, the data, the children and the parents.
LEMMA ShapeSame ==
  ASSUME NEW ns \in Seq(NodeSet), NEW ns2 \in Seq(NodeSet),
         DOMAIN ns2 = DOMAIN ns, Len(ns2) = Len(ns),
         \A m \in DOMAIN ns : SameNode(ns2[m], ns[m]) /\ ns2[m].children = ns[m].children
                             /\ ns2[m].alloc = ns[m].alloc,
         ChildrenSound(ns), ParentsSound(ns)
  PROVE  ChildrenSound(ns2) /\ ParentsSound(ns2) /\ \A m \in DOMAIN ns : Complete(ns2, m) <=> Complete(ns, m)
  <1>1. \A m \in DOMAIN ns : Complete(ns2, m) <=> Complete(ns, m)
    BY DEF Complete, SameNode
  <1>2. ChildrenSound(ns2)
    <2> SUFFICES ASSUME NEW p \in DOMAIN ns
                 PROVE  /\ Len(ns[p].children) < Len(ns) /\ Len(ns[p].children) <= MaxNodes
                        /\ Len(ns[p].children) <= ns[p].alloc
                        /\ ~ns[p].data => ns[p].children = << >>
                        /\ \A i \in 1 .. Len(ns[p].children) :
                             ns[p].children[i] \in DOMAIN ns \ {Empty} /\ Complete(ns2, ns[p].children[i])
      BY DEF ChildrenSound, SameNode
    <2> QED BY <1>1 DEF ChildrenSound
  <1>3. ParentsSound(ns2)
    BY DEF ParentsSound, SameNode
  <1> QED BY <1>1, <1>2, <1>3

\* A reference that somebody has given up is dropped: what is counted is what is held
\* again, the active calls stay sound, and a node is freed only if nobody holds it.
SoundAgain(ns, ns2, w2, alive, hd, t, hs) ==
  /\ ChildrenSound(ns2) /\ ParentsSound(ns2) /\ WorkSound(ns2, w2) /\ FreedUnheld(ns2)
  /\ Counted(ns2, w2, alive, hd, t, hs)
  /\ \A m \in DOMAIN ns : Complete(ns2, m) <=> Complete(ns, m)
LEMMA ReleasedSound ==
  ASSUME NEW ns \in Seq(NodeSet), NEW w \in Calls, NEW n \in DOMAIN ns, ns[n].refs > 0,
         NEW alive \in BOOLEAN, NEW hd, NEW t, NEW hs,
         ChildrenSound(ns), ParentsSound(ns), WorkSound(ns, w), FreedUnheld(ns),
         \A m \in DOMAIN ns \ {Empty} :
           ns[m].refs = HeldBy(ns, w, alive, hd, t, hs, m) + (IF m = n THEN 1 ELSE 0),
         NEW ns2, NEW w2, DropsTo(ns, w, n, ns2, w2), ~ns[Empty].data
  PROVE  SoundAgain(ns, ns2, w2, alive, hd, t, hs)
  <1>1. /\ ns2 \in Seq(NodeSet) /\ DOMAIN ns2 = DOMAIN ns /\ Len(ns2) = Len(ns)
        /\ \A m \in DOMAIN ns \ {n} : ns2[m] = ns[m]
        /\ ns2[n].refs = ns[n].refs - 1
        /\ ns2[n].freed <=> (ns[n].freed \/ (ns[n].refs = 1 /\ ~ns[n].data))
    BY DEF DropsTo
  <1>2. ChildrenSound(ns2) /\ ParentsSound(ns2) /\ \A m \in DOMAIN ns : Complete(ns2, m) <=> Complete(ns, m)
    <2>1. \A m \in DOMAIN ns : SameNode(ns2[m], ns[m]) /\ ns2[m].children = ns[m].children
                                /\ ns2[m].alloc = ns[m].alloc
      BY DEF DropsTo, SameNode
    <2> QED BY <1>1, <2>1, ShapeSame
  <1>3. ns[n] \in NodeSet /\ ns[n].refs \in Nat /\ ns[n].data \in BOOLEAN
    BY NodeType
  <1>4. WorkSound(ns2, w2)
    <2>0. \A k \in DOMAIN w : w[k][1] # n
      BY DEF WorkSound
    <2>1. CASE ns[n].refs = 1 /\ ns[n].data
      <3>0. Len(w) \in Nat
        BY DEF Calls
      <3>1. w2 = Append(w, <<n, 0>>) /\ Len(w) \in Nat
        BY <2>1, <3>0 DEF DropsTo
      <3>2. DOMAIN w = 1 .. Len(w) /\ DOMAIN w2 = 1 .. Len(w) + 1
            /\ \A k \in 1 .. Len(w) : w2[k] = w[k]
        BY <3>1 DEF Calls
      <3>3. w2[Len(w) + 1] = <<n, 0>>
        BY <3>1 DEF Calls
      <3>4. n # Empty /\ ~ns[n].freed
        BY <2>1 DEF FreedUnheld
      <3>5. Distinct(w2)
        <4>1. Distinct(w)
          BY DEF WorkSound
        <4>2. w2[Len(w) + 1][1] = n /\ \A k \in 1 .. Len(w) : w2[k][1] = w[k][1] /\ w2[k][1] # n
          BY <2>0, <3>2, <3>3
        <4>3. \A k \in DOMAIN w2 : k \in 1 .. Len(w) \/ k = Len(w) + 1
          BY <3>0, <3>2
        <4> QED BY <3>2, <4>1, <4>2, <4>3 DEF Distinct
      <3>6. ASSUME NEW k \in DOMAIN w2
            PROVE  /\ w2[k][1] \in DOMAIN ns2 \ {Empty}
                   /\ ns2[w2[k][1]].refs = 0 /\ ~ns2[w2[k][1]].freed /\ ns2[w2[k][1]].data
        <4>1. CASE k = Len(w) + 1
          <5>1. w2[k][1] = n
            BY <4>1, <3>3
          <5>2. ns2[n].data
            BY <2>1 DEF DropsTo, SameNode
          <5>3. ns2[n].refs = 0 /\ ~ns2[n].freed
            BY <2>1, <3>4, <1>1
          <5> QED BY <5>1, <5>2, <5>3, <3>4, <1>1
        <4>2. CASE k # Len(w) + 1
          <5>1. k \in DOMAIN w /\ w2[k] = w[k] /\ w[k][1] # n
            BY <4>2, <2>0, <3>1, <3>2
          <5>2. /\ w[k][1] \in DOMAIN ns \ {Empty}
                /\ ns[w[k][1]].refs = 0 /\ ~ns[w[k][1]].freed /\ ns[w[k][1]].data
            BY <5>1 DEF WorkSound
          <5> QED BY <5>1, <5>2, <1>1
        <4> QED BY <4>1, <4>2
      <3> QED BY <3>5, <3>6 DEF WorkSound
    <2>2. CASE ~(ns[n].refs = 1 /\ ns[n].data)
      <3>1. w2 = w
        BY <2>2 DEF DropsTo
      <3>2. ASSUME NEW k \in DOMAIN w
            PROVE  /\ w[k][1] \in DOMAIN ns2 \ {Empty}
                   /\ ns2[w[k][1]].refs = 0 /\ ~ns2[w[k][1]].freed /\ ns2[w[k][1]].data
        <4>1. /\ w[k][1] \in DOMAIN ns \ {Empty} /\ w[k][1] # n
              /\ ns[w[k][1]].refs = 0 /\ ~ns[w[k][1]].freed /\ ns[w[k][1]].data
          BY <2>0 DEF WorkSound
        <4> QED BY <4>1, <1>1
      <3> QED BY <3>1, <3>2 DEF WorkSound
    <2> QED BY <2>1, <2>2
  <1>5. FreedUnheld(ns2)
    <2> SUFFICES ASSUME NEW m \in DOMAIN ns \ {Empty}, ns2[m].freed
                 PROVE  ns2[m].refs = 0
      BY <1>1 DEF FreedUnheld
    <2>1. CASE m = n
      <3>1. ~ns[n].freed
        BY <2>1 DEF FreedUnheld
      <3> QED BY <2>1, <3>1, <1>1, <1>3
    <2>2. CASE m # n
      BY <2>2, <1>1 DEF FreedUnheld
    <2> QED BY <2>1, <2>2
  <1>6. ASSUME NEW m
        PROVE  Places(ns2, w2, m) = Places(ns, w, m)
    <2>1. ASSUME NEW p \in DOMAIN ns, NEW i \in 1 .. Len(ns[p].children)
          PROVE  (ns2[p].freed \/ LetGo(w2, p, i)) <=> (ns[p].freed \/ LetGo(w, p, i))
      <3>1. ns[p].data
        BY DEF ChildrenSound
      <3>2. ns2[p].freed <=> ns[p].freed
        BY <3>1, <1>1
      <3>3. LetGo(w2, p, i) <=> LetGo(w, p, i)
        <4>1. CASE w2 = w
          BY <4>1
        <4>2. CASE w2 = Append(w, <<n, 0>>)
          <5>1. Len(w) \in Nat /\ DOMAIN w = 1 .. Len(w) /\ DOMAIN w2 = 1 .. Len(w) + 1
                /\ \A k \in 1 .. Len(w) : w2[k] = w[k]
            BY <4>2 DEF Calls
          <5>2. w2[Len(w) + 1] = <<n, 0>>
            BY <4>2 DEF Calls
          <5>3. ~(i <= w2[Len(w) + 1][2])
            BY <5>2
          <5> QED BY SMTT(30), <5>1, <5>3 DEF LetGo
        <4> QED BY <4>1, <4>2 DEF DropsTo
      <3> QED BY <3>2, <3>3
    <2>2. \A p \in DOMAIN ns : ns2[p].children = ns[p].children
      BY <1>1 DEF DropsTo
    <2> QED BY SMTT(30), <1>1, <2>1, <2>2, PlacesSame
  <1>7. Counted(ns2, w2, alive, hd, t, hs)
    <2> SUFFICES ASSUME NEW m \in DOMAIN ns \ {Empty}
                 PROVE  ns2[m].refs = HeldBy(ns2, w2, alive, hd, t, hs, m)
      BY <1>1 DEF Counted
    <2>1. HeldBy(ns2, w2, alive, hd, t, hs, m) = HeldBy(ns, w, alive, hd, t, hs, m)
      BY <1>6 DEF HeldBy
    <2>2. HeldBy(ns, w, alive, hd, t, hs, m) \in Nat
      BY PlacesFinite DEF HeldBy, Count
    <2>3. ns[m].refs = HeldBy(ns, w, alive, hd, t, hs, m) + (IF m = n THEN 1 ELSE 0)
      OBVIOUS
    <2>4. ns2[m].refs = IF m = n THEN ns[m].refs - 1 ELSE ns[m].refs
      BY <1>1
    <2> HIDE DEF HeldBy
    <2> QED BY <2>1, <2>2, <2>3, <2>4
  <1> QED BY <1>2, <1>4, <1>5, <1>7 DEF SoundAgain

\* A node is created, as a child of p or not.
Extends(ns, p, attached, ns2) ==
  /\ ns2 \in Seq(NodeSet) /\ Len(ns2) = Len(ns) + 1
  /\ \A m \in DOMAIN ns \ {p} : ns2[m] = ns[m]
  /\ p \in DOMAIN ns =>
       /\ SameNode(ns2[p], ns[p]) /\ ns2[p].refs = ns[p].refs /\ ns2[p].freed = ns[p].freed
       /\ IF attached THEN ns2[p].children = Append(ns[p].children, Len(ns) + 1)
          ELSE ns2[p].children = ns[p].children
       /\ Len(ns2[p].children) <= ns2[p].alloc
  /\ ns2[Len(ns) + 1].children = << >>
  /\ ns2[Len(ns) + 1].kind \in InnerKinds => ns2[Len(ns) + 1].parent = p

\* Then the shape of the tree is sound as it was,
LEMMA ExtendedShape ==
  ASSUME NEW ns \in Seq(NodeSet), NEW p \in Nat, NEW attached \in BOOLEAN, NEW ns2,
         Extends(ns, p, attached, ns2), ChildrenSound(ns), ParentsSound(ns), Len(ns) > 0,
         ns2[Len(ns) + 1].kind \in InnerKinds => p \in DOMAIN ns /\ ns[p].data,
         attached => /\ p \in DOMAIN ns /\ ns[p].data /\ Len(ns) < MaxNodes
                     /\ Complete(ns2, Len(ns) + 1)
  PROVE  /\ ChildrenSound(ns2) /\ ParentsSound(ns2)
         /\ \A m \in DOMAIN ns : SameNode(ns2[m], ns[m]) /\ ns2[m].refs = ns[m].refs
                                /\ ns2[m].freed = ns[m].freed /\ (Complete(ns2, m) <=> Complete(ns, m))
         /\ DOMAIN ns = 1 .. Len(ns) /\ DOMAIN ns2 = 1 .. Len(ns) + 1 /\ Len(ns) \in Nat
  <1> DEFINE n == Len(ns) + 1
  <1>0. DOMAIN ns = 1 .. Len(ns) /\ DOMAIN ns2 = 1 .. n /\ Len(ns) \in Nat /\ ns2 \in Seq(NodeSet)
    BY DEF Extends
  <1>1. ASSUME NEW m \in DOMAIN ns
        PROVE  /\ SameNode(ns2[m], ns[m]) /\ ns2[m].refs = ns[m].refs
               /\ ns2[m].freed = ns[m].freed /\ (Complete(ns2, m) <=> Complete(ns, m))
    BY DEF Extends, SameNode, Complete
  <1>2. ASSUME NEW q \in DOMAIN ns2
        PROVE  /\ Len(ns2[q].children) < Len(ns2) /\ Len(ns2[q].children) <= MaxNodes
               /\ Len(ns2[q].children) <= ns2[q].alloc
               /\ ~ns2[q].data => ns2[q].children = << >>
               /\ \A i \in 1 .. Len(ns2[q].children) :
                    ns2[q].children[i] \in DOMAIN ns2 \ {Empty} /\ Complete(ns2, ns2[q].children[i])
    <2>1. CASE q = n
      <3>1. ns2[q].children = << >> /\ ns2[q] \in NodeSet /\ Len(ns2) = n
        BY <2>1, <1>0 DEF Extends
      <3>2. ns2[q].alloc \in Nat
        BY <3>1, NodeType
      <3> QED BY <3>1, <3>2, <1>0, BoundAssumption
    <2>2. CASE q # n /\ ns2[q].children = ns[q].children
      <3>0. q \in DOMAIN ns /\ Len(ns2) = n /\ ns[q] \in NodeSet
        BY <2>2, <1>0 DEF Extends
      <3>1. /\ Len(ns[q].children) < Len(ns) /\ Len(ns[q].children) <= MaxNodes
            /\ Len(ns[q].children) <= ns[q].alloc
            /\ ~ns[q].data => ns[q].children = << >>
            /\ \A i \in 1 .. Len(ns[q].children) :
                 ns[q].children[i] \in DOMAIN ns \ {Empty} /\ Complete(ns, ns[q].children[i])
        BY <3>0 DEF ChildrenSound
      <3>2. ns2[q].data = ns[q].data /\ Len(ns[q].children) \in Nat
        BY <3>0, <1>1, NodeType DEF SameNode
      <3>3. Len(ns2[q].children) <= ns2[q].alloc
        BY <2>2, <3>0, <3>1 DEF Extends
      <3>4. \A i \in 1 .. Len(ns[q].children) :
              ns[q].children[i] \in DOMAIN ns2 \ {Empty} /\ Complete(ns2, ns[q].children[i])
        BY <3>1, <1>0, <1>1
      <3> QED BY <2>2, <3>0, <3>1, <3>2, <3>3, <3>4, <1>0
    <2>3. CASE q # n /\ ns2[q].children # ns[q].children
      <3>0. q \in DOMAIN ns /\ Len(ns2) = n /\ ns[q] \in NodeSet
        BY <2>3, <1>0 DEF Extends
      <3>1. q = p /\ attached
        BY <2>3, <3>0 DEF Extends
      <3>2. ns2[q].children = Append(ns[q].children, n) /\ Len(ns2[q].children) <= ns2[q].alloc
        BY <3>0, <3>1 DEF Extends
      <3>3. ns[q].children \in Seq(Nat) /\ ns2[q].data
        BY <3>0, <3>1, <1>1, NodeType DEF SameNode
      <3>4. /\ Len(ns[q].children) < Len(ns)
            /\ \A i \in 1 .. Len(ns[q].children) :
                 ns[q].children[i] \in DOMAIN ns \ {Empty} /\ Complete(ns, ns[q].children[i])
        BY <3>0 DEF ChildrenSound
      <3>5. Len(ns2[q].children) = Len(ns[q].children) + 1 /\ Len(ns[q].children) \in Nat
            /\ ns2[q].children[Len(ns[q].children) + 1] = n
            /\ \A i \in 1 .. Len(ns[q].children) : ns2[q].children[i] = ns[q].children[i]
        BY <3>2, <3>3, <1>0
      <3>6. n \in DOMAIN ns2 \ {Empty} /\ Complete(ns2, n)
        BY <1>0, <3>1 DEF Empty
      <3>7. ASSUME NEW i \in 1 .. Len(ns2[q].children)
            PROVE  ns2[q].children[i] \in DOMAIN ns2 \ {Empty} /\ Complete(ns2, ns2[q].children[i])
        <4>1. CASE i = Len(ns[q].children) + 1
          BY <4>1, <3>5, <3>6
        <4>2. CASE i # Len(ns[q].children) + 1
          <5>1. i \in 1 .. Len(ns[q].children) /\ ns2[q].children[i] = ns[q].children[i]
            BY SMTT(30), <4>2, <3>5
          <5>2. ns[q].children[i] \in DOMAIN ns \ {Empty} /\ Complete(ns, ns[q].children[i])
            BY <5>1, <3>4
          <5> QED BY <5>1, <5>2, <1>0, <1>1
        <4> QED BY <4>1, <4>2
      <3> QED BY SMTT(30), <3>0, <3>1, <3>2, <3>3, <3>4, <3>5, <3>7, <1>0, BoundAssumption
    <2> QED BY <2>1, <2>2, <2>3
  <1>3. ParentsSound(ns2)
    <2> SUFFICES ASSUME NEW m \in DOMAIN ns2, ns2[m].kind \in InnerKinds
                 PROVE  ns2[m].parent \in DOMAIN ns2 /\ ns2[ns2[m].parent].data
      BY DEF ParentsSound
    <2>1. CASE m = n
      BY <2>1, <1>0, <1>1 DEF Extends, SameNode
    <2>2. CASE m # n
      <3>1. m \in DOMAIN ns /\ ns[m].kind \in InnerKinds /\ ns2[m].parent = ns[m].parent
        BY <2>2, <1>0, <1>1 DEF SameNode
      <3> QED BY <3>1, <1>0, <1>1 DEF ParentsSound, SameNode
    <2> QED BY <2>1, <2>2
  <1>4. ChildrenSound(ns2)
    BY <1>2 DEF ChildrenSound
  <1> QED BY <1>0, <1>1, <1>3, <1>4

\* (a place when no call is active)
IsPlace(ns, q, i, m) ==
  /\ q \in DOMAIN ns /\ i \in 1 .. MaxNodes
  /\ ~ns[q].freed /\ i <= Len(ns[q].children) /\ ns[q].children[i] = m
LEMMA PlacesIdle ==
  ASSUME NEW ns \in Seq(NodeSet), NEW m
  PROVE  Places(ns, << >>, m) = {e \in Nat \X Nat : IsPlace(ns, e[1], e[2], m)}
  <1>1. \A q, i : ~LetGo(<< >>, q, i)
    BY DEF LetGo
  <1>2. (DOMAIN ns) \X (1 .. MaxNodes) \subseteq Nat \X Nat
    OBVIOUS
  <1>3. ASSUME NEW e \in Nat \X Nat
        PROVE  e \in (DOMAIN ns) \X (1 .. MaxNodes) <=> e[1] \in DOMAIN ns /\ e[2] \in 1 .. MaxNodes
    OBVIOUS
  <1> QED BY <1>1, <1>2, <1>3 DEF Places, IsPlace

\* the places of all others are what they were, and the new node has one or none,
LEMMA ExtendedPlaces ==
  ASSUME NEW ns \in Seq(NodeSet), NEW p \in Nat, NEW attached \in BOOLEAN, NEW ns2,
         Extends(ns, p, attached, ns2), ChildrenSound(ns), Len(ns) > 0,
         attached => p \in DOMAIN ns /\ ~ns[p].freed /\ Len(ns) < MaxNodes
  PROVE  /\ \A m \in DOMAIN ns : Places(ns2, << >>, m) = Places(ns, << >>, m)
         /\ attached => Places(ns2, << >>, Len(ns) + 1) = {<<p, Len(ns[p].children) + 1>>}
         /\ ~attached => Places(ns2, << >>, Len(ns) + 1) = {}
  <1> DEFINE n == Len(ns) + 1
  <1>0. DOMAIN ns = 1 .. Len(ns) /\ DOMAIN ns2 = 1 .. n /\ Len(ns) \in Nat /\ ns2 \in Seq(NodeSet)
        /\ Len(ns2) = n
    BY DEF Extends
  <1>4. ASSUME NEW q \in 1 .. Len(ns)
        PROVE  /\ ns[q].children \in Seq(Nat) /\ Len(ns[q].children) \in Nat
               /\ Len(ns[q].children) < Len(ns) /\ ns2[q].freed = ns[q].freed
               /\ IF attached /\ q = p THEN ns2[q].children = Append(ns[q].children, n)
                  ELSE ns2[q].children = ns[q].children
               /\ \A i \in 1 .. Len(ns[q].children) : ns[q].children[i] \in 1 .. Len(ns)
    <2>1. ns[q] \in NodeSet
      BY <1>0
    <2>2. ns[q].children \in Seq(Nat) /\ Len(ns[q].children) \in Nat
      BY <2>1, NodeType
    <2>3. Len(ns[q].children) < Len(ns) /\ \A i \in 1 .. Len(ns[q].children) : ns[q].children[i] \in 1 .. Len(ns)
      BY <1>0 DEF ChildrenSound
    <2>4. /\ ns2[q].freed = ns[q].freed
          /\ IF attached /\ q = p THEN ns2[q].children = Append(ns[q].children, n)
             ELSE ns2[q].children = ns[q].children
      BY <1>0 DEF Extends
    <2> QED BY <2>2, <2>3, <2>4
  <1>5. ns2[n].children = << >>
    BY DEF Extends
  <1>6. ASSUME NEW m \in 1 .. Len(ns), NEW q \in Nat, NEW i \in Nat
        PROVE  IsPlace(ns2, q, i, m) <=> IsPlace(ns, q, i, m)
    <2>1. CASE q \in 1 .. Len(ns) /\ attached /\ q = p
      <3>1. ns2[q].children = Append(ns[q].children, n) /\ ns[q].children \in Seq(Nat)
            /\ Len(ns[q].children) \in Nat /\ ns2[q].freed = ns[q].freed
        BY <2>1, <1>4
      <3>2. Len(ns2[q].children) = Len(ns[q].children) + 1
            /\ ns2[q].children[Len(ns[q].children) + 1] = n
            /\ \A j \in 1 .. Len(ns[q].children) : ns2[q].children[j] = ns[q].children[j]
        BY <3>1, <1>0
      <3>3. CASE i \in 1 .. Len(ns[q].children)
        BY <2>1, <3>1, <3>2, <3>3, <1>0 DEF IsPlace
      <3>4. CASE i = Len(ns[q].children) + 1
        BY <2>1, <3>1, <3>2, <3>4, <1>0 DEF IsPlace
      <3>5. CASE i = 0 \/ i > Len(ns[q].children) + 1
        <4>1. ~(i \in 1 .. MaxNodes /\ i <= Len(ns2[q].children))
          BY <3>1, <3>2, <3>5, BoundAssumption
        <4>2. ~(i \in 1 .. MaxNodes /\ i <= Len(ns[q].children))
          BY <3>1, <3>5, BoundAssumption
        <4> QED BY <4>1, <4>2 DEF IsPlace
      <3>6. i \in 1 .. Len(ns[q].children) \/ i = Len(ns[q].children) + 1
            \/ i = 0 \/ i > Len(ns[q].children) + 1
        BY <3>1
      <3> QED BY <3>3, <3>4, <3>5, <3>6
    <2>2. CASE q \in 1 .. Len(ns) /\ ~(attached /\ q = p)
      <3>1. ns2[q].children = ns[q].children /\ ns2[q].freed = ns[q].freed
        BY <2>2, <1>4
      <3> QED BY <2>2, <3>1, <1>0 DEF IsPlace
    <2>3. CASE q = n
      <3>1. ~(i \in 1 .. MaxNodes /\ i <= Len(ns2[n].children))
        BY <1>5, BoundAssumption
      <3> QED BY <2>3, <3>1, <1>0 DEF IsPlace
    <2>4. CASE ~(q \in 1 .. n)
      BY <2>4, <1>0 DEF IsPlace
    <2> QED BY <2>1, <2>2, <2>3, <2>4, <1>0
  <1>7. ASSUME NEW q \in Nat, NEW i \in Nat
        PROVE  IsPlace(ns2, q, i, n) <=> (attached /\ q = p /\ i = Len(ns[p].children) + 1)
    <2>1. CASE q \in 1 .. Len(ns) /\ attached /\ q = p
      <3>1. ns2[q].children = Append(ns[q].children, n) /\ ns[q].children \in Seq(Nat)
            /\ Len(ns[q].children) \in Nat /\ ns2[q].freed = ns[q].freed /\ Len(ns[q].children) < Len(ns)
            /\ \A j \in 1 .. Len(ns[q].children) : ns[q].children[j] \in 1 .. Len(ns)
        BY <2>1, <1>4
      <3>2. Len(ns2[q].children) = Len(ns[q].children) + 1
            /\ ns2[q].children[Len(ns[q].children) + 1] = n
            /\ \A j \in 1 .. Len(ns[q].children) : ns2[q].children[j] = ns[q].children[j]
        BY <3>1, <1>0
      <3>3. CASE i \in 1 .. Len(ns[q].children)
        <4>1. ns2[q].children[i] # n
          <5>1. ns2[q].children[i] = ns[q].children[i]
            BY <3>2, <3>3
          <5>2. ns[q].children[i] \in 1 .. Len(ns)
            BY <3>1, <3>3
          <5>3. n \notin 1 .. Len(ns)
            BY <1>0
          <5> QED BY <5>1, <5>2, <5>3
        <4> QED BY <2>1, <3>1, <3>3, <4>1 DEF IsPlace
      <3>4. CASE i = Len(ns[q].children) + 1
        <4>1. i \in 1 .. MaxNodes /\ ~ns2[q].freed /\ i <= Len(ns2[q].children) /\ ns2[q].children[i] = n
          BY <2>1, <3>1, <3>2, <3>4, <1>0, BoundAssumption
        <4> QED BY <2>1, <3>4, <4>1, <1>0 DEF IsPlace
      <3>5. CASE i = 0 \/ i > Len(ns[q].children) + 1
        <4>1. ~(i \in 1 .. MaxNodes /\ i <= Len(ns2[q].children))
          BY <3>1, <3>2, <3>5, BoundAssumption
        <4>2. i # Len(ns[p].children) + 1
          BY <2>1, <3>1, <3>5
        <4> QED BY <4>1, <4>2 DEF IsPlace
      <3>6. i \in 1 .. Len(ns[q].children) \/ i = Len(ns[q].children) + 1
            \/ i = 0 \/ i > Len(ns[q].children) + 1
        BY <3>1
      <3> QED BY <3>3, <3>4, <3>5, <3>6
    <2>2. CASE q \in 1 .. Len(ns) /\ ~(attached /\ q = p)
      <3>1. ns2[q].children = ns[q].children /\ Len(ns[q].children) \in Nat
            /\ \A j \in 1 .. Len(ns[q].children) : ns[q].children[j] \in 1 .. Len(ns)
        BY <2>2, <1>4
      <3>2. ~(i \in 1 .. MaxNodes /\ i <= Len(ns2[q].children) /\ ns2[q].children[i] = n)
        BY <3>1, <1>0, BoundAssumption
      <3> QED BY <2>2, <3>2 DEF IsPlace
    <2>3. CASE q = n
      <3>1. ~(i \in 1 .. MaxNodes /\ i <= Len(ns2[n].children))
        BY <1>5, BoundAssumption
      <3> QED BY <2>3, <3>1, <1>0 DEF IsPlace
    <2>4. CASE ~(q \in 1 .. n)
      BY <2>4, <1>0 DEF IsPlace
    <2> QED BY <2>1, <2>2, <2>3, <2>4, <1>0
  <1>8. \A m : /\ Places(ns2, << >>, m) = {e \in Nat \X Nat : IsPlace(ns2, e[1], e[2], m)}
              /\ Places(ns, << >>, m) = {e \in Nat \X Nat : IsPlace(ns, e[1], e[2], m)}
    BY <1>0, PlacesIdle
  <1>9. ASSUME NEW m \in DOMAIN ns
        PROVE  Places(ns2, << >>, m) = Places(ns, << >>, m)
    <2>1. ASSUME NEW e \in Nat \X Nat
          PROVE  IsPlace(ns2, e[1], e[2], m) <=> IsPlace(ns, e[1], e[2], m)
      BY <1>0, <1>6
    <2> QED BY <2>1, <1>8
  <1>10. CASE attached
    <2> DEFINE c == Len(ns[p].children) + 1
    <2>1. p \in Nat /\ c \in Nat
      BY <1>10, <1>0, <1>4
    <2>2. ASSUME NEW e \in Nat \X Nat
          PROVE  IsPlace(ns2, e[1], e[2], n) <=> e = <<p, c>>
      BY <1>7, <1>10
    <2> HIDE DEF c
    <2>3. Places(ns2, << >>, n) = {<<p, c>>}
      BY <2>1, <2>2, <1>8
    <2> QED BY <2>3, <1>9, <1>10 DEF c
  <1>11. CASE ~attached
    <2>1. Places(ns2, << >>, n) = {}
      BY <1>7, <1>8, <1>11
    <2> QED BY <2>1, <1>9, <1>11
  <1> QED BY <1>10, <1>11

\* and if the new node counts those who have it, everything is counted.
Grows(ns, p, attached, ns2) ==
  /\ ns \in Seq(NodeSet) /\ Len(ns) > 0 /\ Extends(ns, p, attached, ns2)
  /\ ChildrenSound(ns) /\ ParentsSound(ns) /\ FreedUnheld(ns)
  /\ ns2[Len(ns) + 1].kind \in InnerKinds => p \in DOMAIN ns /\ ns[p].data
  /\ attached => /\ p \in DOMAIN ns /\ ns[p].data /\ ~ns[p].freed /\ Len(ns) < MaxNodes
                 /\ Complete(ns2, Len(ns) + 1)
  /\ ns2[Len(ns) + 1].freed => ns2[Len(ns) + 1].refs = 0
NewHeld(ns, attached, ns2, alive, hd, t, hd2, t2) ==
  /\ \A m \in DOMAIN ns : (hd2 = m <=> hd = m) /\ (t2 = m <=> t = m)
  /\ ns2[Len(ns) + 1].refs = Count(attached) + Count(alive /\ hd2 = Len(ns) + 1) + Count(t2 = Len(ns) + 1)
LEMMA ExtendedSound ==
  ASSUME NEW ns, NEW p \in Nat, NEW attached \in BOOLEAN, NEW ns2, Grows(ns, p, attached, ns2),
         NEW alive \in BOOLEAN, NEW hd, NEW t, NEW hd2, NEW t2,
         NewHeld(ns, attached, ns2, alive, hd, t, hd2, t2),
         NEW hs \in [NodeObjects -> DOMAIN ns \cup {Null}],
         Counted(ns, << >>, alive, hd, t, hs)
  PROVE  /\ ChildrenSound(ns2) /\ ParentsSound(ns2) /\ FreedUnheld(ns2) /\ WorkSound(ns2, << >>)
         /\ Counted(ns2, << >>, alive, hd2, t2, hs)
  <1> DEFINE n == Len(ns) + 1
  <1>a. /\ ns \in Seq(NodeSet) /\ Len(ns) > 0 /\ Extends(ns, p, attached, ns2)
        /\ ChildrenSound(ns) /\ ParentsSound(ns) /\ FreedUnheld(ns)
        /\ ns2[Len(ns) + 1].kind \in InnerKinds => p \in DOMAIN ns /\ ns[p].data
        /\ attached => /\ p \in DOMAIN ns /\ ns[p].data /\ ~ns[p].freed /\ Len(ns) < MaxNodes
                       /\ Complete(ns2, Len(ns) + 1)
        /\ ns2[Len(ns) + 1].freed => ns2[Len(ns) + 1].refs = 0
    BY DEF Grows
  <1>b. /\ \A m \in DOMAIN ns : (hd2 = m <=> hd = m) /\ (t2 = m <=> t = m)
        /\ ns2[Len(ns) + 1].refs = Count(attached) + Count(alive /\ hd2 = Len(ns) + 1) + Count(t2 = Len(ns) + 1)
    BY DEF NewHeld
  <1>0. DOMAIN ns = 1 .. Len(ns) /\ DOMAIN ns2 = 1 .. n /\ Len(ns) \in Nat /\ ns2 \in Seq(NodeSet)
    BY <1>a DEF Extends
  <1>1. /\ ChildrenSound(ns2) /\ ParentsSound(ns2)
        /\ \A m \in DOMAIN ns : ns2[m].refs = ns[m].refs /\ ns2[m].freed = ns[m].freed
    BY <1>a, ExtendedShape
  <1>2. /\ \A m \in DOMAIN ns : Places(ns2, << >>, m) = Places(ns, << >>, m)
        /\ attached => Places(ns2, << >>, n) = {<<p, Len(ns[p].children) + 1>>}
        /\ ~attached => Places(ns2, << >>, n) = {}
    <2>1. attached => p \in DOMAIN ns /\ ~ns[p].freed /\ Len(ns) < MaxNodes
      BY <1>a
    <2> QED BY <1>a, <2>1, ExtendedPlaces
  <1>3. Cardinality(Places(ns2, << >>, n)) = Count(attached)
    BY <1>2, FS_EmptySet, FS_Singleton DEF Count
  <1>4. Holders(hs, n) = {}
    BY <1>0 DEF Holders, Null
  <1>5. Cardinality(Holders(hs, n)) = 0
    BY <1>4, FS_EmptySet
  <1>6. Counted(ns2, << >>, alive, hd2, t2, hs)
    <2> SUFFICES ASSUME NEW m \in DOMAIN ns2 \ {Empty}
                 PROVE  ns2[m].refs = HeldBy(ns2, << >>, alive, hd2, t2, hs, m)
      BY DEF Counted
    <2>1. CASE m = n
      <3>1. Count(attached) \in Nat /\ Count(alive /\ hd2 = n) \in Nat /\ Count(t2 = n) \in Nat
        BY DEF Count
      <3>2. ns2[n].refs = Count(attached) + Count(alive /\ hd2 = n) + Count(t2 = n)
        BY <1>b
      <3>3. HeldBy(ns2, << >>, alive, hd2, t2, hs, n)
              = Count(attached) + Count(alive /\ hd2 = n) + Count(t2 = n) + 0
        BY <1>3, <1>5 DEF HeldBy
      <3> HIDE DEF n
      <3> QED BY <2>1, <3>1, <3>2, <3>3
    <2>2. CASE m # n
      <3>1. m \in DOMAIN ns \ {Empty}
        BY <2>2, <1>0
      <3>2. (hd2 = m <=> hd = m) /\ (t2 = m <=> t = m)
        BY <1>b, <3>1
      <3>3. HeldBy(ns2, << >>, alive, hd2, t2, hs, m) = HeldBy(ns, << >>, alive, hd, t, hs, m)
        BY <1>2, <3>1, <3>2 DEF HeldBy, Count
      <3> QED BY <1>1, <3>1, <3>3 DEF Counted
    <2> QED BY <2>1, <2>2
  <1>7. FreedUnheld(ns2)
    <2> SUFFICES ASSUME NEW m \in DOMAIN ns2 \ {Empty}, ns2[m].freed
                 PROVE  ns2[m].refs = 0
      BY DEF FreedUnheld
    <2>1. CASE m = n
      BY <2>1, <1>a
    <2>2. CASE m # n
      BY <2>2, <1>0, <1>1, <1>a DEF FreedUnheld
    <2> QED BY <2>1, <2>2
  <1>8. WorkSound(ns2, << >>)
    BY DEF WorkSound, Distinct
  <1> QED BY <1>1, <1>6, <1>7, <1>8

-----------------------------------------------------------------------------
(* The steps.                                                              *)

AllFaults == {"head", "head data", "langs", "lang", "node", "data", "leaf", "open", "unset"}
Grave == {"head data", "langs", "lang", "open", "unset"}
FreedSame == \A n \in DOMAIN nodes : nodes[n].freed => nodes'[n] = nodes[n]

\* The types, in the words of this module.
LEMMA TypeMeans ==
  TypeOK <=>
    /\ nodes \in Seq(NodeSet)
    /\ at \in {"start", "parse", "parsed", "app", "undefined"}
    /\ head \in DOMAIN nodes \cup {Null} /\ current \in DOMAIN nodes \cup {Null}
    /\ temp \in DOMAIN nodes \cup {Null}
    /\ langs \in BOOLEAN /\ faults \subseteq AllFaults
    /\ cueRefs \in Nat /\ cues \in 0 .. MaxCues
    /\ holds \in [NodeObjects -> DOMAIN nodes \cup {Null}]
    /\ work \in Seq((DOMAIN nodes) \X Nat)
  BY DEF TypeOK, NodeSet, AllFaults

\* The same of the next state.
LEMMA TypeMeansNext ==
  TypeOK' <=>
    /\ nodes' \in Seq(NodeSet)
    /\ at' \in {"start", "parse", "parsed", "app", "undefined"}
    /\ head' \in DOMAIN nodes' \cup {Null} /\ current' \in DOMAIN nodes' \cup {Null}
    /\ temp' \in DOMAIN nodes' \cup {Null}
    /\ langs' \in BOOLEAN /\ faults' \subseteq AllFaults
    /\ cueRefs' \in Nat /\ cues' \in 0 .. MaxCues
    /\ holds' \in [NodeObjects -> DOMAIN nodes' \cup {Null}]
    /\ work' \in Seq((DOMAIN nodes') \X Nat)
  BY DEF TypeOK, NodeSet, AllFaults

\* A token that makes a node: what is left to show when the tree is known to be sound.
LEMMA GrowStep ==
  ASSUME IInv, Parsing, NEW attached \in BOOLEAN, Extends(nodes, current, attached, nodes'),
         attached => ~nodes[current].freed /\ Len(nodes) < MaxNodes /\ Complete(nodes', New),
         at' \in {"parse", "undefined"}, at' = "undefined" => faults' \cap Grave # {},
         head' = head, langs' = langs, UNCHANGED <<objects, work>>,
         faults \subseteq faults', faults' \subseteq AllFaults,
         temp' = temp \/ (temp = Null /\ temp' = New),
         \/ current' = current
         \/ current' = New /\ nodes'[New].data /\ (nodes'[New].freed => "open" \in faults'),
         nodes'[New].refs = Count(attached) + Count(temp' = New),
         nodes'[New].freed => nodes'[New].refs = 0
  PROVE  IInv'
  <1>0. /\ TypeOK /\ ChildrenSound(nodes) /\ Stages /\ FaultsKnown /\ ParentsSound(nodes)
        /\ FreedUnheld(nodes) /\ at = "parse" /\ work = << >>
        /\ Counted(nodes, << >>, CueAlive, head, temp, holds)
    BY DEF IInv, Exact, Parsing
  <1>1. /\ nodes \in Seq(NodeSet) /\ current \in DOMAIN nodes /\ nodes[current].data
        /\ DOMAIN nodes = 1 .. Len(nodes) /\ Len(nodes) \in Nat /\ Len(nodes) > 0
        /\ head \in DOMAIN nodes \cup {Null} /\ temp \in DOMAIN nodes \cup {Null}
        /\ holds \in [NodeObjects -> DOMAIN nodes \cup {Null}]
    BY <1>0, TypeMeans DEF Stages
  <1>2. New = Len(nodes) + 1 /\ current \in Nat /\ CueAlive \in BOOLEAN /\ New # Null
    BY <1>1 DEF New, CueAlive, Null
  <1>3. nodes' \in Seq(NodeSet) /\ DOMAIN nodes' = 1 .. New /\ Len(nodes') = New
    BY <1>1, <1>2 DEF Extends
  <1>4. \A m \in DOMAIN nodes : (temp' = m <=> temp = m) /\ (head' = m <=> head = m)
    BY <1>1, <1>2 DEF Null
  <1>5. Count(CueAlive /\ head' = New) = 0
    BY <1>1, <1>2 DEF Count, Null
  <1>6. nodes'[New].refs = Count(attached) + Count(CueAlive /\ head' = New) + Count(temp' = New)
    BY <1>5 DEF Count
  <1>7. /\ ChildrenSound(nodes') /\ ParentsSound(nodes') /\ FreedUnheld(nodes') /\ WorkSound(nodes', << >>)
        /\ Counted(nodes', << >>, CueAlive, head', temp', holds)
    <2>1. attached => /\ current \in DOMAIN nodes /\ nodes[current].data /\ ~nodes[current].freed
                      /\ Len(nodes) < MaxNodes /\ Complete(nodes', Len(nodes) + 1)
      BY <1>1, <1>2
    <2>2. nodes'[Len(nodes) + 1].kind \in InnerKinds => current \in DOMAIN nodes /\ nodes[current].data
      BY <1>1
    <2>3. nodes'[Len(nodes) + 1].refs
            = Count(attached) + Count(CueAlive /\ head' = Len(nodes) + 1) + Count(temp' = Len(nodes) + 1)
      BY <1>2, <1>6
    <2>4. nodes'[Len(nodes) + 1].freed => nodes'[Len(nodes) + 1].refs = 0
      BY <1>2
    <2>5. Grows(nodes, current, attached, nodes')
      BY <1>0, <1>1, <2>1, <2>2, <2>4 DEF Grows
    <2>6. NewHeld(nodes, attached, nodes', CueAlive, head, temp, head', temp')
      BY <1>4, <2>3 DEF NewHeld
    <2> QED BY <1>0, <1>1, <1>2, <2>5, <2>6, ExtendedSound
  <1>8. \A m \in DOMAIN nodes :
          SameNode(nodes'[m], nodes[m]) /\ nodes'[m].refs = nodes[m].refs
          /\ nodes'[m].freed = nodes[m].freed /\ (Complete(nodes', m) <=> Complete(nodes, m))
    BY <1>0, <1>1, <1>2, ExtendedShape
  <1>9. CueAlive' = CueAlive /\ holds' = holds /\ work' = << >> /\ cueRefs' = cueRefs /\ cues' = cues
    BY <1>0 DEF CueAlive, objects
  <1>10. TypeOK'
    <2>1. current' \in 1 .. New /\ temp' \in 1 .. New \cup {Null} /\ head' \in 1 .. New \cup {Null}
      BY <1>1, <1>2
    <2>2. holds' \in [NodeObjects -> 1 .. New \cup {Null}]
      BY <1>1, <1>2, <1>9
    <2>3. work' \in Seq((DOMAIN nodes') \X Nat)
      BY <1>9
    <2> QED BY <1>0, <1>3, <1>9, <2>1, <2>2, <2>3, TypeMeans, TypeMeansNext
  <1>11. DefinedOtherwise'
    BY DEF DefinedOtherwise, Grave
  <1>12. Stages'
    <2>1. nodes'[current'].data /\ current' \in DOMAIN nodes'
      BY <1>1, <1>2, <1>3, <1>8 DEF SameNode
    <2>2. head' # Empty /\ temp' # Empty
      BY <1>0, <1>1, <1>2 DEF Stages, Empty
    <2>3. nodes'[Empty].refs > 0 /\ ~nodes'[Empty].freed /\ nodes'[Empty].kind = "EMPTY" /\ ~nodes'[Empty].data
      BY <1>0, <1>1, <1>8 DEF Stages, Empty, SameNode
    <2>4. Empty \in DOMAIN nodes'
      BY <1>1, <1>2, <1>3 DEF Empty
    <2> QED BY <1>0, <1>9, <2>1, <2>2, <2>3, <2>4 DEF Stages
  <1>13. FaultsKnown'
    <2>1. ASSUME "open" \notin faults', at' = "parse"
          PROVE  ~nodes'[current'].freed
                 /\ \A n \in DOMAIN nodes' : nodes'[n].kind \in InnerKinds => ~nodes'[nodes'[n].parent].freed
      <3>1. ~nodes[current].freed /\ \A n \in DOMAIN nodes : nodes[n].kind \in InnerKinds => ~nodes[nodes[n].parent].freed
        BY <1>0, <2>1 DEF FaultsKnown
      <3>2. ~nodes'[current'].freed
        BY <2>1, <3>1, <1>1, <1>8
      <3>3. ASSUME NEW n \in DOMAIN nodes', nodes'[n].kind \in InnerKinds
            PROVE  ~nodes'[nodes'[n].parent].freed
        <4>1. CASE n = New
          <5>1. nodes'[n].parent = current
            BY <4>1, <3>3, <1>2 DEF Extends
          <5> QED BY <5>1, <3>1, <1>1, <1>8
        <4>2. CASE n # New
          <5>1. n \in DOMAIN nodes /\ nodes[n].kind \in InnerKinds /\ nodes'[n].parent = nodes[n].parent
            BY <4>2, <3>3, <1>1, <1>2, <1>3, <1>8 DEF SameNode
          <5>2. nodes[n].parent \in DOMAIN nodes
            BY <5>1, <1>0 DEF ParentsSound
          <5> QED BY <5>1, <5>2, <3>1, <1>8
        <4> QED BY <4>1, <4>2
      <3> QED BY <3>2, <3>3
    <2>2. head' # Null /\ "head data" \notin faults' => Complete(nodes', head')
      BY <1>0, <1>1, <1>8 DEF FaultsKnown
    <2>3. ASSUME NEW h \in NodeObjects, holds[h] # Null, "head data" \notin faults'
          PROVE  Complete(nodes', holds[h])
      <3>1. holds[h] \in DOMAIN nodes /\ Complete(nodes, holds[h])
        BY <2>3, <1>0, <1>1 DEF FaultsKnown
      <3> QED BY <3>1, <1>8
    <2>4. \A h \in NodeObjects : holds[h] = Empty => "unset" \in faults'
      BY <1>0 DEF FaultsKnown
    <2>5. at' = "parse" /\ ~langs' => "langs" \in faults'
      BY <1>0 DEF FaultsKnown
    <2> QED BY <2>1, <2>2, <2>3, <2>4, <2>5, <1>9 DEF FaultsKnown
  <1>14. Exact'
    BY <1>7, <1>9, <1>12, <1>13 DEF Exact
  <1> QED BY <1>7, <1>9, <1>10, <1>11, <1>14 DEF IInv

\* An inner node is created with data, a leaf without.
LEMMA NewCreated ==
  ASSUME NEW kind \in Internal \cup Leaves, NEW p \in Nat
  PROVE  /\ Node(kind, p, kind \in Internal) \in NodeSet
         /\ Node(kind, p, kind \in Internal).kind = kind /\ Node(kind, p, kind \in Internal).refs = 1
         /\ Node(kind, p, kind \in Internal).parent = p
         /\ (Node(kind, p, kind \in Internal).data <=> kind \in Internal)
         /\ Node(kind, p, kind \in Internal).children = << >> /\ ~Node(kind, p, kind \in Internal).freed
  <1>1. CASE kind \in Internal
    <2>1. Node(kind, p, kind \in Internal) = Node(kind, p, TRUE)
      BY <1>1
    <2> QED BY <1>1, <2>1, NewNode
  <1>2. CASE ~(kind \in Internal)
    <2>1. Node(kind, p, kind \in Internal) = Node(kind, p, FALSE)
      <3> DEFINE d == kind \in Internal
      <3>1. d = FALSE
        BY <1>2
      <3> HIDE DEF d
      <3>2. Node(kind, p, d) = Node(kind, p, FALSE)
        BY <3>1, Zenon
      <3> QED BY <3>2 DEF d
    <2>2. /\ Node(kind, p, FALSE) \in NodeSet
          /\ Node(kind, p, FALSE).kind = kind /\ Node(kind, p, FALSE).refs = 1
          /\ Node(kind, p, FALSE).parent = p /\ ~Node(kind, p, FALSE).data
          /\ Node(kind, p, FALSE).children = << >> /\ ~Node(kind, p, FALSE).freed
      BY NewNode
    <2> DEFINE a == Node(kind, p, kind \in Internal)
    <2>3. a = Node(kind, p, FALSE)
      BY <2>1
    <2> HIDE DEF a
    <2>4. /\ a \in NodeSet /\ a.kind = kind /\ a.refs = 1 /\ a.parent = p
          /\ (a.data <=> kind \in Internal) /\ a.children = << >> /\ ~a.freed
      BY <1>2, <2>2, <2>3
    <2> QED BY <2>4 DEF a
  <1> QED BY <1>1, <1>2, Zenon

\* A new node at the end of the nodes.
AppendsTo(ns, a, ns2) ==
  /\ Extends(ns, a.parent, FALSE, ns2) /\ DOMAIN ns2 = 1 .. Len(ns) + 1 /\ DOMAIN ns = 1 .. Len(ns)
  /\ ns2 \in Seq(NodeSet) /\ Len(ns2) = Len(ns) + 1
  /\ Len(ns) \in Nat /\ \A m \in DOMAIN ns : ns2[m] = ns[m]
  /\ ns2[Len(ns) + 1] = a
LEMMA Appended ==
  ASSUME NEW ns \in Seq(NodeSet), ChildrenSound(ns), NEW a \in NodeSet, a.children = << >>,
         NEW ns2, ns2 = Append(ns, a)
  PROVE  AppendsTo(ns, a, ns2)
  <1>3. /\ ns2 \in Seq(NodeSet) /\ Len(ns2) = Len(ns) + 1 /\ Len(ns) \in Nat
        /\ DOMAIN ns2 = 1 .. Len(ns) + 1 /\ DOMAIN ns = 1 .. Len(ns)
        /\ ns2[Len(ns) + 1] = a /\ \A m \in 1 .. Len(ns) : ns2[m] = ns[m]
    OBVIOUS
  <1>4. a.parent \in DOMAIN ns => Len(ns[a.parent].children) <= ns[a.parent].alloc
    BY DEF ChildrenSound
  <1>5. Extends(ns, a.parent, FALSE, ns2)
    BY <1>3, <1>4 DEF Extends, SameNode
  <1> QED BY <1>3, <1>5 DEF AppendsTo

\* The node that a token makes, before it is attached.
LEMMA CreatedFields ==
  ASSUME nodes \in Seq(NodeSet), NEW kind \in Internal \cup Leaves, current \in DOMAIN nodes,
         ChildrenSound(nodes)
  PROVE  /\ Extends(nodes, current, FALSE, Created(kind)) /\ DOMAIN Created(kind) = 1 .. New
         /\ Created(kind) \in Seq(NodeSet) /\ Len(Created(kind)) = New
         /\ DOMAIN nodes = 1 .. Len(nodes) /\ Len(nodes) \in Nat /\ New = Len(nodes) + 1 /\ current \in Nat
         /\ \A m \in DOMAIN nodes : Created(kind)[m] = nodes[m]
         /\ Created(kind)[New].kind = kind /\ Created(kind)[New].refs = 1
         /\ (Created(kind)[New].data <=> kind \in Internal) /\ Created(kind)[New].parent = current
         /\ ~Created(kind)[New].freed /\ Created(kind)[New].children = << >>
  <1> DEFINE a == Node(kind, current, kind \in Internal)
             c == Created(kind)
  <1>0. current \in Nat /\ DOMAIN nodes = 1 .. Len(nodes) /\ Len(nodes) \in Nat /\ New = Len(nodes) + 1
    BY DEF New
  <1>1. /\ a \in NodeSet /\ a.kind = kind /\ a.refs = 1 /\ a.parent = current
        /\ (a.data <=> kind \in Internal) /\ a.children = << >> /\ ~a.freed
    BY <1>0, NewCreated
  <1>2. c = Append(nodes, a)
    BY DEF Created
  <1> HIDE DEF a, c
  <1>3. /\ Extends(nodes, a.parent, FALSE, c) /\ DOMAIN c = 1 .. Len(nodes) + 1
        /\ c \in Seq(NodeSet) /\ Len(c) = Len(nodes) + 1
        /\ \A m \in DOMAIN nodes : c[m] = nodes[m]
        /\ c[Len(nodes) + 1] = a
    <2>1. AppendsTo(nodes, a, c)
      BY <1>1, <1>2, Appended
    <2> QED BY <2>1 DEF AppendsTo
  <1> QED BY <1>0, <1>1, <1>3 DEF c

\* The new node is attached and the parser lets go of it,
AttachedNew(kind, ns) ==
  /\ Extends(nodes, current, TRUE, ns) /\ \A m \in DOMAIN nodes \ {current} : ns[m] = nodes[m]
  /\ ns[New].kind = kind /\ ns[New].refs = 1 /\ ~ns[New].freed
  /\ ns[New].data <=> (kind \in Internal)
LEMMA CreatedAttached ==
  ASSUME nodes \in Seq(NodeSet), NEW kind \in Internal \cup Leaves, current \in DOMAIN nodes,
         ChildrenSound(nodes),
         NEW ns, ns = Dropped(Attached(Created(kind), current, New))
  PROVE  AttachedNew(kind, ns)
  <1> DEFINE c == Created(kind)
             b == Attached(c, current, New)
  <1>1. b = Attached(c, current, New) /\ ns = Dropped(b)
    OBVIOUS
  <1> HIDE DEF c, b
  <1>2. /\ Extends(nodes, current, FALSE, c) /\ DOMAIN c = 1 .. New
        /\ c \in Seq(NodeSet) /\ Len(c) = New
        /\ \A m \in DOMAIN nodes : c[m] = nodes[m]
        /\ c[New].kind = kind /\ c[New].refs = 1 /\ (c[New].data <=> kind \in Internal)
        /\ c[New].parent = current /\ ~c[New].freed /\ c[New].children = << >>
    BY CreatedFields DEF c
  <1>0. current \in Nat /\ DOMAIN nodes = 1 .. Len(nodes) /\ Len(nodes) \in Nat /\ New = Len(nodes) + 1
    BY CreatedFields
  <1>3. Len(c[current].children) <= c[current].alloc
    BY <1>0, <1>2 DEF Extends
  <1>4. current \in DOMAIN c /\ New \in DOMAIN c /\ current # New /\ New \in Nat
    BY <1>0, <1>2
  <1>5. /\ b \in Seq(NodeSet)
        /\ DOMAIN b = DOMAIN c /\ Len(b) = Len(c)
        /\ \A m \in DOMAIN c \ {current, New} : b[m] = c[m]
        /\ SameNode(b[current], c[current])
        /\ b[current].refs = c[current].refs /\ b[current].freed = c[current].freed
        /\ b[current].children = Append(c[current].children, New)
        /\ Len(c[current].children) + 1 <= b[current].alloc
        /\ SameNode(b[New], c[New])
        /\ b[New].refs = c[New].refs + 1 /\ b[New].freed = c[New].freed
        /\ b[New].children = c[New].children /\ b[New].alloc = c[New].alloc
    <2>1. AttachesTo(c, current, New, b)
      BY <1>1, <1>2, <1>3, <1>4, AttachedFields
    <2> QED BY <2>1 DEF AttachesTo
  <1>6. b[New].refs = 2 /\ ~b[New].freed /\ New \in DOMAIN b
    BY <1>2, <1>4, <1>5
  <1>7. /\ ns \in Seq(NodeSet) /\ DOMAIN ns = DOMAIN b /\ Len(ns) = Len(b)
        /\ \A m \in DOMAIN b \ {New} : ns[m] = b[m]
        /\ SameNode(ns[New], b[New])
        /\ ns[New].children = b[New].children /\ ns[New].alloc = b[New].alloc
        /\ ns[New].refs = b[New].refs - 1
        /\ ns[New].freed <=> (b[New].freed \/ b[New].refs = 1)
    <2>1. b[New].refs > 0
      BY <1>6
    <2> QED BY <1>1, <1>5, <1>6, <2>1, DroppedFields
  <1>8. ns[New].refs = 1 /\ ~ns[New].freed /\ ns[New].kind = kind /\ (ns[New].data <=> kind \in Internal)
        /\ ns[New].parent = current /\ ns[New].children = << >>
    BY <1>2, <1>5, <1>6, <1>7 DEF SameNode
  <1>9. \A m \in DOMAIN nodes \ {current} : ns[m] = nodes[m]
    BY <1>0, <1>2, <1>5, <1>7
  <1>10. ns[current] = b[current] /\ c[current] = nodes[current]
    BY <1>0, <1>2, <1>4, <1>5, <1>7
  <1>11. Len(ns[current].children) <= ns[current].alloc
    <2>1. c[current].children \in Seq(Nat)
      BY <1>2, <1>4, NodeType
    <2>2. Len(Append(c[current].children, New)) = Len(c[current].children) + 1
      BY <2>1
    <2> QED BY <2>2, <1>5, <1>10
  <1>12. Extends(nodes, current, TRUE, ns)
    BY <1>0, <1>2, <1>5, <1>7, <1>8, <1>9, <1>10, <1>11 DEF Extends
  <1> QED BY <1>8, <1>9, <1>12 DEF AttachedNew

\* or cannot be attached, and is freed.
RefusedNew(kind, ns) ==
  /\ Extends(nodes, current, FALSE, ns) /\ \A m \in DOMAIN nodes \ {current} : ns[m] = nodes[m]
  /\ ns[New].kind = kind /\ ns[New].refs = 0 /\ ns[New].freed
  /\ ns[New].data <=> (kind \in Internal)
LEMMA CreatedRefused ==
  ASSUME nodes \in Seq(NodeSet), NEW kind \in Internal \cup Leaves, current \in DOMAIN nodes,
         ChildrenSound(nodes),
         NEW r \in Refused(Created(kind), current), NEW ns, ns = Dropped(r)
  PROVE  RefusedNew(kind, ns)
  <1> DEFINE c == Created(kind)
  <1>1. r \in Refused(c, current)
    OBVIOUS
  <1> HIDE DEF c
  <1>2. /\ Extends(nodes, current, FALSE, c) /\ DOMAIN c = 1 .. New
        /\ c \in Seq(NodeSet) /\ Len(c) = New
        /\ \A m \in DOMAIN nodes : c[m] = nodes[m]
        /\ c[New].kind = kind /\ c[New].refs = 1 /\ (c[New].data <=> kind \in Internal)
        /\ c[New].parent = current /\ ~c[New].freed /\ c[New].children = << >>
    BY CreatedFields DEF c
  <1>0. current \in Nat /\ DOMAIN nodes = 1 .. Len(nodes) /\ Len(nodes) \in Nat /\ New = Len(nodes) + 1
    BY CreatedFields
  <1>3. Len(c[current].children) <= c[current].alloc
    BY <1>0, <1>2 DEF Extends
  <1>4. current \in DOMAIN c /\ New \in DOMAIN c /\ current # New /\ New \in Nat
    BY <1>0, <1>2
  <1>5. /\ r \in Seq(NodeSet) /\ DOMAIN r = DOMAIN c /\ Len(r) = Len(c)
        /\ \A m \in DOMAIN c \ {current} : r[m] = c[m]
        /\ SameNode(r[current], c[current])
        /\ r[current].refs = c[current].refs /\ r[current].freed = c[current].freed
        /\ r[current].children = c[current].children /\ Len(r[current].children) <= r[current].alloc
    BY <1>1, <1>2, <1>3, <1>4, RefusedFields
  <1>6. r[New] = c[New] /\ New \in DOMAIN r /\ r[New].refs > 0
    BY <1>2, <1>4, <1>5
  <1>7. /\ ns \in Seq(NodeSet) /\ DOMAIN ns = DOMAIN r /\ Len(ns) = Len(r)
        /\ \A m \in DOMAIN r \ {New} : ns[m] = r[m]
        /\ SameNode(ns[New], r[New])
        /\ ns[New].children = r[New].children /\ ns[New].alloc = r[New].alloc
        /\ ns[New].refs = r[New].refs - 1
        /\ ns[New].freed <=> (r[New].freed \/ r[New].refs = 1)
    BY <1>5, <1>6, DroppedFields
  <1>8. ns[New].refs = 0 /\ ns[New].freed /\ ns[New].kind = kind /\ (ns[New].data <=> kind \in Internal)
        /\ ns[New].parent = current /\ ns[New].children = << >>
    BY <1>2, <1>6, <1>7 DEF SameNode
  <1>9. \A m \in DOMAIN nodes \ {current} : ns[m] = nodes[m]
    BY <1>0, <1>2, <1>5, <1>7
  <1>10. ns[current] = r[current] /\ c[current] = nodes[current]
    BY <1>0, <1>2, <1>4, <1>5, <1>7
  <1>12. Extends(nodes, current, FALSE, ns)
    BY <1>0, <1>2, <1>5, <1>7, <1>8, <1>9, <1>10 DEF Extends
  <1> QED BY <1>8, <1>9, <1>12 DEF RefusedNew

\* What is known while the text is parsed.
LEMMA ParsingMeans ==
  ASSUME IInv, Parsing
  PROVE  /\ nodes \in Seq(NodeSet) /\ current \in DOMAIN nodes /\ nodes[current].data
         /\ DOMAIN nodes = 1 .. Len(nodes) /\ Len(nodes) \in Nat /\ New = Len(nodes) + 1
         /\ ChildrenSound(nodes) /\ faults \subseteq AllFaults /\ at = "parse" /\ work = << >>
         /\ langs \in BOOLEAN /\ (~langs => "langs" \in faults)
         /\ temp \in DOMAIN nodes \cup {Null} /\ current \in Nat
  <1>1. TypeOK /\ ChildrenSound(nodes) /\ Stages /\ FaultsKnown /\ at = "parse" /\ work = << >>
    BY DEF IInv, Exact, Parsing
  <1>2. nodes \in Seq(NodeSet) /\ langs \in BOOLEAN /\ faults \subseteq AllFaults
        /\ temp \in DOMAIN nodes \cup {Null}
    BY <1>1, TypeMeans
  <1>3. current \in DOMAIN nodes /\ nodes[current].data /\ (~langs => "langs" \in faults)
    BY <1>1 DEF Stages, FaultsKnown
  <1>4. DOMAIN nodes = 1 .. Len(nodes) /\ Len(nodes) \in Nat /\ New = Len(nodes) + 1
    BY <1>2 DEF New
  <1> QED BY <1>1, <1>2, <1>3, <1>4

\* The data of a node could not be had: the node is there, unattached, with its one
\* reference.
LEMMA DataFailsFields ==
  ASSUME IInv, NEW kind \in InnerKinds, DataFails(kind)
  PROVE  /\ Parsing /\ Len(nodes) < MaxNodes /\ Extends(nodes, current, FALSE, nodes')
         /\ \A m \in DOMAIN nodes : nodes'[m] = nodes[m]
         /\ nodes'[New].refs = 1 /\ ~nodes'[New].freed
  <1>0. /\ Parsing /\ temp = Null /\ Len(nodes) < MaxNodes
        /\ nodes' = Append(nodes, Node(kind, current, FALSE)) /\ temp' = New
        /\ head' = head /\ current' = current /\ langs' = langs /\ UNCHANGED <<objects, work>>
        /\ \/ at' = "undefined" /\ faults' = faults \cup {"lang"}
           \/ at' = at /\ faults' = faults \cup {"data"}
    BY DEF DataFails, Creating, Fault
  <1>1. /\ nodes \in Seq(NodeSet) /\ current \in DOMAIN nodes /\ nodes[current].data
        /\ DOMAIN nodes = 1 .. Len(nodes) /\ Len(nodes) \in Nat /\ New = Len(nodes) + 1
        /\ ChildrenSound(nodes) /\ faults \subseteq AllFaults /\ at = "parse" /\ work = << >>
        /\ current \in Nat
    BY <1>0, ParsingMeans
  <1>2. /\ Extends(nodes, current, FALSE, nodes') /\ \A m \in DOMAIN nodes : nodes'[m] = nodes[m]
        /\ nodes'[New].refs = 1 /\ ~nodes'[New].freed
    <2> DEFINE a == Node(kind, current, FALSE)
    <2>1. a \in NodeSet /\ a.refs = 1 /\ a.parent = current /\ a.children = << >> /\ ~a.freed
      <3> DEFINE d == FALSE
      <3>1. kind \in Internal \cup Leaves /\ d \in BOOLEAN
        BY DEF Internal
      <3> HIDE DEF d
      <3>2. /\ Node(kind, current, d) \in NodeSet /\ Node(kind, current, d).refs = 1
            /\ Node(kind, current, d).parent = current /\ Node(kind, current, d).children = << >>
            /\ ~Node(kind, current, d).freed
        BY <1>1, <3>1, NewNode
      <3> QED BY <3>2 DEF d
    <2>2. nodes' = Append(nodes, a)
      BY <1>0
    <2> HIDE DEF a
    <2>3. AppendsTo(nodes, a, nodes')
      BY <1>1, <2>1, <2>2, Appended
    <2> QED BY <1>1, <2>1, <2>3 DEF AppendsTo
  <1> QED BY <1>0, <1>2

\* So the invariant is kept.
LEMMA DataFailsStep ==
  ASSUME IInv, NEW kind \in InnerKinds, DataFails(kind)
  PROVE  IInv' /\ FreedSame
  <1>0. /\ Parsing /\ temp = Null /\ Len(nodes) < MaxNodes
        /\ nodes' = Append(nodes, Node(kind, current, FALSE)) /\ temp' = New
        /\ head' = head /\ current' = current /\ langs' = langs /\ UNCHANGED <<objects, work>>
        /\ \/ at' = "undefined" /\ faults' = faults \cup {"lang"}
           \/ at' = at /\ faults' = faults \cup {"data"}
    BY DEF DataFails, Creating, Fault
  <1>1. /\ nodes \in Seq(NodeSet) /\ current \in DOMAIN nodes /\ nodes[current].data
        /\ DOMAIN nodes = 1 .. Len(nodes) /\ Len(nodes) \in Nat /\ New = Len(nodes) + 1
        /\ ChildrenSound(nodes) /\ faults \subseteq AllFaults /\ at = "parse" /\ work = << >>
        /\ current \in Nat
    BY <1>0, ParsingMeans
  <1>2. /\ Extends(nodes, current, FALSE, nodes') /\ \A m \in DOMAIN nodes : nodes'[m] = nodes[m]
        /\ nodes'[New].refs = 1 /\ ~nodes'[New].freed
    BY DataFailsFields
  <1>3. at' \in {"parse", "undefined"} /\ (at' = "undefined" => faults' \cap Grave # {})
        /\ faults \subseteq faults' /\ faults' \subseteq AllFaults
    BY <1>0, <1>1 DEF Grave, AllFaults
  <1>4. nodes'[New].refs = Count(FALSE) + Count(temp' = New)
    <2>1. temp' = New
      BY <1>0
    <2>2. nodes'[New].refs = 1
      BY <1>2
    <2> QED BY <2>1, <2>2 DEF Count
  <1>5. IInv'
    BY <1>0, <1>2, <1>3, <1>4, GrowStep
  <1> QED BY <1>2, <1>5 DEF FreedSame

\* A ruby text outside a ruby is freed at once.
LEMMA RubyTextFields ==
  ASSUME IInv, RubyText
  PROVE  /\ Parsing /\ Len(nodes) < MaxNodes /\ Extends(nodes, current, FALSE, nodes')
         /\ \A m \in DOMAIN nodes : nodes'[m] = nodes[m]
         /\ nodes'[New].refs = 0 /\ nodes'[New].freed
  <1> DEFINE c == Created("RUBY_TEXT")
             a == WithEnd(c[New], 0, TRUE)
  <1>0. /\ Parsing /\ temp = Null /\ Len(nodes) < MaxNodes /\ nodes' = [c EXCEPT ![New] = a]
        /\ head' = head /\ current' = current /\ langs' = langs /\ temp' = temp /\ UNCHANGED <<objects, work>>
        /\ at' = at /\ faults' = faults
    BY DEF RubyText, Create, Creating, WithEnd
  <1>1. /\ nodes \in Seq(NodeSet) /\ current \in DOMAIN nodes /\ nodes[current].data
        /\ DOMAIN nodes = 1 .. Len(nodes) /\ Len(nodes) \in Nat /\ New = Len(nodes) + 1
        /\ ChildrenSound(nodes) /\ faults \subseteq AllFaults /\ at = "parse" /\ work = << >>
        /\ current \in Nat
    BY <1>0, ParsingMeans
  <1>2. /\ Extends(nodes, current, FALSE, c) /\ DOMAIN c = 1 .. New
        /\ c \in Seq(NodeSet) /\ Len(c) = New
        /\ \A m \in DOMAIN nodes : c[m] = nodes[m]
        /\ c[New].parent = current /\ c[New].children = << >>
    <2>1. "RUBY_TEXT" \in Internal \cup Leaves
      BY DEF Internal, InnerKinds
    <2> QED BY <1>1, <2>1, CreatedFields
  <1> HIDE DEF c
  <1>3. New \in DOMAIN c /\ c[New] \in NodeSet
    BY <1>1, <1>2
  <1>5. /\ a \in NodeSet /\ SameNode(a, c[New]) /\ a.children = c[New].children
        /\ a.alloc = c[New].alloc /\ a.refs = 0 /\ a.freed
    <2> DEFINE d == c[New]
               z == 0
               b == TRUE
    <2>1. d \in NodeSet /\ z \in Nat /\ b \in BOOLEAN
      BY <1>3
    <2> HIDE DEF d, z, b
    <2>2. /\ WithEnd(d, z, b) \in NodeSet /\ SameNode(WithEnd(d, z, b), d)
          /\ WithEnd(d, z, b).children = d.children /\ WithEnd(d, z, b).alloc = d.alloc
          /\ WithEnd(d, z, b).refs = z /\ WithEnd(d, z, b).freed = b
      BY <2>1, NodeWithEnd
    <2> QED BY <2>2 DEF d, z, b
  <1> HIDE DEF a
  <1>6. /\ nodes' \in Seq(NodeSet) /\ DOMAIN nodes' = 1 .. New /\ Len(nodes') = New
        /\ \A m \in DOMAIN c : nodes'[m] = IF m = New THEN a ELSE c[m]
    BY <1>0, <1>2, <1>3, <1>5, Replaced
  <1>7. nodes'[New] = a /\ \A m \in DOMAIN nodes : nodes'[m] = nodes[m]
    BY <1>1, <1>2, <1>6
  <1>8. Extends(nodes, current, FALSE, nodes')
    <2>1. Len(nodes[current].children) <= nodes[current].alloc
      BY <1>1 DEF ChildrenSound
    <2> QED BY <1>1, <1>2, <1>5, <1>6, <1>7, <2>1 DEF Extends, SameNode
  <1>9. nodes'[New].refs = 0 /\ nodes'[New].freed
    BY <1>5, <1>7
  <1> QED BY <1>0, <1>7, <1>8, <1>9

\* So the invariant is kept.
LEMMA RubyTextStep ==
  ASSUME IInv, RubyText
  PROVE  IInv' /\ FreedSame
  <1>0. /\ Parsing /\ temp = Null
        /\ head' = head /\ current' = current /\ langs' = langs /\ temp' = temp /\ UNCHANGED <<objects, work>>
        /\ at' = at /\ faults' = faults
    BY DEF RubyText, Create, Creating
  <1>1. /\ nodes \in Seq(NodeSet) /\ New = Len(nodes) + 1 /\ Len(nodes) \in Nat
        /\ faults \subseteq AllFaults /\ at = "parse" /\ work = << >>
    BY <1>0, ParsingMeans
  <1>2. Extends(nodes, current, FALSE, nodes') /\ \A m \in DOMAIN nodes : nodes'[m] = nodes[m]
    BY RubyTextFields
  <1>3. nodes'[New].refs = 0 /\ nodes'[New].freed
    BY RubyTextFields
  <1>4. nodes'[New].refs = Count(FALSE) + Count(temp' = New)
    <2>1. temp' # New
      BY <1>0, <1>1 DEF Null
    <2>2. Count(FALSE) = 0 /\ Count(temp' = New) = 0
      BY <2>1 DEF Count
    <2> QED BY <1>3, <2>1, <2>2 DEF Count
  <1>5. at' \in {"parse", "undefined"} /\ ~(at' = "undefined")
    BY <1>0, <1>1
  <1>6. IInv'
    BY <1>0, <1>1, <1>2, <1>3, <1>4, <1>5, GrowStep
  <1> QED BY <1>2, <1>6 DEF FreedSame

\* A node that stays in the tree, or that could not be attached.
LEMMA AttachStep ==
  ASSUME IInv, NEW kind \in InnerKinds \cup Leaves, Create(kind), NEW f,
         \/ nodes' = Dropped(Attached(Created(kind), current, New)) /\ UNCHANGED faults
         \/ \E ns \in Refused(Created(kind), current) : nodes' = Dropped(ns) /\ faults' = faults \cup {f},
         \/ f = "leaf" /\ current' = current /\ at' = at
         \/ /\ f = "open" /\ kind \in InnerKinds /\ current' = New
            /\ at' = (IF langs THEN at ELSE "undefined")
  PROVE  IInv' /\ FreedSame
  <1>0. /\ Parsing /\ temp = Null /\ Len(nodes) < MaxNodes /\ ~nodes[current].freed
        /\ head' = head /\ temp' = temp /\ langs' = langs /\ UNCHANGED <<objects, work>>
    BY DEF Create, Creating
  <1>1. /\ nodes \in Seq(NodeSet) /\ current \in DOMAIN nodes /\ nodes[current].data
        /\ DOMAIN nodes = 1 .. Len(nodes) /\ Len(nodes) \in Nat /\ New = Len(nodes) + 1
        /\ ChildrenSound(nodes) /\ faults \subseteq AllFaults /\ at = "parse" /\ work = << >>
        /\ langs \in BOOLEAN /\ (~langs => "langs" \in faults) /\ current \in Nat
    BY <1>0, ParsingMeans
  <1>2. kind \in Internal \cup Leaves
    BY DEF Internal
  <1>3. temp' = Null /\ temp' # New /\ Count(temp' = New) = 0 /\ Count(TRUE) = 1 /\ Count(FALSE) = 0
    BY <1>0, <1>1 DEF Null, Count
  <1>4. at' \in {"parse", "undefined"} /\ faults \subseteq faults' /\ faults' \subseteq AllFaults
    BY <1>1 DEF AllFaults
  <1>5. at' = "undefined" => faults' \cap Grave # {}
    <2>1. at' = "undefined" => "langs" \in faults'
      BY <1>1, <1>4
    <2> QED BY <2>1 DEF Grave
  <1>6. CASE nodes' = Dropped(Attached(Created(kind), current, New)) /\ UNCHANGED faults
    <2>1. /\ Extends(nodes, current, TRUE, nodes') /\ \A m \in DOMAIN nodes \ {current} : nodes'[m] = nodes[m]
          /\ nodes'[New].kind = kind /\ nodes'[New].refs = 1 /\ ~nodes'[New].freed
          /\ nodes'[New].data <=> (kind \in Internal)
      <3>1. AttachedNew(kind, nodes')
        BY <1>1, <1>2, <1>6, CreatedAttached
      <3> QED BY <3>1 DEF AttachedNew
    <2>2. Complete(nodes', New)
      BY <2>1 DEF Complete
    <2>3. \/ current' = current
          \/ current' = New /\ nodes'[New].data /\ (nodes'[New].freed => "open" \in faults')
      BY <2>1 DEF Internal
    <2>4. nodes'[New].refs = Count(TRUE) + Count(temp' = New)
      BY <1>3, <2>1 DEF Count
    <2>5. TRUE => ~nodes[current].freed /\ Len(nodes) < MaxNodes /\ Complete(nodes', New)
      BY <1>0, <2>2
    <2>6. IInv'
      BY <1>0, <1>4, <1>5, <2>1, <2>3, <2>4, <2>5, GrowStep
    <2> QED BY <1>0, <2>1, <2>6 DEF FreedSame
  <1>7. ASSUME NEW r \in Refused(Created(kind), current), nodes' = Dropped(r), faults' = faults \cup {f}
        PROVE  IInv' /\ FreedSame
    <2>1. /\ Extends(nodes, current, FALSE, nodes') /\ \A m \in DOMAIN nodes \ {current} : nodes'[m] = nodes[m]
          /\ nodes'[New].kind = kind /\ nodes'[New].refs = 0 /\ nodes'[New].freed
          /\ nodes'[New].data <=> (kind \in Internal)
      <3>1. RefusedNew(kind, nodes')
        BY <1>1, <1>2, <1>7, CreatedRefused
      <3> QED BY <3>1 DEF RefusedNew
    <2>3. \/ current' = current
          \/ current' = New /\ nodes'[New].data /\ (nodes'[New].freed => "open" \in faults')
      BY <2>1, <1>7 DEF Internal
    <2>4. nodes'[New].refs = Count(FALSE) + Count(temp' = New)
      BY <1>3, <2>1 DEF Count
    <2>6. IInv'
      BY <1>0, <1>4, <1>5, <2>1, <2>3, <2>4, GrowStep
    <2> QED BY <1>0, <2>1, <2>6 DEF FreedSame
  <1> QED BY <1>6, <1>7

\* So for a leaf and for an inner node.
LEMMA AddLeafStep ==
  ASSUME IInv, NEW kind \in Leaves, AddLeaf(kind)
  PROVE  IInv' /\ FreedSame
  <1>1. /\ Create(kind) /\ current' = current /\ at' = at
        /\ \/ nodes' = Dropped(Attached(Created(kind), current, New)) /\ UNCHANGED faults
           \/ \E ns \in Refused(Created(kind), current) : nodes' = Dropped(ns) /\ faults' = faults \cup {"leaf"}
    BY DEF AddLeaf, Fault
  <1> QED BY <1>1, AttachStep

\* The inner node is open from now on.
LEMMA OpenNodeStep ==
  ASSUME IInv, NEW kind \in InnerKinds, OpenNode(kind)
  PROVE  IInv' /\ FreedSame
  <1>1. /\ Create(kind) /\ current' = New /\ at' = (IF langs THEN at ELSE "undefined")
        /\ \/ nodes' = Dropped(Attached(Created(kind), current, New)) /\ UNCHANGED faults
           \/ \E ns \in Refused(Created(kind), current) : nodes' = Dropped(ns) /\ faults' = faults \cup {"open"}
    BY DEF OpenNode, Fault
  <1> QED BY <1>1, AttachStep

\* The head is the first node that is created.
HeadAdded(a) ==
  /\ AppendsTo(nodes, a, nodes')
  /\ a.kind = "HEAD" /\ a.refs = 1 /\ a.parent = Null /\ a.children = << >> /\ ~a.freed
  /\ head' = New /\ temp' = temp /\ UNCHANGED <<objects, work>>
  /\ faults \subseteq faults' /\ faults' \subseteq AllFaults /\ langs' \in BOOLEAN
  /\ \/ at' = "parse" /\ a.data /\ current' = New /\ (langs' \/ "langs" \in faults')
     \/ at' = "parsed" /\ "head data" \in faults' /\ current' = current
LEMMA HeadStep ==
  ASSUME IInv, at = "start", NEW a \in NodeSet, HeadAdded(a)
  PROVE  IInv' /\ FreedSame
  <1>a. /\ AppendsTo(nodes, a, nodes')
        /\ a.kind = "HEAD" /\ a.refs = 1 /\ a.parent = Null /\ a.children = << >> /\ ~a.freed
    BY DEF HeadAdded
  <1>b. /\ head' = New /\ temp' = temp /\ UNCHANGED <<objects, work>>
        /\ faults \subseteq faults' /\ faults' \subseteq AllFaults /\ langs' \in BOOLEAN
    BY DEF HeadAdded
  <1>c. \/ at' = "parse" /\ a.data /\ current' = New /\ (langs' \/ "langs" \in faults')
        \/ at' = "parsed" /\ "head data" \in faults' /\ current' = current
    BY DEF HeadAdded
  <1>0. /\ TypeOK /\ ChildrenSound(nodes) /\ Stages /\ FaultsKnown /\ ParentsSound(nodes)
        /\ FreedUnheld(nodes) /\ work = << >>
        /\ Counted(nodes, << >>, CueAlive, head, temp, holds)
    <2>1. IInv /\ at # "undefined" /\ at # "app"
      OBVIOUS
    <2>2. TypeOK /\ ChildrenSound(nodes) /\ Exact
      BY <2>1 DEF IInv
    <2>3. Stages /\ FaultsKnown /\ ParentsSound(nodes) /\ FreedUnheld(nodes)
          /\ Counted(nodes, work, CueAlive, head, temp, holds)
      BY <2>2 DEF Exact
    <2>4. work = << >>
      BY <2>1, <2>3 DEF Stages
    <2> QED BY <2>2, <2>3, <2>4
  <1>1. /\ nodes \in Seq(NodeSet) /\ Len(nodes) = 1 /\ head = Null /\ temp = Null
        /\ DOMAIN nodes = 1 .. Len(nodes) /\ cueRefs = 1 /\ cues = 0 /\ New = Len(nodes) + 1
        /\ holds \in [NodeObjects -> DOMAIN nodes \cup {Null}] /\ current \in DOMAIN nodes \cup {Null}
        /\ Null \in Nat
    <2>1. /\ nodes \in Seq(NodeSet) /\ current \in DOMAIN nodes \cup {Null}
          /\ holds \in [NodeObjects -> DOMAIN nodes \cup {Null}]
      BY <1>0, TypeMeans
    <2>2. Len(nodes) = 1 /\ head = Null /\ temp = Null /\ cueRefs = 1 /\ cues = 0
      BY <1>0 DEF Stages
    <2> QED BY <2>1, <2>2 DEF New, Null
  <1>2. /\ Extends(nodes, Null, FALSE, nodes') /\ DOMAIN nodes' = 1 .. Len(nodes) + 1
        /\ nodes' \in Seq(NodeSet) /\ Len(nodes') = Len(nodes) + 1
        /\ \A m \in DOMAIN nodes : nodes'[m] = nodes[m]
        /\ nodes'[Len(nodes) + 1] = a
    BY <1>a, <1>b DEF AppendsTo
  <1>3. /\ ChildrenSound(nodes') /\ ParentsSound(nodes') /\ FreedUnheld(nodes') /\ WorkSound(nodes', << >>)
        /\ Counted(nodes', << >>, CueAlive, head', temp', holds)
    <2>1. Grows(nodes, Null, FALSE, nodes')
      <3>1. ~(nodes'[Len(nodes) + 1].kind \in InnerKinds) /\ ~nodes'[Len(nodes) + 1].freed
        BY <1>2, <1>a DEF InnerKinds
      <3>2. nodes \in Seq(NodeSet) /\ Len(nodes) > 0
        BY <1>1
      <3>4. Extends(nodes, Null, FALSE, nodes')
        BY <1>2
      <3>3. ChildrenSound(nodes) /\ ParentsSound(nodes) /\ FreedUnheld(nodes)
        BY <1>0
      <3> QED BY <3>1, <3>2, <3>3, <3>4 DEF Grows
    <2>2. NewHeld(nodes, FALSE, nodes', CueAlive, head, temp, head', temp')
      <3>1. \A m \in DOMAIN nodes : (head' = m <=> head = m) /\ (temp' = m <=> temp = m)
        BY <1>1, <1>b DEF Null
      <3>2. CueAlive /\ head' = Len(nodes) + 1 /\ temp' # Len(nodes) + 1
        BY <1>1, <1>b DEF CueAlive, Null
      <3>3. nodes'[Len(nodes) + 1].refs = 1
        BY <1>2, <1>a
      <3> QED BY <3>1, <3>2, <3>3 DEF NewHeld, Count
    <2>3. CueAlive \in BOOLEAN /\ FALSE \in BOOLEAN
      BY DEF CueAlive
    <2> QED BY <1>0, <1>1, <2>1, <2>2, <2>3, ExtendedSound
  <1>4. CueAlive' = CueAlive /\ holds' = holds /\ work' = << >> /\ cueRefs' = cueRefs /\ cues' = cues
    BY <1>0, <1>b DEF CueAlive, objects
  <1>5. Complete(nodes', New) \/ "head data" \in faults'
    BY <1>1, <1>2, <1>c DEF Complete
  <1>6. \A m \in DOMAIN nodes : Complete(nodes', m) <=> Complete(nodes, m)
    BY <1>2 DEF Complete
  <1>7. TypeOK'
    <2>1. /\ current' \in 1 .. Len(nodes) + 1 \cup {Null} /\ head' \in 1 .. Len(nodes) + 1 \cup {Null}
          /\ temp' \in 1 .. Len(nodes) + 1 \cup {Null}
      <3>1. current' = New \/ current' = current
        BY <1>c
      <3>2. New \in 1 .. Len(nodes) + 1 /\ DOMAIN nodes \subseteq 1 .. Len(nodes) + 1
        BY <1>1
      <3>3. current' \in 1 .. Len(nodes) + 1 \cup {Null}
        BY <3>1, <3>2, <1>1
      <3> QED BY <3>2, <3>3, <1>1, <1>b
    <2>2. holds' \in [NodeObjects -> 1 .. Len(nodes) + 1 \cup {Null}]
      BY <1>1, <1>4
    <2>3. work' \in Seq((DOMAIN nodes') \X Nat)
      BY <1>4
    <2>4. cueRefs \in Nat /\ cues \in 0 .. MaxCues
      BY <1>0, TypeMeans
    <2>5. at' \in {"start", "parse", "parsed", "app", "undefined"}
      BY <1>c
    <2> QED BY <1>2, <1>4, <1>b, <2>1, <2>2, <2>3, <2>4, <2>5, TypeMeansNext
  <1>8. Stages'
    <2>1. at' \in {"parse", "parsed"} /\ (at' = "parse" => current' \in DOMAIN nodes' /\ nodes'[current'].data)
      <3>1. at' = "parse" => a.data /\ current' = Len(nodes) + 1
        BY <1>1, <1>c
      <3>2. at' = "parse" => nodes'[current'].data /\ current' \in DOMAIN nodes'
        BY <3>1, <1>1, <1>2
      <3>3. at' \in {"parse", "parsed"}
        BY <1>c
      <3> QED BY <3>2, <3>3
    <2>2. head' # Empty /\ temp' # Empty
      BY <1>1, <1>b DEF Empty, Null
    <2>3. nodes'[Empty].refs > 0 /\ ~nodes'[Empty].freed /\ nodes'[Empty].kind = "EMPTY" /\ ~nodes'[Empty].data
      BY <1>0, <1>1, <1>2 DEF Stages, Empty
    <2>4. Empty \in DOMAIN nodes'
      BY <1>1, <1>2 DEF Empty
    <2> QED BY <1>1, <1>4, <2>1, <2>2, <2>3, <2>4 DEF Stages
  <1>9. FaultsKnown'
    <2>1. at' = "parse" /\ ~langs' => "langs" \in faults'
      BY <1>c
    <2>2. ASSUME at' = "parse"
          PROVE  ~nodes'[current'].freed
                 /\ \A n \in DOMAIN nodes' : nodes'[n].kind \in InnerKinds => ~nodes'[nodes'[n].parent].freed
      <3>1. nodes'[Len(nodes) + 1].kind = "HEAD" /\ nodes'[1].kind = "EMPTY"
        BY <1>0, <1>1, <1>2, <1>a DEF Stages, Empty
      <3>2. \A n \in DOMAIN nodes' : ~(nodes'[n].kind \in InnerKinds)
        BY <3>1, <1>1, <1>2 DEF InnerKinds
      <3>3. ~nodes'[current'].freed
        BY <2>2, <1>1, <1>2, <1>a, <1>c
      <3> QED BY <3>2, <3>3
    <2>3. head' # Null /\ "head data" \notin faults' => Complete(nodes', head')
      BY <1>5, <1>b
    <2>4. ASSUME NEW h \in NodeObjects, holds[h] # Null, "head data" \notin faults'
          PROVE  Complete(nodes', holds[h])
      <3>1. holds[h] \in DOMAIN nodes /\ Complete(nodes, holds[h])
        BY <2>4, <1>0, <1>1, <1>b DEF FaultsKnown
      <3> QED BY <3>1, <1>6
    <2>5. \A h \in NodeObjects : holds[h] = Empty => "unset" \in faults'
      BY <1>0, <1>b DEF FaultsKnown
    <2> QED BY <2>1, <2>2, <2>3, <2>4, <2>5, <1>4 DEF FaultsKnown
  <1>10. Exact' /\ at' # "undefined"
    <2>1. at' # "undefined"
      BY <1>c
    <2> QED BY <2>1, <1>3, <1>4, <1>8, <1>9 DEF Exact
  <1>11. DefinedOtherwise'
    BY <1>10 DEF DefinedOtherwise
  <1> QED BY <1>2, <1>3, <1>7, <1>10, <1>11 DEF IInv, FreedSame

\* with data or, if they could not be had, without.
LEMMA CreateHeadStep ==
  ASSUME IInv, CreateHead \/ (HeadFails /\ nodes' # nodes)
  PROVE  IInv' /\ FreedSame
  <1>1. at = "start" /\ TypeOK /\ ChildrenSound(nodes)
    BY DEF CreateHead, HeadFails, IInv
  <1>2. nodes \in Seq(NodeSet) /\ langs \in BOOLEAN /\ faults \subseteq AllFaults /\ Null \in Nat
        /\ "HEAD" \in Internal \cup Leaves
    BY <1>1, TypeMeans DEF Null, Internal
  <1>3. CASE CreateHead
    <2> DEFINE a == Node("HEAD", Null, TRUE)
    <2>1. /\ a \in NodeSet /\ a.kind = "HEAD" /\ a.refs = 1 /\ a.parent = Null /\ a.data
          /\ a.children = << >> /\ ~a.freed
      BY <1>2, NewNode
    <2>2. /\ at' = "parse" /\ nodes' = Append(nodes, a) /\ head' = New /\ current' = New
          /\ temp' = temp /\ UNCHANGED <<objects, work>>
          /\ \/ langs' = TRUE /\ faults' = faults
             \/ langs' = FALSE /\ faults' = faults \cup {"langs"}
      BY <1>3 DEF CreateHead, Fault
    <2> HIDE DEF a
    <2>3. AppendsTo(nodes, a, nodes')
      BY <1>1, <1>2, <2>1, <2>2, Appended
    <2>4. faults \subseteq faults' /\ faults' \subseteq AllFaults /\ langs' \in BOOLEAN
          /\ (langs' \/ "langs" \in faults')
      BY <1>2, <2>2 DEF AllFaults
    <2>5. HeadAdded(a)
      BY <2>1, <2>2, <2>3, <2>4 DEF HeadAdded
    <2> QED BY <1>1, <2>1, <2>5, HeadStep
  <1>4. CASE HeadFails /\ nodes' # nodes
    <2> DEFINE a == Node("HEAD", Null, FALSE)
    <2>1. /\ a \in NodeSet /\ a.kind = "HEAD" /\ a.refs = 1 /\ a.parent = Null
          /\ a.children = << >> /\ ~a.freed
      BY <1>2, NewNode
    <2>2. /\ at' = "parsed" /\ nodes' = Append(nodes, a) /\ head' = New /\ current' = current
          /\ temp' = temp /\ UNCHANGED <<objects, work>> /\ langs' = langs
          /\ faults' = faults \cup {"head data"}
      BY <1>4 DEF HeadFails, Fault, local
    <2> HIDE DEF a
    <2>3. AppendsTo(nodes, a, nodes')
      BY <1>1, <1>2, <2>1, <2>2, Appended
    <2>4. faults \subseteq faults' /\ faults' \subseteq AllFaults /\ langs' \in BOOLEAN
          /\ "head data" \in faults'
      BY <1>2, <2>2 DEF AllFaults
    <2>5. HeadAdded(a)
      BY <2>1, <2>2, <2>3, <2>4 DEF HeadAdded
    <2> QED BY <1>1, <2>1, <2>5, HeadStep
  <1> QED BY <1>3, <1>4

\* A step that leaves the nodes alone, and those who hold them.
NodesStay ==
  /\ nodes' = nodes /\ head' = head /\ temp' = temp /\ langs' = langs /\ holds' = holds /\ work' = work
  /\ faults \subseteq faults' /\ faults' \subseteq AllFaults
  /\ current' \in DOMAIN nodes \cup {Null} /\ ((cueRefs' > 0 <=> cueRefs > 0) \/ head = Null)
  /\ cueRefs' \in Nat /\ cues' \in 0 .. MaxCues
  /\ at' \in {"parse", "parsed", "app", "undefined"}
LEMMA StayStep ==
  ASSUME IInv, at # "undefined", NodesStay,
         at' = "undefined" => work = << >> /\ faults' \cap Grave # {},
         at' # "undefined" => Stages',
         at' = "parse" => at = "parse" /\ ("open" \in faults' \/ ~nodes[current'].freed)
  PROVE  IInv' /\ FreedSame
  <1>1. TypeOK /\ ChildrenSound(nodes) /\ Exact
    BY DEF IInv
  <1>2. /\ FaultsKnown /\ ParentsSound(nodes) /\ WorkSound(nodes, work) /\ FreedUnheld(nodes)
        /\ Counted(nodes, work, CueAlive, head, temp, holds)
    BY <1>1 DEF Exact
  <1>3. /\ nodes' = nodes /\ head' = head /\ temp' = temp /\ langs' = langs /\ holds' = holds /\ work' = work
        /\ faults \subseteq faults'
    BY DEF NodesStay
  <1>4. (CueAlive' <=> CueAlive) \/ head = Null
    BY DEF NodesStay, CueAlive
  <1>5. TypeOK'
    <2>1. /\ nodes \in Seq(NodeSet) /\ head \in DOMAIN nodes \cup {Null} /\ temp \in DOMAIN nodes \cup {Null}
          /\ langs \in BOOLEAN /\ holds \in [NodeObjects -> DOMAIN nodes \cup {Null}]
          /\ work \in Seq((DOMAIN nodes) \X Nat)
      BY <1>1, TypeMeans
    <2>2. /\ nodes' \in Seq(NodeSet) /\ head' \in DOMAIN nodes' \cup {Null} /\ temp' \in DOMAIN nodes' \cup {Null}
          /\ langs' \in BOOLEAN /\ holds' \in [NodeObjects -> DOMAIN nodes' \cup {Null}]
          /\ work' \in Seq((DOMAIN nodes') \X Nat)
      BY <2>1, <1>3
    <2>3. /\ faults' \subseteq AllFaults /\ current' \in DOMAIN nodes' \cup {Null}
          /\ cueRefs' \in Nat /\ cues' \in 0 .. MaxCues
          /\ at' \in {"start", "parse", "parsed", "app", "undefined"}
      BY <1>3 DEF NodesStay
    <2> QED BY <2>2, <2>3, TypeMeansNext
  <1>6. ASSUME at' # "undefined"
        PROVE  Exact'
    <2>1. FaultsKnown'
      <3>1. at' = "parse" /\ ~langs' => "langs" \in faults'
        BY <1>2, <1>3 DEF FaultsKnown
      <3>2. at' = "parse" /\ "open" \notin faults' =>
              ~nodes'[current'].freed
              /\ \A n \in DOMAIN nodes' : nodes'[n].kind \in InnerKinds => ~nodes'[nodes'[n].parent].freed
        BY <1>2, <1>3 DEF FaultsKnown
      <3>3. head' # Null /\ "head data" \notin faults' => Complete(nodes', head')
        BY <1>2, <1>3 DEF FaultsKnown
      <3>4. \A h \in NodeObjects : holds'[h] # Null /\ "head data" \notin faults' => Complete(nodes', holds'[h])
        BY <1>2, <1>3 DEF FaultsKnown
      <3>5. \A h \in NodeObjects : holds'[h] = Empty => "unset" \in faults'
        BY <1>2, <1>3 DEF FaultsKnown
      <3> QED BY <3>1, <3>2, <3>3, <3>4, <3>5 DEF FaultsKnown
    <2>2. Counted(nodes', work', CueAlive', head', temp', holds')
      <3>1. CASE CueAlive' <=> CueAlive
        <4>1. CueAlive' = CueAlive
          BY <3>1 DEF CueAlive
        <4> QED BY <4>1, <1>2, <1>3
      <3>2. CASE head = Null
        <4>1. Null \notin DOMAIN nodes
          <5>1. nodes \in Seq(NodeSet)
            BY <1>1, TypeMeans
          <5> QED BY <5>1 DEF Null
        <4>2. ASSUME NEW m \in DOMAIN nodes \ {Empty}
              PROVE  nodes[m].refs = HeldBy(nodes, work, CueAlive', head, temp, holds, m)
          <5>1. nodes[m].refs = HeldBy(nodes, work, CueAlive, head, temp, holds, m)
            BY <1>2 DEF Counted
          <5>2. head # m
            BY <3>2, <4>1
          <5> QED BY <5>1, <5>2 DEF HeldBy, Count
        <4>3. Counted(nodes, work, CueAlive', head, temp, holds)
          BY <4>2 DEF Counted
        <4> QED BY <4>3, <1>3
      <3> QED BY <3>1, <3>2, <1>4
    <2>3. Stages'
      BY <1>6
    <2> QED BY <1>2, <1>3, <2>1, <2>2, <2>3 DEF Exact
  <1>7. DefinedOtherwise' /\ (at' = "undefined" => work' = << >>)
    BY <1>3 DEF DefinedOtherwise, Grave
  <1>8. ChildrenSound(nodes')
    BY <1>1, <1>3
  <1>9. IInv'
    BY <1>5, <1>6, <1>7, <1>8 DEF IInv
  <1> QED BY <1>3, <1>9 DEF FreedSame

\* The invariant before a step from a state that is defined.
LEMMA Defined ==
  ASSUME IInv, at # "undefined"
  PROVE  /\ Stages /\ FaultsKnown /\ ParentsSound(nodes) /\ ChildrenSound(nodes) /\ TypeOK
         /\ nodes \in Seq(NodeSet) /\ faults \subseteq AllFaults /\ cueRefs \in Nat /\ cues \in 0 .. MaxCues
         /\ current \in DOMAIN nodes \cup {Null} /\ head \in DOMAIN nodes \cup {Null}
         /\ temp \in DOMAIN nodes \cup {Null} /\ langs \in BOOLEAN
         /\ holds \in [NodeObjects -> DOMAIN nodes \cup {Null}]
         /\ WorkSound(nodes, work) /\ FreedUnheld(nodes)
         /\ Counted(nodes, work, CueAlive, head, temp, holds)
  <1>1. TypeOK /\ ChildrenSound(nodes) /\ Exact
    BY DEF IInv
  <1>2. /\ Stages /\ FaultsKnown /\ ParentsSound(nodes) /\ WorkSound(nodes, work) /\ FreedUnheld(nodes)
        /\ Counted(nodes, work, CueAlive, head, temp, holds)
    BY <1>1 DEF Exact
  <1> QED BY <1>1, <1>2, TypeMeans

\* The head itself could not be had.
LEMMA HeadFailsStep ==
  ASSUME IInv, HeadFails, nodes' = nodes
  PROVE  IInv' /\ FreedSame
  <1>1. at = "start" /\ at' = "parsed"
    BY DEF HeadFails
  <1>2. /\ Stages /\ nodes \in Seq(NodeSet) /\ faults \subseteq AllFaults /\ cueRefs \in Nat /\ cues \in 0 .. MaxCues
        /\ current \in DOMAIN nodes \cup {Null} /\ work = << >> /\ cueRefs = 1 /\ cues = 0
    BY <1>1, Defined DEF Stages
  <1>3. nodes' # Append(nodes, Node("HEAD", Null, FALSE))
    <2> DEFINE a == Node("HEAD", Null, FALSE)
    <2> HIDE DEF a
    <2>1. Len(nodes) \in Nat
      BY <1>2
    <2>2. Len(Append(nodes, a)) = Len(nodes) + 1
      BY <1>2
    <2>3. nodes' # Append(nodes, a)
      BY <2>1, <2>2
    <2> QED BY <2>3 DEF a
  <1>4. /\ head' = head /\ temp' = temp /\ langs' = langs /\ current' = current /\ holds' = holds /\ work' = work
        /\ cueRefs' = cueRefs /\ cues' = cues /\ faults' = faults \cup {"head"}
    BY <1>3 DEF HeadFails, Fault, local, objects
  <1>5. NodesStay
    BY <1>1, <1>2, <1>4 DEF NodesStay, AllFaults
  <1>6. Stages'
    <2>1. /\ head # Empty /\ temp # Empty /\ Empty \in DOMAIN nodes
          /\ nodes[Empty].refs > 0 /\ ~nodes[Empty].freed /\ nodes[Empty].kind = "EMPTY" /\ ~nodes[Empty].data
      BY <1>2 DEF Stages
    <2> QED BY <1>1, <1>2, <1>4, <2>1 DEF Stages
  <1> QED BY <1>1, <1>5, <1>6, StayStep

\* A node that a token asks for could not be had.
LEMMA NodeFailsStep ==
  ASSUME IInv, NEW kind \in InnerKinds \cup Leaves, NodeFails(kind)
  PROVE  IInv' /\ FreedSame
  <1>1. /\ at = "parse" /\ work = << >> /\ nodes' = nodes
        /\ head' = head /\ temp' = temp /\ langs' = langs /\ current' = current /\ holds' = holds /\ work' = work
        /\ cueRefs' = cueRefs /\ cues' = cues
        /\ \/ at' = "undefined" /\ faults' = faults \cup {"lang"}
           \/ at' = "parse" /\ faults' = faults \cup {"node"}
    BY DEF NodeFails, Creating, Parsing, Fault, local, objects
  <1>2. /\ Stages /\ FaultsKnown /\ nodes \in Seq(NodeSet) /\ faults \subseteq AllFaults
        /\ cueRefs \in Nat /\ cues \in 0 .. MaxCues /\ current \in DOMAIN nodes \cup {Null}
    BY <1>1, Defined
  <1>3. NodesStay
    BY <1>1, <1>2 DEF NodesStay, AllFaults
  <1>4. at' # "undefined" => Stages'
    BY <1>1, <1>2 DEF Stages
  <1>5. at' = "undefined" => work = << >> /\ faults' \cap Grave # {}
    BY <1>1 DEF Grave
  <1>6. "open" \in faults' \/ ~nodes[current'].freed
    BY <1>1, <1>2 DEF FaultsKnown
  <1> QED BY <1>1, <1>3, <1>4, <1>5, <1>6, StayStep

\* The end of an inner node: the parser goes on with the node that it is in.
LEMMA CloseNodeStep ==
  ASSUME IInv, NEW kind \in InnerKinds, CloseNode(kind)
  PROVE  IInv' /\ FreedSame
  <1>1. /\ at = "parse" /\ work = << >> /\ nodes' = nodes /\ at' = at
        /\ head' = head /\ temp' = temp /\ langs' = langs /\ holds' = holds /\ work' = work
        /\ cueRefs' = cueRefs /\ cues' = cues /\ faults' = faults
        /\ current' = nodes[current].parent /\ nodes[current].kind \in InnerKinds
    BY DEF CloseNode, Parsing, objects, InnerKinds
  <1>2. /\ Stages /\ FaultsKnown /\ ParentsSound(nodes) /\ nodes \in Seq(NodeSet) /\ faults \subseteq AllFaults
        /\ cueRefs \in Nat /\ cues \in 0 .. MaxCues
    BY <1>1, Defined
  <1>3. current \in DOMAIN nodes
    BY <1>1, <1>2 DEF Stages
  <1>4. current' \in DOMAIN nodes /\ nodes[current'].data
    BY <1>1, <1>2, <1>3 DEF ParentsSound
  <1>5. "open" \in faults' \/ ~nodes[current'].freed
    BY <1>1, <1>2, <1>3 DEF FaultsKnown
  <1>6. NodesStay
    BY <1>1, <1>2, <1>4 DEF NodesStay
  <1>7. Stages'
    BY <1>1, <1>2, <1>4 DEF Stages
  <1> QED BY <1>1, <1>5, <1>6, <1>7, StayStep

\* A token when the node that is open was released.
LEMMA UseReleasedStep ==
  ASSUME IInv, UseReleased
  PROVE  IInv' /\ FreedSame
  <1>1. /\ at = "parse" /\ work = << >> /\ nodes' = nodes /\ at' = "undefined"
        /\ head' = head /\ temp' = temp /\ langs' = langs /\ holds' = holds /\ work' = work
        /\ cueRefs' = cueRefs /\ cues' = cues /\ faults' = faults
        /\ current' = current /\ nodes[current].freed
    BY DEF UseReleased, Parsing, objects, local
  <1>2. /\ FaultsKnown /\ faults \subseteq AllFaults /\ current \in DOMAIN nodes \cup {Null}
        /\ cueRefs \in Nat /\ cues \in 0 .. MaxCues
    BY <1>1, Defined
  <1>3. "open" \in faults
    BY <1>1, <1>2 DEF FaultsKnown
  <1>4. faults' \cap Grave # {}
    BY <1>1, <1>3 DEF Grave
  <1>5. NodesStay
    BY <1>1, <1>2 DEF NodesStay
  <1> QED BY <1>1, <1>4, <1>5, StayStep

\* The end of the text.
LEMMA ParseEndStep ==
  ASSUME IInv, ParseEnd
  PROVE  IInv' /\ FreedSame
  <1>1. /\ at = "parse" /\ work = << >> /\ nodes' = nodes /\ at' = (IF langs THEN "parsed" ELSE "undefined")
        /\ head' = head /\ temp' = temp /\ langs' = langs /\ holds' = holds /\ work' = work
        /\ cueRefs' = cueRefs /\ cues' = cues /\ faults' = faults /\ current' = current
    BY DEF ParseEnd, Parsing, objects, local
  <1>2. /\ Stages /\ FaultsKnown /\ faults \subseteq AllFaults /\ current \in DOMAIN nodes \cup {Null}
        /\ cueRefs \in Nat /\ cues \in 0 .. MaxCues
    BY <1>1, Defined
  <1>3. at' = "undefined" => faults' \cap Grave # {}
    <2>1. at' = "undefined" => "langs" \in faults'
      BY <1>1, <1>2 DEF FaultsKnown
    <2> QED BY <2>1 DEF Grave
  <1>4. NodesStay
    BY <1>1, <1>2 DEF NodesStay
  <1>5. at' # "undefined" => Stages'
    BY <1>1, <1>2 DEF Stages
  <1>6. at' # "parse"
    BY <1>1
  <1> QED BY <1>1, <1>3, <1>4, <1>5, <1>6, StayStep

\* The application takes the cue,
LEMMA ParsedCueStep ==
  ASSUME IInv, ParsedCue
  PROVE  IInv' /\ FreedSame
  <1>1. /\ at = "parsed" /\ nodes' = nodes /\ at' = "app"
        /\ head' = head /\ temp' = temp /\ langs' = langs /\ holds' = holds /\ work' = work
        /\ cueRefs' = cueRefs /\ cues' = 1 /\ faults' = faults /\ current' = current
    BY DEF ParsedCue, local
  <1>2. /\ Stages /\ faults \subseteq AllFaults /\ current \in DOMAIN nodes \cup {Null} /\ cueRefs = 1
    BY <1>1, Defined DEF Stages
  <1>3. 1 \in 0 .. MaxCues
    BY BoundAssumption
  <1>4. NodesStay
    BY <1>1, <1>2, <1>3 DEF NodesStay
  <1>5. Stages'
    BY <1>1, <1>2 DEF Stages
  <1> QED BY <1>1, <1>4, <1>5, StayStep

\* copies it,
LEMMA CopyCueStep ==
  ASSUME IInv, CopyCue
  PROVE  IInv' /\ FreedSame
  <1>1. /\ at = "app" /\ nodes' = nodes /\ at' = "app"
        /\ head' = head /\ temp' = temp /\ langs' = langs /\ holds' = holds /\ work' = work
        /\ cues \in 1 .. MaxCues - 1
        /\ cueRefs' = cueRefs + 1 /\ cues' = cues + 1 /\ faults' = faults /\ current' = current
    BY DEF CopyCue, Running, Kept, local
  <1>2. /\ Stages /\ faults \subseteq AllFaults /\ current \in DOMAIN nodes \cup {Null} /\ cueRefs \in Nat
        /\ cues \in Nat /\ cueRefs = cues
    BY <1>1, Defined DEF Stages
  <1>3. cues' \in 0 .. MaxCues /\ cueRefs' \in Nat /\ (cueRefs' > 0 <=> cueRefs > 0)
    BY <1>1, <1>2, BoundAssumption
  <1>4. NodesStay
    BY <1>1, <1>2, <1>3 DEF NodesStay
  <1>5. Stages'
    BY <1>1, <1>2 DEF Stages
  <1> QED BY <1>1, <1>4, <1>5, StayStep

\* or asks a node that has no data for its children.
LEMMA ChildOfNothingStep ==
  ASSUME IInv, NEW g \in NodeObjects, ChildOfNothing(g)
  PROVE  IInv' /\ FreedSame
  <1>1. /\ at = "app" /\ work = << >> /\ nodes' = nodes /\ at' = "undefined"
        /\ head' = head /\ temp' = temp /\ langs' = langs /\ holds' = holds /\ work' = work
        /\ cueRefs' = cueRefs /\ cues' = cues /\ faults' = faults /\ current' = current
        /\ holds[g] # Null /\ ~Complete(nodes, holds[g])
    BY DEF ChildOfNothing, Running, objects, local, Complete
  <1>2. /\ FaultsKnown /\ faults \subseteq AllFaults /\ current \in DOMAIN nodes \cup {Null}
        /\ cueRefs \in Nat /\ cues \in 0 .. MaxCues
    BY <1>1, Defined
  <1>3. "head data" \in faults
    BY <1>1, <1>2 DEF FaultsKnown
  <1>4. faults' \cap Grave # {}
    BY <1>1, <1>3 DEF Grave
  <1>5. NodesStay
    BY <1>1, <1>2 DEF NodesStay
  <1> QED BY <1>1, <1>4, <1>5, StayStep

\* A node that somebody holds is counted, and so it was not freed.
LEMMA HeldCounts ==
  ASSUME NEW ns \in Seq(NodeSet), NEW w, NEW alive \in BOOLEAN, NEW hd, NEW t, NEW hs,
         Counted(ns, w, alive, hd, t, hs), FreedUnheld(ns), NEW n \in DOMAIN ns \ {Empty},
         (alive /\ hd = n) \/ t = n \/ (\E h \in NodeObjects : hs[h] = n) \/ Places(ns, w, n) # {}
  PROVE  ns[n].refs > 0 /\ ~ns[n].freed
  <1>0. ns[n].refs = HeldBy(ns, w, alive, hd, t, hs, n)
    BY DEF Counted
  <1>1. /\ Cardinality(Places(ns, w, n)) \in Nat /\ Cardinality(Holders(hs, n)) \in Nat
        /\ IsFiniteSet(Places(ns, w, n)) /\ IsFiniteSet(Holders(hs, n))
    BY PlacesFinite
  <1>2. Places(ns, w, n) # {} => Cardinality(Places(ns, w, n)) > 0
    BY <1>1, FS_EmptySet
  <1>3. (\E h \in NodeObjects : hs[h] = n) => Cardinality(Holders(hs, n)) > 0
    <2>1. (\E h \in NodeObjects : hs[h] = n) => Holders(hs, n) # {}
      BY DEF Holders
    <2> QED BY <2>1, <1>1, FS_EmptySet
  <1>4. ns[n].refs > 0
    <2> DEFINE P == Cardinality(Places(ns, w, n))
               H == Cardinality(Holders(hs, n))
    <2>1. P \in Nat /\ H \in Nat
      BY <1>1
    <2>2. (alive /\ hd = n) \/ t = n \/ H > 0 \/ P > 0
      BY <1>2, <1>3
    <2>3. ns[n].refs = P + Count(alive /\ hd = n) + Count(t = n) + H
      BY <1>0 DEF HeldBy
    <2> HIDE DEF P, H
    <2> QED BY <2>1, <2>2, <2>3 DEF Count
  <1> QED BY <1>4 DEF FreedUnheld

\* One more object that holds n.
LEMMA OneMoreHolder ==
  ASSUME NEW hs, NEW hs2, NEW h \in NodeObjects, NEW n, hs[h] # n, hs2[h] = n,
         \A g \in NodeObjects \ {h} : hs2[g] = hs[g]
  PROVE  Cardinality(Holders(hs2, n)) = Cardinality(Holders(hs, n)) + 1
  <1>1. Holders(hs2, n) = Holders(hs, n) \cup {h} /\ h \notin Holders(hs, n)
    BY DEF Holders
  <1>2. IsFiniteSet(Holders(hs, n))
    <2>1. Holders(hs, n) \in SUBSET NodeObjects
      BY DEF Holders
    <2> QED BY <2>1, ObjectsAssumption, FS_Subset
  <1> QED BY <1>1, <1>2, FS_AddElement

\* The objects that hold another node are what they were.
LEMMA OtherHolders ==
  ASSUME NEW hs, NEW hs2, NEW h \in NodeObjects, NEW m, hs[h] # m, hs2[h] # m,
         \A g \in NodeObjects \ {h} : hs2[g] = hs[g]
  PROVE  Holders(hs2, m) = Holders(hs, m)
  BY DEF Holders

\* An object takes a node, which counts it; of empty_node that is not always so.
Takes(h, n) ==
  /\ holds[h] = Null /\ holds' = [holds EXCEPT ![h] = n]
  /\ nodes' \in Seq(NodeSet) /\ DOMAIN nodes' = DOMAIN nodes /\ Len(nodes') = Len(nodes)
  /\ \A m \in DOMAIN nodes \ {n} : nodes'[m] = nodes[m]
  /\ SameNode(nodes'[n], nodes[n]) /\ nodes'[n].children = nodes[n].children
  /\ nodes'[n].alloc = nodes[n].alloc /\ (nodes'[n].freed <=> nodes[n].freed)
  /\ nodes'[n].refs = nodes[n].refs + 1 \/ (n = Empty /\ nodes' = nodes)
  /\ at' = "app" /\ head' = head /\ current' = current /\ temp' = temp /\ langs' = langs
  /\ faults \subseteq faults' /\ faults' \subseteq AllFaults
  /\ cueRefs' = cueRefs /\ cues' = cues /\ work' = work
Holdable(n) ==
  /\ n # Empty => nodes[n].refs > 0
  /\ Complete(nodes, n) \/ "head data" \in faults
  /\ n = Empty => "unset" \in faults'
LEMMA TakesStep ==
  ASSUME IInv, Running, NEW h \in NodeObjects, NEW n \in DOMAIN nodes, Takes(h, n), Holdable(n)
  PROVE  IInv' /\ FreedSame
  <1>0. /\ at = "app" /\ work = << >>
        /\ Stages /\ FaultsKnown /\ ParentsSound(nodes) /\ ChildrenSound(nodes) /\ TypeOK
        /\ nodes \in Seq(NodeSet) /\ cueRefs \in Nat /\ cues \in 0 .. MaxCues
        /\ current \in DOMAIN nodes \cup {Null} /\ head \in DOMAIN nodes \cup {Null}
        /\ temp \in DOMAIN nodes \cup {Null} /\ langs \in BOOLEAN
        /\ holds \in [NodeObjects -> DOMAIN nodes \cup {Null}]
        /\ FreedUnheld(nodes) /\ Counted(nodes, work, CueAlive, head, temp, holds)
    BY Defined DEF Running
  <1>a. /\ holds[h] = Null /\ holds' = [holds EXCEPT ![h] = n]
        /\ nodes' \in Seq(NodeSet) /\ DOMAIN nodes' = DOMAIN nodes /\ Len(nodes') = Len(nodes)
        /\ \A m \in DOMAIN nodes \ {n} : nodes'[m] = nodes[m]
        /\ SameNode(nodes'[n], nodes[n]) /\ nodes'[n].children = nodes[n].children
        /\ nodes'[n].alloc = nodes[n].alloc /\ (nodes'[n].freed <=> nodes[n].freed)
    BY DEF Takes
  <1>b. /\ at' = "app" /\ head' = head /\ current' = current /\ temp' = temp /\ langs' = langs
        /\ faults \subseteq faults' /\ faults' \subseteq AllFaults
        /\ cueRefs' = cueRefs /\ cues' = cues /\ work' = work
    BY DEF Takes
  <1>c. nodes'[n].refs = nodes[n].refs + 1 \/ (n = Empty /\ nodes' = nodes)
    BY DEF Takes
  <1>d. /\ n # Empty => nodes[n].refs > 0
        /\ Complete(nodes, n) \/ "head data" \in faults
        /\ n = Empty => "unset" \in faults'
    BY DEF Holdable
  <1>1. \A m \in DOMAIN nodes : SameNode(nodes'[m], nodes[m]) /\ nodes'[m].children = nodes[m].children
                              /\ nodes'[m].alloc = nodes[m].alloc /\ (nodes'[m].freed <=> nodes[m].freed)
    BY <1>a DEF SameNode
  <1>2. ChildrenSound(nodes') /\ ParentsSound(nodes') /\ \A m \in DOMAIN nodes : Complete(nodes', m) <=> Complete(nodes, m)
    <2>1. \A m \in DOMAIN nodes : SameNode(nodes'[m], nodes[m]) /\ nodes'[m].children = nodes[m].children
                              /\ nodes'[m].alloc = nodes[m].alloc
      BY <1>1
    <2> QED BY <1>0, <1>a, <2>1, ShapeSame
  <1>3. \A m : Places(nodes', work', m) = Places(nodes, work, m)
    <2>1. \A p \in DOMAIN nodes : nodes'[p].children = nodes[p].children
      BY <1>1
    <2>2. \A p \in DOMAIN nodes : \A i \in 1 .. Len(nodes[p].children) :
            (nodes'[p].freed \/ LetGo(work', p, i)) <=> (nodes[p].freed \/ LetGo(work, p, i))
      BY <1>1, <1>b
    <2>3. nodes \in Seq(NodeSet) /\ nodes' \in Seq(NodeSet) /\ DOMAIN nodes' = DOMAIN nodes
      BY <1>0, <1>a
    <2> QED BY <2>1, <2>2, <2>3, PlacesSame
  <1>4. /\ holds'[h] = n /\ \A g \in NodeObjects \ {h} : holds'[g] = holds[g]
        /\ holds' \in [NodeObjects -> DOMAIN nodes \cup {Null}] /\ Null \notin DOMAIN nodes
    BY <1>0, <1>a DEF Null
  <1>5. FreedUnheld(nodes')
    <2> SUFFICES ASSUME NEW m \in DOMAIN nodes \ {Empty}, nodes'[m].freed
                 PROVE  nodes'[m].refs = 0
      BY <1>a DEF FreedUnheld
    <2>1. nodes[m].freed /\ nodes[m].refs = 0
      BY <1>0, <1>1 DEF FreedUnheld
    <2>2. m # n
      <3>1. ~(nodes[m].refs > 0)
        BY <2>1
      <3> QED BY <3>1, <1>d
    <2> QED BY <2>1, <2>2, <1>a
  <1>6. CueAlive' = CueAlive /\ CueAlive \in BOOLEAN
    BY <1>b DEF CueAlive
  <1>7. Counted(nodes', work', CueAlive', head', temp', holds')
    <2> SUFFICES ASSUME NEW m \in DOMAIN nodes \ {Empty}
                 PROVE  nodes'[m].refs = HeldBy(nodes', work', CueAlive', head', temp', holds', m)
      BY <1>a DEF Counted
    <2> DEFINE P == Cardinality(Places(nodes, work, m))
               C == Count(CueAlive /\ head = m)
               T == Count(temp = m)
               H == Cardinality(Holders(holds, m))
               H2 == Cardinality(Holders(holds', m))
    <2>1. nodes[m].refs = P + C + T + H
      BY <1>0 DEF Counted, HeldBy
    <2>2. HeldBy(nodes', work', CueAlive', head', temp', holds', m) = P + C + T + H2
      BY <1>3, <1>6, <1>b DEF HeldBy
    <2>3. P \in Nat /\ C \in Nat /\ T \in Nat /\ H \in Nat
      BY <1>0, PlacesFinite DEF Count
    <2>4. CASE m = n
      <3>1. holds[h] # n
        BY <1>a, <1>4
      <3>2. H2 = H + 1
        BY <2>4, <3>1, <1>4, OneMoreHolder
      <3>3. nodes'[m].refs = nodes[m].refs + 1
        BY <2>4, <1>c
      <3> HIDE DEF P, C, T, H, H2
      <3> QED BY <2>1, <2>2, <2>3, <3>2, <3>3
    <2>5. CASE m # n
      <3>1. holds[h] # m /\ holds'[h] # m
        BY <2>5, <1>a, <1>4
      <3>2. H2 = H
        BY <3>1, <1>4, OtherHolders
      <3>3. nodes'[m].refs = nodes[m].refs
        BY <2>5, <1>a
      <3> HIDE DEF P, C, T, H, H2
      <3> QED BY <2>1, <2>2, <2>3, <3>2, <3>3
    <2> QED BY <2>4, <2>5
  <1>8. TypeOK'
    <2>1. /\ current' \in DOMAIN nodes' \cup {Null} /\ head' \in DOMAIN nodes' \cup {Null}
          /\ temp' \in DOMAIN nodes' \cup {Null} /\ langs' \in BOOLEAN
          /\ holds' \in [NodeObjects -> DOMAIN nodes' \cup {Null}]
      BY <1>0, <1>a, <1>b, <1>4
    <2>2. work' \in Seq((DOMAIN nodes') \X Nat)
      BY <1>0, <1>b
    <2> QED BY <1>0, <1>a, <1>b, <2>1, <2>2, TypeMeansNext
  <1>9. Stages'
    <2>1. Empty \in DOMAIN nodes
      BY <1>0, <1>b DEF Empty
    <2>2. nodes[Empty].refs \in Nat
      BY <1>0, <2>1, NodeType
    <2>3. nodes'[Empty].refs > 0
      <3>1. nodes[Empty].refs > 0
        BY <1>0 DEF Stages
      <3> QED BY <3>1, <2>1, <2>2, <1>a, <1>c
    <2>4. ~nodes'[Empty].freed /\ nodes'[Empty].kind = "EMPTY" /\ ~nodes'[Empty].data
      BY <1>0, <1>1, <2>1 DEF Stages, SameNode
    <2>5. head # Empty /\ temp # Empty /\ cueRefs = cues
      BY <1>0 DEF Stages
    <2> QED BY <2>1, <2>3, <2>4, <2>5, <1>a, <1>b DEF Stages
  <1>10. FaultsKnown'
    <2>1. head' # Null /\ "head data" \notin faults' => Complete(nodes', head')
      BY <1>0, <1>2, <1>b DEF FaultsKnown
    <2>2. ASSUME NEW g \in NodeObjects, holds'[g] # Null, "head data" \notin faults'
          PROVE  Complete(nodes', holds'[g])
      <3>1. "head data" \notin faults
        BY <2>2, <1>b
      <3>2. CASE g = h
        BY <3>1, <3>2, <1>2, <1>4, <1>d
      <3>3. CASE g # h
        <4>1. holds'[g] = holds[g] /\ holds[g] \in DOMAIN nodes
          BY <3>3, <2>2, <1>0, <1>4
        <4>2. Complete(nodes, holds[g])
          BY <4>1, <3>1, <2>2, <1>0 DEF FaultsKnown
        <4> QED BY <4>1, <4>2, <1>2
      <3> QED BY <3>2, <3>3
    <2>3. ASSUME NEW g \in NodeObjects, holds'[g] = Empty
          PROVE  "unset" \in faults'
      <3>1. CASE g = h
        BY <2>3, <3>1, <1>4, <1>d
      <3>2. CASE g # h
        BY <2>3, <3>2, <1>0, <1>4, <1>b DEF FaultsKnown
      <3> QED BY <3>1, <3>2
    <2> QED BY <2>1, <2>2, <2>3, <1>b DEF FaultsKnown
  <1>11. WorkSound(nodes', work')
    BY <1>0, <1>b DEF WorkSound, Distinct
  <1>12. Exact' /\ at' # "undefined"
    BY <1>2, <1>5, <1>7, <1>9, <1>10, <1>11, <1>b DEF Exact
  <1>13. DefinedOtherwise'
    BY <1>12 DEF DefinedOtherwise
  <1>14. IInv'
    BY <1>2, <1>8, <1>12, <1>13 DEF IInv
  <1>15. FreedSame
    <2> SUFFICES ASSUME NEW m \in DOMAIN nodes, nodes[m].freed
                 PROVE  nodes'[m] = nodes[m]
      BY DEF FreedSame
    <2>1. m # Empty
      BY <1>0 DEF Stages
    <2>2. nodes[m].refs = 0
      BY <2>1, <1>0 DEF FreedUnheld
    <2>3. m # n
      <3>1. ~(nodes[m].refs > 0)
        BY <2>2
      <3> QED BY <3>1, <2>1, <1>d
    <2> QED BY <2>3, <1>a
  <1> QED BY <1>14, <1>15

\* The node counts the object.
CountsMore(ns, n, ns2) ==
  /\ ns2 \in Seq(NodeSet) /\ DOMAIN ns2 = DOMAIN ns /\ Len(ns2) = Len(ns)
  /\ \A m \in DOMAIN ns \ {n} : ns2[m] = ns[m]
  /\ SameNode(ns2[n], ns[n]) /\ ns2[n].children = ns[n].children
  /\ ns2[n].alloc = ns[n].alloc /\ (ns2[n].freed <=> ns[n].freed)
  /\ ns2[n].refs = ns[n].refs + 1
LEMMA CountsOneMore ==
  ASSUME NEW ns \in Seq(NodeSet), NEW n \in DOMAIN ns, NEW ns2, ns2 = [ns EXCEPT ![n].refs = @ + 1]
  PROVE  CountsMore(ns, n, ns2)
  <1>1. ns[n] \in NodeSet
    OBVIOUS
  <1>2. ns[n].refs + 1 \in Nat
    BY <1>1, NodeType
  <1> DEFINE a == WithRefs(ns[n], ns[n].refs + 1)
  <1>3. /\ a \in NodeSet /\ SameNode(a, ns[n]) /\ a.refs = ns[n].refs + 1 /\ a.children = ns[n].children
        /\ a.alloc = ns[n].alloc /\ a.freed = ns[n].freed
    BY <1>1, <1>2, NodeWithRefs
  <1>4. ns2 = [ns EXCEPT ![n] = a]
    BY DEF WithRefs
  <1> HIDE DEF a
  <1>5. /\ ns2 \in Seq(NodeSet) /\ DOMAIN ns2 = DOMAIN ns /\ Len(ns2) = Len(ns)
        /\ \A m \in DOMAIN ns : ns2[m] = IF m = n THEN a ELSE ns[m]
    BY <1>3, <1>4, Replaced
  <1>6. ns2[n] = a /\ \A m \in DOMAIN ns \ {n} : ns2[m] = ns[m]
    BY <1>5
  <1> QED BY <1>3, <1>5, <1>6 DEF CountsMore

\* An object that is given a node takes it.
LEMMA HoldTakes ==
  ASSUME IInv, Running, NEW h \in NodeObjects, NEW n \in DOMAIN nodes, Hold(h, n)
  PROVE  Takes(h, n)
  <1>1. nodes \in Seq(NodeSet) /\ faults \subseteq AllFaults
    BY Defined DEF Running
  <1>2. /\ holds[h] = Null /\ holds' = [holds EXCEPT ![h] = n]
        /\ nodes' = [nodes EXCEPT ![n].refs = @ + 1]
        /\ at' = "app" /\ head' = head /\ current' = current /\ temp' = temp /\ langs' = langs
        /\ faults' = faults /\ cueRefs' = cueRefs /\ cues' = cues /\ work' = work
    BY DEF Hold, Running, Kept, local
  <1>3. /\ nodes' \in Seq(NodeSet) /\ DOMAIN nodes' = DOMAIN nodes /\ Len(nodes') = Len(nodes)
        /\ \A m \in DOMAIN nodes \ {n} : nodes'[m] = nodes[m]
        /\ SameNode(nodes'[n], nodes[n]) /\ nodes'[n].children = nodes[n].children
        /\ nodes'[n].alloc = nodes[n].alloc /\ (nodes'[n].freed <=> nodes[n].freed)
        /\ nodes'[n].refs = nodes[n].refs + 1
    <2>1. CountsMore(nodes, n, nodes')
      BY <1>1, <1>2, CountsOneMore
    <2> QED BY <2>1 DEF CountsMore
  <1> QED BY <1>1, <1>2, <1>3 DEF Takes

\* The head is taken from a cue that some object has,
LEMMA NodeHeadStep ==
  ASSUME IInv, NEW h \in NodeObjects, NodeHead(h)
  PROVE  IInv' /\ FreedSame
  <1>1. Running /\ at = "app" /\ cues > 0 /\ head # Null /\ Hold(h, head) /\ faults' = faults
    BY DEF NodeHead, Running, Hold
  <1>2. /\ Stages /\ FaultsKnown /\ nodes \in Seq(NodeSet) /\ head \in DOMAIN nodes \cup {Null}
        /\ FreedUnheld(nodes) /\ Counted(nodes, work, CueAlive, head, temp, holds)
    BY <1>1, Defined
  <1>3. head \in DOMAIN nodes \ {Empty} /\ CueAlive /\ CueAlive \in BOOLEAN
    BY <1>1, <1>2 DEF Stages, CueAlive
  <1>4. nodes[head].refs > 0
    BY <1>2, <1>3, HeldCounts
  <1>5. Complete(nodes, head) \/ "head data" \in faults
    BY <1>1, <1>2 DEF FaultsKnown
  <1>6. Holdable(head)
    BY <1>3, <1>4, <1>5 DEF Holdable
  <1> QED BY <1>1, <1>3, <1>6, HoldTakes, TakesStep

\* a node from another object,
LEMMA CopyNodeStep ==
  ASSUME IInv, NEW h \in NodeObjects, NEW g \in NodeObjects, CopyNode(h, g)
  PROVE  IInv' /\ FreedSame
  <1>1. Running /\ at = "app" /\ holds[g] # Null /\ Hold(h, holds[g]) /\ faults' = faults
    BY DEF CopyNode, Running, Hold
  <1>2. /\ FaultsKnown /\ nodes \in Seq(NodeSet) /\ holds \in [NodeObjects -> DOMAIN nodes \cup {Null}]
        /\ FreedUnheld(nodes) /\ Counted(nodes, work, CueAlive, head, temp, holds)
    BY <1>1, Defined
  <1>3. holds[g] \in DOMAIN nodes /\ CueAlive \in BOOLEAN
    BY <1>1, <1>2 DEF CueAlive
  <1>4. holds[g] # Empty => nodes[holds[g]].refs > 0
    BY <1>2, <1>3, HeldCounts
  <1>5. Complete(nodes, holds[g]) \/ "head data" \in faults
    BY <1>1, <1>2 DEF FaultsKnown
  <1>6. holds[g] = Empty => "unset" \in faults'
    BY <1>1, <1>2 DEF FaultsKnown
  <1>7. Holdable(holds[g])
    BY <1>4, <1>5, <1>6 DEF Holdable
  <1> QED BY <1>1, <1>3, <1>7, HoldTakes, TakesStep

\* or a child from its parent, which holds it as long as it is held itself.
LEMMA ChildOfStep ==
  ASSUME IInv, NEW h \in NodeObjects, NEW g \in NodeObjects, ChildOf(h, g)
  PROVE  IInv' /\ FreedSame
  <1>1. Running /\ at = "app" /\ work = << >> /\ holds[g] # Null /\ nodes[holds[g]].data /\ faults' = faults
        /\ \E i \in DOMAIN nodes[holds[g]].children : Hold(h, nodes[holds[g]].children[i])
    BY DEF ChildOf, Running, Hold
  <1>2. /\ Stages /\ FaultsKnown /\ ChildrenSound(nodes) /\ nodes \in Seq(NodeSet)
        /\ holds \in [NodeObjects -> DOMAIN nodes \cup {Null}]
        /\ FreedUnheld(nodes) /\ Counted(nodes, work, CueAlive, head, temp, holds)
    BY <1>1, Defined
  <1> DEFINE p == holds[g]
  <1>3. p \in DOMAIN nodes \ {Empty} /\ CueAlive \in BOOLEAN
    BY <1>1, <1>2 DEF CueAlive, Stages
  <1>4. ~nodes[p].freed
    BY <1>2, <1>3, HeldCounts
  <1>5. PICK i \in DOMAIN nodes[p].children : Hold(h, nodes[p].children[i])
    BY <1>1
  <1>6. nodes[p] \in NodeSet /\ nodes[p].children \in Seq(Nat)
    <2>1. nodes[p] \in NodeSet
      BY <1>2, <1>3
    <2> QED BY <2>1, NodeType
  <1>7. i \in 1 .. Len(nodes[p].children) /\ Len(nodes[p].children) \in Nat
    BY <1>6
  <1> DEFINE c == nodes[p].children[i]
  <1>8. c \in DOMAIN nodes \ {Empty} /\ Complete(nodes, c) /\ Len(nodes[p].children) <= MaxNodes
    BY <1>2, <1>3, <1>7 DEF ChildrenSound
  <1>9. <<p, i>> \in Places(nodes, work, c)
    <2>1. i \in 1 .. MaxNodes /\ i <= Len(nodes[p].children)
      BY <1>7, <1>8, BoundAssumption
    <2>2. ~LetGo(work, p, i)
      BY <1>1 DEF LetGo
    <2> QED BY <1>3, <1>4, <2>1, <2>2 DEF Places
  <1> HIDE DEF p, c
  <1>10. nodes[c].refs > 0
    <2>1. Places(nodes, work, c) # {}
      BY <1>9
    <2> QED BY <2>1, <1>2, <1>3, <1>8, HeldCounts
  <1>11. Holdable(c)
    BY <1>8, <1>10 DEF Holdable
  <1>12. Hold(h, c)
    BY <1>5 DEF c
  <1> QED BY <1>1, <1>8, <1>11, <1>12, HoldTakes, TakesStep

\* An object made of no node.
LEMMA NodeOfNothingStep ==
  ASSUME IInv, NEW h \in NodeObjects, NodeOfNothing(h)
  PROVE  IInv' /\ FreedSame
  <1>1. /\ Running /\ at = "app" /\ work = << >> /\ holds[h] = Null /\ faults' = faults \cup {"unset"}
        /\ head' = head /\ current' = current /\ temp' = temp /\ langs' = langs
        /\ cueRefs' = cueRefs /\ cues' = cues /\ work' = work
        /\ \/ at' = "undefined" /\ nodes' = nodes /\ holds' = holds
           \/ /\ holds' = [holds EXCEPT ![h] = Empty] /\ at' = "app"
              /\ nodes' = nodes \/ nodes' = [nodes EXCEPT ![Empty].refs = @ + 1]
    BY DEF NodeOfNothing, Running, Fault, local
  <1>2. /\ Stages /\ nodes \in Seq(NodeSet) /\ faults \subseteq AllFaults /\ cueRefs \in Nat /\ cues \in 0 .. MaxCues
        /\ current \in DOMAIN nodes \cup {Null} /\ head \in DOMAIN nodes \cup {Null} /\ TypeOK
    BY <1>1, Defined
  <1>3. faults \subseteq faults' /\ faults' \subseteq AllFaults /\ "unset" \in faults'
    BY <1>1, <1>2 DEF AllFaults
  <1>4. CASE at' = "undefined" /\ nodes' = nodes /\ holds' = holds
    <2>1. NodesStay
      BY <1>1, <1>2, <1>3, <1>4 DEF NodesStay
    <2>2. faults' \cap Grave # {}
      BY <1>3 DEF Grave
    <2> QED BY <1>1, <1>4, <2>1, <2>2, StayStep
  <1>5. CASE /\ holds' = [holds EXCEPT ![h] = Empty] /\ at' = "app"
             /\ nodes' = nodes \/ nodes' = [nodes EXCEPT ![Empty].refs = @ + 1]
    <2>1. Empty \in DOMAIN nodes
      BY <1>2 DEF Stages
    <2>2. /\ nodes' \in Seq(NodeSet) /\ DOMAIN nodes' = DOMAIN nodes /\ Len(nodes') = Len(nodes)
          /\ \A m \in DOMAIN nodes \ {Empty} : nodes'[m] = nodes[m]
          /\ SameNode(nodes'[Empty], nodes[Empty]) /\ nodes'[Empty].children = nodes[Empty].children
          /\ nodes'[Empty].alloc = nodes[Empty].alloc /\ (nodes'[Empty].freed <=> nodes[Empty].freed)
          /\ nodes'[Empty].refs = nodes[Empty].refs + 1 \/ nodes' = nodes
      <3>1. CASE nodes' = nodes
        BY <3>1, <1>2 DEF SameNode
      <3>2. CASE nodes' = [nodes EXCEPT ![Empty].refs = @ + 1]
        <4>1. CountsMore(nodes, Empty, nodes')
          BY <3>2, <1>2, <2>1, CountsOneMore
        <4> QED BY <4>1 DEF CountsMore
      <3> QED BY <3>1, <3>2, <1>5
    <2>3. Takes(h, Empty)
      BY <1>1, <1>3, <1>5, <2>2 DEF Takes
    <2>4. Complete(nodes, Empty)
      BY <1>2 DEF Complete, Stages, Internal, InnerKinds
    <2>5. Holdable(Empty)
      BY <1>3, <2>4 DEF Holdable
    <2> QED BY <1>1, <2>1, <2>3, <2>5, TakesStep
  <1> QED BY <1>1, <1>4, <1>5

\* Active calls, typed.
LEMMA CallsTyped ==
  ASSUME NEW S, NEW w \in Calls, \A k \in DOMAIN w : w[k][1] \in S
  PROVE  w \in Seq(S \X Nat)
  <1>1. Len(w) \in Nat /\ DOMAIN w = 1 .. Len(w) /\ \A k \in 1 .. Len(w) : w[k] \in Nat \X Nat
    BY DEF Calls
  <1>2. \A k \in 1 .. Len(w) : w[k] \in S \X Nat
    BY <1>1
  <1>3. w = [k \in 1 .. Len(w) |-> w[k]]
    BY <1>1 DEF Calls
  <1> QED BY <1>1, <1>2, <1>3

\* A holder lets go of n, with w the active calls by then.
LetsGo(w, n) ==
  /\ head' = head /\ current' = current /\ temp' = temp /\ langs' = langs /\ faults' = faults
  /\ cueRefs' \in Nat /\ cues' \in 0 .. MaxCues /\ cueRefs' = cues'
  /\ holds' \in [NodeObjects -> DOMAIN nodes \cup {Null}]
  /\ \A h \in NodeObjects : holds'[h] = holds[h] \/ holds'[h] = Null
  /\ w \in Calls /\ WorkSound(nodes, w)
  /\ \A m \in DOMAIN nodes \ {Empty} :
       nodes[m].refs = HeldBy(nodes, w, CueAlive', head, temp, holds', m) + (IF m = n THEN 1 ELSE 0)
  /\ nodes' = Released(nodes, w, n)[1] /\ work' = Released(nodes, w, n)[2]
  /\ \/ at' = "app" /\ ~(n = Empty /\ nodes[Empty].refs = 1)
     \/ at' = "undefined" /\ n = Empty /\ w = << >> /\ "unset" \in faults
LEMMA LetsGoStep ==
  ASSUME IInv, at # "undefined", NEW w, NEW n \in DOMAIN nodes, LetsGo(w, n)
  PROVE  IInv' /\ FreedSame
  <1>0. /\ Stages /\ FaultsKnown /\ ParentsSound(nodes) /\ ChildrenSound(nodes) /\ TypeOK
        /\ nodes \in Seq(NodeSet) /\ faults \subseteq AllFaults
        /\ current \in DOMAIN nodes \cup {Null} /\ head \in DOMAIN nodes \cup {Null}
        /\ temp \in DOMAIN nodes \cup {Null} /\ langs \in BOOLEAN
        /\ holds \in [NodeObjects -> DOMAIN nodes \cup {Null}] /\ FreedUnheld(nodes)
    BY Defined
  <1>a. /\ head' = head /\ current' = current /\ temp' = temp /\ langs' = langs /\ faults' = faults
        /\ cueRefs' \in Nat /\ cues' \in 0 .. MaxCues /\ cueRefs' = cues'
        /\ holds' \in [NodeObjects -> DOMAIN nodes \cup {Null}]
        /\ \A h \in NodeObjects : holds'[h] = holds[h] \/ holds'[h] = Null
        /\ w \in Calls /\ WorkSound(nodes, w)
        /\ nodes' = Released(nodes, w, n)[1] /\ work' = Released(nodes, w, n)[2]
    BY DEF LetsGo
  <1>b. \A m \in DOMAIN nodes \ {Empty} :
          nodes[m].refs = HeldBy(nodes, w, CueAlive', head, temp, holds', m) + (IF m = n THEN 1 ELSE 0)
    BY DEF LetsGo
  <1>c. \/ at' = "app" /\ ~(n = Empty /\ nodes[Empty].refs = 1)
        \/ at' = "undefined" /\ n = Empty /\ w = << >> /\ "unset" \in faults
    BY DEF LetsGo
  <1>1. nodes[n].refs > 0
    <2>1. CASE n = Empty
      BY <2>1, <1>0 DEF Stages
    <2>2. CASE n # Empty
      <3> DEFINE x == HeldBy(nodes, w, CueAlive', head, temp, holds', n)
      <3>1. x \in Nat
        <4>1. Cardinality(Places(nodes, w, n)) \in Nat /\ Cardinality(Holders(holds', n)) \in Nat
          BY <1>0, PlacesFinite
        <4> QED BY <4>1 DEF HeldBy, Count
      <3>2. nodes[n].refs = x + 1
        BY <1>b, <2>2
      <3> HIDE DEF x
      <3> QED BY <3>1, <3>2
    <2> QED BY <2>1, <2>2
  <1>2. DropsTo(nodes, w, n, nodes', work')
    BY <1>0, <1>1, <1>a, ReleasedFields
  <1>3. /\ nodes' \in Seq(NodeSet) /\ work' \in Calls /\ DOMAIN nodes' = DOMAIN nodes
        /\ Len(nodes') = Len(nodes) /\ \A m \in DOMAIN nodes \ {n} : nodes'[m] = nodes[m]
        /\ SameNode(nodes'[n], nodes[n]) /\ nodes'[n].refs = nodes[n].refs - 1
        /\ nodes'[n].freed <=> (nodes[n].freed \/ (nodes[n].refs = 1 /\ ~nodes[n].data))
    BY <1>2 DEF DropsTo
  <1>4. /\ ChildrenSound(nodes') /\ ParentsSound(nodes') /\ WorkSound(nodes', work') /\ FreedUnheld(nodes')
        /\ Counted(nodes', work', CueAlive', head', temp', holds')
        /\ \A m \in DOMAIN nodes : Complete(nodes', m) <=> Complete(nodes, m)
    <2> DEFINE al == CueAlive'
               hs == holds'
               nn == nodes'
               ww == work'
    <2>1. al \in BOOLEAN /\ ~nodes[Empty].data
      BY <1>0 DEF CueAlive, Stages
    <2>2. \A m \in DOMAIN nodes \ {Empty} :
            nodes[m].refs = HeldBy(nodes, w, al, head, temp, hs, m) + (IF m = n THEN 1 ELSE 0)
      BY <1>b
    <2>3. DropsTo(nodes, w, n, nn, ww)
      BY <1>2
    <2>4. head' = head /\ temp' = temp
      BY <1>a
    <2> HIDE DEF al, hs, nn, ww
    <2>5. SoundAgain(nodes, nn, ww, al, head, temp, hs)
      BY <1>0, <1>1, <1>a, <2>1, <2>2, <2>3, ReleasedSound
    <2> QED BY <2>4, <2>5 DEF al, hs, nn, ww, SoundAgain
  <1>5. TypeOK'
    <2>1. work' \in Seq((DOMAIN nodes') \X Nat)
      <3>1. \A k \in DOMAIN work' : work'[k][1] \in DOMAIN nodes'
        BY <1>4 DEF WorkSound
      <3> QED BY <3>1, <1>3, CallsTyped
    <2>2. at' \in {"start", "parse", "parsed", "app", "undefined"}
      BY <1>c
    <2>3. /\ current' \in DOMAIN nodes' \cup {Null} /\ head' \in DOMAIN nodes' \cup {Null}
          /\ temp' \in DOMAIN nodes' \cup {Null} /\ langs' \in BOOLEAN /\ faults' \subseteq AllFaults
          /\ holds' \in [NodeObjects -> DOMAIN nodes' \cup {Null}]
      BY <1>0, <1>3, <1>a
    <2> QED BY <1>3, <1>a, <2>1, <2>2, <2>3, TypeMeansNext
  <1>6. ASSUME at' = "undefined"
        PROVE  work' = << >> /\ faults' \cap Grave # {}
    <2>1. n = Empty /\ w = << >> /\ "unset" \in faults'
      BY <1>6, <1>c, <1>a
    <2>2. ~nodes[n].data
      BY <2>1, <1>0 DEF Stages
    <2>3. work' = w
      BY <1>2, <2>2 DEF DropsTo
    <2> QED BY <2>1, <2>3 DEF Grave
  <1>7. ASSUME at' = "app"
        PROVE  Stages' /\ FaultsKnown'
    <2>1. nodes'[Empty].refs > 0 /\ ~nodes'[Empty].freed /\ nodes'[Empty].kind = "EMPTY" /\ ~nodes'[Empty].data
      <3>1. /\ Empty \in DOMAIN nodes /\ nodes[Empty].refs > 0 /\ ~nodes[Empty].freed
            /\ nodes[Empty].kind = "EMPTY" /\ ~nodes[Empty].data
        BY <1>0 DEF Stages
      <3>2. CASE n = Empty
        <4>1. nodes[Empty].refs # 1
          BY <1>7, <1>c, <3>2
        <4>2. nodes[Empty].refs \in Nat
          BY <1>0, <3>1, NodeType
        <4>3. nodes'[Empty].refs > 0 /\ ~nodes'[Empty].freed
          BY <3>1, <3>2, <4>1, <4>2, <1>3
        <4> QED BY <3>1, <3>2, <4>3, <1>3 DEF SameNode
      <3>3. CASE n # Empty
        <4>1. nodes'[Empty] = nodes[Empty]
          BY <3>1, <3>3, <1>3
        <4> QED BY <3>1, <4>1
      <3> QED BY <3>2, <3>3
    <2>2. Empty \in DOMAIN nodes' /\ head' # Empty /\ temp' # Empty
      BY <1>0, <1>3, <1>a DEF Stages
    <2>3. Stages'
      BY <1>7, <1>a, <2>1, <2>2 DEF Stages
    <2>4. head' # Null /\ "head data" \notin faults' => Complete(nodes', head')
      BY <1>0, <1>4, <1>a DEF FaultsKnown
    <2>5. ASSUME NEW h \in NodeObjects, holds'[h] # Null, "head data" \notin faults'
          PROVE  Complete(nodes', holds'[h])
      <3>1. holds'[h] = holds[h] /\ holds[h] \in DOMAIN nodes /\ "head data" \notin faults
        BY <2>5, <1>0, <1>a
      <3>2. Complete(nodes, holds[h])
        BY <3>1, <2>5, <1>0 DEF FaultsKnown
      <3> QED BY <3>1, <3>2, <1>4
    <2>6. ASSUME NEW h \in NodeObjects, holds'[h] = Empty
          PROVE  "unset" \in faults'
      <3>1. holds[h] = Empty
        BY <2>6, <1>a DEF Empty, Null
      <3> QED BY <3>1, <1>0, <1>a DEF FaultsKnown
    <2>7. FaultsKnown'
      BY <1>7, <2>4, <2>5, <2>6 DEF FaultsKnown
    <2> QED BY <2>3, <2>7
  <1>8. at' # "undefined" => Exact'
    <2>1. at' # "undefined" => at' = "app"
      BY <1>c
    <2> QED BY <2>1, <1>7, <1>4 DEF Exact
  <1>9. DefinedOtherwise'
    BY <1>6 DEF DefinedOtherwise, Grave
  <1>10. IInv'
    BY <1>4, <1>5, <1>6, <1>8, <1>9 DEF IInv
  <1>11. FreedSame
    <2> SUFFICES ASSUME NEW m \in DOMAIN nodes, nodes[m].freed
                 PROVE  nodes'[m] = nodes[m]
      BY DEF FreedSame
    <2>1. m # Empty
      BY <1>0 DEF Stages
    <2>2. ~(nodes[m].refs > 0)
      BY <2>1, <1>0 DEF FreedUnheld
    <2>3. m # n
      BY <2>2, <1>1
    <2> QED BY <2>3, <1>3
  <1> QED BY <1>10, <1>11

\* The last holder of the cue lets go of its head.
LEMMA CueEndStep ==
  ASSUME IInv, at \in {"parsed", "app"}, work = << >>, cueRefs = 1, cueRefs' = 0, cues' = 0, at' = "app",
         ReleaseHead, UNCHANGED <<head, local, faults, holds>>
  PROVE  IInv' /\ FreedSame
  <1>0. at # "undefined" /\ at' # "parse"
    OBVIOUS
  <1>1. /\ Stages /\ nodes \in Seq(NodeSet) /\ faults \subseteq AllFaults
        /\ current \in DOMAIN nodes \cup {Null} /\ head \in DOMAIN nodes \cup {Null}
        /\ holds \in [NodeObjects -> DOMAIN nodes \cup {Null}]
        /\ WorkSound(nodes, work) /\ Counted(nodes, work, CueAlive, head, temp, holds)
    BY <1>0, Defined
  <1>2. /\ head' = head /\ current' = current /\ temp' = temp /\ langs' = langs /\ faults' = faults
        /\ holds' = holds
    BY DEF local
  <1>3. 0 \in 0 .. MaxCues /\ cues' \in 0 .. MaxCues /\ cueRefs' \in Nat /\ cueRefs' = cues'
    BY BoundAssumption
  <1>4. CASE head = Null
    <2>1. nodes' = nodes /\ work' = work
      BY <1>4 DEF ReleaseHead
    <2>2. NodesStay
      BY <1>1, <1>2, <1>3, <1>4, <2>1 DEF NodesStay
    <2>3. Stages'
      BY <1>1, <1>2, <2>1 DEF Stages
    <2> QED BY <1>0, <2>2, <2>3, StayStep
  <1>5. CASE head # Null
    <2>1. head \in DOMAIN nodes /\ head # Empty
      BY <1>1, <1>5 DEF Stages
    <2>2. nodes' = Released(nodes, work, head)[1] /\ work' = Released(nodes, work, head)[2]
      BY <1>5 DEF ReleaseHead, ReleaseNode
    <2>3. work \in Calls
      BY DEF Calls
    <2>4. ASSUME NEW m \in DOMAIN nodes \ {Empty}
          PROVE  nodes[m].refs = HeldBy(nodes, work, CueAlive', head, temp, holds', m) + (IF m = head THEN 1 ELSE 0)
      <3> DEFINE P == Cardinality(Places(nodes, work, m))
                 T == Count(temp = m)
                 H == Cardinality(Holders(holds, m))
      <3>1. P \in Nat /\ T \in Nat /\ H \in Nat
        BY <1>1, PlacesFinite DEF Count
      <3>2. CueAlive /\ ~CueAlive'
        BY DEF CueAlive
      <3>3. nodes[m].refs = P + Count(CueAlive /\ head = m) + T + H
        BY <1>1 DEF Counted, HeldBy
      <3>4. HeldBy(nodes, work, CueAlive', head, temp, holds', m) = P + Count(CueAlive' /\ head = m) + T + H
        BY <1>2 DEF HeldBy
      <3> HIDE DEF P, T, H
      <3>5. Count(CueAlive' /\ head = m) = 0 /\ Count(CueAlive /\ head = m) = (IF m = head THEN 1 ELSE 0)
        BY <3>2 DEF Count
      <3> DEFINE C == Count(CueAlive /\ head = m)
                 C2 == Count(CueAlive' /\ head = m)
                 L == IF m = head THEN 1 ELSE 0
      <3>6. C2 = 0 /\ C = L /\ L \in Nat
        BY <3>5
      <3> HIDE DEF C, C2, L
      <3>7. nodes[m].refs = HeldBy(nodes, work, CueAlive', head, temp, holds', m) + L
        BY <3>1, <3>3, <3>4, <3>6 DEF C, C2
      <3> QED BY <3>7 DEF L
    <2>5. LetsGo(work, head)
      BY <1>1, <1>2, <1>3, <2>1, <2>2, <2>3, <2>4 DEF LetsGo
    <2> QED BY <1>0, <2>1, <2>5, LetsGoStep
  <1> QED BY <1>4, <1>5

\* A cue that is not handed over,
LEMMA InvalidCueStep ==
  ASSUME IInv, InvalidCue
  PROVE  IInv' /\ FreedSame
  <1>1. at = "parsed" /\ at' = "app" /\ cueRefs' = cueRefs - 1 /\ ReleaseHead /\ cues' = cues
        /\ UNCHANGED <<head, local, faults, holds>>
    BY DEF InvalidCue
  <1>2. Stages
    BY <1>1, Defined
  <1>3. work = << >> /\ cueRefs = 1 /\ cues = 0
    BY <1>1, <1>2 DEF Stages
  <1> QED BY <1>1, <1>3, CueEndStep

\* or one object less that has it.
LEMMA DestroyCueStep ==
  ASSUME IInv, DestroyCue
  PROVE  IInv' /\ FreedSame
  <1>1. /\ at = "app" /\ at' = "app" /\ work = << >> /\ cues > 0 /\ cues' = cues - 1 /\ cueRefs' = cueRefs - 1
        /\ IF cueRefs = 1 THEN ReleaseHead ELSE nodes' = nodes /\ work' = work
        /\ UNCHANGED <<head, local, faults, holds>>
    BY DEF DestroyCue, Running, Kept
  <1>2. /\ Stages /\ faults \subseteq AllFaults /\ current \in DOMAIN nodes \cup {Null}
        /\ cues \in 0 .. MaxCues /\ cueRefs \in Nat
    BY <1>1, Defined
  <1>3. cueRefs = cues
    BY <1>1, <1>2 DEF Stages
  <1>4. CASE cueRefs = 1
    <2>1. cueRefs' = 0 /\ cues' = 0 /\ ReleaseHead
      BY <1>1, <1>3, <1>4
    <2> QED BY <1>1, <1>4, <2>1, CueEndStep
  <1>5. CASE cueRefs # 1
    <2>1. nodes' = nodes /\ work' = work /\ cueRefs' > 0 /\ cueRefs > 0 /\ cueRefs' \in Nat
          /\ cues' \in 0 .. MaxCues /\ cueRefs' = cues'
      BY <1>1, <1>2, <1>3, <1>5, BoundAssumption
    <2>2. /\ head' = head /\ current' = current /\ temp' = temp /\ langs' = langs /\ faults' = faults
          /\ holds' = holds
      BY <1>1 DEF local
    <2>3. NodesStay
      BY <1>1, <1>2, <2>1, <2>2 DEF NodesStay
    <2>4. Stages'
      BY <1>1, <1>2, <2>1, <2>2 DEF Stages
    <2>5. at # "undefined" /\ at' # "undefined" /\ at' # "parse"
      BY <1>1
    <2> QED BY <2>3, <2>4, <2>5, StayStep
  <1> QED BY <1>4, <1>5

\* An object lets go of its node.
LEMMA DestroyNodeStep ==
  ASSUME IInv, NEW h \in NodeObjects, DestroyNode(h)
  PROVE  IInv' /\ FreedSame
  <1> DEFINE n == holds[h]
  <1>1. /\ at = "app" /\ work = << >> /\ n # Null /\ holds' = [holds EXCEPT ![h] = Null]
        /\ nodes' = Released(nodes, work, n)[1] /\ work' = Released(nodes, work, n)[2]
        /\ at' = (IF n = Empty /\ nodes[Empty].refs = 1 THEN "undefined" ELSE at)
        /\ head' = head /\ current' = current /\ temp' = temp /\ langs' = langs /\ faults' = faults
        /\ cueRefs' = cueRefs /\ cues' = cues
    BY DEF DestroyNode, Running, ReleaseNode, local
  <1>2. /\ Stages /\ FaultsKnown /\ nodes \in Seq(NodeSet)
        /\ holds \in [NodeObjects -> DOMAIN nodes \cup {Null}] /\ cueRefs \in Nat /\ cues \in 0 .. MaxCues
        /\ WorkSound(nodes, work) /\ Counted(nodes, work, CueAlive, head, temp, holds)
    BY <1>1, Defined
  <1>3. n \in DOMAIN nodes /\ Null \notin DOMAIN nodes
    BY <1>1, <1>2 DEF Null
  <1>4. /\ holds'[h] = Null /\ \A g \in NodeObjects \ {h} : holds'[g] = holds[g]
        /\ holds' \in [NodeObjects -> DOMAIN nodes \cup {Null}]
    BY <1>1, <1>2
  <1>5. cueRefs' = cues' /\ CueAlive' = CueAlive
    BY <1>1, <1>2 DEF Stages, CueAlive
  <1>6. n = Empty => "unset" \in faults
    BY <1>2 DEF FaultsKnown
  <1>7. holds[h] = n
    OBVIOUS
  <1> HIDE DEF n
  <1>8. ASSUME NEW m \in DOMAIN nodes \ {Empty}
        PROVE  nodes[m].refs = HeldBy(nodes, work, CueAlive', head, temp, holds', m) + (IF m = n THEN 1 ELSE 0)
    <2> DEFINE P == Cardinality(Places(nodes, work, m))
               C == Count(CueAlive /\ head = m)
               T == Count(temp = m)
               H == Cardinality(Holders(holds, m))
               H2 == Cardinality(Holders(holds', m))
    <2>1. nodes[m].refs = P + C + T + H
      BY <1>2 DEF Counted, HeldBy
    <2>2. HeldBy(nodes, work, CueAlive', head, temp, holds', m) = P + C + T + H2
      BY <1>5 DEF HeldBy
    <2>3. P \in Nat /\ C \in Nat /\ T \in Nat /\ H2 \in Nat
      BY <1>2, PlacesFinite DEF Count
    <2>4. CASE m = n
      <3>1. holds'[h] # n
        BY <1>3, <1>4
      <3> DEFINE hs == holds'
      <3>2. hs[h] # n /\ \A g \in NodeObjects \ {h} : holds[g] = hs[g]
        BY <3>1, <1>4
      <3> HIDE DEF hs
      <3>3. Cardinality(Holders(holds, n)) = Cardinality(Holders(hs, n)) + 1
        BY <3>2, <1>7, OneMoreHolder
      <3>4. H = H2 + 1
        BY <2>4, <3>3 DEF hs
      <3> HIDE DEF P, C, T, H, H2
      <3> QED BY <2>1, <2>2, <2>3, <2>4, <3>4
    <2>5. CASE m # n
      <3>1. holds[h] # m /\ holds'[h] # m
        BY <2>5, <1>3, <1>4, <1>7
      <3>2. H2 = H
        BY <3>1, <1>4, OtherHolders
      <3> HIDE DEF P, C, T, H, H2
      <3> QED BY <2>1, <2>2, <2>3, <2>5, <3>2
    <2> QED BY <2>4, <2>5
  <1>9. \/ at' = "app" /\ ~(n = Empty /\ nodes[Empty].refs = 1)
        \/ at' = "undefined" /\ n = Empty /\ work = << >> /\ "unset" \in faults
    BY <1>1, <1>6
  <1>10. \A g \in NodeObjects : holds'[g] = holds[g] \/ holds'[g] = Null
    BY <1>4
  <1>11. work \in Calls
    BY <1>1 DEF Calls
  <1>12. LetsGo(work, n)
    BY <1>1, <1>2, <1>4, <1>5, <1>8, <1>9, <1>10, <1>11 DEF LetsGo
  <1> QED BY <1>1, <1>3, <1>12, LetsGoStep

\* The innermost active call.
LEMMA LastCall ==
  ASSUME NEW w \in Calls, w # << >>
  PROVE  /\ Len(w) \in Nat /\ Len(w) > 0 /\ DOMAIN w = 1 .. Len(w)
         /\ Last(w) = w[Len(w)] /\ Last(w)[1] \in Nat /\ Last(w)[2] \in Nat
         /\ Front(w) \in Calls /\ Len(Front(w)) = Len(w) - 1 /\ DOMAIN Front(w) = 1 .. Len(w) - 1
         /\ \A k \in 1 .. Len(w) - 1 : Front(w)[k] = w[k]
  <1>1. Len(w) \in Nat /\ Len(w) > 0 /\ DOMAIN w = 1 .. Len(w)
    BY DEF Calls
  <1>2. Last(w) = w[Len(w)] /\ w[Len(w)] \in Nat \X Nat
    BY <1>1 DEF Calls, Last
  <1>3. Front(w) = SubSeq(w, 1, Len(w) - 1)
    BY DEF Front
  <1>4. /\ SubSeq(w, 1, Len(w) - 1) \in Calls /\ Len(SubSeq(w, 1, Len(w) - 1)) = Len(w) - 1
        /\ \A k \in 1 .. Len(w) - 1 : SubSeq(w, 1, Len(w) - 1)[k] = w[k]
    BY <1>1 DEF Calls
  <1>5. DOMAIN Front(w) = 1 .. Len(w) - 1
    BY <1>3, <1>4 DEF Calls
  <1> QED BY <1>1, <1>2, <1>3, <1>4, <1>5

\* A sequence with one more element.
LEMMA OneLonger ==
  ASSUME NEW S, NEW s \in Seq(S), NEW x \in S
  PROVE  /\ Append(s, x) \in Seq(S) /\ Len(s) \in Nat /\ DOMAIN Append(s, x) = 1 .. Len(s) + 1
         /\ Append(s, x)[Len(s) + 1] = x /\ \A k \in 1 .. Len(s) : Append(s, x)[k] = s[k]
  <1>1. Append(s, x) \in Seq(S) /\ Len(s) \in Nat
    OBVIOUS
  <1>2. DOMAIN Append(s, x) = 1 .. Len(s) + 1
    OBVIOUS
  <1>3. Append(s, x)[Len(s) + 1] = x
    OBVIOUS
  <1>4. \A k \in 1 .. Len(s) : Append(s, x)[k] = s[k]
    OBVIOUS
  <1> QED BY <1>1, <1>2, <1>3, <1>4

\* It comes to its next child.
GoesOn(w, w2) ==
  /\ w2 \in Calls /\ DOMAIN w2 = DOMAIN w
  /\ \A k \in 1 .. Len(w) - 1 : w2[k] = w[k]
  /\ w2[Len(w)] = <<Last(w)[1], Last(w)[2] + 1>>
LEMMA GoesOnNext ==
  ASSUME NEW w \in Calls, w # << >>
  PROVE  GoesOn(w, Append(Front(w), <<Last(w)[1], Last(w)[2] + 1>>))
  <1> DEFINE f == Front(w)
             c == <<Last(w)[1], Last(w)[2] + 1>>
  <1>1. /\ Len(w) \in Nat /\ Len(w) > 0 /\ DOMAIN w = 1 .. Len(w) /\ f \in Calls /\ Len(f) = Len(w) - 1
        /\ c \in Nat \X Nat /\ \A k \in 1 .. Len(w) - 1 : f[k] = w[k]
    <2>1. Last(w)[1] \in Nat /\ Last(w)[2] + 1 \in Nat
      BY LastCall
    <2>2. c \in Nat \X Nat
      BY <2>1
    <2> HIDE DEF c
    <2> QED BY <2>2, LastCall
  <1> HIDE DEF f, c
  <1>2. /\ Append(f, c) \in Calls /\ DOMAIN Append(f, c) = 1 .. Len(w)
        /\ Append(f, c)[Len(w)] = c /\ \A k \in 1 .. Len(w) - 1 : Append(f, c)[k] = f[k]
    <2> DEFINE S == Nat \X Nat
               g == Append(f, c)
    <2>1. f \in Seq(S) /\ c \in S
      BY <1>1 DEF Calls
    <2> HIDE DEF S, g
    <2>2. /\ g \in Seq(S) /\ DOMAIN g = 1 .. Len(f) + 1 /\ g[Len(f) + 1] = c
          /\ \A k \in 1 .. Len(f) : g[k] = f[k]
      BY <2>1, OneLonger DEF g
    <2>3. Len(f) + 1 = Len(w)
      BY <1>1
    <2>4. g \in Calls
      BY <2>2 DEF S, Calls
    <2>5. DOMAIN g = 1 .. Len(w) /\ g[Len(w)] = c /\ \A k \in 1 .. Len(w) - 1 : g[k] = f[k]
      BY <1>1, <2>2, <2>3
    <2> QED BY <2>4, <2>5 DEF g
  <1>3. GoesOn(w, Append(f, c))
    BY <1>1, <1>2 DEF GoesOn, c
  <1> QED BY <1>3 DEF f, c

\* Then its node holds that child no more.
LEMMA OnePlaceLess ==
  ASSUME NEW ns \in Seq(NodeSet), NEW w \in Calls, w # << >>, NEW w2, GoesOn(w, w2),
         WorkSound(ns, w), ChildrenSound(ns), Last(w)[2] < Len(ns[Last(w)[1]].children)
  PROVE  /\ WorkSound(ns, w2) /\ w2 \in Calls
         /\ \A m : Cardinality(Places(ns, w, m)) = Cardinality(Places(ns, w2, m))
                     + (IF m = ns[Last(w)[1]].children[Last(w)[2] + 1] THEN 1 ELSE 0)
  <1> DEFINE n == Last(w)[1]
             i == Last(w)[2]
             c == ns[n].children[i + 1]
  <1>1. /\ Len(w) \in Nat /\ Len(w) > 0 /\ DOMAIN w = 1 .. Len(w)
        /\ n = w[Len(w)][1] /\ i = w[Len(w)][2] /\ n \in Nat /\ i \in Nat
    BY LastCall
  <1>2. /\ w2 \in Calls /\ DOMAIN w2 = 1 .. Len(w) /\ w2[Len(w)][1] = n /\ w2[Len(w)][2] = i + 1
        /\ \A k \in 1 .. Len(w) - 1 : w2[k] = w[k]
    BY <1>1 DEF GoesOn
  <1>3. i < Len(ns[n].children)
    OBVIOUS
  <1>4. ns[n].children[i + 1] = c
    OBVIOUS
  <1> HIDE DEF n, i, c
  <1>5. /\ Distinct(w)
        /\ \A k \in DOMAIN w : /\ w[k][1] \in DOMAIN ns \ {Empty}
                              /\ ns[w[k][1]].refs = 0 /\ ~ns[w[k][1]].freed /\ ns[w[k][1]].data
    BY DEF WorkSound
  <1>6. \A k \in DOMAIN w : w2[k][1] = w[k][1]
    BY <1>1, <1>2
  <1>7. WorkSound(ns, w2)
    <2>1. Distinct(w2)
      BY <1>1, <1>2, <1>5, <1>6 DEF Distinct
    <2> QED BY <1>1, <1>2, <1>5, <1>6, <2>1 DEF WorkSound
  <1>8. n \in DOMAIN ns /\ ~ns[n].freed
    BY <1>1, <1>5
  <1>9. Len(ns[n].children) \in Nat /\ Len(ns[n].children) <= MaxNodes
    <2>1. ns[n] \in NodeSet
      BY <1>8
    <2> QED BY <1>8, <2>1, NodeType DEF ChildrenSound
  <1>10. ASSUME NEW p, NEW j \in Nat
         PROVE  LetGo(w2, p, j) <=> LetGo(w, p, j) \/ (p = n /\ j = i + 1)
    <2>1. ASSUME NEW k \in 1 .. Len(w) - 1
          PROVE  (w2[k][1] = p /\ j <= w2[k][2]) <=> (w[k][1] = p /\ j <= w[k][2])
      BY <1>2
    <2>2. (w2[Len(w)][1] = p /\ j <= w2[Len(w)][2])
            <=> (w[Len(w)][1] = p /\ j <= w[Len(w)][2]) \/ (p = n /\ j = i + 1)
      BY <1>1, <1>2
    <2>3. \A k : k \in 1 .. Len(w) <=> k \in 1 .. Len(w) - 1 \/ k = Len(w)
      BY <1>1
    <2>4. LetGo(w2, p, j) <=> (\E k \in 1 .. Len(w) - 1 : w2[k][1] = p /\ j <= w2[k][2])
                              \/ (w2[Len(w)][1] = p /\ j <= w2[Len(w)][2])
      BY <1>2, <2>3 DEF LetGo
    <2>5. LetGo(w, p, j) <=> (\E k \in 1 .. Len(w) - 1 : w[k][1] = p /\ j <= w[k][2])
                             \/ (w[Len(w)][1] = p /\ j <= w[Len(w)][2])
      BY <1>1, <2>3 DEF LetGo
    <2> QED BY <2>1, <2>2, <2>4, <2>5
  <1>11. ~LetGo(w, n, i + 1)
    <2> SUFFICES ASSUME NEW k \in DOMAIN w, w[k][1] = n, i + 1 <= w[k][2]
                 PROVE  FALSE
      BY DEF LetGo
    <2>1. k = Len(w)
      BY SMTT(30), <1>1, <1>5 DEF Distinct
    <2> QED BY <2>1, <1>1
  <1> DEFINE e0 == <<n, i + 1>>
  <1>12. e0 \in (DOMAIN ns) \X (1 .. MaxNodes) /\ e0[1] = n /\ e0[2] = i + 1
    <2>1. i + 1 \in 1 .. MaxNodes
      BY <1>1, <1>3, <1>9, BoundAssumption
    <2> QED BY <1>8, <2>1
  <1>13. ASSUME NEW m, NEW e \in (DOMAIN ns) \X (1 .. MaxNodes)
         PROVE  e \in Places(ns, w, m) <=> e \in Places(ns, w2, m) \/ (m = c /\ e = e0)
    <2>1. e[1] \in DOMAIN ns /\ e[2] \in Nat /\ (e = e0 <=> e[1] = n /\ e[2] = i + 1)
      OBVIOUS
    <2>2. LetGo(w2, e[1], e[2]) <=> LetGo(w, e[1], e[2]) \/ e = e0
      BY <1>10, <2>1
    <2>3. CASE e = e0
      <3>1. e \in Places(ns, w, m) <=> m = c
        <4>1. ~LetGo(w, e[1], e[2]) /\ e[1] = n /\ e[2] = i + 1
          BY <2>1, <2>3, <1>11
        <4>2. e[2] <= Len(ns[n].children)
          BY <4>1, <1>1, <1>3, <1>9
        <4> QED BY <4>1, <4>2, <1>4, <1>8 DEF Places
      <3>2. e \notin Places(ns, w2, m)
        BY <2>2, <2>3 DEF Places
      <3> QED BY <2>3, <3>1, <3>2
    <2>4. CASE e # e0
      BY <2>2, <2>4 DEF Places
    <2> QED BY <2>3, <2>4
  <1>14. e0 \notin Places(ns, w2, c)
    BY <1>1, <1>10, <1>12 DEF Places
  <1> HIDE DEF e0
  <1>15. ASSUME NEW m
         PROVE  Cardinality(Places(ns, w, m)) = Cardinality(Places(ns, w2, m)) + (IF m = c THEN 1 ELSE 0)
    <2>0. \A x : Places(ns, x, m) \subseteq (DOMAIN ns) \X (1 .. MaxNodes)
      BY DEF Places
    <2>1. IsFiniteSet(Places(ns, w2, m)) /\ Cardinality(Places(ns, w2, m)) \in Nat
      BY PlacesFinite
    <2>2. CASE m = c
      <3>1. Places(ns, w, m) = Places(ns, w2, m) \cup {e0}
        BY <2>0, <2>2, <1>12, <1>13
      <3>2. Cardinality(Places(ns, w, m)) = Cardinality(Places(ns, w2, m)) + 1
        BY <2>1, <2>2, <3>1, <1>14, FS_AddElement
      <3> QED BY <2>2, <3>2
    <2>3. CASE m # c
      <3> DEFINE D == (DOMAIN ns) \X (1 .. MaxNodes)
                 P == Places(ns, w, m)
                 P2 == Places(ns, w2, m)
      <3>0. P \subseteq D /\ P2 \subseteq D /\ \A e \in D : e \in P <=> e \in P2
        BY <2>0, <2>3, <1>13
      <3> HIDE DEF D, P, P2
      <3>1. P = P2
        BY <3>0
      <3> QED BY <2>1, <2>3, <3>1 DEF P, P2
    <2> QED BY <2>2, <2>3
  <1> QED BY <1>2, <1>7, <1>15 DEF n, i, c

\* One turn of the loop that releases the children.
LEMMA ReleaseChildStep ==
  ASSUME IInv, ReleaseChild
  PROVE  IInv' /\ FreedSame
  <1>0. at # "undefined"
    BY DEF ReleaseChild, IInv
  <1>1. /\ Stages /\ nodes \in Seq(NodeSet) /\ ChildrenSound(nodes) /\ TypeOK /\ cues \in 0 .. MaxCues
        /\ cueRefs \in Nat /\ holds \in [NodeObjects -> DOMAIN nodes \cup {Null}]
        /\ WorkSound(nodes, work) /\ Counted(nodes, work, CueAlive, head, temp, holds)
    BY <1>0, Defined
  <1>2. work \in Calls /\ work # << >>
    <2>1. work \in Seq((DOMAIN nodes) \X Nat)
      BY <1>1, TypeMeans
    <2>2. DOMAIN nodes \subseteq Nat
      BY <1>1
    <2> QED BY <2>1, <2>2 DEF Calls, ReleaseChild
  <1> DEFINE n == Last(work)[1]
             i == Last(work)[2]
             w == Append(Front(work), <<n, i + 1>>)
             c == nodes[n].children[i + 1]
  <1>3. /\ i < Len(nodes[n].children)
        /\ nodes' = Released(nodes, w, c)[1] /\ work' = Released(nodes, w, c)[2]
        /\ at' = at /\ head' = head /\ current' = current /\ temp' = temp /\ langs' = langs
        /\ faults' = faults /\ cueRefs' = cueRefs /\ cues' = cues /\ holds' = holds
    BY DEF ReleaseChild, ReleaseNode, local, objects
  <1>4. GoesOn(work, w)
    BY <1>2, GoesOnNext
  <1>5. n \in DOMAIN nodes /\ i \in Nat
    <2>1. Len(work) \in DOMAIN work /\ Last(work) = work[Len(work)] /\ i \in Nat
      BY <1>2, LastCall
    <2> QED BY <1>1, <2>1 DEF WorkSound
  <1>6. c \in DOMAIN nodes /\ c # Empty
    <2>1. nodes[n] \in NodeSet
      BY <1>1, <1>5
    <2>2. Len(nodes[n].children) \in Nat
      BY <2>1, NodeType
    <2>3. i + 1 \in 1 .. Len(nodes[n].children)
      BY <2>2, <1>3, <1>5
    <2> QED BY <1>1, <1>5, <2>3 DEF ChildrenSound
  <1> HIDE DEF w
  <1>7. /\ WorkSound(nodes, w) /\ w \in Calls
        /\ \A m : Cardinality(Places(nodes, work, m)) = Cardinality(Places(nodes, w, m))
                    + (IF m = c THEN 1 ELSE 0)
    BY <1>1, <1>2, <1>3, <1>4, OnePlaceLess
  <1> HIDE DEF n, i, c
  <1>8. CueAlive' = CueAlive
    BY <1>3 DEF CueAlive
  <1>9. ASSUME NEW m \in DOMAIN nodes \ {Empty}
        PROVE  nodes[m].refs = HeldBy(nodes, w, CueAlive', head, temp, holds', m) + (IF m = c THEN 1 ELSE 0)
    <2> DEFINE P == Cardinality(Places(nodes, work, m))
               P2 == Cardinality(Places(nodes, w, m))
               C == Count(CueAlive /\ head = m)
               T == Count(temp = m)
               H == Cardinality(Holders(holds, m))
               L == IF m = c THEN 1 ELSE 0
    <2>1. nodes[m].refs = P + C + T + H
      BY <1>1 DEF Counted, HeldBy
    <2>2. HeldBy(nodes, w, CueAlive', head, temp, holds', m) = P2 + C + T + H
      BY <1>3, <1>8 DEF HeldBy
    <2>3. P2 \in Nat /\ C \in Nat /\ T \in Nat /\ H \in Nat /\ L \in Nat
      BY <1>1, PlacesFinite DEF Count
    <2>4. P = P2 + L
      BY <1>7
    <2> HIDE DEF P, P2, C, T, H, L
    <2>5. nodes[m].refs = HeldBy(nodes, w, CueAlive', head, temp, holds', m) + L
      BY <2>1, <2>2, <2>3, <2>4
    <2> QED BY <2>5 DEF L
  <1>10. at = "app" /\ cueRefs = cues
    BY <1>1, <1>2 DEF Stages
  <1>11. LetsGo(w, c)
    BY <1>1, <1>3, <1>6, <1>7, <1>9, <1>10 DEF LetsGo
  <1> QED BY <1>0, <1>6, <1>11, LetsGoStep

\* The end of a call: its node is freed, and it held its children no more.
LEMMA ReleaseEndStep ==
  ASSUME IInv, ReleaseEnd
  PROVE  IInv' /\ FreedSame
  <1>0. at # "undefined"
    BY DEF ReleaseEnd, IInv
  <1>1. /\ Stages /\ FaultsKnown /\ nodes \in Seq(NodeSet) /\ ChildrenSound(nodes) /\ ParentsSound(nodes)
        /\ TypeOK /\ cues \in 0 .. MaxCues /\ faults \subseteq AllFaults
        /\ current \in DOMAIN nodes \cup {Null} /\ head \in DOMAIN nodes \cup {Null}
        /\ temp \in DOMAIN nodes \cup {Null} /\ langs \in BOOLEAN
        /\ cueRefs \in Nat /\ holds \in [NodeObjects -> DOMAIN nodes \cup {Null}]
        /\ WorkSound(nodes, work) /\ FreedUnheld(nodes)
        /\ Counted(nodes, work, CueAlive, head, temp, holds)
    BY <1>0, Defined
  <1>2. work \in Calls /\ work # << >>
    <2>1. work \in Seq((DOMAIN nodes) \X Nat)
      BY <1>1, TypeMeans
    <2>2. DOMAIN nodes \subseteq Nat
      BY <1>1
    <2> QED BY <2>1, <2>2 DEF Calls, ReleaseEnd
  <1> DEFINE n == Last(work)[1]
             i == Last(work)[2]
             l == Len(work)
  <1>3. /\ i = Len(nodes[n].children) /\ nodes' = [nodes EXCEPT ![n].freed = TRUE] /\ work' = Front(work)
        /\ at' = at /\ head' = head /\ current' = current /\ temp' = temp /\ langs' = langs
        /\ faults' = faults /\ cueRefs' = cueRefs /\ cues' = cues /\ holds' = holds
    BY DEF ReleaseEnd, local, objects
  <1>4. /\ l \in Nat /\ l > 0 /\ DOMAIN work = 1 .. l /\ work[l][1] = n /\ work[l][2] = i /\ i \in Nat
        /\ work' \in Calls /\ DOMAIN work' = 1 .. l - 1
        /\ \A k \in 1 .. l - 1 : work'[k] = work[k]
    BY <1>2, <1>3, LastCall
  <1> HIDE DEF n, i, l
  <1>5. /\ Distinct(work)
        /\ \A k \in DOMAIN work : /\ work[k][1] \in DOMAIN nodes \ {Empty}
                                 /\ nodes[work[k][1]].refs = 0 /\ ~nodes[work[k][1]].freed
                                 /\ nodes[work[k][1]].data
    BY <1>1 DEF WorkSound
  <1>6. n \in DOMAIN nodes /\ n # Empty /\ nodes[n].refs = 0 /\ ~nodes[n].freed
    BY <1>4, <1>5
  <1>7. \A k \in 1 .. l - 1 : work[k][1] # n
    BY <1>4, <1>5 DEF Distinct
  <1> DEFINE a == AsFreed(nodes[n])
  <1>8. /\ a \in NodeSet /\ SameNode(a, nodes[n]) /\ a.freed /\ a.children = nodes[n].children
        /\ a.alloc = nodes[n].alloc /\ a.refs = nodes[n].refs
    <2>1. nodes[n] \in NodeSet
      BY <1>1, <1>6
    <2> QED BY <2>1, NodeAsFreed
  <1>9. nodes' = [nodes EXCEPT ![n] = a]
    BY <1>3 DEF AsFreed
  <1> HIDE DEF a
  <1>10. /\ nodes' \in Seq(NodeSet) /\ DOMAIN nodes' = DOMAIN nodes /\ Len(nodes') = Len(nodes)
         /\ nodes'[n] = a /\ \A m \in DOMAIN nodes \ {n} : nodes'[m] = nodes[m]
    <2> DEFINE nn == nodes'
    <2>1. nn = [nodes EXCEPT ![n] = a]
      BY <1>9
    <2> HIDE DEF nn
    <2>2. /\ nn \in Seq(NodeSet) /\ DOMAIN nn = DOMAIN nodes /\ Len(nn) = Len(nodes)
          /\ \A m \in DOMAIN nodes : nn[m] = IF m = n THEN a ELSE nodes[m]
      BY <1>1, <1>6, <1>8, <2>1, Replaced
    <2>3. nn[n] = a /\ \A m \in DOMAIN nodes \ {n} : nn[m] = nodes[m]
      BY <2>2, <1>6
    <2> QED BY <2>2, <2>3 DEF nn
  <1>11. \A m \in DOMAIN nodes : SameNode(nodes'[m], nodes[m]) /\ nodes'[m].children = nodes[m].children
                               /\ nodes'[m].alloc = nodes[m].alloc /\ nodes'[m].refs = nodes[m].refs
    BY <1>8, <1>10 DEF SameNode
  <1>12. ChildrenSound(nodes') /\ ParentsSound(nodes') /\ \A m \in DOMAIN nodes : Complete(nodes', m) <=> Complete(nodes, m)
    <2>1. \A m \in DOMAIN nodes : SameNode(nodes'[m], nodes[m]) /\ nodes'[m].children = nodes[m].children
                                /\ nodes'[m].alloc = nodes[m].alloc
      BY <1>11
    <2> QED BY <1>1, <1>10, <2>1, ShapeSame
  <1>13. WorkSound(nodes', work')
    <2>1. Distinct(work')
      BY <1>4, <1>5 DEF Distinct
    <2>2. ASSUME NEW k \in DOMAIN work'
          PROVE  /\ work'[k][1] \in DOMAIN nodes' \ {Empty} /\ nodes'[work'[k][1]].refs = 0
                 /\ ~nodes'[work'[k][1]].freed /\ nodes'[work'[k][1]].data
      <3>1. k \in DOMAIN work /\ work'[k] = work[k] /\ work[k][1] # n
        BY <1>4, <1>7
      <3>2. nodes'[work[k][1]] = nodes[work[k][1]]
        BY <3>1, <1>5, <1>10
      <3> QED BY <3>1, <3>2, <1>5, <1>10
    <2> QED BY <2>1, <2>2 DEF WorkSound
  <1>14. FreedUnheld(nodes')
    <2> SUFFICES ASSUME NEW m \in DOMAIN nodes \ {Empty}, nodes'[m].freed
                 PROVE  nodes'[m].refs = 0
      BY <1>10 DEF FreedUnheld
    <2>1. CASE m = n
      BY <2>1, <1>6, <1>11
    <2>2. CASE m # n
      BY <2>2, <1>1, <1>10 DEF FreedUnheld
    <2> QED BY <2>1, <2>2
  <1>15. ASSUME NEW m
         PROVE  Places(nodes', work', m) = Places(nodes, work, m)
    <2>1. ASSUME NEW p \in DOMAIN nodes, NEW j \in 1 .. Len(nodes[p].children)
          PROVE  (nodes'[p].freed \/ LetGo(work', p, j)) <=> (nodes[p].freed \/ LetGo(work, p, j))
      <3>1. CASE p = n
        <4>1. nodes'[p].freed
          BY <3>1, <1>8, <1>10
        <4>2. LetGo(work, p, j)
          <5>1. l \in DOMAIN work /\ work[l][1] = p /\ j <= work[l][2]
            BY <3>1, <1>3, <1>4
          <5> QED BY <5>1 DEF LetGo
        <4> QED BY <4>1, <4>2
      <3>2. CASE p # n
        <4>1. nodes'[p].freed <=> nodes[p].freed
          BY <3>2, <1>10
        <4>2. LetGo(work', p, j) <=> LetGo(work, p, j)
          <5>1. LetGo(work', p, j) => LetGo(work, p, j)
            BY <1>4 DEF LetGo
          <5>2. ASSUME NEW k \in DOMAIN work, work[k][1] = p, j <= work[k][2]
                PROVE  LetGo(work', p, j)
            <6>1. k # l
              BY <5>2, <3>2, <1>4
            <6>2. k \in DOMAIN work' /\ work'[k] = work[k]
              BY <6>1, <1>4
            <6> QED BY <5>2, <6>2 DEF LetGo
          <5> QED BY <5>1, <5>2 DEF LetGo
        <4> QED BY <4>1, <4>2
      <3> QED BY <3>1, <3>2
    <2>2. \A p \in DOMAIN nodes : nodes'[p].children = nodes[p].children
      BY <1>11
    <2> DEFINE nn == nodes'
               ww == work'
    <2>3. /\ nn \in Seq(NodeSet) /\ DOMAIN nn = DOMAIN nodes
          /\ \A p \in DOMAIN nodes : nn[p].children = nodes[p].children
          /\ \A p \in DOMAIN nodes : \A j \in 1 .. Len(nodes[p].children) :
               (nn[p].freed \/ LetGo(ww, p, j)) <=> (nodes[p].freed \/ LetGo(work, p, j))
      BY <1>10, <2>1, <2>2
    <2> HIDE DEF nn, ww
    <2>4. Places(nn, ww, m) = Places(nodes, work, m)
      BY <1>1, <2>3, PlacesSame
    <2> QED BY <2>4 DEF nn, ww
  <1>16. Counted(nodes', work', CueAlive', head', temp', holds')
    <2>1. CueAlive' = CueAlive
      BY <1>3 DEF CueAlive
    <2> SUFFICES ASSUME NEW m \in DOMAIN nodes \ {Empty}
                 PROVE  nodes'[m].refs = HeldBy(nodes', work', CueAlive', head', temp', holds', m)
      BY <1>10 DEF Counted
    <2>2. HeldBy(nodes', work', CueAlive', head', temp', holds', m) = HeldBy(nodes, work, CueAlive, head, temp, holds, m)
      BY <1>3, <1>15, <2>1 DEF HeldBy
    <2> QED BY <2>2, <1>1, <1>11 DEF Counted
  <1>17. at = "app"
    BY <1>1, <1>2 DEF Stages
  <1>18. Stages'
    <2>1. nodes'[Empty] = nodes[Empty] /\ Empty \in DOMAIN nodes'
      BY <1>1, <1>6, <1>10 DEF Stages
    <2> QED BY <2>1, <1>1, <1>3, <1>17 DEF Stages
  <1>19. FaultsKnown'
    <2>1. head' # Null /\ "head data" \notin faults' => Complete(nodes', head')
      BY <1>1, <1>3, <1>12 DEF FaultsKnown
    <2>2. \A h \in NodeObjects : holds'[h] # Null /\ "head data" \notin faults' => Complete(nodes', holds'[h])
      BY <1>1, <1>3, <1>12 DEF FaultsKnown
    <2>3. \A h \in NodeObjects : holds'[h] = Empty => "unset" \in faults'
      BY <1>1, <1>3 DEF FaultsKnown
    <2> QED BY <2>1, <2>2, <2>3, <1>3, <1>17 DEF FaultsKnown
  <1>20. TypeOK'
    <2>1. work' \in Seq((DOMAIN nodes') \X Nat)
      <3>1. \A k \in DOMAIN work' : work'[k][1] \in DOMAIN nodes'
        BY <1>13 DEF WorkSound
      <3> QED BY <3>1, <1>4, CallsTyped
    <2> QED BY <2>1, <1>1, <1>3, <1>10, <1>17, TypeMeansNext
  <1>21. IInv'
    <2>1. Exact' /\ at' # "undefined"
      BY <1>3, <1>12, <1>13, <1>14, <1>16, <1>17, <1>18, <1>19 DEF Exact
    <2> QED BY <2>1, <1>12, <1>20 DEF IInv, DefinedOtherwise
  <1>22. FreedSame
    BY <1>6, <1>10 DEF FreedSame
  <1> QED BY <1>21, <1>22

-----------------------------------------------------------------------------
(* The invariant is inductive.                                             *)

\* There is only empty_node at the start.
LEMMA InitSound ==
  ASSUME Init
  PROVE  IInv
  <1> DEFINE a == Node("EMPTY", Null, FALSE)
  <1>1. /\ a.kind = "EMPTY" /\ a.refs = 1 /\ a.parent = Null /\ ~a.data /\ a.children = << >>
        /\ a.alloc = 0 /\ ~a.freed
    BY DEF Node
  <1>2. a \in NodeSet
    <2>1. << >> \in Seq(Nat) /\ Null \in Nat
      BY DEF Null
    <2> QED BY <2>1 DEF Node, NodeSet
  <1>3. /\ nodes = <<a>> /\ at = "start" /\ head = Null /\ current = Null /\ temp = Null /\ langs = FALSE
        /\ faults = {} /\ cueRefs = 1 /\ cues = 0 /\ holds = [h \in NodeObjects |-> Null] /\ work = << >>
    BY DEF Init
  <1> HIDE DEF a
  <1>4. /\ nodes \in Seq(NodeSet) /\ Len(nodes) = 1 /\ DOMAIN nodes = {Empty} /\ nodes[Empty] = a
    BY <1>2, <1>3 DEF Empty
  <1>5. TypeOK
    <2>1. cues \in 0 .. MaxCues
      BY <1>3, BoundAssumption
    <2>2. work \in Seq((DOMAIN nodes) \X Nat) /\ holds \in [NodeObjects -> DOMAIN nodes \cup {Null}]
      BY <1>3
    <2> QED BY <1>3, <1>4, <2>1, <2>2, TypeMeans
  <1>6. ChildrenSound(nodes)
    <2>1. Len(a.children) = 0 /\ 0 <= MaxNodes
      BY <1>1, BoundAssumption
    <2> QED BY <1>1, <1>4, <2>1 DEF ChildrenSound
  <1>7. Stages
    BY <1>1, <1>3, <1>4 DEF Stages, Null, Empty
  <1>8. FaultsKnown
    BY <1>3 DEF FaultsKnown, Null, Empty
  <1>9. ParentsSound(nodes) /\ WorkSound(nodes, work) /\ FreedUnheld(nodes)
    <2>1. a.kind \notin InnerKinds
      BY <1>1 DEF InnerKinds
    <2> QED BY <2>1, <1>3, <1>4 DEF ParentsSound, WorkSound, Distinct, FreedUnheld
  <1>10. Counted(nodes, work, CueAlive, head, temp, holds)
    BY <1>4 DEF Counted
  <1> QED BY <1>3, <1>5, <1>6, <1>7, <1>8, <1>9, <1>10 DEF IInv, Exact, DefinedOtherwise

\* Nothing is modelled after undefined behaviour.
LEMMA NothingFollows ==
  ASSUME IInv, at = "undefined", Next
  PROVE  FALSE
  <1>1. work = << >> /\ at # "start" /\ at # "parsed" /\ ~Parsing /\ ~Running
    BY DEF IInv, Parsing, Running
  <1>2. ~Parse
    BY <1>1 DEF Parse, CreateHead, HeadFails, RubyText, UseReleased, ParseEnd, NodeFails, DataFails,
                OpenNode, CloseNode, AddLeaf, Create, Creating
  <1>3. ~Application
    BY <1>1 DEF Application, InvalidCue, ParsedCue, CopyCue, DestroyCue, NodeHead, ChildOfNothing,
                NodeOfNothing, DestroyNode, CopyNode, ChildOf
  <1>4. ~Release
    BY <1>1 DEF Release, ReleaseChild, ReleaseEnd
  <1> QED BY <1>2, <1>3, <1>4 DEF Next

\* Every step keeps the invariant, and leaves alone what was freed.
LEMMA NextStep ==
  ASSUME IInv, Next
  PROVE  IInv' /\ FreedSame
  <1>1. at # "undefined"
    BY NothingFollows
  <1>2. CASE Parse
    <2>1. CASE CreateHead
      BY <2>1, CreateHeadStep
    <2>2. CASE HeadFails
      <3>1. CASE nodes' = nodes
        BY <2>2, <3>1, HeadFailsStep
      <3>2. CASE nodes' # nodes
        BY <2>2, <3>2, CreateHeadStep
      <3> QED BY <3>1, <3>2
    <2>3. CASE RubyText
      BY <2>3, RubyTextStep
    <2>4. CASE UseReleased
      BY <2>4, UseReleasedStep
    <2>5. CASE ParseEnd
      BY <2>5, ParseEndStep
    <2>6. ASSUME NEW kind \in InnerKinds \cup Leaves, NodeFails(kind)
          PROVE  IInv' /\ FreedSame
      BY <2>6, NodeFailsStep
    <2>7. ASSUME NEW kind \in InnerKinds, DataFails(kind)
          PROVE  IInv' /\ FreedSame
      BY <2>7, DataFailsStep
    <2>8. ASSUME NEW kind \in InnerKinds, OpenNode(kind)
          PROVE  IInv' /\ FreedSame
      BY <2>8, OpenNodeStep
    <2>9. ASSUME NEW kind \in InnerKinds, CloseNode(kind)
          PROVE  IInv' /\ FreedSame
      BY <2>9, CloseNodeStep
    <2>10. ASSUME NEW kind \in Leaves, AddLeaf(kind)
           PROVE  IInv' /\ FreedSame
      BY <2>10, AddLeafStep
    <2> QED BY <1>2, <2>1, <2>2, <2>3, <2>4, <2>5, <2>6, <2>7, <2>8, <2>9, <2>10 DEF Parse
  <1>3. CASE Application
    <2>1. CASE InvalidCue
      BY <2>1, InvalidCueStep
    <2>2. CASE ParsedCue
      BY <2>2, ParsedCueStep
    <2>3. CASE CopyCue
      BY <2>3, CopyCueStep
    <2>4. CASE DestroyCue
      BY <2>4, DestroyCueStep
    <2>5. ASSUME NEW h \in NodeObjects, NodeHead(h)
          PROVE  IInv' /\ FreedSame
      BY <2>5, NodeHeadStep
    <2>6. ASSUME NEW h \in NodeObjects, ChildOfNothing(h)
          PROVE  IInv' /\ FreedSame
      BY <2>6, ChildOfNothingStep
    <2>7. ASSUME NEW h \in NodeObjects, NodeOfNothing(h)
          PROVE  IInv' /\ FreedSame
      BY <2>7, NodeOfNothingStep
    <2>8. ASSUME NEW h \in NodeObjects, DestroyNode(h)
          PROVE  IInv' /\ FreedSame
      BY <2>8, DestroyNodeStep
    <2>9. ASSUME NEW h \in NodeObjects, NEW g \in NodeObjects, CopyNode(h, g)
          PROVE  IInv' /\ FreedSame
      BY <2>9, CopyNodeStep
    <2>10. ASSUME NEW h \in NodeObjects, NEW g \in NodeObjects, ChildOf(h, g)
           PROVE  IInv' /\ FreedSame
      BY <2>10, ChildOfStep
    <2> QED BY <1>3, <2>1, <2>2, <2>3, <2>4, <2>5, <2>6, <2>7, <2>8, <2>9, <2>10 DEF Application
  <1>4. CASE Release
    BY <1>4, ReleaseChildStep, ReleaseEndStep DEF Release
  <1> QED BY <1>2, <1>3, <1>4 DEF Next

\* So does a step that changes nothing.
LEMMA StutterStep ==
  ASSUME IInv, UNCHANGED vars
  PROVE  IInv' /\ FreedSame
  <1>1. /\ nodes' = nodes /\ at' = at /\ head' = head /\ current' = current /\ temp' = temp
        /\ langs' = langs /\ faults' = faults /\ cueRefs' = cueRefs /\ cues' = cues /\ holds' = holds
        /\ work' = work
    BY DEF vars, local, objects
  <1>2. TypeOK' /\ DefinedOtherwise'
    <2>1. TypeOK /\ DefinedOtherwise
      BY DEF IInv
    <2> QED BY <1>1, <2>1 DEF TypeOK, DefinedOtherwise
  <1>3. at # "undefined" => Exact'
    <2> SUFFICES ASSUME Exact
                 PROVE  Exact'
      BY DEF IInv
    <2>1. Stages' /\ FaultsKnown' /\ CueAlive' = CueAlive
      BY <1>1 DEF Exact, Stages, FaultsKnown, CueAlive
    <2> QED BY <1>1, <2>1 DEF Exact
  <1> QED BY <1>1, <1>2, <1>3 DEF IInv, FreedSame

\* Any step, of the specification.
LEMMA AnyStep ==
  ASSUME IInv, [Next]_vars
  PROVE  IInv' /\ FreedSame
  BY NextStep, StutterStep

-----------------------------------------------------------------------------
(* What follows from it.                                                   *)

\* The places where a node is still held are the entries of the arrays that no active
\* call has passed.
LEMMA EntriesArePlaces ==
  ASSUME NEW n, nodes \in Seq(NodeSet), work \in Calls, Distinct(work)
  PROVE  Entries(n) = Places(nodes, work, n)
  <1>1. ASSUME NEW p, NEW j \in Nat, j > 0
        PROVE  ~LetGo(work, p, j) <=> Gone(p) + 1 <= j
    <2> DEFINE W == {k \in DOMAIN work : work[k][1] = p}
    <2>1. CASE W = {}
      <3>1. Gone(p) = 0 /\ ~LetGo(work, p, j)
        BY <2>1 DEF Gone, LetGo
      <3> QED BY <1>1, <3>1
    <2>2. CASE W # {}
      <3> DEFINE k0 == CHOOSE k \in W : TRUE
      <3>1. k0 \in W
        BY <2>2
      <3>2. Gone(p) = work[k0][2]
        BY <2>2 DEF Gone
      <3> HIDE DEF k0
      <3>3. k0 \in DOMAIN work /\ work[k0][1] = p /\ \A k \in W : k = k0
        BY <3>1 DEF Distinct
      <3>4. LetGo(work, p, j) <=> j <= work[k0][2]
        BY <3>3 DEF LetGo
      <3>5. work[k0][2] \in Nat
        BY <3>3 DEF Calls
      <3> QED BY <3>2, <3>4, <3>5
    <2> QED BY <2>1, <2>2
  <1>2. ASSUME NEW p \in DOMAIN nodes
        PROVE  Gone(p) \in Nat /\ Len(nodes[p].children) \in Nat
    <2> DEFINE W == {k \in DOMAIN work : work[k][1] = p}
    <2>1. \A k \in DOMAIN work : work[k][2] \in Nat
      BY DEF Calls
    <2>2. W # {} => (CHOOSE k \in W : TRUE) \in DOMAIN work
      OBVIOUS
    <2>3. nodes[p] \in NodeSet
      OBVIOUS
    <2> QED BY <2>1, <2>2, <2>3, NodeType DEF Gone
  <1> DEFINE D == (DOMAIN nodes) \X (1 .. MaxNodes)
  <1>3. ASSUME NEW e \in D
        PROVE  e \in Entries(n) <=> e \in Places(nodes, work, n)
    <2>1. e[1] \in DOMAIN nodes /\ e[2] \in Nat /\ e[2] > 0
      BY BoundAssumption
    <2>2. ~LetGo(work, e[1], e[2]) <=> Gone(e[1]) + 1 <= e[2]
      BY <2>1, <1>1
    <2>3. e[2] \in Gone(e[1]) + 1 .. Len(nodes[e[1]].children)
            <=> ~LetGo(work, e[1], e[2]) /\ e[2] <= Len(nodes[e[1]].children)
      BY <2>1, <2>2, <1>2
    <2> QED BY <2>3 DEF Entries, Places
  <1>4. Entries(n) \subseteq D /\ Places(nodes, work, n) \subseteq D
    BY DEF Entries, Places
  <1> HIDE DEF D
  <1> QED BY <1>3, <1>4

\* The counts of the invariant are those of CountsExact.
LEMMA CountsFollow ==
  ASSUME IInv
  PROVE  CountsExact
  <1> SUFFICES ASSUME at # "undefined"
               PROVE  /\ \A n \in DOMAIN nodes \ {Empty} :
                           nodes[n].refs = Cardinality(Entries(n)) + Count(CueAlive /\ head = n) + Count(temp = n)
                                           + Cardinality({h \in NodeObjects : holds[h] = n})
                      /\ at = "app" => cueRefs = cues
    BY DEF CountsExact
  <1>1. /\ Stages /\ nodes \in Seq(NodeSet) /\ TypeOK /\ WorkSound(nodes, work)
        /\ Counted(nodes, work, CueAlive, head, temp, holds)
    BY Defined
  <1>2. work \in Calls /\ Distinct(work)
    <2>1. work \in Seq((DOMAIN nodes) \X Nat)
      BY <1>1, TypeMeans
    <2>2. DOMAIN nodes \subseteq Nat
      BY <1>1
    <2> QED BY <1>1, <2>1, <2>2 DEF Calls, WorkSound
  <1>3. ASSUME NEW n \in DOMAIN nodes \ {Empty}
        PROVE  nodes[n].refs = Cardinality(Entries(n)) + Count(CueAlive /\ head = n) + Count(temp = n)
                               + Cardinality({h \in NodeObjects : holds[h] = n})
    <2>1. Entries(n) = Places(nodes, work, n)
      BY <1>1, <1>2, EntriesArePlaces
    <2> QED BY <2>1, <1>1 DEF Counted, HeldBy, Holders
  <1> QED BY <1>1, <1>3 DEF Stages

\* The invariant holds in every state.
THEOREM InvariantHolds == Spec => []IInv
  <1>1. Init => IInv
    BY InitSound
  <1>2. IInv /\ [Next]_vars => IInv'
    BY AnyStep
  <1> QED BY <1>1, <1>2, PTL DEF Spec

\* The variables of the tree, of the cue and of the objects have their types.
THEOREM TypeCorrect == Spec => []TypeOK
  <1>1. IInv => TypeOK
    BY DEF IInv
  <1> QED BY <1>1, InvariantHolds, PTL

\* A node counts exactly those who hold it, also in the middle of a release and after any
\* allocation that failed, and the cue those who hold it.
THEOREM CountsAreExact == Spec => []CountsExact
  <1>1. IInv => CountsExact
    BY CountsFollow
  <1> QED BY <1>1, InvariantHolds, PTL

\* Nothing happens to a node once it was freed.
THEOREM FreedStaysUntouched == Spec => FreedUntouched
  <1>1. IInv /\ [Next]_vars => [\A n \in DOMAIN nodes : nodes[n].freed => nodes'[n] = nodes[n]]_vars
    BY AnyStep DEF FreedSame
  <1> QED BY <1>1, InvariantHolds, PTL DEF Spec, FreedUntouched

\* The array of children is as large as what is stored in it, whatever its first size.
THEOREM ChildrenAlwaysFit == Spec => []ChildrenFit
  <1>1. IInv => ChildrenFit
    BY DEF IInv, ChildrenSound, ChildrenFit
  <1> QED BY <1>1, InvariantHolds, PTL

\* Undefined behaviour needs one of five failures.
THEOREM DefinedOtherwiseHolds == Spec => []DefinedOtherwise
  <1>1. IInv => DefinedOtherwise
    BY DEF IInv
  <1> QED BY <1>1, InvariantHolds, PTL

-----------------------------------------------------------------------------
(* What is left in memory, and what is open: two more facts that every     *)
(* step keeps when the invariant holds.                                    *)

\* Nothing is left that nobody holds, except for nodes that are being released.
Active(w, m) == \E k \in DOMAIN w : w[k][1] = m
NoneLeft(ns, w) == \A m \in DOMAIN ns \ {Empty} : ns[m].refs = 0 => ns[m].freed \/ Active(w, m)

\* Children are newer than their parents,
Newer(ns) == \A p \in DOMAIN ns : \A i \in 1 .. Len(ns[p].children) : p < ns[p].children[i]

\* and so are open nodes than those that they are in: from the current node one comes to
\* the head.
IsOpen(ns, hd, n) == n = hd \/ (n \in DOMAIN ns /\ ns[n].kind \in InnerKinds)
Chain(ns, hd, c) ==
  /\ hd = 2 /\ hd \in DOMAIN ns /\ ns[hd].kind = "HEAD" /\ ns[hd].parent = Null
  /\ IsOpen(ns, hd, c)
  /\ \A n \in DOMAIN ns : ns[n].kind \in InnerKinds => ns[n].parent < n /\ IsOpen(ns, hd, ns[n].parent)

Tidy ==
  /\ Len(nodes) <= MaxNodes \/ Len(nodes) <= 2
  /\ Newer(nodes)
  /\ at = "parse" => Chain(nodes, head, current)
  /\ at # "undefined" => NoneLeft(nodes, work)

\* A step that leaves the nodes alone.
LEMMA TidyStays ==
  ASSUME Tidy, at # "undefined", nodes' = nodes, work' = work, head' = head,
         at' = "parse" => /\ at = "parse" /\ current \in DOMAIN nodes
                          /\ \/ current' = current
                             \/ nodes[current].kind \in InnerKinds /\ current' = nodes[current].parent
  PROVE  Tidy'
  <1>1. at' = "parse" => Chain(nodes', head', current')
    BY DEF Tidy, Chain
  <1>2. at' # "undefined" => NoneLeft(nodes', work')
    BY DEF Tidy
  <1> QED BY <1>1, <1>2 DEF Tidy

\* An object takes a node.
LEMMA TidyTakes ==
  ASSUME IInv, Tidy, Running, at' # "parse", NEW n \in DOMAIN nodes, CountsMore(nodes, n, nodes'), work' = work
  PROVE  Tidy'
  <1>1. /\ DOMAIN nodes' = DOMAIN nodes /\ Len(nodes') = Len(nodes)
        /\ \A m \in DOMAIN nodes \ {n} : nodes'[m] = nodes[m]
        /\ nodes'[n].children = nodes[n].children /\ nodes'[n].refs = nodes[n].refs + 1
    BY DEF CountsMore
  <1>2. nodes[n].refs \in Nat /\ at = "app"
    <2>1. nodes \in Seq(NodeSet)
      BY Defined DEF Running
    <2>2. nodes[n] \in NodeSet
      BY <2>1
    <2> QED BY <2>2, NodeType DEF Running
  <1>3. NoneLeft(nodes', work')
    <2> SUFFICES ASSUME NEW m \in DOMAIN nodes \ {Empty}, nodes'[m].refs = 0
                 PROVE  nodes'[m].freed \/ Active(work, m)
      BY <1>1 DEF NoneLeft
    <2>1. m # n /\ nodes'[m] = nodes[m]
      BY <1>1, <1>2
    <2> QED BY <2>1, <1>2 DEF Tidy, NoneLeft
  <1>4. Newer(nodes')
    <2>1. \A p \in DOMAIN nodes : nodes'[p].children = nodes[p].children
      BY <1>1
    <2> QED BY <2>1, <1>1 DEF Newer, Tidy
  <1> QED BY <1>1, <1>3, <1>4 DEF Tidy

\* Somebody lets go of a node: if it was the last, the node is freed or its release is
\* under way.
LEMMA TidyReleases ==
  ASSUME IInv, Tidy, at # "undefined", at' # "parse", NEW n \in DOMAIN nodes, nodes[n].refs > 0,
         NEW w \in Calls, NoneLeft(nodes, w),
         nodes' = Released(nodes, w, n)[1], work' = Released(nodes, w, n)[2]
  PROVE  Tidy'
  <1>1. nodes \in Seq(NodeSet)
    BY Defined
  <1>2. DropsTo(nodes, w, n, nodes', work')
    BY <1>1, ReleasedFields
  <1>3. /\ DOMAIN nodes' = DOMAIN nodes /\ Len(nodes') = Len(nodes)
        /\ \A m \in DOMAIN nodes \ {n} : nodes'[m] = nodes[m]
        /\ nodes'[n].children = nodes[n].children /\ nodes'[n].refs = nodes[n].refs - 1
        /\ nodes'[n].freed <=> (nodes[n].freed \/ (nodes[n].refs = 1 /\ ~nodes[n].data))
        /\ IF nodes[n].refs = 1 /\ nodes[n].data THEN work' = Append(w, <<n, 0>>) ELSE work' = w
    BY <1>2 DEF DropsTo
  <1>4. nodes[n].refs \in Nat
    BY <1>1, NodeType
  <1>5. \A m : Active(w, m) => Active(work', m)
    <2>1. CASE work' = w
      BY <2>1
    <2>2. CASE work' = Append(w, <<n, 0>>)
      <3>1. DOMAIN w = 1 .. Len(w) /\ Len(w) \in Nat /\ <<n, 0>> \in Nat \X Nat
        BY <1>1 DEF Calls
      <3>2. \A k \in DOMAIN w : k \in DOMAIN work' /\ work'[k] = w[k]
        BY <2>2, <3>1, OneLonger DEF Calls
      <3> QED BY <3>2 DEF Active
    <2> QED BY <1>3, <2>1, <2>2
  <1>6. NoneLeft(nodes', work')
    <2> SUFFICES ASSUME NEW m \in DOMAIN nodes \ {Empty}, nodes'[m].refs = 0
                 PROVE  nodes'[m].freed \/ Active(work', m)
      BY <1>3 DEF NoneLeft
    <2>1. CASE m # n
      <3>1. nodes'[m] = nodes[m]
        BY <2>1, <1>3
      <3> QED BY <3>1, <1>5 DEF NoneLeft
    <2>2. CASE m = n /\ ~nodes[n].data
      BY <2>2, <1>3, <1>4
    <2>3. CASE m = n /\ nodes[n].data
      <3>1. work' = Append(w, <<n, 0>>)
        BY <2>3, <1>3, <1>4
      <3>2. <<n, 0>> \in Nat \X Nat
        BY <1>1
      <3>3. Len(w) + 1 \in DOMAIN work' /\ work'[Len(w) + 1] = <<n, 0>>
        BY <3>1, <3>2, OneLonger DEF Calls
      <3> QED BY <2>3, <3>3 DEF Active
    <2> QED BY <2>1, <2>2, <2>3
  <1>7. Newer(nodes')
    <2>1. \A p \in DOMAIN nodes : nodes'[p].children = nodes[p].children
      BY <1>3
    <2> QED BY <2>1, <1>3 DEF Newer, Tidy
  <1> QED BY <1>3, <1>6, <1>7 DEF Tidy

\* A token makes a node, which stays, is freed, or is left in temp_node.
LEMMA TidyGrows ==
  ASSUME IInv, Tidy, Parsing, Len(nodes) < MaxNodes, NEW attached \in BOOLEAN,
         Extends(nodes, current, attached, nodes'), head' = head, work' = work,
         \/ current' = current
         \/ current' = New /\ nodes'[New].kind \in InnerKinds,
         nodes'[New].refs = 0 => nodes'[New].freed
  PROVE  Tidy'
  <1>0. /\ nodes \in Seq(NodeSet) /\ ChildrenSound(nodes) /\ ParentsSound(nodes) /\ Stages
        /\ at = "parse" /\ work = << >> /\ current \in DOMAIN nodes
        /\ nodes[current].data /\ New = Len(nodes) + 1
    BY Defined, ParsingMeans DEF Parsing
  <1>1. /\ DOMAIN nodes = 1 .. Len(nodes) /\ DOMAIN nodes' = 1 .. New /\ Len(nodes) \in Nat
        /\ Len(nodes') = New /\ Len(nodes) > 0 /\ MaxNodes \in Nat /\ current \in Nat
        /\ New = Len(nodes) + 1
    BY <1>0, BoundAssumption DEF Extends, Stages, Empty
  <1>2. /\ \A m \in DOMAIN nodes \ {current} : nodes'[m] = nodes[m]
        /\ SameNode(nodes'[current], nodes[current]) /\ nodes'[current].refs = nodes[current].refs
        /\ nodes'[current].freed = nodes[current].freed
        /\ IF attached THEN nodes'[current].children = Append(nodes[current].children, New)
           ELSE nodes'[current].children = nodes[current].children
        /\ nodes'[New].children = << >>
        /\ nodes'[New].kind \in InnerKinds => nodes'[New].parent = current
    BY <1>0 DEF Extends
  <1>3. \A m \in DOMAIN nodes : SameNode(nodes'[m], nodes[m]) /\ nodes'[m].refs = nodes[m].refs
                               /\ nodes'[m].freed = nodes[m].freed
    BY <1>2 DEF SameNode
  <1>4. Newer(nodes')
    <2> SUFFICES ASSUME NEW p \in DOMAIN nodes', NEW i \in 1 .. Len(nodes'[p].children)
                 PROVE  p < nodes'[p].children[i]
      BY DEF Newer
    <2>1. CASE p = New
      BY <2>1, <1>2
    <2>2. CASE p # New /\ nodes'[p].children = nodes[p].children
      BY <2>2, <1>1 DEF Newer, Tidy
    <2>3. CASE p # New /\ nodes'[p].children # nodes[p].children
      <3>1. p = current /\ nodes'[p].children = Append(nodes[p].children, New) /\ p \in DOMAIN nodes
        BY SMTT(20), <2>3, <1>1, <1>2
      <3>2. nodes[p] \in NodeSet
        BY <3>1, <1>0
      <3>3. nodes[p].children \in Seq(Nat) /\ New \in Nat
        BY <3>2, <1>0, <1>1, NodeType
      <3>4. Len(nodes'[p].children) = Len(nodes[p].children) + 1 /\ Len(nodes[p].children) \in Nat
        BY <3>1, <3>3
      <3>5. CASE i = Len(nodes[p].children) + 1
        <4>1. nodes'[p].children[i] = New
          BY <3>1, <3>3, <3>5, OneLonger
        <4> QED BY <4>1, <3>1, <1>0, <1>1
      <3>6. CASE i \in 1 .. Len(nodes[p].children)
        <4>1. nodes'[p].children[i] = nodes[p].children[i]
          BY <3>1, <3>3, <3>6, OneLonger
        <4> QED BY <4>1, <3>1, <3>6 DEF Newer, Tidy
      <3> QED BY <3>4, <3>5, <3>6
    <2> QED BY <2>1, <2>2, <2>3
  <1>5. NoneLeft(nodes', work')
    <2> SUFFICES ASSUME NEW m \in DOMAIN nodes' \ {Empty}, nodes'[m].refs = 0
                 PROVE  nodes'[m].freed \/ Active(work, m)
      BY DEF NoneLeft
    <2>1. CASE m = New
      BY <2>1
    <2>2. CASE m # New
      <3>1. m \in DOMAIN nodes
        BY <2>2, <1>1
      <3> QED BY <3>1, <1>0, <1>3 DEF Tidy, NoneLeft
    <2> QED BY <2>1, <2>2
  <1>6. Chain(nodes', head, current')
    <2>1. Chain(nodes, head, current)
      BY <1>0 DEF Tidy
    <2>2. \A n : IsOpen(nodes, head, n) => IsOpen(nodes', head, n)
      BY <1>1, <1>3, <2>1 DEF IsOpen, SameNode
    <2>3. head = 2 /\ head \in DOMAIN nodes' /\ nodes'[head].kind = "HEAD" /\ nodes'[head].parent = Null
      BY <2>1, <1>1, <1>3 DEF Chain, SameNode
    <2>4. IsOpen(nodes', head, current) /\ IsOpen(nodes', head, current')
      BY <2>1, <2>2, <1>1 DEF Chain, IsOpen
    <2>5. ASSUME NEW n \in DOMAIN nodes', nodes'[n].kind \in InnerKinds
          PROVE  nodes'[n].parent < n /\ IsOpen(nodes', head, nodes'[n].parent)
      <3>1. CASE n = New
        BY <3>1, <2>4, <2>5, <1>1, <1>2, <1>0
      <3>2. CASE n # New
        <4>1. n \in DOMAIN nodes /\ nodes[n].kind \in InnerKinds /\ nodes'[n].parent = nodes[n].parent
          BY <3>2, <2>5, <1>1, <1>3 DEF SameNode
        <4> QED BY <4>1, <2>1, <2>2 DEF Chain
      <3> QED BY <3>1, <3>2
    <2> QED BY <2>3, <2>4, <2>5 DEF Chain
  <1>7. Len(nodes') <= MaxNodes
    BY <1>1, <1>0
  <1> QED BY <1>4, <1>5, <1>6, <1>7 DEF Tidy

\* The head is the second node, with data or without.
LEMMA TidyHead ==
  ASSUME IInv, Tidy, at = "start", work' = work, at' # "undefined",
         NEW d \in BOOLEAN, nodes' = Append(nodes, Node("HEAD", Null, d)), head' = New,
         at' = "parse" => current' = New
  PROVE  Tidy'
  <1> DEFINE a == Node("HEAD", Null, d)
  <1>1. /\ nodes \in Seq(NodeSet) /\ Len(nodes) = 1 /\ work = << >> /\ Empty \in DOMAIN nodes
        /\ nodes[Empty].kind = "EMPTY" /\ New = 2 /\ ChildrenSound(nodes)
    <2>1. at # "undefined" /\ at # "app"
      OBVIOUS
    <2>2. Stages /\ nodes \in Seq(NodeSet) /\ ChildrenSound(nodes)
      BY <2>1, Defined
    <2>3. Len(nodes) = 1 /\ work = << >> /\ Empty \in DOMAIN nodes /\ nodes[Empty].kind = "EMPTY"
      BY <2>1, <2>2 DEF Stages
    <2>4. New = 2
      BY <2>3 DEF New
    <2> QED BY <2>2, <2>3, <2>4
  <1>2. a \in NodeSet /\ a.kind = "HEAD" /\ a.refs = 1 /\ a.parent = Null /\ a.children = << >>
    BY NewNode DEF Internal, Null
  <1>3. nodes' = Append(nodes, a)
    OBVIOUS
  <1> HIDE DEF a
  <1>4. AppendsTo(nodes, a, nodes')
    BY <1>1, <1>2, <1>3, Appended
  <1>5. DOMAIN nodes' = 1 .. 2 /\ Len(nodes') = 2 /\ nodes'[1] = nodes[1] /\ nodes'[2] = a
    BY <1>1, <1>4 DEF AppendsTo
  <1>6. Newer(nodes')
    <2>1. DOMAIN nodes = 1 .. 1 /\ nodes[1] \in NodeSet
      BY <1>1
    <2>2. Len(nodes[1].children) < 1 /\ Len(nodes[1].children) \in Nat
      BY <1>1, <2>1, NodeType DEF ChildrenSound
    <2> QED BY <2>2, <1>2, <1>5 DEF Newer
  <1>7. NoneLeft(nodes', work')
    BY <1>2, <1>5 DEF NoneLeft, Empty
  <1>8. at' = "parse" => Chain(nodes', head', current')
    BY <1>1, <1>2, <1>5 DEF Chain, IsOpen, InnerKinds, Empty
  <1> QED BY <1>5, <1>6, <1>7, <1>8 DEF Tidy

\* The calls that are active, and the innermost of them.
LEMMA InnermostCall ==
  ASSUME IInv, work # << >>
  PROVE  /\ at = "app" /\ work \in Calls /\ nodes \in Seq(NodeSet)
         /\ Len(work) \in Nat /\ Len(work) > 0 /\ DOMAIN work = 1 .. Len(work)
         /\ Last(work) = work[Len(work)] /\ Last(work)[2] \in Nat /\ Last(work)[1] \in DOMAIN nodes \ {Empty}
         /\ ~nodes[Last(work)[1]].freed
  <1>1. at # "undefined"
    BY DEF IInv
  <1>2. nodes \in Seq(NodeSet) /\ WorkSound(nodes, work) /\ Stages /\ TypeOK
    BY <1>1, Defined
  <1>3. work \in Calls
    <2>1. work \in Seq((DOMAIN nodes) \X Nat) /\ DOMAIN nodes \subseteq Nat
      BY <1>2, TypeMeans
    <2> QED BY <2>1 DEF Calls
  <1>4. /\ Len(work) \in Nat /\ Len(work) > 0 /\ DOMAIN work = 1 .. Len(work)
        /\ Last(work) = work[Len(work)] /\ Last(work)[2] \in Nat
    BY <1>3, LastCall
  <1>5. Last(work)[1] \in DOMAIN nodes \ {Empty} /\ ~nodes[Last(work)[1]].freed
    BY <1>2, <1>4 DEF WorkSound
  <1> QED BY <1>2, <1>3, <1>4, <1>5 DEF Stages

\* A call goes on: its next child is held until then.
LEMMA TidyReleaseChild ==
  ASSUME IInv, Tidy, ReleaseChild
  PROVE  Tidy'
  <1> DEFINE n == Last(work)[1]
             i == Last(work)[2]
             w == Append(Front(work), <<n, i + 1>>)
             c == nodes[n].children[i + 1]
  <1>1. /\ work # << >> /\ i < Len(nodes[n].children) /\ at' = at
        /\ nodes' = Released(nodes, w, c)[1] /\ work' = Released(nodes, w, c)[2]
    BY DEF ReleaseChild, ReleaseNode
  <1>2. /\ at = "app" /\ work \in Calls /\ nodes \in Seq(NodeSet)
        /\ Len(work) \in Nat /\ Len(work) > 0 /\ DOMAIN work = 1 .. Len(work)
        /\ Last(work) = work[Len(work)] /\ i \in Nat /\ n \in DOMAIN nodes \ {Empty} /\ ~nodes[n].freed
    BY <1>1, InnermostCall
  <1>3. GoesOn(work, w)
    BY <1>1, <1>2, GoesOnNext
  <1> HIDE DEF w
  <1>4. /\ w \in Calls /\ DOMAIN w = 1 .. Len(work)
        /\ \A k \in 1 .. Len(work) - 1 : w[k] = work[k]
        /\ w[Len(work)] = <<n, i + 1>>
    BY <1>2, <1>3 DEF GoesOn
  <1>5. /\ ChildrenSound(nodes) /\ WorkSound(nodes, work) /\ FreedUnheld(nodes)
        /\ Counted(nodes, work, CueAlive, head, temp, holds)
    BY <1>2, Defined
  <1>6. i + 1 \in 1 .. Len(nodes[n].children) /\ i + 1 \in 1 .. MaxNodes
    <2>1. nodes[n] \in NodeSet
      BY <1>2
    <2>2. Len(nodes[n].children) \in Nat /\ Len(nodes[n].children) <= MaxNodes
      BY <2>1, <1>2, <1>5, NodeType DEF ChildrenSound
    <2> QED BY SMTT(20), <2>2, <1>1, <1>2, BoundAssumption
  <1>7. c \in DOMAIN nodes \ {Empty}
    BY <1>2, <1>5, <1>6 DEF ChildrenSound
  <1>8. ~LetGo(work, n, i + 1)
    <2> SUFFICES ASSUME NEW k \in DOMAIN work, work[k][1] = n, i + 1 <= work[k][2]
                 PROVE  FALSE
      BY DEF LetGo
    <2>1. k = Len(work)
      BY <1>2, <1>5 DEF WorkSound, Distinct
    <2> QED BY <2>1, <1>2
  <1>9. nodes[c].refs > 0
    <2>1. <<n, i + 1>> \in Places(nodes, work, c)
      BY <1>2, <1>6, <1>8 DEF Places
    <2>2. CueAlive \in BOOLEAN
      BY DEF CueAlive
    <2> HIDE DEF c
    <2> QED BY <2>1, <2>2, <1>2, <1>5, <1>7, HeldCounts
  <1>10. NoneLeft(nodes, w)
    <2>1. \A m : Active(work, m) => Active(w, m)
      <3> SUFFICES ASSUME NEW k \in DOMAIN work
                   PROVE  k \in DOMAIN w /\ w[k][1] = work[k][1]
        BY DEF Active
      <3>1. CASE k = Len(work)
        BY <3>1, <1>2, <1>4
      <3>2. CASE k # Len(work)
        BY <3>2, <1>2, <1>4
      <3> QED BY <3>1, <3>2
    <2> QED BY <2>1, <1>2 DEF Tidy, NoneLeft
  <1> HIDE DEF c, n, i
  <1> QED BY <1>1, <1>2, <1>4, <1>7, <1>9, <1>10, TidyReleases

\* A call ends, and its node with it.
LEMMA TidyReleaseEnd ==
  ASSUME IInv, Tidy, ReleaseEnd
  PROVE  Tidy'
  <1> DEFINE n == Last(work)[1]
             l == Len(work)
  <1>1. /\ work # << >> /\ nodes' = [nodes EXCEPT ![n].freed = TRUE] /\ work' = Front(work) /\ at' = at
    BY DEF ReleaseEnd
  <1>2. /\ at = "app" /\ work \in Calls /\ nodes \in Seq(NodeSet) /\ n \in DOMAIN nodes
        /\ l \in Nat /\ l > 0 /\ DOMAIN work = 1 .. l /\ work[l][1] = n
    BY <1>1, InnermostCall
  <1>3. DOMAIN work' = 1 .. l - 1 /\ \A k \in 1 .. l - 1 : work'[k] = work[k]
    BY <1>1, <1>2, LastCall
  <1> HIDE DEF n, l
  <1> DEFINE a == AsFreed(nodes[n])
  <1>4. a \in NodeSet /\ a.freed /\ a.children = nodes[n].children
    <2>1. nodes[n] \in NodeSet
      BY <1>2
    <2> QED BY <2>1, NodeAsFreed
  <1>5. nodes' = [nodes EXCEPT ![n] = a]
    BY <1>1 DEF AsFreed
  <1> HIDE DEF a
  <1>6. /\ DOMAIN nodes' = DOMAIN nodes /\ Len(nodes') = Len(nodes)
        /\ \A m \in DOMAIN nodes : nodes'[m] = IF m = n THEN a ELSE nodes[m]
    BY <1>2, <1>4, <1>5, Replaced
  <1>7. NoneLeft(nodes', work')
    <2> SUFFICES ASSUME NEW m \in DOMAIN nodes \ {Empty}, m # n, nodes[m].refs = 0, ~nodes[m].freed
                 PROVE  Active(work', m)
      BY <1>4, <1>6 DEF NoneLeft
    <2>1. PICK k \in DOMAIN work : work[k][1] = m
      BY <1>2 DEF Tidy, NoneLeft, Active
    <2>2. k \in 1 .. l - 1
      BY <2>1, <1>2
    <2> QED BY <2>1, <2>2, <1>3 DEF Active
  <1>8. Newer(nodes')
    <2>1. \A p \in DOMAIN nodes : nodes'[p].children = nodes[p].children
      BY <1>4, <1>6
    <2> QED BY <2>1, <1>6 DEF Newer, Tidy
  <1> QED BY <1>1, <1>2, <1>6, <1>7, <1>8 DEF Tidy

\* The cue lets go of the head, if it has one.
LEMMA TidyCueEnd ==
  ASSUME IInv, Tidy, at \in {"parsed", "app"}, at' = "app", cueRefs = 1, work = << >>,
         ReleaseHead, head' = head
  PROVE  Tidy'
  <1>1. at # "undefined"
    OBVIOUS
  <1>2. /\ Stages /\ nodes \in Seq(NodeSet) /\ head \in DOMAIN nodes \cup {Null} /\ FreedUnheld(nodes)
        /\ Counted(nodes, work, CueAlive, head, temp, holds)
    BY <1>1, Defined
  <1>3. CASE head = Null
    BY <1>3, TidyStays DEF ReleaseHead
  <1>4. CASE head # Null
    <2>1. nodes' = Released(nodes, work, head)[1] /\ work' = Released(nodes, work, head)[2]
      BY <1>4 DEF ReleaseHead, ReleaseNode
    <2>2. head \in DOMAIN nodes \ {Empty} /\ CueAlive
      BY <1>2, <1>4 DEF Stages, CueAlive
    <2>3. nodes[head].refs > 0
      BY <1>2, <2>2, HeldCounts
    <2>4. work \in Calls /\ NoneLeft(nodes, work)
      BY DEF Calls, Tidy
    <2> QED BY <2>1, <2>2, <2>3, <2>4, TidyReleases
  <1> QED BY <1>3, <1>4

\* An object lets go of its node.
LEMMA TidyDestroyNode ==
  ASSUME IInv, Tidy, NEW h \in NodeObjects, DestroyNode(h)
  PROVE  Tidy'
  <1> DEFINE n == holds[h]
  <1>1. /\ at = "app" /\ work = << >> /\ n # Null /\ at' # "parse"
        /\ nodes' = Released(nodes, work, n)[1] /\ work' = Released(nodes, work, n)[2]
    BY DEF DestroyNode, Running, ReleaseNode
  <1>2. /\ Stages /\ nodes \in Seq(NodeSet) /\ holds \in [NodeObjects -> DOMAIN nodes \cup {Null}]
        /\ FreedUnheld(nodes) /\ Counted(nodes, work, CueAlive, head, temp, holds)
    BY <1>1, Defined
  <1>3. n \in DOMAIN nodes /\ CueAlive \in BOOLEAN
    BY <1>1, <1>2 DEF CueAlive
  <1>4. nodes[n].refs > 0
    <2>1. CASE n = Empty
      BY <2>1, <1>2 DEF Stages
    <2>2. CASE n # Empty
      BY <2>2, <1>2, <1>3, HeldCounts
    <2> QED BY <2>1, <2>2
  <1>5. work \in Calls /\ NoneLeft(nodes, work)
    BY <1>1 DEF Calls, Tidy
  <1> QED BY <1>1, <1>3, <1>4, <1>5, TidyReleases

\* The tokens that make a node.
LEMMA TidyAttach ==
  ASSUME IInv, Tidy, NEW kind \in InnerKinds \cup Leaves, Create(kind),
         \/ nodes' = Dropped(Attached(Created(kind), current, New))
         \/ \E ns \in Refused(Created(kind), current) : nodes' = Dropped(ns),
         current' = current \/ (current' = New /\ kind \in InnerKinds)
  PROVE  Tidy'
  <1>1. Parsing /\ Len(nodes) < MaxNodes /\ head' = head /\ work' = work
    BY DEF Create, Creating
  <1>2. nodes \in Seq(NodeSet) /\ current \in DOMAIN nodes /\ ChildrenSound(nodes)
    BY <1>1, ParsingMeans
  <1>3. kind \in Internal \cup Leaves
    BY DEF Internal
  <1>4. CASE nodes' = Dropped(Attached(Created(kind), current, New))
    <2>1. AttachedNew(kind, nodes')
      BY <1>2, <1>3, <1>4, CreatedAttached
    <2>2. Extends(nodes, current, TRUE, nodes') /\ nodes'[New].kind = kind /\ nodes'[New].refs = 1
      BY <2>1 DEF AttachedNew
    <2>3. TRUE \in BOOLEAN /\ ~(nodes'[New].refs = 0)
      BY <2>2
    <2> QED BY <1>1, <2>2, <2>3, TidyGrows
  <1>5. ASSUME NEW r \in Refused(Created(kind), current), nodes' = Dropped(r)
        PROVE  Tidy'
    <2>1. RefusedNew(kind, nodes')
      BY <1>2, <1>3, <1>5, CreatedRefused
    <2>2. Extends(nodes, current, FALSE, nodes') /\ nodes'[New].kind = kind /\ nodes'[New].freed
      BY <2>1 DEF RefusedNew
    <2>3. FALSE \in BOOLEAN
      OBVIOUS
    <2> QED BY <1>1, <2>2, <2>3, TidyGrows
  <1> QED BY <1>4, <1>5

\* Every action of the parser,
LEMMA TidyParse ==
  ASSUME IInv, Tidy, Parse
  PROVE  Tidy'
  <1>1. CASE CreateHead
    <2> DEFINE d == TRUE
    <2>1. /\ at = "start" /\ at' = "parse" /\ work' = work
          /\ nodes' = Append(nodes, Node("HEAD", Null, d)) /\ head' = New /\ current' = New
      BY <1>1 DEF CreateHead
    <2>2. d \in BOOLEAN
      OBVIOUS
    <2> HIDE DEF d
    <2> QED BY <2>1, <2>2, TidyHead
  <1>2. CASE HeadFails
    <2> DEFINE d == FALSE
    <2>1. at = "start" /\ at' = "parsed" /\ work' = work /\ d \in BOOLEAN
      BY <1>2 DEF HeadFails
    <2>2. \/ nodes' = nodes /\ head' = head
          \/ nodes' = Append(nodes, Node("HEAD", Null, d)) /\ head' = New
      BY <1>2 DEF HeadFails
    <2> HIDE DEF d
    <2> QED BY <2>1, <2>2, TidyHead, TidyStays
  <1>3. CASE RubyText
    <2>1. Parsing /\ Len(nodes) < MaxNodes /\ Extends(nodes, current, FALSE, nodes') /\ nodes'[New].freed
      BY <1>3, RubyTextFields
    <2>2. head' = head /\ work' = work /\ current' = current /\ FALSE \in BOOLEAN
      BY <1>3 DEF RubyText, Create
    <2> QED BY <2>1, <2>2, TidyGrows
  <1>4. CASE UseReleased \/ ParseEnd
    <2>1. at # "undefined" /\ at' # "parse" /\ nodes' = nodes /\ work' = work /\ head' = head
      BY <1>4 DEF UseReleased, ParseEnd, Parsing
    <2> QED BY <2>1, TidyStays
  <1>5. ASSUME NEW kind \in InnerKinds \cup Leaves, NodeFails(kind)
        PROVE  Tidy'
    <2>1. /\ Parsing /\ at = "parse" /\ nodes' = nodes /\ work' = work /\ head' = head /\ current' = current
      BY <1>5 DEF NodeFails, Creating, Parsing, local
    <2>2. current \in DOMAIN nodes
      BY <2>1, ParsingMeans
    <2> QED BY <2>1, <2>2, TidyStays
  <1>6. ASSUME NEW kind \in InnerKinds, DataFails(kind)
        PROVE  Tidy'
    <2>1. /\ Parsing /\ Len(nodes) < MaxNodes /\ Extends(nodes, current, FALSE, nodes')
          /\ nodes'[New].refs = 1
      BY <1>6, DataFailsFields
    <2>2. head' = head /\ work' = work /\ current' = current /\ FALSE \in BOOLEAN /\ ~(nodes'[New].refs = 0)
      BY <2>1, <1>6 DEF DataFails
    <2> QED BY <2>1, <2>2, TidyGrows
  <1>7. ASSUME NEW kind \in InnerKinds, OpenNode(kind)
        PROVE  Tidy'
    <2>1. /\ Create(kind) /\ current' = New
          /\ \/ nodes' = Dropped(Attached(Created(kind), current, New))
             \/ \E ns \in Refused(Created(kind), current) : nodes' = Dropped(ns)
      BY <1>7 DEF OpenNode
    <2> QED BY <2>1, TidyAttach
  <1>8. ASSUME NEW kind \in InnerKinds, CloseNode(kind)
        PROVE  Tidy'
    <2>1. /\ Parsing /\ at = "parse" /\ nodes' = nodes /\ work' = work /\ head' = head
          /\ nodes[current].kind \in InnerKinds /\ current' = nodes[current].parent
      BY <1>8 DEF CloseNode, Parsing, objects, InnerKinds
    <2>2. current \in DOMAIN nodes
      BY <2>1, ParsingMeans
    <2> QED BY <2>1, <2>2, TidyStays
  <1>9. ASSUME NEW kind \in Leaves, AddLeaf(kind)
        PROVE  Tidy'
    <2>1. /\ Create(kind) /\ current' = current
          /\ \/ nodes' = Dropped(Attached(Created(kind), current, New))
             \/ \E ns \in Refused(Created(kind), current) : nodes' = Dropped(ns)
      BY <1>9 DEF AddLeaf
    <2> QED BY <2>1, TidyAttach
  <1> QED BY <1>1, <1>2, <1>3, <1>4, <1>5, <1>6, <1>7, <1>8, <1>9 DEF Parse

\* and of the application.
LEMMA TidyApplication ==
  ASSUME IInv, Tidy, Application
  PROVE  Tidy'
  <1>1. CASE InvalidCue
    <2>1. at = "parsed" /\ at' = "app" /\ ReleaseHead /\ head' = head
      BY <1>1 DEF InvalidCue
    <2>2. at # "undefined" /\ at # "app"
      BY <2>1
    <2>3. Stages
      BY <2>2, Defined
    <2>4. cueRefs = 1 /\ work = << >>
      BY <2>1, <2>2, <2>3 DEF Stages
    <2> QED BY <2>1, <2>4, TidyCueEnd
  <1>2. CASE ParsedCue \/ CopyCue \/ \E h \in NodeObjects : ChildOfNothing(h)
    <2>1. at # "undefined" /\ at' # "parse" /\ nodes' = nodes /\ work' = work /\ head' = head
      BY <1>2 DEF ParsedCue, CopyCue, ChildOfNothing, Running, Kept, objects
    <2> QED BY <2>1, TidyStays
  <1>3. CASE DestroyCue
    <2>1. /\ at = "app" /\ at' = "app" /\ work = << >> /\ head' = head
          /\ IF cueRefs = 1 THEN ReleaseHead ELSE nodes' = nodes /\ work' = work
      BY <1>3 DEF DestroyCue, Running, Kept
    <2>2. CASE cueRefs = 1
      BY <2>1, <2>2, TidyCueEnd
    <2>3. CASE cueRefs # 1
      BY <2>1, <2>3, TidyStays
    <2> QED BY <2>2, <2>3
  <1>4. ASSUME NEW h \in NodeObjects, NEW n \in DOMAIN nodes, Running, Hold(h, n)
        PROVE  Tidy'
    <2>1. nodes' = [nodes EXCEPT ![n].refs = @ + 1] /\ work' = work /\ at' # "parse"
      BY <1>4 DEF Hold, Kept, Running
    <2>2. nodes \in Seq(NodeSet)
      BY <1>4, Defined DEF Running
    <2>3. CountsMore(nodes, n, nodes')
      BY <2>1, <2>2, CountsOneMore
    <2> QED BY <1>4, <2>1, <2>3, TidyTakes
  <1>5. at # "undefined" => /\ nodes \in Seq(NodeSet) /\ head \in DOMAIN nodes \cup {Null} /\ ChildrenSound(nodes)
                            /\ holds \in [NodeObjects -> DOMAIN nodes \cup {Null}] /\ Stages
    BY Defined
  <1>6. ASSUME NEW h \in NodeObjects, NodeHead(h)
        PROVE  Tidy'
    <2>1. Running /\ head # Null /\ Hold(h, head)
      BY <1>6 DEF NodeHead
    <2>2. head \in DOMAIN nodes
      BY <2>1, <1>5 DEF Running
    <2> QED BY <2>1, <2>2, <1>4
  <1>7. ASSUME NEW h \in NodeObjects, NEW g \in NodeObjects, CopyNode(h, g)
        PROVE  Tidy'
    <2>1. Running /\ holds[g] # Null /\ Hold(h, holds[g])
      BY <1>7 DEF CopyNode
    <2>2. holds[g] \in DOMAIN nodes
      BY <2>1, <1>5 DEF Running
    <2> QED BY <2>1, <2>2, <1>4
  <1>8. ASSUME NEW h \in NodeObjects, NEW g \in NodeObjects, ChildOf(h, g)
        PROVE  Tidy'
    <2>1. Running /\ holds[g] # Null
      BY <1>8 DEF ChildOf
    <2>2. holds[g] \in DOMAIN nodes /\ nodes \in Seq(NodeSet) /\ ChildrenSound(nodes)
      BY <2>1, <1>5 DEF Running
    <2>3. PICK i \in DOMAIN nodes[holds[g]].children : Hold(h, nodes[holds[g]].children[i])
      BY <1>8 DEF ChildOf
    <2>4. nodes[holds[g]] \in NodeSet
      BY <2>2
    <2>5. nodes[holds[g]].children \in Seq(Nat)
      BY <2>4, NodeType
    <2>6. i \in 1 .. Len(nodes[holds[g]].children)
      BY <2>5
    <2>7. nodes[holds[g]].children[i] \in DOMAIN nodes
      BY <2>2, <2>6 DEF ChildrenSound
    <2> QED BY <2>1, <2>3, <2>7, <1>4
  <1>9. ASSUME NEW h \in NodeObjects, NodeOfNothing(h)
        PROVE  Tidy'
    <2>1. /\ Running /\ at # "undefined" /\ at' # "parse" /\ work' = work /\ head' = head
          /\ nodes' = nodes \/ nodes' = [nodes EXCEPT ![Empty].refs = @ + 1]
      BY <1>9 DEF NodeOfNothing, Running
    <2>2. Empty \in DOMAIN nodes /\ nodes \in Seq(NodeSet)
      BY <2>1, <1>5 DEF Stages
    <2>3. CASE nodes' = nodes
      BY <2>1, <2>3, TidyStays
    <2>4. CASE nodes' = [nodes EXCEPT ![Empty].refs = @ + 1]
      <3>1. CountsMore(nodes, Empty, nodes')
        BY <2>2, <2>4, CountsOneMore
      <3> QED BY <2>1, <2>2, <3>1, TidyTakes
    <2> QED BY <2>1, <2>3, <2>4
  <1> QED BY <1>1, <1>2, <1>3, <1>6, <1>7, <1>8, <1>9, TidyDestroyNode DEF Application

\* So it holds in every state.
LEMMA TidyNext ==
  ASSUME IInv, Tidy, [Next]_vars
  PROVE  Tidy'
  <1>1. CASE Next
    BY <1>1, TidyParse, TidyApplication, TidyReleaseChild, TidyReleaseEnd DEF Next, Release
  <1>2. CASE UNCHANGED vars
    BY <1>2 DEF vars, local, Tidy, Chain, NoneLeft
  <1> QED BY <1>1, <1>2

LEMMA TidyInit ==
  ASSUME Init
  PROVE  Tidy
  <1> DEFINE a == Node("EMPTY", Null, FALSE)
  <1>1. nodes = <<a>> /\ at = "start" /\ a.children = << >>
    BY DEF Init, Node
  <1> HIDE DEF a
  <1>2. Len(nodes) = 1 /\ DOMAIN nodes = {1} /\ nodes[1] = a
    BY <1>1
  <1> QED BY <1>1, <1>2 DEF Tidy, Newer, NoneLeft, Empty

\* Nothing is left behind, and the open nodes are a chain that ends in the head.
THEOREM TidyAlways == Spec => [](IInv /\ Tidy)
  <1>1. Init => Tidy
    BY TidyInit
  <1>2. IInv /\ Tidy /\ [Next]_vars => Tidy'
    BY TidyNext
  <1> QED BY <1>1, <1>2, InvariantHolds, PTL DEF Spec

-----------------------------------------------------------------------------
(* What is reached in steps.  Reachable and Above are recursive functions: *)
(* that their equations have solutions is a lemma.                         *)

\* A set of numbers that is not empty has a least element.
LEMMA Least ==
  ASSUME NEW S \in SUBSET Nat, S # {} PROVE \E n \in S : \A m \in S : n <= m
  <1>1. PICK k \in S : TRUE
    OBVIOUS
  <1> DEFINE Spans == {X \in FiniteSubsetsOf(Nat) : \E n \in S : X = 0 .. n}
  <1>2. 0 .. k \in Spans
    BY FS_Interval DEF FiniteSubsetsOf
  <1>3. PICK X \in Spans : \A Y \in Spans : <<Y, X>> \notin StrictSubsetOrdering(Nat)
    <2> HIDE DEF Spans
    <2>1. Spans \subseteq FiniteSubsetsOf(Nat) /\ Spans # {}
      BY <1>2 DEF Spans
    <2> QED BY <2>1, FS_StrictSubsetOrderingWellFounded, WFMin
  <1>4. PICK n \in S : X = 0 .. n
    OBVIOUS
  <1>5. ASSUME NEW m \in S, m < n PROVE FALSE
    <2>1. 0 .. m \in Spans
      BY FS_Interval DEF FiniteSubsetsOf
    <2>2. <<0 .. m, X>> \in StrictSubsetOrdering(Nat)
      BY <1>4, <1>5 DEF StrictSubsetOrdering
    <2> QED BY <1>3, <2>1, <2>2
  <1> QED BY <1>5

\* A step can be repeated.
IsRun(f, X, G, s, N) == f \in [0 .. N -> X] /\ f[0] = s /\ \A k \in 1 .. N : f[k] = G[f[k - 1]]
LEMMA Iterates ==
  ASSUME NEW X, NEW G \in [X -> X], NEW s \in X, NEW N \in Nat
  PROVE  \E f : IsRun(f, X, G, s, N)
  <1> DEFINE Bad == {K \in Nat : ~\E f : IsRun(f, X, G, s, K)}
  <1>1. SUFFICES ASSUME Bad # {}
                 PROVE  FALSE
    OBVIOUS
  <1>2. PICK K \in Bad : \A m \in Bad : K <= m
    BY <1>1, Least
  <1>3. CASE K = 0
    <2> DEFINE f == [k \in 0 .. 0 |-> s]
    <2>1. IsRun(f, X, G, s, 0)
      BY DEF IsRun
    <2> QED BY <2>1, <1>3
  <1>4. CASE K # 0
    <2>1. K \in Nat /\ K - 1 \in Nat /\ K - 1 \notin Bad
      BY <1>2, <1>4
    <2>2. PICK g : IsRun(g, X, G, s, K - 1)
      BY <2>1
    <2> DEFINE f == [k \in 0 .. K |-> IF k = K THEN G[g[K - 1]] ELSE g[k]]
    <2>3. g \in [0 .. K - 1 -> X] /\ g[0] = s /\ \A k \in 1 .. K - 1 : g[k] = G[g[k - 1]]
      BY <2>2 DEF IsRun
    <2>4. f \in [0 .. K -> X]
      <3>1. G[g[K - 1]] \in X
        BY <2>1, <2>3
      <3>2. \A k \in 0 .. K : k # K => g[k] \in X
        BY <2>1, <2>3
      <3> QED BY <3>1, <3>2
    <2>5. f[0] = s
      BY <2>1, <2>3, <1>4
    <2>6. ASSUME NEW k \in 1 .. K
          PROVE  f[k] = G[f[k - 1]]
      <3>1. k - 1 \in 0 .. K /\ k - 1 # K /\ f[k - 1] = g[k - 1]
        BY <2>1
      <3>2. CASE k = K
        BY <3>1, <3>2, <2>1
      <3>3. CASE k # K
        <4>1. k \in 1 .. K - 1 /\ f[k] = g[k]
          BY <3>3, <2>1
        <4> QED BY <4>1, <3>1, <2>3
      <3> QED BY <3>2, <3>3
    <2> HIDE DEF f
    <2>7. IsRun(f, X, G, s, K)
      BY <2>4, <2>5, <2>6 DEF IsRun
    <2> QED BY <2>7
  <1> QED BY <1>3, <1>4

\* What is reached from nodes that are not left by going to children are these nodes, layer by layer.
IsLayers(f, X, S) ==
  /\ f \in [0 .. MaxNodes -> SUBSET X] /\ f[0] = S /\ \A k \in 1 .. MaxNodes : f[k] = Below(f[k - 1])
LEMMA ReachableLayers ==
  ASSUME NEW X, NEW S \in SUBSET X, \A T \in SUBSET X : Below(T) \in SUBSET X
  PROVE  \E f : IsLayers(f, X, S) /\ Reachable(S) = f[MaxNodes]
  <1> DEFINE G == [T \in SUBSET X |-> Below(T)]
             Eq(f) == f = [k \in 0 .. MaxNodes |-> IF k = 0 THEN S ELSE Below(f[k - 1])]
  <1>1. G \in [SUBSET X -> SUBSET X] /\ MaxNodes \in Nat
    BY BoundAssumption
  <1> HIDE DEF G
  <1>2. PICK g : IsRun(g, SUBSET X, G, S, MaxNodes)
    BY <1>1, Iterates
  <1>3. IsLayers(g, X, S)
    <2>1. /\ g \in [0 .. MaxNodes -> SUBSET X] /\ g[0] = S
          /\ \A k \in 1 .. MaxNodes : g[k] = G[g[k - 1]]
      BY <1>2 DEF IsRun
    <2>2. ASSUME NEW k \in 1 .. MaxNodes
          PROVE  g[k] = Below(g[k - 1])
      <3>1. k - 1 \in 0 .. MaxNodes
        BY <1>1
      <3>2. g[k - 1] \in SUBSET X
        BY <3>1, <2>1
      <3> QED BY <3>2, <2>1 DEF G
    <2> QED BY <2>1, <2>2 DEF IsLayers
  <1>4. Eq(g)
    <2>1. ASSUME NEW k \in 0 .. MaxNodes
          PROVE  g[k] = IF k = 0 THEN S ELSE Below(g[k - 1])
      <3>1. k # 0 => k \in 1 .. MaxNodes
        BY <1>1
      <3> QED BY <3>1, <1>3 DEF IsLayers
    <2>2. g = [k \in 0 .. MaxNodes |-> g[k]]
      BY <1>3 DEF IsLayers
    <2> QED BY <2>1, <2>2, Zenon
  <1> DEFINE f == CHOOSE h : Eq(h)
  <1>5. Eq(f)
    BY <1>4
  <1>6. Reachable(S) = f[MaxNodes]
    BY DEF Reachable
  <1> HIDE DEF f
  <1>7. \A k \in 0 .. MaxNodes : f[k] = IF k = 0 THEN S ELSE Below(f[k - 1])
    BY <1>5
  <1>8. ASSUME NEW k \in 0 .. MaxNodes
        PROVE  f[k] \in SUBSET X
    <2> DEFINE Bad == {j \in 0 .. MaxNodes : f[j] \notin SUBSET X}
    <2>1. SUFFICES ASSUME Bad # {}
                   PROVE  FALSE
      OBVIOUS
    <2>2. Bad \in SUBSET Nat
      BY <1>1
    <2>3. PICK j \in Bad : \A m \in Bad : j <= m
      BY <2>1, <2>2, Least
    <2>4. CASE j = 0
      BY <2>3, <2>4, <1>7
    <2>5. CASE j # 0
      <3>1. j - 1 \in 0 .. MaxNodes /\ j - 1 \notin Bad
        BY <2>3, <2>5, <1>1
      <3>2. f[j] = Below(f[j - 1]) /\ f[j - 1] \in SUBSET X
        BY <3>1, <2>3, <2>5, <1>7
      <3> QED BY <3>2, <2>3
    <2> QED BY <2>4, <2>5
  <1>9. f \in [0 .. MaxNodes -> SUBSET X]
    <2>1. f = [k \in 0 .. MaxNodes |-> IF k = 0 THEN S ELSE Below(f[k - 1])]
      BY <1>5
    <2> HIDE DEF Eq
    <2> QED BY <2>1, <1>8
  <1>10. IsLayers(f, X, S)
    BY <1>1, <1>7, <1>9 DEF IsLayers
  <1> QED BY <1>6, <1>10

\* The same of the nodes above one.
Up(T) == T \cup {nodes[m].parent : m \in T \ {Null}}
IsLevels(f, X, S) ==
  /\ f \in [0 .. MaxNodes -> SUBSET X] /\ f[0] = S /\ \A k \in 1 .. MaxNodes : f[k] = Up(f[k - 1])
LEMMA AboveLevels ==
  ASSUME NEW X, NEW n, {n} \in SUBSET X, \A T \in SUBSET X : Up(T) \in SUBSET X
  PROVE  \E f : IsLevels(f, X, {n}) /\ Above(n) = f[MaxNodes] \ {Null}
  <1> DEFINE S == {n}
             G == [T \in SUBSET X |-> Up(T)]
             Eq(f) == f = [k \in 0 .. MaxNodes |-> IF k = 0 THEN S ELSE Up(f[k - 1])]
  <1>1. G \in [SUBSET X -> SUBSET X] /\ MaxNodes \in Nat
    BY BoundAssumption
  <1>0. S \in SUBSET X
    OBVIOUS
  <1> HIDE DEF G, S
  <1>2. PICK g : IsRun(g, SUBSET X, G, S, MaxNodes)
    BY <1>1, <1>0, Iterates
  <1>3. IsLevels(g, X, S)
    <2>1. /\ g \in [0 .. MaxNodes -> SUBSET X] /\ g[0] = S
          /\ \A k \in 1 .. MaxNodes : g[k] = G[g[k - 1]]
      BY <1>2 DEF IsRun
    <2>2. ASSUME NEW k \in 1 .. MaxNodes
          PROVE  g[k] = Up(g[k - 1])
      <3>1. k - 1 \in 0 .. MaxNodes
        BY <1>1
      <3>2. g[k - 1] \in SUBSET X
        BY <3>1, <2>1
      <3> QED BY <3>2, <2>1 DEF G
    <2> QED BY <2>1, <2>2 DEF IsLevels
  <1>4. Eq(g)
    <2>1. ASSUME NEW k \in 0 .. MaxNodes
          PROVE  g[k] = IF k = 0 THEN S ELSE Up(g[k - 1])
      <3>1. k # 0 => k \in 1 .. MaxNodes
        BY <1>1
      <3> QED BY <3>1, <1>3 DEF IsLevels
    <2>2. g = [k \in 0 .. MaxNodes |-> g[k]]
      BY <1>3 DEF IsLevels
    <2> QED BY <2>1, <2>2, Zenon
  <1> DEFINE f == CHOOSE h : Eq(h)
  <1>5. Eq(f)
    BY <1>4
  <1>6. Above(n) = f[MaxNodes] \ {Null}
    BY DEF Above, Up, S
  <1> HIDE DEF f
  <1>7. \A k \in 0 .. MaxNodes : f[k] = IF k = 0 THEN S ELSE Up(f[k - 1])
    BY <1>5
  <1>8. ASSUME NEW k \in 0 .. MaxNodes
        PROVE  f[k] \in SUBSET X
    <2> DEFINE Bad == {j \in 0 .. MaxNodes : f[j] \notin SUBSET X}
    <2>1. SUFFICES ASSUME Bad # {}
                   PROVE  FALSE
      OBVIOUS
    <2>2. Bad \in SUBSET Nat
      BY <1>1
    <2>3. PICK j \in Bad : \A m \in Bad : j <= m
      BY <2>1, <2>2, Least
    <2>4. CASE j = 0
      BY <2>3, <2>4, <1>0, <1>7
    <2>5. CASE j # 0
      <3>1. j - 1 \in 0 .. MaxNodes /\ j - 1 \notin Bad
        BY <2>3, <2>5, <1>1
      <3>2. f[j] = Up(f[j - 1]) /\ f[j - 1] \in SUBSET X
        BY <3>1, <2>3, <2>5, <1>7
      <3> QED BY <3>2, <2>3
    <2> QED BY <2>4, <2>5
  <1>9. f \in [0 .. MaxNodes -> SUBSET X]
    <2>1. f = [k \in 0 .. MaxNodes |-> IF k = 0 THEN S ELSE Up(f[k - 1])]
      BY <1>5
    <2> HIDE DEF Eq
    <2> QED BY <2>1, <1>8
  <1>10. IsLevels(f, X, S)
    BY <1>1, <1>7, <1>9 DEF IsLevels
  <1> QED BY <1>6, <1>10 DEF S

\* The nodes that can be given children, in a text where every inner node could be attached.
Usable == {n \in DOMAIN nodes : IsOpen(nodes, head, n) /\ ~nodes[n].freed /\ nodes[n].data}
LEMMA UsableAbove ==
  ASSUME IInv, Tidy, at = "parse", "open" \notin faults
  PROVE  /\ current \in Usable /\ Null \notin Usable
         /\ \A T \in SUBSET (Usable \cup {Null}) : Up(T) \in SUBSET (Usable \cup {Null})
  <1>1. at # "undefined" /\ at # "app"
    OBVIOUS
  <1>2. /\ Stages /\ FaultsKnown /\ ParentsSound(nodes) /\ nodes \in Seq(NodeSet)
        /\ Chain(nodes, head, current)
    BY <1>1, Defined DEF Tidy
  <1>3. /\ current \in DOMAIN nodes /\ nodes[current].data /\ ~nodes[current].freed
        /\ \A n \in DOMAIN nodes : nodes[n].kind \in InnerKinds => ~nodes[nodes[n].parent].freed
    BY <1>2 DEF Stages, FaultsKnown
  <1>4. current \in Usable /\ Null \notin Usable
    BY <1>2, <1>3 DEF Usable, Chain, Null
  <1>5. ASSUME NEW m \in Usable
        PROVE  nodes[m].parent \in Usable \cup {Null}
    <2>1. CASE m = head
      BY <2>1, <1>2 DEF Chain
    <2>2. CASE m # head
      <3>1. m \in DOMAIN nodes /\ nodes[m].kind \in InnerKinds
        BY <2>2 DEF Usable, IsOpen
      <3>2. IsOpen(nodes, head, nodes[m].parent)
        BY <3>1, <1>2 DEF Chain
      <3> QED BY <3>1, <3>2, <1>2, <1>3 DEF Usable, ParentsSound
    <2> QED BY <2>1, <2>2
  <1>6. ASSUME NEW T \in SUBSET (Usable \cup {Null})
        PROVE  Up(T) \in SUBSET (Usable \cup {Null})
    <2>1. \A m \in T \ {Null} : nodes[m].parent \in Usable \cup {Null}
      BY <1>5
    <2> QED BY <2>1 DEF Up
  <1> QED BY <1>4, <1>6

\* Going up the head is reached: the levels have it, or an open node that is older with
\* every level.
Climbs(S, k) == head \in S \/ \E m \in S : m \in DOMAIN nodes /\ nodes[m].kind \in InnerKinds /\ m + k <= Len(nodes)
LEMMA HeadReached ==
  ASSUME IInv, Tidy, at = "parse", NEW f, NEW X, IsLevels(f, X, {current})
  PROVE  head \in f[MaxNodes]
  <1>1. at # "undefined" /\ at # "app"
    OBVIOUS
  <1>2. Stages /\ nodes \in Seq(NodeSet) /\ Chain(nodes, head, current) /\ MaxNodes \in Nat
    BY <1>1, Defined, BoundAssumption DEF Tidy
  <1>3. /\ f[0] = {current} /\ \A k \in 1 .. MaxNodes : f[k] = Up(f[k - 1])
    BY DEF IsLevels
  <1>4. DOMAIN nodes = 1 .. Len(nodes) /\ Len(nodes) \in Nat /\ Null = 0
    BY <1>2 DEF Null
  <1> DEFINE Bad == {k \in 0 .. MaxNodes : ~Climbs(f[k], k)}
  <1>5. ASSUME Bad # {}
        PROVE  FALSE
    <2>1. Bad \in SUBSET Nat
      BY <1>2
    <2>2. PICK k \in Bad : \A m \in Bad : k <= m
      BY <1>5, <2>1, Least
    <2>3. k \in 0 .. MaxNodes /\ ~Climbs(f[k], k)
      BY <2>2
    <2>4. CASE k = 0
      <3>1. current = head \/ (current \in DOMAIN nodes /\ nodes[current].kind \in InnerKinds)
        BY <1>2 DEF Chain, IsOpen
      <3>2. current \in f[0]
        BY <1>3
      <3> QED BY <3>1, <3>2, <2>3, <2>4, <1>4 DEF Climbs
    <2>5. CASE k # 0
      <3>1. k \in 1 .. MaxNodes /\ k - 1 \in 0 .. MaxNodes /\ k - 1 \notin Bad
        BY <2>2, <2>3, <2>5, <1>2
      <3>2. Climbs(f[k - 1], k - 1) /\ f[k] = Up(f[k - 1])
        BY <3>1, <1>3
      <3>3. CASE head \in f[k - 1]
        BY <3>2, <3>3, <2>3 DEF Climbs, Up
      <3>4. ASSUME NEW m \in f[k - 1], m \in DOMAIN nodes, nodes[m].kind \in InnerKinds,
                   m + (k - 1) <= Len(nodes)
            PROVE  FALSE
        <4>1. m # Null /\ nodes[m].parent \in f[k]
          BY <3>2, <3>4, <1>4 DEF Up
        <4>2. nodes[m].parent < m /\ IsOpen(nodes, head, nodes[m].parent)
          BY <3>4, <1>2 DEF Chain
        <4>3. CASE nodes[m].parent = head
          BY <4>1, <4>3, <2>3 DEF Climbs
        <4>4. CASE nodes[m].parent \in DOMAIN nodes /\ nodes[nodes[m].parent].kind \in InnerKinds
          <5>1. nodes[m].parent + k <= Len(nodes)
            BY <4>2, <4>4, <3>1, <3>4, <1>4
          <5> QED BY <4>1, <4>4, <5>1, <2>3 DEF Climbs
        <4> QED BY <4>2, <4>3, <4>4 DEF IsOpen
      <3> QED BY <3>2, <3>3, <3>4 DEF Climbs
    <2> QED BY <2>4, <2>5
  <1>6. Climbs(f[MaxNodes], MaxNodes)
    <2>1. MaxNodes \in 0 .. MaxNodes /\ MaxNodes \notin Bad
      BY <1>2, <1>5
    <2> QED BY <2>1
  <1>7. ASSUME NEW m \in DOMAIN nodes, nodes[m].kind \in InnerKinds, m + MaxNodes <= Len(nodes)
        PROVE  FALSE
    <2>1. m # 1 /\ m # 2
      BY <1>2, <1>7 DEF Chain, Stages, InnerKinds, Empty
    <2> QED BY <2>1, <1>2, <1>4, <1>7 DEF Tidy
  <1> QED BY <1>6, <1>7 DEF Climbs

\* The nodes that are open can be given children, and end in the head.
LEMMA OpenNodesFollow ==
  ASSUME IInv, Tidy
  PROVE  OpenNodesSafe
  <1> SUFFICES ASSUME at = "parse", "open" \notin faults
               PROVE  head \in Above(current) /\ \A n \in Above(current) : ~nodes[n].freed /\ nodes[n].data
    BY DEF OpenNodesSafe
  <1> DEFINE X == Usable \cup {Null}
  <1>1. {current} \in SUBSET X /\ \A T \in SUBSET X : Up(T) \in SUBSET X
    BY UsableAbove
  <1>2. PICK f : IsLevels(f, X, {current}) /\ Above(current) = f[MaxNodes] \ {Null}
    BY <1>1, AboveLevels
  <1>3. f[MaxNodes] \in SUBSET X
    BY <1>2, BoundAssumption DEF IsLevels
  <1>4. head \in f[MaxNodes]
    BY <1>2, HeadReached
  <1>5. head # Null
    BY DEF Tidy, Chain, Null
  <1> QED BY <1>2, <1>3, <1>4, <1>5 DEF Usable

\* The nodes that were not freed, those that are held from outside the tree, and who holds
\* the others.
Left == {n \in DOMAIN nodes : ~nodes[n].freed} \ {Empty}
Outside == Roots \ {Null, Empty}
LEMMA RunningMeans ==
  ASSUME IInv, Tidy, Running
  PROVE  /\ Stages /\ nodes \in Seq(NodeSet) /\ ChildrenSound(nodes) /\ FreedUnheld(nodes) /\ work = << >>
         /\ Counted(nodes, work, CueAlive, head, temp, holds) /\ CueAlive \in BOOLEAN
         /\ head \in DOMAIN nodes \cup {Null} /\ temp \in DOMAIN nodes \cup {Null}
         /\ holds \in [NodeObjects -> DOMAIN nodes \cup {Null}]
         /\ DOMAIN nodes = 1 .. Len(nodes) /\ Len(nodes) \in Nat /\ MaxNodes \in Nat
  <1>1. at # "undefined" /\ work = << >>
    BY DEF Running
  <1>2. CueAlive \in BOOLEAN /\ MaxNodes \in Nat
    BY BoundAssumption DEF CueAlive
  <1> QED BY <1>1, <1>2, Defined

\* What is held was not freed,
LEMMA OutsideKept ==
  ASSUME IInv, Tidy, Running
  PROVE  Outside \in SUBSET Left
  <1> SUFFICES ASSUME NEW n \in Outside
               PROVE  n \in Left
    OBVIOUS
  <1>1. (CueAlive /\ head = n) \/ temp = n \/ \E h \in NodeObjects : holds[h] = n
    BY DEF Outside, Roots
  <1>2. n \in DOMAIN nodes \ {Empty}
    BY <1>1, RunningMeans DEF Outside
  <1>3. /\ nodes \in Seq(NodeSet) /\ FreedUnheld(nodes) /\ CueAlive \in BOOLEAN
        /\ Counted(nodes, work, CueAlive, head, temp, holds)
    BY RunningMeans
  <1>4. ~nodes[n].freed
    BY <1>1, <1>2, <1>3, HeldCounts
  <1> QED BY <1>2, <1>4 DEF Left

\* nor are the children of what was not.
LEMMA ChildrenKept ==
  ASSUME IInv, Tidy, Running, NEW p \in Left, NEW i \in 1 .. Len(nodes[p].children)
  PROVE  nodes[p].children[i] \in Left
  <1>1. /\ nodes \in Seq(NodeSet) /\ ChildrenSound(nodes) /\ FreedUnheld(nodes) /\ work = << >>
        /\ Counted(nodes, work, CueAlive, head, temp, holds) /\ CueAlive \in BOOLEAN /\ MaxNodes \in Nat
    BY RunningMeans
  <1>2. p \in DOMAIN nodes /\ ~nodes[p].freed
    BY DEF Left
  <1> DEFINE c == nodes[p].children[i]
  <1>3. c \in DOMAIN nodes \ {Empty} /\ Len(nodes[p].children) <= MaxNodes
    BY <1>1, <1>2 DEF ChildrenSound
  <1>4. <<p, i>> \in Places(nodes, work, c)
    <2>1. nodes[p] \in NodeSet
      BY <1>1, <1>2
    <2>2. Len(nodes[p].children) \in Nat
      BY <2>1, NodeType
    <2>3. i \in 1 .. MaxNodes /\ i <= Len(nodes[p].children)
      BY <2>2, <1>1, <1>3
    <2>4. ~LetGo(work, p, i)
      BY <1>1 DEF LetGo
    <2> QED BY <1>2, <2>3, <2>4 DEF Places
  <1> HIDE DEF c
  <1>5. ~nodes[c].freed
    BY <1>1, <1>3, <1>4, HeldCounts
  <1> QED BY <1>3, <1>5 DEF Left, c

\* What was not freed is held from outside, or by an older node that was not freed either.
LEMMA KeptHasHolder ==
  ASSUME IInv, Tidy, Running, NEW n \in Left
  PROVE  n \in Outside \/ \E p \in Left : p < n /\ \E i \in 1 .. Len(nodes[p].children) : nodes[p].children[i] = n
  <1>1. /\ Stages /\ nodes \in Seq(NodeSet) /\ ChildrenSound(nodes) /\ work = << >>
        /\ Counted(nodes, work, CueAlive, head, temp, holds) /\ DOMAIN nodes = 1 .. Len(nodes)
    BY RunningMeans
  <1>2. n \in DOMAIN nodes \ {Empty} /\ ~nodes[n].freed
    BY DEF Left
  <1>3. nodes[n].refs # 0
    <2>1. NoneLeft(nodes, work)
      BY DEF Tidy, Running
    <2> QED BY <2>1, <1>1, <1>2 DEF NoneLeft, Active
  <1>4. nodes[n].refs = HeldBy(nodes, work, CueAlive, head, temp, holds, n)
    BY <1>1, <1>2 DEF Counted
  <1>5. (CueAlive /\ head = n) \/ temp = n \/ Holders(holds, n) # {} \/ Places(nodes, work, n) # {}
    <2> SUFFICES ASSUME ~(CueAlive /\ head = n), temp # n, Holders(holds, n) = {}, Places(nodes, work, n) = {}
                 PROVE  FALSE
      OBVIOUS
    <2>1. Cardinality(Holders(holds, n)) = 0 /\ Cardinality(Places(nodes, work, n)) = 0
      BY FS_EmptySet
    <2>2. Count(CueAlive /\ head = n) = 0 /\ Count(temp = n) = 0
      BY DEF Count
    <2>3. HeldBy(nodes, work, CueAlive, head, temp, holds, n) = 0 + 0 + 0 + 0
      BY <2>1, <2>2 DEF HeldBy
    <2> QED BY <2>3, <1>3, <1>4
  <1>6. ASSUME NEW e \in Places(nodes, work, n)
        PROVE  \E p \in Left : p < n /\ \E i \in 1 .. Len(nodes[p].children) : nodes[p].children[i] = n
    <2>1. /\ e[1] \in DOMAIN nodes /\ e[2] \in 1 .. MaxNodes /\ ~nodes[e[1]].freed
          /\ e[2] <= Len(nodes[e[1]].children) /\ nodes[e[1]].children[e[2]] = n
      BY DEF Places
    <2>2. nodes[e[1]] \in NodeSet
      BY <1>1, <2>1
    <2>3. Len(nodes[e[1]].children) \in Nat
      BY <2>2, NodeType
    <2>4. e[2] \in 1 .. Len(nodes[e[1]].children)
      BY <2>1, <2>3, BoundAssumption
    <2>5. e[1] < n
      BY <2>1, <2>4 DEF Tidy, Newer
    <2>6. e[1] # Empty
      <3>1. ~nodes[Empty].data /\ Empty \in DOMAIN nodes
        BY <1>1 DEF Stages
      <3>2. nodes[Empty].children = << >>
        BY <3>1, <1>1 DEF ChildrenSound
      <3> QED BY <3>2, <2>4
    <2> QED BY <2>1, <2>4, <2>5, <2>6 DEF Left
  <1>7. (CueAlive /\ head = n) \/ temp = n \/ Holders(holds, n) # {} => n \in Outside
    <2>1. n # Null /\ n # Empty
      BY <1>1, <1>2 DEF Null
    <2> QED BY <2>1 DEF Outside, Roots, Holders
  <1> QED BY <1>5, <1>6, <1>7

\* Going down every one of them is reached: a layer has those with a number up to its own.
Covers(S, k) == Outside \subseteq S /\ \A n \in Left : n <= k + 2 => n \in S
LEMMA LeftReached ==
  ASSUME IInv, Tidy, Running, NEW f, IsLayers(f, Left, Outside)
  PROVE  Left \subseteq f[MaxNodes]
  <1>1. /\ DOMAIN nodes = 1 .. Len(nodes) /\ Len(nodes) \in Nat /\ MaxNodes \in Nat
        /\ nodes \in Seq(NodeSet)
    BY RunningMeans
  <1>2. /\ f \in [0 .. MaxNodes -> SUBSET Left] /\ f[0] = Outside
        /\ \A k \in 1 .. MaxNodes : f[k] = Below(f[k - 1])
    BY DEF IsLayers
  <1>3. Left \in SUBSET Nat /\ Empty \notin Left /\ Left \in SUBSET DOMAIN nodes
    BY <1>1 DEF Left
  <1> DEFINE Bad == {k \in 0 .. MaxNodes : ~Covers(f[k], k)}
  <1>4. ASSUME Bad # {}
        PROVE  FALSE
    <2>1. Bad \in SUBSET Nat
      BY <1>1
    <2>2. PICK k \in Bad : \A m \in Bad : k <= m
      BY <1>4, <2>1, Least
    <2>3. k \in 0 .. MaxNodes /\ ~Covers(f[k], k)
      BY <2>2
    <2>4. CASE k = 0
      <3> SUFFICES ASSUME NEW n \in Left, n <= 2
                   PROVE  n \in Outside
        BY <2>3, <2>4, <1>2 DEF Covers
      <3>1. ~\E p \in Left : p < n
        <4>1. \A p \in Left : p \in 1 .. Len(nodes) /\ p # 1
          BY <1>1, <1>3 DEF Empty
        <4> QED BY <4>1, <1>1, <1>3
      <3> QED BY <3>1, KeptHasHolder
    <2>5. CASE k # 0
      <3>1. k \in 1 .. MaxNodes /\ k - 1 \in 0 .. MaxNodes /\ k - 1 \notin Bad
        BY <2>2, <2>3, <2>5, <1>1
      <3>2. Covers(f[k - 1], k - 1) /\ f[k] = Below(f[k - 1])
        BY <3>1, <1>2
      <3>3. Outside \subseteq f[k]
        BY <3>2 DEF Covers, Below
      <3>4. ASSUME NEW n \in Left, n <= k + 2
            PROVE  n \in f[k]
        <4>1. CASE n \in Outside
          BY <4>1, <3>3
        <4>2. ASSUME NEW p \in Left, p < n, NEW i \in 1 .. Len(nodes[p].children), nodes[p].children[i] = n
              PROVE  n \in f[k]
          <5>1. p <= (k - 1) + 2
            BY <4>2, <3>1, <3>4, <1>3
          <5>2. p \in f[k - 1]
            BY <5>1, <3>2 DEF Covers
          <5>3. nodes[p] \in NodeSet
            BY <1>1, <1>3
          <5>4. nodes[p].children \in Seq(Nat)
            BY <5>3, NodeType
          <5>5. n \in ToSet(nodes[p].children)
            <6>1. i \in DOMAIN nodes[p].children
              BY <5>4
            <6> QED BY <6>1, <4>2 DEF ToSet
          <5> QED BY <5>2, <5>5, <3>2 DEF Below
        <4> QED BY <4>1, <4>2, KeptHasHolder
      <3> QED BY <2>3, <3>3, <3>4 DEF Covers
    <2> QED BY <2>4, <2>5
  <1>5. Covers(f[MaxNodes], MaxNodes)
    <2>1. MaxNodes \in 0 .. MaxNodes /\ MaxNodes \notin Bad
      BY <1>1, <1>4
    <2> QED BY <2>1
  <1>6. \A n \in Left : n <= MaxNodes + 2
    BY <1>1, <1>3 DEF Tidy
  <1> QED BY <1>5, <1>6 DEF Covers

\* So what was not freed is what can be reached.
LEMMA KeptFollows ==
  ASSUME IInv, Tidy
  PROVE  KeptIffReachable
  <1> SUFFICES ASSUME Running
               PROVE  Left = Reachable(Outside)
    BY DEF KeptIffReachable, Left, Outside
  <1>1. Outside \in SUBSET Left
    BY OutsideKept
  <1>2. ASSUME NEW T \in SUBSET Left
        PROVE  Below(T) \in SUBSET Left
    <2>1. ASSUME NEW p \in T, NEW n \in ToSet(nodes[p].children)
          PROVE  n \in Left
      <3>1. p \in Left /\ nodes \in Seq(NodeSet) /\ p \in DOMAIN nodes
        BY RunningMeans DEF Left
      <3>2. nodes[p] \in NodeSet
        BY <3>1
      <3>3. nodes[p].children \in Seq(Nat)
        BY <3>2, NodeType
      <3>4. PICK i \in 1 .. Len(nodes[p].children) : nodes[p].children[i] = n
        BY <3>3 DEF ToSet
      <3> QED BY <3>1, <3>4, ChildrenKept
    <2> QED BY <2>1 DEF Below
  <1>3. PICK f : IsLayers(f, Left, Outside) /\ Reachable(Outside) = f[MaxNodes]
    BY <1>1, <1>2, ReachableLayers
  <1>4. f[MaxNodes] \in SUBSET Left
    BY <1>3, BoundAssumption DEF IsLayers
  <1>5. Left \subseteq f[MaxNodes]
    BY <1>3, LeftReached
  <1> QED BY <1>3, <1>4, <1>5

\* The nodes that are open, from the current one up to the head, are allocated and can be
\* given children, unless one of them could not be attached.
THEOREM OpenNodesAreSafe == Spec => []OpenNodesSafe
  <1>1. IInv /\ Tidy => OpenNodesSafe
    BY OpenNodesFollow
  <1> QED BY <1>1, TidyAlways, PTL

\* Between two calls of the application exactly those nodes are allocated that it can still
\* get at: no leak, and nothing freed too early, in whatever order objects let go.
THEOREM KeptAreReachable == Spec => []KeptIffReachable
  <1>1. IInv /\ Tidy => KeptIffReachable
    BY KeptFollows
  <1> QED BY <1>1, TidyAlways, PTL

=============================================================================
