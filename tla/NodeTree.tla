------------------------------ MODULE NodeTree ------------------------------
(***************************************************************************)
(* The nodes of a cue (node.c): reference counts, arrays of children and   *)
(* the recursive release, from the loop of webvtt_parse_cuetext that       *)
(* builds the tree, where any allocation may fail, to the application that *)
(* holds cues and nodes in C++ objects (webvttxx/cue and node) and lets go *)
(* of them in any order.  CueText says which tokens a text has; here the   *)
(* text is any sequence of tokens, and what matters is who holds what.     *)
(***************************************************************************)
EXTENDS Integers, Sequences, SequencesExt, FiniteSets

CONSTANTS
  MaxNodes,     \* bound on the nodes of a text, empty_node included
  MaxFaults,    \* bound on the different failures
  FirstRoom,    \* room for children in the first array, 8 in the code
  MaxCues,      \* bound on the C++ objects that hold the cue
  NodeObjects   \* C++ objects that may hold a node

ASSUME BoundAssumption == MaxNodes \in Nat /\ MaxFaults \in Nat /\ MaxCues \in Nat \ {0}
ASSUME RoomAssumption == FirstRoom \in Nat \ {0}
ASSUME ObjectsAssumption == IsFiniteSet(NodeObjects)

VARIABLES
  nodes,    \* every node there ever was, in the order of creation
  at,       \* "start", "parse", "parsed", "app", or "undefined"
  head,     \* cue->node_head
  current,  \* current_node
  temp,     \* temp_node; it keeps its last value when the call has returned
  langs,    \* lang_stack could be allocated
  faults,   \* what allocations have failed, and what was read without being set
  cueRefs,  \* the count of the cue
  cues,     \* how many C++ objects hold the cue
  holds,    \* the node a C++ object holds, or Null
  work      \* the calls of webvtt_release_node that are active, the outermost first:
            \* the node, and how many children were released

local == <<current, temp, langs>>
objects == <<cueRefs, cues, holds>>
vars == <<nodes, at, head, local, faults, objects, work>>

Null == 0
Empty == 1    \* the static empty_node
InnerKinds == {"BOLD", "RUBY", "RUBY_TEXT", "LANG"}
Internal == {"HEAD"} \cup InnerKinds
Leaves == {"TEXT"}    \* a time stamp is one as well

Node(kind, parent, data) ==
  [kind |-> kind, refs |-> 1, parent |-> parent, data |-> data,
   children |-> << >>, alloc |-> 0, freed |-> FALSE]

Init ==
  /\ nodes = <<Node("EMPTY", Null, FALSE)>>
  /\ at = "start" /\ head = Null /\ current = Null /\ temp = Null /\ langs = FALSE
  /\ faults = {} /\ cueRefs = 1 /\ cues = 0 /\ holds = [h \in NodeObjects |-> Null]
  /\ work = << >>

Fault(f) == faults' = faults \cup {f} /\ Cardinality(faults') <= MaxFaults
New == Len(nodes) + 1
Parsing == at = "parse" /\ work = << >>

-----------------------------------------------------------------------------
(* webvtt_attach_node.                                                     *)

FirstAlloc(nd) == IF nd.alloc = 0 THEN FirstRoom ELSE nd.alloc

\* The array is made larger early.
Full(nd) == Len(nd.children) + 1 >= (FirstAlloc(nd) \div 3) * 2

\* Mutant: the child is not counted.
AttachedUncounted(ns, p, n) ==
  [ns EXCEPT ![p].alloc = (IF Full(ns[p]) THEN 2 ELSE 1) * FirstAlloc(ns[p]),
             ![p].children = Append(@, n)]
Attached(ns, p, n) ==
  [ns EXCEPT ![p].alloc = (IF Full(ns[p]) THEN 2 ELSE 1) * FirstAlloc(ns[p]),
             ![p].children = Append(@, n),
             ![n].refs = @ + 1]

\* The nodes when the first array, or the larger one, cannot be had.
Refused(ns, p) ==
  (IF ns[p].alloc = 0 THEN {ns} ELSE {})
  \cup (IF Full(ns[p]) THEN {[ns EXCEPT ![p].alloc = FirstAlloc(ns[p])]} ELSE {})

-----------------------------------------------------------------------------
(* webvtt_release_node, one call or one turn of its loop at a time.        *)

\* The nodes and the active calls once webvtt_release_node has begun with n: the last
\* holder frees it, at once unless it has children to let go of.  Mutant: one release
\* too late.
ReleasedLate(ns, w, n) ==
  LET dropped == [ns EXCEPT ![n].refs = @ - 1]
  IN  IF ns[n].refs > 0 THEN <<dropped, w>>
      ELSE IF ns[n].data THEN <<dropped, Append(w, <<n, 0>>)>>
      ELSE <<[dropped EXCEPT ![n].freed = TRUE], w>>
Released(ns, w, n) ==
  LET dropped == [ns EXCEPT ![n].refs = @ - 1]
  IN  IF ns[n].refs > 1 THEN <<dropped, w>>
      ELSE IF ns[n].data THEN <<dropped, Append(w, <<n, 0>>)>>
      ELSE <<[dropped EXCEPT ![n].freed = TRUE], w>>
ReleaseNode(ns, w, n) == nodes' = Released(ns, w, n)[1] /\ work' = Released(ns, w, n)[2]

ReleaseChild ==
  /\ work # << >>
  /\ LET n == Last(work)[1]
         i == Last(work)[2]
     IN  /\ i < Len(nodes[n].children)
         /\ ReleaseNode(nodes, Append(Front(work), <<n, i + 1>>), nodes[n].children[i + 1])
  /\ UNCHANGED <<at, head, local, faults, objects>>

ReleaseEnd ==
  /\ work # << >>
  /\ Last(work)[2] = Len(nodes[Last(work)[1]].children)
  /\ nodes' = [nodes EXCEPT ![Last(work)[1]].freed = TRUE] /\ work' = Front(work)
  /\ UNCHANGED <<at, head, local, faults, objects>>

-----------------------------------------------------------------------------
(* webvtt_parse_cuetext.                                                   *)

CreateHead ==
  /\ at = "start" /\ at' = "parse"
  /\ nodes' = Append(nodes, Node("HEAD", Null, TRUE)) /\ head' = New /\ current' = New
  /\ \/ langs' = TRUE /\ UNCHANGED faults
     \/ langs' = FALSE /\ Fault("langs")
  /\ UNCHANGED <<temp, objects, work>>

\* The call fails, and the cue is handed over as it is.
HeadFails ==
  /\ at = "start" /\ at' = "parsed"
  /\ \/ Fault("head") /\ UNCHANGED <<nodes, head>>
     \/ Fault("head data") /\ nodes' = Append(nodes, Node("HEAD", Null, FALSE)) /\ head' = New
  /\ UNCHANGED <<local, objects, work>>

\* A token is thrown away if a node is left in temp_node.
Creating == Parsing /\ temp = Null

\* webvtt_create_lang_node goes on without a node.
NodeFails(kind) ==
  /\ Creating
  /\ IF kind = "LANG" THEN at' = "undefined" /\ Fault("lang") ELSE Fault("node") /\ UNCHANGED at
  /\ UNCHANGED <<nodes, head, local, objects, work>>

\* The node stays in temp_node.  Mutant: it is taken for a complete one.
DataFailsUnseen(kind) ==
  /\ Creating /\ Len(nodes) < MaxNodes /\ kind # "LANG" /\ Fault("data")
  /\ nodes' = Append(nodes, Node(kind, current, FALSE)) /\ current' = New
  /\ UNCHANGED <<at, head, temp, langs, objects, work>>
DataFails(kind) ==
  /\ Creating /\ Len(nodes) < MaxNodes
  /\ nodes' = Append(nodes, Node(kind, current, FALSE)) /\ temp' = New
  /\ IF kind = "LANG" THEN at' = "undefined" /\ Fault("lang") ELSE Fault("data") /\ UNCHANGED at
  /\ UNCHANGED <<head, current, langs, objects, work>>

Create(kind) ==
  /\ Creating /\ Len(nodes) < MaxNodes /\ ~nodes[current].freed
  /\ UNCHANGED <<head, temp, langs, objects, work>>
Created(kind) == Append(nodes, Node(kind, current, kind \in Internal))

OutOfPlace(kind) == kind = "RUBY_TEXT" /\ nodes[current].kind # "RUBY"

\* Mutant: the node is left alone.
RubyTextLeft ==
  /\ Create("RUBY_TEXT") /\ OutOfPlace("RUBY_TEXT")
  /\ nodes' = Created("RUBY_TEXT")
  /\ UNCHANGED <<at, current, faults>>
RubyText ==
  /\ Create("RUBY_TEXT") /\ OutOfPlace("RUBY_TEXT")
  /\ nodes' = [Created("RUBY_TEXT") EXCEPT ![New].refs = 0, ![New].freed = TRUE]
  /\ UNCHANGED <<at, current, faults>>

\* The parser's own reference is dropped, and a node that could not be attached with it.
\* Mutant: the node is freed whoever has it.
DroppedAlways(ns) == [ns EXCEPT ![New].refs = @ - 1, ![New].freed = TRUE]
Dropped(ns) == [ns EXCEPT ![New].refs = @ - 1, ![New].freed = @ \/ (ns[New].refs = 1)]

AddLeaf(kind) ==
  /\ Create(kind)
  /\ \/ nodes' = Dropped(Attached(Created(kind), current, New)) /\ UNCHANGED faults
     \/ \E ns \in Refused(Created(kind), current) : nodes' = Dropped(ns) /\ Fault("leaf")
  /\ UNCHANGED <<at, current>>

\* What webvtt_attach_node returns is not looked at.
OpenNode(kind) ==
  /\ Create(kind) /\ ~OutOfPlace(kind)
  /\ \/ nodes' = Dropped(Attached(Created(kind), current, New)) /\ UNCHANGED faults
     \/ \E ns \in Refused(Created(kind), current) : nodes' = Dropped(ns) /\ Fault("open")
  /\ current' = New
  /\ at' = (IF langs THEN at ELSE "undefined")

CloseNode(kind) ==
  /\ Parsing /\ ~nodes[current].freed
  /\ \/ nodes[current].kind = kind
     \/ nodes[current].kind = "RUBY_TEXT" /\ kind = "RUBY"
  /\ current' = nodes[current].parent
  /\ UNCHANGED <<nodes, at, head, temp, langs, faults, objects, work>>

\* Any token makes the parser look at the node that is open.
UseReleased ==
  /\ Parsing /\ nodes[current].freed /\ at' = "undefined"
  /\ UNCHANGED <<nodes, head, local, faults, objects, work>>

ParseEnd ==
  /\ Parsing /\ at' = (IF langs THEN "parsed" ELSE "undefined")
  /\ UNCHANGED <<nodes, head, local, faults, objects, work>>

-----------------------------------------------------------------------------
(* finish_cue and the application.                                         *)

ReleaseHead == IF head = Null THEN UNCHANGED <<nodes, work>> ELSE ReleaseNode(nodes, work, head)

InvalidCue ==
  /\ at = "parsed" /\ at' = "app" /\ cueRefs' = cueRefs - 1 /\ ReleaseHead
  /\ UNCHANGED <<head, local, faults, cues, holds>>

\* AbstractParser::__parsedCue takes a reference and drops the library's.
ParsedCue ==
  /\ at = "parsed" /\ at' = "app" /\ cues' = 1
  /\ UNCHANGED <<nodes, head, local, faults, cueRefs, holds, work>>

Running == at = "app" /\ work = << >>
Kept == UNCHANGED <<at, head, local>>

CopyCue ==
  /\ Running /\ cues \in 1 .. MaxCues - 1
  /\ cues' = cues + 1 /\ cueRefs' = cueRefs + 1
  /\ Kept /\ UNCHANGED <<nodes, faults, holds, work>>

DestroyCue ==
  /\ Running /\ cues > 0
  /\ cues' = cues - 1 /\ cueRefs' = cueRefs - 1
  /\ IF cueRefs = 1 THEN ReleaseHead ELSE UNCHANGED <<nodes, work>>
  /\ Kept /\ UNCHANGED <<faults, holds>>

Hold(h, n) ==
  /\ holds[h] = Null /\ holds' = [holds EXCEPT ![h] = n]
  /\ nodes' = [nodes EXCEPT ![n].refs = @ + 1]
  /\ Kept /\ UNCHANGED <<faults, cueRefs, cues, work>>

NodeHead(h) == Running /\ cues > 0 /\ head # Null /\ Hold(h, head)
CopyNode(h, g) == Running /\ holds[g] # Null /\ Hold(h, holds[g])
ChildOf(h, g) ==
  /\ Running /\ holds[g] # Null
  /\ nodes[holds[g]].data
  /\ \E i \in DOMAIN nodes[holds[g]].children : Hold(h, nodes[holds[g]].children[i])

\* Node::childCount of an internal node without data.
ChildOfNothing(g) ==
  /\ Running /\ holds[g] # Null
  /\ nodes[holds[g]].kind \in Internal /\ ~nodes[holds[g]].data
  /\ at' = "undefined" /\ UNCHANGED <<nodes, head, local, faults, objects, work>>

\* A node made of no node: webvtt_init_node looks at the object before it is set, and
\* takes what it finds for a node, unless it is null; if it is empty_node by chance, that
\* is not counted.
NodeOfNothing(h) ==
  /\ Running /\ holds[h] = Null /\ Fault("unset")
  /\ \/ at' = "undefined" /\ UNCHANGED <<nodes, holds>>
     \/ /\ holds' = [holds EXCEPT ![h] = Empty] /\ UNCHANGED at
        /\ UNCHANGED nodes \/ nodes' = [nodes EXCEPT ![Empty].refs = @ + 1]
  /\ UNCHANGED <<head, local, cueRefs, cues, work>>

\* The last object that holds a node frees it, and so on down the tree.
DestroyNode(h) ==
  /\ Running /\ holds[h] # Null
  /\ holds' = [holds EXCEPT ![h] = Null]
  /\ ReleaseNode(nodes, work, holds[h])
  /\ at' = (IF holds[h] = Empty /\ nodes[Empty].refs = 1 THEN "undefined" ELSE at)
  /\ UNCHANGED <<head, local, faults, cueRefs, cues>>

-----------------------------------------------------------------------------
Parse ==
  \/ CreateHead \/ HeadFails \/ RubyText \/ UseReleased \/ ParseEnd
  \/ \E kind \in InnerKinds \cup Leaves : NodeFails(kind)
  \/ \E kind \in InnerKinds : DataFails(kind) \/ OpenNode(kind) \/ CloseNode(kind)
  \/ \E kind \in Leaves : AddLeaf(kind)

Application ==
  \/ InvalidCue \/ ParsedCue \/ CopyCue \/ DestroyCue
  \/ \E h \in NodeObjects :
       \/ NodeHead(h) \/ ChildOfNothing(h) \/ NodeOfNothing(h) \/ DestroyNode(h)
       \/ \E g \in NodeObjects : CopyNode(h, g) \/ ChildOf(h, g)

Release == ReleaseChild \/ ReleaseEnd
Next == Parse \/ Application \/ Release

Spec == Init /\ [][Next]_vars

-----------------------------------------------------------------------------
(* Properties.                                                             *)

\* The variables have the values of their types.
TypeOK ==
  /\ nodes \in Seq([kind : Internal \cup Leaves \cup {"EMPTY"}, refs : Nat, parent : Nat,
                    data : BOOLEAN, children : Seq(Nat), alloc : Nat, freed : BOOLEAN])
  /\ at \in {"start", "parse", "parsed", "app", "undefined"}
  /\ {head, current, temp} \subseteq DOMAIN nodes \cup {Null}
  /\ langs \in BOOLEAN
  /\ faults \subseteq {"head", "head data", "langs", "lang", "node", "data", "leaf", "open", "unset"}
  /\ cueRefs \in Nat /\ cues \in 0 .. MaxCues
  /\ holds \in [NodeObjects -> DOMAIN nodes \cup {Null}]
  /\ work \in Seq((DOMAIN nodes) \X Nat)

Count(condition) == IF condition THEN 1 ELSE 0
CueAlive == cueRefs > 0

\* How many children of a node were released already by a call that is active.
Gone(n) == LET W == {k \in DOMAIN work : work[k][1] = n}
           IN  IF W = {} THEN 0 ELSE work[CHOOSE k \in W : TRUE][2]
Entries(n) == {e \in (DOMAIN nodes) \X (1..MaxNodes) :
                 /\ ~nodes[e[1]].freed
                 /\ e[2] \in Gone(e[1]) + 1 .. Len(nodes[e[1]].children)
                 /\ nodes[e[1]].children[e[2]] = n}

\* At any moment, also in the middle of a release and whatever allocations have failed,
\* a node counts exactly those who hold it: parents that have not let go of it yet, the
\* cue, objects of the application, and the parser's variable.  The count of the cue is
\* the number of objects that have it.
CountsExact ==
  at # "undefined" =>
    /\ \A n \in DOMAIN nodes \ {Empty} :
         nodes[n].refs = Cardinality(Entries(n)) + Count(CueAlive /\ head = n) + Count(temp = n)
                         + Cardinality({h \in NodeObjects : holds[h] = n})
    /\ at = "app" => cueRefs = cues

\* What can be reached from a set of nodes.
Below(S) == S \cup UNION {ToSet(nodes[n].children) : n \in S}
Reachable(S) == LET f[k \in 0 .. MaxNodes] == IF k = 0 THEN S ELSE Below(f[k - 1]) IN f[MaxNodes]
Roots == (IF CueAlive THEN {head} ELSE {}) \cup {temp} \cup {holds[h] : h \in NodeObjects}

\* Between two calls of the application exactly those nodes are allocated that it can
\* still get at: nothing it holds was freed, and nothing else was left behind, in whatever
\* order it let go of its objects; except for the node without data that an allocation
\* failure leaves in temp_node.
KeptIffReachable ==
  Running => {n \in DOMAIN nodes : ~nodes[n].freed} \ {Empty} = Reachable(Roots \ {Null, Empty})

\* Nothing happens to a node once it was freed: it is not freed again, counted or given
\* children.
FreedUntouched ==
  [][\A n \in DOMAIN nodes : nodes[n].freed => nodes'[n] = nodes[n]]_vars

\* The nodes that are open, from the current one up to the head, can be given children:
\* they are allocated and have data; unless one of them could not be attached.
Above(n) == LET f[k \in 0 .. MaxNodes] ==
                  IF k = 0 THEN {n} ELSE f[k - 1] \cup {nodes[m].parent : m \in f[k - 1] \ {Null}}
            IN  f[MaxNodes] \ {Null}
OpenNodesSafe ==
  at = "parse" /\ "open" \notin faults =>
    /\ head \in Above(current)
    /\ \A n \in Above(current) : ~nodes[n].freed /\ nodes[n].data

\* Undefined behaviour needs one of five failures: the head, the list of languages, a
\* language node, or the array that an inner node is to be stored in; or a Node object
\* made of no node.  All other failures cost nodes of the tree and no more.
DefinedOtherwise ==
  at = "undefined" => faults \cap {"head data", "langs", "lang", "open", "unset"} # {}

\* No array of children is stored to beyond its end, whatever its first size.
ChildrenFit ==
  \A n \in DOMAIN nodes : Len(nodes[n].children) <= nodes[n].alloc

=============================================================================
