------------------------------ MODULE Allocator ------------------------------
(***************************************************************************)
(* The functions that memory is asked for with (src/libwebvtt/alloc.c):    *)
(* they count the blocks in use, so that the allocator cannot be changed   *)
(* under a block.  Nothing locks the count: adding to it is two steps of   *)
(* the thread that calls, which reads the count and writes it back.        *)
(***************************************************************************)
EXTENDS Integers, FiniteSets

CONSTANTS
  Threads,     \* the threads that call the library
  Blocks,      \* the blocks of memory
  Allocators,  \* the pairs of functions that may be set
  Default,     \* malloc and free
  None,        \* no allocator and no block
  Wrap         \* 2^32: where n_alloc wraps

ASSUME AllocatorsAssumption == Default \in Allocators /\ None \notin Allocators \cup Blocks
ASSUME BlocksAssumption == IsFiniteSet(Blocks) /\ Wrap \in Nat /\ Cardinality(Blocks) < Wrap

VARIABLES
  n_alloc,  \* the count of blocks
  alloc,    \* the allocator that is set
  from,     \* the allocator each block in use was asked from
  step,     \* where each thread is
  has,      \* the block a thread got, or the allocator it is about to set
  seen      \* the count it has read

counting == <<n_alloc, alloc, from, step, has, seen>>

Steps == {"idle", "allocated", "incrementing", "freed", "decrementing", "setting"}
InUse == {b \in Blocks : from[b] # None}

NoneInUse == /\ n_alloc = 0 /\ alloc = Default /\ from = [b \in Blocks |-> None]
             /\ step = [t \in Threads |-> "idle"] /\ has = [t \in Threads |-> None]
             /\ seen = [t \in Threads |-> 0]

\* webvtt_alloc and webvtt_alloc0; if the allocator has no block nothing happens.
Alloc(t, b) == /\ step[t] = "idle" /\ from[b] = None
               /\ from' = [from EXCEPT ![b] = alloc]
               /\ step' = [step EXCEPT ![t] = "allocated"] /\ has' = [has EXCEPT ![t] = b]
               /\ UNCHANGED <<n_alloc, alloc, seen>>

\* webvtt_free, of a block that the client has been given; if none is counted
\* nothing happens.
Dealloc(t, b) == /\ step[t] = "idle" /\ b \in InUse /\ \A u \in Threads : has[u] # b
                 /\ n_alloc # 0
                 /\ from' = [from EXCEPT ![b] = None]
                 /\ step' = [step EXCEPT ![t] = "freed"]
                 /\ UNCHANGED <<n_alloc, alloc, has, seen>>

\* ++n_alloc and --n_alloc: the count is read,
Read(t) == /\ \/ step[t] = "allocated" /\ step' = [step EXCEPT ![t] = "incrementing"]
              \/ step[t] = "freed" /\ step' = [step EXCEPT ![t] = "decrementing"]
           /\ seen' = [seen EXCEPT ![t] = n_alloc]
           /\ UNCHANGED <<n_alloc, alloc, from, has>>

\* and written back.
\* Mutant: a block that is freed stays counted.
LessNot(n) == n
Less(n) == (n - 1) % Wrap
Write(t) == /\ \/ step[t] = "incrementing" /\ n_alloc' = (seen[t] + 1) % Wrap
               \/ step[t] = "decrementing" /\ n_alloc' = Less(seen[t])
            /\ step' = [step EXCEPT ![t] = "idle"] /\ has' = [has EXCEPT ![t] = None]
            /\ UNCHANGED <<alloc, from, seen>>

\* webvtt_set_allocator: the allocator changes only while no block is counted.
\* Mutant: one block is let pass.
UnusedButOne == n_alloc <= 1
Unused == n_alloc = 0
Check(t, a) == /\ step[t] = "idle" /\ Unused
               /\ step' = [step EXCEPT ![t] = "setting"] /\ has' = [has EXCEPT ![t] = a]
               /\ UNCHANGED <<n_alloc, alloc, from, seen>>
Assign(t) == /\ step[t] = "setting" /\ alloc' = has[t]
             /\ step' = [step EXCEPT ![t] = "idle"] /\ has' = [has EXCEPT ![t] = None]
             /\ UNCHANGED <<n_alloc, from, seen>>

Calling == \E t \in Threads : \/ Read(t) \/ Write(t) \/ Assign(t)
                              \/ \E b \in Blocks : Alloc(t, b) \/ Dealloc(t, b)
                              \/ \E a \in Allocators : Check(t, a)
AllocatorSpec == NoneInUse /\ [][Calling]_counting

-----------------------------------------------------------------------------
(* Properties, of a program that calls the library from one thread.        *)

\* Every variable keeps its type.
CountingTypes ==
  /\ n_alloc \in Nat /\ alloc \in Allocators
  /\ from \in [Blocks -> Allocators \cup {None}]
  /\ step \in [Threads -> Steps] /\ seen \in [Threads -> Nat]
  /\ has \in [Threads -> Blocks \cup Allocators \cup {None}]

\* Between calls n_alloc is the number of blocks in use: no free is ignored.
CountExact == (\A t \in Threads : step[t] = "idle") => n_alloc = Cardinality(InUse)

\* Every block in use is from the allocator that is set: it will be freed by
\* the one it came from.
FromCurrent == \A b \in InUse : from[b] = alloc

=============================================================================
