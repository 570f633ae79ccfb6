----------------------------- MODULE MemoryPool ------------------------------
(***************************************************************************)
(* memory::MemoryPool: a free list whose links lie in a side table and     *)
(* whose head packs an index with a generation.  Threads pop and push with *)
(* compare-and-swap and grow the pool under a mutex when it is empty.      *)
(*                                                                         *)
(* One action is one access to shared memory.  A link is written before    *)
(* the release that publishes it as head, so a relaxed load of it is never *)
(* older than the head the thread has loaded.                              *)
(***************************************************************************)
EXTENDS Integers, FiniteSets

CONSTANTS
  Threads,
  BlocksPerSlab,  \* blocks_per_slab_
  kMaxSlabs,      \* slabs of a pool
  Generations     \* 2^32: how many values a generation has

Blocks == 0 .. (kMaxSlabs * BlocksPerSlab - 1)
kNullIndex == -1

VARIABLES
  head,       \* free_head_: [index, generation]
  link,       \* the side table
  slabs,      \* slab_count_
  allocated,  \* allocated_
  lock,       \* the thread that holds grow_mutex_, if any
  held,       \* the blocks callers hold
  pc,         \* where each thread is
  old,        \* its old_head
  arg         \* next, or the block it returns, or the base of its new slab

vars == <<head, link, slabs, allocated, lock, held, pc, old, arg>>

pack(index, generation) == [index |-> index, generation |-> generation % Generations]

Goto(t, l) == pc' = [pc EXCEPT ![t] = l]

\* No other thread sleeps between its load of head and its CAS while the generation
\* goes round.
Fresh(t) ==
  \A u \in Threads \ {t} :
    pc[u] \in {"link", "pop", "tie", "splice", "tieback", "push"} => old[u].generation # head'.generation

\* Mutant: only the index is compared.
SwapIndex(t, index) ==
  /\ head.index = old[t].index
  /\ head' = pack(index, head.generation + 1)

\* compare_exchange_weak from old[t] to a head at index; it may fail spuriously.
Swap(t, index) ==
  /\ head = old[t]
  /\ head' = pack(index, old[t].generation + 1)

(***************************************************************************)
(* allocate                                                                *)
(***************************************************************************)

AllocLoad(t) ==
  /\ pc[t] \in {"idle", "alloc"}
  /\ old' = [old EXCEPT ![t] = head]
  /\ Goto(t, IF head.index = kNullIndex THEN "grow" ELSE "link")
  /\ UNCHANGED <<head, link, slabs, allocated, lock, held, arg>>

AllocLink(t) ==
  /\ pc[t] = "link"
  /\ arg' = [arg EXCEPT ![t] = link[old[t].index]]
  /\ Goto(t, "pop")
  /\ UNCHANGED <<head, link, slabs, allocated, lock, held, old>>

AllocSwap(t) ==
  /\ pc[t] = "pop"
  /\ Swap(t, arg[t])
  /\ arg' = [arg EXCEPT ![t] = old[t].index]
  /\ pc' = [pc EXCEPT ![t] = "popped"]
  /\ Fresh(t)
  /\ UNCHANGED <<link, slabs, allocated, lock, held, old>>

AllocMiss(t) ==
  /\ pc[t] = "pop"
  /\ Goto(t, "alloc")
  /\ UNCHANGED <<head, link, slabs, allocated, lock, held, old, arg>>

AllocReturn(t) ==
  /\ pc[t] = "popped"
  /\ allocated' = allocated + 1
  /\ held' = held \cup {arg[t]}
  /\ Goto(t, "idle")
  /\ UNCHANGED <<head, link, slabs, lock, old, arg>>

(***************************************************************************)
(* grow_if_still_empty and grow                                            *)
(***************************************************************************)

\* The mutex is taken; another thread may have grown the pool by now.
GrowCheck(t) ==
  /\ pc[t] = "grow" /\ lock = {}
  /\ IF head.index # kNullIndex
     THEN Goto(t, "alloc") /\ UNCHANGED lock
     ELSE Goto(t, "slab") /\ lock' = {t}
  /\ UNCHANGED <<head, link, slabs, allocated, held, old, arg>>

\* bad_alloc: no slab is left, or the memory cannot be had.
GrowThrow(t) ==
  /\ pc[t] = "slab"
  /\ lock' = {}
  /\ Goto(t, "idle")
  /\ UNCHANGED <<head, link, slabs, allocated, held, old, arg>>

\* The new blocks are chained, and the slab is published.
GrowSlab(t) ==
  /\ pc[t] = "slab" /\ slabs < kMaxSlabs
  /\ LET base == slabs * BlocksPerSlab IN
     /\ link' = [b \in Blocks |-> IF b \in base .. (base + BlocksPerSlab - 2) THEN b + 1 ELSE link[b]]
     /\ arg' = [arg EXCEPT ![t] = base]
  /\ slabs' = slabs + 1
  /\ old' = [old EXCEPT ![t] = head]
  /\ Goto(t, "tie")
  /\ UNCHANGED <<head, allocated, lock, held>>

\* The last link of the chain points to the head ...
GrowTie(t) ==
  /\ pc[t] = "tie"
  /\ link' = [link EXCEPT ![arg[t] + BlocksPerSlab - 1] = old[t].index]
  /\ Goto(t, "splice")
  /\ UNCHANGED <<head, slabs, allocated, lock, held, old, arg>>

\* ... and one CAS splices the chain.
GrowSplice(t) ==
  /\ pc[t] = "splice"
  /\ Swap(t, arg[t])
  /\ pc' = [pc EXCEPT ![t] = "alloc"]
  /\ lock' = {}
  /\ Fresh(t)
  /\ UNCHANGED <<link, slabs, allocated, held, old, arg>>

GrowMiss(t) ==
  /\ pc[t] = "splice"
  /\ old' = [old EXCEPT ![t] = head]
  /\ Goto(t, "tie")
  /\ UNCHANGED <<head, link, slabs, allocated, lock, held, arg>>

(***************************************************************************)
(* deallocate                                                              *)
(***************************************************************************)

\* index_from_ptr finds the block among the slabs that are published.
FreeLoad(t, b) ==
  /\ pc[t] = "idle"
  /\ b \in held /\ b < slabs * BlocksPerSlab
  /\ held' = held \ {b}
  /\ arg' = [arg EXCEPT ![t] = b]
  /\ old' = [old EXCEPT ![t] = head]
  /\ Goto(t, "tieback")
  /\ UNCHANGED <<head, link, slabs, allocated, lock>>

FreeLink(t) ==
  /\ pc[t] = "tieback"
  /\ link' = [link EXCEPT ![arg[t]] = old[t].index]
  /\ Goto(t, "push")
  /\ UNCHANGED <<head, slabs, allocated, lock, held, old, arg>>

FreeSwap(t) ==
  /\ pc[t] = "push"
  /\ Swap(t, arg[t])
  /\ pc' = [pc EXCEPT ![t] = "pushed"]
  /\ Fresh(t)
  /\ UNCHANGED <<link, slabs, allocated, lock, held, old, arg>>

FreeMiss(t) ==
  /\ pc[t] = "push"
  /\ old' = [old EXCEPT ![t] = head]
  /\ Goto(t, "tieback")
  /\ UNCHANGED <<head, link, slabs, allocated, lock, held, arg>>

FreeReturn(t) ==
  /\ pc[t] = "pushed"
  /\ allocated' = allocated - 1
  /\ Goto(t, "idle")
  /\ UNCHANGED <<head, link, slabs, lock, held, old, arg>>

\* The constructor has grown the pool by one slab.
Init ==
  /\ slabs = 1
  /\ link = [b \in Blocks |-> IF b < BlocksPerSlab - 1 THEN b + 1 ELSE kNullIndex]
  /\ head = pack(0, 1)
  /\ allocated = 0 /\ held = {} /\ lock = {}
  /\ pc = [t \in Threads |-> "idle"]
  /\ old = [t \in Threads |-> head]
  /\ arg = [t \in Threads |-> kNullIndex]

Next ==
  \E t \in Threads :
    \/ AllocLoad(t) \/ AllocLink(t) \/ AllocSwap(t) \/ AllocMiss(t) \/ AllocReturn(t)
    \/ GrowCheck(t) \/ GrowThrow(t) \/ GrowSlab(t) \/ GrowTie(t) \/ GrowSplice(t) \/ GrowMiss(t)
    \/ FreeLink(t) \/ FreeSwap(t) \/ FreeMiss(t) \/ FreeReturn(t)
    \/ \E b \in Blocks : FreeLoad(t, b)

Spec == Init /\ [][Next]_vars

(***************************************************************************)
(* Properties                                                              *)
(***************************************************************************)

\* Where a walk along the free list is after i steps.
Walk[i \in 0 .. Cardinality(Blocks)] ==
  IF i = 0 THEN head.index
  ELSE IF Walk[i - 1] = kNullIndex THEN kNullIndex ELSE link[Walk[i - 1]]

Free == {Walk[i] : i \in DOMAIN Walk} \ {kNullIndex}

\* The blocks thread t alone has: popped and not yet returned, not yet pushed,
\* or not yet spliced.
InHand(t) ==
  CASE pc[t] \in {"popped", "tieback", "push"} -> {arg[t]}
    [] pc[t] \in {"tie", "splice"} -> arg[t] .. (arg[t] + BlocksPerSlab - 1)
    [] OTHER -> {}

\* Every block of a published slab is in exactly one place (free, held by a
\* caller, or in the hands of one thread) and the free list ends: a pop whose
\* head was popped and pushed back meanwhile hands out no block twice and
\* loses none.
BlocksPartitioned ==
  /\ Walk[Cardinality(Blocks)] = kNullIndex
  /\ Free \cap held = {}
  /\ \A t \in Threads :
       /\ InHand(t) \cap (Free \cup held) = {}
       /\ \A u \in Threads \ {t} : InHand(t) \cap InHand(u) = {}
  /\ Free \cup held \cup UNION {InHand(t) : t \in Threads} = 0 .. (slabs * BlocksPerSlab - 1)

\* live_allocations() counts the blocks that callers hold and those that
\* deallocate has not counted yet: it is never negative, and exact at rest.
LiveAllocations ==
  allocated = Cardinality(held)
              + Cardinality({t \in Threads : pc[t] \in {"tieback", "push", "pushed"}})
=============================================================================
