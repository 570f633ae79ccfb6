----------------------------- MODULE MCLockFree ------------------------------
(***************************************************************************)
(* The three lock-free structures, each in behaviours of its own: the      *)
(* initial state chooses the one that runs.                                *)
(***************************************************************************)
EXTENDS MpmcQueue, TLC

CONSTANTS
  Requested, MaxPushed,                              \* of SpscQueue
  PoolThreads, BlocksPerSlab, kMaxSlabs, Generations \* of MemoryPool

VARIABLES
  running,  \* the structure that runs
  buffer, s_head, s_tail, head_cached, tail_cached, producer, consumer,
  free_head, link, slabs, allocated, lock, held, p_pc, old, arg

Spsc == INSTANCE SpscQueue WITH MaxPos <- MaxPushed, head <- s_head, tail <- s_tail
Pool == INSTANCE MemoryPool WITH Threads <- PoolThreads, head <- free_head, pc <- p_pc

spscVars == <<buffer, s_head, s_tail, head_cached, tail_cached, producer, consumer>>
poolVars == <<free_head, link, slabs, allocated, lock, held, p_pc, old, arg>>
allVars == <<running, vars, spscVars, poolVars>>

LockFreeInit == running \in {"mpmc", "spsc", "pool"} /\ Init /\ Spsc!Init /\ Pool!Init

LockFreeNext ==
  /\ UNCHANGED running
  /\ \/ running = "mpmc" /\ Next /\ UNCHANGED <<spscVars, poolVars>>
     \/ running = "spsc" /\ Spsc!Next /\ UNCHANGED <<vars, poolVars>>
     \/ running = "pool" /\ Pool!Next /\ UNCHANGED <<vars, spscVars>>

LockFreeSpec == LockFreeInit /\ [][LockFreeNext]_allVars

Symmetry == Permutations(Pushers) \cup Permutations(Poppers) \cup Permutations(Values)
            \cup Permutations(PoolThreads)

\* SpscQueue with its cached indices is a bounded FIFO queue (SpscQueue!SpscFifo).
SpscFifo == Spsc!SpscFifo

\* Either ring reports full or empty only with a reason (MpmcQueue's FullHasReason
\* and EmptyHasReason, SpscQueue!SpscRefusals).
RefusalsHaveReason == FullHasReason /\ EmptyHasReason /\ Spsc!SpscRefusals

\* MemoryPool hands out no block twice, loses none, and counts those in use
\* (MemoryPool!BlocksPartitioned and LiveAllocations).
BlocksAccounted == Pool!BlocksPartitioned /\ Pool!LiveAllocations
=============================================================================
