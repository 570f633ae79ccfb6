------------------------------ MODULE MpmcQueue ------------------------------
(***************************************************************************)
(* queue::MpmcQueue: a ring of slots, each with a sequence number, shared  *)
(* by any number of pushing and popping threads.                           *)
(*                                                                         *)
(* One action is one access to shared memory.  Positions are unbounded     *)
(* here: the std::size_t counters do not wrap in the life of a process.    *)
(* The sequence numbers are read with acquire and written with release,    *)
(* and every access to a slot's storage lies between such a read and such  *)
(* a write, so interleaving whole accesses is all the memory model allows. *)
(***************************************************************************)
EXTENDS Integers, Sequences, FiniteSets

CONSTANTS
  Pushers,   \* threads that call try_push
  Poppers,   \* threads that call try_pop
  Values,    \* what is pushed
  None,      \* uninitialised storage, and no value
  Capacity,  \* capacity_, a power of two
  MaxPos     \* bound: positions handed out by tail_

ASSUME MpmcAssumption ==
  /\ Capacity \in Nat \ {0}
  /\ MaxPos \in Nat
  /\ Pushers \cap Poppers = {}
  /\ None \notin Values

Threads == Pushers \cup Poppers
Slots == 0 .. (Capacity - 1)

VARIABLES
  sequence,  \* slots_[i].sequence
  storage,   \* slots_[i].storage
  head,      \* head_
  tail,      \* tail_
  pc,        \* where each thread is
  pos,       \* its local pos
  value      \* what it pushes, or has popped

shared == <<sequence, storage, head, tail>>
vars == <<shared, pc, pos, value>>

Slot(t) == pos[t] % Capacity
Goto(t, l) == pc' = [pc EXCEPT ![t] = l]

(***************************************************************************)
(* try_push                                                                *)
(***************************************************************************)

\* pos = tail_.load()
PushStart(t, v) ==
  /\ pc[t] = "idle"
  /\ tail + Cardinality({u \in Pushers : pc[u] # "idle"}) < MaxPos
  /\ pos' = [pos EXCEPT ![t] = tail]
  /\ value' = [value EXCEPT ![t] = v]
  /\ Goto(t, "check")
  /\ UNCHANGED shared

\* Mutant: a stale pos is taken for a full queue.
PushCheckStale(t) ==
  /\ pc[t] = "check"
  /\ Goto(t, IF sequence[Slot(t)] = pos[t] THEN "claim" ELSE "idle")
  /\ UNCHANGED <<shared, pos, value>>

\* Mutant: a full queue is not recognised.
PushCheckUnbounded(t) ==
  /\ pc[t] = "check"
  /\ Goto(t, IF sequence[Slot(t)] <= pos[t] THEN "claim" ELSE "reload")
  /\ UNCHANGED <<shared, pos, value>>

\* The slot's sequence decides: claim it, report a full queue, or load tail_ again.
PushCheck(t) ==
  /\ pc[t] = "check"
  /\ LET diff == sequence[Slot(t)] - pos[t]
     IN  Goto(t, IF diff = 0 THEN "claim" ELSE IF diff < 0 THEN "idle" ELSE "reload")
  /\ UNCHANGED <<shared, pos, value>>

PushReload(t) ==
  /\ pc[t] = "reload"
  /\ pos' = [pos EXCEPT ![t] = tail]
  /\ Goto(t, "check")
  /\ UNCHANGED <<shared, value>>

\* compare_exchange_weak on tail_ succeeds ...
PushClaim(t) ==
  /\ pc[t] = "claim"
  /\ tail = pos[t]
  /\ tail' = tail + 1
  /\ Goto(t, "write")
  /\ UNCHANGED <<sequence, storage, head, pos, value>>

\* ... or fails, spuriously at times, and loads tail_.
PushMiss(t) ==
  /\ pc[t] = "claim"
  /\ pos' = [pos EXCEPT ![t] = tail]
  /\ Goto(t, "check")
  /\ UNCHANGED <<shared, value>>

PushWrite(t) ==
  /\ pc[t] = "write"
  /\ storage' = [storage EXCEPT ![Slot(t)] = value[t]]
  /\ Goto(t, "publish")
  /\ UNCHANGED <<sequence, head, tail, pos, value>>

PushPublish(t) ==
  /\ pc[t] = "publish"
  /\ sequence' = [sequence EXCEPT ![Slot(t)] = pos[t] + 1]
  /\ Goto(t, "idle")
  /\ UNCHANGED <<storage, head, tail, pos, value>>

(***************************************************************************)
(* try_pop                                                                 *)
(***************************************************************************)

PopStart(t) ==
  /\ pc[t] = "idle"
  /\ pos' = [pos EXCEPT ![t] = head]
  /\ value' = [value EXCEPT ![t] = None]
  /\ Goto(t, "check")
  /\ UNCHANGED shared

PopCheck(t) ==
  /\ pc[t] = "check"
  /\ LET diff == sequence[Slot(t)] - (pos[t] + 1)
     IN  Goto(t, IF diff = 0 THEN "claim" ELSE IF diff < 0 THEN "idle" ELSE "reload")
  /\ UNCHANGED <<shared, pos, value>>

PopReload(t) ==
  /\ pc[t] = "reload"
  /\ pos' = [pos EXCEPT ![t] = head]
  /\ Goto(t, "check")
  /\ UNCHANGED <<shared, value>>

PopClaim(t) ==
  /\ pc[t] = "claim"
  /\ head = pos[t]
  /\ head' = head + 1
  /\ Goto(t, "read")
  /\ UNCHANGED <<sequence, storage, tail, pos, value>>

PopMiss(t) ==
  /\ pc[t] = "claim"
  /\ pos' = [pos EXCEPT ![t] = head]
  /\ Goto(t, "check")
  /\ UNCHANGED <<shared, value>>

\* The value is moved out and destroyed.
PopRead(t) ==
  /\ pc[t] = "read"
  /\ value' = [value EXCEPT ![t] = storage[Slot(t)]]
  /\ storage' = [storage EXCEPT ![Slot(t)] = None]
  /\ Goto(t, "release")
  /\ UNCHANGED <<sequence, head, tail, pos>>

\* The slot is ready for the next lap, and the value is returned.
PopRelease(t) ==
  /\ pc[t] = "release"
  /\ sequence' = [sequence EXCEPT ![Slot(t)] = pos[t] + Capacity]
  /\ Goto(t, "idle")
  /\ UNCHANGED <<storage, head, tail, pos, value>>

Init ==
  /\ sequence = [i \in Slots |-> i]
  /\ storage = [i \in Slots |-> None]
  /\ head = 0
  /\ tail = 0
  /\ pc = [t \in Threads |-> "idle"]
  /\ pos = [t \in Threads |-> 0]
  /\ value = [t \in Threads |-> None]

Pushing(t) ==
  \/ PushCheck(t) \/ PushReload(t) \/ PushClaim(t) \/ PushMiss(t)
  \/ PushWrite(t) \/ PushPublish(t)

Popping(t) ==
  \/ PopCheck(t) \/ PopReload(t) \/ PopClaim(t) \/ PopMiss(t)
  \/ PopRead(t) \/ PopRelease(t)

Next ==
  \/ \E t \in Pushers : Pushing(t) \/ \E v \in Values : PushStart(t, v)
  \/ \E t \in Poppers : Popping(t) \/ PopStart(t)

Spec == Init /\ [][Next]_vars

(***************************************************************************)
(* Properties                                                              *)
(***************************************************************************)

\* What is at position n of the queue: the storage, or what the thread that has
\* claimed the position is about to write there.
ItemAt(n) ==
  IF \E t \in Pushers : pc[t] = "write" /\ pos[t] = n
  THEN value[CHOOSE t \in Pushers : pc[t] = "write" /\ pos[t] = n]
  ELSE storage[n % Capacity]

Fifo == INSTANCE BoundedFifo WITH
  items <- [i \in 1 .. (tail - head) |-> ItemAt(head + i - 1)],
  taken <- [t \in Poppers |-> CASE pc[t] = "read"    -> storage[Slot(t)]
                                [] pc[t] = "release" -> value[t]
                                [] OTHER             -> None]

\* The ring is a bounded FIFO queue: a push takes effect when its CAS on tail_
\* succeeds and a pop when its CAS on head_ does; in between nothing is lost,
\* doubled, reordered or overwritten, and try_pop returns what it took.
ImplementsFifo == Fifo!Spec

\* "queue full: this slot hasn't been consumed yet": an unconsumed slot is never
\* claimed again, so at most capacity() positions are between head_ and tail_.
NeverOverfull == tail - head <= Capacity

\* try_push returns false only when the element one lap behind is still queued
\* or a try_pop that has claimed it has not released its slot.
FullHasReason ==
  [][\A t \in Pushers : PushCheck(t) /\ pc'[t] = "idle" =>
       \/ head <= pos[t] - Capacity
       \/ \E u \in Poppers : pc[u] \in {"read", "release"} /\ pos[u] = pos[t] - Capacity]_vars

\* try_pop returns nullopt only when nothing is queued at its position, or a
\* try_push that has claimed the position has not published it.
EmptyHasReason ==
  [][\A t \in Poppers : PopCheck(t) /\ pc'[t] = "idle" =>
       \/ tail <= pos[t]
       \/ \E u \in Pushers : pc[u] \in {"write", "publish"} /\ pos[u] = pos[t]]_vars
=============================================================================
