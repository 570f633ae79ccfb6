------------------------------ MODULE SpscQueue ------------------------------
(***************************************************************************)
(* queue::SpscQueue: a ring with one pushing and one popping thread, each  *)
(* of which keeps a copy of the other's index and refreshes it only when   *)
(* the queue looks full or empty.                                          *)
(*                                                                         *)
(* One action is one access to shared memory (head_, tail_, a slot).       *)
(***************************************************************************)
EXTENDS Integers, Sequences

CONSTANTS
  Values,     \* what is pushed
  None,       \* uninitialised storage, and no value
  Requested,  \* the constructor's capacity
  MaxPos      \* bound: elements that are pushed

VARIABLES
  buffer,        \* buffer_
  head, tail,    \* head_, tail_
  head_cached,   \* the producer's head_cached_
  tail_cached,   \* the consumer's tail_cached_
  producer,      \* where try_push is, and what it pushes: [at, value]
  consumer       \* where try_pop is, and what it moved out: [at, value]

vars == <<buffer, head, tail, head_cached, tail_cached, producer, consumer>>

round_up_pow2(v) == CHOOSE p \in {2^k : k \in 0..v} : p >= v /\ (p = 1 \/ p < 2 * v)
capacity == round_up_pow2(Requested)
Ready == [at |-> "idle", value |-> None]

(***************************************************************************)
(* try_push                                                                *)
(***************************************************************************)

\* The copy of head_ says whether there is room; if not, it may be old.
PushStart(v) ==
  /\ producer.at = "idle" /\ tail < MaxPos
  /\ producer' = [at |-> IF tail + 1 - head_cached > capacity THEN "refresh" ELSE "write", value |-> v]
  /\ UNCHANGED <<buffer, head, tail, head_cached, tail_cached, consumer>>

\* head_ is loaded; a queue that is still full makes try_push return false.
PushRefresh ==
  /\ producer.at = "refresh"
  /\ head_cached' = head
  /\ producer' = IF tail + 1 - head > capacity THEN Ready ELSE [producer EXCEPT !.at = "write"]
  /\ UNCHANGED <<buffer, head, tail, tail_cached, consumer>>

PushWrite ==
  /\ producer.at = "write"
  /\ buffer' = [buffer EXCEPT ![tail % capacity] = producer.value]
  /\ producer' = [producer EXCEPT !.at = "publish"]
  /\ UNCHANGED <<head, tail, head_cached, tail_cached, consumer>>

PushPublish ==
  /\ producer.at = "publish"
  /\ tail' = tail + 1
  /\ producer' = Ready
  /\ UNCHANGED <<buffer, head, head_cached, tail_cached, consumer>>

(***************************************************************************)
(* try_pop                                                                 *)
(***************************************************************************)

\* Mutant: the copy of tail_ is taken to be one ahead.
PopStartEager ==
  /\ consumer.at = "idle"
  /\ consumer' = [at |-> IF head > tail_cached THEN "refresh" ELSE "read", value |-> None]
  /\ UNCHANGED <<buffer, head, tail, head_cached, tail_cached, producer>>

PopStart ==
  /\ consumer.at = "idle"
  /\ consumer' = [at |-> IF head >= tail_cached THEN "refresh" ELSE "read", value |-> None]
  /\ UNCHANGED <<buffer, head, tail, head_cached, tail_cached, producer>>

PopRefresh ==
  /\ consumer.at = "refresh"
  /\ tail_cached' = tail
  /\ consumer' = IF head >= tail THEN Ready ELSE [consumer EXCEPT !.at = "read"]
  /\ UNCHANGED <<buffer, head, tail, head_cached, producer>>

\* The value is moved out and destroyed.
PopRead ==
  /\ consumer.at = "read"
  /\ consumer' = [at |-> "release", value |-> buffer[head % capacity]]
  /\ buffer' = [buffer EXCEPT ![head % capacity] = None]
  /\ UNCHANGED <<head, tail, head_cached, tail_cached, producer>>

PopRelease ==
  /\ consumer.at = "release"
  /\ head' = head + 1
  /\ consumer' = Ready
  /\ UNCHANGED <<buffer, tail, head_cached, tail_cached, producer>>

Init ==
  /\ buffer = [i \in 0 .. (capacity - 1) |-> None]
  /\ head = 0 /\ tail = 0 /\ head_cached = 0 /\ tail_cached = 0
  /\ producer = Ready /\ consumer = Ready

Next ==
  \/ \E v \in Values : PushStart(v)
  \/ PushRefresh \/ PushWrite \/ PushPublish
  \/ PopStart \/ PopRefresh \/ PopRead \/ PopRelease

Spec == Init /\ [][Next]_vars

(***************************************************************************)
(* Properties                                                              *)
(***************************************************************************)

\* The element leaves the queue when it is read, and is returned at the release.
Fifo == INSTANCE BoundedFifo WITH
  Capacity <- capacity,
  Poppers <- {"consumer"},
  items <- [i \in 1 .. (tail - head - (IF consumer.at = "release" THEN 1 ELSE 0)) |->
              buffer[(head + i - (IF consumer.at = "release" THEN 0 ELSE 1)) % capacity]],
  taken <- [c \in {"consumer"} |-> consumer.value]

\* With two copies of the indices that are refreshed late, the ring is still a
\* bounded FIFO queue: nothing is lost, doubled, reordered or overwritten
\* before it was read.
SpscFifo == Fifo!Spec

\* "genuinely full", "genuinely empty": a call fails only if the queue is full,
\* or empty, when the call ends, however old the copy it began with was.
SpscRefusals ==
  [][/\ producer.at = "refresh" /\ producer'.at = "idle" => tail - head = capacity
     /\ consumer.at = "refresh" /\ consumer'.at = "idle" => tail = head]_vars
=============================================================================
