---------------------------- MODULE AdaptiveSender ---------------------------
(***************************************************************************)
(* media::AdaptiveSender with its BitrateController, the                   *)
(* NetworkConditionEstimator it reads, the PriorityPacketQueue and the     *)
(* token bucket.  drain() runs in one thread with the now_ms it was given, *)
(* while other threads enqueue packets and record measurements.  Bytes per *)
(* unit of time stand for kbit/s, and losses are counted in LossUnits.     *)
(***************************************************************************)
EXTENDS Integers, Sequences

CONSTANTS
  Ladder,         \* ladder_ : the rate of each quality level, ascending
  Confirmations,  \* upgrade_confirmations_
  Headroom,       \* bandwidth_headroom_, in tenths
  Burst,          \* the time (0.5 s) whose bytes the bucket holds
  Window,         \* bandwidth_window_ms_
  LossUnits,      \* a loss rate of 1
  LossThreshold,  \* loss_threshold_
  Sizes,          \* sizes of Normal packets
  Received,       \* sizes of what the receiver reports
  MaxPackets,     \* bound: packets enqueued
  MaxSamples,     \* bound: measurements recorded
  MaxDrains,      \* bound: calls of drain()
  MaxTime         \* bound: the time

VARIABLES
  now,
  samples,    \* samples_ : [at, bytes]
  loss,       \* loss_ema_, or -1 before the first sample
  level,      \* current_index_
  good,       \* consecutive_good_
  bucket,     \* the DeterministicTokenBucket
  queues,     \* queues_ : the sizes of the packets, High and Normal
  draining,   \* the now_ms of the drain() that is running, or -1
  count,      \* bound: packets, measurements and calls of drain() so far
  upgraded,   \* history: what the last evaluate() read if it moved up, else <<>>
  allowance,  \* history: bytes the levels chosen so far permit up to now
  spent,      \* history: Normal bytes sent
  high        \* history: High packets enqueued, sent

vars == <<now, samples, loss, level, good, bucket, queues, draining, count, upgraded, allowance, spent, high>>
estimator == <<samples, loss>>
controller == <<level, good, upgraded>>

Least(a, b) == IF a < b THEN a ELSE b
RECURSIVE Bytes(_)
Bytes(s) == IF s = <<>> THEN 0 ELSE Head(s).bytes + Bytes(Tail(s))

(***************************************************************************)
(* NetworkConditionEstimator                                               *)
(***************************************************************************)

evict_old(s, t) == SelectSeq(s, LAMBDA x : t - x.at <= Window)

record_received_bytes(b) ==
  /\ count.samples < MaxSamples
  /\ samples' = evict_old(Append(samples, [at |-> now, bytes |-> b]), now)
  /\ count' = [count EXCEPT !.samples = @ + 1]
  /\ UNCHANGED <<now, loss, controller, bucket, queues, draining, allowance, spent, high>>

\* The moving average gives half of its weight to the new sample.
record_loss_sample(lost) ==
  /\ count.samples < MaxSamples
  /\ LET sample == IF lost THEN LossUnits ELSE 0
     IN  loss' = IF loss = -1 THEN sample ELSE (sample + loss) \div 2
  /\ count' = [count EXCEPT !.samples = @ + 1]
  /\ UNCHANGED <<now, samples, controller, bucket, queues, draining, allowance, spent, high>>

\* The bytes of the window and the time they took: a rate as a fraction.
estimated_bandwidth(t) ==
  LET s == evict_old(samples, t)
  IN  IF s = <<>> THEN [bytes |-> 0, span |-> 1]
      ELSE [bytes |-> Bytes(s), span |-> IF t > s[1].at THEN t - s[1].at ELSE 1]

estimated_loss_rate == IF loss = -1 THEN 0 ELSE loss

(***************************************************************************)
(* BitrateController                                                       *)
(***************************************************************************)

\* bw < Ladder[i] * bandwidth_headroom_
Below(bw, i) == bw.bytes * 10 < Ladder[i] * Headroom * bw.span

\* Mutant: the level one moves up from is tested, not the one above it.
evaluate_Same(t) ==
  LET bw == estimated_bandwidth(t)
      bad == estimated_loss_rate >= LossThreshold \/ (bw.bytes > 0 /\ Below(bw, level))
      up == ~bad /\ good + 1 >= Confirmations /\ level < Len(Ladder) /\ ~Below(bw, level)
  IN  /\ level' = IF bad THEN (IF level > 1 THEN level - 1 ELSE level) ELSE IF up THEN level + 1 ELSE level
      /\ good' = IF bad \/ up THEN 0 ELSE good + 1
      /\ upgraded' = IF up THEN <<bw, estimated_loss_rate>> ELSE <<>>

\* Down at once when loss or bandwidth are bad; up after enough good readings
\* in a row if the bandwidth suffices for the next level.
evaluate(t) ==
  LET bw == estimated_bandwidth(t)
      bad == estimated_loss_rate >= LossThreshold \/ (bw.bytes > 0 /\ Below(bw, level))
      up == ~bad /\ good + 1 >= Confirmations /\ level < Len(Ladder) /\ ~Below(bw, level + 1)
  IN  /\ level' = IF bad THEN (IF level > 1 THEN level - 1 ELSE level) ELSE IF up THEN level + 1 ELSE level
      /\ good' = IF bad \/ up THEN 0 ELSE good + 1
      /\ upgraded' = IF up THEN <<bw, estimated_loss_rate>> ELSE <<>>

(***************************************************************************)
(* DeterministicTokenBucket                                                *)
(***************************************************************************)

refill(b, t) ==
  [b EXCEPT !.tokens = Least(b.capacity, b.tokens + (IF t > b.last THEN t - b.last ELSE 0) * b.rate),
            !.last = t]

\* Mutant: the new rate is set before the old one is settled.
reconfigure_First(b, rate, cap, t) ==
  LET s == IF b.initialized THEN refill([b EXCEPT !.rate = rate, !.capacity = cap], t)
           ELSE [b EXCEPT !.tokens = cap, !.last = t, !.initialized = TRUE]
  IN  [s EXCEPT !.rate = rate, !.capacity = cap, !.tokens = Least(@, cap)]

reconfigure(b, rate, cap, t) ==
  LET settled == IF b.initialized THEN refill(b, t)
                 ELSE [b EXCEPT !.tokens = cap, !.last = t, !.initialized = TRUE]
  IN  [settled EXCEPT !.rate = rate, !.capacity = cap, !.tokens = Least(@, cap)]

(***************************************************************************)
(* AdaptiveSender                                                          *)
(***************************************************************************)

enqueue(priority, size) ==
  /\ count.packets < MaxPackets
  /\ queues' = [queues EXCEPT ![priority] = Append(@, size)]
  /\ count' = [count EXCEPT !.packets = @ + 1]
  /\ high' = IF priority = "High" THEN [high EXCEPT !.enqueued = @ + 1] ELSE high
  /\ UNCHANGED <<now, estimator, controller, bucket, draining, allowance, spent>>

\* drain() chooses the level and its rate ...
DrainStart ==
  /\ draining = -1 /\ count.drains < MaxDrains
  /\ evaluate(now)
  /\ bucket' = reconfigure(bucket, Ladder[level'], Ladder[level'] * Burst, now)
  /\ samples' = evict_old(samples, now)
  /\ draining' = now
  /\ allowance' = IF bucket.initialized THEN allowance ELSE bucket'.capacity
  /\ count' = [count EXCEPT !.drains = @ + 1]
  /\ UNCHANGED <<now, loss, queues, spent, high>>

\* ... sends every control packet ...
DrainHigh ==
  /\ draining # -1 /\ queues.High # <<>>
  /\ queues' = [queues EXCEPT !.High = Tail(@)]
  /\ high' = [high EXCEPT !.sent = @ + 1]
  /\ UNCHANGED <<now, estimator, controller, bucket, draining, count, allowance, spent>>

\* ... and, when there is none, a frame if there are tokens for it: else it is dropped.
DrainNormal ==
  /\ draining # -1 /\ queues.High = <<>> /\ queues.Normal # <<>>
  /\ LET b == refill(bucket, draining)
         size == Head(queues.Normal)
     IN  IF b.tokens >= size
         THEN bucket' = [b EXCEPT !.tokens = @ - size] /\ spent' = spent + size
         ELSE bucket' = b /\ UNCHANGED spent
  /\ queues' = [queues EXCEPT !.Normal = Tail(@)]
  /\ UNCHANGED <<now, estimator, controller, draining, count, allowance, high>>

DrainEnd ==
  /\ draining # -1 /\ queues.High = <<>> /\ queues.Normal = <<>>
  /\ draining' = -1
  /\ UNCHANGED <<now, estimator, controller, bucket, queues, count, allowance, spent, high>>

Tick ==
  /\ now < MaxTime
  /\ now' = now + 1
  /\ allowance' = allowance + bucket.rate
  /\ UNCHANGED <<estimator, controller, bucket, queues, draining, count, spent, high>>

Init ==
  /\ now = 0
  /\ samples = <<>> /\ loss = -1
  /\ level = 1 /\ good = 0 /\ upgraded = <<>>
  /\ bucket = [initialized |-> FALSE, tokens |-> 0, last |-> 0, rate |-> 0, capacity |-> 0]
  /\ queues = [High |-> <<>>, Normal |-> <<>>]
  /\ draining = -1
  /\ count = [packets |-> 0, samples |-> 0, drains |-> 0]
  /\ allowance = 0 /\ spent = 0 /\ high = [enqueued |-> 0, sent |-> 0]

Next ==
  \/ \E b \in Received : record_received_bytes(b)
  \/ \E lost \in BOOLEAN : record_loss_sample(lost)
  \/ enqueue("High", 1)
  \/ \E size \in Sizes : enqueue("Normal", size)
  \/ DrainStart \/ DrainHigh \/ DrainNormal \/ DrainEnd
  \/ Tick

Spec == Init /\ [][Next]_vars

(***************************************************************************)
(* Properties                                                              *)
(***************************************************************************)

\* The frames sent never exceed one burst and what the levels chosen at each
\* time allow since: no change of level creates tokens.
SpendingBounded == spent <= allowance

\* A level one has just moved up to is not left again by an evaluate() that
\* reads the same or better conditions: the ladder does not oscillate.
NoOscillation ==
  [][level' < level /\ upgraded # <<>> =>
       LET bw == estimated_bandwidth(now)
           was == upgraded[1]
       IN  estimated_loss_rate > upgraded[2] \/ bw.bytes * was.span < was.bytes * bw.span]_vars

\* Control packets are neither dropped nor held back by the budget: all that
\* were enqueued are sent or still queued, and drain() leaves none.
ControlExempt == high.enqueued = high.sent + Len(queues.High)
=============================================================================
