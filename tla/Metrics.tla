------------------------------- MODULE Metrics -------------------------------
(***************************************************************************)
(* metrics::Histogram: threads observe values while another one renders    *)
(* the histogram, without a lock between them.  One action is one access   *)
(* to an atomic; the order of a thread's accesses is that of the program.  *)
(***************************************************************************)
EXTENDS Integers, Sequences

CONSTANTS
  Observers,
  Bounds,   \* bounds_, ascending
  Values,   \* what is observed
  MaxCount  \* bound: observations

VARIABLES
  count, sum, bucket_counts,  \* the atomics
  obs,     \* each observer: where it is, its value and its old_sum
  render,  \* render_prometheus: the bound it is at, the bucket it reads next, the
           \* total so far, and what it has written
  total    \* history: the sum of all values whose observe() has begun

vars == <<count, sum, bucket_counts, obs, render, total>>

Resting == [at |-> "idle", v |-> 0, old |-> 0]
NotRendering == [bound |-> 0, next |-> 1, sum |-> 0, out |-> <<>>]

\* The index upper_bound finds, counted from 1: the first bound above v.
upper_bound(v) ==
  CHOOSE i \in 1 .. Len(Bounds) + 1 :
    /\ \A j \in 1 .. i - 1 : Bounds[j] <= v
    /\ i <= Len(Bounds) => Bounds[i] > v

(***************************************************************************)
(* observe                                                                 *)
(***************************************************************************)

ObserveCount(o, v) ==
  /\ obs[o].at = "idle" /\ count < MaxCount
  /\ count' = count + 1
  /\ total' = total + v
  /\ obs' = [obs EXCEPT ![o] = [at |-> "load", v |-> v, old |-> 0]]
  /\ UNCHANGED <<sum, bucket_counts, render>>

ObserveLoad(o) ==
  /\ obs[o].at = "load"
  /\ obs' = [obs EXCEPT ![o].at = "cas", ![o].old = sum]
  /\ UNCHANGED <<count, sum, bucket_counts, render, total>>

\* Mutant: the sum is stored.
ObserveStore(o) ==
  /\ obs[o].at = "cas"
  /\ sum' = obs[o].old + obs[o].v
  /\ obs' = [obs EXCEPT ![o].at = "bucket"]
  /\ UNCHANGED <<count, bucket_counts, render, total>>

\* compare_exchange_weak: it fails if sum_ has changed, or for no reason.
ObserveSum(o) ==
  /\ obs[o].at = "cas"
  /\ \/ /\ sum = obs[o].old
        /\ sum' = obs[o].old + obs[o].v
        /\ obs' = [obs EXCEPT ![o].at = "bucket"]
     \/ /\ obs' = [obs EXCEPT ![o].old = sum]
        /\ UNCHANGED sum
  /\ UNCHANGED <<count, bucket_counts, render, total>>

ObserveBucket(o) ==
  /\ obs[o].at = "bucket"
  /\ bucket_counts' = [bucket_counts EXCEPT ![upper_bound(obs[o].v)] = @ + 1]
  /\ obs' = [obs EXCEPT ![o] = Resting]
  /\ UNCHANGED <<count, sum, render, total>>

(***************************************************************************)
(* render_prometheus                                                       *)
(***************************************************************************)

RenderStart ==
  /\ render.bound = 0
  /\ render' = [NotRendering EXCEPT !.bound = 1]
  /\ UNCHANGED <<count, sum, bucket_counts, obs, total>>

\* One turn of cumulative_count's loop, for each bound from the first bucket on.
ReadBucket ==
  /\ render.bound \in 1 .. Len(Bounds)
  /\ LET t == render.sum + bucket_counts[render.next]
     IN  render' = IF render.next < render.bound
                   THEN [render EXCEPT !.next = @ + 1, !.sum = t]
                   ELSE [bound |-> render.bound + 1, next |-> 1, sum |-> 0, out |-> Append(render.out, t)]
  /\ UNCHANGED <<count, sum, bucket_counts, obs, total>>

\* The +Inf bucket and _count are both count(); _sum lies between them.
ReadCount ==
  /\ render.bound > Len(Bounds)
  /\ render' = IF Len(render.out) <= Len(Bounds) THEN [render EXCEPT !.out = Append(@, count)] ELSE NotRendering
  /\ UNCHANGED <<count, sum, bucket_counts, obs, total>>

Init ==
  /\ count = 0 /\ sum = 0 /\ total = 0
  /\ bucket_counts = [i \in 1 .. Len(Bounds) + 1 |-> 0]
  /\ obs = [o \in Observers |-> Resting]
  /\ render = NotRendering

Next ==
  \/ \E o \in Observers :
       \/ ObserveLoad(o) \/ ObserveSum(o) \/ ObserveBucket(o)
       \/ \E v \in Values : ObserveCount(o, v)
  \/ RenderStart \/ ReadBucket \/ ReadCount

Spec == Init /\ [][Next]_vars

(***************************************************************************)
(* Properties                                                              *)
(***************************************************************************)

\* "matching Prometheus's cumulative histogram semantics": what a scrape reports
\* never decreases from one bound to the next, nor to the +Inf bucket, although
\* values are observed while it reads.
ScrapeCumulative == \A i \in 1 .. Len(render.out) - 1 : render.out[i] <= render.out[i + 1]

\* No observation is lost in the races on sum_: when no observe() runs, sum_ is
\* the sum of all values.
SumExact == (\A o \in Observers : obs[o].at = "idle") => sum = total
=============================================================================
