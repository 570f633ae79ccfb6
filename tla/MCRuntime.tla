------------------------------ MODULE MCRuntime ------------------------------
(***************************************************************************)
(* The timer wheel, the ConnectionManager on one, the thread pool, the     *)
(* logger, a histogram of the metrics and the hash ring, each in           *)
(* behaviours of its own: the initial state chooses the one that runs.     *)
(***************************************************************************)
EXTENDS TimerWheel, Logger, HashRing, TLC

CONSTANTS
  Connections, TimeoutMs, Reregister, MaxTimer,         \* of ConnectionManager
  TimerSlots, Delays, MaxTimers,                        \* of Timers
  t1, t2, t3, u1, Clients, Workers, Capacity, Width,    \* of ThreadPool
  Observers, Values, MaxCount                           \* of Metrics

VARIABLES
  running,  \* the component that runs
  timers, holder, callbacks, silent, reported,
  t_slots, t_current, t_nextId, dueIn, fired,
  p_queue, pending, p_stop, p_pc, task, attempt, ran, given,
  count, sum, bucket_counts, obs, render, total

\* t1 submits u1 when it runs.
Chain == (t1 :> u1) @@ (t2 :> None) @@ (t3 :> None)

\* The buckets' bounds.
MCBounds == <<2, 4>>

Connect == INSTANCE ConnectionManager
Wheel == INSTANCE Timers WITH
  NumSlots <- TimerSlots, MaxTimer <- MaxTimers, slots <- t_slots, current <- t_current, nextId <- t_nextId
Pool == INSTANCE ThreadPool WITH
  Tasks <- {t1, t2, t3}, Child <- Chain, queue <- p_queue, stop <- p_stop, pc <- p_pc
Histogram == INSTANCE Metrics WITH Bounds <- MCBounds

connectVars == <<wheel, timers, holder, callbacks, silent, reported>>
wheelVars == <<t_slots, t_current, t_nextId, dueIn, fired>>
poolVars == <<p_queue, pending, p_stop, p_pc, task, attempt, ran, given>>
metricVars == <<count, sum, bucket_counts, obs, render, total>>
allVars == <<running, connectVars, wheelVars, poolVars, vars, metricVars, ringVars>>

RuntimeInit ==
  /\ Connect!Init /\ Wheel!Init /\ Pool!Init /\ Init /\ Histogram!Init
  /\ \/ /\ running = "ring"
        /\ RingInit
     \/ /\ running \in {"connections", "timers", "pool", "logger", "metrics"}
        /\ ring = <<>> /\ hash_virtual_node = <<>>

RuntimeNext ==
  /\ UNCHANGED running
  /\ \/ running = "connections" /\ Connect!Next /\ UNCHANGED <<wheelVars, poolVars, vars, metricVars, ringVars>>
     \/ running = "timers" /\ Wheel!Next /\ UNCHANGED <<connectVars, poolVars, vars, metricVars, ringVars>>
     \/ running = "pool" /\ Pool!Next /\ UNCHANGED <<connectVars, wheelVars, vars, metricVars, ringVars>>
     \/ running = "logger" /\ Next /\ UNCHANGED <<connectVars, wheelVars, poolVars, metricVars, ringVars>>
     \/ running = "metrics" /\ Histogram!Next /\ UNCHANGED <<connectVars, wheelVars, poolVars, vars, ringVars>>
     \/ running = "ring" /\ RingNext /\ UNCHANGED <<connectVars, wheelVars, poolVars, vars, metricVars>>

\* The fairness of the component that runs.
RuntimeFairness ==
  /\ WF_connectVars(running = "connections" /\ Connect!Ticking)
  /\ \A c \in Connections : WF_connectVars(running = "connections" /\ Connect!HeartbeatArms(c))
  /\ \A t \in Clients \cup Workers : WF_poolVars(running = "pool" /\ Pool!Submitting(t))
  /\ \A w \in Workers : WF_poolVars(running = "pool" /\ Pool!Working(w))
  /\ WF_poolVars(running = "pool" /\ Pool!NotifyAll)
  /\ WF_vars(running = "logger" /\ Running)
  /\ WF_vars(running = "logger" /\ DestroyNotifies)
  /\ \A c \in Callers : WF_vars(running = "logger" /\ Calling(c))

RuntimeSpec == RuntimeInit /\ [][RuntimeNext]_allVars /\ RuntimeFairness

\* A connection that falls silent is reported within the timeout, and in the end
\* (ConnectionManager!DetectedInTime and SilenceDetected).
SilenceReported ==
  \A c \in Connections : []Connect!DetectedInTime(c) /\ Connect!SilenceDetected(c)

\* A timer fires exactly at the tick it was set for (Timers!FiresOnTime).
FiresOnTime == Wheel!FiresOnTime

\* No task runs twice, and pending_ counts the queued ones up to those in between
\* (ThreadPool!RunOnce and PendingMatches).
TasksAccounted == Pool!RunOnce /\ Pool!PendingMatches

\* Every task runs while the pool lives, and the pool's destructor returns
\* (ThreadPool!EveryTaskRuns and ShutdownEnds).
PoolProgress == Pool!EveryTaskRuns /\ Pool!ShutdownEnds

\* Nobody waits for run() in vain: every record is written, every flush() that
\* blocks returns, and so does ~Logger unless its notification is lost.
LoggerProgress == EveryRecordWritten /\ FlushEnds /\ ShutdownEnds

\* A scrape's buckets never decrease, and no observation is lost in sum_
\* (Metrics!ScrapeCumulative and SumExact).
HistogramConsistent == Histogram!ScrapeCumulative /\ Histogram!SumExact
=============================================================================
