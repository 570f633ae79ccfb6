-------------------------- MODULE ConnectionManager --------------------------
(***************************************************************************)
(* net::ConnectionManager on a TimerWheel: network threads register,       *)
(* unregister and refresh connections, and the ticking thread reports the  *)
(* ones whose timer fires.                                                 *)
(*                                                                         *)
(* A method holds the manager's mutex_ and calls the wheel, which has a    *)
(* mutex of its own: a tick can come between the two wheel calls of a      *)
(* heartbeat, and a heartbeat between a tick and the callbacks it runs.    *)
(***************************************************************************)
EXTENDS TimerWheel

CONSTANTS
  Connections,  \* connection ids
  TimeoutMs,    \* timeout_ms_
  None,         \* no timer, no connection
  Reregister,   \* whether callers register a connection that is tracked already
  MaxTimer      \* bound: timers that are armed

VARIABLES
  timers,     \* timers_ : the timer of each tracked connection, or None
  holder,     \* the connection whose heartbeat or registration holds mutex_, or None
  callbacks,  \* due callbacks the ticking thread has still to run: [id, owner, erased]
  silent,     \* history: ticks since a connection was last heard of, up to Timeout
  reported    \* history: on_timeout_ was called for the connection since it was last registered

vars == <<wheel, timers, holder, callbacks, silent, reported>>
Timeout == Ticks(TimeoutMs)

Init ==
  /\ WheelInit
  /\ timers = [c \in Connections |-> None]
  /\ holder = None
  /\ callbacks = <<>>
  /\ silent = [c \in Connections |-> 0]
  /\ reported = [c \in Connections |-> FALSE]

\* register_connection; it does not cancel a timer the connection may have.
RegisterConnection(c) ==
  /\ holder = None
  /\ timers[c] = None \/ Reregister
  /\ nextId <= MaxTimer
  /\ AddTimer(TimeoutMs, c)
  /\ timers' = [timers EXCEPT ![c] = nextId]
  /\ silent' = [silent EXCEPT ![c] = 0]
  /\ reported' = [reported EXCEPT ![c] = FALSE]
  /\ UNCHANGED <<holder, callbacks>>

\* unregister_connection; of one that is not tracked it does nothing.
UnregisterConnection(c) ==
  /\ holder = None
  /\ timers[c] # None
  /\ Cancel(timers[c])
  /\ timers' = [timers EXCEPT ![c] = None]
  /\ UNCHANGED <<holder, callbacks, silent, reported>>

\* on_heartbeat_received of a tracked connection cancels its timer ...
HeartbeatCancels(c) ==
  /\ holder = None
  /\ timers[c] # None
  /\ nextId <= MaxTimer
  /\ Cancel(timers[c])
  /\ holder' = c
  /\ silent' = [silent EXCEPT ![c] = 0]
  /\ UNCHANGED <<timers, callbacks, reported>>

\* Mutant: a heartbeat leaves the connection without a timer.
HeartbeatForgets(c) ==
  /\ holder = c
  /\ holder' = None
  /\ silent' = [silent EXCEPT ![c] = 0]
  /\ UNCHANGED <<wheel, timers, callbacks, reported>>

\* ... and arms a new one, whether or not the old one could be cancelled.
HeartbeatArms(c) ==
  /\ holder = c
  /\ AddTimer(TimeoutMs, c)
  /\ timers' = [timers EXCEPT ![c] = nextId]
  /\ holder' = None
  /\ silent' = [silent EXCEPT ![c] = 0]
  /\ UNCHANGED <<callbacks, reported>>

\* tick() collects the timers that are due once the last ones have run.
TickWheel ==
  /\ callbacks = <<>>
  /\ Tick
  /\ callbacks' = [i \in DOMAIN Due |-> [id |-> Due[i].id, owner |-> Due[i].owner, erased |-> FALSE]]
  /\ silent' = [c \in Connections |-> IF silent[c] < Timeout THEN silent[c] + 1 ELSE Timeout]
  /\ UNCHANGED <<timers, holder, reported>>

\* handle_timeout erases the connection under mutex_ ...
TimeoutErases ==
  /\ callbacks # <<>> /\ ~callbacks[1].erased
  /\ holder = None
  /\ timers' = [timers EXCEPT ![callbacks[1].owner] = None]
  /\ callbacks' = [callbacks EXCEPT ![1].erased = TRUE]
  /\ UNCHANGED <<wheel, holder, silent, reported>>

\* ... and reports it dead.
TimeoutReports ==
  /\ callbacks # <<>> /\ callbacks[1].erased
  /\ reported' = [reported EXCEPT ![callbacks[1].owner] = TRUE]
  /\ callbacks' = Tail(callbacks)
  /\ UNCHANGED <<wheel, timers, holder, silent>>

\* The ticking thread ticks for ever, and a method that holds mutex_ returns:
\* MCRuntime states this fairness.
Ticking == TickWheel \/ TimeoutErases \/ TimeoutReports

Next ==
  \/ \E c \in Connections :
       \/ RegisterConnection(c)
       \/ UnregisterConnection(c)
       \/ HeartbeatCancels(c)
       \/ HeartbeatArms(c)
  \/ TickWheel
  \/ TimeoutErases
  \/ TimeoutReports

Spec == Init /\ [][Next]_vars

(***************************************************************************)
(* Properties                                                              *)
(***************************************************************************)

\* A callback that will erase and report c is due.
Expiring(c) == \E i \in DOMAIN callbacks : callbacks[i].owner = c /\ ~callbacks[i].erased

\* A tracked connection that has been silent for timeout_ms is about to be
\* reported, or in the middle of a heartbeat: no interleaving of heartbeats and
\* ticks loses its timer.
DetectedInTime(c) == timers[c] # None /\ silent[c] >= Timeout => holder = c \/ Expiring(c)

\* "fires (and reports the connection dead) if no heartbeat is recorded before
\* it expires": a connection is reported only after timeout_ms of silence.
ReportedOnlyIfSilent ==
  [][\A c \in Connections : ~reported[c] /\ reported'[c] => silent[c] >= Timeout]_vars

\* A connection that is registered and falls silent is reported or unregistered.
SilenceDetected(c) == timers[c] # None ~> timers[c] = None
=============================================================================
