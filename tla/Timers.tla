------------------------------- MODULE Timers --------------------------------
(***************************************************************************)
(* Any use of a timer wheel: timers are added and cancelled between ticks. *)
(***************************************************************************)
EXTENDS TimerWheel

CONSTANTS
  Delays,   \* delays in ms that timers are added with
  MaxTimer  \* bound: timers that are added

VARIABLES
  dueIn,  \* history: the ticks until the timer of each id must fire; 0 when not set
  fired   \* history: the ids the last tick fired

vars == <<wheel, dueIn, fired>>
Ids == 1 .. MaxTimer

Init ==
  /\ WheelInit
  /\ dueIn = [n \in Ids |-> 0]
  /\ fired = {}

Add(d) ==
  /\ nextId <= MaxTimer
  /\ AddTimer(d, nextId)
  /\ dueIn' = [dueIn EXCEPT ![nextId] = Ticks(d)]
  /\ UNCHANGED fired

\* Also of a timer that has fired or was cancelled.
CancelTimer(n) ==
  /\ Cancel(n)
  /\ dueIn' = [dueIn EXCEPT ![n] = 0]
  /\ UNCHANGED fired

TickTimers ==
  /\ Tick
  /\ fired' = {Due[i].id : i \in DOMAIN Due}
  /\ dueIn' = [n \in Ids |-> IF dueIn[n] = 0 THEN 0 ELSE dueIn[n] - 1]

Next ==
  \/ \E d \in Delays : Add(d)
  \/ \E n \in Ids : CancelTimer(n)
  \/ TickTimers

Spec == Init /\ [][Next]_vars

\* A timer fires at the tick it was set for, neither early nor late however many
\* turns away that is, exactly once, and never after cancel() has removed it.
FiresOnTime == [][TickTimers => fired' = {n \in Ids : dueIn[n] = 1}]_vars
=============================================================================
