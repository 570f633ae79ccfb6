------------------------------ MODULE Replicas -------------------------------
(***************************************************************************)
(* The replicas of the control plane: every node applies the committed     *)
(* commands to its own FSM, takes snapshots, is brought up to date with a  *)
(* snapshot, and recovers its FSM after a restart.                         *)
(*                                                                         *)
(* Consensus itself is hashicorp/raft and stands here for what the code    *)
(* relies on: one committed log that only grows; entries a leader accepted *)
(* and has not committed, which survive a change of leader or not; nodes   *)
(* that take themselves for the leader for a while after another one was   *)
(* elected.                                                                *)
(***************************************************************************)
EXTENDS ControlClient

CONSTANTS
  NoNode,       \* no leader known
  Voters,       \* members when the behaviour begins
  FirstLeader,  \* their leader then
  Prelude,      \* the commands that are committed then
  Recorded,     \* what they returned, one after the other
  Threshold,    \* commands between two snapshots of a node
  MaxLog        \* bound on the commands that are accepted

VARIABLES
  log,       \* the committed commands: [id, cmd]
  tail,      \* tail[n]: what n's log holds beyond the committed commands
  leader,    \* the leader of the current term, or NoNode
  member,    \* the voters
  role,      \* role[n]: n takes itself for the leader
  fsm,       \* fsm[n]: n's FSM
  applied,   \* applied[n]: how many committed commands n has applied
  snap,      \* snap[n]: n's last snapshot: [index, data]
  elections, \* bound: elections that may still be held
  restarts,  \* bound: nodes that may still be restarted
  machine    \* history: result and state of each committed command, in order

raft == <<log, tail, leader, member, role, fsm, applied, snap, elections, restarts, machine>>

\* Attempts that are sent have a number from 1 on; the earlier ones are negative.
AttemptIds == Threads \X Nat

\* Entries of a log.
SelfIds == Nodes \X {"self"} \X Int
Ids == (Threads \X Int) \cup SelfIds
Entries == {e \in [id : Ids, cmd : Commands] : Stamped(e.cmd)}

ASSUME PreludeAssumption ==
  /\ FirstLeader \in Nodes
  /\ Prelude \in Seq(Entries)
  /\ Recorded \in Seq(Results) /\ Len(Recorded) = Len(Prelude)
  /\ \A i \in 1 .. Len(Prelude) :
       Recorded[i] = Apply(IF i = 1 THEN Empty ELSE Recorded[i - 1].state, Prelude[i].cmd, 0)
  /\ \A i \in 1 .. Len(Prelude) :
       /\ Prelude[i].id \notin AttemptIds
       /\ Prelude[i].id \in SelfIds => Prelude[i].cmd = RegisterNodeCmd(Prelude[i].id[1])

StateAt(i) == IF i = 0 THEN Empty ELSE machine[i].state

\* Raft.Apply on a node that takes itself for the leader.
Accept(n, id, cmd) ==
  /\ Len(log) + Len(tail[n]) < MaxLog
  /\ tail' = [tail EXCEPT ![n] = Append(@, [id |-> id, cmd |-> cmd])]
  /\ UNCHANGED <<log, leader, member, role, fsm, applied, snap, elections, restarts, machine>>

\* The leader commits its oldest entry; a log that differs there is cut.
Commit ==
  /\ leader # NoNode /\ tail[leader] # <<>>
  /\ LET e == Head(tail[leader]) IN
     /\ log' = Append(log, e)
     /\ tail' = [n \in Nodes |-> IF tail[n] # <<>> /\ Head(tail[n]) = e THEN Tail(tail[n]) ELSE <<>>]
     /\ machine' = Append(machine, Apply(StateAt(Len(log)), e.cmd, 0))
  /\ UNCHANGED <<leader, member, role, fsm, applied, snap, elections, restarts>>

\* n's log beyond the committed part is its own, or what it got of another one's.
Elect(n) ==
  /\ elections > 0
  /\ n \in member /\ ~role[n]
  /\ elections' = elections - 1
  /\ leader' = n
  /\ role' = [role EXCEPT ![n] = TRUE]
  /\ \E m \in Nodes : \E k \in 0..Len(tail[m]) :
       /\ m = n => k = Len(tail[n])
       /\ tail' = [tail EXCEPT ![n] = SubSeq(tail[m], 1, k)]
  /\ UNCHANGED <<log, member, fsm, applied, snap, restarts, machine>>

\* A node finds out that it does not lead (any more).
StepDown(n) ==
  /\ role[n]
  /\ leader = n => elections > 0
  /\ role' = [role EXCEPT ![n] = FALSE]
  /\ leader' = IF leader = n THEN NoNode ELSE leader
  /\ UNCHANGED <<log, tail, member, fsm, applied, snap, elections, restarts, machine>>

\* What n's next Apply returns, n's own clock showing now.
NextResult(n, now) == Apply(fsm[n], log[applied[n] + 1].cmd, now)

ApplyNext(n, now) ==
  /\ n \in member /\ applied[n] < Len(log)
  /\ fsm' = [fsm EXCEPT ![n] = NextResult(n, now).state]
  /\ applied' = [applied EXCEPT ![n] = @ + 1]
  /\ UNCHANGED <<log, tail, leader, member, role, snap, elections, restarts, machine>>

\* Snapshot and Persist: what is persisted was copied by Snapshot, so commands
\* applied in between do not show in it.
TakeSnapshot(n) ==
  /\ applied[n] >= snap[n].index + Threshold
  /\ snap' = [snap EXCEPT ![n] = [index |-> applied[n], data |-> Snapshot(fsm[n])]]
  /\ UNCHANGED <<log, tail, leader, member, role, fsm, applied, elections, restarts, machine>>

InstallSnapshot(n) ==
  /\ leader # NoNode /\ n \in member /\ ~role[n] /\ applied[n] < snap[leader].index
  /\ snap' = [snap EXCEPT ![n] = snap[leader]]
  /\ fsm' = [fsm EXCEPT ![n] = Restore(snap[leader].data)]
  /\ applied' = [applied EXCEPT ![n] = snap[leader].index]
  /\ UNCHANGED <<log, tail, leader, member, role, elections, restarts, machine>>

\* The process ends and comes back with what its data directory holds.
RestartNode(n) ==
  /\ restarts > 0
  /\ restarts' = restarts - 1
  /\ fsm' = [fsm EXCEPT ![n] = Restore(snap[n].data)]
  /\ applied' = [applied EXCEPT ![n] = snap[n].index]
  /\ role' = [role EXCEPT ![n] = FALSE]
  /\ leader' = IF leader = n THEN NoNode ELSE leader
  /\ UNCHANGED <<log, tail, member, snap, elections, machine>>

RaftInit ==
  /\ member = Voters
  /\ log = Prelude /\ machine = Recorded
  /\ tail = [n \in Nodes |-> <<>>]
  /\ leader = FirstLeader
  /\ role = [n \in Nodes |-> n = FirstLeader]
  /\ applied = [n \in Nodes |-> IF n \in Voters THEN Len(Prelude) ELSE 0]
  /\ fsm = [n \in Nodes |-> StateAt(applied[n])]
  /\ snap = [n \in Nodes |-> [index |-> applied[n], data |-> Snapshot(fsm[n])]]
=============================================================================
