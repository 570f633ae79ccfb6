---------------------------- MODULE ControlServer ----------------------------
(***************************************************************************)
(* replicated.Server on every node.  A call that writes takes a timestamp, *)
(* is turned away with the leader's address unless the node leads, and     *)
(* otherwise waits until its command is committed and applied, or until    *)
(* the node loses the leadership.  An answer that is lost is one that      *)
(* comes after the client's deadline.                                      *)
(***************************************************************************)
EXTENDS Replicas

CONSTANTS
  Skew,     \* Skew[n]: how far n's clock is ahead
  MaxTime   \* bound on the time

VARIABLES
  handlers,  \* calls in the servers: [id, node, cmd, stage]
  time       \* real time

ASSUME SkewAssumption == Skew \in [Nodes -> Nat]

Clock(n) == time + Skew[n]
Self(n) == <<n, "self", elections>>

\* raftd ends when its join fails.
Running(n) == n \in Joiners => connected[n] # "failed"

\* raftd starts EnsureSelfRegistered when it has joined, or need not.
Registering(n) == n \in Joiners => connected[n] = "yes"

\* The calls n's server works on.
At(n) == {h \in handlers : h.node = n}

\* The proposal of n's own EnsureSelfRegistered.
Own(n) == {h \in At(n) : Len(h.id) = 3}

Move(h, stage) == handlers' = (handlers \ {h}) \cup {[h EXCEPT !.stage = stage]}

Awaits(h) == h.id[1] \in Threads /\ pc[h.id[1]] = "wait" /\ h.id = <<h.id[1], sent[h.id[1]]>>

\* Handler h ends; its answer reaches the client if it still waits for it.
Answer(h, code, hint, ok) ==
  /\ handlers' = handlers \ {h}
  /\ IF Awaits(h) THEN Receive(h.id[1], h.id, h.cmd, code, hint, ok) ELSE UNCHANGED client

\* The member that n's Raft takes for the leader, if n has its address.
leaderGRPCAddr(n) == fsm[n].nodes \cup {NoNode}

notLeader(h) ==
  \E addr \in leaderGRPCAddr(h.node) :
    Answer(h, IF addr # NoNode THEN "precondition" ELSE "unavailable", addr, FALSE)

\* The start of propose, and of JoinCluster, on a node that does not lead.
TurnAway(h) ==
  /\ h.stage = "arrived" /\ ~role[h.node]
  /\ notLeader(h)
  /\ UNCHANGED <<raft, time>>

\* propose up to IsLeader: the command gets the node's time.
Propose(h) ==
  /\ h.stage = "arrived" /\ role[h.node] /\ h.cmd.kind # "join"
  /\ handlers' = (handlers \ {h}) \cup {[h EXCEPT !.stage = "apply", !.cmd.at = Clock(h.node)]}
  /\ UNCHANGED <<raft, client, time>>

\* Mutant: the error of AddVoter's future is not looked at.
AddVoterUnawaited(h) ==
  /\ h.stage = "arrived" /\ leader = h.node /\ role[h.node] /\ h.cmd.kind = "join"
  /\ member' \in {member, member \cup {h.cmd.node}}
  /\ handlers' = (handlers \ {h}) \cup {[h EXCEPT !.cmd = RegisterNodeCmd(h.cmd.node)]}
  /\ UNCHANGED <<log, tail, leader, role, fsm, applied, snap, elections, restarts, machine, client, time>>

\* JoinCluster up to AddVoter, and its call of propose.
AddVoter(h) ==
  /\ h.stage = "arrived" /\ leader = h.node /\ role[h.node] /\ h.cmd.kind = "join"
  /\ member' = member \cup {h.cmd.node}
  /\ handlers' = (handlers \ {h}) \cup {[h EXCEPT !.cmd = RegisterNodeCmd(h.cmd.node)]}
  /\ UNCHANGED <<log, tail, leader, role, fsm, applied, snap, elections, restarts, machine, client, time>>

\* AddVoter fails on a node that leads no more; the voter may be added or not.
AddVoterLost(h) ==
  /\ h.stage = "arrived" /\ leader # h.node /\ role[h.node] /\ h.cmd.kind = "join"
  /\ member' \in {member, member \cup {h.cmd.node}}
  /\ notLeader(h)
  /\ UNCHANGED <<log, tail, leader, role, fsm, applied, snap, elections, restarts, machine, time>>

\* Node.Propose hands the command to Raft.
RaftApply(h) ==
  /\ h.stage = "apply" /\ role[h.node]
  /\ Accept(h.node, h.id, h.cmd)
  /\ Move(h, "commit")
  /\ UNCHANGED <<client, time>>

\* ErrNotLeader, and ErrLeadershipLost for a command that waited.
ProposeLost(h) ==
  /\ \/ h.stage = "apply" /\ ~role[h.node]
     \/ h.stage = "lost"
  /\ notLeader(h)
  /\ UNCHANGED <<raft, time>>

\* Any other error of AddVoter or Raft.Apply (its queue stays full until the
\* timeout), and the end of the process.
ProposeFails(h) ==
  /\ \/ h.stage \in {"apply", "dead"} \/ ~Running(h.node)
     \/ h.stage = "arrived" /\ role[h.node] /\ h.cmd.kind = "join"
  /\ Answer(h, "unavailable", NoNode, FALSE)
  /\ UNCHANGED <<raft, time>>

\* n applies the next command; the call that waits for it is answered.
ApplyCommand(n) ==
  /\ Running(n)
  /\ ApplyNext(n, Clock(n))
  /\ LET done == {h \in handlers : h.node = n /\ h.stage = "commit" /\ h.id = log[applied[n] + 1].id}
     IN  IF done = {} THEN UNCHANGED <<handlers, client>>
         ELSE \E h \in done : Answer(h, "ok", NoNode, NextResult(n, Clock(n)).ok)
  /\ UNCHANGED time

LoseLeadership(n) ==
  /\ StepDown(n)
  /\ handlers' = {IF h.node = n /\ h.stage = "commit" THEN [h EXCEPT !.stage = "lost"] ELSE h : h \in handlers}
  /\ UNCHANGED <<client, time>>

RestartServer(n) ==
  /\ Registering(n)
  /\ RestartNode(n)
  /\ handlers' = {IF h.node = n THEN [h EXCEPT !.stage = "dead"] ELSE h : h \in handlers \ Own(n)}
  /\ UNCHANGED <<client, time>>

\* A joiner that ended is started again; if it finds Raft state it does not join.
RestartJoining(j) ==
  /\ RestartNode(j)
  /\ \E recovered \in BOOLEAN :
       /\ recovered => j \in member
       /\ applied[j] > 0 => recovered
       /\ RestartJoiner(j, recovered)
  /\ UNCHANGED <<handlers, time>>

\* Mutant: only the bootstrap node registers itself.
EnsureBootstrapRegistered(n) ==
  /\ n = FirstLeader
  /\ Registering(n) /\ n \notin fsm[n].nodes /\ role[n] /\ Own(n) = {}
  /\ tail' = [tail EXCEPT ![n] = Append(@, [id |-> Self(n), cmd |-> RegisterNodeCmd(n)])]
  /\ handlers' = handlers \cup {[id |-> Self(n), node |-> n, cmd |-> RegisterNodeCmd(n), stage |-> "commit"]}
  /\ UNCHANGED <<log, leader, member, role, fsm, applied, snap, elections, restarts, machine, client, time>>

\* One turn of EnsureSelfRegistered, which waits for its own proposal.
EnsureSelfRegistered(n) ==
  /\ Registering(n)
  /\ n \notin fsm[n].nodes
  /\ role[n]
  /\ Own(n) = {}
  /\ tail' = [tail EXCEPT ![n] = Append(@, [id |-> Self(n), cmd |-> RegisterNodeCmd(n)])]
  /\ handlers' = handlers \cup {[id |-> Self(n), node |-> n, cmd |-> RegisterNodeCmd(n), stage |-> "commit"]}
  /\ UNCHANGED <<log, leader, member, role, fsm, applied, snap, elections, restarts, machine, client, time>>

ServerInit == handlers = {}
=============================================================================
