---------------------------- MODULE ControlPlane -----------------------------
(***************************************************************************)
(* Brokers, joining nodes and the replicated control plane together.  A    *)
(* call whose answer does not come in time is made again, on another node, *)
(* while the first may still be executed.                                  *)
(***************************************************************************)
EXTENDS ControlServer

CONSTANTS
  Parts,     \* partition counts asked for
  Scenarios  \* bounds to begin with: [attempts, elections, restarts, time]

ASSUME ScenarioAssumption ==
  /\ Parts \subseteq Int
  /\ \A s \in Scenarios : s.elections \in Int /\ s.time \in Nat \ {0}

vars == <<raft, client, handlers, time>>

\* One attempt of call_with_failover, or of replicated.Client's do.
Send(c) ==
  /\ pc[c] = "send" /\ attempts[c] > 0
  /\ attempts' = [attempts EXCEPT ![c] = @ - 1]
  /\ sent' = [sent EXCEPT ![c] = @ + 1]
  /\ call' = [call EXCEPT ![c].tries = @ + 1]
  /\ pc' = [pc EXCEPT ![c] = "wait"]
  /\ handlers' = handlers \cup
       {[id |-> <<c, sent[c] + 1>>, node |-> link[Owner(c)].target, cmd |-> call[c].cmd, stage |-> "arrived"]}
  /\ UNCHANGED <<raft, time, link, connected, served, told>>

\* DEADLINE_EXCEEDED: the server goes on with the command.
TimeOut(c) ==
  /\ pc[c] = "wait"
  /\ Unavailable(c)
  /\ UNCHANGED <<raft, handlers, time>>

Tick ==
  /\ time < MaxTime
  /\ time' = time + 1
  /\ UNCHANGED <<raft, client, handlers>>

Init ==
  /\ RaftInit /\ ClientInit /\ ServerInit
  /\ \E s \in Scenarios :
       attempts = s.attempts /\ elections = s.elections /\ restarts = s.restarts /\ time = s.time

Consensus ==
  /\ \/ leader # NoNode /\ Running(leader) /\ Commit
     \/ \E n \in Nodes : Running(n) /\ (Elect(n) \/ TakeSnapshot(n) \/ InstallSnapshot(n))
  /\ UNCHANGED <<client, handlers, time>>

Server ==
  \/ \E n \in Nodes : \E h \in At(n) :
       \/ ProposeFails(h)
       \/ /\ Running(n)
          /\ \/ TurnAway(h) \/ Propose(h) \/ AddVoter(h) \/ AddVoterLost(h)
             \/ RaftApply(h) \/ ProposeLost(h)
  \/ \E n \in Nodes : ApplyCommand(n) \/ LoseLeadership(n) \/ RestartServer(n) \/ EnsureSelfRegistered(n)
  \/ \E j \in Joiners : RestartJoining(j)

Caller ==
  /\ \/ \E b \in Brokers :
          \/ Connect(b) \/ HeartbeatOnce(b)
          \/ \E t \in Topics, p \in Parts : CreateTopicCall(b, t, p)
     \/ \E j \in Joiners : Join(j)
  /\ UNCHANGED <<raft, handlers, time>>

\* Only a restart that is followed by another call matters.
BrokerCrash(b) ==
  /\ restarts > 0 /\ attempts[Users[b]] > 0
  /\ restarts' = restarts - 1
  /\ RestartBroker(b)
  /\ UNCHANGED <<log, tail, leader, member, role, fsm, applied, snap, elections, machine, handlers, time>>

Next ==
  \/ \E b \in Brokers : BrokerCrash(b)
  \/ Consensus \/ Server \/ Caller \/ Tick
  \/ \E c \in Threads : Send(c) \/ TimeOut(c)

Spec == Init /\ [][Next]_vars

(***************************************************************************)
(* Properties                                                              *)
(***************************************************************************)

\* "every replica (and every log replay after a restart) computes the same":
\* a replica that has applied i commands, one by one, from a snapshot of its
\* own or of the leader, holds what the first i commands make of nothing,
\* whatever its own clock shows.
ReplicasAgree == \A n \in Nodes : fsm[n] = StateAt(applied[n])

Execution(i) == [id |-> log[i].id, kind |-> log[i].cmd.kind, ok |-> machine[i].ok]

Service == INSTANCE MetadataService WITH
  topics <- StateAt(Len(log)).topics,
  leases <- StateAt(Len(log)).brokers,
  executed <- {Execution(i) : i \in (Len(Prelude) + 1) .. Len(log)},
  told <- {[id |-> x.id, kind |-> x.cmd.kind, ok |-> x.ok] : x \in told}

\* Calls that time out, are redirected, retried on another node and executed
\* late behave as one service: every attempt is executed at most once, a caller
\* is told the result of its own attempt, a topic is created once, and leases
\* are extended although the leaders' clocks differ.
ImplementsService == Service!Spec

\* "the control plane is the source of truth for metadata": what a connected
\* broker serves is a topic of the control plane with its partitions, and no
\* other broker serves it, however often create_topic was retried.
ServedAgrees ==
  \A b \in Brokers, t \in Topics :
    served[b][t] # 0 =>
      /\ StateAt(Len(log)).topics[t] = served[b][t]
      /\ \A o \in Brokers \ {b} : served[o][t] = 0

\* A node that was told it has joined is a voter and the cluster has its address,
\* also when the leadership changed between AddVoter and the registration.
JoinedIsMember ==
  \A x \in told :
    x.cmd.kind = "register_node" => x.cmd.node \in member /\ x.cmd.node \in StateAt(Len(log)).nodes

\* Raft makes progress under a leader, raftd polls IsLeader for ever, and a
\* proposal that lost its leader returns.
FairSpec ==
  /\ Spec
  /\ WF_vars(leader # NoNode /\ Running(leader) /\ Commit /\ UNCHANGED <<client, handlers, time>>)
  /\ \A n \in Nodes :
       /\ WF_vars(ApplyCommand(n))
       /\ WF_vars(EnsureSelfRegistered(n))
       /\ WF_vars(\E h \in Own(n) : ProposeLost(h))

\* "Returns once registered": a node that stays the leader ends up in the
\* registry of every member that runs, so that redirects reach it, even if it
\* became a voter in a join that failed.
LeaderBecomesKnown ==
  \A n \in Nodes :
    <>[](leader = n /\ Registering(n)) => <>(\A m \in Nodes : m \in member /\ Running(m) => n \in fsm[m].nodes)
=============================================================================
