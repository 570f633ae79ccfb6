---------------------------- MODULE ServiceProofs ----------------------------
(***************************************************************************)
(* The control plane as its clients see it, for every number of nodes,     *)
(* brokers, topics and attempts: what is served was created by its server, *)
(* who was told it joined is a member, and calls that are retried on       *)
(* another node while the first attempt goes on behave as one service.     *)
(***************************************************************************)
EXTENDS ControlPlaneProofs

USE SMTT(30), ZenonT(30), SMTT(60)

(***************************************************************************)
(* Steps                                                                   *)
(***************************************************************************)

\* Steps without the clients.
LEMMA ClientQuiet == ASSUME CallInv, UNCHANGED client PROVE CallInv' /\ Quiet
BY Zenon DEF client, CallInv, Quiet

\* Steps that leave the logs alone and tell no client a result.
LEMMA QuietStep ==
  ASSUME ServiceInv, CallInv', AttemptInv', member \subseteq member',
         UNCHANGED <<log, machine, tail, elections, served, told>>,
         role' \in [Nodes -> BOOLEAN],
         \A n \in Nodes : role'[n] => role[n],
         \A n \in Nodes : role'[n] /\ n \in fsm[n].nodes => n \in fsm'[n].nodes,
         \A h \in handlers : Len(h.id) = 3 /\ h.stage = "commit" /\ h.node \in Nodes /\ role'[h.node] =>
                               h \in handlers' \/ h.node \in fsm'[h.node].nodes
  PROVE  ServiceInv'
<1>1. LogInv' /\ NewEntries' = NewEntries
  BY LogsStay, Zenon DEF ServiceInv
<1>2. SelfInv'
  BY <1>1, SelfStays, Zenon DEF ServiceInv
<1>3. HistoryInv' /\ ServedInv' /\ ToldInv'
  BY HistoryStays, TopicsStay, ToldStays, Zenon DEF ServiceInv
<1> QED BY <1>1, <1>2, <1>3, Zenon DEF ServiceInv

\* Steps of the clients alone.
LEMMA ClientStep ==
  ASSUME AgreeInv, ServiceInv, CallInv', Quiet, UNCHANGED <<raft, handlers, served, told>>
  PROVE  ServiceInv'
<1>1. UNCHANGED <<log, machine, tail, elections, role, fsm, member>>
  BY Zenon DEF raft
<1>2. NewEntries' = NewEntries
  BY <1>1, LogsStay, Zenon DEF ServiceInv
<1>3. AttemptInv'
  BY <1>1, <1>2, HandlersStay, Zenon DEF AgreeInv, ServiceInv
<1> QED BY <1>1, <1>3, QuietStep, Zenon DEF ServiceInv, SelfInv

\* A handler that ends without a result was not a leader's own.
LEMMA RefusalServed ==
  ASSUME AgreeInv, ServiceInv, NEW h \in handlers, NEW code \in {"precondition", "unavailable"}, NEW hint,
         Answer(h, code, hint, FALSE), UNCHANGED <<log, machine, tail, elections, role, fsm>>, member \subseteq member',
         h.stage = "commit" => Len(h.id) # 3
  PROVE  ServiceInv'
<1>1. CallInv' /\ Quiet
  BY AnswerQuiet, Zenon DEF AgreeInv, ServiceInv
<1>2. UNCHANGED <<served, told>>
  <2>1. CASE Awaits(h)
    BY <2>1, Zenon DEF Answer, Receive, Redirected, Unavailable, Retry
  <2>2. CASE ~Awaits(h)
    BY <2>2, Zenon DEF Answer, client
  <2> QED BY <2>1, <2>2, Zenon
<1>3. handlers' = handlers \ {h}
  BY Zenon DEF Answer
<1>4. NewEntries' = NewEntries
  BY LogsStay, Zenon DEF ServiceInv
<1>5. AttemptInv'
  BY <1>1, <1>3, <1>4, HandlersStay, Zenon DEF AgreeInv, ServiceInv
<1>6. \A g \in handlers : Len(g.id) = 3 /\ g.stage = "commit" => g \in handlers'
  BY <1>3, Zenon
<1> QED BY <1>1, <1>2, <1>5, <1>6, QuietStep, Zenon DEF ServiceInv, SelfInv

\* A handler returns an error before its command is executed.
LEMMA HandlerEndsServed ==
  ASSUME AgreeInv, ServiceInv, NEW h \in handlers,
         TurnAway(h) \/ AddVoterLost(h) \/ ProposeLost(h) \/ ProposeFails(h)
  PROVE  ServiceInv'
<1>1. UNCHANGED <<log, machine, tail, elections, role, fsm>>
  BY ZenonT(60) DEF TurnAway, AddVoterLost, ProposeLost, ProposeFails, raft
<1>2. member \subseteq member'
  BY ZenonT(60) DEF TurnAway, AddVoterLost, ProposeLost, ProposeFails, raft
<1>3. \E code \in {"precondition", "unavailable"} : \E hint : Answer(h, code, hint, FALSE)
  BY ZenonT(60) DEF TurnAway, AddVoterLost, ProposeLost, ProposeFails, notLeader
<1>4. ASSUME h.stage = "commit" PROVE Len(h.id) # 3
  <2>1. ProposeFails(h) /\ ~Running(h.node)
    BY <1>4, Zenon DEF TurnAway, AddVoterLost, ProposeLost, ProposeFails
  <2>2. ~Registering(h.node)
    BY <2>1, Zenon DEF Running, Registering
  <2>3. h.id \in AttemptIds
    BY <2>2, Zenon DEF ServiceInv, AttemptInv, Attempt
  <2> QED BY <2>3, IdKinds
<1> QED BY <1>1, <1>2, <1>3, <1>4, RefusalServed, Zenon

\* A handler that is not handed to Raft yet works for a client.
LEMMA WorksForClient ==
  ASSUME ServiceInv, NEW h \in handlers, h.stage \notin {"commit", "lost"}
  PROVE  h.id \in AttemptIds /\ h.id \notin SelfIds /\ Len(h.id) # 3
<1>1. h.id \in AttemptIds
  BY Zenon DEF ServiceInv, AttemptInv, Attempt
<1> QED BY <1>1, IdKinds

\* A handler goes on before its command is handed to Raft.
LEMMA HandlerStepServed ==
  ASSUME AgreeInv, ServiceInv, NEW h \in handlers, NEW g, Follows(h, g), h.stage \notin {"commit", "lost"},
         handlers' = (handlers \ {h}) \cup {g}, UNCHANGED <<log, machine, tail, elections, role, fsm, client>>,
         member \subseteq member'
  PROVE  ServiceInv'
<1>1. CallInv' /\ Quiet /\ UNCHANGED <<served, told>>
  BY ClientQuiet, Zenon DEF ServiceInv, client
<1>2. NewEntries' = NewEntries
  BY LogsStay, Zenon DEF ServiceInv
<1>3. AttemptInv'
  BY <1>1, <1>2, HandlerGoesOn, Zenon DEF AgreeInv, ServiceInv
<1>4. \A x \in handlers : x.stage = "commit" => x \in handlers'
  BY Zenon
<1> QED BY <1>1, <1>3, <1>4, QuietStep, Zenon DEF ServiceInv, SelfInv

\* propose stamps the command with the leader's clock.
LEMMA ProposeServed ==
  ASSUME AgreeInv, ServiceInv, NEW h \in handlers, Propose(h)
  PROVE  ServiceInv'
<1> DEFINE g == [h EXCEPT !.stage = "apply", !.cmd.at = Clock(h.node)]
<1>1. WellFormed(h) /\ h.cmd \in Commands /\ Attempt(h)
  BY Zenon DEF AgreeInv, HandlerInv, WellFormed, Calls, Propose, ServiceInv, AttemptInv
<1>2. /\ g.id = h.id /\ g.cmd = [h.cmd EXCEPT !.at = Clock(h.node)]
  BY <1>1, Zenon DEF WellFormed
<1>3. /\ g.cmd.kind = h.cmd.kind
      /\ h.cmd.kind = "create_topic" => g.cmd.parts = h.cmd.parts
      /\ h.cmd.kind = "register_node" => g.cmd.node = h.cmd.node
  BY <1>1, <1>2, ZenonT(60) DEF Commands
<1>4. h.id \notin SelfIds
  BY WorksForClient, Zenon DEF Propose
<1> HIDE DEF g
<1>5. UNCHANGED <<log, machine, tail, elections, role, fsm, client, member>>
  BY Zenon DEF Propose, raft
<1>6. Follows(h, g)
  BY <1>1, <1>2, <1>3, <1>4, <1>5, Zenon DEF Follows, Attempt, NewCmd, Handed, Propose
<1>7. handlers' = (handlers \ {h}) \cup {g} /\ h.stage \notin {"commit", "lost"}
  BY Zenon DEF Propose, g
<1> QED BY <1>5, <1>6, <1>7, HandlerStepServed, Zenon

\* Join: the node is a voter, and the registration is next.
LEMMA AddVoterServed ==
  ASSUME AgreeInv, ServiceInv, NEW h \in handlers, AddVoter(h)
  PROVE  ServiceInv'
<1> DEFINE g == [h EXCEPT !.cmd = RegisterNodeCmd(h.cmd.node)]
<1>1. WellFormed(h) /\ Attempt(h)
  BY Zenon DEF AgreeInv, HandlerInv, ServiceInv, AttemptInv
<1>2. g.id = h.id /\ g.cmd = RegisterNodeCmd(h.cmd.node)
  BY <1>1, Zenon DEF WellFormed
<1>3. g.cmd.kind = "register_node" /\ g.cmd.node = h.cmd.node
  BY <1>2 DEF RegisterNodeCmd
<1>4. h.id \notin SelfIds
  BY WorksForClient, Zenon DEF AddVoter
<1> HIDE DEF g
<1>5. UNCHANGED <<log, machine, tail, elections, role, fsm, client>> /\ member \subseteq member' /\ h.cmd.node \in member'
  BY Zenon DEF AddVoter
<1>6. h.stage = "arrived" /\ h.cmd.kind = "join"
  BY Zenon DEF AddVoter
<1>7. Follows(h, g)
  BY <1>2, <1>3, <1>4, <1>5, <1>6, Zenon DEF Follows, NewCmd, Handed
<1>8. handlers' = (handlers \ {h}) \cup {g}
  BY Zenon DEF AddVoter, g
<1> QED BY <1>5, <1>6, <1>7, <1>8, HandlerStepServed, Zenon

\* Node.Propose puts an attempt into a log, once.
LEMMA RaftApplyServed ==
  ASSUME AgreeInv, ServiceInv, NEW h \in handlers, h.node \in Nodes, RaftApply(h)
  PROVE  ServiceInv'
<1> DEFINE g == [h EXCEPT !.stage = "commit"]
           e == [id |-> h.id, cmd |-> h.cmd]
<1>1. WellFormed(h) /\ Attempt(h) /\ h.stage = "apply"
  BY Zenon DEF AgreeInv, HandlerInv, ServiceInv, AttemptInv, RaftApply
<1>2. h.id \in AttemptIds /\ h.id \notin SelfIds /\ Len(h.id) # 3
  BY <1>1, WorksForClient, Zenon
<1>3. g.id = h.id /\ g.cmd = h.cmd /\ g.stage = "commit"
  BY <1>1, Zenon DEF WellFormed
<1>4. e.id = h.id /\ e.cmd = h.cmd
  OBVIOUS
<1>5. /\ tail' = [tail EXCEPT ![h.node] = Append(@, e)]
      /\ UNCHANGED <<log, leader, member, role, fsm, elections, machine, client>>
      /\ handlers' = (handlers \ {h}) \cup {g}
  BY Zenon DEF RaftApply, Accept, Move
<1>6. e = [id |-> g.id, cmd |-> g.cmd]
  BY <1>3, Zenon
<1> HIDE DEF g, e
<1>7. \A f \in NewEntries : f.id # e.id
  BY <1>1, <1>2, <1>4, Zenon DEF ServiceInv, AttemptInv, Handed
<1>8. LogInv' /\ NewEntries' \subseteq NewEntries \cup {e}
  BY <1>1, <1>2, <1>4, <1>5, <1>7, EntryAdded, Zenon DEF AgreeInv, ServiceInv, Attempt
<1>9. CallInv' /\ Quiet /\ UNCHANGED <<served, told>>
  BY <1>5, ClientQuiet, Zenon DEF ServiceInv, client
<1>10. Follows(h, g)
  BY <1>1, <1>2, <1>3, <1>5, Zenon DEF Follows, Attempt, Handed
<1>11. AttemptInv'
  BY <1>2, <1>3, <1>5, <1>6, <1>8, <1>9, <1>10, HandlerGoesOn, Zenon DEF AgreeInv, ServiceInv, Handed
<1>12. \A x \in handlers : Len(x.id) = 3 => x \in handlers'
  BY <1>2, <1>5, Zenon
<1>13. SelfInv'
  BY <1>2, <1>4, <1>5, <1>8, <1>12, SelfStays, Zenon DEF ServiceInv, SelfInv
<1>14. HistoryInv' /\ ServedInv' /\ ToldInv'
  BY <1>5, <1>9, HistoryStays, TopicsStay, ToldStays, Zenon DEF ServiceInv
<1> QED BY <1>8, <1>9, <1>11, <1>13, <1>14, Zenon DEF ServiceInv

\* Proposals that lose their leader go on as lost, those of a process that ends as dead.
LEMMA LoseLeadershipServed ==
  ASSUME AgreeInv, ServiceInv, NEW n \in Nodes, LoseLeadership(n)
  PROVE  ServiceInv'
<1> DEFINE F == [h \in handlers |-> IF h.node = n /\ h.stage = "commit" THEN [h EXCEPT !.stage = "lost"] ELSE h]
<1>1. /\ UNCHANGED <<log, machine, tail, elections, fsm, member, client>>
      /\ role' = [role EXCEPT ![n] = FALSE]
  BY Zenon DEF LoseLeadership, StepDown
<1>2. handlers' \subseteq {F[h] : h \in handlers}
  BY Zenon DEF LoseLeadership
<1>3. ASSUME NEW h \in handlers PROVE Follows(h, F[h])
  <2>1. WellFormed(h) /\ Attempt(h)
    BY Zenon DEF AgreeInv, HandlerInv, ServiceInv, AttemptInv
  <2>2. CASE h.node = n /\ h.stage = "commit"
    <3>1. F[h].id = h.id /\ F[h].node = h.node /\ F[h].cmd = h.cmd /\ F[h].stage = "lost"
      BY <2>1, <2>2, Zenon DEF WellFormed
    <3> HIDE DEF F
    <3> QED BY <1>1, <2>1, <2>2, <3>1, Zenon DEF Follows, Attempt, Handed
  <2>3. CASE ~(h.node = n /\ h.stage = "commit")
    BY <1>1, <2>1, <2>3, FollowsSelf, Zenon
  <2> QED BY <2>2, <2>3, Zenon
<1>4. \A h \in handlers : h.node # n => h \in handlers'
  BY Zenon DEF LoseLeadership
<1> HIDE DEF F
<1>5. CallInv' /\ Quiet /\ UNCHANGED <<served, told>>
  BY <1>1, ClientQuiet, Zenon DEF ServiceInv, client
<1>6. NewEntries' = NewEntries
  BY <1>1, LogsStay, Zenon DEF ServiceInv
<1>7. AttemptInv'
  BY <1>1, <1>2, <1>3, <1>5, <1>6, HandlersGoOn, Zenon DEF AgreeInv, ServiceInv
<1>8. role' \in [Nodes -> BOOLEAN] /\ ~role'[n] /\ \A m \in Nodes : role'[m] => role[m]
  BY <1>1, Zenon DEF ServiceInv, SelfInv
<1> QED BY <1>1, <1>4, <1>5, <1>7, <1>8, QuietStep, Zenon DEF ServiceInv

\* A server restarts: nobody hears of its handlers again, and it is no leader.
LEMMA RestartServerServed ==
  ASSUME AgreeInv, ServiceInv, NEW n \in Nodes, RestartServer(n)
  PROVE  ServiceInv'
<1> DEFINE F == [h \in handlers |-> IF h.node = n /\ h \notin Own(n) THEN [h EXCEPT !.stage = "dead"] ELSE h]
<1>1. /\ UNCHANGED <<log, machine, tail, elections, member, client>>
      /\ role' = [role EXCEPT ![n] = FALSE]
      /\ \A m \in Nodes : m # n => fsm'[m] = fsm[m]
  BY Zenon DEF RestartServer, RestartNode, AgreeInv, RaftAgree
<1>2. handlers' \subseteq {F[h] : h \in handlers}
  BY Zenon DEF RestartServer
<1>3. ASSUME NEW h \in handlers PROVE Follows(h, F[h])
  <2>1. WellFormed(h) /\ Attempt(h)
    BY Zenon DEF AgreeInv, HandlerInv, ServiceInv, AttemptInv
  <2>2. CASE h.node = n /\ h \notin Own(n)
    <3>1. F[h].id = h.id /\ F[h].node = h.node /\ F[h].cmd = h.cmd /\ F[h].stage = "dead"
      BY <2>1, <2>2, Zenon DEF WellFormed
    <3>2. h.id \notin SelfIds
      BY <2>2, IdKinds, Zenon DEF Own, At
    <3> HIDE DEF F
    <3> QED BY <1>1, <2>1, <2>2, <3>1, <3>2, Zenon DEF Follows, Attempt, Handed
  <2>3. CASE ~(h.node = n /\ h \notin Own(n))
    BY <1>1, <2>1, <2>3, FollowsSelf, Zenon
  <2> QED BY <2>2, <2>3, Zenon
<1>4. \A h \in handlers : h.node # n => h \in handlers'
  BY Zenon DEF RestartServer, Own, At
<1> HIDE DEF F
<1>5. CallInv' /\ Quiet /\ UNCHANGED <<served, told>>
  BY <1>1, ClientQuiet, Zenon DEF ServiceInv, client
<1>6. NewEntries' = NewEntries
  BY <1>1, LogsStay, Zenon DEF ServiceInv
<1>7. AttemptInv'
  BY <1>1, <1>2, <1>3, <1>5, <1>6, HandlersGoOn, Zenon DEF AgreeInv, ServiceInv
<1>8. role' \in [Nodes -> BOOLEAN] /\ ~role'[n] /\ \A m \in Nodes : role'[m] => role[m]
  BY <1>1, Zenon DEF ServiceInv, SelfInv
<1> QED BY <1>1, <1>4, <1>5, <1>7, <1>8, QuietStep, Zenon DEF ServiceInv

\* A joiner that ended has no proposal of its own, and its client begins anew.
LEMMA RestartJoiningServed ==
  ASSUME AgreeInv, ServiceInv, NEW j \in Joiners, RestartJoining(j)
  PROVE  ServiceInv'
<1>1. PICK recovered \in BOOLEAN : RestartJoiner(j, recovered)
  BY Zenon DEF RestartJoining
<1>2. j \in Nodes /\ j \in Processes
  BY ThreadsAssumption, Zenon DEF Processes
<1>3. /\ UNCHANGED <<log, machine, tail, elections, member, handlers, served, told>>
      /\ role' = [role EXCEPT ![j] = FALSE]
      /\ \A m \in Nodes : m # j => fsm'[m] = fsm[m]
  BY <1>1, <1>2, Zenon DEF RestartJoining, RestartNode, RestartJoiner, RestartProcess, AgreeInv, RaftAgree
<1>4. CallInv' /\ Quiet
  <2> DEFINE v == IF recovered THEN "yes" ELSE "no"
  <2>1. v \in {"no", "yes", "failed"} /\ connected' = [connected EXCEPT ![j] = v]
    BY <1>1, Zenon DEF RestartJoiner
  <2> HIDE DEF v
  <2> QED BY <1>1, <1>2, <2>1, RestartQuiet, Zenon DEF RestartJoiner, AgreeInv, ServiceInv
<1>5. NewEntries' = NewEntries
  BY <1>3, LogsStay, Zenon DEF ServiceInv
<1>6. AttemptInv'
  BY <1>3, <1>4, <1>5, HandlersStay, Zenon DEF AgreeInv, ServiceInv
<1>7. role' \in [Nodes -> BOOLEAN] /\ ~role'[j] /\ \A m \in Nodes : role'[m] => role[m]
  BY <1>2, <1>3, Zenon DEF ServiceInv, SelfInv
<1> QED BY <1>3, <1>4, <1>6, <1>7, QuietStep, Zenon DEF ServiceInv

\* A broker that is started again serves nothing.
LEMMA BrokerCrashServed ==
  ASSUME AgreeInv, ServiceInv, NEW b \in Brokers, BrokerCrash(b)
  PROVE  ServiceInv'
<1>1. /\ UNCHANGED <<log, machine, tail, elections, member, role, fsm, handlers, told>>
      /\ RestartProcess(b) /\ connected' = [connected EXCEPT ![b] = "no"]
      /\ served' = [served EXCEPT ![b] = [t \in Topics |-> 0]]
  BY Zenon DEF BrokerCrash, RestartBroker, RestartProcess
<1>2. b \in Processes /\ b \notin Joiners
  BY ThreadsAssumption, Zenon DEF Processes
<1>3. CallInv' /\ Quiet
  BY <1>1, <1>2, RestartQuiet, Zenon DEF AgreeInv, ServiceInv
<1>4. LogInv' /\ NewEntries' = NewEntries
  BY <1>1, LogsStay, Zenon DEF ServiceInv
<1>5. AttemptInv'
  BY <1>1, <1>3, <1>4, HandlersStay, Zenon DEF AgreeInv, ServiceInv
<1>6. SelfInv'
  BY <1>1, <1>4, SelfStays, Zenon DEF ServiceInv, SelfInv
<1>7. HistoryInv' /\ ToldInv'
  BY <1>1, HistoryStays, ToldStays, Zenon DEF ServiceInv
<1>8. ServedInv'
  <2>1. served' \in [Brokers -> [Topics -> Int]]
    BY <1>1 DEF ServiceInv, ServedInv
  <2>2. \A o \in Brokers, t \in Topics : served'[o][t] # 0 => served'[o][t] = served[o][t]
    BY <1>1, Zenon DEF ServiceInv, ServedInv
  <2>3. \A i, t : Creates(i, t)' <=> Creates(i, t)
    BY <1>1, Zenon DEF Creates
  <2> QED BY <1>1, <2>1, <2>2, <2>3, Zenon DEF ServiceInv, ServedInv
<1> QED BY <1>3, <1>4, <1>5, <1>6, <1>7, <1>8, Zenon DEF ServiceInv

\* Every step of Raft alone.
LEMMA ConsensusServed ==
  ASSUME AgreeInv, ServiceInv, Consensus
  PROVE  ServiceInv'
<1>1. CallInv' /\ Quiet /\ UNCHANGED <<client, served, told, handlers>>
  BY ClientQuiet, Zenon DEF ServiceInv, Consensus, client
<1>2. CASE leader # NoNode /\ Commit
  <2>1. UNCHANGED <<elections, role, fsm, member>>
    BY <1>2, Zenon DEF Commit
  <2>2. LogInv' /\ NewEntries' \subseteq NewEntries
    BY <1>2, CommitMoves, Zenon DEF AgreeInv, ServiceInv
  <2>3. AttemptInv'
    BY <1>1, <2>1, <2>2, HandlersStay, Zenon DEF AgreeInv, ServiceInv
  <2>4. SelfInv'
    BY <1>1, <2>1, <2>2, SelfStays, Zenon DEF ServiceInv, SelfInv
  <2>5. HistoryInv' /\ ServedInv' /\ ToldInv'
    BY <1>1, <1>2, HistoryGrows, CommitServed, Zenon DEF AgreeInv, ServiceInv
  <2> QED BY <1>1, <2>2, <2>3, <2>4, <2>5, Zenon DEF ServiceInv
<1>3. ASSUME NEW n \in Nodes, Elect(n) PROVE ServiceInv'
  <2>1. UNCHANGED <<log, machine, fsm, member>> /\ role' = [role EXCEPT ![n] = TRUE]
    BY <1>3, Zenon DEF Elect
  <2>2. /\ LogInv' /\ NewEntries' \subseteq NewEntries
        /\ \A f \in NewEntries' : f.id \in SelfIds => f.id[3] > elections'
    BY <1>3, ElectCopies, Zenon DEF AgreeInv, ServiceInv
  <2>3. AttemptInv'
    BY <1>1, <2>1, <2>2, HandlersStay, Zenon DEF AgreeInv, ServiceInv
  <2>4. elections' \in Int
    BY <1>3 DEF Elect, AgreeInv
  <2>5. \A m \in Nodes, f \in NewEntries' : f.id # <<m, "self", elections'>>
    <3> SUFFICES ASSUME NEW m \in Nodes, NEW f \in NewEntries', f.id = <<m, "self", elections'>>
                 PROVE  FALSE
      BY Zenon
    <3>1. f.id \in SelfIds /\ f.id[3] = elections'
      BY <2>4 DEF SelfIds
    <3> QED BY <2>2, <2>4, <3>1
  <2>6. role' \in [Nodes -> BOOLEAN]
    BY <2>1, Zenon DEF ServiceInv, SelfInv
  <2>7. SelfInv'
    BY <2>5, <2>6, Zenon DEF SelfInv
  <2>8. HistoryInv' /\ ServedInv' /\ ToldInv'
    BY <1>1, <2>1, HistoryStays, TopicsStay, ToldStays, Zenon DEF ServiceInv
  <2> QED BY <1>1, <2>2, <2>3, <2>7, <2>8, Zenon DEF ServiceInv
<1>4. ASSUME NEW n \in Nodes, TakeSnapshot(n) \/ InstallSnapshot(n) PROVE ServiceInv'
  <2>1. UNCHANGED <<log, machine, tail, elections, role, member>>
    BY <1>4, Zenon DEF TakeSnapshot, InstallSnapshot
  <2>2. \A m \in Nodes : role[m] => fsm'[m] = fsm[m]
    BY <1>4, Zenon DEF TakeSnapshot, InstallSnapshot, AgreeInv, RaftAgree
  <2>3. NewEntries' = NewEntries
    BY <2>1, LogsStay, Zenon DEF ServiceInv
  <2>4. AttemptInv'
    BY <1>1, <2>1, <2>3, HandlersStay, Zenon DEF AgreeInv, ServiceInv
  <2> QED BY <1>1, <2>1, <2>2, <2>4, QuietStep, Zenon DEF ServiceInv, SelfInv
<1> QED BY <1>2, <1>3, <1>4, Zenon DEF Consensus

\* Every step of a client alone.
LEMMA CallerServed ==
  ASSUME AgreeInv, ServiceInv, Caller
  PROVE  ServiceInv'
<1>1. UNCHANGED <<raft, handlers>> /\ ClientInv /\ CallInv
  BY Zenon DEF AgreeInv, ServiceInv, Caller
<1>2. ASSUME NEW b \in Brokers
      PROVE  Users[b] \in Threads /\ Pools[b] \in Threads /\ Users[b] \notin Joiners /\ Pools[b] \notin Joiners
  BY ThreadsAssumption, Zenon DEF Threads
<1>3. ASSUME NEW c \in Threads, NEW op \in Ops, NEW cmd \in Calls, Begin(c, op, cmd),
             NewCmd(cmd), cmd.kind # "register_node",
             op = "create" => c \notin Joiners /\ cmd.kind = "create_topic",
             c \in Joiners => connected[c] = "no"
      PROVE  ServiceInv'
  <2> DEFINE r == [op |-> op, cmd |-> cmd, tries |-> 0]
  <2>1. r \in [op : Ops, cmd : Calls, tries : Int] /\ r.op = op /\ r.cmd = cmd
    OBVIOUS
  <2>2. /\ pc' = [pc EXCEPT ![c] = "send"] /\ call' = [call EXCEPT ![c] = r]
        /\ UNCHANGED <<sent, connected, served, told>>
    BY <1>3, Zenon DEF Begin
  <2> HIDE DEF r
  <2>3. CallInv' /\ Quiet
    BY <1>1, <1>3, <2>1, <2>2, CallGoesOn, Zenon
  <2> QED BY <1>1, <2>2, <2>3, ClientStep, Zenon
<1>4. ASSUME NEW b \in Brokers, Connect(b) PROVE ServiceInv'
  <2>1. RegisterBrokerCmd(b) \in [kind : {"register_broker", "heartbeat"}, broker : Brokers, at : Nat]
    BY Zenon DEF RegisterBrokerCmd
  <2>2. RegisterBrokerCmd(b) \in Calls
    BY <2>1, Zenon DEF Calls, Commands
  <2>3. RegisterBrokerCmd(b).kind = "register_broker"
    BY DEF RegisterBrokerCmd
  <2>4. NewCmd(RegisterBrokerCmd(b))
    BY <2>3, Zenon DEF NewCmd
  <2> QED BY <1>2, <1>3, <1>4, <2>2, <2>3, <2>4, Zenon DEF Connect, Ops
<1>5. ASSUME NEW b \in Brokers, HeartbeatOnce(b) PROVE ServiceInv'
  <2>1. HeartbeatCmd(b) \in [kind : {"register_broker", "heartbeat"}, broker : Brokers, at : Nat]
    BY Zenon DEF HeartbeatCmd
  <2>2. HeartbeatCmd(b) \in Calls
    BY <2>1, Zenon DEF Calls, Commands
  <2>3. HeartbeatCmd(b).kind = "heartbeat"
    BY DEF HeartbeatCmd
  <2>4. NewCmd(HeartbeatCmd(b))
    BY <2>3, Zenon DEF NewCmd
  <2> QED BY <1>2, <1>3, <1>5, <2>2, <2>3, <2>4, Zenon DEF HeartbeatOnce, Ops
<1>6. ASSUME NEW b \in Brokers, NEW t \in Topics, NEW p \in Parts, CreateTopicCall(b, t, p) PROVE ServiceInv'
  <2>1. CreateTopicCmd(t, p) \in [kind : {"create_topic"}, topic : Topics, parts : Int, at : Nat]
    BY ScenarioAssumption, Zenon DEF CreateTopicCmd
  <2>2. CreateTopicCmd(t, p) \in Calls
    BY <2>1, Zenon DEF Calls, Commands
  <2>3. CreateTopicCmd(t, p).kind = "create_topic" /\ CreateTopicCmd(t, p).parts = p
    BY DEF CreateTopicCmd
  <2>4. NewCmd(CreateTopicCmd(t, p))
    BY <2>3, Zenon DEF NewCmd
  <2> QED BY <1>2, <1>3, <1>6, <2>2, <2>3, <2>4, Zenon DEF CreateTopicCall, Ops
<1>7. ASSUME NEW j \in Joiners, Join(j) PROVE ServiceInv'
  <2> DEFINE cmd == [kind |-> "join", node |-> j, at |-> 0]
  <2>1. cmd \in Calls /\ j \in Threads
    BY Zenon DEF Calls, Threads
  <2>2. cmd.kind = "join"
    OBVIOUS
  <2>3. Begin(j, "join", cmd) /\ connected[j] = "no"
    BY <1>7, Zenon DEF Join
  <2> HIDE DEF cmd
  <2>4. NewCmd(cmd)
    BY <2>2, Zenon DEF NewCmd
  <2> QED BY <1>3, <2>1, <2>2, <2>3, <2>4, Zenon DEF Ops
<1> QED BY <1>4, <1>5, <1>6, <1>7, Zenon DEF Caller

\* A leader proposes itself once in its term.
LEMMA EnsureSelfRegisteredServed ==
  ASSUME AgreeInv, ServiceInv, NEW n \in Nodes, EnsureSelfRegistered(n)
  PROVE  ServiceInv'
<1> DEFINE cmd == RegisterNodeCmd(n)
           e == [id |-> Self(n), cmd |-> cmd]
           g == [id |-> Self(n), node |-> n, cmd |-> cmd, stage |-> "commit"]
<1>1. /\ e.id = Self(n) /\ e.cmd = cmd
      /\ g.id = Self(n) /\ g.node = n /\ g.cmd = cmd /\ g.stage = "commit"
  OBVIOUS
<1>2. Self(n) \in SelfIds /\ Self(n)[1] = n /\ Self(n)[3] = elections /\ elections >= elections
  BY DEF Self, SelfIds, AgreeInv
<1>3. cmd.kind = "register_node"
  BY DEF RegisterNodeCmd
<1>4. NewCmd(cmd)
  BY <1>3, Zenon DEF NewCmd
<1>5. /\ tail' = [tail EXCEPT ![n] = Append(@, e)] /\ handlers' = handlers \cup {g}
      /\ UNCHANGED <<log, member, role, fsm, elections, machine, client>>
      /\ Registering(n) /\ n \notin fsm[n].nodes /\ role[n] /\ Own(n) = {}
  BY Zenon DEF EnsureSelfRegistered
<1> HIDE DEF e, g
<1>6. \A f \in NewEntries : f.id # e.id
  BY <1>1, <1>5, Zenon DEF ServiceInv, SelfInv, Self
<1>7. LogInv' /\ NewEntries' \subseteq NewEntries \cup {e}
  <2>1. NewCmd(e.cmd) /\ e.id \in AttemptIds \cup SelfIds
    BY <1>1, <1>2, <1>4, Zenon
  <2>2. e.cmd = RegisterNodeCmd(e.id[1]) /\ e.id[3] >= elections
    BY <1>1, <1>2, Zenon
  <2>3. RaftAgree /\ LogInv
    BY Zenon DEF AgreeInv, ServiceInv
  <2> QED BY <1>5, <1>6, <2>1, <2>2, <2>3, EntryAdded, ZenonT(60)
<1>8. CallInv' /\ Quiet /\ UNCHANGED <<served, told, pc, sent, call, connected>>
  BY <1>5, ClientQuiet, Zenon DEF ServiceInv, client
<1>9. ASSUME NEW h PROVE (Attempt(h) => Attempt(h)')
  BY <1>5, <1>8, Zenon DEF Attempt, Registering, Awaits
<1>10. g.id \notin AttemptIds /\ Len(g.id) = 3
  BY <1>1, <1>2, IdKinds
<1>11. ~Awaits(g)
  BY <1>10, AwaitedAttempt, Zenon DEF AgreeInv
<1>12. Attempt(g)
  BY <1>1, <1>2, <1>4, <1>5, <1>10, <1>11, Zenon DEF Attempt
<1>13. AttemptInv'
  <2>1. \A h \in handlers' : Attempt(h)'
    BY <1>5, <1>9, <1>12, Zenon DEF ServiceInv, AttemptInv
  <2>2. \A f, h \in handlers' : f.id = h.id /\ h.id \in AttemptIds => f = h
    BY <1>5, <1>10, Zenon DEF ServiceInv, AttemptInv
  <2>3. \A f \in NewEntries' : f.id \in AttemptIds => f \in NewEntries
    BY <1>1, <1>7, <1>10, Zenon
  <2>4. \A f \in NewEntries' : f.id \in AttemptIds => f.id[2] <= sent'[f.id[1]]
    BY <1>8, <2>3, Zenon DEF ServiceInv, AttemptInv
  <2>5. \A h \in handlers', f \in NewEntries' :
          f.id = h.id /\ h.id \in AttemptIds => h.stage \in Handed /\ f.cmd = h.cmd
    BY <1>5, <1>10, <2>3, Zenon DEF ServiceInv, AttemptInv
  <2> QED BY <2>1, <2>2, <2>4, <2>5, Zenon DEF AttemptInv
<1>14. SelfInv'
  <2>1. g \in Own(n)'
    BY <1>1, <1>5, <1>10, Zenon DEF Own, At
  <2>2. ASSUME NEW m \in Nodes, NEW f \in NewEntries', f.id = <<m, "self", elections>>, role[m]
        PROVE  m \in fsm[m].nodes \/ \E h \in Own(m)' : h.stage = "commit"
    <3>1. CASE m = n
      BY <1>1, <2>1, <3>1, Zenon
    <3>2. CASE m # n
      <4>1. f # e
        BY <1>1, <2>2, <3>2 DEF Self
      <4>2. f \in NewEntries
        BY <1>7, <4>1, Zenon
      <4>3. m \in fsm[m].nodes \/ \E h \in Own(m) : h.stage = "commit"
        BY <2>2, <4>2, Zenon DEF ServiceInv, SelfInv
      <4>4. Own(m) \subseteq Own(m)'
        BY <1>5, Zenon DEF Own, At
      <4> QED BY <4>3, <4>4, Zenon
    <3> QED BY <3>1, <3>2, Zenon
  <2> QED BY <1>5, <2>2, Zenon DEF ServiceInv, SelfInv
<1>15. HistoryInv' /\ ServedInv' /\ ToldInv'
  BY <1>5, <1>8, HistoryStays, TopicsStay, ToldStays, Zenon DEF ServiceInv
<1> QED BY <1>7, <1>8, <1>13, <1>14, <1>15, Zenon DEF ServiceInv

\* A client's attempt has a number of its own.
LEMMA SendServed ==
  ASSUME AgreeInv, ServiceInv, NEW c \in Threads, Send(c)
  PROVE  ServiceInv'
<1>0. PICK g : g = [id |-> <<c, sent[c] + 1>>, node |-> link[Owner(c)].target, cmd |-> call[c].cmd, stage |-> "arrived"]
  BY Zenon
<1>1. sent \in [Threads -> Nat] /\ call \in [Threads -> [op : Ops, cmd : Calls, tries : Int]] /\ sent[c] + 1 \in Nat
  BY DEF AgreeInv, ClientInv
<1>2. /\ g.id = <<c, sent[c] + 1>> /\ g.id[1] = c /\ g.id[2] = sent[c] + 1 /\ g.cmd = call[c].cmd
  BY <1>0
<1>3. g.id \in AttemptIds /\ g.id \notin SelfIds
  <2>1. g.id \in AttemptIds
    BY <1>1, <1>2, Zenon DEF AttemptIds
  <2> QED BY <2>1, IdKinds, Zenon
<1>4. /\ handlers' = handlers \cup {g} /\ pc[c] = "send"
      /\ UNCHANGED <<raft, connected, served, told>>
  BY <1>0, Zenon DEF Send
<1>5. /\ \A d \in Threads : sent'[d] >= sent[d]
      /\ sent'[c] = sent[c] + 1
      /\ \A d \in Threads : d # c => sent'[d] = sent[d]
  BY <1>1 DEF Send
<1>6. /\ \A d \in Threads : call'[d].op = call[d].op /\ call'[d].cmd = call[d].cmd
      /\ \A d \in Threads : d # c => call'[d] = call[d]
  BY <1>1, Zenon DEF Send
<1>7. /\ pc' \in [Threads -> {"idle", "send", "wait"}] /\ pc'[c] = "wait"
      /\ \A d \in Threads : d # c => pc'[d] = pc[d]
  BY Zenon DEF Send, ServiceInv, CallInv
<1>8. /\ UNCHANGED <<log, machine, tail, elections, role, fsm, member>>
  BY <1>4, Zenon DEF raft
<1>9. CallInv'
  <2>1. \A d \in Threads : pc'[d] # "idle" => pc[d] # "idle"
    BY <1>4, <1>7, Zenon
  <2>2. Joiners \subseteq Threads
    BY Zenon DEF Threads
  <2>3. \A d \in Threads : pc'[d] # "idle" => NewCmd(call'[d].cmd) /\ call'[d].cmd.kind # "register_node"
    BY <1>6, <2>1, Zenon DEF ServiceInv, CallInv
  <2>4. \A d \in Threads : call'[d].op = "create" => d \notin Joiners /\ call'[d].cmd.kind = "create_topic"
    BY <1>6, Zenon DEF ServiceInv, CallInv
  <2> QED BY <1>4, <1>7, <2>1, <2>2, <2>3, <2>4, Zenon DEF ServiceInv, CallInv
<1>10. LogInv' /\ NewEntries' = NewEntries
  BY <1>8, LogsStay, Zenon DEF ServiceInv
<1>11. \A id \in AttemptIds : id[2] <= sent[id[1]] => id # g.id /\ id[2] <= sent'[id[1]]
  <2> SUFFICES ASSUME NEW id \in AttemptIds, id[2] <= sent[id[1]]
               PROVE  id # g.id /\ id[2] <= sent'[id[1]]
    BY Zenon
  <2>1. id[1] \in Threads /\ id[2] \in Nat
    BY IdKinds, Zenon
  <2>2. sent[id[1]] \in Nat /\ sent'[id[1]] \in Nat
    BY <1>1, <1>5, <2>1
  <2> QED BY <1>1, <1>2, <1>5, <2>1, <2>2
<1>12. ASSUME NEW h \in handlers PROVE Attempt(h)' /\ h.id # g.id
  <2>1. Attempt(h)
    BY Zenon DEF ServiceInv, AttemptInv
  <2>2. h.id # g.id /\ (h.id \in AttemptIds => h.id[2] <= sent'[h.id[1]])
    BY <1>3, <1>11, <2>1, Zenon DEF Attempt
  <2>3. ASSUME Awaits(h)', call'[h.id[1]].op = "create" PROVE h.cmd.kind = "create_topic"
    <3>1. h.id[1] \in Threads /\ pc'[h.id[1]] = "wait" /\ h.id = <<h.id[1], sent'[h.id[1]]>>
      BY <2>3, Zenon DEF Awaits
    <3>2. h.id[1] # c
      BY <1>2, <1>5, <2>2, <3>1, Zenon
    <3>3. Awaits(h) /\ call[h.id[1]].op = "create"
      BY <1>5, <1>6, <1>7, <2>3, <3>1, <3>2, Zenon DEF Awaits
    <3> QED BY <2>1, <3>3, Zenon DEF Attempt
  <2> QED BY <1>4, <1>8, <2>1, <2>2, <2>3, Zenon DEF Attempt, Registering
<1>13. Attempt(g)'
  <2>1. NewCmd(g.cmd) /\ g.cmd.kind # "register_node"
    BY <1>2, <1>4, Zenon DEF ServiceInv, CallInv
  <2>2. g.id[2] <= sent'[g.id[1]]
    BY <1>1, <1>2, <1>5
  <2>3. call'[g.id[1]].op = "create" => g.cmd.kind = "create_topic"
    <3>1. call[c].op = "create" => call[c].cmd.kind = "create_topic"
      BY Zenon DEF ServiceInv, CallInv
    <3>2. call'[g.id[1]].op = call[c].op
      BY <1>2, <1>6, Zenon
    <3> QED BY <1>2, <3>1, <3>2, Zenon
  <2> QED BY <1>3, <2>1, <2>2, <2>3, Zenon DEF Attempt
<1>14. AttemptInv'
  <2>1. \A h \in handlers' : Attempt(h)'
    BY <1>4, <1>12, <1>13, Zenon
  <2>2. \A f, h \in handlers' : f.id = h.id /\ h.id \in AttemptIds => f = h
    BY <1>4, <1>12, Zenon DEF ServiceInv, AttemptInv
  <2>3. \A f \in NewEntries : f.id \in AttemptIds => f.id[2] <= sent'[f.id[1]] /\ f.id # g.id
    BY <1>11, Zenon DEF ServiceInv, AttemptInv
  <2>4. \A h \in handlers', f \in NewEntries :
          f.id = h.id /\ h.id \in AttemptIds => h.stage \in Handed /\ f.cmd = h.cmd
    BY <1>4, <2>3, Zenon DEF ServiceInv, AttemptInv
  <2> QED BY <1>10, <2>1, <2>2, <2>3, <2>4, Zenon DEF AttemptInv
<1>15. SelfInv'
  BY <1>4, <1>8, <1>10, SelfStays, Zenon DEF ServiceInv, SelfInv
<1>16. HistoryInv' /\ ServedInv' /\ ToldInv'
  BY <1>4, <1>8, HistoryStays, TopicsStay, ToldStays, Zenon DEF ServiceInv
<1> QED BY <1>9, <1>10, <1>14, <1>15, <1>16, Zenon DEF ServiceInv

\* A client stops to wait, and the call goes on at the server.
LEMMA TimeOutServed ==
  ASSUME AgreeInv, ServiceInv, NEW c \in Threads, TimeOut(c)
  PROVE  ServiceInv'
<1>1. Retry(c) /\ pc[c] # "idle" /\ UNCHANGED <<raft, handlers>>
  BY Zenon DEF TimeOut, Unavailable
<1>2. CallInv' /\ Quiet
  BY <1>1, RetryQuiet, Zenon DEF AgreeInv, ServiceInv
<1>3. UNCHANGED <<served, told>>
  BY <1>1, Zenon DEF Retry
<1> QED BY <1>1, <1>2, <1>3, ClientStep, Zenon

\* Steps of the clock.
LEMMA UnchangedServed ==
  ASSUME AgreeInv, ServiceInv, UNCHANGED <<raft, client, handlers>>
  PROVE  ServiceInv'
<1>1. CallInv' /\ Quiet /\ UNCHANGED <<served, told>>
  BY ClientQuiet, Zenon DEF ServiceInv, client
<1> QED BY <1>1, ClientStep, Zenon

\* What a waiting handler of n is told is the result of its own command: the
\* history's, whatever n's clock shows.
LEMMA CommandApplied ==
  ASSUME AgreeInv, ServiceInv, NEW n \in Nodes, NEW now, ApplyNext(n, now), NEW h \in handlers, h.node = n,
         h.stage = "commit", h.id = log[applied[n] + 1].id
  PROVE  /\ h.id \in AttemptIds => \E i \in Len(Prelude) + 1 .. Len(log) :
              log[i].id = h.id /\ log[i].cmd = h.cmd /\ machine[i].ok = NextResult(n, now).ok
         /\ Len(h.id) = 3 => n \in NextResult(n, now).state.nodes
<1> DEFINE i == applied[n] + 1
<1>1. i \in Nat /\ Len(log) \in Nat /\ Len(Prelude) \in Nat /\ i \in 1 .. Len(log) /\ i - 1 = applied[n]
  BY PreludeAssumption DEF AgreeInv, RaftAgree, ApplyNext
<1>2. log[i].cmd \in Commands /\ Stamped(log[i].cmd)
  BY <1>1, ElementOfSeq DEF AgreeInv, RaftAgree, Entries
<1>3. machine[i] = Apply(StateAt(i - 1), log[i].cmd, 0) /\ fsm[n] = StateAt(applied[n]) /\ fsm[n] \in States
  BY <1>1, Zenon DEF AgreeInv, RaftAgree
<1>4. NextResult(n, now) = Apply(fsm[n], log[i].cmd, 0)
  BY <1>2, ApplyClock, Zenon DEF NextResult
<1>5. NextResult(n, now) = machine[i]
  BY <1>1, <1>3, <1>4, Zenon
<1> HIDE DEF i
<1>6. i \in 1 .. Len(Prelude) \/ i \in Len(Prelude) + 1 .. Len(log)
  BY <1>1
<1>7. h.id = log[i].id
  BY Zenon DEF i
<1>8. ASSUME h.id \in AttemptIds
      PROVE  i \in Len(Prelude) + 1 .. Len(log) /\ log[i].cmd = h.cmd
  <2>1. ASSUME i \in 1 .. Len(Prelude) PROVE FALSE
    BY <1>7, <1>8, <2>1, PreludeAssumption, ZenonT(60) DEF ServiceInv, LogInv
  <2>2. i \in Len(Prelude) + 1 .. Len(log)
    BY <1>6, <2>1, Zenon
  <2>3. log[i] \in NewEntries
    BY <2>2, Zenon DEF NewEntries
  <2> QED BY <1>7, <1>8, <2>2, <2>3, Zenon DEF ServiceInv, AttemptInv
<1>9. ASSUME Len(h.id) = 3 PROVE n \in NextResult(n, now).state.nodes
  <2>1. h.id \in SelfIds /\ h.id[1] = n
    <3>1. h.id \in AttemptIds \cup SelfIds /\ h.id \notin AttemptIds
      BY <1>9, IdKinds DEF ServiceInv, AttemptInv, Attempt
    <3> QED BY <3>1, Zenon DEF ServiceInv, AttemptInv, Attempt
  <2>2. log[i].cmd = RegisterNodeCmd(n)
    <3>0. log[i].id \in SelfIds /\ log[i].id[1] = n
      BY <1>7, <2>1, Zenon
    <3>1. CASE i \in 1 .. Len(Prelude)
      <4>1. log[i] = Prelude[i]
        BY <3>1, Zenon DEF ServiceInv, LogInv
      <4>2. Prelude[i].id \in SelfIds => Prelude[i].cmd = RegisterNodeCmd(Prelude[i].id[1])
        BY <3>1, PreludeAssumption, Zenon
      <4> QED BY <3>0, <4>1, <4>2, Zenon
    <3>2. CASE i \in Len(Prelude) + 1 .. Len(log)
      <4>1. log[i] \in NewEntries
        BY <3>2, Zenon DEF NewEntries
      <4>2. log[i].cmd = RegisterNodeCmd(log[i].id[1])
        BY <3>0, <4>1, Zenon DEF ServiceInv, LogInv
      <4> QED BY <3>0, <4>2, Zenon
    <3> QED BY <1>6, <3>1, <3>2, Zenon
  <2>3. log[i].cmd.kind = "register_node" /\ log[i].cmd.node = n
    BY <2>2 DEF RegisterNodeCmd
  <2>4. log[i].cmd.node \in NextResult(n, now).state.nodes
    BY <1>2, <1>3, <1>4, <2>3, ApplyGrows, Zenon
  <2> QED BY <2>3, <2>4, Zenon
<1> QED BY <1>5, <1>7, <1>8, <1>9, Zenon

\* A client that is told a result had its attempt executed with it.
LEMMA AnswerServed ==
  ASSUME AgreeInv, ServiceInv, NEW h \in handlers, NEW ok, Answer(h, "ok", NoNode, ok), UNCHANGED <<log, machine, member>>,
         h.id \in AttemptIds => \E i \in Len(Prelude) + 1 .. Len(log) :
              log[i].id = h.id /\ log[i].cmd = h.cmd /\ machine[i].ok = ok
  PROVE  ServedInv' /\ ToldInv'
<1>1. CASE ~Awaits(h)
  BY <1>1, TopicsStay, ToldStays, Zenon DEF Answer, client, ServiceInv
<1>2. CASE Awaits(h)
  <2> DEFINE c == h.id[1]
             x == [id |-> h.id, cmd |-> h.cmd, ok |-> ok]
  <2>1. h.id \in AttemptIds /\ c \in Threads
    BY <1>2, AwaitedAttempt, Zenon DEF AgreeInv
  <2>2. PICK i \in Len(Prelude) + 1 .. Len(log) : log[i].id = h.id /\ log[i].cmd = h.cmd /\ machine[i].ok = ok
    BY <2>1, Zenon
  <2>3. Finish(c, h.id, h.cmd, ok)
    BY <1>2, Zenon DEF Answer, Receive
  <2>4. x.id = h.id /\ x.cmd = h.cmd /\ x.ok = ok
    OBVIOUS
  <2>5. told' = told \cup {x}
    BY <2>3, Zenon DEF Finish
  <2>6. h.cmd.kind = "register_node" => h.cmd.node \in member
    BY <2>1, Zenon DEF ServiceInv, AttemptInv, Attempt
  <2> HIDE DEF c, x
  <2>7. ToldInv'
    BY <2>2, <2>4, <2>5, <2>6, ZenonT(60) DEF ServiceInv, ToldInv
  <2>8. CASE UNCHANGED served
    BY <2>7, <2>8, TopicsStay, Zenon DEF ServiceInv
  <2>9. CASE ok /\ call[c].op = "create" /\ served' = [served EXCEPT ![Owner(c)][h.cmd.topic] = h.cmd.parts]
    <3> DEFINE o == Owner(c)
    <3>1. h.cmd.kind = "create_topic"
      BY <1>2, <2>9, Zenon DEF ServiceInv, AttemptInv, Attempt, c
    <3>2. h.cmd \in Commands
      BY <3>1, Zenon DEF AgreeInv, HandlerInv, WellFormed, Calls
    <3>3. h.cmd.topic \in Topics /\ h.cmd.parts \in Int
      BY <3>1, <3>2, Zenon DEF Commands
    <3>4. o \in Brokers
      BY <2>1, <2>9, OwnerIsBroker, Zenon DEF ServiceInv, CallInv
    <3>5. Creates(i, h.cmd.topic) /\ log[i].id \in AttemptIds /\ Owner(log[i].id[1]) = o /\ log[i].cmd.parts = h.cmd.parts
      BY <2>1, <2>2, <2>9, <3>1, Zenon DEF Creates, c
    <3> HIDE DEF o
    <3>6. served' = [served EXCEPT ![o][h.cmd.topic] = h.cmd.parts]
      BY <2>9, Zenon DEF o
    <3>7. /\ served' \in [Brokers -> [Topics -> Int]]
          /\ served'[o][h.cmd.topic] = h.cmd.parts
          /\ \A b \in Brokers, t \in Topics : b # o \/ t # h.cmd.topic => served'[b][t] = served[b][t]
      BY <3>3, <3>4, <3>6 DEF ServiceInv, ServedInv
    <3>8. \A k, t : Creates(k, t)' <=> Creates(k, t)
      BY Zenon DEF Creates
    <3>9. ASSUME NEW b \in Brokers, NEW t \in Topics, served'[b][t] # 0
          PROVE  \E k \in Len(Prelude) + 1 .. Len(log) :
                   /\ Creates(k, t) /\ log[k].cmd.parts = served'[b][t]
                   /\ log[k].id \in AttemptIds /\ Owner(log[k].id[1]) = b
      <4>1. CASE b = o /\ t = h.cmd.topic
        BY <2>2, <3>5, <3>7, <4>1, Zenon
      <4>2. CASE b # o \/ t # h.cmd.topic
        <5>1. served'[b][t] = served[b][t]
          BY <3>7, <4>2, Zenon
        <5> QED BY <3>9, <5>1, ZenonT(60) DEF ServiceInv, ServedInv
      <4> QED BY <4>1, <4>2, Zenon
    <3>10. ServedInv'
      BY <3>7, <3>8, <3>9, Zenon DEF ServedInv
    <3> QED BY <2>7, <3>10, Zenon
  <2>10. UNCHANGED served \/
           (ok /\ call[c].op = "create" /\ served' = [served EXCEPT ![Owner(c)][h.cmd.topic] = h.cmd.parts])
    BY <2>3, Zenon DEF Finish, Created, Acknowledged, Registered
  <2> QED BY <2>7, <2>8, <2>9, <2>10, Zenon
<1> QED BY <1>1, <1>2, Zenon

\* A replica applies a command, and the caller is told what the commit returned.
LEMMA ApplyCommandServed ==
  ASSUME AgreeInv, ServiceInv, NEW n \in Nodes, ApplyCommand(n)
  PROVE  ServiceInv'
<1> DEFINE now == Clock(n)
<1>1. ApplyNext(n, now)
  BY Zenon DEF ApplyCommand
<1>2. /\ UNCHANGED <<log, tail, machine, elections, role, member>>
      /\ fsm' = [fsm EXCEPT ![n] = NextResult(n, now).state]
  BY <1>1, Zenon DEF ApplyNext
<1>3. fsm[n].nodes \subseteq fsm'[n].nodes /\ fsm'[n] = NextResult(n, now).state
      /\ \A m \in Nodes : m # n => fsm'[m] = fsm[m]
  <2> DEFINE i == applied[n] + 1
  <2>1. i \in 1 .. Len(log)
    BY <1>1 DEF AgreeInv, RaftAgree, ApplyNext
  <2>2. log[i].cmd \in Commands /\ Stamped(log[i].cmd)
    BY <2>1, ElementOfSeq DEF AgreeInv, RaftAgree, Entries
  <2>3. NextResult(n, now) = Apply(fsm[n], log[i].cmd, 0) /\ fsm[n] \in States
    BY <2>2, ApplyClock, Zenon DEF NextResult, AgreeInv, RaftAgree
  <2>4. fsm[n].nodes \subseteq NextResult(n, now).state.nodes
    BY <2>2, <2>3, ApplyGrows, ZenonT(60)
  <2> QED BY <1>2, <2>4, Zenon DEF AgreeInv, RaftAgree
<1>4. NewEntries' = NewEntries /\ LogInv'
  BY <1>2, LogsStay, Zenon DEF ServiceInv
<1>5. CASE UNCHANGED <<handlers, client>>
  <2>1. CallInv' /\ Quiet /\ UNCHANGED <<served, told>>
    BY <1>5, ClientQuiet, Zenon DEF ServiceInv, client
  <2>2. AttemptInv'
    BY <1>2, <1>4, <1>5, <2>1, HandlersStay, Zenon DEF AgreeInv, ServiceInv
  <2>3. \A m \in Nodes : m \in fsm[m].nodes => m \in fsm'[m].nodes
    BY <1>3, Zenon
  <2> QED BY <1>2, <1>5, <2>1, <2>2, <2>3, QuietStep, Zenon DEF ServiceInv, SelfInv
<1>6. ASSUME NEW h \in handlers, h.node = n, h.stage = "commit", h.id = log[applied[n] + 1].id,
             Answer(h, "ok", NoNode, NextResult(n, now).ok)
      PROVE  ServiceInv'
  <2>1. CallInv' /\ Quiet
    BY <1>6, AnswerQuiet, Zenon DEF AgreeInv, ServiceInv
  <2>2. handlers' = handlers \ {h}
    BY <1>6, Zenon DEF Answer
  <2>3. AttemptInv'
    BY <1>2, <1>4, <2>1, <2>2, HandlersStay, Zenon DEF AgreeInv, ServiceInv
  <2>4. /\ h.id \in AttemptIds => \E i \in Len(Prelude) + 1 .. Len(log) :
              log[i].id = h.id /\ log[i].cmd = h.cmd /\ machine[i].ok = NextResult(n, now).ok
        /\ Len(h.id) = 3 => n \in fsm'[n].nodes
    BY <1>1, <1>3, <1>6, CommandApplied, ZenonT(60)
  <2>5. ServedInv' /\ ToldInv'
    BY <1>2, <1>6, <2>4, AnswerServed, Zenon
  <2>6. SelfInv'
    BY <1>2, <1>3, <1>4, <1>6, <2>2, <2>4, SelfStays, Zenon DEF ServiceInv, SelfInv
  <2>7. HistoryInv'
    BY <1>2, HistoryStays, Zenon DEF ServiceInv
  <2> QED BY <1>4, <2>1, <2>3, <2>5, <2>6, <2>7, Zenon DEF ServiceInv
<1> QED BY <1>5, <1>6, Zenon DEF ApplyCommand

\* Every step of replicated.Server and raftd.
LEMMA ServerServed == ASSUME AgreeInv, ServiceInv, Server PROVE ServiceInv'
<1>1. ASSUME NEW n \in Nodes, NEW h \in At(n),
             \/ ProposeFails(h) \/ TurnAway(h) \/ Propose(h) \/ AddVoter(h) \/ AddVoterLost(h)
             \/ RaftApply(h) \/ ProposeLost(h)
      PROVE  ServiceInv'
  <2>1. h \in handlers /\ h.node \in Nodes
    BY Zenon DEF At
  <2> QED
    BY <1>1, <2>1, HandlerEndsServed, ProposeServed, AddVoterServed, RaftApplyServed, Zenon
<1> QED
  BY <1>1, ApplyCommandServed, LoseLeadershipServed, RestartServerServed, EnsureSelfRegisteredServed,
     RestartJoiningServed, Zenon DEF Server

\* Every step keeps the invariant.
LEMMA ServiceStep == ASSUME AgreeInv, ServiceInv, [Next]_vars PROVE ServiceInv'
<1>1. CASE Tick \/ UNCHANGED vars
  BY <1>1, UnchangedServed, Zenon DEF Tick, vars
<1> QED
  BY <1>1, BrokerCrashServed, ConsensusServed, ServerServed, CallerServed, SendServed, TimeOutServed, Zenon DEF Next

\* The invariant holds at the start: the first commands are nobody's attempts.
LEMMA ServiceStarts == ASSUME Init PROVE ServiceInv
<1>1. /\ log = Prelude /\ tail = [n \in Nodes |-> <<>>] /\ role = [n \in Nodes |-> n = FirstLeader]
      /\ handlers = {} /\ told = {} /\ served = [b \in Brokers |-> [t \in Topics |-> 0]]
      /\ pc = [c \in Threads |-> "idle"] /\ call = [c \in Threads |-> Idle]
      /\ connected = [x \in Processes |-> IF x \in Connected THEN "yes" ELSE "no"]
  BY Zenon DEF Init, RaftInit, ClientInit, ServerInit
<1>2. Len(Prelude) \in Nat
  BY PreludeAssumption
<1>3. \A i : i \notin Len(Prelude) + 1 .. Len(log)
  BY <1>1, <1>2
<1>4. \A n \in Nodes : \A k : k \notin 1 .. Len(tail[n])
  BY <1>1
<1>5. TailEntries = {}
  BY <1>4, InSomeTail, Zenon DEF TailEntries
<1>6. NewEntries = {}
  BY <1>3, <1>5, Zenon DEF NewEntries
<1>7. CallInv
  <2>1. Idle.op = "none"
    BY DEF Idle
  <2>2. Joiners \subseteq Threads
    BY Zenon DEF Threads
  <2> QED BY <1>1, <2>1, <2>2, Zenon DEF CallInv
<1>8. AttemptInv
  BY <1>1, <1>6, Zenon DEF AttemptInv
<1>9. LogInv
  <2>1. Len(Prelude) <= Len(log)
    BY <1>1, <1>2
  <2> QED BY <1>1, <1>3, <1>4, <1>6, <2>1, Zenon DEF LogInv
<1>10. SelfInv
  BY <1>1, <1>6, Zenon DEF SelfInv
<1>11. HistoryInv /\ ToldInv
  BY <1>1, <1>3, Zenon DEF HistoryInv, ToldInv
<1>12. ServedInv
  BY <1>1 DEF ServedInv
<1> QED BY <1>7, <1>8, <1>9, <1>10, <1>11, <1>12, Zenon DEF ServiceInv

\* The invariant behind the theorems on the replicated server and its clients: the
\* replicas agree with the log, and calls, attempts, the log and what callers were
\* told and serve fit together.
THEOREM ServiceInvariance == Spec => [](AgreeInv /\ ServiceInv)
<1>1. Init => AgreeInv /\ ServiceInv
  BY AgreeInit, ServiceStarts, Zenon
<1>2. AgreeInv /\ ServiceInv /\ [Next]_vars => (AgreeInv /\ ServiceInv)'
  BY AgreeStep, ServiceStep, Zenon
<1> QED BY <1>1, <1>2, PTL DEF Spec

\* What a broker serves is what the control plane has, and it is the only one
\* to serve it: the topic was created by one committed command, the broker's own.
THEOREM ServedByItsCreator == Spec => []ServedAgrees
<1>1. ASSUME AgreeInv, ServiceInv PROVE ServedAgrees
  <2> SUFFICES ASSUME NEW b \in Brokers, NEW t \in Topics, served[b][t] # 0
               PROVE  /\ StateAt(Len(log)).topics[t] = served[b][t]
                      /\ \A o \in Brokers \ {b} : served[o][t] = 0
    BY Zenon DEF ServedAgrees
  <2>1. PICK i \in Len(Prelude) + 1 .. Len(log) :
          /\ Creates(i, t) /\ log[i].cmd.parts = served[b][t]
          /\ log[i].id \in AttemptIds /\ Owner(log[i].id[1]) = b
    BY <1>1, Zenon DEF ServiceInv, ServedInv
  <2>2. StateAt(Len(log)).topics[t] = served[b][t]
    BY <1>1, <2>1, Zenon DEF ServiceInv, HistoryInv
  <2>3. ASSUME NEW o \in Brokers \ {b}, served[o][t] # 0 PROVE FALSE
    <3>1. PICK j \in Len(Prelude) + 1 .. Len(log) : Creates(j, t) /\ Owner(log[j].id[1]) = o
      BY <1>1, <2>3, Zenon DEF ServiceInv, ServedInv
    <3>2. i = j
      BY <1>1, <2>1, <3>1, Zenon DEF ServiceInv, HistoryInv
    <3> QED BY <2>1, <2>3, <3>1, <3>2, Zenon
  <2> QED BY <2>2, <2>3, Zenon
<1> QED BY <1>1, ServiceInvariance, PTL

\* A node that was told it has joined is a voter and in the registry.
THEOREM JoinedNodesAreMembers == Spec => []JoinedIsMember
<1>1. ASSUME AgreeInv, ServiceInv PROVE JoinedIsMember
  <2> SUFFICES ASSUME NEW x \in told, x.cmd.kind = "register_node"
               PROVE  x.cmd.node \in member /\ x.cmd.node \in StateAt(Len(log)).nodes
    BY Zenon DEF JoinedIsMember
  <2>1. PICK i \in Len(Prelude) + 1 .. Len(log) : x.cmd = log[i].cmd /\ x.cmd.node \in member
    BY <1>1, Zenon DEF ServiceInv, ToldInv
  <2> QED BY <1>1, <2>1, Zenon DEF ServiceInv, HistoryInv
<1> QED BY <1>1, ServiceInvariance, PTL

(***************************************************************************)
(* One service                                                             *)
(***************************************************************************)

\* The attempts that were executed and the results that were told, as the
\* service sees them.
Executed == {Execution(i) : i \in (Len(Prelude) + 1) .. Len(log)}
Heard == {[id |-> x.id, kind |-> x.cmd.kind, ok |-> x.ok] : x \in told}

\* A commit executes one more attempt, for the first time.
LEMMA CommitExecutes ==
  ASSUME RaftAgree, LogInv, LogInv', Commit, leader # NoNode, NEW X,
         X = [id |-> NextEntry.id, kind |-> NextEntry.cmd.kind, ok |-> NextEffect.ok]
  PROVE  Executed' = Executed \cup {X} /\ \A y \in Executed : y.id # X.id
<1> DEFINE len == Len(log)
           p == Len(Prelude)
<1>1. /\ len \in Nat /\ p \in Nat /\ p <= len
      /\ Len(log') = len + 1 /\ log'[len + 1] = NextEntry /\ machine'[len + 1] = NextEffect
  <2>1. p \in Nat
    BY PreludeAssumption
  <2> QED BY <2>1, CommitExtends, Zenon DEF LogInv
<1>2. \A i \in p + 1 .. len : log'[i] = log[i] /\ machine'[i] = machine[i]
  BY CommitKeeps, Zenon
<1>3. p + 1 .. Len(log') = (p + 1 .. len) \cup {len + 1} /\ len + 1 \notin p + 1 .. len
  BY <1>1
<1>4. Executed' = {[id |-> log'[i].id, kind |-> log'[i].cmd.kind, ok |-> machine'[i].ok] : i \in p + 1 .. Len(log')}
  BY Zenon DEF Executed, Execution
<1>5. Executed = {[id |-> log[i].id, kind |-> log[i].cmd.kind, ok |-> machine[i].ok] : i \in p + 1 .. len}
  BY Zenon DEF Executed, Execution
<1> HIDE DEF len, p
<1>6. Executed' = Executed \cup {X}
  <2> DEFINE before(i) == [id |-> log[i].id, kind |-> log[i].cmd.kind, ok |-> machine[i].ok]
             after(i) == [id |-> log'[i].id, kind |-> log'[i].cmd.kind, ok |-> machine'[i].ok]
  <2>1. after(len + 1) = X
    BY <1>1, Zenon
  <2>2. \A i \in p + 1 .. len : after(i) = before(i)
    BY <1>2, Zenon
  <2>3. Executed' = {after(i) : i \in (p + 1 .. len) \cup {len + 1}} /\ Executed = {before(i) : i \in p + 1 .. len}
    BY <1>3, <1>4, <1>5, Zenon
  <2> HIDE DEF before, after
  <2> QED BY <2>1, <2>2, <2>3, Zenon
<1>7. ASSUME NEW y \in Executed PROVE y.id # X.id
  <2>1. PICK i \in p + 1 .. len : y = [id |-> log[i].id, kind |-> log[i].cmd.kind, ok |-> machine[i].ok]
    BY <1>5, Zenon
  <2>2. y.id = log'[i].id /\ X.id = log'[len + 1].id
    BY <1>1, <1>2, <2>1
  <2>3. i \in p + 1 .. Len(log') /\ len + 1 \in p + 1 .. Len(log') /\ i # len + 1
    BY <1>3, Zenon
  <2> QED BY <2>2, <2>3, Zenon DEF LogInv, p
<1> QED BY <1>6, <1>7, Zenon

\* A commit of a command is a step of the service.
LEMMA CommitServes ==
  ASSUME AgreeInv, ServiceInv, LogInv', Commit, leader # NoNode, UNCHANGED told, Parts \subseteq Nat \ {0}
  PROVE  Service!Next
<1> DEFINE f == StateAt(Len(log))
           cmd == NextEntry.cmd
           r == NextEffect
<1>0. PICK X : X = [id |-> NextEntry.id, kind |-> cmd.kind, ok |-> r.ok]
  BY Zenon
<1>1. Executed' = Executed \cup {X} /\ X \in Executed' /\ \A y \in Executed : y.id # X.id
  BY <1>0, CommitExecutes, ZenonT(60) DEF AgreeInv, ServiceInv
<1>2. X.kind = cmd.kind /\ X.ok = r.ok
  BY <1>0
<1>3. Service!Done(X.kind, X.ok)
  <2>1. UNCHANGED Heard
    BY Zenon DEF Heard
  <2> QED BY <1>1, <2>1, Zenon DEF Service!Done, Executed, Heard
<1>4. f \in States /\ cmd \in Commands /\ Stamped(cmd) /\ r = Apply(f, cmd, 0)
  BY CommitExtends, Zenon DEF AgreeInv, Entries, NextEffect
<1>12. Effect(f, cmd, r)
  BY <1>4, ApplyEffect, Zenon
<1>5. StateAt(Len(log))' = r.state
  BY CommitExtends DEF AgreeInv, StateAt
<1>6. NewCmd(cmd)
  <2>1. NextEntry \in NewEntries'
    <3>1. Len(log') = Len(log) + 1 /\ log'[Len(log) + 1] = NextEntry /\ Len(log) \in Nat /\ Len(Prelude) \in Nat
      BY CommitExtends, PreludeAssumption DEF AgreeInv
    <3>2. Len(log) + 1 \in Len(Prelude) + 1 .. Len(log')
      BY <3>1 DEF ServiceInv, LogInv
    <3> QED BY <3>1, <3>2, Zenon DEF NewEntries
  <2> QED BY <2>1, Zenon DEF LogInv
<1> HIDE DEF f, cmd, r
<1>7. CASE cmd.kind = "create_topic"
  <2>1. cmd.parts > 0
    <3>1. cmd.parts \in Nat \ {0}
      BY <1>6, <1>7, Zenon DEF NewCmd
    <3> QED BY <3>1
  <2> DEFINE t == cmd.topic
  <2>2. /\ t \in Topics /\ X.ok = (f.topics[t] = 0) /\ r.state.brokers = f.brokers
        /\ f.topics[t] = 0 => r.state.topics = [f.topics EXCEPT ![t] = cmd.parts]
        /\ f.topics[t] # 0 => r.state.topics = f.topics
    BY <1>2, <1>12, <1>7, <2>1, Zenon DEF Effect
  <2>3. f.topics[t] = 0 => r.state.topics[t] = cmd.parts
    BY <1>4, <2>2, Zenon DEF States
  <2> HIDE DEF t
  <2>4. Service!Create(t)
    BY <1>2, <1>3, <1>5, <1>7, <2>1, <2>2, <2>3, Zenon DEF Service!Create, f
  <2> QED BY <2>2, <2>4, Zenon DEF Service!Next
<1>8. CASE cmd.kind = "register_broker"
  <2> DEFINE b == cmd.broker
  <2>1. /\ b \in Brokers /\ X.ok = TRUE /\ r.state.topics = f.topics
        /\ cmd.at > 0 /\ r.state.brokers = [f.brokers EXCEPT ![b] = cmd.at]
    BY <1>2, <1>12, <1>8, Zenon DEF Effect
  <2>2. r.state.brokers[b] = cmd.at
    BY <1>4, <2>1, Zenon DEF States
  <2> HIDE DEF b
  <2>3. Service!Register(b)
    BY <1>2, <1>3, <1>5, <1>8, <2>1, <2>2, Zenon DEF Service!Register, f
  <2> QED BY <2>1, <2>3, Zenon DEF Service!Next
<1>9. CASE cmd.kind = "heartbeat"
  <2> DEFINE b == cmd.broker
  <2>1. /\ b \in Brokers /\ X.ok = (f.brokers[b] # 0) /\ r.state.topics = f.topics
        /\ f.brokers[b] # 0 =>
             \E at \in Nat : at >= f.brokers[b] /\ r.state.brokers = [f.brokers EXCEPT ![b] = at]
        /\ f.brokers[b] = 0 => r.state.brokers = f.brokers
    BY <1>2, <1>12, <1>9, Zenon DEF Effect
  <2> HIDE DEF b
  <2>2. f.brokers[b] # 0 =>
          r.state.brokers[b] >= f.brokers[b] /\ r.state.brokers = [f.brokers EXCEPT ![b] = r.state.brokers[b]]
    BY <1>4, <2>1, Zenon DEF States
  <2>3. Service!Beat(b)
    BY <1>2, <1>3, <1>5, <1>9, <2>1, <2>2, Zenon DEF Service!Beat, f
  <2> QED BY <2>1, <2>3, Zenon DEF Service!Next
<1>10. CASE cmd.kind = "register_node"
  <2>1. X.ok = TRUE /\ r.state.topics = f.topics /\ r.state.brokers = f.brokers
    BY <1>2, <1>12, <1>10, Zenon DEF Effect
  <2>2. Service!RegisterMember
    BY <1>2, <1>3, <1>5, <1>10, <2>1, Zenon DEF Service!RegisterMember, f
  <2> QED BY <2>2, Zenon DEF Service!Next
<1>11. cmd.kind \in {"create_topic", "register_broker", "heartbeat", "register_node"}
  BY <1>4, <1>6, Zenon DEF Commands, NewCmd
<1> QED BY <1>7, <1>8, <1>9, <1>10, <1>11, Zenon

\* An answer tells its client one result at most.
LEMMA AnswerTells ==
  ASSUME NEW h, NEW code, NEW hint, NEW ok, Answer(h, code, hint, ok)
  PROVE  UNCHANGED told \/ \E x : told' = told \cup {x}
BY ZenonT(60) DEF Answer, Receive, Redirected, Unavailable, Retry, Finish, client

\* Every other step leaves the log alone and tells one result at most.
LEMMA OtherSteps ==
  ASSUME [Next]_vars
  PROVE  \/ leader # NoNode /\ Commit /\ UNCHANGED told
         \/ UNCHANGED <<log, machine>> /\ (UNCHANGED told \/ \E x : told' = told \cup {x})
<1>1. CASE UNCHANGED vars \/ Tick \/ Caller
  BY <1>1, ZenonT(60) DEF vars, Tick, Caller, Connect, HeartbeatOnce, CreateTopicCall, Join, Begin, raft, client
<1>2. CASE Consensus
  BY <1>2, ZenonT(60) DEF Consensus, Elect, TakeSnapshot, InstallSnapshot, client
<1>3. ASSUME NEW c \in Threads, Send(c) \/ TimeOut(c) PROVE UNCHANGED <<log, machine, told>>
  BY <1>3, ZenonT(60) DEF Send, TimeOut, Unavailable, Retry, raft
<1>4. ASSUME NEW b \in Brokers, BrokerCrash(b) PROVE UNCHANGED <<log, machine, told>>
  BY <1>4, Zenon DEF BrokerCrash, RestartBroker, RestartProcess
<1>5. ASSUME NEW h, TurnAway(h) \/ AddVoterLost(h) \/ ProposeLost(h) \/ ProposeFails(h)
      PROVE  UNCHANGED <<log, machine>> /\ (UNCHANGED told \/ \E x : told' = told \cup {x})
  BY <1>5, AnswerTells, ZenonT(60) DEF TurnAway, AddVoterLost, ProposeLost, ProposeFails, notLeader, raft
<1>6. ASSUME NEW h, Propose(h) \/ AddVoter(h) \/ RaftApply(h) PROVE UNCHANGED <<log, machine, told>>
  BY <1>6, ZenonT(60) DEF Propose, AddVoter, RaftApply, Accept, raft, client
<1>7. ASSUME NEW n, ApplyCommand(n)
      PROVE  UNCHANGED <<log, machine>> /\ (UNCHANGED told \/ \E x : told' = told \cup {x})
  BY <1>7, AnswerTells, ZenonT(60) DEF ApplyCommand, ApplyNext, client
<1>8. ASSUME NEW n, LoseLeadership(n) \/ RestartServer(n) \/ EnsureSelfRegistered(n) \/ RestartJoining(n)
      PROVE  UNCHANGED <<log, machine, told>>
  BY <1>8, ZenonT(60) DEF LoseLeadership, StepDown, RestartServer, RestartNode, EnsureSelfRegistered,
     RestartJoining, RestartJoiner, RestartProcess, client
<1>9. CASE Server
  BY <1>5, <1>6, <1>7, <1>8, <1>9, ZenonT(60) DEF Server
<1> QED BY <1>1, <1>2, <1>3, <1>4, <1>9, ZenonT(60) DEF Next

\* A result that is told is that of an executed attempt.
LEMMA ToldWasExecuted ==
  ASSUME ToldInv', UNCHANGED <<log, machine>>, NEW x, told' = told \cup {x}
  PROVE  [id |-> x.id, kind |-> x.cmd.kind, ok |-> x.ok] \in Executed
<1>1. PICK i \in Len(Prelude) + 1 .. Len(log) : x.id = log[i].id /\ x.cmd = log[i].cmd /\ x.ok = machine[i].ok
  BY ZenonT(60) DEF ToldInv
<1>2. [id |-> x.id, kind |-> x.cmd.kind, ok |-> x.ok] = Execution(i)
  BY <1>1, Zenon DEF Execution
<1> QED BY <1>2, Zenon DEF Executed

\* Every step of the control plane is a step of the service, or none for it.
LEMMA ServiceSteps ==
  ASSUME AgreeInv, ServiceInv, ServiceInv', [Next]_vars, Parts \subseteq Nat \ {0}
  PROVE  [Service!Next]_(Service!vars)
<1>1. CASE leader # NoNode /\ Commit /\ UNCHANGED told
  BY <1>1, CommitServes, Zenon DEF ServiceInv
<1>2. ASSUME UNCHANGED <<log, machine>>
      PROVE  UNCHANGED <<StateAt(Len(log)).topics, StateAt(Len(log)).brokers, Executed>>
  BY <1>2, Zenon DEF StateAt, Executed, Execution
<1>3. CASE UNCHANGED <<log, machine, told>>
  <2>1. UNCHANGED Heard
    BY <1>3, Zenon DEF Heard
  <2> QED BY <1>2, <1>3, <2>1, Zenon DEF Service!vars, Executed, Heard
<1>4. ASSUME UNCHANGED <<log, machine>>, NEW x, told' = told \cup {x} PROVE Service!Next
  <2> DEFINE y == [id |-> x.id, kind |-> x.cmd.kind, ok |-> x.ok]
  <2>1. y \in Executed
    BY <1>4, ToldWasExecuted, Zenon DEF ServiceInv
  <2>2. Heard' = Heard \cup {y}
    BY <1>4, Zenon DEF Heard
  <2> HIDE DEF y
  <2>3. Service!Tell
    BY <1>2, <1>4, <2>1, <2>2, Zenon DEF Service!Tell, Executed, Heard
  <2> QED BY <2>3, Zenon DEF Service!Next
<1> QED BY <1>1, <1>3, <1>4, OtherSteps, Zenon

\* The control plane behaves as one service, whatever happens to its nodes and
\* to the calls: an attempt is executed at most once, at its commit, and its
\* caller is told the result of its own attempt.
THEOREM ServiceImplemented ==
  ASSUME Parts \subseteq Nat \ {0}
  PROVE  Spec => ImplementsService
<1>1. Init => Executed = {} /\ Heard = {}
  <2> SUFFICES ASSUME Init PROVE Executed = {} /\ Heard = {}
    BY Zenon
  <2>1. log = Prelude /\ told = {} /\ Len(Prelude) \in Nat
    BY PreludeAssumption DEF Init, RaftInit, ClientInit
  <2>2. (Len(Prelude) + 1) .. Len(log) = {}
    BY <2>1
  <2> QED BY <2>1, <2>2, Zenon DEF Executed, Heard
<1>2. AgreeInv /\ ServiceInv /\ ServiceInv' /\ [Next]_vars => [Service!Next]_(Service!vars)
  BY ServiceSteps
<1> QED BY <1>1, <1>2, ServiceInvariance, PTL DEF Spec, ImplementsService, Service!Spec, Executed, Heard
==============================================================================
