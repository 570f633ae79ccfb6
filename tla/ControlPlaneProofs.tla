-------------------------- MODULE ControlPlaneProofs -------------------------
(***************************************************************************)
(* The replicas of the control plane agree, for every number of nodes,     *)
(* brokers, topics and commands, whatever their clocks show and however    *)
(* they get at their state: command by command, from a snapshot of their   *)
(* own, or from one of the leader.                                         *)
(***************************************************************************)
EXTENDS ControlPlane, SequenceTheorems, TLAPS

USE SMTT(30), ZenonT(30), SMTT(60)

(***************************************************************************)
(* The commands and the snapshots                                          *)
(***************************************************************************)

\* Apply stays within the types.
LEMMA ApplyType ==
  ASSUME NEW f \in States, NEW cmd \in Commands, NEW now \in Nat
  PROVE  Apply(f, cmd, now) \in Results
<1>1. CASE cmd \in [kind : {"create_topic"}, topic : Topics, parts : Int, at : Nat]
  BY <1>1 DEF Apply, CreateTopic, Result, Results, States
<1>2. CASE cmd \in [kind : {"register_broker", "heartbeat"}, broker : Brokers, at : Nat]
  BY <1>2, Zenon DEF Apply, RegisterAt, HeartbeatAt, Heartbeat, Result, Results, States
<1>3. CASE cmd \in [kind : {"increment_counter"}, at : Nat]
  BY <1>3 DEF Apply, IncrementCounter, Result, Results, States
<1>4. CASE cmd \in [kind : {"register_node"}, node : Nodes, at : Nat]
  BY <1>4, Zenon DEF Apply, RegisterNode, Result, Results, States
<1> QED
  BY <1>1, <1>2, <1>3, <1>4, Zenon DEF Commands

\* A command forgets neither members nor topics, and creates a topic once.
LEMMA ApplyGrows ==
  ASSUME NEW f \in States, NEW cmd \in Commands, NEW r, r = Apply(f, cmd, 0)
  PROVE  /\ f.nodes \subseteq r.state.nodes
         /\ cmd.kind = "register_node" => cmd.node \in r.state.nodes
         /\ \A t \in Topics : f.topics[t] # 0 => r.state.topics[t] = f.topics[t]
         /\ cmd.kind = "create_topic" /\ r.ok =>
              cmd.parts # 0 /\ f.topics[cmd.topic] = 0 /\ r.state.topics[cmd.topic] = cmd.parts
<1>1. CASE cmd \in [kind : {"create_topic"}, topic : Topics, parts : Int, at : Nat]
  <2>1. r = CreateTopic(f, cmd.topic, cmd.parts) /\ cmd.kind = "create_topic" /\ cmd.topic \in Topics
    BY <1>1, Zenon DEF Apply
  <2>2. CASE f.topics[cmd.topic] # 0 \/ cmd.parts <= 0
    <3>1. r.state = f /\ r.ok = FALSE
      BY <2>1, <2>2 DEF CreateTopic, Result
    <3> QED BY <2>1, <3>1, Zenon
  <2>3. CASE ~(f.topics[cmd.topic] # 0 \/ cmd.parts <= 0)
    <3>1. r.state = [f EXCEPT !.topics[cmd.topic] = cmd.parts]
      BY <2>1, <2>3 DEF CreateTopic, Result
    <3>2. /\ r.state.nodes = f.nodes /\ r.state.topics[cmd.topic] = cmd.parts
          /\ \A t \in Topics : t # cmd.topic => r.state.topics[t] = f.topics[t]
      BY <2>1, <3>1, Zenon DEF States
    <3>3. cmd.parts # 0
      BY <2>3
    <3> QED BY <2>1, <2>3, <3>2, <3>3, Zenon
  <2> QED BY <2>2, <2>3, Zenon
<1>2. CASE cmd \in [kind : {"register_broker", "heartbeat"}, broker : Brokers, at : Nat]
  BY <1>2 DEF Apply, RegisterAt, HeartbeatAt, Heartbeat, Result, States
<1>3. CASE cmd \in [kind : {"increment_counter"}, at : Nat]
  BY <1>3, Zenon DEF Apply, IncrementCounter, Result, States
<1>4. CASE cmd \in [kind : {"register_node"}, node : Nodes, at : Nat]
  BY <1>4, Zenon DEF Apply, RegisterNode, Result, States
<1> QED BY <1>1, <1>2, <1>3, <1>4, Zenon DEF Commands

\* What a command does to topics and leases.
Effect(f, cmd, r) ==
  /\ cmd.kind = "create_topic" /\ cmd.parts > 0 =>
       /\ cmd.topic \in Topics /\ r.ok = (f.topics[cmd.topic] = 0) /\ r.state.brokers = f.brokers
       /\ f.topics[cmd.topic] = 0 => r.state.topics = [f.topics EXCEPT ![cmd.topic] = cmd.parts]
       /\ f.topics[cmd.topic] # 0 => r.state.topics = f.topics
  /\ cmd.kind = "register_broker" =>
       /\ cmd.broker \in Brokers /\ r.ok = TRUE /\ r.state.topics = f.topics
       /\ cmd.at > 0 /\ r.state.brokers = [f.brokers EXCEPT ![cmd.broker] = cmd.at]
  /\ cmd.kind = "heartbeat" =>
       /\ cmd.broker \in Brokers /\ r.ok = (f.brokers[cmd.broker] # 0) /\ r.state.topics = f.topics
       /\ f.brokers[cmd.broker] # 0 =>
            \E at \in Nat : at >= f.brokers[cmd.broker] /\ r.state.brokers = [f.brokers EXCEPT ![cmd.broker] = at]
       /\ f.brokers[cmd.broker] = 0 => r.state.brokers = f.brokers
  /\ cmd.kind = "register_node" => r.ok = TRUE /\ r.state.topics = f.topics /\ r.state.brokers = f.brokers

\* What Apply does to a state with a command that is stamped.
LEMMA ApplyEffect ==
  ASSUME NEW f \in States, NEW cmd \in Commands, Stamped(cmd), NEW r, r = Apply(f, cmd, 0)
  PROVE  Effect(f, cmd, r)
<1>1. CASE cmd \in [kind : {"create_topic"}, topic : Topics, parts : Int, at : Nat]
  <2>1. r = CreateTopic(f, cmd.topic, cmd.parts) /\ cmd.kind = "create_topic" /\ cmd.topic \in Topics /\ cmd.parts \in Int
    BY <1>1, Zenon DEF Apply
  <2>2. CASE f.topics[cmd.topic] # 0
    <3>1. r.state = f /\ r.ok = FALSE
      BY <2>1, <2>2 DEF CreateTopic, Result
    <3> QED BY <2>1, <2>2, <3>1, Zenon DEF Effect
  <2>3. CASE f.topics[cmd.topic] = 0 /\ cmd.parts > 0
    <3>1. r.state = [f EXCEPT !.topics[cmd.topic] = cmd.parts] /\ r.ok = TRUE
      BY <2>1, <2>3 DEF CreateTopic, Result
    <3>2. r.state.brokers = f.brokers /\ r.state.topics = [f.topics EXCEPT ![cmd.topic] = cmd.parts]
      BY <3>1, Zenon DEF States
    <3> QED BY <2>1, <2>3, <3>1, <3>2, Zenon DEF Effect
  <2> QED BY <2>1, <2>2, <2>3, Zenon DEF Effect
<1>2. CASE cmd \in [kind : {"register_broker", "heartbeat"}, broker : Brokers, at : Nat]
  <2>1. cmd.broker \in Brokers /\ cmd.at \in Nat /\ cmd.at # 0
    BY <1>2, Zenon DEF Stamped
  <2>2. CASE cmd.kind = "register_broker"
    <3>1. r = RegisterAt(f, cmd.broker, cmd.at)
      BY <2>1, <2>2, Zenon DEF Apply
    <3>2. r.state = [f EXCEPT !.brokers[cmd.broker] = cmd.at] /\ r.ok = TRUE
      BY <3>1 DEF RegisterAt, Result
    <3>3. r.state.topics = f.topics /\ r.state.brokers = [f.brokers EXCEPT ![cmd.broker] = cmd.at]
      BY <3>2, Zenon DEF States
    <3>4. cmd.at > 0
      BY <2>1
    <3> QED BY <2>1, <2>2, <3>2, <3>3, <3>4, Zenon DEF Effect
  <2>3. CASE cmd.kind = "heartbeat"
    <3>1. r = HeartbeatAt(f, cmd.broker, cmd.at)
      BY <2>1, <2>3, Zenon DEF Apply
    <3>2. CASE f.brokers[cmd.broker] = 0
      <4>1. r.state = f /\ r.ok = FALSE
        BY <3>1, <3>2 DEF HeartbeatAt, Result
      <4> QED BY <2>1, <2>3, <3>2, <4>1, Zenon DEF Effect
    <3>3. CASE f.brokers[cmd.broker] # 0
      <4> DEFINE at == IF cmd.at > f.brokers[cmd.broker] THEN cmd.at ELSE f.brokers[cmd.broker]
      <4>1. r.state = [f EXCEPT !.brokers[cmd.broker] = IF cmd.at > @ THEN cmd.at ELSE @] /\ r.ok = TRUE
        BY <3>1, <3>3 DEF HeartbeatAt, Result
      <4>2. r.state.topics = f.topics /\ r.state.brokers = [f.brokers EXCEPT ![cmd.broker] = at]
        BY <4>1, Zenon DEF States
      <4>3. f.brokers[cmd.broker] \in Nat
        BY <2>1, Zenon DEF States
      <4>4. at \in Nat /\ at >= f.brokers[cmd.broker]
        BY <2>1, <4>3
      <4> HIDE DEF at
      <4> QED BY <2>1, <2>3, <3>3, <4>1, <4>2, <4>4, Zenon DEF Effect
    <3> QED BY <3>2, <3>3, Zenon
  <2> QED BY <1>2, <2>2, <2>3, Zenon
<1>3. CASE cmd \in [kind : {"increment_counter"}, at : Nat]
  BY <1>3, Zenon DEF Effect
<1>4. CASE cmd \in [kind : {"register_node"}, node : Nodes, at : Nat]
  <2>1. r = RegisterNode(f, cmd.node) /\ cmd.kind = "register_node"
    BY <1>4, Zenon DEF Apply
  <2>2. r.state = [f EXCEPT !.nodes = @ \cup {cmd.node}] /\ r.ok = TRUE
    BY <2>1 DEF RegisterNode, Result
  <2>3. r.state.topics = f.topics /\ r.state.brokers = f.brokers
    BY <2>2, Zenon DEF States
  <2> QED BY <2>1, <2>2, <2>3, Zenon DEF Effect
<1> QED BY <1>1, <1>2, <1>3, <1>4, Zenon DEF Commands

\* The replica's own clock does not matter to a command that carries its time.
LEMMA ApplyClock ==
  ASSUME NEW f, NEW cmd \in Commands, Stamped(cmd), NEW now
  PROVE  Apply(f, cmd, now) = Apply(f, cmd, 0)
<1>1. CASE cmd.kind \in {"register_broker", "heartbeat"}
  BY <1>1, Zenon DEF Apply, Stamped
<1>2. CASE cmd.kind \in {"create_topic", "increment_counter", "register_node"}
  BY <1>2, Zenon DEF Apply
<1> QED
  BY <1>1, <1>2, Zenon DEF Commands

\* What a list of pairs made from a map holds for a key.
LEMMA ValueOfList ==
  ASSUME NEW K, NEW m \in [K -> Nat], NEW k \in K
  PROVE  ValueIn({<<x, m[x]>> : x \in {y \in K : m[y] # 0}}, k) = m[k]
<1> DEFINE s == {<<x, m[x]>> : x \in {y \in K : m[y] # 0}}
<1>1. \A p \in s : p[1] \in K /\ p[2] = m[p[1]] /\ m[p[1]] # 0
  OBVIOUS
<1>2. CASE m[k] = 0
  <2>1. ~ \E p \in s : p[1] = k
    BY <1>1, <1>2, Zenon
  <2> QED
    BY <1>2, <2>1, Zenon DEF ValueIn
<1>3. CASE m[k] # 0
  <2>1. <<k, m[k]>> \in s
    BY <1>3, Zenon
  <2>2. \E p \in s : p[1] = k
    BY <2>1, ZenonT(60)
  <2> HIDE DEF s
  <2>3. (CHOOSE p \in s : p[1] = k) \in s /\ (CHOOSE p \in s : p[1] = k)[1] = k
    BY <2>2, Zenon
  <2>4. ValueIn(s, k) = (CHOOSE p \in s : p[1] = k)[2]
    BY <2>2, Zenon DEF ValueIn
  <2>5. ValueIn(s, k) = m[k]
    BY <1>1, <2>3, <2>4, Zenon
  <2> QED
    BY <2>5, Zenon DEF s
<1> QED
  BY <1>2, <1>3, Zenon

\* Restoring a snapshot gives the state it was taken of.
LEMMA RestoreSnapshot == ASSUME NEW f \in States PROVE Restore(Snapshot(f)) = f
<1>1. f.topics \in [Topics -> Nat] /\ f.brokers \in [Brokers -> Nat]
  BY Zenon DEF States
<1>2. RestoreTopics(SnapshotTopics(f.topics)) = f.topics
  <2>1. \A t \in Topics : ValueIn(SnapshotTopics(f.topics), t) = f.topics[t]
    BY <1>1, ValueOfList, Zenon DEF SnapshotTopics
  <2> QED
    BY <1>1, <2>1, Zenon DEF RestoreTopics
<1>3. RestoreBrokers(SnapshotBrokers(f.brokers)) = f.brokers
  <2>1. \A b \in Brokers : ValueIn(SnapshotBrokers(f.brokers), b) = f.brokers[b]
    BY <1>1, ValueOfList, Zenon DEF SnapshotBrokers
  <2> QED
    BY <1>1, <2>1, Zenon DEF RestoreBrokers
<1>4. /\ Snapshot(f).topics = SnapshotTopics(f.topics)
      /\ Snapshot(f).brokers = SnapshotBrokers(f.brokers)
  BY Zenon DEF Snapshot, States
<1>5. Restore(Snapshot(f)) = [Snapshot(f) EXCEPT !.topics = f.topics, !.brokers = f.brokers]
  BY <1>2, <1>3, <1>4, ZenonT(60) DEF Restore
<1> QED
  BY <1>5, ZenonT(60) DEF Snapshot, States

(***************************************************************************)
(* The inductive invariant                                                 *)
(***************************************************************************)

Ops == {"none", "connect", "create", "heartbeat", "register", "join"}
Stages == {"arrived", "apply", "commit", "lost", "dead"}

\* What a client asks for.
Calls == Commands \cup [kind : {"join"}, node : Joiners, at : Nat]

\* Every call is one of the clients' calls; only brokers heartbeat.
ClientInv ==
  /\ sent \in [Threads -> Nat]
  /\ call \in [Threads -> [op : Ops, cmd : Calls, tries : Int]]
  /\ \A c \in Threads : call[c].op = "heartbeat" => c \notin Joiners

\* A command that is about to be handed to Raft carries its time.
WellFormed(h) ==
  /\ h \in [id : Ids, node : {h.node}, cmd : Calls, stage : Stages]
  /\ h.stage = "apply" => h.cmd \in Commands /\ Stamped(h.cmd)

HandlerInv == \A h \in handlers : WellFormed(h)

\* So do all commands in the logs; the history is what Apply makes of the
\* committed ones, and replicas and snapshots hold a state of that history.
RaftAgree ==
  /\ leader \in Nodes \cup {NoNode}
  /\ tail \in [Nodes -> Seq(Entries)]
  /\ log \in Seq(Entries) /\ machine \in Seq(Results) /\ Len(machine) = Len(log)
  /\ \A i \in 1 .. Len(log) : machine[i] = Apply(StateAt(i - 1), log[i].cmd, 0)
  /\ fsm \in [Nodes -> States] /\ applied \in [Nodes -> Nat] /\ snap = [n \in Nodes |-> snap[n]]
  /\ \A n \in Nodes : applied[n] <= Len(log) /\ fsm[n] = StateAt(applied[n])
  /\ \A n \in Nodes : snap[n].index \in 0 .. Len(log) /\ snap[n].data = Snapshot(StateAt(snap[n].index))

AgreeInv ==
  /\ time \in Nat \ {0} /\ elections \in Int
  /\ ClientInv /\ HandlerInv /\ RaftAgree

(***************************************************************************)
(* Steps of the replicas                                                   *)
(***************************************************************************)

\* Every state of the history is one.
LEMMA HistoryType == ASSUME RaftAgree, NEW i \in 0 .. Len(log) PROVE StateAt(i) \in States
<1>1. CASE i = 0
  BY <1>1, Zenon DEF StateAt, Empty, States
<1>2. CASE i # 0
  <2>1. i \in 1 .. Len(machine)
    BY <1>2 DEF RaftAgree
  <2>2. machine[i] \in Results
    BY <2>1, ElementOfSeq, Zenon DEF RaftAgree
  <2> QED
    BY <1>2, <2>2, Zenon DEF StateAt, Results
<1> QED
  BY <1>1, <1>2, Zenon

\* A step that commits nothing only has to keep the entries, the replicas and
\* the snapshots in order.
LEMMA SameLog ==
  ASSUME RaftAgree, UNCHANGED <<log, machine>>,
         leader' \in Nodes \cup {NoNode}, tail' \in [Nodes -> Seq(Entries)],
         fsm' \in [Nodes -> States], applied' \in [Nodes -> Nat], snap' = [n \in Nodes |-> snap'[n]],
         \A n \in Nodes : applied'[n] <= Len(log) /\ fsm'[n] = StateAt(applied'[n]),
         \A n \in Nodes : snap'[n].index \in 0 .. Len(log) /\ snap'[n].data = Snapshot(StateAt(snap'[n].index))
  PROVE  RaftAgree'
<1>1. \A i \in Int : (IF i = 0 THEN Empty ELSE machine[i].state)' = StateAt(i)
  BY Zenon DEF StateAt
<1> QED
  BY <1>1, Zenon DEF RaftAgree, StateAt

\* Accepting commands and changing leaders touch neither replicas nor snapshots.
LEMMA LogsOnly ==
  ASSUME RaftAgree, UNCHANGED <<log, machine, fsm, applied, snap>>,
         leader' \in Nodes \cup {NoNode}, tail' \in [Nodes -> Seq(Entries)]
  PROVE  RaftAgree'
BY SameLog, Zenon DEF RaftAgree

\* Raft.Apply on a leader: an entry that is stamped joins its log.
LEMMA AcceptAgrees ==
  ASSUME RaftAgree, NEW n \in Nodes, NEW e \in Entries,
         tail' = [tail EXCEPT ![n] = Append(@, e)],
         UNCHANGED <<log, machine, fsm, applied, snap, leader>>
  PROVE  RaftAgree'
<1>1. Append(tail[n], e) \in Seq(Entries)
  BY AppendProperties, Zenon DEF RaftAgree
<1>2. tail' \in [Nodes -> Seq(Entries)]
  BY <1>1, Zenon DEF RaftAgree
<1> QED
  BY <1>2, LogsOnly, Zenon DEF RaftAgree

\* A new leader has a part of some node's log beyond the commits.
LEMMA ElectAgrees == ASSUME RaftAgree, NEW n \in Nodes, Elect(n) PROVE RaftAgree'
<1>0. PICK m \in Nodes : \E k \in 0 .. Len(tail[m]) : tail' = [tail EXCEPT ![n] = SubSeq(tail[m], 1, k)]
  BY ZenonT(60) DEF Elect
<1>1. PICK k \in 0 .. Len(tail[m]) : tail' = [tail EXCEPT ![n] = SubSeq(tail[m], 1, k)]
  BY <1>0, ZenonT(60)
<1>2. SubSeq(tail[m], 1, k) \in Seq(Entries)
  <2>1. tail[m] \in Seq(Entries)
    BY Zenon DEF RaftAgree
  <2>2. \A i \in 1 .. k : tail[m][i] \in Entries
    BY <2>1, LenProperties
  <2> QED
    BY <2>1, <2>2, SubSeqProperties
<1>3. tail' \in [Nodes -> Seq(Entries)]
  BY <1>1, <1>2, Zenon DEF RaftAgree
<1> QED
  BY <1>3, LogsOnly, ZenonT(60) DEF Elect, RaftAgree

\* A leader that steps down leaves logs and replicas alone.
LEMMA StepDownAgrees == ASSUME RaftAgree, NEW n \in Nodes, StepDown(n) PROVE RaftAgree'
BY LogsOnly, Zenon DEF StepDown, RaftAgree

\* The leader's oldest entry, and what Apply makes of it.
NextEntry == Head(tail[leader])
NextEffect == Apply(StateAt(Len(log)), NextEntry.cmd, 0)

\* They extend the log and its history.
LEMMA CommitExtends ==
  ASSUME RaftAgree, Commit, leader # NoNode
  PROVE  /\ leader \in Nodes /\ tail[leader] \in Seq(Entries) /\ tail[leader] # <<>>
         /\ NextEntry \in Entries /\ NextEffect \in Results
         /\ Len(log) \in Nat /\ StateAt(Len(log)) \in States
         /\ log' \in Seq(Entries) /\ Len(log') = Len(log) + 1 /\ log'[Len(log) + 1] = NextEntry
         /\ \A i \in 1 .. Len(log) : log'[i] = log[i]
         /\ machine' \in Seq(Results) /\ Len(machine') = Len(log) + 1 /\ machine'[Len(log) + 1] = NextEffect
         /\ \A i \in 1 .. Len(log) : machine'[i] = machine[i]
<1>1. leader \in Nodes /\ tail[leader] \in Seq(Entries) /\ tail[leader] # <<>>
  BY Zenon DEF RaftAgree, Commit
<1>2. NextEntry \in Entries
  BY <1>1, HeadTailProperties, Zenon DEF NextEntry
<1>3. log' = Append(log, NextEntry) /\ machine' = Append(machine, NextEffect)
  BY Zenon DEF Commit, NextEntry, NextEffect
<1>4. Len(log) \in Nat /\ StateAt(Len(log)) \in States
  <2>0. Len(log) \in Nat /\ Len(log) \in 0 .. Len(log)
    BY DEF RaftAgree
  <2> QED
    BY <2>0, HistoryType, Zenon
<1>5. NextEffect \in Results
  <2>1. NextEntry.cmd \in Commands
    BY <1>2, Zenon DEF Entries
  <2> QED
    BY <1>4, <2>1, ApplyType, Zenon DEF NextEffect
<1>6. /\ log' \in Seq(Entries) /\ Len(log') = Len(log) + 1 /\ log'[Len(log) + 1] = NextEntry
      /\ \A i \in 1 .. Len(log) : log'[i] = log[i]
  BY <1>2, <1>3, AppendProperties DEF RaftAgree
<1>7. /\ machine' \in Seq(Results) /\ Len(machine') = Len(log) + 1 /\ machine'[Len(log) + 1] = NextEffect
      /\ \A i \in 1 .. Len(log) : machine'[i] = machine[i]
  BY <1>3, <1>5, AppendProperties DEF RaftAgree
<1> QED
  BY <1>1, <1>2, <1>4, <1>5, <1>6, <1>7, Zenon

\* A commit extends the history by what Apply makes of the entry.
LEMMA CommitAgrees == ASSUME RaftAgree, Commit, leader # NoNode PROVE RaftAgree'
<1> DEFINE e == NextEntry
           r == NextEffect
<1>3. /\ tail' = [n \in Nodes |-> IF tail[n] # <<>> /\ Head(tail[n]) = e THEN Tail(tail[n]) ELSE <<>>]
      /\ UNCHANGED <<leader, fsm, applied, snap>>
  BY Zenon DEF Commit, NextEntry
<1> HIDE DEF e, r
<1>5. tail' \in [Nodes -> Seq(Entries)]
  <2>1. ASSUME NEW n \in Nodes, tail[n] # <<>> PROVE Tail(tail[n]) \in Seq(Entries)
    BY <2>1, HeadTailProperties, Zenon DEF RaftAgree
  <2>2. <<>> \in Seq(Entries)
    BY EmptySeq, Zenon
  <2> QED
    BY <1>3, <2>1, <2>2, Zenon
<1>6. /\ log' \in Seq(Entries) /\ Len(log') = Len(log) + 1 /\ log'[Len(log) + 1] = e
      /\ \A i \in 1 .. Len(log) : log'[i] = log[i]
  BY CommitExtends, Zenon DEF e
<1>7. /\ machine' \in Seq(Results) /\ Len(machine') = Len(log) + 1 /\ machine'[Len(log) + 1] = r
      /\ \A i \in 1 .. Len(log) : machine'[i] = machine[i]
  BY CommitExtends, Zenon DEF r
<1>8. Len(log) \in Nat
  BY DEF RaftAgree
<1>9. \A i \in 0 .. Len(log) : (IF i = 0 THEN Empty ELSE machine'[i].state) = StateAt(i)
  BY <1>7, <1>8 DEF StateAt
<1>10. ASSUME NEW i \in 1 .. Len(log')
       PROVE  machine'[i] = Apply(IF i - 1 = 0 THEN Empty ELSE machine'[i - 1].state, log'[i].cmd, 0)
  <2>1. i - 1 \in 0 .. Len(log)
    BY <1>6, <1>8
  <2>2. (IF i - 1 = 0 THEN Empty ELSE machine'[i - 1].state) = StateAt(i - 1)
    BY <1>9, <2>1, Zenon
  <2>3. CASE i = Len(log) + 1
    BY <1>6, <1>7, <1>8, <2>2, <2>3 DEF r, e, NextEffect
  <2>4. CASE i \in 1 .. Len(log)
    BY <1>6, <1>7, <2>2, <2>4, Zenon DEF RaftAgree
  <2> QED
    BY <1>6, <1>8, <2>3, <2>4
<1>11. ASSUME NEW n \in Nodes
       PROVE  /\ applied[n] <= Len(log') /\ fsm[n] = (IF applied[n] = 0 THEN Empty ELSE machine'[applied[n]].state)
              /\ snap[n].index \in 0 .. Len(log')
              /\ snap[n].data = Snapshot(IF snap[n].index = 0 THEN Empty ELSE machine'[snap[n].index].state)
  <2>1. applied[n] \in 0 .. Len(log) /\ snap[n].index \in 0 .. Len(log)
    BY <1>8 DEF RaftAgree
  <2>2. fsm[n] = StateAt(applied[n]) /\ snap[n].data = Snapshot(StateAt(snap[n].index))
    BY Zenon DEF RaftAgree
  <2> QED
    BY <1>6, <1>8, <1>9, <2>1, <2>2
<1> QED
  BY <1>3, <1>5, <1>6, <1>7, <1>10, <1>11, ZenonT(60) DEF RaftAgree, StateAt

\* A replica applies the next command with its own clock.
LEMMA ApplyNextAgrees == ASSUME RaftAgree, NEW n \in Nodes, NEW now, ApplyNext(n, now) PROVE RaftAgree'
<1> DEFINE a == applied[n]
<1>1. a \in Nat /\ Len(log) \in Nat /\ a + 1 \in 1 .. Len(log)
  BY DEF RaftAgree, ApplyNext
<1>2. log[a + 1].cmd \in Commands /\ Stamped(log[a + 1].cmd)
  BY <1>1, ElementOfSeq DEF RaftAgree, Entries
<1>3. machine[a + 1] = Apply(StateAt(a), log[a + 1].cmd, 0)
  BY <1>1 DEF RaftAgree
<1>4. fsm[n] = StateAt(a)
  BY Zenon DEF RaftAgree
<1>5. NextResult(n, now) = machine[a + 1]
  BY <1>2, <1>3, <1>4, ApplyClock, Zenon DEF NextResult
<1>6. NextResult(n, now).state = StateAt(a + 1) /\ StateAt(a + 1) \in States
  BY <1>1, <1>5, HistoryType DEF StateAt
<1>7. /\ fsm' = [fsm EXCEPT ![n] = StateAt(a + 1)] /\ applied' = [applied EXCEPT ![n] = a + 1]
      /\ UNCHANGED <<log, tail, leader, snap, machine>>
  BY <1>6, Zenon DEF ApplyNext
<1>8. fsm' \in [Nodes -> States] /\ applied' \in [Nodes -> Nat]
  BY <1>1, <1>6, <1>7 DEF RaftAgree
<1>9. \A m \in Nodes : applied'[m] <= Len(log) /\ fsm'[m] = StateAt(applied'[m])
  BY <1>1, <1>7 DEF RaftAgree
<1> QED
  BY <1>7, <1>8, <1>9, SameLog, Zenon DEF RaftAgree

\* A snapshot is that of the state after the commands applied so far.
LEMMA TakeSnapshotAgrees == ASSUME RaftAgree, NEW n \in Nodes, TakeSnapshot(n) PROVE RaftAgree'
<1>1. /\ snap' = [snap EXCEPT ![n] = [index |-> applied[n], data |-> Snapshot(StateAt(applied[n]))]]
      /\ UNCHANGED <<log, machine, tail, leader, fsm, applied>>
  BY ZenonT(60) DEF TakeSnapshot, RaftAgree
<1>2. applied[n] \in 0 .. Len(log)
  BY DEF RaftAgree
<1>3. snap' = [m \in Nodes |-> snap'[m]]
  BY <1>1, ZenonT(60) DEF RaftAgree
<1>4. \A m \in Nodes : snap'[m].index \in 0 .. Len(log) /\ snap'[m].data = Snapshot(StateAt(snap'[m].index))
  BY <1>1, <1>2, Zenon DEF RaftAgree
<1> QED
  BY <1>1, <1>3, <1>4, SameLog, Zenon DEF RaftAgree

\* A replica takes over a snapshot, its own (a restart) or the leader's.
LEMMA RestoreAgrees ==
  ASSUME RaftAgree, NEW n \in Nodes, NEW m \in Nodes,
         fsm' = [fsm EXCEPT ![n] = Restore(snap[m].data)],
         applied' = [applied EXCEPT ![n] = snap[m].index],
         snap' = [snap EXCEPT ![n] = snap[m]],
         UNCHANGED <<log, machine, tail>>, leader' \in Nodes \cup {NoNode}
  PROVE  RaftAgree'
<1> DEFINE i == snap[m].index
<1>1. i \in 0 .. Len(log) /\ snap[m].data = Snapshot(StateAt(i))
  BY Zenon DEF RaftAgree
<1>2. StateAt(i) \in States
  BY <1>1, HistoryType, Zenon
<1>3. Restore(snap[m].data) = StateAt(i)
  BY <1>1, <1>2, RestoreSnapshot, Zenon
<1>4. i \in Nat /\ i <= Len(log)
  BY <1>1 DEF RaftAgree
<1> HIDE DEF i
<1>5. fsm' = [fsm EXCEPT ![n] = StateAt(i)] /\ applied' = [applied EXCEPT ![n] = i]
  BY <1>3, Zenon DEF i
<1>6. fsm' \in [Nodes -> States] /\ applied' \in [Nodes -> Nat]
  BY <1>2, <1>4, <1>5 DEF RaftAgree
<1>7. \A k \in Nodes : applied'[k] <= Len(log) /\ fsm'[k] = StateAt(applied'[k])
  BY <1>4, <1>5 DEF RaftAgree
<1>8. /\ snap' = [k \in Nodes |-> snap'[k]]
      /\ \A k \in Nodes : snap'[k].index \in 0 .. Len(log) /\ snap'[k].data = Snapshot(StateAt(snap'[k].index))
  BY Zenon DEF RaftAgree
<1> QED
  BY <1>6, <1>7, <1>8, SameLog, ZenonT(60) DEF RaftAgree

\* A node that is sent a snapshot holds the state it was taken of.
LEMMA InstallSnapshotAgrees == ASSUME RaftAgree, NEW n \in Nodes, InstallSnapshot(n) PROVE RaftAgree'
BY RestoreAgrees, ZenonT(60) DEF InstallSnapshot, RaftAgree

\* A node restarts with the state of its own last snapshot.
LEMMA RestartNodeAgrees == ASSUME RaftAgree, NEW n \in Nodes, RestartNode(n) PROVE RaftAgree'
<1>1. snap' = [snap EXCEPT ![n] = snap[n]]
  BY Zenon DEF RestartNode, RaftAgree
<1> QED
  BY <1>1, RestoreAgrees, ZenonT(60) DEF RestartNode, RaftAgree

\* Steps without Raft.
LEMMA RaftUnchanged == ASSUME RaftAgree, UNCHANGED raft PROVE RaftAgree'
BY LogsOnly, Zenon DEF raft, RaftAgree

(***************************************************************************)
(* Steps of the clients                                                    *)
(***************************************************************************)

\* A thread of a broker belongs to one.
LEMMA OwnerIsBroker == ASSUME NEW c \in Threads, c \notin Joiners PROVE Owner(c) \in Brokers
BY Zenon DEF Owner, Threads

\* A step that changes one thread's call, to one of the calls there are.
LEMMA CallChanges ==
  ASSUME ClientInv, NEW c \in Threads, NEW r \in [op : Ops, cmd : Calls, tries : Int],
         r.op = "heartbeat" => c \notin Joiners,
         call' = [call EXCEPT ![c] = r], UNCHANGED sent
  PROVE  ClientInv'
BY Zenon DEF ClientInv

\* No call is running, and so no heartbeat.
LEMMA IdleType == Idle \in [op : Ops, cmd : Calls, tries : Int] /\ Idle.op # "heartbeat"
<1>1. IncrementCounterCmd \in [kind : {"increment_counter"}, at : Nat]
  BY Zenon DEF IncrementCounterCmd
<1>2. IncrementCounterCmd \in Calls
  BY <1>1, Zenon DEF Calls, Commands
<1> QED
  BY <1>2 DEF Idle, Ops

\* A call ends.
LEMMA EndCallKeeps == ASSUME ClientInv, NEW c \in Threads, EndCall(c), UNCHANGED sent PROVE ClientInv'
BY IdleType, CallChanges, ZenonT(60) DEF EndCall

\* call_with_failover tries again or gives up.
LEMMA RetryKeeps == ASSUME ClientInv, NEW c \in Threads, Retry(c) PROVE ClientInv'
<1>1. CASE UNCHANGED call
  BY <1>1, Zenon DEF Retry, ClientInv
<1>2. CASE EndCall(c)
  BY <1>2, EndCallKeeps, Zenon DEF Retry
<1> QED
  BY <1>1, <1>2, Zenon DEF Retry

\* A call gets its result; a heartbeat that is unknown registers again.
LEMMA FinishKeeps ==
  ASSUME ClientInv, NEW c \in Threads, NEW id, NEW cmd, NEW ok, Finish(c, id, cmd, ok)
  PROVE  ClientInv'
<1>1. UNCHANGED sent
  BY Zenon DEF Finish
<1>2. CASE EndCall(c)
  BY <1>1, <1>2, EndCallKeeps, Zenon
<1>3. CASE call[c].op = "heartbeat" /\ Acknowledged(c, ok)
  <2> DEFINE r == [op |-> "register", cmd |-> RegisterBrokerCmd(Owner(c)), tries |-> 0]
  <2>1. CASE EndCall(c)
    BY <1>1, <2>1, EndCallKeeps, Zenon
  <2>2. CASE call' = [call EXCEPT ![c] = r]
    <3>1. Owner(c) \in Brokers
      BY <1>3, OwnerIsBroker, Zenon DEF ClientInv
    <3>2. r \in [op : Ops, cmd : Calls, tries : Int]
      <4>1. RegisterBrokerCmd(Owner(c)) \in [kind : {"register_broker", "heartbeat"}, broker : Brokers, at : Nat]
        BY <3>1, Zenon DEF RegisterBrokerCmd
      <4>2. RegisterBrokerCmd(Owner(c)) \in Calls
        BY <4>1, Zenon DEF Calls, Commands
      <4> QED
        BY <4>2 DEF Ops
    <3> QED
      BY <1>1, <2>2, <3>2, CallChanges, ZenonT(60)
  <2> QED
    BY <1>3, <2>1, <2>2, Zenon DEF Acknowledged
<1> QED
  BY <1>2, <1>3, Zenon DEF Finish, Created, Registered

\* A reply of any kind reaches its caller.
LEMMA ReceiveKeeps ==
  ASSUME ClientInv, NEW c \in Threads, NEW id, NEW cmd, NEW code, NEW hint, NEW ok,
         Receive(c, id, cmd, code, hint, ok)
  PROVE  ClientInv'
BY FinishKeeps, RetryKeeps, Zenon DEF Receive, Redirected, Unavailable

\* Steps without the clients.
LEMMA ClientUnchanged == ASSUME ClientInv, UNCHANGED client PROVE ClientInv'
BY Zenon DEF ClientInv, client

\* A thread begins a call.
LEMMA BeginKeeps ==
  ASSUME ClientInv, NEW c \in Threads, NEW op \in Ops, NEW cmd \in Calls,
         op = "heartbeat" => c \notin Joiners, Begin(c, op, cmd)
  PROVE  ClientInv'
<1> DEFINE r == [op |-> op, cmd |-> cmd, tries |-> 0]
<1>1. r \in [op : Ops, cmd : Calls, tries : Int] /\ r.op = op
  OBVIOUS
<1>2. call' = [call EXCEPT ![c] = r] /\ UNCHANGED sent
  BY Zenon DEF Begin
<1> HIDE DEF r
<1> QED
  BY <1>1, <1>2, CallChanges, ZenonT(60)

\* A broker or a joining node starts again without a call.
LEMMA RestartProcessKeeps == ASSUME ClientInv, NEW x, RestartProcess(x) PROVE ClientInv'
BY IdleType, Zenon DEF ClientInv, RestartProcess

(***************************************************************************)
(* Steps of the servers                                                    *)
(***************************************************************************)

\* Steps without the handlers.
LEMMA HandlersUnchanged == ASSUME HandlerInv, UNCHANGED handlers PROVE HandlerInv'
BY Zenon DEF HandlerInv

\* A handler moves on.
LEMMA HandlerMoves ==
  ASSUME HandlerInv, NEW h \in handlers, NEW g, WellFormed(g), handlers' = (handlers \ {h}) \cup {g}
  PROVE  HandlerInv'
BY Zenon DEF HandlerInv

\* A call arrives at a server.
LEMMA HandlerAdded ==
  ASSUME HandlerInv, NEW g, WellFormed(g), handlers' = handlers \cup {g}
  PROVE  HandlerInv'
BY Zenon DEF HandlerInv

\* Handlers that lost their leader or their process are not about to hand
\* anything to Raft.
LEMMA HandlerStopped ==
  ASSUME NEW h, WellFormed(h), NEW stage \in Stages, stage # "apply"
  PROVE  WellFormed([h EXCEPT !.stage = stage])
BY Zenon DEF WellFormed

\* A handler returns, to a caller that waits for it or has given up.
LEMMA AnswerKeeps ==
  ASSUME ClientInv, HandlerInv, NEW h \in handlers, NEW code, NEW hint, NEW ok, Answer(h, code, hint, ok)
  PROVE  ClientInv' /\ HandlerInv'
<1>1. HandlerInv'
  BY Zenon DEF Answer, HandlerInv
<1>2. CASE Awaits(h)
  <2>1. h.id[1] \in Threads /\ Receive(h.id[1], h.id, h.cmd, code, hint, ok)
    BY <1>2, Zenon DEF Answer, Awaits
  <2>2. ClientInv'
    BY <2>1, ReceiveKeeps, Zenon
  <2> QED
    BY <1>1, <2>2, Zenon
<1>3. CASE ~Awaits(h)
  BY <1>1, <1>3, ClientUnchanged, Zenon DEF Answer
<1> QED
  BY <1>2, <1>3, Zenon

\* A handler returns the redirect to the leader.
LEMMA NotLeaderKeeps ==
  ASSUME ClientInv, HandlerInv, NEW h \in handlers, notLeader(h)
  PROVE  ClientInv' /\ HandlerInv'
<1>1. PICK addr \in leaderGRPCAddr(h.node) :
        Answer(h, IF addr # NoNode THEN "precondition" ELSE "unavailable", addr, FALSE)
  BY ZenonT(60) DEF notLeader
<1> QED
  BY <1>1, AnswerKeeps, ZenonT(60)

\* The time of a node that is not before its first tick.
LEMMA ClockRuns == ASSUME time \in Nat \ {0}, NEW n \in Nodes PROVE Clock(n) \in Nat \ {0}
BY SkewAssumption DEF Clock

\* propose stamps the command.
LEMMA ProposeKeeps ==
  ASSUME AgreeInv, NEW h \in handlers, h.node \in Nodes, Propose(h)
  PROVE  HandlerInv'
<1> DEFINE at == Clock(h.node)
           cmd == [h.cmd EXCEPT !.at = at]
           g == [h EXCEPT !.stage = "apply", !.cmd = cmd]
<1>1. at \in Nat \ {0}
  BY ClockRuns, Zenon DEF AgreeInv
<1>2. WellFormed(h) /\ h.cmd.kind # "join"
  BY Zenon DEF AgreeInv, HandlerInv, Propose
<1>3. h.cmd \in Commands
  BY <1>2, Zenon DEF WellFormed, Calls
<1> HIDE DEF at
<1>4. cmd \in Commands /\ cmd.at = at
  BY <1>1, <1>3, Zenon DEF Commands
<1>5. Stamped(cmd)
  BY <1>1, <1>4, Zenon DEF Stamped
<1> HIDE DEF cmd
<1>6. WellFormed(g)
  BY <1>2, <1>4, <1>5, ZenonT(60) DEF WellFormed, Calls, Stages
<1>7. handlers' = (handlers \ {h}) \cup {g}
  <2>1. g = [h EXCEPT !.stage = "apply", !.cmd.at = Clock(h.node)]
    BY <1>2, Zenon DEF WellFormed, cmd, at
  <2> QED
    BY <2>1, Zenon DEF Propose
<1> HIDE DEF g
<1> QED
  BY <1>6, <1>7, HandlerMoves, Zenon DEF AgreeInv

\* Join: AddVoter has succeeded, and the registration is next.
LEMMA AddVoterKeeps ==
  ASSUME AgreeInv, NEW h \in handlers, AddVoter(h)
  PROVE  AgreeInv'
<1> DEFINE g == [h EXCEPT !.cmd = RegisterNodeCmd(h.cmd.node)]
<1>1. WellFormed(h) /\ h.cmd.kind = "join" /\ h.stage = "arrived"
  BY Zenon DEF AgreeInv, HandlerInv, AddVoter
<1>2. h.cmd.node \in Nodes
  BY <1>1, ThreadsAssumption, Zenon DEF WellFormed, Calls, Commands
<1>3. RegisterNodeCmd(h.cmd.node) \in [kind : {"register_node"}, node : Nodes, at : Nat]
  BY <1>2, Zenon DEF RegisterNodeCmd
<1>4. RegisterNodeCmd(h.cmd.node) \in Calls
  BY <1>3, Zenon DEF Calls, Commands
<1>5. WellFormed(g)
  BY <1>1, <1>4, Zenon DEF WellFormed
<1>6. handlers' = (handlers \ {h}) \cup {g}
  BY Zenon DEF AddVoter
<1> HIDE DEF g
<1>7. HandlerInv'
  BY <1>5, <1>6, HandlerMoves, Zenon DEF AgreeInv
<1>8. ClientInv'
  BY ClientUnchanged, Zenon DEF AgreeInv, AddVoter
<1>9. RaftAgree'
  BY LogsOnly, Zenon DEF AgreeInv, RaftAgree, AddVoter
<1> QED
  BY <1>7, <1>8, <1>9, Zenon DEF AgreeInv, AddVoter

\* RaftApply hands over a command that carries its time.
LEMMA RaftApplyKeeps ==
  ASSUME AgreeInv, NEW h \in handlers, h.node \in Nodes, RaftApply(h)
  PROVE  AgreeInv'
<1>1. WellFormed(h) /\ h.stage = "apply"
  BY Zenon DEF AgreeInv, HandlerInv, RaftApply
<1> DEFINE e == [id |-> h.id, cmd |-> h.cmd]
<1>2. e \in Entries
  BY <1>1, Zenon DEF WellFormed, Entries
<1>3. /\ tail' = [tail EXCEPT ![h.node] = Append(@, e)]
      /\ UNCHANGED <<log, machine, fsm, applied, snap, leader, elections, client, time>>
      /\ handlers' = (handlers \ {h}) \cup {[h EXCEPT !.stage = "commit"]}
  BY Zenon DEF RaftApply, Accept, Move
<1> HIDE DEF e
<1>4. RaftAgree'
  BY <1>2, <1>3, AcceptAgrees, ZenonT(60) DEF AgreeInv
<1>5. WellFormed([h EXCEPT !.stage = "commit"])
  BY <1>1, HandlerStopped, ZenonT(60) DEF Stages
<1>6. HandlerInv'
  BY <1>3, <1>5, HandlerMoves, Zenon DEF AgreeInv
<1>7. ClientInv'
  BY <1>3, ClientUnchanged, Zenon DEF AgreeInv
<1> QED
  BY <1>3, <1>4, <1>6, <1>7, Zenon DEF AgreeInv

\* The other ways in which a handler on node n goes on or ends.
LEMMA HandlerEnds ==
  ASSUME AgreeInv, NEW h \in handlers,
         TurnAway(h) \/ AddVoterLost(h) \/ ProposeLost(h) \/ ProposeFails(h)
  PROVE  AgreeInv'
<1>1. ClientInv /\ HandlerInv /\ RaftAgree
  BY Zenon DEF AgreeInv
<1>2. ClientInv' /\ HandlerInv'
  <2>1. CASE notLeader(h)
    BY <1>1, <2>1, NotLeaderKeeps, Zenon
  <2>2. CASE Answer(h, "unavailable", NoNode, FALSE)
    BY <1>1, <2>2, AnswerKeeps, ZenonT(60)
  <2> QED
    BY <2>1, <2>2, ZenonT(60) DEF TurnAway, AddVoterLost, ProposeLost, ProposeFails
<1>3. UNCHANGED <<log, machine, fsm, applied, snap, leader, tail, elections, time>>
  BY ZenonT(60) DEF TurnAway, AddVoterLost, ProposeLost, ProposeFails, raft
<1>4. RaftAgree'
  BY <1>1, <1>3, LogsOnly, Zenon DEF RaftAgree
<1> QED
  BY <1>2, <1>3, <1>4, Zenon DEF AgreeInv

\* A replica applies the next command and its handler answers.
LEMMA ApplyCommandKeeps == ASSUME AgreeInv, NEW n \in Nodes, ApplyCommand(n) PROVE AgreeInv'
<1>1. ClientInv /\ HandlerInv /\ RaftAgree
  BY Zenon DEF AgreeInv
<1>2. RaftAgree' /\ UNCHANGED <<elections, time>>
  BY <1>1, ApplyNextAgrees, ZenonT(60) DEF ApplyCommand, ApplyNext
<1>3. ClientInv' /\ HandlerInv'
  <2>1. CASE UNCHANGED <<handlers, client>>
    BY <1>1, <2>1, ClientUnchanged, HandlersUnchanged, Zenon
  <2>2. CASE \E h \in handlers : Answer(h, "ok", NoNode, NextResult(n, Clock(n)).ok)
    BY <1>1, <2>2, AnswerKeeps, Zenon
  <2> QED
    BY <2>1, <2>2, Zenon DEF ApplyCommand
<1> QED
  BY <1>2, <1>3, Zenon DEF AgreeInv

\* The handlers a step stops, and the ones it leaves alone.
LEMMA HandlersStopped ==
  ASSUME HandlerInv, NEW stage \in Stages, stage # "apply",
         \A g \in handlers' : g \in handlers \/ \E h \in handlers : g = [h EXCEPT !.stage = stage]
  PROVE  HandlerInv'
BY HandlerStopped DEF HandlerInv

\* A leader steps down under the calls it has proposed.
LEMMA LoseLeadershipKeeps == ASSUME AgreeInv, NEW n \in Nodes, LoseLeadership(n) PROVE AgreeInv'
<1>1. HandlerInv'
  BY HandlersStopped DEF AgreeInv, LoseLeadership, Stages
<1>2. ClientInv'
  BY ClientUnchanged, Zenon DEF AgreeInv, LoseLeadership
<1>3. RaftAgree'
  BY StepDownAgrees, Zenon DEF AgreeInv, LoseLeadership
<1> QED
  BY <1>1, <1>2, <1>3, Zenon DEF AgreeInv, LoseLeadership, StepDown

\* A server restarts, and its handlers are gone.
LEMMA RestartServerKeeps == ASSUME AgreeInv, NEW n \in Nodes, RestartServer(n) PROVE AgreeInv'
<1>1. HandlerInv'
  BY HandlersStopped, Zenon DEF AgreeInv, RestartServer, Stages
<1>2. ClientInv'
  BY ClientUnchanged, Zenon DEF AgreeInv, RestartServer
<1>3. RaftAgree'
  BY RestartNodeAgrees, Zenon DEF AgreeInv, RestartServer
<1> QED
  BY <1>1, <1>2, <1>3, Zenon DEF AgreeInv, RestartServer, RestartNode

\* A node restarts while it joins.
LEMMA RestartJoiningKeeps == ASSUME AgreeInv, NEW j \in Joiners, RestartJoining(j) PROVE AgreeInv'
<1>1. RaftAgree'
  BY RestartNodeAgrees, ThreadsAssumption, Zenon DEF AgreeInv, RestartJoining
<1>2. ClientInv'
  BY RestartProcessKeeps, Zenon DEF AgreeInv, RestartJoining, RestartJoiner
<1>3. HandlerInv'
  BY HandlersUnchanged, Zenon DEF AgreeInv, RestartJoining
<1> QED
  BY <1>1, <1>2, <1>3, Zenon DEF AgreeInv, RestartJoining, RestartNode

\* EnsureSelfRegistered proposes a command that has no time.
LEMMA EnsureSelfRegisteredKeeps ==
  ASSUME AgreeInv, NEW n \in Nodes, EnsureSelfRegistered(n) PROVE AgreeInv'
<1> DEFINE cmd == RegisterNodeCmd(n)
           e == [id |-> Self(n), cmd |-> cmd]
           g == [id |-> Self(n), node |-> n, cmd |-> cmd, stage |-> "commit"]
<1>1. cmd \in [kind : {"register_node"}, node : Nodes, at : Nat] /\ Stamped(cmd)
  BY Zenon DEF RegisterNodeCmd, Stamped
<1>2. cmd \in Commands /\ cmd \in Calls
  BY <1>1, Zenon DEF Calls, Commands
<1>3. Self(n) \in Ids
  BY Zenon DEF Self, Ids, SelfIds, AgreeInv
<1>4. /\ tail' = [tail EXCEPT ![n] = Append(@, e)] /\ handlers' = handlers \cup {g}
      /\ UNCHANGED <<log, leader, fsm, applied, snap, elections, machine, client, time>>
  BY Zenon DEF EnsureSelfRegistered
<1> HIDE DEF cmd
<1>5. e \in Entries
  BY <1>1, <1>2, <1>3, Zenon DEF Entries
<1>6. WellFormed(g)
  BY <1>2, <1>3, Zenon DEF WellFormed, Stages
<1> HIDE DEF e, g
<1>7. HandlerInv'
  BY <1>4, <1>6, HandlerAdded, Zenon DEF AgreeInv
<1>8. RaftAgree'
  BY <1>4, <1>5, AcceptAgrees, ZenonT(60) DEF AgreeInv
<1>9. ClientInv'
  BY <1>4, ClientUnchanged, Zenon DEF AgreeInv
<1> QED
  BY <1>4, <1>7, <1>8, <1>9, Zenon DEF AgreeInv

\* Every step of replicated.Server and raftd.
LEMMA ServerKeeps == ASSUME AgreeInv, Server PROVE AgreeInv'
<1>1. ASSUME NEW n \in Nodes, NEW h \in At(n),
             \/ ProposeFails(h) \/ TurnAway(h) \/ Propose(h) \/ AddVoter(h) \/ AddVoterLost(h)
             \/ RaftApply(h) \/ ProposeLost(h)
      PROVE  AgreeInv'
  <2>1. h \in handlers /\ h.node \in Nodes
    BY Zenon DEF At
  <2>2. CASE Propose(h)
    <3>1. HandlerInv'
      BY <2>1, <2>2, ProposeKeeps, Zenon
    <3>2. ClientInv' /\ RaftAgree'
      BY <2>2, ClientUnchanged, RaftUnchanged, Zenon DEF AgreeInv, Propose
    <3> QED
      BY <2>2, <3>1, <3>2, Zenon DEF AgreeInv, Propose, raft
  <2> QED
    BY <1>1, <2>1, <2>2, HandlerEnds, AddVoterKeeps, RaftApplyKeeps, Zenon
<1> QED
  BY <1>1, ApplyCommandKeeps, LoseLeadershipKeeps, RestartServerKeeps, EnsureSelfRegisteredKeeps,
     RestartJoiningKeeps, Zenon DEF Server

(***************************************************************************)
(* All steps                                                               *)
(***************************************************************************)

\* Every step of Raft alone.
LEMMA ConsensusKeeps == ASSUME AgreeInv, Consensus PROVE AgreeInv'
<1>1. RaftAgree'
  BY CommitAgrees, ElectAgrees, TakeSnapshotAgrees, InstallSnapshotAgrees, Zenon DEF AgreeInv, Consensus
<1>2. ClientInv' /\ HandlerInv' /\ UNCHANGED time
  BY ClientUnchanged, HandlersUnchanged, Zenon DEF AgreeInv, Consensus
<1>3. elections' \in Int
  BY DEF AgreeInv, Consensus, Commit, Elect, TakeSnapshot, InstallSnapshot
<1> QED
  BY <1>1, <1>2, <1>3, Zenon DEF AgreeInv

\* Every step of a client alone.
LEMMA CallerKeeps == ASSUME AgreeInv, Caller PROVE AgreeInv'
<1>1. ClientInv /\ UNCHANGED <<raft, handlers, time>>
  BY Zenon DEF AgreeInv, Caller
<1>2. ASSUME NEW b \in Brokers
      PROVE  Users[b] \in Threads /\ Pools[b] \in Threads /\ Users[b] \notin Joiners /\ Pools[b] \notin Joiners
  BY ThreadsAssumption, Zenon DEF Threads
<1>3. ASSUME NEW b \in Brokers, Connect(b) PROVE ClientInv'
  <2>1. RegisterBrokerCmd(b) \in [kind : {"register_broker", "heartbeat"}, broker : Brokers, at : Nat]
    BY Zenon DEF RegisterBrokerCmd
  <2>2. RegisterBrokerCmd(b) \in Calls
    BY <2>1, Zenon DEF Calls, Commands
  <2> QED
    BY <1>1, <1>2, <1>3, <2>2, BeginKeeps, Zenon DEF Connect, Ops
<1>4. ASSUME NEW b \in Brokers, HeartbeatOnce(b) PROVE ClientInv'
  <2>1. HeartbeatCmd(b) \in [kind : {"register_broker", "heartbeat"}, broker : Brokers, at : Nat]
    BY Zenon DEF HeartbeatCmd
  <2>2. HeartbeatCmd(b) \in Calls
    BY <2>1, Zenon DEF Calls, Commands
  <2> QED
    BY <1>1, <1>2, <1>4, <2>2, BeginKeeps, Zenon DEF HeartbeatOnce, Ops
<1>5. ASSUME NEW b \in Brokers, NEW t \in Topics, NEW p \in Parts, CreateTopicCall(b, t, p) PROVE ClientInv'
  <2>1. CreateTopicCmd(t, p) \in [kind : {"create_topic"}, topic : Topics, parts : Int, at : Nat]
    BY ScenarioAssumption, Zenon DEF CreateTopicCmd
  <2>2. CreateTopicCmd(t, p) \in Calls
    BY <2>1, Zenon DEF Calls, Commands
  <2> QED
    BY <1>1, <1>2, <1>5, <2>2, BeginKeeps, Zenon DEF CreateTopicCall, Ops
<1>6. ASSUME NEW j \in Joiners, Join(j) PROVE ClientInv'
  <2>1. [kind |-> "join", node |-> j, at |-> 0] \in Calls
    BY Zenon DEF Calls
  <2>2. j \in Threads
    BY Zenon DEF Threads
  <2> QED
    BY <1>1, <1>6, <2>1, <2>2, BeginKeeps, Zenon DEF Join, Ops
<1>7. ClientInv'
  BY <1>3, <1>4, <1>5, <1>6, Zenon DEF Caller
<1>8. RaftAgree' /\ HandlerInv' /\ elections' = elections
  BY <1>1, RaftUnchanged, HandlersUnchanged, Zenon DEF AgreeInv, raft
<1> QED
  BY <1>1, <1>7, <1>8, Zenon DEF AgreeInv

\* A client sends an attempt to its target.
LEMMA SendKeeps == ASSUME AgreeInv, NEW c \in Threads, Send(c) PROVE AgreeInv'
<1> DEFINE g == [id |-> <<c, sent[c] + 1>>, node |-> link[Owner(c)].target, cmd |-> call[c].cmd, stage |-> "arrived"]
<1>1. call[c] \in [op : Ops, cmd : Calls, tries : Int] /\ sent[c] \in Nat
  BY Zenon DEF AgreeInv, ClientInv
<1>2. WellFormed(g)
  BY <1>1 DEF WellFormed, Ids, Stages
<1>3. handlers' = handlers \cup {g} /\ UNCHANGED <<raft, time>>
  BY Zenon DEF Send
<1> HIDE DEF g
<1>4. HandlerInv' /\ RaftAgree'
  BY <1>2, <1>3, HandlerAdded, RaftUnchanged, Zenon DEF AgreeInv
<1>5. sent' = [sent EXCEPT ![c] = @ + 1] /\ call' = [call EXCEPT ![c].tries = @ + 1]
  BY Zenon DEF Send
<1>6. ClientInv'
  BY <1>1, <1>5 DEF AgreeInv, ClientInv
<1> QED
  BY <1>3, <1>4, <1>6, Zenon DEF AgreeInv, raft

\* Every step keeps the invariant.
LEMMA AgreeStep == ASSUME AgreeInv, [Next]_vars PROVE AgreeInv'
<1>1. CASE UNCHANGED vars
  BY <1>1, ClientUnchanged, HandlersUnchanged, RaftUnchanged, Zenon DEF AgreeInv, vars, raft
<1>2. ASSUME NEW b \in Brokers, BrokerCrash(b) PROVE AgreeInv'
  <2>1. ClientInv'
    BY <1>2, RestartProcessKeeps, Zenon DEF AgreeInv, BrokerCrash, RestartBroker
  <2>2. HandlerInv' /\ RaftAgree'
    BY <1>2, HandlersUnchanged, LogsOnly, Zenon DEF AgreeInv, BrokerCrash, RaftAgree
  <2> QED
    BY <1>2, <2>1, <2>2, Zenon DEF AgreeInv, BrokerCrash
<1>3. CASE Tick
  BY <1>3, ClientUnchanged, HandlersUnchanged, RaftUnchanged DEF AgreeInv, Tick, raft
<1>4. ASSUME NEW c \in Threads, TimeOut(c) PROVE AgreeInv'
  <2>1. ClientInv'
    BY <1>4, RetryKeeps, Zenon DEF AgreeInv, TimeOut, Unavailable
  <2> QED
    BY <1>4, <2>1, HandlersUnchanged, RaftUnchanged, Zenon DEF AgreeInv, TimeOut, raft
<1> QED
  BY <1>1, <1>2, <1>3, <1>4, SendKeeps, ConsensusKeeps, ServerKeeps, CallerKeeps, Zenon DEF Next

\* The replicas begin with a state of the recorded history.
LEMMA AgreeInit == Init => AgreeInv
<1> SUFFICES ASSUME Init PROVE AgreeInv
  BY Zenon
<1>1. time \in Nat \ {0} /\ elections \in Int
  BY ScenarioAssumption, Zenon DEF Init
<1>2. ClientInv
  BY IdleType DEF Init, ClientInit, ClientInv
<1>3. HandlerInv
  BY Zenon DEF Init, ServerInit, HandlerInv
<1>4. /\ log = Prelude /\ machine = Recorded /\ leader = FirstLeader
      /\ tail = [n \in Nodes |-> <<>>]
      /\ applied = [n \in Nodes |-> IF n \in Voters THEN Len(Prelude) ELSE 0]
      /\ fsm = [n \in Nodes |-> StateAt(applied[n])]
      /\ snap = [n \in Nodes |-> [index |-> applied[n], data |-> Snapshot(fsm[n])]]
  BY Zenon DEF Init, RaftInit
<1>5. Len(log) \in Nat /\ machine \in Seq(Results) /\ Len(machine) = Len(log) /\ log \in Seq(Entries)
  BY <1>4, PreludeAssumption
<1>6. \A n \in Nodes : applied[n] \in 0 .. Len(log)
  BY <1>4, <1>5
<1>7. \A i \in 0 .. Len(log) : StateAt(i) \in States
  <2>1. Empty \in States
    BY Zenon DEF Empty, States
  <2>2. ASSUME NEW i \in 1 .. Len(log) PROVE machine[i].state \in States
    <3>1. machine[i] \in Results
      BY <1>5, ElementOfSeq, Zenon
    <3> QED
      BY <3>1, Zenon DEF Results
  <2> QED
    BY <1>5, <2>1, <2>2 DEF StateAt
<1>8. \A i \in 1 .. Len(log) : machine[i] = Apply(StateAt(i - 1), log[i].cmd, 0)
  <2> TAKE i \in 1 .. Len(log)
  <2>1. machine[i] = Apply(IF i = 1 THEN Empty ELSE machine[i - 1].state, log[i].cmd, 0)
    BY <1>4, PreludeAssumption, Zenon
  <2>2. StateAt(i - 1) = IF i = 1 THEN Empty ELSE machine[i - 1].state
    BY <1>5 DEF StateAt
  <2> QED
    BY <2>1, <2>2, Zenon
<1>9. tail \in [Nodes -> Seq(Entries)] /\ leader \in Nodes
  BY <1>4, EmptySeq, PreludeAssumption, Zenon
<1>10. fsm \in [Nodes -> States] /\ applied \in [Nodes -> Nat]
  BY <1>4, <1>5, <1>6, <1>7, Zenon
<1>11. \A n \in Nodes : snap[n].index = applied[n] /\ snap[n].data = Snapshot(StateAt(applied[n]))
  BY <1>4, Zenon
<1>12. RaftAgree
  BY <1>4, <1>5, <1>6, <1>8, <1>9, <1>10, <1>11 DEF RaftAgree
<1> QED
  BY <1>1, <1>2, <1>3, <1>12, Zenon DEF AgreeInv

\* "every replica (and every log replay after a restart) computes the same": the
\* FSM of every node is what the first commands of the log make of nothing.
THEOREM ReplicasComputeTheSame == Spec => []ReplicasAgree
<1>1. AgreeInv /\ [Next]_vars => AgreeInv'
  BY AgreeStep, Zenon
<1>2. AgreeInv => ReplicasAgree
  BY Zenon DEF AgreeInv, RaftAgree, ReplicasAgree
<1> QED
  BY AgreeInit, <1>1, <1>2, PTL DEF Spec

(***************************************************************************)
(* What the clients rely on                                                *)
(***************************************************************************)

\* What is asked for while the system runs.
NewCmd(cmd) ==
  /\ cmd.kind # "increment_counter"
  /\ cmd.kind = "create_topic" => cmd.parts \in Parts

\* A call that runs has a command of a client; a joiner makes no call once it
\* has joined, or failed to.
CallInv ==
  /\ pc \in [Threads -> {"idle", "send", "wait"}]
  /\ connected \in [Processes -> {"no", "yes", "failed"}]
  /\ \A c \in Threads : pc[c] # "idle" => NewCmd(call[c].cmd) /\ call[c].cmd.kind # "register_node"
  /\ \A c \in Threads : call[c].op = "create" => c \notin Joiners /\ call[c].cmd.kind = "create_topic"
  /\ \A j \in Joiners : pc[j] # "idle" => connected[j] = "no"

\* The entries made since the beginning, committed or not.
ElementsOf(logs) == UNION {{logs[n][k] : k \in 1 .. Len(logs[n])} : n \in Nodes}
TailEntries == ElementsOf(tail)
NewEntries == {log[i] : i \in Len(Prelude) + 1 .. Len(log)} \cup TailEntries

\* The command of a handler in these stages may be in a log.
Handed == {"commit", "lost", "dead"}

\* A handler works for one attempt of a client, or for the node itself.
Attempt(h) ==
  /\ h.id \in AttemptIds \cup SelfIds
  /\ NewCmd(h.cmd)
  /\ h.id \in AttemptIds /\ h.cmd.kind = "register_node" => h.cmd.node \in member
  /\ h.id \in AttemptIds => h.id[2] <= sent[h.id[1]]
  /\ h.id \in SelfIds =>
       /\ h.id[1] = h.node /\ h.cmd = RegisterNodeCmd(h.node) /\ h.stage \in {"commit", "lost"}
       /\ Registering(h.node)
  /\ Awaits(h) /\ call[h.id[1]].op = "create" => h.cmd.kind = "create_topic"

\* An attempt has one handler, and its entries hold the handler's command.
AttemptInv ==
  /\ \A h \in handlers : Attempt(h)
  /\ \A g, h \in handlers : g.id = h.id /\ h.id \in AttemptIds => g = h
  /\ \A e \in NewEntries : e.id \in AttemptIds => e.id[2] <= sent[e.id[1]]
  /\ \A h \in handlers, e \in NewEntries :
       e.id = h.id /\ h.id \in AttemptIds => h.stage \in Handed /\ e.cmd = h.cmd

\* An attempt is in a log once, and what is committed is in no tail.
LogInv ==
  /\ Len(Prelude) <= Len(log)
  /\ \A i \in 1 .. Len(Prelude) : log[i] = Prelude[i]
  /\ \A e \in NewEntries :
       /\ NewCmd(e.cmd)
       /\ e.id \in AttemptIds \cup SelfIds
       /\ e.id \in SelfIds => e.cmd = RegisterNodeCmd(e.id[1]) /\ e.id[3] >= elections
  /\ \A i \in Len(Prelude) + 1 .. Len(log) : \A e \in TailEntries : log[i].id # e.id
  /\ \A i, j \in Len(Prelude) + 1 .. Len(log) : log[i].id = log[j].id => i = j
  /\ \A n \in Nodes : \A k, l \in 1 .. Len(tail[n]) : tail[n][k].id = tail[n][l].id => k = l

\* A leader that has proposed itself in this term waits for it or knows itself.
SelfInv ==
  /\ role \in [Nodes -> BOOLEAN]
  /\ \A n \in Nodes, e \in NewEntries :
       e.id = <<n, "self", elections>> /\ role[n] => n \in fsm[n].nodes \/ \E h \in Own(n) : h.stage = "commit"

Creates(i, t) == log[i].cmd.kind = "create_topic" /\ log[i].cmd.topic = t /\ machine[i].ok

\* What a committed command entered stays: members, and the one who created a topic.
HistoryInv ==
  \A i \in Len(Prelude) + 1 .. Len(log) :
     /\ log[i].cmd.kind = "register_node" => log[i].cmd.node \in StateAt(Len(log)).nodes
     /\ \A t \in Topics : Creates(i, t) =>
          /\ log[i].cmd.parts # 0
          /\ StateAt(Len(log)).topics[t] = log[i].cmd.parts
          /\ \A j \in Len(Prelude) + 1 .. Len(log) : Creates(j, t) => i = j

\* A broker serves what a command of its own has created.
ServedInv ==
  /\ served \in [Brokers -> [Topics -> Int]]
  /\ \A b \in Brokers, t \in Topics : served[b][t] # 0 =>
       \E i \in Len(Prelude) + 1 .. Len(log) :
         /\ Creates(i, t) /\ log[i].cmd.parts = served[b][t]
         /\ log[i].id \in AttemptIds /\ Owner(log[i].id[1]) = b

\* A client is told the result of a committed command of its own.
ToldInv ==
  \A x \in told : \E i \in Len(Prelude) + 1 .. Len(log) :
     /\ x.id = log[i].id /\ x.cmd = log[i].cmd /\ x.ok = machine[i].ok
     /\ x.cmd.kind = "register_node" => x.cmd.node \in member

ServiceInv == CallInv /\ AttemptInv /\ LogInv /\ SelfInv /\ HistoryInv /\ ServedInv /\ ToldInv

(***************************************************************************)
(* The clients' steps                                                      *)
(***************************************************************************)

\* No attempt is sent, and no node that has joined leaves.
Quiet ==
  /\ sent' = sent
  /\ \A c \in Threads : pc'[c] = "wait" => pc[c] = "wait" /\ call'[c] = call[c]
  /\ \A j \in Joiners : connected[j] = "yes" => connected'[j] = "yes"

\* A joiner is its own thread; the other threads are those of a broker.
LEMMA OwnerKinds ==
  ASSUME NEW c \in Threads
  PROVE  /\ Owner(c) \in Processes
         /\ \A j \in Joiners : Owner(c) = j => c = j
<1>1. CASE c \in Joiners
  BY <1>1, Zenon DEF Owner, Processes
<1>2. CASE c \notin Joiners
  <2>1. Owner(c) \in Brokers
    BY <1>2, OwnerIsBroker, Zenon
  <2> QED BY <2>1, ThreadsAssumption, Zenon DEF Processes
<1> QED BY <1>1, <1>2, Zenon

\* The call of c ends, and its process has connected, or failed to, perhaps.
LEMMA CallEnds ==
  ASSUME ClientInv, CallInv, NEW c \in Threads, pc[c] # "idle", EndCall(c), UNCHANGED sent,
         NEW v \in {"no", "yes", "failed"}, connected' = [connected EXCEPT ![Owner(c)] = v]
  PROVE  CallInv' /\ Quiet
<1>1. Owner(c) \in Processes /\ \A j \in Joiners : Owner(c) = j => c = j
  BY OwnerKinds, Zenon
<1>2. /\ \A d \in Threads : d # c => pc'[d] = pc[d] /\ call'[d] = call[d]
      /\ pc'[c] = "idle" /\ call'[c].op = "none"
      /\ pc' \in [Threads -> {"idle", "send", "wait"}]
  BY Zenon DEF EndCall, Idle, ClientInv, CallInv
<1>3. /\ connected' \in [Processes -> {"no", "yes", "failed"}]
      /\ \A j \in Joiners : j # c => connected'[j] = connected[j]
  BY <1>1, Zenon DEF CallInv, Processes
<1>4. c \in Joiners => connected[c] = "no"
  BY Zenon DEF CallInv
<1>5. Joiners \subseteq Threads
  BY Zenon DEF Threads
<1>6. CallInv'
  <2>1. ASSUME NEW d \in Threads
        PROVE  /\ pc'[d] # "idle" => NewCmd(call'[d].cmd) /\ call'[d].cmd.kind # "register_node"
               /\ call'[d].op = "create" => d \notin Joiners /\ call'[d].cmd.kind = "create_topic"
    <3>1. CASE d = c
      BY <3>1, <1>2, <1>3, <1>5, Zenon
    <3>2. CASE ~(d = c)
      BY <3>2, <1>2, <1>3, <1>5 DEF CallInv
    <3> QED BY <3>1, <3>2, Zenon
  <2>2. ASSUME NEW j \in Joiners, pc'[j] # "idle"
        PROVE  connected'[j] = "no"
    BY <2>2, <1>2, <1>3, <1>5 DEF CallInv
  <2> QED BY <2>1, <2>2, <1>2, <1>3, <1>5, Zenon DEF CallInv
<1> QED BY <1>2, <1>3, <1>4, <1>6, Zenon DEF Quiet

\* A call of c begins, or is tried again.
LEMMA CallGoesOn ==
  ASSUME ClientInv, CallInv, NEW c \in Threads, NEW r \in [op : Ops, cmd : Calls, tries : Int],
         pc' = [pc EXCEPT ![c] = "send"], call' = [call EXCEPT ![c] = r], UNCHANGED <<sent, connected>>,
         NewCmd(r.cmd), r.cmd.kind # "register_node",
         r.op = "create" => c \notin Joiners /\ r.cmd.kind = "create_topic",
         c \in Joiners => connected[c] = "no"
  PROVE  CallInv' /\ Quiet
<1>1. /\ \A d \in Threads : d # c => pc'[d] = pc[d] /\ call'[d] = call[d]
      /\ pc'[c] = "send" /\ call'[c] = r
      /\ pc' \in [Threads -> {"idle", "send", "wait"}]
  BY Zenon DEF ClientInv, CallInv
<1>2. Joiners \subseteq Threads
  BY Zenon DEF Threads
<1>3. CallInv'
  <2>1. ASSUME NEW d \in Threads
        PROVE  /\ pc'[d] # "idle" => NewCmd(call'[d].cmd) /\ call'[d].cmd.kind # "register_node"
               /\ call'[d].op = "create" => d \notin Joiners /\ call'[d].cmd.kind = "create_topic"
    <3>1. CASE d = c
      BY <3>1, <1>1, <1>2, Zenon
    <3>2. CASE ~(d = c)
      BY <3>2, <1>1, <1>2 DEF CallInv
    <3> QED BY <3>1, <3>2, Zenon
  <2>2. ASSUME NEW j \in Joiners, pc'[j] # "idle"
        PROVE  connected'[j] = "no"
    BY <2>2, <1>1, <1>2, Zenon DEF CallInv
  <2> QED BY <2>1, <2>2, <1>1, <1>2, Zenon DEF CallInv
<1> QED BY <1>1, <1>3, Zenon DEF Quiet

\* A retry sends nothing yet.
LEMMA RetryQuiet ==
  ASSUME ClientInv, CallInv, NEW c \in Threads, pc[c] # "idle", Retry(c)
  PROVE  CallInv' /\ Quiet
<1>1. CASE call[c].tries < kMaxAttempts
  <2>1. pc' = [pc EXCEPT ![c] = "send"] /\ UNCHANGED <<call, connected, sent>>
    BY <1>1, Zenon DEF Retry
  <2>2. call[c] \in [op : Ops, cmd : Calls, tries : Int] /\ call' = [call EXCEPT ![c] = call[c]]
    BY <2>1, Zenon DEF ClientInv
  <2>3. /\ NewCmd(call[c].cmd) /\ call[c].cmd.kind # "register_node"
        /\ call[c].op = "create" => c \notin Joiners /\ call[c].cmd.kind = "create_topic"
        /\ c \in Joiners => connected[c] = "no"
    BY Zenon DEF CallInv
  <2> QED BY <2>1, <2>2, <2>3, CallGoesOn, Zenon
<1>2. CASE ~(call[c].tries < kMaxAttempts)
  <2> DEFINE v == IF call[c].op \in {"connect", "join"} THEN "failed" ELSE connected[Owner(c)]
  <2>1. EndCall(c) /\ UNCHANGED sent /\ connected' = [connected EXCEPT ![Owner(c)] = v]
    BY <1>2, Zenon DEF Retry
  <2>2. v \in {"no", "yes", "failed"}
    BY OwnerKinds, Zenon DEF CallInv
  <2> HIDE DEF v
  <2> QED BY <2>1, <2>2, CallEnds, Zenon
<1> QED BY <1>1, <1>2, Zenon

\* A result ends the call, or a heartbeat goes on as a registration.
LEMMA FinishQuiet ==
  ASSUME ClientInv, CallInv, NEW c \in Threads, pc[c] # "idle", NEW id, NEW cmd, NEW ok, Finish(c, id, cmd, ok)
  PROVE  CallInv' /\ Quiet
<1>0. UNCHANGED sent
  BY Zenon DEF Finish
<1>1. ASSUME EndCall(c), UNCHANGED connected PROVE CallInv' /\ Quiet
  <2>1. Owner(c) \in Processes
    BY OwnerKinds, Zenon
  <2>2. connected[Owner(c)] \in {"no", "yes", "failed"} /\ connected' = [connected EXCEPT ![Owner(c)] = connected[Owner(c)]]
    BY <1>1, <2>1, Zenon DEF CallInv
  <2> QED BY <1>0, <1>1, <2>2, CallEnds, Zenon
<1>2. CASE call[c].op = "create"
  BY <1>1, <1>2, Zenon DEF Finish, Created
<1>3. CASE call[c].op = "heartbeat"
  <2> DEFINE r == [op |-> "register", cmd |-> RegisterBrokerCmd(Owner(c)), tries |-> 0]
  <2>1. Acknowledged(c, ok)
    BY <1>3, Zenon DEF Finish
  <2>2. CASE ok
    BY <1>1, <2>1, <2>2, Zenon DEF Acknowledged
  <2>3. CASE ~ok
    <3>1. Owner(c) \in Brokers /\ c \notin Joiners
      BY <1>3, OwnerIsBroker, Zenon DEF ClientInv
    <3>2. RegisterBrokerCmd(Owner(c)) \in [kind : {"register_broker", "heartbeat"}, broker : Brokers, at : Nat]
      BY <3>1, Zenon DEF RegisterBrokerCmd
    <3>3. RegisterBrokerCmd(Owner(c)) \in Calls
      BY <3>2, Zenon DEF Calls, Commands
    <3>4. /\ r \in [op : Ops, cmd : Calls, tries : Int] /\ r.op = "register"
          /\ NewCmd(r.cmd) /\ r.cmd.kind # "register_node"
      BY <3>3 DEF Ops, NewCmd, RegisterBrokerCmd
    <3>5. pc' = [pc EXCEPT ![c] = "send"] /\ call' = [call EXCEPT ![c] = r] /\ UNCHANGED connected
      BY <2>1, <2>3, Zenon DEF Acknowledged
    <3> HIDE DEF r
    <3> QED BY <1>0, <3>1, <3>4, <3>5, CallGoesOn, Zenon
  <2> QED BY <2>2, <2>3, Zenon
<1>4. CASE call[c].op \notin {"create", "heartbeat"}
  <2> DEFINE v == IF call[c].op \in {"connect", "join"} THEN "yes" ELSE connected[Owner(c)]
  <2>1. EndCall(c) /\ connected' = [connected EXCEPT ![Owner(c)] = v]
    BY <1>4, Zenon DEF Finish, Registered
  <2>2. v \in {"no", "yes", "failed"}
    BY OwnerKinds, Zenon DEF CallInv
  <2> HIDE DEF v
  <2> QED BY <1>0, <2>1, <2>2, CallEnds, Zenon
<1> QED BY <1>2, <1>3, <1>4, Zenon

\* An answer ends a call, or has it tried again.
LEMMA AnswerQuiet ==
  ASSUME ClientInv, CallInv, NEW h, NEW code, NEW hint, NEW ok, Answer(h, code, hint, ok)
  PROVE  CallInv' /\ Quiet
<1>1. CASE Awaits(h)
  <2>1. h.id[1] \in Threads /\ pc[h.id[1]] # "idle" /\ Receive(h.id[1], h.id, h.cmd, code, hint, ok)
    BY <1>1, Zenon DEF Answer, Awaits
  <2> QED BY <2>1, RetryQuiet, FinishQuiet, ZenonT(60) DEF Receive, Redirected, Unavailable
<1>2. CASE ~Awaits(h)
  BY <1>2, Zenon DEF Answer, client, CallInv, Quiet
<1> QED BY <1>1, <1>2, Zenon

\* A process that restarts has no call; one that has joined does not restart here.
LEMMA RestartQuiet ==
  ASSUME ClientInv, CallInv, NEW x \in Processes, RestartProcess(x), x \in Joiners => connected[x] # "yes",
         NEW v \in {"no", "yes", "failed"}, connected' = [connected EXCEPT ![x] = v]
  PROVE  CallInv' /\ Quiet
<1>1. \A j \in Joiners : j \in Threads /\ Owner(j) = j
  BY Zenon DEF Threads, Owner
<1>2. /\ \A c \in Threads : Owner(c) # x => pc'[c] = pc[c] /\ call'[c] = call[c]
      /\ \A c \in Threads : Owner(c) = x => pc'[c] = "idle" /\ call'[c].op = "none"
      /\ pc' \in [Threads -> {"idle", "send", "wait"}] /\ UNCHANGED sent
  BY Zenon DEF RestartProcess, Idle, CallInv
<1>3. /\ connected' \in [Processes -> {"no", "yes", "failed"}]
      /\ \A j \in Joiners : j # x => connected'[j] = connected[j]
  BY Zenon DEF CallInv, Processes
<1>4. CallInv'
  <2>1. ASSUME NEW d \in Threads
        PROVE  /\ pc'[d] # "idle" => NewCmd(call'[d].cmd) /\ call'[d].cmd.kind # "register_node"
               /\ call'[d].op = "create" => d \notin Joiners /\ call'[d].cmd.kind = "create_topic"
    <3>1. CASE Owner(d) = x
      BY <3>1, <1>1, <1>2, <1>3, Zenon
    <3>2. CASE ~(Owner(d) = x)
      BY <3>2, <1>1, <1>2, <1>3 DEF CallInv
    <3> QED BY <3>1, <3>2, Zenon
  <2>2. ASSUME NEW j \in Joiners, pc'[j] # "idle"
        PROVE  connected'[j] = "no"
    BY <2>2, <1>1, <1>2, <1>3, ZenonT(60) DEF CallInv
  <2> QED BY <2>1, <2>2, <1>1, <1>2, <1>3, Zenon DEF CallInv
<1> QED BY <1>2, <1>3, <1>4, Zenon DEF Quiet
(***************************************************************************)
(* The handlers                                                            *)
(***************************************************************************)

\* Numbers tell attempts from the nodes' own proposals.
LEMMA IdKinds ==
  ASSUME NEW id
  PROVE  /\ id \in AttemptIds => Len(id) = 2 /\ id \notin SelfIds /\ id[1] \in Threads /\ id[2] \in Nat
         /\ id \in SelfIds => Len(id) = 3 /\ id \notin AttemptIds
BY DEF AttemptIds, SelfIds

\* A handler that waits for its client's answer works for an attempt.
LEMMA AwaitedAttempt ==
  ASSUME ClientInv, NEW h, Awaits(h)
  PROVE  /\ h.id \in AttemptIds /\ h.id[1] \in Threads /\ h.id[2] = sent[h.id[1]]
         /\ pc[h.id[1]] = "wait"
<1>1. h.id[1] \in Threads /\ sent[h.id[1]] \in Nat /\ h.id = <<h.id[1], sent[h.id[1]]>>
  BY Zenon DEF Awaits, ClientInv
<1>2. <<h.id[1], sent[h.id[1]]>> \in AttemptIds
  BY <1>1, Zenon DEF AttemptIds
<1>3. h.id[2] = sent[h.id[1]]
  BY <1>1
<1> QED BY <1>1, <1>2, <1>3, Zenon DEF Awaits

\* Handler h becomes g.
Follows(h, g) ==
  /\ g.id = h.id /\ NewCmd(g.cmd)
  /\ h.cmd.kind = "create_topic" => g.cmd.kind = "create_topic"
  /\ g.id \in AttemptIds /\ g.cmd.kind = "register_node" => g.cmd.node \in member'
  /\ h.id \in SelfIds => g.node = h.node /\ g.cmd = h.cmd /\ g.stage \in {"commit", "lost"}
  /\ h.stage \in Handed => g.stage \in Handed /\ g.cmd = h.cmd

\* The handlers go on, and what is entered are their commands.
LEMMA HandlersGoOn ==
  ASSUME ClientInv, AttemptInv, Quiet, member \subseteq member', NEW F,
         handlers' \subseteq {F[h] : h \in handlers}, \A h \in handlers : Follows(h, F[h]),
         \A e \in NewEntries' : e \in NewEntries \/
           /\ e.id \in AttemptIds => e.id[2] <= sent[e.id[1]]
           /\ \A h \in handlers : e.id = h.id /\ h.id \in AttemptIds => F[h].stage \in Handed /\ e.cmd = F[h].cmd
  PROVE  AttemptInv'
<1>1. ASSUME NEW g \in handlers' PROVE Attempt(g)'
  <2>1. PICK h \in handlers : g = F[h]
    BY <1>1, Zenon
  <2>2. Attempt(h) /\ Follows(h, g)
    BY <2>1, Zenon DEF AttemptInv
  <2>3. g.id = h.id
    BY <2>2, Zenon DEF Follows
  <2>4. h.id \in SelfIds => Registering(h.node)'
    BY <2>2, Zenon DEF Attempt, Registering, Quiet
  <2>5. ASSUME Awaits(g)', call'[g.id[1]].op = "create" PROVE g.cmd.kind = "create_topic"
    <3>1. g.id[1] \in Threads /\ pc'[g.id[1]] = "wait" /\ g.id = <<g.id[1], sent'[g.id[1]]>>
      BY <2>5, Zenon DEF Awaits
    <3>2. Awaits(h) /\ call[h.id[1]].op = "create"
      BY <2>3, <2>5, <3>1, ZenonT(60) DEF Awaits, Quiet
    <3> QED BY <2>2, <3>2, Zenon DEF Attempt, Follows
  <2>6. g.id \in AttemptIds => g.id[2] <= sent'[g.id[1]]
    BY <2>2, <2>3, Zenon DEF Attempt, Quiet
  <2>7. /\ g.id \in AttemptIds \cup SelfIds /\ NewCmd(g.cmd)
        /\ g.id \in AttemptIds /\ g.cmd.kind = "register_node" => g.cmd.node \in member'
        /\ g.id \in SelfIds => g.id[1] = g.node /\ g.cmd = RegisterNodeCmd(g.node) /\ g.stage \in {"commit", "lost"}
        /\ g.id \in SelfIds => Registering(g.node)'
    BY <2>2, <2>4, Zenon DEF Attempt, Follows
  <2> QED BY <2>5, <2>6, <2>7, Zenon DEF Attempt
<1>2. ASSUME NEW g \in handlers', NEW f \in handlers', g.id = f.id, f.id \in AttemptIds PROVE g = f
  <2>1. PICK h \in handlers : g = F[h]
    BY <1>2, Zenon
  <2>2. PICK k \in handlers : f = F[k]
    BY <1>2, Zenon
  <2>3. h.id = k.id /\ k.id \in AttemptIds
    BY <1>2, <2>1, <2>2, Zenon DEF Follows
  <2>4. h = k
    BY <2>3, Zenon DEF AttemptInv
  <2> QED BY <2>1, <2>2, <2>4, Zenon
<1>3. ASSUME NEW e \in NewEntries', e.id \in AttemptIds PROVE e.id[2] <= sent'[e.id[1]]
  BY <1>3, Zenon DEF AttemptInv, Quiet
<1>4. ASSUME NEW g \in handlers', NEW e \in NewEntries', e.id = g.id, g.id \in AttemptIds
      PROVE  g.stage \in Handed /\ e.cmd = g.cmd
  <2>1. PICK h \in handlers : g = F[h]
    BY <1>4, Zenon
  <2>2. Follows(h, g)
    BY <2>1, Zenon
  <2>3. CASE e \in NewEntries
    <3>1. e.id = h.id /\ h.id \in AttemptIds
      BY <1>4, <2>2, Zenon DEF Follows
    <3>2. h.stage \in Handed /\ e.cmd = h.cmd
      BY <2>3, <3>1, Zenon DEF AttemptInv
    <3> QED BY <2>2, <3>2, Zenon DEF Follows
  <2>4. CASE e \notin NewEntries
    BY <1>4, <2>1, <2>2, <2>4, Zenon DEF Follows
  <2> QED BY <2>3, <2>4, Zenon
<1> QED BY <1>1, <1>2, <1>3, <1>4, Zenon DEF AttemptInv

\* A handler that stays as it is.
LEMMA FollowsSelf ==
  ASSUME NEW h, Attempt(h), member \subseteq member'
  PROVE  Follows(h, h)
BY Zenon DEF Attempt, Follows

\* Steps that neither touch nor add handlers.
LEMMA HandlersStay ==
  ASSUME ClientInv, AttemptInv, Quiet, member \subseteq member',
         handlers' \subseteq handlers, NewEntries' \subseteq NewEntries
  PROVE  AttemptInv'
<1> DEFINE F == [h \in handlers |-> h]
<1>1. handlers' \subseteq {F[h] : h \in handlers} /\ \A h \in handlers : F[h] = h
  BY Zenon
<1> HIDE DEF F
<1>2. \A h \in handlers : Follows(h, F[h])
  BY <1>1, FollowsSelf, Zenon DEF AttemptInv
<1> QED BY <1>1, <1>2, HandlersGoOn, Zenon

\* One handler goes on.
LEMMA HandlerGoesOn ==
  ASSUME ClientInv, AttemptInv, Quiet, member \subseteq member',
         NEW h \in handlers, NEW g, Follows(h, g), handlers' = (handlers \ {h}) \cup {g},
         \A e \in NewEntries' : e \in NewEntries \/
           (h.id \in AttemptIds /\ g.stage \in Handed /\ e = [id |-> g.id, cmd |-> g.cmd])
  PROVE  AttemptInv'
<1> DEFINE F == [x \in handlers |-> IF x = h THEN g ELSE x]
<1>1. /\ handlers' \subseteq {F[x] : x \in handlers}
      /\ F[h] = g /\ \A x \in handlers : x # h => F[x] = x
  BY Zenon
<1> HIDE DEF F
<1>2. \A x \in handlers : Follows(x, F[x])
  BY <1>1, FollowsSelf, Zenon DEF AttemptInv
<1>3. ASSUME NEW e \in NewEntries', e \notin NewEntries
      PROVE  /\ e.id \in AttemptIds => e.id[2] <= sent[e.id[1]]
             /\ \A x \in handlers : e.id = x.id /\ x.id \in AttemptIds => F[x].stage \in Handed /\ e.cmd = F[x].cmd
  <2>1. h.id \in AttemptIds /\ g.stage \in Handed /\ e.id = g.id /\ e.cmd = g.cmd
    BY <1>3
  <2>2. e.id = h.id
    BY <2>1, Zenon DEF Follows
  <2>3. h.id[2] <= sent[h.id[1]]
    BY <2>1, Zenon DEF AttemptInv, Attempt
  <2>4. \A x \in handlers : e.id = x.id => x = h
    BY <2>1, <2>2, Zenon DEF AttemptInv
  <2> QED BY <1>1, <2>1, <2>2, <2>3, <2>4, Zenon
<1> QED BY <1>1, <1>2, <1>3, HandlersGoOn, ZenonT(60)

(***************************************************************************)
(* The logs                                                                *)
(***************************************************************************)

\* What it is to be in the log of some node.
LEMMA InSomeTail ==
  ASSUME NEW logs, NEW e
  PROVE  e \in ElementsOf(logs) <=> \E n \in Nodes : \E k \in 1 .. Len(logs[n]) : e = logs[n][k]
BY DEF ElementsOf

\* The same in the next state.
LEMMA TailEntriesNext ==
  ASSUME NEW e
  PROVE  e \in TailEntries' <=> \E n \in Nodes : \E k \in 1 .. Len(tail'[n]) : e = tail'[n][k]
BY DEF TailEntries, ElementsOf

\* Steps that leave the logs alone.
LEMMA LogsStay ==
  ASSUME LogInv, UNCHANGED <<log, tail, elections>>
  PROVE  LogInv' /\ NewEntries' = NewEntries
<1>1. TailEntries' = TailEntries
  BY Zenon DEF TailEntries
<1>2. NewEntries' = NewEntries
  BY <1>1, Zenon DEF NewEntries
<1> QED BY <1>1, <1>2, Zenon DEF LogInv

\* A node's log is extended by an attempt that is in no log.
LEMMA EntryAdded ==
  ASSUME RaftAgree, LogInv, NEW n \in Nodes, NEW e, UNCHANGED <<log, elections>>,
         tail' = [tail EXCEPT ![n] = Append(@, e)],
         NewCmd(e.cmd), e.id \in AttemptIds \cup SelfIds,
         e.id \in SelfIds => e.cmd = RegisterNodeCmd(e.id[1]) /\ e.id[3] >= elections,
         \A f \in NewEntries : f.id # e.id
  PROVE  LogInv' /\ NewEntries' \subseteq NewEntries \cup {e}
<1> DEFINE k0 == Len(tail[n])
<1>1. tail[n] \in Seq(Entries) /\ k0 \in Nat
  BY DEF RaftAgree
<1>2. /\ \A m \in Nodes \ {n} : tail'[m] = tail[m]
      /\ tail'[n] = Append(tail[n], e)
  BY Zenon DEF RaftAgree
<1>3. /\ Len(tail'[n]) = k0 + 1 /\ tail'[n][k0 + 1] = e
      /\ \A k \in 1 .. k0 : tail'[n][k] = tail[n][k]
  BY <1>1, <1>2
<1>4. \A k \in 1 .. k0 + 1 : k \in 1 .. k0 \/ k = k0 + 1
  BY <1>1
<1> HIDE DEF k0
<1>5. TailEntries' \subseteq TailEntries \cup {e}
  <2> SUFFICES ASSUME NEW f \in TailEntries', f # e
               PROVE  f \in TailEntries
    BY Zenon
  <2>a. PICK m \in Nodes : \E k \in 1 .. Len(tail'[m]) : f = tail'[m][k]
    BY TailEntriesNext
  <2>0. PICK k \in 1 .. Len(tail'[m]) : f = tail'[m][k]
    BY <2>a, Zenon
  <2>1. CASE m # n
    BY <1>2, <2>0, <2>1, InSomeTail, ZenonT(60) DEF TailEntries
  <2>2. CASE m = n
    <3>1. k \in 1 .. k0
      BY <1>3, <1>4, <2>0, <2>2, Zenon
    <3>2. f = tail[n][k]
      BY <1>3, <2>0, <2>2, <3>1, Zenon
    <3> QED BY <3>1, <3>2, InSomeTail, Zenon DEF TailEntries, k0
  <2> QED BY <2>1, <2>2, Zenon
<1>6. NewEntries' \subseteq NewEntries \cup {e}
  BY <1>5, Zenon DEF NewEntries
<1>7. TailEntries \subseteq NewEntries /\ \A i \in Len(Prelude) + 1 .. Len(log) : log[i] \in NewEntries
  BY Zenon DEF NewEntries
<1>8. \A i \in Len(Prelude) + 1 .. Len(log) : \A f \in TailEntries' : log[i].id # f.id
  BY <1>5, <1>7, Zenon DEF LogInv
<1>9. ASSUME NEW m \in Nodes, NEW k \in 1 .. Len(tail'[m]), NEW l \in 1 .. Len(tail'[m]),
             tail'[m][k].id = tail'[m][l].id
      PROVE  k = l
  <2>1. CASE m # n
    BY <1>2, <1>9, <2>1, ZenonT(60) DEF LogInv
  <2>2. CASE m = n
    <3>1. \A x \in 1 .. k0 : tail[n][x].id # e.id
      <4>1. \A x \in 1 .. k0 : tail[n][x] \in TailEntries
        BY InSomeTail, Zenon DEF TailEntries, k0
      <4> QED BY <1>7, <4>1, Zenon
    <3>2. CASE k \in 1 .. k0 /\ l \in 1 .. k0
      <4>1. tail[n][k].id = tail[n][l].id
        BY <1>3, <1>9, <2>2, <3>2, Zenon
      <4> QED BY <3>2, <4>1, Zenon DEF LogInv, k0
    <3>3. CASE k = k0 + 1 /\ l \in 1 .. k0
      BY <1>3, <1>9, <2>2, <3>1, <3>3, Zenon
    <3>4. CASE l = k0 + 1 /\ k \in 1 .. k0
      BY <1>3, <1>9, <2>2, <3>1, <3>4, Zenon
    <3> QED BY <1>3, <1>4, <2>2, <3>2, <3>3, <3>4, Zenon
  <2> QED BY <2>1, <2>2, Zenon
<1>10. \A f \in NewEntries' :
         /\ NewCmd(f.cmd)
         /\ f.id \in AttemptIds \cup SelfIds
         /\ f.id \in SelfIds => f.cmd = RegisterNodeCmd(f.id[1]) /\ f.id[3] >= elections
  BY <1>6, Zenon DEF LogInv
<1> QED BY <1>6, <1>8, <1>9, <1>10, Zenon DEF LogInv

\* The leader's oldest entry moves from the tails to the committed log.
LEMMA CommitMoves ==
  ASSUME RaftAgree, LogInv, Commit, leader # NoNode
  PROVE  LogInv' /\ NewEntries' \subseteq NewEntries
<1> DEFINE e == Head(tail[leader])
           len == Len(log)
<1>1. leader \in Nodes /\ tail[leader] \in Seq(Entries) /\ tail[leader] # <<>> /\ log \in Seq(Entries) /\ len \in Nat
  BY DEF RaftAgree, Commit
<1>2. 1 \in 1 .. Len(tail[leader]) /\ e = tail[leader][1]
  BY <1>1
<1>3. e \in TailEntries
  BY <1>1, <1>2, InSomeTail, Zenon DEF TailEntries
<1>4. /\ log' = Append(log, e) /\ UNCHANGED elections
      /\ tail' = [n \in Nodes |-> IF tail[n] # <<>> /\ Head(tail[n]) = e THEN Tail(tail[n]) ELSE <<>>]
  BY Zenon DEF Commit
<1> HIDE DEF e
<1>5. /\ Len(log') = len + 1 /\ log'[len + 1] = e
      /\ \A i \in 1 .. len : log'[i] = log[i]
  BY <1>1, <1>4
<1>6. Len(Prelude) \in Nat /\ Len(Prelude) <= len
  BY PreludeAssumption DEF LogInv
<1>7. \A i \in Len(Prelude) + 1 .. len + 1 : (i \in Len(Prelude) + 1 .. len /\ i \in 1 .. len) \/ i = len + 1
  BY <1>1, <1>6
<1>8. /\ \A i \in 1 .. Len(Prelude) : i \in 1 .. len
      /\ Len(Prelude) <= len + 1
  BY <1>1, <1>6
<1> HIDE DEF len
<1>9. ASSUME NEW n \in Nodes, NEW k \in 1 .. Len(tail'[n])
      PROVE  /\ k + 1 \in 1 .. Len(tail[n]) /\ 1 \in 1 .. Len(tail[n]) /\ tail[n][1] = e
             /\ tail'[n][k] = tail[n][k + 1] /\ k + 1 # 1
  <2>1. tail[n] \in Seq(Entries)
    BY Zenon DEF RaftAgree
  <2>2. tail'[n] = IF tail[n] # <<>> /\ Head(tail[n]) = e THEN Tail(tail[n]) ELSE <<>>
    BY <1>4, Zenon
  <2>3. tail[n] # <<>> /\ Head(tail[n]) = e /\ tail'[n] = Tail(tail[n])
    BY <1>9, <2>2
  <2> QED BY <1>9, <2>1, <2>3
<1>10. ASSUME NEW f \in TailEntries' PROVE f \in TailEntries /\ f.id # e.id
  <2>1. PICK n \in Nodes : \E k \in 1 .. Len(tail'[n]) : f = tail'[n][k]
    BY <1>10, TailEntriesNext, Zenon
  <2>2. PICK k \in 1 .. Len(tail'[n]) : f = tail'[n][k]
    BY <2>1, Zenon
  <2>3. /\ k + 1 \in 1 .. Len(tail[n]) /\ 1 \in 1 .. Len(tail[n]) /\ tail[n][1] = e
        /\ f = tail[n][k + 1] /\ k + 1 # 1
    BY <1>9, <2>2, Zenon
  <2>4. f \in TailEntries
    BY <2>3, InSomeTail, Zenon DEF TailEntries
  <2>5. f.id # e.id
    BY <2>3, Zenon DEF LogInv
  <2> QED BY <2>4, <2>5, Zenon
<1>11. NewEntries' \subseteq NewEntries
  <2>1. ASSUME NEW i \in Len(Prelude) + 1 .. Len(log') PROVE log'[i] \in NewEntries
    BY <1>3, <1>5, <1>7, <2>1, Zenon DEF NewEntries, len
  <2> QED BY <1>10, <2>1, Zenon DEF NewEntries
<1>12. \A i \in Len(Prelude) + 1 .. Len(log') : \A f \in TailEntries' : log'[i].id # f.id
  <2> SUFFICES ASSUME NEW i \in Len(Prelude) + 1 .. Len(log'), NEW f \in TailEntries'
               PROVE  log'[i].id # f.id
    BY Zenon
  <2>1. CASE i = len + 1
    BY <1>5, <1>10, <2>1, Zenon
  <2>2. CASE i # len + 1
    <3>1. i \in Len(Prelude) + 1 .. Len(log) /\ log'[i] = log[i]
      BY <1>5, <1>7, <2>2, Zenon DEF len
    <3> QED BY <1>10, <3>1, Zenon DEF LogInv
  <2> QED BY <2>1, <2>2, Zenon
<1>13. ASSUME NEW i \in Len(Prelude) + 1 .. Len(log'), NEW j \in Len(Prelude) + 1 .. Len(log'), log'[i].id = log'[j].id
       PROVE  i = j
  <2>1. \A x \in Len(Prelude) + 1 .. len : log[x].id # e.id
    BY <1>3, Zenon DEF LogInv, len
  <2>2. CASE i = len + 1
    BY <1>5, <1>7, <1>13, <2>1, <2>2, Zenon
  <2>3. CASE j = len + 1
    BY <1>5, <1>7, <1>13, <2>1, <2>3, Zenon
  <2>4. CASE i # len + 1 /\ j # len + 1
    BY <1>5, <1>7, <1>13, <2>4, Zenon DEF LogInv, len
  <2> QED BY <2>2, <2>3, <2>4, Zenon
<1>14. ASSUME NEW n \in Nodes, NEW k \in 1 .. Len(tail'[n]), NEW l \in 1 .. Len(tail'[n]), tail'[n][k].id = tail'[n][l].id
       PROVE  k = l
  <2>1. k + 1 \in 1 .. Len(tail[n]) /\ l + 1 \in 1 .. Len(tail[n]) /\ tail[n][k + 1].id = tail[n][l + 1].id
    BY <1>9, <1>14, Zenon
  <2>2. k + 1 = l + 1
    BY <2>1, Zenon DEF LogInv
  <2> QED BY <2>2
<1>15. Len(Prelude) <= Len(log') /\ \A i \in 1 .. Len(Prelude) : log'[i] = Prelude[i]
  BY <1>5, <1>8, Zenon DEF LogInv
<1>16. \A f \in NewEntries' :
         /\ NewCmd(f.cmd)
         /\ f.id \in AttemptIds \cup SelfIds
         /\ f.id \in SelfIds => f.cmd = RegisterNodeCmd(f.id[1]) /\ f.id[3] >= elections'
  BY <1>4, <1>11, Zenon DEF LogInv
<1> QED BY <1>11, <1>12, <1>13, <1>14, <1>15, <1>16, Zenon DEF LogInv

\* A new leader has a beginning of some node's log.
LEMMA ElectCopies ==
  ASSUME RaftAgree, LogInv, elections \in Int, NEW n \in Nodes, Elect(n)
  PROVE  /\ LogInv' /\ NewEntries' \subseteq NewEntries
         /\ \A f \in NewEntries' : f.id \in SelfIds => f.id[3] > elections'
<1>0. PICK m \in Nodes : \E k \in 0 .. Len(tail[m]) : tail' = [tail EXCEPT ![n] = SubSeq(tail[m], 1, k)]
  BY ZenonT(60) DEF Elect
<1>1. PICK c \in 0 .. Len(tail[m]) : tail' = [tail EXCEPT ![n] = SubSeq(tail[m], 1, c)]
  BY <1>0, ZenonT(60)
<1>2. UNCHANGED log /\ elections' = elections - 1
  BY Zenon DEF Elect
<1>3. ASSUME NEW x \in Nodes
      PROVE  \E y \in Nodes : \A k \in 1 .. Len(tail'[x]) : k \in 1 .. Len(tail[y]) /\ tail'[x][k] = tail[y][k]
  <2>1. CASE x # n
    <3>1. tail'[x] = tail[x]
      BY <1>1, <2>1, Zenon DEF RaftAgree
    <3> QED BY <3>1, Zenon
  <2>2. CASE x = n
    <3>1. tail'[x] = SubSeq(tail[m], 1, c) /\ tail[m] \in Seq(Entries)
      BY <1>1, <2>2, Zenon DEF RaftAgree
    <3>2. \A k \in 1 .. Len(tail'[x]) : k \in 1 .. Len(tail[m]) /\ tail'[x][k] = tail[m][k]
      BY <3>1
    <3> QED BY <3>2, Zenon
  <2> QED BY <2>1, <2>2, Zenon
<1>4. TailEntries' \subseteq TailEntries
  <2> SUFFICES ASSUME NEW f \in TailEntries'
               PROVE  f \in TailEntries
    BY Zenon
  <2>a. PICK x \in Nodes : \E k \in 1 .. Len(tail'[x]) : f = tail'[x][k]
    BY TailEntriesNext, Zenon
  <2>1. PICK k \in 1 .. Len(tail'[x]) : f = tail'[x][k]
    BY <2>a, Zenon
  <2>2. \E y \in Nodes : k \in 1 .. Len(tail[y]) /\ f = tail[y][k]
    BY <1>3, <2>1, Zenon
  <2> QED BY <2>2, InSomeTail, Zenon DEF TailEntries
<1>5. NewEntries' \subseteq NewEntries
  BY <1>2, <1>4, Zenon DEF NewEntries
<1>6. ASSUME NEW x \in Nodes, NEW k \in 1 .. Len(tail'[x]), NEW l \in 1 .. Len(tail'[x]), tail'[x][k].id = tail'[x][l].id
      PROVE  k = l
  <2>1. PICK y \in Nodes : \A i \in 1 .. Len(tail'[x]) : i \in 1 .. Len(tail[y]) /\ tail'[x][i] = tail[y][i]
    BY <1>3, Zenon
  <2>2. k \in 1 .. Len(tail[y]) /\ l \in 1 .. Len(tail[y]) /\ tail[y][k].id = tail[y][l].id
    BY <1>6, <2>1, Zenon
  <2> QED BY <2>2, Zenon DEF LogInv
<1>7. ASSUME NEW f \in NewEntries', f.id \in SelfIds PROVE f.id[3] >= elections' /\ f.id[3] > elections'
  <2>1. f.id[3] \in Int
    BY <1>7 DEF SelfIds
  <2>2. f.id[3] >= elections
    BY <1>5, <1>7, Zenon DEF LogInv
  <2> QED BY <1>2, <2>1, <2>2
<1>8. LogInv'
  BY <1>2, <1>4, <1>5, <1>6, <1>7, ZenonT(60) DEF LogInv
<1> QED BY <1>5, <1>7, <1>8, Zenon

\* Steps in which no node proposes itself.
LEMMA SelfStays ==
  ASSUME SelfInv, UNCHANGED elections, role' \in [Nodes -> BOOLEAN],
         \A e \in NewEntries' : e \in NewEntries \/ e.id \in AttemptIds,
         \A n \in Nodes : role'[n] => role[n],
         \A n \in Nodes : role'[n] /\ n \in fsm[n].nodes => n \in fsm'[n].nodes,
         \A h \in handlers : Len(h.id) = 3 /\ h.stage = "commit" /\ h.node \in Nodes /\ role'[h.node] =>
                               h \in handlers' \/ h.node \in fsm'[h.node].nodes
  PROVE  SelfInv'
<1> SUFFICES ASSUME NEW n \in Nodes, NEW e \in NewEntries', e.id = <<n, "self", elections>>, role'[n],
                    n \notin fsm'[n].nodes
             PROVE  \E h \in Own(n)' : h.stage = "commit"
  BY Zenon DEF SelfInv
<1>1. e.id \notin AttemptIds
  BY DEF AttemptIds
<1>2. PICK h \in Own(n) : h.stage = "commit"
  BY <1>1, Zenon DEF SelfInv
<1>3. h \in handlers /\ h.node = n /\ Len(h.id) = 3
  BY Zenon DEF Own, At
<1>4. h \in handlers'
  BY <1>2, <1>3, Zenon
<1> QED BY <1>2, <1>3, <1>4, Zenon DEF Own, At

(***************************************************************************)
(* The history                                                             *)
(***************************************************************************)

\* Steps without a commit keep what commits entered.
LEMMA HistoryStays == ASSUME HistoryInv, UNCHANGED <<log, machine>> PROVE HistoryInv'
<1>1. \A i, t : Creates(i, t)' <=> Creates(i, t)
  BY Zenon DEF Creates
<1>2. StateAt(Len(log))' = StateAt(Len(log))
  BY Zenon DEF StateAt
<1> QED BY <1>1, <1>2, Zenon DEF HistoryInv

\* What was committed before a commit is committed after it.
LEMMA CommitKeeps ==
  ASSUME RaftAgree, LogInv, Commit, leader # NoNode, NEW i \in Len(Prelude) + 1 .. Len(log)
  PROVE  /\ i \in Len(Prelude) + 1 .. Len(log') /\ i # Len(log) + 1
         /\ log'[i] = log[i] /\ machine'[i] = machine[i]
         /\ \A t : Creates(i, t)' <=> Creates(i, t)
<1>1. Len(Prelude) \in Nat /\ Len(log) \in Nat
  BY PreludeAssumption, CommitExtends
<1>2. i \in 1 .. Len(log)
  BY <1>1
<1>3. log'[i] = log[i] /\ machine'[i] = machine[i] /\ Len(log') = Len(log) + 1
  BY <1>2, CommitExtends, Zenon
<1>4. i \in Len(Prelude) + 1 .. Len(log') /\ i # Len(log) + 1
  BY <1>1, <1>3
<1> QED BY <1>3, <1>4, Zenon DEF Creates

\* A commit keeps members and topics, and creates a topic only if there is none.
LEMMA HistoryGrows ==
  ASSUME RaftAgree, LogInv, HistoryInv, Commit, leader # NoNode
  PROVE  HistoryInv'
<1> DEFINE len == Len(log)
           f == StateAt(len)
           e == NextEntry
           r == NextEffect
<1>1. /\ len \in Nat /\ f \in States /\ e.cmd \in Commands
      /\ Len(log') = len + 1 /\ log'[len + 1] = e /\ machine'[len + 1] = r /\ r = Apply(f, e.cmd, 0)
  BY CommitExtends, Zenon DEF Entries, NextEffect
<1>2. StateAt(Len(log))' = r.state
  BY <1>1 DEF StateAt
<1> HIDE DEF len, f, e, r
<1>3. ASSUME NEW i \in Len(Prelude) + 1 .. Len(log')
      PROVE  i = len + 1 \/ (i # len + 1 /\ i \in Len(Prelude) + 1 .. Len(log))
  <2>1. Len(Prelude) \in Nat
    BY PreludeAssumption
  <2> QED BY <1>1, <2>1 DEF len
<1>4. /\ f.nodes \subseteq r.state.nodes
      /\ e.cmd.kind = "register_node" => e.cmd.node \in r.state.nodes
      /\ \A t \in Topics : f.topics[t] # 0 => r.state.topics[t] = f.topics[t]
      /\ e.cmd.kind = "create_topic" /\ r.ok =>
           e.cmd.parts # 0 /\ f.topics[e.cmd.topic] = 0 /\ r.state.topics[e.cmd.topic] = e.cmd.parts
  BY <1>1, ApplyGrows, ZenonT(60)
<1>5. ASSUME NEW i \in Len(Prelude) + 1 .. Len(log'), log'[i].cmd.kind = "register_node"
      PROVE  log'[i].cmd.node \in r.state.nodes
  <2>1. CASE i = len + 1
    BY <1>1, <1>4, <1>5, <2>1, Zenon
  <2>2. CASE i # len + 1
    <3>1. i \in Len(Prelude) + 1 .. Len(log) /\ log'[i] = log[i]
      BY <1>3, <2>2, CommitKeeps, Zenon
    <3>2. log[i].cmd.node \in f.nodes
      BY <1>5, <3>1, Zenon DEF HistoryInv, f, len
    <3> QED BY <1>4, <3>1, <3>2, Zenon
  <2> QED BY <2>1, <2>2, Zenon
<1>6. ASSUME NEW t \in Topics, NEW i, Creates(i, t)', i = len + 1
      PROVE  f.topics[t] = 0 /\ log'[i].cmd.parts # 0 /\ r.state.topics[t] = log'[i].cmd.parts
  <2>1. log'[i] = e /\ machine'[i] = r
    BY <1>1, <1>6, Zenon
  <2>2. e.cmd.kind = "create_topic" /\ e.cmd.topic = t /\ r.ok
    BY <1>6, <2>1, Zenon DEF Creates
  <2> QED BY <1>4, <2>1, <2>2, Zenon
<1>7. ASSUME NEW t \in Topics, NEW i \in Len(Prelude) + 1 .. Len(log'), Creates(i, t)', i # len + 1
      PROVE  /\ i \in Len(Prelude) + 1 .. Len(log) /\ Creates(i, t) /\ log'[i] = log[i]
             /\ f.topics[t] # 0 /\ log[i].cmd.parts # 0 /\ r.state.topics[t] = log[i].cmd.parts
  <2>1. i \in Len(Prelude) + 1 .. Len(log) /\ Creates(i, t) /\ log'[i] = log[i]
    BY <1>3, <1>7, CommitKeeps, Zenon
  <2>2. log[i].cmd.parts # 0 /\ f.topics[t] = log[i].cmd.parts
    BY <2>1, Zenon DEF HistoryInv, f, len
  <2> QED BY <1>4, <2>1, <2>2, Zenon
<1>8. ASSUME NEW t \in Topics, NEW i \in Len(Prelude) + 1 .. Len(log'), Creates(i, t)'
      PROVE  /\ log'[i].cmd.parts # 0
             /\ r.state.topics[t] = log'[i].cmd.parts
             /\ \A j \in Len(Prelude) + 1 .. Len(log') : Creates(j, t)' => i = j
  <2>1. log'[i].cmd.parts # 0 /\ r.state.topics[t] = log'[i].cmd.parts
    BY <1>1, <1>6, <1>7, <1>8, ZenonT(60)
  <2>2. ASSUME NEW j \in Len(Prelude) + 1 .. Len(log'), Creates(j, t)' PROVE i = j
    <3>1. CASE i = len + 1
      BY <1>6, <1>7, <1>8, <2>2, <3>1, Zenon
    <3>2. CASE j = len + 1
      BY <1>6, <1>7, <1>8, <2>2, <3>2, Zenon
    <3>3. CASE i # len + 1 /\ j # len + 1
      <4>1. /\ i \in Len(Prelude) + 1 .. Len(log) /\ Creates(i, t)
            /\ j \in Len(Prelude) + 1 .. Len(log) /\ Creates(j, t)
        BY <1>7, <1>8, <2>2, <3>3, Zenon
      <4> QED BY <4>1, Zenon DEF HistoryInv
    <3> QED BY <3>1, <3>2, <3>3, Zenon
  <2> QED BY <2>1, <2>2, Zenon
<1> QED BY <1>2, <1>5, <1>8, ZenonT(60) DEF HistoryInv

(***************************************************************************)
(* What the clients have                                                   *)
(***************************************************************************)

\* Steps without a commit keep what is served.
LEMMA TopicsStay ==
  ASSUME ServedInv, UNCHANGED <<log, machine, served>>
  PROVE  ServedInv'
<1>1. \A i, t : Creates(i, t)' <=> Creates(i, t)
  BY Zenon DEF Creates
<1> QED BY <1>1, Zenon DEF ServedInv

\* Steps without a commit keep what was told.
LEMMA ToldStays ==
  ASSUME ToldInv, UNCHANGED <<log, machine, told>>, member \subseteq member'
  PROVE  ToldInv'
BY Zenon DEF ToldInv

\* A commit takes nothing away from what is served and was told.
LEMMA CommitServed ==
  ASSUME RaftAgree, LogInv, ServedInv, ToldInv, Commit, leader # NoNode, UNCHANGED client
  PROVE  ServedInv' /\ ToldInv'
<1>1. UNCHANGED <<served, told, member>>
  BY Zenon DEF Commit, client
<1>2. ASSUME NEW b \in Brokers, NEW t \in Topics, served[b][t] # 0
      PROVE  \E i \in Len(Prelude) + 1 .. Len(log') :
               /\ Creates(i, t)' /\ log'[i].cmd.parts = served[b][t]
               /\ log'[i].id \in AttemptIds /\ Owner(log'[i].id[1]) = b
  <2>1. PICK i \in Len(Prelude) + 1 .. Len(log) :
               /\ Creates(i, t) /\ log[i].cmd.parts = served[b][t]
               /\ log[i].id \in AttemptIds /\ Owner(log[i].id[1]) = b
    BY <1>2, Zenon DEF ServedInv
  <2>2. i \in Len(Prelude) + 1 .. Len(log') /\ log'[i] = log[i] /\ Creates(i, t)'
    BY <2>1, CommitKeeps, Zenon
  <2> QED BY <2>1, <2>2, Zenon
<1>3. ASSUME NEW x \in told
      PROVE  \E i \in Len(Prelude) + 1 .. Len(log') :
               /\ x.id = log'[i].id /\ x.cmd = log'[i].cmd /\ x.ok = machine'[i].ok
               /\ x.cmd.kind = "register_node" => x.cmd.node \in member
  <2>1. PICK i \in Len(Prelude) + 1 .. Len(log) :
               /\ x.id = log[i].id /\ x.cmd = log[i].cmd /\ x.ok = machine[i].ok
               /\ x.cmd.kind = "register_node" => x.cmd.node \in member
    BY Zenon DEF ToldInv
  <2>2. i \in Len(Prelude) + 1 .. Len(log') /\ log'[i] = log[i] /\ machine'[i] = machine[i]
    BY CommitKeeps, Zenon
  <2> QED BY <2>1, <2>2, Zenon
<1>4. ServedInv'
  BY <1>1, <1>2, Zenon DEF ServedInv
<1>5. ToldInv'
  BY <1>1, <1>3, Zenon DEF ToldInv
<1> QED BY <1>4, <1>5, Zenon
=============================================================================
