----------------------------- MODULE ControlFSM ------------------------------
(***************************************************************************)
(* raftnode.FSM: the replicated state of the control plane (topics, broker *)
(* membership, counter, addresses of the members) and what each command    *)
(* does to it.  A broker's record is its LastHeartbeat, a member's its     *)
(* presence in the registry: addresses do not change.                      *)
(***************************************************************************)
EXTENDS Integers

CONSTANTS Topics, Brokers, Nodes

\* A topic has 0 partitions while it does not exist, a broker that is not
\* registered has 0 for its LastHeartbeat.
Empty ==
  [topics  |-> [t \in Topics |-> 0],
   brokers |-> [b \in Brokers |-> 0],
   counter |-> 0,
   nodes   |-> {}]

States ==
  [topics : [Topics -> Nat], brokers : [Brokers -> Nat], counter : Nat, nodes : SUBSET Nodes]

\* What Apply returns.
Results == [state : States, ok : BOOLEAN, value : Nat]

Result(f, ok, value) == [state |-> f, ok |-> ok, value |-> value]

CreateTopic(f, t, parts) ==
  IF f.topics[t] # 0 \/ parts <= 0
  THEN Result(f, FALSE, 0)
  ELSE Result([f EXCEPT !.topics[t] = parts], TRUE, 0)

RegisterAt(f, b, at) == Result([f EXCEPT !.brokers[b] = at], TRUE, 0)

\* Mutant: the timestamp may move backwards.
HeartbeatAtAny(f, b, at) ==
  IF f.brokers[b] = 0 THEN Result(f, FALSE, 0) ELSE Result([f EXCEPT !.brokers[b] = at], TRUE, 0)

HeartbeatAt(f, b, at) ==
  IF f.brokers[b] = 0
  THEN Result(f, FALSE, 0)
  ELSE Result([f EXCEPT !.brokers[b] = IF at > @ THEN at ELSE @], TRUE, 0)

\* Heartbeat with the local clock.
Heartbeat(f, b, now) ==
  IF f.brokers[b] = 0
  THEN Result(f, FALSE, 0)
  ELSE Result([f EXCEPT !.brokers[b] = now], TRUE, 0)

IncrementCounter(f) == Result([f EXCEPT !.counter = @ + 1], TRUE, f.counter + 1)

RegisterNode(f, n) == Result([f EXCEPT !.nodes = @ \cup {n}], TRUE, 0)

\* Commands; at = 0 stands for a timestamp that is not set.
CreateTopicCmd(t, parts) == [kind |-> "create_topic", topic |-> t, parts |-> parts, at |-> 0]
RegisterBrokerCmd(b) == [kind |-> "register_broker", broker |-> b, at |-> 0]
HeartbeatCmd(b) == [kind |-> "heartbeat", broker |-> b, at |-> 0]
IncrementCounterCmd == [kind |-> "increment_counter", at |-> 0]
RegisterNodeCmd(n) == [kind |-> "register_node", node |-> n, at |-> 0]

Commands ==
  [kind : {"create_topic"}, topic : Topics, parts : Int, at : Nat]
    \cup [kind : {"register_broker", "heartbeat"}, broker : Brokers, at : Nat]
    \cup [kind : {"increment_counter"}, at : Nat]
    \cup [kind : {"register_node"}, node : Nodes, at : Nat]

\* A command that writes a time carries it.
Stamped(cmd) == cmd.kind \in {"register_broker", "heartbeat"} => cmd.at # 0

\* Apply on a replica whose own clock shows now.
Apply(f, cmd, now) ==
  CASE cmd.kind = "create_topic" -> CreateTopic(f, cmd.topic, cmd.parts)
    [] cmd.kind = "register_broker" ->
         RegisterAt(f, cmd.broker, IF cmd.at # 0 THEN cmd.at ELSE now)
    [] cmd.kind = "heartbeat" ->
         IF cmd.at # 0 THEN HeartbeatAt(f, cmd.broker, cmd.at) ELSE Heartbeat(f, cmd.broker, now)
    [] cmd.kind = "increment_counter" -> IncrementCounter(f)
    [] cmd.kind = "register_node" -> RegisterNode(f, cmd.node)

\* A snapshot lists what there is; restoring builds the maps from the lists.
SnapshotTopics(topics) == {<<t, topics[t]>> : t \in {x \in Topics : topics[x] # 0}}
SnapshotBrokers(brokers) == {<<b, brokers[b]>> : b \in {x \in Brokers : brokers[x] # 0}}

\* The value the list s holds for key k, 0 if it holds none.
ValueIn(s, k) == IF \E p \in s : p[1] = k THEN (CHOOSE p \in s : p[1] = k)[2] ELSE 0

RestoreTopics(s) == [t \in Topics |-> ValueIn(s, t)]

\* Mutant: the brokers are left as NewMembership made them.
RestoreNoBrokers(s) == [b \in Brokers |-> 0]

RestoreBrokers(s) == [b \in Brokers |-> ValueIn(s, b)]

Snapshot(f) ==
  [f EXCEPT !.topics = SnapshotTopics(f.topics), !.brokers = SnapshotBrokers(f.brokers)]

Restore(s) == [s EXCEPT !.topics = RestoreTopics(s.topics), !.brokers = RestoreBrokers(s.brokers)]
=============================================================================
