---------------------------- MODULE ControlClient ----------------------------
(***************************************************************************)
(* The clients of the control plane.  A broker has a thread of its users   *)
(* (connect_to_control_plane, create_topic) and the one of cp_pool_ (the   *)
(* heartbeats); both call through one ControlPlaneClient and share its     *)
(* endpoints.  A node that joins calls through replicated.Client.          *)
(***************************************************************************)
EXTENDS ControlFSM, Sequences

CONSTANTS
  Users,        \* Users[b]: the thread that calls broker b
  Pools,        \* Pools[b]: the thread of b's cp_pool_
  Joiners,      \* nodes that ask to join; each makes its call itself
  Connected,    \* brokers that are connected when the behaviour begins
  Endpoints,    \* the configured endpoints, a sequence of nodes
  kMaxAttempts  \* attempts of one call

Processes == Brokers \cup Joiners
Threads == {Users[b] : b \in Brokers} \cup {Pools[b] : b \in Brokers} \cup Joiners
Owner(c) == IF c \in Joiners THEN c ELSE CHOOSE b \in Brokers : c \in {Users[b], Pools[b]}

ASSUME ThreadsAssumption ==
  /\ Joiners \subseteq Nodes
  /\ Brokers \cap Joiners = {}
  /\ \A b \in Brokers : Users[b] \notin Joiners /\ Pools[b] \notin Joiners

VARIABLES
  pc,         \* "idle", "send" (about to call) or "wait"
  call,       \* the running call: [op, cmd, tries]
  sent,       \* attempts made so far, over all calls
  attempts,   \* bound: the attempts each thread may still make
  link,       \* each process's client: [endpoints, idx, target]
  connected,  \* "no", "yes", or "failed": the first call threw
  served,     \* topics_ of each broker: partitions by topic, 0 if absent
  told        \* history: the results that reached a client

client == <<pc, call, sent, attempts, link, connected, served, told>>

Idle == [op |-> "none", cmd |-> IncrementCounterCmd, tries |-> 0]

FreshLink == [endpoints |-> Endpoints, idx |-> 1, target |-> Endpoints[1]]

Begin(c, op, cmd) ==
  /\ pc[c] = "idle" /\ attempts[c] > 0
  /\ pc' = [pc EXCEPT ![c] = "send"]
  /\ call' = [call EXCEPT ![c] = [op |-> op, cmd |-> cmd, tries |-> 0]]
  /\ UNCHANGED <<sent, attempts, link, connected, served, told>>

\* connect_to_control_plane registers the broker before it heartbeats.
Connect(b) ==
  /\ connected[b] = "no"
  /\ Begin(Users[b], "connect", RegisterBrokerCmd(b))

CreateTopicCall(b, t, p) ==
  /\ connected[b] # "no"
  /\ served[b][t] = 0
  /\ Begin(Users[b], "create", CreateTopicCmd(t, p))

HeartbeatOnce(b) ==
  /\ connected[b] = "yes"
  /\ Begin(Pools[b], "heartbeat", HeartbeatCmd(b))

\* raftd of a fresh node started with -join.
Join(j) ==
  /\ connected[j] = "no"
  /\ Begin(j, "join", [kind |-> "join", node |-> j, at |-> 0])

\* The call ends, in error or not.
EndCall(c) ==
  /\ pc' = [pc EXCEPT ![c] = "idle"]
  /\ call' = [call EXCEPT ![c] = Idle]

\* After an error that is worth another attempt; the last error is thrown.
Retry(c) ==
  /\ IF call[c].tries < kMaxAttempts
     THEN pc' = [pc EXCEPT ![c] = "send"] /\ UNCHANGED <<call, connected>>
     ELSE /\ EndCall(c)
          /\ connected' = [connected EXCEPT ![Owner(c)] =
                             IF call[c].op \in {"connect", "join"} THEN "failed" ELSE @]
  /\ UNCHANGED <<sent, attempts, served, told>>

Rotated(l) ==
  LET i == (l.idx % Len(l.endpoints)) + 1
  IN  [l EXCEPT !.idx = i, !.target = l.endpoints[i]]

\* rotate_endpoint, and the same in replicated.Client
rotate_endpoint(x) == link' = [link EXCEPT ![x] = Rotated(@)]

\* follow_leader keeps an address it did not know.
follow_leader(x, addr) ==
  LET l == link[x]
      known == {i \in DOMAIN l.endpoints : l.endpoints[i] = addr}
  IN  link' = [link EXCEPT ![x] =
        [endpoints |-> IF known = {} THEN Append(l.endpoints, addr) ELSE l.endpoints,
         idx       |-> IF known = {} THEN Len(l.endpoints) + 1 ELSE CHOOSE i \in known : TRUE,
         target    |-> addr]]

\* replicated.Client goes to the leader once and keeps its own list.
redirect(x, addr) ==
  link' = [link EXCEPT ![x] = IF addr = @.target THEN Rotated(@) ELSE [@ EXCEPT !.target = addr]]

Redirected(c, addr) ==
  /\ IF c \in Joiners THEN redirect(c, addr) ELSE follow_leader(Owner(c), addr)
  /\ Retry(c)

Unavailable(c) ==
  /\ rotate_endpoint(Owner(c))
  /\ Retry(c)

\* Mutant: the control plane's answer is not looked at.
CreatedUnchecked(c, cmd, ok) ==
  /\ EndCall(c)
  /\ served' = [served EXCEPT ![Owner(c)][cmd.topic] = cmd.parts]
  /\ UNCHANGED connected

\* The rest of create_topic; the Topic's files cannot be created, perhaps.
Created(c, cmd, ok) ==
  /\ EndCall(c)
  /\ \/ ok /\ served' = [served EXCEPT ![Owner(c)][cmd.topic] = cmd.parts]
     \/ UNCHANGED served
  /\ UNCHANGED connected

\* A heartbeat that is not acknowledged makes the broker register again.
Acknowledged(c, ok) ==
  /\ IF ok THEN EndCall(c)
     ELSE /\ pc' = [pc EXCEPT ![c] = "send"]
          /\ call' = [call EXCEPT ![c] = [op |-> "register", cmd |-> RegisterBrokerCmd(Owner(c)), tries |-> 0]]
  /\ UNCHANGED <<connected, served>>

Registered(c) ==
  /\ EndCall(c)
  /\ connected' = [connected EXCEPT ![Owner(c)] = IF call[c].op \in {"connect", "join"} THEN "yes" ELSE @]
  /\ UNCHANGED served

\* The attempt id of c was executed as cmd, with result ok.
Finish(c, id, cmd, ok) ==
  /\ told' = told \cup {[id |-> id, cmd |-> cmd, ok |-> ok]}
  /\ CASE call[c].op = "create" -> Created(c, cmd, ok)
       [] call[c].op = "heartbeat" -> Acknowledged(c, ok)
       [] OTHER -> Registered(c)
  /\ UNCHANGED <<sent, attempts, link>>

\* What c makes of an answer to its attempt id.
Receive(c, id, cmd, code, hint, ok) ==
  \/ code = "ok" /\ Finish(c, id, cmd, ok)
  \/ code = "precondition" /\ Redirected(c, hint)
  \/ code = "unavailable" /\ Unavailable(c)

\* Process x ends and is started again.
RestartProcess(x) ==
  /\ connected[x] # "no"
  /\ pc' = [c \in Threads |-> IF Owner(c) = x THEN "idle" ELSE pc[c]]
  /\ call' = [c \in Threads |-> IF Owner(c) = x THEN Idle ELSE call[c]]
  /\ link' = [link EXCEPT ![x] = FreshLink]
  /\ UNCHANGED <<sent, attempts, told>>

RestartBroker(b) ==
  /\ RestartProcess(b)
  /\ connected' = [connected EXCEPT ![b] = "no"]
  /\ served' = [served EXCEPT ![b] = [t \in Topics |-> 0]]

\* A joiner whose join failed has ended; recovered says whether it finds the
\* Raft state of an earlier contact with the leader.
RestartJoiner(j, recovered) ==
  /\ connected[j] = "failed"
  /\ RestartProcess(j)
  /\ connected' = [connected EXCEPT ![j] = IF recovered THEN "yes" ELSE "no"]
  /\ UNCHANGED served

ClientInit ==
  /\ pc = [c \in Threads |-> "idle"]
  /\ call = [c \in Threads |-> Idle]
  /\ sent = [c \in Threads |-> 0]
  /\ link = [x \in Processes |-> FreshLink]
  /\ connected = [x \in Processes |-> IF x \in Connected THEN "yes" ELSE "no"]
  /\ served = [b \in Brokers |-> [t \in Topics |-> 0]]
  /\ told = {}
=============================================================================
