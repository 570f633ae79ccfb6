--------------------------- MODULE MetadataService ---------------------------
(***************************************************************************)
(* What the control plane promises its clients, whatever happens to its    *)
(* nodes: an attempt is executed at most once, at one moment, and its      *)
(* caller is told the result of its own attempt or nothing.                *)
(***************************************************************************)
EXTENDS Integers

CONSTANTS Topics, Brokers

VARIABLES
  topics,    \* partitions of each topic, 0 if it does not exist
  leases,    \* LastHeartbeat of each broker, 0 if it is not registered
  executed,  \* the attempts that were executed, with their results: [id, kind, ok]
  told       \* the results that were told

vars == <<topics, leases, executed, told>>

\* An attempt of a kind is executed, for the first time, with result ok.
Done(kind, ok) ==
  /\ \E x \in executed' :
       /\ x.kind = kind /\ x.ok = ok /\ \A y \in executed : y.id # x.id
       /\ executed' = executed \cup {x}
  /\ UNCHANGED told

\* A topic is created once and keeps its partitions.
Create(t) ==
  /\ Done("create_topic", topics[t] = 0)
  /\ IF topics[t] = 0
     THEN \E p \in {topics'[t]} : p > 0 /\ topics' = [topics EXCEPT ![t] = p]
     ELSE UNCHANGED topics
  /\ UNCHANGED leases

Register(b) ==
  /\ Done("register_broker", TRUE)
  /\ \E at \in {leases'[b]} : at > 0 /\ leases' = [leases EXCEPT ![b] = at]
  /\ UNCHANGED topics

\* A heartbeat never shortens a lease.
Beat(b) ==
  /\ Done("heartbeat", leases[b] # 0)
  /\ IF leases[b] # 0
     THEN \E at \in {leases'[b]} : at >= leases[b] /\ leases' = [leases EXCEPT ![b] = at]
     ELSE UNCHANGED leases
  /\ UNCHANGED topics

\* A node enters its address.
RegisterMember == Done("register_node", TRUE) /\ UNCHANGED <<topics, leases>>

Tell ==
  /\ \E x \in executed : told' = told \cup {x}
  /\ UNCHANGED <<topics, leases, executed>>

Next ==
  \/ RegisterMember \/ Tell
  \/ \E t \in Topics : Create(t)
  \/ \E b \in Brokers : Register(b) \/ Beat(b)

Spec == executed = {} /\ told = {} /\ [][Next]_vars
=============================================================================
