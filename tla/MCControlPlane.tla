--------------------------- MODULE MCControlPlane ----------------------------
EXTENDS ControlPlane, TLC

CONSTANTS n1, n2, n3, b1, b2, u1, u2, p1, p2

MCUsers == (b1 :> u1) @@ (b2 :> u2)
MCPools == (b1 :> p1) @@ (b2 :> p2)
MCEndpoints == <<n1, n2>>
MCSkew == (n1 :> 1) @@ (n2 :> 0) @@ (n3 :> 0)
MCPrelude ==
  << [id |-> <<n1, "self", 9>>, cmd |-> RegisterNodeCmd(n1)],
     [id |-> <<n2, "self", 9>>, cmd |-> RegisterNodeCmd(n2)],
     [id |-> <<u1, -2>>, cmd |-> [RegisterBrokerCmd(b1) EXCEPT !.at = 1]],
     [id |-> <<u1, -1>>, cmd |-> IncrementCounterCmd] >>

MCReplay[i \in 0 .. Len(MCPrelude)] ==
  IF i = 0 THEN Result(Empty, TRUE, 0) ELSE Apply(MCReplay[i - 1].state, MCPrelude[i].cmd, 0)
MCRecorded == [i \in 1 .. Len(MCPrelude) |-> MCReplay[i]]

Scenario(c, e, r, t) ==
  [attempts |-> c @@ [x \in Threads |-> 0], elections |-> e, restarts |-> r, time |-> t]

\* Two brokers create the topic; a broker heartbeats over a change of leader; one
\* that the control plane has forgotten does; a broker or a node restarts; two
\* changes of leader; a node joins.
MCScenarios ==
  { Scenario((u1 :> 2) @@ (u2 :> 1), 1, 0, 2),
    Scenario((p1 :> 2), 1, 0, 1),
    Scenario((p2 :> 3), 1, 0, 2),
    Scenario((u1 :> 2), 1, 1, 2),
    Scenario((u1 :> 2), 2, 0, 2),
    Scenario((n3 :> 2), 1, 1, 2) }
=============================================================================
