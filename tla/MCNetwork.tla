------------------------------ MODULE MCNetwork ------------------------------
(***************************************************************************)
(* The TCP server, the audio session and the adaptive sender, each in      *)
(* behaviours of its own: the initial state chooses the one that runs.     *)
(***************************************************************************)
EXTENDS TcpServer, TLC

CONSTANTS
  c1, c2,
  Frames, capacity, interval, delay, LastTime,                             \* of AudioSession
  Confirmations, Headroom, Burst, Window, LossUnits, LossThreshold, Sizes, \* of AdaptiveSender
  Received, MaxPackets, MaxSamples, MaxDrains, MaxTime

VARIABLES
  running,  \* the component that runs
  now, sequence, order, cache, air, nacks, polling, jitter, heard, arrived,
  a_now, samples, loss, level, good, bucket, queues, draining, count, upgraded, allowance, spent, high

\* The last message of c2 is too long for a frame.
MCRequests == (c1 :> <<<<c1>>>>) @@ (c2 :> <<<<>>, <<c2, c2>>>>)

MCModes == {<<"epoll", TRUE>>, <<"epoll", FALSE>>, <<"io_uring", TRUE>>}

\* A NACK that reaches the receiver and a frame that is cut short.
MCStrays == {[type |-> 1, sequence |-> 0, payload_len |-> 0, size |-> 5],
             [type |-> 0, sequence |-> 1, payload_len |-> 1, size |-> 12]}

Audio == INSTANCE AudioSession WITH MaxTime <- LastTime, Strays <- MCStrays
Adaptive == INSTANCE AdaptiveSender WITH Ladder <- <<1, 2, 4>>, now <- a_now

audioVars == <<now, sequence, order, cache, air, nacks, polling, jitter, heard, arrived>>
adaptiveVars == <<a_now, samples, loss, level, good, bucket, queues, draining, count, upgraded,
                  allowance, spent, high>>
allVars == <<running, vars, audioVars, adaptiveVars>>

NetworkInit ==
  /\ running \in {"tcp", "audio", "adaptive"}
  /\ Init /\ (running # "tcp" => loop = "io_uring")
  /\ Audio!Init /\ Adaptive!Init

NetworkNext ==
  /\ UNCHANGED running
  /\ \/ running = "tcp" /\ Next /\ UNCHANGED <<audioVars, adaptiveVars>>
     \/ running = "audio" /\ Audio!Next /\ UNCHANGED <<vars, adaptiveVars>>
     \/ running = "adaptive" /\ Adaptive!Next /\ UNCHANGED <<vars, audioVars>>

\* The fairness of the component that runs.
NetworkFairness ==
  /\ WF_vars(running = "tcp" /\ Server)
  /\ WF_vars(running = "tcp" /\ Completing)
  /\ \A c \in Clients : WF_vars(running = "tcp" /\ Client(c))
  /\ WF_audioVars(running = "audio" /\ Audio!Tick)
  /\ WF_audioVars(running = "audio" /\ Audio!Pull)

NetworkSpec == NetworkInit /\ [][NetworkNext]_allVars /\ NetworkFairness

\* The server notices that a client is gone, and a client that waits for a reply
\* gets one or learns that there is none (TcpServer's GoneNoticed and ReceiveEnds).
ConnectionsProgress == GoneNoticed /\ ReceiveEnds

\* A frame that arrives is heard once or held for its slot, and a lost one is
\* concealed by the last one played (AudioSession!HeardOrHeld and ConcealRepeatsLast).
HeardOrConcealed == Audio!HeardOrHeld /\ Audio!ConcealRepeatsLast

\* A NACK for a recent frame is answered with it (AudioSession!NackAnswered).
NackAnswered == Audio!NackAnswered

\* No loss stops the playout (AudioSession!PlayoutGoesOn).
PlayoutGoesOn == Audio!PlayoutGoesOn

\* No change of level creates tokens, and control packets are outside the budget
\* (AdaptiveSender!SpendingBounded and ControlExempt).
BudgetKept == Adaptive!SpendingBounded /\ Adaptive!ControlExempt

\* The ladder does not oscillate under steady conditions (AdaptiveSender!NoOscillation).
NoOscillation == Adaptive!NoOscillation
=============================================================================
