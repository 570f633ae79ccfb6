----------------------------- MODULE AudioSession ----------------------------
(***************************************************************************)
(* media::AudioSender and AudioReceiver over UDP: the retransmit cache,    *)
(* the jitter buffer and NACKs.  Datagrams are lost, repeated and arrive   *)
(* in any order.  On the receiver one thread polls the socket, with the    *)
(* time it had when it began, and another one pulls frames to play.        *)
(* The payload of a frame is named by the frame's number.                  *)
(***************************************************************************)
EXTENDS Integers, Sequences, FiniteSets

CONSTANTS
  Frames,     \* bound: frames that are sent
  capacity,   \* of the RetransmitCache
  interval,   \* frame_interval_ms_
  delay,      \* target_delay_ms_
  MaxTime,    \* bound: the time
  Strays,     \* datagrams of others that reach either socket
  None

VARIABLES
  now,
  sequence,  \* sequence_ : frames prepared so far
  order,     \* order_ of the RetransmitCache
  cache,     \* cache_ : the numbers of the frames it holds
  air,       \* datagrams on their way to the receiver
  nacks,     \* datagrams on their way to the sender
  polling,   \* the now_ms of the poll_incoming that is running, or None
  jitter,    \* the JitterBuffer
  heard,     \* history: what pull() returned, and whether the frame had not arrived
  arrived    \* history: frames pushed so far

vars == <<now, sequence, order, cache, air, nacks, polling, jitter, heard, arrived>>
sender == <<sequence, order, cache>>

(***************************************************************************)
(* audio_packet                                                            *)
(***************************************************************************)

kHeaderSize == 12

encode_audio_packet(s, len) == [type |-> 0, sequence |-> s, payload_len |-> len, size |-> kHeaderSize + len]
encode_nack(s) == [type |-> 1, sequence |-> s, payload_len |-> 0, size |-> 5]

decode_packet(p) ==
  IF p.type = 1 /\ p.size = 5 THEN "Nack"
  ELSE IF p.type = 0 /\ p.size >= kHeaderSize /\ p.size = kHeaderSize + p.payload_len THEN "Audio"
  ELSE "Malformed"

Packet(s) == encode_audio_packet(s, 1)

(***************************************************************************)
(* AudioSender                                                             *)
(***************************************************************************)

\* Mutant: the oldest packet is dropped when the cache is full, not over-full.
store_Short(s) ==
  LET o == Append(order, s)
      evicted == {o[i] : i \in 1 .. Len(o) - capacity + 1}
  IN  /\ order' = SubSeq(o, Cardinality(evicted) + 1, Len(o))
      /\ cache' = (cache \cup {s}) \ evicted

\* RetransmitCache::store
store(s) ==
  LET o == Append(order, s)
      evicted == {o[i] : i \in 1 .. Len(o) - capacity}
  IN  /\ order' = SubSeq(o, Cardinality(evicted) + 1, Len(o))
      /\ cache' = (cache \cup {s}) \ evicted

\* prepare_frame, then transmit; send_to drops the datagram if the socket is full.
send_frame ==
  /\ sequence < Frames
  /\ store(sequence)
  /\ sequence' = sequence + 1
  /\ air' \in {air, air \cup {Packet(sequence)}}
  /\ UNCHANGED <<now, nacks, polling, jitter, heard, arrived>>

\* One turn of poll_and_handle_nacks; a datagram that stays comes again.
HandleNack(p) ==
  /\ p \in nacks \cup Strays
  /\ nacks' \in {nacks, nacks \ {p}}
  /\ air' = IF decode_packet(p) = "Nack" /\ p.sequence \in cache THEN air \cup {Packet(p.sequence)} ELSE air
  /\ UNCHANGED <<now, sender, polling, jitter, heard, arrived>>

(***************************************************************************)
(* JitterBuffer                                                            *)
(***************************************************************************)

EmptyBuffer == [started |-> FALSE, base_arrival |-> 0, base |-> 0, next |-> 0, buffer |-> {},
                last_good |-> None]

\* Mutant: a frame that comes again for a slot that was played is kept.
push_Kept(s, arrival) ==
  LET j == IF jitter.started THEN jitter
           ELSE [EmptyBuffer EXCEPT !.started = TRUE, !.base_arrival = arrival, !.base = s, !.next = s]
  IN  IF s < j.base THEN j ELSE [j EXCEPT !.buffer = @ \cup {s}]

\* The first frame to arrive sets the base; one before the next slot is dropped.
push(s, arrival) ==
  LET j == IF jitter.started THEN jitter
           ELSE [EmptyBuffer EXCEPT !.started = TRUE, !.base_arrival = arrival, !.base = s, !.next = s]
  IN  IF s < j.next THEN j ELSE [j EXCEPT !.buffer = @ \cup {s}]

Deadline(s) == jitter.base_arrival + delay + (s - jitter.base) * interval

Hear(kind, payload) ==
  heard' = Append(heard, [kind |-> kind, sequence |-> jitter.next, payload |-> payload, at |-> now,
                          missing |-> jitter.next \notin arrived])

\* pull() when the frame is there ...
PullPacket ==
  /\ jitter.started /\ jitter.next \in jitter.buffer
  /\ Hear("Packet", jitter.next)
  /\ jitter' = [jitter EXCEPT !.last_good = jitter.next, !.buffer = @ \ {jitter.next}, !.next = @ + 1]
  /\ UNCHANGED <<now, sender, air, nacks, polling, arrived>>

\* Mutant: a missing frame is waited for.
PullWaits ==
  /\ jitter.started /\ jitter.next \notin jitter.buffer /\ jitter.next < Frames
  /\ UNCHANGED vars

\* ... and when it is not and its time has come; else it returns NotReady.
PullConceals ==
  /\ jitter.started /\ jitter.next \notin jitter.buffer /\ jitter.next < Frames
  /\ now >= Deadline(jitter.next)
  /\ Hear("Concealed", jitter.last_good)
  /\ jitter' = [jitter EXCEPT !.next = @ + 1]
  /\ UNCHANGED <<now, sender, air, nacks, polling, arrived>>

(***************************************************************************)
(* AudioReceiver                                                           *)
(***************************************************************************)

PollStart ==
  /\ polling = None
  /\ polling' = now
  /\ UNCHANGED <<now, sender, air, nacks, jitter, heard, arrived>>

\* One turn of poll_incoming's loop; a datagram that stays comes again.
Receive(p) ==
  /\ polling # None
  /\ p \in air \cup Strays
  /\ air' \in {air, air \ {p}}
  /\ IF decode_packet(p) = "Audio"
     THEN jitter' = push(p.sequence, polling) /\ arrived' = arrived \cup {p.sequence}
     ELSE UNCHANGED <<jitter, arrived>>
  /\ UNCHANGED <<now, sender, nacks, polling, heard>>

PollEnd ==
  /\ polling # None
  /\ polling' = None
  /\ UNCHANGED <<now, sender, air, nacks, jitter, heard, arrived>>

\* The application asks for a frame that is missing before one that arrived.
request_retransmit(s) ==
  /\ jitter.started /\ s >= jitter.next /\ s \notin jitter.buffer
  /\ \E t \in arrived : s < t
  /\ nacks' = nacks \cup {encode_nack(s)}
  /\ UNCHANGED <<now, sender, air, polling, jitter, heard, arrived>>

Tick ==
  /\ now < MaxTime
  /\ now' = now + 1
  /\ UNCHANGED <<sender, air, nacks, polling, jitter, heard, arrived>>

Init ==
  /\ now = 0
  /\ sequence = 0 /\ order = <<>> /\ cache = {}
  /\ air = {} /\ nacks = {}
  /\ polling = None
  /\ jitter = EmptyBuffer
  /\ heard = <<>> /\ arrived = {}

\* Time passes and the player keeps pulling: MCNetwork states this fairness.
Pull == PullPacket \/ PullConceals

Next ==
  \/ send_frame
  \/ \E p \in nacks \cup Strays : HandleNack(p)
  \/ PollStart \/ PollEnd
  \/ \E p \in air \cup Strays : Receive(p)
  \/ Pull
  \/ \E s \in 0 .. Frames - 1 : request_retransmit(s)
  \/ Tick

Spec == Init /\ [][Next]_vars

(***************************************************************************)
(* Properties                                                              *)
(***************************************************************************)

\* A frame that arrives is heard once or still held for its slot, unless its
\* slot had passed or it is older than the first one that came; only a frame
\* that was missing when its time came is concealed.
HeardOrHeld ==
  /\ \A s \in arrived : s >= jitter.base =>
       (s \in jitter.buffer) # (\E i \in DOMAIN heard : heard[i].sequence = s)
  /\ \A i \in DOMAIN heard : heard[i].kind = "Concealed" =>
       heard[i].missing /\ heard[i].at >= Deadline(heard[i].sequence)

\* What conceals a frame is the last frame that was really played.
ConcealRepeatsLast ==
  \A i \in DOMAIN heard : heard[i].kind = "Concealed" =>
    LET good == {k \in 1 .. i - 1 : heard[k].kind = "Packet"}
    IN  heard[i].payload = IF good = {} THEN None
                           ELSE heard[CHOOSE k \in good : \A l \in good : l <= k].sequence

\* A NACK for one of the last capacity frames is answered with that frame.
NackAnswered ==
  [][\A p \in nacks : HandleNack(p) /\ p.sequence >= sequence - capacity => Packet(p.sequence) \in air']_vars

\* Once the first frame is there every slot that falls into the time considered
\* is played or concealed: no loss stops the playout.
PlayoutGoesOn == (jitter.started /\ Deadline(Frames - 1) <= MaxTime) ~> (jitter.next >= Frames)
=============================================================================
