-------------------------- MODULE TcpServerProofs ---------------------------
(***************************************************************************)
(* The steps that read requests and send replies keep the invariant of     *)
(* TcpServerInvariant, and what follows from it: each property of          *)
(* TcpServer for every number of clients and descriptors, every sequence   *)
(* of requests, every size of the socket buffers and every way the kernel  *)
(* cuts the streams.                                                       *)
(***************************************************************************)
EXTENDS TcpServerInvariant

USE TcpAssumption, SMTT(30), ZenonT(30), SMTT(60)

(***************************************************************************)
(* Reading keeps the invariant                                             *)
(***************************************************************************)

\* A step that neither begins nor ends a connection.
LEMMA TablesSame ==
  ASSUME TcpInv, UNCHANGED <<client, backlog, fds, callbacks, life>>, DOMAIN connections' = DOMAIN connections,
         at.pc # "destroyed", at'.pc \in Serving => at'.fd \in DOMAIN connections,
         \A r \in todo' : r.fd \in DOMAIN connections
  PROVE  Tables'
  <1>1. Tables BY Zenon DEF TcpInv
  <1> QED BY <1>1, ZenonT(60) DEF Tables

\* The connection that the thread has in hand.
LEMMA Served ==
  ASSUME TcpInv, at.pc \in Serving
  PROVE  \E c \in Clients, D \in Seq(Octets) :
           /\ c = fds[at.fd] /\ D = connections[at.fd] /\ at.fd \in Fds /\ at.fd \in DOMAIN connections
           /\ Stream(c, D) /\ life[c] = "up" /\ \A f \in Fds : fds[f] = c => f = at.fd
  <1>1. TableType /\ Tables /\ Streams BY Zenon DEF TcpInv
  <1>2. at.fd \in DOMAIN connections BY <1>1, Zenon DEF Tables
  <1>3. /\ at.fd \in Fds /\ fds[at.fd] \in Clients /\ fds[at.fd] # None
        /\ connections[at.fd] \in Seq(Octets)
    BY <1>1, <1>2, Held, Zenon
  <1>4. PICK c \in Clients : c = fds[at.fd] BY <1>3, Zenon
  <1>5. PICK D \in Seq(Octets) : D = connections[at.fd] BY <1>3, Zenon
  <1>6. Stream(c, D) BY <1>1, <1>3, <1>4, <1>5, Zenon DEF Streams
  <1>7. life[c] = "up" BY <1>1, <1>3, <1>4, Zenon DEF Tables
  <1>8. \A f \in Fds : fds[f] = c => f = at.fd
    <2>1. \A f, g \in Fds : fds[f] = fds[g] /\ fds[f] # None => f = g BY <1>1, Zenon DEF Tables
    <2> QED BY <1>3, <1>4, <2>1, Zenon
  <1> WITNESS c \in Clients, D \in Seq(Octets)
  <1> QED BY <1>2, <1>3, <1>4, <1>5, <1>6, <1>7, <1>8, Zenon

\* A step on the stream of the connection in hand, after which its decoder holds E:
\* the streams of the others stay.
LEMMA StreamsStep ==
  ASSUME TcpInv, at.pc \in Serving, UNCHANGED <<client, fds, life>>, NEW c \in Clients, c = fds[at.fd],
         \A d \in Clients \ {c} : wire'[d].up = wire[d].up /\ got'[d] = got[d],
         \A f \in DOMAIN connections \ {at.fd} : connections'[f] = connections[f],
         NEW E, connections'[at.fd] = E, Stream(c, E)'
  PROVE  Streams'
  <1>1. Tables /\ Streams BY Zenon DEF TcpInv
  <1>2. life[c] = "up" /\ \A f \in Fds : fds[f] = c => f = at.fd BY Served, Zenon
  <1>3. ASSUME NEW d \in Clients, d # c, NEW g, Stream(d, g) PROVE Stream(d, g)'
    <2>1. /\ wire'[d].up = wire[d].up /\ got'[d] = got[d] /\ client'[d].sent = client[d].sent
          /\ client'[d].out = client[d].out /\ (client'[d].pc = "gone" <=> client[d].pc = "gone")
      BY <1>3, Zenon
    <2> QED BY <1>3, <2>1, StreamKept, Zenon
  <1>4. ASSUME NEW d \in Clients, NEW f \in Fds, fds'[f] = d PROVE Stream(d, connections[f])'
    <2>1. CASE d = c
      <3>1. f = at.fd BY <1>2, <1>4, <2>1, Zenon
      <3>2. connections'[f] = E BY <3>1, Zenon
      <3> QED BY <2>1, <3>2, Zenon DEF Stream
    <2>2. CASE d # c
      <3>1. fds[f] = d /\ f # at.fd BY <1>4, <2>2, Zenon
      <3>2. f \in DOMAIN connections BY <1>1, <3>1, Zenon DEF Tables
      <3>3. PICK g : g = connections[f] BY Zenon
      <3>4. Stream(d, g) BY <1>1, <3>1, <3>3, Zenon DEF Streams
      <3>5. Stream(d, g)' BY <1>3, <2>2, <3>4, Zenon
      <3>6. connections'[f] = g BY <3>1, <3>2, <3>3, Zenon
      <3> QED BY <3>5, <3>6, Zenon DEF Stream
    <2> QED BY <2>1, <2>2, Zenon
  <1>5. ASSUME NEW d \in Clients, life'[d] = "none" PROVE Stream(d, <<>>)'
    <2>1. life[d] = "none" /\ d # c BY <1>2, <1>5, Zenon
    <2>2. Stream(d, <<>>) BY <1>1, <2>1, Zenon DEF Streams
    <2> QED BY <1>3, <2>1, <2>2, Zenon
  <1> QED BY <1>4, <1>5, Zenon DEF Streams

\* A step of the thread that takes no event.
LEMMA EpollStep ==
  ASSUME TcpInv, UNCHANGED <<loop, polls, events, fds, callbacks>>,
         at'.pc \in Serving => at.pc \in Serving /\ at'.fd = at.fd,
         at'.pc \in {"idle", "push"} => at.pc \in {"idle", "push"},
         \A c \in Clients : wire[c].peer = "reset" => wire'[c].peer = "reset"
  PROVE  Epoll'
  <1>1. TableType /\ Tables /\ Epoll BY Zenon DEF TcpInv
  <1>2. SUFFICES ASSUME loop = "epoll" PROVE Epoll' BY Zenon DEF Epoll
  <1>3. /\ polls = {} /\ (at'.pc \in {"idle", "push"} => events = {})
        /\ \A e, f \in events : e.fd = f.fd => e = f
    BY <1>1, <1>2, Zenon DEF Epoll
  <1>4. ASSUME NEW e \in events
        PROVE  /\ e.fd \in callbacks /\ (e.hup => e.fd # Listener /\ wire'[fds[e.fd]].peer = "reset")
               /\ at'.pc \in Serving => e.fd # at'.fd
    <2>1. /\ e.fd \in callbacks /\ (e.hup => e.fd # Listener /\ wire[fds[e.fd]].peer = "reset")
          /\ at.pc \in Serving => e.fd # at.fd
      BY <1>1, <1>2, Zenon DEF Epoll
    <2>2. ASSUME e.hup PROVE wire'[fds[e.fd]].peer = "reset"
      <3>1. e.fd \in DOMAIN connections BY <1>1, <2>1, <2>2, Zenon DEF Tables
      <3>2. fds[e.fd] \in Clients BY <1>1, <3>1, Held, Zenon
      <3> QED BY <2>1, <2>2, <3>2, Zenon
    <2> QED BY <2>1, <2>2, Zenon
  <1> QED BY <1>2, <1>3, <1>4, Zenon DEF Epoll

\* recv() in handle_readable moves bytes from the socket to the decoder, in order.
LEMMA RecvSomeKeeps ==
  ASSUME TcpInv, RecvSome
  PROVE  TcpInv'
  <1>1. /\ PeerType /\ TableType /\ ThreadType /\ Tables /\ Heard /\ Answers
        /\ at.pc = "recv"
        /\ UNCHANGED <<loop, client, backlog, fds, callbacks, life, polls, events, todo, got>>
    BY Zenon DEF RecvSome, fixed, TcpInv
  <1>2. PICK c \in Clients, a, b \in Seq(Octets) :
          /\ at.fd \in DOMAIN connections /\ c = fds[at.fd] /\ a \o b = wire[c].up
          /\ wire' \in [Clients -> WireState]
          /\ wire'[c].up = b /\ wire'[c].down = wire[c].down /\ wire'[c].peer = wire[c].peer
          /\ \A d \in Clients \ {c} : wire'[d] = wire[d]
          /\ connections' \in [DOMAIN connections' -> Seq(Octets)] /\ DOMAIN connections' = DOMAIN connections
          /\ connections'[at.fd] = connections[at.fd] \o a
          /\ \A f \in DOMAIN connections \ {at.fd} : connections'[f] = connections[f]
          /\ at' \in ThreadState /\ at'.pc = "extract" /\ at'.fd = at.fd
    BY <1>1, RecvSomeEffect, Zenon
  <1>3. at.pc \in Serving /\ at.pc \notin Sending /\ at'.pc \notin Sending /\ at'.pc \notin {"idle", "push"}
    BY <1>1, <1>2, Zenon DEF Serving, Sending
  <1>4. PeerType' BY <1>1, <1>2, Zenon DEF PeerType
  <1>5. TableType' BY <1>1, <1>2, Zenon DEF TableType
  <1>6. ThreadType' BY <1>1, <1>2, Zenon DEF ThreadType
  <1>7. Tables'
    <2>1. \A r \in todo' : r.fd \in DOMAIN connections BY <1>1, Zenon DEF Tables
    <2>2. at.pc # "destroyed" /\ at'.fd \in DOMAIN connections BY <1>1, <1>2, Zenon
    <2> QED BY <1>1, <1>2, <2>1, <2>2, TablesSame, Zenon
  <1>8. Streams'
    <2>1. PICK D \in Seq(Octets) : D = connections[at.fd] /\ Stream(c, D) BY <1>2, <1>3, Served, Zenon
    <2>2. PICK E \in Seq(Octets) : E = D \o a BY Joins, Zenon
    <2>3. PICK o \in Seq(Octets) : o = client[c].out BY <1>1, PeerFields, Zenon
    <2>4. E \o (b \o o) = D \o ((a \o b) \o o)
      <3>1. PICK x \in Seq(Octets) : x = b \o o BY Joins, Zenon
      <3>2. (D \o a) \o x = D \o (a \o x)
        <4>1. Assoc(D, a, x) BY Associates, Zenon
        <4> QED BY <4>1, Zenon DEF Assoc
      <3>3. (a \o b) \o o = a \o (b \o o)
        <4>1. Assoc(a, b, o) BY Associates, Zenon
        <4> QED BY <4>1, Zenon DEF Assoc
      <3> QED BY <2>2, <3>1, <3>2, <3>3, Zenon
    <2>5. Reads(c, client[c].sent, Len(got[c]), D \o (wire[c].up \o client[c].out), client[c].pc # "gone")
      BY <2>1, Zenon DEF Stream
    <2>6. E \o (wire'[c].up \o client'[c].out) = D \o (wire[c].up \o client[c].out)
      BY <1>1, <1>2, <2>3, <2>4, Zenon
    <2>7. Stream(c, E)' BY <1>1, <2>5, <2>6, Zenon DEF Stream
    <2>8. \A d \in Clients \ {c} : wire'[d].up = wire[d].up /\ got'[d] = got[d] BY <1>1, <1>2, Zenon
    <2>9. connections'[at.fd] = E BY <1>2, <2>1, <2>2, Zenon
    <2> QED BY <1>1, <1>2, <1>3, <2>7, <2>8, <2>9, StreamsStep, Zenon
  <1>9. Heard' BY <1>1, Zenon DEF Heard
  <1>10. Answers'
    <2>1. ASSUME NEW d \in Clients PROVE Answer(d)'
      <3>1. wire'[d].peer = wire[d].peer /\ wire'[d].down = wire[d].down BY <1>2, Zenon
      <3>2. Pending(d)' = Pending(d) BY <1>3, Zenon DEF Pending
      <3>3. Owed(d)' = Owed(d) BY <1>1, Zenon DEF Owed
      <3>4. Answer(d) BY <1>1, Zenon DEF Answers
      <3> QED BY <1>1, <3>1, <3>2, <3>3, <3>4, AnswerKept, Zenon
    <2> QED BY <2>1, Zenon DEF Answers
  <1>11. Epoll'
    <2>1. \A d \in Clients : wire[d].peer = "reset" => wire'[d].peer = "reset" BY <1>2, Zenon
    <2> QED BY <1>1, <1>2, <1>3, <2>1, EpollStep, Zenon
  <1> QED BY <1>4, <1>5, <1>6, <1>7, <1>8, <1>9, <1>10, <1>11, Zenon DEF TcpInv

(***************************************************************************)
(* Handing a frame to on_message keeps the invariant                       *)
(***************************************************************************)

\* What try_extract finds in the decoder in hand: it is the next request.
LEMMA Found ==
  ASSUME TcpInv, at.pc = "extract"
  PROVE  \E c \in Clients, D \in Seq(Octets), k \in Nat :
           /\ c = fds[at.fd] /\ D = connections[at.fd] /\ k = Len(got[c])
           /\ try_extract(D).kind \in {"nullopt", "frame", "throw"}
           /\ try_extract(D).kind = "throw" =>
                /\ k + 1 \in 1 .. Len(Requests[c])
                /\ Len(Requests[c][k + 1]) > kMaxFrameSize
           /\ try_extract(D).kind = "frame" =>
                /\ k + 1 \in 1 .. Len(Requests[c]) /\ k < client[c].sent
                /\ try_extract(D).payload = Requests[c][k + 1] /\ Requests[c][k + 1] \in Seq(PayloadBytes)
                /\ try_extract(D).rest \in Seq(Octets)
                /\ Reads(c, client[c].sent, k + 1, try_extract(D).rest \o (wire[c].up \o client[c].out),
                         client[c].pc # "gone")
  <1>1. PeerType /\ ThreadType BY Zenon DEF TcpInv
  <1>2. at.pc \in Serving BY Zenon DEF Serving
  <1>3. PICK c \in Clients, D \in Seq(Octets) : c = fds[at.fd] /\ D = connections[at.fd] /\ Stream(c, D)
    BY <1>2, Served, Zenon
  <1>4. got[c] \in Seq(Seq(PayloadBytes)) BY <1>1, Zenon DEF ThreadType
  <1>5. PICK k \in Nat : k = Len(got[c]) BY <1>4, LenProperties
  <1>6. PICK n \in Nat : n = client[c].sent BY <1>1, PeerFields, Zenon
  <1>7. PICK X \in Seq(Octets) : X = wire[c].up \o client[c].out
    <2>1. PICK u, o \in Seq(Octets) : u = wire[c].up /\ o = client[c].out BY <1>1, PeerFields, Zenon
    <2>2. u \o o \in Seq(Octets) BY Joins, Zenon
    <2> QED BY <2>1, <2>2, Zenon
  <1>8. PICK a \in BOOLEAN : a = (client[c].pc # "gone") BY Zenon
  <1>9. Reads(c, n, k, D \o X, a) BY <1>3, <1>5, <1>6, <1>7, <1>8, Zenon DEF Stream
  <1>10. PICK r : r = try_extract(D) BY Zenon
  <1>11. /\ r.kind \in {"nullopt", "frame", "throw"}
         /\ r.kind = "throw" => k < n /\ Len(Requests[c][k + 1]) > kMaxFrameSize
         /\ r.kind = "frame" => /\ k < n /\ n <= Len(Requests[c])
                                /\ r.payload = Requests[c][k + 1]
                                /\ r.rest \in Seq(Octets)
                                /\ Reads(c, n, k + 1, r.rest \o X, a)
    <2>1. LET s == try_extract(D) IN
          /\ s.kind \in {"nullopt", "frame", "throw"}
          /\ s.kind = "throw" => k < n /\ Len(Requests[c][k + 1]) > kMaxFrameSize
          /\ s.kind = "frame" => /\ k < n /\ n <= Len(Requests[c])
                                 /\ s.payload = Requests[c][k + 1]
                                 /\ s.rest \in Seq(Octets)
                                 /\ Reads(c, n, k + 1, s.rest \o X, a)
      BY <1>9, ReadsFrame
    <2> QED BY <1>10, <2>1, Zenon
  <1>12. n <= Len(Requests[c]) BY <1>9, ReadsBounds
  <1>13. k < n => k + 1 \in 1 .. Len(Requests[c]) /\ Requests[c][k + 1] \in Seq(PayloadBytes) BY <1>12
  <1> WITNESS c \in Clients, D \in Seq(Octets), k \in Nat
  <1>14. r.kind = "throw" => k + 1 \in 1 .. Len(Requests[c]) /\ Len(Requests[c][k + 1]) > kMaxFrameSize
    BY <1>11, <1>13, Zenon
  <1>15. r.kind = "frame" =>
           /\ k + 1 \in 1 .. Len(Requests[c]) /\ k < client[c].sent
           /\ r.payload = Requests[c][k + 1] /\ Requests[c][k + 1] \in Seq(PayloadBytes)
           /\ r.rest \in Seq(Octets)
           /\ Reads(c, client[c].sent, k + 1, r.rest \o (wire[c].up \o client[c].out), client[c].pc # "gone")
    BY <1>6, <1>7, <1>8, <1>11, <1>13, Zenon
  <1>16. r.kind \in {"nullopt", "frame", "throw"} BY <1>11, Zenon
  <1> QED BY <1>3, <1>5, <1>10, <1>14, <1>15, <1>16, Zenon

\* When a request of c is found that expects an answer, c waits and nothing is on
\* its way to it: the request is the last one it has sent.
LEMMA FoundWaits ==
  ASSUME TcpInv, at.pc = "extract", NEW c \in Clients, c \notin OneWay, client[c].pc # "gone",
         NEW k \in Nat, k = Len(got[c]), k < client[c].sent, NEW R \in Seq(Octets),
         Reads(c, client[c].sent, k + 1, R \o (wire[c].up \o client[c].out), client[c].pc # "gone")
  PROVE  /\ client[c].pc = "receive" /\ client[c].sent = k + 1 /\ Len(client[c].replies) + 1 = k + 1
         /\ client[c].buf = <<>> /\ wire[c].down = <<>> /\ Owed(c) = {}
  <1>1. PeerType /\ ThreadType /\ Answer(c) BY Zenon DEF TcpInv, Answers
  <1>2. PICK n \in Nat : n = client[c].sent BY <1>1, PeerFields, Zenon
  <1>3. PICK p, O : p = Pending(c) /\ O = Owed(c) BY Zenon
  <1>4. p = <<>> BY <1>3, Zenon DEF Pending, Sending
  <1>5. PICK B, D, u, o \in Seq(Octets) :
          B = client[c].buf /\ D = wire[c].down /\ u = wire[c].up /\ o = client[c].out
    BY <1>1, PeerFields, Zenon
  <1>6. /\ Conversation(c, client[c], wire[c].peer, D, k, p, O)
        /\ Exchange(c, client[c], k, (B \o D) \o p, O)
    <2>1. Conversation(c, client[c], wire[c].peer, D, k, p, O) BY <1>1, <1>3, <1>5, Zenon DEF Answer
    <2> QED BY <1>5, <2>1, Zenon DEF Conversation
  <1>7. k # n BY <1>2
  <1>8. client[c].pc \in {"send", "receive"}
    <2>1. client[c].pc \notin {"off", "idle"} BY <1>2, <1>6, <1>7, Zenon DEF Exchange
    <2>2. client[c].pc \in ClientPcs BY <1>1, PeerFields, Zenon
    <2> QED BY <2>1, <2>2, Zenon DEF ClientPcs
  <1>9. n = k + 1 BY <1>2, <1>6, <1>7, <1>8, Zenon DEF Exchange
  <1>10. client[c].pc # "send"
    <2>1. PICK X \in Seq(Octets) : X = u \o o BY Joins, Zenon
    <2>2. PICK P \in Seq(Octets) : P = R \o X BY Joins, Zenon
    <2>3. (client[c].pc # "gone") = TRUE BY Zenon
    <2>4. Reads(c, n, n, P, TRUE) BY <1>2, <1>5, <1>9, <2>1, <2>2, <2>3, Zenon
    <2>5. P = <<>> BY <2>4, ReadsAll, Zenon
    <2>6. (R \o u) \o o = <<>>
      <3>1. (R \o u) \o o = R \o (u \o o)
        <4>1. Assoc(R, u, o) BY Associates, Zenon
        <4> QED BY <4>1, Zenon DEF Assoc
      <3> QED BY <2>1, <2>2, <2>5, <3>1, Zenon
    <2>7. o = <<>> BY <2>6, ConcatNil
    <2> QED BY <1>5, <1>6, <2>7, Zenon DEF Conversation
  <1>11. client[c].pc = "receive" /\ Len(client[c].replies) + 1 = n
    BY <1>2, <1>6, <1>8, <1>10, Zenon DEF Exchange
  <1>12. (B \o D) \o p = <<>> /\ O = {} BY <1>2, <1>6, <1>7, Zenon DEF Exchange
  <1>13. B = <<>> /\ D = <<>>
    <2>1. p \in Seq(Octets) BY <1>1, <1>3, PendingType, Zenon
    <2> QED BY <1>12, <2>1, ConcatNil
  <1> QED BY <1>2, <1>3, <1>5, <1>9, <1>11, <1>12, <1>13, Zenon

\* on_message is given the next request, and its reply is sent or left for later.
LEMMA FrameKeeps ==
  ASSUME TcpInv, at.pc = "extract", NEW c \in Clients, c = fds[at.fd], NEW k \in Nat, k = Len(got[c]),
         NEW q \in Seq(PayloadBytes), q = Requests[c][k + 1], k + 1 \in 1 .. Len(Requests[c]), k < client[c].sent,
         NEW R \in Seq(Octets),
         Reads(c, client[c].sent, k + 1, R \o (wire[c].up \o client[c].out), client[c].pc # "gone"),
         connections' = [connections EXCEPT ![at.fd] = R], got' = [got EXCEPT ![c] = Append(@, q)],
         UNCHANGED <<loop, client, wire, backlog, fds, callbacks, life, polls, events>>,
         IF c \in OneWay THEN UNCHANGED <<at, todo>>
         ELSE IF deferred THEN todo' = todo \cup {[fd |-> at.fd, payload |-> q]} /\ UNCHANGED at
         ELSE at' = [at EXCEPT !.pc = "reply", !.out = encode_frame(q)] /\ UNCHANGED todo
  PROVE  TcpInv'
  <1>1. PeerType /\ TableType /\ ThreadType /\ Tables /\ Streams /\ Heard /\ Answers BY Zenon DEF TcpInv
  <1>2. at.pc \in Serving /\ at.pc \notin Sending BY Zenon DEF Serving, Sending
  <1>3. at.fd \in DOMAIN connections /\ at.fd \in Fds BY <1>2, Served, Zenon
  <1>4. /\ connections' \in [DOMAIN connections' -> Seq(Octets)] /\ DOMAIN connections' = DOMAIN connections
        /\ connections'[at.fd] = R
        /\ \A f \in DOMAIN connections \ {at.fd} : connections'[f] = connections[f]
        /\ got' \in [Clients -> Seq(Seq(PayloadBytes))] /\ got'[c] = Append(got[c], q)
        /\ \A d \in Clients \ {c} : got'[d] = got[d]
    BY <1>1, <1>3, FrameEffect, Zenon
  <1>5. PICK g \in Seq(Seq(PayloadBytes)) : g = got[c] /\ Len(g) = k BY <1>1, Zenon DEF ThreadType
  <1>6. PICK h \in Seq(Seq(PayloadBytes)) : h = Append(g, q) /\ Len(h) = k + 1
    <2>1. Append(g, q) \in Seq(Seq(PayloadBytes)) /\ Len(Append(g, q)) = Len(g) + 1 BY Appends, Zenon
    <2> QED BY <1>5, <2>1, Zenon
  <1>7. got'[c] = h BY <1>4, <1>5, <1>6, Zenon
  <1>8. PICK F \in Seq(Octets) : F = encode_frame(q) BY FrameShape, Zenon
  \* What the thread does with the request.
  <1>9. /\ at' \in ThreadState /\ at'.fd = at.fd /\ at'.pc \in {"extract", "reply"}
        /\ at'.pc = "reply" => at'.out = F /\ c \notin OneWay /\ todo' = todo
    <2>1. at \in ThreadState BY <1>1, Zenon DEF ThreadType
    <2>2. CASE at' = at BY <2>1, <2>2, Zenon
    <2>3. CASE at' # at
      <3>1. c \notin OneWay /\ at' = [at EXCEPT !.pc = "reply", !.out = F] /\ todo' = todo
        BY <1>8, <2>3, Zenon
      <3>2. at' \in ThreadState /\ at'.pc = "reply" /\ at'.fd = at.fd /\ at'.out = F
        BY <2>1, <3>1, Zenon DEF ThreadState, ThreadPcs
      <3> QED BY <3>1, <3>2, Zenon
    <2> QED BY <2>2, <2>3, Zenon
  <1>10. PICK m : m = [fd |-> at.fd, payload |-> q] BY Zenon
  <1>11. m \in Replies /\ m.fd = at.fd /\ m.payload = q
    <2>1. m.fd = at.fd /\ m.payload = q BY <1>10, Zenon
    <2> QED BY <1>3, <1>10, <2>1, Zenon DEF Replies
  <1>12. \/ todo' = todo
         \/ todo' = todo \cup {m} /\ c \notin OneWay /\ at' = at
    BY <1>10, Zenon
  <1>13. PeerType' /\ TableType' BY <1>1, <1>4, Zenon DEF PeerType, TableType
  <1>14. ThreadType'
    <2>1. todo \subseteq Replies BY <1>1, Zenon DEF ThreadType
    <2>2. todo' \subseteq Replies BY <1>11, <1>12, <2>1, Zenon
    <2> QED BY <1>4, <1>9, <2>2, Zenon DEF ThreadType
  <1>15. Tables'
    <2>1. \A r \in todo : r.fd \in DOMAIN connections BY <1>1, Zenon DEF Tables
    <2>2. \A r \in todo' : r.fd \in DOMAIN connections BY <1>3, <1>11, <1>12, <2>1, Zenon
    <2>3. at.pc # "destroyed" /\ at'.fd \in DOMAIN connections BY <1>3, <1>9, Zenon
    <2> QED BY <1>4, <2>2, <2>3, TablesSame, Zenon
  <1>16. Streams'
    <2>1. Len(got'[c]) = k + 1 BY <1>6, <1>7, Zenon
    <2>2. Stream(c, R)' BY <2>1, Zenon DEF Stream
    <2>3. \A d \in Clients \ {c} : wire'[d].up = wire[d].up /\ got'[d] = got[d] BY <1>4, Zenon
    <2> QED BY <1>2, <1>4, <2>2, <2>3, StreamsStep, Zenon
  <1>17. Heard'
    <2>1. Begins(g, Requests[c]) BY <1>1, <1>5, Zenon DEF Heard
    <2>2. Begins(h, Requests[c]) BY <1>5, <1>6, <2>1, BeginsMore, Zenon
    <2>3. \A d \in Clients : d # c => Begins(got'[d], Requests[d]) BY <1>1, <1>4, Zenon DEF Heard
    <2> QED BY <1>7, <2>2, <2>3, Zenon DEF Heard
  <1>18. ASSUME NEW d \in Clients, d # c PROVE Answer(d)'
    <2>1. fds[at.fd] # d BY <1>18, Zenon
    <2>2. Pending(d)' = Pending(d) BY <1>2, <1>9, <2>1, Zenon DEF Pending
    <2>3. Owed(d)' \subseteq Owed(d) BY <1>11, <1>12, <2>1, Zenon DEF Owed
    <2>4. Answer(d) BY <1>1, Zenon DEF Answers
    <2>5. got'[d] = got[d] BY <1>4, <1>18, Zenon
    <2> QED BY <2>2, <2>3, <2>4, <2>5, AnswerKept, Zenon
  <1>19. Answer(c)'
    <2>1. PICK p, O, P, w : p = Pending(c)' /\ O = Owed(c) /\ P = Owed(c)' /\ w = wire[c].down BY Zenon
    <2>2. Pending(c) = <<>> BY <1>2, Zenon DEF Pending
    <2>3. Conversation(c, client[c], wire[c].peer, w, k, <<>>, O)
      BY <1>1, <2>1, <2>2, Zenon DEF Answers, Answer
    <2>4. P \subseteq O \cup {m} /\ (P \subseteq O \/ at' = at) /\ (c \in OneWay => P \subseteq O)
      BY <1>12, <2>1, Zenon DEF Owed
    <2>5. p = <<>> \/ (p = F /\ c \notin OneWay /\ P \subseteq O)
      <3>1. CASE at'.pc = "reply"
        <4>1. p = F BY <1>9, <2>1, <3>1, Zenon DEF Pending, Sending
        <4>2. P \subseteq O BY <1>9, <2>1, <3>1, Zenon DEF Owed
        <4> QED BY <1>9, <3>1, <4>1, <4>2, Zenon
      <3>2. CASE at'.pc # "reply"
        <4>1. at'.pc = "extract" BY <1>9, <3>2, Zenon
        <4> QED BY <2>1, <4>1, Zenon DEF Pending, Sending
      <3> QED BY <3>1, <3>2, Zenon
    <2>6. c \notin OneWay /\ client[c].pc # "gone" => Exchange(c, client[c], k + 1, (client[c].buf \o w) \o p, P)
      <3>1. SUFFICES ASSUME c \notin OneWay, client[c].pc # "gone"
                     PROVE  Exchange(c, client[c], k + 1, (client[c].buf \o w) \o p, P)
        BY Zenon
      <3>2. /\ client[c].pc = "receive" /\ client[c].sent = k + 1 /\ Len(client[c].replies) + 1 = k + 1
            /\ client[c].buf = <<>> /\ w = <<>> /\ O = {}
        BY <2>1, <3>1, FoundWaits, Zenon
      <3>3. (<<>> \o <<>>) \o <<>> = <<>> /\ (<<>> \o <<>>) \o F = F
        <4>1. <<>> \o <<>> = <<>> BY Nothing, Zenon
        <4>2. <<>> \o F = F BY Concat, Zenon
        <4> QED BY <4>1, <4>2, Zenon
      <3>4. (client[c].buf \o w) \o p = p BY <2>5, <3>2, <3>3, Zenon
      <3>5. Begins(p, F)
        <4>1. Begins(<<>>, F) BY BeginsWith, Zenon
        <4>2. Begins(F, F) BY BeginsItself, Zenon
        <4> QED BY <2>5, <4>1, <4>2, Zenon
      <3>6. \A r \in P : r.payload = q /\ p = <<>>
        <4>1. P \subseteq {m} /\ (P = {} \/ p = <<>>) BY <2>4, <2>5, <3>2, Zenon
        <4> QED BY <1>11, <4>1, Zenon
      <3> QED BY <1>8, <3>2, <3>4, <3>5, <3>6, Zenon DEF Exchange
    <2>7. Conversation(c, client[c], wire[c].peer, w, k + 1, p, P)
      BY <2>3, <2>4, <2>5, <2>6, Zenon DEF Conversation
    <2>8. Len(got'[c]) = k + 1 BY <1>6, <1>7, Zenon
    <2> QED BY <2>1, <2>7, <2>8, Zenon DEF Answer
  <1>20. Answers' BY <1>18, <1>19, Zenon DEF Answers
  <1>21. Epoll'
    <2>1. \A d \in Clients : wire[d].peer = "reset" => wire'[d].peer = "reset" BY Zenon
    <2>2. at'.pc \notin {"idle", "push"} BY <1>9, Zenon
    <2> QED BY <1>2, <1>9, <2>1, <2>2, EpollStep, Zenon
  <1> QED BY <1>13, <1>14, <1>15, <1>16, <1>17, <1>20, <1>21, Zenon DEF TcpInv

\* One turn of handle_readable over its decoder keeps the invariant.
LEMMA ExtractKeeps ==
  ASSUME TcpInv, Extract
  PROVE  TcpInv'
  <1>1. /\ at.pc = "extract" /\ ThreadType
        /\ UNCHANGED <<loop, client, backlog, polls, events>>
    BY Zenon DEF Extract, fixed, TcpInv
  <1>2. at.pc \in Serving /\ at.pc \notin Sending BY <1>1, Zenon DEF Serving, Sending
  <1>3. PICK c \in Clients, D \in Seq(Octets), k \in Nat :
          /\ c = fds[at.fd] /\ D = connections[at.fd] /\ k = Len(got[c])
          /\ try_extract(D).kind = "frame" =>
               /\ k + 1 \in 1 .. Len(Requests[c]) /\ k < client[c].sent
               /\ try_extract(D).payload = Requests[c][k + 1] /\ Requests[c][k + 1] \in Seq(PayloadBytes)
               /\ try_extract(D).rest \in Seq(Octets)
               /\ Reads(c, client[c].sent, k + 1, try_extract(D).rest \o (wire[c].up \o client[c].out),
                        client[c].pc # "gone")
    BY <1>1, Found, Zenon
  <1>4. PICK r : r = try_extract(D) BY Zenon
  <1>5. \/ /\ at' = [at EXCEPT !.pc = "recv"]
           /\ UNCHANGED <<wire, tables, todo, got>>
        \/ /\ Disconnect(at.fd)
           /\ at' = [Idle EXCEPT !.pc = "dispatch"]
           /\ UNCHANGED got
        \/ /\ r.kind = "frame"
           /\ connections' = [connections EXCEPT ![at.fd] = r.rest]
           /\ got' = [got EXCEPT ![c] = Append(@, r.payload)]
           /\ IF c \in OneWay THEN UNCHANGED <<at, todo>>
              ELSE IF deferred
              THEN todo' = todo \cup {[fd |-> at.fd, payload |-> r.payload]} /\ UNCHANGED at
              ELSE at' = [at EXCEPT !.pc = "reply", !.out = encode_frame(r.payload)] /\ UNCHANGED todo
           /\ UNCHANGED <<wire, fds, callbacks, life>>
    BY <1>3, <1>4, Zenon DEF Extract
  <1>6. CASE at' = [at EXCEPT !.pc = "recv"] /\ UNCHANGED <<wire, tables, todo, got>>
    <2>1. "recv" \in ThreadPcs BY Zenon DEF ThreadPcs
    <2>2. at' \in ThreadState /\ at'.pc = "recv" /\ at'.fd = at.fd BY <1>1, <1>6, <2>1, ThreadSet, Zenon
    <2>3. UNCHANGED <<wire, fds, connections, callbacks, life, todo, got>> BY <1>6, Zenon DEF tables
    <2>4. at.pc \notin Sending \cup {"destroyed"} /\ at'.pc \in {"idle", "dispatch", "recv"} /\ at'.pc # "idle"
      BY <1>1, <1>2, <2>2, Zenon
    <2> QED BY <1>1, <2>2, <2>3, <2>4, MovesOn, Zenon
  <1>7. CASE Disconnect(at.fd) /\ at' = [Idle EXCEPT !.pc = "dispatch"] /\ UNCHANGED got
    <2>1. "dispatch" \in ThreadPcs BY Zenon DEF ThreadPcs
    <2>2. at' \in ThreadState /\ at'.pc = "dispatch" BY <1>1, <1>7, <2>1, ThreadSet, Zenon
    <2> QED BY <1>1, <1>2, <1>7, <2>2, EndsServing, Zenon
  <1>8. CASE /\ r.kind = "frame"
             /\ connections' = [connections EXCEPT ![at.fd] = r.rest]
             /\ got' = [got EXCEPT ![c] = Append(@, r.payload)]
             /\ IF c \in OneWay THEN UNCHANGED <<at, todo>>
                ELSE IF deferred
                THEN todo' = todo \cup {[fd |-> at.fd, payload |-> r.payload]} /\ UNCHANGED at
                ELSE at' = [at EXCEPT !.pc = "reply", !.out = encode_frame(r.payload)] /\ UNCHANGED todo
             /\ UNCHANGED <<wire, fds, callbacks, life>>
    <2>1. /\ k + 1 \in 1 .. Len(Requests[c]) /\ k < client[c].sent
          /\ r.payload = Requests[c][k + 1] /\ r.payload \in Seq(PayloadBytes)
          /\ r.rest \in Seq(Octets)
          /\ Reads(c, client[c].sent, k + 1, r.rest \o (wire[c].up \o client[c].out), client[c].pc # "gone")
      BY <1>3, <1>4, <1>8, Zenon
    <2>2. PICK q \in Seq(PayloadBytes), R \in Seq(Octets) : q = r.payload /\ R = r.rest BY <2>1, Zenon
    <2>3. /\ k + 1 \in 1 .. Len(Requests[c]) /\ k < client[c].sent /\ q = Requests[c][k + 1]
          /\ Reads(c, client[c].sent, k + 1, R \o (wire[c].up \o client[c].out), client[c].pc # "gone")
      BY <2>1, <2>2, Zenon
    <2>4. /\ connections' = [connections EXCEPT ![at.fd] = R]
          /\ got' = [got EXCEPT ![c] = Append(@, q)]
          /\ IF c \in OneWay THEN UNCHANGED <<at, todo>>
             ELSE IF deferred THEN todo' = todo \cup {[fd |-> at.fd, payload |-> q]} /\ UNCHANGED at
             ELSE at' = [at EXCEPT !.pc = "reply", !.out = encode_frame(q)] /\ UNCHANGED todo
          /\ UNCHANGED <<wire, fds, callbacks, life>>
      BY <1>8, <2>2, Zenon
    <2> QED BY <1>1, <1>3, <2>3, <2>4, FrameKeeps, Zenon
  <1> QED BY <1>5, <1>6, <1>7, <1>8, Zenon

(***************************************************************************)
(* Sending, and the end of the server, keep the invariant                  *)
(***************************************************************************)

\* A reply left for later is sent to the client that waits for it.
LEMMA SendDeferredKeeps ==
  ASSUME TcpInv, NEW r \in todo, SendDeferred(r)
  PROVE  TcpInv'
  <1>1. /\ PeerType /\ TableType /\ ThreadType /\ Tables /\ Streams /\ Heard /\ Answers /\ Epoll
        /\ at.pc = "idle" /\ todo' = todo \ {r}
        /\ at' = IF r.fd \in DOMAIN connections
                 THEN [pc |-> "push", fd |-> r.fd, out |-> encode_frame(r.payload)] ELSE at
        /\ UNCHANGED <<loop, client, wire, backlog, fds, connections, callbacks, life, polls, events, got>>
    BY Zenon DEF SendDeferred, fixed, peers, tables, TcpInv
  <1>2. r.fd \in DOMAIN connections BY <1>1, Zenon DEF Tables
  <1>3. r.fd \in Fds /\ fds[r.fd] \in Clients /\ fds[r.fd] # None BY <1>1, <1>2, Held, Zenon
  <1>4. PICK c \in Clients : c = fds[r.fd] BY <1>3, Zenon
  <1>5. r \in Replies /\ r.payload \in Seq(PayloadBytes) BY <1>1, Zenon DEF ThreadType, Replies
  <1>6. PICK F \in Seq(Octets) : F = encode_frame(r.payload) BY <1>5, FrameShape, Zenon
  <1>7. at' \in ThreadState /\ at'.pc = "push" /\ at'.fd = r.fd /\ at'.out = F
    <2>1. PICK g \in Fds \cup {Listener, None} : g = r.fd BY <1>3, Zenon
    <2>2. at' = [pc |-> "push", fd |-> g, out |-> F] BY <1>1, <1>2, <1>6, <2>1, Zenon
    <2>3. at'.pc = "push" /\ at'.fd = g /\ at'.out = F BY <2>2
    <2>4. "push" \in ThreadPcs BY Zenon DEF ThreadPcs
    <2>5. at' \in ThreadState BY <2>2, <2>4, Zenon DEF ThreadState
    <2> QED BY <2>1, <2>3, <2>5, Zenon
  <1>8. at.pc \notin Sending /\ at'.pc \in Sending BY <1>1, <1>7, Zenon DEF Sending
  <1>9. PeerType' /\ TableType' BY <1>1, Zenon DEF PeerType, TableType
  <1>10. ThreadType' BY <1>1, <1>7, Zenon DEF ThreadType
  <1>11. Tables'
    <2>1. \A s \in todo' : s.fd \in DOMAIN connections BY <1>1, Zenon DEF Tables
    <2>2. at.pc # "destroyed" /\ at'.fd \in DOMAIN connections BY <1>1, <1>2, <1>7, Zenon
    <2> QED BY <1>1, <2>1, <2>2, TablesSame, Zenon
  <1>12. Streams' BY <1>1, Zenon DEF Streams, Stream
  <1>13. Heard' BY <1>1, Zenon DEF Heard
  <1>14. ASSUME NEW d \in Clients, d # c PROVE Answer(d)'
    <2>1. Pending(d)' = Pending(d)
      <3>1. Pending(d) = <<>> BY <1>8, Zenon DEF Pending
      <3>2. Pending(d)' = <<>> BY <1>1, <1>4, <1>7, <1>14, Zenon DEF Pending
      <3> QED BY <3>1, <3>2, Zenon
    <2>2. Owed(d)' \subseteq Owed(d) BY <1>1, Zenon DEF Owed
    <2>3. Answer(d) BY <1>1, Zenon DEF Answers
    <2> QED BY <1>1, <2>1, <2>2, <2>3, AnswerKept, Zenon
  <1>15. Answer(c)'
    <2>1. PICK O, P, k : O = Owed(c) /\ P = Owed(c)' /\ k = Len(got[c]) BY Zenon
    <2>2. Pending(c) = <<>> BY <1>8, Zenon DEF Pending
    <2>3. Pending(c)' = F BY <1>1, <1>4, <1>7, <1>8, Zenon DEF Pending
    <2>4. PICK B, D \in Seq(Octets) : B = client[c].buf /\ D = wire[c].down BY <1>1, PeerFields, Zenon
    <2>5. Conversation(c, client[c], wire[c].peer, D, k, <<>>, O)
      BY <1>1, <2>1, <2>2, <2>4, Zenon DEF Answers, Answer
    <2>6. r \in O /\ P \subseteq O \ {r} BY <1>1, <1>4, <2>1, Zenon DEF Owed
    <2>7. c \notin OneWay BY <2>5, <2>6, Zenon DEF Conversation
    <2>8. client[c].pc # "gone" => Exchange(c, client[c], k, (B \o D) \o F, P)
      <3>1. SUFFICES ASSUME client[c].pc # "gone" PROVE Exchange(c, client[c], k, (B \o D) \o F, P) BY Zenon
      <3>2. Exchange(c, client[c], k, (B \o D) \o <<>>, O) BY <2>4, <2>5, <2>7, <3>1, Zenon DEF Conversation
      <3>3. client[c].pc = "receive" /\ (B \o D) \o <<>> = <<>> BY <2>6, <3>2, Zenon DEF Exchange
      <3>4. k = client[c].sent /\ \A s \in O : s.payload = Requests[c][client[c].sent]
        BY <2>6, <3>2, Zenon DEF Exchange
      <3>5. (B \o D) \o F = F
        <4>1. <<>> \in Seq(Octets) BY Nothing, Zenon
        <4>2. B = <<>> /\ D = <<>> BY <3>3, <4>1, ConcatNil
        <4>3. <<>> \o <<>> = <<>> BY Nothing, Zenon
        <4>4. <<>> \o F = F BY Concat, Zenon
        <4> QED BY <4>2, <4>3, <4>4, Zenon
      \* There was no other reply for c.
      <3>6. P = {}
        <4>1. ASSUME NEW s \in P PROVE FALSE
          <5>1. s \in O /\ s # r BY <2>6, Zenon
          <5>2. s \in todo /\ fds[s.fd] = c BY <2>1, <5>1, Zenon DEF Owed
          <5>3. s.payload = r.payload BY <2>6, <3>4, <5>1, Zenon
          <5>4. s.fd = r.fd
            <6>1. \A f, g \in Fds : fds[f] = fds[g] /\ fds[f] # None => f = g BY <1>1, Zenon DEF Tables
            <6>2. s.fd \in Fds BY <1>1, <5>2, Zenon DEF ThreadType, Replies
            <6> QED BY <1>3, <1>4, <5>2, <6>1, <6>2, Zenon
          <5>5. s \in Replies BY <1>1, <5>2, Zenon DEF ThreadType
          <5>6. s = r
            <6>1. \A x, y \in Replies : x.fd = y.fd /\ x.payload = y.payload => x = y BY DEF Replies
            <6> QED BY <1>5, <5>3, <5>4, <5>5, <6>1, Zenon
          <5> QED BY <5>1, <5>6, Zenon
        <4> QED BY <4>1, Zenon
      <3>7. Begins(F, encode_frame(Requests[c][client[c].sent]))
        <4>1. F = encode_frame(Requests[c][client[c].sent]) BY <1>6, <2>6, <3>4, Zenon
        <4>2. Begins(F, F) BY BeginsItself, Zenon
        <4> QED BY <4>1, <4>2, Zenon
      <3>8. Len(client[c].replies) + 1 = client[c].sent BY <3>2, <3>3, Zenon DEF Exchange
      <3> QED BY <3>3, <3>4, <3>5, <3>6, <3>7, <3>8, Zenon DEF Exchange
    <2>9. Conversation(c, client[c], wire[c].peer, D, k, F, P)
      BY <2>4, <2>5, <2>7, <2>8, Zenon DEF Conversation
    <2> QED BY <1>1, <2>1, <2>3, <2>4, <2>9, Zenon DEF Answer
  <1>16. Answers' BY <1>14, <1>15, Zenon DEF Answers
  <1>17. Epoll' BY <1>1, Zenon DEF Epoll
  <1> QED BY <1>9, <1>10, <1>11, <1>12, <1>13, <1>16, <1>17, Zenon DEF TcpInv

\* What send() has written is on its way to the client, in order.
LEMMA SendSomeKeeps ==
  ASSUME TcpInv, SendSome
  PROVE  TcpInv'
  <1>1. /\ PeerType /\ TableType /\ ThreadType /\ Tables /\ Streams /\ Heard /\ Answers
        /\ at.pc \in {"reply", "push"}
        /\ UNCHANGED <<loop, client, backlog, fds, connections, callbacks, life, polls, events, todo, got>>
    BY Zenon DEF SendSome, fixed, tables, TcpInv
  <1>2. PICK c \in Clients, a, b \in Seq(Octets) :
          /\ at.fd \in DOMAIN connections /\ c = fds[at.fd] /\ a \o b = at.out
          /\ wire' \in [Clients -> WireState] /\ wire'[c].up = wire[c].up
          /\ wire[c].peer = "open" => wire'[c].peer = "open" /\ wire'[c].down = wire[c].down \o a
          /\ wire[c].peer # "open" => wire'[c].peer = "reset" /\ wire'[c].down = wire[c].down
          /\ \A d \in Clients \ {c} : wire'[d] = wire[d]
          /\ at' \in ThreadState
          /\ b # <<>> => at'.pc = at.pc /\ at'.fd = at.fd /\ at'.out = b
          /\ b = <<>> /\ at.pc = "push" => at'.pc = "idle"
          /\ b = <<>> /\ at.pc = "reply" => at'.pc = "extract" /\ at'.fd = at.fd
    BY <1>1, SendSomeEffect, Zenon
  <1>3. at.pc \in Sending /\ at.pc \in Serving BY <1>1, Zenon DEF Sending, Serving
  <1>4. /\ at'.pc \in Serving => at'.fd = at.fd
        /\ at'.pc \in {"idle", "push"} => at.pc = "push"
        /\ at'.pc \in Sending => b # <<>>
    <2>1. CASE b # <<>> BY <1>1, <1>2, <2>1, Zenon
    <2>2. CASE b = <<>> /\ at.pc = "push" BY <1>2, <2>2, Zenon DEF Serving, Sending
    <2>3. CASE b = <<>> /\ at.pc = "reply" BY <1>2, <2>3, Zenon DEF Serving, Sending
    <2> QED BY <1>1, <2>1, <2>2, <2>3, Zenon
  <1>5. PeerType' BY <1>1, <1>2, Zenon DEF PeerType
  <1>6. TableType' BY <1>1, Zenon DEF TableType
  <1>7. ThreadType' BY <1>1, <1>2, Zenon DEF ThreadType
  <1>8. Tables'
    <2>1. \A r \in todo' : r.fd \in DOMAIN connections BY <1>1, Zenon DEF Tables
    <2>2. at.pc # "destroyed" /\ (at'.pc \in Serving => at'.fd \in DOMAIN connections) BY <1>1, <1>2, <1>4, Zenon
    <2> QED BY <1>1, <2>1, <2>2, TablesSame, Zenon
  <1>9. Streams'
    <2>1. ASSUME NEW d \in Clients, NEW g, Stream(d, g) PROVE Stream(d, g)'
      <3>1. wire'[d].up = wire[d].up BY <1>2, Zenon
      <3> QED BY <1>1, <2>1, <3>1, StreamKept, Zenon
    <2>2. ASSUME NEW d \in Clients, NEW f \in Fds, fds'[f] = d PROVE Stream(d, connections[f])'
      <3>1. PICK g : g = connections[f] BY Zenon
      <3>2. Stream(d, g) BY <1>1, <2>2, <3>1, Zenon DEF Streams
      <3>3. Stream(d, g)' /\ connections'[f] = g BY <1>1, <2>1, <3>1, <3>2, Zenon
      <3> QED BY <3>3, Zenon DEF Stream
    <2>3. ASSUME NEW d \in Clients, life'[d] = "none" PROVE Stream(d, <<>>)'
      <3>1. Stream(d, <<>>) BY <1>1, <2>3, Zenon DEF Streams
      <3> QED BY <2>1, <3>1, Zenon
    <2> QED BY <2>2, <2>3, Zenon DEF Streams
  <1>10. Heard' BY <1>1, Zenon DEF Heard
  <1>11. ASSUME NEW d \in Clients, d # c PROVE Answer(d)'
    <2>1. wire'[d] = wire[d] BY <1>2, <1>11, Zenon
    <2>2. Pending(d)' = Pending(d)
      <3>1. Pending(d) = <<>> BY <1>2, <1>11, Zenon DEF Pending
      <3>2. at'.pc \in Sending => at'.fd = at.fd BY <1>2, <1>4, Zenon
      <3>3. Pending(d)' = <<>> BY <1>1, <1>2, <1>11, <3>2, Zenon DEF Pending
      <3> QED BY <3>1, <3>3, Zenon
    <2>3. Owed(d)' = Owed(d) BY <1>1, Zenon DEF Owed
    <2>4. Answer(d) BY <1>1, Zenon DEF Answers
    <2> QED BY <1>1, <2>1, <2>2, <2>3, <2>4, AnswerKept, Zenon
  <1>12. Answer(c)'
    <2>1. PICK O, k, p : O = Owed(c) /\ k = Len(got[c]) /\ p = a \o b BY Zenon
    <2>2. Pending(c) = p BY <1>2, <1>3, <2>1, Zenon DEF Pending
    <2>3. Pending(c)' = b
      <3>1. CASE b # <<>>
        <4>1. at'.pc \in Sending /\ at'.fd = at.fd /\ at'.out = b BY <1>2, <1>3, <3>1, Zenon
        <4> QED BY <1>1, <1>2, <4>1, Zenon DEF Pending
      <3>2. CASE b = <<>>
        <4>1. at'.pc \notin Sending BY <1>4, <3>2, Zenon
        <4> QED BY <3>2, <4>1, Zenon DEF Pending
      <3> QED BY <3>1, <3>2, Zenon
    <2>4. Owed(c)' = O BY <1>1, <2>1, Zenon DEF Owed
    <2>5. PICK B, D \in Seq(Octets) : B = client[c].buf /\ D = wire[c].down BY <1>1, PeerFields, Zenon
    <2>6. Conversation(c, client[c], wire[c].peer, D, k, p, O)
      BY <1>1, <2>1, <2>2, <2>5, Zenon DEF Answers, Answer
    <2>7. p = <<>> => a = <<>> /\ b = <<>>
      <3>1. SUFFICES ASSUME p = <<>> PROVE a = <<>> /\ b = <<>> BY Zenon
      <3>2. <<>> \in Seq(Octets) BY Nothing, Zenon
      <3>3. <<>> \o a = a BY Concat, Zenon
      <3>4. (<<>> \o a) \o b = <<>> BY <2>1, <3>1, <3>3, Zenon
      <3> QED BY <3>2, <3>4, ConcatNil
    <2>8. CASE wire[c].peer = "open"
      <3>1. PICK E \in Seq(Octets) : E = D \o a BY Joins, Zenon
      <3>2. wire'[c].peer = "open" /\ wire'[c].down = E BY <1>2, <2>5, <2>8, <3>1, Zenon
      <3>3. (B \o E) \o b = (B \o D) \o p
        <4>1. PICK G \in Seq(Octets) : G = B \o D BY Joins, Zenon
        <4>2. (B \o D) \o a = B \o (D \o a)
          <5>1. Assoc(B, D, a) BY Associates, Zenon
          <5> QED BY <5>1, Zenon DEF Assoc
        <4>3. (G \o a) \o b = G \o (a \o b)
          <5>1. Assoc(G, a, b) BY Associates, Zenon
          <5> QED BY <5>1, Zenon DEF Assoc
        <4> QED BY <2>1, <3>1, <4>1, <4>2, <4>3, Zenon
      <3>4. D \o <<>> = D BY Concat, Zenon
      <3>5. c \in OneWay => E = <<>> /\ b = <<>> BY <2>6, <2>7, <3>1, <3>4, Zenon DEF Conversation
      <3>6. Conversation(c, client[c], "open", E, k, b, O)
        BY <2>5, <2>6, <2>8, <3>3, <3>5, Zenon DEF Conversation
      <3> QED BY <1>1, <2>1, <2>3, <2>4, <3>2, <3>6, Zenon DEF Answer
    <2>9. CASE wire[c].peer # "open"
      <3>1. wire'[c].peer = "reset" /\ wire'[c].down = D BY <1>2, <2>5, <2>9, Zenon
      <3>2. Conversation(c, client[c], "reset", D, k, b, O)
        BY <2>6, <2>7, <2>9, Zenon DEF Conversation
      <3> QED BY <1>1, <2>1, <2>3, <2>4, <3>1, <3>2, Zenon DEF Answer
    <2> QED BY <2>8, <2>9, Zenon
  <1>13. Answers' BY <1>11, <1>12, Zenon DEF Answers
  <1>14. Epoll'
    <2>1. ASSUME NEW d \in Clients, wire[d].peer = "reset" PROVE wire'[d].peer = "reset"
      <3>1. CASE d = c
        <4>1. wire[c].peer # "open" BY <2>1, <3>1, Zenon
        <4> QED BY <1>2, <3>1, <4>1, Zenon
      <3>2. CASE d # c BY <1>2, <2>1, <3>2, Zenon
      <3> QED BY <3>1, <3>2, Zenon
    <2>2. at'.pc \in {"idle", "push"} => at.pc \in {"idle", "push"} BY <1>4, Zenon
    <2> QED BY <1>1, <1>3, <1>4, <2>1, <2>2, EpollStep, Zenon
  <1> QED BY <1>5, <1>6, <1>7, <1>8, <1>9, <1>10, <1>13, <1>14, Zenon DEF TcpInv

\* ~TcpServer leaves no connection, no callback and no reply for later.
LEMMA DestroyKeeps ==
  ASSUME TcpInv, Destroy
  PROVE  TcpInv'
  <1>1. /\ PeerType /\ TableType /\ ThreadType /\ Tables /\ Streams /\ Heard /\ Answers /\ Epoll
        /\ at.pc = "idle" /\ at' = [Idle EXCEPT !.pc = "destroyed"]
        /\ fds' = [f \in Fds |-> None] /\ connections' = <<>> /\ callbacks' = {}
        /\ life' = [c \in Clients |-> "down"] /\ backlog' = <<>> /\ todo' = {}
        /\ UNCHANGED <<loop, client, polls, events, got>>
    BY Zenon DEF Destroy, fixed, TcpInv
  <1>2. /\ wire' \in [Clients -> WireState]
        /\ \A c \in Clients :
             wire'[c].up = <<>> /\ wire'[c].down = wire[c].down /\ wire'[c].peer = wire[c].peer
    BY <1>1, DestroyEffect, Zenon
  <1>3. at' \in ThreadState /\ at'.pc = "destroyed"
    <2>1. "destroyed" \in ThreadPcs BY Zenon DEF ThreadPcs
    <2> QED BY <1>1, <2>1, ThreadSet, Zenon
  <1>4. at'.pc \notin Serving /\ at'.pc \notin Sending /\ at.pc \notin Sending
    BY <1>1, <1>3, Zenon DEF Serving, Sending
  <1>5. PeerType'
    <2>1. <<>> \in Seq(Clients) OBVIOUS
    <2> QED BY <1>1, <1>2, <2>1, Zenon DEF PeerType
  <1>6. DOMAIN connections' = {} /\ DOMAIN backlog' = {}
    <2>1. DOMAIN <<>> = {} OBVIOUS
    <2> QED BY <1>1, <2>1, Zenon
  <1>7. TableType'
    <2>1. fds' \in [Fds -> Clients \cup {None}] /\ callbacks' \subseteq Fds \cup {Listener} BY <1>1, Zenon
    <2>2. "down" \in Lives BY Zenon DEF Lives
    <2>3. life' \in [Clients -> Lives] BY <1>1, <2>2, Zenon
    <2>4. <<>> \in [DOMAIN <<>> -> Seq(Octets)] OBVIOUS
    <2>5. connections' \in [DOMAIN connections' -> Seq(Octets)] BY <1>1, <2>4, Zenon
    <2> QED BY <2>1, <2>3, <2>5, Zenon DEF TableType
  <1>8. ThreadType' BY <1>1, <1>3, Zenon DEF ThreadType
  <1>9. Tables'
    <2>1. \A f \in Fds : fds'[f] = None BY <1>1, Zenon
    <2>2. \A c \in Clients : life'[c] # "up" /\ c # None BY <1>1, TcpAssumption, Zenon
    <2>3. DOMAIN connections' = callbacks' \ {Listener} /\ DOMAIN connections' = {f \in Fds : fds'[f] # None}
      BY <1>1, <1>6, <2>1, Zenon
    <2>4. \A c \in Clients : life'[c] = "up" <=> \E f \in Fds : fds'[f] = c BY <2>1, <2>2, Zenon
    <2> QED BY <1>1, <1>3, <1>4, <1>6, <2>1, <2>3, <2>4, Zenon DEF Tables
  <1>10. Streams'
    <2>1. \A c \in Clients, f \in Fds : fds'[f] # c BY <1>1, TcpAssumption, Zenon
    <2>2. \A c \in Clients : life'[c] # "none" BY <1>1, Zenon
    <2> QED BY <2>1, <2>2, Zenon DEF Streams
  <1>11. Heard' BY <1>1, Zenon DEF Heard
  <1>12. ASSUME NEW c \in Clients PROVE Answer(c)'
    <2>1. Pending(c)' = Pending(c) BY <1>4, Zenon DEF Pending
    <2>2. Owed(c)' \subseteq Owed(c) BY <1>1, Zenon DEF Owed
    <2>3. Answer(c) BY <1>1, Zenon DEF Answers
    <2> QED BY <1>1, <1>2, <2>1, <2>2, <2>3, AnswerKept, Zenon
  <1>13. Answers' BY <1>12, Zenon DEF Answers
  <1>14. Epoll'
    <2>1. SUFFICES ASSUME loop = "epoll" PROVE Epoll' BY <1>1, Zenon DEF Epoll
    <2>2. polls' = {} /\ events' = {} BY <1>1, <2>1, Zenon DEF Epoll
    <2> QED BY <2>2, Zenon DEF Epoll
  <1> QED BY <1>5, <1>7, <1>8, <1>9, <1>10, <1>11, <1>13, <1>14, Zenon DEF TcpInv

\* The server starts with no connection, and its clients with nothing sent.
LEMMA TcpInit ==
  ASSUME Init
  PROVE  TcpInv
  <1> PICK z0 : z0 = [pc |-> "off", out |-> <<>>, buf |-> <<>>, sent |-> 0, replies |-> <<>>] BY Zenon
  <1> PICK w0 : w0 = [up |-> <<>>, down |-> <<>>, peer |-> "open", server |-> "open"] BY Zenon
  <1>1. /\ client = [c \in Clients |-> z0] /\ wire = [c \in Clients |-> w0] /\ backlog = <<>>
        /\ fds = [f \in Fds |-> None] /\ connections = <<>> /\ callbacks = {Listener}
        /\ loop = "epoll" => polls = {}
        /\ events = {} /\ at = Idle /\ todo = {} /\ got = [c \in Clients |-> <<>>]
        /\ life = [c \in Clients |-> "none"]
    <2>1. polls = IF loop = "io_uring" THEN {[fd |-> Listener, file |-> Listener]} ELSE {} BY Zenon DEF Init
    <2>2. loop = "epoll" => polls = {} BY <2>1
    <2> QED BY <2>2, Zenon DEF Init
  <1>2. /\ <<>> \in Seq(Octets) /\ <<>> \in Seq(Seq(PayloadBytes)) /\ <<>> \in Seq(Clients) /\ 0 \in Nat
        /\ DOMAIN <<>> = {} /\ Len(<<>>) = 0 /\ <<>> \o <<>> = <<>>
    OBVIOUS
  <1>3. z0 \in ClientState /\ z0.pc = "off" /\ z0.out = <<>> /\ z0.buf = <<>> /\ z0.sent = 0 /\ z0.replies = <<>>
    <2>1. "off" \in ClientPcs BY Zenon DEF ClientPcs
    <2> QED BY <1>2, <2>1, Zenon DEF ClientState
  <1>4. w0 \in WireState /\ w0.up = <<>> /\ w0.down = <<>> /\ w0.peer = "open"
    <2>1. "open" \in Peers BY Zenon DEF Peers
    <2> QED BY <1>2, <2>1, Zenon DEF WireState
  <1>5. at \in ThreadState /\ at.pc = "idle"
    <2>1. "idle" \in ThreadPcs BY Zenon DEF ThreadPcs
    <2>2. Idle \in ThreadState /\ Idle.pc = "idle" BY <1>2, <2>1, Zenon DEF ThreadState, Idle
    <2> QED BY <1>1, <2>2, Zenon
  <1>6. at.pc \notin Serving /\ at.pc \notin Sending BY <1>5, Zenon DEF Serving, Sending
  <1>7. PeerType
    <2>1. client \in [Clients -> ClientState] BY <1>1, <1>3, Zenon
    <2>2. wire \in [Clients -> WireState] BY <1>1, <1>4, Zenon
    <2> QED BY <1>1, <1>2, <2>1, <2>2, Zenon DEF PeerType
  <1>8. TableType
    <2>1. fds \in [Fds -> Clients \cup {None}] /\ callbacks \subseteq Fds \cup {Listener} BY <1>1, Zenon
    <2>2. "none" \in Lives BY Zenon DEF Lives
    <2>3. life \in [Clients -> Lives] BY <1>1, <2>2, Zenon
    <2>4. <<>> \in [DOMAIN <<>> -> Seq(Octets)] OBVIOUS
    <2>5. connections \in [DOMAIN connections -> Seq(Octets)] BY <1>1, <2>4, Zenon
    <2> QED BY <2>1, <2>3, <2>5, Zenon DEF TableType
  <1>9. ThreadType
    <2>1. got \in [Clients -> Seq(Seq(PayloadBytes))] BY <1>1, <1>2, Zenon
    <2> QED BY <1>1, <1>5, <2>1, Zenon DEF ThreadType
  <1>10. Tables
    <2>1. \A f \in Fds : fds[f] = None BY <1>1, Zenon
    <2>2. \A c \in Clients : life[c] = "none" /\ c # None BY <1>1, TcpAssumption, Zenon
    <2>3. DOMAIN connections = callbacks \ {Listener} /\ DOMAIN connections = {f \in Fds : fds[f] # None}
      BY <1>1, <1>2, <2>1, Zenon
    <2>4. \A c \in Clients : life[c] = "up" <=> \E f \in Fds : fds[f] = c BY <2>1, <2>2, Zenon
    <2>5. DOMAIN backlog = {} BY <1>1, <1>2, Zenon
    <2> QED BY <1>1, <1>6, <2>1, <2>2, <2>3, <2>4, <2>5, Zenon DEF Tables
  <1>11. Streams
    <2>1. \A c \in Clients, f \in Fds : fds[f] # c BY <1>1, TcpAssumption, Zenon
    <2>2. ASSUME NEW c \in Clients PROVE Stream(c, <<>>)
      <3>1. client[c] = z0 /\ wire[c] = w0 /\ got[c] = <<>> BY <1>1, Zenon
      <3>2. (client[c].pc # "gone") = TRUE BY <1>3, <3>1, Zenon
      <3>3. client[c].sent = 0 /\ Len(got[c]) = 0 /\ <<>> \o (wire[c].up \o client[c].out) = <<>>
        BY <1>2, <1>3, <1>4, <3>1, Zenon
      <3>4. Reads(c, 0, 0, <<>>, TRUE) BY ReadsNothing, Zenon
      <3> QED BY <3>2, <3>3, <3>4, Zenon DEF Stream
    <2> QED BY <2>1, <2>2, Zenon DEF Streams
  <1>12. \A c \in Clients : Begins(<<>>, Requests[c]) /\ 0 <= Len(Requests[c])
    <2>1. ASSUME NEW c \in Clients PROVE Begins(<<>>, Requests[c]) /\ 0 <= Len(Requests[c])
      <3>1. Requests[c] \in Seq(Seq(PayloadBytes)) BY TcpAssumption, Zenon
      <3>2. Len(Requests[c]) \in Nat BY <3>1, LenProperties, Zenon
      <3> QED BY <3>2 DEF Begins
    <2> QED BY <2>1, Zenon
  <1>13. Heard BY <1>1, <1>12, Zenon DEF Heard
  <1>14. ASSUME NEW c \in Clients PROVE Answer(c)
    <2>1. client[c] = z0 /\ wire[c] = w0 /\ got[c] = <<>> BY <1>1, Zenon
    <2>2. Pending(c) = <<>> BY <1>6, Zenon DEF Pending
    <2>3. Owed(c) = {} BY <1>1, Zenon DEF Owed
    <2>4. Exchange(c, z0, 0, (<<>> \o <<>>) \o <<>>, {}) BY <1>2, <1>3, Zenon DEF Exchange
    <2>5. Conversation(c, z0, "open", <<>>, 0, <<>>, {}) BY <1>3, <1>12, <2>4, Zenon DEF Conversation
    <2> QED BY <1>2, <1>4, <2>1, <2>2, <2>3, <2>5, Zenon DEF Answer
  <1>15. Answers BY <1>14, Zenon DEF Answers
  <1>16. Epoll BY <1>1, Zenon DEF Epoll
  <1> QED BY <1>7, <1>8, <1>9, <1>10, <1>11, <1>13, <1>15, <1>16, Zenon DEF TcpInv

(***************************************************************************)
(* The theorems                                                            *)
(***************************************************************************)

\* Every step of the server, of a client and of the kernel keeps the invariant.
LEMMA TcpStep ==
  ASSUME TcpInv, [Next]_vars
  PROVE  TcpInv'
  <1>1. CASE UNCHANGED vars
    <2>1. UNCHANGED <<loop, client, wire, backlog, fds, connections, callbacks, life, got, todo, events, polls, at>>
      BY <1>1, Zenon DEF vars
    <2>2. Tables /\ ThreadType /\ Epoll BY Zenon DEF TcpInv
    <2>3. Epoll' BY <2>1, <2>2, Zenon DEF Epoll
    <2>4. at' \in ThreadState /\ (at'.pc \in Serving => at'.fd \in DOMAIN connections)
      BY <2>1, <2>2, Zenon DEF Tables, ThreadType
    <2> QED BY <2>1, <2>3, <2>4, QuietKeeps, Zenon
  <1>2. ASSUME NEW c \in Clients, Connect(c) \/ Client(c) \/ ClientCloses(c) PROVE TcpInv'
    BY <1>2, ClientKeeps, Zenon
  <1>3. CASE Completing BY <1>3, CompleteKeeps, Zenon DEF Completing
  <1>4. CASE Server
    <2>1. CASE Poll BY <2>1, PollKeeps, Zenon
    <2>2. CASE EndPoll BY <2>2, EndPollKeeps, Zenon
    <2>3. CASE \E e \in events : Dispatch(e) BY <2>3, DispatchKeeps, Zenon
    <2>4. CASE AcceptOne BY <2>4, AcceptOneKeeps, Zenon
    <2>5. CASE AcceptDone \/ RecvDrained BY <2>5, ReturnKeeps, Zenon
    <2>6. CASE RecvSome BY <2>6, RecvSomeKeeps, Zenon
    <2>7. CASE RecvEnds BY <2>7, RecvEndsKeeps, Zenon
    <2>8. CASE Extract BY <2>8, ExtractKeeps, Zenon
    <2>9. CASE \E r \in todo : SendDeferred(r) BY <2>9, SendDeferredKeeps, Zenon
    <2>10. CASE SendSome BY <2>10, SendSomeKeeps, Zenon
    <2>11. CASE SendFails BY <2>11, SendFailsKeeps, Zenon
    <2> QED BY <1>4, <2>1, <2>2, <2>3, <2>4, <2>5, <2>6, <2>7, <2>8, <2>9, <2>10, <2>11, Zenon DEF Server
  <1>5. CASE Destroy BY <1>5, DestroyKeeps, Zenon
  <1> QED BY <1>1, <1>2, <1>3, <1>4, <1>5, Zenon DEF Next

\* The inductive invariant of the server and its clients.
THEOREM TcpInvariance == Spec => []TcpInv
  <1>1. Init => TcpInv BY TcpInit, Zenon
  <1>2. TcpInv /\ [Next]_vars => TcpInv' BY TcpStep, Zenon
  <1> QED BY <1>1, <1>2, PTL DEF Spec

\* What begins a sequence is its prefix.
LEMMA BeginsPrefix ==
  ASSUME NEW s \in Seq(Seq(PayloadBytes)), NEW t \in Seq(Seq(PayloadBytes)), Begins(s, t)
  PROVE  IsPrefixOf(s, t)
  <1>1. PICK S : S = Seq(PayloadBytes) BY Zenon
  <1>2. s \in Seq(S) /\ t \in Seq(S) BY <1>1, Zenon
  <1>3. Len(s) \in Nat /\ Len(t) \in Nat /\ Len(s) <= Len(t) /\ \A i \in 1 .. Len(s) : s[i] = t[i]
    BY <1>2, LenProperties DEF Begins
  <1>4. PICK u : u = SubSeq(t, 1, Len(s)) BY Zenon
  <1>5. u \in Seq(S) /\ Len(u) = Len(s) /\ \A i \in 1 .. Len(u) : u[i] = t[i] BY <1>2, <1>3, <1>4
  <1>6. u = s BY <1>2, <1>3, <1>5, SeqEqual, Zenon
  <1> QED BY <1>3, <1>4, <1>6, Zenon DEF IsPrefixOf

\* TcpServer::handle_readable and FrameDecoder: for any clients, requests, frame
\* limit, buffers and descriptors, on_message gets the frames of each client
\* complete, in order and once, however the stream is cut up.
THEOREM RequestsComeInOrder == Spec => []RequestsInOrder
  <1>1. ASSUME TcpInv PROVE RequestsInOrder
    <2>1. ASSUME NEW c \in Clients PROVE IsPrefixOf(got[c], Requests[c])
      <3>1. ThreadType /\ Heard BY <1>1, Zenon DEF TcpInv
      <3>2. got[c] \in Seq(Seq(PayloadBytes)) /\ Begins(got[c], Requests[c]) BY <3>1, Zenon DEF ThreadType, Heard
      <3>3. Requests[c] \in Seq(Seq(PayloadBytes)) BY TcpAssumption, Zenon
      <3> QED BY <3>2, <3>3, BeginsPrefix, Zenon
    <2> QED BY <2>1, Zenon DEF RequestsInOrder
  <1> QED BY <1>1, TcpInvariance, PTL

\* TcpServer::send and the replies left for later: a client gets the replies to its
\* own requests in their order, and one that expects none gets no byte, although
\* the id a reply is sent to is a descriptor that passes from client to client.
THEOREM RepliesAreAnswers == Spec => []RepliesAnswer
  <1>1. ASSUME TcpInv PROVE RepliesAnswer
    <2>1. ASSUME NEW c \in Clients
          PROVE  IsPrefixOf(client[c].replies, Requests[c]) /\ (c \in OneWay => wire[c].down = <<>>)
      <3>1. PeerType /\ Answer(c) BY <1>1, Zenon DEF TcpInv, Answers
      <3>2. client[c].replies \in Seq(Seq(PayloadBytes)) BY <3>1, Zenon DEF PeerType, ClientState
      <3>3. Begins(client[c].replies, Requests[c]) /\ (c \in OneWay => wire[c].down = <<>>)
        BY <3>1, Zenon DEF Answer, Conversation
      <3>4. Requests[c] \in Seq(Seq(PayloadBytes)) BY TcpAssumption, Zenon
      <3> QED BY <3>2, <3>3, <3>4, BeginsPrefix, Zenon
    <2> QED BY <2>1, Zenon DEF RepliesAnswer
  <1> QED BY <1>1, TcpInvariance, PTL

\* accept_loop, disconnect and ~TcpServer: between two polls connections_, the
\* loop's callbacks_ and the open descriptors are the same.
THEOREM TablesStayInStep == Spec => []TablesAgree
  <1>1. ASSUME TcpInv PROVE TablesAgree
    <2>1. Tables BY <1>1, Zenon DEF TcpInv
    <2> QED BY <2>1, Zenon DEF Tables, TablesAgree
  <1> QED BY <1>1, TcpInvariance, PTL

\* A connection that disconnect() ends is the one at its descriptor.
LEMMA EndsItsOwn ==
  ASSUME TableType, Tables, NEW fd \in DOMAIN connections, Disconnect(fd), NEW c \in Clients, life'[c] # life[c]
  PROVE  c = fds[fd]
  <1>1. life' = [life EXCEPT ![fds[fd]] = "down"] BY Zenon DEF Disconnect
  <1>2. fds[fd] \in Clients BY Held, Zenon
  <1>3. c # fds[fd] => life'[c] = life[c] BY <1>1, <1>2, Zenon DEF TableType
  <1> QED BY <1>3, Zenon

\* The reason for which a step ends a connection of c.
Reason(c) ==
  \/ wire[c].peer # "open"
  \/ at'.pc = "destroyed"
  \/ \E i \in DOMAIN Requests[c] : Len(Requests[c][i]) > kMaxFrameSize

\* No step ends a connection of an EpollLoop without a reason.
LEMMA EndsForReason ==
  ASSUME TcpInv, Next, NEW c \in Clients, loop = "epoll", life[c] = "up", life'[c] = "down"
  PROVE  Reason(c)
  <1>1. TableType /\ Tables /\ Epoll /\ life'[c] # life[c] BY Zenon DEF TcpInv
  <1>2. life' # life BY <1>1, Zenon
  <1>3. \A d \in Clients : ~(Connect(d) \/ Client(d) \/ ClientCloses(d))
    <2>1. ASSUME NEW d \in Clients, Connect(d) \/ Client(d) \/ ClientCloses(d) PROVE UNCHANGED ServerSide
      <3>1. CASE Connect(d) BY <3>1, Zenon DEF Connect
      <3>2. CASE ClientSend(d) BY <3>2, Zenon DEF ClientSend
      <3>3. CASE ClientWrite(d) BY <3>3, Zenon DEF ClientWrite
      <3>4. CASE ClientReceive(d) BY <3>4, Zenon DEF ClientReceive
      <3>5. CASE ClientThrows(d) BY <3>5, Zenon DEF ClientThrows, Gone
      <3>6. CASE ClientCloses(d) BY <3>6, Zenon DEF ClientCloses, Gone
      <3> QED BY <2>1, <3>1, <3>2, <3>3, <3>4, <3>5, <3>6, Zenon DEF Client
    <2>2. UNCHANGED ServerSide => life' = life BY Zenon DEF ServerSide, tables
    <2> QED BY <1>2, <2>1, <2>2, Zenon
  <1>4. ~Completing BY <1>2, Zenon DEF Completing, Complete, tables
  <1>5. ~(Poll \/ EndPoll \/ AcceptDone \/ RecvDrained)
    BY <1>2, Zenon DEF Poll, EndPoll, AcceptDone, RecvDrained, tables
  <1>6. ~RecvSome /\ ~SendSome /\ (\A r \in todo : ~SendDeferred(r))
    BY <1>2, Zenon DEF RecvSome, SendSome, SendDeferred, tables
  <1>7. ~AcceptOne
    <2>1. SUFFICES ASSUME AcceptOne PROVE FALSE BY Zenon
    <2>2. life' = [life EXCEPT ![Head(backlog)] = "up"] BY <2>1, Zenon DEF AcceptOne
    <2>3. life'[c] = IF c = Head(backlog) THEN "up" ELSE life[c] BY <1>1, <2>2, Zenon DEF TableType
    <2>4. life'[c] = "up" BY <2>3, Zenon
    <2> QED BY <2>4
  <1>8. ASSUME NEW e \in events, Dispatch(e) PROVE Reason(c)
    <2>1. e.fd \in callbacks /\ e.fd # Listener /\ e.hup /\ Disconnect(e.fd)
      BY <1>2, <1>8, Zenon DEF Dispatch, tables
    <2>2. e.fd \in DOMAIN connections BY <1>1, <2>1, Zenon DEF Tables
    <2>3. c = fds[e.fd] BY <1>1, <2>1, <2>2, EndsItsOwn, Zenon
    <2>4. wire[fds[e.fd]].peer = "reset" BY <1>1, <2>1, Zenon DEF Epoll
    <2>5. wire[c].peer # "open" BY <2>3, <2>4, Zenon
    <2> QED BY <2>5, Zenon DEF Reason
  <1>9. ASSUME at.pc \in Serving, Disconnect(at.fd) PROVE c = fds[at.fd]
    <2>1. at.fd \in DOMAIN connections BY <1>1, <1>9, Zenon DEF Tables
    <2> QED BY <1>1, <1>9, <2>1, EndsItsOwn, Zenon
  <1>10. CASE RecvEnds
    <2>1. at.pc \in Serving /\ Disconnect(at.fd) BY <1>10, Zenon DEF RecvEnds, Serving
    <2>2. wire[fds[at.fd]].peer # "open" BY <1>10, Zenon DEF RecvEnds
    <2> QED BY <1>9, <2>1, <2>2, Zenon DEF Reason
  <1>11. CASE SendFails
    <2>1. at.pc \in Serving /\ Disconnect(at.fd) BY <1>11, Zenon DEF SendFails, Serving
    <2>2. wire[fds[at.fd]].peer # "open" BY <1>11, Zenon DEF SendFails
    <2> QED BY <1>9, <2>1, <2>2, Zenon DEF Reason
  <1>12. CASE Extract
    <2>1. at.pc = "extract" /\ at.pc \in Serving BY <1>12, Zenon DEF Extract, Serving
    <2>2. Disconnect(at.fd) /\ try_extract(connections[at.fd]).kind = "throw"
      BY <1>2, <1>12, Zenon DEF Extract, tables
    <2>3. c = fds[at.fd] BY <1>9, <2>1, <2>2, Zenon
    <2>4. PICK k \in Nat : k + 1 \in 1 .. Len(Requests[c]) /\ Len(Requests[c][k + 1]) > kMaxFrameSize
      BY <2>1, <2>2, <2>3, Found, Zenon
    <2>5. Requests[c] \in Seq(Seq(PayloadBytes)) BY TcpAssumption, Zenon
    <2>6. k + 1 \in DOMAIN Requests[c] BY <2>4, <2>5, LenProperties, Zenon
    <2> QED BY <2>4, <2>6, Zenon DEF Reason
  <1>13. CASE Destroy
    <2>1. at' = [Idle EXCEPT !.pc = "destroyed"] BY <1>13, Zenon DEF Destroy
    <2>2. "destroyed" \in ThreadPcs /\ ThreadType BY Zenon DEF ThreadPcs, TcpInv
    <2>3. at'.pc = "destroyed" BY <2>1, <2>2, ThreadSet, Zenon
    <2> QED BY <2>3, Zenon DEF Reason
  <1> QED BY <1>3, <1>4, <1>5, <1>6, <1>7, <1>8, <1>10, <1>11, <1>12, <1>13, Zenon DEF Next, Server

\* EpollLoop and TcpServer::disconnect: a connection ends only because its peer
\* closed it, it failed, it sent a frame beyond kMaxFrameSize or the server is
\* destroyed, never on an event that was reported of an earlier connection.
THEOREM ConnectionsEndWithReason == Spec => EndsWithReason
  <1>1. ASSUME TcpInv, [Next]_vars
        PROVE  [\A c \in Clients :
                  loop = "epoll" /\ life[c] = "up" /\ life'[c] = "down" =>
                    \/ wire[c].peer # "open"
                    \/ at'.pc = "destroyed"
                    \/ \E i \in DOMAIN Requests[c] : Len(Requests[c][i]) > kMaxFrameSize]_vars
    <2>1. CASE UNCHANGED vars BY <2>1, Zenon
    <2>2. CASE Next
      <3>1. ASSUME NEW c \in Clients, loop = "epoll", life[c] = "up", life'[c] = "down" PROVE Reason(c)
        BY <1>1, <2>2, <3>1, EndsForReason, Zenon
      <3> QED BY <3>1, Zenon DEF Reason
    <2> QED BY <1>1, <2>1, <2>2, Zenon
  <1> QED BY <1>1, TcpInvariance, PTL DEF Spec, EndsWithReason
=============================================================================
