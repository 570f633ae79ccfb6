------------------------------ MODULE TcpServer ------------------------------
(***************************************************************************)
(* net::TcpServer on an EpollLoop or an IoUringLoop, and its clients.  One *)
(* thread calls poll_once() and, in between, sends the replies that were   *)
(* left for later; clients send requests, wait for the reply if there is   *)
(* one, and close or are cut off at any point.  The kernel numbers an      *)
(* accepted connection with the lowest free descriptor, which is also the  *)
(* connection's id: one that ends makes room for another of the same id.   *)
(***************************************************************************)
EXTENDS Framing, FiniteSets

CONSTANTS
  Clients,
  Requests,      \* the payloads each client sends, one after the other
  OneWay,        \* clients that expect no reply, and get none
  Fds,           \* descriptors for accepted connections
  Modes,         \* which loop drives the server and whether replies are deferred
  BufCap,        \* bytes a socket buffer holds
  PayloadBytes,  \* what payloads are made of
  None

Listener == 0  \* listen_fd_

ASSUME TcpAssumption ==
  /\ Requests \in [Clients -> Seq(Seq(PayloadBytes))]
  /\ Fds \subseteq Nat \ {Listener}
  /\ None \notin Clients
  /\ Radix \in Nat \ {0} /\ kMaxFrameSize \in Nat /\ BufCap \in Nat

VARIABLES
  loop,         \* "epoll" or "io_uring"
  deferred,     \* whether replies are sent in on_message or between two polls
  client,       \* each client: where it is, what it has to write, has read, sent and got
  wire,         \* its socket: bytes to the server, bytes to the client, both ends
  backlog,      \* connections that wait for accept()
  fds,          \* the client at each descriptor, or None
  connections,  \* connections_ : the bytes in the decoder of each connection
  callbacks,    \* callbacks_ of the loop : descriptors that are registered
  polls,        \* io_uring: POLL_ADDs in flight, with the file they watch
  events,       \* what epoll_wait returned, or the completion queue
  at,           \* the thread: where it is, the descriptor it serves, what it sends
  todo,         \* replies left for after poll_once()
  got,          \* history: what on_message was given of each client
  life          \* history: "none", "up" after on_connect, "down" after the end

vars == <<loop, deferred, client, wire, backlog, fds, connections, callbacks, polls, events,
          at, todo, got, life>>
peers == <<client, wire, backlog>>
tables == <<fds, connections, callbacks, life>>
fixed == <<loop, deferred>>

Drop(s, n) == SubSeq(s, n + 1, Len(s))
Lesser(m, n) == IF m < n THEN m ELSE n
Idle == [pc |-> "idle", fd |-> None, out |-> <<>>]

Init ==
  /\ \E m \in Modes : loop = m[1] /\ deferred = m[2]
  /\ client = [c \in Clients |-> [pc |-> "off", out |-> <<>>, buf |-> <<>>, sent |-> 0, replies |-> <<>>]]
  /\ wire = [c \in Clients |-> [up |-> <<>>, down |-> <<>>, peer |-> "open", server |-> "open"]]
  /\ backlog = <<>>
  /\ fds = [f \in Fds |-> None]
  /\ connections = <<>>
  /\ callbacks = {Listener}
  /\ polls = IF loop = "io_uring" THEN {[fd |-> Listener, file |-> Listener]} ELSE {}
  /\ events = {}
  /\ at = Idle
  /\ todo = {}
  /\ got = [c \in Clients |-> <<>>]
  /\ life = [c \in Clients |-> "none"]

(***************************************************************************)
(* TcpClient                                                               *)
(***************************************************************************)

ServerSide == <<fixed, tables, polls, events, at, todo, got>>

Connect(c) ==
  /\ client[c].pc = "off" /\ at.pc # "destroyed"
  /\ client' = [client EXCEPT ![c].pc = "idle"]
  /\ backlog' = Append(backlog, c)
  /\ UNCHANGED <<wire, ServerSide>>

ClientSend(c) ==
  /\ client[c].pc = "idle" /\ client[c].sent < Len(Requests[c])
  /\ client' = [client EXCEPT ![c] =
                  [client[c] EXCEPT !.pc = "send", !.sent = client[c].sent + 1,
                                    !.out = encode_frame(Requests[c][client[c].sent + 1])]]
  /\ UNCHANGED <<wire, backlog, ServerSide>>

\* One turn of send()'s loop: the kernel takes as much as it likes.
ClientWrite(c) ==
  /\ client[c].pc = "send" /\ wire[c].server = "open"
  /\ \E n \in 1 .. Lesser(Len(client[c].out), BufCap - Len(wire[c].up)) :
       /\ wire' = [wire EXCEPT ![c].up = @ \o SubSeq(client[c].out, 1, n)]
       /\ client' = [client EXCEPT ![c] =
                       [client[c] EXCEPT !.out = Drop(client[c].out, n), !.buf = <<>>,
                                         !.pc = IF n < Len(client[c].out) THEN "send"
                                                ELSE IF c \in OneWay THEN "idle" ELSE "receive"]]
  /\ UNCHANGED <<backlog, ServerSide>>

\* One turn of receive_one(): what its decoder holds beyond the frame is lost.
ClientReceive(c) ==
  /\ client[c].pc = "receive"
  /\ LET r == try_extract(client[c].buf)
     IN  \/ /\ r.kind = "frame"
            /\ client' = [client EXCEPT ![c] =
                            [client[c] EXCEPT !.pc = "idle", !.buf = <<>>,
                                              !.replies = Append(client[c].replies, r.payload)]]
            /\ UNCHANGED wire
         \/ /\ r.kind = "nullopt"
            /\ \E n \in 1 .. Len(wire[c].down) :
                 /\ client' = [client EXCEPT ![c].buf = @ \o SubSeq(wire[c].down, 1, n)]
                 /\ wire' = [wire EXCEPT ![c].down = Drop(@, n)]
  /\ UNCHANGED <<backlog, ServerSide>>

Gone(c, how) ==
  /\ client' = [client EXCEPT ![c] = [client[c] EXCEPT !.pc = "gone", !.out = <<>>, !.buf = <<>>]]
  /\ wire' = [wire EXCEPT ![c] = [wire[c] EXCEPT !.peer = how, !.down = <<>>]]
  /\ UNCHANGED <<backlog, ServerSide>>

\* The client closes its socket, or the connection is reset.
ClientCloses(c) ==
  /\ client[c].pc \in {"idle", "send", "receive"}
  /\ \E how \in {"closed", "reset"} : Gone(c, how)

\* send() fails and receive_one() finds the end of the stream: both throw.
ClientThrows(c) ==
  /\ wire[c].server = "closed"
  /\ \/ client[c].pc = "send"
     \/ client[c].pc = "receive" /\ wire[c].down = <<>> /\ try_extract(client[c].buf).kind = "nullopt"
  /\ Gone(c, "closed")

(***************************************************************************)
(* EpollLoop, IoUringLoop                                                  *)
(***************************************************************************)

\* What poll reports of a file: whether it is ready, and whether EPOLLHUP.
Ready(file) == IF file = Listener THEN backlog # <<>>
               ELSE wire[file].up # <<>> \/ wire[file].peer # "open"
Hup(file) == file # Listener /\ wire[file].peer = "reset"
File(fd) == IF fd = Listener THEN Listener ELSE fds[fd]
Event(fd, file) == [fd |-> fd, file |-> file, hup |-> Hup(file)]

\* submit_poll for the file that is at the descriptor now.
Armed(fd, file) == IF loop = "io_uring" THEN polls \cup {[fd |-> fd, file |-> file]} ELSE polls

\* The kernel completes a POLL_ADD, also one whose descriptor is closed by now.
Complete(p) ==
  /\ p \in polls /\ Ready(p.file)
  /\ polls' = polls \ {p}
  /\ events' = events \cup {Event(p.fd, p.file)}
  /\ UNCHANGED <<fixed, peers, tables, at, todo, got>>

\* epoll_wait returns what is ready; the completion queue is read as it is.
Poll ==
  /\ at.pc = "idle" /\ todo = {}
  /\ events' = IF loop = "epoll" THEN {Event(fd, File(fd)) : fd \in {f \in callbacks : Ready(File(f))}}
               ELSE events
  /\ events' # {}
  /\ at' = [at EXCEPT !.pc = "dispatch"]
  /\ UNCHANGED <<fixed, peers, tables, polls, todo, got>>

EndPoll ==
  /\ at.pc = "dispatch" /\ events = {}
  /\ at' = Idle
  /\ UNCHANGED <<fixed, peers, tables, polls, events, todo, got>>

\* A callback has returned; IoUringLoop arms the descriptor again.
Return ==
  /\ polls' = Armed(at.fd, File(at.fd))
  /\ at' = [Idle EXCEPT !.pc = "dispatch"]

(***************************************************************************)
(* TcpServer                                                               *)
(***************************************************************************)

\* Mutant: the replies left for the connection stay, for whoever gets its id.
DisconnectKeepsReplies(fd) ==
  /\ connections' = [f \in DOMAIN connections \ {fd} |-> connections[f]]
  /\ callbacks' = callbacks \ {fd}
  /\ fds' = [fds EXCEPT ![fd] = None]
  /\ wire' = [wire EXCEPT ![fds[fd]] = [wire[fds[fd]] EXCEPT !.server = "closed", !.up = <<>>]]
  /\ life' = [life EXCEPT ![fds[fd]] = "down"]
  /\ UNCHANGED todo

\* Mutant: the descriptor is not closed.
DisconnectLeaks(fd) ==
  /\ connections' = [f \in DOMAIN connections \ {fd} |-> connections[f]]
  /\ callbacks' = callbacks \ {fd}
  /\ life' = [life EXCEPT ![fds[fd]] = "down"]
  /\ todo' = {r \in todo : r.fd # fd}
  /\ UNCHANGED <<fds, wire>>

\* disconnect; on_disconnect drops the replies left for the connection.
Disconnect(fd) ==
  /\ connections' = [f \in DOMAIN connections \ {fd} |-> connections[f]]
  /\ callbacks' = callbacks \ {fd}
  /\ fds' = [fds EXCEPT ![fd] = None]
  /\ wire' = [wire EXCEPT ![fds[fd]] = [wire[fds[fd]] EXCEPT !.server = "closed", !.up = <<>>]]
  /\ life' = [life EXCEPT ![fds[fd]] = "down"]
  /\ todo' = {r \in todo : r.fd # fd}

\* One event: its descriptor's callback runs, if it has one.
Dispatch(e) ==
  /\ at.pc = "dispatch" /\ e \in events
  /\ events' = events \ {e}
  /\ IF e.fd \in callbacks /\ e.fd # Listener /\ e.hup
     THEN Disconnect(e.fd) /\ UNCHANGED at
     ELSE /\ at' = IF e.fd \notin callbacks THEN at
                   ELSE [at EXCEPT !.pc = IF e.fd = Listener THEN "accept" ELSE "recv", !.fd = e.fd]
          /\ UNCHANGED <<wire, tables, todo>>
  /\ UNCHANGED <<fixed, client, backlog, polls, got>>

Free == {f \in Fds : fds[f] = None}

AcceptOne ==
  /\ at.pc = "accept" /\ backlog # <<>> /\ Free # {}
  /\ LET c == Head(backlog)
         fd == CHOOSE f \in Free : \A g \in Free : f <= g
     IN  /\ fds' = [fds EXCEPT ![fd] = c]
         /\ connections' = [f \in DOMAIN connections \cup {fd} |-> IF f = fd THEN <<>> ELSE connections[f]]
         /\ callbacks' = callbacks \cup {fd}
         /\ polls' = Armed(fd, c)
         /\ life' = [life EXCEPT ![c] = "up"]
  /\ backlog' = Tail(backlog)
  /\ UNCHANGED <<fixed, client, wire, events, at, todo, got>>

AcceptDone ==
  /\ at.pc = "accept" /\ (backlog = <<>> \/ Free = {})
  /\ Return
  /\ UNCHANGED <<fixed, peers, tables, events, todo, got>>

RecvSome ==
  /\ at.pc = "recv"
  /\ LET c == fds[at.fd] IN
     \E n \in 1 .. Len(wire[c].up) :
       /\ wire' = [wire EXCEPT ![c].up = Drop(@, n)]
       /\ connections' = [connections EXCEPT ![at.fd] = @ \o SubSeq(wire[c].up, 1, n)]
  /\ at' = [at EXCEPT !.pc = "extract"]
  /\ UNCHANGED <<fixed, client, backlog, fds, callbacks, life, polls, events, todo, got>>

\* Mutant: recv() finding nothing is taken for the end of the stream.
RecvNothingEnds ==
  /\ at.pc = "recv" /\ wire[fds[at.fd]].up = <<>> /\ wire[fds[at.fd]].peer = "open"
  /\ Disconnect(at.fd)
  /\ at' = [Idle EXCEPT !.pc = "dispatch"]
  /\ UNCHANGED <<fixed, client, backlog, polls, events, got>>

\* Mutant: IoUringLoop does not arm the descriptor again.
RecvDrainedOnce ==
  /\ at.pc = "recv" /\ wire[fds[at.fd]].up = <<>> /\ wire[fds[at.fd]].peer = "open"
  /\ at' = [Idle EXCEPT !.pc = "dispatch"]
  /\ UNCHANGED <<fixed, peers, tables, polls, events, todo, got>>

\* EAGAIN
RecvDrained ==
  /\ at.pc = "recv" /\ wire[fds[at.fd]].up = <<>> /\ wire[fds[at.fd]].peer = "open"
  /\ Return
  /\ UNCHANGED <<fixed, peers, tables, events, todo, got>>

\* The end of the stream, or an error.
RecvEnds ==
  /\ at.pc = "recv"
  /\ wire[fds[at.fd]].peer = "reset" \/ (wire[fds[at.fd]].peer = "closed" /\ wire[fds[at.fd]].up = <<>>)
  /\ Disconnect(at.fd)
  /\ at' = [Idle EXCEPT !.pc = "dispatch"]
  /\ UNCHANGED <<fixed, client, backlog, polls, events, got>>

\* try_extract and on_message, which replies or leaves the reply for later.
Extract ==
  /\ at.pc = "extract"
  /\ LET r == try_extract(connections[at.fd])
         c == fds[at.fd]
     IN  \/ /\ r.kind = "nullopt"
            /\ at' = [at EXCEPT !.pc = "recv"]
            /\ UNCHANGED <<wire, tables, todo, got>>
         \/ /\ r.kind = "throw"
            /\ Disconnect(at.fd)
            /\ at' = [Idle EXCEPT !.pc = "dispatch"]
            /\ UNCHANGED got
         \/ /\ r.kind = "frame"
            /\ connections' = [connections EXCEPT ![at.fd] = r.rest]
            /\ got' = [got EXCEPT ![c] = Append(@, r.payload)]
            /\ IF c \in OneWay THEN UNCHANGED <<at, todo>>
               ELSE IF deferred
               THEN todo' = todo \cup {[fd |-> at.fd, payload |-> r.payload]} /\ UNCHANGED at
               ELSE at' = [at EXCEPT !.pc = "reply", !.out = encode_frame(r.payload)] /\ UNCHANGED todo
            /\ UNCHANGED <<wire, fds, callbacks, life>>
  /\ UNCHANGED <<fixed, client, backlog, polls, events>>

\* A reply that was left for later: send() finds the connection, or drops it.
SendDeferred(r) ==
  /\ at.pc = "idle" /\ r \in todo
  /\ todo' = todo \ {r}
  /\ at' = IF r.fd \in DOMAIN connections
           THEN [pc |-> "push", fd |-> r.fd, out |-> encode_frame(r.payload)] ELSE at
  /\ UNCHANGED <<fixed, peers, tables, polls, events, got>>

\* One turn of send()'s loop; it spins while the socket buffer is full.  What
\* goes to a peer that has closed is answered by a reset.
SendSome ==
  /\ at.pc \in {"reply", "push"}
  /\ LET w == wire[fds[at.fd]] IN
     /\ w.peer # "reset"
     /\ \E n \in 1 .. Lesser(Len(at.out), BufCap - Len(w.down)) :
          /\ wire' = [wire EXCEPT ![fds[at.fd]] =
                        IF w.peer = "open" THEN [w EXCEPT !.down = @ \o SubSeq(at.out, 1, n)]
                        ELSE [w EXCEPT !.peer = "reset"]]
          /\ at' = IF n < Len(at.out) THEN [at EXCEPT !.out = Drop(@, n)]
                   ELSE IF at.pc = "push" THEN Idle ELSE [at EXCEPT !.pc = "extract", !.out = <<>>]
  /\ UNCHANGED <<fixed, client, backlog, tables, polls, events, todo, got>>

\* send() fails and disconnects.  In on_message that destroys the decoder that
\* handle_readable goes on to read: what follows is undefined.
SendFails ==
  /\ at.pc \in {"reply", "push"} /\ wire[fds[at.fd]].peer = "reset"
  /\ Disconnect(at.fd)
  /\ at' = IF at.pc = "push" THEN Idle ELSE [Idle EXCEPT !.pc = "undefined"]
  /\ UNCHANGED <<fixed, client, backlog, polls, events, got>>

\* ~TcpServer; on_disconnect is not called.
Destroy ==
  /\ at.pc = "idle"
  /\ at' = [Idle EXCEPT !.pc = "destroyed"]
  /\ fds' = [f \in Fds |-> None] /\ connections' = <<>> /\ callbacks' = {}
  /\ wire' = [c \in Clients |-> [wire[c] EXCEPT !.server = "closed", !.up = <<>>]]
  /\ life' = [c \in Clients |-> "down"]
  /\ backlog' = <<>> /\ todo' = {}
  /\ UNCHANGED <<fixed, client, polls, events, got>>

\* The thread keeps calling poll_once(), the kernel reports what is ready, and a
\* client goes on with the request it is at: MCNetwork states this fairness.
Completing == \E p \in polls : Complete(p)
Client(c) == ClientSend(c) \/ ClientWrite(c) \/ ClientReceive(c) \/ ClientThrows(c)
Server == \/ Poll \/ EndPoll \/ (\E e \in events : Dispatch(e))
          \/ AcceptOne \/ AcceptDone \/ RecvSome \/ RecvDrained \/ RecvEnds \/ Extract
          \/ (\E r \in todo : SendDeferred(r)) \/ SendSome \/ SendFails

Next ==
  \/ \E c \in Clients : Connect(c) \/ Client(c) \/ ClientCloses(c)
  \/ Completing
  \/ Server
  \/ Destroy

Spec == Init /\ [][Next]_vars

(***************************************************************************)
(* Properties                                                              *)
(***************************************************************************)

IsPrefixOf(s, t) == Len(s) <= Len(t) /\ SubSeq(t, 1, Len(s)) = s

\* However the stream is cut into reads and writes, on_message gets the frames
\* of a client complete, in order and once, and never bytes of the connection
\* that had the descriptor before.
RequestsInOrder == \A c \in Clients : IsPrefixOf(got[c], Requests[c])

\* A client gets the replies to its own requests, in their order, although the
\* id a reply is sent to may have passed to another connection.
RepliesAnswer ==
  \A c \in Clients : /\ IsPrefixOf(client[c].replies, Requests[c])
                     /\ c \in OneWay => wire[c].down = <<>>

\* Between two polls the connections, the callbacks of the loop and the open
\* descriptors are the same: disconnect() and accept_loop() leak none.
TablesAgree ==
  at.pc = "idle" =>
    /\ DOMAIN connections = callbacks \ {Listener}
    /\ DOMAIN connections = {f \in Fds : fds[f] # None}
    /\ \A c \in Clients : life[c] = "up" <=> \E f \in Fds : fds[f] = c

\* On epoll a connection ends only because its peer closed it, it failed or it
\* sent a frame that is too long: never on an event of an earlier connection.
EndsWithReason ==
  [][\A c \in Clients :
       loop = "epoll" /\ life[c] = "up" /\ life'[c] = "down" =>
         \/ wire[c].peer # "open"
         \/ at'.pc = "destroyed"
         \/ \E i \in DOMAIN Requests[c] : Len(Requests[c][i]) > kMaxFrameSize]_vars

\* "a stray completion for a removed fd is caught and dropped in poll_once":
\* an event is only ever handled for the connection it was reported of.
StrayDropped ==
  [][\A e \in events : e \notin events' /\ e.fd \in callbacks => File(e.fd) = e.file]_vars

\* The server notices that a client is gone and ends the connection: again and
\* again there is none left that is connected to a client that is gone.
GoneNoticed ==
  []<>(at.pc = "undefined" \/ \A c \in Clients : ~(client[c].pc = "gone" /\ life[c] = "up"))

\* A client that waits for a reply gets one or learns that there is none: no
\* request is left in a decoder, a lost event or a stopped poll.
ReceiveEnds ==
  \A c \in Clients \ OneWay : (client[c].pc = "receive") ~> (client[c].pc # "receive" \/ at.pc = "undefined")
=============================================================================
