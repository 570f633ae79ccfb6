------------------------- MODULE TcpServerInvariant -------------------------
(***************************************************************************)
(* The inductive invariant of TcpServer and its clients, TcpInv: what is   *)
(* on its way in each direction is what has been said and not been heard.  *)
(* What its operators and its actions do, and that the steps of clients,   *)
(* of the loop and of accept_loop and disconnect keep it.                  *)
(***************************************************************************)
EXTENDS TcpServer, SequenceTheorems, WellFoundedInduction, TLAPS

USE TcpAssumption, SMTT(30), ZenonT(30), SMTT(60)

\* What goes over the wire: the digits of a header, and the bytes of a payload.
Octets == Int \cup PayloadBytes

(***************************************************************************)
(* Frames                                                                  *)
(***************************************************************************)

\* S is the first n frames of client c, one after the other, and B[i] is where
\* the first i of them end.
Encodes(c, n, S, B) ==
  /\ n \in 0 .. Len(Requests[c])
  /\ B[0] = 0 /\ B[n] = Len(S)
  /\ \A i \in 0 .. n : B[i] <= Len(S)
  /\ \A i \in 1 .. n :
       /\ B[i] = B[i - 1] + kHeader + Len(Requests[c][i])
       /\ \A j \in 1 .. kHeader + Len(Requests[c][i]) :
            S[B[i - 1] + j] = encode_frame(Requests[c][i])[j]

\* P is what is left to be read of the n frames of c when k have been read: all
\* of it or, when the client is gone, a part.
Reads(c, n, k, P, all) ==
  \E S \in Seq(Octets), B \in [0 .. n -> Nat] :
    /\ Encodes(c, n, S, B)
    /\ k \in 0 .. n
    /\ B[k] + Len(P) <= Len(S)
    /\ \A j \in 1 .. Len(P) : P[j] = S[B[k] + j]
    /\ all => B[k] + Len(P) = Len(S)

\* Addition is associative.
LEMMA Regrouped ==
  ASSUME NEW a \in Nat, NEW b \in Nat, NEW d \in Nat
  PROVE  a + (b + d) = (a + b) + d
  OBVIOUS

\* A byte of a frame that ends by s.
LEMMA Within ==
  ASSUME NEW a \in Nat, NEW m \in Nat, NEW s \in Nat, NEW j \in 1 .. kHeader + m,
         NEW b, b = a + kHeader + m, b <= s
  PROVE  a + j \in 1 .. s
  BY DEF kHeader

\* What a concatenation consists of.
LEMMA Joins ==
  ASSUME NEW s \in Seq(Octets), NEW t \in Seq(Octets)
  PROVE  /\ s \o t \in Seq(Octets) /\ Len(s \o t) = Len(s) + Len(t)
         /\ Len(s) \in Nat /\ Len(t) \in Nat
         /\ \A i \in 1 .. Len(s) : (s \o t)[i] = s[i]
         /\ \A i \in 1 .. Len(t) : (s \o t)[Len(s) + i] = t[i]
  <1> DEFINE u == s \o t
  <1>1. Len(s) \in Nat /\ Len(t) \in Nat OBVIOUS
  <1>2. u \in Seq(Octets) /\ Len(u) = Len(s) + Len(t) OBVIOUS
  <1>3. \A i \in 1 .. Len(s) + Len(t) : u[i] = IF i <= Len(s) THEN s[i] ELSE t[i - Len(s)] OBVIOUS
  <1> HIDE DEF u
  <1>4. \A i \in 1 .. Len(s) : u[i] = s[i] BY <1>1, <1>3
  <1>5. \A i \in 1 .. Len(t) : u[Len(s) + i] = t[i] BY <1>1, <1>3
  <1> QED BY <1>1, <1>2, <1>4, <1>5, Zenon DEF u

\* encode_frame writes the length in two digits and the payload after them.
LEMMA FrameShape ==
  ASSUME NEW q \in Seq(PayloadBytes)
  PROVE  LET f == encode_frame(q) IN
         /\ f \in Seq(Octets) /\ Len(f) = kHeader + Len(q) /\ Len(q) \in Nat
         /\ f[1] = Len(q) \div Radix /\ f[2] = Len(q) % Radix
         /\ \A j \in 1 .. Len(q) : f[kHeader + j] = q[j]
  <1> DEFINE h == <<Len(q) \div Radix, Len(q) % Radix>>
             f == encode_frame(q)
  <1>0. Len(q) \in Nat BY LenProperties, Zenon
  <1>1. Len(q) \in Nat /\ q \in Seq(Octets)
    <2>1. PayloadBytes \subseteq Octets BY Zenon DEF Octets
    <2> QED BY <1>0, <2>1, SeqMonotonic
  <1>2. Len(q) \div Radix \in Int /\ Len(q) % Radix \in Int BY <1>1
  <1>3. h \in Seq(Octets) /\ Len(h) = 2 /\ h[1] = Len(q) \div Radix /\ h[2] = Len(q) % Radix
    BY <1>2 DEF Octets
  <1>4. f = h \o q BY Zenon DEF encode_frame
  <1> HIDE DEF h, f
  <1>5. /\ f \in Seq(Octets) /\ Len(f) = 2 + Len(q)
        /\ \A i \in 1 .. 2 : f[i] = h[i]
        /\ \A i \in 1 .. Len(q) : f[2 + i] = q[i]
    <2>1. h \in Seq(Octets) /\ q \in Seq(Octets) BY <1>1, <1>3, Zenon
    <2>2. /\ f \in Seq(Octets) /\ Len(f) = Len(h) + Len(q)
          /\ \A i \in 1 .. Len(h) : f[i] = h[i]
          /\ \A i \in 1 .. Len(q) : f[Len(h) + i] = q[i]
      BY <1>4, <2>1, Joins
    <2> QED BY <1>3, <2>2
  <1>6. f[1] = h[1] /\ f[2] = h[2] BY <1>5
  <1> QED BY <1>1, <1>3, <1>5, <1>6, Zenon DEF f, kHeader

\* try_extract reads the length that encode_frame wrote.
LEMMA HeaderDecodes ==
  ASSUME NEW q \in Seq(PayloadBytes)
  PROVE  encode_frame(q)[1] * Radix + encode_frame(q)[2] = Len(q)
  <1>1. Len(q) \in Nat OBVIOUS
  <1>2. (Len(q) \div Radix) * Radix + (Len(q) % Radix) = Len(q) BY <1>1
  <1>3. encode_frame(q)[1] = Len(q) \div Radix /\ encode_frame(q)[2] = Len(q) % Radix BY FrameShape, Zenon
  <1> QED BY <1>2, <1>3, Zenon

\* What try_extract finds in the beginning d of a stream whose next frame is that
\* of q: nothing yet, q and what follows it, or that q is too long.
LEMMA NextFrame ==
  ASSUME NEW q \in Seq(PayloadBytes), NEW d \in Seq(Octets),
         \A j \in 1 .. Len(d) : j <= kHeader + Len(q) => d[j] = encode_frame(q)[j]
  PROVE  LET r == try_extract(d) IN
         /\ r.kind \in {"nullopt", "frame", "throw"}
         /\ r.kind = "throw" => Len(q) > kMaxFrameSize /\ kHeader <= Len(d)
         /\ r.kind = "frame" =>
              /\ kHeader + Len(q) <= Len(d)
              /\ r.payload = q
              /\ r.rest \in Seq(Octets) /\ Len(r.rest) = Len(d) - (kHeader + Len(q))
              /\ \A j \in 1 .. Len(r.rest) : r.rest[j] = d[kHeader + Len(q) + j]
  <1> DEFINE f == encode_frame(q)
             r == try_extract(d)
  <1>1. /\ f \in Seq(Octets) /\ Len(f) = 2 + Len(q) /\ Len(q) \in Nat
        /\ f[1] * Radix + f[2] = Len(q)
        /\ \A j \in 1 .. Len(q) : f[2 + j] = q[j]
        /\ \A j \in 1 .. Len(d) : j <= 2 + Len(q) => d[j] = f[j]
        /\ Len(d) \in Nat
    <2>1. f[1] * Radix + f[2] = Len(q) BY HeaderDecodes, Zenon
    <2> HIDE DEF f
    <2>2. /\ f \in Seq(Octets) /\ Len(f) = kHeader + Len(q) /\ Len(q) \in Nat
          /\ \A j \in 1 .. Len(q) : f[kHeader + j] = q[j]
      BY FrameShape, Zenon DEF f
    <2>3. \A j \in 1 .. Len(d) : j <= kHeader + Len(q) => d[j] = f[j] BY Zenon DEF f
    <2>4. Len(d) \in Nat OBVIOUS
    <2> QED BY <2>1, <2>2, <2>3, <2>4, Zenon DEF kHeader
  <1> HIDE DEF f
  <1>2. CASE Len(d) < 2
    <2>1. r = [kind |-> "nullopt"] BY <1>2, Zenon DEF try_extract, kHeader
    <2> QED BY <2>1
  <1>3. CASE ~(Len(d) < 2)
    <2>1. 2 <= Len(d) BY <1>1, <1>3
    <2>2. d[1] = f[1] /\ d[2] = f[2]
      <3>1. 1 \in 1 .. Len(d) /\ 2 \in 1 .. Len(d) /\ 1 <= 2 + Len(q) /\ 2 <= 2 + Len(q) BY <1>1, <2>1
      <3> QED BY <1>1, <3>1, Zenon
    <2>3. d[1] * Radix + d[2] = Len(q) BY <1>1, <2>2, Zenon
    <2>4. r = IF Len(q) > kMaxFrameSize THEN [kind |-> "throw"]
              ELSE IF Len(d) < 2 + Len(q) THEN [kind |-> "nullopt"]
              ELSE [kind    |-> "frame",
                    payload |-> SubSeq(d, 2 + 1, 2 + Len(q)),
                    rest    |-> SubSeq(d, 2 + Len(q) + 1, Len(d))]
      BY <1>3, <2>3, Zenon DEF try_extract, kHeader
    <2>5. CASE Len(q) > kMaxFrameSize
      <3>1. r = [kind |-> "throw"] BY <2>4, <2>5, Zenon
      <3> QED BY <2>1, <2>5, <3>1 DEF kHeader
    <2>6. CASE ~(Len(q) > kMaxFrameSize) /\ Len(d) < 2 + Len(q)
      <3>1. r = [kind |-> "nullopt"] BY <2>4, <2>6, Zenon
      <3> QED BY <3>1
    <2>7. CASE ~(Len(q) > kMaxFrameSize) /\ ~(Len(d) < 2 + Len(q))
      <3> DEFINE p == SubSeq(d, 2 + 1, 2 + Len(q))
                 t == SubSeq(d, 2 + Len(q) + 1, Len(d))
      <3>1. r = [kind |-> "frame", payload |-> p, rest |-> t] BY <2>4, <2>7, Zenon
      <3>2. 2 + Len(q) <= Len(d) BY <1>1, <2>7
      <3>3. /\ p \in Seq(Octets) /\ Len(p) = Len(q)
            /\ \A j \in 1 .. Len(p) : p[j] = d[2 + j]
        BY <1>1, <3>2
      <3>4. /\ t \in Seq(Octets) /\ Len(t) = Len(d) - (2 + Len(q))
            /\ \A j \in 1 .. Len(t) : t[j] = d[2 + Len(q) + j]
        BY <1>1, <3>2
      <3> HIDE DEF p, t
      <3>5. \A j \in 1 .. Len(p) : p[j] = q[j]
        <4> SUFFICES ASSUME NEW j \in 1 .. Len(p) PROVE p[j] = q[j] BY Zenon
        <4>1. 2 + j \in 1 .. Len(d) /\ 2 + j <= 2 + Len(q) /\ j \in 1 .. Len(q) BY <1>1, <3>2, <3>3
        <4> QED BY <1>1, <3>3, <4>1, Zenon
      <3>6. p = q
        <4>1. q \in Seq(Octets) BY DEF Octets
        <4> QED BY <3>3, <3>5, <4>1, SeqEqual, Zenon
      <3>7. r.kind = "frame" /\ r.payload = q /\ r.rest = t BY <3>1, <3>6
      <3> HIDE DEF r
      <3> QED BY <3>2, <3>4, <3>7, ZenonT(60) DEF r, kHeader
    <2> QED BY <2>5, <2>6, <2>7, Zenon
  <1> QED BY <1>2, <1>3, Zenon

\* Before the first request there is nothing to read.
LEMMA ReadsNothing ==
  ASSUME NEW c \in Clients
  PROVE  Reads(c, 0, 0, <<>>, TRUE)
  <1>1. PICK B : B = [i \in 0 .. 0 |-> 0] BY Zenon
  <1>2. B \in [0 .. 0 -> Nat] /\ B[0] = 0 BY <1>1
  <1>3. <<>> \in Seq(Octets) /\ Len(<<>>) = 0 /\ 0 \in 0 .. 0 OBVIOUS
  <1>4. 0 \in 0 .. Len(Requests[c]) OBVIOUS
  <1>5. \A i \in 0 .. 0 : B[i] <= 0 BY <1>2
  <1>6. Encodes(c, 0, <<>>, B) BY <1>2, <1>3, <1>4, <1>5 DEF Encodes
  <1>7. /\ B[0] + Len(<<>>) <= Len(<<>>) /\ B[0] + Len(<<>>) = Len(<<>>)
        /\ \A j \in 1 .. Len(<<>>) : <<>>[j] = <<>>[B[0] + j]
    BY <1>2, <1>3
  <1> QED BY <1>2, <1>3, <1>6, <1>7, Zenon DEF Reads

\* A request that is sent adds its frame to what is to be read.
LEMMA ReadsMore ==
  ASSUME NEW c \in Clients, NEW n \in Nat, NEW k \in Nat, NEW P \in Seq(Octets),
         Reads(c, n, k, P, TRUE), n < Len(Requests[c])
  PROVE  /\ Requests[c][n + 1] \in Seq(PayloadBytes)
         /\ Reads(c, n + 1, k, P \o encode_frame(Requests[c][n + 1]), TRUE)
  <1>0. Requests[c] \in Seq(Seq(PayloadBytes)) /\ Len(Requests[c]) \in Nat OBVIOUS
  <1>1. PICK q : q = Requests[c][n + 1] BY Zenon
  <1>2. PICK f : f = encode_frame(q) BY Zenon
  <1>3. q \in Seq(PayloadBytes) BY <1>0, <1>1
  <1>4. f \in Seq(Octets) /\ Len(f) = kHeader + Len(q) /\ Len(q) \in Nat BY <1>2, <1>3, FrameShape, Zenon
  <1>5. PICK S \in Seq(Octets), B \in [0 .. n -> Nat] :
           /\ Encodes(c, n, S, B)
           /\ k \in 0 .. n
           /\ \A j \in 1 .. Len(P) : P[j] = S[B[k] + j]
           /\ B[k] + Len(P) = Len(S)
    BY Zenon DEF Reads
  <1>6. /\ B[0] = 0 /\ B[n] = Len(S)
        /\ \A i \in 0 .. n : B[i] <= Len(S)
        /\ \A i \in 1 .. n : /\ B[i] = B[i - 1] + kHeader + Len(Requests[c][i])
                             /\ \A j \in 1 .. kHeader + Len(Requests[c][i]) :
                                  S[B[i - 1] + j] = encode_frame(Requests[c][i])[j]
    BY <1>5, Zenon DEF Encodes
  <1>7. PICK T : T = S \o f BY Zenon
  <1>8. /\ T \in Seq(Octets) /\ Len(T) = Len(S) + Len(f) /\ Len(S) \in Nat /\ Len(f) \in Nat
        /\ \A i \in 1 .. Len(S) : T[i] = S[i]
        /\ \A i \in 1 .. Len(f) : T[Len(S) + i] = f[i]
    BY <1>4, <1>7, Joins, ZenonT(60)
  <1>9. PICK C : C = [i \in 0 .. n + 1 |-> IF i <= n THEN B[i] ELSE Len(S) + Len(f)] BY Zenon
  <1>10. /\ C \in [0 .. n + 1 -> Nat]
         /\ \A i \in 0 .. n : C[i] = B[i]
         /\ C[n + 1] = Len(T)
    BY <1>8, <1>9
  <1>11. Encodes(c, n + 1, T, C)
    <2>1. n + 1 \in 0 .. Len(Requests[c]) BY <1>0
    <2>2. C[0] = 0 BY <1>6, <1>10
    <2>3. ASSUME NEW i \in 0 .. n + 1 PROVE C[i] <= Len(T)
      <3>0. Len(S) \in Nat /\ Len(f) \in Nat /\ Len(T) = Len(S) + Len(f) BY <1>8, Zenon
      <3>1. CASE i \in 0 .. n
        <4>1. C[i] = B[i] /\ B[i] \in Nat /\ B[i] <= Len(S) BY <1>6, <1>10, <3>1, Zenon
        <4> QED BY <3>0, <4>1
      <3>2. CASE i = n + 1
        <4>1. C[i] = Len(T) BY <1>10, <3>2, Zenon
        <4> QED BY <3>0, <4>1
      <3> QED BY <3>1, <3>2
    <2>4. ASSUME NEW i \in 1 .. n
          PROVE  /\ C[i] = C[i - 1] + kHeader + Len(Requests[c][i])
                 /\ \A j \in 1 .. kHeader + Len(Requests[c][i]) :
                      T[C[i - 1] + j] = encode_frame(Requests[c][i])[j]
      <3>1. i \in 0 .. n /\ i - 1 \in 0 .. n OBVIOUS
      <3>2. C[i] = B[i] /\ C[i - 1] = B[i - 1] /\ B[i] \in Nat /\ B[i - 1] \in Nat BY <1>10, <3>1, Zenon
      <3>3. B[i] = B[i - 1] + kHeader + Len(Requests[c][i]) /\ B[i] <= Len(S) BY <1>6, <3>1, Zenon
      <3>4. ASSUME NEW j \in 1 .. kHeader + Len(Requests[c][i])
            PROVE  T[C[i - 1] + j] = encode_frame(Requests[c][i])[j]
        <4>1. Len(Requests[c][i]) \in Nat BY <1>0
        <4>2. B[i - 1] + j \in 1 .. Len(S) BY <1>8, <3>2, <3>3, <4>1, Within, Zenon
        <4>3. T[B[i - 1] + j] = S[B[i - 1] + j] BY <1>8, <4>2, Zenon
        <4>4. S[B[i - 1] + j] = encode_frame(Requests[c][i])[j] BY <1>6, Zenon
        <4> QED BY <3>2, <4>3, <4>4, Zenon
      <3> QED BY <3>2, <3>3, <3>4, Zenon
    <2>5. /\ C[n + 1] = C[n] + kHeader + Len(Requests[c][n + 1])
          /\ \A j \in 1 .. kHeader + Len(Requests[c][n + 1]) :
               T[C[n] + j] = encode_frame(Requests[c][n + 1])[j]
      <3>1. C[n] = Len(S) BY <1>6, <1>10
      <3>2. C[n + 1] = C[n] + kHeader + Len(q) BY <1>4, <1>8, <1>10, <3>1 DEF kHeader
      <3>3. \A j \in 1 .. kHeader + Len(q) : T[C[n] + j] = f[j] BY <1>4, <1>8, <3>1, Zenon
      <3> QED BY <1>1, <1>2, <3>2, <3>3, Zenon
    <2>6. ASSUME NEW i \in 1 .. n + 1
          PROVE  /\ C[i] = C[i - 1] + kHeader + Len(Requests[c][i])
                 /\ \A j \in 1 .. kHeader + Len(Requests[c][i]) :
                      T[C[i - 1] + j] = encode_frame(Requests[c][i])[j]
      <3>1. CASE i \in 1 .. n BY <2>4, <3>1, Zenon
      <3>2. CASE i = n + 1
        <4>1. i - 1 = n BY <3>2
        <4> QED BY <2>5, <3>2, <4>1, Zenon
      <3> QED BY <3>1, <3>2
    <2> QED BY <1>10, <2>1, <2>2, <2>3, <2>6, Zenon DEF Encodes
  <1>12. PICK Q : Q = P \o f BY Zenon
  <1>13. /\ Q \in Seq(Octets) /\ Len(Q) = Len(P) + Len(f) /\ Len(P) \in Nat
         /\ \A i \in 1 .. Len(P) : Q[i] = P[i]
         /\ \A i \in 1 .. Len(f) : Q[Len(P) + i] = f[i]
    BY <1>4, <1>12, Joins, ZenonT(60)
  <1>14. k \in 0 .. n + 1 /\ C[k] = B[k] /\ B[k] \in Nat
    <2>1. k \in 0 .. n BY <1>5, Zenon
    <2>2. k \in 0 .. n + 1 BY <2>1
    <2> QED BY <1>10, <2>1, <2>2, Zenon
  <1>15. C[k] + Len(Q) = Len(T)
    <2>1. B[k] + Len(P) = Len(S) /\ C[k] = B[k] /\ B[k] \in Nat BY <1>5, <1>14, Zenon
    <2>2. Len(T) = Len(S) + Len(f) /\ Len(Q) = Len(P) + Len(f) /\ Len(P) \in Nat /\ Len(f) \in Nat
      BY <1>8, <1>13, Zenon
    <2>3. B[k] + (Len(P) + Len(f)) = (B[k] + Len(P)) + Len(f) BY <2>1, <2>2, Regrouped, ZenonT(60)
    <2> QED BY <2>1, <2>2, <2>3, Zenon
  <1>16. ASSUME NEW j \in 1 .. Len(Q) PROVE Q[j] = T[C[k] + j]
    <2>1. CASE j \in 1 .. Len(P)
      <3>1. B[k] + j \in 1 .. Len(S) BY <1>5, <1>8, <1>13, <1>14, <2>1
      <3> QED BY <1>5, <1>8, <1>13, <1>14, <2>1, <3>1, Zenon
    <2>2. CASE j \notin 1 .. Len(P)
      <3>1. PICK i \in 1 .. Len(f) : j = Len(P) + i
        <4>1. j - Len(P) \in 1 .. Len(f) /\ j = Len(P) + (j - Len(P)) BY <1>8, <1>13, <2>2
        <4> QED BY <4>1, Zenon
      <3>2. B[k] + j = Len(S) + i
        <4>1. B[k] + Len(P) = Len(S) BY <1>5, Zenon
        <4>2. B[k] \in Nat /\ Len(P) \in Nat BY <1>13, <1>14, Zenon
        <4>3. i \in Nat OBVIOUS
        <4>4. B[k] + (Len(P) + i) = (B[k] + Len(P)) + i BY <4>2, <4>3, Regrouped
        <4> QED BY <3>1, <4>1, <4>4, Zenon
      <3>3. Q[j] = f[i] BY <1>13, <3>1, Zenon
      <3>4. T[Len(S) + i] = f[i] BY <1>8, Zenon
      <3> QED BY <1>14, <3>2, <3>3, <3>4, Zenon
    <2> QED BY <2>1, <2>2, Zenon
  <1>17. C[k] + Len(Q) <= Len(T) BY <1>8, <1>15
  <1>18. Reads(c, n + 1, k, Q, TRUE)
    BY <1>8, <1>10, <1>11, <1>14, <1>15, <1>16, <1>17, Zenon DEF Reads
  <1> QED BY <1>1, <1>2, <1>3, <1>12, <1>18, Zenon

\* A stream that is cut off is still the beginning of what was sent.
LEMMA ReadsPart ==
  ASSUME NEW c \in Clients, NEW n \in Nat, NEW k \in Nat, NEW P \in Seq(Octets), NEW Q \in Seq(Octets),
         NEW a \in BOOLEAN, Reads(c, n, k, P, a),
         Len(Q) <= Len(P), \A j \in 1 .. Len(Q) : Q[j] = P[j]
  PROVE  Reads(c, n, k, Q, FALSE)
  <1>1. PICK S \in Seq(Octets), B \in [0 .. n -> Nat] :
           /\ Encodes(c, n, S, B)
           /\ k \in 0 .. n
           /\ B[k] + Len(P) <= Len(S)
           /\ \A j \in 1 .. Len(P) : P[j] = S[B[k] + j]
    BY Zenon DEF Reads
  <1>2. Len(P) \in Nat /\ Len(Q) \in Nat /\ Len(S) \in Nat OBVIOUS
  <1>3. B[k] \in Nat BY <1>1, Zenon
  <1>4. B[k] + Len(Q) <= Len(S)
    <2>1. B[k] + Len(P) <= Len(S) BY <1>1, Zenon
    <2> QED BY <1>2, <1>3, <2>1
  <1>5. ASSUME NEW j \in 1 .. Len(Q) PROVE Q[j] = S[B[k] + j]
    <2>1. j \in 1 .. Len(P) BY <1>2
    <2> QED BY <1>1, <2>1, Zenon
  <1> QED BY <1>1, <1>4, <1>5, Zenon DEF Reads

\* When all frames have been read there is nothing left.
LEMMA ReadsAll ==
  ASSUME NEW c \in Clients, NEW n \in Nat, NEW P \in Seq(Octets), NEW a \in BOOLEAN, Reads(c, n, n, P, a)
  PROVE  P = <<>>
  <1>1. PICK S \in Seq(Octets), B \in [0 .. n -> Nat] : B[n] = Len(S) /\ B[n] + Len(P) <= Len(S)
    BY Zenon DEF Reads, Encodes
  <1>2. Len(S) \in Nat /\ Len(P) \in Nat OBVIOUS
  <1>3. Len(S) + Len(P) <= Len(S) BY <1>1, Zenon
  <1>4. Len(P) = 0 BY <1>2, <1>3
  <1> QED BY <1>4

\* No more frames are read than were sent, and no more are sent than there are.
LEMMA ReadsBounds ==
  ASSUME NEW c \in Clients, NEW n \in Nat, NEW k \in Nat, NEW P, NEW a \in BOOLEAN, Reads(c, n, k, P, a)
  PROVE  k <= n /\ n <= Len(Requests[c])
  <1>1. k \in 0 .. n /\ n \in 0 .. Len(Requests[c]) BY Zenon DEF Reads, Encodes
  <1> QED BY <1>1

\* try_extract takes the next request from the beginning D of the stream, finds
\* nothing yet, or finds that the next request is too long.
LEMMA ReadsFrame ==
  ASSUME NEW c \in Clients, NEW n \in Nat, NEW k \in Nat, NEW D \in Seq(Octets), NEW X \in Seq(Octets),
         NEW a \in BOOLEAN, Reads(c, n, k, D \o X, a)
  PROVE  LET r == try_extract(D) IN
         /\ r.kind \in {"nullopt", "frame", "throw"}
         /\ r.kind = "throw" => k < n /\ Len(Requests[c][k + 1]) > kMaxFrameSize
         /\ r.kind = "frame" => /\ k < n /\ n <= Len(Requests[c])
                                /\ r.payload = Requests[c][k + 1]
                                /\ r.rest \in Seq(Octets)
                                /\ Reads(c, n, k + 1, r.rest \o X, a)
  <1>0. Requests[c] \in Seq(Seq(PayloadBytes)) /\ Len(Requests[c]) \in Nat OBVIOUS
  <1>1. PICK P : P = D \o X BY Zenon
  <1>2. /\ P \in Seq(Octets) /\ Len(P) = Len(D) + Len(X) /\ Len(D) \in Nat /\ Len(X) \in Nat
        /\ \A i \in 1 .. Len(D) : P[i] = D[i]
        /\ \A i \in 1 .. Len(X) : P[Len(D) + i] = X[i]
    BY <1>1, Joins
  <1>3. PICK S \in Seq(Octets), B \in [0 .. n -> Nat] :
           /\ Encodes(c, n, S, B)
           /\ k \in 0 .. n
           /\ B[k] + Len(P) <= Len(S)
           /\ \A j \in 1 .. Len(P) : P[j] = S[B[k] + j]
           /\ a => B[k] + Len(P) = Len(S)
    BY <1>1, Zenon DEF Reads
  <1>4. Len(S) \in Nat /\ B[k] \in Nat BY <1>3
  <1>5. CASE k = n
    <2>1. Reads(c, n, n, P, a) BY <1>1, <1>5
    <2>2. P = <<>> BY <1>2, <2>1, ReadsAll
    <2>3. Len(D) = 0 BY <1>2, <2>2
    <2>4. Len(D) < kHeader BY <2>3 DEF kHeader
    <2>5. try_extract(D) = [kind |-> "nullopt"] BY <2>4, Zenon DEF try_extract
    <2> QED BY <2>5
  <1>6. CASE k # n
    <2>1. k < n /\ k + 1 \in 1 .. n /\ (k + 1) - 1 = k /\ n <= Len(Requests[c]) /\ k + 1 \in 1 .. Len(Requests[c])
      <3>1. n \in 0 .. Len(Requests[c]) /\ k \in 0 .. n BY <1>3, Zenon DEF Encodes
      <3> QED BY <1>0, <1>6, <3>1
    <2>2. PICK q : q = Requests[c][k + 1] BY Zenon
    <2>3. q \in Seq(PayloadBytes) /\ Len(q) \in Nat BY <1>0, <2>1, <2>2
    <2>4. PICK m \in Nat : m = kHeader + Len(q) BY <2>3 DEF kHeader
    <2>5. B[k + 1] = B[k] + m /\ \A j \in 1 .. m : S[B[k] + j] = encode_frame(q)[j]
      <3>0. \A i \in 1 .. n :
              /\ B[i] = B[i - 1] + kHeader + Len(Requests[c][i])
              /\ \A j \in 1 .. kHeader + Len(Requests[c][i]) :
                   S[B[i - 1] + j] = encode_frame(Requests[c][i])[j]
        BY <1>3, Zenon DEF Encodes
      <3>a. /\ B[k + 1] = B[(k + 1) - 1] + kHeader + Len(q)
            /\ \A j \in 1 .. kHeader + Len(q) : S[B[(k + 1) - 1] + j] = encode_frame(q)[j]
        BY <2>1, <2>2, <3>0, Zenon
      <3>1. /\ B[k + 1] = B[k] + kHeader + Len(q)
            /\ \A j \in 1 .. kHeader + Len(q) : S[B[k] + j] = encode_frame(q)[j]
        BY <2>1, <3>a, Zenon
      <3>2. B[k] + kHeader + Len(q) = B[k] + m
        <4>1. kHeader \in Nat BY DEF kHeader
        <4> QED BY <1>4, <2>3, <2>4, <4>1, Regrouped
      <3> QED BY <2>4, <3>1, <3>2, Zenon
    <2>6. ASSUME NEW j \in 1 .. Len(D), j <= m PROVE D[j] = encode_frame(q)[j]
      <3>1. j \in 1 .. m /\ j \in 1 .. Len(P) BY <1>2, <2>4, <2>6
      <3> QED BY <1>2, <1>3, <2>5, <3>1, Zenon
    <2>7. PICK r : r = try_extract(D) BY Zenon
    <2>8. /\ r.kind \in {"nullopt", "frame", "throw"}
          /\ r.kind = "throw" => Len(q) > kMaxFrameSize
          /\ r.kind = "frame" =>
               /\ m <= Len(D)
               /\ r.payload = q
               /\ r.rest \in Seq(Octets) /\ Len(r.rest) = Len(D) - m
               /\ \A j \in 1 .. Len(r.rest) : r.rest[j] = D[m + j]
      <3>1. \A j \in 1 .. Len(D) : j <= kHeader + Len(q) => D[j] = encode_frame(q)[j]
        BY <2>4, <2>6, Zenon
      <3>2. LET u == try_extract(D) IN
            /\ u.kind \in {"nullopt", "frame", "throw"}
            /\ u.kind = "throw" => Len(q) > kMaxFrameSize /\ kHeader <= Len(D)
            /\ u.kind = "frame" =>
                 /\ kHeader + Len(q) <= Len(D)
                 /\ u.payload = q
                 /\ u.rest \in Seq(Octets) /\ Len(u.rest) = Len(D) - (kHeader + Len(q))
                 /\ \A j \in 1 .. Len(u.rest) : u.rest[j] = D[kHeader + Len(q) + j]
        BY <2>3, <3>1, NextFrame, Zenon
      <3> QED BY <2>4, <2>7, <3>2, Zenon
    <2>9. ASSUME r.kind = "frame" PROVE Reads(c, n, k + 1, r.rest \o X, a)
      <3>1. PICK t : t = r.rest BY Zenon
      <3>2. /\ m <= Len(D) /\ t \in Seq(Octets) /\ Len(t) = Len(D) - m
            /\ \A j \in 1 .. Len(t) : t[j] = D[m + j]
        BY <2>8, <2>9, <3>1, Zenon
      <3>3. PICK R : R = t \o X BY Zenon
      <3>4. /\ R \in Seq(Octets) /\ Len(R) = Len(t) + Len(X) /\ Len(t) \in Nat
            /\ \A i \in 1 .. Len(t) : R[i] = t[i]
            /\ \A i \in 1 .. Len(X) : R[Len(t) + i] = X[i]
        <4>1. t \in Seq(Octets) BY <3>2, Zenon
        <4> QED BY <3>3, <4>1, Joins
      <3>5. ASSUME NEW j \in 1 .. Len(R) PROVE m + j \in 1 .. Len(P) /\ R[j] = P[m + j]
        <4>0. Len(D) = m + Len(t) /\ Len(t) \in Nat BY <1>2, <2>4, <3>2
        <4>1. CASE j \in 1 .. Len(t)
          <5>1. m + j \in 1 .. Len(D) /\ m + j \in 1 .. Len(P) BY <1>2, <2>4, <4>0, <4>1
          <5> QED BY <1>2, <3>2, <3>4, <4>1, <5>1, Zenon
        <4>2. CASE j \notin 1 .. Len(t)
          <5>1. PICK i \in 1 .. Len(X) : j = Len(t) + i
            <6>1. j - Len(t) \in 1 .. Len(X) /\ j = Len(t) + (j - Len(t)) BY <1>2, <3>4, <4>2
            <6> QED BY <6>1, Zenon
          <5>2. m + j = Len(D) + i
            <6>1. m + (Len(t) + i) = (m + Len(t)) + i
              <7>1. i \in Nat OBVIOUS
              <7> QED BY <4>0, <7>1, Regrouped
            <6> QED BY <4>0, <5>1, <6>1, Zenon
          <5>3. Len(D) + i \in 1 .. Len(P)
            <6>1. Len(P) = Len(D) + Len(X) /\ Len(D) \in Nat /\ Len(X) \in Nat BY <1>2, Zenon
            <6> QED BY <5>1, <6>1
          <5> QED BY <1>2, <3>4, <5>1, <5>2, <5>3, Zenon
        <4> QED BY <4>1, <4>2, Zenon
      <3>6. ASSUME NEW j \in 1 .. Len(R) PROVE R[j] = S[B[k + 1] + j]
        <4>1. j \in Nat OBVIOUS
        <4>2. B[k] + (m + j) = (B[k] + m) + j BY <1>4, <4>1, Regrouped
        <4>3. m + j \in 1 .. Len(P) /\ R[j] = P[m + j] BY <3>5, Zenon
        <4>4. P[m + j] = S[B[k] + (m + j)] BY <1>3, <4>3, Zenon
        <4>5. B[k] + (m + j) = B[k + 1] + j BY <2>5, <4>2, Zenon
        <4> QED BY <4>3, <4>4, <4>5, Zenon
      <3>7. B[k + 1] + Len(R) = B[k] + Len(P)
        <4>1. Len(P) = m + Len(R) BY <1>2, <2>4, <3>2, <3>4
        <4>2. B[k] + (m + Len(R)) = (B[k] + m) + Len(R) BY <1>2, <1>4, <3>4, Regrouped
        <4> QED BY <2>5, <4>1, <4>2, Zenon
      <3>8. k + 1 \in 0 .. n BY <2>1
      <3>9. Reads(c, n, k + 1, R, a) BY <1>3, <3>6, <3>7, <3>8, Zenon DEF Reads
      <3> QED BY <3>1, <3>3, <3>9, Zenon
    <2> QED BY <2>1, <2>2, <2>7, <2>8, <2>9, Zenon
  <1> QED BY <1>5, <1>6, Zenon

(***************************************************************************)
(* The inductive invariant                                                 *)
(***************************************************************************)

ClientPcs == {"off", "idle", "send", "receive", "gone"}
ClientState ==
  [pc : ClientPcs, out : Seq(Octets), buf : Seq(Octets), sent : Nat, replies : Seq(Seq(PayloadBytes))]

Peers == {"open", "closed", "reset"}
WireState == [up : Seq(Octets), down : Seq(Octets), peer : Peers, server : {"open", "closed"}]

\* Where the thread has a connection in hand, and where it sends.
Sending == {"reply", "push"}
Serving == {"recv", "extract", "reply", "push"}
ThreadPcs == {"idle", "dispatch", "accept", "recv", "extract", "reply", "push", "undefined", "destroyed"}
ThreadState == [pc : ThreadPcs, fd : Fds \cup {Listener, None}, out : Seq(Octets)]

Replies == [fd : Fds, payload : Seq(PayloadBytes)]
Lives == {"none", "up", "down"}

PeerType == client \in [Clients -> ClientState] /\ wire \in [Clients -> WireState] /\ backlog \in Seq(Clients)
TableType ==
  /\ fds \in [Fds -> Clients \cup {None}]
  /\ connections \in [DOMAIN connections -> Seq(Octets)]
  /\ callbacks \subseteq Fds \cup {Listener}
  /\ life \in [Clients -> Lives]
ThreadType == at \in ThreadState /\ todo \subseteq Replies /\ got \in [Clients -> Seq(Seq(PayloadBytes))]

(***************************************************************************)
(* What the steps of a client do                                           *)
(***************************************************************************)

\* A sequence is what its first n elements and the others make.
LEMMA TakeDrop ==
  ASSUME NEW s \in Seq(Octets), NEW n \in 1 .. Len(s)
  PROVE  /\ SubSeq(s, 1, n) \in Seq(Octets) /\ Drop(s, n) \in Seq(Octets)
         /\ SubSeq(s, 1, n) \o Drop(s, n) = s
         /\ Len(Drop(s, n)) = Len(s) - n
         /\ Drop(s, n) = <<>> <=> ~(n < Len(s))
  <1>1. SubSeq(s, 1, n) \in Seq(Octets) /\ Len(SubSeq(s, 1, n)) = n OBVIOUS
  <1>2. Drop(s, n) \in Seq(Octets) /\ Len(Drop(s, n)) = Len(s) - n BY DEF Drop
  <1>3. SubSeq(s, 1, n) \o Drop(s, n) = s BY DEF Drop
  <1>4. Drop(s, n) = <<>> <=> Len(Drop(s, n)) = 0 BY <1>2, EmptySeq
  <1>5. Len(Drop(s, n)) = 0 <=> ~(n < Len(s)) BY <1>2
  <1> QED BY <1>1, <1>2, <1>3, <1>4, <1>5, Zenon

\* Concatenation is associative, and the empty sequence is neutral.
LEMMA Concat ==
  ASSUME NEW s \in Seq(Octets), NEW t \in Seq(Octets), NEW u \in Seq(Octets)
  PROVE  /\ (s \o t) \o u = s \o (t \o u)
         /\ s \o <<>> = s /\ <<>> \o s = s
  BY ConcatAssociative, ConcatEmptySeq

Assoc(s, t, u) == (s \o t) \o u = s \o (t \o u)

\* The same, as a fact about three sequences.
LEMMA Associates ==
  ASSUME NEW s \in Seq(Octets), NEW t \in Seq(Octets), NEW u \in Seq(Octets)
  PROVE  Assoc(s, t, u)
  BY ConcatAssociative DEF Assoc

\* Nothing and nothing make nothing.
LEMMA Nothing == <<>> \in Seq(Octets) /\ <<>> \o <<>> = <<>> /\ (<<>> \o <<>>) \o <<>> = <<>>
  OBVIOUS

\* What a sequence of payloads consists of when one is added.
LEMMA Appends ==
  ASSUME NEW g \in Seq(Seq(PayloadBytes)), NEW q \in Seq(PayloadBytes)
  PROVE  /\ Append(g, q) \in Seq(Seq(PayloadBytes)) /\ Len(Append(g, q)) = Len(g) + 1
         /\ Append(g, q)[Len(g) + 1] = q /\ \A i \in 1 .. Len(g) : Append(g, q)[i] = g[i]
  <1>1. PICK S : S = Seq(PayloadBytes) BY Zenon
  <1>2. /\ Append(g, q) \in Seq(S) /\ Len(Append(g, q)) = Len(g) + 1
        /\ \A i \in 1 .. Len(g) : Append(g, q)[i] = g[i]
    BY <1>1, AppendProperties
  <1>3. Append(g, q)[Len(g) + 1] = q BY <1>1, AppendProperties
  <1> QED BY <1>1, <1>2, <1>3, Zenon

\* A step that changes one client.
LEMMA ClientSet ==
  ASSUME PeerType, NEW c \in Clients, NEW x \in ClientState, client' = [client EXCEPT ![c] = x]
  PROVE  /\ client' \in [Clients -> ClientState] /\ client'[c] = x
         /\ \A d \in Clients \ {c} : client'[d] = client[d]
  BY Zenon DEF PeerType

\* A step that changes one socket.
LEMMA WireSet ==
  ASSUME PeerType, NEW c \in Clients, NEW x \in WireState, wire' = [wire EXCEPT ![c] = x]
  PROVE  /\ wire' \in [Clients -> WireState] /\ wire'[c] = x
         /\ \A d \in Clients \ {c} : wire'[d] = wire[d]
  BY Zenon DEF PeerType

\* The fields of a client and of its socket.
LEMMA PeerFields ==
  ASSUME PeerType, NEW c \in Clients
  PROVE  /\ client[c] \in ClientState /\ wire[c] \in WireState
         /\ client[c].pc \in ClientPcs /\ client[c].out \in Seq(Octets) /\ client[c].buf \in Seq(Octets)
         /\ client[c].sent \in Nat /\ client[c].replies \in Seq(Seq(PayloadBytes))
         /\ wire[c].up \in Seq(Octets) /\ wire[c].down \in Seq(Octets) /\ wire[c].peer \in Peers
         /\ wire[c].server \in {"open", "closed"}
  BY Zenon DEF PeerType, ClientState, WireState

\* TcpClient connects: nothing but where it is changes.
LEMMA ConnectEffect ==
  ASSUME PeerType, NEW c \in Clients, Connect(c)
  PROVE  /\ client' \in [Clients -> ClientState]
         /\ client'[c].pc = "idle" /\ client'[c].out = client[c].out /\ client'[c].buf = client[c].buf
         /\ client'[c].sent = client[c].sent /\ client'[c].replies = client[c].replies
         /\ \A d \in Clients \ {c} : client'[d] = client[d]
  <1>1. client[c] \in ClientState BY PeerFields, Zenon
  <1>2. client' = [client EXCEPT ![c] = [client[c] EXCEPT !.pc = "idle"]] BY Zenon DEF Connect
  <1>3. PICK x : x = [client[c] EXCEPT !.pc = "idle"] BY Zenon
  <1>4. /\ x \in ClientState /\ x.pc = "idle" /\ x.out = client[c].out /\ x.buf = client[c].buf
        /\ x.sent = client[c].sent /\ x.replies = client[c].replies
    BY <1>1, <1>3, Zenon DEF ClientState, ClientPcs
  <1>5. client' = [client EXCEPT ![c] = x] BY <1>2, <1>3, Zenon
  <1> QED BY <1>4, <1>5, ClientSet, Zenon

\* TcpClient::send begins: the frame of the next request is what it has to write.
LEMMA ClientSendEffect ==
  ASSUME PeerType, NEW c \in Clients, ClientSend(c)
  PROVE  /\ client' \in [Clients -> ClientState]
         /\ client'[c].pc = "send" /\ client'[c].out = encode_frame(Requests[c][client[c].sent + 1])
         /\ client'[c].buf = client[c].buf
         /\ client'[c].sent = client[c].sent + 1 /\ client'[c].replies = client[c].replies
         /\ \A d \in Clients \ {c} : client'[d] = client[d]
  <1>1. client[c] \in ClientState /\ client[c].sent \in Nat BY PeerFields, Zenon
  <1>2. client[c].sent < Len(Requests[c]) BY Zenon DEF ClientSend
  <1>3. client[c].sent + 1 \in Nat /\ Requests[c][client[c].sent + 1] \in Seq(PayloadBytes) BY <1>1, <1>2
  <1>4. PICK f : f = encode_frame(Requests[c][client[c].sent + 1]) BY Zenon
  <1>5. f \in Seq(Octets) BY <1>3, <1>4, FrameShape, Zenon
  <1>6. PICK x : x = [client[c] EXCEPT !.pc = "send", !.sent = client[c].sent + 1, !.out = f] BY Zenon
  <1>7. client' = [client EXCEPT ![c] = x] BY <1>4, <1>6, Zenon DEF ClientSend
  <1>8. /\ x \in ClientState /\ x.pc = "send" /\ x.out = f /\ x.buf = client[c].buf
        /\ x.sent = client[c].sent + 1 /\ x.replies = client[c].replies
    BY <1>1, <1>3, <1>5, <1>6, Zenon DEF ClientState, ClientPcs
  <1> QED BY <1>4, <1>7, <1>8, ClientSet, Zenon

\* send() has written the part a of what was left, and b is left.
LEMMA ClientWriteEffect ==
  ASSUME PeerType, NEW c \in Clients, ClientWrite(c)
  PROVE  \E a, b \in Seq(Octets) :
           /\ a \o b = client[c].out
           /\ client' \in [Clients -> ClientState] /\ wire' \in [Clients -> WireState]
           /\ client'[c].pc = IF b # <<>> THEN "send" ELSE IF c \in OneWay THEN "idle" ELSE "receive"
           /\ client'[c].out = b /\ client'[c].buf = <<>>
           /\ client'[c].sent = client[c].sent /\ client'[c].replies = client[c].replies
           /\ wire'[c].up = wire[c].up \o a /\ wire'[c].down = wire[c].down
           /\ wire'[c].peer = wire[c].peer
           /\ \A d \in Clients \ {c} : client'[d] = client[d] /\ wire'[d] = wire[d]
  <1>1. PICK n \in 1 .. Lesser(Len(client[c].out), BufCap - Len(wire[c].up)) :
          /\ wire' = [wire EXCEPT ![c].up = @ \o SubSeq(client[c].out, 1, n)]
          /\ client' = [client EXCEPT ![c] =
                          [client[c] EXCEPT !.out = Drop(client[c].out, n), !.buf = <<>>,
                                            !.pc = IF n < Len(client[c].out) THEN "send"
                                                   ELSE IF c \in OneWay THEN "idle" ELSE "receive"]]
    BY Zenon DEF ClientWrite
  <1>2. /\ client[c] \in ClientState /\ wire[c] \in WireState /\ client[c].out \in Seq(Octets)
        /\ wire[c].up \in Seq(Octets)
    BY PeerFields, Zenon
  <1>3. n \in 1 .. Len(client[c].out)
    <2>1. Len(client[c].out) \in Nat /\ Len(wire[c].up) \in Nat BY <1>2, LenProperties
    <2> QED BY <2>1 DEF Lesser
  <1>4. PICK a, b \in Seq(Octets) :
          /\ a = SubSeq(client[c].out, 1, n) /\ b = Drop(client[c].out, n) /\ a \o b = client[c].out
          /\ b = <<>> <=> ~(n < Len(client[c].out))
    <2>1. PICK s \in Seq(Octets) : s = client[c].out BY <1>2, Zenon
    <2>2. n \in 1 .. Len(s) BY <1>3, <2>1, Zenon
    <2>3. /\ SubSeq(s, 1, n) \in Seq(Octets) /\ Drop(s, n) \in Seq(Octets)
          /\ SubSeq(s, 1, n) \o Drop(s, n) = s /\ (Drop(s, n) = <<>> <=> ~(n < Len(s)))
      BY <2>2, TakeDrop, Zenon
    <2> QED BY <2>1, <2>3, Zenon
  <1>5. PICK p \in ClientPcs : /\ p = IF n < Len(client[c].out) THEN "send" ELSE IF c \in OneWay THEN "idle" ELSE "receive"
                               /\ p = IF b # <<>> THEN "send" ELSE IF c \in OneWay THEN "idle" ELSE "receive"
    BY <1>4, Zenon DEF ClientPcs
  <1>6. PICK x : x = [client[c] EXCEPT !.out = b, !.buf = <<>>, !.pc = p] BY Zenon
  <1>7. client' = [client EXCEPT ![c] = x] BY <1>1, <1>4, <1>5, <1>6, Zenon
  <1>8. <<>> \in Seq(Octets) BY Nothing, Zenon
  <1>9. /\ x \in ClientState /\ x.pc = p /\ x.out = b /\ x.buf = <<>> /\ x.sent = client[c].sent
        /\ x.replies = client[c].replies
    BY <1>2, <1>6, <1>8, Zenon DEF ClientState
  <1>10. PICK u \in Seq(Octets) : u = wire[c].up \o a BY <1>2, Joins, Zenon
  <1>11. PICK y : y = [wire[c] EXCEPT !.up = u] BY Zenon
  <1>12. wire' = [wire EXCEPT ![c] = y] BY <1>1, <1>4, <1>10, <1>11, Zenon
  <1>13. y \in WireState /\ y.up = u /\ y.down = wire[c].down /\ y.peer = wire[c].peer
    BY <1>2, <1>11, Zenon DEF WireState
  <1>14. /\ client' \in [Clients -> ClientState] /\ client'[c] = x
         /\ \A d \in Clients \ {c} : client'[d] = client[d]
    BY <1>7, <1>9, ClientSet, Zenon
  <1>15. /\ wire' \in [Clients -> WireState] /\ wire'[c] = y
         /\ \A d \in Clients \ {c} : wire'[d] = wire[d]
    BY <1>12, <1>13, WireSet, Zenon
  <1> QED BY <1>4, <1>5, <1>9, <1>10, <1>13, <1>14, <1>15, Zenon

\* receive_one() has found a frame.
LEMMA ClientReceiveFrameEffect ==
  ASSUME PeerType, NEW c \in Clients, NEW q \in Seq(PayloadBytes),
         client' = [client EXCEPT ![c] =
                      [client[c] EXCEPT !.pc = "idle", !.buf = <<>>, !.replies = Append(client[c].replies, q)]]
  PROVE  /\ client' \in [Clients -> ClientState]
         /\ client'[c].pc = "idle" /\ client'[c].out = client[c].out /\ client'[c].buf = <<>>
         /\ client'[c].sent = client[c].sent /\ client'[c].replies = Append(client[c].replies, q)
         /\ \A d \in Clients \ {c} : client'[d] = client[d]
  <1>1. client[c] \in ClientState /\ client[c].replies \in Seq(Seq(PayloadBytes)) BY PeerFields, Zenon
  <1>2. PICK t \in Seq(Seq(PayloadBytes)) : t = Append(client[c].replies, q) BY <1>1, Appends, Zenon
  <1>3. PICK x : x = [client[c] EXCEPT !.pc = "idle", !.buf = <<>>, !.replies = t] BY Zenon
  <1>4. client' = [client EXCEPT ![c] = x] BY <1>2, <1>3, Zenon
  <1>5. <<>> \in Seq(Octets) BY Nothing, Zenon
  <1>6. /\ x \in ClientState /\ x.pc = "idle" /\ x.out = client[c].out /\ x.buf = <<>>
        /\ x.sent = client[c].sent /\ x.replies = t
    BY <1>1, <1>3, <1>5, Zenon DEF ClientState, ClientPcs
  <1> QED BY <1>2, <1>4, <1>6, ClientSet, Zenon

\* receive_one() has read the part a of what has arrived, and b is left.
LEMMA ClientReceiveMoreEffect ==
  ASSUME PeerType, NEW c \in Clients, NEW n \in 1 .. Len(wire[c].down),
         client' = [client EXCEPT ![c].buf = @ \o SubSeq(wire[c].down, 1, n)],
         wire' = [wire EXCEPT ![c].down = Drop(@, n)]
  PROVE  \E a, b \in Seq(Octets) :
           /\ a \o b = wire[c].down
           /\ client' \in [Clients -> ClientState] /\ wire' \in [Clients -> WireState]
           /\ client'[c].pc = client[c].pc /\ client'[c].out = client[c].out
           /\ client'[c].buf = client[c].buf \o a
           /\ client'[c].sent = client[c].sent /\ client'[c].replies = client[c].replies
           /\ wire'[c].up = wire[c].up /\ wire'[c].down = b /\ wire'[c].peer = wire[c].peer
           /\ \A d \in Clients \ {c} : client'[d] = client[d] /\ wire'[d] = wire[d]
  <1>1. /\ client[c] \in ClientState /\ wire[c] \in WireState /\ client[c].buf \in Seq(Octets)
        /\ wire[c].down \in Seq(Octets)
    BY PeerFields, Zenon
  <1>2. PICK a, b \in Seq(Octets) :
          a = SubSeq(wire[c].down, 1, n) /\ b = Drop(wire[c].down, n) /\ a \o b = wire[c].down
    BY <1>1, TakeDrop, Zenon
  <1>3. PICK u \in Seq(Octets) : u = client[c].buf \o a BY <1>1, Joins, Zenon
  <1>4. PICK x : x = [client[c] EXCEPT !.buf = u] BY Zenon
  <1>5. PICK y : y = [wire[c] EXCEPT !.down = b] BY Zenon
  <1>6. client' = [client EXCEPT ![c] = x] BY <1>2, <1>3, <1>4, Zenon
  <1>7. wire' = [wire EXCEPT ![c] = y] BY <1>2, <1>5, Zenon
  <1>8. /\ x \in ClientState /\ x.pc = client[c].pc /\ x.out = client[c].out /\ x.buf = u
        /\ x.sent = client[c].sent /\ x.replies = client[c].replies
    BY <1>1, <1>4, Zenon DEF ClientState
  <1>9. y \in WireState /\ y.up = wire[c].up /\ y.down = b /\ y.peer = wire[c].peer
    BY <1>1, <1>5, Zenon DEF WireState
  <1>10. /\ client' \in [Clients -> ClientState] /\ client'[c] = x
         /\ \A d \in Clients \ {c} : client'[d] = client[d]
    BY <1>6, <1>8, ClientSet, Zenon
  <1>11. /\ wire' \in [Clients -> WireState] /\ wire'[c] = y
         /\ \A d \in Clients \ {c} : wire'[d] = wire[d]
    BY <1>7, <1>9, WireSet, Zenon
  <1> QED BY <1>2, <1>3, <1>8, <1>9, <1>10, <1>11, Zenon

\* A client that goes loses what it had to write and what it had read.
LEMMA GoneEffect ==
  ASSUME PeerType, NEW c \in Clients, NEW how \in Peers, Gone(c, how)
  PROVE  /\ client' \in [Clients -> ClientState] /\ wire' \in [Clients -> WireState]
         /\ client'[c].pc = "gone" /\ client'[c].out = <<>> /\ client'[c].buf = <<>>
         /\ client'[c].sent = client[c].sent /\ client'[c].replies = client[c].replies
         /\ wire'[c].up = wire[c].up /\ wire'[c].down = <<>> /\ wire'[c].peer = how
         /\ \A d \in Clients \ {c} : client'[d] = client[d] /\ wire'[d] = wire[d]
  <1>1. client[c] \in ClientState /\ wire[c] \in WireState BY PeerFields, Zenon
  <1>2. <<>> \in Seq(Octets) BY Nothing, Zenon
  <1>3. PICK x : x = [client[c] EXCEPT !.pc = "gone", !.out = <<>>, !.buf = <<>>] BY Zenon
  <1>4. PICK y : y = [wire[c] EXCEPT !.peer = how, !.down = <<>>] BY Zenon
  <1>5. client' = [client EXCEPT ![c] = x] /\ wire' = [wire EXCEPT ![c] = y]
    BY <1>3, <1>4, Zenon DEF Gone
  <1>6. /\ x \in ClientState /\ x.pc = "gone" /\ x.out = <<>> /\ x.buf = <<>>
        /\ x.sent = client[c].sent /\ x.replies = client[c].replies
    BY <1>1, <1>2, <1>3, Zenon DEF ClientState, ClientPcs
  <1>7. y \in WireState /\ y.up = wire[c].up /\ y.down = <<>> /\ y.peer = how
    BY <1>1, <1>2, <1>4, Zenon DEF WireState
  <1>8. /\ client' \in [Clients -> ClientState] /\ client'[c] = x
        /\ \A d \in Clients \ {c} : client'[d] = client[d]
    BY <1>5, <1>6, ClientSet, Zenon
  <1>9. /\ wire' \in [Clients -> WireState] /\ wire'[c] = y
        /\ \A d \in Clients \ {c} : wire'[d] = wire[d]
    BY <1>5, <1>7, WireSet, Zenon
  <1> QED BY <1>6, <1>7, <1>8, <1>9, Zenon

\* Each client has at most one connection, before it is accepted or after, and the
\* thread and the replies left for later only name connections there are.
Tables ==
  /\ DOMAIN connections = callbacks \ {Listener}
  /\ DOMAIN connections = {f \in Fds : fds[f] # None}
  /\ \A f, g \in Fds : fds[f] = fds[g] /\ fds[f] # None => f = g
  /\ \A c \in Clients : life[c] = "up" <=> \E f \in Fds : fds[f] = c
  /\ \A i, j \in DOMAIN backlog : backlog[i] = backlog[j] => i = j
  /\ \A i \in DOMAIN backlog : life[backlog[i]] = "none" /\ client[backlog[i]].pc # "off"
  /\ \A c \in Clients : client[c].pc = "off" => life[c] = "none" \/ at.pc = "destroyed"
  /\ at.pc \in Serving => at.fd \in DOMAIN connections
  /\ \A r \in todo : r.fd \in DOMAIN connections

(***************************************************************************)
(* What the steps of the server do                                         *)
(***************************************************************************)

\* A connection is at a descriptor, and a client is at the other end of it.
LEMMA Held ==
  ASSUME TableType, Tables, NEW f \in DOMAIN connections
  PROVE  /\ f \in Fds /\ fds[f] \in Clients /\ fds[f] # None /\ connections[f] \in Seq(Octets)
         /\ f \in callbacks /\ f # Listener
  <1>1. f \in Fds /\ fds[f] # None /\ f \in callbacks /\ f # Listener BY ZenonT(60) DEF Tables
  <1>2. fds[f] \in Clients BY <1>1, Zenon DEF TableType
  <1>3. connections[f] \in Seq(Octets) BY Zenon DEF TableType
  <1> QED BY <1>1, <1>2, <1>3, Zenon

\* disconnect() frees one descriptor, and only that one.
LEMMA DisconnectEffect ==
  ASSUME PeerType, TableType, Tables, NEW fd \in DOMAIN connections, NEW c \in Clients, c = fds[fd],
         Disconnect(fd)
  PROVE  /\ wire' \in [Clients -> WireState]
         /\ wire'[c].up = <<>> /\ wire'[c].down = wire[c].down /\ wire'[c].peer = wire[c].peer
         /\ \A d \in Clients \ {c} : wire'[d] = wire[d]
         /\ fds' \in [Fds -> Clients \cup {None}] /\ fds'[fd] = None
         /\ \A f \in Fds \ {fd} : fds'[f] = fds[f]
         /\ connections' \in [DOMAIN connections' -> Seq(Octets)]
         /\ DOMAIN connections' = DOMAIN connections \ {fd}
         /\ \A f \in DOMAIN connections' : connections'[f] = connections[f]
         /\ callbacks' = callbacks \ {fd} /\ callbacks' \subseteq Fds \cup {Listener}
         /\ life' \in [Clients -> Lives] /\ life'[c] = "down"
         /\ \A d \in Clients \ {c} : life'[d] = life[d]
         /\ todo' = {r \in todo : r.fd # fd}
  <1>1. fd \in Fds BY Held, Zenon
  <1>2. /\ wire' \in [Clients -> WireState]
        /\ wire'[c].up = <<>> /\ wire'[c].down = wire[c].down /\ wire'[c].peer = wire[c].peer
        /\ \A d \in Clients \ {c} : wire'[d] = wire[d]
    <2>1. wire[c] \in WireState BY PeerFields, Zenon
    <2>2. <<>> \in Seq(Octets) BY Nothing, Zenon
    <2>3. PICK y : y = [wire[c] EXCEPT !.server = "closed", !.up = <<>>] BY Zenon
    <2>4. wire' = [wire EXCEPT ![c] = y] BY <2>3, Zenon DEF Disconnect
    <2>5. y \in WireState /\ y.up = <<>> /\ y.down = wire[c].down /\ y.peer = wire[c].peer
      BY <2>1, <2>2, <2>3, Zenon DEF WireState
    <2> QED BY <2>4, <2>5, WireSet, Zenon
  <1>3. /\ fds' \in [Fds -> Clients \cup {None}] /\ fds'[fd] = None
        /\ \A f \in Fds \ {fd} : fds'[f] = fds[f]
    BY <1>1, Zenon DEF Disconnect, TableType
  <1>4. /\ DOMAIN connections' = DOMAIN connections \ {fd}
        /\ \A f \in DOMAIN connections' : connections'[f] = connections[f]
    BY Zenon DEF Disconnect
  <1>5. connections' \in [DOMAIN connections' -> Seq(Octets)]
    <2>1. \A f \in DOMAIN connections \ {fd} : connections[f] \in Seq(Octets) BY Zenon DEF TableType
    <2>2. connections' = [f \in DOMAIN connections \ {fd} |-> connections[f]] BY Zenon DEF Disconnect
    <2> QED BY <1>4, <2>1, <2>2, Zenon
  <1>6. callbacks' = callbacks \ {fd} /\ callbacks' \subseteq Fds \cup {Listener} BY Zenon DEF Disconnect, TableType
  <1>7. /\ life' \in [Clients -> Lives] /\ life'[c] = "down"
        /\ \A d \in Clients \ {c} : life'[d] = life[d]
    <2>1. life' = [life EXCEPT ![c] = "down"] BY Zenon DEF Disconnect
    <2> QED BY <2>1, Zenon DEF TableType, Lives
  <1>8. todo' = {r \in todo : r.fd # fd} BY Zenon DEF Disconnect
  <1> QED BY <1>2, <1>3, <1>4, <1>5, <1>6, <1>7, <1>8, Zenon

\* The thread goes to p and keeps the rest, or has nothing in hand.
LEMMA ThreadSet ==
  ASSUME ThreadType, NEW p \in ThreadPcs
  PROVE  /\ [at EXCEPT !.pc = p] \in ThreadState
         /\ [at EXCEPT !.pc = p].pc = p /\ [at EXCEPT !.pc = p].fd = at.fd /\ [at EXCEPT !.pc = p].out = at.out
         /\ [Idle EXCEPT !.pc = p] \in ThreadState /\ [Idle EXCEPT !.pc = p].pc = p
         /\ Idle \in ThreadState /\ Idle.pc = "idle"
  <1>1. at \in ThreadState BY Zenon DEF ThreadType
  <1>2. /\ [at EXCEPT !.pc = p] \in ThreadState
        /\ [at EXCEPT !.pc = p].pc = p /\ [at EXCEPT !.pc = p].fd = at.fd /\ [at EXCEPT !.pc = p].out = at.out
    BY <1>1, Zenon DEF ThreadState
  <1>3. Idle \in ThreadState /\ Idle.pc = "idle"
    <2>1. <<>> \in Seq(Octets) BY Nothing, Zenon
    <2>2. "idle" \in ThreadPcs BY Zenon DEF ThreadPcs
    <2> QED BY <2>1, <2>2, Zenon DEF Idle, ThreadState
  <1>4. [Idle EXCEPT !.pc = p] \in ThreadState /\ [Idle EXCEPT !.pc = p].pc = p
    <2>1. PICK x \in ThreadState : x = Idle BY <1>3, Zenon
    <2>2. [x EXCEPT !.pc = p] \in ThreadState /\ [x EXCEPT !.pc = p].pc = p BY Zenon DEF ThreadState
    <2> QED BY <2>1, <2>2, Zenon
  <1> QED BY <1>2, <1>3, <1>4, Zenon

\* A set of numbers that is not empty has a least one.
LEMMA LeastOf ==
  ASSUME NEW N \in SUBSET Nat, N # {}
  PROVE  \E f \in N : \A g \in N : f <= g
  <1> DEFINE R == OpToRel(<, Nat)
  <1>1. IsWellFoundedOn(R, Nat) BY NatLessThanWellFounded
  <1>2. PICK f \in N : \A g \in N : ~(<<g, f>> \in R)
    <2> HIDE DEF R
    <2> QED BY <1>1, WFMin, Zenon
  <1>3. \A g \in N : ~(g < f) BY <1>2, Zenon DEF OpToRel
  <1> QED BY <1>3

\* accept() takes the first of the backlog; fd was free.
LEMMA AcceptOneEffect ==
  ASSUME PeerType, TableType, AcceptOne
  PROVE  \E c \in Clients, fd \in Fds :
           /\ backlog # <<>> /\ c = Head(backlog) /\ backlog' = Tail(backlog) /\ fds[fd] = None
           /\ fds' \in [Fds -> Clients \cup {None}] /\ fds'[fd] = c
           /\ \A f \in Fds \ {fd} : fds'[f] = fds[f]
           /\ connections' \in [DOMAIN connections' -> Seq(Octets)]
           /\ DOMAIN connections' = DOMAIN connections \cup {fd} /\ connections'[fd] = <<>>
           /\ \A f \in DOMAIN connections \ {fd} : connections'[f] = connections[f]
           /\ callbacks' = callbacks \cup {fd} /\ callbacks' \subseteq Fds \cup {Listener}
           /\ life' \in [Clients -> Lives] /\ life'[c] = "up"
           /\ \A d \in Clients \ {c} : life'[d] = life[d]
  <1>1. PICK c : c = Head(backlog) BY Zenon
  <1>2. PICK fd : fd = CHOOSE f \in Free : \A g \in Free : f <= g BY Zenon
  <1>3. c \in Clients
    <2>1. backlog \in Seq(Clients) /\ backlog # <<>> BY Zenon DEF PeerType, AcceptOne
    <2> QED BY <1>1, <2>1, HeadTailProperties
  <1>4. fd \in Free
    <2>1. Free # {} BY Zenon DEF AcceptOne
    <2>2. PICK N : N = Free BY Zenon
    <2>3. N # {} /\ N \subseteq Nat
      <3>1. \A f \in Free : f \in Fds BY Zenon DEF Free
      <3>2. \A f \in Fds : f \in Nat BY Zenon
      <3> QED BY <2>1, <2>2, <3>1, <3>2, Zenon
    <2>4. \E f \in N : \A g \in N : f <= g BY <2>3, LeastOf
    <2> QED BY <1>2, <2>2, <2>4, Zenon
  <1>5. fd \in Fds /\ fds[fd] = None BY <1>4, Zenon DEF Free
  <1>6. /\ fds' = [fds EXCEPT ![fd] = c]
        /\ connections' = [f \in DOMAIN connections \cup {fd} |-> IF f = fd THEN <<>> ELSE connections[f]]
        /\ callbacks' = callbacks \cup {fd}
        /\ life' = [life EXCEPT ![c] = "up"]
        /\ backlog # <<>> /\ backlog' = Tail(backlog)
    BY <1>1, <1>2, Zenon DEF AcceptOne
  <1>7. /\ fds' \in [Fds -> Clients \cup {None}] /\ fds'[fd] = c
        /\ \A f \in Fds \ {fd} : fds'[f] = fds[f]
    BY <1>3, <1>5, <1>6, Zenon DEF TableType
  <1>8. /\ DOMAIN connections' = DOMAIN connections \cup {fd} /\ connections'[fd] = <<>>
        /\ \A f \in DOMAIN connections \ {fd} : connections'[f] = connections[f]
    BY <1>6, Zenon
  <1>9. connections' \in [DOMAIN connections' -> Seq(Octets)]
    <2>1. <<>> \in Seq(Octets) BY Nothing, Zenon
    <2>2. \A f \in DOMAIN connections : connections[f] \in Seq(Octets) BY Zenon DEF TableType
    <2>3. \A f \in DOMAIN connections \cup {fd} : (IF f = fd THEN <<>> ELSE connections[f]) \in Seq(Octets)
      BY <2>1, <2>2, Zenon
    <2> QED BY <1>6, <1>8, <2>3, Zenon
  <1>10. callbacks' \subseteq Fds \cup {Listener} BY <1>5, <1>6, Zenon DEF TableType
  <1>11. /\ life' \in [Clients -> Lives] /\ life'[c] = "up"
         /\ \A d \in Clients \ {c} : life'[d] = life[d]
    BY <1>3, <1>6, Zenon DEF TableType, Lives
  <1> QED BY <1>1, <1>3, <1>5, <1>6, <1>7, <1>8, <1>9, <1>10, <1>11, Zenon

\* recv() has read the part a of what has arrived, and b is left.
LEMMA RecvSomeEffect ==
  ASSUME PeerType, TableType, ThreadType, Tables, RecvSome
  PROVE  \E c \in Clients, a, b \in Seq(Octets) :
           /\ at.fd \in DOMAIN connections /\ c = fds[at.fd] /\ a \o b = wire[c].up
           /\ wire' \in [Clients -> WireState]
           /\ wire'[c].up = b /\ wire'[c].down = wire[c].down /\ wire'[c].peer = wire[c].peer
           /\ \A d \in Clients \ {c} : wire'[d] = wire[d]
           /\ connections' \in [DOMAIN connections' -> Seq(Octets)] /\ DOMAIN connections' = DOMAIN connections
           /\ connections'[at.fd] = connections[at.fd] \o a
           /\ \A f \in DOMAIN connections \ {at.fd} : connections'[f] = connections[f]
           /\ at' \in ThreadState /\ at'.pc = "extract" /\ at'.fd = at.fd
  <1>1. at.fd \in DOMAIN connections BY Zenon DEF RecvSome, Tables, Serving
  <1>2. PICK c \in Clients : c = fds[at.fd] BY <1>1, Held, Zenon
  <1>3. PICK n \in 1 .. Len(wire[c].up) :
          /\ wire' = [wire EXCEPT ![c].up = Drop(@, n)]
          /\ connections' = [connections EXCEPT ![at.fd] = @ \o SubSeq(wire[c].up, 1, n)]
    BY <1>2, Zenon DEF RecvSome
  <1>4. wire[c] \in WireState /\ wire[c].up \in Seq(Octets) /\ connections[at.fd] \in Seq(Octets)
    BY <1>1, PeerFields, Held, Zenon
  <1>5. PICK a, b \in Seq(Octets) :
          a = SubSeq(wire[c].up, 1, n) /\ b = Drop(wire[c].up, n) /\ a \o b = wire[c].up
    BY <1>4, TakeDrop, Zenon
  <1>6. PICK y : y = [wire[c] EXCEPT !.up = b] BY Zenon
  <1>7. wire' = [wire EXCEPT ![c] = y] BY <1>3, <1>5, <1>6, Zenon
  <1>8. y \in WireState /\ y.up = b /\ y.down = wire[c].down /\ y.peer = wire[c].peer
    BY <1>4, <1>6, Zenon DEF WireState
  <1>9. /\ wire' \in [Clients -> WireState] /\ wire'[c] = y
        /\ \A d \in Clients \ {c} : wire'[d] = wire[d]
    BY <1>7, <1>8, WireSet, Zenon
  <1>10. PICK u \in Seq(Octets) : u = connections[at.fd] \o a BY <1>4, Joins, Zenon
  <1>11. connections' = [connections EXCEPT ![at.fd] = u] BY <1>3, <1>5, <1>10, Zenon
  <1>12. /\ connections' \in [DOMAIN connections -> Seq(Octets)] /\ connections'[at.fd] = u
         /\ \A f \in DOMAIN connections \ {at.fd} : connections'[f] = connections[f]
    <2>1. connections \in [DOMAIN connections -> Seq(Octets)] BY Zenon DEF TableType
    <2> QED BY <1>1, <1>11, <2>1, Zenon
  <1>13. DOMAIN connections' = DOMAIN connections BY <1>12, Zenon
  <1>14. at' \in ThreadState /\ at'.pc = "extract" /\ at'.fd = at.fd
    <2>1. at' = [at EXCEPT !.pc = "extract"] BY Zenon DEF RecvSome
    <2>2. "extract" \in ThreadPcs BY Zenon DEF ThreadPcs
    <2> QED BY <2>1, <2>2, ThreadSet, Zenon
  <1>15. wire'[c].up = b /\ wire'[c].down = wire[c].down /\ wire'[c].peer = wire[c].peer BY <1>8, <1>9, Zenon
  <1>16. connections'[at.fd] = connections[at.fd] \o a BY <1>10, <1>12, Zenon
  <1> WITNESS c \in Clients, a \in Seq(Octets), b \in Seq(Octets)
  <1> QED BY <1>1, <1>2, <1>5, <1>9, <1>12, <1>13, <1>14, <1>15, <1>16, Zenon

\* A frame is handed to on_message: q, and rest stays in the decoder.
LEMMA FrameEffect ==
  ASSUME TableType, ThreadType, Tables, at.fd \in DOMAIN connections, NEW c \in Clients,
         NEW q \in Seq(PayloadBytes), NEW rest \in Seq(Octets),
         connections' = [connections EXCEPT ![at.fd] = rest],
         got' = [got EXCEPT ![c] = Append(@, q)]
  PROVE  /\ connections' \in [DOMAIN connections' -> Seq(Octets)] /\ DOMAIN connections' = DOMAIN connections
         /\ connections'[at.fd] = rest
         /\ \A f \in DOMAIN connections \ {at.fd} : connections'[f] = connections[f]
         /\ got' \in [Clients -> Seq(Seq(PayloadBytes))] /\ got'[c] = Append(got[c], q)
         /\ \A d \in Clients \ {c} : got'[d] = got[d]
  <1>1. /\ connections' \in [DOMAIN connections -> Seq(Octets)] /\ connections'[at.fd] = rest
        /\ \A f \in DOMAIN connections \ {at.fd} : connections'[f] = connections[f]
    <2>1. connections \in [DOMAIN connections -> Seq(Octets)] BY Zenon DEF TableType
    <2> QED BY <2>1, Zenon
  <1>2. DOMAIN connections' = DOMAIN connections BY <1>1, Zenon
  <1>3. got \in [Clients -> Seq(Seq(PayloadBytes))] /\ got[c] \in Seq(Seq(PayloadBytes)) BY Zenon DEF ThreadType
  <1>4. PICK t \in Seq(Seq(PayloadBytes)) : t = Append(got[c], q) BY <1>3, Appends, Zenon
  <1>5. got' = [got EXCEPT ![c] = t] BY <1>4, Zenon
  <1>6. /\ got' \in [Clients -> Seq(Seq(PayloadBytes))] /\ got'[c] = t
        /\ \A d \in Clients \ {c} : got'[d] = got[d]
    BY <1>3, <1>5, Zenon
  <1> QED BY <1>1, <1>2, <1>4, <1>6, Zenon

\* send() has written the part a of the reply, and b is left.
LEMMA SendSomeEffect ==
  ASSUME PeerType, TableType, ThreadType, Tables, SendSome
  PROVE  \E c \in Clients, a, b \in Seq(Octets) :
           /\ at.fd \in DOMAIN connections /\ c = fds[at.fd] /\ a \o b = at.out
           /\ wire' \in [Clients -> WireState] /\ wire'[c].up = wire[c].up
           /\ wire[c].peer = "open" => wire'[c].peer = "open" /\ wire'[c].down = wire[c].down \o a
           /\ wire[c].peer # "open" => wire'[c].peer = "reset" /\ wire'[c].down = wire[c].down
           /\ \A d \in Clients \ {c} : wire'[d] = wire[d]
           /\ at' \in ThreadState
           /\ b # <<>> => at'.pc = at.pc /\ at'.fd = at.fd /\ at'.out = b
           /\ b = <<>> /\ at.pc = "push" => at'.pc = "idle"
           /\ b = <<>> /\ at.pc = "reply" => at'.pc = "extract" /\ at'.fd = at.fd
  <1>1. at.pc \in {"reply", "push"} /\ at.fd \in DOMAIN connections BY Zenon DEF SendSome, Tables, Serving
  <1>2. PICK c \in Clients : c = fds[at.fd] BY <1>1, Held, Zenon
  <1>3. PICK n \in 1 .. Lesser(Len(at.out), BufCap - Len(wire[c].down)) :
          /\ wire' = [wire EXCEPT ![c] =
                        IF wire[c].peer = "open" THEN [wire[c] EXCEPT !.down = @ \o SubSeq(at.out, 1, n)]
                        ELSE [wire[c] EXCEPT !.peer = "reset"]]
          /\ at' = IF n < Len(at.out) THEN [at EXCEPT !.out = Drop(@, n)]
                   ELSE IF at.pc = "push" THEN Idle ELSE [at EXCEPT !.pc = "extract", !.out = <<>>]
    BY <1>2, Zenon DEF SendSome
  <1>4. /\ wire[c] \in WireState /\ wire[c].down \in Seq(Octets)
        /\ at \in ThreadState /\ at.out \in Seq(Octets)
    BY PeerFields, Zenon DEF ThreadType, ThreadState
  <1>5. PICK s \in Seq(Octets) : s = at.out BY <1>4, Zenon
  <1>6. n \in 1 .. Len(s)
    <2>1. Len(s) \in Nat /\ Len(wire[c].down) \in Nat BY <1>4, LenProperties
    <2> QED BY <1>5, <2>1 DEF Lesser
  <1>7. PICK a, b \in Seq(Octets) :
          a = SubSeq(s, 1, n) /\ b = Drop(s, n) /\ a \o b = s /\ (b = <<>> <=> ~(n < Len(s)))
    <2>1. /\ SubSeq(s, 1, n) \in Seq(Octets) /\ Drop(s, n) \in Seq(Octets)
          /\ SubSeq(s, 1, n) \o Drop(s, n) = s /\ (Drop(s, n) = <<>> <=> ~(n < Len(s)))
      BY <1>6, TakeDrop, Zenon
    <2> QED BY <2>1, Zenon
  <1>8. PICK y : y = IF wire[c].peer = "open" THEN [wire[c] EXCEPT !.down = @ \o SubSeq(at.out, 1, n)]
                     ELSE [wire[c] EXCEPT !.peer = "reset"]
    BY Zenon
  <1>9. PICK u \in Seq(Octets) : u = wire[c].down \o a BY <1>4, Joins, Zenon
  <1>10. /\ y \in WireState /\ y.up = wire[c].up
         /\ wire[c].peer = "open" => y.peer = "open" /\ y.down = u
         /\ wire[c].peer # "open" => y.peer = "reset" /\ y.down = wire[c].down
    <2>1. CASE wire[c].peer = "open"
      <3>1. y = [wire[c] EXCEPT !.down = u] BY <1>5, <1>7, <1>8, <1>9, <2>1, Zenon
      <3> QED BY <1>4, <2>1, <3>1, Zenon DEF WireState
    <2>2. CASE wire[c].peer # "open"
      <3>1. y = [wire[c] EXCEPT !.peer = "reset"] BY <1>8, <2>2, Zenon
      <3> QED BY <1>4, <2>2, <3>1, Zenon DEF WireState, Peers
    <2> QED BY <2>1, <2>2, Zenon
  <1>11. wire' = [wire EXCEPT ![c] = y] BY <1>3, <1>8, Zenon
  <1>12. /\ wire' \in [Clients -> WireState] /\ wire'[c] = y
         /\ \A d \in Clients \ {c} : wire'[d] = wire[d]
    BY <1>10, <1>11, WireSet, Zenon
  <1>13. /\ at' \in ThreadState
         /\ b # <<>> => at'.pc = at.pc /\ at'.fd = at.fd /\ at'.out = b
         /\ b = <<>> /\ at.pc = "push" => at'.pc = "idle"
         /\ b = <<>> /\ at.pc = "reply" => at'.pc = "extract" /\ at'.fd = at.fd
    <2>1. CASE b # <<>>
      <3>1. at' = [at EXCEPT !.out = b] BY <1>3, <1>5, <1>7, <2>1, Zenon
      <3> QED BY <1>4, <2>1, <3>1, Zenon DEF ThreadState
    <2>2. CASE b = <<>> /\ at.pc = "push"
      <3>1. at' = Idle BY <1>3, <1>5, <1>7, <2>2, Zenon
      <3>2. "idle" \in ThreadPcs BY Zenon DEF ThreadPcs
      <3>3. Idle \in ThreadState /\ Idle.pc = "idle" BY <3>2, ThreadSet, Zenon
      <3> QED BY <2>2, <3>1, <3>3, Zenon
    <2>3. CASE b = <<>> /\ at.pc = "reply"
      <3>1. at' = [at EXCEPT !.pc = "extract", !.out = <<>>] BY <1>3, <1>5, <1>7, <2>3, Zenon
      <3>2. <<>> \in Seq(Octets) BY Nothing, Zenon
      <3> QED BY <1>4, <2>3, <3>1, <3>2, Zenon DEF ThreadState, ThreadPcs
    <2> QED BY <1>1, <2>1, <2>2, <2>3, Zenon
  <1>14. /\ wire'[c].up = wire[c].up
         /\ wire[c].peer = "open" => wire'[c].peer = "open" /\ wire'[c].down = wire[c].down \o a
         /\ wire[c].peer # "open" => wire'[c].peer = "reset" /\ wire'[c].down = wire[c].down
    BY <1>9, <1>10, <1>12, Zenon
  <1>15. a \o b = at.out BY <1>5, <1>7, Zenon
  <1> WITNESS c \in Clients, a \in Seq(Octets), b \in Seq(Octets)
  <1> QED BY <1>1, <1>2, <1>12, <1>13, <1>14, <1>15, Zenon

\* ~TcpServer closes every socket; what is on its way to a client still arrives.
LEMMA DestroyEffect ==
  ASSUME PeerType, Destroy
  PROVE  /\ wire' \in [Clients -> WireState]
         /\ \A c \in Clients :
              wire'[c].up = <<>> /\ wire'[c].down = wire[c].down /\ wire'[c].peer = wire[c].peer
  <1>1. wire' = [c \in Clients |-> [wire[c] EXCEPT !.server = "closed", !.up = <<>>]] BY Zenon DEF Destroy
  <1>2. <<>> \in Seq(Octets) BY Nothing, Zenon
  <1>3. ASSUME NEW c \in Clients
        PROVE  /\ [wire[c] EXCEPT !.server = "closed", !.up = <<>>] \in WireState
               /\ wire'[c].up = <<>> /\ wire'[c].down = wire[c].down /\ wire'[c].peer = wire[c].peer
    <2>1. wire[c] \in WireState BY PeerFields, Zenon
    <2>2. PICK y : y = [wire[c] EXCEPT !.server = "closed", !.up = <<>>] BY Zenon
    <2>3. y \in WireState /\ y.up = <<>> /\ y.down = wire[c].down /\ y.peer = wire[c].peer
      BY <1>2, <2>1, <2>2, Zenon DEF WireState
    <2>4. wire'[c] = y BY <1>1, <2>2, Zenon
    <2> QED BY <2>2, <2>3, <2>4, Zenon
  <1> QED BY <1>1, <1>3, Zenon

(***************************************************************************)
(* What is on its way, and what has been said                              *)
(***************************************************************************)

Begins(s, t) == Len(s) <= Len(t) /\ \A i \in 1 .. Len(s) : s[i] = t[i]

\* The bytes of c on their way to on_message, d of them in its decoder, are those
\* of the requests that on_message has not been given.
Stream(c, d) ==
  Reads(c, client[c].sent, Len(got[c]), d \o (wire[c].up \o client[c].out), client[c].pc # "gone")

Streams ==
  /\ \A c \in Clients, f \in Fds : fds[f] = c => Stream(c, connections[f])
  /\ \A c \in Clients : life[c] = "none" => Stream(c, <<>>)

Heard == \A c \in Clients : Begins(got[c], Requests[c])

\* A client that is at z and has been heard k times, and the bytes "coming" on their
\* way to it: it waits for the reply to its last request or for nothing, and what
\* comes, or is left for later, is that reply or part of it, once.
Exchange(c, z, k, coming, owed) ==
  /\ z.pc \in {"off", "idle"} => k = z.sent /\ Len(z.replies) = z.sent
  /\ z.pc = "send" => k + 1 = z.sent /\ Len(z.replies) + 1 = z.sent
  /\ z.pc = "receive" => /\ Len(z.replies) + 1 = z.sent /\ (k = z.sent \/ k + 1 = z.sent)
                         /\ Begins(coming, encode_frame(Requests[c][z.sent]))
  /\ z.pc # "receive" => coming = <<>> /\ owed = {}
  /\ \A r \in owed : k = z.sent /\ r.payload = Requests[c][z.sent] /\ coming = <<>>
  /\ coming # <<>> => k = z.sent

Conversation(c, z, peer, down, k, p, owed) ==
  /\ z.pc # "gone" <=> peer = "open"
  /\ z.pc = "send" <=> z.out # <<>>
  /\ z.sent <= Len(Requests[c]) /\ Begins(z.replies, Requests[c])
  /\ c \in OneWay => z.pc # "receive" /\ down = <<>> /\ owed = {} /\ p = <<>>
  /\ c \notin OneWay /\ z.pc # "gone" => Exchange(c, z, k, (z.buf \o down) \o p, owed)

\* What the thread has still to send to c, and what is left for later.
Pending(c) == IF at.pc \in Sending /\ fds[at.fd] = c THEN at.out ELSE <<>>
Owed(c) == {r \in todo : fds[r.fd] = c}

Answer(c) == Conversation(c, client[c], wire[c].peer, wire[c].down, Len(got[c]), Pending(c), Owed(c))
Answers == \A c \in Clients : Answer(c)

\* epoll: what epoll_wait returned is of connections there are, one event of each,
\* and is used up before anything else is done.
Epoll ==
  loop = "epoll" =>
    /\ polls = {}
    /\ at.pc \in {"idle", "push"} => events = {}
    /\ \A e \in events :
         /\ e.fd \in callbacks
         /\ e.hup => e.fd # Listener /\ wire[fds[e.fd]].peer = "reset"
         /\ at.pc \in Serving => e.fd # at.fd
    /\ \A e, f \in events : e.fd = f.fd => e = f

TcpInv == PeerType /\ TableType /\ ThreadType /\ Tables /\ Streams /\ Heard /\ Answers /\ Epoll

\* Fewer replies are left for later.
LEMMA OwedLess ==
  ASSUME NEW c, NEW z, NEW peer, NEW down, NEW k, NEW p, NEW O, NEW P \in SUBSET O,
         Conversation(c, z, peer, down, k, p, O)
  PROVE  Conversation(c, z, peer, down, k, p, P)
  BY Zenon DEF Conversation, Exchange

\* A step that does nothing of c.
LEMMA AnswerKept ==
  ASSUME NEW c \in Clients, Answer(c), client'[c] = client[c],
         wire'[c].peer = wire[c].peer, wire'[c].down = wire[c].down, got'[c] = got[c],
         Pending(c)' = Pending(c), Owed(c)' \subseteq Owed(c)
  PROVE  Answer(c)'
  <1>1. PICK O, P, p : O = Owed(c) /\ P = Owed(c)' /\ p = Pending(c) BY Zenon
  <1>2. Conversation(c, client[c], wire[c].peer, wire[c].down, Len(got[c]), p, O) BY <1>1, Zenon DEF Answer
  <1>3. Conversation(c, client[c], wire[c].peer, wire[c].down, Len(got[c]), p, P) BY <1>1, <1>2, OwedLess, Zenon
  <1>4. p = Pending(c)' BY <1>1, Zenon
  <1>5. Conversation(c, client'[c], wire'[c].peer, wire'[c].down, Len(got'[c]), Pending(c)', Owed(c)')
    BY <1>1, <1>3, <1>4, Zenon
  <1> QED BY <1>5, Zenon DEF Answer

\* A step that changes nothing of c on its way.
LEMMA StreamKept ==
  ASSUME NEW c \in Clients, NEW d, Stream(c, d), client'[c].sent = client[c].sent,
         client'[c].out = client[c].out, client'[c].pc = "gone" <=> client[c].pc = "gone",
         wire'[c].up = wire[c].up, got'[c] = got[c]
  PROVE  Stream(c, d)'
  <1>1. (client'[c].pc # "gone") = (client[c].pc # "gone") BY Zenon
  <1>2. Reads(c, client[c].sent, Len(got[c]), d \o (wire[c].up \o client[c].out), client[c].pc # "gone")
    BY Zenon DEF Stream
  <1>3. Reads(c, client'[c].sent, Len(got'[c]), d \o (wire'[c].up \o client'[c].out), client'[c].pc # "gone")
    BY <1>1, <1>2, Zenon
  <1> QED BY <1>3, Zenon DEF Stream

\* A step of client c.
LEMMA ClientStep ==
  ASSUME TcpInv, NEW c \in Clients, UNCHANGED ServerSide, PeerType', Tables',
         \A d \in Clients \ {c} : client'[d] = client[d] /\ wire'[d] = wire[d],
         \A d \in Seq(Octets) : Stream(c, d) => Stream(c, d)',
         Answer(c)', wire[c].peer = "reset" => wire'[c].peer = "reset"
  PROVE  TcpInv'
  <1>1. /\ UNCHANGED <<loop, fds, connections, callbacks, life, polls, events, at, todo, got>>
        /\ PeerType /\ TableType /\ ThreadType /\ Tables /\ Streams /\ Heard /\ Answers /\ Epoll
    BY Zenon DEF ServerSide, fixed, tables, TcpInv
  <1>2. TableType' /\ ThreadType' BY <1>1, Zenon DEF TableType, ThreadType
  <1>3. Streams'
    <2>1. ASSUME NEW d \in Clients, NEW f, f \in Seq(Octets), Stream(d, f)
          PROVE  Stream(d, f)'
      <3>1. CASE d = c BY <2>1, <3>1, Zenon
      <3>2. CASE d # c
        <4>1. client'[d] = client[d] /\ wire'[d] = wire[d] /\ got'[d] = got[d] BY <1>1, <3>2, Zenon
        <4> QED BY <2>1, <4>1, StreamKept, Zenon
      <3> QED BY <3>1, <3>2, Zenon
    <2>2. ASSUME NEW d \in Clients, NEW f \in Fds, fds'[f] = d
          PROVE  Stream(d, connections[f])'
      <3>1. fds[f] = d /\ Stream(d, connections[f]) BY <1>1, <2>2, Zenon DEF Streams
      <3>2. f \in DOMAIN connections BY <1>1, <3>1, Zenon DEF Tables
      <3>3. PICK g : g = connections[f] BY Zenon
      <3>4. g \in Seq(Octets) /\ Stream(d, g) BY <1>1, <3>1, <3>2, <3>3, Held, Zenon
      <3>5. Stream(d, g)' BY <2>1, <3>4, Zenon
      <3>6. connections'[f] = g BY <1>1, <3>3, Zenon
      <3> QED BY <3>5, <3>6, Zenon DEF Stream
    <2>3. ASSUME NEW d \in Clients, life'[d] = "none"
          PROVE  Stream(d, <<>>)'
      <3>1. Stream(d, <<>>) BY <1>1, <2>3, Zenon DEF Streams
      <3>2. <<>> \in Seq(Octets) BY Nothing, Zenon
      <3> QED BY <2>1, <3>1, <3>2, Zenon
    <2> QED BY <2>2, <2>3, Zenon DEF Streams
  <1>4. Heard' BY <1>1, Zenon DEF Heard
  <1>5. Answers'
    <2>1. ASSUME NEW d \in Clients, d # c
          PROVE  Answer(d)'
      <3>1. client'[d] = client[d] /\ wire'[d] = wire[d] /\ got'[d] = got[d] BY <1>1, <2>1, Zenon
      <3>2. Pending(d)' = Pending(d) BY <1>1, Zenon DEF Pending
      <3>3. Owed(d)' = Owed(d) BY <1>1, Zenon DEF Owed
      <3>4. Answer(d) BY <1>1, Zenon DEF Answers
      <3> QED BY <3>1, <3>2, <3>3, <3>4, AnswerKept, Zenon
    <2> QED BY <2>1, Zenon DEF Answers
  <1>6. Epoll'
    <2>1. \A e \in events : wire[fds[e.fd]].peer = "reset" /\ fds[e.fd] \in Clients => wire'[fds[e.fd]].peer = "reset"
      BY Zenon
    <2>2. ASSUME loop = "epoll", NEW e \in events, e.hup
          PROVE  e.fd # Listener /\ wire'[fds[e.fd]].peer = "reset"
      <3>1. e.fd # Listener /\ wire[fds[e.fd]].peer = "reset" /\ e.fd \in callbacks
        BY <1>1, <2>2, Zenon DEF Epoll
      <3>2. e.fd \in DOMAIN connections BY <1>1, <3>1, Zenon DEF Tables
      <3>3. fds[e.fd] \in Clients BY <1>1, <3>2, Held, Zenon
      <3> QED BY <2>1, <3>1, <3>3, Zenon
    <2> QED BY <1>1, <2>2, Zenon DEF Epoll
  <1> QED BY <1>2, <1>3, <1>4, <1>5, <1>6, Zenon DEF TcpInv

(***************************************************************************)
(* The steps of a client keep the invariant                                *)
(***************************************************************************)

\* A step of a client that does not connect leaves the tables as they are.
LEMMA TablesStay ==
  ASSUME TcpInv, NEW c \in Clients, UNCHANGED <<backlog, ServerSide>>, client'[c].pc # "off",
         \A d \in Clients \ {c} : client'[d] = client[d]
  PROVE  Tables'
  <1>1. /\ UNCHANGED <<backlog, fds, connections, callbacks, life, at, todo>>
        /\ Tables /\ PeerType
    BY Zenon DEF ServerSide, tables, TcpInv
  <1>2. \A d \in Clients : client'[d].pc = "off" => client[d].pc = "off" BY Zenon
  <1>3. \A i \in DOMAIN backlog : backlog[i] \in Clients
    <2>1. backlog \in Seq(Clients) BY <1>1, Zenon DEF PeerType
    <2> QED BY <2>1
  <1>4. \A i \in DOMAIN backlog : client'[backlog[i]].pc # "off" BY <1>1, <1>2, <1>3, Zenon DEF Tables
  <1>5. \A d \in Clients : client'[d].pc = "off" => life[d] = "none" \/ at.pc = "destroyed"
    BY <1>1, <1>2, Zenon DEF Tables
  <1> QED BY <1>1, <1>4, <1>5, ZenonT(60) DEF Tables

\* A client that connects waits in the backlog once, and has said nothing.
LEMMA ConnectKeeps ==
  ASSUME TcpInv, NEW c \in Clients, Connect(c)
  PROVE  TcpInv'
  <1>1. /\ PeerType /\ Tables /\ Answer(c)
        /\ client[c].pc = "off" /\ at.pc # "destroyed" /\ backlog' = Append(backlog, c)
        /\ wire' = wire /\ UNCHANGED ServerSide
    BY Zenon DEF TcpInv, Answers, Connect
  <1>2. UNCHANGED <<fds, connections, callbacks, life, at, todo, got>> BY <1>1, Zenon DEF ServerSide, tables
  <1>3. /\ client' \in [Clients -> ClientState]
        /\ client'[c].pc = "idle" /\ client'[c].out = client[c].out /\ client'[c].buf = client[c].buf
        /\ client'[c].sent = client[c].sent /\ client'[c].replies = client[c].replies
        /\ \A d \in Clients \ {c} : client'[d] = client[d]
    BY <1>1, ConnectEffect, Zenon
  <1>4. backlog \in Seq(Clients) BY <1>1, Zenon DEF PeerType
  <1>5. /\ backlog' \in Seq(Clients) /\ DOMAIN backlog' = DOMAIN backlog \cup {Len(backlog) + 1}
        /\ backlog'[Len(backlog) + 1] = c /\ \A i \in DOMAIN backlog : backlog'[i] = backlog[i]
    BY <1>1, <1>4
  <1>6. PeerType' BY <1>1, <1>3, <1>5, Zenon DEF PeerType
  <1>7. \A i \in DOMAIN backlog : backlog[i] \in Clients BY <1>4
  <1>8. Tables'
    <2> USE DEF Tables
    <2>0. Tables BY <1>1, Zenon
    <2>1. \A i \in DOMAIN backlog : backlog[i] # c
      <3>1. \A i \in DOMAIN backlog : client[backlog[i]].pc # "off" BY <2>0, Zenon
      <3>2. client[c].pc = "off" BY <1>1, Zenon
      <3> QED BY <3>1, <3>2, Zenon
    <2>2. \A i, j \in DOMAIN backlog' : backlog'[i] = backlog'[j] => i = j
      <3>1. \A i, j \in DOMAIN backlog : backlog[i] = backlog[j] => i = j BY <2>0, Zenon
      <3> QED BY <1>5, <2>1, <3>1, Zenon
    <2>3. life[c] = "none"
      <3>1. client[c].pc = "off" /\ at.pc # "destroyed" BY <1>1, Zenon
      <3> QED BY <2>0, <3>1, Zenon
    <2>4. \A i \in DOMAIN backlog' : life[backlog'[i]] = "none" /\ client'[backlog'[i]].pc # "off"
      <3>1. \A i \in DOMAIN backlog : life[backlog[i]] = "none" /\ client[backlog[i]].pc # "off" BY <2>0, Zenon
      <3>2. client'[c].pc # "off" BY <1>3, Zenon
      <3>3. \A i \in DOMAIN backlog : client'[backlog[i]] = client[backlog[i]] BY <1>3, <1>7, <2>1, Zenon
      <3>4. ASSUME NEW i \in DOMAIN backlog
            PROVE  life[backlog'[i]] = "none" /\ client'[backlog'[i]].pc # "off"
        <4>1. backlog'[i] = backlog[i] BY <1>5, Zenon
        <4> QED BY <3>1, <3>3, <4>1, Zenon
      <3>5. life[backlog'[Len(backlog) + 1]] = "none" /\ client'[backlog'[Len(backlog) + 1]].pc # "off"
        BY <1>5, <2>3, <3>2, Zenon
      <3>6. DOMAIN backlog' = DOMAIN backlog \cup {Len(backlog) + 1} BY <1>5, Zenon
      <3> QED BY <3>4, <3>5, <3>6, Zenon
    <2>5. \A d \in Clients : client'[d].pc = "off" => life[d] = "none" \/ at.pc = "destroyed"
      <3>1. \A d \in Clients : client'[d].pc = "off" => client[d].pc = "off" BY <1>3, Zenon
      <3> QED BY <2>0, <3>1, Zenon
    <2>6. /\ DOMAIN connections' = callbacks' \ {Listener}
          /\ DOMAIN connections' = {f \in Fds : fds'[f] # None}
          /\ \A f, g \in Fds : fds'[f] = fds'[g] /\ fds'[f] # None => f = g
          /\ \A d \in Clients : life'[d] = "up" <=> \E f \in Fds : fds'[f] = d
          /\ at'.pc \in Serving => at'.fd \in DOMAIN connections'
          /\ \A r \in todo' : r.fd \in DOMAIN connections'
      BY <1>2, <2>0, Zenon
    <2>7. /\ \A i \in DOMAIN backlog' : life'[backlog'[i]] = "none" /\ client'[backlog'[i]].pc # "off"
          /\ \A d \in Clients : client'[d].pc = "off" => life'[d] = "none" \/ at'.pc = "destroyed"
      BY <1>2, <2>4, <2>5, Zenon
    <2> QED BY <2>2, <2>6, <2>7, Zenon
  <1>9. ASSUME NEW d \in Seq(Octets), Stream(c, d) PROVE Stream(c, d)'
    BY <1>1, <1>2, <1>3, <1>9, StreamKept, Zenon
  <1>10. Answer(c)'
    <2>1. Pending(c)' = Pending(c) /\ Owed(c)' = Owed(c) BY <1>2, Zenon DEF Pending, Owed
    <2>2. PICK p, O : p = Pending(c) /\ O = Owed(c) BY Zenon
    <2>3. Conversation(c, client[c], wire[c].peer, wire[c].down, Len(got[c]), p, O) BY <1>1, <2>2, Zenon DEF Answer
    <2>4. Conversation(c, client'[c], wire[c].peer, wire[c].down, Len(got[c]), p, O)
      BY <1>1, <1>3, <2>3, Zenon DEF Conversation, Exchange
    <2> QED BY <1>1, <1>2, <2>1, <2>2, <2>4, Zenon DEF Answer
  <1> QED BY <1>1, <1>3, <1>6, <1>8, <1>9, <1>10, ClientStep, Zenon

\* A request that is begun is the next of its client.
LEMMA ClientSendKeeps ==
  ASSUME TcpInv, NEW c \in Clients, ClientSend(c)
  PROVE  TcpInv'
  <1>1. /\ PeerType /\ ThreadType /\ Answer(c)
        /\ client[c].pc = "idle" /\ client[c].sent < Len(Requests[c])
        /\ wire' = wire /\ backlog' = backlog /\ UNCHANGED ServerSide
    BY Zenon DEF TcpInv, Answers, ClientSend
  <1>2. UNCHANGED <<fds, at, todo, got>> BY <1>1, Zenon DEF ServerSide, tables
  <1>3. /\ client' \in [Clients -> ClientState]
        /\ client'[c].pc = "send" /\ client'[c].out = encode_frame(Requests[c][client[c].sent + 1])
        /\ client'[c].buf = client[c].buf
        /\ client'[c].sent = client[c].sent + 1 /\ client'[c].replies = client[c].replies
        /\ \A d \in Clients \ {c} : client'[d] = client[d]
    BY <1>1, ClientSendEffect, Zenon
  <1>4. PeerType' BY <1>1, <1>3, Zenon DEF PeerType
  <1>5. client'[c].pc # "off" BY <1>3, Zenon
  <1>6. Tables' BY <1>1, <1>3, <1>5, TablesStay, Zenon
  <1>7. PICK n \in Nat : n = client[c].sent BY <1>1, PeerFields, Zenon
  <1>8. n < Len(Requests[c]) /\ Requests[c][n + 1] \in Seq(PayloadBytes) BY <1>1, <1>7
  <1>9. PICK f \in Seq(Octets) : f = encode_frame(Requests[c][n + 1]) /\ f # <<>>
    <2>1. PICK f : f = encode_frame(Requests[c][n + 1]) BY Zenon
    <2>2. f \in Seq(Octets) /\ Len(f) = kHeader + Len(Requests[c][n + 1]) /\ Len(Requests[c][n + 1]) \in Nat
      BY <1>8, <2>1, FrameShape, Zenon
    <2>3. f # <<>> BY <2>2 DEF kHeader
    <2> QED BY <2>1, <2>2, <2>3, Zenon
  <1>10. client[c].out = <<>> BY <1>1, Zenon DEF Answer, Conversation
  <1>11. ASSUME NEW d \in Seq(Octets), Stream(c, d) PROVE Stream(c, d)'
    <2>1. wire[c].up \in Seq(Octets) /\ got[c] \in Seq(Seq(PayloadBytes)) BY <1>1, PeerFields, Zenon DEF ThreadType
    <2>2. PICK k \in Nat : k = Len(got[c]) BY <2>1, LenProperties
    <2>3. <<>> \in Seq(Octets) BY Nothing, Zenon
    <2>4. wire[c].up \o <<>> = wire[c].up BY <2>1, <2>3, Concat, Zenon
    <2>5. PICK u \in Seq(Octets) : u = wire[c].up BY <2>1, Zenon
    <2>6. (client[c].pc # "gone") = TRUE BY <1>1, Zenon
    <2>7. Reads(c, n, k, d \o u, TRUE) BY <1>7, <1>10, <1>11, <2>2, <2>4, <2>5, <2>6, Zenon DEF Stream
    <2>8. PICK P \in Seq(Octets) : P = d \o u BY Joins, Zenon
    <2>9. Reads(c, n + 1, k, P \o f, TRUE)
      <3>1. Reads(c, n, k, P, TRUE) BY <2>7, <2>8, Zenon
      <3>2. Reads(c, n + 1, k, P \o encode_frame(Requests[c][n + 1]), TRUE) BY <1>8, <3>1, ReadsMore, Zenon
      <3> QED BY <1>9, <3>2, Zenon
    <2>10. P \o f = d \o (u \o f)
      <3>1. (d \o u) \o f = d \o (u \o f)
        <4>1. Assoc(d, u, f) BY Associates, Zenon
        <4> QED BY <4>1, Zenon DEF Assoc
      <3> QED BY <2>8, <3>1, Zenon
    <2>11. (client'[c].pc # "gone") = TRUE BY <1>3, Zenon
    <2>12. client'[c].sent = n + 1 /\ client'[c].out = f /\ wire'[c].up = u /\ Len(got'[c]) = k
      BY <1>1, <1>2, <1>3, <1>7, <1>9, <2>2, <2>5, Zenon
    <2> QED BY <2>9, <2>10, <2>11, <2>12, Zenon DEF Stream
  <1>12. Answer(c)'
    <2>1. Pending(c)' = Pending(c) /\ Owed(c)' = Owed(c) BY <1>2, Zenon DEF Pending, Owed
    <2>2. PICK p, O, k : p = Pending(c) /\ O = Owed(c) /\ k = Len(got[c]) BY Zenon
    <2>3. Conversation(c, client[c], wire[c].peer, wire[c].down, k, p, O) BY <1>1, <2>2, Zenon DEF Answer
    <2>4. PICK z : z = client'[c] BY Zenon
    <2>5. z.pc = "send" /\ z.out # <<>> /\ z.buf = client[c].buf /\ z.sent = n + 1 /\ z.replies = client[c].replies
      BY <1>3, <1>7, <1>9, <2>4, Zenon
    <2>6. n + 1 <= Len(Requests[c]) BY <1>8
    <2>7. c \notin OneWay => Exchange(c, z, k, (z.buf \o wire[c].down) \o p, O)
      <3>1. SUFFICES ASSUME c \notin OneWay PROVE Exchange(c, z, k, (z.buf \o wire[c].down) \o p, O) BY Zenon
      <3>2. PICK w : w = (z.buf \o wire[c].down) \o p BY Zenon
      <3>3. Exchange(c, client[c], k, w, O) BY <1>1, <2>3, <2>5, <3>1, <3>2, Zenon DEF Conversation
      <3>4. k = n /\ Len(client[c].replies) = n /\ w = <<>> /\ O = {} BY <1>1, <1>7, <3>3, Zenon DEF Exchange
      <3> QED BY <2>5, <3>2, <3>4, Zenon DEF Exchange
    <2>8. Conversation(c, z, wire[c].peer, wire[c].down, k, p, O)
      BY <1>1, <2>3, <2>5, <2>6, <2>7, Zenon DEF Conversation
    <2> QED BY <1>1, <1>2, <2>1, <2>2, <2>4, <2>8, Zenon DEF Answer
  <1> QED BY <1>1, <1>3, <1>4, <1>6, <1>11, <1>12, ClientStep, Zenon

\* The parts of nothing are nothing.
LEMMA ConcatNil ==
  ASSUME NEW s \in Seq(Octets), NEW t \in Seq(Octets), NEW u \in Seq(Octets), (s \o t) \o u = <<>>
  PROVE  s = <<>> /\ t = <<>> /\ u = <<>>
  <1>1. PICK v \in Seq(Octets) : v = s \o t /\ Len(v) = Len(s) + Len(t) /\ Len(s) \in Nat /\ Len(t) \in Nat
    BY Joins, Zenon
  <1>2. Len(v \o u) = Len(v) + Len(u) /\ Len(u) \in Nat /\ Len(v) \in Nat BY Joins, Zenon
  <1>3. Len(v \o u) = 0 BY <1>1
  <1>4. Len(s) = 0 /\ Len(t) = 0 /\ Len(u) = 0 BY <1>1, <1>2, <1>3
  <1> QED BY <1>4, EmptySeq

\* Nothing is the beginning of everything, and so is the beginning of a beginning.
LEMMA BeginsWith ==
  ASSUME NEW s \in Seq(Octets), NEW t \in Seq(Octets), NEW f \in Seq(Octets)
  PROVE  /\ Begins(<<>>, f)
         /\ Begins(s \o t, f) => Begins(s, f) /\ Len(s) + Len(t) <= Len(f)
  <1>1. Begins(<<>>, f) BY DEF Begins
  <1>2. ASSUME Begins(s \o t, f) PROVE Begins(s, f) /\ Len(s) + Len(t) <= Len(f)
    <2>1. PICK v : v = s \o t BY Zenon
    <2>2. /\ Len(v) = Len(s) + Len(t) /\ Len(s) \in Nat /\ Len(t) \in Nat
          /\ \A i \in 1 .. Len(s) : v[i] = s[i]
      BY <2>1, Joins, Zenon
    <2>3. Len(v) <= Len(f) /\ \A i \in 1 .. Len(v) : v[i] = f[i] BY <1>2, <2>1, Zenon DEF Begins
    <2>4. Len(f) \in Nat BY LenProperties
    <2>5. Len(s) <= Len(f) /\ Len(s) + Len(t) <= Len(f) /\ \A i \in 1 .. Len(s) : i \in 1 .. Len(v)
      BY <2>2, <2>3, <2>4
    <2>6. \A i \in 1 .. Len(s) : s[i] = f[i] BY <2>2, <2>3, <2>5, Zenon
    <2> QED BY <2>5, <2>6, Zenon DEF Begins
  <1> QED BY <1>1, <1>2, Zenon

\* A sequence begins with itself.
LEMMA BeginsItself ==
  ASSUME NEW s \in Seq(Octets)
  PROVE  Begins(s, s)
  BY DEF Begins

\* The next request is heard, or answered.
LEMMA BeginsMore ==
  ASSUME NEW c \in Clients, NEW g \in Seq(Seq(PayloadBytes)), NEW q \in Seq(PayloadBytes), Begins(g, Requests[c]),
         Len(g) + 1 \in 1 .. Len(Requests[c]), q = Requests[c][Len(g) + 1]
  PROVE  Begins(Append(g, q), Requests[c])
  <1>1. PICK k \in Nat : k = Len(g) BY LenProperties
  <1>2. PICK h : h = Append(g, q) BY Zenon
  <1>3. Len(h) = k + 1 /\ h[k + 1] = q /\ \A i \in 1 .. k : h[i] = g[i] BY <1>1, <1>2, Appends, Zenon
  <1>4. \A i \in 1 .. k : g[i] = Requests[c][i] BY <1>1, Zenon DEF Begins
  <1>5. \A i \in 1 .. k + 1 : i \in 1 .. k \/ i = k + 1 OBVIOUS
  <1>6. ASSUME NEW i \in 1 .. k + 1 PROVE h[i] = Requests[c][i]
    <2>1. CASE i \in 1 .. k BY <1>3, <1>4, <2>1, Zenon
    <2>2. CASE i = k + 1 BY <1>1, <1>3, <2>2, Zenon
    <2> QED BY <1>5, <2>1, <2>2, Zenon
  <1>7. k + 1 <= Len(Requests[c]) BY <1>1
  <1> QED BY <1>2, <1>3, <1>6, <1>7, Zenon DEF Begins

\* What the thread has still to send.
LEMMA PendingType ==
  ASSUME ThreadType, NEW c
  PROVE  Pending(c) \in Seq(Octets)
  <1>1. at.out \in Seq(Octets) BY Zenon DEF ThreadType, ThreadState
  <1>2. <<>> \in Seq(Octets) BY Nothing, Zenon
  <1> QED BY <1>1, <1>2, Zenon DEF Pending

\* What a client writes moves to its socket, in order.
LEMMA ClientWriteKeeps ==
  ASSUME TcpInv, NEW c \in Clients, ClientWrite(c)
  PROVE  TcpInv'
  <1>1. /\ PeerType /\ ThreadType /\ Answer(c)
        /\ client[c].pc = "send" /\ backlog' = backlog /\ UNCHANGED ServerSide
    BY Zenon DEF TcpInv, Answers, ClientWrite
  <1>2. UNCHANGED <<fds, at, todo, got>> BY <1>1, Zenon DEF ServerSide, tables
  <1>3. PICK a, b \in Seq(Octets) :
          /\ a \o b = client[c].out
          /\ client' \in [Clients -> ClientState] /\ wire' \in [Clients -> WireState]
          /\ client'[c].pc = IF b # <<>> THEN "send" ELSE IF c \in OneWay THEN "idle" ELSE "receive"
          /\ client'[c].out = b /\ client'[c].buf = <<>>
          /\ client'[c].sent = client[c].sent /\ client'[c].replies = client[c].replies
          /\ wire'[c].up = wire[c].up \o a /\ wire'[c].down = wire[c].down
          /\ wire'[c].peer = wire[c].peer
          /\ \A d \in Clients \ {c} : client'[d] = client[d] /\ wire'[d] = wire[d]
    BY <1>1, ClientWriteEffect, Zenon
  <1>4. PeerType' BY <1>1, <1>3, Zenon DEF PeerType
  <1>5. client'[c].pc \in {"send", "idle", "receive"} BY <1>3, Zenon
  <1>6. Tables'
    <2>1. client'[c].pc # "off" BY <1>5, Zenon
    <2>2. \A d \in Clients \ {c} : client'[d] = client[d] BY <1>3, Zenon
    <2> QED BY <1>1, <2>1, <2>2, TablesStay, Zenon
  <1>7. ASSUME NEW d \in Seq(Octets), Stream(c, d) PROVE Stream(c, d)'
    <2>1. PICK u \in Seq(Octets) : u = wire[c].up BY <1>1, PeerFields, Zenon
    <2>2. (u \o a) \o b = u \o (a \o b)
      <3>1. Assoc(u, a, b) BY Associates, Zenon
      <3> QED BY <3>1, Zenon DEF Assoc
    <2>3. wire'[c].up \o client'[c].out = wire[c].up \o client[c].out BY <1>3, <2>1, <2>2, Zenon
    <2>4. (client[c].pc # "gone") = TRUE BY <1>1, Zenon
    <2>5. (client'[c].pc # "gone") = TRUE BY <1>5, Zenon
    <2>6. client'[c].sent = client[c].sent /\ got'[c] = got[c] BY <1>2, <1>3, Zenon
    <2>7. Reads(c, client[c].sent, Len(got[c]), d \o (wire[c].up \o client[c].out), TRUE)
      BY <1>7, <2>4, Zenon DEF Stream
    <2> QED BY <2>3, <2>5, <2>6, <2>7, Zenon DEF Stream
  <1>8. Answer(c)'
    <2>1. Pending(c)' = Pending(c) /\ Owed(c)' = Owed(c) BY <1>2, Zenon DEF Pending, Owed
    <2>2. PICK p, O, k : p = Pending(c) /\ O = Owed(c) /\ k = Len(got[c]) BY Zenon
    <2>3. PICK w : w = wire[c].down BY Zenon
    <2>4. Conversation(c, client[c], wire[c].peer, w, k, p, O) BY <1>1, <2>2, <2>3, Zenon DEF Answer
    <2>5. PICK z : z = client'[c] BY Zenon
    <2>6. /\ z.pc = IF b # <<>> THEN "send" ELSE IF c \in OneWay THEN "idle" ELSE "receive"
          /\ z.out = b /\ z.buf = <<>> /\ z.sent = client[c].sent /\ z.replies = client[c].replies
      BY <1>3, <2>5, Zenon
    <2>7. ASSUME c \notin OneWay PROVE Exchange(c, z, k, (z.buf \o w) \o p, O)
      <3>1. Exchange(c, client[c], k, (client[c].buf \o w) \o p, O)
        BY <1>1, <2>4, <2>7, Zenon DEF Conversation
      <3>2. /\ k + 1 = z.sent /\ Len(z.replies) + 1 = z.sent /\ O = {}
            /\ (client[c].buf \o w) \o p = <<>>
        BY <1>1, <2>6, <3>1, Zenon DEF Exchange
      <3>3. /\ client[c].buf \in Seq(Octets) /\ w \in Seq(Octets) /\ p \in Seq(Octets)
            /\ z.sent \in Nat /\ z.sent <= Len(Requests[c])
        <4>1. client[c].buf \in Seq(Octets) /\ w \in Seq(Octets) /\ client[c].sent \in Nat
          BY <1>1, <2>3, PeerFields, Zenon
        <4>2. p \in Seq(Octets) BY <1>1, <2>2, PendingType, Zenon
        <4>3. client[c].sent <= Len(Requests[c]) BY <2>4, Zenon DEF Conversation
        <4> QED BY <2>6, <4>1, <4>2, <4>3, Zenon
      <3>4. w = <<>> /\ p = <<>>
        <4>1. PICK x, y, v \in Seq(Octets) : x = client[c].buf /\ y = w /\ v = p BY <3>3, Zenon
        <4>2. (x \o y) \o v = <<>> BY <3>2, <4>1, Zenon
        <4>3. y = <<>> /\ v = <<>> BY <4>2, ConcatNil
        <4> QED BY <4>1, <4>3, Zenon
      <3>5. (z.buf \o w) \o p = <<>>
        <4>1. (<<>> \o <<>>) \o <<>> = <<>> BY Nothing, Zenon
        <4> QED BY <2>6, <3>4, <4>1, Zenon
      <3>6. Begins(<<>>, encode_frame(Requests[c][z.sent]))
        <4>1. k \in Nat
          <5>1. got[c] \in Seq(Seq(PayloadBytes)) BY <1>1, Zenon DEF ThreadType
          <5> QED BY <2>2, <5>1, LenProperties
        <4>2. z.sent \in 1 .. Len(Requests[c]) BY <3>2, <3>3, <4>1
        <4>3. Requests[c][z.sent] \in Seq(PayloadBytes) BY <4>2
        <4>4. encode_frame(Requests[c][z.sent]) \in Seq(Octets) BY <4>3, FrameShape, Zenon
        <4> QED BY <4>4, BeginsWith, Zenon
      <3>7. z.pc \in {"send", "receive"} BY <2>6, <2>7, Zenon
      <3> QED BY <3>2, <3>5, <3>6, <3>7, Zenon DEF Exchange
    <2>8. z.pc # "gone" /\ (z.pc = "send" <=> z.out # <<>>) /\ (c \in OneWay => z.pc # "receive")
      BY <2>6, Zenon
    <2>9. Conversation(c, z, wire[c].peer, w, k, p, O)
      BY <1>1, <2>4, <2>6, <2>7, <2>8, Zenon DEF Conversation
    <2>10. wire'[c].peer = wire[c].peer /\ wire'[c].down = w /\ Len(got'[c]) = k BY <1>2, <1>3, <2>2, <2>3, Zenon
    <2> QED BY <2>1, <2>2, <2>5, <2>9, <2>10, Zenon DEF Answer
  <1>9. \A d \in Clients \ {c} : client'[d] = client[d] /\ wire'[d] = wire[d] BY <1>3, Zenon
  <1>10. wire[c].peer = "reset" => wire'[c].peer = "reset" BY <1>3, Zenon
  <1> QED BY <1>1, <1>4, <1>6, <1>7, <1>8, <1>9, <1>10, ClientStep, Zenon

\* The client is gone: what it had not written stays unwritten.
LEMMA GoneKeeps ==
  ASSUME TcpInv, NEW c \in Clients, NEW how \in {"closed", "reset"}, client[c].pc # "gone", Gone(c, how)
  PROVE  TcpInv'
  <1>1. /\ PeerType /\ ThreadType /\ Answer(c) /\ how \in Peers
        /\ backlog' = backlog /\ UNCHANGED ServerSide
    BY Zenon DEF TcpInv, Answers, Gone, Peers
  <1>2. UNCHANGED <<fds, at, todo, got>> BY <1>1, Zenon DEF ServerSide, tables
  <1>3. /\ client' \in [Clients -> ClientState] /\ wire' \in [Clients -> WireState]
        /\ client'[c].pc = "gone" /\ client'[c].out = <<>> /\ client'[c].buf = <<>>
        /\ client'[c].sent = client[c].sent /\ client'[c].replies = client[c].replies
        /\ wire'[c].up = wire[c].up /\ wire'[c].down = <<>> /\ wire'[c].peer = how
        /\ \A d \in Clients \ {c} : client'[d] = client[d] /\ wire'[d] = wire[d]
    BY <1>1, GoneEffect, Zenon
  <1>4. PeerType' BY <1>1, <1>3, Zenon DEF PeerType
  <1>5. Tables'
    <2>1. client'[c].pc # "off" /\ \A d \in Clients \ {c} : client'[d] = client[d] BY <1>3, Zenon
    <2> QED BY <1>1, <2>1, TablesStay, Zenon
  <1>6. ASSUME NEW d \in Seq(Octets), Stream(c, d) PROVE Stream(c, d)'
    <2>1. /\ wire[c].up \in Seq(Octets) /\ client[c].out \in Seq(Octets) /\ client[c].sent \in Nat
          /\ got[c] \in Seq(Seq(PayloadBytes))
      BY <1>1, PeerFields, Zenon DEF ThreadType
    <2>2. PICK u \in Seq(Octets), o \in Seq(Octets), n \in Nat :
            u = wire[c].up /\ o = client[c].out /\ n = client[c].sent
      BY <2>1, Zenon
    <2>3. PICK k \in Nat : k = Len(got[c]) BY <2>1, LenProperties
    <2>4. (client[c].pc # "gone") = TRUE BY Zenon
    <2>5. Reads(c, n, k, d \o (u \o o), TRUE) BY <1>6, <2>2, <2>3, <2>4, Zenon DEF Stream
    <2>6. PICK Q \in Seq(Octets), P \in Seq(Octets) : Q = d \o u /\ P = Q \o o /\ P = d \o (u \o o)
      <3>1. PICK Q \in Seq(Octets) : Q = d \o u BY Joins, Zenon
      <3>2. (d \o u) \o o = d \o (u \o o)
        <4>1. Assoc(d, u, o) BY Associates, Zenon
        <4> QED BY <4>1, Zenon DEF Assoc
      <3>3. Q \o o \in Seq(Octets) BY Joins, Zenon
      <3> QED BY <3>1, <3>2, <3>3, Zenon
    <2>7. Len(Q) <= Len(P) /\ \A j \in 1 .. Len(Q) : Q[j] = P[j]
      <3>1. /\ Len(Q \o o) = Len(Q) + Len(o) /\ Len(Q) \in Nat /\ Len(o) \in Nat
            /\ \A j \in 1 .. Len(Q) : (Q \o o)[j] = Q[j]
        BY Joins, Zenon
      <3>2. Len(P) = Len(Q) + Len(o) /\ \A j \in 1 .. Len(Q) : P[j] = Q[j] BY <2>6, <3>1, Zenon
      <3>3. Len(Q) <= Len(P) BY <3>1, <3>2
      <3> QED BY <3>2, <3>3, Zenon
    <2>8. Reads(c, n, k, P, TRUE) BY <2>5, <2>6, Zenon
    <2>9. Reads(c, n, k, Q, FALSE) BY <2>7, <2>8, ReadsPart, Zenon
    <2>10. u \o <<>> = u BY Concat, Zenon
    <2>11. (client'[c].pc # "gone") = FALSE BY <1>3, Zenon
    <2>12. /\ client'[c].sent = n /\ Len(got'[c]) = k
           /\ d \o (wire'[c].up \o client'[c].out) = Q
      BY <1>2, <1>3, <2>2, <2>3, <2>6, <2>10, Zenon
    <2> QED BY <2>9, <2>11, <2>12, Zenon DEF Stream
  <1>7. Answer(c)'
    <2>1. Pending(c)' = Pending(c) /\ Owed(c)' = Owed(c) BY <1>2, Zenon DEF Pending, Owed
    <2>2. PICK p, O, k : p = Pending(c) /\ O = Owed(c) /\ k = Len(got[c]) BY Zenon
    <2>3. Conversation(c, client[c], wire[c].peer, wire[c].down, k, p, O) BY <1>1, <2>2, Zenon DEF Answer
    <2>4. Conversation(c, client'[c], how, <<>>, k, p, O) BY <1>3, <2>3, Zenon DEF Conversation
    <2> QED BY <1>2, <1>3, <2>1, <2>2, <2>4, Zenon DEF Answer
  <1>8. wire[c].peer = "open" BY <1>1, Zenon DEF Answer, Conversation
  <1>9. wire[c].peer = "reset" => wire'[c].peer = "reset" BY <1>8, Zenon
  <1> QED BY <1>1, <1>3, <1>4, <1>5, <1>6, <1>7, <1>9, ClientStep, Zenon

\* receive_one() returns the reply to the last request, and nothing is left of it.
LEMMA ClientReceiveFrameKeeps ==
  ASSUME TcpInv, NEW c \in Clients, client[c].pc = "receive", try_extract(client[c].buf).kind = "frame",
         client' = [client EXCEPT ![c] =
                      [client[c] EXCEPT !.pc = "idle", !.buf = <<>>,
                         !.replies = Append(client[c].replies, try_extract(client[c].buf).payload)]],
         UNCHANGED <<wire, backlog, ServerSide>>
  PROVE  TcpInv'
  <1>1. PeerType /\ ThreadType /\ Answer(c) BY Zenon DEF TcpInv, Answers
  <1>2. UNCHANGED <<wire, backlog, fds, at, todo, got>> /\ UNCHANGED ServerSide BY Zenon DEF ServerSide, tables
  <1>3. PICK p, O, k : p = Pending(c) /\ O = Owed(c) /\ k = Len(got[c]) BY Zenon
  <1>4. Conversation(c, client[c], wire[c].peer, wire[c].down, k, p, O) BY <1>1, <1>3, Zenon DEF Answer
  <1>5. /\ client[c].buf \in Seq(Octets) /\ wire[c].down \in Seq(Octets) /\ client[c].sent \in Nat
        /\ client[c].replies \in Seq(Seq(PayloadBytes)) /\ client[c].out = <<>>
    BY <1>1, <1>4, PeerFields, Zenon DEF Conversation
  <1>6. PICK B \in Seq(Octets) : B = client[c].buf BY <1>5, Zenon
  <1>7. PICK D \in Seq(Octets) : D = wire[c].down BY <1>5, Zenon
  <1>8. p \in Seq(Octets) BY <1>1, <1>3, PendingType, Zenon
  <1>9. PICK n \in Nat : n = client[c].sent BY <1>5, Zenon
  <1>10. PICK t \in Seq(Seq(PayloadBytes)) : t = client[c].replies BY <1>5, Zenon
  <1>11. Exchange(c, client[c], k, (B \o D) \o p, O) /\ c \notin OneWay
    BY <1>4, <1>6, <1>7, Zenon DEF Conversation
  <1>12. /\ Len(t) + 1 = n /\ n <= Len(Requests[c]) /\ Begins(t, Requests[c])
         /\ Begins((B \o D) \o p, encode_frame(Requests[c][n]))
         /\ \A r \in O : (B \o D) \o p = <<>>
         /\ (B \o D) \o p # <<>> => k = n
    BY <1>4, <1>9, <1>10, <1>11, Zenon DEF Conversation, Exchange
  <1>13. Len(t) \in Nat BY LenProperties
  <1>14. n \in 1 .. Len(Requests[c]) BY <1>12, <1>13
  <1>15. PICK q \in Seq(PayloadBytes) : q = Requests[c][n] BY <1>14
  <1>16. PICK F \in Seq(Octets) : F = encode_frame(q) /\ Len(F) = kHeader + Len(q) /\ Len(q) \in Nat
    BY FrameShape, Zenon
  <1>17. PICK E \in Seq(Octets) : E = D \o p /\ Len(E) = Len(D) + Len(p) /\ Len(D) \in Nat /\ Len(p) \in Nat
    BY <1>8, Joins, Zenon
  <1>18. (B \o D) \o p = B \o E
    <2>1. (B \o D) \o p = B \o (D \o p)
      <3>1. Assoc(B, D, p) BY <1>8, Associates, Zenon
      <3> QED BY <3>1, Zenon DEF Assoc
    <2> QED BY <1>17, <2>1, Zenon
  <1>19. Begins(B \o E, F) BY <1>12, <1>15, <1>16, <1>18, Zenon
  <1>20. Begins(B, F) /\ Len(B) + Len(E) <= Len(F) BY <1>19, BeginsWith, Zenon
  <1>21. Len(B) \in Nat BY LenProperties
  <1>22. \A j \in 1 .. Len(B) : j <= kHeader + Len(q) => B[j] = encode_frame(q)[j]
    BY <1>16, <1>20, Zenon DEF Begins
  <1>23. try_extract(B).kind = "frame" => kHeader + Len(q) <= Len(B) /\ try_extract(B).payload = q
    BY <1>22, NextFrame, Zenon
  <1>24. kHeader + Len(q) <= Len(B) /\ try_extract(client[c].buf).payload = q BY <1>6, <1>23, Zenon
  <1>25. Len(D) = 0 /\ Len(p) = 0 /\ Len(B) # 0 BY <1>16, <1>17, <1>20, <1>21, <1>24 DEF kHeader
  <1>26. D = <<>> /\ p = <<>> /\ B # <<>>
    <2>1. D = <<>> /\ p = <<>> BY <1>8, <1>25, EmptySeq
    <2>2. B # <<>> BY <1>25
    <2> QED BY <2>1, <2>2, Zenon
  <1>27. (B \o D) \o p # <<>>
    <2>1. ASSUME (B \o D) \o p = <<>> PROVE FALSE BY <1>8, <1>26, <2>1, ConcatNil
    <2> QED BY <2>1, Zenon
  <1>28. k = n /\ O = {} BY <1>12, <1>27, Zenon
  <1>29. client' = [client EXCEPT ![c] =
                      [client[c] EXCEPT !.pc = "idle", !.buf = <<>>, !.replies = Append(client[c].replies, q)]]
    BY <1>24, Zenon
  <1>30. /\ client' \in [Clients -> ClientState]
         /\ client'[c].pc = "idle" /\ client'[c].out = client[c].out /\ client'[c].buf = <<>>
         /\ client'[c].sent = client[c].sent /\ client'[c].replies = Append(client[c].replies, q)
         /\ \A d \in Clients \ {c} : client'[d] = client[d]
    BY <1>1, <1>29, ClientReceiveFrameEffect, Zenon
  <1>31. PeerType' BY <1>1, <1>2, <1>30, Zenon DEF PeerType
  <1>32. Tables'
    <2>1. client'[c].pc # "off" /\ \A d \in Clients \ {c} : client'[d] = client[d] BY <1>30, Zenon
    <2> QED BY <1>2, <2>1, TablesStay, Zenon
  <1>33. ASSUME NEW d \in Seq(Octets), Stream(c, d) PROVE Stream(c, d)'
    BY <1>2, <1>30, <1>33, StreamKept, Zenon
  <1>34. Answer(c)'
    <2>1. PICK z : z = client'[c] BY Zenon
    <2>2. PICK u \in Seq(Seq(PayloadBytes)) : u = Append(t, q) /\ Len(u) = Len(t) + 1
      <3>1. Append(t, q) \in Seq(Seq(PayloadBytes)) /\ Len(Append(t, q)) = Len(t) + 1 BY Appends, Zenon
      <3> QED BY <3>1, Zenon
    <2>3. z.pc = "idle" /\ z.out = <<>> /\ z.buf = <<>> /\ z.sent = n /\ z.replies = u
      BY <1>5, <1>9, <1>10, <1>30, <2>1, <2>2, Zenon
    <2>4. Begins(u, Requests[c]) BY <1>12, <1>14, <1>15, <2>2, BeginsMore, Zenon
    <2>5. (<<>> \o D) \o p = <<>>
      <3>1. (<<>> \o <<>>) \o <<>> = <<>> BY Nothing, Zenon
      <3> QED BY <1>26, <3>1, Zenon
    <2>6. Len(u) = n BY <1>12, <2>2, Zenon
    <2>7. Exchange(c, z, k, (z.buf \o D) \o p, O) BY <1>28, <2>3, <2>5, <2>6, Zenon DEF Exchange
    <2>8. Conversation(c, z, wire[c].peer, D, k, p, O)
      BY <1>4, <1>11, <1>12, <2>3, <2>4, <2>7, Zenon DEF Conversation
    <2>9. Pending(c)' = Pending(c) /\ Owed(c)' = Owed(c) BY <1>2, Zenon DEF Pending, Owed
    <2> QED BY <1>2, <1>3, <1>7, <2>1, <2>8, <2>9, Zenon DEF Answer
  <1>35. /\ \A d \in Clients \ {c} : client'[d] = client[d] /\ wire'[d] = wire[d]
         /\ wire[c].peer = "reset" => wire'[c].peer = "reset"
    BY <1>2, <1>30, Zenon
  <1> QED BY <1>2, <1>31, <1>32, <1>33, <1>34, <1>35, ClientStep, Zenon

\* recv() in receive_one() moves bytes from the socket to the decoder, in order.
LEMMA ClientReceiveMoreKeeps ==
  ASSUME TcpInv, NEW c \in Clients, client[c].pc = "receive", NEW i \in 1 .. Len(wire[c].down),
         client' = [client EXCEPT ![c].buf = @ \o SubSeq(wire[c].down, 1, i)],
         wire' = [wire EXCEPT ![c].down = Drop(@, i)],
         UNCHANGED <<backlog, ServerSide>>
  PROVE  TcpInv'
  <1>1. PeerType /\ ThreadType /\ Answer(c) BY Zenon DEF TcpInv, Answers
  <1>2. UNCHANGED <<backlog, fds, at, todo, got>> /\ UNCHANGED ServerSide BY Zenon DEF ServerSide, tables
  <1>3. PICK a, b \in Seq(Octets) :
          /\ a \o b = wire[c].down
          /\ client' \in [Clients -> ClientState] /\ wire' \in [Clients -> WireState]
          /\ client'[c].pc = client[c].pc /\ client'[c].out = client[c].out
          /\ client'[c].buf = client[c].buf \o a
          /\ client'[c].sent = client[c].sent /\ client'[c].replies = client[c].replies
          /\ wire'[c].up = wire[c].up /\ wire'[c].down = b /\ wire'[c].peer = wire[c].peer
          /\ \A d \in Clients \ {c} : client'[d] = client[d] /\ wire'[d] = wire[d]
    BY <1>1, ClientReceiveMoreEffect, Zenon
  <1>4. PeerType' BY <1>1, <1>2, <1>3, Zenon DEF PeerType
  <1>5. Tables'
    <2>1. client'[c].pc # "off" /\ \A d \in Clients \ {c} : client'[d] = client[d] BY <1>3, Zenon
    <2> QED BY <1>2, <2>1, TablesStay, Zenon
  <1>6. ASSUME NEW d \in Seq(Octets), Stream(c, d) PROVE Stream(c, d)'
    BY <1>2, <1>3, <1>6, StreamKept, Zenon
  <1>7. Answer(c)'
    <2>1. Pending(c)' = Pending(c) /\ Owed(c)' = Owed(c) BY <1>2, Zenon DEF Pending, Owed
    <2>2. PICK p, O, k : p = Pending(c) /\ O = Owed(c) /\ k = Len(got[c]) BY Zenon
    <2>3. Conversation(c, client[c], wire[c].peer, wire[c].down, k, p, O) BY <1>1, <2>2, Zenon DEF Answer
    <2>4. c \notin OneWay BY <2>3, Zenon DEF Conversation
    <2>5. (client[c].buf \o a) \o b = client[c].buf \o wire[c].down
      <3>1. PICK B \in Seq(Octets) : B = client[c].buf BY <1>1, PeerFields, Zenon
      <3>2. (B \o a) \o b = B \o (a \o b)
        <4>1. Assoc(B, a, b) BY Associates, Zenon
        <4> QED BY <4>1, Zenon DEF Assoc
      <3> QED BY <1>3, <3>1, <3>2, Zenon
    <2>6. PICK z, w : z = client'[c] /\ w = (client[c].buf \o wire[c].down) \o p BY Zenon
    <2>7. w = (z.buf \o b) \o p BY <1>3, <2>5, <2>6, Zenon
    <2>8. /\ z.pc = client[c].pc /\ z.out = client[c].out /\ z.sent = client[c].sent
          /\ z.replies = client[c].replies
      BY <1>3, <2>6, Zenon
    <2>9. Exchange(c, client[c], k, w, O) BY <2>3, <2>4, <2>6, Zenon DEF Conversation
    <2>10. Exchange(c, z, k, w, O) BY <2>8, <2>9, Zenon DEF Exchange
    <2>11. Conversation(c, z, wire[c].peer, b, k, p, O)
      BY <2>3, <2>4, <2>7, <2>8, <2>10, Zenon DEF Conversation
    <2> QED BY <1>2, <1>3, <2>1, <2>2, <2>6, <2>11, Zenon DEF Answer
  <1>8. /\ \A d \in Clients \ {c} : client'[d] = client[d] /\ wire'[d] = wire[d]
        /\ wire[c].peer = "reset" => wire'[c].peer = "reset"
    BY <1>3, Zenon
  <1> QED BY <1>2, <1>4, <1>5, <1>6, <1>7, <1>8, ClientStep, Zenon

\* Whatever a client does keeps the invariant.
LEMMA ClientKeeps ==
  ASSUME TcpInv, NEW c \in Clients, Connect(c) \/ Client(c) \/ ClientCloses(c)
  PROVE  TcpInv'
  <1>1. CASE Connect(c) BY <1>1, ConnectKeeps, Zenon
  <1>2. CASE ClientSend(c) BY <1>2, ClientSendKeeps, Zenon
  <1>3. CASE ClientWrite(c) BY <1>3, ClientWriteKeeps, Zenon
  <1>4. CASE ClientReceive(c)
    <2>1. client[c].pc = "receive" /\ UNCHANGED <<backlog, ServerSide>> BY <1>4, Zenon DEF ClientReceive
    <2>2. \/ /\ try_extract(client[c].buf).kind = "frame"
             /\ client' = [client EXCEPT ![c] =
                             [client[c] EXCEPT !.pc = "idle", !.buf = <<>>,
                                !.replies = Append(client[c].replies, try_extract(client[c].buf).payload)]]
             /\ wire' = wire
          \/ \E i \in 1 .. Len(wire[c].down) :
               /\ client' = [client EXCEPT ![c].buf = @ \o SubSeq(wire[c].down, 1, i)]
               /\ wire' = [wire EXCEPT ![c].down = Drop(@, i)]
      BY <1>4, Zenon DEF ClientReceive
    <2> QED BY <2>1, <2>2, ClientReceiveFrameKeeps, ClientReceiveMoreKeeps, Zenon
  <1>5. CASE ClientThrows(c)
    <2>1. client[c].pc # "gone" /\ Gone(c, "closed") BY <1>5, Zenon DEF ClientThrows
    <2> QED BY <2>1, GoneKeeps, Zenon
  <1>6. CASE ClientCloses(c)
    <2>1. client[c].pc # "gone" BY <1>6, Zenon DEF ClientCloses
    <2>2. PICK how \in {"closed", "reset"} : Gone(c, how) BY <1>6, Zenon DEF ClientCloses
    <2> QED BY <2>1, <2>2, GoneKeeps, Zenon
  <1> QED BY <1>1, <1>2, <1>3, <1>4, <1>5, <1>6, Zenon DEF Client

(***************************************************************************)
(* The steps of the loop keep the invariant                                *)
(***************************************************************************)

\* A step that moves the thread and the events and nothing else.
LEMMA QuietKeeps ==
  ASSUME TcpInv, UNCHANGED <<loop, client, wire, backlog, fds, connections, callbacks, life, got, todo>>,
         at' \in ThreadState, at'.pc \in Serving => at'.fd \in DOMAIN connections,
         at' = at \/ (at.pc \notin Sending \cup {"destroyed"} /\ at'.pc \notin Sending), Epoll'
  PROVE  TcpInv'
  <1>1. PeerType /\ TableType /\ ThreadType /\ Tables /\ Streams /\ Heard /\ Answers BY Zenon DEF TcpInv
  <1>2. PeerType' /\ TableType' /\ ThreadType' BY <1>1, Zenon DEF PeerType, TableType, ThreadType
  <1>3. Tables' BY <1>1, Zenon DEF Tables
  <1>4. Streams' BY <1>1, Zenon DEF Streams, Stream
  <1>5. Heard' BY <1>1, Zenon DEF Heard
  <1>6. Answers'
    <2>1. ASSUME NEW c \in Clients PROVE Answer(c)'
      <3>1. Pending(c)' = Pending(c) BY Zenon DEF Pending
      <3>2. Owed(c)' = Owed(c) BY Zenon DEF Owed
      <3>3. Answer(c) BY <1>1, Zenon DEF Answers
      <3> QED BY <3>1, <3>2, <3>3, AnswerKept, Zenon
    <2> QED BY <2>1, Zenon DEF Answers
  <1> QED BY <1>2, <1>3, <1>4, <1>5, <1>6, Zenon DEF TcpInv

\* The kernel completes a POLL_ADD, which no EpollLoop has.
LEMMA CompleteKeeps ==
  ASSUME TcpInv, NEW p, Complete(p)
  PROVE  TcpInv'
  <1>1. /\ UNCHANGED <<loop, client, wire, backlog, fds, connections, callbacks, life, got, todo, at>>
        /\ p \in polls /\ Epoll /\ Tables /\ ThreadType
    BY Zenon DEF Complete, fixed, peers, tables, TcpInv
  <1>2. Epoll' BY <1>1, Zenon DEF Epoll
  <1>3. at' \in ThreadState /\ (at'.pc \in Serving => at'.fd \in DOMAIN connections)
    BY <1>1, Zenon DEF Tables, ThreadType
  <1> QED BY <1>1, <1>2, <1>3, QuietKeeps, Zenon

\* What epoll_wait returns is of connections there are.
LEMMA PollKeeps ==
  ASSUME TcpInv, Poll
  PROVE  TcpInv'
  <1>1. /\ UNCHANGED <<loop, client, wire, backlog, fds, connections, callbacks, life, got, todo, polls>>
        /\ at.pc = "idle" /\ at' = [at EXCEPT !.pc = "dispatch"]
        /\ Epoll /\ Tables /\ ThreadType
    BY Zenon DEF Poll, fixed, peers, tables, TcpInv
  <1>2. at' \in ThreadState /\ at'.pc = "dispatch"
    <2>1. "dispatch" \in ThreadPcs BY Zenon DEF ThreadPcs
    <2> QED BY <1>1, <2>1, ThreadSet, Zenon
  <1>3. at'.pc \notin Serving /\ at.pc \notin Sending \cup {"destroyed"} /\ at'.pc \notin Sending
    BY <1>1, <1>2, Zenon DEF Serving, Sending
  <1>4. Epoll'
    <2>1. SUFFICES ASSUME loop = "epoll" PROVE Epoll' BY <1>1, Zenon DEF Epoll
    <2>2. events' = {Event(fd, File(fd)) : fd \in {f \in callbacks : Ready(File(f))}} BY <2>1, Zenon DEF Poll
    <2>3. ASSUME NEW e \in events'
          PROVE  \E fd \in callbacks : e = Event(fd, File(fd)) /\ e.fd = fd /\ e.hup = Hup(File(fd))
      <3>1. PICK fd \in callbacks : e = Event(fd, File(fd)) BY <2>2, <2>3, Zenon
      <3>2. e.fd = fd /\ e.hup = Hup(File(fd)) BY <3>1 DEF Event
      <3> QED BY <3>1, <3>2, Zenon
    <2>4. ASSUME NEW e \in events'
          PROVE  e.fd \in callbacks /\ (e.hup => e.fd # Listener /\ wire[fds[e.fd]].peer = "reset")
      <3>1. PICK fd \in callbacks : e.fd = fd /\ e.hup = Hup(File(fd)) BY <2>3, Zenon
      <3>2. ASSUME e.hup PROVE fd # Listener /\ wire[fds[fd]].peer = "reset"
        <4>1. File(fd) # Listener /\ wire[File(fd)].peer = "reset" BY <3>1, <3>2, Zenon DEF Hup
        <4>2. fd # Listener /\ File(fd) = fds[fd] BY <4>1, Zenon DEF File
        <4> QED BY <4>1, <4>2, Zenon
      <3> QED BY <3>1, <3>2, Zenon
    <2>5. \A e, f \in events' : e.fd = f.fd => e = f BY <2>3, Zenon
    <2>6. at'.pc \notin {"idle", "push"} BY <1>2, Zenon
    <2>7. polls = {} BY <1>1, <2>1, Zenon DEF Epoll
    <2> QED BY <1>1, <1>3, <2>1, <2>4, <2>5, <2>6, <2>7, Zenon DEF Epoll
  <1> QED BY <1>1, <1>2, <1>3, <1>4, QuietKeeps, Zenon

\* The thread is done with a callback, or with all events, and no event is taken.
LEMMA MovesOn ==
  ASSUME TcpInv, UNCHANGED <<loop, client, wire, backlog, fds, connections, callbacks, life, got, todo, events>>,
         at' \in ThreadState, at.pc \notin Sending \cup {"destroyed"}, at'.pc \in {"idle", "dispatch", "recv"},
         at'.pc = "recv" => at.pc = "extract" /\ at'.fd = at.fd,
         at'.pc = "idle" => events = {}, loop = "epoll" => polls' = polls
  PROVE  TcpInv'
  <1>1. Epoll /\ Tables BY Zenon DEF TcpInv
  <1>2. at'.pc \in Serving => at'.pc = "recv" /\ at.pc \in Serving /\ at'.fd = at.fd BY Zenon DEF Serving
  <1>3. at'.pc \in Serving => at'.fd \in DOMAIN connections BY <1>1, <1>2, Zenon DEF Tables
  <1>4. Epoll'
    <2>1. SUFFICES ASSUME loop = "epoll" PROVE Epoll' BY Zenon DEF Epoll
    <2>2. \A e \in events : at'.pc \in Serving => e.fd # at'.fd BY <1>1, <1>2, <2>1, Zenon DEF Epoll
    <2>3. at'.pc # "push" BY Zenon
    <2> QED BY <1>1, <2>1, <2>2, <2>3, Zenon DEF Epoll
  <1>5. at'.pc \notin Sending BY Zenon DEF Sending
  <1> QED BY <1>3, <1>4, <1>5, QuietKeeps, Zenon

\* poll_once() returns when every event has been handled.
LEMMA EndPollKeeps ==
  ASSUME TcpInv, EndPoll
  PROVE  TcpInv'
  <1>1. /\ UNCHANGED <<loop, client, wire, backlog, fds, connections, callbacks, life, got, todo, events, polls>>
        /\ at.pc = "dispatch" /\ events = {} /\ at' = Idle /\ ThreadType
    BY Zenon DEF EndPoll, fixed, peers, tables, TcpInv
  <1>2. at' \in ThreadState /\ at'.pc = "idle"
    <2>1. "idle" \in ThreadPcs BY Zenon DEF ThreadPcs
    <2>2. Idle \in ThreadState /\ Idle.pc = "idle" BY <1>1, <2>1, ThreadSet, Zenon
    <2> QED BY <1>1, <2>2, Zenon
  <1>3. at.pc \notin Sending \cup {"destroyed"} /\ at'.pc \in {"idle", "dispatch", "recv"} /\ at'.pc # "recv"
    BY <1>1, <1>2, Zenon DEF Sending
  <1> QED BY <1>1, <1>2, <1>3, MovesOn, Zenon

\* A callback returns.
LEMMA ReturnKeeps ==
  ASSUME TcpInv, AcceptDone \/ RecvDrained
  PROVE  TcpInv'
  <1>1. /\ UNCHANGED <<loop, client, wire, backlog, fds, connections, callbacks, life, got, todo, events>>
        /\ at.pc \in {"accept", "recv"} /\ Return /\ ThreadType
    BY Zenon DEF AcceptDone, RecvDrained, fixed, peers, tables, TcpInv
  <1>2. at' \in ThreadState /\ at'.pc = "dispatch"
    <2>1. "dispatch" \in ThreadPcs BY Zenon DEF ThreadPcs
    <2>2. at' = [Idle EXCEPT !.pc = "dispatch"] BY <1>1, Zenon DEF Return
    <2> QED BY <1>1, <2>1, <2>2, ThreadSet, Zenon
  <1>3. loop = "epoll" => polls' = polls BY <1>1, Zenon DEF Return, Armed
  <1>4. /\ at.pc \notin Sending \cup {"destroyed"} /\ at'.pc \in {"idle", "dispatch", "recv"}
        /\ at'.pc # "recv" /\ at'.pc # "idle"
    BY <1>1, <1>2, Zenon DEF Sending
  <1> QED BY <1>1, <1>2, <1>3, <1>4, MovesOn, Zenon

(***************************************************************************)
(* The end of a connection keeps the invariant                             *)
(***************************************************************************)

\* disconnect() leaves nothing of the connection for the next one of the same id.
LEMMA DisconnectKeeps ==
  ASSUME TcpInv, NEW fd \in DOMAIN connections, Disconnect(fd),
         UNCHANGED <<loop, client, backlog, polls, got>>,
         at' \in ThreadState, at'.pc \notin Serving, at.pc # "destroyed", at'.pc = "idle" => at.pc = "push",
         at.pc \in Sending => fd = at.fd /\ wire[fds[fd]].peer = "reset",
         events' \subseteq events, loop = "epoll" => \A e \in events' : e.fd # fd
  PROVE  TcpInv'
  <1>1. PeerType /\ TableType /\ ThreadType /\ Tables /\ Streams /\ Heard /\ Answers /\ Epoll BY Zenon DEF TcpInv
  <1>2. fd \in Fds /\ fds[fd] \in Clients BY <1>1, Held, Zenon
  <1>3. PICK c \in Clients : c = fds[fd] BY <1>2, Zenon
  <1>4. /\ wire' \in [Clients -> WireState]
        /\ wire'[c].up = <<>> /\ wire'[c].down = wire[c].down /\ wire'[c].peer = wire[c].peer
        /\ \A d \in Clients \ {c} : wire'[d] = wire[d]
        /\ fds' \in [Fds -> Clients \cup {None}] /\ fds'[fd] = None
        /\ \A f \in Fds \ {fd} : fds'[f] = fds[f]
        /\ connections' \in [DOMAIN connections' -> Seq(Octets)]
        /\ DOMAIN connections' = DOMAIN connections \ {fd}
        /\ \A f \in DOMAIN connections' : connections'[f] = connections[f]
        /\ callbacks' = callbacks \ {fd} /\ callbacks' \subseteq Fds \cup {Listener}
        /\ life' \in [Clients -> Lives] /\ life'[c] = "down"
        /\ \A d \in Clients \ {c} : life'[d] = life[d]
        /\ todo' = {r \in todo : r.fd # fd}
    BY <1>1, <1>3, DisconnectEffect, Zenon
  <1>5. PeerType' /\ TableType' BY <1>1, <1>4, Zenon DEF PeerType, TableType
  <1>6. ThreadType' BY <1>1, <1>4, Zenon DEF ThreadType
  \* No other descriptor is c's.
  <1>7. \A f \in Fds : fds[f] = c => f = fd
    <2>1. fds[fd] # None BY <1>2, Zenon
    <2>2. \A f, g \in Fds : fds[f] = fds[g] /\ fds[f] # None => f = g BY <1>1, Zenon DEF Tables
    <2> QED BY <1>2, <1>3, <2>1, <2>2, Zenon
  <1>8. life[c] = "up" BY <1>1, <1>2, <1>3, Zenon DEF Tables
  <1>9. ASSUME NEW d \in Clients, NEW f \in Fds, fds'[f] = d PROVE f # fd /\ fds[f] = d /\ d # c
    <2>1. f # fd BY <1>4, <1>9, Zenon
    <2>2. fds[f] = d BY <1>4, <1>9, <2>1, Zenon
    <2> QED BY <1>7, <2>1, <2>2, Zenon
  <1>10. ASSUME NEW d \in Clients, life'[d] = "none" \/ life'[d] = "up" PROVE d # c /\ life'[d] = life[d]
    BY <1>4, <1>10, Zenon
  <1>11. Tables'
    <2>1. Tables BY <1>1, Zenon
    <2>2. DOMAIN connections' = callbacks' \ {Listener}
      <3>1. DOMAIN connections = callbacks \ {Listener} BY <2>1, Zenon DEF Tables
      <3> QED BY <1>4, <3>1, Zenon
    <2>3. DOMAIN connections' = {f \in Fds : fds'[f] # None}
      <3>1. DOMAIN connections = {f \in Fds : fds[f] # None} BY <2>1, Zenon DEF Tables
      <3>2. /\ DOMAIN connections' = DOMAIN connections \ {fd} /\ fds'[fd] = None
            /\ \A f \in Fds \ {fd} : fds'[f] = fds[f]
        BY <1>4, Zenon
      <3> QED BY <3>1, <3>2, Zenon
    <2>4. \A f, g \in Fds : fds'[f] = fds'[g] /\ fds'[f] # None => f = g
      <3>1. \A f, g \in Fds : fds[f] = fds[g] /\ fds[f] # None => f = g BY <2>1, Zenon DEF Tables
      <3>2. \A f \in Fds : fds'[f] # None => fds'[f] = fds[f] BY <1>4, Zenon
      <3> QED BY <3>1, <3>2, Zenon
    <2>5. \A d \in Clients : life'[d] = "up" <=> \E f \in Fds : fds'[f] = d
      <3>1. \A d \in Clients : life[d] = "up" <=> \E f \in Fds : fds[f] = d BY <2>1, Zenon DEF Tables
      <3>2. ASSUME NEW d \in Clients, life'[d] = "up" PROVE \E f \in Fds : fds'[f] = d
        <4>1. d # c /\ life[d] = "up" BY <1>10, <3>2, Zenon
        <4>2. PICK f \in Fds : fds[f] = d BY <3>1, <4>1, Zenon
        <4>3. f # fd BY <1>3, <4>1, <4>2, Zenon
        <4> QED BY <1>4, <4>2, <4>3, Zenon
      <3>3. ASSUME NEW d \in Clients, NEW f \in Fds, fds'[f] = d PROVE life'[d] = "up"
        <4>1. fds[f] = d /\ d # c BY <1>9, <3>3, Zenon
        <4>2. life[d] = "up" BY <3>1, <4>1, Zenon
        <4> QED BY <1>4, <4>1, <4>2, Zenon
      <3> QED BY <3>2, <3>3, Zenon
    <2>6. \A i \in DOMAIN backlog : life'[backlog[i]] = "none" /\ client[backlog[i]].pc # "off"
      <3>1. \A i \in DOMAIN backlog : life[backlog[i]] = "none" /\ client[backlog[i]].pc # "off"
        BY <2>1, Zenon DEF Tables
      <3>2. \A i \in DOMAIN backlog : backlog[i] \in Clients
        <4>1. backlog \in Seq(Clients) BY <1>1, Zenon DEF PeerType
        <4> QED BY <4>1
      <3>3. \A i \in DOMAIN backlog : backlog[i] # c BY <1>8, <3>1, Zenon
      <3> QED BY <1>4, <3>1, <3>2, <3>3, Zenon
    <2>7. \A d \in Clients : client[d].pc = "off" => life'[d] = "none"
      <3>1. \A d \in Clients : client[d].pc = "off" => life[d] = "none" BY <2>1, Zenon DEF Tables
      <3> QED BY <1>4, <1>8, <3>1, Zenon
    <2>8. \A r \in todo' : r.fd \in DOMAIN connections'
      <3>1. \A r \in todo : r.fd \in DOMAIN connections BY <2>1, Zenon DEF Tables
      <3> QED BY <1>4, <3>1, Zenon
    <2>9. \A i, j \in DOMAIN backlog : backlog[i] = backlog[j] => i = j BY <2>1, Zenon DEF Tables
    <2> QED BY <2>2, <2>3, <2>4, <2>5, <2>6, <2>7, <2>8, <2>9, Zenon DEF Tables
  <1>12. Streams'
    <2>1. ASSUME NEW d \in Clients, NEW f \in Fds, fds'[f] = d PROVE Stream(d, connections[f])'
      <3>1. f # fd /\ fds[f] = d /\ d # c BY <1>9, <2>1, Zenon
      <3>2. f \in DOMAIN connections BY <1>1, <3>1, Zenon DEF Tables
      <3>3. connections'[f] = connections[f] BY <1>4, <3>1, <3>2, Zenon
      <3>4. PICK g : g = connections[f] BY Zenon
      <3>5. Stream(d, g) BY <1>1, <3>1, <3>4, Zenon DEF Streams
      <3>6. wire'[d] = wire[d] BY <1>4, <3>1, Zenon
      <3>7. Stream(d, g)' BY <3>5, <3>6, StreamKept, Zenon
      <3> QED BY <3>3, <3>4, <3>7, Zenon DEF Stream
    <2>2. ASSUME NEW d \in Clients, life'[d] = "none" PROVE Stream(d, <<>>)'
      <3>1. d # c /\ life[d] = "none" BY <1>10, <2>2, Zenon
      <3>2. Stream(d, <<>>) BY <1>1, <3>1, Zenon DEF Streams
      <3>3. wire'[d] = wire[d] BY <1>4, <3>1, Zenon
      <3> QED BY <3>2, <3>3, StreamKept, Zenon
    <2> QED BY <2>1, <2>2, Zenon DEF Streams
  <1>13. Heard' BY <1>1, Zenon DEF Heard
  <1>14. Answers'
    <2>1. ASSUME NEW d \in Clients PROVE Answer(d)'
      <3>1. Owed(d)' \subseteq Owed(d)
        <4>1. ASSUME NEW r \in todo', fds'[r.fd] = d PROVE r \in todo /\ fds[r.fd] = d
          <5>1. r \in todo /\ r.fd # fd BY <1>4, Zenon
          <5>2. r.fd \in Fds BY <1>1, <5>1, Held, Zenon DEF Tables
          <5> QED BY <1>4, <4>1, <5>1, <5>2, Zenon
        <4> QED BY <4>1, Zenon DEF Owed
      <3>2. Pending(d)' = <<>> BY Zenon DEF Pending, Serving, Sending
      <3>3. Answer(d) BY <1>1, Zenon DEF Answers
      <3>4. wire'[d].peer = wire[d].peer /\ wire'[d].down = wire[d].down BY <1>4, Zenon
      <3>5. CASE Pending(d) = <<>> BY <3>1, <3>2, <3>3, <3>4, <3>5, AnswerKept, Zenon
      <3>6. CASE Pending(d) # <<>>
        <4>1. at.pc \in Sending /\ fds[at.fd] = d BY <3>6, Zenon DEF Pending
        <4>2. wire[d].peer = "reset" BY <4>1, Zenon
        <4>3. PICK p, O, P, k, w : p = Pending(d) /\ O = Owed(d) /\ P = Owed(d)' /\ k = Len(got[d]) /\ w = wire[d].down
          BY Zenon
        <4>4. Conversation(d, client[d], "reset", w, k, p, O) BY <3>3, <4>2, <4>3, Zenon DEF Answer
        <4>5. P \subseteq O BY <3>1, <4>3, Zenon
        <4>6. Conversation(d, client[d], "reset", w, k, <<>>, P) BY <4>4, <4>5, Zenon DEF Conversation
        <4>7. /\ wire'[d].peer = "reset" /\ wire'[d].down = w /\ Len(got'[d]) = k /\ client'[d] = client[d]
              /\ Pending(d)' = <<>> /\ Owed(d)' = P
          BY <3>2, <3>4, <4>2, <4>3, Zenon
        <4> QED BY <4>6, <4>7, Zenon DEF Answer
      <3> QED BY <3>5, <3>6, Zenon
    <2> QED BY <2>1, Zenon DEF Answers
  <1>15. Epoll'
    <2>1. SUFFICES ASSUME loop = "epoll" PROVE Epoll' BY Zenon DEF Epoll
    <2>2. polls' = {} /\ \A e, f \in events' : e.fd = f.fd => e = f BY <1>1, <2>1, Zenon DEF Epoll
    <2>3. at'.pc \in {"idle", "push"} => events' = {}
      <3>1. at'.pc \in {"idle", "push"} => at.pc = "push" BY Zenon DEF Serving
      <3> QED BY <1>1, <2>1, <3>1, Zenon DEF Epoll
    <2>4. ASSUME NEW e \in events'
          PROVE  e.fd \in callbacks' /\ (e.hup => e.fd # Listener /\ wire'[fds'[e.fd]].peer = "reset")
      <3>1. e \in events /\ e.fd # fd BY <2>1, Zenon
      <3>2. e.fd \in callbacks /\ (e.hup => e.fd # Listener /\ wire[fds[e.fd]].peer = "reset")
        BY <1>1, <2>1, <3>1, Zenon DEF Epoll
      <3>3. ASSUME e.hup PROVE e.fd # Listener /\ wire'[fds'[e.fd]].peer = "reset"
        <4>1. e.fd \in DOMAIN connections BY <1>1, <3>2, <3>3, Zenon DEF Tables
        <4>2. e.fd \in Fds /\ fds[e.fd] \in Clients BY <1>1, <4>1, Held, Zenon
        <4>3. fds'[e.fd] = fds[e.fd] BY <1>4, <3>1, <4>2, Zenon
        <4>4. wire'[fds[e.fd]].peer = wire[fds[e.fd]].peer BY <1>4, <4>2, Zenon
        <4> QED BY <3>2, <3>3, <4>3, <4>4, Zenon
      <3> QED BY <1>4, <3>1, <3>2, <3>3, Zenon
    <2> QED BY <2>1, <2>2, <2>3, <2>4, Zenon DEF Epoll
  <1> QED BY <1>5, <1>6, <1>11, <1>12, <1>13, <1>14, <1>15, Zenon DEF TcpInv

\* An event of EpollLoop is of the connection it was reported of.
LEMMA DispatchKeeps ==
  ASSUME TcpInv, NEW e, Dispatch(e)
  PROVE  TcpInv'
  <1>1. /\ at.pc = "dispatch" /\ e \in events /\ events' = events \ {e}
        /\ UNCHANGED <<loop, client, backlog, polls, got>>
        /\ ThreadType /\ Tables /\ Epoll
    BY Zenon DEF Dispatch, fixed, TcpInv
  <1>2. at.pc \notin Sending /\ at.pc # "destroyed" BY <1>1, Zenon DEF Sending
  <1>3. loop = "epoll" => \A f \in events' : f.fd # e.fd BY <1>1, Zenon DEF Epoll
  <1>4. CASE e.fd \in callbacks /\ e.fd # Listener /\ e.hup
    <2>1. Disconnect(e.fd) /\ at' = at BY <1>4, Zenon DEF Dispatch
    <2>2. e.fd \in DOMAIN connections BY <1>1, <1>4, Zenon DEF Tables
    <2>3. /\ at' \in ThreadState /\ at'.pc \notin Serving /\ events' \subseteq events
          /\ at'.pc = "idle" => at.pc = "push"
      BY <1>1, <2>1, Zenon DEF ThreadType, Serving
    <2> QED BY <1>1, <1>2, <1>3, <2>1, <2>2, <2>3, DisconnectKeeps, Zenon
  <1>5. CASE ~(e.fd \in callbacks /\ e.fd # Listener /\ e.hup)
    <2>1. /\ at' = IF e.fd \notin callbacks THEN at
                   ELSE [at EXCEPT !.pc = IF e.fd = Listener THEN "accept" ELSE "recv", !.fd = e.fd]
          /\ UNCHANGED <<wire, fds, connections, callbacks, life, todo>>
      BY <1>5, Zenon DEF Dispatch, tables
    <2>2. /\ at' \in ThreadState /\ at'.pc \in {"dispatch", "accept", "recv"}
          /\ at'.pc = "recv" => at'.fd = e.fd /\ e.fd \in callbacks /\ e.fd # Listener
      <3>1. CASE e.fd \notin callbacks BY <1>1, <2>1, <3>1, Zenon DEF ThreadType
      <3>2. CASE e.fd \in callbacks
        <4>1. PICK p \in ThreadPcs : p = IF e.fd = Listener THEN "accept" ELSE "recv" BY Zenon DEF ThreadPcs
        <4>2. PICK g \in Fds \cup {Listener, None} : g = e.fd
          <5>1. e.fd \in Fds \cup {Listener} BY <3>2, Zenon DEF TcpInv, TableType
          <5> QED BY <5>1, Zenon
        <4>3. at \in ThreadState BY <1>1, Zenon DEF ThreadType
        <4>4. at' = [at EXCEPT !.pc = p, !.fd = g] BY <2>1, <3>2, <4>1, <4>2, Zenon
        <4>5. at' \in ThreadState /\ at'.pc = p /\ at'.fd = g BY <4>3, <4>4, Zenon DEF ThreadState
        <4> QED BY <3>2, <4>1, <4>2, <4>5, Zenon
      <3> QED BY <3>1, <3>2, Zenon
    <2>3. at'.pc \in Serving => at'.pc = "recv" BY <2>2, Zenon DEF Serving
    <2>4. at'.pc \in Serving => at'.fd \in DOMAIN connections
      <3>1. DOMAIN connections = callbacks \ {Listener} BY <1>1, Zenon DEF Tables
      <3> QED BY <2>2, <2>3, <3>1, Zenon
    <2>5. at'.pc \notin Sending /\ at'.pc \notin {"idle", "push"} BY <2>2, Zenon DEF Sending
    <2>6. Epoll'
      <3>1. SUFFICES ASSUME loop = "epoll" PROVE Epoll' BY <1>1, Zenon DEF Epoll
      <3>2. /\ polls = {} /\ \A f, g \in events : f.fd = g.fd => f = g
            /\ \A f \in events : f.fd \in callbacks /\ (f.hup => f.fd # Listener /\ wire[fds[f.fd]].peer = "reset")
        BY <1>1, <3>1, Zenon DEF Epoll
      <3>3. \A f \in events' : f \in events BY <1>1, Zenon
      <3>4. \A f \in events' : at'.pc \in Serving => f.fd # at'.fd BY <1>3, <2>2, <2>3, <3>1, Zenon
      <3> QED BY <1>1, <2>1, <2>5, <3>1, <3>2, <3>3, <3>4, Zenon DEF Epoll
    <2> QED BY <1>1, <1>2, <2>1, <2>2, <2>4, <2>5, <2>6, QuietKeeps, Zenon
  <1> QED BY <1>4, <1>5, Zenon

\* In a callback of at.fd no event of it is left.
LEMMA NoEventLeft ==
  ASSUME TcpInv, at.pc \in Serving
  PROVE  at.fd \in DOMAIN connections /\ (loop = "epoll" => \A e \in events : e.fd # at.fd)
  BY Zenon DEF TcpInv, Tables, Epoll

\* The thread leaves a connection that ends.
LEMMA EndsServing ==
  ASSUME TcpInv, Disconnect(at.fd), UNCHANGED <<loop, client, backlog, polls, got, events>>,
         at.pc \in Serving, NEW p \in {"idle", "dispatch", "undefined"}, at'.pc = p, at' \in ThreadState,
         p = "idle" => at.pc = "push", at.pc \in Sending => wire[fds[at.fd]].peer = "reset"
  PROVE  TcpInv'
  <1>1. at.fd \in DOMAIN connections /\ (loop = "epoll" => \A e \in events : e.fd # at.fd) BY NoEventLeft, Zenon
  <1>2. PICK fd \in DOMAIN connections : fd = at.fd BY <1>1, Zenon
  <1>3. at'.pc \notin Serving /\ at.pc # "destroyed" BY Zenon DEF Serving
  <1>4. Disconnect(fd) /\ (at.pc \in Sending => fd = at.fd /\ wire[fds[fd]].peer = "reset") BY <1>2, Zenon
  <1>5. events' \subseteq events /\ (loop = "epoll" => \A e \in events' : e.fd # fd) BY <1>1, <1>2, Zenon
  <1>6. at'.pc = "idle" => at.pc = "push" BY Zenon
  <1> QED BY <1>3, <1>4, <1>5, <1>6, DisconnectKeeps, Zenon

\* handle_readable ends a connection at the end of its stream or on an error.
LEMMA RecvEndsKeeps ==
  ASSUME TcpInv, RecvEnds
  PROVE  TcpInv'
  <1>1. /\ Disconnect(at.fd) /\ UNCHANGED <<loop, client, backlog, polls, got, events>>
        /\ at.pc = "recv" /\ at' = [Idle EXCEPT !.pc = "dispatch"] /\ ThreadType
    BY Zenon DEF RecvEnds, fixed, TcpInv
  <1>2. "dispatch" \in ThreadPcs BY Zenon DEF ThreadPcs
  <1>3. at' \in ThreadState /\ at'.pc = "dispatch" BY <1>1, <1>2, ThreadSet, Zenon
  <1>4. at.pc \in Serving /\ at.pc \notin Sending BY <1>1, Zenon DEF Serving, Sending
  <1> QED BY <1>1, <1>3, <1>4, EndsServing, Zenon

\* send() ends a connection that was reset.
LEMMA SendFailsKeeps ==
  ASSUME TcpInv, SendFails
  PROVE  TcpInv'
  <1>1. /\ Disconnect(at.fd) /\ UNCHANGED <<loop, client, backlog, polls, got, events>>
        /\ at.pc \in {"reply", "push"} /\ wire[fds[at.fd]].peer = "reset" /\ ThreadType
        /\ at' = IF at.pc = "push" THEN Idle ELSE [Idle EXCEPT !.pc = "undefined"]
    BY Zenon DEF SendFails, fixed, TcpInv
  <1>2. "undefined" \in ThreadPcs BY Zenon DEF ThreadPcs
  <1>3. /\ Idle \in ThreadState /\ Idle.pc = "idle" /\ [Idle EXCEPT !.pc = "undefined"] \in ThreadState
        /\ [Idle EXCEPT !.pc = "undefined"].pc = "undefined"
    BY <1>1, <1>2, ThreadSet, Zenon
  <1>4. at.pc \in Serving BY <1>1, Zenon DEF Serving
  <1>5. CASE at.pc = "push"
    <2>1. at' \in ThreadState /\ at'.pc = "idle" BY <1>1, <1>3, <1>5, Zenon
    <2> QED BY <1>1, <1>4, <1>5, <2>1, EndsServing, Zenon
  <1>6. CASE at.pc # "push"
    <2>1. at' \in ThreadState /\ at'.pc = "undefined" BY <1>1, <1>3, <1>6, Zenon
    <2> QED BY <1>1, <1>4, <2>1, EndsServing, Zenon
  <1> QED BY <1>5, <1>6, Zenon

(***************************************************************************)
(* Accepting keeps the invariant                                           *)
(***************************************************************************)

\* The connections that wait for accept(): the first, and the others.
LEMMA HeadTail ==
  ASSUME NEW s \in Seq(Clients), s # <<>>
  PROVE  /\ 1 \in DOMAIN s /\ Head(s) = s[1] /\ Tail(s) \in Seq(Clients)
         /\ \A i \in DOMAIN Tail(s) : i + 1 \in DOMAIN s /\ i + 1 # 1 /\ Tail(s)[i] = s[i + 1]
  OBVIOUS

\* accept_loop gives a new connection an empty decoder, at a descriptor that is free.
LEMMA AcceptOneKeeps ==
  ASSUME TcpInv, AcceptOne
  PROVE  TcpInv'
  <1>1. /\ PeerType /\ TableType /\ ThreadType /\ Tables /\ Streams /\ Heard /\ Answers /\ Epoll
        /\ at.pc = "accept" /\ UNCHANGED <<loop, client, wire, events, at, todo, got>>
    BY Zenon DEF AcceptOne, fixed, TcpInv
  <1>2. PICK c \in Clients, fd \in Fds :
          /\ backlog # <<>> /\ c = Head(backlog) /\ backlog' = Tail(backlog) /\ fds[fd] = None
          /\ fds' \in [Fds -> Clients \cup {None}] /\ fds'[fd] = c
          /\ \A f \in Fds \ {fd} : fds'[f] = fds[f]
          /\ connections' \in [DOMAIN connections' -> Seq(Octets)]
          /\ DOMAIN connections' = DOMAIN connections \cup {fd} /\ connections'[fd] = <<>>
          /\ \A f \in DOMAIN connections \ {fd} : connections'[f] = connections[f]
          /\ callbacks' = callbacks \cup {fd} /\ callbacks' \subseteq Fds \cup {Listener}
          /\ life' \in [Clients -> Lives] /\ life'[c] = "up"
          /\ \A d \in Clients \ {c} : life'[d] = life[d]
    BY <1>1, AcceptOneEffect, Zenon
  <1>3. loop = "epoll" => polls' = polls
    <2>1. \E g, d : polls' = Armed(g, d) BY Zenon DEF AcceptOne
    <2> QED BY <2>1, Zenon DEF Armed
  <1>4. backlog \in Seq(Clients) /\ backlog # <<>> BY <1>1, <1>2, Zenon DEF PeerType
  <1>5. 1 \in DOMAIN backlog /\ backlog[1] = c BY <1>2, <1>4, HeadTail, Zenon
  <1>6. /\ backlog' \in Seq(Clients)
        /\ \A i \in DOMAIN backlog' : i + 1 \in DOMAIN backlog /\ i + 1 # 1 /\ backlog'[i] = backlog[i + 1]
    BY <1>2, <1>4, HeadTail, Zenon
  <1>7. life[c] = "none" /\ client[c].pc # "off" BY <1>1, <1>5, Zenon DEF Tables
  <1>8. fd \notin DOMAIN connections BY <1>1, <1>2, Zenon DEF Tables
  <1>9. \A f \in Fds : fds[f] # c
    <2>1. \A d \in Clients : life[d] = "up" <=> \E f \in Fds : fds[f] = d BY <1>1, Zenon DEF Tables
    <2> QED BY <1>7, <2>1, Zenon
  <1>10. PeerType' BY <1>1, <1>6, Zenon DEF PeerType
  <1>11. TableType' BY <1>2, Zenon DEF TableType
  <1>12. ThreadType' BY <1>1, Zenon DEF ThreadType
  <1>13. Tables'
    <2>1. DOMAIN connections' = callbacks' \ {Listener}
      <3>1. DOMAIN connections = callbacks \ {Listener} BY <1>1, Zenon DEF Tables
      <3>2. fd # Listener BY Zenon
      <3>3. DOMAIN connections' = DOMAIN connections \cup {fd} /\ callbacks' = callbacks \cup {fd} BY <1>2, Zenon
      <3> QED BY <3>1, <3>2, <3>3, Zenon
    <2>2. DOMAIN connections' = {f \in Fds : fds'[f] # None}
      <3>1. DOMAIN connections = {f \in Fds : fds[f] # None} BY <1>1, Zenon DEF Tables
      <3>2. /\ DOMAIN connections' = DOMAIN connections \cup {fd} /\ fds'[fd] # None
            /\ \A f \in Fds \ {fd} : fds'[f] = fds[f]
        BY <1>2, Zenon
      <3> QED BY <3>1, <3>2, Zenon
    <2>3. \A f, g \in Fds : fds'[f] = fds'[g] /\ fds'[f] # None => f = g
      <3>1. \A f, g \in Fds : fds[f] = fds[g] /\ fds[f] # None => f = g BY <1>1, Zenon DEF Tables
      <3>2. fds'[fd] = c /\ \A f \in Fds \ {fd} : fds'[f] = fds[f] BY <1>2, Zenon
      <3> QED BY <1>9, <3>1, <3>2, Zenon
    <2>4. \A d \in Clients : life'[d] = "up" <=> \E f \in Fds : fds'[f] = d
      <3>1. \A d \in Clients : life[d] = "up" <=> \E f \in Fds : fds[f] = d BY <1>1, Zenon DEF Tables
      <3>2. life'[c] = "up" /\ fds'[fd] = c BY <1>2, Zenon
      <3>3. ASSUME NEW d \in Clients, d # c PROVE life'[d] = "up" <=> \E f \in Fds : fds'[f] = d
        <4>1. life'[d] = life[d] BY <1>2, <3>3, Zenon
        <4>2. \A f \in Fds : fds'[f] = d <=> fds[f] = d BY <1>2, <3>3, Zenon
        <4> QED BY <3>1, <4>1, <4>2, Zenon
      <3> QED BY <3>2, <3>3, Zenon
    <2>5. \A i, j \in DOMAIN backlog' : backlog'[i] = backlog'[j] => i = j
      <3>1. \A i, j \in DOMAIN backlog : backlog[i] = backlog[j] => i = j BY <1>1, Zenon DEF Tables
      <3>2. ASSUME NEW i \in DOMAIN backlog', NEW j \in DOMAIN backlog', backlog'[i] = backlog'[j] PROVE i = j
        <4>1. i + 1 = j + 1 BY <1>6, <3>1, <3>2, Zenon
        <4>2. i \in Nat /\ j \in Nat BY <1>6
        <4> QED BY <4>1, <4>2
      <3> QED BY <3>2, Zenon
    <2>6. \A i \in DOMAIN backlog' : life'[backlog'[i]] = "none" /\ client[backlog'[i]].pc # "off"
      <3>1. \A i \in DOMAIN backlog : life[backlog[i]] = "none" /\ client[backlog[i]].pc # "off"
        BY <1>1, Zenon DEF Tables
      <3>2. \A i, j \in DOMAIN backlog : backlog[i] = backlog[j] => i = j BY <1>1, Zenon DEF Tables
      <3>3. ASSUME NEW i \in DOMAIN backlog'
            PROVE  life'[backlog'[i]] = "none" /\ client[backlog'[i]].pc # "off"
        <4>1. PICK j \in DOMAIN backlog : j # 1 /\ backlog'[i] = backlog[j] BY <1>6, Zenon
        <4>2. backlog[j] # c BY <1>5, <3>2, <4>1, Zenon
        <4>3. backlog[j] \in Clients BY <1>4, <4>1
        <4>4. life'[backlog[j]] = life[backlog[j]] BY <1>2, <4>2, <4>3, Zenon
        <4> QED BY <3>1, <4>1, <4>4, Zenon
      <3> QED BY <3>3, Zenon
    <2>7. \A d \in Clients : client[d].pc = "off" => life'[d] = "none" \/ at.pc = "destroyed"
      <3>1. \A d \in Clients : client[d].pc = "off" => life[d] = "none" \/ at.pc = "destroyed"
        BY <1>1, Zenon DEF Tables
      <3> QED BY <1>2, <1>7, <3>1, Zenon
    <2>8. /\ \A r \in todo : r.fd \in DOMAIN connections'
          /\ at.pc \in Serving => at.fd \in DOMAIN connections'
      <3>1. \A r \in todo : r.fd \in DOMAIN connections BY <1>1, Zenon DEF Tables
      <3>2. at.pc \in Serving => at.fd \in DOMAIN connections BY <1>1, Zenon DEF Tables
      <3>3. DOMAIN connections' = DOMAIN connections \cup {fd} BY <1>2, Zenon
      <3> QED BY <3>1, <3>2, <3>3, Zenon
    <2>9. at' = at /\ todo' = todo /\ client' = client BY <1>1, Zenon
    <2> QED BY <2>1, <2>2, <2>3, <2>4, <2>5, <2>6, <2>7, <2>8, <2>9, Zenon DEF Tables
  <1>14. ASSUME NEW d \in Clients, NEW g, Stream(d, g) PROVE Stream(d, g)'
    BY <1>1, <1>14, StreamKept, Zenon
  <1>15. Streams'
    <2>1. ASSUME NEW d \in Clients, NEW f \in Fds, fds'[f] = d PROVE Stream(d, connections[f])'
      <3>1. CASE f = fd
        <4>1. d = c /\ Stream(c, <<>>) BY <1>1, <1>2, <1>7, <2>1, <3>1, Zenon DEF Streams
        <4>2. Stream(d, <<>>)' BY <1>14, <4>1, Zenon
        <4>3. connections'[f] = <<>> BY <1>2, <3>1, Zenon
        <4> QED BY <4>2, <4>3, Zenon DEF Stream
      <3>2. CASE f # fd
        <4>1. fds[f] = d BY <1>2, <2>1, <3>2, Zenon
        <4>2. PICK g : g = connections[f] BY Zenon
        <4>3. Stream(d, g) BY <1>1, <4>1, <4>2, Zenon DEF Streams
        <4>4. Stream(d, g)' BY <1>14, <4>3, Zenon
        <4>5. f \in DOMAIN connections BY <1>1, <4>1, Zenon DEF Tables
        <4>6. connections'[f] = g BY <1>2, <3>2, <4>2, <4>5, Zenon
        <4> QED BY <4>4, <4>6, Zenon DEF Stream
      <3> QED BY <3>1, <3>2, Zenon
    <2>2. ASSUME NEW d \in Clients, life'[d] = "none" PROVE Stream(d, <<>>)'
      <3>1. life[d] = "none" BY <1>2, <2>2, Zenon
      <3>2. Stream(d, <<>>) BY <1>1, <3>1, Zenon DEF Streams
      <3> QED BY <1>14, <3>2, Zenon
    <2> QED BY <2>1, <2>2, Zenon DEF Streams
  <1>16. Heard' BY <1>1, Zenon DEF Heard
  <1>17. Answers'
    <2>1. ASSUME NEW d \in Clients PROVE Answer(d)'
      <3>1. Owed(d)' \subseteq Owed(d)
        <4>1. ASSUME NEW r \in todo, fds'[r.fd] = d PROVE fds[r.fd] = d
          <5>1. r.fd \in DOMAIN connections /\ r.fd \in Fds BY <1>1, Zenon DEF Tables
          <5> QED BY <1>2, <1>8, <4>1, <5>1, Zenon
        <4> QED BY <1>1, <4>1, Zenon DEF Owed
      <3>2. Pending(d)' = Pending(d) BY <1>1, Zenon DEF Pending, Sending
      <3>3. Answer(d) BY <1>1, Zenon DEF Answers
      <3> QED BY <1>1, <3>1, <3>2, <3>3, AnswerKept, Zenon
    <2> QED BY <2>1, Zenon DEF Answers
  <1>18. Epoll'
    <2>1. SUFFICES ASSUME loop = "epoll" PROVE Epoll' BY <1>1, Zenon DEF Epoll
    <2>2. /\ polls' = {} /\ \A e, f \in events : e.fd = f.fd => e = f
          /\ at.pc \in {"idle", "push"} => events = {}
          /\ \A e \in events : at.pc \in Serving => e.fd # at.fd
      BY <1>1, <1>3, <2>1, Zenon DEF Epoll
    <2>3. ASSUME NEW e \in events
          PROVE  e.fd \in callbacks' /\ (e.hup => e.fd # Listener /\ wire[fds'[e.fd]].peer = "reset")
      <3>1. e.fd \in callbacks /\ (e.hup => e.fd # Listener /\ wire[fds[e.fd]].peer = "reset")
        BY <1>1, <2>1, Zenon DEF Epoll
      <3>2. ASSUME e.hup PROVE fds'[e.fd] = fds[e.fd]
        <4>1. e.fd \in DOMAIN connections /\ e.fd \in Fds BY <1>1, <3>1, <3>2, Zenon DEF Tables
        <4> QED BY <1>2, <1>8, <4>1, Zenon
      <3>3. e.fd \in callbacks' BY <1>2, <3>1, Zenon
      <3> QED BY <3>1, <3>2, <3>3, Zenon
    <2> QED BY <1>1, <2>1, <2>2, <2>3, Zenon DEF Epoll
  <1> QED BY <1>10, <1>11, <1>12, <1>13, <1>15, <1>16, <1>17, <1>18, Zenon DEF TcpInv
=============================================================================
