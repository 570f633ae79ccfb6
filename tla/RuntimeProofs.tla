--------------------------- MODULE RuntimeProofs ----------------------------
(***************************************************************************)
(* The runtime library: the logger loses, repeats and reorders nothing,    *)
(* for every number of callers and records, and the hash ring moves as few *)
(* keys as it says, for every number of partitions, virtual nodes and      *)
(* hashes.                                                                 *)
(***************************************************************************)
EXTENDS Logger, HashRing, SequenceTheorems, TLAPS

USE SMTT(30), ZenonT(30), SMTT(60)

\* Records that run() has popped and not written: none or one.
Held == IF pc = "write" THEN 1 ELSE 0

(***************************************************************************)
(* The inductive invariant: run() holds a record exactly while it writes   *)
(* one, the records are numbered through from written over rec to queue,   *)
(* and run() ends with nothing left and nobody to log more.                *)
(***************************************************************************)
LoggerInv ==
  /\ logged \in Nat /\ written \in Seq(Nat) /\ queue \in Seq(Nat)
  /\ pc # "write" => rec = None
  /\ pc = "write" => rec = Len(written) + 1
  /\ Len(written) + Held + Len(queue) = logged
  /\ \A i \in 1 .. Len(written) : written[i] = i
  /\ \A i \in 1 .. Len(queue) : queue[i] = Len(written) + Held + i
  /\ pc = "exit" => stop /\ queue = <<>>

\* Every step keeps the invariant.
LEMMA LoggerStep == LoggerInv /\ [Next]_vars => LoggerInv'
<1> SUFFICES ASSUME LoggerInv, [Next]_vars PROVE LoggerInv'
  BY Zenon
<1>1. ASSUME NEW c \in Callers, Log(c) PROVE LoggerInv'
  <2>1. /\ queue' = Append(queue, logged + 1) /\ logged' = logged + 1 /\ ~stop
        /\ UNCHANGED <<rec, written, dtor, pc>>
    BY <1>1, Zenon DEF Log
  <2>2. /\ queue' \in Seq(Nat) /\ Len(queue') = Len(queue) + 1 /\ queue'[Len(queue) + 1] = logged + 1
        /\ \A i \in 1 .. Len(queue) : queue'[i] = queue[i]
    BY <2>1, AppendProperties DEF LoggerInv
  <2>3. Len(queue) \in Nat /\ Len(written) \in Nat /\ Held \in Nat /\ Held' = Held
    BY <2>1 DEF LoggerInv, Held
  <2>4. ASSUME NEW i \in 1 .. Len(queue') PROVE queue'[i] = Len(written) + Held + i
    <3>1. CASE i = Len(queue) + 1
      BY <2>2, <2>3, <3>1 DEF LoggerInv
    <3>2. CASE i \in 1 .. Len(queue)
      BY <2>2, <2>3, <3>2, Zenon DEF LoggerInv
    <3> QED
      BY <2>2, <2>3, <3>1, <3>2
  <2> QED
    BY <2>1, <2>2, <2>3, <2>4 DEF LoggerInv, stop
<1>2. ASSUME NEW c \in Callers, LogNotifies(c) PROVE LoggerInv'
  BY <1>2, Zenon DEF LoggerInv, LogNotifies, Held, stop
<1>3. ASSUME NEW c \in Callers, Flush(c) \/ FlushReturns(c) \/ FlushRetests(c) PROVE LoggerInv'
  BY <1>3, ZenonT(60) DEF LoggerInv, Flush, FlushReturns, FlushRetests, Held, stop
<1>4. CASE Wait
  BY <1>4, Zenon DEF LoggerInv, Wait, Held, stop
<1>5. CASE Sleep
  BY <1>5, Zenon DEF LoggerInv, Sleep, Held, stop
<1>6. CASE Pop
  <2>1. /\ queue # <<>> /\ pc # "write" /\ pc' = "write"
        /\ rec' = Head(queue) /\ queue' = Tail(queue)
        /\ UNCHANGED <<written, logged, dtor>>
    BY <1>6, Zenon DEF Pop
  <2>2. /\ Len(queue) \in Nat \ {0} /\ Head(queue) = queue[1]
        /\ queue' \in Seq(Nat) /\ Len(queue') = Len(queue) - 1
        /\ \A i \in 1 .. Len(queue') : queue'[i] = queue[i + 1]
    BY <2>1, HeadTailProperties, EmptySeq DEF LoggerInv
  <2>3. Len(written) \in Nat /\ Held = 0 /\ Held' = 1
    BY <2>1 DEF LoggerInv, Held
  <2>4. Head(queue) = Len(written) + 1
    BY <2>2, <2>3 DEF LoggerInv
  <2>5. ASSUME NEW i \in 1 .. Len(queue') PROVE queue'[i] = Len(written) + 1 + i
    <3>1. i + 1 \in 1 .. Len(queue) /\ queue'[i] = queue[i + 1]
      BY <2>2
    <3>2. queue[i + 1] = Len(written) + Held + (i + 1)
      BY <3>1, Zenon DEF LoggerInv
    <3> QED
      BY <2>3, <3>1, <3>2
  <2>6. Len(written) + Held' + Len(queue') = logged
    <3>1. Len(written) + Held + Len(queue) = logged
      BY Zenon DEF LoggerInv
    <3> QED
      BY <2>2, <2>3, <3>1
  <2> QED
    BY <2>1, <2>2, <2>3, <2>4, <2>5, <2>6, Zenon DEF LoggerInv
<1>7. CASE Write
  <2>1. /\ pc = "write" /\ pc' = "drain" /\ rec' = None
        /\ written' = Append(written, rec)
        /\ UNCHANGED <<queue, logged, dtor>>
    BY <1>7, Zenon DEF Write
  <2>2. /\ rec \in Nat /\ written' \in Seq(Nat) /\ Len(written') = Len(written) + 1
        /\ written'[Len(written) + 1] = rec
        /\ \A i \in 1 .. Len(written) : written'[i] = written[i]
    BY <2>1 DEF LoggerInv
  <2> QED
    BY <2>1, <2>2 DEF LoggerInv, Held
<1>8. CASE Drained
  BY <1>8, Zenon DEF LoggerInv, Drained, Held, stop
<1>9. CASE Destroy
  BY <1>9, Zenon DEF LoggerInv, Destroy, Held, stop
<1>10. CASE DestroyNotifies
  BY <1>10, Zenon DEF LoggerInv, DestroyNotifies, Held, stop
<1>11. CASE UNCHANGED vars
  BY <1>11, Zenon DEF LoggerInv, vars, Held, stop
<1> QED
  BY <1>1, <1>2, <1>3, <1>4, <1>5, <1>6, <1>7, <1>8, <1>9, <1>10, <1>11, Zenon DEF Next

\* The invariant holds in every state.
LEMMA LoggerInvHolds == Spec => []LoggerInv
<1>1. Init => LoggerInv
  BY DEF Init, LoggerInv, Held, stop
<1> QED
  BY <1>1, LoggerStep, PTL DEF Spec

\* A numbering of the three parts is one of the whole.
LEMMA InvNumbers ==
  ASSUME None \notin Nat \ {0}, LoggerInv
  PROVE  written \o (IF rec = None THEN <<>> ELSE <<rec>>) \o queue = [i \in 1 .. logged |-> i]
<1> DEFINE r == IF rec = None THEN <<>> ELSE <<rec>>
<1>1. r = (IF pc = "write" THEN <<rec>> ELSE <<>>) /\ r \in Seq(Nat) /\ Len(r) = Held
  BY DEF LoggerInv, Held
<1>2. r # <<>> => r[1] = Len(written) + 1
  BY <1>1, Zenon DEF LoggerInv
<1> HIDE DEF r
<1> DEFINE s == written \o r
<1>3. /\ s \in Seq(Nat) /\ Len(s) = Len(written) + Held
      /\ \A i \in 1 .. Len(s) : s[i] = i
  BY <1>1, <1>2 DEF LoggerInv, Held
<1> HIDE DEF s
<1> DEFINE t == s \o queue
<1>4. /\ t \in Seq(Nat) /\ Len(t) = logged
      /\ \A i \in 1 .. Len(t) : t[i] = i
  <2>1. Len(queue) \in Nat /\ Len(s) \in Nat /\ Len(s) + Len(queue) = logged
    BY <1>3 DEF LoggerInv, Held
  <2>2. /\ t \in Seq(Nat) /\ Len(t) = logged
        /\ \A i \in 1 .. logged : t[i] = IF i <= Len(s) THEN s[i] ELSE queue[i - Len(s)]
    BY <1>3, <2>1, ConcatProperties, ZenonT(60) DEF LoggerInv
  <2>3. ASSUME NEW i \in 1 .. logged, i > Len(s) PROVE queue[i - Len(s)] = i
    <3>1. i - Len(s) \in 1 .. Len(queue)
      BY <2>1, <2>3
    <3>2. queue[i - Len(s)] = Len(written) + Held + (i - Len(s))
      BY <3>1, Zenon DEF LoggerInv
    <3> QED
      BY <1>3, <2>1, <3>2
  <2> QED
    BY <1>3, <2>1, <2>2, <2>3
<1>5. t = [i \in 1 .. logged |-> i]
  <2> HIDE DEF t
  <2>1. DOMAIN t = 1 .. logged /\ t = [i \in DOMAIN t |-> t[i]]
    BY <1>4, LenProperties, Zenon
  <2> QED
    BY <1>4, <2>1, Zenon
<1> QED
  BY <1>5, ZenonT(60) DEF s, r

\* log(), flush(), run() and ~Logger together write every record once and in the
\* order in which it was queued, and run() leaves none behind.
THEOREM LoggerInOrder ==
  ASSUME None \notin Nat \ {0}
  PROVE  Spec => []InOrder
<1>1. LoggerInv => (pc = "exit" => Len(written) = logged)
  BY DEF LoggerInv, Held
<1>2. LoggerInv => InOrder
  BY <1>1, InvNumbers, Zenon DEF InOrder
<1> QED
  BY <1>2, LoggerInvHolds, PTL

(***************************************************************************)
(* The inductive invariant: the hash function tells the virtual nodes      *)
(* apart, every point on the ring is a virtual node of its partition, and  *)
(* a partition is on the ring with all its points or not at all.           *)
(***************************************************************************)
RingInv ==
  /\ hash_virtual_node \in [Partitions \X VirtualNodes -> Hashes]
  /\ NoCollisions
  /\ \A x \in DOMAIN ring :
       ring[x] \in Partitions /\ x \in Points(ring[x]) /\ Points(ring[x]) \subseteq DOMAIN ring

\* The first point for a key is unique.
LEMMA FindsOne ==
  ASSUME NEW r, DOMAIN r \subseteq Int, NEW key \in Int, NEW x, NEW y,
         Finds(r, key, x), Finds(r, key, y)
  PROVE  x = y
BY DEF Finds

\* Points of a partition are hashes, and those of two partitions differ.
LEMMA PointsApart ==
  ASSUME RingInv, NEW p \in Partitions, NEW q \in Partitions
  PROVE  /\ Points(p) \subseteq Hashes
         /\ \A x \in Points(p) : x \in Points(q) => p = q
<1>1. ASSUME NEW x \in Points(p) PROVE x \in Hashes
  <2>1. PICK v \in VirtualNodes : x = hash_virtual_node[<<p, v>>]
    BY <1>1, ZenonT(60) DEF Points
  <2> QED
    BY <2>1, Zenon DEF RingInv
<1>2. ASSUME NEW x \in Points(p), x \in Points(q) PROVE p = q
  <2>1. PICK v \in VirtualNodes : x = hash_virtual_node[<<p, v>>]
    BY <1>2, Zenon DEF Points
  <2>2. PICK w \in VirtualNodes : x = hash_virtual_node[<<q, w>>]
    BY <1>2, Zenon DEF Points
  <2>3. <<p, v>> = <<q, w>>
    BY <2>1, <2>2, ZenonT(60) DEF RingInv, NoCollisions
  <2> QED
    BY <2>3, Zenon
<1> QED
  BY <1>1, <1>2, Zenon

\* Dropping points that are not the one found changes nothing: if the smaller
\* ring has the point found in the larger one, it finds it too.
LEMMA FindsKept ==
  ASSUME NEW r, NEW s, DOMAIN s \subseteq DOMAIN r, DOMAIN r \subseteq Int,
         NEW key \in Int, NEW x \in DOMAIN s, Finds(r, key, x)
  PROVE  Finds(s, key, x)
BY Zenon DEF Finds

\* The ring is as RingInv says in every state.
LEMMA RingInvHolds == RingSpec => []RingInv
<1>1. RingInit => RingInv
  BY Zenon DEF RingInit, RingInv
<1>2. RingInv /\ [RingNext]_ringVars => RingInv'
  <2> SUFFICES ASSUME RingInv, [RingNext]_ringVars PROVE RingInv'
    BY Zenon
  <2>1. hash_virtual_node' = hash_virtual_node
    BY ZenonT(60) DEF RingNext, ringVars, add_partition, remove_partition
  <2> DEFINE Good(r, x) == r[x] \in Partitions /\ x \in Points(r[x]) /\ Points(r[x]) \subseteq DOMAIN r
  <2>2. ASSUME NEW x \in DOMAIN ring' PROVE Good(ring', x)
    <3>1. CASE UNCHANGED ringVars
      BY <3>1, <2>2, Zenon DEF ringVars, RingInv
    <3>2. ASSUME NEW p \in Partitions, add_partition(p) PROVE Good(ring', x)
      BY <3>2, <2>2, Zenon DEF add_partition, RingInv
    <3>3. ASSUME NEW p \in Partitions, remove_partition(p) PROVE Good(ring', x)
      <4>1. x \in DOMAIN ring /\ x \notin Points(p) /\ ring'[x] = ring[x] /\ DOMAIN ring' = DOMAIN ring \ Points(p)
        BY <3>3, <2>2, Zenon DEF remove_partition
      <4>2. Good(ring, x)
        BY <4>1, Zenon DEF RingInv
      <4>3. \A y \in Points(ring[x]) : y \notin Points(p)
        BY <4>1, <4>2, PointsApart, Zenon
      <4> QED
        BY <4>1, <4>2, <4>3, Zenon
    <3> QED
      BY <3>1, <3>2, <3>3, Zenon DEF RingNext
  <2>3. (hash_virtual_node \in [Partitions \X VirtualNodes -> Hashes])' /\ NoCollisions'
    BY <2>1, Zenon DEF RingInv, NoCollisions, Hashes
  <2>4. ASSUME NEW x \in DOMAIN ring'
        PROVE  (ring[x] \in Partitions /\ x \in Points(ring[x]) /\ Points(ring[x]) \subseteq DOMAIN ring)'
    <3>1. Good(ring', x)
      BY <2>2, Zenon
    <3>2. Points(ring[x])' = Points(ring'[x])
      BY <2>1, Zenon DEF Points
    <3> QED
      BY <3>1, <3>2, Zenon
  <2> HIDE DEF Good
  <2> QED
    BY <2>3, <2>4, Zenon DEF RingInv
<1> QED
  BY <1>1, <1>2, PTL DEF RingSpec

\* The step of RemapMinimal.
Remap ==
  \A key \in Hashes : \A p, q \in Partitions :
    partition_for(ring, key, p) /\ partition_for(ring', key, q) /\ p # q =>
      (\A x \in DOMAIN ring : ring[x] # q) \/ (\A x \in DOMAIN ring' : ring'[x] # p)

\* Every step moves only the keys of the partition it adds or removes.
LEMMA RemapStep ==
  ASSUME MaxHash \in Nat, RingInv, RingInv', RingNext
  PROVE  Remap
<1> SUFFICES ASSUME NEW key \in Hashes, NEW a \in Partitions, NEW q \in Partitions,
                    partition_for(ring, key, a), partition_for(ring', key, q), a # q
             PROVE  (\A x \in DOMAIN ring : ring[x] # q) \/ (\A x \in DOMAIN ring' : ring'[x] # a)
  BY Zenon DEF Remap
<1>1. PICK x \in DOMAIN ring : Finds(ring, key, x) /\ ring[x] = a
  BY Zenon DEF partition_for
<1>2. PICK y \in DOMAIN ring' : Finds(ring', key, y) /\ ring'[y] = q
  BY Zenon DEF partition_for
<1>3. key \in Int
  BY DEF Hashes
<1>4. DOMAIN ring \subseteq Int
  BY PointsApart DEF RingInv, Hashes
<1>5. DOMAIN ring' \subseteq Int
  <2>1. hash_virtual_node' = hash_virtual_node
    BY Zenon DEF RingNext, add_partition, remove_partition
  <2>2. \A z \in DOMAIN ring' : ring'[z] \in Partitions /\ z \in Points(ring'[z])
    BY <2>1, ZenonT(60) DEF RingInv, Points
  <2> QED
    BY <2>2, PointsApart DEF Hashes
<1>6. ASSUME NEW p \in Partitions, add_partition(p) PROVE \A z \in DOMAIN ring : ring[z] # q
  <2>1. /\ DOMAIN ring \subseteq DOMAIN ring'
        /\ y \in DOMAIN ring \/ y \in Points(p)
        /\ y \in Points(p) => q = p
        /\ y \notin Points(p) => q = ring[y]
    BY <1>2, <1>6, Zenon DEF add_partition
  <2>2. ASSUME y \in DOMAIN ring PROVE ring[y] = a
    <3>1. Finds(ring, key, y)
      BY <1>2, <1>3, <1>5, <2>1, <2>2, FindsKept, Zenon
    <3> QED
      BY <1>1, <1>3, <1>4, <3>1, FindsOne, Zenon
  <2>3. y \in Points(p) /\ q = p
    BY <2>1, <2>2, Zenon
  <2> SUFFICES ASSUME NEW z \in DOMAIN ring, ring[z] = p PROVE FALSE
    BY <2>3, Zenon
  <2>4. y \in DOMAIN ring
    BY <2>3, Zenon DEF RingInv
  <2>5. ring[y] \in Partitions /\ y \in Points(ring[y])
    BY <2>4, Zenon DEF RingInv
  <2>6. ring[y] = p
    BY <2>3, <2>5, PointsApart, Zenon
  <2> QED
    BY <2>2, <2>3, <2>4, <2>6, Zenon
<1>7. ASSUME NEW p \in Partitions, remove_partition(p) PROVE \A z \in DOMAIN ring' : ring'[z] # a
  <2>1. DOMAIN ring' = DOMAIN ring \ Points(p) /\ \A z \in DOMAIN ring' : ring'[z] = ring[z]
    BY <1>7, Zenon DEF remove_partition
  <2>2. x \notin DOMAIN ring'
    <3> SUFFICES ASSUME x \in DOMAIN ring' PROVE FALSE
      BY Zenon
    <3>1. Finds(ring', key, x)
      BY <1>1, <1>3, <1>4, <2>1, FindsKept, Zenon
    <3>2. x = y
      BY <1>2, <1>3, <1>5, <3>1, FindsOne, Zenon
    <3> QED
      BY <1>1, <1>2, <2>1, <3>2, Zenon
  <2>3. x \in Points(p) /\ x \in Points(a)
    BY <1>1, <2>1, <2>2, Zenon DEF RingInv
  <2>4. a = p
    BY <2>3, PointsApart, Zenon
  <2> QED
    BY <2>1, <2>4, Zenon DEF RingInv
<1> QED
  BY <1>6, <1>7, Zenon DEF RingNext

\* Adding or removing a partition moves only its own keys, for every hash
\* function without collisions, as the class comment of ConsistentHashRing says.
THEOREM RingRemapsMinimally == ASSUME MaxHash \in Nat PROVE RingSpec => RemapMinimal
<1>1. RingInv /\ RingInv' /\ [RingNext]_ringVars => [Remap]_ringVars
  BY RemapStep, Zenon
<1>2. [Remap]_ringVars => [\A key \in Hashes : \A p, q \in Partitions :
       partition_for(ring, key, p) /\ partition_for(ring', key, q) /\ p # q =>
         (\A x \in DOMAIN ring : ring[x] # q) \/ (\A x \in DOMAIN ring' : ring'[x] # p)]_ringVars
  BY Zenon DEF Remap
<1> QED
  BY <1>1, <1>2, RingInvHolds, PTL DEF RingSpec, RemapMinimal
=============================================================================
