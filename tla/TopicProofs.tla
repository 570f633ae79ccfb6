---------------------------- MODULE TopicProofs -----------------------------
(***************************************************************************)
(* What a Topic promises, for every number of producers, partitions,       *)
(* groups and consumers, every limit and every batch size: commits are of  *)
(* what was delivered and never go back, a group shares no record, reads   *)
(* are stable and backpressure bounds the lag.                             *)
(***************************************************************************)
EXTENDS Topic, FiniteSetTheorems, TLAPS

USE TopicAssumption, SMTT(30), ZenonT(30), SMTT(60)

(***************************************************************************)
(* The inductive invariants, and the proof of the one that the others rest *)
(* on: the types, the loops of the consumers, and where their cursors are  *)
(* between what was committed and what was delivered.                      *)
(***************************************************************************)
TopicType ==
  /\ log \in [Partitions -> Seq(Nat)]
  /\ flushed \in [Partitions -> Nat]
  /\ committed \in [Groups -> [Partitions -> Nat \cup {Unset}]]
  /\ pc \in [Producers -> {"idle", "check", "hwm", "full", "append", "flush"}]
  /\ part \in [Producers -> Partitions]
  /\ size \in [Producers -> 1 .. MaxBatch]
  /\ kind \in [Producers -> {"one", "batch"}]
  /\ low \in [Producers -> Nat]
  /\ state \in [Consumers -> {"gone", "idle", "registering", "polling", "committing"}]
  /\ todo \in [Consumers -> Seq(Partitions)]
  /\ got \in [Consumers -> Nat]
  /\ cursor \in [Consumers -> [Partitions -> Nat]]
  /\ seen \in [Groups -> [Partitions -> Seq(Nat)]]
  /\ joined \in [Partitions -> Nat]
  /\ faults \in Nat

\* A loop of c has partitions of c left, each once, until it is over.
Loops ==
  \A c \in Consumers :
    /\ state[c] \in {"registering", "polling", "committing"} => todo[c] # <<>>
    /\ \A i \in DOMAIN todo[c] : todo[c][i] \in Assigned(c)
    /\ \A i, j \in DOMAIN todo[c] : todo[c][i] = todo[c][j] => i = j

\* The constructor of c has been at p.
Started(c, p) ==
  /\ p \in Assigned(c)
  /\ state[c] # "gone"
  /\ state[c] = "registering" => \A i \in DOMAIN todo[c] : todo[c][i] # p

\* A cursor is no further than what its group was given, is that of a partition
\* of the consumer, and once set is never behind the group's committed offset.
Cursors ==
  \A c \in Consumers, p \in Partitions :
    /\ cursor[c][p] <= Len(seen[c[1]][p])
    /\ p \notin Assigned(c) => cursor[c][p] = 0
    /\ Started(c, p) => committed[c[1]][p] # Unset /\ committed[c[1]][p] <= cursor[c][p]

TopicInv == TopicType /\ Loops /\ Cursors /\ CommittedSeen

\* Where StableReads holds: what is read can be lost only if a power loss can
\* find a record in the log that is not flushed.
DurableReads ==
  \/ "power" \notin Faults
  \/ PerMessage /\ Kinds \subseteq {"batch"} /\ ("kill" \notin Faults \/ MaxFaults <= 1)

ReadsInv ==
  /\ StableReads
  /\ \A p \in Partitions : flushed[p] <= Len(log[p])
  /\ "power" \in Faults /\ faults < MaxFaults =>
       /\ \A p \in Partitions : flushed[p] = Len(log[p])
       /\ \A q \in Producers : pc[q] # "idle" => kind[q] = "batch"

\* The producers that will append to p, whatever is committed from now on: they
\* are past the check, or in it with a minimum that a new group has undercut.
Admitted(p) ==
  {q \in Producers :
    /\ part[q] = p
    /\ \/ pc[q] = "append"
       \/ pc[q] = "hwm" /\ \E g \in Registered(p) : committed[g][p] < low[q]}

\* What those who are not admitted may still add to the overshoot.
Room(p) == (Cardinality(Producers) - Cardinality(Admitted(p))) * MaxBatch

LagAt(p) ==
  Registered(p) # {} =>
    \/ \A g \in Registered(p) : Len(log[p]) - committed[g][p] <= MaxLag - 1 + Room(p)
    \/ Len(log[p]) - joined[p] <= Room(p)

LagInv == MaxLag > 0 => \A p \in Partitions : LagAt(p)

(***************************************************************************)
(* What the helpers do                                                     *)
(***************************************************************************)

\* A topic that is new satisfies the invariant.
LEMMA InitInv == Init => TopicInv
<1> SUFFICES ASSUME Init PROVE TopicInv
  BY Zenon
<1>1. 0 \in Partitions
  BY DEF Partitions
<1>2. TopicType
  BY <1>1 DEF Init, TopicType, NoCursor
<1>3. Loops
  BY DEF Init, Loops
<1>4. Cursors
  <2> SUFFICES ASSUME NEW c \in Consumers, NEW p \in Partitions
               PROVE  /\ cursor[c][p] = 0
                      /\ Len(seen[c[1]][p]) = 0
                      /\ state[c] = "gone"
    BY DEF Cursors, Started
  <2>1. c[1] \in Groups
    BY Zenon DEF Consumers
  <2> QED BY <2>1, Zenon DEF Init, NoCursor
<1>5. CommittedSeen
  BY Zenon DEF Init, CommittedSeen
<1> QED BY <1>2, <1>3, <1>4, <1>5, Zenon DEF TopicInv

\* A loop over the partitions of c visits each of them once.
LEMMA OrderVisitsAll ==
  ASSUME NEW c \in Consumers, NEW s \in Orders(Assigned(c))
  PROVE  /\ s \in Seq(Partitions)
         /\ \A i \in DOMAIN s : s[i] \in Assigned(c)
         /\ \A i, j \in DOMAIN s : s[i] = s[j] => i = j
         /\ \A p \in Assigned(c) : \E i \in DOMAIN s : s[i] = p
<1> DEFINE A == Assigned(c)
           n == Cardinality(A)
<1>1. IsFiniteSet(Partitions)
  BY FS_Interval DEF Partitions
<1>2. A \in SUBSET Partitions
  BY Zenon DEF Assigned
<1>3. IsFiniteSet(A) /\ n \in Nat
  BY <1>1, <1>2, FS_Subset, FS_CardinalityType, Zenon
<1>4. s \in [1 .. n -> A] /\ \A i, j \in DOMAIN s : s[i] = s[j] => i = j
  BY Zenon DEF Orders
<1>5. s \in Injection(1 .. n, A)
  BY <1>4, Zenon DEF Injection, IsInjective
<1>6. Cardinality(1 .. n) = n
  BY <1>3, FS_Interval
<1>7. s \in Surjection(1 .. n, A)
  BY <1>3, <1>5, <1>6, FS_Injection, Zenon
<1>8. \A p \in A : \E i \in 1 .. n : s[i] = p
  BY <1>7, Zenon DEF Surjection
<1>9. s \in Seq(Partitions)
  BY <1>2, <1>3, <1>4
<1> QED BY <1>4, <1>8, <1>9, Zenon

\* Begin and Advance change the loop of c alone.
LEMMA BeginEffect ==
  ASSUME TopicType, NEW c \in Consumers, NEW s \in Seq(Partitions),
         NEW what \in {"idle", "registering", "polling", "committing"}, Begin(c, what, s)
  PROVE  /\ state' \in [Consumers -> {"gone", "idle", "registering", "polling", "committing"}]
         /\ todo' \in [Consumers -> Seq(Partitions)]
         /\ state'[c] = IF s = <<>> THEN "idle" ELSE what
         /\ todo'[c] = s
         /\ \A d \in Consumers : d # c => state'[d] = state[d] /\ todo'[d] = todo[d]
BY Zenon DEF TopicType, Begin

\* The head of a loop and what is left of it.
LEMMA TailEffect ==
  ASSUME NEW s \in Seq(Partitions), s # <<>>
  PROVE  /\ Head(s) = s[1] /\ Head(s) \in Partitions /\ 1 \in DOMAIN s
         /\ Tail(s) \in Seq(Partitions)
         /\ \A i \in DOMAIN Tail(s) : i + 1 \in DOMAIN s /\ Tail(s)[i] = s[i + 1]
         /\ \A i \in DOMAIN s : i # 1 => i - 1 \in DOMAIN Tail(s) /\ Tail(s)[i - 1] = s[i]
OBVIOUS

\* The loop that is left when c is done with its head is a loop of c, without the head.
LEMMA AdvanceEffect ==
  ASSUME TopicType, Loops, NEW c \in Consumers,
         state[c] \in {"registering", "polling", "committing"}, Advance(c)
  PROVE  /\ todo[c] # <<>> /\ Head(todo[c]) \in Assigned(c) /\ Head(todo[c]) \in Partitions
         /\ Begin(c, state[c], Tail(todo[c]))
         /\ Tail(todo[c]) \in Seq(Partitions)
         /\ \A i \in DOMAIN Tail(todo[c]) :
              Tail(todo[c])[i] \in Assigned(c) /\ Tail(todo[c])[i] # Head(todo[c])
         /\ \A i, j \in DOMAIN Tail(todo[c]) : Tail(todo[c])[i] = Tail(todo[c])[j] => i = j
         /\ \A p \in Partitions : p # Head(todo[c]) /\ (\E i \in DOMAIN todo[c] : todo[c][i] = p) =>
              \E i \in DOMAIN Tail(todo[c]) : Tail(todo[c])[i] = p
<1> DEFINE s == todo[c]
<1>1. s \in Seq(Partitions) /\ s # <<>>
  BY Zenon DEF TopicType, Loops
<1>2. /\ Head(s) = s[1] /\ Head(s) \in Partitions /\ 1 \in DOMAIN s
      /\ Tail(s) \in Seq(Partitions)
      /\ \A i \in DOMAIN Tail(s) : i + 1 \in DOMAIN s /\ Tail(s)[i] = s[i + 1]
      /\ \A i \in DOMAIN s : i # 1 => i - 1 \in DOMAIN Tail(s) /\ Tail(s)[i - 1] = s[i]
  BY <1>1, TailEffect, Zenon
<1>3. /\ \A i \in DOMAIN s : s[i] \in Assigned(c)
      /\ \A i, j \in DOMAIN s : s[i] = s[j] => i = j
  BY Zenon DEF Loops
<1>4. DOMAIN s = 1 .. Len(s) /\ Len(s) \in Nat /\ DOMAIN Tail(s) \subseteq Nat \ {0}
  BY <1>1, <1>2
<1>5. \A i \in DOMAIN Tail(s) : Tail(s)[i] \in Assigned(c) /\ Tail(s)[i] # Head(s)
  BY <1>2, <1>3, <1>4
<1>6. ASSUME NEW i \in DOMAIN Tail(s), NEW j \in DOMAIN Tail(s), Tail(s)[i] = Tail(s)[j]
      PROVE  i = j
  <2>1. i + 1 \in DOMAIN s /\ j + 1 \in DOMAIN s /\ s[i + 1] = s[j + 1]
    BY <1>2, <1>6, Zenon
  <2>2. i + 1 = j + 1
    BY <2>1, <1>3, Zenon
  <2>3. i \in Nat /\ j \in Nat
    BY <1>4, Zenon
  <2> QED BY <2>2, <2>3
<1>7. ASSUME NEW p \in Partitions, p # Head(s), NEW i \in DOMAIN s, s[i] = p
      PROVE  \E k \in DOMAIN Tail(s) : Tail(s)[k] = p
  BY <1>2, <1>7, Zenon
<1> QED BY <1>1, <1>2, <1>3, <1>5, <1>6, <1>7 DEF Advance

\* A loop of c that is well formed keeps Loops.
LEMMA LoopsKept ==
  ASSUME TopicType, Loops, NEW c \in Consumers, NEW s \in Seq(Partitions),
         NEW what \in {"idle", "registering", "polling", "committing"}, Begin(c, what, s),
         \A i \in DOMAIN s : s[i] \in Assigned(c),
         \A i, j \in DOMAIN s : s[i] = s[j] => i = j
  PROVE  Loops'
<1>1. /\ state'[c] = IF s = <<>> THEN "idle" ELSE what
      /\ todo'[c] = s
      /\ \A d \in Consumers : d # c => state'[d] = state[d] /\ todo'[d] = todo[d]
  BY BeginEffect
<1> SUFFICES ASSUME NEW d \in Consumers
             PROVE  /\ state'[d] \in {"registering", "polling", "committing"} => todo'[d] # <<>>
                    /\ \A i \in DOMAIN todo'[d] : todo'[d][i] \in Assigned(d)
                    /\ \A i, j \in DOMAIN todo'[d] : todo'[d][i] = todo'[d][j] => i = j
  BY Zenon DEF Loops, Assigned
<1>2. CASE d = c
  BY <1>1, <1>2, Zenon
<1>3. CASE d # c
  BY <1>1, <1>3, ZenonT(60) DEF Loops
<1> QED BY <1>2, <1>3, Zenon

\* A partition belongs to one consumer of a group.
LEMMA OneOwner ==
  ASSUME NEW c \in Consumers, NEW d \in Consumers, NEW p \in Partitions, c[1] = d[1],
         p \in Assigned(c), p \in Assigned(d)
  PROVE  c = d
BY DEF Consumers, Assigned

\* A step that starts no partition and moves no offset keeps the cursors.
LEMMA CursorsKept ==
  ASSUME Cursors, UNCHANGED <<committed, cursor, seen>>,
         \A c \in Consumers, p \in Partitions : Started(c, p)' => Started(c, p)
  PROVE  Cursors'
BY Zenon DEF Cursors, Assigned

(***************************************************************************)
(* The invariant is kept by each consumer                                  *)
(***************************************************************************)

\* The Consumer constructor begins with none of its partitions started.
LEMMA ConstructStep ==
  ASSUME TopicInv, NEW c \in Consumers, Construct(c)
  PROVE  TopicInv'
<1> USE DEF TopicInv
<1>1. PICK s \in Orders(Assigned(c)) : Begin(c, "registering", s)
  BY Zenon DEF Construct
<1>2. /\ s \in Seq(Partitions)
      /\ \A i \in DOMAIN s : s[i] \in Assigned(c)
      /\ \A i, j \in DOMAIN s : s[i] = s[j] => i = j
      /\ \A p \in Assigned(c) : \E i \in DOMAIN s : s[i] = p
  BY OrderVisitsAll, Zenon
<1>3. UNCHANGED <<store, committed, producing, got, cursor, history, faults>>
  BY Zenon DEF Construct
<1>4. /\ state' \in [Consumers -> {"gone", "idle", "registering", "polling", "committing"}]
      /\ todo' \in [Consumers -> Seq(Partitions)]
      /\ state'[c] = IF s = <<>> THEN "idle" ELSE "registering"
      /\ todo'[c] = s
      /\ \A d \in Consumers : d # c => state'[d] = state[d] /\ todo'[d] = todo[d]
  BY <1>1, <1>2, BeginEffect, Zenon
<1>5. TopicType'
  BY <1>3, <1>4, Zenon DEF TopicType, store, producing, history
<1>6. Loops'
  BY <1>1, <1>2, LoopsKept, Zenon
<1>7. \A d \in Consumers, p \in Partitions : Started(d, p)' => Started(d, p)
  <2> SUFFICES ASSUME NEW d \in Consumers, NEW p \in Partitions, Started(d, p)'
               PROVE  Started(d, p)
    BY Zenon
  <2>1. CASE d # c
    BY <2>1, <1>4, Zenon DEF Started, Assigned
  <2>2. CASE d = c
    <3>1. p \in Assigned(c)
      BY <2>2, Zenon DEF Started, Assigned
    <3>2. PICK i \in DOMAIN s : s[i] = p
      BY <3>1, <1>2, Zenon
    <3>3. s # <<>>
      BY <3>2
    <3> QED BY <2>2, <3>2, <3>3, <1>4, Zenon DEF Started
  <2> QED BY <2>1, <2>2, Zenon
<1>8. Cursors'
  BY <1>3, <1>7, CursorsKept, Zenon DEF history
<1>9. CommittedSeen'
  BY <1>3, Zenon DEF CommittedSeen, history
<1> QED BY <1>5, <1>6, <1>8, <1>9, Zenon

\* poll() and commit() begin a loop, and a poll may end one, of a consumer that
\* is past its constructor.
LEMMA LoopStep ==
  ASSUME TopicInv, NEW c \in Consumers, NEW s \in Seq(Partitions),
         NEW what \in {"idle", "polling", "committing"}, Begin(c, what, s),
         state[c] \in {"idle", "polling"},
         \A i \in DOMAIN s : s[i] \in Assigned(c),
         \A i, j \in DOMAIN s : s[i] = s[j] => i = j,
         got' \in [Consumers -> Nat],
         UNCHANGED <<store, committed, producing, cursor, history, faults>>
  PROVE  TopicInv'
<1> USE DEF TopicInv
<1>1. /\ state' \in [Consumers -> {"gone", "idle", "registering", "polling", "committing"}]
      /\ todo' \in [Consumers -> Seq(Partitions)]
      /\ state'[c] = IF s = <<>> THEN "idle" ELSE what
      /\ \A d \in Consumers : d # c => state'[d] = state[d] /\ todo'[d] = todo[d]
  BY BeginEffect
<1>2. TopicType'
  BY <1>1, Zenon DEF TopicType, store, producing, history
<1>3. Loops'
  BY LoopsKept, Zenon
<1>4. \A d \in Consumers, p \in Partitions : Started(d, p)' => Started(d, p)
  BY <1>1, Zenon DEF Started, Assigned
<1>5. Cursors'
  BY <1>4, CursorsKept, Zenon DEF history
<1>6. CommittedSeen'
  BY Zenon DEF CommittedSeen, history
<1> QED BY <1>2, <1>3, <1>5, <1>6, Zenon

\* Consumer::poll begins a loop over the partitions.
LEMMA PollStep ==
  ASSUME TopicInv, NEW c \in Consumers, Poll(c)
  PROVE  TopicInv'
<1>1. PICK s \in Orders(Assigned(c)) : Begin(c, "polling", s)
  BY Zenon DEF Poll
<1>2. /\ s \in Seq(Partitions)
      /\ \A i \in DOMAIN s : s[i] \in Assigned(c)
      /\ \A i, j \in DOMAIN s : s[i] = s[j] => i = j
  BY OrderVisitsAll, Zenon
<1>3. got' \in [Consumers -> Nat]
  BY Zenon DEF Poll, TopicInv, TopicType
<1> QED BY <1>1, <1>2, <1>3, LoopStep, Zenon DEF Poll

\* Consumer::commit begins a loop over the partitions.
LEMMA CommitStep ==
  ASSUME TopicInv, NEW c \in Consumers, Commit(c)
  PROVE  TopicInv'
<1>1. PICK s \in Orders(Assigned(c)) : Begin(c, "committing", s)
  BY Zenon DEF Commit
<1>2. /\ s \in Seq(Partitions)
      /\ \A i \in DOMAIN s : s[i] \in Assigned(c)
      /\ \A i, j \in DOMAIN s : s[i] = s[j] => i = j
  BY OrderVisitsAll, Zenon
<1>3. got' \in [Consumers -> Nat]
  BY Zenon DEF Commit, TopicInv, TopicType
<1> QED BY <1>1, <1>2, <1>3, LoopStep, Zenon DEF Commit

\* A poll goes on to the next partition, or ends with max_records.
LEMMA PollNextStep ==
  ASSUME TopicInv, NEW c \in Consumers, PollNext(c)
  PROVE  TopicInv'
<1>1. got' \in [Consumers -> Nat] /\ state[c] = "polling"
  BY Zenon DEF PollNext, TopicInv, TopicType
<1>2. CASE got[c] >= MaxPoll
  <2>1. Begin(c, "idle", <<>>)
    BY <1>2, Zenon DEF PollNext
  <2>2. <<>> \in Seq(Partitions) /\ DOMAIN <<>> = {}
    OBVIOUS
  <2> QED BY <1>1, <2>1, <2>2, LoopStep, Zenon DEF PollNext
<1>3. CASE ~(got[c] >= MaxPoll)
  <2>1. Advance(c)
    BY <1>3, Zenon DEF PollNext
  <2>2. /\ Begin(c, "polling", Tail(todo[c]))
        /\ Tail(todo[c]) \in Seq(Partitions)
        /\ \A i \in DOMAIN Tail(todo[c]) : Tail(todo[c])[i] \in Assigned(c)
        /\ \A i, j \in DOMAIN Tail(todo[c]) : Tail(todo[c])[i] = Tail(todo[c])[j] => i = j
    BY <1>1, <2>1, AdvanceEffect DEF TopicInv
  <2> QED BY <1>1, <2>2, LoopStep, Zenon DEF PollNext
<1> QED BY <1>2, <1>3, Zenon

\* One entry of a table of tables.
LEMMA EntrySet ==
  ASSUME NEW A, NEW B, NEW V, NEW f \in [A -> [B -> V]], NEW a \in A, NEW b \in B, NEW v \in V
  PROVE  /\ [f EXCEPT ![a][b] = v] \in [A -> [B -> V]]
         /\ [f EXCEPT ![a][b] = v][a][b] = v
         /\ \A x \in A, y \in B : x # a \/ y # b => [f EXCEPT ![a][b] = v][x][y] = f[x][y]
BY Zenon

\* Registering starts the cursor at what the group has committed, which was delivered.
LEMMA RegisterStep ==
  ASSUME TopicInv, NEW c \in Consumers, Register(c)
  PROVE  TopicInv'
<1> DEFINE p == Head(todo[c])
           g == c[1]
           o == IF committed[g][p] = Unset THEN 0 ELSE committed[g][p]
           t == Tail(todo[c])
<1> USE DEF TopicInv
<1>1. /\ state[c] = "registering" /\ Advance(c)
      /\ committed' = [committed EXCEPT ![g][p] = o]
      /\ cursor' = [cursor EXCEPT ![c][p] = o]
      /\ joined' = [joined EXCEPT ![p] = Len(log[p])]
      /\ UNCHANGED <<store, producing, got, seen, faults>>
  BY Zenon DEF Register
<1>1a. /\ p \in Assigned(c) /\ p \in Partitions
       /\ Begin(c, state[c], t) /\ t \in Seq(Partitions)
       /\ \A i \in DOMAIN t : t[i] \in Assigned(c)
       /\ \A i, j \in DOMAIN t : t[i] = t[j] => i = j
       /\ \A r \in Partitions : r # p /\ (\E i \in DOMAIN todo[c] : todo[c][i] = r) =>
            \E i \in DOMAIN t : t[i] = r
  <2>1. state[c] \in {"registering", "polling", "committing"} /\ Advance(c) /\ TopicType /\ Loops
    BY <1>1, Zenon
  <2> QED BY <2>1, AdvanceEffect, Zenon
<1>2. /\ p \in Assigned(c) /\ p \in Partitions
      /\ Begin(c, "registering", t) /\ t \in Seq(Partitions)
      /\ \A i \in DOMAIN t : t[i] \in Assigned(c)
      /\ \A i, j \in DOMAIN t : t[i] = t[j] => i = j
      /\ \A r \in Partitions : r # p /\ (\E i \in DOMAIN todo[c] : todo[c][i] = r) =>
           \E i \in DOMAIN t : t[i] = r
  BY <1>1, <1>1a, Zenon
<1>3. g \in Groups /\ \A d \in Consumers : d[1] \in Groups
  BY Zenon DEF Consumers
<1>4. o \in Nat /\ o <= Len(seen[g][p]) /\ Len(seen[g][p]) \in Nat
  BY <1>2, <1>3 DEF TopicType, CommittedSeen
<1>4a. committed[g][p] # Unset => committed[g][p] = o
  BY Zenon
<1> HIDE DEF p, g, o, t
<1>5. /\ state' \in [Consumers -> {"gone", "idle", "registering", "polling", "committing"}]
      /\ todo' \in [Consumers -> Seq(Partitions)]
      /\ state'[c] = IF t = <<>> THEN "idle" ELSE "registering"
      /\ todo'[c] = t
      /\ \A d \in Consumers : d # c => state'[d] = state[d] /\ todo'[d] = todo[d]
  BY <1>2, BeginEffect, Zenon
<1>6. /\ committed' \in [Groups -> [Partitions -> Nat \cup {Unset}]]
      /\ committed'[g][p] = o
      /\ \A h \in Groups, r \in Partitions : h # g \/ r # p => committed'[h][r] = committed[h][r]
  <2>1. committed \in [Groups -> [Partitions -> Nat \cup {Unset}]] /\ o \in Nat \cup {Unset}
    BY <1>4, Zenon DEF TopicType
  <2> QED BY <1>1, <1>2, <1>3, <2>1, EntrySet
<1>7. /\ cursor' \in [Consumers -> [Partitions -> Nat]]
      /\ cursor'[c][p] = o
      /\ \A d \in Consumers, r \in Partitions : d # c \/ r # p => cursor'[d][r] = cursor[d][r]
  <2>1. cursor \in [Consumers -> [Partitions -> Nat]]
    BY Zenon DEF TopicType
  <2> QED BY <1>1, <1>2, <1>4, <2>1, EntrySet
<1>8. joined' \in [Partitions -> Nat]
  BY <1>1, <1>2 DEF TopicType
<1>9. TopicType'
  BY <1>1, <1>5, <1>6, <1>7, <1>8, Zenon DEF TopicType, store, producing
<1>10. Loops'
  BY <1>2, LoopsKept, Zenon
<1>11. CommittedSeen'
  <2> SUFFICES ASSUME NEW h \in Groups, NEW r \in Partitions, committed'[h][r] # Unset
               PROVE  committed'[h][r] <= Len(seen[h][r])
    BY <1>1, Zenon DEF CommittedSeen
  <2>1. CASE h = g /\ r = p
    BY <2>1, <1>4, <1>6, Zenon
  <2>2. CASE h # g \/ r # p
    BY <2>2, <1>6, Zenon DEF CommittedSeen
  <2> QED BY <2>1, <2>2, Zenon
<1>12. Cursors'
  <2> SUFFICES ASSUME NEW d \in Consumers, NEW r \in Partitions
               PROVE  /\ cursor'[d][r] <= Len(seen[d[1]][r])
                      /\ r \notin Assigned(d) => cursor'[d][r] = 0
                      /\ Started(d, r)' => committed'[d[1]][r] # Unset /\ committed'[d[1]][r] <= cursor'[d][r]
    BY <1>1, Zenon DEF Cursors, Assigned
  <2>1. CASE d = c /\ r = p
    BY <2>1, <1>2, <1>4, <1>6, <1>7 DEF g
  <2>2. CASE d = c /\ r # p
    <3>1. ASSUME Started(c, r)' PROVE Started(c, r)
      <4>1. r \in Assigned(c)
        BY <3>1, Zenon DEF Started, Assigned
      <4>2. \A i \in DOMAIN t : t[i] # r
        BY <3>1, <1>5 DEF Started
      <4>3. \A i \in DOMAIN todo[c] : todo[c][i] # r
        BY <4>2, <2>2, <1>2, Zenon
      <4> QED BY <4>1, <4>3, <1>1, Zenon DEF Started
    <3>2. committed'[g][r] = committed[g][r] /\ cursor'[c][r] = cursor[c][r]
      BY <2>2, <1>3, <1>6, <1>7, Zenon
    <3> QED BY <2>2, <3>1, <3>2, Zenon DEF Cursors, g
  <2>3. CASE d # c
    <3>1. Started(d, r)' => Started(d, r)
      BY <2>3, <1>5, Zenon DEF Started, Assigned
    <3>2. CASE d[1] = g /\ r = p
      <4>1. r \notin Assigned(d)
        BY <2>3, <3>2, <1>2, OneOwner, Zenon DEF g
      <4> QED BY <2>3, <3>1, <4>1, <1>7 DEF Cursors, Started
    <3>3. CASE d[1] # g \/ r # p
      <4>1. committed'[d[1]][r] = committed[d[1]][r] /\ cursor'[d][r] = cursor[d][r]
        BY <2>3, <3>3, <1>3, <1>6, <1>7, Zenon
      <4> QED BY <3>1, <4>1, Zenon DEF Cursors
    <3> QED BY <3>2, <3>3, Zenon
  <2> QED BY <2>1, <2>2, <2>3, Zenon
<1> QED BY <1>9, <1>10, <1>11, <1>12, Zenon

\* A record that is returned moves the cursor, at most past what is delivered with it.
LEMMA PollRecordStep ==
  ASSUME TopicInv, NEW c \in Consumers, PollRecord(c)
  PROVE  TopicInv'
<1> DEFINE p == Head(todo[c])
           g == c[1]
           o == cursor[c][p]
<1> USE DEF TopicInv
<1>1. /\ state[c] = "polling" /\ o < Len(log[p])
      /\ cursor' = [cursor EXCEPT ![c][p] = o + 1]
      /\ got' = [got EXCEPT ![c] = @ + 1]
      /\ seen' = IF o = Len(seen[g][p])
                 THEN [seen EXCEPT ![g][p] = Append(@, log[p][o + 1])] ELSE seen
      /\ UNCHANGED <<store, committed, producing, state, todo, joined, faults>>
  BY Zenon DEF PollRecord
<1>2. todo[c] \in Seq(Partitions) /\ todo[c] # <<>>
  BY <1>1, Zenon DEF TopicType, Loops
<1>3. p \in Partitions /\ p \in Assigned(c)
  BY <1>2, TailEffect DEF Loops
<1>4. g \in Groups /\ \A d \in Consumers : d[1] \in Groups
  BY Zenon DEF Consumers
<1>5. /\ log[p] \in Seq(Nat) /\ o \in Nat /\ o + 1 \in 1 .. Len(log[p])
      /\ seen[g][p] \in Seq(Nat) /\ o <= Len(seen[g][p])
  <2>1. log[p] \in Seq(Nat) /\ o \in Nat /\ seen[g][p] \in Seq(Nat)
    BY <1>3, <1>4 DEF TopicType
  <2>2. o <= Len(seen[g][p])
    BY <1>3, Zenon DEF Cursors
  <2>3. o < Len(log[p])
    BY <1>1, Zenon
  <2>4. o + 1 \in 1 .. Len(log[p])
    BY <2>1, <2>3
  <2> QED BY <2>1, <2>2, <2>4, Zenon
<1> HIDE DEF p, g, o
<1>6. log[p][o + 1] \in Nat
  BY <1>5
<1>7. /\ seen' \in [Groups -> [Partitions -> Seq(Nat)]]
      /\ Len(seen'[g][p]) >= o + 1
      /\ \A h \in Groups, r \in Partitions :
           Len(seen'[h][r]) \in Nat /\ Len(seen[h][r]) \in Nat /\ Len(seen[h][r]) <= Len(seen'[h][r])
  <2>1. Append(seen[g][p], log[p][o + 1]) \in Seq(Nat)
        /\ Len(Append(seen[g][p], log[p][o + 1])) = Len(seen[g][p]) + 1
    BY <1>5, <1>6
  <2>2. seen \in [Groups -> [Partitions -> Seq(Nat)]]
    BY Zenon DEF TopicType
  <2>3. CASE o = Len(seen[g][p])
    <3>1. seen' = [seen EXCEPT ![g][p] = Append(seen[g][p], log[p][o + 1])]
      BY <1>1, <2>3, Zenon
    <3>2. /\ seen' \in [Groups -> [Partitions -> Seq(Nat)]]
          /\ seen'[g][p] = Append(seen[g][p], log[p][o + 1])
          /\ \A h \in Groups, r \in Partitions : h # g \/ r # p => seen'[h][r] = seen[h][r]
      BY <3>1, <1>3, <1>4, <2>1, <2>2, EntrySet
    <3>3. Len(seen[g][p]) \in Nat /\ \A h \in Groups, r \in Partitions : Len(seen[h][r]) \in Nat
      BY <1>5, <2>2
    <3>4. Len(seen'[g][p]) = Len(seen[g][p]) + 1
      BY <2>1, <3>2, Zenon
    <3>5. ASSUME NEW h \in Groups, NEW r \in Partitions
          PROVE  Len(seen'[h][r]) \in Nat /\ Len(seen[h][r]) <= Len(seen'[h][r])
      <4>1. CASE h = g /\ r = p
        BY <4>1, <3>3, <3>4
      <4>2. CASE h # g \/ r # p
        BY <4>2, <3>2, <3>3
      <4> QED BY <4>1, <4>2, Zenon
    <3> QED BY <2>3, <3>2, <3>3, <3>4, <3>5
  <2>4. CASE o # Len(seen[g][p])
    BY <1>1, <1>3, <1>4, <1>5, <2>2, <2>4
  <2> QED BY <2>3, <2>4, Zenon
<1>8. /\ cursor' \in [Consumers -> [Partitions -> Nat]]
      /\ cursor'[c][p] = o + 1
      /\ \A d \in Consumers, r \in Partitions : d # c \/ r # p => cursor'[d][r] = cursor[d][r]
  <2>1. cursor \in [Consumers -> [Partitions -> Nat]] /\ o + 1 \in Nat
    BY <1>5 DEF TopicType
  <2> QED BY <1>1, <1>3, <2>1, EntrySet
<1>9. got' \in [Consumers -> Nat]
  <2>1. got' = [got EXCEPT ![c] = @ + 1]
    BY <1>1, Zenon
  <2> QED BY <2>1 DEF TopicType
<1>10. TopicType'
  BY <1>1, <1>7, <1>8, <1>9, Zenon DEF TopicType, store, producing
<1>11. Loops'
  BY <1>1, Zenon DEF Loops, Assigned
<1>12. CommittedSeen'
  <2> SUFFICES ASSUME NEW h \in Groups, NEW r \in Partitions, committed[h][r] # Unset
               PROVE  committed[h][r] <= Len(seen'[h][r])
    BY <1>1, Zenon DEF CommittedSeen
  <2>1. committed[h][r] \in Nat /\ committed[h][r] <= Len(seen[h][r])
    BY DEF CommittedSeen, TopicType
  <2> QED BY <2>1, <1>7
<1>13. Cursors'
  <2> SUFFICES ASSUME NEW d \in Consumers, NEW r \in Partitions
               PROVE  /\ cursor'[d][r] <= Len(seen'[d[1]][r])
                      /\ r \notin Assigned(d) => cursor'[d][r] = 0
                      /\ Started(d, r) => committed[d[1]][r] # Unset /\ committed[d[1]][r] <= cursor'[d][r]
    BY <1>1 DEF Cursors, Started, Assigned
  <2>1. CASE d = c /\ r = p
    <3>1. cursor'[c][p] <= Len(seen'[c[1]][p])
      BY <1>3, <1>4, <1>7, <1>8, <1>5, Zenon DEF g
    <3>2. Started(c, p) => committed[c[1]][p] # Unset /\ committed[c[1]][p] <= o
      BY <1>3, Zenon DEF Cursors, o
    <3>3. committed[c[1]][p] \in Nat \cup {Unset}
      BY <1>3, <1>4 DEF TopicType
    <3> QED BY <2>1, <3>1, <3>2, <3>3, <1>3, <1>5, <1>8
  <2>2. CASE d # c \/ r # p
    <3>1. cursor'[d][r] = cursor[d][r] /\ cursor[d][r] \in Nat
      BY <2>2, <1>8 DEF TopicType
    <3>2. cursor[d][r] <= Len(seen[d[1]][r])
      BY Zenon DEF Cursors
    <3>3. cursor'[d][r] <= Len(seen'[d[1]][r])
      BY <3>1, <3>2, <1>4, <1>7
    <3> QED BY <3>1, <3>3, Zenon DEF Cursors
  <2> QED BY <2>1, <2>2, Zenon
<1> QED BY <1>10, <1>11, <1>12, <1>13, Zenon

\* A commit is of the cursor, which is not behind the offset committed before.
LEMMA CommitOffsetStep ==
  ASSUME TopicInv, NEW c \in Consumers, CommitOffset(c)
  PROVE  /\ TopicInv'
         /\ \A h \in Groups, r \in Partitions :
              /\ committed'[h][r] = Unset <=> committed[h][r] = Unset
              /\ committed[h][r] # Unset => committed'[h][r] >= committed[h][r]
<1> DEFINE p == Head(todo[c])
           g == c[1]
           o == cursor[c][p]
           t == Tail(todo[c])
<1> USE DEF TopicInv
<1>1. /\ state[c] = "committing" /\ Advance(c)
      /\ committed' = [committed EXCEPT ![g][p] = o]
      /\ UNCHANGED <<store, producing, got, cursor, history, faults>>
  BY Zenon DEF CommitOffset
<1>2. /\ p \in Assigned(c) /\ p \in Partitions
      /\ Begin(c, "committing", t) /\ t \in Seq(Partitions)
      /\ \A i \in DOMAIN t : t[i] \in Assigned(c)
      /\ \A i, j \in DOMAIN t : t[i] = t[j] => i = j
  BY <1>1, AdvanceEffect
<1>3. g \in Groups /\ \A d \in Consumers : d[1] \in Groups
  BY Zenon DEF Consumers
<1>4. o \in Nat /\ o <= Len(seen[g][p])
  BY <1>2 DEF TopicType, Cursors
<1>5. committed[g][p] \in Nat /\ committed[g][p] <= o
  <2>1. Started(c, p)
    BY <1>1, <1>2, Zenon DEF Started
  <2>2. committed[g][p] # Unset /\ committed[g][p] <= o
    BY <2>1, <1>2, Zenon DEF Cursors
  <2>3. committed[g][p] \in Nat \cup {Unset}
    BY <1>2, <1>3 DEF TopicType
  <2> QED BY <2>2, <2>3, Zenon
<1> HIDE DEF p, g, o, t
<1>6. /\ state' \in [Consumers -> {"gone", "idle", "registering", "polling", "committing"}]
      /\ todo' \in [Consumers -> Seq(Partitions)]
      /\ state'[c] = IF t = <<>> THEN "idle" ELSE "committing"
      /\ \A d \in Consumers : d # c => state'[d] = state[d] /\ todo'[d] = todo[d]
  BY <1>2, BeginEffect, ZenonT(60)
<1>7. /\ committed' \in [Groups -> [Partitions -> Nat \cup {Unset}]]
      /\ committed'[g][p] = o
      /\ \A h \in Groups, r \in Partitions : h # g \/ r # p => committed'[h][r] = committed[h][r]
  <2>1. committed \in [Groups -> [Partitions -> Nat \cup {Unset}]] /\ o \in Nat \cup {Unset}
    BY <1>4, Zenon DEF TopicType
  <2> QED BY <1>1, <1>2, <1>3, <2>1, EntrySet
<1>8. TopicType'
  BY <1>1, <1>6, <1>7, Zenon DEF TopicType, store, producing, history
<1>9. Loops'
  BY <1>2, LoopsKept, Zenon
<1>10. CommittedSeen'
  <2> SUFFICES ASSUME NEW h \in Groups, NEW r \in Partitions, committed'[h][r] # Unset
               PROVE  committed'[h][r] <= Len(seen[h][r])
    BY <1>1, Zenon DEF CommittedSeen, history
  <2>1. CASE h = g /\ r = p
    BY <2>1, <1>4, <1>7, Zenon
  <2>2. CASE h # g \/ r # p
    BY <2>2, <1>7, Zenon DEF CommittedSeen
  <2> QED BY <2>1, <2>2, Zenon
<1>11. Cursors'
  <2> SUFFICES ASSUME NEW d \in Consumers, NEW r \in Partitions, Started(d, r)'
               PROVE  committed'[d[1]][r] # Unset /\ committed'[d[1]][r] <= cursor[d][r]
    BY <1>1, Zenon DEF Cursors, Assigned, history
  <2>1. Started(d, r)
    BY <1>1, <1>6, Zenon DEF Started, Assigned
  <2>2. CASE d[1] = g /\ r = p
    <3>1. d = c
      BY <2>1, <2>2, <1>2, OneOwner, Zenon DEF Started, g
    <3> QED BY <2>2, <3>1, <1>4, <1>7 DEF o
  <2>3. CASE d[1] # g \/ r # p
    <3>1. committed'[d[1]][r] = committed[d[1]][r]
      BY <2>3, <1>3, <1>7, Zenon
    <3> QED BY <2>1, <3>1, Zenon DEF Cursors
  <2> QED BY <2>2, <2>3, Zenon
<1>12. ASSUME NEW h \in Groups, NEW r \in Partitions, committed[h][r] # Unset
       PROVE  committed'[h][r] >= committed[h][r]
  <2>1. CASE h = g /\ r = p
    BY <2>1, <1>4, <1>5, <1>7, Zenon
  <2>2. CASE h # g \/ r # p
    <3>1. committed[h][r] \in Nat
      BY <1>12 DEF TopicType
    <3> QED BY <2>2, <3>1, <1>7
  <2> QED BY <2>1, <2>2, Zenon
<1>13. ASSUME NEW h \in Groups, NEW r \in Partitions
       PROVE  committed'[h][r] = Unset <=> committed[h][r] = Unset
  <2>1. CASE h = g /\ r = p
    BY <2>1, <1>4, <1>5, <1>7, Zenon
  <2>2. CASE h # g \/ r # p
    BY <2>2, <1>7, Zenon
  <2> QED BY <2>1, <2>2, Zenon
<1> QED BY <1>8, <1>9, <1>10, <1>11, <1>12, <1>13, Zenon

\* A consumer that is destroyed leaves its group's offsets.
LEMMA StopStep ==
  ASSUME TopicInv, NEW c \in Consumers, Stop(c)
  PROVE  TopicInv'
<1> USE DEF TopicInv
<1>1. /\ state' = [state EXCEPT ![c] = "gone"]
      /\ todo' = [todo EXCEPT ![c] = <<>>]
      /\ got' = [got EXCEPT ![c] = 0]
      /\ cursor' = [cursor EXCEPT ![c] = NoCursor]
      /\ faults' = faults + 1
      /\ UNCHANGED <<store, committed, producing, history>>
  BY Zenon DEF Stop, Fault
<1>2. NoCursor \in [Partitions -> Nat] /\ \A p \in Partitions : NoCursor[p] = 0
  BY Zenon DEF NoCursor
<1>3. TopicType'
  BY <1>1, <1>2 DEF TopicType, store, producing, history
<1>4. /\ state'[c] = "gone" /\ todo'[c] = <<>> /\ cursor'[c] = NoCursor
      /\ \A d \in Consumers : d # c =>
           state'[d] = state[d] /\ todo'[d] = todo[d] /\ cursor'[d] = cursor[d]
  BY <1>1, Zenon DEF TopicType
<1>5. Loops'
  BY <1>4 DEF Loops, Assigned
<1>6. CommittedSeen'
  BY <1>1, Zenon DEF CommittedSeen, history
<1>7. Cursors'
  <2> SUFFICES ASSUME NEW d \in Consumers, NEW p \in Partitions
               PROVE  /\ cursor'[d][p] <= Len(seen[d[1]][p])
                      /\ p \notin Assigned(d) => cursor'[d][p] = 0
                      /\ Started(d, p)' => committed[d[1]][p] # Unset /\ committed[d[1]][p] <= cursor'[d][p]
    BY <1>1, Zenon DEF Cursors, Assigned, history
  <2>1. CASE d = c
    <3>1. Len(seen[c[1]][p]) \in Nat
      BY DEF TopicType, Consumers
    <3> QED BY <2>1, <3>1, <1>2, <1>4 DEF Started
  <2>2. CASE d # c
    <3>1. Started(d, p)' => Started(d, p)
      BY <2>2, <1>4, Zenon DEF Started, Assigned
    <3> QED BY <2>2, <3>1, <1>4 DEF Cursors
  <2> QED BY <2>1, <2>2, Zenon
<1> QED BY <1>3, <1>5, <1>6, <1>7, Zenon

(***************************************************************************)
(* ... by each producer, and by a crash                                    *)
(***************************************************************************)

\* A step that leaves the groups alone.
LEMMA GroupsUntouched ==
  ASSUME TopicInv, TopicType', UNCHANGED <<committed, consuming, history>>
  PROVE  TopicInv'
<1> USE DEF TopicInv
<1>1. Loops'
  BY Zenon DEF Loops, Assigned, consuming
<1>2. Cursors'
  BY Zenon DEF Cursors, Started, Assigned, consuming, history
<1>3. CommittedSeen'
  BY Zenon DEF CommittedSeen, history
<1> QED BY <1>1, <1>2, <1>3, Zenon

\* The records of one call.
LEMMA RecordsType ==
  ASSUME faults \in Nat, NEW n \in Nat
  PROVE  Records(n) \in Seq(Nat) /\ Len(Records(n)) = n
BY DEF Records

\* A sequence is a prefix of its concatenation with another one.
LEMMA ConcatExtends ==
  ASSUME NEW s \in Seq(Nat), NEW t \in Seq(Nat)
  PROVE  /\ s \o t \in Seq(Nat)
         /\ Len(s \o t) = Len(s) + Len(t)
         /\ \A i \in 1 .. Len(s) : (s \o t)[i] = s[i]
OBVIOUS

\* Appending records changes none of those before them.
LEMMA RecordsAppended ==
  ASSUME faults \in Nat, NEW s \in Seq(Nat), NEW n \in Nat
  PROVE  /\ s \o Records(n) \in Seq(Nat)
         /\ Len(s \o Records(n)) = Len(s) + n
         /\ \A i \in 1 .. Len(s) : (s \o Records(n))[i] = s[i]
<1>1. Records(n) \in Seq(Nat) /\ Len(Records(n)) = n
  BY RecordsType, Zenon
<1> QED BY <1>1, ConcatExtends, Zenon

\* The steps of a publish other than the append.
LEMMA PublishingStep ==
  ASSUME TopicInv, NEW q \in Producers,
         \/ \E p \in Partitions, n \in 1 .. MaxBatch, k \in Kinds : Publish(q, p, n, k)
         \/ ReadCommitted(q)
         \/ ReadHighWater(q)
         \/ Retry(q)
         \/ GiveUp(q)
         \/ FlushRecord(q)
  PROVE  TopicInv'
<1>1. CASE \E p \in Partitions, n \in 1 .. MaxBatch, k \in Kinds : Publish(q, p, n, k)
  <2>1. PICK p \in Partitions, n \in 1 .. MaxBatch, k \in Kinds : Publish(q, p, n, k)
    BY <1>1, Zenon
  <2>2. k \in {"one", "batch"}
    BY Zenon
  <2>3. TopicType'
    BY <2>1, <2>2, Zenon DEF Publish, Goto, TopicInv, TopicType, store, consuming, history
  <2> QED BY <2>1, <2>3, GroupsUntouched, Zenon DEF Publish
<1>2. CASE ReadCommitted(q)
  <2>1. /\ low' \in [Producers -> Nat]
        /\ pc' \in [Producers -> {"idle", "check", "hwm", "full", "append", "flush"}]
    <3>1. CASE MaxLag = 0 \/ Registered(part[q]) = {}
      BY <1>2, <3>1, Zenon DEF ReadCommitted, Goto, TopicInv, TopicType
    <3>2. CASE ~(MaxLag = 0 \/ Registered(part[q]) = {})
      <4>1. PICK m \in 0 .. MaxOffset : low' = [low EXCEPT ![q] = m] /\ Goto(q, "hwm")
        BY <1>2, <3>2, Zenon DEF ReadCommitted
      <4> QED BY <4>1 DEF Goto, TopicInv, TopicType
    <3> QED BY <3>1, <3>2, Zenon
  <2>2. TopicType'
    BY <1>2, <2>1, Zenon DEF ReadCommitted, TopicInv, TopicType, store, consuming, history
  <2> QED BY <1>2, <2>2, GroupsUntouched, Zenon DEF ReadCommitted
<1>3. CASE ReadHighWater(q)
  <2>1. TopicType'
    BY <1>3, Zenon DEF ReadHighWater, Goto, TopicInv, TopicType, store, consuming, history
  <2> QED BY <1>3, <2>1, GroupsUntouched, Zenon DEF ReadHighWater
<1>4. CASE Retry(q)
  <2>1. TopicType'
    BY <1>4, Zenon DEF Retry, Goto, TopicInv, TopicType, store, consuming, history
  <2> QED BY <1>4, <2>1, GroupsUntouched, Zenon DEF Retry
<1>5. CASE GiveUp(q)
  <2>1. TopicType'
    BY <1>5, Zenon DEF GiveUp, Goto, TopicInv, TopicType, store, consuming, history
  <2> QED BY <1>5, <2>1, GroupsUntouched, Zenon DEF GiveUp
<1>6. CASE FlushRecord(q)
  <2>1. flushed' \in [Partitions -> Nat]
    BY <1>6 DEF FlushRecord, TopicInv, TopicType
  <2>2. TopicType'
    BY <1>6, <2>1, Zenon DEF FlushRecord, Goto, TopicInv, TopicType, consuming, history
  <2> QED BY <1>6, <2>2, GroupsUntouched, Zenon DEF FlushRecord
<1> QED BY <1>1, <1>2, <1>3, <1>4, <1>5, <1>6, Zenon

\* What an append does to the log of its partition.
LEMMA AppendEffect ==
  ASSUME TopicType, NEW q \in Producers, AppendRecords(q)
  PROVE  /\ log' \in [Partitions -> Seq(Nat)]
         /\ Len(log'[part[q]]) = Len(log[part[q]]) + size[q]
         /\ \A i \in 1 .. Len(log[part[q]]) : log'[part[q]][i] = log[part[q]][i]
         /\ \A p \in Partitions : p # part[q] => log'[p] = log[p]
         /\ flushed' \in [Partitions -> Nat]
         /\ \A p \in Partitions : p # part[q] => flushed'[p] = flushed[p]
         /\ flushed'[part[q]] \in {flushed[part[q]], Len(log'[part[q]])}
         /\ PerMessage /\ kind[q] = "batch" => flushed'[part[q]] = Len(log'[part[q]])
<1> DEFINE r == part[q]
<1>1. /\ r \in Partitions /\ size[q] \in Nat /\ faults \in Nat /\ log[r] \in Seq(Nat)
      /\ log \in [Partitions -> Seq(Nat)] /\ flushed \in [Partitions -> Nat]
  BY DEF TopicType
<1>3. /\ log[r] \o Records(size[q]) \in Seq(Nat)
      /\ Len(log[r] \o Records(size[q])) = Len(log[r]) + size[q]
      /\ \A i \in 1 .. Len(log[r]) : (log[r] \o Records(size[q]))[i] = log[r][i]
  BY <1>1, RecordsAppended, Zenon
<1>4. log' = [log EXCEPT ![r] = log[r] \o Records(size[q])]
  BY Zenon DEF AppendRecords
<1> HIDE DEF r
<1>5. /\ log' \in [Partitions -> Seq(Nat)] /\ log'[r] = log[r] \o Records(size[q])
      /\ \A p \in Partitions : p # r => log'[p] = log[p]
  BY <1>1, <1>3, <1>4, Zenon
<1>6. IF PerMessage /\ kind[q] = "batch"
      THEN flushed' = [flushed EXCEPT ![r] = Len(log'[r])] ELSE flushed' = flushed
  BY Zenon DEF AppendRecords, r
<1>7. Len(log'[r]) \in Nat
  BY <1>1, <1>5
<1>8. /\ flushed' \in [Partitions -> Nat]
      /\ \A p \in Partitions : p # r => flushed'[p] = flushed[p]
      /\ flushed'[r] \in {flushed[r], Len(log'[r])}
      /\ PerMessage /\ kind[q] = "batch" => flushed'[r] = Len(log'[r])
  BY <1>1, <1>6, <1>7, Zenon
<1> QED BY <1>3, <1>5, <1>8, Zenon DEF r

\* Log::append and append_batch leave the groups alone.
LEMMA AppendStep ==
  ASSUME TopicInv, NEW q \in Producers, AppendRecords(q)
  PROVE  TopicInv'
<1>1. log' \in [Partitions -> Seq(Nat)] /\ flushed' \in [Partitions -> Nat]
  BY AppendEffect, Zenon DEF TopicInv
<1>2. pc' \in [Producers -> {"idle", "check", "hwm", "full", "append", "flush"}]
  BY Zenon DEF AppendRecords, Goto, TopicInv, TopicType
<1>3. TopicType'
  BY <1>1, <1>2, Zenon DEF AppendRecords, TopicInv, TopicType, consuming, history
<1> QED BY <1>3, GroupsUntouched, Zenon DEF AppendRecords

\* So does Partition::flush.
LEMMA UserFlushStep ==
  ASSUME TopicInv, NEW p \in Partitions, UserFlush(p)
  PROVE  TopicInv'
<1>1. flushed' \in [Partitions -> Nat]
  BY DEF UserFlush, TopicInv, TopicType
<1>2. TopicType'
  BY <1>1, Zenon DEF UserFlush, TopicInv, TopicType, producing, consuming, history
<1> QED BY <1>2, GroupsUntouched, Zenon DEF UserFlush

\* A batch in the middle of append_batch only adds to the log.
LEMMA WrittenExtends ==
  ASSUME TopicType, NEW p \in Partitions, NEW w \in Written(p)
  PROVE  /\ w \in Seq(Nat) /\ Len(log[p]) <= Len(w)
         /\ \A i \in 1 .. Len(log[p]) : w[i] = log[p][i]
<1>1. log[p] \in Seq(Nat) /\ faults \in Nat
  BY Zenon DEF TopicType
<1>2. CASE w = log[p]
  BY <1>1, <1>2
<1>3. CASE w # log[p]
  <2>1. PICK k \in UNION {1 .. (size[q] - 1) : q \in {r \in Producers :
                            pc[r] = "append" /\ kind[r] = "batch" /\ part[r] = p}} :
               w = log[p] \o Records(k)
    BY <1>3, Zenon DEF Written
  <2>2. k \in Nat
    BY DEF TopicType
  <2>3. /\ log[p] \o Records(k) \in Seq(Nat)
        /\ Len(log[p] \o Records(k)) = Len(log[p]) + k
        /\ \A i \in 1 .. Len(log[p]) : (log[p] \o Records(k))[i] = log[p][i]
    BY <1>1, <2>2, RecordsAppended, Zenon
  <2> QED BY <1>1, <2>1, <2>2, <2>3
<1> QED BY <1>2, <1>3, Zenon

\* A restart forgets the groups, whatever it finds of the log.
LEMMA RestartStep ==
  ASSUME TopicInv, Restart, log' \in [Partitions -> Seq(Nat)], flushed' \in [Partitions -> Nat],
         faults' \in Nat
  PROVE  TopicInv'
<1> USE DEF TopicInv
<1>1. NoCursor \in [Partitions -> Nat] /\ \A p \in Partitions : NoCursor[p] = 0
  BY Zenon DEF NoCursor
<1>2. TopicType'
  BY <1>1 DEF Restart, TopicType, history
<1>3. \A c \in Consumers : state'[c] = "gone" /\ todo'[c] = <<>> /\ cursor'[c] = NoCursor
  BY Zenon DEF Restart
<1>4. Loops'
  BY <1>3 DEF Loops
<1>5. Cursors'
  <2> SUFFICES ASSUME NEW c \in Consumers, NEW p \in Partitions
               PROVE  cursor'[c][p] = 0 /\ ~Started(c, p)' /\ Len(seen'[c[1]][p]) \in Nat
    BY DEF Cursors
  <2>1. Len(seen'[c[1]][p]) \in Nat
    BY <1>2 DEF TopicType, Consumers
  <2> QED BY <1>1, <1>3, <2>1, Zenon DEF Started
<1>6. CommittedSeen'
  BY Zenon DEF Restart, CommittedSeen
<1> QED BY <1>2, <1>4, <1>5, <1>6, Zenon

\* What a crash leaves of the log.
LEMMA KillEffect ==
  ASSUME TopicType, Kill
  PROVE  /\ log' \in [Partitions -> Seq(Nat)]
         /\ \A p \in Partitions : /\ Len(log[p]) <= Len(log'[p])
                                  /\ \A i \in 1 .. Len(log[p]) : log'[p][i] = log[p][i]
<1>1. /\ log' \in [Partitions -> UNION {Written(p) : p \in Partitions}]
      /\ \A p \in Partitions : log'[p] \in Written(p)
  BY Zenon DEF Kill
<1>2. \A p \in Partitions : /\ log'[p] \in Seq(Nat) /\ Len(log[p]) <= Len(log'[p])
                            /\ \A i \in 1 .. Len(log[p]) : log'[p][i] = log[p][i]
  BY <1>1, WrittenExtends, Zenon
<1> QED BY <1>1, <1>2, Zenon

\* A power loss keeps the flushed prefix of each log and maybe more.
LEMMA PowerLossEffect ==
  ASSUME TopicType, PowerLoss
  PROVE  /\ log' \in [Partitions -> Seq(Nat)] /\ flushed' \in [Partitions -> Nat]
         /\ \A p \in Partitions :
              /\ flushed[p] <= flushed'[p] /\ Len(log'[p]) = flushed'[p]
              /\ \A i \in 1 .. Len(log[p]) : i <= flushed'[p] => log'[p][i] = log[p][i]
<1>1. /\ flushed' \in [Partitions -> 0 .. MaxOffset]
      /\ \A p \in Partitions : flushed'[p] >= flushed[p]
  BY Zenon DEF PowerLoss
<1>2. PICK w \in [Partitions -> UNION {Written(p) : p \in Partitions}] :
        /\ \A p \in Partitions : w[p] \in Written(p) /\ flushed'[p] <= Len(w[p])
        /\ log' = [p \in Partitions |-> SubSeq(w[p], 1, flushed'[p])]
  BY Zenon DEF PowerLoss
<1>3. \A p \in Partitions : /\ w[p] \in Seq(Nat) /\ Len(log[p]) <= Len(w[p])
                            /\ \A i \in 1 .. Len(log[p]) : w[p][i] = log[p][i]
  BY <1>2, WrittenExtends, Zenon
<1>4. \A p \in Partitions : flushed'[p] \in Nat /\ flushed[p] \in Nat /\ log[p] \in Seq(Nat)
  BY <1>1 DEF TopicType
<1>5. ASSUME NEW p \in Partitions
      PROVE  /\ log'[p] \in Seq(Nat) /\ Len(log'[p]) = flushed'[p]
             /\ \A i \in 1 .. flushed'[p] : log'[p][i] = w[p][i]
  <2>1. log'[p] = SubSeq(w[p], 1, flushed'[p])
    BY <1>2, Zenon
  <2>2. w[p] \in Seq(Nat) /\ flushed'[p] \in Nat /\ flushed'[p] <= Len(w[p])
    BY <1>2, <1>3, <1>4, Zenon
  <2> QED BY <2>1, <2>2
<1>6. log' \in [Partitions -> Seq(Nat)]
  BY <1>2, <1>5, Zenon
<1>7. ASSUME NEW p \in Partitions, NEW i \in 1 .. Len(log[p]), i <= flushed'[p]
      PROVE  log'[p][i] = log[p][i]
  <2>1. i \in 1 .. flushed'[p]
    BY <1>4, <1>7
  <2> QED BY <2>1, <1>3, <1>5
<1>8. flushed' \in [Partitions -> Nat]
  BY <1>1
<1> QED BY <1>1, <1>4, <1>5, <1>6, <1>7, <1>8, Zenon

\* A crash keeps the invariant.
LEMMA CrashStep ==
  ASSUME TopicInv, Kill \/ PowerLoss
  PROVE  TopicInv'
<1>1. Restart /\ faults' \in Nat
  BY DEF Kill, PowerLoss, Fault, TopicInv, TopicType
<1>2. log' \in [Partitions -> Seq(Nat)]
  BY KillEffect, PowerLossEffect, Zenon DEF TopicInv
<1>3. flushed' \in [Partitions -> Nat]
  <2>1. CASE Kill
    BY <2>1, Zenon DEF Kill, TopicInv, TopicType
  <2>2. CASE PowerLoss
    BY <2>2, PowerLossEffect, Zenon DEF TopicInv
  <2> QED BY <2>1, <2>2, Zenon
<1> QED BY <1>1, <1>2, <1>3, RestartStep, Zenon

\* Every step keeps the invariant.
LEMMA TopicStep == TopicInv /\ [Next]_vars => TopicInv'
<1> SUFFICES ASSUME TopicInv, [Next]_vars PROVE TopicInv'
  BY Zenon
<1>1. CASE UNCHANGED vars
  <2>1. TopicType'
    BY <1>1, Zenon DEF TopicInv, TopicType, vars, store, producing, consuming, history
  <2> QED BY <1>1, <2>1, GroupsUntouched, Zenon DEF vars
<1>2. ASSUME NEW q \in Producers,
             \/ \E p \in Partitions, n \in 1 .. MaxBatch, k \in Kinds : Publish(q, p, n, k)
             \/ ReadCommitted(q) \/ ReadHighWater(q) \/ Retry(q) \/ GiveUp(q)
             \/ AppendRecords(q) \/ FlushRecord(q)
      PROVE  TopicInv'
  BY <1>2, PublishingStep, AppendStep, Zenon
<1>3. ASSUME NEW c \in Consumers,
             \/ Construct(c) \/ Register(c) \/ Poll(c) \/ PollRecord(c)
             \/ PollNext(c) \/ Commit(c) \/ CommitOffset(c) \/ Stop(c)
      PROVE  TopicInv'
  BY <1>3, ConstructStep, RegisterStep, PollStep, PollRecordStep, PollNextStep, CommitStep,
     CommitOffsetStep, StopStep, Zenon, Zenon
<1> QED BY <1>1, <1>2, <1>3, UserFlushStep, CrashStep, Zenon DEF Next

\* The offsets of the groups registered for p are numbers.
LEMMA RegisteredType ==
  ASSUME TopicInv, NEW p \in Partitions
  PROVE  /\ Len(log[p]) \in Nat /\ joined[p] \in Nat
         /\ \A g \in Registered(p) : committed[g][p] \in Nat
<1>1. /\ log[p] \in Seq(Nat) /\ joined[p] \in Nat
      /\ \A g \in Groups : committed[g][p] \in Nat \cup {Unset}
  BY DEF TopicInv, TopicType
<1> QED BY <1>1 DEF Registered

\* The invariant holds in every reachable state.
LEMMA TopicInvariance == Spec => []TopicInv
BY InitInv, TopicStep, PTL DEF Spec

-----------------------------------------------------------------------------
\* OffsetStore::commit and Consumer::poll are at-least-once: whatever a group has
\* committed was returned to its consumers, however they interleave and are
\* stopped, and whatever a crash does to the log.
THEOREM CommitsOnlyWhatWasDelivered == Spec => []CommittedSeen
<1>1. TopicInv => CommittedSeen
  BY Zenon DEF TopicInv
<1> QED BY <1>1, TopicInvariance, PTL

\* Consumers and the OffsetStore never move a group back: registering again keeps
\* the committed offset, and a consumer commits no less than it started from.
THEOREM CommitsNeverGoBack == Spec => CommitsAdvance
<1> DEFINE A == \A g \in Groups, p \in Partitions :
                  committed[g][p] # Unset /\ committed'[g][p] # Unset =>
                    committed'[g][p] >= committed[g][p]
<1>1. TopicInv /\ [Next]_vars => [A]_vars
  <2> SUFFICES ASSUME TopicInv, Next, NEW g \in Groups, NEW p \in Partitions,
                      committed[g][p] # Unset, committed'[g][p] # Unset
               PROVE  committed'[g][p] >= committed[g][p]
    BY Zenon
  <2>1. committed[g][p] \in Nat
    BY DEF TopicInv, TopicType
  <2>2. ASSUME committed'[g][p] = committed[g][p]
        PROVE  committed'[g][p] >= committed[g][p]
    BY <2>1, <2>2
  <2>3. ASSUME NEW c \in Consumers, Register(c)
        PROVE  committed'[g][p] = committed[g][p]
    <3>1. committed' = [committed EXCEPT ![c[1]][Head(todo[c])] =
                          IF committed[c[1]][Head(todo[c])] = Unset
                          THEN 0 ELSE committed[c[1]][Head(todo[c])]]
      BY <2>3, Zenon DEF Register
    <3> QED BY <3>1, ZenonT(60) DEF TopicInv, TopicType
  <2>4. ASSUME NEW c \in Consumers, CommitOffset(c)
        PROVE  committed'[g][p] >= committed[g][p]
    BY <2>4, CommitOffsetStep, Zenon
  <2>5. ASSUME Kill \/ PowerLoss
        PROVE  FALSE
    BY <2>5 DEF Kill, PowerLoss, Restart
  <2>6. ASSUME ~\E c \in Consumers : Register(c) \/ CommitOffset(c), ~(Kill \/ PowerLoss)
        PROVE  committed' = committed
    BY <2>6, ZenonT(60) DEF Next, Publish, ReadCommitted, ReadHighWater, Retry, GiveUp, AppendRecords,
                FlushRecord, UserFlush, Construct, Poll, PollRecord, PollNext, Commit, Stop
  <2> QED BY <2>2, <2>3, <2>4, <2>5, <2>6, Zenon
<1>2. Spec => [][Next]_vars
  BY Zenon DEF Spec
<1> QED BY <1>1, <1>2, TopicInvariance, PTL DEF CommitsAdvance

\* A cursor that moves by one in a poll does so in PollRecord.
LEMMA OnlyPollAdvances ==
  ASSUME TopicInv, Next, NEW c \in Consumers, NEW p \in Partitions,
         state[c] = "polling", cursor'[c][p] = cursor[c][p] + 1
  PROVE  p \in Assigned(c)
<1>1. cursor[c][p] \in Nat /\ cursor \in [Consumers -> [Partitions -> Nat]]
  BY DEF TopicInv, TopicType
<1>2. ASSUME NEW d \in Consumers, Register(d)
      PROVE  cursor'[c] = cursor[c]
  <2>1. d # c
    BY <1>2, Zenon DEF Register
  <2>2. \E o : cursor' = [cursor EXCEPT ![d][Head(todo[d])] = o]
    BY <1>2, Zenon DEF Register
  <2> QED BY <2>1, <2>2, <1>1, Zenon
<1>3. ASSUME NEW d \in Consumers, Stop(d)
      PROVE  cursor'[c] = cursor[c] \/ cursor'[c][p] = 0
  <2>1. cursor' = [cursor EXCEPT ![d] = NoCursor]
    BY <1>3, Zenon DEF Stop
  <2> QED BY <2>1, <1>1, Zenon DEF NoCursor
<1>4. ASSUME Kill \/ PowerLoss
      PROVE  cursor'[c][p] = 0
  BY <1>4 DEF Kill, PowerLoss, Restart, NoCursor
<1>5. ASSUME NEW d \in Consumers, PollRecord(d)
      PROVE  p \in Assigned(c)
  <2>1. /\ state[d] = "polling"
        /\ cursor' = [cursor EXCEPT ![d][Head(todo[d])] = cursor[d][Head(todo[d])] + 1]
    BY <1>5, Zenon DEF PollRecord
  <2>2. d = c /\ Head(todo[d]) = p
    BY <2>1, <1>1
  <2>3. todo[c] \in Seq(Partitions) /\ todo[c] # <<>>
    BY Zenon DEF TopicInv, TopicType, Loops
  <2>4. Head(todo[c]) = todo[c][1] /\ 1 \in DOMAIN todo[c]
    BY <2>3, TailEffect, Zenon
  <2> QED BY <2>2, <2>4 DEF TopicInv, Loops
<1>6. ASSUME ~\E d \in Consumers : Register(d) \/ Stop(d) \/ PollRecord(d), ~(Kill \/ PowerLoss)
      PROVE  cursor' = cursor
  BY <1>6, ZenonT(60) DEF Next, Publish, ReadCommitted, ReadHighWater, Retry, GiveUp, AppendRecords,
              FlushRecord, UserFlush, Construct, Poll, PollNext, Commit, CommitOffset, consuming
<1>7. cursor'[c] # cursor[c] /\ cursor'[c][p] # 0
  BY <1>1
<1> QED BY <1>2, <1>3, <1>4, <1>5, <1>6, <1>7, Zenon

\* "No double delivery within a group": partitions are dealt so that a record
\* given to one consumer of a group is given to no other one.
THEOREM GroupsShareNoRecord == Spec => NoDoubleDelivery
<1> DEFINE A == \A c \in Consumers, p \in Partitions :
                  cursor'[c][p] = cursor[c][p] + 1 /\ state[c] = "polling" =>
                    \A d \in Consumers : c[1] = d[1] /\ cursor[d][p] > cursor[c][p] => d = c
<1>1. TopicInv /\ [Next]_vars => [A]_vars
  <2> SUFFICES ASSUME TopicInv, Next, NEW c \in Consumers, NEW p \in Partitions,
                      cursor'[c][p] = cursor[c][p] + 1, state[c] = "polling",
                      NEW d \in Consumers, c[1] = d[1], cursor[d][p] > cursor[c][p]
               PROVE  d = c
    BY Zenon
  <2>1. p \in Assigned(c)
    BY OnlyPollAdvances, Zenon
  <2>2. cursor[c][p] \in Nat /\ cursor[d][p] \in Nat
    BY DEF TopicInv, TopicType
  <2>3. p \in Assigned(d)
    BY <2>2 DEF TopicInv, Cursors
  <2> QED BY <2>1, <2>3, OneOwner, Zenon
<1>2. Spec => [][Next]_vars
  BY Zenon DEF Spec
<1> QED BY <1>1, <1>2, TopicInvariance, PTL DEF NoDoubleDelivery

(***************************************************************************)
(* Reads are stable                                                        *)
(***************************************************************************)

\* A log that only grows at its end keeps what was read from it.
LEMMA GrowingKeepsReads ==
  ASSUME TopicType, TopicType', StableReads, seen' = seen,
         \A p \in Partitions : /\ Len(log[p]) <= Len(log'[p])
                               /\ \A i \in 1 .. Len(log[p]) : log'[p][i] = log[p][i]
  PROVE  StableReads'
<1> SUFFICES ASSUME NEW g \in Groups, NEW p \in Partitions
             PROVE  /\ Len(seen[g][p]) <= Len(log'[p])
                    /\ \A i \in DOMAIN seen[g][p] : seen[g][p][i] = log'[p][i]
  BY ZenonT(60) DEF StableReads
<1>1. seen[g][p] \in Seq(Nat) /\ log[p] \in Seq(Nat) /\ log'[p] \in Seq(Nat)
  BY DEF TopicType
<1>2. Len(seen[g][p]) <= Len(log[p]) /\ \A i \in DOMAIN seen[g][p] : seen[g][p][i] = log[p][i]
  BY Zenon DEF StableReads
<1>3. Len(log[p]) <= Len(log'[p]) /\ \A i \in 1 .. Len(log[p]) : log'[p][i] = log[p][i]
  BY Zenon
<1>4. \A i \in DOMAIN seen[g][p] : i \in 1 .. Len(log[p])
  BY <1>1, <1>2
<1>5. Len(seen[g][p]) <= Len(log'[p])
  BY <1>1, <1>2, <1>3
<1> QED BY <1>2, <1>3, <1>4, <1>5, Zenon

\* What a poll delivers first for an offset is what the log holds there.
LEMMA PollKeepsReads ==
  ASSUME TopicInv, StableReads, NEW c \in Consumers, PollRecord(c)
  PROVE  StableReads'
<1> DEFINE p == Head(todo[c])
           g == c[1]
           o == cursor[c][p]
<1>1. /\ state[c] = "polling" /\ o < Len(log[p]) /\ log' = log
      /\ seen' = IF o = Len(seen[g][p])
                 THEN [seen EXCEPT ![g][p] = Append(@, log[p][o + 1])] ELSE seen
  BY Zenon DEF PollRecord, store
<1>2. todo[c] \in Seq(Partitions) /\ todo[c] # <<>>
  BY <1>1, Zenon DEF TopicInv, TopicType, Loops
<1>3. p \in Partitions /\ g \in Groups
  BY <1>2, TailEffect, Zenon DEF Consumers
<1>4. /\ log[p] \in Seq(Nat) /\ seen[g][p] \in Seq(Nat) /\ o \in Nat
      /\ seen \in [Groups -> [Partitions -> Seq(Nat)]]
  BY <1>3 DEF TopicInv, TopicType
<1> HIDE DEF p, g, o
<1>5. CASE o # Len(seen[g][p])
  <2>1. seen' = seen
    BY <1>1, <1>5, Zenon
  <2> QED BY <1>1, <2>1 DEF StableReads
<1>6. CASE o = Len(seen[g][p])
  <2>1. o < Len(log[p])
    BY <1>1, Zenon
  <2>2. o + 1 \in 1 .. Len(log[p])
    BY <1>4, <2>1
  <2>3. log[p][o + 1] \in Nat
    BY <1>4, <2>2
  <2>4. /\ Append(seen[g][p], log[p][o + 1]) \in Seq(Nat)
        /\ Len(Append(seen[g][p], log[p][o + 1])) = Len(seen[g][p]) + 1
        /\ \A i \in 1 .. Len(seen[g][p]) : Append(seen[g][p], log[p][o + 1])[i] = seen[g][p][i]
        /\ Append(seen[g][p], log[p][o + 1])[Len(seen[g][p]) + 1] = log[p][o + 1]
    BY <1>4, <2>3
  <2>5. seen' = [seen EXCEPT ![g][p] = Append(seen[g][p], log[p][o + 1])]
    BY <1>1, <1>6, Zenon
  <2>6. /\ seen'[g][p] = Append(seen[g][p], log[p][o + 1])
        /\ \A h \in Groups, r \in Partitions : h # g \/ r # p => seen'[h][r] = seen[h][r]
    BY <2>4, <2>5, <1>3, <1>4, EntrySet
  <2> SUFFICES ASSUME NEW h \in Groups, NEW r \in Partitions
               PROVE  /\ Len(seen'[h][r]) <= Len(log[r])
                      /\ \A i \in DOMAIN seen'[h][r] : seen'[h][r][i] = log[r][i]
    BY <1>1 DEF StableReads
  <2>7. CASE h # g \/ r # p
    BY <2>6, <2>7 DEF StableReads
  <2>8. CASE h = g /\ r = p
    <3>1. Len(seen'[g][p]) = Len(seen[g][p]) + 1 /\ DOMAIN seen'[g][p] = 1 .. (Len(seen[g][p]) + 1)
      BY <2>4, <2>6
    <3>2. \A i \in 1 .. Len(seen[g][p]) : seen[g][p][i] = log[p][i]
      BY <1>3, <1>4 DEF StableReads
    <3>3. ASSUME NEW i \in DOMAIN seen'[g][p] PROVE seen'[g][p][i] = log[p][i]
      <4>1. i \in 1 .. Len(seen[g][p]) \/ i = Len(seen[g][p]) + 1
        BY <3>1, <1>4
      <4> QED BY <4>1, <3>2, <2>4, <2>6, <1>6, Zenon
    <3>4. Len(seen'[g][p]) <= Len(log[p])
      BY <3>1, <2>2, <1>6, <1>4
    <3> QED BY <2>8, <3>3, <3>4, Zenon
  <2> QED BY <2>7, <2>8, Zenon
<1> QED BY <1>5, <1>6, Zenon

\* Every step keeps the reads stable.
LEMMA ReadsStep == DurableReads /\ TopicInv /\ TopicInv' /\ ReadsInv /\ [Next]_vars => ReadsInv'
<1> SUFFICES ASSUME DurableReads, TopicInv, TopicInv', ReadsInv, [Next]_vars PROVE ReadsInv'
  BY Zenon
<1> DEFINE Risk == "power" \in Faults /\ faults < MaxFaults
           Low == \A p \in Partitions : flushed[p] <= Len(log[p])
           All == \A p \in Partitions : flushed[p] = Len(log[p])
           Batches == \A q \in Producers : pc[q] # "idle" => kind[q] = "batch"
<1>1. TopicType /\ TopicType' /\ StableReads /\ Low /\ (Risk => All /\ Batches)
  BY Zenon DEF TopicInv, ReadsInv
<1>2. \A p \in Partitions : Len(log[p]) \in Nat /\ flushed[p] \in Nat
  BY <1>1 DEF TopicType
<1>3. ASSUME StableReads', Low', Risk' => All' /\ Batches' PROVE ReadsInv'
  BY <1>3, Zenon DEF ReadsInv
<1> HIDE DEF Risk, Low, All, Batches
\* What most steps do: the log, its flushed part and the reads stay.
<1>4. ASSUME UNCHANGED <<log, flushed, seen, faults>>, Batches => Batches' PROVE ReadsInv'
  <2>1. StableReads' /\ Low' /\ (All => All') /\ (Risk' => Risk)
    BY <1>1, <1>4, ZenonT(60) DEF StableReads, Low, All, Risk
  <2> QED BY <1>1, <1>3, <1>4, <2>1, Zenon
<1>5. CASE UNCHANGED vars
  BY <1>4, <1>5, Zenon DEF vars, store, history, producing, Batches
<1>6. ASSUME NEW q \in Producers, NEW p \in Partitions, NEW n \in 1 .. MaxBatch, NEW k \in Kinds,
             Publish(q, p, n, k)
      PROVE  ReadsInv'
  <2>1. UNCHANGED <<log, flushed, seen, faults>>
    BY <1>6, Zenon DEF Publish, store, history
  <2>2. CASE k = "batch"
    <3>1. \A r \in Producers : pc'[r] # "idle" /\ r # q => pc[r] # "idle" /\ kind'[r] = kind[r]
      BY <1>1, <1>6 DEF Publish, Goto, TopicType
    <3>2. kind'[q] = "batch"
      BY <1>1, <1>6, <2>2 DEF Publish, TopicType
    <3> QED BY <2>1, <3>1, <3>2, <1>4, Zenon DEF Batches
  <2>3. CASE k # "batch"
    <3>1. ~Risk'
      BY <2>1, <2>3, Zenon DEF DurableReads, Risk
    <3>2. StableReads' /\ Low'
      BY <1>1, <2>1 DEF StableReads, Low
    <3> QED BY <3>1, <3>2, <1>3, Zenon
  <2> QED BY <2>2, <2>3, Zenon
<1>7. ASSUME NEW q \in Producers, ReadCommitted(q) \/ ReadHighWater(q) \/ Retry(q) \/ GiveUp(q)
      PROVE  ReadsInv'
  <2>1. UNCHANGED <<log, flushed, seen, faults, kind>>
    BY <1>7, Zenon DEF ReadCommitted, ReadHighWater, Retry, GiveUp, store, history
  <2>2. pc[q] # "idle" /\ \E l : pc' = [pc EXCEPT ![q] = l]
    BY <1>7, Zenon DEF ReadCommitted, ReadHighWater, Retry, GiveUp, Goto
  <2>3. \A r \in Producers : pc'[r] # "idle" => pc[r] # "idle"
    BY <1>1, <2>2, Zenon DEF TopicType
  <2> QED BY <2>1, <2>3, <1>4, Zenon DEF Batches
<1>8. ASSUME NEW q \in Producers, AppendRecords(q)
      PROVE  ReadsInv'
  <2>1. /\ pc[q] = "append" /\ seen' = seen /\ faults' = faults /\ kind' = kind
        /\ \E l : pc' = [pc EXCEPT ![q] = l]
    BY <1>8, Zenon DEF AppendRecords, Goto, history
  <2>2. part[q] \in Partitions /\ size[q] \in Nat
    BY <1>1 DEF TopicType
  <2>3. /\ Len(log'[part[q]]) = Len(log[part[q]]) + size[q]
        /\ \A i \in 1 .. Len(log[part[q]]) : log'[part[q]][i] = log[part[q]][i]
        /\ \A p \in Partitions : p # part[q] => log'[p] = log[p] /\ flushed'[p] = flushed[p]
        /\ flushed'[part[q]] \in {flushed[part[q]], Len(log'[part[q]])}
        /\ PerMessage /\ kind[q] = "batch" => flushed'[part[q]] = Len(log'[part[q]])
    BY <1>1, <1>8, AppendEffect, Zenon
  <2>4. \A p \in Partitions : /\ Len(log[p]) <= Len(log'[p])
                              /\ \A i \in 1 .. Len(log[p]) : log'[p][i] = log[p][i]
    <3> SUFFICES ASSUME NEW p \in Partitions
                 PROVE  /\ Len(log[p]) <= Len(log'[p])
                        /\ \A i \in 1 .. Len(log[p]) : log'[p][i] = log[p][i]
      BY Zenon
    <3>1. CASE p # part[q]
      <4>1. log'[p] = log[p] /\ Len(log[p]) \in Nat
        BY <3>1, <1>2, <2>3, Zenon
      <4> QED BY <4>1
    <3>2. CASE p = part[q]
      <4>1. Len(log[p]) <= Len(log'[p])
        BY <3>2, <1>2, <2>2, <2>3
      <4> QED BY <3>2, <4>1, <2>3, Zenon
    <3> QED BY <3>1, <3>2, Zenon
  <2>5. StableReads'
    BY <1>1, <2>1, <2>4, GrowingKeepsReads, Zenon
  <2>6. Low'
    BY <1>1, <1>2, <2>2, <2>3 DEF Low
  <2>7. ASSUME Risk' PROVE All' /\ Batches'
    <3>1. Risk /\ PerMessage /\ kind[q] = "batch"
      BY <1>1, <2>1, <2>7, Zenon DEF Risk, DurableReads, Batches
    <3>2. All'
      BY <1>1, <2>2, <2>3, <3>1, Zenon DEF All
    <3>3. Batches'
      BY <1>1, <2>1, <3>1, Zenon DEF Batches, TopicType
    <3> QED BY <3>2, <3>3, Zenon
  <2> QED BY <1>3, <2>5, <2>6, <2>7, Zenon
<1>9. ASSUME NEW p \in Partitions, log' = log, flushed' = [flushed EXCEPT ![p] = Len(log[p])],
             seen' = seen, faults' = faults, Batches => Batches'
      PROVE  ReadsInv'
  <2>1. /\ flushed'[p] = Len(log[p])
        /\ \A r \in Partitions : r # p => flushed'[r] = flushed[r]
    BY <1>1, <1>9 DEF TopicType
  <2>2. StableReads'
    BY <1>1, <1>9 DEF StableReads
  <2>3. Low' /\ (All => All') /\ (Risk' => Risk)
    BY <1>1, <1>2, <1>9, <2>1 DEF Low, All, Risk
  <2> QED BY <1>1, <1>3, <1>9, <2>2, <2>3, Zenon
<1>10. ASSUME NEW q \in Producers, FlushRecord(q)
       PROVE  ReadsInv'
  <2>1. /\ part[q] \in Partitions /\ log' = log /\ seen' = seen /\ faults' = faults
        /\ flushed' = [flushed EXCEPT ![part[q]] = Len(log[part[q]])]
    BY <1>1, <1>10, Zenon DEF FlushRecord, history, TopicType
  <2>2. Batches => Batches'
    BY <1>1, <1>10, Zenon DEF FlushRecord, Goto, Batches, TopicType
  <2> QED BY <1>9, <2>1, <2>2, Zenon
<1>11. ASSUME NEW p \in Partitions, UserFlush(p)
       PROVE  ReadsInv'
  BY <1>9, <1>11, Zenon DEF UserFlush, producing, history, Batches
<1>12. ASSUME NEW c \in Consumers, Construct(c) \/ Register(c) \/ Poll(c) \/ PollNext(c) \/ Commit(c)
                                   \/ CommitOffset(c)
       PROVE  ReadsInv'
  <2>1. UNCHANGED <<log, flushed, seen, faults, pc, kind>>
    BY <1>12, Zenon DEF Construct, Register, Poll, PollNext, Commit, CommitOffset, store, producing, history
  <2> QED BY <1>4, <2>1, Zenon DEF Batches
<1>13. ASSUME NEW c \in Consumers, Stop(c)
       PROVE  ReadsInv'
  <2>1. UNCHANGED <<log, flushed, seen, pc, kind>> /\ faults' = faults + 1 /\ faults \in Nat
    BY <1>1, <1>13, Zenon DEF Stop, Fault, store, producing, history, TopicType
  <2>2. Risk' => Risk
    BY <2>1 DEF Risk
  <2>3. StableReads' /\ Low' /\ (All => All') /\ (Batches => Batches')
    BY <1>1, <2>1 DEF StableReads, Low, All, Batches
  <2> QED BY <1>1, <1>3, <2>2, <2>3, Zenon
<1>14. ASSUME NEW c \in Consumers, PollRecord(c)
       PROVE  ReadsInv'
  <2>1. StableReads'
    BY <1>1, <1>14, PollKeepsReads, Zenon
  <2>2. UNCHANGED <<log, flushed, faults, pc, kind>>
    BY <1>14, Zenon DEF PollRecord, store, producing
  <2>3. Low' /\ (All => All') /\ (Batches => Batches') /\ (Risk' => Risk)
    BY <1>1, <2>2, Zenon DEF Low, All, Batches, Risk
  <2> QED BY <1>1, <1>3, <2>1, <2>3, Zenon
<1>15. ASSUME Kill
       PROVE  ReadsInv'
  <2>1. /\ seen' = seen /\ flushed' = flushed /\ faults' = faults + 1 /\ faults \in Nat /\ "kill" \in Faults
    BY <1>1, <1>15, Zenon DEF Kill, Restart, Fault, history, TopicType
  <2>2. \A p \in Partitions : /\ Len(log[p]) <= Len(log'[p])
                              /\ \A i \in 1 .. Len(log[p]) : log'[p][i] = log[p][i]
    BY <1>1, <1>15, KillEffect, Zenon
  <2>3. StableReads'
    BY <1>1, <2>1, <2>2, GrowingKeepsReads, Zenon
  <2>4. \A p \in Partitions : Len(log'[p]) \in Nat
    BY <1>1 DEF TopicType
  <2>5. Low'
    BY <1>1, <1>2, <2>1, <2>2, <2>4 DEF Low
  <2>6. ~Risk'
    BY <2>1 DEF Risk, DurableReads
  <2> QED BY <1>3, <2>3, <2>5, <2>6, Zenon
<1>16. ASSUME PowerLoss
       PROVE  ReadsInv'
  <2>1. seen' = seen /\ Risk /\ \A q \in Producers : pc'[q] = "idle"
    BY <1>16, Zenon DEF PowerLoss, Restart, Fault, history, Risk
  <2>2. \A p \in Partitions :
          /\ flushed[p] <= flushed'[p] /\ Len(log'[p]) = flushed'[p] /\ flushed'[p] \in Nat
          /\ \A i \in 1 .. Len(log[p]) : i <= flushed'[p] => log'[p][i] = log[p][i]
    BY <1>1, <1>16, PowerLossEffect, Zenon
  <2>3. \A p \in Partitions : flushed[p] = Len(log[p])
    BY <1>1, <2>1, Zenon DEF All
  <2>4. \A p \in Partitions : /\ Len(log[p]) <= Len(log'[p])
                              /\ \A i \in 1 .. Len(log[p]) : log'[p][i] = log[p][i]
    BY <1>2, <2>2, <2>3
  <2>5. StableReads'
    BY <1>1, <2>1, <2>4, GrowingKeepsReads, Zenon
  <2>6. Low' /\ All' /\ Batches'
    BY <2>1, <2>2 DEF Low, All, Batches
  <2> QED BY <1>3, <2>5, <2>6, Zenon
<1> QED BY <1>5, <1>6, <1>7, <1>8, <1>10, <1>11, <1>12, <1>13, <1>14, <1>15, <1>16, Zenon DEF Next

\* What Consumer::poll returned for an offset is what the log holds there from
\* then on, crashes included: Log::append_batch flushes a batch before a reader
\* can see it.  (A single publish shows its record before it is flushed, and a
\* partly written batch survives a kill unflushed: a later power loss may then
\* replace what was read, which is what DurableReads leaves out.)
THEOREM ReadsAreStable ==
  ASSUME DurableReads
  PROVE  Spec => []StableReads
<1>1. Init => ReadsInv
  BY DEF Init, ReadsInv, StableReads
<1>2. TopicInv /\ TopicInv' /\ ReadsInv /\ [Next]_vars => ReadsInv'
  BY ReadsStep, Zenon
<1>3. ReadsInv => StableReads
  BY Zenon DEF ReadsInv
<1> QED BY <1>1, <1>2, <1>3, TopicInvariance, PTL DEF Spec

(***************************************************************************)
(* Backpressure bounds the lag                                             *)
(***************************************************************************)

\* More producers, more batches.
LEMMA Scaled ==
  ASSUME NEW a \in Nat, NEW b \in Nat, a <= b
  PROVE  a * MaxBatch \in Nat /\ b * MaxBatch \in Nat /\ a * MaxBatch <= b * MaxBatch
OBVIOUS

\* The room that any set of admitted producers leaves.
LEMMA RoomOf ==
  ASSUME NEW S \in SUBSET Producers
  PROVE  /\ Cardinality(Producers) \in Nat /\ IsFiniteSet(S)
         /\ Cardinality(S) \in Nat /\ Cardinality(S) <= Cardinality(Producers)
         /\ (Cardinality(Producers) - Cardinality(S)) * MaxBatch \in Nat
         /\ (Cardinality(Producers) - Cardinality(S)) * MaxBatch <= Cardinality(Producers) * MaxBatch
<1>1. /\ Cardinality(Producers) \in Nat /\ IsFiniteSet(S)
      /\ Cardinality(S) \in Nat /\ Cardinality(S) <= Cardinality(Producers)
  BY FS_Subset, FS_CardinalityType, Zenon
<1>2. /\ Cardinality(Producers) - Cardinality(S) \in Nat
      /\ Cardinality(Producers) - Cardinality(S) <= Cardinality(Producers)
  BY <1>1
<1> QED BY <1>1, <1>2, Scaled, Zenon

\* The room is never more than a batch of every producer.
LEMMA RoomBounds ==
  ASSUME NEW p \in Partitions
  PROVE  /\ Cardinality(Producers) \in Nat /\ IsFiniteSet(Admitted(p))
         /\ Cardinality(Admitted(p)) \in Nat
         /\ Cardinality(Admitted(p)) <= Cardinality(Producers)
         /\ Room(p) \in Nat /\ Room(p)' \in Nat
         /\ Room(p) <= Cardinality(Producers) * MaxBatch
<1>1. Admitted(p) \in SUBSET Producers /\ Admitted(p)' \in SUBSET Producers
  BY Zenon DEF Admitted
<1>2. /\ Room(p) = (Cardinality(Producers) - Cardinality(Admitted(p))) * MaxBatch
      /\ Room(p)' = (Cardinality(Producers) - Cardinality(Admitted(p)')) * MaxBatch
  BY Zenon DEF Room
<1> QED BY <1>1, <1>2, RoomOf, Zenon

\* The fewer are admitted, the more room is left.
LEMMA RoomGrows ==
  ASSUME NEW p \in Partitions, Admitted(p)' \subseteq Admitted(p)
  PROVE  Room(p) \in Nat /\ Room(p)' \in Nat /\ Room(p) <= Room(p)'
<1> DEFINE n == Cardinality(Producers)
           a == Cardinality(Admitted(p))
           b == Cardinality(Admitted(p)')
<1>1. n \in Nat /\ IsFiniteSet(Admitted(p)) /\ a \in Nat /\ a <= n
  BY RoomBounds, Zenon
<1>2. b \in Nat /\ b <= a
  BY <1>1, FS_Subset, FS_CardinalityType, Zenon
<1>3. Room(p) = (n - a) * MaxBatch /\ Room(p)' = (n - b) * MaxBatch
  BY Zenon DEF Room
<1> HIDE DEF n, a, b
<1>4. n - a \in Nat /\ n - b \in Nat /\ n - a <= n - b
  BY <1>1, <1>2
<1> QED BY <1>3, <1>4, Scaled, Zenon

\* One that was admitted and appends leaves room for a batch.
LEMMA RoomFreed ==
  ASSUME NEW p \in Partitions, NEW q \in Admitted(p), Admitted(p)' \subseteq Admitted(p) \ {q}
  PROVE  Room(p) \in Nat /\ Room(p)' \in Nat /\ Room(p) + MaxBatch <= Room(p)'
<1> DEFINE n == Cardinality(Producers)
           a == Cardinality(Admitted(p))
           b == Cardinality(Admitted(p)')
<1>1. n \in Nat /\ IsFiniteSet(Admitted(p)) /\ a \in Nat /\ a <= n
  BY RoomBounds, Zenon
<1>2. IsFiniteSet(Admitted(p) \ {q}) /\ Cardinality(Admitted(p) \ {q}) = a - 1
  BY <1>1, FS_RemoveElement, Zenon
<1>3. b \in Nat /\ b <= a - 1
  BY <1>2, FS_Subset, FS_CardinalityType
<1>4. Room(p) = (n - a) * MaxBatch /\ Room(p)' = (n - b) * MaxBatch
  BY Zenon DEF Room
<1> HIDE DEF n, a, b
<1>5. n - a \in Nat /\ (n - a) + 1 \in Nat /\ n - b \in Nat /\ (n - a) + 1 <= n - b
  BY <1>1, <1>3
<1>6. /\ ((n - a) + 1) * MaxBatch <= (n - b) * MaxBatch
      /\ (n - a) * MaxBatch \in Nat /\ (n - b) * MaxBatch \in Nat
  BY <1>5, Scaled
<1>7. ((n - a) + 1) * MaxBatch = (n - a) * MaxBatch + MaxBatch
  BY <1>5
<1> QED BY <1>4, <1>6, <1>7, Zenon

\* A step that admits nobody and appends nothing to p, and only raises offsets.
LEMMA LagKept ==
  ASSUME TopicType, TopicType', NEW p \in Partitions, LagAt(p),
         Admitted(p)' \subseteq Admitted(p), log'[p] = log[p], joined'[p] = joined[p],
         Registered(p)' = Registered(p),
         \A g \in Registered(p) : committed'[g][p] >= committed[g][p]
  PROVE  LagAt(p)'
<1>1. Room(p) \in Nat /\ Room(p)' \in Nat /\ Room(p) <= Room(p)'
  BY RoomGrows, Zenon
<1>2. /\ Len(log[p]) \in Nat /\ joined[p] \in Nat
      /\ \A g \in Registered(p) : committed[g][p] \in Nat /\ committed'[g][p] \in Nat
  BY DEF TopicType, Registered
<1> SUFFICES ASSUME Registered(p) # {}
             PROVE  \/ \A g \in Registered(p) : Len(log[p]) - committed'[g][p] <= MaxLag - 1 + Room(p)'
                    \/ Len(log[p]) - joined[p] <= Room(p)'
  BY Zenon DEF LagAt
<1>3. \/ \A g \in Registered(p) : Len(log[p]) - committed[g][p] <= MaxLag - 1 + Room(p)
      \/ Len(log[p]) - joined[p] <= Room(p)
  BY Zenon DEF LagAt
<1> QED BY <1>1, <1>2, <1>3

\* The same when the groups are left alone.
LEMMA LagSame ==
  ASSUME TopicType, TopicType', NEW p \in Partitions, LagAt(p),
         Admitted(p)' \subseteq Admitted(p), log'[p] = log[p], joined' = joined,
         committed' = committed
  PROVE  LagAt(p)'
<1>1. Registered(p)' = Registered(p)
  BY Zenon DEF Registered
<1>2. \A g \in Registered(p) : committed'[g][p] >= committed[g][p]
  BY DEF Registered, TopicType
<1> QED BY <1>1, <1>2, LagKept, Zenon

\* Who is admitted after a step of q that changes nothing but q's own state.
LEMMA OnlyOneMoves ==
  ASSUME TopicType, NEW p \in Partitions, NEW q \in Producers, committed' = committed,
         \A r \in Producers : r # q => pc'[r] = pc[r] /\ part'[r] = part[r] /\ low'[r] = low[r],
         q \in Admitted(p)' => q \in Admitted(p)
  PROVE  Admitted(p)' \subseteq Admitted(p)
BY Zenon DEF Admitted, Registered

\* A commit admits nobody and only lowers the lag.
LEMMA CommitLag ==
  ASSUME TopicInv, TopicInv', NEW p \in Partitions, LagAt(p), NEW c \in Consumers, CommitOffset(c)
  PROVE  LagAt(p)'
<1>1. \A g \in Groups : /\ committed'[g][p] = Unset <=> committed[g][p] = Unset
                        /\ committed[g][p] # Unset => committed'[g][p] >= committed[g][p]
  BY CommitOffsetStep, Zenon
<1>2. UNCHANGED <<log, joined, pc, part, low>>
  BY Zenon DEF CommitOffset, store, producing, history
<1>3. Registered(p)' = Registered(p)
  BY <1>1, Zenon DEF Registered
<1>4. \A g \in Registered(p) : /\ committed'[g][p] >= committed[g][p]
                               /\ committed[g][p] \in Nat /\ committed'[g][p] \in Nat
  BY <1>1 DEF Registered, TopicInv, TopicType
<1>5. \A q \in Producers : low[q] \in Nat
  BY Zenon DEF TopicInv, TopicType
<1>6. Admitted(p)' \subseteq Admitted(p)
  <2> SUFFICES ASSUME NEW q \in Producers, q \in Admitted(p)' PROVE q \in Admitted(p)
    BY Zenon DEF Admitted
  <2>1. \/ pc[q] = "append"
        \/ pc[q] = "hwm" /\ \E g \in Registered(p) : committed'[g][p] < low[q]
    BY <1>2, <1>3, Zenon DEF Admitted
  <2>2. ASSUME NEW g \in Registered(p), committed'[g][p] < low[q]
        PROVE  committed[g][p] < low[q]
    BY <2>2, <1>4, <1>5
  <2> QED BY <2>1, <2>2, <1>2, Zenon DEF Admitted
<1> QED BY <1>2, <1>3, <1>4, <1>6, LagKept, Zenon DEF TopicInv

\* A group that registers brings the log within the limit by where it joined.
LEMMA RegisterLag ==
  ASSUME TopicInv, TopicInv', NEW p \in Partitions, LagAt(p), NEW c \in Consumers, Register(c)
  PROVE  LagAt(p)'
<1>1. UNCHANGED <<log, pc, part, low>> /\ joined' = [joined EXCEPT ![Head(todo[c])] = Len(log[Head(todo[c])])]
  BY Zenon DEF Register, store, producing
<1>2. CASE Head(todo[c]) = p
  <2>1. joined'[p] = Len(log[p]) /\ Len(log[p]) \in Nat
    BY <1>1, <1>2, Zenon DEF TopicInv, TopicType
  <2>2. Room(p)' \in Nat
    BY RoomBounds, Zenon
  <2>3. Len(log'[p]) - joined'[p] <= Room(p)'
    BY <1>1, <2>1, <2>2
  <2> QED BY <2>3, Zenon DEF LagAt
<1>3. CASE Head(todo[c]) # p
  <2>1. joined'[p] = joined[p]
    BY <1>1, <1>3 DEF TopicInv, TopicType
  <2>2. PICK o : committed' = [committed EXCEPT ![c[1]][Head(todo[c])] = o]
    BY Zenon DEF Register
  <2>2a. committed \in [Groups -> [Partitions -> Nat \cup {Unset}]]
    BY Zenon DEF TopicInv, TopicType
  <2>3. \A g \in Groups : committed'[g][p] = committed[g][p]
    BY <2>2, <2>2a, <1>3, Zenon
  <2>4. Registered(p)' = Registered(p)
    BY <2>3, Zenon DEF Registered
  <2>5. Admitted(p)' \subseteq Admitted(p)
    BY <1>1, <2>3, <2>4, Zenon DEF Admitted, Registered
  <2>6. \A g \in Registered(p) : committed'[g][p] >= committed[g][p]
    BY <2>3 DEF Registered, TopicInv, TopicType
  <2> QED BY <1>1, <2>1, <2>4, <2>5, <2>6, LagKept, Zenon DEF TopicInv
<1> QED BY <1>2, <1>3, Zenon

\* A producer that is let through finds the log within the limit of every group,
\* or its minimum has been undercut and it was counted already.
LEMMA HighWaterLag ==
  ASSUME TopicInv, TopicInv', MaxLag > 0, NEW p \in Partitions, LagAt(p),
         NEW q \in Producers, ReadHighWater(q)
  PROVE  LagAt(p)'
<1>1. /\ pc[q] = "hwm" /\ UNCHANGED <<log, committed, part, low, joined>>
      /\ pc' = [pc EXCEPT ![q] = IF Len(log[part[q]]) - low[q] >= MaxLag THEN "full" ELSE "append"]
  BY Zenon DEF ReadHighWater, Goto, store, history
<1>2. pc \in [Producers -> {"idle", "check", "hwm", "full", "append", "flush"}]
  BY Zenon DEF TopicInv, TopicType
<1>3. /\ \A r \in Producers : r # q => pc'[r] = pc[r]
      /\ pc'[q] = IF Len(log[part[q]]) - low[q] >= MaxLag THEN "full" ELSE "append"
  BY <1>1, <1>2, Zenon
<1>4. CASE q \in Admitted(p)' => q \in Admitted(p)
  <2>1. Admitted(p)' \subseteq Admitted(p)
    BY <1>1, <1>3, <1>4, OnlyOneMoves, Zenon DEF TopicInv
  <2> QED BY <1>1, <2>1, LagSame, Zenon DEF TopicInv
<1>5. CASE q \in Admitted(p)' /\ q \notin Admitted(p)
  <2>1. part[q] = p /\ pc'[q] # "full"
    BY <1>1, <1>5, <1>3, Zenon DEF Admitted
  <2>2. ~(Len(log[p]) - low[q] >= MaxLag)
    BY <2>1, <1>3, Zenon
  <2>3. \A g \in Registered(p) : ~(committed[g][p] < low[q])
    BY <2>1, <1>1, <1>5, Zenon DEF Admitted
  <2>4. /\ Len(log[p]) \in Nat /\ low[q] \in Nat
        /\ \A g \in Registered(p) : committed[g][p] \in Nat
    <3>1. low[q] \in Nat
      BY DEF TopicInv, TopicType
    <3> QED BY <3>1, RegisteredType, Zenon
  <2>5. Room(p)' \in Nat
    BY RoomBounds, Zenon
  <2>6. \A g \in Registered(p) : Len(log[p]) - committed[g][p] <= MaxLag - 1 + Room(p)'
    BY <2>2, <2>3, <2>4, <2>5
  <2>7. Registered(p)' = Registered(p)
    BY <1>1, Zenon DEF Registered
  <2> QED BY <1>1, <2>6, <2>7, Zenon DEF LagAt
<1> QED BY <1>4, <1>5, Zenon

\* An append adds at most a batch, and takes its producer off the admitted ones.
LEMMA AppendLag ==
  ASSUME TopicInv, TopicInv', NEW p \in Partitions, LagAt(p), NEW q \in Producers, AppendRecords(q)
  PROVE  LagAt(p)'
<1>1. /\ pc[q] = "append" /\ UNCHANGED <<committed, part, low, joined>>
      /\ pc' = [pc EXCEPT ![q] = IF PerMessage /\ kind[q] = "one" THEN "flush" ELSE "idle"]
  BY Zenon DEF AppendRecords, Goto, history
<1>2. /\ pc \in [Producers -> {"idle", "check", "hwm", "full", "append", "flush"}]
      /\ size[q] \in 1 .. MaxBatch /\ Len(log[p]) \in Nat /\ joined[p] \in Nat
      /\ \A g \in Registered(p) : committed[g][p] \in Nat
  <2>1. /\ pc \in [Producers -> {"idle", "check", "hwm", "full", "append", "flush"}]
        /\ size[q] \in 1 .. MaxBatch
    BY DEF TopicInv, TopicType
  <2> QED BY <2>1, RegisteredType, Zenon
<1>3. (\A r \in Producers : r # q => pc'[r] = pc[r]) /\ pc'[q] \in {"flush", "idle"}
  BY <1>1, <1>2, Zenon
<1>4. q \notin Admitted(p)'
  BY <1>3, Zenon DEF Admitted
<1>5. Admitted(p)' \subseteq Admitted(p)
  BY <1>1, <1>3, <1>4, OnlyOneMoves, Zenon DEF TopicInv
<1>6. CASE part[q] # p
  <2>1. log'[p] = log[p]
    BY <1>6, AppendEffect, Zenon DEF TopicInv
  <2> QED BY <1>1, <1>5, <2>1, LagSame, Zenon DEF TopicInv
<1>7. CASE part[q] = p
  <2>1. q \in Admitted(p)
    BY <1>1, <1>7, Zenon DEF Admitted
  <2>2. Room(p) \in Nat /\ Room(p)' \in Nat /\ Room(p) + MaxBatch <= Room(p)'
    BY <1>4, <1>5, <2>1, RoomFreed
  <2>3. Len(log'[p]) = Len(log[p]) + size[q]
    BY <1>7, AppendEffect, Zenon DEF TopicInv
  <2>4. Registered(p)' = Registered(p)
    BY <1>1, Zenon DEF Registered
  <2> SUFFICES ASSUME Registered(p) # {}
               PROVE  \/ \A g \in Registered(p) : Len(log'[p]) - committed[g][p] <= MaxLag - 1 + Room(p)'
                      \/ Len(log'[p]) - joined[p] <= Room(p)'
    BY <1>1, <2>4, Zenon DEF LagAt
  <2>5. \/ \A g \in Registered(p) : Len(log[p]) - committed[g][p] <= MaxLag - 1 + Room(p)
        \/ Len(log[p]) - joined[p] <= Room(p)
    BY Zenon DEF LagAt
  <2> QED BY <1>2, <2>2, <2>3, <2>5
<1> QED BY <1>6, <1>7, Zenon

\* A minimum that is read now is not undercut yet.
LEMMA CheckLag ==
  ASSUME TopicInv, TopicInv', MaxLag > 0, NEW p \in Partitions, LagAt(p),
         NEW q \in Producers, ReadCommitted(q)
  PROVE  LagAt(p)'
<1>1. pc[q] = "check" /\ UNCHANGED <<log, committed, part, joined>>
  BY Zenon DEF ReadCommitted, store, history
<1>2. /\ pc \in [Producers -> {"idle", "check", "hwm", "full", "append", "flush"}]
      /\ low \in [Producers -> Nat]
  BY Zenon DEF TopicInv, TopicType
<1>3. Registered(p)' = Registered(p)
  BY <1>1, Zenon DEF Registered
<1>4. CASE Registered(p) = {}
  BY <1>3, <1>4, Zenon DEF LagAt
<1>5. CASE Registered(p) # {}
  <2>1. /\ \A r \in Producers : r # q => pc'[r] = pc[r] /\ low'[r] = low[r]
        /\ part[q] = p => pc'[q] = "hwm" /\ IsMinCommitted(p, low'[q])
    <3>1. CASE Registered(part[q]) = {}
      BY <1>2, <1>5, <3>1, Zenon DEF ReadCommitted, Goto
    <3>2. CASE Registered(part[q]) # {}
      <4>1. PICK m \in 0 .. MaxOffset : /\ IsMinCommitted(part[q], m)
                                        /\ low' = [low EXCEPT ![q] = m]
                                        /\ Goto(q, "hwm")
        BY <3>2 DEF ReadCommitted
      <4> QED BY <1>2, <4>1, Zenon DEF Goto
    <3> QED BY <3>1, <3>2, Zenon
  <2>2. q \notin Admitted(p)'
    <3> SUFFICES ASSUME part[q] = p, NEW g \in Registered(p), committed[g][p] < low'[q] PROVE FALSE
      BY <1>1, <1>3, <2>1, Zenon DEF Admitted
    <3>1. low'[q] <= committed[g][p]
      BY <2>1, Zenon DEF IsMinCommitted
    <3>2. committed[g][p] \in Nat /\ low'[q] \in Nat
      BY DEF TopicInv, TopicType, Registered
    <3> QED BY <3>1, <3>2
  <2>3. Admitted(p)' \subseteq Admitted(p)
    BY <1>1, <2>1, <2>2, OnlyOneMoves, Zenon DEF TopicInv
  <2> QED BY <1>1, <2>3, LagSame, Zenon DEF TopicInv
<1> QED BY <1>4, <1>5, Zenon

\* Every step keeps the lag within the limit and the room.
LEMMA LagStep == TopicInv /\ TopicInv' /\ LagInv /\ [Next]_vars => LagInv'
<1> SUFFICES ASSUME TopicInv, TopicInv', MaxLag > 0, [Next]_vars, NEW p \in Partitions, LagAt(p)
             PROVE  LagAt(p)'
  BY Zenon DEF LagInv
<1>1. pc \in [Producers -> {"idle", "check", "hwm", "full", "append", "flush"}]
      /\ part \in [Producers -> Partitions]
  BY Zenon DEF TopicInv, TopicType
\* What most steps do.
<1>2. ASSUME UNCHANGED <<log, committed, pc, part, low, joined>> PROVE LagAt(p)'
  <2>1. Admitted(p)' \subseteq Admitted(p)
    BY <1>2, Zenon DEF Admitted, Registered
  <2> QED BY <1>2, <2>1, LagSame, Zenon DEF TopicInv
<1>3. CASE UNCHANGED vars
  BY <1>2, <1>3, Zenon DEF vars, store, producing, history
<1>4. ASSUME NEW q \in Producers, UNCHANGED <<log, committed, low, joined>>,
             \A r \in Producers : r # q => pc'[r] = pc[r] /\ part'[r] = part[r],
             pc'[q] \in {"idle", "check"}
      PROVE  LagAt(p)'
  <2>1. q \notin Admitted(p)'
    BY <1>4, Zenon DEF Admitted
  <2>2. Admitted(p)' \subseteq Admitted(p)
    BY <1>4, <2>1, OnlyOneMoves, Zenon DEF TopicInv
  <2> QED BY <1>4, <2>2, LagSame, Zenon DEF TopicInv
<1>5. ASSUME NEW q \in Producers, NEW r \in Partitions, NEW n \in 1 .. MaxBatch, NEW k \in Kinds,
             Publish(q, r, n, k)
      PROVE  LagAt(p)'
  <2>1. /\ UNCHANGED <<log, committed, low, joined>>
        /\ pc' = [pc EXCEPT ![q] = "check"] /\ part' = [part EXCEPT ![q] = r]
    BY <1>5, Zenon DEF Publish, Goto, store, history
  <2> QED BY <1>1, <1>4, <2>1, Zenon
<1>6. ASSUME NEW q \in Producers, Retry(q) \/ GiveUp(q) \/ FlushRecord(q)
      PROVE  LagAt(p)'
  <2>1. /\ UNCHANGED <<log, committed, low, joined, part>>
        /\ pc' = [pc EXCEPT ![q] = "check"] \/ pc' = [pc EXCEPT ![q] = "idle"]
    BY <1>6, Zenon DEF Retry, GiveUp, FlushRecord, Goto, store, history
  <2> QED BY <1>1, <1>4, <2>1, Zenon
<1>7. ASSUME NEW q \in Producers, ReadCommitted(q) \/ ReadHighWater(q) \/ AppendRecords(q)
      PROVE  LagAt(p)'
  BY <1>7, CheckLag, HighWaterLag, AppendLag, Zenon
<1>8. ASSUME NEW r \in Partitions, UserFlush(r)
      PROVE  LagAt(p)'
  BY <1>2, <1>8, Zenon DEF UserFlush, producing, history
<1>9. ASSUME NEW c \in Consumers, Register(c) \/ CommitOffset(c)
      PROVE  LagAt(p)'
  BY <1>9, RegisterLag, CommitLag, Zenon
<1>10. ASSUME NEW c \in Consumers, Construct(c) \/ Poll(c) \/ PollRecord(c) \/ PollNext(c) \/ Commit(c) \/ Stop(c)
       PROVE  LagAt(p)'
  <2>1. UNCHANGED <<log, committed, pc, part, low, joined>>
    BY <1>10, Zenon DEF Construct, Poll, PollRecord, PollNext, Commit, Stop, store, producing, history
  <2> QED BY <1>2, <2>1, Zenon
<1>11. ASSUME Kill \/ PowerLoss
       PROVE  LagAt(p)'
  <2>1. Registered(p)' = {}
    BY <1>11 DEF Kill, PowerLoss, Restart, Registered
  <2> QED BY <2>1, Zenon DEF LagAt
<1> QED BY <1>3, <1>5, <1>6, <1>7, <1>8, <1>9, <1>10, <1>11, Zenon DEF Next

\* Partition::over_lag_limit bounds the lag although its check and the append are
\* not atomic: for any number of producers it overshoots max_lag_records - 1 by
\* at most one batch of each.
THEOREM BackpressureBoundsLag == Spec => []LagBounded
<1>1. Init => LagInv
  BY DEF Init, LagInv, LagAt, Registered
<1>2. TopicInv /\ LagInv => LagBounded
  <2> SUFFICES ASSUME TopicInv, LagInv, MaxLag > 0, NEW p \in Partitions, NEW m \in 0 .. MaxOffset,
                      IsMinCommitted(p, m)
               PROVE  \/ Len(log[p]) - m <= MaxLag - 1 + Cardinality(Producers) * MaxBatch
                      \/ Len(log[p]) - joined[p] <= Cardinality(Producers) * MaxBatch
    BY Zenon DEF LagBounded, LagWithin
  <2>1. PICK g \in Registered(p) : committed[g][p] = m
    BY Zenon DEF IsMinCommitted
  <2>2. \/ Len(log[p]) - m <= MaxLag - 1 + Room(p)
        \/ Len(log[p]) - joined[p] <= Room(p)
    BY <2>1, Zenon DEF LagInv, LagAt
  <2>3. Room(p) \in Nat /\ Cardinality(Producers) \in Nat /\ Room(p) <= Cardinality(Producers) * MaxBatch
    BY RoomBounds, Zenon
  <2>4. Cardinality(Producers) * MaxBatch \in Nat
    BY <2>3, Scaled
  <2>5. Len(log[p]) \in Nat /\ joined[p] \in Nat
    BY DEF TopicInv, TopicType
  <2> QED BY <2>2, <2>3, <2>4, <2>5
<1> QED BY <1>1, <1>2, LagStep, TopicInvariance, PTL DEF Spec
=============================================================================
