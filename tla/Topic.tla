-------------------------------- MODULE Topic --------------------------------
(***************************************************************************)
(* A topic in use: producers under lag-based backpressure (Partition), the *)
(* in-memory OffsetStore, and the consumers of several groups that poll    *)
(* and commit.                                                             *)
(*                                                                         *)
(* The log of a partition is what DurableLog promises: a sequence that     *)
(* grows at its end, of which a flushed prefix survives a power loss.  A   *)
(* record carries only the number of crashes before it was written, which  *)
(* tells a record apart from one that takes its offset after a crash.      *)
(***************************************************************************)
EXTENDS Integers, Sequences, FiniteSets

CONSTANTS
  Producers,      \* threads that publish
  NumPartitions,  \* num_partitions
  Groups,         \* consumer groups
  GroupSize,      \* consumers per group (group_size)
  MaxLag,         \* max_lag_records; 0 is no limit
  MaxPoll,        \* max_records of a poll
  Kinds,          \* publish calls in use: "one" (try_publish), "batch"
  MaxBatch,       \* bound: records per batch
  PerMessage,     \* flush_policy_ = FlushPolicy::PerMessage
  Faults,         \* which of "kill", "power", "stop" (of a consumer) can happen
  MaxFaults,      \* bound: faults
  MaxOffset,      \* bound: offsets per partition
  Unset           \* no entry in the OffsetStore

ASSUME TopicAssumption ==
  /\ IsFiniteSet(Producers)
  /\ NumPartitions \in Nat \ {0}
  /\ GroupSize \in Nat \ {0}
  /\ MaxLag \in Nat /\ MaxPoll \in Nat \ {0}
  /\ MaxBatch \in Nat \ {0} /\ MaxFaults \in Nat /\ MaxOffset \in Nat
  /\ PerMessage \in BOOLEAN
  /\ Kinds \subseteq {"one", "batch"}
  /\ Unset \notin Nat

Partitions == 0 .. (NumPartitions - 1)
Consumers == Groups \X (0 .. (GroupSize - 1))

VARIABLES
  log,        \* log_ of each partition: its records, by offset + 1
  flushed,    \* how many of them are msynced
  committed,  \* entries_ and groups_by_partition_ : [Groups -> [Partitions -> offset or Unset]]
  pc,         \* where each producer is
  part,       \* the partition it publishes to
  size,       \* how many records
  kind,       \* "one" or "batch"
  low,        \* the minimum committed offset it has read
  state,      \* what each consumer does
  todo,       \* the partitions its loop has left, in the order of cursors_
  got,        \* results.size() of its poll
  cursor,     \* cursors_
  seen,       \* history: the records first delivered to each group, by offset + 1
  joined,     \* history: the end of the log when a group last registered for it
  faults      \* faults so far

store == <<log, flushed>>
producing == <<pc, part, size, kind, low>>
consuming == <<state, todo, got, cursor>>
history == <<seen, joined>>
vars == <<store, committed, producing, consuming, history, faults>>

(***************************************************************************)
(* OffsetStore                                                             *)
(***************************************************************************)

Registered(p) == {g \in Groups : committed[g][p] # Unset}

\* m is the least committed offset of the groups registered for p.
IsMinCommitted(p, m) ==
  /\ \E g \in Registered(p) : committed[g][p] = m
  /\ \A g \in Registered(p) : m <= committed[g][p]

(***************************************************************************)
(* Partition: publish = over_lag_limit, append, flush                      *)
(***************************************************************************)

Goto(q, l) == pc' = [pc EXCEPT ![q] = l]

\* The publishing calls of Producer: any of them ends up at one partition.
Publish(q, p, n, k) ==
  /\ pc[q] = "idle"
  /\ k = "one" => n = 1
  /\ Len(log[p]) + MaxBatch * Cardinality({r \in Producers : pc[r] # "idle"}) + n <= MaxOffset
  /\ Goto(q, "check")
  /\ part' = [part EXCEPT ![q] = p]
  /\ size' = [size EXCEPT ![q] = n]
  /\ kind' = [kind EXCEPT ![q] = k]
  /\ UNCHANGED <<store, committed, low, consuming, history, faults>>

\* over_lag_limit reads the minimum committed offset, if there is a limit and a group ...
ReadCommitted(q) ==
  /\ pc[q] = "check"
  /\ IF MaxLag = 0 \/ Registered(part[q]) = {}
     THEN Goto(q, "append") /\ UNCHANGED low
     ELSE \E m \in 0 .. MaxOffset :
            /\ IsMinCommitted(part[q], m)
            /\ low' = [low EXCEPT ![q] = m]
            /\ Goto(q, "hwm")
  /\ UNCHANGED <<store, committed, part, size, kind, consuming, history, faults>>

\* Mutant: rejects only a lag above max_lag_records.
ReadHighWaterLoose(q) ==
  /\ pc[q] = "hwm"
  /\ Goto(q, IF Len(log[part[q]]) - low[q] > MaxLag THEN "full" ELSE "append")
  /\ UNCHANGED <<store, committed, part, size, kind, low, consuming, history, faults>>

\* ... and then the end of the log.
ReadHighWater(q) ==
  /\ pc[q] = "hwm"
  /\ Goto(q, IF Len(log[part[q]]) - low[q] >= MaxLag THEN "full" ELSE "append")
  /\ UNCHANGED <<store, committed, part, size, kind, low, consuming, history, faults>>

\* Rejected: publish() sleeps and tries again ...
Retry(q) ==
  /\ pc[q] = "full"
  /\ Goto(q, "check")
  /\ UNCHANGED <<store, committed, part, size, kind, low, consuming, history, faults>>

\* ... or throws BackpressureTimeout, and try_publish() returns nullopt.
GiveUp(q) ==
  /\ pc[q] = "full"
  /\ Goto(q, "idle")
  /\ UNCHANGED <<store, committed, part, size, kind, low, consuming, history, faults>>

Records(n) == [i \in 1 .. n |-> faults]

\* Mutant: the batch is not flushed before it becomes visible.
AppendUnflushed(q) ==
  /\ pc[q] = "append"
  /\ log' = [log EXCEPT ![part[q]] = @ \o Records(size[q])]
  /\ Goto(q, IF PerMessage THEN "flush" ELSE "idle")
  /\ UNCHANGED <<flushed, committed, part, size, kind, low, consuming, history, faults>>

\* Log::append, or Log::append_batch with its flush under the same lock.
AppendRecords(q) ==
  /\ pc[q] = "append"
  /\ log' = [log EXCEPT ![part[q]] = @ \o Records(size[q])]
  /\ IF PerMessage /\ kind[q] = "batch"
     THEN flushed' = [flushed EXCEPT ![part[q]] = Len(log'[part[q]])]
     ELSE UNCHANGED flushed
  /\ Goto(q, IF PerMessage /\ kind[q] = "one" THEN "flush" ELSE "idle")
  /\ UNCHANGED <<committed, part, size, kind, low, consuming, history, faults>>

\* Log::flush of a single publish, which returns.
FlushRecord(q) ==
  /\ pc[q] = "flush"
  /\ flushed' = [flushed EXCEPT ![part[q]] = Len(log[part[q]])]
  /\ Goto(q, "idle")
  /\ UNCHANGED <<log, committed, part, size, kind, low, consuming, history, faults>>

\* Partition::flush of a FlushPolicy::Manual caller.
UserFlush(p) ==
  /\ flushed' = [flushed EXCEPT ![p] = Len(log[p])]
  /\ UNCHANGED <<log, committed, producing, consuming, history, faults>>

(***************************************************************************)
(* Consumer                                                                *)
(***************************************************************************)

\* Mutant: a consumer also takes the partitions of those before it.
AssignedOverlap(c) == {p \in Partitions : p % GroupSize <= c[2]}

Assigned(c) == {p \in Partitions : p % GroupSize = c[2]}

\* The orders in which a loop over cursors_ (an unordered_map) may go.
Orders(S) ==
  {s \in [1 .. Cardinality(S) -> S] : \A i, j \in DOMAIN s : s[i] = s[j] => i = j}

Begin(c, what, s) ==
  /\ state' = [state EXCEPT ![c] = IF s = <<>> THEN "idle" ELSE what]
  /\ todo' = [todo EXCEPT ![c] = s]

\* The loop of c is done with the partition at its head.
Advance(c) == Begin(c, state[c], Tail(todo[c]))

\* The constructor goes through the partitions in ascending order ...
Construct(c) ==
  /\ state[c] = "gone"
  /\ \E s \in Orders(Assigned(c)) :
       /\ \A i, j \in DOMAIN s : i < j => s[i] < s[j]
       /\ Begin(c, "registering", s)
  /\ UNCHANGED <<store, committed, producing, got, cursor, history, faults>>

\* Mutant: registering a group again sets it back to offset 0.
RegisterReset(c) ==
  LET p == Head(todo[c])
      g == c[1]
      o == 0
  IN  /\ state[c] = "registering"
      /\ committed' = [committed EXCEPT ![g][p] = o]
      /\ cursor' = [cursor EXCEPT ![c][p] = o]
      /\ joined' = [joined EXCEPT ![p] = Len(log[p])]
      /\ Advance(c)
      /\ UNCHANGED <<store, producing, got, seen, faults>>

\* ... registers the group for each and starts at its committed offset.
Register(c) ==
  LET p == Head(todo[c])
      g == c[1]
      o == IF committed[g][p] = Unset THEN 0 ELSE committed[g][p]
  IN  /\ state[c] = "registering"
      /\ committed' = [committed EXCEPT ![g][p] = o]
      /\ cursor' = [cursor EXCEPT ![c][p] = o]
      /\ joined' = [joined EXCEPT ![p] = Len(log[p])]
      /\ Advance(c)
      /\ UNCHANGED <<store, producing, got, seen, faults>>

Poll(c) ==
  /\ state[c] = "idle"
  /\ got' = [got EXCEPT ![c] = 0]
  /\ \E s \in Orders(Assigned(c)) : Begin(c, "polling", s)
  /\ UNCHANGED <<store, committed, producing, cursor, history, faults>>

\* One Partition::read: a record is returned and the cursor moves ...
PollRecord(c) ==
  LET p == Head(todo[c])
      o == cursor[c][p]
      g == c[1]
  IN  /\ state[c] = "polling"
      /\ got[c] < MaxPoll
      /\ o < Len(log[p])
      /\ cursor' = [cursor EXCEPT ![c][p] = o + 1]
      /\ got' = [got EXCEPT ![c] = @ + 1]
      /\ seen' = IF o = Len(seen[g][p])
                 THEN [seen EXCEPT ![g][p] = Append(@, log[p][o + 1])] ELSE seen
      /\ UNCHANGED <<store, committed, producing, state, todo, joined, faults>>

\* ... or the partition is dry, or max_records are read and the poll ends.
PollNext(c) ==
  /\ state[c] = "polling"
  /\ IF got[c] >= MaxPoll
     THEN Begin(c, "idle", <<>>)
     ELSE /\ cursor[c][Head(todo[c])] >= Len(log[Head(todo[c])])
          /\ Advance(c)
  /\ UNCHANGED <<store, committed, producing, got, cursor, history, faults>>

Commit(c) ==
  /\ state[c] = "idle"
  /\ \E s \in Orders(Assigned(c)) : Begin(c, "committing", s)
  /\ UNCHANGED <<store, committed, producing, got, cursor, history, faults>>

\* Mutant: commits the offset after the next one to read.
CommitPast(c) ==
  LET p == Head(todo[c]) IN
  /\ state[c] = "committing"
  /\ committed' = [committed EXCEPT ![c[1]][p] = cursor[c][p] + 1]
  /\ Advance(c)
  /\ UNCHANGED <<store, producing, got, cursor, history, faults>>

\* Mutant: commits the last offset read instead of the next one.
CommitBehind(c) ==
  LET p == Head(todo[c]) IN
  /\ state[c] = "committing"
  /\ committed' = [committed EXCEPT ![c[1]][p] = IF cursor[c][p] = 0 THEN 0 ELSE cursor[c][p] - 1]
  /\ Advance(c)
  /\ UNCHANGED <<store, producing, got, cursor, history, faults>>

\* OffsetStore::commit of one partition.
CommitOffset(c) ==
  LET p == Head(todo[c]) IN
  /\ state[c] = "committing"
  /\ committed' = [committed EXCEPT ![c[1]][p] = cursor[c][p]]
  /\ Advance(c)
  /\ UNCHANGED <<store, producing, got, cursor, history, faults>>

(***************************************************************************)
(* Faults                                                                  *)
(***************************************************************************)

Fault(f) == f \in Faults /\ faults < MaxFaults /\ faults' = faults + 1

NoCursor == [p \in Partitions |-> 0]

\* A consumer is destroyed, wherever it is; its group may construct it again.
Stop(c) ==
  /\ Fault("stop")
  /\ state[c] # "gone"
  /\ state' = [state EXCEPT ![c] = "gone"]
  /\ todo' = [todo EXCEPT ![c] = <<>>]
  /\ got' = [got EXCEPT ![c] = 0]
  /\ cursor' = [cursor EXCEPT ![c] = NoCursor]
  /\ UNCHANGED <<store, committed, producing, history>>

\* Everything in memory is gone: the OffsetStore, the consumers, the calls.
Restart ==
  /\ committed' = [g \in Groups |-> [p \in Partitions |-> Unset]]
  /\ pc' = [q \in Producers |-> "idle"]
  /\ low' = [q \in Producers |-> 0]
  /\ state' = [c \in Consumers |-> "gone"]
  /\ todo' = [c \in Consumers |-> <<>>]
  /\ got' = [c \in Consumers |-> 0]
  /\ cursor' = [c \in Consumers |-> NoCursor]
  /\ UNCHANGED <<part, size, kind, history>>

\* What may be in the log of p: a batch in the middle of append_batch is there in part.
Written(p) ==
  {log[p]} \cup
  {log[p] \o Records(k) : k \in UNION {1 .. (size[q] - 1) : q \in {r \in Producers :
                                        pc[r] = "append" /\ kind[r] = "batch" /\ part[r] = p}}}

\* kill -9 keeps all of that ...
Kill ==
  /\ Fault("kill")
  /\ log' \in [Partitions -> UNION {Written(p) : p \in Partitions}]
  /\ \A p \in Partitions : log'[p] \in Written(p)
  /\ Restart
  /\ UNCHANGED flushed

\* ... and a power loss at least what was flushed.
PowerLoss ==
  /\ Fault("power")
  /\ flushed' \in [Partitions -> 0 .. MaxOffset]
  /\ \A p \in Partitions : flushed'[p] >= flushed[p]
  /\ \E w \in [Partitions -> UNION {Written(p) : p \in Partitions}] :
       /\ \A p \in Partitions : w[p] \in Written(p) /\ flushed'[p] <= Len(w[p])
       /\ log' = [p \in Partitions |-> SubSeq(w[p], 1, flushed'[p])]
  /\ Restart

Init ==
  /\ log = [p \in Partitions |-> <<>>]
  /\ flushed = [p \in Partitions |-> 0]
  /\ committed = [g \in Groups |-> [p \in Partitions |-> Unset]]
  /\ pc = [q \in Producers |-> "idle"]
  /\ part = [q \in Producers |-> 0]
  /\ size = [q \in Producers |-> 1]
  /\ kind = [q \in Producers |-> "one"]
  /\ low = [q \in Producers |-> 0]
  /\ state = [c \in Consumers |-> "gone"]
  /\ todo = [c \in Consumers |-> <<>>]
  /\ got = [c \in Consumers |-> 0]
  /\ cursor = [c \in Consumers |-> NoCursor]
  /\ seen = [g \in Groups |-> [p \in Partitions |-> <<>>]]
  /\ joined = [p \in Partitions |-> 0]
  /\ faults = 0

Calling(q) ==
  ReadCommitted(q) \/ ReadHighWater(q) \/ AppendRecords(q) \/ FlushRecord(q)

Looping(c) == Register(c) \/ PollRecord(c) \/ PollNext(c) \/ CommitOffset(c)

Next ==
  \/ \E q \in Producers :
       \/ \E p \in Partitions, n \in 1 .. MaxBatch, k \in Kinds : Publish(q, p, n, k)
       \/ ReadCommitted(q)
       \/ ReadHighWater(q)
       \/ Retry(q)
       \/ GiveUp(q)
       \/ AppendRecords(q)
       \/ FlushRecord(q)
  \/ \E p \in Partitions : UserFlush(p)
  \/ \E c \in Consumers :
       \/ Construct(c)
       \/ Register(c)
       \/ Poll(c)
       \/ PollRecord(c)
       \/ PollNext(c)
       \/ Commit(c)
       \/ CommitOffset(c)
       \/ Stop(c)
  \/ Kill
  \/ PowerLoss

Spec == Init /\ [][Next]_vars

(***************************************************************************)
(* Properties                                                              *)
(***************************************************************************)

\* The log of p ends within k batches of the limit: MaxLag - 1 records past the
\* least committed offset, or where it was when the last group registered.
LagWithin(k, p) ==
  \A m \in 0 .. MaxOffset : IsMinCommitted(p, m) =>
    \/ Len(log[p]) - m <= MaxLag - 1 + k * MaxBatch
    \/ Len(log[p]) - joined[p] <= k * MaxBatch

\* Backpressure bounds the lag although the check and the append are not atomic:
\* the lag overshoots max_lag_records - 1 by at most one batch per producer.
LagBounded == MaxLag > 0 => \A p \in Partitions : LagWithin(Cardinality(Producers), p)

\* partition.hpp: "lag can overshoot by up to batch_size - 1", by one batch
\* admitted when lag < max_lag_records.
LagOvershootsOneBatch == MaxLag > 0 => \A p \in Partitions : LagWithin(1, p)

\* At-least-once: whatever a group has committed, its consumers were given.
CommittedSeen ==
  \A g \in Groups, p \in Partitions :
    committed[g][p] # Unset => committed[g][p] <= Len(seen[g][p])

\* What a group was given first for an offset is what the log still holds there:
\* no record is replaced by another one after it was delivered.
StableReads ==
  \A g \in Groups, p \in Partitions :
    /\ Len(seen[g][p]) <= Len(log[p])
    /\ \A i \in DOMAIN seen[g][p] : seen[g][p][i] = log[p][i]

\* "No double delivery within a group": while no consumer is destroyed and the
\* broker runs, a record given to one consumer of a group is given to no other.
NoDoubleDelivery ==
  [][\A c \in Consumers, p \in Partitions :
       cursor'[c][p] = cursor[c][p] + 1 /\ state[c] = "polling" =>
         \A d \in Consumers : c[1] = d[1] /\ cursor[d][p] > cursor[c][p] => d = c]_vars

\* Consumers and the OffsetStore never move a group back while the broker runs,
\* even when a consumer is destroyed between poll and commit.
CommitsAdvance ==
  [][\A g \in Groups, p \in Partitions :
       committed[g][p] # Unset /\ committed'[g][p] # Unset =>
         committed'[g][p] >= committed[g][p]]_vars

(***************************************************************************)
(* Liveness.  Threads that can run do; consumers of every group are        *)
(* constructed, poll and commit again and again, which is what an          *)
(* application does that wants its records.                                *)
(***************************************************************************)

FairSpec ==
  /\ Spec
  /\ \A q \in Producers : WF_vars(Calling(q))
  /\ \A c \in Consumers : /\ WF_vars(Construct(c))
                          /\ WF_vars(Looping(c))
                          /\ SF_vars(Poll(c))
                          /\ SF_vars(Commit(c))

\* Every record is consumed and committed by every group in the end, however
\* the partitions are dealt to consumers and however few records a poll takes.
EventuallyConsumed ==
  \A g \in Groups, p \in Partitions, o \in 0 .. (MaxOffset - 1) :
    Len(log[p]) > o ~> (committed[g][p] # Unset /\ committed[g][p] > o)
=============================================================================
