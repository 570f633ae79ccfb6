----------------------------- MODULE SegmentLog -----------------------------
(***************************************************************************)
(* The write path of one partition, composed: publishing, rolling, crashes *)
(* and recovery, what a log promises, and the durable log it implements.   *)
(***************************************************************************)
EXTENDS LogAppend, LogRoll, LogCrash, LogRecovery

Init ==
  /\ mode = "open"
  /\ dir = {} /\ dirDisk = {}
  /\ end = [b \in Bases |-> b]
  /\ endDisk = [b \in Bases |-> b]
  /\ cache = [b \in Bases |-> [o \in Slots(b) |-> Blank]]
  /\ disk = [b \in Bases |-> [o \in Slots(b) |-> Blank]]
  /\ segs = <<>>
  /\ pc = Idle
  /\ kind = [p \in Producers |-> "one"]
  /\ req = [p \in Producers |-> <<>>]
  /\ done = [p \in Producers |-> 0]
  /\ first = [p \in Producers |-> 0]
  /\ acked = [o \in 0 .. (MaxOffset - 1) |-> Blank]
  /\ flushed = 0
  /\ kept = 0
  /\ faults = 0

Producing(p) == Append1(p) \/ Seal(p) \/ Roll(p) \/ SyncDir(p) \/ TooLarge(p) \/ Flush(p)
Recovering == OpenNext \/ OpenDone \/ SealRecovered \/ Serve

Next ==
  \/ \E p \in Producers :
       \/ \E v \in Payloads \cup {Oversized} : Publish(p, <<v>>, "one")
       \/ \E b \in Batches : Publish(p, b, "batch")
       \/ Append1(p)
       \/ Seal(p)
       \/ Roll(p)
       \/ RollFails(p)
       \/ SyncDir(p)
       \/ TooLarge(p)
       \/ Flush(p)
  \/ UserFlush
  \/ Kill
  \/ PowerLoss
  \/ OpenNext
  \/ OpenDone
  \/ SealRecovered
  \/ Serve

Spec == Init /\ [][Next]_vars

(***************************************************************************)
(* Properties                                                              *)
(***************************************************************************)

\* A publish that returned keeps its record, at the offset it returned, through
\* every kill -9 and every later roll; with FlushPolicy::PerMessage (or a
\* Partition::flush() since) also through every power loss.
AckedSurvive ==
  mode = "up" => \A o \in DOMAIN acked : acked[o] # Blank => Read(o) = acked[o]

\* The log has no hole: every offset below next_offset() reads as a record,
\* and nothing a kill -9 or a flush should have kept is missing.
Contiguous ==
  mode = "up" => /\ \A o \in 0 .. (Last.next - 1) : Read(o) \in Payloads
                 /\ Last.next >= kept

\* log.hpp: the directory entry of a segment is durable "before we ack records
\* in it": the file of every acknowledged record survives a power loss.
EntryBeforeAck ==
  mode = "up" => \A o \in DOMAIN acked : acked[o] # Blank => segs[Route(o)].base \in dirDisk

\* segment.hpp: an empty first record makes replay "stop one record early", so
\* recovery finds all flushed records but one.
ReplayLosesAtMostOne ==
  mode = "up" => Last.next >= flushed - 1

\* While the log serves, a record once readable never changes: appends, seals,
\* rolls and flushes leave every earlier offset as it was.
AppendOnly ==
  [][mode = "up" /\ mode' = "up" =>
       \A o \in 0 .. (Last.next - 1) : Read(o)' = Read(o)]_vars

\* Before the log serves, the record of offset o is in the last file that starts
\* at or below it, which is where Log::read will look for it.
FileRead(o) ==
  LET below == {b \in dir : b <= o}
  IN  IF below = {} THEN Blank ELSE cache[CHOOSE b \in below : \A c \in below : c <= b][o]

Durable == INSTANCE DurableLog WITH
  up <- mode = "up",
  log <- IF mode = "up" THEN [i \in 1 .. Last.next |-> Read(i - 1)]
                        ELSE [i \in 1 .. kept |-> FileRead(i - 1)],
  stable <- flushed,
  acked <- acked

\* Segments, rolling, sealing, group flushes, crashes and recovery together
\* implement the durable log: no step is visible as anything but an append, a
\* flush, a crash that keeps the stable prefix, or a recovery.
ImplementsDurableLog == Durable!Spec

(***************************************************************************)
(* Liveness.  The scheduler runs every thread that can run, and rw_mutex_  *)
(* is handed to a waiting writer eventually (a publish takes it once or    *)
(* twice and the others leave it), hence strong fairness of the steps that *)
(* take it; the constructor runs to its end once started.                  *)
(***************************************************************************)

FairSpec ==
  /\ Spec
  /\ \A p \in Producers : SF_vars(Producing(p))
  /\ WF_vars(Recovering)

\* Every publish ends: with an acknowledgement, an exception or a crash.
PublishEnds == \A p \in Producers : pc[p] # "idle" ~> pc[p] = "idle"

\* After a crash the log serves again, unless it crashes for ever.
RecoveryEnds == (mode # "up") ~> (mode = "up")
=============================================================================
