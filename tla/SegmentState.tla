---------------------------- MODULE SegmentState ----------------------------
(***************************************************************************)
(* The write path of one partition: storage::Segment and storage::Log      *)
(* under the publish calls of broker::Partition, with kill -9, power loss  *)
(* and the recovery that follows.                                          *)
(*                                                                         *)
(* A segment file is a row of cells, one per offset it can hold: every     *)
(* ordinary record takes one of the SegCap cells of a segment, and the     *)
(* payload Oversized fits in no segment.  Cell o of the file named after   *)
(* base b is cache[b][o] as the processes see it (the shared mapping) and  *)
(* disk[b][o] as the block device holds it.  Blank stands for any bytes    *)
(* that replay rejects: untouched, torn, or of another offset.  The length *)
(* of a file is end[b] (the first offset past it).                         *)
(*                                                                         *)
(* The writer lock rw_mutex_ is derived from the program counters: it is   *)
(* released between the append and the flush of a single publish, and held *)
(* from the first record to the flush of a batch.                          *)
(***************************************************************************)
EXTENDS Integers, Sequences

CONSTANTS
  Producers,         \* threads that call try_publish / try_publish_batch
  Payloads,          \* payloads that fit in a segment
  Oversized,         \* a payload that fits in none
  Empty,             \* the payload of length 0 (in Payloads or not)
  Blank,             \* bytes that are no record
  SegCap,            \* records per segment (max_segment_bytes_)
  PerMessage,        \* flush_policy_ = FlushPolicy::PerMessage
  Faults,            \* which of "kill", "power", "io" can happen
  MsyncCoversEntry,  \* whether msync of a new file also makes its directory entry durable
  MaxOffset,         \* bound: offsets assigned
  MaxBatch,          \* bound: records per batch
  MaxSegs,           \* bound: open segments at which Oversized is still published
  MaxFaults          \* bound: kills, power losses and I/O errors together

ASSUME SegmentLogAssumption ==
  /\ SegCap \in Nat \ {0}
  /\ MaxOffset \in Nat
  /\ MaxBatch \in Nat \ {0}
  /\ MaxSegs \in Nat
  /\ MaxFaults \in Nat
  /\ PerMessage \in BOOLEAN
  /\ MsyncCoversEntry \in BOOLEAN
  /\ Blank \notin Payloads
  /\ Oversized \notin Payloads

Bases == 0 .. MaxOffset
Slots(b) == b .. (b + SegCap - 1)
Cell == Payloads \cup {Blank}
OpenSegments == [base : Bases, next : Nat, sealed : BOOLEAN]
Batches == UNION {[1 .. n -> Payloads] : n \in 1 .. MaxBatch}

VARIABLES
  mode,      \* "open", "seal", "dirsync": the Log constructor; "up": serving
  dir,       \* bases of the segment files in the directory
  dirDisk,   \* those whose directory entry is durable
  end,       \* file length, as the first offset past the file
  endDisk,   \* the durable file length
  cache,     \* file contents in the page cache
  disk,      \* file contents on the device
  segs,      \* segments_ : the open segments, [base, next, sealed]
  pc,        \* where each producer is
  kind,      \* "one": try_publish; "batch": try_publish_batch
  req,       \* the payloads it publishes
  done,      \* how many of them are appended
  first,     \* the offset of the first one
  acked,     \* history: what was returned to a producer, by offset
  flushed,   \* history: every record below this offset has been msynced
  kept,      \* history: every record below this offset must be recovered
  faults     \* kills, power losses and I/O errors so far

files == <<dir, dirDisk, end, endDisk, cache, disk>>
jobs == <<pc, kind, req, done, first>>
vars == <<mode, files, segs, jobs, acked, flushed, kept, faults>>

Last == segs[Len(segs)]
Idle == [p \in Producers |-> "idle"]
Opened == {segs[i].base : i \in DOMAIN segs}

(***************************************************************************)
(* Segment                                                                 *)
(***************************************************************************)

\* A record replay accepts: an empty payload at offset 0 has an all-zero header.
Valid(c, o) == c \in Payloads /\ ~(o = 0 /\ c = Empty)

\* Mutant: append forgets to compare the record's size with mapped_len_.
HasRoomUnchecked(v) ==
  /\ ~Last.sealed
  /\ Last.next < Last.base + SegCap

\* Segment::append returns an offset: the segment is unsealed and has room.
HasRoom(v) ==
  /\ ~Last.sealed
  /\ v # Oversized
  /\ Last.next < Last.base + SegCap

\* replay() leaves the segment of base b, mapped up to e, with next offset n.
ReplayEnds(cells, b, e, n) ==
  /\ n \in b .. e
  /\ \A o \in b .. (n - 1) : Valid(cells[o], o)
  /\ n < e => ~Valid(cells[n], n)

\* The Segment constructor on the file of base b: an empty or new file is
\* extended to full size, a file shorter than that is a sealed segment.
OpenSegment(b) ==
  LET fresh == b \notin dir \/ end[b] = b
      e     == IF fresh THEN b + SegCap ELSE end[b]
      cells == IF fresh THEN [o \in Slots(b) |-> Blank] ELSE cache[b]
  IN  \E n \in b .. e :
        /\ ReplayEnds(cells, b, e, n)
        /\ segs' = Append(segs, [base |-> b, next |-> n, sealed |-> e < b + SegCap])
        /\ dir' = dir \cup {b}
        /\ end' = [end EXCEPT ![b] = e]
        /\ cache' = [cache EXCEPT ![b] = cells]

\* msync(data_, write_pos_, MS_SYNC) of the segment s; of no bytes it does nothing.
Msync(s) ==
  IF s.next = s.base
  THEN UNCHANGED <<disk, endDisk, dirDisk>>
  ELSE /\ disk' = [disk EXCEPT ![s.base] =
                     [o \in Slots(s.base) |-> IF o < s.next THEN cache[s.base][o] ELSE @[o]]]
       /\ endDisk' = [endDisk EXCEPT ![s.base] = end[s.base]]
       /\ dirDisk' = IF MsyncCoversEntry THEN dirDisk \cup {s.base} ELSE dirDisk

\* Mutant: seal() does not msync before it truncates.
SealSegmentUnsynced(i) ==
  LET s == segs[i] IN
  /\ end' = [end EXCEPT ![s.base] = s.next]
  /\ cache' = [cache EXCEPT ![s.base] =
                 [o \in Slots(s.base) |-> IF o < s.next THEN @[o] ELSE Blank]]
  /\ segs' = [segs EXCEPT ![i].sealed = TRUE]
  /\ UNCHANGED <<dir, disk, endDisk, dirDisk>>

\* Mutant: seal() truncates to the start of the last record, not to its end.
SealSegmentShort(i) ==
  LET s == segs[i]
      e == IF s.next > s.base THEN s.next - 1 ELSE s.next
  IN
  /\ Msync(s)
  /\ end' = [end EXCEPT ![s.base] = e]
  /\ cache' = [cache EXCEPT ![s.base] =
                 [o \in Slots(s.base) |-> IF o < e THEN @[o] ELSE Blank]]
  /\ segs' = [segs EXCEPT ![i].sealed = TRUE]
  /\ UNCHANGED dir

\* Segment::seal() of segs[i]: msync, truncate to write_pos_, remap read-only.
SealSegment(i) ==
  LET s == segs[i] IN
  /\ Msync(s)
  /\ end' = [end EXCEPT ![s.base] = s.next]
  /\ cache' = [cache EXCEPT ![s.base] =
                 [o \in Slots(s.base) |-> IF o < s.next THEN @[o] ELSE Blank]]
  /\ segs' = [segs EXCEPT ![i].sealed = TRUE]
  /\ UNCHANGED dir

(***************************************************************************)
(* Log::read: upper_bound on the base offsets, then a scan of that segment *)
(***************************************************************************)

\* Mutant: lower_bound in place of upper_bound.
RoutedLower(i, o) ==
  /\ segs[i].base <= o
  /\ i = Len(segs) \/ o <= segs[i + 1].base

Routed(i, o) ==
  /\ segs[i].base <= o
  /\ i = Len(segs) \/ o < segs[i + 1].base

Route(o) == CHOOSE i \in DOMAIN segs : Routed(i, o)

Read(o) ==
  LET s == segs[Route(o)]
  IN  IF o < s.next THEN cache[s.base][o] ELSE Blank

(***************************************************************************)
(* A producer's call                                                       *)
(***************************************************************************)

\* p is inside a critical section of rw_mutex_ that spans several steps.
Holds(p) ==
  \/ pc[p] \in {"roll", "syncdir", "retry"}
  \/ kind[p] = "batch" /\ pc[p] = "append" /\ done[p] > 0
  \/ kind[p] = "batch" /\ pc[p] = "flush"

LockFree(p) == \A q \in Producers \ {p} : ~Holds(q)

\* p goes on at l; p's call returns or throws, and its locals are gone.
Goto(p, l) ==
  /\ pc' = [pc EXCEPT ![p] = l]
  /\ UNCHANGED <<kind, req, done, first>>

Return(p) ==
  /\ pc' = [pc EXCEPT ![p] = "idle"]
  /\ kind' = [kind EXCEPT ![p] = "one"]
  /\ req' = [req EXCEPT ![p] = <<>>]
  /\ done' = [done EXCEPT ![p] = 0]
  /\ first' = [first EXCEPT ![p] = 0]

NextPayload(p) == req[p][done[p] + 1]

FilesTyped ==
  /\ dir \subseteq Bases /\ dirDisk \subseteq dir
  /\ end \in [Bases -> Nat] /\ \A b \in Bases : end[b] \in b .. (b + SegCap)
  /\ endDisk \in [Bases -> Nat] /\ \A b \in Bases : endDisk[b] \in b .. (b + SegCap)
  /\ DOMAIN cache = Bases /\ \A b \in Bases : cache[b] \in [Slots(b) -> Cell]
  /\ DOMAIN disk = Bases /\ \A b \in Bases : disk[b] \in [Slots(b) -> Cell]

JobsTyped ==
  /\ pc \in [Producers -> {"idle", "append", "roll", "syncdir", "retry", "flush"}]
  /\ kind \in [Producers -> {"one", "batch"}]
  /\ req \in [Producers -> Seq(Payloads \cup {Oversized})]
  /\ done \in [Producers -> Nat]
  /\ first \in [Producers -> Nat]

\* The types of the variables; in particular no cell ever holds a record that
\* does not fit in a segment, and no file is longer than max_segment_bytes_.
TypeOK ==
  /\ mode \in {"open", "seal", "dirsync", "up"}
  /\ FilesTyped
  /\ segs \in Seq(OpenSegments)
  /\ JobsTyped
  /\ acked \in [0 .. (MaxOffset - 1) -> Cell]
  /\ flushed \in Nat
  /\ kept \in Nat
  /\ faults \in 0 .. MaxFaults
=============================================================================
