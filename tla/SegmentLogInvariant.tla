------------------------ MODULE SegmentLogInvariant -------------------------
(***************************************************************************)
(* The inductive invariant of SegmentLog, what its operations do to the    *)
(* parts of it, and that appends, flushes, seals and rolls keep it.        *)
(***************************************************************************)
EXTENDS SegmentState, LogAppend, LogRoll, TLAPS

\* b is the file that Log::read looks into for offset o: the last one that
\* starts at or below o.
Home(b, o) == b \in dir /\ b <= o /\ \A c \in dir : c <= o => c <= b

\* No file lies beyond what has been msynced.
Bounds == flushed <= kept /\ \A b \in dir : b <= flushed

\* A file that does not exist has no length and no contents, and none has a
\* record beyond the bound.
Absent ==
  /\ \A b \in Bases \ dir : end[b] = b /\ endDisk[b] = b /\ \A o \in Slots(b) : cache[b][o] = Blank
  /\ \A b \in Bases : \A o \in Slots(b) : o >= MaxOffset => cache[b][o] = Blank /\ disk[b][o] = Blank

\* Below kept, every offset has a file, and replay accepts the record there.
Covered == \A o \in 0 .. (kept - 1) : \E b \in dir : Home(b, o)
Kept == \A o \in 0 .. (kept - 1) : \A b \in dir : Home(b, o) => o < end[b] /\ Valid(cache[b][o], o)

\* Below flushed, nothing of a record is left to be written back.
Stable ==
  "power" \in Faults => \A o \in 0 .. (flushed - 1) : \A b \in dir : Home(b, o) =>
    b \in dirDisk /\ disk[b][o] = cache[b][o] /\ o < endDisk[b]

\* What has been acknowledged is what the file holds.
Acked ==
  \A o \in DOMAIN acked : acked[o] # Blank =>
    /\ o < kept
    /\ PerMessage => o < flushed
    /\ \A b \in dir : Home(b, o) => cache[b][o] = acked[o]

\* A file ends at or below flushed, or is followed by a durable one, or is the
\* last one and of full size; its durable length is an earlier length of it.
Lengths ==
  \A b \in dir :
    /\ endDisk[b] \in {b, end[b], b + SegCap}
    /\ \/ end[b] <= flushed
       \/ \E c \in dirDisk : b < c
       \/ end[b] = b + SegCap /\ \A c \in dir : c <= b

\* The open segments are sorted, routed to, abutting and replayed as far as kept.
Sorted ==
  /\ \A i, j \in DOMAIN segs : i < j => segs[i].base <= segs[j].base
  /\ \A i, j \in DOMAIN segs : i < j /\ segs[i].base = segs[j].base =>
       mode = "up" /\ segs[i].next = segs[i].base
Routes == segs # <<>> => segs[1].base = 0 /\ \A o \in Nat : \E i \in DOMAIN segs : Routed(i, o)
Abutting == \A i \in DOMAIN segs : i < Len(segs) => segs[i + 1].base <= segs[i].next
Segment ==
  \A i \in DOMAIN segs : LET s == segs[i] IN
    /\ s.base \in dir
    /\ s.base <= s.next /\ s.next <= end[s.base]
    /\ \A o \in s.base .. (s.next - 1) : Valid(cache[s.base][o], o)
    /\ ~s.sealed => end[s.base] = s.base + SegCap
    /\ mode = "up" /\ i < Len(segs) => s.sealed

\* Which files are open, and what else the mode says.
Opening ==
  mode = "open" =>
    /\ \A b \in dir : b \in Opened \/ \A c \in Opened : c < b
    /\ segs # <<>> => \A o \in 0 .. (kept - 1) : Home(Last.base, o) => o < Last.next
    /\ segs # <<>> /\ Last.sealed => Last.base < end[Last.base] /\ end[Last.base] < Last.base + SegCap
Sealing ==
  /\ mode \in {"seal", "dirsync"} => \A b \in dir : b \in Opened
  /\ mode = "seal" => /\ Last.next >= kept
                      /\ Last.sealed => Last.base < Last.next /\ Last.next <= flushed /\ end[Last.base] = Last.next
  /\ mode = "dirsync" => dir = {0} /\ kept = 0 /\ Last.next = 0 /\ ~Last.sealed
Serving ==
  mode = "up" =>
    /\ Last.next = kept
    /\ Last.sealed => /\ Last.next <= flushed
                      /\ Last.base < Last.next => end[Last.base] = Last.next
    /\ \A b \in dir : b \in Opened \/ (Last.sealed /\ b = Last.next)
    /\ \A b \in dir : Last.sealed /\ b = Last.next => \A o \in Slots(b) : cache[b][o] = Blank
Modes == (mode # "open" => segs # <<>>) /\ Opening /\ Sealing /\ Serving

\* With strict directory entries and no kill -9, the entry of the active
\* segment is durable except between its creation and fsync_dir.
Entries ==
  "power" \in Faults /\ ~MsyncCoversEntry =>
    /\ mode \in {"open", "seal"} => dirDisk = dir
    /\ mode = "up" /\ (\A p \in Producers : pc[p] # "syncdir") => Last.base \in dirDisk

\* The lock excludes, and a producer's locals describe what it has written.
Mutex == \A p, q \in Producers : p # q => ~(Holds(p) /\ Holds(q))
Calls ==
  \A p \in Producers :
    /\ pc[p] = "idle" => done[p] = 0
    /\ pc[p] # "idle" => mode = "up" /\ Len(req[p]) > 0 /\ done[p] <= Len(req[p])
    /\ pc[p] \notin {"idle", "flush"} => done[p] < Len(req[p])
    /\ pc[p] = "flush" => done[p] = Len(req[p])
    /\ kind[p] = "one" => Len(req[p]) <= 1
    /\ pc[p] = "roll" => Last.sealed
Written ==
  \A p \in Producers : done[p] > 0 =>
    /\ first[p] + done[p] <= kept
    /\ kind[p] = "batch" => first[p] + done[p] = kept
    /\ \A k \in 1 .. done[p] : req[p][k] \in Payloads
    /\ \A k \in 1 .. done[p] : \A b \in dir :
         Home(b, first[p] + k - 1) => cache[b][first[p] + k - 1] = req[p][k]

FileInv == Bounds /\ Absent /\ Covered /\ Kept /\ Stable /\ Acked /\ Lengths
SegInv == Sorted /\ Routes /\ Abutting /\ Segment /\ Modes /\ Entries
CallInv == Mutex /\ Calls /\ Written
IInv == TypeOK /\ FileInv /\ SegInv /\ CallInv

\* What the proofs assume of the environment: frames are never empty, and where
\* both kill -9 and power loss can happen msync also keeps the directory entry.
Environment ==
  /\ Empty \notin Payloads
  /\ MsyncCoversEntry \/ "power" \notin Faults \/ "kill" \notin Faults

\* Below kept, a step leaves every record, and the file it is in, alone.
SameRecords ==
  \A b \in dir' : \A o \in Nat :
    o < kept /\ Home(b, o)' => b \in dir /\ Home(b, o) /\ cache'[b][o] = cache[b][o]

USE SegmentLogAssumption, SMTT(30), ZenonT(30), SMTT(60)

\* What a jump and the end of a call do to a producer's locals.
LEMMA GotoEffect ==
  ASSUME JobsTyped, NEW p \in Producers, 
         NEW l \in {"idle", "append", "roll", "syncdir", "retry", "flush"}, Goto(p, l)
  PROVE  /\ JobsTyped'
         /\ pc'[p] = l
         /\ \A q \in Producers : q # p => pc'[q] = pc[q]
         /\ UNCHANGED <<kind, req, done, first>>
  BY Zenon DEF JobsTyped, Goto

\* A call that ends leaves its own locals at their initial values, and no other call's.
LEMMA ReturnEffect ==
  ASSUME JobsTyped, NEW p \in Producers, Return(p)
  PROVE  /\ JobsTyped'
         /\ pc'[p] = "idle" /\ kind'[p] = "one" /\ req'[p] = <<>> /\ done'[p] = 0 /\ first'[p] = 0
         /\ \A q \in Producers : q # p => /\ pc'[q] = pc[q] /\ kind'[q] = kind[q] /\ req'[q] = req[q]
                                          /\ done'[q] = done[q] /\ first'[q] = first[q]
  BY DEF JobsTyped, Return

\* What an assignment to a segment, and a push_back, do to segments_.
LEMMA SegmentAssigned ==
  ASSUME TypeOK, NEW i \in DOMAIN segs, NEW s \in OpenSegments, segs' = [segs EXCEPT ![i] = s]
  PROVE  /\ segs' \in Seq(OpenSegments) /\ Len(segs') = Len(segs) /\ DOMAIN segs' = DOMAIN segs
         /\ segs'[i] = s
         /\ \A j \in DOMAIN segs : j # i => segs'[j] = segs[j]
  <1>1. segs \in Seq(OpenSegments) /\ i \in 1 .. Len(segs) /\ DOMAIN segs = 1 .. Len(segs)
    BY DEF TypeOK
  <1> QED BY <1>1

\* What push_back does to segments_.
LEMMA SegmentPushed ==
  ASSUME TypeOK, NEW s \in OpenSegments, segs' = Append(segs, s)
  PROVE  /\ segs' \in Seq(OpenSegments) /\ Len(segs') = Len(segs) + 1
         /\ DOMAIN segs' = DOMAIN segs \cup {Len(segs) + 1}
         /\ DOMAIN segs = 1 .. Len(segs) /\ Len(segs) \in Nat
         /\ segs'[Len(segs')] = s /\ segs' # <<>>
         /\ \A j \in DOMAIN segs : segs'[j] = segs[j]
  <1>1. segs \in Seq(OpenSegments) /\ DOMAIN segs = 1 .. Len(segs) /\ Len(segs) \in Nat
    BY DEF TypeOK
  <1> QED BY <1>1

\* A sequence with a length is not the empty one.
LEMMA NonEmpty == ASSUME NEW s, Len(s) > 0 PROVE s # <<>>
  OBVIOUS

\* Log::read goes to the same segment as long as the bases stay.
LEMMA RoutesKept ==
  ASSUME TypeOK, Routes, segs # <<>>, Len(segs') = Len(segs), DOMAIN segs' = DOMAIN segs,
         \A i \in DOMAIN segs : segs'[i].base = segs[i].base
  PROVE  Routes'
  <1>1. DOMAIN segs = 1 .. Len(segs) /\ Len(segs) \in Nat /\ Len(segs) > 0
    BY DEF TypeOK
  <1>2. ASSUME NEW o \in Nat PROVE \E i \in DOMAIN segs' : Routed(i, o)'
    <2>1. PICK i \in DOMAIN segs : Routed(i, o) BY Zenon DEF Routes
    <2>2. i # Len(segs) => i + 1 \in DOMAIN segs BY <1>1
    <2>3. Routed(i, o)' BY <2>1, <2>2, Zenon DEF Routed
    <2> QED BY <2>3, Zenon
  <1>3. 1 \in DOMAIN segs /\ segs[1].base = 0 BY <1>1 DEF Routes
  <1> QED BY <1>2, <1>3, ZenonT(60) DEF Routes

\* The active segment is the last file, unless it is sealed.
LEMMA ActiveSegment ==
  ASSUME IInv, mode # "open"
  PROVE  /\ Len(segs) \in Nat /\ Len(segs) > 0 /\ Len(segs) \in DOMAIN segs
         /\ segs[Len(segs)] = Last
         /\ Last \in OpenSegments
         /\ Last.base \in dir /\ Last.base \in Bases /\ Last.base \in Nat
         /\ Last.next \in Nat /\ Last.base <= Last.next /\ Last.next <= end[Last.base]
         /\ ~Last.sealed => end[Last.base] = Last.base + SegCap
         /\ ~Last.sealed => \A b \in dir : b <= Last.base
         /\ \A b \in dir : b \in Nat
  <1>1. /\ segs \in Seq(OpenSegments)
        /\ segs # <<>> /\ dir \subseteq Bases
    BY Zenon DEF IInv, TypeOK, FilesTyped, SegInv, Modes
  <1>2. /\ Len(segs) \in Nat /\ Len(segs) > 0 /\ Len(segs) \in DOMAIN segs
        /\ segs[Len(segs)] = Last
        /\ Last \in OpenSegments
    BY <1>1 DEF Last
  <1>3. /\ Last.base \in dir
        /\ Last.next \in Nat /\ Last.base <= Last.next /\ Last.next <= end[Last.base]
    BY <1>2, Zenon DEF IInv, SegInv, Segment, Last, OpenSegments
  <1>5. ~Last.sealed => end[Last.base] = Last.base + SegCap
    BY <1>2, Zenon DEF IInv, SegInv, Segment, Last, OpenSegments
  <1>4. ASSUME ~Last.sealed, NEW b \in dir PROVE b <= Last.base
    <2>1. b \in Opened BY <1>4, Zenon DEF IInv, TypeOK, SegInv, Modes, Sealing, Serving
    <2>2. PICK i \in DOMAIN segs : segs[i].base = b BY <2>1, Zenon DEF Opened
    <2>3. CASE i = Len(segs) BY <2>3, <2>2, <1>2, <1>1 DEF Bases
    <2>4. CASE i < Len(segs) BY <2>4, <2>2, <1>2, Zenon DEF IInv, SegInv, Sorted, Last
    <2> QED BY <1>1, <1>2, <2>3, <2>4
  <1> QED BY <1>1, <1>2, <1>3, <1>4, <1>5 DEF Bases, OpenSegments

\* What holds of every open segment.
LEMMA SegmentFacts ==
  ASSUME IInv, NEW i \in DOMAIN segs
  PROVE  /\ i \in 1 .. Len(segs) /\ Len(segs) \in Nat /\ segs[i] \in OpenSegments
         /\ segs[i].base \in dir /\ segs[i].base \in Bases /\ segs[i].base \in Nat
         /\ segs[i].next \in Nat /\ segs[i].base <= segs[i].next
         /\ segs[i].next <= end[segs[i].base] /\ end[segs[i].base] \in Nat
         /\ end[segs[i].base] <= segs[i].base + SegCap
         /\ \A o \in segs[i].base .. (segs[i].next - 1) :
              o \in Slots(segs[i].base) /\ Valid(cache[segs[i].base][o], o)
  <1>1. i \in 1 .. Len(segs) /\ Len(segs) \in Nat /\ segs[i] \in OpenSegments
    BY DEF IInv, TypeOK
  <1>2. segs[i].base \in Bases /\ segs[i].base \in Nat /\ segs[i].next \in Nat
    BY <1>1 DEF OpenSegments, Bases
  <1>3. end[segs[i].base] \in Nat /\ end[segs[i].base] <= segs[i].base + SegCap
    BY <1>2 DEF IInv, TypeOK, FilesTyped
  <1>4. /\ segs[i].base \in dir
        /\ segs[i].base <= segs[i].next /\ segs[i].next <= end[segs[i].base]
        /\ \A o \in segs[i].base .. (segs[i].next - 1) : Valid(cache[segs[i].base][o], o)
    BY Zenon DEF IInv, SegInv, Segment
  <1> QED BY <1>1, <1>2, <1>3, <1>4 DEF Slots

\* A record that must be kept lies in a cell of its file.
LEMMA HomeSlot ==
  ASSUME IInv, NEW o \in Nat, o < kept, NEW b \in dir, Home(b, o)
  PROVE  b \in Bases /\ b \in Nat /\ o \in Slots(b) /\ o < end[b] /\ Valid(cache[b][o], o)
  <1>1. FilesTyped /\ kept \in Nat BY Zenon DEF IInv, TypeOK
  <1>2. b \in Bases /\ b \in Nat BY <1>1 DEF FilesTyped, Bases
  <1>3. end[b] \in b .. (b + SegCap) BY <1>1, <1>2, Zenon DEF FilesTyped
  <1>4. o \in 0 .. (kept - 1) /\ b <= o BY <1>1 DEF Home
  <1>5. o < end[b] /\ Valid(cache[b][o], o) BY <1>4, Zenon DEF IInv, FileInv, Kept
  <1> QED BY <1>2, <1>3, <1>4, <1>5 DEF Slots

\* Acknowledgements stay true as long as the records stay.
LEMMA AckedFrame ==
  ASSUME IInv, SameRecords, UNCHANGED acked,
         kept' \in Nat, kept <= kept', flushed' \in Nat, flushed <= flushed'
  PROVE  Acked'
  <1> SUFFICES ASSUME NEW o \in DOMAIN acked', acked'[o] # Blank
               PROVE  /\ (o < kept)'
                      /\ PerMessage => (o < flushed)'
                      /\ \A b \in dir' : Home(b, o)' => (cache[b][o] = acked[o])'
    BY Zenon DEF Acked
  <1>1. o \in DOMAIN acked /\ o \in Nat /\ acked[o] # Blank /\ acked'[o] = acked[o] BY DEF IInv, TypeOK
  <1>2. /\ o < kept
        /\ PerMessage => o < flushed
        /\ \A b \in dir : Home(b, o) => cache[b][o] = acked[o]
    BY <1>1, Zenon DEF IInv, FileInv, Acked
  <1>3. kept \in Nat /\ flushed \in Nat BY Zenon DEF IInv, TypeOK
  <1>4. \A b \in dir' : Home(b, o)' => (cache[b][o] = acked[o])' BY <1>1, <1>2, Zenon DEF SameRecords
  <1> QED BY <1>1, <1>2, <1>3, <1>4

\* A call that does nothing but leave the log keeps the other calls' view of it.
LEMMA OtherWritten ==
  ASSUME IInv, SameRecords, kept' = kept, NEW q \in Producers, done'[q] > 0,
         UNCHANGED <<kind[q], req[q], done[q], first[q]>>
  PROVE  /\ (first[q] + done[q] <= kept)'
         /\ (kind[q] = "batch" => first[q] + done[q] = kept)'
         /\ \A j \in 1 .. done'[q] : req'[q][j] \in Payloads
         /\ \A j \in 1 .. done'[q] : \A b \in dir' :
              Home(b, first[q] + j - 1)' => (cache[b][first[q] + j - 1] = req[q][j])'
  <1>1. done[q] > 0 /\ done[q] \in Nat /\ first[q] \in Nat /\ kept \in Nat BY Zenon DEF IInv, TypeOK, JobsTyped
  <1>2. /\ first[q] + done[q] <= kept
        /\ kind[q] = "batch" => first[q] + done[q] = kept
        /\ \A j \in 1 .. done[q] : req[q][j] \in Payloads
        /\ \A j \in 1 .. done[q] : \A b \in dir :
             Home(b, first[q] + j - 1) => cache[b][first[q] + j - 1] = req[q][j]
    BY <1>1, Zenon DEF IInv, CallInv, Written
  <1>3. ASSUME NEW j \in 1 .. done'[q], NEW b \in dir', Home(b, first[q] + j - 1)'
        PROVE  (cache[b][first[q] + j - 1] = req[q][j])'
    <2>1. PICK o \in Nat : o = first[q] + j - 1 BY <1>1
    <2>2. o = first'[q] + j - 1 /\ o < kept /\ j \in 1 .. done[q] BY <1>1, <1>2, <2>1
    <2>3. Home(b, o)' BY <1>3, <2>2, Zenon DEF Home
    <2>4. b \in dir /\ Home(b, o) /\ cache'[b][o] = cache[b][o] BY <2>2, <2>3, Zenon DEF SameRecords
    <2> QED BY <1>2, <2>1, <2>2, <2>4, Zenon
  <1> QED BY <1>1, <1>2, <1>3, Zenon

\* A call that returns or throws leaves the other calls as they were.
LEMMA ReturnCallInv ==
  ASSUME IInv, SameRecords, NEW p \in Producers, Return(p), UNCHANGED <<mode, segs, kept>>
  PROVE  CallInv'
  <1>1. /\ JobsTyped /\ JobsTyped'
        /\ pc'[p] = "idle" /\ kind'[p] = "one" /\ req'[p] = <<>> /\ done'[p] = 0 /\ first'[p] = 0
        /\ \A q \in Producers : q # p => /\ pc'[q] = pc[q] /\ kind'[q] = kind[q] /\ req'[q] = req[q]
                                         /\ done'[q] = done[q] /\ first'[q] = first[q]
    BY ReturnEffect, Zenon DEF IInv, TypeOK
  <1>2. Mutex' BY <1>1 DEF IInv, CallInv, Mutex, Holds
  <1>3. Calls' BY <1>1 DEF IInv, CallInv, Calls, Last
  <1>4. Written'
    <2> SUFFICES ASSUME NEW q \in Producers, done'[q] > 0
                 PROVE  /\ (first[q] + done[q] <= kept)'
                        /\ (kind[q] = "batch" => first[q] + done[q] = kept)'
                        /\ \A j \in 1 .. done'[q] : req'[q][j] \in Payloads
                        /\ \A j \in 1 .. done'[q] : \A b \in dir' :
                             Home(b, first[q] + j - 1)' => (cache[b][first[q] + j - 1] = req[q][j])'
      BY Zenon DEF Written
    <2>1. q # p BY <1>1
    <2> QED BY <1>1, <2>1, OtherWritten, Zenon
  <1> QED BY <1>2, <1>3, <1>4, Zenon DEF CallInv

\* A call that holds rw_mutex_ moves on inside its critical section.
LEMMA GotoCallInv ==
  ASSUME IInv, SameRecords, NEW p \in Producers, NEW l \in {"roll", "syncdir", "retry"}, Goto(p, l),
         pc[p] \in {"append", "roll", "syncdir"}, LockFree(p),
         UNCHANGED <<mode, kept>>, l = "roll" => Last'.sealed
  PROVE  CallInv'
  <1>1. /\ JobsTyped /\ JobsTyped' /\ pc'[p] = l
        /\ \A q \in Producers : q # p => pc'[q] = pc[q]
        /\ UNCHANGED <<kind, req, done, first>>
    BY GotoEffect, Zenon DEF IInv, TypeOK
  <1>2. Mutex' BY <1>1 DEF IInv, CallInv, Mutex, Holds, LockFree
  <1>3. Calls' BY <1>1 DEF IInv, CallInv, Calls, LockFree, Holds
  <1>4. Written' BY <1>1, OtherWritten, Zenon DEF Written
  <1> QED BY <1>2, <1>3, <1>4, Zenon DEF CallInv

\* What msync of an open segment makes durable.
LEMMA MsyncEffect ==
  ASSUME IInv, NEW i \in DOMAIN segs, Msync(segs[i])
  PROVE  /\ DOMAIN disk' = Bases /\ \A b \in Bases : disk'[b] \in [Slots(b) -> Cell]
         /\ endDisk' \in [Bases -> Nat] /\ \A b \in Bases : endDisk'[b] \in b .. (b + SegCap)
         /\ dirDisk \subseteq dirDisk' /\ dirDisk' \subseteq dir
         /\ MsyncCoversEntry /\ segs[i].next # segs[i].base => segs[i].base \in dirDisk'
         /\ ~MsyncCoversEntry => dirDisk' = dirDisk
         /\ \A b \in Bases : b # segs[i].base => disk'[b] = disk[b] /\ endDisk'[b] = endDisk[b]
         /\ \A o \in Slots(segs[i].base) :
              disk'[segs[i].base][o] = IF o < segs[i].next THEN cache[segs[i].base][o] ELSE disk[segs[i].base][o]
         /\ endDisk'[segs[i].base] = IF segs[i].next = segs[i].base THEN endDisk[segs[i].base] ELSE end[segs[i].base]
  <1> DEFINE b0 == segs[i].base
             n0 == segs[i].next
  <1>1. b0 \in dir /\ b0 \in Bases /\ b0 \in Nat /\ n0 \in Nat /\ b0 <= n0 BY SegmentFacts, Zenon
  <1>2. FilesTyped BY Zenon DEF IInv, TypeOK
  <1> HIDE DEF b0, n0
  <1>3. CASE n0 = b0
    <2>1. UNCHANGED <<disk, endDisk, dirDisk>> BY <1>3, Zenon DEF Msync, b0, n0
    <2>2. \A o \in Slots(b0) : ~(o < n0) BY <1>1, <1>3 DEF Slots
    <2> QED BY <1>1, <1>2, <1>3, <2>1, <2>2, Zenon DEF FilesTyped, b0, n0
  <1>4. CASE n0 # b0
    <2>1. /\ disk' = [disk EXCEPT ![b0] = [o \in Slots(b0) |-> IF o < n0 THEN cache[b0][o] ELSE disk[b0][o]]]
          /\ endDisk' = [endDisk EXCEPT ![b0] = end[b0]]
          /\ dirDisk' = IF MsyncCoversEntry THEN dirDisk \cup {b0} ELSE dirDisk
      BY <1>1, <1>2, <1>4, Zenon DEF Msync, FilesTyped, b0, n0
    <2>2. disk'[b0] = [o \in Slots(b0) |-> IF o < n0 THEN cache[b0][o] ELSE disk[b0][o]]
      BY <1>1, <1>2, <2>1, Zenon DEF FilesTyped
    <2>3. disk'[b0] \in [Slots(b0) -> Cell] BY <1>1, <1>2, <2>2 DEF FilesTyped
    <2>4. DOMAIN disk' = Bases /\ \A b \in Bases : b # b0 => disk'[b] = disk[b]
      BY <1>1, <1>2, <2>1, Zenon DEF FilesTyped
    <2>5. \A b \in Bases : disk'[b] \in [Slots(b) -> Cell] BY <1>2, <2>3, <2>4, Zenon DEF FilesTyped
    <2>6. /\ endDisk' \in [Bases -> Nat] /\ \A b \in Bases : endDisk'[b] \in b .. (b + SegCap)
          /\ \A b \in Bases : b # b0 => endDisk'[b] = endDisk[b]
          /\ endDisk'[b0] = end[b0]
      BY <1>1, <1>2, <2>1, Zenon DEF FilesTyped
    <2>7. /\ dirDisk \subseteq dirDisk' /\ dirDisk' \subseteq dir
          /\ MsyncCoversEntry => b0 \in dirDisk'
          /\ ~MsyncCoversEntry => dirDisk' = dirDisk
      BY <1>1, <1>2, <2>1, Zenon DEF FilesTyped
    <2> QED BY <1>4, <2>2, <2>4, <2>5, <2>6, <2>7, Zenon DEF b0, n0
  <1> QED BY <1>3, <1>4, Zenon

\* What Segment::seal() does.
LEMMA SealEffect ==
  ASSUME IInv, NEW i \in DOMAIN segs, SealSegment(i)
  PROVE  /\ Msync(segs[i]) /\ dir' = dir /\ FilesTyped'
         /\ segs' \in Seq(OpenSegments) /\ Len(segs') = Len(segs) /\ DOMAIN segs' = DOMAIN segs
         /\ \A j \in DOMAIN segs : segs'[j].base = segs[j].base /\ segs'[j].next = segs[j].next
         /\ \A j \in DOMAIN segs : j # i => segs'[j] = segs[j]
         /\ segs'[i].sealed
         /\ \A b \in Bases : b # segs[i].base => end'[b] = end[b] /\ cache'[b] = cache[b]
         /\ end'[segs[i].base] = segs[i].next
         /\ \A o \in Slots(segs[i].base) :
              cache'[segs[i].base][o] = IF o < segs[i].next THEN cache[segs[i].base][o] ELSE Blank
  <1> DEFINE b0 == segs[i].base
             n0 == segs[i].next
             s0 == [segs[i] EXCEPT !.sealed = TRUE]
  <1>1. /\ b0 \in dir /\ b0 \in Bases /\ b0 \in Nat /\ n0 \in Nat /\ b0 <= n0 /\ n0 <= b0 + SegCap
        /\ segs[i] \in OpenSegments
    <2>1. /\ b0 \in dir /\ b0 \in Bases /\ b0 \in Nat /\ n0 \in Nat /\ b0 <= n0 /\ n0 <= end[b0]
          /\ end[b0] \in Nat /\ end[b0] <= b0 + SegCap /\ segs[i] \in OpenSegments
      BY SegmentFacts, Zenon
    <2> QED BY <2>1
  <1>2. FilesTyped /\ TypeOK BY Zenon DEF IInv, TypeOK
  <1>3. /\ Msync(segs[i]) /\ dir' = dir
        /\ end' = [end EXCEPT ![b0] = n0]
        /\ cache' = [cache EXCEPT ![b0] = [o \in Slots(b0) |-> IF o < n0 THEN cache[b0][o] ELSE Blank]]
        /\ segs' = [segs EXCEPT ![i] = s0]
    BY <1>1, <1>2, Zenon DEF SealSegment, FilesTyped
  <1>4. s0 \in OpenSegments /\ s0.base = b0 /\ s0.next = n0 /\ s0.sealed BY <1>1, ZenonT(60) DEF OpenSegments
  <1> HIDE DEF s0
  <1>5. /\ segs' \in Seq(OpenSegments) /\ Len(segs') = Len(segs) /\ DOMAIN segs' = DOMAIN segs
        /\ segs'[i] = s0 /\ \A j \in DOMAIN segs : j # i => segs'[j] = segs[j]
    BY <1>2, <1>3, <1>4, SegmentAssigned, ZenonT(60)
  <1>6. \A j \in DOMAIN segs : segs'[j].base = segs[j].base /\ segs'[j].next = segs[j].next
    BY <1>4, <1>5, Zenon
  <1> HIDE DEF b0, n0
  <1>7. /\ DOMAIN cache' = Bases /\ \A b \in Bases : b # b0 => cache'[b] = cache[b]
        /\ cache'[b0] = [o \in Slots(b0) |-> IF o < n0 THEN cache[b0][o] ELSE Blank]
    BY <1>1, <1>2, <1>3, Zenon DEF FilesTyped
  <1>8. cache'[b0] \in [Slots(b0) -> Cell] BY <1>1, <1>2, <1>7, Zenon DEF FilesTyped, Cell
  <1>9. /\ end' \in [Bases -> Nat] /\ \A b \in Bases : end'[b] \in b .. (b + SegCap)
        /\ \A b \in Bases : b # b0 => end'[b] = end[b]
        /\ end'[b0] = n0
    BY <1>1, <1>2, <1>3 DEF FilesTyped
  <1>10. FilesTyped'
    <2>1. \A b \in Bases : cache'[b] \in [Slots(b) -> Cell] BY <1>2, <1>7, <1>8, Zenon DEF FilesTyped
    <2>2. /\ DOMAIN disk' = Bases /\ \A b \in Bases : disk'[b] \in [Slots(b) -> Cell]
          /\ endDisk' \in [Bases -> Nat] /\ \A b \in Bases : endDisk'[b] \in b .. (b + SegCap)
          /\ dirDisk' \subseteq dir
      BY <1>3, MsyncEffect, Zenon
    <2>3. dir \subseteq Bases BY <1>2, Zenon DEF FilesTyped
    <2> QED BY <1>3, <1>7, <1>9, <2>1, <2>2, <2>3, Zenon DEF FilesTyped
  <1> QED BY <1>3, <1>4, <1>5, <1>6, <1>7, <1>9, <1>10 DEF b0, n0

\* Sealing a segment that holds all kept records of its file loses none.
LEMMA SealedFiles ==
  ASSUME IInv, NEW i \in DOMAIN segs, SealSegment(i), UNCHANGED kept,
         \A o \in Nat : o < kept /\ Home(segs[i].base, o) => o < segs[i].next
  PROVE  SameRecords /\ Absent' /\ Covered' /\ Kept'
  <1> DEFINE b0 == segs[i].base
             n0 == segs[i].next
  <1>1. b0 \in dir /\ b0 \in Bases /\ b0 \in Nat /\ n0 \in Nat BY SegmentFacts, Zenon
  <1>2. /\ dir' = dir
        /\ \A b \in Bases : b # b0 => end'[b] = end[b] /\ cache'[b] = cache[b]
        /\ end'[b0] = n0
        /\ \A o \in Slots(b0) : cache'[b0][o] = IF o < n0 THEN cache[b0][o] ELSE Blank
    BY SealEffect, Zenon
  <1>3. /\ \A b \in Bases : b # b0 => disk'[b] = disk[b] /\ endDisk'[b] = endDisk[b]
        /\ \A o \in Slots(b0) : disk'[b0][o] = IF o < n0 THEN cache[b0][o] ELSE disk[b0][o]
    BY SealEffect, MsyncEffect, Zenon
  <1>4. ASSUME NEW b \in dir, NEW o \in Nat, o < kept, Home(b, o)
        PROVE  cache'[b][o] = cache[b][o] /\ o < end'[b] /\ Valid(cache[b][o], o)
    <2>1. b \in Bases /\ o \in Slots(b) /\ o < end[b] /\ Valid(cache[b][o], o) BY <1>4, HomeSlot, Zenon
    <2>2. CASE b = b0 BY <1>1, <1>2, <1>4, <2>1, <2>2, Zenon
    <2>3. CASE b # b0 BY <1>2, <2>1, <2>3, Zenon
    <2> QED BY <2>2, <2>3, Zenon
  <1> HIDE DEF b0, n0
  <1>5. SameRecords BY <1>2, <1>4, Zenon DEF SameRecords, Home
  <1>6. Absent'
    <2>0. Absent BY Zenon DEF IInv, FileInv
    <2>1. ASSUME NEW b \in Bases \ dir
          PROVE  end'[b] = b /\ endDisk'[b] = b /\ \A o \in Slots(b) : cache'[b][o] = Blank
      <3>1. end[b] = b /\ endDisk[b] = b /\ \A o \in Slots(b) : cache[b][o] = Blank BY <2>0, Zenon DEF Absent
      <3>2. b \in Bases /\ b # b0 BY <1>1, Zenon
      <3>3. end'[b] = end[b] /\ cache'[b] = cache[b] /\ endDisk'[b] = endDisk[b] BY <1>2, <1>3, <3>2, Zenon
      <3> QED BY <3>1, <3>3, Zenon
    <2>2. ASSUME NEW b \in Bases, NEW o \in Slots(b), o >= MaxOffset
          PROVE  cache'[b][o] = Blank /\ disk'[b][o] = Blank
      <3>1. cache[b][o] = Blank /\ disk[b][o] = Blank BY <2>0, <2>2, Zenon DEF Absent
      <3>2. CASE b = b0 BY <1>2, <1>3, <2>2, <3>1, <3>2, Zenon
      <3>3. CASE b # b0 BY <1>2, <1>3, <2>2, <3>1, <3>3, Zenon
      <3> QED BY <3>2, <3>3, Zenon
    <2> QED BY <1>2, <2>1, <2>2, Zenon DEF Absent
  <1>7. Covered' BY <1>2, Zenon DEF IInv, FileInv, Covered, Home
  <1>8. Kept'
    <2> SUFFICES ASSUME NEW o \in 0 .. (kept' - 1), NEW b \in dir', Home(b, o)'
                 PROVE  (o < end[b] /\ Valid(cache[b][o], o))'
      BY Zenon DEF Kept
    <2>1. o \in Nat /\ o < kept /\ b \in dir /\ Home(b, o) BY <1>2 DEF Home, IInv, TypeOK
    <2> QED BY <1>4, <2>1 DEF Valid
  <1> QED BY <1>5, <1>6, <1>7, <1>8, Zenon

\* Sealing a segment leaves routing and the other segments alone.
LEMMA SealedSegments ==
  ASSUME IInv, NEW i \in DOMAIN segs, SealSegment(i), UNCHANGED mode, mode = "up" => i = Len(segs)
  PROVE  Sorted' /\ Routes' /\ Abutting' /\ Segment'
  <1>1. /\ dir' = dir /\ FilesTyped'
        /\ segs' \in Seq(OpenSegments) /\ Len(segs') = Len(segs) /\ DOMAIN segs' = DOMAIN segs
        /\ \A j \in DOMAIN segs : segs'[j].base = segs[j].base /\ segs'[j].next = segs[j].next
        /\ \A j \in DOMAIN segs : j # i => segs'[j] = segs[j]
        /\ segs'[i].sealed
        /\ \A b \in Bases : b # segs[i].base => end'[b] = end[b] /\ cache'[b] = cache[b]
        /\ end'[segs[i].base] = segs[i].next
        /\ \A o \in Slots(segs[i].base) :
             cache'[segs[i].base][o] = IF o < segs[i].next THEN cache[segs[i].base][o] ELSE Blank
    BY SealEffect, Zenon
  <1>2. Len(segs) \in Nat /\ DOMAIN segs = 1 .. Len(segs) /\ segs # <<>> BY DEF IInv, TypeOK
  <1>3. Sorted' BY <1>1 DEF IInv, SegInv, Sorted
  <1>4. Routes' BY <1>1, <1>2, RoutesKept, Zenon DEF IInv, SegInv
  <1>5. Abutting' BY <1>1, <1>2 DEF IInv, SegInv, Abutting
  <1>6. Segment'
    <2> SUFFICES ASSUME NEW j \in DOMAIN segs
                 PROVE  /\ (segs[j].base \in dir)'
                        /\ (segs[j].base <= segs[j].next /\ segs[j].next <= end[segs[j].base])'
                        /\ \A o \in (segs[j].base .. (segs[j].next - 1))' :
                             (Valid(cache[segs[j].base][o], o))'
                        /\ (~segs[j].sealed => end[segs[j].base] = segs[j].base + SegCap)'
                        /\ (mode = "up" /\ j < Len(segs) => segs[j].sealed)'
      BY <1>1, Zenon DEF Segment
    <2>1. /\ segs[j].base \in dir /\ segs[j].base \in Bases /\ segs[j].base \in Nat
          /\ segs[j].next \in Nat /\ segs[j].base <= segs[j].next /\ segs[j].next <= end[segs[j].base]
          /\ \A o \in segs[j].base .. (segs[j].next - 1) :
               o \in Slots(segs[j].base) /\ Valid(cache[segs[j].base][o], o)
      BY SegmentFacts, Zenon
    <2>2. /\ ~segs[j].sealed => end[segs[j].base] = segs[j].base + SegCap
          /\ mode = "up" /\ j < Len(segs) => segs[j].sealed
      BY Zenon DEF IInv, SegInv, Segment
    <2>3. CASE j = i BY <1>1, <2>1, <2>3 DEF Valid
    <2>4. CASE j # i /\ segs[j].base # segs[i].base BY <1>1, <2>1, <2>2, <2>4, ZenonT(60) DEF Valid
    <2>5. CASE j # i /\ segs[j].base = segs[i].base
      <3>1. segs[i].base <= segs[i].next /\ segs[i].next \in Nat BY SegmentFacts, Zenon
      <3>2. mode = "up" /\ i = Len(segs) /\ j < i BY <1>2, <2>5 DEF IInv, SegInv, Sorted
      <3>3. segs[j].next = segs[j].base BY <2>5, <3>2, Zenon DEF IInv, SegInv, Sorted
      <3>4. segs[j].sealed BY <2>2, <3>2, Zenon
      <3>5. segs[j].base <= segs[j].next /\ segs[j].next <= segs[i].next BY <2>1, <2>5, <3>1, <3>3, Zenon
      <3>6. \A o \in segs[j].base .. (segs[j].next - 1) : FALSE BY <2>1, <3>3
      <3>7. segs'[j] = segs[j] /\ dir' = dir /\ end'[segs[j].base] = segs[i].next BY <1>1, <2>5, Zenon
      <3> QED BY <2>1, <3>4, <3>5, <3>6, <3>7, Zenon
    <2> QED BY <2>3, <2>4, <2>5, Zenon
  <1> QED BY <1>3, <1>4, <1>5, <1>6, Zenon

\* What the Segment constructor and push_back do.
LEMMA OpenEffect ==
  ASSUME IInv, NEW b \in Bases, OpenSegment(b)
  PROVE  \E m \in Nat, e \in Nat :
           /\ e = IF b \notin dir \/ end[b] = b THEN b + SegCap ELSE end[b]
           /\ b <= m /\ m <= e /\ e <= b + SegCap
           /\ segs' \in Seq(OpenSegments) /\ Len(segs') = Len(segs) + 1 /\ Len(segs) \in Nat
           /\ DOMAIN segs = 1 .. Len(segs) /\ DOMAIN segs' = DOMAIN segs \cup {Len(segs) + 1}
           /\ segs' # <<>> /\ \A j \in DOMAIN segs : segs'[j] = segs[j]
           /\ Last' = segs'[Len(segs) + 1]
           /\ Last'.base = b /\ Last'.next = m /\ (Last'.sealed <=> e < b + SegCap)
           /\ dir' = dir \cup {b}
           /\ end' \in [Bases -> Nat] /\ \A c \in Bases : end'[c] \in c .. (c + SegCap)
           /\ end'[b] = e /\ \A c \in Bases : c # b => end'[c] = end[c]
           /\ DOMAIN cache' = Bases /\ \A c \in Bases : cache'[c] \in [Slots(c) -> Cell]
           /\ \A c \in Bases : c # b => cache'[c] = cache[c]
           /\ b \notin dir \/ end[b] = b => \A o \in Slots(b) : cache'[b][o] = Blank
           /\ ~(b \notin dir \/ end[b] = b) => cache'[b] = cache[b]
           /\ \A o \in b .. (m - 1) : Valid(cache'[b][o], o)
           /\ m < e => ~Valid(cache'[b][m], m)
  <1> DEFINE fresh == b \notin dir \/ end[b] = b
             e == IF fresh THEN b + SegCap ELSE end[b]
             cells == IF fresh THEN [o \in Slots(b) |-> Blank] ELSE cache[b]
  <1>1. FilesTyped /\ TypeOK /\ b \in Nat BY DEF IInv, TypeOK, Bases
  <1>2. e \in Nat /\ e \in b .. (b + SegCap) BY <1>1 DEF FilesTyped
  <1>3. cells \in [Slots(b) -> Cell] BY <1>1, Zenon DEF FilesTyped, Cell
  <1>4. PICK m \in b .. e :
          /\ ReplayEnds(cells, b, e, m)
          /\ segs' = Append(segs, [base |-> b, next |-> m, sealed |-> e < b + SegCap])
          /\ dir' = dir \cup {b}
          /\ end' = [end EXCEPT ![b] = e]
          /\ cache' = [cache EXCEPT ![b] = cells]
    BY Zenon DEF OpenSegment
  <1> DEFINE s0 == [base |-> b, next |-> m, sealed |-> e < b + SegCap]
  <1> HIDE DEF e, cells
  <1>5. s0 \in OpenSegments /\ s0.base = b /\ s0.next = m /\ (s0.sealed <=> e < b + SegCap)
    <2>1. b \in Bases /\ m \in Nat /\ (e < b + SegCap) \in BOOLEAN BY <1>1, <1>2
    <2>2. s0 \in OpenSegments BY <2>1, ZenonT(60) DEF OpenSegments
    <2>3. s0.base = b /\ s0.next = m BY <2>1, Zenon
    <2>4. s0.sealed <=> e < b + SegCap BY ZenonT(60)
    <2> QED BY <2>2, <2>3, <2>4, Zenon
  <1>6. segs' = Append(segs, s0) BY <1>4, Zenon
  <1> HIDE DEF s0
  <1>7. /\ segs' \in Seq(OpenSegments) /\ Len(segs') = Len(segs) + 1
        /\ DOMAIN segs' = DOMAIN segs \cup {Len(segs) + 1}
        /\ DOMAIN segs = 1 .. Len(segs) /\ Len(segs) \in Nat
        /\ segs'[Len(segs')] = s0 /\ segs' # <<>>
        /\ \A j \in DOMAIN segs : segs'[j] = segs[j]
    BY <1>1, <1>5, <1>6, SegmentPushed, Zenon
  <1>8. /\ end' \in [Bases -> Nat] /\ \A c \in Bases : end'[c] \in c .. (c + SegCap)
        /\ end'[b] = e /\ \A c \in Bases : c # b => end'[c] = end[c]
    BY <1>1, <1>2, <1>4, Zenon DEF FilesTyped
  <1>9. /\ DOMAIN cache' = Bases /\ cache'[b] = cells
        /\ \A c \in Bases : c # b => cache'[c] = cache[c]
    BY <1>1, <1>4, Zenon DEF FilesTyped
  <1>10. \A c \in Bases : cache'[c] \in [Slots(c) -> Cell] BY <1>1, <1>3, <1>9, ZenonT(60) DEF FilesTyped
  <1>11. /\ fresh => \A o \in Slots(b) : cells[o] = Blank
         /\ ~fresh => cells = cache[b]
    BY Zenon DEF cells
  <1>12. e = IF fresh THEN b + SegCap ELSE end[b] BY Zenon DEF e
  <1>13. m \in Nat /\ b <= m /\ m <= e /\ e <= b + SegCap BY <1>1, <1>2, <1>4
  <1>14. (\A o \in b .. (m - 1) : Valid(cells[o], o)) /\ (m < e => ~Valid(cells[m], m))
    BY <1>4, Zenon DEF ReplayEnds
  <1>15. /\ Last' = segs'[Len(segs) + 1]
         /\ Last'.base = b /\ Last'.next = m /\ (Last'.sealed <=> e < b + SegCap)
    BY <1>5, <1>7, Zenon DEF Last
  <1> HIDE DEF fresh
  <1>16. cache'[b] = cells BY <1>9, Zenon
  <1>17. (\A o \in b .. (m - 1) : Valid(cache'[b][o], o)) /\ (m < e => ~Valid(cache'[b][m], m))
    BY <1>14, <1>16, Zenon
  <1>18. /\ fresh => \A o \in Slots(b) : cache'[b][o] = Blank
         /\ ~fresh => cache'[b] = cache[b]
    BY <1>11, <1>16, Zenon
  <1> USE <1>2, <1>13
  <1> WITNESS m \in Nat, e \in Nat
  <1> QED BY <1>2, <1>4, <1>7, <1>8, <1>9, <1>10, <1>12, <1>13, <1>15, <1>17, <1>18, Zenon DEF fresh

\* Log::read routes to a segment that is pushed at or after the last base.
LEMMA RoutesPushed ==
  ASSUME TypeOK, Routes, NEW b \in Nat, segs = <<>> => b = 0,
         Len(segs') = Len(segs) + 1, DOMAIN segs' = DOMAIN segs \cup {Len(segs) + 1},
         \A j \in DOMAIN segs : segs'[j] = segs[j], segs'[Len(segs) + 1].base = b
  PROVE  Routes'
  <1>1. DOMAIN segs = 1 .. Len(segs) /\ Len(segs) \in Nat BY DEF TypeOK
  <1>2. ASSUME NEW o \in Nat PROVE \E i \in DOMAIN segs' : Routed(i, o)'
    <2>1. CASE o >= b
      <3>1. PICK k \in DOMAIN segs' : k = Len(segs) + 1 BY Zenon
      <3>2. segs'[k].base <= o /\ k = Len(segs') BY <2>1, <3>1, Zenon
      <3>3. Routed(k, o)' BY <3>2, Zenon DEF Routed
      <3> QED BY <3>3, Zenon
    <2>2. CASE o < b
      <3>1. segs # <<>> BY <2>2
      <3>2. PICK i \in DOMAIN segs : Routed(i, o) BY <3>1, Zenon DEF Routes
      <3>3. i # Len(segs) => i + 1 \in DOMAIN segs BY <1>1
      <3>4. i \in DOMAIN segs' /\ segs'[i].base <= o BY <3>2, Zenon DEF Routed
      <3>5. i # Len(segs') /\ o < segs'[i + 1].base BY <1>1, <2>2, <3>2, <3>3 DEF Routed
      <3> QED BY <3>4, <3>5, Zenon DEF Routed
    <2> QED BY <2>1, <2>2
  <1>3. segs'[1].base = 0
    <2>1. CASE segs = <<>>
      <3>1. Len(segs) = 0 BY <2>1, Zenon
      <3> QED BY <2>1, <3>1
    <2>2. CASE segs # <<>>
      <3>1. 1 \in DOMAIN segs BY <1>1, <2>2 DEF TypeOK
      <3> QED BY <2>2, <3>1, Zenon DEF Routes
    <2> QED BY <2>1, <2>2, Zenon
  <1> QED BY <1>2, <1>3, ZenonT(60) DEF Routes

\* A record below a new file's base is in the file it was in, and the new file
\* is the home of no earlier record.
LEMMA NewLastFile ==
  ASSUME IInv, NEW n \in Bases, kept = n, flushed = n, kept' = n, flushed' = n,
         \A b \in dir : b <= n, dir' = dir \cup {n},
         \A b \in Bases : b # n => cache'[b] = cache[b] /\ end'[b] = end[b]
  PROVE  /\ SameRecords /\ Covered' /\ Kept' /\ Bounds'
         /\ UNCHANGED <<dirDisk, disk, endDisk>> => Stable'
  <1>b. dir \subseteq Bases BY Zenon DEF IInv, TypeOK, FilesTyped
  <1>a. /\ n \in Nat /\ kept' = n /\ flushed' = n
        /\ \A b \in dir : b \in Bases /\ b \in Nat
    BY <1>b DEF Bases
  <1>1. ASSUME NEW b \in dir', NEW o \in Nat, o < n, Home(b, o)'
        PROVE  b \in dir /\ b # n /\ Home(b, o) /\ cache'[b][o] = cache[b][o] /\ end'[b] = end[b]
    <2>1. b # n /\ b \in dir BY <1>a, <1>1 DEF Home
    <2>2. Home(b, o) BY <1>a, <1>1, <2>1, Zenon DEF Home
    <2> QED BY <1>a, <2>1, <2>2, Zenon
  <1>2. SameRecords BY <1>1 DEF SameRecords
  <1>3. Covered'
    <2> SUFFICES ASSUME NEW o \in 0 .. (kept' - 1) PROVE \E b \in dir' : Home(b, o)'
      BY Zenon DEF Covered
    <2>1. PICK b \in dir : Home(b, o) BY <1>a, Zenon DEF IInv, FileInv, Covered
    <2>2. o < n /\ o \in Nat BY <1>a
    <2>3. Home(b, o)' BY <1>a, <2>1, <2>2 DEF Home
    <2> QED BY <2>3, Zenon
  <1>4. Kept'
    <2> SUFFICES ASSUME NEW o \in 0 .. (kept' - 1), NEW b \in dir', Home(b, o)'
                 PROVE  (o < end[b] /\ Valid(cache[b][o], o))'
      BY Zenon DEF Kept
    <2>1. o < n /\ o \in Nat BY <1>a
    <2>2. b \in dir /\ Home(b, o) /\ cache'[b][o] = cache[b][o] /\ end'[b] = end[b] BY <1>1, <2>1, Zenon
    <2>3. o < end[b] /\ Valid(cache[b][o], o) BY <2>1, <2>2, HomeSlot, Zenon
    <2> QED BY <2>2, <2>3, Zenon DEF Valid
  <1>5. Bounds' BY <1>a DEF Bounds
  <1>6. ASSUME UNCHANGED <<dirDisk, disk, endDisk>> PROVE Stable'
    <2> SUFFICES ASSUME "power" \in Faults, NEW o \in 0 .. (flushed' - 1), NEW b \in dir', Home(b, o)'
                 PROVE  (b \in dirDisk /\ disk[b][o] = cache[b][o] /\ o < endDisk[b])'
      BY Zenon DEF Stable
    <2>1. o < n /\ o \in Nat /\ o \in 0 .. (flushed - 1) BY <1>a
    <2>2. b \in dir /\ Home(b, o) /\ cache'[b][o] = cache[b][o] BY <1>1, <2>1, Zenon
    <2> QED BY <1>6, <2>1, <2>2, Zenon DEF IInv, FileInv, Stable
  <1> QED BY <1>2, <1>3, <1>4, <1>5, <1>6, Zenon

\* No call runs before the log serves.
LEMMA IdleCallInv ==
  ASSUME IInv, mode # "up", UNCHANGED jobs
  PROVE  CallInv'
  <1>1. \A p \in Producers : pc[p] = "idle" /\ done[p] = 0 BY Zenon DEF IInv, CallInv, Calls
  <1>2. UNCHANGED <<pc, kind, req, done, first>> BY Zenon DEF jobs
  <1>3. Mutex' BY <1>1, <1>2, Zenon DEF IInv, CallInv, Mutex, Holds
  <1>4. Calls' BY <1>1, <1>2, Zenon DEF IInv, CallInv, Calls
  <1>5. Written' BY <1>1, <1>2 DEF Written
  <1> QED BY <1>3, <1>4, <1>5, Zenon DEF CallInv

\* The last open segment has the greatest base.
LEMMA LastSegment ==
  ASSUME IInv, segs # <<>>
  PROVE  /\ Len(segs) \in Nat /\ Len(segs) > 0 /\ Len(segs) \in DOMAIN segs /\ segs[Len(segs)] = Last
         /\ Last.base \in dir /\ Last.base \in Opened /\ Last.base \in Bases /\ Last.base \in Nat
         /\ Last.next \in Nat /\ Last.base <= Last.next /\ Last.next <= end[Last.base]
         /\ end[Last.base] \in Nat /\ end[Last.base] <= Last.base + SegCap
         /\ \A c \in Opened : c \in Nat /\ c <= Last.base
         /\ \A c \in dir : c \in Nat /\ c \in Bases
  <1>1. /\ Len(segs) \in Nat /\ Len(segs) > 0 /\ Len(segs) \in DOMAIN segs /\ segs[Len(segs)] = Last
    BY DEF IInv, TypeOK, Last
  <1>2. /\ Last.base \in dir /\ Last.base \in Bases /\ Last.base \in Nat
        /\ Last.next \in Nat /\ Last.base <= Last.next /\ Last.next <= end[Last.base]
        /\ end[Last.base] \in Nat /\ end[Last.base] <= Last.base + SegCap
    BY <1>1, SegmentFacts, Zenon
  <1>3. ASSUME NEW c \in Opened PROVE c \in Nat /\ c <= Last.base
    <2>1. PICK i \in DOMAIN segs : segs[i].base = c BY <1>3, Zenon DEF Opened
    <2>2. i \in 1 .. Len(segs) /\ segs[i].base \in Nat BY <2>1, SegmentFacts, Zenon
    <2>3. CASE i = Len(segs) BY <1>1, <2>1, <2>2, <2>3
    <2>4. CASE i < Len(segs) BY <1>1, <2>1, <2>2, <2>4, Zenon DEF IInv, SegInv, Sorted
    <2> QED BY <1>1, <2>2, <2>3, <2>4
  <1>4. Last.base \in Opened BY <1>1, Zenon DEF Opened
  <1>5. \A c \in dir : c \in Nat /\ c \in Bases BY DEF IInv, TypeOK, FilesTyped, Bases
  <1> QED BY <1>1, <1>2, <1>3, <1>4, <1>5, Zenon

\* Log::read finds the record of every offset below next_offset(), in the file
\* that is its home, once all files are open.
LEMMA RoutedHome ==
  ASSUME IInv, \A b \in dir : b \in Opened \/ Last.next <= b, NEW o \in Nat, segs # <<>>, o < Last.next,
         NEW i \in DOMAIN segs, Routed(i, o)
  PROVE  /\ Home(segs[i].base, o) /\ segs[i].base <= o /\ o < segs[i].next
         /\ o < end[segs[i].base] /\ Valid(cache[segs[i].base][o], o)
  <1>1. /\ Len(segs) \in Nat /\ i \in 1 .. Len(segs) /\ DOMAIN segs = 1 .. Len(segs)
        /\ segs[Len(segs)] = Last /\ Last.next \in Nat
        /\ \A c \in dir : c \in Nat
    BY LastSegment, SegmentFacts DEF IInv, TypeOK
  <1>2. /\ segs[i].base <= o
        /\ i < Len(segs) => o < segs[i + 1].base
    BY <1>1 DEF Routed
  <1>3. /\ segs[i].base \in dir /\ segs[i].base \in Nat /\ segs[i].next \in Nat
        /\ segs[i].next <= end[segs[i].base] /\ end[segs[i].base] \in Nat
        /\ \A x \in segs[i].base .. (segs[i].next - 1) : Valid(cache[segs[i].base][x], x)
    BY SegmentFacts, Zenon
  <1>4. ASSUME NEW c \in dir, c <= o PROVE c <= segs[i].base
    <2>1. c \in Opened BY <1>1, <1>4
    <2>2. PICK j \in DOMAIN segs : segs[j].base = c BY <2>1, Zenon DEF Opened
    <2>3. CASE j = i BY <1>3, <2>2, <2>3
    <2>4. CASE j < i BY <2>2, <2>4, Zenon DEF IInv, SegInv, Sorted
    <2>5. CASE j > i
      <3>1. i + 1 \in DOMAIN segs /\ i < Len(segs) BY <1>1, <2>2, <2>5
      <3>2. segs[i + 1].base \in Nat BY <3>1, SegmentFacts, Zenon
      <3>3. segs[i + 1].base <= c
        <4>1. CASE j = i + 1 BY <2>2, <3>2, <4>1
        <4>2. CASE i + 1 < j BY <2>2, <3>1, <4>2, Zenon DEF IInv, SegInv, Sorted
        <4> QED BY <1>1, <2>5, <4>1, <4>2
      <3> QED BY <1>1, <1>2, <1>4, <3>1, <3>2, <3>3
    <2> QED BY <1>1, <2>3, <2>4, <2>5
  <1>5. o < segs[i].next
    <2>1. CASE i = Len(segs) BY <1>1, <2>1, Zenon
    <2>2. CASE i < Len(segs)
      <3>1. i + 1 \in DOMAIN segs BY <1>1, <2>2
      <3>2. segs[i + 1].base \in Nat BY <3>1, SegmentFacts, Zenon
      <3>3. segs[i + 1].base <= segs[i].next BY <2>2, Zenon DEF IInv, SegInv, Abutting
      <3> QED BY <1>2, <1>3, <2>2, <3>2, <3>3
    <2> QED BY <1>1, <2>1, <2>2
  <1>6. Home(segs[i].base, o) BY <1>2, <1>3, <1>4, Zenon DEF Home
  <1>7. o \in segs[i].base .. (segs[i].next - 1) BY <1>2, <1>3, <1>5
  <1> QED BY <1>2, <1>3, <1>5, <1>6, <1>7

\* Once the active segment is msynced, nothing below next_offset() is left to
\* write back: the sealed segments were msynced by seal().
LEMMA MsyncStable ==
  ASSUME IInv, mode = "up", Msync(Last), flushed' = Last.next, UNCHANGED dir, SameRecords,
         "power" \in Faults /\ ~MsyncCoversEntry => Last.base \in dirDisk
  PROVE  Stable'
  <1> SUFFICES ASSUME "power" \in Faults, NEW o \in 0 .. (flushed' - 1), NEW b \in dir', Home(b, o)'
               PROVE  (b \in dirDisk /\ disk[b][o] = cache[b][o] /\ o < endDisk[b])'
    BY Zenon DEF Stable
  <1>1. /\ Last.next = kept /\ kept \in Nat /\ flushed \in Nat /\ flushed <= kept
        /\ \A c \in dir : c <= flushed /\ c \in Nat
    BY ActiveSegment, Zenon DEF IInv, TypeOK, FileInv, Bounds, SegInv, Modes, Serving
  <1>2. o \in Nat /\ o < kept /\ o \in 0 .. (kept - 1) BY <1>1
  <1>3. b \in dir /\ Home(b, o) /\ cache'[b][o] = cache[b][o] BY <1>2, Zenon DEF SameRecords
  <1>4. b \in Bases /\ b \in Nat /\ o \in Slots(b) /\ o < end[b] BY <1>2, <1>3, HomeSlot, Zenon
  <1>5. Len(segs) \in DOMAIN segs /\ segs[Len(segs)] = Last BY ActiveSegment, Zenon
  <1>6. /\ dirDisk \subseteq dirDisk'
        /\ MsyncCoversEntry /\ Last.next # Last.base => Last.base \in dirDisk'
        /\ b # Last.base => disk'[b] = disk[b] /\ endDisk'[b] = endDisk[b]
        /\ b = Last.base => disk'[b][o] = IF o < Last.next THEN cache[b][o] ELSE disk[b][o]
        /\ b = Last.base => endDisk'[b] = IF Last.next = Last.base THEN endDisk[b] ELSE end[b]
    BY <1>4, <1>5, MsyncEffect
  <1>7. CASE b = Last.base
    <2>1. Last.next # Last.base BY <1>1, <1>2, <1>3, <1>7 DEF Home
    <2> QED BY <1>1, <1>2, <1>3, <1>4, <1>6, <1>7, <2>1, ZenonT(60)
  <1>8. CASE b # Last.base
    <2>1. o < flushed
      <3>1. CASE Last.sealed BY <1>1, <1>2, <3>1 DEF IInv, SegInv, Modes, Serving
      <3>2. CASE ~Last.sealed
        <4>1. Last.base \in dir /\ Last.base \in Nat /\ b <= Last.base BY <1>3, <3>2, ActiveSegment, Zenon
        <4>2. ~(Last.base <= o) BY <1>3, <1>4, <1>8, <4>1 DEF Home
        <4> QED BY <1>1, <1>2, <4>1, <4>2
      <3> QED BY <3>1, <3>2, Zenon
    <2>2. b \in dirDisk /\ disk[b][o] = cache[b][o] /\ o < endDisk[b]
      BY <1>1, <1>2, <1>3, <2>1 DEF IInv, FileInv, Stable
    <2> QED BY <1>3, <1>6, <1>8, <2>2, Zenon
  <1> QED BY <1>7, <1>8, Zenon

(***************************************************************************)
(* What appends, flushes, seals and rolls do to the invariant              *)
(***************************************************************************)

\* A call that is not at the log does not touch it.
LEMMA PublishStep ==
  ASSUME IInv, NEW p \in Producers, NEW payloads \in Seq(Payloads \cup {Oversized}),
         NEW k \in {"one", "batch"}, Len(payloads) > 0, k = "one" => Len(payloads) <= 1,
         Publish(p, payloads, k)
  PROVE  IInv' /\ SameRecords
  <1>1. TypeOK' BY Zenon DEF IInv, TypeOK, FilesTyped, JobsTyped, Publish, files
  <1>2. FileInv'
    BY DEF IInv, FileInv, Bounds, Absent, Covered, Kept, Stable, Acked, Lengths, Home, Publish, files
  <1>3. SegInv'
    <2>1. Sorted' /\ Routes' /\ Abutting' /\ Segment'
      BY ZenonT(60) DEF IInv, SegInv, Sorted, Routes, Routed, Abutting, Segment, Publish, files
    <2>2. Modes' BY Zenon DEF IInv, SegInv, Modes, Opening, Sealing, Serving, Opened, Home, Last, Publish, files
    <2>3. Entries' BY Zenon DEF IInv, TypeOK, JobsTyped, SegInv, Entries, Last, Publish, files
    <2> QED BY <2>1, <2>2, <2>3, Zenon DEF SegInv
  <1>4. Mutex' BY DEF IInv, TypeOK, JobsTyped, CallInv, Mutex, Calls, Holds, Publish
  <1>5. Calls' BY DEF IInv, TypeOK, JobsTyped, CallInv, Calls, Last, Publish
  <1>6. Written'
    <2> SUFFICES ASSUME NEW q \in Producers, done'[q] > 0
                 PROVE  /\ (first[q] + done[q] <= kept)'
                        /\ (kind[q] = "batch" => first[q] + done[q] = kept)'
                        /\ \A j \in 1 .. done'[q] : req'[q][j] \in Payloads
                        /\ \A j \in 1 .. done'[q] : \A b \in dir' :
                             Home(b, first[q] + j - 1)' => (cache[b][first[q] + j - 1] = req[q][j])'
      BY Zenon DEF Written
    <2>1. q # p BY DEF IInv, TypeOK, JobsTyped, CallInv, Calls, Publish
    <2> QED BY <2>1 DEF IInv, TypeOK, JobsTyped, CallInv, Written, Home, Publish, files
  <1>7. SameRecords BY Zenon DEF SameRecords, Home, Publish, files
  <1> QED BY <1>7, <1>1, <1>2, <1>3, <1>4, <1>5, <1>6, Zenon DEF IInv, CallInv

\* Segment::append keeps the invariant: the new record lies at kept, in the last
\* file, and a batch's records are consecutive because rw_mutex_ is held.
LEMMA AppendStep ==
  ASSUME IInv, Empty \notin Payloads, NEW p \in Producers, Append1(p)
  PROVE  IInv' /\ SameRecords
  <1> DEFINE n == Last.next
             lb == Last.base
             v == NextPayload(p)
             start == IF done[p] = 0 THEN n ELSE first[p]
  <1>1. /\ mode = "up" /\ ~Last.sealed /\ done[p] < Len(req[p]) /\ n = kept
        /\ v \in Payloads /\ n < lb + SegCap /\ n < MaxOffset
    <2>1. /\ mode = "up" /\ done[p] < Len(req[p])
          /\ done[p] \in Nat /\ req[p] \in Seq(Payloads \cup {Oversized})
      BY ZenonT(60) DEF IInv, TypeOK, JobsTyped, CallInv, Calls, Append1
    <2>2. /\ ~Last.sealed /\ v # Oversized /\ n < lb + SegCap /\ n < MaxOffset
      BY Zenon DEF Append1, HasRoom
    <2>3. n = kept BY <2>1, Zenon DEF IInv, SegInv, Modes, Serving
    <2> QED BY <2>1, <2>2, <2>3 DEF NextPayload
  <1>2. /\ n \in Nat /\ lb \in Nat /\ lb \in Bases /\ lb \in dir /\ lb <= n /\ n \in Slots(lb)
        /\ end[lb] = lb + SegCap /\ \A b \in dir : b \in Nat /\ b <= lb
        /\ Len(segs) \in Nat /\ Len(segs) > 0 /\ Len(segs) \in DOMAIN segs /\ segs[Len(segs)] = Last
    BY <1>1, ActiveSegment DEF Slots
  <1>3. /\ cache' = [cache EXCEPT ![lb][n] = v]
        /\ segs' = [segs EXCEPT ![Len(segs)].next = n + 1]
        /\ kept' = n + 1
        /\ UNCHANGED <<mode, dir, dirDisk, end, endDisk, disk, flushed, faults>>
    BY <1>2, Zenon DEF Append1
  <1>4. /\ \A b \in Bases : \A o \in Slots(b) : b # lb \/ o # n => cache'[b][o] = cache[b][o]
        /\ cache'[lb][n] = v
    BY <1>2, <1>3 DEF IInv, TypeOK, FilesTyped
  <1>5. /\ segs' \in Seq(OpenSegments) /\ Len(segs') = Len(segs) /\ DOMAIN segs' = DOMAIN segs
        /\ \A i \in DOMAIN segs : /\ segs'[i].base = segs[i].base
                                  /\ segs'[i].sealed = segs[i].sealed
                                  /\ i # Len(segs) => segs'[i].next = segs[i].next
        /\ segs'[Len(segs)].next = n + 1
        /\ Last'.next = n + 1 /\ Last'.base = lb /\ Last'.sealed = Last.sealed
    <2> DEFINE s == [Last EXCEPT !.next = n + 1]
    <2>1. s \in OpenSegments /\ s.next = n + 1 /\ s.base = lb /\ s.sealed = Last.sealed
      BY <1>1, ActiveSegment DEF OpenSegments
    <2>2. segs' = [segs EXCEPT ![Len(segs)] = s] BY <1>2, <1>3, Zenon
    <2> HIDE DEF s
    <2> QED BY <1>2, <2>1, <2>2, SegmentAssigned, ZenonT(60) DEF IInv, Last
  <1>6. /\ JobsTyped'
        /\ \A q \in Producers : q # p => /\ pc'[q] = pc[q] /\ kind'[q] = kind[q] /\ req'[q] = req[q]
                                         /\ done'[q] = done[q] /\ first'[q] = first[q]
        /\ \/ /\ pc'[p] = "idle" /\ kind'[p] = "one" /\ req'[p] = <<>> /\ done'[p] = 0 /\ first'[p] = 0
              /\ done[p] + 1 = Len(req[p]) /\ ~PerMessage
              /\ acked' = Acknowledge(p, start, Len(req[p]))
           \/ /\ pc'[p] = IF done[p] + 1 = Len(req[p]) THEN "flush" ELSE "append"
              /\ kind'[p] = kind[p] /\ req'[p] = req[p] /\ done'[p] = done[p] + 1 /\ first'[p] = start
              /\ acked' = acked
    <2>1. CASE done[p] + 1 = Len(req[p]) /\ ~PerMessage
      <3>1. Return(p) /\ acked' = Acknowledge(p, start, Len(req[p])) BY <2>1, Zenon DEF Append1
      <3> QED BY <2>1, <3>1, ReturnEffect, Zenon DEF IInv, TypeOK
    <2>2. CASE ~(done[p] + 1 = Len(req[p]) /\ ~PerMessage)
      <3>1. /\ pc' = [pc EXCEPT ![p] = IF done[p] + 1 = Len(req[p]) THEN "flush" ELSE "append"]
            /\ done' = [done EXCEPT ![p] = @ + 1]
            /\ first' = [first EXCEPT ![p] = start]
            /\ UNCHANGED <<kind, req, acked>>
        BY <2>2, Zenon DEF Append1
      <3>2. start \in Nat /\ JobsTyped BY <1>2, Zenon DEF IInv, TypeOK, JobsTyped
      <3> HIDE DEF start
      <3> QED BY <3>1, <3>2 DEF JobsTyped
    <2> QED BY <2>1, <2>2, Zenon
  <1>7. /\ JobsTyped /\ FilesTyped
        /\ done[p] \in Nat /\ first[p] \in Nat /\ Len(req[p]) \in Nat
        /\ start \in Nat /\ start + done[p] = n
        /\ \A k \in 1 .. (done[p] + 1) : req[p][k] \in Payloads
        /\ \A k \in 1 .. (done[p] + 1) : \A b \in dir :
             Home(b, start + k - 1) => cache'[b][start + k - 1] = req[p][k]
    <2>1. /\ JobsTyped /\ FilesTyped
          /\ done[p] \in Nat /\ first[p] \in Nat /\ Len(req[p]) \in Nat /\ start \in Nat
      <3>1. JobsTyped /\ FilesTyped BY Zenon DEF IInv, TypeOK
      <3>2. done[p] \in Nat /\ first[p] \in Nat /\ Len(req[p]) \in Nat BY <3>1 DEF JobsTyped
      <3> QED BY <1>2, <3>1, <3>2, Zenon
    <2>2. start + done[p] = n
      <3>1. CASE done[p] = 0 BY <2>1, <1>2, <3>1
      <3>2. CASE done[p] # 0
        <4>1. kind[p] = "batch" BY <1>1, <2>1, <3>2 DEF IInv, CallInv, Calls, JobsTyped
        <4> QED BY <1>1, <2>1, <3>2, <4>1 DEF IInv, CallInv, Written
      <3> QED BY <3>1, <3>2, Zenon
    <2>3. req[p][done[p] + 1] = v BY Zenon DEF NextPayload
    <2> HIDE DEF n, lb, v
    <2>4. ASSUME NEW k \in 1 .. (done[p] + 1) PROVE req[p][k] \in Payloads
      <3>1. CASE k = done[p] + 1 BY <1>1, <2>3, <3>1, Zenon
      <3>2. CASE k < done[p] + 1
        <4>1. done[p] > 0 /\ k \in 1 .. done[p] BY <2>1, <3>2
        <4> QED BY <4>1, Zenon DEF IInv, CallInv, Written
      <3> QED BY <2>1, <3>1, <3>2
    <2>5. ASSUME NEW k \in 1 .. (done[p] + 1), NEW b \in dir, Home(b, start + k - 1)
          PROVE  cache'[b][start + k - 1] = req[p][k]
      <3>1. CASE k = done[p] + 1
        <4>1. start + k - 1 = n BY <2>1, <2>2, <3>1, <1>2
        <4>2. b = lb BY <1>2, <2>5, <4>1 DEF Home
        <4> QED BY <1>4, <2>3, <3>1, <4>1, <4>2, Zenon
      <3>2. CASE k < done[p] + 1
        <4>1. done[p] > 0 /\ k \in 1 .. done[p] /\ start = first[p] BY <2>1, <3>2
        <4>2. cache[b][start + k - 1] = req[p][k] BY <2>5, <4>1 DEF IInv, CallInv, Written
        <4>3. start + k - 1 \in Nat /\ start + k - 1 < n BY <2>1, <2>2, <3>2
        <4>4. cache'[b][start + k - 1] = cache[b][start + k - 1]
          BY <1>1, <1>2, <1>4, <2>5, <4>3, HomeSlot
        <4> QED BY <4>2, <4>4, Zenon
      <3> QED BY <2>1, <3>1, <3>2
    <2> QED BY <2>1, <2>2, <2>4, <2>5, ZenonT(60)
  <1> HIDE DEF n, lb, v, start
  <1>10. TypeOK'
    <2>1. cache'[lb] \in [Slots(lb) -> Cell] /\ DOMAIN cache' = Bases
      BY <1>1, <1>2, <1>3, Zenon DEF IInv, TypeOK, FilesTyped, Cell
    <2>2. \A b \in Bases : cache'[b] \in [Slots(b) -> Cell]
      BY <2>1, <1>2, <1>3, ZenonT(60) DEF IInv, TypeOK, FilesTyped
    <2>3. acked' \in [0 .. (MaxOffset - 1) -> Cell]
      <3>1. CASE acked' = acked BY <3>1, Zenon DEF IInv, TypeOK
      <3>2. CASE acked' = Acknowledge(p, start, Len(req[p])) /\ done[p] + 1 = Len(req[p])
        BY <1>7, <3>2 DEF IInv, TypeOK, Acknowledge, Cell
      <3> QED BY <1>6, <3>1, <3>2, Zenon
    <2>4. FilesTyped' BY <2>1, <2>2, <1>3, Zenon DEF IInv, TypeOK, FilesTyped
    <2> QED BY <1>2, <1>3, <1>5, <1>6, <2>3, <2>4 DEF IInv, TypeOK
  <1>11. FileInv'
    <2>1. Bounds' BY <1>1, <1>2, <1>3 DEF IInv, TypeOK, FileInv, Bounds
    <2>2. Absent'
      <3>1. \A b \in Bases \ dir : end[b] = b /\ endDisk[b] = b /\ \A o \in Slots(b) : cache'[b][o] = Blank
        BY <1>2, <1>4 DEF IInv, FileInv, Absent
      <3>2. \A b \in Bases : \A o \in Slots(b) : o >= MaxOffset => cache'[b][o] = Blank /\ disk[b][o] = Blank
        <4> SUFFICES ASSUME NEW b \in Bases, NEW o \in Slots(b), o >= MaxOffset
                     PROVE  cache'[b][o] = Blank /\ disk[b][o] = Blank
          BY Zenon
        <4>1. cache[b][o] = Blank /\ disk[b][o] = Blank BY Zenon DEF IInv, FileInv, Absent
        <4>2. ~(n >= MaxOffset)
          <5>1. n < MaxOffset BY <1>1, Zenon
          <5>2. n \in Nat BY <1>2, Zenon
          <5> QED BY <5>1, <5>2
        <4>3. o # n BY <4>2, Zenon
        <4> QED BY <1>4, <4>1, <4>3, Zenon
      <3> QED BY <1>3, <3>1, <3>2, ZenonT(60) DEF Absent
    <2>7. Covered'
      <3> SUFFICES ASSUME NEW o \in 0 .. (kept' - 1) PROVE \E b \in dir' : Home(b, o)'
        BY Zenon DEF Covered
      <3>1. CASE o < n
        <4>0. o \in 0 .. (kept - 1) BY <1>1, <1>2, <1>3, <3>1
        <4>1. PICK b \in dir : Home(b, o) BY <4>0, Zenon DEF IInv, FileInv, Covered
        <4> QED BY <1>3, <4>1, Zenon DEF Home
      <3>2. CASE o = n
        <4>1. Home(lb, o) BY <1>2, <3>2, Zenon DEF Home
        <4> QED BY <1>2, <1>3, <4>1, Zenon DEF Home
      <3> QED BY <1>2, <1>3, <3>1, <3>2
    <2>3. Kept'
      <3> SUFFICES ASSUME NEW o \in 0 .. (kept' - 1), NEW b \in dir', Home(b, o)'
                   PROVE  (o < end[b] /\ Valid(cache[b][o], o))'
        BY Zenon DEF Kept
      <3>0. o \in Nat /\ o < n + 1 /\ b \in dir /\ Home(b, o) BY <1>2, <1>3 DEF Home
      <3>1. CASE o < n BY <3>0, <3>1, <1>1, <1>3, <1>4, HomeSlot, Zenon DEF Valid
      <3>2. CASE o = n
        <4>1. b = lb BY <3>0, <3>2, <1>2 DEF Home
        <4> QED BY <3>2, <4>1, <1>1, <1>2, <1>3, <1>4, Zenon DEF Valid
      <3> QED BY <1>2, <3>0, <3>1, <3>2
    <2>4. Stable'
      <3> SUFFICES ASSUME "power" \in Faults, NEW o \in Nat, o < flushed, NEW b \in dir, Home(b, o)
                   PROVE  b \in dirDisk /\ disk[b][o] = cache'[b][o] /\ o < endDisk[b]
        BY <1>3 DEF IInv, TypeOK, Stable, Home
      <3>1. o < n /\ o \in 0 .. (flushed - 1) BY <1>1, <1>2 DEF IInv, FileInv, Bounds, TypeOK
      <3>2. cache'[b][o] = cache[b][o] BY <1>1, <1>2, <1>4, <3>1, HomeSlot
      <3> QED BY <3>1, <3>2, Zenon DEF IInv, FileInv, Stable
    <2>5. Acked'
      <3> SUFFICES ASSUME NEW o \in DOMAIN acked', acked'[o] # Blank
                   PROVE  /\ (o < kept)'
                          /\ PerMessage => (o < flushed)'
                          /\ \A b \in dir' : Home(b, o)' => (cache[b][o] = acked[o])'
        BY Zenon DEF Acked
      <3>1. o \in Nat BY <1>10 DEF TypeOK
      <3>2. CASE acked'[o] = acked[o] /\ DOMAIN acked' = DOMAIN acked
        <4>1. /\ o < n
              /\ PerMessage => o < flushed
              /\ \A b \in dir : Home(b, o) => cache[b][o] = acked[o]
          BY <1>1, <3>2, Zenon DEF IInv, FileInv, Acked
        <4>2. ASSUME NEW b \in dir, Home(b, o) PROVE cache'[b][o] = acked'[o]
          <5>1. cache'[b][o] = cache[b][o] BY <1>1, <1>2, <1>4, <3>1, <4>1, <4>2, HomeSlot
          <5> QED BY <3>2, <4>1, <4>2, <5>1, Zenon
        <4>3. o < n + 1 /\ (PerMessage => o < flushed) BY <1>2, <3>1, <4>1
        <4> QED BY <1>3, <4>2, <4>3, Zenon DEF Home
      <3>3. CASE /\ o \in start .. (start + Len(req[p]) - 1) /\ acked'[o] = req[p][o - start + 1]
                 /\ done[p] + 1 = Len(req[p]) /\ ~PerMessage
        <4>1. o < n + 1 /\ o - start + 1 \in 1 .. (done[p] + 1) BY <1>7, <3>1, <3>3
        <4>2. o = start + (o - start + 1) - 1 BY <1>7, <3>1
        <4>3. \A b \in dir : Home(b, o) => cache'[b][o] = req[p][o - start + 1]
          BY <1>7, <4>1, <4>2, Zenon
        <4> QED BY <1>3, <3>3, <4>1, <4>3, Zenon DEF Home
      <3> QED BY <1>6, <3>2, <3>3 DEF Acknowledge
    <2>6. Lengths' BY <1>3, Zenon DEF IInv, FileInv, Lengths
    <2> QED BY <2>1, <2>2, <2>3, <2>4, <2>5, <2>6, <2>7, Zenon DEF FileInv
  <1>12. SegInv'
    <2>1. Sorted' BY <1>2, <1>3, <1>5 DEF IInv, SegInv, Sorted
    <2>2. Routes' BY <1>2, <1>5, RoutesKept DEF IInv, SegInv
    <2>3. Abutting' BY <1>2, <1>5 DEF IInv, SegInv, Abutting
    <2>4. Segment'
      <3> SUFFICES ASSUME NEW i \in DOMAIN segs'
                   PROVE  /\ (segs[i].base \in dir)'
                          /\ (segs[i].base <= segs[i].next /\ segs[i].next <= end[segs[i].base])'
                          /\ \A o \in (segs[i].base .. (segs[i].next - 1))' :
                               (Valid(cache[segs[i].base][o], o))'
                          /\ (~segs[i].sealed => end[segs[i].base] = segs[i].base + SegCap)'
                          /\ (mode = "up" /\ i < Len(segs) => segs[i].sealed)'
        BY Zenon DEF Segment
      <3>1. CASE i = Len(segs)
        <4>1. segs'[i].base = lb /\ segs'[i].next = n + 1 BY <1>2, <1>5, <3>1, Zenon DEF lb
        <4>2. ASSUME NEW o \in lb .. n PROVE Valid(cache'[lb][o], o)
          <5>1. CASE o = n BY <5>1, <1>1, <1>4, Zenon DEF Valid
          <5>2. CASE o < n
            <6>1. Valid(cache[lb][o], o) BY <1>2, <5>2 DEF IInv, SegInv, Segment, lb, n
            <6>2. o \in Slots(lb) BY <1>1, <1>2, <5>2 DEF Slots
            <6> QED BY <1>2, <1>4, <5>2, <6>1, <6>2
          <5> QED BY <1>2, <5>1, <5>2
        <4>3. (end[segs[i].base] = segs[i].base + SegCap)' BY <1>2, <1>3, <4>1, Zenon
        <4>4. ~(i < Len(segs))' BY <1>2, <1>5, <3>1
        <4>5. \A o \in (segs[i].base .. (segs[i].next - 1))' : (Valid(cache[segs[i].base][o], o))'
          BY <1>2, <4>1, <4>2 DEF Valid
        <4> QED BY <1>1, <1>2, <1>3, <4>1, <4>3, <4>4, <4>5
      <3>2. CASE i # Len(segs)
        <4>1. i \in DOMAIN segs /\ segs'[i].base = segs[i].base /\ segs'[i].next = segs[i].next
          BY <1>5, <3>2, Zenon
        <4>2. ASSUME NEW o \in segs[i].base .. (segs[i].next - 1)
              PROVE  Valid(cache'[segs[i].base][o], o)
          <5>1. segs[i].base # lb
            <6>1. i < Len(segs) /\ segs[i].next # segs[i].base BY <3>2, <4>1, <4>2, SegmentFacts
            <6> QED BY <1>2, <4>1, <6>1, Zenon DEF IInv, SegInv, Sorted, lb
          <5> QED BY <1>4, <4>1, <5>1, SegmentFacts, Zenon
        <4>3. segs[i].sealed
          <5>1. i < Len(segs) BY <3>2, <4>1, SegmentFacts
          <5> QED BY <1>1, <4>1, <5>1, Zenon DEF IInv, SegInv, Segment
        <4> QED BY <1>3, <1>5, <4>1, <4>2, <4>3, SegmentFacts DEF Valid
      <3> QED BY <3>1, <3>2, Zenon
    <2>5. Modes' BY <1>1, <1>2, <1>3, <1>5 DEF IInv, SegInv, Modes, Opening, Sealing, Serving, Opened
    <2>6. Entries' BY <1>1, <1>3, <1>5, <1>6 DEF IInv, SegInv, Entries, Append1, lb
    <2> QED BY <2>1, <2>2, <2>3, <2>4, <2>5, <2>6, Zenon DEF SegInv
  <1>13. CallInv'
    <2>1. Mutex' BY <1>6, <1>7 DEF IInv, CallInv, Mutex, Holds, Append1, LockFree
    <2>2. Calls'
      <3> SUFFICES ASSUME NEW q \in Producers
                   PROVE  /\ (pc[q] = "idle" => done[q] = 0)'
                          /\ (pc[q] # "idle" => mode = "up" /\ Len(req[q]) > 0 /\ done[q] <= Len(req[q]))'
                          /\ (pc[q] \notin {"idle", "flush"} => done[q] < Len(req[q]))'
                          /\ (pc[q] = "flush" => done[q] = Len(req[q]))'
                          /\ (kind[q] = "one" => Len(req[q]) <= 1)'
                          /\ (pc[q] = "roll" => Last.sealed)'
        BY Zenon DEF Calls
      <3>1. CASE q = p
        <4>0. done[p] < Len(req[p]) /\ (kind[p] = "one" => Len(req[p]) <= 1) /\ mode' = "up"
          BY <1>1, <1>3, Zenon DEF IInv, CallInv, Calls
        <4>1. CASE pc'[p] = "idle" BY <1>6, <3>1, <4>1
        <4>2. CASE pc'[p] = "flush" BY <1>6, <1>7, <3>1, <4>0, <4>2
        <4>3. CASE pc'[p] = "append" BY <1>6, <1>7, <3>1, <4>0, <4>3
        <4> QED BY <1>6, <4>1, <4>2, <4>3, Zenon
      <3>2. CASE q # p
        BY <1>1, <1>3, <1>5, <1>6, <3>2 DEF IInv, CallInv, Calls
      <3> QED BY <3>1, <3>2, Zenon
    <2>3. Written'
      <3> SUFFICES ASSUME NEW q \in Producers, done'[q] > 0
                   PROVE  /\ (first[q] + done[q] <= kept)'
                          /\ (kind[q] = "batch" => first[q] + done[q] = kept)'
                          /\ \A j \in 1 .. done'[q] : req'[q][j] \in Payloads
                          /\ \A j \in 1 .. done'[q] : \A b \in dir' :
                               Home(b, first[q] + j - 1)' => (cache[b][first[q] + j - 1] = req[q][j])'
        BY Zenon DEF Written
      <3>1. CASE q = p
        <4>1. /\ first'[p] = start /\ done'[p] = done[p] + 1 /\ req'[p] = req[p]
          BY <1>6, <3>1
        <4>2. start + (done[p] + 1) = n + 1 BY <1>2, <1>7
        <4>3. ASSUME NEW j \in 1 .. done'[p], NEW b \in dir', Home(b, first[p] + j - 1)'
              PROVE  (cache[b][first[p] + j - 1] = req[p][j])'
          <5>1. Home(b, start + j - 1) /\ b \in dir /\ j \in 1 .. (done[p] + 1)
            BY <1>3, <4>1, <4>3, Zenon DEF Home
          <5> QED BY <1>7, <4>1, <5>1, Zenon
        <4> QED BY <1>2, <1>3, <1>7, <3>1, <4>1, <4>2, <4>3
      <3>2. CASE q # p
        <4>1. done[q] > 0 /\ done[q] \in Nat /\ first[q] \in Nat /\ first'[q] = first[q]
              /\ done'[q] = done[q] /\ req'[q] = req[q] /\ kind'[q] = kind[q]
          BY <1>6, <1>7, <3>2, Zenon DEF JobsTyped
        <4>2. kind[q] # "batch"
          BY <1>7, <3>2, <4>1 DEF IInv, CallInv, Calls, JobsTyped, Append1, LockFree, Holds
        <4>3. /\ first[q] + done[q] <= n
              /\ \A j \in 1 .. done[q] : req[q][j] \in Payloads
              /\ \A j \in 1 .. done[q] : \A b \in dir :
                   Home(b, first[q] + j - 1) => cache[b][first[q] + j - 1] = req[q][j]
          BY <1>1, <4>1, Zenon DEF IInv, CallInv, Written
        <4>4. ASSUME NEW j \in 1 .. done[q], NEW b \in dir, Home(b, first[q] + j - 1)
              PROVE  cache'[b][first[q] + j - 1] = req[q][j]
          <5>1. first[q] + j - 1 \in Nat /\ first[q] + j - 1 < n BY <1>2, <4>1, <4>3
          <5>2. cache'[b][first[q] + j - 1] = cache[b][first[q] + j - 1]
            BY <1>1, <1>2, <1>4, <4>4, <5>1, HomeSlot
          <5> QED BY <4>3, <4>4, <5>2, Zenon
        <4> QED BY <1>2, <1>3, <4>1, <4>2, <4>3, <4>4 DEF Home
      <3> QED BY <3>1, <3>2, Zenon
    <2> QED BY <2>1, <2>2, <2>3, Zenon DEF CallInv
  <1>14. SameRecords
    <2> SUFFICES ASSUME NEW b \in dir, NEW o \in Nat, o < kept, Home(b, o)
                 PROVE  cache'[b][o] = cache[b][o]
      BY <1>3, Zenon DEF SameRecords, Home
    <2>1. o \in Slots(b) /\ b \in Bases BY HomeSlot, Zenon
    <2>2. o # n BY <1>1, <1>2
    <2> QED BY <1>4, <2>1, <2>2, Zenon
  <1> QED BY <1>14, <1>10, <1>11, <1>12, <1>13, Zenon DEF IInv

\* Log::flush makes everything below next_offset() durable and changes no file.
LEMMA FlushedFiles ==
  ASSUME IInv, mode = "up", Msync(Last), flushed' = Last.next,
         UNCHANGED <<mode, dir, end, cache, segs, kept>>,
         "power" \in Faults /\ ~MsyncCoversEntry => Last.base \in dirDisk
  PROVE  /\ FilesTyped' /\ flushed' \in Nat /\ flushed <= flushed' /\ SameRecords
         /\ Bounds' /\ Absent' /\ Covered' /\ Kept' /\ Stable' /\ Lengths'
         /\ Sorted' /\ Routes' /\ Abutting' /\ Segment' /\ Modes'
         /\ dirDisk \subseteq dirDisk'
  <1>1. /\ Last.next = kept /\ kept \in Nat /\ flushed \in Nat /\ flushed <= kept
        /\ \A c \in dir : c <= flushed /\ c \in Nat /\ c \in Bases
    BY ActiveSegment, Zenon DEF IInv, TypeOK, FilesTyped, FileInv, Bounds, SegInv, Modes, Serving
  <1>2. Len(segs) \in DOMAIN segs /\ segs[Len(segs)] = Last BY ActiveSegment, Zenon
  <1>3. Last.base \in Bases /\ Last.base \in dir BY ActiveSegment, Zenon
  <1>4. SameRecords BY Zenon DEF SameRecords, Home
  <1>5. FilesTyped' /\ dirDisk \subseteq dirDisk' BY <1>2, MsyncEffect, Zenon DEF IInv, TypeOK, FilesTyped
  <1>6. Bounds' BY <1>1 DEF Bounds
  <1>7. Absent'
    <2>1. \A b \in Bases \ dir : end[b] = b /\ endDisk'[b] = b /\ \A o \in Slots(b) : cache[b][o] = Blank
      BY <1>2, <1>3, MsyncEffect, Zenon DEF IInv, FileInv, Absent
    <2>2. \A b \in Bases : \A o \in Slots(b) : o >= MaxOffset => cache[b][o] = Blank /\ disk'[b][o] = Blank
      <3>1. Absent BY Zenon DEF IInv, FileInv
      <3>2. /\ \A b \in Bases : b # Last.base => disk'[b] = disk[b]
            /\ \A o \in Slots(Last.base) :
                 disk'[Last.base][o] = IF o < Last.next THEN cache[Last.base][o] ELSE disk[Last.base][o]
        BY <1>2, MsyncEffect, Zenon
      <3>3. ASSUME NEW b \in Bases, NEW o \in Slots(b), o >= MaxOffset
            PROVE  cache[b][o] = Blank /\ disk'[b][o] = Blank
        <4>1. cache[b][o] = Blank /\ disk[b][o] = Blank BY <3>1, <3>3, Zenon DEF Absent
        <4>2. CASE b = Last.base BY <3>2, <3>3, <4>1, <4>2, Zenon
        <4>3. CASE b # Last.base BY <3>2, <3>3, <4>1, <4>3, Zenon
        <4> QED BY <4>2, <4>3, Zenon
      <3> QED BY <3>3, Zenon
    <2> QED BY <2>1, <2>2, Zenon DEF Absent
  <1>8. Covered' /\ Kept' BY Zenon DEF IInv, FileInv, Covered, Kept, Home
  <1>9. Stable' BY <1>4, MsyncStable, Zenon
  <1>10. Lengths'
    <2> SUFFICES ASSUME NEW b \in dir
                 PROVE  /\ endDisk'[b] \in {b, end[b], b + SegCap}
                        /\ \/ end[b] <= flushed'
                           \/ \E c \in dirDisk' : b < c
                           \/ end[b] = b + SegCap /\ \A c \in dir : c <= b
      BY Zenon DEF Lengths
    <2>1. /\ endDisk[b] \in {b, end[b], b + SegCap}
          /\ \/ end[b] <= flushed
             \/ \E c \in dirDisk : b < c
             \/ end[b] = b + SegCap /\ \A c \in dir : c <= b
      BY Zenon DEF IInv, FileInv, Lengths
    <2>2. endDisk'[b] \in {endDisk[b], end[b]} BY <1>1, <1>2, MsyncEffect, Zenon
    <2>3. end[b] \in Nat BY <1>1, Zenon DEF IInv, TypeOK, FilesTyped
    <2> QED BY <1>1, <1>5, <2>1, <2>2, <2>3
  <1>11. Sorted' /\ Routes' /\ Abutting' /\ Segment'
    BY DEF IInv, SegInv, Sorted, Routes, Routed, Abutting, Segment
  <1>12. Modes' BY <1>1 DEF IInv, SegInv, Modes, Opening, Sealing, Serving, Opened, Home, Last
  <1> QED BY <1>1, <1>4, <1>5, <1>6, <1>7, <1>8, <1>9, <1>10, <1>11, <1>12, Zenon

\* Partition::flush keeps the invariant.
LEMMA UserFlushStep ==
  ASSUME IInv, UserFlush
  PROVE  IInv' /\ SameRecords
  <1>1. /\ mode = "up" /\ Msync(Last) /\ flushed' = Last.next
        /\ UNCHANGED <<mode, dir, end, cache, segs, jobs, acked, kept, faults>>
    BY Zenon DEF UserFlush
  <1>2. "power" \in Faults /\ ~MsyncCoversEntry => Last.base \in dirDisk
    BY <1>1, Zenon DEF IInv, SegInv, Entries, UserFlush, Holds
  <1>3. /\ FilesTyped' /\ flushed' \in Nat /\ flushed <= flushed' /\ SameRecords
        /\ Bounds' /\ Absent' /\ Covered' /\ Kept' /\ Stable' /\ Lengths'
        /\ Sorted' /\ Routes' /\ Abutting' /\ Segment' /\ Modes'
        /\ dirDisk \subseteq dirDisk'
    BY <1>1, <1>2, FlushedFiles, Zenon
  <1>4. TypeOK' BY <1>1, <1>3, Zenon DEF IInv, TypeOK, JobsTyped, jobs
  <1>5. Acked' BY <1>1, <1>3, <1>4, AckedFrame DEF IInv, TypeOK
  <1>6. Entries' BY <1>1, <1>2, <1>3, Zenon DEF Entries, Last
  <1>7. Mutex' /\ Calls' BY <1>1, Zenon DEF IInv, CallInv, Mutex, Calls, Holds, Last, jobs
  <1>8. Written' BY <1>1, <1>3, OtherWritten, Zenon DEF Written, jobs
  <1> QED BY <1>3, <1>4, <1>5, <1>6, <1>7, <1>8, Zenon DEF IInv, FileInv, SegInv, CallInv

\* The flush of a publish keeps the invariant: what it acknowledges is durable.
LEMMA FlushStep ==
  ASSUME IInv, NEW p \in Producers, Flush(p)
  PROVE  IInv' /\ SameRecords
  <1>1. /\ mode = "up" /\ done[p] = Len(req[p]) /\ Len(req[p]) > 0 /\ JobsTyped
        /\ Msync(Last) /\ flushed' = Last.next /\ Return(p)
        /\ acked' = Acknowledge(p, first[p], Len(req[p]))
        /\ UNCHANGED <<mode, dir, end, cache, segs, kept, faults>>
    BY Zenon DEF IInv, TypeOK, CallInv, Calls, Flush
  <1>2. /\ done[p] \in Nat /\ first[p] \in Nat /\ Len(req[p]) \in Nat /\ kept \in Nat
        /\ Last.next = kept
        /\ first[p] + Len(req[p]) <= kept
        /\ \A k \in 1 .. Len(req[p]) : req[p][k] \in Payloads
        /\ \A k \in 1 .. Len(req[p]) : \A b \in dir :
             Home(b, first[p] + k - 1) => cache[b][first[p] + k - 1] = req[p][k]
    <2>1. done[p] \in Nat /\ first[p] \in Nat /\ Len(req[p]) \in Nat BY <1>1, Zenon DEF JobsTyped
    <2>2. kept \in Nat /\ Last.next = kept BY <1>1, Zenon DEF IInv, TypeOK, SegInv, Modes, Serving
    <2>3. Written BY Zenon DEF IInv, CallInv
    <2> QED BY <1>1, <2>1, <2>2, <2>3, ZenonT(60) DEF Written
  <1>3. "power" \in Faults /\ ~MsyncCoversEntry => Last.base \in dirDisk
    BY <1>1, Zenon DEF IInv, SegInv, Entries, Flush, LockFree, Holds
  <1>4. /\ FilesTyped' /\ flushed' \in Nat /\ flushed <= flushed' /\ SameRecords
        /\ Bounds' /\ Absent' /\ Covered' /\ Kept' /\ Stable' /\ Lengths'
        /\ Sorted' /\ Routes' /\ Abutting' /\ Segment' /\ Modes'
        /\ dirDisk \subseteq dirDisk'
    BY <1>1, <1>3, FlushedFiles, Zenon
  <1>5. acked' \in [0 .. (MaxOffset - 1) -> Cell]
    BY <1>1, <1>2 DEF IInv, TypeOK, Acknowledge, Cell
  <1>6. TypeOK' BY <1>1, <1>4, <1>5, ReturnEffect, Zenon DEF IInv, TypeOK
  <1>7. Acked'
    <2> SUFFICES ASSUME NEW o \in DOMAIN acked', acked'[o] # Blank
                 PROVE  /\ (o < kept)'
                        /\ PerMessage => (o < flushed)'
                        /\ \A b \in dir' : Home(b, o)' => (cache[b][o] = acked[o])'
      BY Zenon DEF Acked
    <2>1. o \in Nat BY <1>5
    <2>2. CASE acked'[o] = acked[o] /\ DOMAIN acked' = DOMAIN acked
      <3>1. o < kept /\ \A b \in dir : Home(b, o) => cache[b][o] = acked[o]
        BY <2>2, Zenon DEF IInv, FileInv, Acked
      <3> QED BY <1>1, <1>2, <2>2, <3>1, Zenon DEF Home
    <2>3. CASE o \in first[p] .. (first[p] + Len(req[p]) - 1) /\ acked'[o] = req[p][o - first[p] + 1]
      <3>1. o < kept /\ o - first[p] + 1 \in 1 .. Len(req[p]) BY <1>2, <2>1, <2>3
      <3>2. o = first[p] + (o - first[p] + 1) - 1 BY <1>2, <2>1
      <3>3. \A b \in dir : Home(b, o) => cache[b][o] = req[p][o - first[p] + 1]
        BY <1>2, <3>1, <3>2, Zenon
      <3> QED BY <1>1, <1>2, <2>3, <3>1, <3>3, Zenon DEF Home
    <2> QED BY <1>1, <2>2, <2>3, Zenon DEF Acknowledge
  <1>8. Entries' BY <1>1, <1>3, <1>4, Zenon DEF Entries, Last
  <1>9. CallInv' BY <1>1, <1>4, ReturnCallInv, Zenon
  <1> QED BY <1>4, <1>6, <1>7, <1>8, <1>9, Zenon DEF IInv, FileInv, SegInv

\* A publish rejected for its size leaves the log as it is.
LEMMA TooLargeStep ==
  ASSUME IInv, NEW p \in Producers, TooLarge(p)
  PROVE  IInv' /\ SameRecords
  <1>1. Return(p) /\ pc[p] = "retry" /\ UNCHANGED <<mode, files, segs, acked, flushed, kept, faults>>
    BY Zenon DEF TooLarge
  <1>2. TypeOK' BY <1>1, ReturnEffect, Zenon DEF IInv, TypeOK, FilesTyped, files
  <1>3. FileInv'
    BY <1>1, ZenonT(60) DEF IInv, FileInv, Bounds, Absent, Covered, Kept, Stable, Acked, Lengths, Home, files
  <1>4. Sorted' /\ Routes' /\ Abutting' /\ Segment'
    BY <1>1, ZenonT(60) DEF IInv, SegInv, Sorted, Routes, Routed, Abutting, Segment, files
  <1>5. Modes' BY <1>1 DEF IInv, SegInv, Modes, Opening, Sealing, Serving, Opened, Home, Last, files
  <1>6. Entries' BY <1>1, ReturnEffect, Zenon DEF IInv, TypeOK, SegInv, Entries, Last, files
  <1>7. SameRecords BY <1>1, Zenon DEF SameRecords, Home, files
  <1>8. CallInv' BY <1>1, <1>7, ReturnCallInv, Zenon
  <1> QED BY <1>7, <1>2, <1>3, <1>4, <1>5, <1>6, <1>8, Zenon DEF IInv, SegInv


\* Sealing the active segment before a roll keeps the invariant.
LEMMA SealStep ==
  ASSUME IInv, NEW p \in Producers, Seal(p)
  PROVE  IInv' /\ SameRecords
  <1>1. /\ mode = "up" /\ pc[p] = "append" /\ LockFree(p) /\ Goto(p, "roll")
        /\ UNCHANGED <<mode, acked, kept, faults>>
    BY Zenon DEF IInv, TypeOK, JobsTyped, CallInv, Calls, Seal
  <1>2. JobsTyped' /\ \A q \in Producers : q # p => pc'[q] = pc[q] BY <1>1, GotoEffect, Zenon DEF IInv, TypeOK
  <1>3. CASE Last.sealed
    <2>1. UNCHANGED <<files, segs, flushed>> BY <1>3, Zenon DEF Seal
    <2>2. TypeOK' BY <1>1, <1>2, <2>1, ZenonT(60) DEF IInv, TypeOK, FilesTyped, files
    <2>3. FileInv'
      <3>1. UNCHANGED <<dir, dirDisk, end, endDisk, cache, disk, acked, flushed, kept>>
        BY <1>1, <2>1, Zenon DEF files
      <3>2. Bounds' /\ Absent' /\ Lengths' BY <3>1 DEF IInv, FileInv, Bounds, Absent, Lengths
      <3>3. Covered' /\ Kept' BY <3>1, ZenonT(60) DEF IInv, FileInv, Covered, Kept, Home
      <3>4. Stable' /\ Acked' BY <3>1, Zenon DEF IInv, FileInv, Stable, Acked, Home
      <3> QED BY <3>2, <3>3, <3>4, Zenon DEF FileInv
    <2>4. Sorted' /\ Routes' /\ Abutting' /\ Segment'
      BY <1>1, <2>1 DEF IInv, SegInv, Sorted, Routes, Routed, Abutting, Segment, files
    <2>5. Modes' BY <1>1, <2>1, Zenon DEF IInv, SegInv, Modes, Opening, Sealing, Serving, Opened, Home, Last, files
    <2>6. Entries' BY <1>1, <1>2, <2>1, Zenon DEF IInv, SegInv, Entries, Last, files
    <2>7. SameRecords BY <2>1, Zenon DEF SameRecords, Home, files
    <2>8. CallInv' BY <1>1, <1>3, <2>1, <2>7, GotoCallInv, Zenon DEF Last
    <2> QED BY <2>2, <2>3, <2>4, <2>5, <2>6, <2>7, <2>8, Zenon DEF IInv, SegInv
  <1>4. CASE ~Last.sealed
    <2> DEFINE lb == Last.base
               n == Last.next
    <2>1. /\ SealSegment(Len(segs)) /\ flushed' = n BY <1>4, Zenon DEF Seal
    <2>2. /\ Len(segs) \in Nat /\ Len(segs) > 0 /\ Len(segs) \in DOMAIN segs /\ segs[Len(segs)] = Last
          /\ lb \in dir /\ lb \in Bases /\ lb \in Nat /\ n \in Nat /\ lb <= n
          /\ end[lb] = lb + SegCap /\ \A b \in dir : b \in Nat /\ b <= lb
      BY <1>1, <1>4, ActiveSegment, Zenon
    <2>3. /\ n = kept /\ kept \in Nat /\ flushed \in Nat /\ flushed <= kept
          /\ \A b \in dir : b <= flushed /\ b \in Bases
      BY <1>1, Zenon DEF IInv, TypeOK, FilesTyped, FileInv, Bounds, SegInv, Modes, Serving
    <2>4. /\ Msync(Last) /\ dir' = dir /\ FilesTyped'
          /\ segs' \in Seq(OpenSegments) /\ Len(segs') = Len(segs) /\ DOMAIN segs' = DOMAIN segs
          /\ \A j \in DOMAIN segs : segs'[j].base = segs[j].base /\ segs'[j].next = segs[j].next
          /\ Last'.sealed /\ Last'.base = lb /\ Last'.next = n
          /\ \A b \in Bases : b # lb => end'[b] = end[b] /\ cache'[b] = cache[b]
          /\ end'[lb] = n
          /\ \A o \in Slots(lb) : cache'[lb][o] = IF o < n THEN cache[lb][o] ELSE Blank
      <3>1. /\ Msync(segs[Len(segs)]) /\ dir' = dir /\ FilesTyped'
            /\ segs' \in Seq(OpenSegments) /\ Len(segs') = Len(segs) /\ DOMAIN segs' = DOMAIN segs
            /\ \A j \in DOMAIN segs : segs'[j].base = segs[j].base /\ segs'[j].next = segs[j].next
            /\ segs'[Len(segs)].sealed
            /\ \A b \in Bases : b # segs[Len(segs)].base => end'[b] = end[b] /\ cache'[b] = cache[b]
            /\ end'[segs[Len(segs)].base] = segs[Len(segs)].next
            /\ \A o \in Slots(segs[Len(segs)].base) :
                 cache'[segs[Len(segs)].base][o] =
                   IF o < segs[Len(segs)].next THEN cache[segs[Len(segs)].base][o] ELSE Blank
        BY <2>1, <2>2, SealEffect, ZenonT(60)
      <3>2. Last' = segs'[Len(segs)] BY <3>1, ZenonT(60) DEF Last
      <3> QED BY <2>2, <3>1, <3>2, ZenonT(60)
    <2> HIDE DEF lb, n
    <2>5. SameRecords /\ Absent' /\ Covered' /\ Kept'
      BY <1>1, <2>1, <2>2, <2>3, SealedFiles, Zenon DEF n
    <2>6. "power" \in Faults /\ ~MsyncCoversEntry => Last.base \in dirDisk
      BY <1>1, Zenon DEF IInv, SegInv, Entries, LockFree, Holds
    <2>7. Stable' BY <1>1, <2>1, <2>4, <2>5, <2>6, MsyncStable, ZenonT(60) DEF n
    <2>8. Acked'
      <3>1. kept' \in Nat /\ kept <= kept' /\ flushed' \in Nat /\ flushed <= flushed'
        BY <1>1, <2>1, <2>3
      <3> QED BY <1>1, <2>5, <3>1, AckedFrame, Zenon
    <2>9. Bounds'
      <3>1. dir' = dir /\ flushed' = n /\ kept' = n /\ n \in Nat BY <1>1, <2>1, <2>3, <2>4, ZenonT(60)
      <3>2. ASSUME NEW b \in dir PROVE b <= n
        <4>1. b <= flushed /\ b \in Nat BY <2>2, <2>3, Zenon
        <4> QED BY <2>3, <4>1
      <3> QED BY <3>1, <3>2 DEF Bounds
    <2>10. /\ dirDisk \subseteq dirDisk'
           /\ \A b \in Bases : b # lb => endDisk'[b] = endDisk[b]
           /\ endDisk'[lb] \in {endDisk[lb], end[lb]}
      BY <2>2, <2>4, MsyncEffect, ZenonT(60) DEF lb
    <2>11. Lengths'
      <3> SUFFICES ASSUME NEW b \in dir
                   PROVE  /\ endDisk'[b] \in {b, end'[b], b + SegCap}
                          /\ \/ end'[b] <= flushed'
                             \/ \E c \in dirDisk' : b < c
                             \/ end'[b] = b + SegCap /\ \A c \in dir : c <= b
        BY <2>4, Zenon DEF Lengths
      <3>1. /\ endDisk[b] \in {b, end[b], b + SegCap}
            /\ \/ end[b] <= flushed
               \/ \E c \in dirDisk : b < c
               \/ end[b] = b + SegCap /\ \A c \in dir : c <= b
        BY Zenon DEF IInv, FileInv, Lengths
      <3>2. CASE b = lb
        <4>1. end'[b] = n /\ flushed' = n /\ n \in Nat BY <2>1, <2>2, <2>4, <3>2, ZenonT(60)
        <4>2. end[b] = b + SegCap /\ endDisk'[b] \in {endDisk[b], end[b]} BY <2>2, <2>10, <3>2, Zenon
        <4>3. endDisk'[b] \in {b, b + SegCap} BY <3>1, <4>2, Zenon
        <4> QED BY <4>1, <4>3
      <3>3. CASE b # lb
        <4>1. end'[b] = end[b] /\ endDisk'[b] = endDisk[b] /\ end[b] \in Nat
          BY <2>3, <2>4, <2>10, <3>3, Zenon DEF IInv, TypeOK, FilesTyped
        <4> QED BY <2>1, <2>3, <2>10, <3>1, <4>1
      <3> QED BY <3>2, <3>3, Zenon
    <2>12. TypeOK' BY <1>1, <1>2, <2>1, <2>2, <2>4, ZenonT(60) DEF IInv, TypeOK
    <2>13. Sorted' /\ Routes' /\ Abutting' /\ Segment' BY <1>1, <2>1, <2>2, SealedSegments, Zenon
    <2>14. Modes'
      <3>1. segs' # <<>>
        <4>1. Len(segs') > 0 BY <2>2, <2>4, ZenonT(60)
        <4> QED BY <4>1, NonEmpty, Zenon
      <3>2. Serving'
        <4>1. \A b \in dir : b \in Opened BY <1>1, <1>4, Zenon DEF IInv, SegInv, Modes, Serving
        <4>a. DOMAIN segs' = DOMAIN segs /\ \A j \in DOMAIN segs : segs'[j].base = segs[j].base
          BY <2>4, ZenonT(60)
        <4>2. ASSUME NEW b \in dir PROVE b \in Opened'
          <5>1. PICK i \in DOMAIN segs : segs[i].base = b BY <4>1, Zenon DEF Opened
          <5>2. i \in DOMAIN segs' /\ segs'[i].base = b BY <4>a, <5>1, Zenon
          <5> QED BY <5>2, Zenon DEF Opened
        <4>3. ASSUME NEW b \in dir, b = n PROVE \A o \in Slots(b) : cache'[b][o] = Blank
          <5>1. b = lb BY <2>2, <4>3
          <5> QED BY <2>2, <2>4, <4>3, <5>1 DEF Slots
        <4>4. Last'.next = kept' /\ Last'.next <= flushed' /\ end'[Last'.base] = Last'.next
          BY <1>1, <2>1, <2>3, <2>4
        <4> QED BY <2>1, <2>3, <2>4, <4>2, <4>3, <4>4, ZenonT(60) DEF Serving
      <3> QED BY <1>1, <3>1, <3>2, Zenon DEF Modes, Opening, Sealing
    <2>15. Entries' BY <1>1, <2>4, <2>6, <2>10, ZenonT(60) DEF Entries, lb
    <2>16. CallInv' BY <1>1, <2>4, <2>5, GotoCallInv, Zenon
    <2> QED BY <2>5, <2>7, <2>8, <2>9, <2>11, <2>12, <2>13, <2>14, <2>15, <2>16, Zenon DEF IInv, FileInv, SegInv
  <1> QED BY <1>3, <1>4, Zenon

\* What is known when roll_new_segment is called: everything is msynced, and if
\* the new segment's file is there already it has no record.
LEMMA RollFacts ==
  ASSUME IInv, NEW p \in Producers, pc[p] = "roll"
  PROVE  /\ mode = "up" /\ Last.sealed /\ LockFree(p)
         /\ Len(segs) \in Nat /\ Len(segs) > 0 /\ Len(segs) \in DOMAIN segs /\ segs[Len(segs)] = Last
         /\ Last.next = kept /\ Last.next = flushed /\ Last.next \in Nat /\ Last.next \in Bases
         /\ Last.base \in Nat /\ Last.base \in dir /\ Last.base <= Last.next
         /\ \A b \in dir : b \in Bases /\ b \in Nat /\ b <= Last.next
         /\ \A b \in dir : b # Last.next => b \in Opened /\ b <= Last.base
         /\ \A i \in DOMAIN segs : segs[i].base \in Nat /\ segs[i].base <= Last.base
         /\ Last.next \in dir => /\ end[Last.next] \in {Last.next, Last.next + SegCap}
                                 /\ \A o \in Slots(Last.next) : cache[Last.next][o] = Blank
         /\ Last.base < Last.next => end[Last.base] = Last.next
  <1> DEFINE n == Last.next
             lb == Last.base
  <1>1. mode = "up" /\ Last.sealed /\ LockFree(p)
    BY Zenon DEF IInv, CallInv, Calls, Mutex, Holds, LockFree
  <1>2. /\ Len(segs) \in Nat /\ Len(segs) > 0 /\ Len(segs) \in DOMAIN segs /\ segs[Len(segs)] = Last
        /\ lb \in dir /\ lb \in Bases /\ lb \in Nat /\ n \in Nat /\ lb <= n
        /\ \A b \in dir : b \in Nat
    BY <1>1, ActiveSegment, Zenon
  <1>3. /\ n = kept /\ n <= flushed
        /\ lb < n => end[lb] = n
        /\ \A b \in dir : b \in Opened \/ b = n
        /\ \A b \in dir : b = n => \A o \in Slots(b) : cache[b][o] = Blank
    BY <1>1, Zenon DEF IInv, SegInv, Modes, Serving
  <1>4. n = flushed /\ \A b \in dir : b <= n
    BY <1>2, <1>3 DEF IInv, TypeOK, FileInv, Bounds
  <1>5. \A i \in DOMAIN segs : segs[i].base \in Nat /\ segs[i].base <= lb
    <2> SUFFICES ASSUME NEW i \in DOMAIN segs PROVE segs[i].base \in Nat /\ segs[i].base <= lb
      BY Zenon
    <2>1. i \in 1 .. Len(segs) /\ segs[i].base \in Nat BY SegmentFacts, Zenon
    <2>2. CASE i = Len(segs) BY <1>2, <2>1, <2>2
    <2>3. CASE i < Len(segs) BY <1>2, <2>1, <2>3, Zenon DEF IInv, SegInv, Sorted
    <2> QED BY <1>2, <2>1, <2>2, <2>3
  <1>6. \A b \in dir : b # n => b \in Opened /\ b <= lb BY <1>3, <1>5, Zenon DEF Opened
  <1>7. n \in Bases
    <2>1. CASE n = lb BY <1>2, <2>1, Zenon
    <2>2. CASE n # lb
      <3>1. n - 1 \in lb .. (n - 1) /\ n - 1 \in Nat BY <1>2, <2>2
      <3>2. n - 1 \in Slots(lb) /\ Valid(cache[lb][n - 1], n - 1) BY <1>2, <3>1, SegmentFacts, Zenon
      <3>3. cache[lb][n - 1] # Blank BY <3>2, Zenon DEF Valid
      <3>4. ~(n - 1 >= MaxOffset) BY <1>2, <3>2, <3>3, Zenon DEF IInv, FileInv, Absent
      <3> QED BY <1>2, <3>1, <3>4 DEF Bases
    <2> QED BY <2>1, <2>2, Zenon
  <1>8. ASSUME n \in dir PROVE end[n] \in {n, n + SegCap}
    <2>1. \/ end[n] <= flushed
          \/ \E c \in dirDisk : n < c
          \/ end[n] = n + SegCap
      BY <1>8, Zenon DEF IInv, FileInv, Lengths
    <2>2. end[n] \in n .. (n + SegCap) /\ dirDisk \subseteq dir BY <1>7, Zenon DEF IInv, TypeOK, FilesTyped
    <2> QED BY <1>2, <1>4, <2>1, <2>2
  <1>9. \A b \in dir : b \in Bases BY Zenon DEF IInv, TypeOK, FilesTyped
  <1> QED BY <1>1, <1>2, <1>3, <1>4, <1>5, <1>6, <1>7, <1>8, <1>9, Zenon

\* A segment constructor that throws keeps the invariant, whatever it left behind.
LEMMA RollFailsStep ==
  ASSUME IInv, NEW p \in Producers, RollFails(p)
  PROVE  IInv' /\ SameRecords
  <1> DEFINE n == Last.next
             lb == Last.base
  <1>1. /\ mode = "up" /\ Last.sealed
        /\ n = kept /\ n = flushed /\ n \in Nat /\ n \in Bases
        /\ lb \in Nat /\ lb \in dir /\ lb <= n
        /\ \A b \in dir : b \in Bases /\ b \in Nat /\ b <= n
        /\ \A b \in dir : b # n => b \in Opened /\ b <= lb
        /\ n \in dir => /\ end[n] \in {n, n + SegCap}
                        /\ \A o \in Slots(n) : cache[n][o] = Blank
        /\ lb < n => end[lb] = n
    BY RollFacts, Zenon DEF RollFails
  <1>2. /\ Return(p) /\ pc[p] = "roll"
        /\ UNCHANGED <<mode, dirDisk, endDisk, cache, disk, segs, acked, flushed, kept>>
        /\ faults' \in 0 .. MaxFaults
        /\ \/ UNCHANGED <<dir, end>>
           \/ dir' = dir \cup {n} /\ \E e \in {end[n], n + SegCap} : end' = [end EXCEPT ![n] = e]
    BY DEF RollFails, IInv, TypeOK
  <1> HIDE DEF n, lb
  <1>a. n \in Nat /\ kept = n /\ kept' = n /\ flushed = n /\ flushed' = n BY <1>1, <1>2, ZenonT(60)
  <1>3. /\ dir \subseteq dir' /\ dir' \subseteq dir \cup {n} /\ dir' \subseteq Bases
        /\ end' \in [Bases -> Nat] /\ \A b \in Bases : end'[b] \in b .. (b + SegCap)
        /\ \A b \in Bases : b # n => end'[b] = end[b]
        /\ end'[n] \in {end[n], n + SegCap}
        /\ n \notin dir' => end'[n] = end[n]
    <2>1. n + SegCap \in Nat /\ FilesTyped BY <1>1 DEF IInv, TypeOK
    <2>2. CASE UNCHANGED <<dir, end>> BY <1>1, <2>1, <2>2, Zenon DEF FilesTyped
    <2>3. CASE dir' = dir \cup {n} /\ \E e \in {end[n], n + SegCap} : end' = [end EXCEPT ![n] = e]
      <3>1. PICK e \in {end[n], n + SegCap} : end' = [end EXCEPT ![n] = e] BY <2>3, ZenonT(60)
      <3>2. e \in Nat /\ e \in n .. (n + SegCap)
        <4>1. n + SegCap \in n .. (n + SegCap) BY <1>a, <2>1
        <4>2. end[n] \in Nat /\ end[n] \in n .. (n + SegCap) BY <1>1, <2>1, Zenon DEF FilesTyped
        <4> QED BY <2>1, <3>1, <4>1, <4>2, Zenon
      <3> QED BY <1>1, <2>1, <2>3, <3>1, <3>2, Zenon DEF FilesTyped
    <2> QED BY <1>2, <2>2, <2>3, Zenon
  <1>4. TypeOK'
    <2>1. FilesTyped' BY <1>2, <1>3, Zenon DEF IInv, TypeOK, FilesTyped
    <2> QED BY <1>2, <2>1, ReturnEffect, Zenon DEF IInv, TypeOK
  <1>5. \A b \in dir' : \A o \in Nat : o < n /\ Home(b, o)' => b \in dir /\ b # n /\ Home(b, o)
    BY <1>1, <1>3 DEF Home
  <1>6. SameRecords BY <1>1, <1>2, <1>5, Zenon DEF SameRecords
  <1>7. CallInv' BY <1>2, <1>6, ReturnCallInv, Zenon
  <1>8. FileInv'
    <2>1. Bounds'
      <3>1. \A b \in dir' : b <= n BY <1>1, <1>3, <1>a
      <3> QED BY <1>a, <3>1 DEF Bounds
    <2>2. Absent'
      <3>1. \A b \in Bases \ dir' : end'[b] = end[b] BY <1>3, Zenon
      <3> QED BY <1>2, <1>3, <3>1 DEF IInv, FileInv, Absent
    <2>3. Covered'
      <3> SUFFICES ASSUME NEW o \in 0 .. (kept' - 1) PROVE \E b \in dir' : Home(b, o)'
        BY Zenon DEF Covered
      <3>1. PICK b \in dir : Home(b, o) BY <1>a, Zenon DEF IInv, FileInv, Covered
      <3>2. o < n /\ o \in Nat BY <1>a
      <3>3. Home(b, o)' BY <1>1, <1>3, <3>1, <3>2 DEF Home
      <3> QED BY <1>3, <3>3, Zenon
    <2>4. Kept'
      <3> SUFFICES ASSUME NEW o \in 0 .. (kept' - 1), NEW b \in dir', Home(b, o)'
                   PROVE  (o < end[b] /\ Valid(cache[b][o], o))'
        BY Zenon DEF Kept
      <3>1. o < n /\ o \in Nat BY <1>a
      <3>2. b \in dir /\ b # n /\ Home(b, o) BY <1>5, <3>1, Zenon
      <3> QED BY <1>1, <1>2, <1>3, <3>1, <3>2, HomeSlot DEF Valid
    <2>5. Stable'
      <3> SUFFICES ASSUME "power" \in Faults, NEW o \in 0 .. (flushed' - 1), NEW b \in dir', Home(b, o)'
                   PROVE  (b \in dirDisk /\ disk[b][o] = cache[b][o] /\ o < endDisk[b])'
        BY Zenon DEF Stable
      <3>1. o < n /\ o \in Nat /\ o \in 0 .. (flushed - 1) BY <1>a
      <3>2. b \in dir /\ b # n /\ Home(b, o) BY <1>5, <3>1, Zenon
      <3> QED BY <1>2, <3>1, <3>2, Zenon DEF IInv, FileInv, Stable
    <2>6. Acked'
      <3>1. kept' \in Nat /\ kept <= kept' /\ flushed' \in Nat /\ flushed <= flushed' BY <1>a
      <3> QED BY <1>2, <1>6, <3>1, AckedFrame, Zenon
    <2>7. Lengths'
      <3> SUFFICES ASSUME NEW b \in dir'
                   PROVE  /\ endDisk[b] \in {b, end'[b], b + SegCap}
                          /\ \/ end'[b] <= flushed
                             \/ \E c \in dirDisk : b < c
                             \/ end'[b] = b + SegCap /\ \A c \in dir' : c <= b
        BY <1>2, Zenon DEF Lengths
      <3>1. b \in dir => /\ endDisk[b] \in {b, end[b], b + SegCap}
                         /\ \/ end[b] <= flushed
                            \/ \E c \in dirDisk : b < c
                            \/ end[b] = b + SegCap /\ \A c \in dir : c <= b
        BY Zenon DEF IInv, FileInv, Lengths
      <3>2. CASE b = n
        <4>1. n \notin dir => end[n] = n /\ endDisk[n] = n BY <1>1, Zenon DEF IInv, FileInv, Absent
        <4>2. end'[n] \in {n, n + SegCap} BY <1>1, <1>3, <4>1, Zenon
        <4>3. endDisk[n] \in {n, n + SegCap} BY <1>1, <3>1, <3>2, <4>1, Zenon
        <4>4. \A c \in dir' : c <= n BY <1>1, <1>3
        <4> QED BY <1>1, <3>2, <4>2, <4>3, <4>4, Zenon
      <3>3. CASE b # n
        <4>1. b \in dir /\ end'[b] = end[b] /\ b \in Bases BY <1>1, <1>3, <3>3, Zenon
        <4>2. CASE \A c \in dir : c <= b
          <5>1. b = lb /\ lb < n BY <1>1, <3>3, <4>1, <4>2
          <5> QED BY <1>1, <3>1, <4>1, <5>1
        <4> QED BY <1>1, <3>1, <4>1, <4>2, Zenon
      <3> QED BY <3>2, <3>3, Zenon
    <2> QED BY <2>1, <2>2, <2>3, <2>4, <2>5, <2>6, <2>7, Zenon DEF FileInv
  <1>9. SegInv'
    <2>1. Sorted' /\ Routes' /\ Abutting' BY <1>2, Zenon DEF IInv, SegInv, Sorted, Routes, Routed, Abutting
    <2>2. Segment'
      <3> SUFFICES ASSUME NEW i \in DOMAIN segs
                   PROVE  /\ segs[i].base \in dir'
                          /\ segs[i].base <= segs[i].next /\ segs[i].next <= end'[segs[i].base]
                          /\ \A o \in segs[i].base .. (segs[i].next - 1) : Valid(cache[segs[i].base][o], o)
                          /\ ~segs[i].sealed => end'[segs[i].base] = segs[i].base + SegCap
                          /\ mode = "up" /\ i < Len(segs) => segs[i].sealed
        BY <1>2 DEF Segment, Valid
      <3>1. /\ segs[i].base \in dir /\ segs[i].base \in Bases /\ segs[i].base \in Nat
            /\ segs[i].next \in Nat /\ segs[i].base <= segs[i].next /\ segs[i].next <= end[segs[i].base]
            /\ end[segs[i].base] \in Nat /\ end[segs[i].base] <= segs[i].base + SegCap
            /\ \A o \in segs[i].base .. (segs[i].next - 1) : Valid(cache[segs[i].base][o], o)
        BY SegmentFacts, Zenon
      <3>2. /\ ~segs[i].sealed => end[segs[i].base] = segs[i].base + SegCap
            /\ mode = "up" /\ i < Len(segs) => segs[i].sealed
        BY Zenon DEF IInv, SegInv, Segment
      <3>3. CASE segs[i].base = n
        <4>1. segs[i].next <= segs[i].base + SegCap BY <3>1
        <4>2. end'[n] = end[n] \/ end'[n] = n + SegCap BY <1>3, Zenon
        <4>3. dir \subseteq dir' BY <1>3, Zenon
        <4> QED BY <3>1, <3>2, <3>3, <4>1, <4>2, <4>3, Zenon
      <3>4. CASE segs[i].base # n BY <1>3, <3>1, <3>2, <3>4, Zenon
      <3> QED BY <3>3, <3>4, Zenon
    <2>3. Modes'
      <3>1. Serving'
        <4>1. \A b \in dir' : b \in Opened' \/ b = n BY <1>1, <1>2, <1>3 DEF Opened
        <4>2. n \in dir' => \A o \in Slots(n) : cache[n][o] = Blank
          BY <1>1, Zenon DEF IInv, FileInv, Absent
        <4>3. lb < n => end'[lb] = n BY <1>1, <1>3
        <4>4. Last' = Last BY <1>2, Zenon DEF Last
        <4>5. Last.sealed /\ Last.next = n /\ Last.base = lb BY <1>1, Zenon DEF n, lb
        <4>6. n <= n BY <1>a
        <4> QED BY <1>2, <1>a, <4>1, <4>2, <4>3, <4>4, <4>5, <4>6, Zenon DEF Serving
      <3> QED BY <1>1, <1>2, <3>1, Zenon DEF IInv, SegInv, Modes, Opening, Sealing
    <2>4. Entries' BY <1>1, <1>2, ReturnEffect DEF IInv, TypeOK, SegInv, Entries, Last
    <2> QED BY <2>1, <2>2, <2>3, <2>4, Zenon DEF SegInv
  <1> QED BY <1>6, <1>4, <1>7, <1>8, <1>9, Zenon DEF IInv

\* roll_new_segment opens an empty segment of full size at the end of the log.
LEMMA RollEffect ==
  ASSUME IInv, NEW p \in Producers, Roll(p)
  PROVE  /\ segs' \in Seq(OpenSegments) /\ Len(segs') = Len(segs) + 1
         /\ DOMAIN segs = 1 .. Len(segs) /\ DOMAIN segs' = DOMAIN segs \cup {Len(segs) + 1}
         /\ segs' # <<>> /\ \A j \in DOMAIN segs : segs'[j] = segs[j]
         /\ Last' = segs'[Len(segs) + 1]
         /\ Last'.base = Last.next /\ Last'.next = Last.next /\ ~Last'.sealed
         /\ dir' = dir \cup {Last.next}
         /\ end' \in [Bases -> Nat] /\ \A c \in Bases : end'[c] \in c .. (c + SegCap)
         /\ end'[Last.next] = Last.next + SegCap
         /\ \A c \in Bases : c # Last.next => end'[c] = end[c]
         /\ DOMAIN cache' = Bases /\ \A c \in Bases : cache'[c] \in [Slots(c) -> Cell]
         /\ \A c \in Bases : c # Last.next => cache'[c] = cache[c]
         /\ \A o \in Slots(Last.next) : cache'[Last.next][o] = Blank
  <1> DEFINE n == Last.next
  <1>1. /\ n \in Nat /\ n \in Bases
        /\ n \in dir => /\ end[n] \in {n, n + SegCap}
                        /\ \A o \in Slots(n) : cache[n][o] = Blank
    BY RollFacts, Zenon DEF Roll
  <1>2. OpenSegment(n) BY Zenon DEF Roll
  <1>3. PICK m \in Nat, e \in Nat :
           /\ e = IF n \notin dir \/ end[n] = n THEN n + SegCap ELSE end[n]
           /\ n <= m /\ m <= e /\ e <= n + SegCap
           /\ segs' \in Seq(OpenSegments) /\ Len(segs') = Len(segs) + 1
           /\ DOMAIN segs = 1 .. Len(segs) /\ DOMAIN segs' = DOMAIN segs \cup {Len(segs) + 1}
           /\ segs' # <<>> /\ \A j \in DOMAIN segs : segs'[j] = segs[j]
           /\ Last' = segs'[Len(segs) + 1]
           /\ Last'.base = n /\ Last'.next = m /\ (Last'.sealed <=> e < n + SegCap)
           /\ dir' = dir \cup {n}
           /\ end' \in [Bases -> Nat] /\ \A c \in Bases : end'[c] \in c .. (c + SegCap)
           /\ end'[n] = e /\ \A c \in Bases : c # n => end'[c] = end[c]
           /\ DOMAIN cache' = Bases /\ \A c \in Bases : cache'[c] \in [Slots(c) -> Cell]
           /\ \A c \in Bases : c # n => cache'[c] = cache[c]
           /\ n \notin dir \/ end[n] = n => \A o \in Slots(n) : cache'[n][o] = Blank
           /\ ~(n \notin dir \/ end[n] = n) => cache'[n] = cache[n]
           /\ \A o \in n .. (m - 1) : Valid(cache'[n][o], o)
           /\ m < e => ~Valid(cache'[n][m], m)
    BY <1>1, <1>2, OpenEffect, ZenonT(60)
  <1> HIDE DEF n
  <1>4. e = n + SegCap /\ ~Last'.sealed
    <2>1. e = n + SegCap BY <1>1, <1>3, Zenon
    <2>2. ~(e < e) OBVIOUS
    <2>3. Last'.sealed <=> e < n + SegCap BY <1>3, Zenon
    <2> QED BY <2>1, <2>2, <2>3, Zenon
  <1>5. \A o \in Slots(n) : cache'[n][o] = Blank BY <1>1, <1>3, ZenonT(60)
  <1>6. m = n
    <2>0. n \in Nat /\ n <= m BY <1>1, <1>3, Zenon
    <2> SUFFICES ASSUME n < m PROVE FALSE BY <2>0
    <2>1. n \in n .. (m - 1) /\ n \in Slots(n) BY <1>1 DEF Slots
    <2>2. Valid(cache'[n][n], n) /\ cache'[n][n] = Blank BY <1>3, <1>5, <2>1
    <2> QED BY <2>2, Zenon DEF Valid
  <1> QED BY <1>3, <1>4, <1>5, <1>6, Zenon DEF n

\* The files after roll_new_segment.
LEMMA RollFiles ==
  ASSUME IInv, NEW p \in Producers, Roll(p)
  PROVE  FilesTyped' /\ FileInv' /\ SameRecords
  <1> DEFINE n == Last.next
             lb == Last.base
  <1>1. /\ n = kept /\ n = flushed /\ n \in Nat /\ n \in Bases
        /\ lb \in Nat /\ lb \in dir /\ lb <= n
        /\ \A b \in dir : b \in Bases /\ b \in Nat /\ b <= n
        /\ \A b \in dir : b # n => b <= lb
        /\ n \in dir => /\ end[n] \in {n, n + SegCap}
                        /\ \A o \in Slots(n) : cache[n][o] = Blank
        /\ lb < n => end[lb] = n
    BY RollFacts, Zenon DEF Roll
  <1>2. UNCHANGED <<mode, dirDisk, endDisk, disk, acked, flushed, kept>> BY Zenon DEF Roll
  <1>3. /\ dir' = dir \cup {n}
        /\ end' \in [Bases -> Nat] /\ \A c \in Bases : end'[c] \in c .. (c + SegCap)
        /\ end'[n] = n + SegCap /\ \A c \in Bases : c # n => end'[c] = end[c]
        /\ DOMAIN cache' = Bases /\ \A c \in Bases : cache'[c] \in [Slots(c) -> Cell]
        /\ \A c \in Bases : c # n => cache'[c] = cache[c]
        /\ \A o \in Slots(n) : cache'[n][o] = Blank
    BY RollEffect, Zenon
  <1> HIDE DEF n, lb
  <1>a. n \in Nat /\ kept = n /\ kept' = n /\ flushed = n /\ flushed' = n BY <1>1, <1>2, ZenonT(60)
  <1>7. /\ SameRecords /\ Covered' /\ Kept' /\ Bounds' /\ Stable'
    BY <1>1, <1>2, <1>3, <1>a, NewLastFile, ZenonT(60)
  <1>9. FilesTyped' BY <1>1, <1>2, <1>3, ZenonT(60) DEF IInv, TypeOK, FilesTyped
  <1>11. Absent'
    <2>0. Absent BY Zenon DEF IInv, FileInv
    <2>1. \A b \in Bases \ dir' : b # n /\ b \notin dir BY <1>3, Zenon
    <2>2. ASSUME NEW b \in Bases \ dir'
          PROVE  end'[b] = b /\ endDisk[b] = b /\ \A o \in Slots(b) : cache'[b][o] = Blank
      <3>1. b \in Bases \ dir /\ b \in Bases /\ b # n BY <2>1, Zenon
      <3>2. end[b] = b /\ endDisk[b] = b /\ \A o \in Slots(b) : cache[b][o] = Blank
        BY <2>0, <3>1, Zenon DEF Absent
      <3>3. end'[b] = end[b] /\ cache'[b] = cache[b] BY <1>3, <3>1, Zenon
      <3> QED BY <3>2, <3>3, Zenon
    <2>3. ASSUME NEW b \in Bases, NEW o \in Slots(b), o >= MaxOffset
          PROVE  cache'[b][o] = Blank /\ disk[b][o] = Blank
      <3>1. cache[b][o] = Blank /\ disk[b][o] = Blank BY <2>0, <2>3, Zenon DEF Absent
      <3>2. CASE b = n BY <1>3, <2>3, <3>1, <3>2, Zenon
      <3>3. CASE b # n BY <1>3, <2>3, <3>1, <3>3, Zenon
      <3> QED BY <3>2, <3>3, Zenon
    <2> QED BY <1>2, <2>2, <2>3, Zenon DEF Absent
  <1>12. Acked'
    <2>1. kept' \in Nat /\ kept <= kept' /\ flushed' \in Nat /\ flushed <= flushed' BY <1>a
    <2> QED BY <1>2, <1>7, <2>1, AckedFrame, Zenon
  <1>13. Lengths'
    <2> SUFFICES ASSUME NEW b \in dir'
                 PROVE  /\ endDisk[b] \in {b, end'[b], b + SegCap}
                        /\ \/ end'[b] <= flushed
                           \/ \E c \in dirDisk : b < c
                           \/ end'[b] = b + SegCap /\ \A c \in dir' : c <= b
      BY <1>2, Zenon DEF Lengths
    <2>1. b \in dir => /\ endDisk[b] \in {b, end[b], b + SegCap}
                       /\ \/ end[b] <= flushed
                          \/ \E c \in dirDisk : b < c
                          \/ end[b] = b + SegCap /\ \A c \in dir : c <= b
      BY Zenon DEF IInv, FileInv, Lengths
    <2>2. CASE b = n
      <3>1. n \notin dir => endDisk[n] = n BY <1>1, Zenon DEF IInv, FileInv, Absent
      <3>2. endDisk[n] \in {n, n + SegCap} BY <1>1, <2>1, <2>2, <3>1, Zenon
      <3>3. \A c \in dir' : c <= n
        <4>1. n <= n BY <1>a
        <4> QED BY <1>1, <1>3, <4>1, Zenon
      <3> QED BY <1>3, <2>2, <3>2, <3>3, Zenon
    <2>3. CASE b # n
      <3>1. b \in dir /\ end'[b] = end[b] /\ b \in Bases BY <1>1, <1>3, <2>3, ZenonT(60)
      <3>2. CASE \A c \in dir : c <= b
        <4>1. b \in Nat /\ b <= lb /\ b <= n /\ lb <= b /\ lb \in Nat /\ n \in Nat /\ lb <= n BY <1>1, <2>3, <3>1, <3>2, Zenon
        <4>2. b = lb /\ lb < n BY <2>3, <4>1
        <4>3. end[b] = flushed /\ flushed \in Nat BY <1>1, <4>2, Zenon
        <4> QED BY <2>1, <3>1, <4>3
      <3> QED BY <1>1, <2>1, <3>1, <3>2, ZenonT(60)
    <2> QED BY <2>2, <2>3, Zenon
  <1>14. FileInv' BY <1>7, <1>11, <1>12, <1>13, Zenon DEF FileInv
  <1> QED BY <1>7, <1>9, <1>14, Zenon

\* The open segments after roll_new_segment.
LEMMA RollSegments ==
  ASSUME IInv, NEW p \in Producers, Roll(p)
  PROVE  Sorted' /\ Routes' /\ Abutting' /\ Segment'
  <1> DEFINE n == Last.next
             lb == Last.base
             k == Len(segs)
  <1>1. /\ mode = "up" /\ Last.sealed
        /\ k \in Nat /\ k > 0 /\ k \in DOMAIN segs /\ segs[k] = Last
        /\ n \in Nat /\ n \in Bases /\ lb \in Nat /\ lb <= n
        /\ \A i \in DOMAIN segs : segs[i].base \in Nat /\ segs[i].base <= lb
    BY RollFacts, Zenon DEF Roll
  <1>2. UNCHANGED mode BY Zenon DEF Roll
  <1>3. /\ Len(segs') = Len(segs) + 1 /\ segs' # <<>>
        /\ DOMAIN segs = 1 .. Len(segs) /\ DOMAIN segs' = DOMAIN segs \cup {Len(segs) + 1}
        /\ \A j \in DOMAIN segs : segs'[j] = segs[j]
        /\ segs'[Len(segs) + 1].base = n /\ segs'[Len(segs) + 1].next = n
        /\ dir' = dir \cup {n}
        /\ end'[n] = n + SegCap /\ \A c \in Bases : c # n => end'[c] = end[c]
        /\ \A c \in Bases : c # n => cache'[c] = cache[c]
    BY RollEffect, Zenon
  <1> HIDE DEF n, lb, k
  <1>15. Sorted'
    <2> SUFFICES ASSUME NEW i \in DOMAIN segs', NEW j \in DOMAIN segs', i < j
                 PROVE  /\ (segs[i].base <= segs[j].base)'
                        /\ (segs[i].base = segs[j].base => mode = "up" /\ segs[i].next = segs[i].base)'
      BY Zenon DEF Sorted
    <2>1. i \in DOMAIN segs /\ segs'[i] = segs[i] BY <1>3
    <2>2. CASE j \in DOMAIN segs BY <1>2, <1>3, <2>1, <2>2, Zenon DEF IInv, SegInv, Sorted
    <2>3. CASE j = Len(segs) + 1
      <3>1. segs'[j].base = n BY <1>3, <2>3, Zenon
      <3>2. segs[i].base \in Nat /\ segs[i].base <= n BY <1>1, <2>1
      <3>3. ASSUME segs[i].base = n PROVE segs[i].next = n
        <4>1. lb = n BY <1>1, <2>1, <3>3
        <4>2. CASE i = k BY <1>1, <4>1, <4>2, Zenon DEF n, k
        <4>3. CASE i < k BY <1>1, <2>1, <3>3, <4>1, <4>3, Zenon DEF IInv, SegInv, Sorted, lb, k
        <4> QED BY <1>3, <2>1, <4>2, <4>3 DEF k
      <3> QED BY <1>1, <1>2, <2>1, <3>1, <3>2, <3>3, Zenon
    <2> QED BY <1>3, <2>2, <2>3, Zenon
  <1>16. Routes'
    <2>1. segs # <<>>
      <3>1. Len(segs) > 0 BY <1>1, Zenon DEF k
      <3> QED BY <3>1, NonEmpty, Zenon
    <2>2. segs'[Len(segs) + 1].base = n BY <1>3, Zenon
    <2> QED BY <1>1, <1>3, <2>1, <2>2, RoutesPushed, Zenon DEF IInv, SegInv
  <1>17. Abutting'
    <2> SUFFICES ASSUME NEW i \in DOMAIN segs', i < Len(segs')
                 PROVE  (segs[i + 1].base <= segs[i].next)'
      BY Zenon DEF Abutting
    <2>1. i \in DOMAIN segs /\ segs'[i] = segs[i] BY <1>3
    <2>2. CASE i = Len(segs)
      <3>1. segs'[i + 1].base = n /\ segs'[i].next = n BY <1>1, <1>3, <2>1, <2>2, ZenonT(60) DEF n, k
      <3> QED BY <1>1, <3>1
    <2>3. CASE i < Len(segs)
      <3>1. i + 1 \in DOMAIN segs /\ segs'[i + 1] = segs[i + 1] BY <1>3, <2>1, <2>3
      <3> QED BY <2>1, <2>3, <3>1, Zenon DEF IInv, SegInv, Abutting
    <2> QED BY <1>3, <2>1, <2>2, <2>3
  <1>18. Segment'
    <2> SUFFICES ASSUME NEW i \in DOMAIN segs'
                 PROVE  /\ (segs[i].base \in dir)'
                        /\ (segs[i].base <= segs[i].next /\ segs[i].next <= end[segs[i].base])'
                        /\ \A o \in (segs[i].base .. (segs[i].next - 1))' :
                             (Valid(cache[segs[i].base][o], o))'
                        /\ (~segs[i].sealed => end[segs[i].base] = segs[i].base + SegCap)'
                        /\ (mode = "up" /\ i < Len(segs) => segs[i].sealed)'
      BY Zenon DEF Segment
    <2>1. CASE i = Len(segs) + 1
      <3>1. segs'[i].base = n /\ segs'[i].next = n /\ end'[n] = n + SegCap /\ ~(i < Len(segs'))
        BY <1>3, <2>1
      <3>2. n .. (n - 1) = {} BY <1>1
      <3> QED BY <1>1, <1>3, <3>1, <3>2
    <2>2. CASE i \in DOMAIN segs
      <3>1. /\ segs[i].base \in dir /\ segs[i].base \in Bases /\ segs[i].base \in Nat
            /\ segs[i].next \in Nat /\ segs[i].base <= segs[i].next /\ segs[i].next <= end[segs[i].base]
            /\ end[segs[i].base] \in Nat /\ end[segs[i].base] <= segs[i].base + SegCap
            /\ \A o \in segs[i].base .. (segs[i].next - 1) : Valid(cache[segs[i].base][o], o)
        BY <2>2, SegmentFacts, Zenon
      <3>a. i = k \/ i < k
        <4>1. i \in 1 .. Len(segs) /\ Len(segs) \in Nat BY <2>2, SegmentFacts, Zenon
        <4> QED BY <4>1 DEF k
      <3>2. segs'[i] = segs[i] BY <1>3, <2>2, Zenon
      <3>3. segs[i].sealed
        <4>1. CASE i = k BY <1>1, <4>1, Zenon
        <4>2. CASE i < k BY <1>1, <2>2, <4>2, Zenon DEF IInv, SegInv, Segment, k
        <4> QED BY <3>a, <4>1, <4>2, Zenon
      <3>4. CASE segs[i].base = n
        <4>1. lb = n BY <1>1, <2>2, <3>4
        <4>2. segs[i].next = n
          <5>1. CASE i = k BY <1>1, <4>1, <5>1, Zenon DEF n, k
          <5>2. CASE i < k BY <1>1, <2>2, <3>4, <4>1, <5>2, Zenon DEF IInv, SegInv, Sorted, lb, k
          <5> QED BY <3>a, <5>1, <5>2, Zenon
        <4>3. n .. (n - 1) = {} BY <1>1
        <4>4. n \in dir' /\ end'[n] = n + SegCap /\ n \in Nat BY <1>1, <1>3, Zenon
        <4> QED BY <3>2, <3>3, <3>4, <4>2, <4>3, <4>4
      <3>5. CASE segs[i].base # n
        <4>1. end'[segs[i].base] = end[segs[i].base] /\ cache'[segs[i].base] = cache[segs[i].base]
          BY <1>3, <3>1, <3>5, Zenon
        <4>2. segs[i].base \in dir' BY <1>3, <3>1, Zenon
        <4> QED BY <3>1, <3>2, <3>3, <4>1, <4>2, Zenon DEF Valid
      <3> QED BY <3>4, <3>5, Zenon
    <2> QED BY <1>3, <2>1, <2>2, Zenon
  <1> QED BY <1>15, <1>16, <1>17, <1>18, Zenon

\* roll_new_segment keeps the invariant.
LEMMA RollStep ==
  ASSUME IInv, NEW p \in Producers, Roll(p)
  PROVE  IInv' /\ SameRecords
  <1> DEFINE n == Last.next
  <1>1. /\ mode = "up" /\ LockFree(p) /\ n = kept
        /\ \A b \in dir : b # n => b \in Opened
    BY RollFacts, Zenon DEF Roll
  <1>2. /\ Goto(p, "syncdir") /\ pc[p] = "roll"
        /\ UNCHANGED <<mode, acked, flushed, kept, faults>>
    BY Zenon DEF Roll
  <1>3. /\ segs' \in Seq(OpenSegments) /\ segs' # <<>>
        /\ DOMAIN segs' = DOMAIN segs \cup {Len(segs) + 1}
        /\ \A j \in DOMAIN segs : segs'[j] = segs[j]
        /\ Last' = segs'[Len(segs) + 1] /\ Last'.base = n /\ Last'.next = n /\ ~Last'.sealed
        /\ dir' = dir \cup {n}
    BY RollEffect, Zenon
  <1> HIDE DEF n
  <1>4. FilesTyped' /\ FileInv' /\ SameRecords BY RollFiles, Zenon
  <1>5. Sorted' /\ Routes' /\ Abutting' /\ Segment' BY RollSegments, Zenon
  <1>6. JobsTyped' /\ pc'[p] = "syncdir" BY <1>2, GotoEffect, Zenon DEF IInv, TypeOK
  <1>7. TypeOK' BY <1>2, <1>3, <1>4, <1>6, Zenon DEF IInv, TypeOK
  <1>8. CallInv' BY <1>1, <1>2, <1>4, GotoCallInv, ZenonT(60)
  <1>9. Modes'
    <2>1. Opened' = Opened \cup {n}
      <3>1. \A i \in DOMAIN segs : segs'[i].base = segs[i].base BY <1>3, Zenon
      <3>2. segs'[Len(segs) + 1].base = n BY <1>3, Zenon
      <3> QED BY <1>3, <3>1, <3>2 DEF Opened
    <2>2. \A b \in dir' : b \in Opened' BY <1>1, <1>3, <2>1, Zenon
    <2>3. Last'.next = kept' BY <1>1, <1>2, <1>3, ZenonT(60)
    <2>4. Serving' BY <1>3, <2>2, <2>3, Zenon DEF Serving
    <2> QED BY <1>1, <1>2, <1>3, <2>4, Zenon DEF Modes, Opening, Sealing
  <1>10. Entries' BY <1>1, <1>2, <1>6, Zenon DEF Entries
  <1> QED BY <1>4, <1>5, <1>7, <1>8, <1>9, <1>10, Zenon DEF IInv, SegInv

\* fsync_dir keeps the invariant.
LEMMA SyncDirStep ==
  ASSUME IInv, NEW p \in Producers, SyncDir(p)
  PROVE  IInv' /\ SameRecords
  <1>1. /\ pc[p] = "syncdir" /\ mode = "up" /\ dirDisk' = dir /\ Goto(p, "retry")
        /\ UNCHANGED <<mode, dir, end, endDisk, cache, disk, segs, acked, flushed, kept, faults>>
        /\ dirDisk \subseteq dir
    BY Zenon DEF IInv, TypeOK, FilesTyped, CallInv, Calls, SyncDir
  <1>2. TypeOK' BY <1>1, GotoEffect, Zenon DEF IInv, TypeOK, FilesTyped
  <1>3. FileInv'
    <2>1. Bounds' /\ Absent' /\ Covered' /\ Kept' /\ Acked'
      BY <1>1 DEF IInv, FileInv, Bounds, Absent, Covered, Kept, Acked, Home
    <2>2. Stable' BY <1>1, ZenonT(60) DEF IInv, FileInv, Stable, Home
    <2>3. Lengths' BY <1>1, Zenon DEF IInv, FileInv, Lengths
    <2> QED BY <2>1, <2>2, <2>3, Zenon DEF FileInv
  <1>4. Sorted' /\ Routes' /\ Abutting' /\ Segment'
    BY <1>1 DEF IInv, SegInv, Sorted, Routes, Routed, Abutting, Segment
  <1>5. Modes' BY <1>1, Zenon DEF IInv, SegInv, Modes, Opening, Sealing, Serving, Opened, Home, Last
  <1>6. Entries' BY <1>1, ActiveSegment, Zenon DEF Entries, Last
  <1>7. SameRecords BY <1>1, Zenon DEF SameRecords, Home
  <1>8. LockFree(p) BY <1>1, Zenon DEF IInv, CallInv, Mutex, Holds, LockFree
  <1>9. CallInv' BY <1>1, <1>7, <1>8, GotoCallInv, Zenon
  <1> QED BY <1>7, <1>2, <1>3, <1>4, <1>5, <1>6, <1>9, Zenon DEF IInv, SegInv
=============================================================================
