-------------------------- MODULE SegmentLogProofs --------------------------
(***************************************************************************)
(* What a crash, and the recovery after it, do to the invariant of         *)
(* SegmentLog; that the invariant is inductive; and what follows from it:  *)
(* acknowledged records survive and the log is contiguous and append-only. *)
(***************************************************************************)
EXTENDS SegmentLog, SegmentLogInvariant

USE SegmentLogAssumption, SMTT(30), ZenonT(30), SMTT(60)

\* A step leaves the records alone that are kept before and after it: a power
\* loss keeps fewer.
Preserved ==
  \A b \in dir' : \A o \in Nat :
    o < kept /\ o < kept' /\ Home(b, o)' => b \in dir /\ Home(b, o) /\ cache'[b][o] = cache[b][o]

\* A crash leaves no segment open and no call running.
LEMMA RestartInv ==
  ASSUME IInv, Restart, "power" \in Faults /\ ~MsyncCoversEntry => dirDisk' = dir'
  PROVE  /\ SegInv' /\ CallInv' /\ JobsTyped' /\ segs' \in Seq(OpenSegments)
         /\ mode' = "open" /\ faults' \in 0 .. MaxFaults /\ flushed' = flushed
  <1>1. /\ mode' = "open" /\ segs' = <<>> /\ flushed' = flushed
        /\ pc' = Idle /\ kind' = [p \in Producers |-> "one"] /\ req' = [p \in Producers |-> <<>>]
        /\ done' = [p \in Producers |-> 0] /\ first' = [p \in Producers |-> 0]
    BY Zenon DEF Restart
  <1>2. faults' \in 0 .. MaxFaults BY DEF Restart, IInv, TypeOK
  <1>3. JobsTyped' BY <1>1 DEF JobsTyped, Idle
  <1>4. segs' \in Seq(OpenSegments) BY <1>1
  <1>5. DOMAIN segs' = {} BY <1>1
  <1>6. Sorted' /\ Routes' /\ Abutting' /\ Segment' BY <1>1, <1>5, Zenon DEF Sorted, Routes, Abutting, Segment
  <1>7. Modes'
    <2>1. Opened' = {} BY <1>5, Zenon DEF Opened
    <2> QED BY <1>1, <2>1, Zenon DEF Modes, Opening, Sealing, Serving
  <1>8. Entries' BY <1>1, Zenon DEF Entries
  <1>9. CallInv' BY <1>1 DEF CallInv, Mutex, Calls, Written, Holds, Idle
  <1> QED BY <1>1, <1>2, <1>3, <1>4, <1>6, <1>7, <1>8, <1>9, Zenon DEF SegInv

\* kill -9 keeps the invariant: the only record it can tear is unacknowledged.
LEMMA KillStep ==
  ASSUME IInv, Environment, Kill
  PROVE  IInv' /\ SameRecords
  <1>1. /\ Restart /\ "kill" \in Faults
        /\ UNCHANGED <<dir, dirDisk, end, endDisk, disk, acked, kept>>
    BY Zenon DEF Kill
  <1>2. ~("power" \in Faults /\ ~MsyncCoversEntry) BY <1>1, Zenon DEF Environment
  <1>3. /\ SegInv' /\ CallInv' /\ JobsTyped' /\ segs' \in Seq(OpenSegments)
        /\ mode' = "open" /\ faults' \in 0 .. MaxFaults /\ flushed' = flushed
    BY <1>1, <1>2, RestartInv, Zenon
  <1>4. /\ DOMAIN cache' = Bases /\ \A b \in Bases : cache'[b] \in [Slots(b) -> Cell]
        /\ \A b \in Bases : \A o \in Slots(b) : cache'[b][o] \in {cache[b][o], Blank}
        /\ \A b \in Bases : \A o \in Slots(b) : o < kept => cache'[b][o] = cache[b][o]
    <2>1. FilesTyped BY Zenon DEF IInv, TypeOK
    <2>2. CASE UNCHANGED cache BY <2>1, <2>2, Zenon DEF FilesTyped
    <2>3. CASE ~UNCHANGED cache
      <3>1. PICK p \in Producers : pc[p] \in {"append", "retry"} /\ HasRoom(NextPayload(p))
        BY <2>3, Zenon DEF Kill
      <3>2. mode = "up" BY <3>1, Zenon DEF IInv, CallInv, Calls
      <3>3. Last.next = kept BY <3>2, Zenon DEF IInv, SegInv, Modes, Serving
      <3>4. ~Last.sealed /\ Last.next < Last.base + SegCap BY <3>1, Zenon DEF HasRoom
      <3>5. Last.base \in Bases /\ Last.base \in Nat /\ Last.next \in Nat /\ Last.base <= Last.next
        BY <3>2, ActiveSegment, Zenon
      <3> DEFINE lb == Last.base
                 n == Last.next
      <3>6. n \in Slots(lb) /\ n = kept /\ n \in Nat /\ lb \in Bases BY <3>3, <3>4, <3>5 DEF Slots
      <3>7. cache' = [cache EXCEPT ![lb][n] = Blank] BY <2>3, Zenon DEF Kill
      <3> HIDE DEF lb, n
      <3>8. cache'[lb] \in [Slots(lb) -> Cell] /\ DOMAIN cache' = Bases
        BY <2>1, <3>6, <3>7, Zenon DEF FilesTyped, Cell
      <3>9. \A b \in Bases : cache'[b] \in [Slots(b) -> Cell] BY <2>1, <3>6, <3>7, <3>8, Zenon DEF FilesTyped
      <3>10. \A b \in Bases : \A o \in Slots(b) :
               cache'[b][o] = IF b = lb /\ o = n THEN Blank ELSE cache[b][o]
        BY <2>1, <3>6, <3>7, Zenon DEF FilesTyped
      <3>11. \A b \in Bases : \A o \in Slots(b) : o < kept => cache'[b][o] = cache[b][o]
        BY <3>6, <3>10 DEF Slots
      <3> QED BY <3>8, <3>9, <3>10, <3>11
    <2> QED BY <2>2, <2>3, Zenon
  <1>5. TypeOK'
    <2>1. FilesTyped' BY <1>1, <1>4, Zenon DEF IInv, TypeOK, FilesTyped
    <2> QED BY <1>1, <1>3, <2>1, Zenon DEF IInv, TypeOK
  <1>6. SameRecords
    <2> SUFFICES ASSUME NEW b \in dir, NEW o \in Nat, o < kept, Home(b, o)
                 PROVE  cache'[b][o] = cache[b][o]
      BY <1>1, Zenon DEF SameRecords, Home
    <2> QED BY <1>4, HomeSlot, Zenon
  <1>7. FileInv'
    <2>1. Bounds' /\ Covered' /\ Lengths'
      BY <1>1, <1>3, Zenon DEF IInv, FileInv, Bounds, Covered, Home, Lengths
    <2>2. Absent'
      <3>1. \A b \in Bases \ dir : end[b] = b /\ endDisk[b] = b /\ \A o \in Slots(b) : cache'[b][o] = Blank
        BY <1>4 DEF IInv, FileInv, Absent
      <3>2. \A b \in Bases : \A o \in Slots(b) : o >= MaxOffset => cache'[b][o] = Blank /\ disk[b][o] = Blank
        BY <1>4 DEF IInv, FileInv, Absent
      <3> QED BY <1>1, <3>1, <3>2, Zenon DEF Absent
    <2>3. Kept'
      <3> SUFFICES ASSUME NEW o \in 0 .. (kept' - 1), NEW b \in dir', Home(b, o)'
                   PROVE  (o < end[b] /\ Valid(cache[b][o], o))'
        BY Zenon DEF Kept
      <3>1. o \in Nat /\ o < kept BY <1>1 DEF IInv, TypeOK
      <3>2. b \in dir /\ Home(b, o) /\ cache'[b][o] = cache[b][o] BY <1>6, <3>1, Zenon DEF SameRecords
      <3> QED BY <1>1, <3>1, <3>2, HomeSlot, Zenon DEF Valid
    <2>4. Stable'
      <3> SUFFICES ASSUME "power" \in Faults, NEW o \in 0 .. (flushed' - 1), NEW b \in dir', Home(b, o)'
                   PROVE  (b \in dirDisk /\ disk[b][o] = cache[b][o] /\ o < endDisk[b])'
        BY Zenon DEF Stable
      <3>1. o \in Nat /\ o < kept /\ o \in 0 .. (flushed - 1) BY <1>3 DEF IInv, TypeOK, FileInv, Bounds
      <3>2. b \in dir /\ Home(b, o) /\ cache'[b][o] = cache[b][o] BY <1>6, <3>1, Zenon DEF SameRecords
      <3> QED BY <1>1, <3>1, <3>2, Zenon DEF IInv, FileInv, Stable
    <2>5. Acked'
      <3>1. kept \in Nat /\ flushed \in Nat BY Zenon DEF IInv, TypeOK
      <3>2. kept' \in Nat /\ kept <= kept' /\ flushed' \in Nat /\ flushed <= flushed'
        BY <1>1, <1>3, <3>1
      <3> QED BY <1>1, <1>6, <3>2, AckedFrame, Zenon
    <2> QED BY <2>1, <2>2, <2>3, <2>4, <2>5, Zenon DEF FileInv
  <1> QED BY <1>3, <1>5, <1>6, <1>7, Zenon DEF IInv

\* A power loss keeps the invariant: what was msynced is in a durable file.
LEMMA PowerLossStep ==
  ASSUME IInv, PowerLoss
  PROVE  IInv' /\ Preserved
  <1>1. /\ "power" \in Faults /\ Restart
        /\ dirDisk' = dir' /\ endDisk' = end' /\ disk' = cache' /\ kept' = flushed
        /\ acked' = [o \in DOMAIN acked |-> IF PerMessage \/ o < flushed THEN acked[o] ELSE Blank]
    BY Zenon DEF PowerLoss
  <1>2. /\ SegInv' /\ CallInv' /\ JobsTyped' /\ segs' \in Seq(OpenSegments)
        /\ mode' = "open" /\ faults' \in 0 .. MaxFaults /\ flushed' = flushed
    BY <1>1, RestartInv, Zenon
  <1>3. /\ FilesTyped /\ kept \in Nat /\ flushed \in Nat /\ flushed <= kept
        /\ \A b \in Bases : b \in Nat
        /\ \A b \in dir : b \in Bases /\ b <= flushed
    BY DEF IInv, TypeOK, FilesTyped, FileInv, Bounds, Bases
  <1>4. PICK lost \in SUBSET (dir \ dirDisk), old \in SUBSET {b \in dir : end[b] # endDisk[b]},
             fate \in [Dirty -> {"new", "old", "torn"}] :
          LET len(b) == IF b \in lost THEN b ELSE IF b \in old THEN endDisk[b] ELSE end[b]
              cell(b, o) ==
                IF b \notin dir \/ o >= len(b) THEN Blank
                ELSE IF <<b, o>> \notin Dirty THEN cache[b][o]
                ELSE IF fate[<<b, o>>] = "new" THEN cache[b][o]
                ELSE IF fate[<<b, o>>] = "old" THEN disk[b][o] ELSE Blank
          IN  /\ dir' = dir \ lost
              /\ end' = [b \in Bases |-> len(b)]
              /\ cache' = [b \in Bases |-> [o \in Slots(b) |-> cell(b, o)]]
    BY ZenonT(60) DEF PowerLoss
  <1> DEFINE len(b) == IF b \in lost THEN b ELSE IF b \in old THEN endDisk[b] ELSE end[b]
             cell(b, o) ==
               IF b \notin dir \/ o >= len(b) THEN Blank
               ELSE IF <<b, o>> \notin Dirty THEN cache[b][o]
               ELSE IF fate[<<b, o>>] = "new" THEN cache[b][o]
               ELSE IF fate[<<b, o>>] = "old" THEN disk[b][o] ELSE Blank
  <1>5. /\ dir' = dir \ lost
        /\ end' = [b \in Bases |-> len(b)]
        /\ cache' = [b \in Bases |-> [o \in Slots(b) |-> cell(b, o)]]
    BY <1>4, Zenon
  <1>6. /\ dir' \subseteq dir /\ dirDisk \subseteq dir'
        /\ \A b \in Bases : end'[b] \in {b, end[b], endDisk[b]}
        /\ \A b \in Bases \ dir' : end'[b] = b \/ b \notin dir
        /\ \A b \in Bases \ dir : end'[b] = end[b]
        /\ \A b \in dir' : end'[b] \in {end[b], endDisk[b]}
    BY <1>3, <1>4, <1>5, Zenon DEF FilesTyped
  <1>7. \A b \in Bases : \A o \in Slots(b) :
          /\ cache'[b][o] \in {Blank, cache[b][o], disk[b][o]}
          /\ b \notin dir \/ o >= end'[b] => cache'[b][o] = Blank
    BY <1>5, ZenonT(60)
  <1>8. \A b \in dir' : \A o \in Slots(b) :
          o < end'[b] /\ disk[b][o] = cache[b][o] => cache'[b][o] = cache[b][o]
    <2> SUFFICES ASSUME NEW b \in dir', NEW o \in Slots(b), o < end'[b], disk[b][o] = cache[b][o]
                 PROVE  cache'[b][o] = cache[b][o]
      BY Zenon
    <2>1. b \in dir /\ b \in Bases /\ o \in Nat BY <1>3, <1>6 DEF Slots
    <2>2. end'[b] = len(b) /\ end'[b] \in Nat BY <1>3, <1>5, <1>6, <2>1, Zenon DEF FilesTyped
    <2>3. ~(o >= len(b))
      <3> HIDE DEF len
      <3>1. ~(o >= end'[b]) BY <2>1, <2>2
      <3> QED BY <2>2, <3>1, ZenonT(60)
    <2>4. cell(b, o) = cache[b][o]
      <3> HIDE DEF len
      <3>1. <<b, o>> \notin Dirty BY Zenon DEF Dirty
      <3> QED BY <2>1, <2>3, <3>1, Zenon
    <2> HIDE DEF cell
    <2> QED BY <1>5, <2>1, <2>4, Zenon
  <1>9. /\ DOMAIN cache' = Bases /\ \A b \in Bases : DOMAIN cache'[b] = Slots(b)
        /\ \A b \in Bases : cache'[b] = [o \in Slots(b) |-> cell(b, o)]
        /\ end' = [b \in Bases |-> end'[b]]
    BY <1>5, Zenon
  <1>10. \A b \in Bases : cache'[b] \in [Slots(b) -> Cell]
    <2> SUFFICES ASSUME NEW b \in Bases PROVE cache'[b] \in [Slots(b) -> Cell] BY Zenon
    <2>1. \A o \in Slots(b) : cell(b, o) \in Cell
      <3>1. \A o \in Slots(b) : cell(b, o) = cache'[b][o] BY <1>9
      <3> HIDE DEF cell
      <3> QED BY <1>3, <1>7, <3>1 DEF FilesTyped, Cell
    <2> HIDE DEF cell
    <2> QED BY <1>9, <2>1
  <1> HIDE DEF cell, len
  <1>11. TypeOK'
    <2>1. end' \in [Bases -> Nat] /\ \A b \in Bases : end'[b] \in b .. (b + SegCap)
      <3>1. \A b \in Bases : end'[b] \in b .. (b + SegCap) BY <1>3, <1>6 DEF FilesTyped
      <3>2. \A b \in Bases : end'[b] \in Nat BY <1>3, <3>1
      <3> QED BY <1>9, <3>1, <3>2, Zenon
    <2>2. FilesTyped' BY <1>1, <1>3, <1>6, <1>9, <1>10, <2>1, Zenon DEF FilesTyped
    <2>3. acked' \in [0 .. (MaxOffset - 1) -> Cell] BY <1>1, Zenon DEF IInv, TypeOK, Cell
    <2> QED BY <1>1, <1>2, <1>3, <2>2, <2>3, Zenon DEF TypeOK
  <1>12. ASSUME NEW o \in Nat, o < flushed
         PROVE  \E h \in dir' : /\ h \in dir /\ h \in dirDisk /\ Home(h, o) /\ Home(h, o)'
                                /\ o \in Slots(h) /\ o < end'[h] /\ cache'[h][o] = cache[h][o]
                                /\ Valid(cache'[h][o], o)
    <2>1. o \in 0 .. (kept - 1) /\ o \in 0 .. (flushed - 1) /\ o < kept BY <1>3, <1>12
    <2>2. PICK h \in dir : Home(h, o) BY <2>1, Zenon DEF IInv, FileInv, Covered
    <2>3. h \in dirDisk /\ disk[h][o] = cache[h][o] /\ o < endDisk[h]
      BY <1>1, <2>1, <2>2, Zenon DEF IInv, FileInv, Stable
    <2>4. h \in Bases /\ h \in Nat /\ o \in Slots(h) /\ o < end[h] /\ Valid(cache[h][o], o)
      BY <2>1, <2>2, HomeSlot, Zenon
    <2>5. h \in dir' /\ o < end'[h] BY <1>6, <2>3, <2>4, Zenon
    <2>6. cache'[h][o] = cache[h][o] BY <1>8, <2>3, <2>4, <2>5, Zenon
    <2>7. Home(h, o)' BY <1>6, <2>2, <2>5, Zenon DEF Home
    <2>8. Valid(cache'[h][o], o) BY <2>4, <2>6, Zenon DEF Valid
    <2> QED BY <2>2, <2>3, <2>4, <2>5, <2>6, <2>7, <2>8, Zenon
  <1>13. ASSUME NEW b \in dir', NEW o \in Nat, o < flushed, Home(b, o)'
         PROVE  /\ b \in dir /\ b \in dirDisk /\ Home(b, o)
                /\ o < end'[b] /\ cache'[b][o] = cache[b][o] /\ Valid(cache'[b][o], o)
    <2>1. PICK h \in dir' : /\ h \in dir /\ h \in dirDisk /\ Home(h, o) /\ Home(h, o)'
                            /\ o \in Slots(h) /\ o < end'[h] /\ cache'[h][o] = cache[h][o]
                            /\ Valid(cache'[h][o], o)
      BY <1>12, <1>13, Zenon
    <2>2. b \in Nat /\ h \in Nat /\ b <= h /\ h <= b BY <1>3, <1>6, <1>13, <2>1, Zenon DEF Home
    <2>3. b = h BY <2>2
    <2> QED BY <2>1, <2>3, Zenon
  <1>14. FileInv'
    <2>1. Bounds' BY <1>1, <1>2, <1>3, <1>6 DEF Bounds
    <2>2. Absent'
      <3>1. \A b \in Bases \ dir' : end'[b] = b
        BY <1>6, Zenon DEF IInv, FileInv, Absent
      <3>2. \A b \in Bases \ dir' : \A o \in Slots(b) : cache'[b][o] = Blank
        <4> SUFFICES ASSUME NEW b \in Bases \ dir', NEW o \in Slots(b) PROVE cache'[b][o] = Blank BY Zenon
        <4>1. end'[b] = b /\ b \in Nat /\ o >= b BY <1>3, <3>1 DEF Slots
        <4> QED BY <1>7, <4>1, Zenon
      <3>3. \A b \in Bases : \A o \in Slots(b) : o >= MaxOffset => cache'[b][o] = Blank
        BY <1>7 DEF IInv, FileInv, Absent
      <3> QED BY <1>1, <3>1, <3>2, <3>3, Zenon DEF Absent
    <2>3. Covered'
      <3> SUFFICES ASSUME NEW o \in 0 .. (kept' - 1) PROVE \E b \in dir' : Home(b, o)'
        BY Zenon DEF Covered
      <3>1. o \in Nat /\ o < flushed BY <1>1, <1>3
      <3> QED BY <1>12, <3>1, ZenonT(60)
    <2>4. Kept'
      <3> SUFFICES ASSUME NEW o \in 0 .. (kept' - 1), NEW b \in dir', Home(b, o)'
                   PROVE  (o < end[b] /\ Valid(cache[b][o], o))'
        BY Zenon DEF Kept
      <3>1. o \in Nat /\ o < flushed BY <1>1, <1>3
      <3> QED BY <1>13, <3>1, Zenon DEF Valid
    <2>5. Stable'
      <3> SUFFICES ASSUME "power" \in Faults, NEW o \in 0 .. (flushed' - 1), NEW b \in dir', Home(b, o)'
                   PROVE  (b \in dirDisk /\ disk[b][o] = cache[b][o] /\ o < endDisk[b])'
        BY Zenon DEF Stable
      <3>1. o \in Nat /\ o < flushed BY <1>2, <1>3
      <3>2. o < end'[b] BY <1>13, <3>1, Zenon
      <3> QED BY <1>1, <3>2, Zenon
    <2>6. Acked'
      <3> SUFFICES ASSUME NEW o \in DOMAIN acked', acked'[o] # Blank
                   PROVE  /\ (o < kept)'
                          /\ PerMessage => (o < flushed)'
                          /\ \A b \in dir' : Home(b, o)' => (cache[b][o] = acked[o])'
        BY Zenon DEF Acked
      <3>1. o \in DOMAIN acked /\ o \in Nat /\ acked[o] # Blank /\ acked'[o] = acked[o]
            /\ (PerMessage \/ o < flushed)
        BY <1>1 DEF IInv, TypeOK
      <3>2. o < flushed /\ \A b \in dir : Home(b, o) => cache[b][o] = acked[o]
        BY <3>1, Zenon DEF IInv, FileInv, Acked
      <3>3. ASSUME NEW b \in dir', Home(b, o)' PROVE (cache[b][o] = acked[o])'
        <4>1. b \in dir /\ Home(b, o) /\ cache'[b][o] = cache[b][o] BY <1>13, <3>1, <3>2, <3>3, Zenon
        <4> QED BY <3>1, <3>2, <4>1, Zenon
      <3> QED BY <1>1, <1>2, <3>2, <3>3, ZenonT(60)
    <2>7. Lengths'
      <3> SUFFICES ASSUME NEW b \in dir'
                   PROVE  \/ end'[b] <= flushed
                          \/ \E c \in dir' : b < c
                          \/ end'[b] = b + SegCap /\ \A c \in dir' : c <= b
        BY <1>1, <1>2, Zenon DEF Lengths
      <3>1. /\ endDisk[b] \in {b, end[b], b + SegCap}
            /\ \/ end[b] <= flushed
               \/ \E c \in dirDisk : b < c
               \/ end[b] = b + SegCap /\ \A c \in dir : c <= b
        BY <1>6, Zenon DEF IInv, FileInv, Lengths
      <3>2. b <= flushed /\ end'[b] \in {b, end[b], b + SegCap} BY <1>3, <1>6, <3>1, Zenon
      <3>3. \A c \in dir' : c \in Nat BY <1>3, <1>6, Zenon
      <3>4. (\E c \in dir' : b < c) \/ (\A c \in dir' : c <= b) BY <3>3
      <3> QED BY <1>6, <3>1, <3>2, <3>4, Zenon
    <2> QED BY <2>1, <2>2, <2>3, <2>4, <2>5, <2>6, <2>7, Zenon DEF FileInv
  <1>15. Preserved BY <1>1, <1>13, Zenon DEF Preserved
  <1> QED BY <1>2, <1>11, <1>14, <1>15, Zenon DEF IInv

\* All files are open, or there was none and segment 0 is created.
LEMMA OpenDoneStep ==
  ASSUME IInv, OpenDone
  PROVE  IInv' /\ SameRecords
  <1>1. /\ mode = "open" /\ \A b \in dir : b \in Opened
        /\ UNCHANGED <<dirDisk, endDisk, disk, jobs, acked, flushed, kept, faults>>
    BY Zenon DEF OpenDone
  <1>2. /\ FilesTyped /\ kept \in Nat /\ flushed \in Nat /\ flushed <= kept
    BY Zenon DEF IInv, TypeOK, FileInv, Bounds
  <1>3. CallInv' BY <1>1, IdleCallInv, Zenon
  <1>4. JobsTyped' BY <1>1, Zenon DEF IInv, TypeOK, JobsTyped, jobs
  <1>5. CASE dir = {}
    <2>1. OpenSegment(0) /\ mode' = "dirsync" BY <1>5, Zenon DEF OpenDone
    <2>2. segs = <<>> BY <1>5, LastSegment, Zenon
    <2>3. kept = 0 /\ flushed = 0 /\ 0 \in Bases
      <3>1. ~(kept > 0)
        <4> SUFFICES ASSUME kept > 0 PROVE FALSE BY Zenon
        <4>1. 0 \in 0 .. (kept - 1) BY <1>2
        <4> QED BY <1>5, <4>1, Zenon DEF IInv, FileInv, Covered
      <3> QED BY <1>2, <3>1 DEF Bases
    <2>4. PICK m \in Nat, e \in Nat :
           /\ e = IF 0 \notin dir \/ end[0] = 0 THEN 0 + SegCap ELSE end[0]
           /\ 0 <= m /\ m <= e /\ e <= 0 + SegCap
           /\ segs' \in Seq(OpenSegments) /\ Len(segs') = Len(segs) + 1 /\ Len(segs) \in Nat
           /\ DOMAIN segs = 1 .. Len(segs) /\ DOMAIN segs' = DOMAIN segs \cup {Len(segs) + 1}
           /\ segs' # <<>> /\ \A j \in DOMAIN segs : segs'[j] = segs[j]
           /\ Last' = segs'[Len(segs) + 1]
           /\ Last'.base = 0 /\ Last'.next = m /\ (Last'.sealed <=> e < 0 + SegCap)
           /\ dir' = dir \cup {0}
           /\ end' \in [Bases -> Nat] /\ \A c \in Bases : end'[c] \in c .. (c + SegCap)
           /\ end'[0] = e /\ \A c \in Bases : c # 0 => end'[c] = end[c]
           /\ DOMAIN cache' = Bases /\ \A c \in Bases : cache'[c] \in [Slots(c) -> Cell]
           /\ \A c \in Bases : c # 0 => cache'[c] = cache[c]
           /\ 0 \notin dir \/ end[0] = 0 => \A o \in Slots(0) : cache'[0][o] = Blank
           /\ ~(0 \notin dir \/ end[0] = 0) => cache'[0] = cache[0]
           /\ \A o \in 0 .. (m - 1) : Valid(cache'[0][o], o)
           /\ m < e => ~Valid(cache'[0][m], m)
      BY <2>1, <2>3, OpenEffect, ZenonT(60)
    <2>5. /\ e = SegCap /\ ~Last'.sealed /\ dir' = {0} /\ \A o \in Slots(0) : cache'[0][o] = Blank
      BY <1>5, <2>4
    <2>6. m = 0
      <3> SUFFICES ASSUME 0 < m PROVE FALSE BY <2>4
      <3>1. 0 \in 0 .. (m - 1) /\ 0 \in Slots(0) BY <2>4 DEF Slots
      <3>2. Valid(cache'[0][0], 0) /\ cache'[0][0] = Blank BY <2>4, <2>5, <3>1, Zenon
      <3> QED BY <3>2, Zenon DEF Valid
    <2>7. SameRecords /\ Covered' /\ Kept' /\ Bounds' /\ Stable'
      <3>1. kept' = 0 /\ flushed' = 0 BY <1>1, <2>3, Zenon
      <3> QED BY <1>1, <1>5, <2>3, <2>4, <3>1, NewLastFile
    <2>8. TypeOK'
      <3>1. FilesTyped' BY <1>1, <1>2, <1>5, <2>3, <2>4, <2>5, Zenon DEF FilesTyped
      <3> QED BY <1>1, <1>4, <2>1, <2>4, <3>1, Zenon DEF IInv, TypeOK
    <2>9. Absent'
      <3>1. \A b \in Bases \ dir' : b # 0 /\ b \notin dir BY <1>5, <2>5, Zenon
      <3>2. \A b \in Bases \ dir' : end'[b] = b /\ endDisk[b] = b /\ \A o \in Slots(b) : cache'[b][o] = Blank
        BY <2>4, <3>1 DEF IInv, FileInv, Absent
      <3>3. \A b \in Bases : \A o \in Slots(b) : o >= MaxOffset => cache'[b][o] = Blank /\ disk[b][o] = Blank
        BY <2>4, <2>5 DEF IInv, FileInv, Absent
      <3> QED BY <1>1, <3>2, <3>3 DEF Absent
    <2>10. Acked'
      <3>1. kept' \in Nat /\ kept <= kept' /\ flushed' \in Nat /\ flushed <= flushed' BY <1>1, <2>3
      <3> QED BY <1>1, <2>7, <3>1, AckedFrame, Zenon
    <2>11. Lengths'
      <3>1. endDisk[0] = 0 BY <1>5, <2>3, Zenon DEF IInv, FileInv, Absent
      <3> QED BY <1>1, <2>4, <2>5, <3>1 DEF Lengths
    <2>12. DOMAIN segs' = {1} /\ Len(segs') = 1 /\ segs'[1] = Last'
      BY <2>2, <2>4
    <2>13. Sorted' /\ Abutting' BY <2>12 DEF Sorted, Abutting
    <2>14. Routes'
      <3>1. segs'[Len(segs) + 1].base = 0 BY <2>4, Zenon
      <3> QED BY <2>4, <3>1, RoutesPushed, Zenon DEF IInv, SegInv
    <2>15. Segment'
      <3>1. segs'[1].base = 0 /\ segs'[1].next = 0 /\ end'[0] = SegCap BY <2>4, <2>5, <2>6, <2>12, Zenon
      <3>2. 0 .. (0 - 1) = {} OBVIOUS
      <3> QED BY <2>1, <2>5, <2>12, <3>1, <3>2 DEF Segment
    <2>16. Modes'
      <3>1. 0 \in Opened'
        <4>1. 1 \in DOMAIN segs' /\ segs'[1].base = 0 BY <2>4, <2>12, Zenon
        <4> QED BY <4>1, Zenon DEF Opened
      <3>2. Last'.next = 0 BY <2>4, <2>6, Zenon
      <3> QED BY <1>1, <2>1, <2>3, <2>4, <2>5, <3>1, <3>2, Zenon DEF Modes, Opening, Sealing, Serving
    <2>17. Entries' BY <2>1, Zenon DEF Entries
    <2> QED BY <1>3, <2>7, <2>8, <2>9, <2>10, <2>11, <2>13, <2>14, <2>15, <2>16, <2>17, Zenon DEF IInv, FileInv, SegInv
  <1>6. CASE dir # {}
    <2>1. mode' = "seal" /\ UNCHANGED <<dir, end, cache, segs>> BY <1>6, Zenon DEF OpenDone
    <2>2. segs # <<>>
      <3>1. PICK b \in dir : b \in Opened BY <1>1, <1>6, Zenon
      <3> QED BY <3>1 DEF Opened
    <2> DEFINE lb == Last.base
               n == Last.next
    <2>3. /\ lb \in dir /\ lb \in Bases /\ lb \in Nat /\ n \in Nat /\ lb <= n /\ n <= end[lb] /\ end[lb] \in Nat
          /\ \A c \in dir : c \in Nat /\ c <= lb
      BY <1>1, <2>2, LastSegment, Zenon
    <2>4. /\ \A o \in 0 .. (kept - 1) : Home(lb, o) => o < n
          /\ Last.sealed => lb < end[lb] /\ end[lb] < lb + SegCap
      BY <1>1, <2>2, Zenon DEF IInv, SegInv, Modes, Opening
    <2> HIDE DEF lb, n
    <2>5. n >= kept
      <3> SUFFICES ASSUME n < kept PROVE FALSE BY <1>2, <2>3
      <3>1. PICK o \in Nat : o = kept - 1 BY <1>2, <2>3
      <3>2. Home(lb, o) BY <1>2, <2>3, <3>1 DEF Home
      <3>3. o < n BY <1>2, <2>4, <3>1, <3>2
      <3> QED BY <1>2, <2>3, <3>1, <3>3
    <2>6. ASSUME Last.sealed PROVE lb < n /\ n <= flushed /\ end[lb] = n
      <3>1. lb < end[lb] /\ end[lb] < lb + SegCap BY <2>4, <2>6, Zenon
      <3>2. \/ end[lb] <= flushed
            \/ \E c \in dirDisk : lb < c
            \/ end[lb] = lb + SegCap
        BY <2>3, Zenon DEF IInv, FileInv, Lengths
      <3>3. end[lb] <= flushed BY <1>2, <2>3, <3>1, <3>2 DEF FilesTyped
      <3>4. PICK o \in Nat : o = end[lb] - 1 BY <2>3, <3>1
      <3>5. Home(lb, o) /\ o \in 0 .. (kept - 1) BY <1>2, <2>3, <3>1, <3>3, <3>4 DEF Home
      <3>6. o < n BY <2>4, <3>5, Zenon
      <3> QED BY <2>3, <3>1, <3>3, <3>4, <3>6
    <2>7. TypeOK' BY <1>1, <1>2, <1>4, <2>1, Zenon DEF IInv, TypeOK, FilesTyped
    <2>8. FileInv'
      BY <1>1, <2>1, ZenonT(60) DEF IInv, FileInv, Bounds, Absent, Covered, Kept, Stable, Acked, Lengths, Home
    <2>9. Sorted' /\ Routes' /\ Abutting' /\ Segment'
      BY <1>1, <2>1, ZenonT(60) DEF IInv, SegInv, Sorted, Routes, Routed, Abutting, Segment
    <2>10. Modes'
      <3>1. Last' = Last /\ Opened' = Opened BY <2>1, Zenon DEF Last, Opened
      <3>2. Last.next >= kept BY <2>5, Zenon DEF n
      <3>3. Last.sealed => Last.base < Last.next /\ Last.next <= flushed /\ end[Last.base] = Last.next
        BY <2>6, Zenon DEF lb, n
      <3>4. Sealing' BY <1>1, <2>1, <3>1, <3>2, <3>3, Zenon DEF Sealing
      <3> QED BY <2>1, <2>2, <3>4, Zenon DEF Modes, Opening, Serving
    <2>11. Entries' BY <1>1, <2>1, Zenon DEF IInv, SegInv, Entries
    <2>12. SameRecords BY <1>1, <2>1, Zenon DEF SameRecords, Home
    <2> QED BY <1>3, <2>7, <2>8, <2>9, <2>10, <2>11, <2>12, Zenon DEF IInv, SegInv
  <1> QED BY <1>5, <1>6, Zenon

\* Storing next_offset_ at the end of recovery keeps the invariant.
LEMMA ServeStep ==
  ASSUME IInv, Serve
  PROVE  IInv' /\ SameRecords
  <1>1. /\ mode \in {"seal", "dirsync"} /\ mode' = "up" /\ kept' = Last.next
        /\ UNCHANGED <<dir, end, endDisk, cache, disk, segs, jobs, acked, flushed, faults>>
        /\ mode = "seal" => dirDisk' = dirDisk /\ \A i \in 1 .. (Len(segs) - 1) : segs[i].sealed
        /\ mode = "dirsync" => dirDisk' = dir
    BY Zenon DEF Serve
  <1> DEFINE n == Last.next
  <1>2. /\ segs # <<>> /\ Len(segs) \in Nat /\ DOMAIN segs = 1 .. Len(segs)
        /\ Last.base \in dir /\ Last.base \in Nat /\ n \in Nat
        /\ \A c \in dir : c \in Nat /\ c <= Last.base
    <2>1. segs # <<>> /\ \A b \in dir : b \in Opened BY <1>1, Zenon DEF IInv, SegInv, Modes, Sealing
    <2>2. Len(segs) \in Nat /\ DOMAIN segs = 1 .. Len(segs) BY DEF IInv, TypeOK
    <2> QED BY <2>1, <2>2, LastSegment, Zenon
  <1>3. \A b \in dir : b \in Opened BY <1>1, Zenon DEF IInv, SegInv, Modes, Sealing
  <1>4. /\ kept \in Nat /\ flushed \in Nat /\ flushed <= kept /\ kept <= n
    <2>1. kept \in Nat /\ flushed \in Nat /\ flushed <= kept BY Zenon DEF IInv, TypeOK, FileInv, Bounds
    <2>2. n >= kept BY <1>1, <2>1 DEF IInv, SegInv, Modes, Sealing
    <2> QED BY <1>2, <2>1, <2>2, Zenon
  <1>5. dirDisk \subseteq dirDisk' /\ dirDisk' \subseteq dir BY <1>1, Zenon DEF IInv, TypeOK, FilesTyped
  <1>6. ASSUME NEW o \in Nat, o < n
        PROVE  \E h \in dir : Home(h, o) /\ o < end[h] /\ Valid(cache[h][o], o)
    <2>1. PICK i \in DOMAIN segs : Routed(i, o) BY <1>2, Zenon DEF IInv, SegInv, Routes
    <2>2. Home(segs[i].base, o) /\ o < end[segs[i].base] /\ Valid(cache[segs[i].base][o], o)
      BY <1>2, <1>3, <1>6, <2>1, RoutedHome, Zenon
    <2>3. segs[i].base \in dir BY SegmentFacts, Zenon
    <2> QED BY <2>2, <2>3, Zenon
  <1> HIDE DEF n
  <1>7. kept' = n BY <1>1, Zenon DEF n
  <1>a. SameRecords BY <1>1, Zenon DEF SameRecords, Home
  <1>8. TypeOK'
    <2>1. FilesTyped' BY <1>1, <1>5, Zenon DEF IInv, TypeOK, FilesTyped
    <2> QED BY <1>1, <1>2, <1>4, <1>7, <2>1, Zenon DEF IInv, TypeOK, JobsTyped, jobs
  <1>9. CallInv' BY <1>1, IdleCallInv, Zenon
  <1>10. FileInv'
    <2>1. Bounds' BY <1>1, <1>2, <1>4, <1>7 DEF IInv, FileInv, Bounds
    <2>2. Absent' BY <1>1, Zenon DEF IInv, FileInv, Absent
    <2>3. Covered'
      <3> SUFFICES ASSUME NEW o \in 0 .. (kept' - 1) PROVE \E b \in dir' : Home(b, o)'
        BY Zenon DEF Covered
      <3>1. o \in Nat /\ o < n BY <1>2, <1>7
      <3> QED BY <1>1, <1>6, <3>1, Zenon DEF Home
    <2>4. Kept'
      <3> SUFFICES ASSUME NEW o \in 0 .. (kept' - 1), NEW b \in dir', Home(b, o)'
                   PROVE  (o < end[b] /\ Valid(cache[b][o], o))'
        BY Zenon DEF Kept
      <3>1. o \in Nat /\ o < n BY <1>2, <1>7
      <3>2. PICK h \in dir : Home(h, o) /\ o < end[h] /\ Valid(cache[h][o], o) BY <1>6, <3>1, Zenon
      <3>3. b \in dir /\ b <= h /\ h <= b BY <1>1, <3>2, Zenon DEF Home
      <3>4. b = h BY <1>2, <3>2, <3>3
      <3> QED BY <1>1, <3>2, <3>4, Zenon DEF Valid
    <2>5. Stable' BY <1>1, <1>5, Zenon DEF IInv, FileInv, Stable, Home
    <2>6. Acked'
      <3>1. kept' \in Nat /\ kept <= kept' /\ flushed' \in Nat /\ flushed <= flushed' BY <1>1, <1>2, <1>4, <1>7
      <3> QED BY <1>1, <1>a, <3>1, AckedFrame, Zenon
    <2>7. Lengths' BY <1>1, <1>5, Zenon DEF IInv, FileInv, Lengths
    <2> QED BY <2>1, <2>2, <2>3, <2>4, <2>5, <2>6, <2>7, Zenon DEF FileInv
  <1>11. Sorted' /\ Routes' /\ Abutting' BY <1>1, Zenon DEF IInv, SegInv, Sorted, Routes, Routed, Abutting
  <1>12. ASSUME NEW i \in DOMAIN segs, i < Len(segs) PROVE segs[i].sealed
    <2>1. CASE mode = "seal" BY <1>1, <1>2, <1>12, <2>1
    <2>2. CASE mode = "dirsync"
      <3>1. dir = {0} BY <2>2, Zenon DEF IInv, SegInv, Modes, Sealing
      <3>2. Len(segs) \in DOMAIN segs BY <1>2, <1>12
      <3>3. segs[i].base \in dir /\ segs[Len(segs)].base \in dir BY <3>2, SegmentFacts, Zenon
      <3>4. segs[i].base = segs[Len(segs)].base BY <3>1, <3>3, Zenon
      <3> QED BY <1>12, <2>2, <3>2, <3>4, Zenon DEF IInv, SegInv, Sorted
    <2> QED BY <1>1, <2>1, <2>2, Zenon
  <1>13. Segment' BY <1>1, <1>12, Zenon DEF IInv, SegInv, Segment
  <1>14. Modes'
    <2>1. Last' = Last /\ Opened' = Opened BY <1>1, Zenon DEF Last, Opened
    <2>2. Last.sealed => Last.base < n /\ n <= flushed /\ end[Last.base] = n
      BY <1>1, Zenon DEF IInv, SegInv, Modes, Sealing, n
    <2>3. ASSUME NEW b \in dir, Last.sealed, b = n PROVE FALSE BY <1>2, <2>2, <2>3
    <2>4. Last.next = n BY Zenon DEF n
    <2>5. Serving' BY <1>1, <1>3, <1>7, <2>1, <2>2, <2>3, <2>4, Zenon DEF Serving
    <2> QED BY <1>1, <1>2, <2>5, Zenon DEF Modes, Opening, Sealing
  <1>15. Entries'
    <2>1. Last' = Last BY <1>1, Zenon DEF Last
    <2>2. ASSUME "power" \in Faults /\ ~MsyncCoversEntry PROVE Last.base \in dirDisk'
      BY <1>1, <1>2, <2>2, Zenon DEF IInv, SegInv, Entries
    <2> QED BY <1>1, <2>1, <2>2, Zenon DEF Entries
  <1> QED BY <1>8, <1>9, <1>10, <1>11, <1>13, <1>14, <1>15, <1>a, Zenon DEF IInv, SegInv


\* Replaying one more file keeps the invariant: replay stops at no kept record.
LEMMA OpenNextStep ==
  ASSUME IInv, OpenNext
  PROVE  IInv' /\ SameRecords
  <1>1. /\ mode = "open"
        /\ UNCHANGED <<mode, dirDisk, endDisk, disk, jobs, acked, flushed, kept, faults>>
    BY Zenon DEF OpenNext
  <1>2. PICK b \in dir \ Opened : (\A c \in dir : c < b => c \in Opened) /\ OpenSegment(b)
    BY Zenon DEF OpenNext
  <1>3. /\ b \in dir /\ b \in Bases /\ b \in Nat /\ FilesTyped
        /\ \A c \in dir : c \in Nat /\ c \in Bases /\ c <= kept
        /\ kept \in Nat /\ flushed \in Nat /\ flushed <= kept
        /\ end[b] \in Nat /\ b <= end[b]
        /\ \A c \in Opened : c < b
    <2>1. /\ b \in dir /\ b \in Bases /\ FilesTyped /\ kept \in Nat /\ flushed \in Nat
          /\ \A c \in dir : c \in Bases
      BY <1>2, Zenon DEF IInv, TypeOK, FilesTyped
    <2>2. \A c \in Bases : c \in Nat BY DEF Bases
    <2>3. flushed <= kept /\ \A c \in dir : c <= flushed BY Zenon DEF IInv, FileInv, Bounds
    <2>4. \A c \in dir : c <= kept BY <2>1, <2>2, <2>3
    <2>5. end[b] \in Nat /\ b <= end[b] BY <2>1, <2>2 DEF FilesTyped
    <2>6. \A c \in Opened : c < b BY <1>1, <1>2, Zenon DEF IInv, SegInv, Modes, Opening
    <2> QED BY <2>1, <2>2, <2>3, <2>4, <2>5, <2>6, Zenon
  <1>4. PICK m \in Nat, e \in Nat :
           /\ e = IF b \notin dir \/ end[b] = b THEN b + SegCap ELSE end[b]
           /\ b <= m /\ m <= e /\ e <= b + SegCap
           /\ segs' \in Seq(OpenSegments) /\ Len(segs') = Len(segs) + 1 /\ Len(segs) \in Nat
           /\ DOMAIN segs = 1 .. Len(segs) /\ DOMAIN segs' = DOMAIN segs \cup {Len(segs) + 1}
           /\ segs' # <<>> /\ \A j \in DOMAIN segs : segs'[j] = segs[j]
           /\ Last' = segs'[Len(segs) + 1]
           /\ Last'.base = b /\ Last'.next = m /\ (Last'.sealed <=> e < b + SegCap)
           /\ dir' = dir \cup {b}
           /\ end' \in [Bases -> Nat] /\ \A c \in Bases : end'[c] \in c .. (c + SegCap)
           /\ end'[b] = e /\ \A c \in Bases : c # b => end'[c] = end[c]
           /\ DOMAIN cache' = Bases /\ \A c \in Bases : cache'[c] \in [Slots(c) -> Cell]
           /\ \A c \in Bases : c # b => cache'[c] = cache[c]
           /\ b \notin dir \/ end[b] = b => \A o \in Slots(b) : cache'[b][o] = Blank
           /\ ~(b \notin dir \/ end[b] = b) => cache'[b] = cache[b]
           /\ \A o \in b .. (m - 1) : Valid(cache'[b][o], o)
           /\ m < e => ~Valid(cache'[b][m], m)
    BY <1>2, <1>3, OpenEffect, ZenonT(60)
  <1>5. dir' = dir BY <1>3, <1>4
  <1>6. b < kept => b < end[b]
    <2> SUFFICES ASSUME b < kept PROVE b < end[b] BY Zenon
    <2>1. Home(b, b) BY <1>3 DEF Home
    <2> QED BY <1>3, <2>1, HomeSlot, Zenon
  <1>7. ASSUME NEW c \in dir, NEW o \in Nat, o < kept, Home(c, o)
        PROVE  cache'[c] = cache[c] /\ end'[c] = end[c]
    <2>1. CASE c # b BY <1>3, <1>4, <2>1, Zenon
    <2>2. CASE c = b
      <3>1. b < kept BY <1>3, <1>7, <2>2 DEF Home
      <3>2. end[b] # b BY <1>3, <1>6, <3>1
      <3> QED BY <1>3, <1>4, <2>2, <3>2, Zenon
    <2> QED BY <2>1, <2>2, Zenon
  <1>8. SameRecords BY <1>5, <1>7, Zenon DEF SameRecords, Home
  <1>9. TypeOK'
    <2>1. FilesTyped' BY <1>1, <1>3, <1>4, <1>5, Zenon DEF FilesTyped
    <2> QED BY <1>1, <1>4, <2>1, Zenon DEF IInv, TypeOK, JobsTyped, jobs
  <1>10. CallInv' BY <1>1, IdleCallInv, Zenon
  <1>11. FileInv'
    <2>1. Bounds' /\ Covered' BY <1>1, <1>5, Zenon DEF IInv, FileInv, Bounds, Covered, Home
    <2>2. Absent'
      <3>1. \A c \in Bases \ dir : end'[c] = c /\ endDisk[c] = c /\ \A o \in Slots(c) : cache'[c][o] = Blank
        <4>1. \A c \in Bases \ dir : end'[c] = end[c] /\ cache'[c] = cache[c] BY <1>3, <1>4, Zenon
        <4>2. Absent BY Zenon DEF IInv, FileInv
        <4>3. ASSUME NEW c \in Bases \ dir
              PROVE  end'[c] = c /\ endDisk[c] = c /\ \A o \in Slots(c) : cache'[c][o] = Blank
          <5>1. end[c] = c /\ endDisk[c] = c /\ \A o \in Slots(c) : cache[c][o] = Blank
            BY <4>2, Zenon DEF Absent
          <5>2. end'[c] = end[c] /\ cache'[c] = cache[c] BY <4>1, Zenon
          <5> QED BY <5>1, <5>2, Zenon
        <4> QED BY <4>3, Zenon
      <3>a. \A c \in Bases : \A o \in Slots(c) : o >= MaxOffset => cache[c][o] = Blank /\ disk[c][o] = Blank
        BY Zenon DEF IInv, FileInv, Absent
      <3>b. \A c \in Bases : cache'[c] = cache[c] \/ \A o \in Slots(c) : cache'[c][o] = Blank
        <4>1. CASE end[b] = b BY <1>4, <4>1, ZenonT(60)
        <4>2. CASE end[b] # b BY <1>3, <1>4, <4>2, Zenon
        <4> QED BY <4>1, <4>2, Zenon
      <3>2. \A c \in Bases : \A o \in Slots(c) : o >= MaxOffset => cache'[c][o] = Blank /\ disk[c][o] = Blank
        BY <3>a, <3>b, Zenon
      <3> QED BY <1>1, <1>5, <3>1, <3>2, Zenon DEF Absent
    <2>3. Kept'
      <3> SUFFICES ASSUME NEW o \in 0 .. (kept' - 1), NEW c \in dir', Home(c, o)'
                   PROVE  (o < end[c] /\ Valid(cache[c][o], o))'
        BY Zenon DEF Kept
      <3>1. o \in Nat /\ o < kept /\ c \in dir /\ Home(c, o) BY <1>1, <1>3, <1>5 DEF Home
      <3> QED BY <1>7, <3>1, HomeSlot, Zenon DEF Valid
    <2>4. Stable'
      <3> SUFFICES ASSUME "power" \in Faults, NEW o \in 0 .. (flushed' - 1), NEW c \in dir', Home(c, o)'
                   PROVE  (c \in dirDisk /\ disk[c][o] = cache[c][o] /\ o < endDisk[c])'
        BY Zenon DEF Stable
      <3>a. flushed' = flushed BY <1>1, Zenon
      <3>b. o \in Nat /\ o < kept /\ o \in 0 .. (flushed - 1) BY <1>3, <3>a
      <3>1. o \in Nat /\ o < kept /\ o \in 0 .. (flushed - 1) /\ c \in dir /\ Home(c, o)
        BY <1>5, <3>b, Zenon DEF Home
      <3>2. cache'[c] = cache[c] BY <1>7, <3>1, Zenon
      <3> QED BY <1>1, <3>1, <3>2, Zenon DEF IInv, FileInv, Stable
    <2>5. Acked'
      <3>1. kept' \in Nat /\ kept <= kept' /\ flushed' \in Nat /\ flushed <= flushed' BY <1>1, <1>3
      <3> QED BY <1>1, <1>8, <3>1, AckedFrame, Zenon
    <2>6. Lengths'
      <3> SUFFICES ASSUME NEW c \in dir
                   PROVE  /\ endDisk[c] \in {c, end'[c], c + SegCap}
                          /\ \/ end'[c] <= flushed
                             \/ \E d \in dirDisk : c < d
                             \/ end'[c] = c + SegCap /\ \A d \in dir : d <= c
        BY <1>1, <1>5, Zenon DEF Lengths
      <3>1. /\ endDisk[c] \in {c, end[c], c + SegCap}
            /\ \/ end[c] <= flushed
               \/ \E d \in dirDisk : c < d
               \/ end[c] = c + SegCap /\ \A d \in dir : d <= c
        BY Zenon DEF IInv, FileInv, Lengths
      <3>2. CASE c = b /\ end[b] = b
        <4>1. end'[c] = c + SegCap /\ endDisk[c] \in {c, c + SegCap} BY <1>4, <3>1, <3>2, Zenon
        <4>2. ~(b < kept) BY <1>3, <1>6, <3>2
        <4>3. \A d \in dir : d <= b BY <1>3, <4>2
        <4> QED BY <3>2, <4>1, <4>3, Zenon
      <3>3. CASE ~(c = b /\ end[b] = b)
        <4>1. end'[c] = end[c] BY <1>3, <1>4, <3>3, Zenon
        <4> QED BY <3>1, <4>1, Zenon
      <3> QED BY <3>2, <3>3, Zenon
    <2> QED BY <2>1, <2>2, <2>3, <2>4, <2>5, <2>6, Zenon DEF FileInv
  <1>12. Sorted'
    <2> SUFFICES ASSUME NEW i \in DOMAIN segs', NEW j \in DOMAIN segs', i < j
                 PROVE  /\ (segs[i].base <= segs[j].base)'
                        /\ (segs[i].base = segs[j].base => mode = "up" /\ segs[i].next = segs[i].base)'
      BY Zenon DEF Sorted
    <2>1. i \in DOMAIN segs /\ segs'[i] = segs[i] BY <1>4
    <2>2. CASE j \in DOMAIN segs BY <1>1, <1>4, <2>1, <2>2 DEF IInv, SegInv, Sorted
    <2>3. CASE j = Len(segs) + 1
      <3>1. segs'[j].base = b BY <1>4, <2>3, Zenon
      <3>2. segs[i].base \in Opened BY <2>1, Zenon DEF Opened
      <3>3. segs[i].base < b /\ segs[i].base \in Nat BY <1>3, <2>1, <3>2, SegmentFacts, Zenon
      <3> QED BY <1>3, <2>1, <3>1, <3>3
    <2> QED BY <1>4, <2>2, <2>3, Zenon
  <1>13. Routes'
    <2>1. ASSUME segs = <<>> PROVE b = 0
      <3>1. Opened = {} BY <2>1 DEF Opened
      <3> SUFFICES ASSUME b > 0 PROVE FALSE BY <1>3
      <3>2. 0 \in 0 .. (kept - 1) BY <1>3
      <3>3. PICK h \in dir : Home(h, 0) BY <3>2, Zenon DEF IInv, FileInv, Covered
      <3>4. h < b BY <1>3, <3>3 DEF Home
      <3> QED BY <1>2, <3>1, <3>4, Zenon
    <2>2. segs'[Len(segs) + 1].base = b BY <1>4, Zenon
    <2> QED BY <1>3, <1>4, <2>1, <2>2, RoutesPushed, Zenon DEF IInv, SegInv
  <1>14. Abutting'
    <2> SUFFICES ASSUME NEW i \in DOMAIN segs', i < Len(segs')
                 PROVE  (segs[i + 1].base <= segs[i].next)'
      BY Zenon DEF Abutting
    <2>1. i \in DOMAIN segs /\ segs'[i] = segs[i] BY <1>4
    <2>2. CASE i = Len(segs)
      <3>1. segs # <<>> BY <2>1
      <3>2. /\ segs[i] = Last /\ Last.base \in Opened /\ Last.base \in Nat /\ Last.next \in Nat
            /\ \A c \in Opened : c \in Nat /\ c <= Last.base
        BY <2>2, <3>1, LastSegment, Zenon
      <3>3. Last.base < b BY <1>3, <3>2, Zenon
      <3>4. PICK o \in Nat : o = b - 1 BY <1>3, <3>2, <3>3
      <3>5. o \in 0 .. (kept - 1) BY <1>3, <3>4
      <3>6. Last.base \in dir BY <3>1, LastSegment, Zenon
      <3>7. Home(Last.base, o) BY <1>2, <1>3, <3>2, <3>3, <3>4, <3>6 DEF Home
      <3>8. o < Last.next BY <1>1, <3>1, <3>5, <3>7, Zenon DEF IInv, SegInv, Modes, Opening
      <3>9. segs'[i + 1].base = b /\ segs'[i].next = Last.next BY <1>4, <2>1, <2>2, <3>2, ZenonT(60)
      <3> QED BY <1>3, <3>2, <3>4, <3>8, <3>9
    <2>3. CASE i < Len(segs)
      <3>1. i + 1 \in DOMAIN segs /\ segs'[i + 1] = segs[i + 1] BY <1>4, <2>1, <2>3
      <3> QED BY <2>1, <2>3, <3>1, Zenon DEF IInv, SegInv, Abutting
    <2> QED BY <1>4, <2>1, <2>2, <2>3
  <1>15. Segment'
    <2> SUFFICES ASSUME NEW i \in DOMAIN segs'
                 PROVE  /\ (segs[i].base \in dir)'
                        /\ (segs[i].base <= segs[i].next /\ segs[i].next <= end[segs[i].base])'
                        /\ \A o \in (segs[i].base .. (segs[i].next - 1))' :
                             (Valid(cache[segs[i].base][o], o))'
                        /\ (~segs[i].sealed => end[segs[i].base] = segs[i].base + SegCap)'
                        /\ (mode = "up" /\ i < Len(segs) => segs[i].sealed)'
      BY Zenon DEF Segment
    <2>1. CASE i = Len(segs) + 1
      <3>1. segs'[i].base = b /\ segs'[i].next = m /\ end'[b] = e /\ (segs'[i].sealed <=> e < b + SegCap)
        BY <1>4, <2>1, Zenon
      <3>2. ~(e < b + SegCap) => e = b + SegCap
        <4>1. e \in Nat /\ e <= b + SegCap BY <1>4, Zenon
        <4>2. b \in Nat BY <1>3, Zenon
        <4> QED BY <4>1, <4>2
      <3>3. \A o \in (segs[i].base .. (segs[i].next - 1))' : (Valid(cache[segs[i].base][o], o))'
        BY <1>4, <3>1 DEF Valid
      <3>4. (segs[i].base <= segs[i].next /\ segs[i].next <= end[segs[i].base])' BY <1>4, <3>1
      <3> QED BY <1>1, <1>3, <1>5, <3>1, <3>2, <3>3, <3>4, Zenon
    <2>2. CASE i \in DOMAIN segs
      <3>1. /\ segs[i].base \in dir /\ segs[i].base \in Bases /\ segs[i].base \in Nat
            /\ segs[i].base <= segs[i].next /\ segs[i].next <= end[segs[i].base]
            /\ \A o \in segs[i].base .. (segs[i].next - 1) : Valid(cache[segs[i].base][o], o)
        BY <2>2, SegmentFacts, Zenon
      <3>2. segs'[i] = segs[i] BY <1>4, <2>2, Zenon
      <3>3. ~segs[i].sealed => end[segs[i].base] = segs[i].base + SegCap
        BY <2>2, Zenon DEF IInv, SegInv, Segment
      <3>4. segs[i].base \in Opened BY <2>2, Zenon DEF Opened
      <3>5. segs[i].base # b BY <1>3, <3>4, Zenon
      <3>6. end'[segs[i].base] = end[segs[i].base] /\ cache'[segs[i].base] = cache[segs[i].base]
        BY <1>4, <3>1, <3>5, Zenon
      <3> QED BY <1>1, <1>5, <3>1, <3>2, <3>3, <3>6, Zenon DEF Valid
    <2> QED BY <1>4, <2>1, <2>2, Zenon
  <1>16. Modes'
    <2>1. Opened' = Opened \cup {b}
      <3>1. \A i \in DOMAIN segs : segs'[i].base = segs[i].base BY <1>4, Zenon
      <3>2. segs'[Len(segs) + 1].base = b BY <1>4, Zenon
      <3> QED BY <1>4, <3>1, <3>2 DEF Opened
    <2>2. \A c \in dir : c \in Opened' \/ \A d \in Opened' : d < c
      <3>1. \A c \in dir : c \in Opened \/ \A d \in Opened : d < c
        BY <1>1, Zenon DEF IInv, SegInv, Modes, Opening
      <3>2. \A c \in dir : c \in Opened \/ c = b \/ b < c BY <1>2, <1>3
      <3> QED BY <2>1, <3>1, <3>2, Zenon
    <2>3. ASSUME NEW o \in 0 .. (kept - 1), Home(b, o) PROVE o < m
      <3> SUFFICES ASSUME m <= o PROVE FALSE BY <1>3, <1>4
      <3>1. o \in Nat /\ m < kept /\ b <= m BY <1>3, <1>4
      <3>2. Home(b, m) BY <1>3, <1>4, <2>3, <3>1 DEF Home
      <3>3. m < end[b] /\ Valid(cache[b][m], m) BY <1>3, <1>4, <3>1, <3>2, HomeSlot, Zenon
      <3>4. cache'[b] = cache[b] /\ end'[b] = end[b] BY <1>3, <1>4, <3>1, <3>2, <1>7, Zenon
      <3> QED BY <1>4, <3>3, <3>4
    <2>4. ASSUME Last'.sealed PROVE b < end'[b] /\ end'[b] < b + SegCap
      <3>1. e < b + SegCap BY <1>4, <2>4, Zenon
      <3>2. end[b] # b /\ e = end[b] BY <1>3, <1>4, <3>1
      <3> QED BY <1>3, <1>4, <3>1, <3>2
    <2>5. \A o \in 0 .. (kept - 1) : Home(b, o)' => Home(b, o) BY <1>5, Zenon DEF Home
    <2>6. Opening'
      <3> SUFFICES /\ \A c \in dir' : c \in Opened' \/ \A d \in Opened' : d < c
                   /\ \A o \in 0 .. (kept' - 1) : Home(Last.base, o)' => (o < Last.next)'
                   /\ (Last.sealed => Last.base < end[Last.base] /\ end[Last.base] < Last.base + SegCap)'
        BY Zenon DEF Opening
      <3>1. \A o \in 0 .. (kept' - 1) : Home(Last.base, o)' => (o < Last.next)'
        <4> SUFFICES ASSUME NEW o \in 0 .. (kept' - 1), Home(Last.base, o)' PROVE (o < Last.next)'
          BY Zenon
        <4>1. o \in 0 .. (kept - 1) BY <1>1, Zenon
        <4>2. Home(b, o)' BY <1>4, Zenon DEF Home
        <4> QED BY <1>4, <2>3, <2>5, <4>1, <4>2, Zenon
      <3> QED BY <1>4, <1>5, <2>2, <2>4, <3>1, Zenon
    <2> QED BY <1>1, <1>4, <2>6, Zenon DEF Modes, Sealing, Serving
  <1>17. Entries' BY <1>1, <1>5, Zenon DEF IInv, SegInv, Entries
  <1> QED BY <1>8, <1>9, <1>10, <1>11, <1>12, <1>13, <1>14, <1>15, <1>16, <1>17, Zenon DEF IInv, SegInv

\* Sealing a recovered segment cuts off no kept record, because the next file
\* starts at or below the end of its records.
LEMMA SealRecoveredStep ==
  ASSUME IInv, SealRecovered
  PROVE  IInv' /\ SameRecords
  <1>1. mode = "seal" /\ UNCHANGED <<mode, jobs, acked, flushed, kept, faults>> BY Zenon DEF SealRecovered
  <1>2. PICK i \in 1 .. (Len(segs) - 1) : ~segs[i].sealed /\ SealSegment(i) BY Zenon DEF SealRecovered
  <1> DEFINE b0 == segs[i].base
             n0 == segs[i].next
             b1 == segs[i + 1].base
  <1>3. /\ Len(segs) \in Nat /\ i \in DOMAIN segs /\ i + 1 \in DOMAIN segs /\ i < Len(segs)
        /\ Len(segs) \in DOMAIN segs
    BY <1>2 DEF IInv, TypeOK
  <1>4. /\ b0 \in dir /\ b0 \in Bases /\ b0 \in Nat /\ n0 \in Nat /\ b0 <= n0 /\ n0 <= end[b0]
        /\ b1 \in dir /\ b1 \in Nat
    BY <1>3, SegmentFacts, Zenon
  <1>5. b0 < b1 /\ b1 <= n0 /\ b0 # Last.base
    BY <1>1, <1>3, <1>4 DEF IInv, SegInv, Sorted, Abutting, Last
  <1>6. end[b0] = b0 + SegCap BY <1>2, <1>3, Zenon DEF IInv, SegInv, Segment
  <1>7. \A o \in Nat : o < kept /\ Home(b0, o) => o < n0 BY <1>4, <1>5 DEF Home
  <1>8. SameRecords /\ Absent' /\ Covered' /\ Kept' BY <1>1, <1>2, <1>3, <1>7, SealedFiles, Zenon
  <1>9. Sorted' /\ Routes' /\ Abutting' /\ Segment' BY <1>1, <1>2, <1>3, SealedSegments, Zenon
  <1>10. /\ Msync(segs[i]) /\ dir' = dir /\ FilesTyped'
         /\ segs' \in Seq(OpenSegments) /\ Len(segs') = Len(segs) /\ DOMAIN segs' = DOMAIN segs
         /\ \A j \in DOMAIN segs : segs'[j].base = segs[j].base /\ segs'[j].next = segs[j].next
         /\ \A j \in DOMAIN segs : j # i => segs'[j] = segs[j]
         /\ \A b \in Bases : b # b0 => end'[b] = end[b] /\ cache'[b] = cache[b]
         /\ end'[b0] = n0
    BY <1>2, <1>3, SealEffect, Zenon
  <1>11. /\ dirDisk \subseteq dirDisk' /\ (~MsyncCoversEntry => dirDisk' = dirDisk)
         /\ \A b \in Bases : b # b0 => disk'[b] = disk[b] /\ endDisk'[b] = endDisk[b]
         /\ \A o \in Slots(b0) : disk'[b0][o] = IF o < n0 THEN cache[b0][o] ELSE disk[b0][o]
         /\ endDisk'[b0] = IF n0 = b0 THEN endDisk[b0] ELSE end[b0]
    BY <1>3, <1>10, MsyncEffect, ZenonT(60)
  <1>12. /\ kept \in Nat /\ flushed \in Nat /\ flushed <= kept /\ kept' = kept /\ flushed' = flushed
    BY <1>1, Zenon DEF IInv, TypeOK, FileInv, Bounds
  <1> HIDE DEF b0, n0, b1
  <1>13. TypeOK' BY <1>1, <1>10, ZenonT(60) DEF IInv, TypeOK, JobsTyped, jobs
  <1>14. CallInv' BY <1>1, IdleCallInv, Zenon
  <1>15. Bounds' BY <1>1, <1>10, ZenonT(60) DEF IInv, FileInv, Bounds
  <1>16. Stable'
    <2> SUFFICES ASSUME "power" \in Faults, NEW o \in 0 .. (flushed' - 1), NEW b \in dir', Home(b, o)'
                 PROVE  (b \in dirDisk /\ disk[b][o] = cache[b][o] /\ o < endDisk[b])'
      BY Zenon DEF Stable
    <2>1. o \in Nat /\ o < kept /\ o \in 0 .. (flushed - 1) BY <1>12
    <2>2. b \in dir /\ Home(b, o) /\ cache'[b][o] = cache[b][o] BY <1>8, <2>1, Zenon DEF SameRecords
    <2>3. b \in Bases /\ o \in Slots(b) /\ o < end[b] BY <2>1, <2>2, HomeSlot, Zenon
    <2>4. b \in dirDisk /\ disk[b][o] = cache[b][o] /\ o < endDisk[b]
      BY <2>1, <2>2, Zenon DEF IInv, FileInv, Stable
    <2>5. CASE b = b0
      <3>1. o < n0 /\ b0 <= o BY <1>7, <2>1, <2>2, <2>5, Zenon DEF Home
      <3>2. n0 # b0 BY <1>4, <2>1, <3>1
      <3> QED BY <1>11, <2>2, <2>3, <2>4, <2>5, <3>1, <3>2, Zenon
    <2>6. CASE b # b0 BY <1>11, <2>2, <2>3, <2>4, <2>6, Zenon
    <2> QED BY <2>5, <2>6, ZenonT(60)
  <1>17. Acked'
    <2>1. kept' \in Nat /\ kept <= kept' /\ flushed' \in Nat /\ flushed <= flushed' BY <1>12
    <2> QED BY <1>1, <1>8, <2>1, AckedFrame, Zenon
  <1>18. Lengths'
    <2> SUFFICES ASSUME NEW b \in dir
                 PROVE  /\ endDisk'[b] \in {b, end'[b], b + SegCap}
                        /\ \/ end'[b] <= flushed
                           \/ \E c \in dirDisk' : b < c
                           \/ end'[b] = b + SegCap /\ \A c \in dir : c <= b
      BY <1>1, <1>10, Zenon DEF Lengths
    <2>1. /\ endDisk[b] \in {b, end[b], b + SegCap}
          /\ \/ end[b] <= flushed
             \/ \E c \in dirDisk : b < c
             \/ end[b] = b + SegCap /\ \A c \in dir : c <= b
      BY Zenon DEF IInv, FileInv, Lengths
    <2>2. b \in Bases BY Zenon DEF IInv, TypeOK, FilesTyped
    <2>3. CASE b = b0
      <3>1. endDisk'[b] \in {b, b + SegCap} BY <1>6, <1>11, <2>1, <2>3, Zenon
      <3>2. ~(\A c \in dir : c <= b) BY <1>4, <1>5, <2>3
      <3>3. end[b] <= flushed => end'[b] <= flushed
        <4>1. end'[b] = n0 /\ n0 <= end[b] /\ n0 \in Nat BY <1>4, <1>10, <2>3, Zenon
        <4>2. end[b] \in Nat BY <1>4, <1>6, <2>3
        <4> QED BY <1>12, <4>1, <4>2
      <3> QED BY <1>11, <2>1, <3>1, <3>2, <3>3, Zenon
    <2>4. CASE b # b0
      <3>1. end'[b] = end[b] /\ endDisk'[b] = endDisk[b] BY <1>10, <1>11, <2>2, <2>4, ZenonT(60)
      <3> QED BY <1>11, <2>1, <3>1, Zenon
    <2> QED BY <2>3, <2>4, Zenon
  <1>19. Modes'
    <2>1. Last' = Last
      <3>1. Len(segs) # i /\ Len(segs) \in DOMAIN segs /\ Len(segs') = Len(segs) BY <1>3, <1>10
      <3>2. segs'[Len(segs)] = segs[Len(segs)] BY <1>10, <3>1, ZenonT(60)
      <3> QED BY <3>1, <3>2, Zenon DEF Last
    <2>2. Opened' = Opened BY <1>10 DEF Opened
    <2>3. Last.base \in Bases BY <1>1, ActiveSegment, Zenon
    <2>4. end'[Last.base] = end[Last.base] BY <1>5, <1>10, <2>3, Zenon
    <2>5. Sealing' BY <1>1, <1>10, <2>1, <2>2, <2>4, ZenonT(60) DEF IInv, SegInv, Modes, Sealing
    <2>6. segs' # <<>>
      <3>1. Len(segs') = Len(segs) BY <1>10, ZenonT(60)
      <3>2. Len(segs) \in Nat /\ i \in 1 .. (Len(segs) - 1) BY <1>3, Zenon
      <3>3. Len(segs) > 0 BY <3>2
      <3>4. Len(segs') > 0 BY <3>1, <3>3, Zenon
      <3> QED BY <3>4, NonEmpty, Zenon
    <2> QED BY <1>1, <2>5, <2>6, Zenon DEF Modes, Opening, Serving
  <1>20. Entries' BY <1>1, <1>10, <1>11, ZenonT(60) DEF IInv, SegInv, Entries
  <1> QED BY <1>8, <1>9, <1>13, <1>14, <1>15, <1>16, <1>17, <1>18, <1>19, <1>20, Zenon DEF IInv, FileInv, SegInv

-----------------------------------------------------------------------------
\* An empty directory satisfies the invariant.
LEMMA InitInv == Init => IInv
  <1> SUFFICES ASSUME Init PROVE IInv BY Zenon
  <1>1. TypeOK BY DEF Init, TypeOK, FilesTyped, JobsTyped, Bases, Slots, Cell, Idle
  <1>2. FileInv
    BY DEF Init, FileInv, Bounds, Absent, Covered, Kept, Stable, Acked, Lengths, Bases, Slots
  <1>3. SegInv
    BY DEF Init, SegInv, Sorted, Routes, Abutting, Segment, Modes, Opening, Sealing, Serving, Entries, Opened
  <1>4. CallInv
    BY DEF Init, CallInv, Mutex, Calls, Written, Holds, Idle
  <1> QED BY <1>1, <1>2, <1>3, <1>4, Zenon DEF IInv

\* Every step of the system keeps the invariant, and leaves the records that are
\* kept before and after it where and as they are.
LEMMA NextStep ==
  ASSUME IInv, Environment, Next
  PROVE  IInv' /\ Preserved
  <1>0. SameRecords => Preserved BY Zenon DEF SameRecords, Preserved
  <1>1. ASSUME NEW p \in Producers, NEW v \in Payloads \cup {Oversized}, Publish(p, <<v>>, "one")
        PROVE  IInv' /\ SameRecords
    <2>1. <<v>> \in Seq(Payloads \cup {Oversized}) /\ Len(<<v>>) = 1 OBVIOUS
    <2>2. Len(<<v>>) > 0 /\ Len(<<v>>) <= 1 BY <2>1
    <2> QED BY <1>1, <2>1, <2>2, PublishStep, ZenonT(60)
  <1>2. ASSUME NEW p \in Producers, NEW b \in Batches, Publish(p, b, "batch") PROVE IInv' /\ SameRecords
    <2>1. PICK n \in 1 .. MaxBatch : b \in [1 .. n -> Payloads] BY Zenon DEF Batches
    <2>2. b \in Seq(Payloads \cup {Oversized}) /\ Len(b) = n BY <2>1
    <2>3. Len(b) > 0 BY <2>1, <2>2
    <2> QED BY <1>2, <2>2, <2>3, PublishStep, Zenon
  <1>3. ASSUME NEW p \in Producers,
               Append1(p) \/ Seal(p) \/ Roll(p) \/ RollFails(p) \/ SyncDir(p) \/ TooLarge(p) \/ Flush(p)
        PROVE  IInv' /\ SameRecords
    BY <1>3, AppendStep, SealStep, RollStep, RollFailsStep, SyncDirStep, TooLargeStep, FlushStep, Zenon
       DEF Environment
  <1>4. CASE UserFlush BY <1>0, <1>4, UserFlushStep, Zenon
  <1>5. CASE Kill BY <1>0, <1>5, KillStep, Zenon
  <1>6. CASE PowerLoss BY <1>6, PowerLossStep, Zenon
  <1>7. CASE OpenNext \/ OpenDone \/ SealRecovered \/ Serve
    BY <1>0, <1>7, OpenNextStep, OpenDoneStep, SealRecoveredStep, ServeStep, Zenon
  <1> QED BY <1>0, <1>1, <1>2, <1>3, <1>4, <1>5, <1>6, <1>7, ZenonT(60) DEF Next

\* A step that changes no variable changes no invariant.
LEMMA StutterStep ==
  ASSUME IInv, UNCHANGED vars
  PROVE  IInv' /\ SameRecords
  <1> USE DEF vars, files, jobs
  <1>1. TypeOK' BY Zenon DEF IInv, TypeOK, FilesTyped, JobsTyped
  <1>2. FileInv'
    BY DEF IInv, FileInv, Bounds, Absent, Covered, Kept, Stable, Acked, Lengths, Home
  <1>3. Sorted' /\ Routes' /\ Abutting' /\ Segment'
    BY ZenonT(60) DEF IInv, SegInv, Sorted, Routes, Routed, Abutting, Segment
  <1>4. Modes' BY DEF IInv, SegInv, Modes, Opening, Sealing, Serving, Opened, Home, Last
  <1>5. Entries' BY Zenon DEF IInv, SegInv, Entries, Last
  <1>6. SameRecords BY Zenon DEF SameRecords, Home
  <1>7. Mutex' /\ Calls' BY DEF IInv, CallInv, Mutex, Calls, Holds, Last
  <1>8. Written' BY <1>6, OtherWritten, Zenon DEF Written
  <1> QED BY <1>1, <1>2, <1>3, <1>4, <1>5, <1>6, <1>7, <1>8, Zenon DEF IInv, SegInv, CallInv

\* IInv is an invariant of the write path of a partition, whatever the number
\* of producers, the size of a segment and the number of crashes.
THEOREM Invariance ==
  ASSUME Environment
  PROVE  Spec => []IInv
  <1>1. Init => IInv BY InitInv, Zenon
  <1>2. IInv /\ [Next]_vars => IInv'
    <2> SUFFICES ASSUME IInv, [Next]_vars PROVE IInv' BY Zenon
    <2>1. CASE Next BY <2>1, NextStep, Zenon
    <2>2. CASE UNCHANGED vars BY <2>2, StutterStep, Zenon
    <2> QED BY <2>1, <2>2, Zenon
  <1> QED BY <1>1, <1>2, PTL DEF Spec

\* The types of the variables: no file outgrows max_segment_bytes_, and no
\* record that fits in no segment is ever written.
THEOREM TypeCorrect ==
  ASSUME Environment
  PROVE  Spec => []TypeOK
  <1>1. IInv => TypeOK BY Zenon DEF IInv
  <1> QED BY <1>1, Invariance, PTL

\* While the log serves, Log::read(o) of an offset below next_offset() returns
\* what the last file that starts at or below o holds there.
LEMMA ReadHome ==
  ASSUME IInv, mode = "up", NEW o \in Nat, o < Last.next
  PROVE  \E h \in dir : /\ Home(h, o) /\ Read(o) = cache[h][o] /\ Valid(cache[h][o], o)
                        /\ o < kept
  <1>1. segs # <<>> BY Zenon DEF IInv, SegInv, Modes
  <1>2. \A b \in dir : b \in Opened \/ Last.next <= b
    <2>1. \A b \in dir : b \in Opened \/ b = Last.next BY Zenon DEF IInv, SegInv, Modes, Serving
    <2>2. \A b \in dir : b \in Nat BY <1>1, LastSegment, Zenon
    <2> QED BY <2>1, <2>2
  <1>3. \E i \in DOMAIN segs : Routed(i, o) BY <1>1, Zenon DEF IInv, SegInv, Routes
  <1>4. Route(o) \in DOMAIN segs /\ Routed(Route(o), o) BY <1>3, ZenonT(60) DEF Route
  <1>5. PICK i \in DOMAIN segs : i = Route(o) /\ Routed(i, o) BY <1>4, Zenon
  <1>6. Home(segs[i].base, o) /\ o < segs[i].next /\ Valid(cache[segs[i].base][o], o)
    BY <1>1, <1>2, <1>5, RoutedHome, Zenon
  <1>7. Read(o) = cache[segs[i].base][o] BY <1>5, <1>6, Zenon DEF Read
  <1>8. o < kept BY Zenon DEF IInv, SegInv, Modes, Serving
  <1>9. segs[i].base \in dir BY SegmentFacts, Zenon
  <1> QED BY <1>6, <1>7, <1>8, <1>9, Zenon

\* What a publish returned is read back, at the offset it returned, after any
\* sequence of rolls, kills, power losses and failed segment creations.
THEOREM AckedRecordsSurvive ==
  ASSUME Environment
  PROVE  Spec => []AckedSurvive
  <1>1. IInv => AckedSurvive
    <2> SUFFICES ASSUME IInv, mode = "up", NEW o \in DOMAIN acked, acked[o] # Blank
                 PROVE  Read(o) = acked[o]
      BY Zenon DEF AckedSurvive
    <2>1. o \in Nat BY DEF IInv, TypeOK
    <2>2. o < kept /\ \A b \in dir : Home(b, o) => cache[b][o] = acked[o] BY Zenon DEF IInv, FileInv, Acked
    <2>3. o < Last.next BY <2>2, Zenon DEF IInv, SegInv, Modes, Serving
    <2>4. PICK h \in dir : Home(h, o) /\ Read(o) = cache[h][o] BY <2>1, <2>3, ReadHome, Zenon
    <2> QED BY <2>2, <2>4, Zenon
  <1> QED BY <1>1, Invariance, PTL

\* Recovery leaves no hole: every offset below next_offset() reads as a record,
\* and next_offset() is not below what a flush or a completed append promised.
THEOREM LogIsContiguous ==
  ASSUME Environment
  PROVE  Spec => []Contiguous
  <1>1. IInv => Contiguous
    <2> SUFFICES ASSUME IInv, mode = "up" PROVE /\ \A o \in 0 .. (Last.next - 1) : Read(o) \in Payloads
                                                /\ Last.next >= kept
      BY Zenon DEF Contiguous
    <2>1. Last.next = kept /\ kept \in Nat BY Zenon DEF IInv, TypeOK, SegInv, Modes, Serving
    <2>2. ASSUME NEW o \in 0 .. (Last.next - 1) PROVE Read(o) \in Payloads
      <3>1. o \in Nat /\ o < Last.next BY <2>1
      <3>2. PICK h \in dir : Read(o) = cache[h][o] /\ Valid(cache[h][o], o) BY <3>1, ReadHome, Zenon
      <3> QED BY <3>2, Zenon DEF Valid
    <2> QED BY <2>1, <2>2
  <1> QED BY <1>1, Invariance, PTL

\* A log that serves is append-only: no append, seal, roll or flush changes
\* what Log::read returns for an offset already below next_offset().
THEOREM LogIsAppendOnly ==
  ASSUME Environment
  PROVE  Spec => AppendOnly
  <1> DEFINE A == mode = "up" /\ mode' = "up" => \A o \in 0 .. (Last.next - 1) : Read(o)' = Read(o)
             ReadsHome == mode = "up" => \A o \in Nat : o < Last.next =>
                            \E h \in dir : Home(h, o) /\ Read(o) = cache[h][o]
  <1>0. IInv => ReadsHome BY ReadHome, Zenon
  <1>1. IInv /\ IInv' /\ ReadsHome /\ ReadsHome' /\ [Next]_vars => [A]_vars
    <2> SUFFICES ASSUME IInv, IInv', ReadsHome, ReadsHome', Next, mode = "up", mode' = "up", NEW o \in 0 .. (Last.next - 1)
                 PROVE  Read(o)' = Read(o)
      BY Zenon
    <2>1. Preserved BY NextStep, Zenon
    <2>2. Last.next = kept /\ kept \in Nat BY Zenon DEF IInv, TypeOK, SegInv, Modes, Serving
    <2>3. Last'.next = kept' /\ kept' \in Nat BY Zenon DEF IInv, TypeOK, SegInv, Modes, Serving
    <2>4. kept <= kept'
      <3>1. ASSUME NEW p \in Producers, Append1(p) PROVE kept' = kept + 1 BY <2>2, <3>1, Zenon DEF Append1
      <3>2. ASSUME ~\E p \in Producers : Append1(p) PROVE kept' = kept
        BY <3>2, ZenonT(60) DEF Next, Publish, Seal, Roll, RollFails, SyncDir, TooLarge, Flush, UserFlush,
                    Kill, PowerLoss, Restart, OpenNext, OpenDone, SealRecovered, Serve
      <3> QED BY <2>2, <3>1, <3>2
    <2>5. o \in Nat /\ o < kept /\ o < kept' BY <2>2, <2>3, <2>4
    <2>6. PICK h \in dir : Home(h, o) /\ Read(o) = cache[h][o] BY <2>2, <2>5, Zenon
    <2>7. PICK g \in dir' : Home(g, o)' /\ Read(o)' = cache'[g][o] BY <2>3, <2>5, Zenon
    <2>8. g \in dir /\ Home(g, o) /\ cache'[g][o] = cache[g][o] BY <2>1, <2>5, <2>7, Zenon DEF Preserved
    <2>9. \A b \in dir : b \in Nat BY LastSegment, Zenon DEF IInv, SegInv, Modes
    <2>10. g <= h /\ h <= g BY <2>6, <2>8, Zenon DEF Home
    <2>11. g = h BY <2>8, <2>9, <2>10
    <2> QED BY <2>6, <2>7, <2>8, <2>11, Zenon
  <1>2. Spec => [][Next]_vars BY Zenon DEF Spec
  <1> QED BY <1>0, <1>1, <1>2, Invariance, PTL DEF AppendOnly

(***************************************************************************)
(* The durable log                                                         *)
(***************************************************************************)

\* The log that the refinement mapping shows.
Records == IF mode = "up" THEN [i \in 1 .. Last.next |-> Read(i - 1)]
                          ELSE [i \in 1 .. kept |-> FileRead(i - 1)]

\* It is the row of records below kept, each in the file where it is looked for.
OnFiles ==
  /\ kept \in Nat /\ \A b \in dir : b \in Nat
  /\ Records \in Seq(Payloads) /\ Len(Records) = kept
  /\ \A i \in 1 .. kept : \E h \in dir : Home(h, i - 1) /\ Records[i] = cache[h][i - 1]

\* Acknowledgements are added and none is taken back.
AcksGrow ==
  /\ DOMAIN acked' = DOMAIN acked
  /\ \A o \in DOMAIN acked : acked'[o] = acked[o] \/ acked'[o] # Blank

\* The record of an offset below kept is found in its file before the log serves.
LEMMA FileReadHome ==
  ASSUME IInv, NEW o \in Nat, o < kept
  PROVE  \E h \in dir : Home(h, o) /\ FileRead(o) = cache[h][o] /\ Valid(cache[h][o], o)
  <1>1. kept \in Nat /\ FilesTyped BY Zenon DEF IInv, TypeOK
  <1>2. o \in 0 .. (kept - 1) BY <1>1
  <1>3. PICK h \in dir : Home(h, o) BY <1>2, Zenon DEF IInv, FileInv, Covered
  <1>4. h \in Nat /\ Valid(cache[h][o], o) BY <1>3, HomeSlot, Zenon
  <1>5. PICK below : below = {b \in dir : b <= o} BY Zenon
  <1>6. h \in below /\ \A c \in below : c <= h BY <1>3, <1>5, Zenon DEF Home
  <1>7. PICK g : g = CHOOSE b \in below : \A c \in below : c <= b BY Zenon
  <1>8. g \in below /\ \A c \in below : c <= g BY <1>6, <1>7, Zenon
  <1>9. g \in Nat
    <2>1. g \in Bases BY <1>1, <1>5, <1>8, Zenon DEF FilesTyped
    <2> QED BY <2>1 DEF Bases
  <1>10. g <= h /\ h <= g BY <1>6, <1>8, Zenon
  <1>11. g = h BY <1>4, <1>9, <1>10
  <1>12. below # {} BY <1>6, Zenon
  <1>13. FileRead(o) = cache[g][o] BY <1>5, <1>7, <1>12, Zenon DEF FileRead
  <1> QED BY <1>3, <1>4, <1>11, <1>13, Zenon

\* A function on 1 .. n is a sequence of n elements.
LEMMA RowOf ==
  ASSUME NEW n \in Nat, NEW S, NEW f, f = [i \in 1 .. n |-> f[i]], \A i \in 1 .. n : f[i] \in S
  PROVE  f \in Seq(S) /\ Len(f) = n
  <1>1. f \in [1 .. n -> S] BY Zenon
  <1> QED BY <1>1

\* What Log::read and recovery will find is one and the same row of records.
LEMMA RecordsOnFiles == IInv => OnFiles
  <1> SUFFICES ASSUME IInv PROVE OnFiles BY Zenon
  <1>1. kept \in Nat /\ FilesTyped BY Zenon DEF IInv, TypeOK
  <1>2. \A b \in dir : b \in Nat BY <1>1 DEF FilesTyped, Bases
  <1>3. PICK r : r = Records BY Zenon
  <1>4. r = [i \in 1 .. kept |-> r[i]] /\
        \A i \in 1 .. kept : \E h \in dir : Home(h, i - 1) /\ r[i] = cache[h][i - 1] /\ Valid(cache[h][i - 1], i - 1)
    <2>0. \A i \in 1 .. kept : i - 1 \in Nat /\ i - 1 < kept BY <1>1
    <2>1. CASE mode = "up"
      <3>1. Last.next = kept BY <2>1, Zenon DEF IInv, SegInv, Modes, Serving
      <3>2. r = [i \in 1 .. kept |-> Read(i - 1)] BY <1>3, <2>1, <3>1, Zenon DEF Records
      <3>3. r = [i \in 1 .. kept |-> r[i]] /\ \A i \in 1 .. kept : r[i] = Read(i - 1) BY <3>2, Zenon
      <3>4. ASSUME NEW i \in 1 .. kept
            PROVE  \E h \in dir : Home(h, i - 1) /\ r[i] = cache[h][i - 1] /\ Valid(cache[h][i - 1], i - 1)
        <4>1. PICK o \in Nat : o = i - 1 /\ o < Last.next BY <2>0, <3>1, Zenon
        <4>2. \E h \in dir : Home(h, o) /\ Read(o) = cache[h][o] /\ Valid(cache[h][o], o)
          BY <2>1, <4>1, ReadHome, Zenon
        <4> QED BY <3>3, <4>1, <4>2, Zenon
      <3> QED BY <3>3, <3>4, Zenon
    <2>2. CASE mode # "up"
      <3>2. r = [i \in 1 .. kept |-> FileRead(i - 1)] BY <1>3, <2>2, Zenon DEF Records
      <3>3. r = [i \in 1 .. kept |-> r[i]] /\ \A i \in 1 .. kept : r[i] = FileRead(i - 1) BY <3>2, Zenon
      <3>4. ASSUME NEW i \in 1 .. kept
            PROVE  \E h \in dir : Home(h, i - 1) /\ r[i] = cache[h][i - 1] /\ Valid(cache[h][i - 1], i - 1)
        <4>1. PICK o \in Nat : o = i - 1 /\ o < kept BY <2>0, Zenon
        <4>2. \E h \in dir : Home(h, o) /\ FileRead(o) = cache[h][o] /\ Valid(cache[h][o], o)
          BY <4>1, FileReadHome, Zenon
        <4> QED BY <3>3, <4>1, <4>2, Zenon
      <3> QED BY <3>3, <3>4, Zenon
    <2> QED BY <2>1, <2>2, Zenon
  <1>5. \A i \in 1 .. kept : r[i] \in Payloads BY <1>4, Zenon DEF Valid
  <1>6. r \in Seq(Payloads) /\ Len(r) = kept BY <1>1, <1>4, <1>5, RowOf, Zenon
  <1> QED BY <1>1, <1>2, <1>3, <1>4, <1>6, Zenon DEF OnFiles

\* Records that are preserved are the same in the row.
LEMMA RowPreserved ==
  ASSUME OnFiles, OnFiles', Preserved, NEW i \in 1 .. kept, i \in 1 .. kept'
  PROVE  Records'[i] = Records[i]
  <1>1. PICK h \in dir : Home(h, i - 1) /\ Records[i] = cache[h][i - 1] BY Zenon DEF OnFiles
  <1>2. PICK g \in dir' : Home(g, i - 1)' /\ Records'[i] = cache'[g][i - 1] BY Zenon DEF OnFiles
  <1>3. i - 1 \in Nat /\ i - 1 < kept /\ i - 1 < kept' BY DEF OnFiles
  <1>4. g \in dir /\ Home(g, i - 1) /\ cache'[g][i - 1] = cache[g][i - 1] BY <1>2, <1>3, Zenon DEF Preserved
  <1>5. g \in Nat /\ h \in Nat /\ g <= h /\ h <= g BY <1>1, <1>4, Zenon DEF OnFiles, Home
  <1>6. g = h BY <1>5
  <1> QED BY <1>1, <1>2, <1>4, <1>6, Zenon

\* A row that begins another one.
LEMMA RowBegins ==
  ASSUME NEW r \in Seq(Payloads), NEW s \in Seq(Payloads), Len(r) <= Len(s),
         \A i \in 1 .. Len(r) : s[i] = r[i]
  PROVE  SubSeq(s, 1, Len(r)) = r /\ (Len(r) = Len(s) => s = r)
  OBVIOUS

\* What a step makes of the log, as the durable log sees it: no kept record
\* changes, and what is kept may grow or shrink.
LEMMA RowStep ==
  ASSUME OnFiles, OnFiles', Preserved
  PROVE  /\ Records \in Seq(Payloads) /\ Records' \in Seq(Payloads)
         /\ Len(Records) = kept /\ Len(Records') = kept' /\ kept \in Nat /\ kept' \in Nat
         /\ kept <= kept' => SubSeq(Records', 1, Len(Records)) = Records
         /\ kept' <= kept => Records' = SubSeq(Records, 1, Len(Records'))
         /\ kept' = kept => Records' = Records
  <1>1. PICK r, s : r = Records /\ s = Records' BY Zenon
  <1>2. /\ r \in Seq(Payloads) /\ s \in Seq(Payloads) /\ Len(r) = kept /\ Len(s) = kept'
        /\ kept \in Nat /\ kept' \in Nat
    BY <1>1, Zenon DEF OnFiles
  <1>3. \A i \in 1 .. kept : i \in 1 .. kept' => s[i] = r[i] BY <1>1, RowPreserved, Zenon
  <1>4. ASSUME kept <= kept' PROVE SubSeq(s, 1, Len(r)) = r /\ (kept' = kept => s = r)
    <2>1. \A i \in 1 .. kept : i \in 1 .. kept' BY <1>2, <1>4
    <2>2. \A i \in 1 .. Len(r) : s[i] = r[i] BY <1>2, <1>3, <2>1, Zenon
    <2> QED BY <1>2, <1>4, <2>2, RowBegins, Zenon
  <1>5. ASSUME kept' <= kept PROVE SubSeq(r, 1, Len(s)) = s
    <2>1. \A i \in 1 .. kept' : i \in 1 .. kept BY <1>2, <1>5
    <2>2. \A i \in 1 .. Len(s) : r[i] = s[i] BY <1>2, <1>3, <2>1, Zenon
    <2> QED BY <1>2, <1>5, <2>2, RowBegins, Zenon
  <1>6. kept' = kept => kept <= kept' BY <1>2
  <1> QED BY <1>1, <1>2, <1>4, <1>5, <1>6, Zenon

\* Acknowledgements name the record the log holds.
LEMMA AcksHeld ==
  ASSUME IInv', OnFiles', AcksGrow, NEW o \in DOMAIN acked
  PROVE  \/ acked'[o] = acked[o]
         \/ /\ o < Len(Records')
            /\ PerMessage => o < flushed'
            /\ acked'[o] = Records'[o + 1]
  <1> SUFFICES ASSUME acked'[o] # acked[o]
               PROVE  o < Len(Records') /\ (PerMessage => o < flushed') /\ acked'[o] = Records'[o + 1]
    BY Zenon
  <1>1. o \in DOMAIN acked' /\ acked'[o] # Blank BY Zenon DEF AcksGrow
  <1>2. Acked' /\ acked' \in [0 .. (MaxOffset - 1) -> Cell] BY Zenon DEF IInv, TypeOK, FileInv
  <1>3. /\ o < kept' /\ (PerMessage => o < flushed')
        /\ \A b \in dir' : Home(b, o)' => cache'[b][o] = acked'[o]
    BY <1>1, <1>2, Zenon DEF Acked
  <1>4. kept' \in Nat /\ Len(Records') = kept' BY Zenon DEF OnFiles
  <1>5. o \in 0 .. (MaxOffset - 1) BY <1>1, <1>2, Zenon
  <1>6. o + 1 \in 1 .. kept' /\ (o + 1) - 1 = o BY <1>3, <1>4, <1>5
  <1>7. PICK h \in dir' : Home(h, (o + 1) - 1)' /\ Records'[o + 1] = cache'[h][(o + 1) - 1]
    BY <1>6, Zenon DEF OnFiles
  <1>8. Home(h, o)' /\ Records'[o + 1] = cache'[h][o] BY <1>6, <1>7, Zenon
  <1> QED BY <1>3, <1>4, <1>8, Zenon

\* The five ways in which a step is visible in the counters and the history.
Silent == UNCHANGED <<acked, flushed, kept>> /\ (mode' = "up" <=> mode = "up")
Appends == mode = "up" /\ mode' = "up" /\ kept' = kept + 1 /\ flushed' = flushed /\ AcksGrow
Syncs == mode = "up" /\ mode' = "up" /\ kept' = kept /\ flushed' = kept /\ AcksGrow
Crashes ==
  /\ mode' = "open" /\ flushed' = flushed /\ flushed <= kept' /\ kept' <= kept
  /\ DOMAIN acked' = DOMAIN acked
  /\ \A o \in DOMAIN acked : acked'[o] = IF PerMessage \/ o < kept' THEN acked[o] ELSE Blank
Recovers == mode # "up" /\ mode' = "up" /\ kept <= kept' /\ UNCHANGED <<acked, flushed>>

\* A call acknowledges records, so no acknowledgement is taken back.
LEMMA AcknowledgeGrows ==
  ASSUME IInv, NEW p \in Producers, NEW start \in Nat, \A k \in 1 .. Len(req[p]) : req[p][k] \in Payloads,
         acked' = Acknowledge(p, start, Len(req[p]))
  PROVE  AcksGrow
  <1>1. acked \in [0 .. (MaxOffset - 1) -> Cell] /\ req[p] \in Seq(Payloads \cup {Oversized})
    BY Zenon DEF IInv, TypeOK, JobsTyped
  <1>2. PICK n \in Nat : n = Len(req[p]) BY <1>1
  <1>3. DOMAIN acked' = DOMAIN acked BY Zenon DEF Acknowledge
  <1>4. ASSUME NEW o \in DOMAIN acked PROVE acked'[o] = acked[o] \/ acked'[o] # Blank
    <2>1. CASE o \in start .. (start + n - 1)
      <3>1. acked'[o] = req[p][o - start + 1] BY <1>2, <2>1, Zenon DEF Acknowledge
      <3>2. o - start + 1 \in 1 .. n BY <1>2, <2>1
      <3> QED BY <1>2, <3>1, <3>2, Zenon
    <2>2. CASE o \notin start .. (start + n - 1) BY <1>2, <2>2, Zenon DEF Acknowledge
    <2> QED BY <2>1, <2>2, Zenon
  <1> QED BY <1>3, <1>4, Zenon DEF AcksGrow

\* Segment::append adds one record; with the last one of the call the call is
\* acknowledged, unless a flush comes first.
LEMMA AppendAppends ==
  ASSUME IInv, NEW p \in Producers, Append1(p)
  PROVE  Appends
  <1>1. /\ pc[p] \in {"append", "retry"} /\ HasRoom(NextPayload(p))
        /\ kept' = Last.next + 1 /\ UNCHANGED <<mode, flushed>>
        /\ \/ UNCHANGED acked
           \/ /\ done[p] + 1 = Len(req[p])
              /\ acked' = Acknowledge(p, IF done[p] = 0 THEN Last.next ELSE first[p], Len(req[p]))
    BY Zenon DEF Append1
  <1>2. mode = "up" BY <1>1, Zenon DEF IInv, CallInv, Calls
  <1>3. Last.next = kept /\ kept \in Nat BY <1>2, Zenon DEF IInv, TypeOK, SegInv, Modes, Serving
  <1>4. AcksGrow
    <2>1. CASE UNCHANGED acked BY <2>1, Zenon DEF AcksGrow
    <2>2. CASE ~UNCHANGED acked
      <3>1. /\ done[p] \in Nat /\ first[p] \in Nat /\ req[p] \in Seq(Payloads \cup {Oversized})
        BY Zenon DEF IInv, TypeOK, JobsTyped
      <3>2. PICK start \in Nat : start = IF done[p] = 0 THEN Last.next ELSE first[p] BY <1>3, <3>1, Zenon
      <3>3. done[p] + 1 = Len(req[p]) /\ acked' = Acknowledge(p, start, Len(req[p])) BY <1>1, <2>2, <3>2, Zenon
      <3>4. req[p][done[p] + 1] # Oversized BY <1>1, Zenon DEF HasRoom, NextPayload
      <3>5. done[p] > 0 => \A k \in 1 .. done[p] : req[p][k] \in Payloads BY Zenon DEF IInv, CallInv, Written
      <3>6. \A k \in 1 .. Len(req[p]) : req[p][k] \in Payloads
        <4> SUFFICES ASSUME NEW k \in 1 .. Len(req[p]) PROVE req[p][k] \in Payloads BY Zenon
        <4>1. req[p][k] \in Payloads \cup {Oversized} BY <3>1
        <4>2. k = done[p] + 1 \/ (done[p] > 0 /\ k \in 1 .. done[p]) BY <3>1, <3>3
        <4> QED BY <3>4, <3>5, <4>1, <4>2, Zenon
      <3> QED BY <3>3, <3>6, AcknowledgeGrows, Zenon
    <2> QED BY <2>1, <2>2, Zenon
  <1> QED BY <1>1, <1>2, <1>3, <1>4, Zenon DEF Appends

\* The flush of a publish makes all of the log stable and acknowledges the call.
LEMMA FlushSyncs ==
  ASSUME IInv, NEW p \in Producers, Flush(p)
  PROVE  Syncs
  <1>1. /\ pc[p] = "flush" /\ UNCHANGED <<mode, kept>> /\ flushed' = Last.next
        /\ acked' = Acknowledge(p, first[p], Len(req[p]))
    BY Zenon DEF Flush
  <1>2. mode = "up" /\ Len(req[p]) > 0 /\ done[p] = Len(req[p]) BY <1>1, Zenon DEF IInv, CallInv, Calls
  <1>3. Last.next = kept BY <1>2, Zenon DEF IInv, SegInv, Modes, Serving
  <1>4. \A k \in 1 .. Len(req[p]) : req[p][k] \in Payloads BY <1>2, Zenon DEF IInv, CallInv, Written
  <1>5. first[p] \in Nat BY Zenon DEF IInv, TypeOK, JobsTyped
  <1>6. AcksGrow BY <1>1, <1>4, <1>5, AcknowledgeGrows, Zenon
  <1> QED BY <1>1, <1>2, <1>3, <1>6, Zenon DEF Syncs

\* Sealing the active segment makes all of the log stable; one that is sealed
\* already is left alone.
LEMMA SealSyncs ==
  ASSUME IInv, NEW p \in Producers, Seal(p)
  PROVE  Syncs \/ Silent
  <1>1. /\ pc[p] = "append" /\ UNCHANGED <<mode, acked, kept>>
        /\ flushed' = flushed \/ flushed' = Last.next
    BY Zenon DEF Seal
  <1>2. mode = "up" BY <1>1, Zenon DEF IInv, CallInv, Calls
  <1>3. Last.next = kept BY <1>2, Zenon DEF IInv, SegInv, Modes, Serving
  <1>4. AcksGrow BY <1>1, Zenon DEF AcksGrow
  <1> QED BY <1>1, <1>2, <1>3, <1>4, Zenon DEF Syncs, Silent

\* kill -9 and power loss keep what had been msynced.
LEMMA CrashCrashes ==
  ASSUME IInv, Kill \/ PowerLoss
  PROVE  Crashes
  <1>1. kept \in Nat /\ flushed \in Nat /\ flushed <= kept /\ Acked
    BY Zenon DEF IInv, TypeOK, FileInv, Bounds
  <1>2. kept <= kept /\ flushed <= flushed BY <1>1
  <1>3. CASE Kill
    <2>1. mode' = "open" /\ flushed' = flushed /\ UNCHANGED <<acked, kept>> BY <1>3, Zenon DEF Kill, Restart
    <2>2. \A o \in DOMAIN acked : acked[o] = IF PerMessage \/ o < kept THEN acked[o] ELSE Blank
      BY <1>1, Zenon DEF Acked
    <2> QED BY <1>1, <1>2, <2>1, <2>2, Zenon DEF Crashes
  <1>4. CASE PowerLoss
    <2>1. /\ mode' = "open" /\ flushed' = flushed /\ kept' = flushed
          /\ acked' = [o \in DOMAIN acked |-> IF PerMessage \/ o < flushed THEN acked[o] ELSE Blank]
      BY <1>4, Zenon DEF PowerLoss, Restart
    <2> QED BY <1>1, <1>2, <2>1, Zenon DEF Crashes
  <1> QED BY <1>3, <1>4, Zenon

\* The last step of the constructor serves at least what had to be kept.
LEMMA ServeRecovers ==
  ASSUME IInv, Serve
  PROVE  Recovers
  <1>1. mode \in {"seal", "dirsync"} /\ mode' = "up" /\ kept' = Last.next /\ UNCHANGED <<acked, flushed>>
    BY Zenon DEF Serve
  <1>2. kept \in Nat BY Zenon DEF IInv, TypeOK
  <1>3. mode = "seal" => Last.next >= kept BY Zenon DEF IInv, SegInv, Modes, Sealing
  <1>4. mode = "dirsync" => kept = 0 /\ Last.next = 0 BY Zenon DEF IInv, SegInv, Modes, Sealing
  <1>5. Last.next \in Nat BY <1>1, ActiveSegment, Zenon
  <1>6. kept <= Last.next BY <1>1, <1>2, <1>3, <1>4, <1>5
  <1> QED BY <1>1, <1>6, Zenon DEF Recovers

\* Every other step is silent.
LEMMA StepKind ==
  ASSUME IInv, Next
  PROVE  Silent \/ Appends \/ Syncs \/ Crashes \/ Recovers
  <1>1. ASSUME NEW p \in Producers, NEW b, NEW k, Publish(p, b, k) PROVE Silent
    BY <1>1, Zenon DEF Publish, Silent
  <1>2. ASSUME NEW p \in Producers, Roll(p) \/ RollFails(p) \/ SyncDir(p) \/ TooLarge(p) PROVE Silent
    BY <1>2, Zenon DEF Roll, RollFails, SyncDir, TooLarge, Silent
  <1>3. CASE UserFlush
    <2>1. mode = "up" /\ UNCHANGED <<mode, acked, kept>> /\ flushed' = Last.next BY <1>3, Zenon DEF UserFlush
    <2>2. Last.next = kept BY <2>1, Zenon DEF IInv, SegInv, Modes, Serving
    <2>3. AcksGrow BY <2>1, Zenon DEF AcksGrow
    <2> QED BY <2>1, <2>2, <2>3, Zenon DEF Syncs
  <1>4. CASE OpenNext \/ SealRecovered BY <1>4, Zenon DEF OpenNext, SealRecovered, Silent
  <1>5. CASE OpenDone
    <2>1. mode = "open" /\ mode' \in {"dirsync", "seal"} /\ UNCHANGED <<acked, flushed, kept>>
      BY <1>5, Zenon DEF OpenDone
    <2> QED BY <2>1, Zenon DEF Silent
  <1>6. ASSUME NEW p \in Producers, Append1(p) \/ Seal(p) \/ Flush(p) PROVE Appends \/ Syncs \/ Silent
    BY <1>6, AppendAppends, SealSyncs, FlushSyncs, Zenon
  <1>7. CASE Kill \/ PowerLoss BY <1>7, CrashCrashes, Zenon
  <1>8. CASE Serve BY <1>8, ServeRecovers, Zenon
  <1> QED BY <1>1, <1>2, <1>3, <1>4, <1>5, <1>6, <1>7, <1>8, ZenonT(60) DEF Next

\* A step of the segments is a step of the durable log, or none.
LEMMA DurableStep ==
  ASSUME IInv, IInv', OnFiles, OnFiles', Environment, Next
  PROVE  Durable!Next \/ UNCHANGED <<mode = "up", Records, flushed, acked>>
  <1>1. Preserved BY NextStep, Zenon
  <1>2. /\ Records \in Seq(Payloads) /\ Records' \in Seq(Payloads)
        /\ Len(Records) = kept /\ Len(Records') = kept' /\ kept \in Nat /\ kept' \in Nat
        /\ kept <= kept' => SubSeq(Records', 1, Len(Records)) = Records
        /\ kept' <= kept => Records' = SubSeq(Records, 1, Len(Records'))
        /\ kept' = kept => Records' = Records
    BY <1>1, RowStep, Zenon
  <1>3. AcksGrow => Durable!AcksFrom(Records', flushed') BY AcksHeld, Zenon DEF AcksGrow, Durable!AcksFrom
  <1>4. CASE Silent BY <1>2, <1>4, Zenon DEF Silent
  <1>5. CASE Appends
    <2>1. /\ mode = "up" /\ mode' = "up" /\ kept' = kept + 1 /\ flushed' = flushed
          /\ Durable!AcksFrom(Records', flushed)
      BY <1>3, <1>5, Zenon DEF Appends
    <2>2. kept <= kept' BY <1>2, <2>1
    <2>3. Records'[Len(Records')] \in Payloads BY <1>2, <2>1
    <2> QED BY <1>2, <2>1, <2>2, <2>3, Zenon DEF Durable!Next, Durable!Write, Records
  <1>6. CASE Syncs
    <2>1. /\ mode = "up" /\ mode' = "up" /\ kept' = kept /\ flushed' = kept
          /\ Durable!AcksFrom(Records', flushed')
      BY <1>3, <1>6, Zenon DEF Syncs
    <2> QED BY <1>2, <2>1, Zenon DEF Durable!Next, Durable!Sync, Records
  <1>7. CASE Crashes
    <2>1. /\ mode' = "open" /\ flushed' = flushed /\ flushed <= kept' /\ kept' <= kept
          /\ DOMAIN acked' = DOMAIN acked
          /\ \A o \in DOMAIN acked : acked'[o] = IF PerMessage \/ o < kept' THEN acked[o] ELSE Blank
      BY <1>7, Zenon DEF Crashes
    <2>2. flushed \in Nat BY Zenon DEF IInv, TypeOK
    <2>3. kept' \in flushed .. kept BY <1>2, <2>1, <2>2
    <2> QED BY <1>2, <2>1, <2>3, Zenon DEF Durable!Next, Durable!Crash, Records
  <1>8. CASE Recovers
    <2>1. mode # "up" /\ mode' = "up" /\ kept <= kept' /\ UNCHANGED <<acked, flushed>>
      BY <1>8, Zenon DEF Recovers
    <2>2. kept' >= kept BY <1>2, <2>1
    <2>3. \A i \in DOMAIN Records' : Records'[i] \in Payloads BY <1>2
    <2> QED BY <1>2, <2>1, <2>2, <2>3, Zenon DEF Durable!Next, Durable!Recover, Records
  <1> QED BY <1>4, <1>5, <1>6, <1>7, <1>8, StepKind, Zenon

\* Segments, files, locks, group flushes, crashes and recovery implement the
\* durable log: what publishes, flushes and reads see of a partition is a row of
\* records that grows at its end, loses in a crash nothing that was stable, and
\* is acknowledged only as it stands.
THEOREM LogIsDurable ==
  ASSUME Environment
  PROVE  Spec => ImplementsDurableLog
  <1>1. Init => Durable!Init
    <2> SUFFICES ASSUME Init PROVE Durable!Init BY Zenon
    <2>1. mode = "open" /\ kept = 0 /\ flushed = 0 /\ acked = [o \in 0 .. (MaxOffset - 1) |-> Blank]
      BY Zenon DEF Init
    <2>2. [i \in 1 .. kept |-> FileRead(i - 1)] = <<>> BY <2>1
    <2> QED BY <2>1, <2>2, Zenon DEF Durable!Init
  <1>2. IInv /\ IInv' /\ OnFiles /\ OnFiles' /\ [Next]_vars => [Durable!Next]_(Durable!vars)
    <2> SUFFICES ASSUME IInv, IInv', OnFiles, OnFiles', [Next]_vars
                 PROVE  Durable!Next \/ UNCHANGED <<mode = "up", Records, flushed, acked>>
      BY Zenon DEF Durable!vars, Records
    <2>1. CASE Next BY <2>1, DurableStep, Zenon
    <2>2. CASE UNCHANGED vars
      <3>1. Silent BY <2>2, Zenon DEF vars, Silent
      <3>2. Preserved BY <2>2, StutterStep, Zenon DEF SameRecords, Preserved
      <3>3. Records' = Records BY <3>1, <3>2, RowStep, Zenon DEF Silent
      <3> QED BY <3>1, <3>3, Zenon DEF Silent
    <2> QED BY <2>1, <2>2, Zenon
  <1> QED BY <1>1, <1>2, RecordsOnFiles, Invariance, PTL DEF Spec, ImplementsDurableLog, Durable!Spec
=============================================================================
