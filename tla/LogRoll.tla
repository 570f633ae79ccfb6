------------------------------ MODULE LogRoll -------------------------------
(***************************************************************************)
(* The end of a segment: Log::append seals the active one and goes on in a *)
(* new one (roll_new_segment and fsync_dir).                               *)
(***************************************************************************)
EXTENDS SegmentState

\* Mutant: a segment that is sealed already is not rolled.
SealUnsealed(p) ==
  /\ pc[p] = "append"
  /\ LockFree(p)
  /\ ~HasRoom(NextPayload(p)) /\ ~Last.sealed
  /\ SealSegment(Len(segs)) /\ flushed' = Last.next
  /\ Goto(p, "roll")
  /\ UNCHANGED <<mode, acked, kept, faults>>

\* The active segment has no room (or is sealed already): seal() it.
Seal(p) ==
  /\ pc[p] = "append"
  /\ LockFree(p)
  /\ ~HasRoom(NextPayload(p))
  /\ IF Last.sealed THEN UNCHANGED <<files, segs, flushed>>
     ELSE SealSegment(Len(segs)) /\ flushed' = Last.next
  /\ Goto(p, "roll")
  /\ UNCHANGED <<mode, acked, kept, faults>>

\* roll_new_segment(active->next_offset()): the new Segment ...
Roll(p) ==
  /\ pc[p] = "roll"
  /\ OpenSegment(Last.next)
  /\ Goto(p, "syncdir")
  /\ UNCHANGED <<mode, dirDisk, endDisk, disk, acked, flushed, kept, faults>>

\* ... whose constructor may throw: open() fails and nothing changes, or fstat,
\* ftruncate or mmap fails and the file stays, at its old length or at full size ...
RollFails(p) ==
  /\ pc[p] = "roll"
  /\ "io" \in Faults /\ faults < MaxFaults
  /\ faults' = faults + 1
  /\ \/ UNCHANGED <<dir, end>>
     \/ /\ dir' = dir \cup {Last.next}
        /\ \E e \in {end[Last.next], Last.next + SegCap} : end' = [end EXCEPT ![Last.next] = e]
  /\ Return(p)
  /\ UNCHANGED <<mode, dirDisk, endDisk, cache, disk, segs, acked, flushed, kept>>

\* Mutant: no fsync_dir().
SyncDirSkipped(p) ==
  /\ pc[p] = "syncdir"
  /\ Goto(p, "retry")
  /\ UNCHANGED <<mode, files, segs, acked, flushed, kept, faults>>

\* ... and fsync_dir().
SyncDir(p) ==
  /\ pc[p] = "syncdir"
  /\ dirDisk' = dir
  /\ Goto(p, "retry")
  /\ UNCHANGED <<mode, dir, end, endDisk, cache, disk, segs, acked, flushed, kept, faults>>
=============================================================================
