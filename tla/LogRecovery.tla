---------------------------- MODULE LogRecovery -----------------------------
(***************************************************************************)
(* Recovery: the Log constructor.                                          *)
(***************************************************************************)
EXTENDS SegmentState

\* recover_existing_segments opens the files in the order of their names.
OpenNext ==
  /\ mode = "open"
  /\ \E b \in dir \ Opened :
       /\ \A c \in dir : c < b => c \in Opened
       /\ OpenSegment(b)
  /\ UNCHANGED <<mode, dirDisk, endDisk, disk, jobs, acked, flushed, kept, faults>>

\* All are open: on to sealing all but the last, or to segment 0 if there is none.
OpenDone ==
  /\ mode = "open"
  /\ dir \subseteq Opened
  /\ IF dir = {}
     THEN OpenSegment(0) /\ mode' = "dirsync"
     ELSE mode' = "seal" /\ UNCHANGED <<dir, end, cache, segs>>
  /\ UNCHANGED <<dirDisk, endDisk, disk, jobs, acked, flushed, kept, faults>>

SealRecovered ==
  /\ mode = "seal"
  /\ \E i \in 1 .. (Len(segs) - 1) :
       /\ ~segs[i].sealed
       /\ \A j \in 1 .. (i - 1) : segs[j].sealed
       /\ SealSegment(i)
  /\ UNCHANGED <<mode, jobs, acked, flushed, kept, faults>>

\* next_offset_ is stored, or roll_new_segment(0) ends with fsync_dir().
Serve ==
  /\ \/ /\ mode = "seal"
        /\ \A i \in 1 .. (Len(segs) - 1) : segs[i].sealed
        /\ UNCHANGED dirDisk
     \/ /\ mode = "dirsync"
        /\ dirDisk' = dir
  /\ mode' = "up"
  /\ kept' = Last.next
  /\ UNCHANGED <<dir, end, endDisk, cache, disk, segs, jobs, acked, flushed, faults>>
=============================================================================
