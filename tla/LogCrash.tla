------------------------------ MODULE LogCrash ------------------------------
(***************************************************************************)
(* kill -9 and power loss.                                                 *)
(***************************************************************************)
EXTENDS SegmentState

\* Whatever the process had in memory is gone; the constructor runs next.
Restart ==
  /\ faults < MaxFaults
  /\ faults' = faults + 1
  /\ mode' = "open"
  /\ segs' = <<>>
  /\ pc' = Idle
  /\ kind' = [p \in Producers |-> "one"]
  /\ req' = [p \in Producers |-> <<>>]
  /\ done' = [p \in Producers |-> 0]
  /\ first' = [p \in Producers |-> 0]
  /\ UNCHANGED flushed

\* kill -9: the page cache survives, a record in the middle of its memcpy is torn.
Kill ==
  /\ "kill" \in Faults
  /\ Restart
  /\ \/ UNCHANGED cache
     \/ /\ \E p \in Producers : /\ pc[p] \in {"append", "retry"}
                                /\ LockFree(p)
                                /\ HasRoom(NextPayload(p))
                                /\ Last.next < MaxOffset
        /\ cache' = [cache EXCEPT ![Last.base][Last.next] = Blank]
  /\ UNCHANGED <<dir, dirDisk, end, endDisk, disk, acked, kept>>

\* The cells whose contents have not been written back.
Dirty == {d \in UNION {{b} \X Slots(b) : b \in dir} : cache[d[1]][d[2]] # disk[d[1]][d[2]]}

\* Power loss: of what was not synced, each cell, file length and directory
\* entry is written back or not; a cell may also be torn.  Records returned
\* under FlushPolicy::Manual and not flushed since were never promised to last.
PowerLoss ==
  /\ "power" \in Faults
  /\ Restart
  /\ \E lost \in SUBSET (dir \ dirDisk),
        old \in SUBSET {b \in dir : end[b] # endDisk[b]},
        fate \in [Dirty -> {"new", "old", "torn"}] :
       LET len(b) == IF b \in lost THEN b ELSE IF b \in old THEN endDisk[b] ELSE end[b]
           cell(b, o) ==
             IF b \notin dir \/ o >= len(b) THEN Blank
             ELSE IF <<b, o>> \notin Dirty THEN cache[b][o]
             ELSE IF fate[<<b, o>>] = "new" THEN cache[b][o]
             ELSE IF fate[<<b, o>>] = "old" THEN disk[b][o] ELSE Blank
       IN  /\ dir' = dir \ lost
           /\ end' = [b \in Bases |-> len(b)]
           /\ cache' = [b \in Bases |-> [o \in Slots(b) |-> cell(b, o)]]
  /\ dirDisk' = dir'
  /\ endDisk' = end'
  /\ disk' = cache'
  /\ kept' = flushed
  /\ acked' = [o \in DOMAIN acked |-> IF PerMessage \/ o < flushed THEN acked[o] ELSE Blank]
=============================================================================
