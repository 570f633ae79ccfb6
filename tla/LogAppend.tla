----------------------------- MODULE LogAppend ------------------------------
(***************************************************************************)
(* Publishing: Partition::try_publish and try_publish_batch, Log::append,  *)
(* Log::append_batch and Log::flush, while the active segment has room.    *)
(***************************************************************************)
EXTENDS SegmentState, FiniteSets

\* Bounds the model: calls that are running may still take offsets and segments.
Bounded(payloads) ==
  LET running == Cardinality({q \in Producers : pc[q] # "idle"})
  IN  /\ Last.next + MaxBatch * running + Len(payloads) <= MaxOffset
      /\ payloads = <<Oversized>> => Len(segs) + running < MaxSegs

\* A producer calls try_publish(v) (one record) or try_publish_batch(b); the
\* batch call has rejected records that fit in no segment before it gets here.
Publish(p, payloads, k) ==
  /\ mode = "up"
  /\ pc[p] = "idle"
  /\ Bounded(payloads)
  /\ pc' = [pc EXCEPT ![p] = "append"]
  /\ kind' = [kind EXCEPT ![p] = k]
  /\ req' = [req EXCEPT ![p] = payloads]
  /\ UNCHANGED <<mode, files, segs, done, first, acked, flushed, kept, faults>>

\* The records of p's call, at their offsets, are now acknowledged.
Acknowledge(p, start, n) ==
  [o \in DOMAIN acked |-> IF o \in start .. (start + n - 1)
                          THEN req[p][o - start + 1] ELSE acked[o]]

\* Segment::append of the next payload, at the first try or after a roll.
Append1(p) ==
  /\ pc[p] \in {"append", "retry"}
  /\ LockFree(p)
  /\ HasRoom(NextPayload(p))
  /\ Last.next < MaxOffset
  /\ LET start == IF done[p] = 0 THEN Last.next ELSE first[p]
          last  == done[p] + 1 = Len(req[p])
      IN  /\ cache' = [cache EXCEPT ![Last.base][Last.next] = NextPayload(p)]
          /\ segs' = [segs EXCEPT ![Len(segs)].next = @ + 1]
          /\ kept' = Last.next + 1
          /\ IF last /\ ~PerMessage
             THEN Return(p) /\ acked' = Acknowledge(p, start, Len(req[p]))
             ELSE /\ pc' = [pc EXCEPT ![p] = IF last THEN "flush" ELSE "append"]
                  /\ done' = [done EXCEPT ![p] = @ + 1]
                  /\ first' = [first EXCEPT ![p] = start]
                  /\ UNCHANGED <<kind, req, acked>>
  /\ UNCHANGED <<mode, dir, dirDisk, end, endDisk, disk, flushed, faults>>

\* "record too large for configured segment size" is thrown to the producer.
TooLarge(p) ==
  /\ pc[p] = "retry"
  /\ ~HasRoom(NextPayload(p))
  /\ Return(p)
  /\ UNCHANGED <<mode, files, segs, acked, flushed, kept, faults>>

\* log_.flush() of a single publish, or the one flush of a batch: msync of the
\* last segment, after which the call returns to the producer.
Flush(p) ==
  /\ pc[p] = "flush"
  /\ LockFree(p)
  /\ Msync(Last)
  /\ flushed' = Last.next
  /\ acked' = Acknowledge(p, first[p], Len(req[p]))
  /\ Return(p)
  /\ UNCHANGED <<mode, dir, end, cache, segs, kept, faults>>

\* Partition::flush(), the call FlushPolicy::Manual leaves to the user.
UserFlush ==
  /\ mode = "up"
  /\ \A q \in Producers : ~Holds(q)
  /\ Msync(Last)
  /\ flushed' = Last.next
  /\ UNCHANGED <<mode, dir, end, cache, segs, jobs, acked, kept, faults>>
=============================================================================
