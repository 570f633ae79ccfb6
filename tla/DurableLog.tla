----------------------------- MODULE DurableLog -----------------------------
(***************************************************************************)
(* What a partition's log promises, without segments, files or locks: a    *)
(* sequence of records that grows at its end, of which a stable prefix     *)
(* survives everything, and acknowledgements that never name anything but  *)
(* the record the log holds at that offset.                                *)
(***************************************************************************)
EXTENDS Integers, Sequences

CONSTANTS
  Payloads,   \* the records
  Blank,      \* no record
  PerMessage  \* whether a record must be stable before it is acknowledged

VARIABLES
  up,      \* the log serves
  log,     \* its records; log[o + 1] has offset o
  stable,  \* offsets below this one survive a power loss
  acked    \* acknowledged records by offset, or Blank

vars == <<up, log, stable, acked>>

\* Acknowledgements are added, each naming the record of l at its offset.
AcksFrom(l, st) ==
  /\ DOMAIN acked' = DOMAIN acked
  /\ \A o \in DOMAIN acked :
       \/ acked'[o] = acked[o]
       \/ /\ o < Len(l)
          /\ PerMessage => o < st
          /\ acked'[o] = l[o + 1]

Init ==
  /\ up = FALSE
  /\ log = <<>>
  /\ stable = 0
  /\ \A o \in DOMAIN acked : acked[o] = Blank

\* A record is appended; without PerMessage it may be acknowledged at once.
Write ==
  /\ up /\ up'
  /\ Len(log') = Len(log) + 1
  /\ SubSeq(log', 1, Len(log)) = log
  /\ log'[Len(log')] \in Payloads
  /\ AcksFrom(log', stable)
  /\ UNCHANGED stable

\* The whole log becomes stable; records may be acknowledged.
Sync ==
  /\ up /\ up'
  /\ stable' = Len(log)
  /\ AcksFrom(log, stable')
  /\ UNCHANGED log

\* A crash keeps at least the stable prefix; an acknowledgement given before
\* the record was stable is void if the record may be lost.
Crash ==
  /\ up' = FALSE
  /\ Len(log') \in stable .. Len(log)
  /\ log' = SubSeq(log, 1, Len(log'))
  /\ \A o \in DOMAIN acked :
       acked'[o] = IF PerMessage \/ o < Len(log') THEN acked[o] ELSE Blank
  /\ DOMAIN acked' = DOMAIN acked
  /\ UNCHANGED stable

\* Recovery may find more records than had to be kept, after those.
Recover ==
  /\ ~up /\ up'
  /\ Len(log') >= Len(log)
  /\ SubSeq(log', 1, Len(log)) = log
  /\ \A i \in DOMAIN log' : log'[i] \in Payloads
  /\ UNCHANGED <<stable, acked>>

Next == Write \/ Sync \/ Crash \/ Recover

Spec == Init /\ [][Next]_vars
=============================================================================
