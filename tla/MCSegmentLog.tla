---------------------------- MODULE MCSegmentLog ----------------------------
EXTENDS SegmentLog, TLC

Symmetry == Permutations(Producers) \cup Permutations(Payloads)

\* Every publish ends, and every crash ends in a log that serves again
\* (SegmentLog's PublishEnds and RecoveryEnds).
LogProgress == PublishEnds /\ RecoveryEnds
=============================================================================
