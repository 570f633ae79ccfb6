------------------------------- MODULE Logger --------------------------------
(***************************************************************************)
(* core::Logger: threads that log and flush, the background thread run()   *)
(* that writes, and the destructor.  mutex_ is held by run() except while  *)
(* it sleeps or writes a record; the other methods hold it for one step.   *)
(***************************************************************************)
EXTENDS Integers, Sequences

CONSTANTS
  Callers,    \* threads that call log and flush
  None,       \* no record
  MaxRecords  \* bound: records logged

VARIABLES
  queue,    \* queue_
  rec,      \* the record run() has popped and is writing, or None
  written,  \* what is written, in order
  dtor,     \* ~Logger: "no", "notify" (stop_ is set), "join"
  pc,       \* where run() is: "wait", "doze", "sleep", "woken", "drain", "write", "exit"
  calls,    \* what each caller is at: "idle"; "notify" in log; "blocked",
            \* "notified" or "flushed" in flush
  logged,   \* history: number of records logged; they are numbered from 1
  target    \* history: how many were logged when the caller's flush was called

vars == <<queue, rec, written, dtor, pc, calls, logged, target>>

stop == dtor # "no"

\* run() does not hold mutex_.
Unlocked == pc \in {"sleep", "woken", "write", "exit"}

Init ==
  /\ queue = <<>> /\ rec = None /\ written = <<>>
  /\ dtor = "no"
  /\ pc = "wait"
  /\ calls = [c \in Callers |-> "idle"]
  /\ logged = 0
  /\ target = [c \in Callers |-> 0]

\* log queues a record under mutex_ ...
Log(c) ==
  /\ calls[c] = "idle" /\ ~stop
  /\ Unlocked
  /\ logged < MaxRecords
  /\ queue' = Append(queue, logged + 1)
  /\ logged' = logged + 1
  /\ calls' = [calls EXCEPT ![c] = "notify"]
  /\ UNCHANGED <<rec, written, dtor, pc, target>>

\* Mutant: log does not notify.
LogSilently(c) ==
  /\ calls[c] = "notify"
  /\ calls' = [calls EXCEPT ![c] = "idle"]
  /\ UNCHANGED <<queue, rec, written, dtor, pc, logged, target>>

\* ... and notifies run() without it: cv_.notify_one().
LogNotifies(c) ==
  /\ calls[c] = "notify"
  /\ calls' = [calls EXCEPT ![c] = "idle"]
  /\ pc' = IF pc = "sleep" THEN "woken" ELSE pc
  /\ UNCHANGED <<queue, rec, written, dtor, logged, target>>

\* flush returns at once if queue_ is empty, and else waits for cv_flushed_.
Flush(c) ==
  /\ calls[c] = "idle" /\ ~stop
  /\ Unlocked
  /\ calls' = [calls EXCEPT ![c] = IF queue = <<>> THEN "flushed" ELSE "blocked"]
  /\ target' = [target EXCEPT ![c] = logged]
  /\ UNCHANGED <<queue, rec, written, dtor, pc, logged>>

FlushReturns(c) ==
  /\ calls[c] = "flushed"
  /\ calls' = [calls EXCEPT ![c] = "idle"]
  /\ UNCHANGED <<queue, rec, written, dtor, pc, logged, target>>

\* run() tests the predicate of its wait ...
Wait ==
  /\ pc \in {"wait", "woken"}
  /\ pc' = IF queue # <<>> \/ stop THEN "drain" ELSE "doze"
  /\ UNCHANGED <<queue, rec, written, dtor, calls, logged, target>>

\* ... and sleeps, releasing mutex_.
Sleep ==
  /\ pc = "doze"
  /\ pc' = "sleep"
  /\ UNCHANGED <<queue, rec, written, dtor, calls, logged, target>>

\* Mutant: the newest record is taken first.
PopNewest ==
  /\ pc = "drain" /\ queue # <<>>
  /\ rec' = queue[Len(queue)]
  /\ queue' = SubSeq(queue, 1, Len(queue) - 1)
  /\ pc' = "write"
  /\ UNCHANGED <<written, dtor, calls, logged, target>>

Pop ==
  /\ pc = "drain" /\ queue # <<>>
  /\ rec' = Head(queue)
  /\ queue' = Tail(queue)
  /\ pc' = "write"
  /\ UNCHANGED <<written, dtor, calls, logged, target>>

\* write(rec) without mutex_, which is taken again.
Write ==
  /\ pc = "write"
  /\ written' = Append(written, rec)
  /\ rec' = None
  /\ pc' = "drain"
  /\ UNCHANGED <<queue, dtor, calls, logged, target>>

\* The queue is empty: cv_flushed_.notify_all() lets every flush see that once
\* it has mutex_, and run() ends if stop_.
Drained ==
  /\ pc = "drain" /\ queue = <<>>
  /\ calls' = [c \in Callers |-> IF calls[c] = "blocked" THEN "notified" ELSE calls[c]]
  /\ pc' = IF stop THEN "exit" ELSE "wait"
  /\ UNCHANGED <<queue, rec, written, dtor, logged, target>>

\* A notified flush tests its predicate again: records may have come meanwhile.
FlushRetests(c) ==
  /\ calls[c] = "notified"
  /\ Unlocked
  /\ calls' = [calls EXCEPT ![c] = IF queue = <<>> THEN "flushed" ELSE "blocked"]
  /\ UNCHANGED <<queue, rec, written, dtor, pc, logged, target>>

\* ~Logger sets stop_ once no caller is left ...
Destroy ==
  /\ dtor = "no"
  /\ \A c \in Callers : calls[c] = "idle"
  /\ dtor' = "notify"
  /\ UNCHANGED <<queue, rec, written, pc, calls, logged, target>>

\* ... and notifies run(), neither under mutex_, before it joins it.
DestroyNotifies ==
  /\ dtor = "notify"
  /\ dtor' = "join"
  /\ pc' = IF pc = "sleep" THEN "woken" ELSE pc
  /\ UNCHANGED <<queue, rec, written, calls, logged, target>>

Next ==
  \/ \E c \in Callers : Log(c) \/ LogNotifies(c) \/ Flush(c) \/ FlushReturns(c) \/ FlushRetests(c)
  \/ Wait \/ Sleep \/ Pop \/ Write \/ Drained
  \/ Destroy
  \/ DestroyNotifies

Spec == Init /\ [][Next]_vars

\* Every thread that can take a step takes one (MCRuntime states the fairness);
\* nobody has to log, flush or destroy the logger.
Running == Wait \/ Sleep \/ Pop \/ Write \/ Drained
Calling(c) == LogNotifies(c) \/ FlushReturns(c) \/ FlushRetests(c)

-----------------------------------------------------------------------------
\* What was logged is what is written, then what is being written, then what
\* is queued: run() releasing mutex_ around write() (line 98) neither loses,
\* repeats nor reorders a record, whatever is logged meanwhile.  And run() ends
\* only when every record is written, however the destructor's stop_ falls
\* between its steps (line 104).
InOrder ==
  /\ written \o (IF rec = None THEN <<>> ELSE <<rec>>) \o queue = [i \in 1..logged |-> i]
  /\ pc = "exit" => Len(written) = logged

\* A record that is queued is written in the end: the notification that log
\* gives after unlocking (line 61) cannot be missed.
EveryRecordWritten == \A r \in 1..MaxRecords : (logged >= r) ~> (Len(written) >= r)

\* A flush that blocks returns in the end.
FlushEnds == \A c \in Callers : (calls[c] = "blocked") ~> (calls[c] = "flushed")

\* A destructor whose notification does not fall between run()'s test of stop_
\* and its sleep ("doze") can join run().  In that window the notification is
\* lost, since stop_ is set and notified without mutex_ (lines 72-73).
ShutdownEnds == (dtor = "notify" /\ pc # "doze") ~> (pc = "exit")

\* "Blocks until all currently-queued records have been written" (line 64): a
\* flush that returns has seen every record logged before it written.
FlushWritesAll == \A c \in Callers : calls[c] = "flushed" => Len(written) >= target[c]
=============================================================================
