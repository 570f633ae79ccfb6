----------------------------- MODULE ThreadPool ------------------------------
(***************************************************************************)
(* core::ThreadPool: submit, the workers' loop and the destructor.         *)
(*                                                                         *)
(* The task queue is an MpmcQueue: a task claims its place first and can   *)
(* be popped once it is published, and a pop that is not finished may make *)
(* the queue look full.  Workers sleep without a lock that submit or the   *)
(* destructor would take, so a notification can come just before a worker  *)
(* sleeps; the 5 ms limit of its wait is what bounds the harm.             *)
(***************************************************************************)
EXTENDS Integers, Sequences, FiniteSets

CONSTANTS
  Clients,   \* threads outside the pool that call submit
  Workers,   \* workers_
  Tasks,     \* the tasks clients submit, each once
  Child,     \* Child[t] is the task that task t itself submits, or None
  None,      \* no task
  Capacity,  \* queue_capacity
  Width      \* pending_ is kept modulo Width (2^64 in the code)

Children == {Child[t] : t \in Tasks} \ {None}
AllTasks == Tasks \cup Children
Threads == Clients \cup Workers
kMaxRetries == 3

VARIABLES
  queue,    \* queue_ : [task, ready]
  pending,  \* pending_
  stop,     \* "no", "set" (stop_ is true) or "notified" (the destructor joins)
  pc,       \* where each thread is
  task,     \* the task it submits or runs, or None
  attempt,  \* failed attempts of its submit
  ran,      \* history: how often each task has run
  given     \* history: tasks handed to submit

vars == <<queue, pending, stop, pc, task, attempt, ran, given>>

Goto(t, l) == pc' = [pc EXCEPT ![t] = l]
Home(t) == IF t \in Workers THEN "pop" ELSE "idle"

(***************************************************************************)
(* submit                                                                  *)
(***************************************************************************)

StartSubmit(t, x) ==
  /\ Goto(t, "push")
  /\ task' = [task EXCEPT ![t] = x]
  /\ attempt' = [attempt EXCEPT ![t] = 0]
  /\ given' = given \cup {x}

\* A client calls submit; nobody does once the destructor runs.
Submit(c, x) ==
  /\ pc[c] = "idle" /\ stop = "no"
  /\ x \notin given
  /\ StartSubmit(c, x)
  /\ UNCHANGED <<queue, pending, stop, ran>>

Push(t) ==
  /\ pc[t] = "push"
  /\ Len(queue) < Capacity
  /\ queue' = Append(queue, [task |-> task[t], ready |-> FALSE])
  /\ Goto(t, "publish")
  /\ UNCHANGED <<pending, stop, task, attempt, ran, given>>

\* try_push returns false: it is tried again or, the third time, the task is run inline.
PushFails(t) ==
  /\ pc[t] = "push"
  /\ Len(queue) + Cardinality({w \in Workers : pc[w] = "popped"}) >= Capacity
  /\ attempt' = [attempt EXCEPT ![t] = @ + 1]
  /\ Goto(t, IF attempt[t] + 1 < kMaxRetries THEN "push" ELSE "run")
  /\ UNCHANGED <<queue, pending, stop, task, ran, given>>

Publish(t) ==
  /\ pc[t] = "publish"
  /\ \E i \in DOMAIN queue : /\ queue[i].task = task[t]
                             /\ queue' = [queue EXCEPT ![i].ready = TRUE]
  /\ Goto(t, "count")
  /\ UNCHANGED <<pending, stop, task, attempt, ran, given>>

\* Mutant: the task is run inline although it was queued.
CountThenRun(t) ==
  /\ pc[t] = "count"
  /\ pending' = (pending + 1) % Width
  /\ Goto(t, "run")
  /\ UNCHANGED <<queue, stop, task, attempt, ran, given>>

\* pending_.fetch_add
Count(t) ==
  /\ pc[t] = "count"
  /\ pending' = (pending + 1) % Width
  /\ Goto(t, "notify")
  /\ UNCHANGED <<queue, stop, task, attempt, ran, given>>

\* A sleeping worker that is notified tests the predicate of its wait again.
Woken(w) == IF stop # "no" \/ pending > 0 THEN "pop" ELSE "sleep"

\* wake_cv_.notify_one(), and submit returns.
Notify(t) ==
  /\ pc[t] = "notify"
  /\ IF \E w \in Workers : pc[w] = "sleep"
     THEN \E w \in Workers : /\ pc[w] = "sleep"
                             /\ pc' = [pc EXCEPT ![t] = Home(t), ![w] = Woken(w)]
     ELSE Goto(t, Home(t))
  /\ task' = [task EXCEPT ![t] = None]
  /\ UNCHANGED <<queue, pending, stop, attempt, ran, given>>

\* A task is run, by a worker or inline by submit, and may itself call submit.
Run(t) ==
  /\ pc[t] = "run"
  /\ ran' = [ran EXCEPT ![task[t]] = @ + 1]
  /\ IF task[t] \in Tasks /\ Child[task[t]] # None
     THEN StartSubmit(t, Child[task[t]])
     ELSE /\ Goto(t, Home(t))
          /\ task' = [task EXCEPT ![t] = None]
          /\ UNCHANGED <<attempt, given>>
  /\ UNCHANGED <<queue, pending, stop>>

(***************************************************************************)
(* worker_loop                                                             *)
(***************************************************************************)

Pop(w) ==
  /\ pc[w] = "pop"
  /\ IF queue # <<>> /\ Head(queue).ready
     THEN /\ task' = [task EXCEPT ![w] = Head(queue).task]
          /\ queue' = Tail(queue)
          /\ Goto(w, "popped")
     ELSE Goto(w, "test") /\ UNCHANGED <<task, queue>>
  /\ UNCHANGED <<pending, stop, attempt, ran, given>>

\* pending_.fetch_sub
Uncount(w) ==
  /\ pc[w] = "popped"
  /\ pending' = (pending - 1) % Width
  /\ Goto(w, "run")
  /\ UNCHANGED <<queue, stop, task, attempt, ran, given>>

\* The queue was empty: return if stop_, else test the predicate of the wait.
Test(w) ==
  /\ pc[w] = "test"
  /\ Goto(w, IF stop # "no" THEN "exit" ELSE IF pending > 0 THEN "pop" ELSE "doze")
  /\ UNCHANGED <<queue, pending, stop, task, attempt, ran, given>>

\* The predicate was false: the worker sleeps.
Sleep(w) ==
  /\ pc[w] = "doze"
  /\ Goto(w, "sleep")
  /\ UNCHANGED <<queue, pending, stop, task, attempt, ran, given>>

\* Mutant: the wait has no time limit; the worker sleeps on.
NeverWake(w) == pc[w] = "sleep" /\ UNCHANGED vars

\* The 5 ms of wait_for are over.
Wake(w) ==
  /\ pc[w] = "sleep"
  /\ Goto(w, "pop")
  /\ UNCHANGED <<queue, pending, stop, task, attempt, ran, given>>

\* ~ThreadPool, once no client is in submit: stop_ = true ...
Stop ==
  /\ stop = "no"
  /\ \A c \in Clients : pc[c] = "idle"
  /\ stop' = "set"
  /\ UNCHANGED <<queue, pending, pc, task, attempt, ran, given>>

\* ... and notify_all(); then the workers are joined.
NotifyAll ==
  /\ stop = "set"
  /\ stop' = "notified"
  /\ pc' = [t \in Threads |-> IF t \in Workers /\ pc[t] = "sleep" THEN "pop" ELSE pc[t]]
  /\ UNCHANGED <<queue, pending, task, attempt, ran, given>>

Joined == stop = "notified" /\ \A w \in Workers : pc[w] = "exit"
Done == Joined /\ UNCHANGED vars

Init ==
  /\ queue = <<>>
  /\ pending = 0
  /\ stop = "no"
  /\ pc = [t \in Threads |-> Home(t)]
  /\ task = [t \in Threads |-> None]
  /\ attempt = [t \in Threads |-> 0]
  /\ ran = [x \in AllTasks |-> 0]
  /\ given = {}

\* Every thread that can run does, and wait_for returns after its 5 ms:
\* MCRuntime states this fairness.
Submitting(t) == Push(t) \/ PushFails(t) \/ Publish(t) \/ Count(t) \/ Notify(t) \/ Run(t)
Working(w) == Pop(w) \/ Uncount(w) \/ Test(w) \/ Sleep(w) \/ Wake(w)

Next ==
  \/ \E c \in Clients, x \in Tasks : Submit(c, x)
  \/ \E t \in Threads : Push(t) \/ PushFails(t) \/ Publish(t) \/ Count(t) \/ Notify(t) \/ Run(t)
  \/ \E w \in Workers : Pop(w) \/ Uncount(w) \/ Test(w) \/ Sleep(w) \/ Wake(w)
  \/ Stop
  \/ NotifyAll
  \/ Done

Spec == Init /\ [][Next]_vars

(***************************************************************************)
(* Properties                                                              *)
(***************************************************************************)

\* No task runs twice, whichever of queue and inline fallback it takes.
RunOnce == \A x \in AllTasks : ran[x] <= 1

\* submit runs a task inline "rather than blocking forever or silently dropping
\* work": when the destructor has joined the workers, what was submitted has run.
NothingLost == Joined => \A x \in given : ran[x] = 1

\* pending_ counts the queue, up to the tasks that are queued and not counted
\* yet and those popped and still counted; it may pass below zero in between.
PendingMatches ==
  LET uncounted == Cardinality({t \in Threads : pc[t] \in {"publish", "count"}})
      popped    == Cardinality({w \in Workers : pc[w] = "popped"})
  IN  (pending + uncounted) % Width = (Len(queue) + popped) % Width

\* While the pool is not destroyed every task handed to submit runs, although
\* notifications can get lost and pending_ can be off for a moment.
EveryTaskRuns == \A x \in AllTasks : x \in given ~> ran[x] = 1 \/ stop # "no"

\* Once the destructor has set stop_, it returns.
ShutdownEnds == stop # "no" ~> Joined
=============================================================================
