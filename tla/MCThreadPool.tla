---------------------------- MODULE MCThreadPool -----------------------------
EXTENDS ThreadPool, TLC

CONSTANTS t1, t2, t3, u1

\* t1 submits u1 when it runs.
Chain == (t1 :> u1) @@ (t2 :> None) @@ (t3 :> None)
MCTasks == {t1, t2, t3}
=============================================================================
