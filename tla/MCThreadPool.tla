----------------------------- MODULE MCThreadPool -----------------------------
(***************************************************************************)
(* Instances of ThreadPool for TLC: two threads, so that one can wait      *)
(* while the other works, is flagged or is detached, and two tasks.        *)
(***************************************************************************)
EXTENDS ThreadPool

CONSTANTS w1, w2, t1, t2

MCWorkers == {w1, w2}
MCTasks == {t1, t2}
=============================================================================
