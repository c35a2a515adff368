---------------------------- MODULE MCThreadPool ----------------------------
(* A small pool: the ring wraps around and fills up, workers compete.      *)
EXTENDS ThreadPool

CONSTANTS t1, t2, t3, t4, t5

MCTasks == {t1, t2, t3, t4, t5}
=============================================================================
