-------------------------- MODULE MCThreadSemaphore --------------------------
(* Values for the model checker: three threads, so that two can wait for   *)
(* different amounts while the third gives.                                *)
EXTENDS ThreadSemaphore

CONSTANTS t1, t2, t3

ThreeThreads == {t1, t2, t3}
StartCounts == {-1, 0, 1}
=============================================================================
