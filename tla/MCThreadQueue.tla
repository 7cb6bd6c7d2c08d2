---------------------------- MODULE MCThreadQueue ----------------------------
(* Values for the model checker: three threads are the fewest with two     *)
(* waiters and a thread that signals.                                      *)
EXTENDS ThreadQueue

CONSTANTS t1, t2, t3, t4

TwoThreads   == {t1, t2}
ThreeThreads == {t1, t2, t3}
FourThreads  == {t1, t2, t3, t4}

AroundTheQueue == -3..2

=============================================================================
