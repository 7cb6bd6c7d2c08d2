---------------------------- MODULE MCPerlLocks ----------------------------
(* All threads use the locale, two change the environment, and all read    *)
(* it: two writers can sleep on one reader, and any two different calls    *)
(* that share a buffer, the environment, the globals of tzset or the       *)
(* locale meet.  localtime, strftime and putenv meet themselves too, and   *)
(* mortal_getenv meets the logger's getenv, which shares its buffer.       *)
EXTENDS PerlLocks, TLC

CONSTANTS t1, t2, t3

ThreeThreads == {t1, t2, t3}
NumericTwo   == {t1, t2}

Roles == t1 :> {"localtime", "strftime", "getenv"}
      @@ t2 :> {"localtime", "mblen", "putenv"}
      @@ t3 :> {"putenv", "logger", "strftime", "setlocale"}

(* The build in the repository first, then each value of each switch with  *)
(* each value of every other.                                              *)
FourBuilds ==
  {[threadSafeLocale |-> TRUE,  getenvPreserves |-> TRUE,  memLog |-> FALSE],
   [threadSafeLocale |-> TRUE,  getenvPreserves |-> FALSE, memLog |-> TRUE],
   [threadSafeLocale |-> FALSE, getenvPreserves |-> TRUE,  memLog |-> TRUE],
   [threadSafeLocale |-> FALSE, getenvPreserves |-> FALSE, memLog |-> FALSE]}

=============================================================================
