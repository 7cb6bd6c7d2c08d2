----------------------------- MODULE RWPromise -----------------------------
(***************************************************************************)
(* What the comment above PERL_READ_LOCK (thread.h:279) promises of the    *)
(* emulated lock: many readers or one writer, and nobody else, at a time.  *)
(* Entering and leaving are single steps here; how a thread waits is not   *)
(* told.                                                                   *)
(***************************************************************************)
CONSTANT Threads

VARIABLES
  reading,  \* the threads between PERL_READ_LOCK and PERL_READ_UNLOCK
  writing   \* the threads between PERL_WRITE_LOCK and PERL_WRITE_UNLOCK

Init == reading = {} /\ writing = {}

EnterRead(t) ==
  /\ t \notin reading
  /\ writing = {}
  /\ reading' = reading \cup {t}
  /\ UNCHANGED writing

LeaveRead(t) ==
  /\ t \in reading
  /\ reading' = reading \ {t}
  /\ UNCHANGED writing

EnterWrite(t) ==
  /\ reading = {}
  /\ writing = {}
  /\ writing' = {t}
  /\ UNCHANGED reading

LeaveWrite(t) ==
  /\ writing = {t}
  /\ writing' = {}
  /\ UNCHANGED reading

Next ==
  \E t \in Threads :
    EnterRead(t) \/ LeaveRead(t) \/ EnterWrite(t) \/ LeaveWrite(t)

Spec == Init /\ [][Next]_<<reading, writing>>

=============================================================================
