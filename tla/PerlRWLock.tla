----------------------------- MODULE PerlRWLock -----------------------------
(***************************************************************************)
(* The many-readers/one-writer lock that perl builds from a mutex and a    *)
(* condition variable (CORE/thread.h, PERL_READ_LOCK ... PERL_WRITE_UNLOCK)*)
(* A reader holds the mutex only while it changes the count of readers; a  *)
(* writer keeps the mutex for its whole critical section, and sleeps on    *)
(* the condition variable while there are readers.                         *)
(*                                                                         *)
(* One action per MUTEX_LOCK and one per stretch of code that runs with    *)
(* the mutex held: no other thread can see the middle of such a stretch.   *)
(***************************************************************************)
EXTENDS Integers, FiniteSets

CONSTANTS Threads, NoThread

ASSUME NoThreadAssumption == NoThread \notin Threads
ASSUME ThreadsAssumption == IsFiniteSet(Threads)

VARIABLES
  lock,           \* owner of mutex->lock, or NoThread
  readers_count,  \* mutex->readers_count
  at              \* where each thread is in the macros

rwVars == <<lock, readers_count, at>>

(* r_: PERL_READ_LOCK, u_: PERL_READ_UNLOCK, w_: PERL_WRITE_LOCK; _lock    *)
(* wants the mutex, the others hold it, except w_wait, which sleeps in     *)
(* COND_WAIT.  reading and writing are the critical sections.              *)
Places == {"out", "r_lock", "r_inc", "reading", "u_lock", "u_dec",
           "w_lock", "w_test", "w_wait", "writing"}

RWTypeOK ==
  /\ lock \in Threads \cup {NoThread}
  /\ readers_count \in Int
  /\ at \in [Threads -> Places]

RWInit ==
  /\ lock = NoThread
  /\ readers_count = 0
  /\ at = [t \in Threads |-> "out"]

Waiting == {t \in Threads : at[t] = "w_wait"}
Reading == {t \in Threads : at[t] \in {"reading", "u_lock", "u_dec"}}
Writing == {t \in Threads : at[t] = "writing"}

-----------------------------------------------------------------------------
Begin(t, from, to) ==
  /\ at[t] = from
  /\ at' = [at EXCEPT ![t] = to]
  /\ UNCHANGED <<lock, readers_count>>

StartReadLock(t)   == Begin(t, "out", "r_lock")
StartReadUnlock(t) == Begin(t, "reading", "u_lock")
StartWriteLock(t)  == Begin(t, "out", "w_lock")

AfterLock == [r_lock |-> "r_inc", u_lock |-> "u_dec", w_lock |-> "w_test"]

(* MUTEX_LOCK, and the end of a COND_WAIT, which takes the mutex again.    *)
MutexLock(t) ==
  /\ lock = NoThread
  /\ at[t] \in DOMAIN AfterLock
  /\ lock' = t
  /\ at' = [at EXCEPT ![t] = AfterLock[at[t]]]
  /\ UNCHANGED readers_count

(* COND_SIGNAL wakes one sleeper if there is any; t moves to place.        *)
SignalAndMove(t, place) ==
  IF Waiting = {}
  THEN at' = [at EXCEPT ![t] = place]
  ELSE \E w \in Waiting : at' = [at EXCEPT ![t] = place, ![w] = "w_lock"]

ReadInc(t) ==
  /\ at[t] = "r_inc"
  /\ readers_count' = readers_count + 1
  /\ lock' = NoThread
  /\ at' = [at EXCEPT ![t] = "reading"]

(* Seeded bug: one reader that leaves clears the count.                   *)
ReadDec_Clears(t) ==
  /\ at[t] = "u_dec"
  /\ lock' = NoThread
  /\ readers_count' = 0
  /\ SignalAndMove(t, "out")

(* Seeded bug: the count is tested before it is decremented.              *)
ReadDec_Early(t) ==
  /\ at[t] = "u_dec"
  /\ lock' = NoThread
  /\ readers_count' = readers_count - 1
  /\ IF readers_count <= 0
     THEN SignalAndMove(t, "out")
     ELSE at' = [at EXCEPT ![t] = "out"]

ReadDec(t) ==
  /\ at[t] = "u_dec"
  /\ lock' = NoThread
  /\ IF readers_count - 1 <= 0
     THEN readers_count' = 0 /\ SignalAndMove(t, "out")
     ELSE readers_count' = readers_count - 1 /\ at' = [at EXCEPT ![t] = "out"]

(* Seeded bug: a writer enters beside one reader.                         *)
WriteTest_OneReader(t) ==
  /\ at[t] = "w_test"
  /\ IF readers_count <= 1
     THEN at' = [at EXCEPT ![t] = "writing"] /\ UNCHANGED <<lock, readers_count>>
     ELSE at' = [at EXCEPT ![t] = "w_wait"] /\ lock' = NoThread /\ UNCHANGED readers_count

(* One turn of the loop in PERL_WRITE_LOCK.                                *)
WriteTest(t) ==
  /\ at[t] = "w_test"
  /\ IF readers_count <= 0
     THEN /\ readers_count' = 0
          /\ at' = [at EXCEPT ![t] = "writing"]
          /\ UNCHANGED lock
     ELSE /\ lock' = NoThread
          /\ at' = [at EXCEPT ![t] = "w_wait"]
          /\ UNCHANGED readers_count

WriteUnlock(t) ==
  /\ at[t] = "writing"
  /\ SignalAndMove(t, "out")
  /\ lock' = NoThread
  /\ UNCHANGED readers_count

(* pthread_cond_wait may return without a signal.                          *)
SpuriousWakeup(t) == Begin(t, "w_wait", "w_lock")

(* The steps a thread inside one of the macros is bound to take.           *)
RWStep(t) == MutexLock(t) \/ ReadInc(t) \/ ReadDec(t) \/ WriteTest(t)

RWNext ==
  \E t \in Threads :
    \/ StartReadLock(t) \/ StartReadUnlock(t) \/ StartWriteLock(t)
    \/ RWStep(t) \/ WriteUnlock(t) \/ SpuriousWakeup(t)

RWSpec == RWInit /\ [][RWNext]_rwVars

-----------------------------------------------------------------------------
(* The macros assert that the count never falls below zero: it is the      *)
(* number of threads that have entered as readers and have not yet left.   *)
ReadersCounted == readers_count = Cardinality(Reading)

(* The mutex is held by the thread whose place says so, and while a thread *)
(* writes nobody reads, although readers do not hold the mutex.            *)
Exclusive ==
  /\ \A t \in Threads :
       (lock = t) <=> (at[t] \in {"r_inc", "u_dec", "w_test", "writing"})
  /\ Writing # {} => Reading = {}

(* A writer never sleeps on a lock without readers, unless another writer  *)
(* that has still to come to its COND_SIGNAL is on its way: no wakeup of   *)
(* PERL_READ_UNLOCK is lost, whoever it reaches.                           *)
WakeupPending ==
  Waiting # {} /\ readers_count <= 0 =>
    \E t \in Threads : at[t] \in {"w_lock", "w_test", "writing"}

(* The emulation implements the lock its comment describes.                *)
Promise == INSTANCE RWPromise WITH reading <- Reading, writing <- Writing
KeepsPromise == Promise!Spec

=============================================================================
