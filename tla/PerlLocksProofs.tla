--------------------------- MODULE PerlLocksProofs ---------------------------
(***************************************************************************)
(* The emulated many-readers/one-writer lock is correct for every finite   *)
(* set of threads: the count is the number of readers, a writer is alone,  *)
(* no wakeup is lost, and the emulation implements RWPromise.  The threads *)
(* of PerlLocks use it by its macros only, so this holds among everything  *)
(* else they do; and the recursive locale lock has one owner, the thread   *)
(* whose own counter says so.                                              *)
(***************************************************************************)
EXTENDS PerlLocks, FiniteSetTheorems, TLAPS

-----------------------------------------------------------------------------
(* The readers/writer lock.                                                *)

(* The inductive invariant: the three properties need each other.  A step  *)
(* that sets the count to 0 is right because the count is exact, a signal  *)
(* that reaches nobody is harmless because the pending wakeup is counted.  *)
RWInv == RWTypeOK /\ ReadersCounted /\ Exclusive /\ WakeupPending

LEMMA ReadersFinite ==
  /\ IsFiniteSet(Reading)
  /\ Cardinality(Reading) \in Nat
  /\ Cardinality(Reading) = 0 <=> Reading = {}
<1>1. Reading \subseteq Threads
  BY DEF Reading
<1>2. IsFiniteSet(Reading)
  BY <1>1, ThreadsAssumption, FS_Subset
<1> QED
  BY <1>2, FS_CardinalityType, FS_EmptySet

(* A step that moves threads but leaves the readers' set alone.            *)
LEMMA SameReaders ==
  ASSUME ReadersCounted, Reading' = Reading, readers_count' = readers_count
  PROVE  ReadersCounted'
BY DEF ReadersCounted

(* SignalAndMove moves t, and at most one sleeper besides.                 *)
LEMMA SignalMoves ==
  ASSUME RWTypeOK, NEW t \in Threads, NEW place \in Places, at[t] # "w_wait",
         SignalAndMove(t, place)
  PROVE  /\ at' \in [Threads -> Places]
         /\ at'[t] = place
         /\ \A s \in Threads : s # t =>
              at'[s] = at[s] \/ (at[s] = "w_wait" /\ at'[s] = "w_lock")
         /\ Waiting # {} => \E w \in Threads : at'[w] = "w_lock"
<1>1. CASE Waiting = {}
  BY <1>1 DEF SignalAndMove, RWTypeOK
<1>2. CASE Waiting # {}
  <2>1. PICK w \in Waiting : at' = [at EXCEPT ![t] = place, ![w] = "w_lock"]
    BY <1>2 DEF SignalAndMove
  <2>2. w \in Threads /\ at[w] = "w_wait" /\ w # t
    BY <2>1 DEF Waiting
  <2> QED
    BY <2>1, <2>2 DEF RWTypeOK, Places
<1> QED
  BY <1>1, <1>2

-----------------------------------------------------------------------------
(* The steps that leave the mutex and the count alone.                     *)
LEMMA BeginKeeps ==
  ASSUME RWInv, NEW t \in Threads,
         StartReadLock(t) \/ StartReadUnlock(t) \/ StartWriteLock(t) \/ SpuriousWakeup(t)
  PROVE  RWInv' /\ Reading' = Reading /\ Writing' = Writing
<1> USE DEF RWInv
<1>1. PICK from \in Places, to \in Places :
        /\ Begin(t, from, to)
        /\ <<from, to>> \in {<<"out", "r_lock">>, <<"reading", "u_lock">>,
                             <<"out", "w_lock">>, <<"w_wait", "w_lock">>}
  BY DEF StartReadLock, StartReadUnlock, StartWriteLock, SpuriousWakeup, Places
<1>2. RWTypeOK'
  BY <1>1 DEF RWTypeOK, Begin
<1>3. /\ at[t] = from /\ at'[t] = to /\ \A s \in Threads : s # t => at'[s] = at[s]
      /\ lock' = lock /\ readers_count' = readers_count
  BY <1>1 DEF Begin, RWTypeOK
<1>4. Reading' = Reading /\ Writing' = Writing
  BY <1>1, <1>3 DEF Reading, Writing
<1>5. ReadersCounted'
  BY <1>3, <1>4, SameReaders
<1>6. Exclusive'
  BY <1>1, <1>3, <1>4 DEF Exclusive
<1>7. WakeupPending'
  BY <1>1, <1>3 DEF WakeupPending, Waiting
<1> QED
  BY <1>2, <1>4, <1>5, <1>6, <1>7

LEMMA MutexLockKeeps ==
  ASSUME RWInv, NEW t \in Threads, MutexLock(t)
  PROVE  RWInv' /\ Reading' = Reading /\ Writing' = Writing
<1> USE DEF RWInv
<1>1. /\ <<at[t], at'[t]>> \in {<<"r_lock", "r_inc">>, <<"u_lock", "u_dec">>, <<"w_lock", "w_test">>}
      /\ \A s \in Threads : s # t => at'[s] = at[s]
      /\ lock = NoThread /\ lock' = t /\ readers_count' = readers_count
      /\ at' \in [Threads -> Places]
  BY DEF MutexLock, AfterLock, RWTypeOK, Places
<1>2. RWTypeOK'
  BY <1>1 DEF RWTypeOK
<1>3. Reading' = Reading /\ Writing' = Writing
  BY <1>1 DEF Reading, Writing
<1>4. ReadersCounted'
  BY <1>1, <1>3, SameReaders
<1>5. Exclusive'
  BY <1>1, <1>3, NoThreadAssumption DEF Exclusive
<1>6. WakeupPending'
  BY <1>1 DEF WakeupPending, Waiting
<1> QED
  BY <1>2, <1>3, <1>4, <1>5, <1>6

LEMMA ReadIncKeeps ==
  ASSUME RWInv, NEW t \in Threads, ReadInc(t)
  PROVE  RWInv' /\ Reading' = Reading \cup {t} /\ t \notin Reading
           /\ Writing = {} /\ Writing' = Writing
<1> USE DEF RWInv
<1>1. /\ at[t] = "r_inc" /\ at'[t] = "reading"
      /\ \A s \in Threads : s # t => at'[s] = at[s]
      /\ lock' = NoThread /\ readers_count' = readers_count + 1
      /\ at' \in [Threads -> Places]
  BY DEF ReadInc, RWTypeOK, Places
<1>2. RWTypeOK'
  BY <1>1 DEF RWTypeOK
<1>3. Reading' = Reading \cup {t} /\ t \notin Reading /\ Writing' = Writing
  BY <1>1 DEF Reading, Writing
<1>4. lock = t /\ Writing = {}
  BY <1>1, NoThreadAssumption DEF Exclusive, Writing
<1>5. ReadersCounted'
  BY <1>1, <1>3, ReadersFinite, FS_AddElement DEF ReadersCounted
<1>6. Exclusive'
  BY <1>1, <1>3, <1>4, NoThreadAssumption DEF Exclusive
<1>7. readers_count' > 0
  BY <1>1, ReadersFinite DEF ReadersCounted
<1>8. WakeupPending'
  BY <1>2, <1>7 DEF WakeupPending, RWTypeOK
<1> QED
  BY <1>2, <1>3, <1>4, <1>5, <1>6, <1>8

LEMMA ReadDecKeeps ==
  ASSUME RWInv, NEW t \in Threads, ReadDec(t)
  PROVE  RWInv' /\ Reading' = Reading \ {t} /\ t \in Reading /\ Writing' = Writing
<1> USE DEF RWInv
<1>1. at[t] = "u_dec" /\ t \in Reading /\ lock' = NoThread
  BY DEF ReadDec, Reading
<1>2. at'[t] = "out" /\ at' \in [Threads -> Places]
      /\ \A s \in Threads : s # t =>
           at'[s] = at[s] \/ (at[s] = "w_wait" /\ at'[s] = "w_lock")
  <2>1. CASE readers_count - 1 <= 0
    BY <2>1, <1>1, SignalMoves DEF ReadDec, Places
  <2>2. CASE ~(readers_count - 1 <= 0)
    BY <2>2, <1>1 DEF ReadDec, RWTypeOK, Places
  <2> QED
    BY <2>1, <2>2
<1>3. Reading' = Reading \ {t} /\ Writing' = Writing
  BY <1>1, <1>2 DEF Reading, Writing
<1>4. readers_count = Cardinality(Reading) /\ readers_count > 0
  BY <1>1, ReadersFinite DEF ReadersCounted
<1>5. Cardinality(Reading') = readers_count - 1
  BY <1>1, <1>3, <1>4, ReadersFinite, FS_RemoveElement
<1>6. readers_count' = readers_count - 1
  BY <1>4, ReadersFinite DEF ReadDec
<1>7. ReadersCounted' /\ RWTypeOK'
  BY <1>1, <1>2, <1>4, <1>5, <1>6, ReadersFinite DEF ReadersCounted, RWTypeOK
<1>8. Exclusive'
  BY <1>1, <1>2, <1>3, NoThreadAssumption DEF Exclusive, Reading, Writing
<1>9. WakeupPending'
  <2>1. CASE readers_count - 1 <= 0
    <3>1. Waiting # {} => \E w \in Threads : at'[w] = "w_lock"
      BY <2>1, <1>1, SignalMoves DEF ReadDec, Places
    <3>2. Waiting' \subseteq Waiting
      BY <1>2 DEF Waiting
    <3> QED
      BY <3>1, <3>2 DEF WakeupPending
  <2>2. CASE ~(readers_count - 1 <= 0)
    BY <2>2, <1>6 DEF WakeupPending, RWTypeOK
  <2> QED
    BY <2>1, <2>2
<1> QED
  BY <1>1, <1>3, <1>7, <1>8, <1>9

(* A writer enters only when nobody reads or writes, or it goes to sleep.  *)
LEMMA WriteTestKeeps ==
  ASSUME RWInv, NEW t \in Threads, WriteTest(t)
  PROVE  /\ RWInv' /\ Reading' = Reading
         /\ \/ Writing' = Writing
            \/ Reading = {} /\ Writing = {} /\ Writing' = {t}
<1> USE DEF RWInv
<1>1. at[t] = "w_test" /\ \A s \in Threads : s # t => at[s] # "writing"
  BY NoThreadAssumption DEF WriteTest, Exclusive
<1>2. CASE readers_count <= 0
  <2>1. /\ at'[t] = "writing" /\ \A s \in Threads : s # t => at'[s] = at[s]
        /\ at' \in [Threads -> Places] /\ lock' = lock /\ readers_count' = 0
    BY <1>1, <1>2 DEF WriteTest, RWTypeOK, Places
  <2>2. Reading = {} /\ readers_count = 0
    BY <1>2, ReadersFinite DEF ReadersCounted
  <2>3. Reading' = Reading /\ Writing = {} /\ Writing' = {t}
    BY <1>1, <2>1 DEF Reading, Writing
  <2>4. RWTypeOK' /\ ReadersCounted'
    BY <2>1, <2>2, <2>3 DEF RWTypeOK, ReadersCounted
  <2>5. Exclusive' /\ WakeupPending'
    BY <1>1, <2>1, <2>2, <2>3 DEF Exclusive, WakeupPending
  <2> QED
    BY <2>2, <2>3, <2>4, <2>5
<1>3. CASE ~(readers_count <= 0)
  <2>1. /\ at'[t] = "w_wait" /\ \A s \in Threads : s # t => at'[s] = at[s]
        /\ at' \in [Threads -> Places] /\ lock' = NoThread
        /\ readers_count' = readers_count
    BY <1>1, <1>3 DEF WriteTest, RWTypeOK, Places
  <2>2. Reading' = Reading /\ Writing' = Writing
    BY <1>1, <2>1 DEF Reading, Writing
  <2>3. RWTypeOK' /\ ReadersCounted'
    BY <2>1, <2>2, SameReaders DEF RWTypeOK
  <2>4. Exclusive' /\ WakeupPending'
    BY <1>1, <1>3, <2>1, <2>2, NoThreadAssumption DEF Exclusive, WakeupPending
  <2> QED
    BY <2>2, <2>3, <2>4
<1> QED
  BY <1>2, <1>3

LEMMA WriteUnlockKeeps ==
  ASSUME RWInv, NEW t \in Threads, WriteUnlock(t)
  PROVE  RWInv' /\ Reading' = Reading /\ Writing = {t} /\ Writing' = {}
<1> USE DEF RWInv
<1>1. at[t] = "writing" /\ lock' = NoThread /\ readers_count' = readers_count
  BY DEF WriteUnlock
<1>2. /\ at'[t] = "out" /\ at' \in [Threads -> Places]
      /\ \A s \in Threads : s # t =>
           at'[s] = at[s] \/ (at[s] = "w_wait" /\ at'[s] = "w_lock")
      /\ Waiting # {} => \E w \in Threads : at'[w] = "w_lock"
  BY <1>1, SignalMoves DEF WriteUnlock, Places
<1>3. \A s \in Threads : s # t => at[s] # "writing"
  BY <1>1, NoThreadAssumption DEF Exclusive
<1>4. Reading' = Reading /\ Writing = {t} /\ Writing' = {}
  BY <1>1, <1>2, <1>3 DEF Reading, Writing
<1>5. RWTypeOK' /\ ReadersCounted'
  BY <1>1, <1>2, <1>4, SameReaders DEF RWTypeOK
<1>6. Exclusive'
  BY <1>1, <1>2, <1>3, <1>4, NoThreadAssumption DEF Exclusive
<1>7. Waiting' \subseteq Waiting
  BY <1>1, <1>2 DEF Waiting
<1>8. WakeupPending'
  BY <1>2, <1>7 DEF WakeupPending
<1> QED
  BY <1>4, <1>5, <1>6, <1>8

-----------------------------------------------------------------------------
LEMMA RWInitInv == RWInit => RWInv
<1> SUFFICES ASSUME RWInit PROVE RWInv
  OBVIOUS
<1>1. Reading = {} /\ Writing = {} /\ Waiting = {}
  BY DEF RWInit, Reading, Writing, Waiting
<1> QED
  BY <1>1, FS_EmptySet, NoThreadAssumption
  DEF RWInit, RWInv, RWTypeOK, Places, ReadersCounted, Exclusive, WakeupPending

LEMMA RWStutter == RWInv /\ UNCHANGED rwVars => RWInv'
BY DEF RWInv, rwVars, RWTypeOK, ReadersCounted, Exclusive, WakeupPending,
       Reading, Writing, Waiting

LEMMA RWNextInv == RWInv /\ [RWNext]_rwVars => RWInv'
<1> SUFFICES ASSUME RWInv, [RWNext]_rwVars PROVE RWInv'
  OBVIOUS
<1>1. CASE UNCHANGED rwVars
  BY <1>1, RWStutter
<1>2. CASE RWNext
  BY <1>2, BeginKeeps, MutexLockKeeps, ReadIncKeeps, ReadDecKeeps, WriteTestKeeps,
     WriteUnlockKeeps DEF RWNext, RWStep
<1> QED
  BY <1>1, <1>2

(* The lock keeps its inductive invariant, whatever the threads do.        *)
THEOREM RWInvariant == RWSpec => []RWInv
<1> QED
  BY RWInitInv, RWNextInv, PTL DEF RWSpec

(* The count the macros keep is the number of readers, so that their two   *)
(* assertions hold and setting it to 0 changes nothing.                    *)
THEOREM CountExact == RWSpec => []ReadersCounted
<1>1. RWInv => ReadersCounted
  BY DEF RWInv
<1> QED
  BY <1>1, RWInvariant, PTL

(* No wakeup is lost.                                                      *)
THEOREM NoWakeupLost == RWSpec => []WakeupPending
<1>1. RWInv => WakeupPending
  BY DEF RWInv
<1> QED
  BY <1>1, RWInvariant, PTL

(* Every step of the emulation is a step of the promised lock or none.     *)
THEOREM ImplementsLock == RWSpec => KeepsPromise
<1>1. RWInit => Promise!Init
  BY DEF RWInit, Promise!Init, Reading, Writing
<1>2. RWInv /\ [RWNext]_rwVars => [Promise!Next]_<<Reading, Writing>>
  <2> SUFFICES ASSUME RWInv, [RWNext]_rwVars
               PROVE  [Promise!Next]_<<Reading, Writing>>
    OBVIOUS
  <2>1. CASE UNCHANGED rwVars
    BY <2>1 DEF rwVars, Reading, Writing
  <2>2. ASSUME NEW t \in Threads, RWStep(t)
        PROVE  [Promise!Next]_<<Reading, Writing>>
    <3>1. CASE MutexLock(t)
      BY <3>1, MutexLockKeeps
    <3>2. CASE ReadInc(t)
      BY <3>2, ReadIncKeeps DEF Promise!Next, Promise!EnterRead
    <3>3. CASE ReadDec(t)
      BY <3>3, ReadDecKeeps DEF Promise!Next, Promise!LeaveRead
    <3>4. CASE WriteTest(t)
      BY <3>4, WriteTestKeeps DEF Promise!Next, Promise!EnterWrite
    <3> QED
      BY <2>2, <3>1, <3>2, <3>3, <3>4 DEF RWStep
  <2>3. ASSUME NEW t \in Threads, WriteUnlock(t)
        PROVE  [Promise!Next]_<<Reading, Writing>>
    BY <2>3, WriteUnlockKeeps DEF Promise!Next, Promise!LeaveWrite
  <2>4. ASSUME NEW t \in Threads,
               StartReadLock(t) \/ StartReadUnlock(t) \/ StartWriteLock(t) \/ SpuriousWakeup(t)
        PROVE  [Promise!Next]_<<Reading, Writing>>
    BY <2>4, BeginKeeps
  <2> QED
    BY <2>1, <2>2, <2>3, <2>4 DEF RWNext
<1> QED
  BY <1>1, <1>2, RWInvariant, PTL DEF RWSpec, KeepsPromise, Promise!Spec

-----------------------------------------------------------------------------
(* The lock among everything else that the threads do.                     *)

(* Every step of the composed system is a step of the lock or leaves it.   *)
LEMMA StepsOfTheLock == [Next]_vars => [RWNext]_rwVars
<1> SUFFICES ASSUME [Next]_vars PROVE [RWNext]_rwVars
  OBVIOUS
<1>1. ASSUME NEW t \in Threads, Step(t) PROVE [RWNext]_rwVars
  <2>1. CASE EnvStep(t)
    BY <2>1 DEF EnvStep, RWNext, RWStep
  <2>2. CASE ~EnvStep(t)
    BY <1>1, <2>2 DEF Step, LocaleLockStep, LocaleUnlockStep, Enter, Leave, SaveMemLog,
       Allocate, ZeroMemLog, Toggle
  <2> QED
    BY <2>1, <2>2
<1>2. ASSUME NEW t \in Threads, EnvSpurious(t) PROVE [RWNext]_rwVars
  BY <1>2 DEF EnvSpurious, RWNext
<1>3. ASSUME NEW t \in Threads, NEW kind \in Sections[t], StartSection(t, kind)
      PROVE  UNCHANGED rwVars
  BY <1>3 DEF StartSection
<1>4. ASSUME NEW t \in Threads,
             \/ \E kind \in {"UNDERLYING", "STANDARD"} : OpenBracket(t, kind)
             \/ Disable(t)
             \/ CloseBracket(t)
      PROVE  UNCHANGED rwVars
  BY <1>4 DEF OpenBracket, Disable, CloseBracket
<1>5. CASE Ended \/ UNCHANGED vars
  BY <1>5 DEF Ended, vars
<1> QED
  BY <1>1, <1>2, <1>3, <1>4, <1>5 DEF Next

(* The composed system implements the lock emulation.                      *)
THEOREM EnvIsRWLock == Spec => RWSpec
<1>1. Init => RWInit
  BY DEF Init
<1> QED
  BY <1>1, StepsOfTheLock, PTL DEF Spec, RWSpec

(* With everything else the threads do, the count of the environment lock  *)
(* is exact.                                                               *)
THEOREM EnvCountExact == Spec => []ReadersCounted
BY EnvIsRWLock, CountExact, PTL

(* With everything else the threads do, no wakeup of its writers is lost.  *)
THEOREM EnvWakeups == Spec => []WakeupPending
BY EnvIsRWLock, NoWakeupLost, PTL

(* With everything else the threads do, it admits readers or one writer.   *)
THEOREM EnvImplementsLock == Spec => KeepsPromise
BY EnvIsRWLock, ImplementsLock, PTL

-----------------------------------------------------------------------------
LEMMA LocaleUnchanged ==
  LocaleOwned /\ UNCHANGED localeVars => LocaleOwned'
BY DEF LocaleOwned, localeVars

LEMMA LocaleStepKeeps ==
  ASSUME LocaleOwned, NEW t \in Threads, LocaleLockStep(t) \/ LocaleUnlockStep(t)
  PROVE  LocaleOwned'
<1>1. CASE LocaleLockStep(t)
  <2>1. CASE depth[t] <= 0
    <3>1. /\ localeLock = NoThread /\ localeLock' = t
          /\ depth' = [depth EXCEPT ![t] = 1]
      BY <1>1, <2>1 DEF LocaleLockStep, LocaleOwned
    <3> QED
      BY <3>1, NoThreadAssumption DEF LocaleOwned
  <2>2. CASE depth[t] > 0
    <3>1. localeLock' = localeLock /\ depth' = [depth EXCEPT ![t] = @ + 1]
      BY <1>1, <2>2 DEF LocaleLockStep, LocaleOwned
    <3> QED
      BY <2>2, <3>1 DEF LocaleOwned
  <2> QED
    BY <2>1, <2>2 DEF LocaleOwned
<1>2. CASE LocaleUnlockStep(t)
  BY <1>2, NoThreadAssumption DEF LocaleUnlockStep, LocaleOwned
<1> QED
  BY <1>1, <1>2

LEMMA LocaleKept ==
  ASSUME LocaleOwned, [Next]_vars
  PROVE  LocaleOwned'
<1>1. ASSUME NEW t \in Threads, Step(t) PROVE LocaleOwned'
  <2>1. CASE LocaleLockStep(t) \/ LocaleUnlockStep(t)
    BY <2>1, LocaleStepKeeps
  <2>2. CASE ~(LocaleLockStep(t) \/ LocaleUnlockStep(t))
    <3>1. UNCHANGED localeVars
      BY <1>1, <2>2 DEF Step, EnvStep, Enter, Leave, SaveMemLog, Allocate, ZeroMemLog, Toggle
    <3> QED
      BY <3>1, LocaleUnchanged
  <2> QED
    BY <2>1, <2>2
<1>2. CASE UNCHANGED localeVars
  BY <1>2, LocaleUnchanged
<1>3. ASSUME ~UNCHANGED localeVars PROVE \E t \in Threads : Step(t)
  BY <1>3 DEF Next, Ended, vars, EnvSpurious, StartSection, OpenBracket, Disable, CloseBracket
<1> QED
  BY <1>1, <1>2, <1>3

(* The recursive lock made of a mutex and a counter per thread excludes.   *)
THEOREM LocaleExclusive == Spec => []LocaleOwned
<1>1. Init => LocaleOwned
  BY NoThreadAssumption DEF Init, LocaleOwned
<1>2. LocaleOwned /\ [Next]_vars => LocaleOwned'
  BY LocaleKept
<1> QED
  BY <1>1, <1>2, PTL DEF Spec

-----------------------------------------------------------------------------
(* The sections and brackets as sequences of macros.  What a macro relies  *)
(* on is undone behind it, locks come before everything else, an unlock    *)
(* has only the outer unlock and the reset of PL_mem_log behind it.        *)
Followers == EnvUnlocks \cup {"LOCALE_UNLOCK_", "toggle"}

FollowedBy ==
  {<<"ENV_LOCK", "ENV_UNLOCK">>, <<"ENV_READ_LOCK", "ENV_READ_UNLOCK">>,
   <<"LOCALE_LOCK_", "LOCALE_UNLOCK_">>, <<"LC_NUMERIC_LOCK", "toggle">>,
   <<"putenv", "ENV_UNLOCK">>, <<"localtime", "ENV_UNLOCK">>, <<"strftime", "ENV_READ_UNLOCK">>,
   <<"mblen", "LOCALE_UNLOCK_">>, <<"setlocale", "LOCALE_UNLOCK_">>}
  \cup {<<m, Head(GETENV_UNLOCK)>> : m \in {"getenv", "logger", "save", "allocate"}}
  \cup (IF conf.threadSafeLocale THEN {} ELSE {<<"strftime", "LOCALE_UNLOCK_">>})

InOrder(m, n) ==
  /\ n \notin {"LOCALE_LOCK_", "LC_NUMERIC_LOCK"}
  /\ n \in EnvLocks => m = "LOCALE_LOCK_"
  /\ m \in EnvUnlocks => n \in {"LOCALE_UNLOCK_", "zero"}
  /\ m \notin {"LOCALE_UNLOCK_", "zero", "toggle"}
  /\ m = "LC_NUMERIC_LOCK" <=> n = "toggle"

Ahead(s, m) == \E i \in 1 .. Len(s) : s[i] = m

Undone(s) ==
  \A i \in 1 .. Len(s) : \A m \in Followers :
    <<s[i], m>> \in FollowedBy => \E j \in i + 1 .. Len(s) : s[j] = m

SavesFirst(s) ==
  \A i \in 1 .. Len(s) - 1 : s[i + 1] = "allocate" => s[i] = "save"

WellOrdered(s) ==
  /\ s \in Seq(Macros)
  /\ \A i \in 1 .. Len(s) : s[i] = "LC_NUMERIC_LOCK" => ~conf.threadSafeLocale
  /\ \A i \in 1 .. Len(s) : \A j \in i + 1 .. Len(s) : InOrder(s[i], s[j])
  /\ Undone(s)
  /\ SavesFirst(s)

(* Where a thread is in the macros of the environment lock, by what it has *)
(* still to run.                                                           *)
PlaceFits(place, s) ==
  /\ place \in {"r_lock", "r_inc"} => s # <<>> /\ Head(s) = "ENV_READ_LOCK"
  /\ place \in {"u_lock", "u_dec"} => s # <<>> /\ Head(s) = "ENV_READ_UNLOCK"
  /\ place \in {"w_lock", "w_test", "w_wait"} => s # <<>> /\ Head(s) = "ENV_LOCK"
  /\ place = "reading" => Ahead(s, "ENV_READ_UNLOCK")
  /\ place = "writing" => Ahead(s, "ENV_UNLOCK")
  /\ place \in {"reading", "writing"} => \A m \in EnvLocks : ~Ahead(s, m)
  /\ place = "out" /\ (\E m \in EnvUnlocks : Ahead(s, m)) => \E m \in EnvLocks : Ahead(s, m)

Placed(t) ==
  /\ WellOrdered(todo[t])
  /\ PlaceFits(at[t], todo[t])
  /\ (todo[t] # <<>> /\ Head(todo[t]) = "allocate") => saved[t]

(* What the macros still to run add to the levels of the locale lock that  *)
(* the open brackets account for.                                          *)
LevelsOf(s) ==
  IF s = <<>> \/ Head(s) = "LOCALE_LOCK_" THEN 0
  ELSE IF Head(s) = "LC_NUMERIC_LOCK" THEN -1
  ELSE IF Ahead(s, "LOCALE_UNLOCK_") THEN 1 ELSE 0

Unsettled(s) == Ahead(s, "toggle")

(* A bracket with outer and inner the values of PL_numeric_standard around *)
(* and inside it, and below and level those of the locale lock.            *)
Fits(bracket, outer, inner, below, level) ==
  /\ level >= 1
  /\ \/ /\ bracket.kind = "DISABLE" /\ bracket.restore = "no"
        /\ inner = outer + 1 /\ level = below /\ outer >= 1
     \/ /\ bracket.kind \in {"UNDERLYING", "STANDARD"} /\ level = below + 1
        /\ bracket.restore = "no" => inner = outer
        /\ bracket.restore = "standard" => outer = 1
        /\ bracket.restore = "underlying" => outer = 0
        /\ bracket.restore \in {"no", "standard", "underlying"}

(* inside[j] and levels[j]: the same two inside the first j brackets.      *)
Nested(open, inside, levels) ==
  /\ inside[0] = 1 /\ levels[0] = 0
  /\ \A j \in 1 .. Len(open) : Fits(open[j], inside[j - 1], inside[j], levels[j - 1], levels[j])

(* The first n brackets have the state they asked for.                     *)
AsAsked(bracket, inner)  == IF bracket.kind = "UNDERLYING" THEN inner # 1 ELSE inner # 0
Settled(open, inside, n) == \A j \in 1 .. n : AsAsked(open[j], inside[j])
Pending(open) ==
  open # <<>> /\ open[Len(open)].kind # "DISABLE" /\ open[Len(open)].restore = "no"

Bracketed(t) ==
  \E inside, levels \in [0 .. Len(brackets[t]) -> Nat] :
    /\ Nested(brackets[t], inside, levels)
    /\ Settled(brackets[t], inside, Len(brackets[t]) - 1)
    /\ IF Unsettled(todo[t]) THEN Pending(brackets[t]) ELSE Settled(brackets[t], inside, Len(brackets[t]))
    /\ standard[t] = inside[Len(brackets[t])]
    /\ underlying[t] <=> standard[t] = 0
    /\ depth[t] = (IF conf.threadSafeLocale THEN 0 ELSE levels[Len(brackets[t])]) + LevelsOf(todo[t])

LocaleIn(t) == IF standard[t] = 0 THEN "underlying" ELSE "C"

ActualKnown ==
  \A t \in Threads :
    /\ conf.threadSafeLocale => actual[t] = LocaleIn(t)
    /\ ~conf.threadSafeLocale /\ localeLock = NoThread => actual[t] = "C"
    /\ ~conf.threadSafeLocale => \A u \in Threads : localeLock = u => actual[t] = LocaleIn(u)

-----------------------------------------------------------------------------
LEMMA TailFacts ==
  ASSUME NEW s \in Seq(Macros), s # <<>>
  PROVE  /\ Len(s) \in Nat /\ Len(s) >= 1 /\ s[1] = Head(s)
         /\ Tail(s) \in Seq(Macros) /\ Len(Tail(s)) = Len(s) - 1
         /\ \A i \in 1 .. Len(s) - 1 : Tail(s)[i] = s[i + 1]
OBVIOUS

LEMMA AheadTail ==
  ASSUME NEW s \in Seq(Macros), s # <<>>, NEW m
  PROVE  Ahead(s, m) <=> Head(s) = m \/ Ahead(Tail(s), m)
<1>1. ASSUME Ahead(s, m), Head(s) # m PROVE Ahead(Tail(s), m)
  <2>1. PICK i \in DOMAIN s : s[i] = m
    BY <1>1 DEF Ahead
  <2>2. i \in 2 .. Len(s)
    BY <1>1, <2>1, TailFacts
  <2>3. i - 1 \in DOMAIN Tail(s) /\ Tail(s)[i - 1] = m
    BY <2>1, <2>2, TailFacts
  <2> QED
    BY <2>3 DEF Ahead
<1>2. ASSUME Ahead(Tail(s), m) PROVE Ahead(s, m)
  <2>1. PICK i \in DOMAIN Tail(s) : Tail(s)[i] = m
    BY <1>2 DEF Ahead
  <2>2. i + 1 \in DOMAIN s /\ s[i + 1] = m
    BY <2>1, TailFacts
  <2> QED
    BY <2>2 DEF Ahead
<1>3. Head(s) = m => Ahead(s, m)
  BY TailFacts DEF Ahead
<1> QED
  BY <1>1, <1>2, <1>3

LEMMA OrderOfTail ==
  ASSUME NEW s, WellOrdered(s), s # <<>>
  PROVE  WellOrdered(Tail(s))
<1>1. s \in Seq(Macros)
  BY DEF WellOrdered
<1>2. Len(s) \in Nat /\ Len(Tail(s)) = Len(s) - 1 /\ Tail(s) \in Seq(Macros)
  BY <1>1, TailFacts
<1>3. \A i \in 1 .. Len(s) - 1 : Tail(s)[i] = s[i + 1]
  BY <1>1, TailFacts
<1>4. \A i \in 1 .. Len(Tail(s)) : Tail(s)[i] = "LC_NUMERIC_LOCK" => ~conf.threadSafeLocale
  BY <1>2, <1>3 DEF WellOrdered
<1>5. \A i \in 1 .. Len(Tail(s)) : \A j \in i + 1 .. Len(Tail(s)) : InOrder(Tail(s)[i], Tail(s)[j])
  BY <1>2, <1>3 DEF WellOrdered
<1>6. Undone(Tail(s))
  <2> SUFFICES ASSUME NEW i \in 1 .. Len(s) - 1,
                      NEW m \in Followers,
                      <<Tail(s)[i], m>> \in FollowedBy
               PROVE  \E j \in i + 1 .. Len(s) - 1 : Tail(s)[j] = m
    BY <1>2 DEF Undone
  <2>1. PICK j \in (i + 1) + 1 .. Len(s) : s[j] = m
    BY <1>2, <1>3 DEF WellOrdered, Undone
  <2>2. j - 1 \in i + 1 .. Len(s) - 1 /\ Tail(s)[j - 1] = m
    BY <1>2, <1>3, <2>1
  <2> QED
    BY <2>2
<1>7. SavesFirst(Tail(s))
  BY <1>2, <1>3 DEF WellOrdered, SavesFirst
<1> QED
  BY <1>2, <1>4, <1>5, <1>6, <1>7 DEF WellOrdered

(* What the order says of the macro a thread is at.                        *)
LEMMA OrderAtHead ==
  ASSUME NEW s, WellOrdered(s), s # <<>>
  PROVE  /\ \A m : Ahead(Tail(s), m) => InOrder(Head(s), m)
         /\ \A m \in Followers :
              <<Head(s), m>> \in FollowedBy => Ahead(Tail(s), m)
         /\ Tail(s) # <<>> /\ Head(Tail(s)) = "allocate" => Head(s) = "save"
         /\ Head(s) = "LC_NUMERIC_LOCK" => ~conf.threadSafeLocale /\ Ahead(Tail(s), "toggle")
<1>1. s \in Seq(Macros)
  BY DEF WellOrdered
<1>2. /\ Len(s) \in Nat /\ Len(s) >= 1 /\ s[1] = Head(s)
      /\ Len(Tail(s)) = Len(s) - 1 /\ Tail(s) \in Seq(Macros)
      /\ \A i \in 1 .. Len(s) - 1 : Tail(s)[i] = s[i + 1]
  BY <1>1, TailFacts
<1>5. ASSUME NEW m, Ahead(Tail(s), m) PROVE InOrder(Head(s), m)
  <2>1. PICK i \in 1 .. Len(s) - 1 : s[i + 1] = m
    BY <1>2, <1>5 DEF Ahead
  <2>2. InOrder(s[1], s[i + 1])
    BY <1>2, <2>1 DEF WellOrdered
  <2> QED
    BY <1>2, <2>1, <2>2
<1>6. ASSUME NEW m \in Followers,
             <<Head(s), m>> \in FollowedBy
      PROVE  Ahead(Tail(s), m)
  <2>1. PICK i \in 1 + 1 .. Len(s) : s[i] = m
    BY <1>2, <1>6 DEF WellOrdered, Undone
  <2>2. i - 1 \in 1 .. Len(s) - 1 /\ Tail(s)[i - 1] = m
    BY <1>2, <2>1
  <2> QED
    BY <1>2, <2>2 DEF Ahead
<1>7. ASSUME Tail(s) # <<>>, Head(Tail(s)) = "allocate" PROVE Head(s) = "save"
  <2>1. Len(Tail(s)) >= 1 /\ Tail(s)[1] = "allocate"
    BY <1>2, <1>7, TailFacts
  <2>2. 1 \in 1 .. Len(s) - 1 /\ s[1 + 1] = "allocate"
    BY <1>2, <2>1
  <2> QED
    BY <1>2, <2>2 DEF WellOrdered, SavesFirst
<1>8. Head(s) = "LC_NUMERIC_LOCK" => ~conf.threadSafeLocale /\ Ahead(Tail(s), "toggle")
  <2>1. Head(s) = "LC_NUMERIC_LOCK" => ~conf.threadSafeLocale
    BY <1>2 DEF WellOrdered
  <2>2. Head(s) = "LC_NUMERIC_LOCK" => Ahead(Tail(s), "toggle")
    BY <1>6 DEF FollowedBy, Followers
  <2> QED
    BY <2>1, <2>2
<1> QED
  BY <1>5, <1>6, <1>7, <1>8

LEMMA OrderCarried ==
  ASSUME NEW t \in Threads, NEW s, WellOrdered(s), conf' = conf, todo'[t] = s
  PROVE  WellOrdered(todo[t])'
BY DEF WellOrdered, Undone, SavesFirst, FollowedBy, GETENV_UNLOCK, InOrder

(* Where the elements of a concatenation are.                              *)
LEMMA FourMacros ==
  ASSUME NEW a \in Macros, NEW b \in Macros, NEW c \in Macros, NEW d \in Macros, NEW s,
         s = <<a>> \o <<b, c>> \o <<d>>
  PROVE  s \in Seq(Macros) /\ Len(s) = 4 /\ s[1] = a /\ s[2] = b /\ s[3] = c /\ s[4] = d
OBVIOUS

LEMMA SixMacros ==
  ASSUME NEW a \in Macros, NEW b \in Macros, NEW c \in Macros, NEW d \in Macros, NEW e \in Macros, NEW f \in Macros,
         NEW s, s = <<a>> \o <<b>> \o <<c, d>> \o (<<e>> \o <<f>>)
  PROVE  /\ s \in Seq(Macros) /\ Len(s) = 6
         /\ s[1] = a /\ s[2] = b /\ s[3] = c /\ s[4] = d /\ s[5] = e /\ s[6] = f
OBVIOUS

LEMMA SevenMacros ==
  ASSUME NEW a \in Macros, NEW e \in Macros, NEW f \in Macros,
         NEW b \in Macros, NEW c \in Macros, NEW d \in Macros, NEW g \in Macros
  PROVE  LET s == <<a>> \o <<b, c, d, e>> \o <<f>> \o <<g>>
         IN  /\ s \in Seq(Macros) /\ Len(s) = 7
             /\ s[1] = a /\ s[2] = b /\ s[3] = c /\ s[4] = d /\ s[5] = e /\ s[6] = f /\ s[7] = g
<1> DEFINE r == <<a>> \o <<b, c, d, e>>
<1>1. r \in Seq(Macros) /\ Len(r) = 5 /\ r[1] = a /\ r[2] = b /\ r[3] = c /\ r[4] = d /\ r[5] = e
  OBVIOUS
<1> DEFINE s == r \o <<f>> \o <<g>>
<1> HIDE DEF r
<1>2. /\ s \in Seq(Macros) /\ Len(s) = Len(r) + 2 /\ \A i \in 1 .. Len(r) : s[i] = r[i]
      /\ s[Len(r) + 1] = f /\ s[Len(r) + 2] = g
  <2>1. r \in Seq(Macros) /\ f \in Macros /\ g \in Macros
    BY <1>1
  <2> QED
    BY ONLY <2>1
<1> HIDE DEF s
<1>3. s = <<a>> \o <<b, c, d, e>> \o <<f>> \o <<g>>
  BY DEF r, s
<1>4. /\ s \in Seq(Macros) /\ Len(s) = 7
      /\ s[1] = a /\ s[2] = b /\ s[3] = c /\ s[4] = d /\ s[5] = e /\ s[6] = f /\ s[7] = g
  BY <1>1, <1>2
<1> QED
  BY <1>3, <1>4

LEMMA FirstMacro ==
  ASSUME NEW s \in Seq(Macros), Len(s) >= 1
  PROVE  s # <<>> /\ Head(s) = s[1]
OBVIOUS

LEMMA EmptyConcatenation ==
  ASSUME NEW S, NEW s \in Seq(S)
  PROVE  <<>> \o s = s /\ s \o <<>> = s
OBVIOUS

(* What holds of a section before it has begun.                            *)
Fresh(s) ==
  /\ WellOrdered(s) /\ s # <<>> /\ PlaceFits("out", s) /\ LevelsOf(s) = 0
  /\ Head(s) # "allocate" /\ ~Ahead(s, "toggle")

LEMMA PlainSection ==
  ASSUME NEW s \in Seq(Macros), Len(s) = 4, s[2] = "begin",
         \/ s[1] = "ENV_LOCK" /\ s[3] \in {"putenv", "localtime"} /\ s[4] = "ENV_UNLOCK"
         \/ s[1] = "LOCALE_LOCK_" /\ s[3] \in {"mblen", "setlocale"} /\ s[4] = "LOCALE_UNLOCK_"
         \/ s[1] = "ENV_READ_LOCK" /\ s[3] = "strftime" /\ s[4] = "ENV_READ_UNLOCK"
         \/ s[1] = Head(GETENV_LOCK) /\ s[3] \in {"getenv", "logger"} /\ s[4] = Head(GETENV_UNLOCK),
         s[3] = "strftime" => conf.threadSafeLocale
  PROVE  Fresh(s)
<1>1. \A i \in 1 .. Len(s) : \A j \in i + 1 .. Len(s) : InOrder(s[i], s[j])
  BY DEF InOrder, EnvLocks, EnvUnlocks, GETENV_LOCK, GETENV_UNLOCK
<1>2. Undone(s)
  <2> SUFFICES ASSUME NEW i \in 1 .. 4, NEW m \in Followers, <<s[i], m>> \in FollowedBy
               PROVE  i \in 1 .. 3 /\ s[4] = m
    BY DEF Undone
  <2>1. CASE i \in {2, 4}
    BY <2>1 DEF FollowedBy, Followers, EnvUnlocks, GETENV_LOCK, GETENV_UNLOCK
  <2>2. CASE i \in {1, 3}
    BY <2>2 DEF FollowedBy, Followers, EnvUnlocks, GETENV_LOCK, GETENV_UNLOCK
  <2> QED
    BY <2>1, <2>2
<1>3. SavesFirst(s) /\ \A i \in 1 .. Len(s) : s[i] # "LC_NUMERIC_LOCK"
  BY DEF SavesFirst, GETENV_LOCK, GETENV_UNLOCK
<1>4. Head(s) = s[1] /\ s # <<>>
  BY FirstMacro
<1>5. \A m : Ahead(s, m) <=> m \in {s[1], s[2], s[3], s[4]}
  BY DEF Ahead
<1>6. WellOrdered(s)
  BY <1>1, <1>2, <1>3 DEF WellOrdered
<1>7. PlaceFits("out", s) /\ Head(s) # "allocate" /\ ~Ahead(s, "toggle")
  BY <1>4, <1>5 DEF PlaceFits, EnvLocks, EnvUnlocks, GETENV_LOCK, GETENV_UNLOCK
<1>8. LevelsOf(s) = 0
  BY <1>4, <1>5 DEF LevelsOf, GETENV_LOCK, GETENV_UNLOCK
<1> QED
  BY <1>4, <1>6, <1>7, <1>8 DEF Fresh

LEMMA StrftimeSection ==
  ASSUME NEW s \in Seq(Macros), Len(s) = 6, s[1] = "LOCALE_LOCK_", s[2] = "ENV_READ_LOCK",
         s[3] = "begin", s[4] = "strftime", s[5] = "ENV_READ_UNLOCK", s[6] = "LOCALE_UNLOCK_"
  PROVE  Fresh(s)
<1>1. \A i \in 1 .. Len(s) : \A j \in i + 1 .. Len(s) : InOrder(s[i], s[j])
  BY DEF InOrder, EnvLocks, EnvUnlocks
<1>2. Undone(s)
  <2> SUFFICES ASSUME NEW i \in 1 .. 6, NEW m \in Followers, <<s[i], m>> \in FollowedBy
               PROVE  \E j \in i + 1 .. 6 : s[j] = m
    BY DEF Undone
  <2>1. \/ i < 5 /\ s[5] = m
        \/ i < 6 /\ s[6] = m
    BY DEF FollowedBy, Followers, EnvUnlocks, GETENV_UNLOCK
  <2> QED
    BY <2>1
<1>3. SavesFirst(s) /\ \A i \in 1 .. Len(s) : s[i] # "LC_NUMERIC_LOCK"
  BY DEF SavesFirst
<1>4. Head(s) = s[1] /\ s # <<>>
  BY FirstMacro
<1>5. \A m : Ahead(s, m) <=> m \in {s[1], s[2], s[3], s[4], s[5], s[6]}
  BY DEF Ahead
<1>6. WellOrdered(s)
  BY <1>1, <1>2, <1>3 DEF WellOrdered
<1>7. PlaceFits("out", s) /\ Head(s) # "allocate" /\ ~Ahead(s, "toggle")
  BY <1>4, <1>5 DEF PlaceFits, EnvLocks, EnvUnlocks, GETENV_LOCK, GETENV_UNLOCK
<1>8. LevelsOf(s) = 0
  BY <1>4, <1>5 DEF LevelsOf, GETENV_LOCK, GETENV_UNLOCK
<1> QED
  BY <1>4, <1>6, <1>7, <1>8 DEF Fresh

LEMMA GetenvSection ==
  ASSUME NEW s \in Seq(Macros), Len(s) = 7, s[1] = Head(GETENV_LOCK), s[2] = "begin", s[3] = "save",
         s[4] = "allocate", s[5] = "getenv", s[6] = Head(GETENV_UNLOCK), s[7] = "zero"
  PROVE  Fresh(s)
<1>1. \A i \in 1 .. Len(s) : \A j \in i + 1 .. Len(s) : InOrder(s[i], s[j])
  BY DEF InOrder, EnvLocks, EnvUnlocks, GETENV_LOCK, GETENV_UNLOCK
<1>2. Undone(s)
  <2> SUFFICES ASSUME NEW i \in 1 .. 7, NEW m \in Followers, <<s[i], m>> \in FollowedBy
               PROVE  i < 6 /\ s[6] = m
    BY DEF Undone
  <2> QED
    BY DEF FollowedBy, Followers, EnvUnlocks, GETENV_UNLOCK, GETENV_LOCK
<1>3. SavesFirst(s) /\ \A i \in 1 .. Len(s) : s[i] # "LC_NUMERIC_LOCK"
  BY DEF SavesFirst, GETENV_LOCK, GETENV_UNLOCK
<1>4. Head(s) = s[1] /\ s # <<>>
  BY Len(s) >= 1, FirstMacro, Zenon
<1>5. \A m : Ahead(s, m) <=> m \in {s[1], s[2], s[3], s[4], s[5], s[6], s[7]}
  BY DEF Ahead
<1>6. WellOrdered(s)
  BY <1>1, <1>2, <1>3 DEF WellOrdered
<1>7. PlaceFits("out", s) /\ Head(s) # "allocate" /\ ~Ahead(s, "toggle")
  BY <1>4, <1>5 DEF PlaceFits, EnvLocks, EnvUnlocks, GETENV_LOCK, GETENV_UNLOCK
<1>8. LevelsOf(s) = 0
  BY <1>4, <1>5 DEF LevelsOf, GETENV_LOCK, GETENV_UNLOCK
<1> QED
  BY <1>4, <1>6, <1>7, <1>8 DEF Fresh

LEMMA GetenvHeads ==
  /\ GETENV_LOCK = <<Head(GETENV_LOCK)>> /\ GETENV_UNLOCK = <<Head(GETENV_UNLOCK)>>
  /\ Head(GETENV_LOCK) \in EnvLocks /\ Head(GETENV_UNLOCK) \in EnvUnlocks
BY DEF GETENV_LOCK, GETENV_UNLOCK, EnvLocks, EnvUnlocks

LEMMA CodeFresh ==
  ASSUME NEW kind \in Kinds
  PROVE  Fresh(Code(kind))
<1> DEFINE s == Code(kind)
<1>1. Kinds \subseteq Macros /\ EnvLocks \subseteq Macros /\ EnvUnlocks \subseteq Macros
      /\ {"begin", "save", "allocate", "zero", "LOCALE_LOCK_", "LOCALE_UNLOCK_"} \subseteq Macros
  BY DEF Macros
<1>2. CASE kind \in {"putenv", "localtime"}
  <2>1. s = <<"ENV_LOCK">> \o <<"begin", kind>> \o <<"ENV_UNLOCK">>
    BY <1>2 DEF Code, Body, gwENVr_LOCALEr_LOCK, gwENVr_LOCALEr_UNLOCK
  <2>2. /\ s \in Seq(Macros) /\ Len(s) = 4 /\ s[1] = "ENV_LOCK" /\ s[2] = "begin"
        /\ s[3] = kind /\ s[4] = "ENV_UNLOCK"
    BY <1>1, <2>1, FourMacros DEF EnvLocks, EnvUnlocks
  <2> QED
    BY <1>2, <2>2, PlainSection
<1>3. CASE kind \in {"mblen", "setlocale"}
  <2>1. s = <<"LOCALE_LOCK_">> \o <<"begin", kind>> \o <<"LOCALE_UNLOCK_">>
    BY <1>3 DEF Code, Body, gwLOCALE_LOCK, gwLOCALE_UNLOCK
  <2>2. /\ s \in Seq(Macros) /\ Len(s) = 4 /\ s[1] = "LOCALE_LOCK_" /\ s[2] = "begin"
        /\ s[3] = kind /\ s[4] = "LOCALE_UNLOCK_"
    BY <1>1, <2>1, FourMacros
  <2> QED
    BY <1>3, <2>2, PlainSection
<1>4. CASE kind = "logger" \/ (kind = "getenv" /\ ~conf.memLog)
  <2>1. s = <<Head(GETENV_LOCK)>> \o <<"begin", kind>> \o <<Head(GETENV_UNLOCK)>>
    BY <1>4, GetenvHeads DEF Code, Body, logger_getenv, mortal_getenv
  <2>2. /\ s \in Seq(Macros) /\ Len(s) = 4 /\ s[1] = Head(GETENV_LOCK) /\ s[2] = "begin"
        /\ s[3] = kind /\ s[4] = Head(GETENV_UNLOCK)
    BY <1>1, <2>1, FourMacros, GetenvHeads
  <2> QED
    BY <1>4, <2>2, PlainSection
<1>5. CASE kind = "getenv" /\ conf.memLog
  <2>1. s = <<Head(GETENV_LOCK)>> \o <<"begin", "save", "allocate", "getenv">>
              \o <<Head(GETENV_UNLOCK)>> \o <<"zero">>
    BY <1>5, GetenvHeads DEF Code, mortal_getenv
  <2>2. /\ s \in Seq(Macros) /\ Len(s) = 7 /\ s[1] = Head(GETENV_LOCK) /\ s[2] = "begin"
        /\ s[3] = "save" /\ s[4] = "allocate" /\ s[5] = "getenv"
        /\ s[6] = Head(GETENV_UNLOCK) /\ s[7] = "zero"
    <3>1. /\ Head(GETENV_LOCK) \in Macros /\ "begin" \in Macros /\ "save" \in Macros
          /\ "allocate" \in Macros /\ "getenv" \in Macros
          /\ Head(GETENV_UNLOCK) \in Macros /\ "zero" \in Macros
      BY <1>1, <1>5, GetenvHeads
    <3> QED
      BY <2>1, <3>1, SevenMacros
  <2> QED
    BY <2>2, GetenvSection
<1>6. CASE kind = "strftime" /\ conf.threadSafeLocale
  <2>1. s = <<"ENV_READ_LOCK">> \o <<"begin", kind>> \o <<"ENV_READ_UNLOCK">>
    BY <1>6, EmptyConcatenation
    DEF Code, Body, ENVr_LOCALEr_LOCK, ENVr_LOCALEr_UNLOCK, LOCALE_LOCK, LOCALE_UNLOCK
  <2>2. /\ s \in Seq(Macros) /\ Len(s) = 4 /\ s[1] = "ENV_READ_LOCK" /\ s[2] = "begin"
        /\ s[3] = kind /\ s[4] = "ENV_READ_UNLOCK"
    BY <1>1, <2>1, FourMacros DEF EnvLocks, EnvUnlocks
  <2> QED
    BY <1>6, <2>2, PlainSection
<1>7. CASE kind = "strftime" /\ ~conf.threadSafeLocale
  <2>1. s = <<"LOCALE_LOCK_">> \o <<"ENV_READ_LOCK">> \o <<"begin", kind>>
              \o (<<"ENV_READ_UNLOCK">> \o <<"LOCALE_UNLOCK_">>)
    BY <1>7 DEF Code, Body, ENVr_LOCALEr_LOCK, ENVr_LOCALEr_UNLOCK, LOCALE_LOCK, LOCALE_UNLOCK
  <2>2. /\ s \in Seq(Macros) /\ Len(s) = 6 /\ s[1] = "LOCALE_LOCK_" /\ s[2] = "ENV_READ_LOCK"
        /\ s[3] = "begin" /\ s[4] = kind /\ s[5] = "ENV_READ_UNLOCK" /\ s[6] = "LOCALE_UNLOCK_"
    BY <1>1, <2>1, SixMacros DEF EnvLocks, EnvUnlocks
  <2> QED
    BY <1>7, <2>2, StrftimeSection
<1> QED
  BY <1>2, <1>3, <1>4, <1>5, <1>6, <1>7 DEF Kinds

-----------------------------------------------------------------------------
(* A thread goes on: what the rest of its macros says about its place.     *)
LEMMA NothingAhead == \A m : ~Ahead(<<>>, m)
BY Len(<<>>) = 0 DEF Ahead

LEMMA LevelsOfTail ==
  ASSUME NEW s, WellOrdered(s), s # <<>>
  PROVE  LevelsOf(Tail(s)) = LevelsOf(s) + (IF Head(s) \in {"LOCALE_LOCK_", "LC_NUMERIC_LOCK"} THEN 1
                                            ELSE IF Head(s) = "LOCALE_UNLOCK_" THEN -1 ELSE 0)
<1>1. s \in Seq(Macros)
  BY DEF WellOrdered
<1>2. \A m : Ahead(s, m) <=> Head(s) = m \/ Ahead(Tail(s), m)
  BY <1>1, AheadTail
<1>3. Tail(s) # <<>> => Ahead(Tail(s), Head(Tail(s)))
  BY <1>1, TailFacts DEF Ahead
<1>4. Tail(s) = <<>> => \A m : ~Ahead(Tail(s), m)
  BY NothingAhead
<1>5. \A m : Ahead(Tail(s), m) => InOrder(Head(s), m)
  BY OrderAtHead
<1>6. CASE Head(s) = "LOCALE_LOCK_"
  <2>1. Ahead(Tail(s), "LOCALE_UNLOCK_")
    BY <1>6, OrderAtHead DEF FollowedBy, Followers
  <2> QED
    BY <1>3, <1>4, <1>5, <1>6, <2>1 DEF LevelsOf, InOrder
<1>7. CASE Head(s) # "LOCALE_LOCK_"
  BY <1>2, <1>3, <1>4, <1>5, <1>7 DEF LevelsOf, InOrder
<1> QED
  BY <1>6, <1>7

(* Steps of t that leave the environment lock alone.                       *)
LEMMA PopElsewhere ==
  ASSUME NEW place \in Places, NEW s, WellOrdered(s), s # <<>>, PlaceFits(place, s),
         Head(s) \notin EnvLocks \cup EnvUnlocks
  PROVE  PlaceFits(place, Tail(s))
<1>1. \A m : Ahead(s, m) <=> Head(s) = m \/ Ahead(Tail(s), m)
  BY AheadTail DEF WellOrdered
<1> QED
  BY <1>1 DEF PlaceFits, EnvLocks, EnvUnlocks, Places

LEMMA PopEnvMacro ==
  ASSUME NEW s, WellOrdered(s), s # <<>>
  PROVE  /\ Head(s) = "ENV_READ_LOCK" => PlaceFits("reading", Tail(s))
         /\ Head(s) = "ENV_LOCK" => PlaceFits("writing", Tail(s))
         /\ Head(s) \in EnvUnlocks => PlaceFits("out", Tail(s))
<1>1. \A m : Ahead(Tail(s), m) => InOrder(Head(s), m)
  BY OrderAtHead
<1>2. /\ Head(s) = "ENV_READ_LOCK" => Ahead(Tail(s), "ENV_READ_UNLOCK")
      /\ Head(s) = "ENV_LOCK" => Ahead(Tail(s), "ENV_UNLOCK")
  BY OrderAtHead DEF FollowedBy, Followers, EnvUnlocks
<1> QED
  BY <1>1, <1>2 DEF PlaceFits, InOrder, EnvLocks, EnvUnlocks

(* What a step of t does to the macros that t, and the others, have to run.*)
Popped(t) == todo[t] # <<>> /\ todo' = [todo EXCEPT ![t] = Tail(@)]
OthersPlaced(t) ==
  \A u \in Threads : u # t =>
    /\ todo'[u] = todo[u] /\ saved'[u] = saved[u]
    /\ at'[u] = at[u] \/ (at[u] = "w_wait" /\ at'[u] = "w_lock")

LEMMA OthersKeepPlaced ==
  ASSUME NEW t \in Threads, \A u \in Threads : Placed(u), conf' = conf, OthersPlaced(t),
         Placed(t)'
  PROVE  \A u \in Threads : Placed(u)'
<1> SUFFICES ASSUME NEW u \in Threads, u # t PROVE Placed(u)'
  OBVIOUS
<1>1. /\ todo'[u] = todo[u] /\ saved'[u] = saved[u]
      /\ at'[u] = at[u] \/ (at[u] = "w_wait" /\ at'[u] = "w_lock")
  BY DEF OthersPlaced
<1>2. WellOrdered(todo[u])'
  BY <1>1, OrderCarried DEF Placed
<1>3. PlaceFits(at[u], todo[u])'
  BY <1>1 DEF Placed, PlaceFits, Ahead
<1> QED
  BY <1>1, <1>2, <1>3 DEF Placed

LEMMA PopPlaced ==
  ASSUME NEW t \in Threads, TypeOK, Placed(t), conf' = conf, Popped(t),
         PlaceFits(at[t]', Tail(todo[t])),
         Head(todo[t]) = "save" => saved'[t]
  PROVE  Placed(t)'
<1>1. todo'[t] = Tail(todo[t])
  BY DEF Popped, TypeOK
<1>2. WellOrdered(todo[t])'
  BY <1>1, OrderOfTail, OrderCarried DEF Placed, Popped
<1>3. PlaceFits(at[t], todo[t])'
  BY <1>1 DEF PlaceFits, Ahead
<1>4. todo'[t] # <<>> /\ Head(todo'[t]) = "allocate" => Head(todo[t]) = "save"
  BY <1>1, OrderAtHead DEF Placed, Popped
<1> QED
  BY <1>2, <1>3, <1>4 DEF Placed

(* One step of the environment lock.                                       *)
LEMMA EnvStepPlaced ==
  ASSUME NEW t \in Threads, TypeOK, RWInv, Placed(t), EnvStep(t)
  PROVE  /\ Placed(t)' /\ OthersPlaced(t) /\ conf' = conf
         /\ todo' = todo \/ (Popped(t) /\ Head(todo[t]) \in EnvLocks \cup EnvUnlocks)
<1> USE DEF RWTypeOK
<1>1. conf' = conf /\ saved' = saved /\ todo[t] # <<>>
  BY DEF EnvStep, localeVars, numericVars, Running
<1>2. ASSUME todo' = todo, at'[t] \in Places,
             PlaceFits(at'[t], todo[t])
      PROVE  Placed(t)'
  <2>1. WellOrdered(todo[t])'
    BY <1>1, <1>2, OrderCarried DEF Placed
  <2>2. PlaceFits(at[t], todo[t])'
    BY <1>2 DEF PlaceFits, Ahead
  <2> QED
    BY <1>1, <1>2, <2>1, <2>2 DEF Placed
<1>3. CASE \/ Head(todo[t]) = "ENV_READ_LOCK" /\ StartReadLock(t) /\ UNCHANGED todo
           \/ Head(todo[t]) = "ENV_READ_UNLOCK" /\ StartReadUnlock(t) /\ UNCHANGED todo
           \/ Head(todo[t]) = "ENV_LOCK" /\ StartWriteLock(t) /\ UNCHANGED todo
  <2>1. /\ todo' = todo /\ \A u \in Threads : u # t => at'[u] = at[u]
        /\ <<Head(todo[t]), at'[t]>> \in
             {<<"ENV_READ_LOCK", "r_lock">>, <<"ENV_READ_UNLOCK", "u_lock">>, <<"ENV_LOCK", "w_lock">>}
    BY <1>3 DEF StartReadLock, StartReadUnlock, StartWriteLock, Begin, TypeOK
  <2>2. at'[t] \in Places /\ PlaceFits(at'[t], todo[t])
    BY <1>1, <2>1 DEF PlaceFits, Places
  <2> QED
    BY <1>1, <1>2, <2>1, <2>2 DEF OthersPlaced
<1>4. CASE MutexLock(t) /\ UNCHANGED todo
  <2>1. /\ <<at[t], at'[t]>> \in {<<"r_lock", "r_inc">>, <<"u_lock", "u_dec">>, <<"w_lock", "w_test">>}
        /\ \A s \in Threads : s # t => at'[s] = at[s]
    BY <1>4 DEF MutexLock, AfterLock, TypeOK, Places
  <2>2. at'[t] \in Places /\ PlaceFits(at'[t], todo[t])
    BY <1>1, <2>1 DEF PlaceFits, Places, Placed
  <2> QED
    BY <1>1, <1>2, <1>4, <2>1, <2>2 DEF OthersPlaced
<1>5. ASSUME Pop(t), Head(todo[t]) \in EnvLocks \cup EnvUnlocks,
             PlaceFits(at'[t], Tail(todo[t])),
             \A u \in Threads : u # t =>
               at'[u] = at[u] \/ (at[u] = "w_wait" /\ at'[u] = "w_lock")
      PROVE  /\ Placed(t)' /\ OthersPlaced(t)
             /\ Popped(t) /\ Head(todo[t]) \in EnvLocks \cup EnvUnlocks
  <2>1. Popped(t)
    BY <1>1, <1>5 DEF Pop, Popped
  <2>2. Placed(t)'
    BY <1>1, <1>5, <2>1, PopPlaced DEF EnvLocks, EnvUnlocks
  <2>3. OthersPlaced(t)
    BY <1>1, <1>5 DEF OthersPlaced, Pop, TypeOK
  <2> QED
    BY <1>5, <2>1, <2>2, <2>3
<1>6. CASE ReadInc(t) /\ Pop(t)
  <2>1. at[t] = "r_inc" /\ at'[t] = "reading" /\ \A u \in Threads : u # t => at'[u] = at[u]
    BY <1>6 DEF ReadInc, TypeOK
  <2>2. Head(todo[t]) = "ENV_READ_LOCK"
    BY <2>1 DEF Placed, PlaceFits
  <2>3. PlaceFits(at'[t], Tail(todo[t]))
    BY <1>1, <2>1, <2>2, PopEnvMacro DEF Placed
  <2> QED
    BY <1>1, <1>5, <1>6, <2>1, <2>2, <2>3 DEF EnvLocks
<1>7. CASE ReadDec(t) /\ Pop(t)
  <2>1. /\ at[t] = "u_dec" /\ at'[t] = "out"
        /\ \A u \in Threads : u # t =>
             at'[u] = at[u] \/ (at[u] = "w_wait" /\ at'[u] = "w_lock")
    <3>1. CASE readers_count - 1 <= 0
      BY <1>7, <3>1, SignalMoves DEF ReadDec, Places, TypeOK
    <3>2. CASE ~(readers_count - 1 <= 0)
      BY <1>7, <3>2 DEF ReadDec, Places, TypeOK
    <3> QED
      BY <3>1, <3>2
  <2>2. Head(todo[t]) = "ENV_READ_UNLOCK"
    BY <2>1 DEF Placed, PlaceFits
  <2>3. PlaceFits(at'[t], Tail(todo[t]))
    BY <1>1, <2>1, <2>2, PopEnvMacro DEF Placed, EnvUnlocks
  <2> QED
    BY <1>1, <1>5, <1>7, <2>1, <2>2, <2>3 DEF EnvUnlocks
<1>8. CASE WriteTest(t) /\ IF at'[t] = "writing" THEN Pop(t) ELSE UNCHANGED todo
  <2>1. /\ at[t] = "w_test" /\ at'[t] \in {"writing", "w_wait"}
        /\ \A u \in Threads : u # t => at'[u] = at[u]
    BY <1>8 DEF WriteTest, TypeOK
  <2>2. Head(todo[t]) = "ENV_LOCK"
    BY <2>1 DEF Placed, PlaceFits
  <2>3. CASE at'[t] = "writing"
    <3>1. PlaceFits(at'[t], Tail(todo[t]))
      BY <1>1, <2>2, <2>3, PopEnvMacro DEF Placed
    <3> QED
      BY <1>1, <1>5, <1>8, <2>1, <2>2, <2>3, <3>1 DEF EnvLocks
  <2>4. CASE at'[t] = "w_wait"
    <3>1. todo' = todo /\ at'[t] \in Places /\ PlaceFits(at'[t], todo[t])
      BY <1>1, <1>8, <2>2, <2>4 DEF PlaceFits, Places
    <3> QED
      BY <1>1, <1>2, <2>1, <3>1 DEF OthersPlaced
  <2> QED
    BY <2>1, <2>3, <2>4
<1>9. CASE Head(todo[t]) = "ENV_UNLOCK" /\ WriteUnlock(t) /\ Pop(t)
  <2>1. /\ at'[t] = "out"
        /\ \A u \in Threads : u # t =>
             at'[u] = at[u] \/ (at[u] = "w_wait" /\ at'[u] = "w_lock")
    BY <1>9, SignalMoves DEF WriteUnlock, Places, TypeOK
  <2>2. PlaceFits(at'[t], Tail(todo[t]))
    BY <1>1, <1>9, <2>1, PopEnvMacro DEF Placed, EnvUnlocks
  <2> QED
    BY <1>1, <1>5, <1>9, <2>1, <2>2 DEF EnvUnlocks
<1> QED
  BY <1>1, <1>3, <1>4, <1>6, <1>7, <1>8, <1>9 DEF EnvStep

(* The other steps inside a section or in front of a bracket.              *)
OtherStep(t) ==
  \/ LocaleLockStep(t) \/ LocaleUnlockStep(t)
  \/ Enter(t) \/ Leave(t) \/ SaveMemLog(t) \/ Allocate(t) \/ ZeroMemLog(t) \/ Toggle(t)

LEMMA OtherStepPops ==
  ASSUME NEW t \in Threads, TypeOK, Placed(t), OtherStep(t)
  PROVE  /\ Popped(t) /\ rwVars' = rwVars /\ conf' = conf
         /\ Head(todo[t]) \notin EnvLocks \cup EnvUnlocks
         /\ Head(todo[t]) = "save" => saved'[t]
         /\ \A u \in Threads : u # t => saved'[u] = saved[u]
<1>1. CASE LocaleLockStep(t)
  BY <1>1 DEF LocaleLockStep, Running, Pop, Popped, numericVars, EnvLocks, EnvUnlocks
<1>2. CASE LocaleUnlockStep(t)
  BY <1>2 DEF LocaleUnlockStep, AtMacro, Running, Pop, Popped, numericVars, EnvLocks, EnvUnlocks
<1>3. CASE Enter(t) \/ Leave(t)
  BY <1>3 DEF Enter, Leave, AtMacro, Running, Pop, Popped, EnvLocks, EnvUnlocks, Kinds
<1>4. CASE SaveMemLog(t) \/ ZeroMemLog(t)
  <2>1. /\ Popped(t) /\ rwVars' = rwVars /\ conf' = conf
        /\ Head(todo[t]) \in {"save", "zero"}
    BY <1>4 DEF SaveMemLog, ZeroMemLog, AtMacro, Running, Pop, Popped
  <2>2. Head(todo[t]) = "save" => saved' = [saved EXCEPT ![t] = TRUE]
    BY <1>4 DEF SaveMemLog, ZeroMemLog, AtMacro
  <2>3. \E v \in BOOLEAN : saved' = [saved EXCEPT ![t] = v]
    BY <1>4 DEF SaveMemLog, ZeroMemLog
  <2>4. saved \in [Threads -> BOOLEAN]
    BY DEF TypeOK
  <2>5. \A u \in Threads : u # t => saved'[u] = saved[u]
    BY <2>3, <2>4
  <2>6. Head(todo[t]) = "save" => saved'[t]
    BY <2>2, <2>4
  <2> QED
    BY <2>1, <2>5, <2>6 DEF EnvLocks, EnvUnlocks
<1>5. CASE Allocate(t)
  <2>1. todo[t] # <<>> /\ Head(todo[t]) = "allocate"
    BY <1>5 DEF Allocate, AtMacro, Running
  <2>2. saved[t]
    BY <2>1 DEF Placed
  <2>3. todo' = [todo EXCEPT ![t] = Tail(@)] /\ saved' = saved /\ rwVars' = rwVars /\ conf' = conf
    BY <1>5, <2>2 DEF Allocate, TypeOK
  <2> QED
    BY <2>1, <2>3 DEF Popped, EnvLocks, EnvUnlocks
<1>6. CASE Toggle(t)
  BY <1>6 DEF Toggle, AtMacro, Running, Pop, Popped, EnvLocks, EnvUnlocks
<1> QED
  BY <1>1, <1>2, <1>3, <1>4, <1>5, <1>6 DEF OtherStep

LEMMA OtherStepPlaced ==
  ASSUME NEW t \in Threads, TypeOK, Placed(t), OtherStep(t)
  PROVE  Placed(t)' /\ OthersPlaced(t)
<1>1. /\ Popped(t) /\ at' = at /\ conf' = conf
      /\ Head(todo[t]) \notin EnvLocks \cup EnvUnlocks
      /\ Head(todo[t]) = "save" => saved'[t]
      /\ \A u \in Threads : u # t => saved'[u] = saved[u]
  BY OtherStepPops DEF rwVars
<1>2. at[t] \in Places /\ todo[t] # <<>>
  BY <1>1 DEF TypeOK, RWTypeOK, Popped
<1>3. PlaceFits(at[t]', Tail(todo[t]))
  BY <1>1, <1>2, PopElsewhere DEF Placed
<1>4. Placed(t)'
  BY <1>1, <1>3, PopPlaced
<1>5. OthersPlaced(t)
  BY <1>1 DEF OthersPlaced, Popped, TypeOK
<1> QED
  BY <1>4, <1>5

(* A thread outside of all macros takes up new ones.                       *)
Begins(t, s) ==
  todo[t] = <<>> /\ todo' = [todo EXCEPT ![t] = s]
    /\ UNCHANGED <<rwVars, conf, localeVars, saved>>

LEMMA BeginsPlaced ==
  ASSUME NEW t \in Threads, TypeOK, Placed(t), NEW s, Begins(t, s), WellOrdered(s),
         PlaceFits("out", s), s = <<>> \/ Head(s) # "allocate"
  PROVE  Placed(t)' /\ OthersPlaced(t)
<1>1. todo'[t] = s /\ conf' = conf /\ at' = at /\ saved' = saved
  BY DEF Begins, TypeOK, rwVars
<1>2. at[t] = "out"
  <2>1. \A m : ~Ahead(todo[t], m)
    BY NothingAhead DEF Begins
  <2> QED
    BY <2>1 DEF Placed, PlaceFits, Begins, TypeOK, RWTypeOK, Places
<1>3. PlaceFits(at[t], todo[t])'
  BY <1>1, <1>2 DEF PlaceFits, Ahead
<1>4. WellOrdered(todo[t])'
  BY <1>1, OrderCarried
<1>5. OthersPlaced(t)
  BY <1>1 DEF OthersPlaced, Begins, TypeOK
<1> QED
  BY <1>1, <1>3, <1>4, <1>5 DEF Placed

LEMMA EmptyFits ==
  /\ WellOrdered(<<>>) /\ LevelsOf(<<>>) = 0
  /\ \A place \in {"out"} : PlaceFits(place, <<>>)
<1>1. Len(<<>>) = 0 /\ <<>> \in Seq(Macros)
  OBVIOUS
<1> QED
  BY <1>1, NothingAhead DEF WellOrdered, Undone, SavesFirst, LevelsOf, PlaceFits

LEMMA BracketFits ==
  /\ WellOrdered(LC_NUMERIC_LOCK \o <<"toggle">>)
  /\ PlaceFits("out", LC_NUMERIC_LOCK \o <<"toggle">>)
  /\ Ahead(LC_NUMERIC_LOCK \o <<"toggle">>, "toggle")
  /\ Head(LC_NUMERIC_LOCK \o <<"toggle">>) # "allocate"
  /\ LevelsOf(LC_NUMERIC_LOCK \o <<"toggle">>) = IF conf.threadSafeLocale THEN 0 ELSE -1
<1>1. "toggle" \in Macros /\ "LC_NUMERIC_LOCK" \in Macros
  BY DEF Macros
<1>2. CASE conf.threadSafeLocale
  <2> DEFINE s == <<"toggle">>
  <2>1. LC_NUMERIC_LOCK \o <<"toggle">> = s
    BY <1>1, <1>2, EmptyConcatenation DEF LC_NUMERIC_LOCK
  <2>2. s \in Seq(Macros) /\ Len(s) = 1 /\ s[1] = "toggle" /\ s # <<>> /\ Head(s) = "toggle"
    BY <1>1
  <2> HIDE DEF s
  <2>3. \A m : Ahead(s, m) <=> m = "toggle"
    BY <2>2 DEF Ahead
  <2>4. WellOrdered(s)
    BY <2>2 DEF WellOrdered, Undone, SavesFirst, FollowedBy
  <2>5. PlaceFits("out", s) /\ LevelsOf(s) = 0
    BY <2>2, <2>3 DEF PlaceFits, EnvUnlocks, LevelsOf
  <2> QED
    BY <1>2, <2>1, <2>2, <2>3, <2>4, <2>5
<1>3. CASE ~conf.threadSafeLocale
  <2> DEFINE s == <<"LC_NUMERIC_LOCK">> \o <<"toggle">>
  <2>1. LC_NUMERIC_LOCK \o <<"toggle">> = s
    BY <1>3 DEF LC_NUMERIC_LOCK
  <2>2. /\ s \in Seq(Macros) /\ Len(s) = 2 /\ s[1] = "LC_NUMERIC_LOCK" /\ s[2] = "toggle"
        /\ s # <<>> /\ Head(s) = "LC_NUMERIC_LOCK"
    BY <1>1
  <2> HIDE DEF s
  <2>3. \A m : Ahead(s, m) <=> m \in {"LC_NUMERIC_LOCK", "toggle"}
    BY <2>2 DEF Ahead
  <2>4. WellOrdered(s)
    BY <1>3, <2>2 DEF WellOrdered, Undone, SavesFirst, FollowedBy, InOrder, EnvLocks, EnvUnlocks
  <2>5. PlaceFits("out", s) /\ LevelsOf(s) = -1
    BY <2>2, <2>3 DEF PlaceFits, EnvUnlocks, LevelsOf
  <2> QED
    BY <1>3, <2>1, <2>2, <2>3, <2>4, <2>5
<1> QED
  BY <1>2, <1>3

LEMMA UnlockFits ==
  /\ WellOrdered(LC_NUMERIC_UNLOCK)
  /\ PlaceFits("out", LC_NUMERIC_UNLOCK)
  /\ ~Ahead(LC_NUMERIC_UNLOCK, "toggle")
  /\ LC_NUMERIC_UNLOCK = <<>> \/ Head(LC_NUMERIC_UNLOCK) # "allocate"
  /\ LevelsOf(LC_NUMERIC_UNLOCK) = IF conf.threadSafeLocale THEN 0 ELSE 1
<1>1. CASE conf.threadSafeLocale
  BY <1>1, EmptyFits, NothingAhead DEF LC_NUMERIC_UNLOCK, LOCALE_UNLOCK
<1>2. CASE ~conf.threadSafeLocale
  <2> DEFINE s == <<"LOCALE_UNLOCK_">>
  <2>1. LC_NUMERIC_UNLOCK = s
    BY <1>2 DEF LC_NUMERIC_UNLOCK, LOCALE_UNLOCK
  <2>2. s \in Seq(Macros) /\ Len(s) = 1 /\ s[1] = "LOCALE_UNLOCK_" /\ s # <<>> /\ Head(s) = "LOCALE_UNLOCK_"
    BY DEF Macros
  <2> HIDE DEF s
  <2>3. \A m : Ahead(s, m) <=> m = "LOCALE_UNLOCK_"
    BY <2>2 DEF Ahead
  <2>4. WellOrdered(s)
    BY <2>2 DEF WellOrdered, Undone, SavesFirst, FollowedBy
  <2>5. PlaceFits("out", s) /\ LevelsOf(s) = 1
    BY <2>2, <2>3 DEF PlaceFits, EnvUnlocks, LevelsOf
  <2> QED
    BY <1>2, <2>1, <2>2, <2>3, <2>4, <2>5
<1> QED
  BY <1>1, <1>2

-----------------------------------------------------------------------------
LEMMA StepOf ==
  ASSUME [Next]_vars
  PROVE  \/ UNCHANGED vars
         \/ \E t \in Threads :
              \/ EnvStep(t) \/ OtherStep(t) \/ EnvSpurious(t)
              \/ \E kind \in Kinds : StartSection(t, kind)
              \/ \E kind \in {"UNDERLYING", "STANDARD"} : OpenBracket(t, kind)
              \/ Disable(t) \/ CloseBracket(t)
<1>1. \A t \in Threads : Sections[t] \subseteq Kinds
  BY SectionsAssumption
<1> QED
  BY <1>1 DEF Next, Step, OtherStep, Ended

(* The bracket macros: what they leave to be run.                          *)
LEMMA BracketSteps ==
  ASSUME NEW t \in Threads, TypeOK
  PROVE  /\ \A kind \in Kinds : StartSection(t, kind) => Begins(t, Code(kind))
         /\ \A kind \in {"UNDERLYING", "STANDARD"} :
              OpenBracket(t, kind) => Begins(t, LC_NUMERIC_LOCK \o <<"toggle">>)
         /\ CloseBracket(t) => \/ Begins(t, LC_NUMERIC_UNLOCK)
                               \/ todo' = todo /\ UNCHANGED <<rwVars, conf, localeVars, saved>>
         /\ Disable(t) => todo' = todo /\ UNCHANGED <<rwVars, conf, localeVars, saved>>
<1>1. \A kind \in Kinds : StartSection(t, kind) => Begins(t, Code(kind))
  BY DEF StartSection, Begins
<1>2. \A kind \in {"UNDERLYING", "STANDARD"} :
        OpenBracket(t, kind) => Begins(t, LC_NUMERIC_LOCK \o <<"toggle">>)
  BY DEF OpenBracket, Begins
<1>3. CloseBracket(t) => \/ Begins(t, LC_NUMERIC_UNLOCK)
                         \/ todo' = todo /\ UNCHANGED <<rwVars, conf, localeVars, saved>>
  BY DEF CloseBracket, Begins
<1>4. Disable(t) => todo' = todo /\ UNCHANGED <<rwVars, conf, localeVars, saved>>
  BY DEF Disable
<1> QED
  BY <1>1, <1>2, <1>3, <1>4

AllPlaced == \A t \in Threads : Placed(t)

LEMMA PlacedInit == Init => AllPlaced
<1> SUFFICES ASSUME Init, NEW t \in Threads PROVE Placed(t)
  BY DEF AllPlaced
<1>1. todo[t] = <<>> /\ at[t] = "out"
  BY DEF Init, RWInit
<1> QED
  BY <1>1, EmptyFits DEF Placed

LEMMA PlacedUnchanged ==
  ASSUME AllPlaced, UNCHANGED <<at, conf, todo, saved>>
  PROVE  AllPlaced'
<1> SUFFICES ASSUME NEW t \in Threads PROVE Placed(t)'
  BY DEF AllPlaced
<1>1. WellOrdered(todo[t])'
  BY OrderCarried DEF AllPlaced, Placed
<1>2. PlaceFits(at[t], todo[t])'
  BY DEF AllPlaced, Placed, PlaceFits, Ahead
<1> QED
  BY <1>1, <1>2 DEF AllPlaced, Placed

LEMMA PlacedKept ==
  ASSUME TypeOK, RWInv, AllPlaced, [Next]_vars
  PROVE  AllPlaced'
<1> USE DEF AllPlaced
<1>1. ASSUME NEW t \in Threads, EnvStep(t) \/ OtherStep(t) PROVE AllPlaced'
  <2>1. Placed(t)' /\ OthersPlaced(t) /\ conf' = conf
    BY <1>1, EnvStepPlaced, OtherStepPlaced, OtherStepPops
  <2> QED
    BY <2>1, OthersKeepPlaced
<1>2. ASSUME NEW t \in Threads, EnvSpurious(t) PROVE AllPlaced'
  <2>1. /\ at[t] = "w_wait" /\ at'[t] = "w_lock" /\ conf' = conf /\ todo' = todo /\ saved' = saved
        /\ \A u \in Threads : u # t => at'[u] = at[u]
    BY <1>2 DEF EnvSpurious, SpuriousWakeup, Begin, TypeOK, RWTypeOK
  <2>2. WellOrdered(todo[t])'
    BY <2>1, OrderCarried DEF Placed
  <2>3. Placed(t)'
    BY <2>1, <2>2 DEF Placed, PlaceFits, Ahead
  <2>4. OthersPlaced(t)
    BY <2>1 DEF OthersPlaced
  <2> QED
    BY <2>1, <2>3, <2>4, OthersKeepPlaced
<1>3. ASSUME NEW t \in Threads, NEW s, Begins(t, s), WellOrdered(s), PlaceFits("out", s),
             s = <<>> \/ Head(s) # "allocate"
      PROVE  AllPlaced'
  <2>1. Placed(t)' /\ OthersPlaced(t) /\ conf' = conf
    BY <1>3, BeginsPlaced DEF Begins
  <2> QED
    BY <2>1, OthersKeepPlaced
<1>4. ASSUME NEW t \in Threads, NEW kind \in Kinds, StartSection(t, kind) PROVE AllPlaced'
  <2>1. Begins(t, Code(kind)) /\ Fresh(Code(kind))
    BY <1>4, BracketSteps, CodeFresh
  <2> QED
    BY <1>3, <2>1 DEF Fresh
<1>5. ASSUME NEW t \in Threads, NEW kind \in {"UNDERLYING", "STANDARD"}, OpenBracket(t, kind)
      PROVE  AllPlaced'
  BY <1>3, <1>5, BracketSteps, BracketFits
<1>6. ASSUME NEW t \in Threads, CloseBracket(t) \/ Disable(t) PROVE AllPlaced'
  <2>1. CASE Begins(t, LC_NUMERIC_UNLOCK)
    BY <1>3, <2>1, UnlockFits
  <2>2. CASE todo' = todo /\ UNCHANGED <<rwVars, conf, localeVars, saved>>
    BY <2>2, PlacedUnchanged DEF rwVars
  <2> QED
    BY <1>6, <2>1, <2>2, BracketSteps
<1>7. CASE UNCHANGED vars
  BY <1>7, PlacedUnchanged DEF vars, rwVars
<1> QED
  BY <1>1, <1>2, <1>4, <1>5, <1>6, <1>7, StepOf

-----------------------------------------------------------------------------
(* What the steps do to the brackets of t: nothing but for five of them.   *)
LEMMA BracketedCarried ==
  ASSUME NEW t \in Threads, Bracketed(t), conf' = conf, Len(brackets[t]) \in Nat, brackets'[t] = brackets[t],
         standard'[t] = standard[t], underlying'[t] = underlying[t],
         Unsettled(todo'[t]) <=> Unsettled(todo[t]),
         NEW n \in Int, depth[t] \in Int, LevelsOf(todo[t]) \in Int,
         depth'[t] = depth[t] + n, LevelsOf(todo'[t]) = LevelsOf(todo[t]) + n
  PROVE  Bracketed(t)'
<1>1. PICK inside \in [0 .. Len(brackets[t]) -> Nat], levels \in [0 .. Len(brackets[t]) -> Nat] :
        /\ Nested(brackets[t], inside, levels)
        /\ Settled(brackets[t], inside, Len(brackets[t]) - 1)
        /\ IF Unsettled(todo[t]) THEN Pending(brackets[t]) ELSE Settled(brackets[t], inside, Len(brackets[t]))
        /\ standard[t] = inside[Len(brackets[t])]
        /\ underlying[t] <=> standard[t] = 0
        /\ depth[t] = (IF conf.threadSafeLocale THEN 0 ELSE levels[Len(brackets[t])]) + LevelsOf(todo[t])
  BY DEF Bracketed
<1>2. /\ Nested(brackets'[t], inside, levels)
      /\ Settled(brackets'[t], inside, Len(brackets'[t]) - 1)
      /\ IF Unsettled(todo'[t]) THEN Pending(brackets'[t]) ELSE Settled(brackets'[t], inside, Len(brackets'[t]))
  BY <1>1
<1>3. depth'[t] = (IF conf'.threadSafeLocale THEN 0 ELSE levels[Len(brackets'[t])]) + LevelsOf(todo'[t])
  <2>1. levels[Len(brackets[t])] \in Nat
    <3>1. Len(brackets[t]) \in 0 .. Len(brackets[t])
      OBVIOUS
    <3> QED
      BY <3>1
  <2>2. CASE conf.threadSafeLocale
    BY <1>1, <2>2
  <2>3. CASE ~conf.threadSafeLocale
    BY <1>1, <2>1, <2>3
  <2> QED
    BY <2>2, <2>3
<1>4. /\ inside \in [0 .. Len(brackets'[t]) -> Nat] /\ levels \in [0 .. Len(brackets'[t]) -> Nat]
      /\ standard'[t] = inside[Len(brackets'[t])] /\ (underlying'[t] <=> standard'[t] = 0)
  BY <1>1
<1> QED
  BY <1>2, <1>3, <1>4 DEF Bracketed

LEMMA LevelsType == \A s : LevelsOf(s) \in Int
BY DEF LevelsOf

LEMMA BracketedByHistory ==
  ASSUME NEW t \in Threads, NEW n \in Nat, NEW inside \in [0 .. n -> Nat], NEW levels \in [0 .. n -> Nat],
         Len(brackets'[t]) = n, Nested(brackets'[t], inside, levels),
         Settled(brackets'[t], inside, n - 1),
         IF Unsettled(todo'[t]) THEN Pending(brackets'[t]) ELSE Settled(brackets'[t], inside, n),
         standard'[t] = inside[n], underlying'[t] <=> standard'[t] = 0,
         depth'[t] = (IF conf'.threadSafeLocale THEN 0 ELSE levels[n]) + LevelsOf(todo'[t])
  PROVE  Bracketed(t)'
BY DEF Bracketed

(* What Bracketed says, with the history of t's brackets by name.          *)
History(t, inside, levels, n) ==
  /\ n = Len(brackets[t]) /\ n \in Nat
  /\ inside \in [0 .. n -> Nat] /\ levels \in [0 .. n -> Nat]
  /\ Nested(brackets[t], inside, levels)
  /\ Settled(brackets[t], inside, n - 1)
  /\ IF Unsettled(todo[t]) THEN Pending(brackets[t]) ELSE Settled(brackets[t], inside, n)
  /\ standard[t] = inside[n] /\ inside[n] \in Nat /\ levels[n] \in Nat
  /\ underlying[t] <=> inside[n] = 0
  /\ depth[t] = (IF conf.threadSafeLocale THEN 0 ELSE levels[n]) + LevelsOf(todo[t])

LEMMA HasHistory ==
  ASSUME NEW t \in Threads, TypeOK, Bracketed(t)
  PROVE  \E inside, levels, n : History(t, inside, levels, n)
<1> DEFINE n == Len(brackets[t])
<1>1. PICK inside \in [0 .. n -> Nat], levels \in [0 .. n -> Nat] :
        /\ Nested(brackets[t], inside, levels)
        /\ Settled(brackets[t], inside, n - 1)
        /\ IF Unsettled(todo[t]) THEN Pending(brackets[t]) ELSE Settled(brackets[t], inside, n)
        /\ standard[t] = inside[n]
        /\ underlying[t] <=> standard[t] = 0
        /\ depth[t] = (IF conf.threadSafeLocale THEN 0 ELSE levels[n]) + LevelsOf(todo[t])
  BY DEF Bracketed
<1>2. n \in Nat
  BY DEF TypeOK
<1> HIDE DEF n
<1>3. inside[n] \in Nat /\ levels[n] \in Nat
  BY <1>2
<1>4. underlying[t] <=> inside[n] = 0
  BY <1>1
<1>5. History(t, inside, levels, n)
  BY <1>1, <1>2, <1>3, <1>4 DEF History, n
<1> QED
  BY <1>5

LEMMA UnsettledTail ==
  ASSUME NEW s, WellOrdered(s), s # <<>>
  PROVE  IF Head(s) = "toggle" THEN Unsettled(s) /\ ~Unsettled(Tail(s))
                               ELSE Unsettled(Tail(s)) <=> Unsettled(s)
<1>1. Ahead(s, "toggle") <=> Head(s) = "toggle" \/ Ahead(Tail(s), "toggle")
  BY AheadTail DEF WellOrdered
<1>2. Ahead(Tail(s), "toggle") => InOrder(Head(s), "toggle")
  BY OrderAtHead
<1> QED
  BY <1>1, <1>2 DEF InOrder, Unsettled

(* Steps in a section or at a lock.                                        *)
LEMMA StepBracketed ==
  ASSUME NEW t \in Threads, TypeOK, RWInv, Placed(t), Bracketed(t),
         EnvStep(t) \/ (OtherStep(t) /\ ~Toggle(t))
  PROVE  /\ Bracketed(t)' /\ numericVars' = numericVars /\ conf' = conf
         /\ \A u \in Threads : u # t => todo'[u] = todo[u] /\ depth'[u] = depth[u]
<1> DEFINE s == todo[t]
<1>1. Len(brackets[t]) \in Nat /\ depth[t] \in Nat
  BY DEF TypeOK
<1>2. numericVars' = numericVars /\ conf' = conf
  BY DEF EnvStep, OtherStep, LocaleLockStep, LocaleUnlockStep, Enter, Leave, SaveMemLog, Allocate, ZeroMemLog
<1>3. brackets' = brackets /\ standard' = standard /\ underlying' = underlying
  BY <1>2 DEF numericVars
<1>4. CASE LocaleLockStep(t)
  <2>1. s # <<>> /\ Head(s) \in {"LOCALE_LOCK_", "LC_NUMERIC_LOCK"} /\ todo' = [todo EXCEPT ![t] = Tail(s)]
    BY <1>4 DEF LocaleLockStep, Running, Pop
  <2>2. depth' = [depth EXCEPT ![t] = depth[t] + 1]
    BY <1>1, <1>4 DEF LocaleLockStep
  <2>3. LevelsOf(todo'[t]) = LevelsOf(s) + 1 /\ (Unsettled(todo'[t]) <=> Unsettled(s))
    BY <2>1, LevelsOfTail, UnsettledTail DEF Placed, TypeOK
  <2>4. depth'[t] = depth[t] + 1 /\ \A u \in Threads : u # t => todo'[u] = todo[u] /\ depth'[u] = depth[u]
    BY <2>1, <2>2 DEF TypeOK
  <2> HIDE DEF s
  <2>5. Bracketed(t)'
    BY <1>1, <1>2, <1>3, <2>3, <2>4, 1 \in Int, BracketedCarried, LevelsType DEF s
  <2> QED
    BY <1>2, <2>4, <2>5
<1>5. CASE LocaleUnlockStep(t)
  <2>1. s # <<>> /\ Head(s) = "LOCALE_UNLOCK_" /\ todo' = [todo EXCEPT ![t] = Tail(s)]
    BY <1>5 DEF LocaleUnlockStep, AtMacro, Running, Pop
  <2>2. LevelsOf(s) = 1
    BY <2>1, AheadTail DEF LevelsOf, Placed, WellOrdered
  <2>3. depth[t] >= 1
    <3>1. PICK inside, levels, n : History(t, inside, levels, n)
      BY HasHistory
    <3> QED
      BY <2>2, <3>1 DEF History
  <2>4. depth' = [depth EXCEPT ![t] = depth[t] - 1]
    <3>1. ~(depth[t] <= 0) /\ depth \in [Threads -> Nat]
      BY <1>1, <2>3 DEF TypeOK
    <3> QED
      BY <1>5, <3>1 DEF LocaleUnlockStep
  <2>5. LevelsOf(todo'[t]) = LevelsOf(s) + -1 /\ (Unsettled(todo'[t]) <=> Unsettled(s))
    <3>1. todo'[t] = Tail(s)
      BY <2>1 DEF TypeOK
    <3>2. LevelsOf(Tail(s)) = LevelsOf(s) + -1
      BY <2>1, LevelsOfTail DEF Placed
    <3>3. Unsettled(Tail(s)) <=> Unsettled(s)
      BY <2>1, UnsettledTail DEF Placed
    <3> QED
      BY <3>1, <3>2, <3>3
  <2>6. depth'[t] = depth[t] + -1 /\ \A u \in Threads : u # t => todo'[u] = todo[u] /\ depth'[u] = depth[u]
    BY <1>1, <2>1, <2>4 DEF TypeOK
  <2> HIDE DEF s
  <2>7. Bracketed(t)'
    BY <1>1, <1>2, <1>3, <2>5, <2>6, -1 \in Int, BracketedCarried, LevelsType DEF s
  <2> QED
    BY <1>2, <2>6, <2>7
<1>6. ASSUME depth' = depth,
             todo' = todo \/ (Popped(t) /\ Head(s) \notin {"LOCALE_LOCK_", "LC_NUMERIC_LOCK", "LOCALE_UNLOCK_", "toggle"})
      PROVE  Bracketed(t)' /\ \A u \in Threads : u # t => todo'[u] = todo[u] /\ depth'[u] = depth[u]
  <2>1. LevelsOf(todo'[t]) = LevelsOf(s) /\ (Unsettled(todo'[t]) <=> Unsettled(s))
    <3>1. CASE todo' = todo
      BY <3>1
    <3>2. CASE Popped(t) /\ Head(s) \notin {"LOCALE_LOCK_", "LC_NUMERIC_LOCK", "LOCALE_UNLOCK_", "toggle"}
      <4>1. todo'[t] = Tail(s) /\ s # <<>>
        BY <3>2 DEF Popped, TypeOK
      <4> QED
        BY <3>2, <4>1, LevelsOfTail, UnsettledTail, LevelsType DEF Placed
    <3> QED
      BY <1>6, <3>1, <3>2
  <2>2. LevelsOf(todo'[t]) = LevelsOf(s) + 0 /\ depth'[t] = depth[t] + 0
    BY <1>1, <1>6, <2>1, LevelsType
  <2>3. Bracketed(t)'
    BY <1>1, <1>2, <1>3, <2>1, <2>2, 0 \in Int, BracketedCarried, LevelsType
  <2> QED
    BY <1>6, <2>3 DEF Popped, TypeOK
<1>7. CASE EnvStep(t)
  <2>1. depth' = depth /\ (todo' = todo \/ (Popped(t) /\ Head(s) \in EnvLocks \cup EnvUnlocks))
    BY <1>7, EnvStepPlaced DEF EnvStep, localeVars
  <2> QED
    BY <1>2, <1>6, <2>1 DEF EnvLocks, EnvUnlocks
<1>8. CASE Enter(t) \/ Leave(t) \/ SaveMemLog(t) \/ Allocate(t) \/ ZeroMemLog(t)
  <2>1. depth' = depth /\ Head(s) \in Kinds \cup {"begin", "save", "allocate", "zero"}
    BY <1>8 DEF Enter, Leave, SaveMemLog, Allocate, ZeroMemLog, localeVars, AtMacro
  <2>2. Popped(t)
    BY <1>8, OtherStepPops DEF OtherStep
  <2> QED
    BY <1>2, <1>6, <2>1, <2>2 DEF Kinds
<1> QED
  BY <1>4, <1>5, <1>7, <1>8 DEF OtherStep

(* The history of the brackets when the innermost one is settled, when one *)
(* is added and when one is taken away.                                    *)
LEMMA NewTop ==
  ASSUME NEW open \in Seq(Bracket), NEW n, n = Len(open), open # <<>>, NEW b \in Bracket,
         NEW open2, open2 = [open EXCEPT ![n] = b]
  PROVE  /\ Len(open2) = n /\ open2 # <<>> /\ open2[n] = b
         /\ \A j \in 1 .. n - 1 : open2[j] = open[j]
OBVIOUS

LEMMA AddedTop ==
  ASSUME NEW open \in Seq(Bracket), NEW n, n = Len(open), NEW b \in Bracket,
         NEW open2, open2 = Append(open, b)
  PROVE  /\ Len(open2) = n + 1 /\ open2 # <<>> /\ open2[n + 1] = b
         /\ \A j \in 1 .. n : open2[j] = open[j]
OBVIOUS

Settles(open, open2, n, inside, after) ==
  /\ n \in Nat /\ n >= 1 /\ Len(open) = n /\ Len(open2) = n
  /\ \A j \in 1 .. n - 1 : open2[j] = open[j]
  /\ open2[n].kind = open[n].kind /\ AsAsked(open[n], after[n])
  /\ \/ open2[n].restore = "no" /\ after[n] = inside[n]
     \/ open2[n].restore = "standard" /\ inside[n] = 1
     \/ open2[n].restore = "underlying" /\ inside[n] = 0
  /\ \A j \in 0 .. n - 1 : after[j] = inside[j]

LEMMA SettledHistory ==
  ASSUME NEW open, NEW open2, NEW n, NEW inside, NEW after, NEW levels,
         Settles(open, open2, n, inside, after),
         Nested(open, inside, levels), Settled(open, inside, n - 1), Pending(open)
  PROVE  Nested(open2, after, levels) /\ Settled(open2, after, n)
<1> USE DEF Settles
<1> DEFINE v == after[n]
<1>1. \A j \in 1 .. n : Fits(open[j], inside[j - 1], inside[j], levels[j - 1], levels[j])
  BY DEF Nested
<1>2. Fits(open[n], inside[n - 1], inside[n], levels[n - 1], levels[n])
  BY <1>1
<1>3. /\ levels[n] >= 1 /\ open[n].kind \in {"UNDERLYING", "STANDARD"}
      /\ levels[n] = levels[n - 1] + 1 /\ inside[n] = inside[n - 1]
  BY <1>2 DEF Fits, Pending
<1>4. Fits(open2[n], inside[n - 1], v, levels[n - 1], levels[n])
  BY <1>3 DEF Fits
<1>5. ASSUME NEW j \in 1 .. n
      PROVE  Fits(open2[j], after[j - 1], after[j], levels[j - 1], levels[j]) /\ AsAsked(open2[j], after[j])
  <2>1. j - 1 \in 0 .. n - 1 /\ (j < n \/ j = n)
    OBVIOUS
  <2>2. after[j - 1] = inside[j - 1]
    BY <2>1
  <2>3. CASE j < n
    <3>1. j \in 0 .. n - 1 /\ j \in 1 .. n - 1
      BY <2>3
    <3>2. after[j] = inside[j] /\ open2[j] = open[j]
      BY <3>1
    <3>3. AsAsked(open[j], inside[j])
      BY <3>1 DEF Settled
    <3> QED
      BY <1>1, <2>2, <3>2, <3>3
  <2>4. CASE j = n
    BY <1>4, <2>2, <2>4 DEF AsAsked
  <2> QED
    BY <2>1, <2>3, <2>4
<1>6. after[0] = 1 /\ levels[0] = 0
  <2>1. 0 \in 0 .. n - 1
    OBVIOUS
  <2> QED
    BY <2>1 DEF Nested
<1> QED
  BY <1>5, <1>6 DEF Nested, Settled

Adds(open, open2, n, inside, levels, in, lev) ==
  /\ n \in Nat /\ Len(open) = n /\ Len(open2) = n + 1
  /\ \A j \in 1 .. n : open2[j] = open[j]
  /\ open2[n + 1].restore = "no"
  /\ inside[n] \in Nat /\ levels[n] \in Nat /\ lev[n + 1] >= 1
  /\ \/ /\ open2[n + 1].kind = "DISABLE" /\ inside[n] >= 1
        /\ in[n + 1] = inside[n] + 1 /\ lev[n + 1] = levels[n]
     \/ /\ open2[n + 1].kind \in {"UNDERLYING", "STANDARD"}
        /\ in[n + 1] = inside[n] /\ lev[n + 1] = levels[n] + 1
  /\ \A j \in 0 .. n : in[j] = inside[j] /\ lev[j] = levels[j]

LEMMA LongerHistory ==
  ASSUME NEW open, NEW open2, NEW n, NEW inside, NEW levels, NEW in, NEW lev,
         Adds(open, open2, n, inside, levels, in, lev),
         Nested(open, inside, levels), Settled(open, inside, n)
  PROVE  Nested(open2, in, lev) /\ Settled(open2, in, n)
<1> USE DEF Adds
<1> DEFINE v == in[n + 1]
           l == lev[n + 1]
<1>1. \A j \in 1 .. n : Fits(open[j], inside[j - 1], inside[j], levels[j - 1], levels[j])
  BY DEF Nested
<1>2. inside[n] \in Nat /\ levels[n] \in Nat
  OBVIOUS
<1>3. Fits(open2[n + 1], inside[n], v, levels[n], l)
  BY <1>2 DEF Fits
<1>4. ASSUME NEW j \in 1 .. n + 1
      PROVE  /\ Fits(open2[j], in[j - 1], in[j], lev[j - 1], lev[j])
             /\ j \in 1 .. n => AsAsked(open2[j], in[j])
  <2>1. j - 1 \in 0 .. n /\ (j <= n \/ j = n + 1)
    OBVIOUS
  <2>2. in[j - 1] = inside[j - 1] /\ lev[j - 1] = levels[j - 1]
    BY <2>1
  <2>3. CASE j <= n
    <3>1. j \in 0 .. n /\ j \in 1 .. n
      BY <2>3
    <3>2. in[j] = inside[j] /\ lev[j] = levels[j] /\ open2[j] = open[j]
      BY <3>1
    <3> QED
      BY <1>1, <2>2, <3>1, <3>2 DEF Settled
  <2>4. CASE j = n + 1
    <3>1. j - 1 = n /\ j \notin 1 .. n
      BY <2>4
    <3> QED
      BY <1>3, <2>2, <2>4, <3>1
  <2> QED
    BY <2>1, <2>3, <2>4
<1>5. in[0] = 1 /\ lev[0] = 0
  <2>1. 0 \in 0 .. n
    OBVIOUS
  <2> QED
    BY <2>1 DEF Nested
<1> QED
  BY <1>4, <1>5 DEF Nested, Settled

Drops(open, open2, n, inside, levels, in, lev) ==
  /\ n \in Nat /\ n >= 1 /\ Len(open) = n /\ Len(open2) = n - 1
  /\ \A j \in 1 .. n - 1 : open2[j] = open[j]
  /\ \A j \in 0 .. n - 1 : in[j] = inside[j] /\ lev[j] = levels[j]

LEMMA ShorterHistory ==
  ASSUME NEW open, NEW open2, NEW n, NEW inside, NEW levels, NEW in, NEW lev,
         Drops(open, open2, n, inside, levels, in, lev),
         Nested(open, inside, levels), Settled(open, inside, n)
  PROVE  Nested(open2, in, lev) /\ Settled(open2, in, n - 1)
<1> USE DEF Drops
<1>1. \A j \in 1 .. n : Fits(open[j], inside[j - 1], inside[j], levels[j - 1], levels[j])
  BY DEF Nested
<1>2. ASSUME NEW j \in 1 .. n - 1
      PROVE  Fits(open2[j], in[j - 1], in[j], lev[j - 1], lev[j]) /\ AsAsked(open2[j], in[j])
  <2>1. j - 1 \in 0 .. n - 1 /\ j \in 0 .. n - 1 /\ j \in 1 .. n
    OBVIOUS
  <2>2. /\ in[j - 1] = inside[j - 1] /\ lev[j - 1] = levels[j - 1]
        /\ in[j] = inside[j] /\ lev[j] = levels[j] /\ open2[j] = open[j]
    BY <2>1
  <2> QED
    BY <1>1, <2>1, <2>2 DEF Settled
<1>3. in[0] = 1 /\ lev[0] = 0
  <2>1. 0 \in 0 .. n - 1
    OBVIOUS
  <2> QED
    BY <2>1 DEF Nested
<1> QED
  BY <1>2, <1>3 DEF Nested, Settled

-----------------------------------------------------------------------------
(* The five steps that change brackets.  The last macro of a STORE.        *)
LEMMA ToggleBracketed ==
  ASSUME NEW t \in Threads, TypeOK, Placed(t), Bracketed(t), Toggle(t)
  PROVE  Bracketed(t)' /\ brackets[t] # <<>>
<1> DEFINE s == todo[t]
           open == brackets[t]
           open2 == brackets'[t]
<1>1. PICK inside, levels, n : History(t, inside, levels, n)
  BY HasHistory
<1>2. s # <<>> /\ Head(s) = "toggle" /\ todo'[t] = Tail(s) /\ depth' = depth /\ conf' = conf
  BY DEF Toggle, AtMacro, Running, Pop, localeVars, TypeOK
<1>3. Unsettled(s) /\ ~Unsettled(todo'[t])
  BY <1>2, UnsettledTail DEF Placed
<1>4. LevelsOf(todo'[t]) = LevelsOf(s)
  BY <1>2, LevelsOfTail, LevelsType DEF Placed
<1>5. /\ n \in Nat /\ Len(open) = n /\ inside \in [0 .. n -> Nat] /\ levels \in [0 .. n -> Nat]
      /\ Nested(open, inside, levels) /\ Settled(open, inside, n - 1) /\ Pending(open)
      /\ standard[t] = inside[n] /\ inside[n] \in Nat /\ (underlying[t] <=> inside[n] = 0)
      /\ depth[t] = (IF conf.threadSafeLocale THEN 0 ELSE levels[n]) + LevelsOf(s)
  BY <1>1, <1>3 DEF History
<1>6. open \in Seq(Bracket) /\ open # <<>> /\ n >= 1
  <2>1. open \in Seq(Bracket)
    BY DEF TypeOK
  <2>2. open # <<>>
    BY <1>5 DEF Pending
  <2> QED
    BY <1>5, <2>1, <2>2
<1>7. Wanted(t) = open[n].kind /\ open[n].kind \in BracketKinds /\ open[n].restore = "no"
  <2>1. open[n] \in Bracket
    BY <1>5, <1>6
  <2> QED
    BY <1>5, <1>6, <2>1 DEF Wanted, Pending, Bracket
<1> DEFINE v == standard'[t]
<1>8. ASSUME v \in Nat, Len(open2) = n, \A j \in 1 .. n - 1 : open2[j] = open[j],
             open2[n].kind = open[n].kind,
             underlying'[t] <=> v = 0,
             \/ open2[n].restore = "no" /\ v = inside[n]
             \/ open2[n].restore = "standard" /\ inside[n] = 1
             \/ open2[n].restore = "underlying" /\ inside[n] = 0,
             AsAsked(open[n], v)
      PROVE  Bracketed(t)'
  <2> DEFINE after == [inside EXCEPT ![n] = v]
  <2>1. after \in [0 .. n -> Nat] /\ after[n] = v /\ \A j \in 0 .. n - 1 : after[j] = inside[j]
    BY <1>5, <1>8
  <2> HIDE DEF after, open2, open, s
  <2>2. Nested(open2, after, levels) /\ Settled(open2, after, n)
    <3>1. Settles(open, open2, n, inside, after)
      BY <1>5, <1>6, <1>8, <2>1 DEF Settles
    <3> QED
      BY <1>5, <3>1, SettledHistory
  <2>3. Settled(open2, after, n - 1)
    BY <1>5, <2>2 DEF Settled
  <2>4. depth'[t] = (IF conf'.threadSafeLocale THEN 0 ELSE levels[n]) + LevelsOf(todo'[t])
    BY <1>2, <1>4, <1>5
  <2>5. standard'[t] = after[n] /\ (underlying'[t] <=> standard'[t] = 0)
    BY <1>8, <2>1
  <2> QED
    BY <1>3, <1>5, <1>8, <2>1, <2>2, <2>3, <2>4, <2>5, BracketedByHistory DEF open2
<1>9. ASSUME NEW r \in {"standard", "underlying"},
             brackets' = [brackets EXCEPT ![t] = [@ EXCEPT ![Len(@)] = [kind |-> Wanted(t), restore |-> r]]]
      PROVE  /\ Len(open2) = n /\ \A j \in 1 .. n - 1 : open2[j] = open[j]
             /\ open2[n].kind = open[n].kind /\ open2[n].restore = r
  <2> DEFINE b == [kind |-> Wanted(t), restore |-> r]
  <2>1. open2 = [open EXCEPT ![n] = b]
    BY <1>5, <1>9 DEF TypeOK
  <2>2. b \in Bracket /\ b.kind = open[n].kind /\ b.restore = r
    BY <1>7 DEF Bracket
  <2> HIDE DEF b, open, open2
  <2> QED
    BY <1>5, <1>6, <2>1, <2>2, NewTop
<1>10. CASE /\ Wanted(t) = "UNDERLYING" /\ NotInUnderlying(t)
            /\ SetNumericUnderlying(t)
            /\ brackets' = [brackets EXCEPT ![t] = [@ EXCEPT ![Len(@)] = [kind |-> Wanted(t), restore |-> "standard"]]]
  <2>1. inside[n] = 1
    BY <1>5, <1>10 DEF NotInUnderlying
  <2>2. standard'[t] = 0 /\ (underlying'[t] <=> 0 = 0)
    BY <1>10 DEF SetNumericUnderlying, TypeOK
  <2>3. AsAsked(open[n], 0)
    BY <1>7, <1>10 DEF AsAsked
  <2>4. /\ Len(open2) = n /\ \A j \in 1 .. n - 1 : open2[j] = open[j]
        /\ open2[n].kind = open[n].kind /\ open2[n].restore = "standard"
    BY <1>9, <1>10
  <2> HIDE DEF open, open2
  <2> QED
    BY <1>6, <1>8, <2>1, <2>2, <2>3, <2>4 DEF open
<1>11. CASE /\ Wanted(t) = "STANDARD" /\ NotInStandard(t)
            /\ SetNumericStandard(t)
            /\ brackets' = [brackets EXCEPT ![t] = [@ EXCEPT ![Len(@)] = [kind |-> Wanted(t), restore |-> "underlying"]]]
  <2>1. inside[n] = 0
    BY <1>5, <1>11 DEF NotInStandard
  <2>2. standard'[t] = 1 /\ (underlying'[t] <=> 1 = 0)
    BY <1>11 DEF SetNumericStandard, TypeOK
  <2>3. AsAsked(open[n], 1)
    BY <1>7, <1>11 DEF AsAsked
  <2>4. /\ Len(open2) = n /\ \A j \in 1 .. n - 1 : open2[j] = open[j]
        /\ open2[n].kind = open[n].kind /\ open2[n].restore = "underlying"
    BY <1>9, <1>11
  <2> HIDE DEF open, open2
  <2> QED
    BY <1>6, <1>8, <2>1, <2>2, <2>3, <2>4 DEF open
<1>12. CASE ~Incompatible(t) /\ UNCHANGED numericVars
  <2>1. AsAsked(open[n], inside[n])
    <3>1. Wanted(t) = "UNDERLYING" => inside[n] # 1
      BY <1>5, <1>12 DEF Incompatible, NotInUnderlying
    <3>2. Wanted(t) # "UNDERLYING" => inside[n] # 0
      BY <1>5, <1>12 DEF Incompatible, NotInStandard
    <3> QED
      BY <1>7, <3>1, <3>2 DEF AsAsked
  <2>2. brackets' = brackets /\ standard' = standard /\ underlying' = underlying
    BY <1>12 DEF numericVars
  <2>3. standard'[t] = inside[n] /\ (underlying'[t] <=> inside[n] = 0)
    BY <1>5, <2>2
  <2>4. open2 = open
    BY <2>2
  <2> HIDE DEF open, open2
  <2> QED
    BY <1>5, <1>6, <1>7, <1>8, <2>1, <2>3, <2>4 DEF open
<1> QED
  BY <1>6, <1>10, <1>11, <1>12 DEF Toggle

(* What a history says outside of all macros.                              *)
LEMMA IdleHistory ==
  ASSUME NEW t \in Threads, TypeOK, todo[t] = <<>>, NEW inside, NEW levels, NEW n,
         History(t, inside, levels, n)
  PROVE  /\ n \in Nat /\ Len(brackets[t]) = n /\ brackets[t] \in Seq(Bracket)
         /\ inside \in [0 .. n -> Nat] /\ levels \in [0 .. n -> Nat]
         /\ Nested(brackets[t], inside, levels) /\ Settled(brackets[t], inside, n)
         /\ inside[n] \in Nat /\ levels[n] \in Nat
         /\ standard[t] = inside[n] /\ (underlying[t] <=> inside[n] = 0)
         /\ depth[t] = IF conf.threadSafeLocale THEN 0 ELSE levels[n]
<1>1. ~Unsettled(todo[t]) /\ LevelsOf(todo[t]) = 0
  BY NothingAhead, EmptyFits DEF Unsettled
<1>2. brackets[t] \in Seq(Bracket)
  BY DEF TypeOK
<1> QED
  BY <1>1, <1>2 DEF History

(* STORE_LC_NUMERIC_... and DISABLE_LC_NUMERIC_CHANGES.                    *)
LEMMA OpenBracketed ==
  ASSUME NEW t \in Threads, TypeOK, Placed(t), Bracketed(t),
         Disable(t) \/ \E kind \in {"UNDERLYING", "STANDARD"} : OpenBracket(t, kind)
  PROVE  Bracketed(t)'
<1> DEFINE open == brackets[t]
           open2 == brackets'[t]
<1>1. PICK inside, levels, n : History(t, inside, levels, n)
  BY HasHistory
<1>2. todo[t] = <<>> /\ depth' = depth /\ conf' = conf
  BY DEF Disable, OpenBracket, localeVars
<1>3. ~Unsettled(todo[t]) /\ LevelsOf(todo[t]) = 0
  BY <1>2, NothingAhead, EmptyFits DEF Unsettled
<1>4. /\ n \in Nat /\ Len(open) = n /\ open \in Seq(Bracket)
      /\ inside \in [0 .. n -> Nat] /\ levels \in [0 .. n -> Nat]
      /\ Nested(open, inside, levels) /\ Settled(open, inside, n)
      /\ inside[n] \in Nat /\ levels[n] \in Nat
      /\ standard[t] = inside[n] /\ (underlying[t] <=> inside[n] = 0)
      /\ depth[t] = IF conf.threadSafeLocale THEN 0 ELSE levels[n]
  BY <1>1, <1>2, IdleHistory
<1>5. ASSUME NEW b \in Bracket, b.restore = "no", open2 = Append(open, b),
             NEW v \in Nat, NEW l \in Nat, l >= 1,
             \/ b.kind = "DISABLE" /\ v = inside[n] + 1 /\ l = levels[n] /\ inside[n] >= 1
             \/ b.kind \in {"UNDERLYING", "STANDARD"} /\ v = inside[n] /\ l = levels[n] + 1,
             standard'[t] = v, underlying'[t] <=> v = 0,
             IF b.kind = "DISABLE" THEN ~Unsettled(todo'[t]) ELSE Unsettled(todo'[t]),
             depth[t] = (IF conf.threadSafeLocale THEN 0 ELSE l) + LevelsOf(todo'[t])
      PROVE  Bracketed(t)'
  <2> DEFINE in  == [j \in 0 .. n + 1 |-> IF j = n + 1 THEN v ELSE inside[j]]
             lev == [j \in 0 .. n + 1 |-> IF j = n + 1 THEN l ELSE levels[j]]
  <2>1. /\ n + 1 \in Nat /\ in \in [0 .. n + 1 -> Nat] /\ lev \in [0 .. n + 1 -> Nat]
        /\ in[n + 1] = v /\ \A j \in 0 .. n : in[j] = inside[j]
        /\ lev[n + 1] = l /\ \A j \in 0 .. n : lev[j] = levels[j]
    BY <1>4
  <2> HIDE DEF in, lev, open, open2
  <2>2. /\ Len(open2) = n + 1 /\ open2 # <<>> /\ open2[n + 1] = b
        /\ \A j \in 1 .. n : open2[j] = open[j]
    <3>1. open \in Seq(Bracket) /\ n = Len(open) /\ open2 = Append(open, b)
      BY <1>4, <1>5
    <3> QED
      BY <3>1, AddedTop
  <2>3. Nested(open2, in, lev) /\ Settled(open2, in, n)
    <3>1. Adds(open, open2, n, inside, levels, in, lev)
      BY <1>4, <1>5, <2>1, <2>2 DEF Adds
    <3> QED
      BY <1>4, <3>1, LongerHistory
  <2>4. IF Unsettled(todo'[t]) THEN Pending(open2) ELSE Settled(open2, in, n + 1)
    <3>1. CASE b.kind = "DISABLE"
      <4>1. v # 0
        BY <1>4, <1>5, <3>1
      <4>2. AsAsked(open2[n + 1], in[n + 1])
        BY <2>1, <2>2, <3>1, <4>1 DEF AsAsked
      <4>3. \A j \in 1 .. n + 1 : j \in 1 .. n \/ j = n + 1
        BY <1>4
      <4> QED
        BY <1>5, <2>3, <3>1, <4>2, <4>3 DEF Settled
    <3>2. CASE b.kind # "DISABLE"
      BY <1>5, <2>2, <3>2 DEF Pending
    <3> QED
      BY <3>1, <3>2
  <2>5. standard'[t] = in[n + 1] /\ (underlying'[t] <=> standard'[t] = 0)
    BY <1>5, <2>1
  <2>6. depth'[t] = (IF conf'.threadSafeLocale THEN 0 ELSE lev[n + 1]) + LevelsOf(todo'[t])
    BY <1>2, <1>5, <2>1
  <2>7. Settled(open2, in, (n + 1) - 1)
    <3>1. (n + 1) - 1 = n
      BY <1>4
    <3> QED
      BY <2>3, <3>1
  <2>8. /\ Len(brackets'[t]) = n + 1 /\ Nested(brackets'[t], in, lev) /\ Settled(brackets'[t], in, (n + 1) - 1)
        /\ IF Unsettled(todo'[t]) THEN Pending(brackets'[t]) ELSE Settled(brackets'[t], in, n + 1)
    BY <2>2, <2>3, <2>4, <2>7 DEF open2
  <2> QED
    BY <2>1, <2>5, <2>6, <2>8, BracketedByHistory
<1>6. CASE Disable(t)
  <2> DEFINE b == [kind |-> "DISABLE", restore |-> "no"]
  <2>1. standard'[t] = inside[n] + 1 /\ inside[n] >= 1 /\ open # <<>>
    BY <1>4, <1>6 DEF Disable, TypeOK
  <2>2. underlying'[t] <=> inside[n] + 1 = 0
    <3>1. ~underlying[t] /\ underlying' = underlying
      BY <1>4, <1>6, <2>1 DEF Disable
    <3> QED
      BY <1>4, <3>1
  <2>3. levels[n] >= 1
    <3>1. n \in 1 .. Len(open)
      BY <1>4, <2>1
    <3> QED
      BY <1>4, <3>1 DEF Nested, Fits
  <2>4. open2 = Append(open, b) /\ todo' = todo
    BY <1>6 DEF Disable, TypeOK
  <2>5. ~Unsettled(todo'[t])
    BY <1>3, <2>4
  <2>6. depth[t] = (IF conf.threadSafeLocale THEN 0 ELSE levels[n]) + LevelsOf(todo'[t])
    BY <1>3, <1>4, <2>4
  <2>7. inside[n] + 1 \in Nat /\ b \in Bracket /\ b.kind = "DISABLE" /\ b.restore = "no"
    BY <1>4 DEF BracketKinds, Bracket
  <2> HIDE DEF b, open, open2
  <2> QED
    BY <1>4, <1>5, <2>1, <2>2, <2>3, <2>4, <2>5, <2>6, <2>7
<1>7. ASSUME NEW kind \in {"UNDERLYING", "STANDARD"}, OpenBracket(t, kind) PROVE Bracketed(t)'
  <2> DEFINE b == [kind |-> kind, restore |-> "no"]
  <2>1. open2 = Append(open, b) /\ standard' = standard /\ underlying' = underlying
    BY <1>7 DEF OpenBracket, TypeOK
  <2>2. todo'[t] = LC_NUMERIC_LOCK \o <<"toggle">>
    BY <1>7 DEF OpenBracket, TypeOK
  <2>3. Unsettled(todo'[t]) /\ LevelsOf(todo'[t]) = IF conf.threadSafeLocale THEN 0 ELSE -1
    <3>1. Ahead(LC_NUMERIC_LOCK \o <<"toggle">>, "toggle")
      BY BracketFits
    <3>2. LevelsOf(LC_NUMERIC_LOCK \o <<"toggle">>) = IF conf.threadSafeLocale THEN 0 ELSE -1
      BY BracketFits
    <3> QED
      BY <2>2, <3>1, <3>2 DEF Unsettled
  <2>4. depth[t] = (IF conf.threadSafeLocale THEN 0 ELSE levels[n] + 1) + LevelsOf(todo'[t])
    BY <1>4, <2>3
  <2>5. standard'[t] = inside[n] /\ (underlying'[t] <=> inside[n] = 0)
    BY <1>4, <2>1
  <2>6. /\ b \in Bracket /\ b.kind \in {"UNDERLYING", "STANDARD"} /\ b.restore = "no" /\ b.kind # "DISABLE"
        /\ levels[n] + 1 \in Nat /\ levels[n] + 1 >= 1
    BY <1>4 DEF BracketKinds, Bracket
  <2> HIDE DEF b, open, open2
  <2> QED
    BY <1>4, <1>5, <2>1, <2>3, <2>4, <2>5, <2>6
<1> QED
  BY <1>6, <1>7

(* RESTORE_LC_NUMERIC and REENABLE_LC_NUMERIC_CHANGES.                     *)
LEMMA CloseBracketed ==
  ASSUME NEW t \in Threads, TypeOK, Placed(t), Bracketed(t), CloseBracket(t)
  PROVE  Bracketed(t)'
<1> DEFINE open == brackets[t]
           open2 == brackets'[t]
           top == open[Len(open)]
<1>1. PICK inside, levels, n : History(t, inside, levels, n)
  BY HasHistory
<1>2. todo[t] = <<>> /\ depth' = depth /\ conf' = conf /\ open # <<>>
  BY DEF CloseBracket, localeVars
<1>3. ~Unsettled(todo[t]) /\ LevelsOf(todo[t]) = 0
  BY <1>2, NothingAhead, EmptyFits DEF Unsettled
<1>4. /\ n \in Nat /\ Len(open) = n /\ open \in Seq(Bracket)
      /\ inside \in [0 .. n -> Nat] /\ levels \in [0 .. n -> Nat]
      /\ Nested(open, inside, levels) /\ Settled(open, inside, n)
      /\ inside[n] \in Nat /\ levels[n] \in Nat
      /\ standard[t] = inside[n] /\ (underlying[t] <=> inside[n] = 0)
      /\ depth[t] = IF conf.threadSafeLocale THEN 0 ELSE levels[n]
  BY <1>1, <1>2, IdleHistory
<1>5. n >= 1 /\ inside[n - 1] \in Nat /\ levels[n - 1] \in Nat
  <2>1. n >= 1 /\ n - 1 \in 0 .. n
    BY <1>2, <1>4
  <2> QED
    BY <1>4, <2>1
<1>6. \/ top.kind = "DISABLE" /\ inside[n] = inside[n - 1] + 1 /\ levels[n] = levels[n - 1] /\ inside[n - 1] >= 1
      \/ /\ top.kind # "DISABLE" /\ levels[n] = levels[n - 1] + 1
         /\ top.restore = "no" => inside[n] = inside[n - 1]
         /\ top.restore = "standard" => inside[n - 1] = 1
         /\ top.restore = "underlying" => inside[n - 1] = 0
  <2>1. n \in 1 .. Len(open) /\ top = open[n]
    BY <1>4, <1>5
  <2>2. Fits(top, inside[n - 1], inside[n], levels[n - 1], levels[n])
    BY <1>4, <2>1 DEF Nested
  <2> HIDE DEF top
  <2> QED
    BY <2>2 DEF Fits
<1>7. open2 = SubSeq(open, 1, n - 1)
  BY <1>4 DEF CloseBracket, TypeOK
<1>8. Len(open2) = n - 1 /\ \A j \in 1 .. n - 1 : open2[j] = open[j]
  BY <1>4, <1>5, <1>7
<1>9. ASSUME standard'[t] = inside[n - 1], underlying'[t] <=> inside[n - 1] = 0,
             ~Unsettled(todo'[t]),
             depth[t] = (IF conf.threadSafeLocale THEN 0 ELSE levels[n - 1]) + LevelsOf(todo'[t])
      PROVE  Bracketed(t)'
  <2> DEFINE in  == [j \in 0 .. n - 1 |-> inside[j]]
             lev == [j \in 0 .. n - 1 |-> levels[j]]
  <2>1. /\ n - 1 \in Nat /\ in \in [0 .. n - 1 -> Nat] /\ lev \in [0 .. n - 1 -> Nat]
        /\ \A j \in 0 .. n - 1 : in[j] = inside[j] /\ lev[j] = levels[j]
    BY <1>4, <1>5
  <2> HIDE DEF in, lev, open, open2, top
  <2>2. Nested(open2, in, lev) /\ Settled(open2, in, n - 1)
    <3>1. Drops(open, open2, n, inside, levels, in, lev)
      BY <1>4, <1>5, <1>8, <2>1 DEF Drops
    <3> QED
      BY <1>4, <3>1, ShorterHistory
  <2>3. in[n - 1] = inside[n - 1] /\ lev[n - 1] = levels[n - 1]
    BY <2>1
  <2>4. standard'[t] = in[n - 1] /\ (underlying'[t] <=> standard'[t] = 0)
    BY <1>9, <2>3
  <2>5. depth'[t] = (IF conf'.threadSafeLocale THEN 0 ELSE lev[n - 1]) + LevelsOf(todo'[t])
    BY <1>2, <1>9, <2>3
  <2>6. Settled(open2, in, (n - 1) - 1)
    BY <2>1, <2>2 DEF Settled
  <2>7. /\ Len(brackets'[t]) = n - 1 /\ Nested(brackets'[t], in, lev) /\ Settled(brackets'[t], in, (n - 1) - 1)
        /\ IF Unsettled(todo'[t]) THEN Pending(brackets'[t]) ELSE Settled(brackets'[t], in, n - 1)
    BY <1>8, <1>9, <2>2, <2>6 DEF open2
  <2> QED
    BY <2>1, <2>4, <2>5, <2>7, BracketedByHistory
<1>10. CASE top.kind = "DISABLE"
  <2>1. todo' = todo /\ underlying' = underlying /\ standard' = [standard EXCEPT ![t] = IF @ > 1 THEN @ - 1 ELSE @]
    BY <1>10 DEF CloseBracket
  <2>2. standard'[t] = inside[n - 1]
    <3>1. standard \in [Threads -> Nat] /\ inside[n] > 1 /\ inside[n] - 1 = inside[n - 1]
      BY <1>4, <1>5, <1>6, <1>10 DEF TypeOK
    <3> QED
      BY <1>4, <2>1, <3>1
  <2>3. underlying'[t] <=> inside[n - 1] = 0
    <3>1. inside[n] # 0 /\ inside[n - 1] # 0
      BY <1>4, <1>5, <1>6, <1>10
    <3> QED
      BY <1>4, <2>1, <3>1
  <2>4. depth[t] = (IF conf.threadSafeLocale THEN 0 ELSE levels[n - 1]) + LevelsOf(todo'[t])
    BY <1>3, <1>4, <1>5, <1>6, <1>10, <2>1
  <2> QED
    BY <1>3, <1>9, <2>1, <2>2, <2>3, <2>4
<1>11. CASE top.kind # "DISABLE"
  <2>1. /\ todo' = [todo EXCEPT ![t] = LC_NUMERIC_UNLOCK]
        /\ \/ top.restore = "standard" /\ SetNumericStandard(t)
           \/ top.restore = "underlying" /\ SetNumericUnderlying(t)
           \/ top.restore = "no" /\ UNCHANGED <<standard, underlying, actual>>
    BY <1>11 DEF CloseBracket
  <2>2. standard'[t] = inside[n - 1] /\ (underlying'[t] <=> inside[n - 1] = 0)
    <3>1. CASE top.restore = "standard" /\ SetNumericStandard(t)
      <4>1. inside[n - 1] = 1
        BY <1>6, <1>11, <3>1
      <4>2. standard'[t] = 1 /\ ~underlying'[t]
        BY <3>1 DEF SetNumericStandard, TypeOK
      <4> QED
        BY <4>1, <4>2
    <3>2. CASE top.restore = "underlying" /\ SetNumericUnderlying(t)
      <4>1. inside[n - 1] = 0
        BY <1>6, <1>11, <3>2
      <4>2. standard'[t] = 0 /\ underlying'[t]
        BY <3>2 DEF SetNumericUnderlying, TypeOK
      <4> QED
        BY <4>1, <4>2
    <3>3. CASE top.restore = "no" /\ UNCHANGED <<standard, underlying, actual>>
      <4>1. inside[n - 1] = inside[n]
        BY <1>6, <1>11, <3>3
      <4> QED
        BY <1>4, <3>3, <4>1
    <3> QED
      BY <2>1, <3>1, <3>2, <3>3
  <2>3. todo'[t] = LC_NUMERIC_UNLOCK
    BY <2>1 DEF TypeOK
  <2>4. ~Unsettled(todo'[t]) /\ LevelsOf(todo'[t]) = IF conf.threadSafeLocale THEN 0 ELSE 1
    BY <2>3, UnlockFits DEF Unsettled
  <2>5. depth[t] = (IF conf.threadSafeLocale THEN 0 ELSE levels[n - 1]) + LevelsOf(todo'[t])
    BY <1>4, <1>5, <1>6, <1>11, <2>4
  <2> QED
    BY <1>9, <2>2, <2>4, <2>5
<1> QED
  BY <1>10, <1>11

AllBracketed == \A t \in Threads : Bracketed(t)

LEMMA BracketedInit == Init => AllBracketed
<1> SUFFICES ASSUME Init, NEW t \in Threads PROVE Bracketed(t)
  BY DEF AllBracketed
<1> DEFINE inside == [j \in 0 .. 0 |-> 1]
           levels == [j \in 0 .. 0 |-> 0]
<1>1. /\ brackets[t] = <<>> /\ todo[t] = <<>> /\ standard[t] = 1 /\ ~underlying[t] /\ depth[t] = 0
      /\ Len(brackets[t]) = 0
  BY DEF Init
<1>2. inside \in [0 .. 0 -> Nat] /\ levels \in [0 .. 0 -> Nat] /\ inside[0] = 1 /\ levels[0] = 0
  OBVIOUS
<1>3. ~Unsettled(todo[t]) /\ LevelsOf(todo[t]) = 0
  BY <1>1, NothingAhead, EmptyFits DEF Unsettled
<1> HIDE DEF inside, levels
<1>4. /\ Nested(brackets[t], inside, levels) /\ Settled(brackets[t], inside, 0)
      /\ Settled(brackets[t], inside, 0 - 1)
  BY <1>1, <1>2 DEF Nested, Settled
<1> QED
  BY <1>1, <1>2, <1>3, <1>4 DEF Bracketed

(* A step of t leaves the brackets of the other threads alone.             *)
SparesOthers(t) ==
  /\ conf' = conf
  /\ \A u \in Threads : u # t =>
       /\ todo'[u] = todo[u] /\ depth'[u] = depth[u] /\ brackets'[u] = brackets[u]
       /\ standard'[u] = standard[u] /\ underlying'[u] = underlying[u]

LEMMA SameBracketed ==
  ASSUME NEW t \in Threads, TypeOK, Bracketed(t), conf' = conf, brackets'[t] = brackets[t],
         standard'[t] = standard[t], underlying'[t] = underlying[t], depth'[t] = depth[t],
         Unsettled(todo'[t]) <=> Unsettled(todo[t]), LevelsOf(todo'[t]) = LevelsOf(todo[t])
  PROVE  Bracketed(t)'
<1>1. Len(brackets[t]) \in Nat /\ depth[t] \in Int
  BY DEF TypeOK
<1>2. LevelsOf(todo[t]) \in Int /\ LevelsOf(todo'[t]) = LevelsOf(todo[t]) + 0 /\ depth'[t] = depth[t] + 0
  BY <1>1, LevelsType
<1> QED
  BY <1>1, <1>2, 0 \in Int, BracketedCarried

LEMMA OthersKeepBracketed ==
  ASSUME NEW t \in Threads, TypeOK, AllBracketed, SparesOthers(t), Bracketed(t)'
  PROVE  AllBracketed'
<1> SUFFICES ASSUME NEW u \in Threads, u # t PROVE Bracketed(u)'
  BY DEF AllBracketed
<1> QED
  BY SameBracketed DEF SparesOthers, AllBracketed

LEMMA BracketMacrosSpareOthers ==
  ASSUME NEW t \in Threads, TypeOK,
         \/ Toggle(t) \/ Disable(t) \/ CloseBracket(t)
         \/ \E kind \in {"UNDERLYING", "STANDARD"} : OpenBracket(t, kind)
         \/ \E kind \in Kinds : StartSection(t, kind)
  PROVE  SparesOthers(t)
<1> USE DEF SparesOthers, TypeOK, localeVars, numericVars
<1>1. CASE Toggle(t)
  BY <1>1 DEF Toggle, SetNumericStandard, SetNumericUnderlying, Pop
<1>2. CASE Disable(t)
  BY <1>2 DEF Disable
<1>3. CASE CloseBracket(t)
  BY <1>3 DEF CloseBracket, SetNumericStandard, SetNumericUnderlying
<1>4. ASSUME NEW kind \in {"UNDERLYING", "STANDARD"}, OpenBracket(t, kind) PROVE SparesOthers(t)
  BY <1>4 DEF OpenBracket
<1>5. ASSUME NEW kind \in Kinds, StartSection(t, kind) PROVE SparesOthers(t)
  BY <1>5 DEF StartSection
<1> QED
  BY <1>1, <1>2, <1>3, <1>4, <1>5

LEMMA BracketedKept ==
  ASSUME TypeOK, RWInv, AllPlaced, AllBracketed, [Next]_vars
  PROVE  AllBracketed'
<1> USE DEF AllPlaced, AllBracketed
<1>1. ASSUME NEW t \in Threads, EnvStep(t) \/ (OtherStep(t) /\ ~Toggle(t)) PROVE AllBracketed'
  <2>1. /\ Bracketed(t)' /\ numericVars' = numericVars /\ conf' = conf
        /\ \A u \in Threads : u # t => todo'[u] = todo[u] /\ depth'[u] = depth[u]
    BY <1>1, StepBracketed
  <2>2. SparesOthers(t)
    BY <2>1 DEF SparesOthers, numericVars
  <2> QED
    BY <2>1, <2>2, OthersKeepBracketed
<1>2. CASE UNCHANGED <<conf, todo, localeVars, numericVars>>
  BY <1>2, SameBracketed DEF localeVars, numericVars
<1>3. ASSUME NEW t \in Threads, NEW kind \in Kinds, StartSection(t, kind) PROVE AllBracketed'
  <2>1. /\ todo[t] = <<>> /\ todo'[t] = Code(kind) /\ Fresh(Code(kind))
        /\ conf' = conf /\ depth' = depth /\ numericVars' = numericVars
    BY <1>3, CodeFresh DEF StartSection, localeVars, TypeOK
  <2>2. Unsettled(todo'[t]) <=> Unsettled(todo[t])
    BY <2>1, NothingAhead DEF Unsettled, Fresh
  <2>3. LevelsOf(todo'[t]) = LevelsOf(todo[t])
    BY <2>1, EmptyFits DEF Fresh
  <2>4. Bracketed(t)'
    BY <2>1, <2>2, <2>3, SameBracketed DEF numericVars
  <2> QED
    BY <1>3, <2>4, BracketMacrosSpareOthers, OthersKeepBracketed
<1>4. ASSUME NEW t \in Threads,
             \/ Toggle(t) \/ Disable(t) \/ CloseBracket(t)
             \/ \E kind \in {"UNDERLYING", "STANDARD"} : OpenBracket(t, kind)
      PROVE  AllBracketed'
  <2>1. Bracketed(t)'
    BY <1>4, ToggleBracketed, OpenBracketed, CloseBracketed
  <2> QED
    BY <1>4, <2>1, BracketMacrosSpareOthers, OthersKeepBracketed
<1>5. ASSUME NEW t \in Threads, EnvSpurious(t) PROVE AllBracketed'
  BY <1>2, <1>5 DEF EnvSpurious
<1>6. CASE UNCHANGED vars
  BY <1>2, <1>6 DEF vars
<1> QED
  BY <1>1, <1>3, <1>4, <1>5, <1>6, StepOf

-----------------------------------------------------------------------------
(* The locale libc works in: with one locale for all threads it is the one *)
(* the owner of the lock asked for, and "C" while there is no owner.       *)

(* What the depth of the lock says of the brackets.                        *)
LEMMA LockLevels ==
  ASSUME NEW t \in Threads, TypeOK, LocaleOwned, Placed(t), Bracketed(t), ~conf.threadSafeLocale
  PROVE  /\ todo[t] = <<>> /\ brackets[t] # <<>> => localeLock = t
         /\ todo[t] # <<>> /\ Head(todo[t]) = "toggle" => localeLock = t
         /\ /\ todo[t] # <<>>
            /\ \/ Head(todo[t]) \in {"LOCALE_LOCK_", "LC_NUMERIC_LOCK"} /\ depth[t] <= 0
               \/ Head(todo[t]) = "LOCALE_UNLOCK_" /\ depth[t] = 1
            => standard[t] = 1
         /\ todo[t] # <<>> /\ Head(todo[t]) = "LOCALE_UNLOCK_" => localeLock = t
<1> DEFINE open == brackets[t]
           s == todo[t]
<1>1. PICK inside, levels, n : History(t, inside, levels, n)
  BY HasHistory
<1>2. /\ n \in Nat /\ Len(open) = n /\ inside[0] = 1 /\ levels[0] = 0
      /\ \A j \in 1 .. n : Fits(open[j], inside[j - 1], inside[j], levels[j - 1], levels[j])
      /\ standard[t] = inside[n] /\ levels[n] \in Nat /\ depth[t] = levels[n] + LevelsOf(s)
      /\ Unsettled(s) => Pending(open)
  BY <1>1 DEF History, Nested
<1>3. open \in Seq(Bracket) /\ depth[t] \in Nat /\ (depth[t] > 0 <=> localeLock = t)
  BY DEF TypeOK, LocaleOwned
<1>4. n # 0 => levels[n] >= 1
  <2>1. n # 0 => n \in 1 .. n
    BY <1>2
  <2> QED
    BY <1>2, <2>1 DEF Fits
<1>5. CASE s = <<>>
  <2>1. LevelsOf(s) = 0
    BY <1>5, EmptyFits
  <2>2. open # <<>> => n # 0
    BY <1>2, <1>3
  <2> QED
    BY <1>2, <1>3, <1>4, <1>5, <2>1, <2>2
<1>6. CASE s # <<>> /\ Head(s) = "toggle"
  <2>1. LevelsOf(s) >= 0
    BY <1>6 DEF LevelsOf
  <2>2. Unsettled(s)
    BY <1>6, UnsettledTail DEF Placed
  <2>3. n # 0
    <3>1. open # <<>>
      BY <1>2, <2>2 DEF Pending
    <3> QED
      BY <1>2, <1>3, <3>1
  <2>4. depth[t] > 0
    BY <1>2, <1>3, <1>4, <2>1, <2>3, LevelsType
  <2> QED
    BY <1>3, <1>6, <2>4
<1>7. CASE s # <<>> /\ Head(s) = "LOCALE_LOCK_"
  <2>1. LevelsOf(s) = 0
    BY <1>7 DEF LevelsOf
  <2>2. depth[t] <= 0 => n = 0
    BY <1>2, <1>3, <1>4, <2>1
  <2> QED
    BY <1>2, <1>7, <2>2
<1>8. CASE s # <<>> /\ Head(s) = "LOCALE_UNLOCK_"
  <2>1. Ahead(s, "LOCALE_UNLOCK_")
    BY <1>8, AheadTail DEF Placed, WellOrdered
  <2>2. LevelsOf(s) = 1
    BY <1>8, <2>1 DEF LevelsOf
  <2>3. depth[t] > 0 /\ (depth[t] = 1 => n = 0)
    BY <1>2, <1>3, <1>4, <2>2
  <2> QED
    BY <1>2, <1>3, <1>8, <2>3
<1>9. CASE s # <<>> /\ Head(s) = "LC_NUMERIC_LOCK"
  <2>1. LevelsOf(s) = -1
    BY <1>9 DEF LevelsOf
  <2>2. Unsettled(s)
    <3>1. Ahead(Tail(s), "toggle")
      BY <1>9, OrderAtHead DEF Placed
    <3> QED
      BY <1>9, <3>1, AheadTail DEF Unsettled, Placed, WellOrdered
  <2>3. Pending(open) /\ n # 0
    <3>1. Pending(open)
      BY <1>2, <2>2
    <3> QED
      BY <1>2, <1>3, <3>1 DEF Pending
  <2>4. levels[n] = levels[n - 1] + 1 /\ inside[n] = inside[n - 1]
    <3>1. Fits(open[n], inside[n - 1], inside[n], levels[n - 1], levels[n])
      BY <1>2, <2>3
    <3>2. open[n].kind # "DISABLE" /\ open[n].restore = "no"
      BY <1>2, <2>3 DEF Pending
    <3> QED
      BY <3>1, <3>2 DEF Fits
  <2>5. CASE n = 1
    BY <1>2, <1>9, <2>4, <2>5
  <2>6. CASE n # 1
    <3>1. n - 1 \in 1 .. n
      BY <1>2, <2>3, <2>6
    <3>2. Fits(open[n - 1], inside[(n - 1) - 1], inside[n - 1], levels[(n - 1) - 1], levels[n - 1])
      BY <1>2, <3>1
    <3>3. levels[n - 1] >= 1
      BY <3>2 DEF Fits
    <3>4. levels[n - 1] \in Nat
      <4>1. n - 1 \in 0 .. n /\ levels \in [0 .. n -> Nat]
        BY <1>1, <3>1 DEF History
      <4> QED
        BY <4>1
    <3>5. ~(depth[t] <= 0)
      BY <1>2, <1>3, <2>1, <2>4, <3>3, <3>4
    <3> QED
      BY <1>9, <3>5
  <2> QED
    BY <2>5, <2>6
<1> QED
  BY <1>5, <1>6, <1>7, <1>8, <1>9

LEMMA SameActual ==
  ASSUME ActualKnown, conf' = conf, actual' = actual, localeLock' = localeLock,
         \A u \in Threads : LocaleIn(u)' = LocaleIn(u)
  PROVE  ActualKnown'
BY DEF ActualKnown

LEMMA SetKnown ==
  ASSUME NEW t \in Threads, TypeOK, ActualKnown, SetNumericStandard(t) \/ SetNumericUnderlying(t),
         conf' = conf, localeLock' = localeLock, ~conf.threadSafeLocale => localeLock = t
  PROVE  ActualKnown'
<1>1. PICK l \in {"C", "underlying"} :
        /\ actual' = [u \in Threads |-> IF u = t \/ ~conf.threadSafeLocale THEN l ELSE actual[u]]
        /\ standard' = [standard EXCEPT ![t] = IF l = "C" THEN 1 ELSE 0]
  BY DEF SetNumericStandard, SetNumericUnderlying, SetActual
<1>2. LocaleIn(t)' = l /\ \A u \in Threads : u # t => LocaleIn(u)' = LocaleIn(u)
  BY <1>1 DEF LocaleIn, TypeOK
<1>3. CASE conf.threadSafeLocale
  BY <1>1, <1>2, <1>3 DEF ActualKnown
<1>4. CASE ~conf.threadSafeLocale
  BY <1>1, <1>2, <1>4, NoThreadAssumption DEF ActualKnown
<1> QED
  BY <1>3, <1>4

LEMMA ActualKept ==
  ASSUME TypeOK, LocaleOwned, AllPlaced, AllBracketed, ActualKnown, [Next]_vars
  PROVE  ActualKnown'
<1> USE DEF AllPlaced, AllBracketed
<1>1. CASE UNCHANGED <<conf, localeVars, numericVars>>
  BY <1>1, SameActual DEF localeVars, numericVars, LocaleIn
<1>2. ASSUME NEW t \in Threads, EnvStep(t) \/ EnvSpurious(t) PROVE ActualKnown'
  BY <1>1, <1>2 DEF EnvStep, EnvSpurious
<1>3. ASSUME NEW t \in Threads, LocaleLockStep(t) PROVE ActualKnown'
  <2>1. conf' = conf /\ actual' = actual /\ standard' = standard /\ todo[t] # <<>>
        /\ Head(todo[t]) \in {"LOCALE_LOCK_", "LC_NUMERIC_LOCK"}
    BY <1>3 DEF LocaleLockStep, numericVars, Running
  <2>2. CASE localeLock' = localeLock
    BY <2>1, <2>2, SameActual DEF LocaleIn
  <2>3. CASE depth[t] <= 0 /\ localeLock = NoThread /\ localeLock' = t
    <3>1. ~conf.threadSafeLocale => LocaleIn(t)' = "C"
      BY <2>1, <2>3, LockLevels DEF LocaleIn
    <3>2. \A u \in Threads : LocaleIn(u)' = LocaleIn(u)
      BY <2>1 DEF LocaleIn
    <3> QED
      BY <2>1, <2>3, <3>1, <3>2, NoThreadAssumption DEF ActualKnown
  <2> QED
    BY <1>3, <2>2, <2>3 DEF LocaleLockStep
<1>4. ASSUME NEW t \in Threads, LocaleUnlockStep(t) PROVE ActualKnown'
  <2>1. conf' = conf /\ actual' = actual /\ standard' = standard /\ todo[t] # <<>>
        /\ Head(todo[t]) = "LOCALE_UNLOCK_"
        /\ localeLock' = IF depth[t] = 1 THEN NoThread ELSE localeLock
    BY <1>4 DEF LocaleUnlockStep, numericVars, Running, AtMacro
  <2>2. CASE depth[t] # 1
    BY <2>1, <2>2, SameActual DEF LocaleIn
  <2>3. CASE depth[t] = 1
    <3>1. ~conf.threadSafeLocale => LocaleIn(t) = "C" /\ localeLock = t
      BY <2>1, <2>3, LockLevels DEF LocaleIn
    <3>2. \A u \in Threads : LocaleIn(u)' = LocaleIn(u)
      BY <2>1 DEF LocaleIn
    <3> QED
      BY <2>1, <2>3, <3>1, <3>2, NoThreadAssumption DEF ActualKnown
  <2> QED
    BY <2>2, <2>3
<1>5. ASSUME NEW t \in Threads, Enter(t) \/ Leave(t) \/ SaveMemLog(t) \/ Allocate(t) \/ ZeroMemLog(t)
      PROVE  ActualKnown'
  BY <1>1, <1>5 DEF Enter, Leave, SaveMemLog, Allocate, ZeroMemLog
<1>6. ASSUME NEW t \in Threads, Toggle(t) PROVE ActualKnown'
  <2>1. /\ todo[t] # <<>> /\ Head(todo[t]) = "toggle" /\ UNCHANGED <<conf, localeVars>>
        /\ SetNumericStandard(t) \/ SetNumericUnderlying(t) \/ UNCHANGED numericVars
    BY <1>6 DEF Toggle, AtMacro, Running
  <2>2. ~conf.threadSafeLocale => localeLock = t
    BY <2>1, LockLevels
  <2> QED
    BY <1>1, <2>1, <2>2, SetKnown DEF localeVars
<1>7. ASSUME NEW t \in Threads, NEW kind, StartSection(t, kind) \/ OpenBracket(t, kind)
      PROVE  ActualKnown'
  BY <1>7, SameActual DEF StartSection, OpenBracket, localeVars, numericVars, LocaleIn
<1>8. ASSUME NEW t \in Threads, UNCHANGED <<conf, localeVars, actual>>,
             \E k \in Nat : standard' = [standard EXCEPT ![t] = k] /\ (k = 0 <=> standard[t] = 0)
      PROVE  ActualKnown'
  <2>1. \A u \in Threads : LocaleIn(u)' = LocaleIn(u)
    BY <1>8 DEF LocaleIn, TypeOK
  <2> QED
    BY <1>8, <2>1, SameActual DEF localeVars
<1>9. ASSUME NEW t \in Threads, Disable(t) PROVE ActualKnown'
  <2>1. standard[t] \in Nat /\ UNCHANGED <<conf, localeVars, actual>>
    BY <1>9 DEF Disable, TypeOK
  <2>2. standard' = [standard EXCEPT ![t] = standard[t] + 1] /\ standard[t] >= 1
    BY <1>9 DEF Disable
  <2>3. standard[t] + 1 \in Nat /\ (standard[t] + 1 = 0 <=> standard[t] = 0)
    BY <2>1, <2>2
  <2> QED
    BY <1>8, <2>1, <2>2, <2>3
<1>10. ASSUME NEW t \in Threads, CloseBracket(t) PROVE ActualKnown'
  <2>1. UNCHANGED <<conf, localeVars>> /\ todo[t] = <<>> /\ brackets[t] # <<>>
    BY <1>10 DEF CloseBracket
  <2>2. ~conf.threadSafeLocale => localeLock = t
    BY <2>1, LockLevels
  <2>3. CASE SetNumericStandard(t) \/ SetNumericUnderlying(t)
    BY <2>1, <2>2, <2>3, SetKnown DEF localeVars
  <2>4. CASE UNCHANGED <<standard, underlying, actual>>
    BY <2>1, <2>4, SameActual DEF localeVars, LocaleIn
  <2>5. CASE standard' = [standard EXCEPT ![t] = IF @ > 1 THEN @ - 1 ELSE @] /\ UNCHANGED actual
    <3> DEFINE k == IF standard[t] > 1 THEN standard[t] - 1 ELSE standard[t]
    <3>1. k \in Nat /\ (k = 0 <=> standard[t] = 0)
      BY DEF TypeOK
    <3>2. standard' = [standard EXCEPT ![t] = k]
      BY <2>5 DEF TypeOK
    <3> QED
      BY <1>8, <2>1, <2>5, <3>1, <3>2
  <2> QED
    BY <1>10, <2>3, <2>4, <2>5 DEF CloseBracket
<1>11. CASE UNCHANGED vars
  BY <1>1, <1>11 DEF vars
<1> QED
  BY <1>2, <1>3, <1>4, <1>5, <1>6, <1>7, <1>9, <1>10, <1>11, StepOf DEF OtherStep

-----------------------------------------------------------------------------
LEMMA TypeInit == Init => TypeOK
<1> SUFFICES ASSUME Init PROVE TypeOK
  OBVIOUS
<1>1. RWTypeOK
  BY RWInitInv DEF Init, RWInv
<1>2. /\ todo \in [Threads -> Seq(Macros)] /\ brackets \in [Threads -> Seq(Bracket)]
      /\ localeLock \in Threads \cup {NoThread} /\ depth \in [Threads -> Nat]
      /\ standard \in [Threads -> Nat] /\ actual \in [Threads -> {"C", "underlying"}]
      /\ conf \in Configurations
  BY DEF Init
<1>3. /\ underlying \in [Threads -> BOOLEAN] /\ saved \in [Threads -> BOOLEAN] /\ panicked \in BOOLEAN
  BY DEF Init
<1> QED
  BY <1>1, <1>2, <1>3 DEF TypeOK

(* A change of what t has to run leaves a function.                        *)
LEMMA TodoTyped ==
  ASSUME NEW t \in Threads, TypeOK, AllPlaced', NEW s, todo' = todo \/ todo' = [todo EXCEPT ![t] = s]
  PROVE  todo' \in [Threads -> Seq(Macros)]
<1>1. \A u \in Threads : todo'[u] \in Seq(Macros)
  BY DEF AllPlaced, Placed, WellOrdered
<1>2. todo' = [u \in Threads |-> todo'[u]]
  BY DEF TypeOK
<1> QED
  BY <1>1, <1>2

LEMMA TodoKept ==
  ASSUME TypeOK, AllPlaced', [Next]_vars
  PROVE  todo' \in [Threads -> Seq(Macros)]
<1>1. ASSUME NEW t \in Threads, EnvStep(t) \/ EnvSpurious(t) PROVE todo' \in [Threads -> Seq(Macros)]
  BY <1>1, TodoTyped DEF EnvStep, EnvSpurious, Pop
<1>2. ASSUME NEW t \in Threads, OtherStep(t) PROVE todo' \in [Threads -> Seq(Macros)]
  BY <1>2, TodoTyped DEF OtherStep, LocaleLockStep, LocaleUnlockStep, Enter, Leave, SaveMemLog,
     Allocate, ZeroMemLog, Toggle, Pop
<1>3. ASSUME NEW t \in Threads, NEW kind, StartSection(t, kind) \/ OpenBracket(t, kind)
      PROVE  todo' \in [Threads -> Seq(Macros)]
  BY <1>3, TodoTyped DEF StartSection, OpenBracket
<1>4. ASSUME NEW t \in Threads, Disable(t) \/ CloseBracket(t) PROVE todo' \in [Threads -> Seq(Macros)]
  BY <1>4, TodoTyped DEF Disable, CloseBracket
<1>5. CASE UNCHANGED vars
  BY <1>5 DEF vars, TypeOK
<1> QED
  BY <1>1, <1>2, <1>3, <1>4, <1>5, StepOf

NumericTypeOK ==
  /\ brackets \in [Threads -> Seq(Bracket)]
  /\ standard \in [Threads -> Nat] /\ underlying \in [Threads -> BOOLEAN]
  /\ actual \in [Threads -> {"C", "underlying"}]

LEMMA SetTyped ==
  ASSUME NEW t \in Threads, TypeOK, SetNumericStandard(t) \/ SetNumericUnderlying(t)
  PROVE  /\ standard' \in [Threads -> Nat] /\ underlying' \in [Threads -> BOOLEAN]
         /\ actual' \in [Threads -> {"C", "underlying"}]
<1>1. CASE SetNumericStandard(t)
  <2>1. standard' \in [Threads -> Nat]
    BY <1>1 DEF SetNumericStandard, TypeOK
  <2>2. underlying' \in [Threads -> BOOLEAN]
    BY <1>1 DEF SetNumericStandard, TypeOK
  <2>3. actual' \in [Threads -> {"C", "underlying"}]
    BY <1>1 DEF SetNumericStandard, SetActual, TypeOK
  <2> QED
    BY <2>1, <2>2, <2>3
<1>2. CASE SetNumericUnderlying(t)
  <2>1. standard' \in [Threads -> Nat]
    BY <1>2 DEF SetNumericUnderlying, TypeOK
  <2>2. underlying' \in [Threads -> BOOLEAN]
    BY <1>2 DEF SetNumericUnderlying, TypeOK
  <2>3. actual' \in [Threads -> {"C", "underlying"}]
    BY <1>2 DEF SetNumericUnderlying, SetActual, TypeOK
  <2> QED
    BY <2>1, <2>2, <2>3
<1> QED
  BY <1>1, <1>2

LEMMA NumericKept ==
  ASSUME TypeOK, AllPlaced, AllBracketed, [Next]_vars
  PROVE  NumericTypeOK'
<1>1. CASE UNCHANGED numericVars
  BY <1>1 DEF numericVars, NumericTypeOK, TypeOK
<1>2. ASSUME NEW t \in Threads, EnvStep(t) \/ EnvSpurious(t) \/ (OtherStep(t) /\ ~Toggle(t))
      PROVE  NumericTypeOK'
  BY <1>1, <1>2 DEF EnvStep, EnvSpurious, OtherStep, LocaleLockStep, LocaleUnlockStep, Enter, Leave,
     SaveMemLog, Allocate, ZeroMemLog
<1>3. ASSUME NEW t \in Threads, Toggle(t), ~UNCHANGED numericVars PROVE NumericTypeOK'
  <2> DEFINE open == brackets[t]
  <2>1. PICK how \in {"standard", "underlying"} :
          /\ brackets' = [brackets EXCEPT ![t] = [@ EXCEPT ![Len(@)] = [kind |-> Wanted(t), restore |-> how]]]
          /\ Wanted(t) \in {"UNDERLYING", "STANDARD"}
          /\ SetNumericStandard(t) \/ SetNumericUnderlying(t)
    BY <1>3 DEF Toggle
  <2>2. open \in Seq(Bracket) /\ [kind |-> Wanted(t), restore |-> how] \in Bracket
    BY <2>1 DEF TypeOK, Bracket, BracketKinds
  <2>3. open # <<>>
    BY <1>3, ToggleBracketed DEF AllPlaced, AllBracketed
  <2>4. [open EXCEPT ![Len(open)] = [kind |-> Wanted(t), restore |-> how]] \in Seq(Bracket)
    BY <2>2, <2>3
  <2>5. brackets' \in [Threads -> Seq(Bracket)]
    BY <2>1, <2>4 DEF TypeOK
  <2> QED
    BY <2>1, <2>5, SetTyped DEF NumericTypeOK
<1>4. ASSUME NEW t \in Threads, NEW kind \in Kinds, StartSection(t, kind) PROVE NumericTypeOK'
  BY <1>1, <1>4 DEF StartSection
<1>5. ASSUME NEW t \in Threads, NEW b \in Bracket, brackets' = [brackets EXCEPT ![t] = Append(@, b)]
      PROVE  brackets' \in [Threads -> Seq(Bracket)]
  BY <1>5 DEF TypeOK
<1>6. ASSUME NEW t \in Threads, NEW kind \in {"UNDERLYING", "STANDARD"}, OpenBracket(t, kind)
      PROVE  NumericTypeOK'
  <2>1. [kind |-> kind, restore |-> "no"] \in Bracket
    BY DEF Bracket, BracketKinds
  <2>2. brackets' \in [Threads -> Seq(Bracket)]
    BY <1>5, <1>6, <2>1 DEF OpenBracket
  <2> QED
    BY <1>6, <2>2 DEF OpenBracket, NumericTypeOK, TypeOK
<1>7. ASSUME NEW t \in Threads, Disable(t) PROVE NumericTypeOK'
  <2>1. [kind |-> "DISABLE", restore |-> "no"] \in Bracket
    BY DEF Bracket, BracketKinds
  <2>2. brackets' \in [Threads -> Seq(Bracket)]
    BY <1>5, <1>7, <2>1 DEF Disable
  <2>3. standard' \in [Threads -> Nat]
    BY <1>7 DEF Disable, TypeOK
  <2>4. underlying' = underlying /\ actual' = actual
    BY <1>7 DEF Disable
  <2> QED
    BY <2>2, <2>3, <2>4 DEF NumericTypeOK, TypeOK
<1>8. ASSUME NEW t \in Threads, CloseBracket(t) PROVE NumericTypeOK'
  <2> DEFINE open == brackets[t]
  <2>1. /\ open \in Seq(Bracket) /\ open # <<>> /\ brackets' = [brackets EXCEPT ![t] = SubSeq(@, 1, Len(@) - 1)]
    BY <1>8 DEF CloseBracket, TypeOK
  <2>2. SubSeq(open, 1, Len(open) - 1) \in Seq(Bracket)
    BY <2>1
  <2>3. brackets' \in [Threads -> Seq(Bracket)]
    BY <2>1, <2>2 DEF TypeOK
  <2>4. CASE SetNumericStandard(t) \/ SetNumericUnderlying(t)
    BY <2>3, <2>4, SetTyped DEF NumericTypeOK
  <2>5. CASE UNCHANGED <<standard, underlying, actual>>
    BY <2>3, <2>5 DEF NumericTypeOK, TypeOK
  <2>6. CASE standard' = [standard EXCEPT ![t] = IF @ > 1 THEN @ - 1 ELSE @] /\ UNCHANGED <<underlying, actual>>
    <3>1. standard' \in [Threads -> Nat]
      BY <2>6 DEF TypeOK
    <3> QED
      BY <2>3, <2>6, <3>1 DEF NumericTypeOK, TypeOK
  <2> QED
    BY <1>8, <2>4, <2>5, <2>6 DEF CloseBracket
<1>9. CASE UNCHANGED vars
  BY <1>1, <1>9 DEF vars
<1> QED
  BY <1>1, <1>2, <1>3, <1>4, <1>6, <1>7, <1>8, <1>9, StepOf DEF OtherStep

LEMMA FlagsKept ==
  ASSUME TypeOK, [Next]_vars
  PROVE  conf' \in Configurations /\ saved' \in [Threads -> BOOLEAN] /\ panicked' \in BOOLEAN
<1> USE DEF TypeOK
<1>1. CASE UNCHANGED <<conf, saved, panicked>>
  BY <1>1
<1>2. ASSUME NEW t \in Threads, SaveMemLog(t) \/ ZeroMemLog(t)
      PROVE  conf' \in Configurations /\ saved' \in [Threads -> BOOLEAN] /\ panicked' \in BOOLEAN
  <2>1. conf' = conf /\ panicked' = panicked
    BY <1>2 DEF SaveMemLog, ZeroMemLog
  <2>2. \E v \in BOOLEAN : saved' = [saved EXCEPT ![t] = v]
    BY <1>2 DEF SaveMemLog, ZeroMemLog
  <2>3. saved' \in [Threads -> BOOLEAN]
    BY <2>2
  <2> QED
    BY <2>1, <2>3
<1>3. ASSUME NEW t \in Threads, LocaleLockStep(t) \/ LocaleUnlockStep(t)
      PROVE  conf' \in Configurations /\ saved' \in [Threads -> BOOLEAN] /\ panicked' \in BOOLEAN
  <2>1. conf' = conf /\ saved' = saved
    BY <1>3 DEF LocaleLockStep, LocaleUnlockStep
  <2>2. CASE panicked' = panicked
    BY <2>1, <2>2
  <2>3. CASE panicked' = (Head(todo[t]) = "LC_NUMERIC_LOCK" /\ Incompatible(t))
    <3>1. (Head(todo[t]) = "LC_NUMERIC_LOCK" /\ Incompatible(t)) \in BOOLEAN
      OBVIOUS
    <3>2. panicked' \in BOOLEAN
      BY <2>3, <3>1, Zenon
    <3> QED
      BY <2>1, <3>2
  <2>4. CASE panicked' = (depth[t] <= 0)
    <3>1. (depth[t] <= 0) \in BOOLEAN
      OBVIOUS
    <3>2. panicked' \in BOOLEAN
      BY <2>4, <3>1, Zenon
    <3> QED
      BY <2>1, <3>2
  <2> QED
    BY <1>3, <2>2, <2>3, <2>4 DEF LocaleLockStep, LocaleUnlockStep
<1>4. ASSUME NEW t \in Threads,
             \/ EnvStep(t) \/ EnvSpurious(t) \/ Enter(t) \/ Leave(t) \/ Allocate(t) \/ Toggle(t)
             \/ Disable(t) \/ CloseBracket(t)
      PROVE  UNCHANGED <<conf, saved, panicked>>
  BY <1>4 DEF EnvStep, EnvSpurious, Enter, Leave, Allocate, Toggle, Disable, CloseBracket
<1>5. ASSUME NEW t \in Threads, NEW kind, StartSection(t, kind) \/ OpenBracket(t, kind)
      PROVE  UNCHANGED <<conf, saved, panicked>>
  BY <1>5 DEF StartSection, OpenBracket
<1>6. CASE UNCHANGED vars
  BY <1>1, <1>6 DEF vars
<1> QED
  BY <1>1, <1>2, <1>3, <1>4, <1>5, <1>6, StepOf DEF OtherStep

(* The inductive invariant.                                                *)
LocksInv == TypeOK /\ RWInv /\ LocaleOwned /\ AllPlaced /\ AllBracketed /\ ActualKnown

LEMMA LocksInvInit == Init => LocksInv
<1> SUFFICES ASSUME Init PROVE LocksInv
  OBVIOUS
<1>1. RWInv
  BY RWInitInv DEF Init
<1>2. LocaleOwned
  BY NoThreadAssumption DEF Init, LocaleOwned
<1>3. ActualKnown
  BY NoThreadAssumption DEF Init, ActualKnown, LocaleIn
<1> QED
  BY <1>1, <1>2, <1>3, TypeInit, PlacedInit, BracketedInit DEF LocksInv

LEMMA LocksInvNext == LocksInv /\ [Next]_vars => LocksInv'
<1> SUFFICES ASSUME LocksInv, [Next]_vars PROVE LocksInv'
  OBVIOUS
<1> USE DEF LocksInv
<1>1. RWInv'
  BY StepsOfTheLock, RWNextInv
<1>2. LocaleOwned'
  BY LocaleKept
<1>3. AllPlaced'
  BY PlacedKept
<1>4. AllBracketed'
  BY BracketedKept
<1>5. ActualKnown'
  BY ActualKept
<1>6. TypeOK'
  <2>1. RWTypeOK'
    BY <1>1 DEF RWInv
  <2>2. localeLock' \in Threads \cup {NoThread} /\ depth' \in [Threads -> Nat]
    BY <1>2 DEF LocaleOwned
  <2>3. todo' \in [Threads -> Seq(Macros)]
    BY <1>3, TodoKept
  <2> QED
    BY <2>1, <2>2, <2>3, NumericKept, FlagsKept DEF TypeOK, NumericTypeOK
<1> QED
  BY <1>1, <1>2, <1>3, <1>4, <1>5, <1>6

(* The inductive invariant holds in every reachable state: the macros that  *)
(* each thread has still to run are ordered and bracketed, the locks are    *)
(* where they belong, and libc's locale is the one its owner has set.       *)
THEOREM LocksInvariant == Spec => []LocksInv
<1> QED
  BY LocksInvInit, LocksInvNext, PTL DEF Spec

(* The variables keep their types; what a thread has to run is always one  *)
(* of the macros.                                                          *)
THEOREM LocksTypeOK == Spec => []TypeOK
<1>1. LocksInv => TypeOK
  BY DEF LocksInv
<1> QED
  BY <1>1, LocksInvariant, PTL

-----------------------------------------------------------------------------
LEMMA HeadAhead ==
  ASSUME NEW s \in Seq(Macros), s # <<>>
  PROVE  Ahead(s, Head(s))
BY TailFacts DEF Ahead

(* No thread asks again for the environment lock that it holds: the memory *)
(* logger is answered from the saved value.                                *)
THEOREM LocksNoSelfDeadlock == Spec => []NoSelfDeadlock
<1>1. LocksInv => NoSelfDeadlock
  <2> SUFFICES ASSUME LocksInv, NEW t \in Threads, todo[t] # <<>>,
                      Head(todo[t]) \in {"ENV_LOCK", "ENV_READ_LOCK"}, t \in Reading \cup Writing
               PROVE  FALSE
    BY DEF NoSelfDeadlock
  <2>1. Ahead(todo[t], Head(todo[t])) /\ PlaceFits(at[t], todo[t]) /\ Head(todo[t]) \in EnvLocks
    BY HeadAhead DEF LocksInv, TypeOK, AllPlaced, Placed, EnvLocks
  <2>2. at[t] \in {"reading", "u_lock", "u_dec", "writing"}
    BY DEF Reading, Writing
  <2> QED
    BY <2>1, <2>2 DEF PlaceFits
<1> QED
  BY <1>1, LocksInvariant, PTL

(* What a thread in a section holds.                                       *)
LEMMA OneUnlock ==
  ASSUME NEW s, WellOrdered(s)
  PROVE  ~(Ahead(s, "ENV_UNLOCK") /\ Ahead(s, "ENV_READ_UNLOCK"))
<1> SUFFICES ASSUME NEW i \in 1 .. Len(s), s[i] = "ENV_UNLOCK",
                    NEW j \in 1 .. Len(s), s[j] = "ENV_READ_UNLOCK"
             PROVE  FALSE
  BY DEF Ahead
<1>1. Len(s) \in Nat
  BY DEF WellOrdered
<1>2. i < j \/ j < i
  BY <1>1
<1>3. ~(i < j)
  <2>1. i < j => InOrder("ENV_UNLOCK", "ENV_READ_UNLOCK")
    BY <1>1 DEF WellOrdered
  <2> QED
    BY <2>1 DEF InOrder, EnvUnlocks
<1>4. ~(j < i)
  <2>1. j < i => InOrder("ENV_READ_UNLOCK", "ENV_UNLOCK")
    BY <1>1 DEF WellOrdered
  <2> QED
    BY <2>1 DEF InOrder, EnvUnlocks
<1> QED
  BY <1>2, <1>3, <1>4

LEMMA LevelsHeld ==
  ASSUME NEW t \in Threads, LocksInv, Ahead(todo[t], "LOCALE_UNLOCK_"),
         Head(todo[t]) \notin {"LOCALE_LOCK_", "LC_NUMERIC_LOCK"}, todo[t] # <<>>
  PROVE  localeLock = t
<1>1. PICK inside, levels, n : History(t, inside, levels, n)
  BY HasHistory DEF LocksInv, AllBracketed
<1>2. LevelsOf(todo[t]) = 1
  BY DEF LevelsOf
<1>3. depth[t] > 0
  BY <1>1, <1>2 DEF History
<1> QED
  BY <1>3 DEF LocksInv, LocaleOwned

LEMMA SectionHolds ==
  ASSUME NEW t \in Threads, LocksInv, InSection(t)
  PROVE  /\ SectionOf(t) \in Kinds
         /\ SectionOf(t) \in {"putenv", "localtime"} => t \in Writing
         /\ SectionOf(t) \in {"getenv", "logger"} =>
              IF conf.getenvPreserves THEN t \in Reading ELSE t \in Writing
         /\ SectionOf(t) = "strftime" => t \in Reading /\ (~conf.threadSafeLocale => localeLock = t)
         /\ SectionOf(t) \in {"mblen", "setlocale"} => localeLock = t
<1> DEFINE s == todo[t]
           h == Head(s)
<1>1. s # <<>> /\ h \in Kinds \cup {"save", "allocate"} /\ SectionOf(t) = IF h \in Kinds THEN h ELSE "getenv"
  BY DEF InSection, SectionOf
<1>2. WellOrdered(s) /\ PlaceFits(at[t], s) /\ at[t] \in Places
  BY DEF LocksInv, AllPlaced, Placed, TypeOK, RWTypeOK
<1>3. \A m : Ahead(s, m) <=> h = m \/ Ahead(Tail(s), m)
  BY <1>1, <1>2, AheadTail DEF WellOrdered
<1>4. \A m : Ahead(Tail(s), m) => InOrder(h, m)
  BY <1>1, <1>2, OrderAtHead
<1>5. \A m \in Followers : <<h, m>> \in FollowedBy => Ahead(s, m)
  BY <1>1, <1>2, <1>3, OrderAtHead
<1> HIDE DEF s
<1>6. \A m \in EnvLocks : ~Ahead(s, m)
  BY <1>1, <1>3, <1>4 DEF InOrder, EnvLocks, Kinds
<1>7. ~(Ahead(s, "ENV_UNLOCK") /\ Ahead(s, "ENV_READ_UNLOCK"))
  BY <1>2, OneUnlock
<1>8. h \notin EnvLocks \cup EnvUnlocks \cup {"LOCALE_LOCK_", "LC_NUMERIC_LOCK"}
  BY <1>1 DEF EnvLocks, EnvUnlocks, Kinds
<1>9. (\E m \in EnvUnlocks : Ahead(s, m)) => at[t] \in {"reading", "writing"}
  BY <1>2, <1>6, <1>8 DEF PlaceFits, Places, EnvLocks, EnvUnlocks
<1>10. Ahead(s, "ENV_UNLOCK") => t \in Writing
  BY <1>2, <1>7, <1>9 DEF PlaceFits, EnvUnlocks, Writing
<1>11. Ahead(s, "ENV_READ_UNLOCK") => t \in Reading
  BY <1>2, <1>7, <1>9 DEF PlaceFits, EnvUnlocks, Reading
<1>12. Ahead(s, "LOCALE_UNLOCK_") => localeLock = t
  BY <1>1, <1>8, LevelsHeld DEF s
<1>13. h \in {"getenv", "logger", "save", "allocate"} => Ahead(s, Head(GETENV_UNLOCK))
  BY <1>5, GetenvHeads DEF FollowedBy, Followers
<1>14. h \in {"putenv", "localtime"} => Ahead(s, "ENV_UNLOCK")
  BY <1>5 DEF FollowedBy, Followers, EnvUnlocks
<1>15. h = "strftime" => Ahead(s, "ENV_READ_UNLOCK") /\ (~conf.threadSafeLocale => Ahead(s, "LOCALE_UNLOCK_"))
  BY <1>5 DEF FollowedBy, Followers, EnvUnlocks
<1>16. h \in {"mblen", "setlocale"} => Ahead(s, "LOCALE_UNLOCK_")
  BY <1>5 DEF FollowedBy, Followers
<1>17. Head(GETENV_UNLOCK) = IF conf.getenvPreserves THEN "ENV_READ_UNLOCK" ELSE "ENV_UNLOCK"
  BY DEF GETENV_UNLOCK
<1> HIDE DEF h
<1> QED
  BY <1>1, <1>10, <1>11, <1>12, <1>13, <1>14, <1>15, <1>16, <1>17 DEF Kinds

LEMMA WritesHold ==
  ASSUME NEW t \in Threads, LocksInv, NEW x \in WritesOf(t)
  PROVE  /\ x \in {"environ", "buffer of getenv", "buffer of localtime"} => t \in Writing
         /\ x \in {"locale", "shift state", "buffer of setlocale"} => localeLock = t
         /\ x = "globals of tzset" =>
              \/ SectionOf(t) = "localtime" /\ t \in Writing
              \/ SectionOf(t) = "strftime" /\ t \in Reading /\ (~conf.threadSafeLocale => localeLock = t)
         /\ x \in {"environ", "buffer of getenv", "buffer of localtime", "globals of tzset",
                   "locale", "shift state", "buffer of setlocale"}
         /\ InSection(t)
<1>1. InSection(t) /\ x \in Writes(SectionOf(t))
  BY DEF WritesOf
<1> QED
  BY <1>1, SectionHolds DEF Writes, SharedLocale, Kinds

LEMMA ReadsHold ==
  ASSUME NEW t \in Threads, NEW u \in Threads, LocksInv, NEW x \in ReadsOf(t)
  PROVE  /\ x = "environ" => t \in Reading \cup Writing
         /\ x = "locale" => localeLock = t \/ x \in Unguarded(t, u)
         /\ x \in {"environ", "locale"}
<1>1. CASE InSection(t) /\ x \in Reads(SectionOf(t))
  <2>1. x = "environ" => SectionOf(t) \in {"getenv", "logger", "localtime", "strftime"}
    BY <1>1, SectionHolds DEF Reads, SharedLocale, Kinds
  <2>2. x = "locale" => SectionOf(t) \in {"localtime", "strftime", "mblen"} /\ ~conf.threadSafeLocale
    BY <1>1, SectionHolds DEF Reads, SharedLocale, Kinds
  <2>3. x \in {"environ", "locale"}
    BY <1>1, SectionHolds DEF Reads, SharedLocale, Kinds
  <2> QED
    BY <1>1, <2>1, <2>2, <2>3, SectionHolds DEF Unguarded, SharedLocale
<1>2. CASE brackets[t] # <<>> /\ depth[t] > 0 /\ x \in SharedLocale
  BY <1>2 DEF LocksInv, LocaleOwned, SharedLocale
<1> QED
  BY <1>1, <1>2 DEF ReadsOf

(* While a thread is in a section or between STORE_LC_NUMERIC and RESTORE, *)
(* no other thread writes what it relies on, the globals of tzset among    *)
(* it, except for what perl.h leaves unguarded (Unguarded): whatever the   *)
(* configuration, the number of threads and the sections they run.         *)
THEOREM LocksRaceFree == Spec => []RaceFree
<1>1. LocksInv => RaceFree
  <2> SUFFICES ASSUME LocksInv, NEW t \in Threads, NEW u \in Threads, t # u,
                      NEW x \in ReadsOf(t) \cup WritesOf(t), x \in WritesOf(u)
               PROVE  x \in Unguarded(t, u)
    BY DEF RaceFree
  <2>1. /\ x \in {"environ", "buffer of getenv", "buffer of localtime"} => u \in Writing
        /\ x \in {"locale", "shift state", "buffer of setlocale"} => localeLock = u
        /\ x \in {"environ", "buffer of getenv", "buffer of localtime", "globals of tzset",
                  "locale", "shift state", "buffer of setlocale"}
    BY WritesHold
  <2>2. /\ ~(u \in Writing /\ t \in Reading \cup Writing)
        /\ ~(t \in Writing /\ u \in Reading \cup Writing)
    BY DEF LocksInv, RWInv, Exclusive, Reading, Writing
  <2>3. CASE x \in WritesOf(t)
    <3>1. CASE x # "globals of tzset"
      BY <2>1, <2>2, <2>3, <3>1, WritesHold
    <3>2. CASE x = "globals of tzset"
      <4>1. /\ InSection(t) /\ InSection(u)
            /\ SectionOf(t) = "strftime" /\ SectionOf(u) = "strftime"
            /\ ~conf.threadSafeLocale => localeLock = t /\ localeLock = u
        BY <2>2, <2>3, <3>2, WritesHold
      <4>2. conf.threadSafeLocale
        BY <4>1
      <4> QED
        BY <3>2, <4>1, <4>2 DEF Unguarded
    <3> QED
      BY <3>1, <3>2
  <2>4. CASE x \in ReadsOf(t)
    BY <2>1, <2>2, <2>4, ReadsHold
  <2> QED
    BY <2>3, <2>4
<1> QED
  BY <1>1, LocksInvariant, PTL

(* Between STORE_LC_NUMERIC and RESTORE_LC_NUMERIC libc works in the       *)
(* locale the thread asked for, and without a bracket with a dot for the   *)
(* decimal point, however deep the brackets are nested.                    *)
THEOREM LocksNumericAsNeeded == Spec => []NumericAsNeeded
<1>1. LocksInv => NumericAsNeeded
  <2> SUFFICES ASSUME LocksInv, NEW t \in Threads, todo[t] = <<>> \/ InSection(t)
               PROVE  IF Wanted(t) = "UNDERLYING"
                      THEN actual[t] = "underlying" \/ standard[t] >= 2
                      ELSE actual[t] = "C" \/ (brackets[t] = <<>> /\ OthersBracket(t))
    BY DEF NumericAsNeeded
  <2> DEFINE open == brackets[t]
             s == todo[t]
  <2>1. PICK inside, levels, n : History(t, inside, levels, n)
    BY HasHistory DEF LocksInv, AllBracketed
  <2>2. WellOrdered(s) /\ open \in Seq(Bracket) /\ standard[t] \in Nat
    BY DEF LocksInv, AllPlaced, Placed, TypeOK
  <2>3. ~Unsettled(s) /\ LevelsOf(s) >= 0
    <3>1. CASE s = <<>>
      BY <3>1, NothingAhead, EmptyFits DEF Unsettled
    <3>2. CASE InSection(t)
      <4>1. s # <<>> /\ Head(s) \in Kinds \cup {"save", "allocate"}
        BY <3>2 DEF InSection
      <4>2. Ahead(s, "toggle") => InOrder(Head(s), "toggle")
        BY <2>2, <4>1, AheadTail, OrderAtHead DEF WellOrdered, Kinds
      <4>3. ~Ahead(s, "toggle")
        BY <4>1, <4>2 DEF InOrder, Kinds
      <4> QED
        BY <4>1, <4>3 DEF Unsettled, LevelsOf, Kinds
    <3> QED
      BY <3>1, <3>2
  <2>4. /\ n \in Nat /\ Len(open) = n /\ standard[t] = inside[n] /\ inside[0] = 1
        /\ Nested(open, inside, levels) /\ Settled(open, inside, n) /\ levels[n] \in Nat
        /\ depth[t] = (IF conf.threadSafeLocale THEN 0 ELSE levels[n]) + LevelsOf(s)
    BY <2>1, <2>3 DEF History, Nested
  <2>5. /\ conf.threadSafeLocale \/ localeLock = t => actual[t] = LocaleIn(t)
        /\ ~conf.threadSafeLocale /\ localeLock = NoThread => actual[t] = "C"
    BY DEF LocksInv, ActualKnown
  <2>6. depth[t] \in Nat /\ (depth[t] > 0 <=> localeLock = t)
    BY DEF LocksInv, LocaleOwned
  <2>7. CASE n = 0
    <3>1. open = <<>> /\ Wanted(t) = "STANDARD" /\ LocaleIn(t) = "C"
      BY <2>2, <2>4, <2>7 DEF Wanted, LocaleIn
    <3> QED
      BY <2>5, <2>6, <3>1 DEF OthersBracket
  <2>8. CASE n # 0
    <3>1. n \in 1 .. n /\ open # <<>> /\ Wanted(t) = open[n].kind
      BY <2>2, <2>4, <2>8 DEF Wanted
    <3>2. AsAsked(open[n], inside[n]) /\ levels[n] >= 1
      BY <2>4, <3>1 DEF Settled, Nested, Fits
    <3>3. actual[t] = LocaleIn(t)
      BY <2>3, <2>4, <2>5, <2>6, <3>2, LevelsType
    <3> QED
      BY <2>2, <2>4, <3>1, <3>2, <3>3 DEF AsAsked, LocaleIn
  <2> QED
    BY <2>7, <2>8
<1> QED
  BY <1>1, LocksInvariant, PTL
=============================================================================
