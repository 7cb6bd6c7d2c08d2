----------------------------- MODULE PerlLocks -----------------------------
(***************************************************************************)
(* The locks that the threads of one perl process take around libc calls   *)
(* that read or write the environment, the locale or a static buffer       *)
(* (CORE/perl.h, from PERL_REENTRANT_LOCK to the LC_NUMERIC macros, and    *)
(* Perl_mortal_getenv of CORE/inline.h).                                   *)
(*                                                                         *)
(* A thread carries the macros it has still to run in todo.  It enters a   *)
(* critical section (begin) and leaves it, and may have brackets of        *)
(* STORE_LC_NUMERIC_... and RESTORE_LC_NUMERIC open around the sections.   *)
(* The environment lock is the one of PerlRWLock.                          *)
(***************************************************************************)
EXTENDS PerlRWLock, Sequences

CONSTANTS
  Configurations,  \* what Configure found: subset of ConfigureResults
  Sections,        \* Sections[t]: the critical sections thread t runs
  NumericThreads,  \* the threads that use the LC_NUMERIC macros
  MaxNest          \* bound: brackets a thread has open at a time

ConfigureResults ==
  [threadSafeLocale : BOOLEAN,   \* USE_THREAD_SAFE_LOCALE
   getenvPreserves  : BOOLEAN,   \* GETENV_PRESERVES_OTHER_THREAD
   memLog           : BOOLEAN]   \* PERL_MEM_LOG

Kinds == {"putenv", "getenv", "logger", "localtime", "strftime", "mblen", "setlocale"}

ASSUME ConfigurationsAssumption == Configurations \subseteq ConfigureResults
ASSUME SectionsAssumption == Sections \in [Threads -> SUBSET Kinds]
ASSUME NumericAssumption == NumericThreads \subseteq Threads /\ MaxNest \in Nat

VARIABLES
  conf,       \* the configuration of this perl
  todo,       \* todo[t]: the macros t has still to run, <<>> outside of all
  localeLock, \* owner of PL_locale_mutex, or NoThread
  depth,      \* depth[t]: PL_locale_mutex_depth of t's interpreter
  brackets,   \* brackets[t]: its open STORE/DISABLE macros, outermost first
  standard,   \* standard[t]: PL_numeric_standard
  underlying, \* underlying[t]: PL_numeric_underlying
  actual,     \* actual[t]: the locale libc uses for LC_NUMERIC in t
  saved,      \* saved[t]: flag 0x1 of PL_mem_log
  panicked    \* a thread has croaked with "panic:"; the process is gone

numericVars == <<brackets, standard, underlying, actual>>
localeVars  == <<localeLock, depth>>
vars == <<rwVars, conf, todo, localeVars, numericVars, saved, panicked>>

BracketKinds == {"UNDERLYING", "STANDARD", "DISABLE"}
Bracket == [kind : BracketKinds, restore : {"no", "standard", "underlying"}]

EnvLocks   == {"ENV_LOCK", "ENV_READ_LOCK"}
EnvUnlocks == {"ENV_UNLOCK", "ENV_READ_UNLOCK"}
Macros     == Kinds \cup EnvLocks \cup EnvUnlocks \cup
  {"LOCALE_LOCK_", "LC_NUMERIC_LOCK", "LOCALE_UNLOCK_", "begin", "save", "allocate", "zero", "toggle"}

TypeOK ==
  /\ RWTypeOK
  /\ conf \in Configurations
  /\ todo \in [Threads -> Seq(Macros)]
  /\ localeLock \in Threads \cup {NoThread}
  /\ depth \in [Threads -> Nat]
  /\ brackets \in [Threads -> Seq(Bracket)]
  /\ standard \in [Threads -> Nat] /\ underlying \in [Threads -> BOOLEAN]
  /\ actual \in [Threads -> {"C", "underlying"}]
  /\ saved \in [Threads -> BOOLEAN] /\ panicked \in BOOLEAN

Init ==
  /\ RWInit
  /\ conf \in Configurations
  /\ todo = [t \in Threads |-> <<>>]
  /\ localeLock = NoThread
  /\ depth = [t \in Threads |-> 0]
  /\ brackets = [t \in Threads |-> <<>>]
  /\ standard = [t \in Threads |-> 1]
  /\ underlying = [t \in Threads |-> FALSE]
  /\ actual = [t \in Threads |-> "C"]
  /\ saved = [t \in Threads |-> FALSE]
  /\ panicked = FALSE

-----------------------------------------------------------------------------
(* The locks each kind of section takes, in order, and gives up again.     *)
GETENV_LOCK ==
  <<IF conf.getenvPreserves THEN "ENV_READ_LOCK" ELSE "ENV_LOCK">>
GETENV_UNLOCK ==
  <<IF conf.getenvPreserves THEN "ENV_READ_UNLOCK" ELSE "ENV_UNLOCK">>

gwLOCALE_LOCK   == <<"LOCALE_LOCK_">>
gwLOCALE_UNLOCK == <<"LOCALE_UNLOCK_">>
LOCALE_LOCK   == IF conf.threadSafeLocale THEN <<>> ELSE <<"LOCALE_LOCK_">>
LOCALE_UNLOCK == IF conf.threadSafeLocale THEN <<>> ELSE <<"LOCALE_UNLOCK_">>

(* Seeded bug: localtime takes the lock as a reader.                      *)
gwENVr_LOCALEr_LOCK_Shared == <<"ENV_READ_LOCK">>

(* LOCALE_LOCK_DOES_SOMETHING is never defined (perl.h defines the name    *)
(* with an underscore at its end), so this is ENV_LOCK everywhere.         *)
gwENVr_LOCALEr_LOCK   == <<"ENV_LOCK">>
gwENVr_LOCALEr_UNLOCK == <<"ENV_UNLOCK">>

ENVr_LOCALEr_LOCK   == LOCALE_LOCK \o <<"ENV_READ_LOCK">>
ENVr_LOCALEr_UNLOCK == <<"ENV_READ_UNLOCK">> \o LOCALE_UNLOCK

(* The libc call: the head of todo is the kind while it is being made.     *)
Body(kind) == <<"begin", kind>>

(* Seeded bug: PERL_MEM_LOG is not saved before the copy.                 *)
mortal_getenv_Unsaved ==
  IF conf.memLog
  THEN GETENV_LOCK \o <<"begin", "allocate", "getenv">> \o GETENV_UNLOCK \o <<"zero">>
  ELSE GETENV_LOCK \o Body("getenv") \o GETENV_UNLOCK

(* Under PERL_MEM_LOG the copy of the value is an allocation, which asks   *)
(* for PERL_MEM_LOG while the lock is held.                                *)
mortal_getenv ==
  IF conf.memLog
  THEN GETENV_LOCK \o <<"begin", "save", "allocate", "getenv">> \o GETENV_UNLOCK \o <<"zero">>
  ELSE GETENV_LOCK \o Body("getenv") \o GETENV_UNLOCK

(* The memory logger's own call needs no copy.                             *)
logger_getenv == GETENV_LOCK \o Body("logger") \o GETENV_UNLOCK

Code(kind) ==
  CASE kind = "putenv"    -> <<"ENV_LOCK">> \o Body(kind) \o <<"ENV_UNLOCK">>
    [] kind = "getenv"    -> mortal_getenv
    [] kind = "logger"    -> logger_getenv
    [] kind = "localtime" -> gwENVr_LOCALEr_LOCK \o Body(kind) \o gwENVr_LOCALEr_UNLOCK
    [] kind = "strftime"  -> ENVr_LOCALEr_LOCK \o Body(kind) \o ENVr_LOCALEr_UNLOCK
    [] kind \in {"mblen", "setlocale"} -> gwLOCALE_LOCK \o Body(kind) \o gwLOCALE_UNLOCK

-----------------------------------------------------------------------------
Running(t)  == ~panicked /\ todo[t] # <<>>
AtMacro(t, m) == Running(t) /\ Head(todo[t]) = m
Pop(t)      == todo' = [todo EXCEPT ![t] = Tail(@)]

(* An idle thread starts a section; the logger runs in memLog builds only. *)
StartSection(t, kind) ==
  /\ ~panicked
  /\ todo[t] = <<>>
  /\ kind = "logger" => conf.memLog
  /\ todo' = [todo EXCEPT ![t] = Code(kind)]
  /\ UNCHANGED <<rwVars, conf, localeVars, numericVars, saved, panicked>>

(* The four macros of the environment lock.                                *)
EnvStep(t) ==
  /\ Running(t)
  /\ \/ Head(todo[t]) = "ENV_READ_LOCK" /\ StartReadLock(t) /\ UNCHANGED todo
     \/ Head(todo[t]) = "ENV_READ_UNLOCK" /\ StartReadUnlock(t) /\ UNCHANGED todo
     \/ Head(todo[t]) = "ENV_LOCK" /\ StartWriteLock(t) /\ UNCHANGED todo
     \/ MutexLock(t) /\ UNCHANGED todo
     \/ (ReadInc(t) \/ ReadDec(t)) /\ Pop(t)
     \/ WriteTest(t) /\ IF at'[t] = "writing" THEN Pop(t) ELSE UNCHANGED todo
     \/ Head(todo[t]) = "ENV_UNLOCK" /\ WriteUnlock(t) /\ Pop(t)
  /\ UNCHANGED <<conf, localeVars, numericVars, saved, panicked>>

EnvSpurious(t) ==
  /\ ~panicked
  /\ SpuriousWakeup(t)
  /\ UNCHANGED <<conf, todo, localeVars, numericVars, saved, panicked>>

NotInStandard(t)   == standard[t] = 0
NotInUnderlying(t) == ~underlying[t] /\ standard[t] < 2

Wanted(t) == IF brackets[t] = <<>> THEN "STANDARD" ELSE brackets[t][Len(brackets[t])].kind

(* The argument of LC_NUMERIC_LOCK: the state t already holds locked is    *)
(* not the one the new bracket wants.                                      *)
Incompatible(t) ==
  IF Wanted(t) = "UNDERLYING" THEN NotInUnderlying(t) ELSE NotInStandard(t)

(* PERL_REENTRANT_LOCK on PL_locale_mutex.                                 *)
LocaleLockStep(t) ==
  /\ Running(t) /\ Head(todo[t]) \in {"LOCALE_LOCK_", "LC_NUMERIC_LOCK"}
  /\ \/ /\ depth[t] <= 0
        /\ localeLock = NoThread
        /\ localeLock' = t
        /\ depth' = [depth EXCEPT ![t] = 1]
        /\ UNCHANGED panicked
     \/ /\ depth[t] > 0
        /\ depth' = [depth EXCEPT ![t] = @ + 1]
        /\ panicked' = (Head(todo[t]) = "LC_NUMERIC_LOCK" /\ Incompatible(t))
        /\ UNCHANGED localeLock
  /\ Pop(t)
  /\ UNCHANGED <<rwVars, conf, numericVars, saved>>

(* Seeded bug: inner levels give up the mutex.                            *)
LocaleUnlockStep_Outermost(t) ==
  /\ AtMacro(t, "LOCALE_UNLOCK_")
  /\ depth' = [depth EXCEPT ![t] = IF @ <= 0 THEN @ ELSE @ - 1]
  /\ localeLock' = IF depth[t] >= 1 THEN NoThread ELSE localeLock
  /\ panicked' = (depth[t] <= 0)
  /\ Pop(t)
  /\ UNCHANGED <<rwVars, conf, numericVars, saved>>

(* PERL_REENTRANT_UNLOCK.                                                  *)
LocaleUnlockStep(t) ==
  /\ AtMacro(t, "LOCALE_UNLOCK_")
  /\ depth' = [depth EXCEPT ![t] = IF @ <= 0 THEN @ ELSE @ - 1]
  /\ localeLock' = IF depth[t] = 1 THEN NoThread ELSE localeLock
  /\ panicked' = (depth[t] <= 0)
  /\ Pop(t)
  /\ UNCHANGED <<rwVars, conf, numericVars, saved>>

Enter(t) ==
  /\ AtMacro(t, "begin")
  /\ Pop(t)
  /\ UNCHANGED <<rwVars, conf, localeVars, numericVars, saved, panicked>>

Leave(t) ==
  /\ Running(t) /\ Head(todo[t]) \in Kinds
  /\ Pop(t)
  /\ UNCHANGED <<rwVars, conf, localeVars, numericVars, saved, panicked>>

(* PL_mem_log[0] = 0x1, after the value of PERL_MEM_LOG has been saved.    *)
SaveMemLog(t) ==
  /\ AtMacro(t, "save")
  /\ saved' = [saved EXCEPT ![t] = TRUE]
  /\ Pop(t)
  /\ UNCHANGED <<rwVars, conf, localeVars, numericVars, panicked>>

(* newSVpvn_flags logs its allocation: the logger asks mortal_getenv for   *)
(* PERL_MEM_LOG, which answers from the saved value when the flag is set.  *)
Allocate(t) ==
  /\ AtMacro(t, "allocate")
  /\ todo' = [todo EXCEPT ![t] = IF saved[t] THEN Tail(@) ELSE logger_getenv \o Tail(@)]
  /\ UNCHANGED <<rwVars, conf, localeVars, numericVars, saved, panicked>>

(* Zero(PL_mem_log), after the lock has been given up.                     *)
ZeroMemLog(t) ==
  /\ AtMacro(t, "zero")
  /\ saved' = [saved EXCEPT ![t] = FALSE]
  /\ Pop(t)
  /\ UNCHANGED <<rwVars, conf, localeVars, numericVars, panicked>>

-----------------------------------------------------------------------------
(* The LC_NUMERIC brackets.                                                *)

(* Without thread-safe locales setlocale is for the whole process.         *)
SetActual(t, locale) ==
  actual' = [u \in Threads |->
               IF u = t \/ ~conf.threadSafeLocale THEN locale ELSE actual[u]]

(* set_numeric_standard and set_numeric_underlying are in locale.c.        *)
SetNumericStandard(t) ==
  /\ SetActual(t, "C")
  /\ standard' = [standard EXCEPT ![t] = 1]
  /\ underlying' = [underlying EXCEPT ![t] = FALSE]

SetNumericUnderlying(t) ==
  /\ SetActual(t, "underlying")
  /\ standard' = [standard EXCEPT ![t] = 0]
  /\ underlying' = [underlying EXCEPT ![t] = TRUE]

(* Seeded bug: the brackets do not lock.                                  *)
LC_NUMERIC_LOCK_None == <<>>

LC_NUMERIC_LOCK   == IF conf.threadSafeLocale THEN <<>> ELSE <<"LC_NUMERIC_LOCK">>
LC_NUMERIC_UNLOCK == LOCALE_UNLOCK

OpenBracket(t, kind) ==
  /\ ~panicked
  /\ todo[t] = <<>>
  /\ Len(brackets[t]) < MaxNest
  /\ brackets' = [brackets EXCEPT ![t] = Append(@, [kind |-> kind, restore |-> "no"])]
  /\ todo' = [todo EXCEPT ![t] = LC_NUMERIC_LOCK \o <<"toggle">>]
  /\ UNCHANGED <<rwVars, conf, localeVars, standard, underlying, actual, saved, panicked>>

(* The part of the STORE macros behind the lock.                           *)
Toggle(t) ==
  LET restoring(how) ==
        brackets' = [brackets EXCEPT
                       ![t] = [@ EXCEPT ![Len(@)] = [kind |-> Wanted(t), restore |-> how]]]
  IN /\ AtMacro(t, "toggle")
     /\ \/ /\ Wanted(t) = "UNDERLYING" /\ NotInUnderlying(t)
           /\ SetNumericUnderlying(t)
           /\ restoring("standard")
        \/ /\ Wanted(t) = "STANDARD" /\ NotInStandard(t)
           /\ SetNumericStandard(t)
           /\ restoring("underlying")
        \/ /\ ~Incompatible(t)
           /\ UNCHANGED numericVars
     /\ Pop(t)
     /\ UNCHANGED <<rwVars, conf, localeVars, saved, panicked>>

(* DISABLE_LC_NUMERIC_CHANGES: the caller has made sure of a dot radix.    *)
Disable(t) ==
  /\ ~panicked
  /\ todo[t] = <<>>
  /\ brackets[t] # <<>> /\ Wanted(t) # "UNDERLYING" /\ standard[t] >= 1
  /\ Len(brackets[t]) < MaxNest
  /\ standard' = [standard EXCEPT ![t] = @ + 1]
  /\ brackets' = [brackets EXCEPT ![t] = Append(@, [kind |-> "DISABLE", restore |-> "no"])]
  /\ UNCHANGED <<rwVars, conf, todo, localeVars, underlying, actual, saved, panicked>>

CloseBracket(t) ==
  /\ ~panicked
  /\ todo[t] = <<>>
  /\ brackets[t] # <<>>
  /\ LET top == brackets[t][Len(brackets[t])]
     IN \/ /\ top.kind = "DISABLE"            \* REENABLE_LC_NUMERIC_CHANGES
           /\ standard' = [standard EXCEPT ![t] = IF @ > 1 THEN @ - 1 ELSE @]
           /\ UNCHANGED <<underlying, actual, todo>>
        \/ /\ top.kind # "DISABLE"            \* RESTORE_LC_NUMERIC
           /\ \/ top.restore = "standard" /\ SetNumericStandard(t)
              \/ top.restore = "underlying" /\ SetNumericUnderlying(t)
              \/ top.restore = "no" /\ UNCHANGED <<standard, underlying, actual>>
           /\ todo' = [todo EXCEPT ![t] = LC_NUMERIC_UNLOCK]
  /\ brackets' = [brackets EXCEPT ![t] = SubSeq(@, 1, Len(@) - 1)]
  /\ UNCHANGED <<rwVars, conf, localeVars, saved, panicked>>

-----------------------------------------------------------------------------
Step(t) ==
  \/ EnvStep(t) \/ LocaleLockStep(t) \/ LocaleUnlockStep(t)
  \/ Enter(t) \/ Leave(t) \/ SaveMemLog(t) \/ Allocate(t) \/ ZeroMemLog(t)
  \/ Toggle(t)

(* A panic ends the process.                                               *)
Ended == panicked /\ UNCHANGED vars

Next ==
  \/ \E t \in Threads :
       \/ Step(t)
       \/ EnvSpurious(t)
       \/ \E kind \in Sections[t] : StartSection(t, kind)
       \/ /\ t \in NumericThreads
          /\ \/ \E kind \in {"UNDERLYING", "STANDARD"} : OpenBracket(t, kind)
             \/ Disable(t)
             \/ CloseBracket(t)
  \/ Ended

Spec == Init /\ [][Next]_vars

(* A thread inside a macro goes on as soon as nothing holds it up.         *)
FairSpec == Spec /\ \A t \in Threads : WF_vars(Step(t))

-----------------------------------------------------------------------------
(* What a libc call reads and writes that other threads can reach.  The    *)
(* locale is shared only where it is not per thread.                       *)
SharedLocale == IF conf.threadSafeLocale THEN {} ELSE {"locale"}

Reads(kind) ==
  CASE kind \in {"getenv", "logger"}      -> {"environ"}
    [] kind \in {"localtime", "strftime"} -> {"environ"} \cup SharedLocale
    [] kind = "mblen"                     -> SharedLocale
    [] kind \in {"putenv", "setlocale"}   -> {}

(* localtime and strftime effectively call tzset.                          *)
Writes(kind) ==
  CASE kind \in {"getenv", "logger"} ->
         IF conf.getenvPreserves THEN {} ELSE {"buffer of getenv"}
    [] kind = "putenv"    -> {"environ"}
    [] kind = "localtime" -> {"buffer of localtime", "globals of tzset"}
    [] kind = "mblen"     -> {"shift state"}
    [] kind = "setlocale" -> {"buffer of setlocale"} \cup SharedLocale
    [] kind = "strftime"  -> {"globals of tzset"}

InSection(t) == todo[t] # <<>> /\ Head(todo[t]) \in Kinds \cup {"save", "allocate"}
SectionOf(t) == IF Head(todo[t]) \in Kinds THEN Head(todo[t]) ELSE "getenv"

ReadsOf(t) ==
  (IF InSection(t) THEN Reads(SectionOf(t)) ELSE {})
    \cup (IF brackets[t] # <<>> /\ depth[t] > 0 THEN SharedLocale ELSE {})
WritesOf(t) == IF InSection(t) THEN Writes(SectionOf(t)) ELSE {}

(* What the locks of perl.h do not guard for t against u: the locale in    *)
(* localtime, where it is one for all threads (see gwENVr_LOCALEr_LOCK);   *)
(* and the globals of tzset in two calls of strftime, where the locale     *)
(* lock does nothing and both are mere readers of the environment.         *)
Unguarded(t, u) ==
  LET both == InSection(t) /\ InSection(u) /\ {SectionOf(t), SectionOf(u)} = {"strftime"}
  IN (IF InSection(t) /\ SectionOf(t) = "localtime" THEN SharedLocale ELSE {})
       \cup (IF both /\ conf.threadSafeLocale THEN {"globals of tzset"} ELSE {})

(* While a thread is in a section or between STORE_LC_NUMERIC and RESTORE, *)
(* no other thread writes what it relies on: environment, locale, the      *)
(* globals of tzset and static buffers stay as they are until the result   *)
(* has been copied, except for what perl.h leaves unguarded.               *)
RaceFree ==
  \A t, u \in Threads :
    t # u => (ReadsOf(t) \cup WritesOf(t)) \cap WritesOf(u) \subseteq Unguarded(t, u)

(* "ctime, localtime, mktime, and strftime effectively call it, so they    *)
(* too need exclusive access" (the comment above ASCTIME_LOCK): no two     *)
(* threads are at a time in calls that write the globals of tzset.         *)
TzsetExclusive ==
  \A t, u \in Threads : t # u => "globals of tzset" \notin WritesOf(t) \cap WritesOf(u)

(* Between STORE_LC_NUMERIC and RESTORE_LC_NUMERIC libc works in the       *)
(* locale the thread asked for, unless changes are disabled; without any   *)
(* bracket the decimal point is a dot, as XS code expects, except that     *)
(* another thread's bracket shows where locales are not per thread.        *)
OthersBracket(t) ==
  ~conf.threadSafeLocale /\ depth[t] = 0 /\ localeLock # NoThread

NumericAsNeeded ==
  \A t \in Threads :
    todo[t] = <<>> \/ InSection(t) =>
      IF Wanted(t) = "UNDERLYING"
      THEN actual[t] = "underlying" \/ standard[t] >= 2
      ELSE actual[t] = "C" \/ (brackets[t] = <<>> /\ OthersBracket(t))

(* No thread asks for the environment lock while it holds it, not even     *)
(* through the memory logger: the lock is not recursive.                   *)
NoSelfDeadlock ==
  \A t \in Threads :
    ~panicked /\ todo[t] # <<>> /\ Head(todo[t]) \in {"ENV_LOCK", "ENV_READ_LOCK"}
      => t \notin Reading \cup Writing

(* The locale mutex belongs to the thread with a positive counter, so no   *)
(* two threads have one: the counters are per thread and no lock guards    *)
(* them.                                                                   *)
LocaleOwned ==
  /\ localeLock \in Threads \cup {NoThread}
  /\ depth \in [Threads -> Nat]
  /\ \A t \in Threads : depth[t] > 0 <=> localeLock = t

(* Writers that sleep do not sleep for ever: again and again there is none,*)
(* or there are readers to wait for, or a writer has entered.              *)
WaitersServed == []<>(Waiting = {} \/ readers_count > 0 \/ Writing # {} \/ panicked)

=============================================================================
