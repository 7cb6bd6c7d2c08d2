# A verification project for the Cygwin64 tree

The repository is a Cygwin installation kept under version control. Almost all
of its 6790 files are the content of packages: compiled programs, data,
documentation. What C code there is are perl's headers, some of which hold whole
algorithms in macros and inline functions. This project models those parts that are programs in source
form, keep state, run beside something else, and can go wrong in ways that a
test hardly reaches. Every definition is read off the source; `PROJECT.json`
names the lines each one stands for.

## The system

### Inventory

| Part | State it keeps | Operations | What is hard | What makes it correct | Here |
|---|---|---|---|---|---|
| `Thread::Queue` (`usr/share/perl5/5.40/Thread/Queue.pm`) | item list, `LIMIT`, `ENDED`, the object's wait set | `enqueue`, `limit`, `pending`, `end`, `dequeue`, `dequeue_nb`, `dequeue_timed`, `insert`, `extract` | one condition variable for three conditions, signals and no broadcasts, a store outside the lock | order, no item lost or doubled, no lost wakeup, nothing after the end | `ThreadQueue`, `QueuePromise` |
| `Thread::Semaphore` | one counter, its wait set | `down`, `down_nb`, `down_force`, `down_timed`, `up` | negative counts, different amounts, wakeups that others use up | nobody sleeps in front of what he asked for, nothing oversold | `ThreadSemaphore` |
| `threads::shared` | locks, wait sets | `lock`, `cond_wait`, `cond_timedwait`, `cond_signal`, `cond_broadcast` | spurious wakeups; compiled code | | inside the two above |
| `_autorebase` (`etc/postinstall/0p_000_autorebase.dash`, `bin/rebase-trigger`, `bin/rebaselst`, `etc/preremove/_autorebase.sh`) | flag files, five cache files and their time stamps, the rebase map | a run at the end of each setup, triggers of the user, removal of the package | a chain of caches driven by time stamps, kills at any step, a map that is removed before it is made again | every object gets and keeps its place in the map | `Rebase` |
| Test2 IPC (`Test2/IPC/Driver/Files.pm`, `Test2/API/Instance.pm`, `Test2/Hub.pm`, `Test2/API.pm`, `Test2/AsyncSubtest.pm`) | a directory of files, event numbers on both sides, the hubs and their failures | `add_hub`, `send`, `cull`, `drop_hub`, `abort`, `set_exit`, `_ipc_wait`, `DESTROY` | forked children, `readdir` racing with them, kills, a wait with an alarm, clean-up that checks what it removes | no event and no failure lost by a test that passes | `TestIPC` |
| Locks of the perl core (`CORE/thread.h`, `CORE/perl.h`, `mortal_getenv` in `CORE/inline.h`) | a mutex with a count of readers, the recursive locale mutex and its counter per thread, the LC_NUMERIC state | `PERL_READ_LOCK` ... `PERL_WRITE_UNLOCK`, `LOCALE_LOCK_`, `STORE_LC_NUMERIC_...`, `RESTORE_LC_NUMERIC`, `mortal_getenv` | readers that do not hold the mutex, sleeping writers, a memory logger that reads the environment while the lock is held, four builds | readers or one writer, no lost wakeup, nobody waits for himself, libc's buffers and locale are shared by nobody | `PerlRWLock`, `RWPromise`, `PerlLocks` |
| Argument stack (`rpp_...` in `CORE/inline.h`) | the stack, reference counts, temps stack, `@_` | pop, push, replace, `rpp_context`, `rpp_is_lone`, `clear_defarray_simple` | destructors that run in the middle of a helper and use the helpers, or exit from them; two builds | counts equal references, nothing in use is stolen | `ArgStack` |
| Context stack (`cx_...` in `CORE/inline.h`, stackinfos, JMPENV and MULTICALL in `CORE/cop.h`) | contexts, stackinfos, pad, depths, `$_`, `@_`, savestack, marks | push and pop of each type of context, die, callbacks | code that runs while a scope is half left, die through callbacks and destructors | all that a scope changed is restored; die resumes in the right runloop | `CxStack`, `ScopePromise` |
| UTF-8 (`CORE/inline.h`, tables in `CORE/perl.h`, `CORE/utf8.h`, `CORE/regcharclass.h`) | a buffer that is filled in pieces | the automata, validation, decoding, hops | tables made by hand, characters cut by the end of a buffer, hops from within a character | they agree with the definition of UTF-8 | `Utf8` |
| `TAP::Harness` with `TAP::Parser::Scheduler` and `TAP::Parser::Multiplexer` | the scheduling tree with its placeholders, parsers and their handles, the aggregate | `get_job`, `finish`, `add`, `next`, `_aggregate_parallel`, `_bailout` | a tree that is pruned while jobs are out, a list of ready handles kept over calls | sequences keep their order, all tests are run | planned |
| `TAP::Parser` | plan, counts, state of the grammar | `next`, state table, verdict | order of plan, tests and end | verdict agrees with what was read | planned |
| `Tie::File` | offsets, read cache, deferred writes, file | `FETCH`, `STORE`, `SPLICE`, `flush`, `discard`, `autodefer` | one record in three places, one memory limit for two buffers | behaves as an array of lines | planned |
| `CPAN::Queue` | one list with types of requirement | `qpush`, `jumpqueue`, `delete_first`, `reqtype_of` | duplicates | | planned |
| `App::Prove::State`, `Memoize::Expire` | a saved state file; expiry data | save, load, select; store, fetch, exists | interrupted save; two clocks | | planned |
| Configuration and index scripts (`base-files-*.sh`, `0p_update-info-dir.dash`, `update-crypto-policies`, `update-ca-trust`, `ca-legacy`) | files copied or generated under `/etc` and `/usr/share` | postinstall, preremove, update | interrupted scripts, edits of the user | edits survive, generated files get up to date | planned |
| `gzexe`, `znew`, `zforce` | a file, its temporary and backup names | replace a file | failure of any command | data are never in no file | planned |
| `ssh-host-config`, `cygserver-config`, `csih` | Windows accounts and services | dialogues | outside the scripts | | not modelled |
| `rebaseall`, `peflagsall`, filters over compressed files, `backup`, `restore`, other command scripts, login environment, the owner's batch files and notes | none of their own | | | | not modelled |
| the rest of the Perl library, the other headers, binaries, data | | | third-party, generated or compiled | | not modelled |

How they interact: `Thread::Queue` and `Thread::Semaphore` stand on
`threads::shared`, whose compiled part is not here. The three scripts of
`_autorebase` share nothing but files under `/var/cache/rebase`. A Test2 test
file and its children share nothing but a temporary directory; the driver talks
to hubs, hubs to the API, the API to the exit status. `TAP::Harness` runs such
test files and sees their output and exit status only. `mortal_getenv` and the
libc macros of perl take the environment lock, which is the readers/writer lock
of `thread.h`: `PerlLocks` extends `PerlRWLock`. The helpers of the argument stack run on the
stack that the contexts delimit; the two meet only in the destructors that a freed
SV starts, which each of the modules has. Apart from that the parts do not call
each other, so each is composed from its own processes: threads, or setup, user
and scripts, or main process and children, or the C functions that are suspended
while Perl code runs.

### Plan

1. `ThreadQueue`, `QueuePromise`, `ThreadSemaphore`, with proofs — done.
2. `Rebase`, with proofs — done.
3. `TestIPC`, with proofs — done.
4. `PerlRWLock`, `RWPromise` and `PerlLocks`, with proofs — done.
5. `ArgStack`, `CxStack` with `ScopePromise`, and `Utf8`, with proofs — done.

Left in the plan:

6. `TAPHarness`: the scheduling tree, the multiplexer and the fill loop, with an
   abstract specification that says only that the order of the sequences is kept
   and at most so many tests run. What is hard there: a tree that is pruned while
   jobs are out (Scheduler.pm:354), a spinner that ends the fill loop
   (Harness.pm:631), a list of ready handles kept over calls (Multiplexer.pm:149).
7. `TieFile`: read cache, deferred-write buffer and file against a plain sequence
   of records, as a refinement (File.pm:225, 239).
8. Scripts that replace files: one module of a configuration file's life, one of
   `gzexe` and `znew`, with a failure or kill at each step (znew:117,
   0p_update-info-dir.dash:13).
9. `CPANQueue` (Queue.pm:117), the state of `prove` (State.pm:489),
   `Memoize::Expire`.

Every safety property that a passing run checks is proved, some under the assumptions
listed below.

## The modules

| Module | What it is |
|---|---|
| `ThreadQueue` | `Thread::Queue`, its threads and its wait set |
| `QueuePromise` | the abstract queue its documentation describes |
| `ThreadQueueProofs` | theorems about both |
| `ThreadSemaphore`, `ThreadSemaphoreProofs` | `Thread::Semaphore` and theorems about it |
| `Rebase`, `RebaseProofs` | `_autorebase` and theorems about it |
| `TestIPC`, `TestIPCProofs` | Test2's file driver, hubs and exit status, and theorems about them |
| `PerlRWLock` | perl's emulated readers/writer lock |
| `RWPromise` | the readers/writer lock its comment describes |
| `PerlLocks`, `PerlLocksProofs` | the locks around libc calls, on top of `PerlRWLock`, and theorems about both modules |
| `ArgStack`, `ArgStackProofs` | the helpers of the argument stack, and theorems about them |
| `CxStack`, `CxStackProofs` | contexts, stackinfos, runloops and callbacks, and theorems about them |
| `ScopePromise` | what entering and leaving a scope promises |
| `Utf8`, `Utf8Proofs` | recognising, decoding and moving by characters, and theorems about them |
| `MCThreadQueue`, `MCThreadSemaphore`, `MCRebase`, `MCTestIPC`, `MCPerlLocks`, `MCArgStack`, `MCCxStack`, `MCUtf8` | small values for the constants |

### ThreadQueue

Every method locks the object for its whole body and gives the lock up only in
`cond_wait` and `cond_timedwait`. A method is therefore one atomic action up to
its return or its wait (`Enqueue`, `Dequeue`, `DequeueNb`, `DequeueTimed`,
`SetLimit`, `End`, `Insert`, `Extract`), and one `Resume` each time a waiting
thread has the lock again. `waiters` is the wait set; a signal removes any one
member, `SpuriousWakeup` removes one without a signal, `TimeOut` is the end of a
timed wait. The assignment to `limit()` happens after the method's lock is gone,
so `EnqueueLoop` reads `LIMIT` twice and may see two values.
Items are numbered in the order in which they entered; `nput` and `taken` are
history. `peek` and `pending` only read.

`QueuePromise` knows no wait set: a request is pending and it is served, in one
step. `KeepsPromise` says that `ThreadQueue` implements it, with pending request
= call in progress.

### ThreadSemaphore

The same treatment of `Thread::Semaphore`; here `up` broadcasts. `start`, `got`,
`forced` and `given` are history sums.

### Rebase

One action is one command of the scripts: the commands of the trigger
(`TriggerRebuild`, `TriggerRebuildSet`), the four reads of the flag files
(`ReadPeflags`, `ReadMode`, `ReadFull`, `Finish`), and for each of the five
caches the steps of the worker: `Remove`, `Touch`, `Move`, `Head`, `Scan` (what
find or grep sees) and `Append`; then `ClearDb`, `DoRebase` or `RebaseFails`, and
`DoPeflags`. Time stamps are only ever compared, so each cache file has the set
of the things stamped after it (`newer`, `newerOld`). `Build` is setup or a
program that makes a module, `Crash` a kill. Compiled programs (`rebase`,
`peflags`) are modelled by what they are told to do. Objects are of five kinds: packaged (each is a package), in an advertised directory,
advertised by name (`Named`), in a list that is advertised by name (`Lists`, its lines
`Lines`), and executables. The worker greps each advertised file for names (`Grep`): an
object that is `Named` is itself taken for such a list. `missed` is history: the
objects that were not in the map when a run was killed or failed, or were built while a
run was at work, until a run from scratch begins or they are mapped.

### TestIPC

The children: `Fork`, `SendCheck` (is the hub's file there? which number?),
`Store`, `Rename`, `SendFails` (abort), `Interrupt` (a signal handler dies before
the signals are blocked; the number is used up), `Bail`, `Leave`, `Kill`. The directory
can change between any two of these. The main process: `NewHub`, `Poll`,
`Finish`, the cull as two steps, `OpenDir` and one of `CullTake`, `CullBail`,
`CullAbort`, `CullMissing`, where `Listings` are the sets `readdir` may return:
all that was there at `opendir` and any part of what has come since. Then
`Drop` (unlink the hub's file), `Dropped` or `DropFails`; `End`, `Reap`,
`WaitDone` or `WaitTimeout` (`_ipc_wait`), the last cull of the root hub, and
`Destroy`, `Unlink` or `UnlinkFails`, `Rmdir`. `SkipDrop` is global destruction
in the other order. `status` is the exit status of the main process: `"unset"` as long
as it is the script's, then what `exit(255)` or the last line of `set_exit` makes of it.
The last cull of the root hub happens inside the block of `set_exit` that has
localized `$?`; `Exit255` from there leaves the status as it was (`LastCull`). `Age` makes 5 seconds pass for events that wait for a
missing one.

### PerlRWLock and PerlLocks

A reader holds the mutex only while it changes the count; a writer keeps it, and
sleeps on the condition variable while there are readers. `PerlRWLock` has an
action per `MutexLock` and one per stretch with the mutex held: `ReadInc`,
`ReadDec`, `WriteTest` (one turn of the loop), `WriteUnlock`; `SignalAndMove`
removes any one sleeper. `RWPromise` is the lock of the comment, with entering
and leaving as single steps; `KeepsPromise` maps the readers and writers inside.

`PerlLocks` extends it. `Code(kind)` is the list of macros around a libc call,
which depends on the build (`conf`); `todo[t]` is what a thread has still to run,
so that every interleaving of single macros is explored. `LocaleLockStep` and
`LocaleUnlockStep` are the recursive locale mutex with its counter per thread.
`OpenBracket`, `Toggle`, `Disable`, `CloseBracket` are the LC_NUMERIC macros,
which nest. `Allocate` is the memory logger under `mortal_getenv`: it puts another
`getenv` in front of what the thread has to do, lock included.

### ArgStack

One action per helper (`rpp_popfree_to`, `rpp_push_1`, `rpp_replace_2_1`,
`rpp_context`, ...). What a helper does at once is in the action; what it does
after it has freed something is a list in `work`, because freeing the last
reference starts a destructor: Perl code on a new stack that may use every
helper, suspended functions nested below it. `stack` holds the stacks of all of
them, one on top of the other; that of the running code begins above `Base`, which
the destructor's entry in `work` remembers, as `push_stackinfo` switches to a new
array and `pop_stackinfo` back. `Throw` leaves them all: the stacks
are unwound and the temps freed, and what only C variables referred to is lost.
`off` counts by how much the counts are wrong, and for which SV; it can be
other than 0 only for the helpers of two SVs whose C code keeps one in a local
variable. `result` is the stack as documented. Callers' operations (`NewSV`, `Forget`,
`Mortalise`, `FREETMPS`, `EnterSub`) are modelled from how the code uses them.

### CxStack

`cxstack` and `si` are the contexts and stackinfos, `cstack` the C functions that
take part: runloops under a JMPENV, MULTICALL callbacks, scopes being left, die.
One action pushes each type of context; `LeaveOp`, `ClearSV`, `CallDestructor`
and `PopContext` leave one, in the order of the code: empty the savestack, in
which destructors may run, then pop. `POP_MULTICALL` begins the same way, with its
CX_LEAVE_SCOPE, and `EndMulticall` is the rest of it, once the savestack is down. `Unwind` is die, one context at a time and
one stackinfo after the other, until `PopContext` finds the eval that catches and
cuts `cstack` back to its JMPENV. An abstraction: destructors of the elements of
`@_` run before `PopContext` and not in the middle of `cx_popsub_args`.
`ScopePromise` is a stack of saved environments; `KeepsScopes` maps each context to the
environment it was entered in, put together from what the contexts above it have
saved (`EnvBefore`), since each type of context saves only what it changes.

### Utf8

The three automata with their tables of classes and transitions, as they are in
perl.h, and on top of them the validation of strings for each automaton, of
partial characters and of buffers, decoding and the hops with and without limits,
as functions. A loop of the code is `Loop(body, n, x)`: `n` turns, turn
`i` being the function `body[i]`; a turn after the code has left its loop
changes nothing. The state machine is a reader that fills a buffer and validates it
in pieces, each from where the last ended.
The reference is the definition of UTF-8 by values (`IsCharacter`, `Value`,
`Least`), written without the tables.

## The runs

| Run | Configuration | States (distinct) | What it shows |
|---|---|---|---|
| `queue_unlimited` | 4 threads, no limit, one item per blocking call, up to 4 items | 15,847 | `NoLostWakeup`; `KeepsPromise` under fairness: order, and answers to every call that can be answered, also after `end` |
| `queue_indexed` | 2 threads, counts 1 to 3, limits that change, indices -3 to 2 | 700,573 | `Conservation`, `ShortOnlyAtEnd`, `OnlyBlockedEnter` with every method |
| `semaphore` | 3 threads, amounts 1 and 2, a forced 2, starts -1 to 1 | 60,974 | `NoSleepWhenAvailable`, `NeverOversold`; `DownGetsThrough` under fairness |
| `rebase_incremental` | one object of each kind and a list, both modes, failures, nobody else active during a run | 1,125,757 | `NothingForgotten` |
| `rebase_crash` | two objects, both modes, one kill anywhere, builds and triggers during a run | 3,248,520 | `NothingForgotten`, `RunCovers`, `StaysMapped`, `DoneIsEarned` |
| `rebase_served` | two objects, one kill, rebase may fail | 121,846 | `EventuallyMapped`, `FullServed` |
| `ipc` | one child, root hub and one subtest, two events to each | 428,715 | `Ordered`, `NothingLost`, `FailureReported`, `NothingLeft`, `NoFalseMissing`; `MainEnds` under fairness |
| `locks` | 3 threads, seven kinds of calls, four builds, brackets nested twice | 768,043 | `ReadersCounted`, `WakeupPending`, `RaceFree`, `NumericAsNeeded`, `NoSelfDeadlock`, `LocaleOwned`, `KeepsPromise`; `WaitersServed` under fairness |
| `argstack` | 2 SVs, 3 items, destructors that use one item of their own stack, one exit, with and without counted stacks | 687,782 | `CountsAgree`, `LoneIsStealable`, `AsDocumented` |
| `cxstack` | 2 subs, 3 contexts, 3 stackinfos, 2 variables, 1 mark | 307,799 | `CallerKnown`, `CvAccounted`, `CatchesInPlace`, `ClearsOwnPad`, `KeepsScopes` |
| `utf8` | all strings of up to 4 bytes over 20, of up to 6 over 6, cut anywhere | 757,297 | `RecognisesCharacters`, `ChunksAgree`, `HopsCount` |
| `utf8_hop_outside` | the same | violation | `HopStaysInside` fails |

Each property of a passing run has a mutant: a change to one definition that a
plausible slip in the code would make ("Seeded bug" in the modules), with which
the property fails under the same configuration.

`CHECK_DEADLOCK FALSE` stands where the program may stop: all threads may block
in the queue or the semaphore, a test file ends, so does a program after an exit
(`ArgStack`), and a reader stops at what it refuses (`Utf8`).

### Bounds, and why they are enough

- Threads: a lost wakeup needs a sleeper, a second sleeper that gets the signal,
  and one that signals; the fourth thread lets a signal, an end and a time-out
  overlap. Four items are one per thread. `MaxPut` only stops new calls.
- The indices -3 to 2 reach before, into and behind every queue of up to four
  items; counts up to three exceed every batch. `Conservation` says that no item is lost
  or doubled; a wrong index that takes another item than the one asked for it would
  not see.
- Rebase: objects do not influence one another except through the caches and the
  flags, so one object of each kind shows all of the former and any two all of
  the latter. One kill: the state after a kill is a state from which a run
  starts again, and a second adds to it nothing the first could not.
- TestIPC: with one child, two events per hub are the least with a gap, an order
  and a late one. Children do not talk to each other, and the theorems below
  hold for any number of them; the run is there for the liveness, the mutants
  and the reachability of every action.
- Locks: two writers that sleep on one reader are the least for a wakeup that
  reaches the wrong one, which takes three threads. Any two kinds of calls that
  share a buffer, the environment, the globals of tzset or the locale meet;
  `localtime`, `strftime` and `putenv` meet themselves too, and `mortal_getenv` the logger's
  `getenv`, which shares its buffer (`mblen` and `setlocale` do not meet themselves, but
  each other, under the same lock); each value of each switch of the build meets each
  value of every other. Brackets nested twice are the least in which an
  inner one must leave what the outer one needs.
- ArgStack: two SVs and two items are what the largest helper handles, and the third
  item shows that the rest of the stack is left alone. One item on a destructor's
  stack, two mortals and two owners are enough to keep an SV alive in every
  place it can be. One exit: the program is over after it.
- CxStack: a callback or destructor needs a stackinfo, and one inside the other a
  third; with three contexts each type is inside each other one, and a
  destructor that calls a sub can run inside POP_MULTICALL. The theorems below hold for
  all bounds.
- Utf8: `EdgeBytes` has a byte of every class and both sides of each edge at which the
  tables change; four bytes are the longest Unicode character. The bytes of
  `LongBytes` begin and continue characters of two, five and six bytes and
  overlong forms. FE and FF, whose values take more than 31 bits, are left out.
  The theorems below hold for all strings over the other bytes. `HopsCount` hops
  with the end of the string as the limit; limits inside of it, and `end - s` below zero,
  are the matter of `HopStaysInside` and the theorem `Utf8HopLimit`.

### Fairness

- Queue and semaphore: `WF(Resume(t))`: a thread that can have the lock gets it.
  `SF(TimeOut(t))`: the deadline is absolute, so being woken and waiting again
  does not put it off.
- Rebase: `WF(Autorebase)` and `WF(TriggerRebuildSet)`: a script that is not
  killed goes on. `SF(ReadPeflags)`: setup is run again and again, which is when
  the script starts. `SF(DoRebase)`: rebase, tried again and again, does not fail
  for ever. The bound on kills is the assumption that they end.
- TestIPC: `WF(Main)` alone. Nothing is asked of the children; what makes the
  main process go on is its alarm.
- Locks: `WF(Step(t))`: a thread inside a macro goes on when nothing holds it up.
  Nothing is asked of a thread that is outside of all of them.

## The proofs

For all values of the constants, unless an assumption is named:

| Theorem | Assumes |
|---|---|
| `ThreadQueueProofs`: `TypeCorrect`, `ConservationCorrect` | — |
| `ShortOnlyAtEndCorrect`, `OnlyBlockedEnterCorrect` | — |
| `FifoCorrect` | `Indices = {}`: `insert` and `extract` are not used |
| `NoLostWakeupCorrect` | `Unlimited`, `OneAtATime`: blocking calls ask for one item |
| `KeepsPromiseSafety` (`Promise!PSafety`) | `Unlimited`, `Indices = {}` |
| `ThreadSemaphoreProofs`: `TypeCorrect`, `NoSleepWhenAvailableCorrect`, `NeverOversoldCorrect` | — |
| `RebaseProofs`: `TypeCorrect` | — |
| `StaysMappedCorrect`, `DoneIsEarnedCorrect` | `~MayFail`: rebase does not fail; kills and builds at any time |
| `NothingForgottenCorrect`, `RunCoversCorrect` | —; kills, failures and builds at any time (what they may lose is `missed`) |
| `TestIPCProofs`: `TypeCorrect`, `OrderedCorrect`, `NoFalseMissingCorrect` | — |
| `NothingLostCorrect`, `FailureReportedCorrect`, `NothingLeftCorrect` | `~NoWait`: `test2_no_wait` is not set |
| `PerlLocksProofs`: `RWInvariant`, `CountExact`, `NoWakeupLost`, `ImplementsLock` | a finite set of threads |
| `EnvIsRWLock`, `EnvCountExact`, `EnvWakeups`, `EnvImplementsLock`, `LocaleExclusive` | the same; every build, all sections |
| `LocksInvariant`, `LocksTypeOK`, `LocksNoSelfDeadlock`, `LocksRaceFree`, `LocksNumericAsNeeded` | the same; brackets nested to any depth |
| `ArgStackProofs`: `ArgInvariant`, `ArgTypeOK`, `ArgCountsAgree`, `ArgLoneIsStealable`, `ArgAsDocumented` | — (any SVs and bounds, both builds, with and without exits) |
| `CxStackProofs`: `CxInvariant`, `CxTypeOK`, `CxCatchesInPlace`, `CxCallerKnown`, `CxCvAccounted`, `CxClearsOwnPad`, `CxKeepsScopes` | — (any bounds) |
| `Utf8Proofs`: `Utf8Invariant`, `Utf8RecognisesCharacters`, `Utf8ChunksAgree`, `Utf8HopsCount`, `Utf8HopLimit` | — (strings of any length, hops of any size; all bytes but FE and FF) |

The assumptions that carry weight are exactly those without which the code does
something else; the differences listed below say what.

Arguments:

- *Queue.* `NoLostWakeup` is not inductive. `Wake` says that a sleeper whose
  condition holds implies a thread that is awake in a call and will signal, and
  `NeedOne` that every need is one, so that whoever takes the signal can use it or
  passes it on. Without a limit nobody sleeps in `enqueue`
  (`NoBlockedEnqueue`). `OnlyBlockedEnter` holds without any invariant but the types:
  after the end a step either is the return of an `enqueue` that waited or puts nothing
  (`OtherCalls`). `ShortOnlyAtEnd` is about the
  step in which a blocking call returns: no other thread's step ends a call, and the
  loop's exit hands out all that was asked for unless the queue has ended. For
  `KeepsPromiseSafety` each action maps to one action of the promise or to a stutter;
  a wakeup without effect is the stutter.
- *Semaphore.* `up` broadcasts, so the invariant is the property with the types.
- *Rebase.* `Control` says where in the chain of caches a run may be, `Contents`
  what the caches of a run from scratch must contain; `OwedInv` and `OnceInv`
  carry every owed object along the way (`OnWay`: each object is in the cache
  that is being made, or in one that is still to be read). `TrackInv` does the
  same for incremental runs, where an object that is neither mapped nor `missed` must be
  stamped after the cache that will be compared with it.
- *TestIPC.* `EventInv` ties the event being sent to its sender's counter.
  `OrderInv` says that what a hub has processed is what `read_ids` says.
  For `NoFalseMissing`, `ReadyInv` says that what a sender may still deliver
  (`Coming`) has higher numbers than all it has delivered, and `WaitedInv` that an
  event that had to wait once has those of its predecessors that exist among the
  files that the next cull sees at `opendir`. So a gap that is still there then
  is the number of an event that is in no file and in nobody's hands (`Lost`),
  which it stays; waiting 5 seconds or more makes no difference.
  `LastInv` says that once the last cull has begun no child is left, so that what
  `DESTROY` finds is what the cull has left; `KeptInv` that what was sent is
  processed or still in the directory, and a failure known to a hub or announced
  in a file; `MainInv` that subtests left open make the test fail; `StatusInv` that
  the status is 0 only when none of this has happened, and left unset only by an exit
  of the last cull (`LateStays`: there is no other cull after it).
- *Locks.* `RWInv` joins the count of readers, the owner of the mutex and mutual
  exclusion: a writer that has seen a count of zero keeps the mutex, so no
  reader can change it. `ReadersCounted` needs the cardinality of a set that loses or
  gains one member. `WakeupPending` then is inductive: the last reader wakes a
  sleeper, and whoever is awake tests or writes. `EnvIsRWLock` maps a step of `PerlLocks`
  to a step of `PerlRWLock` or a stutter, so that its theorems carry over.

- *Locks around libc calls.* What a thread has still to run is a list of macros,
  and the properties are about what these will do. `WellOrdered` says of any two
  macros of the list in which order they come, and that what a macro relies on is
  undone behind it and not before. `PlaceFits` ties the thread's place in
  `PerlRWLock` to the list: while it reads, the unlock is ahead and no lock of the
  environment is. That gives `NoSelfDeadlock` and, with mutual exclusion,
  `RaceFree`. `NumericAsNeeded` needs to know how the open brackets have nested.
  `Bracketed` says that there are values of PL_numeric_standard and levels of the
  locale lock, one for each bracket, that account for what every bracket
  has saved, for the current value and for the depth: the levels inside the innermost
  bracket, and what the rest of the list has still to add or to give back.
  `ActualKnown` says that the process's locale is what the owner of the locale mutex
  believes it to be, and "C" when there is no owner; a thread with a locale of its own
  needs none.
  `LocksRaceFree` has two exceptions (`Unguarded`): the locale in `localtime` where it is
  shared, and the globals of tzset in two calls of `strftime` (see below).
- *Context stack.* None of the properties is inductive, and they need one another:
  a context is popped correctly only if it is the right one. The invariant has
  three parts beside the types. `Structure` is about how the three stacks fit
  together: which C function may stand on which (`Frames`), what CATCH is in each runloop
  (`Catches`), which function a stackinfo belongs to and the reverse (`Infos`,
  `Owners`), what is at the bottom of a stackinfo (`Bottoms`), that a function
  that empties the savestack leaves the topmost context, and for POP_MULTICALL the only
  one of its stackinfo (`Leavings`), that a die has an
  eval to end at (`Dies`), and that an eval's runloop is the one of its stackinfo or the
  one docatch started for it (`EvalLoops`). `Data` is about what contexts have recorded.
  A context saves all it may restore, whether its type uses the
  field or not; so neighbours in the stack differ only by what the type
  of the lower one changes (`Changes`), and what was in force when a context was
  entered can be read off it. The entries of the savestack above `oldsaveix` of a
  context name its own pad (`PadsSaved`), and the depth of a sub is the number of its
  contexts, of which each holds the depth below it (`Depths`). `Callers` says
  that each `old_cxsubix` is the index of the topmost caller below. For
  `CxKeepsScopes` it is proved that what `EnvBefore` finds, by looking for the
  first context above that has saved something, is what the context recorded itself;
  then each action maps to entering, working in or leaving a scope.

- *Argument stack.* `CountsAgree` needs `Plans`, what the suspended functions have still to
  do. `Heights`: the stack of each destructor begins where those of the
  functions behind it end, and none of these pops below its own. `Drops`: a slot
  whose reference has been given up, and which the helper will drop when it goes on,
  is still the topmost one of its stack, whatever ran in between; so what is
  dropped is what had been freed, and no reference is given up twice. `Simple`: no
  function but the fast ones keeps more than one reference in C variables alone, which
  is why an exit loses nothing but theirs. `Outcome` follows the program's own
  helper below all destructors: the number of items to which it will pop, with the
  undef that it may still push, makes the stack the documented one. The steps of
  the helpers then are equations between numbers of places in sequences (`Counted`),
  for which the module first proves what appending, popping, replacing and
  swapping do to such a number. `LoneIsStealable` follows from
  `CountsAgree` and from `Mortals`, that an SV marked as a mortal is on the temps stack.

- *UTF-8.* The library's induction rules are about formulas and cannot be used, but
  induction over a set of numbers can: `UpTo` says that a set that has 0 and, with
  each number below `n`, the next one, has all of them, which follows from the
  library's fact that a nonempty set of naturals has a least element (`WFMin`,
  `NatLessThanWellFounded`). From it come the existence of the recursive
  function inside `Loop` (`LoopTurns`) and the rule for a loop's invariant
  (`LoopInvariant`), given as one set of values per turn.
- *UTF-8, characters.* `ExtGoto`, `C9Goto` and `StrGoto` read the three tables as
  functions of the byte. A `Language` is a set of beginnings of characters with an
  automaton's state after each; `Automaton` shows of any automaton with a language
  that it accepts exactly the full members, and is between two states exactly on the
  other beginnings. `ExtTable`, `C9Table` and `StrictLanguage` give the languages of
  the tables. On the other side, arithmetic (`Three`, `Four`, ...) turns what the
  definition says of a value - not overlong, no surrogate, no noncharacter, not above
  10FFFF - into ranges of the second, third and fourth byte (`Judged`), so that the
  characters of each set of code points are the full members of a language
  (`EncodesExtended`, `EncodesC9`, `EncodesStrict`, the last with the Hangul that
  begin with ED).
- *UTF-8, strings and streams.* A `Cut` is a set of positions with one character
  between neighbours; two cuts that meet join (`CutJoin`). The invariant of the loop is
  that what is behind it has a cut of `el + 1` positions (`LocatesEnd`). `Utf8Inv` says
  the same of the stream, and `ValidatesMore` that a call which goes on where the last
  one stopped adds its characters to it.
- *UTF-8, hops.* In a well-formed string the positions of every cut are those without a
  continuation byte (`CutsAreBounds`), so there is one cut. The invariants of the
  loops (`Forth`, `Back`) count the bounds between start and pointer, and `ForthEnd`
  and `BackEnd` show that this number determines where the hop ends.

Only model-checked: everything under fairness (`KeepsPromise`'s liveness,
`DownGetsThrough`, `EventuallyMapped`, `FullServed`, `MainEnds`,
`WaitersServed`), which is out of the prover's reach.

## Where code and documentation differ

A run, `utf8_hop_outside`, shows the first of these. For the others there is a configuration
beside those of the runs, named with each: TLC finds the property violated that it checks
(`tlc -config Queue_ended.cfg MCThreadQueue`, and so on).

- `utf8_hop_forward` from within a character looks for the next start without a
  test for the end (inline.h:2919), which its documentation says it does not pass
  (inline.h:2895-2897; `HopStaysInside`). `Utf8HopLimit` shows that it is the only way
  a hop leaves its limits.
- `enqueue` tests `ENDED` before it waits at the limit and not after (Queue.pm:30,
  37): items enter an ended queue, against Queue.pm:522 (`NothingAfterEnd`, Queue_ended.cfg).
  `OnlyBlockedEnter` says how far this goes: only calls that waited already get in.
- One `cond_signal` can reach a `dequeue(2)` that waits again and does not pass it
  on, while a `dequeue()` sleeps in front of its item (Queue.pm:41, 456-458;
  `NoLostWakeup`, Queue_counts.cfg).
- An object whose name a file in `dynfile.d` gives is not rebased: `rebase_dyn` greps
  the lines of that object (rebaselst:251-254), although the README says that objects
  are advertised there, one absolute name per line (_autorebase.README:31-35;
  `NamedCovered`, Rebase_named.cfg).
- An incremental `_autorebase` killed between `update` and `rebase` does not look at
  the object again (rebaselst:137), although "dynamic objects that have been installed
  after the last run of rebase will be considered" (_autorebase.README:5-8;
  `AllConsidered`, Rebase_killed.cfg).
- The driver's `abort` "will forcefully exit 255" (Driver.pm:82-86), but in the last cull
  it exits from inside `{ local $?; ... }` (Instance.pm:551-553): `$?` gets its old
  value back, and a test that has an event missing may end with status 0
  (`AbortExits`, Ipc_status.cfg). The same holds for an abort or bail-out of a child that is first
  seen there; `FailureReported` excepts exactly these cases.
- `drop_hub` matches leftovers by the beginning of the hub's id, so that the
  events of hub `...~12` count as leftovers of `...~1` (Files.pm:122, 149;
  `LeftoversAreOwn`, Ipc_prefix.cfg).
- `rpp_popfree_2_NN` and `rpp_replace_2_1_COMMON` read both counts before they
  write either (inline.h:577): if both items are the same SV one reference is never
  given up, although inline.h:558-560 excludes nothing but NULL pointers
  (`FastAsSlow`, ArgStack_same.cfg).
- `strftime` "effectively" calls `tzset`, writes its globals and needs exclusive access
  (perl.h:7221-7226), but `STRFTIME_LOCK` (perl.h:7218) locks the environment for
  reading only, and the locale not at all where it is per thread: two threads are in
  `strftime` at once (`TzsetExclusive`, Locks_strftime.cfg). `RaceFree` excepts exactly this pair.

Without a configuration of its own:

- A full rebase that fails is marked as done (`DoneIsEarned` fails when
  Rebase_crash.cfg has `MayFail = TRUE`).

Seen while modelling:

- perl.h:7138 asks for `LOCALE_LOCK_DOES_SOMETHING`; the name that is defined has an
  underscore at its end (perl.h:7094). So `gwENVr_LOCALEr_LOCK` is always `ENV_LOCK`,
  and `localtime` does not have the locale locked where that is shared,
  contrary to the comment at perl.h:7127-7137.
- A destructor that exits from `rpp_popfree_2_NN` leaves a freed SV on the stack,
  which is then freed again; one that exits from `rpp_replace_2_1_COMMON` loses
  the second SV (inline.h:576-592, 867-899).
- Queue: a sleeping `enqueue` can be forgotten at the limit as a `dequeue` can;
  `limit = 0` wakes nobody; with a lowered limit a woken `dequeue` croaks and
  passes no signal on. `dequeue_timed(undef)` croaks although Queue.pm:488 allows
  it. `down_timed` accepts a time-out that its documentation excludes
  (Semaphore.pm:213-215).
- Rebase: `--noaslr` never acts (rebaselst:162, 93-94). The request for peflags is
  removed before it is served and never renamed (0p_000_autorebase.dash:7,
  rebase-trigger:59-60). `peflags` uses the list of advertised executables only,
  and nothing reads that of installed ones (rebaselst:312, 100-102). Files that are
  advertised by name are ignored while no directory is advertised
  (rebaselst:241, _autorebase.README:31-34), and so are executables in
  directories while no file is. The default is a scan from scratch; the
  README describes the incremental one.
- Test2: when the system uses a process id again, the new process begins with
  number 1 in files the reader has counted already (Files.pm:68). Children of
  children are not waited for. `AsyncSubtest::wait` ignores the status of a child
  that has exited.

## What is not modelled

- Queue: the values of items (`shared_clone`), `peek`, counts and indices that are
  not integers: those calls croak before they do anything.
- Rebase: the `sed` filters that keep a few names off the lists, debug output, file
  modes; several objects in one package.
- TestIPC: threads in the place of processes, children of children, process ids
  used twice, `T2_KEEP_TEMPDIR`, `no_fatal`, file operations that fail for other
  reasons than that the directory is gone, plans and contexts; a root hub that
  is finalized during the run (`done_testing`). Once the main process has called
  `exit(255)` outside the last cull, its exit status stays 255 and what `END` and
  `DESTROY` still do is not followed.
- Locks: the plain mutexes of perl.h and thread.h, the macros of `reentr.h`, which
  combine the same locks, `SET_NUMERIC_STANDARD` and `SET_NUMERIC_UNDERLYING`.
- ArgStack: overloading (`rpp_try_AMAGIC`), growing the stack, `rpp_invoke_xs`,
  stacks that are counted in their lower half only. `Perl_rpp_free_2_`, compiled code
  that gets both counts as they were read before (inline.h:588, 891), frees
  one SV after the other with the count each has at that time.
- CxStack: `given` and `when`, plain loops, `cx_topblock`, `CHANGE_MULTICALL`, the
  parser's fields of an eval, die without any eval.
- Utf8: EBCDIC, the compiled helpers for malformed input; loops that work word by word are
  modelled by what they return.
- The other headers of perl and of the C library (`proto.h`, `config.h`,
  `uni_keywords.h`, `opcode.h`, `regnodes.h`, `embed.h`, ...) are prototypes,
  configuration, generated tables and accessors; the code that uses them
  (`sv.c`, the `pp` files, `regexec.c`) is not in the repository. They are most of the
  C lines of the tree, and most of the programs modelled here are Perl and shell.
- Of the rest of the tree: see the inventory. Compiled programs have no source
  here; dialogues with the user and with Windows decide the outcome of the service
  scripts; the other scripts keep no state.
