------------------------------- MODULE TestIPC -------------------------------
(***************************************************************************)
(* Test2's inter-process communication: a test file forks, its children    *)
(* send their events to the hubs of the main process as files in a         *)
(* temporary directory (Test2/IPC/Driver/Files.pm), the main process       *)
(* culls them, waits for its children at the end (Test2/API/Instance.pm)   *)
(* and turns what the hubs have seen into its exit status.                 *)
(*                                                                         *)
(* The directory is read with readdir, which may or may not return a file  *)
(* that is created while it runs.  Process ids are not reused.             *)
(***************************************************************************)
EXTENDS Naturals, FiniteSets

CONSTANTS
  Procs,      \* the processes that the main process forks
  Root,       \* the root hub of the main process
  Subtests,   \* the hubs of its subtests
  Prefixed,   \* pairs <<g, h>> of hubs where the id of h begins with that of g
  MaxEvents,  \* bound: how many events a process sends to one hub
  NoWait      \* BOOLEAN: test2_no_wait is set

Hubs   == {Root} \cup Subtests
Events == [hub : Hubs, pid : Procs, eid : 1..MaxEvents, fail : BOOLEAN]

ASSUME HubsAssumption ==
  /\ Root \notin Subtests /\ Prefixed \subseteq Hubs \X Hubs
  /\ NoWait \in BOOLEAN /\ MaxEvents \in Nat

VARIABLES
  tmp,        \* the temporary directory exists
  hubFiles,   \* the hubs whose file is in it
  stored,     \* the events written and not yet renamed
  ready,      \* the events renamed to *.ready
  bailFile,   \* a global Bail event is in it
  abortFile,  \* the ABORT file is in it
  st,         \* st[p]: where process p is in send
  knows,      \* knows[p]: the hubs that p has inherited
  event,      \* event[p]: the events p is sending, at most one
  ids,        \* ids[p][h]: event_ids, the number of the last event
  clean,      \* clean[p]: the wait status of p is 0
  pc, cur,    \* what the main process is doing, and to which hub
  ending,     \* the cull is that of finalize
  snap,       \* what was in the directory at opendir
  hst,        \* hst[h]: the life of hub h
  failed,     \* the hubs that have failed
  next,       \* next[h][p]: read_ids
  globals,    \* the hubs that have seen the global event
  waited,     \* timeouts: events that came before one that is missing ...
  aged,       \* ... and those of them that came more than 5 seconds ago
  bad,        \* it has called exit(255), or new_exit of set_exit is not 0
  status,     \* its exit status, "unset" as long as it is the script's, 0
  why,        \* why the main process has aborted, or "none"
  sent,       \* history: the events whose send has returned
  got,        \* history: the events processed by their hub
  alarm       \* history: processes that have aborted or bailed out

dir   == <<tmp, hubFiles, stored, ready, bailFile, abortFile>>
child == <<st, knows, event, ids, clean>>
main  == <<pc, cur, ending, snap, hst, failed, next, globals, waited, aged, bad, status, why>>
vars  == <<dir, child, main, sent, got, alarm>>

Empty == [ready |-> {}, stored |-> {}, abort |-> FALSE, bail |-> FALSE]
Steps == {"run", "cull", "drop", "left", "wait", "destroy", "unlink", "rmdir", "exit"}

TypeOK ==
  /\ tmp \in BOOLEAN /\ hubFiles \subseteq Hubs
  /\ stored \subseteq Events /\ ready \subseteq Events
  /\ bailFile \in BOOLEAN /\ abortFile \in BOOLEAN
  /\ st \in [Procs -> {"none", "idle", "checked", "stored", "dead", "reaped"}]
  /\ knows \in [Procs -> SUBSET Hubs] /\ event \in [Procs -> SUBSET Events]
  /\ ids \in [Procs -> [Hubs -> 0..MaxEvents]] /\ clean \in [Procs -> BOOLEAN]
  /\ pc \in Steps /\ cur \in Hubs /\ ending \in BOOLEAN
  /\ snap \in [ready : SUBSET Events, stored : SUBSET Events, abort : BOOLEAN, bail : BOOLEAN]
  /\ hst \in [Hubs -> {"new", "open", "ended", "dropped"}]
  /\ failed \subseteq Hubs /\ globals \subseteq Hubs
  /\ next \in [Hubs -> [Procs -> 1..MaxEvents + 1]]
  /\ waited \subseteq Events /\ aged \subseteq waited
  /\ bad \in BOOLEAN /\ status \in {"unset", "zero", "nonzero"}
  /\ why \in {"none", "abort", "missing", "leftover", "files"}
  /\ sent \subseteq Events /\ got \subseteq Events /\ alarm \subseteq Procs
  \* every event in the directory was numbered by its sender
  /\ \A e \in stored \cup ready : e.eid \in 1..ids[e.pid][e.hub] /\ st[e.pid] # "none"

Init ==
  /\ tmp = TRUE /\ hubFiles = {Root} /\ stored = {} /\ ready = {}
  /\ bailFile = FALSE /\ abortFile = FALSE
  /\ st = [p \in Procs |-> "none"] /\ knows = [p \in Procs |-> {}]
  /\ event = [p \in Procs |-> {}] /\ ids = [p \in Procs |-> [h \in Hubs |-> 0]]
  /\ clean = [p \in Procs |-> TRUE]
  /\ pc = "run" /\ cur = Root /\ ending = FALSE /\ snap = Empty
  /\ hst = [h \in Hubs |-> IF h = Root THEN "open" ELSE "new"]
  /\ failed = {} /\ globals = {} /\ next = [h \in Hubs |-> [p \in Procs |-> 1]]
  /\ waited = {} /\ aged = {} /\ bad = FALSE /\ status = "unset" /\ why = "none"
  /\ sent = {} /\ got = {} /\ alarm = {}

Alive(p) == st[p] \in {"idle", "checked", "stored"}

-----------------------------------------------------------------------------
(* The children *)

(* p is gone, with wait status 0 or not.                                   *)
Dies(p, c) ==
  /\ st' = [st EXCEPT ![p] = "dead"] /\ clean' = [clean EXCEPT ![p] = c]
  /\ knows' = [knows EXCEPT ![p] = {}] /\ event' = [event EXCEPT ![p] = {}]
  /\ UNCHANGED ids

(* fork: the child has a copy of every hub that is open.                   *)
Fork(p) ==
  /\ pc = "run" /\ st[p] = "none"
  /\ st' = [st EXCEPT ![p] = "idle"]
  /\ knows' = [knows EXCEPT ![p] = {h \in Hubs : hst[h] = "open"}]
  /\ UNCHANGED <<dir, event, ids, clean, main, sent, got, alarm>>

(* send, to a hub of another process: -f of the hub's file, and the name   *)
(* of the event's file.                                                    *)
SendCheck(p, h, f) ==
  /\ st[p] = "idle" /\ h \in knows[p] /\ ids[p][h] < MaxEvents
  /\ h \in hubFiles
  /\ ids' = [ids EXCEPT ![p][h] = @ + 1]
  /\ event' = [event EXCEPT ![p] = {[hub |-> h, pid |-> p, eid |-> ids'[p][h], fail |-> f]}]
  /\ st' = [st EXCEPT ![p] = "checked"]
  /\ UNCHANGED <<dir, knows, clean, main, sent, got, alarm>>

(* Storable::store                                                         *)
Store(p) ==
  /\ st[p] = "checked" /\ tmp
  /\ stored' = stored \cup event[p]
  /\ st' = [st EXCEPT ![p] = "stored"]
  /\ UNCHANGED <<tmp, hubFiles, ready, bailFile, abortFile>>
  /\ UNCHANGED <<knows, event, ids, clean, main, sent, got, alarm>>

(* do_rename to .ready, and the return of send                             *)
Rename(p) ==
  /\ st[p] = "stored" /\ event[p] \subseteq stored
  /\ stored' = stored \ event[p] /\ ready' = ready \cup event[p]
  /\ st' = [st EXCEPT ![p] = "idle"] /\ event' = [event EXCEPT ![p] = {}]
  /\ sent' = sent \cup event[p]
  /\ UNCHANGED <<tmp, hubFiles, bailFile, abortFile, knows, ids, clean, main, got, alarm>>

(* abort: the hub is gone, or the event cannot be written.                 *)
SendFails(p) ==
  /\ \/ st[p] = "idle" /\ \E h \in knows[p] : ids[p][h] < MaxEvents /\ h \notin hubFiles
     \/ st[p] = "checked" /\ ~tmp
     \/ st[p] = "stored" /\ ~(event[p] \subseteq stored)
  /\ abortFile' = (abortFile \/ tmp)
  /\ Dies(p, FALSE) /\ alarm' = alarm \cup {p}
  /\ UNCHANGED <<tmp, hubFiles, stored, ready, bailFile, main, sent, got>>

(* A signal handler dies between event_file and try_sig_mask: the event    *)
(* and its number are gone, and the child goes on.                         *)
Interrupt(p) ==
  /\ st[p] = "checked"
  /\ st' = [st EXCEPT ![p] = "idle"] /\ event' = [event EXCEPT ![p] = {}]
  /\ UNCHANGED <<dir, knows, ids, clean, main, sent, got, alarm>>

(* A global event, sent without looking for the hub; then exit 255.        *)
Bail(p) ==
  /\ st[p] = "idle" /\ tmp
  /\ bailFile' = TRUE
  /\ Dies(p, FALSE) /\ alarm' = alarm \cup {p}
  /\ UNCHANGED <<tmp, hubFiles, stored, ready, abortFile, main, sent, got>>

(* END in a child leaves its status alone: the failed tests are not its.   *)
Leave(p) ==
  /\ st[p] = "idle"
  /\ Dies(p, TRUE)
  /\ UNCHANGED <<dir, main, sent, got, alarm>>

(* SIGKILL; the other signals are blocked from store to rename.            *)
Kill(p) ==
  /\ Alive(p)
  /\ Dies(p, FALSE)
  /\ UNCHANGED <<dir, main, sent, got, alarm>>

-----------------------------------------------------------------------------
(* The main process: hubs and culling *)

NewHub(h) ==
  /\ pc = "run" /\ hst[h] = "new"
  /\ hst' = [hst EXCEPT ![h] = "open"]
  /\ hubFiles' = hubFiles \cup {h}
  /\ UNCHANGED <<tmp, stored, ready, bailFile, abortFile, child>>
  /\ UNCHANGED <<pc, cur, ending, snap, failed, next, globals, waited, aged, bad, status, why, sent, got, alarm>>

(* What readdir may return: all that was there at opendir, some of what    *)
(* has come since.                                                         *)
Listings(now, before) == {before \cup late : late \in SUBSET (now \ before)}

Mine(h) == {e \in ready : e.hub = h}

(* cull begins; e says that it is the one of finalize.                     *)
OpenDir(h, e) ==
  /\ pc' = "cull" /\ cur' = h /\ ending' = e
  /\ snap' = [Empty EXCEPT !.ready = Mine(h), !.abort = abortFile, !.bail = bailFile /\ h \notin globals]

Poll(h) ==
  /\ pc = "run" /\ hst[h] = "open"
  /\ OpenDir(h, FALSE)
  /\ UNCHANGED <<dir, child, hst, failed, next, globals, waited, aged, bad, status, why, sent, got, alarm>>

(* run_subtest and AsyncSubtest::finish                                    *)
Finish(h) ==
  /\ pc = "run" /\ hst[h] = "open" /\ h # Root
  /\ OpenDir(h, TRUE)
  /\ UNCHANGED <<dir, child, hst, failed, next, globals, waited, aged, bad, status, why, sent, got, alarm>>

(* exit(255).  What END and DESTROY do after it does not change the status *)
(* and is not followed - but the last cull is itself in END, in set_exit's *)
(* block with local $?: leaving that block brings the script's status      *)
(* back, and the line that sets the status is never reached.               *)
LastCull == pc = "cull" /\ ending /\ cur = Root

Exit255(s) ==
  /\ bad' = TRUE /\ snap' = Empty
  /\ status' = IF LastCull THEN status ELSE "nonzero"
  /\ pc' = IF LastCull THEN "drop" ELSE s

(* Driver::abort: the ABORT file and exit 255                              *)
MainAborts(w) ==
  /\ abortFile' = tmp /\ why' = w
  /\ Exit255("exit")
  /\ UNCHANGED <<tmp, hubFiles, stored, ready, bailFile, child>>
  /\ UNCHANGED <<cur, ending, hst, failed, next, globals, waited, aged, sent, got, alarm>>

(* Seeded bug: whatever comes is taken.                                    *)
InOrder_Any(list) == list

(* The events that the sorted loop of cull takes: those that follow the    *)
(* last one taken without a gap.                                           *)
InOrder(list) ==
  {e \in list : /\ e.eid >= next[cur][e.pid]
                /\ \A i \in next[cur][e.pid]..e.eid : \E f \in list : f.pid = e.pid /\ f.eid = i}

CullAbort ==
  /\ pc = "cull" /\ (snap.abort \/ abortFile)
  /\ why' = "abort" /\ Exit255("exit")
  /\ UNCHANGED <<dir, child, cur, ending, hst, failed, next, globals, waited, aged, sent, got, alarm>>

(* Seeded bug: the first gap is taken for a missing event.                 *)
CullMissing_AtOnce ==
  /\ pc = "cull" /\ ~snap.abort
  /\ \E list \in Listings(Mine(cur), snap.ready) : list # InOrder(list)
  /\ MainAborts("missing")

CullMissing ==
  /\ pc = "cull" /\ ~snap.abort
  /\ \E list \in Listings(Mine(cur), snap.ready) : (list \ InOrder(list)) \cap aged # {}
  /\ MainAborts("missing")

(* read_ids after the events in take                                       *)
Reads(take, n) ==
  \A p \in Procs : LET mine == {e.eid : e \in {x \in take : x.pid = p}} IN
    IF mine = {} THEN n[p] = next[cur][p]
    ELSE n[p] - 1 \in mine /\ \A i \in mine : i < n[p]

(* The files are read and unlinked.                                        *)
Collect(take) ==
  /\ ready' = ready \ take
  /\ \E n \in [Procs -> 1..MaxEvents + 1] :
       Reads(take, n) /\ next' = [next EXCEPT ![cur] = n]

(* A global event is processed first: the hub terminates the process, and  *)
(* what it has collected is not processed.                                 *)
CullBail ==
  /\ pc = "cull" /\ ~snap.abort /\ bailFile /\ cur \notin globals
  /\ \E list \in Listings(Mine(cur), snap.ready) : Collect(InOrder(list))
  /\ globals' = globals \cup {cur}
  /\ waited' = waited \cap ready' /\ aged' = aged \cap ready'
  /\ Exit255("wait")
  /\ UNCHANGED <<tmp, hubFiles, stored, bailFile, abortFile, child>>
  /\ UNCHANGED <<cur, ending, hst, failed, why, sent, got, alarm>>

(* The main process goes on with s.                                        *)
GoOn(s) ==
  /\ pc' = s
  /\ cur' = IF s = "run" THEN Root ELSE cur
  /\ ending' = (ending /\ s # "run")
  /\ snap' = Empty

(* Seeded bug: the failures stay with the subtest.                         *)
Settle_Alone(f) ==
  /\ failed' = f
  /\ hst' = IF ending THEN [hst EXCEPT ![cur] = "ended"] ELSE hst
  /\ bad' = (bad \/ (LastCull /\ Root \in f))
  /\ status' = IF LastCull THEN (IF bad' THEN "nonzero" ELSE "zero") ELSE status
  /\ GoOn(IF ending THEN "drop" ELSE "run")

(* The failures of a hub that has ended are those of the Subtest event     *)
(* that the root hub gets; those of the root hub are the exit status.      *)
Settle(f) ==
  /\ failed' = f \cup (IF ending /\ cur \in f THEN {Root} ELSE {})
  /\ hst' = IF ending THEN [hst EXCEPT ![cur] = "ended"] ELSE hst
  /\ bad' = (bad \/ (LastCull /\ Root \in f))
  /\ status' = IF LastCull THEN (IF bad' THEN "nonzero" ELSE "zero") ELSE status
  /\ GoOn(IF ending THEN "drop" ELSE "run")

(* The events are processed, and finalize goes on.                         *)
CullTake ==
  /\ pc = "cull" /\ ~snap.abort /\ ~snap.bail
  /\ \E list \in Listings(Mine(cur), snap.ready) :
       LET take == InOrder(list)
       IN  /\ (list \ take) \cap aged = {}
           /\ Collect(take) /\ got' = got \cup take
           /\ waited' = (waited \cup list) \ take
           /\ Settle(failed \cup {e.hub : e \in {x \in take : x.fail}})
  /\ aged' = aged \cap waited'
  /\ UNCHANGED <<tmp, hubFiles, stored, bailFile, abortFile, child, globals, why, sent, alarm>>

(* More than 5 seconds pass.                                               *)
Age ==
  /\ aged # waited /\ aged' = waited
  /\ UNCHANGED <<dir, child, pc, cur, ending, snap, hst, failed, next, globals, waited, bad, status, why>>
  /\ UNCHANGED <<sent, got, alarm>>

(* drop_hub: the hub's file is unlinked, then the leftovers are looked for *)
(* with a pattern, the id at the beginning of the name.                    *)
Leftovers(s) == {e \in s : e.hub = cur \/ <<cur, e.hub>> \in Prefixed}

(* The files that readdir cannot have missed: those not renamed meanwhile. *)
Certain == snap.ready \cup (snap.stored \cap stored)

Drop ==
  /\ pc = "drop"
  /\ hubFiles' = hubFiles \ {cur}
  /\ pc' = "left" /\ snap' = [Empty EXCEPT !.ready = Leftovers(ready), !.stored = Leftovers(stored)]
  /\ UNCHANGED <<tmp, stored, ready, bailFile, abortFile, child>>
  /\ UNCHANGED <<cur, ending, hst, failed, next, globals, waited, aged, bad, status, why, sent, got, alarm>>

Dropped ==
  /\ pc = "left" /\ Certain = {}
  /\ hst' = [hst EXCEPT ![cur] = "dropped"]
  /\ GoOn(IF cur = Root THEN "destroy" ELSE "run")
  /\ UNCHANGED <<dir, child, failed, next, globals, waited, aged, bad, status, why>>
  /\ UNCHANGED <<sent, got, alarm>>

DropFails ==
  /\ pc = "left" /\ Leftovers(stored \cup ready) # {}
  /\ MainAborts("leftover")

-----------------------------------------------------------------------------
(* The main process: the end *)

(* END: a subtest that is still open is an error.                          *)
End ==
  /\ pc = "run" /\ pc' = "wait"
  /\ bad' = (bad \/ \E h \in Subtests : hst[h] = "open")
  /\ UNCHANGED <<dir, child, cur, ending, snap, hst, failed, next, globals, waited, aged, status, why>>
  /\ UNCHANGED <<sent, got, alarm>>

Reaped(p) ==
  /\ st[p] = "dead"
  /\ st' = [st EXCEPT ![p] = "reaped"] /\ clean' = [clean EXCEPT ![p] = TRUE]
  /\ UNCHANGED <<dir, knows, event, ids, sent, got, alarm>>

(* The test file waits for a child itself; its status is the test's affair.*)
UserReap(p) == pc = "run" /\ Reaped(p) /\ UNCHANGED main

(* _ipc_wait: CORE::wait counts the children that do not exit cleanly ...  *)
Reap(p) ==
  /\ pc = "wait" /\ ~NoWait /\ Reaped(p)
  /\ bad' = (bad \/ ~clean[p])
  /\ UNCHANGED <<pc, cur, ending, snap, hst, failed, next, globals, waited, aged, status, why>>

Finalize ==
  /\ OpenDir(Root, TRUE)
  /\ UNCHANGED <<dir, child, hst, failed, next, globals, waited, aged, status, why, sent, got, alarm>>

(* ... until there are none ...                                            *)
WaitDone ==
  /\ pc = "wait" /\ (NoWait \/ \A p \in Procs : st[p] \in {"none", "reaped"})
  /\ Finalize /\ bad' = bad

(* Seeded bug: the alarm is not set.                                       *)
WaitTimeout_Off == FALSE /\ UNCHANGED vars

(* ... or the alarm goes off.                                              *)
WaitTimeout ==
  /\ pc = "wait" /\ ~NoWait /\ \E p \in Procs : Alive(p)
  /\ Finalize /\ bad' = TRUE

(* Perl may destroy the driver first; then the root hub has no ipc left.   *)
SkipDrop ==
  /\ pc = "drop" /\ cur = Root /\ pc' = "destroy"
  /\ UNCHANGED <<dir, child, cur, ending, snap, hst, failed, next, globals, waited, aged, bad, status, why>>
  /\ UNCHANGED <<sent, got, alarm>>

(* DESTROY of the driver, in the process that has made it                  *)
Destroy ==
  /\ pc = "destroy" /\ pc' = "unlink"
  /\ snap' = [ready |-> ready, stored |-> stored, abort |-> abortFile, bail |-> FALSE]
  /\ abortFile' = FALSE
  /\ UNCHANGED <<tmp, hubFiles, stored, ready, bailFile, child>>
  /\ UNCHANGED <<cur, ending, hst, failed, next, globals, waited, aged, bad, status, why, sent, got, alarm>>

(* Seeded bug: the directory is emptied, whatever is in it.                *)
Unlink_All ==
  /\ pc = "unlink" /\ pc' = "rmdir"
  /\ stored' = {} /\ ready' = {} /\ hubFiles' = {} /\ bailFile' = FALSE
  /\ snap' = Empty
  /\ UNCHANGED <<tmp, abortFile, child, cur, ending, hst, failed, next, globals, waited, aged, bad, status, why>>
  /\ UNCHANGED <<sent, got, alarm>>

(* Seeded bug: the hub files stay.                                         *)
Unlink_KeepsHubs ==
  /\ pc = "unlink" /\ pc' = "rmdir"
  /\ \E list \in Listings(stored \cup ready, Certain) :
       /\ snap.abort \/ list = {}
       /\ stored' = stored \ list /\ ready' = ready \ list
  /\ bailFile' = FALSE /\ snap' = Empty
  /\ UNCHANGED <<tmp, hubFiles, abortFile, child>>
  /\ UNCHANGED <<cur, ending, hst, failed, next, globals, waited, aged, bad, status, why, sent, got, alarm>>

(* Hub files and global events are unlinked, events only after an abort.   *)
Unlink ==
  /\ pc = "unlink" /\ pc' = "rmdir"
  /\ \E list \in Listings(stored \cup ready, Certain) :
       /\ snap.abort \/ list = {}
       /\ stored' = stored \ list /\ ready' = ready \ list
  /\ hubFiles' = {} /\ bailFile' = FALSE /\ snap' = Empty
  /\ UNCHANGED <<tmp, abortFile, child, cur, ending, hst, failed, next, globals, waited, aged, bad, status, why>>
  /\ UNCHANGED <<sent, got, alarm>>

UnlinkFails ==
  /\ pc = "unlink" /\ ~snap.abort /\ stored \cup ready # {}
  /\ MainAborts("files")

(* rmdir, of an empty directory; otherwise a warning                       *)
Rmdir ==
  /\ pc = "rmdir" /\ pc' = "exit"
  /\ abortFile' = FALSE
  /\ tmp' = (stored \cup ready # {} \/ bailFile \/ hubFiles # {})
  /\ UNCHANGED <<hubFiles, stored, ready, bailFile, child, cur, ending, snap>>
  /\ UNCHANGED <<hst, failed, next, globals, waited, aged, bad, status, why, sent, got, alarm>>

Main ==
  \/ CullAbort \/ CullMissing \/ CullBail \/ CullTake
  \/ Drop \/ Dropped \/ DropFails \/ SkipDrop
  \/ \E p \in Procs : Reap(p)
  \/ WaitDone \/ WaitTimeout
  \/ Destroy \/ Unlink \/ UnlinkFails \/ Rmdir

Child(p) ==
  \/ \E h \in Hubs, f \in BOOLEAN : SendCheck(p, h, f)
  \/ Store(p) \/ Rename(p) \/ SendFails(p) \/ Interrupt(p)
  \/ Bail(p) \/ Leave(p) \/ Kill(p)

Test ==
  \/ \E h \in Hubs : NewHub(h) \/ Poll(h) \/ Finish(h)
  \/ \E p \in Procs : Fork(p) \/ UserReap(p)
  \/ End

Next == Main \/ Test \/ Age \/ \E p \in Procs : Child(p)

Spec == Init /\ [][Next]_vars

(* The main process runs; nothing is asked of the children.                *)
FairSpec == Spec /\ WF_vars(Main)
-----------------------------------------------------------------------------
(* Properties *)

(* The test passes: set_exit has set the exit status, to 0.  (A test whose *)
(* last cull exits may end with 0 too: see FailureReported, AbortExits.)   *)
Passed == pc = "exit" /\ status = "zero"

(* Events of a process are processed in the order in which it sent them,   *)
(* until a global event ends the test.                                     *)
Ordered ==
  globals = {} => \A e \in got : \A i \in 1..e.eid : \E f \in got :
    f.hub = e.hub /\ f.pid = e.pid /\ f.eid = i

(* An event whose send has returned is processed, or the test fails: none  *)
(* is lost between the check for the hub, the last cull and the end.       *)
NothingLost == Passed => sent \subseteq got

(* A failing event of a child, and a child that aborts or bails out, make  *)
(* the exit status of the main process nonzero, through any hub and in     *)
(* whatever order children and subtests come to their ends - unless the    *)
(* last cull itself comes upon an abort or a global event and exits, which *)
(* leaves the status that the script had.                                  *)
FailureReported ==
  (pc = "exit" /\ status # "nonzero") =>
    \/ (\A e \in sent : ~e.fail) /\ alarm = {}
    \/ status = "unset" /\ (why \in {"abort", "missing"} \/ Root \in globals)

(* A test that passes leaves no files and no directory behind.             *)
NothingLeft == Passed => ~tmp

(* The i-th event of p for h has been given a number and is not going to   *)
(* be read: it is neither in the directory nor in the hands of p.          *)
Lost(h, p, i) ==
  /\ i \in next[h][p]..ids[p][h]
  /\ \A e \in ready \cup stored \cup event[p] : ~(e.hub = h /\ e.pid = p /\ e.eid = i)

(* An event is only called missing when one is really lost: the main       *)
(* process may see a later event of a child first, because readdir has     *)
(* missed the earlier one, but waits for it (the 5 seconds of cull).       *)
NoFalseMissing ==
  why = "missing" => \E h \in Hubs, p \in Procs : \E i \in 1..MaxEvents : Lost(h, p, i)

(* drop_hub says "Not all files from hub '$hid' have been collected" only  *)
(* of a hub that has such files (Files.pm:149).                            *)
LeftoversAreOwn == why = "leftover" => \E e \in stored \cup ready : e.hub = cur

(* What the documentation says and the code does not do: a fatal error of  *)
(* the driver "will forcefully exit 255" (Driver.pm:82-86).                *)
AbortExits == (pc = "exit" /\ why \in {"missing", "leftover", "files"}) => status = "nonzero"

(* A child that hangs does not keep the main process from ending.          *)
MainEnds == pc = "wait" ~> pc = "exit"
=============================================================================
