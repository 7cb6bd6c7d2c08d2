---------------------------- MODULE TestIPCProofs ----------------------------
(***************************************************************************)
(* Proofs about TestIPC, for any number of processes, subtests and events: *)
(* its types, the order of events, that an event is only called missing    *)
(* when it is, and, if test2_no_wait is not set, that a passing test has    *)
(* lost no event, hidden no failure and left nothing behind.               *)
(***************************************************************************)
EXTENDS TestIPC, TLAPS

(* The same event number, of the same sender to the same hub.              *)
Same(f, e, i) == f.hub = e.hub /\ f.pid = e.pid /\ f.eid = i

-----------------------------------------------------------------------------
(* Parts of the inductive invariants *)

(* An event being sent has the sender's last number.                       *)
EventInv ==
  \A p \in Procs :
    /\ event[p] # {} <=> st[p] \in {"checked", "stored"}
    /\ \A e \in event[p] : e.pid = p /\ e.eid = ids[p][e.hub]
    /\ \A e, f \in event[p] : e = f
    /\ st[p] = "none" => ids[p] = [h \in Hubs |-> 0]

(* A cull has seen files of its hub.                                       *)
SnapInv == pc = "cull" => snap.ready \subseteq Mine(cur)

(* What has been processed is what read_ids says.                          *)
OrderInv ==
  globals = {} =>
    /\ \A h \in Hubs, p \in Procs : \A i \in 1..next[h][p] - 1 :
         \E f \in got : f.hub = h /\ f.pid = p /\ f.eid = i
    /\ \A e \in got : e.eid < next[e.hub][e.pid]

(* The events of p that may still come: one being sent, one left behind.   *)
Coming(p) == event[p] \cup {e \in stored : e.pid = p}

(* What may still come of a sender comes after all that is there, and all  *)
(* of it after what has been read.                                         *)
ReadyInv ==
  /\ \A e \in ready : e.eid >= next[e.hub][e.pid]
  /\ \A e, f \in ready : Same(f, e, e.eid) => e = f
  /\ \A p \in Procs : \A x \in Coming(p) : \A e \in ready :
       e.hub = x.hub /\ e.pid = p => e.eid < x.eid
  /\ \A p \in Procs : \A x \in Coming(p) : x.eid >= next[x.hub][p]
  /\ \A p \in Procs, h \in Hubs : next[h][p] <= ids[p][h] + 1
  /\ \A x \in stored : Alive(x.pid) => st[x.pid] = "stored" /\ x \in event[x.pid]

(* What came before an event that waits was there when the cull began.     *)
WaitedInv ==
  /\ waited \subseteq ready
  /\ pc = "cull" => \A e \in waited \cap Mine(cur) : \A f \in ready :
       f.hub = e.hub /\ f.pid = e.pid /\ f.eid <= e.eid => f \in snap.ready
GapInv == pc \notin {"rmdir", "exit"} => ReadyInv /\ WaitedInv

(* The last cull and all that comes after it; what comes after it.         *)
Last ==
  \/ pc \in {"cull", "drop", "left"} /\ cur = Root /\ (pc = "cull" => ending)
  \/ pc \in {"destroy", "unlink", "rmdir", "exit"}
Late == Last /\ pc # "cull"
AllDone == \A p \in Procs : st[p] \in {"none", "reaped"}

MainInv ==
  /\ (globals # {} \/ why # "none") => bad
  /\ ~tmp => pc = "exit"
  /\ hst[cur] # "new" /\ hst[Root] # "new"
  /\ pc = "cull" /\ ~ending => hst[cur] = "open"
  /\ pc \in {"drop", "left"} => cur = Root \/ hst[cur] = "ended"
  /\ ~bad /\ (pc = "wait" \/ Last) => \A h \in Subtests : hst[h] # "open"

(* A test that has not failed ends when its children have, and with        *)
(* nothing left in the directory.                                          *)
LastInv ==
  ~bad =>
    /\ Last => AllDone
    /\ Last /\ pc = "cull" => snap.abort = abortFile /\ snap.bail = bailFile
    /\ Late => ~abortFile /\ ~bailFile /\ Root \notin failed
    /\ pc = "unlink" => ~snap.abort /\ snap.ready = ready /\ snap.stored = stored
    /\ pc \in {"rmdir", "exit"} => stored \cup ready = {} /\ hubFiles = {}
    /\ pc = "exit" => ~tmp

(* What has been sent is in the directory or has been processed, and what  *)
(* failed is known to a hub or announced in the directory.                 *)
KeptInv ==
  /\ ~bad => sent \subseteq got \cup ready
  /\ ~bad /\ alarm # {} => abortFile \/ bailFile
  /\ \A e \in got : e.fail => e.hub \in failed
  /\ \A h \in failed : /\ hst[h] # "new"
                       /\ hst[h] \in {"ended", "dropped"} => Root \in failed
-----------------------------------------------------------------------------
(* Types *)

LEMMA InitFirst == Init => TypeOK /\ EventInv
<1>1. SUFFICES ASSUME Init PROVE TypeOK /\ EventInv
  OBVIOUS
<1>2. TypeOK
  <2>1. hst \in [Hubs -> {"new", "open", "ended", "dropped"}]
    BY <1>1 DEF Init
  <2>2. next \in [Hubs -> [Procs -> 1..MaxEvents + 1]] /\ ids \in [Procs -> [Hubs -> 0..MaxEvents]]
    BY <1>1, HubsAssumption DEF Init
  <2>3. Root \in Hubs
    BY DEF Hubs
  <2>4. clean \in [Procs -> BOOLEAN]
    BY <1>1 DEF Init
  <2>5. snap \in [ready : SUBSET Events, stored : SUBSET Events, abort : BOOLEAN, bail : BOOLEAN]
    BY <1>1 DEF Init, Empty
  <2> QED BY <1>1, <2>1, <2>2, <2>3, <2>4, <2>5 DEF Init, TypeOK, Steps
<1>3. EventInv
  BY <1>1 DEF Init, EventInv
<1> QED BY <1>2, <1>3

LEMMA ChildTypes ==
  ASSUME TypeOK, EventInv, NEW p \in Procs, Child(p)
  PROVE  TypeOK' /\ EventInv'
<1> USE DEF TypeOK, EventInv, main
<1>1. ASSUME NEW h \in Hubs, NEW f \in BOOLEAN, SendCheck(p, h, f)
      PROVE  TypeOK' /\ EventInv'
  <2> DEFINE e == [hub |-> h, pid |-> p, eid |-> ids[p][h] + 1, fail |-> f]
  <2>1. ids' = [ids EXCEPT ![p][h] = ids[p][h] + 1] /\ event' = [event EXCEPT ![p] = {e}]
        /\ st[p] = "idle" /\ st' = [st EXCEPT ![p] = "checked"] /\ ids[p][h] \in 0..MaxEvents - 1
    <3>1. ids' = [ids EXCEPT ![p][h] = ids[p][h] + 1] /\ st[p] = "idle"
          /\ st' = [st EXCEPT ![p] = "checked"] /\ ids[p][h] < MaxEvents
      BY <1>1 DEF SendCheck
    <3>2. ids[p][h] \in 0..MaxEvents - 1
      BY <3>1, HubsAssumption
    <3>3. ids'[p][h] = ids[p][h] + 1
      BY <3>1
    <3>4. event' = [event EXCEPT ![p] = {[hub |-> h, pid |-> p, eid |-> ids'[p][h], fail |-> f]}]
      BY <1>1 DEF SendCheck
    <3> QED BY <3>1, <3>2, <3>3, <3>4
  <2>2. e \in Events
    BY <2>1, HubsAssumption DEF Events
  <2>3. ids' \in [Procs -> [Hubs -> 0..MaxEvents]]
    BY <2>1, HubsAssumption
  <2>4. \A x \in stored \cup ready : x.eid \in 1..ids'[x.pid][x.hub] /\ st'[x.pid] # "none"
    <3> SUFFICES ASSUME NEW x \in stored \cup ready
                 PROVE  x.eid \in 1..ids'[x.pid][x.hub] /\ st'[x.pid] # "none"
      OBVIOUS
    <3>1. x \in Events /\ x.pid \in Procs /\ x.hub \in Hubs /\ x.eid \in 1..ids[x.pid][x.hub]
      BY DEF Events
    <3>2. ids'[x.pid][x.hub] >= ids[x.pid][x.hub] /\ ids'[x.pid][x.hub] \in Nat
      BY <2>1, <2>3, <3>1, HubsAssumption
    <3> QED BY <2>1, <3>1, <3>2
  <2>5. TypeOK'
    BY <1>1, <2>1, <2>2, <2>3, <2>4 DEF SendCheck, dir
  <2>6. EventInv'
    <3> SUFFICES ASSUME NEW q \in Procs
                 PROVE  /\ event'[q] # {} <=> st'[q] \in {"checked", "stored"}
                        /\ \A y \in event'[q] : y.pid = q /\ y.eid = ids'[q][y.hub]
                        /\ \A x, y \in event'[q] : x = y
                        /\ st'[q] = "none" => ids'[q] = [g \in Hubs |-> 0]
      OBVIOUS
    <3>1. CASE q = p
      <4>1. event'[q] = {e} /\ st'[q] = "checked" /\ ids'[q][h] = ids[p][h] + 1
        BY <2>1, <3>1
      <4>2. e.pid = q /\ e.hub = h /\ e.eid = ids[p][h] + 1
        BY <3>1
      <4> QED BY <4>1, <4>2
    <3>2. CASE q # p
      BY <2>1, <3>2
    <3> QED BY <3>1, <3>2
  <2> QED BY <2>5, <2>6
<1>2. ASSUME Store(p) PROVE TypeOK' /\ EventInv'
  <2>1. \A e \in event[p] : e \in Events /\ e.pid = p /\ e.eid = ids[p][e.hub] /\ e.eid \in 1..MaxEvents
    BY DEF Events
  <2>2. TypeOK'
    BY <1>2, <2>1, HubsAssumption DEF Store
  <2> QED BY <1>2, <2>2 DEF Store
<1>3. ASSUME Rename(p) PROVE TypeOK' /\ EventInv'
  BY <1>3 DEF Rename
<1>4. ASSUME Dies(p, TRUE) \/ Dies(p, FALSE), UNCHANGED <<tmp, hubFiles, stored, ready, main, sent, got>>,
             abortFile' \in BOOLEAN, bailFile' \in BOOLEAN, alarm' \subseteq Procs
      PROVE  TypeOK' /\ EventInv'
  <2>1. st' = [st EXCEPT ![p] = "dead"] /\ event' = [event EXCEPT ![p] = {}] /\ ids' = ids
    BY <1>4 DEF Dies
  <2>2. clean' \in [Procs -> BOOLEAN] /\ knows' \in [Procs -> SUBSET Hubs]
    BY <1>4 DEF Dies
  <2>3. \A e \in stored \cup ready : st'[e.pid] # "none"
    BY <2>1
  <2>4. TypeOK'
    BY <1>4, <2>1, <2>2, <2>3
  <2>5. EventInv'
    BY <2>1
  <2> QED BY <2>4, <2>5
<1>5. ASSUME SendFails(p) PROVE TypeOK' /\ EventInv'
  <2>1. Dies(p, FALSE) /\ alarm' = alarm \cup {p} /\ abortFile' = (abortFile \/ tmp)
        /\ UNCHANGED <<tmp, hubFiles, stored, ready, bailFile, main, sent, got>>
    BY <1>5 DEF SendFails
  <2>2. abortFile' \in BOOLEAN /\ bailFile' \in BOOLEAN /\ alarm' \subseteq Procs
    BY <2>1
  <2> HIDE DEF TypeOK, EventInv
  <2> QED BY <2>1, <2>2, <1>4
<1>6. ASSUME Bail(p) PROVE TypeOK' /\ EventInv'
  <2>1. Dies(p, FALSE) /\ alarm' = alarm \cup {p} /\ bailFile' = TRUE
        /\ UNCHANGED <<tmp, hubFiles, stored, ready, abortFile, main, sent, got>>
    BY <1>6 DEF Bail
  <2>2. abortFile' \in BOOLEAN /\ bailFile' \in BOOLEAN /\ alarm' \subseteq Procs
    BY <2>1
  <2> HIDE DEF TypeOK, EventInv
  <2> QED BY <2>1, <2>2, <1>4
<1>7. ASSUME Leave(p) PROVE TypeOK' /\ EventInv'
  BY <1>7, <1>4 DEF Leave, dir
<1>8. ASSUME Kill(p) PROVE TypeOK' /\ EventInv'
  BY <1>8, <1>4 DEF Kill, dir
<1>9. ASSUME Interrupt(p) PROVE TypeOK' /\ EventInv'
  <2>1. st' = [st EXCEPT ![p] = "idle"] /\ event' = [event EXCEPT ![p] = {}]
        /\ UNCHANGED <<dir, knows, ids, clean, main, sent, got, alarm>>
    BY <1>9 DEF Interrupt
  <2>2. \A e \in stored \cup ready : st'[e.pid] # "none"
    BY <2>1
  <2>3. TypeOK'
    BY <2>1, <2>2 DEF dir
  <2>4. \A q \in Procs : event'[q] = (IF q = p THEN {} ELSE event[q]) /\ st'[q] = (IF q = p THEN "idle" ELSE st[q])
    BY <2>1
  <2>5. ids' = ids /\ st[p] = "checked"
    BY <1>9 DEF Interrupt
  <2>6. EventInv'
    BY <2>4, <2>5
  <2> QED BY <2>3, <2>6
<1> HIDE DEF TypeOK, EventInv
<1> QED BY <1>1, <1>2, <1>3, <1>5, <1>6, <1>7, <1>8, <1>9 DEF Child

(* What readdir returns of the hub's events is among them; what is taken   *)
(* is among what is listed.                                                *)
LEMMA ListingSubset ==
  ASSUME NEW now, NEW before, before \subseteq now, NEW list \in Listings(now, before)
  PROVE  before \subseteq list /\ list \subseteq now
BY DEF Listings

LEMMA InOrderSubset ==
  ASSUME NEW list PROVE InOrder(list) \subseteq list
BY DEF InOrder

LEMMA CollectTypes ==
  ASSUME TypeOK, NEW take, Collect(take)
  PROVE  /\ ready' = ready \ take
         /\ next' \in [Hubs -> [Procs -> 1..MaxEvents + 1]]
         /\ \A h \in Hubs : h # cur => next'[h] = next[h]
         /\ Reads(take, next'[cur])
BY DEF Collect, TypeOK

LEMMA SettleTypes ==
  ASSUME TypeOK, NEW f \in SUBSET Hubs, Settle(f)
  PROVE  /\ failed' \subseteq Hubs /\ hst' \in [Hubs -> {"new", "open", "ended", "dropped"}]
         /\ bad' \in BOOLEAN /\ status' \in {"unset", "zero", "nonzero"}
         /\ pc' \in Steps /\ cur' \in Hubs /\ ending' \in BOOLEAN
         /\ snap' = Empty
<1> USE DEF TypeOK, Settle, GoOn
<1>1. Root \in Hubs
  BY DEF Hubs
<1>2. failed' \subseteq Hubs /\ cur' \in Hubs /\ snap' = Empty
  BY <1>1
<1>3. hst' \in [Hubs -> {"new", "open", "ended", "dropped"}]
  BY SMT
<1>4. bad' \in BOOLEAN /\ ending' \in BOOLEAN
  BY Zenon
<1>5. pc' \in Steps
  BY DEF Steps
<1>6. status' \in {"unset", "zero", "nonzero"}
  OBVIOUS
<1> QED BY <1>2, <1>3, <1>4, <1>5, <1>6

LEMMA Exit255Types ==
  ASSUME TypeOK, NEW s \in Steps, Exit255(s)
  PROVE  /\ bad' = TRUE /\ snap' = Empty /\ status' \in {"unset", "zero", "nonzero"} /\ pc' \in Steps
BY DEF Exit255, TypeOK, Steps

LEMMA EmptyType ==
  Empty \in [ready : SUBSET Events, stored : SUBSET Events, abort : BOOLEAN, bail : BOOLEAN]
BY DEF Empty

LEMMA OpenDirTypes ==
  ASSUME TypeOK, NEW h \in Hubs, NEW e \in BOOLEAN, OpenDir(h, e)
  PROVE  /\ pc' \in Steps /\ cur' \in Hubs /\ ending' \in BOOLEAN
         /\ snap' \in [ready : SUBSET Events, stored : SUBSET Events, abort : BOOLEAN, bail : BOOLEAN]
<1>1. (bailFile /\ h \notin globals) \in BOOLEAN /\ abortFile \in BOOLEAN /\ Mine(h) \subseteq Events
  BY DEF TypeOK, Mine
<1> QED BY <1>1 DEF OpenDir, Empty, Steps

(* Steps of the main process that leave the children alone.                *)
LEMMA MainTypes ==
  ASSUME TypeOK, EventInv, Main \/ Test \/ Age \/ UNCHANGED vars
  PROVE  TypeOK' /\ EventInv'
<1> USE EmptyType DEF TypeOK
<1>0. Root \in Hubs /\ TRUE \in BOOLEAN /\ FALSE \in BOOLEAN
  BY DEF Hubs
<1>29. "exit" \in Steps /\ "wait" \in Steps
  BY DEF Steps
<1>1. ASSUME UNCHANGED child PROVE EventInv'
  BY <1>1 DEF EventInv, child
<1>2. ASSUME NEW p \in Procs, Reaped(p)
      PROVE  /\ st' \in [Procs -> {"none", "idle", "checked", "stored", "dead", "reaped"}]
             /\ clean' \in [Procs -> BOOLEAN] /\ UNCHANGED <<dir, knows, event, ids, sent, got, alarm>>
             /\ \A q \in Procs : st[q] # "none" => st'[q] # "none"
             /\ EventInv'
  BY <1>2 DEF Reaped, EventInv
<1>3. ASSUME NEW h \in Hubs, NewHub(h) PROVE TypeOK' /\ EventInv'
  BY <1>3, <1>1 DEF NewHub, child
<1>4. ASSUME NEW h \in Hubs, Poll(h) PROVE TypeOK' /\ EventInv'
  BY <1>4, <1>1, <1>0, OpenDirTypes DEF Poll, dir, child
<1>5. ASSUME NEW h \in Hubs, Finish(h) PROVE TypeOK' /\ EventInv'
  BY <1>5, <1>1, <1>0, OpenDirTypes DEF Finish, dir, child
<1>6. ASSUME NEW w \in {"abort", "missing", "leftover", "files"}, MainAborts(w) PROVE TypeOK' /\ EventInv'
  BY <1>6, <1>1, <1>29, Exit255Types DEF MainAborts, child
<1>7. CASE CullAbort
  BY <1>7, <1>1, <1>29, Exit255Types DEF CullAbort, dir, child
<1>8. CASE CullMissing
  BY <1>8, <1>6 DEF CullMissing
<1>9. CASE CullBail
  <2>1. PICK list : list \in Listings(Mine(cur), snap.ready) /\ Collect(InOrder(list))
    BY <1>9 DEF CullBail
  <2>2. /\ globals' = globals \cup {cur} /\ waited' = waited \cap ready' /\ aged' = aged \cap ready'
        /\ Exit255("wait")
        /\ UNCHANGED <<tmp, hubFiles, stored, bailFile, abortFile, child>>
        /\ UNCHANGED <<cur, ending, hst, failed, why, sent, got, alarm>>
    BY <1>9 DEF CullBail
  <2>3. ready' \subseteq ready /\ next' \in [Hubs -> [Procs -> 1..MaxEvents + 1]]
    BY <2>1, CollectTypes
  <2> QED BY <2>2, <2>3, <1>1, <1>29, Exit255Types DEF child
<1>10. CASE CullTake
  <2> DEFINE f(take) == failed \cup {e.hub : e \in {x \in take : x.fail}}
  <2>1. PICK list : /\ list \in Listings(Mine(cur), snap.ready) /\ Collect(InOrder(list))
                    /\ got' = got \cup InOrder(list)
                    /\ waited' = (waited \cup list) \ InOrder(list)
                    /\ Settle(f(InOrder(list)))
    BY <1>10 DEF CullTake
  <2>2. aged' = aged \cap waited' /\ UNCHANGED <<tmp, hubFiles, stored, bailFile, abortFile, child, globals, why, sent, alarm>>
    BY <1>10 DEF CullTake
  <2>3. list \subseteq Events
    <3>1. snap.ready \subseteq Events /\ Mine(cur) \subseteq Events
      BY DEF Mine
    <3> QED BY <2>1, <3>1 DEF Listings
  <2>4. InOrder(list) \subseteq Events
    BY <2>3, InOrderSubset
  <2>5. ready' \subseteq ready /\ next' \in [Hubs -> [Procs -> 1..MaxEvents + 1]]
    BY <2>1, CollectTypes
  <2>6. f(InOrder(list)) \in SUBSET Hubs
    BY <2>4 DEF Events
  <2> HIDE DEF f
  <2>7. /\ failed' \subseteq Hubs /\ hst' \in [Hubs -> {"new", "open", "ended", "dropped"}]
        /\ bad' \in BOOLEAN /\ status' \in {"unset", "zero", "nonzero"}
        /\ pc' \in Steps /\ cur' \in Hubs /\ ending' \in BOOLEAN /\ snap' = Empty
    BY <2>1, <2>6, SettleTypes
  <2> QED BY <2>1, <2>2, <2>3, <2>4, <2>5, <2>7, <1>1 DEF child
<1>11. CASE Age
  BY <1>11, <1>1 DEF Age, dir, child
<1>12. CASE Drop
  <2>1. snap' = [Empty EXCEPT !.ready = Leftovers(ready), !.stored = Leftovers(stored)]
        /\ hubFiles' = hubFiles \ {cur} /\ pc' = "left"
        /\ UNCHANGED <<tmp, stored, ready, bailFile, abortFile, child>>
        /\ UNCHANGED <<cur, ending, hst, failed, next, globals, waited, aged, bad, status, why, sent, got, alarm>>
    BY <1>12 DEF Drop
  <2>2. snap' \in [ready : SUBSET Events, stored : SUBSET Events, abort : BOOLEAN, bail : BOOLEAN]
    BY <2>1 DEF Empty, Leftovers
  <2> QED BY <2>1, <2>2, <1>1 DEF child, Steps
<1>13. CASE Dropped
  <2>1. /\ hst' = [hst EXCEPT ![cur] = "dropped"] /\ pc' \in Steps /\ cur' \in {Root, cur}
        /\ ending' = (ending /\ (IF cur = Root THEN "destroy" ELSE "run") # "run") /\ snap' = Empty
        /\ UNCHANGED <<dir, child, failed, next, globals, waited, aged, bad, status, why>>
        /\ UNCHANGED <<sent, got, alarm>>
    BY <1>13 DEF Dropped, GoOn, Steps
  <2>2. ending' \in BOOLEAN
    BY <2>1
  <2>3. hst' \in [Hubs -> {"new", "open", "ended", "dropped"}] /\ cur' \in Hubs
    BY <2>1, <1>0
  <2> QED BY <2>1, <2>2, <2>3, <1>1 DEF child, dir
<1>14. CASE DropFails
  BY <1>14, <1>6 DEF DropFails
<1>15. CASE SkipDrop
  BY <1>15, <1>1 DEF SkipDrop, dir, child, Steps
<1>16. ASSUME NEW p \in Procs, Reap(p) PROVE TypeOK' /\ EventInv'
  <2>1. Reaped(p) /\ bad' = (bad \/ ~clean[p])
        /\ UNCHANGED <<pc, cur, ending, snap, hst, failed, next, globals, waited, aged, status, why>>
    BY <1>16 DEF Reap
  <2>2. bad' \in BOOLEAN
    BY <2>1
  <2> QED BY <2>1, <2>2, <1>2 DEF dir, Events
<1>17. ASSUME NEW p \in Procs, UserReap(p) PROVE TypeOK' /\ EventInv'
  BY <1>17, <1>2 DEF UserReap, main, dir, Events
<1>18. CASE WaitDone
  BY <1>18, <1>0, <1>1, OpenDirTypes DEF WaitDone, Finalize, dir, child
<1>19. CASE WaitTimeout
  BY <1>19, <1>0, <1>1, OpenDirTypes DEF WaitTimeout, Finalize, dir, child
<1>20. CASE Destroy
  BY <1>20, <1>1 DEF Destroy, child, Steps
<1>21. CASE Unlink
  <2>1. stored' \subseteq stored /\ ready' \subseteq ready
    BY <1>21 DEF Unlink
  <2>2. /\ pc' = "rmdir" /\ hubFiles' = {} /\ bailFile' = FALSE /\ snap' = Empty
        /\ UNCHANGED <<tmp, abortFile, child, cur, ending, hst, failed, next, globals, waited, aged, bad, status, why>>
        /\ UNCHANGED <<sent, got, alarm>>
    BY <1>21 DEF Unlink
  <2>3. \A e \in stored' \cup ready' : e.eid \in 1..ids'[e.pid][e.hub] /\ st'[e.pid] # "none"
    BY <2>1, <2>2 DEF child
  <2>4. EventInv'
    BY <2>2, <1>1
  <2>5. hubFiles' \subseteq Hubs /\ stored' \subseteq Events /\ ready' \subseteq Events /\ pc' \in Steps
        /\ snap' \in [ready : SUBSET Events, stored : SUBSET Events, abort : BOOLEAN, bail : BOOLEAN]
    BY <2>1, <2>2 DEF Steps
  <2>6. TypeOK'
    BY <2>2, <2>3, <2>5 DEF child
  <2> QED BY <2>4, <2>6
<1>22. CASE UnlinkFails
  BY <1>22, <1>6 DEF UnlinkFails
<1>23. CASE Rmdir
  <2>1. tmp' \in BOOLEAN
    BY <1>23 DEF Rmdir
  <2> QED BY <1>23, <2>1, <1>1 DEF Rmdir, child, Steps
<1>24. ASSUME NEW p \in Procs, Fork(p) PROVE TypeOK' /\ EventInv'
  <2>1. EventInv'
    BY <1>24 DEF Fork, EventInv
  <2>2. \A e \in stored \cup ready : st'[e.pid] # "none"
    BY <1>24 DEF Fork, Events
  <2> QED BY <1>24, <2>1, <2>2 DEF Fork, dir, main
<1>25. CASE End
  <2>1. bad' \in BOOLEAN
    BY <1>25 DEF End
  <2> QED BY <1>25, <2>1, <1>1 DEF End, dir, child, Steps
<1>26. CASE UNCHANGED vars
  BY <1>26, <1>1 DEF vars, dir, child, main
<1>27. CASE Main
  BY <1>27, <1>7, <1>8, <1>9, <1>10, <1>12, <1>13, <1>14, <1>15, <1>16, <1>18, <1>19, <1>20,
     <1>21, <1>22, <1>23 DEF Main
<1>28. CASE Test
  BY <1>28, <1>3, <1>4, <1>5, <1>17, <1>24, <1>25 DEF Test
<1> QED BY <1>11, <1>26, <1>27, <1>28
LEMMA NextTypes ==
  ASSUME TypeOK, EventInv, [Next]_vars
  PROVE  TypeOK' /\ EventInv'
BY ChildTypes, MainTypes DEF Next

(* Every variable of TestIPC keeps its type, and every event in the        *)
(* directory has a number that its sender has given out.                   *)
THEOREM TypeCorrect == Spec => []TypeOK
<1>1. Init => TypeOK /\ EventInv
  BY InitFirst
<1>2. TypeOK /\ EventInv /\ [Next]_vars => (TypeOK /\ EventInv)'
  BY NextTypes
<1> QED BY <1>1, <1>2, PTL DEF Spec

-----------------------------------------------------------------------------
(* The order of events *)

LEMMA CullKnows ==
  ASSUME [Next]_vars, pc' = "cull", pc = "cull"
  PROVE  UNCHANGED <<snap, cur, ending, next, globals, waited, got, hst, bad, failed>> /\ ready \subseteq ready'
<1>1. ASSUME NEW p \in Procs, Child(p)
      PROVE  UNCHANGED <<snap, cur, ending, next, globals, waited, got, hst, bad, failed>> /\ ready \subseteq ready'
  BY <1>1 DEF Child, SendCheck, Store, Rename, SendFails, Interrupt, Bail, Leave, Kill, dir, main
<1>2. ~Main
  <2>1. ~(\E w \in {"abort", "missing", "leftover", "files"} : MainAborts(w))
    BY DEF MainAborts, Exit255
  <2> QED BY <2>1 DEF Main, CullAbort, CullMissing, CullBail, Exit255, CullTake, Settle, GoOn, Drop, Dropped, DropFails,
     SkipDrop, Reap, WaitDone, WaitTimeout, Destroy, Unlink, UnlinkFails, Rmdir
<1>3. ~Test
  BY DEF Test, NewHub, Poll, Finish, Fork, UserReap, End
<1> QED BY <1>1, <1>2, <1>3 DEF Next, Age, vars, dir, main

LEMMA CullStarts ==
  ASSUME [Next]_vars, pc' = "cull", pc # "cull"
  PROVE  snap'.ready = Mine(cur)' /\ UNCHANGED ready
<1>1. \E h \in Hubs, e \in BOOLEAN : OpenDir(h, e) /\ UNCHANGED dir
  <2>1. ASSUME NEW p \in Procs, Child(p) PROVE FALSE
    BY <2>1 DEF Child, SendCheck, Store, Rename, SendFails, Interrupt, Bail, Leave, Kill, main
  <2>2. ASSUME Main PROVE WaitDone \/ WaitTimeout
    <3>1. ~(\E w \in {"abort", "missing", "leftover", "files"} : MainAborts(w))
      BY DEF MainAborts, Exit255
    <3> QED BY <2>2, <3>1 DEF Main, CullAbort, CullMissing, CullBail, Exit255, CullTake, Drop, Dropped, GoOn, DropFails,
         SkipDrop, Reap, Destroy, Unlink, UnlinkFails, Rmdir
  <2>3. Root \in Hubs
    BY DEF Hubs
  <2>4. CASE WaitDone \/ WaitTimeout
    BY <2>3, <2>4 DEF WaitDone, WaitTimeout, Finalize
  <2>5. CASE Test
    BY <2>5 DEF Test, NewHub, Poll, Finish, Fork, UserReap, End, main
  <2> QED BY <2>1, <2>2, <2>4, <2>5 DEF Next, Age, vars, main
<1> QED BY <1>1 DEF OpenDir, Mine, dir, Empty

LEMMA SnapStep ==
  ASSUME TypeOK, SnapInv, [Next]_vars
  PROVE  SnapInv'
<1> SUFFICES ASSUME pc' = "cull" PROVE snap'.ready \subseteq Mine(cur)'
  BY DEF SnapInv
<1>1. CASE pc = "cull"
  BY <1>1, CullKnows DEF SnapInv, Mine
<1>2. CASE pc # "cull"
  BY <1>2, CullStarts
<1> QED BY <1>1, <1>2

(* What a cull takes: the files of the hub that follow read_ids without a  *)
(* gap, all of them up to the new read_ids.                                *)
LEMMA TakeFacts ==
  ASSUME TypeOK, SnapInv, pc = "cull", NEW list \in Listings(Mine(cur), snap.ready), Collect(InOrder(list))
  PROVE  /\ list \subseteq ready /\ snap.ready \subseteq list
         /\ \A e \in list : e.hub = cur
         /\ InOrder(list) \subseteq list /\ list \subseteq Events
         /\ \A e \in InOrder(list) : \A i \in next[cur][e.pid]..e.eid : \E f \in InOrder(list) : Same(f, e, i)
         /\ \A e \in InOrder(list) : e.eid >= next[cur][e.pid] /\ e.eid < next'[cur][e.pid]
         /\ \A p \in Procs : next'[cur][p] >= next[cur][p]
         /\ \A p \in Procs : \A i \in next[cur][p]..next'[cur][p] - 1 :
              \E f \in InOrder(list) : f.hub = cur /\ f.pid = p /\ f.eid = i
<1> DEFINE take == InOrder(list)
<1>1. snap.ready \subseteq Mine(cur) /\ Mine(cur) \subseteq ready /\ ready \subseteq Events
  BY DEF SnapInv, Mine, TypeOK
<1>2. list \subseteq Mine(cur) /\ snap.ready \subseteq list
  BY <1>1 DEF Listings
<1>3. \A e \in list : e.hub = cur
  BY <1>2 DEF Mine
<1>4. take \subseteq list
  BY InOrderSubset
<1>5. \A e \in take : e.pid \in Procs /\ e.eid \in 1..MaxEvents
  BY <1>1, <1>2, <1>4 DEF Events
<1>6. next \in [Hubs -> [Procs -> 1..MaxEvents + 1]] /\ next' \in [Hubs -> [Procs -> 1..MaxEvents + 1]]
      /\ cur \in Hubs
  BY CollectTypes DEF TypeOK
<1>7. \A e \in take : e.eid >= next[cur][e.pid]
  BY DEF InOrder
<1>8. ASSUME NEW e \in take, NEW i \in next[cur][e.pid]..e.eid
      PROVE  \E f \in take : Same(f, e, i)
  <2>1. PICK f \in list : f.pid = e.pid /\ f.eid = i
    BY <1>8 DEF InOrder
  <2>2. f.eid >= next[cur][f.pid]
    BY <2>1, <1>5, <1>6, HubsAssumption
  <2>3. \A j \in next[cur][f.pid]..f.eid : \E g \in list : g.pid = f.pid /\ g.eid = j
    <3> SUFFICES ASSUME NEW j \in next[cur][f.pid]..f.eid PROVE \E g \in list : g.pid = f.pid /\ g.eid = j
      OBVIOUS
    <3>1. j \in next[cur][e.pid]..e.eid
      BY <2>1, <1>5, <1>6, HubsAssumption
    <3>2. \E g \in list : g.pid = e.pid /\ g.eid = j
      BY <3>1 DEF InOrder
    <3> QED BY <3>2, <2>1
  <2>4. f \in take
    BY <2>2, <2>3 DEF InOrder
  <2> QED BY <2>1, <2>4, <1>3, <1>4 DEF Same
<1>9. Reads(take, next'[cur])
  BY CollectTypes
<1>10. ASSUME NEW p \in Procs
       PROVE  /\ \A e \in take : e.pid = p => e.eid < next'[cur][p]
              /\ next'[cur][p] >= next[cur][p]
              /\ \A i \in next[cur][p]..next'[cur][p] - 1 :
                   \E f \in take : f.hub = cur /\ f.pid = p /\ f.eid = i
  <2> DEFINE mine == {e.eid : e \in {x \in take : x.pid = p}}
  <2>1. IF mine = {} THEN next'[cur][p] = next[cur][p]
        ELSE next'[cur][p] - 1 \in mine /\ \A i \in mine : i < next'[cur][p]
    BY <1>9 DEF Reads
  <2>2. next[cur][p] \in Nat /\ next'[cur][p] \in Nat
    BY <1>6, HubsAssumption
  <2>3. CASE mine = {}
    <3>1. ~(\E e \in take : e.pid = p)
      BY <2>3
    <3> QED BY <2>1, <2>2, <2>3, <3>1
  <2>4. CASE mine # {}
    <3>1. PICK e \in take : e.pid = p /\ e.eid = next'[cur][p] - 1
      BY <2>1, <2>4
    <3>2. \A x \in take : x.pid = p => x.eid < next'[cur][p]
      BY <2>1, <2>4
    <3>3. next'[cur][p] >= next[cur][p]
      BY <3>1, <1>7, <2>2
    <3>4. \A i \in next[cur][p]..next'[cur][p] - 1 : \E f \in take : f.hub = cur /\ f.pid = p /\ f.eid = i
      BY <3>1, <1>8, <1>3, <1>4 DEF Same
    <3> QED BY <3>2, <3>3, <3>4
  <2> QED BY <2>3, <2>4
<1> QED BY <1>1, <1>2, <1>3, <1>4, <1>5, <1>7, <1>8, <1>10
LEMMA OnlyCullsRead ==
  ASSUME [Next]_vars, ~CullTake, ~CullBail
  PROVE  UNCHANGED <<next, globals, got, waited>>
<1>1. ASSUME NEW p \in Procs, Child(p) PROVE UNCHANGED <<next, globals, got, waited>>
  BY <1>1 DEF Child, SendCheck, Store, Rename, SendFails, Interrupt, Bail, Leave, Kill, main
<1>2. ASSUME Main PROVE UNCHANGED <<next, globals, got, waited>>
  <2>1. ASSUME NEW w, MainAborts(w) PROVE UNCHANGED <<next, globals, got, waited>>
    BY <2>1 DEF MainAborts
  <2> QED BY <1>2, <2>1 DEF Main, CullAbort, CullMissing, Drop, Dropped, DropFails,
     SkipDrop, Reap, Reaped, WaitDone, WaitTimeout, Finalize, Destroy, Unlink, UnlinkFails, Rmdir
<1>3. ASSUME Test PROVE UNCHANGED <<next, globals, got, waited>>
  BY <1>3 DEF Test, NewHub, Poll, Finish, Fork, UserReap, Reaped, End, main
<1> QED BY <1>1, <1>2, <1>3 DEF Next, Age, vars, main

LEMMA OrderStep ==
  ASSUME TypeOK, SnapInv, OrderInv, [Next]_vars
  PROVE  OrderInv'
<1>1. CASE CullTake
  <2>1. PICK list : /\ list \in Listings(Mine(cur), snap.ready) /\ Collect(InOrder(list))
                    /\ got' = got \cup InOrder(list)
    BY <1>1 DEF CullTake
  <2>2. pc = "cull" /\ globals' = globals
    BY <1>1 DEF CullTake
  <2> DEFINE take == InOrder(list)
  <2>3. /\ \A e \in take : e.hub = cur /\ e \in Events
        /\ \A e \in take : e.eid < next'[cur][e.pid]
        /\ \A p \in Procs : next'[cur][p] >= next[cur][p]
        /\ \A p \in Procs : \A i \in next[cur][p]..next'[cur][p] - 1 :
              \E f \in take : f.hub = cur /\ f.pid = p /\ f.eid = i
    BY <2>1, <2>2, TakeFacts
  <2>4. /\ next \in [Hubs -> [Procs -> 1..MaxEvents + 1]] /\ next' \in [Hubs -> [Procs -> 1..MaxEvents + 1]]
        /\ \A h \in Hubs : h # cur => next'[h] = next[h]
        /\ cur \in Hubs /\ got \subseteq Events
    BY <2>1, CollectTypes DEF TypeOK
  <2> HIDE DEF take
  <2> SUFFICES ASSUME globals = {}
               PROVE  /\ \A h \in Hubs, p \in Procs : \A i \in 1..next'[h][p] - 1 :
                           \E f \in got' : f.hub = h /\ f.pid = p /\ f.eid = i
                      /\ \A e \in got' : e.eid < next'[e.hub][e.pid]
    BY <2>2 DEF OrderInv
  <2>5. ASSUME NEW h \in Hubs, NEW p \in Procs, NEW i \in 1..next'[h][p] - 1
        PROVE  \E f \in got' : f.hub = h /\ f.pid = p /\ f.eid = i
    <3>1. CASE i \in 1..next[h][p] - 1
      BY <3>1, <2>1 DEF OrderInv
    <3>2. CASE i \notin 1..next[h][p] - 1
      <4>1. next[h][p] \in Nat /\ next'[h][p] \in Nat /\ next[h][p] >= 1
        BY <2>4, HubsAssumption
      <4>2. h = cur
        BY <2>4, <3>2
      <4>3. i \in next[cur][p]..next'[cur][p] - 1
        BY <3>2, <4>1, <4>2
      <4>4. \E f \in take : f.hub = cur /\ f.pid = p /\ f.eid = i
        BY <2>3, <4>3
      <4> QED BY <4>2, <4>4, <2>1 DEF take
    <3> QED BY <3>1, <3>2
  <2>6. ASSUME NEW e \in got' PROVE e.eid < next'[e.hub][e.pid]
    <3>1. CASE e \in take
      BY <3>1, <2>3
    <3>2. CASE e \in got
      <4>1. e.eid < next[e.hub][e.pid] /\ e.hub \in Hubs /\ e.pid \in Procs /\ e.eid \in Nat
        BY <3>2, <2>4, HubsAssumption DEF OrderInv, Events
      <4>2. next'[e.hub][e.pid] >= next[e.hub][e.pid] /\ next'[e.hub][e.pid] \in Nat /\ next[e.hub][e.pid] \in Nat
        BY <4>1, <2>3, <2>4, HubsAssumption
      <4> QED BY <4>1, <4>2
    <3> QED BY <3>1, <3>2, <2>1 DEF take
  <2> QED BY <2>5, <2>6
<1>2. CASE CullBail
  BY <1>2 DEF CullBail, OrderInv
<1>3. CASE ~CullTake /\ ~CullBail
  BY <1>3, OnlyCullsRead DEF OrderInv
<1> QED BY <1>1, <1>2, <1>3

(* Events of a process are processed in the order in which it sent them,   *)
(* whatever readdir has missed (the loop of cull in Files.pm).             *)
THEOREM OrderedCorrect == Spec => []Ordered
<1>1. Init => TypeOK /\ EventInv /\ SnapInv /\ OrderInv
  <2>1. Init => SnapInv /\ OrderInv
    BY HubsAssumption DEF Init, SnapInv, OrderInv
  <2> QED BY <2>1, InitFirst
<1>2. TypeOK /\ EventInv /\ SnapInv /\ OrderInv /\ [Next]_vars => (TypeOK /\ EventInv /\ SnapInv /\ OrderInv)'
  BY NextTypes, SnapStep, OrderStep
<1>3. TypeOK /\ OrderInv => Ordered
  <2> SUFFICES ASSUME TypeOK, OrderInv, globals = {}, NEW e \in got, NEW i \in 1..e.eid
               PROVE  \E f \in got : f.hub = e.hub /\ f.pid = e.pid /\ f.eid = i
    BY DEF Ordered
  <2>1. e.hub \in Hubs /\ e.pid \in Procs /\ e.eid \in Nat /\ next[e.hub][e.pid] \in Nat
    BY HubsAssumption DEF TypeOK, Events
  <2>2. i \in 1..next[e.hub][e.pid] - 1
    BY <2>1 DEF OrderInv
  <2> QED BY <2>1, <2>2 DEF OrderInv
<1> QED BY <1>1, <1>2, <1>3, PTL DEF Spec
-----------------------------------------------------------------------------
(* What is called missing *)

LEMMA ReadyKept ==
  ASSUME ReadyInv, UNCHANGED <<ready, next, ids>>,
         \A p \in Procs : Coming(p)' \subseteq Coming(p),
         \A x \in stored' : Alive(x.pid)' => st'[x.pid] = "stored" /\ x \in event'[x.pid]
  PROVE  ReadyInv'
BY DEF ReadyInv

LEMMA ReadyChild ==
  ASSUME TypeOK, EventInv, ReadyInv, NEW p \in Procs, Child(p)
  PROVE  ReadyInv'
<1>0. next' = next /\ ready \subseteq Events /\ stored \subseteq Events /\ ids \in [Procs -> [Hubs -> 0..MaxEvents]]
      /\ st \in [Procs -> {"none", "idle", "checked", "stored", "dead", "reaped"}]
      /\ event \in [Procs -> SUBSET Events]
  BY DEF Child, SendCheck, Store, Rename, SendFails, Interrupt, Bail, Leave, Kill, main, TypeOK
<1> USE DEF Coming
<1>1. ASSUME NEW c, Dies(p, c), UNCHANGED <<ready, stored>> PROVE ReadyInv'
  <2>1. st' = [st EXCEPT ![p] = "dead"] /\ event' = [event EXCEPT ![p] = {}]
    BY <1>1 DEF Dies
  <2>2. event'[p] = {} /\ st'[p] = "dead" /\ \A q \in Procs : q # p => event'[q] = event[q] /\ st'[q] = st[q]
    BY <1>0, <2>1
  <2>3. \A x \in stored' : Alive(x.pid)' => st'[x.pid] = "stored" /\ x \in event'[x.pid]
    <3> SUFFICES ASSUME NEW x \in stored, Alive(x.pid)' PROVE st'[x.pid] = "stored" /\ x \in event'[x.pid]
      BY <1>1
    <3>1. x.pid # p /\ x.pid \in Procs
      BY <1>0, <2>2 DEF Alive, Events
    <3> QED BY <2>2, <3>1 DEF ReadyInv, Alive
  <2>4. \A q \in Procs : Coming(q)' \subseteq Coming(q)
    BY <1>1, <2>2
  <2> HIDE DEF Coming
  <2> QED BY <1>0, <1>1, <2>3, <2>4, ReadyKept DEF Dies
<1>2. CASE Store(p)
  <2>1. UNCHANGED <<ready, event>> /\ st' = [st EXCEPT ![p] = "stored"] /\ st[p] = "checked"
        /\ stored' = stored \cup event[p]
    BY <1>2 DEF Store
  <2>2. \A e \in event[p] : e.pid = p
    BY DEF EventInv
  <2>3. \A q \in Procs : Coming(q)' \subseteq Coming(q)
    BY <2>1, <2>2
  <2>4. \A x \in stored' : Alive(x.pid)' => st'[x.pid] = "stored" /\ x \in event'[x.pid]
    <3> SUFFICES ASSUME NEW x \in stored', Alive(x.pid)' PROVE st'[x.pid] = "stored" /\ x \in event'[x.pid]
      OBVIOUS
    <3>1. CASE x \in event[p]
      BY <1>0, <2>1, <2>2, <3>1
    <3>2. CASE x \in stored
      <4>1. x.pid \in Procs /\ Alive(x.pid)
        BY <1>0, <2>1, <3>2 DEF Alive, Events
      <4>2. st[x.pid] = "stored" /\ x \in event[x.pid]
        BY <3>2, <4>1 DEF ReadyInv
      <4> QED BY <1>0, <2>1, <4>1, <4>2
    <3> QED BY <2>1, <3>1, <3>2
  <2>5. UNCHANGED ids
    BY <1>2 DEF Store
  <2> HIDE DEF Coming
  <2> QED BY <1>0, <2>1, <2>3, <2>4, <2>5, ReadyKept
<1>3. ASSUME NEW h \in Hubs, NEW f \in BOOLEAN, SendCheck(p, h, f) PROVE ReadyInv'
  <2> DEFINE e == [hub |-> h, pid |-> p, eid |-> ids'[p][h], fail |-> f]
  <2>1. /\ ids' = [ids EXCEPT ![p][h] = ids[p][h] + 1] /\ event' = [event EXCEPT ![p] = {e}]
        /\ st[p] = "idle" /\ st' = [st EXCEPT ![p] = "checked"] /\ UNCHANGED <<ready, stored>>
    BY <1>3 DEF SendCheck, dir
  <2>2. ids'[p][h] = ids[p][h] + 1 /\ ids[p][h] \in Nat /\ event'[p] = {e}
    <3>1. event'[p] = {e}
      BY <1>0, <2>1
    <3>2. ids[p][h] \in Nat /\ ids'[p][h] = ids[p][h] + 1
      BY <2>1, <1>0, HubsAssumption
    <3> QED BY <3>1, <3>2
  <2>3. \A q \in Procs : q # p => event'[q] = event[q] /\ st'[q] = st[q]
    BY <1>0, <2>1
  <2>4. \A x \in stored : (x.pid \in Procs /\ x.pid # p) \/ ~Alive(x.pid)
    <3>1. \A x \in stored : x.pid \in Procs
      BY <1>0 DEF Events
    <3> QED BY <2>1, <3>1 DEF ReadyInv
  <2>5. \A x \in stored : x.pid # p
    BY <2>1, <2>4 DEF Alive
  <2>6. \A x \in stored' : Alive(x.pid)' => st'[x.pid] = "stored" /\ x \in event'[x.pid]
    <3> SUFFICES ASSUME NEW x \in stored, Alive(x.pid)' PROVE st'[x.pid] = "stored" /\ x \in event'[x.pid]
      BY <2>1
    <3>1. x.pid \in Procs /\ x.pid # p
      BY <1>0, <2>5 DEF Events
    <3> QED BY <2>3, <3>1 DEF ReadyInv, Alive
  <2>7. ASSUME NEW q \in Procs, NEW x \in Coming(q)', NEW y \in ready, y.hub = x.hub, y.pid = q
        PROVE  y.eid < x.eid
    <3>1. CASE q = p
      <4>1. x \in event'[p]
        BY <2>1, <2>5, <2>7, <3>1
      <4>2. x = e /\ x.hub = h /\ x.eid = ids[p][h] + 1
        BY <2>2, <4>1
      <4>3. y.eid \in 1..ids[p][h]
        BY <2>7, <3>1, <4>2 DEF TypeOK
      <4> QED BY <2>2, <4>2, <4>3
    <3>2. CASE q # p
      <4>1. x \in Coming(q)
        BY <2>1, <2>3, <2>7, <3>2
      <4> HIDE DEF Coming
      <4> QED BY <2>7, <4>1 DEF ReadyInv
    <3> QED BY <3>1, <3>2
  <2>8. ASSUME NEW q \in Procs, NEW x \in Coming(q)' PROVE x.eid >= next[x.hub][q]
    <3>1. CASE q = p
      <4>1. x \in event'[p]
        BY <2>1, <2>5, <2>8, <3>1
      <4>2. x.hub = h /\ x.eid = ids[p][h] + 1
        BY <2>2, <4>1
      <4> QED BY <3>1, <4>2 DEF ReadyInv
    <3>2. CASE q # p
      <4>1. x \in Coming(q)
        BY <2>1, <2>3, <2>8, <3>2
      <4> HIDE DEF Coming
      <4> QED BY <4>1 DEF ReadyInv
    <3> QED BY <3>1, <3>2
  <2>9. ASSUME NEW q \in Procs, NEW g \in Hubs PROVE next[g][q] <= ids'[q][g] + 1
    <3>1. next[g][q] <= ids[q][g] + 1 /\ next[g][q] \in Nat /\ ids[q][g] \in Nat
      BY <1>0, HubsAssumption DEF ReadyInv, TypeOK
    <3>2. ids'[q][g] = ids[q][g] \/ ids'[q][g] = ids[q][g] + 1
      BY <1>0, <2>1, <2>2
    <3> QED BY <3>1, <3>2
  <2> HIDE DEF e, Coming
  <2> QED BY <1>0, <2>1, <2>6, <2>7, <2>8, <2>9 DEF ReadyInv
<1>4. CASE Rename(p)
  <2>1. /\ ready' = ready \cup event[p] /\ stored' = stored \ event[p] /\ st[p] = "stored"
        /\ event' = [event EXCEPT ![p] = {}] /\ st' = [st EXCEPT ![p] = "idle"]
    BY <1>4 DEF Rename
  <2>2. event'[p] = {} /\ \A q \in Procs : q # p => event'[q] = event[q] /\ st'[q] = st[q]
    BY <1>0, <2>1
  <2>3. event[p] # {}
    BY <2>1 DEF EventInv
  <2>4. PICK e \in event[p] : TRUE
    BY <2>3
  <2>5. event[p] = {e} /\ e.pid = p /\ e.eid = ids[p][e.hub] /\ e.hub \in Hubs /\ e \in Events
    BY <1>0, <2>4 DEF EventInv, Events
  <2>6. e \in Coming(p) /\ \A x \in stored' : x.pid # p
    <3>1. \A x \in stored : x.pid = p => x \in event[p]
      BY <1>0, <2>1 DEF ReadyInv, Alive
    <3> QED BY <2>1, <2>4, <3>1
  <2>7. \A q \in Procs : Coming(q)' \subseteq Coming(q)
    BY <2>1, <2>2
  <2>8. Coming(p)' = {}
    BY <2>2, <2>6
  <2> HIDE DEF Coming
  <2>9. \A x \in ready : x.hub = e.hub /\ x.pid = p => x.eid < e.eid
    BY <2>5, <2>6 DEF ReadyInv
  <2>10. \A x \in ready' : x \in ready \/ x = e
    BY <2>1, <2>5
  <2>11. \A x, y \in ready' : Same(y, x, x.eid) => x = y
    <3> SUFFICES ASSUME NEW x \in ready', NEW y \in ready', Same(y, x, x.eid) PROVE x = y
      OBVIOUS
    <3>1. \A z \in ready : z.eid \in Nat
      BY <1>0, HubsAssumption DEF Events
    <3>2. CASE x \in ready /\ y \in ready
      BY <3>2 DEF ReadyInv
    <3>3. CASE x = e /\ y \in ready
      BY <3>3, <3>1, <2>5, <2>9 DEF Same
    <3>4. CASE x \in ready /\ y = e
      BY <3>4, <3>1, <2>5, <2>9 DEF Same
    <3> QED BY <2>10, <3>2, <3>3, <3>4
  <2>12. ASSUME NEW q \in Procs, NEW x \in Coming(q)', NEW y \in ready', y.hub = x.hub, y.pid = q
         PROVE  y.eid < x.eid
    <3>1. q # p /\ x \in Coming(q)
      BY <2>7, <2>8, <2>12
    <3>2. y \in ready
      BY <2>5, <2>10, <2>12, <3>1
    <3> QED BY <2>12, <3>1, <3>2 DEF ReadyInv
  <2>13. \A x \in ready' : x.eid >= next[x.hub][x.pid]
    BY <2>5, <2>6, <2>10 DEF ReadyInv
  <2>14. \A x \in stored' : Alive(x.pid)' => st'[x.pid] = "stored" /\ x \in event'[x.pid]
    <3> SUFFICES ASSUME NEW x \in stored', Alive(x.pid)' PROVE st'[x.pid] = "stored" /\ x \in event'[x.pid]
      OBVIOUS
    <3>1. x \in stored /\ x.pid \in Procs /\ x.pid # p
      BY <1>0, <2>1, <2>6 DEF Events
    <3> QED BY <2>2, <3>1 DEF ReadyInv, Alive
  <2>15. \A q \in Procs : \A x \in Coming(q)' : x.eid >= next[x.hub][q]
    BY <2>7 DEF ReadyInv
  <2>16. UNCHANGED ids
    BY <1>4 DEF Rename
  <2> QED BY <1>0, <2>11, <2>12, <2>13, <2>14, <2>15, <2>16 DEF ReadyInv
<1>5. CASE Interrupt(p)
  <2>1. UNCHANGED <<ready, stored, ids>> /\ st[p] = "checked"
        /\ st' = [st EXCEPT ![p] = "idle"] /\ event' = [event EXCEPT ![p] = {}]
    BY <1>5 DEF Interrupt, dir
  <2>2. event'[p] = {} /\ \A q \in Procs : q # p => event'[q] = event[q] /\ st'[q] = st[q]
    BY <1>0, <2>1
  <2>3. \A x \in stored : x.pid # p
    BY <1>0, <2>1 DEF ReadyInv, Alive
  <2>4. \A x \in stored' : Alive(x.pid)' => st'[x.pid] = "stored" /\ x \in event'[x.pid]
    <3> SUFFICES ASSUME NEW x \in stored, Alive(x.pid)' PROVE st'[x.pid] = "stored" /\ x \in event'[x.pid]
      BY <2>1
    <3>1. x.pid \in Procs /\ x.pid # p
      BY <1>0, <2>3 DEF Events
    <3> QED BY <2>2, <3>1 DEF ReadyInv, Alive
  <2>5. \A q \in Procs : Coming(q)' \subseteq Coming(q)
    BY <2>1, <2>2
  <2> HIDE DEF Coming
  <2> QED BY <1>0, <2>1, <2>4, <2>5, ReadyKept
<1>6. CASE SendFails(p)
  BY <1>6, <1>1 DEF SendFails
<1>7. CASE Bail(p)
  BY <1>7, <1>1 DEF Bail
<1>8. CASE Leave(p)
  BY <1>8, <1>1 DEF Leave, dir
<1>9. CASE Kill(p)
  BY <1>9, <1>1 DEF Kill, dir
<1> QED BY <1>2, <1>3, <1>4, <1>5, <1>6, <1>7, <1>8, <1>9 DEF Child

(* What a cull takes leaves no gap behind.                                 *)
LEMMA ReadyCull ==
  ASSUME TypeOK, EventInv, SnapInv, ReadyInv, pc = "cull", UNCHANGED <<child, stored>>,
         NEW list \in Listings(Mine(cur), snap.ready), Collect(InOrder(list))
  PROVE  ReadyInv'
<1> DEFINE take == InOrder(list)
<1>1. ready' = ready \ take /\ UNCHANGED <<st, event, ids>>
  BY CollectTypes DEF child
<1>0. \A p \in Procs : Coming(p)' = Coming(p)
  BY <1>1 DEF Coming
<1>2. /\ next \in [Hubs -> [Procs -> 1..MaxEvents + 1]] /\ next' \in [Hubs -> [Procs -> 1..MaxEvents + 1]]
      /\ \A h \in Hubs : h # cur => next'[h] = next[h]
      /\ cur \in Hubs /\ ready \subseteq Events
  BY CollectTypes DEF TypeOK
<1>3. /\ take \subseteq ready /\ \A e \in take : e.hub = cur
      /\ \A e \in take : e.eid < next'[cur][e.pid]
      /\ \A p \in Procs : next'[cur][p] >= next[cur][p]
      /\ \A p \in Procs : \A i \in next[cur][p]..next'[cur][p] - 1 :
              \E f \in take : f.hub = cur /\ f.pid = p /\ f.eid = i
  BY TakeFacts
<1> HIDE DEF take
<1>4. \A h \in Hubs, p \in Procs : next[h][p] \in Nat /\ next'[h][p] \in Nat /\ next'[h][p] >= next[h][p]
  <2> SUFFICES ASSUME NEW h \in Hubs, NEW p \in Procs
               PROVE  next[h][p] \in Nat /\ next'[h][p] \in Nat /\ next'[h][p] >= next[h][p]
    OBVIOUS
  <2>1. next[h][p] \in Nat /\ next'[h][p] \in Nat
    BY <1>2, HubsAssumption
  <2> QED BY <2>1, <1>2, <1>3
<1>5. \A e \in ready : e.hub \in Hubs /\ e.pid \in Procs /\ e.eid \in Nat
  BY <1>2, HubsAssumption DEF Events
\* an event with a number below the new read_ids has been taken
<1>6. ASSUME NEW e \in ready' PROVE e.eid >= next'[e.hub][e.pid]
  <2>1. e \in ready /\ e \notin take /\ e.eid >= next[e.hub][e.pid]
    BY <1>1 DEF ReadyInv
  <2>2. CASE e.hub # cur
    BY <1>2, <1>5, <2>1, <2>2
  <2>3. CASE e.hub = cur
    <3> SUFFICES ASSUME e.eid < next'[cur][e.pid] PROVE FALSE
      BY <1>4, <1>5, <2>1, <2>3
    <3>1. e.eid \in next[cur][e.pid]..next'[cur][e.pid] - 1
      BY <1>4, <1>5, <2>1, <2>3
    <3>2. PICK f \in take : f.hub = cur /\ f.pid = e.pid /\ f.eid = e.eid
      BY <1>3, <1>5, <2>1, <3>1
    <3>3. e = f
      BY <1>3, <2>1, <2>3, <3>2 DEF ReadyInv, Same
    <3> QED BY <2>1, <3>2, <3>3
  <2> QED BY <2>2, <2>3
<1>9. \A e, f \in ready' : Same(f, e, e.eid) => e = f
  BY <1>1 DEF ReadyInv
<1>10. \A p \in Procs : \A x \in Coming(p)' : \A e \in ready' : e.hub = x.hub /\ e.pid = p => e.eid < x.eid
  BY <1>0, <1>1 DEF ReadyInv
\* every number taken has been given out, before that of an event to come
<1>11. ASSUME NEW p \in Procs, NEW h \in Hubs
       PROVE  next'[h][p] = next[h][p] \/ \E e \in ready : e.hub = h /\ e.pid = p /\ e.eid = next'[h][p] - 1
  <2>1. CASE h # cur
    BY <1>2, <2>1
  <2>2. CASE h = cur /\ next'[cur][p] > next[cur][p]
    <3>1. next'[cur][p] - 1 \in next[cur][p]..next'[cur][p] - 1
      BY <1>2, <1>4, <2>2
    <3> QED BY <1>3, <2>2, <3>1
  <2>3. h = cur => next'[cur][p] = next[cur][p] \/ next'[cur][p] > next[cur][p]
    BY <1>4
  <2> QED BY <2>1, <2>2, <2>3
<1>12. ASSUME NEW p \in Procs, NEW x \in Coming(p)' PROVE x.eid >= next'[x.hub][p]
  <2>1. x \in Coming(p) /\ x.hub \in Hubs /\ x.eid \in Nat
    BY <1>0, HubsAssumption DEF TypeOK, Events, Coming
  <2>2. x.eid >= next[x.hub][p]
    BY <2>1 DEF ReadyInv
  <2>3. \A e \in ready : e.hub = x.hub /\ e.pid = p => e.eid < x.eid
    BY <2>1 DEF ReadyInv
  <2> QED BY <1>4, <1>5, <1>11, <2>1, <2>2, <2>3
<1>13. ASSUME NEW p \in Procs, NEW h \in Hubs PROVE next'[h][p] <= ids'[p][h] + 1
  <2>1. next[h][p] <= ids[p][h] + 1 /\ ids[p][h] \in Nat
    BY HubsAssumption DEF ReadyInv, TypeOK
  <2>2. \A e \in ready : e.hub = h /\ e.pid = p => e.eid <= ids[p][h]
    BY <2>1 DEF TypeOK
  <2> QED BY <1>1, <1>4, <1>5, <1>11, <2>1, <2>2
<1>14. \A x \in stored' : Alive(x.pid)' => st'[x.pid] = "stored" /\ x \in event'[x.pid]
  BY <1>1 DEF ReadyInv, Alive
<1> QED BY <1>6, <1>9, <1>10, <1>12, <1>13, <1>14 DEF ReadyInv

LEMMA ReadyMain ==
  ASSUME TypeOK, EventInv, SnapInv, ReadyInv, Main \/ Test \/ Age \/ UNCHANGED vars,
         pc' \notin {"rmdir", "exit"}
  PROVE  ReadyInv'
<1>1. CASE CullTake
  <2>1. PICK list : list \in Listings(Mine(cur), snap.ready) /\ Collect(InOrder(list))
    BY <1>1 DEF CullTake
  <2> QED BY <1>1, <2>1, ReadyCull DEF CullTake
<1>2. CASE CullBail
  <2>1. PICK list : list \in Listings(Mine(cur), snap.ready) /\ Collect(InOrder(list))
    BY <1>2 DEF CullBail
  <2> QED BY <1>2, <2>1, ReadyCull DEF CullBail
<1>3. ASSUME UNCHANGED <<ready, stored, next, ids, event, st>> PROVE ReadyInv'
  BY <1>3 DEF ReadyInv, Coming, Alive
<1>4. ASSUME NEW p \in Procs, NEW s \in {"idle", "reaped"}, UNCHANGED <<ready, stored, next, ids, event>>,
             st' = [st EXCEPT ![p] = s], s = "idle" => st[p] = "none"
      PROVE  ReadyInv'
  <2>1. \A q \in Procs : Coming(q)' \subseteq Coming(q)
    BY <1>4 DEF Coming
  <2>2. ASSUME NEW x \in stored, Alive(x.pid)' PROVE st'[x.pid] = "stored" /\ x \in event'[x.pid]
    <3>1. x.pid \in Procs /\ st[x.pid] # "none"
      BY DEF TypeOK, Events
    <3>2. x.pid # p
      BY <1>4, <2>2, <3>1 DEF Alive, TypeOK
    <3> QED BY <1>4, <2>2, <3>1, <3>2 DEF ReadyInv, Alive, TypeOK
  <2> QED BY <1>4, <2>1, <2>2, ReadyKept
<1>5. ASSUME NEW p \in Procs, Fork(p) PROVE ReadyInv'
  BY <1>4, <1>5 DEF Fork, dir, main
<1>6. CASE Main /\ ~CullTake /\ ~CullBail
  <2>1. ASSUME NEW w, MainAborts(w) PROVE ReadyInv'
    BY <2>1, <1>3 DEF MainAborts, child
  <2>2. ASSUME NEW p \in Procs, Reap(p) PROVE ReadyInv'
    BY <2>2, <1>4 DEF Reap, Reaped, dir
  <2>3. CASE Drop \/ Dropped \/ SkipDrop \/ WaitDone \/ WaitTimeout \/ Destroy
    BY <2>3, <1>3 DEF Drop, Dropped, SkipDrop, WaitDone, WaitTimeout, Finalize, Destroy, dir, child
  <2>4. CASE CullAbort
    BY <2>4, <1>3 DEF CullAbort, dir, child
  <2>5. CASE CullMissing \/ DropFails \/ UnlinkFails
    BY <2>1, <2>5 DEF CullMissing, DropFails, UnlinkFails
  <2>6. ~(Unlink \/ Rmdir)
    BY DEF Unlink, Rmdir
  <2> QED BY <1>6, <2>2, <2>3, <2>4, <2>5, <2>6 DEF Main
<1>7. CASE Test
  <2>1. ASSUME NEW p \in Procs, UserReap(p) PROVE ReadyInv'
    BY <2>1, <1>4 DEF UserReap, Reaped, dir, main
  <2>2. CASE End \/ \E h \in Hubs : NewHub(h) \/ Poll(h) \/ Finish(h)
    BY <2>2, <1>3 DEF End, NewHub, Poll, Finish, dir, child
  <2> QED BY <1>5, <1>7, <2>1, <2>2 DEF Test
<1>8. CASE Age \/ UNCHANGED vars
  BY <1>8, <1>3 DEF Age, vars, dir, child, main
<1> QED BY <1>1, <1>2, <1>6, <1>7, <1>8

LEMMA OnlyRenames ==
  ASSUME [Next]_vars, pc = "cull", pc' = "cull", NEW f \in ready', f \notin ready
  PROVE  \E p \in Procs : Rename(p) /\ f \in event[p]
<1>1. ASSUME NEW p \in Procs, Child(p) PROVE Rename(p) /\ f \in event[p]
  BY <1>1 DEF Child, SendCheck, Store, Rename, SendFails, Interrupt, Bail, Leave, Kill, dir
<1>2. ~Main
  <2>1. ~(\E w \in {"abort", "missing", "leftover", "files"} : MainAborts(w))
    BY DEF MainAborts, Exit255
  <2> QED BY <2>1 DEF Main, CullAbort, CullMissing, CullBail, Exit255, CullTake, Settle, GoOn, Drop, Dropped, DropFails,
     SkipDrop, Reap, WaitDone, WaitTimeout, Destroy, Unlink, UnlinkFails, Rmdir
<1>3. ~Test
  BY DEF Test, NewHub, Poll, Finish, Fork, UserReap, End
<1> QED BY <1>1, <1>2, <1>3 DEF Next, Age, vars, dir

LEMMA WaitedStep ==
  ASSUME TypeOK, EventInv, SnapInv, ReadyInv, WaitedInv, [Next]_vars, pc' \notin {"rmdir", "exit"}
  PROVE  WaitedInv'
<1>1. waited' \subseteq ready'
  <2>1. CASE CullTake
    <3>1. PICK list : /\ list \in Listings(Mine(cur), snap.ready) /\ Collect(InOrder(list))
                      /\ waited' = (waited \cup list) \ InOrder(list)
      BY <2>1 DEF CullTake
    <3>2. list \subseteq ready /\ ready' = ready \ InOrder(list)
      BY <2>1, <3>1, TakeFacts, CollectTypes DEF CullTake
    <3> QED BY <3>1, <3>2 DEF WaitedInv
  <2>2. CASE CullBail
    BY <2>2 DEF CullBail
  <2>3. CASE ~CullTake /\ ~CullBail
    <3>1. waited' = waited
      BY <2>3, OnlyCullsRead
    <3>2. ASSUME NEW p \in Procs, Child(p) PROVE ready \subseteq ready'
      BY <3>2 DEF Child, SendCheck, Store, Rename, SendFails, Interrupt, Bail, Leave, Kill, dir
    <3>3. ASSUME Main PROVE ready \subseteq ready'
      <4>1. ASSUME NEW w, MainAborts(w) PROVE ready \subseteq ready'
        BY <4>1 DEF MainAborts
      <4> QED BY <2>3, <3>3, <4>1 DEF Main, CullAbort, CullMissing, Drop, Dropped, DropFails,
           SkipDrop, Reap, Reaped, WaitDone, WaitTimeout, Finalize, Destroy, Unlink, UnlinkFails, Rmdir, dir
    <3>4. ASSUME Test PROVE ready \subseteq ready'
      BY <3>4 DEF Test, NewHub, Poll, Finish, Fork, UserReap, Reaped, End, dir
    <3> QED BY <3>1, <3>2, <3>3, <3>4 DEF Next, Age, vars, dir, WaitedInv
  <2> QED BY <2>1, <2>2, <2>3
<1>2. ASSUME pc' = "cull"
      PROVE  \A e \in waited' \cap Mine(cur)' : \A f \in ready' :
               f.hub = e.hub /\ f.pid = e.pid /\ f.eid <= e.eid => f \in snap'.ready
  <2>1. CASE pc = "cull"
    <3>1. UNCHANGED <<snap, cur, waited>>
      BY <1>2, <2>1, CullKnows
    <3>2. SUFFICES ASSUME NEW e \in waited, e \in Mine(cur)', NEW f \in ready',
                          f.hub = e.hub, f.pid = e.pid, f.eid <= e.eid
                   PROVE  f \in snap.ready
      BY <3>1
    <3>3. e \in ready /\ e \in Mine(cur)
      BY <3>1, <3>2 DEF WaitedInv, Mine
    <3>4. CASE f \in ready
      BY <2>1, <3>2, <3>3, <3>4 DEF WaitedInv
    <3>5. CASE f \notin ready
      <4>1. PICK p \in Procs : Rename(p) /\ f \in event[p]
        BY <3>5, <1>2, <2>1, OnlyRenames
      <4>2. f.pid = p /\ f \in Coming(p) /\ f.eid \in Nat /\ e.eid \in Nat
        BY <3>3, <4>1, HubsAssumption DEF EventInv, Coming, TypeOK, Events
      <4>3. e.eid < f.eid
        BY <3>2, <3>3, <4>1, <4>2 DEF ReadyInv
      <4> QED BY <3>2, <4>2, <4>3
    <3> QED BY <3>4, <3>5
  <2>2. CASE pc # "cull"
    BY <1>2, <2>2, CullStarts DEF Mine
  <2> QED BY <2>1, <2>2
<1> QED BY <1>1, <1>2 DEF WaitedInv

(* The end of the main process is final.                                   *)
LEMMA ExitStep ==
  ASSUME [Next]_vars, pc \in {"rmdir", "exit"}
  PROVE  pc' \in {"rmdir", "exit"}
<1>1. ASSUME NEW p \in Procs, Child(p) PROVE pc' = pc
  BY <1>1 DEF Child, SendCheck, Store, Rename, SendFails, Interrupt, Bail, Leave, Kill, main
<1>2. Main => pc' = "exit"
  BY DEF Main, CullAbort, CullMissing, CullBail, CullTake, Drop, Dropped, DropFails,
     SkipDrop, Reap, WaitDone, WaitTimeout, Destroy, Unlink, UnlinkFails, Rmdir
<1>3. ~Test \/ pc' = pc
  BY DEF Test, NewHub, Poll, Finish, Fork, UserReap, End, main
<1> QED BY <1>1, <1>2, <1>3 DEF Next, Age, vars, main

LEMMA GapStep ==
  ASSUME TypeOK, EventInv, SnapInv, GapInv, [Next]_vars
  PROVE  GapInv'
<1> SUFFICES ASSUME pc' \notin {"rmdir", "exit"} PROVE ReadyInv' /\ WaitedInv'
  BY DEF GapInv
<1>1. ReadyInv /\ WaitedInv
  BY ExitStep DEF GapInv
<1>2. ReadyInv'
  BY <1>1, ReadyChild, ReadyMain DEF Next
<1>3. WaitedInv'
  BY <1>1, WaitedStep
<1> QED BY <1>2, <1>3

(* What comes before an event that has waited is not in the directory, nor *)
(* can it come.                                                            *)
LEMMA MissingIsLost ==
  ASSUME TypeOK, SnapInv, GapInv, CullMissing
  PROVE  \E h \in Hubs, p \in Procs : \E i \in 1..MaxEvents : Lost(h, p, i)
<1>1. PICK list : list \in Listings(Mine(cur), snap.ready) /\ (list \ InOrder(list)) \cap aged # {}
  BY DEF CullMissing
<1>2. pc = "cull" /\ ReadyInv /\ WaitedInv /\ snap.ready \subseteq Mine(cur)
  BY DEF CullMissing, GapInv, SnapInv
<1>3. PICK e \in list : e \notin InOrder(list) /\ e \in waited
  BY <1>1 DEF TypeOK
<1>4. snap.ready \subseteq list /\ list \subseteq Mine(cur)
  BY <1>1, <1>2 DEF Listings
<1>5. e \in Mine(cur) /\ e \in ready /\ e.hub = cur /\ e.eid >= next[cur][e.pid]
  BY <1>2, <1>3, <1>4 DEF Mine, ReadyInv
<1>6. e.pid \in Procs /\ cur \in Hubs /\ e.eid \in 1..ids[e.pid][cur]
      /\ next[cur][e.pid] \in 1..MaxEvents + 1 /\ ids[e.pid][cur] \in 0..MaxEvents
  BY <1>5 DEF TypeOK, Events
<1>7. PICK i \in next[cur][e.pid]..e.eid : ~\E f \in list : f.pid = e.pid /\ f.eid = i
  BY <1>3, <1>5 DEF InOrder
<1>8. i \in next[cur][e.pid]..ids[e.pid][cur] /\ i \in 1..MaxEvents /\ i < e.eid
  <2>1. i # e.eid
    BY <1>3, <1>7
  <2> QED BY <1>6, <1>7, <2>1, HubsAssumption
<1>9. ASSUME NEW x \in ready \cup stored \cup event[e.pid], x.hub = cur, x.pid = e.pid, x.eid = i
      PROVE  FALSE
  <2>1. CASE x \in ready
    <3>1. x \in snap.ready
      BY <1>2, <1>3, <1>5, <1>6, <1>8, <1>9, <2>1 DEF WaitedInv
    <3> QED BY <1>4, <1>7, <1>9, <3>1
  <2>2. CASE x \notin ready
    <3>1. x \in Coming(e.pid)
      BY <1>9, <2>2 DEF Coming
    <3>2. e.eid < x.eid
      BY <1>2, <1>5, <1>6, <1>9, <3>1 DEF ReadyInv
    <3> QED BY <1>6, <1>8, <1>9, <3>2
  <2> QED BY <2>1, <2>2
<1> QED BY <1>6, <1>8, <1>9 DEF Lost

(* What is lost stays lost.                                                *)
LEMMA LostStays ==
  ASSUME TypeOK, EventInv, NEW h \in Hubs, NEW p \in Procs, NEW i \in 1..MaxEvents, Lost(h, p, i),
         NEW q \in Procs, Child(q)
  PROVE  Lost(h, p, i)'
<1> USE DEF Lost
<1>0. next' = next /\ \A e \in event[q] : e.pid = q
  BY DEF Child, SendCheck, Store, Rename, SendFails, Interrupt, Bail, Leave, Kill, main, EventInv
<1>1. ASSUME UNCHANGED ids, ready' \cup stored' \subseteq ready \cup stored \cup event[q],
             event' = event \/ event' = [event EXCEPT ![q] = {}]
      PROVE  Lost(h, p, i)'
  <2>1. event'[p] \subseteq event[p]
    BY <1>1 DEF TypeOK
  <2>2. CASE p = q
    BY <1>0, <1>1, <2>1, <2>2
  <2>3. CASE p # q
    BY <1>0, <1>1, <2>1, <2>3
  <2> QED BY <2>2, <2>3
<1>2. ASSUME NEW g \in Hubs, NEW f \in BOOLEAN, SendCheck(q, g, f) PROVE Lost(h, p, i)'
  <2> DEFINE e == [hub |-> g, pid |-> q, eid |-> ids'[q][g], fail |-> f]
  <2>1. /\ ids' = [ids EXCEPT ![q][g] = ids[q][g] + 1] /\ event' = [event EXCEPT ![q] = {e}]
        /\ UNCHANGED <<ready, stored>>
    BY <1>2 DEF SendCheck, dir
  <2>2. ids[q][g] \in Nat /\ ids'[q][g] = ids[q][g] + 1 /\ next[h][p] \in Nat /\ ids[p][h] \in Nat
    BY <2>1, HubsAssumption DEF TypeOK
  <2>3. ids'[p][h] = ids[p][h] \/ (p = q /\ h = g)
    BY <2>1 DEF TypeOK
  <2>4. i \in next[h][p]..ids'[p][h]
    BY <2>2, <2>3
  <2>5. \A x \in event'[p] : x \in event[p] \/ x = e
    BY <2>1 DEF TypeOK
  <2>6. ~(e.hub = h /\ e.pid = p /\ e.eid = i)
    BY <2>2
  <2> HIDE DEF e
  <2> QED BY <1>0, <2>1, <2>4, <2>5, <2>6
<1>3. CASE Store(q) \/ Rename(q) \/ Interrupt(q)
  BY <1>1, <1>3 DEF Store, Rename, Interrupt, dir
<1>4. CASE SendFails(q) \/ Bail(q) \/ Leave(q) \/ Kill(q)
  BY <1>1, <1>4 DEF SendFails, Bail, Leave, Kill, Dies, dir
<1> QED BY <1>2, <1>3, <1>4 DEF Child

(* The last cull is never taken up again.                                  *)
LEMMA LateStays ==
  ASSUME [Next]_vars, Late
  PROVE  Late' /\ ~Test
<1> USE DEF Late, Last
<1>1. ASSUME NEW p \in Procs, Child(p) PROVE UNCHANGED <<pc, cur>>
  BY <1>1 DEF Child, SendCheck, Store, Rename, SendFails, Interrupt, Bail, Leave, Kill, main
<1>2. Main => Late'
  <2>1. ASSUME NEW w, MainAborts(w) PROVE Late'
    BY <2>1 DEF MainAborts, Exit255, LastCull
  <2> QED BY <2>1 DEF Main, CullAbort, CullMissing, CullBail, CullTake, Drop, Dropped, GoOn, DropFails,
     SkipDrop, Reap, WaitDone, WaitTimeout, Destroy, Unlink, UnlinkFails, Rmdir
<1>3. ASSUME Test PROVE FALSE
  <2>1. pc = "run"
    BY <1>3 DEF Test, NewHub, Poll, Finish, Fork, UserReap, End
  <2> QED BY <2>1
<1> QED BY <1>1, <1>2, <1>3 DEF Next, Age, vars, main

MissingInv == NoFalseMissing /\ (why = "missing" => Late)

LEMMA MissingStep ==
  ASSUME TypeOK, EventInv, SnapInv, GapInv, MissingInv, [Next]_vars
  PROVE  MissingInv'
<1>0. ASSUME why = "missing", UNCHANGED <<next, ids, event>>, ready' \cup stored' \subseteq ready \cup stored
      PROVE  MissingInv'
  <2>1. PICK h \in Hubs, p \in Procs : \E i \in 1..MaxEvents : Lost(h, p, i)
    BY <1>0 DEF MissingInv, NoFalseMissing
  <2>2. \E i \in 1..MaxEvents : Lost(h, p, i)'
    BY <1>0, <2>1 DEF Lost
  <2>3. Late'
    BY <1>0, LateStays DEF MissingInv
  <2> QED BY <2>2, <2>3 DEF MissingInv, NoFalseMissing
<1>1. ASSUME NEW q \in Procs, Child(q) PROVE MissingInv'
  <2>1. UNCHANGED <<why, pc, cur, ending>>
    BY <1>1 DEF Child, SendCheck, Store, Rename, SendFails, Interrupt, Bail, Leave, Kill, main
  <2> QED BY <1>1, <2>1, LostStays DEF MissingInv, NoFalseMissing, Late, Last
<1>2. CASE CullMissing
  <2>1. UNCHANGED <<next, ids, event, ready, stored>> /\ Late'
    BY <1>2 DEF CullMissing, MainAborts, Exit255, LastCull, Late, Last, child
  <2>2. PICK h \in Hubs, p \in Procs : \E i \in 1..MaxEvents : Lost(h, p, i)
    BY <1>2, MissingIsLost
  <2>3. \E i \in 1..MaxEvents : Lost(h, p, i)'
    BY <2>1, <2>2 DEF Lost
  <2> QED BY <2>1, <2>3 DEF MissingInv, NoFalseMissing
<1>3. ASSUME Main, ~CullMissing, why' = "missing" PROVE MissingInv'
  <2>1. why = "missing"
    BY <1>3 DEF Main, CullAbort, CullBail, CullTake, Drop, Dropped, DropFails, MainAborts,
     SkipDrop, Reap, WaitDone, WaitTimeout, Finalize, Destroy, Unlink, UnlinkFails, Rmdir
  <2>2. pc \notin {"cull", "wait"}
    BY <2>1 DEF MissingInv, Late, Last
  <2>3. ASSUME NEW w, MainAborts(w)
        PROVE  UNCHANGED <<next, ids, event>> /\ ready' \cup stored' \subseteq ready \cup stored
    BY <2>3 DEF MainAborts, child
  <2>4. CASE Unlink
    BY <1>0, <2>1, <2>4 DEF Unlink, child
  <2>5. CASE ~Unlink
    <3>1. UNCHANGED <<next, ids, event>> /\ ready' \cup stored' \subseteq ready \cup stored
      BY <1>3, <2>2, <2>3, <2>5 DEF Main, CullAbort, CullBail, CullTake, Drop, Dropped, DropFails,
       SkipDrop, Reap, WaitDone, WaitTimeout, Destroy, UnlinkFails, Rmdir, dir, child
    <3> QED BY <1>0, <2>1, <3>1
  <2> QED BY <2>4, <2>5
<1>4. ASSUME Test PROVE why' # "missing"
  <2>1. ~Late /\ why' = why
    BY <1>4, LateStays DEF Test, NewHub, Poll, Finish, Fork, UserReap, End, main
  <2> QED BY <2>1 DEF MissingInv
<1>5. CASE Age \/ UNCHANGED vars
  BY <1>5 DEF Age, vars, dir, child, main, MissingInv, NoFalseMissing, Lost, Late, Last
<1> QED BY <1>1, <1>2, <1>3, <1>4, <1>5 DEF Next, MissingInv, NoFalseMissing

(* The main process only calls an event missing when a child has given it  *)
(* a number and lost it, however slow the child is and whatever readdir    *)
(* misses (the gap test of cull in Files.pm).                              *)
THEOREM NoFalseMissingCorrect == Spec => []NoFalseMissing
<1> DEFINE IInv == TypeOK /\ EventInv /\ SnapInv /\ GapInv /\ MissingInv
<1>1. Init => IInv
  <2> SUFFICES ASSUME Init PROVE SnapInv /\ GapInv /\ MissingInv
    BY InitFirst
  <2>1. \A p \in Procs, h \in Hubs : next[h][p] = 1 /\ ids[p][h] = 0
    BY DEF Init
  <2>2. ready = {} /\ waited = {} /\ stored = {} /\ \A p \in Procs : event[p] = {}
    BY DEF Init
  <2>3. ReadyInv
    BY <2>1, <2>2 DEF ReadyInv, Coming
  <2>4. WaitedInv
    BY <2>2 DEF WaitedInv
  <2> QED BY <2>3, <2>4 DEF Init, SnapInv, GapInv, MissingInv, NoFalseMissing
<1>2. IInv /\ [Next]_vars => IInv'
  BY NextTypes, SnapStep, GapStep, MissingStep
<1> QED BY <1>1, <1>2, PTL DEF Spec, MissingInv
-----------------------------------------------------------------------------
(* What a test that passes has done *)

LEMMA ChildLeaves ==
  ASSUME NEW p \in Procs, Child(p)
  PROVE  UNCHANGED <<tmp, hubFiles, main, got>> /\ Alive(p)
BY DEF Child, SendCheck, Store, Rename, SendFails, Interrupt, Bail, Leave, Kill, dir, Alive

LEMMA BadStays ==
  ASSUME [Next]_vars, bad
  PROVE  bad'
<1>1. ASSUME NEW p \in Procs, Child(p) PROVE bad'
  BY <1>1, ChildLeaves DEF main
<1>2. Main => bad'
  BY DEF Main, CullAbort, CullMissing, CullBail, Exit255, CullTake, Settle, Drop, Dropped, DropFails, MainAborts,
     SkipDrop, Reap, WaitDone, WaitTimeout, Finalize, Destroy, Unlink, UnlinkFails, Rmdir
<1>3. Test => bad'
  BY DEF Test, NewHub, Poll, Finish, Fork, UserReap, End, main
<1> QED BY <1>1, <1>2, <1>3 DEF Next, Age, vars, main

LEMMA MainStep ==
  ASSUME TypeOK, MainInv, [Next]_vars
  PROVE  MainInv'
<1> USE DEF MainInv, Last
<1>0. Root \in Hubs /\ cur \in Hubs /\ Root \notin Subtests /\ Subtests \subseteq Hubs
      /\ hst \in [Hubs -> {"new", "open", "ended", "dropped"}]
  BY HubsAssumption DEF TypeOK, Hubs
<1>1. ASSUME UNCHANGED <<tmp, main>> PROVE MainInv'
  BY <1>1 DEF main
<1>2. ASSUME NEW h \in Hubs, NewHub(h) PROVE MainInv'
  BY <1>2, <1>0 DEF NewHub
<1>3. ASSUME NEW h \in Hubs, Poll(h) PROVE MainInv'
  BY <1>3, <1>0 DEF Poll, OpenDir, dir
<1>4. ASSUME NEW h \in Hubs, Finish(h) PROVE MainInv'
  BY <1>4, <1>0 DEF Finish, OpenDir, dir
<1>5. ASSUME NEW w, MainAborts(w), pc # "exit" PROVE MainInv'
  BY <1>5 DEF MainAborts, Exit255, LastCull
<1>6. CASE CullAbort
  BY <1>6 DEF CullAbort, Exit255, LastCull, dir
<1>7. CASE CullMissing
  BY <1>7, <1>5 DEF CullMissing
<1>8. CASE CullBail
  BY <1>8 DEF CullBail, Exit255, LastCull
<1>9. CASE CullTake
  <2>1. PICK f : Settle(f)
    BY <1>9 DEF CullTake
  <2>2. pc = "cull" /\ UNCHANGED <<tmp, globals, why>>
    BY <1>9 DEF CullTake
  <2>3. CASE ending
    <3>1. hst' = [hst EXCEPT ![cur] = "ended"] /\ pc' = "drop" /\ cur' = cur /\ (bad => bad')
      BY <2>1, <2>3 DEF Settle, GoOn
    <3> QED BY <2>2, <2>3, <3>1, <1>0
  <2>4. CASE ~ending
    <3>1. hst' = hst /\ pc' = "run" /\ cur' = Root /\ (bad => bad')
      BY <2>1, <2>4 DEF Settle, GoOn
    <3> QED BY <2>2, <2>4, <3>1
  <2> QED BY <2>3, <2>4
<1>10. CASE Drop
  BY <1>10 DEF Drop
<1>11. CASE Dropped
  BY <1>11, <1>0 DEF Dropped, GoOn, dir
<1>12. CASE DropFails
  BY <1>12, <1>5 DEF DropFails
<1>13. CASE SkipDrop
  BY <1>13 DEF SkipDrop, dir
<1>14. ASSUME NEW p \in Procs, Reap(p) PROVE MainInv'
  BY <1>14 DEF Reap, Reaped, dir
<1>15. CASE WaitDone \/ WaitTimeout
  BY <1>15, <1>0 DEF WaitDone, WaitTimeout, Finalize, OpenDir, dir
<1>16. CASE Destroy
  BY <1>16 DEF Destroy
<1>17. CASE Unlink
  BY <1>17 DEF Unlink
<1>18. CASE UnlinkFails
  BY <1>18, <1>5 DEF UnlinkFails
<1>19. CASE Rmdir
  BY <1>19 DEF Rmdir
<1>20. ASSUME NEW p \in Procs, Fork(p) \/ UserReap(p) \/ Child(p) PROVE MainInv'
  BY <1>20, <1>1, ChildLeaves DEF Fork, UserReap, Reaped, dir, main
<1>21. CASE End
  BY <1>21, <1>0 DEF End, dir
<1>22. CASE Age \/ UNCHANGED vars
  BY <1>22 DEF Age, vars, dir, main
<1>23. CASE Main
  BY <1>23, <1>6, <1>7, <1>8, <1>9, <1>10, <1>11, <1>12, <1>13, <1>14, <1>15, <1>16, <1>17,
     <1>18, <1>19 DEF Main
<1>24. CASE Test
  BY <1>24, <1>2, <1>3, <1>4, <1>20, <1>21 DEF Test
<1> QED BY <1>20, <1>22, <1>23, <1>24 DEF Next

(* Once the last cull has begun, no process is left to act.                *)
LEMMA LastAlone ==
  ASSUME TypeOK, LastInv, Last, ~bad, NEW p \in Procs
  PROVE  ~Child(p) /\ ~Fork(p) /\ ~Reaped(p)
BY ChildLeaves DEF LastInv, AllDone, Alive, Last, Fork, Reaped

(* The main process waits for all children, so what the last cull sees and *)
(* what is left after it cannot change any more.                           *)
LEMMA LastStep ==
  ASSUME ~NoWait, TypeOK, MainInv, LastInv, [Next]_vars
  PROVE  LastInv'
<1> SUFFICES ASSUME ~bad, ~bad' PROVE LastInv'
  BY BadStays DEF LastInv
<1> USE DEF Late, Last
<1>1. /\ Last => AllDone
      /\ Last /\ pc = "cull" => snap.abort = abortFile /\ snap.bail = bailFile
      /\ Late => ~abortFile /\ ~bailFile /\ Root \notin failed
      /\ pc = "unlink" => ~snap.abort /\ snap.ready = ready /\ snap.stored = stored
      /\ pc \in {"rmdir", "exit"} => stored \cup ready = {} /\ hubFiles = {}
      /\ pc = "exit" => ~tmp
  BY DEF LastInv
<1>2. ASSUME ~Last' PROVE LastInv'
  BY <1>2 DEF LastInv
<1>3. CASE Last /\ \E p \in Procs : Child(p) \/ Fork(p) \/ Reap(p) \/ UserReap(p)
  BY <1>3, LastAlone DEF Reap, UserReap
<1>4. CASE ~Last /\ \E p \in Procs : Child(p) \/ Fork(p) \/ Reap(p) \/ UserReap(p)
  <2>1. pc' = pc /\ cur' = cur /\ ending' = ending
    BY <1>4, ChildLeaves DEF Fork, Reap, UserReap, main
  <2> QED BY <1>2, <1>4, <2>1
<1>5. ASSUME UNCHANGED <<dir, child, pc, cur, ending, snap, failed, bad>> PROVE LastInv'
  BY <1>5, <1>1 DEF LastInv, AllDone, dir, child
<1>6. CASE \E h \in Hubs : NewHub(h)
  BY <1>2, <1>6 DEF NewHub
<1>7. CASE \E h \in Hubs : Poll(h) \/ Finish(h)
  BY <1>2, <1>7 DEF Poll, Finish, OpenDir
<1>8. CASE End
  BY <1>2, <1>8 DEF End
<1>9. CASE CullAbort \/ CullMissing \/ CullBail \/ DropFails \/ UnlinkFails \/ WaitTimeout
  BY <1>9 DEF CullAbort, CullMissing, CullBail, DropFails, UnlinkFails, WaitTimeout, MainAborts, Exit255
<1>10. CASE CullTake
  <2>1. PICK f : Settle(f)
    BY <1>10 DEF CullTake
  <2>2. /\ pc = "cull" /\ ~snap.abort /\ ~snap.bail /\ UNCHANGED <<tmp, hubFiles, stored, bailFile, abortFile, child>>
    BY <1>10 DEF CullTake
  <2>3. CASE Last
    <3>1. pc' = "drop" /\ cur = Root /\ ending
      BY <2>1, <2>2, <2>3 DEF Settle, GoOn
    <3>2. Root \notin f
      BY <2>1, <2>2, <3>1 DEF Settle, LastCull
    <3>3. Root \notin failed'
      BY <2>1, <3>1, <3>2 DEF Settle
    <3> QED BY <1>1, <2>2, <2>3, <3>1, <3>3 DEF LastInv, AllDone, child
  <2>4. CASE ~Last
    <3>1. ~Last'
      BY <2>1, <2>2, <2>4 DEF Settle, GoOn
    <3> QED BY <1>2, <3>1
  <2> QED BY <2>3, <2>4
<1>11. CASE Drop
  BY <1>1, <1>2, <1>11 DEF Drop, LastInv, AllDone, child
<1>12. CASE Dropped
  BY <1>1, <1>2, <1>12 DEF Dropped, GoOn, LastInv, AllDone, child, dir
<1>13. CASE SkipDrop
  BY <1>1, <1>13 DEF SkipDrop, LastInv, AllDone, child, dir
<1>14. CASE WaitDone
  <2>1. globals = {} /\ AllDone /\ UNCHANGED <<dir, child>>
    BY <1>14 DEF MainInv, WaitDone, Finalize, AllDone
  <2>2. pc' = "cull" /\ snap'.abort = abortFile /\ snap'.bail = bailFile
    <3>1. snap' = [Empty EXCEPT !.ready = Mine(Root), !.abort = abortFile, !.bail = bailFile /\ Root \notin globals]
          /\ pc' = "cull"
      BY <1>14 DEF WaitDone, Finalize, OpenDir
    <3>2. snap'.abort = abortFile /\ snap'.bail = (bailFile /\ Root \notin globals)
      BY <3>1 DEF Empty
    <3> QED BY <2>1, <3>1, <3>2 DEF TypeOK
  <2> QED BY <2>1, <2>2 DEF LastInv, AllDone, dir, child
<1>15. CASE Destroy
  <2>1. snap'.abort = abortFile /\ snap'.ready = ready /\ snap'.stored = stored /\ pc = "destroy" /\ pc' = "unlink"
        /\ abortFile' = FALSE /\ UNCHANGED <<tmp, hubFiles, stored, ready, bailFile, child, failed>>
    BY <1>15 DEF Destroy
  <2> QED BY <1>1, <2>1 DEF LastInv, AllDone, child
<1>16. CASE Unlink
  <2>1. PICK list \in Listings(stored \cup ready, Certain) :
          (snap.abort \/ list = {}) /\ stored' = stored \ list /\ ready' = ready \ list
    BY <1>16 DEF Unlink
  <2>2. pc = "unlink" /\ pc' = "rmdir" /\ hubFiles' = {} /\ bailFile' = FALSE
        /\ UNCHANGED <<tmp, abortFile, child, failed>>
    BY <1>16 DEF Unlink
  <2>3. Certain = stored \cup ready /\ list = {}
    BY <1>1, <2>1, <2>2 DEF Certain
  <2>4. stored \cup ready = {}
    BY <2>1, <2>3 DEF Listings
  <2> QED BY <1>1, <2>1, <2>2, <2>4 DEF LastInv, AllDone, child
<1>17. CASE Rmdir
  <2>1. pc = "rmdir" /\ pc' = "exit" /\ abortFile' = FALSE /\ UNCHANGED <<hubFiles, stored, ready, bailFile, child, failed>>
        /\ tmp' = (stored \cup ready # {} \/ bailFile \/ hubFiles # {})
    BY <1>17 DEF Rmdir
  <2>2. ~tmp'
    BY <1>1, <2>1
  <2> QED BY <1>1, <2>1, <2>2 DEF LastInv, AllDone, child
<1>18. CASE Main
  BY <1>18, <1>3, <1>4, <1>9, <1>10, <1>11, <1>12, <1>13, <1>14, <1>15, <1>16, <1>17 DEF Main
<1>19. CASE Test
  BY <1>19, <1>3, <1>4, <1>6, <1>7, <1>8 DEF Test
<1>20. CASE Age \/ UNCHANGED vars
  BY <1>20, <1>5 DEF Age, vars, main
<1> QED BY <1>3, <1>4, <1>18, <1>19, <1>20 DEF Next

(* What a cull collects is processed by its hub, and the failures of a hub *)
(* that has ended are failures of the root hub.                            *)
LEMMA KeptTake ==
  ASSUME TypeOK, SnapInv, MainInv, KeptInv, CullTake
  PROVE  KeptInv'
<1> DEFINE f(take) == failed \cup {e.hub : e \in {x \in take : x.fail}}
<1>1. PICK list : /\ list \in Listings(Mine(cur), snap.ready) /\ Collect(InOrder(list))
                  /\ got' = got \cup InOrder(list) /\ Settle(f(InOrder(list)))
  BY DEF CullTake
<1>2. pc = "cull" /\ UNCHANGED <<stored, bailFile, abortFile, sent, alarm>>
  BY DEF CullTake
<1>3. ready' = ready \ InOrder(list) /\ \A e \in InOrder(list) : e.hub = cur
  BY <1>1, <1>2, CollectTypes, TakeFacts
<1> DEFINE g == f(InOrder(list))
<1>4. /\ failed \subseteq g /\ g \subseteq failed \cup {cur}
      /\ \A e \in InOrder(list) : e.fail => e.hub \in g
  BY <1>3
<1> HIDE DEF f, g
<1>5. /\ failed' = g \cup (IF ending /\ cur \in g THEN {Root} ELSE {})
      /\ hst' = (IF ending THEN [hst EXCEPT ![cur] = "ended"] ELSE hst)
      /\ bad => bad'
  BY <1>1 DEF Settle, g
<1>6. cur \in Hubs /\ Root \in Hubs /\ hst[cur] # "new" /\ hst[Root] # "new"
      /\ (~ending => hst[cur] = "open") /\ hst \in [Hubs -> {"new", "open", "ended", "dropped"}]
  BY <1>2 DEF MainInv, TypeOK, Hubs
<1>7. \A e \in got' : e.fail => e.hub \in failed'
  BY <1>1, <1>4, <1>5 DEF KeptInv
<1>8. ASSUME NEW h \in failed' PROVE hst'[h] # "new" /\ (hst'[h] \in {"ended", "dropped"} => Root \in failed')
  <2>1. CASE h = Root
    BY <1>5, <1>6, <1>8, <2>1
  <2>2. CASE h # Root /\ h = cur
    BY <1>5, <1>6, <1>8, <2>2
  <2>3. CASE h # Root /\ h # cur
    <3>1. h \in failed /\ hst'[h] = hst[h] /\ failed \subseteq failed'
      BY <1>4, <1>5, <1>6, <1>8, <2>3
    <3> QED BY <3>1 DEF KeptInv
  <2> QED BY <2>1, <2>2, <2>3
<1>9. /\ ~bad' => sent' \subseteq got' \cup ready'
      /\ ~bad' /\ alarm' # {} => abortFile' \/ bailFile'
  BY <1>1, <1>2, <1>3, <1>5 DEF KeptInv
<1> QED BY <1>7, <1>8, <1>9 DEF KeptInv

LEMMA KeptStep ==
  ASSUME ~NoWait, TypeOK, SnapInv, MainInv, LastInv, KeptInv, [Next]_vars
  PROVE  KeptInv'
<1>0. bad => bad'
  BY BadStays
<1>1. ASSUME UNCHANGED <<ready, sent, got, failed, hst>>,
             ~bad' => UNCHANGED <<abortFile, bailFile, alarm>>
      PROVE  KeptInv'
  BY <1>0, <1>1 DEF KeptInv
<1>2. ASSUME NEW p \in Procs, Child(p) PROVE KeptInv'
  <2>1. UNCHANGED <<tmp, bad, pc, cur, ending, failed, hst, got>> /\ Alive(p)
    BY <1>2, ChildLeaves DEF main
  <2>2. ~bad => tmp
    BY <1>2, LastAlone DEF MainInv, Last
  <2>3. CASE Rename(p)
    BY <2>1, <2>3 DEF Rename, KeptInv, main
  <2>4. CASE SendFails(p)
    <3>1. UNCHANGED <<ready, bailFile, sent>> /\ abortFile' = (abortFile \/ tmp)
      BY <2>4 DEF SendFails
    <3>2. ~bad => abortFile'
      BY <2>2, <3>1
    <3> QED BY <2>1, <3>1, <3>2 DEF KeptInv
  <2>5. CASE Bail(p)
    BY <2>1, <2>5 DEF Bail, KeptInv, main
  <2>6. CASE Store(p) \/ Interrupt(p) \/ Leave(p) \/ Kill(p) \/ \E h \in Hubs, f \in BOOLEAN : SendCheck(p, h, f)
    BY <1>1, <2>6 DEF Store, Interrupt, Leave, Kill, SendCheck, dir, main
  <2> QED BY <1>2, <2>3, <2>4, <2>5, <2>6 DEF Child
<1>3. ASSUME NEW h \in Hubs, NewHub(h) PROVE KeptInv'
  <2>1. h \notin failed
    BY <1>3 DEF NewHub, KeptInv
  <2> QED BY <1>3, <2>1 DEF NewHub, KeptInv, TypeOK
<1>4. CASE CullAbort \/ CullMissing \/ DropFails \/ UnlinkFails
  BY <1>1, <1>4 DEF CullAbort, CullMissing, DropFails, UnlinkFails, MainAborts, Exit255, dir
<1>5. CASE CullBail
  BY <1>5 DEF CullBail, Exit255, KeptInv
<1>6. CASE CullTake
  BY <1>6, KeptTake
<1>7. CASE Dropped
  <2>1. hst' = [hst EXCEPT ![cur] = "dropped"] /\ UNCHANGED <<dir, failed, bad, sent, got, alarm>> /\ pc = "left"
    BY <1>7 DEF Dropped
  <2>2. cur \in failed => Root \in failed
    BY <2>1 DEF MainInv, KeptInv
  <2>3. \A h \in failed : hst'[h] # "new" /\ (hst'[h] \in {"ended", "dropped"} => Root \in failed)
    BY <2>1, <2>2 DEF KeptInv, TypeOK
  <2> QED BY <2>1, <2>3 DEF KeptInv, dir
<1>8. CASE Drop \/ SkipDrop \/ WaitDone \/ WaitTimeout \/ \E p \in Procs : Reap(p)
  BY <1>1, <1>8 DEF Drop, SkipDrop, WaitDone, WaitTimeout, Finalize, Reap, Reaped, dir
\* the clean-up removes an announcement only when nobody has made one
<1>9. ASSUME pc \in {"destroy", "unlink", "rmdir"}, UNCHANGED <<alarm, bad>>
      PROVE  ~bad' /\ alarm' # {} => abortFile' \/ bailFile'
  BY <1>9 DEF KeptInv, LastInv, Late, Last
<1>10. CASE Destroy
  BY <1>9, <1>10 DEF Destroy, KeptInv
<1>11. CASE Unlink
  <2>1. pc = "unlink" /\ ready' \subseteq ready /\ (~snap.abort => ready' = ready)
        /\ UNCHANGED <<failed, hst, bad, sent, got, alarm>>
    BY <1>11 DEF Unlink
  <2>2. ~bad => ready' = ready
    BY <2>1 DEF LastInv
  <2> QED BY <1>9, <2>1, <2>2 DEF KeptInv
<1>12. CASE Rmdir
  BY <1>9, <1>12 DEF Rmdir, KeptInv
<1>13. CASE Age \/ UNCHANGED vars
  BY <1>1, <1>13 DEF Age, vars, dir, main
<1>14. CASE Main
  BY <1>14, <1>4, <1>5, <1>6, <1>7, <1>8, <1>10, <1>11, <1>12 DEF Main
<1>15. CASE Test
  <2>1. CASE \E h \in Hubs : NewHub(h)
    BY <1>3, <2>1
  <2>2. CASE End \/ (\E h \in Hubs : Poll(h) \/ Finish(h)) \/ \E p \in Procs : Fork(p) \/ UserReap(p)
    BY <1>1, <2>2 DEF End, Poll, Finish, Fork, UserReap, Reaped, dir, main
  <2> QED BY <1>15, <2>1, <2>2 DEF Test
<1> QED BY <1>2, <1>13, <1>14, <1>15 DEF Next

(* The exit status is only 0 when nothing has failed before, and only left *)
(* as it was when the last cull has met its end.                           *)
StatusInv ==
  /\ status = "zero" => ~bad /\ Late
  /\ status = "unset" /\ Late => why \in {"abort", "missing"} \/ Root \in globals

LEMMA StatusStep ==
  ASSUME StatusInv, [Next]_vars
  PROVE  StatusInv'
<1>1. ASSUME UNCHANGED <<status, bad, why, globals, pc, cur, ending>> PROVE StatusInv'
  BY <1>1 DEF StatusInv, Late, Last
<1>2. ASSUME NEW p \in Procs, Child(p) PROVE StatusInv'
  BY <1>1, <1>2, ChildLeaves DEF main
<1>3. ASSUME UNCHANGED status, ~Late, ~Late' PROVE StatusInv'
  BY <1>3 DEF StatusInv
<1>4. ASSUME UNCHANGED <<status, bad, why, globals>>, Late, Late' PROVE StatusInv'
  BY <1>4 DEF StatusInv
<1>5. ASSUME NEW w, MainAborts(w), LastCull => w = "missing" PROVE StatusInv'
  BY <1>5 DEF MainAborts, Exit255, StatusInv, LastCull, Late, Last
<1>6. CASE CullMissing
  BY <1>5, <1>6 DEF CullMissing
<1>7. CASE DropFails \/ UnlinkFails
  BY <1>5, <1>7 DEF DropFails, UnlinkFails, LastCull
<1>8. CASE CullAbort
  BY <1>8 DEF CullAbort, Exit255, StatusInv, LastCull, Late, Last
<1>9. CASE CullBail
  BY <1>9 DEF CullBail, Exit255, StatusInv, LastCull, Late, Last
<1>10. CASE CullTake
  <2>1. PICK f : Settle(f)
    BY <1>10 DEF CullTake
  <2>2. pc = "cull"
    BY <1>10 DEF CullTake
  <2>3. CASE LastCull
    <3>1. status' = (IF bad' THEN "nonzero" ELSE "zero") /\ pc' = "drop" /\ cur' = Root
      BY <2>1, <2>3 DEF Settle, GoOn, LastCull
    <3> QED BY <3>1 DEF StatusInv, Late, Last
  <2>4. CASE ~LastCull
    <3>1. status' = status /\ ~Late
      BY <2>1, <2>2, <2>4 DEF Settle, Late
    <3>2. ~Late'
      BY <2>1, <2>2, <2>4 DEF Settle, GoOn, LastCull, Late, Last
    <3> QED BY <1>3, <3>1, <3>2
  <2> QED BY <2>3, <2>4
<1>11. CASE Drop \/ Dropped \/ SkipDrop \/ Destroy \/ Unlink \/ Rmdir
  <2>1. UNCHANGED <<status, bad, why, globals>>
    BY <1>11 DEF Drop, Dropped, SkipDrop, Destroy, Unlink, Rmdir
  <2>2. CASE Late
    BY <1>4, <2>1, <2>2, LateStays
  <2>3. CASE ~Late
    <3>1. ~Late'
      BY <1>11, <2>3 DEF Drop, Dropped, GoOn, SkipDrop, Destroy, Unlink, Rmdir, Late, Last
    <3> QED BY <1>3, <2>1, <2>3, <3>1
  <2> QED BY <2>2, <2>3
<1>12. CASE WaitDone \/ WaitTimeout \/ \E p \in Procs : Reap(p)
  BY <1>3, <1>12 DEF WaitDone, WaitTimeout, Finalize, OpenDir, Reap, Late, Last
<1>13. CASE Main
  BY <1>13, <1>6, <1>7, <1>8, <1>9, <1>10, <1>11, <1>12 DEF Main
<1>14. CASE Test
  BY <1>3, <1>14 DEF Test, NewHub, Poll, Finish, OpenDir, Fork, UserReap, End, main, Late, Last
<1>15. CASE Age \/ UNCHANGED vars
  BY <1>1, <1>15 DEF Age, vars, main
<1> QED BY <1>2, <1>13, <1>14, <1>15 DEF Next

EndInv == TypeOK /\ EventInv /\ SnapInv /\ MainInv /\ LastInv /\ KeptInv /\ StatusInv

LEMMA EndCorrect ==
  ASSUME ~NoWait
  PROVE  Spec => []EndInv
<1>1. Init => EndInv
  <2> SUFFICES ASSUME Init PROVE SnapInv /\ MainInv /\ LastInv /\ KeptInv /\ StatusInv
    BY InitFirst DEF EndInv
  <2>1. pc = "run" /\ cur = Root /\ hst[Root] = "open" /\ Root \in Hubs
    BY DEF Init, Hubs
  <2>2. SnapInv /\ LastInv
    BY <2>1 DEF SnapInv, LastInv, Late, Last
  <2>3. MainInv
    BY <2>1 DEF Init, MainInv, Last
  <2>4. KeptInv
    BY DEF Init, KeptInv
  <2>5. StatusInv
    BY <2>1 DEF Init, StatusInv, Late, Last
  <2> QED BY <2>2, <2>3, <2>4, <2>5
<1>2. EndInv /\ [Next]_vars => EndInv'
  BY NextTypes, SnapStep, MainStep, LastStep, KeptStep, StatusStep DEF EndInv
<1> QED BY <1>1, <1>2, PTL DEF Spec

LEMMA AtExit ==
  ASSUME EndInv, Passed
  PROVE  /\ ready = {} /\ sent \subseteq got /\ alarm = {} /\ ~tmp
         /\ \A h \in Hubs : h \notin failed
<1>0. ~bad /\ pc = "exit"
  BY DEF EndInv, StatusInv, Passed
<1>1. ready = {} /\ ~tmp /\ ~abortFile /\ ~bailFile /\ Root \notin failed
  BY <1>0 DEF EndInv, LastInv, Late, Last
<1>2. sent \subseteq got /\ alarm = {}
  BY <1>0, <1>1 DEF EndInv, KeptInv
<1>3. ASSUME NEW h \in Hubs PROVE h \notin failed
  <2>1. h = Root \/ hst[h] # "open"
    BY <1>0 DEF EndInv, MainInv, Last, Hubs
  <2> QED BY <1>1, <2>1 DEF EndInv, KeptInv, TypeOK
<1> QED BY <1>1, <1>2, <1>3

(* If test2_no_wait is not set, an event whose send has returned has been  *)
(* processed when a test passes (send and cull of Files.pm, set_exit).     *)
THEOREM NothingLostCorrect ==
  ASSUME ~NoWait
  PROVE  Spec => []NothingLost
<1>1. EndInv => NothingLost
  BY AtExit DEF NothingLost
<1> QED BY <1>1, EndCorrect, PTL

(* If test2_no_wait is not set, a failing event of a child, and a child    *)
(* that has aborted or bailed out, make the exit status nonzero, unless    *)
(* the last cull has come upon an abort, a missing or a global event and   *)
(* left the status as it was (set_exit in Instance.pm).                    *)
THEOREM FailureReportedCorrect ==
  ASSUME ~NoWait
  PROVE  Spec => []FailureReported
<1>1. EndInv => FailureReported
  <2> SUFFICES ASSUME EndInv, pc = "exit", status # "nonzero"
               PROVE  \/ (\A e \in sent : ~e.fail) /\ alarm = {}
                      \/ status = "unset" /\ (why \in {"abort", "missing"} \/ Root \in globals)
    BY DEF FailureReported
  <2>1. CASE status = "zero"
    <3>1. Passed
      BY <2>1 DEF Passed
    <3>2. ASSUME NEW e \in sent, e.fail PROVE FALSE
      <4>1. e \in got /\ e.hub \in Hubs
        BY <3>1, AtExit DEF EndInv, TypeOK, Events
      <4>2. e.hub \in failed
        BY <3>2, <4>1 DEF EndInv, KeptInv
      <4> QED BY <3>1, <4>1, <4>2, AtExit
    <3> QED BY <3>1, <3>2, AtExit
  <2>2. CASE status = "unset"
    BY <2>2 DEF EndInv, StatusInv, Late, Last
  <2> QED BY <2>1, <2>2 DEF EndInv, TypeOK
<1> QED BY <1>1, EndCorrect, PTL

(* If test2_no_wait is not set, a test that passes has removed its         *)
(* temporary directory (DESTROY in Files.pm).                              *)
THEOREM NothingLeftCorrect ==
  ASSUME ~NoWait
  PROVE  Spec => []NothingLeft
<1>1. EndInv => NothingLeft
  BY AtExit DEF NothingLeft
<1> QED BY <1>1, EndCorrect, PTL
=============================================================================
