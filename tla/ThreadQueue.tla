----------------------------- MODULE ThreadQueue -----------------------------
(***************************************************************************)
(* Thread::Queue (usr/share/perl5/5.40/Thread/Queue.pm) used by a set of   *)
(* threads.  Every method locks the queue object for its whole body and    *)
(* gives the lock up only inside cond_wait / cond_timedwait, so a method   *)
(* is one atomic action up to its return or up to its wait, and one more   *)
(* action each time the waiting thread has the lock again.                 *)
(*                                                                         *)
(* The one write outside the lock is the assignment $q->limit = N: limit() *)
(* is an lvalue method, its lock() ends with the method, and the store     *)
(* into the shared hash happens after it.                                  *)
(*                                                                         *)
(* Items are numbered in the order in which they entered the queue.        *)
(***************************************************************************)
EXTENDS Integers, Sequences, FiniteSets

CONSTANTS
  Threads,      \* the threads that share the queue object
  Counts,       \* COUNT arguments of the dequeue methods and of extract
  Batches,      \* lengths of the LIST given to new, enqueue and insert
  FirstLimits,  \* limits the queue may have before it is shared; 0 is false: none
  LaterLimits,  \* limits assigned while threads use it
  Indices,      \* INDEX arguments of insert and extract; {} leaves both out
  MaxPut        \* bound: no new enqueue or insert call above this many items

ASSUME CountsAssumption  == Counts \subseteq Nat \ {0}
ASSUME BatchesAssumption == Batches \subseteq Nat
ASSUME LimitsAssumption  == FirstLimits \cup LaterLimits \subseteq Nat
ASSUME IndicesAssumption == Indices \subseteq Int
ASSUME MaxPutAssumption  == MaxPut \in Nat

VARIABLES
  queue,    \* $$self{'queue'}
  limit,    \* $$self{'LIMIT'}
  ended,    \* $$self{'ENDED'}
  op,       \* op[t]: the call thread t is in the middle of, "idle" if none
  need,     \* need[t]: its COUNT, or for enqueue the length of its LIST
  waiters,  \* threads inside cond_wait / cond_timedwait on the object
  nput,     \* history: how many items have entered the queue
  taken     \* history: the items that left the queue, in that order

vars == <<queue, limit, ended, op, need, waiters, nput, taken>>

Calls == {"idle", "enqueue", "dequeue", "timed", "expired"}

(* A thread in the middle of a call that is not waiting: it was signalled, *)
(* or its wait timed out, and it runs as soon as it gets the lock.         *)
Ready(t) == op[t] # "idle" /\ t \notin waiters

TypeOK ==
  /\ queue \in Seq(Nat)
  /\ limit \in FirstLimits \cup LaterLimits
  /\ ended \in BOOLEAN
  /\ op \in [Threads -> Calls]
  /\ need \in [Threads -> Nat]
  /\ waiters \subseteq {t \in Threads : op[t] \in {"enqueue", "dequeue", "timed"}}
  /\ nput \in Nat
  /\ taken \in Seq(Nat)

-----------------------------------------------------------------------------
(* Items a + 1, ..., a + n.                                                *)
Run(a, n) == [i \in 1..n |-> a + i]

Init ==
  /\ \E k \in Batches \cup {0} : nput = k /\ queue = Run(0, k)
  /\ limit \in FirstLimits
  /\ ended = FALSE
  /\ op = [t \in Threads |-> "idle"]
  /\ need = [t \in Threads |-> 0]
  /\ waiters = {}
  /\ taken = << >>

-----------------------------------------------------------------------------
(* The primitives of threads::shared.                                      *)

(* cond_signal: one waiter, any, stops waiting; without waiters the signal *)
(* is discarded.  ws is the set of waiters when the signal is sent.        *)
CondSignal(ws) ==
  IF ws = {} THEN waiters' = {} ELSE \E w \in ws : waiters' = ws \ {w}

(* Thread t leaves the lock inside cond_wait or cond_timedwait.            *)
Wait(t, call, n) ==
  /\ op' = [op EXCEPT ![t] = call]
  /\ need' = [need EXCEPT ![t] = n]
  /\ waiters' = waiters \cup {t}
  /\ UNCHANGED <<queue, ended, nput, taken>>

(* Thread t's call returns or croaks.                                      *)
Return(t) ==
  /\ op' = [op EXCEPT ![t] = "idle"]
  /\ need' = [need EXCEPT ![t] = 0]

(* threads::shared warns that cond_wait may return without a signal.       *)
SpuriousWakeup(t) ==
  /\ t \in waiters
  /\ waiters' = waiters \ {t}
  /\ UNCHANGED <<queue, limit, ended, op, need, nput, taken>>

(* cond_timedwait gives up: the thread is no longer waiting, and leaves    *)
(* the loop of dequeue_timed when it has the lock again.                   *)
TimeOut(t) ==
  /\ t \in waiters
  /\ op[t] = "timed"
  /\ waiters' = waiters \ {t}
  /\ op' = [op EXCEPT ![t] = "expired"]
  /\ UNCHANGED <<queue, limit, ended, need, nput, taken>>

-----------------------------------------------------------------------------
(* _validate_count refuses a count above the limit (the counts below 1 are *)
(* not modelled: such a call croaks before it does anything).              *)
ValidCount(n) == limit = 0 \/ n <= limit

(* The condition of enqueue's wait loop; it reads LIMIT twice.             *)
AtLimit(first, second) == first # 0 /\ Len(queue) >= second

(* Seeded bug: enqueue does not signal.                                    *)
EnqueueLoop_Silent(t, n, later) ==
  /\ limit' = later
  /\ \/ AtLimit(limit, later) /\ Wait(t, "enqueue", n)
     \/ /\ ~AtLimit(limit, later)
        /\ queue' = queue \o Run(nput, n)
        /\ nput' = nput + n
        /\ Return(t)
        /\ UNCHANGED <<waiters, ended, taken>>

(* enqueue from its wait loop on.  The store of a new limit by another     *)
(* thread, which holds no lock, may fall between the two reads of LIMIT:   *)
(* later is the value the second read sees.                                *)
EnqueueLoop(t, n, later) ==
  /\ later # limit => \E s \in Threads \ {t} : op[s] = "idle"
  /\ limit' = later
  /\ \/ /\ AtLimit(limit, later)
        /\ Wait(t, "enqueue", n)
     \/ /\ ~AtLimit(limit, later)
        /\ queue' = queue \o Run(nput, n)
        /\ nput' = nput + n
        /\ Return(t)
        /\ IF queue' # << >> THEN CondSignal(waiters) ELSE UNCHANGED waiters
        /\ UNCHANGED <<ended, taken>>

(* Seeded bug: taking items signals nobody.                                *)
TakeHead_Silent(t, k) ==
  /\ queue' = SubSeq(queue, k + 1, Len(queue))
  /\ taken' = taken \o SubSeq(queue, 1, k)
  /\ Return(t)
  /\ UNCHANGED <<limit, ended, nput, waiters>>

(* The items leave at the head and the next waiter is signalled.           *)
TakeHead(t, k) ==
  /\ queue' = SubSeq(queue, k + 1, Len(queue))
  /\ taken' = taken \o SubSeq(queue, 1, k)
  /\ CondSignal(waiters)
  /\ Return(t)
  /\ UNCHANGED <<limit, ended, nput>>

Croak(t) == Return(t) /\ UNCHANGED <<queue, limit, ended, waiters, nput, taken>>

(* dequeue_nb validates its count, also when another method calls it.      *)
DequeueNbBody(t, n) ==
  IF ValidCount(n) THEN TakeHead(t, IF n <= Len(queue) THEN n ELSE Len(queue))
                   ELSE Croak(t)

(* Seeded bug: the condition is tested once, not in a loop.                *)
DequeueLoop_Once(t, n) ==
  \/ Len(queue) < n /\ ~ended /\ op[t] = "idle" /\ Wait(t, "dequeue", n) /\ UNCHANGED limit
  \/ (Len(queue) >= n \/ ended \/ op[t] = "dequeue") /\ DequeueNbBody(t, n)

(* dequeue from its wait loop on.                                          *)
DequeueLoop(t, n) ==
  \/ Len(queue) < n /\ ~ended /\ Wait(t, "dequeue", n) /\ UNCHANGED limit
  \/ ended /\ DequeueNbBody(t, n)
  \/ Len(queue) >= n /\ ~ended /\ TakeHead(t, n)

(* dequeue_timed from its wait loop on.                                    *)
TimedLoop(t, n) ==
  \/ Len(queue) < n /\ ~ended /\ Wait(t, "timed", n) /\ UNCHANGED limit
  \/ (Len(queue) >= n \/ ended) /\ DequeueNbBody(t, n)

-----------------------------------------------------------------------------
(* The calls.  A call that croaks at once changes nothing and is left out. *)

(* Seeded bug: ENDED is not tested.                                        *)
Enqueue_Ended(t, n, later) ==
  /\ op[t] = "idle"
  /\ nput + n <= MaxPut
  /\ EnqueueLoop(t, n, later)

Enqueue(t, n, later) ==
  /\ op[t] = "idle"
  /\ nput + n <= MaxPut
  /\ ~ended
  /\ EnqueueLoop(t, n, later)

Dequeue(t, n)      == op[t] = "idle" /\ ValidCount(n) /\ DequeueLoop(t, n)
DequeueNb(t, n)    == op[t] = "idle" /\ DequeueNbBody(t, n)
DequeueTimed(t, n) == op[t] = "idle" /\ ValidCount(n) /\ TimedLoop(t, n)

(* $q->limit = l: stores and signals nobody.                               *)
SetLimit(t, l) ==
  /\ op[t] = "idle"
  /\ limit' = l
  /\ UNCHANGED <<queue, ended, op, need, waiters, nput, taken>>

End(t) ==
  /\ op[t] = "idle"
  /\ ended' = TRUE
  /\ CondSignal(waiters)
  /\ UNCHANGED <<queue, limit, op, need, nput, taken>>

(* A negative index counts from the end of the queue.                      *)
FromEnd(i) == IF i < 0 THEN i + Len(queue) ELSE i

(* insert: i items stay in front of the new ones, all of them if the queue *)
(* is shorter; no limit is looked at.                                      *)
Insert(t, index, n) ==
  LET from == FromEnd(index)
      i == IF from < 0 THEN 0 ELSE IF from > Len(queue) THEN Len(queue) ELSE from
  IN  /\ op[t] = "idle"
      /\ ~ended
      /\ n > 0 /\ nput + n <= MaxPut
      /\ queue' = SubSeq(queue, 1, i) \o Run(nput, n) \o SubSeq(queue, i + 1, Len(queue))
      /\ nput' = nput + n
      /\ CondSignal(waiters)
      /\ UNCHANGED <<limit, ended, op, need, taken>>

(* Seeded bug: the item behind the extracted ones is dropped.              *)
ExtractBehind_Drops(t, i, n) ==
  LET last == IF i + n < Len(queue) THEN i + n ELSE Len(queue)
  IN  /\ queue' = SubSeq(queue, 1, i) \o SubSeq(queue, last + 2, Len(queue))
      /\ taken' = taken \o SubSeq(queue, i + 1, last)
      /\ CondSignal(waiters)
      /\ UNCHANGED <<limit, ended, op, need, nput>>

(* extract at or behind the head: items i + 1 .. i + n leave, as far as    *)
(* there are any.                                                          *)
ExtractBehind(t, i, n) ==
  LET last == IF i + n < Len(queue) THEN i + n ELSE Len(queue)
  IN  /\ queue' = SubSeq(queue, 1, i) \o SubSeq(queue, last + 1, Len(queue))
      /\ taken' = taken \o SubSeq(queue, i + 1, last)
      /\ CondSignal(waiters)
      /\ UNCHANGED <<limit, ended, op, need, nput>>

(* extract: an index before the head shortens the count, and what is left  *)
(* is taken from the head by dequeue_nb.                                   *)
Extract(t, index, n) ==
  LET i == FromEnd(index)
  IN  /\ op[t] = "idle"
      /\ ValidCount(n)
      /\ \/ i >= Len(queue) /\ CondSignal(waiters)
            /\ UNCHANGED <<queue, limit, ended, op, need, nput, taken>>
         \/ i >= 0 /\ i < Len(queue) /\ ExtractBehind(t, i, n)
         \/ i < 0 /\ n + i > 0 /\ DequeueNbBody(t, n + i)

-----------------------------------------------------------------------------

(* A thread that no longer waits has the lock again and goes on: it tests  *)
(* its loop condition, except that an expired wait leaves the loop.        *)
Resume(t) ==
  /\ Ready(t)
  /\ \/ op[t] = "enqueue" /\ \E l \in LaterLimits \cup {limit} : EnqueueLoop(t, need[t], l)
     \/ op[t] = "dequeue" /\ DequeueLoop(t, need[t])
     \/ op[t] = "timed"   /\ TimedLoop(t, need[t])
     \/ op[t] = "expired" /\ DequeueNbBody(t, need[t])

NewCall(t) ==
  \/ \E n \in Batches, l \in LaterLimits \cup {limit} : Enqueue(t, n, l)
  \/ \E n \in Counts : Dequeue(t, n) \/ DequeueNb(t, n) \/ DequeueTimed(t, n)
  \/ \E l \in LaterLimits : SetLimit(t, l)
  \/ End(t)
  \/ \E i \in Indices, n \in Batches : Insert(t, i, n)
  \/ \E i \in Indices, n \in Counts : Extract(t, i, n)

Step(t) == NewCall(t) \/ Resume(t) \/ SpuriousWakeup(t) \/ TimeOut(t)

Next == \E t \in Threads : Step(t)

Spec == Init /\ [][Next]_vars

(* A thread that can have the lock gets it.  A timed wait may be left by a *)
(* wakeup and entered again, but always with the same absolute deadline:   *)
(* it cannot go on for ever, whence strong fairness.                       *)
Fairness == \A t \in Threads : WF_vars(Resume(t)) /\ SF_vars(TimeOut(t))

FairSpec == Spec /\ Fairness

-----------------------------------------------------------------------------
(* The items pass through in order: what was taken followed by what is in  *)
(* the queue is exactly what was put, no item lost, doubled or overtaken.  *)
(* (enqueue and the dequeue family only; insert and extract reorder.)      *)
Fifo == taken \o queue = Run(0, nput)

(* With insert and extract the order is free, but still every item that    *)
(* entered is exactly once either taken or in the queue.                   *)
Items(s) == {s[i] : i \in 1..Len(s)}

Conservation ==
  /\ Len(taken) + Len(queue) = nput
  /\ Items(taken) \cup Items(queue) = 1..nput

(* The threads that sleep in dequeue or dequeue_timed.                     *)
Sleepers == {t \in waiters : op[t] \in {"dequeue", "timed"}}

(* A sleeping dequeue whose items are there, or whose queue has ended, is  *)
(* not forgotten: some thread is on its way, and signals when it returns.  *)
NoLostWakeup ==
  (\E t \in Sleepers : Len(queue) >= need[t] \/ ended) => \E s \in Threads : Ready(s)

(* Once the queue has ended, items enter it only from the enqueue calls    *)
(* that waited at the limit when it ended, each of them once: no later     *)
(* call gets in, and none of these waits for a second time with more.      *)
OnlyBlockedEnter ==
  [][ended =>
       /\ ended'
       /\ \A t \in Threads : op'[t] = "enqueue" => op[t] = "enqueue" /\ need'[t] = need[t]
       /\ nput' = nput \/ \E t \in Threads :
            op[t] = "enqueue" /\ op'[t] = "idle" /\ nput' = nput + need[t]]_vars

(* What the documentation says and the code does not do: "Once ended, no   *)
(* more items may be placed in the queue" (Queue.pm:522).                  *)
NothingAfterEnd == [][ended => ended' /\ nput' = nput]_vars

(* A dequeue that blocked returns all it asked for unless the queue ended: *)
(* a short answer is the sign of the end.                                  *)
ShortOnlyAtEnd ==
  [][\A t \in Threads :
       op[t] = "dequeue" /\ op'[t] = "idle" /\ ~ended
         => Len(taken') = Len(taken) + need[t]]_vars

(* The queue keeps what its documentation promises.  The items leave in    *)
(* the order they came; a dequeue that can be answered, be it because the  *)
(* queue has ended, is answered, though end signals one thread only.       *)
Promise == INSTANCE QueuePromise WITH
  chan    <- queue,
  closed  <- ended,
  asked   <- [t \in Threads |-> IF op[t] = "idle" THEN 0 ELSE need[t]],
  hurried <- {t \in Threads : op[t] \in {"timed", "expired"}},
  out     <- taken

KeepsPromise == Promise!PSpec
=============================================================================
