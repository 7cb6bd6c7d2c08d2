----------------------------- MODULE QueuePromise ----------------------------
(***************************************************************************)
(* What the documentation of Thread::Queue promises of a queue without a   *)
(* limit: items go in at the end and out at the head, a blocking dequeue   *)
(* is served as soon as there are enough items or the queue has ended, a   *)
(* timed one also when its time is over.  Nobody sleeps and nobody is      *)
(* signalled here: a request is pending, and it is served.                 *)
(***************************************************************************)
EXTENDS Integers, Sequences

CONSTANTS Threads, Counts, Batches

VARIABLES
  chan,     \* the items that are in the queue
  closed,   \* end has been called
  asked,    \* asked[t]: items thread t is waiting for, 0 if it is not
  hurried,  \* the threads whose pending request is a timed one
  out       \* the items handed out so far, in that order

pvars == <<chan, closed, asked, hurried, out>>

PInit ==
  /\ \E k \in Batches \cup {0} : chan = [i \in 1..k |-> i]
  /\ closed = FALSE
  /\ asked = [t \in Threads |-> 0]
  /\ hurried = {}
  /\ out = << >>

(* Up to n items are handed out; t has no pending request afterwards.      *)
HandOut(t, n) ==
  LET k == IF n <= Len(chan) THEN n ELSE Len(chan)
  IN  /\ chan' = SubSeq(chan, k + 1, Len(chan))
      /\ out' = out \o SubSeq(chan, 1, k)
      /\ asked' = [asked EXCEPT ![t] = 0]
      /\ hurried' = hurried \ {t}
      /\ UNCHANGED closed

(* New items get the next numbers and go to the end, never after the end.  *)
Put(n) ==
  LET last == Len(out) + Len(chan)
  IN  /\ ~closed
      /\ chan' = chan \o [i \in 1..n |-> last + i]
      /\ UNCHANGED <<closed, asked, hurried, out>>

Close == closed' = TRUE /\ UNCHANGED <<chan, asked, hurried, out>>

(* A request that cannot be served at once: too few items, and more may    *)
(* still come.                                                             *)
Ask(t, n, inTime) ==
  /\ asked[t] = 0
  /\ ~closed /\ Len(chan) < n
  /\ asked' = [asked EXCEPT ![t] = n]
  /\ hurried' = IF inTime THEN hurried \cup {t} ELSE hurried
  /\ UNCHANGED <<chan, closed, out>>

Poll(t, n) == asked[t] = 0 /\ HandOut(t, n)

Serve(t) ==
  /\ asked[t] # 0
  /\ closed \/ Len(chan) >= asked[t]
  /\ HandOut(t, asked[t])

GiveUp(t) == t \in hurried /\ HandOut(t, asked[t])

PNext ==
  \/ Close
  \/ \E n \in Batches : Put(n)
  \/ \E t \in Threads :
       \/ \E n \in Counts, b \in BOOLEAN : Poll(t, n) \/ Ask(t, n, b)
       \/ Serve(t) \/ GiveUp(t)

PSafety == PInit /\ [][PNext]_pvars

(* A request that can be served, and stays so, is served; a timed request  *)
(* is always answered.                                                     *)
PLiveness == \A t \in Threads : WF_pvars(Serve(t)) /\ WF_pvars(Serve(t) \/ GiveUp(t))

PSpec == PSafety /\ PLiveness
=============================================================================
