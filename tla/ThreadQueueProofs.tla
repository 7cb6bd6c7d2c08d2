-------------------------- MODULE ThreadQueueProofs --------------------------
(***************************************************************************)
(* Theorems about ThreadQueue for every set of threads and every value of  *)
(* the constants.                                                          *)
(***************************************************************************)
EXTENDS ThreadQueue, SequenceTheorems, TLAPS

-----------------------------------------------------------------------------
(* Sequences of items.                                                     *)

(* Items a + 1 .. a + n are a sequence of n numbers.                       *)
LEMMA RunIsSeq ==
  ASSUME NEW a \in Nat, NEW n \in Nat
  PROVE  Run(a, n) \in Seq(Nat) /\ Len(Run(a, n)) = n
BY DEF Run

(* A run goes on where the run before it stopped.                          *)
LEMMA RunExtends ==
  ASSUME NEW m \in Nat, NEW n \in Nat
  PROVE  Run(0, m) \o Run(m, n) = Run(0, m + n)
<1>1. Run(0, m) \in Seq(Nat) /\ Run(m, n) \in Seq(Nat) /\ Run(0, m + n) \in Seq(Nat)
  BY RunIsSeq
<1>2. Len(Run(0, m)) = m /\ Len(Run(m, n)) = n /\ Len(Run(0, m + n)) = m + n
  BY RunIsSeq
<1> DEFINE c == Run(0, m) \o Run(m, n)
<1>3. c \in Seq(Nat) /\ Len(c) = m + n
  BY <1>1, <1>2, ConcatProperties
<1>4. \A i \in 1..(m + n) : c[i] = Run(0, m + n)[i]
  <2> SUFFICES ASSUME NEW i \in 1..(m + n) PROVE c[i] = Run(0, m + n)[i]
    OBVIOUS
  <2> DEFINE u == Run(0, m)
             v == Run(m, n)
  <2> HIDE DEF u, v
  <2>u. u \in Seq(Nat) /\ v \in Seq(Nat) /\ Len(u) = m /\ Len(v) = n
    BY <1>1, <1>2 DEF u, v
  <2>v. \A j \in 1..(Len(u) + Len(v)) : (u \o v)[j] = IF j <= Len(u) THEN u[j] ELSE v[j - Len(u)]
    BY <2>u, ConcatProperties
  <2>1. c[i] = IF i <= m THEN Run(0, m)[i] ELSE Run(m, n)[i - m]
    BY <2>u, <2>v DEF u, v, c
  <2>2. CASE i <= m
    BY <2>1, <2>2 DEF Run
  <2>3. CASE ~(i <= m)
    <3>1. i - m \in 1..n
      BY <2>3
    <3> QED
      BY <2>1, <2>3, <3>1 DEF Run
  <2> QED
    BY <2>2, <2>3
<1> HIDE DEF c
<1>5. c = Run(0, m + n)
  BY <1>1, <1>2, <1>3, <1>4, SeqEqual
<1> QED
  BY <1>5 DEF c

(* Any part of a queue is a queue.                                         *)
LEMMA PartIsSeq ==
  ASSUME NEW q \in Seq(Nat), NEW m \in Nat \ {0}, NEW n \in Nat, n <= Len(q)
  PROVE  SubSeq(q, m, n) \in Seq(Nat)
<1>1. \A i \in m..n : q[i] \in Nat
  BY ElementOfSeq
<1> QED
  BY <1>1, SubSeqProperties

(* Concatenation of item sequences is associative.                         *)
LEMMA Joins ==
  ASSUME NEW a \in Seq(Nat), NEW b \in Seq(Nat), NEW c \in Seq(Nat)
  PROVE  (a \o b) \o c = a \o (b \o c)
BY SMT

(* Cutting a queue behind item k loses nothing.                            *)
LEMMA CutAndJoin ==
  ASSUME NEW q \in Seq(Nat), NEW k \in 0..Len(q)
  PROVE  SubSeq(q, 1, k) \o SubSeq(q, k + 1, Len(q)) = q
<1>1. Len(q) \in Nat
  BY LenProperties
<1>2. SubSeq(q, 1, k) \o SubSeq(q, k + 1, Len(q)) = SubSeq(q, 1, Len(q))
  BY <1>1, ConcatAdjacentSubSeq, 1 \in 1..(Len(q) + 1), k \in (1 - 1)..Len(q), Len(q) \in k..Len(q)
<1> QED
  BY <1>2, SubSeqFull

-----------------------------------------------------------------------------
(* The pieces of the actions keep the types.                               *)

LEMMA SignalType ==
  ASSUME TypeOK, NEW ws \in SUBSET waiters, CondSignal(ws)
  PROVE  waiters' \subseteq ws
BY DEF CondSignal

(* A call that ends is not waiting, so the types of op, need and waiters   *)
(* are kept.                                                               *)
LEMMA ReturnType ==
  ASSUME TypeOK, NEW t \in Threads, t \notin waiters, Return(t), waiters' \subseteq waiters
  PROVE  /\ op' \in [Threads -> Calls]
         /\ need' \in [Threads -> Nat]
         /\ waiters' \subseteq {s \in Threads : op'[s] \in {"enqueue", "dequeue", "timed"}}
<1>1. op' \in [Threads -> Calls] /\ need' \in [Threads -> Nat]
  BY DEF TypeOK, Return, Calls
<1>2. ASSUME NEW s \in waiters' PROVE s \in Threads /\ op'[s] \in {"enqueue", "dequeue", "timed"}
  <2>1. s \in waiters /\ s # t
    BY <1>2
  <2>2. s \in Threads /\ op[s] \in {"enqueue", "dequeue", "timed"}
    BY <2>1 DEF TypeOK
  <2> QED
    BY <2>1, <2>2 DEF Return, TypeOK
<1> QED
  BY <1>1, <1>2

LEMMA TakeHeadType ==
  ASSUME TypeOK, NEW t \in Threads, t \notin waiters,
         NEW k \in 0..Len(queue), TakeHead(t, k)
  PROVE  TypeOK'
<1>1. Len(queue) \in Nat
  BY LenProperties DEF TypeOK
<1>2. queue' \in Seq(Nat)
  BY <1>1, PartIsSeq DEF TakeHead, TypeOK
<1>3. taken' \in Seq(Nat)
  <2>1. SubSeq(queue, 1, k) \in Seq(Nat)
    BY <1>1, PartIsSeq DEF TypeOK
  <2> QED
    BY <2>1, ConcatProperties DEF TakeHead, TypeOK
<1>4. waiters' \subseteq waiters
  BY SignalType DEF TakeHead
<1> QED
  BY <1>2, <1>3, <1>4, ReturnType DEF TypeOK, TakeHead

LEMMA DequeueNbType ==
  ASSUME TypeOK, NEW t \in Threads, t \notin waiters, NEW n \in Nat, DequeueNbBody(t, n)
  PROVE  TypeOK'
<1>1. Len(queue) \in Nat
  BY LenProperties DEF TypeOK
<1>2. CASE ValidCount(n)
  <2> DEFINE k == IF n <= Len(queue) THEN n ELSE Len(queue)
  <2>1. k \in 0..Len(queue) /\ TakeHead(t, k)
    BY <1>1, <1>2 DEF DequeueNbBody
  <2> QED
    BY <2>1, TakeHeadType
<1>3. CASE ~ValidCount(n)
  <2>1. Return(t) /\ UNCHANGED <<queue, limit, ended, waiters, nput, taken>>
    BY <1>3 DEF DequeueNbBody, Croak
  <2> QED
    BY <2>1, ReturnType DEF TypeOK
<1> QED
  BY <1>2, <1>3

LEMMA WaitType ==
  ASSUME TypeOK, NEW t \in Threads, NEW call \in {"enqueue", "dequeue", "timed"},
         NEW n \in Nat, Wait(t, call, n), limit' \in FirstLimits \cup LaterLimits
  PROVE  TypeOK'
BY DEF TypeOK, Wait, Calls

LEMMA EnqueueLoopType ==
  ASSUME TypeOK, NEW t \in Threads, t \notin waiters, NEW n \in Nat,
         NEW l \in LaterLimits \cup {limit}, EnqueueLoop(t, n, l)
  PROVE  TypeOK'
<1>1. limit' \in FirstLimits \cup LaterLimits
  BY DEF EnqueueLoop, TypeOK
<1>2. CASE AtLimit(limit, l)
  BY <1>1, <1>2, WaitType DEF EnqueueLoop
<1>3. CASE ~AtLimit(limit, l)
  <2>1. queue' = queue \o Run(nput, n) /\ nput' = nput + n /\ Return(t)
        /\ UNCHANGED <<ended, taken>>
    BY <1>3 DEF EnqueueLoop
  <2>2. queue' \in Seq(Nat)
    BY <2>1, RunIsSeq, ConcatProperties DEF TypeOK
  <2>3. waiters' \subseteq waiters
    BY <1>3, SignalType DEF EnqueueLoop
  <2> QED
    BY <1>1, <2>1, <2>2, <2>3, ReturnType DEF TypeOK
<1> QED
  BY <1>2, <1>3

LEMMA DequeueLoopType ==
  ASSUME TypeOK, NEW t \in Threads, t \notin waiters, NEW n \in Nat, DequeueLoop(t, n)
  PROVE  TypeOK'
<1>1. CASE Wait(t, "dequeue", n) /\ UNCHANGED limit
  <2>1. limit' \in FirstLimits \cup LaterLimits
    BY <1>1 DEF TypeOK
  <2> QED
    BY <1>1, <2>1, WaitType
<1>2. CASE DequeueNbBody(t, n)
  BY <1>2, DequeueNbType
<1>3. CASE Len(queue) >= n /\ TakeHead(t, n)
  <2>1. n \in 0..Len(queue)
    BY <1>3, LenProperties DEF TypeOK
  <2> QED
    BY <1>3, <2>1, TakeHeadType
<1> QED
  BY <1>1, <1>2, <1>3 DEF DequeueLoop

LEMMA TimedLoopType ==
  ASSUME TypeOK, NEW t \in Threads, t \notin waiters, NEW n \in Nat, TimedLoop(t, n)
  PROVE  TypeOK'
<1>1. CASE Wait(t, "timed", n) /\ UNCHANGED limit
  <2>1. limit' \in FirstLimits \cup LaterLimits
    BY <1>1 DEF TypeOK
  <2> QED
    BY <1>1, <2>1, WaitType
<1>2. CASE DequeueNbBody(t, n)
  BY <1>2, DequeueNbType
<1> QED
  BY <1>1, <1>2 DEF TimedLoop

LEMMA InsertType ==
  ASSUME TypeOK, NEW t \in Threads, NEW index \in Int, NEW n \in Nat, Insert(t, index, n)
  PROVE  TypeOK'
<1> DEFINE from == FromEnd(index)
           i == IF from < 0 THEN 0 ELSE IF from > Len(queue) THEN Len(queue) ELSE from
<1>1. Len(queue) \in Nat /\ i \in 0..Len(queue)
  BY LenProperties DEF TypeOK, FromEnd
<1>2. queue' = SubSeq(queue, 1, i) \o Run(nput, n) \o SubSeq(queue, i + 1, Len(queue))
  BY DEF Insert
<1> HIDE DEF i, from
<1>3. SubSeq(queue, 1, i) \in Seq(Nat) /\ SubSeq(queue, i + 1, Len(queue)) \in Seq(Nat)
  BY <1>1, PartIsSeq DEF TypeOK
<1>4. Run(nput, n) \in Seq(Nat)
  BY RunIsSeq DEF TypeOK
<1>5. queue' \in Seq(Nat)
  BY <1>2, <1>3, <1>4, ConcatProperties
<1>6. waiters' \subseteq waiters
  BY SignalType DEF Insert
<1> QED
  BY <1>5, <1>6 DEF TypeOK, Insert

LEMMA ExtractBehindType ==
  ASSUME TypeOK, NEW t, NEW i \in 0..(Len(queue) - 1), NEW n \in Nat, ExtractBehind(t, i, n)
  PROVE  TypeOK'
<1> DEFINE last == IF i + n < Len(queue) THEN i + n ELSE Len(queue)
<1>1. Len(queue) \in Nat /\ last \in i..Len(queue) /\ i \in Nat
  BY LenProperties DEF TypeOK
<1>2. queue' = SubSeq(queue, 1, i) \o SubSeq(queue, last + 1, Len(queue))
      /\ taken' = taken \o SubSeq(queue, i + 1, last)
  BY DEF ExtractBehind
<1> HIDE DEF last
<1>3. /\ SubSeq(queue, 1, i) \in Seq(Nat)
      /\ SubSeq(queue, i + 1, last) \in Seq(Nat)
      /\ SubSeq(queue, last + 1, Len(queue)) \in Seq(Nat)
  BY <1>1, PartIsSeq DEF TypeOK
<1>4. queue' \in Seq(Nat) /\ taken' \in Seq(Nat)
  BY <1>2, <1>3, ConcatProperties DEF TypeOK
<1>5. waiters' \subseteq waiters
  BY SignalType DEF ExtractBehind
<1> QED
  BY <1>4, <1>5 DEF TypeOK, ExtractBehind

LEMMA ExtractType ==
  ASSUME TypeOK, NEW t \in Threads, NEW index \in Int, NEW n \in Nat, Extract(t, index, n)
  PROVE  TypeOK'
<1> DEFINE i == FromEnd(index)
<1>1. Len(queue) \in Nat /\ i \in Int
  BY LenProperties DEF TypeOK, FromEnd
<1>2. t \notin waiters
  BY DEF TypeOK, Extract
<1>3. CASE /\ CondSignal(waiters)
           /\ UNCHANGED <<queue, limit, ended, op, need, nput, taken>>
  <2>1. waiters' \subseteq waiters
    BY <1>3, SignalType
  <2> QED
    BY <1>3, <2>1 DEF TypeOK
<1>4. CASE i >= 0 /\ i < Len(queue) /\ ExtractBehind(t, i, n)
  <2>1. i \in 0..(Len(queue) - 1)
    BY <1>1, <1>4
  <2> QED
    BY <1>4, <2>1, ExtractBehindType
<1>5. CASE i < 0 /\ n + i > 0 /\ DequeueNbBody(t, n + i)
  <2>1. n + i \in Nat
    BY <1>1, <1>5
  <2> QED
    BY <1>2, <1>5, <2>1, DequeueNbType
<1> QED
  BY <1>3, <1>4, <1>5 DEF Extract

-----------------------------------------------------------------------------
(* Case analysis on a step, once for all the proofs below: what a step     *)
(* does is one of these.                                                   *)
LEMMA StepCases ==
  ASSUME TypeOK, NEW t \in Threads, Step(t)
  PROVE  \/ t \notin waiters /\ \E n \in Nat, l \in LaterLimits \cup {limit} :
                 EnqueueLoop(t, n, l) /\ ((op[t] = "idle" /\ ~ended /\ n \in Batches) \/ op[t] = "enqueue")
         \/ t \notin waiters /\ op[t] \in {"idle", "dequeue"}
                 /\ \E n \in Counts \cup {need[t]} : DequeueLoop(t, n)
                        /\ (op[t] = "idle" => n \in Counts) /\ (op[t] # "idle" => n = need[t])
         \/ t \notin waiters /\ op[t] \in {"idle", "timed"}
                 /\ \E n \in Counts \cup {need[t]} : TimedLoop(t, n)
                        /\ (op[t] = "idle" => n \in Counts) /\ (op[t] # "idle" => n = need[t])
         \/ t \notin waiters /\ op[t] \in {"idle", "expired"}
                 /\ \E n \in Counts \cup {need[t]} : DequeueNbBody(t, n)
                        /\ (op[t] = "idle" => n \in Counts) /\ (op[t] # "idle" => n = need[t])
         \/ \E l \in LaterLimits : SetLimit(t, l)
         \/ End(t)
         \/ \E i \in Indices, n \in Batches : Insert(t, i, n)
         \/ \E i \in Indices, n \in Counts : Extract(t, i, n)
         \/ SpuriousWakeup(t)
         \/ TimeOut(t)
<1>1. op[t] = "idle" => t \notin waiters
  BY DEF TypeOK
<1>2. need[t] \in Nat
  BY DEF TypeOK
<1>3. CASE NewCall(t)
  <2>1. CASE \E n \in Batches, l \in LaterLimits \cup {limit} : Enqueue(t, n, l)
    BY <1>1, <2>1, BatchesAssumption DEF Enqueue
  <2>2. CASE \E n \in Counts : Dequeue(t, n)
    BY <1>1, <2>2 DEF Dequeue
  <2>3. CASE \E n \in Counts : DequeueNb(t, n)
    BY <1>1, <2>3 DEF DequeueNb
  <2>4. CASE \E n \in Counts : DequeueTimed(t, n)
    BY <1>1, <2>4 DEF DequeueTimed
  <2> QED
    BY <1>3, <2>1, <2>2, <2>3, <2>4 DEF NewCall
<1>4. CASE Resume(t)
  BY <1>2, <1>4 DEF Resume, Ready
<1> QED
  BY <1>3, <1>4 DEF Step

LEMMA TypeStep ==
  ASSUME TypeOK, [Next]_vars
  PROVE  TypeOK'
<1>1. CASE UNCHANGED vars
  BY <1>1 DEF TypeOK, vars
<1>2. CASE Next
  <2>1. PICK t \in Threads : Step(t)
    BY <1>2 DEF Next
  <2>2. Counts \cup {need[t]} \subseteq Nat /\ Batches \subseteq Nat /\ Indices \subseteq Int
    BY CountsAssumption, BatchesAssumption, IndicesAssumption DEF TypeOK
  <2>3. CASE t \notin waiters /\ \E n \in Nat, l \in LaterLimits \cup {limit} : EnqueueLoop(t, n, l)
    BY <2>3, EnqueueLoopType
  <2>4. CASE t \notin waiters /\ \E n \in Counts \cup {need[t]} : DequeueLoop(t, n)
    BY <2>2, <2>4, DequeueLoopType
  <2>5. CASE t \notin waiters /\ \E n \in Counts \cup {need[t]} : TimedLoop(t, n)
    BY <2>2, <2>5, TimedLoopType
  <2>6. CASE t \notin waiters /\ \E n \in Counts \cup {need[t]} : DequeueNbBody(t, n)
    BY <2>2, <2>6, DequeueNbType
  <2>7. CASE \E l \in LaterLimits : SetLimit(t, l)
    BY <2>7 DEF SetLimit, TypeOK
  <2>8. CASE End(t)
    <3>1. waiters' \subseteq waiters
      BY <2>8, SignalType DEF End
    <3> QED
      BY <2>8, <3>1 DEF End, TypeOK
  <2>9. CASE \E i \in Indices, n \in Batches : Insert(t, i, n)
    BY <2>2, <2>9, InsertType
  <2>10. CASE \E i \in Indices, n \in Counts : Extract(t, i, n)
    BY <2>2, <2>10, ExtractType
  <2>11. CASE SpuriousWakeup(t)
    BY <2>11 DEF SpuriousWakeup, TypeOK
  <2>12. CASE TimeOut(t)
    BY <2>12 DEF TimeOut, TypeOK, Calls
  <2> QED
    BY <2>1, StepCases, <2>3, <2>4, <2>5, <2>6, <2>7, <2>8, <2>9, <2>10, <2>11, <2>12
<1> QED
  BY <1>1, <1>2

LEMMA TypeInit ==
  ASSUME Init PROVE TypeOK
<1>1. PICK k \in Batches \cup {0} : nput = k /\ queue = Run(0, k)
  BY DEF Init
<1>2. k \in Nat
  BY BatchesAssumption
<1>3. queue \in Seq(Nat) /\ << >> \in Seq(Nat)
  BY <1>1, <1>2, RunIsSeq, EmptySeq
<1> QED
  BY <1>1, <1>2, <1>3 DEF Init, TypeOK, Calls

(* The queue object always has the types its methods expect, and only      *)
(* threads inside enqueue, dequeue or dequeue_timed are in the wait set.   *)
THEOREM TypeCorrect == Spec => []TypeOK
BY TypeInit, TypeStep, PTL DEF Spec

-----------------------------------------------------------------------------
(* What a step does to the items when insert and extract are not used:     *)
(* nothing, or new items at the end, or items taken off the head.          *)
Untouched == UNCHANGED <<queue, nput, taken>>

Grows == \E n \in Nat : /\ queue' = queue \o Run(nput, n)
                        /\ nput' = nput + n
                        /\ taken' = taken

Shrinks == \E k \in 0..Len(queue) : /\ queue' = SubSeq(queue, k + 1, Len(queue))
                                    /\ taken' = taken \o SubSeq(queue, 1, k)
                                    /\ nput' = nput

LEMMA DequeueNbData ==
  ASSUME TypeOK, NEW t, NEW n \in Nat, DequeueNbBody(t, n)
  PROVE  Untouched \/ Shrinks
<1>1. Len(queue) \in Nat
  BY LenProperties DEF TypeOK
<1> DEFINE k == IF n <= Len(queue) THEN n ELSE Len(queue)
<1>2. k \in 0..Len(queue)
  BY <1>1
<1>3. CASE TakeHead(t, k)
  BY <1>2, <1>3 DEF TakeHead, Shrinks
<1>4. CASE Croak(t)
  BY <1>4 DEF Croak, Untouched
<1> QED
  BY <1>3, <1>4 DEF DequeueNbBody

LEMMA DataStep ==
  ASSUME TypeOK, [Next]_vars
  PROVE  \/ Untouched \/ Grows \/ Shrinks
         \/ \E t \in Threads, i \in Indices, n \in Batches : Insert(t, i, n)
         \/ \E t \in Threads, i \in Indices, n \in Counts : Extract(t, i, n)
<1>1. CASE UNCHANGED vars
  BY <1>1 DEF vars, Untouched
<1>2. CASE Next
  <2>1. PICK t \in Threads : Step(t)
    BY <1>2 DEF Next
  <2>2. Counts \cup {need[t]} \subseteq Nat /\ Len(queue) \in Nat
    BY CountsAssumption, LenProperties DEF TypeOK
  <2>3. ASSUME NEW n \in Nat, NEW l, EnqueueLoop(t, n, l) PROVE Untouched \/ Grows
    BY <2>3 DEF EnqueueLoop, Wait, Untouched, Grows
  <2>4. ASSUME NEW n \in Nat, DequeueLoop(t, n) PROVE Untouched \/ Shrinks
    <3>1. CASE Wait(t, "dequeue", n)
      BY <3>1 DEF Wait, Untouched
    <3>2. CASE DequeueNbBody(t, n)
      BY <3>2, DequeueNbData
    <3>3. CASE Len(queue) >= n /\ TakeHead(t, n)
      BY <2>2, <3>3 DEF TakeHead, Shrinks
    <3> QED
      BY <2>4, <3>1, <3>2, <3>3 DEF DequeueLoop
  <2>5. ASSUME NEW n \in Nat, TimedLoop(t, n) PROVE Untouched \/ Shrinks
    <3>1. CASE Wait(t, "timed", n)
      BY <3>1 DEF Wait, Untouched
    <3>2. CASE DequeueNbBody(t, n)
      BY <3>2, DequeueNbData
    <3> QED
      BY <2>5, <3>1, <3>2 DEF TimedLoop
  <2>6. CASE (\E l \in LaterLimits : SetLimit(t, l)) \/ End(t) \/ SpuriousWakeup(t) \/ TimeOut(t)
    BY <2>6 DEF SetLimit, End, SpuriousWakeup, TimeOut, Untouched
  <2> QED
    BY <2>1, <2>2, <2>3, <2>4, <2>5, <2>6, DequeueNbData, StepCases
<1> QED
  BY <1>1, <1>2

LEMMA FifoStep ==
  ASSUME TypeOK, Fifo, Untouched \/ Grows \/ Shrinks
  PROVE  Fifo'
<1>1. CASE Untouched
  BY <1>1 DEF Untouched, Fifo, Run
<1>2. CASE Grows
  <2>1. PICK n \in Nat : queue' = queue \o Run(nput, n) /\ nput' = nput + n /\ taken' = taken
    BY <1>2 DEF Grows
  <2>2. Run(nput, n) \in Seq(Nat)
    BY RunIsSeq DEF TypeOK
  <2>3. taken \o (queue \o Run(nput, n)) = (taken \o queue) \o Run(nput, n)
    BY <2>2, Joins DEF TypeOK
  <2>4. (taken \o queue) \o Run(nput, n) = Run(0, nput + n)
    BY RunExtends DEF Fifo, TypeOK
  <2> QED
    BY <2>1, <2>3, <2>4 DEF Fifo, Run
<1>3. CASE Shrinks
  <2>1. PICK k \in 0..Len(queue) : /\ queue' = SubSeq(queue, k + 1, Len(queue))
                                   /\ taken' = taken \o SubSeq(queue, 1, k)
                                   /\ nput' = nput
    BY <1>3 DEF Shrinks
  <2>2. SubSeq(queue, 1, k) \in Seq(Nat) /\ SubSeq(queue, k + 1, Len(queue)) \in Seq(Nat)
    <3>1. Len(queue) \in Nat
      BY LenProperties DEF TypeOK
    <3> QED
      BY <3>1, PartIsSeq DEF TypeOK
  <2>3. (taken \o SubSeq(queue, 1, k)) \o SubSeq(queue, k + 1, Len(queue))
           = taken \o (SubSeq(queue, 1, k) \o SubSeq(queue, k + 1, Len(queue)))
    BY <2>2, Joins DEF TypeOK
  <2>4. SubSeq(queue, 1, k) \o SubSeq(queue, k + 1, Len(queue)) = queue
    BY CutAndJoin DEF TypeOK
  <2> QED
    BY <2>1, <2>3, <2>4 DEF Fifo, Run
<1> QED
  BY <1>1, <1>2, <1>3

LEMMA FifoInit ==
  ASSUME Init PROVE Fifo
<1>1. PICK k \in Batches \cup {0} : nput = k /\ queue = Run(0, k)
  BY DEF Init
<1>2. Run(0, k) \in Seq(Nat)
  BY RunIsSeq, BatchesAssumption
<1>3. << >> \o Run(0, k) = Run(0, k)
  BY <1>2, ConcatEmptySeq
<1> QED
  BY <1>1, <1>3 DEF Init, Fifo

(* As long as only enqueue and the dequeue family are used, whatever the   *)
(* threads, counts and limits are, the items come out in the order in      *)
(* which they went in, each exactly once.                                  *)
THEOREM FifoCorrect ==
  ASSUME Indices = {}
  PROVE  Spec => []Fifo
<1>1. TypeOK /\ Fifo /\ [Next]_vars => Fifo'
  BY DataStep, FifoStep
<1> QED
  BY <1>1, FifoInit, TypeCorrect, PTL DEF Spec

-----------------------------------------------------------------------------
(* A queue without a limit.                                                *)
Unlimited == FirstLimits \subseteq {0} /\ LaterLimits \subseteq {0}

NoBlockedEnqueue == \A t \in Threads : op[t] # "enqueue"

LEMMA UnlimitedFacts ==
  ASSUME Unlimited, TypeOK
  PROVE  /\ limit = 0
         /\ \A n : ValidCount(n)
         /\ \A l : ~AtLimit(limit, l)
BY DEF Unlimited, TypeOK, ValidCount, AtLimit

LEMMA NoBlockedEnqueueStep ==
  ASSUME Unlimited, TypeOK, NoBlockedEnqueue, [Next]_vars
  PROVE  NoBlockedEnqueue'
<1>1. CASE UNCHANGED vars
  BY <1>1 DEF vars, NoBlockedEnqueue
<1>2. CASE Next
  <2>1. PICK t \in Threads : Step(t)
    BY <1>2 DEF Next
  <2>2. op \in [Threads -> Calls]
    BY DEF TypeOK
  <2>3. Return(t) => NoBlockedEnqueue'
    BY <2>2 DEF Return, NoBlockedEnqueue
  <2>4. \A n : Wait(t, "dequeue", n) \/ Wait(t, "timed", n) => NoBlockedEnqueue'
    BY <2>2 DEF Wait, NoBlockedEnqueue
  <2>5. op' = op => NoBlockedEnqueue'
    BY DEF NoBlockedEnqueue
  <2>6. ASSUME NEW n, DequeueNbBody(t, n) PROVE Return(t)
    BY <2>6 DEF DequeueNbBody, TakeHead, Croak
  <2>7. ASSUME NEW n, NEW l, EnqueueLoop(t, n, l) PROVE Return(t)
    BY <2>7, UnlimitedFacts DEF EnqueueLoop
  <2>8. ASSUME NEW n, DequeueLoop(t, n) PROVE Return(t) \/ Wait(t, "dequeue", n)
    BY <2>6, <2>8 DEF DequeueLoop, TakeHead
  <2>9. ASSUME NEW n, TimedLoop(t, n) PROVE Return(t) \/ Wait(t, "timed", n)
    BY <2>6, <2>9 DEF TimedLoop
  <2>10. ASSUME NEW i, NEW n, Extract(t, i, n) PROVE Return(t) \/ op' = op
    BY <2>6, <2>10 DEF Extract, ExtractBehind
  <2>11. CASE \/ \E l \in LaterLimits : SetLimit(t, l)
              \/ End(t) \/ SpuriousWakeup(t)
              \/ \E i \in Indices, n \in Batches : Insert(t, i, n)
    BY <2>5, <2>11 DEF SetLimit, End, SpuriousWakeup, Insert
  <2>12. CASE TimeOut(t)
    BY <2>2, <2>12 DEF TimeOut, NoBlockedEnqueue
  <2> QED
    BY <2>1, <2>3, <2>4, <2>5, <2>6, <2>7, <2>8, <2>9, <2>10, <2>11, <2>12, StepCases
<1> QED
  BY <1>1, <1>2

LEMMA NoBlockedEnqueueAlways ==
  ASSUME Unlimited
  PROVE  Spec => []NoBlockedEnqueue
<1>1. Init => NoBlockedEnqueue
  BY DEF Init, NoBlockedEnqueue
<1> QED
  BY <1>1, NoBlockedEnqueueStep, TypeCorrect, PTL DEF Spec

-----------------------------------------------------------------------------
(* No lost wakeup.  Every dequeue asks for one item; the inductive         *)
(* invariant is about the whole wait set: as long as somebody waits while  *)
(* there is something to wake up for, somebody is on the way to the lock,  *)
(* and whoever gets there passes the signal on.                            *)
OneAtATime == Counts = {1}

NeedOne == \A t \in Threads : op[t] # "idle" => need[t] = 1

Wake == waiters # {} /\ (queue # << >> \/ ended) => \E s \in Threads : Ready(s)

(* A signal sent to a nonempty wait set leaves a thread ready.             *)
LEMMA SignalWakes ==
  ASSUME TypeOK, NEW t \in Threads, t \notin waiters, CondSignal(waiters),
         op' = op \/ Return(t)
  PROVE  Wake'
<1>1. CASE waiters = {}
  BY <1>1 DEF CondSignal, Wake
<1>2. CASE waiters # {}
  <2>1. PICK w \in waiters : waiters' = waiters \ {w}
    BY <1>2 DEF CondSignal
  <2>2. w \in Threads /\ op[w] # "idle" /\ w # t
    BY DEF TypeOK
  <2>3. op'[w] = op[w]
    BY <2>2 DEF Return, TypeOK
  <2> QED
    BY <2>1, <2>2, <2>3 DEF Wake, Ready
<1> QED
  BY <1>1, <1>2

LEMMA WakeStep ==
  ASSUME OneAtATime, Unlimited, TypeOK, NoBlockedEnqueue, NeedOne, Wake, [Next]_vars
  PROVE  NeedOne' /\ Wake'
<1>1. CASE UNCHANGED vars
  BY <1>1 DEF vars, NeedOne, Wake, Ready
<1>2. CASE Next
  <2>1. PICK t \in Threads : Step(t)
    BY <1>2 DEF Next
  <2> DEFINE Calm == Return(t) \/ (op' = op /\ need' = need)
  <2>types. op \in [Threads -> Calls] /\ need \in [Threads -> Nat] /\ Len(queue) \in Nat
    BY LenProperties DEF TypeOK
  <2>calm. Calm => NeedOne'
    BY <2>types DEF Return, NeedOne
  <2>signal. t \notin waiters /\ CondSignal(waiters) /\ Calm => Wake'
    BY SignalWakes
  <2>wait. ASSUME NEW call, Wait(t, call, 1), Len(queue) < 1, ~ended
           PROVE  NeedOne' /\ Wake'
    <3>1. queue = << >>
      BY <2>types, <2>wait, EmptySeq DEF TypeOK
    <3>2. queue' = << >> /\ ~ended'
      BY <2>wait, <3>1 DEF Wait
    <3>3. NeedOne'
      BY <2>types, <2>wait DEF Wait, NeedOne
    <3> QED
      BY <3>2, <3>3 DEF Wake
  <2>nb. ASSUME NEW n, DequeueNbBody(t, n), t \notin waiters PROVE NeedOne' /\ Wake'
    <3>1. CondSignal(waiters) /\ Calm
      BY <2>nb, UnlimitedFacts DEF DequeueNbBody, TakeHead
    <3> QED
      BY <2>nb, <2>calm, <2>signal, <3>1
  <2>enq. ASSUME NEW n \in Nat, NEW l, EnqueueLoop(t, n, l), t \notin waiters, ~ended
          PROVE  NeedOne' /\ Wake'
    <3>1. Calm /\ ended' = ended /\ (queue' # << >> => CondSignal(waiters))
      BY <2>enq, UnlimitedFacts DEF EnqueueLoop
    <3> QED
      BY <2>enq, <2>calm, <2>signal, <3>1 DEF Wake
  <2>deq. ASSUME DequeueLoop(t, 1), t \notin waiters PROVE NeedOne' /\ Wake'
    <3>1. CASE Len(queue) >= 1 /\ ~ended /\ TakeHead(t, 1)
      BY <2>deq, <2>calm, <2>signal, <3>1 DEF TakeHead
    <3> QED
      BY <2>deq, <2>wait, <2>nb, <3>1 DEF DequeueLoop
  <2>timed. ASSUME TimedLoop(t, 1), t \notin waiters PROVE NeedOne' /\ Wake'
    BY <2>timed, <2>wait, <2>nb DEF TimedLoop
  <2>one. \A n \in Counts \cup {need[t]} :
             (op[t] = "idle" => n \in Counts) /\ (op[t] # "idle" => n = need[t]) => n = 1
    BY DEF OneAtATime, NeedOne
  <2>set. CASE \E l \in LaterLimits : SetLimit(t, l)
    BY <2>set DEF SetLimit, NeedOne, Wake, Ready
  <2>end. CASE End(t)
    <3>1. t \notin waiters /\ CondSignal(waiters) /\ Calm
      BY <2>end DEF End, TypeOK
    <3> QED
      BY <2>calm, <2>signal, <3>1
  <2>ins. ASSUME NEW i, NEW n, Insert(t, i, n) PROVE NeedOne' /\ Wake'
    <3>1. t \notin waiters /\ CondSignal(waiters) /\ Calm
      BY <2>ins DEF Insert, TypeOK
    <3> QED
      BY <2>calm, <2>signal, <3>1
  <2>ext. ASSUME NEW i, NEW n, Extract(t, i, n) PROVE NeedOne' /\ Wake'
    <3>1. t \notin waiters
      BY <2>ext DEF Extract, TypeOK
    <3>2. CASE CondSignal(waiters) /\ op' = op /\ need' = need
      BY <2>calm, <2>signal, <3>1, <3>2
    <3> QED
      BY <2>ext, <2>nb, <3>1, <3>2 DEF Extract, ExtractBehind
  <2>wakes. CASE SpuriousWakeup(t) \/ TimeOut(t)
    <3>1. need' = need /\ t \notin waiters' /\ op'[t] # "idle"
          /\ \A s \in Threads : op'[s] # "idle" => op[s] # "idle"
      BY <2>types, <2>wakes DEF SpuriousWakeup, TimeOut, TypeOK
    <3> QED
      BY <3>1 DEF NeedOne, Wake, Ready
  <2> QED
    BY <2>1, <2>nb, <2>enq, <2>deq, <2>timed, <2>one, <2>set, <2>end, <2>ins, <2>ext, <2>wakes,
       StepCases DEF NoBlockedEnqueue
<1> QED
  BY <1>1, <1>2

(* If no limit is ever set and every blocking call asks for one item, a    *)
(* sleeping dequeue whose item is there, or whose queue has ended, is      *)
(* never forgotten, however many threads share the queue.                  *)
THEOREM NoLostWakeupCorrect ==
  ASSUME OneAtATime, Unlimited
  PROVE  Spec => []NoLostWakeup
<1>1. Init => NeedOne /\ Wake
  BY DEF Init, NeedOne, Wake
<1>2. TypeOK /\ NoBlockedEnqueue /\ NeedOne /\ Wake => NoLostWakeup
  <2> SUFFICES ASSUME TypeOK, NeedOne, Wake, NEW t \in Sleepers, Len(queue) >= need[t] \/ ended
               PROVE  \E s \in Threads : Ready(s)
    BY DEF NoLostWakeup
  <2>1. t \in waiters /\ t \in Threads /\ op[t] # "idle"
    BY DEF Sleepers, TypeOK
  <2>2. queue # << >> \/ ended
    BY <2>1, EmptySeq DEF NeedOne
  <2> QED
    BY <2>1, <2>2 DEF Wake
<1> QED
  BY <1>1, <1>2, WakeStep, NoBlockedEnqueueAlways, TypeCorrect, PTL DEF Spec

-----------------------------------------------------------------------------
(* The safety part of the refinement of QueuePromise.                      *)

Asked   == [t \in Threads |-> IF op[t] = "idle" THEN 0 ELSE need[t]]
Hurried == {t \in Threads : op[t] \in {"timed", "expired"}}

NeedPositive == \A t \in Threads : op[t] # "idle" => need[t] # 0

(* The abstract view of a call that ends, waits or waits again.            *)
LEMMA ReturnView ==
  ASSUME TypeOK, NEW t \in Threads, Return(t)
  PROVE  Asked' = [Asked EXCEPT ![t] = 0] /\ Hurried' = Hurried \ {t}
<1>1. op' = [op EXCEPT ![t] = "idle"] /\ need' = [need EXCEPT ![t] = 0]
  BY DEF Return
<1>2. op \in [Threads -> Calls] /\ need \in [Threads -> Nat]
  BY DEF TypeOK
<1> QED
  BY <1>1, <1>2 DEF Asked, Hurried

LEMMA WaitView ==
  ASSUME TypeOK, NEW t \in Threads, NEW n \in Nat, NEW call \in {"dequeue", "timed"},
         Wait(t, call, n)
  PROVE  /\ Asked' = [Asked EXCEPT ![t] = n]
         /\ op[t] = "idle" => Hurried' = IF call = "timed" THEN Hurried \cup {t} ELSE Hurried
         /\ op[t] = call /\ need[t] = n => Asked' = Asked /\ Hurried' = Hurried
<1>1. op' = [op EXCEPT ![t] = call] /\ need' = [need EXCEPT ![t] = n]
  BY DEF Wait
<1>2. op \in [Threads -> Calls] /\ need \in [Threads -> Nat]
  BY DEF TypeOK
<1> QED
  BY <1>1, <1>2 DEF Asked, Hurried

(* An idle thread has no request: ending its call changes nothing.         *)
LEMMA IdleView ==
  ASSUME TypeOK, NEW t \in Threads, op[t] = "idle"
  PROVE  Asked[t] = 0 /\ [Asked EXCEPT ![t] = 0] = Asked /\ Hurried \ {t} = Hurried
BY DEF Asked, Hurried, TypeOK

LEMMA NeedPositiveStep ==
  ASSUME Unlimited, Indices = {}, TypeOK, NoBlockedEnqueue, NeedPositive, [Next]_vars
  PROVE  NeedPositive'
<1>1. CASE UNCHANGED vars
  BY <1>1 DEF vars, NeedPositive
<1>2. CASE Next
  <2>1. PICK t \in Threads : Step(t)
    BY <1>2 DEF Next
  <2>2. op \in [Threads -> Calls] /\ need \in [Threads -> Nat]
    BY DEF TypeOK
  <2>3. Return(t) => NeedPositive'
    BY <2>2 DEF Return, NeedPositive
  <2>4. ASSUME NEW n, n # 0, NEW call, Wait(t, call, n) PROVE NeedPositive'
    BY <2>2, <2>4 DEF Wait, NeedPositive
  <2>5. \A n \in Counts \cup {need[t]} :
           (op[t] = "idle" => n \in Counts) /\ (op[t] # "idle" => n = need[t]) => n # 0
    BY CountsAssumption DEF NeedPositive
  <2>6. ASSUME NEW n, DequeueNbBody(t, n) PROVE Return(t)
    BY <2>6 DEF DequeueNbBody, TakeHead, Croak
  <2>7. ASSUME NEW n, NEW l, EnqueueLoop(t, n, l) PROVE Return(t)
    BY <2>7, UnlimitedFacts DEF EnqueueLoop
  <2>8. ASSUME NEW n, DequeueLoop(t, n) PROVE Return(t) \/ Wait(t, "dequeue", n)
    BY <2>6, <2>8 DEF DequeueLoop, TakeHead
  <2>9. ASSUME NEW n, TimedLoop(t, n) PROVE Return(t) \/ Wait(t, "timed", n)
    BY <2>6, <2>9 DEF TimedLoop
  <2>10. CASE (\E l \in LaterLimits : SetLimit(t, l)) \/ End(t) \/ SpuriousWakeup(t)
    BY <2>10 DEF SetLimit, End, SpuriousWakeup, NeedPositive
  <2>11. CASE TimeOut(t)
    BY <2>2, <2>11 DEF TimeOut, NeedPositive
  <2> QED
    BY <2>1, <2>3, <2>4, <2>5, <2>6, <2>7, <2>8, <2>9, <2>10, <2>11, StepCases
<1> QED
  BY <1>1, <1>2

(* Taking from the head is the abstract hand-out.                          *)
LEMMA TakeIsHandOut ==
  ASSUME TypeOK, NEW t \in Threads, NEW n \in Nat,
         TakeHead(t, IF n <= Len(queue) THEN n ELSE Len(queue))
  PROVE  Promise!HandOut(t, n)
<1>1. Asked' = [Asked EXCEPT ![t] = 0] /\ Hurried' = Hurried \ {t}
  BY ReturnView DEF TakeHead
<1> QED
  BY <1>1 DEF TakeHead, Promise!HandOut, Asked, Hurried

LEMMA PromiseStep ==
  ASSUME Unlimited, Indices = {}, TypeOK, Fifo, NoBlockedEnqueue, NeedPositive, [Next]_vars
  PROVE  [Promise!PNext]_(Promise!pvars)
<1>1. CASE UNCHANGED vars
  BY <1>1 DEF vars, Promise!pvars
<1>2. CASE Next
  <2>1. PICK t \in Threads : Step(t)
    BY <1>2 DEF Next
  <2>2. /\ op \in [Threads -> Calls] /\ need \in [Threads -> Nat] /\ Len(queue) \in Nat
        /\ Asked[t] = IF op[t] = "idle" THEN 0 ELSE need[t]
    BY LenProperties DEF TypeOK, Asked
  <2>same. ASSUME UNCHANGED <<queue, ended, taken>>, Asked' = Asked, Hurried' = Hurried
           PROVE  UNCHANGED Promise!pvars
    BY <2>same DEF Promise!pvars, Asked, Hurried
  <2>nb. ASSUME NEW n \in Nat, DequeueNbBody(t, n) PROVE Promise!HandOut(t, n)
    BY <2>nb, TakeIsHandOut, UnlimitedFacts DEF DequeueNbBody
  <2>take. ASSUME NEW n \in Nat, Len(queue) >= n, TakeHead(t, n) PROVE Promise!HandOut(t, n)
    BY <2>take, TakeIsHandOut
  <2>idle. ASSUME NEW n \in Counts, op[t] = "idle", Promise!HandOut(t, n) PROVE Promise!PNext
    <3>1. Promise!Poll(t, n)
      BY <2>2, <2>idle DEF Promise!Poll, Asked
    <3> QED
      BY <3>1 DEF Promise!PNext
  <2>serve. ASSUME NEW n, n = need[t], op[t] # "idle", ended \/ Len(queue) >= n, Promise!HandOut(t, n)
            PROVE  Promise!PNext
    <3>1. n # 0 /\ Asked[t] = n
      BY <2>2, <2>serve DEF NeedPositive
    <3>2. Promise!Serve(t)
      BY <2>serve, <3>1 DEF Promise!Serve, Promise!HandOut, Asked
    <3> QED
      BY <3>2 DEF Promise!PNext
  <2>expired. ASSUME NEW n, n = need[t], op[t] = "expired", Promise!HandOut(t, n) PROVE Promise!PNext
    <3>1. Asked[t] = n
      BY <2>2, <2>expired
    <3>2. Promise!GiveUp(t)
      BY <2>expired, <3>1 DEF Promise!GiveUp, Promise!HandOut, Asked
    <3> QED
      BY <3>2 DEF Promise!PNext
  <2>wait. ASSUME NEW n \in Nat, NEW call \in {"dequeue", "timed"}, Wait(t, call, n),
                  Len(queue) < n, ~ended,
                  (op[t] = "idle" /\ n \in Counts) \/ (op[t] = call /\ n = need[t])
           PROVE  [Promise!PNext]_(Promise!pvars)
    <3>1. CASE op[t] = "idle" /\ n \in Counts
      <4>1. /\ Asked' = [Asked EXCEPT ![t] = n]
            /\ Hurried' = IF call = "timed" THEN Hurried \cup {t} ELSE Hurried
        BY <2>wait, <3>1, WaitView
      <4>2. UNCHANGED <<queue, ended, taken>>
        BY <2>wait DEF Wait
      <4>3. Promise!Ask(t, n, call = "timed")
        BY <2>2, <2>wait, <3>1, <4>1, <4>2 DEF Promise!Ask, Asked, Hurried
      <4> QED
        BY <3>1, <4>3 DEF Promise!PNext
    <3>2. CASE op[t] = call /\ n = need[t]
      BY <2>wait, <2>same, <3>2, WaitView DEF Wait
    <3> QED
      BY <2>wait, <3>1, <3>2
  <2>3. CASE \E n \in Batches, l \in LaterLimits \cup {limit} :
                EnqueueLoop(t, n, l) /\ op[t] = "idle" /\ ~ended
    <3>1. PICK n \in Batches, l \in LaterLimits \cup {limit} : EnqueueLoop(t, n, l)
      BY <2>3
    <3>2. /\ queue' = queue \o Run(nput, n) /\ Return(t) /\ UNCHANGED <<ended, taken>>
      BY <3>1, UnlimitedFacts DEF EnqueueLoop
    <3>3. Asked' = Asked /\ Hurried' = Hurried
      BY <2>3, <3>2, ReturnView, IdleView
    <3>4. Len(taken) + Len(queue) = nput
      <4>1. Len(taken \o queue) = Len(taken) + Len(queue)
        BY ConcatProperties DEF TypeOK
      <4>2. Len(Run(0, nput)) = nput
        BY RunIsSeq DEF TypeOK
      <4> QED
        BY <4>1, <4>2 DEF Fifo
    <3>5. Promise!Put(n)
      BY <2>3, <3>2, <3>3, <3>4 DEF Promise!Put, Run, Asked, Hurried
    <3> QED
      BY <3>5 DEF Promise!PNext
  <2>4. CASE \E n \in Counts \cup {need[t]} : DequeueLoop(t, n) /\ op[t] \in {"idle", "dequeue"}
                /\ (op[t] = "idle" => n \in Counts) /\ (op[t] # "idle" => n = need[t])
    <3>1. PICK n \in Counts \cup {need[t]} : DequeueLoop(t, n)
                /\ (op[t] = "idle" => n \in Counts) /\ (op[t] # "idle" => n = need[t])
      BY <2>4
    <3>2. n \in Nat
      BY <2>2, CountsAssumption
    <3>3. CASE Len(queue) < n /\ ~ended /\ Wait(t, "dequeue", n)
      <4>1. (op[t] = "idle" /\ n \in Counts) \/ (op[t] = "dequeue" /\ n = need[t])
        BY <2>4, <3>1
      <4> QED
        BY <2>wait, <3>2, <3>3, <4>1 DEF Wait
    <3>4. CASE (ended \/ Len(queue) >= n) /\ Promise!HandOut(t, n)
      <4>1. CASE op[t] = "idle"
        BY <2>idle, <3>1, <3>4, <4>1
      <4>2. CASE op[t] # "idle"
        BY <2>serve, <3>1, <3>4, <4>2
      <4> QED
        BY <4>1, <4>2
    <3> QED
      BY <2>nb, <2>take, <3>1, <3>2, <3>3, <3>4 DEF DequeueLoop
  <2>5. CASE \E n \in Counts \cup {need[t]} : TimedLoop(t, n) /\ op[t] \in {"idle", "timed"}
                /\ (op[t] = "idle" => n \in Counts) /\ (op[t] # "idle" => n = need[t])
    <3>1. PICK n \in Counts \cup {need[t]} : TimedLoop(t, n)
                /\ (op[t] = "idle" => n \in Counts) /\ (op[t] # "idle" => n = need[t])
      BY <2>5
    <3>2. n \in Nat
      BY <2>2, CountsAssumption
    <3>3. CASE Len(queue) < n /\ ~ended /\ Wait(t, "timed", n)
      <4>1. (op[t] = "idle" /\ n \in Counts) \/ (op[t] = "timed" /\ n = need[t])
        BY <2>5, <3>1
      <4> QED
        BY <2>wait, <3>2, <3>3, <4>1 DEF Wait
    <3>4. CASE (ended \/ Len(queue) >= n) /\ Promise!HandOut(t, n)
      <4>1. CASE op[t] = "idle"
        BY <2>idle, <3>1, <3>4, <4>1
      <4>2. CASE op[t] # "idle"
        BY <2>serve, <3>1, <3>4, <4>2
      <4> QED
        BY <4>1, <4>2
    <3> QED
      BY <2>nb, <3>1, <3>2, <3>3, <3>4 DEF TimedLoop
  <2>6. CASE \E n \in Counts \cup {need[t]} : DequeueNbBody(t, n) /\ op[t] \in {"idle", "expired"}
                /\ (op[t] = "idle" => n \in Counts) /\ (op[t] # "idle" => n = need[t])
    <3>1. PICK n \in Counts \cup {need[t]} : DequeueNbBody(t, n)
                /\ (op[t] = "idle" => n \in Counts) /\ (op[t] # "idle" => n = need[t])
      BY <2>6
    <3>2. Promise!HandOut(t, n)
      BY <2>2, <2>nb, <3>1, CountsAssumption
    <3> QED
      BY <2>6, <2>idle, <2>expired, <3>1, <3>2
  <2>7. CASE End(t)
    <3>1. Promise!Close
      BY <2>7 DEF End, Promise!Close
    <3> QED
      BY <3>1 DEF Promise!PNext
  <2>8. CASE (\E l \in LaterLimits : SetLimit(t, l)) \/ SpuriousWakeup(t)
    BY <2>8, <2>same DEF SetLimit, SpuriousWakeup, Asked, Hurried
  <2>9. CASE TimeOut(t)
    <3>1. op' = [op EXCEPT ![t] = "expired"] /\ need' = need /\ op[t] = "timed"
          /\ UNCHANGED <<queue, ended, taken>>
      BY <2>9 DEF TimeOut
    <3>2. Asked' = Asked /\ Hurried' = Hurried
      BY <2>2, <3>1 DEF Asked, Hurried
    <3> QED
      BY <2>same, <3>1, <3>2
  <2> QED
    BY <2>1, <2>3, <2>4, <2>5, <2>6, <2>7, <2>8, <2>9, StepCases DEF NoBlockedEnqueue
<1> QED
  BY <1>1, <1>2

(* Without a limit, and with enqueue and the dequeue family only, every    *)
(* call of every thread takes effect as the documentation says: at one     *)
(* moment, in queue order, blocking exactly while it may.                  *)
THEOREM KeepsPromiseSafety ==
  ASSUME Unlimited, Indices = {}
  PROVE  Spec => Promise!PSafety
<1>1. Init => Promise!PInit
  <2> SUFFICES ASSUME Init PROVE Promise!PInit
    OBVIOUS
  <2>1. PICK k \in Batches \cup {0} : queue = Run(0, k)
    BY DEF Init
  <2>2. Run(0, k) = [i \in 1..k |-> i]
    BY BatchesAssumption DEF Run
  <2> QED
    BY <2>1, <2>2 DEF Init, Promise!PInit
<1>2. Init => NeedPositive
  BY DEF Init, NeedPositive
<1> QED
  BY <1>1, <1>2, NeedPositiveStep, PromiseStep, NoBlockedEnqueueAlways, FifoCorrect, TypeCorrect,
     PTL DEF Spec, Promise!PSafety

-----------------------------------------------------------------------------
(* Conservation, with insert and extract anywhere in the queue.            *)

LEMMA ItemsOfConcat ==
  ASSUME NEW a \in Seq(Nat), NEW b \in Seq(Nat)
  PROVE  Items(a \o b) = Items(a) \cup Items(b)
<1>1. /\ Len(a) \in Nat /\ Len(b) \in Nat /\ Len(a \o b) = Len(a) + Len(b)
      /\ \A i \in 1..(Len(a) + Len(b)) : (a \o b)[i] = IF i <= Len(a) THEN a[i] ELSE b[i - Len(a)]
  BY ConcatProperties, LenProperties
<1>2. Items(a \o b) \subseteq Items(a) \cup Items(b)
  <2> SUFFICES ASSUME NEW i \in 1..(Len(a) + Len(b))
               PROVE  (a \o b)[i] \in Items(a) \cup Items(b)
    BY <1>1 DEF Items
  <2>1. CASE i <= Len(a)
    BY <1>1, <2>1 DEF Items
  <2>2. CASE ~(i <= Len(a))
    <3>1. i - Len(a) \in 1..Len(b)
      BY <1>1, <2>2
    <3> QED
      BY <1>1, <2>2, <3>1 DEF Items
  <2> QED
    BY <2>1, <2>2
<1>3. Items(a) \subseteq Items(a \o b)
  <2> SUFFICES ASSUME NEW i \in 1..Len(a) PROVE a[i] \in Items(a \o b)
    BY DEF Items
  <2>1. i \in 1..(Len(a) + Len(b)) /\ (a \o b)[i] = a[i]
    BY <1>1
  <2> QED
    BY <1>1, <2>1 DEF Items
<1>4. Items(b) \subseteq Items(a \o b)
  <2> SUFFICES ASSUME NEW i \in 1..Len(b) PROVE b[i] \in Items(a \o b)
    BY DEF Items
  <2> DEFINE j == i + Len(a)
  <2>1. j \in 1..(Len(a) + Len(b)) /\ ~(j <= Len(a)) /\ j - Len(a) = i
    BY <1>1
  <2>2. (a \o b)[j] = b[i]
    BY <1>1, <2>1
  <2> QED
    BY <1>1, <2>1, <2>2 DEF Items
<1> QED
  BY <1>2, <1>3, <1>4

LEMMA ItemsOfRun ==
  ASSUME NEW a \in Nat, NEW n \in Nat
  PROVE  Items(Run(a, n)) = (a + 1)..(a + n)
<1>1. Len(Run(a, n)) = n /\ \A i \in 1..n : Run(a, n)[i] = a + i
  BY RunIsSeq DEF Run
<1>2. ASSUME NEW x \in (a + 1)..(a + n) PROVE x \in Items(Run(a, n))
  <2>1. x - a \in 1..n /\ Run(a, n)[x - a] = x
    BY <1>1
  <2> QED
    BY <1>1, <2>1 DEF Items
<1> QED
  BY <1>1, <1>2 DEF Items

(* A queue cut behind item i.                                              *)
LEMMA CutOnce ==
  ASSUME NEW q \in Seq(Nat), NEW i \in 0..Len(q)
  PROVE  /\ SubSeq(q, 1, i) \in Seq(Nat) /\ SubSeq(q, i + 1, Len(q)) \in Seq(Nat)
         /\ SubSeq(q, 1, i) \o SubSeq(q, i + 1, Len(q)) = q
         /\ Len(SubSeq(q, 1, i)) = i /\ Len(SubSeq(q, i + 1, Len(q))) = Len(q) - i
<1>1. Len(q) \in Nat /\ i \in Nat /\ i <= Len(q)
  BY LenProperties
<1>2. SubSeq(q, 1, i) \in Seq(Nat) /\ SubSeq(q, i + 1, Len(q)) \in Seq(Nat)
  BY <1>1, PartIsSeq
<1>3. Len(SubSeq(q, 1, i)) = i /\ Len(SubSeq(q, i + 1, Len(q))) = Len(q) - i
  BY <1>1, SMT
<1> QED
  BY <1>2, <1>3, CutAndJoin

(* A queue cut twice: nothing is lost and nothing is doubled.              *)
LEMMA CutTwice ==
  ASSUME NEW q \in Seq(Nat), NEW i \in 0..Len(q), NEW j \in i..Len(q)
  PROVE  /\ SubSeq(q, 1, i) \in Seq(Nat) /\ SubSeq(q, i + 1, j) \in Seq(Nat)
         /\ SubSeq(q, j + 1, Len(q)) \in Seq(Nat)
         /\ Items(SubSeq(q, 1, i)) \cup Items(SubSeq(q, i + 1, j))
              \cup Items(SubSeq(q, j + 1, Len(q))) = Items(q)
         /\ Len(SubSeq(q, 1, i)) = i /\ Len(SubSeq(q, i + 1, j)) = j - i
         /\ Len(SubSeq(q, j + 1, Len(q))) = Len(q) - j
<1>0. Len(q) \in Nat
  BY LenProperties
<1> DEFINE u == SubSeq(q, 1, i)
           v == SubSeq(q, i + 1, j)
           w == SubSeq(q, j + 1, Len(q))
<1>1. u \in Seq(Nat) /\ v \in Seq(Nat) /\ w \in Seq(Nat)
  BY <1>0, PartIsSeq
<1>2. u \o v = SubSeq(q, 1, j)
  <2>1. 1 \in 1..(Len(q) + 1) /\ i \in (1 - 1)..Len(q) /\ j \in i..Len(q)
    BY <1>0
  <2> QED
    BY <2>1, ConcatAdjacentSubSeq
<1>3. SubSeq(q, 1, j) \in Seq(Nat) /\ SubSeq(q, 1, j) \o w = q
  <2>1. j \in 0..Len(q) /\ j \in Nat /\ j <= Len(q)
    BY <1>0
  <2> QED
    BY <2>1, CutOnce
<1>4. Items(q) = Items(SubSeq(q, 1, j)) \cup Items(w)
  BY <1>1, <1>3, ItemsOfConcat
<1>5. Items(SubSeq(q, 1, j)) = Items(u) \cup Items(v)
  BY <1>1, <1>2, ItemsOfConcat
<1>6. Len(u) = i /\ Len(v) = j - i /\ Len(w) = Len(q) - j
  BY <1>0, SMT
<1> QED
  BY <1>1, <1>4, <1>5, <1>6

LEMMA ConservationGrow ==
  ASSUME TypeOK, Conservation, NEW n \in Nat, nput' = nput + n, taken' = taken,
         Len(queue') = Len(queue) + n,
         Items(queue') = Items(queue) \cup Items(Run(nput, n))
  PROVE  Conservation'
<1>1. /\ nput \in Nat /\ Len(queue) \in Nat /\ Len(taken) \in Nat
      /\ Len(taken) + Len(queue) = nput
      /\ Items(taken) \cup Items(queue) = 1..nput
  BY LenProperties DEF TypeOK, Conservation
<1>2. Items(Run(nput, n)) = (nput + 1)..(nput + n)
  BY <1>1, ItemsOfRun
<1>3. 1..(nput + n) = 1..nput \cup (nput + 1)..(nput + n)
  BY <1>1
<1>4. Items(taken)' = Items(taken)
  BY DEF Items
<1> QED
  BY <1>1, <1>2, <1>3, <1>4 DEF Conservation

LEMMA ConservationMove ==
  ASSUME TypeOK, Conservation, NEW m \in Seq(Nat), nput' = nput, taken' = taken \o m,
         Len(queue') = Len(queue) - Len(m), Items(queue') \cup Items(m) = Items(queue)
  PROVE  Conservation'
<1>1. /\ Len(queue) \in Nat /\ Len(taken) \in Nat /\ Len(m) \in Nat
      /\ Len(taken) + Len(queue) = nput
      /\ Items(taken) \cup Items(queue) = 1..nput
  BY LenProperties DEF TypeOK, Conservation
<1>2. Items(taken \o m) = Items(taken) \cup Items(m) /\ Len(taken \o m) = Len(taken) + Len(m)
  BY ItemsOfConcat, ConcatProperties DEF TypeOK
<1>3. Items(taken') = Items(taken) \cup Items(m) /\ Len(taken') = Len(taken) + Len(m)
  BY <1>2
<1>4. Len(taken') + Len(queue') = nput' /\ Items(taken') \cup Items(queue') = 1..nput'
  BY <1>1, <1>3
<1> QED
  BY <1>4 DEF Conservation

LEMMA ConservationInsert ==
  ASSUME TypeOK, Conservation, NEW t, NEW index \in Int, NEW n \in Nat, Insert(t, index, n)
  PROVE  Conservation'
<1> DEFINE from == FromEnd(index)
           i == IF from < 0 THEN 0 ELSE IF from > Len(queue) THEN Len(queue) ELSE from
<1>1. Len(queue) \in Nat /\ i \in 0..Len(queue)
  BY LenProperties DEF TypeOK, FromEnd
<1>2. /\ queue' = (SubSeq(queue, 1, i) \o Run(nput, n)) \o SubSeq(queue, i + 1, Len(queue))
      /\ nput' = nput + n /\ taken' = taken
  BY DEF Insert
<1> HIDE DEF i, from
<1> DEFINE u == SubSeq(queue, 1, i)
           v == Run(nput, n)
           w == SubSeq(queue, i + 1, Len(queue))
<1>3. u \in Seq(Nat) /\ w \in Seq(Nat) /\ Len(u) = i /\ Len(w) = Len(queue) - i
      /\ u \o w = queue
  BY <1>1, CutOnce DEF TypeOK
<1>4. v \in Seq(Nat) /\ Len(v) = n
  BY RunIsSeq DEF TypeOK
<1> HIDE DEF u, v, w
<1>5. u \o v \in Seq(Nat) /\ Len(u \o v) = i + n /\ Items(u \o v) = Items(u) \cup Items(v)
  BY <1>3, <1>4, ConcatProperties, ItemsOfConcat
<1> DEFINE x == u \o v
<1> HIDE DEF x
<1>6. Len(x \o w) = Len(x) + Len(w) /\ Items(x \o w) = Items(x) \cup Items(w)
  <2>1. x \in Seq(Nat)
    BY <1>5 DEF x
  <2> QED
    BY <1>3, <2>1, ConcatProperties, ItemsOfConcat
<1>7. Items(queue) = Items(u) \cup Items(w)
  BY <1>3, ItemsOfConcat
<1>8. queue' = x \o w /\ Len(x) = i + n /\ Items(x) = Items(u) \cup Items(v)
  BY <1>2, <1>5 DEF u, v, w, x
<1>9. Len(queue') = Len(queue) + n
  <2>1. Len(queue') = Len(x \o w)
    BY <1>8
  <2>2. Len(queue') = (i + n) + (Len(queue) - i)
    BY <1>3, <1>6, <1>8, <2>1
  <2> QED
    BY <1>1, <2>2
<1>10. Items(queue') = Items(queue) \cup Items(v)
  BY <1>6, <1>7, <1>8
<1> QED
  BY <1>2, <1>9, <1>10, ConservationGrow DEF v

LEMMA ConservationExtract ==
  ASSUME TypeOK, Conservation, NEW t, NEW i \in 0..(Len(queue) - 1), NEW n \in Nat,
         ExtractBehind(t, i, n)
  PROVE  Conservation'
<1> DEFINE last == IF i + n < Len(queue) THEN i + n ELSE Len(queue)
<1>1. Len(queue) \in Nat /\ i \in 0..Len(queue) /\ last \in i..Len(queue)
  BY LenProperties DEF TypeOK
<1>2. /\ queue' = SubSeq(queue, 1, i) \o SubSeq(queue, last + 1, Len(queue))
      /\ taken' = taken \o SubSeq(queue, i + 1, last) /\ nput' = nput
  BY DEF ExtractBehind
<1> HIDE DEF last
<1> DEFINE u == SubSeq(queue, 1, i)
           v == SubSeq(queue, i + 1, last)
           w == SubSeq(queue, last + 1, Len(queue))
<1>3. /\ u \in Seq(Nat) /\ v \in Seq(Nat) /\ w \in Seq(Nat)
      /\ Items(u) \cup Items(v) \cup Items(w) = Items(queue)
      /\ Len(u) = i /\ Len(v) = last - i /\ Len(w) = Len(queue) - last
  BY <1>1, CutTwice DEF TypeOK
<1>4. queue' = u \o w /\ taken' = taken \o v
  BY <1>2
<1> HIDE DEF u, v, w
<1>5. Len(u \o w) = i + (Len(queue) - last) /\ Items(u \o w) = Items(u) \cup Items(w)
  BY <1>3, ConcatProperties, ItemsOfConcat
<1>6. Len(queue') = Len(queue) - Len(v)
  BY <1>1, <1>3, <1>4, <1>5
<1>7. Items(queue') \cup Items(v) = Items(queue)
  BY <1>3, <1>4, <1>5
<1> QED
  BY <1>2, <1>3, <1>4, <1>6, <1>7, ConservationMove

LEMMA ConservationStep ==
  ASSUME TypeOK, Conservation, [Next]_vars
  PROVE  Conservation'
<1>1. CASE Untouched
  BY <1>1 DEF Untouched, Conservation, Items
<1>2. CASE Grows
  <2>1. PICK n \in Nat : queue' = queue \o Run(nput, n) /\ nput' = nput + n /\ taken' = taken
    BY <1>2 DEF Grows
  <2>2. Run(nput, n) \in Seq(Nat) /\ Len(Run(nput, n)) = n
    BY RunIsSeq DEF TypeOK
  <2>3. Len(queue') = Len(queue) + n /\ Items(queue') = Items(queue) \cup Items(Run(nput, n))
    BY <2>1, <2>2, ConcatProperties, ItemsOfConcat DEF TypeOK
  <2> QED
    BY <2>1, <2>3, ConservationGrow
<1>3. CASE Shrinks
  <2>1. PICK k \in 0..Len(queue) : /\ queue' = SubSeq(queue, k + 1, Len(queue))
                                   /\ taken' = taken \o SubSeq(queue, 1, k)
                                   /\ nput' = nput
    BY <1>3 DEF Shrinks
  <2>2. Len(queue) \in Nat
    BY LenProperties DEF TypeOK
  <2>3. /\ SubSeq(queue, 1, k) \in Seq(Nat) /\ SubSeq(queue, k + 1, Len(queue)) \in Seq(Nat)
        /\ SubSeq(queue, 1, k) \o SubSeq(queue, k + 1, Len(queue)) = queue
        /\ Len(SubSeq(queue, 1, k)) = k /\ Len(SubSeq(queue, k + 1, Len(queue))) = Len(queue) - k
    BY <2>2, CutOnce DEF TypeOK
  <2>4. Items(queue) = Items(SubSeq(queue, 1, k)) \cup Items(SubSeq(queue, k + 1, Len(queue)))
    BY <2>3, ItemsOfConcat
  <2> QED
    BY <2>1, <2>2, <2>3, <2>4, ConservationMove
<1>4. ASSUME NEW t \in Threads, NEW index \in Indices, NEW n \in Batches, Insert(t, index, n)
      PROVE  Conservation'
  BY <1>4, ConservationInsert, IndicesAssumption, BatchesAssumption
<1>5. ASSUME NEW t \in Threads, NEW index \in Indices, NEW n \in Counts, Extract(t, index, n)
      PROVE  Conservation'
  <2> DEFINE i == FromEnd(index)
  <2>1. Len(queue) \in Nat /\ i \in Int /\ n \in Nat
    BY LenProperties, IndicesAssumption, CountsAssumption DEF TypeOK, FromEnd
  <2>2. CASE i >= 0 /\ i < Len(queue) /\ ExtractBehind(t, i, n)
    <3>1. i \in 0..(Len(queue) - 1)
      BY <2>1, <2>2
    <3> QED
      BY <2>1, <2>2, <3>1, ConservationExtract
  <2>3. CASE n + i > 0 /\ DequeueNbBody(t, n + i)
    <3>1. n + i \in Nat
      BY <2>1, <2>3
    <3> QED
      BY <1>1, <1>3, <2>3, <3>1, DequeueNbData
  <2>4. CASE UNCHANGED <<queue, limit, ended, op, need, nput, taken>>
    BY <1>1, <2>4 DEF Untouched
  <2> QED
    BY <1>5, <2>2, <2>3, <2>4 DEF Extract
<1> QED
  BY <1>1, <1>2, <1>3, <1>4, <1>5, DataStep

(* Whatever methods the threads use and wherever they insert and extract,  *)
(* every item that entered the queue is once in the queue or was once      *)
(* handed out: none is lost and none is delivered twice.                   *)
THEOREM ConservationCorrect == Spec => []Conservation
<1>1. ASSUME Init PROVE Conservation
  <2>1. PICK k \in Batches \cup {0} : nput = k /\ queue = Run(0, k)
    BY <1>1 DEF Init
  <2>2. k \in Nat
    BY BatchesAssumption
  <2>3. Items(queue) = 1..k /\ Len(queue) = k
    BY <2>1, <2>2, ItemsOfRun, RunIsSeq
  <2>4. taken = << >> /\ Len(taken) = 0 /\ Items(taken) = {}
    BY <1>1 DEF Init, Items
  <2> QED
    BY <2>1, <2>2, <2>3, <2>4 DEF Conservation
<1> QED
  BY <1>1, ConservationStep, TypeCorrect, PTL DEF Spec

-----------------------------------------------------------------------------
(* Only the thread itself returns from its dequeue; others leave its call  *)
(* alone.                                                                  *)
LEMMA OwnReturn ==
  ASSUME TypeOK, NEW t \in Threads, NEW s \in Threads, s # t, Step(s)
  PROVE  op'[t] = op[t]
<1>1. op \in [Threads -> Calls]
  BY DEF TypeOK
<1>2. ASSUME Return(s) PROVE op'[t] = op[t]
  BY <1>1, <1>2 DEF Return
<1>3. ASSUME NEW call, NEW n, Wait(s, call, n) PROVE op'[t] = op[t]
  BY <1>1, <1>3 DEF Wait
<1>4. ASSUME NEW n, DequeueNbBody(s, n) PROVE op'[t] = op[t]
  BY <1>2, <1>4 DEF DequeueNbBody, TakeHead, Croak
<1>5. ASSUME NEW n, DequeueLoop(s, n) PROVE op'[t] = op[t]
  BY <1>2, <1>3, <1>4, <1>5 DEF DequeueLoop, TakeHead
<1>6. ASSUME NEW n, TimedLoop(s, n) PROVE op'[t] = op[t]
  BY <1>3, <1>4, <1>6 DEF TimedLoop
<1>7. ASSUME NEW n, NEW l, EnqueueLoop(s, n, l) PROVE op'[t] = op[t]
  BY <1>2, <1>3, <1>7 DEF EnqueueLoop
<1>8. ASSUME NEW i, NEW n, Extract(s, i, n) PROVE op'[t] = op[t]
  BY <1>4, <1>8 DEF Extract, ExtractBehind
<1>9. CASE (\E l \in LaterLimits : SetLimit(s, l)) \/ End(s) \/ SpuriousWakeup(s) \/ TimeOut(s)
  BY <1>1, <1>9 DEF SetLimit, End, SpuriousWakeup, TimeOut
<1>10. ASSUME NEW i, NEW n, Insert(s, i, n) PROVE op'[t] = op[t]
  BY <1>10 DEF Insert
<1> QED
  BY <1>4, <1>5, <1>6, <1>7, <1>8, <1>9, <1>10, StepCases

(* A dequeue that was blocked returns as much as it was asked for, or the  *)
(* queue has ended (dequeue's wait loop and dequeue_nb behind it).         *)
THEOREM ShortOnlyAtEndCorrect == Spec => ShortOnlyAtEnd
<1> DEFINE Full(t) == op[t] = "dequeue" /\ op'[t] = "idle" /\ ~ended => Len(taken') = Len(taken) + need[t]
<1>1. ASSUME TypeOK, [Next]_vars, NEW t \in Threads
      PROVE  Full(t)
  <2> SUFFICES ASSUME op[t] = "dequeue", op'[t] = "idle", ~ended
               PROVE  Len(taken') = Len(taken) + need[t]
    OBVIOUS
  <2>1. Next
    BY <1>1 DEF vars
  <2>2. Step(t)
    BY <1>1, <2>1, OwnReturn DEF Next
  <2>3. DequeueLoop(t, need[t])
    BY <2>2 DEF Step, NewCall, Enqueue, Dequeue, DequeueNb, DequeueTimed, SetLimit, End, Insert, Extract,
         Resume, SpuriousWakeup, TimeOut
  <2>4. Len(queue) >= need[t] /\ taken' = taken \o SubSeq(queue, 1, need[t])
    <3>1. ~Wait(t, "dequeue", need[t])
      BY <1>1 DEF Wait, TypeOK
    <3> QED
      BY <2>3, <3>1 DEF DequeueLoop, TakeHead
  <2>5. /\ queue \in Seq(Nat) /\ taken \in Seq(Nat) /\ need[t] \in Nat
        /\ Len(queue) \in Nat /\ Len(taken) \in Nat
    BY <1>1, LenProperties DEF TypeOK
  <2>6. SubSeq(queue, 1, need[t]) \in Seq(Nat) /\ Len(SubSeq(queue, 1, need[t])) = need[t]
    BY <2>4, <2>5
  <2> QED
    BY <2>4, <2>5, <2>6, ConcatProperties
<1>2. TypeOK /\ [Next]_vars => [\A t \in Threads : Full(t)]_vars
  BY <1>1
<1> QED
  BY <1>2, TypeCorrect, PTL DEF Spec, ShortOnlyAtEnd

-----------------------------------------------------------------------------
(* After the end *)

(* What a thread puts into the queue and whether it waits in enqueue       *)
(* afterwards is only changed by its own enqueue and insert calls.         *)
LEMMA OtherCalls ==
  ASSUME TypeOK, NEW t \in Threads,
         \/ \E n : DequeueLoop(t, n) \/ TimedLoop(t, n) \/ DequeueNbBody(t, n)
         \/ \E i, n : Extract(t, i, n)
         \/ \E l : SetLimit(t, l)
         \/ End(t) \/ SpuriousWakeup(t) \/ TimeOut(t)
  PROVE  /\ ended => ended'
         /\ nput' = nput
         /\ \A s \in Threads : op'[s] = "enqueue" => op[s] = "enqueue" /\ need'[s] = need[s]
<1> DEFINE Kept == /\ ended => ended'
                   /\ nput' = nput
                   /\ \A s \in Threads : op'[s] = "enqueue" => op[s] = "enqueue" /\ need'[s] = need[s]
<1>1. op \in [Threads -> Calls] /\ need \in [Threads -> Nat]
  BY DEF TypeOK
<1>2. ASSUME Return(t), UNCHANGED <<ended, nput>> PROVE Kept
  BY <1>1, <1>2 DEF Return
<1>3. ASSUME NEW c \in {"dequeue", "timed"}, NEW n, Wait(t, c, n) PROVE Kept
  BY <1>1, <1>3 DEF Wait
<1>4. ASSUME UNCHANGED <<op, need, nput>>, ended => ended' PROVE Kept
  BY <1>4
<1> HIDE DEF Kept
<1>5. ASSUME NEW n, DequeueNbBody(t, n) PROVE Kept
  BY <1>2, <1>5 DEF DequeueNbBody, TakeHead, Croak
<1>6. ASSUME NEW n, DequeueLoop(t, n) PROVE Kept
  BY <1>2, <1>3, <1>5, <1>6 DEF DequeueLoop, TakeHead
<1>7. ASSUME NEW n, TimedLoop(t, n) PROVE Kept
  BY <1>3, <1>5, <1>7 DEF TimedLoop
<1>8. ASSUME NEW i, NEW n, Extract(t, i, n) PROVE Kept
  BY <1>4, <1>5, <1>8 DEF Extract, ExtractBehind
<1>9. ASSUME NEW l, SetLimit(t, l) PROVE Kept
  BY <1>4, <1>9 DEF SetLimit
<1>10. CASE End(t) \/ SpuriousWakeup(t)
  BY <1>4, <1>10 DEF End, SpuriousWakeup
<1>11. CASE TimeOut(t)
  BY <1>1, <1>11 DEF TimeOut, Kept
<1> QED
  BY <1>5, <1>6, <1>7, <1>8, <1>9, <1>10, <1>11 DEF Kept

(* Once the queue has ended, whatever the limits and however they change,  *)
(* items enter it only from calls of enqueue that already waited at the    *)
(* limit (enqueue tests ENDED before its wait, Queue.pm:30-37).            *)
THEOREM OnlyBlockedEnterCorrect == Spec => OnlyBlockedEnter
<1> DEFINE Enter == /\ ended'
                    /\ \A t \in Threads : op'[t] = "enqueue" => op[t] = "enqueue" /\ need'[t] = need[t]
                    /\ nput' = nput \/ \E t \in Threads :
                         op[t] = "enqueue" /\ op'[t] = "idle" /\ nput' = nput + need[t]
<1>1. ASSUME TypeOK, [Next]_vars, ended
      PROVE  Enter \/ UNCHANGED vars
  <2>1. SUFFICES ASSUME NEW t \in Threads, Step(t) PROVE Enter
    BY <1>1 DEF Next
  <2>2. op \in [Threads -> Calls] /\ need \in [Threads -> Nat]
    BY <1>1 DEF TypeOK
  \* a call that begins now croaks, so this one has waited
  <2>3. CASE op[t] = "enqueue" /\ Resume(t)
    <3>1. PICK l \in LaterLimits \cup {limit} : EnqueueLoop(t, need[t], l)
      BY <2>3 DEF Resume
    <3>2. CASE Wait(t, "enqueue", need[t])
      <4>1. op' = op /\ need' = need
        BY <2>2, <2>3, <3>2 DEF Wait
      <4> QED BY <1>1, <3>2, <4>1 DEF Wait
    <3>3. CASE Return(t) /\ nput' = nput + need[t] /\ ended' = ended
      <4>1. op'[t] = "idle" /\ \A s \in Threads \ {t} : op'[s] = op[s] /\ need'[s] = need[s]
        BY <2>2, <3>3 DEF Return
      <4> QED BY <1>1, <2>3, <3>3, <4>1
    <3> QED BY <3>1, <3>2, <3>3 DEF EnqueueLoop
  <2>4. CASE ~(op[t] = "enqueue" /\ Resume(t))
    <3>1. \/ \E n : DequeueLoop(t, n) \/ TimedLoop(t, n) \/ DequeueNbBody(t, n)
          \/ \E i, n : Extract(t, i, n)
          \/ \E l : SetLimit(t, l)
          \/ End(t) \/ SpuriousWakeup(t) \/ TimeOut(t)
      BY <1>1, <2>1, <2>4 DEF Step, NewCall, Enqueue, Dequeue, DequeueNb, DequeueTimed, Insert, Resume
    <3> QED BY <1>1, <3>1, OtherCalls
  <2> QED BY <2>3, <2>4
<1>2. TypeOK /\ [Next]_vars => [ended => Enter]_vars
  BY <1>1
<1> QED
  BY <1>2, TypeCorrect, PTL DEF Spec, OnlyBlockedEnter

=============================================================================
