------------------------ MODULE ThreadSemaphoreProofs ------------------------
(***************************************************************************)
(* Theorems about ThreadSemaphore for every set of threads and all counts. *)
(***************************************************************************)
EXTENDS ThreadSemaphore, TLAPS

(* A step by kind; in the first two the thread is not in the wait set.     *)
LEMMA StepKinds ==
  ASSUME TypeOK, NEW t \in Threads, Step(t)
  PROVE  \/ t \notin waiters /\ \E n \in Nat \ {0} : count >= n /\ Take(t, n)
         \/ t \notin waiters /\ \E n \in Nat \ {0}, call \in {"down", "timed"} :
               count < n /\ Wait(t, call, n)
         \/ \E n \in Nat \ {0} : Up(t, n)
         \/ \E n \in Nat \ {0} : DownForce(t, n)
         \/ SpuriousWakeup(t)
         \/ TimeOut(t)
         \/ t \notin waiters /\ Return(t) /\ UNCHANGED <<count, waiters, start, got, forced, given>>
<1>1. Amounts \subseteq Nat \ {0} /\ Forced \subseteq Nat \ {0}
  BY AmountsAssumption
<1>2. op[t] = "idle" => t \notin waiters
  BY DEF TypeOK
<1>3. CASE \E n \in Amounts : Down(t, n)
  BY <1>1, <1>2, <1>3 DEF Down, DownLoop
<1>4. CASE \E n \in Amounts : DownTimed(t, n)
  BY <1>1, <1>2, <1>4 DEF DownTimed, DownLoop
<1>5. CASE \E n \in Amounts : DownNb(t, n)
  BY <1>1, <1>2, <1>5 DEF DownNb
<1>6. CASE (\E n \in Amounts : Up(t, n)) \/ (\E n \in Forced : DownForce(t, n))
  BY <1>1, <1>6
<1>7. CASE Resume(t)
  <2>1. t \notin waiters /\ op[t] # "idle" /\ need[t] \in Nat \ {0}
    BY <1>7 DEF Resume, Ready, TypeOK
  <2>2. CASE op[t] \in {"down", "timed"} /\ DownLoop(t, op[t], need[t])
    BY <2>1, <2>2 DEF DownLoop
  <2> QED
    BY <1>7, <2>1, <2>2 DEF Resume
<1> QED
  BY <1>3, <1>4, <1>5, <1>6, <1>7 DEF Step

LEMMA ReturnType ==
  ASSUME TypeOK, NEW t \in Threads, t \notin waiters, Return(t), waiters' = waiters
  PROVE  /\ op' \in [Threads -> Calls] /\ need' \in [Threads -> Nat]
         /\ \A s \in Threads : op'[s] # "idle" => need'[s] # 0
         /\ waiters' \subseteq {s \in Threads : op'[s] \in {"down", "timed"}}
         /\ \A s \in waiters' : need'[s] = need[s]
<1>1. op' = [op EXCEPT ![t] = "idle"] /\ need' = [need EXCEPT ![t] = 0]
  BY DEF Return
<1>2. op' \in [Threads -> Calls] /\ need' \in [Threads -> Nat]
  BY <1>1 DEF TypeOK, Calls
<1>3. \A s \in Threads : s # t => op'[s] = op[s] /\ need'[s] = need[s]
  BY <1>1 DEF TypeOK
<1>4. op'[t] = "idle"
  BY <1>1 DEF TypeOK
<1> QED
  BY <1>2, <1>3, <1>4 DEF TypeOK

(* The inductive invariant: the types, and both safety properties, which   *)
(* are inductive together.                                                 *)
IInv == TypeOK /\ NoSleepWhenAvailable /\ NeverOversold

LEMMA InitIInv == ASSUME Init PROVE IInv
<1>1. TypeOK
  BY StartsAssumption DEF Init, TypeOK, Calls
<1>2. NoSleepWhenAvailable
  BY DEF Init, NoSleepWhenAvailable
<1>3. NeverOversold
  BY StartsAssumption DEF Init, NeverOversold
<1> QED
  BY <1>1, <1>2, <1>3 DEF IInv

LEMMA NextIInv ==
  ASSUME IInv, [Next]_vars
  PROVE  IInv'
<1>0. TypeOK /\ NoSleepWhenAvailable /\ NeverOversold
  BY DEF IInv
<1>t. count \in Int /\ start \in Int /\ got \in Nat /\ forced \in Nat /\ given \in Nat
  BY <1>0 DEF TypeOK
<1>1. CASE UNCHANGED vars
  BY <1>0, <1>1 DEF IInv, TypeOK, NoSleepWhenAvailable, NeverOversold, vars
<1>2. CASE Next
  <2>1. PICK t \in Threads : Step(t)
    BY <1>2 DEF Next
  <2>2. CASE t \notin waiters /\ \E n \in Nat \ {0} : count >= n /\ Take(t, n)
    <3>1. PICK n \in Nat \ {0} : count >= n /\ Take(t, n)
      BY <2>2
    <3>2. /\ count' = count - n /\ got' = got + n /\ Return(t)
          /\ waiters' = waiters /\ start' = start /\ forced' = forced /\ given' = given
      BY <3>1 DEF Take
    <3>3. TypeOK'
      BY <1>0, <1>t, <2>2, <3>2, ReturnType DEF TypeOK
    <3>4. NoSleepWhenAvailable'
      <4> SUFFICES ASSUME NEW s \in waiters' PROVE count' < need'[s]
        BY DEF NoSleepWhenAvailable
      <4>1. need'[s] = need[s] /\ need[s] \in Nat /\ count < need[s]
        BY <1>0, <2>2, <3>2, ReturnType DEF TypeOK, NoSleepWhenAvailable
      <4> QED
        BY <1>t, <3>2, <4>1
    <3>5. NeverOversold'
      BY <1>0, <1>t, <3>1, <3>2 DEF NeverOversold
    <3> QED
      BY <3>3, <3>4, <3>5 DEF IInv
  <2>3. CASE t \notin waiters /\ \E n \in Nat \ {0}, call \in {"down", "timed"} :
                count < n /\ Wait(t, call, n)
    <3>1. PICK n \in Nat \ {0}, call \in {"down", "timed"} : count < n /\ Wait(t, call, n)
      BY <2>3
    <3>2. /\ op' = [op EXCEPT ![t] = call] /\ need' = [need EXCEPT ![t] = n]
          /\ waiters' = waiters \cup {t}
          /\ UNCHANGED <<count, start, got, forced, given>>
      BY <3>1 DEF Wait
    <3>3. TypeOK'
      BY <1>0, <3>1, <3>2 DEF TypeOK, Calls
    <3>4. NoSleepWhenAvailable'
      BY <1>0, <3>1, <3>2 DEF TypeOK, NoSleepWhenAvailable
    <3>5. NeverOversold'
      BY <1>0, <3>2 DEF NeverOversold
    <3> QED
      BY <3>3, <3>4, <3>5 DEF IInv
  <2>4. CASE \E n \in Nat \ {0} : Up(t, n)
    <3>1. PICK n \in Nat \ {0} : Up(t, n)
      BY <2>4
    <3>2. /\ count' = count + n /\ given' = given + n
          /\ waiters' = (IF count' > 0 THEN {} ELSE waiters)
          /\ UNCHANGED <<op, need, start, got, forced>>
      BY <3>1 DEF Up
    <3>3. TypeOK'
      BY <1>0, <1>t, <3>2 DEF TypeOK
    <3>4. NoSleepWhenAvailable'
      <4> SUFFICES ASSUME NEW s \in waiters' PROVE count' < need'[s]
        BY DEF NoSleepWhenAvailable
      <4>1. ~(count' > 0) /\ s \in waiters
        BY <3>2
      <4>2. need[s] \in Nat \ {0}
        BY <1>0, <4>1 DEF TypeOK
      <4> QED
        BY <1>t, <3>2, <4>1, <4>2
    <3>5. NeverOversold'
      BY <1>0, <1>t, <3>2 DEF NeverOversold
    <3> QED
      BY <3>3, <3>4, <3>5 DEF IInv
  <2>5. CASE \E n \in Nat \ {0} : DownForce(t, n)
    <3>1. PICK n \in Nat \ {0} : DownForce(t, n)
      BY <2>5
    <3>2. /\ count' = count - n /\ forced' = forced + n
          /\ UNCHANGED <<op, need, waiters, start, got, given>>
      BY <3>1 DEF DownForce
    <3>3. TypeOK'
      BY <1>0, <1>t, <3>2 DEF TypeOK
    <3>4. NoSleepWhenAvailable'
      <4> SUFFICES ASSUME NEW s \in waiters PROVE count' < need[s]
        BY <3>2 DEF NoSleepWhenAvailable
      <4>1. need[s] \in Nat /\ count < need[s]
        BY <1>0 DEF TypeOK, NoSleepWhenAvailable
      <4> QED
        BY <1>t, <3>2, <4>1
    <3>5. NeverOversold'
      BY <1>0, <1>t, <3>2 DEF NeverOversold
    <3> QED
      BY <3>3, <3>4, <3>5 DEF IInv
  <2>6. CASE SpuriousWakeup(t)
    BY <1>0, <2>6 DEF SpuriousWakeup, IInv, TypeOK, NoSleepWhenAvailable, NeverOversold
  <2>7. CASE TimeOut(t)
    <3>1. TypeOK'
      BY <1>0, <2>7 DEF TimeOut, TypeOK, Calls
    <3> QED
      BY <1>0, <2>7, <3>1 DEF TimeOut, IInv, NoSleepWhenAvailable, NeverOversold
  <2>8. CASE t \notin waiters /\ Return(t) /\ UNCHANGED <<count, waiters, start, got, forced, given>>
    <3>1. TypeOK'
      BY <1>0, <2>8, ReturnType DEF TypeOK
    <3>2. NoSleepWhenAvailable'
      BY <1>0, <2>8, ReturnType DEF NoSleepWhenAvailable
    <3> QED
      BY <1>0, <2>8, <3>1, <3>2 DEF IInv, NeverOversold
  <2> QED
    BY <1>0, <2>1, <2>2, <2>3, <2>4, <2>5, <2>6, <2>7, <2>8, StepKinds
<1> QED
  BY <1>1, <1>2

LEMMA Invariance == Spec => []IInv
BY InitIInv, NextIInv, PTL DEF Spec

(* The semaphore keeps its types.                                          *)
THEOREM TypeCorrect == Spec => []TypeOK
BY Invariance, PTL DEF IInv

(* No thread sleeps in down or down_timed while the count is high enough.  *)
THEOREM NoSleepWhenAvailableCorrect == Spec => []NoSleepWhenAvailable
BY Invariance, PTL DEF IInv

(* What the down methods hand out never exceeds what there was to give.    *)
THEOREM NeverOversoldCorrect == Spec => []NeverOversold
BY Invariance, PTL DEF IInv
=============================================================================
