--------------------------- MODULE ThreadSemaphore ---------------------------
(***************************************************************************)
(* Thread::Semaphore (usr/share/perl5/5.40/Thread/Semaphore.pm): one       *)
(* shared counter, locked by every method for as long as it looks at it,   *)
(* except inside cond_wait and cond_timedwait.  A method is one action up  *)
(* to its return or wait, and one more each time a waiting thread has the  *)
(* lock again.                                                             *)
(***************************************************************************)
EXTENDS Integers, FiniteSets

CONSTANTS
  Threads,   \* the threads that share the semaphore
  Starts,    \* the initial counts given to new
  Amounts,   \* the NUMBER arguments of the methods; validated to be >= 1
  Forced,    \* the amounts down_force is called with
  Bound      \* bound: no up or down_force call above this total

ASSUME StartsAssumption  == Starts \subseteq Int
ASSUME AmountsAssumption == Amounts \cup Forced \subseteq Nat \ {0}
ASSUME BoundAssumption   == Bound \in Nat

VARIABLES
  count,     \* $$sema
  op,        \* op[t]: the call t is in the middle of, "idle" if none
  need,      \* need[t]: its $dec
  waiters,   \* threads inside cond_wait / cond_timedwait
  start,     \* history: the count the semaphore was created with
  got,       \* history: the total taken by down, down_nb and down_timed
  forced,    \* history: the total taken by down_force
  given      \* history: the total of all up calls

vars == <<count, op, need, waiters, start, got, forced, given>>

Calls == {"idle", "down", "timed", "expired"}

Ready(t) == op[t] # "idle" /\ t \notin waiters

TypeOK ==
  /\ count \in Int
  /\ op \in [Threads -> Calls]
  /\ need \in [Threads -> Nat]
  /\ \A t \in Threads : op[t] # "idle" => need[t] # 0
  /\ waiters \subseteq {t \in Threads : op[t] \in {"down", "timed"}}
  /\ start \in Int /\ got \in Nat /\ forced \in Nat /\ given \in Nat

Init ==
  /\ start \in Starts
  /\ count = start
  /\ op = [t \in Threads |-> "idle"]
  /\ need = [t \in Threads |-> 0]
  /\ waiters = {}
  /\ got = 0 /\ forced = 0 /\ given = 0

-----------------------------------------------------------------------------
Return(t) ==
  /\ op' = [op EXCEPT ![t] = "idle"]
  /\ need' = [need EXCEPT ![t] = 0]

(* $$sema -= $dec, and the method returns true.                            *)
Take(t, n) ==
  /\ count' = count - n
  /\ got' = got + n
  /\ Return(t)
  /\ UNCHANGED <<waiters, start, forced, given>>

(* cond_wait in down, cond_timedwait in down_timed.                        *)
Wait(t, call, n) ==
  /\ op' = [op EXCEPT ![t] = call]
  /\ need' = [need EXCEPT ![t] = n]
  /\ waiters' = waiters \cup {t}
  /\ UNCHANGED <<count, start, got, forced, given>>

(* Seeded bug: the count is tested once before the wait, not in a loop.    *)
DownLoop_Once(t, call, n) ==
  \/ (count >= n \/ op[t] = call) /\ Take(t, n)
  \/ count < n /\ op[t] = "idle" /\ Wait(t, call, n)

(* The loop of down and of down_timed.                                     *)
DownLoop(t, call, n) ==
  \/ count >= n /\ Take(t, n)
  \/ count < n /\ Wait(t, call, n)

Down(t, n)      == op[t] = "idle" /\ DownLoop(t, "down", n)
DownTimed(t, n) == op[t] = "idle" /\ DownLoop(t, "timed", n)

(* down_nb: a count that is too low is left alone, which changes nothing.  *)
DownNb(t, n) == op[t] = "idle" /\ count >= n /\ Take(t, n)

DownForce(t, n) ==
  /\ op[t] = "idle"
  /\ forced + n <= Bound
  /\ count' = count - n
  /\ forced' = forced + n
  /\ UNCHANGED <<op, need, waiters, start, got, given>>

(* Seeded bug: one waiter is woken, as cond_signal would do.               *)
Up_Signal(t, n) ==
  /\ op[t] = "idle"
  /\ given + n <= Bound
  /\ count' = count + n
  /\ given' = given + n
  /\ IF count' > 0 /\ waiters # {}
       THEN \E w \in waiters : waiters' = waiters \ {w}
       ELSE UNCHANGED waiters
  /\ UNCHANGED <<op, need, start, got, forced>>

(* up: everybody is woken as soon as the count is above zero.              *)
Up(t, n) ==
  /\ op[t] = "idle"
  /\ given + n <= Bound
  /\ count' = count + n
  /\ given' = given + n
  /\ waiters' = IF count' > 0 THEN {} ELSE waiters
  /\ UNCHANGED <<op, need, start, got, forced>>

(* A wait may end without a signal.                                        *)
SpuriousWakeup(t) ==
  /\ t \in waiters
  /\ waiters' = waiters \ {t}
  /\ UNCHANGED <<count, op, need, start, got, forced, given>>

(* The time of down_timed is over: the thread will return false when it    *)
(* has the lock again, without another look at the count.                  *)
TimeOut(t) ==
  /\ t \in waiters
  /\ op[t] = "timed"
  /\ waiters' = waiters \ {t}
  /\ op' = [op EXCEPT ![t] = "expired"]
  /\ UNCHANGED <<count, need, start, got, forced, given>>

Resume(t) ==
  /\ Ready(t)
  /\ \/ op[t] \in {"down", "timed"} /\ DownLoop(t, op[t], need[t])
     \/ op[t] = "expired" /\ Return(t)
          /\ UNCHANGED <<count, waiters, start, got, forced, given>>

Step(t) ==
  \/ \E n \in Amounts : Down(t, n) \/ DownTimed(t, n) \/ DownNb(t, n) \/ Up(t, n)
  \/ \E n \in Forced : DownForce(t, n)
  \/ Resume(t) \/ SpuriousWakeup(t) \/ TimeOut(t)

Next == \E t \in Threads : Step(t)

Spec == Init /\ [][Next]_vars

(* As for the queue: the lock is granted to those who want it, and a timed *)
(* wait keeps its absolute deadline however often it is woken.             *)
Fairness == \A t \in Threads : WF_vars(Resume(t)) /\ SF_vars(TimeOut(t))

FairSpec == Spec /\ Fairness

-----------------------------------------------------------------------------
(* No thread sleeps in down or down_timed while the count is high enough   *)
(* for it: up wakes all who could go on, also when it brings a count that  *)
(* down_force had made negative back above zero in several steps.          *)
NoSleepWhenAvailable == \A t \in waiters : count < need[t]

(* Nothing is taken that is not there: what down, down_nb and down_timed   *)
(* took never exceeds what the semaphore started with and was given, and   *)
(* only down_force can bring the count below its start and below zero.     *)
NeverOversold ==
  /\ count = start + given - got - forced
  /\ count + forced >= 0 \/ (got = 0 /\ count + forced >= start)

(* A down does not hang for ever while the count is high enough for it.    *)
DownGetsThrough ==
  \A t \in Threads : []<>(op[t] = "idle" \/ count < need[t])

=============================================================================
