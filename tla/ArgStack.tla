------------------------------ MODULE ArgStack ------------------------------
(***************************************************************************)
(* The rpp_... helpers of CORE/inline.h: pp functions use them to move SVs *)
(* on and off the argument stack, which is reference-counted in builds     *)
(* with PERL_RC_STACK and not in the others.                               *)
(*                                                                         *)
(* Freeing an SV may run a destructor: Perl code that uses these helpers   *)
(* on a stack of its own (push_stackinfo), while the helper that freed the *)
(* SV is in the middle of its work, and that may throw.  work holds what   *)
(* the suspended C functions have still to do, the innermost one first.    *)
(***************************************************************************)
EXTENDS Integers, SequencesExt

CONSTANTS
  SVs,         \* the SVs that can be allocated; Undef is immortal
  Undef,       \* PL_sv_undef
  Builds,      \* values of PERL_RC_STACK
  Throws,      \* whether destructors may throw
  MaxItems,    \* bound: items on the program's stack and in @_
  MaxInner,    \* bound: items on the stack of a destructor
  MaxMortals,  \* bound: entries of the temps stack
  MaxOwned     \* bound: references to an SV from variables and C code

ASSUME UndefAssumption == Undef \notin SVs
ASSUME BuildsAssumption == Builds \subseteq BOOLEAN /\ Throws \in BOOLEAN
ASSUME BoundsAssumption == {MaxItems, MaxInner, MaxMortals, MaxOwned} \subseteq Nat

VARIABLES
  rc,      \* PERL_RC_STACK
  refcnt,  \* SvREFCNT; 0 is a freed SV
  stack,   \* the argument stacks, that of the innermost destructor last
  tmps,    \* the temps stack
  temp,    \* the SVs with the flag SvTEMP
  own,     \* own[s]: references to s from variables, arrays and C code
  args,    \* @_ of the running sub
  work,    \* what the suspended C functions have still to do
  off,     \* off[s]: references that the counts are wrong by
  result   \* the stack as it is documented to be when the helper returns

vars == <<rc, refcnt, stack, tmps, temp, own, args, work, off, result>>

SV == SVs \cup {Undef}

(* Entries of work.  Nothing else refers to the SV of a dec; drop stands   *)
(* for a stack slot whose reference has been given up already.  fast marks *)
(* the SVs that only the C locals of an _NN helper keep.                   *)
Dec(s)        == [do |-> "dec", sv |-> s, fast |-> FALSE]
FastDec(s)    == [do |-> "dec", sv |-> s, fast |-> TRUE]
Drop(s)       == [do |-> "drop", sv |-> s]
PopTo(n)      == [do |-> "popto", n |-> n]
PushUndef     == [do |-> "push_undef"]
FreeTmps(n)   == [do |-> "freetmps", n |-> n]
ClearArgs     == [do |-> "clear"]
Destroy(s)    == [do |-> "destroy", sv |-> s, base |-> Len(stack), floor |-> Len(tmps)]
Exit          == [do |-> "exit"]

Entry ==
  [do : {"dec"}, sv : SV, fast : BOOLEAN] \cup [do : {"drop"}, sv : SV]
    \cup [do : {"popto", "freetmps"}, n : Nat] \cup [do : {"push_undef", "clear", "exit"}]
    \cup [do : {"destroy"}, sv : SVs, base : Nat, floor : Nat]

TypeOK ==
  /\ rc \in BOOLEAN
  /\ refcnt \in [SVs -> Nat] /\ own \in [SVs -> Nat] /\ off \in [SVs -> Int]
  /\ stack \in Seq(SV) /\ args \in Seq(SV) /\ result \in Seq(SV)
  /\ tmps \in Seq(SVs) /\ temp \subseteq SVs
  /\ work \in Seq(Entry)

Init ==
  /\ rc \in Builds
  /\ refcnt = [s \in SVs |-> 0]
  /\ own = [s \in SVs |-> 0]
  /\ off = [s \in SVs |-> 0]
  /\ stack = <<>> /\ tmps = <<>> /\ args = <<>> /\ work = <<>> /\ result = <<>>
  /\ temp = {}

-----------------------------------------------------------------------------
AtStep(do) == work # <<>> /\ Head(work).do = do

(* Perl code, or the C code of a pp function, is running.                  *)
Running == IF work = <<>> THEN TRUE ELSE Head(work).do = "destroy"

(* The current stack: the items above Base, up to PL_stack_sp.             *)
Base == IF work = <<>> THEN 0 ELSE Head(work).base
SP == Len(stack)
Upto(n) == SubSeq(stack, 1, n)
Current == SubSeq(stack, Base + 1, SP)

Room(n) ==
  IF work = <<>> THEN SP + Len(args) + n <= MaxItems ELSE SP - Base + n <= MaxInner

(* What the running code can get hold of.                                  *)
Reachable == {s \in SVs : refcnt[s] > 0 /\ (own[s] > 0 \/ s \in ToSet(Current))}

Counted(seq, s) == Cardinality({i \in DOMAIN seq : seq[i] = s})

Inc(count, s) == IF s = Undef THEN count ELSE [count EXCEPT ![s] = @ + 1]

(* A reference more for each of incs.                                      *)
Added(incs) == [s \in SVs |-> refcnt[s] + Counted(incs, s)]

(* One helper: the stack it leaves at once, the SVs it adds a reference    *)
(* for, what it does after that, and the stack it is documented to leave.  *)
(* Without PERL_RC_STACK only the last is left.                            *)
Helper(now, incs, rest, documented) ==
  /\ IF rc
     THEN /\ stack' = now
          /\ refcnt' = Added(incs)
          /\ work' = rest \o work
     ELSE stack' = documented /\ UNCHANGED <<refcnt, work>>
  /\ result' = IF work = <<>> THEN documented ELSE result

Others == UNCHANGED <<rc, tmps, temp, own, args, off>>

rpp_popfree_to(n) ==
  /\ n \in Base .. SP
  /\ Helper(stack, <<>>, <<PopTo(n)>>, Upto(n))
  /\ Others

rpp_popfree_1 == SP > Base /\ rpp_popfree_to(SP - 1)
rpp_popfree_2 == SP > Base + 1 /\ rpp_popfree_to(SP - 2)

rpp_push_1(s) ==
  /\ Room(1)
  /\ Helper(Append(stack, s), <<s>>, <<>>, Append(stack, s))
  /\ Others

rpp_push_IMM ==
  /\ Room(1)
  /\ Helper(Append(stack, Undef), <<>>, <<>>, Append(stack, Undef))
  /\ Others

rpp_push_2(s, u) ==
  /\ Room(2)
  /\ Helper(stack \o <<s, u>>, <<s, u>>, <<>>, stack \o <<s, u>>)
  /\ Others

rpp_replace_at(i, s) ==
  /\ i \in Base + 1 .. SP
  /\ LET now == [stack EXCEPT ![i] = s] IN Helper(now, <<s>>, <<Dec(stack[i])>>, now)
  /\ Others

rpp_replace_1_1(s) == SP > Base /\ rpp_replace_at(SP, s)

rpp_replace_1_IMM_NN ==
  /\ SP > Base
  /\ LET now == [stack EXCEPT ![SP] = Undef] IN Helper(now, <<>>, <<Dec(stack[SP])>>, now)
  /\ Others

(* Seeded bug: both SVs leave the stack before either is freed.           *)
rpp_replace_2_1_Popped(s) ==
  /\ SP > Base + 1
  /\ Helper(Append(Upto(SP - 2), s), <<s>>, <<Dec(stack[SP - 1]), Dec(stack[SP])>>,
            Append(Upto(SP - 2), s))
  /\ Others

(* The second SV stays on the stack while the first one is freed.          *)
rpp_replace_2_1(s) ==
  /\ SP > Base + 1
  /\ Helper([stack EXCEPT ![SP - 1] = s], <<s>>, <<Dec(stack[SP - 1]), PopTo(SP - 1)>>,
            Append(Upto(SP - 2), s))
  /\ Others

(* Give up a reference to each of two SVs.  If neither count is below 2    *)
(* both are stored decremented, from what was read before either store:    *)
(* one reference stays counted if the two are the same SV.  Otherwise      *)
(* Perl_rpp_free_2_ frees them one after the other, and then the slot that *)
(* still holds one of them is dropped.  It is compiled code that is given  *)
(* both counts as read before; each is taken as it is when its turn comes. *)
FreeBoth(now, incs, s, u, last, documented) ==
  LET counts == Added(incs)
      shared(v) == v = Undef \/ counts[v] \div 2 # 0
      less(v) == [w \in SVs |-> counts[w] - (IF w \in v THEN 1 ELSE 0)]
  IN /\ s = u /\ s # Undef => off[s] = 0      \* bound: wrong once at most
     /\ IF ~rc
        THEN stack' = documented /\ UNCHANGED <<refcnt, work, off>>
        ELSE IF shared(s) /\ shared(u)
        THEN /\ stack' = documented
             /\ refcnt' = less({s, u})
             /\ off' = IF s = u THEN Inc(off, s) ELSE off
             /\ UNCHANGED work
        ELSE /\ stack' = now
             /\ refcnt' = counts
             /\ work' = <<FastDec(s), FastDec(u)>> \o last \o work
             /\ UNCHANGED off
     /\ result' = IF work = <<>> THEN documented ELSE result
     /\ UNCHANGED <<rc, tmps, temp, own, args>>

rpp_popfree_2_NN ==
  /\ SP > Base + 1
  /\ FreeBoth(Upto(SP - 1), <<>>, stack[SP - 1], stack[SP], <<Drop(stack[SP - 1])>>, Upto(SP - 2))

rpp_replace_2_1_COMMON(s, incs) ==
  LET now == Append(Upto(SP - 2), s)
  IN SP > Base + 1 /\ FreeBoth(now, incs, stack[SP - 1], stack[SP], <<>>, now)

rpp_replace_2_1_NN(s) == rpp_replace_2_1_COMMON(s, <<s>>)
rpp_replace_2_IMM_NN  == rpp_replace_2_1_COMMON(Undef, <<>>)

(* Seeded bug: the last item is not moved to the bottom.                  *)
rpp_context_Unswapped(mark, gimme, extra) ==
  LET top == SP - extra
  IN /\ gimme = "G_SCALAR" /\ extra >= 0 /\ mark \in Base .. top - 1
     /\ Helper(stack, <<>>, <<PopTo(mark + 1)>>, Append(Upto(mark), stack[top]))
     /\ Others

(* mark is an offset into the stack, extra a number of items.              *)
rpp_context(mark, gimme, extra) ==
  LET top == SP - extra
  IN /\ extra >= 0 /\ mark \in Base .. top
     /\ \/ /\ gimme = "G_LIST"
           /\ Helper(stack, <<>>, <<PopTo(top)>>, Upto(top))
        \/ /\ gimme = "G_VOID"
           /\ Helper(stack, <<>>, <<PopTo(mark)>>, Upto(mark))
        \/ /\ gimme = "G_SCALAR" /\ mark = top
           /\ Room(1 - extra)
           /\ Helper(stack, <<>>, <<PopTo(top), PushUndef>>, Append(Upto(mark), Undef))
        \/ /\ gimme = "G_SCALAR" /\ mark < top
           /\ Helper([stack EXCEPT ![top] = stack[mark + 1], ![mark + 1] = stack[top]],
                     <<>>, <<PopTo(mark + 1)>>, Append(Upto(mark), stack[top]))
     /\ Others

-----------------------------------------------------------------------------
(* Helpers that take over or hand out a reference.                         *)

sv_2mortal(s) ==
  /\ Len(tmps) < MaxMortals
  /\ tmps' = Append(tmps, s)
  /\ temp' = temp \cup {s}

(* Without PERL_RC_STACK the reference goes to the temps stack.            *)
TakeOver(s) ==
  /\ own[s] > 0
  /\ own' = [own EXCEPT ![s] = @ - 1]
  /\ IF rc THEN UNCHANGED <<tmps, temp>> ELSE sv_2mortal(s)
  /\ UNCHANGED <<rc, args, off>>

rpp_push_1_norc(s) ==
  /\ Room(1)
  /\ Helper(Append(stack, s), <<>>, <<>>, Append(stack, s))
  /\ TakeOver(s)

rpp_replace_at_norc(i, s) ==
  /\ i \in Base + 1 .. SP
  /\ LET now == [stack EXCEPT ![i] = s] IN Helper(now, <<>>, <<Dec(stack[i])>>, now)
  /\ TakeOver(s)

rpp_pop_1_norc ==
  /\ SP > Base
  /\ LET s == stack[SP]
     IN /\ s \in Reachable /\ own[s] < MaxOwned
        /\ own' = [own EXCEPT ![s] = @ + 1]
        /\ refcnt' = IF rc THEN refcnt ELSE Inc(refcnt, s)
  /\ stack' = Upto(SP - 1)
  /\ result' = IF work = <<>> THEN Upto(SP - 1) ELSE result
  /\ UNCHANGED <<rc, tmps, temp, args, work, off>>

-----------------------------------------------------------------------------
(* What the callers do with SVs (sv.c, scope.c, pp_hot.c).                 *)

(* An SV whose count has gone wrong is not followed into its next life.    *)
NewSV(s) ==
  /\ off[s] = 0
  /\ refcnt[s] = 0 /\ s \notin {work[i].sv : i \in {j \in DOMAIN work : work[j].do = "destroy"}}
  /\ refcnt' = [refcnt EXCEPT ![s] = 1]
  /\ own' = [own EXCEPT ![s] = 1]
  /\ UNCHANGED <<rc, stack, tmps, temp, args, work, off, result>>

Forget(s) ==
  /\ own[s] > 0
  /\ own' = [own EXCEPT ![s] = @ - 1]
  /\ work' = <<Dec(s)>> \o work
  /\ UNCHANGED <<rc, refcnt, stack, tmps, temp, args, off, result>>

Mortalise(s) ==
  /\ own[s] > 0
  /\ own' = [own EXCEPT ![s] = @ - 1]
  /\ sv_2mortal(s)
  /\ UNCHANGED <<rc, refcnt, stack, args, work, off, result>>

Floor == IF work = <<>> THEN 0 ELSE Head(work).floor

FREETMPS ==
  /\ Len(tmps) > Floor
  /\ work' = <<FreeTmps(Floor)>> \o work
  /\ UNCHANGED <<rc, refcnt, stack, tmps, temp, own, args, off, result>>

(* A call moves the topmost items, references included, into @_.           *)
EnterSub(n) ==
  /\ work = <<>> /\ args = <<>>
  /\ n \in 1 .. SP
  /\ args' = SubSeq(stack, SP - n + 1, SP)
  /\ stack' = Upto(SP - n) /\ result' = Upto(SP - n)
  /\ UNCHANGED <<rc, refcnt, tmps, temp, own, work, off>>

clear_defarray_simple ==
  /\ work = <<>> /\ args # <<>>
  /\ IF rc
     THEN work' = <<ClearArgs>> /\ UNCHANGED args
     ELSE args' = <<>> /\ UNCHANGED work
  /\ UNCHANGED <<rc, refcnt, stack, tmps, temp, own, off, result>>

-----------------------------------------------------------------------------
(* The steps of the suspended functions.                                   *)

(* The last reference starts the destructor, on a new stack.  Freeing a    *)
(* freed SV gives a warning.                                               *)
SvREFCNT_dec ==
  /\ AtStep("dec")
  /\ LET s == Head(work).sv
     IN IF s = Undef
        THEN work' = Tail(work) /\ UNCHANGED <<refcnt, off>>
        ELSE IF refcnt[s] = 1
        THEN /\ refcnt' = [refcnt EXCEPT ![s] = 0]
             /\ work' = <<Destroy(s)>> \o Tail(work)
             /\ UNCHANGED off
        ELSE /\ refcnt' = [refcnt EXCEPT ![s] = IF @ = 0 THEN 0 ELSE @ - 1]
             /\ off' = IF refcnt[s] = 0 THEN Inc(off, s) ELSE off
             /\ work' = Tail(work)
  /\ UNCHANGED <<rc, stack, tmps, temp, own, args, result>>

PopToStep ==
  /\ AtStep("popto")
  /\ IF SP > Head(work).n
     THEN stack' = Upto(SP - 1) /\ work' = <<Dec(stack[SP])>> \o work
     ELSE work' = Tail(work) /\ UNCHANGED stack
  /\ UNCHANGED <<rc, refcnt, tmps, temp, own, args, off, result>>

DropStep ==
  /\ AtStep("drop")
  /\ stack' = Upto(SP - 1)
  /\ work' = Tail(work)
  /\ UNCHANGED <<rc, refcnt, tmps, temp, own, args, off, result>>

PushUndefStep ==
  /\ AtStep("push_undef")
  /\ stack' = Append(stack, Undef)
  /\ work' = Tail(work)
  /\ UNCHANGED <<rc, refcnt, tmps, temp, own, args, off, result>>

FreeTmpsStep ==
  /\ AtStep("freetmps")
  /\ IF Len(tmps) > Head(work).n
     THEN /\ tmps' = Front(tmps)
          /\ temp' = temp \ {Last(tmps)}
          /\ work' = <<Dec(Last(tmps))>> \o work
     ELSE work' = Tail(work) /\ UNCHANGED <<tmps, temp>>
  /\ UNCHANGED <<rc, refcnt, stack, own, args, off, result>>

(* From the last element down; each is taken out before it is freed.       *)
ClearArgsStep ==
  /\ AtStep("clear")
  /\ IF args # <<>>
     THEN args' = Front(args) /\ work' = <<Dec(Last(args))>> \o work
     ELSE work' = Tail(work) /\ UNCHANGED args
  /\ UNCHANGED <<rc, refcnt, stack, tmps, temp, own, off, result>>

(* The destructor returns: pop_stackinfo.                                  *)
EndDestructor ==
  /\ AtStep("destroy")
  /\ SP = Head(work).base /\ Len(tmps) = Head(work).floor
  /\ work' = Tail(work)
  /\ UNCHANGED <<rc, refcnt, stack, tmps, temp, own, args, off, result>>

(* References that only the C locals of suspended functions stand for: of  *)
(* all of them, or of the _NN helpers.                                     *)
HeldFast(s) == Counted(work, FastDec(s)) - Counted(work, Drop(s))
Held(s)     == Counted(work, Dec(s)) + HeldFast(s)

(* The destructor exits: no suspended function continues.  POPSTACK_TO     *)
(* clears and leaves each inner stack, then the outermost one, @_ and the  *)
(* temps are cleared and the program is over.                              *)
Throw ==
  /\ Throws /\ AtStep("destroy")
  /\ Last(work) # Exit                       \* bound: one exit
  /\ work' = (IF rc THEN <<PopTo(0), ClearArgs>> ELSE <<>>) \o <<FreeTmps(0), Exit>>
  /\ off' = [s \in SVs |-> off[s] + HeldFast(s)]
  /\ IF rc THEN UNCHANGED <<stack, args>> ELSE stack' = <<>> /\ args' = <<>>
  /\ result' = <<>>
  /\ UNCHANGED <<rc, refcnt, tmps, temp, own>>

-----------------------------------------------------------------------------
UseHelper ==
  \/ \E n \in Base .. SP : rpp_popfree_to(n)
  \/ rpp_popfree_1 \/ rpp_popfree_2 \/ rpp_popfree_2_NN
  \/ rpp_push_IMM \/ rpp_replace_1_IMM_NN \/ rpp_replace_2_IMM_NN
  \/ rpp_pop_1_norc
  \/ \E s \in Reachable :
       \/ rpp_push_1(s) \/ rpp_replace_1_1(s)
       \/ rpp_replace_2_1(s) \/ rpp_replace_2_1_NN(s)
       \/ rpp_push_1_norc(s)
       \/ \E u \in Reachable : rpp_push_2(s, u)
       \/ \E i \in Base + 1 .. SP : rpp_replace_at(i, s) \/ rpp_replace_at_norc(i, s)
  \/ \E mark \in Base .. SP, gimme \in {"G_VOID", "G_SCALAR", "G_LIST"}, extra \in 0 .. 1 :
       rpp_context(mark, gimme, extra)

Caller ==
  \/ \E s \in SVs : NewSV(s) \/ Forget(s) \/ Mortalise(s)
  \/ FREETMPS
  \/ \E n \in 1 .. SP : EnterSub(n)
  \/ clear_defarray_simple

Continue ==
  \/ SvREFCNT_dec \/ PopToStep \/ DropStep \/ PushUndefStep \/ FreeTmpsStep
  \/ ClearArgsStep \/ EndDestructor \/ Throw

Next == (Running /\ (UseHelper \/ Caller)) \/ Continue

Spec == Init /\ [][Next]_vars

-----------------------------------------------------------------------------
Holders(s) ==
  own[s] + Counted(tmps, s) + Held(s)
    + (IF rc THEN Counted(stack, s) + Counted(args, s) ELSE 0)

(* At every moment, the middle of a destructor included, the count of each *)
(* SV is the number of references to it: none is freed while something     *)
(* refers to it and none outlives its last reference.  Only the _NN        *)
(* helpers for two SVs may be off, when the two are one SV or when a       *)
(* destructor throws; no other helper loses a reference to a throw.        *)
CountsAgree == \A s \in SVs : refcnt[s] = Holders(s) + off[s]

(* Seeded bug: a mortal on an uncounted stack may have two.               *)
rpp_is_lone_Mortal(s) ==
  s \in SVs /\ refcnt[s] <= (IF s \in temp THEN 2 ELSE 1)

rpp_is_lone(s) ==
  s \in SVs /\ refcnt[s] <= (IF s \in temp THEN 1 ELSE 0) + (IF rc THEN 1 ELSE 0)

(* The value of an SV that rpp_is_lone approves may be stolen: no variable *)
(* sees it, and on a counted stack no other slot and no @_ either.         *)
LoneIsStealable ==
  Running => \A s \in ToSet(Current) \cap SVs :
    refcnt[s] > 0 /\ off[s] = 0 /\ rpp_is_lone(s) =>
      own[s] = 0 /\ (rc => Counted(stack, s) + Held(s) = 1 /\ Counted(args, s) = 0)

(* When a helper that the program called has returned, the stack is as the *)
(* documentation says, in both builds and whatever destructors did.        *)
AsDocumented == work = <<>> \/ work = <<Exit>> => stack = result

(* Popping two SVs with an _NN helper leaves the counts as popping them    *)
(* with the helper it is a variant of.                                     *)
FastAsSlow == work = <<>> => \A s \in SVs : off[s] = 0

=============================================================================
