--------------------------- MODULE CxStackProofs ----------------------------
(***************************************************************************)
(* Theorems about CxStack for any subs and any bounds.                     *)
(*                                                                         *)
(* The invariant has three parts.  Structure says how the three stacks fit:*)
(* which C function may run on top of which, which of them each stackinfo  *)
(* belongs to, where a stackinfo may be empty, and which runloop an eval   *)
(* belongs to.  Data says what the contexts have recorded: each field of a *)
(* context is what was in force when it was entered, also the fields that  *)
(* its type does not use.  Callers says what si_cxsubix and the values of  *)
(* it that contexts have saved stand for.                                  *)
(***************************************************************************)
EXTENDS CxStack, SequenceTheorems, FiniteSetTheorems, WellFoundedInduction, TLAPS

nCx == Len(cxstack)
nSI == Len(si)
nC  == Len(cstack)

Kind(k) == cstack[k].kind

(* The number of contexts up to the last one of stackinfo i.               *)
End(i) == IF i = nSI THEN nCx ELSE si[i + 1].base

FrameKind(i) == Kind(si[i].frame)

-----------------------------------------------------------------------------
(* The structure of the stacks.                                            *)

(* What the integers and the fields are, for the provers.                  *)
Sizes ==
  /\ nCx \in Nat /\ nSI \in Nat /\ nC \in Nat
  /\ \A j \in 1 .. nCx : /\ cxstack[j].type \in Subs \cup Evals \cup {"FORMAT", "LOOP"}
                         /\ cxstack[j].oldsaveix \in Nat /\ cxstack[j].loop \in Nat
                         /\ cxstack[j].cur_top_env \in Nat
  /\ \A i \in 1 .. nSI : si[i].base \in Nat /\ si[i].frame \in Nat
  /\ \A k \in 1 .. nC : Kind(k) \in {"run", "multicall", "leave", "die"} /\ cstack[k].to \in Nat

(* Which C function calls which.  A callback that is suspended runs ops or *)
(* waits for the scope that POP_MULTICALL leaves.                          *)
Frames ==
  /\ nC >= 1 /\ Kind(1) = "run"
  /\ \A k \in 1 .. nC :
       /\ cstack[k].on => Kind(k) = "multicall"
       /\ k > 1 /\ Kind(k) = "run" => Kind(k - 1) \in {"leave", "multicall"}
       /\ Kind(k) = "leave" => Kind(k - 1) \in {"run", "multicall", "die"}
       /\ Kind(k) \in {"multicall", "die"} => Kind(k - 1) \in {"run", "multicall"}
       /\ k < nC /\ Kind(k) = "multicall" => cstack[k].on \/ Kind(k + 1) = "leave"
       /\ k < nC /\ Kind(k) = "leave" => Kind(k + 1) = "run"
       /\ k < nC /\ Kind(k) = "die" => Kind(k + 1) = "leave"

(* je_mustcatch is set where the next function up is a callback.           *)
Catches ==
  \A k \in 1 .. nC :
    /\ Kind(k) = "run" => (cstack[k].mustcatch <=> k < nC /\ Kind(k + 1) = "multicall")
    /\ Kind(k) = "multicall" => (cstack[k].oldcatch <=> Kind(k - 1) = "multicall")

Owned(k) == \E i \in 1 .. nSI : si[i].frame = k

(* Each stackinfo belongs to the main program, a callback or a destructor, *)
(* in the order in which these were called.                                *)
Infos ==
  /\ nSI >= 1 /\ si[1].base = 0 /\ si[1].frame = 1
  /\ \A i \in 1 .. nSI :
       /\ si[i].frame <= nC /\ si[i].base <= nCx
       /\ i > 1 => \/ FrameKind(i) = "multicall"
                   \/ FrameKind(i) = "run" /\ Kind(si[i].frame - 1) = "leave"
       /\ \A l \in 1 .. nSI : i < l => si[i].frame < si[l].frame /\ si[i].base <= si[l].base

(* Each callback and destructor has one, but callbacks that a die above    *)
(* them has left, with nothing else but callbacks between.                 *)
Owners ==
  \A k \in 2 .. nC :
    Kind(k) = "multicall" \/ (Kind(k) = "run" /\ Kind(k - 1) = "leave") =>
      \/ Owned(k)
      \/ /\ Kind(k) = "multicall"
         /\ \E d \in k + 1 .. nC : Kind(d) = "die" /\ \A q \in k .. d : ~Owned(q)

(* The first context of a stackinfo; which stackinfo may have none.        *)
Bottoms ==
  \A i \in 1 .. nSI :
    /\ si[i].base < End(i) =>
         IF i = 1 THEN cxstack[1].type # "MULTI"
         ELSE cxstack[si[i].base + 1].type = IF FrameKind(i) = "run" THEN "EVAL" ELSE "MULTI"
    /\ i > 1 /\ si[i].base = End(i) =>
         /\ i = nSI
         /\ IF FrameKind(i) = "run" THEN si[i].frame = nC ELSE Kind(nC) = "die"

(* Function k has been called by POP_MULTICALL.                            *)
Ends(k) == Kind(k - 1) = "multicall" /\ ~cstack[k - 1].on

(* Function k leaves context e, the last one of stackinfo i: the first one *)
(* of it for POP_MULTICALL, and not the first one unless a die does.       *)
Leaving(k, i, e) ==
  /\ e > si[i].base
  /\ Ends(k) => e = si[i].base + 1
  /\ i > 1 /\ Kind(k - 1) # "die" /\ ~Ends(k) => e > si[i].base + 1
  /\ cxstack[e].oldsaveix = cstack[k].to

Leavings ==
  /\ Kind(nC) = "leave" => Leaving(nC, nSI, nCx)
  /\ \A i \in 2 .. nSI : FrameKind(i) = "run" => Leaving(si[i].frame - 1, i - 1, si[i].base)

(* Between two calls of MULTICALL only the sub's context is there.         *)
Idle == Kind(nC) = "multicall" /\ ~cstack[nC].on => nCx = si[nSI].base + 1

(* Below each die there is the runloop of an eval.                         *)
Dies ==
  \A d \in 1 .. nC : Kind(d) = "die" =>
     \E j \in 1 .. nCx : cxstack[j].type \in Evals /\ cxstack[j].loop < d

(* The runloop of the ops on stackinfo i: docatch starts one in a callback.*)
LoopOf(i) == IF FrameKind(i) = "run" THEN si[i].frame ELSE si[i].frame + 1

InPlace(j) ==
  /\ cxstack[j].cur_top_env = cxstack[j].loop
  /\ cxstack[j].loop \in 1 .. nC /\ Kind(cxstack[j].loop) = "run"
  /\ \A l \in j .. nCx : cxstack[l].type \in Evals => cxstack[j].loop <= cxstack[l].loop
  /\ \A i \in 1 .. nSI :
       /\ j <= si[i].base => cxstack[j].loop < si[i].frame
       /\ si[i].base < j /\ j <= End(i) => cxstack[j].loop = LoopOf(i)

EvalLoops == \A j \in 1 .. nCx : cxstack[j].type \in Evals => InPlace(j)

Structure ==
  /\ Sizes /\ Frames /\ Catches /\ Infos /\ Owners /\ Bottoms /\ Leavings /\ Idle
  /\ Dies /\ EvalLoops

-----------------------------------------------------------------------------
(* What the contexts have recorded.                                        *)

(* What was in force when context j was entered; for the next one to come, *)
(* what is in force now.                                                   *)
PadAt(j)   == IF j <= nCx THEN cxstack[j].prevcomppad ELSE comppad
FlagsAt(j) == IF j <= nCx THEN cxstack[j].old_in_eval ELSE in_eval
TopicAt(j) == IF j <= nCx THEN cxstack[j].itersave ELSE topic
DefavAt(j) == IF j <= nCx THEN cxstack[j].savearray ELSE defav
MarksAt(j) == IF j <= nCx THEN cxstack[j].oldmarksp ELSE marks
SavesAt(j) == IF j <= nCx THEN cxstack[j].oldsaveix ELSE Len(saves)

(* A context changes only what its type saves.                             *)
Changes(j) ==
  /\ IF cxstack[j].type \in Subs \cup {"FORMAT"} THEN cxstack[j].cv \in CVs ELSE cxstack[j].cv = Main
  /\ cxstack[j].hasargs => cxstack[j].type = "SUB"
  /\ cxstack[j].cv = Main => PadAt(j + 1) = PadAt(j)
  /\ cxstack[j].type \notin Evals => FlagsAt(j + 1) = FlagsAt(j)
  /\ cxstack[j].type # "LOOP" => TopicAt(j + 1) = TopicAt(j)
  /\ ~cxstack[j].hasargs => DefavAt(j + 1) = DefavAt(j)

Recorded == \A j \in 1 .. nCx : Changes(j)

(* The savestack holds the entries of each context in turn, and those that *)
(* were made while a context was the topmost one name its pad.             *)
Savestack ==
  \A j \in 1 .. nCx : /\ SavesAt(j) <= Len(saves)
                      /\ \A l \in j .. nCx : SavesAt(j) <= SavesAt(l)

PadsSaved ==
  \A j \in 1 .. nCx + 1 : \A p \in 1 .. Len(saves) :
    (j > 1 => SavesAt(j - 1) < p) /\ p <= SavesAt(j) => saves[p] = PadAt(j)

CallsBelow(cv, j) == {l \in 1 .. j : cxstack[l].cv = cv}

Depths ==
  /\ \A cv \in CVs : depth[cv] = Cardinality(CallsBelow(cv, nCx)) /\ refs[cv] = depth[cv]
  /\ \A j \in 1 .. nCx : cxstack[j].type \in Subs =>
       cxstack[j].olddepth = Cardinality(CallsBelow(cxstack[j].cv, j - 1))

Data == Recorded /\ Savestack /\ PadsSaved /\ Depths

(* x is the index, counted from b, of the topmost sub, eval or format in   *)
(* b + 1 .. e.                                                             *)
Caller(j) == cxstack[j].type \notin {"LOOP", "TRY"}

IsTopmost(x, b, e) ==
  \/ x = -1 /\ \A j \in b + 1 .. e : ~Caller(j)
  \/ x >= 0 /\ b + x + 1 <= e /\ Caller(b + x + 1) /\ \A j \in b + x + 2 .. e : ~Caller(j)

Callers ==
  \A i \in 1 .. nSI :
    /\ IsTopmost(si[i].cxsubix, si[i].base, End(i))
    /\ \A j \in si[i].base + 1 .. End(i) :
         IsTopmost(cxstack[j].old_cxsubix, si[i].base, j - 1)

IInv == TypeOK /\ Structure /\ Data /\ Callers

-----------------------------------------------------------------------------
(* Sets of numbers have a least, and bounded ones a greatest element.      *)
LEMMA LeastExists ==
  ASSUME NEW T, T \subseteq Nat, T # {}
  PROVE  \E x \in T : \A y \in T : x <= y
<1>1. PICK x \in T : \A y \in T : <<y, x>> \notin OpToRel(<, Nat)
  BY WFMin, NatLessThanWellFounded, Zenon
<1>2. \A y \in T : ~(y < x)
  BY <1>1, Zenon DEF OpToRel
<1> QED
  BY <1>2

LEMMA GreatestExists ==
  ASSUME NEW n \in Nat, NEW T, T \subseteq 1 .. n, T # {}
  PROVE  \E x \in T : \A y \in T : y <= x
<1> DEFINE U == {m \in Nat : n - m \in T}
<1>1. U \subseteq Nat /\ U # {}
  <2>1. PICK x \in T : TRUE
    OBVIOUS
  <2>2. n - x \in Nat /\ n - (n - x) = x
    BY <2>1
  <2> QED
    BY <2>1, <2>2
<1>2. PICK u \in U : \A y \in U : u <= y
  BY <1>1, LeastExists
<1>3. n - u \in T
  OBVIOUS
<1>4. \A y \in T : y <= n - u
  <2> TAKE y \in T
  <2>1. n - y \in Nat /\ n - (n - y) = y /\ y \in Nat /\ u \in Nat
    OBVIOUS
  <2>2. n - y \in U
    BY <2>1
  <2>3. u <= n - y
    BY <2>2, <1>2
  <2> HIDE DEF U
  <2> QED
    BY <2>1, <2>3
<1> QED
  BY <1>3, <1>4

(* The current stackinfo belongs to the topmost function that has one.     *)
CurrentIsLast ==
  /\ nSI \in Nat \ {0} /\ nC \in Nat \ {0} /\ si[nSI].frame \in 1 .. nC
  /\ \A i \in 1 .. nSI : /\ si[i].frame \in 1 .. si[nSI].frame
                         /\ i < nSI => si[i].frame < si[nSI].frame
                         /\ si[i].base \in 0 .. si[nSI].base

LEMMA LastInfo ==
  ASSUME Sizes, Infos
  PROVE  CurrentIsLast
<1>1. nSI \in Nat \ {0} /\ nC \in Nat /\ 1 \in 1 .. nSI /\ nSI \in 1 .. nSI
  BY DEF Sizes, Infos
<1>2. \A i \in 1 .. nSI : si[i].frame \in Nat /\ si[i].base \in Nat /\ si[i].frame <= nC
  BY DEF Sizes, Infos
<1>3. \A i, l \in 1 .. nSI : i < l => si[i].frame < si[l].frame /\ si[i].base <= si[l].base
  BY DEF Infos
<1>4. \A i \in 1 .. nSI : si[i].frame >= 1
  <2> TAKE i \in 1 .. nSI
  <2>1. si[1].frame = 1 /\ (i = 1 \/ 1 < i)
    BY <1>1 DEF Infos
  <2> QED
    BY <1>1, <1>2, <1>3, <2>1
<1>5. \A i \in 1 .. nSI : i < nSI \/ i = nSI
  BY <1>1
<1> QED
  BY <1>1, <1>2, <1>3, <1>4, <1>5 DEF CurrentIsLast

(* There is a JMPENV, and the topmost one is below no other runloop.       *)
LEMMA TopEnvIs ==
  ASSUME Sizes, Frames, DOMAIN cstack = 1 .. nC
  PROVE  /\ TopEnv \in 1 .. nC /\ Kind(TopEnv) = "run"
         /\ \A k \in TopEnv + 1 .. nC : Kind(k) # "run"
<1> DEFINE T == {k \in 1 .. nC : Kind(k) = "run"}
<1>1. nC \in Nat /\ 1 \in T
  BY DEF Sizes, Frames
<1>2. PICK x \in T : \A y \in T : y <= x
  <2>1. T # {}
    BY <1>1
  <2>2. T \subseteq 1 .. nC
    OBVIOUS
  <2> HIDE DEF T
  <2> QED
    BY <1>1, <2>1, <2>2, GreatestExists
<1>3. x \in DOMAIN cstack /\ cstack[x].kind = "run" /\ \A j \in x + 1 .. Len(cstack) : cstack[j].kind # "run"
  BY <1>1, <1>2 DEF nC, Kind
<1> QED
  BY <1>3 DEF TopEnv, nC, Kind

(* Where ops run, or a callback is idle, the topmost function is the one   *)
(* of the current stackinfo or a runloop that docatch has started in it.   *)
LEMMA CurrentFunction ==
  ASSUME Sizes, Frames, Infos, Owners, NEW t \in 1 .. nC, Kind(t) \in {"run", "multicall"},
         \A k \in t + 1 .. nC : Kind(k) = "leave"
  PROVE  \/ t = si[nSI].frame
         \/ /\ t = si[nSI].frame + 1 /\ FrameKind(nSI) = "multicall" /\ Kind(t) = "run"
<1> DEFINE f == si[nSI].frame
<1>1. /\ nSI \in Nat \ {0} /\ nC \in Nat \ {0} /\ f \in 1 .. nC
      /\ \A k \in f + 1 .. nC : ~Owned(k)
      /\ Owned(f) /\ Kind(f) # "leave"
  <2>l. CurrentIsLast
    BY LastInfo
  <2>1. /\ nSI \in Nat \ {0} /\ nC \in Nat \ {0} /\ f \in 1 .. nC
    BY <2>l DEF CurrentIsLast
  <2>2. \A i \in 1 .. nSI : si[i].frame <= f
    BY <2>l DEF CurrentIsLast
  <2>3. Kind(f) # "leave"
    BY <2>1 DEF Frames, Infos, FrameKind
  <2> QED
    BY <2>1, <2>2, <2>3 DEF Owned
<1>2. f <= t
  BY <1>1
<1>3. CASE t > f /\ Kind(t) = "multicall"
  <2>1. PICK d \in t + 1 .. nC : Kind(d) = "die"
    BY <1>1, <1>3 DEF Owners
  <2> QED
    BY <2>1
<1>4. CASE t > f /\ Kind(t) = "run"
  <2>1. t > 1 /\ Kind(t - 1) = "multicall"
    BY <1>1, <1>4 DEF Owners, Frames
  <2>2. CASE t - 1 > f
    <3>1. t - 1 \in 2 .. nC /\ ~Owned(t - 1)
      BY <1>1, <2>2
    <3>2. PICK d \in (t - 1) + 1 .. nC : Kind(d) = "die"
      BY <2>1, <3>1 DEF Owners
    <3>3. d = t \/ d \in t + 1 .. nC
      BY <1>1
    <3> QED
      BY <3>2, <3>3, <1>4
  <2>3. CASE ~(t - 1 > f)
    <3>1. t - 1 = f
      BY <2>3, <1>4, <1>1
    <3> QED
      BY <3>1, <2>1, <1>1, <1>4 DEF FrameKind
  <2> QED
    BY <2>2, <2>3
<1> QED
  BY <1>1, <1>2, <1>3, <1>4

LEMMA TopIsCurrent ==
  ASSUME Sizes, Frames, Infos, Owners, Kind(nC) \in {"run", "multicall"}
  PROVE  \/ nC = si[nSI].frame
         \/ /\ nC = si[nSI].frame + 1 /\ FrameKind(nSI) = "multicall" /\ Kind(nC) = "run"
<1>1. nC \in 1 .. nC /\ nC + 1 .. nC = {}
  BY DEF Sizes, Frames
<1> QED
  BY <1>1, CurrentFunction

-----------------------------------------------------------------------------
(* What steps do to the stacks.                                            *)

KeepsContexts(n) == \A j \in 1 .. n : cxstack'[j] = cxstack[j]
KeepsInfos(n)    == \A i \in 1 .. n : si'[i].base = si[i].base /\ si'[i].frame = si[i].frame
KeepsCatches(n)  == \A k \in 1 .. n : cstack'[k].mustcatch <=> cstack[k].mustcatch
KeepsFunctions(n) ==
  \A k \in 1 .. n : /\ cstack'[k].kind = cstack[k].kind /\ cstack'[k].to = cstack[k].to
                    /\ cstack'[k].on <=> cstack[k].on
                    /\ cstack'[k].oldcatch <=> cstack[k].oldcatch

IsContext(c) ==
  /\ c.type \in Subs \cup Evals \cup {"FORMAT", "LOOP"}
  /\ c.oldsaveix \in Nat /\ c.loop \in Nat /\ c.cur_top_env \in Nat

(* Ops run: on the stackinfo of a callback or destructor there is a        *)
(* context.                                                                *)
OpsRun ==
  /\ Kind(nC) \in {"run", "multicall"}
  /\ Kind(nC) = "multicall" => cstack[nC].on
  /\ nSI > 1 => nCx > si[nSI].base

(* A context is pushed, for an eval in a callback by docatch.              *)
EntersContext(c) ==
  /\ OpsRun
  /\ nCx' = nCx + 1 /\ KeepsContexts(nCx) /\ cxstack'[nCx + 1] = c
  /\ IsContext(c) /\ c.type # "MULTI"
  /\ nSI' = nSI /\ KeepsInfos(nSI)
  /\ KeepsFunctions(nC) /\ KeepsCatches(nC)
  /\ \/ nC' = nC
     \/ /\ nC' = nC + 1 /\ Kind(nC) = "multicall"
        /\ cstack'[nC + 1] = Frame("run")
  /\ c.type \in Evals => c.cur_top_env = nC' /\ c.loop = nC' /\ cstack'[nC'].kind = "run"

LEMMA EnterContextStructure ==
  ASSUME NEW c, Structure, EntersContext(c)
  PROVE  Structure'
<1>s. /\ nCx \in Nat /\ nSI \in Nat \ {0} /\ nC \in Nat \ {0} /\ nSI' = nSI /\ nCx' = nCx + 1
      /\ nC' \in {nC, nC + 1}
  BY DEF Structure, Sizes, Frames, Infos, EntersContext, Kind
<1>k. \A k \in 1 .. nC : /\ Kind(k)' = Kind(k) /\ cstack'[k].to = cstack[k].to
                         /\ cstack'[k].on <=> cstack[k].on
                         /\ cstack'[k].oldcatch <=> cstack[k].oldcatch
                         /\ cstack'[k].mustcatch <=> cstack[k].mustcatch
  BY DEF EntersContext, KeepsFunctions, KeepsCatches, Kind
<1>t. nC' = nC + 1 => /\ Kind(nC) = "multicall" /\ cstack'[nC + 1].kind = "run"
                      /\ ~cstack'[nC + 1].on /\ ~cstack'[nC + 1].mustcatch
                      /\ cstack'[nC + 1].to = 0
  BY <1>s DEF EntersContext, Frame, Kind
<1>i. \A i \in 1 .. nSI : si'[i].base = si[i].base /\ si'[i].frame = si[i].frame
  BY DEF EntersContext, KeepsInfos
<1>j. (\A j \in 1 .. nCx : cxstack'[j] = cxstack[j]) /\ cxstack'[nCx + 1] = c
  BY DEF EntersContext, KeepsContexts
<1>r. /\ Kind(nC) \in {"run", "multicall"} /\ (Kind(nC) = "multicall" => cstack[nC].on)
      /\ nSI > 1 => nCx > si[nSI].base
  BY DEF EntersContext, OpsRun
<1>c. /\ c.type # "MULTI"
      /\ c.type \in Evals => c.cur_top_env = nC' /\ c.loop = nC' /\ cstack'[nC'].kind = "run"
  BY DEF EntersContext
<1>z. Sizes /\ Frames /\ Catches /\ Infos /\ Owners /\ Bottoms /\ Leavings /\ Idle /\ Dies /\ EvalLoops
  BY DEF Structure
<1>x. CurrentIsLast
  BY <1>z, LastInfo
<1>1. Sizes'
  <2>1. \A j \in 1 .. nCx' : /\ cxstack'[j].type \in Subs \cup Evals \cup {"FORMAT", "LOOP"}
                             /\ cxstack'[j].oldsaveix \in Nat /\ cxstack'[j].loop \in Nat
                             /\ cxstack'[j].cur_top_env \in Nat
    <3> TAKE j \in 1 .. nCx'
    <3>1. CASE j = nCx + 1
      BY <1>j, <3>1 DEF EntersContext, IsContext
    <3>2. CASE j \in 1 .. nCx
      BY <1>j, <3>2 DEF Structure, Sizes, Kind
    <3> QED
      BY <1>s, <3>1, <3>2
  <2>2. \A k \in 1 .. nC' : Kind(k)' \in {"run", "multicall", "leave", "die"} /\ cstack'[k].to \in Nat
    BY <1>s, <1>k, <1>t DEF Structure, Sizes, Kind
  <2>3. \A i \in 1 .. nSI' : si'[i].base \in Nat /\ si'[i].frame \in Nat
    BY <1>s, <1>i DEF Structure, Sizes, Kind
  <2> QED
    BY <1>s, <2>1, <2>2, <2>3 DEF Sizes
<1>2. Frames'
  <2>1. \A k \in 1 .. nC' : k = nC + 1 \/ k \in 1 .. nC
    BY <1>s
  <2>2. CASE nC' = nC
    BY <1>s, <1>z, <1>k, <2>2 DEF Frames, Kind
  <2>3. CASE nC' = nC + 1
    BY <1>s, <1>z, <1>k, <1>t, <1>r, <2>1, <2>3 DEF Frames, Kind
  <2> QED
    BY <1>s, <2>2, <2>3
<1>3. Catches'
  <2> SUFFICES ASSUME NEW k \in 1 .. nC'
               PROVE  /\ Kind(k)' = "run" =>
                            (cstack'[k].mustcatch <=> k < nC' /\ cstack'[k + 1].kind = "multicall")
                      /\ Kind(k)' = "multicall" =>
                            (cstack'[k].oldcatch <=> cstack'[k - 1].kind = "multicall")
    BY DEF Catches, Kind
  <2>1. CASE k = nC + 1
    BY <1>s, <1>t, <2>1 DEF Kind
  <2>2. CASE k \in 1 .. nC
    <3>1. k < nC => cstack'[k + 1].kind = Kind(k + 1)
      BY <1>s, <1>k, <2>2 DEF Kind
    <3>2. k > 1 => cstack'[k - 1].kind = Kind(k - 1)
      BY <1>s, <1>k, <2>2 DEF Kind
    <3>3. k = nC /\ k < nC' => Kind(k) = "multicall"
      BY <1>s, <1>t
    <3>4. Kind(k) = "multicall" => k > 1
      BY <1>s, <1>z, <2>2 DEF Frames
    <3>5. /\ Kind(k) = "run" => (cstack[k].mustcatch <=> k < nC /\ Kind(k + 1) = "multicall")
          /\ Kind(k) = "multicall" => (cstack[k].oldcatch <=> Kind(k - 1) = "multicall")
      BY <1>z, <2>2 DEF Catches
    <3>6. /\ Kind(k)' = Kind(k) /\ (cstack'[k].oldcatch <=> cstack[k].oldcatch)
          /\ cstack'[k].mustcatch <=> cstack[k].mustcatch
      BY <1>k, <2>2
    <3> QED
      BY <1>s, <2>2, <3>1, <3>2, <3>3, <3>4, <3>5, <3>6
  <2> QED
    BY <1>s, <2>1, <2>2
<1>4. Infos'
  <2>1. \A i \in 1 .. nSI : si[i].frame \in 1 .. nC /\ (i > 1 => si[i].frame - 1 \in 1 .. nC)
    <3> TAKE i \in 1 .. nSI
    <3>1. si[i].frame \in 1 .. nC
      BY <1>x DEF CurrentIsLast
    <3>2. i > 1 => si[i].frame > 1
      BY <1>s, <1>z DEF Infos, Sizes
    <3> QED
      BY <1>s, <3>1, <3>2
  <2>2. nSI >= 1 /\ si'[1].base = 0 /\ si'[1].frame = 1
    BY <1>s, <1>z, <1>i DEF Infos
  <2>3. \A i \in 1 .. nSI : si'[i].frame <= nC' /\ si'[i].base <= nCx'
    BY <1>s, <1>z, <1>i, <2>1 DEF Infos, Sizes
  <2>4. \A i \in 1 .. nSI : i > 1 =>
          \/ cstack'[si'[i].frame].kind = "multicall"
          \/ cstack'[si'[i].frame].kind = "run" /\ cstack'[si'[i].frame - 1].kind = "leave"
    BY <1>z, <1>k, <1>i, <2>1 DEF Infos, FrameKind, Kind
  <2>5. \A i, l \in 1 .. nSI : i < l => si'[i].frame < si'[l].frame /\ si'[i].base <= si'[l].base
    BY <1>z, <1>i DEF Infos
  <2> QED
    BY <1>s, <2>2, <2>3, <2>4, <2>5 DEF Infos, FrameKind, Kind
<1>o. \A k : Owned(k)' <=> Owned(k)
  BY <1>s, <1>i DEF Owned
<1>5. Owners'
  BY <1>s, <1>k, <1>t, <1>o DEF Structure, Sizes, Frames, Owners, Kind
<1>e. \A i \in 1 .. nSI : End(i)' = IF i = nSI THEN nCx + 1 ELSE End(i)
  BY <1>s, <1>i DEF End
<1>m. \A i \in 1 .. nSI : FrameKind(i)' = FrameKind(i)
  BY <1>s, <1>z, <1>i, <1>k DEF Infos, FrameKind, Kind, Sizes
<1>l. \A i \in 1 .. nSI : i < nSI => End(i) \in Nat /\ End(i) <= nCx
  BY <1>s, <1>z DEF End, Infos, Sizes
<1>6. Bottoms'
  <2> SUFFICES ASSUME NEW i \in 1 .. nSI
               PROVE  /\ si[i].base < End(i)' =>
                           IF i = 1 THEN cxstack'[1].type # "MULTI"
                           ELSE cxstack'[si[i].base + 1].type = IF FrameKind(i) = "run" THEN "EVAL" ELSE "MULTI"
                      /\ i > 1 /\ si[i].base = End(i)' =>
                           i = nSI /\ IF FrameKind(i) = "run" THEN si[i].frame = nC' ELSE cstack'[nC'].kind = "die"
    BY <1>s, <1>i, <1>m DEF Bottoms, Kind, End, FrameKind
  <2>4. CASE i < nSI
    BY <1>s, <1>z, <1>j, <1>e, <1>l, <2>4 DEF Bottoms, Sizes, Infos
  <2>5. CASE i = nSI /\ i > 1
    BY <1>s, <1>z, <1>j, <1>r, <1>e, <2>5 DEF Bottoms, Sizes, Infos, End
  <2>6. CASE i = nSI /\ i = 1
    BY <1>s, <1>z, <1>j, <1>c, <1>e, <2>6 DEF Bottoms, Sizes, Infos, End
  <2> QED
    BY <1>s, <2>4, <2>5, <2>6
<1>7. Leavings'
  <2>1. Kind(nC)' # "leave"
    BY <1>s, <1>k, <1>t, <1>r DEF Kind
  <2>2. ASSUME NEW i \in 2 .. nSI, FrameKind(i) = "run"
        PROVE  Leaving(si[i].frame - 1, i - 1, si[i].base)'
    <3>1. Leaving(si[i].frame - 1, i - 1, si[i].base)
      BY <1>z, <2>2 DEF Leavings
    <3>2. /\ si[i].base \in 1 .. nCx
          /\ si[i].frame - 1 \in 2 .. nC /\ si[i].frame - 1 - 1 \in 1 .. nC
      BY <1>s, <1>z, <2>2, <3>1 DEF Leaving, Infos, Sizes, Frames, FrameKind, Kind
    <3>3. /\ si'[i].frame = si[i].frame /\ si'[i].base = si[i].base /\ si'[i - 1].base = si[i - 1].base
          /\ cxstack'[si[i].base] = cxstack[si[i].base]
          /\ cstack'[si[i].frame - 1].to = cstack[si[i].frame - 1].to
          /\ cstack'[si[i].frame - 1 - 1].kind = cstack[si[i].frame - 1 - 1].kind
          /\ cstack'[si[i].frame - 1 - 1].on <=> cstack[si[i].frame - 1 - 1].on
      BY <1>s, <1>i, <1>j, <1>k, <2>2, <3>2 DEF Kind
    <3> QED
      BY <3>1, <3>3 DEF Leaving, Ends, Kind
  <2> QED
    BY <1>s, <1>m, <2>1, <2>2 DEF Leavings
<1>8. Idle'
  BY <1>s, <1>k, <1>t, <1>r DEF Idle, Kind
<1>9. Dies'
  <2> SUFFICES ASSUME NEW d \in 1 .. nC', cstack'[d].kind = "die"
               PROVE  \E j \in 1 .. nCx' : cxstack'[j].type \in Evals /\ cxstack'[j].loop < d
    BY DEF Dies, Kind
  <2>1. d \in 1 .. nC /\ Kind(d) = "die"
    BY <1>s, <1>k, <1>t DEF Kind
  <2> QED
    BY <1>s, <1>z, <1>j, <2>1 DEF Dies
<1>10. EvalLoops'
  <2> SUFFICES ASSUME NEW j \in 1 .. nCx', cxstack'[j].type \in Evals
               PROVE  InPlace(j)'
    BY DEF EvalLoops
  <2>0. \A i \in 1 .. nSI : LoopOf(i)' = LoopOf(i)
    BY <1>i, <1>m DEF LoopOf
  <2>1. CASE j \in 1 .. nCx
    <3>1. InPlace(j) /\ cxstack'[j] = cxstack[j]
      BY <1>z, <1>j, <2>1 DEF EvalLoops
    <3>2. cxstack[j].loop <= nC'
      BY <1>s, <3>1 DEF InPlace
    <3> QED
      BY <1>s, <1>k, <1>t, <1>i, <1>j, <1>c, <1>e, <2>0, <2>1, <3>1, <3>2 DEF InPlace, Kind, End
  <2>2. CASE j = nCx + 1
    <3>1. nC' = LoopOf(nSI)
      BY <1>s, <1>z, <1>r, <1>t, <1>c, <1>k, <1>j, <2>2, TopIsCurrent DEF LoopOf, FrameKind, Kind
    <3>2. \A i \in 1 .. nSI : si[i].base < j
      BY <1>s, <1>z, <2>2 DEF Infos, Sizes
    <3>3. \A i \in 1 .. nSI : j <= End(i)' => i = nSI
      BY <1>s, <1>e, <1>l, <2>2
    <3>4. /\ cxstack'[j].cur_top_env = nC' /\ cxstack'[j].loop = nC' /\ nC' \in 1 .. nC'
          /\ cstack'[nC'].kind = "run"
      BY <1>s, <1>j, <1>c, <2>2
    <3>5. \A l \in j .. nCx' : l = j
      BY <1>s, <2>2
    <3>6. \A i \in 1 .. nSI' : ~(j <= si'[i].base) /\ (j <= End(i)' => i = nSI)
      BY <1>s, <1>i, <2>2, <3>2, <3>3, <1>z DEF Sizes
    <3> QED
      BY <1>s, <2>0, <3>1, <3>4, <3>5, <3>6 DEF InPlace, Kind
  <2> QED
    BY <1>s, <2>1, <2>2
<1> QED
  BY <1>1, <1>2, <1>3, <1>4, <1>5, <1>6, <1>7, <1>8, <1>9, <1>10 DEF Structure

(* A context is about to be left, or die begins.                           *)
CallsFunction(c) ==
  /\ nCx' = nCx /\ KeepsContexts(nCx) /\ nSI' = nSI /\ KeepsInfos(nSI)
  /\ nC' = nC + 1 /\ KeepsFunctions(nC) /\ KeepsCatches(nC) /\ cstack'[nC + 1] = c
  /\ ~c.on /\ c.to \in Nat
  /\ \/ /\ c.kind = "leave" /\ (OpsRun \/ Kind(nC) = "die")
        /\ nCx > si[nSI].base
        /\ nSI > 1 /\ Kind(nC) # "die" => nCx > si[nSI].base + 1
        /\ cxstack[nCx].oldsaveix = c.to
     \/ /\ c.kind = "leave" /\ Kind(nC) = "multicall" /\ ~cstack[nC].on
        /\ nCx > 0 /\ cxstack[nCx].oldsaveix = c.to
     \/ /\ c.kind = "die" /\ OpsRun
        /\ \E j \in 1 .. nCx : cxstack[j].type \in Evals

LEMMA CallFunctionStructure ==
  ASSUME NEW c, Structure, CallsFunction(c)
  PROVE  Structure'
<1>s. /\ nCx \in Nat /\ nSI \in Nat \ {0} /\ nC \in Nat \ {0} /\ nSI' = nSI /\ nCx' = nCx
      /\ nC' = nC + 1
  BY DEF Structure, Sizes, Frames, Infos, CallsFunction
<1>k. \A k \in 1 .. nC : /\ Kind(k)' = Kind(k) /\ cstack'[k].to = cstack[k].to
                         /\ cstack'[k].on <=> cstack[k].on
                         /\ cstack'[k].oldcatch <=> cstack[k].oldcatch
                         /\ cstack'[k].mustcatch <=> cstack[k].mustcatch
  BY DEF CallsFunction, KeepsFunctions, KeepsCatches, Kind
<1>i. \A i \in 1 .. nSI : si'[i].base = si[i].base /\ si'[i].frame = si[i].frame
  BY DEF CallsFunction, KeepsInfos
<1>j. \A j \in 1 .. nCx : cxstack'[j] = cxstack[j]
  BY DEF CallsFunction, KeepsContexts
<1>c. /\ cstack'[nC + 1] = c /\ ~c.on /\ c.to \in Nat
      /\ \/ /\ c.kind = "leave" /\ Kind(nC) \in {"run", "multicall", "die"}
            /\ ~Ends(nC + 1) /\ nSI > 1 /\ Kind(nC) # "die" => nCx > si[nSI].base + 1
            /\ Ends(nC + 1) => nCx = si[nSI].base + 1
            /\ nCx > si[nSI].base
            /\ cxstack[nCx].oldsaveix = c.to
         \/ /\ c.kind = "die" /\ Kind(nC) \in {"run", "multicall"}
            /\ nSI > 1 => nCx > si[nSI].base
            /\ \E j \in 1 .. nCx : cxstack[j].type \in Evals
      /\ Kind(nC) = "multicall" => cstack[nC].on \/ c.kind = "leave"
  <2>1. Ends(nC + 1) <=> Kind(nC) = "multicall" /\ ~cstack[nC].on
    <3>1. (nC + 1) - 1 = nC
      BY <1>s
    <3> QED
      BY ONLY <3>1, Zenon DEF Ends
  <2>2. Ends(nC + 1) => nCx = si[nSI].base + 1 /\ si[nSI].base \in Nat
    BY <1>s, <2>1 DEF Structure, Idle, Sizes
  <2> QED
    BY <1>s, <2>1, <2>2 DEF CallsFunction, OpsRun
<1>z. Sizes /\ Frames /\ Catches /\ Infos /\ Owners /\ Bottoms /\ Leavings /\ Idle /\ Dies /\ EvalLoops
  BY DEF Structure
<1>o. \A k : Owned(k)' <=> Owned(k)
  BY <1>s, <1>i DEF Owned
<1>e. \A i \in 1 .. nSI : End(i)' = End(i)
  BY <1>s, <1>i DEF End
<1>m. \A i \in 1 .. nSI : FrameKind(i)' = FrameKind(i)
  BY <1>s, <1>z, <1>i, <1>k DEF Infos, FrameKind, Kind, Sizes
<1>n. \A k \in 1 .. nC' : k = nC + 1 \/ k \in 1 .. nC
  BY <1>s
<1>1. Sizes'
  BY <1>s, <1>z, <1>k, <1>i, <1>j, <1>c, <1>n DEF Sizes, Kind
<1>2. Frames'
  BY <1>s, <1>z, <1>k, <1>c, <1>n DEF Frames, Kind
<1>3. Catches'
  <2> SUFFICES ASSUME NEW k \in 1 .. nC'
               PROVE  /\ Kind(k)' = "run" =>
                            (cstack'[k].mustcatch <=> k < nC' /\ cstack'[k + 1].kind = "multicall")
                      /\ Kind(k)' = "multicall" => (cstack'[k].oldcatch <=> Kind(k - 1)' = "multicall")
    BY DEF Catches, Kind
  <2>1. CASE k \in 1 .. nC - 1
    BY <1>s, <1>z, <1>k, <2>1 DEF Catches, Kind, Frames
  <2>2. CASE k = nC
    BY <1>s, <1>z, <1>k, <1>c, <2>2 DEF Catches, Kind, Frames
  <2>3. CASE k = nC + 1
    BY <1>s, <1>c, <2>3 DEF Kind
  <2> QED
    BY <1>s, <2>1, <2>2, <2>3
<1>4. Infos'
  BY <1>s, <1>z, <1>k, <1>i, <1>m DEF Sizes, Infos, FrameKind, Kind
<1>5. Owners'
  <2> SUFFICES ASSUME NEW k \in 2 .. nC', Kind(k)' = "multicall" \/ (Kind(k)' = "run" /\ Kind(k - 1)' = "leave")
               PROVE  \/ Owned(k)
                      \/ /\ Kind(k)' = "multicall"
                         /\ \E d \in k + 1 .. nC' : Kind(d)' = "die" /\ \A q \in k .. d : ~Owned(q)
    BY <1>o DEF Owners
  <2>1. k \in 2 .. nC /\ Kind(k)' = Kind(k) /\ Kind(k - 1)' = Kind(k - 1)
    BY <1>s, <1>n, <1>c, <1>k DEF Kind
  <2>2. CASE Owned(k)
    BY <2>2
  <2>3. CASE ~Owned(k)
    <3>1. PICK d \in k + 1 .. nC : Kind(d) = "die" /\ \A q \in k .. d : ~Owned(q)
      BY <1>z, <2>1, <2>3 DEF Owners
    <3>2. Kind(d)' = Kind(d) /\ d \in k + 1 .. nC'
      BY <1>s, <1>k, <2>1
    <3> QED
      BY <1>z, <2>1, <2>3, <3>1, <3>2 DEF Owners
  <2> QED
    BY <2>2, <2>3
<1>6. Bottoms'
  <2>1. nSI > 1 => End(nSI) > si[nSI].base
    BY <1>s, <1>c DEF End
  <2> SUFFICES ASSUME NEW i \in 1 .. nSI
               PROVE  /\ si[i].base < End(i) =>
                           IF i = 1 THEN cxstack[1].type # "MULTI"
                           ELSE cxstack[si[i].base + 1].type = IF FrameKind(i) = "run" THEN "EVAL" ELSE "MULTI"
                      /\ i > 1 => si[i].base # End(i)
    <3>1. \A i \in 1 .. nSI : si[i].base < End(i) => si[i].base + 1 \in 1 .. nCx
      BY <1>s, <1>z DEF Infos, Sizes, End
    <3>2. \A i \in 1 .. nSI : si[i].base < End(i) => cxstack'[si[i].base + 1] = cxstack[si[i].base + 1]
      BY <3>1, <1>j
    <3>3. si[1].base = 0
      BY <1>z DEF Infos
    <3>4. si[1].base < End(1) => cxstack'[1] = cxstack[1]
      BY <1>s, <3>2, <3>3
    <3> QED
      BY <1>s, <1>i, <1>m, <1>e, <3>2, <3>4 DEF Bottoms
  <2> QED
    BY <1>s, <1>z, <2>1 DEF Bottoms, Sizes
<1>7. Leavings'
  <2>1. ASSUME Kind(nC)' = "leave" PROVE Leaving(nC, nSI, nCx)'
    <3>1. nCx \in 1 .. nCx
      BY <1>s, <1>z, <2>1, <1>c DEF Kind, Sizes
    <3>2. nC' - 1 = nC /\ nC + 1 - 1 = nC
      BY <1>s
    <3> QED
      BY <1>s, <1>i, <1>j, <1>k, <1>c, <2>1, <3>1, <3>2 DEF Leaving, Ends, Kind
  <2>2. ASSUME NEW i \in 2 .. nSI, FrameKind(i) = "run"
        PROVE  Leaving(si[i].frame - 1, i - 1, si[i].base)'
    <3>1. Leaving(si[i].frame - 1, i - 1, si[i].base)
      BY <1>z, <2>2 DEF Leavings
    <3>2. /\ si[i].base \in 1 .. nCx
          /\ si[i].frame - 1 \in 2 .. nC /\ si[i].frame - 1 - 1 \in 1 .. nC
      BY <1>s, <1>z, <2>2, <3>1 DEF Leaving, Infos, Sizes, Frames, FrameKind, Kind
    <3>3. /\ si'[i].frame = si[i].frame /\ si'[i].base = si[i].base /\ si'[i - 1].base = si[i - 1].base
          /\ cxstack'[si[i].base] = cxstack[si[i].base]
          /\ cstack'[si[i].frame - 1].to = cstack[si[i].frame - 1].to
          /\ cstack'[si[i].frame - 1 - 1].kind = cstack[si[i].frame - 1 - 1].kind
          /\ cstack'[si[i].frame - 1 - 1].on <=> cstack[si[i].frame - 1 - 1].on
      BY <1>s, <1>i, <1>j, <1>k, <2>2, <3>2 DEF Kind
    <3> QED
      BY <3>1, <3>3 DEF Leaving, Ends, Kind
  <2> QED
    BY <1>s, <1>m, <2>1, <2>2 DEF Leavings
<1>8. Idle'
  BY <1>s, <1>c DEF Idle, Kind
<1>9. Dies'
  <2> SUFFICES ASSUME NEW d \in 1 .. nC', cstack'[d].kind = "die"
               PROVE  \E j \in 1 .. nCx' : cxstack'[j].type \in Evals /\ cxstack'[j].loop < d
    BY DEF Dies, Kind
  <2>1. CASE d \in 1 .. nC
    BY <1>s, <1>z, <1>j, <1>k, <2>1 DEF Dies, Kind
  <2>2. CASE d = nC + 1
    <3>1. PICK j \in 1 .. nCx : cxstack[j].type \in Evals
      BY <1>c, <2>2
    <3>2. cxstack[j].loop \in 1 .. nC
      BY <1>z, <3>1 DEF EvalLoops, InPlace
    <3> QED
      BY <1>s, <1>j, <2>2, <3>1, <3>2
  <2> QED
    BY <1>n, <2>1, <2>2
<1>10. EvalLoops'
  <2>0. \A i \in 1 .. nSI : LoopOf(i)' = LoopOf(i)
    BY <1>i, <1>m DEF LoopOf
  <2> SUFFICES ASSUME NEW j \in 1 .. nCx, cxstack[j].type \in Evals
               PROVE  InPlace(j)'
    BY <1>s, <1>j DEF EvalLoops
  <2>1. InPlace(j)
    BY <1>z DEF EvalLoops
  <2> QED
    BY <1>s, <1>k, <1>i, <1>j, <1>e, <2>0, <2>1 DEF InPlace, Kind
<1> QED
  BY <1>1, <1>2, <1>3, <1>4, <1>5, <1>6, <1>7, <1>8, <1>9, <1>10 DEF Structure

(* A callback starts or ends: its function is the topmost one.             *)
SwitchesCallback ==
  /\ Kind(nC) \in {"run", "multicall"}
  /\ nSI > 1 /\ FrameKind(nSI) = "multicall" /\ nCx = si[nSI].base + 1
  /\ nCx' = nCx /\ KeepsContexts(nCx) /\ nSI' = nSI /\ KeepsInfos(nSI)
  /\ nC' = si[nSI].frame /\ KeepsFunctions(nC' - 1) /\ KeepsCatches(nC' - 1)
  /\ cstack'[nC'].kind = "multicall" /\ cstack'[nC'].to \in Nat
  /\ cstack'[nC'].oldcatch <=> cstack[nC'].oldcatch

LEMMA SwitchCallbackStructure ==
  ASSUME Structure, SwitchesCallback
  PROVE  Structure'
<1> DEFINE f == si[nSI].frame
<1>z. Sizes /\ Frames /\ Catches /\ Infos /\ Owners /\ Bottoms /\ Leavings /\ Idle /\ Dies /\ EvalLoops
  BY DEF Structure
<1>s. /\ nCx \in Nat \ {0} /\ nSI \in Nat \ {0, 1} /\ nC \in Nat \ {0} /\ nSI' = nSI /\ nCx' = nCx
      /\ nC' = f /\ f \in 2 .. nC /\ Kind(f) = "multicall"
      /\ nCx = si[nSI].base + 1 /\ si[nSI].base \in Nat
  BY <1>z DEF Sizes, Frames, Infos, SwitchesCallback, FrameKind, Kind
<1>k. \A k \in 1 .. f - 1 : /\ Kind(k)' = Kind(k) /\ cstack'[k].to = cstack[k].to
                            /\ cstack'[k].on <=> cstack[k].on
                            /\ cstack'[k].oldcatch <=> cstack[k].oldcatch
                            /\ cstack'[k].mustcatch <=> cstack[k].mustcatch
  BY <1>s DEF SwitchesCallback, KeepsFunctions, KeepsCatches, Kind
<1>i. \A i \in 1 .. nSI : si'[i].base = si[i].base /\ si'[i].frame = si[i].frame
  BY DEF SwitchesCallback, KeepsInfos
<1>j. \A j \in 1 .. nCx : cxstack'[j] = cxstack[j]
  BY DEF SwitchesCallback, KeepsContexts
<1>c. /\ cstack'[f].kind = "multicall" /\ cstack'[f].to \in Nat
      /\ cstack'[f].oldcatch <=> cstack[f].oldcatch
  BY <1>s DEF SwitchesCallback
<1> HIDE DEF f
<1>l. CurrentIsLast
  BY <1>z, LastInfo
<1>f. \A i \in 1 .. nSI : si[i].frame \in 1 .. f /\ (i < nSI => si[i].frame < f)
  BY <1>l DEF CurrentIsLast, f
<1>o. \A k : Owned(k)' <=> Owned(k)
  BY <1>s, <1>i DEF Owned
<1>O. Owned(f)
  BY <1>s DEF Owned, f
<1>e. \A i \in 1 .. nSI : End(i)' = End(i)
  BY <1>s, <1>i DEF End
<1>a. \A k \in 1 .. f : Kind(k)' = Kind(k)
  BY <1>s, <1>k, <1>c DEF Kind
<1>m. \A i \in 1 .. nSI : FrameKind(i)' = FrameKind(i)
  BY <1>s, <1>i, <1>a, <1>f DEF FrameKind, Kind
<1>n. \A k \in 1 .. f : k = f \/ k \in 1 .. f - 1
  BY <1>s
<1>1. Sizes'
  <2>1. \A k \in 1 .. f : cstack'[k].kind \in {"run", "multicall", "leave", "die"} /\ cstack'[k].to \in Nat
    BY <1>s, <1>z, <1>k, <1>c, <1>n DEF Sizes, Kind
  <2>2. \A i \in 1 .. nSI : si'[i].base \in Nat /\ si'[i].frame \in Nat
    BY <1>z, <1>i DEF Sizes
  <2>3. \A j \in 1 .. nCx : cxstack'[j] = cxstack[j]
    BY <1>j
  <2> QED
    BY <1>s, <1>z, <2>1, <2>2, <2>3 DEF Sizes, Kind
<1>2. Frames'
  BY <1>s, <1>z, <1>k, <1>a, <1>c, <1>n DEF Frames, Kind
<1>3. Catches'
  <2> SUFFICES ASSUME NEW k \in 1 .. f
               PROVE  /\ Kind(k)' = "run" =>
                            (cstack'[k].mustcatch <=> k < f /\ cstack'[k + 1].kind = "multicall")
                      /\ Kind(k)' = "multicall" => (cstack'[k].oldcatch <=> Kind(k - 1)' = "multicall")
    BY <1>s DEF Catches, Kind
  <2>1. CASE k \in 1 .. f - 1
    BY <1>s, <1>z, <1>k, <1>a, <2>1 DEF Catches, Kind, Frames
  <2>2. CASE k = f
    BY <1>s, <1>z, <1>k, <1>a, <1>c, <2>2 DEF Catches, Kind, Frames
  <2> QED
    BY <1>n, <2>1, <2>2
<1>4. Infos'
  BY <1>s, <1>z, <1>a, <1>i, <1>m, <1>f DEF Sizes, Infos, FrameKind, Kind
<1>5. Owners'
  <2> SUFFICES ASSUME NEW k \in 2 .. f, Kind(k) = "multicall" \/ (Kind(k) = "run" /\ Kind(k - 1) = "leave"),
                      ~Owned(k)
               PROVE  /\ Kind(k) = "multicall"
                      /\ \E d \in k + 1 .. f : Kind(d) = "die" /\ \A q \in k .. d : ~Owned(q)
    <3>1. \A k \in 2 .. f : Kind(k)' = Kind(k) /\ Kind(k - 1)' = Kind(k - 1)
      BY <1>s, <1>a
    <3>2. \A k \in 2 .. f : \A d \in k + 1 .. f : Kind(d)' = Kind(d)
      BY <1>s, <1>a
    <3> QED
      BY <1>s, <1>o, <3>1, <3>2 DEF Owners, Kind
  <2>1. PICK d \in k + 1 .. nC : Kind(d) = "die" /\ \A q \in k .. d : ~Owned(q)
    BY <1>s, <1>z DEF Owners
  <2>2. d < f
    BY <1>s, <1>O, <2>1
  <2> QED
    BY <1>s, <1>z, <2>1, <2>2 DEF Owners
<1>6. Bottoms'
  <2> SUFFICES ASSUME NEW i \in 1 .. nSI
               PROVE  /\ si[i].base < End(i) =>
                           IF i = 1 THEN cxstack[1].type # "MULTI"
                           ELSE cxstack[si[i].base + 1].type = IF FrameKind(i) = "run" THEN "EVAL" ELSE "MULTI"
                      /\ i > 1 => si[i].base # End(i)
    <3>1. \A i \in 1 .. nSI : si[i].base < End(i) => si[i].base + 1 \in 1 .. nCx
      BY <1>s, <1>z DEF Infos, Sizes, End
    <3>2. \A i \in 1 .. nSI : si[i].base < End(i) => cxstack'[si[i].base + 1] = cxstack[si[i].base + 1]
      BY <3>1, <1>j
    <3>4. cxstack'[1] = cxstack[1]
      BY <1>s, <1>j
    <3> QED
      BY <1>s, <1>i, <1>m, <1>e, <3>2, <3>4 DEF Bottoms
  <2>1. End(nSI) > si[nSI].base
    BY <1>s DEF End
  <2> QED
    BY <1>s, <1>z, <2>1 DEF Bottoms, Sizes
<1>7. Leavings'
  <2>1. Kind(nC)' # "leave"
    BY <1>s, <1>c DEF Kind
  <2>2. ASSUME NEW i \in 2 .. nSI, FrameKind(i) = "run"
        PROVE  Leaving(si[i].frame - 1, i - 1, si[i].base)'
    <3>1. Leaving(si[i].frame - 1, i - 1, si[i].base)
      BY <1>z, <2>2 DEF Leavings
    <3>2. /\ si[i].base \in 1 .. nCx
          /\ si[i].frame - 1 \in 2 .. f - 1 /\ si[i].frame - 1 - 1 \in 1 .. f - 1
      BY <1>s, <1>z, <1>f, <2>2, <3>1 DEF Leaving, Infos, Sizes, Frames, FrameKind, Kind
    <3>3. /\ si'[i].frame = si[i].frame /\ si'[i].base = si[i].base /\ si'[i - 1].base = si[i - 1].base
          /\ cxstack'[si[i].base] = cxstack[si[i].base]
          /\ cstack'[si[i].frame - 1].to = cstack[si[i].frame - 1].to
          /\ cstack'[si[i].frame - 1 - 1].kind = cstack[si[i].frame - 1 - 1].kind
          /\ cstack'[si[i].frame - 1 - 1].on <=> cstack[si[i].frame - 1 - 1].on
      BY <1>s, <1>i, <1>j, <1>k, <2>2, <3>2 DEF Kind
    <3> QED
      BY <3>1, <3>3 DEF Leaving, Ends, Kind
  <2> QED
    BY <1>s, <1>i, <1>m, <2>1, <2>2 DEF Leavings
<1>8. Idle'
  BY <1>s, <1>i DEF Idle, Kind
<1>9. Dies'
  <2> SUFFICES ASSUME NEW d \in 1 .. f, Kind(d) = "die"
               PROVE  \E j \in 1 .. nCx : cxstack'[j].type \in Evals /\ cxstack'[j].loop < d
    BY <1>s, <1>a DEF Dies, Kind
  <2> QED
    BY <1>s, <1>z, <1>j DEF Dies
<1>10. EvalLoops'
  <2>0. \A i \in 1 .. nSI : LoopOf(i)' = LoopOf(i)
    BY <1>i, <1>m DEF LoopOf
  <2> SUFFICES ASSUME NEW j \in 1 .. nCx, cxstack[j].type \in Evals
               PROVE  InPlace(j)'
    BY <1>s, <1>j DEF EvalLoops
  <2>1. InPlace(j)
    BY <1>z DEF EvalLoops
  <2>2. j <= si[nSI].base
    <3>1. cxstack[nCx].type = "MULTI"
      BY <1>s, <1>z DEF Bottoms, End, FrameKind, f
    <3> QED
      BY <1>s, <3>1 DEF Evals
  <2>3. cxstack[j].loop \in 1 .. f - 1
    BY <1>s, <2>1, <2>2 DEF InPlace, f
  <2> QED
    BY <1>s, <1>a, <1>i, <1>j, <1>e, <2>0, <2>1, <2>3 DEF InPlace, Kind
<1> QED
  BY <1>1, <1>2, <1>3, <1>4, <1>5, <1>6, <1>7, <1>8, <1>9, <1>10 DEF Structure

(* The topmost context is left, and with it the function that has emptied  *)
(* the savestack or, by a die, all functions above the runloop of the eval.*)
LeavesContext ==
  /\ Kind(nC) = "leave" /\ ~Ends(nC)
  /\ nCx' = nCx - 1 /\ KeepsContexts(nCx - 1) /\ nSI' = nSI /\ KeepsInfos(nSI)
  /\ nC' <= nC - 1 /\ KeepsFunctions(nC') /\ KeepsCatches(nC' - 1)
  /\ IF cxstack[nCx].type \in Evals /\ Kind(nC - 1) = "die"
     THEN nC' = cxstack[nCx].cur_top_env /\ ~cstack'[nC'].mustcatch
     ELSE nC' = nC - 1 /\ (cstack'[nC'].mustcatch <=> cstack[nC'].mustcatch)

LEMMA LeaveContextStructure ==
  ASSUME Structure, LeavesContext
  PROVE  Structure'
<1> DEFINE f == si[nSI].frame
           t == nC'
           b == si[nSI].base
<1>z. Sizes /\ Frames /\ Catches /\ Infos /\ Owners /\ Bottoms /\ Leavings /\ Idle /\ Dies /\ EvalLoops
  BY DEF Structure
<1>v. Leaving(nC, nSI, nCx)
  BY <1>z DEF Leavings, LeavesContext
<1>s. /\ nCx \in Nat \ {0} /\ nSI \in Nat \ {0} /\ nC \in Nat \ {0} /\ nSI' = nSI /\ nCx' = nCx - 1
      /\ f \in 1 .. nC /\ b \in 0 .. nCx - 1
  BY <1>z, <1>v DEF Sizes, Frames, Infos, Leaving, LeavesContext
<1>u. /\ Kind(nC) = "leave" /\ nC > 1 /\ Kind(nC - 1) \in {"run", "multicall", "die"}
  BY <1>s, <1>z DEF LeavesContext, Frames
<1>x. CurrentIsLast
  BY <1>z, LastInfo
<1>f. \A i \in 1 .. nSI : /\ si[i].frame \in 1 .. f /\ (i < nSI => si[i].frame < f)
                          /\ si[i].base \in 0 .. b
  BY <1>x DEF CurrentIsLast
<1>F. Kind(f) \in {"run", "multicall"} /\ f < nC /\ Owned(f)
  BY <1>s, <1>u, <1>z DEF Infos, FrameKind, Frames, Owned
<1>E. ASSUME cxstack[nCx].type \in Evals
      PROVE  /\ cxstack[nCx].cur_top_env = cxstack[nCx].loop
             /\ Kind(cxstack[nCx].loop) = "run" /\ cxstack[nCx].loop \in 1 .. nC - 1
             /\ \/ cxstack[nCx].loop = f /\ FrameKind(nSI) = "run"
                \/ cxstack[nCx].loop = f + 1 /\ FrameKind(nSI) # "run"
             /\ \A j \in 1 .. nCx - 1 : cxstack[j].type \in Evals => cxstack[j].loop <= cxstack[nCx].loop
  <2>1. InPlace(nCx)
    BY <1>s, <1>z, <1>E DEF EvalLoops
  <2>2. cxstack[nCx].loop # nC
    BY <2>1, <1>u DEF InPlace
  <2>3. \A j \in 1 .. nCx - 1 : cxstack[j].type \in Evals => InPlace(j)
    BY <1>s, <1>z DEF EvalLoops
  <2>4. \A j \in 1 .. nCx - 1 : cxstack[j].type \in Evals => cxstack[j].loop <= cxstack[nCx].loop
    BY <1>s, <1>E, <2>3 DEF InPlace
  <2>5. cxstack[nCx].loop = LoopOf(nSI)
    BY <1>s, <2>1 DEF InPlace, End
  <2> QED
    BY <1>s, <2>1, <2>2, <2>4, <2>5 DEF InPlace, LoopOf
<1> HIDE DEF f, t, b
<1>t. /\ t \in f .. nC - 1 /\ t \in Nat \ {0}
      /\ Kind(t) \in {"run", "multicall", "die"}
      /\ Kind(t) = "run" => ~cstack'[t].mustcatch
  <2>1. CASE cxstack[nCx].type \in Evals /\ Kind(nC - 1) = "die"
    <3>1. t = cxstack[nCx].loop /\ ~cstack'[t].mustcatch
      BY <2>1, <1>E DEF LeavesContext, t
    <3> QED
      BY <1>s, <2>1, <3>1, <1>E DEF f
  <2>2. CASE ~(cxstack[nCx].type \in Evals /\ Kind(nC - 1) = "die")
    <3>1. t = nC - 1 /\ (cstack'[t].mustcatch <=> cstack[t].mustcatch)
      BY <2>2 DEF LeavesContext, t
    <3>2. Kind(nC - 1) = "run" => ~cstack[nC - 1].mustcatch
      BY <1>s, <1>z, <1>u DEF Catches
    <3> QED
      BY <1>s, <1>u, <1>F, <3>1, <3>2
  <2> QED
    BY <2>1, <2>2
<1>T. /\ t <= nC - 1 /\ f <= t /\ nC' = t
  BY <1>s, <1>t DEF t
<1>k. \A k \in 1 .. t : /\ Kind(k)' = Kind(k) /\ cstack'[k].to = cstack[k].to
                        /\ cstack'[k].on <=> cstack[k].on
                        /\ cstack'[k].oldcatch <=> cstack[k].oldcatch
  BY DEF LeavesContext, KeepsFunctions, Kind, t
<1>g. \A k \in 1 .. t - 1 : cstack'[k].mustcatch <=> cstack[k].mustcatch
  BY DEF LeavesContext, KeepsCatches, t
<1>i. \A i \in 1 .. nSI : si'[i].base = si[i].base /\ si'[i].frame = si[i].frame
  BY DEF LeavesContext, KeepsInfos
<1>j. \A j \in 1 .. nCx - 1 : cxstack'[j] = cxstack[j]
  BY DEF LeavesContext, KeepsContexts
<1>o. \A k : Owned(k)' <=> Owned(k)
  BY <1>s, <1>i DEF Owned
<1>e. \A i \in 1 .. nSI : End(i)' = IF i = nSI THEN nCx - 1 ELSE End(i)
  BY <1>s, <1>i DEF End
<1>l. \A i \in 1 .. nSI : i < nSI => End(i) \in 0 .. b
  BY <1>s, <1>f DEF End
<1>m. \A i \in 1 .. nSI : FrameKind(i)' = FrameKind(i)
  BY <1>s, <1>t, <1>i, <1>k, <1>f DEF FrameKind, Kind
<1>1. Sizes'
  BY <1>s, <1>z, <1>T, <1>t, <1>k, <1>i, <1>j DEF Sizes, Kind
<1>2. Frames'
  <2> SUFFICES ASSUME NEW k \in 1 .. t
               PROVE  /\ cstack[k].on => Kind(k) = "multicall"
                      /\ k > 1 /\ Kind(k) = "run" => Kind(k - 1) \in {"leave", "multicall"}
                      /\ Kind(k) = "leave" => Kind(k - 1) \in {"run", "multicall", "die"}
                      /\ Kind(k) \in {"multicall", "die"} => Kind(k - 1) \in {"run", "multicall"}
                      /\ k < t /\ Kind(k) = "multicall" => cstack[k].on \/ Kind(k + 1) = "leave"
                      /\ k < t /\ Kind(k) = "leave" => Kind(k + 1) = "run"
                      /\ k < t /\ Kind(k) = "die" => Kind(k + 1) = "leave"
    <3>1. Kind(1)' = "run" /\ t >= 1
      BY <1>t, <1>k, <1>z DEF Frames, Kind
    <3> QED
      BY <1>T, <1>t, <1>k, <1>z, <3>1 DEF Frames, Kind
  <2> QED
    BY <1>s, <1>z, <1>t, <1>T DEF Frames
<1>3. Catches'
  <2> SUFFICES ASSUME NEW k \in 1 .. t
               PROVE  /\ Kind(k) = "run" =>
                            (cstack'[k].mustcatch <=> k < t /\ Kind(k + 1) = "multicall")
                      /\ Kind(k) = "multicall" => (cstack[k].oldcatch <=> Kind(k - 1) = "multicall")
    <3>1. Kind(1) # "multicall"
      BY <1>z DEF Frames
    <3> QED
      BY <1>T, <1>t, <1>k, <3>1 DEF Catches, Kind
  <2>1. CASE k \in 1 .. t - 1
    BY <1>s, <1>z, <1>t, <1>g, <2>1 DEF Catches
  <2>2. CASE k = t
    BY <1>s, <1>z, <1>t, <2>2 DEF Catches
  <2> QED
    BY <1>t, <2>1, <2>2
<1>4. Infos'
  <2>1. nSI' >= 1 /\ si'[1].base = 0 /\ si'[1].frame = 1
    BY <1>s, <1>z, <1>i DEF Infos
  <2>2. \A i \in 1 .. nSI : si'[i].frame <= t /\ si'[i].base <= nCx - 1
    BY <1>s, <1>T, <1>t, <1>f, <1>i
  <2>3. \A i \in 2 .. nSI : cstack'[si[i].frame - 1].kind = Kind(si[i].frame - 1)
    <3>1. \A i \in 2 .. nSI : si[i].frame - 1 \in 1 .. t
      BY <1>s, <1>T, <1>t, <1>f, <1>z DEF Infos
    <3> QED
      BY <3>1, <1>k DEF Kind
  <2> QED
    <3>1. \A i, l \in 1 .. nSI : i < l => si'[i].frame < si'[l].frame /\ si'[i].base <= si'[l].base
      BY <1>s, <1>z, <1>i DEF Infos
    <3>2. \A i \in 1 .. nSI :
            i > 1 => \/ FrameKind(i)' = "multicall"
                     \/ FrameKind(i)' = "run" /\ cstack'[si'[i].frame - 1].kind = "leave"
      <4> TAKE i \in 1 .. nSI
      <4> HAVE i > 1
      <4>1. \/ FrameKind(i) = "multicall"
            \/ FrameKind(i) = "run" /\ Kind(si[i].frame - 1) = "leave"
        BY <1>z DEF Infos
      <4>2. i \in 2 .. nSI /\ si'[i].frame = si[i].frame /\ FrameKind(i)' = FrameKind(i)
        BY <1>s, <1>i, <1>m
      <4> QED
        BY <2>3, <4>1, <4>2
    <3> QED
      BY <1>s, <1>T, <2>1, <2>2, <3>1, <3>2 DEF Infos, Kind
<1>5. Owners'
  <2> SUFFICES ASSUME NEW k \in 2 .. t, Kind(k) = "multicall" \/ (Kind(k) = "run" /\ Kind(k - 1) = "leave"),
                      ~Owned(k)
               PROVE  /\ Kind(k) = "multicall"
                      /\ \E d \in k + 1 .. t : Kind(d) = "die" /\ \A q \in k .. d : ~Owned(q)
    <3>1. \A k \in 2 .. t : Kind(k)' = Kind(k) /\ Kind(k - 1)' = Kind(k - 1)
      BY <1>t, <1>k
    <3>2. \A k \in 2 .. t : \A d \in k + 1 .. t : Kind(d)' = Kind(d)
      BY <1>t, <1>k
    <3> QED
      BY <1>T, <1>o, <3>1, <3>2 DEF Owners, Kind
  <2>1. k \in 2 .. nC
    BY <1>s, <1>t
  <2>2. Kind(k) = "multicall" /\ \E d \in k + 1 .. nC : Kind(d) = "die" /\ \A q \in k .. d : ~Owned(q)
    BY <1>z, <2>1 DEF Owners
  <2>3. PICK d \in k + 1 .. nC : Kind(d) = "die" /\ \A q \in k .. d : ~Owned(q)
    BY <2>2
  <2>4. d <= t
    <3>1. CASE cxstack[nCx].type \in Evals /\ Kind(nC - 1) = "die"
      <4>1. t = cxstack[nCx].loop
        BY <3>1, <1>E DEF LeavesContext, t
      <4>2. k # t
        BY <4>1, <2>2, <3>1, <1>E
      <4>3. t \in {f, f + 1}
        BY <4>1, <3>1, <1>E DEF f
      <4>4. k < f
        BY <1>s, <1>F, <1>t, <4>2, <4>3
      <4> QED
        BY <1>s, <1>F, <1>t, <2>3, <4>4
    <3>2. CASE ~(cxstack[nCx].type \in Evals /\ Kind(nC - 1) = "die")
      <4>1. t = nC - 1
        BY <3>2 DEF LeavesContext, t
      <4>2. d # nC
        BY <2>3, <1>u
      <4> QED
        BY <1>s, <2>3, <4>1, <4>2
    <3> QED
      BY <3>1, <3>2
  <2> QED
    BY <1>t, <2>2, <2>3, <2>4
<1>6. Bottoms'
  <2> SUFFICES ASSUME NEW i \in 1 .. nSI
               PROVE  /\ si[i].base < End(i)' =>
                           IF i = 1 THEN cxstack[1].type # "MULTI"
                           ELSE cxstack[si[i].base + 1].type = IF FrameKind(i) = "run" THEN "EVAL" ELSE "MULTI"
                      /\ i > 1 /\ si[i].base = End(i)' =>
                           i = nSI /\ IF FrameKind(i) = "run" THEN si[i].frame = t ELSE Kind(t) = "die"
    <3>1. \A i \in 1 .. nSI : si[i].base < End(i)' => si[i].base + 1 \in 1 .. nCx - 1
      BY <1>s, <1>f, <1>e, <1>l
    <3>2. \A i \in 1 .. nSI : si[i].base < End(i)' => cxstack'[si[i].base + 1] = cxstack[si[i].base + 1]
      BY <3>1, <1>j
    <3>3. si[1].base = 0
      BY <1>z DEF Infos
    <3>4. si[1].base < End(1)' => cxstack'[1] = cxstack[1]
      BY <1>s, <3>2, <3>3
    <3>5. cstack'[nC'].kind = Kind(t)
      BY <1>T, <1>t, <1>k DEF Kind
    <3> QED
      BY <1>s, <1>i, <1>m, <1>T, <3>2, <3>4, <3>5 DEF Bottoms, Kind
  <2>1. CASE i < nSI
    BY <1>s, <1>z, <1>e, <2>1 DEF Bottoms
  <2>2. CASE i = nSI /\ b < nCx - 1
    BY <1>s, <1>z, <1>e, <1>f, <2>2 DEF Bottoms, End, b
  <2>3. CASE i = nSI /\ b = nCx - 1 /\ i > 1
    <3>1. Kind(nC - 1) = "die"
      BY <1>v, <1>s, <2>3 DEF Leaving, LeavesContext, b
    <3>2. cxstack[nCx].type = IF FrameKind(nSI) = "run" THEN "EVAL" ELSE "MULTI"
      BY <1>s, <1>z, <2>3 DEF Bottoms, End, b
    <3>3. CASE FrameKind(nSI) = "run"
      <4>1. cxstack[nCx].type \in Evals
        BY <3>2, <3>3 DEF Evals
      <4> QED
        BY <1>s, <1>e, <1>E, <2>3, <3>1, <3>3, <4>1 DEF LeavesContext, t, f, b
    <3>4. CASE FrameKind(nSI) # "run"
      <4>1. cxstack[nCx].type \notin Evals
        BY <3>2, <3>4 DEF Evals
      <4> QED
        BY <1>s, <1>e, <2>3, <3>1, <3>4, <4>1 DEF LeavesContext, t, b
    <3> QED
      BY <3>3, <3>4
  <2>4. CASE i = nSI /\ b = nCx - 1 /\ i = 1
    BY <1>s, <1>e, <2>4 DEF b
  <2> QED
    BY <1>s, <2>1, <2>2, <2>3, <2>4
<1>7. Leavings'
  <2>1. Kind(nC)' # "leave"
    BY <1>T, <1>t, <1>k DEF Kind
  <2>2. ASSUME NEW i \in 2 .. nSI, FrameKind(i) = "run"
        PROVE  Leaving(si[i].frame - 1, i - 1, si[i].base)'
    <3>1. Leaving(si[i].frame - 1, i - 1, si[i].base)
      BY <1>z, <2>2 DEF Leavings
    <3>2. /\ si[i].base \in 1 .. nCx - 1
          /\ si[i].frame - 1 \in 2 .. t /\ si[i].frame - 2 \in 1 .. t
      BY <1>s, <1>z, <1>t, <1>f, <2>2, <3>1 DEF Leaving, Infos, Sizes, Frames, FrameKind, Kind
    <3>3. /\ cstack'[si[i].frame - 1].to = cstack[si[i].frame - 1].to
          /\ cstack'[si[i].frame - 2].kind = cstack[si[i].frame - 2].kind
          /\ cstack'[si[i].frame - 2].on <=> cstack[si[i].frame - 2].on
          /\ cxstack'[si[i].base] = cxstack[si[i].base]
      BY <1>k, <1>j, <3>2 DEF Kind
    <3>4. si'[i].frame = si[i].frame /\ si'[i].base = si[i].base /\ si'[i - 1].base = si[i - 1].base
      BY <1>s, <1>i
    <3>5. (si[i].frame - 1) - 1 = si[i].frame - 2
      BY <1>s, <1>z DEF Sizes
    <3> QED
      BY <3>1, <3>3, <3>4, <3>5 DEF Leaving, Ends, Kind
  <2> QED
    BY <1>s, <1>i, <1>m, <2>1, <2>2 DEF Leavings
<1>8. Idle'
  <2>1. Kind(t) = "multicall" => cstack[t].on
    <3>1. CASE cxstack[nCx].type \in Evals /\ Kind(nC - 1) = "die"
      BY <1>E, <3>1 DEF LeavesContext, t
    <3>2. CASE ~(cxstack[nCx].type \in Evals /\ Kind(nC - 1) = "die")
      BY <3>2 DEF LeavesContext, Ends, t
    <3> QED
      BY <3>1, <3>2
  <2> QED
    BY <1>T, <1>t, <1>k, <2>1 DEF Idle, Kind
<1>9. Dies'
  <2> SUFFICES ASSUME NEW d \in 1 .. t, Kind(d) = "die"
               PROVE  \E j \in 1 .. nCx - 1 : cxstack[j].type \in Evals /\ cxstack[j].loop < d
    BY <1>s, <1>j, <1>T, <1>k DEF Dies, Kind
  <2>1. PICK j \in 1 .. nCx : cxstack[j].type \in Evals /\ cxstack[j].loop < d
    BY <1>s, <1>z, <1>t DEF Dies
  <2>2. ASSUME j = nCx PROVE FALSE
    <3>1. cxstack[nCx].type \in Evals /\ cxstack[nCx].loop < d
      BY <2>1, <2>2
    <3>2. CASE Kind(nC - 1) = "die"
      BY <1>t, <3>1, <3>2 , <1>E DEF LeavesContext, t
    <3>3. CASE Kind(nC - 1) # "die"
      <4>1. \/ nC - 1 = f
            \/ nC - 1 = f + 1 /\ FrameKind(nSI) = "multicall" /\ Kind(nC - 1) = "run"
        <5>1. nC - 1 \in 1 .. nC /\ \A k \in (nC - 1) + 1 .. nC : Kind(k) = "leave"
          BY <1>s, <1>u
        <5>2. Kind(nC - 1) \in {"run", "multicall"}
          BY <1>u, <3>3
        <5> QED
          BY <1>z, <5>1, <5>2, CurrentFunction DEF f
      <4>2. d < f
        BY <1>s, <1>T, <1>t, <1>F, <4>1, <1>u, <3>3
      <4> QED
        BY <1>s, <1>E, <3>1, <4>2 DEF f
    <3> QED
      BY <3>2, <3>3
  <2> QED
    BY <1>s, <2>1, <2>2
<1>10. EvalLoops'
  <2>0. \A i \in 1 .. nSI : LoopOf(i)' = LoopOf(i)
    BY <1>i, <1>m DEF LoopOf
  <2> SUFFICES ASSUME NEW j \in 1 .. nCx - 1, cxstack[j].type \in Evals
               PROVE  InPlace(j)'
    BY <1>s, <1>j DEF EvalLoops
  <2>1. InPlace(j)
    BY <1>s, <1>z DEF EvalLoops
  <2>2. cxstack[j].loop \in 1 .. t
    <3>1. CASE cxstack[nCx].type \in Evals /\ Kind(nC - 1) = "die"
      BY <1>t, <2>1, <3>1, <1>E DEF LeavesContext, t, InPlace
    <3>2. CASE ~(cxstack[nCx].type \in Evals /\ Kind(nC - 1) = "die")
      <4>1. t = nC - 1
        BY <3>2 DEF LeavesContext, t
      <4> QED
        BY <1>s, <1>u, <2>1, <4>1 DEF InPlace
    <3> QED
      BY <3>1, <3>2
  <2>3. \A i \in 1 .. nSI : j <= End(i)' => j <= End(i)
    BY <1>s, <1>e DEF End
  <2> QED
    BY <1>s, <1>T, <1>k, <1>i, <1>j, <2>0, <2>1, <2>2, <2>3 DEF InPlace, Kind
<1> QED
  BY <1>1, <1>2, <1>3, <1>4, <1>5, <1>6, <1>7, <1>8, <1>9, <1>10 DEF Structure

(* A callback or destructor ends, and its stackinfo with it.               *)
EndsInfo ==
  /\ nSI > 1
  /\ \/ nC = si[nSI].frame
     \/ nC = si[nSI].frame + 1 /\ FrameKind(nSI) = "multicall" /\ Kind(nC) = "leave"
  /\ nCx' = si[nSI].base /\ KeepsContexts(nCx') /\ nSI' = nSI - 1 /\ KeepsInfos(nSI - 1)
  /\ nC' = si[nSI].frame - 1 /\ KeepsFunctions(nC')

LEMMA EndInfoStructure ==
  ASSUME Structure, EndsInfo, Catches'
  PROVE  Structure'
<1> DEFINE b == si[nSI].base
           f == si[nSI].frame
<1>z. Sizes /\ Frames /\ Catches /\ Infos /\ Owners /\ Bottoms /\ Leavings /\ Idle /\ Dies /\ EvalLoops
  BY DEF Structure
<1>s. /\ nCx \in Nat /\ nSI \in Nat \ {0, 1} /\ f \in Nat \ {0, 1} /\ nSI' = nSI - 1
      /\ b \in 0 .. nCx /\ nCx' = b /\ nC' = f - 1 /\ f = si[nSI].frame
      /\ nC = f \/ (nC = f + 1 /\ Kind(nC) = "leave")
  BY <1>z DEF Sizes, Frames, Infos, EndsInfo
<1>u. /\ Kind(f) \in {"run", "multicall"}
      /\ Kind(f) = "run" => Kind(f - 1) = "leave"
      /\ Kind(f) = "multicall" => Kind(f - 1) \in {"run", "multicall"}
  BY <1>s, <1>z DEF Infos, FrameKind, Frames
<1> HIDE DEF b, f
<1>f. \A i \in 1 .. nSI - 1 : si[i].frame \in 1 .. f - 1 /\ si[i].base \in 0 .. b
  BY <1>s, <1>z DEF Infos, Sizes, b
<1>k. \A k \in 1 .. f - 1 : /\ Kind(k)' = Kind(k) /\ cstack'[k].to = cstack[k].to
                            /\ cstack'[k].on <=> cstack[k].on
                            /\ cstack'[k].oldcatch <=> cstack[k].oldcatch
  BY <1>s DEF EndsInfo, KeepsFunctions, Kind
<1>i. \A i \in 1 .. nSI - 1 : si'[i].base = si[i].base /\ si'[i].frame = si[i].frame
  BY DEF EndsInfo, KeepsInfos
<1>j. \A j \in 1 .. b : cxstack'[j] = cxstack[j]
  BY <1>s DEF EndsInfo, KeepsContexts
<1>o. \A k \in 1 .. f - 1 : Owned(k)' <=> Owned(k)
  BY <1>s, <1>i DEF Owned
<1>e. \A i \in 1 .. nSI - 1 : End(i)' = End(i) /\ End(i) \in 0 .. b
  <2> SUFFICES ASSUME NEW i \in 1 .. nSI - 1 PROVE End(i)' = End(i) /\ End(i) \in 0 .. b
    OBVIOUS
  <2>1. CASE i = nSI - 1
    BY <1>s, <2>1 DEF End, b
  <2>2. CASE i < nSI - 1
    <3>1. i + 1 \in 1 .. nSI - 1
      BY <1>s, <2>2
    <3> QED
      BY <1>s, <1>i, <1>f, <2>2, <3>1 DEF End
  <2> QED
    BY <1>s, <2>1, <2>2
<1>m. \A i \in 1 .. nSI - 1 : FrameKind(i)' = FrameKind(i)
  BY <1>s, <1>i, <1>k, <1>f DEF FrameKind, Kind
<1>1. Sizes'
  BY <1>s, <1>z, <1>k, <1>i, <1>j DEF Sizes, Kind
<1>2. Frames'
  BY <1>s, <1>z, <1>k DEF Frames, Kind
<1>4. Infos'
  BY <1>s, <1>z, <1>k, <1>i, <1>m, <1>f DEF Sizes, Infos, FrameKind, Kind
<1>5. Owners'
  <2> SUFFICES ASSUME NEW k \in 2 .. f - 1,
                      Kind(k) = "multicall" \/ (Kind(k) = "run" /\ Kind(k - 1) = "leave"), ~Owned(k)
               PROVE  /\ Kind(k) = "multicall"
                      /\ \E d \in k + 1 .. f - 1 : Kind(d) = "die" /\ \A q \in k .. d : ~Owned(q)
    <3>1. \A k \in 2 .. f - 1 : Kind(k)' = Kind(k) /\ Kind(k - 1)' = Kind(k - 1)
      BY <1>s, <1>k
    <3>2. \A k \in 2 .. f - 1 : \A d \in k + 1 .. f - 1 : Kind(d)' = Kind(d)
      BY <1>s, <1>k
    <3> QED
      BY <1>s, <1>o, <3>1, <3>2 DEF Owners, Kind
  <2>1. PICK d \in k + 1 .. f : Kind(d) = "die" /\ \A q \in k .. d : ~Owned(q)
    BY <1>s, <1>z DEF Owners
  <2>2. d \in k + 1 .. f - 1
    BY <1>s, <1>u, <2>1
  <2> QED
    BY <1>s, <1>z, <2>1, <2>2 DEF Owners
<1>6. Bottoms'
  <2> SUFFICES ASSUME NEW i \in 1 .. nSI - 1
               PROVE  /\ si[i].base < End(i) =>
                           IF i = 1 THEN cxstack[1].type # "MULTI"
                           ELSE cxstack[si[i].base + 1].type = IF FrameKind(i) = "run" THEN "EVAL" ELSE "MULTI"
                      /\ i > 1 => si[i].base # End(i)
    <3>1. \A i \in 1 .. nSI - 1 : si[i].base < End(i) => si[i].base + 1 \in 1 .. b
      BY <1>s, <1>e, <1>f
    <3>2. \A i \in 1 .. nSI - 1 : si[i].base < End(i) => cxstack'[si[i].base + 1] = cxstack[si[i].base + 1]
      BY <3>1, <1>j
    <3>3. si[1].base = 0
      BY <1>z DEF Infos
    <3>4. si[1].base < End(1) => cxstack'[1] = cxstack[1]
      BY <1>s, <3>2, <3>3
    <3> QED
      BY <1>s, <1>i, <1>m, <1>e, <3>2, <3>4 DEF Bottoms
  <2> QED
    BY <1>s, <1>z DEF Bottoms
<1>7. Leavings'
  <2>0. \A i \in 2 .. nSI : FrameKind(i) = "run" =>
           /\ Leaving(si[i].frame - 1, i - 1, si[i].base)
           /\ si[i].base \in 1 .. b /\ si[i].frame - 1 \in 2 .. f - 1 /\ si[i].frame - 2 \in 1 .. f - 1
    <3> SUFFICES ASSUME NEW i \in 2 .. nSI, FrameKind(i) = "run"
                 PROVE  /\ Leaving(si[i].frame - 1, i - 1, si[i].base)
                        /\ si[i].base \in 1 .. b
                        /\ si[i].frame - 1 \in 2 .. f - 1 /\ si[i].frame - 2 \in 1 .. f - 1
      OBVIOUS
    <3>1. Leaving(si[i].frame - 1, i - 1, si[i].base)
      BY <1>z DEF Leavings
    <3>2. si[i].base \in 1 .. b
      BY <1>s, <1>f, <1>z, <3>1 DEF Leaving, Infos, Sizes, b
    <3>3. si[i].frame \in 2 .. f /\ Kind(si[i].frame - 1) = "leave"
      BY <1>s, <1>z DEF Infos, Sizes, Frames, FrameKind
    <3>4. si[i].frame - 1 # 1
      BY <3>3, <1>z DEF Frames
    <3> QED
      BY <1>s, <3>1, <3>2, <3>3, <3>4
  <2>2. ASSUME NEW i \in 2 .. nSI, FrameKind(i) = "run"
        PROVE  /\ Leaving(si[i].frame - 1, i - 1, si[i].base)
               /\ cstack'[si[i].frame - 1].to = cstack[si[i].frame - 1].to
               /\ cstack'[si[i].frame - 2].kind = cstack[si[i].frame - 2].kind
               /\ cstack'[si[i].frame - 2].on <=> cstack[si[i].frame - 2].on
               /\ cxstack'[si[i].base] = cxstack[si[i].base]
               /\ si'[i - 1].base = si[i - 1].base
               /\ (si[i].frame - 1) - 1 = si[i].frame - 2
    <3>1. i - 1 \in 1 .. nSI - 1 /\ si[i].frame \in Nat
      BY <1>s, <1>z DEF Sizes
    <3> QED
      BY <1>s, <1>i, <1>j, <1>k, <2>0, <2>2, <3>1 DEF Kind
  <2>3. \A i \in 2 .. nSI - 1 : FrameKind(i) = "run" => Leaving(si[i].frame - 1, i - 1, si[i].base)'
    <3> SUFFICES ASSUME NEW i \in 2 .. nSI - 1, FrameKind(i) = "run"
                 PROVE  Leaving(si[i].frame - 1, i - 1, si[i].base)'
      OBVIOUS
    <3>1. si'[i].base = si[i].base /\ si'[i].frame = si[i].frame /\ i \in 2 .. nSI
      BY <1>s, <1>i
    <3> QED
      BY <2>2, <3>1 DEF Leaving, Ends, Kind
  <2>4. ASSUME Kind(f - 1) = "leave"
        PROVE  Leaving(nC, nSI, nCx)'
    <3>1. FrameKind(nSI) = "run" /\ nSI \in 2 .. nSI
      BY <1>s, <1>u, <2>4 DEF FrameKind
    <3>2. /\ Leaving(f - 1, nSI - 1, b)
          /\ cstack'[f - 1].to = cstack[f - 1].to
          /\ cstack'[f - 2].kind = cstack[f - 2].kind
          /\ cstack'[f - 2].on <=> cstack[f - 2].on
          /\ cxstack'[b] = cxstack[b]
          /\ si'[nSI - 1].base = si[nSI - 1].base
          /\ (f - 1) - 1 = f - 2
      BY <1>s, <2>2, <3>1 DEF b
    <3> QED
      BY <1>s, <3>2 DEF Leaving, Ends, Kind
  <2>5. Kind(nC)' = Kind(f - 1)
    BY <1>s, <1>k DEF Kind
  <2> QED
    BY <1>s, <1>i, <1>m, <2>3, <2>4, <2>5 DEF Leavings
<1>8. Idle'
  BY <1>s, <1>u, <1>k, <1>z DEF Idle, Kind, Frames
<1>9. Dies'
  <2> SUFFICES ASSUME NEW d \in 1 .. f - 1, Kind(d) = "die"
               PROVE  \E j \in 1 .. b : cxstack[j].type \in Evals /\ cxstack[j].loop < d
    BY <1>s, <1>j, <1>k DEF Dies, Kind
  <2>1. PICK j \in 1 .. nCx : cxstack[j].type \in Evals /\ cxstack[j].loop < d
    BY <1>s, <1>z DEF Dies
  <2>2. InPlace(j)
    BY <1>z, <2>1 DEF EvalLoops
  <2>3. j > b => cxstack[j].loop >= f
    BY <1>s, <2>2 DEF InPlace, LoopOf, End, b
  <2> QED
    BY <1>s, <1>z, <2>1, <2>3 DEF Sizes
<1>10. EvalLoops'
  <2>0. \A i \in 1 .. nSI - 1 : LoopOf(i)' = LoopOf(i)
    BY <1>i, <1>m DEF LoopOf
  <2> SUFFICES ASSUME NEW j \in 1 .. b, cxstack[j].type \in Evals
               PROVE  InPlace(j)'
    BY <1>s, <1>j DEF EvalLoops
  <2>1. InPlace(j)
    BY <1>s, <1>z DEF EvalLoops
  <2>2. cxstack[j].loop \in 1 .. f - 1
    BY <1>s, <2>1 DEF InPlace, b
  <2> QED
    BY <1>s, <1>k, <1>i, <1>j, <1>e, <2>0, <2>1, <2>2 DEF InPlace, Kind
<1> QED
  BY <1>1, <1>2, <1>4, <1>5, <1>6, <1>7, <1>8, <1>9, <1>10 DEF Structure

(* A die has emptied the stackinfo of a callback.                          *)
DropsInfo ==
  /\ Kind(nC) = "die" /\ nSI > 1 /\ nCx = si[nSI].base
  /\ nSI' = nSI - 1 /\ KeepsInfos(nSI - 1) /\ UNCHANGED <<cxstack, cstack>>

LEMMA DropInfoStructure ==
  ASSUME Structure, DropsInfo
  PROVE  Structure'
<1> DEFINE f == si[nSI].frame
<1>z. Sizes /\ Frames /\ Catches /\ Infos /\ Owners /\ Bottoms /\ Leavings /\ Idle /\ Dies /\ EvalLoops
  BY DEF Structure
<1>s. /\ nCx \in Nat /\ nSI \in Nat \ {0, 1} /\ nC \in Nat \ {0} /\ nSI' = nSI - 1
      /\ nCx' = nCx /\ nC' = nC /\ nCx = si[nSI].base /\ f \in 1 .. nC - 1
      /\ cxstack' = cxstack /\ cstack' = cstack /\ Kind(nC) = "die"
  <2>1. nCx \in Nat /\ nSI \in Nat \ {0} /\ nC \in Nat \ {0} /\ f \in 1 .. nC
    <3>1. CurrentIsLast
      BY <1>z, LastInfo
    <3> QED
      BY <1>z, <3>1 DEF Sizes, CurrentIsLast
  <2>2. /\ cxstack' = cxstack /\ cstack' = cstack /\ Kind(nC) = "die"
        /\ nSI > 1 /\ nSI' = nSI - 1 /\ nCx = si[nSI].base
    BY DEF DropsInfo
  <2>3. nCx' = nCx /\ nC' = nC
    BY <2>2 DEF nCx, nC
  <2>4. f # nC
    <3>1. Kind(f) \in {"multicall", "run"}
      BY <1>z, <2>1, <2>2 DEF Infos, FrameKind
    <3> QED
      BY <2>2, <3>1
  <2> QED
    BY <2>1, <2>2, <2>3, <2>4
<1>u. FrameKind(nSI) = "multicall"
  <2>1. FrameKind(nSI) = "run" => si[nSI].frame = nC
    BY <1>s, <1>z DEF Bottoms, End
  <2> QED
    BY <1>s, <1>z, <2>1 DEF Infos, FrameKind
<1>K. \A k : Kind(k)' = Kind(k)
  BY <1>s DEF Kind
<1>i. \A i \in 1 .. nSI - 1 : si'[i].base = si[i].base /\ si'[i].frame = si[i].frame
  BY DEF DropsInfo, KeepsInfos
<1>f. \A i \in 1 .. nSI - 1 : si[i].frame \in 1 .. f - 1 /\ si[i].base \in 0 .. nCx
  BY <1>s, <1>z DEF Infos, Sizes
<1>o. /\ \A k : Owned(k)' => Owned(k)
      /\ \A k : Owned(k) /\ k # f => Owned(k)'
      /\ \A k : k = f => ~Owned(k)'
      /\ \A q \in f + 1 .. nC : ~Owned(q)
  <2>1. \A k : Owned(k)' <=> \E i \in 1 .. nSI - 1 : si[i].frame = k
    BY <1>s, <1>i DEF Owned
  <2>2. \A k : Owned(k) <=> k = f \/ \E i \in 1 .. nSI - 1 : si[i].frame = k
    BY <1>s DEF Owned
  <2> HIDE DEF f
  <2> QED
    BY <1>s, <1>f, <2>1, <2>2
<1>e. \A i \in 1 .. nSI - 1 : End(i)' = End(i) /\ End(i) \in 0 .. nCx
  <2> SUFFICES ASSUME NEW i \in 1 .. nSI - 1 PROVE End(i)' = End(i) /\ End(i) \in 0 .. nCx
    OBVIOUS
  <2>1. CASE i = nSI - 1
    BY <1>s, <2>1 DEF End
  <2>2. CASE i < nSI - 1
    <3>1. i + 1 \in 1 .. nSI - 1
      BY <1>s, <2>2
    <3> QED
      BY <1>s, <1>i, <1>f, <2>2, <3>1 DEF End
  <2> QED
    BY <1>s, <2>1, <2>2
<1>m. \A i \in 1 .. nSI - 1 : FrameKind(i)' = FrameKind(i)
  BY <1>K, <1>i DEF FrameKind, Kind
<1>1. Sizes'
  BY <1>s, <1>z, <1>K, <1>i DEF Sizes, Kind
<1>2. Frames'
  BY <1>s, <1>z DEF Frames, Kind
<1>3. Catches'
  BY <1>s, <1>z DEF Catches, Kind
<1>4. Infos'
  BY <1>s, <1>z, <1>i, <1>m, <1>f DEF Sizes, Infos, FrameKind, Kind
<1>5. Owners'
  <2> SUFFICES ASSUME NEW k \in 2 .. nC,
                      Kind(k) = "multicall" \/ (Kind(k) = "run" /\ Kind(k - 1) = "leave"), ~Owned(k)'
               PROVE  /\ Kind(k) = "multicall"
                      /\ \E d \in k + 1 .. nC : Kind(d) = "die" /\ \A q \in k .. d : ~Owned(q)'
    BY <1>s, <1>K DEF Owners, Kind
  <2>1. CASE k = f
    <3>1. \A q \in f .. nC : ~Owned(q)'
      BY <1>s, <1>o
    <3>2. nC \in f + 1 .. nC
      BY <1>s
    <3> QED
      BY <1>s, <1>u, <2>1, <3>1, <3>2 DEF FrameKind
  <2>2. CASE k # f
    BY <1>z, <1>o, <2>2 DEF Owners
  <2> QED
    BY <2>1, <2>2
<1>6. Bottoms'
  <2> SUFFICES ASSUME NEW i \in 1 .. nSI - 1
               PROVE  /\ si[i].base < End(i) =>
                           IF i = 1 THEN cxstack[1].type # "MULTI"
                           ELSE cxstack[si[i].base + 1].type = IF FrameKind(i) = "run" THEN "EVAL" ELSE "MULTI"
                      /\ i > 1 => si[i].base # End(i)
    BY <1>s, <1>i, <1>m, <1>e DEF Bottoms
  <2> QED
    BY <1>s, <1>z DEF Bottoms
<1>7. Leavings'
  <2>1. \A i \in 2 .. nSI - 1 : FrameKind(i) = "run" => Leaving(si[i].frame - 1, i - 1, si[i].base)'
    <3> SUFFICES ASSUME NEW i \in 2 .. nSI - 1, FrameKind(i) = "run"
                 PROVE  Leaving(si[i].frame - 1, i - 1, si[i].base)'
      OBVIOUS
    <3>1. /\ si'[i].base = si[i].base /\ si'[i].frame = si[i].frame
          /\ i \in 2 .. nSI /\ si'[i - 1].base = si[i - 1].base
      BY <1>s, <1>i
    <3>2. Leaving(si[i].frame - 1, i - 1, si[i].base)
      BY <1>z, <3>1 DEF Leavings
    <3> QED
      BY <1>s, <3>1, <3>2 DEF Leaving, Ends, Kind
  <2> QED
    BY <1>s, <1>K, <1>i, <1>m, <2>1 DEF Leavings, Kind
<1>8. Idle'
  BY <1>s DEF Idle, Kind
<1>9. Dies'
  BY <1>s, <1>z DEF Dies, Kind
<1>10. EvalLoops'
  <2>0. \A i \in 1 .. nSI - 1 : LoopOf(i)' = LoopOf(i)
    BY <1>i, <1>m DEF LoopOf
  <2> SUFFICES ASSUME NEW j \in 1 .. nCx, cxstack[j].type \in Evals
               PROVE  InPlace(j)'
    BY <1>s DEF EvalLoops
  <2>1. InPlace(j)
    BY <1>z DEF EvalLoops
  <2> QED
    BY <1>s, <1>i, <1>e, <2>0, <2>1 DEF InPlace, Kind
<1> QED
  BY <1>1, <1>2, <1>3, <1>4, <1>5, <1>6, <1>7, <1>8, <1>9, <1>10 DEF Structure

(* A destructor or a callback starts on a stackinfo of its own.            *)
PushesInfo(c) ==
  /\ nCx' = nCx + 1 /\ KeepsContexts(nCx) /\ cxstack'[nCx + 1] = c /\ IsContext(c)
  /\ nSI' = nSI + 1 /\ KeepsInfos(nSI)
  /\ si'[nSI + 1].base = nCx /\ si'[nSI + 1].frame = nC + 1
  /\ nC' = nC + 1 /\ KeepsFunctions(nC)
  /\ ~cstack'[nC + 1].on /\ cstack'[nC + 1].to \in Nat
  /\ \/ /\ Kind(nC) = "leave" /\ cstack'[nC + 1].kind = "run"
        /\ c.type = "EVAL" /\ c.cur_top_env = nC + 1 /\ c.loop = nC + 1
     \/ /\ OpsRun /\ cstack'[nC + 1].kind = "multicall" /\ c.type = "MULTI"

LEMMA PushInfoStructure ==
  ASSUME NEW c, Structure, PushesInfo(c), Catches'
  PROVE  Structure'
<1>z. Sizes /\ Frames /\ Catches /\ Infos /\ Owners /\ Bottoms /\ Leavings /\ Idle /\ Dies /\ EvalLoops
  BY DEF Structure
<1>s. /\ nCx \in Nat /\ nSI \in Nat \ {0} /\ nC \in Nat \ {0} /\ nSI' = nSI + 1
      /\ nCx' = nCx + 1 /\ nC' = nC + 1
  BY <1>z DEF Sizes, Frames, Infos, PushesInfo
<1>f. \A i \in 1 .. nSI : si[i].frame \in 1 .. nC /\ si[i].base \in 0 .. nCx
  BY <1>s, <1>z DEF Infos, Sizes
<1>k. \A k \in 1 .. nC : /\ Kind(k)' = Kind(k) /\ cstack'[k].to = cstack[k].to
                         /\ cstack'[k].on <=> cstack[k].on
  BY DEF PushesInfo, KeepsFunctions, Kind
<1>i. \A i \in 1 .. nSI : si'[i].base = si[i].base /\ si'[i].frame = si[i].frame
  BY DEF PushesInfo, KeepsInfos
<1>I. si'[nSI + 1].base = nCx /\ si'[nSI + 1].frame = nC + 1
  BY DEF PushesInfo
<1>j. (\A j \in 1 .. nCx : cxstack'[j] = cxstack[j]) /\ cxstack'[nCx + 1] = c
  BY DEF PushesInfo, KeepsContexts
<1>c. /\ ~cstack'[nC + 1].on /\ cstack'[nC + 1].to \in Nat /\ IsContext(c)
      /\ \/ /\ Kind(nC) = "leave" /\ cstack'[nC + 1].kind = "run"
            /\ c.type = "EVAL" /\ c.cur_top_env = nC + 1 /\ c.loop = nC + 1
         \/ /\ Kind(nC) \in {"run", "multicall"} /\ (Kind(nC) = "multicall" => cstack[nC].on)
            /\ nSI > 1 => nCx > si[nSI].base
            /\ cstack'[nC + 1].kind = "multicall" /\ c.type = "MULTI"
  BY DEF PushesInfo, OpsRun
<1>n. /\ \A k \in 1 .. nC + 1 : k = nC + 1 \/ k \in 1 .. nC
      /\ \A i \in 1 .. nSI + 1 : i = nSI + 1 \/ i \in 1 .. nSI
      /\ \A j \in 1 .. nCx + 1 : j = nCx + 1 \/ j \in 1 .. nCx
  BY <1>s
<1>o. /\ \A k \in 1 .. nC : Owned(k)' <=> Owned(k)
      /\ \A k : k = nC + 1 => Owned(k)'
  BY <1>s, <1>f, <1>i, <1>I, <1>n DEF Owned
<1>e. /\ \A i \in 1 .. nSI : End(i)' = End(i) /\ End(i) \in 0 .. nCx
      /\ \A i : i = nSI + 1 => End(i)' = nCx + 1
  <2> SUFFICES ASSUME NEW i \in 1 .. nSI PROVE End(i)' = End(i) /\ End(i) \in 0 .. nCx
    BY <1>s DEF End
  <2>1. CASE i = nSI
    BY <1>s, <1>I, <2>1 DEF End
  <2>2. CASE i < nSI
    BY <1>s, <1>i, <1>f, <2>2 DEF End
  <2> QED
    BY <1>s, <2>1, <2>2
<1>m. /\ \A i \in 1 .. nSI : FrameKind(i)' = FrameKind(i)
      /\ \A i : i = nSI + 1 => FrameKind(i)' = cstack'[nC + 1].kind
  BY <1>s, <1>i, <1>k, <1>f, <1>I DEF FrameKind, Kind
<1>1. Sizes'
  <2>1. c.type \in Subs \cup Evals \cup {"FORMAT", "LOOP"} /\ c.oldsaveix \in Nat
        /\ c.loop \in Nat /\ c.cur_top_env \in Nat
    BY <1>c DEF IsContext
  <2>2. \A j \in 1 .. nCx' : /\ cxstack'[j].type \in Subs \cup Evals \cup {"FORMAT", "LOOP"}
                             /\ cxstack'[j].oldsaveix \in Nat /\ cxstack'[j].loop \in Nat
                             /\ cxstack'[j].cur_top_env \in Nat
    BY <1>s, <1>j, <1>n, <1>z, <2>1 DEF Sizes
  <2>3. \A i \in 1 .. nSI' : si'[i].base \in Nat /\ si'[i].frame \in Nat
    BY <1>s, <1>i, <1>I, <1>n, <1>z DEF Sizes
  <2>4. \A k \in 1 .. nC' : Kind(k)' \in {"run", "multicall", "leave", "die"} /\ cstack'[k].to \in Nat
    BY <1>s, <1>k, <1>c, <1>n, <1>z DEF Sizes, Kind
  <2> QED
    BY <1>s, <2>2, <2>3, <2>4 DEF Sizes
<1>2. Frames'
  BY <1>s, <1>z, <1>k, <1>c, <1>n DEF Frames, Kind
<1>4. Infos'
  <2>1. \A i \in 1 .. nSI + 1 : si'[i].frame <= nC + 1 /\ si'[i].base <= nCx + 1
    BY <1>s, <1>f, <1>i, <1>I, <1>n
  <2>2. \A i, l \in 1 .. nSI + 1 : i < l => si'[i].frame < si'[l].frame /\ si'[i].base <= si'[l].base
    <3> SUFFICES ASSUME NEW i \in 1 .. nSI + 1, NEW l \in 1 .. nSI + 1, i < l
                 PROVE  si'[i].frame < si'[l].frame /\ si'[i].base <= si'[l].base
      OBVIOUS
    <3>1. i \in 1 .. nSI
      BY <1>s
    <3>2. CASE l = nSI + 1
      BY <1>s, <1>f, <1>i, <1>I, <3>1, <3>2
    <3>3. CASE l \in 1 .. nSI
      BY <1>i, <1>z, <3>1, <3>3 DEF Infos
    <3> QED
      BY <1>n, <3>2, <3>3
  <2>3. \A i \in 2 .. nSI + 1 : \/ FrameKind(i)' = "multicall"
                                \/ FrameKind(i)' = "run" /\ cstack'[si'[i].frame - 1].kind = "leave"
    <3> SUFFICES ASSUME NEW i \in 2 .. nSI + 1
                 PROVE  \/ FrameKind(i)' = "multicall"
                        \/ FrameKind(i)' = "run" /\ cstack'[si'[i].frame - 1].kind = "leave"
      OBVIOUS
    <3>1. CASE i = nSI + 1
      BY <1>s, <1>c, <1>k, <1>I, <1>m, <3>1 DEF Kind
    <3>2. CASE i \in 2 .. nSI
      <4>1. si[i].frame - 1 \in 1 .. nC
        BY <1>s, <1>f, <1>z, <3>2 DEF Infos, Sizes
      <4>2. \/ FrameKind(i) = "multicall"
            \/ FrameKind(i) = "run" /\ Kind(si[i].frame - 1) = "leave"
        BY <1>z, <3>2 DEF Infos
      <4> QED
        BY <1>i, <1>k, <1>m, <3>2, <4>1, <4>2 DEF Kind
    <3> QED
      BY <1>s, <3>1, <3>2
  <2> QED
    BY <1>s, <1>i, <1>z, <2>1, <2>2, <2>3 DEF Infos, Kind
<1>5. Owners'
  <2> SUFFICES ASSUME NEW k \in 2 .. nC, Kind(k) = "multicall" \/ (Kind(k) = "run" /\ Kind(k - 1) = "leave"),
                      ~Owned(k)
               PROVE  /\ Kind(k) = "multicall"
                      /\ \E d \in k + 1 .. nC : Kind(d) = "die" /\ \A q \in k .. d : ~Owned(q)
    <3>1. \A k \in 2 .. nC : Kind(k)' = Kind(k) /\ Kind(k - 1)' = Kind(k - 1)
      BY <1>s, <1>k
    <3>2. \A k \in 2 .. nC : \A d \in k + 1 .. nC : Kind(d)' = Kind(d)
      BY <1>s, <1>k
    <3> QED
      BY <1>s, <1>n, <1>o, <3>1, <3>2 DEF Owners, Kind
  <2> QED
    BY <1>z DEF Owners
<1>6. Bottoms'
  <2>0. nSI > 1 => si[nSI].base # End(nSI)
    BY <1>s, <1>c, <1>z DEF Leavings, Leaving, End
  <2> SUFFICES ASSUME NEW i \in 1 .. nSI
               PROVE  /\ si[i].base < End(i) =>
                           IF i = 1 THEN cxstack[1].type # "MULTI"
                           ELSE cxstack[si[i].base + 1].type = IF FrameKind(i) = "run" THEN "EVAL" ELSE "MULTI"
                      /\ i > 1 => si[i].base # End(i)
    <3>1. \A i \in 1 .. nSI : si[i].base < End(i) => si[i].base + 1 \in 1 .. nCx
      BY <1>s, <1>e, <1>f
    <3>2. \A i \in 1 .. nSI : si[i].base < End(i) => cxstack'[si[i].base + 1] = cxstack[si[i].base + 1]
      BY <3>1, <1>j
    <3>3. si[1].base = 0
      BY <1>z DEF Infos
    <3>4. si[1].base < End(1) => cxstack'[1] = cxstack[1]
      BY <1>s, <3>2, <3>3
    <3>5. \A i : i = nSI + 1 => cxstack'[nCx + 1].type = IF FrameKind(i)' = "run" THEN "EVAL" ELSE "MULTI"
      BY <1>j, <1>c, <1>m
    <3> QED
      BY <1>s, <1>n, <1>i, <1>I, <1>m, <1>e, <3>2, <3>4, <3>5 DEF Bottoms
  <2> QED
    BY <1>s, <1>z, <2>0 DEF Bottoms
<1>7. Leavings'
  <2>1. Kind(nC)' # "leave"
    BY <1>s, <1>c DEF Kind
  <2>2. ASSUME NEW i \in 2 .. nSI, FrameKind(i) = "run"
        PROVE  Leaving(si[i].frame - 1, i - 1, si[i].base)'
    <3>1. Leaving(si[i].frame - 1, i - 1, si[i].base)
      BY <1>z, <2>2 DEF Leavings
    <3>2. /\ si[i].base \in 1 .. nCx
          /\ si[i].frame - 1 \in 2 .. nC /\ si[i].frame - 1 - 1 \in 1 .. nC
      BY <1>s, <1>z, <2>2, <3>1 DEF Leaving, Infos, Sizes, Frames, FrameKind, Kind
    <3>3. /\ si'[i].frame = si[i].frame /\ si'[i].base = si[i].base /\ si'[i - 1].base = si[i - 1].base
          /\ cxstack'[si[i].base] = cxstack[si[i].base]
          /\ cstack'[si[i].frame - 1].to = cstack[si[i].frame - 1].to
          /\ cstack'[si[i].frame - 1 - 1].kind = cstack[si[i].frame - 1 - 1].kind
          /\ cstack'[si[i].frame - 1 - 1].on <=> cstack[si[i].frame - 1 - 1].on
      BY <1>s, <1>i, <1>j, <1>k, <2>2, <3>2 DEF Kind
    <3> QED
      BY <3>1, <3>3 DEF Leaving, Ends, Kind
  <2>3. ASSUME NEW k, NEW i, NEW e, k = nC, i = nSI, e = nCx, cstack'[nC + 1].kind = "run"
        PROVE  Leaving(k, i, e)'
    <3>1. Leaving(nC, nSI, nCx) /\ Kind(nC) = "leave"
      BY <1>z, <1>c, <2>3 DEF Leavings
    <3>2. nCx \in 1 .. nCx /\ nC - 1 \in 1 .. nC /\ nC \in 1 .. nC
      BY <1>s, <1>f, <1>z, <3>1 DEF Leaving, Frames
    <3> QED
      BY <1>s, <1>i, <1>j, <1>k, <2>3, <3>1, <3>2 DEF Leaving, Ends, Kind
  <2>4. ASSUME NEW i \in 2 .. nSI + 1, FrameKind(i)' = "run"
        PROVE  Leaving(si[i].frame - 1, i - 1, si[i].base)'
    <3>1. CASE i \in 2 .. nSI
      BY <1>i, <1>m, <2>2, <2>4, <3>1
    <3>2. CASE i = nSI + 1
      <4>1. si'[i].frame - 1 = nC /\ si'[i].base = nCx /\ i - 1 = nSI /\ cstack'[nC + 1].kind = "run"
        BY <1>s, <1>I, <1>m, <2>4, <3>2
      <4> QED
        BY <2>3, <4>1
    <3> QED
      BY <1>s, <3>1, <3>2
  <2> QED
    BY <1>s, <2>1, <2>4 DEF Leavings
<1>8. Idle'
  BY <1>s, <1>I DEF Idle, Kind
<1>9. Dies'
  BY <1>s, <1>z, <1>j, <1>k, <1>c, <1>n DEF Dies, Kind
<1>10. EvalLoops'
  <2>0. (\A i \in 1 .. nSI : LoopOf(i)' = LoopOf(i))
    BY <1>i, <1>m DEF LoopOf
  <2> SUFFICES ASSUME NEW j \in 1 .. nCx + 1, cxstack'[j].type \in Evals
               PROVE  InPlace(j)'
    BY <1>s DEF EvalLoops
  <2>1. c.type \in Evals => c.type = "EVAL" /\ c.cur_top_env = nC + 1 /\ c.loop = nC + 1
                            /\ cstack'[nC + 1].kind = "run"
    BY <1>c DEF Evals
  <2>2. CASE j \in 1 .. nCx
    <3>1. InPlace(j) /\ cxstack'[j] = cxstack[j]
      BY <1>z, <1>j, <2>2 DEF EvalLoops
    <3>2. \A l \in j .. nCx + 1 : cxstack'[l].type \in Evals => cxstack[j].loop <= cxstack'[l].loop
      BY <1>s, <1>j, <2>1, <2>2, <3>1 DEF InPlace
    <3>3. cxstack[j].loop \in 1 .. nC + 1 /\ cstack'[cxstack[j].loop].kind = "run" /\ cxstack[j].loop < nC + 1
      BY <1>s, <1>k, <3>1 DEF InPlace, Kind
    <3>4. \A i \in 1 .. nSI + 1 :
            /\ j <= si'[i].base => cxstack[j].loop < si'[i].frame
            /\ si'[i].base < j /\ j <= End(i)' => cxstack[j].loop = LoopOf(i)'
      BY <1>s, <1>n, <1>i, <1>I, <1>e, <2>0, <2>2, <3>1, <3>3 DEF InPlace
    <3> QED
      BY <1>s, <3>1, <3>2, <3>3, <3>4 DEF InPlace, Kind
  <2>3. CASE j = nCx + 1
    <3>1. cxstack'[j] = c /\ c.loop = nC + 1 /\ c.cur_top_env = nC + 1 /\ cstack'[nC + 1].kind = "run"
      BY <1>j, <2>1, <2>3
    <3>2. \A l \in j .. nCx + 1 : l = j
      BY <1>s, <2>3
    <3>3. \A i \in 1 .. nSI + 1 :
            /\ ~(j <= si'[i].base)
            /\ j <= End(i)' => LoopOf(i)' = nC + 1
      BY <1>s, <1>n, <1>i, <1>I, <1>f, <1>e, <1>m, <2>3, <3>1 DEF LoopOf
    <3> QED
      BY <1>s, <3>1, <3>2, <3>3 DEF InPlace, Kind
  <2> QED
    BY <1>n, <2>2, <2>3
<1> QED
  BY <1>1, <1>2, <1>4, <1>5, <1>6, <1>7, <1>8, <1>9, <1>10 DEF Structure

LEMMA SameStructure ==
  ASSUME Structure, UNCHANGED stacks
  PROVE  Structure'
<1>1. cxstack' = cxstack /\ si' = si /\ cstack' = cstack
  BY DEF stacks
<1> QED
  BY <1>1 DEF Structure, Sizes, Frames, Catches, Infos, Owners, Owned, Bottoms, Leavings, Leaving, Ends,
     Idle, Dies, EvalLoops, InPlace, LoopOf, FrameKind, Kind, End, nCx, nSI, nC

-----------------------------------------------------------------------------
(* The actions take these shapes.                                          *)

LEMMA TopsOfStacks ==
  ASSUME TypeOK, Structure
  PROVE  /\ nCx \in Nat /\ nSI \in Nat \ {0} /\ nC \in Nat \ {0}
         /\ DOMAIN cxstack = 1 .. nCx /\ DOMAIN si = 1 .. nSI /\ DOMAIN cstack = 1 .. nC
         /\ Last(si) = si[nSI] /\ Code = cstack[nC] /\ Top = cxstack[nCx]
         /\ si[nSI].base \in 0 .. nCx /\ cxstack_ix = nCx - si[nSI].base - 1
<1>1. /\ nCx \in Nat /\ nSI \in Nat \ {0} /\ nC \in Nat \ {0}
      /\ si[nSI].base \in 0 .. nCx
  BY DEF Structure, Sizes, Frames, Infos
<1>2. DOMAIN cxstack = 1 .. nCx /\ DOMAIN si = 1 .. nSI /\ DOMAIN cstack = 1 .. nC
  BY DEF TypeOK, nCx, nSI, nC
<1>3. Last(si) = si[nSI] /\ Code = cstack[nC] /\ Top = cxstack[nCx]
  BY DEF Last, Code, Top, nCx, nSI, nC
<1>4. cxstack_ix = nCx - si[nSI].base - 1
  BY <1>3 DEF cxstack_ix, nCx
<1> QED
  BY <1>1, <1>2, <1>3, <1>4

LEMMA OpsRunning ==
  ASSUME TypeOK, Structure, RunsOps
  PROVE  OpsRun
<1>1. /\ nCx \in Nat /\ nSI \in Nat \ {0} /\ nC \in Nat \ {0}
      /\ Code = cstack[nC] /\ si[nSI].base \in 0 .. nCx /\ cxstack_ix = nCx - si[nSI].base - 1
  BY TopsOfStacks
<1>2. CASE cstack[nC].on
  <2>1. Kind(nC) = "multicall"
    BY <1>1, <1>2 DEF Structure, Frames
  <2>2. nSI > 1 => nCx > si[nSI].base
    BY <1>1, <2>1 DEF Structure, Bottoms, End, FrameKind
  <2> QED
    BY <1>2, <2>1, <2>2 DEF OpsRun
<1>3. CASE ~cstack[nC].on
  <2>1. Kind(nC) = "run" /\ (cxstack_ix >= 0 \/ Len(si) = 1)
    BY <1>1, <1>3 DEF RunsOps, Kind
  <2> QED
    BY <1>1, <2>1 DEF OpsRun, nSI
<1> QED
  BY <1>2, <1>3

(* je_mustcatch of the topmost JMPENV says that a callback runs above it,  *)
(* scopes that are being left aside.                                       *)
LEMMA CatchBelow ==
  ASSUME TypeOK, Structure, NEW n \in 1 .. nC, Kind(n) \in {"run", "multicall"},
         \A k \in n + 1 .. nC : Kind(k) = "leave"
  PROVE  /\ TopEnv \in 1 .. n /\ Kind(TopEnv) = "run"
         /\ \A k \in TopEnv + 1 .. n : Kind(k) = "multicall"
         /\ Kind(n) = "run" => TopEnv = n
<1>1. DOMAIN cstack = 1 .. nC /\ nC \in Nat \ {0}
  BY TopsOfStacks
<1>2. /\ TopEnv \in 1 .. nC /\ Kind(TopEnv) = "run"
      /\ \A k \in TopEnv + 1 .. nC : Kind(k) # "run"
  BY <1>1, TopEnvIs DEF Structure
<1>3. TopEnv \in 1 .. n
  <2>1. TopEnv > n => TopEnv \in n + 1 .. nC
    BY <1>1, <1>2
  <2> QED
    BY <1>1, <1>2, <2>1
<1> DEFINE T == {k \in TopEnv + 1 .. n : Kind(k) # "multicall"}
<1>4. T = {}
  <2> SUFFICES ASSUME T # {} PROVE FALSE
    OBVIOUS
  <2>1. T \subseteq 1 .. n /\ n \in Nat
    BY <1>1, <1>3
  <2>2. PICK x \in T : \A y \in T : y <= x
    <3> HIDE DEF T
    <3> QED
      BY <2>1, GreatestExists
  <2>3. x < n /\ x + 1 \in TopEnv + 1 .. n /\ x \in TopEnv + 1 .. nC
    BY <1>1, <1>2, <1>3
  <2>4. Kind(x + 1) = "multicall"
    BY <2>2, <2>3
  <2>5. Kind(x) \in {"run", "multicall"}
    BY <1>1, <1>2, <1>3, <2>3, <2>4 DEF Structure, Frames
  <2> QED
    BY <1>2, <2>3, <2>5
<1> HIDE DEF T
<1>5. \A k \in TopEnv + 1 .. n : Kind(k) = "multicall"
  BY <1>4 DEF T
<1>6. TopEnv < n => n \in TopEnv + 1 .. n
  BY <1>1, <1>3
<1> QED
  BY <1>1, <1>2, <1>3, <1>5, <1>6

LEMMA CatchIs ==
  ASSUME TypeOK, Structure, Kind(nC) \in {"run", "multicall"}
  PROVE  /\ TopEnv \in 1 .. nC /\ Kind(TopEnv) = "run"
         /\ \A k \in TopEnv + 1 .. nC : Kind(k) = "multicall"
         /\ CATCH_GET <=> Kind(nC) = "multicall"
<1>1. nC \in 1 .. nC /\ nC + 1 .. nC = {}
  BY TopsOfStacks
<1>2. /\ TopEnv \in 1 .. nC /\ Kind(TopEnv) = "run"
      /\ \A k \in TopEnv + 1 .. nC : Kind(k) = "multicall"
      /\ Kind(nC) = "run" => TopEnv = nC
  BY <1>1, CatchBelow
<1>3. CATCH_GET <=> TopEnv < nC /\ Kind(TopEnv + 1) = "multicall"
  BY <1>2 DEF Structure, Catches, CATCH_GET
<1>4. TopEnv < nC => nC \in TopEnv + 1 .. nC /\ TopEnv + 1 \in TopEnv + 1 .. nC
  BY <1>1, <1>2
<1> QED
  BY <1>1, <1>2, <1>3, <1>4

(* Pushing and popping contexts.                                           *)
LEMMA ContextPushed ==
  ASSUME TypeOK, NEW c, cxstack' = Append(cxstack, c)
  PROVE  nCx' = nCx + 1 /\ KeepsContexts(nCx) /\ cxstack'[nCx + 1] = c
<1>1. cxstack \in Seq(Context)
  BY DEF TypeOK
<1> QED
  BY <1>1 DEF nCx, KeepsContexts

LEMMA Prefix ==
  ASSUME NEW S, NEW s \in Seq(S), NEW n \in 0 .. Len(s)
  PROVE  /\ SubSeq(s, 1, n) \in Seq(S) /\ Len(SubSeq(s, 1, n)) = n
         /\ \A i \in 1 .. n : SubSeq(s, 1, n)[i] = s[i]
<1>1. n \in Int /\ \A i \in 1 .. n : s[i] \in S
  OBVIOUS
<1>2. /\ SubSeq(s, 1, n) \in Seq(S)
      /\ Len(SubSeq(s, 1, n)) = IF 1 <= n THEN n - 1 + 1 ELSE 0
      /\ \A i \in 1 .. n - 1 + 1 : SubSeq(s, 1, n)[i] = s[1 + i - 1]
  BY <1>1, SubSeqProperties
<1> QED
  BY <1>2

LEMMA ContextPopped ==
  ASSUME TypeOK, nCx > 0, cxstack' = Front(cxstack)
  PROVE  nCx' = nCx - 1 /\ KeepsContexts(nCx - 1) /\ cxstack' \in Seq(Context)
<1>1. cxstack \in Seq(Context) /\ nCx \in Nat
  BY DEF TypeOK, nCx
<1>2. cxstack' = SubSeq(cxstack, 1, nCx - 1) /\ nCx - 1 \in 0 .. Len(cxstack)
  BY <1>1 DEF Front, nCx
<1>3. /\ cxstack' \in Seq(Context) /\ Len(cxstack') = nCx - 1
      /\ \A j \in 1 .. nCx - 1 : cxstack'[j] = cxstack[j]
  BY <1>1, <1>2, Prefix
<1> QED
  BY <1>3 DEF nCx, KeepsContexts

LEMMA SubixSet ==
  ASSUME TypeOK, nSI > 0, NEW ix \in Int, si' = SetSubix(si, ix)
  PROVE  /\ nSI' = nSI /\ KeepsInfos(nSI) /\ si' \in Seq(StackInfo)
         /\ si'[nSI].cxsubix = ix /\ \A i \in 1 .. nSI - 1 : si'[i].cxsubix = si[i].cxsubix
<1>1. si \in Seq(StackInfo) /\ nSI \in Nat
  BY DEF TypeOK, nSI
<1>2. DOMAIN si = 1 .. nSI /\ nSI \in 1 .. nSI /\ \A i \in 1 .. nSI : si[i] \in StackInfo
  BY <1>1 DEF nSI
<1>3. si' = [si EXCEPT ![nSI] = [si[nSI] EXCEPT !.cxsubix = ix]]
  BY DEF SetSubix, nSI
<1>4. [si[nSI] EXCEPT !.cxsubix = ix] \in StackInfo
  BY <1>2 DEF StackInfo
<1>5. si' \in Seq(StackInfo) /\ nSI' = nSI
  BY <1>1, <1>2, <1>3, <1>4, ExceptSeq DEF nSI
<1>6. \A i \in 1 .. nSI : si'[i] = IF i = nSI THEN [si[nSI] EXCEPT !.cxsubix = ix] ELSE si[i]
  BY <1>2, <1>3
<1>7. /\ [si[nSI] EXCEPT !.cxsubix = ix].base = si[nSI].base
      /\ [si[nSI] EXCEPT !.cxsubix = ix].frame = si[nSI].frame
      /\ [si[nSI] EXCEPT !.cxsubix = ix].cxsubix = ix
  BY <1>2 DEF StackInfo
<1>8. \A i \in 1 .. nSI : si'[i].base = si[i].base /\ si'[i].frame = si[i].frame
  BY <1>6, <1>7
<1>9. si'[nSI].cxsubix = ix
  BY <1>2, <1>6, <1>7
<1>10. \A i \in 1 .. nSI - 1 : si'[i].cxsubix = si[i].cxsubix
  BY <1>1, <1>6
<1> QED
  BY <1>5, <1>8, <1>9, <1>10 DEF KeepsInfos

(* What a new context records; nothing of it depends on its type.          *)
LEMMA BlockIs ==
  ASSUME TypeOK, Structure, NEW type \in Subs \cup Evals \cup {"FORMAT", "LOOP"}
  PROVE  /\ cx_pushblock(type) \in Context
         /\ cx_pushblock(type).type = type /\ cx_pushblock(type).cv = Main
         /\ cx_pushblock(type).hasargs = FALSE
<1>1. TopEnv \in Nat /\ nC \in Nat
  <2>1. DOMAIN cstack = 1 .. nC /\ nC \in Nat
    BY TopsOfStacks
  <2> QED
    BY <2>1, TopEnvIs DEF Structure
<1>2. Last(si).cxsubix \in Int
  <2>1. nSI \in 1 .. nSI /\ Last(si) = si[nSI] /\ si \in Seq(StackInfo)
    BY TopsOfStacks DEF TypeOK
  <2>2. si[nSI] \in StackInfo
    BY <2>1 DEF nSI
  <2> QED
    BY <2>1, <2>2 DEF StackInfo
<1>3. Len(saves) \in Nat /\ Len(cstack) \in Nat
  BY DEF TypeOK
<1> QED
  BY <1>1, <1>2, <1>3 DEF cx_pushblock, Context, TypeOK

LEMMA ContextIs ==
  ASSUME NEW c \in Context
  PROVE  IsContext(c)
BY DEF Context, IsContext

LEMMA SameFunctions ==
  ASSUME cstack' = cstack
  PROVE  nC' = nC /\ \A n : KeepsFunctions(n) /\ KeepsCatches(n)
BY DEF nC, KeepsFunctions, KeepsCatches

LEMMA SubEnters ==
  ASSUME TypeOK, Structure, NEW cv \in CVs, NEW hasargs \in BOOLEAN, cx_pushsub(cv, hasargs)
  PROVE  Structure'
<1> DEFINE c == [cx_pushblock("SUB") EXCEPT !.cv = cv, !.olddepth = depth[cv], !.hasargs = hasargs]
<1>1. c \in Context /\ c.type = "SUB"
  <2>1. cx_pushblock("SUB") \in Context /\ cx_pushblock("SUB").type = "SUB"
    BY BlockIs DEF Subs
  <2>2. depth[cv] \in Nat
    BY DEF TypeOK
  <2> QED
    BY <2>1, <2>2 DEF Context
<1>2. cxstack' = Append(cxstack, c) /\ si' = SetSubix(si, cxstack_ix + 1) /\ cstack' = cstack /\ RunsOps
  BY DEF cx_pushsub
<1> HIDE DEF c
<1>3. cxstack_ix + 1 \in Int /\ nSI > 0
  BY TopsOfStacks
<1>4. nSI' = nSI /\ KeepsInfos(nSI)
  BY <1>2, <1>3, SubixSet
<1>5. nCx' = nCx + 1 /\ KeepsContexts(nCx) /\ cxstack'[nCx + 1] = c
  BY <1>2, ContextPushed
<1>6. IsContext(c) /\ c.type \notin Evals
  BY <1>1, ContextIs DEF Evals
<1>7. EntersContext(c)
  BY <1>1, <1>2, <1>4, <1>5, <1>6, OpsRunning, SameFunctions DEF EntersContext
<1> QED
  BY <1>7, EnterContextStructure

LEMMA FormatEnters ==
  ASSUME TypeOK, Structure, NEW cv \in CVs, cx_pushformat(cv)
  PROVE  Structure'
<1> DEFINE c == [cx_pushblock("FORMAT") EXCEPT !.cv = cv]
<1>1. c \in Context /\ c.type = "FORMAT"
  <2>1. cx_pushblock("FORMAT") \in Context /\ cx_pushblock("FORMAT").type = "FORMAT"
    BY BlockIs
  <2> QED
    BY <2>1 DEF Context
<1>2. cxstack' = Append(cxstack, c) /\ si' = SetSubix(si, cxstack_ix + 1) /\ cstack' = cstack /\ RunsOps
  BY DEF cx_pushformat
<1> HIDE DEF c
<1>3. cxstack_ix + 1 \in Int /\ nSI > 0
  BY TopsOfStacks
<1>4. nSI' = nSI /\ KeepsInfos(nSI)
  BY <1>2, <1>3, SubixSet
<1>5. nCx' = nCx + 1 /\ KeepsContexts(nCx) /\ cxstack'[nCx + 1] = c
  BY <1>2, ContextPushed
<1>6. IsContext(c) /\ c.type \notin Evals
  BY <1>1, ContextIs DEF Evals
<1>7. EntersContext(c)
  BY <1>1, <1>2, <1>4, <1>5, <1>6, OpsRunning, SameFunctions DEF EntersContext
<1> QED
  BY <1>7, EnterContextStructure

LEMMA LoopEnters ==
  ASSUME TypeOK, Structure, cx_pushloop_for
  PROVE  Structure'
<1> DEFINE c == cx_pushblock("LOOP")
<1>1. c \in Context /\ c.type = "LOOP"
  BY BlockIs
<1>2. cxstack' = Append(cxstack, c) /\ si' = si /\ cstack' = cstack /\ RunsOps
  BY DEF cx_pushloop_for
<1> HIDE DEF c
<1>4. nSI' = nSI /\ KeepsInfos(nSI)
  BY <1>2 DEF nSI, KeepsInfos
<1>5. nCx' = nCx + 1 /\ KeepsContexts(nCx) /\ cxstack'[nCx + 1] = c
  BY <1>2, ContextPushed
<1>6. IsContext(c) /\ c.type \notin Evals
  BY <1>1, ContextIs DEF Evals
<1>7. EntersContext(c)
  BY <1>1, <1>2, <1>4, <1>5, <1>6, OpsRunning, SameFunctions DEF EntersContext
<1> QED
  BY <1>7, EnterContextStructure

LEMMA FramePushed ==
  ASSUME TypeOK, NEW c \in CFunction, cstack' = Append(cstack, c)
  PROVE  nC' = nC + 1 /\ KeepsFunctions(nC) /\ KeepsCatches(nC) /\ cstack'[nC + 1] = c
<1>1. cstack \in Seq(CFunction)
  BY DEF TypeOK
<1>2. Len(cstack') = nC + 1 /\ cstack'[nC + 1] = c /\ \A k \in 1 .. nC : cstack'[k] = cstack[k]
  BY <1>1, AppendProperties DEF nC
<1> QED
  BY <1>2 DEF nC, KeepsFunctions, KeepsCatches

LEMMA FrameIs ==
  ASSUME NEW kind \in {"run", "multicall", "leave", "die"}
  PROVE  /\ Frame(kind) \in CFunction /\ Frame(kind).kind = kind /\ Frame(kind).to = 0
         /\ ~Frame(kind).on /\ ~Frame(kind).mustcatch
BY DEF Frame, CFunction

LEMMA EvalEnters ==
  ASSUME TypeOK, Structure, NEW type \in Evals, cx_pusheval(type)
  PROVE  Structure'
<1> DEFINE frames == IF CATCH_GET THEN Append(cstack, Frame("run")) ELSE cstack
           env    == IF CATCH_GET THEN Len(cstack) + 1 ELSE TopEnv
           c      == [cx_pushblock(type) EXCEPT !.cur_top_env = env, !.loop = Len(frames)]
<1>1. /\ cxstack' = Append(cxstack, c) /\ cstack' = frames /\ RunsOps
      /\ si' = IF type = "EVAL" THEN SetSubix(si, cxstack_ix + 1) ELSE si
  BY DEF cx_pusheval
<1>2. /\ Kind(nC) \in {"run", "multicall"} /\ OpsRun
      /\ nC \in Nat \ {0} /\ TopEnv \in 1 .. nC
      /\ CATCH_GET <=> Kind(nC) = "multicall"
      /\ Kind(nC) = "run" => TopEnv = nC
  <2>1. OpsRun /\ nC \in Nat \ {0}
    BY <1>1, OpsRunning, TopsOfStacks
  <2>2. Kind(nC) \in {"run", "multicall"}
    BY <2>1 DEF OpsRun
  <2>3. /\ TopEnv \in 1 .. nC /\ \A k \in TopEnv + 1 .. nC : Kind(k) = "multicall"
        /\ CATCH_GET <=> Kind(nC) = "multicall"
    BY <2>2, CatchIs
  <2>4. TopEnv < nC => nC \in TopEnv + 1 .. nC
    BY <2>1, <2>3
  <2> QED
    BY <2>1, <2>2, <2>3, <2>4
<1>3. /\ KeepsFunctions(nC) /\ KeepsCatches(nC)
      /\ env = nC' /\ Len(frames) = nC' /\ nC' \in Nat
      /\ cstack'[nC'].kind = "run"
      /\ \/ nC' = nC
         \/ nC' = nC + 1 /\ Kind(nC) = "multicall" /\ cstack'[nC + 1] = Frame("run")
  <2>1. CASE Kind(nC) = "run"
    <3>1. frames = cstack /\ env = nC /\ cstack' = cstack
      BY <1>1, <1>2, <2>1
    <3> QED
      BY <1>2, <2>1, <3>1, SameFunctions DEF nC, Kind
  <2>2. CASE Kind(nC) = "multicall"
    <3>1. frames = Append(cstack, Frame("run")) /\ env = nC + 1 /\ cstack' = Append(cstack, Frame("run"))
      BY <1>1, <1>2, <2>2 DEF nC
    <3>2. nC' = nC + 1 /\ KeepsFunctions(nC) /\ KeepsCatches(nC) /\ cstack'[nC + 1] = Frame("run")
      BY <3>1, FramePushed, FrameIs
    <3>3. Len(frames) = nC'
      BY <1>1 DEF nC
    <3> QED
      BY <1>2, <2>2, <3>1, <3>2, <3>3, FrameIs
  <2> QED
    BY <1>2, <2>1, <2>2
<1> HIDE DEF frames, env
<1>4. c \in Context /\ c.type = type /\ c.cur_top_env = nC' /\ c.loop = nC'
  <2>1. cx_pushblock(type) \in Context /\ cx_pushblock(type).type = type
    BY BlockIs
  <2> QED
    BY <1>3, <2>1 DEF Context
<1> HIDE DEF c
<1>5. nSI' = nSI /\ KeepsInfos(nSI)
  <2>1. cxstack_ix + 1 \in Int /\ nSI > 0
    BY TopsOfStacks
  <2>2. CASE type = "EVAL"
    BY <1>1, <2>1, <2>2, SubixSet
  <2>3. CASE type # "EVAL"
    BY <1>1, <2>3 DEF nSI, KeepsInfos
  <2> QED
    BY <2>2, <2>3
<1>6. nCx' = nCx + 1 /\ KeepsContexts(nCx) /\ cxstack'[nCx + 1] = c
  BY <1>1, ContextPushed
<1>7. IsContext(c) /\ c.type # "MULTI"
  BY <1>4, ContextIs DEF Evals
<1>8. EntersContext(c)
  BY <1>2, <1>3, <1>4, <1>5, <1>6, <1>7 DEF EntersContext
<1> QED
  BY <1>8, EnterContextStructure

LEMMA SameContexts ==
  ASSUME cxstack' = cxstack
  PROVE  nCx' = nCx /\ \A n : KeepsContexts(n)
BY DEF nCx, KeepsContexts

LEMMA SameInfos ==
  ASSUME si' = si
  PROVE  nSI' = nSI /\ \A n : KeepsInfos(n)
BY DEF nSI, KeepsInfos

LEMMA LeaveFrameIs ==
  ASSUME NEW to \in Nat
  PROVE  /\ [Frame("leave") EXCEPT !.to = to] \in CFunction
         /\ [Frame("leave") EXCEPT !.to = to].kind = "leave"
         /\ [Frame("leave") EXCEPT !.to = to].to = to
         /\ ~[Frame("leave") EXCEPT !.to = to].on
BY DEF Frame, CFunction

LEMMA LeaveOpKeeps ==
  ASSUME TypeOK, Structure, LeaveOp
  PROVE  Structure'
<1> DEFINE c == [Frame("leave") EXCEPT !.to = Top.oldsaveix]
<1>1. RunsOps /\ ~Outermost /\ cstack' = Append(cstack, c) /\ cxstack' = cxstack /\ si' = si
  BY DEF LeaveOp
<1>2. /\ nCx \in Nat /\ nSI \in Nat \ {0} /\ Top = cxstack[nCx] /\ si[nSI].base \in 0 .. nCx
      /\ cxstack_ix = nCx - si[nSI].base - 1
  BY TopsOfStacks
<1>3. nCx > si[nSI].base /\ (nSI > 1 => nCx > si[nSI].base + 1)
  BY <1>1, <1>2 DEF Outermost, nSI
<1>4. Top.oldsaveix \in Nat
  BY <1>2, <1>3 DEF Structure, Sizes
<1>5. c \in CFunction /\ c.kind = "leave" /\ c.to = Top.oldsaveix /\ ~c.on
  BY <1>4, LeaveFrameIs
<1> HIDE DEF c
<1>6. nC' = nC + 1 /\ KeepsFunctions(nC) /\ KeepsCatches(nC) /\ cstack'[nC + 1] = c
  BY <1>1, <1>5, FramePushed
<1>7. CallsFunction(c)
  BY <1>1, <1>2, <1>3, <1>4, <1>5, <1>6, OpsRunning, SameContexts, SameInfos DEF CallsFunction
<1> QED
  BY <1>7, CallFunctionStructure

LEMMA DieKeeps ==
  ASSUME TypeOK, Structure, die
  PROVE  Structure'
<1> DEFINE c == Frame("die")
<1>1. /\ RunsOps /\ cstack' = Append(cstack, c) /\ cxstack' = cxstack /\ si' = si
      /\ \E i \in DOMAIN cxstack : cxstack[i].type \in Evals
  BY DEF die
<1>2. DOMAIN cxstack = 1 .. nCx
  BY TopsOfStacks
<1>3. c \in CFunction /\ c.kind = "die" /\ c.to \in Nat /\ ~c.on
  BY FrameIs
<1> HIDE DEF c
<1>4. nC' = nC + 1 /\ KeepsFunctions(nC) /\ KeepsCatches(nC) /\ cstack'[nC + 1] = c
  BY <1>1, <1>3, FramePushed
<1>5. CallsFunction(c)
  BY <1>1, <1>2, <1>3, <1>4, OpsRunning, SameContexts, SameInfos DEF CallsFunction
<1> QED
  BY <1>5, CallFunctionStructure

LEMMA InfoPopped ==
  ASSUME TypeOK, nSI > 1, si' = Front(si)
  PROVE  nSI' = nSI - 1 /\ KeepsInfos(nSI - 1) /\ si' \in Seq(StackInfo)
         /\ \A i \in 1 .. nSI - 1 : si'[i] = si[i]
<1>1. si \in Seq(StackInfo) /\ nSI \in Nat
  BY DEF TypeOK, nSI
<1>2. si' = SubSeq(si, 1, nSI - 1) /\ nSI - 1 \in 0 .. Len(si)
  BY <1>1 DEF Front, nSI
<1>3. /\ si' \in Seq(StackInfo) /\ Len(si') = nSI - 1
      /\ \A j \in 1 .. nSI - 1 : si'[j] = si[j]
  BY <1>1, <1>2, Prefix
<1> QED
  BY <1>3 DEF nSI, KeepsInfos

LEMMA FramesCut ==
  ASSUME TypeOK, NEW n \in 0 .. nC, cstack' = SubSeq(cstack, 1, n)
  PROVE  nC' = n /\ KeepsFunctions(n) /\ KeepsCatches(n) /\ cstack' \in Seq(CFunction)
         /\ \A k \in 1 .. n : cstack'[k] = cstack[k]
<1>1. cstack \in Seq(CFunction) /\ n \in 0 .. Len(cstack)
  BY DEF TypeOK, nC
<1>2. /\ cstack' \in Seq(CFunction) /\ Len(cstack') = n
      /\ \A k \in 1 .. n : cstack'[k] = cstack[k]
  BY <1>1, Prefix
<1> QED
  BY <1>2 DEF nC, KeepsFunctions, KeepsCatches

LEMMA FramePopped ==
  ASSUME TypeOK, nC > 0, cstack' = Front(cstack)
  PROVE  nC' = nC - 1 /\ KeepsFunctions(nC - 1) /\ KeepsCatches(nC - 1) /\ cstack' \in Seq(CFunction)
<1>1. nC \in Nat
  BY DEF TypeOK, nC
<1>2. nC - 1 \in 0 .. nC /\ cstack' = SubSeq(cstack, 1, nC - 1)
  BY <1>1 DEF Front, nC
<1> QED
  BY <1>2, FramesCut

LEMMA UnwindKeeps ==
  ASSUME TypeOK, Structure, Unwind
  PROVE  Structure'
<1>1. Kind(nC) = "die" /\ cxstack' = cxstack
  BY TopsOfStacks DEF Unwind, Kind
<1>2. /\ nCx \in Nat /\ nSI \in Nat \ {0} /\ nC \in Nat \ {0}
      /\ Top = cxstack[nCx] /\ si[nSI].base \in 0 .. nCx
      /\ cxstack_ix = nCx - si[nSI].base - 1
  BY TopsOfStacks
<1>3. CASE cxstack_ix < 0
  <2>1. nCx = si[nSI].base
    BY <1>2, <1>3
  <2>2. \E j \in 1 .. nCx : TRUE
    BY <1>1, <1>2 DEF Structure, Dies
  <2>3. nSI > 1
    BY <1>2, <2>1, <2>2 DEF Structure, Infos
  <2>4. si' = Front(si) /\ cstack' = cstack
    BY <1>3 DEF Unwind
  <2>5. DropsInfo
    BY <1>1, <2>1, <2>3, <2>4, InfoPopped DEF DropsInfo
  <2> QED
    BY <2>5, DropInfoStructure
<1>4. CASE cxstack_ix >= 0
  <2> DEFINE c == [Frame("leave") EXCEPT !.to = Top.oldsaveix]
  <2>1. cstack' = Append(cstack, c) /\ si' = si /\ nCx > si[nSI].base
    BY <1>2, <1>4 DEF Unwind
  <2>2. Top.oldsaveix \in Nat
    BY <1>2, <2>1 DEF Structure, Sizes
  <2>3. c \in CFunction /\ c.kind = "leave" /\ c.to = Top.oldsaveix /\ ~c.on
    BY <2>2, LeaveFrameIs
  <2> HIDE DEF c
  <2>4. nC' = nC + 1 /\ KeepsFunctions(nC) /\ KeepsCatches(nC) /\ cstack'[nC + 1] = c
    BY <2>1, <2>3, FramePushed
  <2>5. CallsFunction(c)
    BY <1>1, <1>2, <2>1, <2>2, <2>3, <2>4, SameContexts, SameInfos DEF CallsFunction
  <2> QED
    BY <2>5, CallFunctionStructure
<1> QED
  BY <1>2, <1>3, <1>4

LEMMA PopContextKeeps ==
  ASSUME TypeOK, Structure, PopContext
  PROVE  Structure' /\ cstack' \in Seq(CFunction)
<1>1. /\ Kind(nC) = "leave" /\ cxstack' = Front(cxstack)
      /\ si' = SetSubix(si, PoppedSubix(Top))
      /\ cstack' = IF Caught
                   THEN [SubSeq(cstack, 1, Top.cur_top_env) EXCEPT
                           ![Top.cur_top_env].mustcatch = FALSE]
                   ELSE Front(cstack)
      /\ ~Ends(nC)
  BY TopsOfStacks DEF PopContext, EndsMulticall, Ends, Kind, nC
<1>2. /\ nCx \in Nat /\ nSI \in Nat \ {0} /\ nC \in Nat \ {0}
      /\ Top = cxstack[nCx] /\ si[nSI].base \in 0 .. nCx
  BY TopsOfStacks
<1>3. nCx > 0
  BY <1>1, <1>2 DEF Structure, Leavings, Leaving
<1>4. nCx' = nCx - 1 /\ KeepsContexts(nCx - 1)
  BY <1>1, <1>3, ContextPopped
<1>5. nSI' = nSI /\ KeepsInfos(nSI)
  BY <1>1, <1>2 DEF KeepsInfos, SetSubix, nSI, TypeOK
<1>6. Caught <=> cxstack[nCx].type \in Evals /\ Kind(nC - 1) = "die"
  BY <1>2 DEF Caught, Kind, nC
<1>7. CASE Caught
  <2> DEFINE t == Top.cur_top_env
  <2>1. /\ t = cxstack[nCx].loop /\ t \in 1 .. nC /\ Kind(t) = "run"
    BY <1>2, <1>3, <1>6, <1>7 DEF Structure, EvalLoops, InPlace
  <2>2. t \in 1 .. nC - 1
    BY <1>1, <1>2, <2>1
  <2>3. cstack' = [SubSeq(cstack, 1, t) EXCEPT ![t].mustcatch = FALSE]
    BY <1>1, <1>7
  <2> HIDE DEF t
  <2>4. /\ SubSeq(cstack, 1, t) \in Seq(CFunction) /\ Len(SubSeq(cstack, 1, t)) = t
        /\ \A i \in 1 .. t : SubSeq(cstack, 1, t)[i] = cstack[i] /\ cstack[i] \in CFunction
    <3>1. cstack \in Seq(CFunction) /\ t \in 0 .. Len(cstack)
      BY <1>2, <2>2 DEF TypeOK, nC
    <3>2. \A i \in 1 .. t : cstack[i] \in CFunction
      BY <3>1
    <3> QED
      BY <3>1, <3>2, Prefix
  <2>5. cstack[t] \in CFunction /\ [cstack[t] EXCEPT !.mustcatch = FALSE] \in CFunction /\ t \in 1 .. t
    <3>1. t \in 1 .. t
      BY <1>2, <2>2
    <3>2. cstack[t] \in CFunction
      BY <2>4, <3>1
    <3> QED
      BY <3>1, <3>2 DEF CFunction
  <2>6. cstack' = [SubSeq(cstack, 1, t) EXCEPT ![t] = [cstack[t] EXCEPT !.mustcatch = FALSE]]
    BY <2>3, <2>4, <2>5
  <2>7. /\ Len(cstack') = t /\ cstack' \in Seq(CFunction)
        /\ \A k \in 1 .. t : cstack'[k] = IF k = t THEN [cstack[t] EXCEPT !.mustcatch = FALSE] ELSE cstack[k]
    <3> DEFINE s == SubSeq(cstack, 1, t)
               e == [cstack[t] EXCEPT !.mustcatch = FALSE]
    <3>1. s \in Seq(CFunction) /\ Len(s) = t /\ \A i \in 1 .. t : s[i] = cstack[i]
      BY <2>4
    <3>2. e \in CFunction /\ t \in 1 .. Len(s) /\ cstack' = [s EXCEPT ![t] = e]
      BY <2>5, <2>6, <3>1
    <3> HIDE DEF s, e
    <3>3. cstack' \in Seq(CFunction) /\ Len(cstack') = Len(s) /\ \A k \in 1 .. Len(s) : cstack'[k] = IF k = t THEN e ELSE s[k]
      BY <3>1, <3>2, ExceptSeq
    <3> QED
      BY <3>1, <3>3 DEF e
  <2>8. LET e == [cstack[t] EXCEPT !.mustcatch = FALSE]
        IN /\ e.kind = cstack[t].kind /\ e.to = cstack[t].to /\ e.on = cstack[t].on
           /\ e.oldcatch = cstack[t].oldcatch /\ ~e.mustcatch
    BY <2>5 DEF CFunction
  <2>9. /\ nC' = t /\ KeepsFunctions(t) /\ ~cstack'[t].mustcatch
    <3>1. \A k \in 1 .. t :
            /\ cstack'[k].kind = cstack[k].kind /\ cstack'[k].to = cstack[k].to
            /\ cstack'[k].on <=> cstack[k].on
            /\ cstack'[k].oldcatch <=> cstack[k].oldcatch
      <4> TAKE k \in 1 .. t
      <4>1. CASE k = t
        <5>1. cstack'[k] = [cstack[t] EXCEPT !.mustcatch = FALSE]
          BY <2>7, <4>1
        <5> QED
          BY <2>8, <4>1, <5>1
      <4>2. CASE k # t
        BY <2>7, <4>2
      <4> QED
        BY <4>1, <4>2
    <3>2. cstack'[t] = [cstack[t] EXCEPT !.mustcatch = FALSE]
      BY <2>5, <2>7
    <3> QED
      BY <2>7, <2>8, <3>1, <3>2 DEF nC, KeepsFunctions
  <2>10. KeepsCatches(t - 1)
    BY <2>2, <2>7 DEF KeepsCatches
  <2>11. LeavesContext
    BY <1>1, <1>2, <1>4, <1>5, <1>6, <1>7, <2>2, <2>9, <2>10 DEF LeavesContext, t
  <2> QED
    BY <2>7, <2>11, LeaveContextStructure
<1>8. CASE ~Caught
  <2>1. cstack' = Front(cstack)
    BY <1>1, <1>8
  <2>2. nC' = nC - 1 /\ KeepsFunctions(nC - 1) /\ KeepsCatches(nC - 1) /\ cstack' \in Seq(CFunction)
    BY <1>2, <2>1, FramePopped
  <2>3. nC - 1 \in 1 .. nC - 1
    BY <1>1, <1>2 DEF Structure, Frames
  <2>4. KeepsCatches(nC' - 1) /\ KeepsFunctions(nC') /\ (cstack'[nC'].mustcatch <=> cstack[nC'].mustcatch)
    BY <1>2, <2>2, <2>3 DEF KeepsCatches
  <2>5. LeavesContext
    BY <1>1, <1>2, <1>4, <1>5, <1>6, <1>8, <2>2, <2>4 DEF LeavesContext
  <2> QED
    BY <2>2, <2>5, LeaveContextStructure
<1> QED
  BY <1>7, <1>8

LEMMA EndDestructorKeeps ==
  ASSUME TypeOK, Structure, EndDestructor
  PROVE  Structure'
<1>1. /\ nCx \in Nat /\ nSI \in Nat \ {0} /\ nC \in Nat \ {0} /\ Code = cstack[nC]
      /\ Top = cxstack[nCx] /\ si[nSI].base \in 0 .. nCx /\ cxstack_ix = nCx - si[nSI].base - 1
  BY TopsOfStacks
<1>2. /\ Kind(nC) = "run" /\ nC > 1 /\ Kind(nC - 1) = "leave"
      /\ si' = Front(si) /\ cstack' = Front(cstack)
  BY <1>1 DEF EndDestructor, Kind, nC
<1>3. nC = si[nSI].frame
  <2>1. \/ nC = si[nSI].frame
        \/ nC = si[nSI].frame + 1 /\ FrameKind(nSI) = "multicall"
    BY <1>2, TopIsCurrent DEF Structure
  <2>2. nC = si[nSI].frame + 1 => nC - 1 = si[nSI].frame
    BY <1>1 DEF Structure, Sizes
  <2> QED
    BY <1>2, <2>1, <2>2 DEF FrameKind
<1>4. nSI > 1
  BY <1>1, <1>2, <1>3 DEF Structure, Infos
<1>5. nCx' = si[nSI].base /\ KeepsContexts(nCx')
  <2>1. CASE cxstack_ix < 0 /\ cxstack' = cxstack
    BY <1>1, <2>1, SameContexts
  <2>2. CASE cxstack_ix = 0 /\ cxstack' = Front(cxstack)
    <3>1. nCx > 0 /\ nCx - 1 = si[nSI].base
      BY <1>1, <2>2
    <3> QED
      BY <2>2, <3>1, ContextPopped
  <2> QED
    BY <2>1, <2>2 DEF EndDestructor
<1>6. nSI' = nSI - 1 /\ KeepsInfos(nSI - 1)
  BY <1>2, <1>4, InfoPopped
<1>7. nC' = nC - 1 /\ KeepsFunctions(nC - 1) /\ KeepsCatches(nC - 1)
  BY <1>1, <1>2, FramePopped
<1>8. EndsInfo
  <2>1. nC' = si[nSI].frame - 1 /\ KeepsFunctions(nC')
    BY <1>3, <1>7
  <2> QED
    BY <1>3, <1>4, <1>5, <1>6, <2>1 DEF EndsInfo
<1>9. Catches'
  <2> SUFFICES ASSUME NEW k \in 1 .. nC - 1
               PROVE  /\ cstack'[k].kind = "run" =>
                            (cstack'[k].mustcatch <=> k < nC - 1 /\ cstack'[k + 1].kind = "multicall")
                      /\ cstack'[k].kind = "multicall" =>
                            (cstack'[k].oldcatch <=> cstack'[k - 1].kind = "multicall")
    BY <1>7 DEF Catches, Kind
  <2>1. cstack'[k].kind = cstack[k].kind /\ (cstack'[k].mustcatch <=> cstack[k].mustcatch)
        /\ (cstack'[k].oldcatch <=> cstack[k].oldcatch)
    BY <1>7 DEF KeepsFunctions, KeepsCatches
  <2>2. k < nC - 1 => cstack'[k + 1].kind = cstack[k + 1].kind
    BY <1>1, <1>7 DEF KeepsFunctions
  <2>3. k > 1 => cstack'[k - 1].kind = cstack[k - 1].kind
    BY <1>1, <1>7 DEF KeepsFunctions
  <2>4. k = nC - 1 => Kind(k) = "leave"
    BY <1>2
  <2> QED
    BY <1>1, <2>1, <2>2, <2>3, <2>4 DEF Structure, Catches, Frames, Kind
<1> QED
  BY <1>8, <1>9, EndInfoStructure

LEMMA InfoPushed ==
  ASSUME TypeOK, si' = SetSubix(push_stackinfo, 0)
  PROVE  /\ nSI' = nSI + 1 /\ KeepsInfos(nSI) /\ si' \in Seq(StackInfo)
         /\ \A i \in 1 .. nSI : si'[i] = si[i]
         /\ si'[nSI + 1].base = nCx /\ si'[nSI + 1].frame = nC + 1 /\ si'[nSI + 1].cxsubix = 0
<1> DEFINE e == [base |-> Len(cxstack), cxsubix |-> -1, frame |-> Len(cstack) + 1]
           z == [base |-> Len(cxstack), cxsubix |-> 0, frame |-> Len(cstack) + 1]
           s == Append(si, e)
<1>1. si \in Seq(StackInfo) /\ nSI \in Nat /\ nCx \in Nat /\ nC \in Nat
  BY DEF TypeOK, nSI, nCx, nC
<1>2. e \in StackInfo /\ z \in StackInfo /\ [e EXCEPT !.cxsubix = 0] = z
  BY <1>1 DEF StackInfo, nCx, nC
<1>3. z.base = nCx /\ z.frame = nC + 1 /\ z.cxsubix = 0
  BY DEF nCx, nC
<1>4. si' = [s EXCEPT ![Len(s)] = [s[Len(s)] EXCEPT !.cxsubix = 0]]
  BY DEF SetSubix, push_stackinfo
<1> HIDE DEF e, z
<1>5. /\ s \in Seq(StackInfo) /\ Len(s) = nSI + 1 /\ s[nSI + 1] = e
      /\ \A i \in 1 .. nSI : s[i] = si[i]
  BY <1>1, <1>2, AppendProperties DEF nSI
<1> HIDE DEF s
<1>6. si' = [s EXCEPT ![nSI + 1] = z]
  BY <1>2, <1>4, <1>5
<1>7. nSI + 1 \in 1 .. Len(s)
  BY <1>1, <1>5
<1>8. si' \in Seq(StackInfo) /\ Len(si') = Len(s) /\ \A i \in 1 .. Len(s) : si'[i] = IF i = nSI + 1 THEN z ELSE s[i]
  BY <1>2, <1>5, <1>6, <1>7, ExceptSeq
<1>9. (\A i \in 1 .. nSI : si'[i] = si[i]) /\ si'[nSI + 1] = z
  BY <1>1, <1>5, <1>7, <1>8
<1> QED
  BY <1>3, <1>5, <1>8, <1>9 DEF nSI, KeepsInfos

LEMMA CallDestructorKeeps ==
  ASSUME TypeOK, Structure, CallDestructor
  PROVE  Structure'
<1> DEFINE frames == Append(cstack, Frame("run"))
           c == [cx_pushblock("EVAL") EXCEPT
                   !.cur_top_env = Len(frames), !.loop = Len(frames), !.old_cxsubix = -1]
<1>1. /\ Kind(nC) = "leave" /\ cstack' = frames /\ cxstack' = Append(cxstack, c)
      /\ si' = SetSubix(push_stackinfo, 0)
  BY TopsOfStacks DEF CallDestructor, Kind
<1>2. nC \in Nat \ {0} /\ nCx \in Nat
  BY TopsOfStacks
<1>3. nC' = nC + 1 /\ KeepsFunctions(nC) /\ KeepsCatches(nC) /\ cstack'[nC + 1] = Frame("run")
  BY <1>1, FramePushed, FrameIs
<1>4. Len(frames) = nC + 1
  BY <1>1, <1>3 DEF nC
<1> HIDE DEF frames
<1>5. c \in Context /\ c.type = "EVAL" /\ c.cur_top_env = nC + 1 /\ c.loop = nC + 1
  <2> DEFINE p == cx_pushblock("EVAL")
             n == nC + 1
  <2>1. p \in Context /\ p.type = "EVAL"
    BY BlockIs DEF Evals
  <2>2. n \in Nat /\ -1 \in Int /\ c = [p EXCEPT !.cur_top_env = n, !.loop = n, !.old_cxsubix = -1]
    BY <1>2, <1>4
  <2> HIDE DEF p, n, c
  <2>3. c \in Context /\ c.type = "EVAL" /\ c.cur_top_env = n /\ c.loop = n
    BY <2>1, <2>2 DEF Context
  <2> QED
    BY <2>3 DEF n
<1> HIDE DEF c
<1>6. nCx' = nCx + 1 /\ KeepsContexts(nCx) /\ cxstack'[nCx + 1] = c
  BY <1>1, ContextPushed
<1>7. /\ nSI' = nSI + 1 /\ KeepsInfos(nSI)
      /\ si'[nSI + 1].base = nCx /\ si'[nSI + 1].frame = nC + 1
  BY <1>1, InfoPushed
<1>8. PushesInfo(c)
  BY <1>1, <1>3, <1>5, <1>6, <1>7, ContextIs, FrameIs DEF PushesInfo
<1>9. Catches'
  <2> SUFFICES ASSUME NEW k \in 1 .. nC + 1
               PROVE  /\ cstack'[k].kind = "run" =>
                            (cstack'[k].mustcatch <=> k < nC + 1 /\ cstack'[k + 1].kind = "multicall")
                      /\ cstack'[k].kind = "multicall" =>
                            (cstack'[k].oldcatch <=> cstack'[k - 1].kind = "multicall")
    BY <1>3 DEF Catches, Kind
  <2>1. CASE k = nC + 1
    BY <1>2, <1>3, <2>1, FrameIs
  <2>2. CASE k \in 1 .. nC
    <3>1. cstack'[k].kind = cstack[k].kind /\ (cstack'[k].mustcatch <=> cstack[k].mustcatch)
          /\ (cstack'[k].oldcatch <=> cstack[k].oldcatch)
      BY <1>3, <2>2 DEF KeepsFunctions, KeepsCatches
    <3>2. k < nC => cstack'[k + 1].kind = cstack[k + 1].kind
      BY <1>2, <1>3, <2>2 DEF KeepsFunctions
    <3>3. k > 1 => cstack'[k - 1].kind = cstack[k - 1].kind
      BY <1>2, <1>3, <2>2 DEF KeepsFunctions
    <3> QED
      BY <1>1, <1>2, <2>2, <3>1, <3>2, <3>3 DEF Structure, Catches, Frames, Kind
  <2> QED
    BY <1>2, <2>1, <2>2
<1> QED
  BY <1>8, <1>9, PushInfoStructure

LEMMA MulticallKeeps ==
  ASSUME TypeOK, Structure, MULTICALL
  PROVE  Structure' /\ cstack' \in Seq(CFunction)
<1>1. /\ nCx \in Nat /\ nSI \in Nat \ {0} /\ nC \in Nat \ {0} /\ Code = cstack[nC]
      /\ DOMAIN cstack = 1 .. nC
  BY TopsOfStacks
<1>2. /\ Kind(nC) = "multicall" /\ ~cstack[nC].on /\ cxstack' = cxstack /\ si' = si
      /\ cstack' = [cstack EXCEPT ![nC].on = TRUE]
  BY <1>1 DEF MULTICALL, Kind, nC
<1>3. nC = si[nSI].frame
  BY <1>2, TopIsCurrent DEF Structure
<1>4. nSI > 1 /\ FrameKind(nSI) = "multicall" /\ nCx = si[nSI].base + 1
  <2>1. FrameKind(nSI) = "multicall" /\ nCx = si[nSI].base + 1
    BY <1>2, <1>3 DEF Structure, FrameKind, Idle
  <2>2. nSI # 1
    BY <1>2, <1>3 DEF Structure, Infos, Frames
  <2> QED
    BY <1>1, <2>1, <2>2
<1>5. cstack[nC] \in CFunction /\ \A k \in 1 .. nC - 1 : k \in 1 .. nC /\ k # nC
  <2>1. cstack \in Seq(CFunction) /\ nC \in 1 .. Len(cstack)
    BY <1>1 DEF TypeOK, nC
  <2> QED
    BY <1>1, <2>1
<1>6. /\ Len(cstack') = nC /\ cstack' \in Seq(CFunction)
      /\ \A k \in 1 .. nC - 1 : cstack'[k] = cstack[k]
      /\ cstack'[nC] = [cstack[nC] EXCEPT !.on = TRUE]
  <2>1. [cstack[nC] EXCEPT !.on = TRUE] \in CFunction
    BY <1>5 DEF CFunction
  <2>2. nC \in 1 .. Len(cstack) /\ cstack \in Seq(CFunction)
    BY <1>1 DEF TypeOK, nC
  <2>3. cstack' = [cstack EXCEPT ![nC] = [cstack[nC] EXCEPT !.on = TRUE]]
    BY <1>2
  <2> QED
    BY <1>1, <1>5, <2>1, <2>2, <2>3, ExceptSeq DEF nC
<1>7. /\ cstack'[nC].kind = cstack[nC].kind /\ cstack'[nC].to = cstack[nC].to
      /\ cstack'[nC].oldcatch = cstack[nC].oldcatch
  BY <1>5, <1>6 DEF CFunction
<1>8. nC' = nC /\ KeepsFunctions(nC - 1) /\ KeepsCatches(nC - 1)
  BY <1>6 DEF nC, KeepsFunctions, KeepsCatches
<1>9. cstack[nC].to \in Nat
  BY <1>1 DEF Structure, Sizes
<1>10. SwitchesCallback
  BY <1>2, <1>3, <1>4, <1>7, <1>8, <1>9, SameContexts, SameInfos DEF SwitchesCallback, Kind
<1> QED
  BY <1>6, <1>10, SwitchCallbackStructure

LEMMA EndOfCallbackKeeps ==
  ASSUME TypeOK, Structure, EndOfCallback
  PROVE  Structure' /\ cstack' \in Seq(CFunction)
<1> DEFINE f == si[nSI].frame
           IsCall(i) == cstack[i].kind = "multicall"
                        /\ \A j \in i + 1 .. Len(cstack) : cstack[j].kind = "run"
           call == CHOOSE i \in DOMAIN cstack : IsCall(i)
<1>1. /\ nCx \in Nat /\ nSI \in Nat \ {0} /\ nC \in Nat \ {0} /\ Top = cxstack[nCx]
      /\ DOMAIN cstack = 1 .. nC
      /\ si[nSI].base \in 0 .. nCx /\ cxstack_ix = nCx - si[nSI].base - 1
  BY TopsOfStacks
<1>2. /\ cxstack' = cxstack /\ si' = si /\ cxstack_ix = 0 /\ Top.type = "MULTI"
      /\ Kind(nC) \in {"run", "multicall"}
      /\ cstack' = [SubSeq(cstack, 1, call) EXCEPT ![call].on = FALSE]
  BY OpsRunning DEF EndOfCallback, OpsRun
<1>3. nCx = si[nSI].base + 1 /\ cxstack[nCx].type = "MULTI"
  BY <1>1, <1>2
<1>4. nSI > 1 /\ FrameKind(nSI) = "multicall" /\ f \in 1 .. nC
  <2>1. IF nSI = 1 THEN cxstack[1].type # "MULTI"
        ELSE cxstack[si[nSI].base + 1].type = IF FrameKind(nSI) = "run" THEN "EVAL" ELSE "MULTI"
    <3>1. si[nSI].base < End(nSI) /\ nSI \in 1 .. nSI
      BY <1>1, <1>3 DEF End
    <3> QED
      BY <3>1 DEF Structure, Bottoms
  <2>2. nSI = 1 => cxstack[1].type = "MULTI"
    <3>1. nSI = 1 => si[nSI].base = 0
      BY DEF Structure, Infos
    <3> QED
      BY <1>3, <3>1
  <2>3. nSI # 1 /\ FrameKind(nSI) # "run"
    <3>1. cxstack[si[nSI].base + 1].type = "MULTI"
      BY <1>3
    <3> QED
      BY <2>1, <2>2, <3>1
  <2>4. f \in 1 .. nC
    <3>1. CurrentIsLast
      BY LastInfo DEF Structure
    <3> QED
      BY <3>1 DEF CurrentIsLast
  <2> QED
    BY <1>1, <2>3, <2>4 DEF Structure, Infos
<1>5. nC = f \/ (nC = f + 1 /\ Kind(nC) = "run")
  BY <1>2, TopIsCurrent DEF Structure
<1>6. call = f
  <2>1. f \in DOMAIN cstack /\ IsCall(f)
    BY <1>1, <1>4, <1>5 DEF FrameKind, Kind, nC
  <2>2. \A i \in DOMAIN cstack : IsCall(i) => i = f
    BY <1>1, <1>4, <1>5 DEF FrameKind, Kind, nC
  <2> HIDE DEF IsCall, f
  <2> QED
    BY <2>1, <2>2
<1> HIDE DEF call, f
<1>7. cstack' = [SubSeq(cstack, 1, f) EXCEPT ![f].on = FALSE]
  BY <1>2, <1>6
<1>8. cstack[f] \in CFunction /\ [cstack[f] EXCEPT !.on = FALSE] \in CFunction /\ f \in 1 .. f
  <2>1. f \in 1 .. f /\ f \in 1 .. Len(cstack) /\ cstack \in Seq(CFunction)
    BY <1>1, <1>4 DEF TypeOK, nC
  <2>2. cstack[f] \in CFunction
    BY <2>1
  <2> QED
    BY <2>1, <2>2 DEF CFunction
<1>9. /\ cstack' \in Seq(CFunction) /\ Len(cstack') = f /\ cstack'[f] = [cstack[f] EXCEPT !.on = FALSE]
      /\ \A k \in 1 .. f - 1 : cstack'[k] = cstack[k]
  <2> DEFINE s == SubSeq(cstack, 1, f)
             e == [cstack[f] EXCEPT !.on = FALSE]
  <2>1. s \in Seq(CFunction) /\ Len(s) = f /\ \A i \in 1 .. f : s[i] = cstack[i]
    <3>1. cstack \in Seq(CFunction) /\ f \in 0 .. Len(cstack)
      BY <1>1, <1>4 DEF TypeOK, nC
    <3> QED
      BY <3>1, Prefix
  <2>2. e \in CFunction /\ f \in 1 .. Len(s) /\ cstack' = [s EXCEPT ![f] = e]
    BY <1>7, <1>8, <2>1
  <2> HIDE DEF s, e
  <2>3. cstack' \in Seq(CFunction) /\ Len(cstack') = Len(s) /\ \A k \in 1 .. Len(s) : cstack'[k] = IF k = f THEN e ELSE s[k]
    BY <2>1, <2>2, ExceptSeq
  <2>4. \A k \in 1 .. f - 1 : k \in 1 .. f /\ k # f
    BY <1>4
  <2>5. \A k \in 1 .. f - 1 : cstack'[k] = cstack[k]
    BY <2>1, <2>3, <2>4
  <2> QED
    BY <1>8, <2>1, <2>3, <2>5 DEF e
<1>10. /\ cstack'[f].kind = cstack[f].kind /\ cstack'[f].to = cstack[f].to
       /\ cstack'[f].oldcatch = cstack[f].oldcatch
  BY <1>8, <1>9 DEF CFunction
<1>11. nC' = f /\ KeepsFunctions(f - 1) /\ KeepsCatches(f - 1)
  BY <1>9 DEF nC, KeepsFunctions, KeepsCatches
<1>12. cstack[f].to \in Nat
  BY <1>4 DEF Structure, Sizes
<1>13. SwitchesCallback
  BY <1>2, <1>3, <1>4, <1>10, <1>11, <1>12, SameContexts, SameInfos DEF SwitchesCallback, Kind, FrameKind, f
<1> QED
  BY <1>9, <1>13, SwitchCallbackStructure

(* Setting je_mustcatch of the topmost JMPENV.                             *)
LEMMA CatchSet ==
  ASSUME NEW frames \in Seq(CFunction), NEW v \in BOOLEAN, TopEnv \in 1 .. Len(frames)
  PROVE  /\ CATCH_SET(frames, v) \in Seq(CFunction) /\ Len(CATCH_SET(frames, v)) = Len(frames)
         /\ \A k \in 1 .. Len(frames) :
              /\ CATCH_SET(frames, v)[k].kind = frames[k].kind
              /\ CATCH_SET(frames, v)[k].to = frames[k].to
              /\ CATCH_SET(frames, v)[k].on = frames[k].on
              /\ CATCH_SET(frames, v)[k].oldcatch = frames[k].oldcatch
              /\ CATCH_SET(frames, v)[k].mustcatch = IF k = TopEnv THEN v ELSE frames[k].mustcatch
<1> DEFINE e == [frames[TopEnv] EXCEPT !.mustcatch = v]
           g == CATCH_SET(frames, v)
<1>1. frames[TopEnv] \in CFunction
  OBVIOUS
<1>2. /\ e \in CFunction /\ e.kind = frames[TopEnv].kind /\ e.to = frames[TopEnv].to
      /\ e.on = frames[TopEnv].on /\ e.oldcatch = frames[TopEnv].oldcatch /\ e.mustcatch = v
  BY <1>1 DEF CFunction
<1>3. g = [frames EXCEPT ![TopEnv] = e]
  BY DEF CATCH_SET
<1> HIDE DEF e, g
<1>4. /\ g \in Seq(CFunction) /\ Len(g) = Len(frames)
      /\ \A k \in 1 .. Len(frames) : g[k] = IF k = TopEnv THEN e ELSE frames[k]
  BY <1>2, <1>3, ExceptSeq
<1>5. \A k \in 1 .. Len(frames) :
        /\ g[k].kind = frames[k].kind /\ g[k].to = frames[k].to /\ g[k].on = frames[k].on
        /\ g[k].oldcatch = frames[k].oldcatch
        /\ g[k].mustcatch = IF k = TopEnv THEN v ELSE frames[k].mustcatch
  <2> TAKE k \in 1 .. Len(frames)
  <2>1. CASE k = TopEnv
    <3>1. g[k] = e
      BY <1>4, <2>1
    <3> QED
      BY <1>2, <2>1, <3>1
  <2>2. CASE k # TopEnv
    <3>1. g[k] = frames[k]
      BY <1>4, <2>2
    <3> QED
      BY <2>2, <3>1
  <2> QED
    BY <2>1, <2>2
<1> QED
  BY <1>4, <1>5 DEF g

LEMMA PushMulticallKeeps ==
  ASSUME TypeOK, Structure, NEW cv \in CVs, PUSH_MULTICALL(cv)
  PROVE  Structure' /\ cstack' \in Seq(CFunction)
<1> DEFINE g == CATCH_SET(cstack, TRUE)
           m == [Frame("multicall") EXCEPT !.oldcatch = CATCH_GET]
           c == [cx_pushblock("MULTI") EXCEPT !.cv = cv, !.olddepth = depth[cv], !.old_cxsubix = -1]
<1>1. /\ RunsOps /\ cstack' = Append(g, m) /\ cxstack' = Append(cxstack, c)
      /\ si' = SetSubix(push_stackinfo, 0)
  BY DEF PUSH_MULTICALL
<1>2. nC \in Nat \ {0} /\ nCx \in Nat /\ cstack \in Seq(CFunction)
  BY TopsOfStacks DEF TypeOK
<1>3. OpsRun /\ Kind(nC) \in {"run", "multicall"}
  BY <1>1, OpsRunning DEF OpsRun
<1>4. /\ TopEnv \in 1 .. nC /\ Kind(TopEnv) = "run"
      /\ \A k \in TopEnv + 1 .. nC : Kind(k) = "multicall"
      /\ CATCH_GET <=> Kind(nC) = "multicall"
  BY <1>3, CatchIs
<1>5. CATCH_GET \in BOOLEAN
  <2>1. cstack[TopEnv] \in CFunction
    BY <1>2, <1>4 DEF nC
  <2> QED
    BY <2>1 DEF CATCH_GET, CFunction
<1>6. m \in CFunction /\ m.kind = "multicall" /\ ~m.on /\ m.to = 0 /\ m.oldcatch = CATCH_GET
  BY <1>5 DEF Frame, CFunction
<1>7. /\ g \in Seq(CFunction) /\ Len(g) = nC
      /\ \A k \in 1 .. nC : /\ g[k].kind = cstack[k].kind /\ g[k].to = cstack[k].to
                            /\ g[k].on = cstack[k].on /\ g[k].oldcatch = cstack[k].oldcatch
                            /\ g[k].mustcatch = IF k = TopEnv THEN TRUE ELSE cstack[k].mustcatch
  <2>1. TopEnv \in 1 .. Len(cstack) /\ TRUE \in BOOLEAN /\ Len(cstack) = nC
    BY <1>4 DEF nC
  <2> HIDE DEF g
  <2>2. g = CATCH_SET(cstack, TRUE)
    BY DEF g
  <2>3. /\ CATCH_SET(cstack, TRUE) \in Seq(CFunction) /\ Len(CATCH_SET(cstack, TRUE)) = Len(cstack)
        /\ \A k \in 1 .. Len(cstack) :
             /\ CATCH_SET(cstack, TRUE)[k].kind = cstack[k].kind
             /\ CATCH_SET(cstack, TRUE)[k].to = cstack[k].to
             /\ CATCH_SET(cstack, TRUE)[k].on = cstack[k].on
             /\ CATCH_SET(cstack, TRUE)[k].oldcatch = cstack[k].oldcatch
             /\ CATCH_SET(cstack, TRUE)[k].mustcatch = IF k = TopEnv THEN TRUE ELSE cstack[k].mustcatch
    BY <1>2, <2>1, CatchSet
  <2> QED
    BY <2>1, <2>2, <2>3
<1>8. c \in Context /\ c.type = "MULTI"
  <2> DEFINE p == cx_pushblock("MULTI")
             n == depth[cv]
  <2>1. p \in Context /\ p.type = "MULTI"
    BY BlockIs DEF Subs
  <2>2. n \in Nat /\ -1 \in Int /\ c = [p EXCEPT !.cv = cv, !.olddepth = n, !.old_cxsubix = -1]
    BY DEF TypeOK
  <2> HIDE DEF p, n, c
  <2> QED
    BY <2>1, <2>2 DEF Context
<1> HIDE DEF g, m, c
<1>9. cstack' \in Seq(CFunction) /\ Len(cstack') = nC + 1 /\ cstack'[nC + 1] = m /\ \A k \in 1 .. nC : cstack'[k] = g[k]
  BY <1>1, <1>6, <1>7, AppendProperties
<1>10. nC' = nC + 1 /\ KeepsFunctions(nC)
  BY <1>7, <1>9 DEF nC, KeepsFunctions
<1>11. nCx' = nCx + 1 /\ KeepsContexts(nCx) /\ cxstack'[nCx + 1] = c
  BY <1>1, ContextPushed
<1>12. /\ nSI' = nSI + 1 /\ KeepsInfos(nSI)
       /\ si'[nSI + 1].base = nCx /\ si'[nSI + 1].frame = nC + 1
  BY <1>1, InfoPushed
<1>13. PushesInfo(c)
  BY <1>3, <1>6, <1>8, <1>9, <1>10, <1>11, <1>12, ContextIs DEF PushesInfo
<1>14. Catches'
  <2> SUFFICES ASSUME NEW k \in 1 .. nC + 1
               PROVE  /\ cstack'[k].kind = "run" =>
                            (cstack'[k].mustcatch <=> k < nC + 1 /\ cstack'[k + 1].kind = "multicall")
                      /\ cstack'[k].kind = "multicall" =>
                            (cstack'[k].oldcatch <=> cstack'[k - 1].kind = "multicall")
    BY <1>10 DEF Catches, Kind
  <2>0. \A q \in 1 .. nC : cstack'[q].kind = Kind(q)
    BY <1>7, <1>9 DEF Kind
  <2>1. CASE k = nC + 1
    <3>1. cstack'[k - 1].kind = Kind(nC)
      BY <1>2, <2>0, <2>1
    <3> QED
      BY <1>4, <1>6, <1>9, <2>1, <3>1
  <2>2. CASE k \in 1 .. nC
    <3>1. /\ cstack'[k].oldcatch = cstack[k].oldcatch
          /\ cstack'[k].mustcatch = IF k = TopEnv THEN TRUE ELSE cstack[k].mustcatch
      BY <1>7, <1>9, <2>2
    <3>2. k < nC => cstack'[k + 1].kind = Kind(k + 1)
      BY <1>2, <2>0, <2>2
    <3>3. k > 1 => cstack'[k - 1].kind = Kind(k - 1)
      BY <1>2, <2>0, <2>2
    <3>4. k = nC => cstack'[k + 1].kind = "multicall"
      BY <1>6, <1>9
    <3>5. Kind(k) = "run" /\ k # TopEnv => k < nC /\ k < TopEnv
      BY <1>2, <1>4, <2>2
    <3>6. k = TopEnv /\ k < nC => Kind(k + 1) = "multicall"
      BY <1>2, <1>4
    <3>7. /\ Kind(k) = "run" => (cstack[k].mustcatch <=> k < nC /\ Kind(k + 1) = "multicall")
          /\ Kind(k) = "multicall" => (cstack[k].oldcatch <=> Kind(k - 1) = "multicall")
      BY <2>2 DEF Structure, Catches
    <3>8. Kind(k) = "multicall" => k > 1
      BY <2>2 DEF Structure, Frames
    <3> QED
      BY <1>2, <2>0, <2>2, <3>1, <3>2, <3>3, <3>4, <3>5, <3>6, <3>7, <3>8
  <2> QED
    BY <1>2, <2>1, <2>2
<1> QED
  BY <1>9, <1>13, <1>14, PushInfoStructure

LEMMA PopMulticallKeeps ==
  ASSUME TypeOK, Structure, POP_MULTICALL
  PROVE  Structure'
<1> DEFINE c == [Frame("leave") EXCEPT !.to = Top.oldsaveix]
<1>1. /\ Kind(nC) = "multicall" /\ ~cstack[nC].on
      /\ cstack' = Append(cstack, c) /\ cxstack' = cxstack /\ si' = si
  BY TopsOfStacks DEF POP_MULTICALL, Kind
<1>2. nCx \in Nat /\ nSI \in Nat \ {0} /\ Top = cxstack[nCx] /\ si[nSI].base \in 0 .. nCx
  BY TopsOfStacks
<1>3. nCx > 0
  BY <1>1, <1>2 DEF Structure, Idle
<1>4. Top.oldsaveix \in Nat
  BY <1>2, <1>3 DEF Structure, Sizes
<1>5. c \in CFunction /\ c.kind = "leave" /\ c.to = Top.oldsaveix /\ ~c.on
  BY <1>4, LeaveFrameIs
<1> HIDE DEF c
<1>6. nC' = nC + 1 /\ KeepsFunctions(nC) /\ KeepsCatches(nC) /\ cstack'[nC + 1] = c
  BY <1>1, <1>5, FramePushed
<1>7. CallsFunction(c)
  BY <1>1, <1>2, <1>3, <1>4, <1>5, <1>6, SameContexts, SameInfos DEF CallsFunction
<1> QED
  BY <1>7, CallFunctionStructure

(* The callback that POP_MULTICALL ends is the one of the current stackinfo.*)
EndsCallback(n) ==
  /\ n = nC - 1 /\ n \in 2 .. nC /\ Kind(nC) = "leave" /\ Kind(n) = "multicall"
  /\ n = si[nSI].frame /\ FrameKind(nSI) = "multicall"
  /\ nSI > 1 /\ nCx = si[nSI].base + 1 /\ si[nSI].base \in Nat
  /\ Leaving(nC, nSI, nCx)

LEMMA EndMulticallIs ==
  ASSUME TypeOK, Structure, EndMulticall
  PROVE  EndsCallback(nC - 1)
<1> DEFINE n == nC - 1
<1>1. /\ nCx \in Nat /\ nSI \in Nat \ {0} /\ nC \in Nat \ {0} /\ Code = cstack[nC]
      /\ si[nSI].base \in 0 .. nCx
  BY TopsOfStacks
<1>2. /\ Kind(nC) = "leave" /\ Kind(n) = "multicall" /\ Ends(nC)
  BY <1>1 DEF EndMulticall, EndsMulticall, Ends, Kind, nC
<1>3. nC > 1
  BY <1>1, <1>2 DEF Structure, Frames
<1>4. n \in 1 .. nC /\ \A k \in n + 1 .. nC : k = nC
  BY <1>1, <1>3
<1>5. n = si[nSI].frame
  <2>1. \A k \in n + 1 .. nC : Kind(k) = "leave"
    BY <1>2, <1>4
  <2> HIDE DEF n
  <2>2. \/ n = si[nSI].frame
        \/ n = si[nSI].frame + 1 /\ FrameKind(nSI) = "multicall" /\ Kind(n) = "run"
    BY <1>2, <1>4, <2>1, CurrentFunction DEF Structure
  <2> QED
    BY <1>2, <2>2
<1>6. n # 1
  BY <1>2 DEF Structure, Frames
<1>7. nSI # 1
  BY <1>5, <1>6 DEF Structure, Infos
<1>8. Leaving(nC, nSI, nCx)
  BY <1>2 DEF Structure, Leavings
<1> QED
  BY <1>1, <1>2, <1>3, <1>4, <1>5, <1>6, <1>7, <1>8 DEF EndsCallback, Leaving, FrameKind

LEMMA EndMulticallKeeps ==
  ASSUME TypeOK, Structure, EndMulticall
  PROVE  Structure' /\ cstack' \in Seq(CFunction)
<1> DEFINE n == nC - 1
           v == cstack[n].oldcatch
           h == SubSeq(cstack, 1, n - 1)
<1>1. nC \in Nat \ {0} /\ EndsCallback(n)
  BY TopsOfStacks, EndMulticallIs
<1>2. /\ n \in 2 .. nC /\ Kind(nC) = "leave" /\ Kind(n) = "multicall"
      /\ nC = n + 1 /\ nSI > 1 /\ nCx = si[nSI].base + 1 /\ si[nSI].base \in Nat
      /\ n = si[nSI].frame /\ FrameKind(nSI) = "multicall"
  BY <1>1 DEF EndsCallback
<1>3. cxstack' = Front(cxstack) /\ si' = Front(si) /\ cstack' = CATCH_SET(h, v)
  <2>1. Len(cstack) - 1 = n /\ Len(cstack) - 2 = n - 1
    BY <1>1 DEF nC
  <2> QED
    BY <2>1 DEF EndMulticall
<1> HIDE DEF n
<1>4. /\ TopEnv \in 1 .. n /\ Kind(TopEnv) = "run"
      /\ \A k \in TopEnv + 1 .. n : Kind(k) = "multicall"
  <2>1. n \in 1 .. nC /\ \A k \in n + 1 .. nC : k = nC
    BY <1>1, <1>2
  <2>2. \A k \in n + 1 .. nC : Kind(k) = "leave"
    BY <1>2, <2>1
  <2> QED
    BY <1>2, <2>1, <2>2, CatchBelow
<1>5. TopEnv \in 1 .. n - 1
  BY <1>2, <1>4
<1>6. /\ h \in Seq(CFunction) /\ Len(h) = n - 1 /\ v \in BOOLEAN
      /\ \A k \in 1 .. n - 1 : h[k] = cstack[k]
  <2>1. cstack \in Seq(CFunction) /\ n - 1 \in 0 .. Len(cstack) /\ n \in 1 .. Len(cstack)
    BY <1>1, <1>2 DEF TypeOK, nC
  <2>2. cstack[n] \in CFunction
    BY <2>1
  <2>3. v \in BOOLEAN
    BY <2>2 DEF CFunction
  <2> HIDE DEF v
  <2> QED
    BY <2>1, <2>3, Prefix
<1> HIDE DEF h, v
<1>7. /\ cstack' \in Seq(CFunction) /\ Len(cstack') = n - 1
      /\ \A k \in 1 .. n - 1 :
           /\ cstack'[k].kind = cstack[k].kind /\ cstack'[k].to = cstack[k].to
           /\ cstack'[k].on = cstack[k].on /\ cstack'[k].oldcatch = cstack[k].oldcatch
           /\ cstack'[k].mustcatch = IF k = TopEnv THEN v ELSE cstack[k].mustcatch
  BY <1>3, <1>5, <1>6, CatchSet
<1>8. nC' = n - 1 /\ KeepsFunctions(n - 1)
  BY <1>7 DEF nC, KeepsFunctions
<1>9. nCx' = si[nSI].base /\ KeepsContexts(nCx')
  BY <1>2, <1>3, ContextPopped
<1>10. nSI' = nSI - 1 /\ KeepsInfos(nSI - 1)
  BY <1>2, <1>3, InfoPopped
<1>11. EndsInfo
  <2>1. nC' = si[nSI].frame - 1 /\ KeepsFunctions(nC')
    BY <1>2, <1>8
  <2>2. nC = si[nSI].frame + 1
    BY <1>2
  <2> QED
    BY <1>2, <1>9, <1>10, <2>1, <2>2 DEF EndsInfo
<1>12. Catches'
  <2> SUFFICES ASSUME NEW k \in 1 .. n - 1
               PROVE  /\ cstack'[k].kind = "run" =>
                            (cstack'[k].mustcatch <=> k < n - 1 /\ cstack'[k + 1].kind = "multicall")
                      /\ cstack'[k].kind = "multicall" =>
                            (cstack'[k].oldcatch <=> cstack'[k - 1].kind = "multicall")
    BY <1>8 DEF Catches, Kind
  <2>0. \A q \in 1 .. n - 1 : cstack'[q].kind = Kind(q)
    BY <1>7 DEF Kind
  <2>1. /\ cstack'[k].oldcatch = cstack[k].oldcatch
        /\ cstack'[k].mustcatch = IF k = TopEnv THEN v ELSE cstack[k].mustcatch
    BY <1>7
  <2>2. k < n - 1 => cstack'[k + 1].kind = Kind(k + 1)
    BY <1>2, <2>0
  <2>3. k > 1 => cstack'[k - 1].kind = Kind(k - 1)
    BY <1>2, <2>0
  <2>4. v <=> Kind(n - 1) = "multicall"
    BY <1>1, <1>2 DEF Structure, Catches, v
  <2>5. Kind(k) = "run" /\ k # TopEnv => k < n - 1 /\ k < TopEnv
    BY <1>2, <1>4, <1>5
  <2>6. k = TopEnv /\ k < n - 1 => Kind(k + 1) = "multicall" /\ Kind(n - 1) = "multicall"
    <3>1. k = TopEnv /\ k < n - 1 => k + 1 \in TopEnv + 1 .. n /\ n - 1 \in TopEnv + 1 .. n
      BY <1>2, <1>5
    <3> QED
      BY <1>4, <3>1
  <2>7. /\ Kind(k) = "run" => (cstack[k].mustcatch <=> k < nC /\ Kind(k + 1) = "multicall")
        /\ Kind(k) = "multicall" => (cstack[k].oldcatch <=> Kind(k - 1) = "multicall")
        /\ Kind(k) = "multicall" => k > 1
    BY <1>1, <1>2 DEF Structure, Catches, Frames
  <2> QED
    BY <1>1, <1>2, <1>4, <2>0, <2>1, <2>2, <2>3, <2>4, <2>5, <2>6, <2>7
<1> QED
  BY <1>7, <1>11, <1>12, EndInfoStructure

-----------------------------------------------------------------------------
(* What was in force when a context was entered is recorded and restored.  *)

KeepsAt(n) ==
  \A j \in 1 .. n : /\ PadAt(j)' = PadAt(j) /\ FlagsAt(j)' = FlagsAt(j)
                    /\ TopicAt(j)' = TopicAt(j) /\ DefavAt(j)' = DefavAt(j)
                    /\ MarksAt(j)' = MarksAt(j)

Keeps(n) == KeepsContexts(n) /\ KeepsAt(n + 1)

RecordsEnv(c) ==
  /\ nCx' = nCx + 1 /\ KeepsContexts(nCx) /\ cxstack'[nCx + 1] = c
  /\ c.prevcomppad = comppad /\ c.old_in_eval = in_eval /\ c.itersave = topic
  /\ c.savearray = defav /\ c.oldmarksp = marks /\ c.oldsaveix = Len(saves)
  /\ saves' = saves
  /\ \/ /\ c.type \in Subs \cup {"FORMAT"} /\ c.cv \in CVs
        /\ c.type \in Subs => c.olddepth = depth[c.cv]
        /\ EnterCv(c.cv)
     \/ /\ c.type \notin Subs \cup {"FORMAT"} /\ c.cv = Main
        /\ UNCHANGED <<depth, refs, comppad>>
  /\ c.type \in Evals \/ in_eval' = in_eval
  /\ c.type = "LOOP" \/ topic' = topic
  /\ c.hasargs => c.type = "SUB"
  /\ ~c.hasargs => defav' = defav

RestoresEnv ==
  /\ nCx > 0 /\ nCx' = nCx - 1 /\ KeepsContexts(nCx - 1)
  /\ PopOfType(cxstack[nCx]) /\ cx_popblock(cxstack[nCx])
  /\ saves' = saves /\ Len(saves) <= cxstack[nCx].oldsaveix

KeepsEnv ==
  /\ cxstack' = cxstack /\ UNCHANGED interp
  /\ \/ saves' = saves
     \/ saves' = Front(saves) /\ nCx > 0 /\ Len(saves) > cxstack[nCx].oldsaveix
     \/ saves' = Append(saves, comppad)

EnvStep == (\E c : RecordsEnv(c)) \/ RestoresEnv \/ KeepsEnv

LEMMA RecordsKeeps ==
  ASSUME TypeOK, NEW c, RecordsEnv(c)
  PROVE  /\ Keeps(nCx)
         /\ \A j : j = nCx + 2 => /\ PadAt(j)' = comppad' /\ FlagsAt(j)' = in_eval'
                                  /\ TopicAt(j)' = topic' /\ DefavAt(j)' = defav'
<1>1. /\ nCx' = nCx + 1 /\ KeepsContexts(nCx) /\ cxstack'[nCx + 1] = c
      /\ c.prevcomppad = comppad /\ c.old_in_eval = in_eval /\ c.itersave = topic
      /\ c.savearray = defav /\ c.oldmarksp = marks
  BY DEF RecordsEnv
<1>2. nCx \in Nat
  BY DEF TypeOK, nCx
<1>3. \A j \in 1 .. nCx + 1 : cxstack'[j] = IF j = nCx + 1 THEN c ELSE cxstack[j]
  BY <1>1, <1>2 DEF KeepsContexts
<1> QED
  BY <1>1, <1>2, <1>3 DEF Keeps, KeepsAt, PadAt, FlagsAt, TopicAt, DefavAt, MarksAt

(* Popping a context puts back what its type saves; the rest is as it was. *)
LEMMA RestoresKeeps ==
  ASSUME TypeOK, Recorded, RestoresEnv
  PROVE  Keeps(nCx - 1)
<1> DEFINE c == cxstack[nCx]
<1>1. /\ nCx' = nCx - 1 /\ KeepsContexts(nCx - 1) /\ nCx \in Nat \ {0}
      /\ PopOfType(c) /\ marks' = c.oldmarksp
  BY DEF RestoresEnv, cx_popblock, TypeOK, nCx
<1>2. /\ IF c.type \in Subs \cup {"FORMAT"} THEN c.cv \in CVs ELSE c.cv = Main
      /\ c.hasargs => c.type = "SUB"
      /\ c.cv = Main => comppad = c.prevcomppad
      /\ c.type \notin Evals => in_eval = c.old_in_eval
      /\ c.type # "LOOP" => topic = c.itersave
      /\ ~c.hasargs => defav = c.savearray
  BY <1>1 DEF Recorded, Changes, PadAt, FlagsAt, TopicAt, DefavAt
<1> HIDE DEF c
<1>3. /\ comppad' = c.prevcomppad /\ in_eval' = c.old_in_eval
      /\ topic' = c.itersave /\ defav' = c.savearray
  <2>1. CASE c.type \in Subs /\ cx_popsub(c)
    BY <1>2, <2>1 DEF cx_popsub, cx_popsub_common, Subs, Evals
  <2>2. CASE c.type = "FORMAT" /\ cx_popformat(c)
    BY <1>2, <2>2 DEF cx_popformat, Evals
  <2>3. CASE c.type \in Evals /\ cx_popeval(c)
    BY <1>2, <2>3 DEF cx_popeval, Subs, Evals
  <2>4. CASE c.type = "LOOP" /\ cx_poploop(c)
    BY <1>2, <2>4 DEF cx_poploop, Subs, Evals
  <2> QED
    BY <1>1, <2>1, <2>2, <2>3, <2>4 DEF PopOfType
<1>4. \A j \in 1 .. nCx : j <= nCx - 1 \/ j = nCx
  BY <1>1
<1>5. \A j \in 1 .. nCx - 1 : cxstack'[j] = cxstack[j]
  BY <1>1 DEF KeepsContexts
<1> QED
  BY <1>1, <1>3, <1>4, <1>5 DEF Keeps, KeepsAt, PadAt, FlagsAt, TopicAt, DefavAt, MarksAt, c

LEMMA KeepsKeeps ==
  ASSUME TypeOK, KeepsEnv
  PROVE  /\ nCx' = nCx /\ KeepsContexts(nCx) /\ comppad' = comppad
         /\ \A j : /\ PadAt(j)' = PadAt(j) /\ FlagsAt(j)' = FlagsAt(j)
                   /\ TopicAt(j)' = TopicAt(j) /\ DefavAt(j)' = DefavAt(j)
BY DEF KeepsEnv, interp, nCx, KeepsContexts, PadAt, FlagsAt, TopicAt, DefavAt

LEMMA RecordedKept ==
  ASSUME NEW n \in Nat, n <= nCx, Recorded, nCx \in Nat, nCx' \in {n, n + 1},
         KeepsContexts(n),
         \A j \in 1 .. n + 1 : /\ PadAt(j)' = PadAt(j) /\ FlagsAt(j)' = FlagsAt(j)
                               /\ TopicAt(j)' = TopicAt(j) /\ DefavAt(j)' = DefavAt(j),
         \A j \in 1 .. nCx' : j = n + 1 => Changes(j)'
  PROVE  Recorded'
<1> SUFFICES ASSUME NEW j \in 1 .. nCx'
             PROVE  Changes(j)'
  BY DEF Recorded
<1>1. CASE j = n + 1
  BY <1>1
<1>2. CASE j \in 1 .. n
  <2>1. Changes(j) /\ cxstack'[j] = cxstack[j]
    BY <1>2 DEF Recorded, KeepsContexts
  <2>2. j + 1 \in 1 .. n + 1 /\ j \in 1 .. n + 1
    BY <1>2
  <2>3. /\ PadAt(j + 1)' = PadAt(j + 1) /\ FlagsAt(j + 1)' = FlagsAt(j + 1)
        /\ TopicAt(j + 1)' = TopicAt(j + 1) /\ DefavAt(j + 1)' = DefavAt(j + 1)
    BY <2>2
  <2>4. /\ PadAt(j)' = PadAt(j) /\ FlagsAt(j)' = FlagsAt(j)
        /\ TopicAt(j)' = TopicAt(j) /\ DefavAt(j)' = DefavAt(j)
    BY <2>2
  <2> QED
    BY <2>1, <2>3, <2>4 DEF Changes
<1> QED
  BY <1>1, <1>2

LEMMA RecordsRecorded ==
  ASSUME TypeOK, Recorded, NEW c, RecordsEnv(c)
  PROVE  Recorded'
<1>1. nCx \in Nat /\ nCx' = nCx + 1 /\ cxstack'[nCx + 1] = c
  BY DEF TypeOK, nCx, RecordsEnv
<1>2. /\ Keeps(nCx)
      /\ \A j : j = nCx + 2 => /\ PadAt(j)' = comppad' /\ FlagsAt(j)' = in_eval'
                               /\ TopicAt(j)' = topic' /\ DefavAt(j)' = defav'
  BY RecordsKeeps
<1>3. /\ IF c.type \in Subs \cup {"FORMAT"} THEN c.cv \in CVs ELSE c.cv = Main
      /\ c.hasargs => c.type = "SUB"
      /\ c.cv = Main => comppad' = comppad
      /\ c.type \notin Evals => in_eval' = in_eval
      /\ c.type # "LOOP" => topic' = topic
      /\ ~c.hasargs => defav' = defav
  <2>1. \/ c.type \in Subs \cup {"FORMAT"} /\ c.cv \in CVs
        \/ c.type \notin Subs \cup {"FORMAT"} /\ c.cv = Main /\ comppad' = comppad
    BY DEF RecordsEnv
  <2>2. c.cv \in CVs => c.cv # Main
    BY MainAssumption
  <2> QED
    BY <2>1, <2>2 DEF RecordsEnv
<1>4. \A j : j = nCx + 1 => /\ PadAt(j)' = comppad /\ FlagsAt(j)' = in_eval
                            /\ TopicAt(j)' = topic /\ DefavAt(j)' = defav
  BY <1>1, <1>2 DEF Keeps, KeepsAt, PadAt, FlagsAt, TopicAt, DefavAt
<1>5. \A j \in 1 .. nCx' : j = nCx + 1 => Changes(j)'
  <2> TAKE j \in 1 .. nCx'
  <2> HAVE j = nCx + 1
  <2>1. /\ PadAt(j + 1)' = comppad' /\ FlagsAt(j + 1)' = in_eval'
        /\ TopicAt(j + 1)' = topic' /\ DefavAt(j + 1)' = defav'
    BY <1>1, <1>2
  <2>2. /\ PadAt(j)' = comppad /\ FlagsAt(j)' = in_eval /\ TopicAt(j)' = topic /\ DefavAt(j)' = defav
    BY <1>4
  <2>3. cxstack'[j] = c
    BY <1>1
  <2> QED
    BY <1>3, <2>1, <2>2, <2>3 DEF Changes
<1> QED
  BY <1>1, <1>2, <1>5, RecordedKept DEF Keeps, KeepsAt

LEMMA RestoresRecorded ==
  ASSUME TypeOK, Recorded, RestoresEnv
  PROVE  Recorded'
<1>1. nCx \in Nat \ {0} /\ nCx' = nCx - 1
  BY DEF TypeOK, nCx, RestoresEnv
<1>2. Keeps(nCx - 1) /\ nCx - 1 \in Nat /\ nCx - 1 + 1 = nCx /\ nCx - 1 <= nCx
  BY <1>1, RestoresKeeps
<1>3. \A j \in 1 .. nCx' : j # nCx - 1 + 1
  BY <1>1
<1> DEFINE n == nCx - 1
<1>4. /\ n \in Nat /\ n <= nCx /\ nCx' \in {n, n + 1} /\ KeepsContexts(n)
      /\ \A j \in 1 .. n + 1 : /\ PadAt(j)' = PadAt(j) /\ FlagsAt(j)' = FlagsAt(j)
                               /\ TopicAt(j)' = TopicAt(j) /\ DefavAt(j)' = DefavAt(j)
      /\ \A j \in 1 .. nCx' : j # n + 1
  BY <1>1, <1>2, <1>3 DEF Keeps, KeepsAt
<1> HIDE DEF n
<1> QED
  BY <1>1, <1>4, RecordedKept

LEMMA KeepsRecorded ==
  ASSUME TypeOK, Recorded, KeepsEnv
  PROVE  Recorded'
<1>1. nCx \in Nat
  BY DEF TypeOK, nCx
<1>2. \A j \in 1 .. nCx : j # nCx + 1
  BY <1>1
<1> QED
  BY <1>1, <1>2, KeepsKeeps, RecordedKept

LEMMA SavesIs ==
  ASSUME TypeOK, Sizes
  PROVE  /\ nCx \in Nat /\ Len(saves) \in Nat /\ \A j \in 1 .. nCx + 1 : SavesAt(j) \in Nat
         /\ SavesAt(nCx + 1) = Len(saves) /\ PadAt(nCx + 1) = comppad
BY DEF TypeOK, Sizes, SavesAt, PadAt

LEMMA RecordsSaves ==
  ASSUME TypeOK, Sizes, Savestack, PadsSaved, NEW c, RecordsEnv(c)
  PROVE  Savestack' /\ PadsSaved'
<1>1. /\ nCx \in Nat /\ Len(saves) \in Nat /\ \A j \in 1 .. nCx + 1 : SavesAt(j) \in Nat
      /\ SavesAt(nCx + 1) = Len(saves)
  BY SavesIs
<1>2. nCx' = nCx + 1 /\ saves' = saves
  BY DEF RecordsEnv
<1>3. \A j \in 1 .. nCx + 1 : SavesAt(j)' = SavesAt(j) /\ PadAt(j)' = PadAt(j)
  <2>1. \A j \in 1 .. nCx + 1 : cxstack'[j] = IF j = nCx + 1 THEN c ELSE cxstack[j]
    BY <1>1 DEF RecordsEnv, KeepsContexts
  <2>2. c.oldsaveix = Len(saves)
    BY DEF RecordsEnv
  <2>3. Keeps(nCx)
    BY RecordsKeeps
  <2> QED
    BY <1>1, <1>2, <2>1, <2>2, <2>3 DEF SavesAt, Keeps, KeepsAt
<1>4. \A j : j = nCx + 2 => SavesAt(j)' = Len(saves)
  BY <1>1, <1>2 DEF SavesAt
<1>5. Savestack'
  <2>1. \A j \in 1 .. nCx : SavesAt(j) <= Len(saves) /\ \A l \in j .. nCx : SavesAt(j) <= SavesAt(l)
    BY DEF Savestack
  <2> SUFFICES ASSUME NEW j \in 1 .. nCx + 1
               PROVE  SavesAt(j) <= Len(saves) /\ \A l \in j .. nCx + 1 : SavesAt(j) <= SavesAt(l)
    BY <1>1, <1>2, <1>3 DEF Savestack
  <2>2. CASE j = nCx + 1
    BY <1>1, <2>2
  <2>3. CASE j \in 1 .. nCx
    BY <1>1, <2>1, <2>3
  <2> QED
    BY <1>1, <2>2, <2>3
<1>6. PadsSaved'
  <2> SUFFICES ASSUME NEW j \in 1 .. nCx + 2, NEW p \in 1 .. Len(saves),
                      j > 1 => SavesAt(j - 1)' < p, p <= SavesAt(j)'
               PROVE  saves[p] = PadAt(j)'
    BY <1>1, <1>2 DEF PadsSaved
  <2>1. CASE j = nCx + 2
    <3>1. j - 1 = nCx + 1 /\ j > 1
      BY <1>1, <2>1
    <3>2. SavesAt(j - 1)' = Len(saves)
      BY <1>1, <1>3, <3>1
    <3> QED
      BY <1>1, <3>1, <3>2
  <2>2. CASE j \in 1 .. nCx + 1
    <3>1. SavesAt(j)' = SavesAt(j) /\ PadAt(j)' = PadAt(j) /\ (j > 1 => SavesAt(j - 1)' = SavesAt(j - 1))
      BY <1>1, <1>3, <2>2
    <3> QED
      BY <2>2, <3>1 DEF PadsSaved
  <2> QED
    BY <1>1, <2>1, <2>2
<1> QED
  BY <1>5, <1>6

LEMMA RestoresSaves ==
  ASSUME TypeOK, Sizes, Recorded, Savestack, PadsSaved, RestoresEnv
  PROVE  Savestack' /\ PadsSaved'
<1>1. /\ nCx \in Nat \ {0} /\ Len(saves) \in Nat /\ \A j \in 1 .. nCx : SavesAt(j) \in Nat
  BY SavesIs DEF RestoresEnv
<1>2. nCx' = nCx - 1 /\ saves' = saves /\ Len(saves) <= SavesAt(nCx)
  BY DEF RestoresEnv, SavesAt, TypeOK, nCx
<1>3. \A j \in 1 .. nCx - 1 : SavesAt(j)' = SavesAt(j)
  BY <1>1, <1>2 DEF SavesAt, RestoresEnv, KeepsContexts
<1>4. \A j \in 1 .. nCx : PadAt(j)' = PadAt(j)
  BY <1>1, RestoresKeeps DEF Keeps, KeepsAt
<1>5. Savestack'
  BY <1>1, <1>2, <1>3 DEF Savestack
<1>6. PadsSaved'
  <2> SUFFICES ASSUME NEW j \in 1 .. nCx, NEW p \in 1 .. Len(saves),
                      j > 1 => SavesAt(j - 1)' < p, p <= SavesAt(j)'
               PROVE  saves[p] = PadAt(j)
    BY <1>1, <1>2, <1>4 DEF PadsSaved
  <2>1. j > 1 => SavesAt(j - 1) < p
    BY <1>1, <1>3
  <2>2. p <= SavesAt(j)
    BY <1>1, <1>2, <1>3
  <2> QED
    BY <1>1, <2>1, <2>2 DEF PadsSaved
<1> QED
  BY <1>5, <1>6

LEMMA KeepsSaves ==
  ASSUME TypeOK, Sizes, Savestack, PadsSaved, KeepsEnv
  PROVE  Savestack' /\ PadsSaved'
<1>1. /\ nCx \in Nat /\ Len(saves) \in Nat /\ \A j \in 1 .. nCx + 1 : SavesAt(j) \in Nat
      /\ SavesAt(nCx + 1) = Len(saves) /\ PadAt(nCx + 1) = comppad
  BY SavesIs
<1>2. nCx' = nCx /\ \A j : PadAt(j)' = PadAt(j)
  BY KeepsKeeps
<1>3. (\A j \in 1 .. nCx : SavesAt(j)' = SavesAt(j)) /\ \A j : j = nCx + 1 => SavesAt(j)' = Len(saves')
  BY <1>1, <1>2 DEF SavesAt, KeepsEnv
<1>4. saves \in Seq(Pad)
  BY DEF TypeOK
<1>5. CASE saves' = saves
  <2>1. \A j \in 1 .. nCx + 1 : SavesAt(j)' = SavesAt(j)
    BY <1>1, <1>3, <1>5
  <2> QED
    BY <1>1, <1>2, <1>5, <2>1 DEF Savestack, PadsSaved
<1>6. CASE saves' = Front(saves) /\ nCx > 0 /\ Len(saves) > cxstack[nCx].oldsaveix
  <2> DEFINE n == Len(saves) - 1
  <2>1. Len(saves') = n /\ n \in Nat /\ \A p \in 1 .. n : saves'[p] = saves[p]
    <3>1. saves' = SubSeq(saves, 1, n) /\ n \in 0 .. Len(saves)
      BY <1>1, <1>6, <1>4 DEF Front, Savestack, Sizes
    <3> HIDE DEF n
    <3> QED
      BY <1>4, <3>1, Prefix
  <2>2. SavesAt(nCx) <= n
    BY <1>1, <1>6 DEF SavesAt
  <2>3. \A j \in 1 .. nCx : SavesAt(j) <= SavesAt(nCx)
    BY <1>1, <1>6 DEF Savestack
  <2>4. Savestack'
    BY <1>1, <1>2, <1>3, <1>6, <2>1, <2>2, <2>3 DEF Savestack
  <2>5. PadsSaved'
    <3> SUFFICES ASSUME NEW j \in 1 .. nCx + 1, NEW p \in 1 .. n,
                        j > 1 => SavesAt(j - 1)' < p, p <= SavesAt(j)'
                 PROVE  saves[p] = PadAt(j)
      BY <1>2, <2>1 DEF PadsSaved
    <3>1. p \in 1 .. Len(saves)
      BY <1>1
    <3>2. j > 1 => SavesAt(j - 1) < p
      BY <1>1, <1>3
    <3>3. p <= SavesAt(j)
      <4>1. CASE j \in 1 .. nCx
        BY <1>3, <4>1
      <4>2. CASE j = nCx + 1
        BY <1>1, <3>1, <4>2
      <4> QED
        BY <1>1, <4>1, <4>2
    <3> QED
      BY <3>1, <3>2, <3>3 DEF PadsSaved
  <2> QED
    BY <2>4, <2>5
<1>7. CASE saves' = Append(saves, comppad)
  <2>1. /\ Len(saves') = Len(saves) + 1 /\ \A p \in 1 .. Len(saves) : saves'[p] = saves[p]
        /\ saves'[Len(saves) + 1] = comppad
    BY <1>4, <1>7
  <2>2. Savestack'
    BY <1>1, <1>2, <1>3, <2>1 DEF Savestack
  <2>3. PadsSaved'
    <3> SUFFICES ASSUME NEW j \in 1 .. nCx + 1, NEW p \in 1 .. Len(saves) + 1,
                        j > 1 => SavesAt(j - 1)' < p, p <= SavesAt(j)'
                 PROVE  saves'[p] = PadAt(j)
      BY <1>2, <2>1 DEF PadsSaved
    <3>1. j > 1 => SavesAt(j - 1) < p
      BY <1>1, <1>3
    <3>2. CASE p = Len(saves) + 1
      <4>1. j = nCx + 1
        BY <1>1, <1>3, <3>2 DEF Savestack
      <4> QED
        BY <1>1, <2>1, <3>2, <4>1
    <3>3. CASE p \in 1 .. Len(saves)
      <4>1. p <= SavesAt(j)
        BY <1>1, <1>3, <3>3
      <4> QED
        BY <2>1, <3>1, <3>3, <4>1 DEF PadsSaved
    <3> QED
      BY <1>1, <3>2, <3>3
  <2> QED
    BY <2>2, <2>3
<1> QED
  BY <1>5, <1>6, <1>7 DEF KeepsEnv

(* Counting the calls of a sub.                                            *)
LEMMA CallsCount ==
  ASSUME NEW cv, NEW n \in Nat
  PROVE  /\ IsFiniteSet(CallsBelow(cv, n)) /\ Cardinality(CallsBelow(cv, n)) \in Nat
         /\ n > 0 => Cardinality(CallsBelow(cv, n)) =
                       Cardinality(CallsBelow(cv, n - 1)) + IF cxstack[n].cv = cv THEN 1 ELSE 0
<1>1. IsFiniteSet(CallsBelow(cv, n)) /\ Cardinality(CallsBelow(cv, n)) \in Nat
  <2>1. CallsBelow(cv, n) \in SUBSET (1 .. n) /\ IsFiniteSet(1 .. n)
    BY FS_Interval DEF CallsBelow
  <2> QED
    BY <2>1, FS_Subset, FS_CardinalityType
<1>2. ASSUME n > 0
      PROVE  Cardinality(CallsBelow(cv, n)) =
               Cardinality(CallsBelow(cv, n - 1)) + IF cxstack[n].cv = cv THEN 1 ELSE 0
  <2> DEFINE S == CallsBelow(cv, n - 1)
  <2>1. IsFiniteSet(S) /\ Cardinality(S) \in Nat
    <3>1. S \in SUBSET (1 .. n - 1) /\ IsFiniteSet(1 .. n - 1)
      BY FS_Interval DEF CallsBelow
    <3> QED
      BY <3>1, FS_Subset, FS_CardinalityType
  <2>2. CASE cxstack[n].cv = cv
    <3>1. CallsBelow(cv, n) = S \cup {n} /\ n \notin S
      BY <1>2, <2>2 DEF CallsBelow
    <3> HIDE DEF S
    <3>2. Cardinality(S \cup {n}) = Cardinality(S) + 1
      BY <2>1, <3>1, FS_AddElement
    <3> QED
      BY <2>2, <3>1, <3>2 DEF S
  <2>3. CASE cxstack[n].cv # cv
    <3>1. CallsBelow(cv, n) = S
      BY <1>2, <2>3 DEF CallsBelow
    <3> QED
      BY <2>1, <2>3, <3>1
  <2> QED
    BY <2>2, <2>3
<1> QED
  BY <1>1, <1>2

LEMMA CallsKept ==
  ASSUME NEW n \in Nat, KeepsContexts(n)
  PROVE  \A cv : \A m \in 0 .. n : CallsBelow(cv, m)' = CallsBelow(cv, m)
<1> SUFFICES ASSUME NEW CONSTANT cv, NEW CONSTANT m \in 0 .. n
             PROVE  {l \in 1 .. m : cxstack'[l].cv = cv} = {l \in 1 .. m : cxstack[l].cv = cv}
  BY DEF CallsBelow
<1>1. \A l \in 1 .. m : cxstack'[l] = cxstack[l]
  BY DEF KeepsContexts
<1> QED
  BY <1>1

LEMMA CallsPushed ==
  ASSUME nCx \in Nat, KeepsContexts(nCx), NEW cv
  PROVE  \A m : m = nCx + 1 =>
           Cardinality(CallsBelow(cv, m)') =
             Cardinality(CallsBelow(cv, nCx)) + IF cxstack'[nCx + 1].cv = cv THEN 1 ELSE 0
<1> DEFINE S == CallsBelow(cv, nCx)
           T == {l \in 1 .. nCx + 1 : cxstack'[l].cv = cv}
<1>1. IsFiniteSet(S) /\ Cardinality(S) \in Nat
  BY CallsCount
<1>2. \A l \in 1 .. nCx : cxstack'[l] = cxstack[l]
  BY DEF KeepsContexts
<1>3. \A m : m = nCx + 1 => CallsBelow(cv, m)' = T
  BY DEF CallsBelow
<1>4. CASE cxstack'[nCx + 1].cv = cv
  <2>1. T = S \cup {nCx + 1} /\ nCx + 1 \notin S
    BY <1>2, <1>4 DEF CallsBelow
  <2> HIDE DEF S, T
  <2>2. Cardinality(T) = Cardinality(S) + 1
    BY <1>1, <2>1, FS_AddElement
  <2> QED
    BY <1>3, <1>4, <2>2 DEF S
<1>5. CASE cxstack'[nCx + 1].cv # cv
  <2>1. T = S
    BY <1>2, <1>5 DEF CallsBelow
  <2> HIDE DEF T
  <2> QED
    BY <1>1, <1>3, <1>5, <2>1
<1> QED
  BY <1>4, <1>5

LEMMA RecordsDepths ==
  ASSUME TypeOK, Depths, NEW c, RecordsEnv(c)
  PROVE  /\ Depths' /\ depth' \in [CVs -> Nat] /\ refs' \in [CVs -> Nat]
<1>1. /\ nCx \in Nat /\ nCx' = nCx + 1 /\ KeepsContexts(nCx) /\ cxstack'[nCx + 1] = c
      /\ depth \in [CVs -> Nat] /\ refs \in [CVs -> Nat]
  BY DEF TypeOK, nCx, RecordsEnv
<1>2. \A cv \in CVs : depth[cv] = Cardinality(CallsBelow(cv, nCx)) /\ refs[cv] = depth[cv]
  BY DEF Depths
<1>3. \/ /\ c.type \in Subs \cup {"FORMAT"} /\ c.cv \in CVs
         /\ c.type \in Subs => c.olddepth = depth[c.cv]
         /\ depth' = [depth EXCEPT ![c.cv] = @ + 1] /\ refs' = [refs EXCEPT ![c.cv] = @ + 1]
      \/ c.type \notin Subs \cup {"FORMAT"} /\ c.cv = Main /\ depth' = depth /\ refs' = refs
  BY DEF RecordsEnv, EnterCv
<1>4. \A cv \in CVs : Cardinality(CallsBelow(cv, nCx)') =
        Cardinality(CallsBelow(cv, nCx)) + IF c.cv = cv THEN 1 ELSE 0
  BY <1>1, CallsPushed
<1>5. /\ depth' \in [CVs -> Nat] /\ refs' \in [CVs -> Nat]
      /\ \A cv \in CVs : /\ depth'[cv] = depth[cv] + IF c.cv = cv THEN 1 ELSE 0
                         /\ refs'[cv] = refs[cv] + IF c.cv = cv THEN 1 ELSE 0
  <2>1. CASE c.cv \in CVs /\ depth' = [depth EXCEPT ![c.cv] = @ + 1] /\ refs' = [refs EXCEPT ![c.cv] = @ + 1]
    BY <1>1, <2>1
  <2>2. CASE c.cv = Main /\ depth' = depth /\ refs' = refs
    BY <1>1, <2>2, MainAssumption
  <2> QED
    BY <1>3, <2>1, <2>2
<1>6. \A cv \in CVs : depth'[cv] = Cardinality(CallsBelow(cv, nCx)') /\ refs'[cv] = depth'[cv]
  BY <1>2, <1>4, <1>5
<1>7. ASSUME NEW j \in 1 .. nCx + 1, cxstack'[j].type \in Subs
      PROVE  cxstack'[j].olddepth = Cardinality(CallsBelow(cxstack[j].cv, j - 1)')
  <2>0. j - 1 \in 0 .. nCx /\ \A cv : CallsBelow(cv, j - 1)' = CallsBelow(cv, j - 1)
    <3>1. j - 1 \in 0 .. nCx
      BY <1>1
    <3> QED
      BY <1>1, <3>1, CallsKept
  <2>1. CASE j = nCx + 1
    <3>1. c.type \in Subs /\ c.cv \in CVs /\ c.olddepth = depth[c.cv] /\ cxstack'[j] = c /\ j - 1 = nCx
      BY <1>1, <1>3, <1>7, <2>1
    <3>2. c.olddepth = Cardinality(CallsBelow(c.cv, nCx))
      BY <1>2, <3>1
    <3>3. CallsBelow(c.cv, j - 1)' = CallsBelow(c.cv, j - 1)
      BY <2>0
    <3> QED
      BY <3>1, <3>2, <3>3
  <2>2. CASE j \in 1 .. nCx
    <3>1. cxstack'[j] = cxstack[j]
      BY <1>1, <2>2 DEF KeepsContexts
    <3>2. cxstack[j].olddepth = Cardinality(CallsBelow(cxstack[j].cv, j - 1))
      BY <1>7, <2>2, <3>1 DEF Depths
    <3> QED
      BY <2>0, <3>1, <3>2
  <2> QED
    BY <1>1, <2>1, <2>2
<1> QED
  BY <1>1, <1>5, <1>6, <1>7 DEF Depths

LEMMA RestoresDepths ==
  ASSUME TypeOK, Recorded, Depths, RestoresEnv
  PROVE  /\ Depths' /\ depth' \in [CVs -> Nat] /\ refs' \in [CVs -> Nat]
<1> DEFINE c == cxstack[nCx]
           n == nCx - 1
<1>1. /\ nCx \in Nat \ {0} /\ nCx' = n /\ n \in Nat /\ KeepsContexts(n) /\ PopOfType(c)
      /\ depth \in [CVs -> Nat] /\ refs \in [CVs -> Nat]
  BY DEF TypeOK, nCx, RestoresEnv
<1>2. \A cv \in CVs : depth[cv] = Cardinality(CallsBelow(cv, nCx)) /\ refs[cv] = depth[cv]
  BY DEF Depths
<1>3. \A cv \in CVs : /\ Cardinality(CallsBelow(cv, nCx)) = Cardinality(CallsBelow(cv, n)) + IF c.cv = cv THEN 1 ELSE 0
                      /\ Cardinality(CallsBelow(cv, n)) \in Nat
  BY <1>1, CallsCount
<1>4. /\ IF c.type \in Subs \cup {"FORMAT"} THEN c.cv \in CVs ELSE c.cv = Main
      /\ c.type \in Subs => c.olddepth = Cardinality(CallsBelow(c.cv, n))
  BY <1>1 DEF Recorded, Changes, Depths
<1>5. \A cv : CallsBelow(cv, nCx)' = CallsBelow(cv, n)
  <2>1. \A cv : \A m : m = n => CallsBelow(cv, m)' = CallsBelow(cv, m)
    BY <1>1, CallsKept
  <2> HIDE DEF n
  <2> QED
    BY <1>1, <2>1
<1>6. \A j \in 1 .. n : cxstack'[j] = cxstack[j] /\ \A cv : CallsBelow(cv, j - 1)' = CallsBelow(cv, j - 1)
  <2>1. \A j \in 1 .. n : j - 1 \in 0 .. n
    BY <1>1
  <2>2. \A j \in 1 .. n : cxstack'[j] = cxstack[j]
    BY <1>1 DEF KeepsContexts
  <2> HIDE DEF n
  <2> QED
    BY <1>1, <2>1, <2>2, CallsKept
<1> HIDE DEF c, n
<1>7. \A cv \in CVs : cv # Main
  BY MainAssumption
<1>8. /\ depth' \in [CVs -> Nat] /\ refs' \in [CVs -> Nat]
      /\ \A cv \in CVs : depth'[cv] = Cardinality(CallsBelow(cv, n)) /\ refs'[cv] = depth'[cv]
  <2>1. CASE c.type \in Subs /\ depth' = [depth EXCEPT ![c.cv] = c.olddepth]
             /\ refs' = [refs EXCEPT ![c.cv] = @ - 1]
    BY <1>1, <1>2, <1>3, <1>4, <2>1
  <2>2. CASE c.type = "FORMAT" /\ depth' = [depth EXCEPT ![c.cv] = @ - 1]
             /\ refs' = [refs EXCEPT ![c.cv] = @ - 1]
    BY <1>1, <1>2, <1>3, <1>4, <2>2
  <2>3. CASE c.type \notin Subs \cup {"FORMAT"} /\ depth' = depth /\ refs' = refs
    BY <1>1, <1>2, <1>3, <1>4, <1>7, <2>3
  <2> QED
    BY <1>1, <2>1, <2>2, <2>3 DEF PopOfType, cx_popsub, cx_popsub_common, cx_popformat, cx_popeval,
       cx_poploop, Subs, Evals
<1>9. \A j \in 1 .. n : cxstack'[j].type \in Subs =>
        cxstack'[j].olddepth = Cardinality(CallsBelow(cxstack[j].cv, j - 1)')
  <2> TAKE j \in 1 .. n
  <2>1. j \in 1 .. nCx
    BY <1>1 DEF n
  <2> QED
    BY <1>6, <2>1 DEF Depths
<1> QED
  BY <1>1, <1>5, <1>8, <1>9 DEF Depths

LEMMA KeepsDepths ==
  ASSUME TypeOK, Depths, KeepsEnv
  PROVE  /\ Depths' /\ depth' \in [CVs -> Nat] /\ refs' \in [CVs -> Nat]
BY DEF TypeOK, Depths, KeepsEnv, interp, CallsBelow, nCx

(* The three kinds of steps keep Data, and the types of what it is about.  *)
InterpTypes ==
  /\ depth \in [CVs -> Nat] /\ refs \in [CVs -> Nat]
  /\ comppad \in Pad /\ in_eval \in EvalFlags
  /\ topic \in Nat /\ defav \in Nat /\ marks \in Nat
  /\ saves \in Seq(Pad)

LEMMA ContextTypes ==
  ASSUME NEW c \in Context
  PROVE  /\ c.prevcomppad \in Pad /\ c.old_in_eval \in EvalFlags /\ c.itersave \in Nat
         /\ c.savearray \in Nat /\ c.oldmarksp \in Nat /\ c.old_cxsubix \in Int
         /\ c.oldsaveix \in Nat
BY DEF Context

LEMMA TopTypes ==
  ASSUME TypeOK
  PROVE  \A j \in 1 .. nCx : cxstack[j] \in Context
BY DEF TypeOK, nCx

LEMMA RecordsData ==
  ASSUME TypeOK, Sizes, Data, NEW c, RecordsEnv(c),
         comppad' \in Pad, in_eval' \in EvalFlags, topic' \in Nat, defav' \in Nat, marks' = marks
  PROVE  Data' /\ InterpTypes'
<1>1. Recorded' /\ Savestack' /\ PadsSaved'
  BY RecordsRecorded, RecordsSaves DEF Data
<1>2. Depths' /\ depth' \in [CVs -> Nat] /\ refs' \in [CVs -> Nat]
  BY RecordsDepths DEF Data
<1>3. saves' = saves
  BY DEF RecordsEnv
<1> QED
  BY <1>1, <1>2, <1>3 DEF Data, InterpTypes, TypeOK

LEMMA RestoresData ==
  ASSUME TypeOK, Sizes, Data, RestoresEnv
  PROVE  Data' /\ InterpTypes'
<1>1. Recorded' /\ Savestack' /\ PadsSaved'
  BY RestoresRecorded, RestoresSaves DEF Data
<1>2. Depths' /\ depth' \in [CVs -> Nat] /\ refs' \in [CVs -> Nat]
  BY RestoresDepths DEF Data
<1>3. saves' = saves /\ PopOfType(cxstack[nCx]) /\ marks' = cxstack[nCx].oldmarksp /\ nCx \in 1 .. nCx
  BY DEF RestoresEnv, cx_popblock, TypeOK, nCx
<1> DEFINE c == cxstack[nCx]
<1>4. /\ c.prevcomppad \in Pad /\ c.old_in_eval \in EvalFlags /\ c.itersave \in Nat
      /\ c.savearray \in Nat /\ c.oldmarksp \in Nat
  BY <1>3, TopTypes, ContextTypes
<1> HIDE DEF c
<1>5. comppad' \in Pad /\ in_eval' \in EvalFlags /\ topic' \in Nat /\ defav' \in Nat
  <2>1. PopOfType(c)
    BY <1>3 DEF c
  <2> QED
    BY <1>4, <2>1 DEF PopOfType, cx_popsub, cx_popsub_common, cx_popformat, cx_popeval, cx_poploop, TypeOK
<1> QED
  BY <1>1, <1>2, <1>3, <1>4, <1>5 DEF Data, InterpTypes, TypeOK, c

LEMMA KeepsData ==
  ASSUME TypeOK, Sizes, Data, KeepsEnv, marks' \in Nat
  PROVE  Data' /\ InterpTypes'
<1>1. Recorded' /\ Savestack' /\ PadsSaved'
  BY KeepsRecorded, KeepsSaves DEF Data
<1>2. Depths' /\ depth' \in [CVs -> Nat] /\ refs' \in [CVs -> Nat]
  BY KeepsDepths DEF Data
<1>3. /\ comppad' \in Pad /\ in_eval' \in EvalFlags /\ topic' \in Nat /\ defav' \in Nat
  BY DEF KeepsEnv, interp, TypeOK
<1>4. saves' \in Seq(Pad)
  <2>1. saves \in Seq(Pad) /\ comppad \in Pad
    BY DEF TypeOK
  <2>2. CASE saves' = saves
    BY <2>1, <2>2
  <2>3. CASE saves' = Append(saves, comppad)
    BY <2>1, <2>3
  <2>4. CASE saves' = Front(saves) /\ nCx > 0 /\ Len(saves) > cxstack[nCx].oldsaveix
    <3>1. Len(saves) \in Nat /\ cxstack[nCx].oldsaveix \in Nat
      BY <2>1, <2>4 DEF Sizes
    <3>2. Len(saves) - 1 \in 0 .. Len(saves) /\ saves' = SubSeq(saves, 1, Len(saves) - 1)
      BY <2>4, <3>1 DEF Front
    <3> QED
      BY <2>1, <3>2, Prefix
  <2> QED
    BY <2>2, <2>3, <2>4 DEF KeepsEnv
<1> QED
  BY <1>1, <1>2, <1>3, <1>4 DEF Data, InterpTypes

-----------------------------------------------------------------------------
(* The topmost sub, eval or format of each stackinfo.                      *)

LEMMA TopmostKept ==
  ASSUME NEW n \in Nat, KeepsContexts(n)
  PROVE  \A x \in Int, b \in Nat, e \in Int : e <= n /\ IsTopmost(x, b, e) => IsTopmost(x, b, e)'
<1> SUFFICES ASSUME NEW CONSTANT x \in Int, NEW CONSTANT b \in Nat, NEW CONSTANT e \in Int,
                    e <= n, IsTopmost(x, b, e)
             PROVE  IsTopmost(x, b, e)'
  OBVIOUS
<1>1. \A j \in b + 1 .. e : Caller(j)' <=> Caller(j)
  BY DEF KeepsContexts, Caller
<1> QED
  BY <1>1 DEF IsTopmost

(* The integers that the proofs below are about.                           *)
LEMMA CallerSizes ==
  ASSUME TypeOK, Sizes, Infos
  PROVE  /\ nCx \in Nat /\ nSI \in Nat \ {0}
         /\ \A i \in 1 .. nSI : /\ si[i].cxsubix \in Int /\ si[i].base \in 0 .. nCx
                                /\ End(i) \in 0 .. nCx /\ (i < nSI => End(i) = si[i + 1].base)
         /\ End(nSI) = nCx
         /\ \A j \in 1 .. nCx : cxstack[j].old_cxsubix \in Int
<1>1. /\ nCx \in Nat /\ nSI \in Nat \ {0}
      /\ \A i \in 1 .. nSI : si[i].base \in 0 .. nCx
  BY DEF Sizes, Infos
<1>2. \A i \in 1 .. nSI : si[i].cxsubix \in Int
  <2>1. \A i \in 1 .. nSI : si[i] \in StackInfo
    BY DEF TypeOK, nSI
  <2> QED
    BY <2>1 DEF StackInfo
<1>3. \A j \in 1 .. nCx : cxstack[j].old_cxsubix \in Int
  BY TopTypes, ContextTypes
<1> QED
  BY <1>1, <1>2, <1>3 DEF End

KeepsSubix(n) == \A i \in 1 .. n : si'[i].cxsubix = si[i].cxsubix

LEMMA LowerCallers ==
  ASSUME TypeOK, Sizes, Infos, Callers, NEW n \in Nat, n <= nSI, KeepsInfos(n), KeepsSubix(n),
         NEW m \in Nat, KeepsContexts(m),
         \A i \in 1 .. n : End(i) <= m /\ End(i)' = End(i)
  PROVE  \A i \in 1 .. n :
           /\ IsTopmost(si[i].cxsubix, si[i].base, End(i))'
           /\ \A j \in si'[i].base + 1 .. End(i)' :
                IsTopmost(cxstack[j].old_cxsubix, si[i].base, j - 1)'
<1> SUFFICES ASSUME NEW i \in 1 .. n
             PROVE  /\ IsTopmost(si[i].cxsubix, si[i].base, End(i))'
                    /\ \A j \in si'[i].base + 1 .. End(i)' :
                         IsTopmost(cxstack[j].old_cxsubix, si[i].base, j - 1)'
  OBVIOUS
<1>1. /\ si[i].cxsubix \in Int /\ si[i].base \in Nat /\ End(i) \in Nat /\ End(i) <= m /\ End(i) <= nCx
      /\ End(i)' = End(i) /\ si'[i].base = si[i].base /\ si'[i].cxsubix = si[i].cxsubix
      /\ i \in 1 .. nSI /\ nCx \in Nat
  BY CallerSizes DEF KeepsInfos, KeepsSubix
<1>2. IsTopmost(si[i].cxsubix, si[i].base, End(i))'
  <2>1. IsTopmost(si[i].cxsubix, si[i].base, End(i))
    BY <1>1 DEF Callers
  <2> QED
    BY <1>1, <2>1, TopmostKept
<1>3. ASSUME NEW j \in si[i].base + 1 .. End(i)
      PROVE  IsTopmost(cxstack[j].old_cxsubix, si[i].base, j - 1)'
  <2>1. IsTopmost(cxstack[j].old_cxsubix, si[i].base, j - 1)
    BY <1>1 DEF Callers
  <2>2. /\ cxstack'[j] = cxstack[j] /\ cxstack[j].old_cxsubix \in Int
        /\ j - 1 <= m /\ j - 1 \in Int
    BY <1>1, CallerSizes DEF KeepsContexts
  <2> QED
    BY <1>1, <2>1, <2>2, TopmostKept
<1> QED
  BY <1>1, <1>2, <1>3

EntersCaller(c) ==
  /\ nCx' = nCx + 1 /\ KeepsContexts(nCx) /\ cxstack'[nCx + 1] = c
  /\ nSI' = nSI /\ KeepsInfos(nSI) /\ KeepsSubix(nSI - 1)
  /\ c.old_cxsubix = si[nSI].cxsubix
  /\ si'[nSI].cxsubix = IF c.type \in {"LOOP", "TRY"} THEN si[nSI].cxsubix ELSE nCx - si[nSI].base

LEMMA EnterCallers ==
  ASSUME TypeOK, Sizes, Infos, Callers, NEW c, EntersCaller(c)
  PROVE  Callers'
<1> DEFINE b == si[nSI].base
           s == si[nSI].cxsubix
<1>1. /\ nCx \in Nat /\ nSI \in Nat \ {0} /\ b \in 0 .. nCx /\ s \in Int /\ End(nSI) = nCx
  BY CallerSizes
<1>2. /\ nCx' = nCx + 1 /\ KeepsContexts(nCx) /\ cxstack'[nCx + 1] = c /\ c.old_cxsubix = s
      /\ nSI' = nSI /\ KeepsInfos(nSI) /\ si'[nSI].base = b
      /\ si'[nSI].cxsubix = IF c.type \in {"LOOP", "TRY"} THEN s ELSE nCx - b
  BY <1>1 DEF EntersCaller, KeepsInfos
<1>3. IsTopmost(s, b, nCx) /\ \A j \in b + 1 .. nCx : IsTopmost(cxstack[j].old_cxsubix, b, j - 1)
  BY <1>1 DEF Callers
<1> HIDE DEF b, s
<1>4. \A i \in 1 .. nSI - 1 : End(i) <= nCx /\ End(i)' = End(i)
  <2>1. \A i \in 1 .. nSI - 1 : i + 1 \in 1 .. nSI
    BY <1>1
  <2> QED
    BY <1>1, <1>2, <2>1, CallerSizes DEF End, KeepsInfos
<1>5. \A i \in 1 .. nSI - 1 :
        /\ IsTopmost(si[i].cxsubix, si[i].base, End(i))'
        /\ \A j \in si'[i].base + 1 .. End(i)' :
             IsTopmost(cxstack[j].old_cxsubix, si[i].base, j - 1)'
  <2>1. nSI - 1 \in Nat /\ nSI - 1 <= nSI /\ KeepsInfos(nSI - 1) /\ KeepsSubix(nSI - 1)
    BY <1>1, <1>2 DEF EntersCaller, KeepsInfos
  <2> QED
    BY <1>1, <1>2, <1>4, <2>1, LowerCallers
<1>6. ASSUME NEW CONSTANT x \in Int, NEW CONSTANT y, NEW CONSTANT e, y = b, e = nCx + 1, x = si'[nSI].cxsubix
      PROVE  IsTopmost(x, y, e)'
  <2>1. \A j \in y + 1 .. nCx : Caller(j)' <=> Caller(j)
    BY <1>1, <1>2, <1>6 DEF KeepsContexts, Caller
  <2>2. \A j : j = nCx + 1 => (Caller(j)' <=> c.type \notin {"LOOP", "TRY"})
    BY <1>2 DEF Caller
  <2> QED
    BY <1>1, <1>2, <1>3, <1>6, <2>1, <2>2 DEF IsTopmost
<1>7. ASSUME NEW j \in b + 1 .. nCx + 1, NEW CONSTANT x \in Int, NEW CONSTANT y, NEW CONSTANT e,
             y = b, e = j - 1, x = cxstack'[j].old_cxsubix
      PROVE  IsTopmost(x, y, e)'
  <2>1. IsTopmost(x, y, e)
    <3>1. CASE j = nCx + 1
      BY <1>1, <1>2, <1>3, <1>7, <3>1
    <3>2. CASE j \in b + 1 .. nCx
      <4>1. cxstack'[j] = cxstack[j]
        BY <1>1, <1>2, <3>2 DEF KeepsContexts
      <4> QED
        BY <1>3, <1>7, <3>2, <4>1
    <3> QED
      BY <1>1, <3>1, <3>2
  <2> QED
    BY <1>1, <1>2, <1>7, <2>1, TopmostKept
<1>8. si'[nSI].cxsubix \in Int /\ \A j \in b + 1 .. nCx + 1 : cxstack'[j].old_cxsubix \in Int
  <2>1. \A j \in 1 .. nCx : cxstack'[j].old_cxsubix \in Int
    BY <1>1, <1>2, CallerSizes DEF KeepsContexts
  <2>2. cxstack'[nCx + 1].old_cxsubix \in Int
    BY <1>1, <1>2
  <2> QED
    BY <1>1, <1>2, <2>1, <2>2
<1>9. \A i : i = nSI =>
        /\ IsTopmost(si[i].cxsubix, si[i].base, End(i))'
        /\ \A j \in si'[i].base + 1 .. End(i)' :
             IsTopmost(cxstack[j].old_cxsubix, si[i].base, j - 1)'
  <2>1. \A i : i = nSI => si'[i].base = b /\ End(i)' = nCx + 1
    BY <1>2 DEF End
  <2> QED
    BY <1>6, <1>7, <1>8, <2>1
<1>10. \A i \in 1 .. nSI' : i \in 1 .. nSI - 1 \/ i = nSI
  BY <1>1, <1>2
<1> QED
  BY <1>5, <1>9, <1>10 DEF Callers

LeavesCaller ==
  /\ nCx > si[nSI].base /\ nCx' = nCx - 1 /\ KeepsContexts(nCx - 1)
  /\ nSI' = nSI /\ KeepsInfos(nSI) /\ KeepsSubix(nSI - 1)
  /\ si'[nSI].cxsubix = IF cxstack[nCx].type = "LOOP" THEN si[nSI].cxsubix ELSE cxstack[nCx].old_cxsubix

LEMMA LeaveCallers ==
  ASSUME TypeOK, Sizes, Infos, Callers, LeavesCaller
  PROVE  Callers'
<1> DEFINE b == si[nSI].base
           s == si[nSI].cxsubix
           c == cxstack[nCx]
           n == nCx - 1
<1>1. /\ nCx \in Nat /\ nSI \in Nat \ {0} /\ b \in 0 .. nCx /\ s \in Int /\ End(nSI) = nCx
      /\ nCx > b
  BY CallerSizes DEF LeavesCaller
<1>2. /\ nCx' = n /\ n \in Nat /\ b <= n /\ KeepsContexts(n) /\ c.old_cxsubix \in Int
      /\ nSI' = nSI /\ KeepsInfos(nSI) /\ si'[nSI].base = b
      /\ si'[nSI].cxsubix = IF c.type = "LOOP" THEN s ELSE c.old_cxsubix
  <2>1. c.old_cxsubix \in Int
    BY <1>1, CallerSizes
  <2> QED
    BY <1>1, <2>1 DEF LeavesCaller, KeepsInfos
<1>3. /\ IsTopmost(s, b, nCx) /\ IsTopmost(c.old_cxsubix, b, n)
      /\ \A j \in b + 1 .. n : IsTopmost(cxstack[j].old_cxsubix, b, j - 1)
  BY <1>1 DEF Callers
<1>4. c.type = "LOOP" => IsTopmost(s, b, n)
  <2>1. c.type = "LOOP" => ~Caller(nCx)
    BY DEF Caller
  <2> QED
    BY <1>1, <1>3, <2>1 DEF IsTopmost
<1> HIDE DEF b, s, c
<1>5. \A i \in 1 .. nSI - 1 : End(i) <= n /\ End(i)' = End(i)
  <2>1. \A i \in 1 .. nSI - 1 : i + 1 \in 1 .. nSI /\ si[i + 1].base <= b
    <3> TAKE i \in 1 .. nSI - 1
    <3>1. i + 1 \in 1 .. nSI
      BY <1>1
    <3>2. CASE i + 1 = nSI
      BY <1>1, <3>2 DEF b
    <3>3. CASE i + 1 < nSI
      BY <1>1, <3>1, <3>3 DEF Infos, b
    <3> QED
      BY <1>1, <3>1, <3>2, <3>3
  <2> QED
    BY <1>1, <1>2, <2>1, CallerSizes DEF End, KeepsInfos
<1> HIDE DEF n
<1>6. \A i \in 1 .. nSI - 1 :
        /\ IsTopmost(si[i].cxsubix, si[i].base, End(i))'
        /\ \A j \in si'[i].base + 1 .. End(i)' :
             IsTopmost(cxstack[j].old_cxsubix, si[i].base, j - 1)'
  <2>1. nSI - 1 \in Nat /\ nSI - 1 <= nSI /\ KeepsInfos(nSI - 1) /\ KeepsSubix(nSI - 1)
    BY <1>1, <1>2 DEF LeavesCaller, KeepsInfos
  <2> QED
    BY <1>1, <1>2, <1>5, <2>1, LowerCallers
<1>7. ASSUME NEW CONSTANT x \in Int, NEW CONSTANT y, NEW CONSTANT e, y = b, e = n, x = si'[nSI].cxsubix
      PROVE  IsTopmost(x, y, e)'
  <2>1. IsTopmost(x, y, e)
    BY <1>2, <1>3, <1>4, <1>7
  <2>2. y \in Nat /\ e \in Int /\ e <= n
    BY <1>1, <1>2, <1>7
  <2> QED
    BY <1>1, <1>2, <2>1, <2>2, TopmostKept
<1>8. ASSUME NEW j \in b + 1 .. n, NEW CONSTANT x \in Int, NEW CONSTANT y, NEW CONSTANT e,
             y = b, e = j - 1, x = cxstack'[j].old_cxsubix
      PROVE  IsTopmost(x, y, e)'
  <2>1. cxstack'[j] = cxstack[j]
    BY <1>1, <1>2 DEF KeepsContexts
  <2>2. IsTopmost(x, y, e)
    BY <1>3, <1>8, <2>1
  <2> QED
    BY <1>1, <1>2, <1>8, <2>2, TopmostKept
<1>9. si'[nSI].cxsubix \in Int /\ \A j \in b + 1 .. n : cxstack'[j].old_cxsubix \in Int
  <2>1. \A j \in 1 .. n : cxstack'[j] = cxstack[j] /\ j \in 1 .. nCx
    BY <1>1, <1>2 DEF KeepsContexts, n
  <2> QED
    BY <1>1, <1>2, <2>1, CallerSizes
<1>10. \A i : i = nSI =>
        /\ IsTopmost(si[i].cxsubix, si[i].base, End(i))'
        /\ \A j \in si'[i].base + 1 .. End(i)' :
             IsTopmost(cxstack[j].old_cxsubix, si[i].base, j - 1)'
  <2>1. \A i : i = nSI => si'[i].base = b /\ End(i)' = n
    BY <1>2 DEF End
  <2> QED
    BY <1>7, <1>8, <1>9, <2>1
<1>11. \A i \in 1 .. nSI' : i \in 1 .. nSI - 1 \/ i = nSI
  BY <1>1, <1>2
<1> QED
  BY <1>6, <1>10, <1>11 DEF Callers

PushesCaller(c) ==
  /\ nCx' = nCx + 1 /\ KeepsContexts(nCx) /\ cxstack'[nCx + 1] = c
  /\ c.old_cxsubix = -1 /\ c.type \notin {"LOOP", "TRY"}
  /\ nSI' = nSI + 1 /\ KeepsInfos(nSI) /\ KeepsSubix(nSI)
  /\ si'[nSI + 1].base = nCx /\ si'[nSI + 1].cxsubix = 0

LEMMA PushCallers ==
  ASSUME TypeOK, Sizes, Infos, Callers, NEW c, PushesCaller(c)
  PROVE  Callers'
<1>1. nCx \in Nat /\ nSI \in Nat \ {0} /\ End(nSI) = nCx
  BY CallerSizes
<1>2. /\ nCx' = nCx + 1 /\ KeepsContexts(nCx) /\ cxstack'[nCx + 1] = c
      /\ c.old_cxsubix = -1 /\ c.type \notin {"LOOP", "TRY"}
      /\ nSI' = nSI + 1 /\ KeepsInfos(nSI) /\ KeepsSubix(nSI)
      /\ si'[nSI + 1].base = nCx /\ si'[nSI + 1].cxsubix = 0
  BY DEF PushesCaller
<1>3. \A i \in 1 .. nSI : End(i) <= nCx /\ End(i)' = End(i)
  <2>1. \A i \in 1 .. nSI - 1 : i + 1 \in 1 .. nSI
    BY <1>1
  <2>2. \A i \in 1 .. nSI : End(i) <= nCx
    BY CallerSizes
  <2>3. \A i \in 1 .. nSI - 1 : End(i)' = End(i)
    BY <1>1, <1>2, <2>1 DEF End, KeepsInfos
  <2>4. \A i : i = nSI => End(i)' = nCx
    BY <1>1, <1>2 DEF End
  <2> QED
    BY <1>1, <2>2, <2>3, <2>4
<1>4. \A i \in 1 .. nSI :
        /\ IsTopmost(si[i].cxsubix, si[i].base, End(i))'
        /\ \A j \in si'[i].base + 1 .. End(i)' :
             IsTopmost(cxstack[j].old_cxsubix, si[i].base, j - 1)'
  <2>1. nSI \in Nat /\ nSI <= nSI
    BY <1>1
  <2> QED
    BY <1>1, <1>2, <1>3, <2>1, LowerCallers
<1>5. \A j : j = nCx + 1 => Caller(j)'
  BY <1>2 DEF Caller
<1>6. ASSUME NEW CONSTANT x, NEW CONSTANT y, NEW CONSTANT e, y = nCx, e = nCx + 1, x = 0
      PROVE  IsTopmost(x, y, e)'
  BY <1>1, <1>5, <1>6 DEF IsTopmost
<1>7. ASSUME NEW CONSTANT x, NEW CONSTANT y, NEW CONSTANT e, y = nCx, e = nCx, x = -1
      PROVE  IsTopmost(x, y, e)'
  BY <1>1, <1>7 DEF IsTopmost
<1>8. \A i : i = nSI + 1 =>
        /\ IsTopmost(si[i].cxsubix, si[i].base, End(i))'
        /\ \A j \in si'[i].base + 1 .. End(i)' :
             IsTopmost(cxstack[j].old_cxsubix, si[i].base, j - 1)'
  <2>1. \A i : i = nSI + 1 => si'[i].base = nCx /\ End(i)' = nCx + 1 /\ si'[i].cxsubix = 0
    BY <1>2 DEF End
  <2>2. \A j \in nCx + 1 .. nCx + 1 : j - 1 = nCx /\ cxstack'[j].old_cxsubix = -1
    BY <1>1, <1>2
  <2> QED
    BY <1>6, <1>7, <2>1, <2>2
<1>9. \A i \in 1 .. nSI' : i \in 1 .. nSI \/ i = nSI + 1
  BY <1>1, <1>2
<1> QED
  BY <1>4, <1>8, <1>9 DEF Callers

DropsCallers ==
  /\ nSI > 1 /\ nSI' = nSI - 1 /\ KeepsInfos(nSI - 1) /\ KeepsSubix(nSI - 1)
  /\ nCx' = si[nSI].base /\ KeepsContexts(nCx')

LEMMA DropCallers ==
  ASSUME TypeOK, Sizes, Infos, Callers, DropsCallers
  PROVE  Callers'
<1> DEFINE b == si[nSI].base
           n == nSI - 1
<1>1. nCx \in Nat /\ nSI \in Nat \ {0, 1} /\ b \in 0 .. nCx
  BY CallerSizes DEF DropsCallers
<1>2. /\ nCx' = b /\ KeepsContexts(b) /\ n \in Nat /\ n <= nSI
      /\ nSI' = n /\ KeepsInfos(n) /\ KeepsSubix(n)
  BY <1>1 DEF DropsCallers
<1>3. \A i \in 1 .. n : i + 1 \in 1 .. nSI /\ si[i + 1].base <= b
  <2> TAKE i \in 1 .. n
  <2>1. i + 1 \in 1 .. nSI
    BY <1>1
  <2>2. CASE i + 1 = nSI
    BY <1>1, <2>2
  <2>3. CASE i + 1 < nSI
    BY <1>1, <2>1, <2>3 DEF Infos
  <2> QED
    BY <1>1, <2>1, <2>2, <2>3
<1>4. \A i \in 1 .. n : End(i) <= b /\ End(i)' = End(i)
  <2> TAKE i \in 1 .. n
  <2>1. End(i) = si[i + 1].base
    BY <1>1 DEF End
  <2>2. CASE i = n
    BY <1>1, <1>2, <2>1, <2>2 DEF End
  <2>3. CASE i + 1 \in 1 .. n
    BY <1>1, <1>2, <1>3, <2>1, <2>3 DEF End, KeepsInfos
  <2> QED
    BY <1>1, <2>2, <2>3
<1> HIDE DEF b, n
<1>5. \A i \in 1 .. n :
        /\ IsTopmost(si[i].cxsubix, si[i].base, End(i))'
        /\ \A j \in si'[i].base + 1 .. End(i)' :
             IsTopmost(cxstack[j].old_cxsubix, si[i].base, j - 1)'
  <2>1. b \in Nat
    BY <1>1
  <2> QED
    BY <1>1, <1>2, <1>4, <2>1, LowerCallers
<1> QED
  BY <1>2, <1>5 DEF Callers

LEMMA SameCallers ==
  ASSUME Callers, cxstack' = cxstack, si' = si
  PROVE  Callers'
BY DEF Callers, IsTopmost, Caller, End, nCx, nSI

-----------------------------------------------------------------------------
(* Every action keeps the invariant.                                       *)

LEMMA TypesKept ==
  ASSUME cxstack' \in Seq(Context), si' \in Seq(StackInfo), cstack' \in Seq(CFunction), InterpTypes'
  PROVE  TypeOK'
BY DEF TypeOK, InterpTypes

LEMMA BlockRecords ==
  ASSUME TypeOK, Structure, NEW type
  PROVE  /\ cx_pushblock(type).prevcomppad = comppad /\ cx_pushblock(type).old_in_eval = in_eval
         /\ cx_pushblock(type).itersave = topic /\ cx_pushblock(type).savearray = defav
         /\ cx_pushblock(type).oldmarksp = marks /\ cx_pushblock(type).oldsaveix = Len(saves)
         /\ cx_pushblock(type).old_cxsubix = si[nSI].cxsubix
BY TopsOfStacks DEF cx_pushblock

(* What entering a sub or a format does to the pad.                        *)
LEMMA CvEntered ==
  ASSUME TypeOK, NEW cv \in CVs, EnterCv(cv)
  PROVE  comppad' \in Pad
<1>1. depth[cv] + 1 \in Nat
  BY DEF TypeOK
<1> QED
  BY <1>1 DEF EnterCv, Pad

LEMMA SubStep ==
  ASSUME IInv, NEW cv \in CVs, NEW hasargs \in BOOLEAN, cx_pushsub(cv, hasargs)
  PROVE  IInv' /\ EnvStep
<1> DEFINE p == cx_pushblock("SUB")
           n == depth[cv]
           c == [p EXCEPT !.cv = cv, !.olddepth = n, !.hasargs = hasargs]
<1>1. TypeOK /\ Structure /\ Data /\ Callers /\ Sizes /\ Infos
  BY DEF IInv, Structure
<1>2. /\ cxstack' = Append(cxstack, c) /\ si' = SetSubix(si, cxstack_ix + 1) /\ cstack' = cstack
      /\ RunsOps /\ EnterCv(cv) /\ defav' = (IF hasargs THEN Len(cxstack) + 1 ELSE defav)
      /\ in_eval' = in_eval /\ topic' = topic /\ saves' = saves /\ marks' = marks
  BY DEF cx_pushsub
<1>3. p \in Context /\ p.type = "SUB" /\ n \in Nat
  BY <1>1, BlockIs DEF Subs, TypeOK
<1>4. /\ p.prevcomppad = comppad /\ p.old_in_eval = in_eval /\ p.itersave = topic
      /\ p.savearray = defav /\ p.oldmarksp = marks /\ p.oldsaveix = Len(saves)
      /\ p.old_cxsubix = si[nSI].cxsubix
  BY <1>1, BlockRecords
<1> HIDE DEF p
<1>5. /\ c \in Context /\ c.type = "SUB" /\ c.cv = cv /\ c.olddepth = n /\ c.hasargs = hasargs
      /\ c.prevcomppad = comppad /\ c.old_in_eval = in_eval /\ c.itersave = topic
      /\ c.savearray = defav /\ c.oldmarksp = marks /\ c.oldsaveix = Len(saves)
      /\ c.old_cxsubix = si[nSI].cxsubix
  <2> HIDE DEF n
  <2> QED
    BY <1>3, <1>4 DEF Context
<1> HIDE DEF c
<1>6. /\ cxstack_ix + 1 = nCx - si[nSI].base /\ cxstack_ix + 1 \in Int /\ nSI > 0 /\ nCx \in Nat
  BY <1>1, TopsOfStacks
<1>7. nCx' = nCx + 1 /\ KeepsContexts(nCx) /\ cxstack'[nCx + 1] = c
  BY <1>1, <1>2, ContextPushed
<1>8. /\ nSI' = nSI /\ KeepsInfos(nSI) /\ si' \in Seq(StackInfo)
      /\ si'[nSI].cxsubix = nCx - si[nSI].base /\ KeepsSubix(nSI - 1)
  BY <1>1, <1>2, <1>6, SubixSet DEF KeepsSubix
<1>9. RecordsEnv(c)
  BY <1>2, <1>5, <1>7 DEF RecordsEnv, Subs, Evals, n
<1>10. Data' /\ InterpTypes'
  <2>1. /\ comppad' \in Pad /\ in_eval' \in EvalFlags /\ topic' \in Nat /\ defav' \in Nat
        /\ marks' = marks
    BY <1>1, <1>2, CvEntered DEF TypeOK
  <2> QED
    BY <1>1, <1>9, <2>1, RecordsData
<1>11. Callers'
  <2>1. EntersCaller(c)
    BY <1>5, <1>7, <1>8 DEF EntersCaller
  <2> QED
    BY <1>1, <2>1, EnterCallers
<1>12. TypeOK'
  <2>1. cxstack' \in Seq(Context) /\ cstack' \in Seq(CFunction)
    BY <1>1, <1>2, <1>5 DEF TypeOK
  <2> QED
    BY <1>8, <1>10, <2>1, TypesKept
<1>s. EnvStep
  BY <1>9 DEF EnvStep
<1> QED
  BY <1>s, <1>1, <1>10, <1>11, <1>12, SubEnters DEF IInv

LEMMA FormatStep ==
  ASSUME IInv, NEW cv \in CVs, cx_pushformat(cv)
  PROVE  IInv' /\ EnvStep
<1> DEFINE p == cx_pushblock("FORMAT")
           c == [p EXCEPT !.cv = cv]
<1>1. TypeOK /\ Structure /\ Data /\ Callers /\ Sizes /\ Infos
  BY DEF IInv, Structure
<1>2. /\ cxstack' = Append(cxstack, c) /\ si' = SetSubix(si, cxstack_ix + 1) /\ cstack' = cstack
      /\ RunsOps /\ EnterCv(cv) /\ defav' = defav
      /\ in_eval' = in_eval /\ topic' = topic /\ saves' = saves /\ marks' = marks
  BY DEF cx_pushformat
<1>3. p \in Context /\ p.type = "FORMAT" /\ p.hasargs = FALSE
  BY <1>1, BlockIs
<1>4. /\ p.prevcomppad = comppad /\ p.old_in_eval = in_eval /\ p.itersave = topic
      /\ p.savearray = defav /\ p.oldmarksp = marks /\ p.oldsaveix = Len(saves)
      /\ p.old_cxsubix = si[nSI].cxsubix
  BY <1>1, BlockRecords
<1> HIDE DEF p
<1>5. /\ c \in Context /\ c.type = "FORMAT" /\ c.cv = cv /\ c.hasargs = FALSE
      /\ c.prevcomppad = comppad /\ c.old_in_eval = in_eval /\ c.itersave = topic
      /\ c.savearray = defav /\ c.oldmarksp = marks /\ c.oldsaveix = Len(saves)
      /\ c.old_cxsubix = si[nSI].cxsubix
  BY <1>3, <1>4 DEF Context
<1> HIDE DEF c
<1>6. /\ cxstack_ix + 1 = nCx - si[nSI].base /\ cxstack_ix + 1 \in Int /\ nSI > 0 /\ nCx \in Nat
  BY <1>1, TopsOfStacks
<1>7. nCx' = nCx + 1 /\ KeepsContexts(nCx) /\ cxstack'[nCx + 1] = c
  BY <1>1, <1>2, ContextPushed
<1>8. /\ nSI' = nSI /\ KeepsInfos(nSI) /\ si' \in Seq(StackInfo)
      /\ si'[nSI].cxsubix = nCx - si[nSI].base /\ KeepsSubix(nSI - 1)
  BY <1>1, <1>2, <1>6, SubixSet DEF KeepsSubix
<1>9. RecordsEnv(c)
  BY <1>2, <1>5, <1>7 DEF RecordsEnv, Subs, Evals
<1>10. Data' /\ InterpTypes'
  <2>1. /\ comppad' \in Pad /\ in_eval' \in EvalFlags /\ topic' \in Nat /\ defav' \in Nat
        /\ marks' = marks
    BY <1>1, <1>2, CvEntered DEF TypeOK
  <2> QED
    BY <1>1, <1>9, <2>1, RecordsData
<1>11. Callers'
  <2>1. EntersCaller(c)
    BY <1>5, <1>7, <1>8 DEF EntersCaller
  <2> QED
    BY <1>1, <2>1, EnterCallers
<1>12. TypeOK'
  <2>1. cxstack' \in Seq(Context) /\ cstack' \in Seq(CFunction)
    BY <1>1, <1>2, <1>5 DEF TypeOK
  <2> QED
    BY <1>8, <1>10, <2>1, TypesKept
<1>s. EnvStep
  BY <1>9 DEF EnvStep
<1> QED
  BY <1>s, <1>1, <1>10, <1>11, <1>12, FormatEnters DEF IInv

LEMMA LoopStep ==
  ASSUME IInv, cx_pushloop_for
  PROVE  IInv' /\ EnvStep
<1> DEFINE c == cx_pushblock("LOOP")
<1>1. TypeOK /\ Structure /\ Data /\ Callers /\ Sizes /\ Infos
  BY DEF IInv, Structure
<1>2. /\ cxstack' = Append(cxstack, c) /\ si' = si /\ cstack' = cstack
      /\ topic' = Len(cxstack) + 1 /\ defav' = defav /\ comppad' = comppad /\ depth' = depth
      /\ refs' = refs /\ in_eval' = in_eval /\ saves' = saves /\ marks' = marks
  BY DEF cx_pushloop_for
<1>5. /\ c \in Context /\ c.type = "LOOP" /\ c.cv = Main /\ c.hasargs = FALSE
      /\ c.prevcomppad = comppad /\ c.old_in_eval = in_eval /\ c.itersave = topic
      /\ c.savearray = defav /\ c.oldmarksp = marks /\ c.oldsaveix = Len(saves)
      /\ c.old_cxsubix = si[nSI].cxsubix
  BY <1>1, BlockIs, BlockRecords
<1> HIDE DEF c
<1>7. nCx' = nCx + 1 /\ KeepsContexts(nCx) /\ cxstack'[nCx + 1] = c /\ nCx \in Nat
  BY <1>1, <1>2, ContextPushed, TopsOfStacks
<1>8. nSI' = nSI /\ KeepsInfos(nSI) /\ KeepsSubix(nSI - 1)
  BY <1>2, SameInfos DEF KeepsSubix
<1>9. RecordsEnv(c)
  BY <1>2, <1>5, <1>7 DEF RecordsEnv, Subs, Evals
<1>10. Data' /\ InterpTypes'
  <2>1. /\ comppad' \in Pad /\ in_eval' \in EvalFlags /\ topic' \in Nat /\ defav' \in Nat
        /\ marks' = marks
    BY <1>1, <1>2 DEF TypeOK
  <2> QED
    BY <1>1, <1>9, <2>1, RecordsData
<1>11. Callers'
  <2>1. EntersCaller(c)
    BY <1>2, <1>5, <1>7, <1>8 DEF EntersCaller
  <2> QED
    BY <1>1, <2>1, EnterCallers
<1>12. TypeOK'
  <2>1. cxstack' \in Seq(Context) /\ cstack' \in Seq(CFunction) /\ si' \in Seq(StackInfo)
    BY <1>1, <1>2, <1>5 DEF TypeOK
  <2> QED
    BY <1>10, <2>1, TypesKept
<1>s. EnvStep
  BY <1>9 DEF EnvStep
<1> QED
  BY <1>s, <1>1, <1>10, <1>11, <1>12, LoopEnters DEF IInv

LEMMA EvalStep ==
  ASSUME IInv, NEW type \in Evals, cx_pusheval(type)
  PROVE  IInv' /\ EnvStep
<1> DEFINE frames == IF CATCH_GET THEN Append(cstack, Frame("run")) ELSE cstack
           env    == IF CATCH_GET THEN Len(cstack) + 1 ELSE TopEnv
           p      == cx_pushblock(type)
           c      == [p EXCEPT !.cur_top_env = env, !.loop = Len(frames)]
<1>1. TypeOK /\ Structure /\ Data /\ Callers /\ Sizes /\ Infos
  BY DEF IInv, Structure
<1>2. /\ cxstack' = Append(cxstack, c) /\ cstack' = frames
      /\ si' = (IF type = "EVAL" THEN SetSubix(si, cxstack_ix + 1) ELSE si)
      /\ in_eval' = EVAL_INEVAL /\ defav' = defav /\ comppad' = comppad /\ depth' = depth
      /\ refs' = refs /\ topic' = topic /\ saves' = saves /\ marks' = marks
  BY DEF cx_pusheval
<1>3. p \in Context /\ p.type = type /\ p.hasargs = FALSE /\ p.cv = Main
  BY <1>1, BlockIs
<1>4. /\ p.prevcomppad = comppad /\ p.old_in_eval = in_eval /\ p.itersave = topic
      /\ p.savearray = defav /\ p.oldmarksp = marks /\ p.oldsaveix = Len(saves)
      /\ p.old_cxsubix = si[nSI].cxsubix
  BY <1>1, BlockRecords
<1>a. frames \in Seq(CFunction) /\ Len(frames) \in Nat /\ env \in Nat
  <2>1. cstack \in Seq(CFunction) /\ DOMAIN cstack = 1 .. nC
    BY <1>1, TopsOfStacks DEF TypeOK
  <2>2. TopEnv \in Nat /\ Len(cstack) \in Nat
    BY <1>1, <2>1, TopEnvIs DEF Structure, Sizes, nC
  <2>3. Append(cstack, Frame("run")) \in Seq(CFunction)
    BY <2>1, FrameIs
  <2>4. frames \in Seq(CFunction)
    BY <2>1, <2>3
  <2> HIDE DEF frames
  <2> QED
    BY <2>2, <2>4
<1> HIDE DEF p, frames, env
<1>5. /\ c \in Context /\ c.type = type /\ c.cv = Main /\ c.hasargs = FALSE
      /\ c.prevcomppad = comppad /\ c.old_in_eval = in_eval /\ c.itersave = topic
      /\ c.savearray = defav /\ c.oldmarksp = marks /\ c.oldsaveix = Len(saves)
      /\ c.old_cxsubix = si[nSI].cxsubix
  BY <1>3, <1>4, <1>a DEF Context
<1> HIDE DEF c
<1>6. /\ cxstack_ix + 1 = nCx - si[nSI].base /\ cxstack_ix + 1 \in Int /\ nSI > 0 /\ nCx \in Nat
  BY <1>1, TopsOfStacks
<1>7. nCx' = nCx + 1 /\ KeepsContexts(nCx) /\ cxstack'[nCx + 1] = c
  BY <1>1, <1>2, ContextPushed
<1>8. /\ nSI' = nSI /\ KeepsInfos(nSI) /\ si' \in Seq(StackInfo) /\ KeepsSubix(nSI - 1)
      /\ si'[nSI].cxsubix = IF type = "TRY" THEN si[nSI].cxsubix ELSE nCx - si[nSI].base
  <2>1. CASE type = "EVAL"
    <3>1. si' = SetSubix(si, cxstack_ix + 1)
      BY <1>2, <2>1
    <3> QED
      BY <1>1, <1>6, <2>1, <3>1, SubixSet DEF KeepsSubix
  <2>2. CASE type = "TRY"
    BY <1>1, <1>2, <2>2, SameInfos DEF KeepsSubix, TypeOK
  <2> QED
    BY <2>1, <2>2 DEF Evals
<1>9. RecordsEnv(c)
  BY <1>2, <1>5, <1>7 DEF RecordsEnv, Subs, Evals
<1>10. Data' /\ InterpTypes'
  <2>1. /\ comppad' \in Pad /\ in_eval' \in EvalFlags /\ topic' \in Nat /\ defav' \in Nat
        /\ marks' = marks
    BY <1>1, <1>2 DEF TypeOK, EvalFlags
  <2> QED
    BY <1>1, <1>9, <2>1, RecordsData
<1>11. Callers'
  <2>1. EntersCaller(c)
    BY <1>5, <1>7, <1>8 DEF EntersCaller, Evals
  <2> QED
    BY <1>1, <2>1, EnterCallers
<1>12. TypeOK'
  <2>1. cxstack' \in Seq(Context) /\ cstack' \in Seq(CFunction)
    BY <1>1, <1>2, <1>5, <1>a DEF TypeOK
  <2> QED
    BY <1>8, <1>10, <2>1, TypesKept
<1>s. EnvStep
  BY <1>9 DEF EnvStep
<1> QED
  BY <1>s, <1>1, <1>10, <1>11, <1>12, EvalEnters DEF IInv

(* The steps that only call another C function, and those on the savestack *)
(* and the marks.                                                          *)
LEMMA KeepsStep ==
  ASSUME IInv, Structure', KeepsEnv, marks' \in Nat, si' = si, cstack' \in Seq(CFunction)
  PROVE  IInv' /\ EnvStep
<1>1. TypeOK /\ Data /\ Callers /\ Sizes
  BY DEF IInv, Structure
<1>2. cxstack' = cxstack
  BY DEF KeepsEnv
<1>3. Data' /\ InterpTypes'
  BY <1>1, KeepsData
<1>4. TypeOK'
  BY <1>1, <1>2, <1>3, TypesKept DEF TypeOK
<1> QED
  BY <1>1, <1>2, <1>3, <1>4, SameCallers DEF IInv, EnvStep

LEMMA LeaveOpStep ==
  ASSUME IInv, LeaveOp
  PROVE  IInv' /\ EnvStep
<1>1. TypeOK /\ Structure
  BY DEF IInv
<1>2. /\ nCx \in Nat /\ nSI \in Nat \ {0} /\ Top = cxstack[nCx] /\ si[nSI].base \in 0 .. nCx
      /\ cxstack_ix = nCx - si[nSI].base - 1
  BY <1>1, TopsOfStacks
<1>3. nCx > 0
  BY <1>1, <1>2 DEF LeaveOp, Outermost, nSI
<1>4. Top.oldsaveix \in Nat
  BY <1>1, <1>2, <1>3 DEF Structure, Sizes
<1>5. cstack' \in Seq(CFunction)
  <2>1. cstack \in Seq(CFunction) /\ [Frame("leave") EXCEPT !.to = Top.oldsaveix] \in CFunction
    BY <1>1, <1>4, LeaveFrameIs DEF TypeOK
  <2>2. cstack' = Append(cstack, [Frame("leave") EXCEPT !.to = Top.oldsaveix])
    BY DEF LeaveOp
  <2> QED
    BY <2>1, <2>2
<1>6. KeepsEnv /\ si' = si /\ marks' \in Nat
  BY <1>1 DEF LeaveOp, KeepsEnv, TypeOK
<1> QED
  BY <1>1, <1>5, <1>6, LeaveOpKeeps, KeepsStep

LEMMA DieStep ==
  ASSUME IInv, die
  PROVE  IInv' /\ EnvStep
<1>1. TypeOK /\ Structure
  BY DEF IInv
<1>2. cstack' \in Seq(CFunction)
  <2>1. cstack \in Seq(CFunction) /\ Frame("die") \in CFunction
    BY <1>1, FrameIs DEF TypeOK
  <2> QED
    BY <2>1 DEF die
<1>3. KeepsEnv /\ si' = si /\ marks' \in Nat
  BY <1>1 DEF die, KeepsEnv, TypeOK
<1> QED
  BY <1>1, <1>2, <1>3, DieKeeps, KeepsStep

LEMMA ClearSVStep ==
  ASSUME IInv, ClearSV
  PROVE  IInv' /\ EnvStep
<1>1. TypeOK /\ Structure
  BY DEF IInv
<1>2. /\ nCx \in Nat /\ nSI \in Nat \ {0} /\ nC \in Nat \ {0} /\ Code = cstack[nC]
      /\ si[nSI].base \in 0 .. nCx
  BY <1>1, TopsOfStacks
<1>3. Leaving(nC, nSI, nCx)
  BY <1>1, <1>2 DEF ClearSV, Structure, Leavings, Kind
<1>4. nCx > 0 /\ Len(saves) > cxstack[nCx].oldsaveix
  BY <1>2, <1>3 DEF ClearSV, Leaving
<1>5. KeepsEnv /\ si' = si /\ marks' \in Nat /\ cstack' \in Seq(CFunction)
  BY <1>1, <1>4 DEF ClearSV, KeepsEnv, TypeOK, stacks
<1>6. Structure'
  BY <1>1, SameStructure DEF ClearSV
<1> QED
  BY <1>5, <1>6, KeepsStep

LEMMA SavestackStep ==
  ASSUME IInv, SAVECLEARSV \/ PUSHMARK \/ POPMARK
  PROVE  IInv' /\ EnvStep
<1>1. TypeOK /\ Structure
  BY DEF IInv
<1>2. UNCHANGED stacks /\ UNCHANGED interp
  BY DEF SAVECLEARSV, PUSHMARK, POPMARK
<1>3. marks' \in Nat
  <2>1. cxstack # <<>> => Top.oldmarksp \in Nat
    <3>1. cxstack # <<>> => Len(cxstack) \in 1 .. Len(cxstack) /\ Top = cxstack[Len(cxstack)]
      BY <1>1 DEF Top, Last, TypeOK
    <3>2. \A j \in 1 .. Len(cxstack) : cxstack[j] \in Context
      BY <1>1 DEF TypeOK
    <3> QED
      BY <3>1, <3>2, ContextTypes
  <2> QED
    BY <1>1, <2>1 DEF SAVECLEARSV, PUSHMARK, POPMARK, TypeOK
<1>4. saves' = saves \/ saves' = Append(saves, comppad)
  BY DEF SAVECLEARSV, PUSHMARK, POPMARK
<1>5. KeepsEnv /\ si' = si /\ cstack' \in Seq(CFunction)
  BY <1>1, <1>2, <1>4 DEF KeepsEnv, TypeOK, stacks
<1>6. Structure'
  BY <1>1, <1>2, SameStructure
<1> QED
  BY <1>3, <1>5, <1>6, KeepsStep

LEMMA MulticallStep ==
  ASSUME IInv, MULTICALL \/ EndOfCallback
  PROVE  IInv' /\ EnvStep
<1>1. TypeOK /\ Structure
  BY DEF IInv
<1>2. Structure' /\ cstack' \in Seq(CFunction)
  BY <1>1, MulticallKeeps, EndOfCallbackKeeps
<1>3. KeepsEnv /\ si' = si /\ marks' \in Nat
  BY <1>1 DEF MULTICALL, EndOfCallback, KeepsEnv, TypeOK
<1> QED
  BY <1>2, <1>3, KeepsStep

LEMMA UnwindStep ==
  ASSUME IInv, Unwind
  PROVE  IInv' /\ EnvStep
<1>1. TypeOK /\ Structure /\ Data /\ Callers /\ Sizes /\ Infos
  BY DEF IInv, Structure
<1>2. /\ nCx \in Nat /\ nSI \in Nat \ {0} /\ nC \in Nat \ {0}
      /\ Top = cxstack[nCx] /\ si[nSI].base \in 0 .. nCx
      /\ cxstack_ix = nCx - si[nSI].base - 1 /\ Code = cstack[nC]
  BY <1>1, TopsOfStacks
<1>3. KeepsEnv /\ cxstack' = cxstack /\ marks' \in Nat
  BY <1>1 DEF Unwind, KeepsEnv, TypeOK
<1>4. CASE cxstack_ix < 0
  <2>1. si' = Front(si) /\ cstack' = cstack
    BY <1>4 DEF Unwind
  <2>2. nSI > 1 /\ nCx = si[nSI].base
    <3>1. nCx = si[nSI].base
      BY <1>2, <1>4
    <3>2. \E j \in 1 .. nCx : TRUE
      BY <1>1, <1>2 DEF Unwind, Structure, Dies, Kind
    <3> QED
      BY <1>1, <1>2, <3>1, <3>2 DEF Infos
  <2>3. nSI' = nSI - 1 /\ KeepsInfos(nSI - 1) /\ si' \in Seq(StackInfo) /\ KeepsSubix(nSI - 1)
    BY <1>1, <2>1, <2>2, InfoPopped DEF KeepsSubix
  <2>4. DropsCallers
    BY <1>3, <2>2, <2>3, SameContexts DEF DropsCallers
  <2>5. Callers'
    BY <1>1, <2>4, DropCallers
  <2>6. Data' /\ InterpTypes'
    BY <1>1, <1>3, KeepsData
  <2>7. TypeOK'
    BY <1>1, <1>3, <2>1, <2>3, <2>6, TypesKept DEF TypeOK
  <2> QED
    BY <1>1, <1>3, <2>5, <2>6, <2>7, UnwindKeeps DEF IInv, EnvStep
<1>5. CASE cxstack_ix >= 0
  <2>1. cstack' = Append(cstack, [Frame("leave") EXCEPT !.to = Top.oldsaveix]) /\ si' = si
    BY <1>2, <1>5 DEF Unwind
  <2>2. Top.oldsaveix \in Nat
    BY <1>1, <1>2, <1>5 DEF Sizes
  <2>3. cstack \in Seq(CFunction) /\ [Frame("leave") EXCEPT !.to = Top.oldsaveix] \in CFunction
    BY <1>1, <2>2, LeaveFrameIs DEF TypeOK
  <2>4. cstack' \in Seq(CFunction)
    BY <2>1, <2>3
  <2> QED
    BY <1>1, <1>3, <2>1, <2>4, UnwindKeeps, KeepsStep
<1> QED
  BY <1>2, <1>4, <1>5

LEMMA CallDestructorStep ==
  ASSUME IInv, CallDestructor
  PROVE  IInv' /\ EnvStep
<1> DEFINE frames == Append(cstack, Frame("run"))
           p == cx_pushblock("EVAL")
           n == Len(frames)
           c == [p EXCEPT !.cur_top_env = n, !.loop = n, !.old_cxsubix = -1]
<1>1. TypeOK /\ Structure /\ Data /\ Callers /\ Sizes /\ Infos
  BY DEF IInv, Structure
<1>2. /\ cxstack' = Append(cxstack, c) /\ cstack' = frames
      /\ si' = SetSubix(push_stackinfo, 0) /\ in_eval' = EVAL_INEVAL + EVAL_KEEPERR
      /\ depth' = depth /\ refs' = refs /\ comppad' = comppad /\ topic' = topic /\ defav' = defav
      /\ saves' = saves /\ marks' = marks
  BY DEF CallDestructor
<1>3. p \in Context /\ p.type = "EVAL" /\ p.hasargs = FALSE /\ p.cv = Main
  BY <1>1, BlockIs DEF Evals
<1>4. /\ p.prevcomppad = comppad /\ p.old_in_eval = in_eval /\ p.itersave = topic
      /\ p.savearray = defav /\ p.oldmarksp = marks /\ p.oldsaveix = Len(saves)
  BY <1>1, BlockRecords
<1>5. frames \in Seq(CFunction) /\ n \in Nat /\ -1 \in Int
  <2>1. cstack \in Seq(CFunction) /\ Frame("run") \in CFunction
    BY <1>1, FrameIs DEF TypeOK
  <2>2. frames \in Seq(CFunction)
    BY <2>1
  <2> HIDE DEF frames
  <2> QED
    BY <2>2
<1> HIDE DEF p, frames, n
<1>6. /\ c \in Context /\ c.type = "EVAL" /\ c.cv = Main /\ c.hasargs = FALSE
      /\ c.prevcomppad = comppad /\ c.old_in_eval = in_eval /\ c.itersave = topic
      /\ c.savearray = defav /\ c.oldmarksp = marks /\ c.oldsaveix = Len(saves)
      /\ c.old_cxsubix = -1
  BY <1>3, <1>4, <1>5 DEF Context
<1> HIDE DEF c
<1>7. nCx' = nCx + 1 /\ KeepsContexts(nCx) /\ cxstack'[nCx + 1] = c
  BY <1>1, <1>2, ContextPushed
<1>8. /\ nSI' = nSI + 1 /\ KeepsInfos(nSI) /\ si' \in Seq(StackInfo) /\ KeepsSubix(nSI)
      /\ si'[nSI + 1].base = nCx /\ si'[nSI + 1].cxsubix = 0
  BY <1>1, <1>2, InfoPushed DEF KeepsSubix
<1>9. RecordsEnv(c)
  BY <1>2, <1>6, <1>7 DEF RecordsEnv, Subs, Evals
<1>10. Data' /\ InterpTypes'
  <2>1. /\ comppad' \in Pad /\ in_eval' \in EvalFlags /\ topic' \in Nat /\ defav' \in Nat
        /\ marks' = marks
    BY <1>1, <1>2 DEF TypeOK, EvalFlags
  <2> QED
    BY <1>1, <1>9, <2>1, RecordsData
<1>11. Callers'
  <2>1. PushesCaller(c)
    BY <1>6, <1>7, <1>8 DEF PushesCaller
  <2> QED
    BY <1>1, <2>1, PushCallers
<1>12. TypeOK'
  <2>1. cxstack' \in Seq(Context) /\ cstack' \in Seq(CFunction)
    BY <1>1, <1>2, <1>5, <1>6 DEF TypeOK
  <2> QED
    BY <1>8, <1>10, <2>1, TypesKept
<1>s. EnvStep
  BY <1>9 DEF EnvStep
<1> QED
  BY <1>s, <1>1, <1>10, <1>11, <1>12, CallDestructorKeeps DEF IInv

LEMMA PushMulticallStep ==
  ASSUME IInv, NEW cv \in CVs, PUSH_MULTICALL(cv)
  PROVE  IInv' /\ EnvStep
<1> DEFINE p == cx_pushblock("MULTI")
           n == depth[cv]
           c == [p EXCEPT !.cv = cv, !.olddepth = n, !.old_cxsubix = -1]
<1>1. TypeOK /\ Structure /\ Data /\ Callers /\ Sizes /\ Infos
  BY DEF IInv, Structure
<1>2. /\ cxstack' = Append(cxstack, c) /\ si' = SetSubix(push_stackinfo, 0) /\ EnterCv(cv)
      /\ in_eval' = in_eval /\ topic' = topic /\ defav' = defav
      /\ saves' = saves /\ marks' = marks
  BY DEF PUSH_MULTICALL
<1>3. p \in Context /\ p.type = "MULTI" /\ p.hasargs = FALSE /\ n \in Nat /\ -1 \in Int
  <2>1. p \in Context /\ p.type = "MULTI" /\ p.hasargs = FALSE
    BY <1>1, BlockIs DEF Subs
  <2>2. n \in Nat
    BY <1>1 DEF TypeOK
  <2> QED
    BY <2>1, <2>2
<1>4. /\ p.prevcomppad = comppad /\ p.old_in_eval = in_eval /\ p.itersave = topic
      /\ p.savearray = defav /\ p.oldmarksp = marks /\ p.oldsaveix = Len(saves)
  BY <1>1, BlockRecords
<1> HIDE DEF p
<1>5. /\ c \in Context /\ c.type = "MULTI" /\ c.cv = cv /\ c.olddepth = n /\ c.hasargs = FALSE
      /\ c.prevcomppad = comppad /\ c.old_in_eval = in_eval /\ c.itersave = topic
      /\ c.savearray = defav /\ c.oldmarksp = marks /\ c.oldsaveix = Len(saves)
      /\ c.old_cxsubix = -1
  <2> HIDE DEF n
  <2> QED
    BY <1>3, <1>4 DEF Context
<1> HIDE DEF c
<1>7. nCx' = nCx + 1 /\ KeepsContexts(nCx) /\ cxstack'[nCx + 1] = c
  BY <1>1, <1>2, ContextPushed
<1>8. /\ nSI' = nSI + 1 /\ KeepsInfos(nSI) /\ si' \in Seq(StackInfo) /\ KeepsSubix(nSI)
      /\ si'[nSI + 1].base = nCx /\ si'[nSI + 1].cxsubix = 0
  BY <1>1, <1>2, InfoPushed DEF KeepsSubix
<1>9. RecordsEnv(c)
  BY <1>2, <1>5, <1>7 DEF RecordsEnv, Subs, Evals, n
<1>10. Data' /\ InterpTypes'
  <2>1. /\ comppad' \in Pad /\ in_eval' \in EvalFlags /\ topic' \in Nat /\ defav' \in Nat
        /\ marks' = marks
    BY <1>1, <1>2, CvEntered DEF TypeOK
  <2> QED
    BY <1>1, <1>9, <2>1, RecordsData
<1>11. Callers'
  <2>1. PushesCaller(c)
    BY <1>5, <1>7, <1>8 DEF PushesCaller
  <2> QED
    BY <1>1, <2>1, PushCallers
<1>12. TypeOK' /\ Structure'
  <2>1. Structure' /\ cstack' \in Seq(CFunction)
    BY <1>1, PushMulticallKeeps
  <2>2. cxstack' \in Seq(Context)
    BY <1>1, <1>2, <1>5 DEF TypeOK
  <2> QED
    BY <1>8, <1>10, <2>1, <2>2, TypesKept
<1>s. EnvStep
  BY <1>9 DEF EnvStep
<1> QED
  BY <1>s, <1>10, <1>11, <1>12 DEF IInv

LEMMA PopContextStep ==
  ASSUME IInv, PopContext
  PROVE  IInv' /\ EnvStep
<1>1. TypeOK /\ Structure /\ Data /\ Callers /\ Sizes /\ Infos
  BY DEF IInv, Structure
<1>2. /\ nCx \in Nat /\ nSI \in Nat \ {0} /\ nC \in Nat \ {0}
      /\ Top = cxstack[nCx] /\ si[nSI].base \in 0 .. nCx /\ Last(si) = si[nSI]
      /\ Code = cstack[nC]
  BY <1>1, TopsOfStacks
<1>3. /\ Kind(nC) = "leave" /\ cxstack' = Front(cxstack) /\ Len(saves) = cstack[nC].to
      /\ si' = SetSubix(si, PoppedSubix(Top)) /\ saves' = saves
      /\ PopOfType(Top) /\ cx_popblock(Top)
  BY <1>2 DEF PopContext, Kind
<1>4. nCx > si[nSI].base /\ cxstack[nCx].oldsaveix = Len(saves) /\ nCx > 0 /\ Len(saves) \in Nat
  BY <1>1, <1>2, <1>3 DEF Structure, Leavings, Leaving, TypeOK
<1>5. nCx' = nCx - 1 /\ KeepsContexts(nCx - 1) /\ cxstack' \in Seq(Context)
  BY <1>1, <1>3, <1>4, ContextPopped
<1>6. RestoresEnv
  BY <1>2, <1>3, <1>4, <1>5 DEF RestoresEnv
<1>7. Data' /\ InterpTypes'
  BY <1>1, <1>6, RestoresData
<1>8. /\ PoppedSubix(Top) \in Int
      /\ PoppedSubix(Top) = IF cxstack[nCx].type = "LOOP" THEN si[nSI].cxsubix
                            ELSE cxstack[nCx].old_cxsubix
  <2>1. si[nSI].cxsubix \in Int /\ cxstack[nCx].old_cxsubix \in Int
    <3>1. nCx \in 1 .. nCx /\ nSI \in 1 .. nSI
      BY <1>2, <1>4
    <3> QED
      BY <1>1, <3>1, CallerSizes
  <2> QED
    BY <1>2, <2>1 DEF PoppedSubix
<1>9. /\ nSI' = nSI /\ KeepsInfos(nSI) /\ si' \in Seq(StackInfo) /\ KeepsSubix(nSI - 1)
      /\ si'[nSI].cxsubix = PoppedSubix(Top)
  <2>1. nSI > 0
    BY <1>2
  <2> QED
    BY <1>1, <1>3, <1>8, <2>1, SubixSet DEF KeepsSubix
<1>10. Callers'
  <2>1. LeavesCaller
    BY <1>4, <1>5, <1>8, <1>9 DEF LeavesCaller
  <2> QED
    BY <1>1, <2>1, LeaveCallers
<1>11. Structure' /\ cstack' \in Seq(CFunction)
  BY <1>1, PopContextKeeps
<1>s. EnvStep
  BY <1>6 DEF EnvStep
<1> QED
  BY <1>s, <1>5, <1>7, <1>9, <1>10, <1>11, TypesKept DEF IInv

LEMMA EndDestructorStep ==
  ASSUME IInv, EndDestructor
  PROVE  IInv' /\ EnvStep
<1>1. TypeOK /\ Structure /\ Data /\ Callers /\ Sizes /\ Infos
  BY DEF IInv, Structure
<1>2. /\ nCx \in Nat /\ nSI \in Nat \ {0} /\ nC \in Nat \ {0} /\ Code = cstack[nC]
      /\ Top = cxstack[nCx] /\ si[nSI].base \in 0 .. nCx /\ cxstack_ix = nCx - si[nSI].base - 1
  BY <1>1, TopsOfStacks
<1>3. /\ Kind(nC) = "run" /\ nC > 1 /\ Kind(nC - 1) = "leave" /\ saves' = saves
      /\ si' = Front(si) /\ cstack' = Front(cstack)
  BY <1>2 DEF EndDestructor, Kind, nC
<1>4. nC = si[nSI].frame
  <2>1. \/ nC = si[nSI].frame
        \/ nC = si[nSI].frame + 1 /\ FrameKind(nSI) = "multicall"
    BY <1>1, <1>3, TopIsCurrent DEF Structure
  <2>2. nC = si[nSI].frame + 1 => nC - 1 = si[nSI].frame
    BY <1>1, <1>2 DEF Sizes
  <2> QED
    BY <1>3, <2>1, <2>2 DEF FrameKind
<1>5. nSI > 1
  BY <1>1, <1>2, <1>3, <1>4 DEF Infos
<1>6. nSI' = nSI - 1 /\ KeepsInfos(nSI - 1) /\ si' \in Seq(StackInfo) /\ KeepsSubix(nSI - 1)
  BY <1>1, <1>3, <1>5, InfoPopped DEF KeepsSubix
<1>7. cstack' \in Seq(CFunction)
  BY <1>1, <1>2, <1>3, FramePopped
<1>8. /\ Data' /\ InterpTypes' /\ EnvStep /\ cxstack' \in Seq(Context)
      /\ nCx' = si[nSI].base /\ KeepsContexts(nCx')
  <2>1. CASE cxstack_ix < 0 /\ UNCHANGED <<cxstack, interp, marks>>
    <3>1. KeepsEnv /\ marks' \in Nat /\ cxstack' = cxstack
      BY <1>1, <1>3, <2>1 DEF KeepsEnv, TypeOK
    <3>2. nCx = si[nSI].base
      BY <1>2, <2>1
    <3>3. Data' /\ InterpTypes'
      BY <1>1, <3>1, KeepsData
    <3>4. cxstack' \in Seq(Context)
      BY <1>1, <3>1 DEF TypeOK
    <3> QED
      BY <3>1, <3>2, <3>3, <3>4, SameContexts DEF EnvStep
  <2>2. CASE /\ cxstack_ix = 0 /\ Len(saves) = Top.oldsaveix
             /\ cx_popeval(Top) /\ cx_popblock(Top) /\ cxstack' = Front(cxstack)
    <3>1. nCx = si[nSI].base + 1 /\ nCx > 0
      BY <1>2, <2>2
    <3>2. cxstack[nCx].type = "EVAL"
      <4>1. FrameKind(nSI) = "run"
        BY <1>3, <1>4 DEF FrameKind
      <4>2. si[nSI].base < End(nSI) /\ nSI \in 1 .. nSI /\ nSI # 1
        BY <1>2, <1>5, <3>1 DEF End
      <4>3. cxstack[si[nSI].base + 1].type = IF FrameKind(nSI) = "run" THEN "EVAL" ELSE "MULTI"
        BY <1>1, <4>2 DEF Structure, Bottoms
      <4> QED
        BY <3>1, <4>1, <4>3
    <3>3. PopOfType(cxstack[nCx])
      BY <1>2, <2>2, <3>2 DEF PopOfType, Evals
    <3>4. nCx' = nCx - 1 /\ KeepsContexts(nCx - 1) /\ cxstack' \in Seq(Context)
      BY <1>1, <2>2, <3>1, ContextPopped
    <3>5. Len(saves) \in Nat /\ Len(saves) = cxstack[nCx].oldsaveix
      BY <1>1, <1>2, <2>2 DEF TypeOK
    <3>6. RestoresEnv
      <4>1. cx_popblock(cxstack[nCx]) /\ Len(saves) <= cxstack[nCx].oldsaveix
        BY <1>2, <2>2, <3>5 DEF cx_popblock
      <4> QED
        BY <1>3, <3>1, <3>3, <3>4, <4>1 DEF RestoresEnv
    <3>7. Data' /\ InterpTypes'
      BY <1>1, <3>6, RestoresData
    <3> QED
      BY <1>2, <3>1, <3>4, <3>6, <3>7 DEF EnvStep
  <2> QED
    BY <2>1, <2>2 DEF EndDestructor
<1>9. Callers'
  <2>1. DropsCallers
    BY <1>5, <1>6, <1>8 DEF DropsCallers
  <2> QED
    BY <1>1, <2>1, DropCallers
<1> QED
  BY <1>1, <1>6, <1>7, <1>8, <1>9, EndDestructorKeeps, TypesKept DEF IInv

LEMMA PopMulticallStep ==
  ASSUME IInv, POP_MULTICALL
  PROVE  IInv' /\ EnvStep
<1>1. TypeOK /\ Structure
  BY DEF IInv
<1>2. nCx \in Nat /\ nSI \in Nat \ {0} /\ Top = cxstack[nCx] /\ si[nSI].base \in 0 .. nCx
  BY <1>1, TopsOfStacks
<1>3. nCx > 0
  <2>1. Kind(nC) = "multicall" /\ ~cstack[nC].on
    BY <1>1, TopsOfStacks DEF POP_MULTICALL, Kind
  <2> QED
    BY <1>1, <1>2, <2>1 DEF Structure, Idle
<1>4. Top.oldsaveix \in Nat
  BY <1>1, <1>2, <1>3 DEF Structure, Sizes
<1>5. cstack' \in Seq(CFunction)
  <2>1. cstack \in Seq(CFunction) /\ [Frame("leave") EXCEPT !.to = Top.oldsaveix] \in CFunction
    BY <1>1, <1>4, LeaveFrameIs DEF TypeOK
  <2>2. cstack' = Append(cstack, [Frame("leave") EXCEPT !.to = Top.oldsaveix])
    BY DEF POP_MULTICALL
  <2> QED
    BY <2>1, <2>2
<1>6. KeepsEnv /\ si' = si /\ marks' \in Nat
  BY <1>1 DEF POP_MULTICALL, KeepsEnv, TypeOK
<1> QED
  BY <1>1, <1>5, <1>6, PopMulticallKeeps, KeepsStep

LEMMA EndMulticallStep ==
  ASSUME IInv, EndMulticall
  PROVE  IInv' /\ EnvStep
<1>1. TypeOK /\ Structure /\ Data /\ Callers /\ Sizes /\ Infos
  BY DEF IInv, Structure
<1>2. /\ nCx \in Nat /\ nSI \in Nat \ {0} /\ nC \in Nat \ {0} /\ Code = cstack[nC]
      /\ Top = cxstack[nCx] /\ Len(saves) \in Nat
  BY <1>1, TopsOfStacks DEF TypeOK
<1>3. EndsCallback(nC - 1)
  BY <1>1, EndMulticallIs
<1>4. /\ nSI > 1 /\ nCx = si[nSI].base + 1 /\ si[nSI].base \in Nat /\ nCx > 0
      /\ FrameKind(nSI) = "multicall" /\ cxstack[nCx].oldsaveix = cstack[nC].to
  BY <1>2, <1>3 DEF EndsCallback, Leaving
<1>5. /\ cx_popsub_common(Top) /\ cx_popblock(Top)
      /\ cxstack' = Front(cxstack) /\ si' = Front(si) /\ Len(saves) = cstack[nC].to
      /\ UNCHANGED <<in_eval, topic, defav, saves>>
  BY <1>2 DEF EndMulticall
<1>6. cxstack[nCx].type = "MULTI"
  <2>1. si[nSI].base < End(nSI) /\ nSI \in 1 .. nSI /\ nSI # 1
    BY <1>2, <1>4 DEF End
  <2>2. cxstack[si[nSI].base + 1].type = IF FrameKind(nSI) = "run" THEN "EVAL" ELSE "MULTI"
    BY <1>1, <2>1 DEF Structure, Bottoms
  <2> QED
    BY <1>4, <2>2
<1>7. ~cxstack[nCx].hasargs
  <2>1. Changes(nCx)
    BY <1>1, <1>2, <1>4 DEF Data, Recorded
  <2> QED
    BY <1>6, <2>1 DEF Changes
<1>8. PopOfType(cxstack[nCx])
  BY <1>2, <1>5, <1>6, <1>7 DEF PopOfType, cx_popsub, Subs
<1>9. nCx' = nCx - 1 /\ KeepsContexts(nCx - 1) /\ cxstack' \in Seq(Context)
  BY <1>1, <1>4, <1>5, ContextPopped
<1>10. RestoresEnv
  <2>1. Len(saves) <= cxstack[nCx].oldsaveix
    BY <1>2, <1>4, <1>5
  <2> QED
    BY <1>2, <1>4, <1>5, <1>8, <1>9, <2>1 DEF RestoresEnv
<1>11. Data' /\ InterpTypes'
  BY <1>1, <1>10, RestoresData
<1>12. nSI' = nSI - 1 /\ KeepsInfos(nSI - 1) /\ si' \in Seq(StackInfo) /\ KeepsSubix(nSI - 1)
  BY <1>1, <1>4, <1>5, InfoPopped DEF KeepsSubix
<1>13. nCx' = si[nSI].base /\ KeepsContexts(nCx')
  BY <1>2, <1>4, <1>9
<1>14. Callers'
  <2>1. DropsCallers
    BY <1>4, <1>12, <1>13 DEF DropsCallers
  <2> QED
    BY <1>1, <2>1, DropCallers
<1>15. Structure' /\ cstack' \in Seq(CFunction)
  BY <1>1, EndMulticallKeeps
<1> QED
  BY <1>9, <1>10, <1>11, <1>12, <1>14, <1>15, TypesKept DEF IInv, EnvStep

LEMMA InitIInv ==
  ASSUME Init
  PROVE  IInv
<1>1. /\ nCx = 0 /\ nSI = 1 /\ nC = 1 /\ si[1].base = 0 /\ si[1].frame = 1 /\ si[1].cxsubix = -1
      /\ cstack[1] = Frame("run")
  BY DEF Init, nCx, nSI, nC
<1>2. /\ Frame("run") \in CFunction /\ Frame("run").kind = "run" /\ Frame("run").to = 0
      /\ ~Frame("run").on /\ ~Frame("run").mustcatch
  BY FrameIs
<1>3. TypeOK
  <2>1. cstack \in Seq(CFunction) /\ cxstack \in Seq(Context) /\ saves \in Seq(Pad)
    BY <1>2 DEF Init
  <2>2. si \in Seq(StackInfo)
    <3>1. [base |-> 0, cxsubix |-> -1, frame |-> 1] \in StackInfo
      BY DEF StackInfo
    <3> QED
      BY <3>1 DEF Init
  <2> QED
    BY <2>1, <2>2 DEF Init, TypeOK, Pad, EvalFlags
<1>4. Kind(1) = "run" /\ cstack[1].to = 0 /\ ~cstack[1].on /\ ~cstack[1].mustcatch
  BY <1>1, <1>2 DEF Kind
<1>5. \A i \in 1 .. nSI : i = 1 /\ End(i) = 0
  BY <1>1 DEF End
<1>6. Structure
  <2>1. Sizes /\ Frames /\ Catches
    BY <1>1, <1>4 DEF Sizes, Frames, Catches
  <2>2. Infos /\ Owners
    BY <1>1, <1>4 DEF Infos, Owners
  <2>3. Bottoms
    BY <1>1, <1>5 DEF Bottoms
  <2>4. Leavings /\ Idle
    BY <1>1, <1>4 DEF Leavings, Idle
  <2>5. Dies /\ EvalLoops
    BY <1>1, <1>4 DEF Dies, EvalLoops
  <2> QED
    BY <2>1, <2>2, <2>3, <2>4, <2>5 DEF Structure
<1>7. Data
  <2>1. Recorded /\ Savestack
    BY <1>1 DEF Recorded, Savestack
  <2>2. PadsSaved
    BY DEF PadsSaved, Init
  <2>3. Depths
    <3>1. \A cv : CallsBelow(cv, nCx) = {}
      BY <1>1 DEF CallsBelow
    <3>2. Cardinality({}) = 0
      BY FS_EmptySet
    <3>3. \A cv \in CVs : depth[cv] = 0 /\ refs[cv] = 0
      BY DEF Init
    <3> QED
      BY <1>1, <3>1, <3>2, <3>3 DEF Depths
  <2> QED
    BY <2>1, <2>2, <2>3 DEF Data
<1>8. Callers
  BY <1>1, <1>5 DEF Callers, IsTopmost
<1> QED
  BY <1>3, <1>6, <1>7, <1>8 DEF IInv

LEMMA NextIInv ==
  ASSUME IInv, [Next]_vars
  PROVE  IInv' /\ EnvStep
<1>1. ASSUME NEW cv \in CVs, NEW hasargs \in BOOLEAN, cx_pushsub(cv, hasargs)
      PROVE  IInv' /\ EnvStep
  BY <1>1, SubStep
<1>2. ASSUME NEW cv \in CVs, cx_pushformat(cv)
      PROVE  IInv' /\ EnvStep
  BY <1>2, FormatStep
<1>3. ASSUME NEW cv \in CVs, PUSH_MULTICALL(cv)
      PROVE  IInv' /\ EnvStep
  BY <1>3, PushMulticallStep
<1>4. ASSUME NEW type \in Evals, cx_pusheval(type)
      PROVE  IInv' /\ EnvStep
  BY <1>4, EvalStep
<1>5. CASE cx_pushloop_for
  BY <1>5, LoopStep
<1>6. CASE LeaveOp \/ die
  BY <1>6, LeaveOpStep, DieStep
<1>7. CASE ClearSV \/ CallDestructor \/ PopContext
  BY <1>7, ClearSVStep, CallDestructorStep, PopContextStep
<1>8. CASE Unwind \/ EndDestructor
  BY <1>8, UnwindStep, EndDestructorStep
<1>9. CASE MULTICALL \/ EndOfCallback \/ POP_MULTICALL \/ EndMulticall
  BY <1>9, MulticallStep, PopMulticallStep, EndMulticallStep
<1>10. CASE SAVECLEARSV \/ PUSHMARK \/ POPMARK
  BY <1>10, SavestackStep
<1>11. CASE UNCHANGED vars
  <2>1. UNCHANGED stacks /\ UNCHANGED interp /\ saves' = saves /\ marks' = marks
    BY <1>11 DEF vars
  <2>2. TypeOK /\ Structure
    BY DEF IInv
  <2>3. /\ KeepsEnv /\ si' = si /\ marks' \in Nat /\ cstack' \in Seq(CFunction)
    BY <2>1, <2>2 DEF KeepsEnv, stacks, TypeOK
  <2>4. Structure'
    BY <2>1, <2>2, SameStructure
  <2> QED
    BY <2>3, <2>4, KeepsStep
<1> QED
  BY <1>1, <1>2, <1>3, <1>4, <1>5, <1>6, <1>7, <1>8, <1>9, <1>10, <1>11 DEF Next

(* The stacks fit together and the contexts have recorded what was in      *)
(* force, in every reachable state.                                        *)
THEOREM CxInvariant == Spec => []IInv
<1> QED
  BY InitIInv, NextIInv, PTL DEF Spec

(* The state of the stacks is well typed: no counter becomes negative.     *)
THEOREM CxTypeOK == Spec => []TypeOK
<1>1. IInv => TypeOK
  BY DEF IInv
<1> QED
  BY <1>1, CxInvariant, PTL

(* die resumes in the runloop in which the eval was entered (die_unwind,   *)
(* docatch and POP_MULTICALL).                                             *)
THEOREM CxCatchesInPlace == Spec => []CatchesInPlace
<1>1. IInv => CatchesInPlace
  <2> SUFFICES ASSUME IInv, NEW c \in ToSet(cxstack), c.type \in Evals
               PROVE  /\ c.cur_top_env = c.loop
                      /\ c.loop <= Len(cstack) /\ cstack[c.loop].kind = "run"
    BY DEF CatchesInPlace
  <2>1. PICK j \in 1 .. nCx : c = cxstack[j]
    BY TopsOfStacks DEF IInv, ToSet
  <2>2. InPlace(j)
    BY <2>1 DEF IInv, Structure, EvalLoops
  <2> QED
    BY <2>1, <2>2 DEF InPlace, Kind, nC
<1> QED
  BY <1>1, CxInvariant, PTL

(* si_cxsubix is the topmost sub, eval or format of its stackinfo, which   *)
(* gimme_V, caller and return rely on.                                     *)
THEOREM CxCallerKnown == Spec => []CallerKnown
<1>1. IInv => CallerKnown
  <2> SUFFICES ASSUME IInv, NEW i \in DOMAIN si
               PROVE  LET callers == {j \in si[i].base + 1 .. End(i) : cxstack[j].type \notin {"LOOP", "TRY"}}
                      IN si[i].cxsubix = IF callers = {} THEN -1 ELSE Max(callers) - si[i].base - 1
    BY Zenon DEF CallerKnown, End, nSI, nCx
  <2>0. i \in 1 .. nSI
    BY TopsOfStacks DEF IInv
  <2> DEFINE b == si[i].base
             e == End(i)
             x == si[i].cxsubix
             callers == {j \in b + 1 .. e : cxstack[j].type \notin {"LOOP", "TRY"}}
  <2>1. b \in Nat /\ e \in Nat /\ x \in Int /\ IsTopmost(x, b, e)
    <3>1. b \in 0 .. nCx /\ e \in 0 .. nCx /\ x \in Int
      BY <2>0, CallerSizes DEF IInv, Structure
    <3>2. IsTopmost(x, b, e)
      BY <2>0 DEF IInv, Callers
    <3> QED
      BY <3>1, <3>2
  <2>2. \A j \in b + 1 .. e : j \in callers <=> Caller(j)
    BY DEF Caller
  <2>3. callers \subseteq b + 1 .. e
    OBVIOUS
  <2> HIDE DEF b, e, x, callers
  <2>4. CASE x = -1
    BY <2>1, <2>2, <2>3, <2>4 DEF IsTopmost, x, callers, b, e
  <2>5. CASE x # -1
    <3>1. /\ b + x + 1 \in b + 1 .. e /\ Caller(b + x + 1)
          /\ \A j \in b + x + 2 .. e : ~Caller(j)
      BY <2>1, <2>5 DEF IsTopmost
    <3>2. b + x + 1 \in callers
      BY <2>2, <3>1
    <3>3. \A y \in callers : y <= b + x + 1
      <4> TAKE y \in callers
      <4>1. y \in b + 1 .. e /\ Caller(y)
        BY <2>2, <2>3
      <4>2. y \notin b + x + 2 .. e
        BY <3>1, <4>1
      <4> QED
        BY <2>1, <4>1, <4>2
    <3>4. \A z \in callers : (\A y \in callers : z >= y) <=> z = b + x + 1
      <4> TAKE z \in callers
      <4>1. z \in b + 1 .. e
        BY <2>3
      <4> QED
        BY <2>1, <2>3, <3>1, <3>2, <3>3, <4>1
    <3>5. Max(callers) = b + x + 1
      BY <3>2, <3>4 DEF Max
    <3>6. callers # {} /\ Max(callers) - b - 1 = x
      BY <2>1, <3>2, <3>5
    <3> QED
      BY <3>6 DEF x, callers, b, e
  <2> QED
    BY <2>4, <2>5
<1> QED
  BY <1>1, CxInvariant, PTL

(* CvDEPTH and the references to a CV are the number of its calls.         *)
THEOREM CxCvAccounted == Spec => []CvAccounted
<1>1. IInv => CvAccounted
  <2> SUFFICES ASSUME IInv, NEW cv \in CVs
               PROVE  /\ depth[cv] = Cardinality({i \in DOMAIN cxstack : cxstack[i].cv = cv})
                      /\ refs[cv] = depth[cv]
    BY DEF CvAccounted
  <2>1. {i \in DOMAIN cxstack : cxstack[i].cv = cv} = CallsBelow(cv, nCx)
    BY TopsOfStacks DEF IInv, CallsBelow
  <2> QED
    BY <2>1 DEF IInv, Data, Depths
<1> QED
  BY <1>1, CxInvariant, PTL

LEMMA TopPad ==
  ASSUME TypeOK, Sizes, PadsSaved, nCx > 0, Len(saves) > cxstack[nCx].oldsaveix
  PROVE  Last(saves) = comppad
<1>1. nCx \in Nat /\ Len(saves) \in Nat /\ cxstack[nCx].oldsaveix \in Nat
  BY DEF Sizes, TypeOK
<1>2. SavesAt(nCx + 1) = Len(saves) /\ PadAt(nCx + 1) = comppad
  BY <1>1 DEF SavesAt, PadAt
<1>3. SavesAt(nCx) = cxstack[nCx].oldsaveix
  BY <1>1 DEF SavesAt
<1>4. \A j : j = nCx + 1 => j - 1 = nCx /\ j \in 1 .. nCx + 1
  BY <1>1
<1>5. Len(saves) \in 1 .. Len(saves)
  BY <1>1
<1>6. saves[Len(saves)] = PadAt(nCx + 1)
  BY <1>1, <1>2, <1>3, <1>4, <1>5 DEF PadsSaved
<1> QED
  BY <1>2, <1>6 DEF Last

(* An entry of the savestack is undone while the pad that was current when *)
(* it was made is (CX_LEAVE_SCOPE before the context's pad is replaced).   *)
THEOREM CxClearsOwnPad == Spec => ClearsOwnPad
<1>1. ASSUME IInv, [Next]_vars, Len(saves') < Len(saves)
      PROVE  Last(saves) = comppad
  <2>1. TypeOK /\ Structure /\ Sizes /\ PadsSaved /\ Len(saves) \in Nat
    BY <1>1 DEF IInv, Structure, Data, TypeOK
  <2>2. /\ nCx \in Nat /\ nSI \in Nat \ {0} /\ nC \in Nat \ {0} /\ Code = cstack[nC]
        /\ Top = cxstack[nCx] /\ si[nSI].base \in 0 .. nCx
    BY <2>1, TopsOfStacks
  <2>3. saves' # saves /\ saves' # Append(saves, comppad)
    <3>1. saves \in Seq(Pad) /\ Len(saves) \in Nat /\ comppad \in Pad
      BY <2>1 DEF TypeOK
    <3>2. Len(Append(saves, comppad)) = Len(saves) + 1
      BY <3>1, AppendProperties
    <3> QED
      BY <1>1, <2>1, <3>2
  <2>4. ClearSV
    BY <1>1, <2>3 DEF Next, vars, cx_pushsub, cx_pushformat, PUSH_MULTICALL, cx_pusheval, cx_pushloop_for,
         LeaveOp, die, CallDestructor, PopContext, Unwind, EndDestructor, MULTICALL, EndOfCallback,
         POP_MULTICALL, EndMulticall, SAVECLEARSV, PUSHMARK, POPMARK
  <2>5. nCx > 0 /\ Len(saves) > cxstack[nCx].oldsaveix
    <3>1. Leaving(nC, nSI, nCx)
      BY <2>1, <2>2, <2>4 DEF ClearSV, Structure, Leavings, Kind
    <3> QED
      BY <2>2, <2>4, <3>1 DEF ClearSV, Leaving
  <2> QED
    BY <2>1, <2>5, TopPad
<1> QED
  BY <1>1, CxInvariant, PTL DEF Spec, ClearsOwnPad

-----------------------------------------------------------------------------
(* However scopes are left, what they had changed is restored: the steps   *)
(* of the stack are steps of ScopePromise.                                 *)

(* Along positions that do not change a value it is the one found at the   *)
(* next position that may.                                                 *)
SameBut(a, S, i, n) == \A j \in i .. n : j \notin S => a[j + 1] = a[j]

FoundAt(a, S, i, n) ==
  /\ S = {} => a[i] = a[n + 1]
  /\ S # {} => Min(S) \in S /\ a[i] = a[Min(S)]

LEMMA SavedIs ==
  ASSUME NEW n \in Nat, NEW a, NEW i \in 1 .. n, NEW later, later \subseteq i .. n,
         SameBut(a, later, i, n)
  PROVE  FoundAt(a, later, i, n)
<1>1. ASSUME NEW m \in i .. n + 1, \A j \in later : m <= j
      PROVE  a[m] = a[i]
  <2> DEFINE bad == {k \in i .. m : a[k] # a[i]}
  <2>1. ASSUME bad # {}
        PROVE  FALSE
    <3>1. bad \subseteq Nat
      OBVIOUS
    <3>2. PICK k \in bad : \A y \in bad : k <= y
      <4> HIDE DEF bad
      <4> QED
        BY <2>1, <3>1, LeastExists
    <3>3. k \in i .. m /\ a[k] # a[i] /\ k # i
      OBVIOUS
    <3>4. k - 1 \in i .. m /\ k - 1 \in 1 .. n /\ (k - 1) + 1 = k /\ k - 1 < m
      BY <3>3
    <3>5. k - 1 \notin later
      BY <1>1, <3>4
    <3>6. a[k] = a[k - 1]
      BY <1>1, <3>4, <3>5 DEF SameBut
    <3>7. k - 1 \notin bad
      BY <3>2, <3>3
    <3> QED
      BY <3>3, <3>4, <3>6, <3>7
  <2> QED
    BY <2>1
<1>2. ASSUME later = {}
      PROVE  a[i] = a[n + 1]
  <2>1. n + 1 \in i .. n + 1
    OBVIOUS
  <2> QED
    BY <1>1, <1>2, <2>1
<1>3. ASSUME later # {}
      PROVE  Min(later) \in later /\ a[i] = a[Min(later)]
  <2>1. later \subseteq Nat /\ later \subseteq i .. n
    OBVIOUS
  <2>2. PICK x \in later : \A y \in later : x <= y
    BY <1>3, <2>1, LeastExists
  <2>3. PICK z : z = Min(later) /\ z \in later /\ \A y \in later : z <= y
    BY <2>2 DEF Min
  <2>4. z \in i .. n + 1
    BY <2>1, <2>3
  <2>5. a[z] = a[i]
    BY <1>1, <2>3, <2>4
  <2> QED
    BY <1>3, <2>3, <2>5
<1> QED
  BY <1>2, <1>3 DEF FoundAt

(* What was in force when context j was entered, as a record.              *)
EnvAt(j) ==
  [pad |-> PadAt(j), depth |-> [cv \in CVs |-> Cardinality(CallsBelow(cv, j - 1))],
   in_eval |-> FlagsAt(j), topic |-> TopicAt(j), defav |-> DefavAt(j), marks |-> MarksAt(j)]

(* Calls of cv from context i on are all but those below it.               *)
LEMMA CallsFrom ==
  ASSUME TypeOK, NEW cv, NEW i \in 1 .. nCx
  PROVE  Cardinality(CallsBelow(cv, nCx)) - Cardinality(Calls(cv, i)) = Cardinality(CallsBelow(cv, i - 1))
<1> DEFINE S == CallsBelow(cv, i - 1)
           T == Calls(cv, i)
<1>1. nCx \in Nat /\ i - 1 \in Nat
  BY DEF TypeOK, nCx
<1>2. IsFiniteSet(S) /\ Cardinality(S) \in Nat
  BY <1>1, CallsCount
<1>3. IsFiniteSet(T) /\ Cardinality(T) \in Nat
  <2>1. T \in SUBSET (i .. nCx) /\ IsFiniteSet(i .. nCx)
    BY <1>1, FS_Interval DEF Calls, nCx
  <2> QED
    BY <2>1, FS_Subset, FS_CardinalityType
<1>4. S \cap T = {} /\ CallsBelow(cv, nCx) = S \cup T
  BY <1>1 DEF Calls, CallsBelow, nCx
<1> HIDE DEF S, T
<1>5. Cardinality(S \cup T) = Cardinality(S) + Cardinality(T)
  <2>1. Cardinality(S \cup T) = Cardinality(S) + Cardinality(T) - Cardinality(S \cap T)
    BY <1>2, <1>3, FS_Union
  <2>2. Cardinality(S \cap T) = 0
    BY <1>4, FS_EmptySet
  <2> QED
    BY <1>2, <1>3, <2>1, <2>2
<1> QED
  BY <1>2, <1>3, <1>4, <1>5 DEF S, T

LEMMA EnvIs ==
  ASSUME TypeOK, Data
  PROVE  /\ \A i \in 1 .. nCx : EnvBefore(i) = EnvAt(i)
         /\ \A i : i = nCx + 1 => Env = EnvAt(i)
<1>1. nCx \in Nat /\ DOMAIN cxstack = 1 .. nCx /\ depth \in [CVs -> Nat]
  BY DEF TypeOK, nCx
<1>2. \A j \in 1 .. nCx : Changes(j)
  BY DEF Data, Recorded
<1>3. \A cv \in CVs : depth[cv] = Cardinality(CallsBelow(cv, nCx))
  BY DEF Data, Depths
<1>4. ASSUME NEW i \in 1 .. nCx
      PROVE  EnvBefore(i) = EnvAt(i)
  <2> DEFINE pads   == [j \in 1 .. nCx + 1 |-> PadAt(j)]
             flags  == [j \in 1 .. nCx + 1 |-> FlagsAt(j)]
             topics == [j \in 1 .. nCx + 1 |-> TopicAt(j)]
             defavs == [j \in 1 .. nCx + 1 |-> DefavAt(j)]
             padSavers   == {j \in DOMAIN cxstack : cxstack[j].cv # Main}
             evalSavers  == {j \in DOMAIN cxstack : cxstack[j].type \in Evals}
             topicSavers == {j \in DOMAIN cxstack : cxstack[j].type = "LOOP"}
             defavSavers == {j \in DOMAIN cxstack : cxstack[j].hasargs}
  <2>0. \A j \in 1 .. nCx : j \in 1 .. nCx + 1 /\ j + 1 \in 1 .. nCx + 1
    BY <1>1
  <2>1. Saved(i, padSavers, "prevcomppad", comppad) = PadAt(i)
    <3> DEFINE later == {j \in i .. nCx : j \in padSavers}
    <3>1. pads[nCx + 1] = comppad /\ \A j \in 1 .. nCx : pads[j] = cxstack[j].prevcomppad
      BY <1>1, <2>0 DEF PadAt
    <3>2. SameBut(pads, later, i, nCx) /\ later \subseteq i .. nCx /\ later \subseteq 1 .. nCx
      BY <1>1, <1>2, <2>0 DEF Changes, SameBut
    <3>3. pads[i] = PadAt(i)
      BY <2>0
    <3>4. Saved(i, padSavers, "prevcomppad", comppad) = IF later = {} THEN comppad ELSE cxstack[Min(later)].prevcomppad
      BY Zenon DEF Saved, nCx
    <3> HIDE DEF pads, later
    <3>5. FoundAt(pads, later, i, nCx)
      BY <1>1, <3>2, SavedIs
    <3> QED
      BY <3>1, <3>2, <3>3, <3>4, <3>5 DEF FoundAt
  <2>2. Saved(i, evalSavers, "old_in_eval", in_eval) = FlagsAt(i)
    <3> DEFINE later == {j \in i .. nCx : j \in evalSavers}
    <3>1. flags[nCx + 1] = in_eval /\ \A j \in 1 .. nCx : flags[j] = cxstack[j].old_in_eval
      BY <1>1, <2>0 DEF FlagsAt
    <3>2. SameBut(flags, later, i, nCx) /\ later \subseteq i .. nCx /\ later \subseteq 1 .. nCx
      BY <1>1, <1>2, <2>0 DEF Changes, SameBut
    <3>3. flags[i] = FlagsAt(i)
      BY <2>0
    <3>4. Saved(i, evalSavers, "old_in_eval", in_eval) = IF later = {} THEN in_eval ELSE cxstack[Min(later)].old_in_eval
      BY Zenon DEF Saved, nCx
    <3> HIDE DEF flags, later
    <3>5. FoundAt(flags, later, i, nCx)
      BY <1>1, <3>2, SavedIs
    <3> QED
      BY <3>1, <3>2, <3>3, <3>4, <3>5 DEF FoundAt
  <2>3. Saved(i, topicSavers, "itersave", topic) = TopicAt(i)
    <3> DEFINE later == {j \in i .. nCx : j \in topicSavers}
    <3>1. topics[nCx + 1] = topic /\ \A j \in 1 .. nCx : topics[j] = cxstack[j].itersave
      BY <1>1, <2>0 DEF TopicAt
    <3>2. SameBut(topics, later, i, nCx) /\ later \subseteq i .. nCx /\ later \subseteq 1 .. nCx
      BY <1>1, <1>2, <2>0 DEF Changes, SameBut
    <3>3. topics[i] = TopicAt(i)
      BY <2>0
    <3>4. Saved(i, topicSavers, "itersave", topic) = IF later = {} THEN topic ELSE cxstack[Min(later)].itersave
      BY Zenon DEF Saved, nCx
    <3> HIDE DEF topics, later
    <3>5. FoundAt(topics, later, i, nCx)
      BY <1>1, <3>2, SavedIs
    <3> QED
      BY <3>1, <3>2, <3>3, <3>4, <3>5 DEF FoundAt
  <2>4. Saved(i, defavSavers, "savearray", defav) = DefavAt(i)
    <3> DEFINE later == {j \in i .. nCx : j \in defavSavers}
    <3>1. defavs[nCx + 1] = defav /\ \A j \in 1 .. nCx : defavs[j] = cxstack[j].savearray
      BY <1>1, <2>0 DEF DefavAt
    <3>2. SameBut(defavs, later, i, nCx) /\ later \subseteq i .. nCx /\ later \subseteq 1 .. nCx
      BY <1>1, <1>2, <2>0 DEF Changes, SameBut
    <3>3. defavs[i] = DefavAt(i)
      BY <2>0
    <3>4. Saved(i, defavSavers, "savearray", defav) = IF later = {} THEN defav ELSE cxstack[Min(later)].savearray
      BY Zenon DEF Saved, nCx
    <3> HIDE DEF defavs, later
    <3>5. FoundAt(defavs, later, i, nCx)
      BY <1>1, <3>2, SavedIs
    <3> QED
      BY <3>1, <3>2, <3>3, <3>4, <3>5 DEF FoundAt
  <2>5. \A cv \in CVs : depth[cv] - Cardinality(Calls(cv, i)) = Cardinality(CallsBelow(cv, i - 1))
    BY <1>3, CallsFrom
  <2>6. cxstack[i].oldmarksp = MarksAt(i)
    BY DEF MarksAt
  <2>7. EnvBefore(i) =
          [pad     |-> Saved(i, padSavers, "prevcomppad", comppad),
           depth   |-> [cv \in CVs |-> depth[cv] - Cardinality(Calls(cv, i))],
           in_eval |-> Saved(i, evalSavers, "old_in_eval", in_eval),
           topic   |-> Saved(i, topicSavers, "itersave", topic),
           defav   |-> Saved(i, defavSavers, "savearray", defav),
           marks   |-> cxstack[i].oldmarksp]
    BY Zenon DEF EnvBefore
  <2>8. [cv \in CVs |-> depth[cv] - Cardinality(Calls(cv, i))] = [cv \in CVs |-> Cardinality(CallsBelow(cv, i - 1))]
    BY <2>5
  <2> HIDE DEF padSavers, evalSavers, topicSavers, defavSavers
  <2> QED
    BY <2>1, <2>2, <2>3, <2>4, <2>6, <2>7, <2>8 DEF EnvAt
<1>5. ASSUME NEW i, i = nCx + 1
      PROVE  Env = EnvAt(i)
  <2>1. i - 1 = nCx /\ ~(i <= nCx)
    BY <1>1, <1>5
  <2>2. depth = [cv \in CVs |-> Cardinality(CallsBelow(cv, i - 1))]
    <3>1. depth = [cv \in CVs |-> depth[cv]]
      BY <1>1
    <3> QED
      BY <1>3, <2>1, <3>1
  <2>3. PadAt(i) = comppad /\ FlagsAt(i) = in_eval /\ TopicAt(i) = topic /\ DefavAt(i) = defav /\ MarksAt(i) = marks
    BY <2>1 DEF PadAt, FlagsAt, TopicAt, DefavAt, MarksAt
  <2> QED
    BY <2>2, <2>3 DEF Env, EnvAt
<1> QED
  BY <1>4, <1>5

LEMMA AppendIs ==
  ASSUME NEW S, NEW n \in Nat, NEW s \in [1 .. n -> S], NEW e \in S, NEW t \in [1 .. n + 1 -> S],
         \A i \in 1 .. n : t[i] = s[i], t[n + 1] = e
  PROVE  t = Append(s, e)
<1>1. s \in Seq(S) /\ Len(s) = n /\ t \in Seq(S) /\ Len(t) = n + 1
  OBVIOUS
<1> DEFINE u == Append(s, e)
<1>2. u \in Seq(S) /\ Len(u) = n + 1 /\ u[n + 1] = e /\ \A i \in 1 .. n : u[i] = s[i]
  BY <1>1, AppendProperties
<1> HIDE DEF u
<1>3. \A i \in 1 .. Len(t) : t[i] = u[i]
  BY <1>1, <1>2
<1>4. t = u
  BY <1>1, <1>2, <1>3, SeqEqual
<1> QED
  BY <1>4 DEF u

LEMMA FrontIs ==
  ASSUME NEW S, NEW n \in Nat \ {0}, NEW s \in [1 .. n -> S], NEW t \in [1 .. n - 1 -> S],
         \A i \in 1 .. n - 1 : t[i] = s[i]
  PROVE  Len(s) = n /\ t = SubSeq(s, 1, n - 1)
<1>1. s \in Seq(S) /\ Len(s) = n /\ t \in Seq(S) /\ Len(t) = n - 1 /\ n - 1 \in 0 .. Len(s)
  OBVIOUS
<1> DEFINE u == SubSeq(s, 1, n - 1)
<1>2. u \in Seq(S) /\ Len(u) = n - 1 /\ \A i \in 1 .. n - 1 : u[i] = s[i]
  BY <1>1, Prefix
<1> HIDE DEF u
<1>3. \A i \in 1 .. Len(t) : t[i] = u[i]
  BY <1>1, <1>2
<1>4. t = u
  BY <1>1, <1>2, <1>3, SeqEqual
<1> QED
  BY <1>1, <1>4 DEF u

(* The environments of the open scopes, as the contexts have recorded them.*)
Scopes == [i \in 1 .. nCx |-> EnvAt(i)]

ScopesSaved ==
  /\ [i \in DOMAIN cxstack |-> EnvBefore(i)] = Scopes
  /\ \A i : i = nCx + 1 => Env = EnvAt(i)

LEMMA ScopesAre == IInv => ScopesSaved
<1> SUFFICES ASSUME IInv
             PROVE  ScopesSaved
  OBVIOUS
<1>1. DOMAIN cxstack = 1 .. nCx
  BY TopsOfStacks DEF IInv
<1>2. /\ \A i \in 1 .. nCx : EnvBefore(i) = EnvAt(i)
      /\ \A i : i = nCx + 1 => Env = EnvAt(i)
  BY EnvIs DEF IInv
<1>3. [i \in DOMAIN cxstack |-> EnvBefore(i)] = [i \in 1 .. nCx |-> EnvAt(i)]
  BY <1>1, <1>2
<1> QED
  BY <1>2, <1>3 DEF ScopesSaved, Scopes

LEMMA EnvAtKept ==
  ASSUME NEW n \in Nat, Keeps(n)
  PROVE  \A j \in 1 .. n + 1 : EnvAt(j)' = EnvAt(j)
<1> SUFFICES ASSUME NEW CONSTANT j \in 1 .. n + 1
             PROVE  EnvAt(j)' = EnvAt(j)
  OBVIOUS
<1>1. \A cv : CallsBelow(cv, j - 1)' = CallsBelow(cv, j - 1)
  <2>1. \A m : m = j - 1 => m \in 0 .. n
    OBVIOUS
  <2>2. \A cv : \A m : m = j - 1 => CallsBelow(cv, m)' = CallsBelow(cv, m)
    BY <2>1, CallsKept DEF Keeps
  <2> QED
    BY <2>2
<1>2. /\ PadAt(j)' = PadAt(j) /\ FlagsAt(j)' = FlagsAt(j) /\ TopicAt(j)' = TopicAt(j)
      /\ DefavAt(j)' = DefavAt(j) /\ MarksAt(j)' = MarksAt(j)
  BY DEF Keeps, KeepsAt
<1>3. [cv \in CVs |-> Cardinality(CallsBelow(cv, j - 1))]' = [cv \in CVs |-> Cardinality(CallsBelow(cv, j - 1))]
  BY <1>1
<1> QED
  BY <1>2, <1>3 DEF EnvAt

LEMMA RecordsScopes ==
  ASSUME TypeOK, NEW c, RecordsEnv(c)
  PROVE  \A n : n = nCx + 1 => Scopes' = Append(Scopes, EnvAt(n))
<1> DEFINE m == nCx
           s == Scopes
           t == Scopes'
           f == [i \in 1 .. m + 1 |-> EnvAt(i)]
           S == {f[i] : i \in 1 .. m + 1}
<1>1. m \in Nat /\ nCx' = m + 1
  BY DEF TypeOK, nCx, RecordsEnv
<1>2. \A j \in 1 .. m + 1 : EnvAt(j)' = EnvAt(j)
  BY <1>1, RecordsKeeps, EnvAtKept
<1>3. s = [i \in 1 .. m |-> EnvAt(i)] /\ t = f
  <2>1. t = [i \in 1 .. m + 1 |-> EnvAt(i)']
    BY <1>1 DEF Scopes
  <2> QED
    BY <1>2, <2>1 DEF Scopes
<1> HIDE DEF m, s, t
<1>4. t \in [1 .. m + 1 -> S] /\ s \in [1 .. m -> S] /\ f[m + 1] \in S
  BY <1>1, <1>3
<1>5. (\A i \in 1 .. m : t[i] = s[i]) /\ t[m + 1] = f[m + 1]
  BY <1>1, <1>3
<1>6. \A n : n = m + 1 => f[m + 1] = EnvAt(n)
  BY <1>1
<1> HIDE DEF f, S
<1>7. t = Append(s, f[m + 1])
  BY <1>1, <1>4, <1>5, AppendIs
<1> QED
  BY <1>6, <1>7 DEF m, s, t

LEMMA RestoresScopes ==
  ASSUME TypeOK, Recorded, RestoresEnv
  PROVE  /\ Len(Scopes) = nCx /\ Scopes # <<>>
         /\ Scopes' = SubSeq(Scopes, 1, Len(Scopes) - 1)
         /\ \A n : n = nCx => Scopes[Len(Scopes)] = EnvAt(n)'
<1> DEFINE m == nCx
           s == Scopes
           t == Scopes'
           f == [i \in 1 .. m |-> EnvAt(i)]
           S == {f[i] : i \in 1 .. m}
<1>1. m \in Nat \ {0} /\ m - 1 \in Nat /\ nCx' = m - 1
  BY DEF TypeOK, nCx, RestoresEnv
<1>2. \A j \in 1 .. m : EnvAt(j)' = EnvAt(j)
  <2>1. Keeps(nCx - 1) /\ (m - 1) + 1 = m
    BY <1>1, RestoresKeeps
  <2> QED
    BY <1>1, <2>1, EnvAtKept
<1>3. s = f /\ t = [i \in 1 .. m - 1 |-> EnvAt(i)]
  <2>1. t = [i \in 1 .. m - 1 |-> EnvAt(i)']
    BY <1>1 DEF Scopes
  <2>2. \A i \in 1 .. m - 1 : i \in 1 .. m
    BY <1>1
  <2> HIDE DEF m
  <2>3. t = [i \in 1 .. m - 1 |-> EnvAt(i)]
    BY <1>2, <2>1, <2>2
  <2> QED
    BY <2>3 DEF Scopes, m
<1> HIDE DEF m, s, t
<1>4. s \in [1 .. m -> S] /\ t \in [1 .. m - 1 -> S]
  BY <1>1, <1>3
<1>5. \A i \in 1 .. m - 1 : t[i] = s[i]
  BY <1>1, <1>3
<1>6. \A n : n = m => s[m] = EnvAt(n)'
  BY <1>1, <1>2, <1>3
<1> HIDE DEF f, S
<1>7. Len(s) = m /\ t = SubSeq(s, 1, m - 1)
  BY <1>1, <1>4, <1>5, FrontIs
<1>8. s # <<>>
  BY <1>1, <1>7
<1> QED
  BY <1>6, <1>7, <1>8 DEF m, s, t

LEMMA WorkScopes ==
  ASSUME TypeOK, KeepsEnv
  PROVE  Scopes' = Scopes
<1>1. nCx' = nCx /\ cxstack' = cxstack
  BY DEF KeepsEnv, nCx
<1>2. \A j \in 1 .. nCx : EnvAt(j)' = EnvAt(j)
  BY <1>1 DEF EnvAt, PadAt, FlagsAt, TopicAt, DefavAt, MarksAt, CallsBelow
<1> QED
  BY <1>1, <1>2 DEF Scopes

LEMMA PromiseStep ==
  ASSUME TypeOK, Recorded, ScopesSaved, ScopesSaved', EnvStep
  PROVE  Promise!Enter \/ Promise!Leave \/ Promise!Work
<1> DEFINE opened == [i \in DOMAIN cxstack |-> EnvBefore(i)]
           now == Env
<1>1. opened = Scopes /\ opened' = Scopes'
  BY DEF ScopesSaved
<1>2. nCx \in Nat
  BY DEF TypeOK, nCx
<1>3. CASE \E c : RecordsEnv(c)
  <2>1. \A n : n = nCx + 1 => Scopes' = Append(Scopes, EnvAt(n)) /\ now = EnvAt(n)
    BY <1>3, RecordsScopes DEF ScopesSaved
  <2>2. opened' = Append(opened, now)
    BY <1>1, <2>1
  <2> QED
    BY <2>2 DEF Promise!Enter
<1>4. CASE RestoresEnv
  <2>1. /\ Len(Scopes) = nCx /\ Scopes # <<>>
        /\ Scopes' = SubSeq(Scopes, 1, Len(Scopes) - 1)
        /\ \A n : n = nCx => Scopes[Len(Scopes)] = EnvAt(n)'
    BY <1>4, RestoresScopes
  <2>2. nCx' + 1 = nCx
    BY <1>2, <1>4 DEF RestoresEnv
  <2>3. \A n : n = nCx => now' = EnvAt(n)'
    BY <2>2 DEF ScopesSaved
  <2>4. now' = Scopes[Len(Scopes)]
    BY <2>1, <2>3
  <2>5. opened # <<>> /\ now' = opened[Len(opened)] /\ opened' = SubSeq(opened, 1, Len(opened) - 1)
    BY <1>1, <2>1, <2>4
  <2> QED
    BY <2>5 DEF Promise!Leave
<1>5. CASE KeepsEnv
  <2>1. opened' = opened
    BY <1>1, <1>5, WorkScopes
  <2>2. DOMAIN now' = DOMAIN now /\ \A f \in DOMAIN now \ {"marks"} : now'[f] = now[f]
    BY <1>5 DEF KeepsEnv, interp, Env
  <2> QED
    BY <2>1, <2>2 DEF Promise!Work
<1> QED
  BY <1>3, <1>4, <1>5 DEF EnvStep

(* What a scope changes is restored however it is left: by its last op, by *)
(* return, by die through other scopes, callbacks and destructors (the     *)
(* cx_pop functions, die_unwind, POP_MULTICALL).                           *)
THEOREM CxKeepsScopes == Spec => KeepsScopes
<1>1. Init => [i \in DOMAIN cxstack |-> EnvBefore(i)] = <<>>
  BY DEF Init
<1>2. IInv /\ IInv' /\ [Next]_vars =>
        [Promise!Enter \/ Promise!Leave \/ Promise!Work]_<<Env, [i \in DOMAIN cxstack |-> EnvBefore(i)]>>
  <2> SUFFICES ASSUME IInv, IInv', [Next]_vars
               PROVE  Promise!Enter \/ Promise!Leave \/ Promise!Work
    OBVIOUS
  <2>1. EnvStep
    BY NextIInv
  <2>2. ScopesSaved
    BY ScopesAre
  <2>3. (IInv => ScopesSaved)'
    BY ScopesAre, PTL
  <2>4. ScopesSaved'
    BY <2>3
  <2>5. TypeOK /\ Recorded
    BY DEF IInv, Data
  <2> QED
    BY <2>1, <2>2, <2>4, <2>5, PromiseStep
<1> QED
  BY <1>1, <1>2, CxInvariant, PTL DEF Spec, KeepsScopes, Promise!Spec

=============================================================================
