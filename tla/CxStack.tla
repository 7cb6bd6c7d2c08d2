------------------------------ MODULE CxStack -------------------------------
(***************************************************************************)
(* The context stack of a perl interpreter: cx_pushblock, cx_pushsub, ...  *)
(* and their counterparts (CORE/inline.h), stackinfos, JMPENV and MULTICALL*)
(* (CORE/cop.h).                                                           *)
(*                                                                         *)
(* A scope is left in C code that first empties the savestack; freeing a   *)
(* variable there may run a destructor, a call of Perl code on a stackinfo *)
(* of its own, while the context is half left.  An XS function may run a   *)
(* Perl sub as a lightweight callback in a runloop of its own, which die   *)
(* leaves by longjmp.  cstack holds those C functions, innermost last.     *)
(***************************************************************************)
EXTENDS Integers, SequencesExt

CONSTANTS
  CVs,        \* the subs and formats
  Main,       \* in place of a CV: the main program
  MaxCx,      \* bound: contexts on all stackinfos together
  MaxSI,      \* bound: stackinfos
  MaxSaves,   \* bound: entries of the savestack
  MaxMarks    \* bound: marks

ASSUME MainAssumption == Main \notin CVs
ASSUME BoundsAssumption == {MaxCx, MaxSI, MaxSaves, MaxMarks} \subseteq Nat

VARIABLES
  cxstack,  \* the context stacks of all stackinfos, one after the other
  si,       \* the stackinfos, PL_curstackinfo last; base: contexts below it,
            \* frame: index in cstack of the C function that pushed it
  cstack,   \* the C functions that take part
  depth,    \* CvDEPTH
  refs,     \* refs[cv]: references to cv that contexts hold
  comppad,  \* PL_comppad: <<cv, depth>>
  in_eval,  \* PL_in_eval: 0, EVAL_INEVAL or with EVAL_KEEPERR
  topic,    \* GvSV(PL_defgv), a number for each SV that has been $_
  defav,    \* GvAV(PL_defgv), a number for each array that has been @_
  saves,    \* the savestack: the pads whose variables are to be cleared
  marks     \* length of PL_markstack

interp == <<depth, refs, comppad, in_eval, topic, defav>>
stacks == <<cxstack, si, cstack>>
vars == <<stacks, interp, saves, marks>>

EVAL_INEVAL == 1
EVAL_KEEPERR == 4

(* run: RUNOPS under a JMPENV; multicall: an XS function between           *)
(* PUSH_MULTICALL and POP_MULTICALL, on is TRUE while MULTICALL runs ops;  *)
(* leave: emptying the savestack down to to; die: unwinding.               *)
Frame(kind) == [kind |-> kind, mustcatch |-> FALSE, oldcatch |-> FALSE, on |-> FALSE, to |-> 0]

CFunction == [kind : {"run", "multicall", "leave", "die"}, mustcatch : BOOLEAN,
              oldcatch : BOOLEAN, on : BOOLEAN, to : Nat]

Subs  == {"SUB", "MULTI"}
Evals == {"EVAL", "TRY"}

Pad == (CVs \cup {Main}) \X Nat

EvalFlags == {0, EVAL_INEVAL, EVAL_INEVAL + EVAL_KEEPERR}

Context == [type : Subs \cup Evals \cup {"FORMAT", "LOOP"},
            oldsaveix : Nat, oldmarksp : Nat, cv : CVs \cup {Main}, olddepth : Nat,
            prevcomppad : Pad, old_cxsubix : Int, hasargs : BOOLEAN, savearray : Nat,
            old_in_eval : EvalFlags, cur_top_env : Nat, itersave : Nat, loop : Nat]

StackInfo == [base : Nat, cxsubix : Int, frame : Nat]

TypeOK ==
  /\ cxstack \in Seq(Context) /\ si \in Seq(StackInfo) /\ cstack \in Seq(CFunction)
  /\ depth \in [CVs -> Nat] /\ refs \in [CVs -> Nat]
  /\ comppad \in Pad /\ in_eval \in EvalFlags
  /\ topic \in Nat /\ defav \in Nat /\ marks \in Nat
  /\ saves \in Seq(Pad)

Init ==
  /\ cxstack = <<>>
  /\ si = <<[base |-> 0, cxsubix |-> -1, frame |-> 1]>>
  /\ cstack = <<Frame("run")>>
  /\ depth = [cv \in CVs |-> 0]
  /\ refs = [cv \in CVs |-> 0]
  /\ comppad = <<Main, 1>>
  /\ in_eval = 0
  /\ topic = 0 /\ defav = 0 /\ marks = 0
  /\ saves = <<>>

-----------------------------------------------------------------------------
Top == Last(cxstack)
cxstack_ix == Len(cxstack) - Last(si).base - 1

Code == Last(cstack)

(* A runloop whose stackinfo has no context left is one of a destructor    *)
(* that has died.                                                          *)
RunsOps == (Code.kind = "run" /\ (cxstack_ix >= 0 \/ Len(si) = 1)) \/ Code.on

TopEnv == CHOOSE i \in DOMAIN cstack :
            cstack[i].kind = "run" /\ \A j \in i + 1 .. Len(cstack) : cstack[j].kind # "run"
CATCH_GET == cstack[TopEnv].mustcatch
CATCH_SET(frames, v) == [frames EXCEPT ![TopEnv].mustcatch = v]

(* A new context: cx_pushblock fills the first line, the push function of  *)
(* its type what it uses of the rest.  The cop, the match, the scope stack *)
(* and the temps floor are saved and restored as the marks are.            *)
cx_pushblock(type) ==
  [type |-> type, oldsaveix |-> Len(saves), oldmarksp |-> marks,
   cv |-> Main, olddepth |-> 0, prevcomppad |-> comppad, old_cxsubix |-> Last(si).cxsubix,
   hasargs |-> FALSE, savearray |-> defav, old_in_eval |-> in_eval,
   cur_top_env |-> TopEnv, itersave |-> topic, loop |-> Len(cstack)]

SetSubix(stackinfos, ix) == [stackinfos EXCEPT ![Len(stackinfos)].cxsubix = ix]

push_stackinfo ==
  Append(si, [base |-> Len(cxstack), cxsubix |-> -1, frame |-> Len(cstack) + 1])

Room == Len(cxstack) < MaxCx

(* The pad of the next call; the fields that cx_pushsub sets.              *)
EnterCv(cv) ==
  /\ depth' = [depth EXCEPT ![cv] = @ + 1]
  /\ refs' = [refs EXCEPT ![cv] = @ + 1]
  /\ comppad' = <<cv, depth[cv] + 1>>

cx_pushsub(cv, hasargs) ==
  /\ RunsOps /\ Room
  /\ cxstack' = Append(cxstack, [cx_pushblock("SUB") EXCEPT
                                   !.cv = cv, !.olddepth = depth[cv], !.hasargs = hasargs])
  /\ si' = SetSubix(si, cxstack_ix + 1)
  /\ EnterCv(cv)
  /\ defav' = IF hasargs THEN Len(cxstack) + 1 ELSE defav
  /\ UNCHANGED <<cstack, in_eval, topic, saves, marks>>

cx_pushformat(cv) ==
  /\ RunsOps /\ Room
  /\ cxstack' = Append(cxstack, [cx_pushblock("FORMAT") EXCEPT !.cv = cv])
  /\ si' = SetSubix(si, cxstack_ix + 1)
  /\ EnterCv(cv)
  /\ UNCHANGED <<cstack, in_eval, topic, defav, saves, marks>>

(* Where eval ops must catch locally, docatch starts a JMPENV and a        *)
(* runloop for them.  try does not count as a caller.                      *)
cx_pusheval(type) ==
  /\ RunsOps /\ Room
  /\ LET frames == IF CATCH_GET THEN Append(cstack, Frame("run")) ELSE cstack
         env    == IF CATCH_GET THEN Len(cstack) + 1 ELSE TopEnv
     IN /\ cstack' = frames
        /\ cxstack' = Append(cxstack, [cx_pushblock(type) EXCEPT
                                         !.cur_top_env = env, !.loop = Len(frames)])
  /\ si' = IF type = "EVAL" THEN SetSubix(si, cxstack_ix + 1) ELSE si
  /\ in_eval' = EVAL_INEVAL
  /\ UNCHANGED <<depth, refs, comppad, topic, defav, saves, marks>>

(* foreach with $_, and given.                                             *)
cx_pushloop_for ==
  /\ RunsOps /\ Room
  /\ cxstack' = Append(cxstack, cx_pushblock("LOOP"))
  /\ topic' = Len(cxstack) + 1
  /\ UNCHANGED <<si, cstack, depth, refs, comppad, in_eval, defav, saves, marks>>

-----------------------------------------------------------------------------
(* The pop functions: what each context type restores.                     *)

(* Seeded bug: CvDEPTH is not restored.                                   *)
cx_popsub_common_Shallow(c) ==
  /\ comppad' = c.prevcomppad
  /\ refs' = [refs EXCEPT ![c.cv] = @ - 1]
  /\ UNCHANGED depth

cx_popsub_common(c) ==
  /\ comppad' = c.prevcomppad
  /\ depth' = [depth EXCEPT ![c.cv] = c.olddepth]
  /\ refs' = [refs EXCEPT ![c.cv] = @ - 1]

cx_popsub(c) ==
  /\ cx_popsub_common(c)
  /\ defav' = IF c.hasargs THEN c.savearray ELSE defav
  /\ UNCHANGED <<in_eval, topic>>

cx_popformat(c) ==
  /\ comppad' = c.prevcomppad
  /\ depth' = [depth EXCEPT ![c.cv] = @ - 1]
  /\ refs' = [refs EXCEPT ![c.cv] = @ - 1]
  /\ UNCHANGED <<in_eval, topic, defav>>

cx_popeval(c) ==
  /\ in_eval' = c.old_in_eval
  /\ UNCHANGED <<depth, refs, comppad, topic, defav>>

(* Seeded bug: the loop restores another topic than it saved.             *)
cx_poploop_Last(c) ==
  /\ topic' = Len(cxstack) - 1
  /\ UNCHANGED <<depth, refs, comppad, in_eval, defav>>

cx_poploop(c) ==
  /\ topic' = c.itersave
  /\ UNCHANGED <<depth, refs, comppad, in_eval, defav>>

PopOfType(c) ==
  \/ c.type \in Subs /\ cx_popsub(c)
  \/ c.type = "FORMAT" /\ cx_popformat(c)
  \/ c.type \in Evals /\ cx_popeval(c)
  \/ c.type = "LOOP" /\ cx_poploop(c)

(* Seeded bug: an eval does not restore si_cxsubix.                       *)
PoppedSubix_EvalsToo(c) == IF c.type \in {"LOOP"} \cup Evals THEN Last(si).cxsubix ELSE c.old_cxsubix

(* All types but the loops restore si_cxsubix.                             *)
PoppedSubix(c) == IF c.type = "LOOP" THEN Last(si).cxsubix ELSE c.old_cxsubix

cx_popblock(c) == marks' = c.oldmarksp

-----------------------------------------------------------------------------
(* Leaving a context, and unwinding.                                       *)

(* The op that ends the current scope, or return, which leaves the scopes  *)
(* inside the sub first.  A call_sv or MULTICALL ends differently.         *)
Outermost == cxstack_ix < (IF Len(si) = 1 THEN 0 ELSE 1)

LeaveOp ==
  /\ RunsOps
  /\ ~Outermost
  /\ cstack' = Append(cstack, [Frame("leave") EXCEPT !.to = Top.oldsaveix])
  /\ UNCHANGED <<cxstack, si, interp, saves, marks>>

die ==
  /\ RunsOps
  /\ \E i \in DOMAIN cxstack : cxstack[i].type \in Evals
  /\ cstack' = Append(cstack, Frame("die"))
  /\ UNCHANGED <<cxstack, si, interp, saves, marks>>

(* CX_LEAVE_SCOPE: one entry of the savestack.                             *)
ClearSV ==
  /\ Code.kind = "leave" /\ Len(saves) > Code.to
  /\ saves' = Front(saves)
  /\ UNCHANGED <<stacks, interp, marks>>

(* A cleared variable or @_ held the last reference to an object: call_sv  *)
(* with G_EVAL | G_KEEPERR runs its DESTROY.                               *)
CallDestructor ==
  /\ Code.kind = "leave"
  /\ Room /\ Len(si) < MaxSI
  /\ LET frames == Append(cstack, Frame("run"))
         c == [cx_pushblock("EVAL") EXCEPT
                 !.cur_top_env = Len(frames), !.loop = Len(frames), !.old_cxsubix = -1]
     IN /\ cstack' = frames
        /\ cxstack' = Append(cxstack, c)
  /\ si' = SetSubix(push_stackinfo, 0)
  /\ in_eval' = EVAL_INEVAL + EVAL_KEEPERR
  /\ UNCHANGED <<depth, refs, comppad, topic, defav, saves, marks>>

(* This is the scope that POP_MULTICALL leaves.                            *)
EndsMulticall ==
  cstack[Len(cstack) - 1].kind = "multicall" /\ ~cstack[Len(cstack) - 1].on

(* The savestack is down: pop the context.  For die the eval that catches  *)
(* is the last one: JMPENV_JUMP to the JMPENV it was entered under, whose  *)
(* JMPENV_PUSH clears je_mustcatch once more.                              *)
Caught == Top.type \in Evals /\ cstack[Len(cstack) - 1].kind = "die"

PopContext ==
  /\ Code.kind = "leave" /\ Len(saves) = Code.to
  /\ ~EndsMulticall
  /\ PopOfType(Top)
  /\ cx_popblock(Top)
  /\ cxstack' = Front(cxstack)
  /\ si' = SetSubix(si, PoppedSubix(Top))
  /\ cstack' = IF Caught
               THEN [SubSeq(cstack, 1, Top.cur_top_env) EXCEPT
                       ![Top.cur_top_env].mustcatch = FALSE]
               ELSE Front(cstack)
  /\ UNCHANGED saves

(* die_unwind: dounwind one context after the other; POPSTACK once a       *)
(* stackinfo is empty.                                                     *)
Unwind ==
  /\ Code.kind = "die"
  /\ IF cxstack_ix < 0
     THEN si' = Front(si) /\ UNCHANGED cstack
     ELSE /\ cstack' = Append(cstack, [Frame("leave") EXCEPT !.to = Top.oldsaveix])
          /\ UNCHANGED si
  /\ UNCHANGED <<cxstack, interp, saves, marks>>

(* The destructor has returned, or died: its eval is gone then.            *)
EndDestructor ==
  /\ Code.kind = "run" /\ Len(cstack) > 1
  /\ cstack[Len(cstack) - 1].kind = "leave"
  /\ \/ /\ cxstack_ix < 0
        /\ UNCHANGED <<cxstack, interp, marks>>
     \/ /\ cxstack_ix = 0 /\ Len(saves) = Top.oldsaveix
        /\ cx_popeval(Top) /\ cx_popblock(Top)
        /\ cxstack' = Front(cxstack)
  /\ si' = Front(si)
  /\ cstack' = Front(cstack)
  /\ UNCHANGED saves

-----------------------------------------------------------------------------
(* MULTICALL                                                               *)

PUSH_MULTICALL(cv) ==
  /\ RunsOps /\ Room /\ Len(si) < MaxSI
  /\ cstack' = Append(CATCH_SET(cstack, TRUE), [Frame("multicall") EXCEPT !.oldcatch = CATCH_GET])
  /\ cxstack' = Append(cxstack, [cx_pushblock("MULTI") EXCEPT
                                   !.cv = cv, !.olddepth = depth[cv], !.old_cxsubix = -1])
  /\ si' = SetSubix(push_stackinfo, 0)
  /\ EnterCv(cv)
  /\ UNCHANGED <<in_eval, topic, defav, saves, marks>>

MULTICALL ==
  /\ Code.kind = "multicall" /\ ~Code.on
  /\ cstack' = [cstack EXCEPT ![Len(cstack)].on = TRUE]
  /\ UNCHANGED <<cxstack, si, interp, saves, marks>>

(* The last op of the callback ends the runloops of its docatch calls and  *)
(* the one of MULTICALL.                                                   *)
EndOfCallback ==
  /\ RunsOps
  /\ IF cxstack_ix = 0 THEN Top.type = "MULTI" ELSE FALSE
  /\ LET call == CHOOSE i \in DOMAIN cstack :
                   cstack[i].kind = "multicall" /\ \A j \in i + 1 .. Len(cstack) : cstack[j].kind = "run"
     IN cstack' = [SubSeq(cstack, 1, call) EXCEPT ![call].on = FALSE]
  /\ UNCHANGED <<cxstack, si, interp, saves, marks>>

(* Seeded bug: the savestack is not emptied.                              *)
POP_MULTICALL_KeepsScope ==
  /\ Code.kind = "multicall" /\ ~Code.on
  /\ cstack' = Append(cstack, [Frame("leave") EXCEPT !.to = Len(saves)])
  /\ UNCHANGED <<cxstack, si, interp, saves, marks>>

(* CX_LEAVE_SCOPE begins, with its destructors.                            *)
POP_MULTICALL ==
  /\ Code.kind = "multicall" /\ ~Code.on
  /\ cstack' = Append(cstack, [Frame("leave") EXCEPT !.to = Top.oldsaveix])
  /\ UNCHANGED <<cxstack, si, interp, saves, marks>>

(* Seeded bug: CATCH is not restored.                                     *)
EndMulticall_KeepsCatch ==
  /\ Code.kind = "leave" /\ Len(saves) = Code.to
  /\ EndsMulticall
  /\ cx_popsub_common(Top) /\ cx_popblock(Top)
  /\ cxstack' = Front(cxstack) /\ si' = Front(si)
  /\ cstack' = CATCH_SET(SubSeq(cstack, 1, Len(cstack) - 2), FALSE)
  /\ UNCHANGED <<in_eval, topic, defav, saves>>

(* The rest of POP_MULTICALL, once the savestack is down.                  *)
EndMulticall ==
  /\ Code.kind = "leave" /\ Len(saves) = Code.to
  /\ EndsMulticall
  /\ cx_popsub_common(Top) /\ cx_popblock(Top)
  /\ cxstack' = Front(cxstack) /\ si' = Front(si)
  /\ cstack' = CATCH_SET(SubSeq(cstack, 1, Len(cstack) - 2), cstack[Len(cstack) - 1].oldcatch)
  /\ UNCHANGED <<in_eval, topic, defav, saves>>

-----------------------------------------------------------------------------
(* my: SAVEt_CLEARSV names a slot of whatever pad is current when the      *)
(* entry is undone.                                                        *)
SAVECLEARSV ==
  /\ RunsOps /\ Len(saves) < MaxSaves
  /\ saves' = Append(saves, comppad)
  /\ UNCHANGED <<stacks, interp, marks>>

PUSHMARK ==
  /\ RunsOps /\ marks < MaxMarks
  /\ marks' = marks + 1
  /\ UNCHANGED <<stacks, interp, saves>>

POPMARK ==
  /\ RunsOps /\ marks > (IF cxstack = <<>> THEN 0 ELSE Top.oldmarksp)
  /\ marks' = marks - 1
  /\ UNCHANGED <<stacks, interp, saves>>

Next ==
  \/ \E cv \in CVs :
       \/ \E hasargs \in BOOLEAN : cx_pushsub(cv, hasargs)
       \/ cx_pushformat(cv) \/ PUSH_MULTICALL(cv)
  \/ \E type \in Evals : cx_pusheval(type)
  \/ cx_pushloop_for
  \/ LeaveOp \/ die \/ ClearSV \/ CallDestructor \/ PopContext \/ Unwind \/ EndDestructor
  \/ MULTICALL \/ EndOfCallback \/ POP_MULTICALL \/ EndMulticall
  \/ SAVECLEARSV \/ PUSHMARK \/ POPMARK

Spec == Init /\ [][Next]_vars

-----------------------------------------------------------------------------
(* gimme_V, caller and return find the current sub, eval or format in      *)
(* si_cxsubix: on every stackinfo it is the index of the topmost one, and  *)
(* a try block is none.                                                    *)
CallerKnown ==
  \A i \in DOMAIN si :
    LET end     == IF i = Len(si) THEN Len(cxstack) ELSE si[i + 1].base
        callers == {j \in si[i].base + 1 .. end : cxstack[j].type \notin {"LOOP", "TRY"}}
    IN si[i].cxsubix = IF callers = {} THEN -1 ELSE Max(callers) - si[i].base - 1

(* CvDEPTH says how many calls of a sub or format are going on, recursive  *)
(* calls, callbacks and destructors included, and each of them keeps it    *)
(* alive with one reference.                                               *)
CvAccounted ==
  \A cv \in CVs :
    /\ depth[cv] = Cardinality({i \in DOMAIN cxstack : cxstack[i].cv = cv})
    /\ refs[cv] = depth[cv]

(* A my variable is cleared while the pad it lives in is current, although *)
(* the entry on the savestack names no pad.                                *)
ClearsOwnPad == [][Len(saves') < Len(saves) => Last(saves) = comppad]_vars

(* die resumes in the runloop that was running when the eval was entered:  *)
(* no runloop of a callback lies between them that longjmp would skip and  *)
(* whose ops the wrong runloop would go on with.                           *)
CatchesInPlace ==
  \A c \in ToSet(cxstack) :
    c.type \in Evals =>
      /\ c.cur_top_env = c.loop
      /\ c.loop <= Len(cstack) /\ cstack[c.loop].kind = "run"

(* However scopes are left - at their end, by return, by die through other *)
(* scopes, callbacks and destructors - what they had changed is restored.  *)
(* Each context saves only what its type changes: what else was in force   *)
(* when it was entered is what the contexts above it have saved, or is     *)
(* still in force.                                                         *)
Env == [pad |-> comppad, depth |-> depth, in_eval |-> in_eval, topic |-> topic,
        defav |-> defav, marks |-> marks]

(* What was in force when context i was entered: what the first of the     *)
(* contexts from i on that has saved it holds, or what is in force still.  *)
Saved(i, savers, field, now) ==
  LET later == {j \in i .. Len(cxstack) : j \in savers}
  IN IF later = {} THEN now ELSE cxstack[Min(later)][field]

Calls(cv, i) == {j \in i .. Len(cxstack) : cxstack[j].cv = cv}

EnvBefore(i) ==
  LET Savers(Saves(_)) == {j \in DOMAIN cxstack : Saves(cxstack[j])}
  IN [pad     |-> Saved(i, Savers(LAMBDA c : c.cv # Main), "prevcomppad", comppad),
      depth   |-> [cv \in CVs |-> depth[cv] - Cardinality(Calls(cv, i))],
      in_eval |-> Saved(i, Savers(LAMBDA c : c.type \in Evals), "old_in_eval", in_eval),
      topic   |-> Saved(i, Savers(LAMBDA c : c.type = "LOOP"), "itersave", topic),
      defav   |-> Saved(i, Savers(LAMBDA c : c.hasargs), "savearray", defav),
      marks   |-> cxstack[i].oldmarksp]

Promise == INSTANCE ScopePromise WITH
  env <- Env, saved <- [i \in DOMAIN cxstack |-> EnvBefore(i)]
KeepsScopes == Promise!Spec

=============================================================================
