---------------------------- MODULE RebaseProofs ----------------------------
(***************************************************************************)
(* Theorems about Rebase for every set of objects.                         *)
(***************************************************************************)
EXTENDS Rebase, TLAPS

(***************************************************************************)
(* The inductive invariant, in parts.                                      *)
(***************************************************************************)
InFiles == pc \in FileSteps

(* Control and shell variables.                                            *)
Control ==
  /\ ~InFiles => at = "dyn"
  /\ pc # "append" => found = {}
  /\ run.full => run.rebuild
  /\ pc \in {"idle", "mode"} => ~run.rebuild
  /\ pc = "full" => ~run.full
  /\ (run.full /\ pc # "idle") => "fullrebase.done" \notin flags

(* The caches name what their suffix filters let pass.                     *)
Passes == [dyn |-> Coverable \ Packaged, dyn_exe |-> Exes,
           pkg |-> Packaged, lst |-> Packaged \ Exes, exe |-> Exes]
Contents ==
  /\ \A c \in Caches : cache[c] \subseteq Passes[c]
  /\ pc = "append" => found \subseteq Passes[at]

(* The search of cache file c, which autorebase is at, will find x.        *)
Chain(c, x) ==
  /\ pc = "rm" => run.rebuild \/ c \notin there \/ x \in newer[c]
  /\ pc = "touch" => c \notin there \/ x \in newer[c]
  /\ pc = "mv" => x \in newer[c]
  /\ pc \in {"head", "scan"} => x \in newerOld[c]

(* How far an advertised object has come on its way to the list of rebase: *)
(* to rebase_dyn ...                                                       *)
OnDyn(o) ==
  /\ (InFiles /\ at = "dyn") =>
       /\ o \in Searched => Chain("dyn", o)
       /\ pc = "append" => o \in found
  /\ ((InFiles /\ at # "dyn") \/ pc \in {"clear", "rebase"}) => o \in cache["dyn"]

(* ... and an installed one, through rebase_pkg to rebase_lst.             *)
OnLst(o) ==
  /\ (InFiles /\ at \in {"dyn", "dyn_exe"}) =>
       run.rebuild \/ "pkg" \notin there \/ o \in newer["pkg"]
  /\ (InFiles /\ at = "pkg") =>
       /\ Chain("pkg", o)
       /\ pc \in {"scan", "append"} => "pkg" \in newer["lst"]
       /\ pc = "append" => o \in found
  /\ (InFiles /\ at = "lst") =>
       /\ o \in cache["pkg"]
       /\ pc \in {"rm", "touch", "mv"} => "pkg" \in newer["lst"]
       /\ pc \in {"head", "scan"} => "pkg" \in newerOld["lst"]
       /\ pc = "append" => o \in found
  /\ ((InFiles /\ at = "exe") \/ pc \in {"clear", "rebase"}) => o \in cache["lst"]

OnWay(o) == IF o \in Packaged THEN OnLst(o) ELSE OnDyn(o)

Mapped == {"flags", "done"}

(* Whatever runs meanwhile and wherever scripts are killed, a run from     *)
(* scratch maps what it owes, and nothing leaves the map behind the back   *)
(* of a pending full rebase.                                               *)
OwedInv ==
  /\ (run.rebuild /\ ~Early /\ pc \notin Mapped) => \A o \in owed \cap Coverable : OnWay(o)
  /\ (run.rebuild /\ pc \in Mapped) => owed \cap Coverable \subseteq mapped
OnceInv ==
  /\ mapped \subseteq once /\ once \subseteq Coverable
  /\ pc \notin {"idle"} \cup Mapped => once \subseteq owed
  /\ pc \in Mapped => once \subseteq owed \cup mapped

IInv == TypeOK /\ Control /\ Contents /\ OwedInv /\ OnceInv /\ StaysMapped

(* An object that no kill, failure or live build came between is in the    *)
(* map or on the way to it.                                                *)
StampDue(o) ==
  LET c == IF o \in Packaged THEN "pkg" ELSE "dyn"
  IN  "fullrebase.done" \notin flags \/ o \in Listed \/ c \notin there \/ o \in newer[c]
TrackInv ==
  \A o \in present \cap Coverable :
    \/ o \in missed
    \/ o \in mapped /\ (run.full => pc \in Mapped)
    \/ /\ pc \notin Mapped
       /\ Early => StampDue(o)
       /\ OnWay(o)
-----------------------------------------------------------------------------
(* Types and contents *)

LEMMA Shapes ==
  ASSUME TypeOK, NEW c \in Caches
  PROVE  /\ [newer EXCEPT ![c] = {}] \in [Caches -> SUBSET Things]
         /\ \A x \in Things : /\ Later(newer, x) \in [Caches -> SUBSET Things]
                              /\ Later(newerOld, x) \in [Caches -> SUBSET Things]
  BY DEF TypeOK, Later

LEMMA WrittenType ==
  ASSUME TypeOK, NEW c \in Caches, Written(c)
  PROVE  newer' \in [Caches -> SUBSET Things] /\ newerOld' \in [Caches -> SUBSET Things]
<1>1. "pkg" \in Things
  BY DEF Things
<1> DEFINE f == IF c = "pkg" THEN Later(newer, "pkg") ELSE newer
<1>2. f \in [Caches -> SUBSET Things]
  BY <1>1, Shapes DEF TypeOK
<1>3. newer' = [f EXCEPT ![c] = {}]
  BY DEF Written
<1>4. newer' \in [Caches -> SUBSET Things]
  <2> HIDE DEF f
  <2> QED
    BY <1>2, <1>3
<1>5. newerOld' \in [Caches -> SUBSET Things]
  BY <1>1, Shapes DEF TypeOK, Written
<1> QED
  BY <1>4, <1>5

LEMMA FoundPasses ==
  ASSUME TypeOK, Contents, NEW c \in Caches
  PROVE  Found(c) \subseteq Passes[c]
<1>1. Passes["dyn"] = Coverable \ Packaged /\ Passes["dyn_exe"] = Exes /\ Passes["pkg"] = Packaged
      /\ Passes["lst"] = Packaged \ Exes /\ Passes["exe"] = Exes
  BY DEF Passes
<1>2. cache["pkg"] \subseteq Packaged
  BY <1>1 DEF Contents, Caches
<1>3. CASE c = "dyn"
  BY <1>1, <1>3, KindsAssumption DEF Found, Search, Coverable, Objects
<1>4. CASE c = "dyn_exe"
  BY <1>1, <1>4 DEF Found, Search
<1>5. CASE c = "pkg"
  BY <1>1, <1>5 DEF Found, Search
<1>6. CASE c = "lst"
  BY <1>1, <1>2, <1>6 DEF Found, Search
<1>7. CASE c = "exe"
  BY <1>1, <1>7 DEF Found, Search
<1> QED
  BY <1>3, <1>4, <1>5, <1>6, <1>7 DEF Caches

LEMMA PassesObjects ==
  /\ Passes \in [Caches -> SUBSET Objects]
  /\ Passes["dyn"] \cup Passes["lst"] \subseteq Coverable
  /\ Passes["dyn_exe"] \subseteq Exes
  /\ Coverable \subseteq Objects \ Exes
<1>1. Exes \subseteq Objects /\ Packaged \subseteq Objects /\ Coverable \subseteq Objects \ Exes
  BY KindsAssumption DEF Coverable, Objects
<1>2. Packaged \ Exes \subseteq Coverable
  BY KindsAssumption DEF Coverable, Objects
<1> QED
  BY <1>1, <1>2 DEF Passes, Caches

LEMMA RebaseAllCoverable ==
  ASSUME TypeOK, Contents
  PROVE  RebaseAll \subseteq Coverable \cap present
  BY PassesObjects DEF RebaseAll, Contents, Caches

LEMMA TypeStep ==
  ASSUME TypeOK, Contents, Control, [Next]_vars
  PROVE  TypeOK' /\ Contents' /\ Control'
<1> USE DEF TypeOK, Steps, FileSteps, NoRun, Control, InFiles
<1>1. ASSUME NEW o \in Objects, Build(o)
      PROVE  TypeOK' /\ Contents' /\ Control'
  <2>1. o \in Things
    BY DEF Things
  <2>2. newer' \in [Caches -> SUBSET Things] /\ newerOld' \in [Caches -> SUBSET Things]
    BY <1>1, <2>1, Shapes DEF Build, Caches
  <2> QED
    BY <1>1, <2>2 DEF Build, shell, Contents
<1>2. ASSUME NEW m \in Modes, TriggerRebuild(m)
      PROVE  TypeOK' /\ Contents' /\ Control'
  <2>1. flags' \subseteq flags /\ trig' \in Modes /\ UNCHANGED <<objects, files, shell, crashes, owed, once, missed>>
    BY <1>2 DEF TriggerRebuild
  <2>2. UNCHANGED <<present, mapped, flagged, there, cache, newer, newerOld, pc, at, run, found>>
    BY <2>1 DEF objects, files, shell
  <2>3. flags' \subseteq Flags /\ ("fullrebase.done" \notin flags => "fullrebase.done" \notin flags')
    BY <2>1
  <2>4. TypeOK'
    BY <2>1, <2>2, <2>3
  <2>5. Contents'
    BY <2>1, <2>2 DEF Contents
  <2>6. Control'
    BY <2>1, <2>2, <2>3
  <2> QED
    BY <2>4, <2>5, <2>6
<1>3. CASE TriggerRebuildSet
  BY <1>3, ModesAssumption DEF TriggerRebuildSet, objects, files, shell, Flags, ModeFlags, Contents
<1>4. CASE TriggerFullrebase
  BY <1>4 DEF TriggerFullrebase, objects, files, shell, Flags, Contents
<1>5. CASE TriggerPeflags
  BY <1>5 DEF TriggerPeflags, objects, files, shell, Flags, Contents
<1>6. CASE Preremove
  BY <1>6 DEF Preremove, objects, shell, Flags, Contents, Caches
<1>7. CASE Crash
  BY <1>7, BoundsAssumption DEF Crash, objects, files, Contents, Caches
<1>8. CASE ReadPeflags
  <2>1. /\ run'.rebuild = FALSE /\ run'.full = FALSE
        /\ run' \in [rebuild : BOOLEAN, full : BOOLEAN, peflags : BOOLEAN]
    <3>1. CASE "peflags" \in flags
      <4>1. run' = [NoRun EXCEPT !.peflags = TRUE]
        BY <1>8, <3>1 DEF ReadPeflags
      <4> QED
        BY <4>1
    <3>2. CASE "peflags" \notin flags
      <4>1. ("peflags" \in flags) = FALSE
        BY <3>2
      <4>2. run' = [NoRun EXCEPT !.peflags = FALSE]
        BY <1>8, <4>1, Zenon DEF ReadPeflags
      <4> QED
        BY <4>2
    <3> QED
      BY <3>1, <3>2
  <2> QED
    BY <1>8, <2>1 DEF ReadPeflags, objects, files, Contents
<1>9. CASE ReadMode
  <2>1. run' = [run EXCEPT !.rebuild = TRUE] \/ run' = [run EXCEPT !.rebuild = FALSE]
    BY <1>9 DEF ReadMode
  <2>2. run' \in [rebuild : BOOLEAN, full : BOOLEAN, peflags : BOOLEAN] /\ run'.full = run.full
    BY <2>1
  <2> QED
    BY <1>9, <2>2 DEF ReadMode, objects, files, Contents, Flags, ModeFlags
<1>10. CASE ReadFull
  <2>1. /\ UNCHANGED <<objects, files, at, found, trig, crashes, owed, once>>
        /\ pc = "full" /\ pc' = "rm" /\ missed' \subseteq missed
    BY <1>10 DEF ReadFull
  <2>2. CASE "fullrebase.done" \notin flags
    <3>1. flags' = flags \cup {"fullrebase"} /\ run' = [run EXCEPT !.full = TRUE, !.rebuild = TRUE]
      BY <1>10, <2>2 DEF ReadFull
    <3>2. run' \in [rebuild : BOOLEAN, full : BOOLEAN, peflags : BOOLEAN] /\ run'.rebuild
      BY <3>1
    <3> QED
      BY <2>1, <2>2, <3>1, <3>2 DEF objects, files, Contents, Flags
  <2>3. CASE "fullrebase.done" \in flags
    BY <1>10, <2>1, <2>3 DEF ReadFull, objects, files, Contents
  <2> QED
    BY <2>2, <2>3
<1>11. CASE Remove
  BY <1>11 DEF Remove, objects, Contents
<1>12. CASE Touch
  <2>1. present \cup ({"pkg"} \ {at}) \in SUBSET Things
    BY DEF Things
  <2>2. newer' \in [Caches -> SUBSET Things]
    BY <1>12, <2>1 DEF Touch, files
  <2>3. /\ cache' \in [Caches -> SUBSET Objects] /\ there' \subseteq Caches
        /\ \A c \in Caches : cache'[c] \subseteq cache[c]
    BY <1>12 DEF Touch, files
  <2> QED
    BY <1>12, <2>2, <2>3 DEF Touch, objects, files, Contents
<1>13. CASE Move
  BY <1>13 DEF Move, objects, Contents
<1>14. CASE Head
  <2>1. newer' \in [Caches -> SUBSET Things] /\ newerOld' \in [Caches -> SUBSET Things]
    BY <1>14, WrittenType DEF Head
  <2>2. /\ cache' \in [Caches -> SUBSET Objects] /\ there' \subseteq Caches
        /\ \A c \in Caches : cache'[c] \subseteq cache[c]
    BY <1>14 DEF Head
  <2> QED
    BY <1>14, <2>1, <2>2 DEF Head, objects, Contents
<1>15. CASE Scan
  <2>1. found' \subseteq Passes[at]
    BY <1>15, FoundPasses DEF Scan
  <2>2. found' \subseteq Objects
    BY <2>1, PassesObjects
  <2> QED
    BY <1>15, <2>1, <2>2 DEF Scan, objects, files, Contents
<1>16. CASE Append
  <2>1. newer' \in [Caches -> SUBSET Things] /\ newerOld' \in [Caches -> SUBSET Things]
    BY <1>16, WrittenType DEF Append
  <2>2. cache' \in [Caches -> SUBSET Objects] /\ \A c \in Caches : cache'[c] \subseteq Passes[c]
    BY <1>16 DEF Append, Contents
  <2>3. at' \in Caches /\ pc' \in {"clear", "rm"}
    BY <1>16 DEF Append, Caches, Following
  <2> QED
    BY <1>16, <2>1, <2>2, <2>3 DEF Append, objects, Contents
<1>17. CASE ClearDb
  BY <1>17 DEF ClearDb, files, Contents
<1>18. CASE DoRebase
  BY <1>18, RebaseAllCoverable, PassesObjects DEF DoRebase, files, Contents
<1>19. CASE RebaseFails
  BY <1>19 DEF RebaseFails, objects, files, Contents
<1>20. CASE DoPeflags
  <2>1. cache["dyn_exe"] \subseteq Exes
    BY PassesObjects DEF Contents, Caches
  <2> QED
    BY <1>20, <2>1 DEF DoPeflags, files, Contents
<1>21. CASE Finish
  BY <1>21 DEF Finish, objects, files, Contents, Flags
<1>22. CASE UNCHANGED vars
  BY <1>22 DEF vars, objects, files, shell, Contents
<1> QED
  BY <1>1, <1>2, <1>3, <1>4, <1>5, <1>6, <1>7, <1>8, <1>9, <1>10, <1>11, <1>12, <1>13,
     <1>14, <1>15, <1>16, <1>17, <1>18, <1>19, <1>20, <1>21, <1>22 DEF Next, Autorebase

LEMMA TypeInit == Init => TypeOK /\ Contents /\ Control
  BY BoundsAssumption DEF Init, TypeOK, Contents, Control, InFiles, Steps, FileSteps, NoRun, Caches

(* Every variable stays in its type: in particular only objects that exist *)
(* and have a suffix rebase knows are ever in the map.                     *)
THEOREM TypeCorrect == Spec => []TypeOK
<1>1. TypeOK /\ Contents /\ Control /\ [Next]_vars => (TypeOK /\ Contents /\ Control)'
  BY TypeStep
<1> QED
  BY <1>1, TypeInit, PTL DEF Spec

-----------------------------------------------------------------------------
(* The way of an object to the list of rebase *)

LEMMA WrittenEffect ==
  ASSUME TypeOK, NEW c \in Caches, Written(c)
  PROVE  /\ \A d \in Caches : newerOld[d] \subseteq newerOld'[d]
         /\ \A d \in Caches \ {c} : newer[d] \subseteq newer'[d]
         /\ c = "pkg" => \A d \in Caches \ {c} : "pkg" \in newer'[d]
  BY DEF Written, Later, TypeOK

LEMMA FoundDyn ==
  ASSUME TypeOK, NEW o \in present \cap Coverable, o \notin Packaged,
         o \in Searched => o \in newerOld["dyn"]
  PROVE  o \in Found("dyn")
<1>1. o \in Searched \/ o \in Listed
  BY DEF Coverable, Objects
<1>2. Searched # {} /\ o \notin Exes
  BY <1>1 DEF Coverable
<1> QED
  BY <1>1, <1>2 DEF Found, Search

LEMMA FoundPkg ==
  ASSUME TypeOK, NEW o \in present \cap Packaged, o \in newerOld["pkg"]
  PROVE  o \in Found("pkg")
  BY DEF Found, Search

LEMMA FoundLst ==
  ASSUME TypeOK, NEW o \in cache["pkg"] \ Exes, "pkg" \in newerOld["lst"]
  PROVE  o \in Found("lst")
  BY DEF Found, Search

(* The steps between the choice of the mode and the end of rebase.         *)
Working == Remove \/ Touch \/ Move \/ Head \/ Scan \/ Append \/ ClearDb

LEMMA WayDyn ==
  ASSUME TypeOK, Control, NEW o \in present \cap Coverable, o \notin Packaged, OnDyn(o), Working
  PROVE  OnDyn(o)'
<1> USE DEF OnDyn, InFiles, FileSteps, Chain
<1>1. CASE Remove
  BY <1>1 DEF Remove, TypeOK
<1>2. CASE Touch
  <2>1. CASE at \in there
    BY <1>2, <2>1 DEF Touch, files
  <2>2. CASE at \notin there
    <3>1. newer' = [newer EXCEPT ![at] = present \cup ({"pkg"} \ {at})]
          /\ cache' = [cache EXCEPT ![at] = {}] /\ there' = there \cup {at}
          /\ UNCHANGED <<newerOld, at, run, found>> /\ pc = "touch" /\ pc' = "mv"
      BY <1>2, <2>2 DEF Touch
    <3>2. newer'[at] = present \cup ({"pkg"} \ {at})
          /\ \A d \in Caches \ {at} : newer'[d] = newer[d] /\ cache'[d] = cache[d]
      BY <3>1 DEF TypeOK
    <3> QED
      BY <3>1, <3>2 DEF Caches
  <2> QED
    BY <2>1, <2>2
<1>3. CASE Move
  BY <1>3 DEF Move, TypeOK
<1>4. CASE Head
  <2>1. \A d \in Caches : newerOld[d] \subseteq newerOld'[d]
    BY <1>4, WrittenEffect DEF Head, TypeOK
  <2> QED
    BY <1>4, <2>1 DEF Head, TypeOK, Caches
<1>5. CASE Scan
  BY <1>5, FoundDyn DEF Scan, files
<1>6. CASE Append
  <2>1. cache'["dyn"] = IF at = "dyn" THEN found ELSE cache["dyn"]
    BY <1>6 DEF Append, TypeOK, Caches
  <2>2. o \in cache'["dyn"]
    BY <1>6, <2>1 DEF Append
  <2>3. pc' = "clear" \/ (pc' = "rm" /\ at' # "dyn")
    BY <1>6 DEF Append, TypeOK, Caches, Following
  <2> QED
    BY <2>2, <2>3
<1>7. CASE ClearDb
  BY <1>7 DEF ClearDb, files
<1> QED
  BY <1>1, <1>2, <1>3, <1>4, <1>5, <1>6, <1>7 DEF Working

LEMMA WayLst ==
  ASSUME TypeOK, Control, NEW o \in present \cap Coverable, o \in Packaged, OnLst(o), Working
  PROVE  OnLst(o)'
<1> USE DEF OnLst, InFiles, FileSteps, Chain
<1>1. CASE Remove
  BY <1>1 DEF Remove, TypeOK
<1>2. CASE Touch
  <2>1. CASE at \in there
    BY <1>2, <2>1 DEF Touch, files
  <2>2. CASE at \notin there
    <3>1. newer' = [newer EXCEPT ![at] = present \cup ({"pkg"} \ {at})]
          /\ cache' = [cache EXCEPT ![at] = {}] /\ there' = there \cup {at}
          /\ UNCHANGED <<newerOld, at, run, found>> /\ pc = "touch" /\ pc' = "mv"
      BY <1>2, <2>2 DEF Touch
    <3>2. newer'[at] = present \cup ({"pkg"} \ {at})
          /\ \A d \in Caches \ {at} : newer'[d] = newer[d] /\ cache'[d] = cache[d]
      BY <3>1 DEF TypeOK
    <3> QED
      BY <3>1, <3>2 DEF Caches
  <2> QED
    BY <2>1, <2>2
<1>3. CASE Move
  BY <1>3 DEF Move, TypeOK, Caches
<1>4. CASE Head
  <2>1. /\ \A d \in Caches : newerOld[d] \subseteq newerOld'[d]
        /\ \A d \in Caches \ {at} : newer[d] \subseteq newer'[d]
        /\ at = "pkg" => "pkg" \in newer'["lst"]
    BY <1>4, WrittenEffect DEF Head, TypeOK, Caches
  <2>2. \A d \in Caches \ {at} : cache'[d] = cache[d]
    BY <1>4 DEF Head, TypeOK
  <2> QED
    BY <1>4, <2>1, <2>2 DEF Head, Caches
<1>5. CASE Scan
  <2>1. o \notin Exes
    BY DEF Coverable
  <2> QED
    BY <1>5, <2>1, FoundPkg, FoundLst DEF Scan, files
<1>6. CASE Append
  <2>1. \A d \in Caches : cache'[d] = IF at = d THEN found ELSE cache[d]
    BY <1>6 DEF Append, TypeOK
  <2>2. \A d \in Caches \ {at} : newer[d] \subseteq newer'[d]
    BY <1>6, WrittenEffect DEF Append, TypeOK
  <2>3. /\ pc = "append" /\ UNCHANGED <<there, run>>
        /\ at = "exe" => pc' = "clear"
        /\ at # "exe" => pc' = "rm" /\ at' = Following[at]
    BY <1>6 DEF Append
  <2>4. CASE at = "dyn"
    BY <2>1, <2>2, <2>3, <2>4 DEF Following, Caches
  <2>5. CASE at = "dyn_exe"
    BY <2>1, <2>2, <2>3, <2>5 DEF Following, Caches
  <2>6. CASE at = "pkg"
    BY <2>1, <2>2, <2>3, <2>6 DEF Following, Caches
  <2>7. CASE at = "lst"
    BY <2>1, <2>2, <2>3, <2>7 DEF Following, Caches
  <2>8. CASE at = "exe"
    BY <2>1, <2>2, <2>3, <2>8 DEF Following, Caches
  <2> QED
    BY <2>4, <2>5, <2>6, <2>7, <2>8 DEF TypeOK, Caches
<1>7. CASE ClearDb
  BY <1>7 DEF ClearDb, files
<1> QED
  BY <1>1, <1>2, <1>3, <1>4, <1>5, <1>6, <1>7 DEF Working

(* What autorebase has found or will find, it keeps.                       *)
LEMMA WayStep ==
  ASSUME TypeOK, Control, NEW o \in present \cap Coverable, OnWay(o), Working
  PROVE  OnWay(o)'
  BY WayDyn, WayLst DEF OnWay

(* What others do meanwhile takes no other object off the way.             *)
LEMMA WayOthers ==
  ASSUME TypeOK, NEW o \in present, OnWay(o), UNCHANGED <<there, cache, shell>>,
         \A c \in Caches : newer[c] \subseteq newer'[c] /\ newerOld[c] \subseteq newerOld'[c]
  PROVE  OnWay(o)'
  BY DEF OnWay, OnDyn, OnLst, InFiles, Chain, shell, Caches

(* What is on the way when rebase starts is on its list.                   *)
LEMMA WayEnds ==
  ASSUME TypeOK, NEW o \in present \cap Coverable, OnWay(o), pc = "rebase"
  PROVE  o \in RebaseAll
  BY DEF OnWay, OnDyn, OnLst, RebaseAll

-----------------------------------------------------------------------------
(* Runs among other activity and crashes *)

LEMMA OwedStep ==
  ASSUME ~MayFail, IInv, [Next]_vars
  PROVE  OwedInv' /\ OnceInv' /\ StaysMapped'
<1> USE DEF IInv, OwedInv, OnceInv, StaysMapped, Early, Mapped
<1>a. owed \subseteq present /\ once \subseteq present
  BY DEF TypeOK
<1>b. ASSUME NEW o \in Objects, Build(o)
      PROVE  OwedInv' /\ OnceInv' /\ StaysMapped'
  <2>1. \A c \in Caches : newer[c] \subseteq newer'[c] /\ newerOld[c] \subseteq newerOld'[c]
    BY <1>b DEF Build, Later, TypeOK
  <2>2. \A x \in present : OnWay(x) => OnWay(x)'
    BY <1>b, <2>1, WayOthers DEF Build
  <2>3. /\ UNCHANGED <<run, pc, flags>>
        /\ mapped' = mapped \ {o} /\ owed' = owed \ {o} /\ once' = once \ {o}
    BY <1>b DEF Build, shell
  <2>4. OwedInv'
    BY <1>a, <2>2, <2>3
  <2> QED
    BY <2>3, <2>4
<1>c. ASSUME UNCHANGED <<objects, files, shell, owed, once, missed>>,
             "fullrebase.done" \in flags' => "fullrebase.done" \in flags
      PROVE  OwedInv' /\ OnceInv' /\ StaysMapped'
  <2>1. UNCHANGED <<mapped, there, cache, newer, newerOld, pc, at, run, found, owed, once, missed>>
    BY <1>c DEF objects, files, shell
  <2>2. \A x \in present : OnWay(x) => OnWay(x)'
    BY <1>c, WayOthers DEF files
  <2> QED
    BY <1>a, <1>c, <2>1, <2>2
<1>1. ASSUME NEW m \in Modes, TriggerRebuild(m)
      PROVE  OwedInv' /\ OnceInv' /\ StaysMapped'
  <2>1. "fullrebase.done" \in flags' => "fullrebase.done" \in flags
    BY <1>1 DEF TriggerRebuild
  <2> QED
    BY <1>1, <1>c, <2>1 DEF TriggerRebuild
<1>2. CASE TriggerRebuildSet
  <2>1. trig # "fullrebase.done"
    BY <1>2, ModesAssumption DEF TriggerRebuildSet, TypeOK, ModeFlags
  <2>2. "fullrebase.done" \in flags' => "fullrebase.done" \in flags
    BY <1>2, <2>1 DEF TriggerRebuildSet
  <2> QED
    BY <1>2, <1>c, <2>2 DEF TriggerRebuildSet
<1>3. CASE TriggerFullrebase
  <2>1. "fullrebase.done" \in flags' => "fullrebase.done" \in flags
    BY <1>3 DEF TriggerFullrebase
  <2> QED
    BY <1>3, <1>c, <2>1 DEF TriggerFullrebase
<1>4. CASE TriggerPeflags
  <2>1. "fullrebase.done" \in flags' => "fullrebase.done" \in flags
    BY <1>4 DEF TriggerPeflags
  <2> QED
    BY <1>4, <1>c, <2>1 DEF TriggerPeflags
<1>5. CASE Preremove
  BY <1>5 DEF Preremove, objects, shell
<1>6. CASE Crash
  BY <1>6 DEF Crash, objects, NoRun
<1>7. CASE ReadPeflags
  BY <1>7, <1>a DEF ReadPeflags, objects, NoRun
<1>8. CASE ReadMode
  BY <1>8 DEF ReadMode, objects
<1>9. CASE ReadFull
  <2>1. pc = "full" /\ pc' = "rm" /\ at' = at /\ UNCHANGED <<mapped, owed, once>>
    BY <1>9 DEF ReadFull, objects
  <2>2. at = "dyn"
    BY <2>1 DEF Control, InFiles, FileSteps
  <2>3. ASSUME run'.rebuild, NEW o PROVE OnWay(o)'
    BY <2>1, <2>2, <2>3 DEF OnWay, OnDyn, OnLst, Chain, InFiles
  <2>4. "fullrebase.done" \in flags' => "fullrebase.done" \in flags
    BY <1>9 DEF ReadFull
  <2> QED
    BY <2>1, <2>3, <2>4
<1>10. CASE Working
  <2>1. \A o \in present \cap Coverable : OnWay(o) => OnWay(o)'
    BY <1>10, WayStep
  <2>2. /\ UNCHANGED <<flags, run, owed, once, missed>>
        /\ ~Early /\ ~Early' /\ pc \notin Mapped /\ pc' \notin Mapped
    BY <1>10 DEF Working, Remove, Touch, Move, Head, Scan, Append, ClearDb
  <2>3. mapped' = mapped \/ (run.full /\ mapped' = {})
    BY <1>10 DEF Working, Remove, Touch, Move, Head, Scan, Append, ClearDb, objects
  <2>4. OwedInv'
    BY <1>a, <2>1, <2>2
  <2>5. run.full => "fullrebase.done" \notin flags
    BY <2>2 DEF Control
  <2> QED
    BY <2>2, <2>3, <2>4, <2>5
<1>11. CASE DoRebase
  <2>1. RebaseAll \subseteq Coverable
    BY RebaseAllCoverable
  <2>2. run.rebuild => owed \cap Coverable \subseteq RebaseAll
    BY <1>11, <1>a, WayEnds DEF DoRebase
  <2>3. /\ mapped' = mapped \cup RebaseAll /\ once' = once \cup mapped'
        /\ pc' = "flags" /\ UNCHANGED <<owed, run, flags>>
    BY <1>11 DEF DoRebase
  <2> QED
    BY <1>11, <2>1, <2>2, <2>3 DEF DoRebase
<1>12. CASE DoPeflags
  BY <1>12 DEF DoPeflags
<1>13. CASE Finish
  BY <1>13 DEF Finish, objects, NoRun, Control
<1>14. CASE RebaseFails
  BY <1>14 DEF RebaseFails
<1>15. CASE UNCHANGED vars
  BY <1>15, <1>c DEF vars
<1> QED
  BY <1>b, <1>1, <1>2, <1>3, <1>4, <1>5, <1>6, <1>7, <1>8, <1>9, <1>10, <1>11, <1>12, <1>13,
     <1>14, <1>15 DEF Next, Autorebase, Working

LEMMA IInvInit == Init => IInv
<1>1. Init => OwedInv /\ OnceInv /\ StaysMapped
  BY DEF Init, OwedInv, OnceInv, StaysMapped, Early, Mapped, NoRun
<1> QED
  BY <1>1, TypeInit DEF IInv

LEMMA IInvCorrect == ASSUME ~MayFail PROVE Spec => []IInv
<1>1. IInv /\ [Next]_vars => IInv'
  BY TypeStep, OwedStep DEF IInv
<1> QED
  BY <1>1, IInvInit, PTL DEF Spec

(* Killed at any point and in the middle of any other activity, autorebase *)
(* leaves no map that lacks what it once held, unless a full rebase is     *)
(* pending - as long as rebase itself does not fail.                       *)
THEOREM StaysMappedCorrect == ASSUME ~MayFail PROVE Spec => []StaysMapped
<1>1. IInv => StaysMapped
  BY DEF IInv
<1> QED
  BY <1>1, IInvCorrect, PTL

(* Under the same assumption, fullrebase.done only appears when all that   *)
(* the run owed is mapped.                                                 *)
THEOREM DoneIsEarnedCorrect == ASSUME ~MayFail PROVE Spec => DoneIsEarned
<1> DEFINE Earned == ("fullrebase.done" \notin flags /\ "fullrebase.done" \in flags')
                       => owed \cap Coverable \subseteq mapped
<1>1. ASSUME IInv, Next PROVE Earned
  <2>1. ASSUME "fullrebase.done" \notin flags, "fullrebase.done" \in flags'
        PROVE  Finish /\ run.full
    <3>1. trig # "fullrebase.done"
      BY <1>1, ModesAssumption DEF IInv, TypeOK, ModeFlags
    <3>2. ~Working
      BY <2>1 DEF Working, Remove, Touch, Move, Head, Scan, Append, ClearDb
    <3> QED
      BY <1>1, <2>1, <3>1, <3>2 DEF Next, Autorebase, Working, Build, TriggerRebuild,
         TriggerRebuildSet, TriggerFullrebase, TriggerPeflags, Preremove, Crash, ReadPeflags,
         ReadMode, ReadFull, DoRebase, RebaseFails, DoPeflags, Finish
  <2>2. ASSUME Finish, run.full PROVE owed \cap Coverable \subseteq mapped
    BY <1>1, <2>2 DEF Finish, IInv, Control, OwedInv, Mapped
  <2> QED
    BY <2>1, <2>2
<1>2. IInv /\ [Next]_vars => [Earned]_vars
  BY <1>1
<1> QED
  BY <1>2, IInvCorrect, PTL DEF Spec, DoneIsEarned

-----------------------------------------------------------------------------
(* What a run in either mode maps, and what the next one will find *)

LEMMA TrackStep ==
  ASSUME TypeOK, Contents, Control, TrackInv, [Next]_vars
  PROVE  TrackInv'
<1> USE DEF TrackInv, StampDue, Early, Mapped
<1>b. ASSUME NEW o, Early' PROVE OnWay(o)'
  BY <1>b DEF OnWay, OnDyn, OnLst, InFiles, FileSteps
<1>1. ASSUME NEW x \in Objects, Build(x)
      PROVE  TrackInv'
  <2>1. UNCHANGED <<pc, run, flags, trig, there, cache, shell>>
    BY <1>1 DEF Build, shell
  <2>2. \A c \in Caches : newer'[c] = newer[c] \cup {x} /\ newerOld[c] \subseteq newerOld'[c]
    BY <1>1 DEF Build, Later, TypeOK
  <2>3. present' = present \cup {x} /\ mapped' = mapped \ {x}
    BY <1>1 DEF Build
  <2>4. x \in missed' \/ (Early' /\ StampDue(x)')
    BY <1>1, <2>1, <2>2 DEF Build, Caches
  <2>5. ASSUME NEW o \in present, o # x, OnWay(o)
        PROVE  OnWay(o)'
    BY <2>1, <2>2, <2>5, WayOthers
  <2>6. \A o \in present : o # x => /\ o \in missed => o \in missed'
                                    /\ StampDue(o) => StampDue(o)'
    BY <1>1, <2>1, <2>2 DEF Build, Caches
  <2>7. ASSUME NEW o \in present' \cap Coverable, o = x
        PROVE  o \in missed' \/ (pc' \notin Mapped /\ (Early' => StampDue(o)') /\ OnWay(o)')
    BY <1>b, <2>4, <2>7
  <2>8. ASSUME NEW o \in present' \cap Coverable, o # x
        PROVE  \/ o \in missed'
               \/ o \in mapped' /\ (run'.full => pc' \in Mapped)
               \/ (pc' \notin Mapped /\ (Early' => StampDue(o)') /\ OnWay(o)')
    <3>1. o \in present /\ (o \in mapped => o \in mapped')
      BY <2>3, <2>8
    <3>2. pc' = pc /\ run' = run /\ (Early' <=> Early)
      BY <2>1
    <3> HIDE DEF Early, StampDue, Mapped
    <3>3. \/ o \in missed
          \/ o \in mapped /\ (run.full => pc \in Mapped)
          \/ pc \notin Mapped /\ (Early => StampDue(o)) /\ OnWay(o)
      BY <2>8, <3>1 DEF TrackInv
    <3> QED
      BY <2>5, <2>6, <2>8, <3>1, <3>2, <3>3
  <2> QED
    BY <2>7, <2>8
<1>2. ASSUME UNCHANGED <<objects, files, shell, missed>>,
             "fullrebase.done" \in flags' => "fullrebase.done" \in flags
      PROVE  TrackInv'
  <2>1. UNCHANGED <<present, mapped, there, cache, newer, newerOld, pc, at, run, found, missed>>
    BY <1>2 DEF objects, files, shell
  <2>2. \A o \in present : OnWay(o) => OnWay(o)'
    BY <1>2, WayOthers DEF files
  <2>3. \A o \in present : StampDue(o) => StampDue(o)'
    BY <1>2, <2>1
  <2> QED
    BY <2>1, <2>2, <2>3
<1>3. ASSUME NEW m \in Modes, TriggerRebuild(m)
      PROVE  TrackInv'
  <2>1. "fullrebase.done" \in flags' => "fullrebase.done" \in flags
    BY <1>3 DEF TriggerRebuild
  <2> QED
    BY <1>2, <1>3, <2>1 DEF TriggerRebuild
<1>4. CASE TriggerRebuildSet
  <2>1. trig # "fullrebase.done"
    BY <1>4, ModesAssumption DEF TriggerRebuildSet, TypeOK, ModeFlags
  <2>2. "fullrebase.done" \in flags' => "fullrebase.done" \in flags
    BY <1>4, <2>1 DEF TriggerRebuildSet
  <2> QED
    BY <1>2, <1>4, <2>2 DEF TriggerRebuildSet
<1>5. CASE TriggerFullrebase
  <2>1. "fullrebase.done" \in flags' => "fullrebase.done" \in flags
    BY <1>5 DEF TriggerFullrebase
  <2> QED
    BY <1>2, <1>5, <2>1 DEF TriggerFullrebase
<1>6. CASE TriggerPeflags
  <2>1. "fullrebase.done" \in flags' => "fullrebase.done" \in flags
    BY <1>6 DEF TriggerPeflags
  <2> QED
    BY <1>2, <1>6, <2>1 DEF TriggerPeflags
<1>7. CASE Preremove
  <2>1. /\ pc = "idle" /\ UNCHANGED <<present, mapped, pc, run, trig, missed>>
        /\ "fullrebase.done" \notin flags'
    BY <1>7 DEF Preremove, objects, shell
  <2> QED
    BY <1>b, <2>1
<1>8. CASE Crash
  <2>1. /\ UNCHANGED <<present, mapped, there, newer, flags>>
        /\ missed' = IF Early THEN missed ELSE missed \cup (present \ mapped)
        /\ pc' = "idle" /\ ~run'.full
    BY <1>8 DEF Crash, objects, files, NoRun
  <2> QED
    BY <1>b, <2>1
<1>9. CASE ReadPeflags
  <2>1. /\ pc = "idle" /\ pc' = "mode"
        /\ UNCHANGED <<present, mapped, there, newer, missed>> /\ ~run'.full
        /\ "fullrebase.done" \in flags' => "fullrebase.done" \in flags
    BY <1>9 DEF ReadPeflags, objects, files, NoRun
  <2> QED
    BY <1>b, <2>1
<1>10. CASE ReadMode
  <2>1. /\ pc = "mode" /\ pc' = "full"
        /\ UNCHANGED <<present, mapped, there, newer, missed>>
        /\ "fullrebase.done" \in flags' => "fullrebase.done" \in flags
    BY <1>10 DEF ReadMode, objects, files
  <2>2. run'.full = run.full
    BY <1>10, <2>1 DEF Control, ReadMode, TypeOK
  <2> QED
    BY <1>b, <2>1, <2>2
<1>11. CASE ReadFull
  <2>1. pc = "full" /\ pc' = "rm" /\ at' = "dyn"
        /\ UNCHANGED <<present, mapped, there, newer>> /\ ~run.full
    BY <1>11 DEF ReadFull, objects, files, Control, InFiles, FileSteps
  <2>2. CASE run'.rebuild
    <3>1. ASSUME NEW o \in present \cap Coverable PROVE OnWay(o)'
      BY <2>1, <2>2 DEF OnWay, OnDyn, OnLst, Chain, InFiles
    <3> QED
      BY <2>1, <3>1
  <2>3. CASE ~run'.rebuild
    <3>1. run' = run /\ missed' = missed /\ "fullrebase.done" \in flags
      BY <1>11, <2>3 DEF ReadFull, TypeOK
    <3>2. ASSUME NEW o \in present \cap Coverable, StampDue(o) PROVE OnWay(o)'
      BY <2>1, <3>1, <3>2, KindsAssumption DEF OnWay, OnDyn, OnLst, Chain, InFiles
    <3> QED
      BY <2>1, <3>1, <3>2
  <2> QED
    BY <2>2, <2>3
<1>12. CASE Working
  <2>1. \A o \in present \cap Coverable : OnWay(o) => OnWay(o)'
    BY <1>12, WayStep
  <2>2. /\ UNCHANGED <<present, run, missed>>
        /\ ~Early /\ ~Early' /\ pc \notin Mapped /\ pc' \notin Mapped
    BY <1>12 DEF Working, Remove, Touch, Move, Head, Scan, Append, ClearDb, objects
  <2>3. mapped' = mapped \/ run.full
    BY <1>12 DEF Working, Remove, Touch, Move, Head, Scan, Append, ClearDb, objects
  <2> QED
    BY <2>1, <2>2, <2>3
<1>13. CASE DoRebase
  <2>1. /\ pc = "rebase" /\ pc' = "flags" /\ mapped' = mapped \cup RebaseAll
        /\ UNCHANGED <<present, run>> /\ missed' = missed \ mapped'
    BY <1>13 DEF DoRebase
  <2>2. \A o \in present \cap Coverable : OnWay(o) => o \in RebaseAll
    BY <2>1, WayEnds
  <2> QED
    BY <2>1, <2>2
<1>14. CASE RebaseFails
  <2>1. /\ UNCHANGED <<present, mapped>> /\ pc' = "flags"
        /\ missed' = missed \cup (present \ mapped)
    BY <1>14 DEF RebaseFails, objects
  <2> QED
    BY <2>1
<1>15. CASE DoPeflags
  BY <1>15 DEF DoPeflags
<1>16. CASE Finish
  BY <1>16 DEF Finish, objects, NoRun
<1>17. CASE UNCHANGED vars
  BY <1>2, <1>17 DEF vars
<1> QED
  BY <1>1, <1>3, <1>4, <1>5, <1>6, <1>7, <1>8, <1>9, <1>10, <1>11, <1>12, <1>13, <1>14,
     <1>15, <1>16, <1>17 DEF Next, Autorebase, Working

LEMMA TrackCorrect == Spec => [](TypeOK /\ Contents /\ Control /\ TrackInv)
<1>1. Init => TrackInv
  BY DEF Init, TrackInv
<1>2. TypeOK /\ Contents /\ Control /\ TrackInv /\ [Next]_vars
        => (TypeOK /\ Contents /\ Control /\ TrackInv)'
  BY TypeStep, TrackStep
<1> QED
  BY <1>1, <1>2, TypeInit, PTL DEF Spec

(* In both modes, whoever is killed, whether rebase fails and whatever     *)
(* runs meanwhile, an object is in the map or due in the next run, except  *)
(* one that a kill or a failure since the last run from scratch left       *)
(* unmapped, or that was built in the middle of a run.                     *)
THEOREM NothingForgottenCorrect == Spec => []NothingForgotten
<1>1. TypeOK /\ Contents /\ Control /\ TrackInv => NothingForgotten
  <2> SUFFICES ASSUME TypeOK, Control, TrackInv, pc = "idle", NEW o \in present \cap Coverable,
                      o \notin mapped \cup missed
               PROVE  WillFind(o)
    BY DEF NothingForgotten
  <2> DEFINE scratch == \/ "fullrebase.done" \notin flags
                        \/ "rebuild_incremental" \notin flags \/ "rebuild_always" \in flags
             stamped(c) == IF scratch \/ c \notin there THEN Things ELSE newer[c]
  <2>1. StampDue(o)
    BY DEF TrackInv, Early, Mapped
  <2>2. o \in Things /\ o \notin Exes /\ o \in Objects
    BY DEF Coverable, Things, Objects
  <2>3. CASE o \in Packaged
    <3>1. o \notin Listed
      BY <2>3, KindsAssumption
    <3>2. o \in stamped("pkg")
      BY <2>1, <2>2, <2>3, <3>1 DEF StampDue
    <3>3. o \in Search("pkg", stamped("pkg"))
      BY <2>3, <3>2 DEF Search
    <3> QED
      BY <3>3 DEF WillFind
  <2>4. CASE o \notin Packaged
    <3>1. Searched # {} /\ (o \in Searched \/ o \in Listed)
      BY <2>4 DEF Coverable
    <3>2. o \in Searched => o \notin Listed
      BY KindsAssumption
    <3>3. o \in Listed \/ o \in stamped("dyn")
      BY <2>1, <2>2, <2>4 DEF StampDue
    <3>4. o \in Search("dyn", stamped("dyn"))
      BY <2>2, <3>1, <3>2, <3>3 DEF Search
    <3> QED
      BY <3>4 DEF WillFind
  <2> QED
    BY <2>3, <2>4
<1> QED
  BY <1>1, TrackCorrect, PTL

(* And a run that reaches its end has mapped all there is, with the same   *)
(* exceptions.                                                             *)
THEOREM RunCoversCorrect == Spec => []RunCovers
<1>1. TypeOK /\ Contents /\ Control /\ TrackInv => RunCovers
  BY DEF RunCovers, TrackInv, Mapped
<1> QED
  BY <1>1, TrackCorrect, PTL
=============================================================================
