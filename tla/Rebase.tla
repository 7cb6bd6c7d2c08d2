------------------------------- MODULE Rebase -------------------------------
(***************************************************************************)
(* The _autorebase package: etc/postinstall/0p_000_autorebase.dash, run at *)
(* the end of every run of setup, bin/rebase-trigger, with which the user  *)
(* asks for something of the next run, bin/rebaselst, which does the work  *)
(* and etc/preremove/_autorebase.sh.  They talk through files: flag files  *)
(* and cache files under /var/cache/rebase, whose time stamps decide what  *)
(* the next run looks at, and the rebase map /etc/rebase.db.*.             *)
(*                                                                         *)
(* Time stamps are only ever compared (find -newer, test -nt), so a file   *)
(* is modelled with the set of the things stamped after it.                *)
(***************************************************************************)
EXTENDS Naturals, FiniteSets

CONSTANTS
  Packaged,    \* objects that a package installs; each its own package
  Searched,    \* objects in the advertised directories (*path.d)
  Named,       \* objects that a file in *file.d names themselves
  Lists,       \* text files that a file in *file.d names
  Lines,       \* Lines[f]: the objects whose names are the lines of f
  Exes,        \* the objects whose suffix is exe
  Modes,       \* the flag files the user asks rebase-trigger for
  Live,        \* BOOLEAN: Cygwin is in use while autorebase runs
  MayFail,     \* BOOLEAN: the rebase program may fail
  MaxCrashes   \* bound: how often a script is killed

(* rebase_dyn greps the contents of each file that *file.d names: of a     *)
(* text file that gives its lines, of an object, which is binary, no name. *)
Advertised == Named \cup Lists
Grep(f)    == IF f \in Lists THEN Lines[f] ELSE {}
Listed     == UNION {Grep(f) : f \in Advertised}

Objects == Packaged \cup Searched \cup Named \cup Listed
ModeFlags == {"rebuild_always", "rebuild_incremental"}

ASSUME KindsAssumption ==
  /\ Packaged \cap (Searched \cup Named \cup Listed) = {}
  /\ Searched \cap (Named \cup Listed) = {} /\ Named \cap (Lists \cup Listed) = {}
  /\ Exes \subseteq Objects /\ "pkg" \notin Objects
ASSUME ModesAssumption == Modes \subseteq ModeFlags
ASSUME BoundsAssumption ==
  Live \in BOOLEAN /\ MayFail \in BOOLEAN /\ MaxCrashes \in Nat

(* The cache files, in the order in which "update" does them.              *)
Caches == {"dyn", "dyn_exe", "pkg", "lst", "exe"}
Following == [dyn |-> "dyn_exe", dyn_exe |-> "pkg", pkg |-> "lst", lst |-> "exe"]
Things == Objects \cup {"pkg"}
Flags  == ModeFlags \cup {"peflags", "peflags.disabled", "fullrebase", "fullrebase.done"}
FileSteps == {"rm", "touch", "mv", "head", "scan", "append"}
Steps  == FileSteps \cup {"idle", "mode", "full", "clear", "rebase", "flags", "done"}

VARIABLES
  present,   \* the objects that exist
  mapped,    \* those whose present build is in the rebase map
  flagged,   \* the executables that peflags has set
  flags,     \* the flag files under /var/cache/rebase
  there,     \* the cache files that exist
  cache,     \* cache[c]: the objects that rebase_<c> names
  newer,     \* newer[c]: what is stamped after rebase_<c>
  newerOld,  \* newerOld[c]: what is stamped after rebase_<c>.old
  pc, at,    \* the next step of autorebase, and the cache file it is at
  run,       \* its shell variables: rebuild, fullrebase chosen, peflags
  found,     \* what the find or grep it is executing has found
  trig,      \* the mode file rebase-trigger has yet to write, or "none"
  crashes,   \* bound: number of crashes
  owed,      \* history: objects present at the start of the run, not built since
  once,      \* history: objects mapped since they were built
  missed     \* history: objects that a kill, a failure or a live build came between

objects == <<present, mapped, flagged>>
files   == <<there, cache, newer, newerOld>>
shell   == <<pc, at, run, found>>
vars    == <<objects, files, shell, flags, trig, crashes, owed, once, missed>>

NoRun == [rebuild |-> FALSE, full |-> FALSE, peflags |-> FALSE]

TypeOK ==
  /\ present \subseteq Objects /\ mapped \subseteq present \ Exes
  /\ flagged \subseteq present \cap Exes
  /\ flags \subseteq Flags /\ there \subseteq Caches
  /\ cache \in [Caches -> SUBSET Objects]
  /\ newer \in [Caches -> SUBSET Things] /\ newerOld \in [Caches -> SUBSET Things]
  /\ pc \in Steps /\ at \in Caches
  /\ run \in [rebuild : BOOLEAN, full : BOOLEAN, peflags : BOOLEAN]
  /\ found \subseteq Objects
  /\ trig \in Modes \cup {"none"} /\ crashes \in 0..MaxCrashes
  /\ owed \subseteq present /\ once \subseteq present /\ missed \subseteq present
  /\ pc = "idle" => run = NoRun /\ found = {} /\ at = "dyn" /\ owed = {}

(* A freshly installed system: the package brings an empty cache directory.*)
Init ==
  /\ present = {} /\ mapped = {} /\ flagged = {}
  /\ flags = {} /\ there = {}
  /\ cache = [c \in Caches |-> {}]
  /\ newer = [c \in Caches |-> {}] /\ newerOld = [c \in Caches |-> {}]
  /\ pc = "idle" /\ at = "dyn" /\ run = NoRun /\ found = {}
  /\ trig = "none" /\ crashes = 0
  /\ owed = {} /\ once = {} /\ missed = {}

-----------------------------------------------------------------------------
(* f after x is stamped with the present time.                             *)
Later(f, x) == [c \in Caches |-> f[c] \cup {x}]

(* rebase_<c> is written to.                                               *)
Written(c) ==
  LET f == IF c = "pkg" THEN Later(newer, "pkg") ELSE newer
  IN  /\ newer' = [f EXCEPT ![c] = {}]
      /\ newerOld' = IF c = "pkg" THEN Later(newerOld, "pkg") ELSE newerOld

(* While autorebase runs nobody else does anything, unless Live.           *)
Quiet == Live \/ pc = "idle"

(* autorebase has not looked at any cache file yet.                        *)
Early == pc \in {"idle", "mode", "full"}

-----------------------------------------------------------------------------
(* What happens around the scripts.                                        *)

(* Setup installs a package, or a program builds a module; a new build is  *)
(* not where the map says.  Setup runs autorebase last.                    *)
Build(o) ==
  /\ IF o \in Packaged THEN pc = "idle" ELSE Quiet
  /\ present' = present \cup {o}
  /\ mapped' = mapped \ {o} /\ flagged' = flagged \ {o}
  /\ newer' = Later(newer, o) /\ newerOld' = Later(newerOld, o)
  /\ owed' = owed \ {o} /\ once' = once \ {o}
  /\ missed' = IF Early THEN missed \ {o} ELSE missed \cup {o}
  /\ UNCHANGED <<flags, there, cache, shell, trig, crashes>>

(* _autorebase.sh, before the package is removed or upgraded: rm -rf.      *)
Preremove ==
  /\ pc = "idle" /\ trig = "none"
  /\ flags' = {} /\ there' = {}
  /\ cache' = [c \in Caches |-> {}]
  /\ newer' = [c \in Caches |-> {}] /\ newerOld' = [c \in Caches |-> {}]
  /\ UNCHANGED <<objects, shell, trig, crashes, owed, once, missed>>

(* Whatever runs is killed.                                                *)
Crash ==
  /\ crashes < MaxCrashes
  /\ (pc # "idle" \/ trig # "none")
  /\ pc' = "idle" /\ at' = "dyn" /\ run' = NoRun /\ found' = {}
  /\ trig' = "none" /\ owed' = {} /\ crashes' = crashes + 1
  /\ missed' = IF Early THEN missed ELSE missed \cup (present \ mapped)
  /\ UNCHANGED <<objects, files, flags, once>>

-----------------------------------------------------------------------------
(* rebase-trigger *)

TriggerFullrebase ==
  /\ Quiet
  /\ flags' = (flags \ {"fullrebase.done"}) \cup {"fullrebase"}
  /\ UNCHANGED <<objects, files, shell, trig, crashes, owed, once, missed>>

TriggerPeflags ==
  /\ Quiet
  /\ flags' = (flags \ {"peflags.disabled"}) \cup {"peflags"}
  /\ UNCHANGED <<objects, files, shell, trig, crashes, owed, once, missed>>

(* trigger_rebuild: rm -f of the other mode's file, then cat > the file.   *)
TriggerRebuild(m) ==
  /\ Quiet /\ trig = "none"
  /\ trig' = m
  /\ flags' = flags \ (ModeFlags \ {m})
  /\ UNCHANGED <<objects, files, shell, crashes, owed, once, missed>>

TriggerRebuildSet ==
  /\ trig # "none"
  /\ flags' = flags \cup {trig}
  /\ trig' = "none"
  /\ UNCHANGED <<objects, files, shell, crashes, owed, once, missed>>

-----------------------------------------------------------------------------
(* 0p_000_autorebase.dash, up to its call of rebaselst *)

ReadPeflags ==
  /\ pc = "idle" /\ (Live \/ trig = "none")
  /\ run' = [NoRun EXCEPT !.peflags = "peflags" \in flags]
  /\ flags' = flags \ {"peflags"}
  /\ pc' = "mode" /\ owed' = present
  /\ UNCHANGED <<objects, files, at, found, trig, crashes, once, missed>>

ReadMode ==
  /\ pc = "mode"
  /\ IF flags \cap ModeFlags = {}
     THEN /\ flags' = flags \cup {"rebuild_always"}
          /\ run' = [run EXCEPT !.rebuild = TRUE]
     ELSE /\ run' = [run EXCEPT !.rebuild = "rebuild_always" \in flags]
          /\ flags' = flags
  /\ pc' = "full"
  /\ UNCHANGED <<objects, files, at, found, trig, crashes, owed, once, missed>>

(* Seeded bug: the request is marked as served when it is read.            *)
ReadFull_Early ==
  /\ pc = "full" /\ pc' = "rm"
  /\ flags' = (flags \ {"fullrebase"}) \cup {"fullrebase.done"}
  /\ run' = IF "fullrebase.done" \in flags THEN run
            ELSE [run EXCEPT !.full = TRUE, !.rebuild = TRUE]
  /\ missed' = IF run'.rebuild THEN {} ELSE missed
  /\ UNCHANGED <<objects, files, at, found, trig, crashes, owed, once>>

ReadFull ==
  /\ pc = "full"
  /\ IF "fullrebase.done" \notin flags
     THEN /\ flags' = flags \cup {"fullrebase"}
          /\ run' = [run EXCEPT !.full = TRUE, !.rebuild = TRUE]
     ELSE UNCHANGED <<flags, run>>
  /\ missed' = IF run'.rebuild THEN {} ELSE missed
  /\ pc' = "rm"
  /\ UNCHANGED <<objects, files, at, found, trig, crashes, owed, once>>

-----------------------------------------------------------------------------
(* rebaselst update: check_file, old_file and the search, for each cache   *)

(* Seeded bug: --rebuild does not reach check_file.                        *)
Remove_Kept ==
  /\ pc = "rm" /\ pc' = "touch"
  /\ UNCHANGED <<objects, files, at, run, found, flags, trig, crashes, owed, once, missed>>

(* check_file, with "no" for rebase_exe: rm -f ...                         *)
Remove ==
  /\ pc = "rm" /\ pc' = "touch"
  /\ there' = IF run.rebuild /\ at # "exe" THEN there \ {at} ELSE there
  /\ UNCHANGED <<objects, cache, newer, newerOld, at, run, found, flags, trig, crashes, owed, once, missed>>

(* ... and touch -r the epoch: everything is newer than the empty file.    *)
(* rebase_pkg is, too, wherever that is asked: this run has rewritten it.  *)
Touch ==
  /\ pc = "touch" /\ pc' = "mv"
  /\ IF at \in there THEN UNCHANGED files
     ELSE /\ there' = there \cup {at}
          /\ cache' = [cache EXCEPT ![at] = {}]
          /\ newer' = [newer EXCEPT ![at] = present \cup ({"pkg"} \ {at})]
          /\ newerOld' = newerOld
  /\ UNCHANGED <<objects, at, run, found, flags, trig, crashes, owed, once, missed>>

(* old_file: mv -f to .old ...                                             *)
Move ==
  /\ pc = "mv" /\ pc' = "head"
  /\ there' = there \ {at}
  /\ newerOld' = [newerOld EXCEPT ![at] = newer[at]]
  /\ UNCHANGED <<objects, cache, newer, at, run, found, flags, trig, crashes, owed, once, missed>>

(* ... and a new file with nothing but the header.                         *)
Head ==
  /\ pc = "head" /\ pc' = "scan"
  /\ there' = there \cup {at}
  /\ cache' = [cache EXCEPT ![at] = {}]
  /\ Written(at)
  /\ UNCHANGED <<objects, at, run, found, flags, trig, crashes, owed, once, missed>>

(* What each rebase_<c> function finds when what is stamped after .old is  *)
(* as given.  rebase_dyn does not grep when no directory is advertised;    *)
(* rebase_dyn_exe does not search the directories when no file is.         *)
Search(c, stamped) ==
  LET new == present \cap stamped
      dyn == (Searched \cap new) \cup Listed
      pkg == IF "pkg" \in stamped THEN cache["pkg"] ELSE {}
  IN  CASE c = "dyn"     -> IF Searched = {} THEN {} ELSE dyn \ Exes
        [] c = "dyn_exe" -> IF Advertised = {} THEN {} ELSE dyn \cap Exes
        [] c = "pkg"     -> Packaged \cap new
        [] c = "lst"     -> pkg \ Exes
        [] c = "exe"     -> pkg \cap Exes

(* Seeded bug: -newer the new file instead of the old one.                 *)
Found_NewFile(c) == Search(c, newer[c])

Found(c) == Search(c, newerOld[c])

Scan ==
  /\ pc = "scan" /\ pc' = "append"
  /\ found' = Found(at)
  /\ UNCHANGED <<objects, files, at, run, flags, trig, crashes, owed, once, missed>>

(* Appending nothing leaves the time stamp alone; the early branches of    *)
(* rebase_dyn and rebase_dyn_exe touch the file.                           *)
Append ==
  /\ pc = "append"
  /\ cache' = [cache EXCEPT ![at] = found]
  /\ IF \/ found # {}
        \/ at = "dyn" /\ Searched = {}
        \/ at = "dyn_exe" /\ Advertised = {}
     THEN Written(at) ELSE UNCHANGED <<newer, newerOld>>
  /\ IF at = "exe" THEN pc' = "clear" /\ at' = "dyn" ELSE pc' = "rm" /\ at' = Following[at]
  /\ found' = {}
  /\ UNCHANGED <<objects, there, run, flags, trig, crashes, owed, once, missed>>

-----------------------------------------------------------------------------
(* rebaselst rebase, rebaselst peflags, and the end of autorebase *)

(* --cleardb is given in a full rebase only.                               *)
ClearDb ==
  /\ pc = "clear" /\ pc' = "rebase"
  /\ mapped' = IF run.full THEN {} ELSE mapped
  /\ UNCHANGED <<present, flagged, files, at, run, found, flags, trig, crashes, owed, once, missed>>

(* The list of rebase: the two caches, as far as the files exist.          *)
RebaseAll == (cache["dyn"] \cup cache["lst"]) \cap present

(* The script also has a step that removes ASLR flags; its test compares   *)
(* the word noaslr with yes, two constants, so it never runs.              *)
DoRebase ==
  /\ pc = "rebase" /\ pc' = "flags"
  /\ mapped' = mapped \cup RebaseAll
  /\ once' = once \cup mapped' /\ missed' = missed \ mapped'
  /\ UNCHANGED <<present, flagged, files, at, run, found, flags, trig, crashes, owed>>

(* rebase gives up; its exit status is ignored.                            *)
RebaseFails ==
  /\ MayFail
  /\ pc = "rebase" /\ pc' = "flags"
  /\ missed' = missed \cup (present \ mapped)
  /\ UNCHANGED <<objects, files, at, run, found, flags, trig, crashes, owed, once>>

DoPeflags ==
  /\ pc = "flags" /\ pc' = "done"
  /\ flagged' = IF run.peflags THEN flagged \cup (cache["dyn_exe"] \cap present) ELSE flagged
  /\ UNCHANGED <<present, mapped, files, at, run, found, flags, trig, crashes, owed, once, missed>>

(* Seeded bug: the flag file is not renamed.                               *)
Finish_NoRename ==
  /\ pc = "done" /\ pc' = "idle"
  /\ run' = NoRun /\ owed' = {}
  /\ UNCHANGED <<objects, files, at, found, flags, trig, crashes, once, missed>>

(* mv fullrebase fullrebase.done                                           *)
Finish ==
  /\ pc = "done" /\ pc' = "idle"
  /\ flags' = IF run.full /\ "fullrebase" \in flags
              THEN (flags \ {"fullrebase"}) \cup {"fullrebase.done"} ELSE flags
  /\ run' = NoRun /\ owed' = {}
  /\ UNCHANGED <<objects, files, at, found, trig, crashes, once, missed>>

Autorebase ==
  \/ ReadMode \/ ReadFull
  \/ Remove \/ Touch \/ Move \/ Head \/ Scan \/ Append
  \/ ClearDb \/ DoRebase \/ RebaseFails \/ DoPeflags \/ Finish

Next ==
  \/ \E o \in Objects : Build(o)
  \/ \E m \in Modes : TriggerRebuild(m)
  \/ TriggerRebuildSet \/ TriggerFullrebase \/ TriggerPeflags
  \/ Preremove \/ Crash
  \/ ReadPeflags \/ Autorebase

Spec == Init /\ [][Next]_vars

(* A script that is not killed goes on; setup is run again and again; and  *)
(* rebase, tried again and again, does not fail for ever.                  *)
FairSpec ==
  /\ Spec
  /\ WF_vars(Autorebase) /\ WF_vars(TriggerRebuildSet)
  /\ SF_vars(ReadPeflags) /\ SF_vars(DoRebase)
-----------------------------------------------------------------------------
(* Properties *)

(* The objects autorebase looks for: what *file.d itself names is not      *)
(* among them, and what its files list only when a directory is advertised.*)
Coverable == (Packaged \cup Searched \cup (IF Searched = {} THEN {} ELSE Listed)) \ Exes

(* The next run of autorebase will put o on the list of rebase: with the   *)
(* time stamps its searches will compare, they find o.                     *)
WillFind(o) ==
  LET scratch    == \/ "fullrebase.done" \notin flags
                    \/ "rebuild_incremental" \notin flags \/ "rebuild_always" \in flags
      stamped(c) == IF scratch \/ c \notin there THEN Things ELSE newer[c]
  IN  \E c \in {"pkg", "dyn"} : o \in Search(c, stamped(c))

(* Between runs, every object is where the map says or will be found by    *)
(* the next run, in whatever order builds, triggers, removals of the       *)
(* package and runs in either mode have come (_autorebase.README:5-8: the  *)
(* objects "installed after the last run of rebase will be considered").   *)
(* Only what a kill or a failure of rebase left unmapped, or what was      *)
(* built in the middle of a run, may be lost, and a run from scratch makes *)
(* up for it.                                                              *)
NothingForgotten ==
  pc = "idle" => \A o \in present \cap Coverable : o \in mapped \cup missed \/ WillFind(o)

(* A run that has reached its end, in either mode, has mapped all there    *)
(* is, with the same exceptions.                                           *)
RunCovers == pc \in {"flags", "done"} => present \cap Coverable \subseteq mapped \cup missed

(* The full rebase stays requested until one has been done: the flag file  *)
(* becomes fullrebase.done only when the map is complete, so that a run    *)
(* killed half-way is done again (rebase-trigger:44-45).                   *)
DoneIsEarned ==
  [][("fullrebase.done" \notin flags /\ "fullrebase.done" \in flags')
       => owed \cap Coverable \subseteq mapped]_vars

(* As long as no full rebase is pending, what has been mapped is mapped: a *)
(* crash between the removal of the map and the end of rebase always       *)
(* leaves the full rebase pending.                                         *)
StaysMapped == "fullrebase.done" \in flags => once \subseteq mapped

(* With setup run again and again, every object gets into the map, and     *)
(* every request for a full rebase is served, despite crashes and failures.*)
EventuallyMapped == \A o \in Coverable : (o \in present) ~> (o \in mapped)
FullServed == ("fullrebase" \in flags) ~> ("fullrebase.done" \in flags)

(* What the documentation says and the code does not do.  The files that   *)
(* *file.d names are themselves rebased (_autorebase.README:31-35) ...     *)
NamedCovered == pc \in {"flags", "done"} => owed \cap (Named \ Exes) \subseteq mapped

(* ... and the next run considers all that was installed after the last    *)
(* run of rebase (lines 5-8), also when a run was killed before rebase.    *)
AllConsidered ==
  pc = "idle" => \A o \in present \cap Coverable : o \in mapped \/ WillFind(o)

=============================================================================
