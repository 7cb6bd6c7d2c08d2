------------------------------ MODULE MCRebase ------------------------------
(* Small instances of Rebase: one object of each kind that is told apart.  *)
EXTENDS Rebase

CONSTANTS pd, sd, se, nd, ld, lf

None        == {}
PackagedDll == {pd}
SearchedDll == {sd}
SearchedAll == {sd, se}
NamedDll    == {nd}
OneList     == {lf}
OneLine     == [f \in OneList |-> {ld}]
NoLines     == [f \in None |-> {}]
SearchedEx  == {se}
BothModes   == ModeFlags
AlwaysMode  == {"rebuild_always"}
Incremental == {"rebuild_incremental"}
=============================================================================
