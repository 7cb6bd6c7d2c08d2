----------------------------- MODULE MCCxStack ------------------------------
(* Two subs that call each other and themselves, on up to three stackinfos.*)
EXTENDS CxStack, TLC

CONSTANTS f, g

TwoSubs == {f, g}
Renaming == Permutations(TwoSubs)

=============================================================================
