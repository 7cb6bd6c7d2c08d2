----------------------------- MODULE MCArgStack -----------------------------
(* Two SVs and three slots: both operands of a binary helper and a third   *)
(* item below them, equal or not.                                          *)
EXTENDS ArgStack, TLC

CONSTANTS a, b

TwoSVs == {a, b}
Both   == BOOLEAN
RcOnly == {TRUE}
Renaming == Permutations(TwoSVs)

=============================================================================
