------------------------------ MODULE MCTestIPC ------------------------------
(* Small instances of TestIPC.                                             *)
EXTENDS TestIPC

CONSTANTS p1, root, s1, s2

OneProc     == {p1}
OneSubtest  == {s1}
TwoSubtests == {s1, s2}
Unrelated   == {}
OneInTen    == {<<s1, s2>>}
=============================================================================
