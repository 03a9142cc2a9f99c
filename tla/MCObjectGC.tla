----------------------------- MODULE MCObjectGC -----------------------------
(* Small heaps for the checks of ObjectGC.                                   *)
EXTENDS ObjectGC, TLC

CONSTANTS o1, o2, o3

TwoObj == {o1, o2}
ThreeObj == {o1, o2, o3}
TwoSym == Permutations(TwoObj)
ThreeSym == Permutations(ThreeObj)
=============================================================================
