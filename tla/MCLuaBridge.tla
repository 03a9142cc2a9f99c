---------------------------- MODULE MCLuaBridge ----------------------------
(* A small instance for the check of LuaBridge.                              *)
EXTENDS LuaBridge, TLC

Interchangeable ==
    Permutations(Objs) \cup Permutations(Refs) \cup Permutations(Vals)
      \cup Permutations(Uds) \cup Permutations(Slots)
=============================================================================
