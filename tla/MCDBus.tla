------------------------------- MODULE MCDBus -------------------------------
(* Small instances for the checks of DBus.                                   *)
EXTENDS DBus, TLC

Interchangeable == Permutations(Names) \cup Permutations(Peers) \cup Permutations(Serials)
=============================================================================
