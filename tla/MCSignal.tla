------------------------------ MODULE MCSignal ------------------------------
(* Small instances for the checks of Signal.                                 *)
EXTENDS Signal

CONSTANTS h1, h2, once1, s1, s2

TwoHandlers == {h1, h2, once1}
OnceHandlers == {once1}
Signals == {s1, s2}

Symmetry == Permutations({h1, h2}) \cup Permutations(Signals)
=============================================================================
