-------------------------- MODULE MCXorgConnection --------------------------
(* A small instance for the checks of XorgConnection.                        *)
EXTENDS XorgConnection, TLC

Interchangeable == Permutations(Outputs)
=============================================================================
