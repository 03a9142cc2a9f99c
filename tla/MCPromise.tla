----------------------------- MODULE MCPromise ------------------------------
(* Small instances for the checks of Promise.                                *)
EXTENDS Promise

(* A promise and two chained to it or to each other, or two that are joined. *)
ChainOrJoin == {<<1, 2, 0>>, <<2, 0, 1>>}
=============================================================================
