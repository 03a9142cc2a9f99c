--------------------------- MODULE MCChildProcess ---------------------------
(* Instances of ChildProcess for model checking.                             *)
EXTENDS ChildProcess

ShortStream == [s \in Stream |-> IF s = "stdout_line" THEN 2 ELSE 0]
=============================================================================
