---------------------------- MODULE SharedOwner ----------------------------
(***************************************************************************)
(* What the Lua plugin promises the rest of deai.  However many proxies of  *)
(* an object come and go, the plugin is one owner of it: the object is lent *)
(* to Lua while it is alive, stays alive while it is lent, and is destroyed *)
(* at the step that takes its last owner, and by no other.                  *)
(***************************************************************************)
CONSTANT Objects

VARIABLES
    alive,   \* objects that are not destroyed
    used,    \* objects referenced by deai code, calls included
    lent     \* objects the plugin owns for Lua

vars == <<alive, used, lent>>

Init == alive = {} /\ used = {} /\ lent = {}

(* Objects are created, or deai code comes to reference living ones.         *)
Take(S) == used' = used \cup S /\ UNCHANGED lent

(* deai code drops its references to S; Lua may get a living object in the   *)
(* same step.                                                                *)
Drop(S) ==
    /\ used' = used \ S
    /\ UNCHANGED lent \/ \E o \in alive : lent' = lent \cup {o}

(* The last proxy of o is finalized.                                         *)
GiveBack(o) == lent' = lent \ {o} /\ UNCHANGED used

Next ==
    /\ \/ \E S \in SUBSET Objects : Take(S) \/ Drop(S)
       \/ \E o \in lent : GiveBack(o)
    /\ alive' = used' \cup lent'

Spec == Init /\ [][Next]_vars
=============================================================================
