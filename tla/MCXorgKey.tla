----------------------------- MODULE MCXorgKey ------------------------------
(* Small instances for the checks of XorgKey.                                *)
EXTENDS XorgKey

Combo(k, m) == [keysym |-> k, mods |-> m]

(* Two combinations with the same modifiers, so that they can exchange keys. *)
Bound == {Combo("d", "mod4"), Combo("f", "mod4")}

(* Layouts in which the keysyms exchange their keys, in which they share a   *)
(* key, and in which one has no key.                                         *)
Layout(d, f) == [k \in {"d", "f"} |-> IF k = "d" THEN d ELSE f]
Layouts == {Layout({1}, {2}), Layout({2}, {1}), Layout({1, 2}, {1}), Layout({2}, {})}

(* Another client grabs a key that both are on.                              *)
Wanted == {<<1, "mod4">>}
=============================================================================
