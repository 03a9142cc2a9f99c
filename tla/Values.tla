------------------------------- MODULE Values -------------------------------
(***************************************************************************)
(* Values of deai (di_type and di_value, include/deai/object.h) as trees.    *)
(* A number has a value, a string its text, an object an identity; arrays    *)
(* and tuples have items, and an array the type of its elements.  Pointers   *)
(* are left out: they are only passed on.                                    *)
(***************************************************************************)
EXTENDS Integers, Sequences

Nil == [type |-> "nil"]
Num(t, n) == [type |-> t, num |-> n]
Bool(b) == [type |-> "bool", flag |-> b]
Str(x) == [type |-> "string", text |-> x]
Literal(x) == [type |-> "string_literal", text |-> x]
Object(x) == [type |-> "object", obj |-> x]
EmptyObject(x) == [type |-> "empty_object", obj |-> x]
Weak(x) == [type |-> "weak_object", obj |-> x]
Array(t, s) == [type |-> "array", elem |-> t, items |-> s]
Tuple(s) == [type |-> "tuple", items |-> s]
Variant(v) == [type |-> "variant", inner |-> v]

Integral == {"int", "uint", "nint", "nuint"}

(* Widths are scaled so that every value of a type can be enumerated: 2, 3,  *)
(* 4 and 5 bits stand for 8, 16, 32 and 64.                                  *)
Bits(w) == CASE w = 8 -> 2 [] w = 16 -> 3 [] w = 32 -> 4 [] w = 64 -> 5
WidthOf(t) == IF t \in {"int", "uint"} THEN 64 ELSE 32
IsUnsigned(t) == t \in {"uint", "nuint"}

IntRange(w, unsigned) ==
    IF unsigned THEN 0 .. 2^Bits(w) - 1 ELSE -(2^(Bits(w) - 1)) .. 2^(Bits(w) - 1) - 1
=============================================================================
