----------------------------- MODULE Conversion -----------------------------
(***************************************************************************)
(* di_type_conversion (bindings/c++/conv.cc), which every call of a method   *)
(* and every typed read of a property goes through.  A conversion of an      *)
(* owned value moves it into a converter; what the converter still has when  *)
(* it is destroyed is freed.  A conversion of a borrowed value may only      *)
(* point into it.                                                            *)
(***************************************************************************)
EXTENDS Values

(* The result, whether it was found, and what is left in the converter.      *)
Found(to, left) == [ok |-> TRUE, to |-> to, left |-> left]
NotFound(left) == [ok |-> FALSE, to |-> Nil, left |-> left]

(* The converter reads a tuple or an array as if it were a variant.          *)
Undefined == [type |-> "undefined"]

-----------------------------------------------------------------------------
(* DeaiCheckedIntConverter: the integer n, from an unsigned type or not, as  *)
(* an integer of width w.  Unsigned results are truncated and compared.      *)
CheckedInt(n, fromUnsigned, w, unsigned) ==
    CASE ~unsigned /\ w < 64 -> n \in IntRange(w, FALSE)
      [] unsigned /\ w < 64  -> (fromUnsigned \/ n >= 0) /\ n % 2^Bits(w) = n
      [] ~unsigned /\ w = 64 -> fromUnsigned => n <= 2^(Bits(64) - 1) - 1
      [] unsigned /\ w = 64  -> fromUnsigned \/ n >= 0

(* di_int_conversion, for a value of an integer type.                        *)
IntConversion(v, w, unsigned) ==
    IF v.type \in Integral /\ CheckedInt(v.num, IsUnsigned(v.type), w, unsigned)
    THEN Found(v.num, Nil) ELSE NotFound(Nil)

-----------------------------------------------------------------------------
(* tuple_to_array.  The array of a tuple with one element is the element,    *)
(* which the converter keeps too.                                            *)
TupleToArray(v, borrow) ==
    LET t == v.items IN
    CASE t = <<>>               -> Found(Array("nil", <<>>), v)
      [] Len(t) = 1             -> Found(Array(t[1].type, t), v)
      [] Len(t) > 1 /\ borrow   -> NotFound(v)
      [] OTHER -> IF \A i \in DOMAIN t : t[i].type = t[1].type
                  THEN Found(Array(t[1].type, t), Nil) ELSE NotFound(v)

(* Mutant: the array stays in the converter.                                 *)
ArrayToTupleKept(v, borrow) ==
    IF v.items # <<>> /\ borrow THEN NotFound(v) ELSE Found(Tuple(v.items), v)

ArrayToTuple(v, borrow) ==
    CASE v.items = <<>>            -> Found(Tuple(<<>>), v)
      [] v.items # <<>> /\ borrow  -> NotFound(v)
      [] OTHER                     -> Found(Tuple(v.items), Nil)

Moved(v) == Found(v, Nil)

RECURSIVE Convert(_, _, _)

(* try_from_inner: the conversion of what is in a variant, or in a tuple or  *)
(* an array with one element.  The outer value is taken apart first.         *)
TryFromInner(v, to, borrow) ==
    CASE v.type = "variant" -> Convert(v.inner, to, borrow)
      [] v.type \in {"tuple", "array"} /\ Len(v.items) = 1 ->
            IF borrow THEN Found(Undefined, v) ELSE Convert(v.items[1], to, borrow)
      [] OTHER -> NotFound(v)

NumberConversion(v, to, borrow) ==
    CASE v.type \in Integral ->
           IF to = "float" THEN Found(Num(to, v.num), v)
           ELSE IF IntConversion(v, WidthOf(to), IsUnsigned(to)).ok
           THEN Found(Num(to, v.num), v) ELSE NotFound(v)
      [] v.type = "float" -> IF to = "float" THEN Found(v, v) ELSE NotFound(v)
      [] OTHER -> TryFromInner(v, to, borrow)

(* A literal is not owned: its string is a copy, or borrows it.              *)
StringConversion(v, borrow) ==
    CASE v.type = "string"         -> Moved(v)
      [] v.type = "string_literal" -> Found(IF borrow THEN Str(v.text) ELSE Str("copy"), v)
      [] OTHER                     -> TryFromInner(v, "string", borrow)

ArrayConversion(v, borrow) ==
    CASE v.type = "array"                   -> Moved(v)
      [] v.type \in {"nil", "empty_object"} -> Found(Array("nil", <<>>), v)
      [] v.type = "tuple"                   -> TupleToArray(v, borrow)
      [] OTHER                              -> TryFromInner(v, "array", borrow)

TupleConversion(v, borrow) ==
    CASE v.type = "tuple"                   -> Moved(v)
      [] v.type \in {"nil", "empty_object"} -> Found(Tuple(<<>>), v)
      [] v.type = "array"                   -> ArrayToTuple(v, borrow)
      [] OTHER                              -> TryFromInner(v, "tuple", borrow)

(* An object that has been destroyed while a weak reference was kept.         *)
Gone == "gone"

(* A weak reference is upgraded to a new one, unless its object is gone.      *)
ObjectConversion(v, borrow) ==
    CASE v.type \in {"object", "empty_object"} -> Moved(Object(v.obj))
      [] v.type = "weak_object" /\ ~borrow     ->
            IF v.obj = Gone THEN NotFound(v) ELSE Found(Object("new"), v)
      [] OTHER                                 -> TryFromInner(v, "object", borrow)

WeakConversion(v, borrow) ==
    CASE v.type = "weak_object" -> Moved(v)
      [] v.type \in {"object", "empty_object"} ->
            Found(IF borrow THEN Weak(v.obj) ELSE Weak("new"), v)
      [] v.type = "nil"         -> Found(Weak("dead"), v)
      [] OTHER                  -> TryFromInner(v, "weak_object", borrow)

(* di_type_conversion_impl.  An owned value is copied into a variant and     *)
(* stays in the converter.                                                   *)
Convert(v, to, borrow) ==
    CASE to \in Integral \cup {"float"} -> NumberConversion(v, to, borrow)
      [] to = "bool" -> IF v.type = "bool" THEN Found(v, v) ELSE TryFromInner(v, to, borrow)
      [] to = "string"         -> StringConversion(v, borrow)
      [] to = "string_literal" ->
           IF v.type = to THEN Found(v, v) ELSE TryFromInner(v, to, borrow)
      [] to = "array"          -> ArrayConversion(v, borrow)
      [] to = "tuple"          -> TupleConversion(v, borrow)
      [] to = "object"         -> ObjectConversion(v, borrow)
      [] to = "weak_object"    -> WeakConversion(v, borrow)
      [] to = "variant"        -> Found(Variant(v), v)
      [] OTHER                 -> NotFound(v)

TypeConversion(v, to, borrow) ==
    IF v.type = to THEN Moved(v) ELSE Convert(v, to, borrow)
=============================================================================
