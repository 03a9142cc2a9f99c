----------------------------- MODULE DBusValues -----------------------------
(***************************************************************************)
(* Arguments of D-Bus messages (plugins/dbus/signature.c and sedes.c).  A    *)
(* tuple of values is sent with a signature, derived from the values or      *)
(* given by the caller as text, and read back as a tuple.  libdbus itself is *)
(* external: a message is a tree with the D-Bus type at each node.           *)
(***************************************************************************)
EXTENDS Values, FiniteSets, SequencesExt

(* Types of D-Bus: a letter, "a" with an element type, "(" with members.     *)
Basic(d) == [dbus |-> d]
ArrayOf(s) == [dbus |-> "a", of |-> s]
StructOf(ss) == [dbus |-> "(", of |-> ss]
NoSignature == [dbus |-> "none"]

BasicTypes == {"b", "n", "i", "x", "q", "u", "t", "d", "s", "o"}

(* di_type_to_dbus_basic, for the types that have a basic type.              *)
ToBasic(t) ==
    CASE t = "bool" -> "b" [] t = "int" -> "x" [] t = "uint" -> "t" [] t = "nint" -> "i"
      [] t = "nuint" -> "u" [] t = "float" -> "d"
      [] t \in {"string", "string_literal"} -> "s" [] OTHER -> "none"

(* is_basic_type_compatible.                                                 *)
Compatible(t, d) ==
    CASE d = "b" -> t = "bool"
      [] d \in {"n", "i", "x", "q", "u", "t"} -> t \in Integral
      [] d = "d" -> t = "float"
      [] d \in {"s", "o"} -> t = "string"
      [] OTHER -> FALSE

RECURSIVE VerifySignature(_, _)

(* verify_type_signature: whether the value can be sent as the type.         *)
VerifySignature(v, s) ==
    CASE ToBasic(v.type) # "none" -> Compatible(v.type, s.dbus)
      [] ToBasic(v.type) = "none" /\ s.dbus = "v" -> TRUE
      [] v.type = "variant" /\ s.dbus # "v" -> VerifySignature(v.inner, s)
      [] v.type = "array" /\ s.dbus = "a" -> \A i \in DOMAIN v.items : VerifySignature(v.items[i], s.of)
      [] v.type \in {"array", "tuple"} /\ s.dbus = "(" ->
            Len(v.items) = Len(s.of) /\ \A i \in DOMAIN s.of : VerifySignature(v.items[i], s.of[i])
      [] OTHER -> FALSE

RECURSIVE SignatureLength(_), SignatureOf(_)

(* type_signature_length_of_di_value: how much is allocated for a signature, *)
(* -1 for a value that cannot be sent, except for an array of such values,   *)
(* whose length is 1 + -1.  A variant counts as what is in it.               *)
SignatureLength(v) ==
    CASE ToBasic(v.type) # "none" -> 1
      [] v.type = "array"   -> 1 + SignatureLength(v.items[1])
      [] v.type = "tuple"   ->
            LET ls == [i \in DOMAIN v.items |-> SignatureLength(v.items[i])]
            IN IF \E i \in DOMAIN ls : ls[i] < 0 THEN -1 ELSE FoldLeft(+, 2, ls)
      [] v.type = "variant" -> SignatureLength(v.inner)
      [] OTHER -> -1

(* type_signature_of_di_value: the first element of an array stands for all, *)
(* the others are verified against it.                                       *)
ArraySignature(v, s) == IF VerifySignature(v, ArrayOf(s)) THEN ArrayOf(s) ELSE NoSignature

SignatureOf(v) ==
    IF SignatureLength(v) < 0 THEN NoSignature
    ELSE CASE ToBasic(v.type) # "none" -> Basic(ToBasic(v.type))
           [] v.type = "array"   -> ArraySignature(v, SignatureOf(v.items[1]))
           [] v.type = "tuple"   ->
                LET ss == [i \in DOMAIN v.items |-> SignatureOf(v.items[i])]
                IN IF NoSignature \in ToSet(ss) THEN NoSignature ELSE StructOf(ss)
           [] v.type = "variant" -> Basic("v")

-----------------------------------------------------------------------------
(* Signatures as text.                                                       *)

RECURSIVE SignatureText(_), ParseOne(_), ParseSequence(_, _)

SignatureText(s) ==
    CASE s.dbus = "a" -> <<"a">> \o SignatureText(s.of)
      [] s.dbus = "(" -> <<"(">> \o FlattenSeq([i \in DOMAIN s.of |-> SignatureText(s.of[i])]) \o <<")">>
      [] OTHER -> <<s.dbus>>

Parsed(s, rest) == [sig |-> s, rest |-> rest]

(* parse_dbus_signature_one: the first complete type and the rest.           *)
ParseOne(text) ==
    CASE Head(text) \in BasicTypes \cup {"v"} -> Parsed(Basic(Head(text)), Tail(text))
      [] Head(text) = "a" -> LET p == ParseOne(Tail(text)) IN Parsed(ArrayOf(p.sig), p.rest)
      [] Head(text) = "(" -> LET p == ParseSequence(Tail(text), ")")
                             IN Parsed(StructOf(p.sig), Tail(p.rest))

(* parse_dbus_signaure_sequence: up to the end character.                    *)
ParseSequence(text, end) ==
    IF text = <<>> \/ Head(text) = end THEN Parsed(<<>>, text)
    ELSE LET first == ParseOne(text)
             others == ParseSequence(first.rest, end)
         IN Parsed(<<first.sig>> \o others.sig, others.rest)

ParseSignature(text) == StructOf(ParseSequence(text, "").sig)

-----------------------------------------------------------------------------
(* Sending.                                                                  *)

Failed == [dbus |-> "failed"]
Unspecified == [dbus |-> "unspecified"]
Wire(d, x) == [dbus |-> d, val |-> x]
WireSeq(d, x) == [dbus |-> d, parts |-> x]


WireWidth(d) == CASE d \in {"n", "q"} -> 16 [] d \in {"i", "u"} -> 32 [] OTHER -> 64

(* dbus_serialize_integer converts to the signed type of the width for every *)
(* type; a value that does not fit, or is no integer, leaves the buffer as it *)
(* is, and it is sent.                                                       *)
Garbage == 1000

SerializeInteger(v, d) ==
    IF v.type \in Integral /\ v.num \in IntRange(WireWidth(d), FALSE)
    THEN Wire(d, v.num) ELSE Wire(d, Garbage)

SerializeBasic(v, d) ==
    CASE d = "b" -> IF v.type = "bool" THEN Wire(d, v.flag) ELSE Failed
      [] d \in {"n", "i", "x", "q", "u", "t"} -> SerializeInteger(v, d)
      [] d = "d" -> IF v.type = "float" THEN Wire(d, v.num) ELSE Failed
      [] d \in {"s", "o"} -> IF v.type = "string" THEN Wire(d, v.text) ELSE Failed

(* The NUL is at the end of what was allocated for the signature: it ends    *)
(* the signature only if that is as long as what was written.                *)
Terminated(v) == SignatureLength(v) = Len(SignatureText(SignatureOf(v)))

(* A container of these parts; what one without a signature is, nobody knows. *)
Container(d, parts) == IF Unspecified \in ToSet(parts) THEN Unspecified ELSE WireSeq(d, parts)

RECURSIVE Serialize(_, _)

(* The items in turn, each with its signature.                               *)
SerializeAll(d, items, sigs) ==
    LET parts == [i \in DOMAIN items |-> Serialize(items[i], sigs[i])]
    IN IF Failed \in ToSet(parts) THEN Failed ELSE Container(d, parts)

(* dbus_serialize_with_signature.  A variant loses a layer where a variant   *)
(* is asked for, and is unwrapped where it is not; anything but an array or  *)
(* a tuple is sent as an empty struct where a struct is asked for.  The      *)
(* signature of what is in a variant is passed to libdbus as a C string.     *)
Serialize(v, s) ==
    CASE s.dbus \in BasicTypes -> SerializeBasic(v, s.dbus)
      [] s.dbus = "v" ->
            LET inner == IF v.type = "variant" THEN v.inner ELSE v
            IN IF ~Terminated(inner) THEN Unspecified
               ELSE Container("v", <<Serialize(inner, SignatureOf(inner))>>)
      [] s.dbus \in {"a", "("} /\ v.type = "variant" -> Serialize(v.inner, s)
      [] s.dbus = "a" /\ v.type # "variant" ->
            IF v.type # "array" THEN Failed
            ELSE SerializeAll("a", v.items, [i \in DOMAIN v.items |-> s.of])
      [] s.dbus = "(" /\ v.type \in {"array", "tuple"} ->
            IF Len(s.of) # Len(v.items) THEN Failed
            ELSE SerializeAll("(", v.items, s.of)
      [] s.dbus = "(" /\ v.type \notin {"array", "tuple", "variant"} -> WireSeq("(", <<>>)
      [] OTHER -> Failed

(* dbus_serialize_struct: the arguments of a message, with the types of the  *)
(* tuple or of a signature that is given.                                    *)
SerializeStruct(t, s) ==
    IF s = NoSignature THEN Failed ELSE SerializeAll("message", t.items, s.of)

-----------------------------------------------------------------------------
(* Receiving.                                                                *)

(* dbus_type_to_di.                                                          *)
FromBasic(d) ==
    CASE d = "b" -> "bool" [] d \in {"n", "i", "x"} -> "int" [] d \in {"q", "u", "t"} -> "uint"
      [] d = "d" -> "float" [] d \in {"s", "o"} -> "string"
      [] d = "a" -> "array" [] d = "(" -> "tuple" [] d = "v" -> "variant"

(* dbus_type_is_fixed.                                                       *)
FixedTypes == BasicTypes \ {"s", "o"}

DeserializeBasic(w) ==
    CASE w.dbus = "b" -> Bool(w.val)
      [] w.dbus \in {"s", "o"} -> Str(w.val)
      [] OTHER -> Num(FromBasic(w.dbus), w.val)

RECURSIVE Deserialize(_)

(* dbus_deserialize_array: the elements of a fixed type are not given a type. *)
DeserializeArray(w) ==
    IF w.parts = <<>> THEN Array("any", <<>>)
    ELSE Array(IF w.parts[1].dbus \in FixedTypes THEN "undefined" ELSE FromBasic(w.parts[1].dbus),
               [i \in DOMAIN w.parts |-> Deserialize(w.parts[i])])

DeserializeStruct(w) == Tuple([i \in DOMAIN w.parts |-> Deserialize(w.parts[i])])

(* dbus_deserialize_one, without dictionaries.                               *)
Deserialize(w) ==
    CASE w.dbus \in BasicTypes -> DeserializeBasic(w)
      [] w.dbus = "v" -> Variant(Deserialize(w.parts[1]))
      [] w.dbus = "a" -> DeserializeArray(w)
      [] w.dbus \in {"(", "message"} -> DeserializeStruct(w)
=============================================================================
