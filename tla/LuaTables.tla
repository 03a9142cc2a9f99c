----------------------------- MODULE LuaTables ------------------------------
(***************************************************************************)
(* Lua values as values of deai and back (plugins/lua/lua.c).  A table whose *)
(* keys are 1..n and whose values have one type is an array; what that type  *)
(* is depends on the elements seen so far.  Other tables become objects,     *)
(* which Lua then sees through a proxy (see LuaBridge).                      *)
(***************************************************************************)
EXTENDS Values, FiniteSets

(* Lua values.  The keys of a table are positive integers, and 0 for a key   *)
(* that is not one.                                                          *)
LuaInt(n) == [lua |-> "integer", n |-> n]
LuaFloat(n) == [lua |-> "number", n |-> n]
LuaBool(b) == [lua |-> "boolean", flag |-> b]
LuaStr(x) == [lua |-> "string", text |-> x]
LuaProxy(x) == [lua |-> "proxy", obj |-> x]
LuaOther == [lua |-> "thread"]
LuaNil == [lua |-> "nil"]
LuaTable(f, m) == [lua |-> "table", at |-> f, meta |-> m]

(* lua_rawgeti.                                                              *)
RawGeti(t, i) == IF i \in DOMAIN t.at THEN t.at[i] ELSE LuaNil

NotArray == [ok |-> FALSE, n |-> 0, elem |-> "any"]
IsArray(n, elem) == [ok |-> TRUE, n |-> n, elem |-> elem]

(* The type of the elements so far and the type of one more, or "none".      *)
(* Mutant: an integer after a float ends the array.                          *)
UnifyTypesInOrder(elem, t) ==
    CASE t = elem                                  -> elem
      [] t = "float" /\ elem = "int"               -> "float"
      [] t = "array" /\ elem = "empty_object"      -> "array"
      [] OTHER                                     -> "none"

UnifyTypes(elem, t) ==
    CASE t = elem                                  -> elem
      [] t = "float" /\ elem = "int"               -> "float"
      [] t = "array" /\ elem = "empty_object"      -> "array"
      [] t = "int" /\ elem = "float"               -> elem
      [] OTHER                                     -> "none"

RECURSIVE TypeToDiValue(_, _), CheckElements(_, _, _)

(* The rest of di_lua_checkarray: one step per remaining key of the table.   *)
CheckElements(t, i, elem) ==
    IF i > Cardinality(DOMAIN t.at) THEN IsArray(i - 1, elem)
    ELSE LET e == UnifyTypes(elem, TypeToDiValue(RawGeti(t, i), elem).type)
         IN IF e = "none" THEN NotArray ELSE CheckElements(t, i + 1, e)

CheckArray(t) ==
    IF DOMAIN t.at = {} THEN IsArray(0, "any")
    ELSE LET e == TypeToDiValue(RawGeti(t, 1), "any").type
         IN IF e = "nil" THEN NotArray ELSE CheckElements(t, 2, e)

(* di_lua_table_to_array.                                                    *)
TableToArray(t, n, elem) ==
    Array(elem, [i \in 1..n |->
        LET v == TypeToDiValue(RawGeti(t, i), elem)
        IN IF v.type # elem THEN Num("float", v.num) ELSE v])

(* di_lua_type_to_di: hint is the type that is expected.                     *)
TypeToDiValue(x, hint) ==
    CASE x.lua = "boolean" -> Bool(x.flag)
      [] x.lua = "integer" -> Num("int", x.n)
      [] x.lua = "number"  -> Num("float", x.n)
      [] x.lua = "string"  -> Str(x.text)
      [] x.lua = "proxy"   -> Object(x.obj)
      [] x.lua = "table"   ->
           LET a == CheckArray(x)
           IN IF ~a.ok \/ x.meta THEN Object(x)
              ELSE IF a.n = 0 /\ hint # "array" THEN EmptyObject(x)
              ELSE TableToArray(x, a.n, a.elem)
      [] OTHER -> Nil

RECURSIVE PushVariant(_)

(* di_lua_pushvariant, for values that come from Lua.                        *)
PushVariant(v) ==
    CASE v.type \in Integral                      -> LuaInt(v.num)
      [] v.type = "float"                         -> LuaFloat(v.num)
      [] v.type = "bool"                          -> LuaBool(v.flag)
      [] v.type \in {"string", "string_literal"}  -> LuaStr(v.text)
      [] v.type \in {"object", "empty_object"}    -> LuaProxy(v.obj)
      [] v.type \in {"array", "tuple"} ->
            LuaTable([i \in DOMAIN v.items |-> PushVariant(v.items[i])], FALSE)
      [] v.type = "variant" -> PushVariant(v.inner)
      [] OTHER -> LuaNil

-----------------------------------------------------------------------------
(* What di_lua_checkarray says it takes for an array, without an order in    *)
(* which elements are looked at: the keys are 1..n and no others, and the    *)
(* values are of one type.  (The documentation of the plugin would take the  *)
(* largest run of keys from 1 of a table that has other keys too.)           *)

Elements(t) == {t.at[i] : i \in DOMAIN t.at}

RECURSIVE IsList(_)
IsEmptyTable(x) == x.lua = "table" /\ ~x.meta /\ DOMAIN x.at = {}
IsListOrEmpty(x) == x.lua = "table" /\ (IsEmptyTable(x) \/ IsList(x))

IsList(t) ==
    /\ ~t.meta /\ DOMAIN t.at # {} /\ DOMAIN t.at = 1..Cardinality(DOMAIN t.at)
    /\ LET E == Elements(t)
       IN \/ \A x \in E : x.lua \in {"integer", "number"}
          \/ \A x \in E : x.lua = "string"
          \/ \A x \in E : x.lua = "boolean"
          \/ \A x \in E : IsListOrEmpty(x)
          \/ \A x \in E : x.lua = "proxy" \/ (x.lua = "table" /\ ~IsListOrEmpty(x))

RECURSIVE Seen(_, _)

(* What a script gets back for x: lists as lists, their numbers all floats   *)
(* if one is, empty tables as empty lists where lists are expected, and      *)
(* anything else with a content of its own as a proxy.                       *)
Seen(x, asList) ==
    CASE x.lua = "table" /\ (IsList(x) \/ (IsEmptyTable(x) /\ asList)) ->
           LET E == Elements(x)
               floats == \E e \in E : e.lua = "number"
               lists == \E e \in E : e.lua = "table" /\ IsList(e)
           IN LuaTable([i \in DOMAIN x.at |->
                 IF x.at[i].lua = "integer" /\ floats THEN LuaFloat(x.at[i].n)
                 ELSE Seen(x.at[i], lists)], FALSE)
      [] x.lua = "table" /\ ~IsList(x) /\ ~(IsEmptyTable(x) /\ asList) -> LuaProxy(x)
      [] x.lua = "thread" -> LuaNil
      [] OTHER -> x
=============================================================================
