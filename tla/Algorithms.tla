----------------------------- MODULE Algorithms -----------------------------
(***************************************************************************)
(* The pure parts of deai as calls: a call is made with some input and       *)
(* returns once.  The properties compare what it returns with a definition   *)
(* that says what was asked for, for every input of the constant sets.       *)
(***************************************************************************)
EXTENDS Conversion, LuaTables, DBusValues, ProcessTree, Solvers

CONSTANTS Values,         \* values that are converted
          Types,          \* types they are converted to
          Tables,         \* Lua values that a script passes
          Messages,       \* tuples that are sent as the arguments of a message
          ProcessLists,   \* lists of processes as read from /proc
          MatchGraphs,    \* inputs of bipartite_match
          Systems         \* inputs of difference_constraints

VARIABLES call, result
vars == <<call, result>>

NotYet == [returned |-> FALSE]
Returned(r) == [returned |-> TRUE, val |-> r]

Init ==
    /\ result = NotYet
    /\ \/ \E v \in Values, t \in Types, b \in BOOLEAN :
             call = [fn |-> "convert", value |-> v, to |-> t, borrow |-> b]
       \/ \E x \in Tables : call = [fn |-> "table", lua |-> x]
       \/ \E t \in Messages : call = [fn |-> "message", args |-> t]
       \/ \E ps \in ProcessLists : \E p \in Pids(ps) :
             call = [fn |-> "kill", processes |-> ps, self |-> p]
       \/ \E g \in MatchGraphs : call = [fn |-> "match", graph |-> g]
       \/ \E cs \in Systems : call = [fn |-> "solve", system |-> cs]

Return(fn, r) ==
    /\ result = NotYet /\ call.fn = fn
    /\ result' = Returned(r)
    /\ UNCHANGED call

CallConvert == Return("convert", TypeConversion(call.value, call.to, call.borrow))

(* A Lua value that is passed to deai and read back.                         *)
CallTable == Return("table", PushVariant(TypeToDiValue(call.lua, "any")))

(* The arguments as they are sent, with the types of the values and with the *)
(* same types given as text, and as they are read.                           *)
CallMessage ==
    LET s == SignatureOf(call.args)
        text == FlattenSeq([i \in DOMAIN s.of |-> SignatureText(s.of[i])])
        sent == SerializeStruct(call.args, s)
    IN Return("message",
         [sent |-> sent,
          given |-> IF s = NoSignature THEN Failed
                    ELSE SerializeStruct(call.args, ParseSignature(text)),
          read |-> IF sent \in {Failed, Unspecified} THEN Nil ELSE Deserialize(sent)])

CallKill == Return("kill", KillAllDescendants(call.processes, call.self))
CallMatch == Return("match", BipartiteMatch(call.graph))
CallSolve == Return("solve", DifferenceConstraints(call.system))

Next == CallConvert \/ CallTable \/ CallMessage \/ CallKill \/ CallMatch \/ CallSolve

Spec == Init /\ [][Next]_vars

-----------------------------------------------------------------------------
Has(fn) == call.fn = fn /\ result.returned

RECURSIVE Cells(_)
(* The strings and references that a value owns.                             *)
Cells(v) ==
    CASE v.type = "string" -> {v.text}
      [] v.type \in {"object", "empty_object", "weak_object"} -> {v.obj}
      [] v.type \in {"array", "tuple"} -> UNION {Cells(v.items[i]) : i \in DOMAIN v.items}
      [] v.type = "variant" -> Cells(v.inner)
      [] OTHER -> {}

Fresh == {"copy", "new", "dead"}

RECURSIVE Unwrapped(_)
(* What is in a value, under variants and under tuples and arrays of one.    *)
Unwrapped(v) ==
    CASE v.type = "variant" -> {v} \cup Unwrapped(v.inner)
      [] v.type \in {"tuple", "array"} /\ Len(v.items) = 1 -> {v} \cup Unwrapped(v.items[1])
      [] OTHER -> {v}

(* The conversions of owned values that share what they were given: to a    *)
(* variant, and of a tuple of one to an array.                               *)
Shares(v, to) ==
    \/ to = "variant" /\ v.type # "variant"
    \/ to = "array" /\ \E u \in Unwrapped(v) : u.type = "tuple" /\ Len(u.items) = 1

(* A conversion has the type that is asked for; everything an owned value    *)
(* owned is afterwards owned by exactly one of the result and the converter, *)
(* so that it is freed once; a borrowed value gives nothing that would need  *)
(* to be freed; and an integer is converted exactly if the new type has it.  *)
(* Not claimed where the code shares the value, and where it reads a         *)
(* borrowed tuple or array of one as a variant.                              *)
ConversionsSound ==
    Has("convert") =>
        LET v == call.value  r == result.val  old == Cells(r.to) \ Fresh IN
        /\ call.borrow /\ r.to # Undefined =>
              /\ r.ok => r.to.type = call.to
              /\ Cells(r.to) \subseteq Cells(v) \cup {"a literal", "dead"}
        /\ ~call.borrow /\ ~Shares(v, call.to) =>
              /\ r.ok => r.to.type = call.to
              /\ old \cap Cells(r.left) = {}
              /\ old \cup Cells(r.left) = Cells(v)
        /\ v.type \in Integral /\ call.to \in Integral =>
              (r.ok <=> v.num \in IntRange(WidthOf(call.to), IsUnsigned(call.to)))

(* What a script gets back for a value that it has passed to deai does not   *)
(* depend on the order in which di_lua_checkarray looks at the elements of a *)
(* table: tables with the keys 1..n and no others and values of one type     *)
(* stay tables, whatever else has a content becomes a proxy.  (This is the   *)
(* convention in the comment of di_lua_checkarray, lua.c:955, not the one of *)
(* the plugin's documentation, which keeps the run 1..n of any table.)       *)
TablesRoundTrip == Has("table") => result.val = Seen(call.lua, FALSE)

RECURSIVE Widened(_)
(* Integers lose their width and sign on the bus.                            *)
Widened(v) ==
    CASE v.type \in Integral -> Num("int", v.num)
      [] v.type = "array" -> Array(IF v.elem \in Integral THEN "int" ELSE v.elem,
                                   [i \in DOMAIN v.items |-> Widened(v.items[i])])
      [] v.type = "tuple" -> Tuple([i \in DOMAIN v.items |-> Widened(v.items[i])])
      [] v.type = "variant" -> Variant(Widened(v.inner))
      [] OTHER -> v

RECURSIVE Sendable(_)
(* Numbers, booleans and strings, and what is made of them.                  *)
Sendable(v) ==
    CASE v.type \in {"array", "tuple"} -> \A i \in DOMAIN v.items : Sendable(v.items[i])
      [] v.type = "variant" -> Sendable(v.inner)
      [] OTHER -> v.type \in Integral \cup {"float", "bool", "string"}

RECURSIVE Fits(_)
(* Integers that the signed type of their width has.                         *)
Fits(v) ==
    CASE v.type \in Integral -> v.num \in IntRange(WidthOf(v.type), FALSE)
      [] v.type \in {"array", "tuple"} -> \A i \in DOMAIN v.items : Fits(v.items[i])
      [] v.type = "variant" -> Fits(v.inner)
      [] OTHER -> TRUE

RECURSIVE Hides(_), HidesBelow(_)
(* An array or a tuple is in a variant that is a part of v.                  *)
Hides(v) ==
    CASE v.type = "variant" -> v.inner.type \in {"array", "tuple"} \/ Hides(v.inner)
      [] v.type \in {"array", "tuple"} -> \E i \in DOMAIN v.items : Hides(v.items[i])
      [] OTHER -> FALSE

(* A variant of such a value is somewhere in v.                              *)
HidesBelow(v) ==
    CASE v.type = "variant" -> Hides(v.inner) \/ HidesBelow(v.inner)
      [] v.type \in {"array", "tuple"} -> \E i \in DOMAIN v.items : HidesBelow(v.items[i])
      [] OTHER -> FALSE


(* When /proc lists parents before their children and this process is not    *)
(* the end of its list, exactly its descendants are killed.                  *)
KillsDescendants ==
    Has("kill") /\ ParentsFirst(call.processes) /\ ~EldestLine(call.processes, call.self) =>
        /\ result.val.defined
        /\ result.val.killed = Descendants(call.processes, call.self)

(* bipartite_match returns a matching, and there is no larger one, if the    *)
(* right nodes fit the array that marks them.                                *)
MatchingMaximum ==
    Has("match") /\ VisitedFits(call.graph) =>
        LET matched == {i \in DOMAIN call.graph : result.val[i] # Unmatched}
        IN /\ IsMatching(call.graph, result.val)
           /\ Cardinality(matched) = LargestMatching(call.graph)

(* difference_constraints returns a solution of every system that has one,   *)
(* so its bound on the iterations is enough, and throws for the others.      *)
(* (Solvable systems with bounds of at least -1 are solved within -n..0.)    *)
ConstraintsSolved ==
    Has("solve") =>
        LET n == Len(call.system)
            solvable == \E x \in [1..n -> -n..0] : Satisfied(call.system, x)
        IN /\ result.val.ok <=> solvable
           /\ result.val.ok => Satisfied(call.system, result.val.x)
=============================================================================
