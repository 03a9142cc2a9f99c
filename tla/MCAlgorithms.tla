---------------------------- MODULE MCAlgorithms ----------------------------
EXTENDS Algorithms

MCTypes == {"nil", "bool", "int", "uint", "nint", "nuint", "float", "string",
            "string_literal", "array", "tuple", "object", "weak_object", "variant"}

MCInts == UNION {{Num(t, n) : n \in IntRange(WidthOf(t), IsUnsigned(t))} : t \in Integral}
MCLeaf(x) == {Num("int", 3), Bool(TRUE), Str(x), Literal("a literal"), Nil, Object(x),
              EmptyObject(x), Weak(x)}
MCPairs == {<<a, b>> : a \in MCLeaf("a"), b \in MCLeaf("b")}
MCBoxes ==
    {Tuple(<<>>), Array("nil", <<>>)} \cup {Tuple(<<a>>) : a \in MCLeaf("a")}
    \cup {Array(a.type, <<a>>) : a \in MCLeaf("a")} \cup {Tuple(p) : p \in MCPairs}
    \cup {Array(p[1].type, p) : p \in {p \in MCPairs : p[1].type = p[2].type}}
MCValues ==
    LET flat == MCLeaf("a") \cup MCBoxes \cup {Num("float", 2), Weak(Gone)}
        boxed == {Variant(v) : v \in flat}
    IN MCInts \cup flat \cup boxed \cup {Tuple(<<v>>) : v \in MCBoxes \cup boxed}
       \cup {Array(v.type, <<v>>) : v \in MCBoxes \cup boxed}

TableOver(K, E) == {LuaTable(f, m) : f \in [K -> E], m \in BOOLEAN}
MCLuaLeaf == {LuaInt(1), LuaFloat(2), LuaBool(TRUE), LuaStr("a"), LuaProxy([id |-> 1]), LuaOther}
MCFlatTables == UNION {TableOver(K, MCLuaLeaf) : K \in SUBSET (0..2)}
MCLuaNode ==
    {LuaInt(1), LuaProxy([id |-> 1]), LuaTable(<<>>, FALSE), LuaTable(<<>>, TRUE),
     LuaTable(<<LuaInt(1)>>, FALSE), LuaTable(<<LuaInt(1), LuaFloat(2)>>, FALSE),
     LuaTable(<<LuaStr("a"), LuaInt(1)>>, FALSE), LuaTable(<<LuaTable(<<>>, FALSE)>>, FALSE)}
MCTables ==
    MCLuaLeaf \cup MCFlatTables \cup UNION {TableOver(K, MCLuaNode) : K \in {{1}, {2}, {1, 2}, {0, 1}}}
    \cup TableOver({1, 2, 3}, {LuaInt(1), LuaFloat(2)} \cup MCLuaNode)

MCAtoms == {Num("int", -9), Num("uint", 9), Num("uint", 20), Num("nuint", 12), Num("nint", -8), Num("nuint", 7), Num("float", 2),
            Bool(TRUE), Str("a"), Nil, Object("o")}
MCNested ==
    {Variant(v) : v \in MCAtoms} \cup {Tuple(<<v>>) : v \in MCAtoms}
    \cup {Tuple(<<v, Str("b")>>) : v \in MCAtoms} \cup {Array("string", <<Str("a"), Str("b")>>)}
MCArg ==
    MCAtoms \cup MCNested \cup {Variant(v) : v \in MCNested}
    \cup {Variant(Variant(v)) : v \in MCNested} \cup {Tuple(<<Variant(v)>>) : v \in MCNested}
    \cup {Variant(Tuple(<<Num("int", 1), Variant(v)>>)) : v \in MCNested}
    \cup {Array("variant", <<Variant(u), Variant(v)>>) : u, v \in {v \in MCAtoms : Sendable(v)}}
    \cup {Array(v.type, <<v, v>>) : v \in {v \in MCNested : Sendable(v)}}
(* No empty arrays, no arrays of types of fixed size or of what cannot be    *)
(* sent, and no literals.                                                    *)
MCMessages == {Tuple(<<v>>) : v \in MCArg} \cup {Tuple(<<u, v>>) : u \in MCArg, v \in MCAtoms \cup MCNested}

NumProcesses == 5
MCProcessLists ==
    {[i \in 1..NumProcesses |-> [pid |-> i, ppid |-> f[i]]] :
        f \in {f \in [1..NumProcesses -> 0..NumProcesses - 1] : \A i \in 1..NumProcesses : f[i] < i}}

NumNodes == 3
MCEdges == {s \in UNION {[1..n -> 1..NumNodes] : n \in 0..NumNodes} : IsInjective(s)}
MCMatchGraphs == [1..NumNodes -> MCEdges]

(* At most one constraint for each pair of variables.                        *)
Bounds == {-1, 0, 1}
MCConstraints(i) ==
    LET to(j) == {<<>>} \cup {<<<<j, k>>>> : k \in Bounds}
    IN {a \o b \o c : a \in IF i = 1 THEN {<<>>, <<<<1, -1>>>>} ELSE to(1), b \in IF i = 2 THEN {<<>>} ELSE to(2),
                      c \in IF i = 3 THEN {<<>>} ELSE to(3)}
MCSystems == {<<a, b, c>> : a \in MCConstraints(1), b \in MCConstraints(2), c \in MCConstraints(3)}
=============================================================================
