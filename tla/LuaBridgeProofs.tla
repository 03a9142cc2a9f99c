--------------------------- MODULE LuaBridgeProofs ---------------------------
(***************************************************************************)
(* Proofs about LuaBridge, for any objects, Lua values, userdata and       *)
(* registry slots, and calls nested to any depth: the two invariants of    *)
(* the proxies, and that the plugin implements SharedOwner.                *)
(***************************************************************************)
EXTENDS LuaBridge, FiniteSetTheorems, TLAPS

-----------------------------------------------------------------------------
(* The inductive invariant.                                                  *)

Frames == [self : Objects, owns : BOOLEAN, args : SUBSET Objects]

(* deai code references o: with a value of its own, from a call, or in the   *)
(* garbage collection that ends the state.                                   *)
Used(o, n, c, d) ==
    \/ n[o] > 0
    \/ \E k \in DOMAIN c : c[k].owns /\ c[k].self = o
    \/ \E k \in DOMAIN c : o \in c[k].args
    \/ o \in d

Lent(o, m) == \E u \in Uds : m[u] = o

(* An object is alive as long as it is referenced.                           *)
AliveReferenced(a, n, m, c, d) ==
    \A o \in Objects : o \in a <=> Used(o, n, c, d) \/ Lent(o, m)

(* A userdata has its object, and the state object a member for it.          *)
Members(ph, p, m) == \A u \in Uds : m[u] = p[u] /\ (ph[u] = "free" <=> p[u] = None)

(* The slot of an object refers to the one proxy that is live, or to none.   *)
Linked(ph, p, t, reg) ==
    /\ \A u \in Uds : ph[u] = "live" => t[p[u]] # None /\ reg[t[p[u]]] = WeakTo(u)
    /\ \A o \in Objects : t[o] # None =>
          /\ \E u \in Uds : p[u] = o
          /\ \E w \in Uds \cup {None} :
                reg[t[o]] = WeakTo(w) /\ (w # None => ph[w] = "live" /\ p[w] = o)

(* A LuaProxy has a slot of its own, with its value.                         *)
Slotted(a, tr, reg, vs) ==
    /\ \A r \in a \cap Refs : tr[r] \in Slots /\ \E v \in Vals : reg[tr[r]] = Value(v)
    /\ \A r, s \in a \cap Refs : tr[r] = tr[s] => r = s
    /\ \A i \in Slots, v \in Vals : reg[i] = Value(v) => v \in vs

Reached(v, h, reg) == v \in h \/ \E i \in Slots : reg[i] = Value(v)

(* The proxies and values Lua code can get hold of are not collected.        *)
Scoped(ph, reg, vs, cs, h) ==
    /\ \A u \in h \cap Uds : ph[u] = "live"
    /\ h \cap Vals \subseteq vs
    /\ \A v \in Vals : v \notin vs => cs[v] = {}
    /\ \A v \in vs : Reached(v, h, reg) => \A u \in cs[v] : ph[u] = "live"

WhileOpen ==
    lua = "open" =>
        /\ doomed = {}
        /\ Slotted(alive, tref, registry, vals)
        /\ Scoped(phase, registry, vals, contents, held)

(* No call is under way and deai code has no reference to a LuaProxy.        *)
Idle(n, c) == c = <<>> /\ \A r \in Refs : n[r] = 0

WhileClosing ==
    lua = "closing" =>
        /\ doomed = alive \cap Refs
        /\ Idle(native, calls)

WhileClosed ==
    lua = "closed" =>
        /\ doomed = {} /\ alive \cap Refs = {} /\ Idle(native, calls)
        /\ \A u \in Uds : phase[u] = "free"
        /\ registry = [i \in Slots |-> Empty]
        /\ vals = {} /\ held = {} /\ contents = [v \in Vals |-> {}]

Inv ==
    /\ TypeOK
    /\ AliveReferenced(alive, native, member, calls, doomed)
    /\ Members(phase, ptr, member)
    /\ Linked(phase, ptr, toRef, registry)
    /\ WhileOpen
    /\ WhileClosing
    /\ WhileClosed

-----------------------------------------------------------------------------
(* Counting references.                                                      *)

LEMMA CountPositive ==
    ASSUME NEW S, IsFiniteSet(S)
    PROVE  Cardinality(S) \in Nat /\ (Cardinality(S) > 0 <=> S # {})
<1>1. Cardinality(S) \in Nat /\ (Cardinality(S) = 0 <=> S = {})
  BY FS_CardinalityType, FS_EmptySet
<1>. QED  BY <1>1

LEMMA FramesFinite ==
    ASSUME NEW c \in Seq(Frames), NEW S \in SUBSET (DOMAIN c)
    PROVE  IsFiniteSet(S)
<1>1. DOMAIN c = 1 .. Len(c) /\ Len(c) \in Nat
  OBVIOUS
<1>2. IsFiniteSet(1 .. Len(c))
  BY <1>1, FS_Interval
<1>. QED  BY <1>1, <1>2, FS_Subset

(* A reference count is positive when there is a reference.                  *)
LEMMA Counts ==
    ASSUME NEW o \in Objects, NEW n \in [Objects -> 0 .. MaxNative], NEW m,
           NEW c \in Seq(Frames)
    PROVE  /\ RefCount(o, n, m, c) > 0 <=> Used(o, n, c, doomed) \/ Lent(o, m)
           /\ RefCount(o, n, m, c) = 0 <=> ~(Used(o, n, c, doomed) \/ Lent(o, m))
<1>. DEFINE M == {u \in Uds : m[u] = o}
            S == {k \in DOMAIN c : c[k].owns /\ c[k].self = o}
            A == {k \in DOMAIN c : o \in c[k].args}
            D == IF o \in doomed THEN 1 ELSE 0
<1>1. IsFiniteSet(M)
  BY FS_Subset, BridgeAssumption
<1>2. IsFiniteSet(S)
  BY FramesFinite
<1>3. IsFiniteSet(A)
  BY FramesFinite
<1>4. Lent(o, m) <=> M # {}
  BY DEF Lent
<1>5. Used(o, n, c, doomed) <=> n[o] > 0 \/ S # {} \/ A # {} \/ o \in doomed
  BY DEF Used
<1>6. n[o] \in Nat
  BY BridgeAssumption
<1>7. RefCount(o, n, m, c) = n[o] + Cardinality(M) + Cardinality(S) + Cardinality(A) + D
  BY DEF RefCount
<1>8. D \in Nat /\ (D > 0 <=> o \in doomed)
  OBVIOUS
<1>. HIDE DEF M, S, A, D
<1>9. Cardinality(M) \in Nat /\ (Cardinality(M) > 0 <=> M # {})
  BY <1>1, CountPositive
<1>10. Cardinality(S) \in Nat /\ (Cardinality(S) > 0 <=> S # {})
  BY <1>2, CountPositive
<1>11. Cardinality(A) \in Nat /\ (Cardinality(A) > 0 <=> A # {})
  BY <1>3, CountPositive
<1>12. RefCount(o, n, m, c) \in Nat
  BY <1>6, <1>7, <1>8, <1>9, <1>10, <1>11
<1>13. RefCount(o, n, m, c) > 0 <=>
         n[o] > 0 \/ Cardinality(M) > 0 \/ Cardinality(S) > 0 \/ Cardinality(A) > 0 \/ D > 0
  BY <1>6, <1>7, <1>8, <1>9, <1>10, <1>11
<1>14. RefCount(o, n, m, c) > 0 <=> Used(o, n, c, doomed) \/ Lent(o, m)
  BY <1>4, <1>5, <1>8, <1>9, <1>10, <1>11, <1>13
<1>15. RefCount(o, n, m, c) = 0 <=> ~(RefCount(o, n, m, c) > 0)
  BY <1>12
<1>. QED  BY <1>14, <1>15

-----------------------------------------------------------------------------
(* Types, and what changes when references do.                               *)

Entries == [kind : {"empty", "weak", "value"}, of : Uds \cup Vals \cup {None}]

LEMMA EntryKinds ==
    /\ Empty \in Entries
    /\ \A w \in Uds \cup {None} : WeakTo(w) \in Entries
    /\ \A v \in Vals : Value(v) \in Entries
    /\ \A w, v : WeakTo(w) # Value(v) /\ WeakTo(w) # Empty /\ Value(v) # Empty
    /\ \A w, x : WeakTo(w) = WeakTo(x) => w = x
    /\ \A v, x : Value(v) = Value(x) => v = x
    /\ \A x : WeakTo(x).of = x /\ WeakTo(x).kind = "weak" /\ Value(x).of = x
                /\ Value(x).kind = "value"
    /\ Empty.kind = "empty"
  BY DEF Empty, WeakTo, Value, Entries

LEMMA Types ==
    TypeOK <=>
      /\ lua \in {"open", "closing", "closed"}
      /\ alive \subseteq Objects
      /\ native \in [Objects -> 0 .. MaxNative]
      /\ calls \in Seq(Frames)
      /\ phase \in [Uds -> {"free", "live", "dead"}]
      /\ ptr \in [Uds -> Objects \cup {None}]
      /\ member \in [Uds -> Objects \cup {None}]
      /\ toRef \in [Objects -> Slots \cup {None}]
      /\ registry \in [Slots -> Entries]
      /\ tref \in [Refs -> Slots \cup {None}]
      /\ cache \in [Vals -> Refs \cup {None}]
      /\ vals \subseteq Vals /\ contents \in [Vals -> SUBSET Uds]
      /\ held \subseteq Uds \cup Vals /\ wheld \subseteq Objects /\ doomed \subseteq Refs
  BY DEF TypeOK, Frames, Entries

LEMMA TypesPrime ==
    TypeOK' <=>
      /\ lua' \in {"open", "closing", "closed"}
      /\ alive' \subseteq Objects
      /\ native' \in [Objects -> 0 .. MaxNative]
      /\ calls' \in Seq(Frames)
      /\ phase' \in [Uds -> {"free", "live", "dead"}]
      /\ ptr' \in [Uds -> Objects \cup {None}]
      /\ member' \in [Uds -> Objects \cup {None}]
      /\ toRef' \in [Objects -> Slots \cup {None}]
      /\ registry' \in [Slots -> Entries]
      /\ tref' \in [Refs -> Slots \cup {None}]
      /\ cache' \in [Vals -> Refs \cup {None}]
      /\ vals' \subseteq Vals /\ contents' \in [Vals -> SUBSET Uds]
      /\ held' \subseteq Uds \cup Vals /\ wheld' \subseteq Objects /\ doomed' \subseteq Refs
  BY DEF TypeOK, Frames, Entries

(* Nobody comes to reference an object that is not alive.                    *)
OnlyAlive(n, m, c) == \A o \in Objects : Used(o, n, c, doomed) \/ Lent(o, m) => o \in alive

(* The objects that lose their last reference are destroyed, and no others;  *)
(* the registry keeps every slot that is not of a LuaProxy among them.       *)
LEMMA ReferencesFacts ==
    ASSUME Inv, NEW n \in [Objects -> 0 .. MaxNative], NEW m, NEW c \in Seq(Frames),
           NEW reg \in [Slots -> Entries], References(n, m, c, reg),
           OnlyAlive(n, m, c)
    PROVE  /\ native' = n /\ member' = m /\ calls' = c
           /\ alive' \subseteq alive
           /\ AliveReferenced(alive', n, m, c, doomed)
           /\ registry' \in [Slots -> Entries]
           /\ \A i \in Slots : registry'[i] = reg[i] \/ registry'[i] = Empty
           /\ \A i \in Slots : registry'[i] # reg[i] =>
                 \E r \in Refs : r \in alive /\ r \notin alive' /\ tref[r] = i
<1>. DEFINE dead == {o \in alive : RefCount(o, n, m, c) = 0}
<1>1. /\ native' = n /\ member' = m /\ calls' = c /\ alive' = alive \ dead
      /\ registry' = LuaRefDtor(reg, dead)
  BY DEF References
<1>2. alive \subseteq Objects
  BY Types DEF Inv
<1>3. \A o \in alive : o \in dead <=> ~(Used(o, n, c, doomed) \/ Lent(o, m))
  BY <1>2, Counts
<1>4. dead \subseteq alive
  OBVIOUS
<1>. HIDE DEF dead
<1>5. AliveReferenced(alive', n, m, c, doomed)
  BY <1>1, <1>2, <1>3 DEF AliveReferenced, OnlyAlive
<1>6. registry' = [i \in Slots |-> IF \E r \in dead \cap Refs : tref[r] = i THEN Empty ELSE reg[i]]
  BY <1>1 DEF LuaRefDtor, Unref
<1>7. registry' \in [Slots -> Entries]
  BY <1>6, EntryKinds
<1>8. \A i \in Slots : registry'[i] = IF \E r \in dead \cap Refs : tref[r] = i THEN Empty ELSE reg[i]
  BY <1>6
<1>9. \A r \in dead : r \in alive /\ r \notin alive'
  BY <1>1, <1>4
<1>10. alive' \subseteq alive
  BY <1>1
<1>11. \A i \in Slots : registry'[i] # reg[i] =>
          \E r \in Refs : r \in alive /\ r \notin alive' /\ tref[r] = i
  BY <1>8, <1>9
<1>12. \A i \in Slots : registry'[i] = reg[i] \/ registry'[i] = Empty
  BY <1>8
<1>. QED  BY <1>1, <1>5, <1>7, <1>10, <1>11, <1>12

(* Weak references survive the destruction of LuaProxies.                    *)
LEMMA LinkedKept ==
    ASSUME NEW ph, NEW p, NEW t, NEW reg, NEW reg2, Linked(ph, p, t, reg),
           p \in [Uds -> Objects \cup {None}], t \in [Objects -> Slots \cup {None}],
           \A u \in Uds : ph[u] = "live" => p[u] # None,
           \A i \in Slots : \A w : reg[i] = WeakTo(w) => reg2[i] = WeakTo(w)
    PROVE  Linked(ph, p, t, reg2)
<1>1. ASSUME NEW u \in Uds, ph[u] = "live"
      PROVE  t[p[u]] # None /\ reg2[t[p[u]]] = WeakTo(u)
  <2>1. p[u] \in Objects
    BY <1>1
  <2>2. t[p[u]] # None /\ reg[t[p[u]]] = WeakTo(u)
    BY <1>1 DEF Linked
  <2>3. t[p[u]] \in Slots
    BY <2>1, <2>2
  <2>. QED  BY <2>2, <2>3
<1>2. ASSUME NEW o \in Objects, t[o] # None
      PROVE  /\ \E u \in Uds : p[u] = o
             /\ \E w \in Uds \cup {None} :
                   reg2[t[o]] = WeakTo(w) /\ (w # None => ph[w] = "live" /\ p[w] = o)
  <2>1. t[o] \in Slots
    BY <1>2
  <2>2. PICK w \in Uds \cup {None} :
            reg[t[o]] = WeakTo(w) /\ (w # None => ph[w] = "live" /\ p[w] = o)
    BY <1>2 DEF Linked
  <2>3. reg2[t[o]] = WeakTo(w)
    BY <2>1, <2>2
  <2>4. \E u \in Uds : p[u] = o
    BY <1>2 DEF Linked
  <2>. QED  BY <2>2, <2>3, <2>4
<1>. QED  BY <1>1, <1>2 DEF Linked

(* So do the slots of the other LuaProxies, and nothing comes into scope.    *)
LEMMA SlottedKept ==
    ASSUME NEW a, NEW b, NEW reg, NEW reg2, NEW vs, Slotted(a, tref, reg, vs), b \subseteq a,
           \A i \in Slots : reg2[i] = reg[i] \/ reg2[i] = Empty,
           \A i \in Slots : reg2[i] # reg[i] => \E r \in Refs : r \in a /\ r \notin b /\ tref[r] = i
    PROVE  Slotted(b, tref, reg2, vs)
<1>1. ASSUME NEW r \in b \cap Refs
      PROVE  tref[r] \in Slots /\ \E v \in Vals : reg2[tref[r]] = Value(v)
  <2>1. r \in a \cap Refs
    BY <1>1
  <2>2. tref[r] \in Slots /\ \E v \in Vals : reg[tref[r]] = Value(v)
    BY <2>1 DEF Slotted
  <2>3. ASSUME NEW s \in Refs, s \in a, s \notin b, tref[s] = tref[r]
        PROVE  FALSE
    BY <1>1, <2>1, <2>3 DEF Slotted
  <2>4. reg2[tref[r]] = reg[tref[r]]
    BY <2>2, <2>3
  <2>. QED  BY <2>2, <2>4
<1>2. \A r, s \in b \cap Refs : tref[r] = tref[s] => r = s
  BY DEF Slotted
<1>3. \A i \in Slots, v \in Vals : reg2[i] = Value(v) => v \in vs
  BY EntryKinds DEF Slotted
<1>. QED  BY <1>1, <1>2, <1>3 DEF Slotted

LEMMA ScopedKept ==
    ASSUME NEW ph, NEW reg, NEW reg2, NEW vs, NEW cs, NEW h, Scoped(ph, reg, vs, cs, h),
           vs \subseteq Vals,
           \A i \in Slots, v \in Vals : reg2[i] = Value(v) => reg[i] = Value(v)
    PROVE  Scoped(ph, reg2, vs, cs, h)
<1>1. \A v \in vs : Reached(v, h, reg2) => Reached(v, h, reg)
  BY DEF Reached
<1>. QED  BY <1>1 DEF Scoped

(* What every change of the references keeps.                                *)
LEMMA AfterReferences ==
    ASSUME Inv, lua' = lua, doomed' = doomed, tref' = tref,
           NEW n \in [Objects -> 0 .. MaxNative], NEW m, NEW c \in Seq(Frames),
           NEW reg \in [Slots -> Entries], References(n, m, c, reg),
           OnlyAlive(n, m, c),
           lua = "open" => Slotted(alive, tref, reg, vals),
           lua # "open" => Idle(n, c)
    PROVE  /\ alive' \subseteq alive /\ alive' \subseteq Objects
           /\ registry' \in [Slots -> Entries]
           /\ AliveReferenced(alive', n, m, c, doomed)
           /\ lua = "open" => Slotted(alive', tref, registry', vals)
           /\ \A i \in Slots : \A w : reg[i] = WeakTo(w) => registry'[i] = WeakTo(w)
           /\ \A i \in Slots, v \in Vals : registry'[i] = Value(v) => reg[i] = Value(v)
           /\ lua # "open" => registry' = reg
           /\ WhileClosing'
           /\ lua = "closed" => alive' \cap Refs = {}
<1>1. /\ native' = n /\ member' = m /\ calls' = c
      /\ alive' \subseteq alive
      /\ AliveReferenced(alive', n, m, c, doomed)
      /\ registry' \in [Slots -> Entries]
      /\ \A i \in Slots : registry'[i] = reg[i] \/ registry'[i] = Empty
      /\ \A i \in Slots : registry'[i] # reg[i] =>
            \E r \in Refs : r \in alive /\ r \notin alive' /\ tref[r] = i
  BY ReferencesFacts
<1>2. alive \subseteq Objects /\ doomed \subseteq Refs /\ Refs \subseteq Objects
      /\ lua \in {"open", "closing", "closed"}
  BY Types DEF Inv, Objects
<1>3. lua = "closing" => doomed = alive' \cap Refs
  <2>1. lua = "closing" => doomed = alive \cap Refs
    BY DEF Inv, WhileClosing
  <2>2. \A r \in doomed : r \in alive'
    BY <1>1, <1>2 DEF AliveReferenced, Used
  <2>. QED  BY <1>1, <1>2, <2>1, <2>2
<1>4. lua = "closed" => alive \cap Refs = {}
  BY DEF Inv, WhileClosed
<1>5. ASSUME lua # "open", NEW r \in Refs, r \in alive, r \notin alive'
      PROVE  FALSE
  <2>1. lua = "closing" => doomed = alive \cap Refs
    BY DEF Inv, WhileClosing
  <2>. QED  BY <1>2, <1>3, <1>4, <1>5, <2>1
<1>6. lua # "open" => registry' = reg
  <2>1. ASSUME lua # "open"
        PROVE  registry' = reg
    <3>1. \A i \in Slots : registry'[i] = reg[i]
      BY <1>1, <1>5, <2>1
    <3>. QED  BY <1>1, <3>1
  <2>. QED  BY <2>1
<1>7. \A i \in Slots : \A w : reg[i] = WeakTo(w) => registry'[i] = WeakTo(w)
  <2>1. CASE lua = "open"
    <3>1. \A r \in alive \cap Refs : \E v \in Vals : reg[tref[r]] = Value(v)
      BY <2>1 DEF Slotted
    <3>. QED  BY <1>1, <3>1, EntryKinds
  <2>2. CASE lua # "open"
    BY <1>6, <2>2
  <2>. QED  BY <2>1, <2>2
<1>8. lua = "open" => Slotted(alive', tref, registry', vals)
  <2>1. ASSUME lua = "open"
        PROVE  Slotted(alive', tref, registry', vals)
    <3>1. Slotted(alive, tref, reg, vals)
      BY <2>1
    <3>. QED  BY <1>1, <3>1, SlottedKept
  <2>. QED  BY <2>1
<1>9. \A i \in Slots, v \in Vals : registry'[i] = Value(v) => reg[i] = Value(v)
  BY <1>1, EntryKinds
<1>10. WhileClosing'
  BY <1>1, <1>3 DEF WhileClosing
<1>. QED  BY <1>1, <1>2, <1>4, <1>6, <1>7, <1>8, <1>9, <1>10

LEMMA ReferencesWhileOpen ==
    ASSUME Inv, lua = "open", lua' = lua, doomed' = doomed, tref' = tref,
           NEW n \in [Objects -> 0 .. MaxNative], NEW m, NEW c \in Seq(Frames),
           NEW reg \in [Slots -> Entries], References(n, m, c, reg),
           OnlyAlive(n, m, c),
           Slotted(alive, tref, reg, vals)
    PROVE  /\ alive' \subseteq alive /\ alive' \subseteq Objects
           /\ registry' \in [Slots -> Entries]
           /\ AliveReferenced(alive', n, m, c, doomed)
           /\ Slotted(alive', tref, registry', vals)
           /\ \A i \in Slots : \A w : reg[i] = WeakTo(w) => registry'[i] = WeakTo(w)
           /\ \A i \in Slots, v \in Vals : registry'[i] = Value(v) => reg[i] = Value(v)
<1>1. lua = "open" => Slotted(alive, tref, reg, vals)
  OBVIOUS
<1>2. lua # "open" => Idle(n, c)
  OBVIOUS
<1>. QED  BY <1>1, <1>2, AfterReferences

-----------------------------------------------------------------------------
(* Proxies that Lua gets, and proxies that are finalized.                    *)

LEMMA LinkedFacts ==
    ASSUME Inv
    PROVE  /\ \A u \in Uds : phase[u] # "free" => ptr[u] \in Objects /\ ptr[u] # None
           /\ \A u \in Uds : phase[u] = "live" => ptr[u] # None
           /\ \A u \in Uds : phase[u] = "live" =>
                 /\ toRef[ptr[u]] # None /\ toRef[ptr[u]] \in Slots
                 /\ registry[toRef[ptr[u]]] = WeakTo(u)
                 /\ Current(ptr[u]) = u
           /\ \A o \in Objects : toRef[o] # None =>
                 toRef[o] \in Slots /\ registry[toRef[o]] = WeakTo(Current(o))
           /\ \A o \in Objects : Current(o) # None =>
                 /\ Current(o) \in Uds /\ phase[Current(o)] = "live" /\ ptr[Current(o)] = o
                 /\ toRef[o] # None
<1>1. /\ phase \in [Uds -> {"free", "live", "dead"}] /\ ptr \in [Uds -> Objects \cup {None}]
      /\ toRef \in [Objects -> Slots \cup {None}]
      /\ Members(phase, ptr, member) /\ Linked(phase, ptr, toRef, registry)
  BY Types DEF Inv
<1>2. \A u \in Uds : phase[u] # "free" => ptr[u] \in Objects /\ ptr[u] # None
  BY <1>1 DEF Members
<1>3. \A u \in Uds : phase[u] = "live" => ptr[u] \in Objects /\ ptr[u] # None
  BY <1>2
<1>4. ASSUME NEW u \in Uds, phase[u] = "live"
      PROVE  /\ toRef[ptr[u]] # None /\ toRef[ptr[u]] \in Slots
             /\ registry[toRef[ptr[u]]] = WeakTo(u)
             /\ Current(ptr[u]) = u
  <2>1. toRef[ptr[u]] # None /\ registry[toRef[ptr[u]]] = WeakTo(u)
    BY <1>1, <1>4 DEF Linked
  <2>2. toRef[ptr[u]] \in Slots
    BY <1>1, <1>3, <1>4, <2>1
  <2>. QED  BY <2>1, <2>2, EntryKinds DEF Current, WeakrefGet
<1>5. ASSUME NEW o \in Objects, toRef[o] # None
      PROVE  /\ toRef[o] \in Slots /\ registry[toRef[o]] = WeakTo(Current(o))
             /\ Current(o) # None =>
                  Current(o) \in Uds /\ phase[Current(o)] = "live" /\ ptr[Current(o)] = o
  <2>1. PICK w \in Uds \cup {None} :
            registry[toRef[o]] = WeakTo(w) /\ (w # None => phase[w] = "live" /\ ptr[w] = o)
    BY <1>1, <1>5 DEF Linked
  <2>2. Current(o) = w
    BY <1>5, <2>1, EntryKinds DEF Current, WeakrefGet
  <2>. QED  BY <1>1, <1>5, <2>1, <2>2
<1>6. \A o \in Objects : Current(o) # None => toRef[o] # None
  BY DEF Current
<1>. QED  BY <1>2, <1>3, <1>4, <1>5, <1>6

(* A new proxy takes a free slot and the place of none.                      *)
LEMMA NewProxyLinked ==
    ASSUME Inv, NEW o \in Objects, NEW u \in Uds, NEW i \in Slots, Current(o) = None,
           phase[u] = "free", registry[i] = Empty
    PROVE  Linked([phase EXCEPT ![u] = "live"], [ptr EXCEPT ![u] = o],
                  [toRef EXCEPT ![o] = i], [registry EXCEPT ![i] = WeakTo(u)])
<1>. DEFINE ph == [phase EXCEPT ![u] = "live"]
            p == [ptr EXCEPT ![u] = o]
            t == [toRef EXCEPT ![o] = i]
            reg == [registry EXCEPT ![i] = WeakTo(u)]
<1>1. /\ phase \in [Uds -> {"free", "live", "dead"}] /\ ptr \in [Uds -> Objects \cup {None}]
      /\ toRef \in [Objects -> Slots \cup {None}] /\ registry \in [Slots -> Entries]
      /\ Members(phase, ptr, member)
  BY Types DEF Inv
<1>2. None \notin Objects /\ None \notin Slots /\ None \notin Uds
  BY BridgeAssumption DEF Objects
<1>3. /\ ph[u] = "live" /\ (\A x \in Uds : x # u => ph[x] = phase[x])
      /\ p[u] = o /\ (\A x \in Uds : x # u => p[x] = ptr[x])
      /\ t[o] = i /\ (\A y \in Objects : y # o => t[y] = toRef[y])
      /\ reg[i] = WeakTo(u) /\ (\A j \in Slots : j # i => reg[j] = registry[j])
  BY <1>1
<1>. HIDE DEF ph, p, t, reg
<1>4. ASSUME NEW x \in Uds, ph[x] = "live"
      PROVE  t[p[x]] # None /\ reg[t[p[x]]] = WeakTo(x)
  <2>1. CASE x = u
    BY <1>2, <1>3, <2>1
  <2>2. CASE x # u
    <3>1. phase[x] = "live" /\ p[x] = ptr[x]
      BY <1>3, <1>4, <2>2
    <3>2. /\ ptr[x] \in Objects /\ toRef[ptr[x]] # None /\ toRef[ptr[x]] \in Slots
          /\ registry[toRef[ptr[x]]] = WeakTo(x) /\ Current(ptr[x]) = x
      BY <3>1, LinkedFacts
    <3>3. ptr[x] # o
      BY <1>2, <3>2
    <3>4. toRef[ptr[x]] # i
      BY <3>2, EntryKinds
    <3>. QED  BY <1>3, <3>1, <3>2, <3>3, <3>4
  <2>. QED  BY <2>1, <2>2
<1>5. ASSUME NEW y \in Objects, t[y] # None
      PROVE  /\ \E x \in Uds : p[x] = y
             /\ \E w \in Uds \cup {None} :
                   reg[t[y]] = WeakTo(w) /\ (w # None => ph[w] = "live" /\ p[w] = y)
  <2>1. CASE y = o
    BY <1>3, <2>1
  <2>2. CASE y # o
    <3>1. t[y] = toRef[y] /\ toRef[y] # None
      BY <1>3, <1>5, <2>2
    <3>2. toRef[y] \in Slots /\ registry[toRef[y]] = WeakTo(Current(y))
      BY <3>1, LinkedFacts
    <3>3. toRef[y] # i
      BY <3>2, EntryKinds
    <3>4. reg[t[y]] = WeakTo(Current(y))
      BY <1>3, <3>1, <3>2, <3>3
    <3>5. Current(y) # None => /\ Current(y) \in Uds /\ phase[Current(y)] = "live"
                               /\ ptr[Current(y)] = y
      BY LinkedFacts
    <3>6. Current(y) # u
      BY <1>2, <3>5
    <3>7. Current(y) # None => ph[Current(y)] = "live" /\ p[Current(y)] = y
      BY <1>3, <3>5, <3>6
    <3>8. PICK x \in Uds : ptr[x] = y
      BY <3>1 DEF Inv, Linked
    <3>9. x # u
      BY <1>1, <1>2, <3>8 DEF Members
    <3>10. p[x] = y
      BY <1>3, <3>8, <3>9
    <3>11. Current(y) \in Uds \cup {None}
      BY <3>5
    <3>. QED  BY <3>4, <3>7, <3>10, <3>11
  <2>. QED  BY <2>1, <2>2
<1>6. Linked(ph, p, t, reg)
  BY <1>4, <1>5 DEF Linked
<1>. QED  BY <1>6 DEF ph, p, t, reg

(* Lua gets the proxy u of an object that is alive.                          *)
LEMMA Pushes ==
    ASSUME Inv, lua = "open", lua' = lua, doomed' = doomed, tref' = tref, vals' = vals,
           NEW o \in alive, NEW u \in Uds,
           NEW n \in [Objects -> 0 .. MaxNative], NEW c \in Seq(Frames),
           \A x \in Objects : Used(x, n, c, doomed) => x \in alive,
           PushObject(o, u, n, c)
    PROVE  /\ native' = n /\ calls' = c
           /\ alive' \subseteq Objects
           /\ phase' \in [Uds -> {"free", "live", "dead"}]
           /\ ptr' \in [Uds -> Objects \cup {None}]
           /\ member' \in [Uds -> Objects \cup {None}]
           /\ toRef' \in [Objects -> Slots \cup {None}]
           /\ registry' \in [Slots -> Entries]
           /\ AliveReferenced(alive', native', member', calls', doomed')
           /\ Members(phase', ptr', member')
           /\ Linked(phase', ptr', toRef', registry')
           /\ Slotted(alive', tref', registry', vals')
           /\ phase'[u] = "live"
           /\ \A x \in Uds : phase[x] = "live" => phase'[x] = "live"
           /\ \A i \in Slots, v \in Vals : registry'[i] = Value(v) => registry[i] = Value(v)
           /\ \A x \in Objects : Lent(x, member') <=> Lent(x, member) \/ x = o
<1>1. /\ phase \in [Uds -> {"free", "live", "dead"}] /\ ptr \in [Uds -> Objects \cup {None}]
      /\ member \in [Uds -> Objects \cup {None}]
      /\ toRef \in [Objects -> Slots \cup {None}] /\ registry \in [Slots -> Entries]
      /\ alive \subseteq Objects /\ o \in Objects
      /\ Members(phase, ptr, member) /\ Linked(phase, ptr, toRef, registry)
      /\ Slotted(alive, tref, registry, vals)
      /\ AliveReferenced(alive, native, member, calls, doomed)
  BY Types DEF Inv, WhileOpen
<1>2. None \notin Objects /\ None \notin Uds
  BY BridgeAssumption DEF Objects
<1>3. \A x \in Objects : Lent(x, member) => x \in alive
  BY <1>1 DEF AliveReferenced
<1>4. CASE Current(o) = u /\ UNCHANGED proxyVars /\ References(n, member, c, registry)
  <2>1. UNCHANGED <<phase, ptr, toRef>>
    BY <1>4 DEF proxyVars
  <2>2. phase[u] = "live" /\ ptr[u] = o
    BY <1>1, <1>2, <1>4, LinkedFacts
  <2>3. Lent(o, member)
    BY <1>1, <2>2 DEF Lent, Members
  <2>4. OnlyAlive(n, member, c)
    BY <1>3 DEF OnlyAlive
  <2>5. References(n, member, c, registry)
    BY <1>4
  <2>6. native' = n /\ member' = member /\ calls' = c
    BY <2>5 DEF References
  <2>7. /\ alive' \subseteq Objects
        /\ registry' \in [Slots -> Entries]
        /\ AliveReferenced(alive', n, member, c, doomed)
        /\ Slotted(alive', tref, registry', vals)
        /\ \A i \in Slots : \A w : registry[i] = WeakTo(w) => registry'[i] = WeakTo(w)
        /\ \A i \in Slots, v \in Vals : registry'[i] = Value(v) => registry[i] = Value(v)
    BY <1>1, <2>4, <2>5, ReferencesWhileOpen
  <2>8. Linked(phase, ptr, toRef, registry')
    <3>1. \A x \in Uds : phase[x] = "live" => ptr[x] # None
      BY LinkedFacts
    <3>. QED  BY <1>1, <2>7, <3>1, LinkedKept
  <2>9. \A x \in Objects : Lent(x, member') <=> Lent(x, member) \/ x = o
    BY <2>3, <2>6
  <2>. QED  BY <1>1, <2>1, <2>2, <2>6, <2>7, <2>8, <2>9
<1>5. CASE Current(o) = None /\ \E i \in FreeSlots : PushProxy(o, u, i, n, c)
  <2>1. PICK i \in FreeSlots : PushProxy(o, u, i, n, c)
    BY <1>5
  <2>. DEFINE ph == [phase EXCEPT ![u] = "live"]
              p == [ptr EXCEPT ![u] = o]
              t == [toRef EXCEPT ![o] = i]
              m == [member EXCEPT ![u] = o]
              reg == [registry EXCEPT ![i] = WeakTo(u)]
  <2>2. /\ phase[u] = "free" /\ i \in Slots /\ registry[i] = Empty
        /\ phase' = ph /\ ptr' = p /\ toRef' = t /\ References(n, m, c, reg)
    BY <2>1 DEF PushProxy, FreeSlots
  <2>3. /\ ph \in [Uds -> {"free", "live", "dead"}] /\ p \in [Uds -> Objects \cup {None}]
        /\ m \in [Uds -> Objects \cup {None}] /\ t \in [Objects -> Slots \cup {None}]
        /\ ph[u] = "live" /\ (\A x \in Uds : x # u => ph[x] = phase[x])
        /\ p[u] = o /\ (\A x \in Uds : x # u => p[x] = ptr[x])
        /\ m[u] = o /\ (\A x \in Uds : x # u => m[x] = member[x])
    BY <1>1, <2>2
  <2>4. /\ reg \in [Slots -> Entries]
        /\ reg[i] = WeakTo(u) /\ (\A j \in Slots : j # i => reg[j] = registry[j])
    BY <1>1, <2>2, EntryKinds
  <2>5. Linked(ph, p, t, reg)
    BY <1>1, <1>5, <2>2, NewProxyLinked
  <2>. HIDE DEF ph, p, t, m, reg
  <2>6. member[u] = None
    BY <1>1, <2>2 DEF Members
  <2>7. \A x \in Objects : Lent(x, m) <=> Lent(x, member) \/ x = o
    <3>1. ASSUME NEW x \in Objects, Lent(x, m) PROVE Lent(x, member) \/ x = o
      BY <2>3, <3>1 DEF Lent
    <3>2. ASSUME NEW x \in Objects, Lent(x, member) PROVE Lent(x, m)
      BY <1>2, <2>3, <2>6, <3>2 DEF Lent
    <3>3. Lent(o, m)
      BY <2>3 DEF Lent
    <3>. QED  BY <3>1, <3>2, <3>3
  <2>8. Members(ph, p, m)
    BY <1>1, <1>2, <2>3 DEF Members
  <2>9. Slotted(alive, tref, reg, vals)
    <3>1. ASSUME NEW r \in alive \cap Refs
          PROVE  tref[r] \in Slots /\ \E v \in Vals : reg[tref[r]] = Value(v)
      <4>1. tref[r] \in Slots /\ \E v \in Vals : registry[tref[r]] = Value(v)
        BY <1>1 DEF Slotted
      <4>2. tref[r] # i
        BY <2>2, <4>1, EntryKinds
      <4>. QED  BY <2>4, <4>1, <4>2
    <3>2. \A j \in Slots, v \in Vals : reg[j] = Value(v) => registry[j] = Value(v)
      BY <2>4, EntryKinds
    <3>. QED  BY <1>1, <3>1, <3>2 DEF Slotted
  <2>10. OnlyAlive(n, m, c)
    BY <1>3, <2>7 DEF OnlyAlive
  <2>11. native' = n /\ member' = m /\ calls' = c
    BY <2>2 DEF References
  <2>12. /\ alive' \subseteq Objects
         /\ registry' \in [Slots -> Entries]
         /\ AliveReferenced(alive', n, m, c, doomed)
         /\ Slotted(alive', tref, registry', vals)
         /\ \A j \in Slots : \A w : reg[j] = WeakTo(w) => registry'[j] = WeakTo(w)
         /\ \A j \in Slots, v \in Vals : registry'[j] = Value(v) => reg[j] = Value(v)
    <3>1. References(n, m, c, reg)
      BY <2>2
    <3>. QED  BY <2>4, <2>9, <2>10, <3>1, ReferencesWhileOpen
  <2>13. Linked(ph, p, t, registry')
    <3>1. \A x \in Uds : ph[x] = "live" => p[x] # None
      BY <2>8 DEF Members
    <3>. QED  BY <2>3, <2>5, <2>12, <3>1, LinkedKept
  <2>14. \A j \in Slots, v \in Vals : registry'[j] = Value(v) => registry[j] = Value(v)
    BY <2>4, <2>12, EntryKinds
  <2>15. \A x \in Uds : phase[x] = "live" => ph[x] = "live"
    BY <2>3
  <2>. QED  BY <2>2, <2>3, <2>7, <2>8, <2>11, <2>12, <2>13, <2>14, <2>15
<1>. QED  BY <1>4, <1>5 DEF PushObject

LiveKept(ph, ph2) == \A x \in Uds : ph[x] = "live" => ph2[x] = "live"

NoNewValues(reg, reg2) == \A i \in Slots, v \in Vals : reg2[i] = Value(v) => reg[i] = Value(v)

(* What Lua code could get hold of it still can, and the new proxy.          *)
LEMMA ScopedPush ==
    ASSUME NEW ph, NEW ph2, NEW reg, NEW reg2, NEW vs \in SUBSET Vals,
           NEW cs \in [Vals -> SUBSET Uds], NEW h, Scoped(ph, reg, vs, cs, h),
           LiveKept(ph, ph2), NoNewValues(reg, reg2), NEW u \in Uds, ph2[u] = "live"
    PROVE  Scoped(ph2, reg2, vs, cs, h) /\ Scoped(ph2, reg2, vs, cs, h \cup {u})
<1>1. u \notin Vals
  BY BridgeAssumption
<1>2. \A v \in vs : Reached(v, h \cup {u}, reg2) => Reached(v, h, reg)
  BY <1>1 DEF Reached, NoNewValues
<1>3. \A v \in vs : Reached(v, h, reg2) => Reached(v, h, reg)
  BY DEF Reached, NoNewValues
<1>4. \A v \in vs : Reached(v, h, reg) => \A x \in cs[v] : ph2[x] = "live"
  BY DEF Scoped, LiveKept
<1>5. \A x \in (h \cup {u}) \cap Uds : ph2[x] = "live"
  BY DEF Scoped, LiveKept
<1>6. (h \cup {u}) \cap Vals \subseteq vs /\ h \cap Vals \subseteq vs
  BY <1>1 DEF Scoped
<1>. QED  BY <1>2, <1>3, <1>4, <1>5, <1>6 DEF Scoped

LEMMA KeepsPush ==
    ASSUME Inv, lua = "open", lua' = lua, doomed' = doomed, tref' = tref, vals' = vals,
           cache' = cache, wheld' = wheld,
           NEW o \in alive, NEW u \in Uds, NEW c \in Seq(Frames),
           \A x \in Objects : Used(x, native, c, doomed) => Used(x, native, calls, doomed),
           PushObject(o, u, native, c),
           \/ held' = held \cup {u} /\ contents' = contents
           \/ /\ held' = held
              /\ \E v \in vals : contents[v] = {} /\ contents' = [contents EXCEPT ![v] = {u}]
    PROVE  /\ Inv'
           /\ native' = native /\ calls' = c
           /\ \A x \in Objects : Lent(x, member') <=> Lent(x, member) \/ x = o
<1>1. /\ native \in [Objects -> 0 .. MaxNative] /\ cache \in [Vals -> Refs \cup {None}]
      /\ tref \in [Refs -> Slots \cup {None}]
      /\ vals \in SUBSET Vals /\ contents \in [Vals -> SUBSET Uds]
      /\ held \subseteq Uds \cup Vals /\ wheld \subseteq Objects /\ doomed \subseteq Refs
      /\ alive \subseteq Objects
      /\ AliveReferenced(alive, native, member, calls, doomed)
      /\ doomed = {} /\ Scoped(phase, registry, vals, contents, held)
  BY Types DEF Inv, WhileOpen
<1>2. \A x \in Objects : Used(x, native, c, doomed) => x \in alive
  BY <1>1 DEF AliveReferenced
<1>3. /\ native' = native /\ calls' = c
      /\ alive' \subseteq Objects
      /\ phase' \in [Uds -> {"free", "live", "dead"}]
      /\ ptr' \in [Uds -> Objects \cup {None}]
      /\ member' \in [Uds -> Objects \cup {None}]
      /\ toRef' \in [Objects -> Slots \cup {None}]
      /\ registry' \in [Slots -> Entries]
      /\ AliveReferenced(alive', native', member', calls', doomed')
      /\ Members(phase', ptr', member')
      /\ Linked(phase', ptr', toRef', registry')
      /\ Slotted(alive', tref', registry', vals')
      /\ phase'[u] = "live"
      /\ \A x \in Uds : phase[x] = "live" => phase'[x] = "live"
      /\ \A i \in Slots, v \in Vals : registry'[i] = Value(v) => registry[i] = Value(v)
      /\ \A x \in Objects : Lent(x, member') <=> Lent(x, member) \/ x = o
  BY <1>1, <1>2, Pushes
<1>4. /\ Scoped(phase', registry', vals, contents, held)
      /\ Scoped(phase', registry', vals, contents, held \cup {u})
  <2>1. LiveKept(phase, phase') /\ NoNewValues(registry, registry')
    BY <1>3 DEF LiveKept, NoNewValues
  <2>2. Scoped(phase, registry, vals, contents, held) /\ phase'[u] = "live"
    BY <1>1, <1>3
  <2>3. vals \in SUBSET Vals /\ contents \in [Vals -> SUBSET Uds]
    BY <1>1
  <2>. QED  BY <2>1, <2>2, <2>3, ScopedPush
<1>5. /\ Scoped(phase', registry', vals', contents', held')
      /\ held' \subseteq Uds \cup Vals /\ contents' \in [Vals -> SUBSET Uds]
  <2>1. CASE held' = held \cup {u} /\ contents' = contents
    BY <1>1, <1>4, <2>1
  <2>2. CASE held' = held /\ \E v \in vals : /\ contents[v] = {}
                                             /\ contents' = [contents EXCEPT ![v] = {u}]
    <3>1. PICK v \in vals : contents' = [contents EXCEPT ![v] = {u}]
      BY <2>2
    <3>2. /\ contents' \in [Vals -> SUBSET Uds] /\ contents'[v] = {u}
          /\ \A x \in Vals : x # v => contents'[x] = contents[x]
      BY <1>1, <3>1
    <3>3. \A x \in Vals : x \notin vals => contents'[x] = {}
      BY <1>4, <3>2 DEF Scoped
    <3>4. \A x \in vals : Reached(x, held, registry') => \A y \in contents'[x] : phase'[y] = "live"
      BY <1>1, <1>3, <1>4, <3>2 DEF Scoped
    <3>. QED  BY <1>1, <1>4, <2>2, <3>2, <3>3, <3>4 DEF Scoped
  <2>. QED  BY <2>1, <2>2
<1>6. TypeOK'
  BY <1>1, <1>3, <1>5, TypesPrime
<1>7. WhileOpen' /\ WhileClosing' /\ WhileClosed'
  BY <1>1, <1>3, <1>5 DEF WhileOpen, WhileClosing, WhileClosed
<1>. QED  BY <1>3, <1>6, <1>7 DEF Inv

LEMMA NativeAlive ==
    ASSUME Inv, NEW o \in Objects, native[o] > 0
    PROVE  o \in alive
  BY DEF Inv, AliveReferenced, Used

LEMMA KeepsPushArgument ==
    ASSUME Inv, NEW o \in Objects, PushArgument(o)
    PROVE  /\ Inv' /\ native' = native /\ calls' = calls /\ doomed' = doomed
           /\ o \in alive /\ \A x \in Objects : Lent(x, member') <=> Lent(x, member) \/ x = o
<1>1. /\ lua = "open" /\ native[o] > 0
      /\ UNCHANGED <<lua, tref, cache, vals, contents, wheld, doomed>>
  BY DEF PushArgument, valueVars
<1>2. PICK u \in Uds : PushObject(o, u, native, calls) /\ held' = held \cup {u}
  BY DEF PushArgument
<1>3. o \in alive
  BY <1>1, NativeAlive
<1>4. calls \in Seq(Frames)
  BY Types DEF Inv
<1>. QED  BY <1>1, <1>2, <1>3, <1>4, KeepsPush

LEMMA KeepsUpgradeWeakRef ==
    ASSUME Inv, NEW o \in Objects, UpgradeWeakRef(o)
    PROVE  /\ Inv' /\ native' = native /\ calls' = calls /\ doomed' = doomed
           /\ o \in alive /\ \A x \in Objects : Lent(x, member') <=> Lent(x, member) \/ x = o
<1>1. /\ lua = "open" /\ o \in alive
      /\ UNCHANGED <<lua, tref, cache, vals, contents, wheld, doomed>>
  BY DEF UpgradeWeakRef, valueVars
<1>2. PICK u \in Uds : PushObject(o, u, native, calls) /\ held' = held \cup {u}
  BY DEF UpgradeWeakRef
<1>3. calls \in Seq(Frames)
  BY Types DEF Inv
<1>. QED  BY <1>1, <1>2, <1>3, KeepsPush

(* The Lua value of a LuaProxy is not collected, nor are its proxies.        *)
LEMMA ValueFacts ==
    ASSUME Inv, NEW r \in Refs, Reachable(r)
    PROVE  /\ lua = "open" /\ ValueOf(r) \in vals /\ Reached(ValueOf(r), held, registry)
           /\ \A u \in contents[ValueOf(r)] : u \in Uds /\ phase[u] = "live"
<1>1. lua = "open" /\ r \in alive
  BY DEF Reachable
<1>2. /\ Slotted(alive, tref, registry, vals) /\ Scoped(phase, registry, vals, contents, held)
      /\ vals \subseteq Vals /\ contents \in [Vals -> SUBSET Uds]
  BY <1>1, Types DEF Inv, WhileOpen
<1>3. PICK v \in Vals : tref[r] \in Slots /\ registry[tref[r]] = Value(v)
  BY <1>1, <1>2 DEF Slotted
<1>4. ValueOf(r) = v /\ v \in vals
  BY <1>2, <1>3, EntryKinds DEF ValueOf, Slotted
<1>5. Reached(v, held, registry)
  BY <1>3 DEF Reached
<1>. QED  BY <1>1, <1>2, <1>4, <1>5 DEF Scoped

LEMMA KeepsDiSetter ==
    ASSUME Inv, NEW r \in Refs, NEW o \in Objects, DiSetter(r, o)
    PROVE  /\ Inv' /\ native' = native /\ calls' = calls /\ doomed' = doomed
           /\ o \in alive /\ \A x \in Objects : Lent(x, member') <=> Lent(x, member) \/ x = o
<1>1. /\ Reachable(r) /\ native[o] > 0 /\ contents[ValueOf(r)] = {}
      /\ UNCHANGED <<lua, tref, cache, vals, held, wheld, doomed>>
  BY DEF DiSetter, valueVars
<1>2. PICK u \in Uds : /\ PushObject(o, u, native, calls)
                       /\ contents' = [contents EXCEPT ![ValueOf(r)] = {u}]
  BY DEF DiSetter
<1>3. o \in alive
  BY <1>1, NativeAlive
<1>4. lua = "open" /\ ValueOf(r) \in vals
  BY <1>1, ValueFacts
<1>5. calls \in Seq(Frames)
  BY Types DEF Inv
<1>6. \E v \in vals : contents[v] = {} /\ contents' = [contents EXCEPT ![v] = {u}]
  BY <1>1, <1>2, <1>4
<1>. QED  BY <1>1, <1>2, <1>3, <1>4, <1>5, <1>6, KeepsPush

(* The frames that are left when a call returns.                             *)
LEMMA RestFacts ==
    ASSUME Inv, calls # <<>>
    PROVE  /\ SubSeq(calls, 1, Len(calls) - 1) \in Seq(Frames)
           /\ \A x \in Objects :
                 Used(x, native, SubSeq(calls, 1, Len(calls) - 1), doomed) =>
                    Used(x, native, calls, doomed)
<1>. DEFINE rest == SubSeq(calls, 1, Len(calls) - 1)
<1>1. calls \in Seq(Frames)
  BY Types DEF Inv
<1>2. /\ rest \in Seq(Frames) /\ DOMAIN rest \subseteq DOMAIN calls
      /\ \A k \in DOMAIN rest : rest[k] = calls[k]
  <2>1. Len(calls) \in Nat /\ Len(calls) >= 1 /\ DOMAIN calls = 1 .. Len(calls)
    BY <1>1
  <2>2. /\ rest \in Seq(Frames) /\ Len(rest) = Len(calls) - 1
        /\ \A k \in 1 .. Len(calls) - 1 : rest[k] = calls[k]
    BY <1>1, <2>1
  <2>3. DOMAIN rest = 1 .. Len(calls) - 1
    BY <2>2
  <2>. QED  BY <2>1, <2>2, <2>3
<1>. HIDE DEF rest
<1>3. \A x \in Objects : Used(x, native, rest, doomed) => Used(x, native, calls, doomed)
  BY <1>2 DEF Used
<1>. QED  BY <1>2, <1>3 DEF rest

(* References come and go, and the proxies do not change.                    *)
LEMMA KeepsReferences ==
    ASSUME Inv, lua' = lua, doomed' = doomed, tref' = tref, vals' = vals, cache' = cache,
           wheld' = wheld, held' = held, contents' = contents,
           phase' = phase, ptr' = ptr, toRef' = toRef,
           NEW n \in [Objects -> 0 .. MaxNative], NEW c \in Seq(Frames),
           References(n, member, c, registry), OnlyAlive(n, member, c),
           lua # "open" => Idle(n, c)
    PROVE  Inv'
<1>1. /\ lua \in {"open", "closing", "closed"}
      /\ phase \in [Uds -> {"free", "live", "dead"}] /\ ptr \in [Uds -> Objects \cup {None}]
      /\ member \in [Uds -> Objects \cup {None}]
      /\ toRef \in [Objects -> Slots \cup {None}] /\ registry \in [Slots -> Entries]
      /\ tref \in [Refs -> Slots \cup {None}] /\ cache \in [Vals -> Refs \cup {None}]
      /\ vals \in SUBSET Vals /\ contents \in [Vals -> SUBSET Uds]
      /\ held \subseteq Uds \cup Vals /\ wheld \subseteq Objects /\ doomed \subseteq Refs
      /\ Members(phase, ptr, member) /\ Linked(phase, ptr, toRef, registry)
  BY Types DEF Inv
<1>2. native' = n /\ member' = member /\ calls' = c
  BY DEF References
<1>3. lua = "open" => Slotted(alive, tref, registry, vals)
  BY DEF Inv, WhileOpen
<1>4. /\ alive' \subseteq alive /\ alive' \subseteq Objects
      /\ registry' \in [Slots -> Entries]
      /\ AliveReferenced(alive', n, member, c, doomed)
      /\ lua = "open" => Slotted(alive', tref, registry', vals)
      /\ \A i \in Slots : \A w : registry[i] = WeakTo(w) => registry'[i] = WeakTo(w)
      /\ \A i \in Slots, v \in Vals : registry'[i] = Value(v) => registry[i] = Value(v)
      /\ lua # "open" => registry' = registry
      /\ WhileClosing'
      /\ lua = "closed" => alive' \cap Refs = {}
  BY <1>1, <1>3, AfterReferences
<1>5. Linked(phase, ptr, toRef, registry')
  <2>1. \A x \in Uds : phase[x] = "live" => ptr[x] # None
    BY LinkedFacts
  <2>. QED  BY <1>1, <1>4, <2>1, LinkedKept
<1>6. WhileOpen'
  <2>1. ASSUME lua = "open"
        PROVE  doomed = {} /\ Scoped(phase, registry', vals, contents, held)
    <3>1. doomed = {} /\ Scoped(phase, registry, vals, contents, held)
      BY <2>1 DEF Inv, WhileOpen
    <3>2. vals \subseteq Vals
      BY <1>1
    <3>. QED  BY <1>4, <3>1, <3>2, ScopedKept
  <2>. QED  BY <1>4, <2>1 DEF WhileOpen
<1>7. WhileClosed'
  BY <1>2, <1>4 DEF Inv, WhileClosed
<1>8. TypeOK'
  BY <1>1, <1>2, <1>4, TypesPrime
<1>9. AliveReferenced(alive', native', member', calls', doomed')
  BY <1>2, <1>4
<1>10. Members(phase', ptr', member') /\ Linked(phase', ptr', toRef', registry')
  BY <1>1, <1>2, <1>5
<1>. QED  BY <1>4, <1>6, <1>7, <1>8, <1>9, <1>10 DEF Inv

LEMMA KeepsReturn ==
    ASSUME Inv, Return
    PROVE  /\ Inv' /\ native' = native /\ doomed' = doomed
           /\ calls # <<>> /\ calls' = SubSeq(calls, 1, Len(calls) - 1)
           /\ \/ member' = member
              \/ \E o \in alive : \A x \in Objects : Lent(x, member') <=> Lent(x, member) \/ x = o
<1>. DEFINE rest == SubSeq(calls, 1, Len(calls) - 1)
<1>1. /\ lua = "open" /\ calls # <<>>
      /\ UNCHANGED <<lua, tref, cache, vals, contents, wheld, doomed>>
  BY DEF Return, valueVars
<1>2. /\ rest \in Seq(Frames)
      /\ \A x \in Objects : Used(x, native, rest, doomed) => Used(x, native, calls, doomed)
  BY <1>1, RestFacts
<1>3. \/ References(native, member, rest, registry) /\ UNCHANGED <<proxyVars, held>>
      \/ \E o \in alive, u \in Uds : PushObject(o, u, native, rest) /\ held' = held \cup {u}
  BY DEF Return
<1>4. /\ native \in [Objects -> 0 .. MaxNative]
      /\ AliveReferenced(alive, native, member, calls, doomed)
  BY Types DEF Inv
<1>. HIDE DEF rest
<1>5. CASE References(native, member, rest, registry) /\ UNCHANGED <<proxyVars, held>>
  <2>1. OnlyAlive(native, member, rest)
    BY <1>2, <1>4 DEF OnlyAlive, AliveReferenced
  <2>2. phase' = phase /\ ptr' = ptr /\ toRef' = toRef /\ held' = held
    BY <1>5 DEF proxyVars
  <2>3. References(native, member, rest, registry)
    BY <1>5
  <2>4. lua # "open" => Idle(native, rest)
    BY <1>1
  <2>5. Inv'
    BY <1>1, <1>2, <1>4, <2>1, <2>2, <2>3, <2>4, KeepsReferences
  <2>6. native' = native /\ member' = member /\ calls' = rest
    BY <2>3 DEF References
  <2>. QED  BY <1>1, <2>5, <2>6 DEF rest
<1>6. CASE \E o \in alive, u \in Uds : PushObject(o, u, native, rest) /\ held' = held \cup {u}
  <2>1. PICK o \in alive, u \in Uds : PushObject(o, u, native, rest) /\ held' = held \cup {u}
    BY <1>6
  <2>2. /\ Inv' /\ native' = native /\ calls' = rest
        /\ \A x \in Objects : Lent(x, member') <=> Lent(x, member) \/ x = o
    BY <1>1, <1>2, <2>1, KeepsPush
  <2>. QED  BY <1>1, <2>2 DEF rest
<1>. QED  BY <1>3, <1>5, <1>6

LEMMA KeepsDropNative ==
    ASSUME Inv, NEW o \in Objects, DropNative(o)
    PROVE  /\ Inv' /\ member' = member /\ calls' = calls /\ doomed' = doomed
           /\ \A x \in Objects : Used(x, native', calls', doomed') => Used(x, native, calls, doomed)
<1>. DEFINE n == [native EXCEPT ![o] = @ - 1]
<1>1. /\ native[o] > 0 /\ References(n, member, calls, registry)
      /\ UNCHANGED <<lua, phase, ptr, toRef, tref, cache, vals, contents, held, wheld, doomed>>
  BY DEF DropNative, proxyVars, valueVars, scriptVars
<1>2. /\ native \in [Objects -> 0 .. MaxNative] /\ calls \in Seq(Frames)
      /\ lua \in {"open", "closing", "closed"} /\ Refs \subseteq Objects
      /\ AliveReferenced(alive, native, member, calls, doomed)
  BY Types DEF Inv, Objects
<1>3. native[o] \in 1 .. MaxNative /\ native[o] - 1 \in 0 .. MaxNative
  BY <1>1, <1>2, BridgeAssumption
<1>4. /\ n \in [Objects -> 0 .. MaxNative] /\ n[o] = native[o] - 1
      /\ \A x \in Objects : x # o => n[x] = native[x]
  BY <1>2, <1>3
<1>. HIDE DEF n
<1>5. \A x \in Objects : n[x] > 0 => native[x] > 0
  BY <1>1, <1>4
<1>6. \A x \in Objects : Used(x, n, calls, doomed) => Used(x, native, calls, doomed)
  BY <1>5 DEF Used
<1>7. OnlyAlive(n, member, calls)
  BY <1>2, <1>6 DEF OnlyAlive, AliveReferenced
<1>8. lua # "open" => Idle(n, calls)
  <2>1. lua # "open" => Idle(native, calls)
    BY <1>2 DEF Inv, WhileClosing, WhileClosed
  <2>2. lua # "open" => o \notin Refs
    BY <1>1, <1>3, <2>1 DEF Idle
  <2>. QED  BY <1>2, <1>4, <2>1, <2>2 DEF Idle
<1>9. native' = n /\ member' = member /\ calls' = calls
  BY <1>1 DEF References
<1>10. Inv'
  BY <1>1, <1>2, <1>4, <1>7, <1>8, KeepsReferences
<1>. QED  BY <1>1, <1>6, <1>9, <1>10

(* A finalized proxy takes the slot of its object only if no proxy of the    *)
(* object is live.                                                           *)
LEMMA ForgetRefFacts ==
    ASSUME Inv, NEW u \in Uds, phase[u] # "free"
    PROVE  /\ ForgetRef(ptr[u], u) \in [Objects -> Slots \cup {None}]
           /\ \A o \in Objects : o # ptr[u] => ForgetRef(ptr[u], u)[o] = toRef[o]
           /\ \A o \in Objects : ForgetRef(ptr[u], u)[o] # None => ForgetRef(ptr[u], u)[o] = toRef[o]
           /\ ForgetRef(ptr[u], u)[ptr[u]] # None => Current(ptr[u]) \notin {None, u}
           /\ Current(ptr[u]) \notin {None, u} => ForgetRef(ptr[u], u) = toRef
<1>1. ptr[u] \in Objects /\ toRef \in [Objects -> Slots \cup {None}]
  BY LinkedFacts, Types DEF Inv
<1>2. CASE toRef[ptr[u]] # None /\ WeakrefGet(toRef[ptr[u]]) \in {None, u}
  <2>1. ForgetRef(ptr[u], u) = [toRef EXCEPT ![ptr[u]] = None]
    BY <1>2 DEF ForgetRef
  <2>2. Current(ptr[u]) \in {None, u}
    BY <1>2 DEF Current
  <2>. QED  BY <1>1, <2>1, <2>2
<1>3. CASE ~(toRef[ptr[u]] # None /\ WeakrefGet(toRef[ptr[u]]) \in {None, u})
  <2>1. ForgetRef(ptr[u], u) = toRef
    BY <1>3 DEF ForgetRef
  <2>2. toRef[ptr[u]] # None => Current(ptr[u]) \notin {None, u}
    BY <1>3 DEF Current
  <2>. QED  BY <1>1, <2>1, <2>2
<1>. QED  BY <1>2, <1>3

LEMMA FinalizedLinked ==
    ASSUME Inv, NEW u \in Uds, phase[u] # "free"
    PROVE  Linked([phase EXCEPT ![u] = "free"], [ptr EXCEPT ![u] = None],
                  ForgetRef(ptr[u], u), registry)
<1>. DEFINE ph == [phase EXCEPT ![u] = "free"]
            p == [ptr EXCEPT ![u] = None]
            t == ForgetRef(ptr[u], u)
<1>1. /\ phase \in [Uds -> {"free", "live", "dead"}] /\ ptr \in [Uds -> Objects \cup {None}]
      /\ toRef \in [Objects -> Slots \cup {None}] /\ ptr[u] \in Objects
  BY Types, LinkedFacts DEF Inv
<1>2. None \notin Objects /\ None \notin Uds
  BY BridgeAssumption DEF Objects
<1>3. /\ ph[u] = "free" /\ (\A x \in Uds : x # u => ph[x] = phase[x])
      /\ p[u] = None /\ (\A x \in Uds : x # u => p[x] = ptr[x])
  BY <1>1
<1>4. /\ \A o \in Objects : o # ptr[u] => t[o] = toRef[o]
      /\ \A o \in Objects : t[o] # None => t[o] = toRef[o]
      /\ t[ptr[u]] # None => Current(ptr[u]) \notin {None, u}
      /\ Current(ptr[u]) \notin {None, u} => t = toRef
  BY ForgetRefFacts
<1>. HIDE DEF ph, p, t
<1>5. ASSUME NEW x \in Uds, ph[x] = "live"
      PROVE  t[p[x]] # None /\ registry[t[p[x]]] = WeakTo(x)
  <2>1. x # u /\ phase[x] = "live" /\ p[x] = ptr[x]
    BY <1>3, <1>5
  <2>2. /\ ptr[x] \in Objects /\ toRef[ptr[x]] # None
        /\ registry[toRef[ptr[x]]] = WeakTo(x) /\ Current(ptr[x]) = x
    BY <2>1, LinkedFacts
  <2>3. t[ptr[x]] = toRef[ptr[x]]
    <3>1. CASE ptr[x] = ptr[u]
      BY <1>2, <1>4, <2>1, <2>2, <3>1
    <3>2. CASE ptr[x] # ptr[u]
      BY <1>4, <2>2, <3>2
    <3>. QED  BY <3>1, <3>2
  <2>. QED  BY <2>1, <2>2, <2>3
<1>6. ASSUME NEW o \in Objects, t[o] # None
      PROVE  /\ \E x \in Uds : p[x] = o
             /\ \E w \in Uds \cup {None} :
                   registry[t[o]] = WeakTo(w) /\ (w # None => ph[w] = "live" /\ p[w] = o)
  <2>1. t[o] = toRef[o] /\ toRef[o] # None
    BY <1>4, <1>6
  <2>2. registry[t[o]] = WeakTo(Current(o))
    BY <2>1, LinkedFacts
  <2>3. Current(o) # None => /\ Current(o) \in Uds /\ phase[Current(o)] = "live"
                             /\ ptr[Current(o)] = o
    BY LinkedFacts
  <2>4. Current(o) # u
    BY <1>2, <1>4, <1>6, <2>3
  <2>5. Current(o) # None => ph[Current(o)] = "live" /\ p[Current(o)] = o
    BY <1>3, <2>3, <2>4
  <2>6. \E x \in Uds : p[x] = o
    <3>1. CASE o = ptr[u]
      BY <1>4, <1>6, <2>3, <2>5, <3>1
    <3>2. CASE o # ptr[u]
      <4>1. PICK x \in Uds : ptr[x] = o
        BY <2>1 DEF Inv, Linked
      <4>. QED  BY <1>3, <3>2, <4>1
    <3>. QED  BY <3>1, <3>2
  <2>7. Current(o) \in Uds \cup {None}
    BY <2>3
  <2>. QED  BY <2>2, <2>5, <2>6, <2>7
<1>7. Linked(ph, p, t, registry)
  BY <1>5, <1>6 DEF Linked
<1>. QED  BY <1>7 DEF ph, p, t

(* Lua can still get hold of what it could when nothing that is live ends.   *)
LEMMA ScopedStays ==
    ASSUME NEW ph, NEW ph2, NEW reg, NEW reg2, NEW vs \in SUBSET Vals,
           NEW cs \in [Vals -> SUBSET Uds], NEW h, Scoped(ph, reg, vs, cs, h),
           LiveKept(ph, ph2), NoNewValues(reg, reg2)
    PROVE  Scoped(ph2, reg2, vs, cs, h)
<1>1. \A v \in vs : Reached(v, h, reg2) => Reached(v, h, reg)
  BY DEF Reached, NoNewValues
<1>2. \A v \in vs : Reached(v, h, reg) => \A x \in cs[v] : ph2[x] = "live"
  BY DEF Scoped, LiveKept
<1>3. \A x \in h \cap Uds : ph2[x] = "live"
  BY DEF Scoped, LiveKept
<1>. QED  BY <1>1, <1>2, <1>3 DEF Scoped

(* di_lua_gc, of a proxy that is dead or while lua_close() runs.             *)
LEMMA KeepsGc ==
    ASSUME Inv, NEW u \in Uds, Gc(u), phase[u] # "free",
           lua \in {"open", "closing"}, lua = "open" => phase[u] = "dead",
           lua' = lua, doomed' = doomed, tref' = tref, vals' = vals, cache' = cache,
           wheld' = wheld, held' = held, contents' = contents
    PROVE  /\ Inv' /\ native' = native /\ calls' = calls
           /\ ptr[u] \in Objects /\ Lent(ptr[u], member)
           /\ \A x \in Objects : x # ptr[u] => (Lent(x, member') <=> Lent(x, member))
<1>. DEFINE ph == [phase EXCEPT ![u] = "free"]
            p == [ptr EXCEPT ![u] = None]
            t == ForgetRef(ptr[u], u)
            m == [member EXCEPT ![u] = None]
<1>1. /\ phase \in [Uds -> {"free", "live", "dead"}] /\ ptr \in [Uds -> Objects \cup {None}]
      /\ member \in [Uds -> Objects \cup {None}]
      /\ toRef \in [Objects -> Slots \cup {None}] /\ registry \in [Slots -> Entries]
      /\ tref \in [Refs -> Slots \cup {None}] /\ cache \in [Vals -> Refs \cup {None}]
      /\ vals \in SUBSET Vals /\ contents \in [Vals -> SUBSET Uds]
      /\ held \subseteq Uds \cup Vals /\ wheld \subseteq Objects /\ doomed \subseteq Refs
      /\ native \in [Objects -> 0 .. MaxNative] /\ calls \in Seq(Frames)
      /\ Members(phase, ptr, member)
      /\ AliveReferenced(alive, native, member, calls, doomed)
  BY Types DEF Inv
<1>2. None \notin Objects
  BY BridgeAssumption DEF Objects
<1>3. /\ phase' = ph /\ ptr' = p /\ toRef' = t /\ References(native, m, calls, registry)
  BY DEF Gc
<1>4. ptr[u] \in Objects /\ member[u] = ptr[u]
  BY <1>1, LinkedFacts DEF Members
<1>5. /\ ph \in [Uds -> {"free", "live", "dead"}] /\ p \in [Uds -> Objects \cup {None}]
      /\ m \in [Uds -> Objects \cup {None}]
      /\ ph[u] = "free" /\ (\A x \in Uds : x # u => ph[x] = phase[x])
      /\ p[u] = None /\ (\A x \in Uds : x # u => p[x] = ptr[x])
      /\ m[u] = None /\ (\A x \in Uds : x # u => m[x] = member[x])
  BY <1>1
<1>6. t \in [Objects -> Slots \cup {None}]
  BY ForgetRefFacts
<1>7. Linked(ph, p, t, registry)
  BY FinalizedLinked
<1>. HIDE DEF ph, p, t, m
<1>8. native' = native /\ member' = m /\ calls' = calls
  BY <1>3 DEF References
<1>9. \A x \in Objects : Lent(x, m) => Lent(x, member)
  BY <1>2, <1>5 DEF Lent
<1>10. \A x \in Objects : x # ptr[u] /\ Lent(x, member) => Lent(x, m)
  BY <1>4, <1>5 DEF Lent
<1>11. Lent(ptr[u], member)
  BY <1>4 DEF Lent
<1>12. OnlyAlive(native, m, calls)
  BY <1>1, <1>9 DEF OnlyAlive, AliveReferenced
<1>13. lua = "open" => Slotted(alive, tref, registry, vals)
  BY DEF Inv, WhileOpen
<1>14. lua # "open" => Idle(native, calls)
  BY DEF Inv, WhileClosing
<1>15. /\ alive' \subseteq alive /\ alive' \subseteq Objects
       /\ registry' \in [Slots -> Entries]
       /\ AliveReferenced(alive', native, m, calls, doomed)
       /\ lua = "open" => Slotted(alive', tref, registry', vals)
       /\ \A i \in Slots : \A w : registry[i] = WeakTo(w) => registry'[i] = WeakTo(w)
       /\ \A i \in Slots, v \in Vals : registry'[i] = Value(v) => registry[i] = Value(v)
       /\ WhileClosing'
  <2>1. References(native, m, calls, registry)
    BY <1>3
  <2>. QED  BY <1>1, <1>12, <1>13, <1>14, <2>1, AfterReferences
<1>16. Members(ph, p, m)
  BY <1>1, <1>5 DEF Members
<1>17. Linked(ph, p, t, registry')
  <2>1. \A x \in Uds : ph[x] = "live" => p[x] # None
    BY <1>16 DEF Members
  <2>. QED  BY <1>5, <1>6, <1>7, <1>15, <2>1, LinkedKept
<1>18. WhileOpen'
  <2>1. ASSUME lua = "open"
        PROVE  doomed = {} /\ Scoped(ph, registry', vals, contents, held)
    <3>1. doomed = {} /\ Scoped(phase, registry, vals, contents, held)
      BY <2>1 DEF Inv, WhileOpen
    <3>2. LiveKept(phase, ph) /\ NoNewValues(registry, registry')
      BY <1>5, <1>15, <2>1 DEF LiveKept, NoNewValues
    <3>3. vals \in SUBSET Vals /\ contents \in [Vals -> SUBSET Uds]
      BY <1>1
    <3>. QED  BY <3>1, <3>2, <3>3, ScopedStays
  <2>. QED  BY <1>3, <1>15, <2>1 DEF WhileOpen
<1>19. WhileClosed'
  BY DEF WhileClosed
<1>20. TypeOK'
  BY <1>1, <1>3, <1>5, <1>6, <1>8, <1>15, TypesPrime
<1>21. Inv'
  BY <1>3, <1>8, <1>15, <1>16, <1>17, <1>18, <1>19, <1>20 DEF Inv
<1>. QED  BY <1>4, <1>8, <1>9, <1>10, <1>11, <1>21

LEMMA KeepsGcProxy ==
    ASSUME Inv, NEW u \in Uds, GcProxy(u) \/ CloseProxy(u)
    PROVE  /\ Inv' /\ native' = native /\ calls' = calls /\ doomed' = doomed
           /\ ptr[u] \in Objects /\ Lent(ptr[u], member)
           /\ \A x \in Objects : x # ptr[u] => (Lent(x, member') <=> Lent(x, member))
<1>1. /\ Gc(u) /\ phase[u] # "free" /\ lua \in {"open", "closing"}
      /\ lua = "open" => phase[u] = "dead"
      /\ UNCHANGED <<lua, tref, cache, vals, contents, held, wheld, doomed>>
  BY DEF GcProxy, CloseProxy, valueVars, scriptVars
<1>. QED  BY <1>1, KeepsGc

-----------------------------------------------------------------------------
(* Lua code and the Lua collector.                                           *)

(* Only what Lua code refers to changes.                                     *)
LEMMA KeepsScript ==
    ASSUME Inv, lua = "open", lua' = lua, doomed' = doomed, alive' = alive, native' = native,
           calls' = calls, phase' = phase, ptr' = ptr, member' = member, toRef' = toRef,
           registry' = registry, tref' = tref,
           cache' \in [Vals -> Refs \cup {None}], vals' \subseteq Vals,
           contents' \in [Vals -> SUBSET Uds], held' \subseteq Uds \cup Vals,
           wheld' \subseteq Objects,
           Slotted(alive, tref, registry, vals'),
           Scoped(phase, registry, vals', contents', held')
    PROVE  Inv'
<1>1. /\ TypeOK /\ AliveReferenced(alive, native, member, calls, doomed)
      /\ Members(phase, ptr, member) /\ Linked(phase, ptr, toRef, registry) /\ doomed = {}
  BY DEF Inv, WhileOpen
<1>2. TypeOK'
  BY <1>1, Types, TypesPrime
<1>3. WhileOpen' /\ WhileClosing' /\ WhileClosed'
  BY <1>1 DEF WhileOpen, WhileClosing, WhileClosed
<1>. QED  BY <1>1, <1>2, <1>3 DEF Inv

LEMMA ScopeFacts ==
    ASSUME Inv, lua = "open"
    PROVE  /\ Slotted(alive, tref, registry, vals)
           /\ Scoped(phase, registry, vals, contents, held)
           /\ vals \in SUBSET Vals /\ contents \in [Vals -> SUBSET Uds]
           /\ held \subseteq Uds \cup Vals /\ wheld \subseteq Objects
           /\ cache \in [Vals -> Refs \cup {None}]
           /\ \A v \in Vals : v \in held => v \in vals
           /\ \A u \in Uds : u \in held => phase[u] = "live" /\ ptr[u] \in Objects
<1>1. /\ Slotted(alive, tref, registry, vals)
      /\ Scoped(phase, registry, vals, contents, held)
      /\ vals \in SUBSET Vals /\ contents \in [Vals -> SUBSET Uds]
      /\ held \subseteq Uds \cup Vals /\ wheld \subseteq Objects
      /\ cache \in [Vals -> Refs \cup {None}]
  BY Types DEF Inv, WhileOpen
<1>2. \A u \in Uds : u \in held => phase[u] = "live"
  BY <1>1 DEF Scoped
<1>3. \A u \in Uds : u \in held => ptr[u] \in Objects
  BY <1>2, LinkedFacts
<1>4. \A v \in Vals : v \in held => v \in vals
  BY <1>1 DEF Scoped
<1>. QED  BY <1>1, <1>2, <1>3, <1>4

ObjectsStay == alive' = alive /\ native' = native /\ calls' = calls /\ member' = member /\ doomed' = doomed

LEMMA KeepsNewValue ==
    ASSUME Inv, NEW v \in Vals, NewValue(v)
    PROVE  Inv' /\ ObjectsStay
<1>1. /\ lua = "open" /\ v \notin vals /\ vals' = vals \cup {v} /\ held' = held \cup {v}
      /\ UNCHANGED <<lua, alive, native, calls, phase, ptr, toRef, member, registry, tref,
                     cache, contents, wheld, doomed>>
  BY DEF NewValue, objectVars, proxyVars, valueVars
<1>2. /\ Slotted(alive, tref, registry, vals)
      /\ Scoped(phase, registry, vals, contents, held)
      /\ vals \in SUBSET Vals /\ contents \in [Vals -> SUBSET Uds]
      /\ held \subseteq Uds \cup Vals /\ wheld \subseteq Objects
      /\ cache \in [Vals -> Refs \cup {None}]
  BY <1>1, ScopeFacts
<1>3. v \notin Uds
  BY BridgeAssumption
<1>4. contents[v] = {}
  BY <1>1, <1>2 DEF Scoped
<1>5. Slotted(alive, tref, registry, vals')
  BY <1>1, <1>2 DEF Slotted
<1>6. \A x \in vals : Reached(x, held', registry) => Reached(x, held, registry)
  BY <1>1 DEF Reached
<1>7. Scoped(phase, registry, vals', contents', held')
  <2>1. \A u \in held' \cap Uds : phase[u] = "live"
    BY <1>1, <1>2, <1>3 DEF Scoped
  <2>2. held' \cap Vals \subseteq vals'
    BY <1>1, <1>2 DEF Scoped
  <2>3. \A x \in Vals : x \notin vals' => contents'[x] = {}
    BY <1>1, <1>2 DEF Scoped
  <2>4. \A x \in vals' : Reached(x, held', registry) => \A u \in contents'[x] : phase[u] = "live"
    BY <1>1, <1>2, <1>4, <1>6 DEF Scoped
  <2>. QED  BY <2>1, <2>2, <2>3, <2>4 DEF Scoped
<1>8. Inv'
  BY <1>1, <1>2, <1>5, <1>7, KeepsScript
<1>. QED  BY <1>1, <1>8 DEF ObjectsStay

LEMMA KeepsCapture ==
    ASSUME Inv, NEW v \in Vals, NEW u \in Uds, Capture(v, u)
    PROVE  Inv' /\ ObjectsStay
<1>1. /\ lua = "open" /\ v \in held /\ u \in held /\ contents' = [contents EXCEPT ![v] = {u}]
      /\ UNCHANGED <<lua, alive, native, calls, phase, ptr, toRef, member, registry, tref,
                     cache, vals, held, wheld, doomed>>
  BY DEF Capture, objectVars, proxyVars, valueVars
<1>2. /\ Slotted(alive, tref, registry, vals)
      /\ Scoped(phase, registry, vals, contents, held)
      /\ vals \in SUBSET Vals /\ contents \in [Vals -> SUBSET Uds]
      /\ held \subseteq Uds \cup Vals /\ wheld \subseteq Objects
      /\ cache \in [Vals -> Refs \cup {None}]
      /\ v \in vals /\ phase[u] = "live"
  BY <1>1, ScopeFacts
<1>3. /\ contents' \in [Vals -> SUBSET Uds] /\ contents'[v] = {u}
      /\ \A x \in Vals : x # v => contents'[x] = contents[x]
  BY <1>1, <1>2
<1>4. Scoped(phase, registry, vals, contents', held)
  BY <1>2, <1>3 DEF Scoped
<1>5. Inv'
  BY <1>1, <1>2, <1>3, <1>4, KeepsScript
<1>. QED  BY <1>1, <1>5 DEF ObjectsStay

(* A proxy that a value in scope holds comes into scope.                     *)
LEMMA KeepsFetch ==
    ASSUME Inv, NEW v \in Vals, NEW u \in Uds, Fetch(v, u)
    PROVE  Inv' /\ ObjectsStay
<1>1. /\ lua = "open" /\ v \in held /\ u \in contents[v] /\ held' = held \cup {u}
      /\ UNCHANGED <<lua, alive, native, calls, phase, ptr, toRef, member, registry, tref,
                     cache, vals, contents, wheld, doomed>>
  BY DEF Fetch, objectVars, proxyVars, valueVars
<1>2. /\ Slotted(alive, tref, registry, vals)
      /\ Scoped(phase, registry, vals, contents, held)
      /\ vals \in SUBSET Vals /\ contents \in [Vals -> SUBSET Uds]
      /\ held \subseteq Uds \cup Vals /\ wheld \subseteq Objects
      /\ cache \in [Vals -> Refs \cup {None}]
      /\ v \in vals
  BY <1>1, ScopeFacts
<1>3. phase[u] = "live"
  BY <1>1, <1>2 DEF Scoped, Reached
<1>4. LiveKept(phase, phase) /\ NoNewValues(registry, registry)
  BY DEF LiveKept, NoNewValues
<1>5. Scoped(phase, registry, vals, contents, held')
  <2>1. Scoped(phase, registry, vals, contents, held \cup {u})
    BY <1>2, <1>3, <1>4, ScopedPush
  <2>. QED  BY <1>1, <2>1
<1>6. held' \subseteq Uds \cup Vals
  BY <1>1, <1>2
<1>7. Inv'
  BY <1>1, <1>2, <1>5, <1>6, KeepsScript
<1>. QED  BY <1>1, <1>7 DEF ObjectsStay

LEMMA KeepsForget ==
    ASSUME Inv, NEW x, Forget(x)
    PROVE  Inv' /\ ObjectsStay
<1>1. /\ lua = "open" /\ held' = held \ {x}
      /\ UNCHANGED <<lua, alive, native, calls, phase, ptr, toRef, member, registry, tref,
                     cache, vals, contents, wheld, doomed>>
  BY DEF Forget, objectVars, proxyVars, valueVars
<1>2. /\ Slotted(alive, tref, registry, vals)
      /\ Scoped(phase, registry, vals, contents, held)
      /\ vals \in SUBSET Vals /\ contents \in [Vals -> SUBSET Uds]
      /\ held \subseteq Uds \cup Vals /\ wheld \subseteq Objects
      /\ cache \in [Vals -> Refs \cup {None}]
  BY <1>1, ScopeFacts
<1>3. \A v \in vals : Reached(v, held', registry) => Reached(v, held, registry)
  BY <1>1 DEF Reached
<1>4. Scoped(phase, registry, vals, contents, held')
  BY <1>1, <1>2, <1>3 DEF Scoped
<1>5. held' \subseteq Uds \cup Vals
  BY <1>1, <1>2
<1>6. Inv'
  BY <1>1, <1>2, <1>4, <1>5, KeepsScript
<1>. QED  BY <1>1, <1>6 DEF ObjectsStay

LEMMA KeepsCallLuaFunction ==
    ASSUME Inv, NEW r \in Refs, CallLuaFunction(r)
    PROVE  Inv' /\ ObjectsStay
<1>1. /\ Reachable(r) /\ held' = held \cup {ValueOf(r)}
      /\ UNCHANGED <<lua, alive, native, calls, phase, ptr, toRef, member, registry, tref,
                     cache, vals, contents, wheld, doomed>>
  BY DEF CallLuaFunction, objectVars, proxyVars, valueVars
<1>2. lua = "open" /\ ValueOf(r) \in vals /\ Reached(ValueOf(r), held, registry)
  BY <1>1, ValueFacts
<1>3. /\ Slotted(alive, tref, registry, vals)
      /\ Scoped(phase, registry, vals, contents, held)
      /\ vals \in SUBSET Vals /\ contents \in [Vals -> SUBSET Uds]
      /\ held \subseteq Uds \cup Vals /\ wheld \subseteq Objects
      /\ cache \in [Vals -> Refs \cup {None}]
  BY <1>2, ScopeFacts
<1>4. ValueOf(r) \in Vals /\ ValueOf(r) \notin Uds
  BY <1>2, <1>3, BridgeAssumption
<1>5. \A v \in vals : Reached(v, held', registry) => Reached(v, held, registry)
  BY <1>1, <1>2 DEF Reached
<1>6. Scoped(phase, registry, vals, contents, held')
  BY <1>1, <1>2, <1>3, <1>4, <1>5 DEF Scoped
<1>7. held' \subseteq Uds \cup Vals
  BY <1>1, <1>3, <1>4
<1>8. Inv'
  BY <1>1, <1>2, <1>3, <1>6, <1>7, KeepsScript
<1>. QED  BY <1>1, <1>8 DEF ObjectsStay

LEMMA KeepsWeakRef ==
    ASSUME Inv, NEW u \in Uds, WeakRef(u)
    PROVE  Inv' /\ ObjectsStay
<1>1. /\ lua = "open" /\ u \in held /\ wheld' = wheld \cup {ptr[u]}
      /\ UNCHANGED <<lua, alive, native, calls, phase, ptr, toRef, member, registry, tref,
                     cache, vals, contents, held, doomed>>
  BY DEF WeakRef, objectVars, proxyVars, valueVars
<1>2. /\ Slotted(alive, tref, registry, vals)
      /\ Scoped(phase, registry, vals, contents, held)
      /\ vals \in SUBSET Vals /\ contents \in [Vals -> SUBSET Uds]
      /\ held \subseteq Uds \cup Vals /\ wheld \subseteq Objects
      /\ cache \in [Vals -> Refs \cup {None}] /\ ptr[u] \in Objects
  BY <1>1, ScopeFacts
<1>3. Inv'
  BY <1>1, <1>2, KeepsScript
<1>. QED  BY <1>1, <1>3 DEF ObjectsStay

LEMMA KeepsGcForWeakObject ==
    ASSUME Inv, NEW o \in Objects, GcForWeakObject(o)
    PROVE  Inv' /\ ObjectsStay
<1>1. /\ lua = "open" /\ wheld' = wheld \ {o}
      /\ UNCHANGED <<lua, alive, native, calls, phase, ptr, toRef, member, registry, tref,
                     cache, vals, contents, held, doomed>>
  BY DEF GcForWeakObject, objectVars, proxyVars, valueVars
<1>2. /\ Slotted(alive, tref, registry, vals)
      /\ Scoped(phase, registry, vals, contents, held)
      /\ vals \in SUBSET Vals /\ contents \in [Vals -> SUBSET Uds]
      /\ held \subseteq Uds \cup Vals /\ wheld \subseteq Objects
      /\ cache \in [Vals -> Refs \cup {None}]
  BY <1>1, ScopeFacts
<1>3. Inv'
  BY <1>1, <1>2, KeepsScript
<1>. QED  BY <1>1, <1>3 DEF ObjectsStay

(* No registry slot and no script variable refers to a collected value.      *)
LEMMA KeepsCollectValue ==
    ASSUME Inv, NEW v \in Vals, CollectValue(v)
    PROVE  Inv' /\ ObjectsStay
<1>1. /\ lua = "open" /\ v \in vals /\ ~Reached(v, held, registry)
      /\ vals' = vals \ {v} /\ contents' = [contents EXCEPT ![v] = {}]
      /\ cache' = [cache EXCEPT ![v] = None]
      /\ UNCHANGED <<lua, alive, native, calls, phase, ptr, toRef, member, registry, tref,
                     held, wheld, doomed>>
  BY DEF CollectValue, ReachedValue, Reached, objectVars, proxyVars
<1>2. /\ Slotted(alive, tref, registry, vals)
      /\ Scoped(phase, registry, vals, contents, held)
      /\ vals \in SUBSET Vals /\ contents \in [Vals -> SUBSET Uds]
      /\ held \subseteq Uds \cup Vals /\ wheld \subseteq Objects
      /\ cache \in [Vals -> Refs \cup {None}]
  BY <1>1, ScopeFacts
<1>3. /\ contents' \in [Vals -> SUBSET Uds] /\ contents'[v] = {}
      /\ \A x \in Vals : x # v => contents'[x] = contents[x]
      /\ cache' \in [Vals -> Refs \cup {None}]
  BY <1>1, <1>2
<1>4. v \notin held /\ \A i \in Slots : registry[i] # Value(v)
  BY <1>1 DEF Reached
<1>5. Slotted(alive, tref, registry, vals')
  BY <1>1, <1>2, <1>4 DEF Slotted
<1>6. Scoped(phase, registry, vals', contents', held)
  BY <1>1, <1>2, <1>3, <1>4 DEF Scoped
<1>7. Inv'
  BY <1>1, <1>2, <1>3, <1>5, <1>6, KeepsScript
<1>. QED  BY <1>1, <1>7 DEF ObjectsStay

(* A userdata whose weak references are cleared was out of reach, and its    *)
(* object has no current proxy afterwards.                                   *)
LEMMA KeepsClearWeak ==
    ASSUME Inv, NEW u \in Uds, ClearWeak(u)
    PROVE  Inv' /\ ObjectsStay
<1>1. /\ lua = "open" /\ phase[u] = "live" /\ ~ReachedProxy(u)
      /\ phase' = [phase EXCEPT ![u] = "dead"]
      /\ registry' = [i \in Slots |-> IF registry[i] = WeakTo(u) THEN WeakTo(None) ELSE registry[i]]
      /\ UNCHANGED <<lua, alive, native, calls, ptr, toRef, member, tref, cache, vals, contents,
                     held, wheld, doomed>>
  BY DEF ClearWeak, objectVars, valueVars, scriptVars
<1>2. /\ TypeOK /\ phase \in [Uds -> {"free", "live", "dead"}]
      /\ toRef \in [Objects -> Slots \cup {None}] /\ registry \in [Slots -> Entries]
      /\ AliveReferenced(alive, native, member, calls, doomed)
      /\ Members(phase, ptr, member) /\ Linked(phase, ptr, toRef, registry) /\ doomed = {}
      /\ Slotted(alive, tref, registry, vals)
      /\ Scoped(phase, registry, vals, contents, held)
      /\ vals \in SUBSET Vals /\ contents \in [Vals -> SUBSET Uds]
  BY <1>1, Types DEF Inv, WhileOpen
<1>3. /\ phase' \in [Uds -> {"free", "live", "dead"}]
      /\ phase'[u] = "dead" /\ (\A x \in Uds : x # u => phase'[x] = phase[x])
  BY <1>1, <1>2
<1>4. /\ \A i \in Slots : registry[i] = WeakTo(u) => registry'[i] = WeakTo(None)
      /\ \A i \in Slots : registry[i] # WeakTo(u) => registry'[i] = registry[i]
  BY <1>1
<1>5. registry' \in [Slots -> Entries]
  BY <1>1, <1>2, EntryKinds
<1>6. \A i \in Slots, v \in Vals : registry'[i] = Value(v) <=> registry[i] = Value(v)
  BY <1>4, EntryKinds
<1>7. Members(phase', ptr, member)
  BY <1>1, <1>2, <1>3 DEF Members
<1>8. Linked(phase', ptr, toRef, registry')
  <2>1. ASSUME NEW x \in Uds, phase'[x] = "live"
        PROVE  toRef[ptr[x]] # None /\ registry'[toRef[ptr[x]]] = WeakTo(x)
    <3>1. x # u /\ phase[x] = "live"
      BY <1>3, <2>1
    <3>2. /\ toRef[ptr[x]] # None /\ toRef[ptr[x]] \in Slots
          /\ registry[toRef[ptr[x]]] = WeakTo(x)
      BY <3>1, LinkedFacts
    <3>3. WeakTo(x) # WeakTo(u)
      BY <3>1, EntryKinds
    <3>. QED  BY <1>4, <3>2, <3>3
  <2>2. ASSUME NEW o \in Objects, toRef[o] # None
        PROVE  /\ \E x \in Uds : ptr[x] = o
               /\ \E w \in Uds \cup {None} :
                     registry'[toRef[o]] = WeakTo(w) /\ (w # None => phase'[w] = "live" /\ ptr[w] = o)
    <3>1. \E x \in Uds : ptr[x] = o
      BY <1>2, <2>2 DEF Linked
    <3>2. toRef[o] \in Slots /\ registry[toRef[o]] = WeakTo(Current(o))
      BY <2>2, LinkedFacts
    <3>3. Current(o) # None => /\ Current(o) \in Uds /\ phase[Current(o)] = "live"
                               /\ ptr[Current(o)] = o
      BY LinkedFacts
    <3>4. CASE Current(o) = u
      <4>1. registry'[toRef[o]] = WeakTo(None)
        BY <1>4, <3>2, <3>4
      <4>. QED  BY <3>1, <4>1
    <3>5. CASE Current(o) # u
      <4>1. WeakTo(Current(o)) # WeakTo(u)
        BY <3>5, EntryKinds
      <4>2. registry'[toRef[o]] = WeakTo(Current(o))
        BY <1>4, <3>2, <4>1
      <4>3. Current(o) \in Uds \cup {None}
        BY <3>3
      <4>4. Current(o) # None => phase'[Current(o)] = "live"
        BY <1>3, <3>3, <3>5
      <4>. QED  BY <3>1, <3>3, <4>2, <4>3, <4>4
    <3>. QED  BY <3>4, <3>5
  <2>. QED  BY <2>1, <2>2 DEF Linked
<1>9. Slotted(alive, tref, registry', vals)
  BY <1>2, <1>6 DEF Slotted
<1>10. Scoped(phase', registry', vals, contents, held)
  <2>1. \A v \in vals : Reached(v, held, registry') => ReachedValue(v) /\ Reached(v, held, registry)
    BY <1>2, <1>6 DEF Reached, ReachedValue
  <2>2. u \notin held /\ \A v \in vals : ReachedValue(v) => u \notin contents[v]
    BY <1>1 DEF ReachedProxy
  <2>3. \A x \in held \cap Uds : phase'[x] = "live"
    BY <1>2, <1>3, <2>2 DEF Scoped
  <2>4. \A v \in vals : Reached(v, held, registry') => \A x \in contents[v] : phase'[x] = "live"
    BY <1>2, <1>3, <2>1, <2>2 DEF Scoped
  <2>. QED  BY <1>2, <2>3, <2>4 DEF Scoped
<1>11. TypeOK'
  BY <1>1, <1>2, <1>3, <1>5, Types, TypesPrime
<1>12. WhileOpen' /\ WhileClosing' /\ WhileClosed'
  BY <1>1, <1>2, <1>9, <1>10 DEF WhileOpen, WhileClosing, WhileClosed
<1>13. Inv'
  BY <1>1, <1>2, <1>7, <1>8, <1>11, <1>12 DEF Inv
<1>. QED  BY <1>1, <1>13 DEF ObjectsStay

-----------------------------------------------------------------------------
(* From Lua to deai.                                                         *)

(* deai code comes to reference the objects of S, and gives up nothing.      *)
Takes(S) ==
    \A x \in Objects : Used(x, native', calls', doomed') <=> Used(x, native, calls, doomed) \/ x \in S

(* The objects of S are alive from then on.                                  *)
LEMMA KeepsTaken ==
    ASSUME Inv, member' = member, phase' = phase, ptr' = ptr, toRef' = toRef, vals' = vals,
           contents' = contents, held' = held, wheld' = wheld,
           NEW S \in SUBSET Objects, Takes(S), alive' = alive \cup S,
           lua' \in {"open", "closing", "closed"}, doomed' \subseteq Refs,
           native' \in [Objects -> 0 .. MaxNative], calls' \in Seq(Frames),
           registry' \in [Slots -> Entries], tref' \in [Refs -> Slots \cup {None}],
           cache' \in [Vals -> Refs \cup {None}],
           Linked(phase, ptr, toRef, registry'), WhileOpen', WhileClosing', WhileClosed'
    PROVE  Inv'
<1>1. /\ TypeOK /\ AliveReferenced(alive, native, member, calls, doomed)
      /\ Members(phase, ptr, member)
  BY DEF Inv
<1>2. TypeOK'
  BY <1>1, Types, TypesPrime
<1>3. AliveReferenced(alive', native', member', calls', doomed')
  BY <1>1 DEF AliveReferenced, Takes
<1>. QED  BY <1>1, <1>2, <1>3 DEF Inv

LEMMA AppendUsed ==
    ASSUME NEW x, NEW n, NEW c \in Seq(Frames), NEW f \in Frames, NEW d
    PROVE  /\ Append(c, f) \in Seq(Frames)
           /\ Used(x, n, Append(c, f), d) <=>
                 Used(x, n, c, d) \/ (f.owns /\ f.self = x) \/ x \in f.args
<1>. DEFINE e == Append(c, f)
<1>1. /\ Len(c) \in Nat /\ DOMAIN c = 1 .. Len(c)
      /\ e \in Seq(Frames) /\ Len(e) = Len(c) + 1 /\ e[Len(c) + 1] = f
      /\ \A k \in 1 .. Len(c) : e[k] = c[k]
  OBVIOUS
<1>2. DOMAIN e = 1 .. Len(c) + 1
  BY <1>1
<1>3. /\ DOMAIN c \subseteq DOMAIN e /\ Len(c) + 1 \in DOMAIN e
      /\ \A k \in DOMAIN e : k \in DOMAIN c \/ k = Len(c) + 1
      /\ \A k \in DOMAIN c : e[k] = c[k]
  BY <1>1, <1>2
<1>. HIDE DEF e
<1>4. (\E k \in DOMAIN e : e[k].owns /\ e[k].self = x) <=>
         (\E k \in DOMAIN c : c[k].owns /\ c[k].self = x) \/ (f.owns /\ f.self = x)
  BY <1>1, <1>3
<1>5. (\E k \in DOMAIN e : x \in e[k].args) <=> (\E k \in DOMAIN c : x \in c[k].args) \/ x \in f.args
  BY <1>1, <1>3
<1>6. Used(x, n, e, d) <=> Used(x, n, c, d) \/ (f.owns /\ f.self = x) \/ x \in f.args
  BY <1>4, <1>5 DEF Used
<1>. QED  BY <1>1, <1>6 DEF e

LEMMA RaiseUsed ==
    ASSUME NEW o \in Objects, NEW n \in [Objects -> 0 .. MaxNative], n[o] < MaxNative
    PROVE  /\ [n EXCEPT ![o] = @ + 1] \in [Objects -> 0 .. MaxNative]
           /\ \A x \in Objects : \A c, d :
                 Used(x, [n EXCEPT ![o] = @ + 1], c, d) <=> Used(x, n, c, d) \/ x = o
<1>. DEFINE m == [n EXCEPT ![o] = @ + 1]
<1>1. n[o] \in Nat /\ n[o] + 1 \in 0 .. MaxNative /\ n[o] + 1 > 0
  BY BridgeAssumption
<1>2. /\ m \in [Objects -> 0 .. MaxNative] /\ m[o] = n[o] + 1
      /\ \A x \in Objects : x # o => m[x] = n[x]
  BY <1>1
<1>. HIDE DEF m
<1>3. m[o] > 0
  BY <1>1, <1>2
<1>4. \A x \in Objects : m[x] > 0 <=> n[x] > 0 \/ x = o
  BY <1>2, <1>3
<1>5. \A x \in Objects : \A c, d : Used(x, m, c, d) <=> Used(x, n, c, d) \/ x = o
  BY <1>4 DEF Used
<1>. QED  BY <1>2, <1>5 DEF m

LEMMA LiveAlive ==
    ASSUME Inv, NEW u \in Uds, phase[u] = "live"
    PROVE  ptr[u] \in alive /\ ptr[u] \in Objects
<1>1. ptr[u] \in Objects
  BY LinkedFacts
<1>2. Lent(ptr[u], member)
  BY DEF Inv, Members, Lent
<1>. QED  BY <1>1, <1>2 DEF Inv, AliveReferenced

(* The object of a value in scope, which may be made for it in a slot that   *)
(* is free.                                                                  *)
LEMMA Converts ==
    ASSUME Inv, lua = "open", NEW x \in InScope, NEW o, TypeToDi(x, o)
    PROVE  /\ o \in Objects /\ alive' = alive \cup {o}
           /\ registry' \in [Slots -> Entries] /\ tref' \in [Refs -> Slots \cup {None}]
           /\ cache' \in [Vals -> Refs \cup {None}]
           /\ Linked(phase, ptr, toRef, registry')
           /\ Slotted(alive', tref', registry', vals)
           /\ Scoped(phase, registry', vals, contents, held)
<1>1. /\ Slotted(alive, tref, registry, vals)
      /\ Scoped(phase, registry, vals, contents, held)
      /\ vals \in SUBSET Vals /\ contents \in [Vals -> SUBSET Uds]
      /\ cache \in [Vals -> Refs \cup {None}]
  BY ScopeFacts
<1>2. /\ registry \in [Slots -> Entries] /\ tref \in [Refs -> Slots \cup {None}]
      /\ Linked(phase, ptr, toRef, registry) /\ alive \subseteq Objects
      /\ ptr \in [Uds -> Objects \cup {None}] /\ toRef \in [Objects -> Slots \cup {None}]
  BY Types DEF Inv
<1>3. CASE x \in Uds /\ o = ptr[x] /\ UNCHANGED <<alive, registry, valueVars>>
  <2>1. UNCHANGED <<alive, registry, tref, cache>>
    BY <1>3 DEF valueVars
  <2>2. phase[x] = "live"
    BY <1>1, <1>3, BridgeAssumption DEF InScope
  <2>3. o \in alive /\ o \in Objects
    BY <1>3, <2>2, LiveAlive
  <2>. QED  BY <1>1, <1>2, <2>1, <2>3
<1>4. CASE x \in Vals /\ TypeToDiObject(x, o)
  <2>1. x \in held /\ x \in vals
    BY <1>4, BridgeAssumption DEF InScope
  <2>2. CASE cache[x] \in alive /\ o = cache[x] /\ UNCHANGED <<alive, registry, valueVars>>
    <3>1. UNCHANGED <<alive, registry, tref, cache>>
      BY <2>2 DEF valueVars
    <3>. QED  BY <1>1, <1>2, <2>2, <3>1
  <2>3. CASE /\ o \in Refs /\ Unused(o)
             /\ \E i \in FreeSlots :
                   /\ registry' = [registry EXCEPT ![i] = Value(x)]
                   /\ tref' = [tref EXCEPT ![o] = i]
             /\ alive' = alive \cup {o}
             /\ cache' = [cache EXCEPT ![x] = o]
    <3>1. PICK i \in FreeSlots : /\ registry' = [registry EXCEPT ![i] = Value(x)]
                                 /\ tref' = [tref EXCEPT ![o] = i]
      BY <2>3
    <3>2. i \in Slots /\ registry[i] = Empty
      BY DEF FreeSlots
    <3>3. o \in Objects /\ o \notin alive
      BY <2>3 DEF Objects, Unused
    <3>4. /\ registry' \in [Slots -> Entries] /\ registry'[i] = Value(x)
          /\ \A j \in Slots : j # i => registry'[j] = registry[j]
      BY <1>2, <1>4, <3>1, <3>2, EntryKinds
    <3>5. /\ tref' \in [Refs -> Slots \cup {None}] /\ tref'[o] = i
          /\ \A r \in Refs : r # o => tref'[r] = tref[r]
      BY <1>2, <2>3, <3>1, <3>2
    <3>6. cache' \in [Vals -> Refs \cup {None}]
      BY <1>1, <1>4, <2>3
    <3>7. Linked(phase, ptr, toRef, registry')
      <4>1. \A j \in Slots : \A w : registry[j] = WeakTo(w) => registry'[j] = WeakTo(w)
        BY <3>2, <3>4, EntryKinds
      <4>2. \A y \in Uds : phase[y] = "live" => ptr[y] # None
        BY LinkedFacts
      <4>. QED  BY <1>2, <4>1, <4>2, LinkedKept
    <3>8. \A r \in alive \cap Refs : /\ r # o /\ tref'[r] = tref[r] /\ tref[r] \in Slots
                                     /\ tref[r] # i /\ registry'[tref[r]] = registry[tref[r]]
      <4>1. ASSUME NEW r \in alive \cap Refs
            PROVE  /\ r # o /\ tref'[r] = tref[r] /\ tref[r] \in Slots
                   /\ tref[r] # i /\ registry'[tref[r]] = registry[tref[r]]
        <5>1. r # o /\ tref'[r] = tref[r]
          BY <3>3, <3>5
        <5>2. tref[r] \in Slots /\ \E v \in Vals : registry[tref[r]] = Value(v)
          BY <1>1 DEF Slotted
        <5>3. tref[r] # i
          BY <3>2, <5>2, EntryKinds
        <5>. QED  BY <3>4, <5>1, <5>2, <5>3
      <4>. QED  BY <4>1
    <3>9. Slotted(alive', tref', registry', vals)
      <4>1. ASSUME NEW r \in alive' \cap Refs
            PROVE  tref'[r] \in Slots /\ \E v \in Vals : registry'[tref'[r]] = Value(v)
        <5>1. CASE r = o
          BY <1>4, <3>2, <3>4, <3>5, <5>1
        <5>2. CASE r # o
          <6>1. r \in alive \cap Refs
            BY <2>3, <4>1, <5>2
          <6>. QED  BY <1>1, <3>8, <6>1 DEF Slotted
        <5>. QED  BY <5>1, <5>2
      <4>2. ASSUME NEW r \in alive' \cap Refs, NEW s \in alive' \cap Refs, tref'[r] = tref'[s]
            PROVE  r = s
        <5>1. (r = o \/ r \in alive \cap Refs) /\ (s = o \/ s \in alive \cap Refs)
          BY <2>3
        <5>. QED  BY <1>1, <3>5, <3>8, <4>2, <5>1 DEF Slotted
      <4>3. \A j \in Slots, v \in Vals : registry'[j] = Value(v) => v \in vals
        BY <1>1, <2>1, <3>4, EntryKinds DEF Slotted
      <4>. QED  BY <4>1, <4>2, <4>3 DEF Slotted
    <3>10. Scoped(phase, registry', vals, contents, held)
      <4>1. \A v \in vals : Reached(v, held, registry') => Reached(v, held, registry)
        BY <2>1, <3>4, EntryKinds DEF Reached
      <4>. QED  BY <1>1, <4>1 DEF Scoped
    <3>. QED  BY <2>3, <3>3, <3>4, <3>5, <3>6, <3>7, <3>9, <3>10
  <2>. QED  BY <1>4, <2>2, <2>3 DEF TypeToDiObject
<1>. QED  BY <1>3, <1>4 DEF TypeToDi

(* Steps that only add references, while the state is open.                  *)
LEMMA KeepsTakenOpen ==
    ASSUME Inv, lua = "open", lua' = lua, doomed' = doomed,
           member' = member, phase' = phase, ptr' = ptr, toRef' = toRef, vals' = vals,
           contents' = contents, held' = held, wheld' = wheld,
           NEW S \in SUBSET Objects, Takes(S), alive' = alive \cup S,
           native' \in [Objects -> 0 .. MaxNative], calls' \in Seq(Frames),
           registry' \in [Slots -> Entries], tref' \in [Refs -> Slots \cup {None}],
           cache' \in [Vals -> Refs \cup {None}],
           Linked(phase, ptr, toRef, registry'),
           Slotted(alive', tref', registry', vals),
           Scoped(phase, registry', vals, contents, held)
    PROVE  Inv'
<1>1. doomed = {} /\ doomed \subseteq Refs
  BY DEF Inv, WhileOpen
<1>2. WhileOpen' /\ WhileClosing' /\ WhileClosed'
  BY <1>1 DEF WhileOpen, WhileClosing, WhileClosed
<1>3. lua' \in {"open", "closing", "closed"} /\ doomed' \subseteq Refs
  BY <1>1
<1>. QED  BY <1>2, <1>3, KeepsTaken

LEMMA OpenFacts ==
    ASSUME Inv, lua = "open"
    PROVE  /\ registry \in [Slots -> Entries] /\ tref \in [Refs -> Slots \cup {None}]
           /\ cache \in [Vals -> Refs \cup {None}]
           /\ native \in [Objects -> 0 .. MaxNative] /\ calls \in Seq(Frames)
           /\ alive \subseteq Objects /\ doomed = {}
           /\ Linked(phase, ptr, toRef, registry)
           /\ Slotted(alive, tref, registry, vals)
           /\ Scoped(phase, registry, vals, contents, held)
  BY Types DEF Inv, WhileOpen

(* What a call from Lua references: its arguments, and its object if it owns *)
(* a reference to it.                                                        *)
Entered(u, owns, args) == args \cup (IF owns THEN {ptr[u]} ELSE {})

LEMMA EnterFacts ==
    ASSUME Inv, NEW u \in Uds, NEW owns \in BOOLEAN, NEW args \in SUBSET Objects,
           Enter(u, owns, args)
    PROVE  /\ lua = "open" /\ lua' = lua /\ doomed' = doomed /\ native' = native
           /\ member' = member /\ phase' = phase /\ ptr' = ptr /\ toRef' = toRef
           /\ vals' = vals /\ contents' = contents /\ held' = held /\ wheld' = wheld
           /\ calls' \in Seq(Frames) /\ ptr[u] \in alive
           /\ Entered(u, owns, args) \in SUBSET Objects
           /\ Takes(Entered(u, owns, args))
<1>1. /\ lua = "open" /\ u \in held
      /\ calls' = Append(calls, [self |-> ptr[u], owns |-> owns, args |-> args])
      /\ UNCHANGED <<lua, native, phase, ptr, toRef, member, vals, contents, held, wheld, doomed>>
  BY DEF Enter, proxyVars, scriptVars
<1>2. PICK f : f = [self |-> ptr[u], owns |-> owns, args |-> args]
  OBVIOUS
<1>3. ptr[u] \in alive /\ ptr[u] \in Objects
  BY <1>1, ScopeFacts, LiveAlive
<1>4. f \in Frames /\ f.self = ptr[u] /\ f.owns = owns /\ f.args = args
  BY <1>2, <1>3 DEF Frames
<1>5. calls \in Seq(Frames) /\ calls' = Append(calls, f)
  BY <1>1, <1>2, OpenFacts
<1>6. /\ calls' \in Seq(Frames)
      /\ \A x \in Objects : Used(x, native, calls', doomed) <=>
            Used(x, native, calls, doomed) \/ (f.owns /\ f.self = x) \/ x \in f.args
  BY <1>4, <1>5, AppendUsed
<1>7. Entered(u, owns, args) \in SUBSET Objects
  BY <1>3 DEF Entered
<1>8. \A x \in Objects : x \in Entered(u, owns, args) <=> (f.owns /\ f.self = x) \/ x \in f.args
  BY <1>4 DEF Entered
<1>9. Takes(Entered(u, owns, args))
  BY <1>1, <1>6, <1>8 DEF Takes
<1>. QED  BY <1>1, <1>3, <1>6, <1>7, <1>9

LEMMA KeepsMetaIndex ==
    ASSUME Inv, NEW u \in Uds, MetaIndex(u)
    PROVE  Inv' /\ member' = member /\ \E S \in SUBSET Objects : Takes(S)
<1>1. Enter(u, TRUE, {}) /\ UNCHANGED <<alive, registry, tref, cache>>
  BY DEF MetaIndex, valueVars
<1>2. PICK S : S = Entered(u, TRUE, {})
  OBVIOUS
<1>3. /\ lua = "open" /\ lua' = lua /\ doomed' = doomed /\ native' = native
      /\ member' = member /\ phase' = phase /\ ptr' = ptr /\ toRef' = toRef
      /\ vals' = vals /\ contents' = contents /\ held' = held /\ wheld' = wheld
      /\ calls' \in Seq(Frames) /\ ptr[u] \in alive /\ S \in SUBSET Objects /\ Takes(S)
  BY <1>1, <1>2, EnterFacts
<1>4. alive' = alive \cup S
  BY <1>1, <1>2, <1>3 DEF Entered
<1>5. /\ registry' \in [Slots -> Entries] /\ tref' \in [Refs -> Slots \cup {None}]
      /\ cache' \in [Vals -> Refs \cup {None}] /\ native' \in [Objects -> 0 .. MaxNative]
      /\ Linked(phase, ptr, toRef, registry')
      /\ Slotted(alive', tref', registry', vals)
      /\ Scoped(phase, registry', vals, contents, held)
  BY <1>1, <1>3, OpenFacts
<1>6. Inv'
  BY <1>3, <1>4, <1>5, KeepsTakenOpen
<1>. QED  BY <1>3, <1>6

LEMMA KeepsEnterWith ==
    ASSUME Inv, NEW u \in Uds, NEW owns \in BOOLEAN, NEW X, EnterWith(u, owns, X)
    PROVE  Inv' /\ member' = member /\ \E S \in SUBSET Objects : Takes(S)
<1>1. PICK x \in InScope \cap X, o \in Objects : TypeToDi(x, o) /\ Enter(u, owns, {o})
  BY DEF EnterWith
<1>2. PICK S : S = Entered(u, owns, {o})
  OBVIOUS
<1>3. /\ lua = "open" /\ lua' = lua /\ doomed' = doomed /\ native' = native
      /\ member' = member /\ phase' = phase /\ ptr' = ptr /\ toRef' = toRef
      /\ vals' = vals /\ contents' = contents /\ held' = held /\ wheld' = wheld
      /\ calls' \in Seq(Frames) /\ ptr[u] \in alive /\ S \in SUBSET Objects /\ Takes(S)
  BY <1>1, <1>2, EnterFacts
<1>4. /\ alive' = alive \cup {o}
      /\ registry' \in [Slots -> Entries] /\ tref' \in [Refs -> Slots \cup {None}]
      /\ cache' \in [Vals -> Refs \cup {None}]
      /\ Linked(phase, ptr, toRef, registry')
      /\ Slotted(alive', tref', registry', vals)
      /\ Scoped(phase, registry', vals, contents, held)
  BY <1>1, <1>3, Converts
<1>5. alive' = alive \cup S
  BY <1>2, <1>3, <1>4 DEF Entered
<1>6. native' \in [Objects -> 0 .. MaxNative]
  BY <1>3, OpenFacts
<1>7. Inv'
  BY <1>3, <1>4, <1>5, <1>6, KeepsTakenOpen
<1>. QED  BY <1>3, <1>7

LEMMA KeepsReturnToDi ==
    ASSUME Inv, NEW x, ReturnToDi(x)
    PROVE  Inv' /\ member' = member /\ \E S \in SUBSET Objects : Takes(S)
<1>1. /\ lua = "open" /\ x \in InScope
      /\ UNCHANGED <<lua, calls, phase, ptr, toRef, member, vals, contents, held, wheld, doomed>>
  BY DEF ReturnToDi, proxyVars, scriptVars
<1>2. PICK o \in Objects : /\ TypeToDi(x, o) /\ native[o] < MaxNative
                           /\ native' = [native EXCEPT ![o] = @ + 1]
  BY DEF ReturnToDi
<1>3. /\ alive' = alive \cup {o}
      /\ registry' \in [Slots -> Entries] /\ tref' \in [Refs -> Slots \cup {None}]
      /\ cache' \in [Vals -> Refs \cup {None}]
      /\ Linked(phase, ptr, toRef, registry')
      /\ Slotted(alive', tref', registry', vals)
      /\ Scoped(phase, registry', vals, contents, held)
  BY <1>1, <1>2, Converts
<1>4. native \in [Objects -> 0 .. MaxNative] /\ calls \in Seq(Frames)
  BY <1>1, OpenFacts
<1>5. /\ native' \in [Objects -> 0 .. MaxNative]
      /\ \A y \in Objects : Used(y, native', calls, doomed) <=> Used(y, native, calls, doomed) \/ y = o
  BY <1>2, <1>4, RaiseUsed
<1>6. Takes({o}) /\ {o} \in SUBSET Objects
  BY <1>1, <1>5 DEF Takes
<1>7. Inv'
  BY <1>1, <1>3, <1>4, <1>5, <1>6, KeepsTakenOpen
<1>. QED  BY <1>1, <1>6, <1>7

(* deai code keeps one more reference to an object that is alive.            *)
LEMMA KeepsRaised ==
    ASSUME Inv, lua = "open", NEW o \in alive, native[o] < MaxNative,
           native' = [native EXCEPT ![o] = @ + 1],
           lua' = lua, alive' = alive, calls' = calls, doomed' = doomed, member' = member,
           phase' = phase, ptr' = ptr, toRef' = toRef, registry' = registry, tref' = tref,
           cache' = cache, vals' = vals, contents' = contents, held' = held, wheld' = wheld
    PROVE  Inv' /\ member' = member /\ \E S \in SUBSET Objects : Takes(S)
<1>1. /\ registry \in [Slots -> Entries] /\ tref \in [Refs -> Slots \cup {None}]
      /\ cache \in [Vals -> Refs \cup {None}]
      /\ native \in [Objects -> 0 .. MaxNative] /\ calls \in Seq(Frames)
      /\ alive \subseteq Objects
      /\ Linked(phase, ptr, toRef, registry)
      /\ Slotted(alive, tref, registry, vals)
      /\ Scoped(phase, registry, vals, contents, held)
  BY OpenFacts
<1>2. o \in Objects
  BY <1>1
<1>3. /\ native' \in [Objects -> 0 .. MaxNative]
      /\ \A y \in Objects : Used(y, native', calls, doomed) <=> Used(y, native, calls, doomed) \/ y = o
  BY <1>1, <1>2, RaiseUsed
<1>4. Takes({o}) /\ {o} \in SUBSET Objects /\ alive' = alive \cup {o}
  BY <1>2, <1>3 DEF Takes
<1>5. Inv'
  BY <1>1, <1>3, <1>4, KeepsTakenOpen
<1>. QED  BY <1>4, <1>5

LEMMA KeepsKeep ==
    ASSUME Inv, NEW o \in Objects, Keep(o)
    PROVE  Inv' /\ member' = member /\ \E S \in SUBSET Objects : Takes(S)
<1>1. /\ calls # <<>> /\ o \in calls[Len(calls)].args /\ native[o] < MaxNative
      /\ native' = [native EXCEPT ![o] = @ + 1]
      /\ UNCHANGED <<lua, alive, calls, phase, ptr, toRef, member, registry, tref, cache, vals,
                     contents, held, wheld, doomed>>
  BY DEF Keep, proxyVars, valueVars, scriptVars
<1>2. lua = "open"
  BY <1>1, Types DEF Inv, WhileClosing, WhileClosed, Idle
<1>3. Len(calls) \in DOMAIN calls
  BY <1>1, <1>2, OpenFacts
<1>4. Used(o, native, calls, doomed)
  BY <1>1, <1>3 DEF Used
<1>5. o \in alive
  BY <1>4 DEF Inv, AliveReferenced
<1>. QED  BY <1>1, <1>2, <1>5, KeepsRaised

LEMMA KeepsDiGetter ==
    ASSUME Inv, NEW r \in Refs, DiGetter(r)
    PROVE  Inv' /\ member' = member /\ \E S \in SUBSET Objects : Takes(S)
<1>1. /\ Reachable(r)
      /\ UNCHANGED <<lua, alive, calls, phase, ptr, toRef, member, registry, tref, cache, vals,
                     contents, held, wheld, doomed>>
  BY DEF DiGetter, proxyVars, valueVars, scriptVars
<1>2. PICK u \in contents[ValueOf(r)] : /\ native[ptr[u]] < MaxNative
                                        /\ native' = [native EXCEPT ![ptr[u]] = @ + 1]
  BY DEF DiGetter
<1>3. lua = "open" /\ u \in Uds /\ phase[u] = "live"
  BY <1>1, ValueFacts
<1>4. ptr[u] \in alive
  BY <1>3, LiveAlive
<1>. QED  BY <1>1, <1>2, <1>3, <1>4, KeepsRaised

LEMMA KeepsNewObject ==
    ASSUME Inv, NEW o \in Objs, NewObject(o)
    PROVE  Inv' /\ member' = member /\ \E S \in SUBSET Objects : Takes(S)
<1>1. /\ o \notin alive /\ MaxNative > 0 /\ alive' = alive \cup {o}
      /\ native' = [native EXCEPT ![o] = 1]
      /\ UNCHANGED <<lua, calls, phase, ptr, toRef, member, registry, tref, cache, vals,
                     contents, held, wheld, doomed>>
  BY DEF NewObject, Unused, proxyVars, valueVars, scriptVars
<1>2. /\ lua \in {"open", "closing", "closed"}
      /\ registry \in [Slots -> Entries] /\ tref \in [Refs -> Slots \cup {None}]
      /\ cache \in [Vals -> Refs \cup {None}] /\ doomed \subseteq Refs
      /\ native \in [Objects -> 0 .. MaxNative] /\ calls \in Seq(Frames)
      /\ Linked(phase, ptr, toRef, registry)
      /\ AliveReferenced(alive, native, member, calls, doomed)
  BY Types DEF Inv
<1>3. o \in Objects /\ o \notin Refs /\ Refs \subseteq Objects
  BY BridgeAssumption DEF Objects
<1>4. 1 \in 0 .. MaxNative
  BY <1>1, BridgeAssumption
<1>5. /\ native' \in [Objects -> 0 .. MaxNative] /\ native'[o] = 1
      /\ \A x \in Objects : x # o => native'[x] = native[x]
  BY <1>1, <1>2, <1>3, <1>4
<1>6. \A x \in Objects : native'[x] > 0 => native[x] > 0 \/ x = o
  BY <1>5
<1>7. \A x \in Objects : native[x] > 0 \/ x = o => native'[x] > 0
  BY <1>5
<1>8. Takes({o})
  BY <1>1, <1>6, <1>7 DEF Takes, Used
<1>9. alive' \cap Refs = alive \cap Refs
  BY <1>1, <1>3
<1>10. Idle(native, calls) => Idle(native', calls)
  BY <1>3, <1>5 DEF Idle
<1>11. WhileOpen'
  BY <1>1, <1>9 DEF Inv, WhileOpen, Slotted
<1>12. WhileClosing'
  BY <1>1, <1>9, <1>10 DEF Inv, WhileClosing
<1>13. WhileClosed'
  BY <1>1, <1>9, <1>10 DEF Inv, WhileClosed
<1>14. {o} \in SUBSET Objects
  BY <1>3
<1>15. Inv'
  BY <1>1, <1>2, <1>5, <1>8, <1>11, <1>12, <1>13, <1>14, KeepsTaken
<1>. QED  BY <1>1, <1>8, <1>14, <1>15

-----------------------------------------------------------------------------
(* The end of the state object and the next one.                             *)

LEMMA KeepsLuaStateDtor ==
    ASSUME Inv, LuaStateDtor
    PROVE  Inv' /\ member' = member /\ \E S \in SUBSET Objects : Takes(S)
<1>1. /\ lua = "open" /\ calls = <<>> /\ (\A r \in Refs : native[r] = 0)
      /\ lua' = "closing" /\ doomed' = alive \cap Refs
      /\ UNCHANGED <<alive, native, calls, phase, ptr, toRef, member, tref, cache, vals,
                     contents, held, wheld>>
  BY DEF LuaStateDtor, objectVars, proxyVars, valueVars, scriptVars
<1>2. PICK early \in SUBSET (alive \cap Refs) : registry' = LuaRefDtor(registry, early)
  BY DEF LuaStateDtor
<1>3. /\ registry \in [Slots -> Entries] /\ tref \in [Refs -> Slots \cup {None}]
      /\ cache \in [Vals -> Refs \cup {None}]
      /\ native \in [Objects -> 0 .. MaxNative] /\ calls \in Seq(Frames)
      /\ alive \subseteq Objects /\ doomed = {}
      /\ Linked(phase, ptr, toRef, registry)
      /\ Slotted(alive, tref, registry, vals)
  BY <1>1, OpenFacts
<1>4. registry' = [i \in Slots |-> IF \E r \in early \cap Refs : tref[r] = i THEN Empty ELSE registry[i]]
  BY <1>2, <1>3 DEF LuaRefDtor, Unref
<1>5. registry' \in [Slots -> Entries]
  BY <1>3, <1>4, EntryKinds
<1>6. Linked(phase, ptr, toRef, registry')
  <2>1. \A i \in Slots : registry'[i] # registry[i] => \E r \in alive \cap Refs : tref[r] = i
    BY <1>4
  <2>2. \A r \in alive \cap Refs : \E v \in Vals : registry[tref[r]] = Value(v)
    BY <1>3 DEF Slotted
  <2>3. \A i \in Slots : \A w : registry[i] = WeakTo(w) => registry'[i] = WeakTo(w)
    BY <2>1, <2>2, EntryKinds
  <2>4. \A u \in Uds : phase[u] = "live" => ptr[u] # None
    BY LinkedFacts
  <2>5. ptr \in [Uds -> Objects \cup {None}] /\ toRef \in [Objects -> Slots \cup {None}]
    BY Types DEF Inv
  <2>. QED  BY <1>3, <2>3, <2>4, <2>5, LinkedKept
<1>7. PICK S : S = alive \cap Refs
  OBVIOUS
<1>8. S \in SUBSET Objects /\ alive' = alive \cup S /\ doomed' \subseteq Refs
  BY <1>1, <1>3, <1>7
<1>9. Takes(S)
  BY <1>1, <1>3, <1>7 DEF Takes, Used
<1>10. WhileOpen' /\ WhileClosing' /\ WhileClosed'
  BY <1>1 DEF WhileOpen, WhileClosing, WhileClosed, Idle
<1>11. lua' \in {"open", "closing", "closed"}
  BY <1>1
<1>12. Inv'
  BY <1>1, <1>3, <1>5, <1>6, <1>8, <1>9, <1>10, <1>11, KeepsTaken
<1>. QED  BY <1>1, <1>8, <1>9, <1>12

LEMMA KeepsClosed ==
    ASSUME Inv, Closed
    PROVE  /\ Inv' /\ member' = member
           /\ \A x \in Objects : Used(x, native', calls', doomed') => Used(x, native, calls, doomed)
<1>1. /\ lua = "closing" /\ (\A u \in Uds : phase[u] = "free") /\ lua' = "closed"
      /\ alive' = alive \ doomed /\ doomed' = {}
      /\ registry' = [i \in Slots |-> Empty] /\ tref' = [r \in Refs |-> None]
      /\ cache' = [v \in Vals |-> None]
      /\ vals' = {} /\ contents' = [v \in Vals |-> {}] /\ held' = {} /\ wheld' = {}
      /\ UNCHANGED <<native, calls, phase, ptr, toRef, member>>
  BY DEF Closed, proxyVars
<1>2. /\ alive \subseteq Objects /\ Refs \subseteq Objects
      /\ native \in [Objects -> 0 .. MaxNative] /\ calls \in Seq(Frames)
      /\ phase \in [Uds -> {"free", "live", "dead"}] /\ ptr \in [Uds -> Objects \cup {None}]
      /\ member \in [Uds -> Objects \cup {None}] /\ toRef \in [Objects -> Slots \cup {None}]
      /\ AliveReferenced(alive, native, member, calls, doomed)
      /\ Members(phase, ptr, member) /\ Linked(phase, ptr, toRef, registry)
      /\ doomed = alive \cap Refs /\ Idle(native, calls)
  BY <1>1, Types DEF Inv, WhileClosing, Objects
<1>3. None \notin Objects
  BY BridgeAssumption DEF Objects
<1>4. \A u \in Uds : ptr[u] = None
  BY <1>1, <1>2 DEF Members
<1>5. \A x \in Objects : toRef[x] = None
  BY <1>2, <1>3, <1>4 DEF Linked
<1>6. Linked(phase, ptr, toRef, registry')
  BY <1>1, <1>5 DEF Linked
<1>7. \A x \in Objects : ~Lent(x, member)
  BY <1>2, <1>3, <1>4 DEF Lent, Members
<1>8. \A x \in Objects : Used(x, native, calls, {}) => Used(x, native, calls, doomed)
  BY DEF Used
<1>9. \A x \in Objects : x \notin doomed => (Used(x, native, calls, {}) <=> Used(x, native, calls, doomed))
  BY DEF Used
<1>10. \A x \in doomed : ~Used(x, native, calls, {})
  <2>1. DOMAIN calls = {}
    BY <1>2 DEF Idle
  <2>2. \A x \in doomed : ~(native[x] > 0)
    BY <1>2 DEF Idle
  <2>. QED  BY <2>1, <2>2 DEF Used
<1>11. AliveReferenced(alive', native, member, calls, {})
  BY <1>1, <1>2, <1>7, <1>9, <1>10 DEF AliveReferenced
<1>12. /\ alive' \subseteq Objects /\ registry' \in [Slots -> Entries]
       /\ tref' \in [Refs -> Slots \cup {None}] /\ cache' \in [Vals -> Refs \cup {None}]
       /\ contents' \in [Vals -> SUBSET Uds]
  BY <1>1, <1>2, EntryKinds
<1>13. TypeOK'
  BY <1>1, <1>2, <1>12, TypesPrime
<1>14. alive' \cap Refs = {}
  BY <1>1, <1>2
<1>15. WhileOpen' /\ WhileClosing' /\ WhileClosed'
  BY <1>1, <1>2, <1>14 DEF WhileOpen, WhileClosing, WhileClosed
<1>16. Inv'
  BY <1>1, <1>2, <1>6, <1>11, <1>13, <1>15 DEF Inv
<1>. QED  BY <1>1, <1>8, <1>16

LEMMA KeepsLoadScript ==
    ASSUME Inv, LoadScript
    PROVE  Inv' /\ ObjectsStay
<1>1. /\ lua = "closed" /\ lua' = "open"
      /\ UNCHANGED <<alive, native, calls, phase, ptr, toRef, member, registry, tref, cache,
                     vals, contents, held, wheld, doomed>>
  BY DEF LoadScript, objectVars, proxyVars, valueVars, scriptVars
<1>2. /\ doomed = {} /\ alive \cap Refs = {} /\ registry = [i \in Slots |-> Empty]
      /\ vals = {} /\ held = {} /\ contents = [v \in Vals |-> {}]
  BY <1>1 DEF Inv, WhileClosed
<1>3. Slotted(alive, tref, registry, vals)
  BY <1>2, EntryKinds DEF Slotted
<1>4. Scoped(phase, registry, vals, contents, held)
  BY <1>2 DEF Scoped
<1>5. WhileOpen' /\ WhileClosing' /\ WhileClosed'
  BY <1>1, <1>2, <1>3, <1>4 DEF WhileOpen, WhileClosing, WhileClosed
<1>6. TypeOK'
  BY <1>1, Types, TypesPrime DEF Inv
<1>7. Inv'
  BY <1>1, <1>5, <1>6 DEF Inv
<1>. QED  BY <1>1, <1>7 DEF ObjectsStay

-----------------------------------------------------------------------------
(* The invariant holds throughout.                                           *)

LEMMA InitInv ==
    ASSUME Init
    PROVE  Inv
<1>1. /\ lua = "open" /\ alive = {} /\ native = [o \in Objects |-> 0] /\ calls = <<>>
      /\ phase = [u \in Uds |-> "free"] /\ ptr = [u \in Uds |-> None]
      /\ member = [u \in Uds |-> None] /\ toRef = [o \in Objects |-> None]
      /\ registry = [i \in Slots |-> Empty] /\ tref = [r \in Refs |-> None]
      /\ cache = [v \in Vals |-> None] /\ vals = {} /\ contents = [v \in Vals |-> {}]
      /\ held = {} /\ wheld = {} /\ doomed = {}
  BY DEF Init
<1>2. 0 \in 0 .. MaxNative
  BY BridgeAssumption
<1>3. None \notin Objects
  BY BridgeAssumption DEF Objects
<1>4. /\ native \in [Objects -> 0 .. MaxNative] /\ calls \in Seq(Frames)
      /\ registry \in [Slots -> Entries]
  BY <1>1, <1>2, EntryKinds
<1>5. TypeOK
  BY <1>1, <1>4, Types
<1>6. \A o \in Objects : ~Used(o, native, calls, doomed)
  BY <1>1 DEF Used
<1>7. \A o \in Objects : ~Lent(o, member)
  BY <1>1, <1>3 DEF Lent
<1>8. AliveReferenced(alive, native, member, calls, doomed)
  BY <1>1, <1>6, <1>7 DEF AliveReferenced
<1>9. Members(phase, ptr, member) /\ Linked(phase, ptr, toRef, registry)
  BY <1>1 DEF Members, Linked
<1>10. Slotted(alive, tref, registry, vals) /\ Scoped(phase, registry, vals, contents, held)
  BY <1>1, EntryKinds DEF Slotted, Scoped
<1>11. WhileOpen /\ WhileClosing /\ WhileClosed
  BY <1>1, <1>10 DEF WhileOpen, WhileClosing, WhileClosed
<1>. QED  BY <1>5, <1>8, <1>9, <1>11 DEF Inv

(* What a step may do to the owners of the objects.                          *)
Took == member' = member /\ \E S \in SUBSET Objects : Takes(S)

UsesNoMore == \A x \in Objects : Used(x, native', calls', doomed') => Used(x, native, calls, doomed)

Dropped ==
    /\ UsesNoMore
    /\ \/ member' = member
       \/ \E o \in alive : \A x \in Objects : Lent(x, member') <=> Lent(x, member) \/ x = o

GaveBack ==
    /\ native' = native /\ calls' = calls /\ doomed' = doomed
    /\ \E o \in Objects : /\ Lent(o, member)
                          /\ \A x \in Objects : x # o => (Lent(x, member') <=> Lent(x, member))

LEMMA StaysTook ==
    ASSUME ObjectsStay
    PROVE  Took
<1>1. Takes({})
  BY DEF ObjectsStay, Takes
<1>. QED  BY <1>1 DEF ObjectsStay, Took

LEMMA KeepsProxyStep ==
    ASSUME Inv, NEW u \in Uds,
           \/ ClearWeak(u) \/ GcProxy(u) \/ CloseProxy(u) \/ WeakRef(u)
           \/ MetaIndex(u) \/ MetaNewindex(u) \/ AddListener(u) \/ EmitSignal(u) \/ MethodHandler(u)
    PROVE  Inv' /\ (Took \/ Dropped \/ GaveBack)
<1>1. CASE ClearWeak(u)
  BY <1>1, KeepsClearWeak, StaysTook
<1>2. CASE GcProxy(u) \/ CloseProxy(u)
  BY <1>2, KeepsGcProxy DEF GaveBack
<1>3. CASE WeakRef(u)
  BY <1>3, KeepsWeakRef, StaysTook
<1>4. CASE MetaIndex(u)
  BY <1>4, KeepsMetaIndex DEF Took
<1>5. CASE MetaNewindex(u) \/ EmitSignal(u)
  <2>1. EnterWith(u, TRUE, Uds \cup Vals)
    BY <1>5 DEF MetaNewindex, EmitSignal
  <2>. QED  BY <2>1, KeepsEnterWith DEF Took
<1>6. CASE AddListener(u)
  <2>1. EnterWith(u, TRUE, Vals)
    BY <1>6 DEF AddListener
  <2>. QED  BY <2>1, KeepsEnterWith DEF Took
<1>7. CASE MethodHandler(u)
  <2>1. EnterWith(u, FALSE, Uds \cup Vals)
    BY <1>7 DEF MethodHandler
  <2>. QED  BY <2>1, KeepsEnterWith DEF Took
<1>. QED  BY <1>1, <1>2, <1>3, <1>4, <1>5, <1>6, <1>7

LEMMA KeepsObjectStep ==
    ASSUME Inv, NEW o \in Objects,
           Keep(o) \/ DropNative(o) \/ PushArgument(o) \/ UpgradeWeakRef(o) \/ GcForWeakObject(o)
    PROVE  Inv' /\ (Took \/ Dropped \/ GaveBack)
<1>1. CASE Keep(o)
  BY <1>1, KeepsKeep DEF Took
<1>2. CASE DropNative(o)
  BY <1>2, KeepsDropNative DEF Dropped, UsesNoMore
<1>3. CASE PushArgument(o)
  BY <1>3, KeepsPushArgument DEF Dropped, UsesNoMore
<1>4. CASE UpgradeWeakRef(o)
  BY <1>4, KeepsUpgradeWeakRef DEF Dropped, UsesNoMore
<1>5. CASE GcForWeakObject(o)
  BY <1>5, KeepsGcForWeakObject, StaysTook
<1>. QED  BY <1>1, <1>2, <1>3, <1>4, <1>5

LEMMA KeepsValueStep ==
    ASSUME Inv,
           \/ \E r \in Refs : CallLuaFunction(r) \/ DiGetter(r) \/ \E o \in Objects : DiSetter(r, o)
           \/ \E v \in Vals : NewValue(v) \/ CollectValue(v)
                                 \/ \E u \in Uds : Capture(v, u) \/ Fetch(v, u)
           \/ \E x \in Uds \cup Vals : Forget(x) \/ ReturnToDi(x)
    PROVE  Inv' /\ (Took \/ Dropped \/ GaveBack)
<1>1. CASE \E r \in Refs : CallLuaFunction(r)
  BY <1>1, KeepsCallLuaFunction, StaysTook
<1>2. CASE \E r \in Refs : DiGetter(r)
  BY <1>2, KeepsDiGetter DEF Took
<1>3. CASE \E r \in Refs, o \in Objects : DiSetter(r, o)
  BY <1>3, KeepsDiSetter DEF Dropped, UsesNoMore
<1>4. CASE \E v \in Vals : NewValue(v)
  BY <1>4, KeepsNewValue, StaysTook
<1>5. CASE \E v \in Vals : CollectValue(v)
  BY <1>5, KeepsCollectValue, StaysTook
<1>6. CASE \E v \in Vals, u \in Uds : Capture(v, u)
  BY <1>6, KeepsCapture, StaysTook
<1>7. CASE \E v \in Vals, u \in Uds : Fetch(v, u)
  BY <1>7, KeepsFetch, StaysTook
<1>8. CASE \E x \in Uds \cup Vals : Forget(x)
  BY <1>8, KeepsForget, StaysTook
<1>9. CASE \E x \in Uds \cup Vals : ReturnToDi(x)
  BY <1>9, KeepsReturnToDi DEF Took
<1>. QED  BY <1>1, <1>2, <1>3, <1>4, <1>5, <1>6, <1>7, <1>8, <1>9

LEMMA KeepsStateStep ==
    ASSUME Inv, (\E o \in Objs : NewObject(o)) \/ Return \/ LuaStateDtor \/ Closed \/ LoadScript
    PROVE  Inv' /\ (Took \/ Dropped \/ GaveBack)
<1>1. CASE \E o \in Objs : NewObject(o)
  BY <1>1, KeepsNewObject DEF Took
<1>2. CASE Return
  <2>1. /\ Inv' /\ native' = native /\ doomed' = doomed
        /\ calls # <<>> /\ calls' = SubSeq(calls, 1, Len(calls) - 1)
        /\ \/ member' = member
           \/ \E o \in alive : \A x \in Objects : Lent(x, member') <=> Lent(x, member) \/ x = o
    BY <1>2, KeepsReturn
  <2>2. UsesNoMore
    BY <2>1, RestFacts DEF UsesNoMore
  <2>. QED  BY <2>1, <2>2 DEF Dropped
<1>3. CASE LuaStateDtor
  BY <1>3, KeepsLuaStateDtor DEF Took
<1>4. CASE Closed
  BY <1>4, KeepsClosed DEF Dropped, UsesNoMore
<1>5. CASE LoadScript
  BY <1>5, KeepsLoadScript, StaysTook
<1>. QED  BY <1>1, <1>2, <1>3, <1>4, <1>5

LEMMA StepInv ==
    ASSUME Inv, Next
    PROVE  Inv' /\ (Took \/ Dropped \/ GaveBack)
  BY KeepsProxyStep, KeepsObjectStep, KeepsValueStep, KeepsStateStep DEF Next

LEMMA StutterInv ==
    ASSUME Inv, UNCHANGED vars
    PROVE  Inv'
<1>1. UNCHANGED <<lua, alive, native, calls, phase, ptr, toRef, member, registry, tref, cache,
                  vals, contents, held, wheld, doomed>>
  BY DEF vars, objectVars, proxyVars, valueVars, scriptVars
<1>2. TypeOK'
  BY <1>1, Types, TypesPrime DEF Inv
<1>3. WhileOpen' /\ WhileClosing' /\ WhileClosed'
  BY <1>1 DEF Inv, WhileOpen, WhileClosing, WhileClosed
<1>. QED  BY <1>1, <1>2, <1>3 DEF Inv

(* The invariant holds at every step: of what the plugin keeps for each      *)
(* proxy (the member that owns the object, the registry slot with the weak   *)
(* reference), for each LuaProxy (its own slot), and of what a script can    *)
(* still reach.                                                              *)
THEOREM Invariant == Spec => []Inv
<1>1. Init => Inv
  BY InitInv
<1>2. Inv /\ [Next]_vars => Inv'
  BY StepInv, StutterInv
<1>. QED  BY <1>1, <1>2, PTL DEF Spec

(* Every variable keeps its type: no reference count leaves its range.       *)
THEOREM TypesKept == Spec => []TypeOK
<1>1. Inv => TypeOK
  BY DEF Inv
<1>. QED  BY <1>1, Invariant, PTL

(* An object has one proxy that Lua code can use, whatever proxies of it     *)
(* wait for their __gc (di_lua_pushobject, di_lua_gc).                       *)
THEOREM ProxiesAreUnique == Spec => []OneProxy
<1>1. ASSUME Inv
      PROVE  OneProxy
  <2>1. \A u \in Uds : phase[u] = "live" => Current(ptr[u]) = u
    BY <1>1, LinkedFacts
  <2>. QED  BY <2>1 DEF OneProxy
<1>. QED  BY <1>1, Invariant, PTL

(* A userdata never points to a destroyed object, and the members its __gc   *)
(* deletes are there (di_lua_gc, di_lua_pushproxy).                          *)
THEOREM ProxiesStayTracked == Spec => []ProxiesTracked
<1>1. ASSUME Inv
      PROVE  ProxiesTracked
  <2>1. /\ Members(phase, ptr, member) /\ Linked(phase, ptr, toRef, registry)
        /\ AliveReferenced(alive, native, member, calls, doomed)
    BY <1>1 DEF Inv
  <2>2. \A u \in Uds : member[u] = ptr[u] /\ (phase[u] = "free" <=> ptr[u] = None)
    BY <2>1 DEF Members
  <2>3. \A u \in Proxied : ptr[u] \in alive
    <3>1. ASSUME NEW u \in Uds, phase[u] # "free"
          PROVE  ptr[u] \in alive
      <4>1. ptr[u] \in Objects
        BY <1>1, <3>1, LinkedFacts
      <4>2. Lent(ptr[u], member)
        BY <2>2 DEF Lent
      <4>. QED  BY <2>1, <4>1, <4>2 DEF AliveReferenced
    <3>. QED  BY <3>1 DEF Proxied
  <2>4. ASSUME NEW o \in Objects, toRef[o] # None
        PROVE  (\E u \in Proxied : ptr[u] = o) /\ registry[toRef[o]].kind = "weak"
    <3>1. PICK u \in Uds : ptr[u] = o
      BY <2>1, <2>4 DEF Linked
    <3>2. o # None
      BY BridgeAssumption DEF Objects
    <3>3. u \in Proxied
      BY <2>2, <3>1, <3>2 DEF Proxied
    <3>4. registry[toRef[o]] = WeakTo(Current(o))
      BY <1>1, <2>4, LinkedFacts
    <3>. QED  BY <3>1, <3>3, <3>4, EntryKinds
  <2>. QED  BY <2>2, <2>3, <2>4 DEF ProxiesTracked
<1>. QED  BY <1>1, Invariant, PTL

-----------------------------------------------------------------------------
(* The plugin implements SharedOwner.                                        *)

(* The values of SharedOwner's variables.                                    *)
UsedObjects == {o \in Objects : RefCount(o, native, [u \in Uds |-> None], calls) > 0}
LentObjects == {member[u] : u \in Uds} \ {None}

LEMMA MappedUsed ==
    Inv => \A x \in Objects : x \in UsedObjects <=> Used(x, native, calls, doomed)
<1>1. SUFFICES ASSUME Inv, NEW x \in Objects
               PROVE  x \in UsedObjects <=> Used(x, native, calls, doomed)
  OBVIOUS
<1>2. native \in [Objects -> 0 .. MaxNative] /\ calls \in Seq(Frames)
  BY <1>1, Types DEF Inv
<1>3. x # None
  BY BridgeAssumption DEF Objects
<1>4. ~Lent(x, [u \in Uds |-> None])
  BY <1>3 DEF Lent
<1>5. RefCount(x, native, [u \in Uds |-> None], calls) > 0 <=>
         Used(x, native, calls, doomed) \/ Lent(x, [u \in Uds |-> None])
  BY <1>2, Counts
<1>. QED  BY <1>4, <1>5 DEF UsedObjects

LEMMA MappedLent ==
    Inv => LentObjects \subseteq Objects /\ \A x \in Objects : x \in LentObjects <=> Lent(x, member)
<1>1. SUFFICES ASSUME Inv
               PROVE  /\ LentObjects \subseteq Objects
                      /\ \A x \in Objects : x \in LentObjects <=> Lent(x, member)
  OBVIOUS
<1>2. member \in [Uds -> Objects \cup {None}] /\ None \notin Objects
  BY <1>1, Types, BridgeAssumption DEF Inv, Objects
<1>. QED  BY <1>2 DEF LentObjects, Lent

LEMMA MappedAlive ==
    Inv => alive = UsedObjects \cup LentObjects
<1>1. SUFFICES ASSUME Inv
               PROVE  alive = UsedObjects \cup LentObjects
  OBVIOUS
<1>2. alive \subseteq Objects /\ AliveReferenced(alive, native, member, calls, doomed)
  BY <1>1, Types DEF Inv
<1>3. UsedObjects \subseteq Objects
  BY DEF UsedObjects
<1>. QED  BY <1>1, <1>2, <1>3, MappedUsed, MappedLent DEF AliveReferenced

LEMMA MappedAfter ==
    Inv' => /\ \A x \in Objects : x \in UsedObjects' <=> Used(x, native', calls', doomed')
            /\ LentObjects' \subseteq Objects
            /\ \A x \in Objects : x \in LentObjects' <=> Lent(x, member')
            /\ alive' = UsedObjects' \cup LentObjects'
<1>1. Inv' => (\A x \in Objects : x \in UsedObjects <=> Used(x, native, calls, doomed))'
  BY MappedUsed, PTL
<1>2. Inv' => /\ (LentObjects \subseteq Objects)'
              /\ (\A x \in Objects : x \in LentObjects <=> Lent(x, member))'
  BY MappedLent, PTL
<1>3. Inv' => (alive = UsedObjects \cup LentObjects)'
  BY MappedAlive, PTL
<1>. QED  BY <1>1, <1>2, <1>3

LEMMA MapsStep ==
    ASSUME Inv, Inv', Took \/ Dropped \/ GaveBack
    PROVE  /\ \/ \E S \in SUBSET Objects :
                    \/ UsedObjects' = UsedObjects \cup S /\ LentObjects' = LentObjects
                    \/ /\ UsedObjects' = UsedObjects \ S
                       /\ \/ LentObjects' = LentObjects
                          \/ \E o \in alive : LentObjects' = LentObjects \cup {o}
              \/ \E o \in LentObjects : LentObjects' = LentObjects \ {o} /\ UsedObjects' = UsedObjects
           /\ alive' = UsedObjects' \cup LentObjects'
<1>1. /\ \A x \in Objects : x \in UsedObjects <=> Used(x, native, calls, doomed)
      /\ LentObjects \subseteq Objects
      /\ \A x \in Objects : x \in LentObjects <=> Lent(x, member)
      /\ alive \subseteq Objects
  BY MappedUsed, MappedLent, Types DEF Inv
<1>2. /\ \A x \in Objects : x \in UsedObjects' <=> Used(x, native', calls', doomed')
      /\ LentObjects' \subseteq Objects
      /\ \A x \in Objects : x \in LentObjects' <=> Lent(x, member')
      /\ alive' = UsedObjects' \cup LentObjects'
  BY MappedAfter
<1>3. UsedObjects \subseteq Objects /\ UsedObjects' \subseteq Objects
  BY DEF UsedObjects
<1>4. CASE Took
  <2>1. PICK S \in SUBSET Objects : Takes(S)
    BY <1>4 DEF Took
  <2>2. UsedObjects' = UsedObjects \cup S
    BY <1>1, <1>2, <1>3, <2>1 DEF Takes
  <2>3. LentObjects' = LentObjects
    BY <1>4 DEF Took, LentObjects
  <2>. QED  BY <1>2, <2>2, <2>3
<1>5. CASE Dropped
  <2>1. UsedObjects' \subseteq UsedObjects
    BY <1>1, <1>2, <1>3, <1>5 DEF Dropped, UsesNoMore
  <2>2. PICK S \in SUBSET Objects : S = UsedObjects \ UsedObjects'
    BY <1>3
  <2>3. UsedObjects' = UsedObjects \ S
    BY <2>1, <2>2
  <2>4. LentObjects' = LentObjects \/ \E o \in alive : LentObjects' = LentObjects \cup {o}
    <3>1. CASE member' = member
      BY <3>1 DEF LentObjects
    <3>2. CASE \E o \in alive : \A x \in Objects : Lent(x, member') <=> Lent(x, member) \/ x = o
      <4>1. PICK o \in alive : \A x \in Objects : Lent(x, member') <=> Lent(x, member) \/ x = o
        BY <3>2
      <4>2. LentObjects' = LentObjects \cup {o}
        BY <1>1, <1>2, <4>1
      <4>. QED  BY <4>2
    <3>. QED  BY <1>5, <3>1, <3>2 DEF Dropped
  <2>. QED  BY <1>2, <2>3, <2>4
<1>6. CASE GaveBack
  <2>1. UsedObjects' = UsedObjects
    BY <1>1, <1>2, <1>3, <1>6 DEF GaveBack
  <2>2. PICK o \in Objects : /\ Lent(o, member)
                             /\ \A x \in Objects : x # o => (Lent(x, member') <=> Lent(x, member))
    BY <1>6 DEF GaveBack
  <2>3. CASE Lent(o, member')
    <3>1. LentObjects' = LentObjects
      BY <1>1, <1>2, <2>2, <2>3
    <3>2. UsedObjects' = UsedObjects \cup {}
      BY <2>1
    <3>. QED  BY <1>2, <3>1, <3>2
  <2>4. CASE ~Lent(o, member')
    <3>1. LentObjects' = LentObjects \ {o} /\ o \in LentObjects
      BY <1>1, <1>2, <2>2, <2>4
    <3>. QED  BY <1>2, <2>1, <3>1
  <2>. QED  BY <2>3, <2>4
<1>. QED  BY <1>4, <1>5, <1>6

(* However many proxies of an object come and go, the plugin is one owner of *)
(* it: every step is a step of SharedOwner, in which an object is destroyed  *)
(* at the step that takes its last owner, and by no other.                   *)
THEOREM ImplementsOwner == Spec => OwnsOnce
<1>1. Init => Owner!Init
  <2>1. SUFFICES ASSUME Init
                 PROVE  alive = {} /\ UsedObjects = {} /\ LentObjects = {}
    BY DEF Owner!Init, UsedObjects, LentObjects
  <2>2. Inv
    BY <2>1, InitInv
  <2>3. alive = {}
    BY <2>1 DEF Init
  <2>. QED  BY <2>2, <2>3, MappedAlive
<1>2. Inv /\ Inv' /\ [Next]_vars => [Owner!Next]_Owner!vars
  <2>1. SUFFICES ASSUME Inv, Inv', [Next]_vars
                 PROVE  [Owner!Next]_Owner!vars
    OBVIOUS
  <2>2. CASE Next
    <3>1. Took \/ Dropped \/ GaveBack
      BY <2>1, <2>2, StepInv
    <3>2. /\ \/ \E S \in SUBSET Objects :
                   \/ UsedObjects' = UsedObjects \cup S /\ LentObjects' = LentObjects
                   \/ /\ UsedObjects' = UsedObjects \ S
                      /\ \/ LentObjects' = LentObjects
                         \/ \E o \in alive : LentObjects' = LentObjects \cup {o}
             \/ \E o \in LentObjects : LentObjects' = LentObjects \ {o} /\ UsedObjects' = UsedObjects
          /\ alive' = UsedObjects' \cup LentObjects'
      BY <2>1, <3>1, MapsStep
    <3>3. Owner!Next
      BY <3>2 DEF Owner!Next, Owner!Take, Owner!Drop, Owner!GiveBack, UsedObjects, LentObjects
    <3>. QED  BY <3>3
  <2>3. CASE UNCHANGED vars
    <3>1. alive' = alive /\ native' = native /\ calls' = calls /\ member' = member /\ doomed' = doomed
      BY <2>3 DEF vars, objectVars
    <3>2. UsedObjects' = UsedObjects /\ LentObjects' = LentObjects
      BY <3>1 DEF UsedObjects, LentObjects, RefCount
    <3>. QED  BY <3>1, <3>2 DEF Owner!vars, UsedObjects, LentObjects
  <2>. QED  BY <2>1, <2>2, <2>3
<1>. QED  BY <1>1, <1>2, Invariant, PTL DEF Spec, OwnsOnce, Owner!Spec
=============================================================================
