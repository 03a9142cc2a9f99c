----------------------------- MODULE LuaBridge -----------------------------
(***************************************************************************)
(* The Lua plugin (plugins/lua/lua.c): deai objects seen from Lua through   *)
(* proxies, Lua tables and functions seen from deai through LuaProxy        *)
(* objects (struct di_lua_ref).                                             *)
(*                                                                         *)
(* A proxy is a userdata that holds the address of an object.  The state    *)
(* object has one member per proxy, which owns the object, and one member   *)
(* per object, which names the registry slot with a weak reference to the   *)
(* proxy.  Lua clears the weak references to a dead userdata first and      *)
(* calls its __gc later, and anything may happen in between.                *)
(***************************************************************************)
EXTENDS Naturals, Sequences, FiniteSets

CONSTANTS
    Objs,        \* addresses of objects that deai code creates
    Refs,        \* addresses of LuaProxy objects
    Vals,        \* Lua tables and functions
    Uds,         \* addresses of full userdata
    None,
    Slots,       \* bound: indices of the Lua registry
    MaxNative,   \* bound: references to one object that deai code keeps
    MaxCalls     \* bound: nested calls from Lua into deai

ASSUME BridgeAssumption ==
    /\ Objs \cap Refs = {} /\ Uds \cap Vals = {}
    /\ None \notin Objs \cup Refs \cup Vals \cup Uds \cup Slots
    /\ IsFiniteSet(Uds)
    /\ MaxNative \in Nat /\ MaxCalls \in Nat

Objects == Objs \cup Refs

VARIABLES
    lua,       \* "open", "closing" while lua_close() runs, or "closed"
    alive,     \* objects that are not destroyed
    native,    \* references held by deai code, for each object
    calls,     \* calls from Lua into deai: the object whose proxy was used,
               \* whether the call references it, and the converted arguments
    phase,     \* of a userdata: "free", "live", or "dead": its weak references
               \* are cleared and its __gc is due
    ptr,       \* the object a userdata points to
    member,    \* ___lua_userdata_to_object_<userdata> of the state object
    toRef,     \* ___di_object_to_ref_<object>: a registry slot
    registry,  \* the Lua registry
    tref,      \* the slot of a LuaProxy
    cache,     \* object_cache: the weak proxy kept for a Lua value
    vals,      \* Lua values that are not collected
    contents,  \* the proxies a table or closure holds
    held,      \* the proxies and values Lua code reaches directly
    wheld,     \* objects that Lua code has a weak proxy of
    doomed     \* LuaProxies that die with the state in one garbage collection

objectVars == <<alive, native, calls>>
proxyVars == <<phase, ptr, toRef>>
valueVars == <<tref, cache>>
scriptVars == <<vals, contents, held, wheld>>
vars == <<lua, objectVars, proxyVars, member, registry, valueVars, scriptVars, doomed>>

Empty == [kind |-> "empty", of |-> None]
WeakTo(u) == [kind |-> "weak", of |-> u]
Value(v) == [kind |-> "value", of |-> v]

TypeOK ==
    /\ lua \in {"open", "closing", "closed"}
    /\ alive \subseteq Objects
    /\ native \in [Objects -> 0..MaxNative]
    /\ calls \in Seq([self : Objects, owns : BOOLEAN, args : SUBSET Objects])
    /\ phase \in [Uds -> {"free", "live", "dead"}]
    /\ ptr \in [Uds -> Objects \cup {None}]
    /\ member \in [Uds -> Objects \cup {None}]
    /\ toRef \in [Objects -> Slots \cup {None}]
    /\ registry \in [Slots -> [kind : {"empty", "weak", "value"}, of : Uds \cup Vals \cup {None}]]
    /\ tref \in [Refs -> Slots \cup {None}]
    /\ cache \in [Vals -> Refs \cup {None}]
    /\ vals \subseteq Vals
    /\ contents \in [Vals -> SUBSET Uds]
    /\ held \subseteq Uds \cup Vals
    /\ wheld \subseteq Objects
    /\ doomed \subseteq Refs

Init ==
    /\ lua = "open"
    /\ alive = {}
    /\ native = [o \in Objects |-> 0]
    /\ calls = <<>>
    /\ phase = [u \in Uds |-> "free"]
    /\ ptr = [u \in Uds |-> None]
    /\ member = [u \in Uds |-> None]
    /\ toRef = [o \in Objects |-> None]
    /\ registry = [i \in Slots |-> Empty]
    /\ tref = [r \in Refs |-> None]
    /\ cache = [v \in Vals |-> None]
    /\ vals = {} /\ contents = [v \in Vals |-> {}]
    /\ held = {} /\ wheld = {}
    /\ doomed = {}

-----------------------------------------------------------------------------
(* The strong references to an object, and what becomes of the objects that  *)
(* lose their last one.                                                      *)

RefCount(o, n, m, c) ==
    n[o] + Cardinality({u \in Uds : m[u] = o})
         + Cardinality({k \in DOMAIN c : c[k].owns /\ c[k].self = o})
         + Cardinality({k \in DOMAIN c : o \in c[k].args})
         + (IF o \in doomed THEN 1 ELSE 0)

(* lua_ref_dtor: the slot of a LuaProxy returns to the registry.             *)
Unref(reg, dead) == [i \in DOMAIN reg |-> IF \E r \in dead : tref[r] = i THEN Empty ELSE reg[i]]

LuaRefDtor(reg, dead) == Unref(reg, dead \cap Refs)

(* Mutant: an object is released when the weak references to its proxies     *)
(* die, before their __gc.                                                   *)
ReferencesOfLive(n, m, c, reg) ==
    LET live == [u \in Uds |-> IF phase[u] = "dead" THEN None ELSE m[u]]
        dead == {o \in alive : RefCount(o, n, live, c) = 0}
    IN /\ native' = n /\ member' = m /\ calls' = c
       /\ alive' = alive \ dead
       /\ registry' = LuaRefDtor(reg, dead)

References(n, m, c, reg) ==
    LET dead == {o \in alive : RefCount(o, n, m, c) = 0}
    IN /\ native' = n /\ member' = m /\ calls' = c
       /\ alive' = alive \ dead
       /\ registry' = LuaRefDtor(reg, dead)

-----------------------------------------------------------------------------
(* From deai to Lua.                                                         *)

FreeSlots == {i \in Slots : registry[i] = Empty}

(* luaL_weakref_get: the userdata in the slot, None once the weak reference  *)
(* is dead.                                                                  *)
WeakrefGet(i) == registry[i].of

Current(o) == IF toRef[o] = None THEN None ELSE WeakrefGet(toRef[o])

(* di_lua_pushproxy, and the two members that track the new proxy.           *)
PushProxy(o, u, i, n, c) ==
    /\ phase[u] = "free" /\ i \in FreeSlots
    /\ phase' = [phase EXCEPT ![u] = "live"]
    /\ ptr' = [ptr EXCEPT ![u] = o]
    /\ toRef' = [toRef EXCEPT ![o] = i]
    /\ References(n, [member EXCEPT ![u] = o], c, [registry EXCEPT ![i] = WeakTo(u)])

(* di_lua_pushobject: Lua gets u, the proxy of o.  The references that deai  *)
(* code holds afterwards are n and c.                                        *)
PushObject(o, u, n, c) ==
    \/ /\ Current(o) = u
       /\ UNCHANGED proxyVars
       /\ References(n, member, c, registry)
    \/ /\ Current(o) = None
       /\ \E i \in FreeSlots : PushProxy(o, u, i, n, c)

-----------------------------------------------------------------------------
(* From Lua to deai.                                                         *)

(* The address of a destroyed object is not reused while a weak reference to *)
(* it remains.                                                               *)
Unused(o) == o \notin alive \cup wheld /\ \A v \in Vals : cache[v] # o

(* lua_type_to_di_object: r is the object for the table or function v, the   *)
(* cached one if it is alive.                                                *)
TypeToDiObject(v, r) ==
    \/ /\ cache[v] \in alive /\ r = cache[v]
       /\ UNCHANGED <<alive, registry, valueVars>>
    \/ /\ cache[v] \notin alive
       /\ r \in Refs /\ Unused(r)
       /\ \E i \in FreeSlots :
             /\ registry' = [registry EXCEPT ![i] = Value(v)]
             /\ tref' = [tref EXCEPT ![r] = i]
       /\ alive' = alive \cup {r}
       /\ cache' = [cache EXCEPT ![v] = r]

(* di_lua_type_to_di: x is a proxy, or a Lua value that is not an array.     *)
TypeToDi(x, o) ==
    \/ /\ x \in Uds /\ o = ptr[x]
       /\ UNCHANGED <<alive, registry, valueVars>>
    \/ x \in Vals /\ TypeToDiObject(x, o)

InScope == (held \cap {u \in Uds : phase[u] = "live"}) \cup (held \cap vals)

(* Lua code uses the proxy u: the arguments are converted and all of them,   *)
(* the proxy too, are popped from the Lua stack before deai is entered.      *)
Enter(u, owns, args) ==
    /\ lua = "open" /\ Len(calls) < MaxCalls
    /\ u \in held
    /\ calls' = Append(calls, [self |-> ptr[u], owns |-> owns, args |-> args])
    /\ UNCHANGED <<lua, native, proxyVars, member, scriptVars, doomed>>

EnterWith(u, owns, X) ==
    \E x \in InScope \cap X, o \in Objects : TypeToDi(x, o) /\ Enter(u, owns, {o})

(* __index, and likewise __next and __tostring, reference the object.        *)
MetaIndex(u) == Enter(u, TRUE, {}) /\ UNCHANGED <<alive, registry, valueVars>>
MetaNewindex(u) == EnterWith(u, TRUE, Uds \cup Vals)
AddListener(u) == EnterWith(u, TRUE, Vals)
EmitSignal(u) == EnterWith(u, TRUE, Uds \cup Vals)

(* __call borrows the object it calls, although its proxy is popped too:     *)
(* the object may be destroyed before the call returns.                      *)
MethodHandler(u) == EnterWith(u, FALSE, Uds \cup Vals)

(* deai code keeps an argument: a property is set, a listener is added.      *)
Keep(o) ==
    /\ calls # <<>> /\ o \in calls[Len(calls)].args
    /\ native[o] < MaxNative
    /\ native' = [native EXCEPT ![o] = @ + 1]
    /\ UNCHANGED <<lua, alive, calls, proxyVars, member, registry, valueVars, scriptVars, doomed>>

(* The call returns nothing, or an object, which may be an error: the        *)
(* arguments are freed.                                                      *)
Return ==
    LET rest == SubSeq(calls, 1, Len(calls) - 1)
    IN /\ lua = "open" /\ calls # <<>>
       /\ \/ /\ References(native, member, rest, registry)
             /\ UNCHANGED <<proxyVars, held>>
          \/ \E o \in alive, u \in Uds :
                /\ native[o] > 0 \/ o = calls[Len(calls)].self
                /\ PushObject(o, u, native, rest)
                /\ held' = held \cup {u}
       /\ UNCHANGED <<lua, valueVars, vals, contents, wheld, doomed>>

(* The Lua value of a LuaProxy that deai code reaches.                       *)
Reachable(r) ==
    /\ lua = "open" /\ r \in alive
    /\ native[r] > 0 \/ \E k \in DOMAIN calls : r \in calls[k].args

ValueOf(r) == registry[tref[r]].of

(* call_lua_function: the function runs, with an object as its argument in   *)
(* PushArgument.                                                             *)
CallLuaFunction(r) ==
    /\ Reachable(r)
    /\ held' = held \cup {ValueOf(r)}
    /\ UNCHANGED <<lua, objectVars, proxyVars, member, registry, valueVars,
                   vals, contents, wheld, doomed>>

(* The getter of a LuaProxy, and its __next, return an object that the table *)
(* has a proxy of.                                                           *)
DiGetter(r) ==
    /\ Reachable(r)
    /\ \E u \in contents[ValueOf(r)] :
          /\ native[ptr[u]] < MaxNative
          /\ native' = [native EXCEPT ![ptr[u]] = @ + 1]
    /\ UNCHANGED <<lua, alive, calls, proxyVars, member, registry, valueVars, scriptVars, doomed>>

(* The setter puts the proxy of an object into the table, and no script      *)
(* variable refers to it.                                                    *)
DiSetter(r, o) ==
    /\ Reachable(r) /\ native[o] > 0 /\ contents[ValueOf(r)] = {}
    /\ \E u \in Uds :
          /\ PushObject(o, u, native, calls)
          /\ contents' = [contents EXCEPT ![ValueOf(r)] = {u}]
    /\ UNCHANGED <<lua, valueVars, vals, held, wheld, doomed>>

PushArgument(o) ==
    /\ lua = "open" /\ native[o] > 0
    /\ \E u \in Uds : PushObject(o, u, native, calls) /\ held' = held \cup {u}
    /\ UNCHANGED <<lua, valueVars, vals, contents, wheld, doomed>>

(* The result of a Lua function, or a global, becomes a value of deai.       *)
ReturnToDi(x) ==
    /\ lua = "open" /\ x \in InScope
    /\ \E o \in Objects :
          /\ TypeToDi(x, o)
          /\ native[o] < MaxNative
          /\ native' = [native EXCEPT ![o] = @ + 1]
    /\ UNCHANGED <<lua, calls, proxyVars, member, scriptVars, doomed>>

-----------------------------------------------------------------------------
(* deai code outside the plugin.                                             *)

NewObject(o) ==
    /\ Unused(o) /\ MaxNative > 0
    /\ alive' = alive \cup {o}
    /\ native' = [native EXCEPT ![o] = 1]
    /\ UNCHANGED <<lua, calls, proxyVars, member, registry, valueVars, scriptVars, doomed>>

(* deai code gives up a reference.                                           *)
DropNative(o) ==
    /\ native[o] > 0
    /\ References([native EXCEPT ![o] = @ - 1], member, calls, registry)
    /\ UNCHANGED <<lua, proxyVars, valueVars, scriptVars, doomed>>

-----------------------------------------------------------------------------
(* Lua code and the Lua collector.                                           *)

NewValue(v) ==
    /\ lua = "open" /\ v \notin vals
    /\ vals' = vals \cup {v} /\ held' = held \cup {v}
    /\ UNCHANGED <<lua, objectVars, proxyVars, member, registry, valueVars, contents, wheld, doomed>>

Capture(v, u) ==
    /\ lua = "open" /\ {v, u} \subseteq held /\ contents[v] = {}
    /\ contents' = [contents EXCEPT ![v] = {u}]
    /\ UNCHANGED <<lua, objectVars, proxyVars, member, registry, valueVars,
                   vals, held, wheld, doomed>>

Fetch(v, u) ==
    /\ lua = "open" /\ v \in held /\ u \in contents[v] \ held
    /\ held' = held \cup {u}
    /\ UNCHANGED <<lua, objectVars, proxyVars, member, registry, valueVars,
                   vals, contents, wheld, doomed>>

Forget(x) ==
    /\ lua = "open" /\ x \in held
    /\ held' = held \ {x}
    /\ UNCHANGED <<lua, objectVars, proxyVars, member, registry, valueVars,
                   vals, contents, wheld, doomed>>

ReachedValue(v) == v \in held \/ \E i \in Slots : registry[i] = Value(v)
ReachedProxy(u) == u \in held \/ \E v \in vals : ReachedValue(v) /\ u \in contents[v]

(* The collector clears the weak references to a userdata Lua cannot reach.  *)
ClearWeak(u) ==
    /\ lua = "open" /\ phase[u] = "live" /\ ~ReachedProxy(u)
    /\ phase' = [phase EXCEPT ![u] = "dead"]
    /\ registry' = [i \in Slots |-> IF registry[i] = WeakTo(u) THEN WeakTo(None) ELSE registry[i]]
    /\ UNCHANGED <<lua, objectVars, ptr, toRef, member, valueVars, scriptVars, doomed>>

(* The collector frees a table or function, and its entry in object_cache.   *)
CollectValue(v) ==
    /\ lua = "open" /\ v \in vals /\ ~ReachedValue(v)
    /\ vals' = vals \ {v}
    /\ contents' = [contents EXCEPT ![v] = {}]
    /\ cache' = [cache EXCEPT ![v] = None]
    /\ UNCHANGED <<lua, objectVars, proxyVars, member, registry, tref, held, wheld, doomed>>

(* Mutant: the newest slot of the object is forgotten whoever it belongs to. *)
ForgetAnyRef(o, u) == [toRef EXCEPT ![o] = None]

(* Mutant: __gc leaves the member that names the slot.                       *)
ForgetNoRef(o, u) == toRef

(* ___di_object_to_ref_<o> is deleted if its slot is dead or is u's own.     *)
ForgetRef(o, u) ==
    IF toRef[o] # None /\ WeakrefGet(toRef[o]) \in {None, u}
    THEN [toRef EXCEPT ![o] = None] ELSE toRef

(* di_lua_gc.  The owning member goes first, and the destructors that this   *)
(* runs come before the other member is looked at: they are no step of their *)
(* own here, so they are taken not to give the dying object to Lua again.    *)
Gc(u) ==
    /\ toRef' = ForgetRef(ptr[u], u)
    /\ phase' = [phase EXCEPT ![u] = "free"]
    /\ ptr' = [ptr EXCEPT ![u] = None]
    /\ References(native, [member EXCEPT ![u] = None], calls, registry)

GcProxy(u) ==
    /\ lua = "open" /\ phase[u] = "dead"
    /\ Gc(u)
    /\ UNCHANGED <<lua, valueVars, scriptVars, doomed>>

(* proxy.weakref, upgrade() and the __gc of a weak proxy.                    *)
WeakRef(u) ==
    /\ lua = "open" /\ u \in held
    /\ wheld' = wheld \cup {ptr[u]}
    /\ UNCHANGED <<lua, objectVars, proxyVars, member, registry, valueVars,
                   vals, contents, held, doomed>>

UpgradeWeakRef(o) ==
    /\ lua = "open" /\ o \in wheld \cap alive
    /\ \E u \in Uds : PushObject(o, u, native, calls) /\ held' = held \cup {u}
    /\ UNCHANGED <<lua, valueVars, vals, contents, wheld, doomed>>

GcForWeakObject(o) ==
    /\ lua = "open" /\ o \in wheld
    /\ wheld' = wheld \ {o}
    /\ UNCHANGED <<lua, objectVars, proxyVars, member, registry, valueVars,
                   vals, contents, held, doomed>>

-----------------------------------------------------------------------------
(* The end of the state object and the next one.                             *)

(* Nothing but the state's own members references its LuaProxies: the state  *)
(* goes, and with it the LuaProxies.  The collector finalizes some of them   *)
(* (early) before the state, in whose destructor lua_close() runs.           *)
LuaStateDtor ==
    /\ lua = "open" /\ calls = <<>>
    /\ \A r \in Refs : native[r] = 0
    /\ lua' = "closing"
    /\ doomed' = alive \cap Refs
    /\ \E early \in SUBSET (alive \cap Refs) : registry' = LuaRefDtor(registry, early)
    /\ UNCHANGED <<objectVars, proxyVars, member, valueVars, scriptVars>>

(* lua_close calls the __gc of every userdata.                               *)
CloseProxy(u) ==
    /\ lua = "closing" /\ phase[u] # "free"
    /\ Gc(u)
    /\ UNCHANGED <<lua, valueVars, scriptVars, doomed>>

Closed ==
    /\ lua = "closing" /\ \A u \in Uds : phase[u] = "free"
    /\ lua' = "closed"
    /\ alive' = alive \ doomed
    /\ doomed' = {}
    /\ registry' = [i \in Slots |-> Empty]
    /\ tref' = [r \in Refs |-> None]
    /\ cache' = [v \in Vals |-> None]
    /\ vals' = {} /\ contents' = [v \in Vals |-> {}]
    /\ held' = {} /\ wheld' = {}
    /\ UNCHANGED <<native, calls, proxyVars, member>>

(* di_lua_load_script: the weak __lua_state is dead, a new state is made.    *)
LoadScript ==
    /\ lua = "closed"
    /\ lua' = "open"
    /\ UNCHANGED <<objectVars, proxyVars, member, registry, valueVars, scriptVars, doomed>>

Next ==
    \/ \E u \in Uds : ClearWeak(u) \/ GcProxy(u) \/ CloseProxy(u) \/ WeakRef(u)
                         \/ MetaIndex(u) \/ MetaNewindex(u) \/ AddListener(u)
                         \/ EmitSignal(u) \/ MethodHandler(u)
    \/ \E o \in Objects : Keep(o) \/ DropNative(o) \/ PushArgument(o)
                            \/ UpgradeWeakRef(o) \/ GcForWeakObject(o)
    \/ \E o \in Objs : NewObject(o)
    \/ \E r \in Refs : CallLuaFunction(r) \/ DiGetter(r) \/ \E o \in Objects : DiSetter(r, o)
    \/ \E v \in Vals : NewValue(v) \/ CollectValue(v) \/ \E u \in Uds : Capture(v, u) \/ Fetch(v, u)
    \/ \E x \in Uds \cup Vals : Forget(x) \/ ReturnToDi(x)
    \/ Return \/ LuaStateDtor \/ Closed \/ LoadScript

Spec == Init /\ [][Next]_vars

-----------------------------------------------------------------------------
(* Properties                                                                *)

Proxied == {u \in Uds : phase[u] # "free"}

(* An object has one proxy that Lua code can use: equal objects compare      *)
(* equal in Lua, whatever proxies of the object are waiting for their __gc   *)
(* (di_lua_pushobject, the quirk described at di_lua_gc).                     *)
OneProxy ==
    \A u, w \in Uds : phase[u] = "live" /\ phase[w] = "live" /\ ptr[u] = ptr[w] => u = w

(* A userdata never points to a destroyed object, and the members its __gc   *)
(* deletes are there: the object stays alive until the last of its proxies   *)
(* is finalized, and a member that names a slot goes with the last proxy, so *)
(* that a later object at the same address starts without one.               *)
ProxiesTracked ==
    /\ \A u \in Uds : member[u] = ptr[u] /\ (phase[u] = "free" <=> ptr[u] = None)
    /\ \A u \in Proxied : ptr[u] \in alive
    /\ \A o \in Objects : toRef[o] # None =>
          /\ \E u \in Proxied : ptr[u] = o
          /\ registry[toRef[o]].kind = "weak"

-----------------------------------------------------------------------------
(* What deai sees of the plugin: one owner of the objects Lua has proxies of *)

Owner == INSTANCE SharedOwner WITH
    lent <- {member[u] : u \in Uds} \ {None},
    used <- {o \in Objects : RefCount(o, native, [u \in Uds |-> None], calls) > 0}

(* The proxies, the two members per proxy and the deferred __gc together are *)
(* one reference to the object: see SharedOwner.                             *)
OwnsOnce == Owner!Spec
=============================================================================
