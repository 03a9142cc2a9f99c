------------------------------ MODULE XorgKey -------------------------------
(***************************************************************************)
(* Key bindings (plugins/xorg/key.c).  The key extension keeps every binding *)
(* it has made, in order; a binding grabs the keys that its keysym is on,    *)
(* when it is made, when it gets its first listener and whenever the keymap   *)
(* changes, and ungrabs them with its last listener.  While some binding has  *)
(* a listener the extension listens to the raw events of the connection.     *)
(* A grabbed key press freezes the keyboard until handle_key allows events.   *)
(* The server refuses a key that another client has grabbed, which is only    *)
(* logged, and an ungrab takes a key away from every binding that shares it. *)
(* A null pointer or a failed DI_CHECK is pc = "crashed".                     *)
(***************************************************************************)
EXTENDS Naturals, Sequences

CONSTANTS
    Combos,       \* what can be bound: keysym and modifiers
    Codes,        \* keycodes
    Keymaps,      \* keymaps of the server: the keycodes of each keysym
    Contested,    \* keycodes and modifiers that other clients grab too
    MaxBindings,  \* bound: bindings that are made
    MaxEvents     \* bound: events the server has sent and nobody has read

ASSUME KeyAssumption ==
    /\ \A c \in Combos : c = [keysym |-> c.keysym, mods |-> c.mods]
    /\ \A m \in Keymaps : \A c \in Combos : m[c.keysym] \subseteq Codes
    /\ Contested \subseteq Codes \X {c.mods : c \in Combos}
    /\ MaxBindings \in Nat /\ MaxEvents \in Nat

VARIABLES
    bindings,    \* the ___keybinding_<i> members, in order
    held,        \* user code holds the extension or a binding
    nsignals,    \* of the extension: bindings with listeners
    registered,  \* listens to the raw events, and is a member of the connection
    keysyms,     \* the keymap as this client knows it
    keymap,      \* the server: the keymap
    grabs,       \* the server: keycodes and modifiers grabbed by this client
    others,      \* the server: those grabbed by other clients
    missed,      \* history: keys of a binding that were refused or taken away
    frozen,      \* the server: the keyboard waits for allow_events
    events,      \* the server: events sent and not read, oldest first
    pc, evt,     \* where handle_key is, and with which event
    pos,         \* the binding it looks at or refreshes next
    intercept    \* some binding for this event intercepts it

keyVars == <<bindings, nsignals, registered, keysyms>>
grabVars == <<grabs, missed>>
serverVars == <<keymap, grabVars, others, frozen, events>>
handleVars == <<pc, evt, pos, intercept>>
vars == <<keyVars, held, serverVars, handleVars>>

Signals == {"pressed", "released"}
NoCodes == {}       \* a keycodes array is NULL or has elements
NoEvent == [type |-> "none"]

Init ==
    /\ bindings = <<>> /\ held = TRUE /\ nsignals = 0 /\ registered = FALSE
    /\ keymap \in Keymaps /\ keysyms = keymap
    /\ grabs = {} /\ others = {} /\ missed = {} /\ frozen = FALSE /\ events = <<>>
    /\ pc = "idle" /\ evt = NoEvent /\ pos = 1 /\ intercept = FALSE

(* The type invariant.                                                       *)
TypeOK ==
    /\ \A i \in DOMAIN bindings : LET b == bindings[i] IN
          /\ [keysym |-> b.keysym, mods |-> b.mods] \in Combos
          /\ b.codes \subseteq Codes /\ b.sigs \subseteq Signals
          /\ b.intercept \in BOOLEAN /\ b.final \in BOOLEAN
    /\ held \in BOOLEAN /\ registered \in BOOLEAN /\ frozen \in BOOLEAN
    /\ nsignals \in 0 .. MaxBindings
    /\ keymap \in Keymaps /\ keysyms \in Keymaps
    /\ grabs \cup missed \subseteq Codes \X {c.mods : c \in Combos}
    /\ others \subseteq Contested \ grabs
    /\ \A i \in DOMAIN events : events[i].type \in Signals \cup {"mapping"}
    /\ pc \in {"idle", "refresh", "scan", "handler", "crashed"}
    /\ evt.type \in Signals \cup {"none"}
    /\ pos \in 1 .. MaxBindings + 1 /\ intercept \in BOOLEAN

UserRuns == pc \in {"idle", "handler"}

-----------------------------------------------------------------------------
(* Grabs.                                                                    *)

Keys(codes, mods) == codes \X {mods}

(* What the i-th of the bindings bs has grabbed, if it was not refused.       *)
KeysOf(bs, i) == Keys(bs[i].codes, bs[i].mods)

(* The keys that go with an ungrab of the i-th and are another's too.        *)
Shared(bs, i) == KeysOf(bs, i) \cap UNION {KeysOf(bs, j) : j \in DOMAIN bs \ {i}}

(* ungrab of the i-th binding.                                               *)
Ungrab(st, i) ==
    [st EXCEPT !.grabs = @ \ KeysOf(st.bindings, i),
               !.missed = @ \cup Shared(st.bindings, i)]

(* Mutant: the old keys are ungrabbed after the new ones have been grabbed.  *)
UngrabsLast(st, i, symbols) ==
    LET b == st.bindings[i]
        codes == symbols[b.keysym]
        new == Keys(codes, b.mods)
    IN [bindings |-> [st.bindings EXCEPT ![i].codes = codes],
        grabs |-> (st.grabs \cup (new \ others)) \ KeysOf(st.bindings, i),
        missed |-> (st.missed \cup Shared(st.bindings, i) \cup (new \cap others)) \ (new \ others)]

(* refresh_binding of the i-th: it ungrabs the keys it had and grabs those   *)
(* its keysym is on now.  A keysym that is on no key leaves it without       *)
(* keycodes; a key that is refused is logged and nothing else.               *)
Refresh(st, i, symbols) ==
    LET b == st.bindings[i]
        codes == symbols[b.keysym]
        new == Keys(codes, b.mods)
        left == Ungrab(st, i)
    IN [bindings |-> [st.bindings EXCEPT ![i].codes = codes],
        grabs |-> left.grabs \cup (new \ others),
        missed |-> (left.missed \cup (new \cap others)) \ (new \ others)]

(* A binding that could not be refreshed is finalized, which removes its     *)
(* signals without their deleters.                                           *)
Finalized(st, i) ==
    [st EXCEPT !.bindings[i].sigs = {}, !.bindings[i].final = TRUE]

(* The grabs are still those of the current state.                           *)
With(bs) == [bindings |-> bs, grabs |-> grabs, missed |-> missed]

Become(st) == bindings' = st.bindings /\ grabs' = st.grabs /\ missed' = st.missed

-----------------------------------------------------------------------------
(* Operations of user code.                                                  *)

(* new_binding: a binding that cannot be grabbed is an error for the script, *)
(* but it stays a member of the extension.                                   *)
NewBinding(c, swallow) ==
    /\ UserRuns /\ held /\ Len(bindings) < MaxBindings
    /\ LET b == [keysym |-> c.keysym, mods |-> c.mods, codes |-> NoCodes,
                 intercept |-> swallow, sigs |-> {}, final |-> FALSE]
       IN Become(Refresh(With(Append(bindings, b)), Len(bindings) + 1, keysyms))
    /\ UNCHANGED <<nsignals, registered, keysyms, held, keymap, others, frozen, events, handleVars>>

(* key_register_listener and key_deregister_listener, with n bindings that   *)
(* have listeners.                                                           *)
RegisterListener(n) == registered \/ n = 1
DeregisterListener(n) == registered /\ n # 0

(* keybinding_new_signal, and key_register_listener for the first binding.   *)
(* When the keys cannot be grabbed the signal is deleted again, which        *)
(* ungrabs keycodes that are not there.                                      *)
Listen(i, s) ==
    /\ UserRuns /\ held /\ s \notin bindings[i].sigs /\ ~bindings[i].final
    /\ LET st == With([bindings EXCEPT ![i].sigs = @ \cup {s}])
           first == bindings[i].sigs = {}
           done == IF first THEN Refresh(st, i, keysyms) ELSE st
       IN /\ Become(done)
          /\ nsignals' = (IF first THEN nsignals + 1 ELSE nsignals)
          /\ registered' = RegisterListener(nsignals')
          /\ pc' = IF done.bindings[i].codes = NoCodes THEN "crashed" ELSE pc
    /\ UNCHANGED <<keysyms, held, keymap, others, frozen, events, evt, pos, intercept>>

(* Nothing refers to the extension any more: the bindings go with it, and    *)
(* binding_dtor ungrabs their keys.  (Without a connection it does not, but  *)
(* then the server has forgotten the grabs of this client.)                  *)
Collected(st, h, n, p) ==
    IF h \/ n > 0 \/ p # "idle" THEN st
    ELSE [bindings |-> <<>>, missed |-> {},
          grabs |-> st.grabs \ UNION {KeysOf(st.bindings, i) : i \in DOMAIN st.bindings}]

(* No signal is left on the binding.                                         *)
LastSignal(i, s) == bindings[i].sigs = {s}

(* keybinding_del_signal, and key_deregister_listener for the last binding.  *)
Stop(i, s) ==
    /\ UserRuns /\ s \in bindings[i].sigs
    /\ LET last == LastSignal(i, s)
           st == With([bindings EXCEPT ![i].sigs = @ \ {s}])
           n == IF last THEN nsignals - 1 ELSE nsignals
       IN /\ Become(Collected(IF last THEN Ungrab(st, i) ELSE st, held, n, pc))
          /\ nsignals' = n
          /\ registered' = DeregisterListener(n)
    /\ UNCHANGED <<keysyms, held, keymap, others, frozen, events, handleVars>>

Release ==
    /\ UserRuns /\ held /\ held' = FALSE
    /\ Become(Collected(With(bindings), FALSE, nsignals, pc))
    /\ UNCHANGED <<nsignals, registered, keysyms, keymap, others, frozen, events, handleVars>>

(* Connection.key gives the extension that is there, or a new one with the   *)
(* keymap of the server.                                                     *)
GetKey ==
    /\ UserRuns /\ ~held /\ held' = TRUE
    /\ keysyms' = (IF registered \/ bindings # <<>> THEN keysyms ELSE keymap)
    /\ UNCHANGED <<bindings, nsignals, registered, serverVars, handleVars>>

-----------------------------------------------------------------------------
(* handle_key, called for the raw events of the connection.                  *)

(* Without a listener for raw events an event that is read because of other  *)
(* listeners of the connection is lost.                                      *)
ReadUnheard ==
    /\ pc = "idle" /\ events # <<>> /\ ~registered
    /\ events' = Tail(events)
    /\ UNCHANGED <<keyVars, held, keymap, grabVars, others, frozen, handleVars>>

ReadKey ==
    /\ pc = "idle" /\ registered /\ events # <<>> /\ Head(events).type \in Signals
    /\ evt' = Head(events) /\ events' = Tail(events)
    /\ pc' = "scan" /\ pos' = 1 /\ intercept' = FALSE
    /\ UNCHANGED <<keyVars, held, keymap, grabVars, others, frozen>>

(* The keymap has changed.                                                   *)
ReadMapping ==
    /\ pc = "idle" /\ registered /\ events # <<>> /\ Head(events).type = "mapping"
    /\ events' = Tail(events)
    /\ keysyms' = keymap
    /\ pc' = "refresh" /\ pos' = 1
    /\ UNCHANGED <<bindings, nsignals, registered, held, keymap, grabVars, others, frozen,
                   evt, intercept>>

(* Every binding is refreshed in turn, those without listeners too, with     *)
(* requests that the server answers while others use it; the DI_CHECK fails  *)
(* for a binding that is finalized already.                                  *)
RefreshOne ==
    /\ pc = "refresh" /\ pos <= Len(bindings)
    /\ IF bindings[pos].final
       THEN pc' = "crashed" /\ UNCHANGED <<bindings, grabVars, pos>>
       ELSE LET done == Refresh(With(bindings), pos, keysyms)
            IN /\ Become(IF done.bindings[pos].codes = NoCodes THEN Finalized(done, pos) ELSE done)
               /\ pos' = pos + 1 /\ UNCHANGED pc
    /\ UNCHANGED <<nsignals, registered, keysyms, held, keymap, others, frozen, events, evt,
                   intercept>>

RefreshDone ==
    /\ pc = "refresh" /\ pos > Len(bindings)
    /\ pc' = "idle" /\ pos' = 1
    /\ Become(Collected(With(bindings), held, nsignals, "idle"))
    /\ UNCHANGED <<nsignals, registered, keysyms, held, keymap, others, frozen, events, evt,
                   intercept>>

Scan ==
    /\ pc = "scan" /\ pos <= Len(bindings)
    /\ LET b == bindings[pos]
           hit == b.mods = evt.mods /\ evt.code \in b.codes
       IN /\ intercept' = (intercept \/ (hit /\ b.intercept))
          /\ IF b.mods = evt.mods /\ b.codes = NoCodes
             THEN pc' = "crashed" /\ UNCHANGED pos
             ELSE IF hit /\ evt.type \in b.sigs
             THEN pc' = "handler" /\ UNCHANGED pos
             ELSE pos' = pos + 1 /\ UNCHANGED pc
    /\ UNCHANGED <<keyVars, held, serverVars, evt>>

HandlerDone ==
    /\ pc = "handler"
    /\ pc' = "scan" /\ pos' = pos + 1
    /\ UNCHANGED <<keyVars, held, serverVars, evt, intercept>>

(* allow_events: the key is swallowed or replayed, the keyboard goes on.     *)
Allow ==
    /\ pc = "scan" /\ pos > Len(bindings)
    /\ pc' = "idle" /\ evt' = NoEvent /\ pos' = 1 /\ intercept' = FALSE
    /\ frozen' = FALSE
    /\ Become(Collected(With(bindings), held, nsignals, "idle"))
    /\ UNCHANGED <<nsignals, registered, keysyms, held, keymap, others, events>>

-----------------------------------------------------------------------------
(* The server.                                                               *)

ServerStep ==
    /\ Len(events) < MaxEvents
    /\ UNCHANGED <<keyVars, held, grabVars, others, handleVars>>

Press(c, m) ==
    /\ ServerStep /\ <<c, m>> \in grabs /\ ~frozen
    /\ \E t \in Signals : events' = Append(events, [type |-> t, code |-> c, mods |-> m])
    /\ frozen' = TRUE /\ UNCHANGED keymap

ChangeKeymap(m) ==
    /\ ServerStep /\ m # keymap
    /\ keymap' = m
    /\ events' = Append(events, [type |-> "mapping"])
    /\ UNCHANGED frozen

(* Other clients grab keys that this one has not, and let them go.           *)
OtherGrabs(k) ==
    /\ k \notin grabs \cup others
    /\ others' = others \cup {k}
    /\ UNCHANGED <<keyVars, held, keymap, grabVars, frozen, events, handleVars>>

OtherUngrabs(k) ==
    /\ k \in others
    /\ others' = others \ {k}
    /\ UNCHANGED <<keyVars, held, keymap, grabVars, frozen, events, handleVars>>

-----------------------------------------------------------------------------
UserNext ==
    \/ \E c \in Combos, x \in BOOLEAN : NewBinding(c, x)
    \/ \E i \in DOMAIN bindings : \E s \in Signals : Listen(i, s) \/ Stop(i, s)
    \/ Release \/ GetKey

HandleKey == ReadKey \/ ReadMapping \/ RefreshOne \/ RefreshDone \/ Scan \/ HandlerDone \/ Allow

Next ==
    \/ UserNext
    \/ HandleKey \/ ReadUnheard
    \/ \E k \in grabs : Press(k[1], k[2])
    \/ \E m \in Keymaps : ChangeKeymap(m)
    \/ \E k \in Contested : OtherGrabs(k) \/ OtherUngrabs(k)

Spec == Init /\ [][Next]_vars

-----------------------------------------------------------------------------
Listened == {i \in DOMAIN bindings : bindings[i].sigs # {}}

(* The grabs follow the keymap, through changes of it, other bindings on the *)
(* same keys and listeners that come and go in handlers: no key is grabbed   *)
(* that is not a binding's, and between two events every binding with a      *)
(* listener has the keys its keysym is on now, but for those another client  *)
(* has not given up and those that went with a binding that shared them.     *)
GrabsFollowKeymap ==
    /\ grabs \subseteq UNION {KeysOf(bindings, i) : i \in DOMAIN bindings}
    /\ pc \notin {"refresh", "crashed"} =>
          \A i \in Listened :
             Keys(keysyms[bindings[i].keysym], bindings[i].mods) \subseteq grabs \cup missed
=============================================================================
