------------------------------- MODULE Signal -------------------------------
(***************************************************************************)
(* Signals (object.c): the listeners of one signal of one object, the      *)
(* source, and the emission of that signal.                                *)
(*                                                                         *)
(* The signal object is a member of the source that di_listen_to creates   *)
(* for the first listener and di_signal_remove_handler deletes with the    *)
(* last.  It holds its handlers; the listen handles and the way back to    *)
(* the source are weak references.  Emission calls the handlers, which are *)
(* user code: they listen, stop listeners, emit the signal again, delete   *)
(* it, or drop the source.  `stack' is the C stack of those nested calls.  *)
(***************************************************************************)
EXTENDS Naturals, Sequences, FiniteSets, SequencesExt

CONSTANTS
    Handler,              \* handler objects
    Once,                 \* the handlers registered with `once' (lua.c)
    Sig,                  \* addresses a signal object can be allocated at
    NoSig,                \* the source has no signal object
    MaxDepth,             \* bound: nested emissions
    MaxOps,               \* bound: operations of one handler or destructor
    MaxTwice              \* bound: listeners a signal object was given twice

ASSUME SignalAssumption ==
    /\ Once \subseteq Handler
    /\ NoSig \notin Sig
    /\ MaxDepth \in Nat /\ MaxOps \in Nat /\ MaxTwice \in Nat

VARIABLES
    source,     \* "live", "dying" (being destroyed, its destructor runs) or "dead"
    dtor,       \* the source still has a destructor to call
    signal,     \* the source's member __signal_<name>
    handlers,   \* the handler members of each signal object, oldest first
    nhandlers,  \* and how many the signal object believes to have
    handles,    \* the listen handles user code still has
    stack,      \* frames of the running C code
    runs,       \* history: calls of a `once' callback since it was registered
    twice       \* history: handlers added to a signal object that had them

sigVars == <<signal, handlers, nhandlers, twice>>
vars == <<source, dtor, sigVars, handles, stack, runs>>

Handle == [sig : Sig, h : Handler]

(* "emit" is di_signal_dispatch with the handlers it has yet to call;        *)
(* "remove" the end of di_signal_remove_handler.  User code, with `left'     *)
(* operations to go: "call" is a handler, "free" the destructor of one,      *)
(* "dtor" that of the source when it is destroyed and "fin" when it is only  *)
(* finalized.                                                                *)
CodeOp == {"call", "free", "dtor", "fin"}
Frame == [op : CodeOp \cup {"emit", "remove"}, sig : Sig \cup {NoSig},
          todo : Seq(Handler), left : 0 .. MaxOps]

EmitFrame(s) == [op |-> "emit", sig |-> s, todo |-> handlers[s], left |-> 0]
RemoveFrame(s) == [op |-> "remove", sig |-> s, todo |-> <<>>, left |-> 0]
HandlerFrame(op, h) == [op |-> op, sig |-> NoSig, todo |-> <<h>>, left |-> MaxOps]
DtorFrame(op) == [op |-> op, sig |-> NoSig, todo |-> <<>>,
                  left |-> IF dtor THEN MaxOps ELSE 0]

Top == Last(stack)
Running(op) == stack # <<>> /\ Top.op = op
UserCode == stack = <<>> \/ ((\E op \in CodeOp : Running(op)) /\ Top.left > 0)
AfterOp == IF stack = <<>> THEN stack ELSE [stack EXCEPT ![Len(stack)].left = @ - 1]

Emitting(st) == {i \in DOMAIN st : st[i].op = "emit"}
Removing(s, st) == {i \in DOMAIN st : st[i].op = "remove" /\ st[i].sig = s}

(* The copies that emissions made of their lists refer to h.                 *)
Copied(h) == \E i \in DOMAIN stack : h \in ToSet(stack[i].todo)

(* A signal object lives while the source, an emission or a function that    *)
(* removes a handler refers to it.                                           *)
AliveIn(s, sig, st) ==
    sig = s \/ \E i \in DOMAIN st : st[i].op \in {"emit", "remove"} /\ st[i].sig = s
Alive(s) == AliveIn(s, signal, stack)

(* The handlers that listen.                                                 *)
Listening == IF signal = NoSig THEN {} ELSE ToSet(handlers[signal])

(* hs, n and tw are the signal objects after a step; those nobody refers to  *)
(* any more are destroyed and let go of their handlers.                      *)
SetSignals(hs, n, tw) ==
    /\ handlers' = [s \in Sig |-> IF AliveIn(s, signal', stack') THEN hs[s] ELSE <<>>]
    /\ nhandlers' = [s \in Sig |-> IF AliveIn(s, signal', stack') THEN n[s] ELSE 0]
    /\ twice' = [s \in Sig |-> IF AliveIn(s, signal', stack') THEN tw[s] ELSE 0]

Init ==
    /\ source = "live" /\ dtor = TRUE
    /\ signal = NoSig
    /\ handlers = [s \in Sig |-> <<>>]
    /\ nhandlers = [s \in Sig |-> 0]
    /\ handles = {}
    /\ stack = <<>>
    /\ runs = [h \in Once |-> 0]
    /\ twice = [s \in Sig |-> 0]

-----------------------------------------------------------------------------
(* Mutant: a new handler is not counted.                                     *)
AddHandlerUncounted(s, h) ==
    SetSignals([handlers EXCEPT ![s] = Append(@, h)], nhandlers, twice)

(* di_signal_add_handler: the member is not added when there is one of that  *)
(* name, the handler's address, but the handler is counted all the same.     *)
AddHandler(s, h) ==
    IF h \in ToSet(handlers[s])
    THEN SetSignals(handlers, [nhandlers EXCEPT ![s] = @ + 1], [twice EXCEPT ![s] = @ + 1])
    ELSE SetSignals([handlers EXCEPT ![s] = Append(@, h)], [nhandlers EXCEPT ![s] = @ + 1], twice)

(* di_listen_to, and the wrapper di_lua_add_listener makes for `once', which *)
(* is a new object each time.  A signal object is created when the source    *)
(* has none; its address is not one a weak reference still names.            *)
Listen(h) ==
    /\ UserCode /\ source = "live"
    /\ h \in Listening => h \notin Once /\ twice[signal] < MaxTwice
    /\ h \in Once => ~Copied(h) /\ \A l \in handles : l.h # h
    /\ \A i \in DOMAIN stack : stack[i].op = "free" => h \notin ToSet(stack[i].todo)
    /\ stack' = AfterOp
    /\ \/ /\ signal # NoSig
          /\ signal' = signal
       \/ /\ signal = NoSig
          /\ \E s \in Sig : /\ ~Alive(s) /\ \A l \in handles : l.sig # s
                            /\ signal' = s
    /\ AddHandler(signal', h)
    /\ handles' = handles \cup {[sig |-> signal', h |-> h]}
    /\ runs' = IF h \in Once THEN [runs EXCEPT ![h] = 0] ELSE runs
    /\ UNCHANGED <<source, dtor>>

(* di_delete_member_raw on the member of a handler.                          *)
Without(list, h) == RemoveAt(list, CHOOSE i \in DOMAIN list : list[i] = h)

(* di_listen_handle_stop and the first half of di_signal_remove_handler,     *)
(* called with stack s: the handler is freed, with which its destructor may  *)
(* run, before it is counted out.  An emission that has a copy of the        *)
(* handler keeps it alive.                                                   *)
RemoveHandler(l, s) ==
    /\ IF Alive(l.sig) /\ l.h \in ToSet(handlers[l.sig])
       THEN /\ handlers' = [handlers EXCEPT ![l.sig] = Without(@, l.h)]
            /\ stack' = LET st == Append(s, RemoveFrame(l.sig))
                        IN  IF Copied(l.h) THEN st ELSE Append(st, HandlerFrame("free", l.h))
       ELSE /\ stack' = s
            /\ UNCHANGED handlers
    /\ UNCHANGED <<signal, nhandlers, twice>>

(* Mutant: any handler that is stopped takes the signal away.                *)
HandlerRemovedAlways ==
    /\ Running("remove")
    /\ signal' = IF source = "live" THEN NoSig ELSE signal
    /\ stack' = Front(stack)
    /\ SetSignals(handlers, [nhandlers EXCEPT ![Top.sig] = @ - 1], twice)
    /\ UNCHANGED <<source, dtor, handles, runs>>

(* Mutant: the signal stays when its last handler stops during an emission.  *)
HandlerRemovedIdle ==
    /\ Running("remove")
    /\ signal' = IF nhandlers[Top.sig] = 1 /\ source = "live" /\ Emitting(stack) = {}
                 THEN NoSig ELSE signal
    /\ stack' = Front(stack)
    /\ SetSignals(handlers, [nhandlers EXCEPT ![Top.sig] = @ - 1], twice)
    /\ UNCHANGED <<source, dtor, handles, runs>>

(* The second half of di_signal_remove_handler: with its last handler the    *)
(* signal object deletes the member of its source, if that is not being      *)
(* destroyed, whatever signal object the member is by then.                  *)
HandlerRemoved ==
    /\ Running("remove")
    /\ signal' = IF nhandlers[Top.sig] = 1 /\ source = "live" THEN NoSig ELSE signal
    /\ stack' = Front(stack)
    /\ SetSignals(handlers, [nhandlers EXCEPT ![Top.sig] = @ - 1], twice)
    /\ UNCHANGED <<source, dtor, handles, runs>>

Stop(l) ==
    /\ UserCode /\ l \in handles
    /\ RemoveHandler(l, AfterOp)
    /\ UNCHANGED <<source, dtor, handles, runs>>

(* di_listen_handle_dtor, with `auto' what auto_stop has set.  A `once'      *)
(* handler has a reference to its handle itself.                             *)
DropHandle(l, auto) ==
    /\ UserCode /\ l \in handles
    /\ l.h \in Once => ~Copied(l.h) /\ \A s \in Sig : l.h \notin ToSet(handlers[s])
    /\ handles' = handles \ {l}
    /\ \/ /\ auto
          /\ RemoveHandler(l, AfterOp)
       \/ /\ ~auto
          /\ stack' = AfterOp
          /\ UNCHANGED sigVars
    /\ UNCHANGED <<source, dtor, runs>>

(* Somebody deletes the member: sigchld_handler when the child is gone, or   *)
(* user code.                                                                *)
DeleteSignal ==
    /\ UserCode /\ source = "live" /\ signal # NoSig
    /\ signal' = NoSig
    /\ stack' = AfterOp
    /\ SetSignals(handlers, nhandlers, twice)
    /\ UNCHANGED <<source, dtor, handles, runs>>

(* di_emitn and the first half of di_signal_dispatch, which copies the list  *)
(* of handlers.  The destructor of the source may emit as well.              *)
Emit ==
    /\ UserCode /\ signal # NoSig
    /\ source = "live" \/ Running("dtor")
    /\ Cardinality(Emitting(stack)) < MaxDepth
    /\ stack' = Append(AfterOp, EmitFrame(signal))
    /\ UNCHANGED <<source, dtor, sigVars, handles, runs>>

(* The last reference to the source goes; di_finalize_object has one.        *)
DropSource ==
    /\ UserCode /\ source = "live"
    /\ \A i \in DOMAIN stack : stack[i].op # "fin"
    /\ source' = "dying" /\ dtor' = FALSE
    /\ stack' = Append(AfterOp, DtorFrame("dtor"))
    /\ UNCHANGED <<sigVars, handles, runs>>

(* di_finalize_object: the destructor runs although the source stays alive.  *)
FinalizeSource ==
    /\ UserCode /\ source = "live"
    /\ dtor' = FALSE
    /\ stack' = Append(AfterOp, DtorFrame("fin"))
    /\ UNCHANGED <<source, sigVars, handles, runs>>

(* Another object becomes the source, for the behaviours to go on.           *)
NewSource ==
    /\ source = "dead" /\ stack = <<>>
    /\ source' = "live" /\ dtor' = TRUE
    /\ UNCHANGED <<sigVars, handles, stack, runs>>

Calls(h) == Append([stack EXCEPT ![Len(stack)].todo = Tail(@)], HandlerFrame("call", h))

(* Mutant: `once' does not stop the listener.                                *)
CallHandlerNoStop ==
    /\ Running("emit") /\ Top.todo # <<>>
    /\ stack' = Calls(Head(Top.todo))
    /\ runs' = IF Head(Top.todo) \in Once
               THEN [runs EXCEPT ![Head(Top.todo)] = @ + 1] ELSE runs
    /\ UNCHANGED <<source, dtor, sigVars, handles>>

(* The second half of di_signal_dispatch.  call_lua_signal_handler_once      *)
(* stops its listener before it calls the callback.                          *)
CallHandler ==
    /\ Running("emit") /\ Top.todo # <<>>
    /\ LET h == Head(Top.todo)
       IN  \/ /\ h \notin Once
              /\ stack' = Calls(h)
              /\ UNCHANGED <<sigVars, runs>>
           \/ /\ h \in Once
              /\ \E l \in handles : l.h = h /\ RemoveHandler(l, Calls(h))
              /\ runs' = [runs EXCEPT ![h] = @ + 1]
    /\ UNCHANGED <<source, dtor, handles>>

(* A handler returns, with an error or without: errors are only logged.  Or  *)
(* the destructor of one does.                                               *)
HandlerReturns ==
    /\ Running("call") \/ Running("free")
    /\ stack' = Front(stack)
    /\ UNCHANGED <<source, dtor, sigVars, handles, runs>>

EmitEnds ==
    /\ Running("emit") /\ Top.todo = <<>>
    /\ stack' = Front(stack)
    /\ UNCHANGED signal
    /\ SetSignals(handlers, nhandlers, twice)
    /\ UNCHANGED <<source, dtor, handles, runs>>

(* di_finalize_object_inner removes the members after the destructor.        *)
SourceFinalized ==
    /\ Running("dtor") \/ Running("fin")
    /\ source' = IF Running("dtor") THEN "dead" ELSE source
    /\ signal' = NoSig
    /\ stack' = Front(stack)
    /\ SetSignals(handlers, nhandlers, twice)
    /\ UNCHANGED <<dtor, handles, runs>>

User ==
    \/ \E h \in Handler : Listen(h)
    \/ \E l \in handles : Stop(l) \/ DropHandle(l, TRUE) \/ DropHandle(l, FALSE)
    \/ DeleteSignal \/ Emit \/ DropSource \/ FinalizeSource \/ NewSource

System == HandlerRemoved \/ CallHandler \/ HandlerReturns \/ EmitEnds \/ SourceFinalized

Next == User \/ System

Spec == Init /\ [][Next]_vars

-----------------------------------------------------------------------------
(* Properties.                                                               *)

(* The type invariant.                                                       *)
TypeOK ==
    /\ source \in {"live", "dying", "dead"}
    /\ dtor \in BOOLEAN
    /\ signal \in Sig \cup {NoSig}
    /\ handlers \in [Sig -> Seq(Handler)]
    /\ nhandlers \in [Sig -> Nat]
    /\ handles \subseteq Handle
    /\ stack \in Seq(Frame)
    /\ runs \in [Once -> Nat]
    /\ twice \in [Sig -> Nat]

(* nhandlers, by which di_signal_dispatch sizes its array, is the number of  *)
(* handlers, and more only by those that were added twice and those that are *)
(* being removed: the array is never too small.  (In these two cases         *)
(* assert(cnt == sig->nhandlers) fails: a function that listens twice is     *)
(* counted twice, and a handler whose destructor emits the signal has left   *)
(* the list and not the count.)                                              *)
HandlersCounted ==
    \A s \in Sig : nhandlers[s] =
        Len(handlers[s]) + twice[s] + Cardinality(Removing(s, stack))

(* A signal object is there for somebody who listens: one that is left       *)
(* without a handler removes itself ("No handler remains, remove ourself     *)
(* from parent" in di_signal_remove_handler), from which an event source     *)
(* learns that it can stop, however removals and emissions are nested.       *)
SignalListened ==
    source = "live" /\ signal # NoSig /\ twice[signal] = 0 /\ Removing(signal, stack) = {}
        => handlers[signal] # <<>>

(* Stopping a listener of the signal stops that one and no other, and what   *)
(* di_signal_remove_handler does after freeing it, when destructors have     *)
(* run, stops nobody.  (A handle of a signal object that was deleted while   *)
(* it was emitting can stop the listeners of its successor: see              *)
(* HandlerRemoved.)                                                          *)
StopIsExact ==
    [][/\ \A l \in Handle : Stop(l) /\ l.sig = signal => Listening' = Listening \ {l.h}
       /\ HandlerRemoved /\ Top.sig = signal => Listening' = Listening]_vars

(* A callback registered with `once' does not listen any more when it runs,  *)
(* so that no emission that begins later reaches it (the comment in          *)
(* call_lua_signal_handler_once).                                            *)
OnceStopped == \A h \in Once : runs[h] > 0 => h \notin Listening
=============================================================================
