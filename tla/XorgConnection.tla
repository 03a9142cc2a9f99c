--------------------------- MODULE XorgConnection ---------------------------
(***************************************************************************)
(* A connection to an X server and its extension objects (plugins/xorg/     *)
(* xorg.c, xinput.c, randr.c).  The connection is read while nsignals > 0;   *)
(* the fd event it listens to is a root, so it then keeps the connection     *)
(* alive.  An extension object holds the connection; the connection holds    *)
(* an extension weakly, and strongly while it has a listener.  Events are     *)
(* read, offered to raw listeners and handled by extensions in di_xorg_ioev. *)
(* set_view_config is the one operation with several round trips, between    *)
(* which other clients change what it works on.  Key bindings, which listen  *)
(* to raw events, are in XorgKey.                                            *)
(***************************************************************************)
EXTENDS Integers, Sequences, FiniteSets, SequencesExt

CONSTANTS
    InputSignals,        \* signals of the xinput extension
    RandrSignals,        \* signals of the randr extension, "output-change" among them
    ConnSignals,         \* "raw" events and "connection-error"
    Outputs,             \* the outputs a view can have: a set of values
    None,
    MaxEvents,           \* bound: events the server has sent and nobody has read
    MaxChanges,          \* bound: changes by other clients
    DisconnectInHandler  \* may a handler that di_xorg_ioev calls disconnect

ASSUME XorgAssumption ==
    /\ None \notin Outputs
    /\ MaxEvents \in Nat /\ MaxChanges \in Nat
    /\ DisconnectInHandler \in BOOLEAN

Exts == {"xinput", "randr"}
SignalsOf(e) == IF e = "xinput" THEN InputSignals ELSE RandrSignals

VARIABLES
    open,      \* c # NULL: the connection has not been finalized
    held,      \* what user code refers to: "conn" and extensions
    nsignals,  \* of the connection
    reading,   \* the auto_stop handle of the fd event is there
    connSigs,  \* signal members of the connection
    alive,     \* extension objects that exist
    extSigs,   \* signal members of an extension
    extCount,  \* nsignals of an extension
    strong,    \* ___strong_x_ext_ members of the connection
    cts,       \* config timestamp known to the randr extension
    selected,  \* the server: extensions whose events are selected
    events,    \* the server: events sent and not read, oldest first
    broken,    \* the link has failed
    conf,      \* the server: time of the last configuration change
    view,      \* the server: outputs of the view and the time they were set
    pc,        \* where di_xorg_ioev is
    ev,        \* the event in hand: the extension, the signals left to emit, its time
    set        \* where set_view_config is

connVars == <<open, nsignals, reading, connSigs>>
extVars == <<alive, extSigs, extCount, strong>>
serverVars == <<selected, broken, conf, view>>
ioVars == <<pc, ev, events>>
vars == <<connVars, extVars, serverVars, ioVars, held, cts, set>>

NoEvent == [ext |-> None, sigs |-> <<>>, time |-> 0]
NoSet == [at |-> "none", given |-> FALSE, outs |-> None, time |-> 0]

Init ==
    /\ open = TRUE /\ held = {"conn"} /\ nsignals = 0 /\ reading = FALSE /\ connSigs = {}
    /\ alive = {} /\ strong = {} /\ cts = 0
    /\ extSigs = [e \in Exts |-> {}] /\ extCount = [e \in Exts |-> 0]
    /\ selected = {} /\ events = <<>> /\ broken = FALSE /\ conf = 0
    /\ view \in [outs : Outputs, time : {0}]
    /\ pc = "idle" /\ ev = NoEvent /\ set = NoSet

TypeOK ==
    /\ open \in BOOLEAN /\ reading \in BOOLEAN /\ broken \in BOOLEAN
    /\ held \subseteq Exts \cup {"conn"} /\ nsignals \in Int /\ connSigs \subseteq ConnSignals
    /\ alive \subseteq Exts /\ strong \subseteq Exts /\ selected \subseteq Exts
    /\ \A e \in Exts : extSigs[e] \subseteq SignalsOf(e) /\ extCount[e] \in Nat
    /\ Len(events) <= MaxEvents /\ conf \in Nat /\ cts \in 0..conf
    /\ pc \in {"idle", "poll", "raw", "ext", "emit", "handler", "error", "crashed"}

(* Handlers run user code; set_view_config blocks.                           *)
UserRuns == pc \in {"idle", "raw", "handler", "error"} /\ set = NoSet

-----------------------------------------------------------------------------
(* The objects and what refers to them.                                      *)

Now == [open |-> open, held |-> held, nsignals |-> nsignals, reading |-> reading,
        connSigs |-> connSigs, alive |-> alive, extSigs |-> extSigs, extCount |-> extCount,
        strong |-> strong, selected |-> selected, events |-> events]

(* xorg_disconnect and the removal of the members, as di_finalize_object     *)
(* does them: no deleter is called.                                          *)
Finalized(m) ==
    [m EXCEPT !.open = FALSE, !.nsignals = 0, !.reading = FALSE, !.connSigs = {},
              !.strong = {}, !.selected = {}, !.events = <<>>]

(* An extension dies with the last reference to it and takes its event mask  *)
(* with it (di_xorg_free_xinput, free_randr), unless the connection is gone. *)
ExtsLeft(m, left) ==
    [m EXCEPT !.alive = left,
              !.extSigs = [e \in Exts |-> IF e \in left THEN @[e] ELSE {}],
              !.extCount = [e \in Exts |-> IF e \in left THEN @[e] ELSE 0],
              !.selected = @ \cap left]

(* di_unref_object: the connection is held by user code, by the closure on   *)
(* the fd event, by di_xorg_ioev and by extensions that do not hang on the   *)
(* connection alone; cur is the extension di_xorg_ioev holds.                *)
Collected(m, p, cur) ==
    LET direct == m.alive \cap (m.held \cup {cur})
        conn == "conn" \in m.held \/ m.reading \/ p # "idle" \/ direct # {}
    IN ExtsLeft(IF conn \/ ~m.open THEN m ELSE Finalized(m),
                IF conn THEN direct \cup (m.alive \cap m.strong) ELSE {})

Become(m) ==
    /\ open' = m.open /\ held' = m.held /\ nsignals' = m.nsignals /\ reading' = m.reading
    /\ connSigs' = m.connSigs /\ alive' = m.alive /\ extSigs' = m.extSigs
    /\ extCount' = m.extCount /\ strong' = m.strong /\ selected' = m.selected
    /\ events' = m.events

Cur == IF pc \in {"emit", "handler"} THEN ev.ext ELSE None

(* A step of user code that turns the objects into m.                        *)
UserStep(m) ==
    /\ UserRuns
    /\ Become(Collected(m, pc, Cur))
    /\ UNCHANGED <<broken, conf, view, pc, ev, set>>

(* di_xorg_add_signal and di_xorg_del_signal, while the event module exists: *)
(* when deai shuts down and it is gone, the count goes up and nothing is read. *)
AddSignal(m) == [m EXCEPT !.nsignals = @ + 1, !.reading = @ \/ m.nsignals = 0]
DelSignal(m) == [m EXCEPT !.nsignals = @ - 1, !.reading = @ /\ m.nsignals # 1]

(* di_xorg_ext_signal_setter and di_xorg_ext_signal_deleter: the first       *)
(* listener of an extension makes the connection hold it.                    *)
AddExtSignal(m, e, s) ==
    LET n == [m EXCEPT !.extSigs[e] = @ \cup {s}, !.extCount[e] = @ + 1]
    IN IF n.extCount[e] = 1 THEN AddSignal([n EXCEPT !.strong = @ \cup {e}]) ELSE n

(* Mutant: the connection is read on after the last listener has stopped.    *)
DelExtSignalUncounted(m, e, s) ==
    LET n == [m EXCEPT !.extSigs[e] = @ \ {s}, !.extCount[e] = @ - 1]
    IN IF n.extCount[e] = 0 THEN [n EXCEPT !.strong = @ \ {e}] ELSE n

(* Mutant: the first listener that stops gives the extension up.             *)
DelExtSignalAtOnce(m, e, s) ==
    [m EXCEPT !.extSigs[e] = @ \ {s}, !.extCount[e] = @ - 1, !.strong = @ \ {e}]

DelExtSignal(m, e, s) ==
    LET n == [m EXCEPT !.extSigs[e] = @ \ {s}, !.extCount[e] = @ - 1]
    IN IF n.extCount[e] = 0 THEN DelSignal([n EXCEPT !.strong = @ \ {e}]) ELSE n

-----------------------------------------------------------------------------
(* Operations of user code.                                                  *)

(* The first listener for an event sets its bit in the mask at the server    *)
(* (hierarchy changes only); rr_select_input replaces the whole mask.        *)
XiStartListen(m) == [m EXCEPT !.selected = @ \cup {"xinput"}]
RrSelectInput(m, mask) == [m EXCEPT !.selected = (@ \ {"randr"}) \cup mask]

NewXinput(m) == XiStartListen([m EXCEPT !.alive = @ \cup {"xinput"}])
NewRandr(m) == RrSelectInput([m EXCEPT !.alive = @ \cup {"randr"}], {"randr"})

(* di_xorg_get_ext: the extension that is still alive, or a new one.         *)
GetExt(e) ==
    /\ open /\ ~broken /\ "conn" \in held /\ e \notin held
    /\ LET m == [Now EXCEPT !.held = @ \cup {e}]
       IN UserStep(IF e \in alive THEN m ELSE IF e = "xinput" THEN NewXinput(m) ELSE NewRandr(m))
    /\ cts' = (IF e = "randr" /\ e \notin alive THEN conf ELSE cts)

(* Dropping the connection, or an extension and the device, output and view  *)
(* objects that hold it.                                                     *)
Release(x) ==
    /\ x \in held
    /\ UserStep([Now EXCEPT !.held = @ \ {x}])
    /\ UNCHANGED cts

(* di_xorg_signal_setter and di_xorg_signal_deleter.                         *)
ListenConn(s) ==
    /\ open /\ "conn" \in held /\ s \notin connSigs
    /\ UserStep(AddSignal([Now EXCEPT !.connSigs = @ \cup {s}]))
    /\ UNCHANGED cts

UnlistenConn(s) ==
    /\ s \in connSigs
    /\ UserStep(DelSignal([Now EXCEPT !.connSigs = @ \ {s}]))
    /\ UNCHANGED cts

ListenExt(e, s) ==
    /\ open /\ e \in held /\ s \notin extSigs[e]
    /\ UserStep(AddExtSignal(Now, e, s))
    /\ UNCHANGED cts

(* Also after the connection is gone: nsignals is then below zero.           *)
UnlistenExt(e, s) ==
    /\ s \in extSigs[e]
    /\ UserStep(DelExtSignal(Now, e, s))
    /\ UNCHANGED cts

(* Connection.disconnect.                                                    *)
Disconnect ==
    /\ open /\ "conn" \in held
    /\ pc \in {"idle", "error"} \/ DisconnectInHandler
    /\ UserStep(Finalized(Now))
    /\ UNCHANGED cts

-----------------------------------------------------------------------------
(* di_xorg_ioev.                                                             *)

(* A step of di_xorg_ioev that changes only where it is.                     *)
Goto(p) ==
    /\ pc' = p
    /\ UNCHANGED <<connVars, extVars, serverVars, held, cts, set>>

Wake ==
    /\ pc = "idle" /\ set = NoSet /\ reading /\ (events # <<>> \/ broken)
    /\ Goto("poll") /\ UNCHANGED <<ev, events>>

(* xcb_poll_for_event: the next event goes to the raw listeners first.       *)
Poll ==
    /\ pc = "poll" /\ open /\ events # <<>>
    /\ ev' = Head(events) /\ events' = Tail(events)
    /\ Goto(IF "raw" \in connSigs THEN "raw" ELSE "ext")

(* Nothing left to read: back to the event loop, which drops the closure.    *)
(* xcb_poll_for_event(NULL) is the end of the program.                       *)
PollEmpty ==
    /\ pc = "poll" /\ events = <<>> /\ (~broken \/ ~open)
    /\ pc' = IF open THEN "idle" ELSE "crashed"
    /\ Become(Collected(Now, "idle", None))
    /\ UNCHANGED <<broken, conf, view, ev, cts, set>>

ConnectionError ==
    /\ pc = "poll" /\ open /\ events = <<>> /\ broken /\ "connection-error" \in connSigs
    /\ Goto("error") /\ UNCHANGED <<ev, events>>

FinalizeBroken ==
    /\ \/ pc = "poll" /\ open /\ events = <<>> /\ broken /\ "connection-error" \notin connSigs
       \/ pc = "error" /\ set = NoSet
    /\ pc' = "idle"
    /\ Become(Collected(Finalized(Now), "idle", None))
    /\ UNCHANGED <<broken, conf, view, ev, cts, set>>

RawDone ==
    /\ pc = "raw" /\ set = NoSet
    /\ Goto("ext") /\ UNCHANGED <<ev, events>>

(* Only extensions with listeners are asked; the one the event is for takes it. *)
FindExt ==
    /\ pc = "ext"
    /\ IF ev.ext \in strong
       THEN Goto("emit") /\ UNCHANGED ev
       ELSE Goto("poll") /\ ev' = NoEvent
    /\ UNCHANGED events

(* handle_xinput_event and handle_randr_event: the signals of the event one  *)
(* after the other, and then the new timestamp.                              *)
Emit ==
    /\ pc = "emit" /\ ev.sigs # <<>>
    /\ IF Head(ev.sigs) \in extSigs[ev.ext]
       THEN Goto("handler") /\ UNCHANGED ev
       ELSE Goto("emit") /\ ev' = [ev EXCEPT !.sigs = Tail(@)]
    /\ UNCHANGED events

HandlerDone ==
    /\ pc = "handler" /\ set = NoSet
    /\ ev' = [ev EXCEPT !.sigs = Tail(@)]
    /\ Goto("emit") /\ UNCHANGED events

EventDone ==
    /\ pc = "emit" /\ ev.sigs = <<>>
    /\ pc' = "poll" /\ ev' = NoEvent
    /\ Become(Collected(Now, "poll", None))
    /\ cts' = (IF ev.ext = "randr" /\ ev.time # 0 THEN ev.time ELSE cts)
    /\ UNCHANGED <<broken, conf, view, set>>

-----------------------------------------------------------------------------
(* set_view_config: reads the view, with the time of its last change, and    *)
(* sets it as of that time; the outputs are those read unless given.  It     *)
(* tries again when the view has changed in between.                         *)

SetViewConfig(given, outs) ==
    /\ UserRuns /\ open /\ ~broken /\ "randr" \in held
    /\ set' = [at |-> "info", given |-> given, outs |-> outs, time |-> 0]
    /\ UNCHANGED <<connVars, extVars, serverVars, ioVars, held, cts>>

(* Mutant: the outputs read first are kept.                                  *)
GetCrtcInfoOnce(s) ==
    IF cts # conf \/ broken THEN NoSet
    ELSE [s EXCEPT !.at = "set", !.time = view.time, !.outs = IF @ # None THEN @ ELSE view.outs]

GetCrtcInfo(s) ==
    IF cts # conf \/ broken THEN NoSet
    ELSE [s EXCEPT !.at = "set", !.time = view.time, !.outs = IF s.given THEN @ ELSE view.outs]

ReadView ==
    /\ set.at = "info"
    /\ set' = GetCrtcInfo(set)
    /\ UNCHANGED <<connVars, extVars, serverVars, ioVars, held, cts>>

SetCrtcConfig ==
    /\ set.at = "set"
    /\ IF broken \/ cts # conf
       THEN set' = NoSet /\ UNCHANGED view
       ELSE IF set.time < view.time
       THEN set' = [set EXCEPT !.at = "info"] /\ UNCHANGED view
       ELSE set' = NoSet /\ view' = [outs |-> set.outs, time |-> set.time]
    /\ UNCHANGED <<connVars, extVars, selected, broken, conf, ioVars, held, cts>>

-----------------------------------------------------------------------------
(* The server and its other clients.                                         *)

Send(e, sigs, time) ==
    IF e \in selected THEN Append(events, [ext |-> e, sigs |-> sigs, time |-> time]) ELSE events

Hierarchy == {<<s>> : s \in InputSignals} \cup
             {<<s, t>> : s \in InputSignals, t \in InputSignals}

ServerStep ==
    /\ open /\ ~broken /\ Len(events) < MaxEvents
    /\ UNCHANGED <<connVars, extVars, selected, pc, ev, held, cts, set>>

ChangeDevices(sigs) ==
    /\ ServerStep /\ "xinput" \in selected
    /\ events' = Send("xinput", sigs, 0)
    /\ UNCHANGED <<broken, conf, view>>

ChangeConfig(sigs) ==
    /\ ServerStep /\ conf < MaxChanges
    /\ conf' = conf + 1
    /\ events' = Send("randr", sigs, conf + 1)
    /\ UNCHANGED <<broken, view>>

(* Another client sets a CRTC as of the current time, so that the time of    *)
(* the last change, by which the server judges the next, goes on.  (One that *)
(* sets it as of an old time, the way randr.c:582 does, need not be noticed.) *)
ChangeView(outs) ==
    /\ ServerStep /\ view.time < MaxChanges
    /\ view' = [outs |-> outs, time |-> view.time + 1]
    /\ events' = Send("randr", <<"view-change">>, 0)
    /\ UNCHANGED <<broken, conf>>

Break ==
    /\ open /\ ~broken /\ broken' = TRUE
    /\ UNCHANGED <<connVars, extVars, selected, conf, view, ioVars, held, cts, set>>

-----------------------------------------------------------------------------
UserNext ==
    \/ \E e \in Exts : GetExt(e)
    \/ \E x \in held : Release(x)
    \/ \E s \in ConnSignals : ListenConn(s) \/ UnlistenConn(s)
    \/ \E e \in Exts : \E s \in SignalsOf(e) : ListenExt(e, s) \/ UnlistenExt(e, s)
    \/ Disconnect
    \/ \E o \in Outputs : SetViewConfig(TRUE, o)
    \/ SetViewConfig(FALSE, None)

Ioev == Wake \/ Poll \/ PollEmpty \/ ConnectionError \/ FinalizeBroken
          \/ RawDone \/ FindExt \/ Emit \/ HandlerDone \/ EventDone
SetView == ReadView \/ SetCrtcConfig

ServerNext ==
    \/ \E sigs \in Hierarchy : ChangeDevices(sigs)
    \/ ChangeConfig(<<>>) \/ ChangeConfig(<<"output-change">>)
    \/ \E o \in Outputs : ChangeView(o)
    \/ Break

Next == UserNext \/ Ioev \/ SetView \/ ServerNext

Spec == Init /\ [][Next]_vars

-----------------------------------------------------------------------------
(* Listeners of the connection and of its extensions, each counted once.     *)
Listened == {e \in alive : extSigs[e] # {}}

(* The open connection is read exactly while somebody listens (nsignals of   *)
(* di_xorg_add_signal), and holds exactly the extensions that have listeners. *)
ReadWhileListened ==
    open => /\ nsignals = Cardinality(connSigs) + Cardinality(Listened)
            /\ reading <=> nsignals > 0
            /\ strong = Listened

(* set_view_config without outputs never undoes a change of the outputs that *)
(* another client has made, however often it had to try (randr.c:569).       *)
OutputsKept ==
    [][(set.at = "set" /\ set' = NoSet /\ ~set.given) => view'.outs = view.outs]_vars

(* An event is dropped only when nobody listens to what it announces, also   *)
(* when raw listeners or handlers of earlier signals have come and gone while *)
(* it was in hand, and a handler runs only on an extension that exists.      *)
EventsReachListeners ==
    [][/\ (pc \in {"ext", "emit"} /\ ev' # ev)
             => (ev.ext \notin alive \/ ToSet(ev.sigs) \cap extSigs[ev.ext] \subseteq ToSet(ev'.sigs))
       /\ pc' = "handler" => ev.ext \in alive']_vars

=============================================================================
