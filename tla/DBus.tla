-------------------------------- MODULE DBus --------------------------------
(***************************************************************************)
(* The D-Bus plugin (plugins/dbus/dbus.c): one connection, the objects user *)
(* code gets from it by bus name, the calls in flight, the listeners, and   *)
(* the caches that route a signal from the unique name of its sender to the *)
(* objects of the well-known names that this sender owns.                   *)
(*                                                                         *)
(* A directory (object_cache_<name>) lives as long as the object of that    *)
(* name; a peer (peer_<unique name>) lives as long as a directory names it   *)
(* as its owner.  The connection is watched while nsignals > 0.  All objects *)
(* have the same path and interface.  The daemon and the order in which it  *)
(* sends messages are external.                                             *)
(***************************************************************************)
EXTENDS Naturals, Sequences, FiniteSets, SequencesExt

CONSTANTS
    Names,         \* well-known bus names
    Peers,         \* unique names
    None,
    Serials,       \* serial numbers of the requests in flight
    MaxWire,       \* bound: messages the daemon has sent and nobody has dispatched
    MaxDrift,      \* the same bound while a name is out of step
    HasInterface,  \* the objects were requested with an interface
    WhileReading   \* bound: do messages arrive while others are dispatched

ASSUME DBusAssumption ==
    /\ None \notin Names \cup Peers
    /\ IsFiniteSet(Serials) /\ IsFiniteSet(Names)
    /\ MaxWire \in Nat /\ MaxDrift \in Nat
    /\ HasInterface \in BOOLEAN /\ WhileReading \in BOOLEAN

VARIABLES
    owner,      \* the daemon: who owns a name
    wire,       \* messages from the daemon, oldest first
    nread,      \* how many of them libdbus has read and not dispatched
    inHandler,  \* a handler of the signal dispatched last is running
    link,       \* the connection is "up" or "down"
    unanswered, \* requests the daemon has not answered
    conn,       \* "open", "shutdown": the last prepare handler is due, "closed"
    userConn,   \* user code holds the connection
    nsignals,
    watched,    \* watch functions and filter are set
    rules,      \* names with a match rule for signals at the daemon
    live,       \* names whose object (and directory) is alive
    user,       \* names whose object user code holds
    keepAlive,  \* ___keep_alive members: the objects with a listener
    dirOwner,   \* ___owner and ___owner_name of a directory
    peerNames,  \* the directories a peer refers to
    requests,   \* promise_for_request_<serial>
    queue,      \* resolved GetNameOwner promises whose handler is due
    desynced    \* history: names of which a change was dispatched in vain, or
                \* between the answer to GetNameOwner and its handler

daemonVars == <<owner, unanswered>>
connVars == <<conn, userConn>>
watchVars == <<nsignals, watched>>
loopVars == <<nread, inHandler>>
cacheVars == <<live, dirOwner, peerNames>>
vars == <<daemonVars, wire, loopVars, link, connVars, watchVars, rules, cacheVars, user,
          keepAlive, requests, queue, desynced>>

Call == [kind |-> "call", name |-> None]
GetOwner(n) == [kind |-> "owner", name |-> n]
Unused == [kind |-> "none", name |-> None]

NameOwnerChanged(n, old, new) == [type |-> "changed", name |-> n, old |-> old, new |-> new]
Reply(s, o) == [type |-> "reply", serial |-> s, owner |-> o]
(* names: what the sender owned when it sent the signal.                     *)
Signal(p) == [type |-> "signal", from |-> p, names |-> {n \in Names : owner[n] = p}]

TypeOK ==
    /\ owner \in [Names -> Peers \cup {None}] /\ unanswered \subseteq Serials
    /\ Len(wire) <= MaxWire /\ link \in {"up", "down"}
    /\ conn \in {"open", "shutdown", "closed"} /\ userConn \in BOOLEAN
    /\ nsignals \in Nat /\ watched \in BOOLEAN /\ rules \subseteq Names
    /\ live \subseteq Names /\ user \subseteq Names /\ keepAlive \subseteq Names
    /\ dirOwner \in [Names -> Peers \cup {None}]
    /\ peerNames \in [Peers -> SUBSET Names]
    /\ requests \in [Serials -> {Call, Unused} \cup {GetOwner(n) : n \in Names}]
    /\ queue \in Seq([name : Names, owner : Peers])
    /\ nread \in 0 .. Len(wire) /\ inHandler \in BOOLEAN /\ desynced \subseteq Names

Init ==
    /\ owner \in [Names -> Peers \cup {None}] /\ unanswered = {}
    /\ wire = <<>> /\ link = "up"
    /\ conn = "open" /\ userConn = TRUE
    /\ nsignals = 0 /\ watched = FALSE /\ rules = {}
    /\ live = {} /\ user = {} /\ keepAlive = {}
    /\ dirOwner = [n \in Names |-> None]
    /\ peerNames = [p \in Peers |-> {}]
    /\ requests = [s \in Serials |-> Unused]
    /\ queue = <<>>
    /\ nread = 0 /\ inHandler = FALSE /\ desynced = {}

-----------------------------------------------------------------------------
(* di_dbus_nsignal_inc and di_dbus_nsignal_dec.                              *)
NsignalInc == nsignals' = nsignals + 1 /\ watched' = (watched \/ nsignals = 0)
NsignalDec == nsignals' = nsignals - 1 /\ watched' = (watched /\ nsignals # 1)

(* Objects live while user code, a listener or a GetNameOwner closure holds  *)
(* them; the caches forget the directories and peers that die with them.     *)
Held(n, u, k, r, q) ==
    n \in u \/ n \in k \/ (\E s \in Serials : r[s] = GetOwner(n))
                       \/ (\E i \in DOMAIN q : q[i].name = n)

Caches(l, d, p) ==
    LET owners == [n \in Names |-> IF n \in l THEN d[n] ELSE None]
    IN /\ live' = l
       /\ dirOwner' = owners
       /\ peerNames' = [x \in Peers |-> IF \E n \in l : owners[n] = x THEN p[x] \cap l ELSE {}]

AfterDrop(u, k, r, q, d, p) ==
    /\ Caches({n \in live : Held(n, u, k, r, q)}, d, p)
    /\ desynced' = desynced \cap live'

-----------------------------------------------------------------------------
(* Operations of user code.  While ioev_callback dispatches messages, user   *)
(* code runs only in the handlers of signals: those of promises wait for the *)
(* idle watcher.                                                             *)

InLoop == nread > 0 \/ inHandler
UserCode == nread = 0 \/ inHandler

FreeSerial(s) == s \notin unanswered /\ requests[s] = Unused
                   /\ \A i \in DOMAIN wire : wire[i].type = "reply" => wire[i].serial # s

(* di_dbus_send_message, and the promise for its reply.                      *)
SendRequest(s, req) ==
    /\ FreeSerial(s)
    /\ requests' = [requests EXCEPT ![s] = req]
    /\ unanswered' = unanswered \cup {s}
    /\ NsignalInc

(* di_dbus_get_object: the cached object, or a new one and a request for the *)
(* owner of the name: the string it looks for in ___owner is an object, so   *)
(* the owner counts as unknown also when the directory has one.              *)
GetObject(n) ==
    /\ UserCode /\ conn = "open" /\ link = "up" /\ n \notin user
    /\ userConn \/ user # {}
    /\ user' = user \cup {n}
    /\ \/ /\ n \in live
          /\ UNCHANGED <<cacheVars, requests, unanswered, watchVars>>
       \/ /\ n \notin live
          /\ \E s \in Serials : SendRequest(s, GetOwner(n))
          /\ live' = live \cup {n}
          /\ UNCHANGED <<dirOwner, peerNames>>
    /\ UNCHANGED <<owner, wire, loopVars, link, connVars, rules, keepAlive, queue, desynced>>

(* dbus_call_method, and the getter and setter of a property.                *)
CallMethod(n) ==
    /\ UserCode /\ conn = "open" /\ link = "up" /\ n \in user
    /\ \E s \in Serials : SendRequest(s, Call)
    /\ UNCHANGED <<owner, wire, loopVars, link, connVars, rules, cacheVars, user, keepAlive,
                   queue, desynced>>

(* di_dbus_object_new_signal: the first listener.                            *)
NewSignal(n) ==
    /\ UserCode /\ conn = "open" /\ n \in user \ keepAlive
    /\ rules' = IF link = "up" THEN rules \cup {n} ELSE rules
    /\ NsignalInc
    /\ keepAlive' = keepAlive \cup {n}
    /\ UNCHANGED <<daemonVars, wire, loopVars, link, connVars, cacheVars, user, requests, queue,
                   desynced>>

(* The rule it removes has the interface of the signal's name, which has     *)
(* none, not the interface of the object: the rule of NewSignal stays.       *)
RemoveMatch(n) == rules' = IF HasInterface THEN rules ELSE rules \ {n}

(* Mutant: a listener that goes is still counted.                            *)
DelSignalKeepsCount(n) ==
    /\ UserCode /\ conn = "open" /\ n \in keepAlive
    /\ RemoveMatch(n)
    /\ UNCHANGED watchVars
    /\ keepAlive' = keepAlive \ {n}
    /\ AfterDrop(user, keepAlive \ {n}, requests, queue, dirOwner, peerNames)
    /\ UNCHANGED <<daemonVars, wire, loopVars, link, connVars, user, requests, queue>>

(* di_dbus_object_del_signal: the last listener.                             *)
DelSignal(n) ==
    /\ UserCode /\ conn = "open" /\ n \in keepAlive
    /\ RemoveMatch(n)
    /\ NsignalDec
    /\ keepAlive' = keepAlive \ {n}
    /\ AfterDrop(user, keepAlive \ {n}, requests, queue, dirOwner, peerNames)
    /\ UNCHANGED <<daemonVars, wire, loopVars, link, connVars, user, requests, queue>>

DropObject(n) ==
    /\ UserCode /\ n \in user
    /\ user' = user \ {n}
    /\ AfterDrop(user \ {n}, keepAlive, requests, queue, dirOwner, peerNames)
    /\ UNCHANGED <<daemonVars, wire, loopVars, link, connVars, watchVars, rules, keepAlive,
                   requests, queue>>

DropConnection ==
    /\ UserCode /\ userConn /\ userConn' = FALSE
    /\ UNCHANGED <<daemonVars, wire, loopVars, link, conn, watchVars, rules, cacheVars, user,
                   keepAlive, requests, queue, desynced>>

-----------------------------------------------------------------------------
(* Messages.                                                                 *)

(* Mutant: the old owner keeps the directory.                                *)
NameChangedKeepsOld(n, old, new, l, d, p) ==
    IF n \notin l \/ new = None THEN Caches(l, [d EXCEPT ![n] = None], p)
    ELSE Caches(l, [d EXCEPT ![n] = new], [p EXCEPT ![new] = @ \cup {n}])

(* Mutant: a name that loses its owner is left where it is.                  *)
NameChangedIgnoresLoss(n, old, new, l, d, p) ==
    IF n \notin l \/ new = None THEN Caches(l, d, p)
    ELSE Caches(l, [d EXCEPT ![n] = new],
                [x \in Peers |-> IF x = new THEN p[x] \cup {n} ELSE p[x] \ {n}])

(* di_dbus_name_changed: the directory moves from the peer old to new.       *)
NameChanged(n, old, new, l, d, p) ==
    LET left == [x \in Peers |-> IF x = old THEN p[x] \ {n} ELSE p[x]]
    IN IF n \notin l \/ new = None THEN Caches(l, [d EXCEPT ![n] = None], left)
       ELSE Caches(l, [d EXCEPT ![n] = new], [left EXCEPT ![new] = @ \cup {n}])

(* dbus_filter, for a message of each type.                                  *)
FilterNameOwnerChanged(msg) ==
    /\ msg.type = "changed"
    /\ NameChanged(msg.name, msg.old, msg.new, live, dirOwner, peerNames)
    /\ desynced' = IF \E i \in DOMAIN queue : queue[i].name = msg.name
                   THEN desynced \cup {msg.name} ELSE desynced
    /\ UNCHANGED <<watchVars, requests, queue, inHandler>>

(* The promise is settled and its member deleted.  The handler of a resolved *)
(* GetNameOwner runs later, from the idle watcher; a rejected one has none.  *)
FilterReply(msg) ==
    /\ msg.type = "reply"
    /\ IF requests[msg.serial] = Unused
       THEN UNCHANGED <<watchVars, requests, queue, cacheVars, desynced>>
       ELSE LET req == requests[msg.serial]
                r == [requests EXCEPT ![msg.serial] = Unused]
                q == IF req.kind = "owner" /\ msg.owner # None
                     THEN Append(queue, [name |-> req.name, owner |-> msg.owner]) ELSE queue
            IN /\ requests' = r /\ queue' = q
               /\ NsignalDec
               /\ AfterDrop(user, keepAlive, r, q, dirOwner, peerNames)
    /\ UNCHANGED inHandler

(* di_peer_foreach_cb and di_emit_signal_for: the objects in the directories *)
(* of the sender that have listeners emit the signal.                        *)
Recipients(msg) == peerNames[msg.from] \cap keepAlive

FilterSignal(msg) ==
    /\ msg.type = "signal"
    /\ inHandler' = (Recipients(msg) # {})
    /\ UNCHANGED <<watchVars, requests, queue, cacheVars, desynced>>

(* A message that is dispatched after the filter was removed is lost.        *)
Unfiltered(msg) ==
    /\ desynced' = IF msg.type = "changed" /\ msg.name \in live
                   THEN desynced \cup {msg.name} ELSE desynced
    /\ UNCHANGED <<watchVars, requests, queue, cacheVars, inHandler>>

(* ioev_callback: what has arrived is read while the connection is watched.  *)
Read ==
    /\ conn = "open" /\ watched /\ link = "up" /\ ~InLoop
    /\ nread' \in 1 .. Len(wire)
    /\ UNCHANGED <<daemonVars, wire, inHandler, link, connVars, watchVars, rules, cacheVars, user,
                   keepAlive, requests, queue, desynced>>

(* Then every message that has been read is dispatched, before anything else *)
(* runs.                                                                     *)
Dispatch ==
    /\ nread > 0 /\ ~inHandler
    /\ nread' = nread - 1 /\ wire' = Tail(wire)
    /\ LET msg == Head(wire)
       IN \/ /\ watched
             /\ FilterNameOwnerChanged(msg) \/ FilterReply(msg) \/ FilterSignal(msg)
          \/ ~watched /\ Unfiltered(msg)
    /\ UNCHANGED <<daemonVars, link, connVars, rules, user, keepAlive>>

HandlerReturns ==
    /\ inHandler /\ inHandler' = FALSE
    /\ UNCHANGED <<daemonVars, wire, nread, link, connVars, watchVars, rules, cacheVars, user,
                   keepAlive, requests, queue, desynced>>

(* di_dbus_object_set_owner, called from the idle watcher.                   *)
SetOwner ==
    /\ ~InLoop /\ queue # <<>>
    /\ queue' = Tail(queue)
    /\ LET n == Head(queue).name
       IN NameChanged(n, dirOwner[n], Head(queue).owner,
                      {x \in live : Held(x, user, keepAlive, requests, Tail(queue))},
                      dirOwner, peerNames)
    /\ desynced' = desynced \cap live'
    /\ UNCHANGED <<daemonVars, wire, loopVars, link, connVars, watchVars, rules, user, keepAlive,
                   requests>>

-----------------------------------------------------------------------------
(* The end of the connection.                                                *)

(* What keeps the connection alive: user code, an object, the promises of    *)
(* the event module, the file descriptor event while it is watched, and the  *)
(* closure of ioev_callback while that runs.                                 *)
Rooted == userConn \/ user # {} \/ queue # <<>> \/ (watched /\ link = "up") \/ InLoop

(* di_dbus_shutdown: the last reference is gone, or a cycle of objects that  *)
(* nothing roots is collected; the close is left to the prepare signal.      *)
Shutdown ==
    /\ conn = "open" /\ ~Rooted
    /\ conn' = "shutdown"
    /\ watched' = FALSE
    /\ keepAlive' = {} /\ requests' = [s \in Serials |-> Unused]
    /\ Caches({}, dirOwner, peerNames) /\ desynced' = {}
    /\ UNCHANGED <<daemonVars, wire, loopVars, link, userConn, nsignals, rules, user, queue>>

(* di_dbus_drop_root and di_dbus_shutdown_part2.                             *)
ShutdownPart2 ==
    /\ conn = "shutdown" /\ conn' = "closed"
    /\ link' = "down" /\ wire' = <<>> /\ unanswered' = {} /\ rules' = {}
    /\ UNCHANGED <<owner, loopVars, userConn, watchVars, cacheVars, user, keepAlive, requests,
                   queue, desynced>>

-----------------------------------------------------------------------------
(* The daemon and the other peers.                                           *)

(* A message that arrives while others are being dispatched waits for the    *)
(* next ioev_callback, as one that arrives later does.                       *)
Deliver(msg) ==
    /\ link = "up" /\ (InLoop => WhileReading)
    /\ Len(wire) < MaxWire /\ (desynced # {} => Len(wire) < MaxDrift)
    /\ wire' = Append(wire, msg)

ChangeOwner(n, p) ==
    /\ owner[n] # p
    /\ Deliver(NameOwnerChanged(n, owner[n], p))
    /\ owner' = [owner EXCEPT ![n] = p]
    /\ UNCHANGED <<unanswered, loopVars, link, connVars, watchVars, rules, cacheVars, user,
                   keepAlive, requests, queue, desynced>>

Answer(s) ==
    /\ s \in unanswered
    /\ Deliver(Reply(s, IF requests[s].kind = "owner" THEN owner[requests[s].name] ELSE None))
    /\ unanswered' = unanswered \ {s}
    /\ UNCHANGED <<owner, loopVars, link, connVars, watchVars, rules, cacheVars, user, keepAlive,
                   requests, queue, desynced>>

Emit(p) ==
    /\ rules # {}
    /\ Deliver(Signal(p))
    /\ UNCHANGED <<daemonVars, loopVars, link, connVars, watchVars, rules, cacheVars, user,
                   keepAlive, requests, queue, desynced>>

(* What libdbus has read it still dispatches.                                *)
Disconnect ==
    /\ link = "up" /\ link' = "down"
    /\ wire' = SubSeq(wire, 1, nread) /\ unanswered' = {} /\ rules' = {}
    /\ UNCHANGED <<owner, loopVars, connVars, watchVars, cacheVars, user, keepAlive, requests,
                   queue, desynced>>

Next ==
    \/ \E n \in Names : GetObject(n) \/ CallMethod(n) \/ NewSignal(n) \/ DelSignal(n)
                          \/ DropObject(n)
    \/ DropConnection \/ Read \/ Dispatch \/ HandlerReturns \/ SetOwner \/ Shutdown \/ ShutdownPart2 \/ Disconnect
    \/ \E n \in Names, p \in Peers \cup {None} : ChangeOwner(n, p)
    \/ \E s \in Serials : Answer(s)
    \/ \E p \in Peers : Emit(p)

Spec == Init /\ [][Next]_vars

-----------------------------------------------------------------------------
(* Properties                                                                *)

(* The connection is watched exactly while a call is in flight or a listener *)
(* waits: nothing that is awaited is left unread, and an idle connection     *)
(* does not keep deai running (di_dbus_nsignal_inc, di_dbus_nsignal_dec).     *)
WatchedWhileAwaited ==
    /\ watched <=> (conn = "open" /\ nsignals > 0)
    /\ conn = "open" =>
          nsignals = Cardinality({s \in Serials : requests[s] # Unused}) + Cardinality(keepAlive)

(* When nothing is under way for a name, the directory of its object has the *)
(* owner that the daemon knows (di_dbus_name_changed,                        *)
(* di_dbus_object_set_owner), unless a change of that name was dispatched    *)
(* in vain: after the last reply or listener had the filter removed, or      *)
(* between the answer to GetNameOwner and its handler, which ioev_callback   *)
(* does not wait for.                                                        *)
OwnerInSync ==
    \A n \in live \ desynced :
        \/ link = "down"
        \/ \E s \in Serials : requests[s] = GetOwner(n)
        \/ \E i \in DOMAIN queue : queue[i].name = n
        \/ \E i \in DOMAIN wire : wire[i].type = "changed" /\ wire[i].name = n
        \/ dirOwner[n] = owner[n]

(* The signal that is dispatched next finds a filter if there is a listener, *)
(* and reaches the listeners on the names its sender owned when it sent it,  *)
(* once the owners of the names have been asked for, and no listener on      *)
(* another name (dbus_filter), except names that are out of step as above.   *)
SignalsRouted ==
    wire # <<>> /\ Head(wire).type = "signal" /\ link = "up" =>
        LET msg == Head(wire)
            known == {n \in keepAlive \ desynced :
                        /\ \A s \in Serials : requests[s] # GetOwner(n)
                        /\ \A i \in DOMAIN queue : queue[i].name # n}
        IN /\ conn = "open" /\ keepAlive # {} => watched
           /\ Recipients(msg) \ desynced \subseteq msg.names
           /\ msg.names \cap known \subseteq Recipients(msg)

=============================================================================
