---------------------------- MODULE EventSource ----------------------------
(***************************************************************************)
(* Event sources (event.c) and anonymous roots (main.c): file descriptor   *)
(* events, timers and periodic timers.                                     *)
(*                                                                         *)
(* A source watches while it has listeners: creating or deleting a signal  *)
(* member calls the setter or deleter of the source, which starts or stops *)
(* the libev watcher and makes the source an anonymous root, so that it is *)
(* alive as long as it can emit.  libev calls back one watcher at a time;  *)
(* the handlers of the signal are user code and may listen, stop, drop     *)
(* sources and call di:exit().                                             *)
(***************************************************************************)
EXTENDS Naturals, Sequences, SequencesExt

CONSTANTS
    Src,               \* event sources
    NoSrc,
    Kind,              \* "io", "timer" or "periodic", for each source
    MaxOps,            \* bound: operations of one handler
    AfterExit,         \* sources user code may listen to after di:exit()
    DropPeriodic,      \* may user code drop a periodic timer
    DropEmitting       \* may it drop a file descriptor event that emits again

ASSUME SourceAssumption ==
    /\ NoSrc \notin Src
    /\ Kind \in [Src -> {"io", "timer", "periodic"}]
    /\ MaxOps \in Nat
    /\ AfterExit \subseteq Src
    /\ {DropPeriodic, DropEmitting} \subseteq BOOLEAN

VARIABLES
    object,   \* "none", "live" or "dead"
    held,     \* user code has a reference to the source
    signals,  \* the signal members of the source
    events,   \* the events a file descriptor watcher is set to
    active,   \* the libev watcher is started
    spent,    \* the timer has elapsed
    rooted,   \* the anonymous roots
    exited,   \* di:exit() has finalized the roots
    loop,     \* "run", "stopped", "aborted" by a failed DI_CHECK, or "freed"
              \* when a destroyed source has been used
    cb,       \* the callback that runs: its source, the signals it has yet to
              \* emit, and the operations left to the handler it has called
    fired     \* history: the callback of the timer has run

vars == <<object, held, signals, events, active, spent, rooted, exited, loop, cb, fired>>

Signals(s) == CASE Kind[s] = "io" -> {"read", "write"}
                [] Kind[s] = "timer" -> {"elapsed"}
                [] Kind[s] = "periodic" -> {"triggered"}
Names == {"read", "write", "elapsed", "triggered"}

NoCallback == [src |-> NoSrc, todo |-> <<>>, left |-> 0]
UserCode == loop = "run" /\ (cb = NoCallback \/ cb.left > 0)
AfterOp == IF cb = NoCallback THEN cb ELSE [cb EXCEPT !.left = @ - 1]

(* A timer's callback holds a reference to the timer.                        *)
Referenced(s, h, r, c) == h[s] \/ s \in r \/ (c.src = s /\ Kind[s] = "timer")

(* di_ioev_dtor and di_timer_delete_signal stop the watcher of a file        *)
(* descriptor or a timer; di_periodic_signal_deleter, the destructor of a    *)
(* periodic timer, does not.                                                 *)
StoppedByDtor(s) == Kind[s] # "periodic"

(* The state after a step that leaves the references h, r and c: a source    *)
(* without one is destroyed.                                                 *)
SetSources(h, r, c, sig, ev, act) ==
    LET dies(s) == object[s] = "live" /\ ~Referenced(s, h, r, c)
    IN  /\ object' = [s \in Src |-> IF dies(s) THEN "dead" ELSE object[s]]
        /\ held' = h /\ rooted' = r /\ cb' = c
        /\ signals' = [s \in Src |-> IF dies(s) THEN {} ELSE sig[s]]
        /\ events' = [s \in Src |-> IF dies(s) THEN {} ELSE ev[s]]
        /\ active' = [s \in Src |-> act[s] /\ ~(dies(s) /\ StoppedByDtor(s))]

Init ==
    /\ object = [s \in Src |-> "none"]
    /\ held = [s \in Src |-> FALSE]
    /\ signals = [s \in Src |-> {}]
    /\ events = [s \in Src |-> {}]
    /\ active = [s \in Src |-> FALSE]
    /\ spent = [s \in Src |-> FALSE]
    /\ rooted = {}
    /\ exited = FALSE
    /\ loop = "run"
    /\ cb = NoCallback
    /\ fired = [s \in Src |-> FALSE]

-----------------------------------------------------------------------------
(* A new source.  It may take the place of a dead one.                       *)
NewSource(s, running) ==
    /\ UserCode /\ object[s] # "live" /\ ~active[s] /\ cb.src # s
    /\ object' = [object EXCEPT ![s] = "live"]
    /\ held' = [held EXCEPT ![s] = TRUE]
    /\ active' = [active EXCEPT ![s] = running]
    /\ spent' = [spent EXCEPT ![s] = FALSE]
    /\ fired' = [fired EXCEPT ![s] = FALSE]
    /\ cb' = AfterOp
    /\ UNCHANGED <<signals, events, rooted, exited, loop>>

CreateIoev(s) == Kind[s] = "io" /\ NewSource(s, FALSE)
CreateTimer(s) == Kind[s] = "timer" /\ NewSource(s, FALSE)

(* Only the periodic timer is started at once.                               *)
CreatePeriodic(s) == Kind[s] = "periodic" /\ NewSource(s, TRUE)

Fail(how) ==
    /\ loop' = how
    /\ UNCHANGED <<object, held, signals, events, active, spent, rooted, exited, cb, fired>>

(* di_add_anonymous_root succeeds, and the source was not a root yet.        *)
CanRoot(s) == ~exited /\ s \notin rooted

(* di_enable_read, di_enable_write, di_modify_ioev and di_start_ioev, whose  *)
(* DI_CHECKs abort without roots.                                            *)
IoAddSignal(s, x) ==
    /\ Kind[s] = "io"
    /\ IF active[s] \/ CanRoot(s)
       THEN /\ SetSources(held, rooted \cup {s}, AfterOp, [signals EXCEPT ![s] = @ \cup {x}],
                          [events EXCEPT ![s] = @ \cup {x}], [active EXCEPT ![s] = TRUE])
            /\ UNCHANGED <<spent, exited, loop, fired>>
       ELSE Fail("aborted")

(* Mutant: the timer is not started.                                         *)
TimerAddSignalIdle(s, x) ==
    /\ Kind[s] = "timer" /\ ~spent[s]
    /\ CanRoot(s)
    /\ SetSources(held, rooted \cup {s}, AfterOp, [signals EXCEPT ![s] = {x}], events, active)
    /\ UNCHANGED <<spent, exited, loop, fired>>

(* di_timer_add_signal: nothing happens when the timer has elapsed, or when  *)
(* there are no roots any more.                                              *)
TimerAddSignal(s, x) ==
    /\ Kind[s] = "timer"
    /\ \/ /\ spent[s] \/ exited
          /\ cb' = AfterOp
          /\ UNCHANGED <<object, held, signals, events, active, spent, rooted, exited, loop, fired>>
       \/ /\ ~spent[s] /\ ~exited
          /\ IF CanRoot(s)
             THEN /\ SetSources(held, rooted \cup {s}, AfterOp, [signals EXCEPT ![s] = {x}], events,
                                [active EXCEPT ![s] = TRUE])
                  /\ UNCHANGED <<spent, exited, loop, fired>>
             ELSE Fail("aborted")

(* di_periodic_signal_setter                                                 *)
PeriodicAddSignal(s, x) ==
    /\ Kind[s] = "periodic"
    /\ IF CanRoot(s)
       THEN /\ SetSources(held, rooted \cup {s}, AfterOp, [signals EXCEPT ![s] = {x}], events, active)
            /\ UNCHANGED <<spent, exited, loop, fired>>
       ELSE Fail("aborted")

(* di_listen_to on a signal without listeners.                               *)
Listen(s, x) ==
    /\ UserCode /\ object[s] = "live" /\ held[s]
    /\ x \in Signals(s) \ signals[s]
    /\ exited => s \in AfterExit
    /\ IoAddSignal(s, x) \/ TimerAddSignal(s, x) \/ PeriodicAddSignal(s, x)

(* What is left of the watcher when only the signals `rest' are listened to: *)
(* di_stop_ioev, ev_timer_stop.                                              *)
KeepsRunning(s, rest) == active[s] /\ (Kind[s] = "periodic" \/ rest # {})

(* Mutant: the source stays a root when its last listener stops.             *)
RootsWithoutKeep(s, rest) == rooted

(* The source leaves the roots with its last signal.                         *)
RootsWithout(s, rest) == IF rest = {} THEN rooted \ {s} ELSE rooted

(* The deleters: di_disable_read, di_disable_write, di_timer_delete_signal   *)
(* and di_periodic_signal_deleter.                                           *)
DeleteSignal(s, x, h, c) ==
    LET rest == signals[s] \ {x}
    IN  SetSources(h, RootsWithout(s, rest), c,
                   [signals EXCEPT ![s] = rest], [events EXCEPT ![s] = @ \ {x}],
                   [active EXCEPT ![s] = KeepsRunning(s, rest)])

(* di_ioev_callback emits read and then write without a reference of its     *)
(* own.  EmitsAgain(s): it has yet to emit write.                            *)
EmitsAgain(s) == cb.src = s /\ Kind[s] = "io" /\ cb.todo # <<>>

(* The last listener of a signal stops.                                      *)
Unlisten(s, x) ==
    /\ UserCode /\ x \in signals[s]
    /\ EmitsAgain(s) /\ ~DropEmitting => held[s]
    /\ Kind[s] = "periodic" /\ ~DropPeriodic => held[s]
    /\ DeleteSignal(s, x, held, AfterOp)
    /\ UNCHANGED <<spent, exited, loop, fired>>

(* User code lets go of a source.                                            *)
Drop(s) ==
    /\ UserCode /\ held[s]
    /\ EmitsAgain(s) => DropEmitting
    /\ Kind[s] = "periodic" => DropPeriodic
    /\ SetSources([held EXCEPT ![s] = FALSE], rooted, AfterOp, signals, events, active)
    /\ UNCHANGED <<spent, exited, loop, fired>>

(* di_prepare_exit and di_roots_dtor: every anonymous root is dropped, and   *)
(* the roots lose their methods.                                             *)
Exit ==
    /\ UserCode /\ ~exited
    /\ \A s \in rooted : EmitsAgain(s) /\ ~DropEmitting => held[s]
    /\ \A s \in rooted : Kind[s] = "periodic" /\ ~DropPeriodic => held[s]
    /\ exited' = TRUE
    /\ SetSources(held, {}, AfterOp, signals, events, active)
    /\ UNCHANGED <<spent, loop, fired>>

-----------------------------------------------------------------------------
(* libev calls back a watcher that is started.  ready is what the file       *)
(* descriptor is ready for, in the order di_ioev_callback emits.             *)
FireIo(s, ready) ==
    /\ loop = "run" /\ cb = NoCallback
    /\ Kind[s] = "io" /\ active[s]
    /\ ready # <<>> /\ ToSet(ready) \subseteq events[s]
    /\ cb' = [src |-> s, todo |-> ready, left |-> 0]
    /\ UNCHANGED <<object, held, signals, events, active, spent, rooted, exited, loop, fired>>

(* di_timer_callback up to the emission.                                     *)
FireTimer(s) ==
    /\ loop = "run" /\ cb = NoCallback
    /\ Kind[s] = "timer" /\ active[s]
    /\ active' = [active EXCEPT ![s] = FALSE]
    /\ spent' = [spent EXCEPT ![s] = TRUE]
    /\ fired' = [fired EXCEPT ![s] = TRUE]
    /\ cb' = [src |-> s, todo |-> <<"elapsed">>, left |-> 0]
    /\ UNCHANGED <<object, held, signals, events, rooted, exited, loop>>

FirePeriodic(s) ==
    /\ loop = "run" /\ cb = NoCallback
    /\ Kind[s] = "periodic" /\ active[s]
    /\ cb' = [src |-> s, todo |-> <<"triggered">>, left |-> 0]
    /\ UNCHANGED <<object, held, signals, events, active, spent, rooted, exited, loop, fired>>

(* di_emit: the handlers of the signal, if it has any, are called.  The      *)
(* source is used, whether or not it still lives.                            *)
Emit ==
    /\ loop = "run" /\ cb.todo # <<>>
    /\ IF object[cb.src] = "live"
       THEN /\ cb' = [cb EXCEPT !.todo = Tail(@),
                                !.left = IF Head(cb.todo) \in signals[cb.src] THEN MaxOps ELSE 0]
            /\ UNCHANGED <<object, held, signals, events, active, spent, rooted, exited, loop, fired>>
       ELSE Fail("freed")

(* Mutant: nothing is deleted after the emission.                            *)
CallbackReturnsAsIs ==
    /\ loop = "run" /\ cb # NoCallback /\ cb.todo = <<>>
    /\ SetSources(held, rooted, NoCallback, signals, events, active)
    /\ UNCHANGED <<spent, exited, loop, fired>>

(* The callback returns; di_timer_callback deletes the signal before, and    *)
(* uses the timer for it.                                                    *)
CallbackReturns ==
    /\ loop = "run" /\ cb # NoCallback /\ cb.todo = <<>>
    /\ IF Kind[cb.src] # "timer" \/ object[cb.src] = "live"
       THEN /\ \/ /\ Kind[cb.src] = "timer" /\ signals[cb.src] # {}
                  /\ DeleteSignal(cb.src, "elapsed", held, NoCallback)
               \/ /\ Kind[cb.src] # "timer" \/ signals[cb.src] = {}
                  /\ SetSources(held, rooted, NoCallback, signals, events, active)
            /\ UNCHANGED <<spent, exited, loop, fired>>
       ELSE Fail("freed")

(* External: without roots the next garbage collection frees the whole       *)
(* program; di_dtor breaks the loop.                                         *)
LoopEnds ==
    /\ loop = "run" /\ cb = NoCallback /\ rooted = {}
    /\ loop' = "stopped"
    /\ UNCHANGED <<object, held, signals, events, active, spent, rooted, exited, cb, fired>>

User ==
    \/ \E s \in Src : CreateIoev(s) \/ CreateTimer(s) \/ CreatePeriodic(s) \/ Drop(s)
    \/ \E s \in Src, x \in Names : Listen(s, x) \/ Unlisten(s, x)
    \/ Exit

Fire(s) ==
    \/ \E ready \in {<<"read">>, <<"write">>, <<"read", "write">>} : FireIo(s, ready)
    \/ FireTimer(s)
    \/ FirePeriodic(s)

Next == User \/ (\E s \in Src : Fire(s)) \/ Emit \/ CallbackReturns \/ LoopEnds

Spec == Init /\ [][Next]_vars

(* Callbacks return, and time passes: libev calls back each timer that is    *)
(* started, even if other watchers are ready again and again.                *)
FairSpec ==
    /\ Spec
    /\ WF_vars(Emit) /\ WF_vars(CallbackReturns)
    /\ \A s \in Src : SF_vars(FireTimer(s))

-----------------------------------------------------------------------------
(* Properties.                                                               *)

(* The type invariant.                                                       *)
TypeOK ==
    /\ object \in [Src -> {"none", "live", "dead"}]
    /\ held \in [Src -> BOOLEAN]
    /\ signals \in [Src -> SUBSET Names]
    /\ events \in [Src -> SUBSET Names]
    /\ active \in [Src -> BOOLEAN]
    /\ spent \in [Src -> BOOLEAN]
    /\ rooted \subseteq Src
    /\ exited \in BOOLEAN
    /\ loop \in {"run", "stopped", "aborted", "freed"}
    /\ cb \in [src : Src \cup {NoSrc}, todo : Seq(Names), left : 0 .. MaxOps]
    /\ fired \in [Src -> BOOLEAN]

(* A source watches exactly what is listened to, and is a root while it      *)
(* does: otherwise it would be collected with listeners waiting, or keep the *)
(* program from ending.  The DI_CHECKs of the setters hold, and no callback  *)
(* goes on with a source that a handler has destroyed.  (After di:exit()     *)
(* there are no roots.)                                                      *)
WatchesListeners ==
    /\ loop \notin {"aborted", "freed"}
    /\ \A s \in Src : object[s] = "live" =>
        /\ Kind[s] = "io" => events[s] = signals[s] /\ (active[s] <=> signals[s] # {})
        /\ Kind[s] = "timer" => (active[s] <=> signals[s] # {} /\ ~spent[s])
        /\ s \in rooted <=> signals[s] # {} /\ ~exited

(* A timer fires once and then lets go: when its callback has returned       *)
(* nothing listens to it, it is no root and its watcher is stopped, whatever *)
(* the handlers did meanwhile (stop and listen again, which                  *)
(* di_timer_add_signal ignores for a spent timer, drop the timer, exit, or   *)
(* create other sources).  Otherwise an elapsed timer would keep the program *)
(* from ending, or fire again.                                               *)
ElapsedLetsGo ==
    \A s \in Src : object[s] = "live" /\ fired[s] /\ cb.src # s =>
        signals[s] = {} /\ s \notin rooted /\ ~active[s]

(* A listener of a timer is called, unless it stops or the program exits;    *)
(* also when it comes late ("the signal will be emitted when the first       *)
(* listener is attached").                                                   *)
TimerFires ==
    \A s \in Src : Kind[s] = "timer" /\ signals[s] # {} ~>
        fired[s] \/ signals[s] = {} \/ exited
=============================================================================
