------------------------- MODULE EventSourceProofs -------------------------
(***************************************************************************)
(* Proofs about EventSource, for any number of sources of any kinds and    *)
(* handlers of any length.                                                 *)
(***************************************************************************)
EXTENDS EventSource, TLAPS

(* What is asked of user code: it keeps its periodic timers, does not drop a *)
(* file descriptor event that has read emitted and write yet to emit, and    *)
(* listens to nothing but timers after di:exit().                            *)
KeepsSources ==
    /\ ~DropPeriodic
    /\ ~DropEmitting
    /\ \A s \in AfterExit : Kind[s] = "timer"

-----------------------------------------------------------------------------
(* The inductive invariant.                                                  *)

(* A source has only signals of its kind, and only a file descriptor event   *)
(* has events.                                                               *)
OwnSignals ==
    \A s \in Src : signals[s] \subseteq Signals(s) /\ (Kind[s] # "io" => events[s] = {})

(* A source lives exactly as long as something refers to it.                 *)
LiveReferenced == \A s \in Src : object[s] = "live" <=> Referenced(s, held, rooted, cb)

(* Nothing is left of a source that does not live.                           *)
NothingLeft ==
    \A s \in Src : object[s] # "live" =>
        signals[s] = {} /\ events[s] = {} /\ ~active[s]

(* A periodic timer is held as long as it lives.                             *)
PeriodicHeld == \A s \in Src : object[s] = "live" /\ Kind[s] = "periodic" => held[s]

(* The source of the running callback lives as long as it has something to   *)
(* emit; a timer's has elapsed.                                              *)
CallbackLive ==
    /\ cb.src = NoSrc <=> cb = NoCallback
    /\ cb.src # NoSrc /\ cb.todo # <<>> => object[cb.src] = "live"
    /\ cb.src # NoSrc => (Kind[cb.src] = "timer" => spent[cb.src])

(* Only timers elapse, all that fired have, and nothing listens to one that  *)
(* has, outside of its callback.                                             *)
Elapsed ==
    \A s \in Src :
        /\ fired[s] => spent[s]
        /\ spent[s] => Kind[s] = "timer"
        /\ spent[s] /\ cb.src # s => signals[s] = {}

Inv ==
    /\ TypeOK
    /\ WatchesListeners
    /\ OwnSignals
    /\ LiveReferenced
    /\ NothingLeft
    /\ PeriodicHeld
    /\ CallbackLive
    /\ Elapsed

-----------------------------------------------------------------------------
(* Signals, and the state of the callback after an operation.                *)

LEMMA SignalsOf ==
    ASSUME NEW s \in Src
    PROVE  /\ Signals(s) \subseteq Names
           /\ Kind[s] \in {"io", "timer", "periodic"}
           /\ Kind[s] = "io" => Signals(s) = {"read", "write"}
           /\ Kind[s] = "timer" => Signals(s) = {"elapsed"}
           /\ Kind[s] = "periodic" => Signals(s) = {"triggered"}
<1>1. Kind[s] \in {"io", "timer", "periodic"}
  BY SourceAssumption
<1>2. CASE Kind[s] = "io"
  BY <1>2 DEF Signals, Names
<1>3. CASE Kind[s] = "timer"
  BY <1>3 DEF Signals, Names
<1>4. CASE Kind[s] = "periodic"
  BY <1>4 DEF Signals, Names
<1>. QED
  BY <1>1, <1>2, <1>3, <1>4

Callbacks == [src : Src \cup {NoSrc}, todo : Seq(Names), left : 0 .. MaxOps]

LEMMA NoCallbackType == NoCallback \in Callbacks
<1>1. <<>> \in Seq(Names)
  OBVIOUS
<1>2. 0 \in 0 .. MaxOps
  BY SourceAssumption
<1>. QED
  BY <1>1, <1>2 DEF NoCallback, Callbacks

LEMMA AfterOpFacts ==
    ASSUME cb \in Callbacks, UserCode, cb.src = NoSrc <=> cb = NoCallback
    PROVE  /\ AfterOp \in Callbacks
           /\ AfterOp.src = cb.src /\ AfterOp.todo = cb.todo
           /\ AfterOp.src = NoSrc <=> AfterOp = NoCallback
<1>1. CASE cb = NoCallback
  BY <1>1 DEF AfterOp
<1>2. CASE cb # NoCallback
  <2>1. cb.left > 0
    BY <1>2 DEF UserCode
  <2>2. AfterOp = [cb EXCEPT !.left = @ - 1]
    BY <1>2 DEF AfterOp
  <2>3. cb.left - 1 \in 0 .. MaxOps
    BY <2>1, SourceAssumption DEF Callbacks
  <2>4. AfterOp \in Callbacks /\ AfterOp.src = cb.src /\ AfterOp.todo = cb.todo
    BY <2>2, <2>3 DEF Callbacks
  <2>5. AfterOp # NoCallback
    BY <1>2, <2>4 DEF NoCallback
  <2>. QED
    BY <2>4, <2>5, <1>2
<1>. QED
  BY <1>1, <1>2

(* What SetSources makes of a source, and of the types of the variables.     *)
LEMMA SetSourcesFacts ==
    ASSUME object \in [Src -> {"none", "live", "dead"}],
           NEW h \in [Src -> BOOLEAN], NEW r \in SUBSET Src, NEW c \in Callbacks,
           NEW sig \in [Src -> SUBSET Names], NEW ev \in [Src -> SUBSET Names],
           NEW act \in [Src -> BOOLEAN],
           SetSources(h, r, c, sig, ev, act)
    PROVE  /\ object' \in [Src -> {"none", "live", "dead"}]
           /\ held' = h /\ rooted' = r /\ cb' = c
           /\ signals' \in [Src -> SUBSET Names]
           /\ events' \in [Src -> SUBSET Names]
           /\ active' \in [Src -> BOOLEAN]
           /\ \A s \in Src : object[s] = "live" /\ ~Referenced(s, h, r, c) =>
                /\ object'[s] = "dead" /\ signals'[s] = {} /\ events'[s] = {}
                /\ active'[s] <=> act[s] /\ Kind[s] = "periodic"
           /\ \A s \in Src : object[s] # "live" \/ Referenced(s, h, r, c) =>
                /\ object'[s] = object[s] /\ signals'[s] = sig[s] /\ events'[s] = ev[s]
                /\ active'[s] <=> act[s]
<1>. DEFINE dies(s) == object[s] = "live" /\ ~Referenced(s, h, r, c)
<1>1. /\ object' = [s \in Src |-> IF dies(s) THEN "dead" ELSE object[s]]
      /\ held' = h /\ rooted' = r /\ cb' = c
      /\ signals' = [s \in Src |-> IF dies(s) THEN {} ELSE sig[s]]
      /\ events' = [s \in Src |-> IF dies(s) THEN {} ELSE ev[s]]
      /\ active' = [s \in Src |-> act[s] /\ ~(dies(s) /\ Kind[s] # "periodic")]
  BY DEF SetSources, StoppedByDtor
<1>. HIDE DEF dies
<1>2. object' \in [Src -> {"none", "live", "dead"}]
  BY <1>1
<1>3. signals' \in [Src -> SUBSET Names] /\ events' \in [Src -> SUBSET Names]
  BY <1>1
<1>4. active' \in [Src -> BOOLEAN]
  <2>1. \A s \in Src : (act[s] /\ ~(dies(s) /\ Kind[s] # "periodic")) \in BOOLEAN
    OBVIOUS
  <2>. QED
    BY <1>1, <2>1
<1>5. \A s \in Src : dies(s) =>
                /\ object'[s] = "dead" /\ signals'[s] = {} /\ events'[s] = {}
                /\ active'[s] <=> act[s] /\ Kind[s] = "periodic"
  BY <1>1
<1>6. \A s \in Src : ~dies(s) =>
                /\ object'[s] = object[s] /\ signals'[s] = sig[s] /\ events'[s] = ev[s]
                /\ active'[s] <=> act[s]
  BY <1>1
<1>. QED
  BY <1>1, <1>2, <1>3, <1>4, <1>5, <1>6 DEF dies

(* What the arguments of SetSources must satisfy for the invariant to hold   *)
(* after the step, e being exited after it.                                  *)
Fits(h, r, c, sig, ev, act, e) ==
    /\ \A s \in Src : object[s] = "live" /\ Referenced(s, h, r, c) =>
        /\ Kind[s] = "io" => ev[s] = sig[s] /\ (act[s] <=> sig[s] # {})
        /\ Kind[s] = "timer" => (act[s] <=> sig[s] # {} /\ ~spent[s])
        /\ s \in r <=> sig[s] # {} /\ ~e
    /\ \A s \in Src : sig[s] \subseteq Signals(s) /\ (Kind[s] # "io" => ev[s] = {})
    /\ \A s \in Src : object[s] # "live" =>
        ~Referenced(s, h, r, c) /\ sig[s] = {} /\ ev[s] = {} /\ ~act[s]
    /\ \A s \in Src : object[s] = "live" /\ Kind[s] = "periodic" => h[s]
    /\ c.src = NoSrc <=> c = NoCallback
    /\ c.src # NoSrc /\ c.todo # <<>> => object[c.src] = "live" /\ Referenced(c.src, h, r, c)
    /\ c.src # NoSrc => (Kind[c.src] = "timer" => spent[c.src])
    /\ \A s \in Src : spent[s] /\ c.src # s => sig[s] = {}

LEMMA Settles ==
    ASSUME Inv,
           NEW h \in [Src -> BOOLEAN], NEW r \in SUBSET Src, NEW c \in Callbacks,
           NEW sig \in [Src -> SUBSET Names], NEW ev \in [Src -> SUBSET Names],
           NEW act \in [Src -> BOOLEAN], exited' \in BOOLEAN,
           SetSources(h, r, c, sig, ev, act), Fits(h, r, c, sig, ev, act, exited'),
           UNCHANGED <<spent, loop, fired>>
    PROVE  Inv'
<1>. USE DEF Inv
<1>1. object \in [Src -> {"none", "live", "dead"}]
  BY DEF TypeOK
<1>2. /\ object' \in [Src -> {"none", "live", "dead"}]
      /\ held' = h /\ rooted' = r /\ cb' = c
      /\ signals' \in [Src -> SUBSET Names]
      /\ events' \in [Src -> SUBSET Names]
      /\ active' \in [Src -> BOOLEAN]
  BY <1>1, SetSourcesFacts
<1>3. \A s \in Src : object[s] = "live" /\ ~Referenced(s, h, r, c) =>
        /\ object'[s] = "dead" /\ signals'[s] = {} /\ events'[s] = {}
        /\ active'[s] <=> act[s] /\ Kind[s] = "periodic"
  BY <1>1, SetSourcesFacts
<1>4. \A s \in Src : object[s] # "live" \/ Referenced(s, h, r, c) =>
        /\ object'[s] = object[s] /\ signals'[s] = sig[s] /\ events'[s] = ev[s]
        /\ active'[s] <=> act[s]
  BY <1>1, SetSourcesFacts
<1>5. TypeOK'
  BY <1>2 DEF TypeOK, Callbacks
<1>6. \A s \in Src : object'[s] = "live" => object[s] = "live" /\ Referenced(s, h, r, c)
  BY <1>3, <1>4 DEF Fits
<1>7. WatchesListeners'
  <2>1. loop' \notin {"aborted", "freed"}
    BY DEF WatchesListeners
  <2>2. ASSUME NEW s \in Src, object'[s] = "live"
        PROVE  /\ Kind[s] = "io" => events'[s] = signals'[s] /\ (active'[s] <=> signals'[s] # {})
               /\ Kind[s] = "timer" => (active'[s] <=> signals'[s] # {} /\ ~spent'[s])
               /\ s \in rooted' <=> signals'[s] # {} /\ ~exited'
    BY <1>2, <1>4, <1>6, <2>2 DEF Fits
  <2>. QED
    BY <2>1, <2>2 DEF WatchesListeners
<1>8. OwnSignals'
  <2>1. \A s \in Src : signals'[s] \subseteq Signals(s) /\ (Kind[s] # "io" => events'[s] = {})
    BY <1>3, <1>4 DEF Fits
  <2>. QED
    BY <2>1 DEF OwnSignals, Signals
<1>9. LiveReferenced'
  <2>1. \A s \in Src : object'[s] = "live" <=> Referenced(s, h, r, c)
    BY <1>3, <1>4, <1>6 DEF Fits
  <2>. QED
    BY <1>2, <2>1 DEF LiveReferenced, Referenced
<1>10. NothingLeft'
  <2>1. ASSUME NEW s \in Src, object'[s] # "live"
        PROVE  signals'[s] = {} /\ events'[s] = {} /\ ~active'[s]
    <3>1. CASE object[s] = "live" /\ ~Referenced(s, h, r, c)
      <4>1. Kind[s] # "periodic"
        BY <3>1 DEF Fits, Referenced
      <4>. QED
        BY <1>3, <3>1, <4>1
    <3>2. CASE object[s] # "live" \/ Referenced(s, h, r, c)
      BY <1>4, <2>1, <3>2 DEF Fits
    <3>. QED
      BY <3>1, <3>2
  <2>. QED
    BY <2>1 DEF NothingLeft
<1>11. PeriodicHeld'
  BY <1>2, <1>6 DEF PeriodicHeld, Fits
<1>12. CallbackLive'
  <2>1. c.src # NoSrc => c.src \in Src
    BY DEF Callbacks
  <2>2. c.src # NoSrc /\ c.todo # <<>> => object'[c.src] = "live"
    BY <1>4, <2>1 DEF Fits
  <2>. QED
    BY <1>2, <2>2 DEF CallbackLive, Fits, NoCallback
<1>13. Elapsed'
  <2>1. \A s \in Src : signals'[s] \subseteq sig[s]
    BY <1>3, <1>4
  <2>. QED
    BY <1>2, <2>1 DEF Elapsed, Fits
<1>. QED
  BY <1>5, <1>7, <1>8, <1>9, <1>10, <1>11, <1>12, <1>13

-----------------------------------------------------------------------------
(* Every operation keeps the invariant.                                      *)

LEMMA InitInv == Init => Inv
<1>. SUFFICES ASSUME Init PROVE Inv
  OBVIOUS
<1>. USE DEF Init
<1>1. TypeOK
  BY NoCallbackType DEF TypeOK, Callbacks
<1>2. cb.src = NoSrc /\ \A s \in Src : cb.src # s
  BY SourceAssumption DEF NoCallback
<1>3. WatchesListeners /\ OwnSignals /\ NothingLeft /\ PeriodicHeld
  BY DEF WatchesListeners, OwnSignals, NothingLeft, PeriodicHeld
<1>4. LiveReferenced
  BY <1>2 DEF LiveReferenced, Referenced
<1>5. CallbackLive /\ Elapsed
  BY <1>2 DEF CallbackLive, Elapsed
<1>. QED
  BY <1>1, <1>3, <1>4, <1>5 DEF Inv

LEMMA NewSourceInv ==
    ASSUME Inv, NEW s \in Src, NEW running \in BOOLEAN, NewSource(s, running),
           running = (Kind[s] = "periodic")
    PROVE  Inv'
<1>. USE DEF Inv
<1>1. cb' = AfterOp /\ cb' \in Callbacks /\ cb'.src = cb.src /\ cb'.todo = cb.todo
      /\ (cb'.src = NoSrc <=> cb' = NoCallback)
  BY AfterOpFacts DEF TypeOK, Callbacks, CallbackLive, NewSource
<1>2. TypeOK'
  BY <1>1 DEF TypeOK, Callbacks, NewSource
<1>3. signals[s] = {} /\ events[s] = {} /\ s \notin rooted
  BY DEF NewSource, NothingLeft, LiveReferenced, Referenced
<1>4. /\ object'[s] = "live" /\ held'[s] /\ ~spent'[s] /\ ~fired'[s]
      /\ active'[s] <=> Kind[s] = "periodic"
      /\ signals' = signals /\ events' = events /\ rooted' = rooted /\ exited' = exited
      /\ loop' = loop
      /\ \A t \in Src \ {s} : /\ object'[t] = object[t] /\ held'[t] = held[t]
                              /\ spent'[t] = spent[t] /\ active'[t] = active[t]
                              /\ fired'[t] = fired[t]
  BY DEF NewSource, TypeOK
<1>5. WatchesListeners'
  BY <1>3, <1>4 DEF WatchesListeners
<1>6. OwnSignals'
  BY <1>4 DEF OwnSignals, Signals
<1>7. LiveReferenced'
  BY <1>1, <1>4 DEF LiveReferenced, Referenced
<1>8. NothingLeft'
  BY <1>3, <1>4 DEF NothingLeft
<1>9. PeriodicHeld'
  BY <1>4 DEF PeriodicHeld
<1>10. CallbackLive'
  <2>1. cb'.src # NoSrc => cb'.src \in Src \ {s}
    BY <1>1 DEF NewSource, Callbacks
  <2>2. cb'.src # NoSrc => /\ object'[cb'.src] = object[cb.src]
                           /\ spent'[cb'.src] = spent[cb.src]
    BY <1>1, <1>4, <2>1
  <2>. QED
    BY <1>1, <2>2 DEF CallbackLive, NoCallback
<1>11. Elapsed'
  BY <1>1, <1>4 DEF Elapsed
<1>. QED
  BY <1>2, <1>5, <1>6, <1>7, <1>8, <1>9, <1>10, <1>11

(* A step that only adds a signal x to a source, with the root that keeps it *)
(* alive.                                                                    *)
LEMMA AddSignalInv ==
    ASSUME Inv, UserCode, NEW s \in Src, object[s] = "live", ~exited,
           NEW x \in Signals(s), NEW sig, NEW ev, NEW act,
           ~spent[s],
           sig = [signals EXCEPT ![s] = @ \cup {x}],
           ev = IF Kind[s] = "io" THEN [events EXCEPT ![s] = @ \cup {x}] ELSE events,
           act = IF Kind[s] = "periodic" THEN active ELSE [active EXCEPT ![s] = TRUE],
           SetSources(held, rooted \cup {s}, AfterOp, sig, ev, act),
           UNCHANGED <<spent, exited, loop, fired>>
    PROVE  Inv'
<1>. USE DEF Inv
<1>1. AfterOp \in Callbacks /\ AfterOp.src = cb.src /\ AfterOp.todo = cb.todo
      /\ (AfterOp.src = NoSrc <=> AfterOp = NoCallback)
  BY AfterOpFacts DEF TypeOK, Callbacks, CallbackLive
<1>2. /\ sig \in [Src -> SUBSET Names] /\ ev \in [Src -> SUBSET Names]
      /\ act \in [Src -> BOOLEAN]
  BY SignalsOf DEF TypeOK
<1>3. /\ sig[s] = signals[s] \cup {x}
      /\ ev[s] = IF Kind[s] = "io" THEN events[s] \cup {x} ELSE events[s]
      /\ act[s] = IF Kind[s] = "periodic" THEN active[s] ELSE TRUE
      /\ \A t \in Src \ {s} : sig[t] = signals[t] /\ ev[t] = events[t] /\ act[t] = active[t]
  BY DEF TypeOK
<1>. DEFINE r == rooted \cup {s}
<1>4. \A t \in Src : object[t] = "live" <=> Referenced(t, held, r, AfterOp)
  BY <1>1 DEF LiveReferenced, Referenced
<1>5. \A t \in Src : object[t] = "live" =>
        /\ Kind[t] = "io" => ev[t] = sig[t] /\ (act[t] <=> sig[t] # {})
        /\ Kind[t] = "timer" => (act[t] <=> sig[t] # {} /\ ~spent[t])
        /\ t \in r <=> sig[t] # {} /\ ~exited
  BY <1>3 DEF WatchesListeners
<1>6. \A t \in Src : sig[t] \subseteq Signals(t) /\ (Kind[t] # "io" => ev[t] = {})
  BY <1>3 DEF OwnSignals
<1>7. cb.src # NoSrc => cb.src \in Src
  BY DEF TypeOK
<1>8. \A t \in Src : object[t] # "live" => sig[t] = {} /\ ev[t] = {} /\ ~act[t]
  BY <1>3 DEF NothingLeft
<1>9. \A t \in Src : object[t] = "live" /\ Kind[t] = "periodic" => held[t]
  BY DEF PeriodicHeld
<1>12. \A t \in Src : spent[t] /\ AfterOp.src # t => sig[t] = {}
  BY <1>1, <1>3 DEF Elapsed
<1>10. Fits(held, r, AfterOp, sig, ev, act, exited')
  BY <1>1, <1>4, <1>5, <1>6, <1>7, <1>8, <1>9, <1>12 DEF Fits, CallbackLive
<1>11. held \in [Src -> BOOLEAN] /\ r \in SUBSET Src /\ exited' \in BOOLEAN
  BY DEF TypeOK
<1>. QED
  BY <1>1, <1>2, <1>10, <1>11, Settles

LEMMA ListenInv ==
    ASSUME Inv, KeepsSources, NEW s \in Src, NEW x \in Names, Listen(s, x)
    PROVE  Inv'
<1>. USE DEF Inv
<1>1. /\ UserCode /\ object[s] = "live" /\ x \in Signals(s) \ signals[s]
      /\ exited => Kind[s] = "timer"
  BY DEF Listen, KeepsSources
<1>2. /\ signals \in [Src -> SUBSET Names] /\ events \in [Src -> SUBSET Names]
      /\ active \in [Src -> BOOLEAN]
  BY DEF TypeOK
<1>3. CASE IoAddSignal(s, x)
  <2>1. Kind[s] = "io" /\ ~exited
    BY <1>1, <1>3 DEF IoAddSignal
  <2>2. active[s] \/ CanRoot(s)
    BY <1>1, <2>1 DEF WatchesListeners, CanRoot
  <2>3. ~spent[s]
    BY <2>1 DEF Elapsed
  <2>. QED
    BY <1>1, <1>3, <2>1, <2>2, <2>3, AddSignalInv DEF IoAddSignal
<1>4. CASE PeriodicAddSignal(s, x)
  <2>1. Kind[s] = "periodic" /\ ~exited
    BY <1>1, <1>4 DEF PeriodicAddSignal
  <2>2. signals[s] = {}
    BY <1>1, <2>1, SignalsOf DEF OwnSignals
  <2>3. CanRoot(s)
    BY <1>1, <2>1, <2>2 DEF WatchesListeners, CanRoot
  <2>4. [signals EXCEPT ![s] = {x}] = [signals EXCEPT ![s] = @ \cup {x}]
    BY <1>2, <2>2
  <2>5. ~spent[s]
    BY <2>1 DEF Elapsed
  <2>. QED
    BY <1>1, <1>4, <2>1, <2>3, <2>4, <2>5, AddSignalInv DEF PeriodicAddSignal
<1>5. CASE TimerAddSignal(s, x)
  <2>1. Kind[s] = "timer"
    BY <1>5 DEF TimerAddSignal
  <2>2. signals[s] = {}
    BY <1>1, <2>1, SignalsOf DEF OwnSignals
  <2>3. CASE spent[s] \/ exited
    <3>1. /\ cb' = AfterOp
          /\ UNCHANGED <<object, held, signals, events, active, spent, rooted, exited, loop, fired>>
      BY <1>5, <2>3 DEF TimerAddSignal
    <3>2. cb' \in Callbacks /\ cb'.src = cb.src /\ cb'.todo = cb.todo
          /\ (cb'.src = NoSrc <=> cb' = NoCallback)
      BY <1>1, <3>1, AfterOpFacts DEF TypeOK, Callbacks, CallbackLive
    <3>3. TypeOK'
      BY <3>1, <3>2 DEF TypeOK, Callbacks
    <3>4. WatchesListeners' /\ OwnSignals' /\ NothingLeft' /\ PeriodicHeld'
      BY <3>1 DEF WatchesListeners, OwnSignals, Signals, NothingLeft, PeriodicHeld
    <3>5. LiveReferenced' /\ CallbackLive' /\ Elapsed'
      BY <3>1, <3>2 DEF LiveReferenced, Referenced, CallbackLive, NoCallback, Elapsed
    <3>. QED
      BY <3>3, <3>4, <3>5
  <2>4. CASE ~spent[s] /\ ~exited
    <3>1. CanRoot(s)
      BY <1>1, <2>2, <2>4 DEF WatchesListeners, CanRoot
    <3>2. [signals EXCEPT ![s] = {x}] = [signals EXCEPT ![s] = @ \cup {x}]
      BY <1>2, <2>2
    <3>. QED
      BY <1>1, <1>5, <2>1, <2>4, <3>1, <3>2, AddSignalInv DEF TimerAddSignal
  <2>. QED
    BY <2>3, <2>4
<1>. QED
  BY <1>3, <1>4, <1>5 DEF Listen

(* A step that deletes a signal of s and leaves the callback c.  User code   *)
(* holds s if c is a callback of s that emits again and does not hold it.    *)
LEMMA DeleteSignalInv ==
    ASSUME Inv, NEW s \in Src, NEW x \in signals[s], NEW c \in Callbacks,
           c.src = NoSrc <=> c = NoCallback,
           c.src = NoSrc \/ (c.src = cb.src /\ c.todo = cb.todo),
           c.src = NoSrc /\ cb.src # NoSrc => cb.src = s,
           c.src = s /\ c.todo # <<>> /\ Kind[s] # "timer" => held[s],
           DeleteSignal(s, x, held, c),
           UNCHANGED <<spent, exited, loop, fired>>
    PROVE  Inv'
<1>. USE DEF Inv
<1>. DEFINE rest == signals[s] \ {x}
            r == RootsWithout(s, rest)
            sig == [signals EXCEPT ![s] = rest]
            ev == [events EXCEPT ![s] = @ \ {x}]
            act == [active EXCEPT ![s] = KeepsRunning(s, rest)]
<1>1. SetSources(held, r, c, sig, ev, act)
  BY DEF DeleteSignal
<1>2. /\ signals \in [Src -> SUBSET Names] /\ events \in [Src -> SUBSET Names]
      /\ active \in [Src -> BOOLEAN] /\ held \in [Src -> BOOLEAN] /\ rooted \in SUBSET Src
  BY DEF TypeOK
<1>3. KeepsRunning(s, rest) \in BOOLEAN
  BY DEF KeepsRunning
<1>4. sig \in [Src -> SUBSET Names] /\ ev \in [Src -> SUBSET Names] /\ act \in [Src -> BOOLEAN]
  BY <1>2, <1>3
<1>5. r \in SUBSET Src /\ \A t \in Src \ {s} : t \in r <=> t \in rooted
  BY <1>2 DEF RootsWithout
<1>6. /\ sig[s] = rest /\ ev[s] = events[s] \ {x}
      /\ act[s] <=> active[s] /\ (Kind[s] = "periodic" \/ rest # {})
      /\ s \in r <=> s \in rooted /\ rest # {}
      /\ \A t \in Src \ {s} : sig[t] = signals[t] /\ ev[t] = events[t] /\ act[t] = active[t]
  BY <1>2 DEF KeepsRunning, RootsWithout
<1>7. object[s] = "live"
  BY DEF NothingLeft
<1>. HIDE DEF rest, r, sig, ev, act
<1>8. \A t \in Src : object[t] = "live" =>
        /\ Kind[t] = "io" => ev[t] = sig[t] /\ (act[t] <=> sig[t] # {})
        /\ Kind[t] = "timer" => (act[t] <=> sig[t] # {} /\ ~spent[t])
        /\ t \in r <=> sig[t] # {} /\ ~exited
  BY <1>5, <1>6, <1>7 DEF WatchesListeners, rest
<1>9. \A t \in Src : sig[t] \subseteq Signals(t) /\ (Kind[t] # "io" => ev[t] = {})
  BY <1>6 DEF OwnSignals, rest
<1>10. \A t \in Src : object[t] # "live" => ~Referenced(t, held, r, c)
  BY <1>5, <1>6, <1>7, SourceAssumption DEF LiveReferenced, Referenced
<1>11. \A t \in Src : object[t] # "live" => sig[t] = {} /\ ev[t] = {} /\ ~act[t]
  BY <1>6, <1>7 DEF NothingLeft
<1>12. c.src # NoSrc => c.src \in Src /\ c.src = cb.src /\ c.todo = cb.todo
  BY DEF Callbacks
<1>13. c.src # NoSrc /\ c.todo # <<>> => object[c.src] = "live" /\ Referenced(c.src, held, r, c)
  <2>1. c.src # NoSrc /\ c.todo # <<>> => object[c.src] = "live"
    BY <1>12 DEF CallbackLive
  <2>2. c.src # NoSrc /\ c.todo # <<>> => held[c.src] \/ c.src \in rooted \/ Kind[c.src] = "timer"
    BY <1>12, <2>1 DEF LiveReferenced, Referenced
  <2>. QED
    BY <1>5, <1>12, <2>1, <2>2 DEF Referenced
<1>14. c.src # NoSrc => (Kind[c.src] = "timer" => spent[c.src])
  BY <1>12 DEF CallbackLive
<1>16. \A t \in Src : spent[t] /\ c.src # t => sig[t] = {}
  <2>1. ASSUME NEW t \in Src, spent[t], c.src # t PROVE sig[t] = {}
    <3>1. CASE cb.src # t
      BY <1>6, <2>1, <3>1 DEF Elapsed, rest
    <3>2. CASE cb.src = t
      <4>1. t = s
        BY <2>1, <3>2, SourceAssumption
      <4>2. Kind[s] = "timer"
        BY <2>1, <4>1 DEF Elapsed
      <4>3. signals[s] \subseteq {"elapsed"}
        BY <4>2, SignalsOf DEF OwnSignals
      <4>. QED
        BY <1>6, <4>1, <4>3 DEF rest
    <3>. QED
      BY <3>1, <3>2
  <2>. QED
    BY <2>1
<1>15. Fits(held, r, c, sig, ev, act, exited')
  BY <1>8, <1>9, <1>10, <1>11, <1>13, <1>14, <1>16 DEF Fits, PeriodicHeld
<1>. QED
  BY <1>1, <1>2, <1>4, <1>5, <1>15, Settles DEF TypeOK

LEMMA UnlistenInv ==
    ASSUME Inv, KeepsSources, NEW s \in Src, NEW x \in Names, Unlisten(s, x)
    PROVE  Inv'
<1>. USE DEF Inv
<1>1. AfterOp \in Callbacks /\ AfterOp.src = cb.src /\ AfterOp.todo = cb.todo
      /\ (AfterOp.src = NoSrc <=> AfterOp = NoCallback)
  BY AfterOpFacts DEF TypeOK, Callbacks, CallbackLive, Unlisten
<1>2. cb.src = s /\ cb.todo # <<>> /\ Kind[s] # "timer" => held[s]
  BY SignalsOf DEF Unlisten, KeepsSources, EmitsAgain
<1>3. AfterOp.src = s /\ AfterOp.todo # <<>> /\ Kind[s] # "timer" => held[s]
  BY <1>1, <1>2
<1>. QED
  BY <1>1, <1>3, DeleteSignalInv DEF Unlisten

(* A step that only drops references: those of user code outside h, and the  *)
(* roots outside r.                                                          *)
LEMMA LetGoInv ==
    ASSUME Inv, NEW h \in [Src -> BOOLEAN], NEW r \in SUBSET rooted, NEW c \in Callbacks,
           \A s \in Src : h[s] => held[s],
           c.src = NoSrc <=> c = NoCallback,
           c.src = NoSrc \/ (c.src = cb.src /\ c.todo = cb.todo),
           c.src = NoSrc /\ cb.src # NoSrc =>
               (Kind[cb.src] = "timer" => signals[cb.src] = {}),
           c.src # NoSrc /\ c.todo # <<>> =>
               (Kind[c.src] # "timer" => h[c.src] \/ c.src \in r),
           \A s \in Src : object[s] = "live" /\ Kind[s] = "periodic" => h[s],
           exited' \in BOOLEAN,
           IF exited' THEN r = {} ELSE r = rooted /\ ~exited,
           SetSources(h, r, c, signals, events, active),
           UNCHANGED <<spent, loop, fired>>
    PROVE  Inv'
<1>. USE DEF Inv
<1>1. c.src # NoSrc => c.src \in Src /\ c.src = cb.src /\ c.todo = cb.todo
  BY DEF Callbacks
<1>2. \A s \in Src : object[s] = "live" =>
        /\ Kind[s] = "io" => events[s] = signals[s] /\ (active[s] <=> signals[s] # {})
        /\ Kind[s] = "timer" => (active[s] <=> signals[s] # {} /\ ~spent[s])
        /\ s \in r <=> signals[s] # {} /\ ~exited'
  BY DEF WatchesListeners
<1>3. \A s \in Src : object[s] # "live" => ~Referenced(s, h, r, c)
  BY <1>1, SourceAssumption DEF LiveReferenced, Referenced
<1>4. c.src # NoSrc /\ c.todo # <<>> => object[c.src] = "live" /\ Referenced(c.src, h, r, c)
  BY <1>1 DEF CallbackLive, Referenced
<1>6. \A s \in Src : spent[s] /\ c.src # s => signals[s] = {}
  BY SourceAssumption DEF Elapsed
<1>5. Fits(h, r, c, signals, events, active, exited')
  BY <1>1, <1>2, <1>3, <1>4, <1>6 DEF Fits, OwnSignals, NothingLeft, CallbackLive
<1>. QED
  BY <1>5, Settles DEF TypeOK

LEMMA DropInv ==
    ASSUME Inv, KeepsSources, NEW s \in Src, Drop(s)
    PROVE  Inv'
<1>. USE DEF Inv
<1>. DEFINE h == [held EXCEPT ![s] = FALSE]
<1>1. AfterOp \in Callbacks /\ AfterOp.src = cb.src /\ AfterOp.todo = cb.todo
      /\ (AfterOp.src = NoSrc <=> AfterOp = NoCallback)
  BY AfterOpFacts DEF TypeOK, Callbacks, CallbackLive, Drop
<1>2. Kind[s] # "periodic" /\ (Kind[s] = "io" /\ cb.todo # <<>> => cb.src # s)
  BY DEF Drop, KeepsSources, EmitsAgain
<1>3. h \in [Src -> BOOLEAN] /\ ~h[s] /\ \A t \in Src \ {s} : h[t] = held[t]
  BY DEF TypeOK
<1>4. cb.src # NoSrc /\ cb.todo # <<>> =>
        (Kind[cb.src] # "timer" => h[cb.src] \/ cb.src \in rooted)
  <2>1. SUFFICES ASSUME cb.src # NoSrc, cb.todo # <<>>, Kind[cb.src] # "timer"
                 PROVE  h[cb.src] \/ cb.src \in rooted
    OBVIOUS
  <2>2. cb.src \in Src
    BY <2>1 DEF TypeOK
  <2>3. cb.src # s
    BY <1>2, <2>1, SignalsOf
  <2>4. held[cb.src] \/ cb.src \in rooted
    BY <2>1, <2>2 DEF CallbackLive, LiveReferenced, Referenced
  <2>. QED
    BY <1>3, <2>2, <2>3, <2>4
<1>5. \A t \in Src : object[t] = "live" /\ Kind[t] = "periodic" => h[t]
  BY <1>2, <1>3 DEF PeriodicHeld
<1>6. IF exited' THEN rooted = {} ELSE rooted = rooted /\ ~exited
  <2>1. exited' = exited
    BY DEF Drop
  <2>2. ASSUME exited, NEW t \in rooted PROVE FALSE
    BY <2>2 DEF TypeOK, LiveReferenced, Referenced, WatchesListeners
  <2>. QED
    BY <2>1, <2>2
<1>7. /\ SetSources(h, rooted, AfterOp, signals, events, active)
      /\ UNCHANGED <<spent, exited, loop, fired>>
  BY DEF Drop
<1>8. exited' \in BOOLEAN /\ \A t \in Src : h[t] => held[t]
  BY <1>3, <1>7 DEF TypeOK
<1>. HIDE DEF h
<1>. QED
  BY <1>1, <1>3, <1>4, <1>5, <1>6, <1>7, <1>8, LetGoInv

LEMMA ExitInv ==
    ASSUME Inv, KeepsSources, Exit
    PROVE  Inv'
<1>. USE DEF Inv
<1>1. AfterOp \in Callbacks /\ AfterOp.src = cb.src /\ AfterOp.todo = cb.todo
      /\ (AfterOp.src = NoSrc <=> AfterOp = NoCallback)
  BY AfterOpFacts DEF TypeOK, Callbacks, CallbackLive, Exit
<1>2. cb.src # NoSrc /\ cb.todo # <<>> => (Kind[cb.src] # "timer" => held[cb.src])
  <2>1. SUFFICES ASSUME cb.src # NoSrc, cb.todo # <<>>, Kind[cb.src] # "timer"
                 PROVE  held[cb.src]
    OBVIOUS
  <2>2. cb.src \in Src /\ object[cb.src] = "live"
    BY <2>1 DEF TypeOK, CallbackLive
  <2>3. CASE Kind[cb.src] = "periodic"
    BY <2>2, <2>3 DEF PeriodicHeld
  <2>4. CASE Kind[cb.src] = "io"
    <3>1. EmitsAgain(cb.src)
      BY <2>1, <2>4 DEF EmitsAgain
    <3>2. held[cb.src] \/ cb.src \in rooted
      BY <2>1, <2>2 DEF LiveReferenced, Referenced
    <3>. QED
      BY <3>1, <3>2 DEF Exit, KeepsSources
  <2>. QED
    BY <2>1, <2>2, <2>3, <2>4, SignalsOf
<1>3. /\ SetSources(held, {}, AfterOp, signals, events, active)
      /\ exited' = TRUE /\ UNCHANGED <<spent, loop, fired>>
  BY DEF Exit
<1>4. \A s \in Src : object[s] = "live" /\ Kind[s] = "periodic" => held[s]
  BY DEF PeriodicHeld
<1>5. held \in [Src -> BOOLEAN] /\ {} \in SUBSET rooted
  BY DEF TypeOK
<1>. QED
  BY <1>1, <1>2, <1>3, <1>4, <1>5, LetGoInv

-----------------------------------------------------------------------------
(* So does every step of a callback.                                         *)

(* A step that only changes the callback, to another of a source that lives. *)
LEMMA CallbackStepInv ==
    ASSUME Inv, cb' \in Callbacks, cb'.src \in Src, cb # NoCallback => cb'.src = cb.src,
           object[cb'.src] = "live",
           Kind[cb'.src] = "timer" => spent[cb'.src],
           UNCHANGED <<object, held, signals, events, active, spent, rooted, exited, loop, fired>>
    PROVE  Inv'
<1>. USE DEF Inv
<1>1. TypeOK'
  BY DEF TypeOK, Callbacks
<1>2. WatchesListeners' /\ OwnSignals' /\ NothingLeft' /\ PeriodicHeld'
  BY DEF WatchesListeners, OwnSignals, Signals, NothingLeft, PeriodicHeld
<1>3. \A s \in Src : cb.src = s => cb'.src = s
  BY SourceAssumption DEF NoCallback
<1>4. LiveReferenced'
  BY <1>3 DEF LiveReferenced, Referenced
<1>5. CallbackLive' /\ Elapsed'
  BY <1>3, SourceAssumption DEF CallbackLive, NoCallback, Elapsed
<1>. QED
  BY <1>1, <1>2, <1>4, <1>5

LEMMA FireIoInv ==
    ASSUME Inv, NEW s \in Src,
           NEW ready \in {<<"read">>, <<"write">>, <<"read", "write">>}, FireIo(s, ready)
    PROVE  Inv'
<1>. USE DEF Inv
<1>1. object[s] = "live" /\ Kind[s] # "timer"
  BY DEF NothingLeft, FireIo
<1>2. ready \in Seq(Names)
  <2>1. <<"read">> \in Seq(Names)
    BY DEF Names
  <2>2. <<"write">> \in Seq(Names)
    BY DEF Names
  <2>3. <<"read", "write">> \in Seq(Names)
    BY DEF Names
  <2>. QED
    BY <2>1, <2>2, <2>3
<1>3. 0 \in 0 .. MaxOps
  BY SourceAssumption
<1>4. cb' \in Callbacks /\ cb'.src = s
  BY <1>2, <1>3 DEF FireIo, Callbacks
<1>. QED
  BY <1>1, <1>4, CallbackStepInv DEF FireIo

LEMMA FirePeriodicInv ==
    ASSUME Inv, NEW s \in Src, FirePeriodic(s)
    PROVE  Inv'
<1>. USE DEF Inv
<1>1. object[s] = "live" /\ Kind[s] # "timer"
  BY DEF NothingLeft, FirePeriodic
<1>2. <<"triggered">> \in Seq(Names)
  BY DEF Names
<1>3. 0 \in 0 .. MaxOps
  BY SourceAssumption
<1>4. cb' \in Callbacks /\ cb'.src = s
  BY <1>2, <1>3 DEF FirePeriodic, Callbacks
<1>. QED
  BY <1>1, <1>4, CallbackStepInv DEF FirePeriodic

LEMMA FireTimerInv ==
    ASSUME Inv, NEW s \in Src, FireTimer(s)
    PROVE  Inv'
<1>. USE DEF Inv
<1>1. object[s] = "live" /\ Kind[s] = "timer" /\ cb = NoCallback
  BY DEF NothingLeft, FireTimer
<1>2. <<"elapsed">> \in Seq(Names)
  BY DEF Names
<1>3. 0 \in 0 .. MaxOps
  BY SourceAssumption
<1>4. cb' \in Callbacks /\ cb'.src = s
  BY <1>2, <1>3 DEF FireTimer, Callbacks
<1>5. /\ ~active'[s] /\ spent'[s]
      /\ \A t \in Src \ {s} : /\ active'[t] = active[t] /\ spent'[t] = spent[t]
                              /\ fired'[t] = fired[t]
      /\ UNCHANGED <<object, held, signals, events, rooted, exited, loop>>
  BY DEF FireTimer, TypeOK
<1>6. TypeOK'
  BY <1>4 DEF FireTimer, TypeOK, Callbacks
<1>7. WatchesListeners'
  BY <1>1, <1>5 DEF WatchesListeners
<1>8. OwnSignals' /\ PeriodicHeld'
  BY <1>5 DEF OwnSignals, Signals, PeriodicHeld
<1>9. NothingLeft'
  BY <1>5 DEF NothingLeft
<1>10. \A t \in Src : cb.src # t
  BY <1>1, SourceAssumption DEF NoCallback
<1>11. LiveReferenced'
  BY <1>1, <1>4, <1>5, <1>10 DEF LiveReferenced, Referenced
<1>12. CallbackLive'
  BY <1>1, <1>4, <1>5, SourceAssumption DEF CallbackLive, NoCallback
<1>13. Elapsed'
  BY <1>1, <1>4, <1>5, <1>10 DEF Elapsed
<1>. QED
  BY <1>6, <1>7, <1>8, <1>9, <1>11, <1>12, <1>13

LEMMA EmitInv ==
    ASSUME Inv, Emit
    PROVE  Inv'
<1>. USE DEF Inv
<1>1. cb # NoCallback
  BY DEF Emit, NoCallback
<1>2. cb.src \in Src
  BY <1>1 DEF TypeOK, CallbackLive
<1>3. Tail(cb.todo) \in Seq(Names)
  BY DEF Emit, TypeOK
<1>4. MaxOps \in 0 .. MaxOps /\ 0 \in 0 .. MaxOps
  BY SourceAssumption
<1>6. object[cb.src] = "live" /\ (Kind[cb.src] = "timer" => spent[cb.src])
  BY <1>1 DEF CallbackLive, Emit
<1>5. cb' \in Callbacks /\ cb'.src = cb.src
  BY <1>3, <1>4, <1>6 DEF Emit, TypeOK, Callbacks
<1>. QED
  BY <1>2, <1>5, <1>6, CallbackStepInv DEF Emit

LEMMA CallbackReturnsInv ==
    ASSUME Inv, CallbackReturns
    PROVE  Inv'
<1>. USE DEF Inv
<1>1. cb # NoCallback /\ cb.src \in Src
  BY DEF CallbackReturns, TypeOK, CallbackLive
<1>2. NoCallback \in Callbacks /\ NoCallback.src = NoSrc
  BY NoCallbackType DEF NoCallback
<1>3. NoCallback.src # cb.src
  BY <1>1, <1>2, SourceAssumption
<1>6. Kind[cb.src] # "timer" \/ object[cb.src] = "live"
  BY <1>1 DEF LiveReferenced, Referenced
<1>7. /\ UNCHANGED <<spent, exited, loop, fired>>
      /\ \/ /\ Kind[cb.src] = "timer" /\ signals[cb.src] # {}
            /\ DeleteSignal(cb.src, "elapsed", held, NoCallback)
         \/ /\ Kind[cb.src] # "timer" \/ signals[cb.src] = {}
            /\ SetSources(held, rooted, NoCallback, signals, events, active)
  BY <1>6 DEF CallbackReturns
<1>4. CASE /\ Kind[cb.src] = "timer" /\ signals[cb.src] # {}
           /\ DeleteSignal(cb.src, "elapsed", held, NoCallback)
  <2>1. "elapsed" \in signals[cb.src]
    BY <1>1, <1>4, SignalsOf DEF OwnSignals
  <2>. QED
    BY <1>1, <1>2, <1>3, <1>4, <1>7, <2>1, DeleteSignalInv
<1>5. CASE /\ Kind[cb.src] # "timer" \/ signals[cb.src] = {}
           /\ SetSources(held, rooted, NoCallback, signals, events, active)
  <2>1. exited' = exited
    BY <1>7
  <2>2. ASSUME exited, NEW t \in rooted PROVE FALSE
    BY <2>2 DEF TypeOK, LiveReferenced, Referenced, WatchesListeners
  <2>3. IF exited' THEN rooted = {} ELSE rooted = rooted /\ ~exited
    BY <2>1, <2>2
  <2>4. held \in [Src -> BOOLEAN] /\ exited' \in BOOLEAN /\ rooted \in SUBSET rooted
    BY <2>1 DEF TypeOK
  <2>5. \A s \in Src : object[s] = "live" /\ Kind[s] = "periodic" => held[s]
    BY DEF PeriodicHeld
  <2>. QED
    BY <1>2, <1>5, <1>7, <2>3, <2>4, <2>5, LetGoInv
<1>. QED
  BY <1>4, <1>5, <1>7

LEMMA LoopEndsInv ==
    ASSUME Inv, LoopEnds
    PROVE  Inv'
<1>. USE DEF Inv, LoopEnds
<1>1. TypeOK'
  BY DEF TypeOK
<1>2. WatchesListeners' /\ OwnSignals' /\ NothingLeft' /\ PeriodicHeld'
  BY DEF WatchesListeners, OwnSignals, Signals, NothingLeft, PeriodicHeld
<1>3. LiveReferenced' /\ CallbackLive' /\ Elapsed'
  BY DEF LiveReferenced, Referenced, CallbackLive, NoCallback, Elapsed
<1>. QED
  BY <1>1, <1>2, <1>3

LEMMA StutterInv ==
    ASSUME Inv, UNCHANGED vars
    PROVE  Inv'
<1>. USE DEF Inv, vars
<1>1. TypeOK'
  BY DEF TypeOK
<1>2. WatchesListeners' /\ OwnSignals' /\ NothingLeft' /\ PeriodicHeld'
  BY DEF WatchesListeners, OwnSignals, Signals, NothingLeft, PeriodicHeld
<1>3. LiveReferenced' /\ CallbackLive' /\ Elapsed'
  BY DEF LiveReferenced, Referenced, CallbackLive, NoCallback, Elapsed
<1>. QED
  BY <1>1, <1>2, <1>3

LEMMA StepInv ==
    ASSUME Inv, KeepsSources, [Next]_vars
    PROVE  Inv'
<1>1. CASE User
  <2>1. ASSUME NEW s \in Src, CreateIoev(s) \/ CreateTimer(s) \/ CreatePeriodic(s)
        PROVE  Inv'
    BY <2>1, NewSourceInv DEF CreateIoev, CreateTimer, CreatePeriodic
  <2>. QED
    BY <1>1, <2>1, DropInv, ListenInv, UnlistenInv, ExitInv DEF User
<1>2. ASSUME NEW s \in Src, Fire(s) PROVE Inv'
  BY <1>2, FireIoInv, FireTimerInv, FirePeriodicInv DEF Fire
<1>. QED
  BY <1>1, <1>2, EmitInv, CallbackReturnsInv, LoopEndsInv, StutterInv DEF Next

-----------------------------------------------------------------------------
(* Theorems.                                                                 *)

(* What the operations of event.c and main.c keep true together.             *)
THEOREM Invariant ==
    ASSUME KeepsSources
    PROVE  Spec => []Inv
<1>1. Init => Inv
  BY InitInv
<1>2. Inv /\ [Next]_vars => Inv'
  BY StepInv
<1>. QED
  BY <1>1, <1>2, PTL DEF Spec

(* The variables keep their types.                                           *)
THEOREM TypesKept ==
    ASSUME KeepsSources
    PROVE  Spec => []TypeOK
<1>1. Inv => TypeOK
  BY DEF Inv
<1>. QED
  BY <1>1, Invariant, PTL

(* A source watches what is listened to, and is a root while it does; no     *)
(* DI_CHECK of di_start_ioev, di_timer_add_signal or                         *)
(* di_periodic_signal_setter fails, and no callback uses a destroyed source. *)
THEOREM WatchesWhatIsListenedTo ==
    ASSUME KeepsSources
    PROVE  Spec => []WatchesListeners
<1>1. Inv => WatchesListeners
  BY DEF Inv
<1>. QED
  BY <1>1, Invariant, PTL

(* A timer that has fired is left alone when its callback returns: it has no *)
(* listener, is no root and does not fire again (di_timer_callback,          *)
(* di_timer_add_signal).                                                     *)
THEOREM ElapsedTimersLetGo ==
    ASSUME KeepsSources
    PROVE  Spec => []ElapsedLetsGo
<1>1. Inv => ElapsedLetsGo
  BY DEF Inv, ElapsedLetsGo, Elapsed, WatchesListeners
<1>. QED
  BY <1>1, Invariant, PTL
=============================================================================
