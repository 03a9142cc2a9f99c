------------------------------ MODULE Promise ------------------------------
(***************************************************************************)
(* Promises (event.c): settling, chaining, joining, and the dispatch of    *)
(* handlers from the idle watcher of the event module.                     *)
(*                                                                         *)
(* Each then or catch creates one closure and the promise that the closure *)
(* settles, so a closure is named by that promise.  Handlers               *)
(* are user code; they are never called by the operation that settles a    *)
(* promise but by di_idle_cb later, so at most one of them runs at a time. *)
(* Promises stay referenced: a promise nobody holds is not modelled.       *)
(***************************************************************************)
EXTENDS Integers, Sequences, FiniteSets, SequencesExt

CONSTANTS
    Val,        \* values a promise resolves to
    NoVal,      \* no value: unsettled, rejected, or a handler that returned nothing
    Tuple,      \* the value of a join: the results are in `results'
    Budgets,    \* bound: how many promises are made by themselves, by then and
                \* catch, and by join_promises and any_promise: triples of limits
    SelfThen    \* may a handler be registered on the promise being dispatched

ASSUME PromiseAssumption ==
    /\ NoVal \notin Val /\ Tuple \notin Val /\ NoVal # Tuple
    /\ IsFiniteSet(Budgets) /\ Budgets # {} /\ Budgets \subseteq Nat \X Nat \X Nat
    /\ SelfThen \in BOOLEAN

VARIABLES
    status,      \* "free", "unsettled", "resolved" or "rejected"
    value,       \* ___resolved
    handlers,    \* ___handlers: the closures to call, oldest first
    is_pending,  \* its dispatch has been started
    closure,     \* the closure that settles this promise
    results,     \* of a join: the results so far; <<>> for other promises
    left,        \* of a join: the results it waits for
    pending,     \* pending_promise_0 .. pending_count - 1 of the event module
    idle,        \* the idle watcher is active
    rooted,      \* the event module is an anonymous root
    loop,        \* "wait", "idle" (di_idle_cb runs) or "stopped"
    exited,      \* di:exit() was called
    current,     \* the promise di_promise_dispatch works on
    todo,        \* and the closures it has yet to call
    running,     \* the closure whose user handler runs
    calls,       \* history: how often the user handler of a closure was called
    inputs       \* history: the promises a join or an any_promise was given

promiseVars == <<status, value, handlers, is_pending>>
joinVars == <<results, left>>
queueVars == <<pending, idle, rooted>>
loopVars == <<loop, exited, current, todo, running>>
vars == <<promiseVars, closure, joinVars, queueVars, loopVars, calls, inputs>>

(* Promises are numbered in the order they are created.                      *)
Promises == UNION {1 .. b[1] + b[2] + 3 * b[3] : b \in Budgets}
NoPromise == 0
Value == Val \cup {NoVal, Tuple}

(* res and rej are the handlers of a closure, ret and i the promise and the  *)
(* index a join or any handler works for; st is "none" without a closure,    *)
(* "armed", "failed" when its handler could not be called, and "spent" when  *)
(* it has settled its promise.                                               *)
Closure == [res : {"none", "user", "join", "any"}, rej : {"none", "user"},
            ret : Promises \cup {NoPromise}, i : 0 .. 2,
            st : {"none", "armed", "failed", "spent"}]

NoClosure == [res |-> "none", rej |-> "none", ret |-> NoPromise, i |-> 0, st |-> "none"]
UserClosure(res, rej) ==
    [res |-> res, rej |-> rej, ret |-> NoPromise, i |-> 0, st |-> "armed"]
InnerClosure(res, ret, i) ==
    [res |-> res, rej |-> "none", ret |-> ret, i |-> i, st |-> "armed"]

Settled(p) == status[p] \in {"resolved", "rejected"}
AllSettled == {p \in Promises : Settled(p)}
AllPending == {p \in Promises : is_pending[p]}
Exists(p) == status[p] # "free"
Created == Cardinality({p \in Promises : Exists(p)})

(* How often each way to create promises has been used.                      *)
ThensMade == Cardinality({p \in Promises : closure[p].st # "none" /\ closure[p].i = 0})
JoinsMade == Cardinality({p \in Promises : inputs[p] # <<>>})
NewMade == Created - ThensMade - 3 * JoinsMade
Within(new, thens, joins) ==
    \E b \in Budgets : new <= b[1] /\ thens <= b[2] /\ joins <= b[3]
MayJoin ==
    \E b \in Budgets : b[3] > 0 /\ NewMade < b[1] /\ ThensMade <= b[2] /\ JoinsMade <= b[3]
UserCode == loop = "wait" \/ (loop = "idle" /\ running # NoPromise)

(* The promises user code can name: not those a join gets from its thens.    *)
Visible(p) == Exists(p) /\ closure[p].i = 0
MayListen(p) == Visible(p) /\ (SelfThen \/ p # current)

Init ==
    /\ status = [p \in Promises |-> "free"]
    /\ value = [p \in Promises |-> NoVal]
    /\ handlers = [p \in Promises |-> <<>>]
    /\ is_pending = [p \in Promises |-> FALSE]
    /\ closure = [p \in Promises |-> NoClosure]
    /\ results = [p \in Promises |-> <<>>]
    /\ left = [p \in Promises |-> 0]
    /\ pending = <<>>
    /\ idle = FALSE /\ rooted = FALSE
    /\ loop = "wait" /\ exited = FALSE
    /\ current = NoPromise /\ todo = <<>> /\ running = NoPromise
    /\ calls = [p \in Promises |-> 0]
    /\ inputs = [p \in Promises |-> <<>>]

-----------------------------------------------------------------------------
(* Those of at most two promises that are in S, in their order.              *)
Kept(ps, S) ==
    LET At(i) == IF i \in DOMAIN ps /\ ps[i] \in S THEN <<ps[i]>> ELSE <<>>
    IN  At(1) \o At(2)

(* Mutant: the event module is not kept alive for its first pending promise. *)
StartDispatchUnrooted(ps) ==
    LET new == Kept(ps, Promises \ AllPending)
    IN  /\ pending' = pending \o new
        /\ is_pending' = [p \in Promises |-> is_pending[p] \/ p \in ToSet(new)]
        /\ idle' = (idle \/ new # <<>>)
        /\ rooted' = (rooted \/ (Len(pending) = 1 /\ new # <<>> /\ ~exited))

(* di_promise_start_dispatch for the settled promises ps, one after the      *)
(* other.  After di:exit() there are no roots to add the event module to.    *)
StartDispatch(ps) ==
    LET new == Kept(ps, Promises \ AllPending)
    IN  /\ pending' = pending \o new
        /\ is_pending' = [p \in Promises |-> is_pending[p] \/ p \in ToSet(new)]
        /\ idle' = (idle \/ new # <<>>)
        /\ rooted' = (rooted \/ (pending = <<>> /\ new # <<>> /\ ~exited))

(* di_promise_resolve and di_promise_reject, for the promises ps one after   *)
(* the other: the first to settle a promise wins.                            *)
Settle(ps, st, v) ==
    LET new == Kept(ps, Promises \ AllSettled)
    IN  /\ status' = [p \in Promises |-> IF p \in ToSet(new) THEN st ELSE status[p]]
        /\ value' = [p \in Promises |-> IF p \in ToSet(new) THEN v[p] ELSE value[p]]
        /\ StartDispatch(new)

Only(p, v) == [q \in Promises |-> IF q = p THEN v ELSE NoVal]

(* di_new_promise                                                            *)
NewPromise ==
    /\ UserCode /\ Within(NewMade + 1, ThensMade, JoinsMade)
    /\ status' = [status EXCEPT ![Created + 1] = "unsettled"]
    /\ UNCHANGED <<value, handlers, is_pending, closure, joinVars, queueVars,
                   loopVars, calls, inputs>>

(* di_promise_then_inner and di_promise_add_handler, for then (res) and      *)
(* catch (rej); no method of a promise has both.                             *)
Then(p, res, rej) ==
    /\ UserCode /\ MayListen(p) /\ Within(NewMade, ThensMade + 1, JoinsMade)
    /\ {res, rej} = {"none", "user"}
    /\ status' = [status EXCEPT ![Created + 1] = "unsettled"]
    /\ closure' = [closure EXCEPT ![Created + 1] = UserClosure(res, rej)]
    /\ handlers' = [handlers EXCEPT ![p] = Append(@, Created + 1)]
    /\ StartDispatch(IF Settled(p) THEN <<p>> ELSE <<>>)
    /\ UNCHANGED <<value, joinVars, loopVars, calls, inputs>>

Resolve(p, v) ==
    /\ UserCode /\ Visible(p) /\ ~Settled(p)
    /\ Settle(<<p>>, "resolved", Only(p, v))
    /\ UNCHANGED <<handlers, closure, joinVars, loopVars, calls, inputs>>

Reject(p) ==
    /\ UserCode /\ Visible(p) /\ ~Settled(p)
    /\ Settle(<<p>>, "rejected", Only(p, NoVal))
    /\ UNCHANGED <<handlers, closure, joinVars, loopVars, calls, inputs>>

(* The common part of di_join_promises and di_any_promise for the promises p *)
(* and q: a new promise ret, and a handler on each of them by way of `then'. *)
ThenBoth(p, q, res) ==
    LET ret == Created + 1
        t == Created + 2
        u == Created + 3
    IN  /\ UserCode /\ Within(NewMade, ThensMade, JoinsMade + 1)
        /\ MayListen(p) /\ MayListen(q)
        /\ status' = [status EXCEPT ![ret] = "unsettled", ![t] = "unsettled", ![u] = "unsettled"]
        /\ closure' = [closure EXCEPT ![t] = InnerClosure(res, ret, 1), ![u] = InnerClosure(res, ret, 2)]
        /\ handlers' = [[handlers EXCEPT ![p] = Append(@, t)] EXCEPT ![q] = Append(@, u)]
        /\ StartDispatch(Kept(IF p = q THEN <<p>> ELSE <<p, q>>, AllSettled))
        /\ inputs' = [inputs EXCEPT ![ret] = <<p, q>>]
        /\ UNCHANGED <<value, loopVars, calls>>

JoinOf(ret, n) ==
    /\ results' = [results EXCEPT ![ret] = <<NoVal, NoVal>>]
    /\ left' = [left EXCEPT ![ret] = n]

(* Mutant: a join waits for one promise more.                                *)
JoinPromisesTooMany(p, q) == ThenBoth(p, q, "join") /\ JoinOf(Created + 1, 3)

JoinPromises(p, q) == ThenBoth(p, q, "join") /\ JoinOf(Created + 1, 2)

(* The join of no promises resolves at once.                                 *)
JoinNone ==
    /\ UserCode /\ MayJoin
    /\ status' = [status EXCEPT ![Created + 1] = "resolved"]
    /\ value' = [value EXCEPT ![Created + 1] = Tuple]
    /\ StartDispatch(<<Created + 1>>)
    /\ UNCHANGED <<handlers, closure, joinVars, loopVars, calls, inputs>>

AnyPromise(p, q) == ThenBoth(p, q, "any") /\ UNCHANGED joinVars

(* di:exit() drops the roots; the program ends when the loop next collects   *)
(* garbage.                                                                  *)
Exit ==
    /\ UserCode /\ ~exited
    /\ exited' = TRUE /\ rooted' = FALSE
    /\ UNCHANGED <<promiseVars, closure, joinVars, pending, idle, loop, current,
                   todo, running, calls, inputs>>

-----------------------------------------------------------------------------
(* di_idle_cb and what it calls.                                             *)

IdleBegins ==
    /\ loop = "wait" /\ idle
    /\ loop' = "idle" /\ idle' = FALSE
    /\ UNCHANGED <<promiseVars, closure, joinVars, pending, rooted, exited, current,
                   todo, running, calls, inputs>>

(* The promise pending last is dispatched first; its handlers are taken from *)
(* it at once, handlers added from now on are not among them.                *)
PopPending ==
    /\ loop = "idle" /\ current = NoPromise /\ pending # <<>>
    /\ current' = Last(pending)
    /\ pending' = Front(pending)
    /\ todo' = handlers[Last(pending)]
    /\ handlers' = [handlers EXCEPT ![Last(pending)] = <<>>]
    /\ UNCHANGED <<status, value, is_pending, closure, joinVars, idle, rooted,
                   loop, exited, running, calls, inputs>>

Calling == loop = "idle" /\ running = NoPromise /\ todo # <<>>

(* The handler the closure has for what happened to the promise.             *)
HandlerOf(t) == IF status[current] = "resolved" THEN closure[t].res ELSE closure[t].rej

(* di_promise_handler_closure without a handler passes the outcome on, the   *)
(* way a closure whose handler returned a promise works.                     *)
PassOn ==
    /\ Calling
    /\ LET t == Head(todo)
       IN  /\ HandlerOf(t) = "none"
           /\ Settle(<<t>>, status[current], Only(t, value[current]))
           /\ closure' = [closure EXCEPT ![t].res = "none", ![t].rej = "none", ![t].st = "spent"]
    /\ todo' = Tail(todo)
    /\ UNCHANGED <<handlers, joinVars, loop, exited, current, running, calls, inputs>>

(* Mutant: the handlers stay with the closure.                               *)
CallHandlerKeeps ==
    /\ Calling
    /\ LET t == Head(todo)
       IN  /\ HandlerOf(t) = "user"
           /\ running' = t
           /\ calls' = [calls EXCEPT ![t] = @ + 1]
    /\ todo' = Tail(todo)
    /\ UNCHANGED <<promiseVars, closure, joinVars, queueVars, loop, exited, current, inputs>>

(* The handlers leave the closure before one of them is called.              *)
CallHandler ==
    /\ Calling
    /\ LET t == Head(todo)
       IN  /\ HandlerOf(t) = "user"
           /\ closure' = [closure EXCEPT ![t].res = "none", ![t].rej = "none"]
           /\ running' = t
           /\ calls' = [calls EXCEPT ![t] = @ + 1]
    /\ todo' = Tail(todo)
    /\ UNCHANGED <<promiseVars, joinVars, queueVars, loop, exited, current, inputs>>

(* The handler object cannot be called: the error is logged, and the promise *)
(* of the closure stays as it is.                                            *)
HandlerFails ==
    /\ Calling
    /\ LET t == Head(todo)
       IN  /\ HandlerOf(t) = "user"
           /\ closure' = [closure EXCEPT ![t].res = "none", ![t].rej = "none", ![t].st = "failed"]
    /\ todo' = Tail(todo)
    /\ UNCHANGED <<promiseVars, joinVars, queueVars, loop, exited, current,
                   running, calls, inputs>>

(* Mutant: the results are kept in the order the promises resolve.           *)
JoinHandlerInOrder ==
    /\ Calling
    /\ LET t == Head(todo)
           r == closure[t].ret
           done == IF left[r] = 1 THEN <<r, t>> ELSE <<t>>
       IN  /\ HandlerOf(t) = "join"
           /\ results' = [results EXCEPT ![r][3 - left[r]] = value[current]]
           /\ left' = [left EXCEPT ![r] = @ - 1]
           /\ Settle(done, "resolved", Only(r, Tuple))
           /\ closure' = [closure EXCEPT ![t].res = "none", ![t].rej = "none", ![t].st = "spent"]
    /\ todo' = Tail(todo)
    /\ UNCHANGED <<handlers, loop, exited, current, running, calls, inputs>>

(* di_promise_join_handler, then the closure resolves its own promise, with  *)
(* nothing.                                                                  *)
JoinHandler ==
    /\ Calling
    /\ LET t == Head(todo)
           r == closure[t].ret
           done == IF left[r] = 1 THEN <<r, t>> ELSE <<t>>
       IN  /\ HandlerOf(t) = "join"
           /\ results' = [results EXCEPT ![r][closure[t].i] = value[current]]
           /\ left' = [left EXCEPT ![r] = @ - 1]
           /\ Settle(done, "resolved", Only(r, Tuple))
           /\ closure' = [closure EXCEPT ![t].res = "none", ![t].rej = "none", ![t].st = "spent"]
    /\ todo' = Tail(todo)
    /\ UNCHANGED <<handlers, loop, exited, current, running, calls, inputs>>

(* di_any_promise_handler, then the closure as above.                        *)
AnyHandler ==
    /\ Calling
    /\ LET t == Head(todo)
           r == closure[t].ret
       IN  /\ HandlerOf(t) = "any"
           /\ Settle(<<r, t>>, "resolved", Only(r, value[current]))
           /\ closure' = [closure EXCEPT ![t].res = "none", ![t].rej = "none", ![t].st = "spent"]
    /\ todo' = Tail(todo)
    /\ UNCHANGED <<handlers, joinVars, loop, exited, current, running, calls, inputs>>

(* The user handler returns a plain value, or throws.                        *)
HandlerReturns(st, v) ==
    /\ running # NoPromise
    /\ Settle(<<running>>, st, Only(running, v))
    /\ closure' = [closure EXCEPT ![running].st = "spent"]
    /\ running' = NoPromise
    /\ UNCHANGED <<handlers, joinVars, loop, exited, current, todo, calls, inputs>>

(* Mutant: the returned promise is not waited for when it has settled.       *)
HandlerReturnsPromiseLate(q) ==
    /\ running # NoPromise /\ MayListen(q)
    /\ handlers' = [handlers EXCEPT ![q] = Append(@, running)]
    /\ running' = NoPromise
    /\ UNCHANGED <<status, value, is_pending, queueVars, closure, joinVars, loop,
                   exited, current, todo, calls, inputs>>

(* It returns a promise: the closure, now without handlers, waits for it.    *)
HandlerReturnsPromise(q) ==
    /\ running # NoPromise /\ MayListen(q)
    /\ handlers' = [handlers EXCEPT ![q] = Append(@, running)]
    /\ StartDispatch(IF Settled(q) THEN <<q>> ELSE <<>>)
    /\ running' = NoPromise
    /\ UNCHANGED <<status, value, closure, joinVars, loop, exited, current, todo,
                   calls, inputs>>

DispatchEnds ==
    /\ loop = "idle" /\ current # NoPromise
    /\ todo = <<>> /\ running = NoPromise
    /\ is_pending' = [is_pending EXCEPT ![current] = FALSE]
    /\ current' = NoPromise
    /\ UNCHANGED <<status, value, handlers, closure, joinVars, queueVars, loop,
                   exited, todo, running, calls, inputs>>

IdleEnds ==
    /\ loop = "idle" /\ current = NoPromise /\ pending = <<>>
    /\ loop' = "wait" /\ rooted' = FALSE
    /\ UNCHANGED <<promiseVars, closure, joinVars, pending, idle, exited, current,
                   todo, running, calls, inputs>>

(* External: when the event module is no root, no other event source may be  *)
(* one either; di_prepare then collects the whole program and the loop ends. *)
LoopEnds ==
    /\ loop = "wait" /\ ~rooted
    /\ loop' = "stopped"
    /\ UNCHANGED <<promiseVars, closure, joinVars, queueVars, exited, current,
                   todo, running, calls, inputs>>

User ==
    \/ NewPromise \/ JoinNone \/ Exit
    \/ \E p \in Promises :
         \/ Reject(p)
         \/ \E v \in Val : Resolve(p, v)
         \/ \E res, rej \in {"none", "user"} : Then(p, res, rej)
         \/ \E q \in Promises : JoinPromises(p, q) \/ AnyPromise(p, q)

System ==
    \/ IdleBegins \/ PopPending \/ PassOn \/ CallHandler \/ HandlerFails
    \/ JoinHandler \/ AnyHandler \/ DispatchEnds \/ IdleEnds
    \/ \E v \in Val : HandlerReturns("resolved", v)
    \/ HandlerReturns("rejected", NoVal)
    \/ \E q \in Promises : HandlerReturnsPromise(q)

Next == User \/ System \/ LoopEnds

Spec == Init /\ [][Next]_vars

(* Handlers return, di_idle_cb goes on, and the loop has an iteration        *)
(* without other events, the one libev calls idle watchers in.               *)
FairSpec == Spec /\ WF_vars(System)

-----------------------------------------------------------------------------
(* Properties.                                                               *)

(* The type invariant.                                                       *)
TypeOK ==
    /\ status \in [Promises -> {"free", "unsettled", "resolved", "rejected"}]
    /\ value \in [Promises -> Value]
    /\ handlers \in [Promises -> Seq(Promises)]
    /\ is_pending \in [Promises -> BOOLEAN]
    /\ closure \in [Promises -> Closure]
    /\ results \in [Promises -> Seq(Value)]
    /\ left \in [Promises -> Nat]
    /\ pending \in Seq(Promises)
    /\ idle \in BOOLEAN /\ rooted \in BOOLEAN /\ exited \in BOOLEAN
    /\ loop \in {"wait", "idle", "stopped"}
    /\ current \in Promises \cup {NoPromise}
    /\ todo \in Seq(Promises)
    /\ running \in Promises \cup {NoPromise}
    /\ calls \in [Promises -> Nat]
    /\ inputs \in [Promises -> Seq(Promises)]

(* No handler is forgotten: a settled promise with handlers is in the queue, *)
(* the idle watcher will come for the queue, and the event module is a root  *)
(* until then, so that the program does not end before.                      *)
HandlersQueued ==
    /\ \A p \in Promises : Settled(p) /\ handlers[p] # <<>> => p \in ToSet(pending)
    /\ pending # <<>> /\ loop = "wait" => idle /\ (rooted \/ exited)
    /\ loop = "stopped" /\ pending # <<>> => exited

(* A handler is called at most once, and a closure waits for one promise at  *)
(* a time, with its promise still to settle: di_promise_handler_closure      *)
(* aborts without it.                                                        *)
Waiting(t) == {p \in Promises : t \in ToSet(handlers[p])}
CalledOnce ==
    \A t \in Promises :
        /\ calls[t] <= 1
        /\ Cardinality(Waiting(t)) + (IF t \in ToSet(todo) THEN 1 ELSE 0) <= 1
        /\ Waiting(t) # {} \/ t \in ToSet(todo) => closure[t].st = "armed"

(* join_promises resolves with the results in the order of the promises it   *)
(* was given, each of them resolved, whatever order they resolved in.        *)
JoinExact ==
    \A r \in Promises : value[r] = Tuple /\ results[r] # <<>> =>
        \A i \in DOMAIN inputs[r] :
            /\ status[inputs[r][i]] = "resolved"
            /\ results[r][i] = value[inputs[r][i]]

(* "the handler will always be called after being registered" (the           *)
(* documentation of di_promise_then): once the promise has settled, its      *)
(* closures get their turn and settle theirs, wait for a promise the handler *)
(* returned, or have failed; unless di:exit() ends the program.              *)
ChainsSettle ==
    \A t \in Promises :
        (\E p \in Waiting(t) : Settled(p)) ~>
            \/ Settled(t) \/ closure[t].st = "failed" \/ exited
            \/ \E q \in Waiting(t) : ~Settled(q)

(* A join whose promises all resolve resolves, and so does an any_promise    *)
(* one of whose promises resolves.                                           *)
JoinResolves ==
    \A r \in Promises :
        (\/ results[r] # <<>> /\ \A p \in ToSet(inputs[r]) : status[p] = "resolved"
         \/ results[r] = <<>> /\ \E p \in ToSet(inputs[r]) : status[p] = "resolved")
            ~> Settled(r) \/ exited
=============================================================================
