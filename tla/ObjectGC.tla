------------------------------ MODULE ObjectGC ------------------------------
(***************************************************************************)
(* The object heap of deai (object.c): reference counts, weak references,  *)
(* destruction, and the collector of reference cycles.                     *)
(*                                                                         *)
(* The program is single threaded, so the only interleaving is the one the *)
(* C stack allows: dropping the last reference to an object destroys it at *)
(* once, destruction drops the references its members hold (recursively),  *)
(* and a destructor is user code that may use the heap again, both in an   *)
(* ordinary destruction and in the middle of a garbage collection.  The    *)
(* variable `stack' is that C stack; the code's recursion over the object  *)
(* graph (di_scan_type, di_finalize_object_inner) is one step per member.  *)
(*                                                                         *)
(* A strong reference is owned by a member of an object (`members'), by    *)
(* code outside the object graph - a C local, a Lua proxy, an anonymous    *)
(* root - (`ext'), or by a running function of object.c (see Holds).       *)
(***************************************************************************)
EXTENDS Integers, Sequences, FiniteSets

CONSTANTS
    Obj,         \* addresses an object can be allocated at
    NoObj,       \* an absent member
    MaxMembers,  \* members an object can have; slot order is insertion order
    MaxExt,      \* bound: strong references to one object held by user code
    MaxWeak,     \* bound: weak references to one object held by user code
    Dtors,       \* whether the objects user code creates have a destructor
    MaxDtorOps,  \* bound: heap operations one destructor performs
    Reenters,       \* user code uses a member that object.c is just replacing,
                    \* or deletes one that object.c comes to next
    UsesScheduled   \* a destructor keeps a reference to an object that is
                    \* being collected with its own

ASSUME HeapAssumption ==
    /\ IsFiniteSet(Obj)
    /\ NoObj \notin Obj
    /\ MaxMembers \in Nat /\ MaxExt \in Nat /\ MaxWeak \in Nat
    /\ Dtors \subseteq BOOLEAN
    /\ MaxDtorOps \in Nat
    /\ Reenters \in BOOLEAN /\ UsesScheduled \in BOOLEAN

VARIABLES
    state,               \* "free", "live", "dying" (destroyed = 1, members
                         \* being removed) or "zombie" (only weak references)
    ref_count,
    weak_ref_count,
    members,             \* the object each slot refers to, or NoObj
    dtor,                \* the object still has a destructor to call
    mark,                \* 0, 1 counted, 2 to be collected, 3 being collected
    ref_count_scan,      \* references found by the collector's marking
    unreferred_objects,  \* list: objects unreferenced since the last collection
    isolated_roots,      \* list: the roots of the running collection
    cursor,              \* position of the scan in isolated_roots
    ext, weak,           \* strong and weak references user code owns
    gc,                  \* phase of di_collect_garbage
    stack                \* frames of the running C code

objVars == <<state, ref_count, weak_ref_count, members, dtor>>
scanVars == <<mark, ref_count_scan>>
listVars == <<unreferred_objects, isolated_roots>>
ownVars == <<ext, weak>>
gcVars == <<gc, cursor>>
vars == <<objVars, scanVars, listVars, ownVars, gcVars, stack>>

Slot == 1 .. MaxMembers
Phase == {"idle", "mark", "scan", "collect"}

(* A frame works on object o and is about to look at slot k.  st: in "mark", *)
(* 1 for the root of the traversal; in "scan", the revive state handed to    *)
(* the members; in "fin", who finalizes: 0 di_destroy_object, 1 the          *)
(* collector, 2 di_finalize_object; in "dtor" k counts the operations left.  *)
(* di_setx is two frames, "value" for the new value and, above it, "set" for *)
(* the object and the slot it sets.                                          *)
Frame == [op : {"mark", "scan", "collect", "fin", "dtor", "set", "value"},
          o : Obj, k : Nat, st : {0, 1, 2}]

(* The references the caller of di_finalize_object or di_setx owns and goes  *)
(* on owning.                                                                *)
Returns(f) == f.op \in {"set", "value"} \/ (f.op = "fin" /\ f.st = 2)

(* The frames that own a reference to their object: these callers, and the   *)
(* collector from di_collect_garbage_collect_pre on.                         *)
Holds(f) == f.op \in {"collect", "set", "value"} \/ (f.op = "fin" /\ f.st # 0)

Top == stack[Len(stack)]
Pop(s) == SubSeq(s, 1, Len(s) - 1)
NextSlot(s) == [s EXCEPT ![Len(s)].k = @ + 1]
MoveTo(n) == [stack EXCEPT ![Len(stack)].k = n]
Running(op) == Len(stack) > 0 /\ Top.op = op
Member == members[Top.o][Top.k]

(* uthash keeps the members in insertion order.  The member after slot k.    *)
NextMember(p, k) ==
    CHOOSE n \in k + 1 .. MaxMembers + 1 :
        /\ n \in Slot => members[p][n] # NoObj
        /\ \A j \in k + 1 .. n - 1 : members[p][j] = NoObj

(* The loops over members that run user code keep a pointer to the member    *)
(* they come to next (next_m, the tmpm of HASH_ITER).                        *)
Saved(p, k) == \E i \in DOMAIN stack :
    stack[i].op \in {"fin", "collect"} /\ stack[i].o = p /\ stack[i].k = k

(* di_setx is destroying the old value of the member, which the member still *)
(* names: that is the object of the frame above.                             *)
Setting(i, p, k) == stack[i].op = "set" /\ stack[i].o = p /\ stack[i].k = k
Stale(p, k) == \E i \in DOMAIN stack : Setting(i, p, k)
Named(p, k) ==
    IF Stale(p, k)
    THEN stack[(CHOOSE i \in DOMAIN stack : Setting(i, p, k)) + 1].o
    ELSE members[p][k]

(* The intrusive lists: an object is in one list at most, and once.          *)
InList(list, o) == \E i \in DOMAIN list : list[i] = o
Position(list, o) == CHOOSE i \in DOMAIN list : list[i] = o
Without(list, o) ==
    IF InList(list, o)
    THEN SubSeq(list, 1, Position(list, o) - 1)
         \o SubSeq(list, Position(list, o) + 1, Len(list))
    ELSE list
Listed(o) == InList(unreferred_objects, o) \/ InList(isolated_roots, o)

(* User code runs in the main loop or in a destructor, which is a finite     *)
(* program; the collector never runs it while it marks or scans.             *)
UserCode ==
    \/ gc = "idle" /\ stack = <<>>
    \/ Running("dtor") /\ Top.k > 0

(* User code works on objects it holds; a destructor is given its object     *)
(* without a reference.                                                      *)
Given(p) == Running("dtor") /\ Top.o = p
Reaches(p) == ext[p] > 0 \/ Given(p)

(* User code may keep a reference to o.  (One to an object that is being     *)
(* destroyed could not be dropped again, see di_unref_object; di_get looks   *)
(* at no mark, so an object scheduled for destruction can be kept.)          *)
Keepable(o) ==
    /\ ext[o] < MaxExt
    /\ mark[o] \in {2, 3} => UsesScheduled

(* The C stack after one heap operation of user code.                        *)
AfterOp ==
    IF stack = <<>> THEN stack ELSE [stack EXCEPT ![Len(stack)].k = @ - 1]

Init ==
    /\ state = [o \in Obj |-> "free"]
    /\ ref_count = [o \in Obj |-> 0]
    /\ weak_ref_count = [o \in Obj |-> 0]
    /\ members = [o \in Obj |-> [k \in Slot |-> NoObj]]
    /\ dtor = [o \in Obj |-> FALSE]
    /\ mark = [o \in Obj |-> 0]
    /\ ref_count_scan = [o \in Obj |-> 0]
    /\ unreferred_objects = <<>> /\ isolated_roots = <<>>
    /\ cursor = 0
    /\ ext = [o \in Obj |-> 0]
    /\ weak = [o \in Obj |-> 0]
    /\ gc = "idle"
    /\ stack = <<>>

-----------------------------------------------------------------------------
(* Reference counting.                                                       *)

(* di_unref_object once ref_count is decremented: destroy the object with    *)
(* the last reference, otherwise remember it as a possible root of a garbage *)
(* cycle.  s is the stack the caller continues with.                         *)
AfterUnref(o, s) ==
    IF ref_count[o] = 1
    THEN /\ unreferred_objects' = Without(unreferred_objects, o)
         /\ isolated_roots' = Without(isolated_roots, o)
         /\ state' = [state EXCEPT ![o] = "dying"]
         /\ stack' = Append(s, [op |-> "fin", o |-> o, k |-> 0, st |-> 0])
    ELSE /\ unreferred_objects' =
              IF mark[o] = 0 /\ ~Listed(o)
              THEN <<o>> \o unreferred_objects ELSE unreferred_objects
         /\ stack' = s
         /\ UNCHANGED <<isolated_roots, state>>

UnrefObject(o, s) ==
    /\ ref_count' = [ref_count EXCEPT ![o] = @ - 1]
    /\ AfterUnref(o, s)

(* di_decrement_weak_ref_count: the memory goes with the last weak           *)
(* reference; `after' is the state of an object that keeps some.             *)
DecrementWeak(o, after) ==
    LET freed == weak_ref_count[o] = 1
    IN  /\ weak_ref_count' = [weak_ref_count EXCEPT ![o] = @ - 1]
        /\ state' = [state EXCEPT ![o] = IF freed THEN "free" ELSE after]
        /\ mark' = [mark EXCEPT ![o] = IF freed THEN 0 ELSE @]
        /\ ref_count_scan' = [ref_count_scan EXCEPT ![o] = IF freed THEN 0 ELSE @]

(* Mutant: the strong references hold no weak reference.                     *)
NewObjectNoWeak(o, d) ==
    /\ UserCode
    /\ state[o] = "free"
    /\ state' = [state EXCEPT ![o] = "live"]
    /\ ref_count' = [ref_count EXCEPT ![o] = 1]
    /\ dtor' = [dtor EXCEPT ![o] = d]
    /\ ext' = [ext EXCEPT ![o] = 1]
    /\ stack' = AfterOp
    /\ UNCHANGED <<weak_ref_count, members, scanVars, listVars, weak, gcVars>>

(* di_new_object, di_init_object: the creator owns the first reference; a    *)
(* weak reference stands for all the strong ones.                            *)
NewObject(o, d) ==
    /\ UserCode
    /\ state[o] = "free"
    /\ state' = [state EXCEPT ![o] = "live"]
    /\ ref_count' = [ref_count EXCEPT ![o] = 1]
    /\ weak_ref_count' = [weak_ref_count EXCEPT ![o] = 1]
    /\ dtor' = [dtor EXCEPT ![o] = d]
    /\ ext' = [ext EXCEPT ![o] = 1]
    /\ stack' = AfterOp
    /\ UNCHANGED <<members, scanVars, listVars, weak, gcVars>>

(* di_ref_object on an object user code works on.                            *)
RefObject(o) ==
    /\ UserCode
    /\ Reaches(o) /\ Keepable(o) /\ state[o] = "live"
    /\ ref_count' = [ref_count EXCEPT ![o] = @ + 1]
    /\ ext' = [ext EXCEPT ![o] = @ + 1]
    /\ stack' = AfterOp
    /\ UNCHANGED <<state, weak_ref_count, members, dtor, scanVars, listVars,
                   weak, gcVars>>

(* di_unref_object on a reference user code holds.                           *)
DropRef(o) ==
    /\ UserCode
    /\ ext[o] > 0
    /\ ext' = [ext EXCEPT ![o] = @ - 1]
    /\ UnrefObject(o, AfterOp)
    /\ UNCHANGED <<weak_ref_count, members, dtor, scanVars, weak, gcVars>>

(* A reference taken and dropped again, while another one exists: all that   *)
(* is left of it is that the object may be a garbage root from now on.       *)
RefUnref(o) ==
    unreferred_objects' = IF mark[o] = 0 /\ ~Listed(o)
                          THEN <<o>> \o unreferred_objects ELSE unreferred_objects

(* A new member comes after all others.                                      *)
Unused(p, k) == members[p][k] = NoObj /\ ~Stale(p, k)
Appends(p, k) == \A j \in k .. MaxMembers : Unused(p, j)

(* di_add_member_clone: the member takes a reference of its own, which is    *)
(* dropped again when the name is taken.                                     *)
AddMember(p, k, o) ==
    /\ UserCode
    /\ Reaches(p) /\ ext[o] > 0
    /\ \/ /\ Appends(p, k)
          /\ members' = [members EXCEPT ![p][k] = o]
          /\ ref_count' = [ref_count EXCEPT ![o] = @ + 1]
          /\ UNCHANGED unreferred_objects
       \/ /\ ~Unused(p, k)
          /\ RefUnref(o)
          /\ UNCHANGED <<members, ref_count>>
    /\ stack' = AfterOp
    /\ UNCHANGED <<state, weak_ref_count, dtor, scanVars, isolated_roots,
                   ownVars, gcVars>>

(* di_add_member_move: the member takes the caller's reference over; when    *)
(* the name is taken the value is freed instead.  The caller goes on using   *)
(* p, so the reference it gives away is not the one that keeps p alive.      *)
MoveMember(p, k, o) ==
    /\ UserCode
    /\ ext[o] > 0
    /\ Given(p) \/ ext[p] > IF p = o THEN 1 ELSE 0
    /\ ext' = [ext EXCEPT ![o] = @ - 1]
    /\ \/ /\ Appends(p, k)
          /\ members' = [members EXCEPT ![p][k] = o]
          /\ stack' = AfterOp
          /\ UNCHANGED <<ref_count, state, listVars>>
       \/ /\ ~Unused(p, k)
          /\ UnrefObject(o, AfterOp)
          /\ UNCHANGED members
    /\ UNCHANGED <<weak_ref_count, dtor, scanVars, weak, gcVars>>

SetFrames(s, p, k, o) ==
    Append(Append(s, [op |-> "value", o |-> o, k |-> 0, st |-> 0]),
           [op |-> "set", o |-> p, k |-> k, st |-> 0])

(* di_setx on a member without setter or deleter: drop the old value, which  *)
(* may run its destructor, and then copy the new one in its place.  The      *)
(* caller's references to the object and to the new value last until then.   *)
SetMember(p, k, o) ==
    /\ UserCode
    /\ ext[o] > 0 /\ ext[p] > IF p = o THEN 1 ELSE 0
    /\ members[p][k] # NoObj
    /\ ext' = [[ext EXCEPT ![o] = @ - 1] EXCEPT ![p] = @ - 1]
    /\ members' = [members EXCEPT ![p][k] = NoObj]
    /\ UnrefObject(members[p][k], SetFrames(AfterOp, p, k, o))
    /\ UNCHANGED <<weak_ref_count, dtor, scanVars, weak, gcVars>>

StoreMember ==
    /\ Running("set")
    /\ LET o == stack[Len(stack) - 1].o
       IN  /\ members' = [members EXCEPT ![Top.o][Top.k] = o]
           /\ ref_count' = [ref_count EXCEPT ![o] = @ + 1]
           /\ ext' = [[ext EXCEPT ![o] = @ + 1] EXCEPT ![Top.o] = @ + 1]
    /\ stack' = Pop(Pop(stack))
    /\ UNCHANGED <<state, weak_ref_count, dtor, scanVars, listVars, weak, gcVars>>

(* di_delete_member_raw: remove the member, then free the value it held.     *)
DeleteMember(p, k) ==
    /\ UserCode
    /\ Reaches(p)
    /\ members[p][k] # NoObj
    /\ Saved(p, k) => Reenters
    /\ members' = [members EXCEPT ![p][k] = NoObj]
    /\ UnrefObject(members[p][k], AfterOp)
    /\ UNCHANGED <<weak_ref_count, dtor, scanVars, ownVars, gcVars>>

(* di_rawgetx: the caller gets a reference of its own to the member.         *)
GetMember(p, k) ==
    /\ UserCode
    /\ Reaches(p)
    /\ Stale(p, k) => Reenters
    /\ LET o == Named(p, k)
       IN  /\ o # NoObj
           /\ Keepable(o)
           /\ ref_count' = [ref_count EXCEPT ![o] = @ + 1]
           /\ ext' = [ext EXCEPT ![o] = @ + 1]
    /\ stack' = AfterOp
    /\ UNCHANGED <<state, weak_ref_count, members, dtor, scanVars, listVars,
                   weak, gcVars>>

(* A destructor reads a member of the object it is called for and lets go of *)
(* it again: a reference and an unreference, the second of which may list    *)
(* the member as a possible garbage root.                                    *)
DtorUsesMember(k) ==
    /\ Running("dtor") /\ Top.k > 0
    /\ LET o == members[Top.o][k]
       IN  /\ o # NoObj
           /\ RefUnref(o)
    /\ stack' = AfterOp
    /\ UNCHANGED <<objVars, scanVars, isolated_roots, ownVars, gcVars>>

(* di_weakly_ref_object                                                      *)
WeaklyRef(o) ==
    /\ UserCode
    /\ ext[o] > 0 /\ weak[o] < MaxWeak
    /\ weak' = [weak EXCEPT ![o] = @ + 1]
    /\ weak_ref_count' = [weak_ref_count EXCEPT ![o] = @ + 1]
    /\ stack' = AfterOp
    /\ UNCHANGED <<state, ref_count, members, dtor, scanVars, listVars,
                   ext, gcVars>>

(* Mutant: an object scheduled for destruction can be revived.               *)
UpgradableMarked(o) == ref_count[o] > 0 /\ state[o] = "live"

(* di_upgrade_weak_ref gives a reference unless the object is gone or the    *)
(* collector has scheduled it for destruction.                               *)
Upgradable(o) == ref_count[o] > 0 /\ state[o] = "live" /\ mark[o] \notin {2, 3}

UpgradeWeakRef(o) ==
    /\ UserCode
    /\ weak[o] > 0 /\ ext[o] < MaxExt
    /\ Upgradable(o)
    /\ ref_count' = [ref_count EXCEPT ![o] = @ + 1]
    /\ ext' = [ext EXCEPT ![o] = @ + 1]
    /\ stack' = AfterOp
    /\ UNCHANGED <<state, weak_ref_count, members, dtor, scanVars, listVars,
                   weak, gcVars>>

(* di_drop_weak_ref                                                          *)
DropWeakRef(o) ==
    /\ UserCode
    /\ weak[o] > 0
    /\ weak' = [weak EXCEPT ![o] = @ - 1]
    /\ DecrementWeak(o, state[o])
    /\ stack' = AfterOp
    /\ UNCHANGED <<ref_count, members, dtor, listVars, ext, gcVars>>

-----------------------------------------------------------------------------
(* Finalization: di_finalize_object_inner, for di_destroy_object and for the *)
(* collector.                                                                *)

(* di_finalize_object: finalize an object the caller holds and goes on       *)
(* holding, as a connection's disconnect method does.                        *)
Finalize(o) ==
    /\ UserCode
    /\ ext[o] > 0
    /\ (\E k \in Slot : Saved(o, k) \/ Stale(o, k)) => Reenters
    /\ ext' = [ext EXCEPT ![o] = @ - 1]
    /\ stack' = Append(AfterOp, [op |-> "fin", o |-> o, k |-> 0, st |-> 2])
    /\ UNCHANGED <<objVars, scanVars, listVars, weak, gcVars>>

(* The destructor runs first, at most once, with the members still there,    *)
(* and may change them.                                                      *)
CallDtor ==
    /\ Running("fin") /\ Top.k = 0
    /\ dtor' = [dtor EXCEPT ![Top.o] = FALSE]
    /\ stack' = IF dtor[Top.o]
                THEN Append(stack, [op |-> "dtor", o |-> Top.o, k |-> MaxDtorOps, st |-> 0])
                ELSE MoveTo(NextMember(Top.o, 0))
    /\ UNCHANGED <<state, ref_count, weak_ref_count, members, scanVars,
                   listVars, ownVars, gcVars>>

DtorReturns ==
    /\ Running("dtor")
    /\ stack' = Pop(stack)
    /\ UNCHANGED <<objVars, scanVars, listVars, ownVars, gcVars>>

(* Mutant: the next member is fetched once more than needed.                 *)
FreeMemberSkipsOne ==
    /\ Running("fin") /\ Top.k \in Slot
    /\ Member # NoObj
    /\ members' = [members EXCEPT ![Top.o][Top.k] = NoObj]
    /\ LET n == NextMember(Top.o, Top.k)
       IN  UnrefObject(Member, MoveTo(IF n \in Slot THEN NextMember(Top.o, n) ELSE n))
    /\ UNCHANGED <<weak_ref_count, dtor, scanVars, ownVars, gcVars>>

(* di_remove_member_raw_impl and di_free_variant, one member at a time; the  *)
(* next one is remembered before the value is freed.                         *)
FreeMember ==
    /\ Running("fin") /\ Top.k \in Slot
    /\ Member # NoObj
    /\ members' = [members EXCEPT ![Top.o][Top.k] = NoObj]
    /\ UnrefObject(Member, MoveTo(NextMember(Top.o, Top.k)))
    /\ UNCHANGED <<weak_ref_count, dtor, scanVars, ownVars, gcVars>>

(* The end of di_destroy_object: drop the weak reference of the strong ones. *)
Destroyed ==
    /\ Running("fin") /\ Top.k > MaxMembers /\ Top.st = 0
    /\ DecrementWeak(Top.o, "zombie")
    /\ stack' = Pop(stack)
    /\ UNCHANGED <<ref_count, members, dtor, listVars, ownVars, gcVars>>

(* The end of di_collect_garbage_collect_post: drop the collector's          *)
(* reference, often the last one.                                            *)
Collected ==
    /\ Running("fin") /\ Top.k > MaxMembers /\ Top.st = 1
    /\ UnrefObject(Top.o, Pop(stack))
    /\ UNCHANGED <<weak_ref_count, members, dtor, scanVars, ext, weak, gcVars>>

(* di_finalize_object returns.                                               *)
Finalized ==
    /\ Running("fin") /\ Top.k > MaxMembers /\ Top.st = 2
    /\ ext' = [ext EXCEPT ![Top.o] = @ + 1]
    /\ stack' = Pop(stack)
    /\ UNCHANGED <<objVars, scanVars, listVars, weak, gcVars>>

-----------------------------------------------------------------------------
(* The collector: di_collect_garbage and di_scan_type with the callbacks of  *)
(* its three stages.                                                         *)

(* Mutant: an object another root reaches stays an isolated root.            *)
MarkVisitKeepsRoot(o, s, isRoot) ==
    /\ unreferred_objects' = Without(unreferred_objects, o)
    /\ ref_count_scan' = [ref_count_scan EXCEPT ![o] = @ + 1]
    /\ mark' = [mark EXCEPT ![o] = 1]
    /\ stack' = IF mark[o] = 1 THEN s
                ELSE Append(s, [op |-> "mark", o |-> o, k |-> 1, st |-> isRoot])
    /\ UNCHANGED isolated_roots

(* Stage 1, di_collect_garbage_mark: count the references to o that can be   *)
(* reached from the unreferenced objects; an object found here is no root.   *)
MarkVisit(o, s, isRoot) ==
    /\ unreferred_objects' = Without(unreferred_objects, o)
    /\ isolated_roots' = Without(isolated_roots, o)
    /\ ref_count_scan' = [ref_count_scan EXCEPT ![o] = @ + 1]
    /\ mark' = [mark EXCEPT ![o] = 1]
    /\ stack' = IF mark[o] = 1 THEN s
                ELSE Append(s, [op |-> "mark", o |-> o, k |-> 1, st |-> isRoot])

(* The first iteration of the outer loop; the main loop collects before it   *)
(* waits for events (di_prepare), so never inside a destructor.              *)
StartCollect ==
    /\ gc = "idle" /\ stack = <<>>
    /\ unreferred_objects # <<>>
    /\ gc' = "mark"
    /\ UNCHANGED <<objVars, scanVars, listVars, ownVars, cursor, stack>>

MarkRoot ==
    /\ gc = "mark" /\ stack = <<>>
    /\ unreferred_objects # <<>>
    /\ MarkVisit(Head(unreferred_objects), stack, 1)
    /\ UNCHANGED <<objVars, ownVars, gcVars>>

MarkMember ==
    /\ Running("mark") /\ Top.k \in Slot
    /\ \/ /\ Member = NoObj
          /\ stack' = NextSlot(stack)
          /\ UNCHANGED <<scanVars, listVars>>
       \/ /\ Member # NoObj
          /\ MarkVisit(Member, NextSlot(stack), 0)
    /\ UNCHANGED <<objVars, ownVars, gcVars>>

(* Mutant: the list a traversal starts from counts as a reference.           *)
MarkEndCountsList ==
    /\ Running("mark") /\ Top.k > MaxMembers
    /\ stack' = Pop(stack)
    /\ isolated_roots' =
         IF Top.st = 1 THEN <<Top.o>> \o isolated_roots ELSE isolated_roots
    /\ UNCHANGED <<objVars, scanVars, unreferred_objects, ownVars, gcVars>>

(* A traversal is over; the list it started from is no reference, and its    *)
(* root joins the isolated ones.                                             *)
MarkEnd ==
    /\ Running("mark") /\ Top.k > MaxMembers
    /\ stack' = Pop(stack)
    /\ \/ /\ Top.st = 1
          /\ ref_count_scan' = [ref_count_scan EXCEPT ![Top.o] = @ - 1]
          /\ isolated_roots' = <<Top.o>> \o isolated_roots
       \/ /\ Top.st = 0
          /\ UNCHANGED <<ref_count_scan, isolated_roots>>
    /\ UNCHANGED <<objVars, mark, unreferred_objects, ownVars, gcVars>>

StartScan ==
    /\ gc = "mark" /\ stack = <<>>
    /\ unreferred_objects = <<>>
    /\ gc' = "scan" /\ cursor' = 1
    /\ UNCHANGED <<objVars, scanVars, listVars, ownVars, stack>>

(* Mutant: an object in use does not revive what it refers to.               *)
ScanVisitNoRevive(o, revive, s) ==
    IF ref_count_scan[o] # ref_count[o]
    THEN /\ mark' = [mark EXCEPT ![o] = 0]
         /\ ref_count_scan' = [ref_count_scan EXCEPT ![o] = IF mark[o] = 0 THEN @ ELSE 0]
         /\ stack' = IF mark[o] = 0 THEN s
                     ELSE Append(s, [op |-> "scan", o |-> o, k |-> 1, st |-> 1])
    ELSE /\ mark' = [mark EXCEPT ![o] = IF @ = 0 THEN 0 ELSE 2]
         /\ stack' = IF mark[o] \in {0, 2} THEN s
                     ELSE Append(s, [op |-> "scan", o |-> o, k |-> 1, st |-> 0])
         /\ UNCHANGED ref_count_scan

(* Stage 2, di_collect_garbage_scan: an object with a reference the marking  *)
(* did not find is in use, and revives everything it refers to.              *)
ScanVisit(o, revive, s) ==
    LET inUse == revive = 1 \/ ref_count_scan[o] # ref_count[o]
    IN  IF inUse
        THEN /\ mark' = [mark EXCEPT ![o] = 0]
             /\ ref_count_scan' = [ref_count_scan EXCEPT ![o] = IF mark[o] = 0 THEN @ ELSE 0]
             /\ stack' = IF mark[o] = 0 THEN s
                         ELSE Append(s, [op |-> "scan", o |-> o, k |-> 1, st |-> 1])
        ELSE /\ mark' = [mark EXCEPT ![o] = IF @ = 0 THEN 0 ELSE 2]
             /\ stack' = IF mark[o] \in {0, 2} THEN s
                         ELSE Append(s, [op |-> "scan", o |-> o, k |-> 1, st |-> 0])
             /\ UNCHANGED ref_count_scan

ScanRoot ==
    /\ gc = "scan" /\ stack = <<>>
    /\ cursor \in DOMAIN isolated_roots
    /\ cursor' = cursor + 1
    /\ ScanVisit(isolated_roots[cursor], 0, stack)
    /\ UNCHANGED <<objVars, listVars, ownVars, gc>>

ScanMember ==
    /\ Running("scan") /\ Top.k \in Slot
    /\ \/ /\ Member = NoObj
          /\ stack' = NextSlot(stack)
          /\ UNCHANGED scanVars
       \/ /\ Member # NoObj
          /\ ScanVisit(Member, Top.st, NextSlot(stack))
    /\ UNCHANGED <<objVars, listVars, ownVars, gcVars>>

ScanEnd ==
    /\ Running("scan") /\ Top.k > MaxMembers
    /\ stack' = Pop(stack)
    /\ UNCHANGED <<objVars, scanVars, listVars, ownVars, gcVars>>

(* The revived roots leave the list before anything is finalized.            *)
DropRevived ==
    /\ gc = "scan" /\ stack = <<>>
    /\ cursor \notin DOMAIN isolated_roots
    /\ \E i \in DOMAIN isolated_roots :
         /\ mark[isolated_roots[i]] # 2
         /\ isolated_roots' = Without(isolated_roots, isolated_roots[i])
    /\ UNCHANGED <<objVars, scanVars, unreferred_objects, ownVars, gcVars, stack>>

(* Mutant: the revived roots stay in the list.                               *)
StartFinalizeKeepsRevived ==
    /\ gc = "scan" /\ stack = <<>>
    /\ cursor \notin DOMAIN isolated_roots
    /\ gc' = "collect" /\ cursor' = 0
    /\ UNCHANGED <<objVars, scanVars, listVars, ownVars, stack>>

StartFinalize ==
    /\ gc = "scan" /\ stack = <<>>
    /\ cursor \notin DOMAIN isolated_roots
    /\ \A i \in DOMAIN isolated_roots : mark[isolated_roots[i]] = 2
    /\ gc' = "collect" /\ cursor' = 0
    /\ UNCHANGED <<objVars, scanVars, listVars, ownVars, stack>>

(* Mutant: the collector holds no reference to what it finalizes.            *)
CollectVisitNoRef(o, s) ==
    IF mark[o] \in {0, 3}
    THEN /\ stack' = s
         /\ UNCHANGED <<mark, ref_count>>
    ELSE /\ mark' = [mark EXCEPT ![o] = 3]
         /\ stack' = Append(s, [op |-> "collect", o |-> o, k |-> NextMember(o, 0), st |-> 0])
         /\ UNCHANGED ref_count

(* Stage 3, di_collect_garbage_collect_pre: the collector takes a reference  *)
(* so that an object is not destroyed before its own finalization.           *)
CollectVisit(o, s) ==
    IF mark[o] \in {0, 3}
    THEN /\ stack' = s
         /\ UNCHANGED <<mark, ref_count>>
    ELSE /\ ref_count' = [ref_count EXCEPT ![o] = @ + 1]
         /\ mark' = [mark EXCEPT ![o] = 3]
         /\ stack' = Append(s, [op |-> "collect", o |-> o, k |-> NextMember(o, 0), st |-> 0])

CollectRoot ==
    /\ gc = "collect" /\ stack = <<>>
    /\ isolated_roots # <<>>
    /\ CollectVisit(Head(isolated_roots), stack)
    /\ UNCHANGED <<state, weak_ref_count, members, dtor, ref_count_scan,
                   listVars, ext, weak, gcVars>>

CollectMember ==
    /\ Running("collect") /\ Top.k \in Slot
    /\ Member # NoObj
    /\ CollectVisit(Member, MoveTo(NextMember(Top.o, Top.k)))
    /\ UNCHANGED <<state, weak_ref_count, members, dtor, ref_count_scan,
                   listVars, ext, weak, gcVars>>

(* di_collect_garbage_collect_post starts when the members are done.         *)
CollectPost ==
    /\ Running("collect") /\ Top.k > MaxMembers
    /\ stack' = Append(Pop(stack), [op |-> "fin", o |-> Top.o, k |-> 0, st |-> 1])
    /\ UNCHANGED <<objVars, scanVars, listVars, ownVars, gcVars>>

(* The outer loop goes on while finalization has unreferenced more objects.  *)
EndCollect ==
    /\ gc = "collect" /\ stack = <<>>
    /\ isolated_roots = <<>>
    /\ gc' = IF unreferred_objects = <<>> THEN "idle" ELSE "mark"
    /\ UNCHANGED <<objVars, scanVars, listVars, ownVars, cursor, stack>>

-----------------------------------------------------------------------------
User ==
    \/ \E o \in Obj :
         \/ \E d \in Dtors : NewObject(o, d)
         \/ RefObject(o)
         \/ DropRef(o)
         \/ WeaklyRef(o)
         \/ UpgradeWeakRef(o)
         \/ DropWeakRef(o)
         \/ Finalize(o)
    \/ \E p, o \in Obj, k \in Slot :
         AddMember(p, k, o) \/ MoveMember(p, k, o) \/ SetMember(p, k, o)
    \/ \E p \in Obj, k \in Slot : DeleteMember(p, k) \/ GetMember(p, k)
    \/ \E k \in Slot : DtorUsesMember(k)

(* The steps of the C code itself, which once begun run to their end; a      *)
(* destructor returns after finitely many operations.                        *)
System ==
    \/ StoreMember
    \/ CallDtor \/ DtorReturns \/ FreeMember \/ Destroyed \/ Collected \/ Finalized
    \/ MarkRoot \/ MarkMember \/ MarkEnd
    \/ StartScan \/ ScanRoot \/ ScanMember \/ ScanEnd
    \/ DropRevived \/ StartFinalize \/ CollectRoot \/ CollectMember \/ CollectPost \/ EndCollect

Next == User \/ StartCollect \/ System

Spec == Init /\ [][Next]_vars

(* libev invokes di_prepare before every wait, so a collection is started    *)
(* when the program keeps running; user code is under no obligation.         *)
FairSpec == Spec /\ WF_vars(System)

-----------------------------------------------------------------------------
(* Properties.                                                               *)

(* The type invariant.                                                       *)
TypeOK ==
    /\ state \in [Obj -> {"free", "live", "dying", "zombie"}]
    /\ ref_count \in [Obj -> Nat]
    /\ weak_ref_count \in [Obj -> Nat]
    /\ members \in [Obj -> [Slot -> Obj \cup {NoObj}]]
    /\ dtor \in [Obj -> BOOLEAN]
    /\ mark \in [Obj -> 0 .. 3]
    /\ ref_count_scan \in [Obj -> Nat]
    /\ unreferred_objects \in Seq(Obj)
    /\ isolated_roots \in Seq(Obj)
    /\ cursor \in Nat
    /\ ext \in [Obj -> Nat]
    /\ weak \in [Obj -> Nat]
    /\ gc \in Phase
    /\ stack \in Seq(Frame)

EdgesTo(m, o) == {e \in Obj \X Slot : m[e[1]][e[2]] = o}
InEdges(o) == EdgesTo(members, o)
Elems(list) == {list[i] : i \in DOMAIN list}

HoldersIn(s, o) == {i \in DOMAIN s : s[i].o = o /\ Holds(s[i])}
Held(o) == Cardinality(HoldersIn(stack, o))

Closed(T) == \A p \in T, k \in Slot : members[p][k] # NoObj => members[p][k] \in T
Reachable(S) ==
    {o \in Obj : \A T \in SUBSET Obj : S \subseteq T /\ Closed(T) => o \in T}

HeldByUser ==
    {o \in Obj : \/ ext[o] > 0
                 \/ \E i \in DOMAIN stack : stack[i].o = o /\ Returns(stack[i])}
Live == {o \in Obj : state[o] = "live"}
Garbage == Live \ Reachable(HeldByUser)

(* Reference counts are exact: ref_count is the number of references that    *)
(* members, user code and running functions own, and an object lives as long *)
(* as there is one.  This is what di_ref_object, di_unref_object, the member *)
(* operations and the collector's extra reference have to keep in step.      *)
RefCountExact ==
    \A o \in Obj :
        /\ ref_count[o] = ext[o] + Held(o) + Cardinality(InEdges(o))
        /\ state[o] = "live" <=> ref_count[o] > 0

(* Memory stays while a weak reference or an unfinished destruction needs    *)
(* it: weak_ref_count counts both (the comment in di_init_object), so that   *)
(* no weak reference dangles and no object is freed while it is destroyed.   *)
WeakCountExact ==
    \A o \in Obj :
        /\ weak_ref_count[o] =
             weak[o] + IF state[o] \in {"live", "dying"} THEN 1 ELSE 0
        /\ state[o] = "free" <=> weak_ref_count[o] = 0

(* A destroyed object refers to nothing: whatever destructors do meanwhile,  *)
(* di_finalize_object_inner lets go of every member before the memory can be *)
(* given back, so no reference is leaked with it.                            *)
DestroyedHoldsNothing ==
    \A o \in Obj : state[o] \in {"free", "zombie"} =>
        \A k \in Slot : members[o][k] = NoObj

(* The C stack makes sense: the collector marks and scans without running    *)
(* anything else, an object is destroyed once, and by a frame that has       *)
(* emptied every slot it has passed; a destructor runs before the members of *)
(* its object go, and di_setx is the only one to work on its slot.           *)
Destroys(f) == f.op = "fin" /\ f.st = 0

Linked(s, m, i) ==
    /\ s[i].op = "dtor" =>
         i > 1 /\ s[i - 1].op = "fin" /\ s[i - 1].o = s[i].o /\ s[i - 1].k = 0
    /\ s[i].op = "set" =>
         /\ i > 1 /\ s[i - 1].op = "value"
         /\ s[i].k \in Slot /\ m[s[i].o][s[i].k] = NoObj
         /\ \A j \in DOMAIN s :
              s[j].op = "set" /\ s[j].o = s[i].o /\ s[j].k = s[i].k => j = i

StackSound ==
    \A i \in DOMAIN stack :
        /\ stack[i].op = "mark" =>
             gc = "mark" /\ (stack[i].st = 1 => i = 1 /\ ref_count_scan[stack[i].o] > 0)
        /\ stack[i].op = "scan" => gc = "scan"
        /\ stack[i].op \in {"collect", "fin", "dtor", "set", "value"} => gc \in {"idle", "collect"}
        /\ Destroys(stack[i]) =>
             /\ state[stack[i].o] = "dying"
             /\ \A k \in Slot : k < stack[i].k => members[stack[i].o][k] = NoObj
             /\ \A j \in DOMAIN stack :
                  Destroys(stack[j]) /\ stack[j].o = stack[i].o => j = i
        /\ Linked(stack, members, i)

(* The assertions of object.c: a reference that is dropped is a counted      *)
(* reference to an object not destroyed yet, memory is freed only without    *)
(* strong references, marking finds at most ref_count references, a root     *)
(* starts out unmarked and the scan decides about every root.                *)
UnrefOK(o) == ref_count[o] > 0 /\ state[o] = "live" /\ mark[o] # 1

AssertionsHold ==
    /\ UserCode => \A o \in HeldByUser : UnrefOK(o)
    /\ (Running("fin") \/ Running("collect")) /\ Top.k \in Slot => Member # NoObj
    /\ Running("fin") /\ Top.k \in Slot => UnrefOK(Member)
    /\ Running("fin") /\ Top.st = 0 => ref_count[Top.o] = 0
    /\ Running("fin") /\ Top.st = 1 => UnrefOK(Top.o) /\ mark[Top.o] = 3
    /\ gc \in {"mark", "scan"} => \A o \in Live : ref_count_scan[o] <= ref_count[o] + 1
    /\ gc = "scan" => \A o \in Live : ref_count_scan[o] <= ref_count[o]
    /\ gc = "mark" /\ stack = <<>> => \A o \in Elems(unreferred_objects) : mark[o] = 0
    /\ gc = "scan" /\ stack = <<>> =>
         \A i \in DOMAIN isolated_roots : i < cursor => mark[isolated_roots[i]] \in {0, 2}

(* The intrusive lists hold live objects, each object in one place: an       *)
(* object that is destroyed must have left them (di_unref_object).           *)
ListsSound ==
    LET all == unreferred_objects \o isolated_roots
    IN  /\ Elems(all) \subseteq Live
        /\ \A i, j \in DOMAIN all : all[i] = all[j] => i = j

(* The collector finalizes only garbage: nothing scheduled for destruction   *)
(* can be reached from user code, even while destructors run user code that  *)
(* holds weak references to it.                                              *)
CollectsOnlyGarbage ==
    gc = "collect" => \A o \in Live : mark[o] \in {2, 3} => o \in Garbage

(* What finalization needs of the roots: every reference to a garbage root   *)
(* comes from objects that finalizing this root also finalizes, so that the  *)
(* root is gone after it and the loop over the roots ends.  (Not that "no    *)
(* roots can reach each other", as the comment in di_collect_garbage has it: *)
(* a traversal stops at what an earlier one has marked.)                     *)
RootsOwnTheirReferrers ==
    gc = "scan" => \A i \in Elems(isolated_roots) \cap Garbage :
        \A e \in InEdges(i) : e[1] \in Reachable({i})

(* No object stays unreachable: a collection destroys it, unless user code   *)
(* gets it back through a weak reference before, if the main loop keeps      *)
(* returning to its prepare watcher.                                         *)
GarbageReclaimed == \A o \in Obj : o \in Garbage ~> o \notin Garbage

LoopSpec == FairSpec /\ SF_vars(StartCollect)
=============================================================================
