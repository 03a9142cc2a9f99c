---------------------------- MODULE ProcessTree -----------------------------
(***************************************************************************)
(* kill_all_descendants (main.c), which runs when the core object is         *)
(* destroyed.  The processes read from /proc are spliced, in that order,     *)
(* into doubly linked lists, each behind its parent; the list is followed    *)
(* from this process until an entry whose parent has not been visited.       *)
(***************************************************************************)
EXTENDS Naturals, Sequences, FiniteSets, SequencesExt

(* A process is [pid, ppid]; 0 is no pid and names the sentinel.             *)
Sentinel == 0

Pids(ps) == {ps[i].pid : i \in DOMAIN ps}
PpidOf(ps, p) == (CHOOSE x \in ToSet(ps) : x.pid = p).ppid
ParentOf(ps, p) == IF PpidOf(ps, p) \in Pids(ps) THEN PpidOf(ps, p) ELSE Sentinel

(* INIT_LIST_HEAD, for every entry and the sentinel.                         *)
ListHeads(ps) ==
    LET E == Pids(ps) \cup {Sentinel} IN [next |-> [e \in E |-> e], prev |-> [e \in E |-> e]]

(* __list_splice(&i->ll, &pp->ll, pp->ll.next).  Only a list that is i alone *)
(* takes i along: otherwise what follows i is moved and i stays.             *)
(* Mutant: in front of the parent.                                           *)
SpliceBefore(l, i, pp) ==
    LET first == l.next[i]  last == l.prev[i]  before == l.prev[pp]
    IN [next |-> [l.next EXCEPT ![before] = first, ![last] = pp],
        prev |-> [l.prev EXCEPT ![first] = before, ![pp] = last]]

Splice(l, i, pp) ==
    LET first == l.next[i]  last == l.prev[i]  after == l.next[pp]
    IN [next |-> [l.next EXCEPT ![pp] = first, ![last] = after],
        prev |-> [l.prev EXCEPT ![first] = pp, ![after] = last]]

LinkTree(ps) ==
    FoldLeft(LAMBDA l, x : Splice(l, x.pid, ParentOf(ps, x.pid)), ListHeads(ps), ps)

RECURSIVE Visit(_, _, _, _)

(* The loop that kills.  The sentinel has no parent: what is read there is   *)
(* not initialized.                                                          *)
Visit(ps, l, curr, visited) ==
    LET n == l.next[curr] IN
    IF n = Sentinel THEN [defined |-> FALSE, visited |-> visited]
    ELSE IF ParentOf(ps, n) \notin visited THEN [defined |-> TRUE, visited |-> visited]
    ELSE Visit(ps, l, n, visited \cup {n})

KillAllDescendants(ps, self) ==
    LET r == Visit(ps, LinkTree(ps), self, {self})
    IN [defined |-> r.defined, killed |-> r.visited \ {self}]

-----------------------------------------------------------------------------
(* What it should kill, and the orders of /proc for which it does.           *)

RECURSIVE Descends(_, _, _)
Descends(ps, p, q) ==
    LET pp == ParentOf(ps, p) IN pp # Sentinel /\ (pp = q \/ Descends(ps, pp, q))

Descendants(ps, self) == {p \in Pids(ps) : Descends(ps, p, self)}

PlaceOf(ps, p) == CHOOSE i \in DOMAIN ps : ps[i].pid = p

(* Parents come first: so they do unless process ids have wrapped around.    *)
ParentsFirst(ps) ==
    \A p \in Pids(ps) : ParentOf(ps, p) # Sentinel => PlaceOf(ps, ParentOf(ps, p)) < PlaceOf(ps, p)

(* p and each of its ancestors is the first of its siblings.                 *)
RECURSIVE EldestLine(_, _)
EldestLine(ps, p) ==
    /\ \A q \in Pids(ps) : ParentOf(ps, q) = ParentOf(ps, p) => PlaceOf(ps, p) <= PlaceOf(ps, q)
    /\ ParentOf(ps, p) # Sentinel => EldestLine(ps, ParentOf(ps, p))
=============================================================================
