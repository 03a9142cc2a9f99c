------------------------------ MODULE Solvers -------------------------------
(***************************************************************************)
(* The two solvers of the misc plugin (plugins/misc/misc.cc).  Indices are   *)
(* those of TLA+ sequences, from 1.                                          *)
(***************************************************************************)
EXTENDS Integers, Sequences, FiniteSets, SequencesExt

Unmatched == -1

-----------------------------------------------------------------------------
(* bipartite_match: graph[i] lists the right nodes of the left node i.  The  *)
(* array of visited right nodes has the length of the graph.                 *)

VisitedFits(graph) == \A i \in DOMAIN graph : \A k \in DOMAIN graph[i] : graph[i][k] <= Len(graph)

RECURSIVE Augment(_, _, _, _)

(* Mutant: the node that loses its partner is not matched again.             *)
TakeAnyway(graph, st, curr, j) ==
    [st EXCEPT !.ok = TRUE, !.ret[curr] = j, !.right[j] = curr]

(* Give j to curr if it is free or if its partner finds another.             *)
Take(graph, st, curr, j) ==
    LET marked == [st EXCEPT !.visited = @ \cup {j}]
        tried == IF st.right[j] = Unmatched THEN [marked EXCEPT !.ok = TRUE]
                 ELSE Augment(graph, marked, st.right[j], 1)
    IN IF tried.ok THEN [tried EXCEPT !.ret[curr] = j, !.right[j] = curr] ELSE tried

(* dfs(curr), from the k-th edge on.                                         *)
Augment(graph, st, curr, k) ==
    IF k > Len(graph[curr]) THEN [st EXCEPT !.ok = FALSE]
    ELSE LET j == graph[curr][k] IN
         IF j \in st.visited THEN Augment(graph, st, curr, k + 1)
         ELSE LET t == Take(graph, st, curr, j)
              IN IF t.ok THEN t ELSE Augment(graph, t, curr, k + 1)

BipartiteMatch(graph) ==
    LET rights == UNION {ToSet(graph[i]) : i \in DOMAIN graph}
        start == [ok |-> FALSE, ret |-> [i \in DOMAIN graph |-> Unmatched],
                  right |-> [j \in rights |-> Unmatched], visited |-> {}]
    IN FoldLeft(LAMBDA st, i : Augment(graph, [st EXCEPT !.visited = {}], i, 1), start,
                [i \in DOMAIN graph |-> i]).ret

(* The reference: a matching is a choice of different neighbours for some of *)
(* the left nodes, and Hall's condition gives the size of a largest one.     *)
IsMatching(graph, ret) ==
    /\ \A i \in DOMAIN graph : ret[i] # Unmatched => ret[i] \in ToSet(graph[i])
    /\ \A i, k \in DOMAIN graph : ret[i] = ret[k] /\ ret[i] # Unmatched => i = k

Neighbours(graph, S) == UNION {ToSet(graph[i]) : i \in S}

LargestMatching(graph) ==
    LET deficiency(S) == Cardinality(S) - Cardinality(Neighbours(graph, S))
        worst == CHOOSE d \in {deficiency(S) : S \in SUBSET DOMAIN graph} :
                    \A S \in SUBSET DOMAIN graph : d >= deficiency(S)
    IN Len(graph) - worst

-----------------------------------------------------------------------------
(* difference_constraints: cs[i] lists pairs <<j, k>>, x_j - x_i <= k.       *)

Thrown == [ok |-> FALSE]

NumEdges(cs) == FoldLeft(LAMBDA n, l : n + Len(l), 0, cs)

Satisfied(cs, x) ==
    \A i \in DOMAIN cs : \A c \in DOMAIN cs[i] : x[cs[i][c][1]] - x[i] <= cs[i][c][2]

(* One constraint of i, while the number of iterations lasts.                *)
Relax(st, i, pair) ==
    LET j == pair[1]  bound == st.x[i] + pair[2] IN
    IF st.iter = 0 THEN st
    ELSE IF st.x[j] <= bound THEN [st EXCEPT !.iter = @ - 1]
    ELSE [st EXCEPT !.iter = @ - 1, !.x[j] = bound,
                    !.queue = IF j \in ToSet(@) THEN @ ELSE Append(@, j)]

RECURSIVE Propagate(_, _)
Propagate(cs, st) ==
    IF st.iter = 0 \/ st.queue = <<>> THEN st
    ELSE LET i == Head(st.queue)
         IN Propagate(cs, FoldLeft(LAMBDA s, pair : Relax(s, i, pair),
                                   [st EXCEPT !.queue = Tail(@)], cs[i]))

(* Mutant: a pass too few.                                                   *)
IterationsShort(cs) == (Len(cs) - 2) * NumEdges(cs)

Iterations(cs) == (Len(cs) - 1) * NumEdges(cs)

(* A constraint of a variable on itself is checked before, and all of them   *)
(* afterwards; both throw.                                                   *)
DifferenceConstraints(cs) ==
    LET start == [x |-> [i \in DOMAIN cs |-> 0], iter |-> Iterations(cs),
                  queue |-> [i \in DOMAIN cs |-> i]]
        x == Propagate(cs, start).x
    IN IF \E i \in DOMAIN cs : \E c \in DOMAIN cs[i] : cs[i][c][1] = i /\ cs[i][c][2] < 0
       THEN Thrown
       ELSE IF Satisfied(cs, x) THEN [ok |-> TRUE, x |-> x] ELSE Thrown
=============================================================================
