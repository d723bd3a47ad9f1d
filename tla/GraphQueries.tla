---------------------------- MODULE GraphQueries ----------------------------
(***************************************************************************)
(* A caller that asks something of a graph: its topological order, the     *)
(* paths to one of its nodes, or what its dependencies' scopes are once    *)
(* those of the direct ones have been propagated.                          *)
(***************************************************************************)
EXTENDS TopologicalSort, PathsTo, ScopePropagation

CONSTANT WalkLinks   \* BOUND: the edges of a graph whose scopes are propagated

ASSUME WalkAssumption == WalkLinks \subseteq Links

vars == <<edges, sortVars, pathVars, walkVars>>

Init ==
    \/ edges \in SUBSET Links /\ SortInit /\ PathsIdle /\ WalkIdle
    \/ edges \in SUBSET Links /\ PathsInit /\ SortIdle /\ WalkIdle
    \/ edges \in SUBSET WalkLinks /\ WalkInit /\ SortIdle /\ PathsIdle

Next ==
    \/ SortNext /\ UNCHANGED <<pathVars, walkVars>>
    \/ PathsNext /\ UNCHANGED <<sortVars, walkVars>>
    \/ WalkNext /\ UNCHANGED <<sortVars, pathVars>>

(* A query runs to its end: it is sequential and waits for nobody. *)
Spec == Init /\ [][Next]_vars /\ WF_vars(Next)

(* Every query returns, on every graph, cyclic ones included. *)
QueriesReturn == <>(sorting = "sorted" \/ walking = "returned" \/ pc = "done")
=============================================================================
