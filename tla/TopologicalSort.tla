--------------------------- MODULE TopologicalSort ---------------------------
(***************************************************************************)
(* Graph.TopologicalSort (model/graph.go): Kahn's algorithm with a heap of *)
(* the nodes that are ready.  A turn of the loop is one action; the order  *)
(* in which a node's children are counted down cannot be seen outside.     *)
(***************************************************************************)
EXTENDS FixedGraph

VARIABLES
    sorting,   \* "idle", "sorting" or "sorted"
    inDeg,     \* per node: its parents that have not been ordered
    ready,     \* the heap
    ordered

sortVars == <<sorting, inDeg, ready, ordered>>

SortIdle ==
    /\ sorting = "idle"
    /\ inDeg = [n \in Nodes |-> 0]
    /\ ready = {}
    /\ ordered = << >>

(* The pass over all nodes that counts their parents. *)
SortInit ==
    /\ sorting = "sorting"
    /\ inDeg = [n \in Nodes |-> Cardinality(Incoming(n))]
    /\ ready = {n \in Nodes : inDeg[n] = 0}
    /\ ordered = << >>

Ordered == {ordered[i] : i \in DOMAIN ordered}

(* heap.Pop: idIndexHeap keeps the least ID on top. *)
IsNext(n) == n \in ready /\ \A m \in ready : n <= m

(* Bug: a child is ready as soon as one parent has been ordered. *)
FreedByFirstParent(n) == Outgoing(n) \ (Ordered \cup ready)

(* The children that have no other parent left. *)
FreedBy(n) == {c \in Outgoing(n) : inDeg[c] - 1 = 0}

Pop(n) ==
    /\ sorting = "sorting"
    /\ IsNext(n)
    /\ ordered' = Append(ordered, n)
    /\ inDeg' = [c \in Nodes |-> IF c \in Outgoing(n) THEN inDeg[c] - 1 ELSE inDeg[c]]
    /\ ready' = (ready \ {n}) \cup FreedBy(n)
    /\ UNCHANGED <<sorting, edges>>

SortReturns ==
    /\ sorting = "sorting"
    /\ ready = {}
    /\ sorting' = "sorted"
    /\ UNCHANGED <<inDeg, ready, ordered, edges>>

(* It returns ErrCycleDetected as well as the prefix. *)
CycleDetected == Len(ordered) # Cardinality(Nodes)

SortNext == (\E n \in Nodes : Pop(n)) \/ SortReturns

SortSpec == edges \in SUBSET Links /\ SortInit /\ [][SortNext]_<<edges, sortVars>>
-----------------------------------------------------------------------------
Before(i) == {ordered[j] : j \in 1 .. i - 1}

(* The nodes that could come next after the first i-1. *)
Available(i) == {n \in Nodes \ Before(i) : Incoming(n) \subseteq Before(i)}

(* Every node comes after everything that depends on it, and among the nodes
   that could come next the least ID does: the order depends on the graph and
   not on the slots its nodes happen to occupy. *)
SortIsLeastOrder ==
    \A i \in DOMAIN ordered :
        /\ ordered[i] \in Available(i)
        /\ \A n \in Available(i) : ordered[i] <= n

(* A set with a parent inside it for each of its members: on a finite graph,
   one that holds a cycle above every member. *)
Backed(C) == C \subseteq Nodes /\ \A n \in C : Incoming(n) \cap C # {}

Cyclic == UNION {C \in SUBSET Nodes : Backed(C)}

(* What is returned is the whole of the acyclic part, the nodes no cycle leads
   to, and an error exactly when something was left out (graph.go:895-897). *)
SortedIsAcyclicPart ==
    sorting = "sorted" =>
        /\ Ordered = Nodes \ Cyclic
        /\ CycleDetected <=> Cyclic # {}

(* The order is the least one that respects the edges, it covers exactly the
   nodes no cycle leads to, and the caller is told when that is not all. *)
SortIsExact == SortIsLeastOrder /\ SortedIsAcyclicPart
=============================================================================
