---------------------------- MODULE PackageGraph ----------------------------
(***************************************************************************)
(* What model.Graph promises its callers, without the slots it is stored   *)
(* in: a set of nodes keyed by identity, the locations each one was seen   *)
(* at, and at most one typed edge from one live node to another.  A call   *)
(* that fails leaves the graph as it was, so it is a stuttering step.      *)
(*                                                                         *)
(* GraphStore is the implementation, and implements this specification.    *)
(***************************************************************************)
EXTENDS EdgeKinds

CONSTANTS
    Sites,        \* places a node can be seen at (usage records)
    Promotable    \* <<n, m>>: n's coordinates can be minted as module m

(* A manifest is itself a location, so its record carries none. *)
SitesOf(n) == IF n \in ManifestIDs THEN {} ELSE Sites

VARIABLES
    nodes,        \* the identities in the graph
    locations,    \* the sites each node was seen at, {} off the graph
    kind          \* kind[a][b]: the edge from a to b, or NoEdge

vars == <<nodes, locations, kind>>

TypeOK ==
    /\ nodes \in SUBSET NodeIDs
    /\ locations \in [NodeIDs -> SUBSET Sites]
    /\ kind \in [NodeIDs -> [NodeIDs -> EdgeKind \cup {NoEdge}]]

Init ==
    /\ nodes = {}
    /\ locations = [n \in NodeIDs |-> {}]
    /\ kind = [a \in NodeIDs |-> [b \in NodeIDs |-> NoEdge]]

AddNode(n, seen) ==
    /\ n \notin nodes
    /\ nodes' = nodes \cup {n}
    /\ locations' = [locations EXCEPT ![n] = seen]
    /\ UNCHANGED kind

(* Inserting an identity the graph already holds folds the two records. *)
InsertNode(n, seen) ==
    /\ nodes' = nodes \cup {n}
    /\ locations' = [locations EXCEPT ![n] = @ \cup seen]
    /\ UNCHANGED kind

AddTypedEdge(a, b, k) ==
    /\ a # b
    /\ {a, b} \subseteq nodes
    /\ kind' = [kind EXCEPT ![a][b] = MergeEdgeKind(@, StatedEdgeKind(a, b, k))]
    /\ UNCHANGED <<nodes, locations>>

RemoveEdge(a, b) ==
    /\ kind' = [kind EXCEPT ![a][b] = NoEdge]
    /\ UNCHANGED <<nodes, locations>>

RemoveNode(n) ==
    /\ nodes' = nodes \ {n}
    /\ locations' = [locations EXCEPT ![n] = {}]
    /\ kind' = [a \in NodeIDs |-> [b \in NodeIDs |->
                   IF n \in {a, b} THEN NoEdge ELSE kind[a][b]]]

(* Node n becomes module m: m takes over n's locations and all n's edges,
   each with the kind it was recorded with, except one that would join m to
   itself. *)
PromoteToModule(n, m) ==
    /\ n \in nodes
    /\ <<n, m>> \in Promotable
    /\ nodes' = (nodes \ {n}) \cup {m}
    /\ locations' = [locations EXCEPT ![n] = {}, ![m] = @ \cup locations[n]]
    /\ kind' = [a \in NodeIDs |-> [b \in NodeIDs |->
                   IF n \in {a, b} \/ a = b THEN NoEdge
                   ELSE IF a = m THEN MergeEdgeKind(kind[m][b], kind[n][b])
                   ELSE IF b = m THEN MergeEdgeKind(kind[a][m], kind[a][n])
                   ELSE kind[a][b]]]

Next ==
    \/ \E n \in NodeIDs : \E seen \in SUBSET SitesOf(n) :
          AddNode(n, seen) \/ InsertNode(n, seen)
    \/ \E a, b \in NodeIDs :
          \/ \E k \in EdgeKind \cup {EdgeKindUnknown} : AddTypedEdge(a, b, k)
          \/ RemoveEdge(a, b)
    \/ \E n \in NodeIDs : RemoveNode(n)
    \/ \E n \in NodeIDs, m \in ModuleIDs : PromoteToModule(n, m)

Spec == Init /\ [][Next]_vars
=============================================================================
