--------------------------- MODULE Relationships ----------------------------
(***************************************************************************)
(* How a dependency relates to whoever owns the graph: what it states, or  *)
(* what the whole graph says of it (model/relationship.go and              *)
(* dependencyRelationshipsForGraph, model/graph.go).                       *)
(*                                                                         *)
(* A graph is a record of its nodes, those of them that are dependencies,  *)
(* and its edges.                                                          *)
(***************************************************************************)
EXTENDS Integers, FiniteSets

Rank(r) == CASE r = "direct" -> 3 [] r = "transitive" -> 2 [] r = "unknown" -> 1 [] OTHER -> 0

MergeDependencyRelationship(current, next) == IF Rank(next) > Rank(current) THEN next ELSE current

(* What a dependency is at a depth: what it states, if it does. *)
RelationshipForDepth(stated, depth) ==
    IF stated # "" THEN stated
    ELSE IF depth = 1 THEN "direct"
    ELSE IF depth > 1 THEN "transitive"
    ELSE "unknown"

Below(g, owners) == {e[2] : e \in {e \in g.edges : e[1] \in owners}}

TopNodes(g) == g.nodes \ Below(g, g.nodes)

HasUsableEdges(g) == TopNodes(g) # {} /\ TopNodes(g) # g.nodes

(* Bug: below a dependency a structural node is an owner again. *)
OwnersThroughDependencies(g) ==
    LET reached[k \in Nat] ==
            IF k = 0 THEN TopNodes(g) ELSE reached[k - 1] \cup Below(g, reached[k - 1])
    IN TopNodes(g) \cup (reached[Cardinality(g.nodes)] \ g.dependencies)

(* The roots, and the structural nodes reached from them through structural
   nodes. *)
Owners(g) ==
    LET owners[k \in Nat] ==
            IF k = 0 THEN TopNodes(g)
            ELSE owners[k - 1] \cup (Below(g, owners[k - 1]) \ g.dependencies)
    IN owners[Cardinality(g.nodes)]

(* dependencyRelationshipsForGraph at one node. *)
GraphRelationship(g, n, stated) ==
    RelationshipForDepth(stated,
        IF ~HasUsableEdges(g) \/ n \in TopNodes(g) THEN 0
        ELSE IF n \in Below(g, Owners(g)) THEN 1
        ELSE 2)
=============================================================================
