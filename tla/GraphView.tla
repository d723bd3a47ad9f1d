----------------------------- MODULE GraphView ------------------------------
(***************************************************************************)
(* A graph as what is written out of it sees it: a set of node records     *)
(* with an id, and edges between IDs (graphview/graphview.go).             *)
(***************************************************************************)
EXTENDS Integers, FiniteSets

Children(g, id) == {e[2] : e \in {e \in g.edges : e[1] = id}}

GraphRoots(g) == {n.id : n \in g.nodes} \ {e[2] : e \in g.edges}

(* Bug: a child that is not listed is left out with everything below it. *)
ChildrenListed(g, id, present) == Children(g, id) \cap present

(* graphview.ChildrenAmong: a child that is not listed is stepped through,
   once, and one that is listed is recorded and not passed. *)
ChildrenAmong(g, id, present) ==
    LET Pass(seen) == seen \cup UNION {Children(g, m) : m \in seen \ present}
        walk[n \in 0..Cardinality(g.nodes)] ==
          IF n = 0 THEN Children(g, id) ELSE Pass(walk[n - 1])
    IN walk[Cardinality(g.nodes)] \cap present
=============================================================================
