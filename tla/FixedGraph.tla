----------------------------- MODULE FixedGraph -----------------------------
(***************************************************************************)
(* A graph as the queries of model/graph.go read it: chosen once, never    *)
(* written.  A node is a number, and the numbers are in the order of the   *)
(* nodes' IDs.  That incoming is the mirror of outgoing is what GraphStore *)
(* shows of every graph its operations build.                              *)
(***************************************************************************)
EXTENDS Integers, Sequences, FiniteSets

CONSTANTS
    Dependencies,   \* the dependency nodes
    Structural,     \* the manifest and module nodes
    Links           \* BOUND: the edges a graph may have

Nodes == Dependencies \cup Structural

ASSUME GraphAssumption ==
    /\ Nodes \subseteq Nat
    /\ IsFiniteSet(Nodes)
    /\ Dependencies \cap Structural = {}
    /\ Links \subseteq Nodes \X Nodes
    /\ \A e \in Links : e[1] # e[2]

VARIABLE edges

Outgoing(n) == {m \in Nodes : <<n, m>> \in edges}
Incoming(n) == {m \in Nodes : <<m, n>> \in edges}

Roots == {n \in Nodes : Incoming(n) = {}}
=============================================================================
