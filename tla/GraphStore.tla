----------------------------- MODULE GraphStore -----------------------------
(***************************************************************************)
(* model.Graph as model/graph.go stores it: a table of slots that live     *)
(* nodes occupy, an index from node ID to slot, the two adjacency tables   *)
(* (each edge is written in both), and the LIFO list of slots that removed *)
(* nodes left behind and the next insertion takes again.                   *)
(*                                                                         *)
(* The graph is one record so that an operation which calls others         *)
(* (InsertNode, PromoteToModule) is the composition of theirs.  A call     *)
(* that returns an error leaves the record alone: it is a stuttering step. *)
(* Slot s stands for the Go index s-1, and slot 0 for "not in the index".  *)
(***************************************************************************)
EXTENDS EdgeKinds, Sequences, FiniteSets

CONSTANTS
    Sites,        \* places a node can be seen at (usage records)
    Promotable,   \* <<n, m>>: n's coordinates can be minted as module m
    NoNode,       \* the nil a freed slot holds
    MaxSlots      \* BOUND on the slot table; no reachable graph comes near it

ASSUME StoreAssumption ==
    /\ NoNode \notin NodeIDs
    /\ MaxSlots \in Nat
    /\ Promotable \subseteq (DependencyIDs \cup ModuleIDs) \X ModuleIDs
    /\ \A p \in Promotable : p[1] # p[2]

Slots  == 1 .. MaxSlots
NoSlot == 0

VARIABLE graph

NoEdges == [t \in Slots |-> NoEdge]

(* New: no slot allocated, nothing indexed. *)
EmptyGraph ==
    [ indexByID |-> [n \in NodeIDs |-> NoSlot],
      nodes     |-> [s \in Slots |-> NoNode],
      locations |-> [s \in Slots |-> {}],
      alive     |-> [s \in Slots |-> FALSE],
      outgoing  |-> [s \in Slots |-> NoEdges],
      incoming  |-> [s \in Slots |-> NoEdges],
      free      |-> << >>,
      slots     |-> 0,
      size      |-> 0 ]

Holds(g, n) == g.indexByID[n] # NoSlot

(* Bug: reads the oldest freed slot while the list is popped at its end. *)
NextSlotOldest(g) == IF g.free # << >> THEN g.free[1] ELSE g.slots + 1

(* The most recently freed slot, or a new one at the end of the table. *)
NextSlot(g) == IF g.free # << >> THEN g.free[Len(g.free)] ELSE g.slots + 1

CanAllocate(g) == g.free # << >> \/ g.slots < MaxSlots

FreeAfterNextSlot(g) ==
    IF g.free # << >> THEN SubSeq(g.free, 1, Len(g.free) - 1) ELSE g.free

SlotsAfterNextSlot(g) == IF g.free # << >> THEN g.slots ELSE g.slots + 1

(* AddNode's effect on a graph that does not hold n: the node takes the next
   slot, with both of its edge sets empty. *)
WithNode(g, n, seen) ==
    LET s == NextSlot(g)
    IN [ indexByID |-> [g.indexByID EXCEPT ![n] = s],
         nodes     |-> [g.nodes EXCEPT ![s] = n],
         locations |-> [g.locations EXCEPT ![s] = seen],
         alive     |-> [g.alive EXCEPT ![s] = TRUE],
         outgoing  |-> [g.outgoing EXCEPT ![s] = NoEdges],
         incoming  |-> [g.incoming EXCEPT ![s] = NoEdges],
         free      |-> FreeAfterNextSlot(g),
         slots     |-> SlotsAfterNextSlot(g),
         size      |-> g.size + 1 ]

(* Bug: the second witness of a node replaces what the first one saw. *)
FoldedLastWins(g, n, seen) ==
    [g EXCEPT !.locations[g.indexByID[n]] = seen]

(* foldNodes, as far as locations go: the survivor keeps its slot and its
   edges, and the locations union. *)
Folded(g, n, seen) ==
    [g EXCEPT !.locations[g.indexByID[n]] = @ \cup seen]

Inserted(g, n, seen) ==
    IF Holds(g, n) THEN Folded(g, n, seen) ELSE WithNode(g, n, seen)

(* AddTypedEdge's effect when both ends are held: an unstated kind is derived,
   an existing edge merges the kinds, and both tables are written. *)
WithEdge(g, a, b, k) ==
    LET s == g.indexByID[a]
        t == g.indexByID[b]
        merged == MergeEdgeKind(g.outgoing[s][t], StatedEdgeKind(a, b, k))
    IN [g EXCEPT !.outgoing[s][t] = merged, !.incoming[t][s] = merged]

WithoutEdge(g, a, b) ==
    LET s == g.indexByID[a]
        t == g.indexByID[b]
    IN [g EXCEPT !.outgoing[s][t] = NoEdge, !.incoming[t][s] = NoEdge]

(* RemoveNode's effect on a graph that holds n.  Each neighbour's entry is
   found through the removed node's own edge sets. *)
WithoutNode(g, n) ==
    LET s == g.indexByID[n]
        drop(table, mine) ==
            [t \in Slots |->
                IF t = s THEN NoEdges
                ELSE IF mine[t] # NoEdge THEN [table[t] EXCEPT ![s] = NoEdge]
                ELSE table[t]]
    IN [ indexByID |-> [g.indexByID EXCEPT ![n] = NoSlot],
         nodes     |-> [g.nodes EXCEPT ![s] = NoNode],
         locations |-> [g.locations EXCEPT ![s] = {}],
         alive     |-> [g.alive EXCEPT ![s] = FALSE],
         outgoing  |-> drop(g.outgoing, g.incoming[s]),
         incoming  |-> drop(g.incoming, g.outgoing[s]),
         free      |-> Append(g.free, s),
         slots     |-> g.slots,
         size      |-> g.size - 1 ]

(* incidentEdges, collected by ID before the node is removed: EdgeKindOf. *)
EdgeKindOf(g, a, b) ==
    IF Holds(g, a) /\ Holds(g, b)
    THEN g.outgoing[g.indexByID[a]][g.indexByID[b]]
    ELSE EdgeKindUnknown

(* Bug: the edges are re-added without the kind they had, so it is derived
   again from the node that is now a module. *)
MovedKindRederived(g, old, n, m, s, t) ==
    IF s # t /\ g.alive[s] /\ g.alive[t]
       /\ \/ g.nodes[s] = m /\ EdgeKindOf(old, n, g.nodes[t]) # NoEdge
          \/ g.nodes[t] = m /\ EdgeKindOf(old, g.nodes[s], n) # NoEdge
    THEN DeriveEdgeKind(g.nodes[s], g.nodes[t])
    ELSE EdgeKindUnknown

(* The kind of the edge from slot s to slot t that reattach adds, if any: the
   edges old had at n are re-added by ID at the surviving module m, each with
   the kind it was recorded with; one that would join m to itself is not. *)
MovedKind(g, old, n, m, s, t) ==
    IF s # t /\ g.alive[s] /\ g.alive[t]
    THEN IF g.nodes[s] = m THEN EdgeKindOf(old, n, g.nodes[t])
         ELSE IF g.nodes[t] = m THEN EdgeKindOf(old, g.nodes[s], n)
         ELSE EdgeKindUnknown
    ELSE EdgeKindUnknown

Reattached(g, old, n, m) ==
    [g EXCEPT
        !.outgoing = [s \in Slots |-> [t \in Slots |->
            MergeEdgeKind(g.outgoing[s][t], MovedKind(g, old, n, m, s, t))]],
        !.incoming = [t \in Slots |-> [s \in Slots |->
            MergeEdgeKind(g.incoming[t][s], MovedKind(g, old, n, m, s, t))]]]

(* PromoteToModule: remove the node, insert the module carrying its locations
   (folding into one already there), re-point every edge. *)
Promoted(g, n, m) ==
    Reattached(Inserted(WithoutNode(g, n), m, g.locations[g.indexByID[n]]), g, n, m)
-----------------------------------------------------------------------------
SitesOf(n) == IF n \in ManifestIDs THEN {} ELSE Sites

Init == graph = EmptyGraph

AddNode(n, seen) ==
    /\ ~Holds(graph, n)
    /\ CanAllocate(graph)
    /\ graph' = WithNode(graph, n, seen)

InsertNode(n, seen) ==
    /\ Holds(graph, n) \/ CanAllocate(graph)
    /\ graph' = Inserted(graph, n, seen)

AddTypedEdge(a, b, k) ==
    /\ a # b
    /\ Holds(graph, a)
    /\ Holds(graph, b)
    /\ graph' = WithEdge(graph, a, b, k)

RemoveEdge(a, b) ==
    /\ EdgeKindOf(graph, a, b) # NoEdge
    /\ graph' = WithoutEdge(graph, a, b)

RemoveNode(n) ==
    /\ Holds(graph, n)
    /\ graph' = WithoutNode(graph, n)

PromoteToModule(n, m) ==
    /\ Holds(graph, n)
    /\ <<n, m>> \in Promotable
    /\ graph' = Promoted(graph, n, m)

Next ==
    \/ \E n \in NodeIDs : \E seen \in SUBSET SitesOf(n) : AddNode(n, seen)
    \/ \E n \in NodeIDs : \E seen \in SUBSET SitesOf(n) : InsertNode(n, seen)
    \/ \E a, b \in NodeIDs : \E k \in EdgeKind \cup {EdgeKindUnknown} :
          AddTypedEdge(a, b, k)
    \/ \E a, b \in NodeIDs : RemoveEdge(a, b)
    \/ \E n \in NodeIDs : RemoveNode(n)
    \/ \E n \in NodeIDs, m \in ModuleIDs : PromoteToModule(n, m)

Spec == Init /\ [][Next]_graph
-----------------------------------------------------------------------------
(* The shape of a store.  The parts of the invariant are stated of any graph g,
   so that what an operation does to them can be stated operation by operation. *)
Store ==
    [ indexByID : [NodeIDs -> Slots \cup {NoSlot}],
      nodes     : [Slots -> NodeIDs \cup {NoNode}],
      locations : [Slots -> SUBSET Sites],
      alive     : [Slots -> BOOLEAN],
      outgoing  : [Slots -> [Slots -> EdgeKind \cup {NoEdge}]],
      incoming  : [Slots -> [Slots -> EdgeKind \cup {NoEdge}]],
      free      : Seq(Slots),
      slots     : 0 .. MaxSlots,
      size      : Int ]

IndexSound(g) ==
    /\ \A n \in NodeIDs : Holds(g, n) =>
          /\ g.alive[g.indexByID[n]]
          /\ g.nodes[g.indexByID[n]] = n
    /\ \A s \in Slots :
          IF g.alive[s]
          THEN g.nodes[s] \in NodeIDs /\ g.indexByID[g.nodes[s]] = s
          ELSE g.nodes[s] = NoNode /\ g.locations[s] = {}

EdgesSound(g) ==
    \A s, t \in Slots :
        /\ g.outgoing[s][t] = g.incoming[t][s]
        /\ g.outgoing[s][t] # NoEdge => g.alive[s] /\ g.alive[t] /\ s # t

FreeSound(g) ==
    /\ \A i \in 1 .. Len(g.free) : g.free[i] <= g.slots /\ ~g.alive[g.free[i]]
    /\ \A i, j \in 1 .. Len(g.free) : g.free[i] = g.free[j] => i = j
    /\ \A s \in 1 .. g.slots : g.alive[s] \/ \E i \in 1 .. Len(g.free) : g.free[i] = s
    /\ \A s \in Slots : g.alive[s] => s <= g.slots
    /\ g.size + Len(g.free) = g.slots

(* Every field keeps its range; in particular the slot table stays within the
   bound, however often nodes are removed and inserted. *)
TypeOK == graph \in Store

(* indexByID and the live slots name each other: every indexed ID finds a live
   slot that holds that very node, every live slot is found through its node's
   ID (so no two nodes share a slot), and a freed slot keeps nothing of the
   node it held.  AddNode, RemoveNode and nextSlot maintain it between them. *)
IndexNamesLiveSlots == IndexSound(graph)

(* The two adjacency tables are mirrors of each other, kinds included, and an
   edge only ever joins two different live slots: a reused slot never inherits
   an edge of the node that had it before. *)
AdjacencyMirrored == EdgesSound(graph)

(* The free list holds each dead slot of the table exactly once and Size()
   counts the others, so no slot is handed out twice and none is lost. *)
FreeListIsDeadSlots == FreeSound(graph)

SoundStore(g) == g \in Store /\ IndexSound(g) /\ EdgesSound(g) /\ FreeSound(g)

(* All of it together, after any sequence of insertions, removals and promotions
   that reuse each other's slots.  It is inductive. *)
StoreInv == SoundStore(graph)
-----------------------------------------------------------------------------
(* What a caller can see: the nodes by ID, their locations, EdgeKindOf. *)
HeldNodes(g) == {n \in NodeIDs : Holds(g, n)}
LocationsOf(g, n) == IF Holds(g, n) THEN g.locations[g.indexByID[n]] ELSE {}
HeldLocations(g) == [n \in NodeIDs |-> LocationsOf(g, n)]
HeldEdges(g) == [a \in NodeIDs |-> [b \in NodeIDs |-> EdgeKindOf(g, a, b)]]

Abstract == INSTANCE PackageGraph WITH
    nodes     <- HeldNodes(graph),
    locations <- HeldLocations(graph),
    kind      <- HeldEdges(graph)

(* The slot store implements the graph its callers are promised: whatever slots
   nodes come to occupy, every operation changes what can be seen exactly as
   PackageGraph says. *)
ImplementsPackageGraph == Abstract!Spec

(* An edge that asserts a dependency asserts it for as long as both its nodes
   and the edge exist: no fold, restatement or promotion turns it into a
   structural one (MergeEdgeKind, edge.go). *)
DependencyClaimNeverWeakens ==
    [][\A a, b \in NodeIDs :
          /\ EdgeKindOf(graph, a, b) = EdgeKindDependsOn
          /\ EdgeKindOf(graph', a, b) # NoEdge
          => EdgeKindOf(graph', a, b) = EdgeKindDependsOn]_graph

(* PromoteToModule keeps the node's edges: every other node joined to it is
   joined to the module afterwards, and a dependency claim stays one. *)
PromotionKeepsEdges ==
    [][\A n \in NodeIDs, m \in ModuleIDs : PromoteToModule(n, m) =>
          \A a \in NodeIDs \ {n, m} :
              /\ EdgeKindOf(graph, a, n) # NoEdge =>
                    EdgeKindOf(graph', a, m) \in {EdgeKindOf(graph, a, n), EdgeKindDependsOn}
              /\ EdgeKindOf(graph, n, a) # NoEdge =>
                    EdgeKindOf(graph', m, a) \in {EdgeKindOf(graph, n, a), EdgeKindDependsOn}
              /\ EdgeKindOf(graph, a, n) = EdgeKindDependsOn =>
                    EdgeKindOf(graph', a, m) = EdgeKindDependsOn]_graph
=============================================================================
