-------------------------- MODULE GraphStoreProofs --------------------------
(***************************************************************************)
(* The slot store keeps its invariant, and implements PackageGraph, for    *)
(* every set of nodes and sites and every bound on the table.  Each        *)
(* operation has a lemma on the record it computes; the theorems put them  *)
(* together.                                                               *)
(***************************************************************************)
EXTENDS GraphStore, SequenceTheorems, TLAPS

USE KindsDisjoint, StoreAssumption

(* What any merge of two edge kinds can be. *)
LEMMA MergeKinds ==
    ASSUME NEW c \in EdgeKind \cup {NoEdge}, NEW k \in EdgeKind \cup {NoEdge}
    PROVE  /\ MergeEdgeKind(c, k) \in EdgeKind \cup {NoEdge}
           /\ MergeEdgeKind(c, k) = NoEdge <=> c = NoEdge /\ k = NoEdge
           /\ MergeEdgeKind(c, NoEdge) = c
           /\ c = EdgeKindDependsOn => MergeEdgeKind(c, k) = EdgeKindDependsOn
  BY DEF MergeEdgeKind, EdgeKind, NoEdge, EdgeKindUnknown, EdgeKindDependsOn, EdgeKindDescribes

(* An unstated kind is derived, never left unstated. *)
LEMMA StatedKinds ==
    ASSUME NEW a \in NodeIDs, NEW b \in NodeIDs, NEW k \in EdgeKind \cup {EdgeKindUnknown}
    PROVE  StatedEdgeKind(a, b, k) \in EdgeKind
  BY DEF StatedEdgeKind, DeriveEdgeKind, EdgeKind, EdgeKindUnknown, EdgeKindDependsOn, EdgeKindDescribes

(* A new graph is sound. *)
LEMMA EmptySound == SoundStore(EmptyGraph)
  <1> DEFINE g == EmptyGraph
  <1>1. g \in Store
    BY DEF EmptyGraph, Store, NoEdges, NoSlot
  <1>2. IndexSound(g)
    BY DEF EmptyGraph, IndexSound, Holds
  <1>3. EdgesSound(g)
    BY DEF EmptyGraph, EdgesSound, NoEdges
  <1>4. FreeSound(g)
    BY DEF EmptyGraph, FreeSound
  <1>5. QED BY <1>1, <1>2, <1>3, <1>4 DEF SoundStore

(* The slot the next insertion takes is a dead slot, and once it is taken the
   free list holds exactly the dead slots that remain. *)
LEMMA NextSlotDead ==
    ASSUME NEW g, SoundStore(g), CanAllocate(g)
    PROVE  /\ NextSlot(g) \in Slots
           /\ ~g.alive[NextSlot(g)]
           /\ FreeAfterNextSlot(g) \in Seq(Slots)
           /\ \A i \in 1 .. Len(FreeAfterNextSlot(g)) :
                 FreeAfterNextSlot(g)[i] = g.free[i] /\ g.free[i] # NextSlot(g)
           /\ g.free = << >> => /\ FreeAfterNextSlot(g) = << >>
                                /\ NextSlot(g) = g.slots + 1
                                /\ g.slots < MaxSlots
           /\ g.free # << >> => /\ Len(FreeAfterNextSlot(g)) = Len(g.free) - 1
                                /\ Len(g.free) \in Nat \ {0}
                                /\ NextSlot(g) = g.free[Len(g.free)]
                                /\ NextSlot(g) <= g.slots
  <1>1. g.free \in Seq(Slots) /\ g.slots \in 0 .. MaxSlots /\ g.alive \in [Slots -> BOOLEAN]
    BY DEF SoundStore, Store
  <1>2. CASE g.free = << >>
    BY <1>1, <1>2 DEF NextSlot, FreeAfterNextSlot, CanAllocate, SoundStore, FreeSound, Slots
  <1>3. CASE g.free # << >>
    <2> DEFINE last == Len(g.free)
    <2>1. last \in Nat \ {0} /\ g.free[last] \in Slots
      BY <1>1, <1>3, EmptySeq, ElementOfSeq, LenProperties
    <2>2. NextSlot(g) = g.free[last] /\ FreeAfterNextSlot(g) = SubSeq(g.free, 1, last - 1)
      BY <1>3 DEF NextSlot, FreeAfterNextSlot
    <2>3. /\ SubSeq(g.free, 1, last - 1) \in Seq(Slots)
          /\ Len(SubSeq(g.free, 1, last - 1)) = last - 1
          /\ \A i \in 1 .. last - 1 : SubSeq(g.free, 1, last - 1)[i] = g.free[i]
      BY <1>1, <2>1, SubSeqProperties
    <2>4. \A i \in 1 .. last - 1 : g.free[i] # g.free[last]
      BY <2>1 DEF SoundStore, FreeSound
    <2>5. ~g.alive[g.free[last]] /\ g.free[last] <= g.slots
      BY <2>1 DEF SoundStore, FreeSound
    <2>6. QED BY <1>3, <2>1, <2>2, <2>3, <2>4, <2>5
  <1>4. QED BY <1>2, <1>3

(* A node added where none is held takes a dead slot and brings no edge. *)
LEMMA WithNodeSound ==
    ASSUME NEW g, SoundStore(g), NEW n \in NodeIDs, ~Holds(g, n), CanAllocate(g),
           NEW seen \in SUBSET Sites
    PROVE  SoundStore(WithNode(g, n, seen))
  <1> DEFINE s == NextSlot(g)
             h == WithNode(g, n, seen)
  <1>0. g \in Store /\ IndexSound(g) /\ EdgesSound(g) /\ FreeSound(g)
    BY DEF SoundStore
  <1>1. s \in Slots /\ ~g.alive[s]
    BY NextSlotDead
  <1>t. /\ g.indexByID \in [NodeIDs -> Slots \cup {NoSlot}]
        /\ g.nodes \in [Slots -> NodeIDs \cup {NoNode}]
        /\ g.locations \in [Slots -> SUBSET Sites]
        /\ g.alive \in [Slots -> BOOLEAN]
        /\ g.outgoing \in [Slots -> [Slots -> EdgeKind \cup {NoEdge}]]
        /\ g.incoming \in [Slots -> [Slots -> EdgeKind \cup {NoEdge}]]
        /\ g.free \in Seq(Slots)
        /\ g.slots \in 0 .. MaxSlots
        /\ g.size \in Int
    BY <1>0 DEF Store
  <1>2. /\ h.indexByID = [g.indexByID EXCEPT ![n] = s]
        /\ h.nodes = [g.nodes EXCEPT ![s] = n]
        /\ h.locations = [g.locations EXCEPT ![s] = seen]
        /\ h.alive = [g.alive EXCEPT ![s] = TRUE]
        /\ h.outgoing = [g.outgoing EXCEPT ![s] = NoEdges]
        /\ h.incoming = [g.incoming EXCEPT ![s] = NoEdges]
        /\ h.free = FreeAfterNextSlot(g)
        /\ h.slots = IF g.free # << >> THEN g.slots ELSE g.slots + 1
        /\ h.size = g.size + 1
    BY DEF WithNode, SlotsAfterNextSlot
  <1>3. h \in Store
    <2>1. h.slots \in 0 .. MaxSlots /\ h.free \in Seq(Slots)
      BY <1>0, <1>2, NextSlotDead DEF Store
    <2>2. NoEdges \in [Slots -> EdgeKind \cup {NoEdge}]
      BY DEF NoEdges
    <2>3. QED BY <1>0, <1>1, <2>1, <2>2 DEF WithNode, Store
  <1> HIDE DEF h, s
  <1>4. IndexSound(h)
    <2>0. s # NoSlot
      BY <1>1 DEF Slots, NoSlot
    <2>1. ASSUME NEW m \in NodeIDs, Holds(h, m)
          PROVE  h.alive[h.indexByID[m]] /\ h.nodes[h.indexByID[m]] = m
      <3>1. CASE m = n
        BY <1>1, <1>2, <1>t, <3>1
      <3>2. CASE m # n
        <4>1. h.indexByID[m] = g.indexByID[m] /\ Holds(g, m)
          BY <1>2, <1>t, <2>1, <3>2 DEF Holds
        <4>2. g.alive[g.indexByID[m]] /\ g.nodes[g.indexByID[m]] = m /\ g.indexByID[m] \in Slots
          BY <1>0, <1>t, <4>1 DEF IndexSound, Holds
        <4>3. g.indexByID[m] # s
          BY <1>1, <4>2
        <4>4. QED BY <1>2, <1>t, <4>1, <4>2, <4>3
      <3>3. QED BY <3>1, <3>2
    <2>2. ASSUME NEW r \in Slots
          PROVE  IF h.alive[r]
                 THEN h.nodes[r] \in NodeIDs /\ h.indexByID[h.nodes[r]] = r
                 ELSE h.nodes[r] = NoNode /\ h.locations[r] = {}
      <3>1. CASE r = s
        BY <1>1, <1>2, <1>t, <3>1
      <3>2. CASE r # s
        <4>1. h.alive[r] = g.alive[r] /\ h.nodes[r] = g.nodes[r] /\ h.locations[r] = g.locations[r]
          BY <1>2, <1>t, <3>2
        <4>2. g.alive[r] => g.nodes[r] # n
          BY <1>0 DEF IndexSound, Holds, NoSlot, Slots
        <4>3. QED BY <1>0, <1>2, <1>t, <4>1, <4>2 DEF IndexSound
      <3>3. QED BY <3>1, <3>2
    <2>3. QED BY <2>1, <2>2 DEF IndexSound
  <1>5. EdgesSound(h)
    BY <1>0, <1>1, <1>2, <1>t DEF EdgesSound, NoEdges
  <1>6. FreeSound(h)
    <2>0. /\ \A r \in Slots : h.alive[r] <=> g.alive[r] \/ r = s
          /\ h.size = g.size + 1
          /\ h.alive \in [Slots -> BOOLEAN]
      BY <1>1, <1>2, <1>t
    <2>f. /\ \A i \in 1 .. Len(g.free) : g.free[i] <= g.slots /\ ~g.alive[g.free[i]]
          /\ \A i, j \in 1 .. Len(g.free) : g.free[i] = g.free[j] => i = j
          /\ \A r \in 1 .. g.slots : g.alive[r] \/ \E i \in 1 .. Len(g.free) : g.free[i] = r
          /\ \A r \in Slots : g.alive[r] => r <= g.slots
          /\ g.size + Len(g.free) = g.slots
      BY <1>0 DEF FreeSound
    <2>1. CASE g.free = << >>
      <3>1. h.free = << >> /\ Len(h.free) = 0 /\ Len(g.free) = 0 /\ h.slots = g.slots + 1
        BY <1>2, <2>1, NextSlotDead
      <3>2. s = g.slots + 1
        BY <2>1, NextSlotDead DEF s
      <3>3. \A r \in 1 .. g.slots : g.alive[r]
        BY <2>f, <3>1
      <3>4. ASSUME NEW r \in 1 .. h.slots
            PROVE  h.alive[r]
        <4>1. r \in Slots
          BY <1>1, <1>t, <3>1, <3>2 DEF Slots
        <4>2. r \in 1 .. g.slots \/ r = s
          BY <1>t, <3>1, <3>2
        <4>3. QED BY <2>0, <3>3, <4>1, <4>2
      <3>5. ASSUME NEW r \in Slots, h.alive[r]
            PROVE  r <= h.slots
        <4>1. r <= g.slots \/ r = s
          BY <2>0, <2>f, <3>5
        <4>2. r \in Int
          BY DEF Slots
        <4>3. QED BY <1>t, <3>1, <3>2, <4>1, <4>2
      <3>6. h.size + Len(h.free) = h.slots
        BY <1>t, <2>0, <2>f, <3>1
      <3>7. QED BY <3>1, <3>4, <3>5, <3>6 DEF FreeSound
    <2>2. CASE g.free # << >>
      <3>1. /\ h.free \in Seq(Slots)
            /\ Len(h.free) = Len(g.free) - 1
            /\ Len(g.free) \in Nat \ {0}
            /\ s = g.free[Len(g.free)]
            /\ \A i \in 1 .. Len(h.free) : h.free[i] = g.free[i] /\ g.free[i] # s
            /\ h.slots = g.slots
            /\ s <= g.slots
        BY <1>2, <2>2, NextSlotDead DEF s
      <3>2. \A i \in 1 .. Len(g.free) : g.free[i] \in Slots
        BY <1>t, ElementOfSeq
      <3>3. ASSUME NEW i \in 1 .. Len(h.free)
            PROVE  h.free[i] <= h.slots /\ ~h.alive[h.free[i]]
        <4>1. i \in 1 .. Len(g.free) /\ h.free[i] = g.free[i] /\ g.free[i] # s
          BY <3>1
        <4>2. g.free[i] <= g.slots /\ ~g.alive[g.free[i]] /\ g.free[i] \in Slots
          BY <2>f, <3>2, <4>1
        <4>3. QED BY <2>0, <3>1, <4>1, <4>2
      <3>4. \A i, j \in 1 .. Len(h.free) : h.free[i] = h.free[j] => i = j
        BY <2>f, <3>1
      <3>5. ASSUME NEW r \in 1 .. h.slots
            PROVE  h.alive[r] \/ \E i \in 1 .. Len(h.free) : h.free[i] = r
        <4>1. r \in Slots
          BY <1>t, <3>1 DEF Slots
        <4>2. CASE g.alive[r] \/ r = s
          BY <2>0, <4>1, <4>2
        <4>3. CASE ~g.alive[r] /\ r # s
          <5>1. PICK i \in 1 .. Len(g.free) : g.free[i] = r
            BY <2>f, <3>1, <4>3
          <5>2. i \in 1 .. Len(h.free)
            BY <3>1, <4>3, <5>1
          <5>3. QED BY <3>1, <5>1, <5>2
        <4>4. QED BY <4>2, <4>3
      <3>6. \A r \in Slots : h.alive[r] => r <= h.slots
        BY <2>0, <2>f, <3>1
      <3>7. h.size + Len(h.free) = h.slots
        BY <1>t, <2>0, <2>f, <3>1
      <3>8. QED BY <3>3, <3>4, <3>5, <3>6, <3>7 DEF FreeSound
    <2>3. QED BY <2>1, <2>2
  <1>7. QED BY <1>3, <1>4, <1>5, <1>6 DEF SoundStore, h

(* Folding a second witness touches nothing but the survivor's locations. *)
LEMMA FoldedSound ==
    ASSUME NEW g, SoundStore(g), NEW n \in NodeIDs, Holds(g, n), NEW seen \in SUBSET Sites
    PROVE  SoundStore(Folded(g, n, seen))
  <1> DEFINE s == g.indexByID[n]
             h == Folded(g, n, seen)
  <1>0. g \in Store /\ IndexSound(g) /\ EdgesSound(g) /\ FreeSound(g)
    BY DEF SoundStore
  <1>1. s \in Slots /\ g.alive[s]
    BY <1>0 DEF Store, Holds, IndexSound
  <1>2. h = [g EXCEPT !.locations = [g.locations EXCEPT ![s] = g.locations[s] \cup seen]]
    BY <1>0, <1>1 DEF Folded, Store
  <1> HIDE DEF h
  <1>3. h \in Store
    BY <1>0, <1>1, <1>2 DEF Store
  <1>4. IndexSound(h) /\ EdgesSound(h) /\ FreeSound(h)
    BY <1>0, <1>1, <1>2 DEF Store, IndexSound, EdgesSound, FreeSound, Holds
  <1>5. QED BY <1>3, <1>4 DEF SoundStore, h

(* Adding a node, new or already held, keeps a graph sound. *)
LEMMA InsertedSound ==
    ASSUME NEW g, SoundStore(g), NEW n \in NodeIDs, Holds(g, n) \/ CanAllocate(g),
           NEW seen \in SUBSET Sites
    PROVE  SoundStore(Inserted(g, n, seen))
  BY WithNodeSound, FoldedSound DEF Inserted

(* An edge written in both tables keeps them mirrors of each other. *)
LEMMA WithEdgeSound ==
    ASSUME NEW g, SoundStore(g), NEW a \in NodeIDs, NEW b \in NodeIDs, a # b,
           Holds(g, a), Holds(g, b), NEW k \in EdgeKind \cup {EdgeKindUnknown}
    PROVE  SoundStore(WithEdge(g, a, b, k))
  <1> DEFINE s == g.indexByID[a]
             t == g.indexByID[b]
             merged == MergeEdgeKind(g.outgoing[s][t], StatedEdgeKind(a, b, k))
             h == WithEdge(g, a, b, k)
  <1>0. g \in Store /\ IndexSound(g) /\ EdgesSound(g) /\ FreeSound(g)
    BY DEF SoundStore
  <1>1. s \in Slots /\ t \in Slots /\ g.alive[s] /\ g.alive[t] /\ s # t
    BY <1>0 DEF Store, Holds, IndexSound
  <1>2. merged \in EdgeKind \cup {NoEdge}
    <2>1. g.outgoing[s][t] \in EdgeKind \cup {NoEdge}
      BY <1>0, <1>1 DEF Store
    <2>2. StatedEdgeKind(a, b, k) \in EdgeKind \cup {NoEdge}
      BY StatedKinds
    <2>3. QED BY <2>1, <2>2, MergeKinds
  <1> HIDE DEF merged
  <1>3. h = [g EXCEPT !.outgoing = [g.outgoing EXCEPT ![s] = [g.outgoing[s] EXCEPT ![t] = merged]],
                      !.incoming = [g.incoming EXCEPT ![t] = [g.incoming[t] EXCEPT ![s] = merged]]]
    BY <1>0, <1>1 DEF WithEdge, Store, merged
  <1> HIDE DEF h, s, t
  <1>4. h \in Store
    BY <1>0, <1>1, <1>2, <1>3 DEF Store
  <1>5. IndexSound(h) /\ FreeSound(h)
    BY <1>0, <1>3 DEF Store, IndexSound, FreeSound, Holds
  <1>6. EdgesSound(h)
    BY <1>0, <1>1, <1>2, <1>3 DEF Store, EdgesSound
  <1>7. QED BY <1>4, <1>5, <1>6 DEF SoundStore, h

(* Removing an edge, there or not, keeps a graph sound. *)
LEMMA WithoutEdgeSound ==
    ASSUME NEW g, SoundStore(g), NEW a \in NodeIDs, NEW b \in NodeIDs,
           Holds(g, a), Holds(g, b)
    PROVE  SoundStore(WithoutEdge(g, a, b))
  <1> DEFINE s == g.indexByID[a]
             t == g.indexByID[b]
             h == WithoutEdge(g, a, b)
  <1>0. g \in Store /\ IndexSound(g) /\ EdgesSound(g) /\ FreeSound(g)
    BY DEF SoundStore
  <1>1. s \in Slots /\ t \in Slots
    BY <1>0 DEF Store, Holds
  <1>2. h = [g EXCEPT !.outgoing = [g.outgoing EXCEPT ![s] = [g.outgoing[s] EXCEPT ![t] = NoEdge]],
                      !.incoming = [g.incoming EXCEPT ![t] = [g.incoming[t] EXCEPT ![s] = NoEdge]]]
    BY <1>0, <1>1 DEF WithoutEdge, Store
  <1> HIDE DEF h, s, t
  <1>3. h \in Store
    BY <1>0, <1>1, <1>2 DEF Store
  <1>4. IndexSound(h) /\ FreeSound(h)
    BY <1>0, <1>2 DEF Store, IndexSound, FreeSound, Holds
  <1>5. EdgesSound(h)
    BY <1>0, <1>1, <1>2 DEF Store, EdgesSound
  <1>6. QED BY <1>3, <1>4, <1>5 DEF SoundStore, h

(* Every neighbour's entry is found through the removed node's own tables,
   because the two tables mirror each other. *)
LEMMA WithoutNodeSound ==
    ASSUME NEW g, SoundStore(g), NEW n \in NodeIDs, Holds(g, n)
    PROVE  /\ SoundStore(WithoutNode(g, n))
           /\ CanAllocate(WithoutNode(g, n))
           /\ ~Holds(WithoutNode(g, n), n)
  <1> DEFINE s == g.indexByID[n]
             h == WithoutNode(g, n)
  <1>0. g \in Store /\ IndexSound(g) /\ EdgesSound(g) /\ FreeSound(g)
    BY DEF SoundStore
  <1>t. /\ g.indexByID \in [NodeIDs -> Slots \cup {NoSlot}]
        /\ g.nodes \in [Slots -> NodeIDs \cup {NoNode}]
        /\ g.locations \in [Slots -> SUBSET Sites]
        /\ g.alive \in [Slots -> BOOLEAN]
        /\ g.outgoing \in [Slots -> [Slots -> EdgeKind \cup {NoEdge}]]
        /\ g.incoming \in [Slots -> [Slots -> EdgeKind \cup {NoEdge}]]
        /\ g.free \in Seq(Slots)
        /\ g.slots \in 0 .. MaxSlots
        /\ g.size \in Int
    BY <1>0 DEF Store
  <1>1. s \in Slots /\ g.alive[s] /\ g.nodes[s] = n /\ s # NoSlot /\ s <= g.slots
    BY <1>0, <1>t DEF IndexSound, FreeSound, Holds
  <1>2. /\ h.indexByID = [g.indexByID EXCEPT ![n] = NoSlot]
        /\ h.nodes = [g.nodes EXCEPT ![s] = NoNode]
        /\ h.locations = [g.locations EXCEPT ![s] = {}]
        /\ h.alive = [g.alive EXCEPT ![s] = FALSE]
        /\ h.free = Append(g.free, s)
        /\ h.slots = g.slots
        /\ h.size = g.size - 1
    BY DEF WithoutNode
  <1>e. /\ h.outgoing = [t \in Slots |->
              IF t = s THEN NoEdges
              ELSE IF g.incoming[s][t] # NoEdge THEN [g.outgoing[t] EXCEPT ![s] = NoEdge]
              ELSE g.outgoing[t]]
        /\ h.incoming = [t \in Slots |->
              IF t = s THEN NoEdges
              ELSE IF g.outgoing[s][t] # NoEdge THEN [g.incoming[t] EXCEPT ![s] = NoEdge]
              ELSE g.incoming[t]]
    BY DEF WithoutNode
  <1>r. h = [indexByID |-> h.indexByID, nodes |-> h.nodes, locations |-> h.locations,
             alive |-> h.alive, outgoing |-> h.outgoing, incoming |-> h.incoming,
             free |-> h.free, slots |-> h.slots, size |-> h.size]
    BY DEF WithoutNode
  <1> HIDE DEF h
  <1>3. \A t, u \in Slots :
          /\ h.outgoing[t][u] = IF t = s \/ u = s THEN NoEdge ELSE g.outgoing[t][u]
          /\ h.incoming[t][u] = IF t = s \/ u = s THEN NoEdge ELSE g.incoming[t][u]
    <2> SUFFICES ASSUME NEW t \in Slots, NEW u \in Slots
                 PROVE  /\ h.outgoing[t][u] = IF t = s \/ u = s THEN NoEdge ELSE g.outgoing[t][u]
                        /\ h.incoming[t][u] = IF t = s \/ u = s THEN NoEdge ELSE g.incoming[t][u]
      OBVIOUS
    <2>1. g.outgoing[t] \in [Slots -> EdgeKind \cup {NoEdge}]
          /\ g.incoming[t] \in [Slots -> EdgeKind \cup {NoEdge}]
      BY <1>t
    <2>2. g.incoming[s][t] = g.outgoing[t][s] /\ g.outgoing[s][t] = g.incoming[t][s]
      BY <1>0, <1>1 DEF EdgesSound
    <2>3. CASE t = s
      <3>1. h.outgoing[t] = NoEdges /\ h.incoming[t] = NoEdges
        BY <1>e, <2>3
      <3>2. QED BY <2>3, <3>1 DEF NoEdges
    <2>4. CASE t # s
      <3>1. h.outgoing[t] = IF g.incoming[s][t] # NoEdge
                            THEN [g.outgoing[t] EXCEPT ![s] = NoEdge] ELSE g.outgoing[t]
        BY <1>e, <2>4
      <3>2. h.incoming[t] = IF g.outgoing[s][t] # NoEdge
                            THEN [g.incoming[t] EXCEPT ![s] = NoEdge] ELSE g.incoming[t]
        BY <1>e, <2>4
      <3>3. QED BY <2>1, <2>2, <2>4, <3>1, <3>2
    <2>5. QED BY <2>3, <2>4
  <1>4. h.outgoing \in [Slots -> [Slots -> EdgeKind \cup {NoEdge}]]
        /\ h.incoming \in [Slots -> [Slots -> EdgeKind \cup {NoEdge}]]
    <2>1. ASSUME NEW t \in Slots
          PROVE  /\ h.outgoing[t] \in [Slots -> EdgeKind \cup {NoEdge}]
                 /\ h.incoming[t] \in [Slots -> EdgeKind \cup {NoEdge}]
      <3>1. NoEdges \in [Slots -> EdgeKind \cup {NoEdge}]
        BY DEF NoEdges
      <3>2. /\ h.outgoing[t] \in {NoEdges, [g.outgoing[t] EXCEPT ![s] = NoEdge], g.outgoing[t]}
            /\ h.incoming[t] \in {NoEdges, [g.incoming[t] EXCEPT ![s] = NoEdge], g.incoming[t]}
        BY <1>e
      <3>3. /\ [g.outgoing[t] EXCEPT ![s] = NoEdge] \in [Slots -> EdgeKind \cup {NoEdge}]
            /\ [g.incoming[t] EXCEPT ![s] = NoEdge] \in [Slots -> EdgeKind \cup {NoEdge}]
            /\ g.outgoing[t] \in [Slots -> EdgeKind \cup {NoEdge}]
            /\ g.incoming[t] \in [Slots -> EdgeKind \cup {NoEdge}]
        BY <1>t
      <3>4. QED BY <3>1, <3>2, <3>3
    <2>2. /\ h.outgoing = [t \in Slots |-> h.outgoing[t]]
          /\ h.incoming = [t \in Slots |-> h.incoming[t]]
      BY <1>e
    <2>3. QED BY <2>1, <2>2
  <1>5. /\ h.free \in Seq(Slots)
        /\ Len(h.free) = Len(g.free) + 1
        /\ \A i \in 1 .. Len(g.free) : h.free[i] = g.free[i] /\ g.free[i] \in Slots
        /\ h.free[Len(g.free) + 1] = s
        /\ Len(g.free) \in Nat
    BY <1>t, <1>1, <1>2, AppendProperties, ElementOfSeq, LenProperties
  <1>6. h \in Store
    <2>1. h.indexByID \in [NodeIDs -> Slots \cup {NoSlot}]
      BY <1>t, <1>2
    <2>2. h.nodes \in [Slots -> NodeIDs \cup {NoNode}]
      BY <1>t, <1>2
    <2>3. h.locations \in [Slots -> SUBSET Sites]
      BY <1>t, <1>2
    <2>4. h.alive \in [Slots -> BOOLEAN]
      BY <1>t, <1>2
    <2>5. h.slots \in 0 .. MaxSlots /\ h.size \in Int
      BY <1>t, <1>2
    <2>6. h.free \in Seq(Slots)
      BY <1>5
    <2>7. QED BY <1>r, <1>4, <2>1, <2>2, <2>3, <2>4, <2>5, <2>6 DEF Store
  <1>7. IndexSound(h)
    <2>1. ASSUME NEW m \in NodeIDs, Holds(h, m)
          PROVE  h.alive[h.indexByID[m]] /\ h.nodes[h.indexByID[m]] = m
      <3>1. m # n /\ h.indexByID[m] = g.indexByID[m] /\ Holds(g, m)
        BY <1>t, <1>2, <2>1 DEF Holds
      <3>2. g.alive[g.indexByID[m]] /\ g.nodes[g.indexByID[m]] = m /\ g.indexByID[m] \in Slots
        BY <1>0, <1>t, <3>1 DEF IndexSound, Holds
      <3>3. QED BY <1>t, <1>1, <1>2, <3>1, <3>2
    <2>2. ASSUME NEW r \in Slots
          PROVE  IF h.alive[r]
                 THEN h.nodes[r] \in NodeIDs /\ h.indexByID[h.nodes[r]] = r
                 ELSE h.nodes[r] = NoNode /\ h.locations[r] = {}
      <3>1. CASE r = s
        BY <1>t, <1>1, <1>2, <3>1
      <3>2. CASE r # s
        <4>1. h.alive[r] = g.alive[r] /\ h.nodes[r] = g.nodes[r] /\ h.locations[r] = g.locations[r]
          BY <1>t, <1>2, <3>2
        <4>2. g.alive[r] => g.nodes[r] # n
          BY <1>0, <3>2 DEF IndexSound
        <4>3. QED BY <1>0, <1>t, <1>2, <4>1, <4>2 DEF IndexSound
      <3>3. QED BY <3>1, <3>2
    <2>3. QED BY <2>1, <2>2 DEF IndexSound
  <1>8. \A r \in Slots : h.alive[r] <=> g.alive[r] /\ r # s
    BY <1>t, <1>2
  <1>9. EdgesSound(h)
    <2> SUFFICES ASSUME NEW t \in Slots, NEW u \in Slots
                 PROVE  /\ h.outgoing[t][u] = h.incoming[u][t]
                        /\ h.outgoing[t][u] # NoEdge => h.alive[t] /\ h.alive[u] /\ t # u
      BY DEF EdgesSound
    <2>1. /\ g.outgoing[t][u] = g.incoming[u][t]
          /\ g.outgoing[t][u] # NoEdge => g.alive[t] /\ g.alive[u] /\ t # u
      BY <1>0 DEF EdgesSound
    <2>2. QED BY <1>3, <1>8, <2>1
  <1>10. FreeSound(h)
    <2>f. /\ \A i \in 1 .. Len(g.free) : g.free[i] <= g.slots /\ ~g.alive[g.free[i]]
          /\ \A i, j \in 1 .. Len(g.free) : g.free[i] = g.free[j] => i = j
          /\ \A r \in 1 .. g.slots : g.alive[r] \/ \E i \in 1 .. Len(g.free) : g.free[i] = r
          /\ \A r \in Slots : g.alive[r] => r <= g.slots
          /\ g.size + Len(g.free) = g.slots
      BY <1>0 DEF FreeSound
    <2>0. \A i \in 1 .. Len(h.free) : i \in 1 .. Len(g.free) \/ i = Len(g.free) + 1
      BY <1>5
    <2>1. ASSUME NEW i \in 1 .. Len(h.free)
          PROVE  h.free[i] <= h.slots /\ ~h.alive[h.free[i]]
      <3>1. CASE i \in 1 .. Len(g.free)
        <4>1. h.free[i] = g.free[i] /\ g.free[i] <= g.slots /\ ~g.alive[g.free[i]] /\ g.free[i] \in Slots
          BY <1>5, <2>f, <3>1
        <4>2. QED BY <1>2, <1>8, <4>1
      <3>2. CASE i = Len(g.free) + 1
        BY <1>1, <1>2, <1>5, <1>8, <3>2
      <3>3. QED BY <2>0, <3>1, <3>2
    <2>2. \A i \in 1 .. Len(g.free) : h.free[i] # s
      BY <1>1, <1>5, <2>f
    <2>3. ASSUME NEW i \in 1 .. Len(h.free), NEW j \in 1 .. Len(h.free), h.free[i] = h.free[j]
          PROVE  i = j
      BY <1>5, <2>0, <2>2, <2>3, <2>f
    <2>4. ASSUME NEW r \in 1 .. h.slots
          PROVE  h.alive[r] \/ \E i \in 1 .. Len(h.free) : h.free[i] = r
      <3>1. r \in 1 .. g.slots /\ r \in Slots
        BY <1>t, <1>2 DEF Slots
      <3>2. CASE r = s
        <4>1. Len(g.free) + 1 \in 1 .. Len(h.free)
          BY <1>5
        <4>2. QED BY <1>5, <3>2, <4>1
      <3>3. CASE r # s /\ g.alive[r]
        BY <1>8, <3>1, <3>3
      <3>4. CASE ~g.alive[r]
        <4>1. PICK i \in 1 .. Len(g.free) : g.free[i] = r
          BY <2>f, <3>1, <3>4
        <4>2. i \in 1 .. Len(h.free) /\ h.free[i] = r
          BY <1>5, <4>1
        <4>3. QED BY <4>2
      <3>5. QED BY <3>2, <3>3, <3>4
    <2>5. \A r \in Slots : h.alive[r] => r <= h.slots
      BY <1>2, <1>8, <2>f
    <2>6. h.size + Len(h.free) = h.slots
      BY <1>t, <1>2, <1>5, <2>f
    <2>7. QED BY <2>1, <2>3, <2>4, <2>5, <2>6 DEF FreeSound
  <1>11. CanAllocate(h)
    BY <1>5, EmptySeq DEF CanAllocate
  <1>12. ~Holds(h, n)
    BY <1>t, <1>2 DEF Holds
  <1>13. QED BY <1>6, <1>7, <1>9, <1>10, <1>11, <1>12 DEF SoundStore, h

(* What is read of an edge is a kind or the absence of the edge. *)
LEMMA EdgeKindOfType ==
    ASSUME NEW g, g \in Store, NEW a \in NodeIDs, NEW b \in NodeIDs
    PROVE  EdgeKindOf(g, a, b) \in EdgeKind \cup {NoEdge}
  BY DEF Store, EdgeKindOf, Holds, NoEdge

(* Re-pointing a removed node's edges writes both tables alike, and only
   between live slots. *)
LEMMA ReattachedSound ==
    ASSUME NEW g, SoundStore(g), NEW old, SoundStore(old),
           NEW n \in NodeIDs, NEW m \in NodeIDs
    PROVE  SoundStore(Reattached(g, old, n, m))
  <1> DEFINE moved(s, t) == MovedKind(g, old, n, m, s, t)
             h == Reattached(g, old, n, m)
  <1>0. g \in Store /\ old \in Store /\ IndexSound(g) /\ EdgesSound(g) /\ FreeSound(g)
    BY DEF SoundStore
  <1>1. ASSUME NEW s \in Slots, NEW t \in Slots
        PROVE  /\ moved(s, t) \in EdgeKind \cup {NoEdge}
               /\ moved(s, t) # NoEdge => g.alive[s] /\ g.alive[t] /\ s # t
    <2>1. g.alive[s] => g.nodes[s] \in NodeIDs
      BY <1>0 DEF IndexSound
    <2>2. g.alive[t] => g.nodes[t] \in NodeIDs
      BY <1>0 DEF IndexSound
    <2>3. QED BY <1>0, <2>1, <2>2, EdgeKindOfType DEF MovedKind, NoEdge
  <1> HIDE DEF moved
  <1>2. h = [g EXCEPT
          !.outgoing = [s \in Slots |-> [t \in Slots |->
              MergeEdgeKind(g.outgoing[s][t], moved(s, t))]],
          !.incoming = [t \in Slots |-> [s \in Slots |->
              MergeEdgeKind(g.incoming[t][s], moved(s, t))]]]
    BY DEF Reattached, moved
  <1> HIDE DEF h
  <1>3. ASSUME NEW s \in Slots, NEW t \in Slots
        PROVE  /\ h.outgoing[s][t] = MergeEdgeKind(g.outgoing[s][t], moved(s, t))
               /\ h.incoming[t][s] = MergeEdgeKind(g.incoming[t][s], moved(s, t))
    BY <1>0, <1>2 DEF Store
  <1>4. ASSUME NEW s \in Slots, NEW t \in Slots
        PROVE  /\ MergeEdgeKind(g.outgoing[s][t], moved(s, t)) \in EdgeKind \cup {NoEdge}
               /\ MergeEdgeKind(g.incoming[t][s], moved(s, t)) \in EdgeKind \cup {NoEdge}
               /\ MergeEdgeKind(g.outgoing[s][t], moved(s, t)) # NoEdge =>
                     g.outgoing[s][t] # NoEdge \/ moved(s, t) # NoEdge
    <2>1. g.outgoing[s][t] \in EdgeKind \cup {NoEdge} /\ g.incoming[t][s] \in EdgeKind \cup {NoEdge}
      BY <1>0 DEF Store
    <2>2. QED BY <1>1, <2>1, MergeKinds
  <1>5. h \in Store
    BY <1>0, <1>2, <1>4 DEF Store
  <1>6. IndexSound(h) /\ FreeSound(h)
    BY <1>0, <1>2 DEF Store, IndexSound, FreeSound, Holds
  <1>7. EdgesSound(h)
    <2> SUFFICES ASSUME NEW s \in Slots, NEW t \in Slots
                 PROVE  /\ h.outgoing[s][t] = h.incoming[t][s]
                        /\ h.outgoing[s][t] # NoEdge => h.alive[s] /\ h.alive[t] /\ s # t
      BY DEF EdgesSound
    <2>1. /\ g.outgoing[s][t] = g.incoming[t][s]
          /\ g.outgoing[s][t] # NoEdge => g.alive[s] /\ g.alive[t] /\ s # t
      BY <1>0 DEF EdgesSound
    <2>2. h.alive = g.alive
      BY <1>0, <1>2 DEF Store
    <2>3. QED BY <1>1, <1>3, <1>4, <2>1, <2>2
  <1>8. QED BY <1>5, <1>6, <1>7 DEF SoundStore, h

(* Promoting a node keeps a graph sound. *)
LEMMA PromotedSound ==
    ASSUME NEW g, SoundStore(g), NEW n \in NodeIDs, Holds(g, n), NEW m \in NodeIDs
    PROVE  SoundStore(Promoted(g, n, m))
  <1>1. g.locations[g.indexByID[n]] \in SUBSET Sites
    BY DEF SoundStore, Store, Holds
  <1>2. SoundStore(WithoutNode(g, n)) /\ CanAllocate(WithoutNode(g, n))
    BY WithoutNodeSound
  <1>3. SoundStore(Inserted(WithoutNode(g, n), m, g.locations[g.indexByID[n]]))
    BY <1>1, <1>2, InsertedSound
  <1>4. QED BY <1>3, ReattachedSound DEF Promoted
-----------------------------------------------------------------------------
(* The index, the slots, the adjacency tables and the free list of a graph
   agree after any sequence of operations. *)
THEOREM StoreAlwaysSound == Spec => []StoreInv
  <1>1. Init => StoreInv
    BY EmptySound DEF Init, StoreInv
  <1>2. StoreInv /\ [Next]_graph => StoreInv'
    <2> SUFFICES ASSUME SoundStore(graph), [Next]_graph
                 PROVE  SoundStore(graph')
      BY DEF StoreInv
    <2>0. ASSUME NEW n \in NodeIDs, NEW seen \in SUBSET SitesOf(n)
          PROVE  seen \in SUBSET Sites
      BY DEF SitesOf
    <2>1. ASSUME NEW n \in NodeIDs, NEW seen \in SUBSET SitesOf(n), AddNode(n, seen)
          PROVE  SoundStore(graph')
      BY <2>0, <2>1, WithNodeSound DEF AddNode
    <2>2. ASSUME NEW n \in NodeIDs, NEW seen \in SUBSET SitesOf(n), InsertNode(n, seen)
          PROVE  SoundStore(graph')
      BY <2>0, <2>2, InsertedSound DEF InsertNode
    <2>3. ASSUME NEW a \in NodeIDs, NEW b \in NodeIDs, NEW k \in EdgeKind \cup {EdgeKindUnknown},
                 AddTypedEdge(a, b, k)
          PROVE  SoundStore(graph')
      BY <2>3, WithEdgeSound DEF AddTypedEdge
    <2>4. ASSUME NEW a \in NodeIDs, NEW b \in NodeIDs, RemoveEdge(a, b)
          PROVE  SoundStore(graph')
      BY <2>4, WithoutEdgeSound DEF RemoveEdge, EdgeKindOf, NoEdge
    <2>5. ASSUME NEW n \in NodeIDs, RemoveNode(n)
          PROVE  SoundStore(graph')
      BY <2>5, WithoutNodeSound DEF RemoveNode
    <2>6. ASSUME NEW n \in NodeIDs, NEW m \in ModuleIDs, PromoteToModule(n, m)
          PROVE  SoundStore(graph')
      BY <2>6, PromotedSound DEF PromoteToModule, NodeIDs
    <2>7. CASE UNCHANGED graph
      BY <2>7
    <2>8. QED BY <2>1, <2>2, <2>3, <2>4, <2>5, <2>6, <2>7 DEF Next
  <1>3. QED BY <1>1, <1>2, PTL DEF Spec
-----------------------------------------------------------------------------
(* What a caller sees of each operation's result, node by node. *)

(* A held node's slot is live and is no other node's. *)
LEMMA HeldSlot ==
    ASSUME NEW g, SoundStore(g), NEW a \in NodeIDs, Holds(g, a)
    PROVE  /\ g.indexByID[a] \in Slots
           /\ g.alive[g.indexByID[a]]
           /\ g.nodes[g.indexByID[a]] = a
           /\ \A b \in NodeIDs : Holds(g, b) /\ g.indexByID[a] = g.indexByID[b] => a = b
  BY DEF SoundStore, Store, IndexSound, Holds

(* What a caller sees of a graph after a new node is stored. *)
LEMMA WithNodeSeen ==
    ASSUME NEW g, SoundStore(g), NEW n \in NodeIDs, ~Holds(g, n), CanAllocate(g),
           NEW seen \in SUBSET Sites
    PROVE  LET h == WithNode(g, n, seen)
           IN /\ \A a \in NodeIDs : Holds(h, a) <=> Holds(g, a) \/ a = n
              /\ \A a \in NodeIDs : LocationsOf(h, a) = IF a = n THEN seen ELSE LocationsOf(g, a)
              /\ \A a, b \in NodeIDs : EdgeKindOf(h, a, b) = EdgeKindOf(g, a, b)
  <1> DEFINE s == NextSlot(g)
             h == WithNode(g, n, seen)
  <1>0. g \in Store /\ h \in Store
    BY WithNodeSound DEF SoundStore
  <1>1. s \in Slots /\ ~g.alive[s] /\ s # NoSlot
    BY NextSlotDead DEF Slots, NoSlot
  <1>2. /\ h.indexByID = [g.indexByID EXCEPT ![n] = s]
        /\ h.locations = [g.locations EXCEPT ![s] = seen]
        /\ h.outgoing = [g.outgoing EXCEPT ![s] = NoEdges]
    BY DEF WithNode
  <1>t. /\ g.indexByID \in [NodeIDs -> Slots \cup {NoSlot}]
        /\ g.locations \in [Slots -> SUBSET Sites]
        /\ g.outgoing \in [Slots -> [Slots -> EdgeKind \cup {NoEdge}]]
    BY <1>0 DEF Store
  <1> HIDE DEF h, s
  <1>3. \A a \in NodeIDs : h.indexByID[a] = IF a = n THEN s ELSE g.indexByID[a]
    BY <1>2, <1>t
  <1>4. \A a \in NodeIDs : Holds(h, a) <=> Holds(g, a) \/ a = n
    BY <1>1, <1>3 DEF Holds
  <1>5. \A a \in NodeIDs : Holds(g, a) => a # n /\ g.indexByID[a] \in Slots /\ g.indexByID[a] # s
    BY <1>1, HeldSlot
  <1>6. \A a \in NodeIDs : LocationsOf(h, a) = IF a = n THEN seen ELSE LocationsOf(g, a)
    BY <1>1, <1>2, <1>3, <1>4, <1>5, <1>t DEF LocationsOf
  <1>7. ASSUME NEW a \in NodeIDs, NEW b \in NodeIDs
        PROVE  EdgeKindOf(h, a, b) = EdgeKindOf(g, a, b)
    <2>1. CASE Holds(g, a) /\ Holds(g, b)
      BY <1>2, <1>3, <1>4, <1>5, <1>t, <2>1 DEF EdgeKindOf
    <2>2. CASE a = n /\ Holds(h, b)
      BY <1>1, <1>2, <1>3, <1>5, <1>t, <2>2 DEF EdgeKindOf, NoEdges, NoEdge, Holds
    <2>3. CASE b = n /\ Holds(h, a)
      <3>1. CASE a = n
        BY <2>2, <2>3, <3>1
      <3>2. CASE a # n
        <4>1. Holds(g, a) /\ ~Holds(g, b) /\ h.indexByID[b] = s /\ h.indexByID[a] = g.indexByID[a]
          BY <1>3, <1>4, <2>3, <3>2
        <4>2. h.outgoing[g.indexByID[a]][s] = g.outgoing[g.indexByID[a]][s]
          BY <1>2, <1>5, <1>t, <4>1
        <4>3. g.outgoing[g.indexByID[a]][s] = NoEdge
          BY <1>1, <1>5, <4>1 DEF SoundStore, EdgesSound
        <4>4. QED BY <2>3, <1>4, <4>1, <4>2, <4>3 DEF EdgeKindOf, NoEdge
      <3>3. QED BY <3>1, <3>2
    <2>4. CASE ~Holds(h, a) \/ ~Holds(h, b)
      BY <1>4, <2>4 DEF EdgeKindOf
    <2>5. QED BY <1>4, <2>1, <2>2, <2>3, <2>4
  <1>8. QED BY <1>4, <1>6, <1>7 DEF h

(* What a caller sees of a graph after a node is folded into the one it
   holds. *)
LEMMA FoldedSeen ==
    ASSUME NEW g, SoundStore(g), NEW n \in NodeIDs, Holds(g, n), NEW seen \in SUBSET Sites
    PROVE  LET h == Folded(g, n, seen)
           IN /\ \A a \in NodeIDs : Holds(h, a) <=> Holds(g, a)
              /\ \A a \in NodeIDs : LocationsOf(h, a) =
                    IF a = n THEN LocationsOf(g, n) \cup seen ELSE LocationsOf(g, a)
              /\ \A a, b \in NodeIDs : EdgeKindOf(h, a, b) = EdgeKindOf(g, a, b)
  <1> DEFINE s == g.indexByID[n]
             h == Folded(g, n, seen)
  <1>0. g \in Store /\ s \in Slots
    BY HeldSlot DEF SoundStore
  <1>1. /\ h.indexByID = g.indexByID
        /\ h.outgoing = g.outgoing
        /\ h.locations = [g.locations EXCEPT ![s] = g.locations[s] \cup seen]
    BY <1>0 DEF Folded, Store
  <1>2. g.locations \in [Slots -> SUBSET Sites]
    BY <1>0 DEF Store
  <1> HIDE DEF h
  <1>3. \A a \in NodeIDs : Holds(h, a) <=> Holds(g, a)
    BY <1>1 DEF Holds
  <1>4. \A a, b \in NodeIDs : EdgeKindOf(h, a, b) = EdgeKindOf(g, a, b)
    BY <1>1, <1>3 DEF EdgeKindOf
  <1>5. \A a \in NodeIDs : LocationsOf(h, a) =
            IF a = n THEN LocationsOf(g, n) \cup seen ELSE LocationsOf(g, a)
    <2> SUFFICES ASSUME NEW a \in NodeIDs
                 PROVE  LocationsOf(h, a) =
                           IF a = n THEN LocationsOf(g, n) \cup seen ELSE LocationsOf(g, a)
      OBVIOUS
    <2>1. CASE a = n
      BY <1>0, <1>1, <1>2, <1>3, <2>1 DEF LocationsOf
    <2>2. CASE a # n /\ Holds(g, a)
      <3>1. g.indexByID[a] # s /\ g.indexByID[a] \in Slots
        BY <2>2, HeldSlot
      <3>2. QED BY <1>1, <1>2, <1>3, <2>2, <3>1 DEF LocationsOf
    <2>3. CASE a # n /\ ~Holds(g, a)
      BY <1>3, <2>3 DEF LocationsOf
    <2>4. QED BY <2>1, <2>2, <2>3
  <1>6. QED BY <1>3, <1>4, <1>5 DEF h

(* What a caller sees of a graph after a node is added. *)
LEMMA InsertedSeen ==
    ASSUME NEW g, SoundStore(g), NEW n \in NodeIDs, Holds(g, n) \/ CanAllocate(g),
           NEW seen \in SUBSET Sites
    PROVE  LET h == Inserted(g, n, seen)
           IN /\ \A a \in NodeIDs : Holds(h, a) <=> Holds(g, a) \/ a = n
              /\ \A a \in NodeIDs : LocationsOf(h, a) =
                    IF a = n THEN LocationsOf(g, n) \cup seen ELSE LocationsOf(g, a)
              /\ \A a, b \in NodeIDs : EdgeKindOf(h, a, b) = EdgeKindOf(g, a, b)
  <1>1. CASE Holds(g, n)
    BY <1>1, FoldedSeen DEF Inserted
  <1>2. CASE ~Holds(g, n)
    <2>1. LocationsOf(g, n) = {}
      BY <1>2 DEF LocationsOf
    <2>2. QED BY <1>2, <2>1, WithNodeSeen DEF Inserted
  <1>3. QED BY <1>1, <1>2

(* What a caller sees of a graph after an edge is added: its kind is merged
   with the one held. *)
LEMMA WithEdgeSeen ==
    ASSUME NEW g, SoundStore(g), NEW a \in NodeIDs, NEW b \in NodeIDs, a # b,
           Holds(g, a), Holds(g, b), NEW k \in EdgeKind \cup {EdgeKindUnknown}
    PROVE  LET h == WithEdge(g, a, b, k)
           IN /\ \A c \in NodeIDs : Holds(h, c) <=> Holds(g, c)
              /\ \A c \in NodeIDs : LocationsOf(h, c) = LocationsOf(g, c)
              /\ \A c, d \in NodeIDs : EdgeKindOf(h, c, d) =
                    IF c = a /\ d = b
                    THEN MergeEdgeKind(EdgeKindOf(g, a, b), StatedEdgeKind(a, b, k))
                    ELSE EdgeKindOf(g, c, d)
  <1> DEFINE s == g.indexByID[a]
             t == g.indexByID[b]
             merged == MergeEdgeKind(g.outgoing[s][t], StatedEdgeKind(a, b, k))
             h == WithEdge(g, a, b, k)
  <1>0. g \in Store /\ s \in Slots /\ t \in Slots
    BY HeldSlot DEF SoundStore
  <1>1. /\ h.indexByID = g.indexByID
        /\ h.locations = g.locations
        /\ h.outgoing = [g.outgoing EXCEPT ![s] = [g.outgoing[s] EXCEPT ![t] = merged]]
    BY <1>0 DEF WithEdge, Store
  <1>2. g.outgoing \in [Slots -> [Slots -> EdgeKind \cup {NoEdge}]]
    BY <1>0 DEF Store
  <1>3. EdgeKindOf(g, a, b) = g.outgoing[s][t]
    BY DEF EdgeKindOf
  <1> HIDE DEF h, merged
  <1>4. \A c \in NodeIDs : Holds(h, c) <=> Holds(g, c)
    BY <1>1 DEF Holds
  <1>5. \A c \in NodeIDs : LocationsOf(h, c) = LocationsOf(g, c)
    BY <1>1, <1>4 DEF LocationsOf
  <1>6. ASSUME NEW c \in NodeIDs, NEW d \in NodeIDs
        PROVE  EdgeKindOf(h, c, d) = IF c = a /\ d = b THEN merged ELSE EdgeKindOf(g, c, d)
    <2>1. CASE c = a /\ d = b
      BY <1>0, <1>1, <1>2, <1>4, <2>1 DEF EdgeKindOf
    <2>2. CASE ~(c = a /\ d = b) /\ Holds(g, c) /\ Holds(g, d)
      <3>1. g.indexByID[c] \in Slots /\ g.indexByID[d] \in Slots
        BY <2>2, HeldSlot
      <3>2. g.indexByID[c] # s \/ g.indexByID[d] # t
        BY <2>2, HeldSlot
      <3>3. QED BY <1>0, <1>1, <1>2, <1>4, <2>2, <3>1, <3>2 DEF EdgeKindOf
    <2>3. CASE ~Holds(g, c) \/ ~Holds(g, d)
      BY <1>4, <2>3 DEF EdgeKindOf
    <2>4. QED BY <2>1, <2>2, <2>3
  <1>7. QED BY <1>3, <1>4, <1>5, <1>6 DEF h, merged

(* What a caller sees of a graph after an edge is removed. *)
LEMMA WithoutEdgeSeen ==
    ASSUME NEW g, SoundStore(g), NEW a \in NodeIDs, NEW b \in NodeIDs, Holds(g, a), Holds(g, b)
    PROVE  LET h == WithoutEdge(g, a, b)
           IN /\ \A c \in NodeIDs : Holds(h, c) <=> Holds(g, c)
              /\ \A c \in NodeIDs : LocationsOf(h, c) = LocationsOf(g, c)
              /\ \A c, d \in NodeIDs : EdgeKindOf(h, c, d) =
                    IF c = a /\ d = b THEN NoEdge ELSE EdgeKindOf(g, c, d)
  <1> DEFINE s == g.indexByID[a]
             t == g.indexByID[b]
             h == WithoutEdge(g, a, b)
  <1>0. g \in Store /\ s \in Slots /\ t \in Slots
    BY HeldSlot DEF SoundStore
  <1>1. /\ h.indexByID = g.indexByID
        /\ h.locations = g.locations
        /\ h.outgoing = [g.outgoing EXCEPT ![s] = [g.outgoing[s] EXCEPT ![t] = NoEdge]]
    BY <1>0 DEF WithoutEdge, Store
  <1>2. g.outgoing \in [Slots -> [Slots -> EdgeKind \cup {NoEdge}]]
    BY <1>0 DEF Store
  <1> HIDE DEF h
  <1>3. \A c \in NodeIDs : Holds(h, c) <=> Holds(g, c)
    BY <1>1 DEF Holds
  <1>4. \A c \in NodeIDs : LocationsOf(h, c) = LocationsOf(g, c)
    BY <1>1, <1>3 DEF LocationsOf
  <1>5. ASSUME NEW c \in NodeIDs, NEW d \in NodeIDs
        PROVE  EdgeKindOf(h, c, d) = IF c = a /\ d = b THEN NoEdge ELSE EdgeKindOf(g, c, d)
    <2>1. CASE c = a /\ d = b
      BY <1>0, <1>1, <1>2, <1>3, <2>1 DEF EdgeKindOf
    <2>2. CASE ~(c = a /\ d = b) /\ Holds(g, c) /\ Holds(g, d)
      <3>1. g.indexByID[c] \in Slots /\ g.indexByID[d] \in Slots
        BY <2>2, HeldSlot
      <3>2. g.indexByID[c] # s \/ g.indexByID[d] # t
        BY <2>2, HeldSlot
      <3>3. QED BY <1>0, <1>1, <1>2, <1>3, <2>2, <3>1, <3>2 DEF EdgeKindOf
    <2>3. CASE ~Holds(g, c) \/ ~Holds(g, d)
      BY <1>3, <2>3 DEF EdgeKindOf
    <2>4. QED BY <2>1, <2>2, <2>3
  <1>6. QED BY <1>3, <1>4, <1>5 DEF h

(* What a caller sees of a graph after a node is removed, its edges included.
   *)
LEMMA WithoutNodeSeen ==
    ASSUME NEW g, SoundStore(g), NEW n \in NodeIDs, Holds(g, n)
    PROVE  LET h == WithoutNode(g, n)
           IN /\ \A a \in NodeIDs : Holds(h, a) <=> Holds(g, a) /\ a # n
              /\ \A a \in NodeIDs : LocationsOf(h, a) = IF a = n THEN {} ELSE LocationsOf(g, a)
              /\ \A a, b \in NodeIDs : EdgeKindOf(h, a, b) =
                    IF n \in {a, b} THEN NoEdge ELSE EdgeKindOf(g, a, b)
  <1> DEFINE s == g.indexByID[n]
             h == WithoutNode(g, n)
  <1>0. g \in Store /\ s \in Slots
    BY HeldSlot DEF SoundStore
  <1>t. /\ g.indexByID \in [NodeIDs -> Slots \cup {NoSlot}]
        /\ g.locations \in [Slots -> SUBSET Sites]
        /\ g.outgoing \in [Slots -> [Slots -> EdgeKind \cup {NoEdge}]]
    BY <1>0 DEF Store
  <1>1. /\ h.indexByID = [g.indexByID EXCEPT ![n] = NoSlot]
        /\ h.locations = [g.locations EXCEPT ![s] = {}]
    BY DEF WithoutNode
  <1>2. h.outgoing = [t \in Slots |->
              IF t = s THEN NoEdges
              ELSE IF g.incoming[s][t] # NoEdge THEN [g.outgoing[t] EXCEPT ![s] = NoEdge]
              ELSE g.outgoing[t]]
    BY DEF WithoutNode
  <1> HIDE DEF h
  <1>3. \A a \in NodeIDs : h.indexByID[a] = IF a = n THEN NoSlot ELSE g.indexByID[a]
    BY <1>1, <1>t
  <1>4. \A a \in NodeIDs : Holds(h, a) <=> Holds(g, a) /\ a # n
    BY <1>3 DEF Holds
  <1>5. \A a \in NodeIDs : Holds(h, a) =>
            /\ h.indexByID[a] = g.indexByID[a]
            /\ g.indexByID[a] \in Slots
            /\ g.indexByID[a] # s
    BY <1>3, <1>4, HeldSlot
  <1>6. \A a \in NodeIDs : LocationsOf(h, a) = IF a = n THEN {} ELSE LocationsOf(g, a)
    BY <1>1, <1>4, <1>5, <1>t DEF LocationsOf
  <1>7. ASSUME NEW a \in NodeIDs, NEW b \in NodeIDs
        PROVE  EdgeKindOf(h, a, b) = IF n \in {a, b} THEN NoEdge ELSE EdgeKindOf(g, a, b)
    <2>1. CASE Holds(h, a) /\ Holds(h, b)
      <3>1. h.outgoing[g.indexByID[a]][g.indexByID[b]] = g.outgoing[g.indexByID[a]][g.indexByID[b]]
        <4> DEFINE t == g.indexByID[a]
                   u == g.indexByID[b]
        <4>1. t \in Slots /\ u \in Slots /\ t # s /\ u # s
          BY <1>5, <2>1
        <4>2. h.outgoing[t] \in {[g.outgoing[t] EXCEPT ![s] = NoEdge], g.outgoing[t]}
          BY <1>2, <4>1
        <4>3. g.outgoing[t] \in [Slots -> EdgeKind \cup {NoEdge}]
          BY <1>t, <4>1
        <4>4. QED BY <4>1, <4>2, <4>3
      <3>2. QED BY <1>4, <1>5, <2>1, <3>1 DEF EdgeKindOf
    <2>2. CASE ~Holds(h, a) \/ ~Holds(h, b)
      BY <1>4, <2>2 DEF EdgeKindOf, NoEdge
    <2>3. QED BY <2>1, <2>2
  <1>8. QED BY <1>4, <1>6, <1>7 DEF h

(* What a caller sees of a graph after the edges of one node are given to
   another. *)
LEMMA ReattachedSeen ==
    ASSUME NEW g, SoundStore(g), NEW old, SoundStore(old),
           NEW n \in NodeIDs, NEW m \in NodeIDs
    PROVE  LET h == Reattached(g, old, n, m)
           IN /\ \A a \in NodeIDs : Holds(h, a) <=> Holds(g, a)
              /\ \A a \in NodeIDs : LocationsOf(h, a) = LocationsOf(g, a)
              /\ \A a, b \in NodeIDs : Holds(g, a) /\ Holds(g, b) =>
                    EdgeKindOf(h, a, b) =
                      MergeEdgeKind(EdgeKindOf(g, a, b),
                                    IF a = b THEN NoEdge
                                    ELSE IF a = m THEN EdgeKindOf(old, n, b)
                                    ELSE IF b = m THEN EdgeKindOf(old, a, n)
                                    ELSE NoEdge)
  <1> DEFINE moved(s, t) == MovedKind(g, old, n, m, s, t)
             h == Reattached(g, old, n, m)
  <1>0. g \in Store
    BY DEF SoundStore
  <1> HIDE DEF moved
  <1>1. /\ h.indexByID = g.indexByID
        /\ h.locations = g.locations
        /\ \A s, t \in Slots : h.outgoing[s][t] = MergeEdgeKind(g.outgoing[s][t], moved(s, t))
    BY <1>0 DEF Reattached, Store, moved
  <1> HIDE DEF h
  <1>2. \A a \in NodeIDs : Holds(h, a) <=> Holds(g, a)
    BY <1>1 DEF Holds
  <1>3. \A a \in NodeIDs : LocationsOf(h, a) = LocationsOf(g, a)
    BY <1>1, <1>2 DEF LocationsOf
  <1>4. ASSUME NEW a \in NodeIDs, NEW b \in NodeIDs, Holds(g, a), Holds(g, b)
        PROVE  EdgeKindOf(h, a, b) =
                  MergeEdgeKind(EdgeKindOf(g, a, b),
                                IF a = b THEN NoEdge
                                ELSE IF a = m THEN EdgeKindOf(old, n, b)
                                ELSE IF b = m THEN EdgeKindOf(old, a, n)
                                ELSE NoEdge)
    <2> DEFINE s == g.indexByID[a]
               t == g.indexByID[b]
    <2>1. /\ s \in Slots /\ g.alive[s] /\ g.nodes[s] = a
          /\ t \in Slots /\ g.alive[t] /\ g.nodes[t] = b
          /\ s = t <=> a = b
      BY <1>4, HeldSlot
    <2>2. moved(s, t) = IF a = b THEN NoEdge
                        ELSE IF a = m THEN EdgeKindOf(old, n, b)
                        ELSE IF b = m THEN EdgeKindOf(old, a, n)
                        ELSE NoEdge
      BY <2>1 DEF moved, MovedKind, NoEdge
    <2>3. EdgeKindOf(h, a, b) = h.outgoing[s][t] /\ EdgeKindOf(g, a, b) = g.outgoing[s][t]
      BY <1>1, <1>2, <1>4 DEF EdgeKindOf
    <2>4. QED BY <1>1, <2>1, <2>2, <2>3
  <1>5. QED BY <1>2, <1>3, <1>4 DEF h

(* What a caller sees of a graph after a node is promoted to another
   identity. *)
LEMMA PromotedSeen ==
    ASSUME NEW g, SoundStore(g), NEW n \in NodeIDs, Holds(g, n), NEW m \in NodeIDs, n # m
    PROVE  LET h == Promoted(g, n, m)
           IN /\ \A a \in NodeIDs : Holds(h, a) <=> (Holds(g, a) /\ a # n) \/ a = m
              /\ \A a \in NodeIDs : LocationsOf(h, a) =
                    IF a = n THEN {}
                    ELSE IF a = m THEN LocationsOf(g, m) \cup LocationsOf(g, n)
                    ELSE LocationsOf(g, a)
              /\ \A a, b \in NodeIDs : EdgeKindOf(h, a, b) =
                    IF n \in {a, b} \/ a = b THEN NoEdge
                    ELSE IF a = m THEN MergeEdgeKind(EdgeKindOf(g, m, b), EdgeKindOf(g, n, b))
                    ELSE IF b = m THEN MergeEdgeKind(EdgeKindOf(g, a, m), EdgeKindOf(g, a, n))
                    ELSE EdgeKindOf(g, a, b)
  <1> DEFINE seen == g.locations[g.indexByID[n]]
             gone == WithoutNode(g, n)
             bare == Inserted(gone, m, seen)
             h == Promoted(g, n, m)
  <1>0. g \in Store
    BY DEF SoundStore
  <1>1. seen \in SUBSET Sites /\ seen = LocationsOf(g, n)
    BY <1>0, HeldSlot DEF Store, LocationsOf
  <1>2. /\ SoundStore(gone) /\ CanAllocate(gone)
        /\ \A a \in NodeIDs : Holds(gone, a) <=> Holds(g, a) /\ a # n
        /\ \A a \in NodeIDs : LocationsOf(gone, a) = IF a = n THEN {} ELSE LocationsOf(g, a)
        /\ \A a, b \in NodeIDs : EdgeKindOf(gone, a, b) =
              IF n \in {a, b} THEN NoEdge ELSE EdgeKindOf(g, a, b)
    BY WithoutNodeSound, WithoutNodeSeen
  <1> HIDE DEF gone, seen
  <1>3. SoundStore(bare)
    BY <1>1, <1>2, InsertedSound
  <1>4. /\ \A a \in NodeIDs : Holds(bare, a) <=> Holds(gone, a) \/ a = m
        /\ \A a \in NodeIDs : LocationsOf(bare, a) =
              IF a = m THEN LocationsOf(gone, m) \cup seen ELSE LocationsOf(gone, a)
        /\ \A a, b \in NodeIDs : EdgeKindOf(bare, a, b) = EdgeKindOf(gone, a, b)
    BY <1>1, <1>2, InsertedSeen
  <1>5. h = Reattached(bare, g, n, m)
    BY DEF Promoted, gone, seen
  <1> HIDE DEF bare, h
  <1>6. /\ \A a \in NodeIDs : Holds(h, a) <=> Holds(bare, a)
        /\ \A a \in NodeIDs : LocationsOf(h, a) = LocationsOf(bare, a)
        /\ \A a, b \in NodeIDs : Holds(bare, a) /\ Holds(bare, b) =>
              EdgeKindOf(h, a, b) =
                MergeEdgeKind(EdgeKindOf(bare, a, b),
                              IF a = b THEN NoEdge
                              ELSE IF a = m THEN EdgeKindOf(g, n, b)
                              ELSE IF b = m THEN EdgeKindOf(g, a, n)
                              ELSE NoEdge)
    BY <1>3, <1>5, ReattachedSeen
  <1>7. \A a \in NodeIDs : Holds(h, a) <=> (Holds(g, a) /\ a # n) \/ a = m
    BY <1>2, <1>4, <1>6
  <1>8. \A a \in NodeIDs : LocationsOf(h, a) =
            IF a = n THEN {}
            ELSE IF a = m THEN LocationsOf(g, m) \cup LocationsOf(g, n)
            ELSE LocationsOf(g, a)
    BY <1>1, <1>2, <1>4, <1>6
  <1>9. ASSUME NEW a \in NodeIDs, NEW b \in NodeIDs
        PROVE  EdgeKindOf(h, a, b) =
                  IF n \in {a, b} \/ a = b THEN NoEdge
                  ELSE IF a = m THEN MergeEdgeKind(EdgeKindOf(g, m, b), EdgeKindOf(g, n, b))
                  ELSE IF b = m THEN MergeEdgeKind(EdgeKindOf(g, a, m), EdgeKindOf(g, a, n))
                  ELSE EdgeKindOf(g, a, b)
    <2>0. \A c, d \in NodeIDs : EdgeKindOf(g, c, d) \in EdgeKind \cup {NoEdge}
      BY <1>0, EdgeKindOfType
    <2>1. CASE n \in {a, b}
      <3>1. ~Holds(h, a) \/ ~Holds(h, b)
        BY <1>7, <2>1
      <3>2. QED BY <2>1, <3>1 DEF EdgeKindOf, NoEdge
    <2>2. CASE n \notin {a, b} /\ a = b
      <3>1. EdgeKindOf(g, a, a) = NoEdge
        BY HeldSlot DEF EdgeKindOf, NoEdge, SoundStore, EdgesSound
      <3>2. EdgeKindOf(bare, a, b) = NoEdge
        BY <1>2, <1>4, <2>2, <3>1
      <3>3. CASE Holds(bare, a)
        BY <1>6, <2>2, <3>2, <3>3, MergeKinds
      <3>4. CASE ~Holds(bare, a)
        BY <1>6, <2>2, <3>4 DEF EdgeKindOf, NoEdge
      <3>5. QED BY <3>3, <3>4
    <2>3. CASE n \notin {a, b} /\ a # b /\ Holds(bare, a) /\ Holds(bare, b)
      <3>1. EdgeKindOf(bare, a, b) = EdgeKindOf(g, a, b)
        BY <1>2, <1>4, <2>3
      <3>2. EdgeKindOf(h, a, b) = MergeEdgeKind(EdgeKindOf(g, a, b),
                              IF a = m THEN EdgeKindOf(g, n, b)
                              ELSE IF b = m THEN EdgeKindOf(g, a, n)
                              ELSE NoEdge)
        BY <1>6, <2>3, <3>1
      <3>3. MergeEdgeKind(EdgeKindOf(g, a, b), NoEdge) = EdgeKindOf(g, a, b)
        BY <2>0, MergeKinds
      <3>4. QED BY <2>3, <3>2, <3>3
    <2>4. CASE n \notin {a, b} /\ a # b /\ ~(Holds(bare, a) /\ Holds(bare, b))
      <3>1. EdgeKindOf(h, a, b) = NoEdge
        BY <1>6, <2>4 DEF EdgeKindOf, NoEdge
      <3>2. \E c \in {a, b} : c # m /\ ~Holds(g, c)
        BY <1>2, <1>4, <2>4
      <3>3. /\ EdgeKindOf(g, a, b) = NoEdge
            /\ a = m => EdgeKindOf(g, n, b) = NoEdge
            /\ b = m => EdgeKindOf(g, a, n) = NoEdge
        BY <3>2 DEF EdgeKindOf, NoEdge
      <3>4. MergeEdgeKind(NoEdge, NoEdge) = NoEdge
        BY MergeKinds
      <3>5. QED BY <2>4, <3>1, <3>3, <3>4
    <2>5. QED BY <2>1, <2>2, <2>3, <2>4
  <1>10. QED BY <1>7, <1>8, <1>9 DEF h
-----------------------------------------------------------------------------
(* Every slot-level step is the step PackageGraph allows on what can be seen,
   or changes nothing that can be seen. *)
LEMMA StepImplements ==
    ASSUME SoundStore(graph), [Next]_graph
    PROVE  [Abstract!Next]_(Abstract!vars)
  <1> USE DEF HeldNodes, HeldLocations, HeldEdges
  <1>n. Abstract!NodeIDs = NodeIDs /\ Abstract!EdgeKind = EdgeKind
        /\ Abstract!EdgeKindUnknown = EdgeKindUnknown /\ Abstract!NoEdge = NoEdge
    BY DEF Abstract!NodeIDs, NodeIDs, Abstract!EdgeKind, EdgeKind, Abstract!NoEdge, NoEdge,
           Abstract!EdgeKindUnknown, EdgeKindUnknown, Abstract!EdgeKindDependsOn, EdgeKindDependsOn,
           Abstract!EdgeKindDescribes, EdgeKindDescribes
  <1>k. /\ \A c, k : Abstract!MergeEdgeKind(c, k) = MergeEdgeKind(c, k)
        /\ \A a, b, k : Abstract!StatedEdgeKind(a, b, k) = StatedEdgeKind(a, b, k)
        /\ \A n : Abstract!SitesOf(n) = SitesOf(n)
    BY DEF Abstract!MergeEdgeKind, MergeEdgeKind, Abstract!StatedEdgeKind, StatedEdgeKind,
           Abstract!DeriveEdgeKind, DeriveEdgeKind, Abstract!SitesOf, SitesOf,
           Abstract!EdgeKindUnknown, EdgeKindUnknown, Abstract!EdgeKindDependsOn, EdgeKindDependsOn,
           Abstract!EdgeKindDescribes, EdgeKindDescribes
  <1>s. ASSUME NEW n \in NodeIDs, NEW seen \in SUBSET SitesOf(n)
        PROVE  seen \in SUBSET Sites
    BY DEF SitesOf
  <1>1. ASSUME NEW n \in NodeIDs, NEW seen \in SUBSET SitesOf(n), AddNode(n, seen)
        PROVE  Abstract!AddNode(n, seen)
    <2>1. /\ \A a \in NodeIDs : Holds(graph', a) <=> Holds(graph, a) \/ a = n
          /\ \A a \in NodeIDs : LocationsOf(graph', a) = IF a = n THEN seen ELSE LocationsOf(graph, a)
          /\ \A a, b \in NodeIDs : EdgeKindOf(graph', a, b) = EdgeKindOf(graph, a, b)
      BY <1>1, <1>s, WithNodeSeen DEF AddNode
    <2>2. HeldNodes(graph)' = HeldNodes(graph) \cup {n}
      BY <2>1
    <2>3. HeldLocations(graph)' = [HeldLocations(graph) EXCEPT ![n] = seen]
      BY <2>1
    <2>4. HeldEdges(graph)' = HeldEdges(graph)
      BY <2>1
    <2>5. n \notin HeldNodes(graph)
      BY <1>1 DEF AddNode
    <2>6. QED BY <2>2, <2>3, <2>4, <2>5 DEF Abstract!AddNode
  <1>2. ASSUME NEW n \in NodeIDs, NEW seen \in SUBSET SitesOf(n), InsertNode(n, seen)
        PROVE  Abstract!InsertNode(n, seen)
    <2>1. /\ \A a \in NodeIDs : Holds(graph', a) <=> Holds(graph, a) \/ a = n
          /\ \A a \in NodeIDs : LocationsOf(graph', a) =
                IF a = n THEN LocationsOf(graph, n) \cup seen ELSE LocationsOf(graph, a)
          /\ \A a, b \in NodeIDs : EdgeKindOf(graph', a, b) = EdgeKindOf(graph, a, b)
      BY <1>2, <1>s, InsertedSeen DEF InsertNode
    <2>2. HeldNodes(graph)' = HeldNodes(graph) \cup {n}
      BY <2>1
    <2>3. HeldLocations(graph)' = [HeldLocations(graph) EXCEPT ![n] = @ \cup seen]
      BY <2>1
    <2>4. HeldEdges(graph)' = HeldEdges(graph)
      BY <2>1
    <2>5. QED BY <2>2, <2>3, <2>4 DEF Abstract!InsertNode
  <1>3. ASSUME NEW a \in NodeIDs, NEW b \in NodeIDs, NEW k \in EdgeKind \cup {EdgeKindUnknown},
               AddTypedEdge(a, b, k)
        PROVE  Abstract!AddTypedEdge(a, b, k)
    <2>0. a # b /\ Holds(graph, a) /\ Holds(graph, b) /\ graph' = WithEdge(graph, a, b, k)
      BY <1>3 DEF AddTypedEdge
    <2>1. /\ \A c \in NodeIDs : Holds(graph', c) <=> Holds(graph, c)
          /\ \A c \in NodeIDs : LocationsOf(graph', c) = LocationsOf(graph, c)
          /\ \A c, d \in NodeIDs : EdgeKindOf(graph', c, d) =
                IF c = a /\ d = b
                THEN MergeEdgeKind(EdgeKindOf(graph, a, b), StatedEdgeKind(a, b, k))
                ELSE EdgeKindOf(graph, c, d)
      BY <2>0, WithEdgeSeen
    <2>2. HeldNodes(graph)' = HeldNodes(graph) /\ HeldLocations(graph)' = HeldLocations(graph)
      BY <2>1
    <2>3. HeldEdges(graph)' = [HeldEdges(graph) EXCEPT ![a][b] =
                                  MergeEdgeKind(@, StatedEdgeKind(a, b, k))]
      BY <2>1
    <2>4. {a, b} \subseteq HeldNodes(graph)
      BY <2>0
    <2>5. QED BY <1>k, <2>0, <2>2, <2>3, <2>4 DEF Abstract!AddTypedEdge
  <1>4. ASSUME NEW a \in NodeIDs, NEW b \in NodeIDs, RemoveEdge(a, b)
        PROVE  Abstract!RemoveEdge(a, b)
    <2>0. Holds(graph, a) /\ Holds(graph, b) /\ graph' = WithoutEdge(graph, a, b)
      BY <1>4 DEF RemoveEdge, EdgeKindOf, NoEdge
    <2>1. /\ \A c \in NodeIDs : Holds(graph', c) <=> Holds(graph, c)
          /\ \A c \in NodeIDs : LocationsOf(graph', c) = LocationsOf(graph, c)
          /\ \A c, d \in NodeIDs : EdgeKindOf(graph', c, d) =
                IF c = a /\ d = b THEN NoEdge ELSE EdgeKindOf(graph, c, d)
      BY <2>0, WithoutEdgeSeen
    <2>2. HeldNodes(graph)' = HeldNodes(graph) /\ HeldLocations(graph)' = HeldLocations(graph)
      BY <2>1
    <2>3. HeldEdges(graph)' = [HeldEdges(graph) EXCEPT ![a][b] = NoEdge]
      BY <2>1
    <2>4. QED BY <1>n, <2>2, <2>3 DEF Abstract!RemoveEdge
  <1>5. ASSUME NEW n \in NodeIDs, RemoveNode(n)
        PROVE  Abstract!RemoveNode(n)
    <2>1. /\ \A a \in NodeIDs : Holds(graph', a) <=> Holds(graph, a) /\ a # n
          /\ \A a \in NodeIDs : LocationsOf(graph', a) = IF a = n THEN {} ELSE LocationsOf(graph, a)
          /\ \A a, b \in NodeIDs : EdgeKindOf(graph', a, b) =
                IF n \in {a, b} THEN NoEdge ELSE EdgeKindOf(graph, a, b)
      BY <1>5, WithoutNodeSeen DEF RemoveNode
    <2>2. HeldNodes(graph)' = HeldNodes(graph) \ {n}
      BY <2>1
    <2>3. HeldLocations(graph)' = [HeldLocations(graph) EXCEPT ![n] = {}]
      BY <2>1
    <2>4. HeldEdges(graph)' = [a \in NodeIDs |-> [b \in NodeIDs |->
             IF n \in {a, b} THEN NoEdge ELSE HeldEdges(graph)[a][b]]]
      BY <2>1
    <2>5. QED BY <1>n, <2>2, <2>3, <2>4 DEF Abstract!RemoveNode
  <1>6. ASSUME NEW n \in NodeIDs, NEW m \in ModuleIDs, PromoteToModule(n, m)
        PROVE  Abstract!PromoteToModule(n, m)
    <2>0. /\ Holds(graph, n) /\ <<n, m>> \in Promotable /\ graph' = Promoted(graph, n, m)
          /\ n # m /\ m \in NodeIDs
      BY <1>6 DEF PromoteToModule, NodeIDs
    <2>1. /\ \A a \in NodeIDs : Holds(graph', a) <=> (Holds(graph, a) /\ a # n) \/ a = m
          /\ \A a \in NodeIDs : LocationsOf(graph', a) =
                IF a = n THEN {}
                ELSE IF a = m THEN LocationsOf(graph, m) \cup LocationsOf(graph, n)
                ELSE LocationsOf(graph, a)
          /\ \A a, b \in NodeIDs : EdgeKindOf(graph', a, b) =
                IF n \in {a, b} \/ a = b THEN NoEdge
                ELSE IF a = m THEN MergeEdgeKind(EdgeKindOf(graph, m, b), EdgeKindOf(graph, n, b))
                ELSE IF b = m THEN MergeEdgeKind(EdgeKindOf(graph, a, m), EdgeKindOf(graph, a, n))
                ELSE EdgeKindOf(graph, a, b)
      BY <2>0, PromotedSeen
    <2>2. HeldNodes(graph)' = (HeldNodes(graph) \ {n}) \cup {m}
      BY <2>0, <2>1
    <2>3. HeldLocations(graph)' = [HeldLocations(graph) EXCEPT
              ![n] = {}, ![m] = @ \cup HeldLocations(graph)[n]]
      BY <2>0, <2>1
    <2>4. HeldEdges(graph)' = [a \in NodeIDs |-> [b \in NodeIDs |->
              IF n \in {a, b} \/ a = b THEN NoEdge
              ELSE IF a = m THEN MergeEdgeKind(HeldEdges(graph)[m][b], HeldEdges(graph)[n][b])
              ELSE IF b = m THEN MergeEdgeKind(HeldEdges(graph)[a][m], HeldEdges(graph)[a][n])
              ELSE HeldEdges(graph)[a][b]]]
      BY <2>0, <2>1
    <2>5. QED BY <1>n, <1>k, <2>0, <2>2, <2>3, <2>4 DEF Abstract!PromoteToModule
  <1>7. CASE UNCHANGED graph
    BY <1>7 DEF Abstract!vars
  <1>8. QED BY <1>1, <1>2, <1>3, <1>4, <1>5, <1>6, <1>7, <1>n, <1>k DEF Next, Abstract!Next

(* The slot store implements the graph its callers are promised. *)
THEOREM StoreImplementsPackageGraph == Spec => ImplementsPackageGraph
  <1>1. ASSUME Init PROVE Abstract!Init
    <2>0. \A n \in NodeIDs : ~Holds(graph, n)
      BY <1>1 DEF Init, EmptyGraph, Holds
    <2>1. HeldNodes(graph) = {}
      BY <2>0 DEF HeldNodes
    <2>2. HeldLocations(graph) = [n \in NodeIDs |-> {}]
      BY <2>0 DEF HeldLocations, LocationsOf
    <2>3. \A a, b \in NodeIDs : EdgeKindOf(graph, a, b) = NoEdge
      BY <2>0 DEF EdgeKindOf, NoEdge
    <2>4. HeldEdges(graph) = [a \in NodeIDs |-> [b \in NodeIDs |-> NoEdge]]
      BY <2>3 DEF HeldEdges
    <2>5. QED BY <2>1, <2>2, <2>4 DEF Abstract!Init, Abstract!NodeIDs, NodeIDs, Abstract!NoEdge,
                 Abstract!EdgeKindUnknown, NoEdge, EdgeKindUnknown
  <1>2. StoreInv /\ [Next]_graph => [Abstract!Next]_(Abstract!vars)
    BY StepImplements DEF StoreInv
  <1>3. QED BY <1>1, <1>2, StoreAlwaysSound, PTL DEF Spec, ImplementsPackageGraph, Abstract!Spec

(* What the invariant says, part by part: the slot table is typed and bounded,
   the index and the live slots name each other, the adjacency tables are
   mirrors, and the free list is the dead slots. *)
THEOREM StoreTyped == Spec => []TypeOK
  <1>1. StoreInv => TypeOK
    BY DEF StoreInv, SoundStore, TypeOK
  <1>2. QED BY <1>1, StoreAlwaysSound, PTL

(* The index and the live slots name each other. *)
THEOREM IndexAlwaysSound == Spec => []IndexNamesLiveSlots
  <1>1. StoreInv => IndexNamesLiveSlots
    BY DEF StoreInv, SoundStore, IndexNamesLiveSlots
  <1>2. QED BY <1>1, StoreAlwaysSound, PTL

(* The two adjacency tables are mirrors between live slots. *)
THEOREM AdjacencyAlwaysMirrored == Spec => []AdjacencyMirrored
  <1>1. StoreInv => AdjacencyMirrored
    BY DEF StoreInv, SoundStore, AdjacencyMirrored
  <1>2. QED BY <1>1, StoreAlwaysSound, PTL

(* The free list holds each dead slot once, and Size() counts the others. *)
THEOREM FreeListAlwaysSound == Spec => []FreeListIsDeadSlots
  <1>1. StoreInv => FreeListIsDeadSlots
    BY DEF StoreInv, SoundStore, FreeListIsDeadSlots
  <1>2. QED BY <1>1, StoreAlwaysSound, PTL
-----------------------------------------------------------------------------
(* An edge that asserts a dependency is never turned into a structural one:
   only an edge operation changes a kind, and each does so by MergeEdgeKind. *)
THEOREM DependencyClaimsLast == Spec => DependencyClaimNeverWeakens
  <1>1. ASSUME SoundStore(graph), [Next]_graph, NEW a \in NodeIDs, NEW b \in NodeIDs,
               EdgeKindOf(graph, a, b) = EdgeKindDependsOn,
               EdgeKindOf(graph', a, b) # NoEdge
        PROVE  EdgeKindOf(graph', a, b) = EdgeKindDependsOn
    <2>t. graph \in Store
      BY <1>1 DEF SoundStore
    <2>1. ASSUME NEW n \in NodeIDs, NEW seen \in SUBSET SitesOf(n),
                 AddNode(n, seen) \/ InsertNode(n, seen)
          PROVE  EdgeKindOf(graph', a, b) = EdgeKindOf(graph, a, b)
      <3>1. seen \in SUBSET Sites
        BY DEF SitesOf
      <3>2. CASE AddNode(n, seen)
        BY <1>1, <3>1, <3>2, WithNodeSeen DEF AddNode
      <3>3. CASE InsertNode(n, seen)
        BY <1>1, <3>1, <3>3, InsertedSeen DEF InsertNode
      <3>4. QED BY <2>1, <3>2, <3>3
    <2>2. ASSUME NEW c \in NodeIDs, NEW d \in NodeIDs, NEW k \in EdgeKind \cup {EdgeKindUnknown},
                 AddTypedEdge(c, d, k)
          PROVE  EdgeKindOf(graph', a, b) = EdgeKindDependsOn
      <3>1. EdgeKindOf(graph', a, b) =
               IF a = c /\ b = d
               THEN MergeEdgeKind(EdgeKindOf(graph, a, b), StatedEdgeKind(c, d, k))
               ELSE EdgeKindOf(graph, a, b)
        BY <1>1, <2>2, WithEdgeSeen DEF AddTypedEdge
      <3>2. StatedEdgeKind(c, d, k) \in EdgeKind
        BY StatedKinds
      <3>3. QED BY <1>1, <3>1, <3>2, MergeKinds DEF EdgeKind
    <2>3. ASSUME NEW c \in NodeIDs, NEW d \in NodeIDs, RemoveEdge(c, d)
          PROVE  EdgeKindOf(graph', a, b) = EdgeKindDependsOn
      <3>1. Holds(graph, c) /\ Holds(graph, d)
        BY <2>3 DEF RemoveEdge, EdgeKindOf, NoEdge
      <3>2. QED BY <1>1, <2>3, <3>1, WithoutEdgeSeen DEF RemoveEdge
    <2>4. ASSUME NEW n \in NodeIDs, RemoveNode(n)
          PROVE  EdgeKindOf(graph', a, b) = EdgeKindDependsOn
      BY <1>1, <2>4, WithoutNodeSeen DEF RemoveNode
    <2>5. ASSUME NEW n \in NodeIDs, NEW m \in ModuleIDs, PromoteToModule(n, m)
          PROVE  EdgeKindOf(graph', a, b) = EdgeKindDependsOn
      <3>0. Holds(graph, n) /\ graph' = Promoted(graph, n, m) /\ n # m /\ m \in NodeIDs
        BY <2>5, StoreAssumption DEF PromoteToModule, NodeIDs
      <3>1. EdgeKindOf(graph', a, b) =
                IF n \in {a, b} \/ a = b THEN NoEdge
                ELSE IF a = m THEN MergeEdgeKind(EdgeKindOf(graph, m, b), EdgeKindOf(graph, n, b))
                ELSE IF b = m THEN MergeEdgeKind(EdgeKindOf(graph, a, m), EdgeKindOf(graph, a, n))
                ELSE EdgeKindOf(graph, a, b)
        BY <1>1, <3>0, PromotedSeen
      <3>2. /\ EdgeKindOf(graph, n, b) \in EdgeKind \cup {NoEdge}
            /\ EdgeKindOf(graph, a, n) \in EdgeKind \cup {NoEdge}
            /\ EdgeKindDependsOn \in EdgeKind \cup {NoEdge}
        BY <2>t, EdgeKindOfType DEF EdgeKind
      <3>3. QED BY <1>1, <3>1, <3>2, MergeKinds
    <2>6. QED BY <1>1, <2>1, <2>2, <2>3, <2>4, <2>5 DEF Next
  <1>2. StoreInv /\ [Next]_graph
        => [\A a, b \in NodeIDs :
               /\ EdgeKindOf(graph, a, b) = EdgeKindDependsOn
               /\ EdgeKindOf(graph', a, b) # NoEdge
               => EdgeKindOf(graph', a, b) = EdgeKindDependsOn]_graph
    BY <1>1 DEF StoreInv
  <1>3. QED BY <1>2, StoreAlwaysSound, PTL DEF Spec, DependencyClaimNeverWeakens

(* Promotion re-points every edge of the node and keeps its claim. *)
THEOREM PromotionsKeepEdges == Spec => PromotionKeepsEdges
  <1> DEFINE Kept(n, m, a) ==
              /\ EdgeKindOf(graph, a, n) # NoEdge =>
                    EdgeKindOf(graph', a, m) \in {EdgeKindOf(graph, a, n), EdgeKindDependsOn}
              /\ EdgeKindOf(graph, n, a) # NoEdge =>
                    EdgeKindOf(graph', m, a) \in {EdgeKindOf(graph, n, a), EdgeKindDependsOn}
              /\ EdgeKindOf(graph, a, n) = EdgeKindDependsOn =>
                    EdgeKindOf(graph', a, m) = EdgeKindDependsOn
  <1>1. ASSUME SoundStore(graph), NEW n \in NodeIDs, NEW m \in ModuleIDs,
               PromoteToModule(n, m), NEW a \in NodeIDs \ {n, m}
        PROVE  Kept(n, m, a)
    <2>0. Holds(graph, n) /\ graph' = Promoted(graph, n, m) /\ n # m /\ m \in NodeIDs
      BY <1>1, StoreAssumption DEF PromoteToModule, NodeIDs
    <2>1. /\ EdgeKindOf(graph', a, m) =
                MergeEdgeKind(EdgeKindOf(graph, a, m), EdgeKindOf(graph, a, n))
          /\ EdgeKindOf(graph', m, a) =
                MergeEdgeKind(EdgeKindOf(graph, m, a), EdgeKindOf(graph, n, a))
      BY <1>1, <2>0, PromotedSeen
    <2>2. /\ EdgeKindOf(graph, a, m) \in EdgeKind \cup {NoEdge}
          /\ EdgeKindOf(graph, a, n) \in EdgeKind \cup {NoEdge}
          /\ EdgeKindOf(graph, m, a) \in EdgeKind \cup {NoEdge}
          /\ EdgeKindOf(graph, n, a) \in EdgeKind \cup {NoEdge}
      BY <1>1, <2>0, EdgeKindOfType DEF SoundStore
    <2>3. \A c, k \in EdgeKind \cup {NoEdge} :
             /\ k # NoEdge => MergeEdgeKind(c, k) \in {k, EdgeKindDependsOn}
             /\ k = EdgeKindDependsOn => MergeEdgeKind(c, k) = EdgeKindDependsOn
      BY DEF MergeEdgeKind, EdgeKind, NoEdge, EdgeKindUnknown, EdgeKindDependsOn, EdgeKindDescribes
    <2>4. QED BY <2>1, <2>2, <2>3
  <1>2. StoreInv => [\A n \in NodeIDs, m \in ModuleIDs : PromoteToModule(n, m) =>
                        \A a \in NodeIDs \ {n, m} : Kept(n, m, a)]_graph
    BY <1>1 DEF StoreInv
  <1>3. QED BY <1>2, StoreAlwaysSound, PTL DEF PromotionKeepsEdges
=============================================================================
