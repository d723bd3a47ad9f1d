------------------------- MODULE GraphQueriesProofs -------------------------
(***************************************************************************)
(* Three queries are right on every graph: the topological sort returns    *)
(* the least order that respects the edges and leaves out what a cycle     *)
(* leads to, CollectPathsTo returns every path there is, and               *)
(* PropagateScopes gives the scopes that the paths justify, whatever the   *)
(* order of its walk.                                                      *)
(***************************************************************************)
EXTENDS GraphQueries, FoldLemmas, FiniteSetTheorems, SequenceTheorems, TLAPS

(***************************************************************************)
(* TopologicalSort is right on every finite graph: the order it returns is *)
(* the least one that respects the edges, and it leaves out exactly the    *)
(* nodes that a cycle leads to.                                            *)
(*                                                                         *)
(* The invariant: a node's counter is the number of its parents that have  *)
(* not been ordered, the heap holds the nodes whose counter is zero, what  *)
(* has been ordered is closed under parents, and no backed set has lost a  *)
(* member to it.                                                           *)
(***************************************************************************)

allVars == <<edges, sortVars>>

(* The types of the sort. *)
SortTypeOK ==
    /\ edges \in SUBSET Links
    /\ sorting \in {"sorting", "sorted"}
    /\ inDeg \in [Nodes -> Int]
    /\ ready \subseteq Nodes
    /\ ordered \in Seq(Nodes)

(* The parents a node waits for. *)
Waiting(n) == Incoming(n) \ Ordered

(* Each counter is their number, *)
Counted == \A n \in Nodes : inDeg[n] = Cardinality(Waiting(n))

(* the heap holds the nodes that wait for none, *)
HeapIsReady == \A n \in Nodes : n \in ready <=> n \notin Ordered /\ Waiting(n) = {}

(* what has been ordered has its parents ordered, *)
ClosedAbove == \A n \in Ordered : Incoming(n) \subseteq Ordered

(* none of it lies in a set that backs itself, *)
NoCycleOrdered == \A C \in SUBSET Nodes : Backed(C) => C \cap Ordered = {}

(* and nothing is ordered twice. *)
OrderedOnce == IsFiniteSet(Ordered) /\ Cardinality(Ordered) = Len(ordered)

(* The inductive invariant of TopologicalSort. *)
SortInv ==
    /\ SortTypeOK
    /\ Counted
    /\ HeapIsReady
    /\ ClosedAbove
    /\ NoCycleOrdered
    /\ OrderedOnce
    /\ SortIsLeastOrder
    /\ sorting = "sorted" => ready = {}
-----------------------------------------------------------------------------
(* The parents of a node, and what is left of them, can be counted. *)
LEMMA ParentsAreFinite ==
    ASSUME NEW n
    PROVE  /\ Incoming(n) \in SUBSET Nodes
           /\ IsFiniteSet(Incoming(n))
           /\ \A S : IsFiniteSet(Incoming(n) \ S)
  <1>1. Incoming(n) \in SUBSET Nodes
    BY DEF Incoming
  <1>2. IsFiniteSet(Incoming(n))
    BY <1>1, FS_Subset, GraphAssumption
  <1>3. ASSUME NEW S PROVE IsFiniteSet(Incoming(n) \ S)
    BY <1>2, FS_Difference
  <1> QED BY <1>1, <1>2, <1>3

(* A counter reaches zero exactly when nothing is left to wait for. *)
LEMMA NoneIsZero ==
    ASSUME NEW S, IsFiniteSet(S)
    PROVE  Cardinality(S) = 0 <=> S = {}
  BY FS_EmptySet

(* A counter is a number. *)
LEMMA CardinalityIsInt ==
    ASSUME NEW S, IsFiniteSet(S)
    PROVE  Cardinality(S) \in Int
  BY FS_CardinalityType

(* Before the first pop the counters, the heap and the empty order agree. *)
LEMMA InitSorted == edges \in SUBSET Links /\ SortInit => SortInv
  <1> SUFFICES ASSUME edges \in SUBSET Links, SortInit PROVE SortInv
    OBVIOUS
  <1>1. ordered = << >> /\ Ordered = {} /\ Len(ordered) = 0
    BY DEF SortInit, Ordered
  <1>2. \A n \in Nodes : Waiting(n) = Incoming(n)
    BY <1>1 DEF Waiting
  <1>3. \A n \in Nodes : inDeg[n] = Cardinality(Incoming(n))
    BY DEF SortInit
  <1>4. SortTypeOK
    <2>1. \A n \in Nodes : Cardinality(Incoming(n)) \in Int
      BY ParentsAreFinite, CardinalityIsInt
    <2>2. inDeg \in [Nodes -> Int]
      BY <2>1 DEF SortInit
    <2> QED BY <2>2, <1>1 DEF SortTypeOK, SortInit
  <1>5. Counted
    BY <1>2, <1>3 DEF Counted
  <1>6. HeapIsReady
    <2> SUFFICES ASSUME NEW n \in Nodes
                 PROVE  n \in ready <=> n \notin Ordered /\ Waiting(n) = {}
      BY DEF HeapIsReady
    <2>1. n \in ready <=> Cardinality(Incoming(n)) = 0
      BY <1>3 DEF SortInit
    <2>2. Cardinality(Incoming(n)) = 0 <=> Incoming(n) = {}
      BY ParentsAreFinite, NoneIsZero
    <2> QED BY <2>1, <2>2, <1>1, <1>2
  <1>7. ClosedAbove /\ NoCycleOrdered
    BY <1>1 DEF ClosedAbove, NoCycleOrdered
  <1>8. OrderedOnce
    BY <1>1, FS_EmptySet DEF OrderedOnce
  <1>9. SortIsLeastOrder
    BY <1>1 DEF SortIsLeastOrder
  <1>10. sorting # "sorted"
    BY DEF SortInit
  <1> QED BY <1>4, <1>5, <1>6, <1>7, <1>8, <1>9, <1>10 DEF SortInv

(* What a turn of the loop makes of the sets the invariant speaks of. *)
LEMMA PopFacts ==
    ASSUME SortInv, NEW n \in Nodes, Pop(n)
    PROVE  /\ n \notin Ordered /\ Incoming(n) \subseteq Ordered
           /\ edges' = edges /\ \A c \in Nodes : Incoming(c)' = Incoming(c)
           /\ ordered' = Append(ordered, n)
           /\ Ordered' = Ordered \cup {n}
           /\ \A c \in Nodes : c \in Outgoing(n) <=> n \in Incoming(c)
           /\ \A c \in Nodes : Waiting(c)' = Waiting(c) \ {n}
           /\ \A c \in Outgoing(n) : c \notin Ordered /\ c # n
  <1>1. n \in ready
    BY DEF Pop, IsNext
  <1>2. n \notin Ordered /\ Incoming(n) \subseteq Ordered
    BY <1>1 DEF SortInv, HeapIsReady, Waiting
  <1>3. edges' = edges /\ ordered' = Append(ordered, n)
    BY DEF Pop
  <1>4. \A c \in Nodes : Incoming(c)' = Incoming(c)
    BY <1>3 DEF Incoming
  <1>5. Ordered' = Ordered \cup {n}
    <2>1. ordered \in Seq(Nodes)
      BY DEF SortInv, SortTypeOK
    <2>2. /\ DOMAIN ordered' = 1 .. Len(ordered) + 1
          /\ \A i \in 1 .. Len(ordered) : ordered'[i] = ordered[i]
          /\ ordered'[Len(ordered) + 1] = n
          /\ DOMAIN ordered = 1 .. Len(ordered)
          /\ Len(ordered) \in Nat
      BY <2>1, <1>3
    <2> QED BY <2>2 DEF Ordered
  <1>6. \A c \in Nodes : c \in Outgoing(n) <=> n \in Incoming(c)
    BY DEF Outgoing, Incoming
  <1>7. \A c \in Nodes : Waiting(c)' = Waiting(c) \ {n}
    BY <1>4, <1>5 DEF Waiting
  <1>8. ASSUME NEW c \in Outgoing(n) PROVE c \notin Ordered /\ c # n
    <2>1. c \in Nodes /\ n \in Incoming(c)
      BY <1>6 DEF Outgoing
    <2>2. c \notin Ordered
      BY <2>1, <1>2 DEF SortInv, ClosedAbove
    <2>3. c # n
      BY <2>1, <1>2
    <2> QED BY <2>2, <2>3
  <1> QED BY <1>2, <1>3, <1>4, <1>5, <1>6, <1>7, <1>8

(* Taking a node off the heap lowers the counters of its children, and pushes
   those that reach zero. *)
LEMMA PopKeepsCounts ==
    ASSUME SortInv, NEW n \in Nodes, Pop(n)
    PROVE  Counted' /\ HeapIsReady'
  <1>1. ASSUME NEW c \in Nodes
        PROVE  /\ inDeg'[c] = IF c \in Outgoing(n) THEN inDeg[c] - 1 ELSE inDeg[c]
               /\ inDeg[c] = Cardinality(Waiting(c))
               /\ IsFiniteSet(Waiting(c))
               /\ n \in Waiting(c) <=> c \in Outgoing(n)
    <2>1. inDeg'[c] = IF c \in Outgoing(n) THEN inDeg[c] - 1 ELSE inDeg[c]
      BY DEF Pop
    <2>2. inDeg[c] = Cardinality(Waiting(c))
      BY DEF SortInv, Counted
    <2>3. IsFiniteSet(Waiting(c))
      BY ParentsAreFinite DEF Waiting
    <2>4. n \in Waiting(c) <=> c \in Outgoing(n)
      BY PopFacts DEF Waiting
    <2> QED BY <2>1, <2>2, <2>3, <2>4
  <1>2. ASSUME NEW c \in Nodes
        PROVE  Cardinality(Waiting(c) \ {n}) = inDeg'[c]
    <2>1. Cardinality(Waiting(c) \ {n})
             = IF n \in Waiting(c) THEN Cardinality(Waiting(c)) - 1 ELSE Cardinality(Waiting(c))
      BY <1>1, FS_RemoveElement
    <2> QED BY <2>1, <1>1
  <1>3. Counted'
    <2>1. \A c \in Nodes : inDeg'[c] = Cardinality(Waiting(c)')
      BY <1>2, PopFacts
    <2> QED BY <2>1 DEF Counted
  <1>4. ASSUME NEW c \in Nodes
        PROVE  c \in ready' <=> c \notin Ordered' /\ Waiting(c)' = {}
    <2>1. ready' = (ready \ {n}) \cup FreedBy(n)
      BY DEF Pop
    <2>2. c \in ready <=> c \notin Ordered /\ Waiting(c) = {}
      BY DEF SortInv, HeapIsReady
    <2>3. CASE c \in Outgoing(n)
      <3>1. c \in FreedBy(n) <=> inDeg'[c] = 0
        BY <2>3, <1>1 DEF FreedBy
      <3>2. inDeg'[c] = 0 <=> Waiting(c) \ {n} = {}
        <4>1. IsFiniteSet(Waiting(c) \ {n})
          BY <1>1, FS_RemoveElement
        <4> QED BY <4>1, <1>2, NoneIsZero
      <3>3. c \notin ready
        BY <2>2, <2>3, <1>1
      <3>4. c \notin Ordered'
        BY <2>3, PopFacts
      <3>5. Waiting(c)' = Waiting(c) \ {n}
        BY PopFacts
      <3> QED BY <2>1, <3>1, <3>2, <3>3, <3>4, <3>5
    <2>4. CASE c \notin Outgoing(n)
      <3>1. c \notin FreedBy(n)
        BY <2>4 DEF FreedBy
      <3>2. Waiting(c)' = Waiting(c)
        <4>1. n \notin Waiting(c)
          BY <2>4, <1>1
        <4>2. Waiting(c)' = Waiting(c) \ {n}
          BY PopFacts
        <4> QED BY <4>1, <4>2
      <3>3. Ordered' = Ordered \cup {n}
        BY PopFacts
      <3> QED BY <2>1, <2>2, <3>1, <3>2, <3>3
    <2> QED BY <2>3, <2>4
  <1>5. HeapIsReady'
    BY <1>4 DEF HeapIsReady
  <1> QED BY <1>3, <1>5

(* The node taken off the heap has all its parents ordered, and lies on no
   cycle. *)
LEMMA PopKeepsClosed ==
    ASSUME SortInv, NEW n \in Nodes, Pop(n)
    PROVE  ClosedAbove' /\ NoCycleOrdered' /\ OrderedOnce'
  <1>1. ClosedAbove'
    <2> SUFFICES ASSUME NEW c \in Ordered' PROVE Incoming(c)' \subseteq Ordered'
      BY DEF ClosedAbove
    <2>1. c \in Nodes
      BY PopFacts DEF SortInv, SortTypeOK, Ordered
    <2>2. Incoming(c) \subseteq Ordered
      BY PopFacts DEF SortInv, ClosedAbove
    <2> QED BY <2>1, <2>2, PopFacts
  <1>2. NoCycleOrdered'
    <2> SUFFICES ASSUME NEW C \in SUBSET Nodes, Backed(C)' PROVE C \cap Ordered' = {}
      BY DEF NoCycleOrdered
    <2>1. \A c \in C : Incoming(c)' = Incoming(c)
      BY PopFacts
    <2>2. Backed(C)
      BY <2>1 DEF Backed
    <2>3. C \cap Ordered = {}
      BY <2>2 DEF SortInv, NoCycleOrdered
    <2>4. n \notin C
      BY <2>2, <2>3, PopFacts DEF Backed
    <2> QED BY <2>3, <2>4, PopFacts
  <1>3. OrderedOnce'
    <2>1. IsFiniteSet(Ordered) /\ Cardinality(Ordered) = Len(ordered)
      BY DEF SortInv, OrderedOnce
    <2>2. IsFiniteSet(Ordered \cup {n}) /\ Cardinality(Ordered \cup {n}) = Cardinality(Ordered) + 1
      BY <2>1, PopFacts, FS_AddElement
    <2>3. Len(ordered') = Len(ordered) + 1
      BY PopFacts DEF SortInv, SortTypeOK
    <2> QED BY <2>1, <2>2, <2>3, PopFacts DEF OrderedOnce
  <1> QED BY <1>1, <1>2, <1>3

(* The node taken off the heap is the least of those that could come next. *)
LEMMA PopKeepsOrder ==
    ASSUME SortInv, NEW n \in Nodes, Pop(n)
    PROVE  SortIsLeastOrder'
  <1>0. PICK len \in Nat : len = Len(ordered)
    BY DEF SortInv, SortTypeOK
  <1>1. /\ ordered \in Seq(Nodes)
        /\ DOMAIN ordered = 1 .. len /\ DOMAIN ordered' = 1 .. len + 1
        /\ \A i \in 1 .. len : ordered'[i] = ordered[i]
        /\ ordered'[len + 1] = n
    <2>1. ordered \in Seq(Nodes) /\ ordered' = Append(ordered, n)
      BY PopFacts DEF SortInv, SortTypeOK
    <2>2. QED BY <1>0, <2>1
  <1>2. ASSUME NEW i \in 1 .. len
        PROVE  Available(i)' = Available(i)
    <2>1. Before(i)' = Before(i)
      BY <1>1 DEF Before
    <2> QED BY <2>1, PopFacts DEF Available
  <1>3. Available(len + 1)' = ready
    <2>1. Before(len + 1)' = Ordered
      <3>1. Before(len + 1)' = {ordered'[j] : j \in 1 .. len}
        BY <1>1 DEF Before
      <3>2. {ordered'[j] : j \in 1 .. len} = Ordered
        BY <1>1 DEF Ordered
      <3> QED BY <3>1, <3>2
    <2>2. \A c \in Nodes : c \in ready <=> c \notin Ordered /\ Incoming(c) \subseteq Ordered
      BY DEF SortInv, HeapIsReady, Waiting
    <2>3. ready \subseteq Nodes
      BY DEF SortInv, SortTypeOK
    <2> QED BY <2>1, <2>2, <2>3, PopFacts DEF Available
  <1> SUFFICES ASSUME NEW i \in DOMAIN ordered'
               PROVE  /\ ordered'[i] \in Available(i)'
                      /\ \A c \in Available(i)' : ordered'[i] <= c
    BY DEF SortIsLeastOrder
  <1>4. CASE i \in 1 .. len
    BY <1>4, <1>1, <1>2 DEF SortInv, SortIsLeastOrder
  <1>5. CASE i = len + 1
    <2>1. Available(i)' = ready
      BY <1>5, <1>3
    <2>2. n \in ready /\ \A c \in ready : n <= c
      BY DEF Pop, IsNext
    <2> QED BY <1>5, <1>1, <2>1, <2>2
  <1> QED BY <1>1, <1>4, <1>5

(* Returning the order changes none of what the invariant speaks of. *)
LEMMA SoundUnlessChanged ==
    ASSUME SortInv, edges' = edges, ordered' = ordered, inDeg' = inDeg, ready' = ready,
           sorting' \in {"sorting", "sorted"}, sorting' = "sorted" => ready = {}
    PROVE  SortInv'
  <1>1. Ordered' = Ordered
    BY DEF Ordered
  <1>2. \A n : Incoming(n)' = Incoming(n)
    BY DEF Incoming
  <1>3. \A i : Before(i)' = Before(i)
    BY DEF Before
  <1>4. SortTypeOK'
    BY DEF SortInv, SortTypeOK
  <1>5. Counted' /\ HeapIsReady'
    BY <1>1, <1>2 DEF SortInv, Counted, HeapIsReady, Waiting
  <1>6. ClosedAbove' /\ NoCycleOrdered' /\ OrderedOnce'
    BY <1>1, <1>2 DEF SortInv, ClosedAbove, NoCycleOrdered, OrderedOnce, Backed
  <1>7. SortIsLeastOrder'
    BY <1>2, <1>3 DEF SortInv, SortIsLeastOrder, Available
  <1> QED BY <1>4, <1>5, <1>6, <1>7 DEF SortInv

(* Every step of the sort keeps the invariant. *)
LEMMA SortStep == SortInv /\ [SortNext]_allVars => SortInv'
  <1> SUFFICES ASSUME SortInv, [SortNext]_allVars PROVE SortInv'
    OBVIOUS
  <1>1. ASSUME NEW n \in Nodes, Pop(n) PROVE SortInv'
    <2>1. SortTypeOK'
      <3>1. FreedBy(n) \subseteq Nodes
        BY DEF FreedBy, Outgoing
      <3>2. inDeg' \in [Nodes -> Int]
        BY <1>1 DEF Pop, SortInv, SortTypeOK
      <3>3. Append(ordered, n) \in Seq(Nodes)
        BY DEF SortInv, SortTypeOK
      <3> QED BY <1>1, <3>1, <3>2, <3>3 DEF Pop, SortInv, SortTypeOK
    <2>2. Counted' /\ HeapIsReady'
      BY <1>1, PopKeepsCounts
    <2>3. ClosedAbove' /\ NoCycleOrdered' /\ OrderedOnce'
      BY <1>1, PopKeepsClosed
    <2>4. SortIsLeastOrder'
      BY <1>1, PopKeepsOrder
    <2>5. sorting' # "sorted"
      BY <1>1 DEF Pop
    <2> QED BY <2>1, <2>2, <2>3, <2>4, <2>5 DEF SortInv
  <1>2. CASE SortReturns
    BY <1>2, SoundUnlessChanged DEF SortReturns
  <1>3. CASE UNCHANGED allVars
    BY <1>3, SoundUnlessChanged DEF allVars, sortVars, SortInv, SortTypeOK
  <1> QED BY <1>1, <1>2, <1>3 DEF SortNext
-----------------------------------------------------------------------------
(* The counters, the heap and the order of TopologicalSort agree on every finite
   graph, after any number of turns. *)
THEOREM SortAlwaysSound == SortSpec => []SortInv
  BY InitSorted, SortStep, PTL DEF SortSpec, allVars

(* On every finite graph, what TopologicalSort has ordered so far is the
   beginning of the least order that respects the edges. *)
THEOREM SortAlwaysLeastOrder == SortSpec => []SortIsLeastOrder
  <1>1. SortInv => SortIsLeastOrder
    BY DEF SortInv
  <1> QED BY <1>1, SortAlwaysSound, PTL

(* What is ordered when nothing is left in the heap is the part no cycle leads
   to. *)
LEMMA SortEndsExact ==
    ASSUME SortInv, sorting = "sorted"
    PROVE  Ordered = Nodes \ Cyclic /\ (CycleDetected <=> Cyclic # {})
  <1> DEFINE Rest == Nodes \ Ordered
  <1>1. Backed(Rest)
    <2>1. \A n \in Rest : Waiting(n) # {}
      BY DEF SortInv, HeapIsReady
    <2>2. \A n \in Rest : Incoming(n) \cap Rest # {}
      BY <2>1 DEF Waiting, Incoming
    <2> QED BY <2>2 DEF Backed
  <1>2. Rest \subseteq Cyclic
    BY <1>1 DEF Cyclic
  <1>3. Cyclic \subseteq Rest
    BY DEF Cyclic, Backed, SortInv, NoCycleOrdered
  <1>4. Ordered \in SUBSET Nodes
    BY DEF SortInv, SortTypeOK, Ordered
  <1>5. CycleDetected <=> Rest # {}
    <2>1. Cardinality(Ordered) = Len(ordered)
      BY DEF SortInv, OrderedOnce
    <2>2. Cardinality(Nodes) = Cardinality(Ordered) => Nodes = Ordered
      BY <1>4, FS_Subset, GraphAssumption
    <2> QED BY <2>1, <2>2, <1>4 DEF CycleDetected
  <1> QED BY <1>2, <1>3, <1>4, <1>5

(* On every finite graph, TopologicalSort returns all the nodes that no cycle
   leads to and no other, and ErrCycleDetected exactly when it left some out. *)
THEOREM SortAlwaysAcyclicPart == SortSpec => []SortedIsAcyclicPart
  <1>1. SortInv => SortedIsAcyclicPart
    BY SortEndsExact DEF SortedIsAcyclicPart
  <1> QED BY <1>1, SortAlwaysSound, PTL

(* On every finite graph TopologicalSort is right at every turn and when it
   returns. *)
THEOREM SortAlwaysExact == SortSpec => []SortIsExact
  <1>1. SortIsLeastOrder /\ SortedIsAcyclicPart => SortIsExact
    BY DEF SortIsExact
  <1> QED BY <1>1, SortAlwaysLeastOrder, SortAlwaysAcyclicPart, PTL

(***************************************************************************)
(* PropagateScopes is right on every graph: on the way nothing is marked   *)
(* runtime without a runtime path, and at the end the scopes are those of  *)
(* the paths, whatever the order of the walk.                              *)
(*                                                                         *)
(* The invariant of the walk: what has been propagated lies inside the     *)
(* least closed sets of the promise (Founded), and it is closed but for    *)
(* the children of what is still queued (Settled).  When the queue is      *)
(* empty the two meet.                                                     *)
(***************************************************************************)

(* d is in the queue. *)
Queued(d) == \E i \in 1 .. Len(queue) : queue[i] = d

(* Nothing has been propagated. *)
Untouched == scopes = own /\ propagated = [d \in Dependencies |-> ScopeUnknown]

(* A dependency carries what it came with and what was propagated to it. *)
Carries ==
    \A d \in Dependencies :
        /\ own[d] \subseteq scopes[d]
        /\ ScopeRuntime \in scopes[d] <=> ScopeRuntime \in own[d] \/ propagated[d] = ScopeRuntime
        /\ propagated[d] # ScopeUnknown => propagated[d] \in scopes[d]
        /\ propagated[d] = ScopeUnknown => scopes[d] = own[d]

(* What has been propagated has a path, and runtime a runtime path. *)
Founded ==
    \A d \in Dependencies :
        /\ propagated[d] # ScopeUnknown => d \in Reached
        /\ propagated[d] = ScopeRuntime => d \in RuntimeReached

(* What p passes on has been passed on. *)
SettledFrom(p) ==
    \A c \in DirectDependencies(p) \ {root} :
        /\ propagated[c] # ScopeUnknown
        /\ propagated[p] = ScopeRuntime \/ ScopeRuntime \in own[c] => propagated[c] = ScopeRuntime

(* Everything has been passed on but from what is still queued. *)
Settled ==
    /\ root \in Nodes
    /\ \A d \in DirectDependencies(root) :
          /\ propagated[d] # ScopeUnknown
          /\ StartsRuntime(d) => propagated[d] = ScopeRuntime
    /\ \A p \in Dependencies : propagated[p] # ScopeUnknown /\ ~Queued(p) => SettledFrom(p)

(* The inductive invariant of PropagateScopes. *)
WalkInv ==
    /\ TypeOK
    /\ pc = "seed" => Untouched /\ queue = << >>
    /\ pc \in {"seed", "walk", "default"} => Carries /\ Founded
    /\ pc \in {"walk", "default"} => Settled
    /\ pc = "default" => queue = << >>
    /\ ScopesFollowPaths
-----------------------------------------------------------------------------
(* Runtime wins over development, and development over unknown. *)
LEMMA MergeScopeIsJoin ==
    ASSUME NEW a \in Scope, NEW b \in Scope
    PROVE  /\ MergeScope(a, b) \in Scope
           /\ MergeScope(a, b) = ScopeRuntime <=> a = ScopeRuntime \/ b = ScopeRuntime
           /\ MergeScope(a, b) = ScopeUnknown <=> a = ScopeUnknown /\ b = ScopeUnknown
  BY DEF MergeScope, Scope, ScopeRuntime, ScopeUnknown, ScopeDevelopment

(* The primary scope is the strongest one that a dependency carries. *)
LEMMA PrimaryScopeIsStrongest ==
    ASSUME NEW carried \in SUBSET {ScopeRuntime, ScopeDevelopment}
    PROVE  /\ PrimaryScope(carried) \in Scope
           /\ PrimaryScope(carried) = ScopeRuntime <=> ScopeRuntime \in carried
           /\ PrimaryScope(carried) = ScopeUnknown <=> carried = {}
           /\ PrimaryScope(carried) = ScopeDevelopment <=>
                 ScopeRuntime \notin carried /\ ScopeDevelopment \in carried
  BY DEF PrimaryScope, Scope, ScopeRuntime, ScopeUnknown, ScopeDevelopment

(* The least closed sets are themselves closed. *)
LEMMA ReachedIsClosed ==
    /\ Reached \in SUBSET Dependencies
    /\ DirectDependencies(root) \subseteq Reached
    /\ \A p \in Reached : DirectDependencies(p) \ {root} \subseteq Reached
  <1>1. \A n : DirectDependencies(n) \in SUBSET Dependencies
    BY DEF DirectDependencies
  <1>2. DirectDependencies(root) \subseteq Reached
    BY <1>1 DEF Reached, ReachClosed
  <1>3. \A p \in Reached : DirectDependencies(p) \ {root} \subseteq Reached
    BY <1>1 DEF Reached, ReachClosed
  <1>4. QED BY <1>2, <1>3 DEF Reached

(* The least set of runtime dependencies has the members its own rules
   demand. *)
LEMMA RuntimeReachedIsClosed ==
    /\ RuntimeReached \in SUBSET Dependencies
    /\ \A d \in DirectDependencies(root) : StartsRuntime(d) => d \in RuntimeReached
    /\ \A p \in Reached : \A d \in DirectDependencies(p) \ {root} :
          p \in RuntimeReached \/ ScopeRuntime \in own[d] => d \in RuntimeReached
  <1>1. \A n : DirectDependencies(n) \in SUBSET Dependencies
    BY DEF DirectDependencies
  <1>2. \A d \in DirectDependencies(root) : StartsRuntime(d) => d \in RuntimeReached
    BY <1>1 DEF RuntimeReached, RuntimeClosed
  <1>3. ASSUME NEW p \in Reached, NEW d \in DirectDependencies(p) \ {root},
               p \in RuntimeReached \/ ScopeRuntime \in own[d]
        PROVE  d \in RuntimeReached
    <2>1. SUFFICES ASSUME NEW S \in SUBSET Dependencies, RuntimeClosed(S) PROVE d \in S
      BY <1>1 DEF RuntimeReached
    <2>2. p \in RuntimeReached => p \in S
      BY <2>1 DEF RuntimeReached
    <2>3. QED BY <1>3, <2>1, <2>2 DEF RuntimeClosed
  <1>4. QED BY <1>2, <1>3 DEF RuntimeReached

(* An order of a node's children lists every one of them. *)
LEMMA ListingIsSequence ==
    ASSUME NEW S \in SUBSET Dependencies, NEW order \in Listings(S)
    PROVE  /\ order \in Seq(Dependencies)
           /\ \A x \in S : \E i \in 1 .. Len(order) : order[i] = x
  <1>1. Cardinality(S) \in Nat
    BY GraphAssumption, FS_Subset, FS_CardinalityType DEF Nodes
  <1>2. order \in [1 .. Cardinality(S) -> S]
    BY DEF Listings
  <1>3. order \in Seq(Dependencies) /\ Len(order) = Cardinality(S)
    BY <1>1, <1>2
  <1>4. \A x \in S : \E i \in DOMAIN order : order[i] = x
    BY DEF Listings
  <1>5. QED BY <1>2, <1>3, <1>4

(* x waits in the queue q. *)
Waits(x, q) == \E i \in 1 .. Len(q) : q[i] = x

(* Taking the head and appending loses nothing but the head, *)
LEMMA QueueKeeps ==
    ASSUME NEW q \in Seq(Dependencies), q # << >>, NEW o \in Seq(Dependencies), NEW x,
           x # Head(q), Waits(x, q)
    PROVE  Waits(x, Tail(q) \o o)
  <1>1. PICK i \in 1 .. Len(q) : q[i] = x
    BY DEF Waits
  <1>2. i # 1
    BY <1>1
  <1>3. i - 1 \in 1 .. Len(Tail(q)) /\ Tail(q)[i - 1] = x
    BY <1>1, <1>2
  <1>4. Tail(q) \in Seq(Dependencies)
    OBVIOUS
  <1>5. /\ i - 1 \in 1 .. Len(Tail(q) \o o)
        /\ (Tail(q) \o o)[i - 1] = Tail(q)[i - 1]
    BY <1>3, <1>4
  <1>6. QED BY <1>3, <1>5 DEF Waits

(* and gains what is appended. *)
LEMMA QueueGains ==
    ASSUME NEW q \in Seq(Dependencies), q # << >>, NEW o \in Seq(Dependencies),
           NEW i \in 1 .. Len(o)
    PROVE  /\ Len(Tail(q)) + i \in 1 .. Len(Tail(q) \o o)
           /\ (Tail(q) \o o)[Len(Tail(q)) + i] = o[i]
  OBVIOUS

-----------------------------------------------------------------------------
(* Before the walk nothing is propagated and nothing is queued. *)
LEMMA InitWalk == edges \in SUBSET Links /\ WalkInit => WalkInv
  <1> SUFFICES ASSUME edges \in SUBSET Links, WalkInit PROVE WalkInv
    OBVIOUS
  <1>1. TypeOK
    <2>1. own \in [Dependencies -> Carried] /\ scopes = own /\ queue = << >> /\ pc = "seed"
          /\ edges \in SUBSET Links /\ seed \in [Dependencies -> Scope]
          /\ propagated = [d \in Dependencies |-> ScopeUnknown]
      BY DEF WalkInit
    <2>2. own \in [Dependencies -> SUBSET {ScopeRuntime, ScopeDevelopment}]
      BY <2>1, PropagationAssumption DEF ScopeRuntime, ScopeDevelopment
    <2>3. ScopeUnknown \in Scope
      BY DEF Scope
    <2>4. queue \in Seq(Dependencies)
      BY <2>1
    <2>5. QED BY <2>1, <2>2, <2>3, <2>4 DEF TypeOK
  <1>2. Untouched /\ queue = << >> /\ pc = "seed"
    BY DEF WalkInit, Untouched
  <1>3. Carries
    BY <1>2 DEF Carries, Untouched, ScopeRuntime, ScopeUnknown
  <1>4. Founded
    BY <1>2 DEF Founded, Untouched, ScopeRuntime, ScopeUnknown
  <1>5. QED BY <1>1, <1>2, <1>3, <1>4 DEF WalkInv, ScopesFollowPaths

(* Seeding the direct dependencies of the root keeps the invariant of the
   walk. *)
LEMMA SeedWalk == ASSUME WalkInv, SeedDirect PROVE WalkInv'
  <1> DEFINE direct == DirectDependencies(root)
  <1>1. /\ pc = "seed" /\ pc' = "walk" /\ root \in Nodes
        /\ propagated' = [d \in Dependencies |-> IF d \in direct THEN SeedScope(d) ELSE propagated[d]]
        /\ scopes' = [d \in Dependencies |->
                         IF d \in direct THEN WithScope(scopes[d], SeedScope(d)) ELSE scopes[d]]
        /\ queue' \in Listings(direct)
        /\ root' = root /\ edges' = edges /\ seed' = seed /\ own' = own
    BY DEF SeedDirect, input
  <1>2. TypeOK /\ Untouched
    BY <1>1 DEF WalkInv
  <1>t. /\ seed \in [Dependencies -> Scope]
        /\ own \in [Dependencies -> SUBSET {ScopeRuntime, ScopeDevelopment}]
        /\ scopes = own
    BY <1>2 DEF TypeOK, Untouched
  <1>3. /\ direct \in SUBSET Dependencies
        /\ \A n : DirectDependencies(n)' = DirectDependencies(n)
        /\ \A d \in Dependencies : StartsRuntime(d)' <=> StartsRuntime(d)
        /\ Reached' = Reached /\ RuntimeReached' = RuntimeReached
    BY <1>1 DEF DirectDependencies, StartsRuntime, Reached, ReachClosed, RuntimeReached, RuntimeClosed
  <1>4. ASSUME NEW d \in Dependencies
        PROVE  /\ SeedScope(d) \in {ScopeRuntime, ScopeDevelopment}
               /\ SeedScope(d) = ScopeRuntime <=> StartsRuntime(d)
    <2> DEFINE start == IF seed[d] = ScopeUnknown THEN ScopeRuntime ELSE seed[d]
    <2>1. start \in {ScopeRuntime, ScopeDevelopment} /\ start \in Scope
      BY <1>t DEF Scope
    <2>2. PrimaryScope(own[d]) \in Scope
          /\ (PrimaryScope(own[d]) = ScopeRuntime <=> ScopeRuntime \in own[d])
      BY <1>t, PrimaryScopeIsStrongest
    <2>3. SeedScope(d) = MergeScope(start, PrimaryScope(own[d]))
      BY <1>t DEF SeedScope
    <2>4. start # ScopeUnknown
      BY <2>1 DEF ScopeRuntime, ScopeDevelopment, ScopeUnknown
    <2>5. start = ScopeRuntime <=> seed[d] \in {ScopeRuntime, ScopeUnknown}
      BY <1>t DEF Scope, ScopeRuntime, ScopeDevelopment, ScopeUnknown
    <2>6. /\ SeedScope(d) \in Scope
          /\ SeedScope(d) = ScopeRuntime <=> start = ScopeRuntime \/ PrimaryScope(own[d]) = ScopeRuntime
          /\ SeedScope(d) = ScopeUnknown <=> start = ScopeUnknown /\ PrimaryScope(own[d]) = ScopeUnknown
      BY <2>1, <2>2, <2>3, MergeScopeIsJoin
    <2>7. QED BY <2>2, <2>4, <2>5, <2>6 DEF StartsRuntime, Scope
  <1>5. \A d \in Dependencies :
           /\ propagated'[d] = IF d \in direct THEN SeedScope(d) ELSE ScopeUnknown
           /\ scopes'[d] = IF d \in direct THEN own[d] \cup {SeedScope(d)} ELSE own[d]
    <2>1. \A d \in Dependencies : SeedScope(d) # ScopeUnknown
      BY <1>4 DEF ScopeRuntime, ScopeDevelopment, ScopeUnknown
    <2>2. QED BY <1>1, <1>2, <2>1 DEF Untouched, WithScope
  <1>6. TypeOK'
    <2>1. queue' \in Seq(Dependencies)
      BY <1>1, <1>3, ListingIsSequence
    <2>2. propagated' \in [Dependencies -> Scope]
      BY <1>1, <1>4, <1>2, <1>3 DEF TypeOK, Scope
    <2>3. scopes' \in [Dependencies -> SUBSET {ScopeRuntime, ScopeDevelopment}]
      <3>1. \A d \in Dependencies : scopes'[d] \in SUBSET {ScopeRuntime, ScopeDevelopment}
        BY <1>4, <1>5, <1>t
      <3>2. QED BY <1>1, <3>1
    <2>4. QED BY <1>1, <1>2, <2>1, <2>2, <2>3 DEF TypeOK
  <1>7. Carries'
    <2>1. SUFFICES ASSUME NEW d \in Dependencies
                   PROVE  /\ own[d] \subseteq scopes'[d]
                          /\ ScopeRuntime \in scopes'[d] <=>
                                ScopeRuntime \in own[d] \/ propagated'[d] = ScopeRuntime
                          /\ propagated'[d] # ScopeUnknown => propagated'[d] \in scopes'[d]
                          /\ propagated'[d] = ScopeUnknown => scopes'[d] = own[d]
      BY <1>1 DEF Carries
    <2>2. SeedScope(d) # ScopeUnknown /\ ScopeRuntime # ScopeUnknown
      BY <1>4 DEF ScopeRuntime, ScopeDevelopment, ScopeUnknown
    <2>3. QED BY <1>5, <2>2
  <1>8. Founded'
    <2>1. SUFFICES ASSUME NEW d \in Dependencies
                   PROVE  /\ propagated'[d] # ScopeUnknown => d \in Reached
                          /\ propagated'[d] = ScopeRuntime => d \in RuntimeReached
      BY <1>3 DEF Founded
    <2>2. ScopeRuntime # ScopeUnknown
      BY DEF ScopeRuntime, ScopeUnknown
    <2>3. QED BY <1>4, <1>5, <2>2, ReachedIsClosed, RuntimeReachedIsClosed
  <1>9. Settled'
    <2>1. \A d \in direct : propagated'[d] = SeedScope(d) /\ SeedScope(d) # ScopeUnknown
      BY <1>3, <1>4, <1>5 DEF ScopeRuntime, ScopeDevelopment, ScopeUnknown
    <2>2. ASSUME NEW p \in Dependencies, propagated'[p] # ScopeUnknown PROVE Queued(p)'
      <3>1. p \in direct BY <1>5, <2>2
      <3>2. \E i \in 1 .. Len(queue') : queue'[i] = p
        BY <1>1, <1>3, <3>1, ListingIsSequence, Zenon
      <3>3. QED BY <3>2 DEF Queued
    <2>3. QED BY <1>1, <1>3, <1>4, <2>1, <2>2 DEF Settled, Nodes
  <1>10. QED BY <1>1, <1>6, <1>7, <1>8, <1>9 DEF WalkInv, ScopesFollowPaths
-----------------------------------------------------------------------------
(* What a visit makes of a child that it changes. *)
LEMMA NextScopeIs ==
    ASSUME TypeOK, Carries, NEW p \in Dependencies, NEW c \in Dependencies,
           propagated[p] # ScopeUnknown
    PROVE  /\ NextScope(c, propagated[p]) \in {ScopeRuntime, ScopeDevelopment}
           /\ NextScope(c, propagated[p]) = ScopeRuntime <=>
                 \/ propagated[c] = ScopeRuntime
                 \/ propagated[p] = ScopeRuntime
                 \/ ScopeRuntime \in own[c]
  <1> DEFINE m == MergeScope(propagated[c], propagated[p])
             primary == PrimaryScope(scopes[c])
  <1>1. propagated[c] \in Scope /\ propagated[p] \in Scope
        /\ scopes[c] \in SUBSET {ScopeRuntime, ScopeDevelopment}
    BY DEF TypeOK
  <1>2. /\ m \in Scope
        /\ m = ScopeRuntime <=> propagated[c] = ScopeRuntime \/ propagated[p] = ScopeRuntime
        /\ m # ScopeUnknown
    BY <1>1, MergeScopeIsJoin
  <1>3. primary \in Scope /\ (primary = ScopeRuntime <=> ScopeRuntime \in scopes[c])
    BY <1>1, PrimaryScopeIsStrongest
  <1>4. NextScope(c, propagated[p]) = MergeScope(m, primary)
    BY DEF NextScope
  <1>5. /\ MergeScope(m, primary) \in Scope
        /\ MergeScope(m, primary) = ScopeRuntime <=> m = ScopeRuntime \/ primary = ScopeRuntime
        /\ MergeScope(m, primary) # ScopeUnknown
    BY <1>2, <1>3, MergeScopeIsJoin
  <1>6. ScopeRuntime \in scopes[c] <=> ScopeRuntime \in own[c] \/ propagated[c] = ScopeRuntime
    BY DEF Carries
  <1>7. QED BY <1>2, <1>3, <1>4, <1>5, <1>6 DEF Scope

(* Visiting the head of the queue keeps the invariant of the walk. *)
LEMMA VisitWalk == ASSUME WalkInv, Visit PROVE WalkInv'
  <1> DEFINE current == Head(queue)
             changed == IF propagated[current] = ScopeUnknown THEN {} ELSE Changed(current)
             next(d) == NextScope(d, propagated[current])
  <1>1. /\ pc = "walk" /\ pc' = "walk" /\ queue # << >>
        /\ propagated' = [d \in Dependencies |-> IF d \in changed THEN next(d) ELSE propagated[d]]
        /\ scopes' = [d \in Dependencies |->
                         IF d \in changed THEN WithScope(scopes[d], next(d)) ELSE scopes[d]]
        /\ \E order \in Listings(changed) : queue' = Tail(queue) \o order
        /\ root' = root /\ edges' = edges /\ seed' = seed /\ own' = own
    BY DEF Visit, input, Remaining
  <1>2. TypeOK /\ Carries /\ Founded /\ Settled
    BY <1>1 DEF WalkInv
  <1>t. /\ queue \in Seq(Dependencies) /\ current \in Dependencies
        /\ propagated \in [Dependencies -> Scope]
        /\ scopes \in [Dependencies -> SUBSET {ScopeRuntime, ScopeDevelopment}]
    BY <1>1, <1>2 DEF TypeOK
  <1>3. /\ \A n : DirectDependencies(n)' = DirectDependencies(n)
        /\ \A n : DirectDependencies(n) \subseteq Dependencies
        /\ \A d \in Dependencies : StartsRuntime(d)' <=> StartsRuntime(d)
        /\ Reached' = Reached /\ RuntimeReached' = RuntimeReached
    BY <1>1 DEF DirectDependencies, StartsRuntime, Reached, ReachClosed, RuntimeReached, RuntimeClosed
  <1>4. /\ changed \in SUBSET Dependencies
        /\ changed # {} => propagated[current] # ScopeUnknown
        /\ changed \subseteq DirectDependencies(current) \ {root}
    BY <1>3 DEF Changed
  <1>5. \A d \in DirectDependencies(current) \ {root} :
           propagated[current] # ScopeUnknown /\ d \notin changed => next(d) = propagated[d]
    BY DEF Changed
  <1>6. \A d \in Dependencies : propagated[current] # ScopeUnknown =>
           /\ next(d) \in {ScopeRuntime, ScopeDevelopment}
           /\ next(d) # ScopeUnknown
           /\ next(d) = ScopeRuntime <=>
                 \/ propagated[d] = ScopeRuntime
                 \/ propagated[current] = ScopeRuntime
                 \/ ScopeRuntime \in own[d]
    <2>1. ScopeRuntime # ScopeUnknown /\ ScopeDevelopment # ScopeUnknown
      BY DEF ScopeRuntime, ScopeDevelopment, ScopeUnknown
    <2>2. QED BY <1>2, <1>t, <2>1, NextScopeIs
  <1> HIDE DEF current, changed, next
  <1>7. \A d \in Dependencies :
           /\ propagated'[d] = IF d \in changed THEN next(d) ELSE propagated[d]
           /\ scopes'[d] = IF d \in changed THEN scopes[d] \cup {next(d)} ELSE scopes[d]
    BY <1>1, <1>4, <1>6 DEF WithScope
  <1>8. PICK order \in Listings(changed) : queue' = Tail(queue) \o order
    BY <1>1
  <1>9. order \in Seq(Dependencies) /\ \A x \in changed : \E i \in 1 .. Len(order) : order[i] = x
    BY <1>4, ListingIsSequence
  <1>q. queue \in Seq(Dependencies) /\ queue # << >>
    BY <1>1, <1>t
  <1>o. order \in Seq(Dependencies)
    BY <1>9
  <1>10. TypeOK'
    <2>1. queue' \in Seq(Dependencies)
      <3>1. Tail(queue) \in Seq(Dependencies)
        BY <1>q
      <3>2. Tail(queue) \o order \in Seq(Dependencies)
        BY <1>o, <3>1
      <3>3. QED BY <1>8, <3>2
    <2>2. propagated' \in [Dependencies -> Scope]
      BY <1>1, <1>t, <1>4, <1>6 DEF Scope
    <2>3. scopes' \in [Dependencies -> SUBSET {ScopeRuntime, ScopeDevelopment}]
      <3>1. \A d \in Dependencies : scopes'[d] \in SUBSET {ScopeRuntime, ScopeDevelopment}
        BY <1>t, <1>4, <1>6, <1>7
      <3>2. QED BY <1>1, <3>1
    <2>4. QED BY <1>1, <1>2, <2>1, <2>2, <2>3 DEF TypeOK
  <1>11. Carries'
    <2>1. SUFFICES ASSUME NEW d \in Dependencies
                   PROVE  /\ own[d] \subseteq scopes'[d]
                          /\ ScopeRuntime \in scopes'[d] <=>
                                ScopeRuntime \in own[d] \/ propagated'[d] = ScopeRuntime
                          /\ propagated'[d] # ScopeUnknown => propagated'[d] \in scopes'[d]
                          /\ propagated'[d] = ScopeUnknown => scopes'[d] = own[d]
      BY <1>1 DEF Carries
    <2>2. /\ own[d] \subseteq scopes[d]
          /\ ScopeRuntime \in scopes[d] <=> ScopeRuntime \in own[d] \/ propagated[d] = ScopeRuntime
          /\ propagated[d] # ScopeUnknown => propagated[d] \in scopes[d]
          /\ propagated[d] = ScopeUnknown => scopes[d] = own[d]
      BY <1>2 DEF Carries
    <2>3. CASE d \notin changed
      BY <1>7, <2>2, <2>3
    <2>4. CASE d \in changed
      BY <1>4, <1>6, <1>7, <2>2, <2>4
    <2>5. QED BY <2>3, <2>4
  <1>12. Founded'
    <2>1. SUFFICES ASSUME NEW d \in Dependencies
                   PROVE  /\ propagated'[d] # ScopeUnknown => d \in Reached
                          /\ propagated'[d] = ScopeRuntime => d \in RuntimeReached
      BY <1>3 DEF Founded
    <2>2. CASE d \notin changed
      BY <1>2, <1>7, <2>2 DEF Founded
    <2>3. CASE d \in changed
      <3>1. /\ propagated[current] # ScopeUnknown /\ current \in Reached
            /\ propagated[current] = ScopeRuntime => current \in RuntimeReached
            /\ propagated[d] = ScopeRuntime => d \in RuntimeReached
            /\ d \in DirectDependencies(current) \ {root}
        BY <1>2, <1>t, <1>4, <2>3 DEF Founded
      <3>2. d \in Reached
        BY <3>1, ReachedIsClosed
      <3>3. next(d) = ScopeRuntime => d \in RuntimeReached
        BY <1>6, <3>1, RuntimeReachedIsClosed
      <3>4. QED BY <1>7, <2>3, <3>2, <3>3
    <2>4. QED BY <2>2, <2>3
  <1>13. Settled'
    <2>1. \A d \in Dependencies :
             /\ propagated[d] # ScopeUnknown => propagated'[d] # ScopeUnknown
             /\ propagated[d] = ScopeRuntime => propagated'[d] = ScopeRuntime
      BY <1>4, <1>6, <1>7
    <2>2. \A d \in DirectDependencies(root) :
             /\ propagated'[d] # ScopeUnknown
             /\ StartsRuntime(d) => propagated'[d] = ScopeRuntime
      BY <1>2, <1>3, <2>1 DEF Settled
    <2>3. ASSUME NEW p \in Dependencies, propagated'[p] # ScopeUnknown, ~Queued(p)',
                 NEW c \in DirectDependencies(p) \ {root}
          PROVE  /\ propagated'[c] # ScopeUnknown
                 /\ propagated'[p] = ScopeRuntime \/ ScopeRuntime \in own[c]
                       => propagated'[c] = ScopeRuntime
      <3>1. p \notin changed /\ (Queued(p) => p = current)
        <4>1. \A x \in Dependencies :
                 /\ Queued(x) => x = Head(queue) \/ Queued(x)'
                 /\ (\E i \in 1 .. Len(order) : order[i] = x) => Queued(x)'
          <5>1. SUFFICES ASSUME NEW x \in Dependencies,
                                \/ x # Head(queue) /\ \E i \in 1 .. Len(queue) : queue[i] = x
                                \/ \E i \in 1 .. Len(order) : order[i] = x
                         PROVE  Queued(x)'
            BY DEF Queued
          <5>2. queue' = Tail(queue) \o order
            BY <1>8
          <5>3. CASE x # Head(queue) /\ \E i \in 1 .. Len(queue) : queue[i] = x
            <6>1. queue \in Seq(Dependencies) /\ queue # << >> /\ order \in Seq(Dependencies)
              BY <1>q, <1>o
            <6>2. x # Head(queue) /\ Waits(x, queue) BY <5>3 DEF Waits
            <6>3. Waits(x, Tail(queue) \o order) BY <6>1, <6>2, QueueKeeps, Zenon
            <6>4. QED BY <5>2, <6>3, Zenon DEF Queued, Waits
          <5>4. CASE \E i \in 1 .. Len(order) : order[i] = x
            <6>1. \E i \in 1 .. Len(Tail(queue) \o order) : (Tail(queue) \o order)[i] = x
              <7>1. PICK j \in 1 .. Len(order) : order[j] = x
                BY <5>4
              <7>2. /\ Len(Tail(queue)) + j \in 1 .. Len(Tail(queue) \o order)
                    /\ (Tail(queue) \o order)[Len(Tail(queue)) + j] = order[j]
                BY <1>q, <1>o, QueueGains, Zenon
              <7>3. QED BY <7>1, <7>2
            <6>2. QED BY <5>2, <6>1, Zenon DEF Queued
          <5>5. QED BY <5>1, <5>3, <5>4
        <4>2. p \notin changed
          BY <1>9, <2>3, <4>1
        <4>3. Queued(p) => p = current
          BY <2>3, <4>1 DEF current
        <4>4. QED BY <4>2, <4>3
      <3>2. propagated'[p] = propagated[p]
        BY <1>7, <3>1
      <3>3. CASE ~Queued(p)
        BY <1>2, <1>3, <2>1, <2>3, <3>2, <3>3 DEF Settled, SettledFrom
      <3>4. CASE p = current
        <4>1. propagated[current] # ScopeUnknown
          BY <2>3, <3>2, <3>4
        <4>2. propagated'[c] = next(c)
          BY <1>3, <1>5, <1>7, <2>3, <3>4, <4>1
        <4>3. QED BY <1>3, <1>6, <2>3, <3>2, <3>4, <4>1, <4>2
      <3>5. QED BY <3>1, <3>3, <3>4
    <2>4. QED BY <1>1, <1>2, <1>3, <2>2, <2>3 DEF Settled, SettledFrom, Nodes
  <1>14. QED BY <1>1, <1>10, <1>11, <1>12, <1>13 DEF WalkInv, ScopesFollowPaths
-----------------------------------------------------------------------------
(* With nothing left in the queue, what was propagated is what is reached. *)
LEMMA EmptyQueueReachesAll ==
    ASSUME WalkInv, pc \in {"walk", "default"}, queue = << >>
    PROVE  \A d \in Dependencies :
              /\ d \in Reached <=> propagated[d] # ScopeUnknown
              /\ d \in RuntimeReached <=> propagated[d] = ScopeRuntime
  <1> DEFINE known == {d \in Dependencies : propagated[d] # ScopeUnknown}
             runtime == {d \in Dependencies : propagated[d] = ScopeRuntime}
  <1>1. Settled /\ Founded
    BY DEF WalkInv
  <1>2. \A n : DirectDependencies(n) \in SUBSET Dependencies
    BY DEF DirectDependencies
  <1>3. \A p \in known : SettledFrom(p)
    BY <1>1 DEF Settled, Queued
  <1>4. ReachClosed(known)
    BY <1>1, <1>2, <1>3 DEF ReachClosed, Settled, SettledFrom
  <1>5. Reached \subseteq known
    BY <1>4 DEF Reached
  <1>6. RuntimeClosed(runtime)
    <2>1. \A d \in DirectDependencies(root) : StartsRuntime(d) => d \in runtime
      BY <1>1, <1>2 DEF Settled
    <2>2. \A p \in Reached : \A d \in DirectDependencies(p) \ {root} :
             p \in runtime \/ ScopeRuntime \in own[d] => d \in runtime
      BY <1>2, <1>3, <1>5 DEF SettledFrom
    <2>3. QED BY <2>1, <2>2 DEF RuntimeClosed
  <1>7. RuntimeReached \subseteq runtime
    BY <1>6 DEF RuntimeReached
  <1>8. QED BY <1>1, <1>5, <1>7 DEF Founded

(* Giving the default scope to what the walk left unknown keeps the
   invariant. *)
LEMMA DefaultWalk == ASSUME WalkInv, Default PROVE WalkInv'
  <1>1. /\ pc = "default" /\ pc' = "done" /\ queue = << >>
        /\ scopes' = [d \in Dependencies |->
                         IF Defaulted(d) THEN WithScope(scopes[d], ScopeRuntime) ELSE scopes[d]]
        /\ root' = root /\ edges' = edges /\ seed' = seed /\ own' = own
        /\ propagated' = propagated /\ queue' = queue
    BY DEF Default, input, WalkInv
  <1>2. TypeOK /\ Carries /\ Settled
    BY <1>1 DEF WalkInv
  <1>3. /\ Reached' = Reached /\ RuntimeReached' = RuntimeReached
    BY <1>1 DEF DirectDependencies, StartsRuntime, Reached, ReachClosed, RuntimeReached, RuntimeClosed
  <1>4. \A d \in Dependencies :
           /\ d \in Reached <=> propagated[d] # ScopeUnknown
           /\ d \in RuntimeReached <=> propagated[d] = ScopeRuntime
    BY <1>1, EmptyQueueReachesAll
  <1>5. \A d \in Dependencies :
           /\ scopes[d] \in SUBSET {ScopeRuntime, ScopeDevelopment}
           /\ own[d] \in SUBSET {ScopeRuntime, ScopeDevelopment}
           /\ propagated[d] \in Scope
           /\ scopes'[d] = IF Defaulted(d) THEN scopes[d] \cup {ScopeRuntime} ELSE scopes[d]
    BY <1>1, <1>2 DEF TypeOK, WithScope, ScopeRuntime, ScopeUnknown
  <1>6. \A d \in Dependencies : scopes'[d] \in SUBSET {ScopeRuntime, ScopeDevelopment}
    BY <1>5
  <1>7. TypeOK'
    BY <1>1, <1>2, <1>6 DEF TypeOK
  <1>8. \A d \in Dependencies : PrimaryScope(scopes'[d]) = ExpectedScope(d)
    <2> SUFFICES ASSUME NEW d \in Dependencies
                 PROVE  PrimaryScope(scopes'[d]) = ExpectedScope(d)
      OBVIOUS
    <2>1. /\ own[d] \subseteq scopes[d]
          /\ ScopeRuntime \in scopes[d] <=> ScopeRuntime \in own[d] \/ propagated[d] = ScopeRuntime
          /\ propagated[d] # ScopeUnknown => propagated[d] \in scopes[d]
          /\ propagated[d] = ScopeUnknown => scopes[d] = own[d]
      BY <1>2 DEF Carries
    <2>2. Defaulted(d) <=> d # root /\ scopes[d] = {}
      BY <1>5, PrimaryScopeIsStrongest DEF Defaulted
    <2>3. /\ PrimaryScope(scopes'[d]) \in Scope
          /\ PrimaryScope(scopes'[d]) = ScopeRuntime <=> ScopeRuntime \in scopes'[d]
          /\ PrimaryScope(scopes'[d]) = ScopeUnknown <=> scopes'[d] = {}
      BY <1>6, PrimaryScopeIsStrongest
    <2>4. CASE \/ ScopeRuntime \in own[d] \/ d \in RuntimeReached
               \/ d \notin Reached /\ own[d] = {} /\ d # root
      <3>1. ScopeRuntime \in scopes'[d]
        BY <1>4, <1>5, <2>1, <2>2, <2>4
      <3>2. QED BY <2>3, <2>4, <3>1 DEF ExpectedScope
    <2>5. CASE ~ \/ ScopeRuntime \in own[d] \/ d \in RuntimeReached
                 \/ d \notin Reached /\ own[d] = {} /\ d # root
      <3>1. ScopeRuntime \notin scopes[d]
        BY <1>4, <2>1, <2>5
      <3>2. scopes[d] = {} => d \notin Reached /\ own[d] = {}
        BY <1>4, <2>1
      <3>3. ~Defaulted(d)
        BY <2>2, <2>5, <3>2
      <3>4. scopes'[d] = scopes[d]
        BY <1>5, <3>3
      <3>5. scopes[d] = {} <=> ~(d \in Reached \/ own[d] # {})
        BY <1>4, <2>1
      <3>6. QED BY <2>3, <2>5, <3>1, <3>4, <3>5 DEF ExpectedScope, Scope
    <2>6. QED BY <2>4, <2>5
  <1>9. \A d \in Dependencies : ExpectedScope(d)' = ExpectedScope(d)
    BY <1>1, <1>3 DEF ExpectedScope
  <1>10. root \in Nodes
    BY <1>2 DEF Settled
  <1>11. ScopesFollowPaths'
    BY <1>1, <1>8, <1>9, <1>10 DEF ScopesFollowPaths, Nodes
  <1>12. QED BY <1>1, <1>7, <1>11 DEF WalkInv

(* Every step of the walk keeps the invariant. *)
LEMMA WalkStep == WalkInv /\ [WalkNext]_<<edges, walkVars>> => WalkInv'
  <1> SUFFICES ASSUME WalkInv, [WalkNext]_<<edges, walkVars>> PROVE WalkInv'
    OBVIOUS
  <1>1. CASE RootIsAbsent
    <2>1. TypeOK' /\ ScopesFollowPaths'
      BY <1>1 DEF RootIsAbsent, input, WalkInv, Untouched, TypeOK, ScopesFollowPaths, Nodes
    <2>2. QED BY <1>1, <2>1 DEF RootIsAbsent, WalkInv
  <1>2. CASE SeedDirect
    BY <1>2, SeedWalk
  <1>3. CASE Visit
    BY <1>3, VisitWalk
  <1>4. CASE QueueIsEmpty
    <2>1. /\ pc = "walk" /\ pc' = "default" /\ queue = << >> /\ UNCHANGED <<input, scopes, propagated, queue>>
      BY <1>4 DEF QueueIsEmpty
    <2>2. TypeOK' /\ Carries' /\ Founded' /\ Settled'
      BY <2>1 DEF WalkInv, input, TypeOK, Carries, Founded, Settled, SettledFrom, Queued,
                  DirectDependencies, StartsRuntime, Reached, ReachClosed, RuntimeReached,
                  RuntimeClosed, Nodes
    <2>3. QED BY <2>1, <2>2 DEF WalkInv, ScopesFollowPaths
  <1>5. CASE Default
    BY <1>5, DefaultWalk
  <1>6. CASE UNCHANGED <<edges, walkVars>>
    <2>1. UNCHANGED <<root, edges, seed, own, scopes, propagated, queue, pc>>
      BY <1>6 DEF walkVars
    <2>2. /\ Reached' = Reached /\ RuntimeReached' = RuntimeReached
      BY <2>1 DEF DirectDependencies, StartsRuntime, Reached, ReachClosed, RuntimeReached,
                  RuntimeClosed
    <2>3. /\ TypeOK' <=> TypeOK
          /\ Untouched' <=> Untouched
          /\ Carries' <=> Carries
      BY <2>1 DEF TypeOK, Untouched, Carries
    <2>4. Founded' <=> Founded
      BY <2>1, <2>2 DEF Founded
    <2>5. Settled' <=> Settled
      BY <2>1 DEF Settled, SettledFrom, Queued, DirectDependencies, StartsRuntime, Nodes
    <2>6. \A d \in Dependencies : ExpectedScope(d)' = ExpectedScope(d)
      BY <2>1, <2>2 DEF ExpectedScope
    <2>7. ScopesFollowPaths' <=> ScopesFollowPaths
      BY <2>1, <2>6 DEF ScopesFollowPaths, Nodes
    <2>8. QED BY <2>1, <2>3, <2>4, <2>5, <2>7 DEF WalkInv
  <1>7. QED BY <1>1, <1>2, <1>3, <1>4, <1>5, <1>6 DEF WalkNext

(* The invariant of the walk holds throughout. *)
THEOREM WalkAlwaysSound == WalkSpec => []WalkInv
  BY InitWalk, WalkStep, PTL DEF WalkSpec

(* Every variable keeps its type. *)
THEOREM WalkTyped == WalkSpec => []TypeOK
  <1>1. WalkInv => TypeOK
    BY DEF WalkInv
  <1>2. QED BY <1>1, WalkAlwaysSound, PTL

(* What the invariant says of the runtime marks. *)
LEMMA WalkIsFounded == WalkInv => RuntimeIsFounded
  <1> SUFFICES ASSUME WalkInv, pc \in {"seed", "walk", "default"}, NEW d \in Dependencies,
                      ScopeRuntime \in scopes[d] \ own[d]
               PROVE  d \in RuntimeReached
    BY DEF RuntimeIsFounded
  <1>1. Carries /\ Founded
    BY DEF WalkInv, TypeOK
  <1>2. QED BY <1>1 DEF Carries, Founded

(* On any graph, no dependency is marked runtime during the walk unless a
   runtime path leads to it. *)
THEOREM RuntimeAlwaysFounded == WalkSpec => []RuntimeIsFounded
  BY WalkIsFounded, WalkAlwaysSound, PTL

(* On any graph, cyclic or not, and for any order of the walk, the effective
   scopes at the end are those of the paths from the root. *)
THEOREM ScopesAlwaysFollowPaths == WalkSpec => []ScopesFollowPaths
  <1>1. WalkInv => ScopesFollowPaths
    BY DEF WalkInv
  <1>2. QED BY <1>1, WalkAlwaysSound, PTL
-----------------------------------------------------------------------------
(***************************************************************************)
(* CollectPathsTo returns every path to its target, cyclic ones included,  *)
(* each once and in the order of their IDs, on every graph.                *)
(*                                                                         *)
(* The reverse search keeps what it has found leading to the target        *)
(* (Explored) and ends with every node that does.  During the walk, what   *)
(* is before it is whatever a start not yet taken, or a child not yet      *)
(* looked at of a frame on the stack, leads to (Pending), and the paths    *)
(* found are all the others, each once (Found).  At the end nothing is     *)
(* pending.  PathsInv carries this through the whole query.                *)
(***************************************************************************)

(* The nodes of a set in the order of their IDs, each once. *)
LEMMA ByIDLists ==
    ASSUME NEW S \in SUBSET Nodes
    PROVE  /\ ByID(S) \in Seq(Nodes)
           /\ IsInjective(ByID(S))
           /\ Range(ByID(S)) = S
  <1> DEFINE n == Cardinality(S)
             R == {p \in Nat \X Nat : p[1] < p[2]}
             below(x) == {m \in S : m < x}
             at(i) == CHOOSE x \in S : Cardinality(below(x)) = i - 1
             list == ByID(S)
  <1>1. S \subseteq Nat /\ S \subseteq Nodes /\ IsFiniteSet(S) BY GraphAssumption, FS_Subset
  <1>2. Orders(R, S) BY <1>1 DEF Orders
  <1>3. \A x \in S : Lower(R, S, x) = below(x) BY <1>1 DEF Lower
  <1>4. list = [i \in 1 .. n |-> at(i)] BY DEF ByID
  <1>5. /\ n \in Nat
        /\ \A x \in S : Cardinality(below(x)) \in Nat /\ Cardinality(below(x)) + 1 \in 1 .. n
        /\ \A x, y \in S : <<x, y>> \in R => Cardinality(below(x)) < Cardinality(below(y))
        /\ \A i \in 1 .. n : \E x \in S : Cardinality(below(x)) = i - 1
    <2> HIDE DEF R, below
    <2>1. /\ n \in Nat
          /\ \A x \in S : /\ Cardinality(Lower(R, S, x)) \in Nat
                           /\ Cardinality(Lower(R, S, x)) + 1 \in 1 .. n
          /\ \A x, y \in S : <<x, y>> \in R =>
                Cardinality(Lower(R, S, x)) < Cardinality(Lower(R, S, y))
          /\ \A i \in 1 .. n : \E x \in S : Cardinality(Lower(R, S, x)) = i - 1
      BY <1>1, <1>2, PlacesInAnOrder
    <2> HIDE DEF n
    <2>2. QED BY <2>1, <1>3
  <1> HIDE DEF R, below
  <1>6. \A i \in 1 .. n : at(i) \in S /\ Cardinality(below(at(i))) = i - 1 BY <1>5
  <1> HIDE DEF n, at, list
  <1>7. list \in Seq(Nodes) /\ DOMAIN list = 1 .. n
    <2>1. \A i \in 1 .. n : at(i) \in Nodes BY <1>1, <1>6
    <2>2. list \in [1 .. n -> Nodes] BY <2>1, <1>4
    <2>3. QED BY <2>2, <1>5
  <1>8. \A i \in 1 .. n : list[i] \in S /\ Cardinality(below(list[i])) = i - 1 BY <1>4, <1>6
  <1>9. IsInjective(list)
    <2> SUFFICES ASSUME NEW i \in 1 .. n, NEW j \in 1 .. n, list[i] = list[j] PROVE i = j
      BY <1>7 DEF IsInjective
    <2>1. i - 1 = j - 1 BY <1>8
    <2>2. QED BY <2>1, <1>5
  <1>10. \A x \in S : x \in Range(list)
    <2> TAKE x \in S
    <2> DEFINE i == Cardinality(below(x)) + 1
               y == list[i]
    <2>1. i \in 1 .. n BY <1>5
    <2>2. y \in S /\ Cardinality(below(y)) = i - 1 BY <2>1, <1>8
    <2>3. Cardinality(below(x)) = i - 1 BY <2>1, <1>5
    <2> HIDE DEF i, y
    <2>4. y = x
      <3>1. <<x, y>> \notin R /\ <<y, x>> \notin R BY <2>2, <2>3, <2>1, <1>5
      <3>2. QED BY <3>1, <2>2, <1>2 DEF Orders
    <2>5. QED BY <2>1, <2>4, <1>7 DEF Range, y
  <1>11. Range(list) = S BY <1>7, <1>8, <1>10 DEF Range
  <1>12. QED BY <1>7, <1>9, <1>11 DEF list

(* The order of paths, as one of the sequences of their nodes. *)
Lexical(a, b) ==
    \/ \E i \in DOMAIN a \cap DOMAIN b :
          /\ a[i] < b[i]
          /\ \A j \in 1 .. i - 1 : a[j] = b[j]
    \/ Len(a) < Len(b) /\ \A j \in DOMAIN a : a[j] = b[j]

(* Of two sequences that differ, one comes before the other: the order is total, *)
LEMMA LexicalIsTotal ==
    ASSUME NEW a \in Seq(Nat), NEW b \in Seq(Nat), a # b
    PROVE  Lexical(a, b) \/ Lexical(b, a)
  <1> DEFINE n == Len(a)
             m == Len(b)
             D == {i \in Nat : i \in 1 .. n /\ i \in 1 .. m /\ a[i] # b[i]}
  <1>1. /\ n \in Nat /\ m \in Nat /\ DOMAIN a = 1 .. n /\ DOMAIN b = 1 .. m
        /\ (\A i \in 1 .. n : a[i] \in Nat) /\ \A i \in 1 .. m : b[i] \in Nat
    OBVIOUS
  <1>2. CASE D = {}
    <2>1. \A i \in Nat : i \in 1 .. n /\ i \in 1 .. m => a[i] = b[i] BY <1>2
    <2>2. n # m
      <3>1. n = m => \A i \in 1 .. n : a[i] = b[i] BY <2>1, <1>1
      <3>2. ASSUME n = m PROVE a = b
        <4>1. \A i \in 1 .. Len(a) : a[i] = b[i] BY <3>1, <3>2
        <4>2. QED BY <3>2, <4>1, SeqEqual
      <3>3. QED BY <3>2
    <2>3. CASE n < m
      <3>1. \A i \in 1 .. n : a[i] = b[i] BY <2>1, <2>3, <1>1
      <3>2. QED BY <3>1, <2>3, <1>1 DEF Lexical
    <2>4. CASE m < n
      <3>1. \A i \in 1 .. m : b[i] = a[i] BY <2>1, <2>4, <1>1
      <3>2. QED BY <3>1, <2>4, <1>1 DEF Lexical
    <2> HIDE DEF D, n, m
    <2>5. QED BY <2>2, <2>3, <2>4, <1>1
  <1>3. CASE D # {}
    <2> DEFINE i == Min(D)
    <2>1. D \subseteq Nat OBVIOUS
    <2>2. i \in D /\ \A j \in D : i <= j
      <3> HIDE DEF D
      <3> QED BY <2>1, <1>3, MinOfNaturals
    <2> HIDE DEF i
    <2>3. i \in 1 .. n /\ i \in 1 .. m /\ a[i] # b[i] BY <2>2
    <2>4. \A j \in 1 .. i - 1 : a[j] = b[j]
      <3> TAKE j \in 1 .. i - 1
      <3>1. j \in Nat /\ j \in 1 .. n /\ j \in 1 .. m /\ ~(i <= j) BY <2>3, <1>1
      <3>2. j \notin D BY <3>1, <2>2
      <3>3. QED BY <3>1, <3>2
    <2> HIDE DEF D
    <2>5. a[i] < b[i] \/ b[i] < a[i] BY <2>3, <1>1
    <2>6. QED BY <2>3, <2>4, <2>5, <1>1 DEF Lexical
  <1>4. QED BY <1>2, <1>3

(* none comes before itself, *)
LEMMA LexicalIsStrict ==
    ASSUME NEW a \in Seq(Nat)
    PROVE  ~Lexical(a, a)
  <1>1. \A i \in DOMAIN a : a[i] \in Nat OBVIOUS
  <1>2. Len(a) \in Nat OBVIOUS
  <1>3. QED BY <1>1, <1>2 DEF Lexical

(* and it is transitive. *)
LEMMA LexicalIsTransitive ==
    ASSUME NEW a \in Seq(Nat), NEW b \in Seq(Nat), NEW c \in Seq(Nat), Lexical(a, b), Lexical(b, c)
    PROVE  Lexical(a, c)
  <1> DEFINE n == Len(a)
             m == Len(b)
             l == Len(c)
             Splits(x, y, i) == x[i] < y[i] /\ \A j \in 1 .. i - 1 : x[j] = y[j]
  <1>1. /\ n \in Nat /\ m \in Nat /\ l \in Nat
        /\ DOMAIN a = 1 .. n /\ DOMAIN b = 1 .. m /\ DOMAIN c = 1 .. l
        /\ (\A i \in 1 .. n : a[i] \in Nat) /\ (\A i \in 1 .. m : b[i] \in Nat)
        /\ \A i \in 1 .. l : c[i] \in Nat
    OBVIOUS
  <1>2. \/ \E i \in Nat : i \in 1 .. n /\ i \in 1 .. m /\ Splits(a, b, i)
        \/ n < m /\ \A j \in 1 .. n : a[j] = b[j]
    <2>1. CASE \E i \in DOMAIN a \cap DOMAIN b : a[i] < b[i] /\ \A j \in 1 .. i - 1 : a[j] = b[j]
      <3>1. PICK i \in DOMAIN a \cap DOMAIN b : Splits(a, b, i) BY <2>1
      <3>2. i \in Nat /\ i \in 1 .. n /\ i \in 1 .. m BY <1>1
      <3> HIDE DEF Splits
      <3>3. QED BY <3>1, <3>2
    <2>2. CASE n < m /\ \A j \in DOMAIN a : a[j] = b[j] BY <2>2, <1>1
    <2>3. QED BY <2>1, <2>2 DEF Lexical
  <1>3. \/ \E i \in Nat : i \in 1 .. m /\ i \in 1 .. l /\ Splits(b, c, i)
        \/ m < l /\ \A j \in 1 .. m : b[j] = c[j]
    <2>1. CASE \E i \in DOMAIN b \cap DOMAIN c : b[i] < c[i] /\ \A j \in 1 .. i - 1 : b[j] = c[j]
      <3>1. PICK i \in DOMAIN b \cap DOMAIN c : Splits(b, c, i) BY <2>1
      <3>2. i \in Nat /\ i \in 1 .. m /\ i \in 1 .. l BY <1>1
      <3> HIDE DEF Splits
      <3>3. QED BY <3>1, <3>2
    <2>2. CASE m < l /\ \A j \in DOMAIN b : b[j] = c[j] BY <2>2, <1>1
    <2>3. QED BY <2>1, <2>2 DEF Lexical
  <1>4. ASSUME NEW i \in Nat, i \in 1 .. n, i \in 1 .. l, Splits(a, c, i) PROVE Lexical(a, c)
    BY <1>1, <1>4 DEF Lexical
  <1>5. ASSUME n < l, \A j \in 1 .. n : a[j] = c[j] PROVE Lexical(a, c)
    BY <1>1, <1>5 DEF Lexical
  <1> HIDE DEF n, m, l
  <1>6. ASSUME NEW i \in Nat, i \in 1 .. n, i \in 1 .. m, Splits(a, b, i),
               NEW k \in Nat, k \in 1 .. m, k \in 1 .. l, Splits(b, c, k)
        PROVE  Lexical(a, c)
    <2>1. CASE i < k
      <3>1. i \in 1 .. l BY <2>1, <1>6, <1>1
      <3>2. Splits(a, c, i) BY <2>1, <1>6, <1>1
      <3> HIDE DEF Splits
      <3>3. QED BY <3>1, <3>2, <1>6, <1>4
    <2>2. CASE k < i
      <3>1. k \in 1 .. n BY <2>2, <1>6, <1>1
      <3>2. Splits(a, c, k) BY <2>2, <1>6, <1>1
      <3> HIDE DEF Splits
      <3>3. QED BY <3>1, <3>2, <1>6, <1>4
    <2>3. CASE i = k
      <3>1. Splits(a, b, k) /\ Splits(b, c, k) BY <2>3, <1>6
      <3>2. k \in 1 .. n /\ k \in 1 .. l BY <2>3, <1>6
      <3>3. a[k] \in Nat /\ b[k] \in Nat /\ c[k] \in Nat BY <3>2, <1>1, <1>6
      <3>4. a[k] < c[k] BY <3>1, <3>3
      <3>5. \A j \in 1 .. k - 1 : a[j] = c[j] BY <3>1
      <3>6. Splits(a, c, k) BY <3>4, <3>5
      <3> HIDE DEF Splits
      <3>7. QED BY <3>2, <3>6, <1>4
    <2>4. QED BY <2>1, <2>2, <2>3
  <1>7. ASSUME NEW i \in Nat, i \in 1 .. n, i \in 1 .. m, Splits(a, b, i),
               m < l, \A j \in 1 .. m : b[j] = c[j]
        PROVE  Lexical(a, c)
    <2>1. i \in 1 .. l /\ Splits(a, c, i) BY <1>7, <1>1
    <2> HIDE DEF Splits
    <2>2. QED BY <2>1, <1>7, <1>4
  <1>8. ASSUME n < m, \A j \in 1 .. n : a[j] = b[j],
               NEW k \in Nat, k \in 1 .. m, k \in 1 .. l, Splits(b, c, k)
        PROVE  Lexical(a, c)
    <2>1. CASE k \in 1 .. n
      <3>1. Splits(a, c, k) BY <2>1, <1>8, <1>1
      <3> HIDE DEF Splits
      <3>2. QED BY <3>1, <2>1, <1>8, <1>4
    <2>2. CASE k \notin 1 .. n
      <3>1. n < k BY <2>2, <1>8, <1>1
      <3>2. n < l BY <3>1, <1>8, <1>1
      <3>3. \A j \in 1 .. n : a[j] = c[j]
        <4> TAKE j \in 1 .. n
        <4>1. a[j] = b[j] BY <1>8
        <4>2. j \in 1 .. k - 1 BY <3>1, <1>1, <1>8
        <4>3. b[j] = c[j] BY <4>2, <1>8
        <4>4. QED BY <4>1, <4>3
      <3>4. QED BY <3>2, <3>3, <1>5
    <2>3. QED BY <2>1, <2>2
  <1>9. ASSUME n < m, \A j \in 1 .. n : a[j] = b[j], m < l, \A j \in 1 .. m : b[j] = c[j]
        PROVE  Lexical(a, c)
    <2>1. n < l /\ \A j \in 1 .. n : a[j] = c[j] BY <1>9, <1>1
    <2>2. QED BY <2>1, <1>5
  <1> HIDE DEF Splits
  <1>10. QED BY <1>2, <1>3, <1>6, <1>7, <1>8, <1>9

(* The paths of the walk, whatever their nodes. *)
PathRecords == [nodes : Seq(Nodes), cyclic : BOOLEAN]

(* Paths that differ in their nodes are sorted strictly by them. *)
LEMMA InPathOrderSorts ==
    ASSUME NEW found \in Seq(PathRecords),
           \A i, j \in DOMAIN found : found[i].nodes = found[j].nodes => i = j
    PROVE  LET sorted == InPathOrder(found)
           IN /\ DOMAIN sorted = DOMAIN found
              /\ Range(sorted) = Range(found)
              /\ \A i, j \in DOMAIN sorted : i < j => Precedes(sorted[i], sorted[j])
  <1> DEFINE n == Len(found)
             S == 1 .. n
             R == {p \in S \X S : Ahead(found, p[1], p[2])}
             below(j) == {k \in DOMAIN found : Ahead(found, k, j)}
             at(i) == CHOOSE j \in S : Cardinality(below(j)) = i - 1
             sorted == InPathOrder(found)
  <1>1. n \in Nat /\ DOMAIN found = S OBVIOUS
  <1>2. \A i \in S : found[i].nodes \in Seq(Nat)
    <2> TAKE i \in S
    <2>1. found[i] \in PathRecords OBVIOUS
    <2>2. found[i].nodes \in Seq(Nodes) BY <2>1 DEF PathRecords
    <2> DEFINE q == found[i].nodes
    <2>3. q \in Seq(Nodes) BY <2>2
    <2> HIDE DEF q
    <2>n. Nodes \subseteq Nat BY GraphAssumption
    <2>4. Len(q) \in Nat /\ DOMAIN q = 1 .. Len(q) /\ \A j \in 1 .. Len(q) : q[j] \in Nat
      <3>1. Len(q) \in Nat /\ DOMAIN q = 1 .. Len(q) BY <2>3
      <3>2. \A j \in 1 .. Len(q) : q[j] \in Nodes BY <2>3
      <3>3. QED BY <3>1, <3>2, <2>n
    <2>5. q \in [1 .. Len(q) -> Nat]
      <3>1. q = [j \in 1 .. Len(q) |-> q[j]] BY <2>3
      <3>2. QED BY <3>1, <2>4
    <2>6. q \in Seq(Nat) BY <2>4, <2>5
    <2>7. QED BY <2>6 DEF q
  <1>3. \A i, j \in S : Precedes(found[i], found[j]) <=> Lexical(found[i].nodes, found[j].nodes)
    BY DEF Precedes, Lexical
  <1>4. \A i, j \in S : Ahead(found, i, j) <=> Lexical(found[i].nodes, found[j].nodes)
    <2> TAKE i, j \in S
    <2>1. found[i] = found[j] => i = j BY <1>1
    <2>2. ~(i < i) BY <1>1
    <2>3. QED BY <2>1, <2>2, <1>3 DEF Ahead
  <1>5. sorted = [i \in S |-> found[at(i)]] BY <1>1 DEF InPathOrder
  <1> HIDE DEF S, n, at, sorted
  <1>6. Orders(R, S)
    <2>1. \A x, y \in S : x # y => <<x, y>> \in R \/ <<y, x>> \in R
      <3> SUFFICES ASSUME NEW x \in S, NEW y \in S, x # y
                   PROVE  Lexical(found[x].nodes, found[y].nodes) \/ Lexical(found[y].nodes, found[x].nodes)
        BY <1>4
      <3>1. found[x].nodes # found[y].nodes BY <1>1
      <3>2. QED BY <3>1, <1>2, LexicalIsTotal
    <2>2. \A x, y, z \in S : <<x, y>> \in R /\ <<y, z>> \in R => <<x, z>> \in R
      BY <1>2, <1>4, LexicalIsTransitive
    <2>3. \A x \in S : <<x, x>> \notin R BY <1>2, <1>4, LexicalIsStrict
    <2> HIDE DEF R
    <2>4. QED BY <2>1, <2>2, <2>3 DEF Orders
  <1>7. \A x \in S : Lower(R, S, x) = below(x) BY <1>1 DEF Lower
  <1>8. IsFiniteSet(S) /\ Cardinality(S) = n BY <1>1, FS_Interval DEF S
  <1>9. /\ \A x \in S : Cardinality(below(x)) \in Nat /\ Cardinality(below(x)) + 1 \in S
        /\ \A x, y \in S : <<x, y>> \in R => Cardinality(below(x)) < Cardinality(below(y))
        /\ \A i \in S : \E x \in S : Cardinality(below(x)) = i - 1
    <2> HIDE DEF R, below
    <2>1. /\ \A x \in S : /\ Cardinality(Lower(R, S, x)) \in Nat
                          /\ Cardinality(Lower(R, S, x)) + 1 \in 1 .. Cardinality(S)
          /\ \A x, y \in S : <<x, y>> \in R =>
                Cardinality(Lower(R, S, x)) < Cardinality(Lower(R, S, y))
          /\ \A i \in 1 .. Cardinality(S) : \E x \in S : Cardinality(Lower(R, S, x)) = i - 1
      BY <1>6, <1>8, PlacesInAnOrder
    <2>2. 1 .. Cardinality(S) = S BY <1>8 DEF S
    <2>3. \A x \in S : Cardinality(below(x)) \in Nat /\ Cardinality(below(x)) + 1 \in S
      BY <2>1, <2>2, <1>7
    <2>4. \A x, y \in S : <<x, y>> \in R => Cardinality(below(x)) < Cardinality(below(y))
      BY <2>1, <1>7
    <2>5. \A i \in S : \E x \in S : Cardinality(below(x)) = i - 1
      BY <2>1, <2>2, <1>7
    <2>6. QED BY <2>3, <2>4, <2>5
  <1>10. \A x, y \in S : <<x, y>> \in R => Precedes(found[x], found[y]) BY <1>3, <1>4
  <1> HIDE DEF R, below
  <1>11. \A i \in S : at(i) \in S /\ Cardinality(below(at(i))) = i - 1 BY <1>9 DEF at
  <1>12. DOMAIN sorted = S /\ \A i \in S : sorted[i] = found[at(i)] BY <1>5
  <1>13. \A x \in S : \E i \in S : at(i) = x
    <2> TAKE x \in S
    <2> DEFINE i == Cardinality(below(x)) + 1
               y == at(i)
    <2>1. i \in S /\ Cardinality(below(x)) \in Nat BY <1>9
    <2>r. i - 1 = Cardinality(below(x)) BY <2>1
    <2> HIDE DEF i
    <2>2. y \in S /\ Cardinality(below(y)) = Cardinality(below(x)) BY <2>1, <2>r, <1>11
    <2> HIDE DEF y
    <2>3. <<x, y>> \notin R /\ <<y, x>> \notin R
      <3>1. <<x, y>> \in R => Cardinality(below(x)) < Cardinality(below(y)) BY <2>2, <1>9
      <3>2. <<y, x>> \in R => Cardinality(below(y)) < Cardinality(below(x)) BY <2>2, <1>9
      <3>3. QED BY <3>1, <3>2, <2>1, <2>2
    <2>4. y = x BY <2>2, <2>3, <1>6 DEF Orders
    <2>5. QED BY <2>1, <2>4 DEF y
  <1>14. Range(sorted) = Range(found)
    <2>1. \A x : x \in Range(found) <=> \E i \in S : x = found[i] BY <1>1 DEF Range
    <2>2. \A x : x \in Range(sorted) <=> \E i \in S : x = sorted[i] BY <1>12 DEF Range
    <2>3. \A x : x \in Range(found) => x \in Range(sorted) BY <2>1, <2>2, <1>12, <1>13
    <2>4. \A x : x \in Range(sorted) => x \in Range(found) BY <2>1, <2>2, <1>11, <1>12
    <2>5. QED BY <2>3, <2>4
  <1>15. ASSUME NEW i \in S, NEW j \in S, i < j PROVE Precedes(sorted[i], sorted[j])
    <2> DEFINE x == at(i)
               y == at(j)
    <2>1. x \in S /\ y \in S /\ Cardinality(below(x)) = i - 1 /\ Cardinality(below(y)) = j - 1 BY <1>11
    <2>2. i \in Int /\ j \in Int BY <1>1 DEF S
    <2> HIDE DEF x, y
    <2>3. x # y BY <2>1, <2>2, <1>15
    <2>4. <<y, x>> \notin R
      <3>1. <<y, x>> \in R => j - 1 < i - 1 BY <2>1, <1>9
      <3>2. QED BY <3>1, <2>2, <1>15
    <2>5. <<x, y>> \in R BY <2>1, <2>3, <2>4, <1>6 DEF Orders
    <2>6. QED BY <2>1, <2>5, <1>10, <1>12 DEF x, y
  <1>16. QED BY <1>1, <1>12, <1>14, <1>15 DEF sorted

-----------------------------------------------------------------------------
(* The first of a list of distinct things, and the rest. *)
LEMMA HeadAndTail ==
    ASSUME NEW S, NEW s \in Seq(S), s # << >>, IsInjective(s)
    PROVE  /\ Head(s) \in S /\ Tail(s) \in Seq(S)
           /\ IsInjective(Tail(s))
           /\ Range(s) = {Head(s)} \cup Range(Tail(s))
           /\ Head(s) \notin Range(Tail(s))
  <1> DEFINE n == Len(s)
             t == Tail(s)
  <1>1. n \in Nat \ {0} /\ DOMAIN s = 1 .. n /\ Head(s) = s[1] /\ \A i \in 1 .. n : s[i] \in S
    OBVIOUS
  <1>2. /\ t \in Seq(S) /\ Len(t) = n - 1 /\ DOMAIN t = 1 .. n - 1
        /\ \A i \in 1 .. n - 1 : t[i] = s[i + 1]
    OBVIOUS
  <1> HIDE DEF n, t
  <1>3. \A i, j \in 1 .. n : s[i] = s[j] => i = j BY <1>1 DEF IsInjective
  <1>4. IsInjective(t)
    <2>1. \A i, j \in 1 .. n - 1 : t[i] = t[j] => i = j BY <1>1, <1>2, <1>3
    <2>2. QED BY <2>1, <1>2 DEF IsInjective
  <1>5. \A x : x \in Range(s) <=> \E i \in 1 .. n : x = s[i] BY <1>1 DEF Range
  <1>6. \A x : x \in Range(t) <=> \E i \in 1 .. n - 1 : x = s[i + 1] BY <1>2 DEF Range
  <1>7. s[1] \notin Range(t) BY <1>1, <1>3, <1>6
  <1>8. ASSUME NEW i \in 1 .. n PROVE s[i] \in {s[1]} \cup Range(t)
    <2>1. CASE i = 1 BY <2>1
    <2>2. CASE i # 1
      <3>1. i - 1 \in 1 .. n - 1 /\ (i - 1) + 1 = i BY <2>2, <1>1
      <3>2. QED BY <3>1, <1>6
    <2>3. QED BY <2>1, <2>2
  <1>9. \A i \in 1 .. n - 1 : s[i + 1] \in Range(s) BY <1>1, <1>5
  <1>10. s[1] \in Range(s) BY <1>1, <1>5
  <1>11. Range(s) = {s[1]} \cup Range(t)
    <2>1. \A x : x \in Range(s) => x \in {s[1]} \cup Range(t) BY <1>5, <1>8
    <2>2. \A x : x \in Range(t) => x \in Range(s) BY <1>6, <1>9
    <2>3. QED BY <2>1, <2>2, <1>10
  <1>12. QED BY <1>1, <1>2, <1>4, <1>7, <1>11 DEF t

(* A trail is a list of distinct nodes that is not empty: none is longer than
   the nodes are many. *)
LEMMA TrailsAreLists ==
    ASSUME NEW s
    PROVE  s \in Trails <=> s \in Seq(Nodes) /\ Len(s) >= 1 /\ IsInjective(s)
  <1>1. ASSUME s \in Trails PROVE s \in Seq(Nodes) /\ Len(s) >= 1 /\ IsInjective(s)
    <2>1. PICK k \in 1 .. Cardinality(Nodes) : s \in [1 .. k -> Nodes] /\ IsInjective(s)
      BY <1>1 DEF Trails
    <2>2. Cardinality(Nodes) \in Nat BY GraphAssumption, FS_CardinalityType
    <2>3. k \in Nat /\ k >= 1 BY <2>2
    <2>4. s \in Seq(Nodes) /\ Len(s) = k BY <2>1, <2>3
    <2>5. QED BY <2>1, <2>3, <2>4
  <1>2. ASSUME s \in Seq(Nodes), Len(s) >= 1, IsInjective(s) PROVE s \in Trails
    <2> DEFINE k == Len(s)
    <2>1. k \in Nat /\ s \in [1 .. k -> Nodes] BY <1>2
    <2> HIDE DEF k
    <2>2. s \in Injection(1 .. k, Nodes) BY <2>1, <1>2 DEF Injection
    <2>3. IsFiniteSet(1 .. k) /\ Cardinality(1 .. k) = k BY <2>1, FS_Interval
    <2>4. Cardinality(1 .. k) <= Cardinality(Nodes)
      BY <2>2, GraphAssumption, FS_Injection
    <2>5. k \in 1 .. Cardinality(Nodes)
      <3>1. Cardinality(Nodes) \in Nat BY GraphAssumption, FS_CardinalityType
      <3>2. k >= 1 BY <1>2 DEF k
      <3>3. QED BY <3>1, <3>2, <2>1, <2>3, <2>4
    <2>6. QED BY <2>1, <2>5, <1>2 DEF Trails
  <1>3. QED BY <1>1, <1>2

(* s leads from n to the target. *)
LeadsFrom(n, s) ==
    /\ s \in Seq(Nodes) /\ Len(s) >= 1 /\ IsInjective(s)
    /\ Follows(s) /\ s[Len(s)] = target /\ s[1] = n

(* The trails of the model that end at the target are these. *)
LEMMA LeadingLeads ==
    ASSUME NEW s, NEW n
    PROVE  s \in Leading /\ Head(s) = n <=> LeadsFrom(n, s)
  <1>1. s \in Leading <=> s \in Trails /\ Follows(s) /\ Last(s) = target
    <2>1. QED BY DEF Leading
  <1>2. s \in Seq(Nodes) /\ Len(s) >= 1 => Head(s) = s[1] OBVIOUS
  <1>3. Last(s) = s[Len(s)] BY DEF Last
  <1>4. QED BY <1>1, <1>2, <1>3, TrailsAreLists DEF LeadsFrom

(* What reverseReachable has found. *)
Explored ==
    /\ target \in relevant /\ relevant \subseteq Nodes /\ parents \subseteq relevant
    /\ \A n \in relevant \ parents : Incoming(n) \subseteq relevant
    /\ \A n \in relevant : \E s : LeadsFrom(n, s) /\ Range(s) \subseteq relevant

(* From the target itself. *)
LEMMA TargetLeads ==
    ASSUME target \in Nodes
    PROVE  \E s : LeadsFrom(target, s) /\ Range(s) \subseteq {target}
  <1> DEFINE s == <<target>>
  <1>1. s \in Seq(Nodes) /\ Len(s) = 1 /\ s[1] = target /\ DOMAIN s = 1 .. 1 OBVIOUS
  <1> HIDE DEF s
  <1>2. IsInjective(s) BY <1>1 DEF IsInjective
  <1>3. Follows(s) BY <1>1 DEF Follows
  <1>4. Range(s) \subseteq {target} BY <1>1 DEF Range
  <1>5. QED BY <1>1, <1>2, <1>3, <1>4 DEF LeadsFrom

(* From a parent of where a trail leads from, when the trail avoids it. *)
LEMMA ParentLeads ==
    ASSUME NEW n, NEW s, LeadsFrom(n, s), NEW m \in Incoming(n), m \notin Range(s)
    PROVE  \E u : LeadsFrom(m, u) /\ Range(u) = {m} \cup Range(s)
  <1> DEFINE k == Len(s)
             u == [i \in 1 .. k + 1 |-> IF i = 1 THEN m ELSE s[i - 1]]
  <1>1. /\ s \in Seq(Nodes) /\ k \in Nat /\ k >= 1 /\ IsInjective(s) /\ Follows(s)
        /\ s[k] = target /\ s[1] = n /\ DOMAIN s = 1 .. k /\ \A i \in 1 .. k : s[i] \in Nodes
    BY DEF LeadsFrom
  <1>2. m \in Nodes /\ <<m, n>> \in edges BY DEF Incoming
  <1>3. u \in [1 .. k + 1 -> Nodes]
    <2>1. \A i \in 1 .. k + 1 : i # 1 => i - 1 \in 1 .. k BY <1>1
    <2>2. \A i \in 1 .. k + 1 : (IF i = 1 THEN m ELSE s[i - 1]) \in Nodes BY <2>1, <1>1, <1>2
    <2>3. QED BY <2>2
  <1>4. u \in Seq(Nodes) /\ Len(u) = k + 1 /\ DOMAIN u = 1 .. k + 1 BY <1>1, <1>3
  <1>5. u[1] = m /\ \A i \in 1 .. k : u[i + 1] = s[i] BY <1>1
  <1> HIDE DEF k, u
  <1>r. \A x : x \in Range(s) <=> \E i \in 1 .. k : x = s[i] BY <1>1 DEF Range
  <1>6. ASSUME NEW i \in 1 .. k + 1, i # 1 PROVE i - 1 \in 1 .. k /\ u[i] = s[i - 1]
    <2>1. i - 1 \in 1 .. k /\ (i - 1) + 1 = i BY <1>6, <1>1
    <2>2. QED BY <2>1, <1>5
  <1>7. \A i, j \in 1 .. k + 1 : u[i] = u[j] => i = j
    <2> TAKE i, j \in 1 .. k + 1
    <2>1. CASE i = 1 /\ j = 1 BY <2>1
    <2>2. CASE i = 1 /\ j # 1 BY <2>2, <1>5, <1>6, <1>r
    <2>3. CASE i # 1 /\ j = 1 BY <2>3, <1>5, <1>6, <1>r
    <2>4. CASE i # 1 /\ j # 1
      <3>1. i - 1 \in 1 .. k /\ j - 1 \in 1 .. k /\ u[i] = s[i - 1] /\ u[j] = s[j - 1] BY <2>4, <1>6
      <3>2. s[i - 1] = s[j - 1] => i - 1 = j - 1 BY <3>1, <1>1 DEF IsInjective
      <3>3. QED BY <3>1, <3>2, <1>1
    <2>5. QED BY <2>1, <2>2, <2>3, <2>4
  <1>8. IsInjective(u) BY <1>4, <1>7 DEF IsInjective
  <1>9. Follows(u)
    <2> SUFFICES ASSUME NEW i \in 1 .. k PROVE <<u[i], u[i + 1]>> \in edges
      <3>1. Len(u) - 1 = k BY <1>1, <1>4
      <3>2. QED BY <3>1 DEF Follows
    <2>1. CASE i = 1 BY <2>1, <1>1, <1>2, <1>5
    <2>2. CASE i # 1
      <3>1. i - 1 \in 1 .. k - 1 /\ (i - 1) + 1 = i /\ i \in 1 .. k + 1 BY <2>2, <1>1
      <3>2. <<s[i - 1], s[i]>> \in edges BY <3>1, <1>1 DEF Follows, k
      <3>3. QED BY <3>1, <3>2, <2>2, <1>5, <1>6
    <2>3. QED BY <2>1, <2>2
  <1>10. u[Len(u)] = target BY <1>1, <1>4, <1>5
  <1>11. Range(u) = {m} \cup Range(s)
    <2>1. \A x : x \in Range(u) <=> \E i \in 1 .. k + 1 : x = u[i] BY <1>4 DEF Range
    <2>2. m \in Range(u)
      <3>1. 1 \in 1 .. k + 1 BY <1>1
      <3>2. QED BY <3>1, <2>1, <1>5
    <2>3. \A i \in 1 .. k : s[i] \in Range(u)
      <3> TAKE i \in 1 .. k
      <3>1. i + 1 \in 1 .. k + 1 BY <1>1
      <3>2. QED BY <3>1, <2>1, <1>5
    <2>4. \A i \in 1 .. k + 1 : u[i] \in {m} \cup Range(s)
      <3> TAKE i \in 1 .. k + 1
      <3>1. CASE i = 1 BY <3>1, <1>5
      <3>2. CASE i # 1 BY <3>2, <1>6, <1>r
      <3>3. QED BY <3>1, <3>2
    <2>5. \A x : x \in Range(u) => x \in {m} \cup Range(s) BY <2>1, <2>4
    <2>6. \A x : x \in Range(s) => x \in Range(u) BY <2>3, <1>r
    <2>7. QED BY <2>2, <2>5, <2>6
  <1>12. LeadsFrom(m, u) BY <1>4, <1>5, <1>8, <1>9, <1>10, <1>1 DEF LeadsFrom
  <1>13. QED BY <1>11, <1>12

(* One turn of reverseReachable. *)
LEMMA ExploredByReverseStep ==
    ASSUME Explored, NEW n \in Nodes, ReverseStep(n)
    PROVE  Explored'
  <1>1. /\ n \in parents /\ relevant' = relevant \cup Incoming(n)
        /\ parents' = (parents \ {n}) \cup (Incoming(n) \ relevant)
        /\ target' = target /\ edges' = edges
    BY DEF ReverseStep, UnseenParents
  <1>2. n \in relevant /\ relevant \subseteq Nodes /\ target \in relevant /\ parents \subseteq relevant
    BY <1>1 DEF Explored
  <1>3. Incoming(n) \subseteq Nodes BY DEF Incoming
  <1>4. \A m : Incoming(m)' = Incoming(m) BY <1>1 DEF Incoming
  <1>5. \A m, s : LeadsFrom(m, s)' <=> LeadsFrom(m, s)
    <2>1. \A s : Follows(s)' <=> Follows(s) BY <1>1 DEF Follows
    <2>2. QED BY <2>1, <1>1 DEF LeadsFrom
  <1>6. ASSUME NEW m \in relevant' \ parents' PROVE Incoming(m)' \subseteq relevant'
    <2>1. CASE m = n BY <2>1, <1>1, <1>4
    <2>2. CASE m # n
      <3>1. m \in relevant \ parents BY <2>2, <1>6, <1>1, <1>2
      <3>2. Incoming(m) \subseteq relevant BY <3>1 DEF Explored
      <3>3. QED BY <3>2, <1>1, <1>4
    <2>3. QED BY <2>1, <2>2
  <1>7. ASSUME NEW m \in relevant' PROVE \E s : LeadsFrom(m, s) /\ Range(s) \subseteq relevant'
    <2>1. CASE m \in relevant
      <3>1. PICK s : LeadsFrom(m, s) /\ Range(s) \subseteq relevant BY <2>1 DEF Explored
      <3>2. QED BY <3>1, <1>1
    <2>2. CASE m \notin relevant
      <3>1. m \in Incoming(n) BY <2>2, <1>7, <1>1
      <3>2. PICK s : LeadsFrom(n, s) /\ Range(s) \subseteq relevant BY <1>2 DEF Explored
      <3>3. PICK u : LeadsFrom(m, u) /\ Range(u) = {m} \cup Range(s)
        <4>1. m \notin Range(s) BY <3>2, <2>2
        <4>2. QED BY <4>1, <3>1, <3>2, ParentLeads
      <3>4. QED BY <3>2, <3>3, <1>1, <1>7
    <2>3. QED BY <2>1, <2>2
  <1>8. target' \in relevant' /\ relevant' \subseteq Nodes /\ parents' \subseteq relevant'
    BY <1>1, <1>2, <1>3
  <1>9. QED BY <1>5, <1>6, <1>7, <1>8 DEF Explored

-----------------------------------------------------------------------------
(* A route goes from a start to the target and passes through no node twice but
   for its end, at which it may have been before. *)
IsRoute(q) ==
    /\ q \in Seq(Nodes) /\ Len(q) >= 1
    /\ Follows(q) /\ q[Len(q)] = target
    /\ \A i, j \in 1 .. Len(q) - 1 : q[i] = q[j] => i = j
    /\ q[1] \in Starts

(* The target is met before the route's end, which closes a cycle there. *)
ComesRound(q) == \E i \in 1 .. Len(q) - 1 : q[i] = target

(* The path the walk makes of a route. *)
AsPath(q) == IF ComesRound(q) THEN Path(q, TRUE) ELSE Path(q, FALSE)

(* Once no parents are left, whatever leads to the target is relevant. *)
LEMMA WaysAreRelevant ==
    ASSUME Explored, parents = {},
           NEW f \in Seq(Nodes), Len(f) >= 1, Follows(f), f[Len(f)] = target
    PROVE  Range(f) \subseteq relevant
  <1> DEFINE n == Len(f)
             D == {i \in Nat : i \in 1 .. n /\ f[n + 1 - i] \notin relevant}
  <1>1. n \in Nat /\ n >= 1 /\ DOMAIN f = 1 .. n /\ \A i \in 1 .. n : f[i] \in Nodes
    OBVIOUS
  <1>2. \A i \in 1 .. n - 1 : <<f[i], f[i + 1]>> \in edges BY DEF Follows
  <1>3. f[n] \in relevant BY DEF Explored
  <1> HIDE DEF n
  <1>4. CASE D # {}
    <2>1. PICK i \in D : \A j \in D : i <= j
      <3>1. D \subseteq Nat OBVIOUS
      <3> HIDE DEF D
      <3>2. QED BY <3>1, <1>4, LeastNatural
    <2>2. i \in Nat /\ i \in 1 .. n /\ f[n + 1 - i] \notin relevant BY <2>1
    <2>3. i # 1
      <3>1. n + 1 - 1 = n BY <1>1
      <3>2. QED BY <3>1, <2>2, <1>3
    <2> DEFINE k == n + 1 - i
    <2>4. k \in 1 .. n - 1 /\ k + 1 = n + 1 - (i - 1) /\ i - 1 \in Nat /\ i - 1 \in 1 .. n /\ ~(i <= i - 1)
      BY <2>2, <2>3, <1>1
    <2>5. f[k + 1] \in relevant
      <3>1. i - 1 \notin D BY <2>1, <2>4
      <3>2. QED BY <3>1, <2>4
    <2>6. f[k] \in Incoming(f[k + 1])
      <3>1. f[k] \in Nodes /\ <<f[k], f[k + 1]>> \in edges
        <4> HIDE DEF k
        <4>1. k \in 1 .. n BY <2>4, <1>1
        <4>2. QED BY <4>1, <2>4, <1>1, <1>2
      <3>2. QED BY <3>1 DEF Incoming
    <2>7. Incoming(f[k + 1]) \subseteq relevant BY <2>5 DEF Explored
    <2>8. QED BY <2>2, <2>6, <2>7
  <1>5. CASE D = {}
    <2>1. ASSUME NEW i \in 1 .. n PROVE f[i] \in relevant
      <3>1. n + 1 - i \in Nat /\ n + 1 - i \in 1 .. n /\ n + 1 - (n + 1 - i) = i BY <1>1
      <3>2. QED BY <3>1, <1>5
    <2>2. QED BY <2>1, <1>1 DEF Range
  <1>6. QED BY <1>4, <1>5

(* The starts are the relevant nodes that are roots of the graph, or all of them
   when no root is relevant. *)
LEMMA StartsAreRoots ==
    ASSUME Explored, parents = {}
    PROVE  /\ Starts \subseteq relevant /\ Starts \subseteq Nodes /\ Starts # {}
           /\ \A n \in relevant : n \in Starts <=> n \in Roots \/ relevant \cap Roots = {}
  <1>1. relevant \subseteq Nodes /\ relevant # {} BY DEF Explored
  <1>2. \A n \in relevant : Incoming(n) \subseteq relevant BY DEF Explored
  <1>3. RelevantRoots = relevant \cap Roots
    <2>1. \A n \in relevant : Incoming(n) \cap relevant = Incoming(n) BY <1>2
    <2>2. QED BY <2>1, <1>1 DEF RelevantRoots, Roots
  <1>4. QED BY <1>1, <1>3 DEF Starts

(* A path begins at the starts. *)
LEMMA BeginsAtStarts ==
    ASSUME Explored, parents = {}, NEW n, NEW s, LeadsFrom(n, s)
    PROVE  Begins(s) <=> n \in Starts
  <1>1. Head(s) = n /\ s \in Leading BY LeadingLeads
  <1>2. n \in relevant
    <2>1. s \in Seq(Nodes) /\ Len(s) >= 1 /\ Follows(s) /\ s[Len(s)] = target /\ s[1] = n BY DEF LeadsFrom
    <2>2. Range(s) \subseteq relevant BY <2>1, WaysAreRelevant
    <2>3. 1 \in 1 .. Len(s) BY <2>1
    <2>4. QED BY <2>1, <2>2, <2>3, ElementsOfSeq
  <1>3. (\A t \in Leading : Head(t) \notin Roots) <=> relevant \cap Roots = {}
    <2>1. ASSUME NEW t \in Leading PROVE Head(t) \in relevant
      <3> DEFINE h == Head(t)
      <3>1. LeadsFrom(h, t) BY <2>1, LeadingLeads
      <3> HIDE DEF h
      <3>2. t \in Seq(Nodes) /\ Len(t) >= 1 /\ Follows(t) /\ t[Len(t)] = target /\ t[1] = h
        BY <3>1 DEF LeadsFrom
      <3>3. Range(t) \subseteq relevant BY <3>2, WaysAreRelevant
      <3>4. 1 \in 1 .. Len(t) BY <3>2
      <3>5. h \in relevant BY <3>2, <3>3, <3>4, ElementsOfSeq
      <3>6. QED BY <3>5 DEF h
    <2>2. ASSUME NEW m \in relevant PROVE \E t \in Leading : Head(t) = m
      <3>1. PICK t : LeadsFrom(m, t) BY DEF Explored
      <3>2. QED BY <3>1, LeadingLeads
    <2>3. QED BY <2>1, <2>2
  <1>4. Begins(s) <=> n \in Roots \/ relevant \cap Roots = {} BY <1>1, <1>3 DEF Begins
  <1>5. QED BY <1>2, <1>4, StartsAreRoots

(* The paths there are, are the routes. *)
LEMMA AllPathsAreRoutes ==
    ASSUME Explored, parents = {}, NEW p
    PROVE  p \in AllPaths <=> \E q : IsRoute(q) /\ p = AsPath(q)
  <1>1. ASSUME NEW s \in Leading, Begins(s), p = Path(s, FALSE)
        PROVE  \E q : IsRoute(q) /\ p = AsPath(q)
    <2> DEFINE h == Head(s)
    <2>1. LeadsFrom(h, s) BY LeadingLeads
    <2> HIDE DEF h
    <2>2. h \in Starts BY <2>1, <1>1, BeginsAtStarts
    <2>3. /\ s \in Seq(Nodes) /\ Len(s) >= 1 /\ IsInjective(s)
          /\ Follows(s) /\ s[Len(s)] = target /\ s[1] = h
      BY <2>1 DEF LeadsFrom
    <2>4. \A i, j \in 1 .. Len(s) : s[i] = s[j] => i = j BY <2>3 DEF IsInjective
    <2>5. IsRoute(s)
      <3>1. \A i, j \in 1 .. Len(s) - 1 : s[i] = s[j] => i = j BY <2>3, <2>4
      <3>2. QED BY <3>1, <2>2, <2>3 DEF IsRoute
    <2>6. ~ComesRound(s)
      <3> SUFFICES ASSUME NEW i \in 1 .. Len(s) - 1, s[i] = s[Len(s)] PROVE FALSE
        BY <2>3 DEF ComesRound
      <3>1. Len(s) \in Nat BY <2>3
      <3>2. i \in 1 .. Len(s) /\ Len(s) \in 1 .. Len(s) /\ i # Len(s) BY <3>1, <2>3
      <3>3. QED BY <3>2, <2>4
    <2>7. QED BY <2>5, <2>6, <1>1 DEF AsPath
  <1>2. ASSUME NEW s \in Trails, Follows(s), target \in Range(s), <<Last(s), target>> \in edges,
               NEW u \in Leading, Head(u) = Head(s), Begins(u), p = Path(Append(s, target), TRUE)
        PROVE  \E q : IsRoute(q) /\ p = AsPath(q)
    <2> DEFINE q == Append(s, target)
               k == Len(s)
               h == Head(u)
    <2>1. s \in Seq(Nodes) /\ k >= 1 /\ IsInjective(s) /\ target \in Nodes
      BY <1>2, TrailsAreLists DEF Explored
    <2>2. h \in Starts /\ s[1] = h
      <3>1. LeadsFrom(h, u) BY LeadingLeads
      <3>2. h = s[1] BY <1>2, <2>1
      <3> HIDE DEF h
      <3>3. QED BY <3>1, <3>2, <1>2, BeginsAtStarts
    <2> HIDE DEF h
    <2>3. /\ q \in Seq(Nodes) /\ Len(q) = k + 1 /\ q[k + 1] = target
          /\ k \in Nat /\ DOMAIN s = 1 .. k /\ \A i \in 1 .. k : q[i] = s[i]
      BY <2>1
    <2>4. Last(s) = s[k] BY DEF Last
    <2>5. /\ \A i \in 1 .. k - 1 : <<s[i], s[i + 1]>> \in edges
          /\ \A i, j \in 1 .. k : s[i] = s[j] => i = j
          /\ \E i \in 1 .. k : s[i] = target
      BY <1>2, <2>1, <2>3 DEF Follows, IsInjective, Range
    <2> HIDE DEF q, k
    <2>6. \A i \in 1 .. k : <<q[i], q[i + 1]>> \in edges
      <3> TAKE i \in 1 .. k
      <3>1. CASE i = k BY <3>1, <2>3, <2>4, <1>2
      <3>2. CASE i # k
        <4>1. i \in 1 .. k - 1 /\ i + 1 \in 1 .. k BY <3>2, <2>3
        <4>2. QED BY <4>1, <2>3, <2>5
      <3>3. QED BY <3>1, <3>2
    <2>7. Len(q) - 1 = k /\ 1 \in 1 .. k BY <2>1, <2>3
    <2>8. IsRoute(q)
      <3>1. Follows(q) BY <2>6, <2>7 DEF Follows
      <3>2. \A i, j \in 1 .. k : q[i] = q[j] => i = j BY <2>3, <2>5
      <3>3. q[1] \in Starts BY <2>2, <2>3, <2>7
      <3>4. QED BY <3>1, <3>2, <3>3, <2>3, <2>7 DEF IsRoute
    <2>9. ComesRound(q)
      <3>1. \E i \in 1 .. k : q[i] = target BY <2>3, <2>5
      <3>2. QED BY <3>1, <2>7 DEF ComesRound
    <2>10. p = Path(q, TRUE) BY <1>2 DEF q
    <2>11. QED BY <2>8, <2>9, <2>10 DEF AsPath
  <1>3. ASSUME NEW q, IsRoute(q), p = AsPath(q) PROVE p \in AllPaths
    <2> DEFINE n == Len(q)
    <2>1. /\ q \in Seq(Nodes) /\ n \in Nat /\ n >= 1 /\ DOMAIN q = 1 .. n /\ q[n] = target
          /\ (\A i, j \in 1 .. n - 1 : q[i] = q[j] => i = j) /\ q[1] \in Starts
          /\ \A i \in 1 .. n - 1 : <<q[i], q[i + 1]>> \in edges
      BY <1>3 DEF IsRoute, Follows
    <2>2. CASE ~ComesRound(q)
      <3>1. \A i \in 1 .. n - 1 : q[i] # target BY <2>2 DEF ComesRound
      <3>2. IsInjective(q)
        <4> SUFFICES ASSUME NEW i \in 1 .. n, NEW j \in 1 .. n, q[i] = q[j] PROVE i = j
          BY <2>1 DEF IsInjective
        <4> HIDE DEF n
        <4>1. CASE i = n /\ j = n BY <4>1
        <4>2. CASE i # n
          <5>1. i \in 1 .. n - 1 BY <4>2, <2>1
          <5>2. j # n BY <5>1, <3>1, <2>1
          <5>3. j \in 1 .. n - 1 BY <5>2, <2>1
          <5>4. QED BY <5>1, <5>3, <2>1
        <4>3. CASE j # n
          <5>1. j \in 1 .. n - 1 BY <4>3, <2>1
          <5>2. i # n BY <5>1, <3>1, <2>1
          <5>3. QED BY <5>2, <4>2
        <4>4. QED BY <4>1, <4>2, <4>3
      <3> DEFINE h == q[1]
      <3>3. LeadsFrom(h, q) BY <3>2, <1>3 DEF LeadsFrom, IsRoute
      <3>4. q \in Leading BY <3>3, LeadingLeads
      <3>5. h \in Starts BY <2>1
      <3> HIDE DEF h
      <3>6. Begins(q) BY <3>3, <3>5, BeginsAtStarts
      <3>7. p = Path(q, FALSE) BY <2>2, <1>3 DEF AsPath
      <3>8. QED BY <3>4, <3>6, <3>7 DEF AllPaths
    <2>3. CASE ComesRound(q)
      <3> DEFINE s == [i \in 1 .. n - 1 |-> q[i]]
      <3>1. PICK r \in 1 .. n - 1 : q[r] = target BY <2>3 DEF ComesRound
      <3>2. n - 1 \in Nat /\ n - 1 >= 1 BY <3>1, <2>1
      <3>3. /\ s \in Seq(Nodes) /\ Len(s) = n - 1 /\ DOMAIN s = 1 .. n - 1
            /\ \A i \in 1 .. n - 1 : s[i] = q[i]
        <4>1. \A i \in 1 .. n - 1 : q[i] \in Nodes BY <2>1
        <4>2. s \in [1 .. n - 1 -> Nodes] BY <4>1
        <4>3. QED BY <4>2, <3>2
      <3> HIDE DEF s, n
      <3>4. q = Append(s, target)
        <4> DEFINE a == Append(s, target)
        <4>1. target \in Nodes BY DEF Explored
        <4>2. /\ a \in Seq(Nodes) /\ Len(a) = n /\ a[n] = target
              /\ \A i \in 1 .. n - 1 : a[i] = s[i]
          <5>1. Len(a) = Len(s) + 1 /\ a \in Seq(Nodes) /\ a[Len(s) + 1] = target
                /\ \A i \in 1 .. Len(s) : a[i] = s[i]
            BY <4>1, <3>3
          <5>2. Len(s) + 1 = n BY <3>3, <2>1
          <5> HIDE DEF a
          <5>3. QED BY <5>1, <5>2, <3>3
        <4> HIDE DEF a
        <4>3. \A i \in 1 .. n : a[i] = q[i]
          <5> TAKE i \in 1 .. n
          <5>1. CASE i = n BY <5>1, <4>2, <2>1
          <5>2. CASE i # n
            <6>1. i \in 1 .. n - 1 BY <5>2, <2>1
            <6>2. QED BY <6>1, <4>2, <3>3
          <5>3. QED BY <5>1, <5>2
        <4>4. a = q
          <5>1. a \in Seq(Nodes) /\ q \in Seq(Nodes) /\ Len(a) = Len(q) BY <4>2, <2>1 DEF n
          <5>2. \A i \in 1 .. Len(a) : a[i] = q[i] BY <4>2, <4>3
          <5>3. QED BY <5>1, <5>2
        <4>5. QED BY <4>4 DEF a
      <3>5. s \in Trails
        <4>1. IsInjective(s) BY <3>3, <2>1 DEF IsInjective
        <4>2. QED BY <4>1, <3>2, <3>3, TrailsAreLists
      <3>6. Follows(s)
        <4> SUFFICES ASSUME NEW i \in 1 .. (n - 1) - 1 PROVE <<s[i], s[i + 1]>> \in edges
          BY <3>3 DEF Follows
        <4>1. i \in 1 .. n - 1 /\ i + 1 \in 1 .. n - 1 BY <2>1
        <4>2. QED BY <4>1, <3>3, <2>1
      <3>7. target \in Range(s) BY <3>1, <3>3 DEF Range
      <3>8. <<Last(s), target>> \in edges
        <4>1. Last(s) = q[n - 1]
          <5>1. n - 1 \in 1 .. n - 1 BY <3>2
          <5>2. QED BY <5>1, <3>3 DEF Last
        <4>2. n - 1 \in 1 .. n - 1 /\ (n - 1) + 1 = n BY <3>2, <2>1
        <4>3. <<q[n - 1], q[n]>> \in edges
          <5>1. <<q[n - 1], q[(n - 1) + 1]>> \in edges BY <4>2, <2>1
          <5>2. QED BY <5>1, <4>2
        <4>4. QED BY <4>1, <4>3, <2>1
      <3> DEFINE h == q[1]
      <3>9. h \in Starts /\ h \in relevant /\ Head(s) = h
        <4>1. h \in Starts BY <2>1
        <4>2. Head(s) = s[1] /\ 1 \in 1 .. n - 1 BY <3>2, <3>3
        <4>3. QED BY <4>1, <4>2, <3>3, StartsAreRoots
      <3> HIDE DEF h
      <3>10. PICK u : LeadsFrom(h, u) BY <3>9 DEF Explored
      <3>11. u \in Leading /\ Head(u) = h BY <3>10, LeadingLeads
      <3>12. Begins(u) BY <3>9, <3>10, BeginsAtStarts
      <3>13. p = Path(Append(s, target), TRUE) BY <2>3, <1>3, <3>4 DEF AsPath
      <3>14. QED BY <3>5, <3>6, <3>7, <3>8, <3>9, <3>11, <3>12, <3>13 DEF AllPaths
    <2>4. QED BY <2>2, <2>3
  <1>4. QED BY <1>1, <1>2, <1>3 DEF AllPaths

(* There is one. *)
LEMMA ThereIsARoute ==
    ASSUME Explored, parents = {}
    PROVE  AllPaths # {}
  <1>1. PICK n \in Starts : n \in relevant BY StartsAreRoots
  <1>2. PICK s : LeadsFrom(n, s) BY <1>1 DEF Explored
  <1>3. s \in Leading BY <1>2, LeadingLeads
  <1>4. Begins(s) BY <1>1, <1>2, BeginsAtStarts
  <1>5. QED BY <1>3, <1>4 DEF AllPaths

-----------------------------------------------------------------------------
(* A route is still to come if its start is, or if it leaves the stack for a
   child that is still to be looked at. *)
Pending(q, ss, st, ch) ==
    \/ q[1] \in Range(ss)
    \/ \E k \in 1 .. Len(st) :
          /\ k < Len(q)
          /\ \A i \in 1 .. k : q[i] = st[i]
          /\ q[k + 1] \in Range(ch[k])

(* What the walk has before it: starts, and a stack that no start and no child
   still to come leads to again. *)
OnTheWay(ss, st, ch) ==
    /\ ss \in Seq(Nodes) /\ IsInjective(ss) /\ Range(ss) \subseteq Starts
    /\ st \in Seq(Nodes) /\ IsInjective(st) /\ Follows(st)
    /\ Len(st) > 0 => st[1] \in Starts \ Range(ss)
    /\ ch \in Seq(Seq(Nodes)) /\ Len(ch) = Len(st)
    /\ \A k \in 1 .. Len(st) : IsInjective(ch[k]) /\ Range(ch[k]) \subseteq Outgoing(st[k])
    /\ \A k \in 1 .. Len(st) - 1 : st[k + 1] \notin Range(ch[k])

(* What it has behind it: each route that is not pending, once. *)
Found(found, ss, st, ch) ==
    /\ found \in Seq(PathRecords)
    /\ \A i, j \in DOMAIN found : found[i].nodes = found[j].nodes => i = j
    /\ \A p : p \in Range(found) <=> \E q : IsRoute(q) /\ ~Pending(q, ss, st, ch) /\ p = AsPath(q)

(* q goes along the stack and then to c. *)
Passes(q, st, c) ==
    /\ Len(st) < Len(q)
    /\ \A i \in 1 .. Len(st) : q[i] = st[i]
    /\ q[Len(st) + 1] = c

(* A route is the sequence of nodes of its path. *)
LEMMA RoutesArePaths ==
    ASSUME NEW q, IsRoute(q)
    PROVE  AsPath(q) \in PathRecords /\ AsPath(q).nodes = q
  BY DEF IsRoute, AsPath, Path, PathRecords

(* When just the route r is no longer pending, recording it is what it takes. *)
LEMMA FoundOneMore ==
    ASSUME NEW found, NEW ss, NEW st, NEW ch, Found(found, ss, st, ch),
           NEW ss2, NEW st2, NEW ch2, NEW r,
           \A q : IsRoute(q) => (Pending(q, ss2, st2, ch2) <=> Pending(q, ss, st, ch) /\ q # r),
           IsRoute(r), Pending(r, ss, st, ch)
    PROVE  Found(Append(found, AsPath(r)), ss2, st2, ch2)
  <1> DEFINE n == Len(found)
             p == AsPath(r)
             more == Append(found, p)
  <1>1. /\ found \in Seq(PathRecords) /\ n \in Nat /\ DOMAIN found = 1 .. n
        /\ \A i, j \in 1 .. n : found[i].nodes = found[j].nodes => i = j
    BY DEF Found
  <1>2. \A x : x \in Range(found) <=> \E q : IsRoute(q) /\ ~Pending(q, ss, st, ch) /\ x = AsPath(q)
    BY DEF Found
  <1>3. p \in PathRecords /\ p.nodes = r BY RoutesArePaths
  <1> HIDE DEF p
  <1>4. /\ more \in Seq(PathRecords) /\ DOMAIN more = 1 .. n + 1 /\ more[n + 1] = p
        /\ \A i \in 1 .. n : more[i] = found[i]
    BY <1>1, <1>3
  <1>5. Range(more) = Range(found) \cup {p} BY <1>1, <1>3, RangeOfAppend
  <1> HIDE DEF n, more
  <1>6. \A i \in 1 .. n : found[i].nodes # r
    <2> SUFFICES ASSUME NEW i \in 1 .. n, found[i].nodes = r PROVE FALSE
      OBVIOUS
    <2>1. found[i] \in Range(found) BY <1>1 DEF Range
    <2>2. PICK q : IsRoute(q) /\ ~Pending(q, ss, st, ch) /\ found[i] = AsPath(q) BY <1>2, <2>1
    <2>3. q = r BY <2>2, RoutesArePaths
    <2>4. QED BY <2>2, <2>3
  <1>7. \A i, j \in 1 .. n + 1 : more[i].nodes = more[j].nodes => i = j
    <2> TAKE i, j \in 1 .. n + 1
    <2>1. CASE i \in 1 .. n /\ j \in 1 .. n BY <2>1, <1>1, <1>4
    <2>2. CASE i = n + 1 /\ j \in 1 .. n BY <2>2, <1>3, <1>4, <1>6
    <2>3. CASE i \in 1 .. n /\ j = n + 1 BY <2>3, <1>3, <1>4, <1>6
    <2>4. CASE i = n + 1 /\ j = n + 1 BY <2>4
    <2>5. i \in 1 .. n \/ i = n + 1 BY <1>1
    <2>6. j \in 1 .. n \/ j = n + 1 BY <1>1
    <2>7. QED BY <2>1, <2>2, <2>3, <2>4, <2>5, <2>6
  <1>8. ASSUME NEW x
        PROVE  x \in Range(more) <=> \E q : IsRoute(q) /\ ~Pending(q, ss2, st2, ch2) /\ x = AsPath(q)
    <2>1. ASSUME x \in Range(found)
          PROVE  \E q : IsRoute(q) /\ ~Pending(q, ss2, st2, ch2) /\ x = AsPath(q)
      BY <2>1, <1>2
    <2>2. ASSUME x = p PROVE \E q : IsRoute(q) /\ ~Pending(q, ss2, st2, ch2) /\ x = AsPath(q)
      BY <2>2 DEF p
    <2>3. ASSUME NEW q, IsRoute(q), ~Pending(q, ss2, st2, ch2), x = AsPath(q)
          PROVE  x \in Range(found) \/ x = p
      BY <2>3, <1>2 DEF p
    <2>4. QED BY <2>1, <2>2, <2>3, <1>5
  <1>9. Found(more, ss2, st2, ch2) BY <1>4, <1>7, <1>8 DEF Found
  <1>10. QED BY <1>9 DEF more, p

(* When no route ceases to be pending, nothing is to be recorded. *)
LEMMA FoundNoMore ==
    ASSUME NEW found, NEW ss, NEW st, NEW ch, Found(found, ss, st, ch),
           NEW ss2, NEW st2, NEW ch2,
           \A q : IsRoute(q) => (Pending(q, ss2, st2, ch2) <=> Pending(q, ss, st, ch))
    PROVE  Found(found, ss2, st2, ch2)
  BY DEF Found

(* The walk from a start. *)
LEMMA StartKeepsTheWay ==
    ASSUME Starts \subseteq Nodes, NEW ss, ss # << >>, OnTheWay(ss, << >>, << >>),
           NEW n, n = Head(ss)
    PROVE  /\ OnTheWay(Tail(ss), <<n>>, <<ByID(Outgoing(n))>>)
           /\ \A q : IsRoute(q) =>
                 (Pending(q, Tail(ss), <<n>>, <<ByID(Outgoing(n))>>)
                    <=> Pending(q, ss, << >>, << >>) /\ q # <<n>>)
           /\ n \in Starts /\ n \in Range(ss)
  <1> DEFINE tl == Tail(ss)
             st == <<n>>
             cs == ByID(Outgoing(n))
             ch == <<cs>>
  <1>1. ss \in Seq(Nodes) /\ IsInjective(ss) /\ Range(ss) \subseteq Starts BY DEF OnTheWay
  <1>2. /\ n \in Nodes /\ tl \in Seq(Nodes) /\ IsInjective(tl)
        /\ Range(ss) = {n} \cup Range(tl) /\ n \notin Range(tl)
    BY <1>1, HeadAndTail
  <1>3. Outgoing(n) \in SUBSET Nodes BY DEF Outgoing
  <1>4. cs \in Seq(Nodes) /\ IsInjective(cs) /\ Range(cs) = Outgoing(n)
    BY <1>3, ByIDLists
  <1> HIDE DEF tl, cs
  <1>5. /\ st \in Seq(Nodes) /\ Len(st) = 1 /\ st[1] = n /\ DOMAIN st = 1 .. 1
        /\ ch \in Seq(Seq(Nodes)) /\ Len(ch) = 1 /\ ch[1] = cs
    BY <1>2, <1>4
  <1> HIDE DEF st, ch
  <1>6. \A k \in 1 .. 1 : k = 1 OBVIOUS
  <1>7. OnTheWay(tl, st, ch)
    <2>1. IsInjective(st) BY <1>5, <1>6 DEF IsInjective
    <2>2. Follows(st) BY <1>5 DEF Follows
    <2>3. \A k \in 1 .. Len(st) - 1 : st[k + 1] \notin Range(ch[k]) BY <1>5
    <2>4. \A k \in 1 .. Len(st) : IsInjective(ch[k]) /\ Range(ch[k]) \subseteq Outgoing(st[k])
      BY <1>4, <1>5, <1>6
    <2>5. Len(st) > 0 => st[1] \in Starts \ Range(tl) BY <1>1, <1>2, <1>5
    <2>6. QED BY <1>1, <1>2, <1>5, <2>1, <2>2, <2>3, <2>4, <2>5 DEF OnTheWay
  <1>8. ASSUME NEW q, IsRoute(q)
        PROVE  Pending(q, tl, st, ch) <=> Pending(q, ss, << >>, << >>) /\ q # st
    <2>1. /\ q \in Seq(Nodes) /\ Len(q) >= 1 /\ \A i \in 1 .. Len(q) - 1 : <<q[i], q[i + 1]>> \in edges
      BY <1>8 DEF IsRoute, Follows
    <2>2. Pending(q, ss, << >>, << >>) <=> q[1] \in Range(ss)
      <3>1. 1 .. Len(<< >>) = {} OBVIOUS
      <3>2. QED BY <3>1 DEF Pending
    <2>3. Pending(q, tl, st, ch) <=> q[1] \in Range(tl) \/ (1 < Len(q) /\ q[1] = n /\ q[2] \in Range(cs))
      <3>1. 1 .. Len(st) = 1 .. 1 /\ 1 \in 1 .. 1 /\ 1 + 1 = 2 BY <1>5
      <3>2. (\E k \in 1 .. Len(st) : k < Len(q) /\ (\A i \in 1 .. k : q[i] = st[i]) /\ q[k + 1] \in Range(ch[k]))
              <=> 1 < Len(q) /\ (\A i \in 1 .. 1 : q[i] = st[i]) /\ q[1 + 1] \in Range(ch[1])
        BY <3>1, <1>6
      <3>3. (\A i \in 1 .. 1 : q[i] = st[i]) <=> q[1] = n BY <1>5, <1>6, <3>1
      <3>4. QED BY <3>1, <3>2, <3>3, <1>5 DEF Pending
    <2>4. 1 < Len(q) /\ q[1] = n => q[2] \in Range(cs)
      <3> SUFFICES ASSUME 1 < Len(q), q[1] = n PROVE q[2] \in Outgoing(n)
        BY <1>4
      <3>1. Len(q) \in Nat BY <2>1
      <3>2. 1 \in 1 .. Len(q) - 1 /\ 1 + 1 = 2 /\ 2 \in 1 .. Len(q) BY <3>1
      <3>3. <<q[1], q[2]>> \in edges BY <3>2, <2>1
      <3>4. q[2] \in Nodes BY <3>2, <2>1
      <3>5. QED BY <3>3, <3>4 DEF Outgoing
    <2>5. q[1] = n => (q # st <=> 1 < Len(q))
      <3> SUFFICES ASSUME q[1] = n PROVE q # st <=> 1 < Len(q)
        OBVIOUS
      <3> DEFINE m == Len(q)
      <3>m. m \in Nat /\ m >= 1 /\ (q = st => m = 1) BY <2>1, <1>5
      <3>q. DOMAIN q = 1 .. m /\ q \in Seq(Nodes) /\ st \in Seq(Nodes) /\ Len(st) = 1 BY <2>1, <1>5
      <3> HIDE DEF m
      <3>1. 1 < m => q # st BY <3>m
      <3>2. ~(1 < m) => q = st
        <4> SUFFICES ASSUME ~(1 < m) PROVE q = st
          OBVIOUS
        <4>1. m = 1 BY <3>m
        <4>2. Len(q) = 1 BY <4>1 DEF m
        <4>3. \A i \in 1 .. Len(q) : q[i] = st[i] BY <4>2, <1>5, <1>6
        <4>4. Len(q) = Len(st) BY <4>2, <3>q
        <4>5. q \in Seq(Nodes) /\ st \in Seq(Nodes) BY <3>q
        <4>6. QED BY <4>3, <4>4, <4>5
      <3>3. QED BY <3>1, <3>2 DEF m
    <2>6. q = st => q[1] = n BY <1>5
    <2>7. QED BY <2>2, <2>3, <2>4, <2>5, <2>6, <1>2
  <1>9. QED BY <1>1, <1>2, <1>7, <1>8 DEF tl, st, ch, cs

(* One list after the other. *)
LEMMA JoinedLists ==
    ASSUME NEW S, NEW s \in Seq(S), NEW t \in Seq(S)
    PROVE  /\ s \o t \in Seq(S) /\ Len(s \o t) = Len(s) + Len(t)
           /\ \A i \in 1 .. Len(s) : (s \o t)[i] = s[i]
           /\ \A i \in 1 .. Len(t) : (s \o t)[Len(s) + i] = t[i]
  <1> DEFINE n == Len(s)
             m == Len(t)
             u == s \o t
  <1>1. /\ n \in Nat /\ m \in Nat /\ DOMAIN s = 1 .. n /\ DOMAIN t = 1 .. m /\ DOMAIN u = 1 .. n + m
        /\ \A i \in 1 .. n : u[i] = s[i]
        /\ \A i \in 1 .. m : u[n + i] = t[i]
    OBVIOUS
  <1>2. u \in Seq(S) OBVIOUS
  <1> HIDE DEF n, m, u
  <1>3. Len(u) = n + m BY <1>1, <1>2
  <1>4. QED BY <1>1, <1>2, <1>3 DEF n, m, u

(* The frames when the running call has taken its next child. *)
Taken(ch) == Front(ch) \o <<Tail(Last(ch))>>

(* They are as before but for the last. *)
LEMMA FramesAfterChild ==
    ASSUME NEW ch \in Seq(Seq(Nodes)), NEW k, k = Len(ch), k > 0, ch[k] # << >>
    PROVE  /\ Taken(ch) \in Seq(Seq(Nodes)) /\ Len(Taken(ch)) = k
           /\ \A i \in 1 .. k - 1 : Taken(ch)[i] = ch[i]
           /\ Taken(ch)[k] = Tail(ch[k])
  <1> DEFINE front == Front(ch)
             one == <<Tail(Last(ch))>>
             taken == front \o one
  <1>1. k \in Nat /\ \A i \in 1 .. k : ch[i] \in Seq(Nodes) OBVIOUS
  <1>2. k \in 1 .. k /\ Last(ch) = ch[k] BY <1>1 DEF Last
  <1>3. Tail(ch[k]) \in Seq(Nodes) BY <1>1, <1>2
  <1>4. one \in Seq(Seq(Nodes)) /\ Len(one) = 1 /\ one[1] = Tail(ch[k]) BY <1>2, <1>3
  <1>5. /\ front \in Seq(Seq(Nodes)) /\ Len(front) = k - 1
        /\ \A i \in 1 .. k - 1 : front[i] = ch[i]
    BY <1>1 DEF Front
  <1> HIDE DEF front, one
  <1>6. /\ taken \in Seq(Seq(Nodes)) /\ Len(taken) = (k - 1) + 1
        /\ \A i \in 1 .. k - 1 : taken[i] = front[i]
        /\ taken[(k - 1) + 1] = one[1]
    <2>1. taken \in Seq(Seq(Nodes)) BY <1>4, <1>5
    <2>2. /\ Len(taken) = Len(front) + Len(one)
          /\ \A i \in 1 .. Len(front) : taken[i] = front[i]
          /\ \A i \in 1 .. Len(one) : taken[Len(front) + i] = one[i]
      <3> DEFINE S == Seq(Nodes)
      <3>1. front \in Seq(S) /\ one \in Seq(S) BY <1>4, <1>5
      <3> HIDE DEF S, taken
      <3>2. QED BY <3>1, JoinedLists DEF taken
    <2> HIDE DEF taken
    <2>3. Len(taken) = (k - 1) + 1 BY <2>2, <1>4, <1>5
    <2>4. \A i \in 1 .. k - 1 : taken[i] = front[i] BY <2>2, <1>5
    <2>5. taken[(k - 1) + 1] = one[1]
      <3>1. 1 \in 1 .. Len(one) BY <1>4
      <3>2. taken[Len(front) + 1] = one[1] BY <3>1, <2>2
      <3>3. QED BY <3>2, <1>5
    <2>6. QED BY <2>1, <2>3, <2>4, <2>5
  <1>7. (k - 1) + 1 = k BY <1>1
  <1> HIDE DEF taken
  <1>8. Taken(ch) = taken BY DEF taken, front, one, Taken
  <1>9. QED BY <1>4, <1>5, <1>6, <1>7, <1>8

(* The running call takes its next child: the routes that go on to it are the
   ones it takes from what is pending. *)
LEMMA TakingKeepsTheWay ==
    ASSUME NEW ss, NEW st, NEW ch, OnTheWay(ss, st, ch),
           NEW k, k = Len(st), k > 0, ch[k] # << >>, NEW c, c = Head(ch[k]),
           NEW cc, cc \in Seq(Seq(Nodes)), Len(cc) = k, cc[k] = Tail(ch[k]),
           \A i \in 1 .. k - 1 : cc[i] = ch[i]
    PROVE  /\ OnTheWay(ss, st, cc)
           /\ c \in Nodes /\ c \in Outgoing(st[k]) /\ c \notin Range(cc[k])
           /\ \A q : IsRoute(q) =>
                 (Pending(q, ss, st, cc) <=> Pending(q, ss, st, ch) /\ ~Passes(q, st, c))
           /\ \A q : Passes(q, st, c) => Pending(q, ss, st, ch)
  <1>1. /\ k \in Nat /\ k \in 1 .. k /\ ch \in Seq(Seq(Nodes)) /\ Len(ch) = k
        /\ \A i \in 1 .. k : ch[i] \in Seq(Nodes)
    BY DEF OnTheWay
  <1>2. /\ ss \in Seq(Nodes) /\ IsInjective(ss) /\ Range(ss) \subseteq Starts
        /\ st \in Seq(Nodes) /\ IsInjective(st) /\ Follows(st) /\ st[1] \notin Range(ss)
        /\ st[1] \in Starts
        /\ \A i \in 1 .. k : IsInjective(ch[i]) /\ Range(ch[i]) \subseteq Outgoing(st[i])
        /\ \A i \in 1 .. k - 1 : st[i + 1] \notin Range(ch[i])
    BY DEF OnTheWay
  <1>3. /\ c \in Nodes /\ IsInjective(cc[k])
        /\ Range(ch[k]) = {c} \cup Range(cc[k]) /\ c \notin Range(cc[k])
    <2> DEFINE list == ch[k]
    <2>1. list \in Seq(Nodes) /\ list # << >> /\ IsInjective(list) /\ c = Head(list) /\ cc[k] = Tail(list)
      BY <1>1, <1>2
    <2> HIDE DEF list
    <2>2. /\ Head(list) \in Nodes /\ IsInjective(Tail(list))
          /\ Range(list) = {Head(list)} \cup Range(Tail(list)) /\ Head(list) \notin Range(Tail(list))
      BY <2>1, HeadAndTail
    <2>3. QED BY <2>1, <2>2 DEF list
  <1>4. \A i \in 1 .. k : i # k => i \in 1 .. k - 1 BY <1>1
  <1>5. \A i \in 1 .. k : IsInjective(cc[i]) /\ Range(cc[i]) \subseteq Range(ch[i])
    <2> TAKE i \in 1 .. k
    <2>1. CASE i = k BY <2>1, <1>3
    <2>2. CASE i # k
      <3>1. cc[i] = ch[i] BY <2>2, <1>4
      <3>2. QED BY <3>1, <1>2
    <2>3. QED BY <2>1, <2>2
  <1>6. OnTheWay(ss, st, cc)
    <2>1. \A i \in 1 .. k : IsInjective(cc[i]) /\ Range(cc[i]) \subseteq Outgoing(st[i]) BY <1>2, <1>5
    <2>2. \A i \in 1 .. k - 1 : st[i + 1] \notin Range(cc[i]) BY <1>2
    <2>3. QED BY <1>2, <2>1, <2>2 DEF OnTheWay
  <1>7. ASSUME NEW q, IsRoute(q), Pending(q, ss, st, cc)
        PROVE  Pending(q, ss, st, ch) /\ ~Passes(q, st, c)
    <2>1. CASE q[1] \in Range(ss)
      <3>1. ~Passes(q, st, c)
        <4>1. 1 \in 1 .. k BY <1>1
        <4>2. Passes(q, st, c) => q[1] = st[1] BY <4>1 DEF Passes
        <4>3. QED BY <4>2, <2>1, <1>2
      <3>2. QED BY <3>1, <2>1 DEF Pending
    <2>2. CASE q[1] \notin Range(ss)
      <3>1. PICK i \in 1 .. k : /\ i < Len(q) /\ (\A j \in 1 .. i : q[j] = st[j])
                               /\ q[i + 1] \in Range(cc[i])
        BY <2>2, <1>7 DEF Pending
      <3>2. q[i + 1] \in Range(ch[i]) BY <3>1, <1>5
      <3>3. Pending(q, ss, st, ch) BY <3>1, <3>2 DEF Pending
      <3>4. ~Passes(q, st, c)
        <4>1. CASE i = k
          <5>1. q[k + 1] # c BY <4>1, <3>1, <1>3
          <5>2. QED BY <5>1 DEF Passes
        <4>2. CASE i # k
          <5>1. i \in 1 .. k - 1 /\ i + 1 \in 1 .. k BY <4>2, <1>1
          <5>2. q[i + 1] # st[i + 1] BY <5>1, <3>2, <1>2
          <5>3. QED BY <5>1, <5>2 DEF Passes
        <4>3. QED BY <4>1, <4>2
      <3>5. QED BY <3>3, <3>4
    <2>3. QED BY <2>1, <2>2
  <1>8. ASSUME NEW q, Pending(q, ss, st, ch), ~Passes(q, st, c)
        PROVE  Pending(q, ss, st, cc)
    <2>1. CASE q[1] \in Range(ss) BY <2>1 DEF Pending
    <2>2. CASE q[1] \notin Range(ss)
      <3>1. PICK i \in 1 .. k : /\ i < Len(q) /\ (\A j \in 1 .. i : q[j] = st[j])
                               /\ q[i + 1] \in Range(ch[i])
        BY <2>2, <1>8 DEF Pending
      <3>2. q[i + 1] \in Range(cc[i])
        <4>1. CASE i = k
          <5>1. q[k + 1] # c BY <4>1, <3>1, <1>8 DEF Passes
          <5>2. QED BY <5>1, <4>1, <3>1, <1>3
        <4>2. CASE i # k
          <5>1. cc[i] = ch[i] BY <4>2, <1>4
          <5>2. QED BY <5>1, <3>1
        <4>3. QED BY <4>1, <4>2
      <3>3. QED BY <3>1, <3>2 DEF Pending
    <2>3. QED BY <2>1, <2>2
  <1>9. ASSUME NEW q, Passes(q, st, c) PROVE Pending(q, ss, st, ch)
    <2>1. k < Len(q) /\ (\A j \in 1 .. k : q[j] = st[j]) /\ q[k + 1] = c BY <1>9 DEF Passes
    <2>2. c \in Range(ch[k]) BY <1>3
    <2>3. QED BY <2>1, <2>2, <1>1 DEF Pending
  <1>10. c \in Outgoing(st[k])
    <2>1. Range(ch[k]) \subseteq Outgoing(st[k]) BY <1>1, <1>2
    <2>2. QED BY <2>1, <1>3
  <1>11. QED BY <1>3, <1>6, <1>7, <1>8, <1>9, <1>10

(* What goes on the stack keeps it a way through the graph. *)
LEMMA LongerStack ==
    ASSUME NEW st \in Seq(Nodes), IsInjective(st), Follows(st), Len(st) > 0,
           NEW c \in Nodes, c \in Outgoing(st[Len(st)])
    PROVE  /\ Append(st, c) \in Seq(Nodes) /\ Len(Append(st, c)) = Len(st) + 1
           /\ \A i \in 1 .. Len(st) : Append(st, c)[i] = st[i]
           /\ Append(st, c)[Len(st) + 1] = c
           /\ Follows(Append(st, c))
           /\ c \notin Range(st) => IsInjective(Append(st, c))
  <1> DEFINE k == Len(st)
             st2 == Append(st, c)
  <1>1. /\ k \in Nat /\ k > 0 /\ DOMAIN st = 1 .. k
        /\ \A i, j \in 1 .. k : st[i] = st[j] => i = j
        /\ \A i \in 1 .. k - 1 : <<st[i], st[i + 1]>> \in edges
        /\ <<st[k], c>> \in edges
        /\ \A i \in 1 .. k : st[i] \in Range(st)
    BY DEF IsInjective, Follows, Outgoing, Range
  <1>2. /\ st2 \in Seq(Nodes) /\ Len(st2) = k + 1 /\ DOMAIN st2 = 1 .. k + 1
        /\ (\A i \in 1 .. k : st2[i] = st[i]) /\ st2[k + 1] = c
    OBVIOUS
  <1> HIDE DEF k, st2
  <1>3. Follows(st2)
    <2> SUFFICES ASSUME NEW i \in 1 .. k PROVE <<st2[i], st2[i + 1]>> \in edges
      <3>1. Len(st2) - 1 = k BY <1>1, <1>2
      <3>2. QED BY <3>1 DEF Follows
    <2>1. CASE i = k BY <2>1, <1>1, <1>2
    <2>2. CASE i # k
      <3>1. i \in 1 .. k - 1 /\ i + 1 \in 1 .. k BY <2>2, <1>1
      <3>2. QED BY <3>1, <1>1, <1>2
    <2>3. QED BY <2>1, <2>2
  <1>4. ASSUME c \notin Range(st) PROVE IsInjective(st2)
    <2> SUFFICES ASSUME NEW i \in 1 .. k + 1, NEW j \in 1 .. k + 1, st2[i] = st2[j] PROVE i = j
      BY <1>2 DEF IsInjective
    <2>1. i \in 1 .. k \/ i = k + 1 BY <1>1
    <2>2. j \in 1 .. k \/ j = k + 1 BY <1>1
    <2>3. CASE i \in 1 .. k /\ j \in 1 .. k BY <2>3, <1>1, <1>2
    <2>4. CASE i \in 1 .. k /\ j = k + 1 BY <2>4, <1>1, <1>2, <1>4
    <2>5. CASE i = k + 1 /\ j \in 1 .. k BY <2>5, <1>1, <1>2, <1>4
    <2>6. CASE i = k + 1 /\ j = k + 1 BY <2>6
    <2>7. QED BY <2>1, <2>2, <2>3, <2>4, <2>5, <2>6
  <1>5. QED BY <1>2, <1>3, <1>4 DEF k, st2

(* The walk goes down to the child: the routes that go on to it are pending
   again, but for the one that ends there. *)
LEMMA DescendingKeepsTheWay ==
    ASSUME Starts \subseteq Nodes,
           NEW ss, NEW st, NEW cc, OnTheWay(ss, st, cc), NEW k, k = Len(st), k > 0,
           NEW c \in Nodes, c \in Outgoing(st[k]), c \notin Range(cc[k]), c \notin Range(st)
    PROVE  /\ OnTheWay(ss, Append(st, c), Append(cc, ByID(Outgoing(c))))
           /\ \A q : IsRoute(q) =>
                 (Pending(q, ss, Append(st, c), Append(cc, ByID(Outgoing(c))))
                    <=> Pending(q, ss, st, cc) \/ (Passes(q, st, c) /\ q # Append(st, c)))
  <1> DEFINE cs == ByID(Outgoing(c))
             st2 == Append(st, c)
             ch2 == Append(cc, cs)
  <1>1. /\ k \in Nat /\ k \in 1 .. k /\ cc \in Seq(Seq(Nodes)) /\ Len(cc) = k
        /\ ss \in Seq(Nodes) /\ IsInjective(ss) /\ Range(ss) \subseteq Starts
        /\ st \in Seq(Nodes) /\ IsInjective(st) /\ Follows(st)
        /\ st[1] \in Starts \ Range(ss)
    BY DEF OnTheWay
  <1>2. /\ \A i \in 1 .. k : IsInjective(cc[i]) /\ Range(cc[i]) \subseteq Outgoing(st[i])
        /\ \A i \in 1 .. k - 1 : st[i + 1] \notin Range(cc[i])
    BY DEF OnTheWay
  <1>3. cs \in Seq(Nodes) /\ IsInjective(cs) /\ Range(cs) = Outgoing(c)
    <2>1. Outgoing(c) \in SUBSET Nodes BY DEF Outgoing
    <2>2. QED BY <2>1, ByIDLists
  <1> HIDE DEF cs
  <1>4. /\ st2 \in Seq(Nodes) /\ Len(st2) = k + 1
        /\ (\A i \in 1 .. k : st2[i] = st[i]) /\ st2[k + 1] = c
        /\ Follows(st2) /\ IsInjective(st2)
    BY <1>1, LongerStack
  <1>5. /\ ch2 \in Seq(Seq(Nodes)) /\ Len(ch2) = k + 1
        /\ (\A i \in 1 .. k : ch2[i] = cc[i]) /\ ch2[k + 1] = cs
    <2> DEFINE S == Seq(Nodes)
    <2>1. cc \in Seq(S) /\ cs \in S BY <1>1, <1>3
    <2> HIDE DEF S
    <2>2. ch2 \in Seq(S) /\ Len(ch2) = k + 1 /\ (\A i \in 1 .. k : ch2[i] = cc[i]) /\ ch2[k + 1] = cs
      BY <2>1, <1>1
    <2>3. QED BY <2>2 DEF S
  <1> HIDE DEF st2, ch2
  <1>6. \A i \in 1 .. k + 1 : i \in 1 .. k \/ i = k + 1 BY <1>1
  <1>7. OnTheWay(ss, st2, ch2)
    <2>1. \A i \in 1 .. k + 1 : IsInjective(ch2[i]) /\ Range(ch2[i]) \subseteq Outgoing(st2[i])
      <3> TAKE i \in 1 .. k + 1
      <3>1. CASE i \in 1 .. k BY <3>1, <1>2, <1>4, <1>5
      <3>2. CASE i = k + 1 BY <3>2, <1>3, <1>4, <1>5
      <3>3. QED BY <3>1, <3>2, <1>6
    <2>2. \A i \in 1 .. (k + 1) - 1 : st2[i + 1] \notin Range(ch2[i])
      <3> SUFFICES ASSUME NEW i \in 1 .. k PROVE st2[i + 1] \notin Range(ch2[i])
        BY <1>1
      <3>1. CASE i = k BY <3>1, <1>1, <1>4, <1>5
      <3>2. CASE i # k
        <4>1. i \in 1 .. k - 1 /\ i + 1 \in 1 .. k BY <3>2, <1>1
        <4>2. QED BY <4>1, <1>2, <1>4, <1>5
      <3>3. QED BY <3>1, <3>2
    <2>3. st2[1] \in Starts \ Range(ss)
      <3>1. 1 \in 1 .. k BY <1>1
      <3>2. QED BY <3>1, <1>1, <1>4
    <2>4. QED BY <1>1, <1>4, <1>5, <2>1, <2>2, <2>3 DEF OnTheWay
  <1>8. ASSUME NEW q, IsRoute(q), Pending(q, ss, st2, ch2)
        PROVE  Pending(q, ss, st, cc) \/ (Passes(q, st, c) /\ q # st2)
    <2>1. CASE q[1] \in Range(ss) BY <2>1 DEF Pending
    <2>2. CASE q[1] \notin Range(ss)
      <3>1. PICK i \in 1 .. k + 1 : /\ i < Len(q) /\ (\A j \in 1 .. i : q[j] = st2[j])
                                   /\ q[i + 1] \in Range(ch2[i])
        BY <2>2, <1>8, <1>4 DEF Pending
      <3>2. CASE i \in 1 .. k
        <4>1. \A j \in 1 .. i : j \in 1 .. k BY <3>2, <1>1
        <4>2. (\A j \in 1 .. i : q[j] = st[j]) /\ q[i + 1] \in Range(cc[i])
          BY <4>1, <3>1, <3>2, <1>4, <1>5
        <4>3. QED BY <4>2, <3>1, <3>2, <1>1 DEF Pending
      <3>3. CASE i = k + 1
        <4>1. k < Len(q) /\ Len(q) # k + 1
          <5>1. Len(q) \in Nat BY <1>8 DEF IsRoute
          <5>2. QED BY <5>1, <3>1, <3>3, <1>1
        <4>2. \A j \in 1 .. k : j \in 1 .. i BY <3>3, <1>1
        <4>3. k + 1 \in 1 .. i BY <3>3, <1>1
        <4>4. (\A j \in 1 .. k : q[j] = st[j]) /\ q[k + 1] = c BY <4>2, <4>3, <3>1, <1>4
        <4>5. q # st2 BY <4>1, <1>4
        <4>6. QED BY <4>1, <4>4, <4>5 DEF Passes
      <3>4. QED BY <3>2, <3>3, <1>6
    <2>3. QED BY <2>1, <2>2
  <1>9. ASSUME NEW q, Pending(q, ss, st, cc) PROVE Pending(q, ss, st2, ch2)
    <2>1. CASE q[1] \in Range(ss) BY <2>1 DEF Pending
    <2>2. CASE q[1] \notin Range(ss)
      <3>1. PICK i \in 1 .. k : /\ i < Len(q) /\ (\A j \in 1 .. i : q[j] = st[j])
                               /\ q[i + 1] \in Range(cc[i])
        BY <2>2, <1>9 DEF Pending
      <3>2. i \in 1 .. k + 1 /\ \A j \in 1 .. i : j \in 1 .. k BY <1>1
      <3>3. (\A j \in 1 .. i : q[j] = st2[j]) /\ q[i + 1] \in Range(ch2[i])
        BY <3>1, <3>2, <1>4, <1>5
      <3>4. QED BY <3>1, <3>2, <3>3, <1>4 DEF Pending
    <2>3. QED BY <2>1, <2>2
  <1>10. ASSUME NEW q, IsRoute(q), Passes(q, st, c), q # st2 PROVE Pending(q, ss, st2, ch2)
    <2> DEFINE m == Len(q)
    <2>1. /\ q \in Seq(Nodes) /\ m \in Nat /\ DOMAIN q = 1 .. m
          /\ \A i \in 1 .. m - 1 : <<q[i], q[i + 1]>> \in edges
      BY <1>10 DEF IsRoute, Follows
    <2>2. k < m /\ (\A i \in 1 .. k : q[i] = st[i]) /\ q[k + 1] = c BY <1>10 DEF Passes
    <2>3. \A i \in 1 .. k + 1 : q[i] = st2[i] BY <2>2, <1>4, <1>6
    <2>4. m # k + 1
      <3> SUFFICES ASSUME m = k + 1 PROVE FALSE
        OBVIOUS
      <3>1. Len(q) = Len(st2) /\ q \in Seq(Nodes) /\ st2 \in Seq(Nodes) BY <2>1, <1>4
      <3>2. \A i \in 1 .. Len(q) : q[i] = st2[i] BY <2>3
      <3>3. q = st2 BY <3>1, <3>2
      <3>4. QED BY <3>3, <1>10
    <2> HIDE DEF m
    <2>5. k + 1 < m BY <2>1, <2>2, <2>4, <1>1
    <2>6. (k + 1) \in 1 .. m - 1 /\ (k + 1) + 1 \in 1 .. m BY <2>1, <2>5, <1>1
    <2>7. q[(k + 1) + 1] \in Range(ch2[k + 1])
      <3>1. <<q[k + 1], q[(k + 1) + 1]>> \in edges BY <2>1, <2>6
      <3>2. q[(k + 1) + 1] \in Nodes BY <2>1, <2>6
      <3>3. q[(k + 1) + 1] \in Outgoing(c) BY <3>1, <3>2, <2>2 DEF Outgoing
      <3>4. QED BY <3>3, <1>3, <1>5
    <2>8. k + 1 \in 1 .. Len(st2) BY <1>1, <1>4
    <2>9. k + 1 < Len(q) BY <2>5 DEF m
    <2>10. QED BY <2>3, <2>7, <2>8, <2>9 DEF Pending
  <1>11. QED BY <1>7, <1>8, <1>9, <1>10 DEF st2, ch2, cs

(* A route that goes on from the stack to a node that is on it, or from which the
   target is not reached, ends there. *)
LEMMA RoutesTurnedBack ==
    ASSUME Explored, parents = {},
           NEW ss, NEW st, NEW ch, OnTheWay(ss, st, ch), NEW c, c \notin relevant \/ c \in Range(st),
           NEW q, IsRoute(q), Passes(q, st, c)
    PROVE  q = Append(st, c)
  <1> DEFINE k == Len(st)
             m == Len(q)
             r == Append(st, c)
  <1>1. /\ q \in Seq(Nodes) /\ m \in Nat /\ m >= 1 /\ DOMAIN q = 1 .. m /\ Follows(q) /\ q[m] = target
        /\ \A i, j \in 1 .. m - 1 : q[i] = q[j] => i = j
    BY DEF IsRoute
  <1>2. k < m /\ (\A i \in 1 .. k : q[i] = st[i]) /\ q[k + 1] = c BY DEF Passes
  <1>3. st \in Seq(Nodes) /\ k \in Nat /\ DOMAIN st = 1 .. k BY DEF OnTheWay
  <1>4. Range(q) \subseteq relevant BY <1>1, WaysAreRelevant
  <1>5. c \in Nodes /\ c \in relevant
    <2>1. k + 1 \in 1 .. m BY <1>1, <1>2, <1>3
    <2>2. q[k + 1] \in Range(q) /\ q[k + 1] \in Nodes BY <2>1, <1>1, ElementsOfSeq
    <2>3. QED BY <2>2, <1>2, <1>4
  <1>6. PICK i \in 1 .. k : st[i] = c BY <1>3, <1>5 DEF Range
  <1> HIDE DEF m, k
  <1>7. m = k + 1
    <2> SUFFICES ASSUME m # k + 1 PROVE FALSE
      OBVIOUS
    <2>1. k + 1 \in 1 .. m - 1 /\ i \in 1 .. m - 1 /\ i # k + 1 BY <1>1, <1>2, <1>3
    <2>2. q[i] = q[k + 1] BY <1>2, <1>6
    <2>3. QED BY <2>1, <2>2, <1>1
  <1>8. /\ r \in Seq(Nodes) /\ Len(r) = k + 1 /\ (\A j \in 1 .. k : r[j] = st[j]) /\ r[k + 1] = c
    BY <1>3, <1>5 DEF k
  <1> HIDE DEF r
  <1>9. \A j \in 1 .. k + 1 : q[j] = r[j]
    <2> TAKE j \in 1 .. k + 1
    <2>1. j \in 1 .. k \/ j = k + 1 BY <1>3
    <2>2. QED BY <2>1, <1>2, <1>8
  <1>10. q = r
    <2>1. q \in Seq(Nodes) /\ r \in Seq(Nodes) /\ Len(q) = Len(r) BY <1>1, <1>7, <1>8 DEF m
    <2>2. \A j \in 1 .. Len(q) : q[j] = r[j] BY <1>7, <1>9 DEF m
    <2>3. QED BY <2>1, <2>2
  <1>11. QED BY <1>10 DEF r

(* The stack and one node more are a route when that node is the target, and it
   comes round when the target is on the stack. *)
LEMMA StackIsARoute ==
    ASSUME NEW ss, NEW st, NEW ch, OnTheWay(ss, st, ch), Len(st) > 0,
           NEW c \in Nodes, c \in Outgoing(st[Len(st)])
    PROVE  /\ Passes(Append(st, c), st, c)
           /\ IsRoute(Append(st, c)) <=> c = target
           /\ c = target /\ c \notin Range(st) => AsPath(Append(st, c)) = Path(Append(st, c), FALSE)
           /\ c = target /\ c \in Range(st) => AsPath(Append(st, c)) = Path(Append(st, c), TRUE)
  <1> DEFINE k == Len(st)
             r == Append(st, c)
  <1>1. /\ st \in Seq(Nodes) /\ IsInjective(st) /\ Follows(st) /\ k \in Nat /\ k > 0
        /\ DOMAIN st = 1 .. k /\ st[1] \in Starts
    BY DEF OnTheWay
  <1>2. \A i, j \in 1 .. k : st[i] = st[j] => i = j BY <1>1 DEF IsInjective
  <1>3. /\ r \in Seq(Nodes) /\ Len(r) = k + 1 /\ (\A i \in 1 .. k : r[i] = st[i]) /\ r[k + 1] = c
        /\ Follows(r)
    BY <1>1, LongerStack
  <1>r. target \in Range(st) <=> \E i \in 1 .. k : st[i] = target BY <1>1 DEF Range
  <1> HIDE DEF k, r
  <1>4. Passes(r, st, c)
    <2>1. k < Len(r) BY <1>1, <1>3
    <2>2. QED BY <2>1, <1>3 DEF Passes, k
  <1>5. Len(r) - 1 = k /\ 1 \in 1 .. k BY <1>1, <1>3
  <1>6. IsRoute(r) <=> c = target
    <2>1. \A i, j \in 1 .. Len(r) - 1 : r[i] = r[j] => i = j BY <1>2, <1>3, <1>5
    <2>2. r[1] \in Starts BY <1>1, <1>3, <1>5
    <2>3. Len(r) >= 1 BY <1>1, <1>3
    <2>4. r[Len(r)] = c BY <1>3
    <2>5. QED BY <2>1, <2>2, <2>3, <2>4, <1>3 DEF IsRoute
  <1>7. ComesRound(r) <=> target \in Range(st)
    <2>1. ComesRound(r) <=> \E i \in 1 .. k : r[i] = target BY <1>5 DEF ComesRound
    <2>2. QED BY <2>1, <1>3, <1>r
  <1>8. QED BY <1>4, <1>6, <1>7 DEF AsPath, r

(* A start is a route by itself when it is the target. *)
LEMMA StartIsARoute ==
    ASSUME NEW n \in Starts, Starts \subseteq Nodes
    PROVE  /\ IsRoute(<<n>>) <=> n = target
           /\ AsPath(<<n>>) = Path(<<n>>, FALSE)
  <1> DEFINE r == <<n>>
  <1>1. r \in Seq(Nodes) /\ Len(r) = 1 /\ r[1] = n OBVIOUS
  <1> HIDE DEF r
  <1>2. 1 .. Len(r) - 1 = {} BY <1>1
  <1>3. Follows(r) BY <1>2 DEF Follows
  <1>4. IsRoute(r) <=> n = target BY <1>1, <1>2, <1>3 DEF IsRoute
  <1>5. ~ComesRound(r) BY <1>2 DEF ComesRound
  <1>6. QED BY <1>4, <1>5 DEF AsPath, r

(* All but the last. *)
LEMMA FrontOfList ==
    ASSUME NEW S, NEW s \in Seq(S), NEW k, k = Len(s), k > 0
    PROVE  /\ Front(s) \in Seq(S) /\ Len(Front(s)) = k - 1
           /\ \A i \in 1 .. k - 1 : Front(s)[i] = s[i]
  <1>1. k \in Nat OBVIOUS
  <1>2. QED BY <1>1 DEF Front

(* The call returns: its children have been looked at, and nothing that is
   pending leaves the stack there. *)
LEMMA LeavingKeepsTheWay ==
    ASSUME NEW ss, NEW st, NEW ch, OnTheWay(ss, st, ch), NEW k, k = Len(st), k > 0, ch[k] = << >>
    PROVE  /\ OnTheWay(ss, Front(st), Front(ch))
           /\ \A q : Pending(q, ss, Front(st), Front(ch)) <=> Pending(q, ss, st, ch)
  <1> DEFINE st2 == Front(st)
             ch2 == Front(ch)
  <1>1. /\ k \in Nat /\ ch \in Seq(Seq(Nodes)) /\ Len(ch) = k /\ DOMAIN st = 1 .. k
        /\ ss \in Seq(Nodes) /\ IsInjective(ss) /\ Range(ss) \subseteq Starts
        /\ st \in Seq(Nodes) /\ IsInjective(st) /\ Follows(st)
        /\ st[1] \in Starts \ Range(ss)
    BY DEF OnTheWay
  <1>2. /\ \A i \in 1 .. k : IsInjective(ch[i]) /\ Range(ch[i]) \subseteq Outgoing(st[i])
        /\ \A i \in 1 .. k - 1 : st[i + 1] \notin Range(ch[i])
    BY DEF OnTheWay
  <1>3. st2 \in Seq(Nodes) /\ Len(st2) = k - 1 /\ (\A i \in 1 .. k - 1 : st2[i] = st[i])
        /\ DOMAIN st2 = 1 .. k - 1
    <2>1. st2 \in Seq(Nodes) /\ Len(st2) = k - 1 /\ \A i \in 1 .. k - 1 : st2[i] = st[i]
      BY <1>1, FrontOfList
    <2> HIDE DEF st2
    <2>2. QED BY <2>1
  <1>4. ch2 \in Seq(Seq(Nodes)) /\ Len(ch2) = k - 1 /\ \A i \in 1 .. k - 1 : ch2[i] = ch[i]
    <2> DEFINE S == Seq(Nodes)
    <2>1. ch \in Seq(S) /\ k = Len(ch) BY <1>1
    <2> HIDE DEF S
    <2>2. ch2 \in Seq(S) /\ Len(ch2) = k - 1 /\ \A i \in 1 .. k - 1 : ch2[i] = ch[i]
      BY <2>1, FrontOfList
    <2>3. QED BY <2>2 DEF S
  <1> HIDE DEF st2, ch2
  <1>5. \A i \in 1 .. k - 1 : i \in 1 .. k BY <1>1
  <1>6. OnTheWay(ss, st2, ch2)
    <2>1. IsInjective(st2)
      <3>1. \A i, j \in 1 .. k : st[i] = st[j] => i = j BY <1>1 DEF IsInjective
      <3>2. \A i, j \in 1 .. k - 1 : st2[i] = st2[j] => i = j BY <3>1, <1>3, <1>5
      <3>3. QED BY <3>2, <1>3 DEF IsInjective
    <2>2. \A i \in 1 .. (k - 1) - 1 : i \in 1 .. k - 1 /\ i + 1 \in 1 .. k - 1 BY <1>1
    <2>3. Follows(st2)
      <3>1. \A i \in 1 .. k - 1 : <<st[i], st[i + 1]>> \in edges BY <1>1 DEF Follows
      <3>2. \A i \in 1 .. (k - 1) - 1 : <<st2[i], st2[i + 1]>> \in edges BY <3>1, <2>2, <1>3
      <3>3. QED BY <3>2, <1>3 DEF Follows
    <2>4. \A i \in 1 .. (k - 1) - 1 : st2[i + 1] \notin Range(ch2[i]) BY <2>2, <1>2, <1>3, <1>4
    <2>5. \A i \in 1 .. k - 1 : IsInjective(ch2[i]) /\ Range(ch2[i]) \subseteq Outgoing(st2[i])
      BY <1>2, <1>3, <1>4, <1>5
    <2>6. Len(st2) > 0 => st2[1] \in Starts \ Range(ss)
      <3>1. Len(st2) > 0 => 1 \in 1 .. k - 1 BY <1>1, <1>3
      <3>2. QED BY <3>1, <1>1, <1>3
    <2>7. QED BY <1>1, <1>3, <1>4, <2>1, <2>3, <2>4, <2>5, <2>6 DEF OnTheWay
  <1>7. ASSUME NEW q, Pending(q, ss, st2, ch2) PROVE Pending(q, ss, st, ch)
    <2>1. CASE q[1] \in Range(ss) BY <2>1 DEF Pending
    <2>2. CASE q[1] \notin Range(ss)
      <3>1. PICK i \in 1 .. k - 1 : /\ i < Len(q) /\ (\A j \in 1 .. i : q[j] = st2[j])
                                   /\ q[i + 1] \in Range(ch2[i])
        BY <2>2, <1>7, <1>3 DEF Pending
      <3>2. i \in 1 .. k /\ \A j \in 1 .. i : j \in 1 .. k - 1 BY <1>1
      <3>3. (\A j \in 1 .. i : q[j] = st[j]) /\ q[i + 1] \in Range(ch[i]) BY <3>1, <3>2, <1>3, <1>4
      <3>4. QED BY <3>1, <3>2, <3>3 DEF Pending
    <2>3. QED BY <2>1, <2>2
  <1>8. ASSUME NEW q, Pending(q, ss, st, ch) PROVE Pending(q, ss, st2, ch2)
    <2>1. CASE q[1] \in Range(ss) BY <2>1 DEF Pending
    <2>2. CASE q[1] \notin Range(ss)
      <3>1. PICK i \in 1 .. k : /\ i < Len(q) /\ (\A j \in 1 .. i : q[j] = st[j])
                               /\ q[i + 1] \in Range(ch[i])
        BY <2>2, <1>8 DEF Pending
      <3>2. i # k
        <4>1. \A x : x \notin Range(ch[k])
          <5>1. DOMAIN ch[k] = {} OBVIOUS
          <5>2. QED BY <5>1 DEF Range
        <4>2. QED BY <4>1, <3>1
      <3>3. i \in 1 .. k - 1 /\ \A j \in 1 .. i : j \in 1 .. k - 1 BY <3>2, <1>1
      <3>4. (\A j \in 1 .. i : q[j] = st2[j]) /\ q[i + 1] \in Range(ch2[i]) BY <3>1, <3>3, <1>3, <1>4
      <3>5. QED BY <3>1, <3>3, <3>4, <1>3 DEF Pending
    <2>3. QED BY <2>1, <2>2
  <1>9. QED BY <1>6, <1>7, <1>8 DEF st2, ch2

-----------------------------------------------------------------------------
(* The inductive invariant of a query for paths. *)
PathsInv ==
    walking # "idle" =>
        /\ walking \in {"reverse", "walk", "returned"}
        /\ edges \in SUBSET Links
        /\ target \in Dependencies => stated \in Relationships
        /\ Explored
        /\ walking = "reverse" => starts = << >> /\ stack = << >> /\ children = << >> /\ paths = << >>
        /\ walking # "reverse" => parents = {}
        /\ walking = "walk" =>
              /\ OnTheWay(starts, stack, children)
              /\ Found(paths, starts, stack, children)
        /\ walking = "returned" => paths \in Seq(PathRecords)
        /\ PathsAreExact

(* A query for paths starts in its invariant, and the others are not one. *)
LEMMA PathsInvAtFirst ==
    ASSUME Init
    PROVE  PathsInv
  <1>1. CASE PathsInit
    <2>1. /\ walking = "reverse" /\ target \in Nodes /\ relevant = {target} /\ parents = {target}
          /\ starts = << >> /\ stack = << >> /\ children = << >> /\ paths = << >>
          /\ target \in Dependencies => stated \in Relationships
      BY <1>1 DEF PathsInit
    <2>e. edges \in SUBSET Links BY <1>1 DEF Init, PathsInit, SortIdle, SortInit, PathsIdle
    <2>2. Explored
      <3>1. PICK s : LeadsFrom(target, s) /\ Range(s) \subseteq {target} BY <2>1, TargetLeads
      <3>2. QED BY <3>1, <2>1 DEF Explored
    <2>3. QED BY <2>1, <2>2, <2>e DEF PathsInv, PathsAreExact
  <1>2. CASE PathsIdle BY <1>2 DEF PathsIdle, PathsInv
  <1>3. QED BY <1>1, <1>2 DEF Init

(* What the walk's graph is, none of its steps changes. *)
PathsSettled == UNCHANGED <<target, stated, relevant, parents, edges>>

(* So the routes, and what is before and behind the walk, are judged alike. *)
LEMMA PathsSettledGraph ==
    ASSUME PathsSettled
    PROVE  /\ Explored => Explored'
           /\ AllPaths' = AllPaths
           /\ \A ss, st, ch : OnTheWay(ss, st, ch) => OnTheWay(ss, st, ch)'
           /\ \A found, ss, st, ch : Found(found, ss, st, ch) => Found(found, ss, st, ch)'
  <1>1. target' = target /\ relevant' = relevant /\ parents' = parents /\ edges' = edges
    BY DEF PathsSettled
  <1>2. \A s : Follows(s)' <=> Follows(s) BY <1>1 DEF Follows
  <1>3. \A n : Incoming(n)' = Incoming(n) BY <1>1 DEF Incoming
  <1>4. \A n : Outgoing(n)' = Outgoing(n) BY <1>1 DEF Outgoing
  <1>5. Starts' = Starts BY <1>1, <1>3 DEF Starts, RelevantRoots
  <1>6. Roots' = Roots BY <1>3 DEF Roots
  <1>7. \A n, s : LeadsFrom(n, s)' <=> LeadsFrom(n, s) BY <1>1, <1>2 DEF LeadsFrom
  <1>8. Explored => Explored' BY <1>1, <1>3, <1>7 DEF Explored
  <1>9. AllPaths' = AllPaths
    <2>1. Leading' = Leading BY <1>1, <1>2 DEF Leading
    <2>2. \A s : Begins(s)' <=> Begins(s) BY <2>1, <1>6 DEF Begins
    <2>3. QED BY <2>1, <2>2, <1>1, <1>2 DEF AllPaths
  <1>10. \A ss, st, ch : OnTheWay(ss, st, ch) => OnTheWay(ss, st, ch)'
    <2>1. SUFFICES ASSUME NEW ss, NEW st, NEW ch, OnTheWay(ss, st, ch)
                   PROVE  OnTheWay(ss, st, ch)'
      OBVIOUS
    <2>2. Follows(st)' BY <1>2, <2>1, Zenon DEF OnTheWay
    <2>3. Range(ss) \subseteq Starts' /\ (Len(st) > 0 => st[1] \in Starts' \ Range(ss))
      BY <1>5, <2>1, Zenon DEF OnTheWay
    <2>4. \A k \in 1 .. Len(st) : IsInjective(ch[k]) /\ Range(ch[k]) \subseteq Outgoing(st[k])'
      BY <1>4, <2>1, Zenon DEF OnTheWay
    <2>5. QED BY <2>1, <2>2, <2>3, <2>4, Zenon DEF OnTheWay
  <1>11. \A q : IsRoute(q)' <=> IsRoute(q) BY <1>1, <1>2, <1>5 DEF IsRoute
  <1>12. \A q : AsPath(q)' = AsPath(q) BY <1>1 DEF AsPath, ComesRound
  <1>13. \A found, ss, st, ch : Found(found, ss, st, ch) => Found(found, ss, st, ch)'
    BY <1>11, <1>12 DEF Found
  <1>14. QED BY <1>8, <1>9, <1>10, <1>13

(* The walk goes on. *)
LEMMA WalkGoesOn ==
    ASSUME PathsInv, walking # "idle", PathsSettled, Explored, parents = {}, walking' = "walk",
           OnTheWay(starts', stack', children'), Found(paths', starts', stack', children')
    PROVE  PathsInv'
  <1>1. Explored' /\ parents' = {} BY PathsSettledGraph DEF PathsSettled
  <1>s. edges' \in SUBSET Links /\ (target' \in Dependencies => stated' \in Relationships)
    BY DEF PathsInv, PathsSettled
  <1>2. OnTheWay(starts, stack, children)' /\ Found(paths, starts, stack, children)'
    BY PathsSettledGraph
  <1>3. PathsAreExact' BY DEF PathsAreExact
  <1>4. QED BY <1>1, <1>2, <1>3, <1>s DEF PathsInv

(* When the walk begins, every route is pending. *)
LEMMA ReverseEndsKeeps ==
    ASSUME PathsInv, ReverseEnds
    PROVE  PathsInv'
  <1>1. /\ PathsSettled /\ Explored /\ parents = {} /\ walking # "idle" /\ walking' = "walk" /\ starts' = ByID(Starts)
        /\ stack' = << >> /\ children' = << >> /\ paths' = << >>
    BY DEF ReverseEnds, PathsInv, PathsSettled
  <1>2. Starts \subseteq Nodes BY <1>1, StartsAreRoots
  <1> DEFINE ss == ByID(Starts)
             none == << >>
  <1>3. ss \in Seq(Nodes) /\ IsInjective(ss) /\ Range(ss) = Starts
    BY <1>2, ByIDLists
  <1> HIDE DEF ss
  <1>4. /\ none \in Seq(Nodes) /\ none \in Seq(Seq(Nodes)) /\ none \in Seq(PathRecords)
        /\ Len(none) = 0 /\ DOMAIN none = {}
    OBVIOUS
  <1> HIDE DEF none
  <1>5. IsInjective(none) /\ Range(none) = {} BY <1>4 DEF IsInjective, Range
  <1>6. 1 .. Len(none) = {} /\ 1 .. Len(none) - 1 = {} BY <1>4
  <1>7. Follows(none) BY <1>6 DEF Follows
  <1>8. OnTheWay(ss, none, none) BY <1>3, <1>4, <1>5, <1>6, <1>7 DEF OnTheWay
  <1>9. Found(none, ss, none, none)
    <2>1. \A q : IsRoute(q) => Pending(q, ss, none, none) BY <1>3 DEF IsRoute, Pending
    <2>2. QED BY <2>1, <1>4, <1>5 DEF Found
  <1>10. OnTheWay(starts', stack', children') /\ Found(paths', starts', stack', children')
    BY <1>1, <1>8, <1>9 DEF ss, none
  <1>11. QED BY <1>1, <1>10, WalkGoesOn

(* Taking a start, the walk finds at most the route of that node alone. *)
LEMMA StartKeeps ==
    ASSUME PathsInv, Start
    PROVE  PathsInv'
  <1> DEFINE n == Head(starts)
             st == <<n>>
             ch == <<ByID(Outgoing(n))>>
  <1>1. /\ PathsSettled /\ Explored /\ parents = {} /\ walking # "idle" /\ walking' = "walk"
        /\ starts # << >> /\ stack = << >> /\ starts' = Tail(starts)
        /\ children' = ch
    BY DEF Start, PathsInv, PathsSettled
  <1>2. /\ stack' = Append(stack, n)
        /\ paths' = IF n = target THEN Append(paths, Path(stack', FALSE)) ELSE paths
    BY DEF Start, Entered
  <1>3. OnTheWay(starts, stack, children) /\ Found(paths, starts, stack, children)
    BY DEF Start, PathsInv
  <1>4. children = << >>
    <2>1. children \in Seq(Seq(Nodes)) /\ Len(children) = Len(stack) BY <1>3 DEF OnTheWay
    <2>2. Len(children) = 0 BY <2>1, <1>1
    <2>3. QED BY <2>1, <2>2
  <1>5. stack' = st BY <1>1, <1>2
  <1>6. Starts \subseteq Nodes BY <1>1, StartsAreRoots
  <1> HIDE DEF n
  <1>7. /\ OnTheWay(Tail(starts), st, ch)
        /\ \A q : IsRoute(q) =>
              (Pending(q, Tail(starts), st, ch) <=> Pending(q, starts, << >>, << >>) /\ q # st)
        /\ n \in Starts /\ n \in Range(starts)
    BY <1>1, <1>3, <1>4, <1>6, StartKeepsTheWay DEF n
  <1>8. (IsRoute(st) <=> n = target) /\ AsPath(st) = Path(st, FALSE)
    BY <1>6, <1>7, StartIsARoute
  <1>9. Found(paths, starts, << >>, << >>) BY <1>1, <1>3, <1>4
  <1>p. st[1] = n OBVIOUS
  <1> HIDE DEF st, ch
  <1>10. Found(paths', Tail(starts), st, ch)
    <2>1. CASE n = target
      <3>1. paths' = Append(paths, AsPath(st)) BY <2>1, <1>2, <1>5, <1>8
      <3>2. Pending(st, starts, << >>, << >>) BY <1>7, <1>p DEF Pending
      <3>3. QED BY <3>1, <3>2, <2>1, <1>7, <1>8, <1>9, FoundOneMore
    <2>2. CASE n # target
      <3>1. \A q : IsRoute(q) =>
               (Pending(q, Tail(starts), st, ch) <=> Pending(q, starts, << >>, << >>))
        BY <2>2, <1>7, <1>8
      <3>2. paths' = paths BY <2>2, <1>2
      <3>3. QED BY <3>1, <3>2, <1>9, FoundNoMore
    <2>3. QED BY <2>1, <2>2
  <1>11. OnTheWay(starts', stack', children') /\ Found(paths', starts', stack', children')
    BY <1>1, <1>5, <1>7, <1>10
  <1>12. QED BY <1>1, <1>11, WalkGoesOn

(* Looking at a child, it descends, finds the route that closes a cycle at the
   target, or turns back where no route goes. *)
LEMMA ChildKeeps ==
    ASSUME PathsInv, NEW c \in Nodes, Child(c)
    PROVE  PathsInv'
  <1> DEFINE k == Len(stack)
             cc == ChildTaken
             r == Append(stack, c)
             cs == ByID(Outgoing(c))
             down == Append(cc, cs)
  <1>1. /\ PathsSettled /\ Explored /\ parents = {} /\ walking # "idle" /\ walking' = "walk" /\ starts' = starts
        /\ stack # << >> /\ Last(children) # << >> /\ c = Head(Last(children))
    BY DEF Child, PathsInv, PathsSettled
  <1>2. OnTheWay(starts, stack, children) /\ Found(paths, starts, stack, children)
    BY DEF Child, PathsInv
  <1>3. /\ stack \in Seq(Nodes) /\ k \in Nat /\ k > 0 /\ k = Len(children)
        /\ children \in Seq(Seq(Nodes)) /\ Last(children) = children[k]
    <2>1. stack \in Seq(Nodes) /\ children \in Seq(Seq(Nodes)) /\ Len(children) = Len(stack)
      BY <1>2 DEF OnTheWay
    <2>2. k \in Nat /\ k > 0 BY <2>1, <1>1
    <2>3. Last(children) = children[k] BY <2>1 DEF Last
    <2>4. QED BY <2>1, <2>2, <2>3
  <1> HIDE DEF k, cc
  <1>4. /\ cc \in Seq(Seq(Nodes)) /\ Len(cc) = k /\ cc[k] = Tail(children[k])
        /\ \A i \in 1 .. k - 1 : cc[i] = children[i]
    <2>1. children[k] # << >> BY <1>1, <1>3
    <2>2. cc = Taken(children) BY DEF cc, ChildTaken, Taken
    <2>3. QED BY <2>1, <2>2, <1>3, FramesAfterChild
  <1>5. /\ OnTheWay(starts, stack, cc)
        /\ c \in Outgoing(stack[k]) /\ c \notin Range(cc[k])
        /\ \A q : IsRoute(q) =>
              (Pending(q, starts, stack, cc) <=> Pending(q, starts, stack, children) /\ ~Passes(q, stack, c))
        /\ \A q : Passes(q, stack, c) => Pending(q, starts, stack, children)
    <2>1. k = Len(stack) BY DEF k
    <2>2. children[k] # << >> /\ c = Head(children[k]) BY <1>1, <1>3
    <2>3. QED BY <2>1, <2>2, <1>2, <1>3, <1>4, TakingKeepsTheWay
  <1>6. /\ Passes(r, stack, c) /\ (IsRoute(r) <=> c = target)
        /\ c = target /\ c \notin Range(stack) => AsPath(r) = Path(r, FALSE)
        /\ c = target /\ c \in Range(stack) => AsPath(r) = Path(r, TRUE)
    BY <1>2, <1>3, <1>5, StackIsARoute DEF k
  <1>7. CASE Descends(c)
    <2>1. /\ stack' = r /\ children' = down
          /\ paths' = IF c = target THEN Append(paths, Path(r, FALSE)) ELSE paths
      BY <1>7 DEF Child, Entered, cc
    <2>2. c \notin Range(stack) BY <1>7 DEF Descends, Active
    <2>3. /\ OnTheWay(starts, r, down)
          /\ \A q : IsRoute(q) =>
                (Pending(q, starts, r, down)
                   <=> Pending(q, starts, stack, cc) \/ (Passes(q, stack, c) /\ q # r))
      <3>1. Starts \subseteq Nodes BY <1>1, StartsAreRoots
      <3>2. k = Len(stack) BY DEF k
      <3>3. QED BY <3>1, <3>2, <2>2, <1>3, <1>5, DescendingKeepsTheWay
    <2> HIDE DEF r, down
    <2>4. \A q : IsRoute(q) =>
             (Pending(q, starts, r, down) <=> Pending(q, starts, stack, children) /\ q # r)
      <3> SUFFICES ASSUME NEW q, IsRoute(q)
                   PROVE  Pending(q, starts, r, down) <=> Pending(q, starts, stack, children) /\ q # r
        OBVIOUS
      <3>1. Pending(q, starts, r, down)
              <=> Pending(q, starts, stack, cc) \/ (Passes(q, stack, c) /\ q # r)
        BY <2>3
      <3>2. Pending(q, starts, stack, cc) <=> Pending(q, starts, stack, children) /\ ~Passes(q, stack, c)
        BY <1>5
      <3>3. Passes(q, stack, c) => Pending(q, starts, stack, children) BY <1>5
      <3>4. q = r => Passes(q, stack, c) BY <1>6
      <3>5. QED BY <3>1, <3>2, <3>3, <3>4
    <2>5. Found(paths', starts, r, down)
      <3>1. CASE c = target
        <4>1. paths' = Append(paths, AsPath(r)) BY <3>1, <2>1, <2>2, <1>6
        <4>2. Pending(r, starts, stack, children) BY <1>5, <1>6
        <4>3. QED BY <4>1, <4>2, <3>1, <2>4, <1>2, <1>6, FoundOneMore
      <3>2. CASE c # target
        <4>1. \A q : IsRoute(q) =>
                 (Pending(q, starts, r, down) <=> Pending(q, starts, stack, children))
          BY <3>2, <2>4, <1>6
        <4>2. paths' = paths BY <3>2, <2>1
        <4>3. QED BY <4>1, <4>2, <1>2, FoundNoMore
      <3>3. QED BY <3>1, <3>2
    <2>6. OnTheWay(starts', stack', children') /\ Found(paths', starts', stack', children')
      BY <1>1, <2>1, <2>3, <2>5
    <2>7. QED BY <1>1, <2>6, WalkGoesOn
  <1>8. CASE ~Descends(c)
    <2>1. /\ stack' = stack /\ children' = cc
          /\ paths' = IF ClosesCycle(c) THEN Append(paths, Path(r, TRUE)) ELSE paths
      BY <1>8 DEF Child, cc
    <2>2. c \notin relevant \/ c \in Range(stack) BY <1>8 DEF Descends, Active
    <2>3. ClosesCycle(c) <=> c = target
      BY <2>2, <1>1 DEF ClosesCycle, Active, Explored
    <2> HIDE DEF r
    <2>4. \A q : IsRoute(q) =>
             (Pending(q, starts, stack, cc) <=> Pending(q, starts, stack, children) /\ q # r)
      <3> SUFFICES ASSUME NEW q, IsRoute(q) PROVE Passes(q, stack, c) <=> q = r
        BY <1>5
      <3>1. Passes(q, stack, c) => q = r BY <2>2, <1>1, <1>2, RoutesTurnedBack DEF r
      <3>2. QED BY <3>1, <1>6
    <2>5. Found(paths', starts, stack, cc)
      <3>1. CASE c = target
        <4>1. c \in Range(stack) BY <3>1, <2>2, <1>1 DEF Explored
        <4>2. paths' = Append(paths, AsPath(r)) BY <4>1, <3>1, <2>1, <2>3, <1>6
        <4>3. Pending(r, starts, stack, children) BY <1>5, <1>6
        <4>4. QED BY <4>2, <4>3, <3>1, <2>4, <1>2, <1>6, FoundOneMore
      <3>2. CASE c # target
        <4>1. \A q : IsRoute(q) =>
                 (Pending(q, starts, stack, cc) <=> Pending(q, starts, stack, children))
          BY <3>2, <2>4, <1>6
        <4>2. paths' = paths BY <3>2, <2>1, <2>3
        <4>3. QED BY <4>1, <4>2, <1>2, FoundNoMore
      <3>3. QED BY <3>1, <3>2
    <2>6. OnTheWay(starts', stack', children') /\ Found(paths', starts', stack', children')
      BY <1>1, <2>1, <2>5, <1>5
    <2>7. QED BY <1>1, <2>6, WalkGoesOn
  <1>9. QED BY <1>7, <1>8

(* Leaving a node whose children have all been looked at, it finds nothing. *)
LEMMA LeaveKeeps ==
    ASSUME PathsInv, Leave
    PROVE  PathsInv'
  <1> DEFINE k == Len(stack)
  <1>1. /\ PathsSettled /\ Explored /\ parents = {} /\ walking # "idle" /\ walking' = "walk" /\ starts' = starts
        /\ stack # << >> /\ Last(children) = << >> /\ paths' = paths
        /\ stack' = Front(stack) /\ children' = Front(children)
    BY DEF Leave, PathsInv, PathsSettled
  <1>2. OnTheWay(starts, stack, children) /\ Found(paths, starts, stack, children)
    BY DEF Leave, PathsInv
  <1>3. k \in Nat /\ k > 0 /\ children[k] = << >>
    <2>1. stack \in Seq(Nodes) /\ children \in Seq(Seq(Nodes)) /\ Len(children) = Len(stack)
      BY <1>2 DEF OnTheWay
    <2>2. k \in Nat /\ k > 0 BY <2>1, <1>1
    <2>3. Last(children) = children[k] BY <2>1 DEF Last
    <2>4. QED BY <2>2, <2>3, <1>1
  <1>4. /\ OnTheWay(starts, Front(stack), Front(children))
        /\ \A q : Pending(q, starts, Front(stack), Front(children))
                      <=> Pending(q, starts, stack, children)
    BY <1>2, <1>3, LeavingKeepsTheWay
  <1>5. Found(paths, starts, Front(stack), Front(children)) BY <1>2, <1>4, FoundNoMore
  <1>6. OnTheWay(starts', stack', children') /\ Found(paths', starts', stack', children')
    BY <1>1, <1>4, <1>5
  <1>7. QED BY <1>1, <1>6, WalkGoesOn

(* At the end nothing is pending: what has been found, sorted, is every path. *)
LEMMA PathsReturnKeeps ==
    ASSUME PathsInv, PathsReturn
    PROVE  PathsInv'
  <1> DEFINE none == << >>
             sorted == InPathOrder(paths)
  <1>1. /\ PathsSettled /\ Explored /\ parents = {} /\ walking # "idle" /\ walking' = "returned"
        /\ stack = none /\ starts = none /\ paths' = sorted
        /\ OnTheWay(starts, stack, children) /\ Found(paths, starts, stack, children)
    BY DEF PathsReturn, PathsInv, PathsSettled
  <1>2. Len(none) = 0 /\ DOMAIN none = {} OBVIOUS
  <1> HIDE DEF none, sorted
  <1>3. \A q : ~Pending(q, starts, stack, children)
    <2>1. Range(starts) = {} BY <1>1, <1>2 DEF Range
    <2>2. 1 .. Len(stack) = {} BY <1>1, <1>2
    <2>3. QED BY <2>1, <2>2 DEF Pending
  <1>4. Range(paths) = AllPaths
    <2>1. \A p : p \in Range(paths) <=> \E q : IsRoute(q) /\ p = AsPath(q) BY <1>1, <1>3 DEF Found
    <2>2. \A p : p \in AllPaths <=> \E q : IsRoute(q) /\ p = AsPath(q) BY <1>1, AllPathsAreRoutes
    <2>3. QED BY <2>1, <2>2
  <1>5. /\ DOMAIN sorted = DOMAIN paths /\ Range(sorted) = Range(paths)
        /\ \A i, j \in DOMAIN sorted : i < j => Precedes(sorted[i], sorted[j])
    <2>1. paths \in Seq(PathRecords) /\ \A i, j \in DOMAIN paths : paths[i].nodes = paths[j].nodes => i = j
      BY <1>1 DEF Found
    <2>2. QED BY <2>1, InPathOrderSorts DEF sorted
  <1>6. sorted # none
    <2>1. Range(sorted) # {} BY <1>1, <1>4, <1>5, ThereIsARoute
    <2>2. Range(none) = {} BY <1>2 DEF Range
    <2>3. QED BY <2>1, <2>2
  <1>7. AllPaths' = AllPaths /\ Explored' BY <1>1, PathsSettledGraph
  <1>8. PathsAreExact'
    <2>1. Range(sorted) = AllPaths' BY <1>4, <1>5, <1>7
    <2>2. paths' # << >> BY <1>1, <1>6 DEF none
    <2>3. QED BY <2>1, <2>2, <1>1, <1>5 DEF PathsAreExact, Precedes
  <1>9. /\ parents' = {} /\ edges' \in SUBSET Links
        /\ target' \in Dependencies => stated' \in Relationships
    BY <1>1 DEF PathsSettled, PathsInv
  <1>10. sorted \in Seq(PathRecords)
    <2> DEFINE n == Len(paths)
    <2>1. paths \in Seq(PathRecords) BY <1>1 DEF Found
    <2>2. n \in Nat /\ DOMAIN paths = 1 .. n BY <2>1
    <2> HIDE DEF n
    <2>3. Range(sorted) \subseteq PathRecords BY <2>1, <1>5, ElementsOfSeq
    <2>4. sorted = [i \in 1 .. n |-> sorted[i]] BY <2>2 DEF sorted, InPathOrder
    <2>5. \A i \in 1 .. n : sorted[i] \in PathRecords BY <2>2, <2>3, <1>5 DEF Range
    <2>6. sorted \in [1 .. n -> PathRecords] BY <2>4, <2>5
    <2>7. QED BY <2>2, <2>6
  <1>11. QED BY <1>1, <1>7, <1>8, <1>9, <1>10 DEF PathsInv

(* A turn of the reverse search. *)
LEMMA ReverseStepKeeps ==
    ASSUME PathsInv, NEW n \in Nodes, ReverseStep(n)
    PROVE  PathsInv'
  <1>1. /\ walking = "reverse" /\ walking' = "reverse"
        /\ starts' = starts /\ stack' = stack /\ children' = children /\ paths' = paths
    BY DEF ReverseStep
  <1>2. Explored' BY <1>1, ExploredByReverseStep DEF PathsInv
  <1>3. PathsAreExact' BY <1>1 DEF PathsAreExact
  <1>4. edges' \in SUBSET Links /\ (target' \in Dependencies => stated' \in Relationships)
    BY <1>1 DEF PathsInv, ReverseStep
  <1>5. QED BY <1>1, <1>2, <1>3, <1>4 DEF PathsInv

(* What leaves the query and its graph alone. *)
LEMMA OthersKeepPathsInv ==
    ASSUME PathsInv, UNCHANGED <<pathVars, edges>>
    PROVE  PathsInv'
  <1>1. /\ PathsSettled /\ walking' = walking /\ starts' = starts /\ stack' = stack
        /\ children' = children /\ paths' = paths /\ parents' = parents
    BY DEF pathVars, PathsSettled
  <1>2. AllPaths' = AllPaths /\ (Explored => Explored') BY <1>1, PathsSettledGraph
  <1>3. /\ OnTheWay(starts, stack, children) => OnTheWay(starts, stack, children)'
        /\ Found(paths, starts, stack, children) => Found(paths, starts, stack, children)'
    BY <1>1, PathsSettledGraph
  <1>4. PathsAreExact => PathsAreExact' BY <1>1, <1>2 DEF PathsAreExact, Precedes
  <1>5. edges' = edges /\ target' = target /\ stated' = stated BY <1>1 DEF PathsSettled
  <1>6. QED BY <1>1, <1>2, <1>3, <1>4, <1>5 DEF PathsInv

(* Every step of the query keeps its invariant, and so does every other. *)
LEMMA PathsStep == PathsInv /\ [Next]_vars => PathsInv'
  <1> SUFFICES ASSUME PathsInv, [Next]_vars PROVE PathsInv'
    OBVIOUS
  <1>1. CASE SortNext /\ UNCHANGED <<pathVars, walkVars>>
    BY <1>1, OthersKeepPathsInv DEF SortNext, Pop, SortReturns
  <1>2. CASE PathsNext /\ UNCHANGED <<sortVars, walkVars>>
    <2>1. CASE \E n \in Nodes : ReverseStep(n) BY <2>1, ReverseStepKeeps
    <2>2. CASE \E n \in Nodes : Child(n) BY <2>2, ChildKeeps
    <2>3. CASE ReverseEnds BY <2>3, ReverseEndsKeeps
    <2>4. CASE Start BY <2>4, StartKeeps
    <2>5. CASE Leave BY <2>5, LeaveKeeps
    <2>6. CASE PathsReturn BY <2>6, PathsReturnKeeps
    <2>7. QED BY <1>2, <2>1, <2>2, <2>3, <2>4, <2>5, <2>6 DEF PathsNext
  <1>3. CASE WalkNext /\ UNCHANGED <<sortVars, pathVars>>
    BY <1>3, OthersKeepPathsInv DEF WalkNext, RootIsAbsent, SeedDirect, Visit, QueueIsEmpty, Default, input
  <1>4. CASE UNCHANGED vars BY <1>4, OthersKeepPathsInv DEF vars
  <1>5. QED BY <1>1, <1>2, <1>3, <1>4 DEF Next

(* The inductive invariant of CollectPathsTo: what the reverse search has found,
   what the walk has before it and what it has behind it. *)
THEOREM PathsAlwaysSound == Spec => []PathsInv
  BY PathsInvAtFirst, PathsStep, PTL DEF Spec

(* CollectPathsTo returns every path there is, cyclic ones included, each once
   and in the order of their IDs, on every graph. *)
THEOREM PathsAlwaysExact == Spec => []PathsAreExact
  <1>1. PathsInv => PathsAreExact BY DEF PathsInv, PathsAreExact
  <1>2. QED BY <1>1, PathsAlwaysSound, PTL

-----------------------------------------------------------------------------
(* The owners in rounds: the roots, then whatever structural node the last round
   has an edge to. *)
Rounds(f) ==
    /\ f[0] = Roots
    /\ \A k \in Nat : f[k] \in SUBSET Nodes
    /\ \A k \in Nat, n \in Nodes :
          n \in f[k + 1] <=> n \in f[k] \/ (n \notin Dependencies /\ \E m \in f[k] : <<m, n>> \in edges)

(* Below is one step along the edges. *)
LEMMA BelowFollowsEdges ==
    ASSUME edges \in SUBSET Links, NEW S, NEW n
    PROVE  n \in Below(TheGraph, S) <=> \E m \in S : <<m, n>> \in edges
  <1>1. TheGraph.edges = edges BY DEF TheGraph
  <1>2. \A e \in edges : e = <<e[1], e[2]>> BY GraphAssumption
  <1>3. \A m : <<m, n>>[1] = m /\ <<m, n>>[2] = n OBVIOUS
  <1>4. Below(TheGraph, S) = {e[2] : e \in {e \in edges : e[1] \in S}} BY <1>1 DEF Below
  <1>5. ASSUME n \in Below(TheGraph, S) PROVE \E m \in S : <<m, n>> \in edges
    <2>1. PICK e \in edges : e[1] \in S /\ n = e[2] BY <1>4, <1>5
    <2>2. QED BY <2>1, <1>2
  <1>6. ASSUME NEW m \in S, <<m, n>> \in edges PROVE n \in Below(TheGraph, S)
    <2> DEFINE e == <<m, n>>
    <2>1. e \in edges /\ e[1] \in S /\ e[2] = n BY <1>3, <1>6
    <2> HIDE DEF e
    <2>2. QED BY <2>1, <1>4
  <1>7. QED BY <1>5, <1>6

(* The top nodes of relationship.go are the roots of the walk. *)
LEMMA TopNodesAreRoots ==
    ASSUME edges \in SUBSET Links
    PROVE  TopNodes(TheGraph) = Roots
  <1>1. TheGraph.nodes = Nodes BY DEF TheGraph
  <1>2. \A n : n \in Below(TheGraph, Nodes) <=> \E m \in Nodes : <<m, n>> \in edges
    BY BelowFollowsEdges
  <1>3. \A n \in Nodes : n \in Roots <=> n \notin Below(TheGraph, Nodes) BY <1>2 DEF Roots, Incoming
  <1>4. QED BY <1>1, <1>3 DEF TopNodes, Roots

(* The owners are what as many rounds as there are nodes have reached. *)
LEMMA OwnersInRounds ==
    ASSUME edges \in SUBSET Links
    PROVE  \E f : Rounds(f) /\ Owners(TheGraph) = f[Cardinality(Nodes)]
  <1> DEFINE g == TheGraph
             T == SUBSET Nodes
             grown(S) == S \cup (Below(g, S) \ g.dependencies)
             step == [p \in Nat \X T |-> grown(p[2])]
             rank == [k \in Nat |-> k]
             before == [k \in Nat |-> IF k = 0 THEN 0 ELSE k - 1]
             Fold(h) == [k \in Nat |-> IF k = 0 THEN TopNodes(g)
                                       ELSE h[k - 1] \cup (Below(g, h[k - 1]) \ g.dependencies)]
             f == CHOOSE h : h = Fold(h)
  <1>1. g.nodes = Nodes /\ g.dependencies = Dependencies BY DEF TheGraph
  <1>2. TopNodes(g) = Roots /\ Roots \in T BY TopNodesAreRoots DEF Roots
  <1>3. \A S : Below(g, S) \subseteq Nodes
    <2> TAKE S
    <2>1. \A n \in Below(g, S) : \E m \in S : <<m, n>> \in edges BY BelowFollowsEdges
    <2>2. \A m, n : <<m, n>> \in edges => n \in Nodes BY GraphAssumption
    <2>3. QED BY <2>1, <2>2
  <1>4. \A S \in T : grown(S) \in T BY <1>3
  <1> HIDE DEF g, grown
  <1>5. step \in [Nat \X T -> T] BY <1>4
  <1>6. PICK h \in [Nat -> T] : FollowsChain(h, Nat, rank, before, Roots, step)
    <2>1. rank \in [Nat -> Nat] /\ before \in [Nat -> Nat] OBVIOUS
    <2>2. \A k \in Nat : rank[k] # 0 => rank[before[k]] < rank[k] OBVIOUS
    <2> HIDE DEF rank, before, step, T
    <2>3. QED BY <2>1, <2>2, <1>2, <1>5, ChainRecursion
  <1>7. h = Fold(h)
    <2>1. ASSUME NEW k \in Nat, k # 0
          PROVE  h[k] = h[k - 1] \cup (Below(g, h[k - 1]) \ g.dependencies)
      <3>1. h[k] = step[<<k, h[k - 1]>>] BY <2>1, <1>6 DEF FollowsChain
      <3>2. k - 1 \in Nat /\ h[k - 1] \in T BY <2>1
      <3>3. step[<<k, h[k - 1]>>] = grown(h[k - 1]) BY <3>2
      <3>4. QED BY <3>1, <3>3 DEF grown
    <2>2. h[0] = TopNodes(g) BY <1>2, <1>6 DEF FollowsChain
    <2>3. QED BY <2>1, <2>2
  <1>8. f = Fold(f)
    <2> HIDE DEF Fold
    <2> QED BY <1>7
  <1>9. Owners(TheGraph) = f[Cardinality(Nodes)] BY <1>1 DEF Owners, g
  <1> HIDE DEF f
  <1>10. f[0] = Roots BY <1>2, <1>8
  <1>11. \A k \in Nat : f[k + 1] = grown(f[k])
    <2> TAKE k \in Nat
    <2>1. k + 1 \in Nat /\ k + 1 # 0 /\ (k + 1) - 1 = k OBVIOUS
    <2>2. f[k + 1] = f[k] \cup (Below(g, f[k]) \ g.dependencies) BY <2>1, <1>8
    <2>3. QED BY <2>2 DEF grown
  <1>12. \A k \in Nat : f[k] \in T
    <2> DEFINE A == {k \in Nat : f[k] \in T}
    <2>1. 0 \in A BY <1>2, <1>10
    <2>2. \A k \in Nat : k \in A => k + 1 \in A BY <1>4, <1>11
    <2>3. Nat \subseteq A
      <3> HIDE DEF A
      <3> QED BY <2>1, <2>2, NatSetInduction
    <2>4. QED BY <2>3
  <1>13. \A k \in Nat, n \in Nodes :
            n \in f[k + 1] <=> n \in f[k] \/ (n \notin Dependencies /\ \E m \in f[k] : <<m, n>> \in edges)
    <2> TAKE k \in Nat, n \in Nodes
    <2>1. f[k + 1] = f[k] \cup (Below(g, f[k]) \ Dependencies) BY <1>1, <1>11 DEF grown
    <2>2. n \in Below(g, f[k]) <=> \E m \in f[k] : <<m, n>> \in edges BY BelowFollowsEdges DEF g
    <2>3. QED BY <2>1, <2>2
  <1>14. QED BY <1>9, <1>10, <1>12, <1>13 DEF Rounds

(* s is a way from a root to n through structural nodes. *)
OwnedWay(s, n) ==
    /\ s \in Seq(Nodes) /\ Len(s) >= 1 /\ IsInjective(s) /\ Follows(s)
    /\ s[1] \in Roots /\ s[Len(s)] = n
    /\ \A i \in 2 .. Len(s) : s[i] \notin Dependencies

(* Each owner is at the end of one. *)
LEMMA OwnersHaveWays ==
    ASSUME NEW f, Rounds(f), NEW k \in Nat, NEW n \in f[k]
    PROVE  \E s : OwnedWay(s, n) /\ Range(s) \subseteq f[k]
  <1> DEFINE A == {j \in Nat : \A m \in f[j] : \E s : OwnedWay(s, m) /\ Range(s) \subseteq f[j]}
  <1>1. 0 \in A
    <2> SUFFICES ASSUME NEW m \in f[0] PROVE \E s : OwnedWay(s, m) /\ Range(s) \subseteq f[0]
      OBVIOUS
    <2> DEFINE s == <<m>>
    <2>1. m \in Roots /\ m \in Nodes BY DEF Rounds, Roots
    <2>2. s \in Seq(Nodes) /\ Len(s) = 1 /\ s[1] = m /\ DOMAIN s = 1 .. 1 BY <2>1
    <2> HIDE DEF s
    <2>3. IsInjective(s) /\ Follows(s) /\ Range(s) = {m} BY <2>2 DEF IsInjective, Follows, Range
    <2>4. \A i \in 2 .. Len(s) : FALSE BY <2>2
    <2>5. QED BY <2>1, <2>2, <2>3, <2>4 DEF OwnedWay
  <1>2. ASSUME NEW j \in Nat, j \in A PROVE j + 1 \in A
    <2> SUFFICES ASSUME NEW m \in f[j + 1]
                 PROVE  \E s : OwnedWay(s, m) /\ Range(s) \subseteq f[j + 1]
      OBVIOUS
    <2>1. f[j] \subseteq f[j + 1] /\ m \in Nodes BY DEF Rounds
    <2>2. CASE m \in f[j]
      <3>1. PICK s : OwnedWay(s, m) /\ Range(s) \subseteq f[j] BY <2>2, <1>2
      <3>2. QED BY <3>1, <2>1
    <2>3. CASE m \notin f[j]
      <3>1. m \notin Dependencies /\ \E l \in f[j] : <<l, m>> \in edges BY <2>1, <2>3 DEF Rounds
      <3>2. PICK l \in f[j] : <<l, m>> \in edges BY <3>1
      <3>3. PICK s : OwnedWay(s, l) /\ Range(s) \subseteq f[j] BY <1>2, <3>2
      <3> DEFINE d == Len(s)
                 u == Append(s, m)
      <3>4. /\ s \in Seq(Nodes) /\ d \in Nat /\ d >= 1 /\ IsInjective(s) /\ Follows(s)
            /\ s[1] \in Roots /\ s[d] = l /\ \A i \in 2 .. d : s[i] \notin Dependencies
        BY <3>3 DEF OwnedWay
      <3>5. m \in Outgoing(s[d]) BY <3>2, <3>4, <2>1 DEF Outgoing
      <3>6. /\ u \in Seq(Nodes) /\ Len(u) = d + 1 /\ (\A i \in 1 .. d : u[i] = s[i]) /\ u[d + 1] = m
            /\ Follows(u) /\ IsInjective(u)
        <4>1. m \notin Range(s) /\ Len(s) > 0 BY <3>3, <3>4, <2>3
        <4>2. m \in Outgoing(s[Len(s)]) BY <3>5
        <4>3. QED BY <4>1, <4>2, <3>4, <2>1, LongerStack
      <3>7. Range(u) = Range(s) \cup {m} BY <3>4, <2>1, RangeOfAppend
      <3> HIDE DEF d, u
      <3>8. u[1] \in Roots
        <4>1. 1 \in 1 .. d BY <3>4
        <4>2. QED BY <4>1, <3>4, <3>6
      <3>9. \A i \in 2 .. d + 1 : u[i] \notin Dependencies
        <4> TAKE i \in 2 .. d + 1
        <4>1. CASE i = d + 1 BY <4>1, <3>1, <3>6
        <4>2. CASE i # d + 1
          <5>1. i \in 2 .. d /\ i \in 1 .. d BY <4>2, <3>4
          <5>2. QED BY <5>1, <3>4, <3>6
        <4>3. QED BY <4>1, <4>2
      <3>10. OwnedWay(u, m) BY <3>4, <3>6, <3>8, <3>9 DEF OwnedWay
      <3>11. Range(u) \subseteq f[j + 1] BY <3>3, <3>7, <2>1
      <3>12. QED BY <3>10, <3>11
    <2>4. QED BY <2>2, <2>3
  <1>3. Nat \subseteq A
    <2> HIDE DEF A
    <2> QED BY <1>1, <1>2, NatSetInduction
  <1>4. QED BY <1>3

(* The dependencies strictly between the ends of a path. *)
Hops(q) == {i \in 2 .. Len(q) - 1 : q[i] \in Dependencies}

(* A route without hops ends below an owner, and the target has such a route when
   it is below an owner. *)
LEMMA DirectRoutes ==
    ASSUME edges \in SUBSET Links, Explored, parents = {}, RelevantRoots # {},
           target \in Dependencies, target \notin Roots
    PROVE  target \in Below(TheGraph, Owners(TheGraph)) <=> \E q : IsRoute(q) /\ Hops(q) = {}
  <1> DEFINE size == Cardinality(Nodes)
  <1>n. size \in Nat BY GraphAssumption, FS_CardinalityType
  <1>1. PICK f : Rounds(f) /\ Owners(TheGraph) = f[size] BY OwnersInRounds
  <1> HIDE DEF size
  <1>2. /\ f[0] = Roots
        /\ \A k \in Nat : f[k] \in SUBSET Nodes
        /\ \A k \in Nat, n \in Nodes :
              n \in f[k + 1] <=> n \in f[k] \/ (n \notin Dependencies /\ \E m \in f[k] : <<m, n>> \in edges)
    BY <1>1 DEF Rounds
  <1>3. Starts \subseteq Roots /\ \A n \in relevant : n \in Roots => n \in Starts
    <2>1. Starts = RelevantRoots BY DEF Starts
    <2>2. \A n \in relevant : Incoming(n) \subseteq relevant BY DEF Explored
    <2>3. RelevantRoots \subseteq Roots BY <2>2 DEF RelevantRoots, Roots, Explored
    <2>4. QED BY <2>1, <2>3, StartsAreRoots
  <1>4. target \in Nodes BY DEF Explored
  <1>5. ASSUME target \in Below(TheGraph, Owners(TheGraph))
        PROVE  \E q : IsRoute(q) /\ Hops(q) = {}
    <2>1. PICK n \in f[size] : <<n, target>> \in edges BY <1>1, <1>5, BelowFollowsEdges
    <2>2. PICK s : OwnedWay(s, n) BY <2>1, <1>1, <1>n, OwnersHaveWays
    <2> DEFINE d == Len(s)
               u == Append(s, target)
    <2>3. /\ s \in Seq(Nodes) /\ d \in Nat /\ d >= 1 /\ DOMAIN s = 1 .. d /\ IsInjective(s) /\ Follows(s)
          /\ s[1] \in Roots /\ s[d] = n /\ \A i \in 2 .. d : s[i] \notin Dependencies
      BY <2>2 DEF OwnedWay
    <2>4. target \in Outgoing(s[d]) BY <2>1, <2>3, <1>4 DEF Outgoing
    <2>5. target \notin Range(s)
      <3> SUFFICES ASSUME NEW i \in 1 .. d, s[i] = target PROVE FALSE
        BY <2>3 DEF Range
      <3>1. i # 1 BY <2>3
      <3>2. i \in 2 .. d BY <3>1, <2>3
      <3>3. QED BY <3>2, <2>3
    <2>6. /\ u \in Seq(Nodes) /\ Len(u) = d + 1 /\ (\A i \in 1 .. d : u[i] = s[i]) /\ u[d + 1] = target
          /\ Follows(u) /\ IsInjective(u)
      <3>1. Len(s) > 0 /\ target \in Outgoing(s[Len(s)]) BY <2>3, <2>4
      <3>2. QED BY <3>1, <2>3, <2>5, <1>4, LongerStack
    <2> HIDE DEF d, u
    <2>7. Len(u) >= 1 /\ Len(u) - 1 = d /\ 1 \in 1 .. d /\ DOMAIN u = 1 .. d + 1 BY <2>3, <2>6
    <2>8. Range(u) \subseteq relevant BY <2>6, <2>7, WaysAreRelevant
    <2>9. u[1] \in relevant /\ u[1] \in Roots
      <3>1. 1 \in 1 .. d + 1 BY <2>3
      <3>2. QED BY <3>1, <2>3, <2>6, <2>7, <2>8 DEF Range
    <2>10. \A i, j \in 1 .. Len(u) - 1 : u[i] = u[j] => i = j
      <3>1. \A i \in 1 .. d : i \in 1 .. d + 1 BY <2>3
      <3>2. QED BY <3>1, <2>6, <2>7 DEF IsInjective
    <2>11. IsRoute(u) BY <2>6, <2>7, <2>9, <2>10, <1>3 DEF IsRoute
    <2>12. Hops(u) = {}
      <3>1. \A i \in 2 .. d : i \in 1 .. d BY <2>3
      <3>2. \A i \in 2 .. d : u[i] \notin Dependencies BY <3>1, <2>3, <2>6
      <3>3. QED BY <3>2, <2>7 DEF Hops
    <2>13. QED BY <2>11, <2>12
  <1>6. ASSUME NEW q, IsRoute(q), Hops(q) = {}
        PROVE  target \in Below(TheGraph, Owners(TheGraph))
    <2> DEFINE d == Len(q) - 1
    <2>1. /\ q \in Seq(Nodes) /\ Len(q) \in Nat /\ Len(q) >= 1 /\ q[Len(q)] = target /\ q[1] \in Starts
          /\ (\A i, j \in 1 .. d : q[i] = q[j] => i = j)
          /\ \A i \in 1 .. d : <<q[i], q[i + 1]>> \in edges
      BY <1>6 DEF IsRoute, Follows
    <2>2. Len(q) # 1 BY <2>1, <1>3
    <2>3. d \in Nat /\ d >= 1 /\ d + 1 = Len(q)
      <3> DEFINE m == Len(q)
      <3>1. m \in Nat /\ m >= 1 /\ m # 1 BY <2>1, <2>2
      <3>2. d = m - 1 OBVIOUS
      <3> HIDE DEF m, d
      <3>3. d \in Nat /\ d >= 1 /\ d + 1 = m BY <3>1, <3>2
      <3>4. QED BY <3>3 DEF m
    <2>4. \A i \in 1 .. d : q[i] \in Nodes BY <2>1
    <2>5. \A i \in 2 .. d : q[i] \notin Dependencies BY <1>6 DEF Hops
    <2> HIDE DEF d
    <2>6. d <= size
      <3> DEFINE t == [i \in 1 .. d |-> q[i]]
      <3>1. t \in Injection(1 .. d, Nodes)
        <4>1. t \in [1 .. d -> Nodes] BY <2>4
        <4>2. IsInjective(t) BY <2>1 DEF IsInjective
        <4> HIDE DEF t
        <4>3. QED BY <4>1, <4>2 DEF Injection
      <3>2. IsFiniteSet(1 .. d) /\ Cardinality(1 .. d) = d BY <2>3, FS_Interval
      <3> HIDE DEF t
      <3>3. Cardinality(1 .. d) <= Cardinality(Nodes) BY <3>1, GraphAssumption, FS_Injection
      <3>4. QED BY <3>2, <3>3 DEF size
    <2>7. \A k \in Nat : k + 1 <= d => q[k + 1] \in f[k]
      <3> DEFINE A == {k \in Nat : k + 1 <= d => q[k + 1] \in f[k]}
      <3>1. 0 \in A BY <2>1, <1>2, <1>3
      <3>2. ASSUME NEW k \in Nat, k \in A PROVE k + 1 \in A
        <4> SUFFICES ASSUME (k + 1) + 1 <= d PROVE q[(k + 1) + 1] \in f[k + 1]
          OBVIOUS
        <4>1. k + 1 \in 1 .. d /\ (k + 1) + 1 \in 1 .. d /\ (k + 1) + 1 \in 2 .. d /\ k + 1 <= d
          BY <2>3
        <4>2. q[k + 1] \in f[k] BY <4>1, <3>2
        <4>3. <<q[k + 1], q[(k + 1) + 1]>> \in edges BY <4>1, <2>1
        <4>4. q[(k + 1) + 1] \in Nodes /\ q[(k + 1) + 1] \notin Dependencies BY <4>1, <2>4, <2>5
        <4>5. QED BY <4>2, <4>3, <4>4, <1>2
      <3>3. Nat \subseteq A
        <4> HIDE DEF A
        <4> QED BY <3>1, <3>2, NatSetInduction
      <3>4. QED BY <3>3
    <2>8. \A k \in Nat : d - 1 <= k => q[d] \in f[k]
      <3> DEFINE A == {k \in Nat : d - 1 <= k => q[d] \in f[k]}
      <3>0. d - 1 \in Nat /\ (d - 1) + 1 = d /\ d \in 1 .. d BY <2>3
      <3>1. q[d] \in f[d - 1]
        <4>1. q[(d - 1) + 1] \in f[d - 1] BY <3>0, <2>3, <2>7
        <4>2. QED BY <4>1, <3>0
      <3>2. 0 \in A
        <4>1. d - 1 <= 0 => d - 1 = 0 BY <3>0
        <4>2. QED BY <4>1, <3>1
      <3>3. ASSUME NEW k \in Nat, k \in A PROVE k + 1 \in A
        <4> SUFFICES ASSUME d - 1 <= k + 1 PROVE q[d] \in f[k + 1]
          OBVIOUS
        <4>1. CASE d - 1 = k + 1 BY <4>1, <3>1
        <4>2. CASE d - 1 # k + 1
          <5>1. d - 1 <= k BY <4>2, <3>0
          <5>2. q[d] \in f[k] /\ q[d] \in Nodes BY <5>1, <3>0, <3>3, <2>4
          <5>3. QED BY <5>2, <1>2
        <4>3. QED BY <4>1, <4>2
      <3>4. Nat \subseteq A
        <4> HIDE DEF A
        <4> QED BY <3>2, <3>3, NatSetInduction
      <3>5. QED BY <3>4
    <2>9. q[d] \in f[size]
      <3>1. d - 1 <= size BY <2>3, <2>6, <1>n
      <3>2. QED BY <3>1, <2>8, <1>n
    <2>10. <<q[d], target>> \in edges
      <3>1. d \in 1 .. d BY <2>3
      <3>2. <<q[d], q[d + 1]>> \in edges BY <3>1, <2>1
      <3>3. QED BY <3>2, <2>1, <2>3
    <2>11. QED BY <2>9, <2>10, <1>1, BelowFollowsEdges
  <1>7. QED BY <1>5, <1>6

(* What a path says of the target: what the target states, or else direct
   exactly when there is no hop on the way. *)
LEMMA HopsDecide ==
    ASSUME NEW q \in Seq(Nodes)
    PROVE  /\ stated # "" => RelationshipForPath(q) = stated
           /\ stated = "" /\ Hops(q) = {} => RelationshipForPath(q) = "direct"
           /\ stated = "" /\ Hops(q) # {} => RelationshipForPath(q) = "transitive"
  <1> DEFINE h == Cardinality(Hops(q))
  <1>1. RelationshipForPath(q) = RelationshipForDepth(stated, 1 + h)
    BY DEF RelationshipForPath, Hops
  <1>2. h \in Nat /\ (h = 0 <=> Hops(q) = {})
    <2> DEFINE n == Len(q) - 1
    <2>1. n \in Int OBVIOUS
    <2>2. Hops(q) \subseteq 2 .. n BY DEF Hops
    <2> HIDE DEF n
    <2>3. IsFiniteSet(2 .. n) BY <2>1, FS_Interval
    <2>4. IsFiniteSet(Hops(q)) BY <2>2, <2>3, FS_Subset
    <2>5. QED BY <2>4, FS_CardinalityType, FS_EmptySet
  <1> HIDE DEF h
  <1>3. stated # "" => RelationshipForDepth(stated, 1 + h) = stated BY Zenon DEF RelationshipForDepth
  <1>4. stated = "" /\ 1 + h = 1 => RelationshipForDepth(stated, 1 + h) = "direct"
    BY Zenon DEF RelationshipForDepth
  <1>5. stated = "" /\ 1 + h # 1 /\ 1 + h > 1 => RelationshipForDepth(stated, 1 + h) = "transitive"
    BY Zenon DEF RelationshipForDepth
  <1>6. Hops(q) = {} => 1 + h = 1 BY <1>2
  <1>7. Hops(q) # {} => 1 + h # 1 /\ 1 + h > 1 BY <1>2
  <1>8. QED BY Zenon, <1>1, <1>3, <1>4, <1>5, <1>6, <1>7

(* The strength of a relationship. *)
LEMMA RankIsNatural ==
    /\ \A r : Rank(r) \in Nat
    /\ Rank("") = 0 /\ Rank("unknown") = 1 /\ Rank("transitive") = 2 /\ Rank("direct") = 3
  BY DEF Rank

(* What the path at i says of the target. *)
Said(i) == RelationshipForPath(paths[i].nodes)

(* Before any path there is nothing to say. *)
Unsaid == ""

(* The fold over the paths ends with something one of them says, and none of
   them says anything stronger. *)
LEMMA StrongestIsSaid ==
    ASSUME paths \in Seq(PathRecords), Len(paths) >= 1,
           \A i \in DOMAIN paths : Rank(Said(i)) >= 1
    PROVE  \E i \in DOMAIN paths :
              /\ StrongestForPaths = Said(i)
              /\ \A j \in DOMAIN paths : Rank(Said(j)) <= Rank(Said(i))
  <1> DEFINE n == Len(paths)
             T == {Unsaid} \cup {Said(i) : i \in 1 .. n}
             merge(r, i) == MergedAlong(r, paths[i])
             step == [p \in (1 .. n) \X T |-> merge(p[2], p[1])]
             Fold(g) == [s \in SUBSET (1 .. n) |->
                           IF s = {} THEN "" ELSE merge(g[s \ {Max(s)}], Max(s))]
             f == CHOOSE g : g = Fold(g)
             Holds(k, t) ==
                /\ k = 0 => t = Unsaid
                /\ k >= 1 => \E i \in 1 .. k : t = Said(i)
                /\ \A i \in 1 .. k : Rank(Said(i)) <= Rank(t)
             Along == {p \in Nat \X T : Holds(p[1], p[2])}
  <1>n. n \in Nat /\ n >= 1 /\ DOMAIN paths = 1 .. n OBVIOUS
  <1>m. \A r, i : merge(r, i) = IF Rank(Said(i)) > Rank(r) THEN Said(i) ELSE r
    BY DEF MergedAlong, MergeDependencyRelationship, Said
  <1>t. \A i \in 1 .. n, t \in T : merge(t, i) \in T
    <2> TAKE i \in 1 .. n, t \in T
    <2>1. merge(t, i) = Said(i) \/ merge(t, i) = t BY <1>m
    <2>2. Said(i) \in T OBVIOUS
    <2> HIDE DEF T, merge, n
    <2>3. QED BY <2>1, <2>2
  <1>5. StrongestForPaths = f[1 .. n]
    BY <1>n DEF StrongestForPaths, FoldLeft, MapThenFoldSet
  <1> HIDE DEF n, merge
  <1>e. Unsaid = "" BY DEF Unsaid
  <1>1. step \in [(1 .. n) \X T -> T] BY <1>t
  <1>u. Unsaid \in T OBVIOUS
  <1>2. PICK g \in [SUBSET (1 .. n) -> T] : IsFold(g, n, Unsaid, step)
    <2> HIDE DEF step, T
    <2> QED BY <1>n, <1>1, <1>u, FoldFunctionExists
  <1>3. g = Fold(g)
    <2>1. ASSUME NEW s \in SUBSET (1 .. n), s # {}
          PROVE  g[s] = merge(g[s \ {Max(s)}], Max(s))
      <3>1. Max(s) \in 1 .. n BY <2>1, <1>n, MaxUpTo
      <3>2. g[s \ {Max(s)}] \in T BY <1>2
      <3> HIDE DEF T
      <3>3. QED BY <3>1, <3>2, <1>2, <2>1 DEF IsFold
    <2>2. g[{}] = "" BY <1>2, <1>e DEF IsFold
    <2> HIDE DEF T
    <2>3. QED BY <2>1, <2>2, <1>2
  <1>4. f = Fold(f)
    <2> HIDE DEF Fold
    <2> QED BY <1>3
  <1> HIDE DEF f
  <1>6. f[{}] = Unsaid BY <1>4, <1>e
  <1>7. \A k \in 1 .. n : f[1 .. k] = merge(f[1 .. k - 1], k)
    <2> TAKE k \in 1 .. n
    <2>1. /\ 1 .. k \in SUBSET (1 .. n) /\ 1 .. k # {} /\ Max(1 .. k) = k
          /\ (1 .. k) \ {k} = 1 .. k - 1
      BY <1>n, FirstIndices
    <2>2. QED BY <2>1, <1>4
  <1>8. \A k \in 1 .. n : f[1 .. k] = IF f[1 .. k - 1] \in T THEN step[<<k, f[1 .. k - 1]>>]
                                      ELSE f[1 .. k]
    <2> HIDE DEF T
    <2> QED BY <1>7
  <1>9. \A k \in 1 .. n, t \in T : <<k - 1, t>> \in Along => <<k, step[<<k, t>>]>> \in Along
    <2> TAKE k \in 1 .. n, t \in T
    <2> HAVE <<k - 1, t>> \in Along
    <2>1. Holds(k - 1, t) OBVIOUS
    <2>2. step[<<k, t>>] = merge(t, k) /\ merge(t, k) \in T BY <1>t
    <2> DEFINE u == merge(t, k)
    <2>3. u = (IF Rank(Said(k)) > Rank(t) THEN Said(k) ELSE t) BY <1>m
    <2>4. Rank(Said(k)) >= 1 BY <1>n
    <2>5. Rank(Unsaid) = 0 /\ \A r : Rank(r) \in Nat BY RankIsNatural DEF Unsaid
    <2>6. \A i \in 1 .. k : i = k \/ i \in 1 .. k - 1 BY <1>n
    <2> HIDE DEF u
    <2>7. k # 0 /\ k >= 1 /\ k \in Nat BY <1>n
    <2>8. Rank(Said(k)) <= Rank(u) /\ Rank(t) <= Rank(u) BY <2>3, <2>5
    <2>9. \A i \in 1 .. k : Rank(Said(i)) <= Rank(u)
      <3> TAKE i \in 1 .. k
      <3>1. CASE i = k BY <3>1, <2>8
      <3>2. CASE i # k
        <4>1. Rank(Said(i)) <= Rank(t) BY <3>2, <2>1, <2>6
        <4>2. QED BY <4>1, <2>5, <2>8
      <3>3. QED BY <3>1, <3>2
    <2>10. \E i \in 1 .. k : u = Said(i)
      <3>1. CASE u = Said(k) BY <3>1, <2>7
      <3>2. CASE u # Said(k)
        <4>1. u = t /\ Rank(t) >= 1 BY <3>2, <2>3, <2>4, <2>5
        <4>2. k - 1 # 0 BY <4>1, <2>1, <2>5
        <4>3. k - 1 >= 1 BY <4>2, <2>7
        <4>4. PICK i \in 1 .. k - 1 : t = Said(i) BY <4>3, <2>1
        <4>5. i \in 1 .. k BY <2>7
        <4>6. QED BY <4>1, <4>4, <4>5
      <3>3. QED BY <3>1, <3>2
    <2>11. Holds(k, u) BY <2>7, <2>9, <2>10
    <2>12. k \in Nat /\ u \in T BY <2>2, <2>7 DEF u
    <2> HIDE DEF Holds, T
    <2>13. <<k, u>> \in Along BY <2>11, <2>12
    <2>14. QED BY <2>2, <2>13 DEF u
  <1>10. <<0, Unsaid>> \in Along
    <2>1. Holds(0, Unsaid) OBVIOUS
    <2> HIDE DEF Holds
    <2>2. QED BY <2>1, <1>u
  <1>11. f[1 .. n] \in T /\ <<n, f[1 .. n]>> \in Along
    <2> HIDE DEF step, T, Along
    <2> QED BY <1>n, <1>1, <1>6, <1>8, <1>9, <1>10, <1>u, FoldInduction
  <1>12. Holds(n, StrongestForPaths)
    <2> HIDE DEF Holds
    <2> QED BY <1>11, <1>5 DEF f
  <1>13. QED BY <1>12, <1>n

(* The relationship the paths give a dependency below a root, at its strongest,
   is the one the whole graph gives it. *)
LEMMA ReturnedRelationshipsAgree ==
    ASSUME PathsInv, walking = "returned", target \in Dependencies \ Roots, RelevantRoots # {}
    PROVE  StrongestForPaths = GraphRelationship(TheGraph, target, stated)
  <1> DEFINE n == Len(paths)
             q(i) == paths[i].nodes
             direct == target \in Below(TheGraph, Owners(TheGraph))
             depth == IF ~HasUsableEdges(TheGraph) \/ target \in TopNodes(TheGraph) THEN 0
                      ELSE IF direct THEN 1 ELSE 2
  <1>1. /\ edges \in SUBSET Links /\ Explored /\ parents = {} /\ paths \in Seq(PathRecords)
        /\ stated \in Relationships
        /\ paths # << >> /\ Range(paths) = AllPaths
    BY DEF PathsInv, PathsAreExact
  <1>n. n \in Nat /\ n >= 1 /\ DOMAIN paths = 1 .. n
    <2>1. n \in Nat /\ n # 0 /\ DOMAIN paths = 1 .. n BY <1>1
    <2> HIDE DEF n
    <2>2. QED BY <2>1
  <1>2. \A i \in 1 .. n : q(i) \in Seq(Nodes) /\ IsRoute(q(i))
    <2> TAKE i \in 1 .. n
    <2>1. paths[i] \in PathRecords BY <1>1
    <2>2. paths[i] \in AllPaths BY <1>1, <1>n DEF Range
    <2>3. PICK r : IsRoute(r) /\ paths[i] = AsPath(r) BY <2>2, <1>1, AllPathsAreRoutes
    <2>4. paths[i].nodes = r BY <2>3 DEF AsPath, Path
    <2>5. QED BY <2>1, <2>3, <2>4 DEF PathRecords
  <1>3. \A r : IsRoute(r) => \E i \in 1 .. n : q(i) = r
    <2> TAKE r
    <2> HAVE IsRoute(r)
    <2>1. AsPath(r) \in AllPaths BY <1>1, AllPathsAreRoutes
    <2>2. PICK i \in 1 .. n : paths[i] = AsPath(r) BY <2>1, <1>1, <1>n DEF Range
    <2>3. paths[i].nodes = r BY <2>2 DEF AsPath, Path
    <2>4. QED BY <2>3
  <1>4. direct <=> \E i \in 1 .. n : Hops(q(i)) = {}
    <2>1. direct <=> \E r : IsRoute(r) /\ Hops(r) = {} BY <1>1, DirectRoutes
    <2> HIDE DEF direct, n, q
    <2>2. QED BY <2>1, <1>2, <1>3
  <1>5. HasUsableEdges(TheGraph) /\ target \notin TopNodes(TheGraph)
    <2>1. TopNodes(TheGraph) = Roots /\ TheGraph.nodes = Nodes BY <1>1, TopNodesAreRoots DEF TheGraph
    <2>2. \A m \in relevant : Incoming(m) \subseteq relevant BY <1>1 DEF Explored
    <2>3. RelevantRoots \subseteq Roots BY <2>2, <1>1 DEF RelevantRoots, Roots, Explored
    <2>4. target \in Nodes BY <1>1 DEF Explored
    <2>5. QED BY <2>1, <2>3, <2>4 DEF HasUsableEdges
  <1>6. /\ direct => depth = 1
        /\ ~direct => depth = 2
    BY <1>5
  <1>7. GraphRelationship(TheGraph, target, stated) = RelationshipForDepth(stated, depth)
    BY DEF GraphRelationship
  <1>8. \A i \in 1 .. n :
           /\ stated # "" => Said(i) = stated
           /\ stated = "" /\ Hops(q(i)) = {} => Said(i) = "direct"
           /\ stated = "" /\ Hops(q(i)) # {} => Said(i) = "transitive"
    BY <1>2, HopsDecide DEF Said
  <1>9. stated \in {"", "direct", "transitive", "unknown"} BY <1>1, RelationshipAssumption
  <1> HIDE DEF q, direct, depth
  <1>10. \A i \in 1 .. n : Said(i) \in {"direct", "transitive", "unknown"}
    BY Zenon, <1>8, <1>9
  <1>11. \A i \in 1 .. n : Rank(Said(i)) >= 1
    <2>1. 3 >= 1 /\ 2 >= 1 /\ 1 >= 1 OBVIOUS
    <2>2. Rank("direct") >= 1 /\ Rank("transitive") >= 1 /\ Rank("unknown") >= 1
      BY Zenon, <2>1, RankIsNatural
    <2>3. QED BY Zenon, <2>2, <1>10
  <1>12. PICK i \in 1 .. n : /\ StrongestForPaths = Said(i)
                             /\ \A j \in 1 .. n : Rank(Said(j)) <= Rank(Said(i))
    <2>1. \E i \in DOMAIN paths : /\ StrongestForPaths = Said(i)
                                  /\ \A j \in DOMAIN paths : Rank(Said(j)) <= Rank(Said(i))
      BY <1>1, <1>n, <1>11, StrongestIsSaid
    <2>2. QED BY <2>1, <1>n
  <1>13. CASE stated # ""
    <2>1. RelationshipForDepth(stated, depth) = stated BY Zenon, <1>13 DEF RelationshipForDepth
    <2>2. QED BY Zenon, <2>1, <1>7, <1>8, <1>12, <1>13
  <1>14. CASE stated = "" /\ direct
    <2>1. RelationshipForDepth(stated, depth) = "direct"
      BY Zenon, <1>14, <1>6 DEF RelationshipForDepth
    <2>2. PICK j \in 1 .. n : Hops(q(j)) = {} BY Zenon, <1>4, <1>14
    <2>3. Said(j) = "direct" BY Zenon, <2>2, <1>8, <1>14
    <2>4. Rank(Said(j)) <= Rank(Said(i)) BY <1>12
    <2>5. Said(i) # "transitive"
      <3>1. Rank("direct") = 3 /\ Rank("transitive") = 2 BY RankIsNatural
      <3>2. QED BY <2>3, <2>4, <3>1
    <2>6. Said(i) = "direct" BY Zenon, <2>5, <1>8, <1>14
    <2>7. QED BY Zenon, <2>1, <2>6, <1>7, <1>12
  <1>15. CASE stated = "" /\ ~direct
    <2>0. 2 # 1 /\ 2 > 1 OBVIOUS
    <2>1. RelationshipForDepth(stated, depth) = "transitive"
      BY Zenon, <1>15, <1>6, <2>0 DEF RelationshipForDepth
    <2>2. Hops(q(i)) # {} BY Zenon, <1>4, <1>12, <1>15
    <2>3. Said(i) = "transitive" BY Zenon, <2>2, <1>8, <1>12, <1>15
    <2>4. QED BY Zenon, <2>1, <2>3, <1>7, <1>12
  <1>16. QED BY <1>13, <1>14, <1>15

(* For every dependency below a root, what its paths say of it and what the
   whole graph says of it are the same (model/relationship.go:42-44), on every
   graph. *)
THEOREM RelationshipsAlwaysAgree == Spec => []RelationshipsAgree
  <1>1. PathsInv => RelationshipsAgree
    BY ReturnedRelationshipsAgree DEF RelationshipsAgree
  <1>2. QED BY <1>1, PathsAlwaysSound, PTL

-----------------------------------------------------------------------------
(* The query that runs keeps its invariant, and the other two have not begun. *)
QueriesInv ==
    /\ SortIdle \/ SortInv
    /\ WalkIdle \/ WalkInv
    /\ PathsInv

(* Whichever query a caller asks starts in its invariant. *)
LEMMA QueriesInvAtFirst == Init => QueriesInv
  <1>1. edges \in SUBSET WalkLinks => edges \in SUBSET Links BY WalkAssumption
  <1>2. QED BY <1>1, InitSorted, InitWalk, PathsInvAtFirst DEF Init, QueriesInv

(* And every step of it leaves the others' alone. *)
LEMMA QueriesInvKept == QueriesInv /\ [Next]_vars => QueriesInv'
  <1> SUFFICES ASSUME QueriesInv, [Next]_vars PROVE QueriesInv'
    OBVIOUS
  <1>1. PathsInv' BY PathsStep DEF QueriesInv
  <1>2. SortIdle' \/ SortInv'
    <2>1. SortNext \/ UNCHANGED <<edges, sortVars>>
      BY DEF Next, vars, PathsNext, ReverseStep, Child, ReverseEnds, Start, Leave, PathsReturn,
             WalkNext, RootIsAbsent, SeedDirect, Visit, QueueIsEmpty, Default, input
    <2>2. CASE SortIdle
      <3>1. ~SortNext BY <2>2 DEF SortIdle, SortNext, Pop, SortReturns
      <3>2. QED BY <2>1, <2>2, <3>1 DEF SortIdle, sortVars
    <2>3. CASE SortInv BY <2>1, <2>3, SortStep DEF allVars
    <2>4. QED BY <2>2, <2>3 DEF QueriesInv
  <1>3. WalkIdle' \/ WalkInv'
    <2>1. WalkNext \/ UNCHANGED <<edges, walkVars>>
      BY DEF Next, vars, PathsNext, ReverseStep, Child, ReverseEnds, Start, Leave, PathsReturn,
             SortNext, Pop, SortReturns
    <2>2. CASE WalkIdle
      <3>1. ~WalkNext
        BY <2>2 DEF WalkIdle, WalkNext, RootIsAbsent, SeedDirect, Visit, QueueIsEmpty, Default
      <3>2. QED BY <2>1, <2>2, <3>1 DEF WalkIdle, walkVars
    <2>3. CASE WalkInv BY <2>1, <2>3, WalkStep
    <2>4. QED BY <2>2, <2>3 DEF QueriesInv
  <1>4. QED BY <1>1, <1>2, <1>3 DEF QueriesInv

(* Whatever is asked of any graph, the answer is right: the three queries as one
   caller sees them. *)
THEOREM QueriesAlwaysExact ==
    Spec => [](SortIsExact /\ PathsAreExact /\ RelationshipsAgree /\ RuntimeIsFounded /\ ScopesFollowPaths)
  <1>1. QueriesInv => SortIsExact
    <2>1. SortIdle => SortIsExact
      BY DEF SortIdle, SortIsExact, SortIsLeastOrder, SortedIsAcyclicPart
    <2>2. SortInv => SortIsExact
      BY SortEndsExact DEF SortInv, SortIsExact, SortedIsAcyclicPart
    <2>3. QED BY <2>1, <2>2 DEF QueriesInv
  <1>2. QueriesInv => PathsAreExact /\ RelationshipsAgree
    BY ReturnedRelationshipsAgree DEF QueriesInv, PathsInv, PathsAreExact, RelationshipsAgree
  <1>3. QueriesInv => RuntimeIsFounded /\ ScopesFollowPaths
    <2>1. WalkIdle => RuntimeIsFounded /\ ScopesFollowPaths
      BY DEF WalkIdle, RuntimeIsFounded, ScopesFollowPaths
    <2>2. WalkInv => RuntimeIsFounded BY WalkIsFounded
    <2>3. QED BY <2>1, <2>2 DEF QueriesInv, WalkInv
  <1>4. QED BY <1>1, <1>2, <1>3, QueriesInvAtFirst, QueriesInvKept, PTL DEF Spec
=============================================================================
