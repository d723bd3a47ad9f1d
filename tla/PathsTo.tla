------------------------------ MODULE PathsTo ------------------------------
(***************************************************************************)
(* Graph.CollectPathsTo (model/graph.go): every path from a root to one    *)
(* node, by a depth-first walk over the nodes that lead to it; and the two *)
(* ways a dependency's relationship is derived, from such a path           *)
(* (RelationshipForPath) and from the whole graph                          *)
(* (dependencyRelationshipsForGraph).                                      *)
(*                                                                         *)
(* The recursion is a stack of frames: a node, and the children still to   *)
(* be looked at.  The code's active set is the nodes of the stack.         *)
(***************************************************************************)
EXTENDS FixedGraph, Relationships, SequencesExt

CONSTANT Relationships   \* BOUND: what the target may state about itself

ASSUME RelationshipAssumption ==
    Relationships \subseteq {"", "direct", "transitive", "unknown"}

VARIABLES
    walking,    \* "idle", "reverse", "walk" or "returned"
    target,
    stated,     \* the relationship the target states, "" for none
    relevant,   \* the nodes from which the target is reached
    parents,    \* the nodes of relevant whose parents have not been taken
    starts,     \* the nodes still to walk from
    stack, children,
    paths

pathVars == <<walking, target, stated, relevant, parents, starts, stack, children, paths>>

(* In the order of the IDs: as many come before the i-th as are less than it. *)
ByID(S) == [i \in 1 .. Cardinality(S) |-> CHOOSE n \in S : Cardinality({m \in S : m < n}) = i - 1]

PathsIdle ==
    /\ walking = "idle"
    /\ target = 0
    /\ stated = ""
    /\ relevant = {} /\ parents = {}
    /\ starts = << >> /\ stack = << >> /\ children = << >> /\ paths = << >>

PathsInit ==
    /\ walking = "reverse"
    /\ target \in Nodes
    /\ stated \in IF target \in Dependencies THEN Relationships ELSE {""}
    /\ relevant = {target} /\ parents = {target}
    /\ starts = << >> /\ stack = << >> /\ children = << >> /\ paths = << >>

(* Bug: a parent that has been seen is taken again. *)
ParentsSeenOrNot(n) == Incoming(n)

UnseenParents(n) == Incoming(n) \ relevant

(* One turn of reverseReachable. *)
ReverseStep(n) ==
    /\ walking = "reverse"
    /\ n \in parents
    /\ relevant' = relevant \cup Incoming(n)
    /\ parents' = (parents \ {n}) \cup UnseenParents(n)
    /\ UNCHANGED <<walking, target, stated, starts, stack, children, paths, edges>>

RelevantRoots == {n \in relevant : Incoming(n) \cap relevant = {}}

(* The roots among them, or every one of them where a cycle is all there is. *)
Starts == IF RelevantRoots = {} THEN relevant ELSE RelevantRoots

ReverseEnds ==
    /\ walking = "reverse"
    /\ parents = {}
    /\ walking' = "walk"
    /\ starts' = ByID(Starts)
    /\ UNCHANGED <<target, stated, relevant, parents, stack, children, paths, edges>>

Active == Range(stack)

Path(nodes, cyclic) == [nodes |-> nodes, cyclic |-> cyclic]

(* The head of a call: its node goes on the stack, and is a path's end if it is
   the target. *)
Entered(n) ==
    /\ stack' = Append(stack, n)
    /\ paths' = IF n = target THEN Append(paths, Path(stack', FALSE)) ELSE paths

Start ==
    /\ walking = "walk"
    /\ stack = << >>
    /\ starts # << >>
    /\ Entered(Head(starts))
    /\ children' = <<ByID(Outgoing(Head(starts)))>>
    /\ starts' = Tail(starts)
    /\ UNCHANGED <<walking, target, stated, relevant, parents, edges>>

(* The frames when the running call has taken its next child. *)
ChildTaken == Front(children) \o <<Tail(Last(children))>>

Descends(c) == c \in relevant \ Active

(* Bug: a path that comes round to the target is not recorded. *)
ClosesNoCycle(c) == FALSE

ClosesCycle(c) == c \in relevant \cap Active /\ c = target

Child(c) ==
    /\ walking = "walk"
    /\ stack # << >>
    /\ Last(children) # << >>
    /\ c = Head(Last(children))
    /\ IF Descends(c)
       THEN /\ Entered(c)
            /\ children' = Append(ChildTaken, ByID(Outgoing(c)))
       ELSE /\ paths' = IF ClosesCycle(c) THEN Append(paths, Path(Append(stack, c), TRUE)) ELSE paths
            /\ children' = ChildTaken
            /\ UNCHANGED stack
    /\ UNCHANGED <<walking, target, stated, relevant, parents, starts, edges>>

(* The call returns, and its node is no longer active. *)
Leave ==
    /\ walking = "walk"
    /\ stack # << >>
    /\ Last(children) = << >>
    /\ stack' = Front(stack)
    /\ children' = Front(children)
    /\ UNCHANGED <<walking, target, stated, relevant, parents, starts, paths, edges>>

(* pathNodesKey, for IDs none of which begins another. *)
Precedes(p, q) ==
    \/ \E i \in DOMAIN p.nodes \cap DOMAIN q.nodes :
          /\ p.nodes[i] < q.nodes[i]
          /\ \A j \in 1 .. i - 1 : p.nodes[j] = q.nodes[j]
    \/ Len(p.nodes) < Len(q.nodes) /\ \A j \in DOMAIN p.nodes : p.nodes[j] = q.nodes[j]

Ahead(found, i, j) == Precedes(found[i], found[j]) \/ (found[i] = found[j] /\ i < j)

(* sort.Slice by that key: as many go ahead of the i-th as it comes after. *)
InPathOrder(found) ==
    [i \in DOMAIN found |->
        found[CHOOSE j \in DOMAIN found : Cardinality({k \in DOMAIN found : Ahead(found, k, j)}) = i - 1]]

PathsReturn ==
    /\ walking = "walk"
    /\ stack = << >>
    /\ starts = << >>
    /\ paths' = InPathOrder(paths)
    /\ walking' = "returned"
    /\ UNCHANGED <<target, stated, relevant, parents, starts, stack, children, edges>>

PathsNext ==
    \/ \E n \in Nodes : ReverseStep(n) \/ Child(n)
    \/ ReverseEnds \/ Start \/ Leave \/ PathsReturn
-----------------------------------------------------------------------------
(* Dependencies between the path's owner and its end are hops. *)
RelationshipForPath(path) ==
    RelationshipForDepth(stated, 1 + Cardinality({i \in 2 .. Len(path) - 1 : path[i] \in Dependencies}))

TheGraph == [nodes |-> Nodes, dependencies |-> Dependencies, edges |-> edges]
-----------------------------------------------------------------------------
(* Every sequence of distinct nodes. *)
Trails ==
    UNION {{s \in [1 .. k -> Nodes] : IsInjective(s)} : k \in 1 .. Cardinality(Nodes)}

Follows(s) == \A i \in 1 .. Len(s) - 1 : <<s[i], s[i + 1]>> \in edges

(* The paths there are: from a root, or from anywhere above the target when no
   root is above it, and round a cycle once if the target is on it. *)
Leading == {s \in Trails : Follows(s) /\ Last(s) = target}

Begins(s) == Head(s) \in Roots \/ \A t \in Leading : Head(t) \notin Roots

AllPaths ==
    {Path(s, FALSE) : s \in {t \in Leading : Begins(t)}}
      \cup {Path(Append(s, target), TRUE) :
              s \in {t \in Trails : /\ Follows(t)
                                    /\ target \in Range(t)
                                    /\ <<Last(t), target>> \in edges
                                    /\ \E u \in Leading : Head(u) = Head(t) /\ Begins(u)}}

(* The paths are returned each once and in the order of their IDs, whatever
   order the walk took, and they are all the paths there are, cyclic ones
   included; there is always one (graph.go:871-893). *)
PathsAreExact ==
    walking = "returned" =>
        /\ paths # << >>
        /\ Range(paths) = AllPaths
        /\ \A i, j \in DOMAIN paths : i < j => Precedes(paths[i], paths[j])

MergedAlong(r, path) == MergeDependencyRelationship(r, RelationshipForPath(path.nodes))

StrongestForPaths == FoldLeft(MergedAlong, "", paths)

(* For a dependency below a root, the strongest relationship its paths give it
   is the one derived from the whole graph (relationship.go:42-44).  A root, and
   a dependency only cycles lead to, has no owner to be related to: there the
   graph says unknown or transitive and the one-node path says direct. *)
RelationshipsAgree ==
    walking = "returned" /\ target \in Dependencies \ Roots /\ RelevantRoots # {} =>
        StrongestForPaths = GraphRelationship(TheGraph, target, stated)
=============================================================================
