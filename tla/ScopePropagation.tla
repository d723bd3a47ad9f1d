-------------------------- MODULE ScopePropagation --------------------------
(***************************************************************************)
(* detectorkit.PropagateScopes (detectorkit/nodes.go): the scopes of a     *)
(* root's direct dependencies spread through the graph, so that a package  *)
(* on a runtime path is runtime even when it is a development dependency   *)
(* as well; what is still unscoped afterwards defaults to runtime.         *)
(*                                                                         *)
(* The input is any graph, root and scopes: they are chosen once and stay. *)
(* A turn of the queue is one action.  Children are taken in the order of  *)
(* their IDs, which can be any order, so the order is any.                 *)
(* Scopes are the normalized ones; MergeScope is defined on nothing else.  *)
(***************************************************************************)
EXTENDS FixedGraph

CONSTANTS
    Carried,        \* BOUND: the scopes a dependency may come with
    RootIDs         \* the IDs a caller may pass, in the graph or not

ASSUME PropagationAssumption == Carried \subseteq SUBSET {"runtime", "development"}

ScopeUnknown     == ""
ScopeRuntime     == "runtime"
ScopeDevelopment == "development"
Scope == {ScopeUnknown, ScopeRuntime, ScopeDevelopment}

VARIABLES
    root,         \* the ID the caller passed
    seed,         \* what seed(dep) answers
    own,          \* per dependency: the scopes it came with
    scopes,       \* per dependency: the scopes it carries
    propagated,   \* per dependency: the scope propagated to it
    queue,
    pc            \* "idle", "seed", "walk", "default" or "done"

input     == <<root, edges, seed, own>>
walkVars  == <<root, seed, own, scopes, propagated, queue, pc>>

(* Runtime beats development, and both beat a gap. *)
MergeScope(current, next) ==
    IF next = ScopeUnknown THEN current
    ELSE IF current = ScopeUnknown THEN next
    ELSE IF current = ScopeRuntime \/ next = ScopeRuntime THEN ScopeRuntime
    ELSE ScopeDevelopment

(* MergeScope over the scopes of one node. *)
PrimaryScope(carried) ==
    IF ScopeRuntime \in carried THEN ScopeRuntime
    ELSE IF ScopeDevelopment \in carried THEN ScopeDevelopment
    ELSE ScopeUnknown

WithScope(carried, scope) ==
    IF scope = ScopeUnknown THEN carried ELSE carried \cup {scope}

(* DependencyNodesOf(g.DirectDependencies(n)), as a set. *)
DirectDependencies(n) == {d \in Dependencies : <<n, d>> \in edges}

(* Every way to line up the members of a set. *)
Listings(S) == {s \in [1 .. Cardinality(S) -> S] : \A x \in S : \E i \in DOMAIN s : s[i] = x}

WalkIdle ==
    /\ pc = "idle"
    /\ root = 0
    /\ seed = [d \in Dependencies |-> ScopeUnknown]
    /\ own = [d \in Dependencies |-> {}]
    /\ scopes = own
    /\ propagated = seed
    /\ queue = << >>

(* seed is asked of the root's direct dependencies only. *)
WalkInit ==
    /\ root \in RootIDs
    /\ seed \in [Dependencies -> Scope]
    /\ \A d \in Dependencies \ DirectDependencies(root) : seed[d] = ScopeUnknown
    /\ own \in [Dependencies -> Carried]
    /\ scopes = own
    /\ propagated = [d \in Dependencies |-> ScopeUnknown]
    /\ queue = << >>
    /\ pc = "seed"

(* A root that is not in the graph has nothing to propagate from: nothing is
   seeded and nothing defaults. *)
RootIsAbsent ==
    /\ pc = "seed"
    /\ root \notin Nodes
    /\ pc' = "done"
    /\ UNCHANGED <<input, scopes, propagated, queue>>

(* Where a direct dependency starts: runtime if its seed says nothing, merged
   with what it already carries. *)
SeedScope(d) ==
    MergeScope(IF seed[d] = ScopeUnknown THEN ScopeRuntime ELSE seed[d],
               PrimaryScope(scopes[d]))

SeedDirect ==
    /\ pc = "seed"
    /\ root \in Nodes
    /\ LET direct == DirectDependencies(root)
       IN /\ propagated' = [d \in Dependencies |->
                               IF d \in direct THEN SeedScope(d) ELSE propagated[d]]
          /\ scopes' = [d \in Dependencies |->
                           IF d \in direct THEN WithScope(scopes[d], SeedScope(d)) ELSE scopes[d]]
          /\ queue' \in Listings(direct)
    /\ pc' = "walk"
    /\ UNCHANGED input

(* Bug: only the parent's scope is passed on. *)
NextScopeOfParentOnly(d, scope) == MergeScope(propagated[d], scope)

(* What a visit from a parent with this scope makes of child d. *)
NextScope(d, scope) ==
    MergeScope(MergeScope(propagated[d], scope), PrimaryScope(scopes[d]))

(* The children whose propagated scope a visit to current changes. *)
Changed(current) ==
    {d \in DirectDependencies(current) \ {root} :
        NextScope(d, propagated[current]) # propagated[d]}

Remaining == Tail(queue)

(* One turn of the loop.  A node whose scope is unknown is passed over. *)
Visit ==
    /\ pc = "walk"
    /\ queue # << >>
    /\ LET current == Head(queue)
           changed == IF propagated[current] = ScopeUnknown THEN {} ELSE Changed(current)
           next(d) == NextScope(d, propagated[current])
       IN /\ propagated' = [d \in Dependencies |->
                               IF d \in changed THEN next(d) ELSE propagated[d]]
          /\ scopes' = [d \in Dependencies |->
                           IF d \in changed THEN WithScope(scopes[d], next(d)) ELSE scopes[d]]
          /\ \E order \in Listings(changed) : queue' = Remaining \o order
    /\ UNCHANGED <<input, pc>>

QueueIsEmpty ==
    /\ pc = "walk"
    /\ queue = << >>
    /\ pc' = "default"
    /\ UNCHANGED <<input, scopes, propagated, queue>>

Defaulted(d) == d # root /\ PrimaryScope(scopes[d]) = ScopeUnknown

Default ==
    /\ pc = "default"
    /\ scopes' = [d \in Dependencies |->
                     IF Defaulted(d) THEN WithScope(scopes[d], ScopeRuntime) ELSE scopes[d]]
    /\ pc' = "done"
    /\ UNCHANGED <<input, propagated, queue>>

WalkNext == RootIsAbsent \/ SeedDirect \/ Visit \/ QueueIsEmpty \/ Default

WalkSpec == edges \in SUBSET Links /\ WalkInit /\ [][WalkNext]_<<edges, walkVars>>
-----------------------------------------------------------------------------
TypeOK ==
    /\ edges \in SUBSET Links
    /\ seed \in [Dependencies -> Scope]
    /\ own \in [Dependencies -> SUBSET {ScopeRuntime, ScopeDevelopment}]
    /\ scopes \in [Dependencies -> SUBSET {ScopeRuntime, ScopeDevelopment}]
    /\ propagated \in [Dependencies -> Scope]
    /\ queue \in Seq(Dependencies)
    /\ pc \in {"seed", "walk", "default", "done"}

(* What PropagateScopes promises, as least closed sets over the input: the
   dependencies that a path of dependencies joins to the root, *)
ReachClosed(S) ==
    /\ DirectDependencies(root) \subseteq S
    /\ \A p \in S : DirectDependencies(p) \ {root} \subseteq S

Reached == {d \in Dependencies : \A S \in SUBSET Dependencies : ReachClosed(S) => d \in S}

(* and those on such a path at or after a node that is runtime: seeded so, or
   carrying it, or seeded with nothing. *)
StartsRuntime(d) ==
    seed[d] \in {ScopeRuntime, ScopeUnknown} \/ ScopeRuntime \in own[d]

RuntimeClosed(S) ==
    /\ \A d \in DirectDependencies(root) : StartsRuntime(d) => d \in S
    /\ \A p \in Reached : \A d \in DirectDependencies(p) \ {root} :
          p \in S \/ ScopeRuntime \in own[d] => d \in S

RuntimeReached ==
    {d \in Dependencies : \A S \in SUBSET Dependencies : RuntimeClosed(S) => d \in S}

(* Whatever the order of the walk, nothing is marked runtime on the way that no
   runtime path leads to: a development-only package is never presented as
   shipped by a walk that went through it. *)
RuntimeIsFounded ==
    pc \in {"seed", "walk", "default"} =>
        \A d \in Dependencies :
            ScopeRuntime \in scopes[d] \ own[d] => d \in RuntimeReached

ExpectedScope(d) ==
    IF \/ ScopeRuntime \in own[d]
       \/ d \in RuntimeReached
       \/ d \notin Reached /\ own[d] = {} /\ d # root
    THEN ScopeRuntime
    ELSE IF d \in Reached \/ own[d] # {} THEN ScopeDevelopment
    ELSE ScopeUnknown

(* When it returns, the effective scope of every dependency is the one its
   paths from the root give it, whatever the order the walk took, and runtime
   by default where no path does; with no root nothing has changed
   (nodes.go:178-193). *)
ScopesFollowPaths ==
    pc = "done" =>
        IF root \in Nodes
        THEN \A d \in Dependencies : PrimaryScope(scopes[d]) = ExpectedScope(d)
        ELSE scopes = own
=============================================================================
