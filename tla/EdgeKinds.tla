------------------------------ MODULE EdgeKinds ------------------------------
(***************************************************************************)
(* The vocabulary of the typed dependency graph: node identities by kind   *)
(* (model/node.go, model/dependency.go) and what an edge asserts           *)
(* (model/edge.go).                                                        *)
(*                                                                         *)
(* A node's ID is its identity and the ID grammars of the three kinds are  *)
(* disjoint ("manifest:...", "module:...", "pkg:..."), so a node is its ID *)
(* and its kind is the set its ID belongs to.                              *)
(***************************************************************************)
EXTENDS Integers

CONSTANTS ManifestIDs, ModuleIDs, DependencyIDs

ASSUME KindsDisjoint ==
    /\ ManifestIDs \cap ModuleIDs = {}
    /\ ManifestIDs \cap DependencyIDs = {}
    /\ ModuleIDs \cap DependencyIDs = {}

NodeIDs == ManifestIDs \cup ModuleIDs \cup DependencyIDs

(* EdgeKindUnknown is the zero value "": the kind a caller leaves unstated,
   and also what reading an absent edge returns. *)
EdgeKindUnknown   == ""
EdgeKindDependsOn == "depends-on"
EdgeKindDescribes == "describes"

EdgeKind == {EdgeKindDependsOn, EdgeKindDescribes}
NoEdge   == EdgeKindUnknown

(* What an edge asserts when nobody states it: only a manifest-to-module
   edge is structural. *)
DeriveEdgeKind(from, to) ==
    IF from \in ManifestIDs /\ to \in ModuleIDs
    THEN EdgeKindDescribes
    ELSE EdgeKindDependsOn

StatedEdgeKind(from, to, kind) ==
    IF kind = EdgeKindUnknown THEN DeriveEdgeKind(from, to) ELSE kind

(* Bug: of two stated kinds that disagree, the one that came last wins. *)
MergeEdgeKindLastWins(current, next) ==
    IF next = EdgeKindUnknown THEN current ELSE next

(* The strongest class: a stated kind beats an unstated one, and of two
   stated kinds that disagree the dependency claim wins. *)
MergeEdgeKind(current, next) ==
    CASE next = EdgeKindUnknown       -> current
      [] current = EdgeKindUnknown    -> next
      [] next = EdgeKindDependsOn     -> next
      [] OTHER                        -> current
=============================================================================
