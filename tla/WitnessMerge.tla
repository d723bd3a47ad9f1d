---------------------------- MODULE WitnessMerge ----------------------------
(***************************************************************************)
(* The two places where what several witnesses say of one package becomes  *)
(* one record: the nodes of the graphs, during detection (NodeFold), and   *)
(* the packages of the registry, during matching (PackageRegistry).  A     *)
(* behaviour is one of the two.                                            *)
(***************************************************************************)
EXTENDS NodeFold, PackageRegistry

VARIABLE merging   \* "nodes" or "packages"

vars == <<merging, foldVars, registryVars>>

Init ==
    /\ merging \in {"nodes", "packages"}
    /\ FoldInit
    /\ RegistryInit
    /\ merging = "packages" => ~swift

Next ==
    \/ merging = "nodes" /\ FoldNext /\ UNCHANGED <<merging, registryVars>>
    \/ merging = "packages" /\ RegistryNext /\ UNCHANGED <<merging, foldVars>>

Spec == Init /\ [][Next]_vars
=============================================================================
