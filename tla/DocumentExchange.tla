-------------------------- MODULE DocumentExchange --------------------------
(***************************************************************************)
(* What leaves the process and is read again, four ways of looking at a    *)
(* round trip: what a document says about itself and the documents it came *)
(* from, which components it has and how they depend on each other, what   *)
(* it claims of a component (MarshalJSON and UnmarshalJSON, sbom/codec.go) *)
(* and the record of a whole scan (package scan).  The four meet in no     *)
(* field, so a behaviour follows one of them.                              *)
(***************************************************************************)
EXTENDS DocumentLineage, DocumentStructure, ComponentExchange, ScanRecord

vars == <<lineageVars, structureVars, claimVars, scanVars>>

Init ==
    \/ LineageInit /\ StructureIdle /\ ClaimsIdle /\ ScanIdle
    \/ LineageIdle /\ StructureInit /\ ClaimsIdle /\ ScanIdle
    \/ LineageIdle /\ StructureIdle /\ ClaimInit /\ ScanIdle
    \/ LineageIdle /\ StructureIdle /\ ClaimsIdle /\ ScanInit

InLineage == stage = "idle" /\ step = "idle" /\ phase = "idle"

Next ==
    \/ InLineage /\ LineageNext /\ UNCHANGED <<structureVars, claimVars, scanVars>>
    \/ StructureNext /\ UNCHANGED <<lineageVars, claimVars, scanVars>>
    \/ ClaimNext /\ UNCHANGED <<lineageVars, structureVars, scanVars>>
    \/ ScanNext /\ UNCHANGED <<lineageVars, structureVars, claimVars>>

Spec == Init /\ [][Next]_vars
=============================================================================
