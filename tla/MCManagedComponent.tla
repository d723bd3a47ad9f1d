------------------------- MODULE MCManagedComponent -------------------------
(* A constructor that acquires two resources, and two requests that need it. *)
EXTENDS ManagedComponent
=============================================================================
