-------------------------- MODULE MCComponentScope --------------------------
(* Three registrations and two calls to Close, none of which a goroutine can
   tell from another of its kind. *)
EXTENDS ComponentScope
=============================================================================
