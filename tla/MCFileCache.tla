----------------------------- MODULE MCFileCache -----------------------------
(* Two Sets whose entries fit or are one piece too large, and a Get: Gets do
   not touch what another call sees. *)
EXTENDS FileCache, TLC

CONSTANTS s1, s2, g1

Calls == Permutations({s1, s2})
=============================================================================
