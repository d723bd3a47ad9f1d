---------------------------- MODULE MCGraphStore ----------------------------
(* One manifest, one module and one dependency that can be promoted to the
   module, over two usage sites that nothing tells apart. *)
EXTENDS GraphStore, TLC

CONSTANTS manifest, module, dependency, s1, s2

AllPromotable == {<<dependency, module>>}

Symmetry == Permutations(Sites)
=============================================================================
