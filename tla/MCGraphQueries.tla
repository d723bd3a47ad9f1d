--------------------------- MODULE MCGraphQueries ---------------------------
(* A manifest (1), a module (2) and three dependencies.  The edges allow a
   dependency with a module below it, a dependency of both, cycles of two and
   of three, and a cycle no root leads to.  Scopes are propagated from the
   manifest, from a dependency or from an ID that is not in the graph. *)
EXTENDS GraphQueries

AllLinks ==
    {<<1, 2>>, <<1, 3>>, <<1, 4>>, <<2, 4>>, <<4, 2>>, <<3, 4>>, <<4, 3>>, <<4, 5>>, <<5, 4>>, <<5, 3>>, <<2, 5>>}

ScopedLinks == {<<1, 3>>, <<1, 4>>, <<2, 5>>, <<4, 2>>, <<3, 4>>, <<4, 3>>, <<4, 5>>, <<5, 3>>}

Primaries == {{}, {ScopeRuntime}, {ScopeDevelopment}}
=============================================================================
