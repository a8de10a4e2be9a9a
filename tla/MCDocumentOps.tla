------------------------------ MODULE MCDocumentOps ------------------------------
(* Instances of DocumentOps for TLC: folders a and b, each with room for one    *)
(* document of the same name.                                                   *)
EXTENDS DocumentOps, TLC

CONSTANTS a, b, x

MCPaths == {<<>>, <<a>>, <<b>>, <<a, x>>, <<b, x>>}

Symmetry == Permutations(Threads) \cup Permutations({a, b})
===============================================================================
