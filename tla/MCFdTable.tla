----------------------------- MODULE MCFdTable ------------------------------
(* Instances of FdTable: two paths whose hashes collide, handles and file  *)
(* objects that are interchangeable, and a cache that grows from 1 to its  *)
(* limit.                                                                  *)
EXTENDS FdTable, TLC

CONSTANTS p1, p2, h1, h2, h3, f1, f2, f3

MCPaths    == {p1, p2}
MCHandles  == {h1, h2, h3}
MCHandles2 == {h1, h2}
MCFiles    == {f1, f2, f3}
Collide    == [p \in MCPaths |-> 7]
Distinct   == (p1 :> 7) @@ (p2 :> 8)

Symmetry == Permutations(Handles) \cup Permutations(Files)
=============================================================================
