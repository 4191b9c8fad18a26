---------------------------- MODULE MCVolumeLock ----------------------------
(* Instances of VolumeLock: two tasks, two paths whose hashes collide, and *)
(* a cache of one slot that has to grow for the second descriptor.         *)
EXTENDS VolumeLock, TLC

CONSTANTS t1, t2, p1, p2, h1, h2, f1, f2, f3

MCTasks   == {t1, t2}
MCPaths   == {p1, p2}
MCPath    == {p1}
MCHandles == {h1, h2}
MCHandle  == {h1}
MCFiles   == {f1, f2, f3}
MCFiles2  == {f1, f2}
Collide   == [p \in Paths |-> 7]

Symmetry == Permutations(Tasks) \cup Permutations(Handles) \cup Permutations(Files)
=============================================================================
