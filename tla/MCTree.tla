------------------------------- MODULE MCTree -------------------------------
(* An instance of Tree: two branches, one with a parent of a parent, and a *)
(* path whose parents are not all covered.                                 *)
EXTENDS Tree

CONSTANTS h1, s1

MCHandles == {h1}
MCStreams == {s1}
MCPaths   == {<<1>>, <<1, 1>>, <<1, 2>>, <<1, 1, 1>>, <<1, 1, 1, 1>>, <<2>>}
=============================================================================
