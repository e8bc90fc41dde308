------------------------------ MODULE MCMinMax -------------------------------
(* Networks for TLC.  Node 0 is the root, which does not pass anything on. *)
EXTENDS MinMax

Symmetric(edges) == edges \cup {<<e[2], e[1]>> : e \in edges}

\* Three nodes that all hear each other, two of which start a flood.
Triangle == Symmetric({<<0, 1>>, <<0, 2>>, <<1, 2>>})
TriangleNumbers == [n \in 0 .. 2 |-> CASE n = 0 -> 1 [] n = 1 -> 3 [] n = 2 -> 0]

\* A diamond: the far node reaches the root on two ways.
Diamond == Symmetric({<<0, 1>>, <<0, 2>>, <<1, 3>>, <<2, 3>>})
DiamondNumbers == [n \in 0 .. 3 |-> CASE n = 0 -> 3 [] n = 1 -> 2 [] n = 2 -> 5 [] n = 3 -> 0]

\* Both networks are as the theorems about the flood want them.
ASSUME FloodReachesAllHolds == FloodReachesAll
=============================================================================
