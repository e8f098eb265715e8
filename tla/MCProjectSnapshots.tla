-------------------------- MODULE MCProjectSnapshots --------------------------
(* Two projects, one of which has the title it gets by default.            *)
EXTENDS ProjectSnapshots

CONSTANTS p1, p2
=============================================================================
