------------------------- MODULE MCDedicatedServer -------------------------
(* Small instances of DedicatedServer: two connections, two places that are *)
(* out of each other's radius.                                              *)
EXTENDS DedicatedServer, TLC

CONSTANTS c1, c2

MCConnections == {c1, c2}
MCAlone == {c1}
MCApart == {0, 9}
Symmetry == Permutations(Connections)
=============================================================================
