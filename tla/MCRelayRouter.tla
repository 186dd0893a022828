--------------------------- MODULE MCRelayRouter ---------------------------
(* A small instance of RelayRouter: positions with a pair in every distance *)
(* band, and few enough skaters that a crowd of two neighbours is all.      *)
EXTENDS RelayRouter, TLC

CONSTANTS c1, c2, c3

MCConnections == {c1, c2, c3}
MCPositions == {0, 2, 5}
MCPoses == {1, 2}
MCSequences == {1, 4}
Symmetry == Permutations(Connections)
=============================================================================
