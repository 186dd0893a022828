---------------------------- MODULE MCPoseStream ----------------------------
(* One sender and two receivers: both near, with a trouble on the way; one of  *)
(* them far; and a far one alone, with troubles or without.                    *)
EXTENDS PoseStream, TLC

CONSTANTS p1, p2

Network(near, far, bound) == [distance |-> (p1 :> near @@ p2 :> far), troubles |-> bound]

MCPeers == {p1, p2}
MCNetworks == {Network(1, 1, 1), Network(1, 2, 0), Network(0, 2, 1)}
MCFar == {Network(0, 2, 0)}
=============================================================================
