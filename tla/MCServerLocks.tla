--------------------------- MODULE MCServerLocks ---------------------------
(* The relay loop and one HTTP worker. *)
EXTENDS ServerLocks
CONSTANT w1
MCOneWorker == {w1}
MCNoDrops == Natives \ {"DropPlayer"}
\* Only the loop's own scripts do; everybody does.
MCLoopOnly == [worker |-> MCNoDrops, loop |-> Natives, dropped |-> MCNoDrops]
MCAlways == [worker |-> Natives, loop |-> Natives, dropped |-> Natives]
=============================================================================
