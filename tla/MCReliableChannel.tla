------------------------- MODULE MCReliableChannel --------------------------
(* Small instances of ReliableChannel.  A short message is one fragment, a   *)
(* long one two; MCPayload also has one too large for the channel.           *)
EXTENDS ReliableChannel

MCPayload == {"short", "long", "huge"}
MCFrags == [m \in MCPayload |-> CASE m = "short" -> 1 [] m = "long" -> 2 [] m = "huge" -> 3]
=============================================================================
