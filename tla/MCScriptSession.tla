-------------------------- MODULE MCScriptSession --------------------------
(* A client that joins twice; every event is one datagram. *)
EXTENDS ScriptSession

MCPayload == 1 .. 2
MCFrags == [m \in MCPayload |-> 1]
=============================================================================
