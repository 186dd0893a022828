----------------------------- MODULE MCPropSync -----------------------------
(* One client, two servers, two places. *)
EXTENDS PropSync

CONSTANTS s1, s2, here, there

MCServers == {s1, s2}
MCPlaces == {here, there}
=============================================================================
