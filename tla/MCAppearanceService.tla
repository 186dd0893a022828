------------------------ MODULE MCAppearanceService -------------------------
(* A skater with a wardrobe, and one who looks on. *)
EXTENDS AppearanceService

CONSTANTS ann, bob

MCPlayers == {ann, bob}
MCWardrobe == [p \in MCPlayers |-> IF p = ann THEN <<"a", "b", "c">> ELSE <<>>]
=============================================================================
