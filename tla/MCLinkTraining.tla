--------------------------- MODULE MCLinkTraining ---------------------------
(* Two dies with different data rates, for TLC.                            *)
EXTENDS LinkTraining, TLC

CONSTANTS dieA, dieB

Dies == {dieA, dieB}
DieRates == dieA :> 1 @@ dieB :> 2
=============================================================================
