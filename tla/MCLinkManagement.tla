--------------------------- MODULE MCLinkManagement ---------------------------
(***************************************************************************)
(* Instances of LinkManagement: the two dies, and at which point one of the *)
(* users asks or a fault is reported.                                      *)
(***************************************************************************)
EXTENDS LinkManagement

CONSTANTS dieA, dieB

Dies == {dieA, dieB}
===============================================================================
