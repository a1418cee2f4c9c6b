------------------------- MODULE MCLightningReceive -------------------------
(***************************************************************************)
(* Model values for LightningReceive: two attempts with the invoice's      *)
(* amount, p1 and p2, and one with another amount, p3.                     *)
(***************************************************************************)
EXTENDS LightningReceive

CONSTANTS p1, p2, p3
=============================================================================
