----------------------------- MODULE MCCoopExit -----------------------------
(***************************************************************************)
(* Model values for CoopExit: r1 and r2 belong to different wallets and r3 *)
(* to the wallet of r1.                                                    *)
(***************************************************************************)
EXTENDS CoopExit

CONSTANTS r1, r2, r3, alice, bob

OwnerOf == [r \in Requests |-> IF r = r2 THEN bob ELSE alice]
=============================================================================
