--------------------------- MODULE InvoiceCredit ---------------------------
(***************************************************************************)
(* What the SSP promises about one Lightning invoice of a wallet, without  *)
(* saying how: the wallet is credited at most once; a payer is charged     *)
(* only after the credit, and at most one is; and the outcome reported for *)
(* the invoice is final: "completed" only when a payer was charged,        *)
(* "failed" only when none was or ever will be.                            *)
(***************************************************************************)
CONSTANT Payers

VARIABLES credited, charged, outcome

vars == <<credited, charged, outcome>>

Init == credited = FALSE /\ charged = {} /\ outcome = "open"

Credit ==
  /\ ~credited
  /\ credited' = TRUE
  /\ UNCHANGED <<charged, outcome>>

Charge(p) ==
  /\ credited /\ charged = {} /\ outcome = "open"
  /\ charged' = {p}
  /\ UNCHANGED <<credited, outcome>>

Complete ==
  /\ outcome = "open" /\ charged # {}
  /\ outcome' = "completed"
  /\ UNCHANGED <<credited, charged>>

Fail ==
  /\ outcome = "open" /\ charged = {}
  /\ outcome' = "failed"
  /\ UNCHANGED <<credited, charged>>

Next == Credit \/ (\E p \in Payers : Charge(p)) \/ Complete \/ Fail

Spec == Init /\ [][Next]_vars
=============================================================================
