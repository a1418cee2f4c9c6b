---------------------------- MODULE Withdrawals -----------------------------
(***************************************************************************)
(* Cooperative withdrawals: their protocol (CoopExit) next to their        *)
(* amounts (ExitFunds).  The two share no state.                           *)
(***************************************************************************)
EXTENDS CoopExit

CONSTANTS
  LeafIds, Opening, Treasury, Addresses, Estimates, Speeds, BumpRates, Budgets,
  UserFee, MaxLeaves, QuoteLimit, ExitLimit
VARIABLES leaves, minted, quotes, exits, bump, coins, collected

Funds == INSTANCE ExitFunds

ASSUME AmountsAssumption == Funds!Assumptions

(* The SSP's coins and recovered leaves account for every satoshi of the   *)
(* withdrawals: its funds change by user fees and bumps only               *)
(* (withdrawal_amount, request, validate_coop_exit_transfer).              *)
FundsAreConserved == Funds!FundsAreConserved

(* Nodes relay every output of a payout and of its fee bump (the coin's    *)
(* least value in request, the checks of cpfp_transaction).                *)
OutputsRelay == Funds!OutputsRelay

(* Payouts and fee bumps reach the rates that their fees were computed     *)
(* for, once they are signed (quote, cpfp_transaction).                    *)
FeesReachRate == Funds!FeesReachRate
=============================================================================
