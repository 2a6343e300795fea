------------------------------ MODULE MCLedger ------------------------------
(***************************************************************************)
(* Ledger for TLC: balances of exactly one lot and price, of room for one  *)
(* fill on either side, at the top of u64, and short of one leg.           *)
(***************************************************************************)
EXTENDS Ledger, TLC

MCAmounts ==
  {[base |-> 1, quote |-> 2], [base |-> 2, quote |-> 4],
   [base |-> 4, quote |-> 4], [base |-> 0, quote |-> 2]}

Symmetry == Permutations(Participants)
=============================================================================
