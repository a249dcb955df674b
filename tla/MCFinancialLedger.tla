-------------------------- MODULE MCFinancialLedger --------------------------
(***************************************************************************)
(* The financial ledger for TLC.  Ids, businesses and addresses are        *)
(* interchangeable in the contract and in every property checked here, so  *)
(* they form symmetry sets.                                                *)
(***************************************************************************)
EXTENDS FinancialLedger, TLC

Symmetry ==
    Permutations(EventIds) \cup Permutations(BusinessIds) \cup Permutations(Addresses)
=============================================================================
