---------------------------- MODULE MCCostLedger ----------------------------
(***************************************************************************)
(* CostLedger on small instances.                                          *)
(***************************************************************************)
EXTENDS CostLedger, TLC

MCSymmetry == Permutations(Requests)
=============================================================================
