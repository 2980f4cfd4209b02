------------------------------ MODULE MCCareful ------------------------------
(***************************************************************************)
(* The instance of MCLedger for which the theorems of LedgerLogProofs      *)
(* hold: TLC evaluates their hypothesis on its constants.                  *)
(***************************************************************************)
EXTENDS MCLedger

ASSUME MCAssumption == CarefulStream
=============================================================================
