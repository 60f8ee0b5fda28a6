-------------------------- MODULE MCBudgetLedger --------------------------
(* Instances of BudgetLedger for TLC. *)
EXTENDS BudgetLedger
CONSTANTS e1
=============================================================================
