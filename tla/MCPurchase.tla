----------------------------- MODULE MCPurchase -----------------------------
(***************************************************************************)
(* Model checking a purchase.  The model may name an amount below zero; two *)
(* and three fill the budget of five, and a third payment exceeds it.      *)
(***************************************************************************)
EXTENDS Purchase

MCAmounts == {-1, 2, 3}
=============================================================================
