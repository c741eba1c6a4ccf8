------------------------------ MODULE MCLedger ------------------------------
(* The ledger with its resources interchangeable.                          *)
EXTENDS Ledger, TLC
MCSymmetry == Permutations(Resources)
=============================================================================
