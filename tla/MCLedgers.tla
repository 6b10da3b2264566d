------------------------------ MODULE MCLedgers ------------------------------
(***************************************************************************)
(* Two callers on one account: accounts do not share anything.             *)
(***************************************************************************)
EXTENDS Ledgers, TLC

CallerSymmetry == Permutations(Callers)
===============================================================================
