----------------------------- MODULE MCSettlement -----------------------------
(***************************************************************************)
(* Two clerks, an obligation below the approval threshold and one above    *)
(* it, on a treasury that can afford one large payout above its floor.     *)
(***************************************************************************)
EXTENDS Settlement, TLC

ClerkSymmetry == Permutations(Clerks)

MCAmount == [o \in Obligations |-> IF o = "large" THEN 2 ELSE 1]
===============================================================================
