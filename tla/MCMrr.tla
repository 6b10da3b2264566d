--------------------------------- MODULE MCMrr ---------------------------------
(***************************************************************************)
(* Two threads on a limiter of two calls in two ticks.                     *)
(***************************************************************************)
EXTENDS Mrr, TLC

CallerSymmetry == Permutations(Callers)
===============================================================================
