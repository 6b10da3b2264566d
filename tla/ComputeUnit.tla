----------------------------- MODULE ComputeUnit -----------------------------
(***************************************************************************)
(* The size vector of schema/compute_unit.py.                              *)
(***************************************************************************)
EXTENDS Integers

CONSTANT Dims      \* the dimensions of a ComputeUnit: cpu, ram, gpu, ...

ComputeUnits == [Dims -> Nat]

FitsWithin(requirements, capacity) ==
    \A d \in Dims : requirements[d] <= capacity[d]
===============================================================================
