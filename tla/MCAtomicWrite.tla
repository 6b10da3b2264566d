----------------------------- MODULE MCAtomicWrite -----------------------------
(* Two processes writing into one directory. *)
EXTENDS AtomicWrite
===============================================================================
