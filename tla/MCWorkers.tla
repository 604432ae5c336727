----------------------------- MODULE MCWorkers -----------------------------
(* Two workers, the default one and one of a device, and two processes.      *)
EXTENDS Workers, TLC
Symmetric == Permutations(Procs)
=============================================================================
