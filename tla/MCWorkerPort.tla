---------------------------- MODULE MCWorkerPort -----------------------------
(***************************************************************************)
(* Model values for WorkerPort.  Clients are interchangeable in the safety *)
(* runs.                                                                   *)
(***************************************************************************)
EXTENDS WorkerPort, TLC

Symmetry == Permutations(Client)

=============================================================================
