------------------------------ MODULE MCHandles ------------------------------
(***************************************************************************)
(* Values for the constants of Handles.  Two contents that differ show an  *)
(* aliased handle; `flip` and `keep` are two graphs that differ on every   *)
(* input.                                                                  *)
(***************************************************************************)
EXTENDS Handles, TLC

MCMeaning ==
  [g \in Graph |-> [d \in Data |->
     IF g = "flip" THEN (IF d = "a" THEN "b" ELSE "a") ELSE d]]

(* Clients and references are interchangeable (safety runs only).          *)
Symmetry == Permutations(Client) \cup Permutations(RefId)

=============================================================================
