------------------------------ MODULE MCDevice ------------------------------
(***************************************************************************)
(* Connections that differ in nothing but their name.                      *)
(***************************************************************************)
EXTENDS Device, TLC

Symmetry == Permutations(Clients)
=============================================================================
