------------------------------ MODULE MCIRLight ------------------------------
(***************************************************************************)
(* IRLight for TLC: HTTP handlers are model values, interchangeable, so    *)
(* that runs without liveness may use symmetry.                            *)
(***************************************************************************)
EXTENDS IRLight, TLC

ClientsSymmetry == Permutations(Clients)
=============================================================================
