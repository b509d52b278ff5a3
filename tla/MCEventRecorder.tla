--------------------------- MODULE MCEventRecorder ---------------------------
(***************************************************************************)
(* EventRecorder for TLC: recordings are model values, interchangeable, so *)
(* that runs without liveness may use symmetry.                            *)
(***************************************************************************)
EXTENDS EventRecorder, TLC

FilesSymmetry == Permutations(Files)
=============================================================================
