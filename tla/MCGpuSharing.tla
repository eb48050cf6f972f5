---------------------------- MODULE MCGpuSharing ----------------------------
(***************************************************************************)
(* Instances of GpuSharing for TLC.  The jobs are interchangeable in the   *)
(* runs that check no liveness.                                            *)
(***************************************************************************)
EXTENDS GpuSharing, TLC

Symmetry == Permutations(Jobs)
=============================================================================
