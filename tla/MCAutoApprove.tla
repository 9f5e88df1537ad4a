---------------------------- MODULE MCAutoApprove ----------------------------
(***************************************************************************)
(* Instances of AutoApprove for TLC.  Nothing tells processes apart.       *)
(***************************************************************************)
EXTENDS AutoApprove, TLC

ProcSymmetry == Permutations(Procs)
=============================================================================
