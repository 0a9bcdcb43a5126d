------------------------------ MODULE MCCamSync ------------------------------
(***************************************************************************)
(* The threads that call cam_sync are interchangeable.                     *)
(***************************************************************************)
EXTENDS CamSync, TLC

ThreadSymmetry == Permutations(Threads)
=============================================================================
