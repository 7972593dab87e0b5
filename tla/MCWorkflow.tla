------------------------------ MODULE MCWorkflow ------------------------------
(* Workflow with interchangeable cards. *)
EXTENDS Workflow, TLC

CardSymmetry == Permutations(Cards)
=============================================================================
