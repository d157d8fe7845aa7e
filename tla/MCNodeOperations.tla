-------------------------- MODULE MCNodeOperations --------------------------
(* Instances of NodeOperations for TLC. *)
EXTENDS NodeOperations
=============================================================================
