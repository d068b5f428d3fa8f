-------------------------- MODULE MCVpcRefinement --------------------------
(***************************************************************************)
(* Instances of VpcRefinement for TLC: those of VpcController.             *)
(***************************************************************************)
EXTENDS VpcRefinement, MCVpcController
=============================================================================
