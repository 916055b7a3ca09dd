---------------------------- MODULE MCPreparation ----------------------------
(***************************************************************************)
(* An instance of Preparation for TLC: one call, one installed shim.       *)
(***************************************************************************)
EXTENDS Preparation

MCSpec == PrepInit /\ [][PrepNext]_prepVars
==============================================================================
