-------------------------- MODULE MCGovernanceHistory --------------------------
(***************************************************************************)
(* Instances of GovernanceHistory for TLC, on the values of MCGovernance.  *)
(***************************************************************************)
EXTENDS GovernanceHistory, MCGovernance
=================================================================================
