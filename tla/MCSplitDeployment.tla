-------------------------- MODULE MCSplitDeployment --------------------------
(***************************************************************************)
(* Small instances of SplitDeployment for TLC.                             *)
(***************************************************************************)
EXTENDS SplitDeployment

CONSTANTS pg1, rulesA, rulesB

EitherRules == [source : {pg1}, contract : Contracts, snapshot : {TRUE}]
==============================================================================
