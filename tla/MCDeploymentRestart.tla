------------------------- MODULE MCDeploymentRestart -------------------------
(***************************************************************************)
(* Instances of DeploymentRestart for TLC, with the requests of            *)
(* MCDeploymentQueue.                                                      *)
(***************************************************************************)
EXTENDS DeploymentRestart, MCDeploymentQueue
=============================================================================
