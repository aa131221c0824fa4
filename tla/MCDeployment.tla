---------------------------- MODULE MCDeployment ----------------------------
(* Deployment with processes that are interchangeable. *)
EXTENDS Deployment, TLC

ProcessSymmetry == Permutations(Processes)
=============================================================================
