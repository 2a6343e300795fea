---------------------------- MODULE MCDeployment ----------------------------
(***************************************************************************)
(* Deployment for TLC: every run has the same artifact and the same payer; *)
(* others may hold the upgrade authority and deploy other artifacts.       *)
(***************************************************************************)
EXTENDS Deployment, TLC

CONSTANTS Artifact, Payer

MCArtifactOf == [r \in Runs |-> Artifact]

MCPayerOf == [r \in Runs |-> Payer]

(* Runs are interchangeable. *)
Symmetry == Permutations(Runs)
=============================================================================
