---------------------------- MODULE MCArtifacts ----------------------------
(* Instances of Artifacts. *)
EXTENDS Artifacts
=============================================================================
