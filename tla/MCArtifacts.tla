------------------------------ MODULE MCArtifacts ------------------------------
(* Artifacts on a small instance: one artifact, for every path and every  *)
(* index entry is its artifact's own.                                     *)
EXTENDS Artifacts
=============================================================================
