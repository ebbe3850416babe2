------------------------ MODULE MCGenerationAcceptance ------------------------
(***************************************************************************)
(* Acceptance on small instances; one module for its configurations, whose *)
(* messages, processes and project states are model values.                *)
(***************************************************************************)
EXTENDS GenerationAcceptance
=============================================================================
