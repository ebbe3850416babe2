------------------------ MODULE MCGenerationExecution ------------------------
(***************************************************************************)
(* Execution on small instances.  Executor processes are interchangeable   *)
(* where only safety is checked.                                           *)
(***************************************************************************)
EXTENDS GenerationExecution, TLC

CONSTANTS e1, e2

ExecutorSymmetry == Permutations({e1, e2})
=============================================================================
