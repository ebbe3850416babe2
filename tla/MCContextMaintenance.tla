------------------------ MODULE MCContextMaintenance ------------------------
(***************************************************************************)
(* Maintenance on small instances.  The context window of the writing      *)
(* model "writer" is smaller than the policy allows, as it is used without  *)
(* a model, whose plans leave more turns alone.                            *)
(***************************************************************************)
EXTENDS ContextMaintenance

OneModel == {"writer"}
Window == [m \in Keys |-> IF m = NoModel THEN 2 ELSE 1]
Mark == [m \in Keys |-> IF m = NoModel THEN 3 ELSE 2]
=============================================================================
