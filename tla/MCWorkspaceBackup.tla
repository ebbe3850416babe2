--------------------------- MODULE MCWorkspaceBackup ---------------------------
(***************************************************************************)
(* Archives of a workspace of two projects.                                *)
(***************************************************************************)
EXTENDS WorkspaceBackup, TLC

CONSTANTS s1, home, other
=============================================================================
