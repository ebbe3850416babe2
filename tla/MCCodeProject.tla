---------------------------- MODULE MCCodeProject ----------------------------
(***************************************************************************)
(* One file, two texts and two contents; a plan of two phases.             *)
(***************************************************************************)
EXTENDS CodeProject

CONSTANTS t1, t2, f, x1, x2
=============================================================================
