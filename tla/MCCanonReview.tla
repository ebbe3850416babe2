---------------------------- MODULE MCCanonReview ----------------------------
(***************************************************************************)
(* One statement about the character and one rule, which a candidate may   *)
(* turn from one into the other, with the faults between the three files.  *)
(***************************************************************************)
EXTENDS CanonReview

CONSTANTS c1, r1
=============================================================================
