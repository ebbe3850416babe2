----------------------------- MODULE MCManuscript -----------------------------
(***************************************************************************)
(* A small manuscript; its node ids are interchangeable.                   *)
(***************************************************************************)
EXTENDS Manuscript, TLC

CONSTANTS n1, n2, n3, k1

Symmetry == Permutations(Nodes)
=============================================================================
