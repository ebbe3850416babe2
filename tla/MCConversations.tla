---------------------------- MODULE MCConversations ----------------------------
(***************************************************************************)
(* Conversations on small instances; one module for its configurations.    *)
(***************************************************************************)
EXTENDS Conversations, TLC

CONSTANTS s1, s2, home, other
=============================================================================
