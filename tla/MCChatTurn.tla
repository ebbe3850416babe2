------------------------------ MODULE MCChatTurn ------------------------------
(***************************************************************************)
(* Two turns of one conversation, a stream and a resolution.               *)
(***************************************************************************)
EXTENDS ChatTurn

CONSTANTS t1, t2, s1, r1
=============================================================================
