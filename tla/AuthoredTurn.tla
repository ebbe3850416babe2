----------------------------- MODULE AuthoredTurn -----------------------------
(***************************************************************************)
(* What acceptance promises about an answer in custody: it becomes a turn  *)
(* of its conversation at most once, and only while the conversation and   *)
(* the project still are what the request was frozen against, or it is     *)
(* refused; neither outcome is ever taken back.                            *)
(***************************************************************************)
CONSTANT Answers

VARIABLES
    outcome,    \* "open", "authored" or "refused", by answer
    current     \* answers whose frozen work matches the project as it is now

Init == outcome = [a \in Answers |-> "open"]

Author(a) ==
    /\ outcome[a] = "open"
    /\ a \in current
    /\ outcome' = [outcome EXCEPT ![a] = "authored"]

Refuse(a) ==
    /\ outcome[a] = "open"
    /\ outcome' = [outcome EXCEPT ![a] = "refused"]

Next == \E a \in Answers : Author(a) \/ Refuse(a)

(* What the rest of the project does to current is left open.              *)
Spec == Init /\ [][Next]_outcome
=============================================================================
