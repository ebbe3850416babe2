--------------------------- MODULE ProviderCustody ---------------------------
(***************************************************************************)
(* What durable generation promises about a provider: of the dispatches a  *)
(* request is allowed, each is sent at most once, in order, and only after *)
(* every earlier one is a confirmed failure.  A call that is never heard   *)
(* of again stays "called": nothing is inferred from silence.              *)
(***************************************************************************)
EXTENDS Naturals

CONSTANTS Requests, Positions

VARIABLE phase

Dispatch == Requests \X Positions

Init == phase = [d \in Dispatch |-> "unsent"]

Call(d) ==
    /\ phase[d] = "unsent"
    /\ \A c \in Dispatch : c[1] = d[1] /\ c[2] < d[2] => phase[c] = "failed"
    /\ phase' = [phase EXCEPT ![d] = "called"]

Answer(d) ==
    /\ phase[d] = "called"
    /\ phase' = [phase EXCEPT ![d] = "answered"]

Fail(d) ==
    /\ phase[d] = "called"
    /\ phase' = [phase EXCEPT ![d] = "failed"]

Next == \E d \in Dispatch : Call(d) \/ Answer(d) \/ Fail(d)

Spec == Init /\ [][Next]_phase
=============================================================================
