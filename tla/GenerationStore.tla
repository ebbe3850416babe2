--------------------------- MODULE GenerationStore ---------------------------
(***************************************************************************)
(* Durable custody of provider work: src/src/gov_webui/generation_store.py *)
(*                                                                         *)
(* One SQLite database per project holds the switch and fallback policy of *)
(* the project, the logical requests a writer made, the ordered dispatches *)
(* of each request, and the candidates (exact provider responses) those    *)
(* dispatches yielded.  Every method of the class is one BEGIN IMMEDIATE   *)
(* transaction, so each is one action here; a method that raises rolls     *)
(* back and is the absence of a step.  The callers (web process, worker,   *)
(* executor) are unconstrained in this module: any method, in any order,   *)
(* with any arguments.                                                     *)
(*                                                                         *)
(* Abstracted: text, digests (equal iff the digested values are equal),    *)
(* timestamps, last_error, and the append-only event table.                *)
(***************************************************************************)
EXTENDS Naturals, Sequences, FiniteSets

CONSTANTS
    Projects,       \* project ids
    ClientIds,      \* client_request_id values chosen by browsers
    Contents,       \* what request_digest tells apart, besides the fallbacks
    Responses,      \* response digests
    Messages,       \* ids of session messages
    Null,           \* SQL NULL
    MaxFallbacks    \* bound: longest fallback policy considered

ASSUME GenerationStoreAssumption ==
    /\ MaxFallbacks \in Nat
    /\ Null \notin Messages
    /\ Null \notin (Projects \X ClientIds) \X (1 .. (MaxFallbacks + 1)) \X Responses

VARIABLES
    enabled,        \* generation_settings: projects with dispatch_enabled
    policy,         \* generation_settings: length of the fallback policy
    logical,        \* logical_request rows
    dispatches,     \* dispatch rows of a request, by ordinal
    candidates,     \* identities of the generation_candidate rows
    messageOf       \* accepted_message_id of a candidate

storeVars == <<enabled, policy, logical, dispatches, candidates, messageOf>>

-----------------------------------------------------------------------------
(* UNIQUE(project_id, client_request_id) makes this pair name a request.   *)
Requests == Projects \X ClientIds
ProjectOf(r) == r[1]

(* A dispatch is named by its request and its position (ordinal + 1); the  *)
(* candidate id is a digest of the dispatch digest and the response digest.*)
Positions == 1 .. (MaxFallbacks + 1)
CandidateIds == Requests \X Positions \X Responses
RequestOf(k) == k[1]
PositionOf(k) == k[2]

LogicalStatus == {"queued", "dispatching", "candidate", "accepted",
                  "blocked", "unknown", "failed"}
DispatchStatus == {"reserved", "executing", "candidate", "blocked",
                   "unknown", "failed"}

(* "absent" is the missing row; accepted is accepted_candidate_id.         *)
LogicalRow == [status    : LogicalStatus \cup {"absent"},
               content   : Contents \cup {Null},
               fallbacks : 0 .. MaxFallbacks,
               accepted  : CandidateIds \cup {Null}]

AbsentRow == [status |-> "absent", content |-> Null, fallbacks |-> 0, accepted |-> Null]

Created(r) == logical[r].status # "absent"

(* len(authorized): the original route and the frozen fallbacks.           *)
Authorized(r) == 1 + logical[r].fallbacks

Used(r) == Len(dispatches[r])
LastStatus(r) == dispatches[r][Used(r)]
DispatchEnabled(p) == p \in enabled
CandidatesOf(r, i) == {k \in candidates : k[1] = r /\ k[2] = i}

TypeOK ==
    /\ enabled \subseteq Projects
    /\ policy \in [Projects -> 0 .. MaxFallbacks]
    /\ logical \in [Requests -> LogicalRow]
    /\ dispatches \in [Requests -> Seq(DispatchStatus)]
    /\ candidates \subseteq CandidateIds
    /\ messageOf \in [CandidateIds -> Messages \cup {Null}]

Init ==
    /\ enabled = {}
    /\ policy = [p \in Projects |-> 0]
    /\ logical = [r \in Requests |-> AbsentRow]
    /\ dispatches = [r \in Requests |-> <<>>]
    /\ candidates = {}
    /\ messageOf = [k \in CandidateIds |-> Null]

-----------------------------------------------------------------------------
SwitchTo(p, on) == IF on THEN enabled \cup {p} ELSE enabled \ {p}

SetDispatchEnabled(p, on) ==
    /\ enabled' = SwitchTo(p, on)
    /\ UNCHANGED <<policy, logical, dispatches, candidates, messageOf>>

SetSettings(p, on, fallbacks) ==
    /\ enabled' = SwitchTo(p, on)
    /\ policy' = [policy EXCEPT ![p] = fallbacks]
    /\ UNCHANGED <<logical, dispatches, candidates, messageOf>>

(* A replay of the same frozen work returns the existing row and different *)
(* work under the same id raises IdempotencyConflict: neither is a step.   *)
CreateRequest(r, content, fallbacks) ==
    /\ ~Created(r)
    /\ logical' = [logical EXCEPT ![r] =
           [status |-> "queued", content |-> content,
            fallbacks |-> fallbacks, accepted |-> Null]]
    /\ UNCHANGED <<enabled, policy, dispatches, candidates, messageOf>>

(* The body the two reservations share.  The route is authorized[prior]:   *)
(* any other explicit route is refused, so a dispatch carries no route.    *)
Reserve(r, required) ==
    /\ DispatchEnabled(ProjectOf(r))
    /\ logical[r].status = required
    /\ Used(r) < Authorized(r)
    /\ dispatches' = [dispatches EXCEPT ![r] = Append(@, "reserved")]
    /\ logical' = [logical EXCEPT ![r].status = "dispatching"]
    /\ UNCHANGED <<enabled, policy, candidates, messageOf>>

ReserveDispatch(r) == Reserve(r, "queued")

ReserveFallback(r) ==
    /\ Used(r) > 0
    /\ LastStatus(r) = "failed"
    /\ Reserve(r, "failed")

(* _dispatch_transition: one guarded dispatch update that also overwrites  *)
(* the status of the logical request, whatever it was.                     *)
DispatchTransition(r, i, expected, dispatchStatus, logicalStatus) ==
    /\ i \in DOMAIN dispatches[r]
    /\ dispatches[r][i] \in expected
    /\ dispatches' = [dispatches EXCEPT ![r][i] = dispatchStatus]
    /\ logical' = [logical EXCEPT ![r].status = logicalStatus]
    /\ UNCHANGED <<enabled, policy, candidates, messageOf>>

MarkExecuting(r, i) ==
    DispatchTransition(r, i, {"reserved"}, "executing", "dispatching")

(* Mutant: the logical row is forgotten.                                   *)
MarkUnknownDispatchOnly(r, i) ==
    DispatchTransition(r, i, {"reserved", "executing"}, "unknown", "dispatching")

MarkUnknown(r, i) ==
    DispatchTransition(r, i, {"reserved", "executing"}, "unknown", "unknown")

MarkFailed(r, i) ==
    DispatchTransition(r, i, {"reserved", "executing"}, "failed", "failed")

(* Mutant: an answer that arrives after mark_unknown does not count.       *)
RecordOnlyExecuting(r, i) ==
    /\ i \in DOMAIN dispatches[r]
    /\ dispatches[r][i] = "executing"
    /\ CandidatesOf(r, i) = {}

(* A late answer still counts after mark_unknown; a second one does not.   *)
RecordAllowed(r, i) ==
    /\ i \in DOMAIN dispatches[r]
    /\ dispatches[r][i] \in {"executing", "unknown"}
    /\ CandidatesOf(r, i) = {}

(* The same response again returns the existing candidate: not a step.     *)
RecordCandidate(r, i, response) ==
    /\ <<r, i, response>> \notin candidates
    /\ RecordAllowed(r, i)
    /\ candidates' = candidates \cup {<<r, i, response>>}
    /\ dispatches' = [dispatches EXCEPT ![r][i] = "candidate"]
    /\ logical' = [logical EXCEPT ![r].status = "candidate"]
    /\ UNCHANGED <<enabled, policy, messageOf>>

(* A candidate that is already bound returns (same message) or raises.     *)
AcceptCandidate(k, m) ==
    /\ k \in candidates
    /\ messageOf[k] = Null
    /\ logical[RequestOf(k)].accepted \in {Null, k}
    /\ messageOf' = [messageOf EXCEPT ![k] = m]
    /\ logical' = [logical EXCEPT ![RequestOf(k)].status = "accepted",
                                  ![RequestOf(k)].accepted = k]
    /\ UNCHANGED <<enabled, policy, dispatches, candidates>>

(* Mutant: an accepted candidate can be blocked.                           *)
BlockAccepted(k) ==
    /\ k \in candidates
    /\ dispatches' = [dispatches EXCEPT ![RequestOf(k)][PositionOf(k)] = "blocked"]
    /\ logical' = [logical EXCEPT ![RequestOf(k)].status = "blocked"]
    /\ UNCHANGED <<enabled, policy, candidates, messageOf>>

BlockCandidate(k) ==
    /\ k \in candidates
    /\ logical[RequestOf(k)].accepted = Null
    /\ dispatches' = [dispatches EXCEPT ![RequestOf(k)][PositionOf(k)] = "blocked"]
    /\ logical' = [logical EXCEPT ![RequestOf(k)].status = "blocked"]
    /\ UNCHANGED <<enabled, policy, candidates, messageOf>>

DispatchStep(r) ==
    \/ ReserveDispatch(r)
    \/ ReserveFallback(r)
    \/ \E i \in Positions :
          \/ MarkExecuting(r, i)
          \/ MarkUnknown(r, i)
          \/ MarkFailed(r, i)
          \/ \E x \in Responses : RecordCandidate(r, i, x)

Next ==
    \/ \E p \in Projects, on \in BOOLEAN :
          \/ SetDispatchEnabled(p, on)
          \/ \E n \in 0 .. MaxFallbacks : SetSettings(p, on, n)
    \/ \E r \in Requests :
          \/ \E c \in Contents, n \in 0 .. MaxFallbacks : CreateRequest(r, c, n)
          \/ DispatchStep(r)
    \/ \E k \in CandidateIds :
          \/ BlockCandidate(k)
          \/ \E m \in Messages : AcceptCandidate(k, m)

Spec == Init /\ [][Next]_storeVars

-----------------------------------------------------------------------------
(* At most one dispatch of a request can still be billed or answered: all  *)
(* but the newest were qualified failures.  The comment "Unknown attempts  *)
(* can never enter here" of reserve_dispatch rests on this, and the worker *)
(* raises "fallback history contains a non-failed prior dispatch" if it is *)
(* ever false.                                                             *)
OneOpenDispatch ==
    \A r \in Requests : \A i \in DOMAIN dispatches[r] :
        i < Used(r) => dispatches[r][i] = "failed"

(* The status a writer is shown is never out of step with the dispatch the *)
(* worker and the executor act on, although the two tables are updated by  *)
(* methods that check only one of them.                                    *)
StatusAgrees(r) ==
    LET s == logical[r].status IN
    /\ s \in {"absent", "queued"} <=> dispatches[r] = <<>>
    /\ s = "dispatching" => LastStatus(r) \in {"reserved", "executing"}
    /\ s \in {"unknown", "failed", "candidate"} => LastStatus(r) = s
    /\ s = "blocked" => LastStatus(r) = "blocked"
    /\ s = "accepted" => LastStatus(r) \in {"candidate", "blocked"}

LogicalFollowsDispatch == \A r \in Requests : StatusAgrees(r)

(* The frozen policy, not the current settings, is the dispatch budget.    *)
DispatchBudget ==
    \A r \in Requests :
        Used(r) <= (IF Created(r) THEN Authorized(r) ELSE 0)

(* A request holds at most one candidate, and its last dispatch holds it:  *)
(* a writer can never be offered two provider answers for one turn.        *)
OneCandidate ==
    \A k, l \in candidates : RequestOf(k) = RequestOf(l) => k = l

(* The two records of an acceptance, candidate row and logical row, agree. *)
AcceptanceAgrees ==
    \A k \in CandidateIds :
        /\ messageOf[k] # Null <=> logical[RequestOf(k)].accepted = k
        /\ messageOf[k] # Null =>
              k \in candidates /\ logical[RequestOf(k)].status = "accepted"

(* The three tables tell one story, though each method checks only one or  *)
(* two of them: the request follows its newest dispatch, it holds at most  *)
(* one answer, and an acceptance stands in both rows or in neither.        *)
CustodyTablesAgree ==
    /\ LogicalFollowsDispatch
    /\ OneCandidate
    /\ AcceptanceAgrees

(* The custody tables are sound: a request is never billed beyond its      *)
(* frozen policy, at most one of its dispatches is open, and the tables    *)
(* agree, whatever a crash, a late answer or a second process interleaves. *)
CustodySound ==
    /\ TypeOK
    /\ OneOpenDispatch
    /\ DispatchBudget
    /\ CustodyTablesAgree

(* What makes the invariants above inductive: a candidate always hangs on  *)
(* the newest dispatch, and a bound candidate is one of this very request. *)
CandidateHeld ==
    \A k \in candidates :
        /\ PositionOf(k) = Used(RequestOf(k))
        /\ LastStatus(RequestOf(k)) \in {"candidate", "blocked"}

AcceptedHeld ==
    \A r \in Requests :
        /\ logical[r].accepted # Null <=> logical[r].status = "accepted"
        /\ logical[r].accepted # Null =>
              logical[r].accepted \in candidates /\ RequestOf(logical[r].accepted) = r

StoreInv ==
    /\ TypeOK
    /\ OneOpenDispatch
    /\ LogicalFollowsDispatch
    /\ DispatchBudget
    /\ OneCandidate
    /\ CandidateHeld
    /\ AcceptedHeld
    /\ AcceptanceAgrees

(* Once an answer is in custody no later report about the dispatch (a late *)
(* mark_unknown of the worker, a second response, a fallback) can take the *)
(* request back to a state in which the answer looks missing.              *)
CustodyKept ==
    [][\A k \in candidates :
          /\ k \in candidates'
          /\ logical'[RequestOf(k)].status \in {"candidate", "blocked", "accepted"}]_storeVars

(* An acceptance is permanent: same message, same status, no more dispatch.*)
AcceptanceFinal ==
    [][\A k \in CandidateIds : messageOf[k] # Null =>
          /\ messageOf'[k] = messageOf[k]
          /\ logical'[RequestOf(k)] = logical[RequestOf(k)]
          /\ dispatches'[RequestOf(k)] = dispatches[RequestOf(k)]]_storeVars

(* A provider outcome that is not known to be a failure never leads to     *)
(* another dispatch of the same writer turn: the only step that adds one   *)
(* starts from no dispatch or from a qualified failure.                    *)
NoRedispatchOfOpenWork ==
    [][\A r \in Requests : Len(dispatches'[r]) # Used(r) =>
          \A i \in DOMAIN dispatches[r] : dispatches[r][i] = "failed"]_storeVars
=============================================================================
