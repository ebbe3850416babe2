------------------------- MODULE GenerationExecution -------------------------
(***************************************************************************)
(* One generation from the writer's click to the provider and back into    *)
(* custody: the submitting half of chat_completions (adapter.py), the      *)
(* generation worker (generation_worker.py), the executor processes and    *)
(* their attempt journal (generation_executor.py), and the resolver that   *)
(* ag-ng calls (generation_boundaries.py), over the GenerationStore.       *)
(*                                                                         *)
(* The web process, the one worker process and every executor process run  *)
(* concurrently; each database transaction is atomic and a process may die *)
(* between any two.  ag-loopctl and Docket are external: ag-ng keeps one   *)
(* program counter per dispatch, and Docket starts executors, perhaps more *)
(* than once for the same attempt.  A dispatch has one Docket attempt.     *)
(***************************************************************************)
EXTENDS GenerationStore

CONSTANTS
    Executors,          \* bound: executor processes alive at once
    DefinitiveFailures, \* is a refusal raised as ProviderDefinitiveFailure?
    MaxFaults           \* bound: crashes, failed commands, redeliveries

ASSUME GenerationExecutionAssumption ==
    /\ DefinitiveFailures \in BOOLEAN
    /\ MaxFaults \in Nat

VARIABLES
    submitting,  \* requests whose web handler is between create and reserve
    listed,      \* rest of the worker's pass: <<request, status when listed>>
    worker,      \* what the worker is doing, and with which dispatch
    counter,     \* ag-ng program counter of a dispatch
    started,     \* dispatches with a dispatch-command-started marker
    attempt,     \* executor journal: state of the attempt of a dispatch
    executor,    \* executor processes
    calls,       \* provider invocations so far, by dispatch
    refused,     \* dispatches whose provider answered with an error of its own
    faults       \* faults so far

workerVars == <<listed, worker, counter, started>>
execVars   == <<attempt, executor, calls, refused>>
vars == <<storeVars, submitting, workerVars, execVars, faults>>

-----------------------------------------------------------------------------
DispatchIds == Requests \X Positions
StatusOf(d) == dispatches[d[1]][d[2]]
Exists(d) == d[2] \in DOMAIN dispatches[d[1]]

(* Mutant: run_once leaves queued requests to the web process.             *)
SelectedWithoutQueued == {"dispatching", "unknown", "failed"}

(* Statuses run_once selects, and those the resolver calls dispatchable.   *)
Selected == {"queued", "dispatching", "unknown", "failed"}
Dispatchable(r) == logical[r].status \in {"dispatching", "unknown"}

(* The commands of drive() up to the authorization, by program counter.    *)
GateStep == [observation_required             |-> "proposal_recorded",
             proposal_recorded                |-> "standing_required",
             standing_required                |-> "admissible_pending_authorization",
             admissible_pending_authorization |-> "authorization_consumed"]

(* require-standing is the one command that runs without a resolver.       *)
(* A shut gate stops drive() for good: DispatchSettles would notice.       *)
GateOpen(d) == counter[d] = "proposal_recorded" \/ Dispatchable(d[1])

(* Counters on which drive() returns at once; process_one marks nothing.   *)
Closed == {"settled_observation_required", "halted", "completed"}

Counters == DOMAIN GateStep \cup Closed \cup
    {"uninitialized", "authorization_consumed", "dispatched", "reconciliation_required"}

AttemptStates == {"none", "reserved", "executing", "success", "failure", "indeterminate"}
Terminal == {"success", "failure", "indeterminate"}

ExecutorPhases == {"exited", "reserve", "begin", "mark", "call", "wait", "record",
                   "candidate_refused", "failed", "unknown", "success",
                   "failure", "indeterminate"}

NoWork == [phase |-> "idle", d |-> Null]
Exited == [phase |-> "exited", d |-> Null, response |-> Null]
Idle == worker.phase = "idle"
Driving(d) == worker = [phase |-> "drive", d |-> d]
Running(e, phase) == executor[e].phase = phase
LiveExecutor(d) == \E e \in Executors : executor[e].d = d

ExecutionTypeOK ==
    /\ TypeOK
    /\ submitting \subseteq Requests
    /\ listed \subseteq Requests \X Selected
    /\ worker \in [phase : {"idle", "prepare", "drive", "dispatch"}, d : DispatchIds \cup {Null}]
    /\ counter \in [DispatchIds -> Counters]
    /\ started \subseteq DispatchIds
    /\ attempt \in [DispatchIds -> AttemptStates]
    /\ executor \in [Executors -> [phase    : ExecutorPhases,
                                   d        : DispatchIds \cup {Null},
                                   response : Responses \cup {Null}]]
    /\ calls \in [DispatchIds -> Nat]
    /\ refused \subseteq DispatchIds
    /\ faults \in 0 .. MaxFaults

ExecutionInit ==
    /\ Init
    /\ submitting = {}
    /\ listed = {}
    /\ worker = NoWork
    /\ counter = [d \in DispatchIds |-> "uninitialized"]
    /\ started = {}
    /\ attempt = [d \in DispatchIds |-> "none"]
    /\ executor = [e \in Executors |-> Exited]
    /\ calls = [d \in DispatchIds |-> 0]
    /\ refused = {}
    /\ faults = 0

Fault == faults < MaxFaults /\ faults' = faults + 1

-----------------------------------------------------------------------------
(* The web process.  One event loop runs a handler to its end, so the      *)
(* settings cannot change between the two transactions of a submission,    *)
(* but the worker can see the queued row and the process can die.          *)
ChangeSettings(p, on, n) ==
    /\ submitting = {}
    /\ SetSettings(p, on, n)
    /\ UNCHANGED <<submitting, workerVars, execVars, faults>>

Submit(r, content) ==
    /\ submitting = {}
    /\ DispatchEnabled(ProjectOf(r))
    /\ CreateRequest(r, content, policy[ProjectOf(r)])
    /\ submitting' = {r}
    /\ UNCHANGED <<workerVars, execVars, faults>>

(* reserve_dispatch, unless the worker was faster.                         *)
ReserveSubmitted(r) ==
    /\ r \in submitting
    /\ \/ Used(r) = 0 /\ ReserveDispatch(r)
       \/ Used(r) > 0 /\ UNCHANGED storeVars
    /\ submitting' = {}
    /\ UNCHANGED <<workerVars, execVars, faults>>

WebCrash ==
    /\ submitting # {}
    /\ submitting' = {}
    /\ Fault
    /\ UNCHANGED <<storeVars, workerVars, execVars>>

-----------------------------------------------------------------------------
(* The worker: run_once lists the open requests and processes each of them.*)
WorkerList ==
    /\ Idle /\ listed = {}
    /\ listed' = {<<r, logical[r].status>> : r \in {q \in Requests : logical[q].status \in Selected}}
    /\ listed' # {}
    /\ UNCHANGED <<storeVars, submitting, worker, counter, started, execVars, faults>>

(* A request with no dispatch is reserved, one listed as failed gets its   *)
(* next fallback, any other continues with its newest dispatch.            *)
NeedsReservation(r, status) == status = "failed" \/ Used(r) = 0
WorkerReserves(r) == ReserveDispatch(r) \/ ReserveFallback(r)

WorkerStart(r, status) ==
    /\ Idle /\ <<r, status>> \in listed
    /\ listed' = listed \ {<<r, status>>}
    /\ IF NeedsReservation(r, status) THEN WorkerReserves(r) ELSE UNCHANGED storeVars
    /\ worker' = [phase |-> "prepare", d |-> <<r, Len(dispatches'[r])>>]
    /\ UNCHANGED <<submitting, counter, started, execVars, faults>>

(* The reservation is refused: switched off, or the policy is exhausted.   *)
WorkerSkip(r, status) ==
    /\ Idle /\ <<r, status>> \in listed
    /\ NeedsReservation(r, status)
    /\ ~DispatchEnabled(ProjectOf(r)) \/ Used(r) >= Authorized(r)
    /\ listed' = listed \ {<<r, status>>}
    /\ UNCHANGED <<storeVars, submitting, worker, counter, started, execVars, faults>>

(* prepare(): sealed configuration, and the ag-ng database on first use.   *)
WorkerPrepare(d) ==
    /\ worker = [phase |-> "prepare", d |-> d]
    /\ worker' = [worker EXCEPT !.phase = "drive"]
    /\ counter' = [counter EXCEPT ![d] =
           IF @ = "uninitialized" THEN "observation_required" ELSE @]
    /\ UNCHANGED <<storeVars, submitting, listed, started, execVars, faults>>

(* prepare() is outside the try of process_one: its failure marks nothing. *)
PrepareFails ==
    /\ worker.phase = "prepare"
    /\ worker' = NoWork
    /\ Fault
    /\ UNCHANGED <<storeVars, submitting, listed, counter, started, execVars>>

(* A command of ag-ng advances its program, or halts it.                   *)
AgCommand(d, next) ==
    /\ \E state \in {next, "halted"} : counter' = [counter EXCEPT ![d] = state]
    /\ UNCHANGED <<storeVars, submitting, listed, worker, started, execVars, faults>>

RunGate(d) ==
    /\ Driving(d)
    /\ counter[d] \in DOMAIN GateStep
    /\ GateOpen(d)
    /\ AgCommand(d, GateStep[counter[d]])

(* Mutant: an exception of the worker is taken for a failed dispatch.      *)
MarkFailedOnException(d) ==
    IF StatusOf(d) \in {"reserved", "executing"}
    THEN MarkFailed(d[1], d[2])
    ELSE UNCHANGED storeVars

(* Mutant: an exception of the worker overwrites what is in custody.       *)
MarkUnknownAnyway(d) ==
    /\ dispatches' = [dispatches EXCEPT ![d[1]][d[2]] = "unknown"]
    /\ logical' = [logical EXCEPT ![d[1]].status = "unknown"]
    /\ UNCHANGED <<enabled, policy, candidates, messageOf>>

(* process_one on any exception of drive(), and on an unreconciled attempt.*)
MarkIndeterminate(d) ==
    IF StatusOf(d) \in {"reserved", "executing"}
    THEN MarkUnknown(d[1], d[2])
    ELSE UNCHANGED storeVars

(* Mutant: the worker gives up and tells nobody.                           *)
GiveUpSilently(d) ==
    /\ d \in DispatchIds
    /\ worker' = NoWork
    /\ UNCHANGED <<storeVars, submitting, listed, started>>

WorkerGivesUp(d) ==
    /\ MarkIndeterminate(d)
    /\ worker' = NoWork
    /\ UNCHANGED <<submitting, listed, started>>

(* Any ag-loopctl command may fail for reasons of its own.                 *)
CommandFails(d) ==
    /\ Driving(d) /\ counter[d] \notin Closed
    /\ WorkerGivesUp(d)
    /\ Fault
    /\ UNCHANGED <<counter, execVars>>

MarkStarted(d) ==
    /\ Driving(d)
    /\ counter[d] = "authorization_consumed" /\ d \notin started
    /\ started' = started \cup {d}
    /\ worker' = [worker EXCEPT !.phase = "dispatch"]
    /\ UNCHANGED <<storeVars, submitting, listed, counter, execVars, faults>>

Spawn(d) ==
    \E e \in Executors :
        /\ Running(e, "exited")
        /\ executor' = [executor EXCEPT ![e] = [phase |-> "reserve", d |-> d, response |-> Null]]
        /\ UNCHANGED <<attempt, calls, refused>>

(* The dispatch command: Docket starts the executor.  On a fault either    *)
(* nothing happened, or the executor started and the reply was lost.       *)
RunDispatch(d) ==
    /\ worker = [phase |-> "dispatch", d |-> d]
    /\ \/ Spawn(d) /\ counter' = [counter EXCEPT ![d] = "dispatched"]
       \/ UNCHANGED execVars /\ counter' = [counter EXCEPT ![d] = "halted"]
    /\ worker' = [worker EXCEPT !.phase = "drive"]
    /\ UNCHANGED <<storeVars, submitting, listed, started, faults>>

DispatchFails(d) ==
    /\ worker = [phase |-> "dispatch", d |-> d]
    /\ WorkerGivesUp(d)
    /\ Fault
    /\ \/ UNCHANGED <<counter, execVars>>
       \/ Spawn(d) /\ counter' = [counter EXCEPT ![d] = "dispatched"]
       \/ Spawn(d) /\ UNCHANGED counter

(* poll: Docket knows the stored outcome, or that the executor has gone.   *)
Poll(d) ==
    /\ Driving(d)
    /\ counter[d] = "dispatched"
    /\ ~LiveExecutor(d)
    /\ AgCommand(d, IF attempt[d] \in {"success", "failure"}
                    THEN "settled_observation_required"
                    ELSE "reconciliation_required")

(* The executor's reconcile is read only: an attempt with no stored        *)
(* outcome is indeterminate, even while its process still runs.            *)
Reconciled(d) ==
    IF attempt[d] \in {"success", "failure"}
    THEN "settled_observation_required"
    ELSE "reconciliation_required"

(* A marker without a dispatch command on record: recover, never dispatch. *)
RecoverStarted(d) ==
    /\ Driving(d)
    /\ counter[d] = "authorization_consumed" /\ d \in started
    /\ AgCommand(d, Reconciled(d))

(* The last command of drive() on an unreconciled attempt, then process_one*)
(* gives the dispatch up as unknown.                                       *)
RecoverReturns(d) ==
    /\ Driving(d)
    /\ counter[d] = "reconciliation_required"
    /\ \E state \in {Reconciled(d), "halted"} : counter' = [counter EXCEPT ![d] = state]
    /\ WorkerGivesUp(d)
    /\ UNCHANGED <<execVars, faults>>

DriveReturns(d) ==
    /\ Driving(d)
    /\ counter[d] \in Closed
    /\ worker' = NoWork
    /\ UNCHANGED <<storeVars, submitting, listed, counter, started, execVars, faults>>

(* The last observation of a settled program is recorded outside Marginalia.*)
Completes(d) ==
    /\ counter[d] = "settled_observation_required"
    /\ counter' = [counter EXCEPT ![d] = "completed"]
    /\ UNCHANGED <<storeVars, submitting, listed, worker, started, execVars, faults>>

WorkerCrash ==
    /\ worker # NoWork \/ listed # {}
    /\ worker' = NoWork
    /\ listed' = {}
    /\ Fault
    /\ UNCHANGED <<storeVars, submitting, counter, started, execVars>>

WorkerStep ==
    \/ WorkerList
    \/ \E r \in Requests, s \in Selected : WorkerStart(r, s) \/ WorkerSkip(r, s)
    \/ \E d \in DispatchIds :
          \/ WorkerPrepare(d)
          \/ RunGate(d)
          \/ MarkStarted(d) \/ RunDispatch(d)
          \/ Poll(d) \/ RecoverStarted(d) \/ RecoverReturns(d) \/ DriveReturns(d)

-----------------------------------------------------------------------------
(* One executor process, GenerationExecutor.execute.                       *)
Advance(e, phase) == executor' = [executor EXCEPT ![e].phase = phase]
Exit(e) == executor' = [executor EXCEPT ![e] = Exited]
ExecutorOnly == UNCHANGED <<submitting, workerVars, faults>>

(* attempts.reserve: a stored outcome is replayed, and an attempt that is  *)
(* already executing is refused; both end the process.                     *)
ReserveAttempt(e) ==
    LET d == executor[e].d IN
    /\ Running(e, "reserve")
    /\ IF attempt[d] \in {"none", "reserved"}
       THEN attempt' = [attempt EXCEPT ![d] = "reserved"] /\ Advance(e, "begin")
       ELSE UNCHANGED attempt /\ Exit(e)
    /\ ExecutorOnly /\ UNCHANGED <<storeVars, calls, refused>>

(* Mutant: begin without comparing the state.                              *)
BeginAnyAttempt(e) ==
    LET d == executor[e].d IN
    /\ Running(e, "begin")
    /\ attempt' = [attempt EXCEPT ![d] = "executing"] /\ Advance(e, "mark")
    /\ ExecutorOnly /\ UNCHANGED <<storeVars, calls, refused>>

BeginAttempt(e) ==
    LET d == executor[e].d IN
    /\ Running(e, "begin")
    /\ IF attempt[d] = "reserved"
       THEN attempt' = [attempt EXCEPT ![d] = "executing"] /\ Advance(e, "mark")
       ELSE UNCHANGED attempt /\ Exit(e)
    /\ ExecutorOnly /\ UNCHANGED <<storeVars, calls, refused>>

(* mark_executing; any other status but executing raises outside the try,  *)
(* so the journal keeps saying "executing" for an attempt that never called*)
(* the provider.                                                           *)
MarkDispatch(e) ==
    LET d == executor[e].d IN
    /\ Running(e, "mark")
    /\ \/ MarkExecuting(d[1], d[2]) /\ Advance(e, "call")
       \/ StatusOf(d) = "executing" /\ UNCHANGED storeVars /\ Advance(e, "call")
       \/ StatusOf(d) \notin {"reserved", "executing"} /\ UNCHANGED storeVars /\ Exit(e)
    /\ ExecutorOnly /\ UNCHANGED <<attempt, calls, refused>>

CallProvider(e) ==
    LET d == executor[e].d IN
    /\ Running(e, "call")
    /\ calls' = [calls EXCEPT ![d] = @ + 1]
    /\ Advance(e, "wait")
    /\ ExecutorOnly /\ UNCHANGED <<storeVars, attempt, refused>>

ProviderResponds(e, x) ==
    /\ Running(e, "wait")
    /\ executor' = [executor EXCEPT ![e].phase = "record", ![e].response = x]
    /\ ExecutorOnly /\ UNCHANGED <<storeVars, attempt, calls, refused>>

(* The provider answers with an error of its own.  Only an exception of    *)
(* the class ProviderDefinitiveFailure is a qualified failure.             *)
ProviderRefuses(e) ==
    /\ Running(e, "wait")
    /\ refused' = refused \cup {executor[e].d}
    /\ Advance(e, IF DefinitiveFailures THEN "failed" ELSE "unknown")
    /\ ExecutorOnly /\ UNCHANGED <<storeVars, attempt, calls>>

(* Nothing readable comes back: timeout, closed socket, unusable reply.    *)
ProviderLost(e) ==
    /\ Running(e, "wait")
    /\ Advance(e, "unknown")
    /\ ExecutorOnly /\ UNCHANGED <<storeVars, attempt, calls, refused>>

(* evidence_writer, then record_candidate.                                 *)
EvidenceFails(e) ==
    /\ Running(e, "record")
    /\ Advance(e, "unknown")
    /\ Fault
    /\ UNCHANGED <<storeVars, submitting, workerVars, attempt, calls, refused>>

RecordResponse(e) ==
    LET d == executor[e].d  x == executor[e].response IN
    /\ Running(e, "record")
    /\ \/ RecordCandidate(d[1], d[2], x) /\ Advance(e, "success")
       \/ <<d[1], d[2], x>> \in candidates /\ UNCHANGED storeVars /\ Advance(e, "success")
       \/ /\ <<d[1], d[2], x>> \notin candidates /\ ~RecordAllowed(d[1], d[2])
          /\ UNCHANGED storeVars /\ Advance(e, "candidate_refused")
    /\ ExecutorOnly /\ UNCHANGED <<attempt, calls, refused>>

(* The two except branches; a refused mark raises and ends the process.    *)
ReportFailed(e) ==
    LET d == executor[e].d IN
    /\ Running(e, "failed")
    /\ \/ MarkFailed(d[1], d[2]) /\ Advance(e, "failure")
       \/ StatusOf(d) \notin {"reserved", "executing"} /\ UNCHANGED storeVars /\ Exit(e)
    /\ ExecutorOnly /\ UNCHANGED <<attempt, calls, refused>>

ReportUnknown(e) ==
    LET d == executor[e].d IN
    /\ Running(e, "unknown") \/ Running(e, "candidate_refused")
    /\ \/ MarkUnknown(d[1], d[2]) /\ Advance(e, "indeterminate")
       \/ StatusOf(d) \notin {"reserved", "executing"} /\ UNCHANGED storeVars /\ Exit(e)
    /\ ExecutorOnly /\ UNCHANGED <<attempt, calls, refused>>

(* attempts.finish: the first outcome of an attempt stays.                 *)
FinishAttempt(e) ==
    LET d == executor[e].d IN
    /\ executor[e].phase \in Terminal
    /\ attempt' = [attempt EXCEPT ![d] = IF @ \in Terminal THEN @ ELSE executor[e].phase]
    /\ Exit(e)
    /\ ExecutorOnly /\ UNCHANGED <<storeVars, calls, refused>>

ExecutorCrash(e) ==
    /\ ~Running(e, "exited")
    /\ Exit(e)
    /\ Fault
    /\ UNCHANGED <<storeVars, submitting, workerVars, attempt, calls, refused>>

(* Docket presents an attempt it already started once more.                *)
Redeliver(d) ==
    /\ counter[d] \in {"dispatched", "reconciliation_required"}
    /\ Spawn(d)
    /\ Fault
    /\ UNCHANGED <<storeVars, submitting, workerVars>>

ExecutorStep(e) ==
    \/ ReserveAttempt(e) \/ BeginAttempt(e) \/ MarkDispatch(e) \/ CallProvider(e)
    \/ ProviderRefuses(e) \/ ProviderLost(e) \/ \E x \in Responses : ProviderResponds(e, x)
    \/ RecordResponse(e) \/ ReportFailed(e) \/ ReportUnknown(e) \/ FinishAttempt(e)

FaultStep ==
    \/ WebCrash \/ WorkerCrash \/ PrepareFails
    \/ \E d \in DispatchIds : CommandFails(d) \/ DispatchFails(d) \/ Redeliver(d)
    \/ \E e \in Executors : EvidenceFails(e) \/ ExecutorCrash(e)

WebStep ==
    \/ \E p \in Projects, on \in BOOLEAN, n \in 0 .. MaxFallbacks : ChangeSettings(p, on, n)
    \/ \E r \in Requests : ReserveSubmitted(r) \/ \E c \in Contents : Submit(r, c)

ExecutionNext ==
    \/ WebStep
    \/ WorkerStep
    \/ \E e \in Executors : ExecutorStep(e)
    \/ \E d \in DispatchIds : Completes(d)
    \/ FaultStep

ExecutionSpec == ExecutionInit /\ [][ExecutionNext]_vars

(* The worker process is restarted and loops forever, handlers run to      *)
(* their end, and every executor advances; a provider call ends because    *)
(* every daemon RPC has a deadline.  Faults, and what a writer does, are   *)
(* never assumed to happen.                                                *)
FairExecution ==
    /\ ExecutionSpec
    /\ WF_vars(WorkerStep)
    /\ \A e \in Executors : WF_vars(ExecutorStep(e))
    /\ \A r \in Requests : WF_vars(ReserveSubmitted(r))
-----------------------------------------------------------------------------
(* One dispatch is one possible charge: whatever crashes, is delivered     *)
(* again or runs twice at once, its provider is invoked at most once.      *)
ProviderCalledAtMostOnce == \A d \in DispatchIds : calls[d] <= 1

(* A fallback never runs beside the attempt it replaces: when a dispatch   *)
(* has been called, every earlier one was called, has failed, and no       *)
(* process is still between its provider and its journal.                  *)
FallbackAfterFailure ==
    \A c, d \in DispatchIds :
        c[1] = d[1] /\ c[2] < d[2] /\ calls[d] > 0 =>
            /\ calls[c] = 1
            /\ StatusOf(c) = "failed"
            /\ \A e \in Executors : executor[e].d = c =>
                   executor[e].phase \notin {"call", "wait", "record", "unknown"}

(* The journal Docket reconciles from and the store writers see never tell *)
(* different stories, although they are two databases written in turn.     *)
JournalAgrees ==
    \A d \in DispatchIds :
        /\ attempt[d] = "success" => CandidatesOf(d[1], d[2]) # {}
        /\ attempt[d] = "failure" => StatusOf(d) = "failed"
        /\ attempt[d] = "indeterminate" => StatusOf(d) = "unknown"
        /\ CandidatesOf(d[1], d[2]) # {} => attempt[d] \in {"executing", "success"}

(* A response the provider gave is never turned away by record_candidate,  *)
(* even when the worker has already declared the outcome unknown.          *)
NoAnswerRefused == \A e \in Executors : ~Running(e, "candidate_refused")

(* The two databases and the processes between them are in step.           *)
ExecutionSound ==
    /\ ExecutionTypeOK
    /\ FallbackAfterFailure
    /\ JournalAgrees
    /\ NoAnswerRefused

(* "Configured fallback after a qualified terminal failure": what the      *)
(* provider itself refused does not end as an outcome nobody knows, from   *)
(* which no fallback may start.                                            *)
RefusalIsKnown ==
    \A d \in refused : ~LiveExecutor(d) => StatusOf(d) # "unknown"

(* The executor's work is a refinement of plain custody of provider calls. *)
Phase(d) ==
    IF CandidatesOf(d[1], d[2]) # {} THEN "answered"
    ELSE IF Exists(d) /\ StatusOf(d) = "failed" THEN "failed"
    ELSE IF calls[d] = 1 THEN "called"
    ELSE IF calls[d] = 0 THEN "unsent" ELSE "charged again"

Custody == INSTANCE ProviderCustody WITH phase <- [d \in DispatchIds |-> Phase(d)]
CustodySpec == Custody!Spec

(* drive() returns on a program that ag-ng halted, and marks nothing.      *)
Halted(r) == \E d \in DispatchIds : d = <<r, Used(r)>> /\ counter[d] = "halted"

(* A dispatch does not stay in flight: the writer is eventually shown an   *)
(* answer, a failure, or that the outcome is unknown, unless ag-ng halts   *)
(* the program of the dispatch.                                            *)
DispatchSettles ==
    \A r \in Requests :
        logical[r].status = "dispatching" ~> logical[r].status # "dispatching" \/ Halted(r)

(* Does not hold without the exception: a halted program is never driven   *)
(* again, and nothing marks its dispatch.                                  *)
EveryDispatchSettles ==
    \A r \in Requests :
        logical[r].status = "dispatching" ~> logical[r].status # "dispatching"

(* A submission whose handler died before reserving is not forgotten.      *)
QueuedIsServed ==
    \A r \in Requests :
        logical[r].status = "queued" ~>
            logical[r].status # "queued" \/ ~DispatchEnabled(ProjectOf(r))
=============================================================================
