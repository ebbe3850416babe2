---------------------- MODULE GenerationExecutionProofs ----------------------
(***************************************************************************)
(* Proofs about GenerationExecution, for every number of requests,         *)
(* executor processes, crashes and redeliveries: the web process, the      *)
(* worker and the executors use the store as its specification allows, and *)
(* no interleaving of them calls a provider twice for one dispatch.        *)
(***************************************************************************)
EXTENDS GenerationExecution, GenerationStoreProofs

USE GenerationExecutionAssumption

(* The executor that moved the attempt from reserved to executing, until   *)
(* its process ends.                                                       *)
OwnerPhases == {"mark", "call", "wait", "record", "failed", "unknown"} \cup Terminal
Owns(e) == executor[e].phase \in OwnerPhases

(* What is known of the dispatch an executor works on, by its phase.       *)
ExecutorInv(e) ==
    LET d == executor[e].d  phase == executor[e].phase IN
    /\ phase # "exited" => d \in DispatchIds /\ Exists(d)
    /\ phase # "candidate_refused"
    /\ Owns(e) => attempt[d] = "executing"
    /\ phase \in {"mark", "call"} => calls[d] = 0
    /\ phase \in {"wait", "record", "failed", "unknown"} \cup Terminal => calls[d] = 1
    /\ phase \in {"call", "wait", "record", "failed", "unknown"} =>
          StatusOf(d) \in {"executing", "unknown"}
    /\ phase = "record" => executor[e].response \in Responses
    /\ phase = "success" => CandidatesOf(d[1], d[2]) # {}
    /\ phase = "failure" => StatusOf(d) = "failed"
    /\ phase = "indeterminate" => StatusOf(d) = "unknown"

(* What the journal and ag-ng know of a dispatch.                          *)
AttemptInv(d) ==
    /\ counter[d] # "uninitialized" => Exists(d)
    /\ attempt[d] # "none" => Exists(d)
    /\ attempt[d] \in {"none", "reserved"} => calls[d] = 0
    /\ calls[d] \in {0, 1}
    /\ Exists(d) /\ calls[d] = 0 => StatusOf(d) \in {"reserved", "executing", "unknown"}
    /\ attempt[d] = "success" => CandidatesOf(d[1], d[2]) # {}
    /\ attempt[d] = "failure" => StatusOf(d) = "failed"
    /\ attempt[d] = "indeterminate" => StatusOf(d) = "unknown"
    /\ CandidatesOf(d[1], d[2]) # {} => attempt[d] \in {"executing", "success"}

WorkerInv == worker.phase # "idle" => worker.d \in DispatchIds /\ Exists(worker.d)

(* An attempt has one owner.                                               *)
OneOwner ==
    \A e, f \in Executors : Owns(e) /\ Owns(f) /\ executor[e].d = executor[f].d => e = f

ExecutionInv ==
    /\ StoreInv
    /\ ExecutionTypeOK
    /\ WorkerInv
    /\ OneOwner
    /\ \A e \in Executors : ExecutorInv(e)
    /\ \A d \in DispatchIds : AttemptInv(d)

-----------------------------------------------------------------------------
(* What a store transaction does to the rows of a dispatch, seen from the  *)
(* processes: rows are added as "reserved", and an open one may be marked  *)
(* unknown while nobody looks.                                             *)
Aged(d) ==
    /\ Exists(d) => /\ Exists(d)'
                    /\ \/ StatusOf(d)' = StatusOf(d)
                       \/ StatusOf(d) \in {"reserved", "executing"} /\ StatusOf(d)' = "unknown"
    /\ ~Exists(d) /\ Exists(d)' => StatusOf(d)' = "reserved"
    /\ CandidatesOf(d[1], d[2])' = CandidatesOf(d[1], d[2])

(* A dispatch id is its request and its position.                          *)
LEMMA DispatchIdType ==
  ASSUME NEW d \in DispatchIds
  PROVE  d[1] \in Requests /\ d[2] \in Positions /\ d[2] \in Nat /\ d = <<d[1], d[2]>>
  BY DEF DispatchIds, Positions

LEMMA UnchangedAged ==
  ASSUME UNCHANGED storeVars, NEW d \in DispatchIds
  PROVE  Aged(d)
  BY DEF storeVars, Aged, Exists, StatusOf, CandidatesOf

(* A reservation adds one row and keeps the others.                        *)
LEMMA ReserveEffect ==
  ASSUME StoreInv, NEW r \in Requests, NEW s, Reserve(r, s)
  PROVE  /\ \A d \in DispatchIds : Aged(d)
         /\ Len(dispatches'[r]) = Used(r) + 1
         /\ dispatches'[r] # <<>>
  <1>1. dispatches[r] \in Seq(DispatchStatus)
    BY DEF StoreInv, TypeOK
  <1>2. /\ dispatches'[r] = Append(dispatches[r], "reserved")
        /\ \A q \in Requests \ {r} : dispatches'[q] = dispatches[q]
        /\ candidates' = candidates
    BY DEF Reserve, StoreInv, TypeOK
  <1>3. /\ Len(dispatches'[r]) = Used(r) + 1
        /\ dispatches'[r] # <<>>
        /\ DOMAIN dispatches[r] = 1 .. Used(r)
        /\ DOMAIN dispatches'[r] = 1 .. (Used(r) + 1)
        /\ \A i \in 1 .. Used(r) : dispatches'[r][i] = dispatches[r][i]
        /\ dispatches'[r][Used(r) + 1] = "reserved"
        /\ Used(r) \in Nat
    BY <1>1, <1>2, AppendRow DEF Used
  <1>4. ASSUME NEW d \in DispatchIds PROVE Aged(d)
    <2>1. CASE d[1] = r
      BY <1>2, <1>3, <2>1, DispatchIdType DEF Aged, Exists, StatusOf, CandidatesOf
    <2>2. CASE d[1] # r
      BY <1>2, <2>2, DispatchIdType DEF Aged, Exists, StatusOf, CandidatesOf
    <2>3. QED
      BY <2>1, <2>2
  <1>5. QED
    BY <1>3, <1>4

(* A mark changes the status of one existing dispatch.                     *)
LEMMA MarkEffect ==
  ASSUME StoreInv, NEW d \in DispatchIds, NEW expected, NEW new, NEW l,
         DispatchTransition(d[1], d[2], expected, new, l)
  PROVE  /\ Exists(d) /\ Exists(d)'
         /\ StatusOf(d) \in expected
         /\ StatusOf(d)' = new
         /\ \A c \in DispatchIds : CandidatesOf(c[1], c[2])' = CandidatesOf(c[1], c[2])
         /\ \A c \in DispatchIds \ {d} : Aged(c)
  <1>1. /\ d[1] \in Requests
        /\ dispatches[d[1]] \in Seq(DispatchStatus)
        /\ d[2] \in DOMAIN dispatches[d[1]]
        /\ candidates' = candidates
        /\ dispatches' = [dispatches EXCEPT ![d[1]][d[2]] = new]
    BY DispatchIdType DEF DispatchTransition, StoreInv, TypeOK
  <1>2. /\ \A q \in Requests : DOMAIN dispatches'[q] = DOMAIN dispatches[q]
        /\ dispatches'[d[1]][d[2]] = new
        /\ \A q \in Requests : \A i \in DOMAIN dispatches[q] :
              <<q, i>> # <<d[1], d[2]>> => dispatches'[q][i] = dispatches[q][i]
    BY <1>1 DEF StoreInv, TypeOK
  <1>3. \A c \in DispatchIds : CandidatesOf(c[1], c[2])' = CandidatesOf(c[1], c[2])
    BY <1>1 DEF CandidatesOf
  <1>4. ASSUME NEW c \in DispatchIds \ {d} PROVE Aged(c)
    <2>1. <<c[1], c[2]>> # <<d[1], d[2]>> /\ c[1] \in Requests
      BY DispatchIdType
    <2>2. QED
      BY <1>2, <1>3, <2>1 DEF Aged, Exists, StatusOf
  <1>5. QED
    BY <1>1, <1>2, <1>3, <1>4 DEF Exists, StatusOf, DispatchTransition

(* A recorded answer is the candidate of one dispatch.                     *)
LEMMA RecordEffect ==
  ASSUME StoreInv, NEW d \in DispatchIds, NEW x, RecordCandidate(d[1], d[2], x)
  PROVE  /\ Exists(d) /\ Exists(d)'
         /\ StatusOf(d) \in {"executing", "unknown"}
         /\ StatusOf(d)' = "candidate"
         /\ CandidatesOf(d[1], d[2])' # {}
         /\ \A c \in DispatchIds \ {d} : Aged(c)
  <1>1. /\ d[1] \in Requests
        /\ dispatches[d[1]] \in Seq(DispatchStatus)
        /\ d[2] \in DOMAIN dispatches[d[1]]
        /\ dispatches[d[1]][d[2]] \in {"executing", "unknown"}
        /\ candidates' = candidates \cup {<<d[1], d[2], x>>}
        /\ dispatches' = [dispatches EXCEPT ![d[1]][d[2]] = "candidate"]
    BY DispatchIdType DEF RecordCandidate, RecordAllowed, StoreInv, TypeOK
  <1>2. /\ \A q \in Requests : DOMAIN dispatches'[q] = DOMAIN dispatches[q]
        /\ dispatches'[d[1]][d[2]] = "candidate"
        /\ \A q \in Requests : \A i \in DOMAIN dispatches[q] :
              <<q, i>> # <<d[1], d[2]>> => dispatches'[q][i] = dispatches[q][i]
    BY <1>1 DEF StoreInv, TypeOK
  <1>3. <<d[1], d[2], x>> \in CandidatesOf(d[1], d[2])'
    BY <1>1 DEF CandidatesOf
  <1>4. ASSUME NEW c \in DispatchIds \ {d} PROVE Aged(c)
    <2>1. <<c[1], c[2]>> # <<d[1], d[2]>> /\ c[1] \in Requests
      BY DispatchIdType
    <2>2. CandidatesOf(c[1], c[2])' = CandidatesOf(c[1], c[2])
      BY <1>1, <2>1 DEF CandidatesOf
    <2>3. QED
      BY <1>2, <2>1, <2>2 DEF Aged, Exists, StatusOf
  <1>5. QED
    BY <1>1, <1>2, <1>3, <1>4 DEF Exists, StatusOf

(* Only an answered dispatch holds a candidate.                            *)
LEMMA OpenUnanswered ==
  ASSUME StoreInv, NEW d \in DispatchIds
  PROVE  /\ Exists(d) /\ StatusOf(d) \notin {"candidate", "blocked"} => CandidatesOf(d[1], d[2]) = {}
         /\ CandidatesOf(d[1], d[2]) # {} => Exists(d)
         /\ \A c \in DispatchIds : c[1] = d[1] /\ c[2] < d[2] /\ Exists(d) =>
               Exists(c) /\ StatusOf(c) = "failed"
  <1>1. \A k \in CandidatesOf(d[1], d[2]) :
           Exists(d) /\ StatusOf(d) \in {"candidate", "blocked"}
    BY DispatchIdType
    DEF StoreInv, TypeOK, CandidateHeld, CandidatesOf, RequestOf, PositionOf, Exists, StatusOf,
        LastStatus, Used, Positions
  <1>2. ASSUME NEW c \in DispatchIds, c[1] = d[1], c[2] < d[2], Exists(d)
        PROVE  Exists(c) /\ StatusOf(c) = "failed"
    BY <1>2, DispatchIdType DEF StoreInv, TypeOK, OneOpenDispatch, Exists, StatusOf, Used, Positions
  <1>3. QED
    BY <1>1, <1>2

-----------------------------------------------------------------------------
(* Every step of the processes is a step of the store, or leaves it alone. *)

LEMMA MarkIndeterminateStep ==
  ASSUME NEW d \in DispatchIds, MarkIndeterminate(d)
  PROVE  [Next]_storeVars
  BY DispatchIdType DEF MarkIndeterminate, Next, DispatchStep

LEMMA WebStoreStep ==
  ASSUME ExecutionInv, WebStep
  PROVE  [Next]_storeVars
  <1>1. ASSUME NEW p \in Projects, NEW on \in BOOLEAN, NEW n \in 0 .. MaxFallbacks,
               ChangeSettings(p, on, n)
        PROVE  Next
    BY <1>1 DEF ChangeSettings, Next
  <1>2. ASSUME NEW r \in Requests, ReserveSubmitted(r) PROVE [Next]_storeVars
    BY <1>2 DEF ReserveSubmitted, Next, DispatchStep
  <1>3. ASSUME NEW r \in Requests, NEW c \in Contents, Submit(r, c) PROVE Next
    <2>1. policy[ProjectOf(r)] \in 0 .. MaxFallbacks
      BY DEF ExecutionInv, StoreInv, TypeOK, Requests, ProjectOf
    <2>2. QED
      BY <1>3, <2>1 DEF Submit, Next
  <1>4. QED
    BY <1>1, <1>2, <1>3 DEF WebStep

LEMMA WorkerStoreStep ==
  ASSUME ExecutionInv, WorkerStep
  PROVE  [Next]_storeVars
  <1>1. ASSUME NEW r \in Requests, NEW s \in Selected, WorkerStart(r, s) PROVE [Next]_storeVars
    BY <1>1 DEF WorkerStart, WorkerReserves, Next, DispatchStep
  <1>2. ASSUME NEW d \in DispatchIds, RecoverReturns(d) PROVE [Next]_storeVars
    BY <1>2, MarkIndeterminateStep DEF RecoverReturns, WorkerGivesUp
  <1>3. ASSUME NEW d \in DispatchIds,
               WorkerPrepare(d) \/ RunGate(d) \/ MarkStarted(d) \/ RunDispatch(d)
               \/ Poll(d) \/ RecoverStarted(d) \/ DriveReturns(d)
        PROVE  UNCHANGED storeVars
    BY <1>3 DEF WorkerPrepare, RunGate, AgCommand, MarkStarted, RunDispatch, Poll, RecoverStarted,
                DriveReturns
  <1>4. ASSUME NEW r \in Requests, NEW s \in Selected, WorkerSkip(r, s)
        PROVE  UNCHANGED storeVars
    BY <1>4 DEF WorkerSkip
  <1>5. CASE WorkerList
    BY <1>5 DEF WorkerList
  <1>6. QED
    BY <1>1, <1>2, <1>3, <1>4, <1>5 DEF WorkerStep

LEMMA ExecutorStoreStep ==
  ASSUME ExecutionInv, NEW e \in Executors, ExecutorStep(e)
  PROVE  [Next]_storeVars
  <1> DEFINE d == executor[e].d
  <1>1. /\ ExecutorInv(e)
        /\ executor[e].phase # "exited" => /\ d[1] \in Requests
                                           /\ d[2] \in Positions
    BY DispatchIdType DEF ExecutionInv, ExecutorInv
  <1>2. CASE MarkDispatch(e)
    BY <1>1, <1>2 DEF MarkDispatch, Running, Next, DispatchStep
  <1>3. CASE RecordResponse(e)
    BY <1>1, <1>3 DEF RecordResponse, Running, ExecutorInv, Next, DispatchStep
  <1>4. CASE ReportFailed(e) \/ ReportUnknown(e)
    BY <1>1, <1>4 DEF ReportFailed, ReportUnknown, Running, Next, DispatchStep
  <1>5. CASE ReserveAttempt(e) \/ BeginAttempt(e) \/ CallProvider(e) \/ ProviderRefuses(e)
             \/ ProviderLost(e) \/ (\E x \in Responses : ProviderResponds(e, x))
             \/ FinishAttempt(e)
    BY <1>5 DEF ReserveAttempt, BeginAttempt, CallProvider, ProviderRefuses, ProviderLost,
                ProviderResponds, FinishAttempt
  <1>6. QED
    BY <1>2, <1>3, <1>4, <1>5 DEF ExecutorStep

LEMMA FaultStoreStep ==
  ASSUME ExecutionInv, FaultStep
  PROVE  [Next]_storeVars
  <1>1. ASSUME NEW d \in DispatchIds, CommandFails(d) \/ DispatchFails(d) PROVE [Next]_storeVars
    BY <1>1, MarkIndeterminateStep DEF CommandFails, DispatchFails, WorkerGivesUp
  <1>2. ASSUME NEW d \in DispatchIds, Redeliver(d) PROVE UNCHANGED storeVars
    BY <1>2 DEF Redeliver
  <1>3. ASSUME NEW e \in Executors, EvidenceFails(e) \/ ExecutorCrash(e)
        PROVE  UNCHANGED storeVars
    BY <1>3 DEF EvidenceFails, ExecutorCrash
  <1>4. CASE WebCrash \/ WorkerCrash \/ PrepareFails
    BY <1>4 DEF WebCrash, WorkerCrash, PrepareFails
  <1>5. QED
    BY <1>1, <1>2, <1>3, <1>4 DEF FaultStep

LEMMA StoreStep == ExecutionInv /\ [ExecutionNext]_vars => [Next]_storeVars
  BY WebStoreStep, WorkerStoreStep, ExecutorStoreStep, FaultStoreStep
  DEF ExecutionNext, Completes, vars

-----------------------------------------------------------------------------
(* Steps that leave the journal and the calls alone: executors may start on *)
(* an existing dispatch or end, rows may age, ag-ng may go on.             *)

StartsOn(e, d) ==
    executor'[e].phase = "reserve" /\ executor'[e].d = d /\ Exists(d)'

LEMMA QuietAttempt ==
  ASSUME ExecutionInv, NEW d \in DispatchIds, Aged(d),
         attempt'[d] = attempt[d], calls'[d] = calls[d],
         counter'[d] # "uninitialized" => counter[d] # "uninitialized" \/ Exists(d)
  PROVE  AttemptInv(d)'
  BY DEF ExecutionInv, AttemptInv, Aged

LEMMA QuietExecutor ==
  ASSUME ExecutionInv, NEW e \in Executors,
         executor[e].phase # "exited" => /\ Aged(executor[e].d)
                                         /\ attempt'[executor[e].d] = attempt[executor[e].d]
                                         /\ calls'[executor[e].d] = calls[executor[e].d],
         executor'[e] = executor[e]
  PROVE  ExecutorInv(e)'
  BY DEF ExecutionInv, ExecutorInv, Aged, Owns, OwnerPhases, Terminal

LEMMA QuietStep ==
  ASSUME ExecutionInv,
         \A d \in DispatchIds : Aged(d),
         UNCHANGED <<attempt, calls>>,
         \A d \in DispatchIds :
            counter'[d] # "uninitialized" => counter[d] # "uninitialized" \/ Exists(d),
         \A e \in Executors : \/ executor'[e] = executor[e]
                              \/ executor'[e] = Exited
                              \/ \E d \in DispatchIds : StartsOn(e, d)
  PROVE  /\ OneOwner'
         /\ \A e \in Executors : ExecutorInv(e)'
         /\ \A d \in DispatchIds : AttemptInv(d)'
  <1>1. \A d \in DispatchIds : AttemptInv(d)'
    BY QuietAttempt
  <1>2. ASSUME NEW e \in Executors PROVE ExecutorInv(e)'
    <2>1. CASE executor'[e] = executor[e]
      BY <2>1, QuietExecutor DEF ExecutionInv, ExecutorInv
    <2>2. CASE executor'[e] = Exited
      BY <2>2 DEF ExecutorInv, Exited, Owns, OwnerPhases, Terminal
    <2>3. CASE \E d \in DispatchIds : StartsOn(e, d)
      BY <2>3 DEF StartsOn, ExecutorInv, Owns, OwnerPhases, Terminal, Exists
    <2>4. QED
      BY <2>1, <2>2, <2>3
  <1>3. OneOwner'
    <2>1. \A e \in Executors : Owns(e)' => executor'[e] = executor[e]
      BY DEF Owns, OwnerPhases, Terminal, Exited, StartsOn
    <2>2. QED
      BY <2>1 DEF ExecutionInv, OneOwner, Owns
  <1>4. QED
    BY <1>1, <1>2, <1>3

-----------------------------------------------------------------------------
(* The effect on the processes' own variables, for each group of steps.    *)

LEMMA SpawnType ==
  ASSUME ExecutionInv, NEW d \in DispatchIds, Spawn(d)
  PROVE  /\ UNCHANGED <<attempt, calls, refused>>
         /\ executor' \in [Executors -> [phase    : ExecutorPhases,
                                         d        : DispatchIds \cup {Null},
                                         response : Responses \cup {Null}]]
         /\ \A e \in Executors : \/ executor'[e] = executor[e]
                                 \/ executor'[e].phase = "reserve" /\ executor'[e].d = d
  BY DEF Spawn, ExecutionInv, ExecutionTypeOK, ExecutorPhases

LEMMA MarkIndeterminateEffect ==
  ASSUME StoreInv, NEW d \in DispatchIds, MarkIndeterminate(d)
  PROVE  \A c \in DispatchIds : Aged(c)
  <1>1. CASE UNCHANGED storeVars
    BY <1>1, UnchangedAged
  <1>2. CASE MarkUnknown(d[1], d[2])
    BY <1>2, MarkEffect DEF MarkUnknown, Aged
  <1>3. QED
    BY <1>1, <1>2 DEF MarkIndeterminate

LEMMA WebInv ==
  ASSUME ExecutionInv, StoreInv', WebStep \/ WebCrash
  PROVE  ExecutionInv'
  <1> USE DEF ExecutionInv
  <1>1. \A d \in DispatchIds : Aged(d)
    <2>1. CASE \E r \in Requests : ReserveSubmitted(r)
      BY <2>1, ReserveEffect, UnchangedAged DEF ReserveSubmitted, ReserveDispatch
    <2>2. CASE (\E p \in Projects, on \in BOOLEAN, n \in 0 .. MaxFallbacks : ChangeSettings(p, on, n))
               \/ (\E r \in Requests, c \in Contents : Submit(r, c)) \/ WebCrash
      BY <2>2 DEF ChangeSettings, SetSettings, Submit, CreateRequest, WebCrash, storeVars,
                  Aged, Exists, StatusOf, CandidatesOf
    <2>3. QED
      BY <2>1, <2>2 DEF WebStep
  <1>2. UNCHANGED <<workerVars, execVars>> /\ submitting' \subseteq Requests
        /\ faults' \in 0 .. MaxFaults
    BY DEF WebStep, WebCrash, ChangeSettings, Submit, ReserveSubmitted, ExecutionTypeOK, Fault
  <1>3. ExecutionTypeOK'
    BY <1>2 DEF ExecutionTypeOK, StoreInv, workerVars, execVars
  <1>4. WorkerInv'
    BY <1>1, <1>2 DEF WorkerInv, workerVars, Aged, Exists
  <1>5. QED
    BY <1>1, <1>2, <1>3, <1>4, QuietStep DEF workerVars, execVars

(* What a step of the worker changes, once its rows are known to age only. *)
LEMMA WorkerFrame ==
  ASSUME ExecutionInv, StoreInv',
         \A d \in DispatchIds : Aged(d),
         UNCHANGED <<submitting, execVars>>,
         listed' \subseteq Requests \X Selected,
         worker' \in [phase : {"idle", "prepare", "drive", "dispatch"}, d : DispatchIds \cup {Null}],
         counter' \in [DispatchIds -> Counters],
         \A d \in DispatchIds :
            counter'[d] # "uninitialized" => counter[d] # "uninitialized" \/ Exists(d),
         started' \subseteq DispatchIds,
         faults' \in 0 .. MaxFaults,
         WorkerInv'
  PROVE  ExecutionInv'
  <1>1. ExecutionTypeOK'
    BY DEF ExecutionInv, StoreInv, ExecutionTypeOK, execVars
  <1>2. /\ UNCHANGED <<attempt, calls>>
        /\ \A e \in Executors : executor'[e] = executor[e]
    BY DEF execVars
  <1>3. QED
    BY <1>1, <1>2, QuietStep DEF ExecutionInv

(* The same when the dispatch command starts an executor.                  *)
LEMMA SpawnFrame ==
  ASSUME ExecutionInv, StoreInv', NEW d \in DispatchIds, Exists(d), Spawn(d),
         \A c \in DispatchIds : Aged(c),
         UNCHANGED submitting,
         listed' \subseteq Requests \X Selected,
         worker' \in [phase : {"idle", "prepare", "drive", "dispatch"}, d : DispatchIds \cup {Null}],
         counter' \in [DispatchIds -> Counters],
         \A c \in DispatchIds :
            counter'[c] # "uninitialized" => counter[c] # "uninitialized" \/ Exists(c),
         started' \subseteq DispatchIds,
         faults' \in 0 .. MaxFaults,
         WorkerInv'
  PROVE  ExecutionInv'
  <1>1. ExecutionTypeOK'
    BY SpawnType DEF ExecutionInv, StoreInv, ExecutionTypeOK
  <1>2. \A e \in Executors : executor'[e] = executor[e] \/ StartsOn(e, d)
    BY SpawnType DEF StartsOn, Aged
  <1>3. UNCHANGED <<attempt, calls>>
    BY SpawnType
  <1>4. QED
    BY <1>1, <1>2, <1>3, QuietStep DEF ExecutionInv

LEMMA WorkerStartInv ==
  ASSUME ExecutionInv, StoreInv', NEW r \in Requests, NEW s \in Selected, WorkerStart(r, s)
  PROVE  ExecutionInv'
  <1> USE DEF ExecutionInv
  <1>1. (\A d \in DispatchIds : Aged(d)) /\ Len(dispatches'[r]) # 0
    <2>1. dispatches'[r] \in Seq(DispatchStatus)
      BY DEF StoreInv, TypeOK
    <2>2. CASE NeedsReservation(r, s) /\ WorkerReserves(r)
      BY <2>1, <2>2, ReserveEffect DEF WorkerReserves, ReserveDispatch, ReserveFallback
    <2>3. QED
      BY <2>1, <2>2, UnchangedAged DEF WorkerStart, NeedsReservation, Used, storeVars
  <1> DEFINE d == <<r, Len(dispatches'[r])>>
  <1>2. /\ Len(dispatches'[r]) \in 1 .. (MaxFallbacks + 1)
        /\ Len(dispatches'[r]) \in DOMAIN dispatches'[r]
    <2>1. /\ dispatches'[r] \in Seq(DispatchStatus)
          /\ logical'[r].fallbacks \in 0 .. MaxFallbacks
      BY DEF StoreInv, TypeOK, LogicalRow
    <2>2. Len(dispatches'[r]) <= IF (Created(r))' THEN 1 + logical'[r].fallbacks ELSE 0
      BY DEF StoreInv, DispatchBudget, Used, Authorized
    <2>3. QED
      BY <1>1, <2>1, <2>2, GenerationStoreAssumption
  <1>3. d \in DispatchIds /\ worker' = [phase |-> "prepare", d |-> d]
    BY <1>2 DEF DispatchIds, Positions, WorkerStart
  <1>4. WorkerInv'
    BY <1>2, <1>3 DEF WorkerInv, Exists
  <1>5. QED
    BY <1>1, <1>3, <1>4, WorkerFrame DEF WorkerStart, ExecutionTypeOK

LEMMA WorkerStepInv ==
  ASSUME ExecutionInv, StoreInv', WorkerStep
  PROVE  ExecutionInv'
  <1> USE DEF ExecutionInv, ExecutionTypeOK
  <1>1. ASSUME NEW r \in Requests, NEW s \in Selected, WorkerStart(r, s) PROVE ExecutionInv'
    BY <1>1, WorkerStartInv
  <1>2. ASSUME UNCHANGED storeVars
        PROVE  (\A d \in DispatchIds : Aged(d)) /\ (\A d : Exists(d)' = Exists(d))
    BY <1>2, UnchangedAged DEF storeVars, Exists
  <1>3. ASSUME NEW r \in Requests, NEW s \in Selected, WorkerSkip(r, s) PROVE ExecutionInv'
    BY <1>2, <1>3, WorkerFrame DEF WorkerSkip, WorkerInv
  <1>4. CASE WorkerList
    BY <1>2, <1>4, WorkerFrame DEF WorkerList, WorkerInv
  <1>5. ASSUME NEW d \in DispatchIds,
               WorkerPrepare(d) \/ RunGate(d) \/ MarkStarted(d)
               \/ Poll(d) \/ RecoverStarted(d) \/ DriveReturns(d)
        PROVE  ExecutionInv'
    <2>1. /\ UNCHANGED <<storeVars, submitting, listed, execVars, faults>>
          /\ started' \subseteq DispatchIds
      BY <1>5 DEF WorkerPrepare, RunGate, AgCommand, MarkStarted, Poll, RecoverStarted, DriveReturns
    <2>2. /\ worker' \in [phase : {"idle", "prepare", "drive", "dispatch"},
                          d : DispatchIds \cup {Null}]
          /\ worker'.phase = "idle" \/ worker'.d = worker.d
          /\ worker.phase # "idle" /\ worker.d = d
      BY <1>5 DEF WorkerPrepare, RunGate, AgCommand, MarkStarted, Poll, RecoverStarted, DriveReturns,
                  Driving, NoWork
    <2>3. Exists(d)
      BY <2>2 DEF WorkerInv
    <2>4. /\ counter' \in [DispatchIds -> Counters]
          /\ \A c \in DispatchIds : c # d => counter'[c] = counter[c]
      BY <1>5 DEF WorkerPrepare, RunGate, AgCommand, MarkStarted, Poll, RecoverStarted, DriveReturns,
                  Reconciled, Counters, Closed, GateStep
    <2>5. WorkerInv'
      BY <1>2, <2>1, <2>2, <2>3 DEF WorkerInv
    <2>6. QED
      BY <1>2, <2>1, <2>2, <2>3, <2>4, <2>5, WorkerFrame
  <1>6. ASSUME NEW d \in DispatchIds, RecoverReturns(d) PROVE ExecutionInv'
    <2>1. \A c \in DispatchIds : Aged(c)
      BY <1>6, MarkIndeterminateEffect DEF RecoverReturns, WorkerGivesUp
    <2>2. /\ worker' = NoWork
          /\ UNCHANGED <<submitting, listed, started, execVars, faults>>
          /\ counter' \in [DispatchIds -> Counters]
          /\ \A c \in DispatchIds : c # d => counter'[c] = counter[c]
          /\ Exists(d)
      BY <1>6 DEF RecoverReturns, WorkerGivesUp, WorkerInv, Driving, Reconciled, Counters, Closed
    <2>3. QED
      BY <2>1, <2>2, WorkerFrame DEF WorkerInv, NoWork
  <1>7. ASSUME NEW d \in DispatchIds, RunDispatch(d) PROVE ExecutionInv'
    <2>1. Exists(d) /\ WorkerInv'
      BY <1>2, <1>7 DEF RunDispatch, WorkerInv
    <2>2. /\ counter' \in [DispatchIds -> Counters]
          /\ \A c \in DispatchIds : c # d => counter'[c] = counter[c]
      BY <1>7 DEF RunDispatch, Counters, Closed
    <2>3. CASE Spawn(d)
      BY <1>2, <1>7, <2>1, <2>2, <2>3, SpawnFrame DEF RunDispatch
    <2>4. CASE UNCHANGED execVars
      BY <1>2, <1>7, <2>1, <2>2, <2>4, WorkerFrame DEF RunDispatch
    <2>5. QED
      BY <1>7, <2>3, <2>4 DEF RunDispatch
  <1>8. QED
    BY <1>1, <1>3, <1>4, <1>5, <1>6, <1>7 DEF WorkerStep

-----------------------------------------------------------------------------
(* The owner of an attempt goes on, or an executor becomes the owner: the  *)
(* others are on other dispatches, or still before the journal's guard.    *)
LEMMA OwnerStep ==
  ASSUME ExecutionInv, StoreInv', NEW e \in Executors, NEW d \in DispatchIds,
         executor[e].phase # "exited", executor[e].d = d,
         Owns(e) \/ attempt[d] \in {"none", "reserved"},
         NEW x \in [phase : ExecutorPhases, d : DispatchIds \cup {Null},
                    response : Responses \cup {Null}],
         executor' = [executor EXCEPT ![e] = x],
         x = Exited \/ x.d = d,
         UNCHANGED <<submitting, workerVars>>,
         faults' \in 0 .. MaxFaults,
         attempt' \in [DispatchIds -> AttemptStates],
         calls' \in [DispatchIds -> Nat],
         refused' \subseteq DispatchIds,
         Exists(d)',
         \A c \in DispatchIds \ {d} : Aged(c) /\ attempt'[c] = attempt[c] /\ calls'[c] = calls[c],
         ExecutorInv(e)', AttemptInv(d)'
  PROVE  ExecutionInv'
  <1> USE DEF ExecutionInv
  <1>1. \A f \in Executors : f # e => executor'[f] = executor[f]
    BY DEF ExecutionTypeOK
  <1>2. executor'[e] = x
    BY DEF ExecutionTypeOK
  <1>3. ExecutionTypeOK'
    BY DEF ExecutionTypeOK, StoreInv, workerVars
  <1>4. WorkerInv'
    BY DEF WorkerInv, workerVars, Aged
  <1>5. \A f \in Executors : f # e /\ executor[f].d = d => ~Owns(f)
    BY DEF OneOwner, ExecutorInv
  <1>6. OneOwner'
    <2>1. \A f \in Executors : f # e => (Owns(f)' <=> Owns(f)) /\ executor'[f].d = executor[f].d
      BY <1>1 DEF Owns
    <2>2. Owns(e)' => executor'[e].d = d
      BY <1>2 DEF Owns, OwnerPhases, Exited, Terminal
    <2>3. QED
      BY <1>5, <2>1, <2>2 DEF OneOwner
  <1>7. \A c \in DispatchIds : AttemptInv(c)'
    BY QuietAttempt DEF workerVars
  <1>8. ASSUME NEW f \in Executors, f # e PROVE ExecutorInv(f)'
    <2>1. CASE executor[f].phase # "exited" /\ executor[f].d = d
      <3>1. /\ executor'[f] = executor[f]
            /\ executor[f].phase \notin OwnerPhases \cup {"candidate_refused"}
        BY <1>1, <1>5, <1>8, <2>1 DEF Owns, ExecutorInv
      <3>2. QED
        BY <2>1, <3>1 DEF ExecutorInv, Owns, OwnerPhases, Terminal, Exists
    <2>2. CASE executor[f].phase = "exited" \/ executor[f].d # d
      <3>1. executor[f].phase # "exited" => executor[f].d \in DispatchIds \ {d}
        BY <2>2 DEF ExecutorInv
      <3>2. QED
        BY <1>1, <1>8, <3>1, QuietExecutor
    <2>3. QED
      BY <2>1, <2>2
  <1>9. QED
    BY <1>3, <1>4, <1>6, <1>7, <1>8

(* The executor as it is after a move of its program counter.              *)
LEMMA AdvanceType ==
  ASSUME ExecutionInv, NEW e \in Executors, NEW phase \in ExecutorPhases
  PROVE  /\ [executor[e] EXCEPT !.phase = phase]
              \in [phase : ExecutorPhases, d : DispatchIds \cup {Null},
                   response : Responses \cup {Null}]
         /\ Exited \in [phase : ExecutorPhases, d : DispatchIds \cup {Null},
                        response : Responses \cup {Null}]
         /\ [executor[e] EXCEPT !.phase = phase].phase = phase
         /\ [executor[e] EXCEPT !.phase = phase].d = executor[e].d
         /\ [executor[e] EXCEPT !.phase = phase].response = executor[e].response
         /\ Advance(e, phase) =>
               executor' = [executor EXCEPT ![e] = [executor[e] EXCEPT !.phase = phase]]
  BY DEF ExecutionInv, ExecutionTypeOK, Advance, Exited, ExecutorPhases

(* The provider's side of a call: the rows and the journal stay.           *)
LEMMA WaitStep ==
  ASSUME ExecutionInv, StoreInv', NEW e \in Executors,
         executor[e].phase \in {"wait", "record"},
         NEW x \in [phase : ExecutorPhases, d : DispatchIds \cup {Null},
                    response : Responses \cup {Null}],
         executor' = [executor EXCEPT ![e] = x],
         x.d = executor[e].d,
         x.phase \in {"record", "failed", "unknown"},
         x.phase = "record" => x.response \in Responses,
         UNCHANGED <<storeVars, submitting, workerVars, attempt, calls>>,
         faults' \in 0 .. MaxFaults,
         refused' \subseteq refused \cup {executor[e].d}
  PROVE  ExecutionInv'
  <1> USE DEF ExecutionInv
  <1>1. PICK d \in DispatchIds :
          d = executor[e].d /\ Exists(d) /\ Owns(e) /\ ExecutorInv(e) /\ AttemptInv(d)
    BY DEF ExecutorInv, Owns, OwnerPhases
  <1>2. executor'[e] = x /\ x.d = d
    BY <1>1 DEF ExecutionTypeOK
  <1>3. /\ \A c \in DispatchIds : Aged(c)
        /\ Exists(d)' /\ StatusOf(d)' = StatusOf(d)
    BY <1>1, UnchangedAged DEF Exists, StatusOf, storeVars
  <1>4. AttemptInv(d)'
    BY <1>1, <1>3, QuietAttempt DEF workerVars
  <1>5. ExecutorInv(e)'
    BY <1>1, <1>2, <1>3 DEF ExecutorInv, Owns, OwnerPhases, Terminal
  <1>6. QED
    BY <1>1, <1>3, <1>4, <1>5, OwnerStep DEF ExecutionTypeOK

LEMMA EvidenceFailsInv ==
  ASSUME ExecutionInv, StoreInv', NEW e \in Executors, EvidenceFails(e)
  PROVE  ExecutionInv'
  <1>1. Advance(e, "unknown") /\ executor[e].phase = "record" /\ faults' \in 0 .. MaxFaults
    BY DEF EvidenceFails, Running, Fault, ExecutionInv, ExecutionTypeOK
  <1> DEFINE y == [executor[e] EXCEPT !.phase = "unknown"]
  <1>2. /\ y \in [phase : ExecutorPhases, d : DispatchIds \cup {Null},
                   response : Responses \cup {Null}]
        /\ executor' = [executor EXCEPT ![e] = y]
        /\ y.d = executor[e].d /\ y.phase = "unknown"
    BY <1>1, AdvanceType DEF ExecutorPhases
  <1> HIDE DEF y
  <1>3. QED
    BY <1>1, <1>2, WaitStep DEF EvidenceFails, ExecutionInv, ExecutionTypeOK

LEMMA ProviderInv ==
  ASSUME ExecutionInv, StoreInv', NEW e \in Executors,
         \/ ProviderRefuses(e) \/ ProviderLost(e)
         \/ \E x \in Responses : ProviderResponds(e, x)
  PROVE  ExecutionInv'
  <1>1. executor[e].phase = "wait" /\ faults' \in 0 .. MaxFaults
        /\ UNCHANGED <<storeVars, submitting, workerVars, attempt, calls>>
        /\ refused' \subseteq refused \cup {executor[e].d}
    BY DEF ProviderRefuses, ProviderLost, ProviderResponds, Running, ExecutorOnly, ExecutionInv,
           ExecutionTypeOK
  <1>2. CASE ProviderRefuses(e) \/ ProviderLost(e)
    <2>1. PICK phase \in {"failed", "unknown"} : Advance(e, phase)
      BY <1>2 DEF ProviderRefuses, ProviderLost
    <2> DEFINE y == [executor[e] EXCEPT !.phase = phase]
    <2>2. /\ y \in [phase : ExecutorPhases, d : DispatchIds \cup {Null},
                     response : Responses \cup {Null}]
          /\ executor' = [executor EXCEPT ![e] = y]
          /\ y.d = executor[e].d /\ y.phase = phase
      <3>1. phase \in ExecutorPhases
        BY DEF ExecutorPhases
      <3>2. QED
        BY <2>1, <3>1, AdvanceType
    <2> HIDE DEF y
    <2>3. QED
      BY <1>1, <2>2, WaitStep
  <1>3. CASE \E x \in Responses : ProviderResponds(e, x)
    <2> PICK x \in Responses : ProviderResponds(e, x)
      BY <1>3
    <2> DEFINE y == [executor[e] EXCEPT !.phase = "record", !.response = x]
    <2>1. /\ y \in [phase : ExecutorPhases, d : DispatchIds \cup {Null},
                     response : Responses \cup {Null}]
          /\ executor' = [executor EXCEPT ![e] = y]
          /\ y.d = executor[e].d /\ y.phase = "record" /\ y.response = x
      <3>1. /\ executor[e] \in [phase : ExecutorPhases, d : DispatchIds \cup {Null},
                                response : Responses \cup {Null}]
            /\ executor' = [executor EXCEPT ![e].phase = "record", ![e].response = x]
            /\ executor \in [Executors -> [phase    : ExecutorPhases,
                                          d        : DispatchIds \cup {Null},
                                          response : Responses \cup {Null}]]
        BY DEF ProviderResponds, ExecutionInv, ExecutionTypeOK
      <3>2. executor' = [executor EXCEPT ![e] = y]
        BY <3>1
      <3>3. QED
        BY <3>1, <3>2 DEF ExecutorPhases
    <2> HIDE DEF y
    <2>2. QED
      BY <1>1, <2>1, WaitStep
  <1>4. QED
    BY <1>2, <1>3

(* The owner moves its program counter.                                    *)
LEMMA AdvanceStep ==
  ASSUME ExecutionInv, StoreInv', NEW e \in Executors, NEW d \in DispatchIds,
         executor[e].phase # "exited", executor[e].d = d,
         Owns(e) \/ attempt[d] \in {"none", "reserved"},
         NEW phase \in ExecutorPhases, Advance(e, phase),
         UNCHANGED <<submitting, workerVars, faults, refused>>,
         attempt' \in [DispatchIds -> AttemptStates],
         calls' \in [DispatchIds -> Nat],
         Exists(d)',
         \A c \in DispatchIds \ {d} : Aged(c) /\ attempt'[c] = attempt[c] /\ calls'[c] = calls[c],
         ExecutorInv(e)', AttemptInv(d)'
  PROVE  ExecutionInv'
  <1> DEFINE y == [executor[e] EXCEPT !.phase = phase]
  <1>1. /\ y \in [phase : ExecutorPhases, d : DispatchIds \cup {Null},
                  response : Responses \cup {Null}]
        /\ executor' = [executor EXCEPT ![e] = y]
        /\ y.d = d
    BY AdvanceType
  <1> HIDE DEF y
  <1>2. faults' \in 0 .. MaxFaults /\ refused' \subseteq DispatchIds
    BY DEF ExecutionInv, ExecutionTypeOK
  <1>3. QED
    BY <1>1, <1>2, OwnerStep

(* A process that ends, whatever it found.                                 *)
LEMMA ExitStep ==
  ASSUME ExecutionInv, StoreInv', NEW e \in Executors, Exit(e),
         UNCHANGED <<storeVars, submitting, workerVars, faults, attempt, calls, refused>>
  PROVE  ExecutionInv'
  <1> USE DEF ExecutionInv
  <1>1. \A d \in DispatchIds : Aged(d)
    BY UnchangedAged
  <1>2. WorkerInv'
    BY <1>1 DEF WorkerInv, workerVars, Aged
  <1>3. ExecutionTypeOK'
    BY AdvanceType DEF ExecutionTypeOK, StoreInv, workerVars, Exit
  <1>4. \A f \in Executors : executor'[f] = executor[f] \/ executor'[f] = Exited
    BY DEF ExecutionTypeOK, Exit
  <1>5. QED
    BY <1>1, <1>2, <1>3, <1>4, QuietStep DEF workerVars

(* What a process knows before its step.                                   *)
LEMMA ExecutorKnows ==
  ASSUME ExecutionInv, NEW e \in Executors, executor[e].phase # "exited"
  PROVE  /\ executor[e].d \in DispatchIds /\ Exists(executor[e].d)
         /\ ExecutorInv(e) /\ AttemptInv(executor[e].d)
         /\ \A phase \in ExecutorPhases : Advance(e, phase) =>
               executor'[e] = [executor[e] EXCEPT !.phase = phase]
         /\ executor[e] \in [phase : ExecutorPhases, d : DispatchIds \cup {Null},
                             response : Responses \cup {Null}]
  BY DEF ExecutionInv, ExecutionTypeOK, ExecutorInv, Advance

(* ... and after it: a new program counter and the same dispatch.          *)
LEMMA Advanced ==
  ASSUME ExecutionInv, NEW e \in Executors, executor[e].phase # "exited",
         NEW phase \in ExecutorPhases, Advance(e, phase)
  PROVE  executor'[e].phase = phase /\ executor'[e].d = executor[e].d
  <1>1. /\ executor'[e] = [executor[e] EXCEPT !.phase = phase]
        /\ executor[e] \in [phase : ExecutorPhases, d : DispatchIds \cup {Null},
                            response : Responses \cup {Null}]
    BY ExecutorKnows
  <1>2. QED
    BY <1>1

LEMMA ReserveAttemptInv ==
  ASSUME ExecutionInv, StoreInv', NEW e \in Executors, ReserveAttempt(e)
  PROVE  ExecutionInv'
  <1>1. PICK d \in DispatchIds :
          /\ d = executor[e].d /\ Exists(d) /\ ExecutorInv(e) /\ AttemptInv(d)
          /\ executor[e].phase = "reserve"
    BY ExecutorKnows DEF ReserveAttempt, Running
  <1>2. CASE attempt[d] \notin {"none", "reserved"}
    BY <1>1, <1>2, ExitStep DEF ReserveAttempt, ExecutorOnly
  <1>3. CASE attempt[d] \in {"none", "reserved"}
    <2>1. /\ attempt' = [attempt EXCEPT ![d] = "reserved"] /\ Advance(e, "begin")
          /\ UNCHANGED <<storeVars, submitting, workerVars, faults, calls, refused>>
      BY <1>1, <1>3 DEF ReserveAttempt, ExecutorOnly
    <2>2. executor'[e].phase = "begin" /\ executor'[e].d = d
      BY <1>1, <2>1, Advanced DEF ExecutorPhases
    <2>3. /\ \A c \in DispatchIds : Aged(c)
          /\ Exists(d)' /\ StatusOf(d)' = StatusOf(d)
      BY <1>1, <2>1, UnchangedAged DEF Exists, StatusOf, storeVars
    <2>4. /\ attempt' \in [DispatchIds -> AttemptStates] /\ attempt'[d] = "reserved"
          /\ \A c \in DispatchIds \ {d} : attempt'[c] = attempt[c]
      BY <2>1 DEF ExecutionInv, ExecutionTypeOK, AttemptStates
    <2>5. AttemptInv(d)'
      BY <1>1, <1>3, <2>1, <2>3, <2>4 DEF AttemptInv, Aged, workerVars
    <2>6. ExecutorInv(e)'
      BY <2>2, <2>3 DEF ExecutorInv, Owns, OwnerPhases, Terminal
    <2>7. QED
      BY <1>1, <1>3, <2>1, <2>3, <2>4, <2>5, <2>6, AdvanceStep
      DEF ExecutionInv, ExecutionTypeOK, ExecutorPhases
  <1>4. QED
    BY <1>2, <1>3

LEMMA BeginAttemptInv ==
  ASSUME ExecutionInv, StoreInv', NEW e \in Executors, BeginAttempt(e)
  PROVE  ExecutionInv'
  <1>1. PICK d \in DispatchIds :
          /\ d = executor[e].d /\ Exists(d) /\ ExecutorInv(e) /\ AttemptInv(d)
          /\ executor[e].phase = "begin"
    BY ExecutorKnows DEF BeginAttempt, Running
  <1>2. CASE attempt[d] # "reserved"
    BY <1>1, <1>2, ExitStep DEF BeginAttempt, ExecutorOnly
  <1>3. CASE attempt[d] = "reserved"
    <2>1. /\ attempt' = [attempt EXCEPT ![d] = "executing"] /\ Advance(e, "mark")
          /\ UNCHANGED <<storeVars, submitting, workerVars, faults, calls, refused>>
      BY <1>1, <1>3 DEF BeginAttempt, ExecutorOnly
    <2>2. executor'[e].phase = "mark" /\ executor'[e].d = d
      BY <1>1, <2>1, Advanced DEF ExecutorPhases
    <2>3. /\ \A c \in DispatchIds : Aged(c)
          /\ Exists(d)' /\ StatusOf(d)' = StatusOf(d)
      BY <1>1, <2>1, UnchangedAged DEF Exists, StatusOf, storeVars
    <2>4. /\ attempt' \in [DispatchIds -> AttemptStates] /\ attempt'[d] = "executing"
          /\ \A c \in DispatchIds \ {d} : attempt'[c] = attempt[c]
      BY <2>1 DEF ExecutionInv, ExecutionTypeOK, AttemptStates
    <2>5. AttemptInv(d)'
      BY <1>1, <1>3, <2>1, <2>3, <2>4 DEF AttemptInv, Aged, workerVars
    <2>6. ExecutorInv(e)'
      BY <1>1, <1>3, <2>1, <2>2, <2>3, <2>4 DEF ExecutorInv, AttemptInv, Owns, OwnerPhases, Terminal
    <2>7. QED
      BY <1>1, <1>3, <2>1, <2>3, <2>4, <2>5, <2>6, AdvanceStep
      DEF ExecutionInv, ExecutionTypeOK, ExecutorPhases
  <1>4. QED
    BY <1>2, <1>3

(* Only the owner calls, and its dispatch was never called before.         *)
LEMMA CallProviderInv ==
  ASSUME ExecutionInv, StoreInv', NEW e \in Executors, CallProvider(e)
  PROVE  ExecutionInv'
  <1>1. PICK d \in DispatchIds :
          /\ d = executor[e].d /\ Exists(d) /\ ExecutorInv(e) /\ AttemptInv(d)
          /\ executor[e].phase = "call"
    BY ExecutorKnows DEF CallProvider, Running
  <1>2. /\ calls' = [calls EXCEPT ![d] = @ + 1] /\ Advance(e, "wait")
        /\ UNCHANGED <<storeVars, submitting, workerVars, faults, attempt, refused>>
    BY <1>1 DEF CallProvider, ExecutorOnly
  <1>3. executor'[e].phase = "wait" /\ executor'[e].d = d
    BY <1>1, <1>2, Advanced DEF ExecutorPhases
  <1>4. /\ \A c \in DispatchIds : Aged(c)
        /\ Exists(d)' /\ StatusOf(d)' = StatusOf(d)
    BY <1>1, <1>2, UnchangedAged DEF Exists, StatusOf, storeVars
  <1>5. calls[d] = 0 /\ attempt[d] = "executing"
    BY <1>1 DEF ExecutorInv, Owns, OwnerPhases
  <1>6. /\ calls' \in [DispatchIds -> Nat] /\ calls'[d] = 1
        /\ \A c \in DispatchIds \ {d} : calls'[c] = calls[c]
    BY <1>2, <1>5 DEF ExecutionInv, ExecutionTypeOK
  <1>7. AttemptInv(d)'
    BY <1>1, <1>2, <1>4, <1>5, <1>6 DEF AttemptInv, Aged, workerVars
  <1>8. ExecutorInv(e)'
    BY <1>1, <1>2, <1>3, <1>4, <1>5, <1>6 DEF ExecutorInv, Owns, OwnerPhases, Terminal
  <1>9. QED
    BY <1>1, <1>2, <1>4, <1>5, <1>6, <1>7, <1>8, AdvanceStep
    DEF ExecutionInv, ExecutionTypeOK, ExecutorPhases, Owns, OwnerPhases

LEMMA MarkDispatchInv ==
  ASSUME ExecutionInv, StoreInv', NEW e \in Executors, MarkDispatch(e)
  PROVE  ExecutionInv'
  <1>1. PICK d \in DispatchIds :
          /\ d = executor[e].d /\ Exists(d) /\ ExecutorInv(e) /\ AttemptInv(d)
          /\ executor[e].phase = "mark"
    BY ExecutorKnows DEF MarkDispatch, Running
  <1>2. UNCHANGED <<submitting, workerVars, faults, attempt, calls, refused>>
    BY DEF MarkDispatch, ExecutorOnly
  <1>3. attempt[d] = "executing" /\ calls[d] = 0 /\ Owns(e)
    BY <1>1 DEF ExecutorInv, Owns, OwnerPhases
  <1>4. CASE UNCHANGED storeVars /\ Exit(e)
    BY <1>2, <1>4, ExitStep
  <1>5. ASSUME /\ Advance(e, "call")
               /\ \A c \in DispatchIds \ {d} : Aged(c)
               /\ Exists(d)' /\ StatusOf(d)' = "executing"
               /\ CandidatesOf(d[1], d[2])' = CandidatesOf(d[1], d[2])
               /\ CandidatesOf(d[1], d[2]) = {}
        PROVE  ExecutionInv'
    <2>1. executor'[e].phase = "call" /\ executor'[e].d = d
      <3>1. Advance(e, "call") /\ executor[e].phase # "exited"
        BY <1>1, <1>5
      <3>2. QED
        BY <1>1, <3>1, Advanced DEF ExecutorPhases
    <2>2. AttemptInv(d)'
      BY <1>1, <1>2, <1>3, <1>5 DEF AttemptInv, workerVars
    <2>3. ExecutorInv(e)'
      BY <1>2, <1>3, <1>5, <2>1 DEF ExecutorInv, Owns, OwnerPhases, Terminal
    <2>4. QED
      BY <1>1, <1>2, <1>3, <1>5, <2>2, <2>3, AdvanceStep
      DEF ExecutionInv, ExecutionTypeOK, ExecutorPhases
  <1>6. CASE MarkExecuting(d[1], d[2]) /\ Advance(e, "call")
    <2>1. DispatchTransition(d[1], d[2], {"reserved", "executing"}, "executing", "dispatching")
      BY <1>6 DEF MarkExecuting, DispatchTransition
    <2>2. /\ StatusOf(d) \in {"reserved", "executing"} /\ Exists(d)' /\ StatusOf(d)' = "executing"
          /\ CandidatesOf(d[1], d[2])' = CandidatesOf(d[1], d[2])
          /\ \A c \in DispatchIds \ {d} : Aged(c)
      BY <2>1, MarkEffect DEF ExecutionInv
    <2>3. CandidatesOf(d[1], d[2]) = {}
      BY <1>1, <2>2, OpenUnanswered DEF ExecutionInv
    <2>4. QED
      BY <1>5, <1>6, <2>2, <2>3
  <1>7. CASE StatusOf(d) = "executing" /\ UNCHANGED storeVars /\ Advance(e, "call")
    <2>1. /\ \A c \in DispatchIds : Aged(c)
          /\ Exists(d)' /\ StatusOf(d)' = StatusOf(d)
      BY <1>1, <1>7, UnchangedAged DEF Exists, StatusOf, storeVars
    <2>2. CandidatesOf(d[1], d[2]) = {}
      BY <1>1, <1>7, OpenUnanswered DEF ExecutionInv
    <2>3. QED
      BY <1>5, <1>7, <2>1, <2>2 DEF Aged
  <1>8. QED
    BY <1>1, <1>4, <1>6, <1>7 DEF MarkDispatch

(* record_candidate is never refused: the answer is the first of a dispatch *)
(* that is executing, or was given up as unknown meanwhile.                *)
LEMMA RecordResponseInv ==
  ASSUME ExecutionInv, StoreInv', NEW e \in Executors, RecordResponse(e)
  PROVE  ExecutionInv'
  <1>1. PICK d \in DispatchIds :
          /\ d = executor[e].d /\ Exists(d) /\ ExecutorInv(e) /\ AttemptInv(d)
          /\ executor[e].phase = "record"
    BY ExecutorKnows DEF RecordResponse, Running
  <1>2. UNCHANGED <<submitting, workerVars, faults, attempt, calls, refused>>
    BY DEF RecordResponse, ExecutorOnly
  <1>3. /\ attempt[d] = "executing" /\ calls[d] = 1 /\ Owns(e)
        /\ StatusOf(d) \in {"executing", "unknown"}
    BY <1>1 DEF ExecutorInv, Owns, OwnerPhases
  <1>4. CandidatesOf(d[1], d[2]) = {} /\ RecordAllowed(d[1], d[2])
    BY <1>1, <1>3, OpenUnanswered DEF ExecutionInv, RecordAllowed, Exists, StatusOf
  <1>5. \A x : <<d[1], d[2], x>> \notin candidates
    BY <1>4 DEF CandidatesOf
  <1>6. RecordCandidate(d[1], d[2], executor[e].response) /\ Advance(e, "success")
    BY <1>1, <1>4, <1>5 DEF RecordResponse
  <1>7. /\ Exists(d)' /\ StatusOf(d)' = "candidate"
        /\ CandidatesOf(d[1], d[2])' # {}
        /\ \A c \in DispatchIds \ {d} : Aged(c)
    BY <1>6, RecordEffect DEF ExecutionInv
  <1>8. executor'[e].phase = "success" /\ executor'[e].d = d
    BY <1>1, <1>6, Advanced DEF ExecutorPhases
  <1>9. AttemptInv(d)'
    BY <1>1, <1>2, <1>3, <1>7 DEF AttemptInv, workerVars
  <1>10. ExecutorInv(e)'
    BY <1>2, <1>3, <1>7, <1>8 DEF ExecutorInv, Owns, OwnerPhases, Terminal
  <1>11. QED
    BY <1>1, <1>2, <1>3, <1>6, <1>7, <1>9, <1>10, AdvanceStep
    DEF ExecutionInv, ExecutionTypeOK, ExecutorPhases

LEMMA ReportInv ==
  ASSUME ExecutionInv, StoreInv', NEW e \in Executors, ReportFailed(e) \/ ReportUnknown(e)
  PROVE  ExecutionInv'
  <1>1. PICK d \in DispatchIds :
          /\ d = executor[e].d /\ Exists(d) /\ ExecutorInv(e) /\ AttemptInv(d)
          /\ executor[e].phase \in {"failed", "unknown"}
    <2>1. executor[e].phase \in {"failed", "unknown"}
      BY DEF ReportFailed, ReportUnknown, Running, ExecutionInv, ExecutorInv
    <2>2. QED
      BY <2>1, ExecutorKnows
  <1>2. UNCHANGED <<submitting, workerVars, faults, attempt, calls, refused>>
    BY DEF ReportFailed, ReportUnknown, ExecutorOnly
  <1>3. attempt[d] = "executing" /\ calls[d] = 1 /\ Owns(e)
    BY <1>1 DEF ExecutorInv, Owns, OwnerPhases
  <1>4. CASE UNCHANGED storeVars /\ Exit(e)
    BY <1>2, <1>4, ExitStep
  <1>5. CASE \/ MarkFailed(d[1], d[2]) /\ Advance(e, "failure")
             \/ MarkUnknown(d[1], d[2]) /\ Advance(e, "indeterminate")
    <2>1. PICK new \in {"failed", "unknown"} :
            /\ DispatchTransition(d[1], d[2], {"reserved", "executing"}, new, new)
            /\ Advance(e, IF new = "failed" THEN "failure" ELSE "indeterminate")
      BY <1>5 DEF MarkFailed, MarkUnknown
    <2>2. /\ Exists(d)' /\ StatusOf(d)' = new
          /\ StatusOf(d) \in {"reserved", "executing"}
          /\ CandidatesOf(d[1], d[2])' = CandidatesOf(d[1], d[2])
          /\ \A c \in DispatchIds \ {d} : Aged(c)
      BY <2>1, MarkEffect DEF ExecutionInv
    <2>3. CandidatesOf(d[1], d[2])' = {}
      BY <1>1, <2>2, OpenUnanswered DEF ExecutionInv
    <2>4. /\ executor'[e].phase = IF new = "failed" THEN "failure" ELSE "indeterminate"
          /\ executor'[e].d = d
      BY <1>1, <2>1, Advanced DEF ExecutorPhases
    <2>5. AttemptInv(d)'
      BY <1>1, <1>2, <1>3, <2>2, <2>3 DEF AttemptInv, workerVars
    <2>6. ExecutorInv(e)'
      BY <1>2, <1>3, <2>2, <2>4 DEF ExecutorInv, Owns, OwnerPhases, Terminal
    <2>7. QED
      BY <1>1, <1>2, <1>3, <2>1, <2>2, <2>5, <2>6, AdvanceStep
      DEF ExecutionInv, ExecutionTypeOK, ExecutorPhases
  <1>6. QED
    BY <1>1, <1>4, <1>5 DEF ReportFailed, ReportUnknown

(* The journal is finished by the owner, which leaves with it.             *)
LEMMA FinishAttemptInv ==
  ASSUME ExecutionInv, StoreInv', NEW e \in Executors, FinishAttempt(e)
  PROVE  ExecutionInv'
  <1>1. PICK d \in DispatchIds :
          /\ d = executor[e].d /\ Exists(d) /\ ExecutorInv(e) /\ AttemptInv(d)
          /\ executor[e].phase \in Terminal
    BY ExecutorKnows DEF FinishAttempt, Terminal
  <1>2. attempt[d] = "executing" /\ calls[d] = 1 /\ Owns(e)
    BY <1>1 DEF ExecutorInv, Owns, OwnerPhases
  <1>3. /\ attempt' = [attempt EXCEPT ![d] = executor[e].phase]
        /\ executor' = [executor EXCEPT ![e] = Exited]
        /\ UNCHANGED <<storeVars, submitting, workerVars, faults, calls, refused>>
    BY <1>1, <1>2 DEF FinishAttempt, ExecutorOnly, Exit, Terminal
  <1>4. /\ \A c \in DispatchIds : Aged(c)
        /\ Exists(d)' /\ StatusOf(d)' = StatusOf(d)
    BY <1>1, <1>3, UnchangedAged DEF Exists, StatusOf, storeVars
  <1>5. /\ attempt' \in [DispatchIds -> AttemptStates] /\ attempt'[d] = executor[e].phase
        /\ \A c \in DispatchIds \ {d} : attempt'[c] = attempt[c]
    BY <1>1, <1>3 DEF ExecutionInv, ExecutionTypeOK, AttemptStates, Terminal
  <1>6. CandidatesOf(d[1], d[2]) # {} => executor[e].phase = "success"
    BY <1>1, OpenUnanswered DEF ExecutorInv, ExecutionInv, Terminal
  <1>7. AttemptInv(d)'
    BY <1>1, <1>2, <1>3, <1>4, <1>5, <1>6 DEF AttemptInv, ExecutorInv, Aged, workerVars, Terminal
  <1>8. ExecutorInv(e)'
    BY <1>3 DEF ExecutorInv, Exited, Owns, OwnerPhases, Terminal, ExecutionInv, ExecutionTypeOK
  <1>9. QED
    BY <1>1, <1>2, <1>3, <1>4, <1>5, <1>7, <1>8, AdvanceType, OwnerStep
    DEF ExecutionInv, ExecutionTypeOK, Terminal

LEMMA FaultInv ==
  ASSUME ExecutionInv, StoreInv', FaultStep
  PROVE  ExecutionInv'
  <1> USE DEF ExecutionInv, ExecutionTypeOK
  <1>1. ASSUME Fault PROVE faults' \in 0 .. MaxFaults
    BY <1>1 DEF Fault
  <1>2. ASSUME UNCHANGED storeVars
        PROVE  (\A d \in DispatchIds : Aged(d)) /\ (\A d : Exists(d)' = Exists(d))
    BY <1>2, UnchangedAged DEF storeVars, Exists
  <1>3. CASE WebCrash
    BY <1>3, WebInv
  <1>4. CASE WorkerCrash \/ PrepareFails
    BY <1>1, <1>2, <1>4, WorkerFrame DEF WorkerCrash, PrepareFails, WorkerInv, NoWork
  <1>5. ASSUME NEW d \in DispatchIds, CommandFails(d) PROVE ExecutionInv'
    BY <1>1, <1>5, MarkIndeterminateEffect, WorkerFrame
    DEF CommandFails, WorkerGivesUp, WorkerInv, NoWork
  <1>6. ASSUME NEW d \in DispatchIds, DispatchFails(d) PROVE ExecutionInv'
    <2>1. /\ \A c \in DispatchIds : Aged(c)
          /\ worker' = NoWork
          /\ UNCHANGED <<submitting, listed, started>>
          /\ faults' \in 0 .. MaxFaults
          /\ Exists(d)
      BY <1>1, <1>6, MarkIndeterminateEffect DEF DispatchFails, WorkerGivesUp, WorkerInv
    <2>2. WorkerInv'
      BY <2>1 DEF WorkerInv, NoWork
    <2>3. /\ counter' \in [DispatchIds -> Counters]
          /\ \A c \in DispatchIds : c # d => counter'[c] = counter[c]
      BY <1>6 DEF DispatchFails, Counters
    <2>4. CASE UNCHANGED execVars
      BY <2>1, <2>2, <2>3, <2>4, WorkerFrame DEF NoWork
    <2>5. CASE Spawn(d)
      BY <2>1, <2>2, <2>3, <2>5, SpawnFrame DEF NoWork
    <2>6. QED
      BY <1>6, <2>4, <2>5 DEF DispatchFails
  <1>7. ASSUME NEW d \in DispatchIds, Redeliver(d) PROVE ExecutionInv'
    <2>1. Exists(d)
      BY <1>7 DEF Redeliver, AttemptInv
    <2>2. WorkerInv'
      BY <1>2, <1>7 DEF Redeliver, WorkerInv, workerVars
    <2>3. QED
      BY <1>1, <1>2, <1>7, <2>1, <2>2, SpawnFrame DEF Redeliver, workerVars
  <1>8. ASSUME NEW e \in Executors, ExecutorCrash(e) PROVE ExecutionInv'
    <2>1. WorkerInv'
      BY <1>2, <1>8 DEF ExecutorCrash, WorkerInv, workerVars
    <2>2. executor' = [executor EXCEPT ![e] = Exited]
      BY <1>8 DEF ExecutorCrash, Exit
    <2>3. ExecutionTypeOK'
      BY <1>1, <1>8, <2>2 DEF ExecutorCrash, StoreInv, workerVars, Exited, ExecutorPhases
    <2>4. QED
      BY <1>2, <1>8, <2>1, <2>2, <2>3, QuietStep DEF ExecutorCrash, workerVars
  <1>9. ASSUME NEW e \in Executors, EvidenceFails(e) PROVE ExecutionInv'
    BY <1>9, EvidenceFailsInv
  <1>10. QED
    BY <1>3, <1>4, <1>5, <1>6, <1>7, <1>8, <1>9 DEF FaultStep
-----------------------------------------------------------------------------
LEMMA ExecutionInitInv == ExecutionInit => ExecutionInv
  <1> SUFFICES ASSUME ExecutionInit PROVE ExecutionInv
    OBVIOUS
  <1> USE DEF ExecutionInit
  <1>1. StoreInv
    BY InitInv
  <1>2. ExecutionTypeOK
    BY <1>1 DEF StoreInv, ExecutionTypeOK, NoWork, Counters, Closed, GateStep, AttemptStates, Exited,
                ExecutorPhases
  <1>3. WorkerInv /\ OneOwner
    BY DEF WorkerInv, NoWork, OneOwner, Owns, OwnerPhases, Exited, Terminal
  <1>4. \A e \in Executors : ExecutorInv(e)
    BY DEF ExecutorInv, Exited, Owns, OwnerPhases, Terminal
  <1>5. ASSUME NEW d \in DispatchIds PROVE AttemptInv(d)
    <2>1. ~Exists(d) /\ CandidatesOf(d[1], d[2]) = {}
      BY DispatchIdType DEF Init, Exists, CandidatesOf
    <2>2. QED
      BY <2>1 DEF AttemptInv
  <1>6. QED
    BY <1>1, <1>2, <1>3, <1>4, <1>5 DEF ExecutionInv

LEMMA ExecutorStepInv ==
  ASSUME ExecutionInv, StoreInv', NEW e \in Executors, ExecutorStep(e)
  PROVE  ExecutionInv'
  BY ReserveAttemptInv, BeginAttemptInv, MarkDispatchInv, CallProviderInv, ProviderInv,
     RecordResponseInv, ReportInv, FinishAttemptInv
  DEF ExecutorStep

LEMMA CompletesInv ==
  ASSUME ExecutionInv, StoreInv', NEW d \in DispatchIds, Completes(d)
  PROVE  ExecutionInv'
  <1>1. UNCHANGED <<storeVars, submitting, listed, worker, started, execVars, faults>>
    BY DEF Completes
  <1>2. \A c \in DispatchIds : Aged(c)
    BY <1>1, UnchangedAged
  <1>3. WorkerInv'
    BY <1>1, <1>2 DEF ExecutionInv, WorkerInv, Aged
  <1>4. /\ counter' \in [DispatchIds -> Counters]
        /\ \A c \in DispatchIds : counter'[c] # "uninitialized" => counter[c] # "uninitialized"
    BY DEF Completes, ExecutionInv, ExecutionTypeOK, Counters, Closed
  <1>5. QED
    BY <1>1, <1>2, <1>3, <1>4, WorkerFrame DEF ExecutionInv, ExecutionTypeOK

LEMMA ExecutionNextInv == ExecutionInv /\ [ExecutionNext]_vars => ExecutionInv'
  <1> SUFFICES ASSUME ExecutionInv, [ExecutionNext]_vars PROVE ExecutionInv'
    OBVIOUS
  <1>1. StoreInv'
    BY StoreStep, NextInv DEF ExecutionInv
  <1>2. CASE WebStep
    BY <1>1, <1>2, WebInv
  <1>3. CASE WorkerStep
    BY <1>1, <1>3, WorkerStepInv
  <1>4. CASE \E e \in Executors : ExecutorStep(e)
    BY <1>1, <1>4, ExecutorStepInv
  <1>5. CASE FaultStep
    BY <1>1, <1>5, FaultInv
  <1>6. CASE UNCHANGED vars
    <2>1. UNCHANGED <<storeVars, submitting, workerVars, execVars, faults>>
      BY <1>6 DEF vars
    <2>2. \A d \in DispatchIds : Aged(d)
      BY <2>1, UnchangedAged
    <2>3. WorkerInv'
      BY <2>1, <2>2 DEF ExecutionInv, WorkerInv, Aged, workerVars
    <2>4. QED
      BY <1>1, <2>1, <2>2, <2>3, WorkerFrame DEF workerVars, ExecutionInv, ExecutionTypeOK
  <1>7. ASSUME NEW d \in DispatchIds, Completes(d) PROVE ExecutionInv'
    BY <1>1, <1>7, CompletesInv
  <1>8. QED
    BY <1>2, <1>3, <1>4, <1>5, <1>6, <1>7 DEF ExecutionNext

(* The store, the journal, ag-ng and the processes are in step in every    *)
(* reachable state.                                                        *)
THEOREM ExecutionInvariant == ExecutionSpec => []ExecutionInv
  BY ExecutionInitInv, ExecutionNextInv, PTL DEF ExecutionSpec

(* The processes use the store as its specification allows: whatever they  *)
(* interleave and wherever they die, every step is a method of the store   *)
(* with arguments it is specified for, or leaves it alone.                 *)
THEOREM ExecutionUsesStore == ExecutionSpec => Spec
  <1>1. ExecutionInit => Init
    BY DEF ExecutionInit
  <1>2. ExecutionInv /\ [ExecutionNext]_vars => [Next]_storeVars
    BY StoreStep
  <1>3. QED
    BY <1>1, <1>2, ExecutionInvariant, PTL DEF ExecutionSpec, Spec

(* What holds of the store holds of it under the worker and the executors: *)
(* its tables are sound, and an answer in custody stays in custody.        *)
THEOREM ExecutionKeepsCustody == ExecutionSpec => []CustodySound /\ CustodyKept
  BY ExecutionUsesStore, CustodySoundAlways, CustodyKeptAlways, PTL

(* No provider is called twice for one dispatch.                           *)
THEOREM ProviderCalledAtMostOnceAlways == ExecutionSpec => []ProviderCalledAtMostOnce
  <1>1. ExecutionInv => ProviderCalledAtMostOnce
    BY DEF ExecutionInv, AttemptInv, ProviderCalledAtMostOnce
  <1>2. QED
    BY <1>1, ExecutionInvariant, PTL

(* A fallback never runs beside the attempt it replaces, the journal and   *)
(* the store tell one story, and no answer of a provider is turned away.   *)
THEOREM ExecutionSoundAlways == ExecutionSpec => []ExecutionSound
  <1>1. ASSUME ExecutionInv,
               NEW c \in DispatchIds, NEW d \in DispatchIds,
               c[1] = d[1], c[2] < d[2], calls[d] > 0
        PROVE  /\ calls[c] = 1
               /\ StatusOf(c) = "failed"
               /\ \A e \in Executors : executor[e].d = c =>
                      executor[e].phase \notin {"call", "wait", "record", "unknown"}
    <2>1. Exists(d)
      BY <1>1 DEF ExecutionInv, AttemptInv
    <2>2. Exists(c) /\ StatusOf(c) = "failed"
      BY <1>1, <2>1, OpenUnanswered DEF ExecutionInv
    <2>3. calls[c] = 1
      BY <1>1, <2>2 DEF ExecutionInv, AttemptInv
    <2>4. QED
      BY <1>1, <2>2, <2>3 DEF ExecutionInv, ExecutorInv
  <1>2. ExecutionInv => FallbackAfterFailure
    BY <1>1 DEF FallbackAfterFailure
  <1>3. ExecutionInv => JournalAgrees
    BY DEF ExecutionInv, AttemptInv, JournalAgrees
  <1>4. ExecutionInv => NoAnswerRefused
    BY DEF ExecutionInv, ExecutorInv, NoAnswerRefused, Running
  <1>5. ExecutionInv => ExecutionSound
    BY <1>2, <1>3, <1>4 DEF ExecutionInv, ExecutionSound
  <1>6. QED
    BY <1>5, ExecutionInvariant, PTL

-----------------------------------------------------------------------------
(* The refinement of ProviderCustody: what the three databases and the     *)
(* processes do to a dispatch is a call, its answer, its failure, or       *)
(* nothing that the promise speaks of.                                     *)

Answered(d) == CandidatesOf(d[1], d[2]) # {}
Failed(d) == Exists(d) /\ StatusOf(d) = "failed"

Settled(d) == (Answered(d)' <=> Answered(d)) /\ (Failed(d)' <=> Failed(d))

LEMMA AgedSettled ==
  ASSUME NEW d \in DispatchIds, Aged(d)
  PROVE  Settled(d)
  BY DEF Aged, Settled, Answered, Failed

LEMMA MarkSettles ==
  ASSUME StoreInv, NEW d \in DispatchIds, NEW new \in {"executing", "unknown", "failed"}, NEW l,
         DispatchTransition(d[1], d[2], {"reserved", "executing"}, new, l)
  PROVE  /\ \A c \in DispatchIds : c # d => Settled(c)
         /\ ~Answered(d) /\ ~Failed(d)
         /\ ~Answered(d)'
         /\ Failed(d)' <=> new = "failed"
  <1>1. /\ Exists(d) /\ Exists(d)' /\ StatusOf(d)' = new
        /\ StatusOf(d) \in {"reserved", "executing"}
        /\ CandidatesOf(d[1], d[2])' = CandidatesOf(d[1], d[2])
        /\ \A c \in DispatchIds \ {d} : Aged(c)
    BY MarkEffect
  <1>2. ~Answered(d)
    BY <1>1, OpenUnanswered DEF Answered
  <1>3. QED
    BY <1>1, <1>2, AgedSettled DEF Answered, Failed

LEMMA RecordSettles ==
  ASSUME StoreInv, NEW d \in DispatchIds, NEW x, RecordCandidate(d[1], d[2], x)
  PROVE  /\ \A c \in DispatchIds : c # d => Settled(c)
         /\ ~Answered(d) /\ ~Failed(d)
         /\ Answered(d)'
  <1>1. /\ Exists(d) /\ StatusOf(d) \in {"executing", "unknown"}
        /\ CandidatesOf(d[1], d[2])' # {}
        /\ \A c \in DispatchIds \ {d} : Aged(c)
    BY RecordEffect
  <1>2. ~Answered(d)
    BY <1>1, OpenUnanswered DEF Answered
  <1>3. QED
    BY <1>1, <1>2, AgedSettled DEF Answered, Failed

(* A method of the store settles no dispatch, or one that was open.        *)
LEMMA StoreSettlesOne ==
  ASSUME StoreInv, [Next]_storeVars
  PROVE  \/ \A d \in DispatchIds : Settled(d)
         \/ \E d \in DispatchIds :
               /\ ~Answered(d) /\ ~Failed(d)
               /\ Answered(d)' \/ Failed(d)'
               /\ \A c \in DispatchIds : c # d => Settled(c)
  <1> DEFINE Goal == \/ \A d \in DispatchIds : Settled(d)
                     \/ \E d \in DispatchIds :
                           /\ ~Answered(d) /\ ~Failed(d)
                           /\ Answered(d)' \/ Failed(d)'
                           /\ \A c \in DispatchIds : c # d => Settled(c)
  <1> SUFFICES Goal
    OBVIOUS
  <1>1. CASE dispatches' = dispatches /\ candidates' = candidates
    BY <1>1 DEF Settled, Answered, Failed, Exists, StatusOf, CandidatesOf
  <1>2. ASSUME NEW r \in Requests, NEW i \in Positions,
               NEW new \in {"executing", "unknown", "failed"}, NEW l,
               DispatchTransition(r, i, {"reserved", "executing"}, new, l)
        PROVE  Goal
    <2> DEFINE d == <<r, i>>
    <2>1. d \in DispatchIds /\ d[1] = r /\ d[2] = i
      BY DEF DispatchIds
    <2> HIDE DEF d
    <2>2. /\ \A c \in DispatchIds : c # d => Settled(c)
          /\ ~Answered(d) /\ ~Failed(d)
          /\ ~Answered(d)'
          /\ Failed(d)' <=> new = "failed"
      BY <1>2, <2>1, MarkSettles
    <2>3. CASE new = "failed"
      BY <2>1, <2>2, <2>3
    <2>4. CASE new # "failed"
      <3>1. Settled(d)
        BY <2>2, <2>4 DEF Settled
      <3>2. QED
        BY <2>2, <3>1
    <2>5. QED
      BY <2>3, <2>4
  <1>3. ASSUME NEW r \in Requests, DispatchStep(r) PROVE Goal
    <2>1. CASE ReserveDispatch(r) \/ ReserveFallback(r)
      BY <2>1, ReserveEffect, AgedSettled DEF ReserveDispatch, ReserveFallback
    <2>2. ASSUME NEW i \in Positions, MarkExecuting(r, i) PROVE Goal
      <3>1. DispatchTransition(r, i, {"reserved", "executing"}, "executing", "dispatching")
        BY <2>2 DEF MarkExecuting, DispatchTransition
      <3>2. QED
        BY <1>2, <3>1
    <2>3. ASSUME NEW i \in Positions, MarkUnknown(r, i) \/ MarkFailed(r, i) PROVE Goal
      BY <1>2, <2>3 DEF MarkUnknown, MarkFailed
    <2>4. ASSUME NEW i \in Positions, NEW x \in Responses, RecordCandidate(r, i, x) PROVE Goal
      <3> DEFINE d == <<r, i>>
      <3>1. d \in DispatchIds /\ d[1] = r /\ d[2] = i
        BY DEF DispatchIds
      <3> HIDE DEF d
      <3>2. QED
        BY <2>4, <3>1, RecordSettles
    <2>5. QED
      BY <1>3, <2>1, <2>2, <2>3, <2>4 DEF DispatchStep
  <1>4. ASSUME NEW k \in CandidateIds, BlockCandidate(k) PROVE Goal
    <2> DEFINE b == <<RequestOf(k), PositionOf(k)>>
    <2>1. /\ b \in DispatchIds /\ Exists(b)
          /\ StatusOf(b) \in {"candidate", "blocked"}
      BY <1>4, CandidateIdType
      DEF BlockCandidate, StoreInv, CandidateHeld, TypeOK, LastStatus, Used, Exists, StatusOf,
          DispatchIds, Positions
    <2>2. \A d \in DispatchIds :
             /\ Exists(d)' <=> Exists(d)
             /\ Exists(d) => StatusOf(d)' = IF d = b THEN "blocked" ELSE StatusOf(d)
      BY <1>4, <2>1, DispatchIdType, CandidateIdType
      DEF BlockCandidate, StoreInv, TypeOK, Exists, StatusOf
    <2>3. QED
      BY <1>4, <2>1, <2>2 DEF BlockCandidate, Settled, Answered, Failed, CandidatesOf
  <1>5. QED
    BY <1>1, <1>3, <1>4
    DEF Next, SetDispatchEnabled, SetSettings, CreateRequest, AcceptCandidate, storeVars

LEMMA OnlyCallProviderCalls ==
  ASSUME [ExecutionNext]_vars
  PROVE  calls' = calls \/ \E e \in Executors : CallProvider(e)
  <1>1. WebStep => calls' = calls
    BY DEF WebStep, ChangeSettings, Submit, ReserveSubmitted, execVars
  <1>2. WorkerStep => calls' = calls
    BY DEF WorkerStep, WorkerList, WorkerStart, WorkerSkip, WorkerPrepare, RunGate, AgCommand,
           MarkStarted, RunDispatch, Spawn, Poll, RecoverStarted, RecoverReturns, DriveReturns,
           execVars
  <1>3. FaultStep => calls' = calls
    BY DEF FaultStep, WebCrash, WorkerCrash, PrepareFails, CommandFails, DispatchFails, Redeliver,
           Spawn, EvidenceFails, ExecutorCrash, execVars
  <1>4. ASSUME NEW e \in Executors, ExecutorStep(e)
        PROVE  calls' = calls \/ CallProvider(e)
    BY <1>4 DEF ExecutorStep, ReserveAttempt, BeginAttempt, MarkDispatch, ProviderRefuses,
                ProviderLost, ProviderResponds, RecordResponse, ReportFailed, ReportUnknown,
                FinishAttempt
  <1>5. QED
    BY <1>1, <1>2, <1>3, <1>4 DEF ExecutionNext, Completes, vars, execVars

(* The phase of a dispatch, without the impossible case.                   *)
PhaseKnown(d) ==
    /\ Answered(d) => Phase(d) = "answered" /\ calls[d] = 1
    /\ ~Answered(d) /\ Failed(d) => Phase(d) = "failed" /\ calls[d] = 1
    /\ ~Answered(d) /\ ~Failed(d) /\ calls[d] = 1 => Phase(d) = "called"
    /\ ~Answered(d) /\ ~Failed(d) /\ calls[d] = 0 => Phase(d) = "unsent"

LEMMA PhaseIs == ExecutionInv => \A d \in DispatchIds : PhaseKnown(d)
  <1> SUFFICES ASSUME ExecutionInv, NEW d \in DispatchIds PROVE PhaseKnown(d)
    OBVIOUS
  <1>1. AttemptInv(d)
    BY DEF ExecutionInv
  <1>2. Answered(d) => calls[d] = 1
    <2>1. Answered(d) => Exists(d) /\ StatusOf(d) \in {"candidate", "blocked"}
      BY OpenUnanswered DEF Answered, ExecutionInv
    <2>2. QED
      BY <1>1, <2>1 DEF AttemptInv
  <1>3. Failed(d) => calls[d] = 1
    BY <1>1 DEF AttemptInv, Failed
  <1>4. QED
    BY <1>2, <1>3 DEF PhaseKnown, Phase, Answered, Failed

LEMMA PhaseIsAfter == (ExecutionInv => \A d \in DispatchIds : PhaseKnown(d))'
  BY PhaseIs, PTL

LEMMA SettledPhase ==
  ASSUME ExecutionInv, ExecutionInv', NEW d \in DispatchIds, Settled(d), calls'[d] = calls[d]
  PROVE  Phase(d)' = Phase(d)
  BY DEF Phase, Settled, Answered, Failed

LEMMA CustodyStep ==
  ASSUME ExecutionInv, ExecutionInv', [ExecutionNext]_vars
  PROVE  [Custody!Next]_([d \in DispatchIds |-> Phase(d)])
  <1> DEFINE phase == [d \in DispatchIds |-> Phase(d)]
  <1> USE DEF Custody!Dispatch, DispatchIds
  <1>1. CASE calls' = calls
    <2>1. [Next]_storeVars /\ StoreInv
      BY StoreStep DEF ExecutionInv
    <2>2. CASE \A d \in DispatchIds : Settled(d)
      <3>1. \A d \in DispatchIds : Phase(d)' = Phase(d)
        BY <1>1, <2>2, SettledPhase
      <3>2. QED
        BY <3>1
    <2>3. CASE \E d \in DispatchIds :
                  /\ ~Answered(d) /\ ~Failed(d)
                  /\ Answered(d)' \/ Failed(d)'
                  /\ \A c \in DispatchIds : c # d => Settled(c)
      <3>1. PICK d \in DispatchIds :
                  /\ ~Answered(d) /\ ~Failed(d)
                  /\ Answered(d)' \/ Failed(d)'
                  /\ \A c \in DispatchIds : c # d => Settled(c)
        BY <2>3
      <3>2. \A c \in DispatchIds : c # d => Phase(c)' = Phase(c)
        BY <1>1, <3>1, SettledPhase
      <3>3. calls'[d] = 1 /\ Phase(d)' \in {"answered", "failed"}
        BY <3>1, PhaseIsAfter DEF PhaseKnown
      <3>4. Phase(d) = "called"
        BY <1>1, <3>1, <3>3, PhaseIs DEF PhaseKnown
      <3>5. phase' = [phase EXCEPT ![d] = Phase(d)']
        BY <3>2
      <3>6. Custody!Answer(d) \/ Custody!Fail(d)
        BY <3>3, <3>4, <3>5 DEF Custody!Answer, Custody!Fail
      <3>7. QED
        BY <3>6 DEF Custody!Next
    <2>4. QED
      BY <2>1, <2>2, <2>3, StoreSettlesOne
  <1>2. CASE \E e \in Executors : CallProvider(e)
    <2> PICK e \in Executors : CallProvider(e)
      BY <1>2
    <2>1. PICK d \in DispatchIds :
            d = executor[e].d /\ Exists(d) /\ ExecutorInv(e) /\ executor[e].phase = "call"
      BY ExecutorKnows DEF CallProvider, Running
    <2>2. /\ calls' = [calls EXCEPT ![d] = @ + 1]
          /\ UNCHANGED storeVars
      BY <2>1 DEF CallProvider
    <2>3. calls[d] = 0 /\ StatusOf(d) \in {"executing", "unknown"}
      BY <2>1 DEF ExecutorInv
    <2>4. \A c \in DispatchIds : Settled(c)
      BY <2>2, UnchangedAged, AgedSettled
    <2>5. ~Answered(d) /\ ~Failed(d)
      BY <2>1, <2>3, OpenUnanswered DEF Answered, Failed, ExecutionInv
    <2>6. Phase(d) = "unsent"
      BY <2>3, <2>5, PhaseIs DEF PhaseKnown
    <2>7. ASSUME NEW c \in DispatchIds, c[1] = d[1], c[2] < d[2] PROVE Phase(c) = "failed"
      <3>1. Exists(c) /\ StatusOf(c) = "failed"
        BY <2>1, <2>7, OpenUnanswered DEF ExecutionInv
      <3>2. Failed(c) /\ ~Answered(c)
        BY <3>1, OpenUnanswered DEF Answered, Failed, ExecutionInv
      <3>3. QED
        BY <3>2, PhaseIs DEF PhaseKnown
    <2>8. /\ calls'[d] = 1
          /\ \A c \in DispatchIds : c # d => calls'[c] = calls[c]
      BY <2>2, <2>3 DEF ExecutionInv, ExecutionTypeOK
    <2>9. \A c \in DispatchIds : c # d => Phase(c)' = Phase(c)
      BY <2>4, <2>8, SettledPhase
    <2>10. Phase(d)' = "called"
      <3>1. ~Answered(d)' /\ ~Failed(d)'
        BY <2>4, <2>5 DEF Settled
      <3>2. QED
        BY <2>8, <3>1 DEF Phase, Answered, Failed
    <2>11. phase' = [phase EXCEPT ![d] = "called"]
      BY <2>9, <2>10
    <2>12. Custody!Call(d)
      BY <2>6, <2>7, <2>11 DEF Custody!Call
    <2>13. QED
      BY <2>12 DEF Custody!Next
  <1>3. QED
    BY <1>1, <1>2, OnlyCallProviderCalls

(* Durable generation implements what it promises of a provider: each      *)
(* dispatch is sent at most once, in order, after confirmed failures only, *)
(* and nothing is inferred from silence.                                   *)
THEOREM ExecutionImplementsCustody == ExecutionSpec => CustodySpec
  <1>1. ExecutionInit => Custody!Init
    <2> SUFFICES ASSUME ExecutionInit, NEW d \in DispatchIds PROVE Phase(d) = "unsent"
      BY DEF Custody!Init, Custody!Dispatch, DispatchIds
    <2>1. ~Answered(d) /\ ~Failed(d) /\ calls[d] = 0
      BY DispatchIdType DEF ExecutionInit, Init, Answered, Failed, Exists, CandidatesOf
    <2>2. QED
      BY <2>1 DEF Phase, Answered, Failed
  <1>2. ExecutionInv /\ ExecutionInv' /\ [ExecutionNext]_vars =>
           [Custody!Next]_([d \in DispatchIds |-> Phase(d)])
    BY CustodyStep
  <1>3. QED
    BY <1>1, <1>2, ExecutionInvariant, PTL DEF ExecutionSpec, CustodySpec, Custody!Spec
=============================================================================
