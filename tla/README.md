# Marginalia, specified

TLA+ models, TLC runs and TLAPS proofs for [marginalia](../src/README.md), a
writing workbench: a FastAPI application (`src/src/gov_webui`) in which a writer
keeps conversations with language models in projects, with canon, guidance,
artifacts and a manuscript beside them. Providers are reached through external
programs (the Agent Governor daemon, `ag-loopctl`, `docket`), and a generation
that takes minutes and costs money must survive the death of any process without
being paid for twice or lost. That custody is what is modelled first.

Definitions are translated from the source; `PROJECT.json` ("map") gives, for
each of them, the lines it stands for.

## The system

As deployed (`docker-compose*.yml`, `docs/OPERATIONS.md`) there are five kinds of
process: **one** uvicorn web process (one event loop, every endpoint `async def`,
no thread pool), **one** generation worker, short-lived executor and resolver
processes started through Docket and ag-ng, a backup worker, and a synthetic
probe. They share files and one SQLite database per project; there is no broker.

| component | state it keeps | operations | talks to |
|---|---|---|---|
| custody store `generation_store.py` | tables `generation_settings`, `logical_request`, `dispatch`, `generation_candidate`, an event log | settings, create, reserve, fallback, mark executing / unknown / failed, record, accept, block; each is one `BEGIN IMMEDIATE` transaction | called by the web process, worker, executor, resolvers |
| worker and boundaries `generation_worker.py`, `generation_boundaries.py` | sealed checkpoint, ag-ng database, `started` marker, one set per dispatch | `run_once` → `process_one` → `prepare`, `drive`; `resolve_*` for ag-ng | store, `ag-loopctl` (external), evidence store |
| executor `generation_executor*.py` | attempt journal (SQLite) | `reserve`, `begin`, provider call, `finish`, `reconcile` | store, evidence store, provider |
| acceptance `generation_acceptance.py`, `project_state.py` | project lock (`flock`) | `accept_candidate` | store, sessions, canon, guidance, evidence |
| conversations `session_store.py` | one JSON file per conversation | create, append, append-if-revision, edit, move, delete | library, handlers |
| library `library_store.py` | `library.json`: workspaces, projects, conversation records; a copy in memory and a fingerprint of the file | create / update / delete, lazy enrolment of stray files, migration of schema 1 | sessions, backup |
| web handlers `adapter.py` | settings, caches, maintenance tasks | about 100 endpoints | everything |
| evidence `evidence_store.py` | encrypted responses, retention | write, read, purge | executor, acceptance, worker |
| context maintenance `context_maintenance.py`, `context_summary.py` | summary, work checkpoint; in memory: tasks and pending requirements | schedule, one attempt with retries, batches of chunks, merges | sessions, provider |
| backup `backup_store.py`, `backup_worker.py` | archives, receipt | collect, verify, rehearse a restore, restore, retention | library, sessions |
| artifacts `artifact_store.py` | `index.json`, one content file per revision, one working copy | create, update, autosave, discard, delete, restore | handlers, editors in browsers |
| manuscript `manuscript_store.py` | the outline as nodes with parent and position, in memory and in one file | create, update, move, delete, read in order | handlers, artifacts |
| project snapshots `snapshot_store.py` | an index in memory and on disk, one content file per checkpoint | capture, list, read | handlers |
| canon review `canon_review_store.py`, `canon_scope.py` | review queue and authority record, each in memory and on disk; the registry `anchors.json` | find, correct, dismiss, accept; statements the author types | handlers, acceptance (fingerprint) |
| creative project | guidance file with version | update | acceptance (fingerprint) |
| daemon client, chat adapter `daemon_client.py`, `governed_chat_adapter.py`, `reliability.py` | one connection with a lock, request ids; invocations in flight | call with a deadline, close; look at the pending state, send, resolve, check | Agent Governor (external) |
| provider processes | child process groups | run with a deadline, kill | external commands |
| context budget | none | choose what fits | context maintenance, generation |
| code builder `project_store.py` | project.json and a copy in memory, workspace files with one previous version | texts, plan, files, versions | handlers |
| synthetic worker, style, summaries, usage, markdown, interface | counters or none | | |

What is hard in it, and what is therefore specified:

* **No transaction spans two stores.** A session file, `library.json`, the
  custody database, the executor's journal, ag-ng's database and the evidence
  directory are written one after the other. Every gap is a place to crash, and
  every handler has its own compensation.
* **Several processes write one request's custody**: a web handler and a worker
  that may both reserve, a worker that gives up on an executor that is still
  waiting, an executor started twice for the same attempt.
* **Nothing may be inferred from silence.** An outcome nobody saw is `unknown`,
  never `failed`; only `failed` may lead to a paid fallback.
* **Acceptance races** with moves, edits, deletions, canon and guidance changes,
  and with its own replay after a crash.
* **Derived work is resumable and paid for** (context maintenance): what a crash
  or a failed attempt must not throw away, and requirements that join a run
  which is already under way.
* **A copy in memory is changed before the file is** (outline, review queue,
  snapshot index, code project): a failed write leaves memory ahead of the disk, for
  the next write to make good or the next start to forget.
* **A second process reads what the first is writing** (backup): nothing is locked.
* **An answer may arrive for nobody**: every call to the governor has a deadline, may
  be cancelled, and shares its connection with the other handlers of the project.

Correctness, by component: custody — one open dispatch, one candidate, a budget
frozen at submission, nothing taken back; execution — at most one provider call
per dispatch, no answer lost, everything settles; acceptance — an answer becomes a
turn once, and only against what was frozen; conversations — what was
acknowledged stays reachable and complete; library — memory and disk agree, edits
by hand survive; maintenance — paid chunks are kept, the strongest requirement is
met; backup — an archive misses nothing that stayed where it was, and the last good
one survives; manuscript — an ordered tree, and checkpoints that read back what they
captured; canon — queue, authority record and registry agree, an answer is final, an
id names one statement; code builder — a version names one state; governed turns — a
turn follows the history it was generated from, and every call ends.

## Modules

### `GenerationStore`

One action per writing method of `GenerationStore`, callers unconstrained: any
method in any order. `logical`, `dispatches`, `candidates` and `messageOf` are the
tables, `enabled` and `policy` the settings. A method that raises, or that returns
an existing row, is the absence of a step. Digests are their contents: a candidate
*is* `<<request, position, response>>`. `_dispatch_transition` is kept with its
peculiarity: it checks the dispatch row and overwrites the logical row unseen.

### `GenerationExecution` (extends `GenerationStore`) and `ProviderCustody`

| code | model |
|---|---|
| submitting half of `chat_completions` (adapter.py 3145-3213) | `Submit`, then `ReserveSubmitted`: two transactions |
| `run_once`, `process_one` | `WorkerList` takes the listing, `WorkerStart` / `WorkerSkip` work it off with the *listed* status; `PrepareFails` is the exception outside the `try` |
| `drive` | `RunGate`, `MarkStarted`, `RunDispatch`, `Poll`, `RecoverStarted`, `RecoverReturns`, `DriveReturns` (on a `Closed` counter: settled, halted or completed); any command may fail (`CommandFails`, `DispatchFails`) and may leave its program halted |
| `resolve_*` | `GateOpen`: the logical status the resolver insists on |
| `ExecutorAttemptStore` | `attempt`, `ReserveAttempt`, `BeginAttempt`, `FinishAttempt`, `Reconciled` |
| `execute` | `MarkDispatch`, `CallProvider`, `ProviderResponds` / `ProviderRefuses` / `ProviderLost`, `RecordResponse`, `ReportFailed`, `ReportUnknown` |

`counter` is the program counter of ag-ng, external like Docket (`Spawn`,
`Redeliver`, `Completes`); both are modelled by how `drive` uses them. `ProviderCustody` is the
promise to whoever pays: dispatches are sent in order, each at most once, the next
only after a confirmed failure. `CustodySpec` states that execution refines it.

### `GenerationAcceptance` (extends `GenerationStore`) and `AuthoredTurn`

`accept_candidate` step by step under the project lock: `TakeLock`, `LookUp` (a
prior insertion goes before every check), `Check` (session, canon, guidance, the
response), `AppendTurn` / `AppendNothing` (the compare-and-swap of the session
store), `Bind`, `Block`. Around it: edits, moves, deletions, changes of canon or
guidance, purges, crashes. `Web` is a parameter: one process is the deployment,
two show that the locks and not the event loop do the work. `AuthoredTurn` is the
promise: an answer is authored once, while what it was frozen against is current,
or refused, for ever; `TurnSpec` is the refinement.

### `Conversations`

Session files (`files`, `text`) and the library (`disk`, `mem`, and `trusted`, the
fingerprint test of `_guard_external_change`). A handler is `op`: it locates its
conversation (`Locate`, with lazy enrolment) and then replaces one file per step;
`FileError`, `SaveRaised` and `Crash` end it between steps, `Undo` and `Retract`
are its compensations. A save of the library is two steps, as in the code: `PassGuard`
looks at the file (library_store.py 332), `Saved` replaces it (169), and `guard` tells
whether somebody edited it in between. The web process runs one handler at a time:
none of these handlers awaits between two writes.

### `ContextMaintenance`

Derived context of one conversation: a turn (a user and an assistant message) is
the unit of coverage, and the program between two awaits is one action, because
everything runs on one event loop.

| code | model |
|---|---|
| `_schedule_context_maintenance` (adapter.py 2853-2905): `_context_maintenance_tasks`, `_context_maintenance_pending`, the callback `finished` | `task`, `pending`, `ended`; `Schedule`, reached by `CommitTurn` (proactive) and `Require` (admission refused a prompt); `Callback` |
| `_perform_context_maintenance_once` up to its first provider call | `Begin`: sufficiency, the plan (`Source`), what the checkpoint offers (`Reusable`) |
| `ContextMaintainer`: chunks in batches, then the merge tree | `Tree(n)`, with nodes `<<height, first turn, last turn>>`; `NextCalls`, `CallsReturn`, `CallsFail` |
| the attempts of `_opportunistic_context_maintenance` | `Retry`, `Unavailable` |
| the files of `context_summary.py` | `work` (the checkpoint) and `summary` |
| `_context_maintenance_key` (2831-2848) | `Keys`: one for each writing model, and `NoModel` |
| `_reconcile_interrupted_maintenance` | `Restarted`, after `Crash` or `CrashBeforeSummary`: a task under `NoModel` |

Three history variables say what the properties speak of: `asked`, the strongest
requirement a task owes an answer for; `dropped`, what the callback of an earlier task
took off the record although a newer one was running; `crossed`, the keys whose run has
had another run of the conversation beside it. Left out: policies that change or are
off, models that count tokens differently, repair prompts and the rebalancing of dense
children (more calls for the same node).

### `Artifacts`

`ArtifactStore` keeps nothing in memory: `index` is index.json, `content` and
`working` the text files. An operation `op` is the list of files it still has to
write (`PlanOf`), one per step; `CutShort` ends it anywhere, before or after its
answer. `tab` is an open editor: the version its page would send, and the revision
its text comes from (`seen`). `draft` is a ghost, the text a writer was told is
autosaved. Titles, tags, status and trash only rewrite the index.

### `WorkspaceBackup` (extends `Conversations`)

The worker is a process of its own: `WorkerPoll`, `ReadLibrary`, `ListDirectory` and
`ReadFile` (one file at a time), `Collected`, then `Publish`, `Verify`, `ListArchives`,
`StatArchives` and `Prune`, which it shares with an archive made by the web process
(`WebCreate` collects it in one step, for its handler has no await). In between,
`ConversationStep` is any step of any handler of `Conversations`. An archive is its
day and a stamp; the worker's stamp is the time of its poll, as in the code, so that
it can sort before an archive that was made later and published sooner. `base` and
`left` are ghosts: what was saved when the library was read, and what was on its way
out then (`Leaving`) or left a directory since.

### `Manuscript`

The outline (`outline` in memory, `disk`) and the checkpoints (`listed` in memory,
`indexed` and `captured` on disk). Every operation is a change in memory followed by
`SaveOutline`, which may fail; `Restart` loads the files. `Reading` is `ordered_depth_first`
as a recursive function.

### `CanonReview`

An acceptance is the handler `op`: `AcceptCharacter` or `AcceptRule` (which takes a
number: `Allocate`), then `WriteCanon`, `Close`, `Resolve`, one file per step, each of
which may fail; `Restart` may come between any two. The author's own statements
(`AddRule`, `AddCharacter`, `Remove`) take the same way. A page sends the statement it shows, which
may be any: another page may have corrected the candidate since. `answered`, `kept`,
`written` and `closed` are ghosts, what the author was told and what was ever there;
`asShown` are the candidates that became canon otherwise than the queue has them.

### `CodeProject`

`CodeProjectStore`: `Save` raises the version in memory and then replaces
project.json, or fails; `Current` is `_check_version`; `PutFile` goes through its
stages in the workspace (`Replaced`) and may stop at each. `Restart` is `_load`: the
project on disk, or a fresh one when project.json cannot be read for any reason. `view`
is an editor: the project as it read it, and whether that reading still counts; `accepted`
is a ghost, the content of each file a writer was last told is accepted.

### `ChatTurn`

| code | model |
|---|---|
| `chat_completions` before the call, `_prepare_generation_commit` | `Begin`, `Prepared` |
| `DaemonChatClient._call`: lock, deadline, request, answer by id, close | `Send`, `Reply`, `Deadline`, `ConnectionLost`, `Abandon` |
| `chat_send`, `resolve_pending`: look, send, check the transition | `Proceed`, `SameAsSeen` |
| `_commit_authored_turn`, outcomes | `Commit`, `Outcome`, `Fails` |
| `_stream_via_daemon` and its reader | `StreamEnds`, `ReaderLeaves`, `ReaderCancels` |
| `GovernorProgress` | `active` |
| the governor, external | `Execute`: an answer, a new pending state, a failure or nothing, also for requests nobody waits for any more |

### Proof and model-checking modules

`MC*` modules only add symmetry and constants. `*Proofs` modules extend the module they
are named for and hold its invariants and theorems; the proofs about execution and
acceptance also extend `GenerationStoreProofs`, whose lemmas they cite.
`ConversationsProofs` goes on to `WorkspaceBackup`, `ChatAndBuilderProofs` is about
`ChatTurn` and `CodeProject`, and `ArtifactsAndOutlineProofs` about `Artifacts` and
`Manuscript`.

## Runs

| run | question | result |
|---|---|---|
| `Execution` | do the custody tables agree, is a dispatch charged twice, an answer lost or refused, queued work forgotten, anything left in flight, with web process, worker, two executors and three faults? | all is well, unless ag-ng halts a program; refines `ProviderCustody` (203 k states) |
| `ExecutionRefusal` | is the refusal of a provider ever known as a qualified failure, as a fallback needs? | no: finding |
| `AcceptanceDeployed` | with one process, a crash and a conversation that moves, does an answer become a turn once, and only as frozen? | yes; refines `AuthoredTurn` (213 k) |
| `AcceptanceTwoProcesses` | do the locks and the compare-and-swap suffice without the event loop, and is every candidate decided in spite of a crash? | yes (159 k) |
| `ConversationsFaults` | does what a writer was shown stay where the library points, under three crashes, failed writes or edits by hand? | yes (2.1 M) |
| `Maintenance` | is paid work kept, the strongest requirement remembered and answered, the summary never shrunk, for a writing model and the start-up task with two faults? | yes, but where two runs overlap or a late callback drops a requirement (246 k) |
| `Artifacts` | do committed revisions stay as they were, autosaved text survive, and editors replace only what they were shown, over writes cut short between any two files? | yes (63 k), but for one gesture of the page, below |
| `Backup` | does an archive that is read while conversations come, move and go miss any that stayed, is the last good archive ever lost, does every day get one? | no, no, yes (699 k) |
| `Manuscript` | does the outline stay an ordered tree in memory and on disk, does an edit reorder what it does not name, does a checkpoint keep what it captured? | yes, no, yes (20 k) |
| `CanonReview` | do queue, authority record and registry contradict each other, is an answered claim asked again, an id used twice, with failures between any two files and pages that are out of date? | no, but for what such a page accepted (3.3 M) |
| `CodeProject` | does a version name one state, and does a failed put lose a file? | yes, while what an editor read counts; not one by itself (2.9 M) |
| `ChatTurn` | does a turn ever follow another history than its own, or a resolution resolve another state than was seen; does every call end and free the connection, although the governor may never answer? | no, no, yes (90 k) |

Properties are conjunctions of named parts where one slip breaks them together:
`CustodySound` (types, one open dispatch, budget, agreement of the tables),
`ExecutionSound` (fallback only after a failure, journal and tables agree, no answer
refused); the other invariants take the type invariant of their module along.

Every property of a passing run has a mutant in `PROJECT.json`: an operator beside
the real one (`PassAnyGuard`, `ClearNothing`, `SnapshotIndexFirst`, ...) that is a plausible
slip in the same code, and with which TLC finds the property violated.

### Bounds, and why they are enough

* **Execution**: one request with one fallback, two executor processes and three
  faults (crashes, failing commands, redeliveries, lost calls, all from one purse).
  Two executors are what one redelivery gives; three faults allow one at each of two
  boundaries and one in the recovery from them. One fallback is the smallest budget in
  which "the last allowed" and "the next" differ; a second request interferes only
  through the project's settings, and the theorems on the store have no bound.
* **Acceptance**: two projects so that a conversation can leave and come back, two
  values of canon and guidance so that a change and a change back are both there,
  revisions up to 2, one crash. Two processes with two requests for the race, whose
  conversation has one revision to win.
* **Conversations**: two projects, a conversation an older version left and a fresh
  one, so that a fork has a source and a stray exists; two messages; three faults,
  which lets a compensation fail and the recovery from it fail as well.
* **Maintenance**: chunks of two turns and batches of two, five turns: three chunks,
  hence two batches, a merge with one child passed up and a second level of merging.
  One writing model beside the key without one: two tasks, which is what overlapping
  takes. Two faults: a crash that starts the second, and a failure in one of the two.
* **Artifacts**: one artifact (its files and its index entry are its own), three
  revisions, so that a page can be one or two behind, two editors and two faults, so
  that what a fault left is written over by an operation that is itself cut short.
* **Backup**: one conversation in two projects, two requests that move or remove its
  file, so that it can leave and come back during one collection; two days with a
  retention of two and an archive on request, so that a third archive exists and
  something is pruned; one fault.
* **Manuscript**: three nodes: a parent with two children, or a chain, the least in
  which a move below one's grandchild exists; one checkpoint; two faults, a failed
  write and a restart.
* **Canon**: one claim about the character and a rule, two candidates, so that one
  claim is in the queue twice or the two compete, and a page that shows the one when
  the other is meant; two numbers per prefix; two faults.
* **Code project**: one file with two contents, two texts, two phases of one item, six
  versions, two faults.
* **Governed turns**: two turns of one conversation, a stream and a resolver: two
  handlers queue behind the one that owns the connection; two other writes.

Purses (`MaxFaults`, `MaxCrashes`), `MaxRevision`, `MaxText`, `MaxTurns`,
`MaxVersion`, `MaxDays`, `MaxRequests`, `MaxItems`, `MaxNumber` and `MaxWrites` bound
what the environment does; everything the code decides is unbounded by them.
Deadlock is checked except in maintenance and governed turns, where a process at the
end of its bounds has nothing to do, and for artifacts, whose identifiers are used
once.

### Fairness

* `FairExecution`: weak fairness of the worker (its container restarts, and
  `run_forever` loops), of each executor, and of a submitting handler that has
  created its request. A provider call ends because every daemon RPC has a deadline.
  Faults, switches and everything a writer does are never assumed to happen.
* `FairAcceptance`: weak fairness of a handler that has begun, strong fairness of
  asking for the state of a request: the browser polls while a request is open, and
  asking is enabled again and again, not continuously, because each other call
  occupies the process for a while.
* `FairMaint`: tasks and callbacks of the event loop run. No writer, no commit and
  no retry by a reader is assumed; so `AskedIsAnswered` says that a request is
  answered by the task itself, with success or by giving up.
* `BackupSpec`: weak fairness of the worker, a loop that polls again after every
  failure. Of the web process and the calendar nothing is assumed: `DailyArchive`
  speaks of days that are not over.
* `FairChat`: timers of the event loop fire, and the reader of a stream takes the rest
  or goes away. Nothing is assumed of the governor, so `TurnSettles` rests on the
  deadlines alone.

## What is proved

A theorem holds for every value of the constants, so for any number of processes,
requests, conversations, texts, crashes and failed writes. Each component has one
inductive invariant, a conjunction of named parts, whose preservation has one lemma per
action and under it one step per part the action can disturb; TLC checked every one of
them on the runs' instances before it was proved. The safety and action properties
follow from it.

| module | theorems (the specification implies ...) |
|---|---|
| `GenerationStoreProofs` | `CustodySound`, `CustodyKept`, `AcceptanceFinal`, `NoRedispatchOfOpenWork` |
| `GenerationExecutionProofs` | the store's `Spec`, hence `CustodySound` and `CustodyKept`; `ProviderCalledAtMostOnce`, `ExecutionSound`, the refinement of `ProviderCustody` |
| `GenerationAcceptanceProofs` | the store's `Spec`, hence `AcceptanceFinal`; `AuthoredOnce`, `AcceptedWasAuthored`, `AuthoredAgainstFrozen`; for one web process `NoTurnBlocked` and the refinement of `AuthoredTurn` |
| `ConversationsProofs` | `NothingLeftBehind`, `HandEditSurvives`; without late failures `AcknowledgedKept` and, of the backup worker, `NothingMissed`; where two or more archives are retained `LastGoodKept` |
| `ArtifactsAndOutlineProofs` | `RevisionsReadable`, `HistoryKept`, `DraftNotLost`, `EditsWhatItSaw`; `OutlineSound`, `SnapshotsKept` |
| `CanonReviewProofs` | `IdsNotReused`, `AcceptedIsCanon`, `AnsweredStaysClosed` |
| `ChatAndBuilderProofs` | `VersionNamesState`, `FailedPutLosesNothing`; `TurnFollowsItsHistory`, `ResolvedWhatWasSeen`, `CapacityReleased` |
| `ContextMaintenanceProofs` | `RequirementRemembered`, `PaidIsKept`, `SummaryGrows` |

The assumptions are the modules' `...Assumption`s: bounds are natural numbers, NULL is
none of the values it stands beside, a set that must offer a choice is not empty. The
hypotheses "one web process", "no late failures" and "two or more archives" are those
under which the runs hold as well; without them the property fails, as told below. What
a property excepts is part of its statement ("Conditions in the properties").

* **Store** (`StoreInv`). `mark_unknown` and `mark_failed` look at the dispatch row and
  overwrite the logical row, so that one must know that a dispatch which is still open
  has no candidate (`CandidateHeld`: a candidate belongs to the *last* dispatch, whose
  row says so), and `accept_candidate` looks at the logical row and writes the
  candidate's, so that one must know that the candidate it names is a row of the same
  request (`AcceptedHeld`).
* **Execution** (`ExecutionInv`). What the journal, the tables and the executor's own
  step know of a dispatch (`ExecutorInv`, `AttemptInv`), and that an attempt has one
  owner, the executor that moved it from reserved to executing (`OneOwner`): from this
  and `calls = 0` before the call, a dispatch is charged once. Whatever the web process
  and the worker do meanwhile only ages a row (`Aged`): a new one is reserved, an open
  one may become unknown. No command of the store is called in a way `Spec` does not
  know, so the store's theorems carry over without being proved again. For the
  refinement, a step either changes the phase of one dispatch the way `ProviderCustody`
  allows, or changes none.
* **Acceptance** (`AcceptanceInv`). A turn is in the conversation it was frozen for, at a
  revision above the one it was frozen at (`AuthoredInv`), and no two turns came from the
  same revision (`OneTurnPerRevision`); so the compare-and-swap lets one answer through,
  whatever the number of processes. A handler past the lock holds it, and at `append`
  the basis it compared is still the project's. For one process, a handler that does not
  find an insertion knows that there is none (`AloneInv`). The hypothesis is not
  idle: `Check` does not look at the logical status, so that with two processes the
  second may find the conversation changed by the first and block what was authored in
  the window before it is bound.
* **Conversations** (`ConvInv`, `KeptInv`). What a handler found out still is so at each
  of its steps (`HandlerInv`), and, until one is cut short, every file is where the
  library points, or a stray an older version left, or in the hands of the handler
  (`Accounted`). For `AcknowledgedKept`, the library on disk is the one in memory except
  for a record an edit by hand has added, which memory does not know yet (`DiskInv`), and the file a
  record points to holds what was acknowledged (`Kept`).
* **Backup** (`BackupInv`, `CollectInv`, `StandingInv`). A step of the backup moves no
  file, so the invariants of `Conversations` carry over; two facts are added that only
  matter beside a collection: a new fork's file is empty until it is filled
  (`FillInv`), so that a file which is not removed never loses a message. Of a
  conversation the library named and that has not left, the file is there, with at
  least what was relied on, in a directory still to be listed, or in the listing, or
  read already (`Awaited`). A process that has not published its archive holds a name
  nobody else has (`NamesInv`: stamps only grow). What a process is about to remove
  has a newer archive above it that nobody may withdraw (`StandingAbove`): when it was
  listed, two newer ones were there, and the other process can withdraw only one.
* **Artifacts** (`ArtInv`, `DraftInv`). While an operation that adds a revision has its
  content file behind it and the index before it, the text it will name is in the file
  of the next revision (`RevisionPrepared`), and what is left to do is the end of the
  operation's plan (`Remaining`). A draft is in the working copy, or in the revision
  that has replaced it (`DraftSafe`).
* **Manuscript** (`OutlineInv`, `SnapshotInv`). A finite outline that is a tree stays one
  by each edit (`CreatedIs`, `MovedIs`, `DeletedIs`). Siblings without gaps or ties have
  no two at one place (`ChildrenApart`); then ranks among any of them are different and
  below their number (`RankIs`), so that numbering them again leaves no gap, or just
  the one the moved node fills (`RenumberedIs`, `Numbers`). No cycle arises because what
  is under a node is closed under children (`UnderIs`), and the new parent is not there.
* **Canon** (`CanonInv`, `AnswersInv`). Every number in use is below the next one on
  disk, which memory never falls behind (`NumbersInv`); before the handler writes, its
  id is new, and after it its statement is in the registry (`OpInv`). The least index
  of a queue is found by well-founded minima (`WFMin`).
* **Code project** (`ProjectInv`). Of two states of the project, one is later, and equal
  versions mean equal states (`NotNewer`), for memory over disk and for both over what a
  view read, while that reading counts; no version is below that of a fresh project
  (`FirstIsFresh`), which is what a restart may begin with. The latest accepted content of
  a file is in its file or, after one failed put, beside it (`KeptInv`).
* **Governed turns** (`ChatInv`). The connection is owned by exactly the call that was
  sent (`LockIsCall`), a reply carries the answer of its own request (`ReplyInv`), and a
  handler that was shown a pending state resolves that one (`HandlerInv`).
* **Maintenance** (`MaintInv`, `PaidInv`). While the callback of a task is queued, nothing
  is recorded beside its successor, and what is still owed when there is none is
  stronger than what the task was for or in `dropped` (`OwedInv`): so the record that the
  callback drops owes nothing, unless a newer task was running. For the checkpoint (`SavedInv`) one must know that a run which has its
  chunks makes one call at a time, so that a failing merge yields nothing that would be
  lost; it follows from the order of the merge tree (`MergesOrdered`, `OneMerge`). Of the
  runs no other one has come beside, one at most has work in memory, and the checkpoint
  is its own.

Proving changed the models in a few places. `Phase` of `GenerationExecution` and
`Outcome` of `GenerationAcceptance` were `CASE`s whose guards overlap, of which TLC
takes the first and TLA+ any; they are chains of `IF` now. Types that were too weak to
reason from were made exact (what a view of `CodeProject` has read, the requests of
`ChatTurn`), and assumptions that the runs satisfied silently are stated (`Free` is no
handler, what may be frozen is what is submitted). `SUBSET x \ y`, which TLC and the
prover bind differently, has got its parentheses. `NothingMissed` of `WorkspaceBackup`
was not inductive, and false with one request more than the run makes: a writer's
`saved` outlives the deletion of a conversation that a stray file brings back. `base` is
now what writers still rely on, and a conversation on its way out is named (`Leaving`)
instead of being left to it.

Only model-checked so far:

* liveness and every property under fairness, which are beyond the prover:
  `CandidateDecided`, `QueuedIsServed`, `DispatchSettles`, `AskedIsAnswered`,
  `DailyArchive`, `TurnSettles`; `FairExecution` and its like are their specifications'
  safety part with fairness added, so the theorems hold of them too;
* `ReadingOrderKept` of `Manuscript`: `Reading` is a recursive function of the depth,
  and what it yields for every outline takes an induction over data.

## Finding

`ExecutionRefusal` shows that the code does not do what a document of the repository
says (`PROJECT.json`, "findings", quotes both): no code raises
`ProviderDefinitiveFailure` (generation_executor.py 36), so that every provider error
ends as `unknown` and the configured fallback never runs. Latent behind it: were it
raised, a refusal that arrives after the worker gave the dispatch up would be rejected
by `mark_failed` (generation_store.py 674), and stay unknown too.

### Properties that do not hold

The modules define them, marked "Does not hold"; no run lists them. Add one to the
configuration named to see the history.

* `EnrolledHasFile` (`ConversationsFaults.cfg`): a deletion unlinks the file before it
  saves the library (adapter.py 3704); when the save fails the record stays without a
  file, cannot be deleted any more, and every later restore rehearsal refuses the
  archive ("refuses a backup missing any enrolled conversation file",
  docs/OPERATIONS.md 137-139).
* `StandingTurnNotBlocked` (`AcceptanceDeployed.cfg`): the insertion a crash left
  behind is looked for in the project of the request only (generation_acceptance.py
  61); if the conversation has moved meanwhile, a turn that stands is reported as
  blocked.
* `InterruptedCatchesUp` (`Maintenance.cfg`, as a property): a run that admission
  required below the proactive watermark is rescheduled as a proactive run after a
  restart, and does nothing (adapter.py 2693, 6376).
* `RehearsedIsReadable` (`Backup.cfg`): a conversation that moves after the library was
  read and before its old directory is listed is packed where it is by then. The
  rehearsal (backup_store.py 501-505) looks for a file of the conversation in any
  project, so that an archive passes whose library points to a directory where the
  conversation is not.
* `OverIsNotInFlight` (`ChatTurn.cfg`): `_stream_via_daemon` yields the content before
  it reports success (adapter.py 3438, 3459). A reader that leaves there raises
  `GeneratorExit`, which neither clause catches: the invocation stays counted, and past
  the wedge threshold readiness is refused until a restart. docs/RELIABILITY.md says a
  cancelled call releases its capacity.
* `EveryDispatchSettles` (`Execution.cfg`, as a property): `drive` returns on a program
  that ag-ng has halted and marks nothing (generation_worker.py 316-317); a dispatch in
  flight stays so, and the request can neither be answered nor dispatched again.
* `RetryResumes` (`Maintenance.cfg`): the task that takes up interrupted work after a
  start has a key without a model (adapter.py 6379, 2837-2840), so that the next commit or
  requirement of the writing model starts a second run of the same conversation, against
  "One run per session" (2867). Each replaces the checkpoint of the other, and a retry pays
  again for what "survives into the checkpoint" (context_maintenance.py 346). Two writing
  models overlap in the same way. `PaidIsKept` is what is left of it.
* `NoEditClobbered` (`ConversationsFaults.cfg`, as a property): the fingerprint of
  `library.json` is compared (library_store.py 332) before the temporary file is written
  and synced; the file is replaced afterwards (169), whatever it says by then. An edit made
  in that window "must not be clobbered" (tests/test_library_store_concurrency.py 2) and
  is. `HandEditSurvives` is what is left of it.
* `CurrentIsWhatWasRead` (`CodeProject.cfg`): `_load` swallows every exception and starts
  a fresh project at version 1 (project_store.py 225-235), which the next save puts in the
  place of the one it could not read. From there, as after a failed save that a restart
  takes back, versions that editors still hold are given again, to other states, and an
  editor replaces without a conflict what it has not read.
* `AcceptedAsItReads` (`CanonReview.cfg`): a page accepts the candidate as it shows it
  (static/index.html 1928), which is what becomes canon (adapter.py 4862-4864), though
  another page has corrected it: the queue reads accepted, with a claim that is not in
  the registry.

### Parameters that break a property

Two hazards are left out of the passing runs by a constant. Setting it shows them:

* `LateFailures = TRUE` in `ConversationsFaults.cfg`: `fsync` of the directory fails
  after `os.replace` (library_store.py 161-171). The library on disk is the new one,
  the one in memory is rolled back, every later save is refused as an external edit,
  and a move takes its copy away again. After a restart the record points where the
  file no longer is: `AcknowledgedKept` fails. The backup worker reads that record
  without a restart: in `Backup.cfg`, `NothingMissed` fails.
* `Retain = 1` in `Backup.cfg`: while one process has published an archive it may still
  withdraw, the other prunes the older one: `LastGoodKept` fails.

### Conditions in the properties

* `EditsWhatItSaw` excepts an editor that has saved status or tags:
  `saveArtifactLifecycle` (static/index.html 2313-2327) takes the current version out
  of the answer and keeps the text it has, so that the next save replaces a revision
  another page committed meanwhile (or its own save whose answer was lost), without a
  conflict; the older revision stays in the history. Without the exception TLC finds
  this in fifteen steps.
* `NothingLeftBehind` holds as long as no handler is cut short (`cut = 0`). A move that
  dies between the library and the unlinking of the old file (session_store.py 417)
  leaves a copy; in the default project it is enrolled again once the conversation has
  been deleted, and anywhere it makes a later move back fail with `FileExistsError`. A
  fork whose history cannot be written (adapter.py 3785) leaves its empty file likewise.
* `FailedPutLosesNothing` speaks of one failed put: a second one in a row moves the
  half-written file over the previous one (project_store.py 402-407).
* `VersionNamesState` speaks of editors whose reading counts: it was on disk when the
  process was replaced, and the project loaded then was not an older or a fresh one.
* `DispatchSettles` excepts a dispatch whose program ag-ng has halted.
* `HandEditSurvives` excepts an edit made while a save was between its look at the file
  and its replacement (`guard = "raced"`).
* `PaidIsKept` and `SummaryGrows` except runs that another run of the conversation has
  come beside (`crossed`): each then replaces the other's checkpoint, and the one with the
  shorter plan may replace the summary last. That takes two keys: the start-up task and a
  model, or two models.
* `RequirementRemembered` and `AskedIsAnswered` except what a late callback drops
  (`dropped`): two requests arrive between the end of a task and its callback, the first
  starts a task, the second, stronger one is recorded, and `finished` (adapter.py
  2887-2901) drops the record because it is not stronger than what the *ended* task was
  for.
* `AcceptedIsCanon` excepts the claim, not the anchor, of a candidate that a page accepted
  otherwise than the queue has it (`asShown`); `AnsweredStaysClosed` speaks of claims that
  were answered as the queue has them. What an out-of-date page made canon may be found
  and asked again.
* `CandidateDecided` excepts a request whose evidence was purged before anyone looked
  (generation_acceptance.py 76): its candidate stays undecided.
* `NothingMissed` excepts conversations that are on their way out when the library is
  read (the file is gone, the record is not yet), and those a file of which was removed
  during the collection; `AcceptedIsCanon` keeps a statement until the author removes it or
  replaces the whole character by the form (adapter.py 4522).

What the models show without a property of its own: a rule whose queue write fails is
accepted a second time under another id (adapter.py 4916-4921); two candidates of one
claim may be pending at once; a text for one pending state may be applied to the next
one, because `/v1/governed-chat/resolve` carries no pending id (adapter.py 1060), and
only its receipt tells; a call that waited for the connection until its deadline is
reported like one that was sent (daemon_client.py 160-170).

## Not modelled, and why

The components of the table that no module covers are listed in `PROJECT.json` with the
reason: HTTP transports, configuration parsing, formatting, the probe (no state the
rest depends on, or pure I/O), the process tree of a provider command
(`provider_supervisor.py`), and the choice of what fits a token budget, of which
`ContextMaintenance` keeps the result.

Inside the modelled parts: digests are their contents; the event log of the custody
store is not read by the program; a sealed checkpoint that no longer matches the
configuration is only the transient failure `PrepareFails`; a response is classified
by membership in `AuthoredOutput`; records of workspaces and projects and the
migration of schema 1 are not in the library's state; artifacts, evidence and
checkpoints in an archive are read like session files and not told apart from them; the
guards of an acceptance on other warrants, relied-on propositions and closed categories
refuse nothing that the callers in the repository propose; the import of a registry and
the numbering of code constraints by their count (adapter.py 5055, 6494) are left out,
and so are claims of the research mode. The clock of the backup worker does not go back, and two workspaces
whose ids share a prefix and a subdirectory (backup_store.py 312) are not modelled. A failed write leaves the old file or the new
one: `project_store.py` (237-245, 396-402) replaces files without a sync, so that after
a loss of power it may find neither; of that only the unreadable project.json is in
`CodeProject`.

In `ChatTurn` the contract check and the calls for receipts (governed_chat_adapter.py
104-110, 126, 178) are further short calls between an answer and its use. They are left
out: other handlers may take the connection there, as they may between any two calls that
are modelled, and a turn whose receipt cannot be had fails after it was generated, as
others do by `Fails`. `/health` is one more waiter for the connection. A
connection closed in the middle of a frame (`IncompleteReadError`, daemon_client.py 75,
223-225) is not closed on this side until the next call finds it so and fails as well;
`ConnectionLost` closes it at once, and the next call may fail by the same action.
`_capacity_degraded` (reliability.py 56-67) decides only what readiness reports.

## Plan

The modules are written, and every invariant and every action property that a run checks
is proved, except `ReadingOrderKept`. What would say more, in this order:

1. What the theorems with a hypothesis still promise without it: what is kept of
   `AcknowledgedKept` and `NothingMissed` when a directory sync fails late, and which
   turn may be blocked when two web processes decide.
2. `ReadingOrderKept` for every outline, from `Tree` and a reference definition of the
   order that needs no recursion.
