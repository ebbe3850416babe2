------------------------- MODULE GenerationAcceptance -------------------------
(***************************************************************************)
(* How an answer in custody becomes a turn of a conversation, or does not: *)
(* generation_acceptance.accept_candidate and the handlers around it, over *)
(* the GenerationStore, the session files (session_store.py), the project  *)
(* lock and the canon and guidance files it protects (project_state.py),   *)
(* and the response evidence the worker purges.                            *)
(*                                                                         *)
(* A web process runs one handler at a time (every handler below is free   *)
(* of awaits), so with one process only a crash can come between the steps *)
(* of an acceptance.  The locks are there for several processes: with more *)
(* elements in Web the session files, the project files and the database   *)
(* change between any two steps, as far as the locks let them.             *)
(*                                                                         *)
(* A message is abstracted to its id; only messages bound to a candidate   *)
(* are kept.  Whether a response is authored output is a property of the   *)
(* response (classify_daemon_result is deterministic).                     *)
(***************************************************************************)
EXTENDS GenerationStore

CONSTANTS
    Sessions,       \* conversation ids
    Bases,          \* what the canon and guidance fingerprints tell apart
    AuthoredOutput, \* responses that classify as authored
    Web,            \* web processes
    MaxRevision,    \* bound: session revision
    MaxCrashes      \* bound: crashes of web processes

(* The frozen columns of a logical request, which are what the store keeps *)
(* as the content of one.                                                  *)
FrozenWork == [session : Sessions, revision : 0 .. MaxRevision, basis : Bases]

ASSUME GenerationAcceptanceAssumption ==
    /\ Contents = FrozenWork
    /\ Null \notin Web \cup Projects
    /\ AuthoredOutput \subseteq Responses
    /\ MaxRevision \in Nat
    /\ MaxCrashes \in Nat

VARIABLES
    place,      \* project whose session directory holds the conversation
    revision,   \* revision of the conversation
    turns,      \* <<candidate, message>> pairs in the conversation
    authored,   \* every <<candidate, message>> ever committed to a session file
    basis,      \* canon and guidance of a project
    evidence,   \* candidates whose response is retained
    lock,       \* holder of a project's state lock
    web,        \* what each web process is doing
    crashes

sessionVars == <<place, revision, turns, authored>>
acceptVars == <<storeVars, sessionVars, basis, evidence, lock, web, crashes>>

-----------------------------------------------------------------------------
Frozen(k) == logical[RequestOf(k)].content
HomeOf(k) == ProjectOf(RequestOf(k))

Steps == {"idle", "lock", "lookup", "check", "append", "bind", "block"}
Resting == [pc |-> "idle", k |-> Null, m |-> Null]
Idle(w) == web[w] = Resting
At(w, pc) == web[w].pc = pc
Goto(w, pc) == web' = [web EXCEPT ![w].pc = pc]

(* Leaving the with block of project_state_lock, by return or exception.   *)
Unlock(w) == lock' = [p \in Projects |-> IF lock[p] = w THEN Null ELSE lock[p]]
Leave(w) == Unlock(w) /\ web' = [web EXCEPT ![w] = Resting]

(* SessionStore.get on the directory of the request's own project.         *)
Found(k) == place[Frozen(k).session] = HomeOf(k)
Unchanged(k) == revision[Frozen(k).session] = Frozen(k).revision
(* Mutant: any candidate's message counts as a prior insertion.            *)
InsertedByAnyone(k) == {m \in Messages : \E l \in CandidateIds : <<l, m>> \in turns[Frozen(k).session]}

Inserted(k) == {m \in Messages : <<k, m>> \in turns[Frozen(k).session]}

AcceptanceTypeOK ==
    /\ TypeOK
    /\ place \in [Sessions -> Projects \cup {Null}]
    /\ revision \in [Sessions -> 0 .. MaxRevision]
    /\ turns \in [Sessions -> SUBSET (CandidateIds \X Messages)]
    /\ authored \subseteq CandidateIds \X Messages
    /\ basis \in [Projects -> Bases]
    /\ evidence \subseteq candidates
    /\ lock \in [Projects -> Web \cup {Null}]
    /\ web \in [Web -> [pc : Steps, k : CandidateIds \cup {Null}, m : Messages \cup {Null}]]
    /\ crashes \in 0 .. MaxCrashes

AcceptanceInit ==
    /\ Init
    /\ place \in [Sessions -> Projects]
    /\ revision = [s \in Sessions |-> 0]
    /\ turns = [s \in Sessions |-> {}]
    /\ authored = {}
    /\ basis \in [Projects -> Bases]
    /\ evidence = {}
    /\ lock = [p \in Projects |-> Null]
    /\ web = [w \in Web |-> Resting]
    /\ crashes = 0

-----------------------------------------------------------------------------
(* The submitting handler.  It freezes the session and the fingerprints,   *)
(* and checks all of them again under the project lock before the insert:  *)
(* what it stores is what holds at that moment, or it stores nothing.      *)
Submit(w, r, s) ==
    /\ Idle(w)
    /\ DispatchEnabled(ProjectOf(r))
    /\ lock[ProjectOf(r)] = Null
    /\ place[s] = ProjectOf(r)
    /\ revision[s] < MaxRevision
    /\ CreateRequest(r, [session |-> s, revision |-> revision[s],
                         basis |-> basis[ProjectOf(r)]], 0)
    /\ UNCHANGED <<sessionVars, basis, evidence, lock, web, crashes>>

EnableDispatch(w, p) ==
    /\ Idle(w)
    /\ ~DispatchEnabled(p)
    /\ SetDispatchEnabled(p, TRUE)
    /\ UNCHANGED <<sessionVars, basis, evidence, lock, web, crashes>>

(* Worker and executor: the steps of a dispatch that is answered (all the  *)
(* others are in GenerationExecution); the evidence is written first.      *)
Answered(r, x) ==
    /\ RecordCandidate(r, 1, x)
    /\ evidence' = evidence \cup {<<r, 1, x>>}

CustodyStep(r) ==
    /\ \/ ReserveDispatch(r) /\ UNCHANGED evidence
       \/ MarkExecuting(r, 1) /\ UNCHANGED evidence
       \/ \E x \in Responses : Answered(r, x)
    /\ UNCHANGED <<sessionVars, basis, lock, web, crashes>>

(* purge_expired of the evidence store, at the end of a worker pass.       *)
Purge(k) ==
    /\ k \in evidence
    /\ evidence' = evidence \ {k}
    /\ UNCHANGED <<storeVars, sessionVars, basis, lock, web, crashes>>

-----------------------------------------------------------------------------
(* Other handlers of a web process.  All of them replace one file.         *)

(* Title, model, hand-made message or synchronous turn: one write, one     *)
(* more revision (each of them re-reads the file under the session lock).  *)
EditSession(w, s) ==
    /\ Idle(w)
    /\ place[s] # Null
    /\ revision[s] < MaxRevision
    /\ revision' = [revision EXCEPT ![s] = @ + 1]
    /\ UNCHANGED <<storeVars, place, turns, authored, basis, evidence, lock, web, crashes>>

(* Mutant: a move re-creates the conversation, as a fork does, and drops   *)
(* the identities of its messages.                                         *)
MoveAsCopy(w, s, p) ==
    /\ Idle(w)
    /\ place[s] \notin {Null, p}
    /\ place' = [place EXCEPT ![s] = p]
    /\ revision' = [revision EXCEPT ![s] = 0]
    /\ turns' = [turns EXCEPT ![s] = {}]
    /\ UNCHANGED <<storeVars, authored, basis, evidence, lock, web, crashes>>

(* move_to, which counts as a revision of the conversation.                *)
MoveSession(w, s, p) ==
    /\ Idle(w)
    /\ place[s] \notin {Null, p}
    /\ revision[s] < MaxRevision
    /\ place' = [place EXCEPT ![s] = p]
    /\ revision' = [revision EXCEPT ![s] = @ + 1]
    /\ UNCHANGED <<storeVars, turns, authored, basis, evidence, lock, web, crashes>>

DeleteSession(w, s) ==
    /\ Idle(w)
    /\ place[s] # Null
    /\ place' = [place EXCEPT ![s] = Null]
    /\ turns' = [turns EXCEPT ![s] = {}]
    /\ UNCHANGED <<storeVars, revision, authored, basis, evidence, lock, web, crashes>>

(* Every canon endpoint and CreativeProjectStore.update hold the lock.     *)
ChangeBasis(w, p, b) ==
    /\ Idle(w)
    /\ lock[p] = Null
    /\ basis' = [basis EXCEPT ![p] = b]
    /\ UNCHANGED <<storeVars, sessionVars, evidence, lock, web, crashes>>

-----------------------------------------------------------------------------
(* accept_candidate, started by every look at a request with a candidate.  *)
Poll(w, k) ==
    /\ Idle(w)
    /\ k \in candidates
    /\ logical[RequestOf(k)].status = "candidate"
    /\ web' = [web EXCEPT ![w] = [pc |-> "lock", k |-> k, m |-> Null]]
    /\ UNCHANGED <<storeVars, sessionVars, basis, evidence, lock, crashes>>

TakeLock(w) ==
    /\ At(w, "lock")
    /\ lock[HomeOf(web[w].k)] = Null
    /\ lock' = [lock EXCEPT ![HomeOf(web[w].k)] = w]
    /\ Goto(w, "lookup")
    /\ UNCHANGED <<storeVars, sessionVars, basis, evidence, crashes>>

(* Mutant: the current state is checked before a prior insertion.          *)
LookUpLast(w) ==
    /\ At(w, "lookup")
    /\ Goto(w, "check")
    /\ UNCHANGED <<storeVars, sessionVars, basis, evidence, lock, crashes>>

(* candidate_message_id: a prior insertion precedes every other check.     *)
LookUp(w) ==
    LET k == web[w].k IN
    /\ At(w, "lookup")
    /\ \/ /\ Found(k)
          /\ \E m \in Inserted(k) :
                web' = [web EXCEPT ![w].pc = "bind", ![w].m = m]
       \/ /\ ~Found(k) \/ Inserted(k) = {}
          /\ Goto(w, "check")
    /\ UNCHANGED <<storeVars, sessionVars, basis, evidence, lock, crashes>>

StillFrozen(k) ==
    /\ Found(k)
    /\ Unchanged(k)
    /\ basis[HomeOf(k)] = Frozen(k).basis

(* Mutant: canon and guidance are not compared.                            *)
CheckSessionOnly(w) ==
    LET k == web[w].k IN
    /\ At(w, "check")
    /\ IF ~Found(k) \/ ~Unchanged(k) \/ (k \in evidence /\ k[3] \notin AuthoredOutput)
       THEN Goto(w, "block") /\ UNCHANGED lock
       ELSE IF k \notin evidence
       THEN Leave(w)
       ELSE Goto(w, "append") /\ UNCHANGED lock
    /\ UNCHANGED <<storeVars, sessionVars, basis, evidence, crashes>>

(* Mutant: work that is no longer current raises and decides nothing.      *)
CheckRaises(w) ==
    LET k == web[w].k IN
    /\ At(w, "check")
    /\ IF StillFrozen(k) /\ k \in evidence
       THEN /\ Goto(w, IF k[3] \in AuthoredOutput THEN "append" ELSE "block")
            /\ UNCHANGED lock
       ELSE Leave(w)
    /\ UNCHANGED <<storeVars, sessionVars, basis, evidence, crashes>>

(* Session, canon, guidance, and then the response itself.  An unreadable  *)
(* response raises: the handler ends and decides nothing.                  *)
Check(w) ==
    LET k == web[w].k IN
    /\ At(w, "check")
    /\ \/ /\ ~StillFrozen(k)
          /\ Goto(w, "block") /\ UNCHANGED lock
       \/ /\ StillFrozen(k) /\ k \notin evidence
          /\ Leave(w)
       \/ /\ StillFrozen(k) /\ k \in evidence /\ k[3] \notin AuthoredOutput
          /\ Goto(w, "block") /\ UNCHANGED lock
       \/ /\ StillFrozen(k) /\ k \in evidence /\ k[3] \in AuthoredOutput
          /\ Goto(w, "append") /\ UNCHANGED lock
    /\ UNCHANGED <<storeVars, sessionVars, basis, evidence, crashes>>

(* Mutant: the append compares the candidate but not the revision.         *)
CanAppendAnyRevision(k) == Found(k) /\ Inserted(k) = {}

(* append_candidate_if_revision, under the session lock.  The message id   *)
(* was made up by this handler, so no other insertion has it.              *)
CanAppend(k) == Found(k) /\ Inserted(k) = {} /\ Unchanged(k)

AppendTurn(w, m) ==
    LET k == web[w].k  s == Frozen(k).session IN
    /\ At(w, "append")
    /\ CanAppend(k)
    /\ \A old \in authored : old[2] # m
    /\ turns' = [turns EXCEPT ![s] = @ \cup {<<k, m>>}]
    /\ revision' = [revision EXCEPT ![s] = @ + 1]
    /\ authored' = authored \cup {<<k, m>>}
    /\ web' = [web EXCEPT ![w].pc = "bind", ![w].m = m]
    /\ UNCHANGED <<storeVars, place, basis, evidence, lock, crashes>>

(* ALREADY_COMMITTED, or CONFLICT and NOT_FOUND.                           *)
AppendNothing(w) ==
    LET k == web[w].k IN
    /\ At(w, "append")
    /\ \/ /\ Found(k)
          /\ \E m \in Inserted(k) : web' = [web EXCEPT ![w].pc = "bind", ![w].m = m]
       \/ /\ ~Found(k) \/ (Inserted(k) = {} /\ ~Unchanged(k))
          /\ Goto(w, "block")
    /\ UNCHANGED <<storeVars, sessionVars, basis, evidence, lock, crashes>>

(* GenerationStore.accept_candidate: binds, finds the same binding, or     *)
(* raises because of another one.                                          *)
Bind(w) ==
    LET k == web[w].k IN
    /\ At(w, "bind")
    /\ \/ AcceptCandidate(k, web[w].m)
       \/ /\ messageOf[k] # Null \/ logical[RequestOf(k)].accepted \notin {Null, k}
          /\ UNCHANGED storeVars
    /\ Leave(w)
    /\ UNCHANGED <<sessionVars, basis, evidence, crashes>>

(* GenerationStore.block_candidate, which raises after an acceptance.      *)
Block(w) ==
    LET k == web[w].k IN
    /\ At(w, "block")
    /\ \/ BlockCandidate(k)
       \/ logical[RequestOf(k)].accepted # Null /\ UNCHANGED storeVars
    /\ Leave(w)
    /\ UNCHANGED <<sessionVars, basis, evidence, crashes>>

(* The kernel releases the flock of a dead process.                        *)
WebCrash(w) ==
    /\ ~Idle(w)
    /\ crashes < MaxCrashes
    /\ crashes' = crashes + 1
    /\ Leave(w)
    /\ UNCHANGED <<storeVars, sessionVars, basis, evidence>>

AcceptStep(w) ==
    \/ TakeLock(w) \/ LookUp(w) \/ Check(w)
    \/ AppendNothing(w) \/ \E m \in Messages : AppendTurn(w, m)
    \/ Bind(w) \/ Block(w)

WebStep(w) ==
    \/ \E p \in Projects : EnableDispatch(w, p) \/ \E b \in Bases : ChangeBasis(w, p, b)
    \/ \E s \in Sessions :
          \/ \E r \in Requests : Submit(w, r, s)
          \/ EditSession(w, s) \/ DeleteSession(w, s)
          \/ \E p \in Projects : MoveSession(w, s, p)
    \/ \E k \in CandidateIds : Poll(w, k)
    \/ AcceptStep(w)
    \/ WebCrash(w)

AcceptanceNext ==
    \/ \E w \in Web : WebStep(w)
    \/ \E r \in Requests : CustodyStep(r)
    \/ \E k \in CandidateIds : Purge(k)

AcceptanceSpec == AcceptanceInit /\ [][AcceptanceNext]_acceptVars

(* A handler runs to its end, and the browser keeps asking for a request   *)
(* that is still open; a queued call is served before the same browser's   *)
(* next one, which is why asking is strongly fair.                         *)
FairAcceptance ==
    /\ AcceptanceSpec
    /\ \A w \in Web : WF_acceptVars(AcceptStep(w))
    /\ \A w \in Web, k \in CandidateIds : SF_acceptVars(Poll(w, k))
-----------------------------------------------------------------------------
(* One answer, one turn: over crashes between the session file and the     *)
(* database, several processes, moves and replays, nothing is committed to *)
(* a conversation twice.                                                   *)
AuthoredOnce ==
    /\ AcceptanceTypeOK
    /\ \A t, u \in authored : t[1] = u[1] => t = u

(* One revision, one turn: of all requests frozen against the same state   *)
(* of a conversation at most one becomes a turn of it.                     *)
OneTurnPerRevision ==
    \A t, u \in authored :
        /\ Frozen(t[1]).session = Frozen(u[1]).session
        /\ Frozen(t[1]).revision = Frozen(u[1]).revision
        => t = u

(* The two databases of two processes agree on what was authored: of the   *)
(* requests frozen against one state of a conversation one becomes a turn, *)
(* and no acceptance is claimed that no session file received.             *)
AcceptedWasAuthored ==
    /\ OneTurnPerRevision
    /\ \A k \in CandidateIds : messageOf[k] # Null => <<k, messageOf[k]>> \in authored

(* A turn is committed only against the revision, canon and guidance that  *)
(* were frozen, whatever changes while the handler holds the lock.         *)
AuthoredAgainstFrozen ==
    [][\A t \in authored' \ authored :
          StillFrozen(t[1]) /\ t[1][3] \in AuthoredOutput]_acceptVars

(* A turn that stands in the conversation is never reported as blocked by  *)
(* the look that finds it there.                                           *)
NoTurnBlocked ==
    [][\A k \in candidates :
          logical[RequestOf(k)].status # "blocked" /\ logical'[RequestOf(k)].status = "blocked"
          => ~(Found(k) /\ Inserted(k) # {})]_acceptVars

(* Does not hold: after a crash between insertion and binding, and a move. *)
(* "A crash after insertion establishes historical acceptance": a turn     *)
(* that stands in a conversation, wherever it is, is not reported blocked. *)
StandingTurnNotBlocked ==
    \A s \in Sessions : \A t \in turns[s] : logical[RequestOf(t[1])].status # "blocked"

Outcome(k) ==
    IF \E t \in authored : t[1] = k THEN "authored"
    ELSE IF k \in candidates /\ logical[RequestOf(k)].status = "blocked" THEN "refused" ELSE "open"

Turn == INSTANCE AuthoredTurn WITH
    Answers <- CandidateIds,
    outcome <- [k \in CandidateIds |-> Outcome(k)],
    current <- {k \in candidates : StillFrozen(k)}
TurnSpec == Turn!Spec

(* An answer does not stay in custody for ever: it is decided, unless the  *)
(* response is purged before anyone looked.                                *)
CandidateDecided ==
    \A k \in CandidateIds :
        k \in candidates ~>
            \/ logical[RequestOf(k)].status \in {"accepted", "blocked"}
            \/ k \notin evidence
=============================================================================
