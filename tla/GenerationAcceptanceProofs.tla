---------------------- MODULE GenerationAcceptanceProofs ----------------------
(***************************************************************************)
(* Proofs about GenerationAcceptance, for any projects, conversations,     *)
(* candidates and web processes, however their steps interleave and        *)
(* whenever a process dies.  What the store promises is not proved again:  *)
(* every step of an acceptance is a step of the store or leaves it alone.  *)
(***************************************************************************)
EXTENDS GenerationAcceptance, GenerationStoreProofs

USE GenerationStoreAssumption, GenerationAcceptanceAssumption

(* What was frozen left room for one more revision.                        *)
FrozenInv == \A r \in Requests : Created(r) =>
    logical[r].content \in FrozenWork /\ logical[r].content.revision < MaxRevision

(* What a conversation holds was committed to it.                          *)
TurnsAuthored == \A s \in Sessions : turns[s] \subseteq authored

(* A turn moved its conversation on from the revision it was frozen at.    *)
AuthoredInv == \A t \in authored :
    /\ t[1] \in candidates
    /\ Frozen(t[1]).revision < revision[Frozen(t[1]).session]

BoundWasAuthored ==
    \A k \in CandidateIds : messageOf[k] # Null => <<k, messageOf[k]>> \in authored

(* A handler past the lock holds the lock of the candidate's project, what *)
(* it checked under the lock stays so, and what it binds was committed.    *)
WebInv(w) ==
    /\ Idle(w) <=> web[w].pc = "idle"
    /\ ~Idle(w) => web[w].k \in candidates
    /\ web[w].pc \notin {"idle", "lock"} => lock[HomeOf(web[w].k)] = w
    /\ web[w].pc = "append" => /\ basis[HomeOf(web[w].k)] = Frozen(web[w].k).basis
                               /\ web[w].k[3] \in AuthoredOutput
    /\ web[w].pc = "bind" => <<web[w].k, web[w].m>> \in authored

AcceptanceInv ==
    /\ StoreInv
    /\ AcceptanceTypeOK
    /\ FrozenInv
    /\ TurnsAuthored
    /\ AuthoredInv
    /\ OneTurnPerRevision
    /\ BoundWasAuthored
    /\ \A w \in Web : WebInv(w)

(* With one web process nothing comes between the steps of an acceptance:  *)
(* its candidate stays undecided, and a look that found no turn of it in   *)
(* the conversation is still right when it is blocked.                     *)
AloneInv(w) ==
    /\ ~Idle(w) => logical[RequestOf(web[w].k)].status = "candidate"
    /\ web[w].pc \in {"check", "append", "block"} =>
          ~Found(web[w].k) \/ Inserted(web[w].k) = {}

-----------------------------------------------------------------------------
LEMMA OnePosition == 1 \in Positions /\ 0 \in 0 .. MaxFallbacks
    BY DEF Positions

LEMMA AcceptanceInitInv == AcceptanceInit => AcceptanceInv
<1> SUFFICES ASSUME AcceptanceInit PROVE AcceptanceInv
    OBVIOUS
<1>1. StoreInv
    BY InitInv DEF AcceptanceInit
<1> USE DEF AcceptanceInit
<1>2. /\ place \in [Sessions -> Projects \cup {Null}]
      /\ revision \in [Sessions -> 0 .. MaxRevision]
      /\ turns \in [Sessions -> SUBSET (CandidateIds \X Messages)]
      /\ lock \in [Projects -> Web \cup {Null}]
      /\ web \in [Web -> [pc : Steps, k : CandidateIds \cup {Null}, m : Messages \cup {Null}]]
      /\ crashes \in 0 .. MaxCrashes
    BY DEF Resting, Steps
<1>3. AcceptanceTypeOK
    BY <1>1, <1>2 DEF StoreInv, AcceptanceTypeOK
<1>4. FrozenInv
    BY DEF Init, FrozenInv, Created, AbsentRow
<1>5. TurnsAuthored /\ AuthoredInv /\ OneTurnPerRevision
    BY DEF TurnsAuthored, AuthoredInv, OneTurnPerRevision
<1>6. BoundWasAuthored
    BY DEF Init, BoundWasAuthored
<1>7. \A w \in Web : WebInv(w)
    BY DEF WebInv, Idle, Resting
<1> QED
    BY <1>1, <1>3, <1>4, <1>5, <1>6, <1>7 DEF AcceptanceInv

(* A candidate is of a request that was made, so its work is frozen.       *)
LEMMA CandidateFrozen ==
    ASSUME StoreInv, FrozenInv, NEW k \in candidates
    PROVE  /\ k \in CandidateIds /\ RequestOf(k) \in Requests /\ HomeOf(k) \in Projects
           /\ Created(RequestOf(k))
           /\ Frozen(k) \in FrozenWork /\ Frozen(k).revision < MaxRevision
           /\ Frozen(k).session \in Sessions /\ Frozen(k).revision \in Nat
<1>1. k \in CandidateIds /\ RequestOf(k) \in Requests /\ PositionOf(k) \in Positions
    BY CandidateIdType DEF StoreInv, TypeOK
<1>2. HomeOf(k) \in Projects
    BY <1>1 DEF HomeOf, ProjectOf, Requests
<1>3. dispatches[RequestOf(k)] # <<>>
    BY <1>1, NoDispatchNoCandidate
<1>4. Created(RequestOf(k))
    BY <1>1, <1>3 DEF StoreInv, LogicalFollowsDispatch, StatusAgrees, Created
<1>5. Frozen(k) \in FrozenWork /\ Frozen(k).revision < MaxRevision
    BY <1>1, <1>4 DEF FrozenInv, Frozen
<1> QED
    BY <1>1, <1>2, <1>4, <1>5 DEF FrozenWork

-----------------------------------------------------------------------------
(* What the steps of the store that occur here leave of every request: its *)
(* frozen work, and that it exists.                                        *)
RowsKept ==
    \A r \in Requests :
        logical'[r].content = logical[r].content /\ (Created(r)' <=> Created(r))

LEMMA StatusOnly ==
    ASSUME TypeOK, NEW r \in Requests, NEW st \in LogicalStatus, Created(r),
           logical' = [logical EXCEPT ![r].status = st]
    PROVE  RowsKept
<1>1. st # "absent"
    BY DEF LogicalStatus
<1>2. \A q \in Requests : logical[q] \in LogicalRow
    BY DEF TypeOK
<1>3. logical'[r].content = logical[r].content /\ logical'[r].status = st
    BY <1>2 DEF TypeOK, LogicalRow
<1>4. \A q \in Requests : q # r => logical'[q] = logical[q]
    BY DEF TypeOK
<1> QED
    BY <1>1, <1>3, <1>4 DEF RowsKept, Created

LEMMA CustodyRows ==
    ASSUME StoreInv, NEW r \in Requests,
           \/ ReserveDispatch(r) \/ MarkExecuting(r, 1)
           \/ \E x \in Responses : RecordCandidate(r, 1, x)
    PROVE  RowsKept
<1>1. TypeOK /\ StatusAgrees(r)
    BY DEF StoreInv, LogicalFollowsDispatch
<1>2. CASE ReserveDispatch(r)
  <2>1. Created(r) /\ logical' = [logical EXCEPT ![r].status = "dispatching"]
    BY <1>2 DEF ReserveDispatch, Reserve, Created
  <2> QED
    BY <1>1, <2>1, StatusOnly DEF LogicalStatus
<1>3. CASE MarkExecuting(r, 1) \/ \E x \in Responses : RecordCandidate(r, 1, x)
  <2>1. dispatches[r] # <<>>
    <3>1. 1 \in DOMAIN dispatches[r]
      BY <1>3 DEF MarkExecuting, DispatchTransition, RecordCandidate, RecordAllowed
    <3> QED
      BY <3>1
  <2>2. Created(r)
    BY <1>1, <2>1 DEF StatusAgrees, Created
  <2>3. \/ logical' = [logical EXCEPT ![r].status = "dispatching"]
        \/ logical' = [logical EXCEPT ![r].status = "candidate"]
    BY <1>3 DEF MarkExecuting, DispatchTransition, RecordCandidate
  <2> QED
    BY <1>1, <2>2, <2>3, StatusOnly DEF LogicalStatus
<1> QED
    BY <1>2, <1>3

LEMMA DecisionRows ==
    ASSUME StoreInv, FrozenInv, NEW k \in candidates,
           BlockCandidate(k) \/ \E m \in Messages : AcceptCandidate(k, m)
    PROVE  RowsKept
<1> DEFINE r == RequestOf(k)
<1>1. TypeOK /\ r \in Requests /\ Created(r)
    BY CandidateFrozen DEF StoreInv
<1> HIDE DEF r
<1>2. CASE BlockCandidate(k)
  <2>1. logical' = [logical EXCEPT ![r].status = "blocked"]
    BY <1>2 DEF BlockCandidate, r
  <2> QED
    BY <1>1, <2>1, StatusOnly DEF LogicalStatus
<1>3. CASE \E m \in Messages : AcceptCandidate(k, m)
  <2>1. logical' = [logical EXCEPT ![r].status = "accepted", ![r].accepted = k]
    BY <1>3 DEF AcceptCandidate, r
  <2>2. logical[r] \in LogicalRow
    BY <1>1 DEF TypeOK
  <2>3. logical'[r] = [logical[r] EXCEPT !.status = "accepted", !.accepted = k]
    BY <1>1, <2>1 DEF TypeOK
  <2>4. logical'[r].content = logical[r].content /\ logical'[r].status = "accepted"
    BY <2>2, <2>3 DEF LogicalRow
  <2>5. \A q \in Requests : q # r => logical'[q] = logical[q]
    BY <1>1, <2>1 DEF TypeOK
  <2> QED
    BY <1>1, <2>4, <2>5 DEF RowsKept, Created
<1> QED
    BY <1>2, <1>3

(* What every step here leaves of the candidates and of the frozen work.   *)
StoreKept ==
    /\ StoreInv' /\ FrozenInv'
    /\ candidates \subseteq candidates'
    /\ \A k \in candidates : logical'[RequestOf(k)].content = logical[RequestOf(k)].content

LEMMA RowsKeptStore ==
    ASSUME StoreInv, FrozenInv, Next, RowsKept
    PROVE  StoreKept
<1>1. StoreInv'
    BY NextInv
<1>2. candidates \subseteq candidates'
    BY <1>1, StepKeepsCustody
<1>3. FrozenInv'
    BY DEF FrozenInv, RowsKept
<1>4. \A k \in candidates : RequestOf(k) \in Requests
    BY CandidateFrozen
<1> QED
    BY <1>1, <1>2, <1>3, <1>4 DEF StoreKept, RowsKept

LEMMA SameStore ==
    ASSUME StoreInv, FrozenInv, UNCHANGED storeVars
    PROVE  StoreKept
<1>1. StoreInv'
    BY NextInv
<1>2. FrozenInv' /\ candidates' = candidates /\ logical' = logical
    BY DEF storeVars, FrozenInv, Created
<1> QED
    BY <1>1, <1>2 DEF StoreKept

LEMMA CustodyKeepsStore ==
    ASSUME StoreInv, FrozenInv, NEW r \in Requests,
           \/ ReserveDispatch(r) \/ MarkExecuting(r, 1)
           \/ \E x \in Responses : RecordCandidate(r, 1, x)
    PROVE  Next /\ StoreKept
<1>1. Next
    BY OnePosition DEF Next, DispatchStep
<1> QED
    BY <1>1, CustodyRows, RowsKeptStore

LEMMA DecisionKeepsStore ==
    ASSUME StoreInv, FrozenInv, NEW k \in candidates,
           BlockCandidate(k) \/ \E m \in Messages : AcceptCandidate(k, m)
    PROVE  Next /\ StoreKept
<1>1. Next
    BY CandidateFrozen DEF Next
<1> QED
    BY <1>1, DecisionRows, RowsKeptStore

LEMMA SwitchKeepsStore ==
    ASSUME StoreInv, FrozenInv, NEW p \in Projects, SetDispatchEnabled(p, TRUE)
    PROVE  Next /\ StoreKept
<1>1. Next
    BY DEF Next
<1>2. RowsKept
    BY DEF SetDispatchEnabled, RowsKept, Created
<1> QED
    BY <1>1, <1>2, RowsKeptStore

LEMMA SubmitKeepsStore ==
    ASSUME StoreInv, FrozenInv, NEW r \in Requests, NEW c \in FrozenWork,
           c.revision < MaxRevision, CreateRequest(r, c, 0)
    PROVE  Next /\ StoreKept
<1>1. Next
    BY OnePosition DEF Next
<1>2. StoreInv'
    BY <1>1, NextInv
<1>3. /\ \A q \in Requests : q # r => logical'[q] = logical[q]
      /\ logical'[r].content = c
      /\ candidates' = candidates
    BY DEF CreateRequest, StoreInv, TypeOK
<1>4. FrozenInv'
    BY <1>3 DEF FrozenInv, Created
<1>5. \A k \in candidates : RequestOf(k) \in Requests /\ RequestOf(k) # r
    BY CandidateFrozen DEF CreateRequest
<1> QED
    BY <1>1, <1>2, <1>3, <1>4, <1>5 DEF StoreKept

-----------------------------------------------------------------------------
(* The invariant, apart from the store and the types: what relates the     *)
(* conversations, the handlers and the locks to the candidates.            *)
TurnsInv == TurnsAuthored /\ AuthoredInv /\ OneTurnPerRevision

(* Steps that commit nothing keep it: conversations only move on.          *)
LEMMA NothingCommitted ==
    ASSUME AcceptanceInv, StoreKept, authored' = authored,
           \A s \in Sessions : /\ turns'[s] \subseteq turns[s]
                               /\ revision[s] <= revision'[s] /\ revision'[s] \in Nat
    PROVE  TurnsInv'
<1>1. \A t \in authored : /\ t[1] \in candidates /\ t[1] \in candidates'
                          /\ Frozen(t[1])' = Frozen(t[1])
                          /\ Frozen(t[1]).session \in Sessions /\ Frozen(t[1]).revision \in Nat
  <2>1. StoreInv /\ FrozenInv /\ \A t \in authored : t[1] \in candidates
    BY DEF AcceptanceInv, AuthoredInv
  <2>2. \A k \in candidates : k \in candidates' /\ Frozen(k)' = Frozen(k)
    BY DEF StoreKept, Frozen
  <2> QED
    BY <2>1, <2>2, CandidateFrozen
<1>2. TurnsAuthored'
    BY DEF AcceptanceInv, TurnsAuthored
<1>3. \A s \in Sessions : revision[s] \in Nat
    BY DEF AcceptanceInv, AcceptanceTypeOK
<1>4. AuthoredInv'
  <2> SUFFICES ASSUME NEW t \in authored
               PROVE  /\ t[1] \in candidates'
                      /\ Frozen(t[1])'.revision < revision'[Frozen(t[1])'.session]
    BY DEF AuthoredInv
  <2>1. Frozen(t[1]).revision < revision[Frozen(t[1]).session]
    BY DEF AcceptanceInv, AuthoredInv
  <2> QED
    BY <1>1, <1>3, <2>1
<1>5. OneTurnPerRevision'
    BY <1>1 DEF AcceptanceInv, OneTurnPerRevision
<1> QED
    BY <1>2, <1>4, <1>5 DEF TurnsInv

LEMMA SessionsUntouched ==
    ASSUME AcceptanceInv, StoreKept, UNCHANGED sessionVars
    PROVE  TurnsInv'
<1>1. authored' = authored /\ turns' = turns /\ revision' = revision
    BY DEF sessionVars
<1>2. \A s \in Sessions : revision[s] \in Nat
    BY DEF AcceptanceInv, AcceptanceTypeOK
<1>3. \A s \in Sessions : /\ turns'[s] \subseteq turns[s]
                          /\ revision[s] <= revision'[s] /\ revision'[s] \in Nat
    BY <1>1, <1>2
<1> QED
    BY <1>1, <1>3, NothingCommitted

LEMMA BoundKept ==
    ASSUME AcceptanceInv, messageOf' = messageOf, authored \subseteq authored'
    PROVE  BoundWasAuthored'
    BY DEF AcceptanceInv, BoundWasAuthored

(* A handler that makes no step, and whose lock nobody takes.              *)
LEMMA OtherHandler ==
    ASSUME AcceptanceInv, StoreKept, NEW u \in Web, web'[u] = web[u],
           \A p \in Projects : lock[p] = u => lock'[p] = u /\ basis'[p] = basis[p],
           authored \subseteq authored'
    PROVE  WebInv(u)'
<1>1. WebInv(u) /\ StoreInv /\ FrozenInv
    BY DEF AcceptanceInv
<1>2. CASE Idle(u)
    BY <1>1, <1>2 DEF WebInv, Idle, Resting
<1>3. CASE ~Idle(u)
  <2>1. web[u].k \in candidates /\ web[u].pc # "idle"
    BY <1>1, <1>3 DEF WebInv
  <2>2. HomeOf(web[u].k) \in Projects
    BY <1>1, <2>1, CandidateFrozen
  <2>3. web[u].k \in candidates' /\ Frozen(web[u].k)' = Frozen(web[u].k)
    BY <2>1 DEF StoreKept, Frozen
  <2>4. ~Idle(u)'
    BY <1>3 DEF Idle, Resting
  <2> QED
    BY <1>1, <2>1, <2>2, <2>3, <2>4 DEF WebInv, Frozen
<1> QED
    BY <1>2, <1>3

(* A handler that ends gives back what it locked, and nothing else.        *)
LEMMA LeaveKeeps ==
    ASSUME AcceptanceInv, StoreKept, NEW w \in Web, Leave(w), basis' = basis,
           authored' = authored
    PROVE  /\ lock' \in [Projects -> Web \cup {Null}]
           /\ web' \in [Web -> [pc : Steps, k : CandidateIds \cup {Null},
                                m : Messages \cup {Null}]]
           /\ \A u \in Web : WebInv(u)'
<1>1. /\ lock \in [Projects -> Web \cup {Null}]
      /\ web \in [Web -> [pc : Steps, k : CandidateIds \cup {Null}, m : Messages \cup {Null}]]
    BY DEF AcceptanceInv, AcceptanceTypeOK
<1>2. /\ lock' = [p \in Projects |-> IF lock[p] = w THEN Null ELSE lock[p]]
      /\ web' = [web EXCEPT ![w] = Resting]
    BY DEF Leave, Unlock
<1>3. Resting \in [pc : Steps, k : CandidateIds \cup {Null}, m : Messages \cup {Null}]
    BY DEF Resting, Steps
<1>4. ASSUME NEW u \in Web PROVE WebInv(u)'
  <2>1. CASE u = w
    <3>1. web'[u] = Resting
      BY <1>1, <1>2, <2>1
    <3> QED
      BY <3>1 DEF WebInv, Idle, Resting
  <2>2. CASE u # w
    BY <1>1, <1>2, <2>2, OtherHandler
  <2> QED
    BY <2>1, <2>2
<1> QED
    BY <1>1, <1>2, <1>3, <1>4

(* A handler that goes on under its lock.                                  *)
LEMMA GotoKeeps ==
    ASSUME AcceptanceInv, StoreKept, NEW w \in Web, NEW pc \in Steps, pc \notin {"idle", "lock"},
           NEW m \in Messages \cup {Null},
           web[w].pc \notin {"idle", "lock"},
           web' = [web EXCEPT ![w] = [pc |-> pc, k |-> web[w].k, m |-> m]],
           basis' = basis, lock' = lock, authored \subseteq authored',
           pc = "append" => /\ basis[HomeOf(web[w].k)] = Frozen(web[w].k).basis
                            /\ web[w].k[3] \in AuthoredOutput,
           pc = "bind" => <<web[w].k, m>> \in authored'
    PROVE  /\ web' \in [Web -> [pc : Steps, k : CandidateIds \cup {Null},
                                m : Messages \cup {Null}]]
           /\ \A u \in Web : WebInv(u)'
<1>1. /\ web \in [Web -> [pc : Steps, k : CandidateIds \cup {Null}, m : Messages \cup {Null}]]
      /\ WebInv(w) /\ StoreInv /\ FrozenInv /\ candidates \subseteq CandidateIds
    BY DEF AcceptanceInv, AcceptanceTypeOK, StoreInv, TypeOK
<1>2. web[w].k \in candidates
    BY <1>1 DEF WebInv
<1>3. HomeOf(web[w].k) \in Projects /\ lock[HomeOf(web[w].k)] = w
    BY <1>1, <1>2, CandidateFrozen DEF WebInv
<1>4. web[w].k \in candidates' /\ Frozen(web[w].k)' = Frozen(web[w].k)
    BY <1>2 DEF StoreKept, Frozen
<1>5. web'[w].pc = pc /\ web'[w].k = web[w].k /\ web'[w].m = m
    BY <1>1
<1>6. WebInv(w)'
  <2>1. ~Idle(w)'
    BY <1>5 DEF Idle, Resting
  <2> QED
    BY <1>3, <1>4, <1>5, <2>1 DEF WebInv, Frozen
<1>7. ASSUME NEW u \in Web PROVE WebInv(u)'
  <2>1. CASE u = w
    BY <1>6, <2>1
  <2>2. CASE u # w
    BY <1>1, <2>2, OtherHandler
  <2> QED
    BY <2>1, <2>2
<1> QED
    BY <1>1, <1>2, <1>7

(* Two fields of a handler's record changed together.                      *)
LEMMA TwoFields ==
    ASSUME NEW q \in [pc : Steps, k : CandidateIds \cup {Null}, m : Messages \cup {Null}],
           NEW x \in Steps, NEW y \in Messages
    PROVE  [q EXCEPT !.pc = x, !.m = y] = [pc |-> x, k |-> q.k, m |-> y]
<1> DEFINE r == [q EXCEPT !.pc = x, !.m = y]
<1>1. r \in [pc : Steps, k : CandidateIds \cup {Null}, m : Messages \cup {Null}]
    OBVIOUS
<1>2. r.pc = x /\ r.k = q.k /\ r.m = y
    OBVIOUS
<1> HIDE DEF r
<1>3. r = [pc |-> r.pc, k |-> r.k, m |-> r.m]
    BY <1>1
<1>4. r = [pc |-> x, k |-> q.k, m |-> y]
    BY <1>2, <1>3
<1> QED
    BY <1>4 DEF r

(* The two ways the model writes that a handler goes on.                   *)
LEMMA GotoIs ==
    ASSUME AcceptanceTypeOK, NEW w \in Web, NEW pc \in Steps
    PROVE  /\ web[w].k \in CandidateIds \cup {Null} /\ web[w].m \in Messages \cup {Null}
           /\ Goto(w, pc) =>
                 web' = [web EXCEPT ![w] = [pc |-> pc, k |-> web[w].k, m |-> web[w].m]]
           /\ \A m \in Messages : web' = [web EXCEPT ![w].pc = pc, ![w].m = m] =>
                 web' = [web EXCEPT ![w] = [pc |-> pc, k |-> web[w].k, m |-> m]]
<1>1. /\ web \in [Web -> [pc : Steps, k : CandidateIds \cup {Null}, m : Messages \cup {Null}]]
    BY DEF AcceptanceTypeOK
<1>2. web[w] = [pc |-> web[w].pc, k |-> web[w].k, m |-> web[w].m]
    BY <1>1
<1>3. Goto(w, pc) => web' = [web EXCEPT ![w] = [pc |-> pc, k |-> web[w].k, m |-> web[w].m]]
    BY <1>1, <1>2 DEF Goto
<1>4. ASSUME NEW m \in Messages, web' = [web EXCEPT ![w].pc = pc, ![w].m = m]
      PROVE  web' = [web EXCEPT ![w] = [pc |-> pc, k |-> web[w].k, m |-> m]]
  <2>1. web' = [web EXCEPT ![w] = [web[w] EXCEPT !.pc = pc, !.m = m]]
    BY <1>1, <1>4
  <2>2. [web[w] EXCEPT !.pc = pc, !.m = m] = [pc |-> pc, k |-> web[w].k, m |-> m]
    BY <1>1, TwoFields
  <2> QED
    BY <2>1, <2>2
<1> QED
    BY <1>1, <1>3, <1>4

(* A step's effect on the parts of the invariant, put together.            *)
LEMMA Together ==
    ASSUME AcceptanceInv, StoreKept, TurnsInv', BoundWasAuthored',
           place' \in [Sessions -> Projects \cup {Null}],
           revision' \in [Sessions -> 0 .. MaxRevision],
           turns' \in [Sessions -> SUBSET (CandidateIds \X Messages)],
           authored' \subseteq CandidateIds \X Messages,
           basis' \in [Projects -> Bases],
           evidence' \subseteq candidates',
           lock' \in [Projects -> Web \cup {Null}],
           web' \in [Web -> [pc : Steps, k : CandidateIds \cup {Null}, m : Messages \cup {Null}]],
           crashes' \in 0 .. MaxCrashes,
           \A w \in Web : WebInv(w)'
    PROVE  AcceptanceInv'
<1>1. StoreInv' /\ FrozenInv' /\ TypeOK'
    BY DEF StoreKept, StoreInv
<1>2. AcceptanceTypeOK'
    BY <1>1 DEF AcceptanceTypeOK
<1> QED
    BY <1>1, <1>2 DEF AcceptanceInv, TurnsInv

(* What does not change keeps its type.                                    *)
LEMMA Typed ==
    ASSUME AcceptanceInv
    PROVE  /\ place \in [Sessions -> Projects \cup {Null}]
           /\ revision \in [Sessions -> 0 .. MaxRevision]
           /\ turns \in [Sessions -> SUBSET (CandidateIds \X Messages)]
           /\ authored \subseteq CandidateIds \X Messages
           /\ basis \in [Projects -> Bases]
           /\ evidence \subseteq candidates
           /\ lock \in [Projects -> Web \cup {Null}]
           /\ web \in [Web -> [pc : Steps, k : CandidateIds \cup {Null},
                               m : Messages \cup {Null}]]
           /\ crashes \in 0 .. MaxCrashes
           /\ AcceptanceTypeOK /\ StoreInv /\ FrozenInv /\ TypeOK
           /\ candidates \subseteq CandidateIds
    BY DEF AcceptanceInv, AcceptanceTypeOK, TypeOK

-----------------------------------------------------------------------------
(* Steps that touch the store alone.                                       *)
LEMMA StoreStepInv ==
    ASSUME AcceptanceInv, StoreKept, messageOf' = messageOf, evidence' \subseteq candidates',
           UNCHANGED <<sessionVars, basis, lock, web, crashes>>
    PROVE  AcceptanceInv'
<1> USE DEF sessionVars
<1>1. TurnsInv'
    BY SessionsUntouched
<1>2. BoundWasAuthored'
    BY BoundKept
<1>3. \A u \in Web : WebInv(u)'
    BY OtherHandler
<1> QED
    BY <1>1, <1>2, <1>3, Typed, Together

LEMMA SubmitInv ==
    ASSUME AcceptanceInv, NEW w \in Web, NEW r \in Requests, NEW s \in Sessions, Submit(w, r, s)
    PROVE  Next /\ AcceptanceInv'
<1> DEFINE c == [session |-> s, revision |-> revision[s], basis |-> basis[ProjectOf(r)]]
<1>1. /\ CreateRequest(r, c, 0) /\ revision[s] < MaxRevision
      /\ UNCHANGED <<sessionVars, basis, evidence, lock, web, crashes>>
    BY DEF Submit
<1>2. c \in FrozenWork /\ c.revision < MaxRevision
    BY <1>1, Typed DEF FrozenWork, ProjectOf, Requests
<1> HIDE DEF c
<1>3. Next /\ StoreKept
    BY <1>1, <1>2, SubmitKeepsStore, Typed
<1>4. messageOf' = messageOf /\ evidence' \subseteq candidates'
    BY <1>1, <1>3, Typed DEF CreateRequest, StoreKept
<1> QED
    BY <1>1, <1>3, <1>4, StoreStepInv

LEMMA EnableDispatchInv ==
    ASSUME AcceptanceInv, NEW w \in Web, NEW p \in Projects, EnableDispatch(w, p)
    PROVE  Next /\ AcceptanceInv'
<1>1. /\ SetDispatchEnabled(p, TRUE)
      /\ UNCHANGED <<sessionVars, basis, evidence, lock, web, crashes>>
    BY DEF EnableDispatch
<1>2. Next /\ StoreKept
    BY <1>1, SwitchKeepsStore, Typed
<1>3. messageOf' = messageOf /\ evidence' \subseteq candidates'
    BY <1>1, Typed DEF SetDispatchEnabled
<1> QED
    BY <1>1, <1>2, <1>3, StoreStepInv

LEMMA CustodyStepInv ==
    ASSUME AcceptanceInv, NEW r \in Requests, CustodyStep(r)
    PROVE  Next /\ AcceptanceInv'
<1>1. UNCHANGED <<sessionVars, basis, lock, web, crashes>>
    BY DEF CustodyStep
<1>2. \/ ReserveDispatch(r) /\ UNCHANGED evidence
      \/ MarkExecuting(r, 1) /\ UNCHANGED evidence
      \/ \E x \in Responses : RecordCandidate(r, 1, x) /\ evidence' = evidence \cup {<<r, 1, x>>}
    BY DEF CustodyStep, Answered
<1>3. Next /\ StoreKept
    BY <1>2, CustodyKeepsStore, Typed
<1>4. messageOf' = messageOf
    BY <1>2 DEF ReserveDispatch, Reserve, MarkExecuting, DispatchTransition, RecordCandidate
<1>5. evidence' \subseteq candidates'
    BY <1>2, <1>3, Typed DEF StoreKept, RecordCandidate
<1> QED
    BY <1>1, <1>3, <1>4, <1>5, StoreStepInv

(* Steps that leave the store alone.                                       *)
LEMMA PurgeInv ==
    ASSUME AcceptanceInv, NEW k \in CandidateIds, Purge(k)
    PROVE  UNCHANGED storeVars /\ AcceptanceInv'
<1>1. UNCHANGED <<storeVars, sessionVars, basis, lock, web, crashes>> /\ evidence' \subseteq evidence
    BY DEF Purge
<1>2. StoreKept
    BY <1>1, SameStore, Typed
<1>3. messageOf' = messageOf /\ evidence' \subseteq candidates'
    BY <1>1, Typed DEF storeVars
<1> QED
    BY <1>1, <1>2, <1>3, StoreStepInv

LEMMA SessionStepInv ==
    ASSUME AcceptanceInv, UNCHANGED <<storeVars, authored, basis, evidence, lock, web, crashes>>,
           place' \in [Sessions -> Projects \cup {Null}],
           revision' \in [Sessions -> 0 .. MaxRevision],
           turns' \in [Sessions -> SUBSET (CandidateIds \X Messages)],
           \A s \in Sessions : turns'[s] \subseteq turns[s] /\ revision[s] <= revision'[s]
    PROVE  AcceptanceInv'
<1>1. StoreKept
    BY SameStore, Typed
<1>2. \A s \in Sessions : revision'[s] \in Nat
    OBVIOUS
<1>3. TurnsInv'
    BY <1>1, <1>2, NothingCommitted
<1>4. messageOf' = messageOf /\ candidates' = candidates
    BY DEF storeVars
<1>5. BoundWasAuthored'
    BY <1>4, BoundKept
<1>6. \A u \in Web : WebInv(u)'
    BY <1>1, OtherHandler
<1> QED
    BY <1>1, <1>3, <1>4, <1>5, <1>6, Typed, Together

LEMMA EditSessionInv ==
    ASSUME AcceptanceInv, NEW w \in Web, NEW s \in Sessions,
           \/ EditSession(w, s) \/ DeleteSession(w, s)
           \/ \E p \in Projects : MoveSession(w, s, p)
    PROVE  UNCHANGED storeVars /\ AcceptanceInv'
<1>1. /\ UNCHANGED <<storeVars, authored, basis, evidence, lock, web, crashes>>
      /\ \/ revision[s] < MaxRevision /\ revision' = [revision EXCEPT ![s] = @ + 1]
         \/ revision' = revision
      /\ turns' = turns \/ turns' = [turns EXCEPT ![s] = {}]
      /\ place' = place \/ \E p \in Projects \cup {Null} : place' = [place EXCEPT ![s] = p]
    BY DEF EditSession, DeleteSession, MoveSession
<1>2. revision' \in [Sessions -> 0 .. MaxRevision] /\ \A q \in Sessions : revision[q] <= revision'[q]
  <2>1. revision \in [Sessions -> 0 .. MaxRevision]
    BY Typed
  <2>2. CASE revision[s] < MaxRevision /\ revision' = [revision EXCEPT ![s] = @ + 1]
    BY <2>1, <2>2
  <2>3. CASE revision' = revision
    BY <2>1, <2>3
  <2> QED
    BY <1>1, <2>2, <2>3
<1>3. turns' \in [Sessions -> SUBSET (CandidateIds \X Messages)]
      /\ \A q \in Sessions : turns'[q] \subseteq turns[q]
    BY <1>1, Typed
<1>4. place' \in [Sessions -> Projects \cup {Null}]
    BY <1>1, Typed
<1> QED
    BY <1>1, <1>2, <1>3, <1>4, SessionStepInv

LEMMA ChangeBasisInv ==
    ASSUME AcceptanceInv, NEW w \in Web, NEW p \in Projects, NEW b \in Bases, ChangeBasis(w, p, b)
    PROVE  UNCHANGED storeVars /\ AcceptanceInv'
<1>1. /\ lock[p] = Null /\ basis' = [basis EXCEPT ![p] = b]
      /\ UNCHANGED <<storeVars, sessionVars, evidence, lock, web, crashes>>
    BY DEF ChangeBasis
<1>2. StoreKept
    BY <1>1, SameStore, Typed
<1>3. TurnsInv'
    BY <1>1, <1>2, SessionsUntouched
<1>4. messageOf' = messageOf /\ candidates' = candidates
      /\ authored' = authored /\ place' = place /\ revision' = revision /\ turns' = turns
    BY <1>1 DEF storeVars, sessionVars
<1>5. BoundWasAuthored'
    BY <1>4, BoundKept
<1>6. basis' \in [Projects -> Bases]
    BY <1>1, Typed
<1>7. ASSUME NEW u \in Web PROVE WebInv(u)'
  <2>1. \A q \in Projects : lock[q] = u => lock'[q] = u /\ basis'[q] = basis[q]
    BY <1>1, Typed
  <2> QED
    BY <1>1, <1>2, <1>4, <2>1, OtherHandler
<1> QED
    BY <1>1, <1>2, <1>3, <1>4, <1>5, <1>6, <1>7, Typed, Together

-----------------------------------------------------------------------------
(* The steps of a handler that decides nothing yet.                        *)
LEMMA UndecidedStep ==
    ASSUME AcceptanceInv, UNCHANGED <<storeVars, sessionVars, basis, evidence, crashes>>,
           lock' \in [Projects -> Web \cup {Null}],
           web' \in [Web -> [pc : Steps, k : CandidateIds \cup {Null}, m : Messages \cup {Null}]],
           \A w \in Web : WebInv(w)'
    PROVE  AcceptanceInv'
<1>1. StoreKept
    BY SameStore, Typed
<1>2. TurnsInv'
    BY <1>1, SessionsUntouched
<1>3. messageOf' = messageOf /\ candidates' = candidates /\ authored' = authored
      /\ place' = place /\ revision' = revision /\ turns' = turns
    BY DEF storeVars, sessionVars
<1>4. BoundWasAuthored'
    BY <1>3, BoundKept
<1> QED
    BY <1>1, <1>2, <1>3, <1>4, Typed, Together

(* A handler at work has a candidate, and holds the lock of its project.   *)
LEMMA AtWork ==
    ASSUME AcceptanceInv, NEW w \in Web, web[w].pc # "idle"
    PROVE  /\ web[w].k \in candidates /\ web[w].k \in CandidateIds
           /\ HomeOf(web[w].k) \in Projects /\ Frozen(web[w].k).session \in Sessions
           /\ web[w].pc # "lock" => lock[HomeOf(web[w].k)] = w
<1>1. WebInv(w) /\ StoreInv /\ FrozenInv
    BY DEF AcceptanceInv
<1>2. web[w].k \in candidates
    BY <1>1 DEF WebInv
<1> QED
    BY <1>1, <1>2, CandidateFrozen DEF WebInv

LEMMA PollInv ==
    ASSUME AcceptanceInv, NEW w \in Web, NEW k \in CandidateIds, Poll(w, k)
    PROVE  UNCHANGED storeVars /\ AcceptanceInv'
<1>1. /\ k \in candidates
      /\ web' = [web EXCEPT ![w] = [pc |-> "lock", k |-> k, m |-> Null]]
      /\ UNCHANGED <<storeVars, sessionVars, basis, evidence, lock, crashes>>
    BY DEF Poll
<1>2. web' \in [Web -> [pc : Steps, k : CandidateIds \cup {Null}, m : Messages \cup {Null}]]
    BY <1>1, Typed DEF Steps
<1>3. StoreKept /\ authored' = authored
    BY <1>1, SameStore, Typed DEF sessionVars
<1>4. ASSUME NEW u \in Web PROVE WebInv(u)'
  <2>1. CASE u = w
    <3>1. web'[u].pc = "lock" /\ web'[u].k = k /\ ~Idle(u)'
      BY <1>1, <2>1, Typed DEF Idle, Resting
    <3> QED
      BY <1>1, <1>3, <3>1 DEF WebInv, StoreKept
  <2>2. CASE u # w
    BY <1>1, <1>3, <2>2, Typed, OtherHandler
  <2> QED
    BY <2>1, <2>2
<1> QED
    BY <1>1, <1>2, <1>4, Typed, UndecidedStep

LEMMA TakeLockInv ==
    ASSUME AcceptanceInv, NEW w \in Web, TakeLock(w)
    PROVE  UNCHANGED storeVars /\ AcceptanceInv'
<1> DEFINE k == web[w].k
<1>1. /\ web[w].pc = "lock" /\ lock[HomeOf(k)] = Null
      /\ lock' = [lock EXCEPT ![HomeOf(k)] = w]
      /\ Goto(w, "lookup")
      /\ UNCHANGED <<storeVars, sessionVars, basis, evidence, crashes>>
    BY DEF TakeLock, At
<1>2. k \in candidates /\ HomeOf(k) \in Projects
    BY <1>1, AtWork
<1>3. web' \in [Web -> [pc : Steps, k : CandidateIds \cup {Null}, m : Messages \cup {Null}]]
      /\ lock' \in [Projects -> Web \cup {Null}]
    BY <1>1, <1>2, Typed DEF Goto, Steps
<1>4. StoreKept /\ authored' = authored /\ candidates' = candidates /\ logical' = logical
    BY <1>1, SameStore, Typed DEF sessionVars, storeVars
<1>5. ASSUME NEW u \in Web PROVE WebInv(u)'
  <2>1. CASE u = w
    <3>1. web'[u].pc = "lookup" /\ web'[u].k = k /\ ~Idle(u)'
      BY <1>1, <2>1, Typed DEF Idle, Resting, Goto
    <3>2. lock'[HomeOf(k)] = w
      BY <1>1, <1>2, Typed
    <3> HIDE DEF k
    <3> QED
      BY <1>2, <1>4, <2>1, <3>1, <3>2 DEF WebInv
  <2>2. CASE u # w
    <3>1. web'[u] = web[u]
      BY <1>1, <2>2, Typed DEF Goto
    <3>2. \A p \in Projects : lock[p] = u => lock'[p] = u /\ basis'[p] = basis[p]
      BY <1>1, <1>2, Typed
    <3> QED
      BY <1>4, <3>1, <3>2, OtherHandler
  <2> QED
    BY <2>1, <2>2
<1> QED
    BY <1>1, <1>3, <1>5, UndecidedStep

(* What binds is a turn that is in the conversation.                       *)
LEMMA InsertedWasAuthored ==
    ASSUME AcceptanceInv, NEW k \in candidates, NEW m \in Inserted(k)
    PROVE  m \in Messages /\ <<k, m>> \in authored
<1>1. Frozen(k).session \in Sessions
    BY CandidateFrozen, Typed
<1> QED
    BY <1>1 DEF Inserted, AcceptanceInv, TurnsAuthored

LEMMA BindPrior ==
    ASSUME AcceptanceInv, NEW w \in Web, web[w].pc \notin {"idle", "lock"},
           UNCHANGED <<storeVars, sessionVars, basis, evidence, lock, crashes>>,
           NEW m \in Inserted(web[w].k),
           web' = [web EXCEPT ![w].pc = "bind", ![w].m = m]
    PROVE  AcceptanceInv'
<1>1. "bind" \in Steps
    BY DEF Steps
<1>2. m \in Messages /\ <<web[w].k, m>> \in authored
    BY AtWork, InsertedWasAuthored
<1>3. web' = [web EXCEPT ![w] = [pc |-> "bind", k |-> web[w].k, m |-> m]]
  <2>1. AcceptanceTypeOK
    BY Typed
  <2>2. \A n \in Messages : web' = [web EXCEPT ![w].pc = "bind", ![w].m = n] =>
            web' = [web EXCEPT ![w] = [pc |-> "bind", k |-> web[w].k, m |-> n]]
    BY <1>1, <2>1, GotoIs
  <2> QED
    BY <1>2, <2>2
<1>4. StoreKept /\ authored' = authored
    BY SameStore, Typed DEF sessionVars
<1>5. /\ web' \in [Web -> [pc : Steps, k : CandidateIds \cup {Null}, m : Messages \cup {Null}]]
      /\ \A u \in Web : WebInv(u)'
    BY <1>1, <1>2, <1>3, <1>4, GotoKeeps
<1> QED
    BY <1>5, Typed, UndecidedStep

LEMMA GoOn ==
    ASSUME AcceptanceInv, NEW w \in Web, web[w].pc \notin {"idle", "lock"},
           NEW pc \in {"check", "block", "append"}, Goto(w, pc),
           UNCHANGED <<storeVars, sessionVars, basis, evidence, lock, crashes>>,
           pc = "append" => /\ basis[HomeOf(web[w].k)] = Frozen(web[w].k).basis
                            /\ web[w].k[3] \in AuthoredOutput
    PROVE  AcceptanceInv'
<1>1. pc \in Steps /\ pc \notin {"idle", "lock", "bind"}
    BY DEF Steps
<1>2. /\ web' = [web EXCEPT ![w] = [pc |-> pc, k |-> web[w].k, m |-> web[w].m]]
      /\ web[w].m \in Messages \cup {Null}
    BY <1>1, GotoIs, Typed
<1>3. StoreKept /\ authored' = authored
    BY SameStore, Typed DEF sessionVars
<1>4. /\ web' \in [Web -> [pc : Steps, k : CandidateIds \cup {Null}, m : Messages \cup {Null}]]
      /\ \A u \in Web : WebInv(u)'
    BY <1>1, <1>2, <1>3, GotoKeeps
<1> QED
    BY <1>4, Typed, UndecidedStep

LEMMA GiveUp ==
    ASSUME AcceptanceInv, NEW w \in Web, Leave(w),
           UNCHANGED <<storeVars, sessionVars, basis, evidence>>, crashes' \in 0 .. MaxCrashes
    PROVE  AcceptanceInv'
<1>1. StoreKept /\ authored' = authored /\ messageOf' = messageOf /\ candidates' = candidates
      /\ place' = place /\ revision' = revision /\ turns' = turns
    BY SameStore, Typed DEF sessionVars, storeVars
<1>2. /\ lock' \in [Projects -> Web \cup {Null}]
      /\ web' \in [Web -> [pc : Steps, k : CandidateIds \cup {Null}, m : Messages \cup {Null}]]
      /\ \A u \in Web : WebInv(u)'
    BY <1>1, LeaveKeeps
<1>3. TurnsInv'
    BY <1>1, SessionsUntouched
<1>4. BoundWasAuthored'
    BY <1>1, BoundKept
<1> QED
    BY <1>1, <1>2, <1>3, <1>4, Typed, Together

LEMMA LookUpInv ==
    ASSUME AcceptanceInv, NEW w \in Web, LookUp(w)
    PROVE  UNCHANGED storeVars /\ AcceptanceInv'
<1>1. /\ web[w].pc = "lookup"
      /\ \/ \E m \in Inserted(web[w].k) : web' = [web EXCEPT ![w].pc = "bind", ![w].m = m]
         \/ Goto(w, "check")
      /\ UNCHANGED <<storeVars, sessionVars, basis, evidence, lock, crashes>>
    BY DEF LookUp, At
<1> QED
    BY <1>1, BindPrior, GoOn

LEMMA CheckInv ==
    ASSUME AcceptanceInv, NEW w \in Web, Check(w)
    PROVE  UNCHANGED storeVars /\ AcceptanceInv'
<1>1. /\ web[w].pc = "check"
      /\ UNCHANGED <<storeVars, sessionVars, basis, evidence, crashes>>
    BY DEF Check, At
<1>2. \/ Goto(w, "block") /\ UNCHANGED lock
      \/ Leave(w)
      \/ /\ StillFrozen(web[w].k) /\ web[w].k[3] \in AuthoredOutput
         /\ Goto(w, "append") /\ UNCHANGED lock
    BY DEF Check
<1>3. CASE Goto(w, "block") /\ UNCHANGED lock
    BY <1>1, <1>3, GoOn
<1>4. CASE Leave(w)
    BY <1>1, <1>4, Typed, GiveUp
<1>5. CASE /\ StillFrozen(web[w].k) /\ web[w].k[3] \in AuthoredOutput
           /\ Goto(w, "append") /\ UNCHANGED lock
    BY <1>1, <1>5, GoOn DEF StillFrozen
<1> QED
    BY <1>1, <1>2, <1>3, <1>4, <1>5

LEMMA AppendNothingInv ==
    ASSUME AcceptanceInv, NEW w \in Web, AppendNothing(w)
    PROVE  UNCHANGED storeVars /\ AcceptanceInv'
<1>1. /\ web[w].pc = "append"
      /\ \/ \E m \in Inserted(web[w].k) : web' = [web EXCEPT ![w].pc = "bind", ![w].m = m]
         \/ Goto(w, "block")
      /\ UNCHANGED <<storeVars, sessionVars, basis, evidence, lock, crashes>>
    BY DEF AppendNothing, At
<1> QED
    BY <1>1, BindPrior, GoOn

LEMMA WebCrashInv ==
    ASSUME AcceptanceInv, NEW w \in Web, WebCrash(w)
    PROVE  UNCHANGED storeVars /\ AcceptanceInv'
<1>1. /\ Leave(w) /\ UNCHANGED <<storeVars, sessionVars, basis, evidence>>
      /\ crashes < MaxCrashes /\ crashes' = crashes + 1
    BY DEF WebCrash
<1>2. crashes' \in 0 .. MaxCrashes
    BY <1>1, Typed
<1> QED
    BY <1>1, <1>2, GiveUp

-----------------------------------------------------------------------------
(* The commitment: the compare-and-swap of the revision makes it the only  *)
(* turn of this candidate and of this revision.                            *)
LEMMA AppendTurnInv ==
    ASSUME AcceptanceInv, NEW w \in Web, NEW m \in Messages, AppendTurn(w, m)
    PROVE  UNCHANGED storeVars /\ AcceptanceInv'
<1> DEFINE k == web[w].k
           s == Frozen(k).session
<1>1. /\ web[w].pc = "append" /\ CanAppend(k)
      /\ turns' = [turns EXCEPT ![s] = @ \cup {<<k, m>>}]
      /\ revision' = [revision EXCEPT ![s] = @ + 1]
      /\ authored' = authored \cup {<<k, m>>}
      /\ web' = [web EXCEPT ![w].pc = "bind", ![w].m = m]
      /\ UNCHANGED <<storeVars, place, basis, evidence, lock, crashes>>
    BY DEF AppendTurn, At
<1>2. k \in candidates /\ k \in CandidateIds /\ s \in Sessions
      /\ Frozen(k).revision \in Nat /\ Frozen(k).revision < MaxRevision
    BY <1>1, AtWork, CandidateFrozen, Typed
<1>3. revision[s] = Frozen(k).revision
    BY <1>1 DEF CanAppend, Unchanged
<1>4. StoreKept /\ messageOf' = messageOf /\ candidates' = candidates /\ logical' = logical
    BY <1>1, SameStore, Typed DEF storeVars
<1>5. web' = [web EXCEPT ![w] = [pc |-> "bind", k |-> k, m |-> m]] /\ "bind" \in Steps
  <2>1. "bind" \in Steps /\ AcceptanceTypeOK
    BY Typed DEF Steps
  <2>2. \A n \in Messages : web' = [web EXCEPT ![w].pc = "bind", ![w].m = n] =>
            web' = [web EXCEPT ![w] = [pc |-> "bind", k |-> web[w].k, m |-> n]]
    BY <2>1, GotoIs
  <2> QED
    BY <1>1, <2>1, <2>2
<1> HIDE DEF s
<1>6. /\ revision' \in [Sessions -> 0 .. MaxRevision]
      /\ \A q \in Sessions : revision[q] \in Nat /\ revision[q] <= revision'[q]
      /\ revision'[s] = Frozen(k).revision + 1
  <2>1. revision \in [Sessions -> 0 .. MaxRevision]
    BY Typed
  <2> QED
    BY <1>1, <1>2, <1>3, <2>1
<1>7. \A t \in authored : t[1] \in candidates
    BY DEF AcceptanceInv, AuthoredInv
<1>8. \A t \in authored' : /\ t[1] \in candidates /\ Frozen(t[1])' = Frozen(t[1])
                           /\ Frozen(t[1]).session \in Sessions
                           /\ Frozen(t[1]).revision \in Nat
  <2>1. \A t \in authored' : t[1] \in candidates
    BY <1>1, <1>2, <1>7
  <2> QED
    BY <1>4, <2>1, CandidateFrozen, Typed DEF Frozen
<1>9. TurnsInv'
  <2>1. TurnsAuthored'
    BY <1>1, Typed DEF AcceptanceInv, TurnsAuthored
  <2>2. AuthoredInv'
    <3> SUFFICES ASSUME NEW t \in authored'
                 PROVE  /\ t[1] \in candidates'
                        /\ Frozen(t[1])'.revision < revision'[Frozen(t[1])'.session]
      BY DEF AuthoredInv
    <3>1. CASE t \in authored
      <4>1. Frozen(t[1]).revision < revision[Frozen(t[1]).session]
        BY <3>1 DEF AcceptanceInv, AuthoredInv
      <4>2. revision'[Frozen(t[1]).session] \in Nat
        BY <1>6, <1>8
      <4> QED
        BY <1>4, <1>6, <1>8, <4>1, <4>2
    <3>2. CASE t = <<k, m>>
      <4>1. t[1] = k /\ Frozen(t[1])' = Frozen(k)
        BY <1>8, <3>2
      <4> HIDE DEF k
      <4> QED
        BY <1>2, <1>4, <1>6, <4>1 DEF s
    <3> QED
      BY <1>1, <3>1, <3>2
  <2>3. \A u \in authored : ~(/\ Frozen(u[1]).session = s
                              /\ Frozen(u[1]).revision = Frozen(k).revision)
    BY <1>2, <1>3 DEF AcceptanceInv, AuthoredInv
  <2>4. OneTurnPerRevision'
    <3> SUFFICES ASSUME NEW t \in authored', NEW u \in authored',
                        Frozen(t[1])'.session = Frozen(u[1])'.session,
                        Frozen(t[1])'.revision = Frozen(u[1])'.revision
                 PROVE  t = u
      BY DEF OneTurnPerRevision
    <3>1. /\ Frozen(t[1]).session = Frozen(u[1]).session
          /\ Frozen(t[1]).revision = Frozen(u[1]).revision
      BY <1>8
    <3>2. CASE t \in authored /\ u \in authored
      BY <3>1, <3>2 DEF AcceptanceInv, OneTurnPerRevision
    <3>3. CASE t = <<k, m>> /\ u \in authored
      BY <2>3, <3>1, <3>3 DEF s
    <3>4. CASE t \in authored /\ u = <<k, m>>
      BY <2>3, <3>1, <3>4 DEF s
    <3> QED
      BY <1>1, <3>2, <3>3, <3>4
  <2> QED
    BY <2>1, <2>2, <2>4 DEF TurnsInv
<1>10. BoundWasAuthored'
    BY <1>1, <1>4, BoundKept
<1>11. /\ web' \in [Web -> [pc : Steps, k : CandidateIds \cup {Null}, m : Messages \cup {Null}]]
       /\ \A u \in Web : WebInv(u)'
    BY <1>1, <1>4, <1>5, GotoKeeps
<1>12. turns' \in [Sessions -> SUBSET (CandidateIds \X Messages)]
       /\ authored' \subseteq CandidateIds \X Messages
    BY <1>1, <1>2, Typed
<1>13. evidence' \subseteq candidates' /\ place' \in [Sessions -> Projects \cup {Null}]
       /\ basis' \in [Projects -> Bases] /\ lock' \in [Projects -> Web \cup {Null}]
       /\ crashes' \in 0 .. MaxCrashes
    BY <1>1, <1>4, Typed
<1>14. AcceptanceInv'
    BY <1>4, <1>6, <1>9, <1>10, <1>11, <1>12, <1>13, Together
<1> QED
    BY <1>1, <1>14

(* The decision: the handler binds or blocks its candidate, and ends.      *)
LEMMA Decided ==
    ASSUME AcceptanceInv, StoreKept, NEW w \in Web, Leave(w), BoundWasAuthored',
           UNCHANGED <<sessionVars, basis, evidence, crashes>>
    PROVE  AcceptanceInv'
<1>1. /\ authored' = authored /\ place' = place /\ revision' = revision /\ turns' = turns
      /\ candidates \subseteq candidates'
    BY DEF sessionVars, StoreKept
<1>2. /\ lock' \in [Projects -> Web \cup {Null}]
      /\ web' \in [Web -> [pc : Steps, k : CandidateIds \cup {Null}, m : Messages \cup {Null}]]
      /\ \A u \in Web : WebInv(u)'
    BY <1>1, LeaveKeeps
<1>3. TurnsInv'
    BY SessionsUntouched
<1>4. /\ place' \in [Sessions -> Projects \cup {Null}]
      /\ revision' \in [Sessions -> 0 .. MaxRevision]
      /\ turns' \in [Sessions -> SUBSET (CandidateIds \X Messages)]
      /\ authored' \subseteq CandidateIds \X Messages
      /\ basis' \in [Projects -> Bases] /\ evidence' \subseteq candidates'
      /\ crashes' \in 0 .. MaxCrashes
    BY <1>1, Typed
<1> QED
    BY <1>2, <1>3, <1>4, Together

LEMMA BindInv ==
    ASSUME AcceptanceInv, NEW w \in Web, Bind(w)
    PROVE  [Next]_storeVars /\ AcceptanceInv'
<1> DEFINE k == web[w].k
<1>1. /\ web[w].pc = "bind" /\ Leave(w)
      /\ AcceptCandidate(k, web[w].m) \/ UNCHANGED storeVars
      /\ UNCHANGED <<sessionVars, basis, evidence, crashes>>
    BY DEF Bind, At
<1>2. k \in candidates /\ k \in CandidateIds /\ <<k, web[w].m>> \in authored
      /\ web[w].m \in Messages
  <2>1. k \in candidates /\ k \in CandidateIds
    BY <1>1, AtWork
  <2>2. <<k, web[w].m>> \in authored
    BY <1>1 DEF AcceptanceInv, WebInv
  <2> QED
    BY <2>1, <2>2, Typed
<1>3. CASE AcceptCandidate(k, web[w].m)
  <2>1. Next /\ StoreKept
    BY <1>2, <1>3, DecisionKeepsStore, Typed
  <2>2. messageOf' = [messageOf EXCEPT ![k] = web[w].m] /\ authored' = authored
    BY <1>1, <1>3 DEF AcceptCandidate, sessionVars
  <2>3. BoundWasAuthored'
    <3>1. messageOf \in [CandidateIds -> Messages \cup {Null}]
      BY Typed DEF TypeOK
    <3> QED
      BY <1>2, <2>2, <3>1 DEF AcceptanceInv, BoundWasAuthored
  <2> QED
    BY <1>1, <2>1, <2>3, Decided
<1>4. CASE UNCHANGED storeVars
  <2>1. StoreKept /\ messageOf' = messageOf /\ authored' = authored
    BY <1>1, <1>4, SameStore, Typed DEF storeVars, sessionVars
  <2>2. BoundWasAuthored'
    BY <2>1, BoundKept
  <2> QED
    BY <1>1, <1>4, <2>1, <2>2, Decided
<1> QED
    BY <1>1, <1>3, <1>4

LEMMA BlockStepInv ==
    ASSUME AcceptanceInv, NEW w \in Web, Block(w)
    PROVE  [Next]_storeVars /\ AcceptanceInv'
<1> DEFINE k == web[w].k
<1>1. /\ web[w].pc = "block" /\ Leave(w)
      /\ BlockCandidate(k) \/ UNCHANGED storeVars
      /\ UNCHANGED <<sessionVars, basis, evidence, crashes>>
    BY DEF Block, At
<1>2. k \in candidates
    BY <1>1, AtWork
<1>3. messageOf' = messageOf /\ authored' = authored
    BY <1>1 DEF BlockCandidate, storeVars, sessionVars
<1>4. BoundWasAuthored'
    BY <1>3, BoundKept
<1>5. [Next]_storeVars /\ StoreKept
    BY <1>1, <1>2, DecisionKeepsStore, SameStore, Typed
<1> QED
    BY <1>1, <1>4, <1>5, Decided

-----------------------------------------------------------------------------
(* Every step is a step of the store or leaves it alone, and keeps the     *)
(* invariant.                                                              *)
LEMMA WebStepInv ==
    ASSUME AcceptanceInv, NEW w \in Web, WebStep(w)
    PROVE  [Next]_storeVars /\ AcceptanceInv'
<1>1. ASSUME NEW p \in Projects, EnableDispatch(w, p) \/ \E b \in Bases : ChangeBasis(w, p, b)
      PROVE  [Next]_storeVars /\ AcceptanceInv'
    BY <1>1, EnableDispatchInv, ChangeBasisInv
<1>2. ASSUME NEW s \in Sessions, \E r \in Requests : Submit(w, r, s)
      PROVE  [Next]_storeVars /\ AcceptanceInv'
    BY <1>2, SubmitInv
<1>3. ASSUME NEW s \in Sessions,
             \/ EditSession(w, s) \/ DeleteSession(w, s)
             \/ \E p \in Projects : MoveSession(w, s, p)
      PROVE  [Next]_storeVars /\ AcceptanceInv'
    BY <1>3, EditSessionInv
<1>4. ASSUME NEW k \in CandidateIds, Poll(w, k)
      PROVE  [Next]_storeVars /\ AcceptanceInv'
    BY <1>4, PollInv
<1>5. CASE AcceptStep(w)
    BY <1>5, TakeLockInv, LookUpInv, CheckInv, AppendNothingInv, AppendTurnInv, BindInv,
       BlockStepInv DEF AcceptStep
<1>6. CASE WebCrash(w)
    BY <1>6, WebCrashInv
<1> QED
    BY <1>1, <1>2, <1>3, <1>4, <1>5, <1>6 DEF WebStep

LEMMA AcceptanceNextInv ==
    AcceptanceInv /\ [AcceptanceNext]_acceptVars => [Next]_storeVars /\ AcceptanceInv'
<1> SUFFICES ASSUME AcceptanceInv, [AcceptanceNext]_acceptVars
             PROVE  [Next]_storeVars /\ AcceptanceInv'
    OBVIOUS
<1>1. ASSUME NEW w \in Web, WebStep(w) PROVE [Next]_storeVars /\ AcceptanceInv'
    BY <1>1, WebStepInv
<1>2. ASSUME NEW r \in Requests, CustodyStep(r) PROVE [Next]_storeVars /\ AcceptanceInv'
    BY <1>2, CustodyStepInv
<1>3. ASSUME NEW k \in CandidateIds, Purge(k) PROVE [Next]_storeVars /\ AcceptanceInv'
    BY <1>3, PurgeInv
<1>4. CASE UNCHANGED acceptVars
  <2>1. UNCHANGED <<storeVars, sessionVars, basis, evidence, lock, web, crashes>>
    BY <1>4 DEF acceptVars
  <2>2. StoreKept /\ messageOf' = messageOf /\ evidence' \subseteq candidates'
    BY <2>1, SameStore, Typed DEF storeVars
  <2> QED
    BY <2>1, <2>2, StoreStepInv
<1> QED
    BY <1>1, <1>2, <1>3, <1>4 DEF AcceptanceNext

(* The invariant of acceptance, for any number of web processes.           *)
THEOREM AcceptanceInvariant == AcceptanceSpec => []AcceptanceInv
<1>1. AcceptanceInv /\ [AcceptanceNext]_acceptVars => AcceptanceInv'
    BY AcceptanceNextInv
<1> QED
    BY <1>1, AcceptanceInitInv, PTL DEF AcceptanceSpec

(* What the handlers, the worker and the purge do to the store are calls   *)
(* of its methods: all that is proved of the store holds of the whole.     *)
THEOREM AcceptanceUsesStore == AcceptanceSpec => Spec
<1>1. AcceptanceInit => Init
    BY DEF AcceptanceInit
<1>2. AcceptanceInv /\ [AcceptanceNext]_acceptVars => [Next]_storeVars
    BY AcceptanceNextInv
<1> QED
    BY <1>1, <1>2, AcceptanceInvariant, PTL DEF AcceptanceSpec, Spec

(* accept_candidate of the store: an acceptance is permanent, whatever the *)
(* processes around the store do.                                          *)
THEOREM AcceptanceStaysFinal == AcceptanceSpec => AcceptanceFinal
    BY AcceptanceUsesStore, AcceptanceFinalAlways, PTL

(* append_candidate_if_revision: an answer is committed to a conversation  *)
(* at most once, over crashes, moves, replays and several processes.       *)
THEOREM AuthoredOnceAlways == AcceptanceSpec => []AuthoredOnce
<1>1. AcceptanceInv => AuthoredOnce
    BY DEF AcceptanceInv, OneTurnPerRevision, AuthoredOnce
<1> QED
    BY <1>1, AcceptanceInvariant, PTL

(* Of all requests frozen against one state of a conversation at most one  *)
(* becomes a turn, and no acceptance is claimed that was not committed.    *)
THEOREM AcceptedWasAuthoredAlways == AcceptanceSpec => []AcceptedWasAuthored
<1>1. AcceptanceInv => AcceptedWasAuthored
    BY DEF AcceptanceInv, BoundWasAuthored, AcceptedWasAuthored
<1> QED
    BY <1>1, AcceptanceInvariant, PTL

-----------------------------------------------------------------------------
(* Only an append commits, and it does so under the project lock, with     *)
(* what was frozen found unchanged.                                        *)
LEMMA OnlyAppendCommits ==
    ASSUME [AcceptanceNext]_acceptVars
    PROVE  authored' = authored \/ \E w \in Web, m \in Messages : AppendTurn(w, m)
<1> USE DEF sessionVars
<1>1. ASSUME NEW w \in Web, WebStep(w)
      PROVE  authored' = authored \/ \E m \in Messages : AppendTurn(w, m)
  <2>1. ASSUME NEW p \in Projects, EnableDispatch(w, p) \/ \E b \in Bases : ChangeBasis(w, p, b)
        PROVE  authored' = authored
    BY <2>1 DEF EnableDispatch, ChangeBasis
  <2>2. ASSUME NEW s \in Sessions, \E r \in Requests : Submit(w, r, s)
        PROVE  authored' = authored
    BY <2>2 DEF Submit
  <2>3. ASSUME NEW s \in Sessions,
               \/ EditSession(w, s) \/ DeleteSession(w, s)
               \/ \E p \in Projects : MoveSession(w, s, p)
        PROVE  authored' = authored
    BY <2>3 DEF EditSession, DeleteSession, MoveSession
  <2>4. ASSUME NEW k \in CandidateIds, Poll(w, k) PROVE authored' = authored
    BY <2>4 DEF Poll
  <2>5. CASE AcceptStep(w)
    BY <2>5 DEF AcceptStep, TakeLock, LookUp, Check, AppendNothing, Bind, Block
  <2>6. CASE WebCrash(w)
    BY <2>6 DEF WebCrash
  <2> QED
    BY <1>1, <2>1, <2>2, <2>3, <2>4, <2>5, <2>6 DEF WebStep
<1>2. ASSUME NEW r \in Requests, CustodyStep(r) PROVE authored' = authored
    BY <1>2 DEF CustodyStep
<1>3. ASSUME NEW k \in CandidateIds, Purge(k) PROVE authored' = authored
    BY <1>3 DEF Purge
<1>4. CASE UNCHANGED acceptVars
    BY <1>4 DEF acceptVars
<1> QED
    BY <1>1, <1>2, <1>3, <1>4 DEF AcceptanceNext

LEMMA AppendAgainstFrozen ==
    ASSUME AcceptanceInv, NEW w \in Web, NEW m \in Messages, AppendTurn(w, m),
           NEW t \in authored' \ authored
    PROVE  t = <<web[w].k, m>> /\ StillFrozen(t[1]) /\ t[1][3] \in AuthoredOutput
<1>1. /\ web[w].pc = "append" /\ CanAppend(web[w].k)
      /\ authored' = authored \cup {<<web[w].k, m>>}
    BY DEF AppendTurn, At
<1>2. t = <<web[w].k, m>> /\ t[1] = web[w].k
    BY <1>1
<1>3. /\ basis[HomeOf(web[w].k)] = Frozen(web[w].k).basis
      /\ web[w].k[3] \in AuthoredOutput
    BY <1>1 DEF AcceptanceInv, WebInv
<1> QED
    BY <1>1, <1>2, <1>3 DEF CanAppend, StillFrozen

(* accept_candidate: a turn is committed only against the revision, canon  *)
(* and guidance that were frozen, and only if the response is a turn.      *)
THEOREM AuthoredAgainstFrozenAlways == AcceptanceSpec => AuthoredAgainstFrozen
<1>1. AcceptanceInv /\ [AcceptanceNext]_acceptVars =>
          [\A t \in authored' \ authored :
              StillFrozen(t[1]) /\ t[1][3] \in AuthoredOutput]_acceptVars
    BY OnlyAppendCommits, AppendAgainstFrozen
<1> QED
    BY <1>1, AcceptanceInvariant, PTL DEF AcceptanceSpec, AuthoredAgainstFrozen

-----------------------------------------------------------------------------
(* The steps of the worker are about requests without an answer: those of  *)
(* a request that has one are refused by the store.                        *)
LEMMA CustodyElsewhere ==
    ASSUME StoreInv, NEW k \in candidates, NEW r \in Requests,
           \/ ReserveDispatch(r) \/ MarkExecuting(r, 1)
           \/ \E x \in Responses : RecordCandidate(r, 1, x)
    PROVE  logical'[RequestOf(k)] = logical[RequestOf(k)]
<1>1. /\ k \in CandidateIds /\ RequestOf(k) \in Requests
      /\ PositionOf(k) = Used(RequestOf(k)) /\ PositionOf(k) \in Positions
      /\ LastStatus(RequestOf(k)) \in {"candidate", "blocked"}
      /\ StatusAgrees(RequestOf(k))
    BY CandidateIdType DEF StoreInv, TypeOK, CandidateHeld, LogicalFollowsDispatch
<1>2. r # RequestOf(k)
  <2> SUFFICES ASSUME r = RequestOf(k) PROVE FALSE
    OBVIOUS
  <2>1. CASE ReserveDispatch(r)
    <3>1. logical[r].status = "queued"
      BY <2>1 DEF ReserveDispatch, Reserve
    <3>2. dispatches[r] = <<>>
      BY <1>1, <3>1 DEF StatusAgrees
    <3> QED
      BY <1>1, <3>2, NoDispatchNoCandidate
  <2>2. CASE MarkExecuting(r, 1) \/ \E x \in Responses : RecordCandidate(r, 1, x)
    <3>1. 1 \in DOMAIN dispatches[r] /\ dispatches[r][1] \in {"reserved", "executing", "unknown"}
      BY <2>2 DEF MarkExecuting, DispatchTransition, RecordCandidate, RecordAllowed
    <3>2. dispatches[r] \in Seq(DispatchStatus) /\ Used(r) = Len(dispatches[r])
      BY DEF StoreInv, TypeOK, Used
    <3>3. 1 < Used(r) => dispatches[r][1] = "failed"
      BY <3>1 DEF StoreInv, OneOpenDispatch
    <3>4. Used(r) = 1
      <4>1. Used(r) \in Nat /\ 1 \in 1 .. Used(r)
        BY <3>1, <3>2
      <4>2. ~(1 < Used(r))
        BY <3>1, <3>3
      <4> QED
        BY <4>1, <4>2
    <3> QED
      BY <1>1, <3>1, <3>4 DEF LastStatus
  <2> QED
    BY <2>1, <2>2
<1>3. \/ logical' = [logical EXCEPT ![r].status = "dispatching"]
      \/ logical' = [logical EXCEPT ![r].status = "candidate"]
    BY DEF ReserveDispatch, Reserve, MarkExecuting, DispatchTransition, RecordCandidate
<1>4. logical \in [Requests -> LogicalRow]
    BY DEF StoreInv, TypeOK
<1> QED
    BY <1>1, <1>2, <1>3, <1>4

(* A decision is about one candidate: no other has the same request.       *)
LEMMA DecidedAlone ==
    ASSUME StoreInv, NEW k \in candidates, NEW l \in candidates, l # k,
           BlockCandidate(k) \/ \E m \in Messages : AcceptCandidate(k, m)
    PROVE  logical'[RequestOf(l)] = logical[RequestOf(l)]
<1>1. RequestOf(l) # RequestOf(k)
    BY DEF StoreInv, OneCandidate
<1>2. l \in CandidateIds /\ RequestOf(l) \in Requests
    BY CandidateIdType DEF StoreInv, TypeOK
<1>3. logical \in [Requests -> LogicalRow]
    BY DEF StoreInv, TypeOK
<1> QED
    BY <1>1, <1>2, <1>3 DEF BlockCandidate, AcceptCandidate

(* Steps that commit nothing and decide nothing.                           *)
Quiet ==
    /\ authored' = authored
    /\ \A k \in candidates : logical'[RequestOf(k)].status = logical[RequestOf(k)].status
    /\ \A k \in candidates' \ candidates : logical'[RequestOf(k)].status # "blocked"

LEMMA StoreAlone ==
    ASSUME UNCHANGED storeVars, authored' = authored
    PROVE  Quiet
    BY DEF storeVars, Quiet

LEMMA StepEffects ==
    ASSUME AcceptanceInv, [AcceptanceNext]_acceptVars
    PROVE  \/ Quiet
           \/ \E w \in Web, m \in Messages : AppendTurn(w, m)
           \/ \E w \in Web : Bind(w) \/ Block(w)
<1> USE DEF sessionVars
<1>1. ASSUME NEW w \in Web, WebStep(w)
      PROVE  \/ Quiet
             \/ \E m \in Messages : AppendTurn(w, m)
             \/ Bind(w) \/ Block(w)
  <2>1. ASSUME NEW p \in Projects, EnableDispatch(w, p) PROVE Quiet
    BY <2>1 DEF EnableDispatch, SetDispatchEnabled, Quiet
  <2>2. ASSUME NEW p \in Projects, NEW b \in Bases, ChangeBasis(w, p, b) PROVE Quiet
    BY <2>2, StoreAlone DEF ChangeBasis
  <2>3. ASSUME NEW s \in Sessions, NEW r \in Requests, Submit(w, r, s) PROVE Quiet
    <3>1. /\ ~Created(r) /\ candidates' = candidates /\ authored' = authored
          /\ \E c : logical' = [logical EXCEPT ![r] = c]
      BY <2>3 DEF Submit, CreateRequest
    <3>2. \A k \in candidates : RequestOf(k) # r /\ RequestOf(k) \in Requests
      BY <3>1, CandidateFrozen, Typed
    <3>3. logical \in [Requests -> LogicalRow]
      BY Typed DEF TypeOK
    <3> QED
      BY <3>1, <3>2, <3>3 DEF Quiet
  <2>4. ASSUME NEW s \in Sessions,
               \/ EditSession(w, s) \/ DeleteSession(w, s)
               \/ \E p \in Projects : MoveSession(w, s, p)
        PROVE  Quiet
    BY <2>4, StoreAlone DEF EditSession, DeleteSession, MoveSession
  <2>5. ASSUME NEW k \in CandidateIds, Poll(w, k) PROVE Quiet
    BY <2>5, StoreAlone DEF Poll
  <2>6. CASE TakeLock(w) \/ LookUp(w) \/ Check(w) \/ AppendNothing(w) \/ WebCrash(w)
    BY <2>6, StoreAlone DEF TakeLock, LookUp, Check, AppendNothing, WebCrash
  <2> QED
    BY <1>1, <2>1, <2>2, <2>3, <2>4, <2>5, <2>6 DEF WebStep, AcceptStep
<1>2. ASSUME NEW r \in Requests, CustodyStep(r) PROVE Quiet
  <2>1. /\ authored' = authored
        /\ \/ ReserveDispatch(r) \/ MarkExecuting(r, 1)
           \/ \E x \in Responses : RecordCandidate(r, 1, x)
    BY <1>2 DEF CustodyStep, Answered
  <2>2. \A k \in candidates : logical'[RequestOf(k)] = logical[RequestOf(k)]
    BY <2>1, CustodyElsewhere, Typed
  <2>3. ASSUME NEW k \in candidates' \ candidates PROVE logical'[RequestOf(k)].status # "blocked"
    <3>1. PICK x \in Responses : RecordCandidate(r, 1, x)
      BY <2>1, <2>3 DEF ReserveDispatch, Reserve, MarkExecuting, DispatchTransition
    <3>2. k = <<r, 1, x>> /\ logical' = [logical EXCEPT ![r].status = "candidate"]
      BY <2>3, <3>1 DEF RecordCandidate
    <3>3. logical \in [Requests -> LogicalRow] /\ RequestOf(k) = r
      BY <3>2, Typed DEF TypeOK, RequestOf
    <3>4. logical'[r].status = "candidate"
      BY <3>2, <3>3 DEF LogicalRow
    <3> QED
      BY <3>3, <3>4
  <2> QED
    BY <2>1, <2>2, <2>3 DEF Quiet
<1>3. ASSUME NEW k \in CandidateIds, Purge(k) PROVE Quiet
    BY <1>3, StoreAlone DEF Purge
<1>4. CASE UNCHANGED acceptVars
    BY <1>4, StoreAlone DEF acceptVars
<1> QED
    BY <1>1, <1>2, <1>3, <1>4 DEF AcceptanceNext

-----------------------------------------------------------------------------
(* The deployment: one web process.                                        *)
OneProcess == \E w : Web = {w}

Alone == \A w \in Web : AloneInv(w)

LEMMA IdleIsAlone ==
    ASSUME NEW w \in Web, Idle(w) PROVE AloneInv(w)
    BY DEF AloneInv, Idle, Resting

LEMMA LeaveIsIdle ==
    ASSUME AcceptanceInv, NEW w \in Web, Leave(w) PROVE Idle(w)'
    BY Typed DEF Leave, Idle

(* A step of somebody else: nothing the handler looked at is changed.      *)
LEMMA AloneKept ==
    ASSUME AcceptanceInv, StoreKept, Quiet, NEW w \in Web, AloneInv(w),
           web'[w] = web[w], place' = place, turns' = turns
    PROVE  AloneInv(w)'
<1>1. CASE Idle(w)
  <2>1. Idle(w)'
    BY <1>1 DEF Idle
  <2> QED
    BY <2>1 DEF AloneInv, Idle, Resting
<1>2. CASE ~Idle(w)
  <2>1. web[w].k \in candidates /\ web[w].pc # "idle"
    BY <1>2 DEF AcceptanceInv, WebInv
  <2>2. /\ Frozen(web[w].k)' = Frozen(web[w].k)
        /\ logical'[RequestOf(web[w].k)].status = logical[RequestOf(web[w].k)].status
    BY <2>1 DEF StoreKept, Quiet, Frozen
  <2>3. Found(web[w].k)' = Found(web[w].k) /\ Inserted(web[w].k)' = Inserted(web[w].k)
    BY <2>2 DEF Found, Inserted
  <2>4. logical[RequestOf(web[w].k)].status = "candidate"
    BY <1>2 DEF AloneInv
  <2>5. (logical[RequestOf(web[w].k)].status = "candidate")'
    BY <2>2, <2>4
  <2>6. web[w].pc \in {"check", "append", "block"} =>
            ~Found(web[w].k) \/ Inserted(web[w].k) = {}
    BY DEF AloneInv
  <2>7. (web[w].pc \in {"check", "append", "block"} =>
            ~Found(web[w].k) \/ Inserted(web[w].k) = {})'
    BY <2>3, <2>6
  <2> QED
    BY <2>5, <2>7 DEF AloneInv
<1> QED
    BY <1>1, <1>2

(* The handler's own steps.                                                *)
LEMMA AloneGoesOn ==
    ASSUME AcceptanceInv, NEW w \in Web, AloneInv(w), web[w].pc # "idle",
           UNCHANGED logical, UNCHANGED place,
           web'[w].k = web[w].k,
           web'[w].pc \in {"lookup", "bind"} \/
              /\ UNCHANGED turns
              /\ ~Found(web[w].k) \/ Inserted(web[w].k) = {}
    PROVE  AloneInv(w)'
<1>1. logical[RequestOf(web[w].k)].status = "candidate"
    BY DEF AcceptanceInv, WebInv, AloneInv
<1>2. (logical[RequestOf(web[w].k)].status = "candidate")'
    BY <1>1
<1>3. web'[w].pc \notin {"lookup", "bind"} =>
          ~Found(web[w].k)' \/ Inserted(web[w].k)' = {}
    BY DEF Found, Inserted, Frozen
<1>4. (web[w].pc \in {"check", "append", "block"} =>
          ~Found(web[w].k) \/ Inserted(web[w].k) = {})'
    BY <1>3 DEF Found, Inserted, Frozen
<1> QED
    BY <1>2, <1>4 DEF AloneInv

LEMMA AcceptStepAlone ==
    ASSUME AcceptanceInv, NEW w \in Web, AloneInv(w), AcceptStep(w)
    PROVE  AloneInv(w)'
<1> USE DEF sessionVars, storeVars, At
<1>1. web \in [Web -> [pc : Steps, k : CandidateIds \cup {Null}, m : Messages \cup {Null}]]
    BY Typed
<1>2. CASE TakeLock(w)
  <2>1. web'[w].pc = "lookup" /\ web'[w].k = web[w].k
    BY <1>1, <1>2 DEF TakeLock, Goto
  <2> QED
    BY <1>2, <2>1, AloneGoesOn DEF TakeLock
<1>3. CASE LookUp(w)
  <2>1. web'[w].k = web[w].k
        /\ (web'[w].pc = "bind" \/ ~Found(web[w].k) \/ Inserted(web[w].k) = {})
    BY <1>1, <1>3 DEF LookUp, Goto
  <2> QED
    BY <1>3, <2>1, AloneGoesOn DEF LookUp
<1>4. CASE Check(w)
  <2>1. CASE Leave(w)
    BY <2>1, LeaveIsIdle DEF AloneInv, Idle, Resting
  <2>2. CASE Goto(w, "block") \/ Goto(w, "append")
    <3>1. web'[w].k = web[w].k
      BY <1>1, <2>2 DEF Goto
    <3>2. ~Found(web[w].k) \/ Inserted(web[w].k) = {}
      BY <1>4 DEF Check, AloneInv
    <3> QED
      BY <1>4, <3>1, <3>2, AloneGoesOn DEF Check
  <2> QED
    BY <1>4, <2>1, <2>2 DEF Check
<1>5. CASE AppendNothing(w)
  <2>1. web'[w].k = web[w].k
        /\ (web'[w].pc = "bind" \/ ~Found(web[w].k) \/ Inserted(web[w].k) = {})
    BY <1>1, <1>5 DEF AppendNothing, Goto
  <2> QED
    BY <1>5, <2>1, AloneGoesOn DEF AppendNothing
<1>6. ASSUME NEW m \in Messages, AppendTurn(w, m) PROVE AloneInv(w)'
  <2>1. web'[w].k = web[w].k /\ web'[w].pc = "bind"
    BY <1>1, <1>6 DEF AppendTurn
  <2> QED
    BY <1>6, <2>1, AloneGoesOn DEF AppendTurn
<1>7. CASE Bind(w) \/ Block(w)
  <2>1. Leave(w)
    BY <1>7 DEF Bind, Block
  <2> QED
    BY <2>1, LeaveIsIdle DEF AloneInv, Idle, Resting
<1> QED
    BY <1>2, <1>3, <1>4, <1>5, <1>6, <1>7 DEF AcceptStep

LEMMA AloneNext ==
    ASSUME OneProcess, AcceptanceInv, Alone, [AcceptanceNext]_acceptVars
    PROVE  Alone'
<1>1. PICK w : Web = {w}
    BY DEF OneProcess
<1>2. AloneInv(w) /\ w \in Web
    BY <1>1 DEF Alone
<1> SUFFICES AloneInv(w)'
    BY <1>1 DEF Alone
<1>3. CASE WebStep(w)
  <2>1. CASE AcceptStep(w)
    BY <1>2, <2>1, AcceptStepAlone
  <2>2. CASE WebCrash(w)
    BY <1>2, <2>2, LeaveIsIdle DEF WebCrash, AloneInv, Idle, Resting
  <2>3. ASSUME NEW k \in CandidateIds, Poll(w, k) PROVE AloneInv(w)'
    <3>1. /\ logical[RequestOf(k)].status = "candidate"
          /\ web' = [web EXCEPT ![w] = [pc |-> "lock", k |-> k, m |-> Null]]
          /\ logical' = logical
      BY <2>3 DEF Poll, storeVars
    <3>2. web'[w].pc = "lock" /\ web'[w].k = k
      BY <1>2, <3>1, Typed
    <3>3. (logical[RequestOf(web[w].k)].status = "candidate")'
      BY <3>1, <3>2
    <3> QED
      BY <3>2, <3>3 DEF AloneInv
  <2>4. CASE /\ ~AcceptStep(w) /\ ~WebCrash(w)
             /\ \A k \in CandidateIds : ~Poll(w, k)
    <3>1. Idle(w) /\ web' = web
      BY <1>3, <2>4 DEF WebStep, EnableDispatch, ChangeBasis, Submit, EditSession,
         DeleteSession, MoveSession
    <3>2. Idle(w)'
      BY <3>1 DEF Idle
    <3> QED
      BY <3>2 DEF AloneInv, Idle, Resting
  <2> QED
    BY <2>1, <2>2, <2>3, <2>4
<1>4. CASE \/ \E r \in Requests : CustodyStep(r)
           \/ \E k \in CandidateIds : Purge(k)
           \/ UNCHANGED acceptVars
  <2>1. web' = web /\ place' = place /\ turns' = turns /\ authored' = authored
    BY <1>4 DEF CustodyStep, Purge, acceptVars, sessionVars
  <2>2. StoreKept
    <3>1. ASSUME NEW r \in Requests, CustodyStep(r) PROVE StoreKept
      BY <3>1, CustodyKeepsStore, Typed DEF CustodyStep, Answered
    <3>2. CASE (\E k \in CandidateIds : Purge(k)) \/ UNCHANGED acceptVars
      BY <3>2, SameStore, Typed DEF Purge, acceptVars
    <3> QED
      BY <1>4, <3>1, <3>2
  <2>3. Quiet
    <3>1. CASE (\E k \in CandidateIds : Purge(k)) \/ UNCHANGED acceptVars
      BY <2>1, <3>1, StoreAlone DEF Purge, acceptVars
    <3>2. CASE \E r \in Requests : CustodyStep(r)
      <4>1. [AcceptanceNext]_acceptVars
        OBVIOUS
      <4>2. \A u \in Web, m \in Messages : ~AppendTurn(u, m)
        BY <1>2, <2>1, Typed DEF AppendTurn, At
      <4>3. \A u \in Web : ~(Bind(u) \/ Block(u))
        <5> SUFFICES ASSUME NEW u \in Web, Bind(u) \/ Block(u) PROVE FALSE
          OBVIOUS
        <5>1. web[u].pc \in {"bind", "block"} /\ Leave(u)
          BY DEF Bind, Block, At
        <5>2. web'[u] = Resting
          BY <5>1, Typed DEF Leave
        <5> QED
          BY <2>1, <5>1, <5>2 DEF Resting
      <4> QED
        BY <4>1, <4>2, <4>3, StepEffects
    <3> QED
      BY <1>4, <3>1, <3>2
  <2> QED
    BY <1>2, <2>1, <2>2, <2>3, AloneKept
<1> QED
    BY <1>1, <1>3, <1>4 DEF AcceptanceNext

LEMMA AloneInvariant ==
    ASSUME OneProcess
    PROVE  AcceptanceSpec => []Alone
<1>1. AcceptanceInit => Alone
  <2> SUFFICES ASSUME AcceptanceInit, NEW w \in Web PROVE AloneInv(w)
    BY DEF Alone
  <2>1. Idle(w)
    BY DEF AcceptanceInit, Idle
  <2> QED
    BY <2>1, IdleIsAlone
<1>2. Alone /\ AcceptanceInv /\ [AcceptanceNext]_acceptVars => Alone'
    BY AloneNext
<1> QED
    BY <1>1, <1>2, AcceptanceInvariant, PTL DEF AcceptanceSpec

(* What the two decisions do to the candidate of the handler that takes    *)
(* them, and what they leave of all the others.                            *)
LEMMA DecisionEffects ==
    ASSUME AcceptanceInv, NEW w \in Web, Bind(w) \/ Block(w)
    PROVE  /\ web[w].k \in candidates
           /\ authored' = authored /\ candidates' = candidates
           /\ \A l \in candidates \ {web[w].k} :
                  logical'[RequestOf(l)] = logical[RequestOf(l)]
           /\ Block(w) => logical'[RequestOf(web[w].k)] = logical[RequestOf(web[w].k)]
                          \/ logical'[RequestOf(web[w].k)].status = "blocked"
           /\ Bind(w) => logical'[RequestOf(web[w].k)] = logical[RequestOf(web[w].k)]
                         \/ logical'[RequestOf(web[w].k)].status = "accepted"
<1> DEFINE k == web[w].k
<1>1. k \in candidates
  <2>1. web[w].pc # "idle"
    BY DEF Bind, Block, At
  <2> QED
    BY <2>1 DEF AcceptanceInv, WebInv
<1>2. authored' = authored
    BY DEF Bind, Block, sessionVars
<1>3. RequestOf(k) \in Requests /\ logical \in [Requests -> LogicalRow]
    BY <1>1, CandidateFrozen, Typed DEF TypeOK
<1>4. CASE UNCHANGED storeVars
    BY <1>1, <1>2, <1>4 DEF storeVars
<1>5. CASE Block(w) /\ BlockCandidate(k)
  <2>1. candidates' = candidates /\ logical' = [logical EXCEPT ![RequestOf(k)].status = "blocked"]
    BY <1>5 DEF BlockCandidate
  <2>2. logical'[RequestOf(k)].status = "blocked"
    BY <1>3, <2>1 DEF LogicalRow
  <2>3. \A l \in candidates \ {k} : logical'[RequestOf(l)] = logical[RequestOf(l)]
    BY <1>1, <1>5, DecidedAlone, Typed
  <2>4. ~Bind(w)
    BY <1>5 DEF Bind, Block, At
  <2> QED
    BY <1>1, <1>2, <2>1, <2>2, <2>3, <2>4
<1>6. CASE Bind(w) /\ AcceptCandidate(k, web[w].m)
  <2>1. candidates' = candidates
        /\ logical' = [logical EXCEPT ![RequestOf(k)].status = "accepted",
                                      ![RequestOf(k)].accepted = k]
    BY <1>6 DEF AcceptCandidate
  <2>2. logical'[RequestOf(k)].status = "accepted"
    BY <1>3, <2>1 DEF LogicalRow
  <2>3. web[w].m \in Messages
    BY <1>6, Typed DEF Bind, At, AcceptanceInv, WebInv
  <2>4. \A l \in candidates \ {k} : logical'[RequestOf(l)] = logical[RequestOf(l)]
    BY <1>1, <1>6, <2>3, DecidedAlone, Typed
  <2>5. ~Block(w)
    BY <1>6 DEF Bind, Block, At
  <2> QED
    BY <1>1, <1>2, <2>1, <2>2, <2>4, <2>5
<1> QED
    BY <1>4, <1>5, <1>6 DEF Bind, Block

(* accept_candidate, one web process: the look that blocks a candidate has *)
(* not missed a turn of it that stands in the conversation.                *)
THEOREM NoTurnBlockedAlone ==
    ASSUME OneProcess
    PROVE  AcceptanceSpec => NoTurnBlocked
<1> DEFINE Blocked(k) == logical[RequestOf(k)].status # "blocked"
                         /\ logical'[RequestOf(k)].status = "blocked"
<1>1. ASSUME AcceptanceInv, Alone, [AcceptanceNext]_acceptVars, NEW k \in candidates, Blocked(k)
      PROVE  ~(Found(k) /\ Inserted(k) # {})
  <2>1. CASE Quiet
    BY <1>1, <2>1 DEF Quiet
  <2>2. ASSUME NEW w \in Web, NEW m \in Messages, AppendTurn(w, m) PROVE FALSE
    BY <1>1, <2>2 DEF AppendTurn, storeVars
  <2>3. ASSUME NEW w \in Web, Bind(w) \/ Block(w) PROVE ~(Found(k) /\ Inserted(k) # {})
    <3>1. k = web[w].k
      BY <1>1, <2>3, DecisionEffects
    <3>2. ~Bind(w)
      BY <1>1, <2>3, <3>1, DecisionEffects
    <3>3. web[w].pc = "block"
      BY <2>3, <3>2 DEF Block, At
    <3> QED
      BY <1>1, <3>1, <3>3 DEF Alone, AloneInv
  <2> QED
    BY <1>1, <2>1, <2>2, <2>3, StepEffects
<1>2. AcceptanceInv /\ Alone /\ [AcceptanceNext]_acceptVars =>
          [\A k \in candidates :
              logical[RequestOf(k)].status # "blocked" /\ logical'[RequestOf(k)].status = "blocked"
              => ~(Found(k) /\ Inserted(k) # {})]_acceptVars
    BY <1>1
<1> QED
    BY <1>2, AcceptanceInvariant, AloneInvariant, PTL DEF AcceptanceSpec, NoTurnBlocked

-----------------------------------------------------------------------------
(* The refinement of AuthoredTurn, step by step.                           *)
Outcomes == [k \in CandidateIds |-> Outcome(k)]

LEMMA SameOutcomes ==
    ASSUME AcceptanceInv, authored' = authored,
           \A k \in candidates :
              \/ logical'[RequestOf(k)].status = logical[RequestOf(k)].status
              \/ \E t \in authored : t[1] = k,
           \A k \in candidates' \ candidates : logical'[RequestOf(k)].status # "blocked",
           candidates \subseteq candidates'
    PROVE  Outcomes' = Outcomes
<1>1. ASSUME NEW k \in CandidateIds PROVE Outcome(k)' = Outcome(k)
  <2>1. CASE \E t \in authored : t[1] = k
    <3>1. (\E t \in authored : t[1] = k)'
      BY <2>1
    <3> QED
      BY <2>1, <3>1 DEF Outcome
  <2>2. CASE ~\E t \in authored : t[1] = k
    <3>1. (~\E t \in authored : t[1] = k)'
      BY <2>2
    <3>2. (k \in candidates /\ logical[RequestOf(k)].status = "blocked")'
          <=> (k \in candidates /\ logical[RequestOf(k)].status = "blocked")
      BY <2>2
    <3> QED
      BY <2>2, <3>1, <3>2 DEF Outcome
  <2> QED
    BY <2>1, <2>2
<1> QED
    BY <1>1 DEF Outcomes

LEMMA AppendIsAuthor ==
    ASSUME AcceptanceInv, Alone, NEW w \in Web, NEW m \in Messages, AppendTurn(w, m)
    PROVE  Turn!Author(web[w].k)
<1> DEFINE k == web[w].k
<1>1. /\ web[w].pc = "append" /\ CanAppend(k) /\ UNCHANGED storeVars
      /\ authored' = authored \cup {<<k, m>>}
    BY DEF AppendTurn, At
<1>2. k \in candidates /\ k \in CandidateIds /\ ~Idle(w)
    BY <1>1, Typed DEF AcceptanceInv, WebInv
<1>3. logical[RequestOf(k)].status = "candidate"
    BY <1>2 DEF Alone, AloneInv
<1>4. ~\E t \in authored : t[1] = k
  <2> SUFFICES ASSUME NEW t \in authored, t[1] = k PROVE FALSE
    OBVIOUS
  <2>1. Frozen(k).revision < revision[Frozen(k).session]
    BY DEF AcceptanceInv, AuthoredInv
  <2>2. Frozen(k).revision \in Nat
    BY <1>2, CandidateFrozen, Typed
  <2> QED
    BY <1>1, <2>1, <2>2 DEF CanAppend, Unchanged
<1>5. StillFrozen(k)
    BY <1>1 DEF CanAppend, StillFrozen, AcceptanceInv, WebInv
<1>6. Outcome(k) = "open"
    BY <1>3, <1>4 DEF Outcome
<1>7. ASSUME NEW l \in CandidateIds
      PROVE  Outcome(l)' = IF l = k THEN "authored" ELSE Outcome(l)
  <2>1. CASE l = k
    <3>1. <<l, m>> \in authored' /\ <<l, m>>[1] = l
      BY <1>1, <2>1
    <3>2. (\E t \in authored : t[1] = l)'
      BY <3>1
    <3> QED
      BY <2>1, <3>2 DEF Outcome
  <2>2. CASE l # k
    <3>1. (\E t \in authored : t[1] = l)' <=> \E t \in authored : t[1] = l
      BY <1>1, <2>2
    <3>2. (l \in candidates /\ logical[RequestOf(l)].status = "blocked")'
          <=> (l \in candidates /\ logical[RequestOf(l)].status = "blocked")
      BY <1>1 DEF storeVars
    <3> QED
      BY <2>2, <3>1, <3>2 DEF Outcome
  <2> QED
    BY <2>1, <2>2
<1> HIDE DEF k
<1>8. Outcomes' = [Outcomes EXCEPT ![k] = "authored"]
    BY <1>7 DEF Outcomes
<1>9. Outcomes[k] = "open" /\ k \in {l \in candidates : StillFrozen(l)}
    BY <1>2, <1>5, <1>6 DEF Outcomes
<1> QED
    BY <1>8, <1>9 DEF Outcomes, Turn!Author, k

LEMMA BlockIsRefuse ==
    ASSUME AcceptanceInv, Alone, NEW w \in Web, Block(w),
           ~\E t \in authored : t[1] = web[w].k,
           logical'[RequestOf(web[w].k)].status = "blocked"
    PROVE  Turn!Refuse(web[w].k)
<1> DEFINE k == web[w].k
<1>1. /\ k \in candidates /\ authored' = authored /\ candidates' = candidates
      /\ \A l \in candidates \ {k} : logical'[RequestOf(l)] = logical[RequestOf(l)]
    BY DecisionEffects
<1>2. k \in CandidateIds /\ ~Idle(w)
    BY <1>1, Typed DEF Block, At, Idle, Resting
<1>3. logical[RequestOf(k)].status = "candidate"
    BY <1>2 DEF Alone, AloneInv
<1>4. Outcome(k) = "open"
    BY <1>3 DEF Outcome
<1>5. ASSUME NEW l \in CandidateIds
      PROVE  Outcome(l)' = IF l = k THEN "refused" ELSE Outcome(l)
  <2>1. (\E t \in authored : t[1] = l)' <=> \E t \in authored : t[1] = l
    BY <1>1
  <2>2. CASE l = k
    <3>1. (l \in candidates /\ logical[RequestOf(l)].status = "blocked")'
      BY <1>1, <2>2
    <3> QED
      BY <2>1, <2>2, <3>1 DEF Outcome
  <2>3. CASE l # k
    <3>1. (l \in candidates /\ logical[RequestOf(l)].status = "blocked")'
          <=> (l \in candidates /\ logical[RequestOf(l)].status = "blocked")
      BY <1>1, <2>3
    <3> QED
      BY <2>1, <2>3, <3>1 DEF Outcome
  <2> QED
    BY <2>2, <2>3
<1> HIDE DEF k
<1>6. Outcomes' = [Outcomes EXCEPT ![k] = "refused"] /\ Outcomes[k] = "open"
    BY <1>2, <1>4, <1>5 DEF Outcomes
<1> QED
    BY <1>6 DEF Outcomes, Turn!Refuse, k

(* Acceptance, one web process: an answer becomes a turn once, while the   *)
(* conversation and the project are what was frozen, or it is refused, and *)
(* neither is taken back.                                                  *)
THEOREM AcceptanceImplementsTurn ==
    ASSUME OneProcess
    PROVE  AcceptanceSpec => TurnSpec
<1>1. AcceptanceInit => Turn!Init
  <2>1. AcceptanceInit => \A k \in CandidateIds : Outcome(k) = "open"
    BY DEF AcceptanceInit, Init, Outcome
  <2> QED
    BY <2>1 DEF Turn!Init
<1>2. ASSUME AcceptanceInv, Alone, [AcceptanceNext]_acceptVars
      PROVE  Turn!Next \/ Outcomes' = Outcomes
  <2>1. candidates \subseteq candidates'
    <3>1. [Next]_storeVars
      BY <1>2, AcceptanceNextInv
    <3> QED
      BY <1>2, <3>1, NextInv, StepKeepsCustody, Typed DEF storeVars
  <2>2. CASE Quiet
    BY <1>2, <2>1, <2>2, SameOutcomes DEF Quiet
  <2>3. ASSUME NEW w \in Web, NEW m \in Messages, AppendTurn(w, m) PROVE Turn!Next
    <3>1. web[w].k \in CandidateIds
      <4>1. web[w].pc = "append"
        BY <2>3 DEF AppendTurn, At
      <4> QED
        BY <1>2, <4>1, Typed DEF AcceptanceInv, WebInv
    <3>2. Turn!Author(web[w].k)
      BY <1>2, <2>3, AppendIsAuthor
    <3> QED
      BY <3>1, <3>2 DEF Turn!Next
  <2>4. ASSUME NEW w \in Web, Bind(w) \/ Block(w) PROVE Turn!Next \/ Outcomes' = Outcomes
    <3> DEFINE k == web[w].k
    <3>1. k \in candidates /\ k \in CandidateIds /\ authored' = authored /\ candidates' = candidates
      BY <1>2, <2>4, DecisionEffects, Typed
    <3>2. \A l \in candidates \ {k} : logical'[RequestOf(l)] = logical[RequestOf(l)]
      BY <1>2, <2>4, DecisionEffects
    <3>3. CASE \/ logical'[RequestOf(k)] = logical[RequestOf(k)]
               \/ \E t \in authored : t[1] = k
      BY <1>2, <3>1, <3>2, <3>3, SameOutcomes
    <3>4. CASE ~\E t \in authored : t[1] = k
      <4>1. ~Bind(w)
        <5> SUFFICES ASSUME Bind(w) PROVE FALSE
          OBVIOUS
        <5>1. <<k, web[w].m>> \in authored /\ <<k, web[w].m>>[1] = k
          BY <1>2 DEF Bind, At, AcceptanceInv, WebInv
        <5> QED
          BY <3>4, <5>1
      <4>2. \/ logical'[RequestOf(k)] = logical[RequestOf(k)]
            \/ logical'[RequestOf(k)].status = "blocked"
        BY <1>2, <2>4, <4>1, DecisionEffects
      <4>3. CASE logical'[RequestOf(k)].status = "blocked"
        <5>1. Turn!Refuse(k)
          BY <1>2, <2>4, <3>4, <4>1, <4>3, BlockIsRefuse
        <5> QED
          BY <3>1, <5>1 DEF Turn!Next
      <4> QED
        BY <3>3, <4>2, <4>3
    <3> QED
      BY <3>3, <3>4
  <2> QED
    BY <1>2, <2>2, <2>3, <2>4, StepEffects
<1>3. AcceptanceInv /\ Alone /\ [AcceptanceNext]_acceptVars =>
          [Turn!Next]_[k \in CandidateIds |-> Outcome(k)]
    BY <1>2 DEF Outcomes
<1> QED
    BY <1>1, <1>3, AcceptanceInvariant, AloneInvariant, PTL
    DEF AcceptanceSpec, TurnSpec, Turn!Spec
=============================================================================
