------------------------ MODULE GenerationStoreProofs ------------------------
(***************************************************************************)
(* Proofs about GenerationStore, for every set of projects, requests,      *)
(* responses and messages and every bound on the fallback policy.          *)
(***************************************************************************)
EXTENDS GenerationStore, TLAPS

USE GenerationStoreAssumption

(* A candidate id carries its request and its position.                    *)
LEMMA CandidateIdType ==
  ASSUME NEW k \in CandidateIds
  PROVE  /\ RequestOf(k) \in Requests
         /\ PositionOf(k) \in Positions
  BY DEF CandidateIds, RequestOf, PositionOf

(* Null names no candidate and no message. *)
LEMMA NullIsNothing == Null \notin CandidateIds /\ Null \notin Messages
  BY GenerationStoreAssumption DEF CandidateIds, Requests, Positions

(* Overwriting the status column keeps a row a row.                        *)
LEMMA RowWithStatus ==
  ASSUME NEW row \in LogicalRow, NEW st \in LogicalStatus
  PROVE  /\ [row EXCEPT !.status = st] \in LogicalRow
         /\ [row EXCEPT !.status = st].status = st
         /\ [row EXCEPT !.status = st].accepted = row.accepted
         /\ [row EXCEPT !.status = st].fallbacks = row.fallbacks
  BY DEF LogicalRow

(* A new dispatch row goes to the end; an update keeps the number of rows. *)
LEMMA AppendRow ==
  ASSUME NEW q \in Seq(DispatchStatus)
  PROVE  /\ Append(q, "reserved") \in Seq(DispatchStatus)
         /\ Len(q) \in Nat
         /\ Len(Append(q, "reserved")) = Len(q) + 1
         /\ Append(q, "reserved")[Len(q) + 1] = "reserved"
         /\ \A i \in 1 .. Len(q) : Append(q, "reserved")[i] = q[i]
         /\ DOMAIN Append(q, "reserved") = 1 .. (Len(q) + 1)
  <1>1. "reserved" \in DispatchStatus
    BY DEF DispatchStatus
  <1>2. QED
    BY <1>1

LEMMA UpdateRow ==
  ASSUME NEW q \in Seq(DispatchStatus), NEW i \in 1 .. Len(q), NEW d \in DispatchStatus
  PROVE  /\ [q EXCEPT ![i] = d] \in Seq(DispatchStatus)
         /\ Len([q EXCEPT ![i] = d]) = Len(q)
         /\ DOMAIN [q EXCEPT ![i] = d] = 1 .. Len(q)
         /\ [q EXCEPT ![i] = d][i] = d
         /\ \A j \in 1 .. Len(q) : j # i => [q EXCEPT ![i] = d][j] = q[j]
  OBVIOUS

LEMMA InitInv == Init => StoreInv
  <1> SUFFICES ASSUME Init PROVE StoreInv
    OBVIOUS
  <1> USE DEF Init, AbsentRow
  <1>1. TypeOK
    <2>1. AbsentRow \in LogicalRow
      BY GenerationStoreAssumption DEF LogicalRow
    <2>2. 0 \in 0 .. MaxFallbacks
      BY GenerationStoreAssumption
    <2>3. QED
      BY <2>1, <2>2 DEF TypeOK
  <1>2. \A r \in Requests : Used(r) = 0 /\ DOMAIN dispatches[r] = {}
    BY DEF Used
  <1>3. OneOpenDispatch /\ LogicalFollowsDispatch /\ DispatchBudget
    BY <1>2 DEF OneOpenDispatch, LogicalFollowsDispatch, StatusAgrees, DispatchBudget, Created
  <1>4. OneCandidate /\ CandidateHeld
    BY DEF OneCandidate, CandidateHeld
  <1>5. AcceptedHeld /\ AcceptanceAgrees
    BY NullIsNothing, CandidateIdType DEF AcceptedHeld, AcceptanceAgrees
  <1>6. QED
    BY <1>1, <1>3, <1>4, <1>5 DEF StoreInv

LEMMA SettingsInv ==
  ASSUME StoreInv, NEW p \in Projects, NEW e \in BOOLEAN, NEW n \in 0 .. MaxFallbacks,
         SetDispatchEnabled(p, e) \/ SetSettings(p, e, n)
  PROVE  StoreInv'
  <1>1. logical' = logical /\ dispatches' = dispatches /\ candidates' = candidates
        /\ messageOf' = messageOf
    BY DEF SetDispatchEnabled, SetSettings
  <1>2. TypeOK'
    BY <1>1 DEF StoreInv, TypeOK, SetDispatchEnabled, SetSettings, SwitchTo
  <1>3. OneOpenDispatch' /\ LogicalFollowsDispatch' /\ DispatchBudget'
    BY <1>1 DEF StoreInv, OneOpenDispatch, LogicalFollowsDispatch, StatusAgrees,
         DispatchBudget, Created, Authorized, Used, LastStatus
  <1>4. OneCandidate' /\ CandidateHeld' /\ AcceptedHeld' /\ AcceptanceAgrees'
    BY <1>1 DEF StoreInv, OneCandidate, CandidateHeld, AcceptedHeld, AcceptanceAgrees,
         Used, LastStatus
  <1>5. QED
    BY <1>2, <1>3, <1>4 DEF StoreInv

(* A row that has no dispatch yet holds no candidate. *)
LEMMA NoDispatchNoCandidate ==
  ASSUME StoreInv, NEW r \in Requests, dispatches[r] = <<>>
  PROVE  \A k \in candidates : RequestOf(k) # r
  BY CandidateIdType DEF StoreInv, TypeOK, CandidateHeld, Positions, Used

LEMMA CreateInv ==
  ASSUME StoreInv, NEW r \in Requests, NEW c \in Contents, NEW n \in 0 .. MaxFallbacks,
         CreateRequest(r, c, n)
  PROVE  StoreInv'
  <1> USE DEF StoreInv, CreateRequest, Created
  <1>1. TypeOK'
    BY NullIsNothing DEF TypeOK, LogicalRow, LogicalStatus
  <1>2. dispatches[r] = <<>> /\ logical[r].accepted = Null
    BY DEF LogicalFollowsDispatch, StatusAgrees, AcceptedHeld
  <1>3. \A k \in candidates : RequestOf(k) # r
    BY <1>2, NoDispatchNoCandidate
  <1>4. /\ \A q \in Requests \ {r} : logical'[q] = logical[q]
        /\ logical'[r].status = "queued" /\ logical'[r].accepted = Null
        /\ logical'[r].fallbacks = n /\ dispatches' = dispatches
        /\ candidates' = candidates /\ messageOf' = messageOf
    BY DEF TypeOK
  <1>5. OneOpenDispatch' /\ OneCandidate' /\ CandidateHeld'
    BY <1>4 DEF OneOpenDispatch, OneCandidate, CandidateHeld, Used, LastStatus
  <1>6. LogicalFollowsDispatch'
    BY <1>2, <1>4 DEF LogicalFollowsDispatch, StatusAgrees, LastStatus, Used
  <1>7. DispatchBudget'
    BY <1>2, <1>4 DEF DispatchBudget, Used, Authorized
  <1>8. AcceptedHeld'
    BY <1>2, <1>4 DEF AcceptedHeld
  <1>9. AcceptanceAgrees'
    BY <1>2, <1>3, <1>4, NullIsNothing, CandidateIdType DEF AcceptanceAgrees, TypeOK
  <1>10. QED
    BY <1>1, <1>5, <1>6, <1>7, <1>8, <1>9

(* What both reservations have in common: every earlier dispatch failed.   *)
LEMMA ReserveInv ==
  ASSUME StoreInv, NEW r \in Requests, NEW s \in {"queued", "failed"}, Reserve(r, s)
  PROVE  StoreInv'
  <1> USE DEF StoreInv, Reserve
  <1>1. /\ logical[r].status = s
        /\ logical[r].accepted = Null
        /\ Used(r) \in Nat
        /\ Used(r) < Authorized(r)
    BY DEF AcceptedHeld, TypeOK, Used
  <1>2. \A i \in 1 .. Used(r) : dispatches[r][i] = "failed"
    BY <1>1 DEF OneOpenDispatch, LogicalFollowsDispatch, StatusAgrees, LastStatus, Used, TypeOK
  <1>3. \A k \in candidates : RequestOf(k) # r
    <2> SUFFICES ASSUME NEW k \in candidates, RequestOf(k) = r PROVE FALSE
      OBVIOUS
    <2>1. PositionOf(k) = Used(r) /\ LastStatus(r) \in {"candidate", "blocked"}
      BY DEF CandidateHeld
    <2>2. PositionOf(k) >= 1
      BY CandidateIdType DEF TypeOK, Positions
    <2>3. QED
      BY <1>1, <1>2, <2>1, <2>2 DEF LastStatus
  <1>4. TypeOK'
    <2>1. [logical[r] EXCEPT !.status = "dispatching"] \in LogicalRow
      BY RowWithStatus DEF TypeOK, LogicalStatus
    <2>2. Append(dispatches[r], "reserved") \in Seq(DispatchStatus)
      BY AppendRow DEF TypeOK
    <2>3. QED
      BY <2>1, <2>2 DEF TypeOK
  <1>5. /\ \A q \in Requests \ {r} : logical'[q] = logical[q] /\ dispatches'[q] = dispatches[q]
        /\ logical'[r] = [logical[r] EXCEPT !.status = "dispatching"]
        /\ dispatches'[r] = Append(dispatches[r], "reserved")
        /\ candidates' = candidates /\ messageOf' = messageOf
    BY DEF TypeOK
  <1>6. /\ logical'[r].status = "dispatching"
        /\ logical'[r].accepted = Null
        /\ logical'[r].fallbacks = logical[r].fallbacks
    BY <1>1, <1>5 DEF TypeOK, LogicalRow
  <1>7. /\ Len(dispatches'[r]) = Used(r) + 1
        /\ dispatches'[r][Used(r) + 1] = "reserved"
        /\ \A i \in 1 .. Used(r) : dispatches'[r][i] = dispatches[r][i]
        /\ DOMAIN dispatches'[r] = 1 .. (Used(r) + 1)
        /\ dispatches'[r] # <<>>
    <2>1. dispatches[r] \in Seq(DispatchStatus)
      BY DEF TypeOK
    <2>2. QED
      BY <1>5, <2>1, AppendRow DEF Used
  <1>8. OneOpenDispatch'
    BY <1>1, <1>2, <1>5, <1>7 DEF OneOpenDispatch, Used
  <1>9. LogicalFollowsDispatch'
    BY <1>5, <1>6, <1>7 DEF LogicalFollowsDispatch, StatusAgrees, LastStatus, Used
  <1>10. DispatchBudget'
    BY <1>1, <1>5, <1>6, <1>7 DEF DispatchBudget, Used, Created, Authorized, TypeOK, LogicalRow
  <1>11. OneCandidate' /\ CandidateHeld'
    BY <1>3, <1>5, CandidateIdType DEF OneCandidate, CandidateHeld, Used, LastStatus, TypeOK
  <1>12. AcceptedHeld'
    BY <1>5, <1>6 DEF AcceptedHeld
  <1>13. AcceptanceAgrees'
    BY <1>1, <1>3, <1>5, <1>6, CandidateIdType, NullIsNothing DEF AcceptanceAgrees
  <1>14. QED
    BY <1>4, <1>8, <1>9, <1>10, <1>11, <1>12, <1>13

(* The dispatch marks: only the open, newest dispatch can be re-marked, and *)
(* it holds no candidate yet.                                              *)
LEMMA TransitionInv ==
  ASSUME StoreInv, NEW r \in Requests, NEW i,
         NEW d \in {"executing", "unknown", "failed"},
         NEW l \in {"dispatching", "unknown", "failed"},
         d = "executing" => l = "dispatching",
         d # "executing" => l = d,
         DispatchTransition(r, i, {"reserved", "executing"}, d, l)
  PROVE  StoreInv'
  <1> USE DEF StoreInv, DispatchTransition
  <1>1. /\ Used(r) \in Nat
        /\ i \in 1 .. Used(r)
        /\ dispatches[r][i] \in {"reserved", "executing"}
    BY DEF TypeOK, Used
  <1>2. i = Used(r)
    BY <1>1 DEF OneOpenDispatch, Used
  <1>3. \A k \in candidates : RequestOf(k) # r
    BY <1>1, <1>2 DEF CandidateHeld, LastStatus
  <1>4. logical[r].status = "dispatching" /\ logical[r].accepted = Null
    <2>1. LastStatus(r) \in {"reserved", "executing"} /\ dispatches[r] # <<>>
      BY <1>1, <1>2 DEF LastStatus, Used
    <2>2. logical[r].status \in LogicalStatus \cup {"absent"}
      BY DEF TypeOK, LogicalRow
    <2>3. QED
      BY <2>1, <2>2 DEF LogicalFollowsDispatch, StatusAgrees, AcceptedHeld, LogicalStatus
  <1>5. TypeOK'
    <2>1. [logical[r] EXCEPT !.status = l] \in LogicalRow
      BY RowWithStatus DEF TypeOK, LogicalStatus
    <2>2. [dispatches[r] EXCEPT ![i] = d] \in Seq(DispatchStatus)
      BY <1>1, UpdateRow DEF TypeOK, DispatchStatus, Used
    <2>3. QED
      BY <2>1, <2>2 DEF TypeOK
  <1>6. /\ \A q \in Requests \ {r} : logical'[q] = logical[q] /\ dispatches'[q] = dispatches[q]
        /\ logical'[r].status = l
        /\ logical'[r].accepted = Null
        /\ logical'[r].fallbacks = logical[r].fallbacks
        /\ candidates' = candidates /\ messageOf' = messageOf
    BY <1>4 DEF TypeOK, LogicalRow
  <1>7. /\ Len(dispatches'[r]) = Used(r)
        /\ dispatches'[r][i] = d
        /\ \A j \in 1 .. Used(r) : j # i => dispatches'[r][j] = dispatches[r][j]
        /\ DOMAIN dispatches'[r] = 1 .. Used(r)
        /\ dispatches'[r] # <<>>
    BY <1>1 DEF TypeOK, Used
  <1>8. OneOpenDispatch'
    BY <1>1, <1>2, <1>6, <1>7 DEF OneOpenDispatch, Used
  <1>9. LogicalFollowsDispatch'
    BY <1>2, <1>6, <1>7 DEF LogicalFollowsDispatch, StatusAgrees, LastStatus, Used
  <1>10. DispatchBudget'
    BY <1>4, <1>6, <1>7 DEF DispatchBudget, Used, Created, Authorized
  <1>11. OneCandidate' /\ CandidateHeld'
    BY <1>3, <1>6, CandidateIdType DEF OneCandidate, CandidateHeld, Used, LastStatus, TypeOK
  <1>12. AcceptedHeld'
    BY <1>6 DEF AcceptedHeld
  <1>13. AcceptanceAgrees'
    BY <1>3, <1>4, <1>6, CandidateIdType, NullIsNothing DEF AcceptanceAgrees
  <1>14. QED
    BY <1>5, <1>8, <1>9, <1>10, <1>11, <1>12, <1>13

(* Recording an answer: the dispatch is open, hence the newest, hence the  *)
(* request holds no other candidate.                                       *)
LEMMA RecordInv ==
  ASSUME StoreInv, NEW r \in Requests, NEW i \in Positions, NEW x \in Responses,
         RecordCandidate(r, i, x)
  PROVE  StoreInv'
  <1> DEFINE new == <<r, i, x>>
  <1> USE DEF StoreInv, RecordCandidate, RecordAllowed
  <1>1. /\ Used(r) \in Nat
        /\ i \in 1 .. Used(r)
        /\ dispatches[r][i] \in {"executing", "unknown"}
    BY DEF TypeOK, Used
  <1>2. i = Used(r)
    BY <1>1 DEF OneOpenDispatch, Used
  <1>3. \A k \in candidates : RequestOf(k) # r
    BY <1>1, <1>2 DEF CandidateHeld, LastStatus
  <1>4. logical[r].status \in {"dispatching", "unknown"} /\ logical[r].accepted = Null
    <2>1. LastStatus(r) \in {"executing", "unknown"} /\ dispatches[r] # <<>>
      BY <1>1, <1>2 DEF LastStatus, Used
    <2>2. logical[r].status \in LogicalStatus \cup {"absent"}
      BY DEF TypeOK, LogicalRow
    <2>3. QED
      BY <2>1, <2>2 DEF LogicalFollowsDispatch, StatusAgrees, AcceptedHeld, LogicalStatus
  <1>5. /\ new \in CandidateIds
        /\ RequestOf(new) = r
        /\ PositionOf(new) = i
    BY DEF CandidateIds, RequestOf, PositionOf
  <1>6. TypeOK'
    <2>1. [logical[r] EXCEPT !.status = "candidate"] \in LogicalRow
      BY RowWithStatus DEF TypeOK, LogicalStatus
    <2>2. [dispatches[r] EXCEPT ![i] = "candidate"] \in Seq(DispatchStatus)
      BY <1>1, UpdateRow DEF TypeOK, DispatchStatus, Used
    <2>3. QED
      BY <1>5, <2>1, <2>2 DEF TypeOK
  <1>7. /\ \A q \in Requests \ {r} : logical'[q] = logical[q] /\ dispatches'[q] = dispatches[q]
        /\ logical'[r].status = "candidate"
        /\ logical'[r].accepted = Null
        /\ logical'[r].fallbacks = logical[r].fallbacks
        /\ candidates' = candidates \cup {new} /\ messageOf' = messageOf
    BY <1>4 DEF TypeOK, LogicalRow
  <1>8. /\ Len(dispatches'[r]) = Used(r)
        /\ dispatches'[r][i] = "candidate"
        /\ \A j \in 1 .. Used(r) : j # i => dispatches'[r][j] = dispatches[r][j]
        /\ DOMAIN dispatches'[r] = 1 .. Used(r)
        /\ dispatches'[r] # <<>>
    BY <1>1 DEF TypeOK, Used
  <1>9. OneOpenDispatch'
    BY <1>1, <1>2, <1>7, <1>8 DEF OneOpenDispatch, Used
  <1>10. LogicalFollowsDispatch'
    BY <1>2, <1>7, <1>8 DEF LogicalFollowsDispatch, StatusAgrees, LastStatus, Used
  <1>11. DispatchBudget'
    BY <1>4, <1>7, <1>8 DEF DispatchBudget, Used, Created, Authorized
  <1>12. OneCandidate'
    BY <1>3, <1>5, <1>7 DEF OneCandidate
  <1>13. CandidateHeld'
    BY <1>2, <1>3, <1>5, <1>7, <1>8, CandidateIdType
    DEF CandidateHeld, Used, LastStatus, TypeOK
  <1>14. AcceptedHeld'
    BY <1>7 DEF AcceptedHeld
  <1>15. AcceptanceAgrees'
    BY <1>3, <1>4, <1>7, CandidateIdType, NullIsNothing DEF AcceptanceAgrees
  <1>16. QED
    BY <1>6, <1>9, <1>10, <1>11, <1>12, <1>13, <1>14, <1>15

LEMMA AcceptInv ==
  ASSUME StoreInv, NEW k \in CandidateIds, NEW m \in Messages, AcceptCandidate(k, m)
  PROVE  StoreInv'
  <1> DEFINE r == RequestOf(k)
  <1> DEFINE row == [logical[r] EXCEPT !.status = "accepted", !.accepted = k]
  <1> USE DEF StoreInv
  <1>1. r \in Requests /\ k # Null /\ m # Null /\ k \in candidates
    BY CandidateIdType, NullIsNothing DEF AcceptCandidate
  <1>2. LastStatus(r) \in {"candidate", "blocked"} /\ dispatches[r] # <<>>
    BY <1>1, CandidateIdType DEF CandidateHeld, Used, Positions
  <1>3. /\ row \in LogicalRow
        /\ row.status = "accepted"
        /\ row.accepted = k
        /\ row.fallbacks = logical[r].fallbacks
    BY <1>1 DEF TypeOK, LogicalRow, LogicalStatus
  <1>4. /\ logical' = [logical EXCEPT ![r] = row]
        /\ messageOf' = [messageOf EXCEPT ![k] = m]
        /\ candidates' = candidates /\ dispatches' = dispatches
        /\ enabled' = enabled /\ policy' = policy
    BY <1>1 DEF AcceptCandidate, TypeOK
  <1> HIDE DEF row
  <1>5. /\ \A q \in Requests \ {r} : logical'[q] = logical[q]
        /\ logical'[r] = row
        /\ \A l \in CandidateIds \ {k} : messageOf'[l] = messageOf[l]
        /\ messageOf'[k] = m
    BY <1>1, <1>4 DEF TypeOK
  <1>6. TypeOK'
    BY <1>3, <1>4 DEF TypeOK
  <1>7. OneOpenDispatch' /\ OneCandidate' /\ CandidateHeld'
    BY <1>4 DEF OneOpenDispatch, OneCandidate, CandidateHeld, Used, LastStatus
  <1>8. LogicalFollowsDispatch'
    <2> SUFFICES ASSUME NEW q \in Requests PROVE StatusAgrees(q)'
      BY DEF LogicalFollowsDispatch
    <2>1. CASE q = r
      BY <1>2, <1>3, <1>4, <1>5, <2>1 DEF StatusAgrees, LastStatus, Used
    <2>2. CASE q # r
      BY <1>4, <1>5, <2>2 DEF LogicalFollowsDispatch, StatusAgrees, LastStatus, Used
    <2>3. QED
      BY <2>1, <2>2
  <1>9. Created(r)
    BY <1>1, <1>2 DEF Created, LogicalFollowsDispatch, StatusAgrees
  <1>10. DispatchBudget'
    BY <1>3, <1>4, <1>5, <1>9 DEF DispatchBudget, Used, Created, Authorized
  <1>11. AcceptedHeld'
    BY <1>1, <1>3, <1>4, <1>5 DEF AcceptedHeld
  <1>12. AcceptanceAgrees'
    <2> SUFFICES ASSUME NEW l \in CandidateIds
                 PROVE  /\ messageOf'[l] # Null <=> logical'[RequestOf(l)].accepted = l
                        /\ messageOf'[l] # Null =>
                              l \in candidates /\ logical'[RequestOf(l)].status = "accepted"
      BY <1>4 DEF AcceptanceAgrees
    <2>1. CASE l = k
      BY <1>1, <1>3, <1>5, <2>1
    <2>2. CASE l # k /\ RequestOf(l) = r
      <3>1. messageOf[l] = Null
        BY <1>1, <2>2 DEF AcceptanceAgrees, OneCandidate
      <3>2. QED
        BY <1>3, <1>5, <2>2, <3>1
    <2>3. CASE RequestOf(l) # r
      <3>1. messageOf'[l] = messageOf[l] /\ logical'[RequestOf(l)] = logical[RequestOf(l)]
        BY <1>5, <2>3, CandidateIdType
      <3>2. QED
        BY <3>1 DEF AcceptanceAgrees
    <2>4. QED
      BY <2>1, <2>2, <2>3
  <1>13. QED
    BY <1>6, <1>7, <1>8, <1>10, <1>11, <1>12

LEMMA BlockInv ==
  ASSUME StoreInv, NEW k \in CandidateIds, BlockCandidate(k)
  PROVE  StoreInv'
  <1> DEFINE r == RequestOf(k)  i == PositionOf(k)
  <1> USE DEF StoreInv, BlockCandidate
  <1>1. /\ r \in Requests
        /\ Used(r) \in Nat
        /\ i = Used(r)
        /\ i \in 1 .. Used(r)
        /\ LastStatus(r) \in {"candidate", "blocked"}
    BY CandidateIdType DEF CandidateHeld, Used, Positions, TypeOK
  <1>2. Created(r) /\ logical[r].accepted = Null
    BY <1>1 DEF Created, LogicalFollowsDispatch, StatusAgrees, Used
  <1>3. TypeOK'
    <2>1. [logical[r] EXCEPT !.status = "blocked"] \in LogicalRow
      BY <1>1, RowWithStatus DEF TypeOK, LogicalStatus
    <2>2. [dispatches[r] EXCEPT ![i] = "blocked"] \in Seq(DispatchStatus)
      BY <1>1, UpdateRow DEF TypeOK, DispatchStatus, Used
    <2>3. QED
      BY <1>1, <2>1, <2>2 DEF TypeOK
  <1>4. /\ \A q \in Requests \ {r} : logical'[q] = logical[q] /\ dispatches'[q] = dispatches[q]
        /\ logical'[r].status = "blocked"
        /\ logical'[r].accepted = Null
        /\ logical'[r].fallbacks = logical[r].fallbacks
        /\ candidates' = candidates /\ messageOf' = messageOf
    BY <1>1, <1>2 DEF TypeOK, LogicalRow
  <1>5. /\ Len(dispatches'[r]) = Used(r)
        /\ dispatches'[r][i] = "blocked"
        /\ \A j \in 1 .. Used(r) : j # i => dispatches'[r][j] = dispatches[r][j]
        /\ DOMAIN dispatches'[r] = 1 .. Used(r)
        /\ dispatches'[r] # <<>>
    BY <1>1 DEF TypeOK, Used
  <1>6. OneOpenDispatch'
    BY <1>1, <1>4, <1>5 DEF OneOpenDispatch, Used
  <1>7. LogicalFollowsDispatch'
    BY <1>1, <1>4, <1>5 DEF LogicalFollowsDispatch, StatusAgrees, LastStatus, Used
  <1>8. DispatchBudget'
    BY <1>2, <1>4, <1>5 DEF DispatchBudget, Used, Created, Authorized
  <1>9. OneCandidate' /\ CandidateHeld'
    BY <1>1, <1>4, <1>5, CandidateIdType DEF OneCandidate, CandidateHeld, Used, LastStatus, TypeOK
  <1>10. AcceptedHeld'
    BY <1>2, <1>4 DEF AcceptedHeld
  <1>11. AcceptanceAgrees'
    BY <1>2, <1>4, CandidateIdType, NullIsNothing DEF AcceptanceAgrees
  <1>12. QED
    BY <1>3, <1>6, <1>7, <1>8, <1>9, <1>10, <1>11

-----------------------------------------------------------------------------
LEMMA NextInv == StoreInv /\ [Next]_storeVars => StoreInv'
  <1> SUFFICES ASSUME StoreInv, [Next]_storeVars PROVE StoreInv'
    OBVIOUS
  <1>1. CASE \E p \in Projects, on \in BOOLEAN :
                \/ SetDispatchEnabled(p, on)
                \/ \E n \in 0 .. MaxFallbacks : SetSettings(p, on, n)
    <2>1. 0 \in 0 .. MaxFallbacks
      BY GenerationStoreAssumption
    <2>2. QED
      BY <1>1, <2>1, SettingsInv
  <1>2. CASE \E r \in Requests, c \in Contents, n \in 0 .. MaxFallbacks : CreateRequest(r, c, n)
    BY <1>2, CreateInv
  <1>3. CASE \E r \in Requests : DispatchStep(r)
    <2> SUFFICES ASSUME NEW r \in Requests, DispatchStep(r) PROVE StoreInv'
      BY <1>3
    <2>1. CASE ReserveDispatch(r) \/ ReserveFallback(r)
      BY <2>1, ReserveInv DEF ReserveDispatch, ReserveFallback
    <2>2. ASSUME NEW i \in Positions, MarkExecuting(r, i) PROVE StoreInv'
      <3>1. DispatchTransition(r, i, {"reserved", "executing"}, "executing", "dispatching")
        BY <2>2 DEF MarkExecuting, DispatchTransition
      <3>2. QED
        BY <3>1, TransitionInv
    <2>3. ASSUME NEW i \in Positions, MarkUnknown(r, i) \/ MarkFailed(r, i) PROVE StoreInv'
      BY <2>3, TransitionInv DEF MarkUnknown, MarkFailed
    <2>4. ASSUME NEW i \in Positions, NEW x \in Responses, RecordCandidate(r, i, x)
          PROVE  StoreInv'
      BY <2>4, RecordInv
    <2>5. QED
      BY <2>1, <2>2, <2>3, <2>4 DEF DispatchStep
  <1>4. CASE \E k \in CandidateIds, m \in Messages : AcceptCandidate(k, m)
    BY <1>4, AcceptInv
  <1>5. CASE \E k \in CandidateIds : BlockCandidate(k)
    BY <1>5, BlockInv
  <1>6. CASE UNCHANGED storeVars
    BY <1>6 DEF storeVars, StoreInv, TypeOK, OneOpenDispatch, LogicalFollowsDispatch, StatusAgrees,
         DispatchBudget, Created, Authorized, OneCandidate, CandidateHeld, AcceptedHeld,
         AcceptanceAgrees, Used, LastStatus
  <1>7. QED
    BY <1>1, <1>2, <1>3, <1>4, <1>5, <1>6 DEF Next

(* The rows of the store always have the columns and statuses the schema   *)
(* declares, and the whole inductive invariant holds with it.              *)
THEOREM StoreInvariant == Spec => []StoreInv
  BY InitInv, NextInv, PTL DEF Spec

THEOREM TypeCorrect == Spec => []TypeOK
  <1>1. StoreInv => TypeOK
    BY DEF StoreInv
  <1>2. QED
    BY <1>1, StoreInvariant, PTL

(* However callers interleave, all dispatches of a writer turn but the     *)
(* newest are qualified failures, and no request exceeds its frozen budget.*)
THEOREM OneOpenDispatchAlways == Spec => [](OneOpenDispatch /\ DispatchBudget)
  <1>1. StoreInv => OneOpenDispatch /\ DispatchBudget
    BY DEF StoreInv
  <1>2. QED
    BY <1>1, StoreInvariant, PTL

(* The request table, the dispatch table and the candidate table agree.    *)
THEOREM TablesAgree == Spec => []CustodyTablesAgree
  <1>1. StoreInv => CustodyTablesAgree
    BY DEF StoreInv, CustodyTablesAgree
  <1>2. QED
    BY <1>1, StoreInvariant, PTL

(* The custody tables are sound in every reachable state.                  *)
THEOREM CustodySoundAlways == Spec => []CustodySound
  <1>1. TypeOK /\ OneOpenDispatch /\ DispatchBudget /\ CustodyTablesAgree => CustodySound
    BY DEF CustodySound
  <1>2. QED
    BY <1>1, TypeCorrect, OneOpenDispatchAlways, TablesAgree, PTL

-----------------------------------------------------------------------------
(* Action properties: what no step may do, from the invariant of the state *)
(* before it and of the state after it.                                    *)

LEMMA StepKeepsCustody ==
  ASSUME StoreInv, StoreInv', [Next]_storeVars, NEW k \in candidates
  PROVE  /\ k \in candidates'
         /\ logical'[RequestOf(k)].status \in {"candidate", "blocked", "accepted"}
  <1>1. candidates \subseteq candidates'
    BY ZenonT(60) DEF Next, storeVars, DispatchStep, SetDispatchEnabled, SetSettings, CreateRequest,
       ReserveDispatch, ReserveFallback, Reserve, MarkExecuting, MarkUnknown, MarkFailed,
       DispatchTransition, RecordCandidate, RecordAllowed, AcceptCandidate, BlockCandidate
  <1>2. k \in candidates' /\ RequestOf(k) \in Requests /\ PositionOf(k) >= 1
    BY <1>1, CandidateIdType DEF StoreInv, TypeOK, Positions
  <1>3. /\ dispatches'[RequestOf(k)][Len(dispatches'[RequestOf(k)])] \in {"candidate", "blocked"}
        /\ dispatches'[RequestOf(k)] # <<>>
    BY <1>2 DEF StoreInv, CandidateHeld, LastStatus, Used
  <1>4. logical'[RequestOf(k)].status \in LogicalStatus \cup {"absent"}
    BY <1>2 DEF StoreInv, TypeOK, LogicalRow
  <1>5. QED
    BY <1>2, <1>3, <1>4
    DEF StoreInv, LogicalFollowsDispatch, StatusAgrees, LastStatus, Used, LogicalStatus

(* Once an answer is in custody no later report makes it look missing.     *)
THEOREM CustodyKeptAlways == Spec => CustodyKept
  <1>1. StoreInv /\ StoreInv' /\ [Next]_storeVars =>
          [\A k \in candidates :
             /\ k \in candidates'
             /\ logical'[RequestOf(k)].status \in {"candidate", "blocked", "accepted"}]_storeVars
    BY StepKeepsCustody
  <1>2. QED
    BY <1>1, StoreInvariant, PTL DEF Spec, CustodyKept

(* A candidate bound to a message is the accepted one of its request, whose *)
(* newest dispatch is settled, so no guard of any method admits a change.  *)
LEMMA StepKeepsAcceptance ==
  ASSUME StoreInv, [Next]_storeVars, NEW k \in CandidateIds, messageOf[k] # Null
  PROVE  /\ messageOf'[k] = messageOf[k]
         /\ logical'[RequestOf(k)] = logical[RequestOf(k)]
         /\ dispatches'[RequestOf(k)] = dispatches[RequestOf(k)]
  <1> DEFINE r == RequestOf(k)
  <1>1. /\ r \in Requests /\ k # Null /\ k \in candidates
        /\ logical[r].status = "accepted"
        /\ logical[r].accepted = k
    BY CandidateIdType, NullIsNothing DEF StoreInv, AcceptanceAgrees
  <1>2. /\ Used(r) \in Nat
        /\ Used(r) \in DOMAIN dispatches[r]
        /\ LastStatus(r) \in {"candidate", "blocked"}
    BY <1>1, CandidateIdType DEF StoreInv, CandidateHeld, TypeOK, Used, Positions
  <1>3. \A i \in DOMAIN dispatches[r] :
           dispatches[r][i] \notin {"reserved", "executing", "unknown"}
    BY <1>1, <1>2 DEF StoreInv, OneOpenDispatch, LastStatus, Used, TypeOK
  <1> HIDE DEF r
  <1>4. ASSUME NEW q \in Requests, DispatchStep(q)
        PROVE  q # r /\ messageOf' = messageOf
               /\ logical'[r] = logical[r] /\ dispatches'[r] = dispatches[r]
    <2>1. messageOf' = messageOf
      BY <1>4 DEF DispatchStep, ReserveDispatch, ReserveFallback, Reserve, MarkExecuting,
         MarkUnknown, MarkFailed, DispatchTransition, RecordCandidate, RecordAllowed
    <2>2. q # r
      BY <1>1, <1>3, <1>4 DEF DispatchStep, ReserveDispatch, ReserveFallback, Reserve,
         MarkExecuting, MarkUnknown, MarkFailed, DispatchTransition, RecordCandidate, RecordAllowed
    <2>3. \E row, seq : /\ logical' = [logical EXCEPT ![q] = row]
                        /\ dispatches' = [dispatches EXCEPT ![q] = seq]
      BY <1>4 DEF DispatchStep, ReserveDispatch, ReserveFallback, Reserve,
         MarkExecuting, MarkUnknown, MarkFailed, DispatchTransition, RecordCandidate, RecordAllowed
    <2>4. QED
      BY <1>1, <2>1, <2>2, <2>3 DEF StoreInv, TypeOK
  <1>5. CASE \E p \in Projects, on \in BOOLEAN :
                \/ SetDispatchEnabled(p, on)
                \/ \E n \in 0 .. MaxFallbacks : SetSettings(p, on, n)
    BY <1>5 DEF SetDispatchEnabled, SetSettings, r
  <1>6. CASE \E q \in Requests, c \in Contents, n \in 0 .. MaxFallbacks : CreateRequest(q, c, n)
    BY <1>1, <1>6 DEF CreateRequest, Created, StoreInv, TypeOK, r
  <1>7. CASE \E q \in Requests : DispatchStep(q)
    BY <1>4, <1>7 DEF r
  <1>8. CASE \E l \in CandidateIds, m \in Messages : AcceptCandidate(l, m)
    <2> PICK l \in CandidateIds, m \in Messages : AcceptCandidate(l, m)
      BY <1>8
    <2>1. l # k /\ RequestOf(l) # r
      BY <1>1 DEF AcceptCandidate, StoreInv, OneCandidate, r
    <2>2. QED
      BY <1>1, <2>1, CandidateIdType DEF AcceptCandidate, StoreInv, TypeOK, r
  <1>9. CASE \E l \in CandidateIds : BlockCandidate(l)
    <2> PICK l \in CandidateIds : BlockCandidate(l)
      BY <1>9
    <2>1. RequestOf(l) # r
      BY <1>1 DEF BlockCandidate, r
    <2>2. QED
      BY <1>1, <2>1, CandidateIdType DEF BlockCandidate, StoreInv, TypeOK, r
  <1>10. CASE UNCHANGED storeVars
    BY <1>10 DEF storeVars
  <1>11. QED
    BY <1>5, <1>6, <1>7, <1>8, <1>9, <1>10 DEF Next

(* An acceptance is permanent.                                             *)
THEOREM AcceptanceFinalAlways == Spec => AcceptanceFinal
  <1>1. StoreInv /\ [Next]_storeVars =>
          [\A k \in CandidateIds : messageOf[k] # Null =>
             /\ messageOf'[k] = messageOf[k]
             /\ logical'[RequestOf(k)] = logical[RequestOf(k)]
             /\ dispatches'[RequestOf(k)] = dispatches[RequestOf(k)]]_storeVars
    BY StepKeepsAcceptance
  <1>2. QED
    BY <1>1, StoreInvariant, PTL DEF Spec, AcceptanceFinal

LEMMA StepRedispatchesOnlyFailures ==
  ASSUME StoreInv, [Next]_storeVars, NEW r \in Requests, Len(dispatches'[r]) # Used(r),
         NEW i \in DOMAIN dispatches[r]
  PROVE  dispatches[r][i] = "failed"
  <1>1. ReserveDispatch(r) \/ ReserveFallback(r)
    <2>1. CASE \E q \in Requests : DispatchStep(q)
      <3> PICK q \in Requests : DispatchStep(q)
        BY <2>1
      <3>1. CASE ReserveDispatch(q) \/ ReserveFallback(q)
        BY <3>1 DEF ReserveDispatch, ReserveFallback, Reserve, StoreInv, TypeOK, Used
      <3>2. CASE \E j \in Positions : \/ MarkExecuting(q, j) \/ MarkUnknown(q, j) \/ MarkFailed(q, j)
                                     \/ \E x \in Responses : RecordCandidate(q, j, x)
        <4>1. \E j, d : j \in DOMAIN dispatches[q] /\ dispatches' = [dispatches EXCEPT ![q][j] = d]
          BY <3>2 DEF MarkExecuting, MarkUnknown, MarkFailed, DispatchTransition, RecordCandidate, RecordAllowed
        <4>2. QED
          BY <4>1 DEF StoreInv, TypeOK, Used
      <3>3. QED
        BY <3>1, <3>2 DEF DispatchStep
    <2>2. CASE \E l \in CandidateIds : BlockCandidate(l)
      <3> PICK l \in CandidateIds : BlockCandidate(l)
        BY <2>2
      <3>1. /\ RequestOf(l) \in Requests
            /\ PositionOf(l) \in 1 .. Len(dispatches[RequestOf(l)])
        BY CandidateIdType DEF BlockCandidate, StoreInv, CandidateHeld, Positions, TypeOK, Used
      <3>2. QED
        BY <3>1 DEF BlockCandidate, StoreInv, TypeOK, Used
    <2>3. CASE dispatches' = dispatches
      BY <2>3 DEF Used
    <2>4. QED
      BY <2>1, <2>2, <2>3 DEF Next, storeVars, SetDispatchEnabled, SetSettings, CreateRequest,
         AcceptCandidate
  <1>2. i \in 1 .. Used(r) /\ Used(r) \in Nat
    BY DEF StoreInv, TypeOK, Used
  <1>3. logical[r].status = "queued" \/ LastStatus(r) = "failed"
    BY <1>1 DEF ReserveDispatch, ReserveFallback, Reserve
  <1>4. QED
    BY <1>2, <1>3 DEF StoreInv, OneOpenDispatch, LogicalFollowsDispatch, StatusAgrees, LastStatus,
       Used

(* Work whose outcome is open or unknown is never dispatched again.        *)
THEOREM NoRedispatchAlways == Spec => NoRedispatchOfOpenWork
  <1>1. StoreInv /\ [Next]_storeVars =>
          [\A r \in Requests : Len(dispatches'[r]) # Used(r) =>
             \A i \in DOMAIN dispatches[r] : dispatches[r][i] = "failed"]_storeVars
    BY StepRedispatchesOnlyFailures
  <1>2. QED
    BY <1>1, StoreInvariant, PTL DEF Spec, NoRedispatchOfOpenWork
=============================================================================
