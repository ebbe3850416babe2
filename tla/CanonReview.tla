------------------------------ MODULE CanonReview ------------------------------
(***************************************************************************)
(* How a possible statement becomes canon: the review queue and the        *)
(* authority record of canon_review_store.py, and the handlers in          *)
(* adapter.py that put an answered candidate, or a statement the author    *)
(* types, into the continuity registry.                                    *)
(*                                                                         *)
(* An acceptance touches three files, one after the other: the authority   *)
(* record (which numbers are used, which statements close a category), the *)
(* registry (anchors.json) and the queue.  No handler has an await between *)
(* them, so only a failed write or the end of the process comes between.   *)
(* The queue and the authority record are also kept in memory, which is    *)
(* changed before the file is; the registry is read again every time.  A   *)
(* page sends the statement it shows, and that becomes canon, also when    *)
(* another page has corrected the candidate since.                         *)
(*                                                                         *)
(* The callers in src/ propose only statements of the author: the guards   *)
(* of an acceptance on other warrants, on the propositions a candidate     *)
(* relies on and on the extent of a category never refuse one of these.    *)
(* A claim is what evidence_fingerprint tells apart, one that can be read  *)
(* alone; there is one character.  The constraints of a code project and   *)
(* the import of a registry are left out.                                  *)
(***************************************************************************)
EXTENDS Integers, Sequences, FiniteSets

CONSTANTS
    CharClaims,  \* claims about the character
    RuleClaims,  \* claims that are rules
    Profile,     \* what the character form writes
    Typed,       \* prefixes of the rules an author types: "world", "forbid"
    MaxItems,    \* bound: candidates
    MaxNumber,   \* bound: numbered anchors of one prefix
    MaxFaults    \* bound: failed writes and restarts

ASSUME CanonReviewAssumption ==
    /\ CharClaims \cap RuleClaims = {}
    /\ Profile \notin CharClaims \cup RuleClaims
    /\ Typed \subseteq {"world", "forbid"}
    /\ MaxItems \in Nat /\ MaxNumber \in Nat /\ MaxFaults \in Nat

VARIABLES
    canon,       \* anchors.json: the statements under each anchor id
    queue,       \* candidates in memory
    saved,       \* the queue's file
    authority,   \* next number of each prefix, and the ids that close a category
    recorded,    \* its file
    op,          \* the handler under way
    faults,      \* faults so far
    answered,    \* claims whose answer the author was told is stored
    kept,        \* <<id, claim>> the author was told is canon, and left there
    written,     \* <<id, claim>> that ever were in the registry
    closed,      \* ids of the statements by which the author closed a category
    asShown      \* candidates that became canon as a page showed them, and
                 \* read otherwise in the queue

told == <<answered, kept, written, closed, asShown>>
canonVars == <<canon, queue, saved, authority, recorded, op, faults, told>>

-----------------------------------------------------------------------------
Claims == CharClaims \cup RuleClaims
Prefixes == {"rule"} \cup Typed
Character == <<"char", 0>>
Ids == {Character} \cup (Prefixes \X (1 .. MaxNumber))

Items == [claim : Claims, status : {"pending", "accepted", "dismissed"}, to : Ids \cup {<<>>}]
Authorities == [next : [Prefixes -> 1 .. MaxNumber + 1], closures : SUBSET Ids]

Idle == [at |-> "idle"]
Steps == {Idle} \cup
    [at : {"write", "close", "resolve"}, item : 0 .. MaxItems, id : Ids,
     claim : Claims, closes : BOOLEAN]

Statements(id) == IF id \in DOMAIN canon THEN canon[id] ELSE <<>>
States(id, c) == \E i \in DOMAIN Statements(id) : canon[id][i] = c

CanonTypeOK ==
    /\ DOMAIN canon \subseteq Ids
    /\ \A id \in DOMAIN canon : canon[id] \in Seq(Claims \cup {Profile})
    /\ \A q \in {queue, saved} : q \in Seq(Items) /\ Len(q) <= MaxItems
    /\ {authority, recorded} \subseteq Authorities
    /\ op \in Steps
    /\ faults \in 0 .. MaxFaults
    /\ answered \subseteq Claims
    /\ kept \cup written \subseteq Ids \X Claims
    /\ closed \subseteq Ids
    /\ asShown \subseteq 1 .. MaxItems

CanonInit ==
    /\ canon = [id \in {} |-> <<>>]
    /\ queue = <<>> /\ saved = <<>>
    /\ authority = [next |-> [p \in Prefixes |-> 1], closures |-> {}]
    /\ recorded = authority
    /\ op = Idle
    /\ faults = 0
    /\ answered = {} /\ kept = {} /\ written = {} /\ closed = {} /\ asShown = {}

-----------------------------------------------------------------------------
Fault == faults < MaxFaults /\ faults' = faults + 1

(* CanonReviewStore._save and _write_authority, after the change in memory *)
(* (ok: the file was replaced).                                            *)
SaveQueue(q, ok) ==
    /\ queue' = q
    /\ \/ ok /\ saved' = q /\ UNCHANGED faults
       \/ ~ok /\ Fault /\ UNCHANGED saved

SaveAuthority(a, ok) ==
    /\ authority' = a
    /\ \/ ok /\ recorded' = a /\ UNCHANGED faults
       \/ ~ok /\ Fault /\ UNCHANGED recorded

(* register and save of the registry: an anchor is put under its id.       *)
Registered(id, text) == [x \in DOMAIN canon \cup {id} |-> IF x = id THEN text ELSE canon[x]]
SaveCanon(c, ok) ==
    \/ ok /\ canon' = c /\ UNCHANGED faults
    \/ ~ok /\ Fault /\ UNCHANGED canon

Pending(i) == i \in DOMAIN queue /\ queue[i].status = "pending"

(* Mutant: only an accepted claim counts as answered.                      *)
StandsAccepted(c) == \E i \in DOMAIN queue : queue[i].claim = c /\ queue[i].status = "accepted"

(* resolved_fingerprints: the author has answered this claim.              *)
Stands(c) == \E i \in DOMAIN queue : queue[i].claim = c /\ queue[i].status # "pending"

(* add: one more candidate, with a claim that is open.                     *)
Proposed(c) == Append(queue, [claim |-> c, status |-> "pending", to |-> <<>>])

(* capture_scan and artifacts_propose_canon: a claim found in a text       *)
(* becomes a candidate unless it is answered.                              *)
Scan(c) ==
    /\ op = Idle
    /\ ~Stands(c)
    /\ Len(queue) < MaxItems
    /\ \E ok \in BOOLEAN : SaveQueue(Proposed(c), ok)
    /\ UNCHANGED <<canon, authority, recorded, op, told>>

(* update_capture: the author corrects a candidate.                        *)
Update(i, c) ==
    /\ op = Idle
    /\ Pending(i)
    /\ \E ok \in BOOLEAN : SaveQueue([queue EXCEPT ![i].claim = c], ok)
    /\ UNCHANGED <<canon, authority, recorded, op, told>>

(* reject_capture.                                                         *)
Dismiss(i) ==
    /\ op = Idle
    /\ Pending(i)
    /\ \E ok \in BOOLEAN :
          /\ SaveQueue([queue EXCEPT ![i].status = "dismissed"], ok)
          /\ answered' = IF ok THEN answered \cup {queue[i].claim} ELSE answered
    /\ UNCHANGED <<canon, authority, recorded, op, kept, written, closed, asShown>>

-----------------------------------------------------------------------------
Numbers(p) == {0} \cup {id[2] : id \in {x \in DOMAIN canon : x[1] = p}}
Highest(S) == CHOOSE n \in S : \A k \in S : k <= n

(* Mutant: the number used is not written down.                            *)
AllocateInMemory(p, step) ==
    LET n == Highest({authority.next[p], Highest(Numbers(p)) + 1})
    IN  /\ n <= MaxNumber
        /\ authority' = [authority EXCEPT !.next[p] = n + 1]
        /\ op' = [step EXCEPT !.id = <<p, n>>]
        /\ UNCHANGED <<recorded, faults>>

(* allocate_anchor_id: a number never used with this prefix, and recorded  *)
(* as used before anything is written under it.                            *)
Allocate(p, step) ==
    LET n == Highest({authority.next[p], Highest(Numbers(p)) + 1})
    IN  /\ n <= MaxNumber
        /\ \E ok \in BOOLEAN :
              /\ SaveAuthority([authority EXCEPT !.next[p] = n + 1], ok)
              /\ op' = IF ok THEN [step EXCEPT !.id = <<p, n>>] ELSE Idle

Write(i, c, closes) ==
    [at |-> "write", item |-> i, id |-> Character, claim |-> c, closes |-> closes]

(* accept_capture of a statement about the character: the one the page     *)
(* shows, whatever the candidate says in the queue by then.                *)
AcceptCharacter(i, c) ==
    /\ op = Idle
    /\ Pending(i) /\ c \in CharClaims
    /\ op' = Write(i, c, FALSE)
    /\ UNCHANGED <<canon, queue, saved, authority, recorded, faults, told>>

(* accept_capture of a rule, and the author's word that it closes a        *)
(* category or not.                                                        *)
AcceptRule(i, c, closes) ==
    /\ op = Idle
    /\ Pending(i) /\ c \in RuleClaims
    /\ Allocate("rule", Write(i, c, closes))
    /\ UNCHANGED <<canon, queue, saved, told>>

(* add_world_rule, add_forbidden: no candidate.                            *)
AddRule(p, c, closes) ==
    /\ op = Idle
    /\ closes => p = "world"
    /\ Allocate(p, Write(0, c, closes))
    /\ UNCHANGED <<canon, queue, saved, told>>

(* Mutant: a failed write is not noticed.                                  *)
WriteUnnoticed ==
    /\ op.at = "write"
    /\ \E ok \in BOOLEAN :
          /\ SaveCanon(Registered(op.id, Append(Statements(op.id), op.claim)), ok)
          /\ op' = IF op.closes THEN [op EXCEPT !.at = "close"]
                   ELSE IF op.item # 0 THEN [op EXCEPT !.at = "resolve"] ELSE Idle
          /\ written' = IF ok THEN written \cup {<<op.id, op.claim>>} ELSE written
          /\ kept' = IF op'.at = "idle" THEN kept \cup {<<op.id, op.claim>>} ELSE kept
    /\ UNCHANGED <<queue, saved, authority, recorded, answered, closed, asShown>>

(* The registry is written: a character's statement is added to what is    *)
(* there already unless it is there (_merge_canon_description).  A rule    *)
(* the author typed without closing a category is then done.               *)
WriteCanon ==
    /\ op.at = "write"
    /\ LET text == IF States(op.id, op.claim) THEN canon[op.id]
                   ELSE Append(Statements(op.id), op.claim)
       IN  \E ok \in BOOLEAN :
              /\ SaveCanon(Registered(op.id, text), ok)
              /\ op' = IF ~ok THEN Idle
                       ELSE IF op.closes THEN [op EXCEPT !.at = "close"]
                       ELSE IF op.item # 0 THEN [op EXCEPT !.at = "resolve"] ELSE Idle
              /\ written' = IF ok THEN written \cup {<<op.id, op.claim>>} ELSE written
              /\ kept' = IF ok /\ op' = Idle THEN kept \cup {<<op.id, op.claim>>} ELSE kept
    /\ UNCHANGED <<queue, saved, authority, recorded, answered, closed, asShown>>

(* record_explicit_closure.                                                *)
Close ==
    /\ op.at = "close"
    /\ closed' = closed \cup {op.id}
    /\ \E ok \in BOOLEAN :
          /\ SaveAuthority([authority EXCEPT !.closures = @ \cup {op.id}], ok)
          /\ op' = IF ok /\ op.item # 0 THEN [op EXCEPT !.at = "resolve"] ELSE Idle
          /\ kept' = IF ok /\ op.item = 0 THEN kept \cup {<<op.id, op.claim>>} ELSE kept
    /\ UNCHANGED <<canon, queue, saved, answered, written, asShown>>

(* resolve: the candidate is accepted, and names the anchor it went to; it *)
(* goes on reading as the queue has it.                                    *)
AsQueued == queue[op.item].claim = op.claim

Resolve ==
    /\ op.at = "resolve"
    /\ \E ok \in BOOLEAN :
          /\ SaveQueue([queue EXCEPT ![op.item].status = "accepted", ![op.item].to = op.id], ok)
          /\ answered' = IF ok /\ AsQueued THEN answered \cup {op.claim} ELSE answered
          /\ asShown' = IF AsQueued THEN asShown ELSE asShown \cup {op.item}
          /\ kept' = IF ok THEN kept \cup {<<op.id, op.claim>>} ELSE kept
    /\ op' = Idle
    /\ UNCHANGED <<canon, authority, recorded, written, closed>>

-----------------------------------------------------------------------------
Undone(id, ok) == IF ok THEN {k \in kept : k[1] # id} ELSE kept

(* add_character: the form replaces the character's whole text.            *)
AddCharacter ==
    /\ op = Idle
    /\ \E ok \in BOOLEAN :
          /\ SaveCanon(Registered(Character, <<Profile>>), ok)
          /\ kept' = Undone(Character, ok)
    /\ UNCHANGED <<queue, saved, authority, recorded, op, answered, written, closed, asShown>>

(* remove_character, which takes away the anchor with any id it is given.  *)
Remove(id) ==
    /\ op = Idle
    /\ id \in DOMAIN canon
    /\ \E ok \in BOOLEAN :
          /\ SaveCanon([x \in DOMAIN canon \ {id} |-> canon[x]], ok)
          /\ kept' = Undone(id, ok)
          /\ closed' = IF ok THEN closed \ {id} ELSE closed
    /\ UNCHANGED <<queue, saved, authority, recorded, op, answered, written, asShown>>

(* The process ends, between any two writes, and another is started.       *)
Restart ==
    /\ Fault
    /\ queue' = saved
    /\ authority' = recorded
    /\ op' = Idle
    /\ asShown' = {i \in asShown \cap DOMAIN saved : saved[i].status = "accepted"}
    /\ UNCHANGED <<canon, saved, recorded, answered, kept, written, closed>>

Review ==
    \E i \in 1 .. MaxItems :
        \/ Dismiss(i)
        \/ \E c \in Claims :
              \/ AcceptCharacter(i, c) \/ Update(i, c)
              \/ \E closes \in BOOLEAN : AcceptRule(i, c, closes)

Author ==
    \/ AddCharacter
    \/ \E c \in RuleClaims :
          \E p \in Typed, closes \in BOOLEAN : AddRule(p, c, closes)
    \/ \E id \in Ids : Remove(id)

CanonNext ==
    \/ \E c \in Claims : Scan(c)
    \/ Review \/ Author
    \/ WriteCanon \/ Close \/ Resolve
    \/ Restart

CanonSpec == CanonInit /\ [][CanonNext]_canonVars

-----------------------------------------------------------------------------
(* Every statement that closes a category, in memory or on disk, is one by *)
(* which the author closed it, not a later one under the same id.          *)
ClosureIsAuthors ==
    (authority.closures \cup recorded.closures) \cap DOMAIN canon \subseteq closed

(* A candidate that reads as accepted went into the registry under the     *)
(* anchor it names: as it reads, but for one a page showed otherwise.      *)
AcceptedIn(q) ==
    \A i \in DOMAIN q :
        q[i].status = "accepted" =>
            \E c \in Claims :
                /\ <<q[i].to, c>> \in written
                /\ q[i].claim = c \/ i \in asShown

(* This holds in memory and after a start; what the author was told is     *)
(* canon and did not take back is there, through later acceptances, failed *)
(* writes and restarts; an acceptance that had to be repeated says nothing *)
(* twice of the character; and a closure is the author's.                  *)
AcceptedIsCanon ==
    /\ CanonTypeOK
    /\ ClosureIsAuthors
    /\ AcceptedIn(queue) /\ AcceptedIn(saved)
    /\ \A k \in kept : States(k[1], k[2])
    /\ \A i, j \in DOMAIN Statements(Character) :
          canon[Character][i] = canon[Character][j] => i = j

(* Does not hold: a page accepts what it shows, and the candidate goes on  *)
(* saying what another page made of it.                                    *)
AcceptedAsItReads ==
    \A i \in DOMAIN queue :
        queue[i].status = "accepted" => <<queue[i].to, queue[i].claim>> \in written

(* A claim the author answered as the queue had it, and was told so, is    *)
(* never put in the queue again, whatever texts are scanned, whatever      *)
(* other pages accept and however often the process starts.                *)
AnsweredStaysClosed ==
    [][\A c \in answered :
          Len(queue') > Len(queue) => queue'[Len(queue')].claim # c]_canonVars

(* An id the authority record hands out has never named another statement, *)
(* removed or not: deletion does not make it reusable, nor a restart.      *)
IdsNotReused ==
    [][\A id \in DOMAIN canon' \ DOMAIN canon :
          id[1] \in Prefixes => \A w \in written : w[1] # id]_canonVars
=============================================================================
