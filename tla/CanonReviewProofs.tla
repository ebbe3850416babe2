--------------------------- MODULE CanonReviewProofs ---------------------------
(***************************************************************************)
(* Proofs about CanonReview, for any claims, any number of candidates and  *)
(* anchors, and any failed writes and restarts.                            *)
(***************************************************************************)
EXTENDS CanonReview, WellFoundedInduction, TLAPS

USE CanonReviewAssumption

(* Ids that are in the registry, or were, or close a category.             *)
UsedIds == DOMAIN canon \cup {w[1] : w \in written} \cup authority.closures \cup recorded.closures

Numbered(id) == id[1] \in Prefixes
GivenOut(id) == Numbered(id) => id[2] < recorded.next[id[1]]

(* Every number in use is below the one that is written down; memory is    *)
(* only ever ahead of the file.                                            *)
NumbersInv ==
    /\ \A p \in Prefixes : recorded.next[p] <= authority.next[p]
    /\ \A id \in UsedIds : GivenOut(id)
    /\ \A id \in authority.closures \cup recorded.closures : Numbered(id)

(* The handler under way: before it writes a rule its id is new; after, its *)
(* statement is in the registry.                                           *)
OpInv ==
    op # Idle =>
        /\ GivenOut(op.id)
        /\ op.at = "write" /\ Numbered(op.id) => op.id \notin UsedIds
        /\ op.closes => Numbered(op.id)
        /\ op.at = "close" => op.closes
        /\ op.at = "resolve" => op.item # 0
        /\ op.at # "write" => /\ States(op.id, op.claim)
                              /\ <<op.id, op.claim>> \in written
        /\ op.item # 0 => Pending(op.item)

KeptInv == \A k \in kept : States(k[1], k[2])

SaidOnce == \A i, j \in DOMAIN Statements(Character) :
    canon[Character][i] = canon[Character][j] => i = j

CanonInv ==
    /\ CanonTypeOK
    /\ NumbersInv
    /\ OpInv
    /\ ClosureIsAuthors
    /\ KeptInv
    /\ SaidOnce
    /\ Len(saved) <= Len(queue)

(* A claim has an answer in a queue, in memory or on disk.                 *)
AnsweredIn(q, c) == \E i \in DOMAIN q : q[i].claim = c /\ q[i].status # "pending"

AnswersInv ==
    /\ AcceptedIn(queue) /\ AcceptedIn(saved)
    /\ \A c \in answered : AnsweredIn(queue, c) /\ AnsweredIn(saved, c)

-----------------------------------------------------------------------------
(* The largest of some numbers that have a bound.                          *)
LEMMA HighestIs ==
    ASSUME NEW S, NEW B \in Nat, S # {}, S \subseteq 0 .. B
    PROVE  Highest(S) \in S /\ \A k \in S : k <= Highest(S)
<1> DEFINE T == {n \in Nat : \E k \in S : n = B - k}
           Less == OpToRel(<, Nat)
<1>1. T \subseteq Nat /\ T # {}
  <2>1. PICK k \in S : TRUE
    OBVIOUS
  <2>2. B - k \in Nat
    BY <2>1
  <2> QED
    BY <2>2
<1>2. \A x, y \in Nat : <<y, x>> \in Less <=> y < x
    BY DEF OpToRel
<1>3. IsWellFoundedOn(Less, Nat)
    BY NatLessThanWellFounded, Zenon
<1> HIDE DEF T, Less
<1>4. PICK x \in T : \A y \in T : ~(<<y, x>> \in Less)
    BY <1>1, <1>3, WFMin
<1> USE DEF T
<1>5. PICK n \in S : x = B - n
    OBVIOUS
<1>6. ASSUME NEW k \in S PROVE k <= n
  <2>1. B - k \in T /\ B - k \in Nat /\ x \in Nat
    OBVIOUS
  <2>2. ~(B - k < x)
    BY <1>2, <1>4, <2>1
  <2> QED
    BY <1>5, <2>1, <2>2
<1>7. \E m \in S : \A k \in S : k <= m
    BY <1>6
<1> QED
    BY <1>7 DEF Highest

(* The number that is given out next, as allocate_anchor_id computes it.   *)
NextNumber(p) == Highest({authority.next[p], Highest(Numbers(p)) + 1})

LEMMA NextNumberIs ==
    ASSUME CanonTypeOK, NumbersInv, NEW p \in Prefixes
    PROVE  NextNumber(p) \in Nat \ {0} /\ authority.next[p] <= NextNumber(p)
<1>1. authority.next[p] \in 1 .. MaxNumber + 1
    BY DEF CanonTypeOK, Authorities
<1>2. Numbers(p) \subseteq 0 .. MaxNumber /\ 0 \in Numbers(p)
  <2>1. "char" \notin Prefixes
    BY DEF Prefixes
  <2>2. \A x \in Ids : x[1] = p => x[2] \in 1 .. MaxNumber
    BY <2>1 DEF Ids, Character
  <2> QED
    BY <2>2 DEF Numbers, CanonTypeOK
<1>3. Highest(Numbers(p)) \in 0 .. MaxNumber
    BY <1>2, HighestIs
<1> DEFINE a == authority.next[p]
           b == Highest(Numbers(p)) + 1
<1>4. b \in 1 .. MaxNumber + 1
    BY <1>3
<1> HIDE DEF b, a
<1>5. {a, b} \subseteq 0 .. MaxNumber + 1 /\ {a, b} # {}
    BY <1>1, <1>4 DEF a
<1>6. MaxNumber + 1 \in Nat
    OBVIOUS
<1>7. Highest({a, b}) \in {a, b} /\ \A k \in {a, b} : k <= Highest({a, b})
    BY <1>5, <1>6, HighestIs
<1> QED
    BY <1>1, <1>4, <1>7 DEF NextNumber, a, b

LEMMA StepTyped ==
    ASSUME CanonTypeOK, op # Idle
    PROVE  /\ op \in [at : {"write", "close", "resolve"}, item : 0 .. MaxItems, id : Ids,
                      claim : Claims, closes : BOOLEAN]
           /\ op.at \in {"write", "close", "resolve"} /\ op.item \in 0 .. MaxItems
           /\ op.id \in Ids /\ op.claim \in Claims /\ op.closes \in BOOLEAN
    BY DEF CanonTypeOK, Steps

LEMMA NotIdle == op.at # "idle" => op # Idle
    BY DEF Idle

LEMMA IdTypes ==
    /\ Character \in Ids /\ ~Numbered(Character)
    /\ \A id \in Ids : Numbered(id) => id[1] \in Prefixes /\ id[2] \in 1 .. MaxNumber
    /\ \A id \in Ids : ~Numbered(id) => id = Character
    /\ \A p \in Prefixes, n \in 1 .. MaxNumber :
          <<p, n>> \in Ids /\ Numbered(<<p, n>>) /\ <<p, n>> # Character
<1>1. "char" \notin Prefixes
    BY DEF Prefixes
<1> QED
    BY <1>1 DEF Ids, Numbered, Character

LEMMA CanonInitInv == CanonInit => CanonInv /\ AnswersInv
<1> SUFFICES ASSUME CanonInit PROVE CanonInv /\ AnswersInv
    OBVIOUS
<1> USE DEF CanonInit
<1>1. DOMAIN canon = {} /\ op = Idle /\ DOMAIN queue = {} /\ DOMAIN saved = {}
    OBVIOUS
<1>2. authority \in Authorities /\ recorded \in Authorities
    BY DEF Authorities
<1>3. CanonTypeOK
    BY <1>1, <1>2 DEF CanonTypeOK, Steps
<1>4. NumbersInv
  <2>1. \A p \in Prefixes : recorded.next[p] = 1 /\ authority.next[p] = 1
    OBVIOUS
  <2> QED
    BY <1>1, <2>1 DEF NumbersInv, UsedIds
<1>5. OpInv /\ ClosureIsAuthors /\ KeptInv /\ SaidOnce
    BY <1>1 DEF OpInv, ClosureIsAuthors, KeptInv, SaidOnce, Statements
<1>6. AnswersInv
    BY <1>1 DEF AnswersInv, AcceptedIn
<1> QED
    BY <1>3, <1>4, <1>5, <1>6 DEF CanonInv

-----------------------------------------------------------------------------
(* The handlers that change the queue, and nothing else but what the       *)
(* author is told.                                                         *)
LEMMA QueueStepInv ==
    ASSUME CanonInv, NEW q \in Seq(Items), NEW ok \in BOOLEAN, SaveQueue(q, ok),
           Len(queue) <= Len(q), Len(q) <= MaxItems,
           op' = Idle, UNCHANGED <<canon, authority, recorded, written, closed>>,
           answered' \subseteq Claims, kept' \subseteq Ids \X Claims, asShown' \subseteq 1 .. MaxItems,
           \A k \in kept' : States(k[1], k[2])
    PROVE  CanonInv'
<1>1. queue' = q /\ saved' \in {saved, q} /\ faults' \in 0 .. MaxFaults
    BY DEF SaveQueue, Fault, CanonInv, CanonTypeOK
<1>2. CanonTypeOK'
    BY <1>1 DEF CanonInv, CanonTypeOK, Steps
<1>3. NumbersInv'
    BY DEF CanonInv, NumbersInv, UsedIds, GivenOut
<1>4. OpInv' /\ ClosureIsAuthors' /\ SaidOnce'
    BY DEF CanonInv, OpInv, ClosureIsAuthors, SaidOnce, Statements, Idle
<1>5. KeptInv'
    BY DEF KeptInv, States, Statements
<1>6. Len(saved') <= Len(queue')
  <2>1. Len(saved) \in Nat /\ Len(queue) \in Nat /\ Len(q) \in Nat
    BY DEF CanonInv, CanonTypeOK
  <2> QED
    BY <1>1, <2>1 DEF CanonInv
<1> QED
    BY <1>2, <1>3, <1>4, <1>5, <1>6 DEF CanonInv

LEMMA PendingTyped ==
    ASSUME CanonTypeOK, NEW i, Pending(i)
    PROVE  i \in 1 .. Len(queue) /\ queue[i] \in Items /\ queue[i].claim \in Claims
<1>1. queue \in Seq(Items)
    BY DEF CanonTypeOK
<1>2. i \in 1 .. Len(queue) /\ queue[i] \in Items
    BY <1>1 DEF Pending
<1> QED
    BY <1>2 DEF Items

(* What an item becomes.                                                   *)
LEMMA ItemSet ==
    ASSUME CanonTypeOK, NEW i \in 1 .. Len(queue), NEW it \in Items
    PROVE  /\ [queue EXCEPT ![i] = it] \in Seq(Items)
           /\ Len([queue EXCEPT ![i] = it]) = Len(queue)
    BY DEF CanonTypeOK

LEMMA ScanInv ==
    ASSUME CanonInv, NEW c \in Claims, Scan(c) PROVE CanonInv'
<1>1. queue \in Seq(Items) /\ Len(queue) < MaxItems
    BY DEF CanonInv, CanonTypeOK, Scan
<1>2. Proposed(c) \in Seq(Items) /\ Len(Proposed(c)) = Len(queue) + 1
  <2>1. [claim |-> c, status |-> "pending", to |-> <<>>] \in Items
    BY DEF Items
  <2> QED
    BY <1>1, <2>1 DEF Proposed
<1>3. PICK ok \in BOOLEAN : SaveQueue(Proposed(c), ok)
    BY DEF Scan
<1>4. /\ op' = Idle /\ UNCHANGED <<canon, authority, recorded, written, closed>>
      /\ answered' = answered /\ kept' = kept /\ asShown' = asShown
    BY DEF Scan, told
<1>5. /\ answered' \subseteq Claims /\ kept' \subseteq Ids \X Claims
      /\ asShown' \subseteq 1 .. MaxItems /\ \A k \in kept' : States(k[1], k[2])
    BY <1>4 DEF CanonInv, CanonTypeOK, KeptInv
<1>6. Len(queue) \in Nat /\ Len(queue) <= Len(Proposed(c)) /\ Len(Proposed(c)) <= MaxItems
    BY <1>1, <1>2
<1> QED
    BY <1>2, <1>3, <1>4, <1>5, <1>6, QueueStepInv

LEMMA UpdateInv ==
    ASSUME CanonInv, NEW i, NEW c \in Claims, Update(i, c) PROVE CanonInv'
<1> DEFINE it == [queue[i] EXCEPT !.claim = c]
           q == [queue EXCEPT ![i] = it]
<1>1. i \in 1 .. Len(queue) /\ queue[i] \in Items
    BY PendingTyped DEF CanonInv, Update
<1>2. it \in Items
    BY <1>1 DEF Items
<1>3. [queue EXCEPT ![i].claim = c] = q
    OBVIOUS
<1>4. q \in Seq(Items) /\ Len(q) = Len(queue)
    BY <1>1, <1>2, ItemSet DEF CanonInv
<1>5. PICK ok \in BOOLEAN : SaveQueue(q, ok)
    BY <1>3 DEF Update
<1>6. /\ op' = Idle /\ UNCHANGED <<canon, authority, recorded, written, closed>>
      /\ answered' = answered /\ kept' = kept /\ asShown' = asShown
    BY DEF Update, told
<1>7. /\ answered' \subseteq Claims /\ kept' \subseteq Ids \X Claims
      /\ asShown' \subseteq 1 .. MaxItems /\ \A k \in kept' : States(k[1], k[2])
    BY <1>6 DEF CanonInv, CanonTypeOK, KeptInv
<1>8. Len(queue) \in Nat /\ Len(queue) <= MaxItems
    BY DEF CanonInv, CanonTypeOK
<1> HIDE DEF q
<1> QED
    BY <1>4, <1>5, <1>6, <1>7, <1>8, QueueStepInv

LEMMA DismissInv ==
    ASSUME CanonInv, NEW i, Dismiss(i) PROVE CanonInv'
<1> DEFINE it == [queue[i] EXCEPT !.status = "dismissed"]
           q == [queue EXCEPT ![i] = it]
<1>1. i \in 1 .. Len(queue) /\ queue[i] \in Items /\ queue[i].claim \in Claims
    BY PendingTyped DEF CanonInv, Dismiss
<1>2. it \in Items
    BY <1>1 DEF Items
<1>3. [queue EXCEPT ![i].status = "dismissed"] = q
    OBVIOUS
<1>4. q \in Seq(Items) /\ Len(q) = Len(queue)
    BY <1>1, <1>2, ItemSet DEF CanonInv
<1>5. PICK ok \in BOOLEAN :
          /\ SaveQueue(q, ok)
          /\ answered' = IF ok THEN answered \cup {queue[i].claim} ELSE answered
    BY <1>3 DEF Dismiss
<1>6. /\ op' = Idle /\ UNCHANGED <<canon, authority, recorded, written, closed, asShown>>
      /\ kept' = kept
    BY DEF Dismiss
<1>7. /\ answered' \subseteq Claims /\ kept' \subseteq Ids \X Claims
      /\ asShown' \subseteq 1 .. MaxItems /\ \A k \in kept' : States(k[1], k[2])
    BY <1>1, <1>5, <1>6 DEF CanonInv, CanonTypeOK, KeptInv
<1>8. Len(queue) \in Nat /\ Len(queue) <= MaxItems
    BY DEF CanonInv, CanonTypeOK
<1> HIDE DEF q
<1> QED
    BY <1>4, <1>5, <1>6, <1>7, <1>8, QueueStepInv

(* The queue after resolve.                                                *)
Resolved(i, id) == [queue EXCEPT ![i].status = "accepted", ![i].to = id]

LEMMA ItemResolved ==
    ASSUME queue \in Seq(Items), NEW i \in 1 .. Len(queue), NEW id \in Ids
    PROVE  \A q : q = Resolved(i, id) =>
           /\ q \in Seq(Items) /\ Len(q) = Len(queue)
           /\ q[i].claim = queue[i].claim /\ q[i].status = "accepted" /\ q[i].to = id
           /\ \A j \in 1 .. Len(queue) : j # i => q[j] = queue[j]
<1> DEFINE one == [queue[i] EXCEPT !.status = "accepted"]
           two == [one EXCEPT !.to = id]
           q == [queue EXCEPT ![i] = two]
<1>1. queue[i] \in Items
    OBVIOUS
<1>2. one \in Items /\ one.claim = queue[i].claim /\ one.status = "accepted"
    BY <1>1 DEF Items
<1> HIDE DEF one
<1>3. two \in Items /\ two.claim = one.claim /\ two.status = one.status /\ two.to = id
    BY <1>2 DEF Items
<1> HIDE DEF two
<1>4. q \in Seq(Items) /\ Len(q) = Len(queue) /\ q[i] = two
      /\ \A j \in 1 .. Len(queue) : j # i => q[j] = queue[j]
    BY <1>3
<1>5. Resolved(i, id) = q
    BY DEF one, two, Resolved
<1> HIDE DEF q
<1> QED
    BY <1>2, <1>3, <1>4, <1>5

LEMMA ResolveInv ==
    ASSUME CanonInv, Resolve PROVE CanonInv'
<1> DEFINE q == Resolved(op.item, op.id)
<1>1. op # Idle /\ op.at = "resolve"
    BY NotIdle DEF Resolve
<1>2. op.id \in Ids /\ op.claim \in Claims
    BY <1>1, StepTyped DEF CanonInv
<1>3. States(op.id, op.claim) /\ Pending(op.item)
    BY <1>1 DEF CanonInv, OpInv
<1>4. op.item \in 1 .. Len(queue) /\ queue \in Seq(Items) /\ Len(queue) <= MaxItems /\ Len(queue) \in Nat
    BY <1>3, PendingTyped DEF CanonInv, CanonTypeOK
<1>5. q \in Seq(Items) /\ Len(q) = Len(queue)
    BY <1>2, <1>4, ItemResolved
<1> HIDE DEF q
<1>6. PICK ok \in BOOLEAN :
          /\ SaveQueue(q, ok)
          /\ answered' = IF ok /\ AsQueued THEN answered \cup {op.claim} ELSE answered
          /\ asShown' = IF AsQueued THEN asShown ELSE asShown \cup {op.item}
          /\ kept' = IF ok THEN kept \cup {<<op.id, op.claim>>} ELSE kept
    BY DEF Resolve, Resolved, q
<1>7. op' = Idle /\ UNCHANGED <<canon, authority, recorded, written, closed>>
    BY DEF Resolve
<1>8. answered' \subseteq Claims /\ kept' \subseteq Ids \X Claims /\ asShown' \subseteq 1 .. MaxItems
  <2>1. asShown \subseteq 1 .. MaxItems /\ op.item \in 1 .. MaxItems
    BY <1>4 DEF CanonInv, CanonTypeOK
  <2>2. asShown' \subseteq 1 .. MaxItems
    BY <1>6, <2>1
  <2>3. answered' \subseteq Claims /\ kept' \subseteq Ids \X Claims
    BY <1>2, <1>6 DEF CanonInv, CanonTypeOK
  <2> QED
    BY <2>2, <2>3
<1>9. \A k \in kept' : States(k[1], k[2])
    BY <1>3, <1>6 DEF CanonInv, KeptInv
<1> QED
    BY <1>4, <1>5, <1>6, <1>7, <1>8, <1>9, QueueStepInv

-----------------------------------------------------------------------------
(* The handlers that give out a number.                                    *)
LEMMA AllocateDoes ==
    ASSUME CanonTypeOK, NumbersInv, NEW p \in Prefixes, NEW step, Allocate(p, step)
    PROVE  LET n == NextNumber(p) IN
           /\ n \in 1 .. MaxNumber /\ authority.next[p] <= n
           /\ authority' \in Authorities /\ authority'.closures = authority.closures
           /\ authority'.next[p] = n + 1
           /\ \A x \in Prefixes : x # p => authority'.next[x] = authority.next[x]
           /\ \/ recorded' = authority' /\ op' = [step EXCEPT !.id = <<p, n>>]
              \/ recorded' = recorded /\ op' = Idle
           /\ faults' \in 0 .. MaxFaults
<1> DEFINE n == NextNumber(p)
<1>1. n \in Nat \ {0} /\ authority.next[p] <= n
    BY NextNumberIs
<1>2. /\ n <= MaxNumber
      /\ \E ok \in BOOLEAN :
            /\ SaveAuthority([authority EXCEPT !.next[p] = n + 1], ok)
            /\ op' = IF ok THEN [step EXCEPT !.id = <<p, n>>] ELSE Idle
    BY DEF Allocate, NextNumber
<1> HIDE DEF n
<1>3. PICK ok \in BOOLEAN :
            /\ SaveAuthority([authority EXCEPT !.next[p] = n + 1], ok)
            /\ op' = IF ok THEN [step EXCEPT !.id = <<p, n>>] ELSE Idle
    BY <1>2
<1>4. authority' = [authority EXCEPT !.next[p] = n + 1]
    BY <1>3 DEF SaveAuthority
<1>5. authority \in Authorities /\ n + 1 \in 1 .. MaxNumber + 1
    BY <1>1, <1>2 DEF CanonTypeOK
<1>6. authority' \in Authorities /\ authority'.closures = authority.closures
      /\ authority'.next = [authority.next EXCEPT ![p] = n + 1]
    BY <1>4, <1>5 DEF Authorities
<1>7. authority'.next[p] = n + 1
      /\ \A x \in Prefixes : x # p => authority'.next[x] = authority.next[x]
    BY <1>5, <1>6 DEF Authorities
<1>8. \/ recorded' = authority' /\ op' = [step EXCEPT !.id = <<p, n>>]
      \/ recorded' = recorded /\ op' = Idle
    BY <1>3 DEF SaveAuthority
<1>9. faults' \in 0 .. MaxFaults
    BY <1>3 DEF SaveAuthority, Fault, CanonTypeOK
<1> QED
    BY <1>1, <1>2, <1>6, <1>7, <1>8, <1>9 DEF n

LEMMA AllocateInv ==
    ASSUME CanonInv, NEW p \in Prefixes, NEW i \in 0 .. MaxItems, NEW c \in Claims,
           NEW closes \in BOOLEAN, i # 0 => Pending(i),
           Allocate(p, Write(i, c, closes)),
           UNCHANGED <<canon, queue, saved, told>>
    PROVE  CanonInv'
<1>1. PICK n \in Int :
      /\ n \in 1 .. MaxNumber /\ authority.next[p] <= n
      /\ authority' \in Authorities /\ authority'.closures = authority.closures
      /\ authority'.next[p] = n + 1
      /\ \A x \in Prefixes : x # p => authority'.next[x] = authority.next[x]
      /\ \/ recorded' = authority' /\ op' = [Write(i, c, closes) EXCEPT !.id = <<p, n>>]
         \/ recorded' = recorded /\ op' = Idle
      /\ faults' \in 0 .. MaxFaults
    BY AllocateDoes DEF CanonInv
<1> DEFINE new == [at |-> "write", item |-> i, id |-> <<p, n>>, claim |-> c, closes |-> closes]
<1>2. [Write(i, c, closes) EXCEPT !.id = <<p, n>>] = new
    BY DEF Write
<1>3. /\ <<p, n>> \in Ids /\ Numbered(<<p, n>>)
    BY <1>1, IdTypes
<1>4. UNCHANGED <<answered, kept, written, closed, asShown>>
    BY DEF told
<1>5. \A x \in Prefixes : recorded.next[x] \in Nat /\ authority.next[x] \in Nat /\ recorded.next[x] <= authority.next[x]
    BY DEF CanonInv, CanonTypeOK, Authorities, NumbersInv
<1>6. \A x \in Prefixes : /\ recorded.next[x] <= recorded'.next[x]
                          /\ recorded'.next[x] <= authority'.next[x]
    <2>1. \A x \in Prefixes : authority.next[x] <= authority'.next[x]
      BY <1>1, <1>5
    <2>2. \A x \in Prefixes : authority'.next[x] \in Nat
      BY <1>1 DEF Authorities
    <2> QED
      BY <1>1, <1>5, <2>1, <2>2
<1>7. UsedIds' \subseteq UsedIds
    BY <1>1, <1>4 DEF UsedIds
<1>8. CanonTypeOK'
  <2>1. op' \in Steps
    BY <1>1, <1>2, <1>3 DEF Steps
  <2> QED
    BY <1>1, <1>4, <2>1 DEF CanonInv, CanonTypeOK
<1>9. \A id \in Ids : GivenOut(id) => GivenOut(id)'
  <2> SUFFICES ASSUME NEW id \in Ids, Numbered(id), id[2] < recorded.next[id[1]]
               PROVE  id[2] < recorded'.next[id[1]]
    BY DEF GivenOut
  <2>1. id[1] \in Prefixes /\ id[2] \in Nat
    BY IdTypes
  <2>2. recorded'.next[id[1]] \in Nat
    BY <1>8, <2>1 DEF CanonTypeOK, Authorities
  <2>3. recorded.next[id[1]] \in Nat /\ recorded.next[id[1]] <= recorded'.next[id[1]]
    BY <1>5, <1>6, <2>1
  <2>4. \A j, k, l \in Nat : j < k /\ k <= l => j < l
    OBVIOUS
  <2> QED
    BY <2>1, <2>2, <2>3, <2>4
<1>10. UsedIds \subseteq Ids
    BY DEF UsedIds, CanonInv, CanonTypeOK, Authorities
<1>11. NumbersInv'
    BY <1>1, <1>6, <1>7, <1>9, <1>10 DEF CanonInv, NumbersInv
<1>12. OpInv'
  <2>1. CASE op' = Idle
    BY <2>1 DEF OpInv
  <2>2. CASE op' = new /\ recorded' = authority'
    <3>1. GivenOut(<<p, n>>)'
      BY <1>1, <2>2 DEF GivenOut
    <3>2. <<p, n>> \notin UsedIds
      <4>1. ~GivenOut(<<p, n>>)
        BY <1>1, <1>3, <1>5 DEF GivenOut
      <4> QED
        BY <4>1 DEF CanonInv, NumbersInv
    <3>3. i # 0 => Pending(i)'
      BY DEF Pending
    <3> QED
      BY <1>3, <1>7, <2>2, <3>1, <3>2, <3>3 DEF OpInv
  <2> QED
    BY <1>1, <1>2, <2>1, <2>2
<1>13. ClosureIsAuthors' /\ KeptInv' /\ SaidOnce' /\ Len(saved') <= Len(queue')
    BY <1>1, <1>4 DEF CanonInv, ClosureIsAuthors, KeptInv, SaidOnce, States, Statements
<1> QED
    BY <1>8, <1>11, <1>12, <1>13 DEF CanonInv

LEMMA AcceptRuleInv ==
    ASSUME CanonInv, NEW i \in 1 .. MaxItems, NEW c \in Claims, NEW closes \in BOOLEAN,
           AcceptRule(i, c, closes)
    PROVE  CanonInv'
<1>1. "rule" \in Prefixes /\ i \in 0 .. MaxItems /\ (i # 0 => Pending(i))
    BY DEF Prefixes, AcceptRule
<1>2. Allocate("rule", Write(i, c, closes)) /\ UNCHANGED <<canon, queue, saved, told>>
    BY DEF AcceptRule
<1> QED
    BY <1>1, <1>2, AllocateInv

LEMMA AddRuleInv ==
    ASSUME CanonInv, NEW p \in Typed, NEW c \in RuleClaims, NEW closes \in BOOLEAN,
           AddRule(p, c, closes)
    PROVE  CanonInv'
<1>1. p \in Prefixes /\ c \in Claims /\ 0 \in 0 .. MaxItems
    BY DEF Prefixes, Claims
<1>2. Allocate(p, Write(0, c, closes)) /\ UNCHANGED <<canon, queue, saved, told>>
    BY DEF AddRule
<1> QED
    BY <1>1, <1>2, AllocateInv

LEMMA AcceptCharacterInv ==
    ASSUME CanonInv, NEW i \in 1 .. MaxItems, NEW c \in Claims, AcceptCharacter(i, c)
    PROVE  CanonInv'
<1>1. op' = [at |-> "write", item |-> i, id |-> Character, claim |-> c, closes |-> FALSE]
    BY DEF AcceptCharacter, Write
<1>2. UNCHANGED <<canon, queue, saved, authority, recorded, faults, answered, kept, written, closed,
               asShown>>
    BY DEF AcceptCharacter, told
<1>3. CanonTypeOK'
  <2>1. op' \in Steps
    BY <1>1, IdTypes DEF Steps
  <2> QED
    BY <1>2, <2>1 DEF CanonInv, CanonTypeOK
<1>4. OpInv'
  <2>1. Pending(i)'
    BY <1>2 DEF AcceptCharacter, Pending
  <2>2. GivenOut(Character)'
    BY IdTypes DEF GivenOut, Numbered
  <2> QED
    BY <1>1, <2>1, <2>2, IdTypes DEF OpInv
<1>5. NumbersInv'
    BY <1>2 DEF CanonInv, NumbersInv, UsedIds, GivenOut
<1>6. ClosureIsAuthors' /\ KeptInv' /\ SaidOnce' /\ Len(saved') <= Len(queue')
    BY <1>2 DEF CanonInv, ClosureIsAuthors, KeptInv, SaidOnce, States, Statements
<1> QED
    BY <1>3, <1>4, <1>5, <1>6 DEF CanonInv

-----------------------------------------------------------------------------
(* The handlers that write the registry.                                   *)
Texts == Seq(Claims \cup {Profile})

LEMMA StatementsTyped ==
    ASSUME CanonTypeOK, NEW id
    PROVE  /\ Statements(id) \in Texts
           /\ \A c : States(id, c) <=> \E i \in DOMAIN Statements(id) : Statements(id)[i] = c
           /\ \A c : States(id, c) => id \in DOMAIN canon
<1>1. CASE id \in DOMAIN canon
    BY <1>1 DEF Statements, States, CanonTypeOK, Texts
<1>2. CASE id \notin DOMAIN canon
  <2>1. Statements(id) = <<>> /\ DOMAIN <<>> = {}
    BY <1>2 DEF Statements
  <2> QED
    BY <2>1 DEF States, Texts
<1> QED
    BY <1>1, <1>2

(* A new text under one id: the other statements stay.                     *)
LEMMA RegisteredDoes ==
    ASSUME NEW id, NEW text, canon' = Registered(id, text)
    PROVE  /\ DOMAIN canon' = DOMAIN canon \cup {id} /\ canon'[id] = text
           /\ \A x \in DOMAIN canon : x # id => canon'[x] = canon[x]
           /\ Statements(id)' = text
           /\ \A x : x # id => Statements(x)' = Statements(x)
           /\ \A x, c : x # id => (States(x, c)' <=> States(x, c))
           /\ \A c : States(id, c)' <=> \E i \in DOMAIN text : text[i] = c
<1>1. /\ DOMAIN canon' = DOMAIN canon \cup {id} /\ canon'[id] = text
      /\ \A x \in DOMAIN canon : x # id => canon'[x] = canon[x]
    BY DEF Registered
<1>2. ASSUME NEW x, x # id
      PROVE  Statements(x)' = Statements(x) /\ \A c : States(x, c)' <=> States(x, c)
  <2>1. Statements(x)' = Statements(x)
    BY <1>1, <1>2 DEF Statements
  <2>2. CASE x \in DOMAIN canon
    BY <1>1, <1>2, <2>1, <2>2 DEF States
  <2>3. CASE x \notin DOMAIN canon
    <3>1. DOMAIN Statements(x) = {} /\ DOMAIN Statements(x)' = {}
      BY <2>1, <2>3 DEF Statements
    <3> QED
      BY <2>1, <3>1 DEF States
  <2> QED
    BY <2>1, <2>2, <2>3
<1>3. Statements(id)' = text
    BY <1>1 DEF Statements
<1>4. \A c : States(id, c)' <=> \E i \in DOMAIN text : text[i] = c
    BY <1>1, <1>3 DEF States
<1> QED
    BY <1>1, <1>2, <1>3, <1>4

LEMMA AppendOnce ==
    ASSUME NEW text \in Texts, NEW c \in Claims, \A i \in DOMAIN text : text[i] # c
    PROVE  /\ Append(text, c) \in Texts
           /\ \E i \in DOMAIN Append(text, c) : Append(text, c)[i] = c
           /\ \A d : (\E i \in DOMAIN text : text[i] = d) =>
                     \E i \in DOMAIN Append(text, c) : Append(text, c)[i] = d
           /\ (\A i, j \in DOMAIN text : text[i] = text[j] => i = j) =>
              \A i, j \in DOMAIN Append(text, c) :
                  Append(text, c)[i] = Append(text, c)[j] => i = j
<1>1. /\ Append(text, c) \in Texts /\ DOMAIN text = 1 .. Len(text) /\ Len(text) \in Nat
      /\ DOMAIN Append(text, c) = 1 .. Len(text) + 1
      /\ Append(text, c)[Len(text) + 1] = c
      /\ \A i \in DOMAIN text : Append(text, c)[i] = text[i]
    BY DEF Texts
<1>2. \A i \in 1 .. Len(text) + 1 : i = Len(text) + 1 \/ i \in DOMAIN text
    BY <1>1
<1>3. Len(text) + 1 \in DOMAIN Append(text, c) /\ DOMAIN text \subseteq DOMAIN Append(text, c)
    BY <1>1
<1> HIDE DEF Texts
<1>4. \A i, j \in DOMAIN Append(text, c) :
        (\A x, y \in DOMAIN text : text[x] = text[y] => x = y) /\
        Append(text, c)[i] = Append(text, c)[j] => i = j
    BY <1>1, <1>2
<1> QED
    BY <1>1, <1>3, <1>4

(* What WriteCanon registers: what was there, and the claim.               *)
LEMMA WrittenText ==
    ASSUME CanonTypeOK, SaidOnce, NEW id, NEW c \in Claims
    PROVE  \E text \in Texts :
              /\ text = IF States(id, c) THEN canon[id] ELSE Append(Statements(id), c)
              /\ \E i \in DOMAIN text : text[i] = c
              /\ \A d : States(id, d) => \E i \in DOMAIN text : text[i] = d
              /\ id = Character => \A i, j \in DOMAIN text : text[i] = text[j] => i = j
<1>1. Statements(id) \in Texts
      /\ \A d : States(id, d) <=> \E i \in DOMAIN Statements(id) : Statements(id)[i] = d
    BY StatementsTyped
<1>2. id = Character =>
         \A i, j \in DOMAIN Statements(id) : Statements(id)[i] = Statements(id)[j] => i = j
    BY DEF SaidOnce, Statements
<1>3. CASE States(id, c)
  <2>1. canon[id] = Statements(id)
    BY <1>3, StatementsTyped DEF Statements
  <2> QED
    BY <1>1, <1>2, <1>3, <2>1
<1>4. CASE ~States(id, c)
  <2> DEFINE old == Statements(id)
  <2>1. \A i \in DOMAIN old : old[i] # c
    BY <1>1, <1>4
  <2> HIDE DEF old
  <2>2. old \in Texts
    BY <1>1 DEF old
  <2>3. /\ Append(old, c) \in Texts
        /\ \E i \in DOMAIN Append(old, c) : Append(old, c)[i] = c
        /\ \A d : (\E i \in DOMAIN old : old[i] = d) =>
                     \E i \in DOMAIN Append(old, c) : Append(old, c)[i] = d
        /\ (\A i, j \in DOMAIN old : old[i] = old[j] => i = j) =>
              \A i, j \in DOMAIN Append(old, c) : Append(old, c)[i] = Append(old, c)[j] => i = j
    BY <2>1, <2>2, AppendOnce
  <2> QED
    BY <1>1, <1>2, <1>4, <2>3 DEF old
<1> QED
    BY <1>3, <1>4

(* A write of the registry that fails changes nothing but the handler.     *)
LEMMA GivenUp ==
    ASSUME CanonInv, op' = Idle, faults' \in 0 .. MaxFaults,
           UNCHANGED <<canon, queue, saved, authority, recorded, answered, kept, written, closed, asShown>>
    PROVE  CanonInv'
<1>1. CanonTypeOK'
    BY DEF CanonInv, CanonTypeOK, Steps
<1>2. NumbersInv' /\ OpInv'
    BY DEF CanonInv, NumbersInv, UsedIds, GivenOut, OpInv
<1>3. ClosureIsAuthors' /\ KeptInv' /\ SaidOnce' /\ Len(saved') <= Len(queue')
    BY DEF CanonInv, ClosureIsAuthors, KeptInv, SaidOnce, States, Statements
<1> QED
    BY <1>1, <1>2, <1>3 DEF CanonInv

LEMMA FaultsTyped ==
    ASSUME CanonInv, NEW ok \in BOOLEAN, NEW c,
           SaveCanon(c, ok) \/ SaveAuthority(c, ok) \/ SaveQueue(c, ok) \/ Fault
    PROVE  faults' \in 0 .. MaxFaults
    BY DEF SaveCanon, SaveAuthority, SaveQueue, Fault, CanonInv, CanonTypeOK

LEMMA WriteCanonInv ==
    ASSUME CanonInv, WriteCanon PROVE CanonInv'
<1>1. op # Idle /\ op.at = "write"
    BY NotIdle DEF WriteCanon
<1>2. PICK id \in Ids, c \in Claims, closes \in BOOLEAN, i \in 0 .. MaxItems :
          op = [at |-> "write", item |-> i, id |-> id, claim |-> c, closes |-> closes]
    BY <1>1, StepTyped DEF CanonInv
<1>3. /\ GivenOut(id)
      /\ Numbered(id) => id \notin UsedIds
      /\ closes => Numbered(id)
      /\ i # 0 => Pending(i)
    BY <1>1, <1>2 DEF CanonInv, OpInv
<1>4. PICK text \in Texts :
          /\ text = IF States(id, c) THEN canon[id] ELSE Append(Statements(id), c)
          /\ \E j \in DOMAIN text : text[j] = c
          /\ \A d : States(id, d) => \E j \in DOMAIN text : text[j] = d
          /\ id = Character => \A j, k \in DOMAIN text : text[j] = text[k] => j = k
    BY WrittenText DEF CanonInv
<1>5. PICK ok \in BOOLEAN :
          /\ SaveCanon(Registered(id, text), ok)
          /\ op' = IF ~ok THEN Idle
                   ELSE IF closes THEN [op EXCEPT !.at = "close"]
                   ELSE IF i # 0 THEN [op EXCEPT !.at = "resolve"] ELSE Idle
          /\ written' = IF ok THEN written \cup {<<id, c>>} ELSE written
          /\ kept' = IF ok /\ op' = Idle THEN kept \cup {<<id, c>>} ELSE kept
    BY <1>2, <1>4 DEF WriteCanon
<1>6. UNCHANGED <<queue, saved, authority, recorded, answered, closed, asShown>>
    BY DEF WriteCanon
<1>7. faults' \in 0 .. MaxFaults
    BY <1>5, FaultsTyped
<1>8. CASE ~ok
  <2>1. canon' = canon /\ op' = Idle /\ written' = written /\ kept' = kept
    BY <1>5, <1>8 DEF SaveCanon
  <2> QED
    BY <1>6, <1>7, <2>1, GivenUp
<1>9. CASE ok
  <2>1. canon' = Registered(id, text) /\ written' = written \cup {<<id, c>>}
        /\ kept' \subseteq kept \cup {<<id, c>>}
    BY <1>5, <1>9 DEF SaveCanon
  <2>2. /\ DOMAIN canon' = DOMAIN canon \cup {id} /\ canon'[id] = text
        /\ \A x \in DOMAIN canon : x # id => canon'[x] = canon[x]
        /\ Statements(id)' = text
        /\ \A x : x # id => Statements(x)' = Statements(x)
        /\ \A x, d : x # id => (States(x, d)' <=> States(x, d))
        /\ \A d : States(id, d)' <=> \E j \in DOMAIN text : text[j] = d
    BY <2>1, RegisteredDoes
  <2>3. \/ op' = Idle
        \/ op' = [at |-> "close", item |-> i, id |-> id, claim |-> c, closes |-> closes] /\ closes
        \/ op' = [at |-> "resolve", item |-> i, id |-> id, claim |-> c, closes |-> closes] /\ i # 0
    BY <1>2, <1>5
  <2>4. CanonTypeOK'
    <3>1. op' \in Steps
      BY <2>3 DEF Steps
    <3>2. DOMAIN canon' \subseteq Ids /\ \A x \in DOMAIN canon' : canon'[x] \in Seq(Claims \cup {Profile})
      BY <2>2 DEF CanonInv, CanonTypeOK, Texts
    <3>3. kept' \cup written' \subseteq Ids \X Claims
      BY <2>1 DEF CanonInv, CanonTypeOK
    <3> QED
      BY <1>6, <1>7, <3>1, <3>2, <3>3 DEF CanonInv, CanonTypeOK
  <2>5. UsedIds' = UsedIds \cup {id}
    <3>1. {w[1] : w \in written'} = {w[1] : w \in written} \cup {id}
      <4>1. <<id, c>> \in written' /\ <<id, c>>[1] = id
        BY <2>1
      <4>2. \A w \in written' : w \in written \/ w[1] = id
        BY <2>1
      <4>3. written \subseteq written'
        BY <2>1
      <4> QED
        BY <4>1, <4>2, <4>3
    <3> QED
      BY <1>6, <2>2, <3>1 DEF UsedIds
  <2>6. NumbersInv'
    BY <1>3, <1>6, <2>5 DEF CanonInv, NumbersInv, GivenOut
  <2>7. States(id, c)'
    BY <1>4, <2>2
  <2>8. OpInv'
    <3>1. i # 0 => Pending(i)'
      BY <1>3, <1>6 DEF Pending
    <3>2. GivenOut(id)'
      BY <1>3, <1>6 DEF GivenOut
    <3>3. <<id, c>> \in written'
      BY <2>1
    <3> QED
      BY <1>3, <2>3, <2>7, <3>1, <3>2, <3>3 DEF OpInv
  <2>9. ClosureIsAuthors'
    <3>1. id \notin authority.closures \cup recorded.closures
      BY <1>3 DEF CanonInv, NumbersInv, UsedIds
    <3> QED
      BY <1>6, <2>2, <3>1 DEF CanonInv, ClosureIsAuthors
  <2>10. KeptInv'
    <3> SUFFICES ASSUME NEW k \in kept' PROVE States(k[1], k[2])'
      BY DEF KeptInv
    <3>1. CASE k = <<id, c>>
      BY <2>7, <3>1
    <3>2. CASE k \in kept
      <4>1. States(k[1], k[2])
        BY <3>2 DEF CanonInv, KeptInv
      <4> QED
        BY <1>4, <2>2, <4>1
    <3> QED
      BY <2>1, <3>1, <3>2
  <2>11. SaidOnce'
    <3>1. CASE id = Character
      BY <1>4, <2>2, <3>1 DEF SaidOnce, Character
    <3>2. CASE id # Character
      <4>1. Statements(Character)' = Statements(Character)
        BY <2>2, <3>2
      <4>2. Character \in DOMAIN canon => canon'[Character] = canon[Character]
        BY <2>2, <3>2
      <4>3. Character \notin DOMAIN canon => DOMAIN Statements(Character) = {}
        BY DEF Statements
      <4> QED
        BY <4>1, <4>2, <4>3 DEF CanonInv, SaidOnce, Character
    <3> QED
      BY <3>1, <3>2
  <2>12. Len(saved') <= Len(queue')
    BY <1>6 DEF CanonInv
  <2> QED
    BY <2>4, <2>6, <2>8, <2>9, <2>10, <2>11, <2>12 DEF CanonInv
<1> QED
    BY <1>8, <1>9

LEMMA CloseInv ==
    ASSUME CanonInv, Close PROVE CanonInv'
<1>1. op # Idle /\ op.at = "close"
    BY NotIdle DEF Close
<1>2. PICK id \in Ids, c \in Claims, closes \in BOOLEAN, i \in 0 .. MaxItems :
          op = [at |-> "close", item |-> i, id |-> id, claim |-> c, closes |-> closes]
    BY <1>1, StepTyped DEF CanonInv
<1>3. /\ GivenOut(id) /\ Numbered(id)
      /\ States(id, c) /\ <<id, c>> \in written
      /\ i # 0 => Pending(i)
    BY <1>1, <1>2 DEF CanonInv, OpInv
<1> DEFINE a == [authority EXCEPT !.closures = @ \cup {id}]
<1>4. PICK ok \in BOOLEAN :
          /\ SaveAuthority(a, ok)
          /\ op' = IF ok /\ i # 0 THEN [op EXCEPT !.at = "resolve"] ELSE Idle
          /\ kept' = IF ok /\ i = 0 THEN kept \cup {<<id, c>>} ELSE kept
    BY <1>2 DEF Close
<1>5. UNCHANGED <<canon, queue, saved, answered, written, asShown>> /\ closed' = closed \cup {id}
    BY <1>2 DEF Close
<1>6. faults' \in 0 .. MaxFaults
    BY <1>4, FaultsTyped
<1>7. a \in Authorities /\ a.closures = authority.closures \cup {id} /\ a.next = authority.next
    BY DEF CanonInv, CanonTypeOK, Authorities
<1> HIDE DEF a
<1>8. authority' = a /\ (recorded' = a \/ recorded' = recorded)
    BY <1>4 DEF SaveAuthority
<1>9. \/ op' = Idle
      \/ op' = [at |-> "resolve", item |-> i, id |-> id, claim |-> c, closes |-> closes] /\ i # 0
    BY <1>2, <1>4
<1>10. CanonTypeOK'
  <2>1. op' \in Steps
    BY <1>9 DEF Steps
  <2>2. kept' \cup written' \subseteq Ids \X Claims /\ closed' \subseteq Ids
    BY <1>4, <1>5 DEF CanonInv, CanonTypeOK
  <2>3. {authority', recorded'} \subseteq Authorities
    BY <1>7, <1>8 DEF CanonInv, CanonTypeOK
  <2> QED
    BY <1>5, <1>6, <2>1, <2>2, <2>3 DEF CanonInv, CanonTypeOK
<1>11. \A p \in Prefixes : /\ recorded.next[p] <= recorded'.next[p]
                           /\ recorded'.next[p] <= authority'.next[p]
  <2>1. \A p \in Prefixes : recorded.next[p] \in Nat /\ authority.next[p] \in Nat
    BY DEF CanonInv, CanonTypeOK, Authorities
  <2> QED
    BY <1>7, <1>8, <2>1 DEF CanonInv, NumbersInv
<1>12. \A x \in Ids : GivenOut(x) => GivenOut(x)'
  <2> SUFFICES ASSUME NEW x \in Ids, Numbered(x), x[2] < recorded.next[x[1]]
               PROVE  x[2] < recorded'.next[x[1]]
    BY DEF GivenOut
  <2>1. x[1] \in Prefixes /\ x[2] \in Nat
    BY IdTypes
  <2>2. recorded'.next[x[1]] \in Nat /\ recorded.next[x[1]] \in Nat
    BY <1>10, <2>1 DEF CanonInv, CanonTypeOK, Authorities
  <2> QED
    BY <1>11, <2>1, <2>2
<1>13. UsedIds' \subseteq UsedIds \cup {id} /\ UsedIds \subseteq Ids
    BY <1>5, <1>7, <1>8 DEF UsedIds, CanonInv, CanonTypeOK, Authorities
<1>14. NumbersInv'
    BY <1>3, <1>7, <1>8, <1>11, <1>12, <1>13 DEF CanonInv, NumbersInv
<1>15. OpInv'
  <2>1. i # 0 => Pending(i)'
    BY <1>3, <1>5 DEF Pending
  <2>2. GivenOut(id)' /\ States(id, c)' /\ <<id, c>> \in written'
    BY <1>3, <1>5, <1>12 DEF States, Statements
  <2> QED
    BY <1>3, <1>9, <2>1, <2>2 DEF OpInv
<1>16. ClosureIsAuthors'
    BY <1>5, <1>7, <1>8 DEF CanonInv, ClosureIsAuthors
<1>17. KeptInv'
    BY <1>3, <1>4, <1>5 DEF CanonInv, KeptInv, States, Statements
<1>18. SaidOnce' /\ Len(saved') <= Len(queue')
    BY <1>5 DEF CanonInv, SaidOnce, Statements
<1> QED
    BY <1>10, <1>14, <1>15, <1>16, <1>17, <1>18 DEF CanonInv

LEMMA AddCharacterInv ==
    ASSUME CanonInv, AddCharacter PROVE CanonInv'
<1> DEFINE text == <<Profile>>
<1>1. PICK ok \in BOOLEAN :
          /\ SaveCanon(Registered(Character, text), ok)
          /\ kept' = Undone(Character, ok)
    BY DEF AddCharacter
<1>2. UNCHANGED <<queue, saved, authority, recorded, op, answered, written, closed, asShown>> /\ op' = Idle
    BY DEF AddCharacter
<1>3. faults' \in 0 .. MaxFaults
    BY <1>1, FaultsTyped
<1>4. CASE ~ok
  <2>1. canon' = canon /\ kept' = kept
    BY <1>1, <1>4 DEF SaveCanon, Undone
  <2> QED
    BY <1>2, <1>3, <2>1, GivenUp
<1>5. CASE ok
  <2>1. canon' = Registered(Character, text) /\ kept' = {k \in kept : k[1] # Character}
    BY <1>1, <1>5 DEF SaveCanon, Undone
  <2>2. text \in Seq(Claims \cup {Profile}) /\ Len(text) = 1 /\ DOMAIN text = {1}
    OBVIOUS
  <2> HIDE DEF text
  <2>3. /\ DOMAIN canon' = DOMAIN canon \cup {Character} /\ canon'[Character] = text
        /\ \A x \in DOMAIN canon : x # Character => canon'[x] = canon[x]
        /\ Statements(Character)' = text
        /\ \A x, d : x # Character => (States(x, d)' <=> States(x, d))
    BY <2>1, RegisteredDoes
  <2>4. CanonTypeOK'
    <3>1. DOMAIN canon' \subseteq Ids /\ \A x \in DOMAIN canon' : canon'[x] \in Seq(Claims \cup {Profile})
      BY <2>2, <2>3, IdTypes DEF CanonInv, CanonTypeOK
    <3>2. kept' \cup written' \subseteq Ids \X Claims
      BY <1>2, <2>1 DEF CanonInv, CanonTypeOK
    <3> QED
      BY <1>2, <1>3, <3>1, <3>2 DEF CanonInv, CanonTypeOK, Steps
  <2>5. NumbersInv'
    <3>1. UsedIds' = UsedIds \cup {Character}
      BY <1>2, <2>3 DEF UsedIds
    <3>2. GivenOut(Character)'
      BY IdTypes DEF GivenOut, Numbered
    <3> QED
      BY <1>2, <3>1, <3>2 DEF CanonInv, NumbersInv, GivenOut
  <2>6. OpInv'
    BY <1>2 DEF OpInv
  <2>7. ClosureIsAuthors'
    <3>1. Character \notin authority.closures \cup recorded.closures
      BY IdTypes DEF CanonInv, NumbersInv
    <3> QED
      BY <1>2, <2>3, <3>1 DEF CanonInv, ClosureIsAuthors
  <2>8. KeptInv'
    BY <2>1, <2>3 DEF CanonInv, KeptInv
  <2>9. SaidOnce'
    BY <2>2, <2>3 DEF SaidOnce, Character
  <2> QED
    BY <1>2, <2>4, <2>5, <2>6, <2>7, <2>8, <2>9 DEF CanonInv
<1> QED
    BY <1>4, <1>5

LEMMA RemoveInv ==
    ASSUME CanonInv, NEW id \in Ids, Remove(id) PROVE CanonInv'
<1>1. PICK ok \in BOOLEAN :
          /\ SaveCanon([x \in DOMAIN canon \ {id} |-> canon[x]], ok)
          /\ kept' = Undone(id, ok)
          /\ closed' = IF ok THEN closed \ {id} ELSE closed
    BY DEF Remove
<1>2. UNCHANGED <<queue, saved, authority, recorded, op, answered, written, asShown>> /\ op' = Idle
    BY DEF Remove
<1>3. faults' \in 0 .. MaxFaults
    BY <1>1, FaultsTyped
<1>4. CASE ~ok
  <2>1. canon' = canon /\ kept' = kept /\ closed' = closed
    BY <1>1, <1>4 DEF SaveCanon, Undone
  <2> QED
    BY <1>2, <1>3, <2>1, GivenUp
<1>5. CASE ok
  <2>1. /\ canon' = [x \in DOMAIN canon \ {id} |-> canon[x]]
        /\ kept' = {k \in kept : k[1] # id} /\ closed' = closed \ {id}
    BY <1>1, <1>5 DEF SaveCanon, Undone
  <2>2. /\ DOMAIN canon' = DOMAIN canon \ {id}
        /\ \A x \in DOMAIN canon' : canon'[x] = canon[x]
    BY <2>1
  <2>3. \A x : x # id => Statements(x)' = Statements(x)
    BY <2>2 DEF Statements
  <2>4. \A x, d : x # id /\ States(x, d) => States(x, d)'
    BY <2>2, <2>3, StatementsTyped DEF CanonInv, States
  <2>5. CanonTypeOK'
    <3>1. DOMAIN canon' \subseteq Ids /\ \A x \in DOMAIN canon' : canon'[x] \in Seq(Claims \cup {Profile})
      BY <2>2 DEF CanonInv, CanonTypeOK
    <3>2. kept' \cup written' \subseteq Ids \X Claims /\ closed' \subseteq Ids
      BY <1>2, <2>1 DEF CanonInv, CanonTypeOK
    <3> QED
      BY <1>2, <1>3, <3>1, <3>2 DEF CanonInv, CanonTypeOK, Steps
  <2>6. NumbersInv'
    BY <1>2, <2>2 DEF CanonInv, NumbersInv, UsedIds, GivenOut
  <2>7. OpInv'
    BY <1>2 DEF OpInv
  <2>8. ClosureIsAuthors'
    BY <1>2, <2>1, <2>2 DEF CanonInv, ClosureIsAuthors
  <2>9. KeptInv'
    BY <2>1, <2>4 DEF CanonInv, KeptInv
  <2>10. SaidOnce'
    <3>1. CASE Character \in DOMAIN canon'
      <4>1. Statements(Character)' = Statements(Character) /\ canon'[Character] = canon[Character]
        BY <2>2, <3>1 DEF Statements
      <4> QED
        BY <4>1 DEF CanonInv, SaidOnce, Character
    <3>2. CASE Character \notin DOMAIN canon'
      <4>1. DOMAIN Statements(Character)' = {}
        BY <3>2 DEF Statements, Character
      <4> QED
        BY <4>1 DEF SaidOnce
    <3> QED
      BY <3>1, <3>2
  <2> QED
    BY <1>2, <2>5, <2>6, <2>7, <2>8, <2>9, <2>10 DEF CanonInv
<1> QED
    BY <1>4, <1>5

LEMMA RestartInv ==
    ASSUME CanonInv, Restart PROVE CanonInv'
<1>1. /\ queue' = saved /\ authority' = recorded /\ op' = Idle
      /\ UNCHANGED <<canon, saved, recorded, answered, kept, written, closed>>
      /\ asShown' \subseteq asShown
    BY DEF Restart
<1>2. faults' \in 0 .. MaxFaults
    BY FaultsTyped DEF Restart
<1>3. CanonTypeOK'
    BY <1>1, <1>2 DEF CanonInv, CanonTypeOK, Steps
<1>4. NumbersInv'
  <2>1. \A p \in Prefixes : recorded.next[p] \in Nat
    BY DEF CanonInv, CanonTypeOK, Authorities
  <2>2. UsedIds' \subseteq UsedIds
    BY <1>1 DEF UsedIds
  <2> QED
    BY <1>1, <2>1, <2>2 DEF CanonInv, NumbersInv, GivenOut
<1>5. OpInv' /\ ClosureIsAuthors' /\ KeptInv' /\ SaidOnce'
    BY <1>1 DEF CanonInv, OpInv, ClosureIsAuthors, KeptInv, SaidOnce, States, Statements
<1>6. Len(saved') <= Len(queue')
    BY <1>1 DEF CanonInv, CanonTypeOK
<1> QED
    BY <1>3, <1>4, <1>5, <1>6 DEF CanonInv

LEMMA CanonNextInv ==
    CanonInv /\ [CanonNext]_canonVars => CanonInv'
<1> SUFFICES ASSUME CanonInv, [CanonNext]_canonVars PROVE CanonInv'
    OBVIOUS
<1>1. CASE \E c \in Claims : Scan(c)
    BY <1>1, ScanInv
<1>2. CASE Review
    BY <1>2, DismissInv, UpdateInv, AcceptCharacterInv, AcceptRuleInv DEF Review
<1>3. CASE Author
    BY <1>3, AddCharacterInv, AddRuleInv, RemoveInv DEF Author
<1>4. CASE WriteCanon \/ Close \/ Resolve \/ Restart
    BY <1>4, WriteCanonInv, CloseInv, ResolveInv, RestartInv
<1>5. CASE UNCHANGED canonVars
  <2>1. UNCHANGED <<canon, queue, saved, authority, recorded, op, faults, answered, kept, written, closed,
                asShown>>
    BY <1>5 DEF canonVars, told
  <2> QED
    BY <2>1 DEF CanonInv, CanonTypeOK, NumbersInv, OpInv, ClosureIsAuthors, KeptInv, SaidOnce,
       States, Statements, UsedIds, GivenOut, Pending
<1> QED
    BY <1>1, <1>2, <1>3, <1>4, <1>5 DEF CanonNext

(* The invariant of the review queue, the authority record and the         *)
(* registry, whatever the pages show.                                      *)
THEOREM CanonInvariant == CanonSpec => []CanonInv
    BY CanonInitInv, CanonNextInv, PTL DEF CanonSpec

(* record_explicit_closure and allocate_anchor_id: a statement that closes *)
(* a category in memory or on disk is one by which the author closed it.   *)
THEOREM ClosureIsAuthorsAlways == CanonSpec => []ClosureIsAuthors
<1>1. CanonInv => ClosureIsAuthors
    BY DEF CanonInv
<1> QED
    BY <1>1, CanonInvariant, PTL

(* allocate_anchor_id: deletion does not make an id reusable, and neither  *)
(* do a failed write of the authority record or a restart.                 *)
THEOREM IdsNotReusedAlways == CanonSpec => IdsNotReused
<1>1. ASSUME CanonInv, CanonNext, NEW id \in DOMAIN canon' \ DOMAIN canon, id[1] \in Prefixes,
             NEW w \in written
      PROVE  w[1] # id
  <2>1. CASE WriteCanon
    <3>1. op # Idle /\ op.at = "write"
      BY <2>1, NotIdle DEF WriteCanon
    <3>2. Numbered(op.id) => op.id \notin UsedIds
      BY <1>1, <3>1 DEF CanonInv, OpInv
    <3>3. id = op.id
      BY <1>1, <2>1 DEF WriteCanon, SaveCanon, Registered
    <3> QED
      BY <1>1, <3>2, <3>3 DEF UsedIds, Numbered
  <2>2. CASE AddCharacter
    BY <1>1, <2>2, IdTypes DEF AddCharacter, SaveCanon, Registered, Numbered
  <2>3. ASSUME NEW x \in Ids, Remove(x) PROVE FALSE
    BY <1>1, <2>3 DEF Remove, SaveCanon
  <2>4. CASE canon' = canon
    BY <1>1, <2>4
  <2> QED
    BY <1>1, <2>1, <2>2, <2>3, <2>4 DEF CanonNext, Scan, Review, Author, Dismiss, Update,
       AcceptCharacter, AcceptRule, AddRule, Close, Resolve, Restart
<1>2. CanonInv /\ [CanonNext]_canonVars =>
          [\A id \in DOMAIN canon' \ DOMAIN canon :
              id[1] \in Prefixes => \A w \in written : w[1] # id]_canonVars
    BY <1>1
<1> QED
    BY <1>2, CanonInvariant, PTL DEF CanonSpec, IdsNotReused

-----------------------------------------------------------------------------
(* What the queue says of the answers, in memory and on disk.              *)
LEMMA QueueAnswers ==
    ASSUME AnswersInv, NEW q, NEW ok \in BOOLEAN, SaveQueue(q, ok),
           written' = written, asShown \subseteq asShown',
           AcceptedIn(q)', \A c \in answered : AnsweredIn(q, c),
           \A c \in answered' : c \in answered \/ (ok /\ AnsweredIn(q, c))
    PROVE  AnswersInv'
<1>1. queue' = q /\ saved' \in {saved, q} /\ (ok => saved' = q)
    BY DEF SaveQueue
<1>2. AcceptedIn(queue)' /\ AcceptedIn(saved)'
  <2>1. ASSUME saved' = saved PROVE AcceptedIn(saved)'
    BY <2>1 DEF AnswersInv, AcceptedIn
  <2>2. ASSUME saved' = q PROVE AcceptedIn(saved)'
    BY <2>2 DEF AcceptedIn
  <2> QED
    BY <1>1, <2>1, <2>2 DEF AcceptedIn
<1>3. \A c \in answered' : AnsweredIn(queue', c) /\ AnsweredIn(saved', c)
    BY <1>1 DEF AnswersInv
<1> QED
    BY <1>2, <1>3 DEF AnswersInv

(* One candidate changes, and does not become unanswered.                  *)
LEMMA OneChanges ==
    ASSUME AnswersInv, CanonInv, NEW i \in 1 .. Len(queue), NEW q \in Seq(Items),
           Len(q) = Len(queue), \A j \in 1 .. Len(queue) : j # i => q[j] = queue[j],
           queue[i].status = "pending", written' = written, asShown \subseteq asShown',
           q[i].status = "accepted" =>
               \E c \in Claims : <<q[i].to, c>> \in written /\ (q[i].claim = c \/ i \in asShown')
    PROVE  AcceptedIn(q)' /\ \A c \in answered : AnsweredIn(q, c)
<1>1. queue \in Seq(Items) /\ DOMAIN queue = 1 .. Len(queue) /\ DOMAIN q = 1 .. Len(queue)
    BY DEF CanonInv, CanonTypeOK
<1>2. AcceptedIn(q)'
  <2> SUFFICES ASSUME NEW j \in DOMAIN q, q[j].status = "accepted"
               PROVE  \E c \in Claims : <<q[j].to, c>> \in written /\ (q[j].claim = c \/ j \in asShown')
    BY DEF AcceptedIn
  <2>1. CASE j # i
    BY <1>1, <2>1 DEF AnswersInv, AcceptedIn
  <2>2. CASE j = i
    BY <2>2
  <2> QED
    BY <2>1, <2>2
<1>3. ASSUME NEW c \in answered PROVE AnsweredIn(q, c)
  <2>1. PICK j \in DOMAIN queue : queue[j].claim = c /\ queue[j].status # "pending"
    BY DEF AnswersInv, AnsweredIn
  <2> QED
    BY <1>1, <2>1 DEF AnsweredIn
<1> QED
    BY <1>2, <1>3

LEMMA ScanAnswers ==
    ASSUME CanonInv, AnswersInv, NEW c \in Claims, Scan(c) PROVE AnswersInv'
<1> PICK q : q = Proposed(c)
    OBVIOUS
<1>1. PICK ok \in BOOLEAN : SaveQueue(q, ok)
    BY DEF Scan
<1>2. written' = written /\ answered' = answered /\ asShown' = asShown
    BY DEF Scan, told
<1>3. /\ queue \in Seq(Items) /\ DOMAIN queue = 1 .. Len(queue) /\ Len(queue) \in Nat
      /\ DOMAIN q = 1 .. Len(queue) + 1
      /\ \A i \in DOMAIN queue : q[i] = queue[i]
      /\ q[Len(queue) + 1] = [claim |-> c, status |-> "pending", to |-> <<>>]
    BY DEF CanonInv, CanonTypeOK, Proposed
<1>4. \A i \in DOMAIN q : i = Len(queue) + 1 \/ i \in DOMAIN queue
    BY <1>3
<1>5. AcceptedIn(q)'
  <2> SUFFICES ASSUME NEW i \in DOMAIN q, q[i].status = "accepted"
               PROVE  \E d \in Claims : <<q[i].to, d>> \in written /\ (q[i].claim = d \/ i \in asShown)
    BY <1>2 DEF AcceptedIn
  <2>1. i \in DOMAIN queue
    BY <1>3, <1>4
  <2> QED
    BY <1>3, <2>1 DEF AnswersInv, AcceptedIn
<1>6. \A d \in answered : AnsweredIn(q, d)
    BY <1>3 DEF AnswersInv, AnsweredIn
<1> QED
    BY <1>1, <1>2, <1>5, <1>6, QueueAnswers

LEMMA UpdateAnswers ==
    ASSUME CanonInv, AnswersInv, NEW i, NEW c \in Claims, Update(i, c) PROVE AnswersInv'
<1>1. i \in 1 .. Len(queue) /\ queue[i] \in Items /\ queue[i].status = "pending"
    BY PendingTyped DEF CanonInv, Update, Pending
<1>2. PICK it : it = [queue[i] EXCEPT !.claim = c]
    OBVIOUS
<1>3. it \in Items /\ it.status = "pending"
    BY <1>1, <1>2 DEF Items
<1>4. PICK q : q = [queue EXCEPT ![i] = it]
    OBVIOUS
<1>5. q \in Seq(Items) /\ Len(q) = Len(queue) /\ q[i] = it
      /\ \A j \in 1 .. Len(queue) : j # i => q[j] = queue[j]
    BY <1>1, <1>3, <1>4 DEF CanonInv, CanonTypeOK
<1>6. written' = written /\ answered' = answered /\ asShown' = asShown
    BY DEF Update, told
<1>7. AcceptedIn(q)' /\ \A d \in answered : AnsweredIn(q, d)
    BY <1>1, <1>3, <1>5, <1>6, OneChanges
<1>8. PICK ok \in BOOLEAN : SaveQueue(q, ok)
    BY <1>2, <1>4 DEF Update
<1> QED
    BY <1>6, <1>7, <1>8, QueueAnswers

LEMMA DismissAnswers ==
    ASSUME CanonInv, AnswersInv, NEW i, Dismiss(i) PROVE AnswersInv'
<1>1. i \in 1 .. Len(queue) /\ queue[i] \in Items /\ queue[i].status = "pending"
    BY PendingTyped DEF CanonInv, Dismiss, Pending
<1>2. PICK it : it = [queue[i] EXCEPT !.status = "dismissed"]
    OBVIOUS
<1>3. it \in Items /\ it.status = "dismissed" /\ it.claim = queue[i].claim
    BY <1>1, <1>2 DEF Items
<1>4. PICK q : q = [queue EXCEPT ![i] = it]
    OBVIOUS
<1>5. q \in Seq(Items) /\ Len(q) = Len(queue) /\ q[i] = it
      /\ \A j \in 1 .. Len(queue) : j # i => q[j] = queue[j]
    BY <1>1, <1>3, <1>4 DEF CanonInv, CanonTypeOK
<1>6. written' = written /\ asShown' = asShown
    BY DEF Dismiss
<1>7. AcceptedIn(q)' /\ \A d \in answered : AnsweredIn(q, d)
    BY <1>1, <1>3, <1>5, <1>6, OneChanges
<1>8. PICK ok \in BOOLEAN :
          /\ SaveQueue(q, ok)
          /\ answered' = IF ok THEN answered \cup {queue[i].claim} ELSE answered
    BY <1>2, <1>4 DEF Dismiss
<1>9. AnsweredIn(q, queue[i].claim)
    BY <1>1, <1>3, <1>5 DEF AnsweredIn
<1>10. \A c \in answered' : c \in answered \/ (ok /\ AnsweredIn(q, c))
    BY <1>8, <1>9
<1> QED
    BY <1>6, <1>7, <1>8, <1>10, QueueAnswers

LEMMA ResolveAnswers ==
    ASSUME CanonInv, AnswersInv, Resolve PROVE AnswersInv'
<1>1. op # Idle /\ op.at = "resolve"
    BY NotIdle DEF Resolve
<1>2. PICK id \in Ids, c \in Claims, i \in 0 .. MaxItems :
          op.id = id /\ op.claim = c /\ op.item = i
    BY <1>1, StepTyped DEF CanonInv
<1>3. <<id, c>> \in written /\ i # 0 /\ Pending(i)
    BY <1>1, <1>2 DEF CanonInv, OpInv
<1>4. i \in 1 .. Len(queue) /\ queue[i].status = "pending" /\ queue \in Seq(Items)
    BY <1>3, PendingTyped DEF CanonInv, CanonTypeOK, Pending
<1>5. PICK q : q = Resolved(i, id)
    OBVIOUS
<1>6. /\ q \in Seq(Items) /\ Len(q) = Len(queue)
      /\ q[i].claim = queue[i].claim /\ q[i].status = "accepted" /\ q[i].to = id
      /\ \A j \in 1 .. Len(queue) : j # i => q[j] = queue[j]
  <2>1. \A x : x = Resolved(i, id) =>
           /\ x \in Seq(Items) /\ Len(x) = Len(queue)
           /\ x[i].claim = queue[i].claim /\ x[i].status = "accepted" /\ x[i].to = id
           /\ \A j \in 1 .. Len(queue) : j # i => x[j] = queue[j]
    BY <1>4, ItemResolved
  <2> QED
    BY <1>5, <2>1
<1>7. PICK ok \in BOOLEAN :
          /\ SaveQueue(q, ok)
          /\ answered' = IF ok /\ queue[i].claim = c THEN answered \cup {c} ELSE answered
          /\ asShown' = IF queue[i].claim = c THEN asShown ELSE asShown \cup {i}
    BY <1>2, <1>5 DEF Resolve, Resolved, AsQueued
<1>8. written' = written /\ asShown \subseteq asShown'
    BY <1>7 DEF Resolve
<1>9. <<q[i].to, c>> \in written /\ (q[i].claim = c \/ i \in asShown')
    BY <1>3, <1>6, <1>7
<1>10. AcceptedIn(q)' /\ \A d \in answered : AnsweredIn(q, d)
    BY <1>4, <1>6, <1>8, <1>9, OneChanges
<1>11. queue[i].claim = c => AnsweredIn(q, c)
    BY <1>4, <1>6 DEF AnsweredIn
<1>12. \A d \in answered' : d \in answered \/ (ok /\ AnsweredIn(q, d))
    BY <1>7, <1>11
<1> QED
    BY <1>7, <1>8, <1>10, <1>12, QueueAnswers

(* The steps of an acceptance before the last: the queue is not touched.   *)
LEMMA QueueUntouched ==
    ASSUME AnswersInv, UNCHANGED <<queue, saved, answered, asShown>>, written \subseteq written'
    PROVE  AnswersInv'
<1>1. AcceptedIn(queue)'
    BY DEF AnswersInv, AcceptedIn
<1>2. AcceptedIn(saved)'
    BY DEF AnswersInv, AcceptedIn
<1>3. \A c \in answered' : AnsweredIn(queue, c)' /\ AnsweredIn(saved, c)'
    BY DEF AnswersInv, AnsweredIn
<1> QED
    BY <1>1, <1>2, <1>3 DEF AnswersInv

LEMMA RestartAnswers == ASSUME AnswersInv, Restart PROVE AnswersInv'
<1>1. /\ queue' = saved /\ UNCHANGED <<saved, written, answered>>
      /\ asShown' = {i \in asShown \cap DOMAIN saved : saved[i].status = "accepted"}
    BY DEF Restart
<1>2. AcceptedIn(queue)' /\ AcceptedIn(saved)'
    BY <1>1 DEF AnswersInv, AcceptedIn
<1> QED
    BY <1>1, <1>2 DEF AnswersInv, AnsweredIn

LEMMA AnswersNext ==
    ASSUME CanonInv, AnswersInv, [CanonNext]_canonVars
    PROVE  AnswersInv'
<1>1. CASE \E c \in Claims : Scan(c)
    BY <1>1, ScanAnswers
<1>2. CASE Review
  <2>1. ASSUME NEW i, NEW c,
               AcceptCharacter(i, c) \/ \E closes \in BOOLEAN : AcceptRule(i, c, closes)
        PROVE  UNCHANGED <<queue, saved, answered, asShown>> /\ written' = written
    BY <2>1 DEF AcceptCharacter, AcceptRule, told
  <2>2. CASE \E i, c : AcceptCharacter(i, c) \/ \E closes \in BOOLEAN : AcceptRule(i, c, closes)
    BY <2>1, <2>2, QueueUntouched
  <2> QED
    BY <1>2, <2>2, DismissAnswers, UpdateAnswers DEF Review
<1>3. CASE Author \/ WriteCanon \/ Close
  <2>1. UNCHANGED <<queue, saved, answered, asShown>> /\ written \subseteq written'
    BY <1>3 DEF Author, AddCharacter, AddRule, Remove, WriteCanon, Close, told
  <2> QED
    BY <2>1, QueueUntouched
<1>4. CASE Resolve
    BY <1>4, ResolveAnswers
<1>5. CASE Restart
    BY <1>5, RestartAnswers
<1>6. CASE UNCHANGED canonVars
    BY <1>6, QueueUntouched DEF canonVars, told
<1> QED
    BY <1>1, <1>2, <1>3, <1>4, <1>5, <1>6 DEF CanonNext

(* Whatever the pages show, an answer in the queue stays what it was, and  *)
(* what reads as accepted did become canon.                                *)
THEOREM AnswersInvariant == CanonSpec => []AnswersInv
<1>1. CanonInv /\ AnswersInv /\ [CanonNext]_canonVars => AnswersInv'
    BY AnswersNext
<1> QED
    BY <1>1, CanonInitInv, CanonInvariant, PTL DEF CanonSpec

(* accept_capture and the start of the process: what reads as accepted is  *)
(* in the registry's history, as it reads or as a page showed it; what the *)
(* author was told is canon is there, nothing is said twice, and a closure *)
(* is the author's.                                                        *)
THEOREM AcceptedIsCanonAlways == CanonSpec => []AcceptedIsCanon
<1>1. CanonInv /\ AnswersInv => AcceptedIsCanon
    BY DEF CanonInv, AnswersInv, AcceptedIsCanon, KeptInv, SaidOnce
<1> QED
    BY <1>1, CanonInvariant, AnswersInvariant, PTL

(* resolved_fingerprints: a claim that was answered as the queue had it,   *)
(* and whose answer the author was told is stored, is never put in the     *)
(* queue again.                                                            *)
THEOREM AnsweredStaysClosedAlways == CanonSpec => AnsweredStaysClosed
<1>1. ASSUME CanonInv, AnswersInv, CanonNext, NEW c \in answered, Len(queue') > Len(queue)
      PROVE  queue'[Len(queue')].claim # c
  <2>1. queue \in Seq(Items) /\ saved \in Seq(Items) /\ Len(queue) \in Nat /\ Len(saved) \in Nat
        /\ Len(saved) <= Len(queue)
    BY <1>1 DEF CanonInv, CanonTypeOK
  <2>2. ASSUME NEW d \in Claims, Scan(d) PROVE queue'[Len(queue')].claim # c
    <3>1. queue' = Append(queue, [claim |-> d, status |-> "pending", to |-> <<>>]) /\ ~Stands(d)
      BY <2>2 DEF Scan, SaveQueue, Proposed
    <3>2. queue'[Len(queue')].claim = d
      BY <2>1, <3>1
    <3>3. Stands(c)
      BY <1>1 DEF AnswersInv, AnsweredIn, Stands
    <3> QED
      BY <3>1, <3>2, <3>3
  <2>3. ASSUME NEW i, \/ Dismiss(i) \/ \E d \in Claims : Update(i, d) PROVE FALSE
    <3>1. \E it : queue' = [queue EXCEPT ![i] = it]
      BY <2>3 DEF Dismiss, Update, SaveQueue
    <3> QED
      BY <1>1, <2>1, <3>1
  <2>4. ~Resolve
    <3>1. Resolve => \E it : queue' = [queue EXCEPT ![op.item] = it]
      BY DEF Resolve, SaveQueue
    <3> QED
      BY <1>1, <2>1, <3>1
  <2>5. ~Restart
    BY <1>1, <2>1 DEF Restart
  <2>6. queue' # queue
    BY <1>1, <2>1
  <2> QED
    BY <1>1, <2>2, <2>3, <2>4, <2>5, <2>6 DEF CanonNext, Review, Author, AcceptCharacter,
       AcceptRule, AddRule, AddCharacter, Remove, WriteCanon, Close
<1>2. CanonInv /\ AnswersInv /\ [CanonNext]_canonVars =>
          [\A c \in answered :
              Len(queue') > Len(queue) => queue'[Len(queue')].claim # c]_canonVars
    BY <1>1
<1> QED
    BY <1>2, CanonInvariant, AnswersInvariant, PTL DEF CanonSpec, AnsweredStaysClosed
=============================================================================
