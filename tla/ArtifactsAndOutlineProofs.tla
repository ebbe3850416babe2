------------------------ MODULE ArtifactsAndOutlineProofs ------------------------
(***************************************************************************)
(* What an artifact's history and a manuscript's outline promise, for any  *)
(* number of artifacts, texts, editors, revisions, nodes and checkpoints,  *)
(* and of operations cut short and failed writes.                          *)
(*                                                                         *)
(* RevisionsReadable is not inductive: write_index makes the text of op a  *)
(* revision, so one must know that this text is already in the file of the *)
(* next revision whenever the content file is no longer to be written.     *)
(* OutlineSound is, once the nodes are known to be finitely many.          *)
(***************************************************************************)
EXTENDS Artifacts, Manuscript, FiniteSetTheorems, TLAPS

Text == Texts \cup {Null}

(* What may be left to do of an operation: the ends of PlanOf(kind).       *)
Remaining(kind) ==
    CASE kind = "create" ->
            {<<"content", "index", "reply">>, <<"index", "reply">>, <<"reply">>}
      [] kind = "update" ->
            {<<"content", "working", "index", "reply">>, <<"working", "index", "reply">>,
             <<"index", "reply">>, <<"reply">>}
      [] kind \in {"autosave", "discard"} ->
            {<<"working", "index", "reply">>, <<"index", "reply">>, <<"reply">>}
      [] kind = "delete" -> {<<"index", "reply">>, <<"reply">>}

FilesTyped ==
    /\ index \in [ArtifactIds -> [versions : Seq(Text), base : Nat]]
    /\ content \in [ArtifactIds -> [Versions -> Text]]
    /\ \A a \in ArtifactIds : Current(a) <= MaxVersion

OpTyped ==
    /\ op \in [todo : Seq(Steps), kind : Kinds, a : ArtifactIds \cup {Null}, x : Text,
               e : Tabs \cup {Null}, seen : Nat]
    /\ ~Idle => op.a \in ArtifactIds /\ op.todo \in Remaining(op.kind)

TabTyped == tab \in [Tabs -> [a : ArtifactIds \cup {Null}, version : Nat, seen : Nat]]

(* The revision an operation adds has room, and its text is on disk before *)
(* the index may name it.                                                  *)
RevisionPrepared ==
    ~Idle /\ ~At("reply") /\ op.kind \in {"create", "update"} =>
        /\ Current(op.a) < MaxVersion
        /\ ~At("content") => content[op.a][Current(op.a) + 1] = op.x

ArtInv ==
    /\ FilesTyped
    /\ OpTyped
    /\ TabTyped
    /\ RevisionPrepared
    /\ RevisionsReadable
-----------------------------------------------------------------------------
(* Operations go from file to file in the order of their plan.             *)
LEMMA PlanRemains ==
  ASSUME NEW kind \in Kinds
  PROVE  PlanOf(kind) \in Remaining(kind)
  BY DEF PlanOf, Remaining, Kinds

(* The plans, spelled out for the provers.                                 *)
LEMMA Stages ==
  /\ Head(<<"reply">>) = "reply" /\ Tail(<<"reply">>) = <<>>
  /\ Head(<<"index", "reply">>) = "index" /\ Tail(<<"index", "reply">>) = <<"reply">>
  /\ Head(<<"working", "index", "reply">>) = "working"
  /\ Tail(<<"working", "index", "reply">>) = <<"index", "reply">>
  /\ Head(<<"content", "index", "reply">>) = "content"
  /\ Tail(<<"content", "index", "reply">>) = <<"index", "reply">>
  /\ Head(<<"content", "working", "index", "reply">>) = "content"
  /\ Tail(<<"content", "working", "index", "reply">>) = <<"working", "index", "reply">>
  OBVIOUS

LEMMA Typed ==
  /\ {<<"reply">>, <<"index", "reply">>, <<"working", "index", "reply">>,
      <<"content", "index", "reply">>, <<"content", "working", "index", "reply">>}
        \subseteq Seq(Steps) \ {<<>>}
  BY DEF Steps

LEMMA NextStage ==
  ASSUME NEW kind \in Kinds, NEW t \in Remaining(kind)
  PROVE  /\ t # <<>> /\ t \in Seq(Steps)
         /\ Tail(t) = <<>> \/ Tail(t) \in Remaining(kind)
         /\ Head(t) = "reply" => Tail(t) = <<>>
         /\ Head(t) = "content" =>
               /\ kind \in {"create", "update"}
               /\ Tail(t) # <<>> /\ Head(Tail(t)) \in {"working", "index"}
         /\ Head(t) = "working" => Tail(t) # <<>> /\ Head(Tail(t)) = "index"
         /\ Head(t) = "index" => Tail(t) # <<>> /\ Head(Tail(t)) = "reply"
  <1>1. CASE kind = "create"
    BY <1>1, Stages, Typed DEF Remaining
  <1>2. CASE kind = "update"
    BY <1>2, Stages, Typed DEF Remaining
  <1>3. CASE kind \in {"autosave", "discard"}
    BY <1>3, Stages, Typed DEF Remaining
  <1>4. CASE kind = "delete"
    BY <1>4, Stages, Typed DEF Remaining
  <1>5. QED
    BY <1>1, <1>2, <1>3, <1>4 DEF Kinds

(* What Append does to the rows of a history.                              *)
LEMMA AppendRow ==
  ASSUME NEW T, NEW s \in Seq(T), NEW x \in T
  PROVE  /\ Append(s, x) \in Seq(T)
         /\ Len(Append(s, x)) = Len(s) + 1
         /\ \A i \in 1 .. Len(s) : Append(s, x)[i] = s[i]
         /\ Append(s, x)[Len(s) + 1] = x
  OBVIOUS

-----------------------------------------------------------------------------
(* An empty store, as ArtifactStore.__init__ makes it, is sound.           *)
LEMMA InitInv == ArtifactsInit => ArtInv
  <1> SUFFICES ASSUME ArtifactsInit PROVE ArtInv
    OBVIOUS
  <1> USE ArtifactsAssumption DEF ArtifactsInit, Resting, Idle, Absent, Current
  <1>1. FilesTyped
    BY DEF FilesTyped, Versions, Text
  <1>2. OpTyped
    BY DEF OpTyped, Text, Kinds
  <1>3. TabTyped
    BY DEF TabTyped, Closed
  <1>4. RevisionPrepared
    BY DEF RevisionPrepared
  <1>5. RevisionsReadable
    BY DEF RevisionsReadable
  <1>6. QED
    BY <1>1, <1>2, <1>3, <1>4, <1>5 DEF ArtInv

(* A request opens an operation and touches no file.                       *)
LEMMA RequestKeeps ==
  ASSUME ArtInv, NEW kind \in Kinds, NEW a \in ArtifactIds, NEW x \in Text,
         NEW e \in Tabs \cup {Null}, Request(kind, a, x, e),
         kind \in {"create", "update"} => Current(a) < MaxVersion
  PROVE  ArtInv'
  <1> USE ArtifactsAssumption DEF ArtInv, Request
  <1>1. FilesTyped' /\ TabTyped' /\ RevisionsReadable'
    BY DEF FilesTyped, TabTyped, RevisionsReadable, Current
  <1>2. /\ op'.a = a /\ op'.kind = kind /\ op'.x = x
        /\ op'.todo = PlanOf(kind) /\ op'.e = e
        /\ op' \in [todo : {PlanOf(kind)}, kind : {kind}, a : {a}, x : {x}, e : {e}, seen : Nat]
    BY DEF TabTyped
  <1>3. /\ PlanOf(kind) \in Remaining(kind) /\ PlanOf(kind) \in Seq(Steps)
    BY PlanRemains, NextStage
  <1>4. OpTyped'
    BY <1>2, <1>3 DEF OpTyped, Idle, Text
  <1>5. RevisionPrepared'
    <2>1. kind \in {"create", "update"} => Head(PlanOf(kind)) = "content"
      BY DEF PlanOf
    <2>2. QED
      BY <1>2, <2>1 DEF RevisionPrepared, At, Idle, Current
  <1>6. QED
    BY <1>1, <1>4, <1>5

(* What is known of an operation that writes one of its files.             *)
LEMMA StepFacts ==
  ASSUME ArtInv, ~Idle, Proceed
  PROVE  /\ op.a \in ArtifactIds /\ op.kind \in Kinds /\ op.x \in Text
         /\ op.todo \in Remaining(op.kind)
         /\ op'.todo = Tail(op.todo) /\ op'.a = op.a /\ op'.kind = op.kind /\ op'.x = op.x
         /\ OpTyped'
  <1> USE DEF ArtInv, OpTyped, Idle, Proceed
  <1>1. Tail(op.todo) \in Seq(Steps) /\ (Tail(op.todo) = <<>> \/ Tail(op.todo) \in Remaining(op.kind))
    BY NextStage
  <1>2. QED
    BY <1>1

(* The next revision is written where no committed one can be.             *)
LEMMA WriteContentKeeps == ArtInv /\ WriteContent => ArtInv'
  <1> SUFFICES ASSUME ArtInv, WriteContent PROVE ArtInv'
    OBVIOUS
  <1> USE ArtifactsAssumption
  <1>1. ~Idle /\ Proceed /\ Head(op.todo) = "content"
    BY DEF WriteContent, At
  <1>2. /\ op.kind \in {"create", "update"}
        /\ Tail(op.todo) # <<>> /\ Head(Tail(op.todo)) \in {"working", "index"}
    BY <1>1, StepFacts, NextStage
  <1>3. Current(op.a) < MaxVersion
    BY <1>1, <1>2 DEF ArtInv, RevisionPrepared, At
  <1>4. /\ index' = index /\ tab' = tab
        /\ content' = [content EXCEPT ![op.a][Current(op.a) + 1] = op.x]
    BY DEF WriteContent
  <1>5. Current(op.a) \in Nat /\ Current(op.a) + 1 \in Versions
    BY <1>1, <1>3, StepFacts DEF ArtInv, FilesTyped, Current, Versions
  <1>6. FilesTyped'
    BY <1>1, <1>4, <1>5, StepFacts DEF ArtInv, FilesTyped, Current
  <1>7. RevisionsReadable'
    BY <1>1, <1>4, <1>5, StepFacts DEF ArtInv, FilesTyped, RevisionsReadable, Current
  <1>8. content'[op.a][Current(op.a) + 1] = op.x
    BY <1>1, <1>4, <1>5, StepFacts DEF ArtInv, FilesTyped
  <1>9. RevisionPrepared'
    BY <1>1, <1>3, <1>4, <1>8, StepFacts DEF RevisionPrepared, Current
  <1>10. QED
    BY <1>1, <1>4, <1>6, <1>7, <1>9, StepFacts DEF ArtInv, TabTyped

LEMMA WriteWorkingKeeps == ArtInv /\ WriteWorking => ArtInv'
  <1> SUFFICES ASSUME ArtInv, WriteWorking PROVE ArtInv'
    OBVIOUS
  <1>1. ~Idle /\ Proceed /\ Head(op.todo) = "working"
    BY DEF WriteWorking, At
  <1>2. UNCHANGED <<index, content, tab>>
    BY DEF WriteWorking
  <1>3. RevisionPrepared'
    BY <1>1, <1>2, StepFacts DEF ArtInv, RevisionPrepared, At, Current
  <1>4. QED
    BY <1>1, <1>2, <1>3, StepFacts DEF ArtInv, FilesTyped, TabTyped, RevisionsReadable, Current

(* What the index says afterwards of the artifact of an operation.         *)
LEMMA NewMetaRow ==
  ASSUME ArtInv, ~Idle, At("index"), Proceed
  PROVE  /\ NewMeta(index[op.a]) \in [versions : Seq(Text), base : Nat]
         /\ op.kind \in {"create", "update"} =>
               NewMeta(index[op.a]).versions = Append(index[op.a].versions, op.x)
         /\ op.kind \in {"autosave", "discard"} =>
               NewMeta(index[op.a]).versions = index[op.a].versions
         /\ op.kind = "delete" => NewMeta(index[op.a]) = Absent
  <1> DEFINE meta == index[op.a]
  <1>1. meta \in [versions : Seq(Text), base : Nat] /\ op.x \in Text /\ op.kind \in Kinds
    BY StepFacts DEF ArtInv, FilesTyped
  <1>2. meta.versions \in Seq(Text) /\ Append(meta.versions, op.x) \in Seq(Text)
        /\ Len(meta.versions) \in Nat
    BY <1>1, AppendRow
  <1> HIDE DEF meta
  <1>3. CASE op.kind \in {"create", "update"}
    BY <1>1, <1>2, <1>3 DEF NewMeta, meta
  <1>4. CASE op.kind = "autosave"
    BY <1>1, <1>2, <1>4 DEF NewMeta, meta
  <1>5. CASE op.kind = "discard"
    BY <1>1, <1>2, <1>5 DEF NewMeta, meta
  <1>6. CASE op.kind = "delete"
    BY <1>1, <1>6 DEF NewMeta, Absent
  <1>7. QED
    BY <1>1, <1>3, <1>4, <1>5, <1>6 DEF Kinds

(* The index names one revision more, whose text is on disk already.       *)
LEMMA WriteIndexKeeps == ArtInv /\ WriteIndex => ArtInv'
  <1> SUFFICES ASSUME ArtInv, WriteIndex PROVE ArtInv'
    OBVIOUS
  <1> DEFINE new == NewMeta(index[op.a])
  <1>1. ~Idle /\ Proceed /\ Head(op.todo) = "index" /\ At("index")
    BY DEF WriteIndex, At
  <1>2. /\ content' = content /\ tab' = tab
        /\ index' = [index EXCEPT ![op.a] = new]
    BY DEF WriteIndex
  <1>3. op.a \in ArtifactIds /\ op.x \in Text /\ op.kind \in Kinds
    BY <1>1, StepFacts
  <1>4. /\ index[op.a].versions \in Seq(Text) /\ Current(op.a) \in Nat
        /\ Current(op.a) <= MaxVersion
    BY <1>3 DEF ArtInv, FilesTyped, Current
  <1>5. new \in [versions : Seq(Text), base : Nat]
    BY <1>1, NewMetaRow
  <1>6. /\ Len(new.versions) <= MaxVersion
        /\ \A v \in 1 .. Len(new.versions) : content[op.a][v] = new.versions[v]
    <2>1. CASE op.kind \in {"create", "update"}
      <3>1. new.versions = Append(index[op.a].versions, op.x)
        BY <1>1, <2>1, NewMetaRow
      <3>2. Current(op.a) < MaxVersion /\ content[op.a][Current(op.a) + 1] = op.x
        BY <1>1, <2>1 DEF ArtInv, RevisionPrepared, At
      <3>3. \A v \in 1 .. Current(op.a) : content[op.a][v] = index[op.a].versions[v]
        BY <1>3 DEF ArtInv, RevisionsReadable
      <3>4. /\ Len(new.versions) = Current(op.a) + 1
            /\ \A v \in 1 .. Current(op.a) : new.versions[v] = index[op.a].versions[v]
            /\ new.versions[Current(op.a) + 1] = op.x
        BY <1>3, <1>4, <3>1, AppendRow DEF Current
      <3>5. Len(new.versions) <= MaxVersion
        BY <1>4, <3>2, <3>4, ArtifactsAssumption
      <3>6. ASSUME NEW v \in 1 .. Len(new.versions)
            PROVE  content[op.a][v] = new.versions[v]
        <4>1. v \in 1 .. Current(op.a) \/ v = Current(op.a) + 1
          BY <1>4, <3>4
        <4>2. QED
          BY <3>2, <3>3, <3>4, <4>1
      <3>7. QED
        BY <3>5, <3>6
    <2>2. CASE op.kind \in {"autosave", "discard"}
      BY <1>1, <1>3, <1>4, <2>2, NewMetaRow DEF ArtInv, RevisionsReadable, Current
    <2>3. CASE op.kind = "delete"
      BY <1>1, <2>3, NewMetaRow, ArtifactsAssumption DEF Absent
    <2>4. QED
      BY <1>3, <2>1, <2>2, <2>3 DEF Kinds
  <1> HIDE DEF new
  <1>7. FilesTyped'
    BY <1>2, <1>3, <1>5, <1>6 DEF ArtInv, FilesTyped, Current
  <1>8. RevisionsReadable'
    BY <1>2, <1>3, <1>6 DEF ArtInv, FilesTyped, RevisionsReadable, Current
  <1>9. RevisionPrepared'
    BY <1>1, StepFacts, NextStage DEF RevisionPrepared, At
  <1>10. QED
    BY <1>1, <1>2, <1>7, <1>8, <1>9, StepFacts DEF ArtInv, TabTyped

(* An operation that ends, answered or cut short, leaves the files alone.  *)
LEMMA EndKeeps ==
  ASSUME ArtInv, Done, UNCHANGED <<index, content>>, TabTyped'
  PROVE  ArtInv'
  <1>1. OpTyped' /\ RevisionPrepared'
    BY DEF Done, Resting, OpTyped, RevisionPrepared, Idle, Text, Kinds
  <1>2. FilesTyped' /\ RevisionsReadable'
    BY DEF ArtInv, FilesTyped, RevisionsReadable, Current
  <1>3. QED
    BY <1>1, <1>2 DEF ArtInv

LEMMA ReplyKeeps == ArtInv /\ Reply => ArtInv'
  <1> SUFFICES ASSUME ArtInv, Reply PROVE ArtInv'
    OBVIOUS
  <1>1. op.a \in ArtifactIds /\ Current(op.a) \in Nat
    BY DEF Reply, At, ArtInv, OpTyped, FilesTyped, Current
  <1>2. TabTyped'
    BY <1>1 DEF Reply, ArtInv, TabTyped
  <1>3. QED
    BY <1>2, EndKeeps DEF Reply

LEMMA CutShortKeeps == ArtInv /\ CutShort => ArtInv'
  BY EndKeeps DEF CutShort, ArtInv, TabTyped

(* A page changes what it shows, or makes a request about it.              *)
LEMMA PageKeeps ==
  ASSUME ArtInv, NEW e \in Tabs, Page(e)
  PROVE  ArtInv'
  <1> DEFINE b == tab[e].a
  <1>1. b # Null => b \in ArtifactIds /\ Current(b) \in Nat
    BY DEF ArtInv, TabTyped, FilesTyped, Current
  <1>2. ASSUME NEW x \in Text, Save(e, x) PROVE ArtInv'
    BY <1>1, <1>2, RequestKeeps DEF Save, Matches, Kinds
  <1>3. ASSUME NEW x \in Text, Autosave(e, x) PROVE ArtInv'
    BY <1>1, <1>3, RequestKeeps DEF Autosave, Matches, Kinds
  <1>4. ASSUME NEW v \in Versions, RestoreVersion(e, v) PROVE ArtInv'
    <2>1. content[b][v] \in Text
      BY <1>1, <1>4 DEF RestoreVersion, Matches, ArtInv, FilesTyped
    <2>2. QED
      BY <1>2, <1>4, <2>1 DEF RestoreVersion
  <1>5. ASSUME UNCHANGED <<index, content, op>>, TabTyped' PROVE ArtInv'
    BY <1>5 DEF ArtInv, FilesTyped, OpTyped, RevisionPrepared, RevisionsReadable,
                Current, Idle, At
  <1>6. ASSUME NEW a \in ArtifactIds, Open(e, a) PROVE ArtInv'
    <2>1. Current(a) \in Nat
      BY DEF ArtInv, FilesTyped, Current
    <2>2. TabTyped'
      BY <1>6, <2>1 DEF Open, ArtInv, TabTyped
    <2>3. QED
      BY <1>5, <1>6, <2>2 DEF Open
  <1>7. ASSUME Organize(e) PROVE ArtInv'
    <2>1. TabTyped'
      BY <1>1, <1>7 DEF Organize, ArtInv, TabTyped
    <2>2. QED
      BY <1>5, <1>7, <2>1 DEF Organize
  <1>8. QED
    BY <1>2, <1>3, <1>4, <1>6, <1>7 DEF Page, Text

-----------------------------------------------------------------------------
LEMMA StepInv == ArtInv /\ [ArtifactsNext]_artifactVars => ArtInv'
  <1> SUFFICES ASSUME ArtInv, [ArtifactsNext]_artifactVars PROVE ArtInv'
    OBVIOUS
  <1>1. CASE StoreStep
    BY <1>1, WriteContentKeeps, WriteWorkingKeeps, WriteIndexKeeps, ReplyKeeps DEF StoreStep
  <1>2. CASE CutShort
    BY <1>2, CutShortKeeps
  <1>3. CASE \E e \in Tabs : Page(e)
    BY <1>3, PageKeeps
  <1>4. ASSUME NEW a \in ArtifactIds, NEW x \in Texts, Create(a, x) PROVE ArtInv'
    <2>1. Current(a) < MaxVersion
      BY <1>4, ArtifactsAssumption DEF Create, Absent, Current
    <2>2. QED
      BY <1>4, <2>1, RequestKeeps DEF Create, Kinds, Text
  <1>5. ASSUME NEW a \in ArtifactIds, Discard(a) PROVE ArtInv'
    BY <1>5, RequestKeeps DEF Discard, Kinds, Text
  <1>6. ASSUME NEW a \in ArtifactIds, Delete(a) PROVE ArtInv'
    BY <1>6, RequestKeeps DEF Delete, Kinds, Text
  <1>7. CASE UNCHANGED artifactVars
    BY <1>7 DEF artifactVars, ArtInv, FilesTyped, OpTyped, TabTyped, RevisionPrepared,
                RevisionsReadable, Current, Idle, At
  <1>8. QED
    BY <1>1, <1>2, <1>3, <1>4, <1>5, <1>6, <1>7 DEF ArtifactsNext

(* The invariant the properties of an artifact's history rest on.          *)
THEOREM ArtifactsInvariant == ArtifactsSpec => []ArtInv
  BY InitInv, StepInv, PTL DEF ArtifactsSpec

(* Whatever artifact_store left half done, every revision in the index can *)
(* be read from its content file, with the text it was committed with.     *)
THEOREM ReadableAlways == ArtifactsSpec => []RevisionsReadable
  <1>1. ArtInv => RevisionsReadable
    BY DEF ArtInv
  <1>2. QED
    BY <1>1, ArtifactsInvariant, PTL

LEMMA StepKeepsHistory ==
  ASSUME ArtInv, [ArtifactsNext]_artifactVars, NEW a \in ArtifactIds
  PROVE  /\ \A v \in 1 .. Current(a) : content'[a][v] = content[a][v]
         /\ \/ index'[a] = Absent
            \/ /\ Len(index'[a].versions) \in {Current(a), Current(a) + 1}
               /\ \A v \in 1 .. Current(a) : index'[a].versions[v] = index[a].versions[v]
  <1>1. index[a].versions \in Seq(Text) /\ Current(a) \in Nat
    BY DEF ArtInv, FilesTyped, Current
  <1>2. CASE WriteContent
    <2>1. ~Idle /\ op.a \in ArtifactIds
      BY <1>2, StepFacts DEF WriteContent, At
    <2>2. Current(op.a) \in Nat
      BY <2>1 DEF ArtInv, FilesTyped, Current
    <2>3. \A v \in 1 .. Current(a) : content'[a][v] = content[a][v]
      BY <1>2, <2>1, <2>2 DEF WriteContent, ArtInv, FilesTyped, Versions
    <2>4. QED
      BY <1>1, <1>2, <2>3 DEF WriteContent, Current
  <1>3. CASE WriteIndex
    <2>1. /\ ~Idle /\ At("index") /\ Proceed /\ op.a \in ArtifactIds
          /\ op.kind \in Kinds /\ op.x \in Text
      BY <1>3, StepFacts DEF WriteIndex, At
    <2>2. content' = content /\ index' = [index EXCEPT ![op.a] = NewMeta(index[op.a])]
      BY <1>3 DEF WriteIndex
    <2>3. index'[a] = IF a = op.a THEN NewMeta(index[a]) ELSE index[a]
      BY <2>1, <2>2 DEF ArtInv, FilesTyped
    <2>4. CASE a = op.a /\ op.kind \in {"create", "update"}
      <3>1. index'[a].versions = Append(index[a].versions, op.x)
        BY <2>1, <2>3, <2>4, NewMetaRow
      <3>2. QED
        BY <1>1, <2>1, <2>2, <3>1, AppendRow DEF Current
    <2>5. CASE a = op.a /\ op.kind \in {"autosave", "discard"}
      BY <1>1, <2>1, <2>2, <2>3, <2>5, NewMetaRow DEF Current
    <2>6. CASE a = op.a /\ op.kind = "delete"
      BY <2>1, <2>2, <2>3, <2>6, NewMetaRow
    <2>7. CASE a # op.a
      BY <1>1, <2>2, <2>3, <2>7 DEF Current
    <2>8. QED
      BY <2>1, <2>4, <2>5, <2>6, <2>7 DEF Kinds
  <1>4. CASE UNCHANGED <<index, content>>
    BY <1>1, <1>4 DEF Current
  <1>5. WriteContent \/ WriteIndex \/ UNCHANGED <<index, content>>
    BY DEF ArtifactsNext, StoreStep, WriteWorking, Reply, CutShort, Page, Open, Save, Autosave,
           RestoreVersion, Organize, Create, Discard, Delete, Request, artifactVars
  <1>6. QED
    BY <1>2, <1>3, <1>4, <1>5

(* "History is never rewritten": no step changes a committed revision, in  *)
(* the index or on disk; an artifact gains one at the end or is deleted.   *)
THEOREM HistoryKeptAlways == ArtifactsSpec => HistoryKept
  <1>1. ArtInv /\ [ArtifactsNext]_artifactVars =>
          [\A a \in ArtifactIds :
              /\ \A v \in 1 .. Current(a) : content'[a][v] = content[a][v]
              /\ \/ index'[a] = Absent
                 \/ /\ Len(index'[a].versions) \in {Current(a), Current(a) + 1}
                    /\ \A v \in 1 .. Current(a) :
                          index'[a].versions[v] = index[a].versions[v]]_artifactVars
    BY StepKeepsHistory
  <1>2. QED
    BY <1>1, ArtifactsInvariant, PTL DEF ArtifactsSpec, HistoryKept

-----------------------------------------------------------------------------
(* Autosaved text.  What is kept of a draft is its working copy or, from   *)
(* the moment a commit unlinks that, the file of the next revision; so one *)
(* must know what the operation under way has already written.             *)

(* The index names texts, and a working copy only of the last of them.     *)
EntriesOfTexts ==
    \A a \in ArtifactIds :
        index[a].versions \in Seq(Texts) /\ index[a].base \in {0, Current(a)}

RestTyped ==
    /\ working \in [ArtifactIds -> Text]
    /\ draft \in [ArtifactIds -> Text]
    /\ tab \in [Tabs -> Tab]
    /\ op.seen \in 0 .. MaxVersion
    /\ faults \in 0 .. MaxFaults

(* What an operation was asked for, and what it has done of it.            *)
OpHasText == ~Idle /\ op.kind \in {"create", "update", "autosave"} => op.x \in Texts

OpHasEditor ==
    ~Idle /\ ~At("reply") /\ op.kind = "update" =>
        /\ op.e \in Tabs
        /\ op.seen = tab[op.e].seen /\ tab[op.e].version = Current(op.a)

OpHasWritten ==
    ~Idle =>
        /\ op.kind = "autosave" => Exists(op.a)
        /\ op.kind = "autosave" /\ At("index") => working[op.a] = op.x
        /\ op.kind = "discard" /\ At("index") => draft[op.a] = Null

DraftSafe ==
    \A a \in ArtifactIds :
        draft[a] # Null =>
            \/ index[a].base # 0 /\ working[a] # Null
            \/ Current(a) < MaxVersion /\ content[a][Current(a) + 1] # Null

DraftInv ==
    /\ EntriesOfTexts /\ RestTyped
    /\ OpHasText /\ OpHasEditor /\ OpHasWritten
    /\ DraftSafe

(* The operation under way, whether or not the step goes on with it.       *)
LEMMA OpFacts ==
  ASSUME ArtInv, DraftInv, ~Idle
  PROVE  /\ op.a \in ArtifactIds /\ op.kind \in Kinds /\ op.todo \in Remaining(op.kind)
         /\ op.kind \in {"create", "update", "autosave"} => op.x \in Texts /\ op.x # Null
         /\ Current(op.a) \in Nat
  <1>1. op.a \in ArtifactIds /\ op.kind \in Kinds /\ op.todo \in Remaining(op.kind)
    BY DEF ArtInv, OpTyped
  <1>2. Current(op.a) \in Nat
    BY <1>1 DEF ArtInv, FilesTyped, Current
  <1>3. QED
    BY <1>1, <1>2, ArtifactsAssumption DEF DraftInv, OpHasText

LEMMA DraftInit == ArtifactsInit => DraftInv
  <1> SUFFICES ASSUME ArtifactsInit PROVE DraftInv
    OBVIOUS
  <1> USE ArtifactsAssumption DEF ArtifactsInit, Resting, Idle, Absent, Current
  <1>1. EntriesOfTexts
    <2>1. <<>> \in Seq(Texts) /\ Len(<<>>) = 0
      OBVIOUS
    <2>2. QED
      BY <2>1 DEF EntriesOfTexts
  <1>2. RestTyped
    BY DEF RestTyped, Text, Tab, Closed
  <1>3. OpHasText /\ OpHasEditor /\ OpHasWritten /\ DraftSafe
    BY DEF OpHasText, OpHasEditor, OpHasWritten, DraftSafe
  <1>4. QED
    BY <1>1, <1>2, <1>3 DEF DraftInv

LEMMA RequestKeepsDrafts ==
  ASSUME ArtInv, DraftInv, NEW kind \in Kinds, NEW a \in ArtifactIds, NEW x \in Text,
         NEW e \in Tabs \cup {Null}, Request(kind, a, x, e),
         kind \in {"create", "update", "autosave"} => x \in Texts,
         kind = "update" => e \in Tabs /\ tab[e].version = Current(a),
         kind = "autosave" => Exists(a)
  PROVE  DraftInv'
  <1>1. /\ UNCHANGED <<index, content, working, tab, draft, faults>>
        /\ op'.kind = kind /\ op'.a = a /\ op'.x = x /\ op'.e = e
        /\ op'.todo = PlanOf(kind)
        /\ op'.seen = IF e = Null THEN 0 ELSE tab[e].seen
    BY DEF Request
  <1>2. op'.seen \in 0 .. MaxVersion
    BY <1>1, ArtifactsAssumption DEF DraftInv, RestTyped, Tab
  <1>3. EntriesOfTexts' /\ RestTyped' /\ OpHasText' /\ DraftSafe'
    BY <1>1, <1>2 DEF DraftInv, EntriesOfTexts, RestTyped, OpHasText, DraftSafe, Current
  <1>4. OpHasEditor'
    BY <1>1, ArtifactsAssumption DEF OpHasEditor, Current
  <1>5. kind \in {"autosave", "discard"} => Head(PlanOf(kind)) # "index"
    BY Stages DEF PlanOf
  <1>6. OpHasWritten'
    BY <1>1, <1>5 DEF OpHasWritten, Exists, Current, At
  <1>7. QED
    BY <1>3, <1>4, <1>6 DEF DraftInv

LEMMA WriteContentKeepsDrafts == ArtInv /\ DraftInv /\ WriteContent => DraftInv'
  <1> SUFFICES ASSUME ArtInv, DraftInv, WriteContent PROVE DraftInv'
    OBVIOUS
  <1>1. ~Idle /\ Proceed /\ Head(op.todo) = "content"
    BY DEF WriteContent, At
  <1>2. /\ op.a \in ArtifactIds /\ op.kind \in {"create", "update"} /\ op.x # Null
        /\ Tail(op.todo) # <<>> /\ Head(Tail(op.todo)) \in {"working", "index"}
        /\ Current(op.a) \in Nat
    BY <1>1, OpFacts, NextStage
  <1>3. Current(op.a) + 1 \in Versions
    BY <1>1, <1>2, ArtifactsAssumption DEF ArtInv, RevisionPrepared, At, Versions
  <1>4. /\ UNCHANGED <<index, working, tab, draft, faults>>
        /\ content' = [content EXCEPT ![op.a][Current(op.a) + 1] = op.x]
        /\ op' = [op EXCEPT !.todo = Tail(@)]
    BY DEF WriteContent, Proceed
  <1>5. /\ op'.kind = op.kind /\ op'.a = op.a /\ op'.x = op.x /\ op'.e = op.e
        /\ op'.seen = op.seen
    BY <1>1, <1>4 DEF ArtInv, OpTyped
  <1>6. EntriesOfTexts' /\ RestTyped'
    BY <1>4, <1>5 DEF DraftInv, EntriesOfTexts, RestTyped, Current
  <1>7. OpHasText' /\ OpHasEditor' /\ OpHasWritten'
    BY <1>1, <1>2, <1>4, <1>5 DEF DraftInv, OpHasText, OpHasEditor, OpHasWritten, Current, At
  <1>8. \A a \in ArtifactIds, v \in Versions : content[a][v] # Null => content'[a][v] # Null
    BY <1>2, <1>3, <1>4 DEF ArtInv, FilesTyped
  <1>9. \A a \in ArtifactIds : Current(a) < MaxVersion => Current(a) + 1 \in Versions
    BY ArtifactsAssumption DEF ArtInv, FilesTyped, Current, Versions
  <1>10. DraftSafe'
    BY <1>4, <1>8, <1>9 DEF DraftInv, DraftSafe, Current
  <1>11. QED
    BY <1>6, <1>7, <1>10 DEF DraftInv

(* A commit takes the working copy away when its text is on disk.          *)
LEMMA WriteWorkingKeepsDrafts == ArtInv /\ DraftInv /\ WriteWorking => DraftInv'
  <1> SUFFICES ASSUME ArtInv, DraftInv, WriteWorking PROVE DraftInv'
    OBVIOUS
  <1>1. ~Idle /\ Proceed /\ Head(op.todo) = "working"
    BY DEF WriteWorking, At
  <1>2. /\ op.a \in ArtifactIds /\ op.kind \in {"update", "autosave", "discard"}
        /\ Tail(op.todo) # <<>> /\ Head(Tail(op.todo)) = "index"
        /\ op.kind \in {"create", "update", "autosave"} => op.x \in Texts /\ op.x # Null
    <2>1. op.kind \in {"create", "delete"} => Head(op.todo) # "working"
      BY <1>1, OpFacts, Stages DEF Remaining
    <2>2. QED
      BY <1>1, <2>1, OpFacts, NextStage DEF Kinds
  <1>3. /\ UNCHANGED <<index, content, tab, faults>>
        /\ working' = [working EXCEPT ![op.a] = IF op.kind = "autosave" THEN op.x ELSE Null]
        /\ draft' = IF op.kind = "discard" THEN [draft EXCEPT ![op.a] = Null] ELSE draft
        /\ op' = [op EXCEPT !.todo = Tail(@)]
    BY DEF WriteWorking, Proceed
  <1>4. /\ op'.kind = op.kind /\ op'.a = op.a /\ op'.x = op.x /\ op'.e = op.e
        /\ op'.seen = op.seen /\ op'.todo = Tail(op.todo)
    BY <1>1, <1>3 DEF ArtInv, OpTyped
  <1>5. EntriesOfTexts' /\ RestTyped'
    BY <1>2, <1>3, <1>4 DEF DraftInv, EntriesOfTexts, RestTyped, Current, Text
  <1>6. OpHasText' /\ OpHasEditor'
    BY <1>1, <1>2, <1>3, <1>4 DEF DraftInv, OpHasText, OpHasEditor, Current, At
  <1>7. OpHasWritten'
    BY <1>1, <1>2, <1>3, <1>4
    DEF DraftInv, OpHasWritten, RestTyped, Exists, Current, At
  <1>8. op.kind = "update" =>
            Current(op.a) < MaxVersion /\ content[op.a][Current(op.a) + 1] # Null
    BY <1>1, <1>2 DEF ArtInv, RevisionPrepared, At
  <1>9. DraftSafe'
    BY <1>2, <1>3, <1>8 DEF DraftInv, DraftSafe, RestTyped, Current
  <1>10. QED
    BY <1>5, <1>6, <1>7, <1>9 DEF DraftInv

LEMMA WriteIndexKeepsDrafts == ArtInv /\ DraftInv /\ WriteIndex => DraftInv'
  <1> SUFFICES ASSUME ArtInv, DraftInv, WriteIndex PROVE DraftInv'
    OBVIOUS
  <1>1. ~Idle /\ Proceed /\ Head(op.todo) = "index" /\ At("index")
    BY DEF WriteIndex, At
  <1>2. PICK a \in ArtifactIds : a = op.a
    BY <1>1, OpFacts
  <1>3. /\ op.kind \in Kinds /\ Tail(op.todo) # <<>> /\ Head(Tail(op.todo)) = "reply"
        /\ op.kind \in {"create", "update", "autosave"} => op.x \in Texts /\ op.x # Null
    BY <1>1, OpFacts, NextStage
  <1>4. PICK new : new = NewMeta(index[a])
    OBVIOUS
  <1>5. /\ UNCHANGED <<content, working, tab, faults>>
        /\ index' = [index EXCEPT ![a] = new]
        /\ draft' = CASE op.kind = "autosave" -> [draft EXCEPT ![a] = op.x]
                      [] op.kind = "discard"  -> draft
                      [] OTHER                -> [draft EXCEPT ![a] = Null]
        /\ op' = [op EXCEPT !.todo = Tail(@)]
    BY <1>2, <1>4 DEF WriteIndex, Proceed
  <1>6. /\ op'.kind = op.kind /\ op'.a = op.a /\ op'.x = op.x /\ op'.e = op.e
        /\ op'.seen = op.seen /\ op'.todo = Tail(op.todo)
    BY <1>1, <1>5 DEF ArtInv, OpTyped
  <1>7. /\ index[a].versions \in Seq(Texts) /\ Len(index[a].versions) = Current(a)
        /\ Current(a) \in Nat
        /\ index \in [ArtifactIds -> [versions : Seq(Text), base : Nat]]
        /\ index[a] = [versions |-> index[a].versions, base |-> index[a].base]
    BY DEF DraftInv, EntriesOfTexts, Current, ArtInv, FilesTyped
  <1>8. /\ new.versions \in Seq(Texts) /\ new.base \in {0, Len(new.versions)}
        /\ op.kind \in {"autosave", "discard"} => Len(new.versions) = Current(a)
        /\ op.kind = "autosave" => new.base = Current(a)
        /\ op.kind = "discard" => new.base = 0
    <2>1. CASE op.kind \in {"create", "update"}
      BY <1>3, <1>4, <1>7, <2>1, AppendRow DEF NewMeta
    <2>2. CASE op.kind = "autosave"
      BY <1>4, <1>7, <2>2 DEF NewMeta
    <2>3. CASE op.kind = "discard"
      BY <1>4, <1>7, <2>3 DEF NewMeta
    <2>4. CASE op.kind = "delete"
      <3>1. <<>> \in Seq(Texts) /\ Len(<<>>) = 0
        OBVIOUS
      <3>2. new = [versions |-> <<>>, base |-> 0]
        BY <1>4, <2>4 DEF NewMeta, Absent
      <3>3. QED
        BY <2>4, <3>1, <3>2
    <2>5. QED
      BY <1>3, <2>1, <2>2, <2>3, <2>4 DEF Kinds
  <1>9. index'[a] = new /\ \A b \in ArtifactIds : b # a => index'[b] = index[b]
    BY <1>5, <1>7
  <1>10. EntriesOfTexts'
    BY <1>8, <1>9 DEF DraftInv, EntriesOfTexts, Current
  <1>11. draft' \in [ArtifactIds -> Text]
    <2>1. draft \in [ArtifactIds -> Text] /\ Null \in Text
      BY DEF DraftInv, RestTyped, Text
    <2>2. QED
      BY <1>3, <1>5, <2>1 DEF Text
  <1>12. RestTyped'
    BY <1>5, <1>6, <1>11 DEF DraftInv, RestTyped
  <1>13. OpHasText' /\ OpHasEditor'
    BY <1>1, <1>3, <1>5, <1>6 DEF DraftInv, OpHasText, OpHasEditor, At
  <1>14. OpHasWritten'
    <2>1. op.kind = "autosave" => Exists(a)'
      BY <1>1, <1>2, <1>8, <1>9 DEF DraftInv, OpHasWritten, Exists, Current
    <2>2. QED
      BY <1>2, <1>3, <1>6, <2>1 DEF OpHasWritten, At
  <1>15. DraftSafe'
    <2>1. ASSUME NEW b \in ArtifactIds, b # a, draft'[b] # Null
          PROVE  \/ index'[b].base # 0 /\ working'[b] # Null
                 \/ Current(b)' < MaxVersion /\ content'[b][Current(b)' + 1] # Null
      <3>1. draft'[b] = draft[b]
        BY <1>5, <2>1 DEF DraftInv, RestTyped
      <3>2. Current(b)' = Current(b) /\ index'[b] = index[b]
        BY <1>9, <2>1 DEF Current
      <3>3. QED
        BY <1>5, <2>1, <3>1, <3>2 DEF DraftInv, DraftSafe
    <2>2. ASSUME draft'[a] # Null
          PROVE  index'[a].base # 0 /\ working'[a] # Null
      <3>1. draft \in [ArtifactIds -> Text]
        BY DEF DraftInv, RestTyped
      <3>2. CASE op.kind = "autosave"
        BY <1>1, <1>2, <1>3, <1>5, <1>7, <1>8, <1>9, <3>2 DEF DraftInv, OpHasWritten, Exists
      <3>3. CASE op.kind = "discard"
        BY <1>1, <1>2, <1>5, <2>2, <3>3 DEF DraftInv, OpHasWritten
      <3>4. CASE op.kind \notin {"autosave", "discard"}
        BY <1>5, <2>2, <3>1, <3>4
      <3>5. QED
        BY <3>2, <3>3, <3>4
    <2>3. QED
      BY <2>1, <2>2 DEF DraftSafe
  <1>16. QED
    BY <1>10, <1>12, <1>13, <1>14, <1>15 DEF DraftInv

(* An operation that ends leaves the files and the drafts as they are.     *)
LEMMA EndKeepsDrafts ==
  ASSUME ArtInv, DraftInv, Done, UNCHANGED <<index, content, working, draft>>,
         tab' \in [Tabs -> Tab], faults' \in 0 .. MaxFaults
  PROVE  DraftInv'
  <1>1. op'.todo = <<>> /\ op'.seen = 0
    BY DEF Done, Resting
  <1>2. EntriesOfTexts' /\ RestTyped' /\ DraftSafe'
    BY <1>1, ArtifactsAssumption
    DEF DraftInv, EntriesOfTexts, RestTyped, DraftSafe, Current
  <1>3. OpHasText' /\ OpHasEditor' /\ OpHasWritten'
    BY <1>1 DEF OpHasText, OpHasEditor, OpHasWritten, Idle
  <1>4. QED
    BY <1>2, <1>3 DEF DraftInv

LEMMA ReplyKeepsDrafts == ArtInv /\ DraftInv /\ Reply => DraftInv'
  <1> SUFFICES ASSUME ArtInv, DraftInv, Reply PROVE DraftInv'
    OBVIOUS
  <1>1. ~Idle
    BY DEF Reply, At
  <1>2. op.a \in ArtifactIds /\ Current(op.a) \in 0 .. MaxVersion
    BY <1>1, OpFacts, ArtifactsAssumption DEF ArtInv, FilesTyped, Current
  <1>3. [a |-> op.a, version |-> Current(op.a), seen |-> Current(op.a)] \in Tab
    BY <1>2 DEF Tab
  <1>4. tab' \in [Tabs -> Tab]
    BY <1>3 DEF Reply, DraftInv, RestTyped
  <1>5. QED
    BY <1>4, EndKeepsDrafts DEF Reply, DraftInv, RestTyped

LEMMA CutShortKeepsDrafts == ArtInv /\ DraftInv /\ CutShort => DraftInv'
  <1> SUFFICES ASSUME ArtInv, DraftInv, CutShort PROVE DraftInv'
    OBVIOUS
  <1>1. faults' \in 0 .. MaxFaults /\ tab' \in [Tabs -> Tab]
    BY ArtifactsAssumption DEF CutShort, DraftInv, RestTyped
  <1>2. QED
    BY <1>1, EndKeepsDrafts DEF CutShort

(* The page shows something else, between two operations.                  *)
LEMMA ShowKeepsDrafts ==
  ASSUME ArtInv, DraftInv, Idle, UNCHANGED <<index, content, working, op, draft, faults>>,
         tab' \in [Tabs -> Tab]
  PROVE  DraftInv'
  <1>1. EntriesOfTexts' /\ RestTyped' /\ DraftSafe'
    BY DEF DraftInv, EntriesOfTexts, RestTyped, DraftSafe, Current
  <1>2. OpHasText' /\ OpHasEditor' /\ OpHasWritten'
    BY DEF OpHasText, OpHasEditor, OpHasWritten, Idle
  <1>3. QED
    BY <1>1, <1>2 DEF DraftInv

LEMMA PageKeepsDrafts ==
  ASSUME ArtInv, DraftInv, NEW e \in Tabs, Page(e)
  PROVE  DraftInv'
  <1> DEFINE b == tab[e].a
  <1>1. b # Null => b \in ArtifactIds /\ Current(b) \in 0 .. MaxVersion
    BY ArtifactsAssumption DEF ArtInv, TabTyped, FilesTyped, Current
  <1>2. ASSUME NEW x \in Texts, Save(e, x) PROVE DraftInv'
    BY <1>1, <1>2, RequestKeepsDrafts DEF Save, Matches, Kinds, Text
  <1>3. ASSUME NEW x \in Texts, Autosave(e, x) PROVE DraftInv'
    BY <1>1, <1>3, RequestKeepsDrafts DEF Autosave, Matches, Kinds, Text
  <1>4. ASSUME NEW v \in Versions, RestoreVersion(e, v) PROVE DraftInv'
    <2>1. b \in ArtifactIds /\ v \in 1 .. Current(b)
      BY <1>1, <1>4 DEF RestoreVersion, Matches, Versions
    <2>2. content[b][v] \in Texts
      <3>1. content[b][v] = index[b].versions[v]
        BY <2>1 DEF ArtInv, RevisionsReadable
      <3>2. index[b].versions \in Seq(Texts) /\ v \in 1 .. Len(index[b].versions)
        BY <2>1 DEF DraftInv, EntriesOfTexts, Current
      <3>3. QED
        BY <3>1, <3>2
    <2>3. QED
      BY <1>2, <1>4, <2>2 DEF RestoreVersion
  <1>5. ASSUME NEW a \in ArtifactIds, Open(e, a) PROVE DraftInv'
    <2>1. Current(a) \in 0 .. MaxVersion
      BY ArtifactsAssumption DEF ArtInv, FilesTyped, Current
    <2>2. [a |-> a, version |-> Current(a), seen |-> Current(a)] \in Tab
      BY <2>1 DEF Tab
    <2>3. tab' \in [Tabs -> Tab]
      BY <1>5, <2>2 DEF Open, DraftInv, RestTyped
    <2>4. QED
      BY <1>5, <2>3, ShowKeepsDrafts DEF Open
  <1>6. ASSUME Organize(e) PROVE DraftInv'
    <2>1. PICK n \in 0 .. MaxVersion : n = Current(b)
      BY <1>1, <1>6 DEF Organize
    <2>2. tab' = [tab EXCEPT ![e].version = n]
      BY <1>6, <2>1 DEF Organize
    <2>3. tab' \in [Tabs -> Tab]
      BY <2>2 DEF DraftInv, RestTyped, Tab
    <2>4. QED
      BY <1>6, <2>3, ShowKeepsDrafts DEF Organize
  <1>7. QED
    BY <1>2, <1>3, <1>4, <1>5, <1>6 DEF Page

LEMMA StepKeepsDrafts == ArtInv /\ DraftInv /\ [ArtifactsNext]_artifactVars => DraftInv'
  <1> SUFFICES ASSUME ArtInv, DraftInv, [ArtifactsNext]_artifactVars PROVE DraftInv'
    OBVIOUS
  <1>1. CASE StoreStep
    BY <1>1, WriteContentKeepsDrafts, WriteWorkingKeepsDrafts, WriteIndexKeepsDrafts,
       ReplyKeepsDrafts DEF StoreStep
  <1>2. CASE CutShort
    BY <1>2, CutShortKeepsDrafts
  <1>3. CASE \E e \in Tabs : Page(e)
    BY <1>3, PageKeepsDrafts
  <1>4. ASSUME NEW a \in ArtifactIds, NEW x \in Texts, Create(a, x) PROVE DraftInv'
    BY <1>4, RequestKeepsDrafts DEF Create, Kinds, Text
  <1>5. ASSUME NEW a \in ArtifactIds, Discard(a) \/ Delete(a) PROVE DraftInv'
    BY <1>5, RequestKeepsDrafts DEF Discard, Delete, Kinds, Text
  <1>6. CASE UNCHANGED artifactVars
    BY <1>6 DEF artifactVars, DraftInv, EntriesOfTexts, RestTyped, OpHasText, OpHasEditor,
                OpHasWritten, DraftSafe, Current, Exists, Idle, At
  <1>7. QED
    BY <1>1, <1>2, <1>3, <1>4, <1>5, <1>6 DEF ArtifactsNext

LEMMA DraftsAlways == ArtifactsSpec => [](ArtInv /\ DraftInv)
  <1>1. ArtifactsInit => DraftInv
    BY DraftInit
  <1>2. QED
    BY <1>1, StepKeepsDrafts, ArtifactsInvariant, PTL DEF ArtifactsSpec

(* The plans and the histories as the type invariant has them.             *)
LEMMA PlansTyped ==
  ASSUME NEW kind \in Kinds
  PROVE  Remaining(kind) \cup {<<>>} \subseteq Plans
  <1>1. ASSUME NEW n \in 0 .. 4, NEW s \in Seq(Steps), Len(s) = n PROVE s \in Plans
    BY <1>1 DEF Plans
  <1>2. /\ <<>> \in Seq(Steps) /\ <<"reply">> \in Seq(Steps) /\ <<"index", "reply">> \in Seq(Steps)
        /\ <<"working", "index", "reply">> \in Seq(Steps)
        /\ <<"content", "index", "reply">> \in Seq(Steps)
        /\ <<"content", "working", "index", "reply">> \in Seq(Steps)
    BY DEF Steps
  <1>3. /\ Len(<<>>) = 0 /\ Len(<<"reply">>) = 1 /\ Len(<<"index", "reply">>) = 2
        /\ Len(<<"working", "index", "reply">>) = 3 /\ Len(<<"content", "index", "reply">>) = 3
        /\ Len(<<"content", "working", "index", "reply">>) = 4
    OBVIOUS
  <1>4. \A s \in Seq(Steps) : Len(s) \in 0 .. 4 => s \in Plans
    BY <1>1
  <1>5. /\ <<>> \in Plans
        /\ <<"reply">> \in Plans
        /\ <<"index", "reply">> \in Plans
        /\ <<"working", "index", "reply">> \in Plans
        /\ <<"content", "index", "reply">> \in Plans
        /\ <<"content", "working", "index", "reply">> \in Plans
    <2>1. 0 \in 0 .. 4 /\ 1 \in 0 .. 4 /\ 2 \in 0 .. 4 /\ 3 \in 0 .. 4 /\ 4 \in 0 .. 4
      OBVIOUS
    <2>2. QED
      BY <1>2, <1>3, <1>4, <2>1, Zenon
  <1>6. QED
    BY <1>5 DEF Remaining, Kinds

LEMMA HistoryTyped ==
  ASSUME ArtInv, DraftInv, NEW a \in ArtifactIds
  PROVE  index[a] \in Meta
  <1>1. /\ index[a].versions \in Seq(Texts) /\ Len(index[a].versions) = Current(a)
        /\ Current(a) \in 0 .. MaxVersion /\ index[a].base \in 0 .. MaxVersion
        /\ index[a] \in [versions : Seq(Text), base : Nat]
    BY ArtifactsAssumption DEF DraftInv, EntriesOfTexts, ArtInv, FilesTyped, Current
  <1>2. index[a].versions \in [1 .. Current(a) -> Texts]
    BY <1>1
  <1>3. index[a].versions \in UNION {[1 .. n -> Texts] : n \in 0 .. MaxVersion}
    BY <1>1, <1>2
  <1>4. QED
    BY <1>1, <1>3 DEF Meta

(* "Autosaved": what a writer was told is safe stays a working copy of the *)
(* current revision until it is committed or discarded, or lies in the     *)
(* file of the next revision when the commit was cut short.                *)
THEOREM DraftNotLostAlways == ArtifactsSpec => []DraftNotLost
  <1>1. ArtInv /\ DraftInv => DraftNotLost
    <2> SUFFICES ASSUME ArtInv, DraftInv PROVE DraftNotLost
      OBVIOUS
    <2>1. index \in [ArtifactIds -> Meta]
      <3>1. index \in [ArtifactIds -> [versions : Seq(Text), base : Nat]]
        BY DEF ArtInv, FilesTyped
      <3>2. QED
        BY <3>1, HistoryTyped
    <2>2. op \in Op
      <3>1. /\ op \in [todo : Seq(Steps), kind : Kinds, a : ArtifactIds \cup {Null}, x : Text,
                       e : Tabs \cup {Null}, seen : Nat]
            /\ op.seen \in 0 .. MaxVersion
        BY DEF ArtInv, OpTyped, DraftInv, RestTyped
      <3>2. op.todo \in Plans
        BY <3>1, PlansTyped DEF ArtInv, OpTyped, Idle
      <3>3. QED
        BY <3>1, <3>2 DEF Op, Text
    <2>3. ArtifactsTypeOK
      BY <2>1, <2>2 DEF ArtifactsTypeOK, ArtInv, FilesTyped, DraftInv, RestTyped, Text
    <2>4. DraftIsOfCurrent
      BY DEF DraftIsOfCurrent, Shown, DraftInv, EntriesOfTexts
    <2>5. \A a \in ArtifactIds :
              draft[a] # Null =>
                  \/ Shown(a) # Null
                  \/ Current(a) < MaxVersion /\ content[a][Current(a) + 1] # Null
      BY DEF DraftInv, DraftSafe, Shown
    <2>6. QED
      BY <2>3, <2>4, <2>5 DEF DraftNotLost
  <1>2. QED
    BY <1>1, DraftsAlways, PTL

(* "Per-artifact optimistic concurrency": the revision an editor replaces  *)
(* is the one its text was made from, unless the page took its version     *)
(* over from the answer to a save of status or tags.                       *)
THEOREM EditsWhatItSawAlways == ArtifactsSpec => EditsWhatItSaw
  <1>1. ArtInv /\ DraftInv /\ [ArtifactsNext]_artifactVars =>
          [\A a \in ArtifactIds :
              At("index") /\ op.kind = "update" /\ op.a = a /\ index'[a] # index[a] =>
                  op.seen = Current(a) \/ tab[op.e].version # op.seen]_artifactVars
    <2>1. ASSUME ArtInv, DraftInv, NEW a \in ArtifactIds, At("index"), op.kind = "update", op.a = a
          PROVE  op.seen = Current(a) \/ tab[op.e].version # op.seen
      <3>1. ~Idle /\ ~At("reply")
        BY <2>1 DEF At
      <3>2. QED
        BY <2>1, <3>1 DEF DraftInv, OpHasEditor
    <2>2. QED
      BY <2>1
  <1>2. QED
    BY <1>1, DraftsAlways, PTL DEF ArtifactsSpec, EditsWhatItSaw

-----------------------------------------------------------------------------
(* The outline of a manuscript.                                            *)
USE ManuscriptAssumption

(* No two nodes of a set have the same place.                              *)
Apart(o, S) == \A x, y \in S : o[x].position = o[y].position => x = y

LEMMA Below ==
    ASSUME NEW k \in Nat
    PROVE  IsFiniteSet(0 .. k - 1) /\ Cardinality(0 .. k - 1) = k
<1>1. 0 \in Int /\ k - 1 \in Int
    OBVIOUS
<1>2. /\ IsFiniteSet(0 .. k - 1)
      /\ Cardinality(0 .. k - 1) = IF 0 > k - 1 THEN 0 ELSE k - 1 - 0 + 1
    BY <1>1, FS_Interval, Zenon
<1> QED
    BY <1>2

(* The numbers that a set is given are all there are below its size.       *)
LEMMA Numbers ==
    ASSUME NEW C, IsFiniteSet(C), NEW f \in [C -> Nat],
           \A x, y \in C : f[x] = f[y] => x = y,
           \A x \in C : f[x] < Cardinality(C)
    PROVE  {f[x] : x \in C} = 0 .. Cardinality(C) - 1
<1>1. PICK k \in Nat : k = Cardinality(C)
    BY FS_CardinalityType
<1>2. IsFiniteSet(0 .. k - 1) /\ Cardinality(0 .. k - 1) = k
    BY Below
<1>3. f \in Injection(C, 0 .. k - 1)
  <2>1. \A x \in C : f[x] \in 0 .. k - 1
    BY <1>1
  <2>2. f \in [C -> 0 .. k - 1]
    BY <2>1
  <2> QED
    BY <2>2 DEF Injection, IsInjective
<1>4. f \in Surjection(C, 0 .. k - 1)
    BY <1>1, <1>2, <1>3, FS_Injection
<1> QED
    BY <1>1, <1>4 DEF Surjection

LEMMA ChildrenFinite ==
    ASSUME NEW o, IsFiniteSet(DOMAIN o), NEW p
    PROVE  /\ Children(o, p) \subseteq DOMAIN o
           /\ IsFiniteSet(Children(o, p)) /\ Cardinality(Children(o, p)) \in Nat
           /\ Cardinality(DOMAIN o) \in Nat
<1>1. Children(o, p) \in SUBSET DOMAIN o
    BY DEF Children
<1> QED
    BY <1>1, FS_Subset, FS_CardinalityType

LEMMA ChildrenApart ==
    ASSUME NEW o, IsFiniteSet(DOMAIN o), Dense(o), NEW p \in DOMAIN o \cup {Top}
    PROVE  Apart(o, Children(o, p))
<1> DEFINE C == Children(o, p)
<1>1. PICK k \in Nat : k = Cardinality(C)
    BY ChildrenFinite
<1>2. {o[n].position : n \in C} = 0 .. k - 1
    BY <1>1 DEF Dense
<1>3. IsFiniteSet(C) /\ IsFiniteSet(0 .. k - 1) /\ Cardinality(0 .. k - 1) = k
    BY Below, ChildrenFinite
<1> HIDE DEF C
<1> DEFINE f == [n \in C |-> o[n].position]
<1>4. f \in Surjection(C, 0 .. k - 1)
    BY <1>2 DEF Surjection
<1>5. f \in Injection(C, 0 .. k - 1)
  <2> HIDE DEF f
  <2> QED
    BY <1>1, <1>3, <1>4, FS_Surjection
<1>6. \A x, y \in C : f[x] = f[y] => x = y
  <2> HIDE DEF f
  <2> QED
    BY <1>5 DEF Injection, IsInjective
<1>7. Apart(o, C)
    BY <1>6 DEF Apart
<1> QED
    BY <1>7 DEF C

(* Ranks among some nodes are below their number and in the order of their *)
(* places.                                                                 *)
LEMMA RankIs ==
    ASSUME NEW o, NEW S, IsFiniteSet(S), \A n \in S : o[n].position \in Nat, Apart(o, S)
    PROVE  /\ Cardinality(S) \in Nat
           /\ \A m \in S : Rank(o, m, S) \in Nat /\ Rank(o, m, S) < Cardinality(S)
           /\ \A m, k \in S : Rank(o, m, S) = Rank(o, k, S) => m = k
<1> DEFINE Before(m) == {k \in S : o[k].position < o[m].position}
<1>1. Cardinality(S) \in Nat
    BY FS_CardinalityType
<1>2. \A m \in S : IsFiniteSet(Before(m)) /\ Cardinality(Before(m)) \in Nat
  <2>1. \A m \in S : Before(m) \in SUBSET S
    OBVIOUS
  <2> HIDE DEF Before
  <2> QED
    BY <2>1, FS_Subset, FS_CardinalityType
<1>3. ASSUME NEW m \in S, NEW T \in SUBSET S, Before(m) \subseteq T, m \in T
      PROVE  Cardinality(Before(m)) < Cardinality(T)
  <2>1. m \notin Before(m)
    OBVIOUS
  <2> HIDE DEF Before
  <2>2. Cardinality(Before(m) \cup {m}) = Cardinality(Before(m)) + 1
    BY <1>2, <2>1, FS_AddElement
  <2>3. IsFiniteSet(T) /\ Cardinality(T) \in Nat
    BY FS_Subset, FS_CardinalityType
  <2>4. Before(m) \cup {m} \in SUBSET T
    BY <1>3
  <2>5. Cardinality(Before(m) \cup {m}) <= Cardinality(T)
    BY <2>3, <2>4, FS_Subset
  <2> QED
    BY <1>2, <2>2, <2>3, <2>5
<1>4. ASSUME NEW m \in S, NEW k \in S, o[m].position < o[k].position
      PROVE  Cardinality(Before(m)) < Cardinality(Before(k))
  <2>1. Before(k) \in SUBSET S /\ m \in Before(k)
    BY <1>4
  <2>2. Before(m) \subseteq Before(k)
    BY <1>4
  <2> QED
    BY <1>3, <2>1, <2>2
<1>5. \A m \in S : Cardinality(Before(m)) < Cardinality(S)
    BY <1>3
<1>6. ASSUME NEW m \in S, NEW k \in S, Cardinality(Before(m)) = Cardinality(Before(k))
      PROVE  m = k
  <2> HIDE DEF Before
  <2>1. PICK c \in Nat : c = Cardinality(Before(m)) /\ c = Cardinality(Before(k))
    BY <1>2, <1>6
  <2>2. o[m].position < o[k].position => c < c
    BY <1>4, <2>1, Zenon
  <2>3. o[k].position < o[m].position => c < c
    BY <1>4, <2>1, Zenon
  <2>4. o[m].position = o[k].position
    BY <2>2, <2>3
  <2> QED
    BY <2>4 DEF Apart
<1> QED
    BY <1>1, <1>2, <1>5, <1>6 DEF Rank

(* _renumber: the siblings but one, in numbers without gaps but one.       *)
NumberedAround(o, S, q, w, gap) ==
    /\ IsFiniteSet(S) /\ Cardinality(S) \in Nat
    /\ \A m \in S :
          /\ Renumbered(o, m, w, gap) \in Places
          /\ Renumbered(o, m, w, gap).parent = q
          /\ Renumbered(o, m, w, gap).position # gap
          /\ Renumbered(o, m, w, gap).position <= Cardinality(S)
          /\ gap >= Cardinality(S) => Renumbered(o, m, w, gap).position < Cardinality(S)
    /\ \A m, k \in S :
          Renumbered(o, m, w, gap).position = Renumbered(o, k, w, gap).position => m = k

LEMMA RenumberedIs ==
    ASSUME NEW o, IsOutline(o), IsFiniteSet(DOMAIN o), Dense(o),
           NEW q \in DOMAIN o \cup {Top}, NEW w, NEW gap \in Nat,
           NEW S, S = Children(o, q) \ {w}
    PROVE  NumberedAround(o, S, q, w, gap)
<1>1. IsFiniteSet(S) /\ Cardinality(S) \in Nat
    BY ChildrenFinite, FS_RemoveElement, FS_CardinalityType
<1>2. Apart(o, S)
    BY ChildrenApart DEF Apart
<1>3. \A m \in S : o[m] \in Places /\ o[m].parent = q /\ o[m].position \in Nat
    BY DEF Children, IsOutline, Places
<1>4. /\ \A m \in S : Rank(o, m, S) \in Nat /\ Rank(o, m, S) < Cardinality(S)
      /\ \A m, k \in S : Rank(o, m, S) = Rank(o, k, S) => m = k
    BY <1>1, <1>2, <1>3, RankIs
<1>5. ASSUME NEW m \in S
      PROVE  /\ Renumbered(o, m, w, gap) \in Places
             /\ Renumbered(o, m, w, gap).parent = q
             /\ Renumbered(o, m, w, gap).position =
                    IF Rank(o, m, S) >= gap THEN Rank(o, m, S) + 1 ELSE Rank(o, m, S)
  <2>1. Renumbered(o, m, w, gap) =
            [o[m] EXCEPT !.position = IF Rank(o, m, S) >= gap THEN Rank(o, m, S) + 1
                                      ELSE Rank(o, m, S)]
    BY <1>3 DEF Renumbered
  <2>2. PICK r \in Nat : r = IF Rank(o, m, S) >= gap THEN Rank(o, m, S) + 1 ELSE Rank(o, m, S)
    BY <1>4
  <2>3. PICK u \in Places : u = o[m] /\ u.parent = q
    BY <1>3
  <2>4. [u EXCEPT !.position = r] \in Places /\ [u EXCEPT !.position = r].parent = q
        /\ [u EXCEPT !.position = r].position = r
    BY <2>3 DEF Places
  <2> QED
    BY <2>1, <2>2, <2>3, <2>4
<1>6. ASSUME NEW m \in S
      PROVE  /\ Renumbered(o, m, w, gap).position # gap
             /\ Renumbered(o, m, w, gap).position <= Cardinality(S)
             /\ gap >= Cardinality(S) => Renumbered(o, m, w, gap).position < Cardinality(S)
  <2>1. PICK c \in Nat : c = Cardinality(S)
    BY <1>1
  <2>2. PICK r \in Nat : r = Rank(o, m, S) /\ r < c
    BY <1>4, <2>1
  <2>3. PICK z : z = Renumbered(o, m, w, gap).position
    OBVIOUS
  <2>4. z = IF r >= gap THEN r + 1 ELSE r
    BY <1>5, <2>2, <2>3
  <2> QED
    BY <2>1, <2>2, <2>3, <2>4
<1>7. ASSUME NEW m \in S, NEW k \in S,
             Renumbered(o, m, w, gap).position = Renumbered(o, k, w, gap).position
      PROVE  m = k
  <2>1. Rank(o, m, S) = Rank(o, k, S)
    <3>1. PICK r \in Nat, x \in Nat : r = Rank(o, m, S) /\ x = Rank(o, k, S)
      BY <1>4
    <3>2. PICK z : z = Renumbered(o, m, w, gap).position
      OBVIOUS
    <3>3. z = IF r >= gap THEN r + 1 ELSE r
      BY <1>5, <3>1, <3>2
    <3>4. z = IF x >= gap THEN x + 1 ELSE x
      BY <1>5, <1>7, <3>1, <3>2
    <3> QED
      BY <3>1, <3>3, <3>4
  <2> QED
    BY <1>4, <2>1
<1> QED
    BY <1>1, <1>5, <1>6, <1>7, Zenon DEF NumberedAround

(* A finite tree of nodes, with the children of each in one order.         *)
Tree(o) == IsOutline(o) /\ IsFiniteSet(DOMAIN o) /\ Sound(o)

DenseAt(o, p) == {o[n].position : n \in Children(o, p)} = 0 .. Cardinality(Children(o, p)) - 1

LEMMA DenseKept ==
    ASSUME NEW o, NEW c, NEW q, Children(c, q) = Children(o, q),
           \A m \in Children(o, q) : c[m] = o[m], DenseAt(o, q)
    PROVE  DenseAt(c, q)
<1>1. PICK C : C = Children(o, q)
    OBVIOUS
<1>2. {c[n].position : n \in C} = {o[n].position : n \in C}
    BY <1>1
<1> QED
    BY <1>1, <1>2 DEF DenseAt

LEMMA DenseAgain ==
    ASSUME NEW c, NEW q, IsFiniteSet(Children(c, q)), Apart(c, Children(c, q)),
           \A m \in Children(c, q) :
              c[m].position \in Nat /\ c[m].position < Cardinality(Children(c, q))
    PROVE  DenseAt(c, q)
<1>1. PICK C : C = Children(c, q)
    OBVIOUS
<1> DEFINE f == [m \in C |-> c[m].position]
<1>2. f \in [C -> Nat] /\ (\A x \in C : f[x] < Cardinality(C) /\ f[x] = c[x].position)
    BY <1>1
<1>3. \A x, y \in C : f[x] = f[y] => x = y
    BY <1>1 DEF Apart
<1>4. {f[x] : x \in C} = {c[x].position : x \in C}
    OBVIOUS
<1> HIDE DEF f
<1>5. {f[x] : x \in C} = 0 .. Cardinality(C) - 1
    BY <1>1, <1>2, <1>3, Numbers
<1> QED
    BY <1>1, <1>4, <1>5 DEF DenseAt

(* create: a leaf is added behind its siblings.                            *)
LEMMA CreatedIs ==
    ASSUME NEW o, Tree(o), NEW n \in Nodes \ DOMAIN o, NEW p \in DOMAIN o \cup {Top}
    PROVE  Tree(Created(o, n, p))
<1>1. PICK c : c = Created(o, n, p)
    OBVIOUS
<1>2. PICK k \in Nat : k = Cardinality(Children(o, p))
    BY ChildrenFinite DEF Tree
<1>3. /\ DOMAIN c = DOMAIN o \cup {n}
      /\ c[n] = [parent |-> p, position |-> k]
      /\ \A m \in DOMAIN o : c[m] = o[m]
    BY <1>1, <1>2 DEF Created
<1>4. n # p /\ n # Top
    BY ManuscriptAssumption
<1>5. \A m \in DOMAIN o : o[m].parent \in DOMAIN o \cup {Top}
    BY DEF Tree, Sound, ParentsExist
<1>6. IsOutline(c) /\ IsFiniteSet(DOMAIN c)
  <2>1. c[n] \in Places
    BY <1>3 DEF Tree, IsOutline, Places
  <2> QED
    BY <1>3, <2>1, FS_AddElement DEF Tree, IsOutline
<1>7. ParentsExist(c)
    BY <1>3, <1>5 DEF ParentsExist
<1>8. NoCycle(c)
  <2> SUFFICES ASSUME NEW S \in SUBSET DOMAIN c, S # {}
               PROVE  \E m \in S : c[m].parent \notin S
    BY DEF NoCycle
  <2>1. CASE S \ {n} = {}
    BY <1>3, <1>4, <2>1
  <2>2. CASE S \ {n} # {}
    <3>1. S \ {n} \in SUBSET DOMAIN o
      BY <1>3
    <3>2. PICK m \in S \ {n} : o[m].parent \notin S \ {n}
      BY <2>2, <3>1 DEF Tree, Sound, NoCycle
    <3>3. o[m].parent # n
      BY <1>4, <1>5, <3>1, <3>2
    <3> QED
      BY <1>3, <3>1, <3>2, <3>3
  <2> QED
    BY <2>1, <2>2
<1>9. ASSUME NEW q \in DOMAIN c \cup {Top} PROVE DenseAt(c, q)
  <2>1. CASE q = n
    <3>1. Children(c, q) = {}
      BY <1>3, <1>4, <1>5, <2>1 DEF Children
    <3> QED
      BY <3>1, FS_EmptySet DEF DenseAt
  <2>2. CASE q = p
    <3>1. Children(c, p) = Children(o, p) \cup {n} /\ n \notin Children(o, p)
      BY <1>3 DEF Children
    <3>2. Cardinality(Children(c, p)) = k + 1
      BY <1>2, <3>1, ChildrenFinite, FS_AddElement DEF Tree
    <3>3. {o[m].position : m \in Children(o, p)} = 0 .. k - 1
      BY <1>2 DEF Tree, Sound, Dense
    <3>4. {c[m].position : m \in Children(c, p)} = {o[m].position : m \in Children(o, p)} \cup {k}
      BY <1>3, <3>1 DEF Children
    <3>5. (0 .. k - 1) \cup {k} = 0 .. (k + 1) - 1
      BY <1>2
    <3> QED
      BY <2>2, <3>2, <3>3, <3>4, <3>5 DEF DenseAt
  <2>3. CASE q # n /\ q # p
    <3>1. Children(c, q) = Children(o, q)
      BY <1>3, <2>3 DEF Children
    <3>2. DenseAt(o, q)
      BY <1>3, <2>3 DEF Tree, Sound, Dense, DenseAt
    <3>3. \A m \in Children(o, q) : c[m] = o[m]
      BY <1>3 DEF Children
    <3> QED
      BY <3>1, <3>2, <3>3, DenseKept
  <2> QED
    BY <2>1, <2>2, <2>3
<1>10. Dense(c)
    BY <1>9 DEF Dense, DenseAt
<1> QED
    BY <1>1, <1>6, <1>7, <1>8, <1>10 DEF Tree, Sound

(* Siblings that have been numbered again, around a gap that was filled or *)
(* without one.                                                            *)
LEMMA SiblingsClosed ==
    ASSUME NEW o, Tree(o), NEW q \in DOMAIN o \cup {Top}, NEW w, NEW gap \in Nat,
           gap >= Cardinality(DOMAIN o), NEW c, Children(c, q) = Children(o, q) \ {w},
           \A m \in Children(c, q) : c[m] = Renumbered(o, m, w, gap)
    PROVE  DenseAt(c, q)
<1>1. PICK S : S = Children(o, q) \ {w}
    OBVIOUS
<1>2. /\ IsFiniteSet(S) /\ Cardinality(S) \in Nat
      /\ \A m \in S :
            /\ Renumbered(o, m, w, gap) \in Places
            /\ gap >= Cardinality(S) => Renumbered(o, m, w, gap).position < Cardinality(S)
      /\ \A m, k \in S :
            Renumbered(o, m, w, gap).position = Renumbered(o, k, w, gap).position => m = k
  <2>1. IsOutline(o) /\ IsFiniteSet(DOMAIN o) /\ Dense(o)
    BY DEF Tree, Sound
  <2>2. NumberedAround(o, S, q, w, gap)
    BY <1>1, <2>1, RenumberedIs
  <2> QED
    BY <2>2 DEF NumberedAround
<1>3. Cardinality(S) <= Cardinality(DOMAIN o) /\ Cardinality(DOMAIN o) \in Nat
  <2>1. S \in SUBSET DOMAIN o
    BY <1>1 DEF Children
  <2> QED
    BY <2>1, FS_Subset, FS_CardinalityType DEF Tree
<1>4. gap >= Cardinality(S)
    BY <1>2, <1>3
<1>5. \A m \in S : c[m].position \in Nat /\ c[m].position < Cardinality(S)
    BY <1>1, <1>2, <1>4 DEF Places
<1>6. Apart(c, S)
    BY <1>1, <1>2 DEF Apart
<1> QED
  <2>1. S = Children(c, q)
    BY <1>1
  <2> QED
    BY <1>2, <1>5, <1>6, <2>1, DenseAgain, Zenon

(* delete: a leaf is taken out, and its siblings close up.                 *)
LEMMA DeletedIs ==
    ASSUME NEW o, Tree(o), NEW n \in DOMAIN o, Children(o, n) = {}
    PROVE  Tree(Deleted(o, n))
<1>1. PICK c : c = Deleted(o, n)
    OBVIOUS
<1>2. PICK g \in Nat : g = NoGap(o) /\ g = Cardinality(DOMAIN o)
    BY FS_CardinalityType DEF Tree, NoGap
<1>3. /\ DOMAIN c = DOMAIN o \ {n}
      /\ \A m \in DOMAIN c : c[m] = IF o[m].parent = o[n].parent THEN Renumbered(o, m, n, g) ELSE o[m]
    BY <1>1, <1>2 DEF Deleted
<1>4. \A m \in DOMAIN o : o[m] \in Places /\ o[m].parent \in DOMAIN o \cup {Top} /\ o[m].parent # n
    BY DEF Tree, IsOutline, Sound, ParentsExist, Children
<1>5. \A m \in DOMAIN c : c[m] \in Places /\ c[m].parent = o[m].parent
  <2>1. ASSUME NEW m \in DOMAIN c, o[m].parent = o[n].parent
        PROVE  Renumbered(o, m, n, g) \in Places /\ Renumbered(o, m, n, g).parent = o[m].parent
    <3>1. m \in Children(o, o[n].parent) \ {n}
      BY <1>3, <2>1 DEF Children
    <3>2. o[n].parent \in DOMAIN o \cup {Top}
      BY <1>4
    <3>3. IsOutline(o) /\ IsFiniteSet(DOMAIN o) /\ Dense(o)
      BY DEF Tree, Sound
    <3>4. PICK S : S = Children(o, o[n].parent) \ {n}
      OBVIOUS
    <3>5. NumberedAround(o, S, o[n].parent, n, g)
      BY <3>2, <3>3, <3>4, RenumberedIs
    <3> QED
      BY <2>1, <3>1, <3>4, <3>5 DEF NumberedAround
  <2> QED
    BY <1>3, <1>4, <2>1
<1>6. IsOutline(c) /\ IsFiniteSet(DOMAIN c)
    BY <1>3, <1>5, FS_RemoveElement DEF Tree, IsOutline
<1>7. ParentsExist(c)
    BY <1>3, <1>4, <1>5 DEF ParentsExist
<1>8. NoCycle(c)
    BY <1>3, <1>5 DEF Tree, Sound, NoCycle
<1>9. ASSUME NEW q \in DOMAIN c \cup {Top} PROVE DenseAt(c, q)
  <2>1. Children(c, q) = Children(o, q) \ {n}
    BY <1>3, <1>5 DEF Children
  <2>2. CASE q = o[n].parent
    <3>1. \A m \in Children(c, q) : c[m] = Renumbered(o, m, n, g)
      BY <1>3, <1>5, <2>2 DEF Children
    <3>2. q \in DOMAIN o \cup {Top} /\ g >= Cardinality(DOMAIN o)
      BY <1>2, <1>3
    <3> QED
      BY <1>2, <3>2, <2>1, <3>1, SiblingsClosed
  <2>3. CASE q # o[n].parent
    <3>1. Children(c, q) = Children(o, q)
      BY <2>1, <2>3 DEF Children
    <3>2. \A m \in Children(o, q) : c[m] = o[m]
      BY <1>3, <1>5, <2>3, <3>1 DEF Children
    <3>3. DenseAt(o, q)
      BY <1>3 DEF Tree, Sound, Dense, DenseAt
    <3> QED
      BY <3>1, <3>2, <3>3, DenseKept
  <2> QED
    BY <2>2, <2>3
<1>10. Dense(c)
    BY <1>9 DEF Dense, DenseAt
<1> QED
    BY <1>1, <1>6, <1>7, <1>8, <1>10 DEF Tree, Sound

(* What is under a node is closed under children.                          *)
LEMMA UnderIs ==
    ASSUME NEW o, NEW n \in DOMAIN o
    PROVE  /\ n \in Under(o, n)
           /\ \A m \in DOMAIN o : o[m].parent \in Under(o, n) => m \in Under(o, n)
    BY DEF Under

(* move: a node goes to a place among the children of one that is not      *)
(* under it.                                                               *)
LEMMA MovedIs ==
    ASSUME NEW o, Tree(o), NEW n \in DOMAIN o, NEW p \in DOMAIN o \cup {Top},
           p \notin Under(o, n), NEW i \in Nat
    PROVE  Tree(Moved(o, n, p, i))
<1>1. PICK c : c = Moved(o, n, p, i)
    OBVIOUS
<1>2. PICK others : others = Children(o, p) \ {n}
    OBVIOUS
<1>3. PICK k \in Nat : k = Cardinality(others)
    BY <1>2, ChildrenFinite, FS_RemoveElement, FS_CardinalityType DEF Tree
<1>4. PICK place \in Nat : place = (IF i <= k THEN i ELSE k) /\ place <= k
    BY <1>3
<1>5. PICK g \in Nat : g = NoGap(o) /\ g = Cardinality(DOMAIN o)
    BY FS_CardinalityType DEF Tree, NoGap
<1>6. /\ DOMAIN c = DOMAIN o
      /\ \A m \in DOMAIN o :
            c[m] = IF m = n THEN [parent |-> p, position |-> place]
                   ELSE IF o[m].parent = p THEN Renumbered(o, m, n, place)
                   ELSE IF o[m].parent = o[n].parent THEN Renumbered(o, m, n, g)
                   ELSE o[m]
    BY <1>1, <1>2, <1>3, <1>4, <1>5 DEF Moved
<1>7. \A m \in DOMAIN o : o[m] \in Places /\ o[m].parent \in DOMAIN o \cup {Top}
    BY DEF Tree, IsOutline, Sound, ParentsExist
<1>8. NumberedAround(o, others, p, n, place)
    BY <1>2, RenumberedIs DEF Tree, Sound
<1>9. PICK left : left = Children(o, o[n].parent) \ {n}
    OBVIOUS
<1>10. NumberedAround(o, left, o[n].parent, n, g)
    BY <1>7, <1>9, RenumberedIs DEF Tree, Sound
<1>11. ASSUME NEW m \in DOMAIN o
       PROVE  c[m] \in Places /\ c[m].parent = IF m = n THEN p ELSE o[m].parent
  <2>1. CASE m = n
    BY <1>6, <2>1 DEF Tree, IsOutline, Places
  <2>2. CASE m # n /\ o[m].parent = p
    <3>1. m \in others /\ c[m] = Renumbered(o, m, n, place)
      BY <1>2, <1>6, <2>2 DEF Children
    <3> QED
      BY <1>8, <2>2, <3>1 DEF NumberedAround
  <2>3. CASE m # n /\ o[m].parent # p /\ o[m].parent = o[n].parent
    <3>1. m \in left /\ c[m] = Renumbered(o, m, n, g)
      BY <1>9, <1>6, <2>3 DEF Children
    <3> QED
      BY <1>10, <2>3, <3>1 DEF NumberedAround
  <2>4. CASE m # n /\ o[m].parent # p /\ o[m].parent # o[n].parent
    BY <1>6, <1>7, <2>4
  <2> QED
    BY <2>1, <2>2, <2>3, <2>4
<1>12. IsOutline(c) /\ IsFiniteSet(DOMAIN c)
    BY <1>6, <1>11 DEF Tree, IsOutline
<1>13. ParentsExist(c)
    BY <1>6, <1>7, <1>11 DEF ParentsExist
<1>14. NoCycle(c)
  <2> SUFFICES ASSUME NEW S \in SUBSET DOMAIN o, S # {}, \A m \in S : c[m].parent \in S
               PROVE  FALSE
    BY <1>6 DEF NoCycle
  <2>1. n \in S
    <3>1. PICK m \in S : o[m].parent \notin S
      BY DEF Tree, Sound, NoCycle
    <3> QED
      BY <1>11, <3>1
  <2>2. p \in S
    BY <1>11, <2>1
  <2>3. S \ Under(o, n) \in SUBSET DOMAIN o /\ S \ Under(o, n) # {}
    BY <2>2
  <2>4. PICK m \in S \ Under(o, n) : o[m].parent \notin S \ Under(o, n)
    BY <2>3 DEF Tree, Sound, NoCycle
  <2>5. m # n /\ o[m].parent \notin Under(o, n)
    BY <2>4, UnderIs
  <2> QED
    BY <1>11, <2>4, <2>5
<1>15. ASSUME NEW q \in DOMAIN o \cup {Top} PROVE DenseAt(c, q)
  <2>1. CASE q = p
    <3>1. Children(c, p) = others \cup {n} /\ n \notin others
      BY <1>2, <1>6, <1>11 DEF Children
    <3>2. IsFiniteSet(Children(c, p)) /\ Cardinality(Children(c, p)) = k + 1
      BY <1>3, <1>8, <3>1, FS_AddElement DEF NumberedAround
    <3>3. ASSUME NEW m \in others
          PROVE  /\ c[m] = Renumbered(o, m, n, place)
                 /\ c[m].position \in Nat /\ c[m].position # place /\ c[m].position <= k
      <4>1. c[m] = Renumbered(o, m, n, place)
        BY <1>2, <1>6 DEF Children
      <4> QED
        BY <1>3, <1>8, <4>1 DEF NumberedAround, Places
    <3>4. c[n].position = place
      BY <1>6
    <3>5. \A m \in Children(c, p) : c[m].position \in Nat /\ c[m].position < k + 1
      BY <1>3, <1>4, <3>1, <3>3, <3>4
    <3>6. \A x, y \in others : c[x].position = c[y].position => x = y
      BY <1>8, <3>3 DEF NumberedAround
    <3>7. Apart(c, Children(c, p))
      BY <3>1, <3>3, <3>4, <3>6 DEF Apart
    <3> QED
      BY <2>1, <3>2, <3>5, <3>7, DenseAgain
  <2>2. CASE q # p /\ q = o[n].parent
    <3>1. Children(c, q) = Children(o, q) \ {n}
      BY <1>6, <1>11, <2>2 DEF Children
    <3>2. \A m \in Children(c, q) : c[m] = Renumbered(o, m, n, g)
      BY <1>6, <1>11, <2>2 DEF Children
    <3>3. g >= Cardinality(DOMAIN o)
      BY <1>5
    <3> QED
      BY <3>1, <3>2, <3>3, SiblingsClosed
  <2>3. CASE q # p /\ q # o[n].parent
    <3>1. Children(c, q) = Children(o, q)
      BY <1>6, <1>11, <2>3 DEF Children
    <3>2. \A m \in Children(o, q) : c[m] = o[m]
      BY <1>6, <2>3 DEF Children
    <3>3. DenseAt(o, q)
      BY DEF Tree, Sound, Dense, DenseAt
    <3> QED
      BY <3>1, <3>2, <3>3, DenseKept
  <2> QED
    BY <2>1, <2>2, <2>3
<1>16. Dense(c)
    BY <1>6, <1>15 DEF Dense, DenseAt
<1> QED
    BY <1>1, <1>12, <1>13, <1>14, <1>16 DEF Tree, Sound

-----------------------------------------------------------------------------
(* Checkpoints: both indexes name only content files, and those are as     *)
(* they were captured.                                                     *)
Captures(taken) ==
    DOMAIN taken \subseteq Snapshots /\ \A s \in DOMAIN taken : IsOutline(taken[s])

Backed(taken) == \A s \in DOMAIN taken : s \in DOMAIN captured /\ captured[s] = taken[s]

OutlineInv ==
    /\ Tree(outline) /\ Tree(disk)
    /\ failures \in 0 .. MaxFailures

SnapshotInv ==
    /\ Captures(listed) /\ Captures(indexed) /\ Captures(captured)
    /\ Backed(listed) /\ Backed(indexed)
    /\ told \subseteq DOMAIN listed \cap DOMAIN indexed
    /\ told \subseteq Snapshots

LEMMA FailureCounts ==
    ASSUME failures \in 0 .. MaxFailures, Failure \/ UNCHANGED failures
    PROVE  failures' \in 0 .. MaxFailures
    BY ManuscriptAssumption DEF Failure

LEMMA EditedIs ==
    ASSUME OutlineInv, Edit
    PROVE  \E o : Tree(o) /\ SaveOutline(o)
<1>1. ASSUME NEW n \in Nodes, UpdateNode(n) PROVE \E o : Tree(o) /\ SaveOutline(o)
    BY <1>1 DEF UpdateNode, OutlineInv
<1>2. ASSUME NEW n \in Nodes, DeleteNode(n) PROVE \E o : Tree(o) /\ SaveOutline(o)
    BY <1>2, DeletedIs DEF DeleteNode, OutlineInv
<1>3. ASSUME NEW n \in Nodes, NEW p, CreateNode(n, p) PROVE \E o : Tree(o) /\ SaveOutline(o)
    BY <1>3, CreatedIs DEF CreateNode, OutlineInv
<1>4. ASSUME NEW n \in Nodes, NEW p, NEW i \in Nat, MoveNode(n, p, i)
      PROVE  \E o : Tree(o) /\ SaveOutline(o)
    BY <1>4, MovedIs DEF MoveNode, MayMove, OutlineInv
<1>5. \A i \in 0 .. Cardinality(Nodes) : i \in Nat
    OBVIOUS
<1> QED
    BY <1>1, <1>2, <1>3, <1>4, <1>5 DEF Edit

LEMMA OutlineNext ==
    ASSUME OutlineInv, [ManuscriptNext]_manuscriptVars
    PROVE  OutlineInv'
<1>1. CASE Edit
  <2>1. PICK o : Tree(o) /\ SaveOutline(o)
    BY <1>1, EditedIs
  <2>2. outline' = o /\ (disk' = o \/ disk' = disk) /\ (Failure \/ UNCHANGED failures)
    BY <2>1 DEF SaveOutline
  <2>3. Tree(outline') /\ Tree(disk')
    BY <2>1, <2>2 DEF OutlineInv
  <2> QED
    BY <2>2, <2>3, FailureCounts DEF OutlineInv
<1>2. ASSUME NEW s \in Snapshots, TakeSnapshot(s) PROVE OutlineInv'
  <2>1. UNCHANGED <<outline, disk>> /\ (Failure \/ UNCHANGED failures)
    BY <1>2 DEF TakeSnapshot, outlineVars
  <2> QED
    BY <2>1, FailureCounts DEF OutlineInv
<1>3. CASE Restart
  <2>1. outline' = disk /\ disk' = disk /\ Failure
    BY <1>3 DEF Restart
  <2> QED
    BY <2>1, FailureCounts DEF OutlineInv
<1>4. CASE UNCHANGED manuscriptVars
    BY <1>4 DEF manuscriptVars, outlineVars, OutlineInv
<1> QED
    BY <1>1, <1>2, <1>3, <1>4 DEF ManuscriptNext

LEMMA AddedIs ==
    ASSUME NEW taken, Captures(taken), IsOutline(outline), NEW s \in Snapshots \ DOMAIN taken
    PROVE  /\ DOMAIN Added(taken, s) = DOMAIN taken \cup {s}
           /\ Added(taken, s)[s] = outline
           /\ \A x \in DOMAIN taken : Added(taken, s)[x] = taken[x]
           /\ Captures(Added(taken, s))
    BY DEF Added, Captures

LEMMA SnapshotNext ==
    ASSUME OutlineInv, SnapshotInv, [ManuscriptNext]_manuscriptVars
    PROVE  SnapshotInv'
<1>1. CASE UNCHANGED snapshotVars
    BY <1>1 DEF snapshotVars, SnapshotInv, Backed
<1>2. ASSUME NEW s \in Snapshots, TakeSnapshot(s), ~UNCHANGED snapshotVars PROVE SnapshotInv'
  <2>1. /\ s \notin DOMAIN captured /\ s \notin DOMAIN listed
        /\ captured' = Added(captured, s) /\ listed' = Added(listed, s)
        /\ \/ indexed' = listed' /\ told' = told \cup {s}
           \/ indexed' = indexed /\ told' = told
    BY <1>2 DEF TakeSnapshot
  <2>2. IsOutline(outline)
    BY DEF OutlineInv, Tree
  <2>3. /\ DOMAIN captured' = DOMAIN captured \cup {s} /\ captured'[s] = outline
        /\ \A x \in DOMAIN captured : captured'[x] = captured[x]
        /\ Captures(captured')
    BY <2>1, <2>2, AddedIs DEF SnapshotInv
  <2>4. /\ DOMAIN listed' = DOMAIN listed \cup {s} /\ listed'[s] = outline
        /\ \A x \in DOMAIN listed : listed'[x] = listed[x]
        /\ Captures(listed')
    BY <2>1, <2>2, AddedIs DEF SnapshotInv
  <2>5. \A x \in DOMAIN listed' : x \in DOMAIN captured' /\ captured'[x] = listed'[x]
    BY <2>3, <2>4 DEF SnapshotInv, Backed
  <2>6. \A x \in DOMAIN indexed : x \in DOMAIN captured' /\ captured'[x] = indexed[x]
    BY <2>3 DEF SnapshotInv, Backed
  <2>7. CASE indexed' = listed' /\ told' = told \cup {s}
    BY <2>3, <2>4, <2>5, <2>7 DEF SnapshotInv, Backed
  <2>8. CASE indexed' = indexed /\ told' = told
    BY <2>3, <2>4, <2>5, <2>6, <2>8 DEF SnapshotInv, Backed
  <2> QED
    BY <2>1, <2>7, <2>8
<1>3. CASE Restart
    BY <1>3 DEF Restart, SnapshotInv, Backed
<1>4. CASE Edit
    BY <1>1, <1>4, EditedIs DEF SaveOutline
<1>5. CASE UNCHANGED manuscriptVars
    BY <1>1, <1>5 DEF manuscriptVars
<1> QED
    BY <1>1, <1>2, <1>3, <1>4, <1>5 DEF ManuscriptNext

LEMMA ManuscriptInitInv ==
    ASSUME ManuscriptInit
    PROVE  OutlineInv /\ SnapshotInv
<1>1. DOMAIN Nothing = {}
    BY DEF Nothing
<1>2. Tree(Nothing)
  <2>1. Children(Nothing, Top) = {}
    BY <1>1 DEF Children
  <2>2. Dense(Nothing)
    BY <1>1, <2>1, FS_EmptySet DEF Dense
  <2>3. IsFiniteSet(DOMAIN Nothing)
    BY <1>1, FS_EmptySet
  <2> QED
    BY <1>1, <2>2, <2>3 DEF Tree, IsOutline, Sound, ParentsExist, NoCycle
<1>3. OutlineInv
    BY <1>2, ManuscriptAssumption DEF ManuscriptInit, OutlineInv
<1>4. SnapshotInv
    BY <1>1 DEF ManuscriptInit, SnapshotInv, Captures, Backed
<1> QED
    BY <1>3, <1>4

(* ManuscriptStore: after any edits, failed writes and restarts the outline *)
(* in memory and the one on disk are trees whose nodes have their parents   *)
(* and whose siblings are numbered without gaps or ties.                    *)
THEOREM OutlineSoundAlways == ManuscriptSpec => []OutlineSound
<1> DEFINE Inv == OutlineInv /\ SnapshotInv
<1>1. ManuscriptInit => Inv
    BY ManuscriptInitInv
<1>2. Inv /\ [ManuscriptNext]_manuscriptVars => Inv'
    BY OutlineNext, SnapshotNext
<1>3. Inv => OutlineSound
    BY DEF OutlineInv, SnapshotInv, Tree, Captures, OutlineSound, ManuscriptTypeOK
<1> QED
    BY <1>1, <1>2, <1>3, PTL DEF ManuscriptSpec

(* SnapshotStore: a checkpoint the writer was told of stays in the index,  *)
(* and every one that either index names has its content.                  *)
THEOREM SnapshotsKeptAlways == ManuscriptSpec => []SnapshotsKept
<1> DEFINE Inv == OutlineInv /\ SnapshotInv
<1>1. ManuscriptInit => Inv
    BY ManuscriptInitInv
<1>2. Inv /\ [ManuscriptNext]_manuscriptVars => Inv'
    BY OutlineNext, SnapshotNext
<1>3. Inv => SnapshotsKept
    BY DEF SnapshotInv, Backed, SnapshotsKept
<1> QED
    BY <1>1, <1>2, <1>3, PTL DEF ManuscriptSpec
==================================================================================
