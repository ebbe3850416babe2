------------------------------- MODULE Artifacts -------------------------------
(***************************************************************************)
(* Versioned artifacts of a project: artifact_store.ArtifactStore, the     *)
(* handlers of adapter.py that call it, and the open editors (browser      *)
(* tabs, static/index.html) that hold the version they believe in.         *)
(*                                                                         *)
(* The store keeps nothing in memory: index.json is read at the start of   *)
(* each operation and replaced at its end, after a content file was        *)
(* written or a working copy replaced.  The web process runs one operation *)
(* at a time (op); it can be cut short between two files.                  *)
(*                                                                         *)
(* Abstracted: titles, tags, status, trash (an operation that changes only *)
(* those rewrites the index as it is), provenance, and digests, which are  *)
(* the texts themselves.                                                   *)
(***************************************************************************)
EXTENDS Naturals, Sequences

CONSTANTS
    ArtifactIds,
    Texts,
    Tabs,           \* editors in browsers
    Null,
    MaxVersion,     \* bound: revisions of an artifact
    MaxFaults       \* bound: operations cut short

ASSUME ArtifactsAssumption ==
    /\ Null \notin ArtifactIds \cup Texts \cup Tabs
    /\ MaxVersion \in Nat \ {0} /\ MaxFaults \in Nat

VARIABLES
    index,      \* index.json: content hashes by version, base of the working copy
    content,    \* content/<id>/v<n>.txt
    working,    \* working/<id>.txt
    op,         \* the operation the web process is in
    tab,        \* artifact an editor shows, its version, and what its text is from
    draft,      \* autosaved text a writer was told is safe
    faults      \* operations cut short so far

artifactVars == <<index, content, working, op, tab, draft, faults>>

-----------------------------------------------------------------------------
Versions == 1 .. MaxVersion
Meta == [versions : UNION {[1 .. n -> Texts] : n \in 0 .. MaxVersion}, base : 0 .. MaxVersion]
Absent == [versions |-> <<>>, base |-> 0]

Kinds == {"create", "update", "autosave", "discard", "delete"}
Steps == {"content", "working", "index", "reply"}
Plans == UNION {[1 .. n -> Steps] : n \in 0 .. 4}
(* Mutant: the working copy goes before its successor is written.          *)
PlanUnlinkingFirst(kind) ==
    CASE kind = "create" -> <<"content", "index", "reply">>
      [] kind = "update" -> <<"working", "content", "index", "reply">>
      [] kind \in {"autosave", "discard"} -> <<"working", "index", "reply">>
      [] kind = "delete" -> <<"index", "reply">>

(* What an operation does, in its order: the files it writes, its answer.  *)
PlanOf(kind) ==
    CASE kind = "create" -> <<"content", "index", "reply">>
      [] kind = "update" -> <<"content", "working", "index", "reply">>
      [] kind \in {"autosave", "discard"} -> <<"working", "index", "reply">>
      [] kind = "delete" -> <<"index", "reply">>

Op == [todo : Plans, kind : Kinds, a : ArtifactIds \cup {Null}, x : Texts \cup {Null},
       e : Tabs \cup {Null}, seen : 0 .. MaxVersion]
Resting == [todo |-> <<>>, kind |-> "delete", a |-> Null, x |-> Null, e |-> Null, seen |-> 0]

(* version is what the page sends as expected_current_version; seen is the *)
(* revision the text in the editor was made from.                          *)
Tab == [a : ArtifactIds \cup {Null}, version : 0 .. MaxVersion, seen : 0 .. MaxVersion]
Closed == [a |-> Null, version |-> 0, seen |-> 0]

Idle == op.todo = <<>>
At(step) == ~Idle /\ Head(op.todo) = step
Proceed == op' = [op EXCEPT !.todo = Tail(@)]
Done == op' = Resting

Current(a) == Len(index[a].versions)
Exists(a) == Current(a) > 0
(* get_working_copy: the index says there is one, and the file is there.   *)
Shown(a) == IF index[a].base = 0 THEN Null ELSE working[a]

ArtifactsTypeOK ==
    /\ index \in [ArtifactIds -> Meta]
    /\ content \in [ArtifactIds -> [Versions -> Texts \cup {Null}]]
    /\ working \in [ArtifactIds -> Texts \cup {Null}]
    /\ op \in Op
    /\ tab \in [Tabs -> Tab]
    /\ draft \in [ArtifactIds -> Texts \cup {Null}]
    /\ faults \in 0 .. MaxFaults

ArtifactsInit ==
    /\ index = [a \in ArtifactIds |-> Absent]
    /\ content = [a \in ArtifactIds |-> [v \in Versions |-> Null]]
    /\ working = [a \in ArtifactIds |-> Null]
    /\ op = Resting
    /\ tab = [e \in Tabs |-> Closed]
    /\ draft = [a \in ArtifactIds |-> Null]
    /\ faults = 0

-----------------------------------------------------------------------------
(* Requests.  A check that fails answers 404 or 409 and is no step.        *)
Request(kind, a, x, e) ==
    /\ Idle
    /\ op' = [todo |-> PlanOf(kind), kind |-> kind, a |-> a, x |-> x, e |-> e,
              seen |-> IF e = Null THEN 0 ELSE tab[e].seen]
    /\ UNCHANGED <<index, content, working, tab, draft, faults>>

(* A new id is a fresh uuid: nothing was ever stored under it.             *)
Create(a, x) ==
    /\ index[a] = Absent /\ \A v \in Versions : content[a][v] = Null
    /\ Request("create", a, x, Null)

(* Mutant: the version the page expects is not compared.                   *)
MatchesAnything(e) == tab[e].a # Null /\ Exists(tab[e].a)

Matches(e) == tab[e].a # Null /\ Exists(tab[e].a) /\ tab[e].version = Current(tab[e].a)

(* artifacts_update, and artifacts_restore_version with the text in an old *)
(* content file.  The page always sends the version it expects.            *)
Save(e, x) ==
    /\ Matches(e) /\ Current(tab[e].a) < MaxVersion
    /\ Request("update", tab[e].a, x, e)

RestoreVersion(e, v) ==
    /\ Matches(e) /\ v < Current(tab[e].a)
    /\ Save(e, content[tab[e].a][v])

Autosave(e, x) ==
    /\ Matches(e)
    /\ Request("autosave", tab[e].a, x, e)

Discard(a) == Exists(a) /\ Request("discard", a, Null, Null)
Delete(a) == Exists(a) /\ Request("delete", a, Null, Null)

(* openArtifact: the page shows the current revision, or its working copy. *)
Open(e, a) ==
    /\ Idle /\ Exists(a)
    /\ tab' = [tab EXCEPT ![e] = [a |-> a, version |-> Current(a), seen |-> Current(a)]]
    /\ UNCHANGED <<index, content, working, op, draft, faults>>

(* saveArtifactLifecycle: status and tags.  The page takes the version out *)
(* of the answer and keeps the text it has.                                *)
Organize(e) ==
    /\ Idle /\ tab[e].a # Null /\ Exists(tab[e].a)
    /\ tab' = [tab EXCEPT ![e].version = Current(tab[e].a)]
    /\ UNCHANGED <<index, content, working, op, draft, faults>>

-----------------------------------------------------------------------------
(* The files of an operation, in the order they are written.               *)

(* Mutant: a revision is a copy of the file it was edited from.            *)
WriteInPlace ==
    /\ At("content")
    /\ LET v == IF op.kind = "create" THEN 1 ELSE Current(op.a) IN
       content' = [content EXCEPT ![op.a][v] = op.x, ![op.a][v + 1] = op.x]
    /\ Proceed
    /\ UNCHANGED <<index, working, tab, draft, faults>>

(* Mutant: the index first, so that what it names may never be written.    *)
WriteIndexFirst ==
    /\ At("content")
    /\ index' = [index EXCEPT ![op.a] = [versions |-> Append(@.versions, op.x), base |-> 0]]
    /\ Done
    /\ UNCHANGED <<content, working, tab, draft, faults>>

WriteContent ==
    /\ At("content")
    /\ content' = [content EXCEPT ![op.a][Current(op.a) + 1] = op.x]
    /\ Proceed
    /\ UNCHANGED <<index, working, tab, draft, faults>>

(* An autosave replaces the working copy; a revision, or a discard, ends   *)
(* it.  What the writer discards is not safe any more.                     *)
WriteWorking ==
    /\ At("working")
    /\ working' = [working EXCEPT ![op.a] = IF op.kind = "autosave" THEN op.x ELSE Null]
    /\ draft' = IF op.kind = "discard" THEN [draft EXCEPT ![op.a] = Null] ELSE draft
    /\ Proceed
    /\ UNCHANGED <<index, content, tab, faults>>

NewMeta(meta) ==
    CASE op.kind \in {"create", "update"} -> [versions |-> Append(meta.versions, op.x), base |-> 0]
      [] op.kind = "autosave" -> [meta EXCEPT !.base = Len(meta.versions)]
      [] op.kind = "discard"  -> [meta EXCEPT !.base = 0]
      [] op.kind = "delete"   -> Absent

WriteIndex ==
    /\ At("index")
    /\ index' = [index EXCEPT ![op.a] = NewMeta(@)]
    /\ draft' = CASE op.kind = "autosave" -> [draft EXCEPT ![op.a] = op.x]
                  [] op.kind = "discard"  -> draft
                  [] OTHER                -> [draft EXCEPT ![op.a] = Null]
    /\ Proceed
    /\ UNCHANGED <<content, working, tab, faults>>

(* The page shows a saved revision again; after an autosave it takes over  *)
(* the version, which is the one it sent.                                  *)
Reply ==
    /\ At("reply")
    /\ tab' = IF op.kind = "update"
              THEN [tab EXCEPT ![op.e] = [a |-> op.a, version |-> Current(op.a),
                                          seen |-> Current(op.a)]]
              ELSE tab
    /\ Done
    /\ UNCHANGED <<index, content, working, draft, faults>>

(* A file cannot be written, the process dies, or the answer is lost.      *)
CutShort ==
    /\ ~Idle
    /\ faults < MaxFaults
    /\ faults' = faults + 1
    /\ Done
    /\ UNCHANGED <<index, content, working, tab, draft>>

StoreStep == WriteContent \/ WriteWorking \/ WriteIndex \/ Reply

Page(e) ==
    \/ \E a \in ArtifactIds : Open(e, a)
    \/ \E x \in Texts : Save(e, x) \/ Autosave(e, x)
    \/ \E v \in Versions : RestoreVersion(e, v)
    \/ Organize(e)

ArtifactsNext ==
    \/ StoreStep \/ CutShort
    \/ \E e \in Tabs : Page(e)
    \/ \E a \in ArtifactIds :
          \/ \E x \in Texts : Create(a, x)
          \/ Discard(a) \/ Delete(a)

ArtifactsSpec == ArtifactsInit /\ [][ArtifactsNext]_artifactVars

-----------------------------------------------------------------------------
(* Every revision the index names can be read, with the text it was given: *)
(* whatever an operation that was cut short, at any of its files, left     *)
(* behind, and whatever is later written over that.                        *)
RevisionsReadable ==
    \A a \in ArtifactIds : \A v \in 1 .. Current(a) : content[a][v] = index[a].versions[v]

(* "History is never rewritten": an operation adds one revision at the end *)
(* or deletes the artifact, and no committed text changes on disk, so that *)
(* a reader that looked at the index earlier still finds what it names.    *)
HistoryKept ==
    [][\A a \in ArtifactIds :
          /\ \A v \in 1 .. Current(a) : content'[a][v] = content[a][v]
          /\ \/ index'[a] = Absent
             \/ /\ Len(index'[a].versions) \in {Current(a), Current(a) + 1}
                /\ \A v \in 1 .. Current(a) : index'[a].versions[v] = index[a].versions[v]
      ]_artifactVars

(* A working copy is offered for the revision it was typed over, never for *)
(* a later one: opening the artifact must not bring back what a revision   *)
(* has replaced.                                                           *)
DraftIsOfCurrent ==
    \A a \in ArtifactIds : Shown(a) # Null => index[a].base = Current(a)

(* Text a writer was told is autosaved is there until it is committed or   *)
(* discarded; if the commit is cut short, what was to replace it is on     *)
(* disk, in the file of the next revision.  And it is never offered as a   *)
(* working copy of another revision.                                       *)
DraftNotLost ==
    /\ ArtifactsTypeOK
    /\ DraftIsOfCurrent
    /\ \A a \in ArtifactIds :
          draft[a] # Null =>
              \/ Shown(a) # Null
              \/ Current(a) < MaxVersion /\ content[a][Current(a) + 1] # Null

(* "Per-artifact optimistic concurrency": a revision replaces only a text  *)
(* its editor has shown, over two pages, restored revisions and answers    *)
(* that were lost and tried again.  The exception is the code's: a page    *)
(* that saves status or tags takes over a revision it has not shown.       *)
EditsWhatItSaw ==
    [][\A a \in ArtifactIds :
          At("index") /\ op.kind = "update" /\ op.a = a /\ index'[a] # index[a] =>
              op.seen = Current(a) \/ tab[op.e].version # op.seen]_artifactVars
=============================================================================
