------------------------------ MODULE CodeProject ------------------------------
(***************************************************************************)
(* The project of the code and research builders (project_store.py) and    *)
(* their handlers in adapter.py: an intent and a contract, a plan of       *)
(* phases with items, and workspace files with one previous version each.  *)
(*                                                                         *)
(* The whole project is one record in memory, with a version that every    *)
(* save raises before it replaces project.json; a failed save leaves       *)
(* memory ahead of the disk.  An editor that names the version it has read *)
(* is refused when another was saved since; one that names none is not.    *)
(* Files are written in place, between the move of the old one aside and   *)
(* the save of the project.  A project.json that cannot be read is taken   *)
(* for none: the project starts again at version 1.                        *)
(*                                                                         *)
(* The intent and the contract are one text; a hash is the content hashed. *)
(***************************************************************************)
EXTENDS Integers, Sequences, FiniteSets

CONSTANTS
    Texts,       \* what an intent or a contract may say
    Paths,       \* workspace files
    Contents,    \* what may be put into one
    Cut,         \* what an interrupted write leaves
    MaxPhases,   \* bound: phases of the plan
    MaxItems,    \* bound: items of a phase
    MaxVersion,  \* bound: versions of the project
    MaxFaults    \* bound: failed writes and restarts

ASSUME CodeProjectAssumption ==
    /\ Texts # {} /\ Cut \notin Contents
    /\ MaxPhases \in Nat /\ MaxItems \in Nat
    /\ MaxVersion \in Nat \ {0}
    /\ MaxFaults \in Nat

VARIABLES
    project,   \* the project in memory
    disk,      \* what the next load of project.json gives
    files,     \* workspace files: content of each
    previous,  \* their .prev files
    view,      \* the project as an editor read it, and whether it still counts
    named,     \* <<path, version, content>> a writer was told is accepted,
               \* while the project has a record of it
    accepted,  \* content of each file a writer was last told is accepted
    failed,    \* puts of a path that failed since one succeeded
    faults     \* faults so far

fileVars == <<files, previous, named, accepted, failed>>
projectVars == <<project, disk, fileVars, view, faults>>

-----------------------------------------------------------------------------
Statuses == {"proposed", "accepted", "in_progress", "completed", "rejected"}
Terminal == {"completed", "rejected"}

(* VALID_TRANSITIONS.                                                      *)
Follows(s) ==
    CASE s = "proposed"    -> {"accepted", "rejected"}
      [] s = "accepted"    -> {"in_progress", "rejected"}
      [] s = "in_progress" -> {"completed", "rejected"}
      [] OTHER             -> {}

NoFiles == [p \in {} |-> Cut]
FileTables(V) == UNION {[S -> V] : S \in SUBSET Paths}
FileEntries == [version : 1 .. MaxVersion, hash : Contents]
Phases == [locked : BOOLEAN, items : Seq(Statuses)]
Projects == [version : 1 .. MaxVersion, text : Texts, plan : Seq(Phases),
             files : FileTables(FileEntries)]
Empty == CHOOSE t \in Texts : TRUE

Fresh == [version |-> 1, text |-> Empty, plan |-> <<>>, files |-> NoFiles]

ProjectTypeOK ==
    /\ project \in Projects /\ disk \in Projects
    /\ files \in FileTables(Contents \cup {Cut})
    /\ previous \in FileTables(Contents \cup {Cut})
    /\ view \in [read : Projects, stored : BOOLEAN, counts : BOOLEAN]
    /\ named \subseteq Paths \X (1 .. MaxVersion) \X Contents
    /\ accepted \in FileTables(Contents)
    /\ failed \in [Paths -> 0 .. MaxFaults]
    /\ faults \in 0 .. MaxFaults

ProjectInit ==
    /\ project = Fresh /\ disk = Fresh
    /\ files = NoFiles /\ previous = NoFiles
    /\ view = [read |-> Fresh, stored |-> TRUE, counts |-> TRUE]
    /\ named = {} /\ accepted = NoFiles
    /\ failed = [p \in Paths |-> 0]
    /\ faults = 0

-----------------------------------------------------------------------------
Fault == faults < MaxFaults /\ faults' = faults + 1

(* Mutant: the version is raised only by a save that succeeds.             *)
SaveThenRaise(s, ok) ==
    /\ project.version < MaxVersion
    /\ LET next == [s EXCEPT !.version = @ + 1]
       IN  IF ok THEN project' = next /\ disk' = next /\ UNCHANGED faults
           ELSE project' = s /\ Fault /\ UNCHANGED disk

(* _save: the version is raised, then the file replaced or the write fails *)
(* (ok: it was replaced).                                                  *)
Save(s, ok) ==
    /\ project.version < MaxVersion
    /\ project' = [s EXCEPT !.version = @ + 1]
    /\ IF ok THEN disk' = project' /\ UNCHANGED faults ELSE Fault /\ UNCHANGED disk

(* The editor reads the project, whether it is saved or not.               *)
Read ==
    /\ view' = [read |-> project, stored |-> project = disk, counts |-> TRUE]
    /\ UNCHANGED <<project, disk, fileVars, faults>>

(* _check_version: a request names the version that was read, or none.     *)
Current(checked) == checked => view.read.version = project.version

(* update_intent, update_contract.                                         *)
UpdateText(t, checked) ==
    /\ Current(checked)
    /\ \E ok \in BOOLEAN : Save([project EXCEPT !.text = t], ok)
    /\ UNCHANGED <<view, fileVars>>

AddPhase ==
    /\ Len(project.plan) < MaxPhases
    /\ \E ok \in BOOLEAN :
          Save([project EXCEPT !.plan = Append(@, [locked |-> FALSE, items |-> <<>>])], ok)
    /\ UNCHANGED <<view, fileVars>>

(* update_phase: a phase is locked or opened, or only named.               *)
UpdatePhase(i, locked) ==
    /\ i \in DOMAIN project.plan
    /\ \E ok \in BOOLEAN : Save([project EXCEPT !.plan[i].locked = locked], ok)
    /\ UNCHANGED <<view, fileVars>>

AddItem(i) ==
    /\ i \in DOMAIN project.plan
    /\ Len(project.plan[i].items) < MaxItems
    /\ \E ok \in BOOLEAN :
          Save([project EXCEPT !.plan[i].items = Append(@, "proposed")], ok)
    /\ UNCHANGED <<view, fileVars>>

(* update_item_status: an item moves on in an open phase when those of the *)
(* phase before are through; it may be rejected in any phase.              *)
MayBecome(i, j, s) ==
    /\ s \in Follows(project.plan[i].items[j])
    /\ s # "rejected" =>
          /\ ~project.plan[i].locked
          /\ i > 1 => \A k \in DOMAIN project.plan[i - 1].items :
                          project.plan[i - 1].items[k] \in Terminal

UpdateItem(i, j, s, checked) ==
    /\ Current(checked)
    /\ i \in DOMAIN project.plan /\ j \in DOMAIN project.plan[i].items
    /\ MayBecome(i, j, s)
    /\ \E ok \in BOOLEAN : Save([project EXCEPT !.plan[i].items[j] = s], ok)
    /\ UNCHANGED <<view, fileVars>>

-----------------------------------------------------------------------------
Set(f, p, c) == [x \in DOMAIN f \cup {p} |-> IF x = p THEN c ELSE f[x]]

NextVersion(p) == IF p \in DOMAIN project.files THEN project.files[p].version + 1 ELSE 1

(* Mutant: the old file is overwritten and kept only afterwards.           *)
Overwritten(p, c, stage) ==
    /\ files' = IF stage = "moved" THEN files
                ELSE Set(files, p, IF stage = "cut" THEN Cut ELSE c)
    /\ previous' = IF stage \in {"unsaved", "done"} /\ p \in DOMAIN files
                   THEN Set(previous, p, files[p]) ELSE previous

(* What put_file leaves in the workspace when it gets as far as this       *)
(* stage: the old file moved aside, the new one partly or wholly written.  *)
Replaced(p, c, stage) ==
    /\ files' = IF stage = "moved" THEN [x \in DOMAIN files \ {p} |-> files[x]]
                ELSE Set(files, p, IF stage = "cut" THEN Cut ELSE c)
    /\ previous' = IF p \in DOMAIN files THEN Set(previous, p, files[p]) ELSE previous

PutFile(p, c) ==
    LET entry == [version |-> NextVersion(p), hash |-> c]
        with == [project EXCEPT !.files = Set(@, p, entry)]
    IN  \/ \E stage \in {"moved", "cut"} :
              /\ project.version < MaxVersion
              /\ Replaced(p, c, stage)
              /\ Fault
              /\ failed' = [failed EXCEPT ![p] = @ + 1]
              /\ UNCHANGED <<project, disk, view, named, accepted>>
        \/ /\ Replaced(p, c, "unsaved")
           /\ Save(with, FALSE)
           /\ failed' = [failed EXCEPT ![p] = @ + 1]
           /\ UNCHANGED <<view, named, accepted>>
        \/ /\ Replaced(p, c, "done")
           /\ Save(with, TRUE)
           /\ failed' = [failed EXCEPT ![p] = 0]
           /\ named' = named \cup {<<p, entry.version, c>>}
           /\ accepted' = Set(accepted, p, c)
           /\ UNCHANGED view

(* _load in a new process: project.json, or a fresh project when it cannot *)
(* be read for any reason, which the next save puts in its place.  What an *)
(* editor has read goes on being what it has, but counts only if the       *)
(* project that was loaded comes after it.                                 *)
Restart ==
    /\ Fault
    /\ \E s \in {disk, Fresh} :
          LET counts == view.stored /\ view.read.version <= s.version
          IN  /\ project' = s /\ disk' = s
              /\ view' = [view EXCEPT !.stored = counts, !.counts = counts]
              /\ named' = {n \in named : n[1] \in DOMAIN s.files}
    /\ UNCHANGED <<files, previous, accepted, failed>>

PlanStep ==
    \/ AddPhase
    \/ \E i \in 1 .. MaxPhases :
          \/ AddItem(i)
          \/ \E locked \in BOOLEAN : UpdatePhase(i, locked)
          \/ \E j \in 1 .. MaxItems, s \in Statuses, checked \in BOOLEAN :
                UpdateItem(i, j, s, checked)

ProjectNext ==
    \/ Read
    \/ \E t \in Texts, checked \in BOOLEAN : UpdateText(t, checked)
    \/ PlanStep
    \/ \E p \in Paths, c \in Contents : PutFile(p, c)
    \/ Restart

ProjectSpec == ProjectInit /\ [][ProjectNext]_projectVars

-----------------------------------------------------------------------------
(* The version of a file a writer was told of names one content, after any *)
(* failed puts and restarts, as long as the project has a record of it.    *)
FileVersionNamesContent ==
    \A m, n \in named : m[1] = n[1] /\ m[2] = n[2] => m[3] = n[3]

(* A version names one state: an editor whose version is current has read  *)
(* what its change will replace, whatever others changed, whichever saves  *)
(* failed; also over a restart, when what it had read was on disk and the  *)
(* project that was loaded comes after it.  And the version of an accepted *)
(* file names one content.                                                 *)
VersionNamesState ==
    /\ FileVersionNamesContent
    /\ view.counts /\ view.read.version = project.version => view.read = project

(* Does not hold: after an unreadable project.json, or a failed save that  *)
(* a restart takes back, the versions an editor may hold are given again.  *)
CurrentIsWhatWasRead == view.read.version = project.version => view.read = project

(* The content a writer was last told is accepted is not lost by one put   *)
(* of the file that fails, at any point: it is the file or its previous.   *)
Held(p) ==
    {files[x] : x \in DOMAIN files \cap {p}} \cup {previous[x] : x \in DOMAIN previous \cap {p}}

FailedPutLosesNothing ==
    /\ ProjectTypeOK
    /\ \A p \in DOMAIN accepted : failed[p] <= 1 => accepted[p] \in Held(p)
=============================================================================
