---------------------------- MODULE WorkspaceBackup ----------------------------
(***************************************************************************)
(* Archives of a workspace (backup_store.py), made once a day by a process *)
(* of its own (backup_worker.py) and on request by the web process         *)
(* (adapter.py), while conversations are created, moved and deleted.       *)
(*                                                                         *)
(* Nothing is locked.  The worker reads library.json, lists one directory  *)
(* after the other and reads the files of each listing one by one; the web *)
(* process may run between any two of these steps.  An archive made by the *)
(* web process is collected inside one handler, so nothing comes between;  *)
(* but both processes write, verify and prune in one backup directory.     *)
(*                                                                         *)
(* An archive is its name: its day and a stamp that sorts by time.  What   *)
(* the worker has read is kept while it collects.  Artifacts, manuscripts, *)
(* evidence and snapshots are files that are read like session files.      *)
(***************************************************************************)
EXTENDS Conversations, FiniteSets

CONSTANTS
    Retain,         \* backup_retention_count of the workspace
    MaxDays,        \* bound: days
    MaxOnRequest,   \* bound: archives made on request
    MaxRequests     \* bound: requests that create, move or remove a file

ASSUME BackupAssumption ==
    /\ Retain \in Nat \ {0}
    /\ MaxDays \in Nat \ {0}
    /\ MaxOnRequest \in Nat
    /\ MaxRequests \in Nat

VARIABLES
    day,        \* today
    archives,   \* names of the archives in the backup directory
    job,        \* the creation each process is in
    lib,        \* library.json as the worker read it
    todo,       \* directories the worker has still to list
    listed,     \* files of the last listing it has still to read
    copy,       \* messages in each file it has read
    base,       \* messages writers relied on at that time
    left,       \* conversations that were on their way out then, or lost a file
                \* since
    requests,   \* requests so far that create, move or remove a file
    onRequest   \* archives made on request so far

archiveVars == <<archives, job>>
collectVars == <<lib, todo, listed, copy, base, left>>
countVars   == <<day, requests, onRequest>>
backupVars  == <<convVars, archiveVars, collectVars, countVars>>

-----------------------------------------------------------------------------
Creators == {"worker", "web"}
Days == 1 .. MaxDays
Names == [day : Days, stamp : Nat]
NoName == [day |-> 0, stamp |-> 0]
Absent == MaxText + 1
Copies == [Sessions \X Projects -> Texts \cup {Absent}]
NoCopy == [f \in Sessions \X Projects |-> Absent]
NoLibrary == [s \in Sessions |-> NoRecord]

(* names is the listing retention works on, then what it has to remove.    *)
Job == [step : {"idle", "library", "collect", "zip", "verify", "retain", "stat", "unlink"},
        name : Names \cup {NoName}, names : SUBSET Names]
NoJob == [step |-> "idle", name |-> NoName, names |-> {}]

BackupTypeOK ==
    /\ day \in Days
    /\ archives \subseteq Names
    /\ job \in [Creators -> Job]
    /\ lib \in Library
    /\ todo \subseteq Projects
    /\ listed \subseteq Sessions \X Projects
    /\ copy \in Copies
    /\ base \in [Sessions -> Texts]
    /\ left \subseteq Sessions
    /\ requests \in 0 .. MaxRequests
    /\ onRequest \in 0 .. MaxOnRequest

BackupInit ==
    /\ ConvInit
    /\ day = 1
    /\ archives = {}
    /\ job = [c \in Creators |-> NoJob]
    /\ lib = NoLibrary /\ todo = {} /\ listed = {} /\ copy = NoCopy
    /\ base = [s \in Sessions |-> 0] /\ left = {}
    /\ requests = 0 /\ onRequest = 0

-----------------------------------------------------------------------------
Busy(c, step) == job[c].step = step
Becomes(c, step) == job' = [job EXCEPT ![c].step = step]
Ends(c) == job' = [job EXCEPT ![c] = NoJob]
UnchangedButFaults == UNCHANGED <<fileVars, libraryVars, op, writerVars, cut>>

(* Stamps have microseconds: a new one is later than every one in use.     *)
InUse == {a.stamp : a \in archives} \cup {job[c].name.stamp : c \in Creators}
NewName == [day |-> day, stamp |-> 1 + CHOOSE n \in InUse : \A m \in InUse : m <= n]

Begin(c, step) ==
    job' = [job EXCEPT ![c] = [step |-> step, name |-> NewName, names |-> {}]]

Forgotten ==
    /\ lib' = NoLibrary /\ todo' = {} /\ listed' = {} /\ copy' = NoCopy
    /\ base' = [s \in Sessions |-> 0] /\ left' = {}

(* Mutant: a day counts as done when any archive exists at all.            *)
DoneOnce == archives # {}

(* run_once: any archive of today will do, on request or not, verified or  *)
(* not yet.                                                                *)
DoneToday == \E a \in archives : a.day = day

WorkerPoll ==
    /\ Busy("worker", "idle")
    /\ ~DoneToday
    /\ Begin("worker", "library")
    /\ UNCHANGED <<convVars, archives, collectVars, countVars>>

(* The library names a conversation whose file is already gone and that no *)
(* writer relies on: its deletion, which takes the record last, is under   *)
(* way or was cut short, or its creation was undone although a hand had    *)
(* given it the record.                                                    *)
Leaving(s) == s \notin known /\ <<s, disk[s].project>> \notin files

(* _workspace_library_bytes.                                               *)
ReadLibrary ==
    /\ Busy("worker", "library")
    /\ lib' = disk
    /\ base' = [s \in Sessions |-> IF s \in known THEN saved[s] ELSE 0]
    /\ left' = {s \in Sessions : Leaving(s)}
    /\ todo' = Projects
    /\ Becomes("worker", "collect")
    /\ UNCHANGED <<convVars, archives, listed, copy, countVars>>

(* _collect: the context directory of one project, as rglob finds it then. *)
ListDirectory ==
    /\ Busy("worker", "collect") /\ listed = {}
    /\ \E p \in todo :
          /\ todo' = todo \ {p}
          /\ listed' = {f \in files : f[2] = p}
    /\ UNCHANGED <<convVars, archiveVars, lib, copy, base, left, countVars>>

(* _read_stable: the file at one moment.  A file that is gone raises out   *)
(* of the creation; the archives are as they were.                         *)
ReadFile ==
    /\ Busy("worker", "collect")
    /\ \E f \in listed :
          \/ /\ f \in files
             /\ copy' = [copy EXCEPT ![f] = text[f]]
             /\ listed' = listed \ {f}
             /\ UNCHANGED <<job, lib, todo, base, left>>
          \/ /\ f \notin files
             /\ Ends("worker") /\ Forgotten
    /\ UNCHANGED <<convVars, archives, countVars>>

(* Mutant: the library is packed as it is when the files have been read.   *)
CollectedAfresh ==
    /\ Busy("worker", "collect") /\ todo = {} /\ listed = {}
    /\ lib' = disk
    /\ Becomes("worker", "zip")
    /\ UNCHANGED <<convVars, archives, todo, listed, copy, base, left, countVars>>

Collected ==
    /\ Busy("worker", "collect") /\ todo = {} /\ listed = {}
    /\ Becomes("worker", "zip")
    /\ UNCHANGED <<convVars, archives, collectVars, countVars>>

(* create_workspace_backup: collected without interruption, then stamped.  *)
WebCreate ==
    /\ At("idle") /\ Busy("web", "idle")
    /\ onRequest < MaxOnRequest /\ onRequest' = onRequest + 1
    /\ Begin("web", "zip")
    /\ UNCHANGED <<convVars, archives, collectVars, day, requests>>

LeavesCollection(c) == IF c = "worker" THEN Forgotten ELSE UNCHANGED collectVars

(* The archive replaces its temporary, and then is read again; whatever    *)
(* fails takes away this archive and no other.                             *)
Publish(c) ==
    /\ Busy(c, "zip")
    /\ \/ /\ archives' = archives \cup {job[c].name}
          /\ Becomes(c, "verify")
          /\ UNCHANGED faults
       \/ Fault /\ Ends(c) /\ UNCHANGED archives
    /\ LeavesCollection(c)
    /\ UnchangedButFaults /\ UNCHANGED countVars

(* Mutant: a failed attempt clears the archives of its day.                *)
VerifyClearingDay(c) ==
    /\ Busy(c, "verify")
    /\ \/ Becomes(c, "retain") /\ UNCHANGED <<archives, faults>>
       \/ /\ Fault
          /\ archives' = {a \in archives : a.day # day}
          /\ Ends(c)
    /\ UnchangedButFaults /\ UNCHANGED <<collectVars, countVars>>

Verify(c) ==
    /\ Busy(c, "verify")
    /\ \/ Becomes(c, "retain") /\ UNCHANGED <<archives, faults>>
       \/ Fault /\ archives' = archives \ {job[c].name} /\ Ends(c)
    /\ UnchangedButFaults /\ UNCHANGED <<collectVars, countVars>>

(* list: the names first, and then what each file says of itself.          *)
ListArchives(c) ==
    /\ Busy(c, "retain")
    /\ job' = [job EXCEPT ![c].step = "stat", ![c].names = archives]
    /\ UNCHANGED <<convVars, archives, collectVars, countVars>>

(* archives[retain:] of the listing, newest first.                         *)
Oldest(names) == {a \in names : Cardinality({b \in names : b.stamp > a.stamp}) >= Retain}

(* An archive the other process has pruned meanwhile raises.               *)
StatArchives(c) ==
    /\ Busy(c, "stat")
    /\ IF job[c].names \subseteq archives
       THEN job' = [job EXCEPT ![c].step = "unlink", ![c].names = Oldest(job[c].names)]
       ELSE Ends(c)
    /\ UNCHANGED <<convVars, archives, collectVars, countVars>>

Prune(c) ==
    /\ Busy(c, "unlink")
    /\ IF job[c].names = {}
       THEN Ends(c) /\ UNCHANGED archives
       ELSE \E a \in job[c].names :
                /\ archives' = archives \ {a}
                /\ job' = [job EXCEPT ![c].names = @ \ {a}]
    /\ UNCHANGED <<convVars, collectVars, countVars>>

-----------------------------------------------------------------------------
(* The worker dies, or its container is replaced.                          *)
WorkerCrash ==
    /\ ~Busy("worker", "idle")
    /\ Fault
    /\ Ends("worker")
    /\ IF job["worker"].step \in {"library", "collect", "zip"}
       THEN Forgotten ELSE UNCHANGED collectVars
    /\ UnchangedButFaults /\ UNCHANGED <<archives, countVars>>

WebDies ==
    /\ ~Busy("web", "idle")
    /\ Crash
    /\ Ends("web")
    /\ UNCHANGED <<archives, collectVars, countVars>>

(* A step of another handler of the web process.                           *)
ChangesFiles(kind) == kind \in {"create", "fork", "move", "delete"}
FileRemoved(s) == \E p \in Projects : <<s, p>> \in files \ files'

ConversationStep ==
    /\ Busy("web", "idle")
    /\ ConvNext
    /\ requests' = requests + IF At("idle") /\ ChangesFiles(op'.kind) THEN 1 ELSE 0
    /\ requests' <= MaxRequests
    /\ left' = IF job["worker"].step \in {"collect", "zip"}
               THEN left \cup {s \in Sessions : FileRemoved(s)} ELSE {}
    /\ UNCHANGED <<archiveVars, lib, todo, listed, copy, base, day, onRequest>>

NextDay ==
    /\ day < MaxDays
    /\ day' = day + 1
    /\ UNCHANGED <<convVars, archiveVars, collectVars, requests, onRequest>>

WorkerNext ==
    \/ WorkerPoll \/ ReadLibrary \/ ListDirectory \/ ReadFile \/ Collected
    \/ Publish("worker") \/ Verify("worker")
    \/ ListArchives("worker") \/ StatArchives("worker") \/ Prune("worker")

WebNext ==
    \/ WebCreate
    \/ Publish("web") \/ Verify("web")
    \/ ListArchives("web") \/ StatArchives("web") \/ Prune("web")

BackupNext == WorkerNext \/ WebNext \/ WorkerCrash \/ WebDies \/ ConversationStep \/ NextDay

(* The worker is a loop that polls again after every failure.              *)
BackupSpec == BackupInit /\ [][BackupNext]_backupVars /\ WF_backupVars(WorkerNext)

-----------------------------------------------------------------------------
(* What the worker packs holds every conversation its library names, in    *)
(* the directory of its project and with at least the messages writers     *)
(* relied on when the library was read, unless it was on its way out then  *)
(* (Leaving), or the file was moved away or deleted during the collection. *)
NothingMissed ==
    /\ BackupTypeOK
    /\ Busy("worker", "zip") =>
        \A s \in Sessions \ left :
            lib[s].project # Null =>
                /\ copy[<<s, lib[s].project>>] # Absent
                /\ copy[<<s, lib[s].project>>] >= base[s]

(* A workspace that has an archive nobody may still withdraw always keeps  *)
(* one: neither a failed attempt nor the pruning of two processes at once  *)
(* costs the last good archive.                                            *)
Standing == {a \in archives : \A c \in Creators : Busy(c, "verify") => job[c].name # a}
LastGoodKept == [][Standing # {} => Standing' # {}]_backupVars

(* Every day gets its archive, however often the worker is cut short or a  *)
(* file vanishes under it, unless the day is over first.                   *)
DailyArchive == \A d \in Days : day = d ~> (day # d \/ \E a \in archives : a.day = d)

(* _restore_test: a conversation passes when a file of it was packed in    *)
(* any project's directory.                                                *)
Rehearses ==
    \A s \in Sessions : lib[s].project # Null =>
        \E p \in Projects : copy[<<s, p>>] # Absent

(* Does not hold: a conversation may move while it is collected.           *)
(* "A restore rehearsal ... refuses a backup missing any enrolled          *)
(* conversation file": an archive that passes can be opened where its      *)
(* library points.                                                         *)
RehearsedIsReadable ==
    Busy("worker", "zip") /\ Rehearses =>
        \A s \in Sessions : lib[s].project # Null => copy[<<s, lib[s].project>>] # Absent
=============================================================================
