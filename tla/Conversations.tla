----------------------------- MODULE Conversations -----------------------------
(***************************************************************************)
(* Where a conversation lives: the file-per-conversation SessionStore      *)
(* (session_store.py), the library sidecar that says which project a       *)
(* conversation belongs to (library_store.py), and the handlers of         *)
(* adapter.py that keep the two together.                                  *)
(*                                                                         *)
(* There is no transaction over the two: a handler replaces one file after *)
(* the other.  The web process runs one handler at a time, so what can     *)
(* come between two steps of a handler is a crash, a write that fails, or  *)
(* a hand that edits library.json.  A save looks at the file (its guard is *)
(* a fingerprint), writes and syncs a temporary one, and only then puts it *)
(* in place: the hand may come in between.                                 *)
(*                                                                         *)
(* A conversation is its number of messages; ids are fresh, as uuid4 makes *)
(* them.  Titles, pins, archiving and workspaces are abstracted: they are  *)
(* rewritten by the same _save as everything else.                         *)
(***************************************************************************)
EXTENDS Naturals

CONSTANTS
    Sessions,       \* conversation ids
    Projects,       \* projects, each with a directory of its own
    Home,           \* default project, where stray files are enrolled
    Legacy,         \* conversations an older version left in Home
    Null,           \* no project
    MaxText,        \* bound: messages of a conversation
    LateFailures,   \* can fsync fail after os.replace has been done?
    MaxFaults       \* bound: crashes, failed writes, edits by hand

ASSUME ConversationsAssumption ==
    /\ Home \in Projects
    /\ Legacy \subseteq Sessions
    /\ Null \notin Projects
    /\ Null \notin Sessions
    /\ MaxText \in Nat
    /\ MaxFaults \in Nat
    /\ LateFailures \in BOOLEAN

VARIABLES
    files,      \* <<session, project>> pairs whose session file exists
    text,       \* messages in each file
    disk,       \* library.json: project and fork point of each conversation
    mem,        \* the library the web process holds
    trusted,    \* is library.json still what this process last wrote?
    guard,      \* has the save under way looked at library.json?
    op,         \* the handler the web process is in
    known,      \* conversations a writer has been shown and has not deleted
    saved,      \* messages a writer was told are saved
    deleted,    \* conversations a writer was told are deleted
    cut,        \* handlers cut short so far, by a crash or a failed write
    faults      \* faults so far

libraryVars == <<disk, mem, trusted, guard>>
fileVars    == <<files, text>>
writerVars  == <<known, saved, deleted>>
convVars    == <<fileVars, libraryVars, op, writerVars, cut, faults>>

-----------------------------------------------------------------------------
Texts == 0 .. MaxText
Record == [project : Projects \cup {Null}, origin : Texts]
NoRecord == [project |-> Null, origin |-> 0]
Library == [Sessions -> Record]

(* "raced": library.json was edited after the save under way looked at it. *)
Guards == {"closed", "passed", "raced"}

Kinds == {"create", "fork", "delete", "move", "append", "rename", "open", "list"}
Steps == {"idle", "down", "list", "locate", "file", "fill", "enroll", "undo", "unlink",
          "forget", "copy", "commit", "retract", "clear", "write", "save"}

(* s is the conversation of a handler, p the project it asks for, from the *)
(* conversation it forks, n the messages it copies, and q the project in   *)
(* which it found its conversation.                                        *)
Op == [step : Steps, kind : Kinds, s : Sessions \cup {Null}, n : Texts,
       from : Sessions \cup {Null}, p : Projects \cup {Null}, q : Projects \cup {Null}]
Resting == [step |-> "idle", kind |-> "list", s |-> Null, n |-> 0,
            from |-> Null, p |-> Null, q |-> Null]
Down == [Resting EXCEPT !.step = "down"]

At(step) == op.step = step
Goto(step) == op' = [op EXCEPT !.step = step]
Done == op' = Resting
Where(s) == mem[s].project
Enrolled(s) == Where(s) # Null
Present(s) == Enrolled(s) /\ <<s, Where(s)>> \in files

ConvTypeOK ==
    /\ files \subseteq Sessions \X Projects
    /\ text \in [Sessions \X Projects -> Texts]
    /\ disk \in Library
    /\ mem \in Library
    /\ trusted \in BOOLEAN
    /\ guard \in Guards
    /\ op \in Op
    /\ known \subseteq Sessions
    /\ saved \in [Sessions -> Texts]
    /\ deleted \subseteq Sessions
    /\ cut \in 0 .. MaxFaults
    /\ faults \in 0 .. MaxFaults

(* A fresh library, and the session files an older version left behind.    *)
ConvInit ==
    /\ files = Legacy \X {Home}
    /\ text = [f \in Sessions \X Projects |-> 0]
    /\ disk = [s \in Sessions |-> NoRecord]
    /\ mem = disk
    /\ trusted = TRUE
    /\ guard = "closed"
    /\ op = Resting
    /\ known = {}
    /\ saved = [s \in Sessions |-> 0]
    /\ deleted = {}
    /\ cut = 0
    /\ faults = 0

Fault == faults < MaxFaults /\ faults' = faults + 1

-----------------------------------------------------------------------------
(* LibraryStore._save once its guard has passed.  It succeeds; or it raises*)
(* and takes the library in memory back, because the file was edited,      *)
(* because the write failed, or because the directory could not be synced  *)
(* when the file was replaced.                                             *)
Saved(library) ==
    /\ guard # "closed"
    /\ guard' = "closed"
    /\ disk' = library
    /\ mem' = library
    /\ trusted' = TRUE
    /\ UNCHANGED faults

SaveRaised(library) ==
    \/ /\ guard = "closed" /\ ~trusted
       /\ UNCHANGED <<libraryVars, faults>>
    \/ /\ guard # "closed" /\ Fault
       /\ guard' = "closed" /\ UNCHANGED <<disk, mem, trusted>>
    \/ /\ guard # "closed" /\ LateFailures /\ Fault
       /\ guard' = "closed" /\ disk' = library /\ trusted' = FALSE /\ UNCHANGED mem

With(s, project, origin) == [mem EXCEPT ![s] = [project |-> project, origin |-> origin]]
Moved(s, project) == [mem EXCEPT ![s].project = project]
Without(s) == [mem EXCEPT ![s] = NoRecord]

(* sync_legacy_sessions on the directory of the default project.           *)
Strays == {s \in Sessions : <<s, Home>> \in files /\ ~Enrolled(s)}
WithStrays == [s \in Sessions |->
    IF s \in Strays THEN [project |-> Home, origin |-> 0] ELSE mem[s]]

Fresh(s) ==
    /\ \A p \in Projects : <<s, p>> \notin files
    /\ disk[s] = NoRecord /\ mem[s] = NoRecord
    /\ s \notin deleted

-----------------------------------------------------------------------------
(* Requests.  create_session and list_sessions start at once; the others   *)
(* first find their conversation.                                          *)
Request(kind, step, s, p, from) ==
    /\ At("idle")
    /\ op' = [Resting EXCEPT !.step = step, !.kind = kind, !.s = s, !.p = p, !.from = from]
    /\ UNCHANGED <<fileVars, libraryVars, writerVars, cut, faults>>

Create(s, p) == Fresh(s) /\ Request("create", "file", s, p, Null)
Fork(s, p, from) == Fresh(s) /\ s # from /\ Request("fork", "locate", s, p, from)
Move(s, p) == Request("move", "locate", s, p, Null)
Visit(kind, s) == Request(kind, "locate", s, Null, Null)
AppendMessage(s) == (\A p \in Projects : text[<<s, p>>] < MaxText) /\ Visit("append", s)

(* The conversation to be found, and the project a fork goes to unless the *)
(* request names another one.                                              *)
Subject == IF op.kind = "fork" THEN op.from ELSE op.s
Target(q) == IF op.kind = "fork" /\ op.p = Null THEN q ELSE op.p

(* What each handler does once it has found its conversation.              *)
First(q) ==
    CASE op.kind = "fork"   -> "file"
      [] op.kind = "delete" -> "unlink"
      [] op.kind = "append" -> "write"
      [] op.kind = "rename" -> "save"
      [] op.kind = "move"   -> IF op.p = q THEN "save" ELSE "copy"
      [] OTHER              -> "idle"

(* Having been shown a conversation, the writer relies on it.              *)
Shown(s, q) ==
    /\ known' = known \cup {s}
    /\ saved' = [saved EXCEPT ![s] = text[<<s, q>>]]
    /\ UNCHANGED deleted

Located(s, q) ==
    /\ Shown(s, q)
    /\ IF First(q) = "idle"
       THEN Done
       ELSE op' = [op EXCEPT !.step = First(q), !.q = q, !.p = Target(q),
                             !.n = IF op.kind = "fork" THEN text[<<s, q>>] ELSE 0]

(* _conversation_location: the library, then the file it names; a legacy   *)
(* file of the default project is enrolled on the way.  Else 404.          *)
Locate ==
    LET s == Subject IN
    /\ At("locate")
    /\ \/ /\ Present(s)
          /\ Located(s, Where(s))
          /\ UNCHANGED <<libraryVars, faults>>
       \/ /\ s \in Strays
          /\ Saved(With(s, Home, 0)) /\ Located(s, Home)
       \/ /\ s \in Strays
          /\ SaveRaised(With(s, Home, 0)) /\ Done /\ UNCHANGED writerVars
       \/ /\ ~Present(s) /\ s \notin Strays
          /\ Done /\ UNCHANGED <<libraryVars, faults, writerVars>>
    /\ UNCHANGED <<fileVars, cut>>

(* list_sessions, and the first request after a start: strays are enrolled.*)
List ==
    /\ At("list")
    /\ Saved(WithStrays) \/ SaveRaised(WithStrays)
    /\ Done
    /\ UNCHANGED <<fileVars, writerVars, cut>>

(* Steps that go on to _save.                                              *)
Saving ==
    \/ op.step \in {"list", "enroll", "forget", "commit", "save"}
    \/ At("locate") /\ Subject \in Strays

(* Mutant: the file is not looked at.                                      *)
PassAnyGuard ==
    /\ Saving /\ guard = "closed"
    /\ guard' = "passed"
    /\ UNCHANGED <<disk, mem, trusted, fileVars, op, writerVars, cut, faults>>

(* _guard_external_change: library.json is what this process last wrote.   *)
PassGuard ==
    /\ Saving /\ guard = "closed" /\ trusted
    /\ guard' = "passed"
    /\ UNCHANGED <<disk, mem, trusted, fileVars, op, writerVars, cut, faults>>

-----------------------------------------------------------------------------
(* create_session and fork_session: the file, its messages, the record; a  *)
(* record that cannot be saved takes the file away again.                  *)
WriteFile ==
    /\ At("file")
    /\ files' = files \cup {<<op.s, op.p>>}
    /\ text' = [text EXCEPT ![<<op.s, op.p>>] = 0]
    /\ Goto(IF op.kind = "fork" THEN "fill" ELSE "enroll")
    /\ UNCHANGED <<libraryVars, writerVars, cut, faults>>

FillFork ==
    /\ At("fill")
    /\ text' = [text EXCEPT ![<<op.s, op.p>>] = op.n]
    /\ Goto("enroll")
    /\ UNCHANGED <<files, libraryVars, writerVars, cut, faults>>

Enroll ==
    /\ At("enroll")
    /\ \/ Saved(With(op.s, op.p, op.n)) /\ Shown(op.s, op.p) /\ Done
       \/ SaveRaised(With(op.s, op.p, op.n)) /\ Goto("undo") /\ UNCHANGED writerVars
    /\ UNCHANGED <<fileVars, cut>>

Undo ==
    /\ At("undo")
    /\ files' = files \ {<<op.s, op.p>>}
    /\ Done
    /\ UNCHANGED <<text, libraryVars, writerVars, cut, faults>>

(* delete_session: the file, then the record.                              *)
Unlink ==
    /\ At("unlink")
    /\ files' = files \ {<<op.s, op.q>>}
    /\ known' = known \ {op.s}
    /\ Goto("forget")
    /\ UNCHANGED <<text, libraryVars, saved, deleted, cut, faults>>

Forget ==
    /\ At("forget")
    /\ \/ Saved(Without(op.s)) /\ deleted' = deleted \cup {op.s}
       \/ SaveRaised(Without(op.s)) /\ UNCHANGED deleted
    /\ Done
    /\ UNCHANGED <<fileVars, known, saved, cut>>

(* Mutant: the file is renamed into the target directory.                  *)
CopyAndClear ==
    /\ At("copy")
    /\ IF <<op.s, op.p>> \in files
       THEN Done /\ UNCHANGED fileVars
       ELSE /\ files' = (files \cup {<<op.s, op.p>>}) \ {<<op.s, op.q>>}
            /\ text' = [text EXCEPT ![<<op.s, op.p>>] = text[<<op.s, op.q>>]]
            /\ Goto("commit")
    /\ UNCHANGED <<libraryVars, writerVars, cut, faults>>

(* SessionStore.move_to: a copy in the target directory, the record, and   *)
(* then the old file; a refused record takes the copy away again.          *)
Copy ==
    /\ At("copy")
    /\ IF <<op.s, op.p>> \in files
       THEN Done /\ UNCHANGED fileVars
       ELSE /\ files' = files \cup {<<op.s, op.p>>}
            /\ text' = [text EXCEPT ![<<op.s, op.p>>] = text[<<op.s, op.q>>]]
            /\ Goto("commit")
    /\ UNCHANGED <<libraryVars, writerVars, cut, faults>>

Commit ==
    /\ At("commit")
    /\ \/ Saved(Moved(op.s, op.p)) /\ Goto("clear")
       \/ SaveRaised(Moved(op.s, op.p)) /\ Goto("retract")
    /\ UNCHANGED <<fileVars, writerVars, cut>>

Retract ==
    /\ At("retract")
    /\ files' = files \ {<<op.s, op.p>>}
    /\ Done
    /\ UNCHANGED <<text, libraryVars, writerVars, cut, faults>>

(* Mutant: the old file stays.                                             *)
ClearNothing ==
    /\ At("clear")
    /\ Done
    /\ UNCHANGED <<fileVars, libraryVars, writerVars, cut, faults>>

Clear ==
    /\ At("clear")
    /\ files' = files \ {<<op.s, op.q>>}
    /\ Done
    /\ UNCHANGED <<text, libraryVars, writerVars, cut, faults>>

(* append_messages, and every other write of the conversation's own file.  *)
Write ==
    /\ At("write")
    /\ text' = [text EXCEPT ![<<op.s, op.q>>] = @ + 1]
    /\ saved' = [saved EXCEPT ![op.s] = text'[<<op.s, op.q>>]]
    /\ Done
    /\ UNCHANGED <<files, libraryVars, known, deleted, cut, faults>>

(* update_conversation when nothing is moved: the whole library again.     *)
SaveFlags ==
    /\ At("save")
    /\ Saved(mem) \/ SaveRaised(mem)
    /\ Done
    /\ UNCHANGED <<fileVars, writerVars, cut>>

-----------------------------------------------------------------------------
(* A session file that cannot be written, synced or unlinked raises out of *)
(* its handler, before or after it took effect.                            *)
FileError ==
    /\ op.step \in {"file", "fill", "enroll", "undo", "unlink", "copy", "commit", "retract",
                    "clear", "write", "save"}
    /\ Fault
    /\ cut' = cut + 1
    /\ Done
    /\ guard' = "closed"
    /\ UNCHANGED <<fileVars, disk, mem, trusted, writerVars>>

Crash ==
    /\ ~At("down")
    /\ Fault
    /\ cut' = cut + 1
    /\ op' = Down
    /\ guard' = "closed"
    /\ UNCHANGED <<fileVars, disk, mem, trusted, writerVars>>

(* _load_or_create: the library in memory is the one on disk.              *)
Restart ==
    /\ At("down")
    /\ mem' = disk
    /\ trusted' = TRUE
    /\ Done
    /\ UNCHANGED <<fileVars, disk, guard, writerVars, cut, faults>>

(* library.json is edited by hand: a file nobody knows of gets a record.   *)
(* The edit is not seen by a save that has looked at the file already.     *)
EditLibrary(s, p) ==
    /\ <<s, p>> \in files
    /\ disk[s] = NoRecord /\ mem[s] = NoRecord
    /\ disk' = [disk EXCEPT ![s].project = p]
    /\ trusted' = FALSE
    /\ guard' = IF guard = "closed" THEN "closed" ELSE "raced"
    /\ Fault
    /\ UNCHANGED <<fileVars, mem, op, writerVars, cut>>

Arrive ==
    \/ Strays # {} /\ Request("list", "list", Null, Null, Null)
    \/ \E s \in Sessions :
          \/ \E p \in Projects : Create(s, p) \/ Move(s, p)
          \/ \E p \in Projects \cup {Null}, from \in Sessions : Fork(s, p, from)
          \/ \E kind \in {"open", "delete", "rename"} : Visit(kind, s)
          \/ AppendMessage(s)

Continue ==
    \/ Locate \/ List \/ PassGuard
    \/ WriteFile \/ FillFork \/ Enroll \/ Undo
    \/ Unlink \/ Forget
    \/ Copy \/ Commit \/ Retract \/ Clear
    \/ Write \/ SaveFlags

ConvNext ==
    \/ Arrive
    \/ Continue
    \/ FileError \/ Crash \/ Restart
    \/ \E s \in Sessions, p \in Projects : EditLibrary(s, p)

ConvSpec == ConvInit /\ [][ConvNext]_convVars

-----------------------------------------------------------------------------
(* What a writer was shown or told is saved stays where the library points *)
(* and keeps its messages: through crashes, failed writes, refused saves   *)
(* and compensations of moves, forks and deletions.  A branch holds the    *)
(* history it was forked with as long as it has a file.                    *)
ForkHoldsHistory ==
    \A s \in Sessions : Present(s) => mem[s].origin <= text[<<s, Where(s)>>]

AcknowledgedKept ==
    /\ ConvTypeOK
    /\ ForkHoldsHistory
    /\ \A s \in known :
          /\ Present(s) /\ saved[s] <= text[<<s, Where(s)>>]
          /\ disk[s] = mem[s]

(* Unless a handler is cut short, every compensation undoes exactly its    *)
(* own handler: no file is left without its record and no second copy, and *)
(* a conversation the writer was told is deleted does not come back from a *)
(* copy that a move left or from a stray file.                             *)
NothingLeftBehind ==
    cut = 0 =>
        /\ \A s \in deleted : ~Present(s)
        /\ At("idle") =>
              \A s \in Sessions \ Legacy, p \in Projects : <<s, p>> \in files => Where(s) = p

(* An edit of library.json by hand that stood when a save looked at the    *)
(* file is not replaced by any save, until the next start has loaded it.   *)
HandEditSurvives ==
    [][disk' # disk /\ ~trusted /\ guard # "raced" =>
          \E s \in Sessions, p \in Projects : EditLibrary(s, p)]_convVars

(* Does not hold: "an external edit must not be clobbered".  One that is   *)
(* made between the look and os.replace is lost, and nobody is told.       *)
NoEditClobbered ==
    [][disk' # disk /\ ~trusted =>
          \E s \in Sessions, p \in Projects : EditLibrary(s, p)]_convVars

(* Does not hold: a deletion whose library save fails leaves its record.   *)
(* "A restore rehearsal ... refuses a backup missing any enrolled          *)
(* conversation file": between two requests no record lacks its file.      *)
EnrolledHasFile == At("idle") => \A s \in Sessions : Enrolled(s) => Present(s)
=============================================================================
