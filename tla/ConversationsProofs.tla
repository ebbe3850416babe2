-------------------------- MODULE ConversationsProofs --------------------------
(***************************************************************************)
(* Proofs about Conversations, for any conversations and projects, and any *)
(* crashes, failed writes and edits of library.json by hand; and about     *)
(* WorkspaceBackup, whose worker collects beside all of these.             *)
(***************************************************************************)
EXTENDS WorkspaceBackup, WellFoundedInduction, FiniteSetTheorems, TLAPS

USE ConversationsAssumption

(* No file and no record has this id, and no writer deleted it.            *)
Unused(s) ==
    /\ \A p \in Projects : <<s, p>> \notin files
    /\ mem[s] = NoRecord
    /\ s \notin deleted

(* What a handler has found out, and still is so, at each of its steps.    *)
LocateInv ==
    At("locate") =>
        /\ op.s \in Sessions /\ op.kind \notin {"create", "list"}
        /\ op.kind = "fork" => op.from \in Sessions /\ op.from # op.s /\ Unused(op.s)
        /\ op.kind = "append" => \A p \in Projects : text[<<op.s, p>>] < MaxText
        /\ op.kind = "move" => op.p \in Projects

(* create_session and fork_session: the file is the only one of its id and *)
(* has no record yet.                                                      *)
NewFileInv ==
    /\ At("file") =>
          /\ op.s \in Sessions /\ op.p \in Projects /\ Unused(op.s)
          /\ op.kind # "fork" => op.n = 0
    /\ op.step \in {"fill", "enroll", "undo"} =>
          /\ op.s \in Sessions /\ op.p \in Projects
          /\ mem[op.s] = NoRecord /\ op.s \notin deleted
          /\ \A p \in Projects : <<op.s, p>> \in files => p = op.p
    /\ op.step \in {"fill", "enroll"} => <<op.s, op.p>> \in files
    /\ At("enroll") => text[<<op.s, op.p>>] = op.n

(* The other handlers: their conversation is where they found it, until    *)
(* they change that themselves.                                            *)
FoundInv ==
    /\ op.step \in {"unlink", "forget", "copy", "commit", "retract", "clear", "write"} =>
          op.s \in Sessions /\ op.q \in Projects
    /\ op.step \in {"unlink", "forget", "copy", "commit", "retract", "write"} =>
          Where(op.s) = op.q
    /\ op.step \in {"unlink", "copy", "commit", "retract", "write"} => <<op.s, op.q>> \in files
    /\ At("forget") => <<op.s, op.q>> \notin files
    /\ op.step \in {"copy", "commit", "retract", "clear"} => op.p \in Projects /\ op.p # op.q
    /\ At("commit") => <<op.s, op.p>> \in files /\ text[<<op.s, op.p>>] = text[<<op.s, op.q>>]
    /\ At("clear") => Where(op.s) = op.p
    /\ At("write") => text[<<op.s, op.q>>] < MaxText

(* The file a handler has put beside the one the library names.            *)
InFlight(s, p) ==
    /\ s = op.s
    /\ \/ op.step \in {"fill", "enroll", "undo", "commit", "retract"} /\ p = op.p
       \/ At("clear") /\ p = op.q

(* The file has its record, is an older version's, or is the handler's.    *)
Accounted(s, p) ==
    \/ Where(s) = p
    \/ s \in Legacy /\ p = Home /\ ~Enrolled(s)
    \/ InFlight(s, p)

(* Until a handler is cut short, nothing is left behind.                   *)
FilesInv ==
    cut = 0 =>
        /\ ~At("down")
        /\ \A s \in deleted, p \in Projects : <<s, p>> \notin files
        /\ \A s \in Sessions, p \in Projects : <<s, p>> \in files => Accounted(s, p)

HandlerInv == LocateInv /\ NewFileInv /\ FoundInv

ConvInv == ConvTypeOK /\ HandlerInv /\ FilesInv

CutCounted == cut <= faults

(* Of what is on disk, only a record put there by hand is not in memory.   *)
DiskInv ==
    \A s \in Sessions :
        disk[s] = mem[s] \/ (~trusted /\ mem[s] = NoRecord /\ disk[s].origin = 0)

(* What a writer was shown or told is saved, and what a fork holds.        *)
Kept(s) ==
    /\ s \in known => Present(s) /\ saved[s] <= text[<<s, Where(s)>>]
    /\ Present(s) => mem[s].origin <= text[<<s, Where(s)>>]

KeptInv == DiskInv /\ \A s \in Sessions : Kept(s)

-----------------------------------------------------------------------------
LEMMA Typed ==
    ASSUME ConvTypeOK
    PROVE  /\ files \subseteq Sessions \X Projects
           /\ text \in [Sessions \X Projects -> Texts]
           /\ disk \in Library /\ mem \in Library
           /\ \A s \in Sessions : /\ mem[s] \in Record /\ disk[s] \in Record
                                  /\ Where(s) \in Projects \cup {Null}
                                  /\ mem[s].origin \in Texts
           /\ op \in Op /\ op.step \in Steps /\ op.kind \in Kinds /\ op.n \in Texts
           /\ op.s \in Sessions \cup {Null} /\ op.from \in Sessions \cup {Null}
           /\ op.p \in Projects \cup {Null} /\ op.q \in Projects \cup {Null}
           /\ known \subseteq Sessions /\ saved \in [Sessions -> Texts]
           /\ deleted \subseteq Sessions
           /\ cut \in 0 .. MaxFaults /\ faults \in 0 .. MaxFaults
           /\ trusted \in BOOLEAN /\ guard \in Guards
    BY DEF ConvTypeOK, Library, Record, Op, Where

LEMMA RestingTyped ==
    /\ Resting \in Op /\ Down \in Op /\ Resting.step = "idle" /\ Down.step = "down"
    /\ NoRecord \in Record /\ NoRecord.project = Null /\ NoRecord.origin = 0
    /\ 0 \in Texts
    BY DEF Resting, Down, Op, Steps, Kinds, Texts, NoRecord, Record

(* A handler that is over, or stopped, has nothing to keep.                *)
LEMMA HandlerOver ==
    ASSUME op'.step \in {"idle", "down"}
    PROVE  HandlerInv'
    BY DEF HandlerInv, LocateInv, NewFileInv, FoundInv, At

LEMMA StepTo ==
    ASSUME ConvTypeOK, NEW step \in Steps, Goto(step)
    PROVE  /\ op' = [op EXCEPT !.step = step] /\ op' \in Op /\ op'.step = step
           /\ op'.kind = op.kind /\ op'.s = op.s /\ op'.n = op.n
           /\ op'.from = op.from /\ op'.p = op.p /\ op'.q = op.q
<1>1. op' = [op EXCEPT !.step = step] /\ op \in Op
    BY Typed DEF Goto
<1> QED
    BY <1>1 DEF Op

(* The libraries that handlers save.                                       *)
LEMMA WithIs ==
    ASSUME ConvTypeOK, NEW s \in Sessions, NEW p \in Projects, NEW n \in Texts
    PROVE  /\ With(s, p, n) \in Library
           /\ With(s, p, n)[s].project = p /\ With(s, p, n)[s].origin = n
           /\ \A x \in Sessions : x # s => With(s, p, n)[x] = mem[x]
<1>1. [project |-> p, origin |-> n] \in Record
    BY DEF Record
<1> QED
    BY <1>1, Typed DEF With, Library

LEMMA MovedIs ==
    ASSUME ConvTypeOK, NEW s \in Sessions, NEW p \in Projects
    PROVE  /\ Moved(s, p) \in Library
           /\ Moved(s, p)[s].project = p /\ Moved(s, p)[s].origin = mem[s].origin
           /\ \A x \in Sessions : x # s => Moved(s, p)[x] = mem[x]
<1>1. mem \in [Sessions -> Record] /\ mem[s] \in Record
    BY Typed DEF Library
<1>2. Moved(s, p) = [mem EXCEPT ![s] = [mem[s] EXCEPT !.project = p]]
    BY DEF Moved
<1>3. PICK r : r = [mem[s] EXCEPT !.project = p]
    OBVIOUS
<1>4. r \in Record /\ r.project = p /\ r.origin = mem[s].origin
    BY <1>1, <1>3 DEF Record
<1> QED
    BY <1>1, <1>2, <1>3, <1>4 DEF Library

LEMMA WithoutIs ==
    ASSUME ConvTypeOK, NEW s \in Sessions
    PROVE  /\ Without(s) \in Library /\ Without(s)[s] = NoRecord
           /\ \A x \in Sessions : x # s => Without(s)[x] = mem[x]
    BY Typed, RestingTyped DEF Without, Library

LEMMA WithStraysIs ==
    ASSUME ConvTypeOK
    PROVE  /\ WithStrays \in Library
           /\ \A s \in Strays : WithStrays[s].project = Home /\ WithStrays[s].origin = 0
           /\ \A s \in Sessions \ Strays : WithStrays[s] = mem[s]
<1>1. [project |-> Home, origin |-> 0] \in Record
    BY DEF Record, Texts
<1> QED
    BY <1>1, Typed DEF WithStrays, Library, Strays

(* _save: the library in memory is the one that was to be saved, or the    *)
(* one that was there.                                                     *)
LEMMA SaveTyped ==
    ASSUME ConvTypeOK, NEW library \in Library, Saved(library) \/ SaveRaised(library)
    PROVE  /\ disk' \in Library /\ mem' \in Library /\ trusted' \in BOOLEAN /\ guard' \in Guards
           /\ faults' \in 0 .. MaxFaults
           /\ Saved(library) => mem' = library
           /\ SaveRaised(library) => mem' = mem
<1>1. CASE Saved(library)
  <2>1. /\ disk' = library /\ mem' = library /\ trusted' = TRUE /\ faults' = faults
        /\ guard' = "closed"
        /\ SaveRaised(library) => mem' = mem
    BY <1>1 DEF Saved, SaveRaised, libraryVars
  <2> QED
    BY <2>1, Typed DEF Guards
<1>2. CASE SaveRaised(library) /\ ~Saved(library)
  <2>1. /\ mem' = mem /\ disk' \in {disk, library} /\ trusted' \in {trusted, FALSE}
        /\ guard' \in {guard, "closed"}
        /\ faults' = faults \/ (faults < MaxFaults /\ faults' = faults + 1)
    BY <1>2 DEF SaveRaised, Fault, libraryVars
  <2>2. faults' \in 0 .. MaxFaults
    BY <2>1, Typed
  <2> QED
    BY <1>2, <2>1, <2>2, Typed DEF Guards
<1> QED
    BY <1>1, <1>2

-----------------------------------------------------------------------------
LEMMA ConvInitInv == ConvInit => ConvInv /\ KeptInv
<1> SUFFICES ASSUME ConvInit PROVE ConvInv /\ KeptInv
    OBVIOUS
<1> USE DEF ConvInit
<1>1. ConvTypeOK
    BY RestingTyped DEF ConvTypeOK, Library, Texts, Guards
<1>2. HandlerInv
    BY RestingTyped DEF HandlerInv, LocateInv, NewFileInv, FoundInv, At
<1>3. \A s \in Sessions : mem[s] = NoRecord /\ disk[s] = NoRecord /\ ~Enrolled(s)
    BY RestingTyped DEF Enrolled, Where
<1>4. FilesInv
    BY <1>3, RestingTyped DEF FilesInv, Accounted, At
<1>5. KeptInv
    BY <1>3 DEF KeptInv, DiskInv, Kept, Present
<1> QED
    BY <1>1, <1>2, <1>4, <1>5 DEF ConvInv

-----------------------------------------------------------------------------
(* Requests.                                                               *)
LEMMA RequestInv ==
    ASSUME ConvInv, NEW kind \in Kinds, NEW step \in {"list", "file", "locate"},
           NEW s \in Sessions \cup {Null}, step # "list" => s \in Sessions,
           NEW p \in Projects \cup {Null}, NEW from \in Sessions \cup {Null},
           Request(kind, step, s, p, from),
           step = "file" => kind = "create" /\ p \in Projects /\ Unused(s),
           step = "locate" =>
              /\ kind \notin {"create", "list"}
              /\ kind = "fork" => from \in Sessions /\ from # s /\ Unused(s)
              /\ kind = "append" => \A x \in Projects : text[<<s, x>>] < MaxText
              /\ kind = "move" => p \in Projects
    PROVE  ConvInv'
<1>1. op' = [step |-> step, kind |-> kind, s |-> s, n |-> 0, from |-> from, p |-> p, q |-> Null]
    BY DEF Request, Resting
<1>2. UNCHANGED <<files, text, disk, mem, trusted, guard, known, saved, deleted, cut, faults>>
      /\ op.step = "idle"
    BY DEF Request, fileVars, libraryVars, writerVars, At
<1>3. op' \in Op
    BY <1>1 DEF Op, Steps, Texts
<1>4. ConvTypeOK'
    BY <1>2, <1>3 DEF ConvInv, ConvTypeOK
<1>5. \A x : Unused(x)' <=> Unused(x)
    BY <1>2 DEF Unused
<1>6. HandlerInv'
    BY <1>1, <1>2, <1>5 DEF HandlerInv, LocateInv, NewFileInv, FoundInv, At
<1>7. FilesInv'
  <2>1. \A x, y : Accounted(x, y) => Accounted(x, y)'
    BY <1>2 DEF Accounted, InFlight, Where, Enrolled, At
  <2> QED
    BY <1>1, <1>2, <2>1 DEF ConvInv, FilesInv, At
<1> QED
    BY <1>4, <1>6, <1>7 DEF ConvInv

LEMMA ArriveInv ==
    ASSUME ConvInv, Arrive PROVE ConvInv'
<1> USE DEF Kinds
<1>1. ASSUME NEW s \in Sessions, NEW p \in Projects, Create(s, p) PROVE ConvInv'
    BY <1>1, RequestInv DEF Create, Fresh, Unused
<1>2. ASSUME NEW s \in Sessions, NEW p \in Projects, Move(s, p) PROVE ConvInv'
    BY <1>2, RequestInv DEF Move
<1>3. ASSUME NEW s \in Sessions, NEW p \in Projects \cup {Null}, NEW from \in Sessions,
             Fork(s, p, from)
      PROVE  ConvInv'
    BY <1>3, RequestInv DEF Fork, Fresh, Unused
<1>4. ASSUME NEW s \in Sessions, NEW kind \in {"open", "delete", "rename"}, Visit(kind, s)
      PROVE  ConvInv'
    BY <1>4, RequestInv DEF Visit
<1>5. ASSUME NEW s \in Sessions, AppendMessage(s) PROVE ConvInv'
    BY <1>5, RequestInv DEF AppendMessage, Visit
<1>6. CASE Request("list", "list", Null, Null, Null)
    BY <1>6, RequestInv
<1> QED
    BY <1>1, <1>2, <1>3, <1>4, <1>5, <1>6 DEF Arrive

-----------------------------------------------------------------------------
(* _conversation_location, and the handlers that go on from it.            *)
LEMMA FirstIs ==
    ASSUME ConvTypeOK, NEW q, op.kind \notin {"create", "list"}
    PROVE  /\ First(q) \in {"file", "unlink", "write", "save", "copy", "idle"}
           /\ First(q) = "file" => op.kind = "fork"
           /\ First(q) = "unlink" => op.kind = "delete"
           /\ First(q) = "write" => op.kind = "append"
           /\ First(q) = "copy" => op.kind = "move" /\ op.p # q
           /\ op.kind = "fork" => First(q) = "file"
<1>1. op.kind \in {"fork", "delete", "move", "append", "rename", "open"}
    BY Typed DEF Kinds
<1> QED
    BY <1>1 DEF First

LEMMA LocatedDoes ==
    ASSUME ConvTypeOK, LocateInv, At("locate"), NEW s \in Sessions, NEW q \in Projects,
           Located(s, q)
    PROVE  /\ known' = known \cup {s} /\ deleted' = deleted
           /\ saved' = [saved EXCEPT ![s] = text[<<s, q>>]] /\ saved' \in [Sessions -> Texts]
           /\ op' \in Op /\ op'.step # "down"
           /\ \/ op' = Resting
              \/ /\ op'.step = First(q) /\ op'.kind = op.kind /\ op'.s = op.s
                 /\ op'.q = q /\ op'.p = Target(q)
                 /\ Target(q) = IF op.kind = "fork" /\ op.p = Null THEN q ELSE op.p
<1>1. known' = known \cup {s} /\ deleted' = deleted
      /\ saved' = [saved EXCEPT ![s] = text[<<s, q>>]]
    BY DEF Located, Shown
<1>2. text[<<s, q>>] \in Texts
    BY Typed
<1>3. saved' \in [Sessions -> Texts]
    BY <1>1, <1>2, Typed
<1>4. First(q) \in {"file", "unlink", "write", "save", "copy", "idle"}
    BY FirstIs DEF LocateInv
<1>5. PICK n \in Texts : n = IF op.kind = "fork" THEN text[<<s, q>>] ELSE 0
    BY <1>2, RestingTyped
<1>6. Target(q) \in Projects \cup {Null}
    BY Typed DEF Target
<1>7. CASE First(q) = "idle"
    BY <1>1, <1>3, <1>7, RestingTyped DEF Located, Done
<1>8. CASE First(q) # "idle"
  <2>1. op' = [op EXCEPT !.step = First(q), !.q = q, !.p = Target(q), !.n = n]
    BY <1>5, <1>8 DEF Located
  <2>2. op \in Op
    BY Typed
  <2>3. op' = [step |-> First(q), kind |-> op.kind, s |-> op.s, n |-> n, from |-> op.from,
               p |-> Target(q), q |-> q]
    BY <2>1, <2>2 DEF Op
  <2>4. op' \in Op
    BY <1>4, <1>6, <2>2, <2>3 DEF Op, Steps
  <2> QED
    BY <1>1, <1>3, <1>4, <2>3, <2>4 DEF Target
<1> QED
    BY <1>7, <1>8

LEMMA LocatedInv ==
    ASSUME ConvInv, At("locate"), NEW s \in Sessions, s = Subject, NEW q \in Projects,
           Located(s, q), UNCHANGED fileVars, cut' = cut,
           disk' \in Library, mem' \in Library, trusted' \in BOOLEAN, guard' \in Guards,
           faults' \in 0 .. MaxFaults,
           mem'[s].project = q, <<s, q>> \in files,
           \A x \in Sessions : x # s => mem'[x] = mem[x],
           \A y \in Projects : cut = 0 /\ <<s, y>> \in files => y = q
    PROVE  ConvInv'
<1>1. ConvTypeOK /\ LocateInv
    BY DEF ConvInv, HandlerInv
<1>2. /\ known' = known \cup {s} /\ deleted' = deleted /\ saved' \in [Sessions -> Texts]
      /\ op' \in Op /\ op'.step # "down"
      /\ \/ op' = Resting
         \/ /\ op'.step = First(q) /\ op'.kind = op.kind /\ op'.s = op.s
            /\ op'.q = q /\ op'.p = Target(q)
            /\ Target(q) = IF op.kind = "fork" /\ op.p = Null THEN q ELSE op.p
    BY <1>1, LocatedDoes
<1>3. files' = files /\ text' = text
    BY DEF fileVars
<1>4. ConvTypeOK'
    BY <1>1, <1>2, <1>3 DEF ConvTypeOK
<1>5. HandlerInv'
  <2>1. CASE op' = Resting
    BY <2>1, HandlerOver, RestingTyped
  <2>2. CASE op' # Resting
    <3>1. /\ op'.step = First(q) /\ op'.kind = op.kind /\ op'.s = op.s
          /\ op'.q = q /\ op'.p = Target(q)
          /\ Target(q) = IF op.kind = "fork" /\ op.p = Null THEN q ELSE op.p
          /\ op.step = "locate" /\ op.s \in Sessions /\ op.kind \notin {"create", "list"}
          /\ op.kind = "fork" => op.from # op.s /\ Unused(op.s)
          /\ op.kind = "append" => \A p \in Projects : text[<<op.s, p>>] < MaxText
          /\ op.kind = "move" => op.p \in Projects
      BY <1>1, <1>2, <2>2 DEF LocateInv, At
    <3>2. /\ First(q) \in {"file", "unlink", "write", "save", "copy", "idle"}
          /\ First(q) = "file" => op.kind = "fork"
          /\ First(q) = "unlink" => op.kind = "delete"
          /\ First(q) = "write" => op.kind = "append"
          /\ First(q) = "copy" => op.kind = "move" /\ op.p # q
      BY <1>1, <3>1, FirstIs
    <3>3. CASE First(q) = "file"
      <4>1. op.kind = "fork" /\ op.s # s /\ Target(q) \in Projects
        BY <3>1, <3>2, <3>3, <1>1, Typed DEF Subject
      <4>2. mem'[op.s] = mem[op.s]
        BY <3>1, <4>1
      <4>3. /\ \A p \in Projects : <<op.s, p>> \notin files
            /\ mem[op.s] = NoRecord
            /\ op.s \notin deleted
        BY <3>1, <4>1 DEF Unused
      <4>4. Unused(op.s)'
        BY <1>2, <1>3, <3>1, <4>2, <4>3 DEF Unused
      <4> QED
        BY <3>1, <3>3, <4>1, <4>4 DEF HandlerInv, LocateInv, NewFileInv, FoundInv, At
    <3>4. CASE First(q) # "file"
      <4>1. s = op.s
        BY <3>1, <3>4, FirstIs, <1>1 DEF Subject
      <4>2. Where(op.s)' = q
        BY <3>1, <4>1 DEF Where
      <4> QED
        BY <1>3, <3>1, <3>2, <3>4, <4>1, <4>2
        DEF HandlerInv, LocateInv, NewFileInv, FoundInv, At
    <3> QED
      BY <3>3, <3>4
  <2> QED
    BY <2>1, <2>2
<1>6. FilesInv'
  <2> SUFFICES ASSUME cut = 0
               PROVE  /\ ~At("down")'
                      /\ \A x \in deleted, p \in Projects : <<x, p>> \notin files
                      /\ \A x \in Sessions, p \in Projects : <<x, p>> \in files =>
                            Accounted(x, p)'
    BY <1>2, <1>3 DEF FilesInv
  <2>1. ASSUME NEW x \in Sessions, NEW p \in Projects, <<x, p>> \in files
        PROVE  Accounted(x, p)'
    <3>1. CASE x = s
      BY <2>1, <3>1 DEF Accounted, Where
    <3>2. CASE x # s
      <4>1. Accounted(x, p) /\ ~InFlight(x, p)
        BY <2>1 DEF ConvInv, FilesInv, InFlight, At
      <4>2. mem'[x] = mem[x]
        BY <3>2
      <4> QED
        BY <4>1, <4>2 DEF Accounted, Where, Enrolled
    <3> QED
      BY <3>1, <3>2
  <2> QED
    BY <1>2, <2>1 DEF ConvInv, FilesInv, At
<1> QED
    BY <1>4, <1>5, <1>6 DEF ConvInv

(* A handler that ends here, with the files and the library it found.      *)
LEMMA EndsHere ==
    ASSUME ConvInv, op' \in {Resting, op}, At("idle") \/ op' = Resting,
           UNCHANGED <<files, text, known, saved, deleted>>,
           cut' = cut, disk' \in Library, mem' = mem, trusted' \in BOOLEAN, guard' \in Guards,
           faults' \in 0 .. MaxFaults,
           \A x, p : ~InFlight(x, p)
    PROVE  ConvInv'
<1>1. op'.step = "idle" /\ op' \in Op
    BY RestingTyped, Typed DEF ConvInv, At
<1>2. HandlerInv'
    BY <1>1, HandlerOver
<1>3. ConvTypeOK'
    BY <1>1, Typed DEF ConvInv, ConvTypeOK
<1>4. FilesInv'
  <2>1. \A x, p : Accounted(x, p) => Accounted(x, p)'
    BY DEF Accounted, Where, Enrolled
  <2> QED
    BY <1>1, <2>1 DEF ConvInv, FilesInv, At
<1> QED
    BY <1>2, <1>3, <1>4 DEF ConvInv

LEMMA LocateStepInv ==
    ASSUME ConvInv, Locate PROVE ConvInv'
<1>1. ConvTypeOK /\ LocateInv /\ At("locate") /\ UNCHANGED fileVars /\ cut' = cut
    BY DEF ConvInv, HandlerInv, Locate
<1>2. PICK s \in Sessions : s = Subject
    BY <1>1 DEF LocateInv, Subject
<1>3. \A x, p : ~InFlight(x, p)
    BY <1>1 DEF InFlight, At
<1>4. \A y \in Projects : cut = 0 /\ <<s, y>> \in files =>
          Where(s) = y \/ (y = Home /\ ~Enrolled(s))
    BY <1>3 DEF ConvInv, FilesInv, Accounted
<1>5. CASE Present(s) /\ Located(s, Where(s)) /\ UNCHANGED <<libraryVars, faults>>
  <2>1. Where(s) \in Projects /\ <<s, Where(s)>> \in files
    BY <1>1, <1>5, Typed DEF Present, Enrolled
  <2>2. UNCHANGED <<disk, mem, trusted, guard, faults>>
    BY <1>5 DEF libraryVars
  <2>3. /\ disk' \in Library /\ mem' \in Library /\ trusted' \in BOOLEAN /\ guard' \in Guards
        /\ faults' \in 0 .. MaxFaults
        /\ mem'[s].project = Where(s) /\ \A x \in Sessions : x # s => mem'[x] = mem[x]
    BY <1>1, <2>2, Typed DEF Where
  <2>4. PICK q \in Projects : q = Where(s)
    BY <2>1
  <2>5. \A y \in Projects : cut = 0 /\ <<s, y>> \in files => y = q
    BY <1>4, <1>5, <2>4 DEF Present
  <2> QED
    BY <1>1, <1>2, <1>5, <2>1, <2>3, <2>4, <2>5, LocatedInv
<1>6. CASE s \in Strays /\ Saved(With(s, Home, 0)) /\ Located(s, Home)
  <2>1. Home \in Projects /\ <<s, Home>> \in files /\ ~Enrolled(s)
    BY <1>6 DEF Strays
  <2>2. /\ With(s, Home, 0) \in Library /\ With(s, Home, 0)[s].project = Home
        /\ \A x \in Sessions : x # s => With(s, Home, 0)[x] = mem[x]
    BY <1>1, WithIs, RestingTyped
  <2>3. /\ disk' \in Library /\ mem' \in Library /\ trusted' \in BOOLEAN /\ guard' \in Guards
        /\ faults' \in 0 .. MaxFaults /\ mem' = With(s, Home, 0)
    BY <1>1, <1>6, <2>2, SaveTyped
  <2>4. \A y \in Projects : cut = 0 /\ <<s, y>> \in files => y = Home
    BY <1>4, <2>1 DEF Enrolled
  <2> QED
    BY <1>1, <1>2, <1>6, <2>1, <2>2, <2>3, <2>4, LocatedInv
<1>7. CASE \/ s \in Strays /\ SaveRaised(With(s, Home, 0)) /\ Done /\ UNCHANGED writerVars
           \/ Done /\ UNCHANGED <<libraryVars, faults, writerVars>>
  <2>1. With(s, Home, 0) \in Library
    BY <1>1, WithIs, RestingTyped
  <2>2. /\ disk' \in Library /\ mem' = mem
        /\ trusted' \in BOOLEAN /\ guard' \in Guards /\ faults' \in 0 .. MaxFaults
    BY <1>1, <1>7, <2>1, SaveTyped, Typed DEF libraryVars
  <2>3. op' = Resting /\ UNCHANGED <<files, text, known, saved, deleted>>
    BY <1>1, <1>7 DEF Done, writerVars, fileVars
  <2> QED
    BY <1>1, <1>3, <2>2, <2>3, EndsHere
<1> QED
    BY <1>2, <1>5, <1>6, <1>7 DEF Locate

LEMMA ListInv ==
    ASSUME ConvInv, List PROVE ConvInv'
<1>1. /\ ConvTypeOK /\ At("list") /\ op' = Resting
      /\ UNCHANGED <<files, text, known, saved, deleted, cut>>
    BY DEF ConvInv, List, Done, fileVars, writerVars
<1>2. /\ WithStrays \in Library
      /\ \A s \in Strays : WithStrays[s].project = Home /\ WithStrays[s].origin = 0
      /\ \A s \in Sessions \ Strays : WithStrays[s] = mem[s]
    BY <1>1, WithStraysIs
<1>3. /\ disk' \in Library /\ mem' \in Library
      /\ trusted' \in BOOLEAN /\ guard' \in Guards /\ faults' \in 0 .. MaxFaults
      /\ mem' = mem \/ mem' = WithStrays
    BY <1>1, <1>2, SaveTyped DEF List
<1>4. ConvTypeOK'
    BY <1>1, <1>3, RestingTyped DEF ConvTypeOK
<1>5. HandlerInv'
    BY <1>1, HandlerOver, RestingTyped
<1>6. FilesInv'
  <2>1. ASSUME NEW s \in Sessions, NEW p \in Projects, <<s, p>> \in files, Accounted(s, p)
        PROVE  Accounted(s, p)'
    <3>1. ~InFlight(s, p)
      BY <1>1 DEF InFlight, At
    <3>2. CASE mem'[s] = mem[s]
      BY <2>1, <3>1, <3>2 DEF Accounted, Where, Enrolled
    <3>3. CASE s \in Strays /\ mem' = WithStrays
      <4>1. ~Enrolled(s) /\ p = Home
        BY <2>1, <3>1, <3>3 DEF Strays, Accounted, Enrolled
      <4> QED
        BY <1>2, <3>3, <4>1 DEF Accounted, Where
    <3> QED
      BY <1>2, <1>3, <3>2, <3>3
  <2> QED
    BY <1>1, <2>1, RestingTyped DEF ConvInv, FilesInv, At
<1> QED
    BY <1>4, <1>5, <1>6 DEF ConvInv

-----------------------------------------------------------------------------
(* Steps that change the files and leave the library alone.                *)
LEMMA FileStepInv ==
    ASSUME ConvInv, UNCHANGED <<disk, mem, trusted, guard, deleted, cut, faults>>,
           files' \subseteq Sessions \X Projects,
           text' \in [Sessions \X Projects -> Texts], op' \in Op, op'.step # "down",
           known' \subseteq Sessions, saved' \in [Sessions -> Texts],
           HandlerInv',
           \A s \in deleted, p \in Projects : cut = 0 /\ <<s, p>> \in files' => <<s, p>> \in files,
           \A s \in Sessions, p \in Projects : <<s, p>> \in files' =>
               (<<s, p>> \in files /\ ~InFlight(s, p)) \/ InFlight(s, p)'
    PROVE  ConvInv'
<1>1. ConvTypeOK'
    BY DEF ConvInv, ConvTypeOK
<1>2. FilesInv'
  <2>1. ASSUME cut = 0, NEW s \in Sessions, NEW p \in Projects, <<s, p>> \in files'
        PROVE  Accounted(s, p)'
    <3>1. CASE InFlight(s, p)'
      BY <3>1 DEF Accounted
    <3>2. CASE <<s, p>> \in files /\ ~InFlight(s, p)
      <4>1. Accounted(s, p)
        BY <2>1, <3>2 DEF ConvInv, FilesInv
      <4> QED
        BY <3>2, <4>1 DEF Accounted, Where, Enrolled
    <3> QED
      BY <2>1, <3>1, <3>2
  <2>2. cut = 0 => \A s \in deleted', p \in Projects : <<s, p>> \notin files'
    BY DEF ConvInv, FilesInv
  <2> QED
    BY <2>1, <2>2 DEF FilesInv, At
<1> QED
    BY <1>1, <1>2 DEF ConvInv

LEMMA WriteFileInv ==
    ASSUME ConvInv, WriteFile PROVE ConvInv'
<1>1. ConvTypeOK /\ NewFileInv /\ op.step = "file"
    BY DEF ConvInv, HandlerInv, WriteFile, At
<1>2. PICK s \in Sessions, p \in Projects : op.s = s /\ op.p = p
    BY <1>1 DEF NewFileInv, At
<1>3. Unused(s) /\ (op.kind # "fork" => op.n = 0)
    BY <1>1, <1>2 DEF NewFileInv, At
<1>4. /\ files' = files \cup {<<s, p>>} /\ text' = [text EXCEPT ![<<s, p>>] = 0]
      /\ UNCHANGED <<disk, mem, trusted, guard, known, saved, deleted, cut, faults>>
    BY <1>2 DEF WriteFile, libraryVars, writerVars
<1>5. /\ op' \in Op /\ op'.kind = op.kind /\ op'.s = s /\ op'.p = p /\ op'.n = op.n
      /\ op'.step = IF op.kind = "fork" THEN "fill" ELSE "enroll"
  <2>1. (IF op.kind = "fork" THEN "fill" ELSE "enroll") \in Steps
    BY DEF Steps
  <2> QED
    BY <1>1, <1>2, <2>1, StepTo DEF WriteFile
<1>6. text' \in [Sessions \X Projects -> Texts] /\ text'[<<s, p>>] = 0
    BY <1>1, <1>4, Typed, RestingTyped
<1>7. HandlerInv'
    BY <1>3, <1>4, <1>5, <1>6 DEF HandlerInv, LocateInv, NewFileInv, FoundInv, At, Unused
<1>8. \A x \in Sessions, y \in Projects : <<x, y>> \in files' =>
          (<<x, y>> \in files /\ ~InFlight(x, y)) \/ InFlight(x, y)'
    BY <1>1, <1>4, <1>5 DEF InFlight, At
<1>9. \A x \in deleted, y \in Projects : <<x, y>> \in files' => <<x, y>> \in files
    BY <1>3, <1>4 DEF Unused
<1> QED
    BY <1>1, <1>4, <1>5, <1>6, <1>7, <1>8, <1>9, FileStepInv, Typed

LEMMA FillForkInv ==
    ASSUME ConvInv, FillFork PROVE ConvInv'
<1>1. ConvTypeOK /\ NewFileInv /\ op.step = "fill"
    BY DEF ConvInv, HandlerInv, FillFork, At
<1>2. PICK s \in Sessions, p \in Projects, n \in Texts : op.s = s /\ op.p = p /\ op.n = n
    BY <1>1, Typed DEF NewFileInv
<1>3. /\ mem[s] = NoRecord /\ s \notin deleted /\ <<s, p>> \in files
      /\ \A x \in Projects : <<s, x>> \in files => x = p
    BY <1>1, <1>2 DEF NewFileInv
<1>4. /\ text' = [text EXCEPT ![<<s, p>>] = n]
      /\ UNCHANGED <<files, disk, mem, trusted, guard, known, saved, deleted, cut, faults>>
    BY <1>2 DEF FillFork, libraryVars, writerVars
<1>5. op' \in Op /\ op'.s = s /\ op'.p = p /\ op'.n = n /\ op'.step = "enroll"
    BY <1>1, <1>2, StepTo DEF FillFork, Steps
<1>6. text' \in [Sessions \X Projects -> Texts] /\ text'[<<s, p>>] = n
    BY <1>1, <1>4, Typed
<1>7. HandlerInv'
    BY <1>3, <1>4, <1>5, <1>6 DEF HandlerInv, LocateInv, NewFileInv, FoundInv, At
<1>8. \A x, y : InFlight(x, y)' <=> InFlight(x, y)
    BY <1>1, <1>2, <1>5 DEF InFlight, At
<1> QED
    BY <1>1, <1>4, <1>5, <1>6, <1>7, <1>8, FileStepInv, Typed

LEMMA UndoInv ==
    ASSUME ConvInv, Undo PROVE ConvInv'
<1>1. ConvTypeOK /\ op.step = "undo"
    BY DEF ConvInv, Undo, At
<1>2. /\ files' = files \ {<<op.s, op.p>>} /\ op' = Resting
      /\ UNCHANGED <<text, disk, mem, trusted, guard, known, saved, deleted, cut, faults>>
    BY DEF Undo, Done, libraryVars, writerVars
<1>3. HandlerInv'
    BY <1>2, HandlerOver, RestingTyped
<1>4. \A x \in Sessions, y \in Projects : <<x, y>> \in files' =>
          <<x, y>> \in files /\ ~InFlight(x, y)
    BY <1>1, <1>2 DEF InFlight, At
<1> QED
    BY <1>1, <1>2, <1>3, <1>4, FileStepInv, Typed, RestingTyped

LEMMA UnlinkInv ==
    ASSUME ConvInv, Unlink PROVE ConvInv'
<1>1. ConvTypeOK /\ FoundInv /\ op.step = "unlink"
    BY DEF ConvInv, HandlerInv, Unlink, At
<1>2. PICK s \in Sessions, q \in Projects : op.s = s /\ op.q = q
    BY <1>1 DEF FoundInv
<1>3. mem[s].project = q
    BY <1>1, <1>2 DEF FoundInv, Where
<1>4. /\ files' = files \ {<<s, q>>} /\ known' = known \ {s}
      /\ UNCHANGED <<text, disk, mem, trusted, guard, saved, deleted, cut, faults>>
    BY <1>2 DEF Unlink, libraryVars
<1>5. op' \in Op /\ op'.s = s /\ op'.q = q /\ op'.step = "forget"
    BY <1>1, <1>2, StepTo DEF Unlink, Steps
<1>6. HandlerInv'
    BY <1>2, <1>3, <1>4, <1>5 DEF HandlerInv, LocateInv, NewFileInv, FoundInv, At, Where
<1>7. \A x \in Sessions, y \in Projects : <<x, y>> \in files' =>
          <<x, y>> \in files /\ ~InFlight(x, y)
    BY <1>1, <1>4 DEF InFlight, At
<1> QED
    BY <1>1, <1>4, <1>5, <1>6, <1>7, FileStepInv, Typed

LEMMA CopyInv ==
    ASSUME ConvInv, Copy PROVE ConvInv'
<1>1. ConvTypeOK /\ FoundInv /\ FilesInv /\ op.step = "copy"
    BY DEF ConvInv, HandlerInv, Copy, At
<1>2. PICK s \in Sessions, q \in Projects, p \in Projects : op.s = s /\ op.q = q /\ op.p = p
    BY <1>1 DEF FoundInv
<1>3. mem[s].project = q /\ <<s, q>> \in files /\ p # q
    BY <1>1, <1>2 DEF FoundInv, Where
<1>4. \A x, y : ~InFlight(x, y)
    BY <1>1 DEF InFlight, At
<1>5. UNCHANGED <<disk, mem, trusted, guard, known, saved, deleted, cut, faults>>
    BY DEF Copy, libraryVars, writerVars
<1>6. CASE <<s, p>> \in files
  <2>1. op' = Resting /\ UNCHANGED <<files, text>>
    BY <1>2, <1>6 DEF Copy, Done, fileVars
  <2> QED
    BY <1>1, <1>4, <1>5, <2>1, EndsHere, Typed
<1>7. CASE <<s, p>> \notin files
  <2>1. files' = files \cup {<<s, p>>} /\ text' = [text EXCEPT ![<<s, p>>] = text[<<s, q>>]]
    BY <1>2, <1>7 DEF Copy
  <2>2. op' \in Op /\ op'.s = s /\ op'.q = q /\ op'.p = p /\ op'.step = "commit"
    BY <1>1, <1>2, <1>7, StepTo DEF Copy, Steps
  <2>3. /\ text' \in [Sessions \X Projects -> Texts]
        /\ text'[<<s, p>>] = text[<<s, q>>] /\ text'[<<s, q>>] = text[<<s, q>>]
    BY <1>1, <1>3, <2>1, Typed
  <2>4. HandlerInv'
    BY <1>2, <1>3, <1>5, <2>1, <2>2, <2>3
    DEF HandlerInv, LocateInv, NewFileInv, FoundInv, At, Where
  <2>5. \A x \in Sessions, y \in Projects : <<x, y>> \in files' =>
            (<<x, y>> \in files /\ ~InFlight(x, y)) \/ InFlight(x, y)'
    BY <1>4, <2>1, <2>2 DEF InFlight, At
  <2>6. \A x \in deleted, y \in Projects : cut = 0 /\ <<x, y>> \in files' => <<x, y>> \in files
    BY <1>1, <1>3, <2>1 DEF FilesInv
  <2> QED
    BY <1>1, <1>5, <2>1, <2>2, <2>3, <2>4, <2>5, <2>6, FileStepInv, Typed
<1> QED
    BY <1>6, <1>7

LEMMA RetractInv ==
    ASSUME ConvInv, Retract PROVE ConvInv'
<1>1. ConvTypeOK /\ op.step = "retract"
    BY DEF ConvInv, Retract, At
<1>2. /\ files' = files \ {<<op.s, op.p>>} /\ op' = Resting
      /\ UNCHANGED <<text, disk, mem, trusted, guard, known, saved, deleted, cut, faults>>
    BY DEF Retract, Done, libraryVars, writerVars
<1>3. HandlerInv'
    BY <1>2, HandlerOver, RestingTyped
<1>4. \A x \in Sessions, y \in Projects : <<x, y>> \in files' =>
          <<x, y>> \in files /\ ~InFlight(x, y)
    BY <1>1, <1>2 DEF InFlight, At
<1> QED
    BY <1>1, <1>2, <1>3, <1>4, FileStepInv, Typed, RestingTyped

LEMMA ClearInv ==
    ASSUME ConvInv, Clear PROVE ConvInv'
<1>1. ConvTypeOK /\ op.step = "clear"
    BY DEF ConvInv, Clear, At
<1>2. /\ files' = files \ {<<op.s, op.q>>} /\ op' = Resting
      /\ UNCHANGED <<text, disk, mem, trusted, guard, known, saved, deleted, cut, faults>>
    BY DEF Clear, Done, libraryVars, writerVars
<1>3. HandlerInv'
    BY <1>2, HandlerOver, RestingTyped
<1>4. \A x \in Sessions, y \in Projects : <<x, y>> \in files' =>
          <<x, y>> \in files /\ ~InFlight(x, y)
    BY <1>1, <1>2 DEF InFlight, At
<1> QED
    BY <1>1, <1>2, <1>3, <1>4, FileStepInv, Typed, RestingTyped

LEMMA WriteInv ==
    ASSUME ConvInv, Write PROVE ConvInv'
<1>1. ConvTypeOK /\ FoundInv /\ op.step = "write"
    BY DEF ConvInv, HandlerInv, Write, At
<1>2. PICK s \in Sessions, q \in Projects : op.s = s /\ op.q = q
    BY <1>1 DEF FoundInv
<1>3. PICK n \in Texts : n = text[<<s, q>>] /\ n < MaxText
    BY <1>1, <1>2, Typed DEF FoundInv, At
<1>4. n + 1 \in Texts
    BY <1>3 DEF Texts
<1>5. /\ text' = [text EXCEPT ![<<s, q>>] = n + 1] /\ saved' = [saved EXCEPT ![s] = text'[<<s, q>>]]
      /\ op' = Resting
      /\ UNCHANGED <<files, disk, mem, trusted, guard, known, deleted, cut, faults>>
    BY <1>2, <1>3 DEF Write, Done, libraryVars
<1>6. text' \in [Sessions \X Projects -> Texts] /\ saved' \in [Sessions -> Texts]
    BY <1>1, <1>4, <1>5, Typed
<1>7. HandlerInv'
    BY <1>5, HandlerOver, RestingTyped
<1>8. \A x, y : ~InFlight(x, y)
    BY <1>1 DEF InFlight, At
<1> QED
    BY <1>1, <1>5, <1>6, <1>7, <1>8, FileStepInv, Typed, RestingTyped

-----------------------------------------------------------------------------
(* Steps that save the library, or fail to, and leave the files alone.     *)
LEMMA LibraryStepInv ==
    ASSUME ConvInv, UNCHANGED <<files, text, cut>>,
           disk' \in Library, mem' \in Library, trusted' \in BOOLEAN, guard' \in Guards,
           faults' \in 0 .. MaxFaults,
           op' \in Op, op'.step # "down", known' \subseteq Sessions,
           saved' \in [Sessions -> Texts], deleted' \subseteq Sessions,
           HandlerInv',
           \A s \in deleted', p \in Projects : cut = 0 => <<s, p>> \notin files,
           \A s \in Sessions, p \in Projects :
               cut = 0 /\ <<s, p>> \in files /\ Accounted(s, p) => Accounted(s, p)'
    PROVE  ConvInv'
<1>1. ConvTypeOK'
    BY DEF ConvInv, ConvTypeOK
<1>2. FilesInv'
    BY DEF ConvInv, FilesInv, At
<1> QED
    BY <1>1, <1>2 DEF ConvInv

(* The record of a new conversation; refused, the file has to go again.    *)
LEMMA EnrollInv ==
    ASSUME ConvInv, Enroll PROVE ConvInv'
<1>1. ConvTypeOK /\ NewFileInv /\ FilesInv /\ op.step = "enroll"
    BY DEF ConvInv, HandlerInv, Enroll, At
<1>2. PICK s \in Sessions, p \in Projects, n \in Texts : op.s = s /\ op.p = p /\ op.n = n
    BY <1>1, Typed DEF NewFileInv
<1>3. /\ mem[s] = NoRecord /\ s \notin deleted /\ <<s, p>> \in files
      /\ \A x \in Projects : <<s, x>> \in files => x = p
    BY <1>1, <1>2 DEF NewFileInv
<1>4. UNCHANGED <<files, text, cut>>
    BY DEF Enroll, fileVars
<1>5. /\ With(s, p, n) \in Library /\ With(s, p, n)[s].project = p
      /\ \A x \in Sessions : x # s => With(s, p, n)[x] = mem[x]
    BY <1>1, WithIs
<1>6. /\ disk' \in Library /\ mem' \in Library
      /\ trusted' \in BOOLEAN /\ guard' \in Guards /\ faults' \in 0 .. MaxFaults
      /\ Saved(With(s, p, n)) => mem' = With(s, p, n)
      /\ SaveRaised(With(s, p, n)) => mem' = mem
    BY <1>1, <1>2, <1>5, SaveTyped DEF Enroll
<1>7. \A x \in deleted, y \in Projects : cut = 0 => <<x, y>> \notin files
    BY <1>1 DEF FilesInv
<1>8. CASE Saved(With(s, p, n)) /\ Shown(s, p) /\ Done
  <2>1. /\ op' = Resting /\ deleted' = deleted /\ known' = known \cup {s}
        /\ saved' = [saved EXCEPT ![s] = text[<<s, p>>]] /\ mem' = With(s, p, n)
    BY <1>6, <1>8 DEF Done, Shown
  <2>2. known' \subseteq Sessions /\ saved' \in [Sessions -> Texts]
    BY <1>1, <2>1, Typed
  <2>3. HandlerInv'
    BY <2>1, HandlerOver, RestingTyped
  <2>4. ASSUME NEW x \in Sessions, NEW y \in Projects, <<x, y>> \in files, Accounted(x, y)
        PROVE  Accounted(x, y)'
    <3>1. CASE x = s
      BY <1>3, <1>5, <2>1, <2>4, <3>1 DEF Accounted, Where
    <3>2. CASE x # s
      <4>1. mem'[x] = mem[x] /\ ~InFlight(x, y)
        BY <1>2, <1>5, <2>1, <3>2 DEF InFlight
      <4> QED
        BY <2>4, <4>1 DEF Accounted, Where, Enrolled
    <3> QED
      BY <3>1, <3>2
  <2> QED
    BY <1>1, <1>4, <1>6, <1>7, <2>1, <2>2, <2>3, <2>4, LibraryStepInv, Typed, RestingTyped
<1>9. CASE SaveRaised(With(s, p, n)) /\ Goto("undo") /\ UNCHANGED writerVars
  <2>1. /\ mem' = mem /\ UNCHANGED <<known, saved, deleted>>
        /\ op' \in Op /\ op'.s = s /\ op'.p = p /\ op'.step = "undo"
    BY <1>1, <1>2, <1>6, <1>9, StepTo DEF Steps, writerVars
  <2>2. HandlerInv'
    BY <1>3, <1>4, <2>1 DEF HandlerInv, LocateInv, NewFileInv, FoundInv, At
  <2>3. \A x, y : Accounted(x, y) => Accounted(x, y)'
    BY <1>1, <1>2, <2>1 DEF Accounted, Where, Enrolled, InFlight, At
  <2> QED
    BY <1>1, <1>4, <1>6, <1>7, <2>1, <2>2, <2>3, LibraryStepInv, Typed
<1> QED
    BY <1>2, <1>8, <1>9 DEF Enroll

(* A deletion: the file went in the step before, or was cut short.         *)
LEMMA ForgetInv ==
    ASSUME ConvInv, Forget PROVE ConvInv'
<1>1. ConvTypeOK /\ FoundInv /\ FilesInv /\ op.step = "forget"
    BY DEF ConvInv, HandlerInv, Forget, At
<1>2. PICK s \in Sessions, q \in Projects : op.s = s /\ op.q = q
    BY <1>1 DEF FoundInv
<1>3. mem[s].project = q /\ <<s, q>> \notin files /\ Where(s) = q
    BY <1>1, <1>2 DEF FoundInv, Where, At
<1>4. UNCHANGED <<files, text, known, saved, cut>> /\ op' = Resting
    BY DEF Forget, fileVars, Done
<1>5. /\ Without(s) \in Library
      /\ \A x \in Sessions : x # s => Without(s)[x] = mem[x]
    BY <1>1, WithoutIs
<1>6. /\ disk' \in Library /\ mem' \in Library
      /\ trusted' \in BOOLEAN /\ guard' \in Guards /\ faults' \in 0 .. MaxFaults
      /\ mem' = mem \/ mem' = Without(s)
      /\ deleted' = deleted \cup {s} \/ deleted' = deleted
    BY <1>1, <1>2, <1>5, SaveTyped DEF Forget
<1>7. HandlerInv'
    BY <1>4, HandlerOver, RestingTyped
<1>8. \A x, y : ~InFlight(x, y)
    BY <1>1 DEF InFlight, At
<1>9. \A y \in Projects : cut = 0 => <<s, y>> \notin files
    BY <1>1, <1>3, <1>8 DEF FilesInv, Accounted, Enrolled
<1>10. \A x \in deleted', y \in Projects : cut = 0 => <<x, y>> \notin files
    BY <1>1, <1>6, <1>9 DEF FilesInv
<1>11. ASSUME cut = 0, NEW x \in Sessions, NEW y \in Projects, <<x, y>> \in files, Accounted(x, y)
       PROVE  Accounted(x, y)'
  <2>1. x # s
    BY <1>9, <1>11
  <2>2. mem'[x] = mem[x]
    BY <1>5, <1>6, <2>1
  <2> QED
    BY <1>8, <1>11, <2>2 DEF Accounted, Where, Enrolled
<1> QED
  <2>1. /\ op' \in Op /\ op'.step # "down" /\ known' \subseteq Sessions
        /\ saved' \in [Sessions -> Texts] /\ deleted' \subseteq Sessions
    BY <1>1, <1>4, <1>6, Typed, RestingTyped
  <2> QED
    BY <1>4, <1>6, <1>7, <1>10, <1>11, <2>1, LibraryStepInv

(* The record of a moved conversation; refused, the copy has to go again.  *)
LEMMA CommitInv ==
    ASSUME ConvInv, Commit PROVE ConvInv'
<1>1. ConvTypeOK /\ FoundInv /\ FilesInv /\ op.step = "commit"
    BY DEF ConvInv, HandlerInv, Commit, At
<1>2. PICK s \in Sessions, q \in Projects, p \in Projects : op.s = s /\ op.q = q /\ op.p = p
    BY <1>1 DEF FoundInv
<1>3. mem[s].project = q /\ <<s, q>> \in files /\ <<s, p>> \in files /\ p # q
    BY <1>1, <1>2 DEF FoundInv, Where, At
<1>4. UNCHANGED <<files, text, known, saved, deleted, cut>>
    BY DEF Commit, fileVars, writerVars
<1>5. /\ Moved(s, p) \in Library /\ Moved(s, p)[s].project = p
      /\ \A x \in Sessions : x # s => Moved(s, p)[x] = mem[x]
    BY <1>1, MovedIs
<1>6. /\ disk' \in Library /\ mem' \in Library
      /\ trusted' \in BOOLEAN /\ guard' \in Guards /\ faults' \in 0 .. MaxFaults
      /\ Saved(Moved(s, p)) => mem' = Moved(s, p)
      /\ SaveRaised(Moved(s, p)) => mem' = mem
    BY <1>1, <1>2, <1>5, SaveTyped DEF Commit
<1>7. /\ \A x \in deleted, y \in Projects : cut = 0 => <<x, y>> \notin files
      /\ known \subseteq Sessions /\ saved \in [Sessions -> Texts] /\ deleted \subseteq Sessions
    BY <1>1, Typed DEF FilesInv
<1>8. CASE Saved(Moved(s, p)) /\ Goto("clear")
  <2>1. /\ op' \in Op /\ op'.s = s /\ op'.p = p /\ op'.q = q /\ op'.step = "clear"
        /\ mem' = Moved(s, p)
    BY <1>1, <1>2, <1>6, <1>8, StepTo DEF Steps
  <2>2. HandlerInv'
    BY <1>2, <1>3, <1>5, <2>1 DEF HandlerInv, LocateInv, NewFileInv, FoundInv, At, Where
  <2>3. ASSUME NEW x \in Sessions, NEW y \in Projects, <<x, y>> \in files, Accounted(x, y)
        PROVE  Accounted(x, y)'
    <3>1. CASE x = s
      <4>1. y = q \/ y = p
        BY <1>1, <1>2, <1>3, <2>3, <3>1 DEF Accounted, Where, Enrolled, InFlight, At
      <4> QED
        BY <1>5, <2>1, <3>1, <4>1 DEF Accounted, Where, InFlight, At
    <3>2. CASE x # s
      <4>1. mem'[x] = mem[x] /\ ~InFlight(x, y)
        BY <1>2, <1>5, <2>1, <3>2 DEF InFlight
      <4> QED
        BY <2>3, <4>1 DEF Accounted, Where, Enrolled
    <3> QED
      BY <3>1, <3>2
  <2> QED
    BY <1>4, <1>6, <1>7, <2>1, <2>2, <2>3, LibraryStepInv
<1>9. CASE SaveRaised(Moved(s, p)) /\ Goto("retract")
  <2>1. /\ op' \in Op /\ op'.s = s /\ op'.p = p /\ op'.q = q /\ op'.step = "retract"
        /\ mem' = mem
    BY <1>1, <1>2, <1>6, <1>9, StepTo DEF Steps
  <2>2. HandlerInv'
    BY <1>2, <1>3, <1>4, <2>1 DEF HandlerInv, LocateInv, NewFileInv, FoundInv, At, Where
  <2>3. \A x, y : Accounted(x, y) => Accounted(x, y)'
    BY <1>1, <1>2, <2>1 DEF Accounted, Where, Enrolled, InFlight, At
  <2> QED
    BY <1>4, <1>6, <1>7, <2>1, <2>2, <2>3, LibraryStepInv
<1> QED
    BY <1>2, <1>8, <1>9 DEF Commit

LEMMA SaveFlagsInv ==
    ASSUME ConvInv, SaveFlags PROVE ConvInv'
<1>1. ConvTypeOK /\ op.step = "save"
    BY DEF ConvInv, SaveFlags, At
<1>2. op' = Resting /\ UNCHANGED <<files, text, known, saved, deleted, cut>>
    BY DEF SaveFlags, Done, fileVars, writerVars
<1>3. /\ disk' \in Library /\ mem' = mem
      /\ trusted' \in BOOLEAN /\ guard' \in Guards /\ faults' \in 0 .. MaxFaults
    BY <1>1, SaveTyped, Typed DEF SaveFlags
<1>4. \A x, y : ~InFlight(x, y)
    BY <1>1 DEF InFlight, At
<1> QED
    BY <1>2, <1>3, <1>4, EndsHere

-----------------------------------------------------------------------------
(* Crashes and failed writes: each is a fault, and what it cut short is    *)
(* not accounted for any more.                                             *)
LEMMA CutInv ==
    ASSUME ConvInv, CutCounted, FileError \/ Crash PROVE ConvInv'
<1>1. ConvTypeOK /\ cut \in Nat /\ faults \in Nat /\ cut <= faults
    BY Typed DEF ConvInv, CutCounted
<1>2. /\ op' \in {Resting, Down} /\ cut' = cut + 1 /\ faults < MaxFaults /\ faults' = faults + 1
      /\ guard' = "closed"
      /\ UNCHANGED <<files, text, disk, mem, trusted, known, saved, deleted>>
    BY DEF FileError, Crash, Fault, Done, fileVars, writerVars
<1>3. cut' \in 0 .. MaxFaults /\ faults' \in 0 .. MaxFaults /\ cut' # 0
    BY <1>1, <1>2
<1>4. op' \in Op /\ op'.step \in {"idle", "down"}
    BY <1>2, RestingTyped
<1>5. ConvTypeOK'
    BY <1>1, <1>2, <1>3, <1>4 DEF ConvTypeOK, Guards
<1>6. HandlerInv'
    BY <1>4, HandlerOver
<1>7. FilesInv'
    BY <1>3 DEF FilesInv
<1> QED
    BY <1>5, <1>6, <1>7 DEF ConvInv

LEMMA RestartInv ==
    ASSUME ConvInv, Restart PROVE ConvInv'
<1>1. ConvTypeOK /\ op.step = "down" /\ cut # 0
    BY DEF ConvInv, FilesInv, Restart, At
<1>2. /\ op' = Resting /\ mem' = disk /\ trusted' = TRUE
      /\ UNCHANGED <<files, text, disk, guard, known, saved, deleted, cut, faults>>
    BY DEF Restart, Done, fileVars, writerVars
<1>3. ConvTypeOK'
    BY <1>1, <1>2, RestingTyped DEF ConvTypeOK
<1>4. HandlerInv'
    BY <1>2, HandlerOver, RestingTyped
<1>5. FilesInv'
    BY <1>1, <1>2 DEF FilesInv
<1> QED
    BY <1>3, <1>4, <1>5 DEF ConvInv

LEMMA EditedIs ==
    ASSUME ConvTypeOK, NEW s \in Sessions, NEW p \in Projects, EditLibrary(s, p)
    PROVE  /\ disk' \in Library /\ disk'[s].origin = 0 /\ mem[s] = NoRecord
           /\ \A x \in Sessions : x # s => disk'[x] = disk[x]
           /\ trusted' = FALSE /\ faults' \in 0 .. MaxFaults /\ guard' \in Guards
           /\ UNCHANGED <<files, text, mem, op, known, saved, deleted, cut>>
<1>1. /\ disk[s] = NoRecord /\ mem[s] = NoRecord /\ disk \in [Sessions -> Record]
      /\ disk' = [disk EXCEPT ![s] = [disk[s] EXCEPT !.project = p]]
      /\ trusted' = FALSE /\ faults < MaxFaults /\ faults' = faults + 1 /\ guard' \in Guards
      /\ UNCHANGED <<files, text, mem, op, known, saved, deleted, cut>>
    BY Typed DEF EditLibrary, Fault, fileVars, writerVars, Library, Guards
<1>2. PICK r : r = [disk[s] EXCEPT !.project = p]
    OBVIOUS
<1>3. r = [project |-> p, origin |-> 0]
    BY <1>1, <1>2 DEF NoRecord
<1>4. r \in Record /\ r.origin = 0
    BY <1>3, RestingTyped DEF Record
<1>5. disk' = [disk EXCEPT ![s] = r]
    BY <1>1, <1>2
<1>6. faults' \in 0 .. MaxFaults
    BY <1>1, Typed
<1> QED
    BY <1>1, <1>4, <1>5, <1>6 DEF Library

LEMMA EditLibraryInv ==
    ASSUME ConvInv, NEW s \in Sessions, NEW p \in Projects, EditLibrary(s, p) PROVE ConvInv'
<1>1. ConvTypeOK
    BY DEF ConvInv
<1>2. /\ disk' \in Library /\ trusted' = FALSE /\ faults' \in 0 .. MaxFaults
      /\ guard' \in Guards
      /\ UNCHANGED <<files, text, mem, op, known, saved, deleted, cut>>
    BY <1>1, EditedIs
<1>3. ConvTypeOK'
    BY <1>1, <1>2 DEF ConvTypeOK
<1>4. HandlerInv'
    BY <1>2 DEF ConvInv, HandlerInv, LocateInv, NewFileInv, FoundInv, At, Where, Unused
<1>5. FilesInv'
    BY <1>2 DEF ConvInv, FilesInv, Accounted, InFlight, Where, Enrolled, At
<1> QED
    BY <1>3, <1>4, <1>5 DEF ConvInv

LEMMA PassGuardInv ==
    ASSUME ConvInv, PassGuard PROVE ConvInv'
<1>1. /\ UNCHANGED <<files, text, disk, mem, trusted, op, known, saved, deleted, cut, faults>>
      /\ guard' \in Guards
    BY DEF PassGuard, fileVars, writerVars, Guards
<1> QED
    BY <1>1 DEF ConvInv, ConvTypeOK, HandlerInv, LocateInv, NewFileInv, FoundInv, FilesInv,
                Accounted, InFlight, Where, Enrolled, At, Unused

LEMMA StutterInv ==
    ASSUME ConvInv, UNCHANGED convVars PROVE ConvInv'
<1>1. UNCHANGED <<files, text, disk, mem, trusted, guard, op, known, saved, deleted, cut, faults>>
    BY DEF convVars, fileVars, libraryVars, writerVars
<1> QED
    BY <1>1 DEF ConvInv, ConvTypeOK, HandlerInv, LocateInv, NewFileInv, FoundInv, FilesInv,
                Accounted, InFlight, Where, Enrolled, At, Unused

(* A handler that is cut short has spent a fault.                          *)
LEMMA CutCountedNext ==
    ASSUME ConvTypeOK, CutCounted, [ConvNext]_convVars
    PROVE  CutCounted'
<1>1. cut \in Nat /\ faults \in Nat /\ cut <= faults
    BY Typed DEF CutCounted
<1>2. CASE FileError \/ Crash
  <2>1. cut' = cut + 1 /\ faults' = faults + 1
    BY <1>2 DEF FileError, Crash, Fault
  <2> QED
    BY <1>1, <2>1 DEF CutCounted
<1>3. CASE cut' = cut /\ faults' \in {faults, faults + 1}
    BY <1>1, <1>3 DEF CutCounted
<1>4. CASE Arrive \/ PassGuard
  <2>1. PassGuard \/ \E k, t, s, p, f : Request(k, t, s, p, f)
    BY <1>4 DEF Arrive, Create, Fork, Move, Visit, AppendMessage
  <2> QED
    BY <1>3, <2>1 DEF Request, PassGuard
<1>5. ASSUME NEW library, Saved(library) \/ SaveRaised(library)
      PROVE  faults' \in {faults, faults + 1}
    BY <1>5 DEF Saved, SaveRaised, Fault
<1>6. CASE Locate \/ List \/ Enroll \/ Forget \/ Commit \/ SaveFlags
    BY <1>3, <1>5, <1>6 DEF Locate, List, Enroll, Forget, Commit, SaveFlags
<1>7. CASE WriteFile \/ FillFork \/ Undo \/ Unlink \/ Copy \/ Retract \/ Clear \/ Write \/ Restart
    BY <1>3, <1>7 DEF WriteFile, FillFork, Undo, Unlink, Copy, Retract, Clear, Write, Restart
<1>8. CASE \E s \in Sessions, p \in Projects : EditLibrary(s, p)
    BY <1>3, <1>8 DEF EditLibrary, Fault
<1>9. CASE UNCHANGED convVars
    BY <1>3, <1>9 DEF convVars
<1> QED
    BY <1>2, <1>4, <1>6, <1>7, <1>8, <1>9 DEF ConvNext, Continue

LEMMA ConvNextInv ==
    ASSUME ConvInv, CutCounted, [ConvNext]_convVars
    PROVE  ConvInv' /\ CutCounted'
<1>1. ConvTypeOK
    BY DEF ConvInv
<1>2. ConvInv'
    BY ArriveInv, LocateStepInv, ListInv, WriteFileInv, FillForkInv, EnrollInv, UndoInv,
       UnlinkInv, ForgetInv, CopyInv, CommitInv, RetractInv, ClearInv, WriteInv, SaveFlagsInv,
       PassGuardInv, CutInv, RestartInv, EditLibraryInv, StutterInv
    DEF ConvNext, Continue
<1> QED
    BY <1>1, <1>2, CutCountedNext

(* The inductive invariant: what every handler may rely on between its     *)
(* steps, and which files there are as long as none was cut short.         *)
THEOREM ConvInvariant == ConvSpec => [](ConvInv /\ CutCounted)
<1>1. ConvInit => ConvInv /\ CutCounted
    BY ConvInitInv DEF ConvInit, CutCounted
<1>2. (ConvInv /\ CutCounted) /\ [ConvNext]_convVars => (ConvInv /\ CutCounted)'
    BY ConvNextInv
<1> QED
    BY <1>1, <1>2, PTL DEF ConvSpec

(* create_session, fork_session, delete_session and update_conversation    *)
(* undo exactly their own work: unless one is cut short, no file is left   *)
(* without its record and nothing deleted comes back.                      *)
THEOREM NothingLeftBehindAlways == ConvSpec => []NothingLeftBehind
<1>1. ConvInv => NothingLeftBehind
  <2> SUFFICES ASSUME ConvInv, cut = 0 PROVE NothingLeftBehind
    BY DEF NothingLeftBehind
  <2>1. ConvTypeOK /\ FilesInv
    BY DEF ConvInv
  <2>2. \A s \in deleted : ~Present(s)
    BY <2>1, Typed DEF FilesInv, Present, Enrolled
  <2>3. ASSUME At("idle"), NEW s \in Sessions \ Legacy, NEW p \in Projects, <<s, p>> \in files
        PROVE  Where(s) = p
    BY <2>1, <2>3 DEF FilesInv, Accounted, InFlight, At
  <2> QED
    BY <2>2, <2>3 DEF NothingLeftBehind
<1> QED
    BY <1>1, ConvInvariant, PTL

(* A save that has looked at library.json, and found it as this process    *)
(* wrote it, learns of no later edit; one before the look ends the save.   *)
GuardInv == guard = "passed" => trusted

LEMMA GuardNext == GuardInv /\ [ConvNext]_convVars => GuardInv'
<1> SUFFICES ASSUME GuardInv, [ConvNext]_convVars PROVE GuardInv'
    OBVIOUS
<1>1. CASE UNCHANGED <<guard, trusted>> \/ guard' = "closed" \/ guard' = "raced"
    BY <1>1 DEF GuardInv
<1>2. \A library : Saved(library) \/ SaveRaised(library) =>
          UNCHANGED <<guard, trusted>> \/ guard' = "closed"
    BY DEF Saved, SaveRaised, libraryVars
<1>3. CASE Arrive
    BY <1>1, <1>3 DEF Arrive, Create, Fork, Move, Visit, AppendMessage, Request, libraryVars
<1>4. CASE Locate \/ List \/ Enroll \/ Forget \/ Commit \/ SaveFlags
    BY <1>1, <1>2, <1>4 DEF Locate, List, Enroll, Forget, Commit, SaveFlags, libraryVars
<1>5. CASE WriteFile \/ FillFork \/ Undo \/ Unlink \/ Copy \/ Retract \/ Clear \/ Write
    BY <1>1, <1>5 DEF WriteFile, FillFork, Undo, Unlink, Copy, Retract, Clear, Write, libraryVars
<1>6. CASE PassGuard
    BY <1>6 DEF PassGuard, GuardInv
<1>7. CASE FileError \/ Crash \/ Restart
    BY <1>1, <1>7 DEF FileError, Crash, Restart, GuardInv
<1>8. CASE \E s \in Sessions, p \in Projects : EditLibrary(s, p)
    BY <1>1, <1>8 DEF EditLibrary
<1>9. CASE UNCHANGED convVars
    BY <1>1, <1>9 DEF convVars, libraryVars
<1> QED
    BY <1>3, <1>4, <1>5, <1>6, <1>7, <1>8, <1>9 DEF ConvNext, Continue

(* LibraryStore._save refuses a library.json that it finds changed when it *)
(* looks: such an edit by hand stays on disk until the process starts      *)
(* again.  One made between the look and the replacement is excepted.      *)
THEOREM HandEditSurvivesAlways == ConvSpec => HandEditSurvives
<1>1. ASSUME GuardInv, [ConvNext]_convVars, disk' # disk, ~trusted, guard # "raced",
             ConvTypeOK
      PROVE  \E s \in Sessions, p \in Projects : EditLibrary(s, p)
  <2>1. guard = "closed"
    BY <1>1, Typed DEF GuardInv, Guards
  <2>2. \A library : (Saved(library) \/ SaveRaised(library)) => disk' = disk
    BY <1>1, <2>1 DEF Saved, SaveRaised, libraryVars
  <2>3. ~UNCHANGED convVars
    BY <1>1 DEF convVars, libraryVars
  <2>4. ~Arrive
    BY <1>1 DEF Arrive, Create, Fork, Move, Visit, AppendMessage, Request, libraryVars
  <2>5. ~(Locate \/ List \/ Enroll \/ Forget \/ Commit \/ SaveFlags)
    BY <1>1, <2>2 DEF Locate, List, Enroll, Forget, Commit, SaveFlags, libraryVars
  <2>6. ~(WriteFile \/ FillFork \/ Undo \/ Unlink \/ Copy \/ Retract \/ Clear \/ Write)
    BY <1>1 DEF WriteFile, FillFork, Undo, Unlink, Copy, Retract, Clear, Write, libraryVars
  <2>7. ~(PassGuard \/ FileError \/ Crash \/ Restart)
    BY <1>1 DEF PassGuard, FileError, Crash, Restart
  <2> QED
    BY <1>1, <2>3, <2>4, <2>5, <2>6, <2>7 DEF ConvNext, Continue
<1>2. GuardInv /\ ConvTypeOK /\ [ConvNext]_convVars =>
          [disk' # disk /\ ~trusted /\ guard # "raced" =>
              \E s \in Sessions, p \in Projects : EditLibrary(s, p)]_convVars
    BY <1>1
<1>3. ConvInit => GuardInv
    BY DEF ConvInit, GuardInv
<1>4. ConvInv => ConvTypeOK
    BY DEF ConvInv
<1> QED
    BY <1>2, <1>3, <1>4, GuardNext, ConvInvariant, PTL DEF ConvSpec, HandEditSurvives

-----------------------------------------------------------------------------
(* What a writer relies on, when a save either happens or does not.        *)
LEMMA KeptFrame ==
    ASSUME ConvTypeOK, NEW s \in Sessions, Kept(s), mem'[s] = mem[s],
           s \in known' => s \in known /\ saved'[s] = saved[s],
           \A p \in Projects : Where(s) = p =>
               /\ <<s, p>> \in files' <=> <<s, p>> \in files
               /\ text'[<<s, p>>] = text[<<s, p>>]
    PROVE  Kept(s)'
<1>1. Where(s)' = Where(s)
    BY DEF Where
<1>2. CASE Where(s) \in Projects
  <2>1. PICK p \in Projects : p = Where(s)
    BY <1>2
  <2> QED
    BY <1>1, <2>1 DEF Kept, Present, Enrolled
<1>3. CASE Where(s) = Null
    BY <1>1, <1>3 DEF Kept, Present, Enrolled
<1> QED
    BY <1>2, <1>3, Typed

LEMMA NotKnown ==
    ASSUME ConvTypeOK, NEW s \in Sessions, Kept(s),
           Where(s) \notin Projects \/ <<s, Where(s)>> \notin files
    PROVE  s \notin known /\ ~Present(s)
    BY Typed DEF Kept, Present, Enrolled

LEMMA SaveKept ==
    ASSUME ~LateFailures, DiskInv, NEW library, Saved(library) \/ SaveRaised(library)
    PROVE  /\ DiskInv'
           /\ Saved(library) => mem' = library
           /\ SaveRaised(library) => UNCHANGED mem
<1>1. CASE Saved(library)
  <2>1. disk' = mem' /\ mem' = library
    BY <1>1 DEF Saved
  <2> QED
    BY <1>1, <2>1 DEF DiskInv, Saved, SaveRaised, libraryVars
<1>2. CASE SaveRaised(library)
  <2>1. UNCHANGED <<disk, mem, trusted>>
    BY <1>2 DEF SaveRaised, libraryVars
  <2> QED
    BY <1>2, <2>1 DEF DiskInv, Saved
<1> QED
    BY <1>1, <1>2

(* Steps that leave the library alone.                                     *)
LEMMA LibraryAlone ==
    ASSUME DiskInv, UNCHANGED libraryVars \/ UNCHANGED <<disk, mem, trusted>>
    PROVE  DiskInv' /\ mem' = mem
<1>1. UNCHANGED <<disk, mem, trusted>>
    BY DEF libraryVars
<1> QED
    BY <1>1 DEF DiskInv

(* Steps that change no library, no file and nothing a writer relies on.   *)
LEMMA NothingChanged ==
    ASSUME ConvTypeOK, \A s \in Sessions : Kept(s),
           UNCHANGED <<files, text, mem, known, saved>>
    PROVE  \A s \in Sessions : Kept(s)'
    BY KeptFrame

LEMMA LocatedKept ==
    ASSUME ConvTypeOK, \A x \in Sessions : Kept(x), NEW s \in Sessions, NEW q \in Projects,
           Located(s, q), UNCHANGED <<files, text>>, mem' \in Library,
           mem'[s].project = q, mem'[s].origin <= text[<<s, q>>], <<s, q>> \in files,
           \A x \in Sessions : x # s => mem'[x] = mem[x]
    PROVE  \A x \in Sessions : Kept(x)'
<1>1. known' = known \cup {s} /\ saved' = [saved EXCEPT ![s] = text[<<s, q>>]]
    BY DEF Located, Shown
<1>2. PICK n \in Texts : n = text[<<s, q>>]
    BY Typed
<1>3. saved'[s] = n /\ \A x \in Sessions : x # s => saved'[x] = saved[x]
    BY <1>1, <1>2, Typed
<1>4. n <= n
    BY <1>2 DEF Texts
<1>5. Kept(s)'
  <2>1. Where(s)' = q /\ q # Null
    BY DEF Where
  <2> QED
    BY <1>2, <1>3, <1>4, <2>1 DEF Kept, Present, Enrolled
<1>6. ASSUME NEW x \in Sessions, x # s PROVE Kept(x)'
    BY <1>1, <1>3, <1>6, KeptFrame
<1> QED
    BY <1>5, <1>6

LEMMA LocateKept ==
    ASSUME ~LateFailures, ConvInv, KeptInv, Locate PROVE KeptInv'
<1>1. /\ ConvTypeOK /\ DiskInv /\ UNCHANGED <<files, text>>
      /\ \A x \in Sessions : Kept(x)
    BY DEF ConvInv, KeptInv, Locate, fileVars
<1>2. PICK s \in Sessions : s = Subject
    BY DEF ConvInv, HandlerInv, LocateInv, Subject, Locate
<1>3. /\ With(s, Home, 0) \in Library
      /\ With(s, Home, 0)[s].project = Home /\ With(s, Home, 0)[s].origin = 0
      /\ \A x \in Sessions : x # s => With(s, Home, 0)[x] = mem[x]
    BY <1>1, WithIs, RestingTyped
<1>4. CASE Present(s) /\ Located(s, Where(s)) /\ UNCHANGED <<libraryVars, faults>>
  <2>1. PICK q \in Projects : q = Where(s)
    BY <1>1, <1>4, Typed DEF Present, Enrolled
  <2>2. /\ <<s, q>> \in files /\ Located(s, q) /\ mem[s].project = q
        /\ mem[s].origin <= text[<<s, q>>]
    BY <1>1, <1>4, <2>1 DEF Present, Kept, Where
  <2>3. DiskInv' /\ mem' = mem
    BY <1>1, <1>4, LibraryAlone
  <2>4. \A x \in Sessions : Kept(x)'
    BY <1>1, <2>2, <2>3, LocatedKept, Typed
  <2> QED
    BY <2>3, <2>4 DEF KeptInv
<1>5. CASE s \in Strays /\ Saved(With(s, Home, 0)) /\ Located(s, Home)
  <2>1. DiskInv' /\ mem' = With(s, Home, 0)
    BY <1>1, <1>5, SaveKept
  <2>2. <<s, Home>> \in files /\ 0 <= text[<<s, Home>>]
    BY <1>1, <1>5, Typed DEF Strays, Texts
  <2>3. \A x \in Sessions : Kept(x)'
    BY <1>1, <1>3, <1>5, <2>1, <2>2, LocatedKept
  <2> QED
    BY <2>1, <2>3 DEF KeptInv
<1>6. CASE \/ s \in Strays /\ SaveRaised(With(s, Home, 0)) /\ Done /\ UNCHANGED writerVars
           \/ Done /\ UNCHANGED <<libraryVars, faults, writerVars>>
  <2>1. DiskInv' /\ mem' = mem
    BY <1>1, <1>6, SaveKept, LibraryAlone
  <2>2. known' = known /\ saved' = saved
    BY <1>6 DEF writerVars
  <2>3. \A x \in Sessions : Kept(x)'
    BY <1>1, <2>1, <2>2, NothingChanged
  <2> QED
    BY <2>1, <2>3 DEF KeptInv
<1> QED
    BY <1>2, <1>4, <1>5, <1>6 DEF Locate

LEMMA ListKept ==
    ASSUME ~LateFailures, ConvInv, KeptInv, List PROVE KeptInv'
<1>1. /\ ConvTypeOK /\ DiskInv /\ UNCHANGED <<files, text, known, saved>>
      /\ \A x \in Sessions : Kept(x)
    BY DEF ConvInv, KeptInv, List, fileVars, writerVars
<1>2. /\ WithStrays \in Library
      /\ \A s \in Strays : WithStrays[s].project = Home /\ WithStrays[s].origin = 0
      /\ \A s \in Sessions \ Strays : WithStrays[s] = mem[s]
    BY <1>1, WithStraysIs
<1>3. DiskInv' /\ mem' \in {mem, WithStrays}
    BY <1>1, SaveKept DEF List
<1>4. ASSUME NEW s \in Sessions PROVE Kept(s)'
  <2>1. CASE mem'[s] = mem[s]
    BY <1>1, <2>1, KeptFrame
  <2>2. CASE s \in Strays /\ mem' = WithStrays
    <3>1. s \notin known
      BY <1>1, <2>2, NotKnown DEF Strays, Enrolled
    <3>2. Where(s)' = Home /\ mem'[s].origin = 0
      BY <1>2, <2>2 DEF Where
    <3>3. 0 <= text[<<s, Home>>]
      BY <1>1, Typed DEF Texts
    <3> QED
      BY <1>1, <3>1, <3>2, <3>3 DEF Kept, Present, Enrolled
  <2> QED
    BY <1>2, <1>3, <2>1, <2>2
<1> QED
    BY <1>3, <1>4 DEF KeptInv

(* A conversation that is being made: nobody relies on it before its       *)
(* record is saved.                                                        *)
LEMMA NewFileKept ==
    ASSUME ConvInv, KeptInv, WriteFile \/ FillFork \/ Undo PROVE KeptInv'
<1>1. /\ ConvTypeOK /\ NewFileInv /\ op.step \in {"file", "fill", "undo"} /\ DiskInv
      /\ \A x \in Sessions : Kept(x)
    BY DEF ConvInv, HandlerInv, KeptInv, WriteFile, FillFork, Undo, At
<1>2. PICK s \in Sessions, p \in Projects : op.s = s /\ op.p = p
    BY <1>1 DEF NewFileInv, At
<1>3. Where(s) = Null
    BY <1>1, <1>2, RestingTyped DEF NewFileInv, Unused, Where, At
<1>4. /\ files' \in {files, files \cup {<<s, p>>}, files \ {<<s, p>>}}
      /\ \E n : text' = [text EXCEPT ![<<s, p>>] = n] \/ text' = text
      /\ UNCHANGED libraryVars /\ UNCHANGED <<known, saved>>
    BY <1>2 DEF WriteFile, FillFork, Undo, writerVars
<1>5. DiskInv' /\ mem' = mem
    BY <1>1, <1>4, LibraryAlone
<1>6. \A x \in Sessions, y \in Projects : x # s =>
          /\ <<x, y>> \in files' <=> <<x, y>> \in files
          /\ text'[<<x, y>>] = text[<<x, y>>]
    BY <1>1, <1>4, Typed
<1>7. \A x \in Sessions : Kept(x)'
    BY <1>1, <1>3, <1>4, <1>5, <1>6, KeptFrame
<1> QED
    BY <1>5, <1>7 DEF KeptInv

LEMMA EnrollKept ==
    ASSUME ~LateFailures, ConvInv, KeptInv, Enroll PROVE KeptInv'
<1>1. /\ ConvTypeOK /\ NewFileInv /\ op.step = "enroll" /\ DiskInv
      /\ \A x \in Sessions : Kept(x)
      /\ UNCHANGED <<files, text>>
    BY DEF ConvInv, HandlerInv, KeptInv, Enroll, fileVars, At
<1>2. PICK s \in Sessions, p \in Projects, n \in Texts : op.s = s /\ op.p = p /\ op.n = n
    BY <1>1, Typed DEF NewFileInv
<1>3. <<s, p>> \in files /\ text[<<s, p>>] = n /\ n <= n
    BY <1>1, <1>2 DEF NewFileInv, At, Texts
<1>4. /\ With(s, p, n)[s].project = p /\ With(s, p, n)[s].origin = n
      /\ \A x \in Sessions : x # s => With(s, p, n)[x] = mem[x]
    BY <1>1, WithIs
<1>5. CASE Saved(With(s, p, n)) /\ Shown(s, p)
  <2>1. DiskInv' /\ mem' = With(s, p, n)
    BY <1>1, <1>5, SaveKept
  <2>2. known' = known \cup {s} /\ saved' = [saved EXCEPT ![s] = n]
    BY <1>3, <1>5 DEF Shown
  <2>3. saved'[s] = n /\ \A x \in Sessions : x # s => saved'[x] = saved[x]
    BY <1>1, <2>2, Typed
  <2>4. Where(s)' = p
    BY <1>4, <2>1 DEF Where
  <2>5. Kept(s)'
    BY <1>1, <1>3, <1>4, <2>1, <2>3, <2>4 DEF Kept, Present, Enrolled
  <2>6. ASSUME NEW x \in Sessions, x # s PROVE Kept(x)'
    BY <1>1, <1>4, <2>1, <2>2, <2>3, <2>6, KeptFrame
  <2> QED
    BY <2>1, <2>5, <2>6 DEF KeptInv
<1>6. CASE SaveRaised(With(s, p, n)) /\ UNCHANGED writerVars
  <2>1. DiskInv' /\ mem' = mem
    BY <1>1, <1>6, SaveKept
  <2>2. \A x \in Sessions : Kept(x)'
    BY <1>1, <1>6, <2>1, NothingChanged DEF writerVars
  <2> QED
    BY <2>1, <2>2 DEF KeptInv
<1> QED
    BY <1>2, <1>5, <1>6 DEF Enroll

(* delete_session: the writer lets go of the conversation with its file.   *)
LEMMA DeleteKept ==
    ASSUME ~LateFailures, ConvInv, KeptInv, Unlink \/ Forget PROVE KeptInv'
<1>1. /\ ConvTypeOK /\ FoundInv /\ op.step \in {"unlink", "forget"} /\ DiskInv
      /\ \A x \in Sessions : Kept(x)
    BY DEF ConvInv, HandlerInv, KeptInv, Unlink, Forget, At
<1>2. PICK s \in Sessions, q \in Projects : op.s = s /\ op.q = q
    BY <1>1 DEF FoundInv
<1>3. Where(s) = q
    BY <1>1, <1>2 DEF FoundInv
<1>4. CASE Unlink
  <2>1. /\ files' = files \ {<<s, q>>} /\ known' = known \ {s} /\ UNCHANGED <<text, saved>>
        /\ UNCHANGED libraryVars
    BY <1>2, <1>4 DEF Unlink
  <2>2. DiskInv' /\ mem' = mem
    BY <1>1, <2>1, LibraryAlone
  <2>3. Kept(s)'
    BY <1>3, <2>1, <2>2 DEF Kept, Present, Where
  <2>4. ASSUME NEW x \in Sessions, x # s PROVE Kept(x)'
    BY <1>1, <2>1, <2>2, <2>4, KeptFrame
  <2> QED
    BY <2>2, <2>3, <2>4 DEF KeptInv
<1>5. CASE Forget
  <2>1. /\ UNCHANGED <<files, text, known, saved>> /\ <<s, q>> \notin files
        /\ Saved(Without(s)) \/ SaveRaised(Without(s))
    BY <1>1, <1>2, <1>5 DEF Forget, fileVars, FoundInv
  <2>2. /\ Without(s)[s] = NoRecord
        /\ \A x \in Sessions : x # s => Without(s)[x] = mem[x]
    BY <1>1, WithoutIs
  <2>3. DiskInv' /\ mem' \in {mem, Without(s)}
    BY <1>1, <2>1, SaveKept
  <2>4. s \notin known
    BY <1>1, <1>3, <2>1, NotKnown
  <2>5. Kept(s)'
    <3>1. CASE mem' = mem
      BY <1>1, <2>1, <3>1, NothingChanged
    <3>2. CASE mem' = Without(s)
      BY <2>1, <2>2, <2>4, <3>2, RestingTyped DEF Kept, Present, Enrolled, Where
    <3> QED
      BY <2>3, <3>1, <3>2
  <2>6. ASSUME NEW x \in Sessions, x # s PROVE Kept(x)'
    BY <1>1, <2>1, <2>2, <2>3, <2>6, KeptFrame
  <2> QED
    BY <2>3, <2>5, <2>6 DEF KeptInv
<1> QED
    BY <1>4, <1>5

(* move_to: the record names one of two equal files, and the other goes.   *)
LEMMA MoveFileKept ==
    ASSUME ConvInv, KeptInv, Copy \/ Retract \/ Clear PROVE KeptInv'
<1>1. /\ ConvTypeOK /\ FoundInv /\ op.step \in {"copy", "retract", "clear"} /\ DiskInv
      /\ \A x \in Sessions : Kept(x)
    BY DEF ConvInv, HandlerInv, KeptInv, Copy, Retract, Clear, At
<1>2. PICK s \in Sessions, q \in Projects, p \in Projects : op.s = s /\ op.q = q /\ op.p = p
    BY <1>1 DEF FoundInv
<1>3. /\ p # q
      /\ op.step \in {"copy", "retract"} => Where(s) = q
      /\ op.step = "clear" => Where(s) = p
    BY <1>1, <1>2 DEF FoundInv, At
<1>4. UNCHANGED libraryVars /\ UNCHANGED <<known, saved>>
    BY DEF Copy, Retract, Clear, writerVars
<1>5. DiskInv' /\ mem' = mem
    BY <1>1, <1>4, LibraryAlone
<1>6. CASE Copy \/ Retract
  <2>1. op.step # "clear"
    BY <1>6 DEF Copy, Retract, At
  <2>2. /\ files' \in {files, files \cup {<<s, p>>}, files \ {<<s, p>>}}
        /\ text' = [text EXCEPT ![<<s, p>>] = text[<<s, q>>]] \/ text' = text
    BY <1>2, <1>6 DEF Copy, Retract, fileVars
  <2>3. \A x \in Sessions, y \in Projects : <<x, y>> # <<s, p>> =>
            /\ <<x, y>> \in files' <=> <<x, y>> \in files
            /\ text'[<<x, y>>] = text[<<x, y>>]
    BY <1>1, <2>2, Typed
  <2>4. \A x \in Sessions : Kept(x)'
    BY <1>1, <1>3, <1>4, <1>5, <2>1, <2>3, KeptFrame
  <2> QED
    BY <1>5, <2>4 DEF KeptInv
<1>7. CASE Clear
  <2>1. files' = files \ {<<s, q>>} /\ text' = text /\ Where(s) = p
    BY <1>2, <1>3, <1>7 DEF Clear, At
  <2>2. \A x \in Sessions, y \in Projects : <<x, y>> # <<s, q>> =>
            /\ <<x, y>> \in files' <=> <<x, y>> \in files
            /\ text'[<<x, y>>] = text[<<x, y>>]
    BY <2>1
  <2>3. \A x \in Sessions : Kept(x)'
    BY <1>1, <1>3, <1>4, <1>5, <2>1, <2>2, KeptFrame
  <2> QED
    BY <1>5, <2>3 DEF KeptInv
<1> QED
    BY <1>6, <1>7

LEMMA CommitKept ==
    ASSUME ~LateFailures, ConvInv, KeptInv, Commit PROVE KeptInv'
<1>1. /\ ConvTypeOK /\ FoundInv /\ op.step = "commit" /\ DiskInv
      /\ \A x \in Sessions : Kept(x)
      /\ UNCHANGED <<files, text, known, saved>>
    BY DEF ConvInv, HandlerInv, KeptInv, Commit, fileVars, writerVars, At
<1>2. PICK s \in Sessions, q \in Projects, p \in Projects : op.s = s /\ op.q = q /\ op.p = p
    BY <1>1 DEF FoundInv
<1>3. /\ Where(s) = q /\ <<s, q>> \in files /\ <<s, p>> \in files
      /\ text[<<s, p>>] = text[<<s, q>>]
    BY <1>1, <1>2 DEF FoundInv, At
<1>4. /\ Moved(s, p)[s].project = p /\ Moved(s, p)[s].origin = mem[s].origin
      /\ \A x \in Sessions : x # s => Moved(s, p)[x] = mem[x]
    BY <1>1, MovedIs
<1>5. CASE Saved(Moved(s, p))
  <2>1. DiskInv' /\ mem' = Moved(s, p)
    BY <1>1, <1>5, SaveKept
  <2>2. Where(s)' = p
    BY <1>4, <2>1 DEF Where
  <2>3. Kept(s) /\ Enrolled(s)
    BY <1>1, <1>3 DEF Enrolled
  <2>4. Kept(s)'
    BY <1>1, <1>3, <1>4, <2>1, <2>2, <2>3 DEF Kept, Present, Enrolled
  <2>5. ASSUME NEW x \in Sessions, x # s PROVE Kept(x)'
    BY <1>1, <1>4, <2>1, <2>5, KeptFrame
  <2> QED
    BY <2>1, <2>4, <2>5 DEF KeptInv
<1>6. CASE SaveRaised(Moved(s, p))
  <2>1. DiskInv' /\ mem' = mem
    BY <1>1, <1>6, SaveKept
  <2>2. \A x \in Sessions : Kept(x)'
    BY <1>1, <2>1, NothingChanged
  <2> QED
    BY <2>1, <2>2 DEF KeptInv
<1> QED
    BY <1>2, <1>5, <1>6 DEF Commit

LEMMA WriteKept ==
    ASSUME ConvInv, KeptInv, Write PROVE KeptInv'
<1>1. /\ ConvTypeOK /\ FoundInv /\ op.step = "write" /\ DiskInv
      /\ \A x \in Sessions : Kept(x)
      /\ UNCHANGED <<files, known>> /\ UNCHANGED libraryVars
    BY DEF ConvInv, HandlerInv, KeptInv, Write, At
<1>2. PICK s \in Sessions, q \in Projects : op.s = s /\ op.q = q
    BY <1>1 DEF FoundInv
<1>3. Where(s) = q /\ <<s, q>> \in files
    BY <1>1, <1>2 DEF FoundInv
<1>4. PICK n \in Texts : n = text[<<s, q>>] /\ n < MaxText
    BY <1>1, <1>2, Typed DEF FoundInv, At
<1>5. DiskInv' /\ mem' = mem
    BY <1>1, LibraryAlone
<1>6. /\ text' = [text EXCEPT ![<<s, q>>] = n + 1]
      /\ saved' = [saved EXCEPT ![s] = text'[<<s, q>>]]
    BY <1>2, <1>4 DEF Write
<1>7. text'[<<s, q>>] = n + 1 /\ saved'[s] = n + 1
    BY <1>1, <1>6, Typed
<1>8. Kept(s)'
  <2>1. Where(s)' = q
    BY <1>3, <1>5 DEF Where
  <2>2. mem[s].origin \in Nat /\ n \in Nat
    BY <1>1, <1>4, Typed DEF Texts
  <2>3. mem[s].origin <= n
    BY <1>1, <1>3, <1>4 DEF Kept, Present, Enrolled
  <2> QED
    BY <1>1, <1>3, <1>5, <1>7, <2>1, <2>2, <2>3 DEF Kept, Present, Enrolled
<1>9. ASSUME NEW x \in Sessions, x # s PROVE Kept(x)'
  <2>1. saved'[x] = saved[x] /\ \A y \in Projects : text'[<<x, y>>] = text[<<x, y>>]
    BY <1>1, <1>6, <1>9, Typed
  <2> QED
    BY <1>1, <1>5, <2>1, KeptFrame
<1> QED
    BY <1>5, <1>8, <1>9 DEF KeptInv

LEMMA RestartKept ==
    ASSUME ConvInv, KeptInv, Restart PROVE KeptInv'
<1>1. /\ ConvTypeOK /\ DiskInv /\ mem' = disk /\ UNCHANGED <<files, text, known, saved, disk>>
      /\ \A x \in Sessions : Kept(x)
    BY DEF ConvInv, KeptInv, Restart, fileVars, writerVars
<1>2. DiskInv'
    BY <1>1 DEF DiskInv
<1>3. ASSUME NEW s \in Sessions PROVE Kept(s)'
  <2>1. CASE mem'[s] = mem[s]
    BY <1>1, <2>1, KeptFrame
  <2>2. CASE mem[s] = NoRecord /\ disk[s].origin = 0
    <3>1. s \notin known
      BY <1>1, <2>2, NotKnown, RestingTyped DEF Where
    <3>2. \A p \in Projects : 0 <= text[<<s, p>>]
      BY <1>1, Typed DEF Texts
    <3>3. Where(s)' = disk[s].project /\ disk[s].project \in Projects \cup {Null}
      BY <1>1, Typed DEF Where, Record
    <3> QED
      BY <1>1, <2>2, <3>1, <3>2, <3>3 DEF Kept, Present, Enrolled
  <2> QED
    BY <1>1, <2>1, <2>2 DEF DiskInv
<1> QED
    BY <1>2, <1>3 DEF KeptInv

LEMMA EditLibraryKept ==
    ASSUME ConvInv, KeptInv, NEW s \in Sessions, NEW p \in Projects, EditLibrary(s, p)
    PROVE  KeptInv'
<1>1. ConvTypeOK /\ DiskInv /\ \A x \in Sessions : Kept(x)
    BY DEF ConvInv, KeptInv
<1>2. /\ disk'[s].origin = 0 /\ mem[s] = NoRecord
      /\ \A x \in Sessions : x # s => disk'[x] = disk[x]
      /\ trusted' = FALSE /\ UNCHANGED <<files, text, mem, known, saved>>
    BY <1>1, EditedIs
<1>3. DiskInv'
    BY <1>1, <1>2 DEF DiskInv
<1>4. \A x \in Sessions : Kept(x)'
    BY <1>1, <1>2, NothingChanged
<1> QED
    BY <1>3, <1>4 DEF KeptInv

LEMMA OthersKept ==
    ASSUME ~LateFailures, ConvInv, KeptInv,
           Arrive \/ SaveFlags \/ PassGuard \/ FileError \/ Crash \/ UNCHANGED convVars
    PROVE  KeptInv'
<1>1. ConvTypeOK /\ DiskInv /\ \A x \in Sessions : Kept(x)
    BY DEF ConvInv, KeptInv
<1>2. /\ UNCHANGED <<files, text, known, saved>>
      /\ UNCHANGED <<disk, mem, trusted>> \/ Saved(mem) \/ SaveRaised(mem)
  <2>1. CASE Arrive
    <3>1. \E k, t, s, p, f : Request(k, t, s, p, f)
      BY <2>1 DEF Arrive, Create, Fork, Move, Visit, AppendMessage
    <3> QED
      BY <3>1 DEF Request, libraryVars, fileVars, writerVars
  <2> QED
    BY <2>1 DEF SaveFlags, PassGuard, FileError, Crash, convVars, libraryVars, fileVars, writerVars
<1>3. DiskInv' /\ mem' = mem
    BY <1>1, <1>2, SaveKept, LibraryAlone
<1> QED
    BY <1>1, <1>2, <1>3, NothingChanged DEF KeptInv

LEMMA KeptNext ==
    ASSUME ~LateFailures, ConvInv, KeptInv, [ConvNext]_convVars
    PROVE  KeptInv'
    BY LocateKept, ListKept, NewFileKept, EnrollKept, DeleteKept, MoveFileKept, CommitKept,
       WriteKept, RestartKept, EditLibraryKept, OthersKept
    DEF ConvNext, Continue

(* What writers were shown or told is saved stays where the library points *)
(* and keeps its messages, and forks their history: through crashes,       *)
(* failed writes, refused saves and compensations, as long as a save that  *)
(* reports failure has replaced nothing.                                   *)
THEOREM AcknowledgedKeptAlways ==
    ASSUME ~LateFailures PROVE ConvSpec => []AcknowledgedKept
<1>1. ConvInit => KeptInv
    BY ConvInitInv
<1>2. ConvInv /\ KeptInv /\ [ConvNext]_convVars => KeptInv'
    BY KeptNext
<1>3. ConvInv /\ KeptInv => AcknowledgedKept
  <2> SUFFICES ASSUME ConvInv, KeptInv PROVE AcknowledgedKept
    OBVIOUS
  <2>1. ConvTypeOK /\ DiskInv /\ \A s \in Sessions : Kept(s)
    BY DEF ConvInv, KeptInv
  <2>2. ForkHoldsHistory
    BY <2>1 DEF ForkHoldsHistory, Kept
  <2>3. ASSUME NEW s \in known
        PROVE  /\ Present(s) /\ saved[s] <= text[<<s, Where(s)>>]
               /\ disk[s] = mem[s]
    <3>1. s \in Sessions
      BY <2>1, Typed
    <3>2. Present(s) /\ saved[s] <= text[<<s, Where(s)>>]
      BY <2>1, <2>3, <3>1 DEF Kept
    <3>3. mem[s] # NoRecord
      BY <3>2, RestingTyped DEF Present, Enrolled, Where
    <3> QED
      BY <2>1, <3>1, <3>2, <3>3 DEF DiskInv
  <2> QED
    BY <2>1, <2>2, <2>3 DEF AcknowledgedKept
<1> QED
    BY <1>1, <1>2, <1>3, ConvInvariant, PTL DEF ConvSpec

-----------------------------------------------------------------------------
(* Archives.  A name is new when it is taken, and its archive is nobody    *)
(* else's to publish.                                                      *)
Unpublished(c) == job[c].step \in {"library", "collect", "zip"}

NamesInv ==
    /\ archives \subseteq Names /\ IsFiniteSet(archives)
    /\ job \in [Creators -> Job]
    /\ \E k \in Nat : \A n \in InUse : n <= k
    /\ \A c \in Creators : Unpublished(c) =>
          /\ job[c].name \in Names \ archives
          /\ \A d \in Creators \ {c} : job[d].name # job[c].name

(* What a process is about to remove, and an archive that outlives it.     *)
Doomed(c) ==
    IF Busy(c, "stat") THEN Oldest(job[c].names)
    ELSE IF Busy(c, "unlink") THEN job[c].names ELSE {}

StandingAbove(x) == \E y \in Standing : y.stamp > x.stamp

StandingInv == \A c \in Creators : \A x \in Doomed(c) : StandingAbove(x)

(* The steps of backup_store.py and backup_worker.py, as far as archives   *)
(* and names go.                                                           *)
LEMMA ArchiveSteps ==
    ASSUME [BackupNext]_backupVars
    PROVE  \/ UNCHANGED archiveVars
           \/ \E c \in Creators :
                \/ /\ Busy(c, "idle") /\ archives' = archives
                   /\ \E step \in {"library", "zip"} : Begin(c, step)
                \/ /\ archives' = archives
                   /\ \/ Busy(c, "library") /\ Becomes(c, "collect")
                      \/ Busy(c, "collect") /\ Becomes(c, "zip")
                      \/ Busy(c, "verify") /\ Becomes(c, "retain")
                \/ archives' = archives /\ Ends(c)
                \/ /\ Busy(c, "zip") /\ archives' = archives \cup {job[c].name}
                   /\ Becomes(c, "verify")
                \/ /\ Busy(c, "verify") /\ archives' = archives \ {job[c].name}
                   /\ Ends(c)
                \/ ListArchives(c)
                \/ StatArchives(c)
                \/ Prune(c)
<1>1. "worker" \in Creators /\ "web" \in Creators
    BY DEF Creators
<1>2. CASE UNCHANGED backupVars
    BY <1>2 DEF backupVars
<1>3. CASE WorkerPoll
    BY <1>1, <1>3 DEF WorkerPoll
<1>4. CASE ReadLibrary \/ Collected
    BY <1>1, <1>4 DEF ReadLibrary, Collected
<1>5. CASE ListDirectory
    BY <1>5 DEF ListDirectory
<1>6. CASE ReadFile
    BY <1>1, <1>6 DEF ReadFile, archiveVars
<1>7. CASE WebCreate
    BY <1>1, <1>7 DEF WebCreate
<1>8. ASSUME NEW c \in Creators, Publish(c) \/ Verify(c)
      PROVE  \/ archives' = archives /\ Ends(c)
             \/ /\ Busy(c, "zip") /\ archives' = archives \cup {job[c].name}
                /\ Becomes(c, "verify")
             \/ /\ Busy(c, "verify") /\ archives' = archives \ {job[c].name}
                /\ Ends(c)
             \/ archives' = archives /\ Busy(c, "verify") /\ Becomes(c, "retain")
    BY <1>8 DEF Publish, Verify
<1>9. CASE WorkerCrash \/ WebDies
    BY <1>1, <1>9 DEF WorkerCrash, WebDies
<1>10. CASE ConversationStep \/ NextDay
    BY <1>10 DEF ConversationStep, NextDay
<1> QED
    BY <1>1, <1>2, <1>3, <1>4, <1>5, <1>6, <1>7, <1>8, <1>9, <1>10
    DEF BackupNext, WorkerNext, WebNext

LEMMA JobsAre ==
    ASSUME job \in [Creators -> Job], NEW c \in Creators, NEW j \in Job,
           job' = [job EXCEPT ![c] = j]
    PROVE  /\ job' \in [Creators -> Job] /\ job'[c] = j
           /\ \A d \in Creators \ {c} : job'[d] = job[d]
    OBVIOUS

LEMMA NoJobIs == NoJob \in Job /\ NoJob.step = "idle" /\ NoJob.name = NoName
    BY DEF NoJob, Job

LEMMA BecomesIs ==
    ASSUME job \in [Creators -> Job], NEW c \in Creators,
           NEW step \in {"collect", "zip", "verify", "retain"}, Becomes(c, step)
    PROVE  /\ job' \in [Creators -> Job]
           /\ job'[c].step = step /\ job'[c].name = job[c].name /\ job'[c].names = job[c].names
           /\ \A d \in Creators \ {c} : job'[d] = job[d]
<1>1. PICK r \in Job : r = job[c]
    OBVIOUS
<1> DEFINE u == [r EXCEPT !.step = step]
<1>2. u \in Job /\ u.step = step /\ u.name = r.name /\ u.names = r.names
    BY DEF Job
<1>3. job' = [job EXCEPT ![c] = u]
    BY <1>1 DEF Becomes
<1> HIDE DEF u
<1> QED
    BY <1>1, <1>2, <1>3, JobsAre

(* _timestamped name: later than every name in use.                        *)
LEMMA GreatestIs ==
    ASSUME NEW S, S \subseteq Nat, S # {}, NEW k \in Nat, \A n \in S : n <= k
    PROVE  LET g == CHOOSE n \in S : \A m \in S : m <= n IN g \in S /\ \A m \in S : m <= g
<1> DEFINE T == {n \in Nat : \A m \in S : m <= n}
           Less == OpToRel(<, Nat)
<1>1. T \subseteq Nat /\ T # {}
    OBVIOUS
<1>2. \A x, y \in Nat : <<y, x>> \in Less <=> y < x
    BY DEF OpToRel
<1>3. IsWellFoundedOn(Less, Nat)
    BY NatLessThanWellFounded, Zenon
<1> HIDE DEF T, Less
<1>4. PICK x \in T : \A y \in T : ~(<<y, x>> \in Less)
    BY <1>1, <1>3, WFMin
<1> USE DEF T
<1>5. x \in S
  <2> SUFFICES ASSUME x \notin S PROVE FALSE
    OBVIOUS
  <2>1. \A m \in S : m < x
    OBVIOUS
  <2>2. PICK m \in S : TRUE
    OBVIOUS
  <2>3. x - 1 \in Nat /\ \A n \in S : n <= x - 1
    BY <2>1, <2>2
  <2>4. x - 1 \in T /\ x - 1 < x
    BY <2>3
  <2> QED
    BY <1>2, <1>4, <2>4
<1>6. \A m \in S : m <= x
    OBVIOUS
<1> QED
    BY <1>5, <1>6

LEMMA NewNameIs ==
    ASSUME NamesInv, day \in Days
    PROVE  /\ NewName \in Names
           /\ \A n \in InUse : n < NewName.stamp
<1>1. InUse \subseteq Nat /\ InUse # {}
  <2>1. \A c \in Creators : job[c].name \in Names \cup {NoName}
    BY DEF NamesInv, Job
  <2>2. \A c \in Creators : job[c].name.stamp \in Nat
    BY <2>1 DEF Names, NoName
  <2>3. \A a \in archives : a.stamp \in Nat
    BY DEF NamesInv, Names
  <2>4. job["web"].name.stamp \in InUse
    BY DEF InUse, Creators
  <2> QED
    BY <2>2, <2>3, <2>4 DEF InUse
<1>2. PICK k \in Nat : \A n \in InUse : n <= k
    BY DEF NamesInv
<1>3. PICK g \in InUse : /\ g = CHOOSE n \in InUse : \A m \in InUse : m <= n
                         /\ \A m \in InUse : m <= g
    BY <1>1, <1>2, GreatestIs
<1>4. NewName = [day |-> day, stamp |-> 1 + g] /\ g \in Nat
    BY <1>1, <1>3 DEF NewName
<1>5. NewName \in Names /\ NewName.stamp = 1 + g
    BY <1>4 DEF Names
<1>6. \A n \in InUse : n < 1 + g
    BY <1>1, <1>3, <1>4
<1> QED
    BY <1>5, <1>6

(* A process begins, with a name that is in nobody's use.                  *)
LEMMA BeginNames ==
    ASSUME NamesInv, day \in Days, NEW c \in Creators, NEW step \in {"library", "zip"},
           Begin(c, step), archives' = archives
    PROVE  NamesInv' /\ job'[c].step = step /\ \A d \in Creators \ {c} : job'[d] = job[d]
<1>1. PICK name \in Names : name = NewName /\ \A n \in InUse : n < name.stamp
    BY NewNameIs
<1>2. PICK j : j = [step |-> step, name |-> name, names |-> {}]
    OBVIOUS
<1>3. j \in Job /\ j.step = step /\ j.name = name
    BY <1>2 DEF Job
<1>4. /\ job' \in [Creators -> Job] /\ job'[c] = j
      /\ \A d \in Creators \ {c} : job'[d] = job[d]
    BY <1>1, <1>2, <1>3, JobsAre DEF Begin, NamesInv
<1>5. \A n \in InUse' : n \in InUse \/ n = name.stamp
    BY <1>3, <1>4 DEF InUse
<1>6. \E k \in Nat : \A n \in InUse' : n <= k
  <2>1. name.stamp \in Nat
    BY DEF Names
  <2>2. InUse \subseteq Nat
    BY DEF InUse, NamesInv, Names, Job, NoName
  <2>3. PICK k \in Nat : k = name.stamp
    BY <2>1
  <2>4. \A n \in InUse : n <= k
    BY <1>1, <2>2, <2>3
  <2>5. \A n \in InUse' : n <= k
    BY <1>5, <2>3, <2>4
  <2> QED
    BY <2>5
<1>7. /\ name \notin archives
      /\ \A d \in Creators : job[d].name # name
  <2>1. name.stamp \notin InUse
    <3>1. name.stamp \in Nat
      BY DEF Names
    <3> QED
      BY <1>1, <3>1
  <2> QED
    BY <2>1 DEF InUse
<1>8. ASSUME NEW d \in Creators, Unpublished(d)'
      PROVE  /\ job'[d].name \in Names \ archives'
             /\ \A e \in Creators \ {d} : job'[e].name # job'[d].name
  <2>1. CASE d = c
    BY <1>3, <1>4, <1>7, <2>1
  <2>2. CASE d # c
    <3>1. Unpublished(d)
      BY <1>4, <1>8, <2>2 DEF Unpublished
    <3>2. /\ job[d].name \in Names \ archives
          /\ \A e \in Creators \ {d} : job[e].name # job[d].name
      BY <3>1 DEF NamesInv
    <3> QED
      BY <1>3, <1>4, <1>7, <2>2, <3>2
  <2> QED
    BY <2>1, <2>2
<1> QED
    BY <1>3, <1>4, <1>6, <1>8 DEF NamesInv

(* A process goes on under its name, or has no name any more; an archive   *)
(* is published under the name of its process, or removed.                 *)
LEMMA GoesOnNames ==
    ASSUME NamesInv, NEW c \in Creators, job' \in [Creators -> Job],
           \A d \in Creators \ {c} : job'[d] = job[d],
           job'[c].name = job[c].name \/ job'[c].name = NoName,
           Unpublished(c)' => /\ Unpublished(c) /\ job'[c].name = job[c].name
                              /\ job[c].name \notin archives',
           \/ archives' \subseteq archives
           \/ /\ Unpublished(c) /\ archives' = archives \cup {job[c].name}
    PROVE  NamesInv'
<1>1. archives' \subseteq Names /\ IsFiniteSet(archives')
  <2>1. CASE archives' \subseteq archives
    BY <2>1, FS_Subset DEF NamesInv
  <2>2. CASE Unpublished(c) /\ archives' = archives \cup {job[c].name}
    BY <2>2, FS_AddElement DEF NamesInv
  <2> QED
    BY <2>1, <2>2
<1>2. \A n \in InUse' : n \in InUse \/ n = 0
  <2>1. \A a \in archives' : a.stamp \in InUse
    BY DEF InUse
  <2>2. \A d \in Creators : job'[d].name.stamp \in InUse \/ job'[d].name.stamp = 0
    BY DEF InUse, NoName
  <2> QED
    BY <2>1, <2>2 DEF InUse
<1>3. PICK k \in Nat : \A n \in InUse : n <= k
    BY DEF NamesInv
<1>4. \A n \in InUse' : n <= k
    BY <1>2, <1>3
<1>5. ASSUME NEW d \in Creators, Unpublished(d)'
      PROVE  /\ job'[d].name \in Names \ archives'
             /\ \A e \in Creators \ {d} : job'[e].name # job'[d].name
  <2>1. Unpublished(d) /\ job'[d].name = job[d].name
    BY <1>5 DEF Unpublished
  <2>2. /\ job[d].name \in Names \ archives
        /\ \A e \in Creators \ {d} : job[e].name # job[d].name
    BY <2>1 DEF NamesInv
  <2>3. job[d].name # NoName
    BY <2>2 DEF Names, NoName, Days
  <2>4. job[d].name \notin archives'
    BY <1>5, <2>1, <2>2
  <2> QED
    BY <2>1, <2>2, <2>3, <2>4
<1> QED
    BY <1>1, <1>3, <1>4, <1>5 DEF NamesInv

(* list and the two steps of retention, seen from outside.                 *)
LEMMA RetainJob ==
    ASSUME NamesInv, NEW c \in Creators,
           ListArchives(c) \/ StatArchives(c) \/ Prune(c)
    PROVE  /\ job' \in [Creators -> Job]
           /\ \A d \in Creators \ {c} : job'[d] = job[d]
           /\ job'[c].name = job[c].name \/ job'[c].name = NoName
           /\ archives' \subseteq archives
           /\ \/ /\ ListArchives(c) /\ archives' = archives
                 /\ job'[c].step = "stat" /\ job'[c].names = archives
              \/ /\ Busy(c, "stat") /\ archives' = archives
                 /\ job'[c].step = "unlink" /\ job'[c].names = Oldest(job[c].names)
              \/ job'[c].step = "idle" /\ archives' = archives
              \/ /\ Busy(c, "unlink") /\ job'[c].step = "unlink"
                 /\ \E a \in job[c].names : /\ archives' = archives \ {a}
                                            /\ job'[c].names = job[c].names \ {a}
<1>0. job \in [Creators -> Job] /\ archives \in SUBSET Names
    BY DEF NamesInv
<1>1. PICK r \in Job : r = job[c]
    BY <1>0
<1>2. Oldest(r.names) \in SUBSET Names /\ r.names \in SUBSET Names
    BY DEF Job, Oldest
<1>3. ASSUME NEW step \in {"stat", "unlink"}, NEW names \in SUBSET Names,
             job' = [job EXCEPT ![c] = [r EXCEPT !.step = step, !.names = names]]
      PROVE  /\ job' \in [Creators -> Job]
             /\ \A d \in Creators \ {c} : job'[d] = job[d]
             /\ job'[c].name = job[c].name
             /\ job'[c].step = step /\ job'[c].names = names
  <2> DEFINE u == [r EXCEPT !.step = step, !.names = names]
  <2>1. u \in Job /\ u.step = step /\ u.name = r.name /\ u.names = names
    BY DEF Job
  <2>2. job' = [job EXCEPT ![c] = u]
    BY <1>3
  <2> HIDE DEF u
  <2> QED
    BY <1>0, <1>1, <2>1, <2>2, JobsAre
<1>4. CASE ListArchives(c)
  <2>1. /\ job' = [job EXCEPT ![c] = [r EXCEPT !.step = "stat", !.names = archives]]
        /\ archives' = archives
    BY <1>1, <1>4 DEF ListArchives
  <2> QED
    BY <1>0, <1>3, <1>4, <2>1
<1>5. CASE StatArchives(c) /\ job[c].names \subseteq archives
  <2>1. /\ job' = [job EXCEPT ![c] = [r EXCEPT !.step = "unlink", !.names = Oldest(r.names)]]
        /\ archives' = archives /\ Busy(c, "stat")
    BY <1>1, <1>5 DEF StatArchives
  <2> QED
    BY <1>1, <1>2, <1>3, <2>1
<1>6. CASE Ends(c) /\ archives' = archives
  <2>1. /\ job' \in [Creators -> Job] /\ job'[c] = NoJob
        /\ \A d \in Creators \ {c} : job'[d] = job[d]
    BY <1>0, <1>6, NoJobIs, JobsAre DEF Ends
  <2> QED
    BY <1>6, <2>1, NoJobIs
<1>7. CASE Prune(c) /\ job[c].names # {}
  <2>1. PICK a \in r.names :
            /\ archives' = archives \ {a} /\ Busy(c, "unlink")
            /\ job' = [job EXCEPT ![c].names = @ \ {a}]
    BY <1>1, <1>7 DEF Prune
  <2>2. r.step = "unlink"
    BY <1>1, <2>1 DEF Busy
  <2>3. [r EXCEPT !.names = r.names \ {a}]
            = [r EXCEPT !.step = "unlink", !.names = r.names \ {a}]
    BY <2>2 DEF Job
  <2>4. job' = [job EXCEPT ![c] = [r EXCEPT !.step = "unlink", !.names = r.names \ {a}]]
    BY <1>1, <2>1, <2>3
  <2>5. r.names \ {a} \in SUBSET Names
    BY <1>2
  <2> QED
    BY <1>1, <1>3, <2>1, <2>4, <2>5
<1> QED
    BY <1>4, <1>5, <1>6, <1>7 DEF StatArchives, Prune

LEMMA NamesNext ==
    ASSUME NamesInv, day \in Days, [BackupNext]_backupVars
    PROVE  NamesInv'
<1>0. job \in [Creators -> Job]
    BY DEF NamesInv
<1>1. CASE UNCHANGED archiveVars
    BY <1>1 DEF archiveVars, NamesInv, InUse, Unpublished
<1>2. ASSUME NEW c \in Creators, archives' = archives,
             \E step \in {"library", "zip"} : Begin(c, step)
      PROVE  NamesInv'
    BY <1>2, BeginNames
<1>3. ASSUME NEW c \in Creators, archives' = archives,
             \/ Busy(c, "library") /\ Becomes(c, "collect")
             \/ Busy(c, "collect") /\ Becomes(c, "zip")
             \/ Busy(c, "verify") /\ Becomes(c, "retain")
      PROVE  NamesInv'
  <2>1. /\ job' \in [Creators -> Job] /\ job'[c].name = job[c].name
        /\ \A d \in Creators \ {c} : job'[d] = job[d]
        /\ Unpublished(c)' => Unpublished(c)
    BY <1>0, <1>3, BecomesIs DEF Unpublished, Busy
  <2>2. Unpublished(c) => job[c].name \notin archives'
    BY <1>3 DEF NamesInv
  <2> QED
    BY <1>3, <2>1, <2>2, GoesOnNames
<1>4. ASSUME NEW c \in Creators, Ends(c), archives' \subseteq archives
      PROVE  NamesInv'
  <2>1. /\ job' \in [Creators -> Job] /\ job'[c] = NoJob
        /\ \A d \in Creators \ {c} : job'[d] = job[d]
    BY <1>0, <1>4, NoJobIs, JobsAre DEF Ends
  <2> QED
    BY <1>4, <2>1, NoJobIs, GoesOnNames DEF Unpublished
<1>5. ASSUME NEW c \in Creators, Busy(c, "zip"), archives' = archives \cup {job[c].name},
             Becomes(c, "verify")
      PROVE  NamesInv'
  <2>1. /\ job' \in [Creators -> Job] /\ job'[c].name = job[c].name /\ job'[c].step = "verify"
        /\ \A d \in Creators \ {c} : job'[d] = job[d]
    BY <1>0, <1>5, BecomesIs
  <2>2. Unpublished(c) /\ ~Unpublished(c)'
    BY <1>5, <2>1 DEF Unpublished, Busy
  <2> QED
    BY <1>5, <2>1, <2>2, GoesOnNames
<1>6. ASSUME NEW c \in Creators, ListArchives(c) \/ StatArchives(c) \/ Prune(c)
      PROVE  NamesInv'
  <2>1. /\ job' \in [Creators -> Job]
        /\ \A d \in Creators \ {c} : job'[d] = job[d]
        /\ job'[c].name = job[c].name \/ job'[c].name = NoName
        /\ archives' \subseteq archives
        /\ job'[c].step \in {"stat", "unlink", "idle"}
    BY <1>6, RetainJob
  <2> QED
    BY <2>1, GoesOnNames DEF Unpublished
<1> QED
    BY <1>1, <1>2, <1>3, <1>4, <1>5, <1>6, ArchiveSteps

-----------------------------------------------------------------------------
(* What stands goes on standing, unless it is pruned.                      *)
LEMMA StandingFrame ==
    ASSUME NEW c \in Creators, \A d \in Creators \ {c} : job'[d] = job[d],
           Standing \subseteq archives',
           Busy(c, "verify")' => job'[c].name \notin Standing
    PROVE  Standing \subseteq Standing'
    BY DEF Standing, Busy

LEMMA DoomedFrame ==
    ASSUME StandingInv, NEW c \in Creators, \A d \in Creators \ {c} : job'[d] = job[d],
           Standing \subseteq Standing', Doomed(c)' \subseteq Doomed(c)
    PROVE  StandingInv'
<1>1. ASSUME NEW d \in Creators, NEW x \in Doomed(d)' PROVE StandingAbove(x)'
  <2>1. x \in Doomed(d)
    BY <1>1 DEF Doomed, Busy, Oldest
  <2>2. StandingAbove(x)
    BY <2>1 DEF StandingInv
  <2> QED
    BY <2>2 DEF StandingAbove
<1> QED
    BY <1>1 DEF StandingInv

(* Of the archives a process lists, the two newest cannot both be ones     *)
(* that the other process may still withdraw.                              *)
LEMMA TwoNewer ==
    ASSUME NEW S, IsFiniteSet(S), Cardinality(S) >= 2
    PROVE  \E x, y \in S : x # y
<1>1. S # {}
    BY FS_EmptySet
<1>2. PICK x \in S : TRUE
    BY <1>1
<1>3. S # {x}
    BY FS_Singleton
<1> QED
    BY <1>2, <1>3

LEMMA ListedBelow ==
    ASSUME Retain >= 2, NamesInv, NEW c \in Creators, Busy(c, "retain"),
           NEW x \in Oldest(archives)
    PROVE  StandingAbove(x)
<1>1. IsFiniteSet({b \in archives : b.stamp > x.stamp})
    BY FS_Subset DEF NamesInv
<1>2. Cardinality({b \in archives : b.stamp > x.stamp}) \in Nat
    BY <1>1, FS_CardinalityType
<1>3. Cardinality({b \in archives : b.stamp > x.stamp}) >= 2
    BY <1>2, BackupAssumption DEF Oldest
<1>4. PICK y \in archives, z \in archives :
          y.stamp > x.stamp /\ z.stamp > x.stamp /\ y # z
    BY <1>1, <1>3, TwoNewer
<1>5. \A d, e \in Creators : d # c /\ e # c => d = e
    BY DEF Creators
<1>6. ~Busy(c, "verify")
    BY DEF Busy
<1>7. y \in Standing \/ z \in Standing
    BY <1>4, <1>5, <1>6 DEF Standing
<1> QED
    BY <1>4, <1>7 DEF StandingAbove

(* An archive that is pruned has a newer one that stands, and stays.       *)
LEMMA PruneLeaves ==
    ASSUME NamesInv, StandingInv, NEW c \in Creators, NEW a \in job[c].names,
           Busy(c, "unlink"), archives' = archives \ {a}, ~Busy(c, "verify")',
           \A d \in Creators \ {c} : job'[d] = job[d]
    PROVE  /\ Standing' # {}
           /\ \A x \in Names : StandingAbove(x) => StandingAbove(x)'
<1>1. a \in Names /\ a.stamp \in Nat
    BY DEF NamesInv, Job, Names
<1>2. a \in Doomed(c)
    BY DEF Doomed, Busy
<1>3. PICK z \in Standing : z.stamp > a.stamp
    BY <1>2 DEF StandingInv, StandingAbove
<1>4. \A y \in Standing : y # a => y \in Standing'
    BY DEF Standing, Busy
<1>5. z \in Standing' /\ z.stamp \in Nat
    BY <1>1, <1>3, <1>4 DEF Standing, NamesInv, Names
<1>6. ASSUME NEW x \in Names, StandingAbove(x) PROVE StandingAbove(x)'
  <2>1. PICK y \in Standing : y.stamp > x.stamp
    BY <1>6 DEF StandingAbove
  <2>2. CASE y = a
    <3>1. z.stamp > x.stamp
      BY <1>1, <1>3, <1>5, <2>1, <2>2 DEF Names
    <3> QED
      BY <1>5, <3>1 DEF StandingAbove
  <2>3. CASE y # a
    BY <1>4, <2>1, <2>3 DEF StandingAbove
  <2> QED
    BY <2>2, <2>3
<1> QED
    BY <1>5, <1>6

LEMMA StandingNext ==
    ASSUME Retain >= 2, NamesInv, StandingInv, [BackupNext]_backupVars
    PROVE  StandingInv' /\ (Standing # {} => Standing' # {})
<1>0. job \in [Creators -> Job] /\ Standing \subseteq archives
    BY DEF NamesInv, Standing
<1>1. CASE UNCHANGED archiveVars
  <2>1. archives' = archives /\ job' = job
    BY <1>1 DEF archiveVars
  <2>2. Standing' = Standing /\ \A c : Doomed(c)' = Doomed(c)
    BY <2>1 DEF Standing, Doomed, Busy, Oldest
  <2> QED
    BY <2>2 DEF StandingInv, StandingAbove
<1>2. ASSUME NEW c \in Creators, NEW step \in {"library", "zip"}, Busy(c, "idle"),
             archives' = archives, Begin(c, step)
      PROVE  StandingInv' /\ Standing \subseteq Standing'
  <2>1. PICK name : job' = [job EXCEPT ![c] = [step |-> step, name |-> name, names |-> {}]]
    BY <1>2 DEF Begin
  <2>2. job'[c].step = step /\ \A d \in Creators \ {c} : job'[d] = job[d]
    BY <1>0, <2>1
  <2>3. ~Busy(c, "verify")' /\ Doomed(c)' = {}
    BY <2>2 DEF Busy, Doomed
  <2>4. Standing \subseteq Standing'
    BY <1>0, <1>2, <2>2, <2>3, StandingFrame
  <2> QED
    BY <2>2, <2>3, <2>4, DoomedFrame
<1>3. ASSUME NEW c \in Creators, archives' = archives,
             \/ Busy(c, "library") /\ Becomes(c, "collect")
             \/ Busy(c, "collect") /\ Becomes(c, "zip")
             \/ Busy(c, "verify") /\ Becomes(c, "retain")
      PROVE  StandingInv' /\ Standing \subseteq Standing'
  <2>1. /\ job'[c].step \in {"collect", "zip", "retain"}
        /\ \A d \in Creators \ {c} : job'[d] = job[d]
    BY <1>0, <1>3, BecomesIs
  <2>2. ~Busy(c, "verify")' /\ Doomed(c)' = {}
    BY <2>1 DEF Busy, Doomed
  <2>3. Standing \subseteq Standing'
    BY <1>0, <1>3, <2>1, <2>2, StandingFrame
  <2> QED
    BY <2>1, <2>2, <2>3, DoomedFrame
<1>4. ASSUME NEW c \in Creators, Ends(c),
             archives' = archives \/ (Busy(c, "verify") /\ archives' = archives \ {job[c].name})
      PROVE  StandingInv' /\ Standing \subseteq Standing'
  <2>1. job'[c] = NoJob /\ \A d \in Creators \ {c} : job'[d] = job[d]
    BY <1>0, <1>4, NoJobIs, JobsAre DEF Ends
  <2>2. ~Busy(c, "verify")' /\ Doomed(c)' = {}
    BY <2>1, NoJobIs DEF Busy, Doomed
  <2>3. Standing \subseteq archives'
    BY <1>0, <1>4 DEF Standing
  <2>4. Standing \subseteq Standing'
    BY <2>1, <2>2, <2>3, StandingFrame
  <2> QED
    BY <2>1, <2>2, <2>4, DoomedFrame
<1>5. ASSUME NEW c \in Creators, Busy(c, "zip"), archives' = archives \cup {job[c].name},
             Becomes(c, "verify")
      PROVE  StandingInv' /\ Standing \subseteq Standing'
  <2>1. /\ job'[c].name = job[c].name /\ job'[c].step = "verify"
        /\ \A d \in Creators \ {c} : job'[d] = job[d]
    BY <1>0, <1>5, BecomesIs
  <2>2. job[c].name \notin archives
    BY <1>5 DEF NamesInv, Unpublished, Busy
  <2>3. Standing \subseteq Standing'
    BY <1>0, <1>5, <2>1, <2>2, StandingFrame
  <2>4. Doomed(c)' = {}
    BY <2>1 DEF Doomed, Busy
  <2> QED
    BY <2>1, <2>3, <2>4, DoomedFrame
<1>6. ASSUME NEW c \in Creators, ListArchives(c) \/ StatArchives(c) \/ Prune(c)
      PROVE  StandingInv' /\ (Standing # {} => Standing' # {})
  <2>1. \A d \in Creators \ {c} : job'[d] = job[d]
    BY <1>6, RetainJob
  <2>2. CASE /\ ListArchives(c) /\ archives' = archives
             /\ job'[c].step = "stat" /\ job'[c].names = archives
    <3>1. Standing \subseteq Standing'
      BY <1>0, <2>1, <2>2, StandingFrame DEF Busy
    <3>2. ASSUME NEW x \in Doomed(c)' PROVE StandingAbove(x)'
      <4>1. x \in Oldest(archives) /\ Busy(c, "retain")
        BY <2>2, <3>2 DEF Doomed, Busy, Oldest, ListArchives
      <4>2. StandingAbove(x)
        BY <4>1, ListedBelow
      <4> QED
        BY <3>1, <4>2 DEF StandingAbove
    <3>3. ASSUME NEW d \in Creators \ {c}, NEW x \in Doomed(d)' PROVE StandingAbove(x)'
      <4>1. x \in Doomed(d)
        BY <2>1, <3>3 DEF Doomed, Busy, Oldest
      <4>2. StandingAbove(x)
        BY <4>1 DEF StandingInv
      <4> QED
        BY <3>1, <4>2 DEF StandingAbove
    <3> QED
      BY <3>1, <3>2, <3>3 DEF StandingInv
  <2>3. CASE /\ Busy(c, "stat") /\ archives' = archives
             /\ job'[c].step = "unlink" /\ job'[c].names = Oldest(job[c].names)
    <3>1. Standing \subseteq Standing'
      BY <1>0, <2>1, <2>3, StandingFrame DEF Busy
    <3>2. Doomed(c)' = Doomed(c)
      BY <2>3 DEF Doomed, Busy
    <3> QED
      BY <2>1, <3>1, <3>2, DoomedFrame
  <2>4. CASE job'[c].step = "idle" /\ archives' = archives
    <3>1. Standing \subseteq Standing'
      BY <1>0, <2>1, <2>4, StandingFrame DEF Busy
    <3>2. Doomed(c)' = {}
      BY <2>4 DEF Doomed, Busy
    <3> QED
      BY <2>1, <3>1, <3>2, DoomedFrame
  <2>5. ASSUME NEW a \in job[c].names, Busy(c, "unlink"), job'[c].step = "unlink",
               archives' = archives \ {a}, job'[c].names = job[c].names \ {a}
        PROVE  StandingInv' /\ Standing' # {}
    <3>1. ~Busy(c, "verify")'
      BY <2>5 DEF Busy
    <3>2. Standing' # {} /\ \A x \in Names : StandingAbove(x) => StandingAbove(x)'
      BY <2>1, <2>5, <3>1, PruneLeaves
    <3>3. ASSUME NEW d \in Creators, NEW x \in Doomed(d)' PROVE StandingAbove(x)'
      <4>1. x \in Doomed(d)
        BY <2>1, <2>5, <3>3 DEF Doomed, Busy, Oldest
      <4>2. StandingAbove(x) /\ x \in Names
        BY <1>0, <4>1 DEF StandingInv, Doomed, Oldest, Job
      <4> QED
        BY <3>2, <4>2
    <3> QED
      BY <3>2, <3>3 DEF StandingInv
  <2> QED
    BY <1>6, <2>2, <2>3, <2>4, <2>5, RetainJob
<1> QED
    BY <1>1, <1>2, <1>3, <1>4, <1>5, <1>6, ArchiveSteps DEF archiveVars, Standing, Busy

-----------------------------------------------------------------------------
(* Conversations next to a collection.                                     *)
FillInv == At("fill") => text[<<op.s, op.p>>] = 0

BesideInv == ConvInv /\ CutCounted /\ FillInv

LEMMA ArriveIs ==
    ASSUME Arrive
    PROVE  \E k, t, s, p, f : t \in {"list", "file", "locate"} /\ Request(k, t, s, p, f)
<1>1. ASSUME NEW s, NEW p, Create(s, p)
      PROVE  \E k, t, x, y, f : t \in {"list", "file", "locate"} /\ Request(k, t, x, y, f)
    BY <1>1 DEF Create
<1>2. ASSUME NEW s, NEW p, Move(s, p)
      PROVE  \E k, t, x, y, f : t \in {"list", "file", "locate"} /\ Request(k, t, x, y, f)
    BY <1>2 DEF Move
<1>3. ASSUME NEW s, NEW p, NEW from, Fork(s, p, from)
      PROVE  \E k, t, x, y, f : t \in {"list", "file", "locate"} /\ Request(k, t, x, y, f)
    BY <1>3 DEF Fork
<1>4. ASSUME NEW kind, NEW s, Visit(kind, s)
      PROVE  \E k, t, x, y, f : t \in {"list", "file", "locate"} /\ Request(k, t, x, y, f)
    BY <1>4 DEF Visit
<1>0. CASE Request("list", "list", Null, Null, Null)
    BY <1>0
<1>5. CASE \E s \in Sessions :
          \/ \E p \in Projects : Create(s, p) \/ Move(s, p)
          \/ \E p \in Projects \cup {Null}, from \in Sessions : Fork(s, p, from)
          \/ \E kind \in {"open", "delete", "rename"} : Visit(kind, s)
          \/ AppendMessage(s)
  <2> PICK s \in Sessions :
          \/ \E p \in Projects : Create(s, p) \/ Move(s, p)
          \/ \E p \in Projects \cup {Null}, from \in Sessions : Fork(s, p, from)
          \/ \E kind \in {"open", "delete", "rename"} : Visit(kind, s)
          \/ AppendMessage(s)
    BY <1>5
  <2>1. AppendMessage(s) => Visit("append", s)
    BY DEF AppendMessage
  <2> QED
    BY <1>1, <1>2, <1>3, <1>4, <2>1, Zenon
<1> QED
    BY <1>0, <1>5 DEF Arrive

LEMMA FillNext ==
    ASSUME ConvInv, FillInv, [ConvNext]_convVars
    PROVE  FillInv'
<1>0. ConvTypeOK /\ HandlerInv
    BY DEF ConvInv
<1>1. CASE WriteFile
  <2>1. /\ op.s \in Sessions /\ op.p \in Projects /\ text \in [Sessions \X Projects -> Texts]
        /\ text' = [text EXCEPT ![<<op.s, op.p>>] = 0]
    BY <1>0, <1>1, Typed DEF WriteFile, HandlerInv, NewFileInv
  <2>2. op'.s = op.s /\ op'.p = op.p
    BY <1>0, <1>1, StepTo DEF WriteFile, Steps
  <2> QED
    BY <2>1, <2>2 DEF FillInv
<1>2. CASE op' = op /\ text' = text
    BY <1>2 DEF FillInv, At
<1>3. CASE op'.step # "fill"
    BY <1>3 DEF FillInv, At
<1>4. CASE Arrive
  <2>1. PICK k, t, s, p, f : t \in {"list", "file", "locate"} /\ Request(k, t, s, p, f)
    BY <1>4, ArriveIs
  <2>2. op'.step = t
    BY <2>1 DEF Request, Resting
  <2> QED
    BY <1>3, <2>1, <2>2
<1>5. CASE Locate
  <2>1. op' = Resting \/ \E s, q : Located(s, q)
    BY <1>5 DEF Locate, Done
  <2>2. \A q : First(q) # "fill"
    BY <1>0, Typed DEF First, Kinds
  <2>3. \A s, q : Located(s, q) => op' = Resting \/ op'.step = First(q)
    BY <1>0, Typed DEF Located, Done, Op
  <2> QED
    BY <1>3, <2>1, <2>2, <2>3, RestingTyped
<1>6. CASE PassGuard \/ (\E s \in Sessions, p \in Projects : EditLibrary(s, p)) \/ UNCHANGED convVars
    BY <1>2, <1>6 DEF PassGuard, EditLibrary, convVars, fileVars
<1>7. CASE FillFork \/ Enroll \/ Unlink \/ Copy \/ Commit
  <2>1. op' = Resting \/ \E step \in {"enroll", "undo", "forget", "commit", "clear", "retract"} : Goto(step)
    BY <1>7 DEF FillFork, Enroll, Unlink, Copy, Commit, Done
  <2>2. op'.step # "fill"
    BY <1>0, <2>1, StepTo, RestingTyped DEF Steps
  <2> QED
    BY <1>3, <2>2
<1>8. CASE List \/ Undo \/ Forget \/ Retract \/ Clear \/ Write \/ SaveFlags \/ FileError \/ Crash
           \/ Restart
  <2>1. op' \in {Resting, Down}
    BY <1>8 DEF List, Undo, Forget, Retract, Clear, Write, SaveFlags, FileError, Crash, Restart, Done
  <2> QED
    BY <1>3, <2>1, RestingTyped
<1> QED
    BY <1>1, <1>4, <1>5, <1>6, <1>7, <1>8 DEF ConvNext, Continue

(* A step that costs a fault and touches no conversation.                  *)
LEMMA FaultBeside ==
    ASSUME BesideInv, UnchangedButFaults, Fault \/ UNCHANGED faults
    PROVE  BesideInv'
<1>1. /\ UNCHANGED <<files, text, disk, mem, trusted, guard, op, known, saved, deleted, cut>>
      /\ ConvTypeOK /\ HandlerInv /\ FilesInv
    BY DEF UnchangedButFaults, BesideInv, ConvInv, fileVars, libraryVars, writerVars
<1>2. faults' \in 0 .. MaxFaults /\ faults <= faults'
  <2>1. faults \in 0 .. MaxFaults /\ MaxFaults \in Nat
    BY <1>1, ConversationsAssumption DEF ConvTypeOK
  <2>2. CASE Fault
    BY <2>1, <2>2 DEF Fault
  <2>3. CASE UNCHANGED faults
    BY <2>1, <2>3
  <2> QED
    BY <2>2, <2>3
<1>3. ConvTypeOK'
    BY <1>1, <1>2 DEF ConvTypeOK
<1>4. HandlerInv' /\ FilesInv' /\ FillInv'
    BY <1>1 DEF BesideInv, HandlerInv, LocateInv, NewFileInv, FoundInv, FilesInv, Accounted,
                InFlight, Where, Enrolled, At, Unused, FillInv
<1>5. CutCounted'
    BY <1>1, <1>2, Typed DEF BesideInv, CutCounted
<1> QED
    BY <1>3, <1>4, <1>5 DEF BesideInv, ConvInv

LEMMA ConversationSteps ==
    ASSUME [BackupNext]_backupVars
    PROVE  \/ [ConvNext]_convVars
           \/ UnchangedButFaults /\ (Fault \/ UNCHANGED faults)
<1>1. CASE UNCHANGED convVars
    BY <1>1
<1>2. CASE UNCHANGED backupVars
    BY <1>2 DEF backupVars
<1>3. CASE WorkerPoll \/ ReadLibrary \/ ListDirectory \/ ReadFile \/ Collected \/ WebCreate \/ NextDay
    BY <1>3 DEF WorkerPoll, ReadLibrary, ListDirectory, ReadFile, Collected, WebCreate, NextDay
<1>4. ASSUME NEW c, Publish(c) \/ Verify(c)
      PROVE  UnchangedButFaults /\ (Fault \/ UNCHANGED faults)
    BY <1>4 DEF Publish, Verify
<1>5. ASSUME NEW c, ListArchives(c) \/ StatArchives(c) \/ Prune(c) PROVE UNCHANGED convVars
    BY <1>5 DEF ListArchives, StatArchives, Prune
<1>6. CASE WorkerCrash
    BY <1>6 DEF WorkerCrash
<1>7. CASE WebDies
    BY <1>7 DEF WebDies, ConvNext
<1>8. CASE ConversationStep
    BY <1>8 DEF ConversationStep
<1> QED
    BY <1>1, <1>2, <1>3, <1>4, <1>5, <1>6, <1>7, <1>8 DEF BackupNext, WorkerNext, WebNext

LEMMA BesideNext ==
    ASSUME BesideInv, [BackupNext]_backupVars
    PROVE  BesideInv'
    BY ConversationSteps, FaultBeside, ConvNextInv, FillNext DEF BesideInv

(* What writers rely on is kept beside a collection as it is without one.  *)
LEMMA KeptBeside ==
    ASSUME ~LateFailures, BesideInv, KeptInv, [BackupNext]_backupVars
    PROVE  KeptInv'
<1>1. CASE UnchangedButFaults
  <2>1. UNCHANGED <<files, text, disk, mem, trusted, guard, known, saved>>
    BY <1>1 DEF UnchangedButFaults, fileVars, libraryVars, writerVars
  <2> QED
    BY <2>1 DEF KeptInv, DiskInv, Kept, Present, Enrolled, Where
<1> QED
    BY <1>1, ConversationSteps, KeptNext DEF BesideInv

(* A file that is there and is not removed loses no message.               *)
LEMMA FileKeepsMessages ==
    ASSUME ConvInv, FillInv, [ConvNext]_convVars, NEW s \in Sessions, NEW p \in Projects,
           <<s, p>> \in files
    PROVE  text'[<<s, p>>] \in Nat /\ text[<<s, p>>] <= text'[<<s, p>>]
<1>0. ConvTypeOK /\ HandlerInv /\ text \in [Sessions \X Projects -> Texts]
    BY Typed DEF ConvInv
<1>1. text[<<s, p>>] \in Nat
    BY <1>0 DEF Texts
<1>2. CASE text' = text
    BY <1>1, <1>2
<1>3. CASE WriteFile \/ Copy
  <2>1. text'[<<s, p>>] = text[<<s, p>>]
    BY <1>0, <1>3 DEF WriteFile, Copy, fileVars, HandlerInv, NewFileInv, Unused
  <2> QED
    BY <1>1, <2>1
<1>4. CASE FillFork
  <2>1. op.n \in Nat /\ op.s \in Sessions /\ op.p \in Projects /\ text[<<op.s, op.p>>] = 0
    BY <1>0, <1>4, Typed DEF FillFork, HandlerInv, NewFileInv, FillInv, Texts, At
  <2>2. text' = [text EXCEPT ![<<op.s, op.p>>] = op.n]
    BY <1>4 DEF FillFork
  <2> QED
    BY <1>0, <1>1, <2>1, <2>2
<1>5. CASE Write
  <2>1. op.s \in Sessions /\ op.q \in Projects
    BY <1>0, <1>5 DEF Write, HandlerInv, FoundInv, At
  <2>2. text' = [text EXCEPT ![<<op.s, op.q>>] = text[<<op.s, op.q>>] + 1]
    BY <1>5 DEF Write
  <2> QED
    BY <1>0, <1>1, <2>1, <2>2
<1>6. CASE Arrive
  <2>1. \E k, t, x, y, f : Request(k, t, x, y, f)
    BY <1>6, ArriveIs
  <2> QED
    BY <1>2, <2>1 DEF Request, fileVars
<1>7. CASE Locate \/ List \/ PassGuard \/ Enroll \/ Forget \/ Commit \/ SaveFlags \/ FileError
            \/ Crash \/ Restart \/ (\E x \in Sessions, y \in Projects : EditLibrary(x, y))
    BY <1>2, <1>7 DEF Locate, List, PassGuard, Enroll, Forget, Commit, SaveFlags, FileError, Crash,
                      Restart, EditLibrary, fileVars
<1>8. CASE Undo \/ Unlink \/ Retract \/ Clear \/ UNCHANGED convVars
    BY <1>2, <1>8 DEF Undo, Unlink, Retract, Clear, convVars, fileVars
<1> QED
    BY <1>3, <1>4, <1>5, <1>6, <1>7, <1>8 DEF ConvNext, Continue

-----------------------------------------------------------------------------
(* The collection of the worker.                                           *)
CountsInv ==
    /\ day \in Days
    /\ requests \in 0 .. MaxRequests
    /\ onRequest \in 0 .. MaxOnRequest

CollectTypeOK ==
    /\ lib \in Library
    /\ todo \subseteq Projects
    /\ listed \subseteq Sessions \X Projects
    /\ copy \in Copies
    /\ base \in [Sessions -> Texts]
    /\ left \subseteq Sessions

Named(s) == <<s, lib[s].project>>
Packed(s) == copy[Named(s)] # Absent /\ base[s] <= copy[Named(s)]
Awaited(s) ==
    /\ Named(s) \in files /\ base[s] <= text[Named(s)]
    /\ lib[s].project \in todo \/ Named(s) \in listed \/ Packed(s)

(* A conversation of the library that was read, and did not leave, still   *)
(* has its file, in a directory that is still to be listed, in the listing *)
(* that is being read, or read already.                                    *)
CollectInv ==
    \A s \in Sessions \ left : lib[s].project # Null =>
        /\ Busy("worker", "collect") => Awaited(s)
        /\ Busy("worker", "zip") => Packed(s)

LEMMA CountsNext ==
    ASSUME CountsInv, [BackupNext]_backupVars
    PROVE  CountsInv'
<1> USE BackupAssumption
<1>1. CASE UNCHANGED countVars
    BY <1>1 DEF CountsInv, countVars
<1>2. CASE WebCreate
    BY <1>2 DEF WebCreate, CountsInv
<1>3. CASE ConversationStep
  <2>1. /\ UNCHANGED <<day, onRequest>>
        /\ requests' = requests \/ requests' = requests + 1
        /\ requests' <= MaxRequests
    BY <1>3 DEF ConversationStep, CountsInv
  <2> QED
    BY <2>1 DEF CountsInv
<1>4. CASE NextDay
    BY <1>4 DEF NextDay, CountsInv, Days
<1>5. CASE UNCHANGED backupVars
    BY <1>1, <1>5 DEF backupVars
<1>6. CASE WorkerPoll \/ ReadLibrary \/ ListDirectory \/ ReadFile \/ Collected \/ WorkerCrash \/ WebDies
    BY <1>1, <1>6 DEF WorkerPoll, ReadLibrary, ListDirectory, ReadFile, Collected, WorkerCrash, WebDies
<1>7. ASSUME NEW c, Publish(c) \/ Verify(c) \/ ListArchives(c) \/ StatArchives(c) \/ Prune(c)
      PROVE  UNCHANGED countVars
    BY <1>7 DEF Publish, Verify, ListArchives, StatArchives, Prune
<1> QED
    BY <1>1, <1>2, <1>3, <1>4, <1>5, <1>6, <1>7 DEF BackupNext, WorkerNext, WebNext

(* What a step does to the collection.                                     *)
LEMMA CollectSteps ==
    ASSUME NamesInv, [BackupNext]_backupVars
    PROVE  \/ ReadLibrary \/ ListDirectory \/ ReadFile \/ Collected \/ ConversationStep
           \/ Forgotten /\ job'["worker"].step \notin {"collect", "zip"}
           \/ /\ UNCHANGED collectVars
              /\ \/ job'["worker"].step \notin {"collect", "zip"}
                 \/ UNCHANGED fileVars /\ job'["worker"] = job["worker"]
<1>0. /\ job \in [Creators -> Job] /\ "worker" \in Creators /\ "web" \in Creators
      /\ NoJob.step = "idle"
    BY NoJobIs DEF NamesInv, Creators
<1>1. CASE UNCHANGED backupVars
    BY <1>1 DEF backupVars, convVars, archiveVars
<1>2. CASE WorkerPoll
    BY <1>0, <1>2 DEF WorkerPoll, Begin
<1>3. CASE WebCreate
  <2>1. job'["worker"] = job["worker"]
    BY <1>0, <1>3 DEF WebCreate, Begin
  <2> QED
    BY <1>3, <2>1 DEF WebCreate, convVars
<1>4. CASE NextDay
    BY <1>4 DEF NextDay, convVars, archiveVars
<1>5. CASE Publish("worker")
  <2>1. job'["worker"].step \in {"verify", "idle"}
    BY <1>0, <1>5, BecomesIs DEF Publish, Ends
  <2> QED
    BY <1>5, <2>1 DEF Publish, LeavesCollection
<1>6. CASE Verify("worker")
  <2>1. job'["worker"].step \in {"retain", "idle"}
    BY <1>0, <1>6, BecomesIs DEF Verify, Ends
  <2> QED
    BY <1>6, <2>1 DEF Verify
<1>7. CASE Publish("web") \/ Verify("web")
  <2>1. job'["worker"] = job["worker"]
    BY <1>0, <1>7 DEF Publish, Verify, Ends, Becomes
  <2> QED
    BY <1>7, <2>1 DEF Publish, Verify, LeavesCollection, UnchangedButFaults
<1>8. ASSUME NEW c \in Creators, ListArchives(c) \/ StatArchives(c) \/ Prune(c)
      PROVE  /\ UNCHANGED collectVars /\ UNCHANGED fileVars
             /\ \/ job'["worker"].step \notin {"collect", "zip"}
                \/ job'["worker"] = job["worker"]
  <2>1. UNCHANGED collectVars /\ UNCHANGED convVars
    BY <1>8 DEF ListArchives, StatArchives, Prune
  <2>2. /\ job'[c].step \in {"stat", "unlink", "idle"}
        /\ \A d \in Creators \ {c} : job'[d] = job[d]
    BY <1>8, RetainJob
  <2> QED
    BY <1>0, <2>1, <2>2 DEF convVars
<1>9. CASE WorkerCrash
  <2>1. job'["worker"].step = "idle"
    BY <1>0, <1>9 DEF WorkerCrash, Ends
  <2> QED
    BY <1>9, <2>1 DEF WorkerCrash
<1>10. CASE WebDies
  <2>1. job'["worker"] = job["worker"]
    BY <1>0, <1>10 DEF WebDies, Ends
  <2> QED
    BY <1>10, <2>1 DEF WebDies, Crash
<1> QED
    BY <1>0, <1>1, <1>2, <1>3, <1>4, <1>5, <1>6, <1>7, <1>8, <1>9, <1>10
    DEF BackupNext, WorkerNext, WebNext

LEMMA CollectTypes ==
    ASSUME ConvTypeOK, NamesInv, CollectTypeOK, [BackupNext]_backupVars
    PROVE  CollectTypeOK'
<1>1. CASE UNCHANGED collectVars
    BY <1>1 DEF collectVars, CollectTypeOK
<1>2. CASE Forgotten
  <2>1. NoLibrary \in Library /\ NoCopy \in Copies /\ 0 \in Texts
    BY RestingTyped DEF NoLibrary, Library, NoCopy, Copies
  <2> QED
    BY <1>2, <2>1 DEF Forgotten, CollectTypeOK
<1>3. CASE ReadLibrary
  <2>1. [s \in Sessions |-> IF s \in known THEN saved[s] ELSE 0] \in [Sessions -> Texts]
    BY Typed, RestingTyped
  <2> QED
    BY <1>3, <2>1, Typed DEF ReadLibrary, CollectTypeOK
<1>4. CASE ListDirectory
    BY <1>4, Typed DEF ListDirectory, CollectTypeOK
<1>5. CASE ReadFile
  <2>1. PICK f \in listed :
          \/ /\ copy' = [copy EXCEPT ![f] = text[f]]
             /\ listed' = listed \ {f} /\ UNCHANGED <<lib, todo, base, left>>
          \/ Forgotten
    BY <1>5 DEF ReadFile
  <2>2. f \in Sessions \X Projects /\ text[f] \in Texts /\ copy \in Copies
    BY Typed DEF CollectTypeOK
  <2>3. [copy EXCEPT ![f] = text[f]] \in Copies
    BY <2>2 DEF Copies
  <2> QED
    BY <1>2, <2>1, <2>3 DEF CollectTypeOK
<1>6. CASE Collected
    BY <1>1, <1>6 DEF Collected
<1>7. CASE ConversationStep
    BY <1>7 DEF ConversationStep, CollectTypeOK
<1> QED
    BY <1>1, <1>2, <1>3, <1>4, <1>5, <1>6, <1>7, CollectSteps

LEMMA CollectNext ==
    ASSUME ~LateFailures, BesideInv, KeptInv, NamesInv, CollectTypeOK, CollectInv,
           [BackupNext]_backupVars
    PROVE  CollectInv'
<1>0. /\ ConvTypeOK /\ job \in [Creators -> Job] /\ "worker" \in Creators
      /\ text \in [Sessions \X Projects -> Texts]
    BY Typed DEF BesideInv, ConvInv, NamesInv, Creators
<1>1. CASE job'["worker"].step \notin {"collect", "zip"}
    BY <1>1 DEF CollectInv, Busy
<1>2. CASE UNCHANGED collectVars /\ UNCHANGED fileVars /\ job'["worker"] = job["worker"]
    BY <1>2 DEF collectVars, fileVars, CollectInv, Busy, Awaited, Packed, Named
<1>3. CASE ReadLibrary
  <2>1. /\ lib' = disk /\ todo' = Projects /\ UNCHANGED fileVars
        /\ base' = [s \in Sessions |-> IF s \in known THEN saved[s] ELSE 0]
        /\ left' = {s \in Sessions : Leaving(s)}
        /\ job'["worker"].step = "collect"
    BY <1>0, <1>3, BecomesIs DEF ReadLibrary, convVars
  <2>2. ASSUME NEW s \in Sessions \ left', lib'[s].project # Null PROVE Awaited(s)'
    <3>1. disk[s].project \in Projects
      BY <2>1, <2>2, <1>0, Typed DEF Record
    <3>2. <<s, disk[s].project>> \in files /\ base'[s] <= text[<<s, disk[s].project>>]
      <4>1. CASE s \in known
        <5>1. Present(s) /\ saved[s] <= text[<<s, Where(s)>>]
          BY <4>1 DEF KeptInv, Kept
        <5>2. disk[s] = mem[s]
          BY <5>1, RestingTyped DEF KeptInv, DiskInv, Present, Enrolled, Where
        <5> QED
          BY <2>1, <4>1, <5>1, <5>2 DEF Present, Where
      <4>2. CASE s \notin known
        <5>1. <<s, disk[s].project>> \in files
          BY <2>1, <2>2, <4>2 DEF Leaving
        <5>2. text[<<s, disk[s].project>>] \in Texts
          BY <1>0, <3>1
        <5> QED
          BY <2>1, <4>2, <5>1, <5>2 DEF Texts
      <4> QED
        BY <4>1, <4>2
    <3> QED
      BY <2>1, <3>1, <3>2 DEF Awaited, Named, fileVars
  <2> QED
    BY <2>1, <2>2 DEF CollectInv, Busy
<1>4. CASE ListDirectory
  <2>1. PICK p \in todo : todo' = todo \ {p} /\ listed' = {f \in files : f[2] = p}
    BY <1>4 DEF ListDirectory
  <2>2. /\ UNCHANGED <<files, text, job, lib, copy, base, left>>
        /\ listed = {} /\ Busy("worker", "collect")
    BY <1>4 DEF ListDirectory, convVars, fileVars, archiveVars
  <2>3. ASSUME NEW s \in Sessions, Awaited(s) PROVE Awaited(s)'
    <3>1. Named(s)' = Named(s) /\ Packed(s)' = Packed(s)
      BY <2>2 DEF Named, Packed
    <3>2. lib[s].project = p => Named(s) \in listed'
      BY <2>1, <2>3 DEF Awaited, Named
    <3> QED
      BY <2>1, <2>2, <2>3, <3>1, <3>2 DEF Awaited
  <2> QED
    BY <2>2, <2>3 DEF CollectInv, Busy
<1>5. CASE ReadFile
  <2>1. CASE Ends("worker")
    BY <1>0, <1>1, <2>1, NoJobIs DEF Ends
  <2>2. ASSUME NEW f \in listed, f \in files, copy' = [copy EXCEPT ![f] = text[f]],
               listed' = listed \ {f}, UNCHANGED <<job, lib, todo, base, left>>
        PROVE  CollectInv'
    <3>1. /\ UNCHANGED <<files, text>> /\ Busy("worker", "collect")
          /\ f \in Sessions \X Projects /\ copy \in Copies
      BY <1>5 DEF ReadFile, convVars, fileVars, CollectTypeOK
    <3>2. text[f] \in Texts /\ text[f] # Absent
      BY <1>0, <3>1, ConversationsAssumption DEF Texts, Absent
    <3>3. copy'[f] = text[f] /\ \A g \in Sessions \X Projects : g # f => copy'[g] = copy[g]
      BY <2>2, <3>1 DEF Copies
    <3>4. ASSUME NEW s \in Sessions, Awaited(s) PROVE Awaited(s)'
      <4>1. Named(s)' = Named(s) /\ Named(s) \in Sessions \X Projects
        BY <1>0, <2>2, <3>4, Typed DEF Named, Awaited
      <4>2. CASE Named(s) = f
        BY <2>2, <3>1, <3>2, <3>3, <3>4, <4>1, <4>2 DEF Awaited, Packed
      <4>3. CASE Named(s) # f
        BY <2>2, <3>1, <3>3, <3>4, <4>1, <4>3 DEF Awaited, Packed
      <4> QED
        BY <4>2, <4>3
    <3> QED
      BY <2>2, <3>1, <3>4 DEF CollectInv, Busy
  <2> QED
    BY <1>5, <2>1, <2>2 DEF ReadFile
<1>6. CASE Collected
  <2>1. /\ UNCHANGED <<files, text, lib, copy, base, left>>
        /\ todo = {} /\ listed = {} /\ Busy("worker", "collect")
        /\ job'["worker"].step = "zip"
    BY <1>0, <1>6, BecomesIs DEF Collected, convVars, fileVars, collectVars
  <2> QED
    BY <2>1 DEF CollectInv, Busy, Awaited, Packed, Named
<1>7. CASE ConversationStep
  <2>1. /\ UNCHANGED <<job, lib, todo, listed, copy, base>> /\ ConvNext
        /\ left' = IF job["worker"].step \in {"collect", "zip"}
                   THEN left \cup {s \in Sessions : FileRemoved(s)} ELSE {}
    BY <1>7 DEF ConversationStep, archiveVars
  <2>2. CASE job["worker"].step \notin {"collect", "zip"}
    BY <1>1, <2>1, <2>2
  <2>3. CASE job["worker"].step \in {"collect", "zip"}
    <3>1. ASSUME NEW s \in Sessions, ~FileRemoved(s), lib[s].project # Null, Awaited(s)
          PROVE  Awaited(s)'
      <4>1. lib[s].project \in Projects /\ Named(s) \in files
        BY <3>1 DEF CollectTypeOK, Library, Record, Awaited
      <4>2. Named(s) \in files'
        BY <3>1, <4>1 DEF FileRemoved, Named
      <4>3. text'[Named(s)] \in Nat /\ text[Named(s)] <= text'[Named(s)]
        BY <2>1, <4>1, FileKeepsMessages DEF BesideInv, Named
      <4>4. text[Named(s)] \in Nat /\ base[s] \in Nat
        BY <1>0, <4>1 DEF CollectTypeOK, Texts, Named
      <4>5. base[s] <= text'[Named(s)]
        BY <3>1, <4>3, <4>4 DEF Awaited
      <4>6. Named(s)' = Named(s) /\ Packed(s)' = Packed(s)
        BY <2>1 DEF Named, Packed
      <4> QED
        BY <2>1, <3>1, <4>2, <4>5, <4>6 DEF Awaited
    <3>2. \A s : Packed(s)' = Packed(s)
      BY <2>1 DEF Packed, Named
    <3>3. \A s \in Sessions \ left' : s \notin left /\ ~FileRemoved(s)
      BY <2>1, <2>3
    <3> QED
      BY <2>1, <3>1, <3>2, <3>3 DEF CollectInv, Busy
  <2> QED
    BY <2>2, <2>3
<1> QED
    BY <1>1, <1>2, <1>3, <1>4, <1>5, <1>6, <1>7, CollectSteps

-----------------------------------------------------------------------------
BackupInv == BesideInv /\ NamesInv /\ CountsInv /\ CollectTypeOK

LEMMA BackupInitInv ==
    ASSUME BackupInit
    PROVE  BackupInv /\ KeptInv /\ CollectInv /\ StandingInv
<1> USE DEF BackupInit
<1>1. BesideInv /\ KeptInv
  <2>1. ConvInv /\ KeptInv
    BY ConvInitInv
  <2>2. CutCounted /\ FillInv
    BY RestingTyped DEF ConvInit, CutCounted, FillInv, At
  <2> QED
    BY <2>1, <2>2 DEF BesideInv
<1>2. job \in [Creators -> Job] /\ \A c \in Creators : job[c] = NoJob
    BY NoJobIs
<1>3. NamesInv
  <2>1. \A n \in InUse : n = 0
    BY <1>2, NoJobIs DEF InUse, NoName
  <2>2. \E k \in Nat : \A n \in InUse : n <= k
    BY <2>1
  <2>3. IsFiniteSet(archives)
    BY FS_EmptySet
  <2> QED
    BY <1>2, <2>2, <2>3, NoJobIs DEF NamesInv, Unpublished
<1>4. CountsInv
    BY BackupAssumption DEF CountsInv, Days
<1>5. CollectTypeOK
    BY RestingTyped DEF CollectTypeOK, NoLibrary, Library, NoCopy, Copies
<1>6. CollectInv /\ StandingInv
    BY <1>2, NoJobIs DEF CollectInv, StandingInv, Doomed, Busy, Creators
<1> QED
    BY <1>1, <1>3, <1>4, <1>5, <1>6 DEF BackupInv

LEMMA BackupNextInv ==
    ASSUME BackupInv, [BackupNext]_backupVars
    PROVE  BackupInv'
    BY BesideNext, NamesNext, CountsNext, CollectTypes
    DEF BackupInv, BesideInv, ConvInv, CountsInv

LEMMA BackupInvTypes == BackupInv => BackupTypeOK
    BY DEF BackupInv, NamesInv, CountsInv, CollectTypeOK, BackupTypeOK

(* Archives, jobs and what the worker collects are what they are said to   *)
(* be: an archive's name is one that a creation took (backup_store.py).    *)
THEOREM BackupTypes == BackupSpec => []BackupTypeOK
<1>1. BackupInit => BackupInv
    BY BackupInitInv
<1>2. BackupInv /\ [BackupNext]_backupVars => BackupInv'
    BY BackupNextInv
<1>3. BackupInv => BackupTypeOK
    BY BackupInvTypes
<1> QED
    BY <1>1, <1>2, <1>3, PTL DEF BackupSpec

(* _collect misses no conversation of the library it read, and no message  *)
(* of it that a writer relied on then, although nothing is locked while    *)
(* the web process goes on; as long as no directory sync fails late.       *)
THEOREM NothingMissedAlways ==
    ASSUME ~LateFailures
    PROVE  BackupSpec => []NothingMissed
<1> DEFINE Inv == BackupInv /\ KeptInv /\ CollectInv
<1>1. BackupInit => Inv
    BY BackupInitInv
<1>2. Inv /\ [BackupNext]_backupVars => Inv'
    BY BackupNextInv, KeptBeside, CollectNext DEF BackupInv
<1>3. Inv => NothingMissed
  <2> SUFFICES ASSUME Inv PROVE NothingMissed
    OBVIOUS
  <2>1. BackupTypeOK
    BY BackupInvTypes
  <2>2. ASSUME Busy("worker", "zip"), NEW s \in Sessions \ left, lib[s].project # Null
        PROVE  /\ copy[<<s, lib[s].project>>] # Absent
               /\ copy[<<s, lib[s].project>>] >= base[s]
    <3>1. Packed(s) /\ Named(s) \in Sessions \X Projects
      BY <2>2 DEF CollectInv, BackupInv, CollectTypeOK, Library, Record, Named
    <3>2. copy[Named(s)] \in Texts \cup {Absent} /\ base[s] \in Texts
      BY <3>1, <2>2 DEF BackupInv, CollectTypeOK, Copies
    <3>3. copy[Named(s)] \in Nat /\ base[s] \in Nat
      BY <3>2, ConversationsAssumption DEF Texts, Absent
    <3> QED
      BY <3>1, <3>3 DEF Packed, Named
  <2> QED
    BY <2>1, <2>2 DEF NothingMissed
<1> QED
    BY <1>1, <1>2, <1>3, PTL DEF BackupSpec

(* Where at least two archives are retained, the last one that nobody may  *)
(* still withdraw survives failed verifications (create_workspace_backup)  *)
(* and two processes that prune at once (apply_retention).                 *)
THEOREM LastGoodKeptAlways ==
    ASSUME Retain >= 2
    PROVE  BackupSpec => LastGoodKept
<1> DEFINE Inv == BackupInv /\ StandingInv
<1>1. BackupInit => Inv
    BY BackupInitInv
<1>2. Inv /\ [BackupNext]_backupVars => Inv' /\ (Standing # {} => Standing' # {})
    BY BackupNextInv, StandingNext DEF BackupInv
<1>3. Inv /\ [BackupNext]_backupVars => [Standing # {} => Standing' # {}]_backupVars
    BY <1>2
<1> QED
    BY <1>1, <1>2, <1>3, PTL DEF BackupSpec, LastGoodKept
===============================================================================
