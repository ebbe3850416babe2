------------------------------ MODULE Manuscript ------------------------------
(***************************************************************************)
(* The outline of a project's manuscript (manuscript_store.py) and its     *)
(* immutable checkpoints (snapshot_store.py), with their handlers in       *)
(* adapter.py.                                                             *)
(*                                                                         *)
(* Both stores keep their whole state in memory, change it there first and *)
(* then replace one file.  A handler has no await, so none comes between;  *)
(* but a write may fail, which leaves memory ahead of the disk until the   *)
(* next write or start, and the process may be replaced.                   *)
(*                                                                         *)
(* A node is its parent and its place among its siblings.  Kind, title,    *)
(* status and linked artifact are rewritten by update and decide nothing.  *)
(* Of what a checkpoint captures, only the outline is kept.                *)
(***************************************************************************)
EXTENDS Integers, FiniteSets, Sequences

CONSTANTS
    Nodes,      \* node ids
    Top,        \* parent of the nodes without a parent
    Snapshots,  \* checkpoint ids
    MaxFailures \* bound: failed writes and restarts

ASSUME ManuscriptAssumption ==
    /\ Top \notin Nodes
    /\ MaxFailures \in Nat

VARIABLES
    outline,    \* the nodes in memory: parent and position of each
    disk,       \* manuscript.json
    listed,     \* the snapshot index in memory: what each checkpoint captured
    indexed,    \* its file
    captured,   \* content files: the outline in each
    told,       \* checkpoints a writer was told are taken
    failures    \* failures so far

outlineVars  == <<outline, disk>>
snapshotVars == <<listed, indexed, captured, told>>
manuscriptVars == <<outlineVars, snapshotVars, failures>>

-----------------------------------------------------------------------------
Places == [parent : Nodes \cup {Top}, position : Nat]
Outlines == UNION {[S -> Places] : S \in SUBSET Nodes}
IsOutline(o) ==
    /\ DOMAIN o \subseteq Nodes
    /\ \A n \in DOMAIN o : o[n] \in Places

Children(o, p) == {n \in DOMAIN o : o[n].parent = p}

(* The node and everything under it.                                       *)
Under(o, n) ==
    {m \in DOMAIN o : \A S \in SUBSET DOMAIN o :
        (n \in S /\ \A k \in DOMAIN o : o[k].parent \in S => k \in S) => m \in S}

ManuscriptTypeOK ==
    /\ IsOutline(outline) /\ IsOutline(disk)
    /\ \A index \in {listed, indexed, captured} :
          DOMAIN index \subseteq Snapshots /\ \A s \in DOMAIN index : IsOutline(index[s])
    /\ told \subseteq Snapshots
    /\ failures \in 0 .. MaxFailures

Nothing == [n \in {} |-> Top]

ManuscriptInit ==
    /\ outline = Nothing /\ disk = Nothing
    /\ listed = Nothing /\ indexed = Nothing /\ captured = Nothing
    /\ told = {}
    /\ failures = 0

-----------------------------------------------------------------------------
Failure == failures < MaxFailures /\ failures' = failures + 1

(* ManuscriptStore._save after the change in memory: the file is replaced, *)
(* or the write fails and the change stays where it is.                    *)
SaveOutline(o) ==
    /\ outline' = o
    /\ \/ disk' = o /\ UNCHANGED failures
       \/ Failure /\ UNCHANGED disk
    /\ UNCHANGED snapshotVars

(* How many of these nodes stand before this one.                          *)
Rank(o, n, others) == Cardinality({k \in others : o[k].position < o[n].position})

(* _renumber for the children of one parent, without one of them and with  *)
(* a gap at one place.                                                     *)
Renumbered(o, m, without, gap) ==
    LET rank == Rank(o, m, Children(o, o[m].parent) \ {without})
    IN  [o[m] EXCEPT !.position = IF rank >= gap THEN rank + 1 ELSE rank]
NoGap(o) == Cardinality(DOMAIN o)

(* create: the last child of a parent that exists.                         *)
Created(o, n, p) ==
    [m \in DOMAIN o \cup {n} |->
        IF m = n THEN [parent |-> p, position |-> Cardinality(Children(o, p))] ELSE o[m]]

CreateNode(n, p) ==
    /\ n \notin DOMAIN outline
    /\ p \in DOMAIN outline \cup {Top}
    /\ SaveOutline(Created(outline, n, p))

(* update: nothing of the outline, but all of it is written again.         *)
UpdateNode(n) ==
    /\ n \in DOMAIN outline
    /\ SaveOutline(outline)

(* Mutant: only the node itself is refused as its parent.                  *)
MayMoveBelow(n, p) == n \in DOMAIN outline /\ p \in (DOMAIN outline \cup {Top}) \ {n}

(* A node moves below any node that is not under it.                       *)
MayMove(n, p) ==
    /\ n \in DOMAIN outline
    /\ p \in DOMAIN outline \cup {Top}
    /\ p \notin Under(outline, n)

(* Mutant: the node changes places with the one that is there.             *)
MovedExchanging(o, n, p, i) ==
    LET others == Children(o, p) \ {n}
        place == IF i <= Cardinality(others) THEN i ELSE Cardinality(others)
    IN  [m \in DOMAIN o |->
            IF m = n THEN [parent |-> p, position |-> place]
            ELSE IF o[m].parent = p /\ o[m].position = place
            THEN [o[m] EXCEPT !.position =
                     IF o[n].parent = p THEN o[n].position ELSE Cardinality(others)]
            ELSE IF o[m].parent = o[n].parent /\ p # o[n].parent
            THEN Renumbered(o, m, n, NoGap(o))
            ELSE o[m]]

(* move: out of the old siblings, into the new ones at the place asked     *)
(* for or at their end; both are numbered again.                           *)
Moved(o, n, p, i) ==
    LET others == Children(o, p) \ {n}
        place == IF i <= Cardinality(others) THEN i ELSE Cardinality(others)
    IN  [m \in DOMAIN o |->
            IF m = n THEN [parent |-> p, position |-> place]
            ELSE IF o[m].parent = p THEN Renumbered(o, m, n, place)
            ELSE IF o[m].parent = o[n].parent THEN Renumbered(o, m, n, NoGap(o))
            ELSE o[m]]

MoveNode(n, p, i) ==
    /\ MayMove(n, p)
    /\ SaveOutline(Moved(outline, n, p, i))

(* delete: only a node without children; its siblings close up.            *)
Deleted(o, n) ==
    [m \in DOMAIN o \ {n} |->
        IF o[m].parent = o[n].parent THEN Renumbered(o, m, n, NoGap(o)) ELSE o[m]]

DeleteNode(n) ==
    /\ n \in DOMAIN outline
    /\ Children(outline, n) = {}
    /\ SaveOutline(Deleted(outline, n))

-----------------------------------------------------------------------------
(* create of the snapshot store: the content file, the index in memory,    *)
(* the index file; either write may fail.                                  *)
Added(index, s) == [x \in DOMAIN index \cup {s} |-> IF x = s THEN outline ELSE index[x]]

(* Mutant: the index names a checkpoint whose content is not written yet.  *)
SnapshotIndexFirst(s) ==
    /\ s \notin DOMAIN captured /\ s \notin DOMAIN listed
    /\ listed' = Added(listed, s) /\ indexed' = listed'
    /\ \/ captured' = Added(captured, s) /\ told' = told \cup {s} /\ UNCHANGED failures
       \/ Failure /\ UNCHANGED <<captured, told>>
    /\ UNCHANGED outlineVars

TakeSnapshot(s) ==
    /\ s \notin DOMAIN captured /\ s \notin DOMAIN listed
    /\ \/ Failure /\ UNCHANGED snapshotVars
       \/ /\ captured' = Added(captured, s)
          /\ listed' = Added(listed, s)
          /\ \/ indexed' = listed' /\ told' = told \cup {s} /\ UNCHANGED failures
             \/ Failure /\ UNCHANGED <<indexed, told>>
    /\ UNCHANGED outlineVars

(* The process is replaced: both stores are read from their files.         *)
Restart ==
    /\ Failure
    /\ outline' = disk
    /\ listed' = indexed
    /\ UNCHANGED <<disk, indexed, captured, told>>

Edit ==
    \E n \in Nodes :
        \/ UpdateNode(n) \/ DeleteNode(n)
        \/ \E p \in Nodes \cup {Top} :
              \/ CreateNode(n, p)
              \/ \E i \in 0 .. Cardinality(Nodes) : MoveNode(n, p, i)

ManuscriptNext == Edit \/ (\E s \in Snapshots : TakeSnapshot(s)) \/ Restart

ManuscriptSpec == ManuscriptInit /\ [][ManuscriptNext]_manuscriptVars

-----------------------------------------------------------------------------
(* The nodes as a reader meets them: ordered_depth_first, by which the     *)
(* manuscript is compiled.                                                 *)
ChildAt(o, p, i) == CHOOSE n \in Children(o, p) : o[n].position = i

Reading(o) ==
    LET depths == 0 .. Cardinality(DOMAIN o)
        parents == DOMAIN o \cup {Top}
        visit[d \in depths] ==
            [p \in parents |->
                LET walk[i \in 0 .. Cardinality(Children(o, p))] ==
                        IF i = 0 \/ d = 0 THEN <<>>
                        ELSE LET child == ChildAt(o, p, i - 1)
                             IN  walk[i - 1] \o <<child>> \o visit[d - 1][child]
                IN  walk[Cardinality(Children(o, p))]]
    IN  visit[Cardinality(DOMAIN o)][Top]

(* Every node has its parent, no node is under itself, and the children of *)
(* a parent are numbered without gaps or ties.                             *)
ParentsExist(o) == \A n \in DOMAIN o : o[n].parent \in DOMAIN o \cup {Top}
NoCycle(o) == \A S \in SUBSET DOMAIN o : S # {} => \E n \in S : o[n].parent \notin S
Dense(o) ==
    \A p \in DOMAIN o \cup {Top} :
        {o[n].position : n \in Children(o, p)} = 0 .. Cardinality(Children(o, p)) - 1
Sound(o) == ParentsExist(o) /\ NoCycle(o) /\ Dense(o)

(* The outline in memory and the one a start would load are trees with     *)
(* their children in one order, after any edits, failed writes, restarts.  *)
OutlineSound == ManuscriptTypeOK /\ Sound(outline) /\ Sound(disk)

(* A step of the writer takes out, puts in or moves one node with what is  *)
(* under it: everything else is read in the order it was in before.        *)
Without(o, S) == SelectSeq(Reading(o), LAMBDA n : n \notin S)
Subtree(o, n) == IF n \in DOMAIN o THEN Under(o, n) ELSE {}

ReadingOrderKept ==
    [][Restart \/ \E n \in Nodes :
           LET S == Subtree(outline, n) \cup Subtree(outline', n)
           IN  Without(outline, S) = Without(outline', S)]_manuscriptVars

(* A checkpoint the writer was told of stays listed through failed writes  *)
(* and restarts, and every listed one reads back what it captured.         *)
SnapshotsKept ==
    /\ told \subseteq DOMAIN listed \cap DOMAIN indexed
    /\ \A index \in {listed, indexed} : \A s \in DOMAIN index :
          s \in DOMAIN captured /\ captured[s] = index[s]
=============================================================================
