------------------------------- MODULE XorbStore ------------------------------
(***************************************************************************)
(* Writing an object so that it survives power loss (xorbstore.rs,         *)
(* write_atomic), followed by the insert of its record.  The object of h   *)
(* lives at root/Top/Leaf/h.  A file system shows every process what it    *)
(* did at once, and keeps it through a power loss only from the fsync of   *)
(* the directory that holds the entry (for a file's bytes: of the file).   *)
(* Writers of different hashes run concurrently: the lock is per hash.     *)
(*                                                                         *)
(* The root and SQLite's file are durable from the start: SQLite syncs the *)
(* directory that both live in.  A SQLite commit is durable                *)
(* (synchronous = FULL).  Mut_X is X with a plausible bug in it.           *)
(***************************************************************************)
EXTENDS Naturals, FiniteSets

CONSTANTS Writers,    \* write_atomic calls in flight
          Objects,    \* xorb hashes
          Tops,       \* <h0..2> directories
          Leaves,     \* <h2..4> directories
          TopOf,      \* TopOf[l]: the directory that holds leaf l
          LeafOf,     \* LeafOf[h]: the directory that holds object h
          None

ASSUME TreeAssumption ==
    /\ TopOf \in [Leaves -> Tops]
    /\ LeafOf \in [Objects -> Leaves]
ASSUME NamesDistinct ==
    /\ Tops \cap Leaves = {} /\ Tops \cap Objects = {} /\ Leaves \cap Objects = {}
    /\ None \notin Objects

VARIABLES
    pc,         \* pc[w]: where writer w is
    obj,        \* obj[w]: the object it writes
    fresh,      \* fresh[w]: directories whose entry it still has to make durable
    staged,     \* staged[w]: its temporary file: "none", "cached", "stable"
    visible,    \* entries that processes see
    durable,    \* entries that an fsync made durable
    content,    \* content[h]: the bytes under the final name
    indexed,    \* hashes with a record
    overlooked  \* auxiliary: directories that a writer took for durable when
                \* they were not

writerVars == <<pc, obj, fresh, staged>>
fsVars == <<visible, durable, content>>
vars == <<writerVars, fsVars, indexed, overlooked>>

Entries == Tops \cup Leaves \cup Objects
Leaf(w) == LeafOf[obj[w]]
Top(w) == TopOf[Leaf(w)]
PathOf(h) == {TopOf[LeafOf[h]], LeafOf[h]}

TypeOK ==
    /\ pc \in [Writers -> {"idle", "scan", "scanTop", "mkdir", "sync", "stage",
                           "rename", "syncLeaf", "commit"}]
    /\ obj \in [Writers -> Objects \cup {None}]
    /\ fresh \in [Writers -> SUBSET (Tops \cup Leaves)]
    /\ staged \in [Writers -> {"none", "cached", "stable"}]
    /\ visible \in SUBSET Entries
    /\ durable \in SUBSET Entries
    /\ content \in [Objects -> {"none", "cached", "stable", "torn"}]
    /\ indexed \in SUBSET Objects
    /\ overlooked \in SUBSET (Tops \cup Leaves)

Init ==
    /\ pc = [w \in Writers |-> "idle"]
    /\ obj = [w \in Writers |-> None]
    /\ fresh = [w \in Writers |-> {}]
    /\ staged = [w \in Writers |-> "none"]
    /\ visible = {}
    /\ durable = {}
    /\ content = [h \in Objects |-> "none"]
    /\ indexed = {}
    /\ overlooked = {}

Step(w, from, to) ==
    /\ pc[w] = from
    /\ pc' = [pc EXCEPT ![w] = to]

\* A writer sees that directory d exists and takes its entry for durable.
Trust(d) == overlooked' = overlooked \cup ({d} \ durable)

-------------------------------------------------------------------------------
\* upload found no record of h.
Start(w, h) ==
    /\ Step(w, "idle", "scan")
    /\ h \notin indexed
    /\ obj' = [obj EXCEPT ![w] = h]
    /\ UNCHANGED <<fresh, staged, fsVars, indexed, overlooked>>

\* missing_ancestors looks from the leaf upwards for a directory that exists.
ScanLeaf(w) ==
    /\ pc[w] = "scan"
    /\ IF Leaf(w) \in visible
         THEN Step(w, "scan", "mkdir") /\ Trust(Leaf(w)) /\ UNCHANGED fresh
         ELSE /\ Step(w, "scan", "scanTop")
              /\ fresh' = [fresh EXCEPT ![w] = {Leaf(w)}]
              /\ UNCHANGED overlooked
    /\ UNCHANGED <<obj, staged, fsVars, indexed>>

ScanTop(w) ==
    /\ Step(w, "scanTop", "mkdir")
    /\ IF Top(w) \in visible
         THEN Trust(Top(w)) /\ UNCHANGED fresh
         ELSE /\ fresh' = [fresh EXCEPT ![w] = @ \cup {Top(w)}]
              /\ UNCHANGED overlooked
    /\ UNCHANGED <<obj, staged, fsVars, indexed>>

\* create_dir_all: one mkdir at a time; a directory that another writer made
\* meanwhile is no error.
MakeTop(w) ==
    /\ pc[w] = "mkdir" /\ Top(w) \notin visible
    /\ visible' = visible \cup {Top(w)}
    /\ UNCHANGED <<writerVars, durable, content, indexed, overlooked>>

MakeLeaf(w) ==
    /\ pc[w] = "mkdir" /\ Top(w) \in visible /\ Leaf(w) \notin visible
    /\ visible' = visible \cup {Leaf(w)}
    /\ UNCHANGED <<writerVars, durable, content, indexed, overlooked>>

ParentExists(w) ==
    /\ Step(w, "mkdir", "sync")
    /\ Leaf(w) \in visible
    /\ UNCHANGED <<obj, fresh, staged, fsVars, indexed, overlooked>>

\* fsync of the root, of a top directory, of a leaf directory.
SyncRoot == durable' = durable \cup (visible \cap Tops)
SyncTopDir(t) == durable' = durable \cup {l \in visible \cap Leaves : TopOf[l] = t}
SyncLeafDir(l) == durable' = durable \cup {h \in visible \cap Objects : LeafOf[h] = l}

\* The parents of the directories it created, shallowest first.
Mut_SyncFreshTop(w) ==
    /\ pc[w] = "sync" /\ Top(w) \in fresh[w]
    /\ fresh' = [fresh EXCEPT ![w] = @ \ {Top(w)}]
    /\ UNCHANGED <<pc, obj, staged, fsVars, indexed, overlooked>>

SyncFreshTop(w) ==
    /\ pc[w] = "sync" /\ Top(w) \in fresh[w]
    /\ fresh' = [fresh EXCEPT ![w] = @ \ {Top(w)}]
    /\ SyncRoot
    /\ UNCHANGED <<pc, obj, staged, visible, content, indexed, overlooked>>

\* Not the shallowest first.
Mut_SyncFreshLeaf(w) ==
    /\ pc[w] = "sync" /\ Leaf(w) \in fresh[w]
    /\ fresh' = [fresh EXCEPT ![w] = @ \ {Leaf(w)}]
    /\ SyncTopDir(Top(w))
    /\ UNCHANGED <<pc, obj, staged, visible, content, indexed, overlooked>>

SyncFreshLeaf(w) ==
    /\ pc[w] = "sync" /\ Top(w) \notin fresh[w] /\ Leaf(w) \in fresh[w]
    /\ fresh' = [fresh EXCEPT ![w] = @ \ {Leaf(w)}]
    /\ SyncTopDir(Top(w))
    /\ UNCHANGED <<pc, obj, staged, visible, content, indexed, overlooked>>

\* The temporary file is written ...
WriteTemp(w) ==
    /\ Step(w, "sync", "stage")
    /\ fresh[w] = {}
    /\ staged' = [staged EXCEPT ![w] = "cached"]
    /\ UNCHANGED <<obj, fresh, fsVars, indexed, overlooked>>

\* ... its bytes flushed (the mutant does not) ...
Mut_SyncTemp(w) ==
    /\ Step(w, "stage", "rename")
    /\ UNCHANGED <<obj, fresh, staged, fsVars, indexed, overlooked>>

SyncTemp(w) ==
    /\ Step(w, "stage", "rename")
    /\ staged' = [staged EXCEPT ![w] = "stable"]
    /\ UNCHANGED <<obj, fresh, fsVars, indexed, overlooked>>

\* ... and it takes its final name, replacing an object already there.
Rename(w) ==
    /\ Step(w, "rename", "syncLeaf")
    /\ visible' = visible \cup {obj[w]}
    /\ content' = [content EXCEPT ![obj[w]] = staged[w]]
    /\ staged' = [staged EXCEPT ![w] = "none"]
    /\ UNCHANGED <<obj, fresh, durable, indexed, overlooked>>

Mut_SyncLeaf(w) ==
    /\ Step(w, "syncLeaf", "commit")
    /\ UNCHANGED <<obj, fresh, staged, fsVars, indexed, overlooked>>

SyncLeaf(w) ==
    /\ Step(w, "syncLeaf", "commit")
    /\ SyncLeafDir(Leaf(w))
    /\ UNCHANGED <<obj, fresh, staged, visible, content, indexed, overlooked>>

\* put_xorb commits; the upload answers 200.
Commit(w) ==
    /\ Step(w, "commit", "idle")
    /\ indexed' = indexed \cup {obj[w]}
    /\ UNCHANGED <<obj, fresh, staged, fsVars, overlooked>>

Forget(W) ==
    /\ pc' = [w \in Writers |-> IF w \in W THEN "idle" ELSE pc[w]]
    /\ fresh' = [w \in Writers |-> IF w \in W THEN {} ELSE fresh[w]]
    /\ staged' = [w \in Writers |-> IF w \in W THEN "none" ELSE staged[w]]
    /\ UNCHANGED obj

\* Any system call of the writer, or its commit, fails.
Fail(w) ==
    /\ pc[w] # "idle"
    /\ Forget({w})
    /\ UNCHANGED <<fsVars, indexed, overlooked>>

-------------------------------------------------------------------------------
(* The environment.                                                        *)

\* The process dies; the file system does not.
Kill ==
    /\ \E w \in Writers : pc[w] # "idle"
    /\ Forget(Writers)
    /\ UNCHANGED <<fsVars, indexed, overlooked>>

\* What is reachable from the root through the entries in S.
Reachable(S) ==
    {t \in Tops : t \in S}
    \cup {l \in Leaves : {l, TopOf[l]} \subseteq S}
    \cup {h \in Objects : {h} \cup PathOf(h) \subseteq S}

\* The machine loses power: durable entries survive, others may; bytes that
\* were not flushed are lost.
PowerLoss ==
    /\ Forget(Writers)
    /\ \E S \in SUBSET visible :
          /\ durable \cap visible \subseteq S
          /\ visible' = Reachable(S)
          /\ durable' = Reachable(S)
    /\ content' = [h \in Objects |->
                      IF h \notin visible' THEN "none"
                      ELSE IF content[h] = "cached" THEN "torn" ELSE content[h]]
    /\ UNCHANGED <<indexed, overlooked>>

Next ==
    \/ Kill \/ PowerLoss
    \/ \E w \in Writers :
          \/ \E h \in Objects : Start(w, h)
          \/ ScanLeaf(w) \/ ScanTop(w) \/ MakeTop(w) \/ MakeLeaf(w)
          \/ ParentExists(w) \/ SyncFreshTop(w) \/ SyncFreshLeaf(w)
          \/ WriteTemp(w) \/ SyncTemp(w) \/ Rename(w) \/ SyncLeaf(w)
          \/ Commit(w) \/ Fail(w)

Spec == Init /\ [][Next]_vars

-------------------------------------------------------------------------------
\* xorbstore.rs:87-92: "a xorb the server has already acknowledged with a 200
\* survives power loss".
AcknowledgedSurvives == indexed \subseteq visible

\* The same for a xorb in whose path no writer ever took a directory for
\* durable that was not: whatever fails, dies or loses power.
WatchedSurvives ==
    \A h \in indexed : PathOf(h) \cap overlooked = {} => h \in visible

\* Under its final name an object is complete or absent, also after a power
\* loss at any step of its writer: readers never see part of it.
NoTornObject ==
    /\ \A h \in Objects : content[h] # "torn"
    /\ \A h \in visible \cap Objects : content[h] # "none"

\* What an fsync made durable is never lost again, through kills, failures and
\* power losses, unless the way to it was overlooked.
NothingDurableIsLost ==
    [][\A h \in durable \cap Objects :
          PathOf(h) \cap overlooked = {} => h \in durable']_vars

-------------------------------------------------------------------------------
(* The inductive invariant.                                                *)

\* A directory is durable, or somebody took it for durable.
Settled(d) == d \in durable \cup overlooked

\* "A child entry is only meaningful once its parent's entry is durable."
ParentsFirst ==
    /\ \A l \in durable \cap Leaves : Settled(TopOf[l])
    /\ \A h \in durable \cap Objects : Settled(LeafOf[h])

Scanned(w) == pc[w] \notin {"idle", "scan", "scanTop"}
NothingToSync(w) == pc[w] \notin {"scanTop", "mkdir", "sync"}

\* What a writer does not sync itself is settled.
WriterSyncs ==
    \A w \in Writers :
        /\ pc[w] # "idle" => obj[w] \in Objects
        /\ pc[w] = "scanTop" => fresh[w] = {Leaf(w)}
        /\ NothingToSync(w) => fresh[w] = {}
        /\ Scanned(w) =>
              IF Leaf(w) \in fresh[w] THEN Top(w) \in fresh[w] \/ Settled(Top(w))
                                      ELSE Settled(Leaf(w))

\* What a writer has done shows, in the volatile view and on the disk.
WriterProgress ==
    \A w \in Writers :
        /\ pc[w] = "sync" => {Leaf(w), Top(w)} \subseteq visible
        /\ pc[w] = "rename" => staged[w] = "stable"
        /\ pc[w] = "syncLeaf" => obj[w] \in visible
        /\ pc[w] = "commit" => obj[w] \in durable

IndexedDurable ==
    \A h \in indexed : PathOf(h) \cap overlooked = {} => h \in durable

\* Nothing takes its final name before its bytes are flushed.
ContentFlushed == \A h \in Objects : content[h] \in {"none", "stable"}

\* What the disk and the index show, whoever writes.
DiskOK ==
    /\ durable \subseteq visible
    /\ \A l \in visible \cap Leaves : TopOf[l] \in visible
    /\ ParentsFirst /\ IndexedDurable /\ ContentFlushed /\ NoTornObject

IInv == TypeOK /\ DiskOK /\ WriterSyncs /\ WriterProgress

-------------------------------------------------------------------------------
\* Call by call, write_atomic does what StoredXorbs and so XorbUpload take for
\* one step: an object appears whole with the rename, and what has a record is
\* there after any number of kills and power losses, unless its path was
\* overlooked (xorbstore.rs:87-97).
Store == INSTANCE StoredXorbs WITH
             stored <- {h \in visible \cap Objects : content[h] = "stable"},
             atRisk <- {h \in Objects : PathOf(h) \cap overlooked # {}}
ImplementsStoredXorbs == Store!StoredSpec
===============================================================================
