---------------------------- MODULE XorbStoreProofs ---------------------------
(***************************************************************************)
(* Proofs about the durable write of an object, for any number of writers, *)
(* any objects and any layout of the directories.                          *)
(***************************************************************************)
EXTENDS XorbStore, TLAPS

LEMMA InitIInv == Init => IInv
BY DEF Init, IInv, DiskOK, TypeOK, ParentsFirst, Settled, WriterSyncs,
       WriterProgress, IndexedDurable, ContentFlushed, NoTornObject,
       Scanned, NothingToSync

-------------------------------------------------------------------------------
\* A step that leaves the file system and the index alone, and overlooks
\* nothing less.
LEMMA DiskStutter ==
    ASSUME DiskOK, UNCHANGED <<fsVars, indexed>>, overlooked \subseteq overlooked'
    PROVE  DiskOK'
BY DEF DiskOK, fsVars, ParentsFirst, Settled, IndexedDurable, ContentFlushed, NoTornObject

LEMMA StartPreserves ==
    ASSUME IInv, NEW w \in Writers, NEW h \in Objects, Start(w, h)
    PROVE  IInv'
<1>. USE TreeAssumption, NamesDistinct DEF Start, Step, fsVars
<1>1. TypeOK'
  BY DEF IInv, TypeOK
<1>2. DiskOK'
  BY DiskStutter DEF IInv
<1>3. WriterSyncs'
  BY DEF IInv, TypeOK, WriterSyncs, Scanned, NothingToSync, Settled, Leaf, Top
<1>4. WriterProgress'
  BY DEF IInv, TypeOK, WriterProgress, Leaf, Top
<1>5. QED
  BY <1>1, <1>2, <1>3, <1>4 DEF IInv

LEMMA ScanLeafPreserves ==
    ASSUME IInv, NEW w \in Writers, ScanLeaf(w)
    PROVE  IInv'
<1>. USE TreeAssumption, NamesDistinct DEF ScanLeaf, Step, Trust, fsVars
<1>1. TypeOK'
  BY DEF IInv, TypeOK, WriterSyncs, Leaf
<1>2. DiskOK'
  BY DiskStutter DEF IInv
<1>3. WriterSyncs'
  BY DEF IInv, TypeOK, WriterSyncs, Scanned, NothingToSync, Settled, Leaf, Top
<1>4. WriterProgress'
  BY DEF IInv, TypeOK, WriterProgress, Leaf, Top
<1>5. QED
  BY <1>1, <1>2, <1>3, <1>4 DEF IInv

LEMMA ScanTopPreserves ==
    ASSUME IInv, NEW w \in Writers, ScanTop(w)
    PROVE  IInv'
<1>. USE TreeAssumption, NamesDistinct DEF ScanTop, Step, Trust, fsVars
<1>1. TypeOK'
  BY DEF IInv, TypeOK, WriterSyncs, Top, Leaf
<1>2. DiskOK'
  BY DiskStutter DEF IInv
<1>3. WriterSyncs'
  BY DEF IInv, TypeOK, WriterSyncs, Scanned, NothingToSync, Settled, Leaf, Top
<1>4. WriterProgress'
  BY DEF IInv, TypeOK, WriterProgress, Leaf, Top
<1>5. QED
  BY <1>1, <1>2, <1>3, <1>4 DEF IInv

LEMMA MakeTopPreserves ==
    ASSUME IInv, NEW w \in Writers, MakeTop(w)
    PROVE  IInv'
<1>. USE TreeAssumption, NamesDistinct DEF MakeTop, writerVars
<1>1. TypeOK'
  BY DEF IInv, TypeOK, WriterSyncs, Top, Leaf, Entries
<1>2. DiskOK'
  BY DEF IInv, TypeOK, DiskOK, ParentsFirst, Settled, IndexedDurable,
         ContentFlushed, NoTornObject, PathOf, WriterSyncs, Top, Leaf
<1>3. WriterSyncs'
  BY DEF IInv, TypeOK, WriterSyncs, Scanned, NothingToSync, Settled, Leaf, Top
<1>4. WriterProgress'
  BY DEF IInv, TypeOK, WriterProgress, Leaf, Top
<1>5. QED
  BY <1>1, <1>2, <1>3, <1>4 DEF IInv

LEMMA MakeLeafPreserves ==
    ASSUME IInv, NEW w \in Writers, MakeLeaf(w)
    PROVE  IInv'
<1>. USE TreeAssumption, NamesDistinct DEF MakeLeaf, writerVars
<1>1. TypeOK'
  BY DEF IInv, TypeOK, WriterSyncs, Top, Leaf, Entries
<1>2. DiskOK'
  BY DEF IInv, TypeOK, DiskOK, ParentsFirst, Settled, IndexedDurable,
         ContentFlushed, NoTornObject, PathOf, WriterSyncs, Top, Leaf
<1>3. WriterSyncs'
  BY DEF IInv, TypeOK, WriterSyncs, Scanned, NothingToSync, Settled, Leaf, Top
<1>4. WriterProgress'
  BY DEF IInv, TypeOK, WriterProgress, Leaf, Top
<1>5. QED
  BY <1>1, <1>2, <1>3, <1>4 DEF IInv

LEMMA ParentExistsPreserves ==
    ASSUME IInv, NEW w \in Writers, ParentExists(w)
    PROVE  IInv'
<1>. USE TreeAssumption, NamesDistinct DEF ParentExists, Step, fsVars
<1>1. TypeOK'
  BY DEF IInv, TypeOK
<1>2. DiskOK'
  BY DiskStutter DEF IInv
<1>3. WriterSyncs'
  BY DEF IInv, TypeOK, WriterSyncs, Scanned, NothingToSync, Settled, Leaf, Top
<1>4. WriterProgress'
  BY DEF IInv, TypeOK, WriterProgress, Leaf, Top, DiskOK, WriterSyncs
<1>5. QED
  BY <1>1, <1>2, <1>3, <1>4 DEF IInv

LEMMA SyncFreshTopPreserves ==
    ASSUME IInv, NEW w \in Writers, SyncFreshTop(w)
    PROVE  IInv'
<1>. USE TreeAssumption, NamesDistinct DEF SyncFreshTop, SyncRoot
<1>1. TypeOK'
  BY DEF IInv, TypeOK
<1>2. DiskOK'
  BY DEF IInv, TypeOK, DiskOK, ParentsFirst, Settled, IndexedDurable,
         ContentFlushed, NoTornObject, PathOf
<1>3. WriterSyncs'
  BY DEF IInv, TypeOK, WriterSyncs, Scanned, NothingToSync, Settled, Leaf, Top,
         WriterProgress
<1>4. WriterProgress'
  BY DEF IInv, TypeOK, WriterProgress, Leaf, Top, WriterSyncs
<1>5. QED
  BY <1>1, <1>2, <1>3, <1>4 DEF IInv

LEMMA SyncFreshLeafPreserves ==
    ASSUME IInv, NEW w \in Writers, SyncFreshLeaf(w)
    PROVE  IInv'
<1>. USE TreeAssumption, NamesDistinct DEF SyncFreshLeaf, SyncTopDir
<1>1. TypeOK'
  BY DEF IInv, TypeOK
<1>2. DiskOK'
  BY DEF IInv, TypeOK, DiskOK, ParentsFirst, Settled, IndexedDurable,
         ContentFlushed, NoTornObject, PathOf, WriterSyncs, Scanned, Leaf, Top
<1>3. WriterSyncs'
  BY DEF IInv, TypeOK, WriterSyncs, Scanned, NothingToSync, Settled, Leaf, Top,
         WriterProgress
<1>4. WriterProgress'
  BY DEF IInv, TypeOK, WriterProgress, Leaf, Top
<1>5. QED
  BY <1>1, <1>2, <1>3, <1>4 DEF IInv

LEMMA WriteTempPreserves ==
    ASSUME IInv, NEW w \in Writers, WriteTemp(w)
    PROVE  IInv'
<1>. USE TreeAssumption, NamesDistinct DEF WriteTemp, Step, fsVars
<1>1. TypeOK'
  BY DEF IInv, TypeOK
<1>2. DiskOK'
  BY DiskStutter DEF IInv
<1>3. WriterSyncs'
  BY DEF IInv, TypeOK, WriterSyncs, Scanned, NothingToSync, Settled, Leaf, Top
<1>4. WriterProgress'
  BY DEF IInv, TypeOK, WriterProgress, Leaf, Top
<1>5. QED
  BY <1>1, <1>2, <1>3, <1>4 DEF IInv

LEMMA SyncTempPreserves ==
    ASSUME IInv, NEW w \in Writers, SyncTemp(w)
    PROVE  IInv'
<1>. USE TreeAssumption, NamesDistinct DEF SyncTemp, Step, fsVars
<1>1. TypeOK'
  BY DEF IInv, TypeOK
<1>2. DiskOK'
  BY DiskStutter DEF IInv
<1>3. WriterSyncs'
  BY DEF IInv, TypeOK, WriterSyncs, Scanned, NothingToSync, Settled, Leaf, Top
<1>4. WriterProgress'
  BY DEF IInv, TypeOK, WriterProgress, Leaf, Top
<1>5. QED
  BY <1>1, <1>2, <1>3, <1>4 DEF IInv

LEMMA RenamePreserves ==
    ASSUME IInv, NEW w \in Writers, Rename(w)
    PROVE  IInv'
<1>. USE TreeAssumption, NamesDistinct DEF Rename, Step
<1>1. TypeOK'
  BY DEF IInv, TypeOK, WriterSyncs, WriterProgress, Entries
<1>2. DiskOK'
  BY DEF IInv, TypeOK, DiskOK, ParentsFirst, Settled, IndexedDurable,
         ContentFlushed, NoTornObject, PathOf, WriterSyncs, WriterProgress
<1>3. WriterSyncs'
  BY DEF IInv, TypeOK, WriterSyncs, Scanned, NothingToSync, Settled, Leaf, Top
<1>4. WriterProgress'
  BY DEF IInv, TypeOK, WriterProgress, Leaf, Top, WriterSyncs
<1>5. QED
  BY <1>1, <1>2, <1>3, <1>4 DEF IInv

LEMMA SyncLeafPreserves ==
    ASSUME IInv, NEW w \in Writers, SyncLeaf(w)
    PROVE  IInv'
<1>. USE TreeAssumption, NamesDistinct DEF SyncLeaf, SyncLeafDir, Step
<1>1. TypeOK'
  BY DEF IInv, TypeOK
<1>2. DiskOK'
  BY DEF IInv, TypeOK, DiskOK, ParentsFirst, Settled, IndexedDurable,
         ContentFlushed, NoTornObject, PathOf, WriterSyncs, Scanned,
         NothingToSync, Leaf
<1>3. WriterSyncs'
  BY DEF IInv, TypeOK, WriterSyncs, Scanned, NothingToSync, Settled, Leaf, Top
<1>4. WriterProgress'
  BY DEF IInv, TypeOK, WriterProgress, Leaf, Top, WriterSyncs
<1>5. QED
  BY <1>1, <1>2, <1>3, <1>4 DEF IInv

LEMMA CommitPreserves ==
    ASSUME IInv, NEW w \in Writers, Commit(w)
    PROVE  IInv'
<1>. USE TreeAssumption, NamesDistinct DEF Commit, Step, fsVars
<1>1. TypeOK'
  BY DEF IInv, TypeOK, WriterSyncs
<1>2. DiskOK'
  BY DEF IInv, TypeOK, DiskOK, ParentsFirst, Settled, IndexedDurable,
         ContentFlushed, NoTornObject, PathOf, WriterSyncs, WriterProgress, fsVars
<1>3. WriterSyncs'
  BY DEF IInv, TypeOK, WriterSyncs, Scanned, NothingToSync, Settled, Leaf, Top
<1>4. WriterProgress'
  BY DEF IInv, TypeOK, WriterProgress, Leaf, Top
<1>5. QED
  BY <1>1, <1>2, <1>3, <1>4 DEF IInv

\* A failed system call, and the death of the process.
LEMMA ForgetPreserves ==
    ASSUME IInv, NEW W \in SUBSET Writers, Forget(W),
           UNCHANGED <<fsVars, indexed, overlooked>>
    PROVE  IInv'
<1>. USE TreeAssumption, NamesDistinct DEF Forget, fsVars
<1>1. TypeOK'
  BY DEF IInv, TypeOK
<1>2. DiskOK'
  BY DiskStutter DEF IInv
<1>3. WriterSyncs'
  BY DEF IInv, TypeOK, WriterSyncs, Scanned, NothingToSync, Settled, Leaf, Top
<1>4. WriterProgress'
  BY DEF IInv, TypeOK, WriterProgress, Leaf, Top
<1>5. QED
  BY <1>1, <1>2, <1>3, <1>4 DEF IInv

\* What survives a power loss is what was durable and can be reached: a durable
\* object whose path nobody overlooked is among it.
LEMMA DurableSurvives ==
    ASSUME IInv, PowerLoss,
           NEW h \in durable \cap Objects, PathOf(h) \cap overlooked = {}
    PROVE  h \in durable'
<1>. USE TreeAssumption, NamesDistinct
<1>1. PICK S \in SUBSET visible :
         /\ durable \cap visible \subseteq S
         /\ durable' = Reachable(S)
  BY DEF PowerLoss
<1>2. LeafOf[h] \in durable
  BY DEF IInv, DiskOK, ParentsFirst, Settled, PathOf
<1>3. TopOf[LeafOf[h]] \in durable
  BY <1>2 DEF IInv, DiskOK, ParentsFirst, Settled, PathOf
<1>4. QED
  BY <1>1, <1>2, <1>3 DEF IInv, DiskOK, Reachable, PathOf

LEMMA PowerLossPreserves ==
    ASSUME IInv, PowerLoss
    PROVE  IInv'
<1>. USE TreeAssumption, NamesDistinct
<1>1. PICK S \in SUBSET visible :
         /\ durable \cap visible \subseteq S
         /\ visible' = Reachable(S)
         /\ durable' = Reachable(S)
  BY DEF PowerLoss
<1>2. TypeOK'
  BY <1>1 DEF IInv, TypeOK, PowerLoss, Forget, Reachable, Entries
<1>3. ParentsFirst'
  BY <1>1 DEF ParentsFirst, Settled, Reachable, PathOf
<1>4. IndexedDurable'
  <2>1. SUFFICES ASSUME NEW h \in indexed, PathOf(h) \cap overlooked = {}
                 PROVE  h \in durable'
    BY <1>1 DEF IndexedDurable, PowerLoss, PathOf
  <2>2. h \in durable \cap Objects
    BY <2>1 DEF IInv, TypeOK, DiskOK, IndexedDurable
  <2>3. QED
    BY <2>1, <2>2, DurableSurvives
<1>5. NoTornObject' /\ ContentFlushed'
  <2>1. \A h \in Objects : h \in visible' => h \in visible
    BY <1>1 DEF Reachable
  <2>2. \A h \in Objects :
          content'[h] = IF h \notin visible' THEN "none"
                        ELSE IF content[h] = "cached" THEN "torn" ELSE content[h]
    BY DEF PowerLoss
  <2>3. \A h \in Objects : h \in visible => content[h] = "stable"
    BY DEF IInv, TypeOK, DiskOK, ContentFlushed, NoTornObject
  <2>4. QED
    BY <2>1, <2>2, <2>3 DEF NoTornObject, ContentFlushed
<1>6. DiskOK'
  BY <1>1, <1>3, <1>4, <1>5 DEF DiskOK, Reachable
<1>7. WriterSyncs' /\ WriterProgress'
  BY DEF PowerLoss, Forget, IInv, TypeOK, WriterSyncs, WriterProgress, Scanned,
         NothingToSync
<1>8. QED
  BY <1>2, <1>6, <1>7 DEF IInv

LEMMA NextPreserves ==
    ASSUME IInv, [Next]_vars
    PROVE  IInv'
<1>1. CASE UNCHANGED vars
  BY <1>1 DEF vars, writerVars, fsVars, IInv, DiskOK, TypeOK, ParentsFirst,
     Settled,
              WriterSyncs, WriterProgress, IndexedDurable, ContentFlushed,
              NoTornObject, Scanned, NothingToSync, Leaf, Top
<1>2. ASSUME NEW w \in Writers, NEW h \in Objects, Start(w, h) PROVE IInv'
  BY <1>2, StartPreserves
<1>3. ASSUME NEW w \in Writers, ScanLeaf(w) \/ ScanTop(w) PROVE IInv'
  BY <1>3, ScanLeafPreserves, ScanTopPreserves
<1>4. ASSUME NEW w \in Writers, MakeTop(w) \/ MakeLeaf(w) \/ ParentExists(w) PROVE IInv'
  BY <1>4, MakeTopPreserves, MakeLeafPreserves, ParentExistsPreserves
<1>5. ASSUME NEW w \in Writers, SyncFreshTop(w) \/ SyncFreshLeaf(w) PROVE IInv'
  BY <1>5, SyncFreshTopPreserves, SyncFreshLeafPreserves
<1>6. ASSUME NEW w \in Writers, WriteTemp(w) \/ SyncTemp(w) PROVE IInv'
  BY <1>6, WriteTempPreserves, SyncTempPreserves
<1>7. ASSUME NEW w \in Writers, Rename(w) \/ SyncLeaf(w) \/ Commit(w) PROVE IInv'
  BY <1>7, RenamePreserves, SyncLeafPreserves, CommitPreserves
<1>8. ASSUME NEW w \in Writers, Fail(w) PROVE IInv'
  BY <1>8, ForgetPreserves DEF Fail
<1>9. CASE Kill
  BY <1>9, ForgetPreserves DEF Kill
<1>10. CASE PowerLoss
  BY <1>10, PowerLossPreserves
<1>11. QED
  BY <1>1, <1>2, <1>3, <1>4, <1>5, <1>6, <1>7, <1>8, <1>9, <1>10 DEF Next

\* The inductive invariant holds in every state.
THEOREM Invariance == Spec => []IInv
<1>1. Init => IInv
  BY InitIInv
<1>2. IInv /\ [Next]_vars => IInv'
  BY NextPreserves
<1>3. QED
  BY <1>1, <1>2, PTL DEF Spec

\* An acknowledged xorb survives any number of power losses, failed writes and
\* restarts, as long as no writer took a directory on its path for durable that
\* was not (xorbstore.rs:87-97).
THEOREM Survival == Spec => []WatchedSurvives
<1>1. IInv => WatchedSurvives
  BY DEF IInv, DiskOK, IndexedDurable, WatchedSurvives
<1>2. QED
  BY <1>1, Invariance, PTL

\* No step but a power loss takes anything from the disk, and a power loss only
\* what was overlooked.
LEMMA StepKeepsDurable ==
    ASSUME IInv, [Next]_vars,
           NEW h \in durable \cap Objects, PathOf(h) \cap overlooked = {}
    PROVE  h \in durable'
<1>1. CASE PowerLoss
  BY <1>1, DurableSurvives
<1>2. CASE ~ PowerLoss
  <2>1. CASE UNCHANGED durable
    BY <2>1
  <2>2. ASSUME NEW w \in Writers,
               SyncFreshTop(w) \/ SyncFreshLeaf(w) \/ SyncLeaf(w)
        PROVE  h \in durable'
    BY <2>2 DEF SyncFreshTop, SyncFreshLeaf, SyncLeaf, SyncRoot, SyncTopDir,
       SyncLeafDir
  <2>3. QED
    BY <1>2, <2>1, <2>2
       DEF Next, vars, fsVars, Start, ScanLeaf, ScanTop, MakeTop, MakeLeaf,
           ParentExists, WriteTemp, SyncTemp, Rename, Commit, Fail, Kill
<1>3. QED
  BY <1>1, <1>2

\* What an fsync made durable stays durable (xorbstore.rs:87-97).
THEOREM Kept == Spec => NothingDurableIsLost
<1>1. IInv /\ [Next]_vars =>
        [\A h \in durable \cap Objects :
            PathOf(h) \cap overlooked = {} => h \in durable']_vars
  BY StepKeepsDurable
<1>2. QED
  BY <1>1, Invariance, PTL DEF Spec, NothingDurableIsLost

\* The final name of an object never shows a part of it, not after a power loss
\* either: its bytes are flushed before the rename.
THEOREM Complete == Spec => []NoTornObject
<1>1. IInv => NoTornObject
  BY DEF IInv, DiskOK
<1>2. QED
  BY <1>1, Invariance, PTL

-------------------------------------------------------------------------------
(* The refinement.                                                         *)

\* Most calls of write_atomic show nothing yet.
LEMMA HiddenCalls ==
    ASSUME visible' \cap Objects = visible \cap Objects,
           UNCHANGED <<content, indexed, overlooked>>
    PROVE  UNCHANGED Store!storedVars
BY DEF Store!storedVars, PathOf

\* Nothing has a directory's name and an object's.
LEMMA OverlookingWidens ==
    ASSUME overlooked \subseteq overlooked', UNCHANGED <<visible, content, indexed>>
    PROVE  Store!StoredNext
<1>1. Store!Overlook
  BY DEF Store!Overlook, PathOf
<1>2. QED
  BY <1>1 DEF Store!StoredNext

\* A power loss leaves no part of an object, and of those with a record all that
\* nobody overlooked.
LEMMA PowerLossStores ==
    ASSUME IInv, IInv', PowerLoss
    PROVE  Store!LosePower
<1>. DEFINE stored == {h \in visible \cap Objects : content[h] = "stable"}
            atRisk == {h \in Objects : PathOf(h) \cap overlooked # {}}
<1>1. visible' \subseteq visible /\ UNCHANGED <<indexed, overlooked>>
  BY DEF PowerLoss, Reachable
<1>2. \A h \in visible' \cap Objects : content'[h] = "stable"
  BY DEF IInv, DiskOK, ContentFlushed, NoTornObject
<1>3. \A h \in visible \cap Objects : content[h] = "stable"
  BY DEF IInv, DiskOK, ContentFlushed, NoTornObject
<1>4. stored' \subseteq stored
  BY <1>1, <1>3
<1>5. ASSUME NEW h \in indexed \ atRisk PROVE h \in stored'
  <2>1. h \in Objects /\ h \in indexed' /\ PathOf(h)' \cap overlooked' = {}
    BY <1>1, <1>5 DEF IInv, TypeOK, PathOf
  <2>2. h \in durable' /\ durable' \subseteq visible'
    BY <2>1 DEF IInv, DiskOK, IndexedDurable
  <2>3. QED
    BY <1>2, <2>1, <2>2
<1>6. atRisk' = atRisk
  BY <1>1 DEF PathOf
<1>7. QED
  BY <1>1, <1>4, <1>5, <1>6 DEF Store!LosePower

LEMMA StepStores ==
    ASSUME IInv, IInv', [Next]_vars
    PROVE  [Store!StoredNext]_Store!storedVars
<1>. USE DEF Step, fsVars, writerVars
<1>1. ASSUME NEW w \in Writers, Rename(w) PROVE Store!StoredNext
  <2>1. /\ obj[w] \in Objects /\ visible' = visible \cup {obj[w]}
        /\ content' = [content EXCEPT ![obj[w]] = "stable"]
        /\ UNCHANGED <<indexed, overlooked>>
    BY <1>1 DEF Rename, IInv, WriterSyncs, WriterProgress
  <2>2. {h \in visible' \cap Objects : content'[h] = "stable"}
          = {h \in visible \cap Objects : content[h] = "stable"} \cup {obj[w]}
    BY <2>1 DEF IInv, TypeOK
  <2>3. \E h \in Objects : Store!Write(h)
    BY <2>1, <2>2 DEF Store!Write, PathOf
  <2>4. QED
    BY <2>3 DEF Store!StoredNext
<1>2. ASSUME NEW w \in Writers, Commit(w) PROVE Store!StoredNext
  <2>1. /\ obj[w] \in Objects /\ obj[w] \in durable
        /\ indexed' = indexed \cup {obj[w]}
        /\ UNCHANGED <<visible, content, overlooked>>
    BY <1>2 DEF Commit, IInv, WriterSyncs, WriterProgress
  <2>2. obj[w] \in visible /\ content[obj[w]] = "stable"
    BY <2>1 DEF IInv, DiskOK, ContentFlushed, NoTornObject
  <2>3. Store!Index(obj[w])
    BY <2>1, <2>2 DEF Store!Index, PathOf
  <2>4. QED
    BY <2>1, <2>3 DEF Store!StoredNext
<1>3. ASSUME NEW w \in Writers, ScanLeaf(w) \/ ScanTop(w) PROVE Store!StoredNext
  <2>1. overlooked \subseteq overlooked' /\ UNCHANGED <<visible, content, indexed>>
    BY <1>3 DEF ScanLeaf, ScanTop, Trust
  <2>2. QED
    BY <2>1, OverlookingWidens
<1>4. ASSUME NEW w \in Writers, MakeTop(w) \/ MakeLeaf(w)
      PROVE  UNCHANGED Store!storedVars
  <2>1. Top(w) \notin Objects /\ Leaf(w) \notin Objects
    BY <1>4, TreeAssumption, NamesDistinct
       DEF MakeTop, MakeLeaf, Top, Leaf, IInv, WriterSyncs
  <2>2. visible' \cap Objects = visible \cap Objects
    BY <1>4, <2>1 DEF MakeTop, MakeLeaf
  <2>3. QED
    BY <1>4, <2>2, HiddenCalls DEF MakeTop, MakeLeaf
<1>5. ASSUME NEW w \in Writers,
             \/ \E h \in Objects : Start(w, h)
             \/ ParentExists(w) \/ SyncFreshTop(w) \/ SyncFreshLeaf(w)
             \/ WriteTemp(w) \/ SyncTemp(w) \/ SyncLeaf(w) \/ Fail(w)
      PROVE  UNCHANGED <<visible, content, indexed, overlooked>>
  BY <1>5 DEF Start, ParentExists, SyncFreshTop, SyncFreshLeaf, WriteTemp, SyncTemp,
     SyncLeaf, Fail
<1>6. CASE Kill \/ UNCHANGED vars
  BY <1>6, HiddenCalls DEF Kill, vars
<1>7. CASE PowerLoss
  BY <1>7, PowerLossStores DEF Store!StoredNext
<1>8. UNCHANGED <<visible, content, indexed, overlooked>> => UNCHANGED Store!storedVars
  BY HiddenCalls
<1>9. QED
  BY <1>1, <1>2, <1>3, <1>4, <1>5, <1>6, <1>7, <1>8 DEF Next

\* xorbstore.rs:87-131: call by call, through failures, kills and power losses, the
\* store shows whole objects only, and keeps those that have a record unless their
\* path was overlooked: XorbUpload's one-step write.
THEOREM Refinement == Spec => ImplementsStoredXorbs
<1>1. Init => Store!StoredInit
  BY DEF Init, Store!StoredInit, PathOf
<1>2. IInv /\ IInv' /\ [Next]_vars => [Store!StoredNext]_Store!storedVars
  BY StepStores
<1>3. QED
  BY <1>1, <1>2, Invariance, PTL DEF Spec, ImplementsStoredXorbs, Store!StoredSpec
===============================================================================
