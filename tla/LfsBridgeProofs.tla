---------------------------- MODULE LfsBridgeProofs ---------------------------
(***************************************************************************)
(* Proofs about Registry, for any requests, shards, xorbs and files, and   *)
(* about LfsBridge, for any batches and probes beside these requests.      *)
(*                                                                         *)
(* Registry's invariant says what a request may rely on between its checks *)
(* and its insert although it holds no lock: xorbs are only added, and     *)
(* whether a claimed SHA-256 is true depends on content that cannot change.*)
(*                                                                         *)
(* Seen from the index, the bridge only stutters, so all that is proved of *)
(* Registry holds there.  What a session or a probe has read may be out of *)
(* date when it is used, and yet stays true: the index only grows, and the *)
(* file an oid is found under has that content.                            *)
(***************************************************************************)
EXTENDS LfsBridge, TLAPS

USE XorbsAssumption, RecipesAssumption, OidsAssumption, ShardsAssumption,
    NoneAssumption

\* INSERT OR IGNORE INTO chunks keeps every home there is, adds none that is
\* not a row it was given, and leaves none of these rows' chunks without one.
LEMMA InsertRowsStep ==
    ASSUME chunkHome \in [Chunks -> Xorbs \cup {None}],
           NEW R, R \subseteq Rows, InsertRows(R)
    PROVE  /\ chunkHome' \in [Chunks -> Xorbs \cup {None}]
           /\ \A c \in Chunks : chunkHome[c] # None => chunkHome'[c] = chunkHome[c]
           /\ \A c \in Chunks : chunkHome'[c] # chunkHome[c] =>
                 \E row \in R : row[1] = c /\ row[2] = chunkHome'[c]
           /\ \A row \in R : chunkHome'[row[1]] # None
<1>1. PICK first \in [{row[1] : row \in R} -> R] :
          /\ \A c \in DOMAIN first : first[c][1] = c
          /\ chunkHome' = [c \in Chunks |->
                              IF chunkHome[c] = None /\ c \in DOMAIN first
                                THEN first[c][2] ELSE chunkHome[c]]
  BY DEF InsertRows
<1>2. \A row \in R : row[1] \in Chunks /\ row[2] \in Xorbs
  BY DEF Rows
<1>3. \A c \in DOMAIN first : first[c] \in R
  OBVIOUS
<1>4. None \notin Xorbs
  OBVIOUS
<1>5. \A c \in Chunks : chunkHome'[c] = IF chunkHome[c] = None /\ c \in DOMAIN first
                                         THEN first[c][2] ELSE chunkHome[c]
  BY <1>1
<1>6. \A row \in R : row[1] \in DOMAIN first
  OBVIOUS
<1>7. chunkHome' \in [Chunks -> Xorbs \cup {None}]
  BY <1>1, <1>2, <1>3
<1>8. \A c \in Chunks : chunkHome'[c] # chunkHome[c] =>
          \E row \in R : row[1] = c /\ row[2] = chunkHome'[c]
  BY <1>1, <1>3, <1>5
<1>9. \A row \in R : chunkHome'[row[1]] # None
  BY <1>2, <1>3, <1>4, <1>5, <1>6
<1> QED
  BY <1>5, <1>7, <1>8, <1>9

\* INSERT OR IGNORE INTO files keeps every record there is, and what it adds is
\* an entry of the shard under the hash of that entry; each of them is there
\* afterwards.
LEMMA InsertFilesStep ==
    ASSUME files \in [Files -> Records \cup {None}],
           NEW s \in Shards, InsertFiles(s)
    PROVE  /\ files' \in [Files -> Records \cup {None}]
           /\ \A f \in Files : Registered(f) => files'[f] = files[f]
           /\ \A f \in Files : files'[f] # files[f] =>
                 \E e \in s.files : FileOf[e.recipe] = f /\ files'[f] = RecordOf(e)
           /\ \A e \in s.files : files'[FileOf[e.recipe]] # None
<1>1. PICK first \in FirstEntries(s) :
          files' = [f \in Files |-> IF ~ Registered(f) /\ f \in FilesOf(s)
                                      THEN RecordOf(first[f]) ELSE files[f]]
  BY DEF InsertFiles
<1>2. \A e \in s.files : /\ e.recipe \in Recipes /\ RecordOf(e) \in Records
                         /\ FileOf[e.recipe] \in Files
  BY DEF Entries, RecordOf, Records
<1>3. \A f \in FilesOf(s) : first[f] \in s.files /\ FileOf[first[f].recipe] = f
  BY <1>1 DEF FirstEntries
<1>4. \A e \in s.files : RecordOf(e) # None
  BY <1>2
<1> QED
  BY <1>1, <1>2, <1>3, <1>4 DEF Registered, FilesOf

-------------------------------------------------------------------------------
\* What the four parts of the invariant about the index say together.
IndexOK == OidTruthful /\ RegisteredServable /\ DedupTruthful /\ FirstChunkProbed

LEMMA IndexKept ==
    ASSUME IndexOK, UNCHANGED indexVars
    PROVE  IndexOK'
BY DEF IndexOK, indexVars, OidTruthful, RegisteredServable, DedupTruthful,
       FirstChunkProbed, FilesWith, Registered

LEMMA InitInv == ASSUME Init PROVE IInv
BY DEF Init, IInv, TypeOK, HandlerOK, OidTruthful, RegisteredServable,
       DedupTruthful, FirstChunkProbed, AcknowledgedRegistered, FilesWith,
       Registered, Acknowledged, Checked

\* An upload adds a xorb and true rows.
LEMMA UploadStep ==
    ASSUME IInv, NEW x \in Xorbs, UploadXorb(x)
    PROVE  IInv'
<1> USE DEF IInv
<1>1. /\ chunkHome' \in [Chunks -> Xorbs \cup {None}]
      /\ \A c \in Chunks : chunkHome[c] # None => chunkHome'[c] = chunkHome[c]
      /\ \A c \in Chunks : chunkHome'[c] # chunkHome[c] =>
            \E row \in Eligible[x] \X {x} : row[1] = c /\ row[2] = chunkHome'[c]
  <2>1. Eligible[x] \X {x} \subseteq Rows
    BY DEF Rows
  <2> QED
    BY <2>1, InsertRowsStep DEF UploadXorb, TypeOK
<1>2. TypeOK'
  BY <1>1 DEF TypeOK, UploadXorb, handlerVars
<1>3. HandlerOK'
  BY DEF HandlerOK, UploadXorb, handlerVars, Checked, Corroborated, ClaimTrue,
         FirstRows, Acknowledged
<1>4. OidTruthful' /\ RegisteredServable' /\ AcknowledgedRegistered'
  BY DEF UploadXorb, handlerVars, OidTruthful, RegisteredServable, FilesWith,
         Registered, AcknowledgedRegistered, Acknowledged, AlreadyStored
<1>5. DedupTruthful'
  <2> SUFFICES ASSUME NEW c \in Chunks, chunkHome'[c] # None
               PROVE  chunkHome'[c] \in xorbs' /\ c \in ChunksIn[chunkHome'[c]]
    BY DEF DedupTruthful
  <2>1. CASE chunkHome'[c] = chunkHome[c]
    BY <2>1 DEF DedupTruthful, UploadXorb
  <2>2. CASE chunkHome'[c] # chunkHome[c]
    <3>1. chunkHome'[c] = x /\ c \in Eligible[x]
      BY <1>1, <2>2
    <3> QED
      BY <3>1 DEF UploadXorb
  <2> QED
    BY <2>1, <2>2
<1>6. FirstChunkProbed'
  <2>1. \A r \in Recipes : \A row \in FirstRow[r] : row[1] \in Chunks
    BY DEF Rows
  <2> QED
    BY <1>1, <2>1 DEF FirstChunkProbed, UploadXorb, handlerVars, Registered,
       TypeOK, Records
<1> QED
  BY <1>2, <1>3, <1>4, <1>5, <1>6

\* The insert files what was checked, and only that.
LEMMA PutFilesStep ==
    ASSUME IInv, NEW q \in Requests, PutFiles(q)
    PROVE  IInv'
<1> DEFINE s == shard[q]
<1>1. /\ q \in inserting /\ s \in Shards /\ rows[q] \subseteq Rows
      /\ xorbs' = xorbs /\ shard' = shard /\ rows' = rows
  BY DEF IInv, HandlerOK, TypeOK, PutFiles
<1>2. /\ \A e \in s.files : XorbsOf[e.recipe] \subseteq xorbs
      /\ \A row \in rows[q] : row[2] \in xorbs /\ row[1] \in ChunksIn[row[2]]
      /\ \A e \in s.files : FirstRow[e.recipe] \subseteq rows[q]
      /\ \A e \in s.files : ClaimTrue(e)
  <2>1. todo[q] = {}
    BY DEF IInv, HandlerOK, TypeOK, PutFiles
  <2> QED
    BY <1>1, <2>1 DEF IInv, HandlerOK, Checked, Corroborated, FirstRows
<1>3. \A e \in s.files : /\ e \in Entries /\ e.recipe \in Recipes
                         /\ e.sha \in Oids \cup {None} /\ FileOf[e.recipe] \in Files
  BY <1>1 DEF Entries
<1>4. /\ files' \in [Files -> Records \cup {None}]
      /\ \A f \in Files : Registered(f) => files'[f] = files[f]
      /\ \A f \in Files : files'[f] # files[f] =>
            \E e \in s.files : FileOf[e.recipe] = f /\ files'[f] = RecordOf(e)
      /\ \A e \in s.files : files'[FileOf[e.recipe]] # None
  BY <1>1, InsertFilesStep DEF IInv, TypeOK, PutFiles
<1>5. /\ chunkHome' \in [Chunks -> Xorbs \cup {None}]
      /\ \A c \in Chunks : chunkHome[c] # None => chunkHome'[c] = chunkHome[c]
      /\ \A c \in Chunks : chunkHome'[c] # chunkHome[c] =>
            \E row \in rows[q] : row[1] = c /\ row[2] = chunkHome'[c]
      /\ \A row \in rows[q] : chunkHome'[row[1]] # None
  BY <1>1, InsertRowsStep DEF IInv, TypeOK, PutFiles
<1>6. /\ phase' \in [Requests -> {"idle", "decoded", "verifying", "inserting", "ended"}]
      /\ result' \in [Requests -> {"none", "performed", "exists", "refused",
                                  "error", "gone", "killed"}]
      /\ todo' \in [Requests -> SUBSET Entries]
      /\ inserting' = inserting \ {q}
      /\ \A p \in Requests \ {q} : /\ phase'[p] = phase[p]
                                  /\ result'[p] = result[p] /\ todo'[p] = todo[p]
      /\ phase'[q] = "ended" \/ phase'[q] = phase[q]
      /\ todo'[q] = {} /\ phase'[q] \notin {"decoded", "verifying", "inserting"}
  <2>1. CASE Alive(q)
    BY <2>1 DEF IInv, TypeOK, PutFiles, End
  <2>2. CASE ~ Alive(q)
    BY <2>2 DEF IInv, TypeOK, HandlerOK, PutFiles, Alive
  <2> QED
    BY <2>1, <2>2
<1>7. TypeOK'
  BY <1>1, <1>4, <1>5, <1>6 DEF IInv, TypeOK
<1>8. HandlerOK'
  <2> SUFFICES ASSUME NEW p \in Requests
               PROVE  /\ phase'[p] # "idle" => shard'[p] \in Shards
                      /\ p \in inserting' => phase'[p] \in {"inserting", "ended"}
                      /\ phase'[p] = "inserting" => todo'[p] = {}
                      /\ todo'[p] # {} => phase'[p] = "verifying"
                      /\ Acknowledged(p)' => phase'[p] = "ended"
                      /\ Checked(p)' =>
                            /\ Checked(p)
                            /\ shard'[p] = shard[p] /\ rows'[p] = rows[p]
                            /\ todo'[p] = todo[p] /\ xorbs' = xorbs
    BY DEF IInv, HandlerOK, Corroborated, FirstRows, ClaimTrue
  <2>1. CASE p = q
    BY <1>1, <1>6, <2>1 DEF IInv, HandlerOK, TypeOK, Acknowledged, Checked
  <2>2. CASE p # q
    BY <1>1, <1>6, <2>2 DEF IInv, HandlerOK, TypeOK, Acknowledged, Checked
  <2> QED
    BY <2>1, <2>2
<1>9. OidTruthful'
  <2> SUFFICES ASSUME NEW o \in Oids, NEW f \in Files,
                      files'[f] # None, files'[f].sha = o
               PROVE  OidOf[f] = o
    BY DEF OidTruthful, FilesWith, Registered
  <2>1. CASE files'[f] = files[f]
    BY <2>1 DEF IInv, OidTruthful, FilesWith, Registered
  <2>2. CASE files'[f] # files[f]
    <3>1. PICK e \in s.files : FileOf[e.recipe] = f /\ files'[f] = RecordOf(e)
      BY <1>4, <2>2
    <3> QED
      BY <1>2, <3>1 DEF RecordOf, ClaimTrue
  <2> QED
    BY <2>1, <2>2
<1>10. RegisteredServable'
  <2> SUFFICES ASSUME NEW f \in Files, files'[f] # None
               PROVE  /\ XorbsOf[files'[f].recipe] \subseteq xorbs
                      /\ FileOf[files'[f].recipe] = f
    BY <1>1 DEF RegisteredServable, Registered
  <2>1. CASE files'[f] = files[f]
    BY <2>1 DEF IInv, RegisteredServable, Registered
  <2>2. CASE files'[f] # files[f]
    BY <1>2, <1>4, <2>2 DEF RecordOf
  <2> QED
    BY <2>1, <2>2
<1>11. DedupTruthful'
  <2> SUFFICES ASSUME NEW c \in Chunks, chunkHome'[c] # None
               PROVE  chunkHome'[c] \in xorbs /\ c \in ChunksIn[chunkHome'[c]]
    BY <1>1 DEF DedupTruthful
  <2> QED
    BY <1>2, <1>5 DEF IInv, DedupTruthful
<1>12. FirstChunkProbed'
  <2> SUFFICES ASSUME NEW f \in Files, files'[f] # None,
                      NEW row \in FirstRow[files'[f].recipe]
               PROVE  chunkHome'[row[1]] # None
    BY DEF FirstChunkProbed, Registered
  <2>1. CASE files'[f] = files[f]
    <3>1. files[f].recipe \in Recipes
      BY <2>1 DEF IInv, TypeOK, Records
    <3>2. row[1] \in Chunks
      BY <2>1, <3>1 DEF Rows
    <3> QED
      BY <1>5, <2>1, <3>2 DEF IInv, FirstChunkProbed, Registered
  <2>2. CASE files'[f] # files[f]
    BY <1>2, <1>4, <1>5, <2>2 DEF RecordOf
  <2> QED
    BY <2>1, <2>2
<1>13. AcknowledgedRegistered'
  <2> SUFFICES ASSUME NEW p \in Requests, Acknowledged(p)', NEW e \in shard[p].files
               PROVE  LET f == FileOf[e.recipe]
                      IN /\ files'[f] # None
                         /\ e.sha # None => \/ e.sha \in AlreadyStored'
                                            \/ files'[f].sha = None
    BY <1>1 DEF AcknowledgedRegistered, Registered
  <2> DEFINE f == FileOf[e.recipe]
  <2>1. shard[p] \in Shards
    BY <1>1, <1>6 DEF IInv, HandlerOK, Acknowledged, TypeOK
  <2>2. e \in Entries /\ f \in Files
    BY <2>1 DEF Entries
  <2>3. AlreadyStored \subseteq AlreadyStored'
    BY <1>4 DEF AlreadyStored, FilesWith, Registered
  <2>4. CASE Acknowledged(p)
    BY <1>4, <2>2, <2>3, <2>4 DEF IInv, AcknowledgedRegistered, Registered
  <2>5. CASE ~ Acknowledged(p)
    <3>1. p = q
      BY <1>6, <2>5 DEF Acknowledged
    <3>2. files'[f] # None
      BY <1>4, <3>1
    <3>3. files'[f] \in Records
      BY <1>4, <2>2, <3>2
    <3>4. ASSUME e.sha # None, files'[f].sha # None PROVE e.sha \in AlreadyStored'
      <4>1. files'[f].sha \in Oids
        BY <3>3, <3>4 DEF Records
      <4>2. OidOf[f] = files'[f].sha
        BY <1>9, <2>2, <3>2, <4>1 DEF OidTruthful, FilesWith, Registered
      <4>3. e.sha = OidOf[f]
        BY <1>2, <3>1, <3>4 DEF ClaimTrue
      <4> QED
        BY <2>2, <3>2, <4>1, <4>2, <4>3 DEF AlreadyStored, FilesWith, Registered
    <3> QED
      BY <3>2, <3>4
  <2> QED
    BY <2>4, <2>5
<1> QED
  BY <1>7, <1>8, <1>9, <1>10, <1>11, <1>12, <1>13 DEF IInv

\* The other steps of a handler leave the index alone, and none of them
\* acknowledges anything.
LEMMA HandlerStep ==
    ASSUME IInv, NEW q \in Requests,
           \/ \E s \in Shards : Arrive(q, s)
           \/ Build(q) \/ BuildRefused(q)
           \/ \E e \in todo[q] : Verify(q, e) \/ VerifyRefused(q, e)
           \/ StartInsert(q) \/ PutFails(q) \/ ReadFails(q) \/ Disconnect(q)
    PROVE  IInv'
<1> USE DEF IInv
<1>1. /\ UNCHANGED indexVars
      /\ phase' = [phase EXCEPT ![q] = phase'[q]]
      /\ result' = [result EXCEPT ![q] = result'[q]]
      /\ shard' = [shard EXCEPT ![q] = shard'[q]]
      /\ todo' = [todo EXCEPT ![q] = todo'[q]]
      /\ rows' = [rows EXCEPT ![q] = rows'[q]]
  BY DEF Arrive, Build, BuildRefused, Verify, VerifyRefused, StartInsert,
         PutFails, ReadFails, Disconnect, End, TypeOK
<1>2. TypeOK' /\ HandlerOK'
  <2>1. CASE \E s \in Shards : Arrive(q, s)
    BY <2>1 DEF TypeOK, HandlerOK, Arrive, Acknowledged, Checked, indexVars,
                Corroborated, ClaimTrue
  <2>2. CASE Build(q)
    <3>1. shard[q] \in Shards
      BY <2>2 DEF HandlerOK, Build
    <3>2. /\ RowsFor(shard[q]) \in SUBSET Rows
          /\ \A row \in RowsFor(shard[q]) : Corroborated(row)
          /\ FirstRows(shard[q]) \subseteq RowsFor(shard[q])
      BY <2>2, <3>1 DEF Build, Checks, RowsFor, FirstRows, Corroborated, Entries,
         Rows
    <3>3. /\ \A e \in shard[q].files : XorbsOf[e.recipe] \subseteq xorbs
          /\ shard[q].files \in SUBSET Entries
      BY <2>2, <3>1 DEF Build, Checks
    <3> HIDE DEF IInv
    <3>4. TypeOK'
      BY <2>2, <3>2, <3>3 DEF TypeOK, Build, indexVars, IInv
    <3>5. HandlerOK'
      BY <2>2, <3>1, <3>2, <3>3 DEF TypeOK, HandlerOK, Build, Acknowledged,
         Checked,
         indexVars, Corroborated, ClaimTrue, FirstRows, IInv
    <3> QED
      BY <3>4, <3>5
  <2>3. CASE BuildRefused(q)
    BY <2>3 DEF TypeOK, HandlerOK, BuildRefused, End, Acknowledged, Checked,
                indexVars, Corroborated, ClaimTrue, FirstRows
  <2>4. ASSUME NEW e \in todo[q], Verify(q, e) PROVE TypeOK' /\ HandlerOK'
    <3>1. ClaimTrue(e)
      <4>1. e \in Entries
        BY <2>4 DEF TypeOK
      <4> QED
        BY <2>4, <4>1 DEF Verify, NeedsNoHash, ClaimTrue, OidTruthful, FilesWith,
                          Entries, Registered
    <3>2. TypeOK'
      BY <2>4 DEF TypeOK, Verify, indexVars
    <3>3. HandlerOK'
      BY <2>4, <3>1 DEF TypeOK, HandlerOK, Verify, Acknowledged, Checked,
                        indexVars, Corroborated, ClaimTrue, FirstRows
    <3> QED
      BY <3>2, <3>3
  <2>5. ASSUME NEW e \in todo[q], VerifyRefused(q, e) PROVE TypeOK' /\ HandlerOK'
    BY <2>5 DEF TypeOK, HandlerOK, VerifyRefused, End, Acknowledged, Checked,
                indexVars, Corroborated, ClaimTrue, FirstRows
  <2>6. CASE StartInsert(q)
    BY <2>6 DEF TypeOK, HandlerOK, StartInsert, Acknowledged, Checked,
                indexVars, Corroborated, ClaimTrue, FirstRows
  <2>7. CASE PutFails(q)
    <3>1. CASE Alive(q)
      <4>1. phase[q] = "inserting"
        BY <2>7, <3>1 DEF HandlerOK, PutFails, Alive
      <4>2. TypeOK'
        BY <2>7, <3>1 DEF TypeOK, PutFails, End, indexVars
      <4>3. HandlerOK'
        BY <2>7, <3>1, <4>1 DEF TypeOK, HandlerOK, PutFails, End, Acknowledged,
           Checked, indexVars, Corroborated, ClaimTrue, FirstRows
      <4> QED
        BY <4>2, <4>3
    <3>2. CASE ~ Alive(q)
      BY <2>7, <3>2 DEF TypeOK, HandlerOK, PutFails, Alive, Acknowledged, Checked,
                        indexVars, Corroborated, ClaimTrue, FirstRows
    <3> QED
      BY <3>1, <3>2
  <2>8. CASE ReadFails(q)
    BY <2>8 DEF TypeOK, HandlerOK, ReadFails, End, Acknowledged, Checked,
                indexVars, Corroborated, ClaimTrue, FirstRows
  <2>9. CASE Disconnect(q)
    BY <2>9 DEF TypeOK, HandlerOK, Disconnect, End, Alive, Acknowledged, Checked,
                indexVars, Corroborated, ClaimTrue, FirstRows
  <2> QED
    BY <2>1, <2>2, <2>3, <2>4, <2>5, <2>6, <2>7, <2>8, <2>9
<1>3. AcknowledgedRegistered'
  <2>1. \A p \in Requests : Acknowledged(p)' => Acknowledged(p) /\ shard'[p] = shard[p]
    BY <1>1 DEF Arrive, Build, BuildRefused, Verify, VerifyRefused, StartInsert,
         PutFails, ReadFails, Disconnect, End, TypeOK, HandlerOK, Acknowledged,
         Alive
  <2> QED
    BY <1>1, <2>1 DEF AcknowledgedRegistered, indexVars, AlreadyStored,
       FilesWith, Registered
<1> QED
  BY <1>1, <1>2, <1>3, IndexKept DEF IndexOK

LEMMA KillStep == ASSUME IInv, KillHandlers PROVE IInv'
<1> USE DEF IInv
<1>1. TypeOK' /\ HandlerOK'
  BY DEF TypeOK, HandlerOK, KillHandlers, Alive, Acknowledged, Checked, indexVars,
         Corroborated, ClaimTrue, FirstRows
<1>2. AcknowledgedRegistered'
  BY DEF AcknowledgedRegistered, Acknowledged, KillHandlers, TypeOK, Alive, indexVars,
         AlreadyStored, FilesWith, Registered
<1> QED
  BY <1>1, <1>2, IndexKept DEF IndexOK, KillHandlers

LEMMA StepInv == ASSUME IInv, [Next]_vars PROVE IInv'
<1>1. CASE Kill
  BY <1>1, KillStep DEF Kill
<1>2. ASSUME NEW x \in Xorbs, UploadXorb(x) PROVE IInv'
  BY <1>2, UploadStep
<1>3. ASSUME NEW q \in Requests, PutFiles(q) PROVE IInv'
  BY <1>3, PutFilesStep
<1>4. ASSUME NEW q \in Requests,
             \/ \E s \in Shards : Arrive(q, s)
             \/ Build(q) \/ BuildRefused(q)
             \/ \E e \in todo[q] : Verify(q, e) \/ VerifyRefused(q, e)
             \/ StartInsert(q) \/ PutFails(q) \/ ReadFails(q) \/ Disconnect(q)
      PROVE  IInv'
  BY <1>4, HandlerStep
<1>5. CASE UNCHANGED vars
  BY <1>5, IndexKept DEF IInv, IndexOK, TypeOK, HandlerOK, AcknowledgedRegistered,
     Acknowledged, AlreadyStored, FilesWith, Registered, Checked, Corroborated,
     ClaimTrue, FirstRows, vars, handlerVars, indexVars
<1> QED
  BY <1>1, <1>2, <1>3, <1>4, <1>5 DEF Next, Step

-------------------------------------------------------------------------------
\* The invariant holds in every reachable state, for any shards and requests.
THEOREM Invariance == Spec => []IInv
<1>1. Init => IInv
  BY InitInv
<1>2. IInv /\ [Next]_vars => IInv'
  BY StepInv
<1> QED
  BY <1>1, <1>2, PTL DEF Spec

\* No oid is squatted: what is filed under an oid has content of that oid.
THEOREM Truth == Spec => []OidTruthful
<1>1. IInv => OidTruthful
  BY DEF IInv
<1> QED
  BY <1>1, Invariance, PTL

\* Whatever is registered can be reconstructed from xorbs the index holds.
THEOREM Servable == Spec => []RegisteredServable
<1>1. IInv => RegisteredServable
  BY DEF IInv
<1> QED
  BY <1>1, Invariance, PTL

\* No dedup row is wrong, whether a shard or an upload inserted it.
THEOREM Dedup == Spec => []DedupTruthful
<1>1. IInv => DedupTruthful
  BY DEF IInv
<1> QED
  BY <1>1, Invariance, PTL

\* The first chunk of every registered file can be probed.
THEOREM FirstChunk == Spec => []FirstChunkProbed
<1>1. IInv => FirstChunkProbed
  BY DEF IInv
<1> QED
  BY <1>1, Invariance, PTL

\* What is acknowledged is registered, and found by its oid unless the file was
\* there without one.
THEOREM Acknowledgement == Spec => []AcknowledgedRegistered
<1>1. IInv => AcknowledgedRegistered
  BY DEF IInv
<1> QED
  BY <1>1, Invariance, PTL

Permanent ==
    /\ \A f \in Files : Registered(f) => files'[f] = files[f]
    /\ \A c \in Chunks : chunkHome[c] # None => chunkHome'[c] = chunkHome[c]
    /\ AlreadyStored \subseteq AlreadyStored'

LEMMA PermanentStep == ASSUME IInv, [Next]_vars PROVE Permanent
<1>1. /\ \A f \in Files : Registered(f) => files'[f] = files[f]
      /\ \A c \in Chunks : chunkHome[c] # None => chunkHome'[c] = chunkHome[c]
  <2>1. ASSUME NEW x \in Xorbs, UploadXorb(x)
        PROVE  /\ \A c \in Chunks : chunkHome[c] # None => chunkHome'[c] = chunkHome[c]
               /\ files' = files
    <3>1. Eligible[x] \X {x} \subseteq Rows
      BY DEF Rows
    <3> QED
      BY <2>1, <3>1, InsertRowsStep DEF UploadXorb, IInv, TypeOK
  <2>2. ASSUME NEW q \in Requests, PutFiles(q)
        PROVE  /\ \A f \in Files : Registered(f) => files'[f] = files[f]
               /\ \A c \in Chunks : chunkHome[c] # None => chunkHome'[c] = chunkHome[c]
    <3>1. shard[q] \in Shards /\ rows[q] \subseteq Rows
      BY <2>2 DEF PutFiles, IInv, TypeOK, HandlerOK
    <3> QED
      BY <2>2, <3>1, InsertRowsStep, InsertFilesStep DEF PutFiles, IInv, TypeOK
  <2>3. UNCHANGED indexVars => /\ files' = files
                               /\ chunkHome' = chunkHome
    BY DEF indexVars
  <2> QED
    BY <2>1, <2>2, <2>3 DEF Next, Step, Kill, KillHandlers, Arrive, Build, BuildRefused, Verify,
       VerifyRefused, StartInsert, PutFails, ReadFails, Disconnect, vars
<1>2. AlreadyStored \subseteq AlreadyStored'
  BY <1>1 DEF AlreadyStored, FilesWith, Registered
<1> QED
  BY <1>1, <1>2 DEF Permanent

\* Records, dedup rows and answers to the LFS bridge are never withdrawn.
THEOREM Permanence == Spec => NothingForgotten
<1>1. IInv /\ [Next]_vars => [Permanent]_vars
  BY PermanentStep
<1> QED
  BY <1>1, Invariance, PTL DEF Spec, NothingForgotten, Permanent

-------------------------------------------------------------------------------
(* The bridge.                                                             *)

USE EmptyAssumption, BatchesAssumption, QueriesAssumption, NoOutcome

\* Every step of the server is one of Registry or changes nothing there.
LEMMA RegistryStep == ASSUME IInv, [BridgeNext]_bridgeVars PROVE [Next]_vars
<1>1. CASE Restart
  <2>1. CASE inserting # {} \/ \E q \in Requests : Alive(q)
    BY <1>1, <2>1 DEF Restart, Next, Kill
  <2>2. CASE ~ (inserting # {} \/ \E q \in Requests : Alive(q))
    <3>1. \A q \in Requests : todo[q] = {}
      BY <2>2 DEF IInv, HandlerOK, Alive
    <3>2. /\ phase' = phase /\ result' = result /\ inserting' = inserting
          /\ UNCHANGED <<shard, rows, indexVars>>
      BY <1>1, <2>2 DEF Restart, KillHandlers, IInv, TypeOK
    <3>3. todo' = todo
      BY <1>1, <3>1 DEF Restart, KillHandlers, IInv, TypeOK
    <3> QED
      BY <3>2, <3>3 DEF vars, handlerVars
  <2> QED
    BY <2>1, <2>2
<1>2. CASE Step
  BY <1>2 DEF Next
<1>3. CASE UNCHANGED vars
  BY <1>3
<1> QED
  BY <1>1, <1>2, <1>3 DEF BridgeNext, bridgeVars, Arrives, ArrivesRefused, AnswerObject,
     LookUpFails, Reply, BatchGoes, Fetch, ProbeRefused, LookUpChunkFails, ProbeMisses,
     ProbeFinds, ProbeEnds, ProbeFails

LEMMA XorbsGrow == ASSUME IInv, [Next]_vars PROVE xorbs \subseteq xorbs'
<1>1. CASE Kill
  BY <1>1 DEF Kill, KillHandlers, indexVars
<1>2. CASE Step
  <2>1. (\E x \in Xorbs : UploadXorb(x)) \/ xorbs' = xorbs
    BY <1>2 DEF Step, Arrive, Build, BuildRefused, Verify, VerifyRefused, StartInsert, PutFiles,
       PutFails, ReadFails, Disconnect, vars, indexVars
  <2>2. ASSUME NEW x \in Xorbs, UploadXorb(x) PROVE xorbs \subseteq xorbs'
    <3>1. xorbs' = xorbs \cup {x}
      BY <2>2 DEF UploadXorb
    <3> QED
      BY <3>1
  <2> QED
    BY <2>1, <2>2
<1>3. CASE UNCHANGED vars
  BY <1>3 DEF vars, indexVars
<1> QED
  BY <1>1, <1>2, <1>3 DEF Next

-------------------------------------------------------------------------------
(* One object of an answer.                                                *)

\* What the invariant says of an object a that batch b is answered with.
Sound(b, a) ==
    /\ a \in LfsBatchObject
    /\ ValidLfsBatchObject(a)
    /\ Honest(b, a)
    /\ Skipped(a) => a.oid \in AlreadyStored
    /\ "download" \in DOMAIN a.actions =>
          /\ a.oid \in AlreadyStored
          /\ a.actions["download"].authorization = ForwardedAuthorization(b)

LEMMA ActionTypes ==
    ASSUME NEW b \in Batches
    PROVE  /\ UploadAction(b) \in Actions /\ DownloadAction(b) \in Actions
           /\ ValidLfsAction(UploadAction(b)) /\ ValidLfsAction(DownloadAction(b))
<1>1. ForwardedAuthorization(b) \in Credentials \cup {None}
  BY DEF ForwardedAuthorization
<1> QED
  BY <1>1 DEF UploadAction, DownloadAction, Actions, ValidLfsAction, NonEmpty

LEMMA KnownStored ==
    ASSUME TypeOK, NEW o \in Oids \cup Chunks, Known(o)
    PROVE  o \in AlreadyStored
<1>1. PICK f \in Files : Registered(f) /\ files[f].sha = o
  BY DEF Known, FilesWith
<1>2. o \in Oids
  BY <1>1 DEF Registered, TypeOK, Records
<1> QED
  BY <1>2 DEF AlreadyStored, Known

LEMMA AnswerSound ==
    ASSUME TypeOK, NEW b \in Batches, ValidLfsBatchRequest(b), NEW o \in Oids \cup Chunks
    PROVE  AnswerFor(b, o).oid = o /\ Sound(b, AnswerFor(b, o))
<1> DEFINE up == Object(o, EmbedsAuthorization(UploadAction(b)),
                        [n \in {"upload"} |-> UploadAction(b)], None)
           down == Object(o, EmbedsAuthorization(DownloadAction(b)),
                          [n \in {"download"} |-> DownloadAction(b)], None)
           skip == Object(o, FALSE, NoActions, None)
           refusal(c) == Object(o, FALSE, NoActions, c)
<1>1. b.operation \in {"upload", "download"}
  BY DEF ValidLfsBatchRequest
<1>2. /\ NoActions \in {NoActions} \cup [{"upload"} -> Actions] \cup [{"download"} -> Actions]
      /\ DOMAIN NoActions = {}
  BY DEF NoActions
<1>3. ASSUME NEW c \in LfsObjectError
      PROVE  refusal(c).oid = o /\ Sound(b, refusal(c))
  BY <1>2, <1>3 DEF Object, Sound, LfsBatchObject, LfsObjectError, ValidLfsBatchObject,
     Honest, Skipped
<1>4. ASSUME Known(o), b.operation = "upload" PROVE skip.oid = o /\ Sound(b, skip)
  BY <1>2, <1>4, KnownStored DEF Object, Sound, LfsBatchObject, LfsObjectError,
     ValidLfsBatchObject, Honest, Skipped
<1>5. ASSUME b.operation = "upload", OffersXet(b) PROVE up.oid = o /\ Sound(b, up)
  <2>1. [n \in {"upload"} |-> UploadAction(b)] \in [{"upload"} -> Actions]
    BY ActionTypes
  <2>2. up \in LfsBatchObject
    BY <2>1 DEF Object, LfsBatchObject, EmbedsAuthorization
  <2>3. /\ up.oid = o /\ up.error = None /\ DOMAIN up.actions = {"upload"}
        /\ up.actions["upload"] = UploadAction(b)
        /\ up.authenticated = EmbedsAuthorization(UploadAction(b))
    BY DEF Object
  <2> HIDE DEF up
  <2>4. ValidLfsBatchObject(up)
    BY <2>3, ActionTypes DEF ValidLfsBatchObject
  <2>5. Honest(b, up)
    BY <1>5, <2>3 DEF Honest, Skipped
  <2>6. "download" # "upload"
    OBVIOUS
  <2> QED
    BY <2>2, <2>3, <2>4, <2>5, <2>6 DEF Sound, Skipped
<1>6. ASSUME Known(o), b.operation = "download" PROVE down.oid = o /\ Sound(b, down)
  <2>1. [n \in {"download"} |-> DownloadAction(b)] \in [{"download"} -> Actions]
    BY ActionTypes
  <2>2. down \in LfsBatchObject
    BY <2>1 DEF Object, LfsBatchObject, EmbedsAuthorization
  <2>3. /\ down.oid = o /\ down.error = None /\ DOMAIN down.actions = {"download"}
        /\ down.actions["download"] = DownloadAction(b)
        /\ down.authenticated = EmbedsAuthorization(DownloadAction(b))
    BY DEF Object
  <2> HIDE DEF down
  <2>4. ValidLfsBatchObject(down)
    BY <2>3, ActionTypes DEF ValidLfsBatchObject
  <2>5. Honest(b, down)
    BY <1>6, <2>3 DEF Honest, Skipped
  <2>6. DownloadAction(b).authorization = ForwardedAuthorization(b)
    BY DEF DownloadAction
  <2> QED
    BY <1>6, <2>2, <2>3, <2>4, <2>5, <2>6, KnownStored DEF Sound, Skipped
<1>7. \A c \in {404, 422} : refusal(c).oid = o /\ Sound(b, refusal(c))
  BY <1>3 DEF LfsObjectError
<1>8. b.operation = "upload" =>
         AnswerFor(b, o) = IF ~ OffersXet(b) THEN refusal(422) ELSE IF Known(o) THEN skip ELSE up
  BY DEF AnswerFor, UploadObject
<1>9. b.operation = "download" => AnswerFor(b, o) = IF Known(o) THEN down ELSE refusal(404)
  BY DEF AnswerFor, DownloadObject
<1> HIDE DEF up, down, skip, refusal
<1> QED
  BY <1>1, <1>4, <1>5, <1>6, <1>7, <1>8, <1>9

-------------------------------------------------------------------------------
(* The invariant, one session and one probe at a time.                     *)

SessionSound(s) ==
    /\ bphase[s] = "idle" => answer[s] = <<>> /\ batch[s] = None
    /\ bphase[s] \in {"batch", "answered"} =>
          /\ batch[s] \in Batches /\ ValidLfsBatchRequest(batch[s])
          /\ Len(answer[s]) <= Len(batch[s].objects)
    /\ bphase[s] = "answered" => Len(answer[s]) = Len(batch[s].objects)
    /\ status[s] # "invalid"
    /\ \A i \in DOMAIN answer[s] :
          answer[s][i].oid = batch[s].objects[i].oid /\ Sound(batch[s], answer[s][i])
    /\ got[s] # None => got[s].file \in Files /\ OidOf[got[s].file] = got[s].oid

ProbeSound(p) ==
    /\ pphase[p] # "ended" => sent[p] = None
    /\ pphase[p] = "found" => home[p] \in xorbs /\ query[p].hash \in ChunksIn[home[p]]
    /\ code[p] # "lost"
    /\ sent[p] # None =>
          sent[p].xorb \in xorbs /\ sent[p].chunks = ChunksIn[sent[p].xorb]
          /\ query[p].hash \in sent[p].chunks

LEMMA Pointwise ==
    BridgeTypeOK =>
       /\ (SessionOK /\ SkipKept /\ ActionServed /\ AnswersHonest) <=>
             \A s \in Sessions : SessionSound(s)
       /\ (ProbeOK /\ ProbeServed) <=> \A p \in Probes : ProbeSound(p)
<1> SUFFICES ASSUME BridgeTypeOK
             PROVE  /\ (SessionOK /\ SkipKept /\ ActionServed /\ AnswersHonest) <=>
                          \A s \in Sessions : SessionSound(s)
                    /\ (ProbeOK /\ ProbeServed) <=> \A p \in Probes : ProbeSound(p)
  OBVIOUS
<1>1. \A s \in Sessions : \A i \in DOMAIN answer[s] : answer[s][i] \in LfsBatchObject
  BY DEF BridgeTypeOK
<1> QED
  BY <1>1 DEF SessionOK, SkipKept, ActionServed, AnswersHonest, SessionSound, Sound,
     AnsweredObjects, ProbeOK, ProbeServed, ProbeSound

LEMMA PointwiseNext ==
    (BridgeTypeOK =>
       /\ (SessionOK /\ SkipKept /\ ActionServed /\ AnswersHonest) <=>
             \A s \in Sessions : SessionSound(s)
       /\ (ProbeOK /\ ProbeServed) <=> \A p \in Probes : ProbeSound(p))'
BY Pointwise, PTL

\* What was true of an object stays so: the index only grows.
LEMMA SoundStays ==
    ASSUME AlreadyStored \subseteq AlreadyStored', NEW b, NEW a, Sound(b, a)
    PROVE  Sound(b, a)'
BY DEF Sound, Honest, Skipped, EmbedsAuthorization, OffersXet, ForwardedAuthorization,
   ValidLfsBatchObject, ValidLfsAction, NonEmpty, LfsBatchObject

LEMMA SessionStays ==
    ASSUME AlreadyStored \subseteq AlreadyStored', NEW s \in Sessions, SessionSound(s),
           bphase'[s] = bphase[s], batch'[s] = batch[s], answer'[s] = answer[s],
           status'[s] = status[s], got'[s] = got[s]
    PROVE  SessionSound(s)'
<1>1. \A i \in DOMAIN answer[s] : Sound(batch[s], answer[s][i])'
  BY SoundStays DEF SessionSound
<1> QED
  BY <1>1 DEF SessionSound, Sound

LEMMA ProbeStays ==
    ASSUME xorbs \subseteq xorbs', NEW p \in Probes, ProbeSound(p),
           pphase'[p] = pphase[p], query'[p] = query[p], home'[p] = home[p],
           code'[p] = code[p], sent'[p] = sent[p]
    PROVE  ProbeSound(p)'
BY DEF ProbeSound

-------------------------------------------------------------------------------
(* The steps of a session.                                                 *)

\* An invariant state in which only session s moves.
Alone(s) == /\ UNCHANGED <<vars, probeVars>>
            /\ \A t \in Sessions \ {s} :
                  /\ bphase'[t] = bphase[t] /\ batch'[t] = batch[t]
                  /\ answer'[t] = answer[t] /\ status'[t] = status[t] /\ got'[t] = got[t]

LEMMA AloneInv ==
    ASSUME BridgeIInv, NEW s \in Sessions, Alone(s), BridgeTypeOK', SessionSound(s)'
    PROVE  BridgeIInv'
<1>1. /\ IInv'
      /\ AlreadyStored' = AlreadyStored /\ xorbs' = xorbs
  <2>1. IInv' /\ UNCHANGED vars
    BY StepInv DEF Alone, BridgeIInv
  <2> QED
    BY <2>1 DEF vars, indexVars, AlreadyStored, FilesWith, Registered
<1>2. \A t \in Sessions : SessionSound(t)'
  BY <1>1, SessionStays, Pointwise DEF Alone, BridgeIInv
<1>3. \A p \in Probes : ProbeSound(p)'
  BY <1>1, ProbeStays, Pointwise DEF Alone, BridgeIInv, probeVars
<1>4. /\ (SessionOK /\ SkipKept /\ ActionServed /\ AnswersHonest)'
      /\ (ProbeOK /\ ProbeServed)'
  BY <1>2, <1>3, PointwiseNext
<1> QED
  BY <1>1, <1>4 DEF BridgeIInv

\* How a batch ends: with its answer, or without and nothing of it is kept.
LEMMA EndBatchStep ==
    ASSUME BridgeIInv, NEW s \in Sessions, Alone(s), UNCHANGED got,
           NEW c \in {"200", "400", "500", "cut"}, EndBatch(s, c),
           NEW b \in Batches, batch' = [batch EXCEPT ![s] = b],
           c = "200" => bphase[s] = "batch" /\ b = batch[s] /\ ~ Unanswered(s)
    PROVE  BridgeIInv'
<1>1. BridgeTypeOK'
  BY DEF BridgeIInv, BridgeTypeOK, EndBatch, Alone, probeVars
<1>2. SessionSound(s)
  BY Pointwise DEF BridgeIInv
<1>3. SessionSound(s)'
  <2>1. CASE c = "200"
    <3>1. /\ bphase'[s] = "answered" /\ status'[s] = "200" /\ answer'[s] = answer[s]
          /\ batch'[s] = batch[s] /\ got'[s] = got[s] /\ b = batch[s]
      BY <2>1 DEF EndBatch, BridgeIInv, BridgeTypeOK
    <3>2. AlreadyStored' = AlreadyStored
      BY DEF Alone, vars, indexVars, AlreadyStored, FilesWith, Registered
    <3>3. Len(answer[s]) = Len(batch[s].objects)
      <4>1. /\ answer[s] \in Seq(LfsBatchObject)
            /\ b.objects \in Seq([oid : Oids \cup Chunks \cup {Empty}])
        <5>1. answer \in [Sessions -> Seq(LfsBatchObject)]
          BY DEF BridgeIInv, BridgeTypeOK
        <5> QED
          BY <5>1, BatchesAssumption
      <4>2. Len(answer[s]) \in Nat /\ Len(b.objects) \in Nat
        BY <4>1
      <4> QED
        BY <2>1, <3>1, <4>2, <1>2 DEF SessionSound, Unanswered
    <3>4. \A i \in DOMAIN answer[s] : Sound(batch[s], answer[s][i])'
      BY <1>2, <3>1, <3>2, SoundStays DEF SessionSound
    <3> QED
      BY <1>2, <3>1, <3>3, <3>4, <2>1 DEF SessionSound, Sound
  <2>2. CASE c # "200"
    <3>1. /\ bphase'[s] = "ended" /\ status'[s] = c /\ answer'[s] = <<>> /\ got'[s] = got[s]
      BY <2>2 DEF EndBatch, BridgeIInv, BridgeTypeOK
    <3>2. DOMAIN answer'[s] = {}
      BY <3>1
    <3> QED
      BY <1>2, <3>1, <3>2 DEF SessionSound
  <2> QED
    BY <2>1, <2>2
<1> QED
  BY <1>1, <1>3, AloneInv

LEMMA ArrivesStep ==
    ASSUME BridgeIInv, NEW s \in Sessions, NEW b \in Batches,
           Arrives(s, b) \/ ArrivesRefused(s, b)
    PROVE  BridgeIInv'
<1>1. CASE Arrives(s, b)
  <2>1. BridgeTypeOK'
    BY <1>1 DEF BridgeIInv, BridgeTypeOK, Arrives, probeVars
  <2>2. Alone(s)
    BY <1>1 DEF Alone, Arrives, BridgeIInv, BridgeTypeOK
  <2>3. /\ bphase'[s] = "batch" /\ batch'[s] = b /\ answer'[s] = answer[s]
        /\ status'[s] = status[s] /\ got'[s] = got[s]
    BY <1>1 DEF Arrives, BridgeIInv, BridgeTypeOK
  <2>4. SessionSound(s) /\ bphase[s] = "idle" /\ ValidLfsBatchRequest(b)
    BY <1>1, Pointwise DEF Arrives, BridgeIInv
  <2>5. answer'[s] = <<>> /\ DOMAIN answer'[s] = {} /\ Len(answer'[s]) = 0
    BY <2>3, <2>4 DEF SessionSound
  <2>6. Len(b.objects) \in Nat
    OBVIOUS
  <2>7. ValidLfsBatchRequest(b)'
    BY <2>4 DEF ValidLfsBatchRequest, ValidLfsObjectSpec, IsHashHex
  <2>8. SessionSound(s)'
    BY <2>3, <2>4, <2>5, <2>6, <2>7 DEF SessionSound
  <2> QED
    BY <2>1, <2>2, <2>8, AloneInv
<1>2. CASE ArrivesRefused(s, b)
  <2>1. Alone(s)
    BY <1>2 DEF Alone, ArrivesRefused, EndBatch, BridgeIInv, BridgeTypeOK
  <2> QED
    BY <1>2, <2>1, EndBatchStep DEF ArrivesRefused
<1> QED
  BY <1>1, <1>2

\* The answer passes its own validation: each of its objects does.
LEMMA ResponseValid ==
    ASSUME NEW s \in Sessions, SessionSound(s)
    PROVE  ValidLfsBatchResponse(Response(s))
BY DEF ValidLfsBatchResponse, Response, SessionSound, Sound

LEMMA BatchEndsStep ==
    ASSUME BridgeIInv, NEW s \in Sessions, LookUpFails(s) \/ Reply(s) \/ BatchGoes(s)
    PROVE  BridgeIInv'
<1>1. bphase[s] = "batch" /\ SessionSound(s) /\ batch[s] \in Batches
  BY Pointwise DEF LookUpFails, Reply, BatchGoes, Unanswered, BridgeIInv, SessionSound
<1>2. batch' = [batch EXCEPT ![s] = batch[s]] /\ UNCHANGED got
  BY DEF LookUpFails, Reply, BatchGoes, BridgeIInv, BridgeTypeOK
<1>3. Alone(s)
  BY DEF Alone, LookUpFails, Reply, BatchGoes, EndBatch, BridgeIInv, BridgeTypeOK
<1>4. \/ EndBatch(s, "500") \/ EndBatch(s, "cut")
      \/ ~ Unanswered(s) /\ EndBatch(s, "200")
  BY <1>1, ResponseValid DEF LookUpFails, Reply, BatchGoes
<1>5. CASE EndBatch(s, "500")
  BY <1>1, <1>2, <1>3, <1>5, EndBatchStep
<1>6. CASE EndBatch(s, "cut")
  BY <1>1, <1>2, <1>3, <1>6, EndBatchStep
<1>7. CASE ~ Unanswered(s) /\ EndBatch(s, "200")
  BY <1>1, <1>2, <1>3, <1>7, EndBatchStep
<1> QED
  BY <1>4, <1>5, <1>6, <1>7

LEMMA AnswerObjectStep ==
    ASSUME BridgeIInv, NEW s \in Sessions, AnswerObject(s)
    PROVE  BridgeIInv'
<1> DEFINE b == batch[s]
           n == Len(answer[s])
           o == b.objects[n + 1].oid
           a == AnswerFor(b, o)
<1>1. /\ SessionSound(s) /\ bphase[s] = "batch" /\ n < Len(b.objects)
      /\ answer[s] \in Seq(LfsBatchObject)
  BY Pointwise DEF AnswerObject, Unanswered, BridgeIInv, BridgeTypeOK
<1>2. b \in Batches /\ ValidLfsBatchRequest(b)
  BY <1>1 DEF SessionSound
<1>3. n \in Nat /\ Len(b.objects) \in Nat /\ n + 1 \in DOMAIN b.objects
  BY <1>1, <1>2
<1>4. o \in Oids \cup Chunks
  BY <1>2, <1>3 DEF ValidLfsBatchRequest, ValidLfsObjectSpec, IsHashHex
<1>5. a.oid = o /\ Sound(b, a)
  BY <1>2, <1>4, AnswerSound DEF BridgeIInv, IInv
<1> HIDE DEF a
<1>6. a \in LfsBatchObject
  BY <1>5 DEF Sound
<1>7. answer' = [answer EXCEPT ![s] = Append(answer[s], a)]
  BY DEF AnswerObject, a
<1>8. /\ Append(answer[s], a) \in Seq(LfsBatchObject)
      /\ Len(Append(answer[s], a)) = n + 1
      /\ DOMAIN Append(answer[s], a) = 1 .. n + 1
      /\ \A i \in 1 .. n : Append(answer[s], a)[i] = answer[s][i]
      /\ Append(answer[s], a)[n + 1] = a
  BY <1>1, <1>3, <1>6
<1>9. answer'[s] = Append(answer[s], a)
  BY <1>7 DEF BridgeIInv, BridgeTypeOK
<1>10. BridgeTypeOK'
  BY <1>7, <1>8 DEF BridgeIInv, BridgeTypeOK, AnswerObject, probeVars
<1>11. Alone(s)
  BY <1>7 DEF Alone, AnswerObject, BridgeIInv, BridgeTypeOK
<1>12. /\ bphase'[s] = "batch" /\ batch'[s] = b /\ status'[s] = status[s] /\ got'[s] = got[s]
       /\ AlreadyStored' = AlreadyStored
  BY <1>1 DEF AnswerObject, vars, indexVars, AlreadyStored, FilesWith, Registered
<1>13. \A i \in 1 .. n + 1 :
           answer'[s][i].oid = b.objects[i].oid /\ Sound(b, answer'[s][i])
  <2>1. \A i \in 1 .. n : answer[s][i].oid = b.objects[i].oid /\ Sound(b, answer[s][i])
    BY <1>1, <1>3 DEF SessionSound
  <2>2. \A i \in 1 .. n + 1 : i \in 1 .. n \/ i = n + 1
    BY <1>3
  <2> QED
    BY <1>5, <1>8, <1>9, <2>1, <2>2
<1>14. \A i \in DOMAIN answer'[s] :
           answer'[s][i].oid = batch'[s].objects[i].oid /\ Sound(batch[s], answer[s][i])'
  <2>1. ASSUME NEW i \in DOMAIN answer'[s]
        PROVE  answer'[s][i].oid = b.objects[i].oid /\ Sound(b, answer'[s][i])
    BY <1>8, <1>9, <1>13, <2>1
  <2>2. ASSUME NEW i, Sound(b, answer'[s][i]) PROVE Sound(batch[s], answer[s][i])'
    BY <1>12, <2>2 DEF Sound, Honest, Skipped, EmbedsAuthorization, OffersXet,
       ForwardedAuthorization, ValidLfsBatchObject, ValidLfsAction, NonEmpty
  <2> HIDE DEF b
  <2> QED
    BY <1>12, <2>1, <2>2
<1>15. Len(answer'[s]) <= Len(b.objects)
  BY <1>1, <1>3, <1>8, <1>9
<1>16. SessionSound(s)'
  BY <1>1, <1>2, <1>12, <1>14, <1>15 DEF SessionSound
<1> QED
  BY <1>10, <1>11, <1>16, AloneInv

\* The promise of a download action: the file is found, has the content, and no
\* proxy stops the request, which carries the credential the batch came with.
LEMMA FetchStep ==
    ASSUME BridgeIInv, NEW s \in Sessions, NEW i \in DOMAIN answer[s], NEW file \in Outcomes,
           Fetch(s, answer[s][i], file)
    PROVE  BridgeIInv'
<1> DEFINE b == batch[s]
           a == answer[s][i]
<1>1. SessionSound(s) /\ bphase[s] = "answered" /\ "download" \in DOMAIN a.actions
  BY Pointwise DEF Fetch, BridgeIInv
<1>2. b \in Batches /\ Sound(b, a)
  BY <1>1 DEF SessionSound
<1>3. a \in LfsBatchObject /\ a.oid \in Oids \cup Chunks
  BY <1>2 DEF Sound, LfsBatchObject
<1>4. Carried(b, a) = ForwardedAuthorization(b)
  BY <1>1, <1>2 DEF Carried, Sound
<1>5. ~ (b.proxied /\ Carried(b, a) = None)
  BY <1>2, <1>4 DEF ForwardedAuthorization
<1>6. FilesWith(a.oid) # {} /\ a.oid \in Oids
  BY <1>1, <1>2 DEF Sound, AlreadyStored
<1>7. file \in FilesWith(a.oid)
  BY <1>5, <1>6 DEF Fetch, Serves
<1>8. file \in Files /\ OidOf[file] = a.oid
  BY <1>6, <1>7 DEF FilesWith, BridgeIInv, IInv, OidTruthful
<1>9. got' = [got EXCEPT ![s] = [oid |-> a.oid, file |-> file]]
  BY DEF Fetch
<1>10. [oid |-> a.oid, file |-> file] \in [oid : Oids \cup Chunks, file : Outcomes]
  BY <1>3
<1>11. BridgeTypeOK'
  <2>1. got' \in [Sessions -> [oid : Oids \cup Chunks, file : Outcomes] \cup {None}]
    BY <1>9, <1>10 DEF BridgeIInv, BridgeTypeOK
  <2> QED
    BY <2>1 DEF BridgeIInv, BridgeTypeOK, Fetch, probeVars
<1>12. Alone(s)
  BY <1>9 DEF Alone, Fetch, BridgeIInv, BridgeTypeOK
<1>13. /\ bphase' = bphase /\ batch' = batch /\ answer' = answer /\ status' = status
       /\ AlreadyStored' = AlreadyStored
       /\ got'[s] = [oid |-> a.oid, file |-> file]
  BY <1>9 DEF Fetch, vars, indexVars, AlreadyStored, FilesWith, Registered,
     BridgeIInv, BridgeTypeOK
<1>14. \A j \in DOMAIN answer[s] : Sound(batch[s], answer[s][j])'
  BY <1>1, <1>13, SoundStays DEF SessionSound
<1>15. SessionSound(s)'
  BY <1>1, <1>8, <1>13, <1>14 DEF SessionSound
<1> QED
  BY <1>11, <1>12, <1>15, AloneInv

-------------------------------------------------------------------------------
(* The other steps.                                                        *)

\* Whatever the step, what it leaves alone stays sound.
LEMMA Grows ==
    ASSUME BridgeIInv, [BridgeNext]_bridgeVars
    PROVE  IInv' /\ AlreadyStored \subseteq AlreadyStored' /\ xorbs \subseteq xorbs'
BY RegistryStep, StepInv, XorbsGrow, PermanentStep DEF BridgeIInv, Permanent

LEMMA FromParts ==
    ASSUME IInv', BridgeTypeOK', \A s \in Sessions : SessionSound(s)',
           \A p \in Probes : ProbeSound(p)'
    PROVE  BridgeIInv'
BY PointwiseNext DEF BridgeIInv

LEMMA ProbeStep ==
    ASSUME BridgeIInv, [BridgeNext]_bridgeVars, NEW p \in Probes,
           \/ \E m \in Queries :
                 \/ ProbeRefused(p, m) \/ LookUpChunkFails(p, m)
                 \/ ProbeMisses(p, m) \/ ProbeFinds(p, m)
           \/ ProbeEnds(p) \/ ProbeFails(p)
    PROVE  BridgeIInv'
<1>1. /\ IInv' /\ AlreadyStored' = AlreadyStored /\ xorbs' = xorbs /\ UNCHANGED sessionVars
  <2>1. UNCHANGED vars /\ UNCHANGED sessionVars
    BY DEF ProbeRefused, LookUpChunkFails, ProbeMisses, ProbeFinds, ProbeEnds, ProbeFails
  <2> QED
    BY <2>1, Grows DEF vars, indexVars, AlreadyStored, FilesWith, Registered
<1>2. \A s \in Sessions : SessionSound(s)'
  BY <1>1, SessionStays, Pointwise DEF BridgeIInv, sessionVars
<1>3. \A r \in Probes \ {p} :
          /\ pphase'[r] = pphase[r] /\ query'[r] = query[r] /\ home'[r] = home[r]
          /\ code'[r] = code[r] /\ sent'[r] = sent[r]
  BY DEF ProbeRefused, LookUpChunkFails, ProbeMisses, ProbeFinds, ProbeEnds, ProbeFails, EndProbe,
     BridgeIInv, BridgeTypeOK
<1>4. ProbeSound(p) /\ \A r \in Probes : ProbeSound(r)
  BY Pointwise DEF BridgeIInv
<1>5. ProbeSound(p)' /\ BridgeTypeOK'
  <2>1. ASSUME NEW m \in Queries,
               ProbeRefused(p, m) \/ LookUpChunkFails(p, m) \/ ProbeMisses(p, m)
        PROVE  ProbeSound(p)' /\ BridgeTypeOK'
    <3>1. PICK c \in {"400", "404", "500"} :
              /\ EndProbe(p, c) /\ query' = [query EXCEPT ![p] = m]
              /\ pphase[p] = "idle" /\ sent' = sent
      BY <2>1 DEF ProbeRefused, LookUpChunkFails, ProbeMisses
    <3>2. BridgeTypeOK'
      BY <1>1, <3>1 DEF EndProbe, BridgeIInv, BridgeTypeOK, sessionVars
    <3>3. sent'[p] = None /\ pphase'[p] = "ended" /\ code'[p] = c
      BY <1>4, <3>1 DEF EndProbe, ProbeSound, BridgeIInv, BridgeTypeOK
    <3> QED
      BY <3>2, <3>3 DEF ProbeSound
  <2>2. ASSUME NEW m \in Queries, ProbeFinds(p, m)
        PROVE  ProbeSound(p)' /\ BridgeTypeOK'
    <3>1. m.hash \in Chunks
      BY <2>2 DEF ProbeFinds, ValidChunkDedupQuery, IsHashHex
    <3>2. chunkHome[m.hash] \in xorbs /\ m.hash \in ChunksIn[chunkHome[m.hash]]
      BY <2>2, <3>1 DEF ProbeFinds, BridgeIInv, IInv, DedupTruthful
    <3>3. xorbs \subseteq Xorbs
      BY DEF BridgeIInv, IInv, TypeOK
    <3> QED
      BY <1>1, <1>4, <2>2, <3>2, <3>3 DEF ProbeFinds, ProbeSound, BridgeIInv,
         BridgeTypeOK, sessionVars
  <2>3. CASE ProbeEnds(p)
    <3>1. home[p] \in xorbs /\ query[p].hash \in ChunksIn[home[p]]
      BY <1>4, <2>3 DEF ProbeEnds, ProbeSound
    <3>2. DedupShard(home[p]) \in DedupShards
      <4>1. home[p] \in Xorbs
        BY <3>1 DEF BridgeIInv, IInv, TypeOK
      <4>2. ChunksIn[home[p]] \in SUBSET Chunks
        BY <4>1, XorbsAssumption
      <4> QED
        BY <4>1, <4>2 DEF DedupShard, DedupShards
    <3>3. /\ EndProbe(p, "200") /\ query' = query
          /\ sent' = [sent EXCEPT ![p] = DedupShard(home[p])]
      BY <2>3, <3>1 DEF ProbeEnds
    <3>4. BridgeTypeOK'
      BY <1>1, <3>2, <3>3 DEF EndProbe, BridgeIInv, BridgeTypeOK, sessionVars
    <3>5. /\ pphase'[p] = "ended" /\ code'[p] = "200" /\ query'[p] = query[p]
          /\ sent'[p] = DedupShard(home[p])
      BY <3>3 DEF EndProbe, BridgeIInv, BridgeTypeOK
    <3> QED
      BY <1>1, <3>1, <3>4, <3>5 DEF DedupShard, ProbeSound
  <2>4. CASE ProbeFails(p)
    BY <1>1, <1>4, <2>4 DEF ProbeFails, EndProbe, ProbeSound, BridgeIInv,
       BridgeTypeOK, sessionVars
  <2> QED
    BY <2>1, <2>2, <2>3, <2>4
<1>6. \A r \in Probes : ProbeSound(r)'
  BY <1>1, <1>3, <1>4, <1>5, ProbeStays
<1> QED
  BY <1>1, <1>2, <1>5, <1>6, FromParts

\* A step of Registry under way: sessions and probes keep what they have.
LEMMA ServerStep ==
    ASSUME BridgeIInv, [BridgeNext]_bridgeVars, UNCHANGED <<sessionVars, probeVars>>
    PROVE  BridgeIInv'
<1>1. /\ \A s \in Sessions : SessionSound(s)
      /\ \A p \in Probes : ProbeSound(p)
  BY Pointwise DEF BridgeIInv
<1>2. \A s \in Sessions : SessionSound(s)'
  BY <1>1, Grows, SessionStays DEF sessionVars
<1>3. \A p \in Probes : ProbeSound(p)'
  BY <1>1, Grows, ProbeStays DEF probeVars
<1>4. BridgeTypeOK'
  BY DEF BridgeIInv, BridgeTypeOK, sessionVars, probeVars
<1> QED
  BY <1>2, <1>3, <1>4, Grows, FromParts

LEMMA RestartStep == ASSUME BridgeIInv, Restart PROVE BridgeIInv'
<1>1. /\ \A s \in Sessions : SessionSound(s)
      /\ \A p \in Probes : ProbeSound(p)
  BY Pointwise DEF BridgeIInv
<1>2. IInv' /\ AlreadyStored \subseteq AlreadyStored' /\ xorbs \subseteq xorbs'
  BY Grows DEF BridgeNext
<1>3. BridgeTypeOK'
  BY DEF Restart, Cut, CutProbe, BridgeIInv, BridgeTypeOK
<1>4. ASSUME NEW s \in Sessions PROVE SessionSound(s)'
  <2>1. CASE Cut(s)
    <3>1. /\ bphase'[s] = "ended" /\ status'[s] = "cut" /\ answer'[s] = <<>>
          /\ DOMAIN answer'[s] = {} /\ got'[s] = got[s]
      BY <2>1 DEF Restart, BridgeIInv, BridgeTypeOK
    <3> QED
      BY <1>1, <3>1 DEF SessionSound
  <2>2. CASE ~ Cut(s)
    BY <1>1, <1>2, <2>2, SessionStays DEF Restart, BridgeIInv, BridgeTypeOK
  <2> QED
    BY <2>1, <2>2
<1>5. ASSUME NEW p \in Probes PROVE ProbeSound(p)'
  BY <1>1, <1>2 DEF Restart, CutProbe, ProbeSound, BridgeIInv, BridgeTypeOK
<1> QED
  BY <1>2, <1>3, <1>4, <1>5, FromParts

LEMMA BridgeInitInv == ASSUME BridgeInit PROVE BridgeIInv
<1>1. IInv
  BY InitInv DEF BridgeInit
<1>2. BridgeTypeOK
  BY DEF BridgeInit, BridgeTypeOK
<1>3. \A s \in Sessions : answer[s] = <<>> /\ DOMAIN answer[s] = {}
  BY DEF BridgeInit
<1>4. \A s \in Sessions : SessionSound(s)
  BY <1>3 DEF BridgeInit, SessionSound
<1>5. \A p \in Probes : ProbeSound(p)
  BY DEF BridgeInit, ProbeSound
<1> QED
  BY <1>1, <1>2, <1>4, <1>5, Pointwise DEF BridgeIInv

LEMMA BridgeStepInv == ASSUME BridgeIInv, [BridgeNext]_bridgeVars PROVE BridgeIInv'
<1>1. CASE Restart
  BY <1>1, RestartStep
<1>2. CASE UNCHANGED <<sessionVars, probeVars>>
  BY <1>2, ServerStep
<1>3. ASSUME NEW s \in Sessions, NEW b \in Batches, Arrives(s, b) \/ ArrivesRefused(s, b)
      PROVE  BridgeIInv'
  BY <1>3, ArrivesStep
<1>4. ASSUME NEW s \in Sessions, AnswerObject(s) PROVE BridgeIInv'
  BY <1>4, AnswerObjectStep
<1>5. ASSUME NEW s \in Sessions, LookUpFails(s) \/ Reply(s) \/ BatchGoes(s)
      PROVE  BridgeIInv'
  BY <1>5, BatchEndsStep
<1>6. ASSUME NEW s \in Sessions, NEW i \in DOMAIN answer[s], NEW file \in Outcomes,
             Fetch(s, answer[s][i], file)
      PROVE  BridgeIInv'
  BY <1>6, FetchStep
<1>7. ASSUME NEW p \in Probes,
             \/ \E m \in Queries :
                   \/ ProbeRefused(p, m) \/ LookUpChunkFails(p, m)
                   \/ ProbeMisses(p, m) \/ ProbeFinds(p, m)
             \/ ProbeEnds(p) \/ ProbeFails(p)
      PROVE  BridgeIInv'
  BY <1>7, ProbeStep
<1>8. CASE UNCHANGED bridgeVars
  BY <1>8, <1>2 DEF bridgeVars
<1> QED
  BY <1>1, <1>2, <1>3, <1>4, <1>5, <1>6, <1>7, <1>8 DEF BridgeNext

-------------------------------------------------------------------------------
\* The invariant holds in every reachable state of server, sessions and probes.
THEOREM BridgeInvariance == BridgeSpec => []BridgeIInv
<1>1. BridgeInit => BridgeIInv
  BY BridgeInitInv
<1>2. BridgeIInv /\ [BridgeNext]_bridgeVars => BridgeIInv'
  BY BridgeStepInv
<1> QED
  BY <1>1, <1>2, PTL DEF BridgeSpec

\* Answering batches and probes is invisible to registration: with the bridge
\* the server still implements Registry, and keeps all its promises.
THEOREM ImplementsRegistry == BridgeSpec => Spec
<1>1. BridgeInit => Init
  BY DEF BridgeInit
<1>2. BridgeIInv /\ [BridgeNext]_bridgeVars => [Next]_vars
  BY RegistryStep DEF BridgeIInv
<1> QED
  BY <1>1, <1>2, BridgeInvariance, PTL DEF BridgeSpec, Spec

\* What git-lfs was told to skip is there, for good.
THEOREM SkipsKept == BridgeSpec => []SkipKept
<1>1. BridgeIInv => SkipKept
  BY DEF BridgeIInv
<1> QED
  BY <1>1, BridgeInvariance, PTL

\* Every download action that is followed gives content with its oid.
THEOREM ActionsServed == BridgeSpec => []ActionServed
<1>1. BridgeIInv => ActionServed
  BY DEF BridgeIInv
<1> QED
  BY <1>1, BridgeInvariance, PTL

\* A probe's two reads never disagree, and its shard holds the chunk.
THEOREM ProbesServed == BridgeSpec => []ProbeServed
<1>1. BridgeIInv => ProbeServed
  BY DEF BridgeIInv
<1> QED
  BY <1>1, BridgeInvariance, PTL

\* Batches are answered in full, in order, and the flag tells the truth.
THEOREM Honesty == BridgeSpec => []AnswersHonest
<1>1. BridgeIInv => AnswersHonest
  BY DEF BridgeIInv
<1> QED
  BY <1>1, BridgeInvariance, PTL
===============================================================================
