-------------------------------- MODULE Registry ------------------------------
(***************************************************************************)
(* Registering shards (routes/shards.rs, upload) in the index (index.rs),  *)
(* while xorb uploads index more xorbs and the LFS bridge (routes/lfs.rs)  *)
(* answers from it.  The handler reads the xorbs a shard refers to, checks *)
(* every file against them, checks the SHA-256 each file claims, and       *)
(* inserts files and dedup rows in one transaction.  No lock spans these   *)
(* steps.  The insert is a blocking job: it outlives a client that left.   *)
(*                                                                         *)
(* A file hash stands for a list of chunks, a recipe for one way to take   *)
(* that list from xorbs.  Two file hashes may have the same content and so *)
(* the same SHA-256 (another chunker).  A client may send no SHA-256 at    *)
(* all (Sha256Policy::Skip).  Nothing deletes from the index.              *)
(*                                                                         *)
(* Hashes do not collide.  Mut_X is X with a plausible bug in it.          *)
(***************************************************************************)
EXTENDS Naturals, FiniteSets

CONSTANTS Requests,   \* POST /v1/shards requests
          Shards,     \* the shards they may carry
          Xorbs, Chunks, Files, Recipes,
          Oids,       \* SHA-256 digests: git-lfs oids
          ChunksIn,   \* ChunksIn[x]: the chunks of xorb x
          Eligible,   \* Eligible[x]: those its upload indexes for dedup
          FileOf,     \* FileOf[r]: the file hash the chunks of r have
          XorbsOf,    \* XorbsOf[r]: the xorbs r takes them from
          FirstRow,   \* FirstRow[r]: {<<first chunk, its xorb>>}, {} if r is empty
          OidOf,      \* OidOf[f]: the SHA-256 of the content of f
          None

Records == [recipe: Recipes, sha: Oids \cup {None}]

\* A file of a shard: honest if its hash, lengths and range hashes are those
\* that its terms have in our xorbs.
Entries == [recipe: Recipes, sha: Oids \cup {None}, honest: BOOLEAN]
Rows == Chunks \X Xorbs

ASSUME NoneAssumption == None \notin Xorbs \cup Oids \cup Shards \cup Records
ASSUME ShardsAssumption ==
    \A s \in Shards : s.files \subseteq Entries /\ s.hints \subseteq Rows
ASSUME XorbsAssumption ==
    /\ ChunksIn \in [Xorbs -> SUBSET Chunks]
    /\ Eligible \in [Xorbs -> SUBSET Chunks]
    /\ \A x \in Xorbs : Eligible[x] \subseteq ChunksIn[x]
ASSUME RecipesAssumption ==
    /\ FileOf \in [Recipes -> Files]
    /\ XorbsOf \in [Recipes -> SUBSET Xorbs]
    /\ FirstRow \in [Recipes -> SUBSET Rows]
    /\ \A r \in Recipes : \A row \in FirstRow[r] :
          row[2] \in XorbsOf[r] /\ row[1] \in ChunksIn[row[2]]
ASSUME OidsAssumption == OidOf \in [Files -> Oids]

VARIABLES
    phase,      \* phase[q]: where the handler of q is
    shard,      \* shard[q]: what q uploads
    todo,       \* todo[q]: its files whose SHA-256 is still to be checked
    rows,       \* rows[q]: the dedup rows it will insert
    inserting,  \* requests whose put_files job has not run yet
    result,     \* result[q]: how q ended
    xorbs,      \* indexed xorbs
    files,      \* files[f]: the record of f
    chunkHome   \* chunkHome[c]: the xorb that answers a dedup probe for c

handlerVars == <<phase, shard, todo, rows, inserting, result>>
indexVars == <<xorbs, files, chunkHome>>
vars == <<handlerVars, indexVars>>

TypeOK ==
    /\ phase \in [Requests -> {"idle", "decoded", "verifying", "inserting", "ended"}]
    /\ shard \in [Requests -> Shards \cup {None}]
    /\ todo \in [Requests -> SUBSET Entries]
    /\ rows \in [Requests -> SUBSET Rows]
    /\ inserting \in SUBSET Requests
    /\ result \in [Requests -> {"none", "performed", "exists", "refused", "error",
                                "gone", "killed"}]
    /\ xorbs \in SUBSET Xorbs
    /\ files \in [Files -> Records \cup {None}]
    /\ chunkHome \in [Chunks -> Xorbs \cup {None}]

Init ==
    /\ phase = [q \in Requests |-> "idle"]
    /\ shard = [q \in Requests |-> None]
    /\ todo = [q \in Requests |-> {}]
    /\ rows = [q \in Requests |-> {}]
    /\ inserting = {}
    /\ result = [q \in Requests |-> "none"]
    /\ xorbs = {}
    /\ files = [f \in Files |-> None]
    /\ chunkHome = [c \in Chunks |-> None]

Alive(q) == phase[q] \notin {"idle", "ended"}
Registered(f) == files[f] # None
FilesOf(s) == {FileOf[e.recipe] : e \in s.files}

End(q, r) ==
    /\ phase' = [phase EXCEPT ![q] = "ended"]
    /\ result' = [result EXCEPT ![q] = r]
    /\ todo' = [todo EXCEPT ![q] = {}]

\* INSERT OR IGNORE INTO chunks: a chunk keeps the home it has; of several new
\* rows for one chunk the first wins, in an order the client chose.
InsertRows(R) ==
    \E first \in [{row[1] : row \in R} -> R] :
        /\ \A c \in DOMAIN first : first[c][1] = c
        /\ chunkHome' = [c \in Chunks |->
                            IF chunkHome[c] = None /\ c \in DOMAIN first
                              THEN first[c][2] ELSE chunkHome[c]]

-------------------------------------------------------------------------------
\* A xorb upload commits (XorbUpload, RunInsert).
UploadXorb(x) ==
    /\ x \notin xorbs
    /\ xorbs' = xorbs \cup {x}
    /\ InsertRows(Eligible[x] \X {x})
    /\ UNCHANGED <<handlerVars, files>>

\* An authorised body that decodes to the shard s.
Arrive(q, s) ==
    /\ phase[q] = "idle"
    /\ phase' = [phase EXCEPT ![q] = "decoded"]
    /\ shard' = [shard EXCEPT ![q] = s]
    /\ UNCHANGED <<todo, rows, inserting, result, indexVars>>

\* Every file has the hash and the lengths it claims, and we hold its xorbs.
\* The mutant takes a xorb on trust.
Mut_Checks(s) == \A e \in s.files : e.honest
Checks(s) == \A e \in s.files : e.honest /\ XorbsOf[e.recipe] \subseteq xorbs

\* A dedup hint that our own xorb bears out; the mutant only looks whether we
\* hold the xorb.
Mut_Corroborated(row) == row[2] \in xorbs
Corroborated(row) == row[2] \in xorbs /\ row[1] \in ChunksIn[row[2]]

FirstRows(s) == UNION {FirstRow[e.recipe] : e \in s.files}

RowsFor(s) == {row \in s.hints : Corroborated(row)} \cup FirstRows(s)

\* get_xorbs, then build_records on what it returned.
Build(q) ==
    /\ phase[q] = "decoded"
    /\ Checks(shard[q])
    /\ phase' = [phase EXCEPT ![q] = "verifying"]
    /\ todo' = [todo EXCEPT ![q] = shard[q].files]
    /\ rows' = [rows EXCEPT ![q] = RowsFor(shard[q])]
    /\ UNCHANGED <<shard, inserting, result, indexVars>>

BuildRefused(q) ==
    /\ phase[q] = "decoded"
    /\ ~ Checks(shard[q])
    /\ End(q, "refused")
    /\ UNCHANGED <<shard, rows, inserting, indexVars>>

\* verify_sha256 does not hash a file without a claim, nor one that is already
\* registered with this very claim.  The mutant skips a claim anybody has made.
Mut_NeedsNoHash(e) ==
    \/ e.sha = None
    \/ \E f \in Files : Registered(f) /\ files[f].sha = e.sha

NeedsNoHash(e) ==
    \/ e.sha = None
    \/ LET f == FileOf[e.recipe] IN Registered(f) /\ files[f].sha = e.sha

\* One file passes: it needs no hash, or its content hashes to its claim.
Verify(q, e) ==
    /\ phase[q] = "verifying" /\ e \in todo[q]
    /\ NeedsNoHash(e) \/ OidOf[FileOf[e.recipe]] = e.sha
    /\ todo' = [todo EXCEPT ![q] = @ \ {e}]
    /\ UNCHANGED <<phase, shard, rows, inserting, result, indexVars>>

VerifyRefused(q, e) ==
    /\ phase[q] = "verifying" /\ e \in todo[q]
    /\ ~ NeedsNoHash(e) /\ OidOf[FileOf[e.recipe]] # e.sha
    /\ End(q, "refused")
    /\ UNCHANGED <<shard, rows, inserting, indexVars>>

StartInsert(q) ==
    /\ phase[q] = "verifying" /\ todo[q] = {}
    /\ phase' = [phase EXCEPT ![q] = "inserting"]
    /\ inserting' = inserting \cup {q}
    /\ UNCHANGED <<shard, todo, rows, result, indexVars>>

RecordOf(e) == [recipe |-> e.recipe, sha |-> e.sha]

\* The order of the files of a shard: which entry of each file comes first.
FirstEntries(s) ==
    {g \in [FilesOf(s) -> s.files] : \A f \in DOMAIN g : FileOf[g[f].recipe] = f}

\* INSERT OR IGNORE INTO files; the mutant replaces what is there.
Mut_InsertFiles(s) ==
    \E first \in FirstEntries(s) :
        files' = [f \in Files |->
                    IF f \in FilesOf(s) THEN RecordOf(first[f]) ELSE files[f]]

InsertFiles(s) ==
    \E first \in FirstEntries(s) :
        files' = [f \in Files |->
                    IF ~ Registered(f) /\ f \in FilesOf(s)
                      THEN RecordOf(first[f]) ELSE files[f]]

NewFiles(s) == {f \in FilesOf(s) : ~ Registered(f)}

\* put_files, and its answer if anybody waits for it.
PutFiles(q) ==
    /\ q \in inserting
    /\ inserting' = inserting \ {q}
    /\ InsertFiles(shard[q])
    /\ InsertRows(rows[q])
    /\ IF Alive(q)
         THEN End(q, IF NewFiles(shard[q]) = {} THEN "exists" ELSE "performed")
         ELSE UNCHANGED <<phase, result, todo>>
    /\ UNCHANGED <<shard, rows, xorbs>>

\* The answer is taken for success.
Mut_PutFails(q) ==
    /\ q \in inserting
    /\ inserting' = inserting \ {q}
    /\ IF Alive(q) THEN End(q, "exists") ELSE UNCHANGED <<phase, result, todo>>
    /\ UNCHANGED <<shard, rows, indexVars>>

PutFails(q) ==
    /\ q \in inserting
    /\ inserting' = inserting \ {q}
    /\ IF Alive(q) THEN End(q, "error") ELSE UNCHANGED <<phase, result, todo>>
    /\ UNCHANGED <<shard, rows, indexVars>>

\* A query fails, or an object that has to be hashed cannot be read.
ReadFails(q) ==
    /\ phase[q] \in {"decoded", "verifying"}
    /\ End(q, "error")
    /\ UNCHANGED <<shard, rows, inserting, indexVars>>

-------------------------------------------------------------------------------
\* The client goes away: the handler is dropped, its insert is not.
Disconnect(q) ==
    /\ Alive(q)
    /\ End(q, "gone")
    /\ UNCHANGED <<shard, rows, inserting, indexVars>>

KillHandlers ==
    /\ phase' = [q \in Requests |-> IF Alive(q) THEN "ended" ELSE phase[q]]
    /\ result' = [q \in Requests |-> IF Alive(q) THEN "killed" ELSE result[q]]
    /\ todo' = [q \in Requests |-> {}]
    /\ inserting' = {}
    /\ UNCHANGED <<shard, rows, indexVars>>

Kill == (inserting # {} \/ \E q \in Requests : Alive(q)) /\ KillHandlers

Step ==
    \/ \E x \in Xorbs : UploadXorb(x)
    \/ \E q \in Requests :
          \/ \E s \in Shards : Arrive(q, s)
          \/ Build(q) \/ BuildRefused(q)
          \/ \E e \in todo[q] : Verify(q, e) \/ VerifyRefused(q, e)
          \/ StartInsert(q) \/ PutFiles(q) \/ PutFails(q) \/ ReadFails(q)
          \/ Disconnect(q)

Next == Kill \/ Step

Spec == Init /\ [][Next]_vars

-------------------------------------------------------------------------------
\* file_by_sha256: the files that a download of oid o may be served from.
FilesWith(o) == {f \in Files : Registered(f) /\ files[f].sha = o}

\* An LFS upload batch answers "already stored" for these oids, and git-lfs
\* then never sends them.
AlreadyStored == {o \in Oids : FilesWith(o) # {}}

Acknowledged(q) == result[q] \in {"performed", "exists"}

\* shards.rs:305-308: an oid that is reported as stored is served with content
\* that has this oid, whatever the registrations of other files claim at the
\* same time: no claim is squatted.
OidTruthful ==
    \A o \in Oids : \A f \in FilesWith(o) : OidOf[f] = o

\* Whatever is registered can be reconstructed, and gives the bytes of its
\* hash: its terms name xorbs we hold, and have the file hash it is filed by.
RegisteredServable ==
    \A f \in Files : Registered(f) =>
        /\ XorbsOf[files[f].recipe] \subseteq xorbs
        /\ FileOf[files[f].recipe] = f

\* shards.rs:265-268: a dedup row is never wrong, from whichever of a shard and
\* an upload it came first; it would be so for ever.
DedupTruthful ==
    \A c \in Chunks :
        chunkHome[c] # None => chunkHome[c] \in xorbs /\ c \in ChunksIn[chunkHome[c]]

\* shards.rs:212-215: the first chunk of a registered file can be probed.
FirstChunkProbed ==
    \A f \in Files : Registered(f) =>
        \A row \in FirstRow[files[f].recipe] : chunkHome[row[1]] # None

\* Nothing that the bridge or a probe has once answered with is withdrawn or
\* replaced: a client caches it for weeks.
NothingForgotten ==
    [][/\ \A f \in Files : Registered(f) => files'[f] = files[f]
       /\ \A c \in Chunks : chunkHome[c] # None => chunkHome'[c] = chunkHome[c]
       /\ AlreadyStored \subseteq AlreadyStored']_vars

\* A file in an acknowledged shard is registered, and a download by the oid it
\* came with works unless the file had been registered without one.
AcknowledgedRegistered ==
    \A q \in Requests : Acknowledged(q) =>
        \A e \in shard[q].files :
            LET f == FileOf[e.recipe]
            IN /\ Registered(f)
               /\ e.sha # None => e.sha \in AlreadyStored \/ files[f].sha = None

\* index.rs:233-235: a file acknowledged with an oid can be downloaded by it.
AcknowledgedOidResolves ==
    \A q \in Requests : Acknowledged(q) =>
        \A e \in shard[q].files : e.sha # None => e.sha \in AlreadyStored

-------------------------------------------------------------------------------
(* The inductive invariant.                                                *)

\* What a request has checked stays so until its insert runs, and after: xorbs
\* are only added, and a claim is compared with content, which cannot change.
Checked(q) == q \in inserting \/ phase[q] \in {"verifying", "inserting"}

ClaimTrue(e) == e.sha = None \/ e.sha = OidOf[FileOf[e.recipe]]

HandlerOK ==
    \A q \in Requests :
        /\ phase[q] # "idle" => shard[q] \in Shards
        /\ q \in inserting => phase[q] \in {"inserting", "ended"}
        /\ phase[q] = "inserting" => todo[q] = {}
        /\ todo[q] # {} => phase[q] = "verifying"
        /\ Acknowledged(q) => phase[q] = "ended"
        /\ Checked(q) =>
              /\ \A e \in shard[q].files : XorbsOf[e.recipe] \subseteq xorbs
              /\ \A row \in rows[q] : Corroborated(row)
              /\ FirstRows(shard[q]) \subseteq rows[q]
              /\ \A e \in shard[q].files : e \in todo[q] \/ ClaimTrue(e)

IInv ==
    /\ TypeOK /\ HandlerOK /\ OidTruthful /\ RegisteredServable
    /\ DedupTruthful /\ FirstChunkProbed /\ AcknowledgedRegistered
===============================================================================
