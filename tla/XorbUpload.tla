------------------------------ MODULE XorbUpload ------------------------------
(***************************************************************************)
(* Uploading xorbs (routes/xorbs.rs, upload): the handler takes a permit,  *)
(* buffers the body, verifies it, and under the lock of the xorb's hash    *)
(* looks the hash up, writes the object and inserts the record.  Each      *)
(* `.await` is a point where other uploads run.  Verification, the write   *)
(* and the two index calls are spawn_blocking jobs: dropping the handler   *)
(* because its client went away releases the lock and the permit, and the  *)
(* job it was waiting for runs to its end all the same.                    *)
(*                                                                         *)
(* The hash of a xorb does not say how its chunks are compressed: two      *)
(* valid bodies of one hash differ in their layout.  A record describes    *)
(* one layout, and is of use only with an object of that layout.           *)
(*                                                                         *)
(* write_atomic is one step here (XorbStore takes it apart, and both       *)
(* implement StoredXorbs), the per-hash lock is the abstract one of        *)
(* KeyedMutex (KeyedLocks implements it), and a SQLite transaction is one  *)
(* step.  Mut_X is X with a plausible bug in it.                           *)
(***************************************************************************)
EXTENDS Naturals, FiniteSets, Functions

CONSTANTS Uploads,     \* upload requests; a retry is another one
          Hashes,      \* xorb hashes
          Layouts,     \* the ways to store the chunks of one xorb
          Forged,      \* a body that does not have the asserted hash
          Chunks,      \* dedup-eligible chunk hashes
          ChunksOf,    \* ChunksOf[h]: those of the xorb h
          Size,        \* Size[l]: bytes of an object stored in layout l
          Permits,     \* xorb_upload_concurrency
          None

ASSUME PermitsAssumption == Permits \in Nat \ {0}
ASSUME NoneAssumption == None \notin Uploads \cup Hashes \cup Layouts
ASSUME ForgedAssumption == Forged \notin Layouts \cup {None}
ASSUME ChunksAssumption == ChunksOf \in [Hashes -> SUBSET Chunks]
ASSUME SizeAssumption == Size \in [Layouts -> Nat]

VARIABLES
    phase,      \* phase[u]: where the handler of u is
    hash, body, \* what u uploads
    job,        \* job[u]: the blocking job u started, or that job's answer
    result,     \* result[u]: how u ended
    want,       \* the locks (KeyedMutex)
    holder,
    object,     \* object[h]: the layout of the stored object of h
    record,     \* record[h]: the layout the index says it has
    chunkHome,  \* chunkHome[c]: the xorb that answers a dedup probe for c
    diskBytes   \* store_stats.disk_bytes

reqVars == <<hash, body>>
lockVars == <<want, holder>>
indexVars == <<record, chunkHome, diskBytes>>
storeVars == <<object, indexVars>>
vars == <<phase, reqVars, job, result, lockVars, storeVars>>

Lock == INSTANCE KeyedMutex WITH
            Tasks <- Uploads, Keys <- Hashes, NoKey <- None, NoTask <- None

Jobs == {"verify", "lookup", "write", "insert"}
Answers == {"verified", "present", "absent", "written", "inserted", "ignored",
            "failed"}

TypeOK ==
    /\ phase \in [Uploads -> {"idle", "queued", "reading", "locking",
                              "running", "ended"}]
    /\ hash \in [Uploads -> Hashes \cup {None}]
    /\ body \in [Uploads -> Layouts \cup {Forged, None}]
    /\ job \in [Uploads -> Jobs \cup Answers \cup {"none"}]
    /\ result \in [Uploads -> {"none", "inserted", "existed", "error",
                               "gone", "cut", "killed"}]
    /\ Lock!MutexTypeOK
    /\ object \in [Hashes -> Layouts \cup {None}]
    /\ record \in [Hashes -> Layouts \cup {None}]
    /\ chunkHome \in [Chunks -> Hashes \cup {None}]
    /\ diskBytes \in Nat

Init ==
    /\ phase = [u \in Uploads |-> "idle"]
    /\ hash = [u \in Uploads |-> None]
    /\ body = [u \in Uploads |-> None]
    /\ job = [u \in Uploads |-> "none"]
    /\ result = [u \in Uploads |-> "none"]
    /\ Lock!MutexInit
    /\ object = [h \in Hashes |-> None]
    /\ record = [h \in Hashes |-> None]
    /\ chunkHome = [c \in Chunks |-> None]
    /\ diskBytes = 0

Alive(u) == phase[u] \notin {"idle", "ended"}

\* Uploads that hold a permit: from acquire_owned to the end of the handler.
Permitted == {u \in Uploads : phase[u] \in {"reading", "locking", "running"}}

\* Uploads whose body, or the footered copy verify_xorb made of it, is in
\* memory: put_xorb no longer has it, a verification or a write still does.
Resident ==
    {u \in Uploads :
        \/ phase[u] \in {"reading", "locking"}
        \/ job[u] \in {"verify", "write"}
        \/ Alive(u) /\ job[u] \in {"verified", "lookup", "absent"}}

\* The handler starts job j and waits for its answer.
Start(u, j) ==
    /\ phase' = [phase EXCEPT ![u] = "running"]
    /\ job' = [job EXCEPT ![u] = j]

\* A job's answer reaches the handler, or nobody.
Answer(u, a) == job' = [job EXCEPT ![u] = IF Alive(u) THEN a ELSE "none"]

\* The guard is forgotten.
Mut_End(u, r) ==
    /\ phase' = [phase EXCEPT ![u] = "ended"]
    /\ result' = [result EXCEPT ![u] = r]
    /\ UNCHANGED lockVars

\* The handler of u is over, normally or not: its guard and permit drop.
End(u, r) ==
    /\ phase' = [phase EXCEPT ![u] = "ended"]
    /\ result' = [result EXCEPT ![u] = r]
    /\ want' = [want EXCEPT ![u] = None]
    /\ holder' = [h \in Hashes |-> IF holder[h] = u THEN None ELSE holder[h]]

Respond(u, r) ==
    /\ End(u, r)
    /\ job' = [job EXCEPT ![u] = "none"]
    /\ UNCHANGED <<reqVars, storeVars>>

-------------------------------------------------------------------------------
(* The handler.  A request without the token, or whose path is not a xorb  *)
(* hash, is refused before it changes anything and never arrives here.     *)

Arrive(u) ==
    /\ phase[u] = "idle"
    /\ phase' = [phase EXCEPT ![u] = "queued"]
    /\ \E h \in Hashes, b \in Layouts \cup {Forged} :
          /\ hash' = [hash EXCEPT ![u] = h]
          /\ body' = [body EXCEPT ![u] = b]
    /\ UNCHANGED <<job, result, lockVars, storeVars>>

AcquirePermit(u) ==
    /\ phase[u] = "queued"
    /\ Cardinality(Permitted) < Permits
    /\ phase' = [phase EXCEPT ![u] = "reading"]
    /\ UNCHANGED <<reqVars, job, result, lockVars, storeVars>>

ReadBody(u) ==
    /\ phase[u] = "reading"
    /\ Start(u, "verify")
    /\ UNCHANGED <<reqVars, result, lockVars, storeVars>>

\* The body is empty, too large, or breaks off.
ReadFails(u) == phase[u] = "reading" /\ Respond(u, "error")

RequestLock(u) ==
    /\ phase[u] = "running" /\ job[u] = "verified"
    /\ phase' = [phase EXCEPT ![u] = "locking"]
    /\ job' = [job EXCEPT ![u] = "none"]
    /\ Lock!Request(u, hash[u])
    /\ UNCHANGED <<reqVars, result, storeVars>>

TakeLock(u) ==
    /\ phase[u] = "locking"
    /\ Lock!Grant(u, hash[u])
    /\ Start(u, "lookup")
    /\ UNCHANGED <<reqVars, result, storeVars>>

FoundExisting(u) ==
    /\ phase[u] = "running" /\ job[u] = "present"
    /\ Respond(u, "existed")

\* The record is inserted before the object is written.
Mut_StartWrite(u) ==
    /\ phase[u] = "running" /\ job[u] = "absent"
    /\ Start(u, "insert")
    /\ UNCHANGED <<reqVars, result, lockVars, storeVars>>

StartWrite(u) ==
    /\ phase[u] = "running" /\ job[u] = "absent"
    /\ Start(u, "write")
    /\ UNCHANGED <<reqVars, result, lockVars, storeVars>>

StartInsert(u) ==
    /\ phase[u] = "running" /\ job[u] = "written"
    /\ Start(u, "insert")
    /\ UNCHANGED <<reqVars, result, lockVars, storeVars>>

RespondInserted(u) ==
    /\ phase[u] = "running" /\ job[u] \in {"inserted", "ignored"}
    /\ Respond(u, IF job[u] = "inserted" THEN "inserted" ELSE "existed")

RespondError(u) ==
    /\ phase[u] = "running" /\ job[u] = "failed"
    /\ Respond(u, "error")

-------------------------------------------------------------------------------
(* The blocking jobs.  They need no handler to be waiting.                 *)

jobFrame == <<phase, reqVars, result, lockVars>>

RunVerify(u) ==
    /\ job[u] = "verify"
    /\ Answer(u, IF body[u] = Forged THEN "failed" ELSE "verified")
    /\ UNCHANGED <<jobFrame, storeVars>>

\* The existence check always says no: every upload rewrites the object.
Mut_RunLookup(u) ==
    /\ job[u] = "lookup"
    /\ Answer(u, "absent")
    /\ UNCHANGED <<jobFrame, storeVars>>

RunLookup(u) ==
    /\ job[u] = "lookup"
    /\ Answer(u, IF record[hash[u]] = None THEN "absent" ELSE "present")
    /\ UNCHANGED <<jobFrame, storeVars>>

RunWrite(u) ==
    /\ job[u] = "write"
    /\ object' = [object EXCEPT ![hash[u]] = body[u]]
    /\ Answer(u, "written")
    /\ UNCHANGED <<jobFrame, indexVars>>

\* An I/O error of write_atomic, before the rename or in the fsync after it.
WriteFails(u) ==
    /\ job[u] = "write"
    /\ object' \in {object, [object EXCEPT ![hash[u]] = body[u]]}
    /\ Answer(u, "failed")
    /\ UNCHANGED <<jobFrame, indexVars>>

\* put_xorb's transaction; INSERT OR IGNORE throughout.
AddRecord(h, l) ==
    /\ record' = [record EXCEPT ![h] = l]
    /\ chunkHome' = [c \in Chunks |->
                        IF c \in ChunksOf[h] /\ chunkHome[c] = None
                          THEN h ELSE chunkHome[c]]
    /\ diskBytes' = diskBytes + Size[l]

\* The record is replaced: the last writer wins.
Mut_RunInsert(u) ==
    /\ job[u] = "insert"
    /\ AddRecord(hash[u], body[u]) /\ Answer(u, "inserted")
    /\ UNCHANGED <<jobFrame, object>>

\* disk_bytes grows whether or not the record was new.
Mut_RunInsertCounts(u) ==
    /\ job[u] = "insert"
    /\ IF record[hash[u]] = None
         THEN AddRecord(hash[u], body[u]) /\ Answer(u, "inserted")
         ELSE /\ diskBytes' = diskBytes + Size[body[u]]
              /\ UNCHANGED <<record, chunkHome>>
              /\ Answer(u, "ignored")
    /\ UNCHANGED <<jobFrame, object>>

RunInsert(u) ==
    /\ job[u] = "insert"
    /\ IF record[hash[u]] = None
         THEN AddRecord(hash[u], body[u]) /\ Answer(u, "inserted")
         ELSE UNCHANGED indexVars /\ Answer(u, "ignored")
    /\ UNCHANGED <<jobFrame, object>>

\* The error of the insert is swallowed.
Mut_IndexFails(u) ==
    /\ job[u] \in {"lookup", "insert"}
    /\ Answer(u, IF job[u] = "lookup" THEN "failed" ELSE "ignored")
    /\ UNCHANGED <<jobFrame, storeVars>>

\* The insert is no transaction: it can fail between the chunks and the record.
Mut_IndexFailsHalfway(u) ==
    /\ job[u] \in {"lookup", "insert"}
    /\ chunkHome' = IF job[u] = "lookup" THEN chunkHome
                    ELSE [c \in Chunks |-> IF c \in ChunksOf[hash[u]]
                                             THEN hash[u] ELSE chunkHome[c]]
    /\ Answer(u, "failed")
    /\ UNCHANGED <<jobFrame, object, record, diskBytes>>

\* A query or a commit fails (SQLite busy for longer than its timeout, I/O).
IndexFails(u) ==
    /\ job[u] \in {"lookup", "insert"}
    /\ Answer(u, "failed")
    /\ UNCHANGED <<jobFrame, storeVars>>

-------------------------------------------------------------------------------
(* The environment.                                                        *)

\* The client goes away: the handler is dropped at its `.await`.  A job that is
\* still running goes on without it; "cut" tells the uploads that were
\* interrupted during the write or the insert from the others.
Disconnect(u) ==
    /\ Alive(u)
    /\ End(u, IF job[u] \in {"write", "insert"} THEN "cut" ELSE "gone")
    /\ job' = [job EXCEPT ![u] = IF @ \in Jobs THEN @ ELSE "none"]
    /\ UNCHANGED <<reqVars, storeVars>>

\* The process dies and is started again: handlers, jobs and locks are gone,
\* the objects and the index are as they are.
Kill ==
    /\ \E u \in Uploads : Alive(u) \/ job[u] # "none"
    /\ phase' = [u \in Uploads |-> IF Alive(u) THEN "ended" ELSE phase[u]]
    /\ result' = [u \in Uploads |-> IF Alive(u) THEN "killed" ELSE result[u]]
    /\ job' = [u \in Uploads |-> "none"]
    /\ want' = [u \in Uploads |-> None]
    /\ holder' = [h \in Hashes |-> None]
    /\ UNCHANGED <<reqVars, storeVars>>

-------------------------------------------------------------------------------
Client(u) == ReadBody(u) \/ ReadFails(u)

Handler(u) ==
    \/ RequestLock(u) \/ FoundExisting(u) \/ StartWrite(u)
    \/ StartInsert(u) \/ RespondInserted(u) \/ RespondError(u)

Job(u) ==
    \/ RunVerify(u) \/ RunLookup(u) \/ RunWrite(u) \/ WriteFails(u)
    \/ RunInsert(u) \/ IndexFails(u)

Next ==
    \/ Kill
    \/ \E u \in Uploads :
          \/ Arrive(u) \/ AcquirePermit(u) \/ TakeLock(u) \/ Disconnect(u)
          \/ Client(u) \/ Handler(u) \/ Job(u)

Spec == Init /\ [][Next]_vars

\* The runtime polls a handler whose job has answered and runs every blocking
\* job.  The semaphore and the mutex serve their waiters in order, so none is
\* passed over for ever.  A client goes on sending its body until it ends or
\* breaks off: the code has no timeout for one that does neither.
FairSpec ==
    /\ Spec
    /\ \A u \in Uploads :
          /\ WF_vars(Client(u)) /\ WF_vars(Handler(u)) /\ WF_vars(Job(u))
          /\ SF_vars(AcquirePermit(u)) /\ SF_vars(TakeLock(u))

-------------------------------------------------------------------------------
Indexed(h) == record[h] # None
Acknowledged(u) == result[u] \in {"inserted", "existed"}

\* No client went away in the middle of the write or of the insert.
NoneCut == \A u \in Uploads : result[u] # "cut"

\* xorbs.rs:80-85: the object and the record of a hash describe one layout.
ObjectMatchesRecord == \A h \in Hashes : Indexed(h) => object[h] = record[h]

\* The same, for as long as no client goes away during the write or the insert:
\* whatever the other clients, errors and restarts do.
UncutObjectMatchesRecord == NoneCut => ObjectMatchesRecord

\* xorbs.rs:95-96: a record never lacks its object, not even when a client is
\* cut, an index call fails after the write, or the process dies.
RecordHasObject == \A h \in Hashes : Indexed(h) => object[h] # None

\* A 200 is never wrong: the xorb is indexed, and the upload that is told it
\* inserted the xorb is the one whose layout the index has.
AckIsTrue ==
    \A u \in Uploads :
        /\ Acknowledged(u) => Indexed(hash[u])
        /\ result[u] = "inserted" => record[hash[u]] = body[u]

\* The first writer wins: once a hash is indexed neither its record nor (unless
\* a client was cut) its object ever changes, so a download that planned its
\* ranges from the record can open the object later.
FirstWriterWins ==
    [][\A h \in Hashes :
          Indexed(h) => /\ record'[h] = record[h]
                        /\ NoneCut' => object'[h] = object[h]]_vars

\* A dedup probe is answered with an indexed xorb that has the chunk, and every
\* eligible chunk of an indexed xorb is answered: the rows and the record are
\* inserted together.
DedupMatchesIndex ==
    \A c \in Chunks :
        IF chunkHome[c] = None
          THEN \A h \in Hashes : Indexed(h) => c \notin ChunksOf[h]
          ELSE Indexed(chunkHome[c]) /\ c \in ChunksOf[chunkHome[c]]

\* index.rs:330-334: the stored bytes that /health reports are the sizes of the
\* object files, orphans excluded.  True as long as no client was cut, and after
\* a cut too if it left the objects as they are recorded: each of them counts,
\* and counts once.  An object that a cut upload has overwritten may have another
\* size than was counted.
Total(w) == FoldFunction(LAMBDA a, b : a + b, 0, w)
StoredSizes == [h \in {g \in Hashes : Indexed(g)} |-> Size[object[h]]]
StoredBytesAgree ==
    NoneCut \/ ObjectMatchesRecord => diskBytes = Total(StoredSizes)

\* Every upload that arrives ends, with a permit and a lock to wait for.
UploadsEnd ==
    \A u \in Uploads : phase[u] = "queued" ~> phase[u] = "ended"

\* state.rs:24-34 and xorbs.rs:51-54: the permit bounds the bodies in memory, the
\* copy of verify_xorb included, of uploads that somebody waits for.  The jobs of
\* a handler that was dropped hold theirs without one.
AttendedWithinPermits == Cardinality({u \in Resident : Alive(u)}) <= Permits
-------------------------------------------------------------------------------
(* The inductive invariant.                                                *)

\* The handler of u is between its lookup and its end: it has the lock.
Critical(u) ==
    phase[u] = "running" /\ job[u] \notin {"verify", "verified", "failed"}

\* A job with these states works for, or is waited for by, a verified upload.
Verified(u) ==
    phase[u] = "locking" \/ job[u] \in (Jobs \cup Answers) \ {"verify", "failed"}

HandlerOK ==
    \A u \in Uploads :
        /\ phase[u] = "running" => job[u] # "none"
        /\ phase[u] \in {"idle", "queued", "reading", "locking"} => job[u] = "none"
        /\ phase[u] # "ended" => result[u] = "none"
        /\ phase[u] = "ended" => job[u] \in Jobs \cup {"none"}
        /\ phase[u] = "ended" /\ job[u] \in {"write", "insert"} => result[u] = "cut"
        /\ phase[u] # "idle" => hash[u] \in Hashes /\ body[u] # None
        /\ Verified(u) => body[u] # Forged
        /\ Critical(u) => holder[hash[u]] = u

\* What was written stays, whoever gets cut.
StoreOK ==
    /\ RecordHasObject
    /\ \A u \in Uploads : job[u] \in {"written", "insert"} => object[hash[u]] # None

\* With nobody cut, the holder of the lock is the only one to write: what it
\* looked up and what it wrote are still so when it inserts the record.
UncutOK ==
    NoneCut =>
        /\ ObjectMatchesRecord
        /\ \A u \in Uploads :
              /\ job[u] \in {"absent", "write", "written", "insert"} =>
                    ~ Indexed(hash[u])
              /\ job[u] \in {"written", "insert"} => object[hash[u]] = body[u]

AnswerOK ==
    /\ AckIsTrue
    /\ \A u \in Uploads :
          /\ job[u] \in {"present", "inserted", "ignored"} => Indexed(hash[u])
          /\ job[u] = "inserted" => record[hash[u]] = body[u]

IInv == TypeOK /\ HandlerOK /\ StoreOK /\ UncutOK /\ AnswerOK

\* The semaphore.
PermitsOK == IsFiniteSet(Permitted) /\ Cardinality(Permitted) <= Permits

-------------------------------------------------------------------------------
(* What the modules this one is checked without say of it.                 *)

\* An upload waits for the lock of its hash, and holds no other.
LockUse ==
    \A u \in Uploads :
        /\ want[u] = IF phase[u] = "locking" THEN hash[u] ELSE None
        /\ \A h \in Hashes :
              holder[h] = u => /\ phase[u] = "running" /\ hash[u] = h
                               /\ job[u] \notin {"verify", "verified"}

\* Who asks for a lock neither waits for one nor holds one (xorbs.rs:80-86):
\* lock(), which has no such guard, is never called where Request has none.
AsksWithNoLock ==
    \A u \in Uploads :
        phase[u] = "running" /\ job[u] = "verified" =>
            want[u] = None /\ ~ Lock!Holds(u)

\* Uploads do with locks what KeyedMutex lets tasks do, one lock at a time,
\* until a restart begins with an empty table: what KeyedLocks is shown to
\* implement is all that is used of it.
UsesKeyedMutex ==
    Lock!MutexInit /\ [][Lock!MutexNext \/ Lock!MutexInit']_lockVars

\* The index as Registry sees it, while no shard comes in.
IndexView == INSTANCE Registry WITH
                 Requests <- {}, Shards <- {}, Xorbs <- Hashes, Files <- {},
                 Recipes <- {}, Oids <- {}, ChunksIn <- ChunksOf,
                 Eligible <- ChunksOf, FileOf <- <<>>, XorbsOf <- <<>>,
                 FirstRow <- <<>>, OidOf <- <<>>,
                 phase <- <<>>, shard <- <<>>, todo <- <<>>, rows <- <<>>,
                 inserting <- {}, result <- <<>>, files <- <<>>,
                 xorbs <- {h \in Hashes : Indexed(h)}

\* To the index an upload is one step, the commit of put_xorb (index.rs:152-183):
\* it adds the xorb with the rows of all its chunks, once; a failure, a
\* disconnect or a kill anywhere else leaves the index as it is.
ImplementsRegistry == IndexView!Spec

\* Objects and records come as StoredXorbs has it, though no power is lost here:
\* a write that fails or is cut leaves a whole object or none, and a record is
\* inserted after its object.
Store == INSTANCE StoredXorbs WITH
             Objects <- Hashes,
             stored <- {h \in Hashes : object[h] # None},
             indexed <- {h \in Hashes : Indexed(h)},
             atRisk <- {}
ImplementsStoredXorbs == Store!StoredSpec
===============================================================================
