# xetcasd in TLA+

A verification project for `xetcasd`, the self-hosted content-addressed store in
`src/crates/xetcasd`. The modules model the server's handlers as they are in the source;
TLC checks them on small instances, TLAPS proves the central results for every instance.
`PROJECT.json` lists every run, every theorem, and for every definition the lines it models.

## 1. The system

xetcasd stores files for Git LFS through the xet protocol. A client cuts a file into chunks and
packs chunks into *xorbs*, which it uploads. Then it uploads a *shard*: per file a list of terms
(xorb, chunk range), the file's hash, and optionally the SHA-256 that Git LFS calls the oid.
Downloads run the other way: by file hash (a *reconstruction*, the client fetches the frames
itself), or by oid (the server reassembles the file).

| Part | State it keeps | Operations | Talks to |
|---|---|---|---|
| Per-key locks (`state.rs`) | table: key to reference-counted async mutex | `lock`, the guard's drop, a cancelled wait | xorb upload, git hosting |
| Xorb upload (`routes/xorbs.rs`) | per request: permit, body, lock, blocking job | `upload` | locks, object store, index |
| Object store (`xorbstore.rs`) | files under `root/<h0..2>/<h2..4>/<h>` | `write_atomic`, reads | the file system |
| Metadata index (`index.rs`) | SQLite tables `xorbs`, `chunks`, `files`; pool of idle connections | `put_xorb`, `put_files`, lookups; each one a transaction in a blocking job | every route |
| Shard registration (`routes/shards.rs`) | per request: decoded files and hints | `upload` | index, object store (hashing content) |
| Reconstruction (`reconstruction.rs`, `routes/reconstructions.rs`, `http_range.rs`) | none across requests; the planner's loop variables | `get`, `plan_reconstruction`, `RangeSpec::resolve` | index |
| Xorb data (`routes/xorbs.rs`, `data`) | none | a ranged read | object store |
| Download stream (`filestream.rs`) | permits, a bounded channel, a decoder thread | `stream_file`, `content_sha256` | object store, LFS bridge |
| LFS bridge (`routes/lfs.rs`) | none | upload and download batch, object download | index, download stream |
| Git hosting (`routes/git.rs`) | repositories and staging directories on disk; per exchange a child, two tasks, three pipes | first-touch creation, `cgi` | locks, the `git` program |
| Dedup probe (`routes/chunks.rs`, `dedup_shard.rs`) | none | `get` | index |
| Contracts (`xetcas-contracts`) | none | validators of messages | every route |
| Router, configuration, `xtask` | none of interest | wiring, code generation | |

What makes these parts hard:

* **Handlers are dropped.** When a client disconnects, hyper drops the handler's future at its
  current `.await`; guard and permit go at once. A `spawn_blocking` job already started runs
  to its end with nobody waiting. Most subtle behaviour in this code comes from that.
* **Three memories fail apart**: the file system, of which only fsynced entries survive a power
  loss; the index, whose commits are durable; and locks, permits and jobs, which a restart forgets.
* **Insert-only tables.** `INSERT OR IGNORE` everywhere: no lock is needed to keep what is
  there, and whatever gets in wrong stays wrong.
* **Answers that are acted on later.** git-lfs skips or fetches what a batch told it, minutes
  after; a dedup probe reads two tables one after the other. Nothing locks the index meanwhile.
* **Bounded pipes to a child** that reads and writes in an order of its own, between a client
  that may stall and tasks that nobody joins.
* **Two conventions for ranges**: inclusive ends on the wire, exclusive ends inside.

For each part, what makes it correct is the list of properties in section 3; `hazards` in
`PROJECT.json` names the lines where it could go wrong.

## 2. The modules

```
KeyedMutex        one lock per key (abstract)
  ^ implemented by              ^ instantiated as the lock
KeyedLocks        state.rs     XorbUpload       routes/xorbs.rs + index.rs (put_xorb)
KeyedLocksProofs               MCXorbUpload, XorbUploadProofs
                                 | its write, in steps   | implements the xorb side of
                               XorbStore   xorbstore.rs  Registry   routes/shards.rs + index.rs
                               MCXorbStore               MCRegistry
                               XorbStoreProofs             ^ extended, and implemented, by
                                                         LfsBridge  routes/lfs.rs, routes/chunks.rs
                                                         MCLfsBridge
                                                         LfsBridgeProofs (both)
StoredXorbs       whole objects, each before its record (abstract)
  ^ implemented by XorbUpload and by XorbStore

Contracts         xetcas-contracts/src/v1/validate.rs
  ^ instantiated by LfsBridge and Reconstruction
Reconstruction    reconstruction.rs, routes/reconstructions.rs, http_range.rs,
MCReconstruction  routes/xorbs.rs (data)
ReconstructionProofs

FileDelivery      a body is the file, in order, or is seen to break (abstract)
  ^ implemented by
Download          filestream.rs, the object download of routes/lfs.rs
MCDownload, DownloadProofs

RepoHosting       a repository appears whole, once, and only then is served (abstract)
  ^ implemented by              ^ KeyedMutex instantiated as the lock
GitHosting        routes/git.rs, up to the CGI run
GitHostingProofs
Cgi               routes/git.rs, the CGI run
MCCgi, CgiProofs
```

The modules compose by refinement and by interface. `XorbUpload` uses the *abstract* lock, and
`KeyedLocks` is shown to implement it; that `XorbUpload` does with it no more than `KeyedMutex`
lets a task do is proved too (`UsesKeyedMutex`). `XorbStore` takes apart the write that is one step
of `XorbUpload`; both implement `StoredXorbs` (`ImplementsStoredXorbs`), so in either picture an
object appears whole, stays, and has its record after it. `Registry` sees an upload only through its commit (`UploadXorb`): `XorbUpload`
implements `Registry` without shards (`ImplementsRegistry`), the commit being the only step of an
upload that the index sees. `LfsBridge` is `Registry` with its readers: each of
its steps is a step of `Registry` or leaves the index alone, so all that is proved of `Registry`
holds beside them. `GitHosting` uses the abstract lock as well and in the same way, and its `Serve` is where `Cgi`
begins. A
download sees a file as a list of chunks, each in a term: what `Registry` promises of
registered files is why its reads find them. `Reconstruction` assumes of files and xorbs
(`FilesAssumption`, `XorbsAssumption`) what the validators of `Contracts` and `Registry`'s checks let in.

In every module a `Mut_X` definition is `X` with a plausible bug. No specification uses it. It
documents which bug a property exists to catch: with it in X's place the property fails.

**KeyedLocks.** `LookUp` is the block under the std mutex of the table. `Acquire` is
`lock_owned().await`. A guard's drop is three steps, because another thread can run between
them: `Prune` (the body of `Drop`, under the std mutex), `Release` (the `OwnedMutexGuard`
unlocks), `DropArc` (it lets go of its reference). `CancelWait` drops a future that waits.
`StrongCount` counts what `Arc::strong_count` counts.

**XorbUpload.** One upload is a `phase` (where the handler is) and a `job` (the blocking closure
it waits for, and then the answer). Between two awaits the handler is atomic; each blocking
closure is an action of its own, because the lock, other handlers and a disconnect all interleave
with it. `Disconnect` drops handler, permit and lock and leaves the job; `Kill` drops everything
in memory. A body is either an encoding of the xorb in one of several *layouts* (compression
policies change the bytes of an object, never its hash) or `Forged`. `put_xorb` is one
transaction: record, dedup rows and byte counter.

**StoredXorbs.** What is promised of both: `stored` are the whole objects under their final names,
`indexed` those with a record. `Write` and `Index` add to them, `LosePower` takes from `stored` what
has no record or is `atRisk`, which `Overlook` may widen. `XorbUpload` has no power losses and
nothing at risk; `XorbStore` has the rename for `Write`, its commit for `Index`, and every other
system call, failure and kill for nothing.

**XorbStore.** `write_atomic` call by call: the upward scan for missing directories, each
`mkdir`, each fsync of a parent, the temporary file, its fsync, the rename, the fsync of the
leaf directory, then the index commit. `visible` is what processes see, `durable` what fsync
has settled. `PowerLoss` keeps the durable entries, an arbitrary part of the others, and
nothing that cannot be reached any more. `overlooked` is an auxiliary variable: the directories
a writer found existing and took for durable although they were not. No action reads it.

**Registry.** The handler reads the xorbs (`Build`), checks each file against them (`Checks`),
checks each SHA-256 (`Verify`), and inserts (`PutFiles`, a blocking job that outlives its
handler). No lock spans these steps. A file hash stands for a list of chunks and a *recipe* for
one way to take it from xorbs: two shards can register one file with different recipes, and two
file hashes can have one content and one oid. Shards are arbitrary sets of honest and dishonest
entries and of dedup hints. Hash functions do not collide.

**LfsBridge.** A *session* is one run of git-lfs: it sends a batch, which the server answers one
object at a time (`AnswerObject`, with a lookup of its own), validates (`Reply`) and sends; then the
session fetches what a download action offers (`Fetch`, again with a lookup of its own), any time
later and any number of times. A *probe* reads the chunk's row (`ProbeFinds`) and then the record
(`ProbeEnds`). Between any two of these steps shards are checked and inserted, xorbs are committed,
and the server restarts; a client keeps what it was answered. The session may sit behind a proxy
that wants a credential on every request, and then sends what `Carried` says: the reason for the flag
`authenticated`. `file_by_sha256` returns the first of the files with an oid; `Serves` allows any of
them, so `ActionServed` does not depend on the order. Three statuses exist to be excluded or
told apart: `invalid` is a 500 by the server's own validator, `lost` a 404 for a dedup row whose
xorb has no record, `cut` an answer that never came. One session and one probe are
enough in the instance: they write nothing, so two cannot influence each other.

**Contracts.** The validators as predicates: requests are refused with 400 by them, records are
stored only if they hold, and answers that fail them become a 500. Messages that no
module looks into, and the V2 reconstruction, which no handler answers, are left out.

**Reconstruction.** One iteration of each loop of `plan_reconstruction` is one action: skipping
whole terms, trimming chunks in front, trimming chunks behind, emitting a term, merging the
ranges of a xorb. The variables have the names they have in the code. The client is modelled
too: it walks a file in blocks until a 416, or sends one request with any form of the header.
It decodes the chunks it was told, drops the offset, and keeps what it received. A chunk may be
empty: no validator forbids it. The answer is built as the message the server sends (`Response`)
and goes through its validator; `DataAnswer` is what the other route answers to a range of an object.
`StartOf`, the prefix sums of a file's terms, is a constant with an assumption rather than a sum, and
`from`, the byte of the file a term of the plan begins with, an auxiliary field no action reads:
they let the loop invariants speak of positions without a recursion.
The planner's error returns ("range extends past the file's
terms", "chunk range out of range") are not actions: if the code could reach them the planner
would be stuck in the model and `WalkEnds` would fail.

**Download.** Three parties. The handler: `Request`, `LookUp` and `Plan` (each on a thread of
the blocking pool), `AcquirePermit`, which with no await in between also spawns the decoder. The
decoder: `GetThread`, `Decode` or `DecodeFails`, `Send` (`blocking_send`, enabled only when the
channel has room), `SendToNobody`, `SendError`. The client: `Receive`, `Finish`, `HangUp`, or
nothing for ever. A chunk is its place in the file, so that order, loss and duplication
show in what the client received. `SendToNobody` does what the loops do: a failed send
ends the *term*, and the next term's object is opened and its first chunk decoded before the
next failed send. `Kill` takes every thread, permit and body.

**GitHosting.** The two looks (`check`, `recheck`), the lock between them, and `autocreate`:
`mkdir`, `git init`, `git config`, `rename`, and `remove` after a failure. Each of these is a
job that ends also when its handler is gone; only a live handler starts the next one. After
`Disconnect` the job that was to run may or may not have been started. A directory is named by
the request that made it and has a progress (`built`); what lies at a repository's path is such a
directory or one of three leftovers. A metadata error reads as "not ready", hence
`RequestLock` has no `~ Ready`. The look after a failed build is two actions: `GiveUp` has seen that
nobody has won the rename, `LookFails` could not look. The configuration may change at a restart.
`cause` is an auxiliary variable: whether it was an operation of the request's own that failed or a
directory at the repository's place (`RenameBlocked`). No action reads it.

**Cgi.** Four parties and three pipes. The *handler* starts the child (`Spawn`), reads its stdout
until the header block ends (`ReadHead`, `HeadEnds`) and streams the rest (`StreamBody`, which waits
for room on the connection). The *pump* takes chunks of the request body (`Pull`) and writes them to
stdin (`Push`); the *reaper* drains stderr and then waits for the child. The *child* follows a
script of reads and writes, any script, and may crash anywhere. A byte of output is CR, LF, other, or
one that makes no legal header line; `FindHeaderEnd` is `find_header_end` on those. A read
returns any part of what is in the pipe. `HangUp` ends the connection, at any moment and also after
the response: it drops handler or body, and with them the read end of stdout; the two tasks go on, as
nobody joins them and nothing kills the child. `BodyFails` is a read error in the middle of the body:
the status is sent, so the server can only break the connection off. The pump owns the request body.
It sees the end of it only if the client sends all or its connection ends (`PullBroken`), not because
the handler has returned.

## 3. The runs

| Run | Instance | States | What it shows |
|---|---|---|---|
| `keyed_locks` | 3 tasks, 2 keys, 3 mutexes | 15 k | no waiter ends up on a mutex the table has forgotten; a mutex is locked exactly by the task that has yet to unlock it (both in `IInv`); refinement of `KeyedMutex`; every waiter is served |
| `xorb_upload` | 3 uploads, 2 xorbs sharing a chunk, 2 layouts, 2 permits | 301 k | object and record agree while no client is cut in its write or insert; refinement of `StoredXorbs`; a 200 is true; dedup rows follow the records; the byte counter is the sum of the stored objects' sizes, unless a cut upload has overwritten one; the first writer wins |
| `xorb_upload_live` | 3 uploads of 1 xorb, 2 permits | 34 k | every upload ends |
| `xorb_upload_cut` | 2 uploads, 1 xorb, 2 layouts | | **finding**: a cut upload overwrites the object of the next one |
| `xorb_store` | 2 writers, 3 objects in 2 leaf directories of 1 top directory | 709 k | acknowledged objects survive power loss unless a directory was overlooked; nothing durable is lost; no torn object (in `IInv`); refinement of `StoredXorbs` |
| `xorb_store_retry` | 1 writer, 1 object | | **finding**: an acknowledged object can be lost |
| `lfs_bridge` | 2 shard uploads, 6 shards, 2 xorbs, 3 files, 2 oids; a session with 5 batches, a probe with 3 paths | 1.25 M | the invariant of `Registry` beside its readers; a 200 for a shard is true; an object a client may skip stays; a download action is served with the oid promised; a probe's row always leads to the chunk; batch answers are valid and honest; nothing is ever withdrawn |
| `registry_oid` | shard uploads alone, the same shards | | **finding**: an acknowledged oid is never found |
| `download` | 3 downloads (files of 4 chunks in 3 terms, 3 chunks in 2 terms, no chunk), 1 permit, 2 threads, channels of 1 | 21 k | refinement of `FileDelivery`; a thread is always left for the index, so lookups are answered while clients stall; a hang-up gives the permit back; if clients read, every download has its turn |
| `git_hosting` | 3 requests, 1 repository, 3 leftovers | 145 k | refinement of `RepoHosting`: nobody is sent to an unfinished repository, none is replaced, none is counted twice; no request fails for what an earlier one has left behind; every request ends |
| `reconstruction` | 221 files of up to 3 terms, an unknown one and a malformed hash, 2 xorbs of 3 chunks (one chunk empty), block lengths 1, 2, 3 and more than any file | 197 k | a walk receives exactly the file and ends; a single answer holds exactly the bytes named; every plan passes the server's own validation, wastes no chunk, has each term in one fetch range, and each of its URL ranges yields exactly the frames |
| `cgi` | 93 children (one for every output of four bytes, and 12 that mix reads, output and noise), a body of 3 chunks, pipes of 1 to 3 bytes, reads of up to 3 | 374 k | the response is the child's output cut at the first end of a header block, whatever the reads; an exchange with a client that goes on ends; no child is left behind by a client that goes on sending or leaves, whatever became of the handler |

**Why the bounds are enough.** Three tasks let one drop its guard while a second waits and a
third arrives; a fourth would repeat the third's part, as the count that `Prune` compares is two.
Three uploads against two permits let one hold the lock, one hold a permit and wait, and one wait
for a permit; two xorbs sharing a chunk make the insert order of dedup rows matter. Three
objects in two leaf directories of one top directory give writers that share both, one, or no
unsynced directory. The shards of `MCRegistry` are one for each case `shards.rs` distinguishes:
with a true, a false and no oid, a second recipe of a registered file, a second file with the
same content, a true and a false hint, and a false file hash. Two uploads race over all six;
the batches push with and without xet, clone behind a proxy and without one, and send an oid that is
none. In `reconstruction` every file of
up to two terms is included, so every way two chunk ranges of one xorb can overlap, touch,
contain or miss each other; the three-term files add a middle term that is taken whole.
One permit and two threads are the smallest instance of `Permits < Threads` (64 and 512 in the
code): a single stalled client takes every permit, and the thread that is left has to serve
all lookups. A channel of one chunk is full after one send; the files have more chunks than
fit in channel and decoder together, and terms of one and of two chunks. Three requests for one
repository let one build, one wait for the lock and one arrive after a disconnect of either;
repositories share nothing but a counter. In `cgi` a header end has up to four bytes and a read returns up to three, so it
falls across two and across three reads; each pipe is smaller than what some child puts into it, so
every party blocks; some children read more than they are sent, others less.
`U64Max = 12` is longer than every file: requests whose end is the last representable offset occur.
Symmetry is used only in runs without liveness, over requests that are interchangeable.

**`CHECK_DEADLOCK FALSE`** is set where every request is served at most once and the model
therefore stops: uploads, registrations, walks, downloads, first touches, exchanges with git. The lock table and the object store run for
ever, and there deadlock is checked.

**Fairness.** Six specifications assume any.
`KeyedLocks!FairSpec`: a drop that has begun is finished, as nothing in it blocks; `Acquire`
is strongly fair, as a tokio mutex queues its waiters in order.
`XorbUpload!FairSpec`: handlers that can go on and jobs that were started are run by the runtime
(weak); permit and lock are granted in order (strong, tokio's semaphore and mutex are FIFO); and
a client goes on sending its body until it ends or breaks off (weak). The last is an assumption
about clients: the server has no timeout, and one that stalls keeps its permit.
`Reconstruction!Spec`: the handler runs, and the client reads what it was sent.
`Download!Spec`: handlers and decoders run (weak), permits are granted in order (strong), and
nothing at all of clients; that clients read is a hypothesis of `ReadersEnd` alone.
`GitHosting!Spec`: handlers and jobs run to their end (weak), the lock is granted in order
(strong). That git ends is assumed: the code has no timeout for it.
`Cgi!Spec`: handler, pump and reaper run, and the child goes on with its script (weak, each); that the
client sends and reads is a hypothesis of `ExchangeEnds`. `NoChildLeft` has the first half of it: a client
that stays connected goes on sending. Of one that has left it asks nothing. Without that hypothesis it is
false, as the server has no timeout (section 5).
No fairness is assumed of arrivals, disconnects, failures or kills.

## 4. What is proved

All proofs are checked by TLAPS from the assumptions each module names, for any number of
tasks, uploads, xorbs, writers, requests, shards, sessions, probes, files, ranges, children, pipe sizes and permits. Type correctness is the first
conjunct of each `IInv`. Each `Invariance` theorem is `Spec => []IInv`, with one lemma per
action; the other theorems follow from it.

* **KeyedLocks.** `IInv` adds to the types that whoever waits or holds refers to the mutex the
  table shows *now* (`CurrentMutex`) and that a mutex is locked exactly by the task that has
  yet to unlock it (`OwnerExact`). Mutual exclusion alone is not inductive: it needs
  `CurrentMutex`, which in turn rests on the count in `LastUser`. `Prune` removes an entry only
  if table and guard are its only users, a fact about cardinalities. From `IInv`:
  `Exclusion`, and `Refinement` of `KeyedMutex`.
* **XorbUpload.** `UncutOK`, the heart of `IInv`: while nobody was cut, an upload that has found
  the xorb absent still finds it absent when it inserts, and what it wrote is still the object.
  That holds because it is the holder of the lock in between (`OnlyWriter`); a cut upload is
  exactly the one that writes without holding it. `RecordHasObject`, on the other hand, survives
  cuts, and with it `StoresXorbs`, the refinement of `StoredXorbs`. `Residency` adds an invariant about the semaphore; `DedupComplete` needs only that record
  and dedup rows are written by one action. `BytesCounted`: recorded sizes are counted once each
  (`BytesStayCounted`), whatever fails or is cut, and `UncutOK` makes them the sizes of the stored objects. It
  is about a sum over a finite set, which
  `Total` folds in an order nobody knows: `TotalAddsUp` shows that one more xorb adds its size, whatever
  the order. `LockUse` (an upload waits for and holds no lock but its own hash's) gives `AsksFreely`,
  without which the guard of `KeyedMutex`'s `Request`, which the code does not have, could hide a deadlock
  of an upload with itself, and `UsesLocks`; a restart is the one step that is none of
  `KeyedMutex`, and begins with an empty table. `Refinement`: an insert of a new record is
  `Registry`'s `UploadXorb`, every other step leaves its index alone. Dedup rows that shards add
  at the same time are `Registry`'s part, in which `UploadXorb` allows for them.
* **XorbStore.** `Settled(d)`: an entry is durable, or was overlooked. `IInv` says that the
  parents of a durable entry are settled, and that a writer which does not sync a directory
  itself has found it settled. `Refinement` of `StoredXorbs`: a power loss keeps every whole object
  that has a record and is not at risk, and shows no part of one. `Survival` then says that an acknowledged object survives unless
  its path was overlooked, so the finding of `xorb_store_retry` is the *only* way to lose one.
* **Registry.** Without locks, the argument is that everything a handler has checked is stable:
  xorbs are only added, and an oid is compared with content, which cannot change. `HandlerOK`
  carries the checked facts from `Build` and `Verify` to the insert, in a handler that may be
  gone by then. `Truth` needs that `NeedsNoHash` compares with the *same* file's record, whose
  oid is true by induction.
* **LfsBridge.** `ImplementsRegistry` first: `BridgeSpec => Spec`, by cases over the readers' steps.
  `BridgeIInv` then carries what was looked up to where it is used: an oid in an answer is in
  `AlreadyStored` and stays there, since the index only grows (`Grows`); a probe's `home` is an
  indexed xorb that holds the chunk, by `DedupTruthful`. `SkipsKept`, `ActionsServed` (which also rests
  on `OidTruthful`: the file served later may be another one, its oid is not), `ProbesServed`
  and `Honesty` follow.
* **Reconstruction.** `IInv` begins with `PlanInv`, which has one part per loop
  (`PlanInvariance`). The arguments are the planner's own: the cut always holds the range's first byte or is behind it (`CutOK`), so trimming in front stops before
  the last chunk, and it has a byte before the range's end, so trimming behind stops before the
  first; `range` ends within the file, so the skip ends within the terms (`SkipOK`, `TermOK`). A
  range to be merged begins no earlier than any merged one (`FetchOK`), which is why looking at the
  last one is enough (`MergedOrdered`). `TailOK` remembers why trimming stopped, from which
  `CutWastesNothing`. `Answers` follows; its last part is that adding and subtracting one in `UrlRange`
  and `EndExclusive` cancel out, below `U64Max`. The other parts of `IInv` are about bytes: each term
  of the plan unpacks to its part of the file (`PlanBytes`, from `TermBytes`), and the answer in hand
  is one to the request in hand (`AnswerOK`, `ClientOK`). `Flattened` then says that pieces which
  follow one another make up the whole, and `PlanContent` that a plan decoded and cut at both ends is
  the file between two positions (`ReceivedExact`). From it `Walks`, over a whole series of requests,
  and `AsksOnce`, for which `RangeEnds` counts the bytes a header names.
* **Cgi.** The lemma is about prefixes: the first end of a header block in a prefix of the output is
  the first in all of it, as `find_header_end` takes the one that *begins* first and a longer
  output adds none before it. So it makes no difference how reads cut the output. `IInv` adds that the
  header loop has not found an end in what it holds and that nothing it read is lost; `Exactness`.
* **Download.** `IInv` says of each download that the received chunks are 1, 2, ... and the
  channel continues them (`StreamOK`), and that a decoder is done either with the whole file or
  with an error still in the channel (`ProgressOK`). The second is what makes a body that ends
  like a complete one complete. From it: `Refinement` of `FileDelivery`. `ThreadForTheIndex`
  is a fact about cardinalities: threads are held by decoders, decoders hold permits, and
  `Permits < Threads`.
* **GitHosting.** `PlaceOK`: a directory of this server that is at its place is finished and
  nobody works on it. It is inductive with `BuildOK` (a job knows how far its directory is)
  and needs neither the lock nor the second look: what keeps two jobs of cut requests apart is
  that `rename` replaces nothing but an empty directory. From it: `Refinement` of `RepoHosting`.
  `CauseOK`: a directory that has blocked a rename stays, so when the request looks again it finds
  either a whole repository (`PlaceOK`) or one that nobody here has made. From it: `NoneInherited`.
  `LockOK` gives `AsksFreely` and `UsesLocks`, as for uploads.

Proved and in no run of its own: `Exclusion` (at most one task inside a key's lock, which `keyed_locks`
checks through the refinement), `Residency`, `AsksFreely` and `UsesLocks` of `XorbUpload` and
`GitHosting`, `Refinement` (of `Registry`) of `XorbUpload`, `ObjectFirst` and `Complete`, which are conjuncts of the
invariants `xorb_upload` and `xorb_store` check, and `Truth`, `Servable`, `Dedup` and `FirstChunk` of
`Registry`, which are conjuncts of the invariant that `lfs_bridge` checks.

**Only model-checked**: liveness (`WaiterServed`, `UploadsEnd`, `WalkEnds`, `IndexAnswers`,
`HangUpFrees`, `ReadersEnd`, `FirstTouchEnds`, `ExchangeEnds`, `NoChildLeft`), which is out of the
prover's reach. Every invariant, action property and refinement of a passing run is stated by a theorem.

Two proofs need induction over data: a sum over a set (`XorbUpload`) and the concatenation of a
sequence of sequences (`Reconstruction`). The library's induction theorems take an operator,
which the provers cannot instantiate. Both proofs take a smallest counterexample
instead: `SmallestSet`, and `LeastNumber`, follow from the well-foundedness of strict inclusion
(`FS_StrictSubsetOrderingWellFounded`, `WFMin`), which is a fact about a set and needs no operator.

## 5. Findings

1. **Cut upload** (`routes/xorbs.rs:97`). The lock belongs to the handler, the write to a job.
   After a disconnect the job renames its bytes over an object another upload has since written
   and recorded, in another layout: the record's offsets then point into the wrong bytes for ever.
   `stored_bytes` of `/health` is then wrong as well, as it keeps the recorded size where `index.rs:330-334`
   promises that of the object file; `StoredBytesAgree` excepts this case and no other.
2. **Retry after a crash** (`xorbstore.rs:37`). A directory that exists is taken for durable, also
   one that a killed writer (or a concurrent one) has made and not synced. The acknowledged
   object can go with the directory.
3. **Dropped oid** (`index.rs:263`). A file first registered without a SHA-256 never gets one:
   the later insert is ignored, after its SHA-256 was verified, and answered 200.

Remarks that no run refutes a promise with:

* `state.rs:151`: `Drop` prunes when the count is at most two and then unlocks and lets go of its
  `Arc` outside the table's mutex. A second guard of the key that drops in between counts three and
  leaves the entry, as does a waiter that is cancelled. The lock stays correct; the entry stays until the
  key is locked again.
* `routes/git.rs:281`: the child's exit status is ignored, so a child that crashes in the middle of a
  body ends the response like a complete one (git's own protocol notices). A request body
  that breaks off looks like its end to the child. A client that stalls without hanging up
  keeps the pump, and a child that reads its input, for as long as it likes, also after it has been answered
  500: there is no timeout, and the task that owns the request body outlives the handler
  (`routes/git.rs:252-265`).
* A directory with files and no `HEAD` at a repository's place makes every request for it fail, for ever:
  `rename` replaces only an empty one, and the lost race that `routes/git.rs:117` takes anything else for
  was not lost to a repository. The comment at `routes/git.rs:83-85`, by which a directory that an earlier failure has left
  "is retried instead of permanently shadowing creation", is true of what this server leaves
  (`NoInheritedFailure`) but not of every directory.
* A cancelled creation leaves its staging directory behind, as nothing but `autocreate` itself
  removes one (`routes/git.rs:98`); the directory is never looked at again.
* The comment at `filestream.rs:131` calls a hang-up the end of the download; `SendToNobody` is what
  the loops do.
* The empty-file request `Range: bytes=0-` is answered 416 by the HTTP layer, before the planner's
  own case for it (`reconstruction.rs:149`) is reached.

## 6. Not modelled

* Formats and hash functions: parsing and hashing of xorbs and shards are steps with a verdict, the
  HMAC keys of dedup shards are left out, and hashes do not collide.
* Text: the parsing of header values and JSON, the environment of the CGI child, hrefs, `X-Xet-*`
  headers, path checks of git routes (`sanitize`, `split_repo`), which come before any state.
* Authorisation of uploads and the token route (`routes/lfs.rs`, `token`): a refused request changes
  nothing, and a token is a constant of the configuration.
* The pool of idle SQLite connections (`index.rs:54`): a request never waits for one. The counters
  of `/health`.
* `put_xorb` and the reads of one request are transactions by SQLite's word; its own recovery is not modelled.
* The router, configuration, error mapping and start-up: wiring without state. `xtask`: build-time
  code generation. The generated messages: data, as far as a validator or a module names their fields.
* The V2 reconstruction messages, for which the server has validators and no handler.

What could follow: power losses in `XorbUpload` itself, and `Download` beside other users of the
blocking pool.
