------------------------------- MODULE LfsBridge ------------------------------
(***************************************************************************)
(* What the server promises out of its index while shards are registered:  *)
(* the Git LFS bridge (routes/lfs.rs) and the dedup probe (routes/         *)
(* chunks.rs), over Registry.  Neither writes, and neither reads at once:  *)
(*                                                                         *)
(*  - a batch request looks every oid up in a query of its own, and        *)
(*    git-lfs acts on the answer later: it skips what it is told is there, *)
(*    and fetches what it is told it can fetch, with another lookup;       *)
(*  - a probe reads the chunk's row and then the record of its xorb.       *)
(*                                                                         *)
(* In front of the server there may be a proxy that wants a credential on  *)
(* every request.  git-lfs sends what an action embeds where the object is *)
(* "authenticated", and its own credentials elsewhere.                     *)
(*                                                                         *)
(* Sizes, hrefs beyond their route, X-Xet-* headers and the bytes of an    *)
(* object are left out (Download has the stream).                          *)
(***************************************************************************)
EXTENDS Registry, Sequences

CONSTANTS Sessions,     \* runs of git-lfs: a batch and what follows it
          Batches,      \* the batch requests they may send
          Probes,       \* GET /v1/chunks requests
          Queries,      \* the paths they may have
          Credentials,  \* usable values of an Authorization header
          Empty         \* the empty string, and any other that is no hash

INSTANCE Contracts WITH HashHex <- Oids \cup Chunks

NoActions == [n \in {} |-> None]
DedupShards == [xorb : Xorbs, chunks : SUBSET Chunks]
Actions == [href : {"/xet-token", "/lfs/objects"}, authorization : Credentials \cup {None}]

ASSUME EmptyAssumption ==
    /\ Empty \notin Oids \cup Chunks \cup Credentials \cup {None, "/xet-token", "/lfs/objects"}
    /\ None \notin Chunks \cup Credentials \cup Actions \cup {404, 422} \cup DedupShards
ASSUME BatchesAssumption ==
    \A b \in Batches :
        /\ b.operation \in {"upload", "download", "verify"}
        /\ b.hash_algo \in {Empty, "sha256", "sha512"}
        /\ b.transfers \subseteq {"xet", "basic"}
        /\ b.objects \in Seq([oid : Oids \cup Chunks \cup {Empty}])
        /\ b.authorization \in Credentials \cup {Empty, None}
        /\ b.proxied => b.authorization \in Credentials
ASSUME QueriesAssumption ==
    Queries \subseteq [prefix : {"default", Empty}, hash : Chunks \cup {Empty}]
ASSUME NoOutcome == None \notin Files \cup {"missing", "unauthorized"}

VARIABLES
    bphase,   \* bphase[s]: where session s is
    batch,    \* batch[s]: its batch request
    answer,   \* answer[s]: the objects answered so far
    status,   \* status[s]: the status of the batch's answer
    got,      \* got[s]: what its last object download gave, and for which oid
    pphase,   \* pphase[p]: where probe p is
    query,    \* query[p]: its path
    home,     \* home[p]: the xorb that the chunk's row named
    code,     \* code[p]: the status it was answered with
    sent      \* sent[p]: the shard it was answered with

sessionVars == <<bphase, batch, answer, status, got>>
probeVars == <<pphase, query, home, code, sent>>
bridgeVars == <<vars, sessionVars, probeVars>>

LfsObjectError == {404, 422}
\* What lookups and answers make of each oid; only the empty map has no names.
LfsBatchObject ==
    [oid : Oids \cup Chunks, authenticated : BOOLEAN,
     actions : {NoActions} \cup [{"upload"} -> Actions] \cup [{"download"} -> Actions],
     error : LfsObjectError \cup {None}]

Outcomes == Files \cup {"missing", "unauthorized"}

BridgeTypeOK ==
    /\ bphase \in [Sessions -> {"idle", "batch", "answered", "ended"}]
    /\ batch \in [Sessions -> Batches \cup {None}]
    /\ answer \in [Sessions -> Seq(LfsBatchObject)]
    /\ status \in [Sessions -> {"none", "200", "400", "500", "cut", "invalid"}]
    /\ got \in [Sessions -> [oid : Oids \cup Chunks, file : Outcomes] \cup {None}]
    /\ pphase \in [Probes -> {"idle", "found", "ended"}]
    /\ query \in [Probes -> Queries \cup {None}]
    /\ home \in [Probes -> Xorbs \cup {None}]
    /\ code \in [Probes -> {"none", "200", "400", "404", "500", "cut", "lost"}]
    /\ sent \in [Probes -> DedupShards \cup {None}]

BridgeInit ==
    /\ Init
    /\ bphase = [s \in Sessions |-> "idle"]
    /\ batch = [s \in Sessions |-> None]
    /\ answer = [s \in Sessions |-> <<>>]
    /\ status = [s \in Sessions |-> "none"]
    /\ got = [s \in Sessions |-> None]
    /\ pphase = [p \in Probes |-> "idle"]
    /\ query = [p \in Probes |-> None]
    /\ home = [p \in Probes |-> None]
    /\ code = [p \in Probes |-> "none"]
    /\ sent = [p \in Probes |-> None]

\* With 200 the answer goes out; otherwise the objects are dropped.
EndBatch(s, c) ==
    /\ bphase' = [bphase EXCEPT ![s] = IF c = "200" THEN "answered" ELSE "ended"]
    /\ status' = [status EXCEPT ![s] = c]
    /\ answer' = [answer EXCEPT ![s] = IF c = "200" THEN @ ELSE <<>>]

EndProbe(p, c) ==
    /\ pphase' = [pphase EXCEPT ![p] = "ended"]
    /\ code' = [code EXCEPT ![p] = c]
    /\ home' = [home EXCEPT ![p] = None]

-------------------------------------------------------------------------------
(* A batch request.                                                        *)

\* The credential to embed in actions, which is the one the batch came with.
ForwardedAuthorization(b) ==
    IF b.authorization \in Credentials THEN b.authorization ELSE None

OffersXet(b) == "xet" \in b.transfers

\* file_by_sha256 finds a file.  The mutant also counts on a file whose shard
\* has passed its checks and is being inserted.
Mut_Known(o) ==
    FilesWith(o) # {} \/ \E q \in inserting : \E e \in shard[q].files : e.sha = o

Known(o) == FilesWith(o) # {}

UploadAction(b) == [href |-> "/xet-token", authorization |-> ForwardedAuthorization(b)]
DownloadAction(b) == [href |-> "/lfs/objects", authorization |-> ForwardedAuthorization(b)]

EmbedsAuthorization(action) == action.authorization # None

Object(o, authenticated, actions, error) ==
    [oid |-> o, authenticated |-> authenticated, actions |-> actions, error |-> error]

\* Chunked upload, nothing to do, or a refusal.
UploadObject(b, o) ==
    IF ~ OffersXet(b) THEN Object(o, FALSE, NoActions, 422)
    ELSE IF Known(o) THEN Object(o, FALSE, NoActions, None)
    ELSE LET action == UploadAction(b)
         IN Object(o, EmbedsAuthorization(action),
                   [n \in {"upload"} |-> action], None)

\* The mutant claims authorization without embedding it.
Mut_DownloadObject(b, o) ==
    IF Known(o)
      THEN Object(o, b.authorization # None,
                  [n \in {"download"} |-> [href |-> "/lfs/objects", authorization |-> None]],
                  None)
      ELSE Object(o, FALSE, NoActions, 404)

DownloadObject(b, o) ==
    IF Known(o)
      THEN LET action == DownloadAction(b)
           IN Object(o, EmbedsAuthorization(action),
                     [n \in {"download"} |-> action], None)
      ELSE Object(o, FALSE, NoActions, 404)

AnswerFor(b, o) ==
    IF b.operation = "upload" THEN UploadObject(b, o) ELSE DownloadObject(b, o)

Response(s) ==
    [transfer |-> IF batch[s].operation = "upload" /\ OffersXet(batch[s])
                    THEN "xet" ELSE "basic",
     objects |-> answer[s],
     hash_algo |-> "sha256"]

Arrives(s, b) ==
    /\ bphase[s] = "idle"
    /\ ValidLfsBatchRequest(b)
    /\ bphase' = [bphase EXCEPT ![s] = "batch"]
    /\ batch' = [batch EXCEPT ![s] = b]
    /\ UNCHANGED <<vars, answer, status, got, probeVars>>

ArrivesRefused(s, b) ==
    /\ bphase[s] = "idle"
    /\ ~ ValidLfsBatchRequest(b)
    /\ EndBatch(s, "400")
    /\ batch' = [batch EXCEPT ![s] = b]
    /\ UNCHANGED <<vars, got, probeVars>>

Unanswered(s) == bphase[s] = "batch" /\ Len(answer[s]) < Len(batch[s].objects)

\* One iteration of upload_batch or download_batch, with its lookup.
AnswerObject(s) ==
    /\ Unanswered(s)
    /\ answer' = [answer EXCEPT ![s] =
                    Append(@, AnswerFor(batch[s], batch[s].objects[Len(@) + 1].oid))]
    /\ UNCHANGED <<vars, bphase, batch, status, got, probeVars>>

LookUpFails(s) ==
    /\ Unanswered(s)
    /\ batch[s].operation = "download" \/ OffersXet(batch[s])
    /\ EndBatch(s, "500")
    /\ UNCHANGED <<vars, batch, got, probeVars>>

\* The server validates its own answer before it sends it.
Reply(s) ==
    /\ bphase[s] = "batch" /\ ~ Unanswered(s)
    /\ EndBatch(s, IF ValidLfsBatchResponse(Response(s)) THEN "200" ELSE "invalid")
    /\ UNCHANGED <<vars, batch, got, probeVars>>

BatchGoes(s) ==
    /\ bphase[s] = "batch"
    /\ EndBatch(s, "cut")
    /\ UNCHANGED <<vars, batch, got, probeVars>>

-------------------------------------------------------------------------------
(* What follows a download batch: git-lfs fetches the object itself.       *)

\* The credential git-lfs sends with the action of object a.
Carried(b, a) ==
    IF a.authenticated THEN a.actions["download"].authorization
                       ELSE ForwardedAuthorization(b)

\* GET /lfs/objects/{oid}: some file with this SHA-256, which the index finds
\* in a lookup of its own.
Serves(o, file) ==
    IF FilesWith(o) = {} THEN file = "missing" ELSE file \in FilesWith(o)

Fetch(s, a, file) ==
    /\ bphase[s] = "answered"
    /\ "download" \in DOMAIN a.actions
    /\ IF batch[s].proxied /\ Carried(batch[s], a) = None
         THEN file = "unauthorized"
         ELSE Serves(a.oid, file)
    /\ got' = [got EXCEPT ![s] = [oid |-> a.oid, file |-> file]]
    /\ UNCHANGED <<vars, bphase, batch, answer, status, probeVars>>

-------------------------------------------------------------------------------
(* A dedup probe.                                                          *)

\* The shard built for a probe lists every chunk of the xorb.
DedupShard(x) == [xorb |-> x, chunks |-> ChunksIn[x]]

ProbeRefused(p, m) ==
    /\ pphase[p] = "idle"
    /\ ~ ValidChunkDedupQuery(m)
    /\ query' = [query EXCEPT ![p] = m]
    /\ EndProbe(p, "400")
    /\ UNCHANGED <<vars, sessionVars, sent>>

\* lookup_chunk: its query fails, finds no row, or finds one.
LookUpChunkFails(p, m) ==
    /\ pphase[p] = "idle"
    /\ ValidChunkDedupQuery(m)
    /\ query' = [query EXCEPT ![p] = m]
    /\ EndProbe(p, "500")
    /\ UNCHANGED <<vars, sessionVars, sent>>

ProbeMisses(p, m) ==
    /\ pphase[p] = "idle"
    /\ ValidChunkDedupQuery(m) /\ chunkHome[m.hash] = None
    /\ query' = [query EXCEPT ![p] = m]
    /\ EndProbe(p, "404")
    /\ UNCHANGED <<vars, sessionVars, sent>>

ProbeFinds(p, m) ==
    /\ pphase[p] = "idle"
    /\ ValidChunkDedupQuery(m) /\ chunkHome[m.hash] # None
    /\ query' = [query EXCEPT ![p] = m]
    /\ home' = [home EXCEPT ![p] = chunkHome[m.hash]]
    /\ pphase' = [pphase EXCEPT ![p] = "found"]
    /\ UNCHANGED <<vars, sessionVars, code, sent>>

\* get_xorb, and the shard built from the record; "lost" is the 404 of a row
\* whose xorb has no record.
ProbeEnds(p) ==
    /\ pphase[p] = "found"
    /\ IF home[p] \in xorbs
         THEN EndProbe(p, "200") /\ sent' = [sent EXCEPT ![p] = DedupShard(home[p])]
         ELSE EndProbe(p, "lost") /\ UNCHANGED sent
    /\ UNCHANGED <<vars, sessionVars, query>>

\* get_xorb fails, or the shard cannot be built.
ProbeFails(p) ==
    /\ pphase[p] = "found"
    /\ EndProbe(p, "500")
    /\ UNCHANGED <<vars, sessionVars, query, sent>>

-------------------------------------------------------------------------------
\* The server restarts.  A client that has its answer keeps it.
Cut(s) == bphase[s] = "batch"
CutProbe(p) == pphase[p] = "found"

Restart ==
    /\ KillHandlers
    /\ bphase' = [s \in Sessions |-> IF Cut(s) THEN "ended" ELSE bphase[s]]
    /\ status' = [s \in Sessions |-> IF Cut(s) THEN "cut" ELSE status[s]]
    /\ answer' = [s \in Sessions |-> IF Cut(s) THEN <<>> ELSE answer[s]]
    /\ pphase' = [p \in Probes |-> IF CutProbe(p) THEN "ended" ELSE pphase[p]]
    /\ code' = [p \in Probes |-> IF CutProbe(p) THEN "cut" ELSE code[p]]
    /\ home' = [p \in Probes |-> IF CutProbe(p) THEN None ELSE home[p]]
    /\ UNCHANGED <<batch, got, query, sent>>

BridgeNext ==
    \/ Restart
    \/ Step /\ UNCHANGED <<sessionVars, probeVars>>
    \/ \E s \in Sessions :
          \/ \E b \in Batches : Arrives(s, b) \/ ArrivesRefused(s, b)
          \/ AnswerObject(s) \/ LookUpFails(s) \/ Reply(s) \/ BatchGoes(s)
          \/ \E i \in DOMAIN answer[s], file \in Outcomes : Fetch(s, answer[s][i], file)
    \/ \E p \in Probes :
          \/ \E m \in Queries :
                \/ ProbeRefused(p, m) \/ LookUpChunkFails(p, m)
                \/ ProbeMisses(p, m) \/ ProbeFinds(p, m)
          \/ ProbeEnds(p) \/ ProbeFails(p)

BridgeSpec == BridgeInit /\ [][BridgeNext]_bridgeVars

-------------------------------------------------------------------------------
AnsweredObjects(s) == {answer[s][i] : i \in DOMAIN answer[s]}
Skipped(a) == DOMAIN a.actions = {} /\ a.error = None

\* lfs.rs:168-172: what an upload batch lets git-lfs skip is there for good.
\* The client never sends it, however long it acts on the answer, and whatever
\* restarts and registrations come in between.
SkipKept ==
    \A s \in Sessions : \A a \in AnsweredObjects(s) :
        Skipped(a) => a.oid \in AlreadyStored

\* A download action is a promise: the GET that follows it, with a lookup of
\* its own and perhaps of another file, finds a file, and its content has the
\* oid that git-lfs will check.
ActionServed ==
    \A s \in Sessions :
        got[s] # None => got[s].file \in Files /\ OidOf[got[s].file] = got[s].oid

\* chunks.rs:28-36: a chunk's row never leads to a 404, and the shard a probe is
\* sent holds the chunk asked for, in a xorb that other clients may refer to.
ProbeServed ==
    \A p \in Probes :
        /\ code[p] # "lost"
        /\ sent[p] # None =>
              sent[p].xorb \in xorbs /\ sent[p].chunks = ChunksIn[sent[p].xorb]
              /\ query[p].hash \in sent[p].chunks

\* bridge.proto and lfs.rs:79-95: the flag says what the action's headers hold
\* and nothing else; an upload is offered only to a client that speaks xet; a
\* download batch never looks like "skip it", which would leave a pointer file.
Honest(b, a) ==
    /\ a.authenticated <=> \E n \in DOMAIN a.actions : EmbedsAuthorization(a.actions[n])
    /\ "upload" \in DOMAIN a.actions => b.operation = "upload" /\ OffersXet(b)
    /\ b.operation = "download" => ~ Skipped(a)
    /\ a.error # None => DOMAIN a.actions = {}

\* The server's answers pass its own validation (never a 500 for that), speak
\* of the objects that were asked for, in their order, and are honest.
AnswersHonest ==
    \A s \in Sessions :
        /\ status[s] # "invalid"
        /\ bphase[s] = "answered" => Len(answer[s]) = Len(batch[s].objects)
        /\ \A i \in DOMAIN answer[s] :
              answer[s][i].oid = batch[s].objects[i].oid /\ Honest(batch[s], answer[s][i])

-------------------------------------------------------------------------------
(* The inductive invariant.                                                *)

SessionOK ==
    \A s \in Sessions :
        /\ bphase[s] = "idle" => answer[s] = <<>> /\ batch[s] = None
        /\ bphase[s] \in {"batch", "answered"} =>
              /\ batch[s] \in Batches /\ ValidLfsBatchRequest(batch[s])
              /\ Len(answer[s]) <= Len(batch[s].objects)
        /\ \A a \in AnsweredObjects(s) :
              /\ ValidLfsBatchObject(a)
              /\ "download" \in DOMAIN a.actions =>
                    /\ a.oid \in AlreadyStored
                    /\ a.actions["download"].authorization =
                          ForwardedAuthorization(batch[s])

ProbeOK ==
    \A p \in Probes :
        /\ pphase[p] # "ended" => sent[p] = None
        /\ pphase[p] = "found" =>
              home[p] \in xorbs /\ query[p].hash \in ChunksIn[home[p]]

BridgeIInv ==
    /\ IInv /\ BridgeTypeOK /\ SessionOK /\ ProbeOK
    /\ SkipKept /\ ActionServed /\ ProbeServed /\ AnswersHonest
===============================================================================
