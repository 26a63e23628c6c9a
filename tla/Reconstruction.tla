---------------------------- MODULE Reconstruction -----------------------------
(***************************************************************************)
(* GET /v1/reconstructions/{file} (routes/reconstructions.rs): which       *)
(* chunks of which xorbs a client needs for a range of a file, and where   *)
(* the frames of these chunks are in the objects.  plan_reconstruction     *)
(* (reconstruction.rs) runs one loop iteration per step here.              *)
(*                                                                         *)
(* The client walks a file in blocks until it is told that there is no     *)
(* more (docs/research/dataplane.md section 8.6), or asks once.  Files and *)
(* xorbs never change, so nothing here depends on other requests.          *)
(*                                                                         *)
(* A range is <<first, last + 1>>.  Only what goes over the wire, a header *)
(* or a URL range, has an inclusive end.  Mut_X is X with a plausible bug. *)
(***************************************************************************)
EXTENDS Naturals, Sequences, SequencesExt

CONSTANTS
    Xorbs,
    Unpacked,   \* Unpacked[x][k]: bytes in the first k chunks of x
    Boundary,   \* Boundary[x][k]: length of their frames
    Files,      \* registered files
    Unknown,    \* the hash of another
    TermsOf,    \* TermsOf[f]: its terms, [xorb, start, end], end exclusive
    LengthOf,   \* LengthOf[f]: its length in bytes
    StartOf,    \* StartOf[f][i]: bytes of its terms in front of the i-th
    Once,       \* what a client that does not walk may send as its header
    Blocks,     \* block lengths of those that do
    U64Max,
    Empty, None \* an empty string (no hash), an absent message

INSTANCE Contracts WITH HashHex <- Xorbs \cup Files \cup {Unknown}

NumChunks(x) == Len(Unpacked[x])

\* The arrays have no leading zero.
EndOf(ends, k) == IF k = 0 THEN 0 ELSE ends[k]

UnpackedLen(x, first, end) == EndOf(Unpacked[x], end) - EndOf(Unpacked[x], first)
ChunkLen(x, k) == UnpackedLen(x, k, k + 1)
ByteOffset(x, first, end) == <<EndOf(Boundary[x], first), EndOf(Boundary[x], end)>>
SegmentBytes(t) == UnpackedLen(t.xorb, t.start, t.end)

FramesLength(x) == Boundary[x][NumChunks(x)]

XorbRecord(x) ==
    [xorb_hash |-> x, num_chunks |-> NumChunks(x),
     frames_length |-> FramesLength(x), unpacked_length |-> UnpackedLen(x, 0, NumChunks(x)),
     chunk_boundary_offsets |-> Boundary[x], unpacked_chunk_offsets |-> Unpacked[x],
     chunk_hashes |-> HashBytes * NumChunks(x)]

FileRecord(f) ==
    [file_hash |-> f, file_length |-> LengthOf[f], sha256 |-> Empty,
     terms |-> [i \in DOMAIN TermsOf[f] |->
                  [xorb_hash |-> TermsOf[f][i].xorb,
                   chunk_index_start |-> TermsOf[f][i].start,
                   chunk_index_end |-> TermsOf[f][i].end,
                   unpacked_segment_bytes |-> SegmentBytes(TermsOf[f][i])]],
     verification_range_hashes |-> 0]

\* What a Range header may be for the server (parse_range_header).
NoHeader == [kind |-> "none"]
Malformed == [kind |-> "malformed"]
FromTo(s, e) == [kind |-> "fromTo", start |-> s, end |-> e]
From(s) == [kind |-> "from", start |-> s]
Suffix(n) == [kind |-> "suffix", length |-> n]

Headers == {NoHeader, Malformed} \cup [kind : {"fromTo"}, start : Nat, end : Nat]
             \cup [kind : {"from"}, start : Nat] \cup [kind : {"suffix"}, length : Nat]

\* What verify_xorb and build_records let in, beyond the validators.  A chunk
\* may be empty, a frame not.
ASSUME XorbsAssumption ==
    \A x \in Xorbs :
        /\ Unpacked[x] \in Seq(Nat) /\ Boundary[x] \in Seq(Nat)
        /\ ValidXorbRecord(XorbRecord(x)) /\ FramesLength(x) <= U64Max
        /\ \A k, n \in 0 .. NumChunks(x) : k < n =>
              /\ EndOf(Unpacked[x], k) <= EndOf(Unpacked[x], n)
              /\ EndOf(Boundary[x], k) < EndOf(Boundary[x], n)
ASSUME FilesAssumption ==
    \A f \in Files :
        /\ ValidFileRecord(FileRecord(f)) /\ LengthOf[f] < U64Max
        /\ \A i \in DOMAIN TermsOf[f] :
              LET t == TermsOf[f][i]
              IN t.xorb \in Xorbs /\ t.start < t.end /\ t.end <= NumChunks(t.xorb)
\* What is not registered has no terms.
ASSUME StrangersAssumption ==
    \A f \in {Unknown, Empty} : f \notin Files /\ TermsOf[f] = <<>> /\ LengthOf[f] = 0
\* The file's length is what its terms sum up to.
ASSUME TermsAssumption ==
    \A f \in Files \cup {Unknown, Empty} :
        /\ TermsOf[f] \in Seq([xorb : Xorbs, start : Nat, end : Nat])
        /\ LengthOf[f] \in Nat
        /\ StartOf[f] \in [1 .. Len(TermsOf[f]) + 1 -> 0 .. LengthOf[f]]
        /\ StartOf[f][1] = 0 /\ StartOf[f][Len(TermsOf[f]) + 1] = LengthOf[f]
        /\ \A i \in DOMAIN TermsOf[f] :
              StartOf[f][i + 1] = StartOf[f][i] + SegmentBytes(TermsOf[f][i])
ASSUME ClientsAssumption ==
    U64Max \in Nat /\ Blocks \subseteq 1 .. U64Max /\ Once \subseteq Headers
ASSUME NoneAssumption ==
    /\ None \notin [start : Nat, end : Nat]
    /\ \A x \in Xorbs : <<x, "data">> # Empty

VARIABLES
    pc,          \* where the request is
    file, header,  \* what is asked for
    status,      \* of its answer
    range,       \* the range of the file it is for
    seg,         \* the term the planner looks at
    cumulative,  \* bytes of the file before the cut
    firstChunkByteStart,
    cut,         \* what the planner keeps of the term: [start, end, unpacked]
    terms,       \* what it has kept of the terms before: [xorb, start, end, from];
                 \* from, where in the file that begins, is only for the properties
    unmerged,    \* their chunk ranges, per xorb
    fetch,       \* the merged ranges, per xorb
    origin, at, block,  \* the client's walk: where it began and is, its stride
    received     \* the bytes it has

request == <<file, header>>
plan == <<seg, cumulative, firstChunkByteStart, cut, terms, unmerged, fetch>>
walk == <<origin, at, block, received>>
vars == <<pc, request, status, range, plan, walk>>

Least(a, b) == IF a < b THEN a ELSE b
SaturatingAdd(a, b) == Least(a + b, U64Max)
SaturatingSub(a, b) == IF a < b THEN 0 ELSE a - b

Unsatisfiable == <<>>

\* An end of u64::MAX must not wrap around.
Mut_EndExclusive(end) == (end + 1) % (U64Max + 1)
EndExclusive(end) == SaturatingAdd(end, 1)

\* RangeSpec::resolve
Resolve(h, total) ==
    CASE h.kind = "fromTo" -> IF h.start >= total \/ h.end < h.start THEN Unsatisfiable
                              ELSE <<h.start, Least(total, EndExclusive(h.end))>>
      [] h.kind = "from" -> IF h.start >= total THEN Unsatisfiable ELSE <<h.start, total>>
      [] h.kind = "suffix" -> IF h.length = 0 THEN Unsatisfiable
                              ELSE <<SaturatingSub(total, h.length), total>>
      [] h.kind = "none" -> <<0, total>>

Segments == TermsOf[file]
Segment == Segments[seg]
NoCut == [start |-> 0, end |-> 0, unpacked |-> 0]

Init ==
    /\ pc = "idle" /\ status = 0 /\ range = Unsatisfiable /\ header = NoHeader
    /\ file \in Files \cup {Unknown, Empty}
    /\ seg = 1 /\ cumulative = 0 /\ firstChunkByteStart = 0 /\ cut = NoCut
    /\ terms = <<>> /\ unmerged = [x \in Xorbs |-> {}] /\ fetch = [x \in Xorbs |-> <<>>]
    /\ origin = 0 /\ at = 0 /\ block = 0 /\ received = <<>>

-------------------------------------------------------------------------------
(* The client.                                                             *)

BlockHeader(s, b) == FromTo(s, SaturatingAdd(s, b - 1))

Walk(s, b) ==
    /\ pc = "idle"
    /\ pc' = "asked" /\ header' = BlockHeader(s, b)
    /\ origin' = s /\ at' = s /\ block' = b
    /\ UNCHANGED <<file, status, range, plan, received>>

AskOnce(h) ==
    /\ pc = "idle"
    /\ pc' = "asked" /\ header' = h
    /\ UNCHANGED <<file, status, range, plan, walk>>

\* The bytes of chunks first .. end - 1 of x.
Bytes(x, first, end) ==
    [p \in 1 .. UnpackedLen(x, first, end) |-> <<x, EndOf(Unpacked[x], first) + p>>]
Content(ts) == FlattenSeq([i \in DOMAIN ts |-> Bytes(ts[i].xorb, ts[i].start, ts[i].end)])

\* The client drops the offset in front, and what is behind the end it named.
Received ==
    LET body == Content(terms)
        offset == range[1] - firstChunkByteStart
    IN SubSeq(body, offset + 1,
              IF header.kind # "fromTo" THEN Len(body)
              ELSE Least(Len(body), offset + header.end - header.start + 1))

\* It reads the answer, and asks for the next block if there may be one.
Read ==
    /\ pc = "answered"
    /\ received' = received \o (IF status = 200 THEN Received ELSE <<>>)
    /\ IF status = 200 /\ block # 0
         THEN /\ pc' = "asked"
              /\ at' = SaturatingAdd(at, block)
              /\ header' = BlockHeader(at', block)
         ELSE pc' = "done" /\ UNCHANGED <<at, header>>
    /\ range' = Unsatisfiable
    /\ seg' = 1 /\ cumulative' = 0 /\ firstChunkByteStart' = 0 /\ cut' = NoCut
    /\ terms' = <<>> /\ unmerged' = [x \in Xorbs |-> {}] /\ fetch' = [x \in Xorbs |-> <<>>]
    /\ UNCHANGED <<file, status, origin, block>>

-------------------------------------------------------------------------------
(* The server.                                                             *)

Answer(s) == pc' = "answered" /\ status' = s

\* The path is validated, and the header has to parse.
WellFormed ==
    /\ ValidQueryReconstructionRequest([file_id |-> file, range |-> None])
    /\ header # Malformed

BadRequest ==
    /\ pc = "asked" /\ ~ WellFormed
    /\ Answer(400)
    /\ UNCHANGED <<request, range, plan, walk>>

\* get_file or get_xorbs.
IndexFails ==
    /\ pc = "asked" /\ WellFormed
    /\ Answer(500)
    /\ UNCHANGED <<request, range, plan, walk>>

NotFound ==
    /\ pc = "asked" /\ WellFormed /\ file \notin Files
    /\ Answer(404)
    /\ UNCHANGED <<request, range, plan, walk>>

Requested == Resolve(header, LengthOf[file])
Found == WellFormed /\ file \in Files
Satisfiable == Found /\ Requested # Unsatisfiable

\* An unsatisfiable range is 416, and not an empty 200.
Mut_NotSatisfiable ==
    /\ pc = "asked" /\ Found /\ ~ Satisfiable
    /\ Answer(200) /\ range' = <<0, 0>>
    /\ UNCHANGED <<request, plan, walk>>

NotSatisfiable ==
    /\ pc = "asked" /\ Found /\ ~ Satisfiable
    /\ Answer(416)
    /\ UNCHANGED <<request, range, plan, walk>>

\* Only an empty file has a resolved range that starts at its end: the planner
\* never answers 416 itself.
EmptyPlan ==
    /\ pc = "asked" /\ Satisfiable /\ LengthOf[file] = 0
    /\ Answer(200) /\ range' = <<0, 0>>
    /\ UNCHANGED <<request, plan, walk>>

Begin ==
    /\ pc = "asked" /\ Satisfiable /\ LengthOf[file] > 0
    /\ pc' = "skip" /\ range' = Requested
    /\ UNCHANGED <<request, status, plan, walk>>

\* Skip whole terms that end before the range starts.  Past the last one the
\* code has an error, as in byte_offset for a cut without a chunk; the planner
\* would be stuck here.
SkipTerm ==
    /\ pc = "skip" /\ seg <= Len(Segments)
    /\ LET n == SegmentBytes(Segment)
       IN IF cumulative + n > range[1]
            THEN /\ pc' = "term" /\ firstChunkByteStart' = cumulative
                 /\ UNCHANGED <<seg, cumulative>>
            ELSE /\ cumulative' = cumulative + n /\ seg' = seg + 1
                 /\ UNCHANGED <<pc, firstChunkByteStart>>
    /\ UNCHANGED <<request, status, range, cut, terms, unmerged, fetch, walk>>

\* The next term that has bytes of the range, or none.
TakeTerm ==
    /\ pc = "term" /\ seg <= Len(Segments) /\ cumulative < range[2]
    /\ pc' = IF cumulative < range[1] THEN "lead" ELSE "hasTail"
    /\ cut' = [start |-> Segment.start, end |-> Segment.end,
               unpacked |-> SegmentBytes(Segment)]
    /\ UNCHANGED <<request, status, range, seg, cumulative, firstChunkByteStart,
                   terms, unmerged, fetch, walk>>

NoMoreTerms ==
    /\ pc = "term" /\ (seg > Len(Segments) \/ cumulative >= range[2])
    /\ pc' = "merge"
    /\ UNCHANGED <<request, status, range, plan, walk>>

\* Drop a chunk in front of the range; the mutant forgets where the cut starts.
Mut_TrimLead ==
    /\ pc = "lead"
    /\ LET next == ChunkLen(Segment.xorb, cut.start)
       IN IF cut.start < cut.end /\ cumulative + next <= range[1]
            THEN /\ cumulative' = cumulative + next
                 /\ cut' = [cut EXCEPT !.start = @ + 1, !.unpacked = @ - next]
                 /\ UNCHANGED <<pc, firstChunkByteStart>>
            ELSE pc' = "hasTail" /\ UNCHANGED <<cumulative, firstChunkByteStart, cut>>
    /\ UNCHANGED <<request, status, range, seg, terms, unmerged, fetch, walk>>

TrimLead ==
    /\ pc = "lead"
    /\ LET next == ChunkLen(Segment.xorb, cut.start)
       IN IF cut.start < cut.end /\ cumulative + next <= range[1]
            THEN /\ cumulative' = cumulative + next
                 /\ firstChunkByteStart' = firstChunkByteStart + next
                 /\ cut' = [cut EXCEPT !.start = @ + 1, !.unpacked = @ - next]
                 /\ UNCHANGED pc
            ELSE pc' = "hasTail" /\ UNCHANGED <<cumulative, firstChunkByteStart, cut>>
    /\ UNCHANGED <<request, status, range, seg, terms, unmerged, fetch, walk>>

CheckTail ==
    /\ pc = "hasTail"
    /\ pc' = IF cumulative + cut.unpacked > range[2] THEN "tail" ELSE "emit"
    /\ UNCHANGED <<request, status, range, plan, walk>>

\* Drop a chunk behind the range; the mutant keeps one too many.
Mut_TrimTail ==
    /\ pc = "tail"
    /\ LET without == cut.unpacked - ChunkLen(Segment.xorb, cut.end - 1)
       IN IF cut.end > cut.start /\ cumulative + without > range[2]
            THEN cut' = [cut EXCEPT !.end = @ - 1, !.unpacked = without] /\ UNCHANGED pc
            ELSE pc' = "emit" /\ UNCHANGED cut
    /\ UNCHANGED <<request, status, range, seg, cumulative, firstChunkByteStart,
                   terms, unmerged, fetch, walk>>

TrimTail ==
    /\ pc = "tail"
    /\ LET without == cut.unpacked - ChunkLen(Segment.xorb, cut.end - 1)
       IN IF cut.end > cut.start /\ cumulative + without >= range[2]
            THEN cut' = [cut EXCEPT !.end = @ - 1, !.unpacked = without] /\ UNCHANGED pc
            ELSE pc' = "emit" /\ UNCHANGED cut
    /\ UNCHANGED <<request, status, range, seg, cumulative, firstChunkByteStart,
                   terms, unmerged, fetch, walk>>

Emit ==
    /\ pc = "emit" /\ cut.start < cut.end
    /\ pc' = "term"
    /\ terms' = Append(terms, [xorb |-> Segment.xorb, start |-> cut.start, end |-> cut.end,
                               from |-> cumulative])
    /\ unmerged' = [unmerged EXCEPT ![Segment.xorb] = @ \cup {<<cut.start, cut.end>>}]
    /\ cumulative' = cumulative + cut.unpacked
    /\ seg' = seg + 1 /\ cut' = NoCut
    /\ UNCHANGED <<request, status, range, firstChunkByteStart, fetch, walk>>

FirstOf(ranges) == {r \in ranges : \A q \in ranges : r[1] <= q[1]}

\* Merge a range into the last one it touches; the mutant lets a shorter range
\* cut a longer one off.
Mut_Merged(merged, r) ==
    IF merged # <<>> /\ r[1] <= Last(merged)[2]
      THEN Front(merged) \o <<<<Last(merged)[1], r[2]>>>>
      ELSE Append(merged, r)

Merged(merged, r) ==
    IF merged # <<>> /\ r[1] <= Last(merged)[2]
      THEN Front(merged) \o
           <<<<Last(merged)[1], IF r[2] > Last(merged)[2] THEN r[2] ELSE Last(merged)[2]>>>>
      ELSE Append(merged, r)

\* The ranges of a xorb in the order of their starts.
Merge(x) ==
    /\ pc = "merge"
    /\ \E r \in FirstOf(unmerged[x]) :
          /\ unmerged' = [unmerged EXCEPT ![x] = @ \ {r}]
          /\ fetch' = [fetch EXCEPT ![x] = Merged(@, r)]
    /\ UNCHANGED <<pc, request, status, range, seg, cumulative, firstChunkByteStart,
                   cut, terms, walk>>

\* The url_range of a fetch entry; the mutant leaves its end exclusive.
Mut_UrlRange(x, r) ==
    LET bytes == ByteOffset(x, r[1], r[2]) IN [start |-> bytes[1], end |-> bytes[2]]
UrlRange(x, r) ==
    LET bytes == ByteOffset(x, r[1], r[2])
    IN [start |-> bytes[1], end |-> SaturatingSub(bytes[2], 1)]

Response ==
    [terms |-> [i \in DOMAIN terms |->
                  [hash |-> terms[i].xorb,
                   range |-> [start |-> terms[i].start, end |-> terms[i].end]]],
     fetch_info |-> [x \in {y \in Xorbs : fetch[y] # <<>>} |->
                       [n \in DOMAIN fetch[x] |->
                          [url |-> <<x, "data">>,
                           range |-> [start |-> fetch[x][n][1], end |-> fetch[x][n][2]],
                           url_range |-> UrlRange(x, fetch[x][n])]]]]

\* The server validates its own answer.
Respond ==
    /\ pc = "merge" /\ \A x \in Xorbs : unmerged[x] = {}
    /\ Answer(IF ValidQueryReconstructionResponse(Response) THEN 200 ELSE 500)
    /\ UNCHANGED <<request, range, plan, walk>>

-------------------------------------------------------------------------------
(* GET /v1/xorbs/{prefix}/{hash}/data (routes/xorbs.rs), which serves the  *)
(* frames of an object and not the footer behind them.                     *)

DataAnswer(x, h) ==
    LET served == Resolve(h, FramesLength(x))
    IN IF h = Malformed THEN [status |-> 400]
       ELSE IF served = Unsatisfiable THEN [status |-> 416]
       ELSE IF h = NoHeader THEN [status |-> 200, start |-> 0, length |-> FramesLength(x)]
       ELSE [status |-> 206, start |-> served[1], length |-> served[2] - served[1],
             content_range |-> [start |-> served[1], end |-> SaturatingSub(served[2], 1)]]

Server ==
    \/ BadRequest \/ IndexFails \/ NotFound \/ NotSatisfiable \/ EmptyPlan \/ Begin
    \/ SkipTerm \/ TakeTerm \/ NoMoreTerms \/ TrimLead \/ CheckTail \/ TrimTail \/ Emit
    \/ Respond
    \/ \E x \in Xorbs : Merge(x)

Next ==
    \/ \E s \in 0 .. LengthOf[file] + 1, b \in Blocks : Walk(s, b)
    \/ \E h \in Once : AskOnce(h)
    \/ Read
    \/ Server

Spec == Init /\ [][Next]_vars /\ WF_vars(Server) /\ WF_vars(Read)

-------------------------------------------------------------------------------
PlanTerm == [xorb : Xorbs, start : Nat, end : Nat, from : Nat]
TypeOK ==
    /\ pc \in {"idle", "asked", "skip", "term", "lead", "hasTail", "tail", "emit",
               "merge", "answered", "done"}
    /\ file \in Files \cup {Unknown, Empty}
    /\ status \in {0, 200, 400, 404, 416, 500}
    /\ range = Unsatisfiable \/ range \in Nat \X Nat
    /\ header \in Headers /\ at \in Nat /\ block \in Nat
    /\ seg \in 1 .. Len(Segments) + 1
    /\ cumulative \in 0 .. LengthOf[file] /\ firstChunkByteStart \in Nat
    /\ cut \in [start : Nat, end : Nat, unpacked : Nat]
    /\ terms \in Seq(PlanTerm)
    /\ unmerged \in [Xorbs -> SUBSET (Nat \X Nat)]
    /\ fetch \in [Xorbs -> Seq(Nat \X Nat)]

\* The planner's loops.  "skip" stays in front of the range.  In "term", the term in
\* hand is the first of the plan and has the first byte of the range, or the plan has
\* gone past that byte.
Planning == {"skip", "term", "lead", "hasTail", "tail", "emit", "merge"}
Trimming == {"lead", "hasTail", "tail", "emit"}
RangeOK ==
    pc \in Planning =>
        /\ file \in Files /\ range # Unsatisfiable
        /\ range[1] < range[2] /\ range[2] <= LengthOf[file]
SkipOK ==
    /\ pc \in {"idle", "asked"} => seg = 1 /\ cumulative = 0
    /\ pc = "skip" => cumulative = StartOf[file][seg] /\ cumulative <= range[1]
TermOK ==
    pc = "term" =>
        /\ cumulative = StartOf[file][seg] \/ cumulative >= range[2]
        /\ IF terms # <<>> THEN range[1] < cumulative
           ELSE /\ seg <= Len(Segments) /\ firstChunkByteStart = cumulative
                /\ cumulative <= range[1] /\ range[1] < cumulative + SegmentBytes(Segment)

\* What is left of the term in hand: never nothing, and no more in front than
\* a chunk with the range's first byte.
CutOK ==
    pc \in Trimming =>
        /\ seg <= Len(Segments)
        /\ Segment.start <= cut.start /\ cut.start < cut.end /\ cut.end <= Segment.end
        /\ cut.unpacked = UnpackedLen(Segment.xorb, cut.start, cut.end)
        /\ cumulative = StartOf[file][seg] + UnpackedLen(Segment.xorb, Segment.start, cut.start)
        /\ cumulative < range[2] /\ range[1] < cumulative + cut.unpacked
        /\ IF terms # <<>> THEN pc # "lead" /\ range[1] < cumulative
           ELSE firstChunkByteStart = cumulative /\ cumulative <= range[1]
        /\ pc # "lead" => range[1] <= cumulative \/
                            range[1] < cumulative + ChunkLen(Segment.xorb, cut.start)
TailOK ==
    /\ pc \in {"lead", "hasTail"} => cut.end = Segment.end
    /\ pc = "tail" => range[2] <= cumulative + cut.unpacked
    /\ pc = "emit" =>
          /\ cut.end = Segment.end \/ range[2] <= cumulative + cut.unpacked
          /\ \/ cumulative + cut.unpacked <= range[2]
             \/ cumulative + UnpackedLen(Segment.xorb, cut.start, cut.end - 1) < range[2]

\* The plan reaches to where the planner is.
LastTerm == terms[Len(terms)]
TermsOK ==
    /\ terms # <<>> =>
          /\ pc \in {"term", "merge", "answered"} \cup Trimming
          /\ firstChunkByteStart <= range[1]
          /\ IF pc = "answered" THEN status = 200
             ELSE cumulative = LastTerm.from + SegmentBytes(LastTerm)
    /\ \A i \in DOMAIN terms :
          terms[i].start < terms[i].end /\ terms[i].end <= NumChunks(terms[i].xorb)

\* What is merged is in order and apart, and in front of what is not.
FetchOK ==
    /\ pc = "merge" => cumulative >= range[2] /\ terms # <<>>
    /\ pc \notin {"merge", "answered"} => \A x \in Xorbs : fetch[x] = <<>>
    /\ terms = <<>> \/ pc = "answered" => \A x \in Xorbs : unmerged[x] = {}
    /\ terms = <<>> => \A x \in Xorbs : fetch[x] = <<>>
    /\ \A x \in Xorbs :
          /\ \A r \in unmerged[x] : r[1] < r[2] /\ r[2] <= NumChunks(x)
          /\ \A n \in DOMAIN fetch[x] :
                /\ fetch[x][n][1] < fetch[x][n][2] /\ fetch[x][n][2] <= NumChunks(x)
                /\ n < Len(fetch[x]) => fetch[x][n][2] < fetch[x][n + 1][1]
                /\ \A r \in unmerged[x] : fetch[x][n][1] <= r[1]
    /\ \A i \in DOMAIN terms :
          LET t == terms[i]
          IN \/ <<t.start, t.end>> \in unmerged[t.xorb]
             \/ \E n \in DOMAIN fetch[t.xorb] :
                   fetch[t.xorb][n][1] <= t.start /\ t.end <= fetch[t.xorb][n][2]

\* No chunk is sent for that has no byte in the range: the terms follow one
\* another from firstChunkByteStart on, and every chunk of theirs reaches into it.
NothingWasted ==
    /\ \A i \in DOMAIN terms :
          terms[i].from = IF i = 1 THEN firstChunkByteStart
                          ELSE terms[i - 1].from + SegmentBytes(terms[i - 1])
    /\ \A i \in DOMAIN terms : \A k \in terms[i].start .. terms[i].end - 1 :
          LET t == terms[i]
              lo == t.from + UnpackedLen(t.xorb, t.start, k)
          IN ChunkLen(t.xorb, k) > 0 =>
                lo < range[2] /\ lo + ChunkLen(t.xorb, k) > range[1]

FileBytes == Content(Segments)

\* A term of the plan unpacks to the bytes of the file from its `from` on.
PlanBytes ==
    \A i \in DOMAIN terms :
        LET t == terms[i]
        IN /\ t.from + SegmentBytes(t) <= LengthOf[file]
           /\ \A p \in 1 .. SegmentBytes(t) :
                 FileBytes[t.from + p] = <<t.xorb, EndOf(Unpacked[t.xorb], t.start) + p>>

\* An answer, and the plan in the making, are for the request in hand.
AnswerOK ==
    /\ pc \in {"idle", "asked"} \cup Planning => status \in {0, 200}
    /\ pc \in {"idle", "asked"} => firstChunkByteStart = 0
    /\ pc \in Planning \/ (pc = "answered" /\ status = 200) =>
          Satisfiable /\ range = Requested
    /\ pc = "answered" =>
          /\ status # 0
          /\ status = 400 => ~ WellFormed
          /\ status = 404 => file \notin Files
          /\ status = 416 => Found /\ ~ Satisfiable
          /\ status = 200 => IF terms = <<>> THEN LengthOf[file] = 0 /\ firstChunkByteStart = 0
                             ELSE range[2] <= LastTerm.from + SegmentBytes(LastTerm)

\* A client that walks is at the place its header names.
ClientOK ==
    /\ pc = "idle" => block = 0
    /\ block = 0 /\ pc # "done" => received = <<>>
    /\ block # 0 =>
          /\ origin \in Nat /\ origin <= at /\ at <= U64Max
          /\ header # Malformed
          /\ pc # "done" => header = BlockHeader(at, block)

\* What plan_reconstruction's loops keep true, and no cut is ever trimmed to nothing.
PlanInv ==
    /\ TypeOK /\ RangeOK /\ SkipOK /\ TermOK /\ CutOK /\ TailOK /\ TermsOK
    /\ NothingWasted /\ FetchOK

IInv == PlanInv /\ PlanBytes /\ AnswerOK /\ ClientOK

\* api-surface.md section 1.1: what the client has of a file is always the bytes from
\* where it began to where it is, whatever blocks it asked for, and it is
\* told that there is no more only when it has all of them.
WalkExact ==
    block # 0 =>
        /\ received = SubSeq(FileBytes, origin + 1, Least(at, LengthOf[file]))
        /\ status = 416 => at >= LengthOf[file]
        /\ pc = "done" => status \in (IF file \in Files THEN {416, 500} ELSE {400, 404, 500})

\* A single answer holds exactly the bytes that its header names.
Named(h, p) ==
    CASE h.kind = "none" -> TRUE
      [] h.kind = "from" -> p >= h.start
      [] h.kind = "suffix" -> p + h.length >= LengthOf[file]
      [] h.kind = "fromTo" -> h.start <= p /\ p <= h.end

OnceExact ==
    block = 0 /\ pc = "done" =>
        LET named == {p \in 1 .. LengthOf[file] : Named(header, p - 1)}
        IN /\ status = 200 => received = [i \in 1 .. Cardinality(named) |->
                                             FileBytes[Min(named) + i - 1]]
           /\ status = 416 => named = {}

\* reconstruction.rs:250-253: every term lies in exactly one advertised range of
\* its xorb; the ranges are in order and apart.
TermsFetched ==
    /\ \A i \in DOMAIN terms :
          LET t == terms[i]
          IN \E n \in DOMAIN fetch[t.xorb] :
                fetch[t.xorb][n][1] <= t.start /\ t.end <= fetch[t.xorb][n][2]
    /\ \A x \in Xorbs : \A n \in 1 .. Len(fetch[x]) - 1 :
          fetch[x][n][2] < fetch[x][n + 1][1]

\* The client copies url_range into a Range header.  The data route answers 206
\* with this very range: the frames of these chunks, all and nothing else.
FramesServed ==
    \A x \in Xorbs : \A n \in DOMAIN fetch[x] :
        LET r == fetch[x][n]
            bytes == ByteOffset(x, r[1], r[2])
            url == UrlRange(x, r)
        IN DataAnswer(x, FromTo(url.start, url.end)) =
              [status |-> 206, start |-> bytes[1], length |-> bytes[2] - bytes[1],
               content_range |-> url]

\* A plan that is sent passes the server's own validation (it is never turned
\* into a 500 there), wastes nothing, and the ranges it sends the client to hold
\* what its terms need, byte by byte, at the other route.
AnswerExact ==
    pc = "answered" /\ terms # <<>> =>
        status = 200 /\ NothingWasted /\ TermsFetched /\ FramesServed

\* Every walk ends.
WalkEnds == pc = "asked" ~> pc = "done"
================================================================================
