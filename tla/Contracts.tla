--------------------------------- MODULE Contracts -----------------------------
(***************************************************************************)
(* What may cross a boundary of the server: the validators of              *)
(* xetcas-contracts (v1/validate.rs).  Handlers call them on what comes in *)
(* (400), on what they store, and on what they are about to answer (500).  *)
(* Left out are those of messages no module here looks into, and of the V2 *)
(* reconstruction, which no handler answers.                               *)
(*                                                                         *)
(* A string is a value: 64 lowercase hex digits or not, empty or not.  An  *)
(* optional message that is absent is None.  A blob is its length.         *)
(***************************************************************************)
EXTENDS Naturals, Sequences

CONSTANTS HashHex,  \* strings of 64 lowercase hex digits
          Empty,    \* the empty string
          None

HashBytes == 32
MaxChunksPerXorb == 8192
MaxXorbUnpackedBytes == 67108864

IsHashHex(s) == s \in HashHex
NonEmpty(s) == s # Empty
Present(m) == m # None
LastOf(s) == s[Len(s)]

-------------------------------------------------------------------------------
(* transfer.proto                                                          *)

\* End exclusive; it may be empty.
ValidIndexRange(r) == r.start <= r.end

\* End inclusive; it has a byte.
ValidByteRange(r) == r.start <= r.end

ValidQueryReconstructionRequest(m) ==
    IsHashHex(m.file_id) /\ (Present(m.range) => ValidByteRange(m.range))

ValidTerm(t) == IsHashHex(t.hash) /\ Present(t.range) /\ ValidIndexRange(t.range)

ValidFetchInfo(e) ==
    /\ NonEmpty(e.url)
    /\ Present(e.range) /\ ValidIndexRange(e.range)
    /\ Present(e.url_range) /\ ValidByteRange(e.url_range)

ValidFetchInfoList(entries) == \A i \in DOMAIN entries : ValidFetchInfo(entries[i])

ValidQueryReconstructionResponse(m) ==
    /\ \A i \in DOMAIN m.terms : ValidTerm(m.terms[i])
    /\ \A x \in DOMAIN m.fetch_info : IsHashHex(x) /\ ValidFetchInfoList(m.fetch_info[x])

\* The path of a dedup probe.
ValidChunkDedupQuery(m) == NonEmpty(m.prefix) /\ IsHashHex(m.hash)

-------------------------------------------------------------------------------
(* storage.proto                                                           *)

\* One offset per chunk in both arrays, and the last is the whole length.
ValidXorbRecord(m) ==
    /\ IsHashHex(m.xorb_hash)
    /\ m.num_chunks \in 1 .. MaxChunksPerXorb
    /\ m.unpacked_length <= MaxXorbUnpackedBytes
    /\ Len(m.chunk_boundary_offsets) = m.num_chunks
    /\ Len(m.unpacked_chunk_offsets) = m.num_chunks
    /\ m.chunk_hashes = HashBytes * m.num_chunks
    /\ LastOf(m.chunk_boundary_offsets) = m.frames_length
    /\ LastOf(m.unpacked_chunk_offsets) = m.unpacked_length

ValidFileTermRecord(t) == IsHashHex(t.xorb_hash) /\ t.chunk_index_start <= t.chunk_index_end

SumOfSegments(terms) ==
    LET sum[i \in 0 .. Len(terms)] ==
            IF i = 0 THEN 0 ELSE sum[i - 1] + terms[i].unpacked_segment_bytes
    IN sum[Len(terms)]

ValidFileRecord(m) ==
    /\ IsHashHex(m.file_hash)
    /\ m.sha256 = Empty \/ IsHashHex(m.sha256)
    /\ \A i \in DOMAIN m.terms : ValidFileTermRecord(m.terms[i])
    /\ m.verification_range_hashes \in {0, HashBytes * Len(m.terms)}
    /\ m.file_length = SumOfSegments(m.terms)

-------------------------------------------------------------------------------
(* bridge.proto                                                            *)

ValidLfsObjectSpec(m) == IsHashHex(m.oid)

ValidLfsBatchRequest(m) ==
    /\ m.operation \in {"upload", "download"}
    /\ m.hash_algo \in {Empty, "sha256"}
    /\ \A i \in DOMAIN m.objects : ValidLfsObjectSpec(m.objects[i])

ValidLfsAction(a) == NonEmpty(a.href)

\* Work or a failure, and not both; neither means: skip it.
ValidLfsBatchObject(o) ==
    /\ DOMAIN o.actions # {} => o.error = None
    /\ \A n \in DOMAIN o.actions : ValidLfsAction(o.actions[n])

ValidLfsBatchResponse(m) ==
    /\ m.transfer \in {"xet", "basic"}
    /\ \A i \in DOMAIN m.objects : ValidLfsBatchObject(m.objects[i])
================================================================================
