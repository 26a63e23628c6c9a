-------------------------------- MODULE Download -------------------------------
(***************************************************************************)
(* Downloads of LFS objects (routes/lfs.rs, download; filestream.rs).  The *)
(* handler looks the file up, waits for a permit and starts a decoder on a *)
(* thread of the blocking pool.  The decoder hands chunks to the response  *)
(* body through a bounded channel and blocks its thread while that is      *)
(* full: for as long as the client likes.  Every index operation needs a   *)
(* thread of the same pool.                                                *)
(*                                                                         *)
(* Reads of other routes hold a thread only while they run, and are left   *)
(* out.  Mut_X is X with a plausible bug in it.                            *)
(***************************************************************************)
EXTENDS Naturals, Sequences, FiniteSets

CONSTANTS Downloads,
          TermOf,     \* TermOf[d]: of each chunk of the file of d, its term
          Permits,    \* DEFAULT_DOWNLOAD_CONCURRENCY: 64
          Threads,    \* of tokio's blocking pool: 512
          Capacity    \* of the channel: 8

\* state.rs:14-22: the permits leave threads for the index.
ASSUME PoolAssumption ==
    /\ Permits \in Nat \ {0} /\ Threads \in Nat /\ Permits < Threads
    /\ IsFiniteSet(Downloads)
ASSUME CapacityAssumption == Capacity \in Nat \ {0}
ASSUME TermsAssumption ==
    /\ TermOf \in [Downloads -> Seq(Nat)]
    /\ \A d \in Downloads : \A i, j \in DOMAIN TermOf[d] :
          i < j => TermOf[d][i] <= TermOf[d][j]

\* A chunk is its place in the file; none is at 0.
Broken == 0

VARIABLES
    phase,    \* phase[d]: where the request is
    outcome,  \* outcome[d]: how the body ended
    decoder,  \* decoder[d]: where its blocking task is
    at,       \* at[d]: chunks that the decoder is done with
    channel,  \* channel[d]: chunks, or Broken
    received  \* received[d]: chunks the client has

requestVars == <<phase, outcome>>
decoderVars == <<decoder, at>>
vars == <<phase, outcome, decoder, at, channel, received>>

Size(d) == Len(TermOf[d])
Waiting == {"lookup", "plan", "permit"}

TypeOK ==
    /\ phase \in [Downloads -> {"idle", "body", "ended"} \cup Waiting]
    /\ outcome \in [Downloads -> {"open", "complete", "broken"}]
    /\ decoder \in [Downloads -> {"none", "spawned", "decode", "send", "sendError", "done"}]
    /\ at \in [Downloads -> Nat]
    /\ channel \in [Downloads -> Seq(Nat)]
    /\ received \in [Downloads -> Seq(Nat)]

Init ==
    /\ phase = [d \in Downloads |-> "idle"]
    /\ outcome = [d \in Downloads |-> "open"]
    /\ decoder = [d \in Downloads |-> "none"]
    /\ at = [d \in Downloads |-> 0]
    /\ channel = [d \in Downloads |-> <<>>]
    /\ received = [d \in Downloads |-> <<>>]

\* The permit moves into the task and is dropped with it.  The mutant forgets it.
Mut_HoldsPermit(d) == decoder[d] # "none"
HoldsPermit(d) == decoder[d] \notin {"none", "done"}
Holders == {d \in Downloads : HoldsPermit(d)}

OnThread(d) == decoder[d] \in {"decode", "send", "sendError"}
FreeThread == Cardinality({d \in Downloads : OnThread(d)}) < Threads

\* The receiver is there until the body ends or is dropped.
Listening(d) == phase[d] = "body"
HasRoom(d) == Len(channel[d]) < Capacity

End(d, how) ==
    /\ phase' = [phase EXCEPT ![d] = "ended"]
    /\ outcome' = [outcome EXCEPT ![d] = how]

-------------------------------------------------------------------------------
(* The handler.                                                            *)

Request(d) ==
    /\ phase[d] = "idle"
    /\ phase' = [phase EXCEPT ![d] = "lookup"]
    /\ UNCHANGED <<outcome, decoderVars, channel, received>>

\* file_by_sha256, on a thread of the pool.
LookUp(d) ==
    /\ phase[d] = "lookup" /\ FreeThread
    /\ phase' = [phase EXCEPT ![d] = "plan"]
    /\ UNCHANGED <<outcome, decoderVars, channel, received>>

\* get_xorbs, on a thread of the pool, and plan_segments.
Plan(d) ==
    /\ phase[d] = "plan" /\ FreeThread
    /\ phase' = [phase EXCEPT ![d] = "permit"]
    /\ UNCHANGED <<outcome, decoderVars, channel, received>>

\* An unknown oid, a missing xorb, an error of the index.
LookUpFails(d) ==
    /\ phase[d] \in {"lookup", "plan"} /\ FreeThread
    /\ End(d, "broken")
    /\ UNCHANGED <<decoderVars, channel, received>>

StartDecoder(d) ==
    /\ phase' = [phase EXCEPT ![d] = "body"]
    /\ decoder' = [decoder EXCEPT ![d] = "spawned"]
    /\ UNCHANGED <<outcome, at, channel, received>>

\* No permit is asked for.
Mut_AcquirePermit(d) == phase[d] = "permit" /\ StartDecoder(d)

\* acquire_owned, and with no await in between spawn_blocking and the answer.
AcquirePermit(d) ==
    /\ phase[d] = "permit"
    /\ Cardinality(Holders) < Permits
    /\ StartDecoder(d)

-------------------------------------------------------------------------------
(* The decoder.                                                            *)

\* The loops over the terms and over the chunks of a term, after n chunks.
GoOn(d, n) ==
    /\ at' = [at EXCEPT ![d] = n]
    /\ decoder' = [decoder EXCEPT ![d] = IF n < Size(d) THEN "decode" ELSE "done"]

GetThread(d) ==
    /\ decoder[d] = "spawned" /\ FreeThread
    /\ GoOn(d, 0)
    /\ UNCHANGED <<requestVars, channel, received>>

\* The object is opened for the first chunk of a term.
Decode(d) ==
    /\ decoder[d] = "decode"
    /\ decoder' = [decoder EXCEPT ![d] = "send"]
    /\ UNCHANGED <<requestVars, at, channel, received>>

\* The task ends without a word.
Mut_DecodeFails(d) ==
    /\ decoder[d] = "decode"
    /\ decoder' = [decoder EXCEPT ![d] = "done"]
    /\ UNCHANGED <<requestVars, at, channel, received>>

\* The object cannot be opened or read, or a frame does not decode.
DecodeFails(d) ==
    /\ decoder[d] = "decode"
    /\ decoder' = [decoder EXCEPT ![d] = "sendError"]
    /\ UNCHANGED <<requestVars, at, channel, received>>

\* blocking_send of a chunk, once there is room.
Send(d) ==
    /\ decoder[d] = "send" /\ Listening(d) /\ HasRoom(d)
    /\ channel' = [channel EXCEPT ![d] = Append(@, at[d] + 1)]
    /\ GoOn(d, at[d] + 1)
    /\ UNCHANGED <<requestVars, received>>

\* A send that fails is tried again.
Mut_SendToNobody(d) ==
    /\ decoder[d] = "send" /\ ~ Listening(d)
    /\ decoder' = [decoder EXCEPT ![d] = "decode"]
    /\ UNCHANGED <<requestVars, at, channel, received>>

\* The client hung up: that ends the term, and the next one is opened.
SendToNobody(d) ==
    /\ decoder[d] = "send" /\ ~ Listening(d)
    /\ GoOn(d, Cardinality({i \in 1 .. Size(d) : TermOf[d][i] <= TermOf[d][at[d] + 1]}))
    /\ UNCHANGED <<requestVars, channel, received>>

SendError(d) ==
    /\ decoder[d] = "sendError"
    /\ IF Listening(d)
         THEN HasRoom(d) /\ channel' = [channel EXCEPT ![d] = Append(@, Broken)]
         ELSE UNCHANGED channel
    /\ decoder' = [decoder EXCEPT ![d] = "done"]
    /\ UNCHANGED <<requestVars, at, received>>

-------------------------------------------------------------------------------
(* The client.                                                             *)

Receive(d) ==
    /\ Listening(d) /\ channel[d] # <<>>
    /\ channel' = [channel EXCEPT ![d] = Tail(@)]
    /\ IF Head(channel[d]) = Broken
         THEN End(d, "broken") /\ UNCHANGED received
         ELSE /\ received' = [received EXCEPT ![d] = Append(@, Head(channel[d]))]
              /\ UNCHANGED requestVars
    /\ UNCHANGED decoderVars

\* The channel is closed and empty.
Finish(d) ==
    /\ Listening(d) /\ channel[d] = <<>> /\ decoder[d] = "done"
    /\ End(d, "complete")
    /\ UNCHANGED <<decoderVars, channel, received>>

\* Handler or body are dropped, and with the body what is in the channel.
HangUp(d) ==
    /\ phase[d] \in Waiting \cup {"body"}
    /\ End(d, "broken")
    /\ channel' = [channel EXCEPT ![d] = <<>>]
    /\ UNCHANGED <<decoderVars, received>>

Cut == {d \in Downloads : phase[d] \in Waiting \cup {"body"}}

Kill ==
    /\ Cut \cup Holders # {}
    /\ phase' = [d \in Downloads |-> IF d \in Cut THEN "ended" ELSE phase[d]]
    /\ outcome' = [d \in Downloads |-> IF d \in Cut THEN "broken" ELSE outcome[d]]
    /\ decoder' = [d \in Downloads |-> IF HoldsPermit(d) THEN "done" ELSE decoder[d]]
    /\ channel' = [d \in Downloads |-> <<>>]
    /\ UNCHANGED <<at, received>>

Handler(d) == LookUp(d) \/ Plan(d) \/ LookUpFails(d)
Decoder(d) ==
    \/ GetThread(d) \/ Decode(d) \/ DecodeFails(d)
    \/ Send(d) \/ SendToNobody(d) \/ SendError(d)
Client(d) == Receive(d) \/ Finish(d)

Next ==
    \/ Kill
    \/ \E d \in Downloads :
          \/ Request(d) \/ Handler(d) \/ AcquirePermit(d) \/ Decoder(d)
          \/ Client(d) \/ HangUp(d)

\* Threads run, and the semaphore serves its queue in order.  Nothing is assumed
\* of clients: they may stall for ever.
Spec ==
    /\ Init /\ [][Next]_vars
    /\ \A d \in Downloads :
          WF_vars(Handler(d)) /\ WF_vars(Decoder(d)) /\ SF_vars(AcquirePermit(d))

-------------------------------------------------------------------------------
(* The parts of the inductive invariant.                                   *)

\* A body has a decoder, and a request that waits has none yet.
PhaseOK(d) ==
    /\ phase[d] \in {"idle"} \cup Waiting => decoder[d] = "none" /\ received[d] = <<>>
    /\ Listening(d) => decoder[d] # "none"
    /\ outcome[d] = "open" <=> phase[d] # "ended"
    /\ ~ Listening(d) => channel[d] = <<>>

\* What the client has is the file so far, and the channel goes on from there.
StreamOK(d) ==
    /\ \A i \in 1 .. Len(received[d]) : received[d][i] = i
    /\ \A i \in 1 .. Len(channel[d]) :
          \/ channel[d][i] = Len(received[d]) + i
          \/ channel[d][i] = Broken /\ i = Len(channel[d]) /\ decoder[d] = "done"
    /\ Len(channel[d]) <= Capacity

\* The decoder is as far as what it has sent; it is done with a whole file, or
\* the client will hear that it is not.
ProgressOK(d) ==
    /\ decoder[d] \in {"none", "spawned"} => at[d] = 0
    /\ decoder[d] \in {"decode", "send"} => at[d] < Size(d)
    /\ at[d] <= Size(d)
    /\ outcome[d] = "complete" => Len(received[d]) = Size(d)
    /\ Listening(d) /\ decoder[d] # "done" => Len(received[d]) + Len(channel[d]) = at[d]
    /\ Listening(d) /\ decoder[d] = "done" =>
          \/ Len(received[d]) + Len(channel[d]) = Size(d)
          \/ /\ channel[d] # <<>> /\ channel[d][Len(channel[d])] = Broken
             /\ Len(received[d]) + Len(channel[d]) = at[d] + 1

DownloadOK(d) == PhaseOK(d) /\ StreamOK(d) /\ ProgressOK(d)

\* However many clients stall, a thread of the pool is left for the index.
ThreadLeft == Cardinality(Holders) <= Permits

IInv == TypeOK /\ (\A d \in Downloads : DownloadOK(d)) /\ ThreadLeft

-------------------------------------------------------------------------------
(* Properties.                                                             *)

ChunksOf(d) == [i \in 1 .. Size(d) |-> i]

\* The body is the file, in order, and ends like a whole one only if it is.
Delivery == INSTANCE FileDelivery WITH got <- received, end <- outcome
ImplementsDelivery == Delivery!DeliverySpec

\* state.rs:16-21: a lookup is answered although no client ever reads.
IndexAnswers == \A d \in Downloads : phase[d] = "lookup" ~> phase[d] \notin {"lookup", "plan"}

\* filestream.rs:66-70: the permit of a client that hung up comes back.
HangUpFrees == \A d \in Downloads : phase[d] = "ended" ~> ~ HoldsPermit(d)

\* If the clients that are served go on reading, one that waits has its turn.
ReadersEnd ==
    (\A d \in Downloads : WF_vars(Client(d))) =>
        \A d \in Downloads : phase[d] = "permit" ~> phase[d] = "ended"
================================================================================
