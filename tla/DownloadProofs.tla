----------------------------- MODULE DownloadProofs ----------------------------
(***************************************************************************)
(* For any number of downloads, of any files, with any number of permits   *)
(* below the size of the pool: IInv is an invariant of Download, and       *)
(* Download implements FileDelivery.                                       *)
(*                                                                         *)
(* Every action is about one download: the invariant has to be shown for   *)
(* that one only.  Kill is about all of them.                              *)
(***************************************************************************)
EXTENDS Download, FiniteSetTheorems, TLAPS

StreamInv == TypeOK /\ \A d \in Downloads : DownloadOK(d)

LEMMA SizeType == \A d \in Downloads : Size(d) \in Nat
BY TermsAssumption DEF Size

LEMMA InitIInv == Init => IInv
<1>. SUFFICES ASSUME Init PROVE IInv
  OBVIOUS
<1>1. TypeOK
  BY DEF Init, TypeOK, Waiting
<1>2. \A d \in Downloads : DownloadOK(d)
  BY SizeType, CapacityAssumption DEF Init, DownloadOK, PhaseOK, StreamOK, ProgressOK,
     Waiting, Listening
<1>3. Holders = {}
  BY DEF Init, Holders, HoldsPermit
<1>4. ThreadLeft
  BY <1>3, FS_EmptySet, PoolAssumption DEF ThreadLeft
<1>5. QED
  BY <1>1, <1>2, <1>4 DEF IInv

-------------------------------------------------------------------------------
(* The stream.                                                             *)

Same(d) ==
    /\ phase'[d] = phase[d] /\ outcome'[d] = outcome[d]
    /\ decoder'[d] = decoder[d] /\ at'[d] = at[d]
    /\ channel'[d] = channel[d] /\ received'[d] = received[d]

LEMMA Kept ==
    ASSUME NEW d \in Downloads, DownloadOK(d), Same(d)
    PROVE  DownloadOK(d)'
BY DEF Same, DownloadOK, PhaseOK, StreamOK, ProgressOK, Listening, Waiting, Size

\* What a step of d has to show.
LEMMA Local ==
    ASSUME StreamInv, NEW d \in Downloads, TypeOK',
           \A e \in Downloads \ {d} : Same(e), DownloadOK(d)'
    PROVE  StreamInv'
BY Kept DEF StreamInv

LEMMA HandlerStep ==
    ASSUME StreamInv, NEW d \in Downloads,
           Request(d) \/ Handler(d) \/ AcquirePermit(d) \/ HangUp(d)
    PROVE  StreamInv'
<1>. USE CapacityAssumption DEF requestVars, decoderVars, End, StartDecoder
<1>. SUFFICES TypeOK' /\ (\A e \in Downloads \ {d} : Same(e)) /\ DownloadOK(d)'
  BY Local
<1>1. TypeOK /\ DownloadOK(d) /\ Size(d) \in Nat
  BY SizeType DEF StreamInv
<1>2. CASE Request(d)
  <2>1. TypeOK' /\ \A e \in Downloads \ {d} : Same(e)
    BY <1>1, <1>2 DEF Request, TypeOK, Same, Waiting
  <2>2. DownloadOK(d)'
    BY <1>1, <1>2 DEF Request, TypeOK, DownloadOK, PhaseOK, StreamOK, ProgressOK,
       Listening, Waiting, Size
  <2>3. QED
    BY <2>1, <2>2
<1>3. CASE LookUp(d)
  <2>1. TypeOK' /\ \A e \in Downloads \ {d} : Same(e)
    BY <1>1, <1>3 DEF LookUp, TypeOK, Same, Waiting
  <2>2. DownloadOK(d)'
    BY <1>1, <1>3 DEF LookUp, TypeOK, DownloadOK, PhaseOK, StreamOK, ProgressOK,
       Listening, Waiting, Size
  <2>3. QED
    BY <2>1, <2>2
<1>4. CASE Plan(d)
  <2>1. TypeOK' /\ \A e \in Downloads \ {d} : Same(e)
    BY <1>1, <1>4 DEF Plan, TypeOK, Same, Waiting
  <2>2. DownloadOK(d)'
    BY <1>1, <1>4 DEF Plan, TypeOK, DownloadOK, PhaseOK, StreamOK, ProgressOK,
       Listening, Waiting, Size
  <2>3. QED
    BY <2>1, <2>2
<1>5. CASE LookUpFails(d)
  <2>1. TypeOK' /\ \A e \in Downloads \ {d} : Same(e)
    BY <1>1, <1>5 DEF LookUpFails, TypeOK, Same, Waiting
  <2>2. DownloadOK(d)'
    BY <1>1, <1>5 DEF LookUpFails, TypeOK, DownloadOK, PhaseOK, StreamOK, ProgressOK,
       Listening, Waiting, Size
  <2>3. QED
    BY <2>1, <2>2
<1>6. CASE AcquirePermit(d)
  <2>1. TypeOK' /\ \A e \in Downloads \ {d} : Same(e)
    BY <1>1, <1>6 DEF AcquirePermit, TypeOK, Same, Waiting
  <2>2. DownloadOK(d)'
    BY <1>1, <1>6 DEF AcquirePermit, TypeOK, DownloadOK, PhaseOK, StreamOK, ProgressOK,
       Listening, Waiting, Size
  <2>3. QED
    BY <2>1, <2>2
<1>7. CASE HangUp(d)
  <2>1. TypeOK' /\ \A e \in Downloads \ {d} : Same(e)
    BY <1>1, <1>7 DEF HangUp, TypeOK, Same, Waiting
  <2>2. DownloadOK(d)'
    BY <1>1, <1>7 DEF HangUp, TypeOK, DownloadOK, PhaseOK, StreamOK, ProgressOK,
       Listening, Waiting, Size
  <2>3. QED
    BY <2>1, <2>2
<1>8. QED
  BY <1>2, <1>3, <1>4, <1>5, <1>6, <1>7 DEF Handler

\* Where GoOn takes the decoder after a term that nobody wanted.
LEMMA SkippedTerm ==
    ASSUME NEW d \in Downloads, NEW t
    PROVE  LET n == Cardinality({i \in 1 .. Size(d) : TermOf[d][i] <= t})
           IN  n \in Nat /\ n <= Size(d)
<1>. DEFINE skipped == {i \in 1 .. Size(d) : TermOf[d][i] <= t}
<1>1. IsFiniteSet(1 .. Size(d)) /\ Cardinality(1 .. Size(d)) = Size(d)
  BY SizeType, FS_Interval
<1>2. IsFiniteSet(skipped) /\ Cardinality(skipped) <= Size(d)
  BY <1>1, FS_Subset
<1>3. QED
  BY <1>2, FS_CardinalityType

LEMMA DecoderStep ==
    ASSUME StreamInv, NEW d \in Downloads, Decoder(d)
    PROVE  StreamInv'
<1>. USE CapacityAssumption DEF requestVars, decoderVars, GoOn
<1>. SUFFICES TypeOK' /\ (\A e \in Downloads \ {d} : Same(e)) /\ DownloadOK(d)'
  BY Local
<1>1. TypeOK /\ DownloadOK(d) /\ Size(d) \in Nat
  BY SizeType DEF StreamInv
<1>2. CASE GetThread(d)
  <2>1. TypeOK' /\ \A e \in Downloads \ {d} : Same(e)
    BY <1>1, <1>2 DEF GetThread, TypeOK, Same, Waiting
  <2>2. DownloadOK(d)'
    BY <1>1, <1>2 DEF GetThread, TypeOK, DownloadOK, PhaseOK, StreamOK, ProgressOK,
       Listening, Waiting, Size
  <2>3. QED
    BY <2>1, <2>2
<1>3. CASE Decode(d)
  <2>1. TypeOK' /\ \A e \in Downloads \ {d} : Same(e)
    BY <1>1, <1>3 DEF Decode, TypeOK, Same, Waiting
  <2>2. DownloadOK(d)'
    BY <1>1, <1>3 DEF Decode, TypeOK, DownloadOK, PhaseOK, StreamOK, ProgressOK,
       Listening, Waiting, Size
  <2>3. QED
    BY <2>1, <2>2
<1>4. CASE DecodeFails(d)
  <2>1. TypeOK' /\ \A e \in Downloads \ {d} : Same(e)
    BY <1>1, <1>4 DEF DecodeFails, TypeOK, Same, Waiting
  <2>2. DownloadOK(d)'
    BY <1>1, <1>4 DEF DecodeFails, TypeOK, DownloadOK, PhaseOK, StreamOK, ProgressOK,
       Listening, Waiting, Size
  <2>3. QED
    BY <2>1, <2>2
<1>5. CASE Send(d)
  <2>1. TypeOK' /\ \A e \in Downloads \ {d} : Same(e)
    BY <1>1, <1>5 DEF Send, TypeOK, Same
  <2>2. /\ channel[d] \in Seq(Nat)
        /\ channel'[d] = Append(channel[d], at[d] + 1)
    BY <1>1, <1>5 DEF Send, TypeOK
  <2>3. /\ Len(channel'[d]) = Len(channel[d]) + 1
        /\ \A i \in 1 .. Len(channel[d]) : channel'[d][i] = channel[d][i]
        /\ channel'[d][Len(channel[d]) + 1] = at[d] + 1
    BY <2>2
  <2>4. Len(received[d]) + Len(channel[d]) = at[d]
    BY <1>1, <1>5 DEF Send, DownloadOK, ProgressOK, Listening
  <2>5. PhaseOK(d)' /\ StreamOK(d)'
    BY <1>1, <1>5, <2>2, <2>3, <2>4 DEF Send, TypeOK, HasRoom, DownloadOK, PhaseOK,
       StreamOK, Listening, Waiting
  <2>6. ProgressOK(d)'
    BY <1>1, <1>5, <2>2, <2>3, <2>4 DEF Send, TypeOK, DownloadOK, PhaseOK, ProgressOK,
       Listening, Size
  <2>7. QED
    BY <2>1, <2>5, <2>6 DEF DownloadOK
<1>6. CASE SendToNobody(d)
  <2>. DEFINE n == Cardinality({i \in 1 .. Size(d) : TermOf[d][i] <= TermOf[d][at[d] + 1]})
  <2>1. n \in Nat /\ n <= Size(d)
    BY SkippedTerm
  <2>2. /\ decoder[d] = "send" /\ ~ Listening(d) /\ GoOn(d, n)
        /\ UNCHANGED <<phase, outcome, channel, received>>
    BY <1>6 DEF SendToNobody
  <2>. HIDE DEF n
  <2>3. TypeOK' /\ \A e \in Downloads \ {d} : Same(e)
    BY <1>1, <2>1, <2>2 DEF TypeOK, Same
  <2>4. DownloadOK(d)'
    BY <1>1, <2>1, <2>2 DEF TypeOK, DownloadOK, PhaseOK, StreamOK, ProgressOK,
       Listening, Waiting, Size
  <2>5. QED
    BY <2>3, <2>4
<1>7. CASE SendError(d) /\ ~ Listening(d)
  <2>1. TypeOK' /\ \A e \in Downloads \ {d} : Same(e)
    BY <1>1, <1>7 DEF SendError, TypeOK, Same
  <2>2. DownloadOK(d)'
    BY <1>1, <1>7 DEF SendError, TypeOK, DownloadOK, PhaseOK, StreamOK, ProgressOK,
       Listening, Waiting, Size
  <2>3. QED
    BY <2>1, <2>2
<1>8. CASE SendError(d) /\ Listening(d)
  <2>1. Broken \in Nat
    BY DEF Broken
  <2>2. TypeOK' /\ \A e \in Downloads \ {d} : Same(e)
    <3>1. /\ channel' = [channel EXCEPT ![d] = Append(channel[d], Broken)]
          /\ decoder' = [decoder EXCEPT ![d] = "done"]
          /\ UNCHANGED <<phase, outcome, at, received>>
      BY <1>8 DEF SendError
    <3>2. QED
      BY <1>1, <2>1, <3>1 DEF TypeOK, Same
  <2>3. channel[d] \in Seq(Nat) /\ channel'[d] = Append(channel[d], Broken)
    BY <1>1, <1>8 DEF SendError, TypeOK
  <2>4. /\ Len(channel'[d]) = Len(channel[d]) + 1
        /\ \A i \in 1 .. Len(channel[d]) : channel'[d][i] = channel[d][i]
        /\ channel'[d][Len(channel[d]) + 1] = Broken /\ channel'[d] # <<>>
    BY <2>1, <2>3
  <2>5. PhaseOK(d)' /\ StreamOK(d)'
    BY <1>1, <1>8, <2>3, <2>4 DEF SendError, TypeOK, HasRoom, DownloadOK, PhaseOK,
       StreamOK, Listening, Waiting
  <2>6. ProgressOK(d)'
    BY <1>1, <1>8, <2>3, <2>4 DEF SendError, TypeOK, DownloadOK, PhaseOK, ProgressOK,
       Listening, Size
  <2>7. QED
    BY <2>2, <2>5, <2>6 DEF DownloadOK
<1>9. QED
  BY <1>2, <1>3, <1>4, <1>5, <1>6, <1>7, <1>8 DEF Decoder

LEMMA ClientStep ==
    ASSUME StreamInv, NEW d \in Downloads, Client(d)
    PROVE  StreamInv'
<1>. USE CapacityAssumption DEF requestVars, decoderVars, End
<1>. SUFFICES TypeOK' /\ (\A e \in Downloads \ {d} : Same(e)) /\ DownloadOK(d)'
  BY Local
<1>1. TypeOK /\ DownloadOK(d) /\ Size(d) \in Nat
  BY SizeType DEF StreamInv
<1>2. ASSUME Receive(d)
      PROVE  /\ channel[d] \in Seq(Nat) /\ received[d] \in Seq(Nat)
             /\ channel'[d] = Tail(channel[d])
             /\ Head(channel[d]) = channel[d][1] /\ channel[d][1] \in Nat
             /\ Len(channel[d]) >= 1 /\ Len(channel'[d]) = Len(channel[d]) - 1
             /\ \A i \in 1 .. Len(channel[d]) - 1 : channel'[d][i] = channel[d][i + 1]
  <2>1. channel[d] \in Seq(Nat) /\ channel[d] # <<>> /\ received[d] \in Seq(Nat)
    BY <1>1, <1>2 DEF Receive, TypeOK
  <2>2. channel'[d] = Tail(channel[d])
    BY <1>1, <1>2 DEF Receive, TypeOK
  <2>3. QED
    BY <2>1, <2>2
<1>3. CASE Receive(d) /\ Head(channel[d]) = Broken
  <2>1. /\ channel' = [channel EXCEPT ![d] = Tail(channel[d])]
        /\ phase' = [phase EXCEPT ![d] = "ended"]
        /\ outcome' = [outcome EXCEPT ![d] = "broken"]
        /\ UNCHANGED <<decoder, at, received>>
    BY <1>3 DEF Receive
  <2>2. Tail(channel[d]) \in Seq(Nat)
    BY <1>2, <1>3
  <2>3. TypeOK' /\ \A e \in Downloads \ {d} : Same(e)
    BY <1>1, <2>1, <2>2 DEF TypeOK, Same
  <2>4. Len(channel[d]) = 1
    <3>1. 1 \in 1 .. Len(channel[d]) /\ Len(received[d]) \in Nat /\ channel[d][1] = 0
      BY <1>2, <1>3 DEF Broken
    <3>2. \/ channel[d][1] = Len(received[d]) + 1
          \/ 1 = Len(channel[d])
      BY <1>1, <3>1 DEF DownloadOK, StreamOK
    <3>3. QED
      BY <3>1, <3>2
  <2>5. channel'[d] = <<>>
    BY <1>2, <1>3, <2>4
  <2>6. phase'[d] = "ended" /\ outcome'[d] = "broken"
    BY <1>1, <2>1 DEF TypeOK
  <2>7. PhaseOK(d)'
    BY <2>5, <2>6 DEF PhaseOK, Listening, Waiting
  <2>8. StreamOK(d)'
    <3>1. Len(channel'[d]) = 0
      BY <2>5
    <3>2. received' = received /\ \A i \in 1 .. Len(received[d]) : received[d][i] = i
      BY <1>1, <2>1 DEF DownloadOK, StreamOK
    <3>3. QED
      BY <3>1, <3>2 DEF StreamOK
  <2>9. ProgressOK(d)'
    BY <1>1, <2>1, <2>6 DEF DownloadOK, ProgressOK, Listening, Size
  <2>10. QED
    BY <2>3, <2>7, <2>8, <2>9 DEF DownloadOK
<1>4. CASE Receive(d) /\ Head(channel[d]) # Broken
  <2>1. /\ channel' = [channel EXCEPT ![d] = Tail(channel[d])]
        /\ received' = [received EXCEPT ![d] = Append(received[d], channel[d][1])]
        /\ UNCHANGED <<phase, outcome, decoder, at>> /\ Listening(d)
    BY <1>2, <1>4 DEF Receive
  <2>2. Tail(channel[d]) \in Seq(Nat) /\ Append(received[d], channel[d][1]) \in Seq(Nat)
    BY <1>2, <1>4
  <2>3. TypeOK' /\ \A e \in Downloads \ {d} : Same(e)
    BY <1>1, <2>1, <2>2 DEF TypeOK, Same
  <2>. DEFINE n == Len(received[d])
              m == Len(channel[d])
  <2>4. n \in Nat /\ m \in Nat /\ m >= 1 /\ 1 \in 1 .. m /\ m \in 1 .. m
    BY <1>2, <1>4
  <2>5. channel[d][1] = n + 1
    BY <1>1, <1>2, <1>4, <2>4 DEF DownloadOK, StreamOK
  <2>6. received'[d] = Append(received[d], n + 1)
    BY <1>1, <2>1, <2>5 DEF TypeOK
  <2>7. /\ Len(received'[d]) = n + 1
        /\ \A i \in 1 .. n : received'[d][i] = received[d][i]
        /\ received'[d][n + 1] = n + 1
    BY <1>2, <1>4, <2>6
  <2>8. /\ Len(channel'[d]) = m - 1
        /\ \A i \in 1 .. m - 1 : channel'[d][i] = channel[d][i + 1]
        /\ m > 1 => channel'[d] # <<>> /\ channel'[d][m - 1] = channel[d][m]
    <3>1. /\ Len(channel'[d]) = m - 1
          /\ \A i \in 1 .. m - 1 : channel'[d][i] = channel[d][i + 1]
      BY <1>2, <1>4
    <3>2. m > 1 => /\ m - 1 \in 1 .. m - 1 /\ (m - 1) + 1 = m /\ channel'[d] # <<>>
      <4>. HIDE DEF m
      <4>1. QED
        BY <2>4, <3>1
    <3>3. QED
      BY <3>1, <3>2
  <2>. HIDE DEF n, m
  <2>9. PhaseOK(d)'
    BY <1>1, <2>1 DEF DownloadOK, PhaseOK, Listening, Waiting
  <2>10. StreamOK(d)'
    <3>1. ASSUME NEW i \in 1 .. n + 1 PROVE received'[d][i] = i
      BY <1>1, <2>4, <2>7 DEF DownloadOK, StreamOK, n
    <3>2. ASSUME NEW i \in 1 .. m - 1
          PROVE  \/ channel'[d][i] = n + 1 + i
                 \/ channel'[d][i] = Broken /\ i = m - 1 /\ decoder[d] = "done"
      <4>1. i + 1 \in 1 .. m
        BY <2>4
      <4>2. \/ channel[d][i + 1] = n + (i + 1)
            \/ channel[d][i + 1] = Broken /\ i + 1 = m /\ decoder[d] = "done"
        BY <1>1, <4>1 DEF DownloadOK, StreamOK, n, m
      <4>3. channel'[d][i] = channel[d][i + 1]
        BY <2>8
      <4>4. i \in Nat /\ n + (i + 1) = n + 1 + i /\ (i + 1 = m => i = m - 1)
        BY <2>4
      <4>5. QED
        BY <4>2, <4>3, <4>4
    <3>3. m - 1 <= Capacity
      BY <1>1, <2>4 DEF DownloadOK, StreamOK, m
    <3>4. QED
      BY <2>1, <2>7, <2>8, <3>1, <3>2, <3>3 DEF StreamOK
  <2>11. ProgressOK(d)'
    <3>1. decoder[d] # "done" => n + m = at[d]
      BY <1>1, <2>1 DEF DownloadOK, ProgressOK, n, m
    <3>2. decoder[d] = "done" =>
             \/ n + m = Size(d)
             \/ m > 1 /\ channel[d][m] = Broken /\ n + m = at[d] + 1
      <4>1. channel[d][1] # Broken
        BY <1>2, <1>4
      <4>2. decoder[d] = "done" =>
               n + m = Size(d) \/ (channel[d][m] = Broken /\ n + m = at[d] + 1)
        BY <1>1, <2>1 DEF DownloadOK, ProgressOK, n, m
      <4>3. m = 1 \/ m > 1
        BY <2>4
      <4>4. QED
        BY <4>1, <4>2, <4>3
    <3>3. outcome[d] = "open"
      BY <1>1, <2>1 DEF DownloadOK, PhaseOK, Listening
    <3>4. Len(received'[d]) + Len(channel'[d]) = n + m
      BY <2>4, <2>7, <2>8
    <3>5. decoder[d] = "done" =>
             \/ n + m = Size(d)
             \/ /\ channel'[d] # <<>> /\ channel'[d][m - 1] = Broken
                /\ n + m = at[d] + 1
      BY <2>8, <3>2
    <3>6. QED
      BY <1>1, <2>1, <2>8, <3>1, <3>3, <3>4, <3>5 DEF DownloadOK, ProgressOK, Size
  <2>12. QED
    BY <2>3, <2>9, <2>10, <2>11 DEF DownloadOK
<1>5. CASE Finish(d)
  <2>1. TypeOK' /\ \A e \in Downloads \ {d} : Same(e)
    BY <1>1, <1>5 DEF Finish, TypeOK, Same
  <2>2. DownloadOK(d)'
    BY <1>1, <1>5 DEF Finish, TypeOK, DownloadOK, PhaseOK, StreamOK, ProgressOK,
       Listening, Waiting, Size
  <2>3. QED
    BY <2>1, <2>2
<1>6. QED
  BY <1>3, <1>4, <1>5 DEF Client

LEMMA KillStep ==
    ASSUME StreamInv, Kill \/ UNCHANGED vars
    PROVE  StreamInv'
<1>1. CASE Kill
  <2>1. TypeOK'
    BY <1>1 DEF StreamInv, Kill, TypeOK, Cut, Waiting
  <2>2. ASSUME NEW d \in Downloads PROVE DownloadOK(d)'
    BY <1>1, SizeType, CapacityAssumption
       DEF StreamInv, Kill, TypeOK, DownloadOK, PhaseOK, StreamOK, ProgressOK,
           Cut, HoldsPermit, Listening, Waiting, Size
  <2>3. QED
    BY <2>1, <2>2 DEF StreamInv
<1>2. CASE UNCHANGED vars
  <2>1. TypeOK' /\ \A d \in Downloads : Same(d)
    BY <1>2 DEF StreamInv, vars, TypeOK, Same
  <2>2. QED
    BY <2>1, Kept DEF StreamInv
<1>3. QED
  BY <1>1, <1>2

-------------------------------------------------------------------------------
(* The permits.                                                            *)

\* Only AcquirePermit adds a decoder, one, and only below the bound.
LEMMA StepThreadLeft ==
    ASSUME TypeOK, ThreadLeft, [Next]_vars
    PROVE  ThreadLeft'
<1>. USE DEF requestVars, decoderVars
<1>1. IsFiniteSet(Holders) /\ Cardinality(Holders) \in Nat
  BY PoolAssumption, FS_Subset, FS_CardinalityType DEF Holders
<1>2. Holders' \subseteq Holders => ThreadLeft'
  <2>. SUFFICES ASSUME Holders' \subseteq Holders PROVE ThreadLeft'
    OBVIOUS
  <2>1. IsFiniteSet(Holders') /\ Cardinality(Holders') <= Cardinality(Holders)
    BY <1>1, FS_Subset
  <2>2. Cardinality(Holders') \in Nat
    BY <2>1, FS_CardinalityType
  <2>3. QED
    BY <1>1, <2>1, <2>2, PoolAssumption DEF ThreadLeft
<1>3. ASSUME NEW d \in Downloads, AcquirePermit(d) PROVE ThreadLeft'
  <2>1. Holders' \subseteq Holders \cup {d}
    BY <1>3 DEF AcquirePermit, StartDecoder, Holders, HoldsPermit, TypeOK
  <2>2. /\ IsFiniteSet(Holders \cup {d})
        /\ Cardinality(Holders \cup {d}) <= Cardinality(Holders) + 1
    <3>1. /\ IsFiniteSet(Holders \cup {d})
          /\ Cardinality(Holders \cup {d}) =
                IF d \in Holders THEN Cardinality(Holders) ELSE Cardinality(Holders) + 1
      BY <1>1, FS_AddElement
    <3>2. QED
      BY <1>1, <3>1
  <2>3. /\ IsFiniteSet(Holders')
        /\ Cardinality(Holders') <= Cardinality(Holders \cup {d})
    BY <2>1, <2>2, FS_Subset
  <2>4. Cardinality(Holders') \in Nat /\ Cardinality(Holders \cup {d}) \in Nat
    BY <2>2, <2>3, FS_CardinalityType
  <2>5. Cardinality(Holders) < Permits
    BY <1>3 DEF AcquirePermit
  <2>6. QED
    BY <1>1, <2>2, <2>3, <2>4, <2>5, PoolAssumption DEF ThreadLeft
<1>4. ASSUME NEW d \in Downloads, Request(d) \/ Handler(d) \/ Client(d) \/ HangUp(d)
      PROVE  Holders' \subseteq Holders
  BY <1>4 DEF Request, Handler, LookUp, Plan, LookUpFails, Client, Receive, Finish,
     HangUp, Holders, HoldsPermit
<1>5. ASSUME NEW d \in Downloads, Decoder(d) PROVE Holders' \subseteq Holders
  BY <1>5 DEF Decoder, GetThread, Decode, DecodeFails, Send, SendToNobody, SendError,
     GoOn, Holders, HoldsPermit, TypeOK
<1>6. CASE Kill
  BY <1>2, <1>6 DEF Kill, Holders, HoldsPermit
<1>7. CASE UNCHANGED vars
  BY <1>2, <1>7 DEF vars, Holders, HoldsPermit
<1>8. QED
  BY <1>2, <1>3, <1>4, <1>5, <1>6, <1>7 DEF Next

LEMMA StepIInv == IInv /\ [Next]_vars => IInv'
<1>. SUFFICES ASSUME IInv, [Next]_vars PROVE IInv'
  OBVIOUS
<1>1. StreamInv /\ ThreadLeft
  BY DEF IInv, StreamInv
<1>2. StreamInv'
  BY <1>1, HandlerStep, DecoderStep, ClientStep, KillStep DEF Next
<1>3. ThreadLeft'
  BY <1>1, StepThreadLeft DEF StreamInv
<1>4. QED
  BY <1>2, <1>3 DEF StreamInv, IInv

\* The inductive invariant: what a client has and what is under way to it is the
\* file as far as its decoder is (filestream.rs:80-149), and no more decoders
\* than permits are on the pool (filestream.rs:66-76).
THEOREM Invariance == Spec => []IInv
<1>. QED
  BY InitIInv, StepIInv, PTL DEF Spec

\* state.rs:16-21: whatever the clients do, the decoders never take the last
\* thread of the pool.
THEOREM ThreadForTheIndex == Spec => [](FreeThread)
<1>1. ASSUME IInv PROVE FreeThread
  <2>. DEFINE onThread == {d \in Downloads : OnThread(d)}
  <2>1. onThread \subseteq Holders
    BY DEF OnThread, Holders, HoldsPermit
  <2>2. IsFiniteSet(Holders)
    BY PoolAssumption, FS_Subset DEF Holders
  <2>3. Cardinality(onThread) <= Cardinality(Holders) /\ IsFiniteSet(onThread)
    BY <2>1, <2>2, FS_Subset
  <2>4. Cardinality(onThread) \in Nat /\ Cardinality(Holders) \in Nat
    BY <2>2, <2>3, FS_CardinalityType
  <2>5. Cardinality(Holders) <= Permits
    BY <1>1 DEF IInv, ThreadLeft
  <2>6. QED
    BY <2>3, <2>4, <2>5, PoolAssumption DEF FreeThread
<1>2. QED
  BY <1>1, Invariance, PTL

-------------------------------------------------------------------------------
(* The refinement.                                                         *)

LEMMA InitDelivery == Init => Delivery!DeliveryInit
BY DEF Init, Delivery!DeliveryInit

LEMMA Breaks ==
    ASSUME NEW D \in SUBSET Downloads,
           \A d \in D : outcome[d] = "open",
           outcome' = [d \in Downloads |-> IF d \in D THEN "broken" ELSE outcome[d]],
           UNCHANGED received
    PROVE  Delivery!DeliveryNext
BY DEF Delivery!Break, Delivery!DeliveryNext

LEMMA StepDelivery ==
    ASSUME IInv, [Next]_vars
    PROVE  [Delivery!DeliveryNext]_Delivery!deliveryVars
<1>. USE DEF requestVars, decoderVars
<1>1. ASSUME NEW d \in Downloads, Request(d) \/ LookUp(d) \/ Plan(d) \/ AcquirePermit(d)
      PROVE  UNCHANGED <<received, outcome>>
  BY <1>1 DEF Request, LookUp, Plan, AcquirePermit, StartDecoder
<1>2. ASSUME NEW d \in Downloads, Decoder(d)
      PROVE  UNCHANGED <<received, outcome>>
  BY <1>2 DEF Decoder, GetThread, Decode, DecodeFails, Send, SendToNobody, SendError
<1>3. \A d \in Downloads : DownloadOK(d) /\ TypeOK /\ Size(d) \in Nat
  BY SizeType DEF IInv
<1>4. ASSUME NEW d \in Downloads, outcome[d] = "open", UNCHANGED received,
             outcome' = [outcome EXCEPT ![d] = "broken"]
      PROVE  Delivery!DeliveryNext
  <2>1. \A e \in {d} : outcome[e] = "open"
    BY <1>4
  <2>2. outcome' = [e \in Downloads |-> IF e \in {d} THEN "broken" ELSE outcome[e]]
    BY <1>3, <1>4 DEF TypeOK
  <2>3. {d} \in SUBSET Downloads
    OBVIOUS
  <2>4. QED
    BY <1>4, <2>1, <2>2, <2>3, Breaks
<1>5. ASSUME NEW d \in Downloads, LookUpFails(d) PROVE Delivery!DeliveryNext
  BY <1>3, <1>4, <1>5 DEF LookUpFails, End, DownloadOK, PhaseOK
<1>6. ASSUME NEW d \in Downloads, HangUp(d) PROVE Delivery!DeliveryNext
  BY <1>3, <1>4, <1>6 DEF HangUp, End, DownloadOK, PhaseOK, Waiting
<1>7. ASSUME NEW d \in Downloads, Receive(d) PROVE Delivery!DeliveryNext
  <2>1. /\ channel[d] \in Seq(Nat) /\ channel[d] # <<>> /\ received[d] \in Seq(Nat)
        /\ outcome[d] = "open"
    BY <1>3, <1>7 DEF Receive, Listening, TypeOK, DownloadOK, PhaseOK
  <2>2. Len(channel[d]) >= 1 /\ Head(channel[d]) = channel[d][1]
    BY <2>1
  <2>3. CASE Head(channel[d]) = Broken
    BY <1>4, <1>7, <2>1, <2>3 DEF Receive, End
  <2>4. CASE Head(channel[d]) # Broken
    <3>1. channel[d][1] = Len(received[d]) + 1
      BY <1>3, <2>2, <2>4 DEF DownloadOK, StreamOK
    <3>2. Len(received[d]) < Size(d)
      <4>. DEFINE n == Len(received[d])
                  m == Len(channel[d])
      <4>1. n \in Nat /\ m \in Nat /\ m >= 1 /\ at[d] \in Nat /\ Size(d) \in Nat
        BY <1>3, <2>1, <2>2 DEF TypeOK
      <4>2. at[d] <= Size(d) /\ (decoder[d] # "done" => n + m = at[d])
        BY <1>3, <1>7 DEF Receive, DownloadOK, ProgressOK
      <4>3. decoder[d] = "done" => n + m = Size(d) \/ (n + m = at[d] + 1 /\ m > 1)
        <5>1. channel[d][1] # Broken
          BY <2>2, <2>4
        <5>2. decoder[d] = "done" =>
                 n + m = Size(d) \/ (channel[d][m] = Broken /\ n + m = at[d] + 1)
          BY <1>3, <1>7 DEF Receive, DownloadOK, ProgressOK
        <5>3. m = 1 \/ m > 1
          <6>. HIDE DEF m
          <6>1. QED
            BY <4>1
        <5>4. QED
          BY <5>1, <5>2, <5>3
      <4>. HIDE DEF n, m
      <4>4. n < Size(d)
        BY <4>1, <4>2, <4>3
      <4>5. QED
        BY <4>4 DEF n
    <3>3. /\ received' = [received EXCEPT ![d] = Append(@, Len(received[d]) + 1)]
          /\ UNCHANGED outcome
      BY <1>7, <2>2, <2>4, <3>1 DEF Receive
    <3>4. /\ Len(ChunksOf(d)) = Size(d)
          /\ ChunksOf(d)[Len(received[d]) + 1] = Len(received[d]) + 1
      BY <1>3, <2>1, <3>2 DEF ChunksOf
    <3>5. Delivery!Deliver(d)
      BY <2>1, <3>2, <3>3, <3>4 DEF Delivery!Deliver
    <3>6. QED
      BY <3>5 DEF Delivery!DeliveryNext
  <2>5. QED
    BY <2>3, <2>4
<1>8. ASSUME NEW d \in Downloads, Finish(d) PROVE Delivery!DeliveryNext
  <2>1. /\ received[d] \in Seq(Nat) /\ Len(received[d]) \in Nat
        /\ channel[d] = <<>> /\ Len(channel[d]) = 0
    BY <1>3, <1>8 DEF Finish, TypeOK
  <2>2. Len(received[d]) = Size(d)
    <3>1. \/ Len(received[d]) + Len(channel[d]) = Size(d)
          \/ channel[d] # <<>>
      BY <1>3, <1>8 DEF Finish, DownloadOK, ProgressOK
    <3>2. QED
      BY <1>3, <2>1, <3>1
  <2>3. \A i \in 1 .. Size(d) : received[d][i] = i
    BY <1>3, <2>2 DEF DownloadOK, StreamOK
  <2>4. received[d] = ChunksOf(d)
    BY <1>3, <2>1, <2>2, <2>3 DEF ChunksOf
  <2>5. Delivery!Complete(d)
    BY <1>3, <1>8, <2>4 DEF Finish, Listening, End, DownloadOK, PhaseOK, Delivery!Complete
  <2>6. QED
    BY <2>5 DEF Delivery!DeliveryNext
<1>9. CASE Kill
  <2>1. /\ Cut \in SUBSET Downloads /\ UNCHANGED received
        /\ outcome' = [d \in Downloads |-> IF d \in Cut THEN "broken" ELSE outcome[d]]
    BY <1>9 DEF Kill, Cut
  <2>2. \A d \in Cut : outcome[d] = "open"
    BY <1>3 DEF Cut, DownloadOK, PhaseOK, Waiting
  <2>3. QED
    BY <2>1, <2>2, Breaks
<1>10. CASE UNCHANGED vars
  BY <1>10 DEF vars, Delivery!deliveryVars
<1>11. QED
  BY <1>1, <1>2, <1>5, <1>6, <1>7, <1>8, <1>9, <1>10
     DEF Next, Handler, Client, Delivery!deliveryVars

\* Every download is a delivery of its file (filestream.rs:60-92): its chunks in
\* order, and an end like that of a whole file only after the last.
THEOREM Refinement == Spec => ImplementsDelivery
<1>1. Init => Delivery!DeliveryInit
  BY InitDelivery
<1>2. IInv /\ [Next]_vars => [Delivery!DeliveryNext]_Delivery!deliveryVars
  BY StepDelivery
<1>. QED
  BY <1>1, <1>2, Invariance, PTL DEF Spec, ImplementsDelivery, Delivery!DeliverySpec
================================================================================
