-------------------------------- MODULE CgiProofs ------------------------------
(***************************************************************************)
(* For every child, every size of the pipes and every way the reads fall:  *)
(* IInv is an invariant of Cgi, and so the response is exactly what the    *)
(* child wrote.  What makes it so is that the end of the header block that *)
(* find_header_end sees in a part of the output is the one it would see in *)
(* all of it (EndStays).                                                   *)
(***************************************************************************)
EXTENDS Cgi, SequenceTheorems, TLAPS

\* An end lies within the bytes that were searched, and is not NoSplit.
LEMMA EndType ==
    ASSUME NEW b \in Seq(Symbols), NEW e \in HeaderEnds(b)
    PROVE  /\ e \in [head : Nat, body : Nat] /\ e # NoSplit
           /\ e.head < e.body /\ e.body <= Len(b)
BY DEF HeaderEnds, CrlfAt, LfAt, NoSplit

LEMMA FoundType ==
    ASSUME NEW b \in Seq(Symbols)
    PROVE  /\ FindHeaderEnd(b) \in [head : Nat, body : Nat]
           /\ FindHeaderEnd(b) # NoSplit =>
                 /\ FindHeaderEnd(b) \in FirstEnds(b)
                 /\ FindHeaderEnd(b).head < FindHeaderEnd(b).body
                 /\ FindHeaderEnd(b).body <= Len(b)
<1>1. CASE FirstEnds(b) = {}
  BY <1>1 DEF FindHeaderEnd, NoSplit
<1>2. CASE FirstEnds(b) # {}
  <2>1. FindHeaderEnd(b) \in FirstEnds(b)
    BY <1>2 DEF FindHeaderEnd
  <2>2. FindHeaderEnd(b) \in HeaderEnds(b)
    BY <2>1 DEF FirstEnds
  <2>3. QED
    BY <2>1, <2>2, EndType
<1>3. QED
  BY <1>1, <1>2

\* What is an end in a part is one in the whole, and the other way round if it
\* lies within the part.
LEMMA EndsOfPart ==
    ASSUME NEW w \in Seq(Symbols), NEW n \in 0 .. Len(w), NEW b \in Seq(Symbols),
           b = SubSeq(w, 1, n), NEW e
    PROVE  /\ e \in HeaderEnds(b) => e \in HeaderEnds(w)
           /\ e \in HeaderEnds(w) /\ e.body <= n => e \in HeaderEnds(b)
<1>1. Len(b) = n /\ \A i \in 1 .. n : b[i] = w[i]
  OBVIOUS
<1>2. \A i \in 0 .. n : CrlfAt(b, i) => CrlfAt(w, i)
  BY <1>1 DEF CrlfAt
<1>3. \A i \in 0 .. n : LfAt(b, i) => LfAt(w, i)
  BY <1>1 DEF LfAt
<1>4. \A i \in 0 .. Len(w) : CrlfAt(w, i) /\ i + 4 <= n => i \in 0 .. n /\ CrlfAt(b, i)
  BY <1>1 DEF CrlfAt
<1>5. \A i \in 0 .. Len(w) : LfAt(w, i) /\ i + 2 <= n => i \in 0 .. n /\ LfAt(b, i)
  BY <1>1 DEF LfAt
<1>6. ASSUME e \in HeaderEnds(b) PROVE e \in HeaderEnds(w)
  BY <1>1, <1>2, <1>3, <1>6 DEF HeaderEnds
<1>7. ASSUME e \in HeaderEnds(w), e.body <= n PROVE e \in HeaderEnds(b)
  BY <1>1, <1>4, <1>5, <1>7 DEF HeaderEnds
<1>8. QED
  BY <1>6, <1>7

\* Two ends do not begin at one place, and none that begins earlier is longer by
\* what it would take to lie outside.
LEMMA EndsApart ==
    ASSUME NEW w \in Seq(Symbols), NEW e \in HeaderEnds(w), NEW o \in HeaderEnds(w)
    PROVE  /\ e.head = o.head => e = o
           /\ o.head < e.head => o.body <= e.body
<1>1. /\ e.head \in Nat /\ o.head \in Nat
      /\ \/ e = [head |-> e.head, body |-> e.head + 4] /\ CrlfAt(w, e.head)
         \/ e = [head |-> e.head, body |-> e.head + 2] /\ LfAt(w, e.head)
      /\ \/ o = [head |-> o.head, body |-> o.head + 4] /\ CrlfAt(w, o.head)
         \/ o = [head |-> o.head, body |-> o.head + 2] /\ LfAt(w, o.head)
  BY DEF HeaderEnds
<1>2. \A i \in Nat : CrlfAt(w, i) => w[i + 1] = "r" /\ w[i + 2] = "n" /\ w[i + 3] = "r"
  BY DEF CrlfAt
<1>3. \A i \in Nat : LfAt(w, i) => w[i + 1] = "n" /\ w[i + 2] = "n"
  BY DEF LfAt
<1>4. e.head = o.head => e = o
  BY <1>1, <1>2, <1>3
<1>5. ASSUME o.head < e.head PROVE o.body <= e.body
  <2>1. CASE e.body = e.head + 4
    BY <1>1, <1>5, <2>1
  <2>2. CASE e.body = e.head + 2 /\ LfAt(w, e.head)
    <3>1. CASE o.body = o.head + 2
      BY <1>1, <1>5, <2>2, <3>1
    <3>2. CASE o.body = o.head + 4 /\ CrlfAt(w, o.head)
      <4>1. o.head + 1 # e.head
        <5>1. w[o.head + 3] = "r"
          BY <1>1, <1>2, <3>2
        <5>2. w[e.head + 2] = "n"
          BY <1>1, <1>3, <2>2
        <5>3. o.head + 1 = e.head => o.head + 3 = e.head + 2
          BY <1>1
        <5>4. QED
          BY <5>1, <5>2, <5>3
      <4>2. QED
        BY <1>1, <1>5, <2>2, <3>2, <4>1
    <3>3. QED
      BY <1>1, <3>1, <3>2
  <2>3. QED
    BY <1>1, <2>1, <2>2
<1>6. QED
  BY <1>4, <1>5

\* What follows does not change where the header block ends.
LEMMA EndStays ==
    ASSUME NEW w \in Seq(Symbols), NEW n \in 0 .. Len(w),
           FindHeaderEnd(SubSeq(w, 1, n)) # NoSplit
    PROVE  FindHeaderEnd(w) = FindHeaderEnd(SubSeq(w, 1, n))
<1>. DEFINE b == SubSeq(w, 1, n)
            e == FindHeaderEnd(b)
<1>1. b \in Seq(Symbols) /\ Len(b) = n /\ b = SubSeq(w, 1, n)
  OBVIOUS
<1>2. e \in FirstEnds(b) /\ e \in HeaderEnds(b) /\ e.body <= n
  BY <1>1, FoundType DEF FirstEnds
<1>. HIDE DEF b, e
<1>3. e \in HeaderEnds(w)
  BY <1>1, <1>2, EndsOfPart
<1>4. \A o \in HeaderEnds(w) : e.head <= o.head
  <2>1. SUFFICES ASSUME NEW o \in HeaderEnds(w), o.head < e.head PROVE FALSE
    BY <1>3, EndType
  <2>2. o.body <= e.body
    BY <1>3, <2>1, EndsApart
  <2>3. o.body <= n
    BY <1>2, <1>3, <2>1, <2>2, EndType
  <2>4. o \in HeaderEnds(b)
    BY <1>1, <2>1, <2>3, EndsOfPart
  <2>5. e.head <= o.head
    BY <1>2, <2>4 DEF FirstEnds
  <2>6. QED
    BY <1>3, <2>1, <2>5, EndType
<1>5. e \in FirstEnds(w)
  BY <1>3, <1>4 DEF FirstEnds
<1>6. \A o \in FirstEnds(w) : o = e
  <2>1. SUFFICES ASSUME NEW o \in FirstEnds(w) PROVE o = e
    OBVIOUS
  <2>2. o \in HeaderEnds(w) /\ o.head <= e.head /\ e.head <= o.head
    BY <1>3, <1>4, <2>1 DEF FirstEnds
  <2>3. o.head = e.head
    BY <1>3, <2>2, EndType
  <2>4. QED
    BY <1>3, <2>2, <2>3, EndsApart
<1>7. FindHeaderEnd(w) = e
  BY <1>5, <1>6 DEF FindHeaderEnd
<1>8. QED
  BY <1>7 DEF b, e

-------------------------------------------------------------------------------
(* The invariant.                                                          *)

LEMMA NothingFoundInNothing == FindHeaderEnd(<<>>) = NoSplit
BY DEF FindHeaderEnd, FirstEnds, HeaderEnds, CrlfAt, LfAt

LEMMA InitIInv == Init => IInv
<1>. SUFFICES ASSUME Init PROVE IInv
  OBVIOUS
<1>1. script \in Seq(Steps)
  BY ScriptsAssumption DEF Init
<1>2. TypeOK /\ PartiesOK
  BY <1>1, RoomAssumption DEF Init, TypeOK, PartiesOK, NoSplit, Unread
<1>3. buffered = SubSeq(written, 1, taken) /\ buffered = SubSeq(written, 1, Len(buffered))
  BY DEF Init
<1>4. HeaderOK /\ NoSplitOK /\ ResponseExact
  BY <1>3, NothingFoundInNothing DEF Init, HeaderOK, NoSplitOK, ResponseExact, NoSplit
<1>5. QED
  BY <1>2, <1>4 DEF IInv

\* What the tasks and the child do beside stdout leaves the response alone.
LEMMA Quiet ==
    ASSUME IInv, UNCHANGED <<client, outgoing, received, response, written, taken>>,
           child # "running" => child' # "running"
    PROVE  HeaderOK' /\ NoSplitOK' /\ ResponseExact'
BY DEF IInv, HeaderOK, NoSplitOK, ResponseExact, Delivered, response

LEMMA PumpStep ==
    ASSUME IInv, Pump PROVE IInv'
<1>. USE DEF pipes, connection, response, childVars, IInv, TypeOK
<1>1. /\ UNCHANGED <<client, outgoing, received, response, written, taken>>
      /\ child' = child
  BY DEF Pump, Pull, PullEnd, PullBroken, Push, PushFails
<1>2. HeaderOK' /\ NoSplitOK' /\ ResponseExact'
  BY <1>1, Quiet
<1>3. TypeOK' /\ PartiesOK'
  <2>1. CASE Pull
    BY <2>1 DEF Pull, PartiesOK, Unread
  <2>2. CASE PullEnd
    BY <2>2 DEF PullEnd, PartiesOK, Unread
  <2>3. CASE PullBroken
    BY <2>3 DEF PullBroken, PartiesOK, Unread
  <2>4. CASE PushFails
    BY <2>4 DEF PushFails, PartiesOK, Unread
  <2>5. CASE Push
    BY <2>5, RoomAssumption DEF Push, PartiesOK, Unread
  <2>6. QED
    BY <2>1, <2>2, <2>3, <2>4, <2>5 DEF Pump
<1>4. QED
  BY <1>2, <1>3

LEMMA ReaperStep ==
    ASSUME IInv, Reaper PROVE IInv'
<1>. USE DEF pipes, connection, response, pumpVars, childVars, IInv, TypeOK
<1>1. /\ UNCHANGED <<client, outgoing, received, response, written, taken>>
      /\ child # "running" => child' # "running"
  BY DEF Reaper, Drain, DrainEnds, Reap
<1>2. HeaderOK' /\ NoSplitOK' /\ ResponseExact'
  BY <1>1, Quiet
<1>3. TypeOK' /\ PartiesOK'
  <2>1. CASE Drain
    BY <2>1, RoomAssumption DEF Drain, PartiesOK, Unread
  <2>2. CASE DrainEnds
    BY <2>2 DEF DrainEnds, PartiesOK, Unread
  <2>3. CASE Reap
    BY <2>3 DEF Reap, PartiesOK, Unread
  <2>4. QED
    BY <2>1, <2>2, <2>3 DEF Reaper
<1>4. QED
  BY <1>2, <1>3

\* All of the child's steps but its writes to stdout.
LEMMA ChildStep ==
    ASSUME IInv, ReadInput \/ WriteNoise \/ Exit \/ Crash PROVE IInv'
<1>. USE DEF pipes, connection, response, pumpVars, childVars, IInv, TypeOK, HasStep, Running
<1>1. /\ UNCHANGED <<client, outgoing, received, response, written, taken>>
      /\ child # "running" => child' # "running"
  BY DEF ReadInput, WriteNoise, Exit, Crash
<1>2. HeaderOK' /\ NoSplitOK' /\ ResponseExact'
  BY <1>1, Quiet
<1>3. Len(script) \in Nat
  BY ScriptsAssumption
<1>4. TypeOK' /\ PartiesOK'
  <2>1. CASE ReadInput
    BY <1>3, <2>1, RoomAssumption DEF ReadInput, PartiesOK, Unread
  <2>2. CASE WriteNoise
    BY <1>3, <2>2, RoomAssumption DEF WriteNoise, PartiesOK, Unread
  <2>3. CASE Exit
    BY <2>3 DEF Exit, PartiesOK, Unread
  <2>4. CASE Crash
    BY <2>4 DEF Crash, PartiesOK, Unread
  <2>5. QED
    BY <2>1, <2>2, <2>3, <2>4
<1>5. QED
  BY <1>2, <1>4

\* More output leaves what was found where it was.
LEMMA OutputStep ==
    ASSUME IInv, WriteOutput PROVE IInv'
<1>. USE DEF pipes, connection, response, pumpVars, childVars, IInv, HasStep, Running
<1>1. /\ written \in Seq(Symbols) /\ Step \in Symbols /\ written' = Append(written, Step)
      /\ taken \in 0 .. Len(written) /\ child = "running" /\ at < Len(script)
      /\ UNCHANGED <<client, outgoing, received, response, taken, child>>
  BY DEF WriteOutput, TypeOK
<1>2. /\ written' \in Seq(Symbols) /\ Len(written') = Len(written) + 1
      /\ \A i \in 1 .. Len(written) : written'[i] = written[i]
  BY <1>1
<1>3. \A m \in Nat \ {0}, n \in 0 .. Len(written) :
          SubSeq(written', m, n) = SubSeq(written, m, n)
  BY <1>1, <1>2
<1>4. TypeOK'
  BY <1>1, <1>2, ScriptsAssumption DEF WriteOutput, TypeOK
<1>5. PartiesOK'
  BY <1>1, <1>2, RoomAssumption DEF WriteOutput, TypeOK, PartiesOK, Unread
<1>6. HeaderOK'
  <2>1. Len(buffered) \in Nat /\ Len(buffered) <= taken
    <3>1. buffered \in Seq(Symbols)
      BY DEF TypeOK
    <3>2. QED
      BY <3>1 DEF HeaderOK
  <2>2. /\ SubSeq(written', 1, taken) = SubSeq(written, 1, taken)
        /\ SubSeq(written', 1, Len(buffered)) = SubSeq(written, 1, Len(buffered))
    BY <1>1, <1>3, <2>1
  <2>3. QED
    BY <1>1, <2>2 DEF HeaderOK
<1>7. NoSplitOK'
  BY <1>1 DEF NoSplitOK
<1>8. ResponseExact'
  <2>1. ASSUME split # NoSplit PROVE split = FindHeaderEnd(written')
    <3>a. buffered \in Seq(Symbols)
      BY DEF TypeOK
    <3>b. /\ buffered = SubSeq(written, 1, Len(buffered)) /\ split = FindHeaderEnd(buffered)
          /\ Len(buffered) <= taken
      BY <2>1 DEF HeaderOK
    <3>1. /\ buffered \in Seq(Symbols) /\ Len(buffered) \in 0 .. Len(written)
          /\ buffered = SubSeq(written, 1, Len(buffered)) /\ split = FindHeaderEnd(buffered)
      BY <1>1, <3>a, <3>b
    <3>2. buffered = SubSeq(written', 1, Len(buffered)) /\ Len(buffered) \in 0 .. Len(written')
      BY <1>1, <1>2, <1>3, <3>1
    <3>3. QED
      BY <1>2, <2>1, <3>1, <3>2, EndStays
  <2>2. SubSeq(written', split.body + 1, taken) = SubSeq(written, split.body + 1, taken)
    <3>1. split.body \in Nat
      BY DEF TypeOK
    <3>2. split.body + 1 \in Nat \ {0}
      BY <3>1
    <3>3. QED
      BY <1>1, <1>3, <3>2
  <2>3. status = 200 => split # NoSplit
    BY <1>1 DEF NoSplitOK
  <2>4. handler # "ended"
    BY DEF WriteOutput, StdoutOpen
  <2>5. QED
    BY <1>1, <2>1, <2>2, <2>3, <2>4 DEF ResponseExact, Delivered
<1>9. QED
  BY <1>4, <1>5, <1>6, <1>7, <1>8

LEMMA ClientStep ==
    ASSUME IInv, Upload \/ Receive \/ HangUp \/ BodyFails PROVE IInv'
<1>. USE DEF pipes, response, pumpVars, childVars, IInv
<1>1. /\ outgoing \in Seq(Symbols) /\ received \in Seq(Symbols)
      /\ UNCHANGED <<status, buffered, split, written, taken, child>>
  BY DEF TypeOK, Upload, Receive, HangUp, BodyFails, BreakOff
<1>2. CASE Upload
  <2>1. HeaderOK' /\ NoSplitOK' /\ ResponseExact'
    BY <1>2, Quiet DEF Upload
  <2>2. TypeOK' /\ PartiesOK'
    BY <1>2, RoomAssumption DEF Upload, TypeOK, PartiesOK, Unread
  <2>3. QED
    BY <2>1, <2>2
<1>3. CASE Receive
  <2>1. /\ received' = Delivered /\ outgoing' = <<>> /\ Delivered' = Delivered
        /\ Delivered \in Seq(Symbols) /\ handler' = handler /\ client' = client
    BY <1>1, <1>3 DEF Receive, Delivered
  <2>2. TypeOK' /\ PartiesOK'
    BY <1>3, <2>1 DEF Receive, TypeOK, PartiesOK, Unread
  <2>3. status = 200
    BY <1>3 DEF Receive, HeaderOK
  <2>4. HeaderOK' /\ NoSplitOK' /\ ResponseExact'
    BY <1>1, <1>3, <2>1, <2>3 DEF Receive, HeaderOK, NoSplitOK, ResponseExact
  <2>5. QED
    BY <2>2, <2>4
<1>4. CASE HangUp \/ BodyFails
  <2>0. BreakOff
    BY <1>4 DEF HangUp, BodyFails
  <2>1. TypeOK' /\ PartiesOK'
    BY <2>0 DEF BreakOff, TypeOK, PartiesOK, Unread
  <2>2. Delivered = <<>> => Delivered' = <<>>
    <3>1. Delivered = <<>> => received = <<>>
      BY <1>1, ConcatEqualIffEmpty DEF Delivered
    <3>2. QED
      BY <2>0, <3>1 DEF BreakOff, Delivered
  <2>3. HeaderOK' /\ NoSplitOK' /\ ResponseExact'
    BY <1>1, <2>0, <2>2 DEF BreakOff, HeaderOK, NoSplitOK, ResponseExact
  <2>4. QED
    BY <2>1, <2>3
<1>5. QED
  BY <1>2, <1>3, <1>4

LEMMA ReadHeadStep ==
    ASSUME IInv, NEW n \in Reads, ReadHead(n) PROVE IInv'
<1>. USE DEF pipes, pumpVars, childVars, IInv
<1>1. /\ written \in Seq(Symbols) /\ taken \in Nat /\ n \in Nat \ {0}
      /\ taken + n \in 0 .. Len(written) /\ received = <<>> /\ outgoing = <<>>
      /\ status = 0 /\ handler = "header" /\ client = "there"
      /\ UNCHANGED <<written, received, client, child>>
  BY RoomAssumption DEF ReadHead, Reads, TypeOK, HeaderOK, PartiesOK, Unread
<1>2. /\ taken' = taken + n /\ buffered' = SubSeq(written, 1, taken + n)
      /\ split' = FindHeaderEnd(buffered')
  BY DEF ReadHead, Found
<1>3. /\ buffered' \in Seq(Symbols) /\ Len(buffered') = taken + n
  BY <1>1, <1>2
<1>4. /\ split' \in [head : Nat, body : Nat]
      /\ split' # NoSplit => split'.body <= taken + n /\ split' = FindHeaderEnd(written)
  BY <1>1, <1>2, <1>3, FoundType, EndStays
<1>5. CASE split' = NoSplit
  <2>1. UNCHANGED <<handler, status, outgoing>>
    BY <1>5 DEF ReadHead
  <2>2. TypeOK' /\ PartiesOK'
    <3>1. TypeOK'
      BY <1>1, <1>2, <1>3, <1>4, <2>1 DEF ReadHead, TypeOK
    <3>2. Unread' <= StdoutRoom
      BY <1>1, <1>2, RoomAssumption DEF PartiesOK, Unread
    <3>3. PartiesOK'
      BY <1>1, <2>1, <3>2 DEF ReadHead, PartiesOK
    <3>4. QED
      BY <3>1, <3>3
  <2>3. HeaderOK' /\ NoSplitOK' /\ ResponseExact'
    BY <1>1, <1>2, <1>3, <1>5, <2>1 DEF HeaderOK, NoSplitOK, ResponseExact
  <2>4. QED
    BY <2>2, <2>3
<1>6. CASE split' # NoSplit
  <2>. DEFINE rest == SubSeq(buffered', split'.body + 1, Len(buffered'))
  <2>1. rest \in Seq(Symbols) /\ rest = SubSeq(written, split'.body + 1, taken + n)
    <3>1. \A i \in 1 .. taken + n : buffered'[i] = written[i]
      BY <1>1, <1>2
    <3>2. split'.body + 1 \in 1 .. taken + n + 1
      BY <1>1, <1>4, <1>6
    <3>3. QED
      BY <1>1, <1>3, <3>1, <3>2
  <2>2. \/ handler' = "ended" /\ status' = 500 /\ outgoing' = <<>>
        \/ handler' = "body" /\ status' = 200 /\ outgoing' = rest
    BY <1>1, <1>6 DEF ReadHead, Respond
  <2>. HIDE DEF rest
  <2>3. TypeOK' /\ PartiesOK'
    <3>a. rest \in Seq(Symbols) /\ <<>> \in Seq(Symbols)
      BY <2>1
    <3>b. outgoing' \in Seq(Symbols)
      BY <2>2, <3>a
    <3>c. taken' \in 0 .. Len(written)
      BY <1>1, <1>2
    <3>1. TypeOK'
      BY <1>1, <1>3, <1>4, <2>2, <3>b, <3>c DEF ReadHead, TypeOK
    <3>2. Unread' <= StdoutRoom
      BY <1>1, <1>2, RoomAssumption DEF PartiesOK, Unread
    <3>3. PartiesOK'
      BY <1>1, <2>2, <3>2 DEF ReadHead, PartiesOK
    <3>4. QED
      BY <3>1, <3>3
  <2>4. HeaderOK'
    BY <1>1, <1>2, <1>3, <1>4, <1>6, <2>2 DEF HeaderOK
  <2>5. Delivered' = outgoing'
    BY <1>1, <2>1, <2>2, ConcatEmptySeq DEF Delivered
  <2>6. NoSplitOK' /\ ResponseExact'
    BY <1>1, <1>2, <1>4, <1>6, <2>1, <2>2, <2>5 DEF NoSplitOK, ResponseExact
  <2>7. QED
    BY <2>3, <2>4, <2>6
<1>7. QED
  BY <1>5, <1>6

LEMMA StreamBodyStep ==
    ASSUME IInv, NEW n \in Reads, StreamBody(n) PROVE IInv'
<1>. USE DEF pipes, response, pumpVars, childVars, IInv
<1>1. /\ written \in Seq(Symbols) /\ taken \in Nat /\ n \in Nat \ {0}
      /\ taken + n \in 0 .. Len(written) /\ handler = "body" /\ status = 200
      /\ client = "there" /\ taken' = taken + n
      /\ outgoing \in Seq(Symbols) /\ received \in Seq(Symbols)
      /\ UNCHANGED <<written, received, client, child, handler, status, buffered, split>>
  BY RoomAssumption DEF StreamBody, Reads, TypeOK, HeaderOK, PartiesOK, Unread
<1>. DEFINE more == SubSeq(written, taken + 1, taken + n)
<1>2. more \in Seq(Symbols) /\ outgoing' = outgoing \o more
  BY <1>1 DEF StreamBody
<1>3. split # NoSplit /\ split.body \in Nat /\ split.body <= taken
  <2>1. split # NoSplit
    BY <1>1 DEF NoSplitOK
  <2>2. split.body <= Len(buffered) /\ Len(buffered) <= taken
    BY <2>1 DEF HeaderOK
  <2>3. split.body \in Nat /\ buffered \in Seq(Symbols)
    BY DEF TypeOK
  <2>4. Len(buffered) \in Nat
    BY <2>3
  <2>5. QED
    BY <1>1, <2>1, <2>2, <2>3, <2>4
<1>4. Delivered' = SubSeq(written, split.body + 1, taken + n)
  <2>1. Delivered' = Delivered \o more
    <3>1. Delivered' = received \o (outgoing \o more)
      BY <1>1, <1>2 DEF Delivered
    <3>. HIDE DEF more
    <3>2. received \o (outgoing \o more) = (received \o outgoing) \o more
      <4>1. /\ received \in Seq(Symbols) /\ outgoing \in Seq(Symbols)
            /\ more \in Seq(Symbols)
        BY <1>1, <1>2
      <4>2. QED
        BY <4>1, ConcatAssociative
    <3>3. QED
      BY <3>1, <3>2 DEF Delivered
  <2>2. Delivered = SubSeq(written, split.body + 1, taken)
    BY <1>1, <1>3 DEF ResponseExact
  <2>3. /\ split.body + 1 \in 1 .. Len(written) + 1
        /\ taken \in (split.body + 1) - 1 .. Len(written)
        /\ taken + n \in taken .. Len(written)
    BY <1>1, <1>3
  <2>4. QED
    BY <1>1, <2>1, <2>2, <2>3, ConcatAdjacentSubSeq
<1>. HIDE DEF more
<1>5. TypeOK' /\ PartiesOK'
  <2>1. outgoing' \in Seq(Symbols) /\ taken' \in 0 .. Len(written)
    BY <1>1, <1>2
  <2>2. TypeOK'
    BY <1>1, <2>1 DEF StreamBody, TypeOK
  <2>3. Unread' <= StdoutRoom
    BY <1>1, RoomAssumption DEF PartiesOK, Unread
  <2>4. PartiesOK'
    BY <1>1, <2>3 DEF StreamBody, PartiesOK
  <2>5. QED
    BY <2>2, <2>4
<1>6. HeaderOK'
  <2>1. Len(buffered) \in Nat
    BY DEF TypeOK
  <2>2. QED
    BY <1>1, <1>3, <2>1 DEF HeaderOK
<1>7. NoSplitOK' /\ ResponseExact'
  BY <1>1, <1>3, <1>4 DEF NoSplitOK, ResponseExact
<1>8. QED
  BY <1>5, <1>6, <1>7

LEMMA HandlerStep ==
    ASSUME IInv, Handler \/ SpawnFails \/ ReadFails PROVE IInv'
<1>. USE DEF pipes, connection, response, pumpVars, childVars, IInv
<1>1. CASE Spawn
  <2>1. TypeOK' /\ PartiesOK'
    BY <1>1 DEF Spawn, TypeOK, PartiesOK, Unread
  <2>2. HeaderOK' /\ NoSplitOK' /\ ResponseExact'
    BY <1>1 DEF Spawn, HeaderOK, NoSplitOK, ResponseExact, Delivered, PartiesOK
  <2>3. QED
    BY <2>1, <2>2
<1>2. CASE SpawnFails
  <2>1. TypeOK' /\ PartiesOK'
    BY <1>2 DEF SpawnFails, TypeOK, PartiesOK, Unread
  <2>2. HeaderOK' /\ NoSplitOK' /\ ResponseExact'
    BY <1>2 DEF SpawnFails, HeaderOK, NoSplitOK, ResponseExact, TypeOK
  <2>3. QED
    BY <2>1, <2>2
<1>3. CASE ReadFails
  <2>1. TypeOK' /\ PartiesOK'
    BY <1>3 DEF ReadFails, TypeOK, PartiesOK, Unread
  <2>2. Len(buffered) <= taken /\ buffered = SubSeq(written, 1, Len(buffered))
    BY DEF HeaderOK
  <2>3. HeaderOK' /\ NoSplitOK' /\ ResponseExact'
    BY <1>3, <2>2 DEF ReadFails, HeaderOK, NoSplitOK, ResponseExact
  <2>4. QED
    BY <2>1, <2>3
<1>4. CASE HeadEnds
  <2>1. /\ handler = "header" /\ split = NoSplit /\ outgoing = <<>> /\ received = <<>>
        /\ buffered = SubSeq(written, 1, taken) /\ FindHeaderEnd(buffered) = NoSplit
        /\ written \in Seq(Symbols) /\ taken = Len(written) /\ child # "running"
        /\ UNCHANGED <<client, received, buffered, split, child, written, taken>>
    BY <1>4 DEF HeadEnds, HeaderOK, TypeOK, StdoutEnded, Unread
  <2>2. \/ handler' = "ended" /\ status' = 500
        \/ handler' = "body" /\ status' = 200
    BY <1>4 DEF HeadEnds, Respond
  <2>3. outgoing' = <<>>
    BY <1>4, <2>1 DEF HeadEnds, Respond
  <2>4. TypeOK' /\ PartiesOK'
    BY <1>4, <2>2, <2>3 DEF HeadEnds, TypeOK, PartiesOK, Unread
  <2>5. buffered = written
    BY <2>1
  <2>6. HeaderOK'
    BY <2>1, <2>2, <2>3 DEF HeaderOK
  <2>7. Delivered' = <<>>
    BY <2>1, <2>3 DEF Delivered
  <2>8. NoSplitOK' /\ ResponseExact'
    BY <2>1, <2>2, <2>5, <2>7 DEF NoSplitOK, ResponseExact
  <2>9. QED
    BY <2>4, <2>6, <2>8
<1>5. CASE BodyEnds
  <2>1. TypeOK' /\ PartiesOK'
    BY <1>5 DEF BodyEnds, TypeOK, PartiesOK, Unread
  <2>2. taken = Len(written) /\ status = 200
    BY <1>5 DEF BodyEnds, StdoutEnded, Unread, TypeOK, HeaderOK
  <2>3. HeaderOK'
    BY <1>5, <2>2 DEF BodyEnds, HeaderOK
  <2>4. NoSplitOK' /\ ResponseExact'
    BY <1>5, <2>2 DEF BodyEnds, NoSplitOK, ResponseExact, Delivered
  <2>5. QED
    BY <2>1, <2>3, <2>4
<1>6. QED
  BY <1>1, <1>2, <1>3, <1>4, <1>5, ReadHeadStep, StreamBodyStep DEF Handler

\* The invariant of the exchange (git.rs:255-327).
THEOREM Invariance == Spec => []IInv
<1>1. Init => IInv
  BY InitIInv
<1>2. IInv /\ [Next]_vars => IInv'
  <2>. SUFFICES ASSUME IInv, [Next]_vars PROVE IInv'
    OBVIOUS
  <2>1. CASE UNCHANGED vars
    <3>1. /\ UNCHANGED <<connection, response, pumpVars, reaper, childVars>>
          /\ UNCHANGED <<stdin, written, taken, stderr>>
      BY <2>1 DEF vars, pipes
    <3>2. TypeOK' /\ PartiesOK'
      BY <3>1 DEF connection, response, pumpVars, childVars, IInv, TypeOK, PartiesOK, Unread
    <3>3. HeaderOK' /\ NoSplitOK' /\ ResponseExact'
      BY <3>1, Quiet DEF connection, childVars
    <3>4. QED
      BY <3>2, <3>3 DEF IInv
  <2>2. CASE Next
    BY <2>2, HandlerStep, PumpStep, ReaperStep, ChildStep, OutputStep, ClientStep
       DEF Next, Child
  <2>3. QED
    BY <2>1, <2>2
<1>. QED
  BY <1>1, <1>2, PTL DEF Spec

\* However the output of git falls into reads, and whatever it still writes: the
\* response is cut from it at the first end of a header block, and the body is
\* all that follows, in order (git.rs:255-321 and find_header_end).
THEOREM Exactness == Spec => []ResponseExact
<1>1. IInv => ResponseExact
  BY DEF IInv
<1>. QED
  BY <1>1, Invariance, PTL
================================================================================
