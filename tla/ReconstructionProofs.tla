--------------------------- MODULE ReconstructionProofs ------------------------
(***************************************************************************)
(* Proofs about Reconstruction, for any xorbs, files, ranges and clients.  *)
(*                                                                         *)
(* The arguments are the planner's own: a cut that holds a byte of the     *)
(* range is not trimmed to nothing, and a range that starts behind the     *)
(* last merged one has every earlier one in front of it.  What a client    *)
(* has is compared with the file byte by byte: a term of the plan unpacks  *)
(* to the bytes of the file at its place.  That FlattenSeq puts its pieces *)
(* one behind the other is shown for a first piece that it does not.       *)
(***************************************************************************)
EXTENDS Reconstruction, SequenceTheorems, FiniteSetTheorems, WellFoundedInduction, TLAPS

-------------------------------------------------------------------------------
(* Sequences put together from pieces.                                     *)

\* A family of finite sets that is not empty has a smallest one.
LEMMA SmallestSet ==
    ASSUME NEW S, NEW F, F # {}, \A A \in F : A \subseteq S /\ IsFiniteSet(A)
    PROVE  \E A \in F : \A B \in F : B \subseteq A => B = A
<1>1. F \subseteq FiniteSubsetsOf(S)
  BY DEF FiniteSubsetsOf
<1>2. \E A \in F : \A B \in F : ~ (<<B, A>> \in StrictSubsetOrdering(S))
  BY <1>1, FS_StrictSubsetOrderingWellFounded, WFMin
<1>3. PICK A \in F : \A B \in F : ~ (<<B, A>> \in StrictSubsetOrdering(S))
  BY <1>2
<1>4. ASSUME NEW B \in F, B \subseteq A PROVE B = A
  <2>1. A \in SUBSET S /\ B \in SUBSET S
    BY <1>3
  <2>2. <<B, A>> \in (SUBSET S) \X (SUBSET S)
    BY <2>1
  <2>3. ~ (<<B, A>> \in StrictSubsetOrdering(S))
    BY <1>3
  <2> QED
    BY <1>4, <2>2, <2>3 DEF StrictSubsetOrdering
<1> QED
  BY <1>3, <1>4

\* A set of numbers that is not empty has a least one.
LEMMA LeastNumber ==
    ASSUME NEW T \in SUBSET Nat, T # {}
    PROVE  \E n \in T : \A m \in T : n <= m
<1> DEFINE F == {1 .. n : n \in T}
<1>1. \A A \in F : A \subseteq Nat /\ IsFiniteSet(A)
  BY FS_Interval
<1>2. F # {}
  OBVIOUS
<1> HIDE DEF F
<1>3. PICK A \in F : \A B \in F : B \subseteq A => B = A
  BY <1>1, <1>2, SmallestSet
<1> USE DEF F
<1>4. PICK n \in T : A = 1 .. n
  OBVIOUS
<1>5. ASSUME NEW m \in T PROVE n <= m
  <2>1. 1 .. m \in F
    OBVIOUS
  <2>2. 1 .. m \subseteq 1 .. n => 1 .. m = 1 .. n
    BY <1>3, <1>4, <2>1
  <2>3. ASSUME m < n PROVE FALSE
    <3>1. 1 .. m \subseteq 1 .. n /\ n \in 1 .. n /\ ~(n \in 1 .. m)
      BY <2>3
    <3> QED
      BY <3>1, <2>2
  <2> QED
    BY <2>3
<1> QED
  BY <1>5

\* g[i] is the concatenation of the first i of the pieces ss.
Prefix(ss, k, g) == g = [i \in 1 .. k |-> IF i = 1 THEN ss[i] ELSE g[i - 1] \o ss[i]]

\* The recursion of FlattenSeq has a solution.
LEMMA FlattenExists ==
    ASSUME NEW ss, NEW n \in Nat
    PROVE  n # 0 => \E g : Prefix(ss, n, g)
<1> DEFINE T == {k \in Nat : k # 0 /\ ~ \E g : Prefix(ss, k, g)}
<1>1. ASSUME T # {} PROVE FALSE
  <2>1. PICK k \in T : \A m \in T : k <= m
    BY <1>1, LeastNumber
  <2>2. k # 1
    <3> DEFINE h == [i \in 1 .. 1 |-> ss[1]]
    <3>1. h = [i \in 1 .. 1 |-> IF i = 1 THEN ss[i] ELSE h[i - 1] \o ss[i]]
      OBVIOUS
    <3>2. Prefix(ss, 1, h)
      BY <3>1 DEF Prefix
    <3> HIDE DEF h
    <3> QED
      BY <2>1, <3>2
  <2>3. k - 1 \in Nat /\ k - 1 # 0 /\ k - 1 \notin T
    BY <2>1, <2>2
  <2>4. PICK g : Prefix(ss, k - 1, g)
    BY <2>3
  <2> DEFINE h == [i \in 1 .. k |-> IF i = k THEN g[k - 1] \o ss[k] ELSE g[i]]
  <2>5. ASSUME NEW i \in 1 .. k PROVE h[i] = IF i = 1 THEN ss[i] ELSE h[i - 1] \o ss[i]
    <3>1. \A j \in 1 .. k - 1 : g[j] = IF j = 1 THEN ss[j] ELSE g[j - 1] \o ss[j]
      BY <2>4, <2>3 DEF Prefix
    <3>2. CASE i = k
      <4>1. k - 1 \in 1 .. k /\ k - 1 # k /\ k \in 1 .. k
        BY <2>3
      <4>2. h[k] = g[k - 1] \o ss[k] /\ h[k - 1] = g[k - 1]
        BY <4>1
      <4> QED
        BY <2>2, <3>2, <4>2
    <3>3. CASE i # k
      <4>1. i \in 1 .. k - 1 /\ h[i] = g[i] /\ (i # 1 => h[i - 1] = g[i - 1])
        BY <2>3, <3>3
      <4> QED
        BY <4>1, <3>1
    <3> QED
      BY <3>2, <3>3
  <2>6. h = [i \in 1 .. k |-> IF i = 1 THEN ss[i] ELSE h[i - 1] \o ss[i]]
    BY <2>5
  <2>7. Prefix(ss, k, h)
    BY <2>6 DEF Prefix
  <2> HIDE DEF h
  <2> QED
    BY <2>1, <2>7
<1> QED
  BY <1>1

\* FlattenSeq is such a solution's last element.
LEMMA FlattenPrefix ==
    ASSUME NEW ss, Len(ss) \in Nat, Len(ss) # 0
    PROVE  \E g : /\ \A i \in 1 .. Len(ss) : g[i] = IF i = 1 THEN ss[i] ELSE g[i - 1] \o ss[i]
                  /\ FlattenSeq(ss) = g[Len(ss)]
<1> DEFINE f == CHOOSE g : g = [i \in 1 .. Len(ss) |-> IF i = 1 THEN ss[i] ELSE g[i - 1] \o ss[i]]
<1>1. \E g : g = [i \in 1 .. Len(ss) |-> IF i = 1 THEN ss[i] ELSE g[i - 1] \o ss[i]]
  BY FlattenExists DEF Prefix
<1>2. f = [i \in 1 .. Len(ss) |-> IF i = 1 THEN ss[i] ELSE f[i - 1] \o ss[i]]
  BY <1>1, Zenon
<1>3. FlattenSeq(ss) = f[Len(ss)]
  BY Zenon DEF FlattenSeq
<1> HIDE DEF f
<1> QED
  BY <1>2, <1>3

\* r is put together from the first k of the pieces ss, the i-th from start[i] on.
Assembled(r, ss, start, k) ==
    /\ Len(r) = start[k + 1]
    /\ \A i \in 1 .. k : /\ start[i + 1] <= Len(r)
                         /\ \A p \in 1 .. Len(ss[i]) : r[start[i] + p] = ss[i][p]
    /\ \A q \in 1 .. Len(r) : \E i \in 1 .. k : \E p \in 1 .. Len(ss[i]) : q = start[i] + p

\* One more piece keeps what was put together, and adds itself.
LEMMA AssembledNext ==
    ASSUME NEW S, NEW ss, NEW start, NEW k \in Nat, NEW r \in Seq(S),
           ss[k + 1] \in Seq(S), start[k + 2] = start[k + 1] + Len(ss[k + 1]),
           \A i \in 1 .. k : /\ start[i] \in Nat /\ Len(ss[i]) \in Nat
                             /\ start[i + 1] = start[i] + Len(ss[i]),
           Assembled(r, ss, start, k)
    PROVE  /\ r \o ss[k + 1] \in Seq(S)
           /\ Assembled(r \o ss[k + 1], ss, start, k + 1)
<1> DEFINE piece == ss[k + 1]
           t == r \o piece
<1>1. Len(r) \in Nat /\ Len(piece) \in Nat /\ Len(r) = start[k + 1]
  BY LenProperties DEF Assembled
<1>2. /\ t \in Seq(S) /\ Len(t) = Len(r) + Len(piece)
      /\ \A q \in 1 .. Len(r) : t[q] = r[q]
      /\ \A p \in 1 .. Len(piece) : t[Len(r) + p] = piece[p]
  <2>1. /\ t \in Seq(S) /\ Len(t) = Len(r) + Len(piece)
        /\ \A q \in 1 .. Len(r) + Len(piece) :
              t[q] = IF q <= Len(r) THEN r[q] ELSE piece[q - Len(r)]
    BY ConcatProperties
  <2> HIDE DEF t, piece
  <2>2. ASSUME NEW p \in 1 .. Len(piece) PROVE t[Len(r) + p] = piece[p]
    <3>1. Len(r) + p \in 1 .. Len(r) + Len(piece) /\ ~ (Len(r) + p <= Len(r))
          /\ (Len(r) + p) - Len(r) = p
      BY <1>1
    <3> QED
      BY <2>1, <3>1
  <2>3. ASSUME NEW q \in 1 .. Len(r) PROVE t[q] = r[q]
    <3>1. q \in 1 .. Len(r) + Len(piece) /\ q <= Len(r)
      BY <1>1
    <3> QED
      BY <2>1, <3>1
  <2> QED
    BY <2>1, <2>2, <2>3
<1>3. Len(t) = start[k + 2] /\ k + 1 + 1 = k + 2
  BY <1>1, <1>2
<1> HIDE DEF t
<1>4. ASSUME NEW i \in 1 .. k + 1
      PROVE  /\ start[i + 1] <= Len(t)
             /\ \A p \in 1 .. Len(ss[i]) : t[start[i] + p] = ss[i][p]
  <2>1. CASE i = k + 1
    BY <1>1, <1>2, <1>3, <2>1
  <2>2. CASE i # k + 1
    <3>1. i \in 1 .. k
      BY <2>2
    <3>2. /\ start[i + 1] <= Len(r) /\ start[i] \in Nat /\ Len(ss[i]) \in Nat
          /\ start[i + 1] = start[i] + Len(ss[i])
          /\ \A p \in 1 .. Len(ss[i]) : r[start[i] + p] = ss[i][p]
      BY <3>1 DEF Assembled
    <3>3. ASSUME NEW p \in 1 .. Len(ss[i]) PROVE t[start[i] + p] = ss[i][p]
      <4>1. start[i] + p \in 1 .. Len(r)
        <5>1. p \in Nat /\ 1 <= p /\ p <= Len(ss[i])
          BY <3>2
        <5>2. /\ start[i] + Len(ss[i]) <= Len(r) /\ start[i] \in Nat /\ Len(ss[i]) \in Nat
              /\ Len(r) \in Nat
          BY <1>1, <3>2
        <5> QED
          BY <5>1, <5>2
      <4> QED
        BY <1>2, <3>2, <4>1
    <3> QED
      BY <1>1, <1>2, <3>2, <3>3
  <2> QED
    BY <2>1, <2>2
<1>5. ASSUME NEW q \in 1 .. Len(t)
      PROVE  \E i \in 1 .. k + 1 : \E p \in 1 .. Len(ss[i]) : q = start[i] + p
  <2>1. CASE q <= Len(r)
    <3>2. q \in 1 .. Len(r)
      BY <1>1, <1>2, <2>1
    <3>1. PICK i \in 1 .. k : \E p \in 1 .. Len(ss[i]) : q = start[i] + p
      BY <3>2 DEF Assembled
    <3> QED
      BY <3>1
  <2>2. CASE ~ (q <= Len(r))
    <3>1. q - Len(r) \in 1 .. Len(piece) /\ q = start[k + 1] + (q - Len(r))
      BY <1>1, <1>2, <2>2
    <3> QED
      BY <3>1
  <2> QED
    BY <2>1, <2>2
<1> QED
  BY <1>2, <1>3, <1>4, <1>5 DEF Assembled, t

\* FlattenSeq puts its pieces one behind the other.
LEMMA Flattened ==
    ASSUME NEW S, NEW ss \in Seq(Seq(S)),
           NEW start \in [1 .. Len(ss) + 1 -> Nat], start[1] = 0,
           \A i \in 1 .. Len(ss) : start[i + 1] = start[i] + Len(ss[i])
    PROVE  FlattenSeq(ss) \in Seq(S) /\ Assembled(FlattenSeq(ss), ss, start, Len(ss))
<1>1. Len(ss) \in Nat /\ (\A i \in 1 .. Len(ss) : ss[i] \in Seq(S) /\ Len(ss[i]) \in Nat)
  <2>1. ss \in [1 .. Len(ss) -> Seq(S)] /\ Len(ss) \in Nat
    BY LenProperties
  <2> QED
    BY <2>1, LenProperties
<1>2. CASE Len(ss) = 0
  <2>1. FlattenSeq(ss) = ss
    BY <1>2 DEF FlattenSeq
  <2>2. ss = <<>>
    BY <1>2, EmptySeq
  <2>3. Len(<<>>) = 0 /\ <<>> \in Seq(S)
    OBVIOUS
  <2> QED
    BY <1>2, <2>1, <2>2, <2>3 DEF Assembled
<1>3. CASE Len(ss) # 0
  <2>1. PICK g : /\ \A i \in 1 .. Len(ss) : g[i] = IF i = 1 THEN ss[i] ELSE g[i - 1] \o ss[i]
                 /\ FlattenSeq(ss) = g[Len(ss)]
    BY <1>1, <1>3, FlattenPrefix
  <2> DEFINE Good(k) == g[k] \in Seq(S) /\ Assembled(g[k], ss, start, k)
             T == {k \in Nat : k \in 1 .. Len(ss) /\ ~ Good(k)}
  <2>3. Good(1)
    <3>1. /\ g[1] = ss[1] /\ start[1 + 1] = Len(ss[1]) /\ start[1] = 0
          /\ ss[1] \in Seq(S) /\ Len(ss[1]) \in Nat
      BY <1>1, <1>3, <2>1
    <3>2. \A p \in 1 .. Len(ss[1]) : 0 + p = p
      BY <3>1
    <3>3. \A i \in 1 .. 1 : i = 1
      OBVIOUS
    <3> QED
      BY <3>1, <3>2, <3>3 DEF Assembled
  <2>4. ASSUME NEW k \in Nat, k \in 1 .. Len(ss), k + 1 \in 1 .. Len(ss), Good(k)
        PROVE  Good(k + 1)
    <3>1. g[k + 1] = g[k] \o ss[k + 1]
      <4>1. k + 1 # 1 /\ (k + 1) - 1 = k
        BY <2>4
      <4>2. g[k + 1] = IF k + 1 = 1 THEN ss[k + 1] ELSE g[(k + 1) - 1] \o ss[k + 1]
        BY <2>1, <2>4
      <4> QED
        BY <4>1, <4>2
    <3>2. start[k + 2] = start[k + 1] + Len(ss[k + 1])
      BY <2>4
    <3>3. \A i \in 1 .. k : /\ start[i] \in Nat /\ Len(ss[i]) \in Nat
                            /\ start[i + 1] = start[i] + Len(ss[i])
      <4>1. \A i \in 1 .. k : i \in 1 .. Len(ss) /\ i \in 1 .. Len(ss) + 1
        BY <1>1, <2>4
      <4> QED
        BY <1>1, <4>1
    <3>4. ss[k + 1] \in Seq(S)
      BY <1>1, <2>4
    <3>5. g[k] \in Seq(S) /\ Assembled(g[k], ss, start, k)
      BY <2>4
    <3> HIDE DEF Good
    <3>6. /\ g[k] \o ss[k + 1] \in Seq(S)
          /\ Assembled(g[k] \o ss[k + 1], ss, start, k + 1)
      BY <2>4, <3>2, <3>3, <3>4, <3>5, AssembledNext
    <3> QED
      BY <3>1, <3>6 DEF Good
  <2> HIDE DEF Good
  <2>5. ASSUME T # {} PROVE FALSE
    <3>1. PICK k \in T : \A m \in T : k <= m
      <4>1. T \in SUBSET Nat
        OBVIOUS
      <4> HIDE DEF T
      <4> QED
        BY <2>5, <4>1, LeastNumber
    <3>2. k # 1 /\ k \in 1 .. Len(ss) /\ k \in Nat
      BY <2>3, <3>1
    <3>3. k - 1 \in Nat /\ k - 1 \in 1 .. Len(ss) /\ k - 1 + 1 = k
      BY <1>1, <3>2
    <3>4. Good(k - 1)
      BY <3>1, <3>3
    <3>5. Good(k)
      BY <2>4, <3>2, <3>3, <3>4
    <3> QED
      BY <3>1, <3>5
  <2>6. Good(Len(ss))
    BY <1>1, <1>3, <2>5
  <2> QED
    BY <2>1, <2>6 DEF Good
<1> QED
  BY <1>2, <1>3

-------------------------------------------------------------------------------
USE ClientsAssumption

\* The offsets of a xorb: numbers that grow, those of the frames at every chunk.
LEMMA Offsets ==
    ASSUME NEW x \in Xorbs
    PROVE  /\ NumChunks(x) \in Nat /\ 0 < NumChunks(x)
           /\ \A k \in 0 .. NumChunks(x) :
                 EndOf(Unpacked[x], k) \in Nat /\ EndOf(Boundary[x], k) \in Nat
           /\ \A k, n \in 0 .. NumChunks(x) :
                 /\ k <= n => EndOf(Unpacked[x], k) <= EndOf(Unpacked[x], n)
                 /\ k < n => EndOf(Boundary[x], k) < EndOf(Boundary[x], n)
           /\ EndOf(Boundary[x], NumChunks(x)) = FramesLength(x)
           /\ FramesLength(x) \in Nat /\ FramesLength(x) <= U64Max
<1>1. /\ Unpacked[x] \in Seq(Nat) /\ Boundary[x] \in Seq(Nat)
      /\ FramesLength(x) <= U64Max
      /\ ValidXorbRecord(XorbRecord(x))
      /\ \A k, n \in 0 .. NumChunks(x) : k < n =>
            /\ EndOf(Unpacked[x], k) <= EndOf(Unpacked[x], n)
            /\ EndOf(Boundary[x], k) < EndOf(Boundary[x], n)
  BY XorbsAssumption
<1>2. NumChunks(x) \in Nat /\ 0 < NumChunks(x) /\ Len(Boundary[x]) = NumChunks(x)
  BY <1>1 DEF ValidXorbRecord, XorbRecord, NumChunks
<1>3. \A k \in 0 .. NumChunks(x) :
         EndOf(Unpacked[x], k) \in Nat /\ EndOf(Boundary[x], k) \in Nat
  BY <1>1, <1>2 DEF EndOf, NumChunks
<1>4. EndOf(Boundary[x], NumChunks(x)) = FramesLength(x)
  BY <1>2 DEF EndOf, FramesLength
<1>5. \A k, n \in 0 .. NumChunks(x) : k <= n => EndOf(Unpacked[x], k) <= EndOf(Unpacked[x], n)
  BY <1>1, <1>3
<1> QED
  BY <1>1, <1>2, <1>3, <1>4, <1>5

\* What chunks unpack to adds up.
LEMMA Pieces ==
    ASSUME NEW x \in Xorbs, NEW i \in Nat, NEW j \in Nat, NEW k \in Nat,
           i <= j, j <= k, k <= NumChunks(x)
    PROVE  /\ UnpackedLen(x, i, j) \in Nat
           /\ UnpackedLen(x, i, k) = UnpackedLen(x, i, j) + UnpackedLen(x, j, k)
           /\ UnpackedLen(x, i, i) = 0
<1>1. /\ NumChunks(x) \in Nat
      /\ EndOf(Unpacked[x], i) \in Nat /\ EndOf(Unpacked[x], j) \in Nat
      /\ EndOf(Unpacked[x], k) \in Nat
      /\ EndOf(Unpacked[x], i) <= EndOf(Unpacked[x], j)
      /\ EndOf(Unpacked[x], j) <= EndOf(Unpacked[x], k)
  BY Offsets
<1> QED
  BY <1>1 DEF UnpackedLen

\* One chunk of a cut, and the chunks in front of it or behind it.
LEMMA OneChunk ==
    ASSUME NEW x \in Xorbs, NEW i \in Nat, NEW k \in Nat, NEW j \in Nat,
           i <= k, k < j, j <= NumChunks(x)
    PROVE  /\ ChunkLen(x, k) \in Nat
           /\ UnpackedLen(x, i, k + 1) = UnpackedLen(x, i, k) + ChunkLen(x, k)
           /\ UnpackedLen(x, k, j) = ChunkLen(x, k) + UnpackedLen(x, k + 1, j)
           /\ UnpackedLen(x, i, k) \in Nat /\ UnpackedLen(x, k + 1, j) \in Nat
           /\ UnpackedLen(x, i, j) = UnpackedLen(x, i, k) + ChunkLen(x, k)
                                       + UnpackedLen(x, k + 1, j)
<1>1. NumChunks(x) \in Nat /\ k + 1 \in Nat /\ i <= k + 1 /\ k <= k + 1 /\ k + 1 <= j
      /\ k + 1 <= NumChunks(x) /\ k <= NumChunks(x)
  BY Offsets
<1>2. UnpackedLen(x, k, k + 1) \in Nat /\ UnpackedLen(x, i, k) \in Nat
  BY <1>1, Pieces
<1>6. UnpackedLen(x, i, k + 1) = UnpackedLen(x, i, k) + UnpackedLen(x, k, k + 1)
  BY <1>1, Pieces
<1>3. UnpackedLen(x, k + 1, j) \in Nat
  BY <1>1, Pieces
<1>4. UnpackedLen(x, k, j) = UnpackedLen(x, k, k + 1) + UnpackedLen(x, k + 1, j)
  BY <1>1, Pieces
<1>5. UnpackedLen(x, i, j) = UnpackedLen(x, i, k + 1) + UnpackedLen(x, k + 1, j)
  BY <1>1, Pieces
<1> QED
  BY <1>2, <1>3, <1>4, <1>5, <1>6 DEF ChunkLen

\* The term in hand, of a file that has one.
LEMMA InHand ==
    ASSUME TypeOK, seg <= Len(Segments)
    PROVE  /\ file \in Files /\ seg + 1 \in 1 .. Len(Segments) + 1
           /\ Segment.xorb \in Xorbs /\ Segment.start \in Nat /\ Segment.end \in Nat
           /\ Segment.start < Segment.end /\ Segment.end <= NumChunks(Segment.xorb)
           /\ SegmentBytes(Segment) \in Nat
           /\ SegmentBytes(Segment) = UnpackedLen(Segment.xorb, Segment.start, Segment.end)
           /\ StartOf[file][seg] \in Nat
           /\ StartOf[file][seg + 1] = StartOf[file][seg] + SegmentBytes(Segment)
           /\ StartOf[file][seg + 1] <= LengthOf[file]
           /\ LengthOf[file] \in Nat
<1>1. file \in Files \cup {Unknown, Empty} /\ seg \in 1 .. Len(TermsOf[file]) + 1
  BY DEF TypeOK, Segments
<1>2. /\ TermsOf[file] \in Seq([xorb : Xorbs, start : Nat, end : Nat])
      /\ LengthOf[file] \in Nat
      /\ StartOf[file] \in [1 .. Len(TermsOf[file]) + 1 -> 0 .. LengthOf[file]]
      /\ \A i \in DOMAIN TermsOf[file] :
            StartOf[file][i + 1] = StartOf[file][i] + SegmentBytes(TermsOf[file][i])
  BY <1>1, TermsAssumption
<1>3. seg \in DOMAIN TermsOf[file] /\ seg + 1 \in 1 .. Len(TermsOf[file]) + 1
  BY <1>1, <1>2 DEF Segments
<1>4. file \in Files
  BY <1>1, <1>2, <1>3, StrangersAssumption
<1>5. Segment \in [xorb : Xorbs, start : Nat, end : Nat]
  <2>1. TermsOf[file] \in [DOMAIN TermsOf[file] -> [xorb : Xorbs, start : Nat, end : Nat]]
    BY <1>2, LenProperties
  <2>2. TermsOf[file][seg] \in [xorb : Xorbs, start : Nat, end : Nat]
    BY <2>1, <1>3
  <2> QED
    BY <2>2 DEF Segment, Segments
<1>6. Segment.start < Segment.end /\ Segment.end <= NumChunks(Segment.xorb)
  BY <1>3, <1>4, FilesAssumption DEF Segment, Segments
<1>7. SegmentBytes(Segment) \in Nat
  BY <1>5, <1>6, Pieces, Offsets DEF SegmentBytes
<1>8. StartOf[file][seg + 1] = StartOf[file][seg] + SegmentBytes(Segment)
  BY <1>2, <1>3 DEF Segment, Segments
<1>9. StartOf[file][seg] \in 0 .. LengthOf[file] /\ StartOf[file][seg + 1] \in 0 .. LengthOf[file]
  BY <1>1, <1>2, <1>3
<1> QED
  BY <1>2, <1>3, <1>4, <1>5, <1>6, <1>7, <1>8, <1>9 DEF SegmentBytes, Segments

\* A resolved range has a byte, and lies in the file.
LEMMA Resolved ==
    ASSUME NEW h \in Headers, h # Malformed, NEW total \in Nat, 0 < total, total < U64Max,
           Resolve(h, total) # Unsatisfiable
    PROVE  /\ Resolve(h, total) \in Nat \X Nat
           /\ Resolve(h, total)[1] < Resolve(h, total)[2]
           /\ Resolve(h, total)[2] <= total
<1>1. CASE h = NoHeader
  BY <1>1 DEF Resolve, NoHeader
<1>2. CASE h \in [kind : {"fromTo"}, start : Nat, end : Nat]
  BY <1>2 DEF Resolve, Least, EndExclusive, SaturatingAdd
<1>3. CASE h \in [kind : {"from"}, start : Nat]
  BY <1>3 DEF Resolve
<1>4. CASE h \in [kind : {"suffix"}, length : Nat]
  BY <1>4 DEF Resolve, SaturatingSub
<1> QED
  BY <1>1, <1>2, <1>3, <1>4 DEF Headers

LEMMA BlockHeaderType ==
    ASSUME NEW s \in Nat, NEW b \in Nat, 0 < b
    PROVE  BlockHeader(s, b) \in Headers
BY DEF BlockHeader, FromTo, Headers, SaturatingAdd, Least

-------------------------------------------------------------------------------
(* The steps outside the planner.                                          *)

LEMMA InitialInvariant == Init => PlanInv
<1> SUFFICES ASSUME Init PROVE PlanInv
  OBVIOUS
<1>1. file \in Files \cup {Unknown, Empty} /\ LengthOf[file] \in Nat
      /\ TermsOf[file] \in Seq([xorb : Xorbs, start : Nat, end : Nat])
  BY TermsAssumption DEF Init
<1>2. TypeOK
  BY <1>1 DEF Init, TypeOK, Headers, NoHeader, NoCut, Segments, Unsatisfiable
<1>3. RangeOK /\ SkipOK /\ TermOK /\ CutOK /\ TailOK
  BY DEF Init, RangeOK, SkipOK, TermOK, CutOK, TailOK, Planning, Trimming
<1>4. TermsOK /\ NothingWasted /\ FetchOK
  BY DEF Init, TermsOK, NothingWasted, FetchOK
<1> QED
  BY <1>2, <1>3, <1>4 DEF PlanInv

\* A step without a plan, before or after, can only break the types.
LEMMA NoPlan ==
    ASSUME PlanInv, TypeOK', terms' = <<>>, pc' \notin Planning,
           unmerged' = [x \in Xorbs |-> {}], fetch' = [x \in Xorbs |-> <<>>],
           pc' \in {"idle", "asked"} => seg' = 1 /\ cumulative' = 0
    PROVE  PlanInv'
<1>1. RangeOK' /\ SkipOK' /\ TermOK' /\ CutOK' /\ TailOK'
  BY DEF RangeOK, SkipOK, TermOK, CutOK, TailOK, Planning, Trimming
<1>2. TermsOK' /\ NothingWasted' /\ FetchOK'
  BY DEF TermsOK, NothingWasted, FetchOK, Planning
<1> QED
  BY <1>1, <1>2 DEF PlanInv

\* Before a request is answered there is none.
LEMMA Unplanned ==
    ASSUME PlanInv, pc \in {"idle", "asked", "skip"}
    PROVE  /\ terms = <<>> /\ unmerged = [x \in Xorbs |-> {}] /\ fetch = [x \in Xorbs |-> <<>>]
           /\ pc # "skip" => seg = 1 /\ cumulative = 0
<1>1. terms = <<>>
  BY DEF PlanInv, TermsOK, Trimming
<1>2. \A x \in Xorbs : unmerged[x] = {} /\ fetch[x] = <<>>
  BY <1>1 DEF PlanInv, FetchOK
<1> QED
  BY <1>1, <1>2 DEF PlanInv, TypeOK, SkipOK

LEMMA ClientSteps ==
    ASSUME PlanInv,
           \/ \E s \in 0 .. LengthOf[file] + 1, b \in Blocks : Walk(s, b)
           \/ \E h \in Once : AskOnce(h)
           \/ Read
    PROVE  PlanInv'
<1>1. ASSUME NEW s \in 0 .. LengthOf[file] + 1, NEW b \in Blocks, Walk(s, b) PROVE PlanInv'
  <2>1. s \in Nat /\ b \in Nat /\ 0 < b
    BY TermsAssumption DEF PlanInv, TypeOK
  <2>2. TypeOK'
    BY <1>1, <2>1, BlockHeaderType DEF Walk, PlanInv, TypeOK, plan, Segments
  <2> QED
    BY <1>1, <2>2, NoPlan, Unplanned DEF Walk, plan, Planning
<1>2. ASSUME NEW h \in Once, AskOnce(h) PROVE PlanInv'
  <2>1. TypeOK'
    BY <1>2 DEF AskOnce, PlanInv, TypeOK, plan, walk, Segments
  <2> QED
    BY <1>2, <2>1, NoPlan, Unplanned DEF AskOnce, plan, Planning
<1>3. CASE Read
  <2>1. header' \in Headers /\ at' \in Nat /\ block' \in Nat /\ pc' \in {"asked", "done"}
    <3>1. CASE status = 200 /\ block # 0
      BY <1>3, <3>1, BlockHeaderType DEF Read, PlanInv, TypeOK, SaturatingAdd, Least
    <3>2. CASE ~ (status = 200 /\ block # 0)
      BY <1>3, <3>2 DEF Read, PlanInv, TypeOK
    <3> QED
      BY <3>1, <3>2
  <2>2. LengthOf[file] \in Nat /\ TermsOf[file] \in Seq([xorb : Xorbs, start : Nat, end : Nat])
    BY TermsAssumption DEF PlanInv, TypeOK
  <2>3. TypeOK'
    BY <1>3, <2>1, <2>2 DEF Read, PlanInv, TypeOK, Segments, NoCut, Unsatisfiable
  <2> QED
    BY <1>3, <2>1, <2>3, NoPlan DEF Read, Planning
<1> QED
  BY <1>1, <1>2, <1>3

LEMMA AnswersWithoutPlan ==
    ASSUME PlanInv, BadRequest \/ IndexFails \/ NotFound \/ NotSatisfiable \/ EmptyPlan
    PROVE  PlanInv'
<1>1. /\ pc = "asked" /\ pc' = "answered" /\ status' \in {200, 400, 404, 416, 500}
      /\ UNCHANGED <<request, plan, walk>>
      /\ range' = range \/ range' = <<0, 0>>
  BY DEF BadRequest, IndexFails, NotFound, NotSatisfiable, EmptyPlan, Answer
<1>2. TypeOK'
  BY <1>1 DEF PlanInv, TypeOK, request, plan, walk, Segments
<1> QED
  BY <1>1, <1>2, NoPlan, Unplanned DEF plan, Planning

LEMMA BeginStep == ASSUME PlanInv, Begin PROVE PlanInv'
<1>1. /\ file \in Files /\ header \in Headers /\ header # Malformed
      /\ LengthOf[file] \in Nat /\ 0 < LengthOf[file] /\ LengthOf[file] < U64Max
  BY TermsAssumption, FilesAssumption DEF Begin, Satisfiable, Found, WellFormed, PlanInv, TypeOK
<1>2. /\ range' \in Nat \X Nat /\ range' # Unsatisfiable
      /\ range'[1] < range'[2] /\ range'[2] <= LengthOf[file]
  BY <1>1, Resolved DEF Begin, Satisfiable, Requested
<1>3. pc = "asked" /\ pc' = "skip" /\ UNCHANGED <<request, status, plan, walk>>
  BY DEF Begin
<1>4. TypeOK'
  BY <1>2, <1>3 DEF PlanInv, TypeOK, request, plan, walk, Segments
<1>5. RangeOK'
  BY <1>1, <1>2, <1>3 DEF RangeOK, request
<1>6. SkipOK'
  BY <1>1, <1>2, <1>3, Unplanned, TermsAssumption DEF SkipOK, plan, request
<1>7. TermOK' /\ CutOK' /\ TailOK'
  BY <1>3 DEF TermOK, CutOK, TailOK, Trimming
<1>8. TermsOK' /\ NothingWasted' /\ FetchOK'
  BY <1>3, Unplanned DEF TermsOK, NothingWasted, FetchOK, plan
<1> QED
  BY <1>4, <1>5, <1>6, <1>7, <1>8 DEF PlanInv

-------------------------------------------------------------------------------
(* The planner's loops.                                                    *)

\* What the loops before the merge leave alone.
LEMMA SamePlan ==
    ASSUME PlanInv, pc \in Planning \ {"merge"}, pc' \in Planning \ {"merge"},
           UNCHANGED <<file, range, terms, unmerged, fetch>>,
           firstChunkByteStart' = firstChunkByteStart \/ terms = <<>>
    PROVE  RangeOK' /\ NothingWasted' /\ FetchOK'
<1>1. RangeOK'
  BY DEF PlanInv, RangeOK, Planning
<1>2. NothingWasted'
  BY DEF PlanInv, NothingWasted
<1>3. FetchOK'
  BY DEF PlanInv, FetchOK, Planning
<1> QED
  BY <1>1, <1>2, <1>3

\* The first term with a byte of the range is not behind the last.
LEMMA SkipTermStep == ASSUME PlanInv, SkipTerm PROVE PlanInv'
<1>1. /\ pc = "skip" /\ seg <= Len(Segments) /\ terms = <<>>
      /\ UNCHANGED <<request, status, range, cut, terms, unmerged, fetch, walk>>
  BY Unplanned DEF SkipTerm
<1>2. /\ cumulative = StartOf[file][seg] /\ cumulative <= range[1] /\ cumulative \in Nat
      /\ range \in Nat \X Nat /\ LengthOf[file] \in Nat /\ SegmentBytes(Segment) \in Nat
      /\ seg + 1 \in 1 .. Len(Segments) + 1
      /\ cumulative + SegmentBytes(Segment) = StartOf[file][seg + 1]
      /\ StartOf[file][seg + 1] <= LengthOf[file]
  BY <1>1, InHand DEF PlanInv, TypeOK, SkipOK, RangeOK, Planning
<1>3. CASE cumulative + SegmentBytes(Segment) > range[1]
  <2>1. pc' = "term" /\ firstChunkByteStart' = cumulative /\ UNCHANGED <<seg, cumulative>>
    BY <1>3 DEF SkipTerm
  <2>2. TypeOK'
    BY <1>1, <1>2, <2>1 DEF PlanInv, TypeOK, request, walk, Segments
  <2>3. TermOK'
    BY <1>1, <1>2, <1>3, <2>1 DEF TermOK, Segments, Segment, request
  <2>4. SkipOK' /\ CutOK' /\ TailOK' /\ TermsOK'
    BY <1>1, <2>1 DEF PlanInv, SkipOK, CutOK, TailOK, TermsOK, Trimming
  <2> QED
    BY <1>1, <2>1, <2>2, <2>3, <2>4, SamePlan DEF PlanInv, Planning, request
<1>4. CASE ~ (cumulative + SegmentBytes(Segment) > range[1])
  <2>1. /\ cumulative' = cumulative + SegmentBytes(Segment) /\ seg' = seg + 1
        /\ UNCHANGED <<pc, firstChunkByteStart>>
    BY <1>4 DEF SkipTerm
  <2>5. seg' \in 1 .. Len(Segments) + 1 /\ cumulative' \in 0 .. LengthOf[file]
    BY <1>2, <2>1
  <2>2. TypeOK'
    BY <1>1, <2>1, <2>5 DEF PlanInv, TypeOK, request, walk, Segments
  <2>3. SkipOK'
    BY <1>1, <1>2, <1>4, <2>1 DEF SkipOK, request
  <2>4. TermOK' /\ CutOK' /\ TailOK' /\ TermsOK'
    BY <1>1, <2>1 DEF PlanInv, TermOK, CutOK, TailOK, TermsOK, Trimming
  <2> QED
    BY <1>1, <2>1, <2>2, <2>3, <2>4, SamePlan DEF PlanInv, Planning, request
<1> QED
  BY <1>3, <1>4

LEMMA TakeTermStep == ASSUME PlanInv, TakeTerm PROVE PlanInv'
<1>1. /\ pc = "term" /\ seg <= Len(Segments) /\ cumulative < range[2]
      /\ pc' = (IF cumulative < range[1] THEN "lead" ELSE "hasTail")
      /\ cut' = [start |-> Segment.start, end |-> Segment.end,
                 unpacked |-> SegmentBytes(Segment)]
      /\ UNCHANGED <<request, status, range, seg, cumulative, firstChunkByteStart,
                     terms, unmerged, fetch, walk>>
  BY DEF TakeTerm
<1>2. /\ Segment.xorb \in Xorbs /\ Segment.start \in Nat /\ Segment.end \in Nat
      /\ Segment.start < Segment.end /\ Segment.end <= NumChunks(Segment.xorb)
      /\ SegmentBytes(Segment) \in Nat
      /\ SegmentBytes(Segment) = UnpackedLen(Segment.xorb, Segment.start, Segment.end)
      /\ range \in Nat \X Nat /\ cumulative \in Nat /\ firstChunkByteStart \in Nat
  BY <1>1, InHand DEF PlanInv, TypeOK, RangeOK, Planning
<1>9. UnpackedLen(Segment.xorb, Segment.start, Segment.start) = 0
  <2>1. Segment.start <= Segment.start /\ Segment.start <= NumChunks(Segment.xorb)
    BY <1>2, Offsets
  <2> QED
    BY <1>2, <2>1, Pieces
<1>3. TypeOK'
  BY <1>1, <1>2 DEF PlanInv, TypeOK, request, walk, Segments
<1>4. cumulative = StartOf[file][seg]
  BY <1>1, <1>2 DEF PlanInv, TermOK
<1>5. CutOK'
  <2>1. UNCHANGED Segment /\ UNCHANGED Segments
    BY <1>1 DEF Segment, Segments, request
  <2>2. range[1] < cumulative + SegmentBytes(Segment)
    BY <1>1, <1>2 DEF PlanInv, TermOK
  <2>3. IF terms # <<>> THEN pc' # "lead" /\ range[1] < cumulative
        ELSE firstChunkByteStart = cumulative /\ cumulative <= range[1]
    BY <1>1, <1>2 DEF PlanInv, TermOK
  <2> QED
    BY <1>1, <1>2, <1>9, <1>4, <2>1, <2>2, <2>3 DEF CutOK, request
<1>6. TailOK'
  BY <1>1 DEF TailOK, Segment, Segments, request
<1>7. TermsOK'
  BY <1>1 DEF PlanInv, TermsOK, Trimming, LastTerm
<1>8. SkipOK' /\ TermOK'
  BY <1>1 DEF SkipOK, TermOK
<1> QED
  BY <1>1, <1>3, <1>5, <1>6, <1>7, <1>8, SamePlan DEF PlanInv, Planning, request

\* The planner stops only with a plan that reaches the end of the range.
LEMMA NoMoreTermsStep == ASSUME PlanInv, NoMoreTerms PROVE PlanInv'
<1>1. /\ pc = "term" /\ pc' = "merge" /\ (seg > Len(Segments) \/ cumulative >= range[2])
      /\ UNCHANGED <<request, status, range, plan, walk>>
  BY DEF NoMoreTerms
<1>2. /\ range \in Nat \X Nat /\ range[1] < range[2] /\ range[2] <= LengthOf[file]
      /\ seg \in 1 .. Len(Segments) + 1 /\ file \in Files
      /\ cumulative \in 0 .. LengthOf[file]
  BY <1>1 DEF PlanInv, TypeOK, RangeOK, Planning
<1>10. /\ StartOf[file][Len(Segments) + 1] = LengthOf[file] /\ Len(Segments) \in Nat
      /\ LengthOf[file] \in Nat
  <2>1. /\ Segments \in Seq([xorb : Xorbs, start : Nat, end : Nat])
        /\ StartOf[file][Len(Segments) + 1] = LengthOf[file] /\ LengthOf[file] \in Nat
    BY <1>2, TermsAssumption DEF Segments
  <2> QED
    BY <2>1, LenProperties
<1>3. cumulative >= range[2]
  BY <1>1, <1>2, <1>10 DEF PlanInv, TermOK
<1>4. terms # <<>>
  BY <1>2, <1>3, <1>1, <1>10 DEF PlanInv, TermOK
<1>5. TypeOK'
  BY <1>1 DEF PlanInv, TypeOK, request, plan, walk, Segments
<1>6. RangeOK' /\ SkipOK' /\ TermOK' /\ CutOK' /\ TailOK'
  BY <1>1 DEF PlanInv, RangeOK, SkipOK, TermOK, CutOK, TailOK, Planning, Trimming, request
<1>7. TermsOK'
  BY <1>1 DEF PlanInv, TermsOK, LastTerm, plan
<1>8. NothingWasted'
  BY <1>1 DEF PlanInv, NothingWasted, plan
<1>9. FetchOK'
  BY <1>1, <1>3, <1>4 DEF PlanInv, FetchOK, plan
<1> QED
  BY <1>5, <1>6, <1>7, <1>8, <1>9 DEF PlanInv

\* What a planner that trims knows of its cut.
LEMMA AtCut ==
    ASSUME PlanInv, pc \in Trimming
    PROVE  /\ Segment.xorb \in Xorbs /\ Segment.start \in Nat /\ Segment.end \in Nat
           /\ cut.start \in Nat /\ cut.end \in Nat /\ cut.unpacked \in Nat
           /\ cut.end <= NumChunks(Segment.xorb) /\ NumChunks(Segment.xorb) \in Nat
           /\ range \in Nat \X Nat /\ cumulative \in Nat /\ firstChunkByteStart \in Nat
           /\ LengthOf[file] \in Nat /\ range[2] <= LengthOf[file] /\ range[1] < range[2]
           /\ cut = [start |-> cut.start, end |-> cut.end, unpacked |-> cut.unpacked]
<1>1. /\ seg <= Len(Segments) /\ cut.end <= Segment.end /\ TypeOK
      /\ range # Unsatisfiable /\ range[2] <= LengthOf[file] /\ range[1] < range[2]
  BY DEF PlanInv, CutOK, RangeOK, Trimming, Planning
<1>2. Segment.xorb \in Xorbs /\ NumChunks(Segment.xorb) \in Nat
      /\ Segment.start \in Nat /\ Segment.end \in Nat /\ Segment.end <= NumChunks(Segment.xorb)
      /\ LengthOf[file] \in Nat
  BY <1>1, InHand, Offsets
<1> QED
  BY <1>1, <1>2 DEF TypeOK

\* A chunk in front of the range is not the last of its term.
LEMMA TrimLeadStep == ASSUME PlanInv, TrimLead PROVE PlanInv'
<1> DEFINE x == Segment.xorb
           next == ChunkLen(x, cut.start)
<1>1. /\ pc = "lead" /\ terms = <<>>
      /\ UNCHANGED <<request, status, range, seg, terms, unmerged, fetch, walk>>
      /\ UNCHANGED Segment /\ UNCHANGED Segments
  BY DEF TrimLead, PlanInv, CutOK, Trimming, Segment, Segments, request
<1>2. /\ seg <= Len(Segments) /\ Segment.start <= cut.start /\ cut.start < cut.end
      /\ cut.end = Segment.end
      /\ cut.unpacked = UnpackedLen(x, cut.start, cut.end)
      /\ cumulative = StartOf[file][seg] + UnpackedLen(x, Segment.start, cut.start)
      /\ cumulative < range[2] /\ range[1] < cumulative + cut.unpacked
      /\ firstChunkByteStart = cumulative /\ cumulative <= range[1]
  BY <1>1 DEF PlanInv, CutOK, TailOK, Trimming
<1>3. /\ x \in Xorbs /\ Segment.start \in Nat
      /\ cut.start \in Nat /\ cut.end \in Nat /\ cut.unpacked \in Nat
      /\ cut.end <= NumChunks(x)
      /\ range \in Nat \X Nat /\ cumulative \in Nat
      /\ LengthOf[file] \in Nat /\ range[2] <= LengthOf[file] /\ range[1] < range[2]
  BY <1>1, AtCut DEF Trimming
<1>4. /\ next \in Nat /\ UnpackedLen(x, cut.start + 1, cut.end) \in Nat
      /\ UnpackedLen(x, Segment.start, cut.start + 1)
           = UnpackedLen(x, Segment.start, cut.start) + next
      /\ cut.unpacked = next + UnpackedLen(x, cut.start + 1, cut.end)
  <2>1. /\ Segment.start \in Nat /\ cut.start \in Nat /\ cut.end \in Nat /\ x \in Xorbs
        /\ cut.start <= cut.start /\ Segment.start <= cut.start /\ cut.start < cut.end
        /\ cut.end <= NumChunks(x)
    BY <1>2, <1>3
  <2> HIDE DEF x
  <2>2. /\ next \in Nat /\ UnpackedLen(x, cut.start + 1, cut.end) \in Nat
        /\ UnpackedLen(x, cut.start, cut.end) = next + UnpackedLen(x, cut.start + 1, cut.end)
    BY <2>1, OneChunk
  <2>3. UnpackedLen(x, Segment.start, cut.start + 1)
          = UnpackedLen(x, Segment.start, cut.start) + next
    BY <2>1, OneChunk
  <2> QED
    BY <1>2, <2>2, <2>3
<1> HIDE DEF next
<1>5. SkipOK' /\ TermOK'
  BY <1>1 DEF TrimLead, SkipOK, TermOK
<1>6. CASE cumulative + next <= range[1]
  <2>1. /\ cumulative' = cumulative + next
        /\ firstChunkByteStart' = firstChunkByteStart + next
        /\ cut' = [cut EXCEPT !.start = @ + 1, !.unpacked = @ - next]
        /\ pc' = pc
    BY <1>2, <1>6 DEF TrimLead, next
  <2>2. cut' = [start |-> cut.start + 1, end |-> cut.end, unpacked |-> cut.unpacked - next]
    BY <1>1, <2>1, AtCut DEF Trimming
  <2>3. cut.start + 1 # cut.end
    <3>1. SUFFICES ASSUME cut.start + 1 = cut.end PROVE FALSE
      OBVIOUS
    <3>2. UnpackedLen(x, cut.start + 1, cut.end) = 0
      BY <1>3, <3>1, Pieces
    <3> QED
      BY <1>2, <1>3, <1>4, <1>6, <3>2
  <2>4. cut'.unpacked = UnpackedLen(x, cut'.start, cut'.end) /\ cut'.unpacked \in Nat
    BY <1>3, <1>4, <2>2
  <2>5. TypeOK'
    <3>1. cumulative' \in 0 .. LengthOf[file] /\ firstChunkByteStart' \in Nat
      <4>1. /\ range[1] \in Nat /\ range[2] \in Nat /\ LengthOf[file] \in Nat /\ next \in Nat
            /\ cumulative \in Nat /\ cumulative + next <= range[1]
            /\ range[1] < range[2] /\ range[2] <= LengthOf[file]
        BY <1>3, <1>4, <1>6
      <4> QED
        BY <1>2, <2>1, <4>1
    <3>2. cut' \in [start : Nat, end : Nat, unpacked : Nat]
      BY <1>3, <2>2, <2>4
    <3> QED
      BY <1>1, <2>1, <3>1, <3>2 DEF PlanInv, TypeOK, request, walk
  <2>6. CutOK'
    <3>1. cumulative' = StartOf[file][seg] + UnpackedLen(x, Segment.start, cut'.start)
      <4>1. StartOf[file][seg] \in Nat
        BY <1>2, InHand DEF PlanInv
      <4>2. UnpackedLen(x, Segment.start, cut.start) \in Nat
        BY <1>2, <1>3, OneChunk
      <4>3. cumulative' = StartOf[file][seg] + UnpackedLen(x, Segment.start, cut.start + 1)
        BY <1>2, <1>4, <2>1, <4>1, <4>2
      <4> QED
        BY <2>2, <4>3
    <3>2. /\ cumulative' < range[2] /\ firstChunkByteStart' = cumulative'
          /\ cumulative' <= range[1] /\ range[1] < cumulative' + (cut.unpacked - next)
      BY <1>2, <1>3, <1>4, <1>6, <2>1
    <3>3. cut.start + 1 < cut.end /\ Segment.start <= cut.start + 1
      BY <1>2, <1>3, <2>3
    <3>4. /\ range[1] < cumulative' + cut'.unpacked
          /\ Segment.start <= cut'.start /\ cut'.start < cut'.end /\ cut'.end = Segment.end
      BY <1>2, <2>2, <3>2, <3>3
    <3> QED
      BY <1>1, <1>2, <1>3, <2>1, <2>4, <3>1, <3>2, <3>4 DEF CutOK, request
  <2>7. TailOK' /\ TermsOK'
    BY <1>1, <1>2, <2>1, <2>2 DEF TailOK, TermsOK
  <2> QED
    BY <1>1, <1>5, <2>1, <2>5, <2>6, <2>7, SamePlan DEF PlanInv, Planning, request
<1>7. CASE ~ (cumulative + next <= range[1])
  <2>1. pc' = "hasTail" /\ UNCHANGED <<cumulative, firstChunkByteStart, cut>>
    BY <1>7 DEF TrimLead, next
  <2>2. TypeOK'
    BY <1>1, <2>1 DEF PlanInv, TypeOK, request, walk
  <2>3. CutOK'
    <3>1. range[1] < cumulative + ChunkLen(x, cut.start)
      BY <1>3, <1>4, <1>7 DEF next
    <3>2. Segment.start <= cut.start /\ cut.end <= Segment.end
      BY <1>2, <1>3
    <3> QED
      BY <1>1, <1>2, <2>1, <3>1, <3>2 DEF CutOK, request
  <2>4. TailOK' /\ TermsOK'
    BY <1>1, <1>2, <2>1 DEF TailOK, TermsOK
  <2> QED
    BY <1>1, <1>5, <2>1, <2>2, <2>3, <2>4, SamePlan DEF PlanInv, Planning, request
<1> QED
  BY <1>6, <1>7

LEMMA CheckTailStep == ASSUME PlanInv, CheckTail PROVE PlanInv'
<1>1. /\ pc = "hasTail" /\ UNCHANGED <<request, status, range, plan, walk>>
      /\ pc' = (IF cumulative + cut.unpacked > range[2] THEN "tail" ELSE "emit")
      /\ UNCHANGED Segment /\ UNCHANGED Segments
  BY DEF CheckTail, Segment, Segments, request, plan
<1>2. /\ range \in Nat \X Nat /\ cumulative \in Nat /\ cut.unpacked \in Nat
      /\ cut.end = Segment.end
  BY <1>1, AtCut DEF Trimming, PlanInv, TailOK
<1>3. TypeOK'
  BY <1>1 DEF PlanInv, TypeOK, request, plan, walk
<1>4. CutOK'
  BY <1>1 DEF PlanInv, CutOK, Trimming, plan, request
<1>5. TailOK'
  BY <1>1, <1>2 DEF TailOK, plan
<1>6. SkipOK' /\ TermOK'
  BY <1>1 DEF SkipOK, TermOK
<1>7. TermsOK'
  BY <1>1 DEF PlanInv, TermsOK, LastTerm, Trimming, plan
<1> QED
  BY <1>1, <1>3, <1>4, <1>5, <1>6, <1>7, SamePlan DEF PlanInv, Planning, request, plan

\* A chunk behind the range is not the first of its cut.
LEMMA TrimTailStep == ASSUME PlanInv, TrimTail PROVE PlanInv'
<1> DEFINE x == Segment.xorb
           last == ChunkLen(x, cut.end - 1)
           without == cut.unpacked - last
<1>1. /\ pc = "tail"
      /\ UNCHANGED <<request, status, range, seg, cumulative, firstChunkByteStart,
                     terms, unmerged, fetch, walk>>
      /\ UNCHANGED Segment /\ UNCHANGED Segments
  BY DEF TrimTail, Segment, Segments, request
<1>2. /\ seg <= Len(Segments) /\ Segment.start <= cut.start /\ cut.start < cut.end
      /\ cut.end <= Segment.end
      /\ cut.unpacked = UnpackedLen(x, cut.start, cut.end)
      /\ cumulative < range[2] /\ range[1] < cumulative + cut.unpacked
      /\ range[2] <= cumulative + cut.unpacked
  BY <1>1 DEF PlanInv, CutOK, TailOK, Trimming
<1>3. /\ x \in Xorbs /\ Segment.start \in Nat /\ Segment.end \in Nat
      /\ cut.start \in Nat /\ cut.end \in Nat /\ cut.unpacked \in Nat
      /\ cut.end <= NumChunks(x) /\ NumChunks(x) \in Nat
      /\ range \in Nat \X Nat /\ cumulative \in Nat /\ range[1] < range[2]
  BY <1>1, AtCut DEF Trimming
<1>4. /\ last \in Nat /\ without \in Nat
      /\ without = UnpackedLen(x, cut.start, cut.end - 1)
  <2>1. /\ cut.end - 1 \in Nat /\ cut.start <= cut.end - 1 /\ cut.end - 1 < cut.end
        /\ (cut.end - 1) + 1 = cut.end
    <3>1. cut.start \in Nat /\ cut.end \in Nat /\ cut.start < cut.end
      BY <1>2, <1>3
    <3> HIDE DEF x, last, without
    <3> QED
      BY <3>1
  <2>2. /\ last \in Nat /\ UnpackedLen(x, cut.start, cut.end - 1) \in Nat
        /\ UnpackedLen(x, cut.start, (cut.end - 1) + 1)
             = UnpackedLen(x, cut.start, cut.end - 1) + last
    BY <1>3, <2>1, OneChunk
  <2> QED
    BY <1>2, <2>1, <2>2
<1>5. SkipOK' /\ TermOK'
  BY <1>1 DEF TrimTail, SkipOK, TermOK
<1>6. TermsOK'
  BY <1>1 DEF TrimTail, PlanInv, TermsOK, LastTerm, Trimming
<1>7. CASE cumulative + without >= range[2]
  <2>1. cut' = [cut EXCEPT !.end = @ - 1, !.unpacked = without] /\ pc' = pc
    BY <1>2, <1>3, <1>7 DEF TrimTail
  <2>2. cut' = [start |-> cut.start, end |-> cut.end - 1, unpacked |-> without]
    BY <1>1, <2>1, AtCut DEF Trimming
  <2>3. cut.end - 1 # cut.start
    <3>1. SUFFICES ASSUME cut.end - 1 = cut.start PROVE FALSE
      OBVIOUS
    <3>2. cut.start <= cut.start /\ cut.start <= NumChunks(x)
      BY <1>2, <1>3
    <3>3. without = 0
      BY <1>3, <1>4, <3>1, <3>2, Pieces
    <3> QED
      BY <1>2, <1>3, <1>7, <3>3
  <2>4. TypeOK'
    <3>1. cut' \in [start : Nat, end : Nat, unpacked : Nat]
      BY <1>2, <1>3, <1>4, <2>2
    <3> QED
      BY <1>1, <2>1, <3>1 DEF PlanInv, TypeOK, request, walk
  <2>5. CutOK'
    <3>0. /\ cut.start < cut.end - 1 /\ cut.end - 1 <= Segment.end
          /\ range[1] < cumulative + without
      <4>1. /\ range[1] \in Nat /\ range[2] \in Nat /\ without \in Nat /\ cumulative \in Nat
            /\ cumulative + without >= range[2] /\ range[1] < range[2]
        BY <1>3, <1>4, <1>7
      <4>2. cut.start < cut.end - 1 /\ cut.end - 1 <= Segment.end
        BY <1>2, <1>3, <2>3
      <4> HIDE DEF without
      <4>3. range[1] < cumulative + without
        BY <4>1
      <4> QED
        BY <4>2, <4>3
    <3>1. /\ cut'.start = cut.start /\ cut'.start < cut'.end /\ cut'.end <= Segment.end
          /\ cut'.unpacked = UnpackedLen(x, cut'.start, cut'.end)
          /\ range[1] < cumulative + cut'.unpacked
      BY <1>4, <2>2, <3>0
    <3> QED
      BY <1>1, <2>1, <3>1 DEF PlanInv, CutOK, Trimming, request
  <2>6. TailOK'
    BY <1>1, <1>3, <1>4, <1>7, <2>1, <2>2 DEF TailOK
  <2> QED
    BY <1>1, <1>5, <1>6, <2>1, <2>4, <2>5, <2>6, SamePlan DEF PlanInv, Planning, request
<1>8. CASE ~ (cumulative + without >= range[2])
  <2>1. pc' = "emit" /\ UNCHANGED cut
    BY <1>8 DEF TrimTail
  <2>2. TypeOK'
    BY <1>1, <2>1 DEF PlanInv, TypeOK, request, walk
  <2>3. CutOK'
    BY <1>1, <2>1 DEF PlanInv, CutOK, Trimming, request
  <2>4. cumulative + UnpackedLen(x, cut.start, cut.end - 1) < range[2]
    BY <1>3, <1>4, <1>8
  <2>5. TailOK'
    BY <1>1, <1>2, <2>1, <2>4 DEF TailOK
  <2> QED
    BY <1>1, <1>5, <1>6, <2>1, <2>2, <2>3, <2>5, SamePlan DEF PlanInv, Planning, request
<1> QED
  BY <1>7, <1>8

\* Every chunk of a trimmed cut reaches into the range: the first one does, and
\* the last one begins in front of its end.
LEMMA CutWastesNothing ==
    ASSUME PlanInv, pc = "emit", NEW k \in Nat, cut.start <= k, k < cut.end,
           ChunkLen(Segment.xorb, k) > 0
    PROVE  LET lo == cumulative + UnpackedLen(Segment.xorb, cut.start, k)
           IN lo < range[2] /\ lo + ChunkLen(Segment.xorb, k) > range[1]
<1> DEFINE x == Segment.xorb
           front == UnpackedLen(x, cut.start, k)
           len == ChunkLen(x, k)
<1>1. /\ cut.start < cut.end /\ cut.unpacked = UnpackedLen(x, cut.start, cut.end)
      /\ range[1] <= cumulative \/ range[1] < cumulative + ChunkLen(x, cut.start)
      /\ \/ cumulative + cut.unpacked <= range[2]
         \/ cumulative + UnpackedLen(x, cut.start, cut.end - 1) < range[2]
  BY DEF PlanInv, CutOK, TailOK, Trimming
<1>2. /\ x \in Xorbs /\ cut.start \in Nat /\ cut.end \in Nat /\ cut.end <= NumChunks(x)
      /\ range[1] \in Nat /\ range[2] \in Nat /\ cumulative \in Nat /\ NumChunks(x) \in Nat
  BY AtCut DEF Trimming
<1> HIDE DEF x
<1>3. /\ front \in Nat /\ len \in Nat /\ UnpackedLen(x, k + 1, cut.end) \in Nat
      /\ UnpackedLen(x, cut.start, k + 1) = front + len
      /\ UnpackedLen(x, cut.start, cut.end) = front + len + UnpackedLen(x, k + 1, cut.end)
  BY <1>1, <1>2, OneChunk
<1>4. len > 0
  BY DEF x
<1>5. cumulative + front < range[2]
  <2>1. CASE cumulative + cut.unpacked <= range[2]
    <3> HIDE DEF front, len
    <3> QED
      BY <1>1, <1>2, <1>3, <1>4, <2>1
  <2>2. CASE cumulative + UnpackedLen(x, cut.start, cut.end - 1) < range[2]
    <3>1. cut.end - 1 \in Nat /\ k <= cut.end - 1 /\ cut.end - 1 <= cut.end - 1
          /\ cut.end - 1 <= NumChunks(x) /\ k <= NumChunks(x)
      BY <1>1, <1>2
    <3>2. UnpackedLen(x, k, cut.end - 1) \in Nat
      BY <1>2, <3>1, Pieces
    <3>3. UnpackedLen(x, cut.start, cut.end - 1) = front + UnpackedLen(x, k, cut.end - 1)
      BY <1>2, <3>1, Pieces
    <3> HIDE DEF front
    <3> QED
      BY <1>2, <1>3, <2>2, <3>2, <3>3
  <2> QED
    BY <1>1, <2>1, <2>2
<1>6. range[1] < cumulative + front + len
  <2>1. CASE range[1] <= cumulative
    <3> HIDE DEF front, len
    <3> QED
      BY <1>2, <1>3, <1>4, <2>1
  <2>2. CASE range[1] < cumulative + ChunkLen(x, cut.start)
    <3>1. /\ k + 1 \in Nat /\ cut.start <= cut.start /\ cut.start < k + 1
          /\ k + 1 <= NumChunks(x)
      BY <1>1, <1>2
    <3>2. /\ UnpackedLen(x, cut.start + 1, k + 1) \in Nat /\ ChunkLen(x, cut.start) \in Nat
          /\ UnpackedLen(x, cut.start, k + 1)
               = ChunkLen(x, cut.start) + UnpackedLen(x, cut.start + 1, k + 1)
      <4> DEFINE j == k + 1
      <4>1. /\ j \in Nat /\ cut.start <= cut.start /\ cut.start < j /\ j <= NumChunks(x)
        BY <3>1
      <4> HIDE DEF j, front, len
      <4>2. /\ UnpackedLen(x, cut.start + 1, j) \in Nat /\ ChunkLen(x, cut.start) \in Nat
            /\ UnpackedLen(x, cut.start, j)
                 = ChunkLen(x, cut.start) + UnpackedLen(x, cut.start + 1, j)
        BY <1>2, <4>1, OneChunk
      <4> QED
        BY <4>2 DEF j
    <3> HIDE DEF front, len
    <3> QED
      BY <1>2, <1>3, <2>2, <3>2
  <2> QED
    BY <1>1, <2>1, <2>2
<1> QED
  BY <1>2, <1>3, <1>5, <1>6 DEF x

LEMMA EmitStep == ASSUME PlanInv, Emit PROVE PlanInv'
<1> DEFINE x == Segment.xorb
           t == [xorb |-> x, start |-> cut.start, end |-> cut.end, from |-> cumulative]
           len == Len(terms)
<1>1. /\ pc = "emit" /\ pc' = "term" /\ terms' = Append(terms, t)
      /\ unmerged' = [unmerged EXCEPT ![x] = @ \cup {<<cut.start, cut.end>>}]
      /\ cumulative' = cumulative + cut.unpacked /\ seg' = seg + 1 /\ cut' = NoCut
      /\ UNCHANGED <<request, status, range, firstChunkByteStart, fetch, walk>>
      /\ UNCHANGED Segments
  BY DEF Emit, Segments, request
<1>2. /\ seg <= Len(Segments) /\ cut.start < cut.end /\ cut.end <= Segment.end
      /\ cut.unpacked = UnpackedLen(x, cut.start, cut.end)
      /\ cumulative = StartOf[file][seg] + UnpackedLen(x, Segment.start, cut.start)
      /\ range[1] < cumulative + cut.unpacked
      /\ Segment.start <= cut.start
      /\ terms = <<>> => firstChunkByteStart = cumulative /\ cumulative <= range[1]
      /\ cut.end = Segment.end \/ range[2] <= cumulative + cut.unpacked
  BY <1>1 DEF PlanInv, CutOK, TailOK, Trimming
<1>3. /\ x \in Xorbs /\ Segment.start \in Nat /\ Segment.end \in Nat
      /\ cut.start \in Nat /\ cut.end \in Nat /\ cut.unpacked \in Nat
      /\ cut.end <= NumChunks(x) /\ cumulative \in Nat /\ range[1] \in Nat /\ range[2] \in Nat
  BY <1>1, AtCut DEF Trimming
<1>4. /\ seg + 1 \in 1 .. Len(Segments) + 1
      /\ StartOf[file][seg] \in Nat /\ LengthOf[file] \in Nat
      /\ StartOf[file][seg + 1] = StartOf[file][seg] + UnpackedLen(x, Segment.start, Segment.end)
      /\ StartOf[file][seg + 1] <= LengthOf[file] /\ Segment.end <= NumChunks(x)
  BY <1>2, InHand DEF PlanInv
<1>5. terms \in Seq(PlanTerm) /\ t \in PlanTerm /\ len = Len(terms) /\ len \in Nat
      /\ (terms # <<>> => len > 0) /\ DOMAIN terms = 1 .. len
  <2>1. terms \in Seq(PlanTerm)
    BY DEF PlanInv, TypeOK
  <2>2. t \in PlanTerm
    BY <1>3 DEF PlanTerm
  <2>3. len \in Nat /\ (terms # <<>> => len > 0) /\ DOMAIN terms = 1 .. len
    BY <2>1, LenProperties, EmptySeq
  <2> QED
    BY <2>1, <2>2, <2>3
<1>6. /\ terms' \in Seq(PlanTerm) /\ Len(terms') = len + 1
      /\ terms'[len + 1] = t /\ \A i \in DOMAIN terms : i \in 1 .. len /\ terms'[i] = terms[i]
      /\ \A i \in DOMAIN terms' : i \in DOMAIN terms \/ i = len + 1
      /\ terms' # <<>>
  <2> HIDE DEF t, len
  <2>1. /\ terms' \in Seq(PlanTerm) /\ Len(terms') = len + 1 /\ terms'[len + 1] = t
        /\ terms' # <<>> /\ \A i \in 1 .. len : terms'[i] = terms[i]
    BY <1>1, <1>5, AppendProperties
  <2>2. DOMAIN terms' = 1 .. len + 1
    BY <2>1, LenProperties
  <2> QED
    BY <1>5, <2>1, <2>2
<1>7. /\ UnpackedLen(x, Segment.start, cut.start) \in Nat
      /\ UnpackedLen(x, Segment.start, Segment.end)
           = UnpackedLen(x, Segment.start, cut.start) + cut.unpacked
               + UnpackedLen(x, cut.end, Segment.end)
      /\ UnpackedLen(x, cut.end, Segment.end) \in Nat
      /\ UnpackedLen(x, Segment.end, Segment.end) = 0
  <2>1. /\ Segment.start <= cut.start /\ cut.start <= cut.end /\ cut.end <= Segment.end
        /\ Segment.start <= cut.end /\ Segment.end <= Segment.end /\ Segment.end <= NumChunks(x)
        /\ cut.end <= NumChunks(x)
    BY <1>2, <1>3, <1>4
  <2> HIDE DEF x
  <2>2. UnpackedLen(x, Segment.start, cut.end)
          = UnpackedLen(x, Segment.start, cut.start) + UnpackedLen(x, cut.start, cut.end)
    BY <1>3, <2>1, Pieces
  <2>3. UnpackedLen(x, Segment.start, cut.start) \in Nat
    BY <1>3, <2>1, Pieces
  <2>4. UnpackedLen(x, Segment.start, Segment.end)
          = UnpackedLen(x, Segment.start, cut.end) + UnpackedLen(x, cut.end, Segment.end)
    BY <1>3, <2>1, Pieces
  <2>5. UnpackedLen(x, cut.end, Segment.end) \in Nat
    BY <1>3, <2>1, Pieces
  <2>6. UnpackedLen(x, Segment.end, Segment.end) = 0
    BY <1>3, <2>1, Pieces
  <2> QED
    BY <1>2, <2>2, <2>3, <2>4, <2>5, <2>6
<1>15. /\ cumulative' = cumulative + cut.unpacked /\ cumulative \in Nat /\ cut.unpacked \in Nat
       /\ StartOf[file][seg + 1] = cumulative + cut.unpacked + UnpackedLen(x, cut.end, Segment.end)
  <2>1. StartOf[file][seg + 1]
          = StartOf[file][seg] + (UnpackedLen(x, Segment.start, cut.start) + cut.unpacked
                                    + UnpackedLen(x, cut.end, Segment.end))
    BY <1>4, <1>7
  <2>2. cumulative = StartOf[file][seg] + UnpackedLen(x, Segment.start, cut.start)
    BY <1>2
  <2> DEFINE lead == UnpackedLen(x, Segment.start, cut.start)
             tail == UnpackedLen(x, cut.end, Segment.end)
  <2>3. lead \in Nat /\ tail \in Nat /\ StartOf[file][seg] \in Nat /\ cut.unpacked \in Nat
    BY <1>3, <1>4, <1>7
  <2> HIDE DEF lead, tail
  <2>4. StartOf[file][seg + 1] = StartOf[file][seg] + (lead + cut.unpacked + tail)
        /\ cumulative = StartOf[file][seg] + lead
    BY <2>1, <2>2 DEF lead, tail
  <2>5. StartOf[file][seg + 1] = cumulative + cut.unpacked + tail
    BY <2>3, <2>4
  <2> QED
    BY <1>1, <1>3, <2>5 DEF tail
<1> HIDE DEF x
<1>8. TypeOK'
  <2>1. cumulative' \in 0 .. LengthOf[file]
    BY <1>4, <1>7, <1>15
  <2>2. cut' \in [start : Nat, end : Nat, unpacked : Nat]
    BY <1>1 DEF NoCut
  <2>3. unmerged' \in [Xorbs -> SUBSET (Nat \X Nat)]
    BY <1>1, <1>3 DEF PlanInv, TypeOK
  <2> QED
    BY <1>1, <1>4, <1>6, <2>1, <2>2, <2>3 DEF PlanInv, TypeOK, request, walk
<1>9. RangeOK' /\ SkipOK'
  BY <1>1 DEF PlanInv, RangeOK, SkipOK, Planning, request
<1>10. TermOK'
  <2>1. CASE cut.end = Segment.end
    <3>1. cumulative' = StartOf[file][seg + 1]
      BY <1>7, <1>15, <2>1
    <3> QED
      BY <1>1, <1>2, <1>6, <3>1 DEF TermOK, request
  <2>2. CASE range[2] <= cumulative + cut.unpacked
    <3>1. cumulative' >= range[2]
      BY <1>1, <1>3, <2>2
    <3> QED
      BY <1>1, <1>2, <1>6, <3>1 DEF TermOK, request
  <2> QED
    BY <1>2, <2>1, <2>2
<1>11. CutOK' /\ TailOK'
  BY <1>1 DEF CutOK, TailOK, Trimming
<1>12. TermsOK'
  <2>1. firstChunkByteStart' <= range'[1]
    BY <1>1, <1>2 DEF PlanInv, TermsOK
  <2>2. LastTerm' = t /\ cumulative' = t.from + SegmentBytes(t)
    BY <1>1, <1>2, <1>6 DEF LastTerm, SegmentBytes
  <2>3. \A i \in DOMAIN terms' :
           terms'[i].start < terms'[i].end /\ terms'[i].end <= NumChunks(terms'[i].xorb)
    <3>1. ASSUME NEW i \in DOMAIN terms
          PROVE  terms[i].start < terms[i].end /\ terms[i].end <= NumChunks(terms[i].xorb)
      BY <3>1 DEF PlanInv, TermsOK
    <3>2. t.start < t.end /\ t.end <= NumChunks(t.xorb)
      BY <1>2, <1>3
    <3> HIDE DEF t
    <3> QED
      BY <1>6, <3>1, <3>2
  <2> QED
    BY <1>1, <2>1, <2>2, <2>3 DEF TermsOK, SegmentBytes
<1>13. NothingWasted'
  <2>1. \A i \in DOMAIN terms' :
           terms'[i].from = IF i = 1 THEN firstChunkByteStart'
                            ELSE terms'[i - 1].from + SegmentBytes(terms'[i - 1])
    <3>1. ASSUME NEW i \in DOMAIN terms
          PROVE  terms'[i].from = IF i = 1 THEN firstChunkByteStart'
                                  ELSE terms'[i - 1].from + SegmentBytes(terms'[i - 1])
      <4>1. i \in 1 .. len /\ (i # 1 => i - 1 \in DOMAIN terms)
        BY <1>5
      <4> QED
        BY <1>1, <1>6, <4>1 DEF PlanInv, NothingWasted
    <3>2. t.from = IF len + 1 = 1 THEN firstChunkByteStart'
                   ELSE terms'[len].from + SegmentBytes(terms'[len])
      <4>1. CASE len = 0
        BY <1>1, <1>2, <1>5, <4>1
      <4>2. CASE len > 0
        <5>1. len \in DOMAIN terms /\ terms # <<>>
          BY <1>5, <4>2
        <5>2. cumulative = terms[len].from + SegmentBytes(terms[len])
          BY <1>1, <5>1 DEF PlanInv, TermsOK, LastTerm
        <5> QED
          BY <1>5, <1>6, <4>2, <5>1, <5>2
      <4> QED
        BY <1>5, <4>1, <4>2
    <3>3. (len + 1) - 1 = len
      BY <1>5
    <3> QED
      BY <1>6, <3>1, <3>2, <3>3
  <2>2. ASSUME NEW i \in DOMAIN terms', NEW k \in terms'[i].start .. terms'[i].end - 1,
               ChunkLen(terms'[i].xorb, k) > 0
        PROVE  LET u == terms'[i]
                   lo == u.from + UnpackedLen(u.xorb, u.start, k)
               IN lo < range'[2] /\ lo + ChunkLen(u.xorb, k) > range'[1]
    <3>1. CASE i \in DOMAIN terms
      BY <1>1, <1>6, <2>2, <3>1 DEF PlanInv, NothingWasted
    <3>2. CASE i = len + 1
      <4>1. k \in Nat /\ cut.start <= k /\ k < cut.end /\ ChunkLen(x, k) > 0
        BY <1>3, <1>6, <2>2, <3>2
      <4> QED
        BY <1>1, <1>6, <3>2, <4>1, CutWastesNothing DEF x
    <3> QED
      BY <1>6, <3>1, <3>2
  <2> QED
    BY <2>1, <2>2 DEF NothingWasted
<1>14. FetchOK'
  <2>1. \A y \in Xorbs : fetch'[y] = <<>> /\ fetch[y] = <<>>
    BY <1>1 DEF PlanInv, FetchOK
  <2>2. \A y \in Xorbs : unmerged[y] \subseteq unmerged'[y]
    BY <1>1 DEF PlanInv, TypeOK
  <2>3. <<cut.start, cut.end>> \in unmerged'[x]
    BY <1>1, <1>3 DEF PlanInv, TypeOK
  <2>4. \A y \in Xorbs : \A r \in unmerged'[y] :
           r \in unmerged[y] \/ (y = x /\ r = <<cut.start, cut.end>>)
    BY <1>1 DEF PlanInv, TypeOK
  <2>5. \A y \in Xorbs : \A r \in unmerged'[y] : r[1] < r[2] /\ r[2] <= NumChunks(y)
    BY <1>2, <1>3, <2>4 DEF PlanInv, FetchOK
  <2>6. \A i \in DOMAIN terms : terms[i].xorb \in Xorbs
                                /\ <<terms[i].start, terms[i].end>> \in unmerged[terms[i].xorb]
    <3>1. \A i \in DOMAIN terms : terms[i].xorb \in Xorbs
      <4>1. \A i \in DOMAIN terms : terms[i] \in PlanTerm
        BY <1>5, LenProperties
      <4> QED
        BY <4>1 DEF PlanTerm
    <3> QED
      BY <2>1, <3>1 DEF PlanInv, FetchOK
  <2>7. \A i \in DOMAIN terms' :
           <<terms'[i].start, terms'[i].end>> \in unmerged'[terms'[i].xorb]
    <3>1. ASSUME NEW i \in DOMAIN terms
          PROVE  <<terms'[i].start, terms'[i].end>> \in unmerged'[terms'[i].xorb]
      BY <1>6, <2>2, <2>6
    <3>2. <<t.start, t.end>> \in unmerged'[t.xorb]
      BY <2>3
    <3> HIDE DEF t
    <3> QED
      BY <1>6, <3>1, <3>2
  <2>8. \A y \in Xorbs :
           /\ \A r \in unmerged'[y] : r[1] < r[2] /\ r[2] <= NumChunks(y)
           /\ \A n \in DOMAIN fetch'[y] :
                 /\ fetch'[y][n][1] < fetch'[y][n][2] /\ fetch'[y][n][2] <= NumChunks(y)
                 /\ n < Len(fetch'[y]) => fetch'[y][n][2] < fetch'[y][n + 1][1]
                 /\ \A r \in unmerged'[y] : fetch'[y][n][1] <= r[1]
    BY <2>1, <2>5
  <2>9. \A i \in DOMAIN terms' :
           LET u == terms'[i]
           IN \/ <<u.start, u.end>> \in unmerged'[u.xorb]
              \/ \E n \in DOMAIN fetch'[u.xorb] :
                    fetch'[u.xorb][n][1] <= u.start /\ u.end <= fetch'[u.xorb][n][2]
    BY <2>7
  <2> HIDE DEF t
  <2> QED
    BY <1>1, <1>6, <2>1, <2>8, <2>9 DEF FetchOK
<1> QED
  BY <1>8, <1>9, <1>10, <1>11, <1>12, <1>13, <1>14 DEF PlanInv

-------------------------------------------------------------------------------
(* The merge.                                                              *)

\* m is in order and apart, and nothing in it begins behind b.
Ordered(m, N, b) ==
    \A n \in DOMAIN m :
        /\ m[n][1] < m[n][2] /\ m[n][2] <= N
        /\ n < Len(m) => m[n][2] < m[n + 1][1]
        /\ m[n][1] <= b

Covers(m, lo, hi) == \E n \in DOMAIN m : m[n][1] <= lo /\ hi <= m[n][2]

\* A range that begins no earlier than the last one either grows it, or goes
\* behind it; what was covered stays so.
LEMMA MergedOrdered ==
    ASSUME NEW m \in Seq(Nat \X Nat), NEW r \in Nat \X Nat, NEW N \in Nat,
           r[1] < r[2], r[2] <= N, Ordered(m, N, r[1])
    PROVE  /\ Merged(m, r) \in Seq(Nat \X Nat)
           /\ Ordered(Merged(m, r), N, r[1])
           /\ Covers(Merged(m, r), r[1], r[2])
           /\ \A lo, hi \in Nat : Covers(m, lo, hi) => Covers(Merged(m, r), lo, hi)
<1> DEFINE len == Len(m)
           res == Merged(m, r)
<1>1. len \in Nat /\ DOMAIN m = 1 .. len /\ (m # <<>> => len > 0) /\ len = Len(m)
      /\ \A n \in 1 .. len : m[n] \in Nat \X Nat
  BY LenProperties, EmptySeq
<1> HIDE DEF len
<1>4. len \in Nat
  BY <1>1
<1>2. CASE m # <<>> /\ r[1] <= Last(m)[2]
  <2> DEFINE far == IF r[2] > Last(m)[2] THEN r[2] ELSE Last(m)[2]
             new == <<Last(m)[1], far>>
  <2>1. /\ Last(m) = m[len] /\ m[len] \in Nat \X Nat /\ far \in Nat /\ new \in Nat \X Nat
        /\ len - 1 \in Nat /\ len \in 1 .. len
    BY <1>1, <1>2 DEF Last
  <2>2. /\ Front(m) \in Seq(Nat \X Nat) /\ Len(Front(m)) = len - 1
        /\ \A n \in 1 .. len - 1 : Front(m)[n] = m[n]
    BY <1>1, <2>1 DEF Front
  <2>3. res = Append(Front(m), new)
    <3>1. res = Front(m) \o <<new>>
      BY <1>2 DEF Merged
    <3> HIDE DEF new, res
    <3> QED
      BY <2>1, <2>2, <3>1, AppendIsConcat
  <2>4. /\ res \in Seq(Nat \X Nat) /\ Len(res) = len /\ res[len] = new
        /\ \A n \in 1 .. len - 1 : res[n] = m[n]
    <3> DEFINE f == Front(m)
    <3>1. f \in Seq(Nat \X Nat) /\ new \in Nat \X Nat /\ res = Append(f, new)
      BY <2>1, <2>2, <2>3
    <3> HIDE DEF new, res, f
    <3>2. /\ res \in Seq(Nat \X Nat) /\ Len(res) = Len(f) + 1 /\ res[Len(f) + 1] = new
          /\ \A n \in 1 .. Len(f) : res[n] = f[n]
      BY <3>1, AppendProperties
    <3>3. Len(f) = len - 1 /\ Len(f) + 1 = len
      BY <1>4, <2>2 DEF f
    <3>4. \A n \in 1 .. len - 1 : f[n] = m[n]
      BY <2>2 DEF f
    <3> QED
      BY <3>2, <3>3, <3>4
  <2>5. DOMAIN res = 1 .. len
    BY <2>4, LenProperties
  <2>6. /\ new[1] = m[len][1] /\ m[len][2] <= new[2] /\ r[2] <= new[2]
        /\ new[1] < new[2] /\ new[2] <= N /\ new[1] <= r[1]
    <3>1. m[len][1] < m[len][2] /\ m[len][2] <= N /\ m[len][1] <= r[1]
      BY <1>1, <2>1 DEF Ordered
    <3>2. m[len][1] \in Nat /\ m[len][2] \in Nat /\ r[2] \in Nat
      BY <2>1
    <3>3. m[len][2] <= far /\ r[2] <= far /\ far <= N
      BY <2>1, <3>1, <3>2
    <3>4. new[1] = m[len][1] /\ new[2] = far
      BY <2>1
    <3> HIDE DEF new, far
    <3> QED
      BY <2>1, <3>1, <3>2, <3>3, <3>4
  <2> HIDE DEF res, new, far
  <2>7. Ordered(res, N, r[1])
    <3>1. ASSUME NEW n \in 1 .. len
          PROVE  /\ res[n][1] < res[n][2] /\ res[n][2] <= N
                 /\ n < Len(res) => res[n][2] < res[n + 1][1]
                 /\ res[n][1] <= r[1]
      <4>1. CASE n = len
        BY <1>1, <2>4, <2>6, <4>1
      <4>2. CASE n # len
        <5>1. n \in 1 .. len - 1 /\ n < len /\ n + 1 \in 1 .. len
          BY <1>4, <4>2
        <5>4. n + 1 \in 1 .. len - 1 \/ n + 1 = len
          BY <1>4, <5>1
        <5>2. res[n + 1][1] = m[n + 1][1]
          <6>1. CASE n + 1 = len
            BY <2>4, <2>6, <6>1
          <6>2. CASE n + 1 # len
            BY <2>4, <5>4, <6>2
          <6> QED
            BY <6>1, <6>2
        <5>3. res[n] = m[n]
          BY <2>4, <5>1
        <5> QED
          BY <1>1, <2>4, <5>1, <5>2, <5>3 DEF Ordered
      <4> QED
        BY <4>1, <4>2
    <3> QED
      BY <2>5, <3>1 DEF Ordered
  <2>8. Covers(res, r[1], r[2])
    BY <2>1, <2>4, <2>5, <2>6 DEF Covers
  <2>9. ASSUME NEW lo \in Nat, NEW hi \in Nat, Covers(m, lo, hi) PROVE Covers(res, lo, hi)
    <3>1. PICK n \in 1 .. len : m[n][1] <= lo /\ hi <= m[n][2]
      BY <1>1, <2>9 DEF Covers
    <3>2. CASE n = len
      <4>1. res[len][1] <= lo /\ hi <= res[len][2]
        BY <2>1, <2>4, <2>6, <3>1, <3>2
      <4> QED
        BY <2>1, <2>5, <4>1 DEF Covers
    <3>3. CASE n # len
      <4>1. n \in 1 .. len - 1
        BY <1>4, <3>3
      <4>2. res[n] = m[n]
        BY <2>4, <4>1
      <4> QED
        BY <2>5, <3>1, <4>2 DEF Covers
    <3> QED
      BY <3>2, <3>3
  <2> QED
    BY <2>4, <2>7, <2>8, <2>9 DEF res
<1>3. CASE ~ (m # <<>> /\ r[1] <= Last(m)[2])
  <2>1. res = Append(m, r)
    BY <1>3 DEF Merged
  <2> HIDE DEF res
  <2>2. /\ res \in Seq(Nat \X Nat) /\ Len(res) = len + 1 /\ res[len + 1] = r
        /\ \A n \in 1 .. len : res[n] = m[n]
    BY <1>1, <2>1, AppendProperties
  <2>3. DOMAIN res = 1 .. len + 1
    BY <2>2, LenProperties
  <2>4. ASSUME len > 0 PROVE m[len][2] < r[1]
    BY <1>1, <1>3, <2>4, EmptySeq DEF Last
  <2>5. Ordered(res, N, r[1])
    <3>1. ASSUME NEW n \in 1 .. len + 1
          PROVE  /\ res[n][1] < res[n][2] /\ res[n][2] <= N
                 /\ n < Len(res) => res[n][2] < res[n + 1][1]
                 /\ res[n][1] <= r[1]
      <4>1. CASE n = len + 1
        BY <1>1, <2>2, <4>1
      <4>2. CASE n = len
        <5>1. len \in 1 .. len /\ len \in DOMAIN m /\ res[len] = m[len] /\ len > 0
          BY <1>1, <2>2, <4>2
        <5>2. m[len][1] < m[len][2] /\ m[len][2] <= N /\ m[len][1] <= r[1]
          BY <5>1 DEF Ordered
        <5> QED
          BY <2>2, <2>4, <4>2, <5>1, <5>2
      <4>3. CASE n < len
        <5>1. n \in 1 .. len /\ n + 1 \in 1 .. len /\ n < Len(m)
          BY <1>1, <4>3
        <5>2. n \in DOMAIN m /\ res[n] = m[n] /\ res[n + 1] = m[n + 1]
          BY <1>1, <2>2, <5>1
        <5> QED
          BY <5>1, <5>2 DEF Ordered
      <4> QED
        BY <1>4, <4>1, <4>2, <4>3
    <3> QED
      BY <2>3, <3>1 DEF Ordered
  <2>6. Covers(res, r[1], r[2])
    <3>1. len + 1 \in DOMAIN res
      BY <1>1, <2>3
    <3>2. res[len + 1][1] <= r[1] /\ r[2] <= res[len + 1][2]
      BY <2>2
    <3> QED
      BY <3>1, <3>2 DEF Covers
  <2>7. ASSUME NEW lo \in Nat, NEW hi \in Nat, Covers(m, lo, hi) PROVE Covers(res, lo, hi)
    <3>1. PICK n \in 1 .. len : m[n][1] <= lo /\ hi <= m[n][2]
      BY <1>1, <2>7 DEF Covers
    <3>2. n \in DOMAIN res /\ res[n] = m[n]
      BY <1>1, <2>2, <2>3
    <3> QED
      BY <3>1, <3>2 DEF Covers
  <2> QED
    BY <2>2, <2>5, <2>6, <2>7 DEF res
<1> QED
  BY <1>2, <1>3

LEMMA MergeStep == ASSUME PlanInv, NEW x \in Xorbs, Merge(x) PROVE PlanInv'
<1>1. PICK r \in FirstOf(unmerged[x]) :
          /\ unmerged' = [unmerged EXCEPT ![x] = @ \ {r}]
          /\ fetch' = [fetch EXCEPT ![x] = Merged(@, r)]
  BY DEF Merge
<1>2. /\ pc = "merge"
      /\ UNCHANGED <<pc, request, status, range, seg, cumulative, firstChunkByteStart,
                     cut, terms, walk>>
  BY DEF Merge
<1>3. /\ unmerged \in [Xorbs -> SUBSET (Nat \X Nat)] /\ fetch \in [Xorbs -> Seq(Nat \X Nat)]
      /\ terms \in Seq(PlanTerm) /\ NumChunks(x) \in Nat
  BY Offsets DEF PlanInv, TypeOK
<1>4. /\ r \in unmerged[x] /\ r \in Nat \X Nat /\ \A q \in unmerged[x] : r[1] <= q[1]
      /\ r[1] < r[2] /\ r[2] <= NumChunks(x)
  BY <1>3 DEF PlanInv, FetchOK, FirstOf
<1>5. Ordered(fetch[x], NumChunks(x), r[1])
  BY <1>4 DEF PlanInv, FetchOK, Ordered
<1>6. fetch[x] \in Seq(Nat \X Nat)
  BY <1>3
<1>7. /\ Merged(fetch[x], r) \in Seq(Nat \X Nat)
      /\ Ordered(Merged(fetch[x], r), NumChunks(x), r[1])
      /\ Covers(Merged(fetch[x], r), r[1], r[2])
      /\ \A lo, hi \in Nat : Covers(fetch[x], lo, hi) => Covers(Merged(fetch[x], r), lo, hi)
  BY <1>3, <1>4, <1>5, <1>6, MergedOrdered
<1>8. /\ fetch'[x] = Merged(fetch[x], r) /\ unmerged'[x] = unmerged[x] \ {r}
      /\ \A y \in Xorbs : y # x => fetch'[y] = fetch[y] /\ unmerged'[y] = unmerged[y]
  BY <1>1, <1>3
<1>9. TypeOK'
  <2>1. unmerged' \in [Xorbs -> SUBSET (Nat \X Nat)]
    BY <1>1, <1>3
  <2>2. fetch' \in [Xorbs -> Seq(Nat \X Nat)]
    BY <1>1, <1>3, <1>7
  <2> QED
    BY <1>2, <2>1, <2>2 DEF PlanInv, TypeOK, request, walk, Segments
<1>10. RangeOK' /\ SkipOK' /\ TermOK' /\ CutOK' /\ TailOK'
  BY <1>2 DEF PlanInv, RangeOK, SkipOK, TermOK, CutOK, TailOK, Planning, Trimming, request
<1>11. TermsOK' /\ NothingWasted'
  BY <1>2 DEF PlanInv, TermsOK, NothingWasted, LastTerm
<1>12. FetchOK'
  <2>1. ASSUME NEW y \in Xorbs
        PROVE  /\ \A q \in unmerged'[y] : q[1] < q[2] /\ q[2] <= NumChunks(y)
               /\ \A n \in DOMAIN fetch'[y] :
                     /\ fetch'[y][n][1] < fetch'[y][n][2] /\ fetch'[y][n][2] <= NumChunks(y)
                     /\ n < Len(fetch'[y]) => fetch'[y][n][2] < fetch'[y][n + 1][1]
                     /\ \A q \in unmerged'[y] : fetch'[y][n][1] <= q[1]
    <3>1. CASE y # x
      BY <1>8, <3>1 DEF PlanInv, FetchOK
    <3>2. CASE y = x
      <4>1. \A q \in unmerged'[x] : q[1] < q[2] /\ q[2] <= NumChunks(x)
        BY <1>8 DEF PlanInv, FetchOK
      <4>2. ASSUME NEW n \in DOMAIN fetch'[x], NEW q \in unmerged'[x]
            PROVE  fetch'[x][n][1] <= q[1]
        <5>1. fetch'[x][n] \in Nat \X Nat /\ q \in Nat \X Nat
          BY <1>3, <1>7, <1>8, <4>2, LenProperties
        <5>2. fetch'[x][n][1] <= r[1] /\ r[1] <= q[1]
          BY <1>4, <1>7, <1>8 DEF Ordered
        <5> QED
          BY <1>4, <5>1, <5>2
      <4>3. \A n \in DOMAIN fetch'[x] :
               /\ fetch'[x][n][1] < fetch'[x][n][2] /\ fetch'[x][n][2] <= NumChunks(x)
               /\ n < Len(fetch'[x]) => fetch'[x][n][2] < fetch'[x][n + 1][1]
        BY <1>7, <1>8 DEF Ordered
      <4> QED
        BY <3>2, <4>1, <4>2, <4>3
    <3> QED
      BY <3>1, <3>2
  <2>2. ASSUME NEW i \in DOMAIN terms
        PROVE  LET t == terms[i]
               IN <<t.start, t.end>> \in unmerged'[t.xorb] \/ Covers(fetch'[t.xorb], t.start, t.end)
    <3> DEFINE t == terms[i]
    <3>1. t \in PlanTerm
      BY <1>3, LenProperties
    <3>2. t.xorb \in Xorbs /\ t.start \in Nat /\ t.end \in Nat
      BY <3>1 DEF PlanTerm
    <3>3. <<t.start, t.end>> \in unmerged[t.xorb] \/ Covers(fetch[t.xorb], t.start, t.end)
      BY DEF PlanInv, FetchOK, Covers
    <3> HIDE DEF t
    <3>4. CASE t.xorb # x
      BY <1>8, <3>2, <3>3, <3>4 DEF t
    <3>5. CASE t.xorb = x /\ <<t.start, t.end>> = r
      <4>1. r[1] = t.start /\ r[2] = t.end
        BY <3>5
      <4> QED
        BY <1>7, <1>8, <3>5, <4>1 DEF t
    <3>6. CASE t.xorb = x /\ <<t.start, t.end>> # r
      BY <1>7, <1>8, <3>2, <3>3, <3>6 DEF t
    <3> QED
      BY <3>4, <3>5, <3>6
  <2>3. \A i \in DOMAIN terms :
           LET t == terms[i]
           IN \/ <<t.start, t.end>> \in unmerged'[t.xorb]
              \/ \E n \in DOMAIN fetch'[t.xorb] :
                    fetch'[t.xorb][n][1] <= t.start /\ t.end <= fetch'[t.xorb][n][2]
    BY <2>2 DEF Covers
  <2>4. cumulative >= range[2] /\ terms # <<>>
    BY <1>2 DEF PlanInv, FetchOK
  <2> QED
    BY <1>2, <2>1, <2>3, <2>4 DEF FetchOK
<1> QED
  BY <1>9, <1>10, <1>11, <1>12 DEF PlanInv

\* The plan passes the server's own validation.
LEMMA ResponseValid ==
    ASSUME PlanInv PROVE ValidQueryReconstructionResponse(Response)
<1>1. ASSUME NEW i \in DOMAIN terms PROVE ValidTerm(Response.terms[i])
  <2>1. terms[i] \in PlanTerm /\ terms[i].start < terms[i].end
    BY LenProperties DEF PlanInv, TypeOK, TermsOK
  <2>2. /\ terms[i].xorb \in Xorbs /\ terms[i].start \in Nat /\ terms[i].end \in Nat
        /\ terms[i].start <= terms[i].end
    BY <2>1 DEF PlanTerm
  <2>3. Response.terms[i] = [hash |-> terms[i].xorb,
                            range |-> [start |-> terms[i].start, end |-> terms[i].end]]
    BY DEF Response
  <2>4. [start |-> terms[i].start, end |-> terms[i].end] # None
    BY <2>2, NoneAssumption
  <2> QED
    BY <2>2, <2>3, <2>4 DEF ValidTerm, IsHashHex, Present, ValidIndexRange
<1>2. ASSUME NEW x \in Xorbs, fetch[x] # <<>>, NEW n \in DOMAIN fetch[x]
      PROVE  ValidFetchInfo(Response.fetch_info[x][n])
  <2> DEFINE r == fetch[x][n]
             e == [url |-> <<x, "data">>, range |-> [start |-> r[1], end |-> r[2]],
                   url_range |-> UrlRange(x, r)]
  <2>1. fetch[x] \in Seq(Nat \X Nat) /\ r[1] < r[2] /\ r[2] <= NumChunks(x)
    BY DEF PlanInv, TypeOK, FetchOK
  <2>2. r \in Nat \X Nat
    BY <1>2, <2>1, LenProperties
  <2>3. Response.fetch_info[x][n] = e
    BY <1>2 DEF Response
  <2>4. UrlRange(x, r) \in [start : Nat, end : Nat] /\ UrlRange(x, r).start <= UrlRange(x, r).end
    <3>1. /\ EndOf(Boundary[x], r[1]) \in Nat /\ EndOf(Boundary[x], r[2]) \in Nat
          /\ EndOf(Boundary[x], r[1]) < EndOf(Boundary[x], r[2])
      <4>1. NumChunks(x) \in Nat /\ r[1] \in 0 .. NumChunks(x) /\ r[2] \in 0 .. NumChunks(x)
        BY <2>1, <2>2, Offsets
      <4> HIDE DEF r
      <4> QED
        BY <2>1, <4>1, Offsets
    <3> QED
      BY <3>1 DEF UrlRange, ByteOffset, SaturatingSub
  <2>5. [start |-> r[1], end |-> r[2]] # None /\ UrlRange(x, r) # None
    BY <2>2, <2>4, NoneAssumption
  <2>6. <<x, "data">> # Empty /\ r[1] <= r[2]
    BY <2>1, <2>2, NoneAssumption
  <2> HIDE DEF r
  <2> QED
    BY <2>3, <2>4, <2>5, <2>6 DEF ValidFetchInfo, NonEmpty, Present, ValidIndexRange, ValidByteRange
<1>3. /\ DOMAIN Response.terms = DOMAIN terms
      /\ DOMAIN Response.fetch_info = {y \in Xorbs : fetch[y] # <<>>}
      /\ \A x \in {y \in Xorbs : fetch[y] # <<>>} :
            DOMAIN Response.fetch_info[x] = DOMAIN fetch[x] /\ IsHashHex(x)
  BY DEF Response, IsHashHex
<1> QED
  BY <1>1, <1>2, <1>3 DEF ValidQueryReconstructionResponse, ValidFetchInfoList

LEMMA RespondStep == ASSUME PlanInv, Respond PROVE PlanInv'
<1>1. /\ pc = "merge" /\ pc' = "answered" /\ status' = 200
      /\ \A x \in Xorbs : unmerged[x] = {}
      /\ UNCHANGED <<request, range, plan, walk>>
  BY ResponseValid DEF Respond, Answer
<1>2. TypeOK'
  BY <1>1 DEF PlanInv, TypeOK, request, plan, walk, Segments
<1>3. RangeOK' /\ SkipOK' /\ TermOK' /\ CutOK' /\ TailOK'
  BY <1>1 DEF RangeOK, SkipOK, TermOK, CutOK, TailOK, Planning, Trimming
<1>4. TermsOK' /\ NothingWasted'
  BY <1>1 DEF PlanInv, TermsOK, NothingWasted, plan
<1>5. FetchOK'
  BY <1>1 DEF PlanInv, FetchOK, plan
<1> QED
  BY <1>2, <1>3, <1>4, <1>5 DEF PlanInv

-------------------------------------------------------------------------------
\* Every step keeps the invariant.
LEMMA StepKeepsInvariant == ASSUME PlanInv, [Next]_vars PROVE PlanInv'
<1>1. CASE UNCHANGED vars
  <2>1. UNCHANGED <<pc, request, status, range, plan, walk>>
    BY <1>1 DEF vars
  <2>2. TypeOK' /\ RangeOK' /\ SkipOK'
    BY <2>1 DEF PlanInv, TypeOK, RangeOK, SkipOK, request, plan, walk, Segments
  <2>3. TermOK' /\ TailOK'
    BY <2>1 DEF PlanInv, TermOK, TailOK, request, plan, Segments, Segment
  <2>4. CutOK'
    BY <2>1 DEF PlanInv, CutOK, request, plan, Segments, Segment
  <2>5. TermsOK' /\ NothingWasted'
    BY <2>1 DEF PlanInv, TermsOK, NothingWasted, LastTerm, plan
  <2>6. FetchOK'
    BY <2>1 DEF PlanInv, FetchOK, plan
  <2> QED
    BY <2>2, <2>3, <2>4, <2>5, <2>6 DEF PlanInv
<1>2. CASE Next
  BY <1>2, ClientSteps, AnswersWithoutPlan, BeginStep, SkipTermStep, TakeTermStep,
     NoMoreTermsStep, TrimLeadStep, CheckTailStep, TrimTailStep, EmitStep, MergeStep,
     RespondStep DEF Next, Server
<1> QED
  BY <1>1, <1>2

\* plan_reconstruction's loops: a cut is never trimmed to nothing, the skip never
\* runs past the terms, and the merge keeps its ranges in order and apart.
THEOREM PlanInvariance == Spec => []PlanInv
<1>1. Init => PlanInv
  BY InitialInvariant
<1>2. PlanInv /\ [Next]_vars => PlanInv'
  BY StepKeepsInvariant
<1> QED
  BY <1>1, <1>2, PTL DEF Spec

\* The data route answers a fetch entry's url_range with just these frames.
LEMMA Served == PlanInv => FramesServed
<1> SUFFICES ASSUME PlanInv, NEW x \in Xorbs, NEW n \in DOMAIN fetch[x]
             PROVE  LET r == fetch[x][n]
                        bytes == ByteOffset(x, r[1], r[2])
                        url == UrlRange(x, r)
                    IN DataAnswer(x, FromTo(url.start, url.end)) =
                          [status |-> 206, start |-> bytes[1], length |-> bytes[2] - bytes[1],
                           content_range |-> url]
  BY DEF FramesServed
<1> DEFINE r == fetch[x][n]
           lo == EndOf(Boundary[x], r[1])
           hi == EndOf(Boundary[x], r[2])
           h == FromTo(lo, hi - 1)
<1>1. fetch[x] \in Seq(Nat \X Nat) /\ r[1] < r[2] /\ r[2] <= NumChunks(x)
  BY DEF PlanInv, TypeOK, FetchOK
<1>2. r \in Nat \X Nat
  BY <1>1, LenProperties
<1>3. /\ lo \in Nat /\ hi \in Nat /\ lo < hi
  <2>1. NumChunks(x) \in Nat /\ r[1] \in 0 .. NumChunks(x) /\ r[2] \in 0 .. NumChunks(x)
    BY <1>1, <1>2, Offsets
  <2> HIDE DEF r
  <2> QED
    BY <1>1, <2>1, Offsets
<1>4. hi <= FramesLength(x) /\ FramesLength(x) \in Nat /\ FramesLength(x) <= U64Max
  <2>1. CASE r[2] = NumChunks(x)
    BY <1>2, <2>1, Offsets
  <2>2. CASE r[2] < NumChunks(x)
    <3>1. hi < EndOf(Boundary[x], NumChunks(x))
      BY <1>2, <2>2, Offsets
    <3> QED
      BY <1>3, <3>1, Offsets
  <2> QED
    BY <1>1, <1>2, <2>1, <2>2, Offsets
<1>5. ByteOffset(x, r[1], r[2]) = <<lo, hi>> /\ UrlRange(x, r) = [start |-> lo, end |-> hi - 1]
  BY <1>3 DEF ByteOffset, UrlRange, SaturatingSub
<1> HIDE DEF lo, hi
<1>6. Resolve(h, FramesLength(x)) = <<lo, hi>>
  BY <1>3, <1>4 DEF Resolve, FromTo, EndExclusive, SaturatingAdd, Least
<1>7. h # Malformed /\ h # NoHeader /\ <<lo, hi>> # Unsatisfiable
  BY DEF FromTo, Malformed, NoHeader, Unsatisfiable
<1>8. DataAnswer(x, h) = [status |-> 206, start |-> lo, length |-> hi - lo,
                          content_range |-> [start |-> lo, end |-> hi - 1]]
  BY <1>3, <1>6, <1>7 DEF DataAnswer, SaturatingSub
<1> QED
  BY <1>5, <1>8

\* AnswerExact: a plan that is sent passes the server's own validation, has no
\* chunk without a byte of the range, advertises every term's chunks in ranges in
\* order and apart, and the other route serves just their frames.
THEOREM Answers == Spec => []AnswerExact
<1>1. PlanInv => AnswerExact
  <2> SUFFICES ASSUME PlanInv, pc = "answered", terms # <<>> PROVE AnswerExact
    BY DEF AnswerExact
  <2>1. status = 200 /\ NothingWasted
    BY DEF PlanInv, TermsOK
  <2>2. ASSUME NEW i \in DOMAIN terms
        PROVE  \E n \in DOMAIN fetch[terms[i].xorb] :
                  /\ fetch[terms[i].xorb][n][1] <= terms[i].start
                  /\ terms[i].end <= fetch[terms[i].xorb][n][2]
    <3>1. terms[i] \in PlanTerm
      BY LenProperties DEF PlanInv, TypeOK
    <3>2. terms[i].xorb \in Xorbs
      BY <3>1 DEF PlanTerm
    <3> QED
      BY <3>2 DEF PlanInv, FetchOK
  <2>3. ASSUME NEW x \in Xorbs, NEW n \in 1 .. Len(fetch[x]) - 1
        PROVE  fetch[x][n][2] < fetch[x][n + 1][1]
    <3>1. fetch[x] \in Seq(Nat \X Nat)
      BY DEF PlanInv, TypeOK
    <3>2. n \in DOMAIN fetch[x] /\ n < Len(fetch[x])
      BY <3>1
    <3> QED
      BY <3>2 DEF PlanInv, FetchOK
  <2>4. TermsFetched
    BY <2>2, <2>3 DEF TermsFetched
  <2> QED
    BY <2>1, <2>4, Served DEF AnswerExact
<1> QED
  BY <1>1, PlanInvariance, PTL

-------------------------------------------------------------------------------
(* The bytes of the file and of the plan.                                  *)

LEMMA TermBytes ==
    ASSUME NEW x \in Xorbs, NEW i \in Nat, NEW j \in Nat, i <= j, j <= NumChunks(x)
    PROVE  /\ UnpackedLen(x, i, j) \in Nat
           /\ Bytes(x, i, j) \in Seq(Xorbs \X Nat)
           /\ Len(Bytes(x, i, j)) = UnpackedLen(x, i, j)
           /\ \A p \in 1 .. UnpackedLen(x, i, j) :
                 Bytes(x, i, j)[p] = <<x, EndOf(Unpacked[x], i) + p>>
<1>1. NumChunks(x) \in Nat /\ i \in 0 .. NumChunks(x)
  BY Offsets
<1>2. UnpackedLen(x, i, j) \in Nat /\ EndOf(Unpacked[x], i) \in Nat
  BY <1>1, Pieces, Offsets
<1> DEFINE n == UnpackedLen(x, i, j)
           e == EndOf(Unpacked[x], i)
<1>3. Bytes(x, i, j) = [p \in 1 .. n |-> <<x, e + p>>]
  BY DEF Bytes
<1> HIDE DEF n, e
<1>4. [p \in 1 .. n |-> <<x, e + p>>] \in Seq(Xorbs \X Nat)
      /\ Len([p \in 1 .. n |-> <<x, e + p>>]) = n
  <2>1. \A p \in 1 .. n : <<x, e + p>> \in Xorbs \X Nat
    BY <1>2 DEF e
  <2>2. n \in Nat
    BY <1>2 DEF n
  <2> QED
    BY <2>1, <2>2, IsASeq
<1> QED
  BY <1>2, <1>3, <1>4 DEF n, e

\* A plan, or the terms of a file, unpacks to what its terms do, one behind the other.
LEMMA ContentAt ==
    ASSUME NEW ts, Len(ts) \in Nat, DOMAIN ts = 1 .. Len(ts),
           \A i \in 1 .. Len(ts) :
              /\ ts[i].xorb \in Xorbs /\ ts[i].start \in Nat /\ ts[i].end \in Nat
              /\ ts[i].start <= ts[i].end /\ ts[i].end <= NumChunks(ts[i].xorb),
           NEW start \in [1 .. Len(ts) + 1 -> Nat], start[1] = 0,
           \A i \in 1 .. Len(ts) : start[i + 1] = start[i] + SegmentBytes(ts[i])
    PROVE  /\ Content(ts) \in Seq(Xorbs \X Nat)
           /\ Len(Content(ts)) = start[Len(ts) + 1]
           /\ \A i \in 1 .. Len(ts) : \A p \in 1 .. SegmentBytes(ts[i]) :
                 Content(ts)[start[i] + p] =
                    <<ts[i].xorb, EndOf(Unpacked[ts[i].xorb], ts[i].start) + p>>
           /\ \A q \in 1 .. Len(Content(ts)) : \E i \in 1 .. Len(ts) :
                 \E p \in 1 .. SegmentBytes(ts[i]) : q = start[i] + p
<1> DEFINE S == Xorbs \X Nat
           ss == [i \in DOMAIN ts |-> Bytes(ts[i].xorb, ts[i].start, ts[i].end)]
<1>1. ASSUME NEW i \in 1 .. Len(ts)
      PROVE  /\ ss[i] \in Seq(S) /\ Len(ss[i]) = SegmentBytes(ts[i])
             /\ \A p \in 1 .. SegmentBytes(ts[i]) :
                   ss[i][p] = <<ts[i].xorb, EndOf(Unpacked[ts[i].xorb], ts[i].start) + p>>
  <2>1. ss[i] = Bytes(ts[i].xorb, ts[i].start, ts[i].end)
    OBVIOUS
  <2> HIDE DEF ss
  <2> DEFINE x == ts[i].xorb
             lo == ts[i].start
             hi == ts[i].end
  <2>2. x \in Xorbs /\ lo \in Nat /\ hi \in Nat /\ lo <= hi /\ hi <= NumChunks(x)
    OBVIOUS
  <2>3. SegmentBytes(ts[i]) = UnpackedLen(x, lo, hi)
    BY DEF SegmentBytes
  <2> HIDE DEF x, lo, hi
  <2>4. /\ Bytes(x, lo, hi) \in Seq(S) /\ Len(Bytes(x, lo, hi)) = UnpackedLen(x, lo, hi)
        /\ \A p \in 1 .. UnpackedLen(x, lo, hi) :
              Bytes(x, lo, hi)[p] = <<x, EndOf(Unpacked[x], lo) + p>>
    BY <2>2, TermBytes
  <2> QED
    BY <2>1, <2>3, <2>4 DEF x, lo, hi
<1>2. ss \in Seq(Seq(S)) /\ Len(ss) = Len(ts)
  <2>1. ss = [i \in 1 .. Len(ts) |-> ss[i]]
    OBVIOUS
  <2> HIDE DEF ss
  <2>2. [i \in 1 .. Len(ts) |-> ss[i]] \in Seq(Seq(S)) /\
        Len([i \in 1 .. Len(ts) |-> ss[i]]) = Len(ts)
    BY <1>1, IsASeq
  <2> QED
    BY <2>1, <2>2
<1>3. Content(ts) = FlattenSeq(ss)
  BY DEF Content
<1> HIDE DEF ss, S
<1>4. FlattenSeq(ss) \in Seq(S) /\ Assembled(FlattenSeq(ss), ss, start, Len(ss))
  <2>1. start \in [1 .. Len(ss) + 1 -> Nat]
        /\ \A i \in 1 .. Len(ss) : start[i + 1] = start[i] + Len(ss[i])
    BY <1>1, <1>2
  <2> QED
    BY <1>2, <2>1, Flattened
<1> DEFINE r == FlattenSeq(ss)
<1> HIDE DEF r
<1>5. /\ Len(r) = start[Len(ts) + 1]
      /\ \A i \in 1 .. Len(ts) : \A p \in 1 .. Len(ss[i]) : r[start[i] + p] = ss[i][p]
      /\ \A q \in 1 .. Len(r) : \E i \in 1 .. Len(ts) :
            \E p \in 1 .. Len(ss[i]) : q = start[i] + p
  <2>1. Assembled(r, ss, start, Len(ts))
    BY <1>2, <1>4 DEF r
  <2> QED
    BY <2>1, Zenon DEF Assembled
<1>6. /\ \A i \in 1 .. Len(ts) : \A p \in 1 .. SegmentBytes(ts[i]) :
            r[start[i] + p] = <<ts[i].xorb, EndOf(Unpacked[ts[i].xorb], ts[i].start) + p>>
      /\ \A q \in 1 .. Len(r) : \E i \in 1 .. Len(ts) :
            \E p \in 1 .. SegmentBytes(ts[i]) : q = start[i] + p
  <2>1. ASSUME NEW q \in 1 .. Len(r)
        PROVE  \E i \in 1 .. Len(ts) : \E p \in 1 .. SegmentBytes(ts[i]) : q = start[i] + p
    <3>1. PICK i \in 1 .. Len(ts) : \E p \in 1 .. Len(ss[i]) : q = start[i] + p
      BY <1>5
    <3>2. Len(ss[i]) = SegmentBytes(ts[i])
      BY <1>1
    <3> QED
      BY <3>1, <3>2
  <2>2. ASSUME NEW i \in 1 .. Len(ts), NEW p \in 1 .. SegmentBytes(ts[i])
        PROVE  r[start[i] + p] = <<ts[i].xorb, EndOf(Unpacked[ts[i].xorb], ts[i].start) + p>>
    BY <1>1, <1>5
  <2> QED
    BY <2>1, <2>2
<1> QED
  BY <1>3, <1>4, <1>5, <1>6 DEF r, S

\* The bytes of the file asked for.
LEMMA FileBytesAt ==
    ASSUME TypeOK
    PROVE  /\ LengthOf[file] \in Nat
           /\ FileBytes \in Seq(Xorbs \X Nat) /\ Len(FileBytes) = LengthOf[file]
           /\ \A i \in 1 .. Len(Segments) : \A p \in 1 .. SegmentBytes(Segments[i]) :
                 FileBytes[StartOf[file][i] + p] =
                    <<Segments[i].xorb,
                      EndOf(Unpacked[Segments[i].xorb], Segments[i].start) + p>>
<1>1. file \in Files \cup {Unknown, Empty}
  BY DEF TypeOK
<1> DEFINE ts == TermsOf[file]
           start == StartOf[file]
<1>2. /\ ts \in Seq([xorb : Xorbs, start : Nat, end : Nat]) /\ LengthOf[file] \in Nat
      /\ start \in [1 .. Len(ts) + 1 -> 0 .. LengthOf[file]]
      /\ start[1] = 0 /\ start[Len(ts) + 1] = LengthOf[file]
      /\ \A i \in DOMAIN ts : start[i + 1] = start[i] + SegmentBytes(ts[i])
  BY <1>1, TermsAssumption
<1>3. Len(ts) \in Nat /\ DOMAIN ts = 1 .. Len(ts)
  BY <1>2, LenProperties
<1>4. ASSUME NEW i \in 1 .. Len(ts)
      PROVE  /\ ts[i].xorb \in Xorbs /\ ts[i].start \in Nat /\ ts[i].end \in Nat
             /\ ts[i].start <= ts[i].end /\ ts[i].end <= NumChunks(ts[i].xorb)
  <2>1. ts[i] \in [xorb : Xorbs, start : Nat, end : Nat]
    <3> HIDE DEF ts
    <3> QED
      BY <1>2, <1>3, LenProperties
  <2>2. file \in Files
    <3>1. ts # <<>>
      BY <1>3, <1>4
    <3> QED
      BY <1>1, <3>1, StrangersAssumption
  <2>3. ts[i].start < ts[i].end /\ ts[i].end <= NumChunks(ts[i].xorb)
    BY <1>3, <2>2, FilesAssumption
  <2> HIDE DEF ts
  <2> QED
    BY <2>1, <2>3
<1>5. start \in [1 .. Len(ts) + 1 -> Nat]
  <2> HIDE DEF start, ts
  <2> QED
    BY <1>2
<1>6. FileBytes = Content(ts) /\ Segments = ts
  BY DEF FileBytes, Segments
<1> HIDE DEF start, ts
<1>7. /\ Content(ts) \in Seq(Xorbs \X Nat)
      /\ Len(Content(ts)) = start[Len(ts) + 1]
      /\ \A i \in 1 .. Len(ts) : \A p \in 1 .. SegmentBytes(ts[i]) :
            Content(ts)[start[i] + p] =
               <<ts[i].xorb, EndOf(Unpacked[ts[i].xorb], ts[i].start) + p>>
  BY <1>2, <1>3, <1>4, <1>5, ContentAt
<1> QED
  BY <1>2, <1>6, <1>7 DEF start

\* The plan unpacks to the bytes of the file from firstChunkByteStart on.
LEMMA PlanContent ==
    ASSUME PlanInv, PlanBytes, terms # <<>>
    PROVE  LET hi == LastTerm.from + SegmentBytes(LastTerm)
           IN /\ hi \in Nat /\ firstChunkByteStart <= hi /\ hi <= LengthOf[file]
              /\ Content(terms) \in Seq(Xorbs \X Nat)
              /\ Len(Content(terms)) = hi - firstChunkByteStart
              /\ \A q \in 1 .. Len(Content(terms)) :
                    Content(terms)[q] = FileBytes[firstChunkByteStart + q]
<1> DEFINE n == Len(terms)
           lo == firstChunkByteStart
           hi == LastTerm.from + SegmentBytes(LastTerm)
<1>1. n \in Nat /\ n # 0 /\ DOMAIN terms = 1 .. n /\ n \in 1 .. n /\ lo \in Nat
      /\ LengthOf[file] \in Nat
  BY LenProperties, EmptySeq, FileBytesAt DEF PlanInv, TypeOK
<1>2. ASSUME NEW i \in 1 .. n
      PROVE  /\ terms[i].xorb \in Xorbs /\ terms[i].start \in Nat /\ terms[i].end \in Nat
             /\ terms[i].start <= terms[i].end /\ terms[i].end <= NumChunks(terms[i].xorb)
             /\ SegmentBytes(terms[i]) \in Nat /\ terms[i].from \in Nat
             /\ terms[i].from + SegmentBytes(terms[i]) <= LengthOf[file]
             /\ terms[i].from = IF i = 1 THEN lo
                                ELSE terms[i - 1].from + SegmentBytes(terms[i - 1])
  <2>1. terms[i] \in PlanTerm
    BY LenProperties DEF PlanInv, TypeOK
  <2>2. /\ terms[i].xorb \in Xorbs /\ terms[i].start \in Nat /\ terms[i].end \in Nat
        /\ terms[i].from \in Nat
    BY <2>1 DEF PlanTerm
  <2>3. terms[i].start < terms[i].end /\ terms[i].end <= NumChunks(terms[i].xorb)
    BY <1>1 DEF PlanInv, TermsOK
  <2>4. SegmentBytes(terms[i]) \in Nat
    BY <2>2, <2>3, TermBytes DEF SegmentBytes
  <2>5. terms[i].from = IF i = 1 THEN lo ELSE terms[i - 1].from + SegmentBytes(terms[i - 1])
    BY <1>1 DEF PlanInv, NothingWasted
  <2>6. terms[i].from + SegmentBytes(terms[i]) <= LengthOf[file]
    BY <1>1 DEF PlanBytes
  <2> QED
    BY <2>2, <2>3, <2>4, <2>5, <2>6
<1> HIDE DEF n, lo
<1>3. \A i \in 1 .. n : lo <= terms[i].from
  <2> DEFINE T == {i \in Nat : i \in 1 .. n /\ ~ (lo <= terms[i].from)}
  <2>1. ASSUME T # {} PROVE FALSE
    <3>1. PICK i \in T : \A m \in T : i <= m
      <4>1. T \in SUBSET Nat
        OBVIOUS
      <4> HIDE DEF T
      <4> QED
        BY <2>1, <4>1, LeastNumber
    <3>2. i \in 1 .. n /\ i # 1
      BY <1>1, <1>2, <3>1
    <3>3. i - 1 \in 1 .. n /\ i - 1 \in Nat /\ ~ (i <= i - 1)
      BY <1>1, <3>2
    <3>4. lo <= terms[i - 1].from
      BY <3>1, <3>3
    <3> QED
      BY <1>1, <1>2, <3>1, <3>2, <3>3, <3>4
  <2> QED
    BY <1>1, <2>1
<1> DEFINE start == [i \in 1 .. n + 1 |-> IF i = n + 1 THEN hi - lo ELSE terms[i].from - lo]
<1>4. /\ LastTerm = terms[n] /\ hi \in Nat /\ lo <= hi /\ hi <= LengthOf[file]
      /\ hi = terms[n].from + SegmentBytes(terms[n])
  <2>1. LastTerm = terms[n]
    BY DEF LastTerm, n
  <2> QED
    BY <1>1, <1>2, <1>3, <2>1
<1> HIDE DEF hi
<1>5. ASSUME NEW i \in 1 .. n
      PROVE  start[i] = terms[i].from - lo /\ start[i + 1] = start[i] + SegmentBytes(terms[i])
  <2>1. i \in 1 .. n + 1 /\ i + 1 \in 1 .. n + 1 /\ i # n + 1
    BY <1>1
  <2>2. start[i] = terms[i].from - lo
    BY <2>1
  <2>3. CASE i = n
    BY <1>1, <1>2, <1>4, <2>1, <2>2, <2>3
  <2>4. CASE i # n
    <3>1. i + 1 \in 1 .. n /\ i + 1 # n + 1 /\ i + 1 # 1 /\ (i + 1) - 1 = i
      BY <1>1, <2>4
    <3>2. terms[i + 1].from = terms[i].from + SegmentBytes(terms[i])
      BY <1>2, <3>1
    <3>3. start[i + 1] = terms[i + 1].from - lo
      BY <2>1, <3>1
    <3> QED
      BY <1>1, <1>2, <2>2, <3>2, <3>3
  <2> QED
    BY <2>3, <2>4
<1>6. start \in [1 .. n + 1 -> Nat] /\ start[1] = 0 /\ start[n + 1] = hi - lo
  <2>1. ASSUME NEW i \in 1 .. n + 1
        PROVE  (IF i = n + 1 THEN hi - lo ELSE terms[i].from - lo) \in Nat
    <3>1. CASE i = n + 1
      BY <1>1, <1>4, <3>1
    <3>2. CASE i # n + 1
      <4>1. i \in 1 .. n
        BY <1>1, <3>2
      <4> QED
        BY <1>1, <1>2, <1>3, <3>2, <4>1
    <3> QED
      BY <3>1, <3>2
  <2>2. 1 \in 1 .. n /\ n + 1 \in 1 .. n + 1
    BY <1>1
  <2>3. start[1] = terms[1].from - lo /\ terms[1].from = lo
    BY <1>2, <1>5, <2>2
  <2> QED
    BY <1>1, <2>1, <2>2, <2>3
<1> HIDE DEF start
<1>7. /\ Content(terms) \in Seq(Xorbs \X Nat)
      /\ Len(Content(terms)) = start[n + 1]
      /\ \A i \in 1 .. n : \A p \in 1 .. SegmentBytes(terms[i]) :
            Content(terms)[start[i] + p] =
               <<terms[i].xorb, EndOf(Unpacked[terms[i].xorb], terms[i].start) + p>>
      /\ \A q \in 1 .. Len(Content(terms)) : \E i \in 1 .. n :
            \E p \in 1 .. SegmentBytes(terms[i]) : q = start[i] + p
  BY <1>1, <1>2, <1>5, <1>6, ContentAt DEF n
<1>8. ASSUME NEW q \in 1 .. Len(Content(terms)) PROVE Content(terms)[q] = FileBytes[lo + q]
  <2>1. PICK i \in 1 .. n : \E p \in 1 .. SegmentBytes(terms[i]) : q = start[i] + p
    BY <1>7
  <2>2. PICK p \in 1 .. SegmentBytes(terms[i]) : q = start[i] + p
    BY <2>1
  <2>3. Content(terms)[q] = <<terms[i].xorb, EndOf(Unpacked[terms[i].xorb], terms[i].start) + p>>
    BY <1>7, <2>2
  <2>4. FileBytes[terms[i].from + p] =
           <<terms[i].xorb, EndOf(Unpacked[terms[i].xorb], terms[i].start) + p>>
    BY <1>1 DEF PlanBytes
  <2>5. terms[i].from + p = lo + q
    <3>1. terms[i].from \in Nat /\ lo \in Nat /\ p \in Int
      BY <1>1, <1>2
    <3>2. start[i] = terms[i].from - lo
      BY <1>5
    <3> QED
      BY <2>2, <3>1, <3>2
  <2> QED
    BY <2>3, <2>4, <2>5
<1> QED
  BY <1>4, <1>6, <1>7, <1>8 DEF hi, lo

\* Part of a sequence that is itself part of F.
LEMMA PartOfPart ==
    ASSUME NEW S, NEW F \in Seq(S), NEW body \in Seq(S), NEW a \in Nat,
           a + Len(body) <= Len(F), \A q \in 1 .. Len(body) : body[q] = F[a + q],
           NEW o \in Nat, NEW m \in Nat, o <= m, m <= Len(body)
    PROVE  SubSeq(body, o + 1, m) = SubSeq(F, a + o + 1, a + m)
<1>1. Len(body) \in Nat /\ Len(F) \in Nat
  BY LenProperties
<1>2. /\ \A i \in o + 1 .. m : body[i] \in S
      /\ \A i \in a + o + 1 .. a + m : F[i] \in S
  <2>1. (o + 1) .. m \subseteq 1 .. Len(body) /\ (a + o + 1) .. (a + m) \subseteq 1 .. Len(F)
    BY <1>1
  <2> QED
    BY <2>1, LenProperties
<1> DEFINE s == SubSeq(body, o + 1, m)
           t == SubSeq(F, a + o + 1, a + m)
<1>3. /\ s \in Seq(S) /\ Len(s) = IF o + 1 <= m THEN m - (o + 1) + 1 ELSE 0
      /\ \A i \in 1 .. m - (o + 1) + 1 : s[i] = body[o + 1 + i - 1]
  BY <1>1, <1>2, SubSeqProperties
<1>4. /\ t \in Seq(S)
      /\ Len(t) = IF a + o + 1 <= a + m THEN a + m - (a + o + 1) + 1 ELSE 0
      /\ \A i \in 1 .. a + m - (a + o + 1) + 1 : t[i] = F[a + o + 1 + i - 1]
  BY <1>1, <1>2, SubSeqProperties
<1> HIDE DEF s, t
<1>5. Len(s) = m - o /\ Len(t) = m - o
  BY <1>3, <1>4
<1>6. ASSUME NEW i \in 1 .. Len(s) PROVE s[i] = t[i]
  <2>1. /\ i \in 1 .. m - (o + 1) + 1 /\ i \in 1 .. a + m - (a + o + 1) + 1
        /\ o + i \in 1 .. Len(body)
        /\ o + 1 + i - 1 = o + i /\ a + o + 1 + i - 1 = a + (o + i)
    BY <1>1, <1>5
  <2>2. s[i] = body[o + i] /\ t[i] = F[a + (o + i)]
    BY <1>3, <1>4, <2>1
  <2> QED
    BY <2>1, <2>2
<1> QED
  BY <1>3, <1>4, <1>5, <1>6, SeqEqual DEF s, t

\* Where a range that is not empty ends, by the kind of its header.
LEMMA RangeEnds ==
    ASSUME NEW h \in Headers, h # Malformed, NEW total \in Nat, total < U64Max,
           Resolve(h, total) # Unsatisfiable
    PROVE  LET r == Resolve(h, total)
           IN /\ r[1] \in Nat /\ r[2] \in Nat /\ r[1] <= r[2] /\ r[2] <= total
              /\ IF h.kind = "fromTo"
                   THEN /\ h.start \in Nat /\ h.end \in Nat /\ h.start <= h.end
                        /\ r[1] = h.start /\ r[2] = Least(total, h.end + 1) /\ h.start < total
                   ELSE r[2] = total
<1>1. CASE h = NoHeader
  BY <1>1 DEF Resolve, NoHeader
<1>2. CASE h \in [kind : {"fromTo"}, start : Nat, end : Nat]
  <2>1. /\ h.kind = "fromTo" /\ h.start \in Nat /\ h.end \in Nat
    BY <1>2
  <2>2. ~ (h.start >= total \/ h.end < h.start)
        /\ Resolve(h, total) = <<h.start, Least(total, EndExclusive(h.end))>>
    BY <2>1 DEF Resolve
  <2>3. Least(total, EndExclusive(h.end)) = Least(total, h.end + 1)
        /\ Least(total, h.end + 1) \in Nat /\ Least(total, h.end + 1) <= total
        /\ h.start <= Least(total, h.end + 1)
    BY <2>1, <2>2 DEF Least, EndExclusive, SaturatingAdd
  <2>4. Resolve(h, total)[1] = h.start /\ Resolve(h, total)[2] = Least(total, h.end + 1)
    BY <2>2, <2>3
  <2> HIDE DEF Resolve
  <2> QED
    BY <2>1, <2>2, <2>3, <2>4
<1>3. CASE h \in [kind : {"from"}, start : Nat]
  BY <1>3 DEF Resolve
<1>4. CASE h \in [kind : {"suffix"}, length : Nat]
  BY <1>4 DEF Resolve, SaturatingSub
<1> QED
  BY <1>1, <1>2, <1>3, <1>4 DEF Headers

\* The client of a 200 has the bytes of the range, and no others.
LEMMA ReceivedExact ==
    ASSUME IInv, pc = "answered", status = 200
    PROVE  /\ file \in Files /\ header # Malformed
           /\ LengthOf[file] \in Nat /\ LengthOf[file] < U64Max
           /\ Resolve(header, LengthOf[file]) # Unsatisfiable
           /\ range = Resolve(header, LengthOf[file])
           /\ Received = SubSeq(FileBytes, range[1] + 1, range[2])
<1>1. /\ header \in Headers /\ header # Malformed /\ file \in Files
      /\ LengthOf[file] \in Nat /\ LengthOf[file] < U64Max
      /\ Requested # Unsatisfiable /\ range = Requested
      /\ Requested = Resolve(header, LengthOf[file])
  BY FilesAssumption, TermsAssumption
     DEF IInv, PlanInv, TypeOK, AnswerOK, Satisfiable, Found, WellFormed, Requested
<1> DEFINE L == LengthOf[file]
           lo == firstChunkByteStart
           body == Content(terms)
           offset == range[1] - lo
           last == IF header.kind # "fromTo" THEN Len(body)
                   ELSE Least(Len(body), offset + header.end - header.start + 1)
<1>2. Received = SubSeq(body, offset + 1, last)
  BY DEF Received
<1>3. /\ range[1] \in Nat /\ range[2] \in Nat /\ range[1] <= range[2] /\ range[2] <= L
      /\ IF header.kind = "fromTo"
           THEN /\ header.start \in Nat /\ header.end \in Nat /\ header.start <= header.end
                /\ range[1] = header.start /\ range[2] = Least(L, header.end + 1)
                /\ header.start < L
           ELSE range[2] = L
  BY <1>1, RangeEnds
<1>4. FileBytes \in Seq(Xorbs \X Nat) /\ Len(FileBytes) = L
  BY FileBytesAt DEF IInv, PlanInv
<1>5. CASE terms # <<>>
  <2> DEFINE hi == LastTerm.from + SegmentBytes(LastTerm)
  <2>1. /\ hi \in Nat /\ lo <= hi /\ hi <= L /\ body \in Seq(Xorbs \X Nat)
        /\ Len(body) = hi - lo
        /\ \A q \in 1 .. Len(body) : body[q] = FileBytes[lo + q]
    BY <1>5, PlanContent DEF IInv
  <2>2. lo \in Nat /\ lo <= range[1] /\ range[2] <= hi
    BY <1>5 DEF IInv, PlanInv, TypeOK, TermsOK, AnswerOK
  <2> HIDE DEF hi, lo, body, L
  <2>3. offset \in Nat /\ last \in Nat /\ offset <= last /\ last <= Len(body)
        /\ lo + last = range[2] /\ lo + offset = range[1]
    <3>1. offset \in Nat /\ lo + offset = range[1] /\ lo \in Nat /\ hi \in Nat
          /\ Len(body) \in Nat
      BY <1>3, <2>1, <2>2
    <3>2. CASE header.kind # "fromTo"
      BY <1>3, <2>1, <2>2, <3>1, <3>2
    <3>3. CASE header.kind = "fromTo"
      <4> DEFINE m == offset + header.end - header.start + 1
      <4>1. last = Least(Len(body), m) /\ m \in Nat /\ lo + m = header.end + 1
            /\ L \in Nat /\ range[2] = Least(L, header.end + 1)
        <5>1. last = Least(Len(body), m)
          BY <3>3
        <5>2. L \in Nat /\ range[2] = Least(L, header.end + 1) /\ header.start = range[1]
              /\ header.start \in Nat /\ header.end \in Nat /\ header.start <= header.end
          BY <1>1, <1>3, <3>3 DEF L
        <5> HIDE DEF offset, last
        <5>3. m \in Nat /\ lo + m = header.end + 1
          BY <3>1, <5>2
        <5> QED
          BY <5>1, <5>2, <5>3
      <4> HIDE DEF last, offset, m
      <4>2. CASE header.end + 1 <= L
        BY <1>3, <2>1, <2>2, <3>1, <3>3, <4>1, <4>2 DEF Least
      <4>3. CASE L < header.end + 1
        BY <1>3, <2>1, <2>2, <3>1, <3>3, <4>1, <4>3 DEF Least
      <4> QED
        BY <1>3, <3>3, <4>1, <4>2, <4>3
    <3> QED
      BY <3>2, <3>3
  <2> HIDE DEF offset, last
  <2>4. lo + Len(body) <= Len(FileBytes)
    BY <1>4, <2>1, <2>2
  <2> DEFINE F == FileBytes
             S == Xorbs \X Nat
  <2>5. F \in Seq(S) /\ body \in Seq(S) /\ lo + Len(body) <= Len(F)
        /\ \A q \in 1 .. Len(body) : body[q] = F[lo + q]
    BY <1>4, <2>1, <2>4
  <2> HIDE DEF F, S
  <2>6. SubSeq(body, offset + 1, last) = SubSeq(F, lo + offset + 1, lo + last)
    BY <2>2, <2>3, <2>5, PartOfPart
  <2> QED
    BY <1>1, <1>2, <2>3, <2>6 DEF L, F
<1>6. CASE terms = <<>>
  <2>1. L = 0 /\ lo = 0
    BY <1>6 DEF IInv, AnswerOK
  <2>2. range[1] = 0 /\ range[2] = 0 /\ header.kind # "fromTo"
    BY <1>3, <2>1
  <2>3. Len(body) = 0
    BY <1>6 DEF Content, FlattenSeq
  <2>4. SubSeq(body, 0 + 1, 0) = <<>> /\ SubSeq(FileBytes, 0 + 1, 0) = <<>>
    BY SubSeqEmpty
  <2>5. offset = 0 /\ last = 0
    BY <2>1, <2>2, <2>3
  <2> HIDE DEF offset, last, body
  <2> QED
    BY <1>1, <1>2, <2>2, <2>4, <2>5
<1> QED
  BY <1>5, <1>6

-------------------------------------------------------------------------------
(* The answers and the client.                                             *)

LEMMA InitialAnswers == Init => PlanBytes /\ AnswerOK /\ ClientOK
BY DEF Init, PlanBytes, AnswerOK, ClientOK, Planning

\* What the planner leaves alone.
LEMMA PlannerSteps ==
    ASSUME \/ SkipTerm \/ TakeTerm \/ NoMoreTerms \/ TrimLead \/ CheckTail \/ TrimTail \/ Emit
           \/ \E x \in Xorbs : Merge(x)
    PROVE  pc \in Planning /\ pc' \in Planning /\ UNCHANGED <<request, status, range, walk>>
<1>1. CASE SkipTerm \/ TakeTerm \/ NoMoreTerms
  BY <1>1 DEF SkipTerm, TakeTerm, NoMoreTerms, Planning
<1>2. CASE TrimLead \/ CheckTail \/ TrimTail
  BY <1>2 DEF TrimLead, CheckTail, TrimTail, Planning
<1>3. CASE Emit \/ \E x \in Xorbs : Merge(x)
  BY <1>3 DEF Emit, Merge, Planning
<1> QED
  BY <1>1, <1>2, <1>3

\* What is emitted unpacks to the bytes of the file that it is emitted for.
LEMMA EmitKeepsPlanBytes == ASSUME IInv, Emit PROVE PlanBytes'
<1> DEFINE x == Segment.xorb
           t == [xorb |-> x, start |-> cut.start, end |-> cut.end, from |-> cumulative]
           front == UnpackedLen(x, Segment.start, cut.start)
<1>1. /\ pc = "emit" /\ terms' = Append(terms, t) /\ UNCHANGED <<file, header>>
  BY DEF Emit, request
<1>2. PlanInv /\ PlanBytes /\ TypeOK /\ pc \in Trimming
  BY <1>1 DEF IInv, PlanInv, Trimming
<1>3. /\ seg <= Len(Segments) /\ Segment.start <= cut.start /\ cut.start < cut.end
      /\ cut.end <= Segment.end
      /\ cumulative = StartOf[file][seg] + front
  BY <1>2 DEF PlanInv, CutOK
<1>4. /\ x \in Xorbs /\ Segment.start \in Nat /\ Segment.end \in Nat
      /\ Segment.end <= NumChunks(x) /\ NumChunks(x) \in Nat
      /\ SegmentBytes(Segment) = UnpackedLen(x, Segment.start, Segment.end)
      /\ StartOf[file][seg] \in Nat /\ SegmentBytes(Segment) \in Nat
      /\ StartOf[file][seg] + SegmentBytes(Segment) <= LengthOf[file]
      /\ LengthOf[file] \in Nat
  BY <1>2, <1>3, InHand, Offsets
<1>5. cut.start \in Nat /\ cut.end \in Nat /\ cumulative \in Nat /\ terms \in Seq(PlanTerm)
  BY <1>2, <1>4 DEF TypeOK
<1>6. /\ front \in Nat /\ UnpackedLen(x, cut.start, cut.end) \in Nat
      /\ front + UnpackedLen(x, cut.start, cut.end) <= SegmentBytes(Segment)
      /\ EndOf(Unpacked[x], Segment.start) \in Nat
      /\ EndOf(Unpacked[x], cut.start) = EndOf(Unpacked[x], Segment.start) + front
  <2>1. Segment.start \in 0 .. NumChunks(x) /\ cut.start \in 0 .. NumChunks(x)
        /\ cut.end \in 0 .. NumChunks(x) /\ Segment.end \in 0 .. NumChunks(x)
    BY <1>3, <1>4, <1>5
  <2>2. /\ EndOf(Unpacked[x], Segment.start) \in Nat /\ EndOf(Unpacked[x], cut.start) \in Nat
        /\ EndOf(Unpacked[x], cut.end) \in Nat /\ EndOf(Unpacked[x], Segment.end) \in Nat
        /\ EndOf(Unpacked[x], Segment.start) <= EndOf(Unpacked[x], cut.start)
        /\ EndOf(Unpacked[x], cut.start) <= EndOf(Unpacked[x], cut.end)
        /\ EndOf(Unpacked[x], cut.end) <= EndOf(Unpacked[x], Segment.end)
    <3>1. x \in Xorbs /\ cut.start <= cut.end
      BY <1>3, <1>4, <1>5
    <3> HIDE DEF x
    <3> QED
      BY <1>3, <2>1, <3>1, Offsets
  <2> HIDE DEF x
  <2> QED
    BY <1>4, <2>2 DEF UnpackedLen
<1>7. SegmentBytes(t) = UnpackedLen(x, cut.start, cut.end)
  BY DEF SegmentBytes
<1>8. Segments[seg] = Segment /\ seg \in 1 .. Len(Segments)
  BY <1>2, <1>3 DEF Segment, TypeOK
<1> HIDE DEF x, front
<1>9. ASSUME NEW p \in 1 .. SegmentBytes(t)
      PROVE  FileBytes[cumulative + p] = <<x, EndOf(Unpacked[x], cut.start) + p>>
  <2>1. front + p \in 1 .. SegmentBytes(Segment)
    BY <1>4, <1>6, <1>7
  <2>2. FileBytes[StartOf[file][seg] + (front + p)] =
           <<x, EndOf(Unpacked[x], Segment.start) + (front + p)>>
    BY <1>2, <1>8, <2>1, FileBytesAt DEF x
  <2>3. /\ StartOf[file][seg] + (front + p) = cumulative + p
        /\ EndOf(Unpacked[x], Segment.start) + (front + p) = EndOf(Unpacked[x], cut.start) + p
    BY <1>3, <1>4, <1>6, <1>7
  <2> QED
    BY <2>2, <2>3
<1>10. cumulative + SegmentBytes(t) <= LengthOf[file]
  BY <1>3, <1>4, <1>6, <1>7
<1>11. /\ t.xorb = x /\ t.start = cut.start /\ t.from = cumulative
       /\ t \in PlanTerm
  BY <1>4, <1>5 DEF PlanTerm, x
<1> HIDE DEF t
<1>12. DOMAIN terms' = 1 .. Len(terms) + 1 /\ Len(terms) \in Nat /\ DOMAIN terms = 1 .. Len(terms)
       /\ terms'[Len(terms) + 1] = t /\ \A i \in 1 .. Len(terms) : terms'[i] = terms[i]
  BY <1>1, <1>5, <1>11, AppendProperties, LenProperties
<1>13. FileBytes' = FileBytes /\ LengthOf[file'] = LengthOf[file]
  BY <1>1 DEF FileBytes, Segments
<1>14. ASSUME NEW i \in DOMAIN terms'
       PROVE  /\ terms'[i].from + SegmentBytes(terms'[i]) <= LengthOf[file]
              /\ \A p \in 1 .. SegmentBytes(terms'[i]) :
                    FileBytes[terms'[i].from + p] =
                       <<terms'[i].xorb, EndOf(Unpacked[terms'[i].xorb], terms'[i].start) + p>>
  <2>1. CASE i = Len(terms) + 1
    BY <1>9, <1>10, <1>11, <1>12, <2>1
  <2>2. CASE i # Len(terms) + 1
    <3>1. i \in DOMAIN terms /\ terms'[i] = terms[i]
      BY <1>12, <2>2
    <3> QED
      BY <1>2, <3>1 DEF PlanBytes
  <2> QED
    BY <2>1, <2>2
<1> QED
  BY <1>13, <1>14 DEF PlanBytes

\* Only Emit adds to the plan, and Read is done with it.
LEMMA StepKeepsPlanBytes == ASSUME IInv, [Next]_vars PROVE PlanBytes'
<1>1. CASE Emit
  BY <1>1, EmitKeepsPlanBytes
<1>2. CASE UNCHANGED <<file, terms>>
  BY <1>2 DEF IInv, PlanBytes, FileBytes, Segments
<1>3. CASE Read
  BY <1>3 DEF Read, PlanBytes
<1>4. [Next]_vars => Emit \/ Read \/ UNCHANGED <<file, terms>>
  <2>1. (\E s \in 0 .. LengthOf[file] + 1, b \in Blocks : Walk(s, b)) \/
       (\E h \in Once : AskOnce(h))
          => UNCHANGED <<file, terms>>
    BY DEF Walk, AskOnce, plan
  <2>2. BadRequest \/ IndexFails \/ NotFound \/ NotSatisfiable \/ EmptyPlan \/ Begin \/ Respond
          => UNCHANGED <<file, terms>>
    BY DEF BadRequest, IndexFails, NotFound, NotSatisfiable, EmptyPlan, Begin,
       Respond, plan, request
  <2>3. SkipTerm \/ TakeTerm \/ NoMoreTerms \/ TrimLead \/ CheckTail \/ TrimTail
          \/ (\E x \in Xorbs : Merge(x)) => UNCHANGED <<file, terms>>
    BY DEF SkipTerm, TakeTerm, NoMoreTerms, TrimLead, CheckTail, TrimTail, Merge, plan, request
  <2>4. UNCHANGED vars => UNCHANGED <<file, terms>>
    BY DEF vars, plan, request
  <2> QED
    BY <2>1, <2>2, <2>3, <2>4 DEF Next, Server
<1> QED
  BY <1>1, <1>2, <1>3, <1>4

\* The header of a client that walks is one the server understands.
LEMMA BlockHeaderParses == ASSUME NEW s, NEW b PROVE BlockHeader(s, b) # Malformed
BY DEF BlockHeader, FromTo, Malformed

\* The client changes neither the request it waits for nor the answer it has.
LEMMA ClientKeepsAnswers ==
    ASSUME IInv,
           \/ \E s \in 0 .. LengthOf[file] + 1, b \in Blocks : Walk(s, b)
           \/ \E h \in Once : AskOnce(h)
           \/ Read
    PROVE  AnswerOK' /\ ClientOK'
<1> USE DEF IInv
<1>1. ASSUME NEW s \in 0 .. LengthOf[file] + 1, NEW b \in Blocks, Walk(s, b)
      PROVE  AnswerOK' /\ ClientOK'
  <2>1. s \in Nat /\ s <= U64Max /\ b # 0
    BY FilesAssumption, StrangersAssumption, TermsAssumption DEF PlanInv, TypeOK
  <2>2. /\ pc = "idle" /\ pc' = "asked" /\ header' = BlockHeader(s, b)
        /\ origin' = s /\ at' = s /\ block' = b
        /\ UNCHANGED <<file, status, firstChunkByteStart>>
    BY <1>1 DEF Walk, plan
  <2>3. AnswerOK'
    BY <2>2 DEF AnswerOK, Planning
  <2>4. ClientOK'
    BY <2>1, <2>2, BlockHeaderParses DEF ClientOK
  <2> QED
    BY <2>3, <2>4
<1>2. ASSUME NEW h \in Once, AskOnce(h) PROVE AnswerOK' /\ ClientOK'
  <2>1. /\ pc = "idle" /\ pc' = "asked"
        /\ UNCHANGED <<file, status, firstChunkByteStart, block, received>>
    BY <1>2 DEF AskOnce, plan, walk
  <2> QED
    BY <2>1 DEF AnswerOK, ClientOK, Planning
<1>3. CASE Read
  <2>1. /\ pc = "answered" /\ pc' \in {"asked", "done"} /\ status' = status
        /\ firstChunkByteStart' = 0 /\ block' = block /\ origin' = origin
        /\ pc' = "asked" => status = 200 /\ block # 0
    BY <1>3 DEF Read
  <2>2. AnswerOK'
    BY <2>1 DEF AnswerOK, Planning
  <2>3. CASE block = 0
    BY <2>1, <2>2, <2>3 DEF ClientOK
  <2>4. CASE block # 0
    <3>1. /\ origin \in Nat /\ origin <= at /\ at <= U64Max /\ at \in Nat /\ block \in Nat
          /\ header # Malformed
      BY <2>4 DEF ClientOK, PlanInv, TypeOK
    <3>2. CASE status = 200
      <4>1. pc' = "asked" /\ at' = SaturatingAdd(at, block) /\ header' = BlockHeader(at', block)
        BY <1>3, <2>4, <3>2 DEF Read
      <4>2. origin <= at' /\ at' <= U64Max
        BY <3>1, <4>1 DEF SaturatingAdd, Least
      <4> QED
        BY <2>1, <2>2, <2>4, <3>1, <4>1, <4>2, BlockHeaderParses DEF ClientOK
    <3>3. CASE status # 200
      <4>1. pc' = "done" /\ UNCHANGED <<at, header>>
        BY <1>3, <3>3 DEF Read
      <4> QED
        BY <2>1, <2>2, <2>4, <3>1, <4>1 DEF ClientOK
    <3> QED
      BY <3>2, <3>3
  <2> QED
    BY <2>2, <2>3, <2>4
<1> QED
  BY <1>1, <1>2, <1>3

\* The guards of an answer, unchanged by it.
LEMMA ServerKeepsAnswers == ASSUME IInv, Server PROVE AnswerOK' /\ ClientOK'
<1> USE DEF IInv
<1>1. UNCHANGED <<request, walk>>
  BY PlannerSteps DEF Server, BadRequest, IndexFails, NotFound, NotSatisfiable,
     EmptyPlan, Begin, Respond
<1>2. /\ Satisfiable' = Satisfiable /\ WellFormed' = WellFormed /\ Found' = Found
      /\ Requested' = Requested /\ LengthOf[file'] = LengthOf[file]
      /\ file' = file
  BY <1>1 DEF request, Satisfiable, Found, WellFormed, Requested
<1>3. pc \notin {"idle", "done", "answered"} /\ pc' \notin {"idle", "done", "asked"}
  BY PlannerSteps DEF Server, BadRequest, IndexFails, NotFound, NotSatisfiable, EmptyPlan, Begin,
     Respond, Answer, Planning
<1>4. ClientOK'
  BY <1>1, <1>3 DEF ClientOK, request, walk
<1>5. CASE BadRequest \/ IndexFails \/ NotFound \/ NotSatisfiable
  <2>1. /\ pc' = "answered"
        /\ \/ status' = 400 /\ ~ WellFormed
           \/ status' = 500
           \/ status' = 404 /\ file \notin Files
           \/ status' = 416 /\ Found /\ ~ Satisfiable
    BY <1>5 DEF BadRequest, IndexFails, NotFound, NotSatisfiable, Answer
  <2> QED
    BY <1>2, <1>4, <2>1 DEF AnswerOK, Planning
<1>6. CASE EmptyPlan
  <2>1. /\ pc = "asked" /\ pc' = "answered" /\ status' = 200 /\ range' = <<0, 0>>
        /\ Satisfiable /\ LengthOf[file] = 0
        /\ UNCHANGED <<terms, firstChunkByteStart>>
    BY <1>6 DEF EmptyPlan, Answer, plan
  <2>2. terms' = <<>> /\ firstChunkByteStart' = 0
    BY <2>1, Unplanned DEF AnswerOK
  <2>3. Requested = <<0, 0>>
    <3>1. header \in Headers /\ header # Malformed /\ Requested # Unsatisfiable
          /\ Requested = Resolve(header, 0)
      BY <2>1 DEF Satisfiable, Found, WellFormed, Requested, PlanInv, TypeOK
    <3>2. CASE header = NoHeader
      BY <3>1, <3>2 DEF Resolve, NoHeader
    <3>3. CASE header \in [kind : {"fromTo"}, start : Nat, end : Nat]
                            \cup [kind : {"from"}, start : Nat]
      BY <3>1, <3>3 DEF Resolve
    <3>4. CASE header \in [kind : {"suffix"}, length : Nat]
      BY <3>1, <3>4 DEF Resolve, SaturatingSub
    <3> QED
      BY <3>1, <3>2, <3>3, <3>4 DEF Headers
  <2> QED
    BY <1>2, <1>4, <2>1, <2>2, <2>3 DEF AnswerOK, Planning
<1>7. CASE Begin
  <2>1. /\ pc = "asked" /\ pc' = "skip" /\ Satisfiable /\ range' = Requested /\ status' = status
    BY <1>7 DEF Begin
  <2> QED
    BY <1>2, <1>4, <2>1 DEF AnswerOK, Planning
<1>8. CASE Respond
  <2>1. /\ pc = "merge" /\ pc' = "answered" /\ status' = 200
        /\ UNCHANGED <<range, terms, firstChunkByteStart>>
    BY <1>8, ResponseValid DEF Respond, Answer, plan
  <2>2. /\ terms # <<>> /\ cumulative >= range[2]
        /\ cumulative = LastTerm.from + SegmentBytes(LastTerm)
    BY <2>1 DEF PlanInv, FetchOK, TermsOK
  <2>3. range \in Nat \X Nat /\ cumulative \in Nat
    BY <2>1, TermsAssumption DEF PlanInv, TypeOK, RangeOK, Planning
  <2>4. range'[2] <= LastTerm'.from + SegmentBytes(LastTerm')
    BY <2>1, <2>2, <2>3 DEF LastTerm
  <2>5. Satisfiable /\ range = Requested
    BY <2>1 DEF AnswerOK, Planning
  <2> QED
    BY <1>2, <1>4, <2>1, <2>2, <2>4, <2>5 DEF AnswerOK, Planning
<1>9. CASE \/ SkipTerm \/ TakeTerm \/ NoMoreTerms \/ TrimLead \/ CheckTail \/ TrimTail \/ Emit
           \/ \E x \in Xorbs : Merge(x)
  <2>1. pc \in Planning /\ pc' \in Planning /\ UNCHANGED <<status, range>>
    BY <1>9, PlannerSteps
  <2> QED
    BY <1>2, <1>4, <2>1 DEF AnswerOK, Planning
<1> QED
  BY <1>5, <1>6, <1>7, <1>8, <1>9 DEF Server

LEMMA StepKeepsAll == ASSUME IInv, [Next]_vars PROVE IInv'
<1>1. PlanInv' /\ PlanBytes'
  BY StepKeepsInvariant, StepKeepsPlanBytes DEF IInv
<1>2. AnswerOK' /\ ClientOK'
  <2>1. CASE UNCHANGED vars
    BY <2>1 DEF IInv, vars, request, plan, walk, AnswerOK, ClientOK, Satisfiable, Found,
       WellFormed, Requested, LastTerm
  <2>2. CASE Next
    BY <2>2, ClientKeepsAnswers, ServerKeepsAnswers DEF Next
  <2> QED
    BY <2>1, <2>2
<1> QED
  BY <1>1, <1>2 DEF IInv

\* IInv: besides the planner's loops, the plan unpacks to the file's own bytes, and
\* an answer is the answer to the request in hand.
THEOREM Invariance == Spec => []IInv
<1>1. Init => IInv
  BY InitialInvariant, InitialAnswers DEF IInv
<1>2. IInv /\ [Next]_vars => IInv'
  BY StepKeepsAll
<1> QED
  BY <1>1, <1>2, PTL DEF Spec

-------------------------------------------------------------------------------
(* What the client has.                                                    *)

\* A request for a file that is there is well-formed if its header parses.
LEMMA KnownFile == ASSUME file \in Files, header # Malformed PROVE WellFormed
BY DEF WellFormed, ValidQueryReconstructionRequest, IsHashHex, Present

\* A block asked for at the end of a file, or behind it, is the only one refused.
LEMMA BlockRefused ==
    ASSUME NEW s \in Nat, s <= U64Max, NEW b \in Nat, b # 0, NEW total \in Nat,
           Resolve(BlockHeader(s, b), total) = Unsatisfiable
    PROVE  s >= total
<1>1. /\ BlockHeader(s, b).kind = "fromTo" /\ BlockHeader(s, b).start = s
      /\ BlockHeader(s, b).end = Least(s + (b - 1), U64Max)
  BY DEF BlockHeader, FromTo, SaturatingAdd
<1>2. Least(s + (b - 1), U64Max) >= s /\ Least(s + (b - 1), U64Max) \in Nat
  BY DEF Least
<1>3. \A e \in Nat : <<s, e>> # Unsatisfiable
  BY DEF Unsatisfiable
<1>4. Least(total, EndExclusive(Least(s + (b - 1), U64Max))) \in Nat
  BY <1>2 DEF Least, EndExclusive, SaturatingAdd
<1> QED
  BY <1>1, <1>2, <1>3, <1>4 DEF Resolve

\* The range that a block is answered with.
LEMMA BlockAnswered ==
    ASSUME NEW s \in Nat, s <= U64Max, NEW b \in Nat, b # 0, NEW total \in Nat, total < U64Max,
           Resolve(BlockHeader(s, b), total) # Unsatisfiable
    PROVE  /\ s < total
           /\ Resolve(BlockHeader(s, b), total) = <<s, Least(SaturatingAdd(s, b), total)>>
<1> DEFINE e == Least(s + (b - 1), U64Max)
<1>1. /\ BlockHeader(s, b).kind = "fromTo" /\ BlockHeader(s, b).start = s
      /\ BlockHeader(s, b).end = e
  BY DEF BlockHeader, FromTo, SaturatingAdd
<1>2. e \in Nat /\ Least(total, EndExclusive(e)) = Least(SaturatingAdd(s, b), total)
  BY DEF Least, EndExclusive, SaturatingAdd
<1> HIDE DEF e
<1> QED
  BY <1>1, <1>2 DEF Resolve

\* A block joins on to what the client has.
LEMMA ReadBlock ==
    ASSUME IInv, WalkExact, pc = "answered", status = 200, block # 0
    PROVE  /\ received \o Received =
                 SubSeq(FileBytes, origin + 1, Least(SaturatingAdd(at, block), LengthOf[file]))
<1> DEFINE L == LengthOf[file]
           hi == Least(SaturatingAdd(at, block), L)
<1>1. /\ L \in Nat /\ L < U64Max
      /\ range = Resolve(header, L) /\ Resolve(header, L) # Unsatisfiable
      /\ Received = SubSeq(FileBytes, range[1] + 1, range[2])
  BY ReceivedExact
<1>2. /\ origin \in Nat /\ at \in Nat /\ block \in Nat /\ origin <= at /\ at <= U64Max
      /\ header = BlockHeader(at, block)
  BY DEF IInv, PlanInv, TypeOK, ClientOK
<1>3. at < L /\ range = <<at, hi>>
  BY <1>1, <1>2, BlockAnswered
<1>4. received = SubSeq(FileBytes, origin + 1, at)
  BY <1>2, <1>3 DEF WalkExact, Least
<1>5. hi \in Nat /\ at <= hi /\ hi <= L
  BY <1>1, <1>2, <1>3 DEF Least, SaturatingAdd
<1>6. FileBytes \in Seq(Xorbs \X Nat) /\ Len(FileBytes) = L
  BY FileBytesAt DEF IInv, PlanInv
<1>10. range[1] = at /\ range[2] = hi
  BY <1>3
<1> HIDE DEF L, hi
<1>7. /\ origin + 1 \in 1 .. Len(FileBytes) + 1
      /\ at \in (origin + 1) - 1 .. Len(FileBytes)
      /\ hi \in at .. Len(FileBytes)
  BY <1>1, <1>2, <1>3, <1>5, <1>6
<1>8. SubSeq(FileBytes, origin + 1, at) \o SubSeq(FileBytes, at + 1, hi)
        = SubSeq(FileBytes, origin + 1, hi)
  BY <1>6, <1>7, ConcatAdjacentSubSeq
<1>9. Received = SubSeq(FileBytes, at + 1, hi)
  BY <1>1, <1>10
<1> QED
  BY <1>4, <1>8, <1>9 DEF hi, L

LEMMA WalkStarts ==
    ASSUME IInv, NEW s \in 0 .. LengthOf[file] + 1, NEW b \in Blocks, Walk(s, b)
    PROVE  WalkExact'
<1>1. /\ pc = "idle" /\ pc' = "asked" /\ origin' = s /\ at' = s
      /\ UNCHANGED <<file, status, received>>
  BY DEF Walk
<1>2. received = <<>> /\ status \in {0, 200}
  BY <1>1 DEF IInv, ClientOK, AnswerOK
<1>3. LengthOf[file] \in Nat /\ s \in Nat
  BY FileBytesAt DEF IInv, PlanInv
<1>4. Least(s, LengthOf[file]) \in Int /\ s + 1 \in Int /\ Least(s, LengthOf[file]) < s + 1
  BY <1>3 DEF Least
<1>5. SubSeq(FileBytes, s + 1, Least(s, LengthOf[file])) = <<>>
  BY <1>4, SubSeqEmpty
<1>6. FileBytes' = FileBytes /\ LengthOf[file'] = LengthOf[file]
  BY <1>1 DEF FileBytes, Segments
<1>7. received' = SubSeq(FileBytes', origin' + 1, Least(at', LengthOf[file']))
  BY <1>1, <1>2, <1>5, <1>6
<1>8. status' # 416 /\ pc' # "done"
  BY <1>1, <1>2
<1> QED
  BY <1>7, <1>8 DEF WalkExact

LEMMA WalkReads == ASSUME IInv, WalkExact, Read PROVE WalkExact'
<1> SUFFICES ASSUME block # 0 PROVE WalkExact'
  BY DEF Read, WalkExact
<1>1. /\ pc = "answered" /\ UNCHANGED <<file, status, origin, block>>
      /\ received' = received \o (IF status = 200 THEN Received ELSE <<>>)
  BY DEF Read
<1>2. FileBytes' = FileBytes /\ LengthOf[file'] = LengthOf[file]
  BY <1>1 DEF FileBytes, Segments
<1>3. CASE status = 200
  <2>1. pc' = "asked" /\ at' = SaturatingAdd(at, block)
    BY <1>3 DEF Read
  <2>2. received' = SubSeq(FileBytes, origin + 1, Least(at', LengthOf[file]))
    BY <1>1, <1>3, <2>1, ReadBlock
  <2>3. received' = SubSeq(FileBytes', origin' + 1, Least(at', LengthOf[file']))
    BY <1>1, <1>2, <2>2
  <2>4. status' # 416 /\ pc' # "done"
    BY <1>1, <1>3, <2>1
  <2> QED
    BY <2>3, <2>4 DEF WalkExact
<1>4. CASE status # 200
  <2>1. pc' = "done" /\ UNCHANGED at
    BY <1>4 DEF Read
  <2>2. received' = received
    <3>1. FileBytes \in Seq(Xorbs \X Nat) /\ Len(FileBytes) = LengthOf[file]
          /\ LengthOf[file] \in Nat
      BY FileBytesAt DEF IInv, PlanInv
    <3>2. origin \in Nat /\ at \in Nat
      BY DEF IInv, PlanInv, TypeOK, ClientOK
    <3>3. received = SubSeq(FileBytes, origin + 1, Least(at, LengthOf[file]))
      BY DEF WalkExact
    <3>4. \A i \in origin + 1 .. Least(at, LengthOf[file]) : FileBytes[i] \in Xorbs \X Nat
      <4>1. (origin + 1) .. Least(at, LengthOf[file]) \subseteq 1 .. Len(FileBytes)
        BY <3>1, <3>2 DEF Least
      <4> QED
        BY <3>1, <4>1, LenProperties
    <3>5. received \in Seq(Xorbs \X Nat)
      BY <3>1, <3>2, <3>3, <3>4, SubSeqProperties DEF Least
    <3> QED
      BY <1>1, <1>4, <3>5, ConcatEmptySeq
  <2>3. status \in (IF file \in Files THEN {416, 500} ELSE {400, 404, 500})
    <3>1. status \in {400, 404, 416, 500} /\ header # Malformed
      BY <1>1, <1>4 DEF IInv, PlanInv, TypeOK, AnswerOK, ClientOK
    <3>2. file \in Files => WellFormed
      BY <3>1, KnownFile
    <3> QED
      BY <1>1, <3>1, <3>2 DEF IInv, AnswerOK, Found
  <2> QED
    BY <1>1, <1>2, <1>4, <2>1, <2>2, <2>3 DEF WalkExact
<1> QED
  BY <1>3, <1>4

LEMMA ServerKeepsWalk == ASSUME IInv, WalkExact, Server PROVE WalkExact'
<1>1. UNCHANGED <<request, walk>> /\ pc' # "done"
      /\ (status' = 416 => status = 416 \/ (pc = "asked" /\ Found /\ ~ Satisfiable))
  BY PlannerSteps, ResponseValid
     DEF Server, BadRequest, IndexFails, NotFound, NotSatisfiable, EmptyPlan, Begin, Respond,
         Answer, Planning, IInv
<1>2. FileBytes' = FileBytes /\ LengthOf[file'] = LengthOf[file]
  BY <1>1 DEF FileBytes, Segments, request
<1>3. ASSUME block # 0, pc = "asked", Found, ~ Satisfiable PROVE at >= LengthOf[file]
  <2>1. /\ at \in Nat /\ block \in Nat /\ at <= U64Max /\ header = BlockHeader(at, block)
        /\ LengthOf[file] \in Nat
    BY <1>3, FileBytesAt DEF IInv, PlanInv, TypeOK, ClientOK
  <2>2. Resolve(header, LengthOf[file]) = Unsatisfiable
    BY <1>3 DEF Satisfiable, Requested
  <2> QED
    BY <1>3, <2>1, <2>2, BlockRefused
<1> QED
  BY <1>1, <1>2, <1>3 DEF WalkExact, walk, request

\* WalkExact, api-surface.md section 1.1: a client that asks block by block has the
\* bytes of the file from where it began to where it is, and is told that there
\* is no more only when it has them all.
THEOREM Walks == Spec => []WalkExact
<1>1. Init => IInv /\ WalkExact
  <2>1. Init => WalkExact
    BY DEF Init, WalkExact
  <2> QED
    BY <2>1, InitialInvariant, InitialAnswers DEF IInv
<1>2. (IInv /\ WalkExact) /\ [Next]_vars => (IInv /\ WalkExact)'
  <2> SUFFICES ASSUME IInv, WalkExact, [Next]_vars PROVE IInv' /\ WalkExact'
    OBVIOUS
  <2>1. CASE \E s \in 0 .. LengthOf[file] + 1, b \in Blocks : Walk(s, b)
    BY <2>1, WalkStarts, StepKeepsAll
  <2>2. CASE \E h \in Once : AskOnce(h)
    <3>1. block = 0 /\ UNCHANGED block
      BY <2>2 DEF AskOnce, walk, IInv, ClientOK
    <3> QED
      BY <3>1, StepKeepsAll DEF WalkExact
  <2>3. CASE Read
    BY <2>3, WalkReads, StepKeepsAll
  <2>4. CASE Server
    BY <2>4, ServerKeepsWalk, StepKeepsAll
  <2>5. CASE UNCHANGED vars
    BY <2>5, StepKeepsAll DEF vars, request, walk, WalkExact, FileBytes, Segments
  <2> QED
    BY <2>1, <2>2, <2>3, <2>4, <2>5 DEF Next
<1> QED
  BY <1>1, <1>2, PTL DEF Spec

\* The places of the file that a header names are those of its range.
LEMMA NamedRange ==
    ASSUME NEW h \in Headers, h # Malformed, LengthOf[file] \in Nat, LengthOf[file] < U64Max
    PROVE  LET L == LengthOf[file]
               r == Resolve(h, L)
               named == {p \in 1 .. L : Named(h, p - 1)}
           IN named = IF r = Unsatisfiable THEN {} ELSE r[1] + 1 .. r[2]
<1> DEFINE L == LengthOf[file]
           r == Resolve(h, L)
           named == {p \in 1 .. L : Named(h, p - 1)}
<1>1. CASE h = NoHeader
  <2>1. r = <<0, L>> /\ \A p \in 1 .. L : Named(h, p - 1)
    BY <1>1 DEF Resolve, Named, NoHeader
  <2> QED
    BY <2>1 DEF Unsatisfiable
<1>2. CASE h \in [kind : {"fromTo"}, start : Nat, end : Nat]
  <2>1. h.kind = "fromTo" /\ h.start \in Nat /\ h.end \in Nat
    BY <1>2
  <2>2. named = {p \in 1 .. L : h.start <= p - 1 /\ p - 1 <= h.end}
    BY <2>1 DEF Named
  <2>3. CASE h.start >= L \/ h.end < h.start
    <3>1. r = Unsatisfiable
      BY <2>1, <2>3 DEF Resolve
    <3>2. named = {}
      BY <2>1, <2>2, <2>3
    <3> QED
      BY <3>1, <3>2
  <2>4. CASE ~ (h.start >= L \/ h.end < h.start)
    <3>1. r = <<h.start, Least(L, h.end + 1)>>
      <4>1. EndExclusive(h.end) = Least(h.end + 1, U64Max)
        BY DEF EndExclusive, SaturatingAdd
      <4>2. Least(L, Least(h.end + 1, U64Max)) = Least(L, h.end + 1)
        BY <2>1 DEF Least
      <4> QED
        BY <2>1, <2>4, <4>1, <4>2 DEF Resolve
    <3>2. named = h.start + 1 .. Least(L, h.end + 1)
      BY <2>1, <2>2, <2>4 DEF Least
    <3> QED
      BY <3>1, <3>2 DEF Unsatisfiable
  <2> QED
    BY <2>3, <2>4
<1>3. CASE h \in [kind : {"from"}, start : Nat]
  <2>1. h.kind = "from" /\ h.start \in Nat
    BY <1>3
  <2>2. named = {p \in 1 .. L : p - 1 >= h.start}
    BY <2>1 DEF Named
  <2>3. CASE h.start >= L
    <3>1. r = Unsatisfiable /\ named = {}
      BY <2>1, <2>2, <2>3 DEF Resolve
    <3> QED
      BY <3>1
  <2>4. CASE ~ (h.start >= L)
    <3>1. r = <<h.start, L>> /\ named = h.start + 1 .. L
      BY <2>1, <2>2, <2>4 DEF Resolve
    <3> QED
      BY <3>1 DEF Unsatisfiable
  <2> QED
    BY <2>3, <2>4
<1>4. CASE h \in [kind : {"suffix"}, length : Nat]
  <2>1. h.kind = "suffix" /\ h.length \in Nat
    BY <1>4
  <2>2. named = {p \in 1 .. L : (p - 1) + h.length >= L}
    BY <2>1 DEF Named
  <2>3. CASE h.length = 0
    <3>1. r = Unsatisfiable /\ named = {}
      BY <2>1, <2>2, <2>3 DEF Resolve
    <3> QED
      BY <3>1
  <2>4. CASE h.length # 0
    <3>1. r = <<SaturatingSub(L, h.length), L>>
      BY <2>1, <2>4 DEF Resolve
    <3>2. named = SaturatingSub(L, h.length) + 1 .. L
      BY <2>1, <2>2, <2>4 DEF SaturatingSub
    <3> QED
      BY <3>1, <3>2 DEF Unsatisfiable
  <2> QED
    BY <2>3, <2>4
<1> QED
  BY <1>1, <1>2, <1>3, <1>4 DEF Headers

LEMMA ReadOnce == ASSUME IInv, Read, block = 0 PROVE OnceExact'
<1> DEFINE L == LengthOf[file]
           named == {p \in 1 .. L : Named(header, p - 1)}
<1>1. /\ pc = "answered" /\ UNCHANGED <<file, header, status, block>>
      /\ received' = received \o (IF status = 200 THEN Received ELSE <<>>)
  BY DEF Read
<1>2. FileBytes' = FileBytes /\ L' = L /\ named' = named
  BY <1>1 DEF FileBytes, Segments, Named
<1>3. received = <<>> /\ header \in Headers
  BY <1>1 DEF IInv, PlanInv, TypeOK, ClientOK
<1>4. ASSUME status = 200
      PROVE  received' = [i \in 1 .. Cardinality(named) |-> FileBytes[Min(named) + i - 1]]
  <2>1. /\ header # Malformed /\ L \in Nat /\ L < U64Max
        /\ Resolve(header, L) # Unsatisfiable /\ range = Resolve(header, L)
        /\ Received = SubSeq(FileBytes, range[1] + 1, range[2])
    BY <1>1, <1>4, ReceivedExact
  <2>2. named = range[1] + 1 .. range[2]
    BY <1>3, <2>1, NamedRange
  <2>3. range[1] \in Nat /\ range[2] \in Nat /\ range[1] <= range[2] /\ range[2] <= L
    BY <1>3, <2>1, RangeEnds
  <2>4. FileBytes \in Seq(Xorbs \X Nat) /\ Len(FileBytes) = L
    BY FileBytesAt DEF IInv, PlanInv
  <2> HIDE DEF L, named
  <2>5. \A i \in range[1] + 1 .. range[2] : FileBytes[i] \in Xorbs \X Nat
    <3>1. (range[1] + 1) .. range[2] \subseteq 1 .. Len(FileBytes)
      BY <2>1, <2>3, <2>4
    <3> QED
      BY <2>4, <3>1, LenProperties
  <2> DEFINE m == range[1] + 1
             n == range[2]
  <2>10. m \in Int /\ n \in Int /\ m = range[1] + 1 /\ n = range[2]
         /\ Received = SubSeq(FileBytes, m, n) /\ named = m .. n
         /\ \A i \in m .. n : FileBytes[i] \in Xorbs \X Nat
    BY <2>1, <2>2, <2>3, <2>5
  <2> HIDE DEF m, n
  <2>11. /\ Received \in Seq(Xorbs \X Nat)
         /\ Len(Received) = IF m <= n THEN n - m + 1 ELSE 0
         /\ \A i \in 1 .. n - m + 1 : Received[i] = FileBytes[m + i - 1]
         /\ Cardinality(named) = IF m > n THEN 0 ELSE n - m + 1
    <3> DEFINE F == FileBytes
               S == Xorbs \X Nat
    <3>1. Received = SubSeq(F, m, n)
      BY <2>10
    <3>4. m \in Int /\ n \in Int /\ \A i \in m .. n : F[i] \in S
      BY <2>10
    <3> HIDE DEF F, S
    <3>2. /\ SubSeq(F, m, n) \in Seq(S)
          /\ Len(SubSeq(F, m, n)) = IF m <= n THEN n - m + 1 ELSE 0
          /\ \A i \in 1 .. n - m + 1 : SubSeq(F, m, n)[i] = F[m + i - 1]
      BY <3>4, SubSeqProperties
    <3>3. Cardinality(named) = IF m > n THEN 0 ELSE n - m + 1
      BY <2>10, FS_Interval
    <3> QED
      BY <3>1, <3>2, <3>3 DEF F, S
  <2>6. /\ Received \in Seq(Xorbs \X Nat)
        /\ Len(Received) = range[2] - range[1]
        /\ Cardinality(named) = range[2] - range[1]
        /\ \A i \in 1 .. range[2] - range[1] : Received[i] = FileBytes[range[1] + i]
    <3>1. n - m + 1 = range[2] - range[1]
      BY <2>3, <2>10
    <3>2. ASSUME NEW i \in 1 .. range[2] - range[1] PROVE Received[i] = FileBytes[range[1] + i]
      <4>1. i \in 1 .. n - m + 1 /\ m + i - 1 = range[1] + i
        <5>1. m = range[1] + 1 /\ n = range[2] /\ range[1] \in Nat /\ range[2] \in Nat
          BY <2>3, <2>10
        <5> QED
          BY <5>1
      <4> QED
        BY <2>11, <4>1
    <3>3. (IF m <= n THEN n - m + 1 ELSE 0) = range[2] - range[1]
          /\ (IF m > n THEN 0 ELSE n - m + 1) = range[2] - range[1]
      BY <2>3, <2>10
    <3> QED
      BY <2>11, <3>2, <3>3
  <2>7. Cardinality(named) = range[2] - range[1]
    BY <2>6
  <2>8. ASSUME NEW i \in 1 .. Cardinality(named)
        PROVE  FileBytes[Min(named) + i - 1] = FileBytes[range[1] + i]
    <3>1. range[1] + 1 \in named /\ \A p \in named : range[1] + 1 <= p /\ p \in Int
      BY <2>2, <2>3, <2>7
    <3>2. Min(named) = range[1] + 1
      BY <3>1, <2>3 DEF Min
    <3> QED
      BY <2>3, <2>7, <3>2
  <2>9. received' = Received
    BY <1>1, <1>3, <1>4, <2>6, ConcatEmptySeq
  <2>12. Received = [i \in 1 .. Len(Received) |-> Received[i]]
    BY <2>6, LenProperties
  <2> QED
    BY <2>6, <2>7, <2>8, <2>9, <2>12
<1>5. ASSUME status = 416 PROVE named = {}
  <2>1. Found /\ ~ Satisfiable
    BY <1>1, <1>5 DEF IInv, AnswerOK
  <2>2. /\ header # Malformed /\ L \in Nat /\ L < U64Max
        /\ Resolve(header, L) = Unsatisfiable
    BY <2>1, FilesAssumption, FileBytesAt
       DEF Found, Satisfiable, Requested, WellFormed, IInv, PlanInv
  <2> QED
    BY <1>3, <2>2, NamedRange
<1>6. /\ status' = 200 => received' = [i \in 1 .. Cardinality(named') |->
                                        FileBytes'[Min(named') + i - 1]]
      /\ status' = 416 => named' = {}
  <2> HIDE DEF named
  <2> QED
    BY <1>1, <1>2, <1>4, <1>5
<1> QED
  BY <1>6 DEF OnceExact

\* OnceExact: the answer to any header holds exactly the bytes of the file that the
\* header names, and a 416 says that it names none.
THEOREM AsksOnce == Spec => []OnceExact
<1>1. Init => OnceExact
  BY DEF Init, OnceExact
<1>2. IInv /\ OnceExact /\ [Next]_vars => OnceExact'
  <2> SUFFICES ASSUME IInv, OnceExact, [Next]_vars PROVE OnceExact'
    OBVIOUS
  <2>1. CASE Read
    <3>1. CASE block = 0
      BY <2>1, <3>1, ReadOnce
    <3>2. CASE block # 0
      BY <2>1, <3>2 DEF Read, OnceExact
    <3> QED
      BY <3>1, <3>2
  <2>2. CASE UNCHANGED vars
    <3>1. UNCHANGED <<pc, status, file, header, block, received>>
      BY <2>2 DEF vars, request, walk
    <3>2. FileBytes' = FileBytes
      BY <3>1 DEF FileBytes, Segments
    <3> DEFINE named == {p \in 1 .. LengthOf[file] : Named(header, p - 1)}
    <3>3. named' = named
      BY <3>1 DEF Named
    <3>4. block = 0 /\ pc = "done" =>
             /\ status = 200 => received = [i \in 1 .. Cardinality(named) |->
                                               FileBytes[Min(named) + i - 1]]
             /\ status = 416 => named = {}
      BY DEF OnceExact
    <3>5. block' = 0 /\ pc' = "done" =>
             /\ status' = 200 => received' = [i \in 1 .. Cardinality(named') |->
                                                 FileBytes'[Min(named') + i - 1]]
             /\ status' = 416 => named' = {}
      <4> HIDE DEF named
      <4> QED
        BY <3>1, <3>2, <3>3, <3>4
    <3> QED
      BY <3>5 DEF OnceExact
  <2>3. CASE Server
    <3>1. pc' # "done"
      BY <2>3, PlannerSteps
         DEF Server, BadRequest, IndexFails, NotFound, NotSatisfiable, EmptyPlan, Begin, Respond,
             Answer, Planning
    <3> QED
      BY <3>1 DEF OnceExact
  <2>4. CASE \/ \E s \in 0 .. LengthOf[file] + 1, b \in Blocks : Walk(s, b)
             \/ \E h \in Once : AskOnce(h)
    BY <2>4 DEF Walk, AskOnce, OnceExact
  <2> QED
    BY <2>1, <2>2, <2>3, <2>4 DEF Next
<1> QED
  BY <1>1, <1>2, Invariance, PTL DEF Spec
================================================================================
