----------------------------- MODULE MCReconstruction --------------------------
(***************************************************************************)
(* Two xorbs, one with an empty chunk: every file of at most two terms,    *)
(* and those of three terms from four chosen ones.                         *)
(***************************************************************************)
EXTENDS Reconstruction

CONSTANTS a, b

MCUnpacked == (a :> <<1, 3, 4>>) @@ (b :> <<2, 2, 3>>)
MCBoundary == (a :> <<3, 7, 10>>) @@ (b :> <<4, 5, 8>>)

SumBytes(ts) == FoldSeq(LAMBDA t, sum : sum + SegmentBytes(t), 0, ts)

Term(x, i, j) == [xorb |-> x, start |-> i, end |-> j]
AllTerms == {Term(x, i, j) : x \in {a, b}, i \in 0 .. 2, j \in 1 .. 3}
Terms == {t \in AllTerms : t.start < t.end}
Chosen == {Term(a, 0, 2), Term(a, 1, 3), Term(b, 0, 1), Term(b, 1, 2)}

MCFiles == {<<>>} \cup [1 .. 1 -> Terms] \cup [1 .. 2 -> Terms] \cup [1 .. 3 -> Chosen]
MCTermsOf == [f \in MCFiles \cup {Unknown, Empty} |-> IF f \in MCFiles THEN f ELSE <<>>]
MCLengthOf == [f \in DOMAIN MCTermsOf |-> SumBytes(MCTermsOf[f])]

MCStartOf == [f \in DOMAIN MCTermsOf |->
                [i \in 1 .. Len(MCTermsOf[f]) + 1 |-> SumBytes(SubSeq(MCTermsOf[f], 1, i - 1))]]

MCOnce == {NoHeader, Malformed} \cup {From(s) : s \in 0 .. 5} \cup {Suffix(n) : n \in 0 .. 10}
            \cup {FromTo(3, 2), FromTo(0, 0), FromTo(1, U64Max)}
================================================================================
