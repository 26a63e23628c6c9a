----------------------------- MODULE MCXorbUpload -----------------------------
(***************************************************************************)
(* Instances of XorbUpload for TLC: at most two xorbs that share a chunk,  *)
(* and two layouts of different size.                                      *)
(***************************************************************************)
EXTENDS XorbUpload, TLC

CONSTANTS h1, c1, c2, plain

MCChunksOf == [h \in Hashes |-> IF h = h1 THEN {c1, c2} \cap Chunks ELSE {c2}]
MCSize == [l \in Layouts |-> IF l = plain THEN 3 ELSE 2]
Symmetry == Permutations(Uploads)
===============================================================================
