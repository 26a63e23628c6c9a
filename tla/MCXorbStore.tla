------------------------------ MODULE MCXorbStore -----------------------------
(* An instance of XorbStore for TLC. *)
EXTENDS XorbStore, TLC

CONSTANTS h1, h2, h3, top, leafA, leafB

\* h1 and h2 share both directories, h3 only the upper one.
MCTopOf == [l \in Leaves |-> top]
MCLeafOf == [h \in Objects |-> IF h = h3 THEN leafB ELSE leafA]
Symmetry == Permutations(Writers) \cup Permutations(Objects \ {h3})
===============================================================================
