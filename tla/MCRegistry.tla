------------------------------- MODULE MCRegistry -----------------------------
(***************************************************************************)
(* An instance of Registry for TLC.  Two xorbs share the chunk c1.  The    *)
(* file f1 can be taken from either, f2 has the content of f1 under another *)
(* hash, f3 has its own content; shards claim true, false and no oids,      *)
(* alone and with other files, and hint at true and false dedup rows.       *)
(***************************************************************************)
EXTENDS Registry, TLC

CONSTANTS x1, x2, c1, c2, f1, f2, f3, r1, r1b, r2, r3, o1, o3

MCChunksIn == (x1 :> {c1}) @@ (x2 :> {c1, c2})
MCEligible == (x1 :> {c1}) @@ (x2 :> {})
MCFileOf == (r1 :> f1) @@ (r1b :> f1) @@ (r2 :> f2) @@ (r3 :> f3)
MCXorbsOf == (r1 :> {x1}) @@ (r1b :> {x2}) @@ (r2 :> {x1, x2}) @@ (r3 :> {x2})
MCFirstRow ==
    (r1 :> {<<c1, x1>>}) @@ (r1b :> {<<c1, x2>>}) @@ (r2 :> {<<c1, x1>>})
    @@ (r3 :> {<<c2, x2>>})
MCOidOf == (f1 :> o1) @@ (f2 :> o1) @@ (f3 :> o3)

File(r, o) == [recipe |-> r, sha |-> o, honest |-> TRUE]
Shard(F, H) == [files |-> F, hints |-> H]

MCShards ==
    {Shard({File(r1, o1)}, {}),
     Shard({File(r1, None)}, {<<c2, x1>>}),
     Shard({File(r1b, None), File(r2, o1)}, {<<c1, x2>>}),
     Shard({File(r1b, o1), File(r3, o3)}, {}),
     Shard({File(r3, o1)}, {<<c2, x2>>, <<c2, x1>>}),
     Shard({[File(r3, o3) EXCEPT !.honest = FALSE]}, {})}

Symmetry == Permutations(Requests)
===============================================================================
