------------------------------ MODULE MCLfsBridge -----------------------------
(***************************************************************************)
(* An instance of LfsBridge for TLC, over the xorbs, files and shards of   *)
(* MCRegistry: a push with and without git-xet, a clone through a proxy    *)
(* and one without, and a batch the validator refuses; probes for both     *)
(* chunks and one that is refused.                                         *)
(***************************************************************************)
EXTENDS LfsBridge, MCRegistry

CONSTANT basic

Batch(operation, transfers, oids, authorization, proxied) ==
    [operation |-> operation, hash_algo |-> "sha256", transfers |-> transfers,
     objects |-> [i \in DOMAIN oids |-> [oid |-> oids[i]]],
     authorization |-> authorization, proxied |-> proxied]

MCBatches ==
    {Batch("upload", {"basic", "xet"}, <<o1, o3>>, basic, TRUE),
     Batch("upload", {"basic"}, <<o1>>, Empty, FALSE),
     Batch("download", {"basic", "xet"}, <<o3, o1>>, basic, TRUE),
     Batch("download", {"basic"}, <<o1>>, Empty, FALSE),
     Batch("download", {"basic"}, <<o1, Empty>>, None, FALSE)}

MCQueries == {[prefix |-> "default", hash |-> h] : h \in {c1, c2, Empty}}
===============================================================================
