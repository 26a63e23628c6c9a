------------------------------ MODULE StoredXorbs ------------------------------
(***************************************************************************)
(* What the object store and the index promise together (xorbstore.rs and  *)
(* index.rs, as routes/xorbs.rs uses them): an object is there whole or    *)
(* not at all, and a record is inserted only for one that is there.  None  *)
(* ever goes away, but a power loss may take those that have no record or  *)
(* are at risk.                                                            *)
(***************************************************************************)
CONSTANT Objects

VARIABLES stored,    \* objects that a reader finds, whole
          indexed,   \* objects with a record
          atRisk     \* objects below a directory taken for durable that was not

storedVars == <<stored, indexed, atRisk>>

StoredInit == stored = {} /\ indexed = {} /\ atRisk = {}

Write(h) ==
    /\ stored' = stored \cup {h}
    /\ UNCHANGED <<indexed, atRisk>>

Index(h) ==
    /\ h \in stored
    /\ indexed' = indexed \cup {h}
    /\ UNCHANGED <<stored, atRisk>>

Overlook ==
    /\ atRisk \subseteq atRisk'
    /\ UNCHANGED <<stored, indexed>>

LosePower ==
    /\ stored' \subseteq stored
    /\ indexed \ atRisk \subseteq stored'
    /\ UNCHANGED <<indexed, atRisk>>

StoredNext ==
    \/ \E h \in Objects : Write(h) \/ Index(h)
    \/ Overlook \/ LosePower

StoredSpec == StoredInit /\ [][StoredNext]_storedVars
===============================================================================
