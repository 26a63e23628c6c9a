------------------------------ MODULE KeyedLocks ------------------------------
(***************************************************************************)
(* The table of per-key async locks that serialises uploads of one xorb    *)
(* hash (state.rs).  The table maps a key to a reference-counted mutex and *)
(* a guard's Drop removes the entry when the count says nobody else uses   *)
(* it.  The std mutex around the table makes LookUp and Prune atomic; the  *)
(* steps of a guard's drop are separate, because another thread runs       *)
(* between them: prune, release the mutex, drop the guard's reference.     *)
(* A definition Mut_X is X with a plausible bug in it: no specification    *)
(* uses it, and a property of this module fails when it stands for X.      *)
(***************************************************************************)
EXTENDS Naturals, FiniteSets

CONSTANTS Tasks, Keys,
          Mutexes,               \* the mutex objects that can be allocated
          NoMutex, NoKey, NoTask

ASSUME TasksFinite == IsFiniteSet(Tasks)
ASSUME KeysFinite == IsFiniteSet(Keys)
ASSUME NullsDistinct ==
    NoMutex \notin Mutexes /\ NoKey \notin Keys /\ NoTask \notin Tasks

VARIABLES pc,      \* pc[t]: where t is in lock() or in the guard's drop
          key,     \* key[t]: the key of t's lock() call
          arc,     \* arc[t]: the mutex t holds a reference to
          map,     \* map[k]: the table's entry for k
          owner    \* owner[m]: the task that has m locked

vars == <<pc, key, arc, map, owner>>

TypeOK ==
    /\ pc \in [Tasks -> {"idle", "cloned", "held", "pruned", "released"}]
    /\ key \in [Tasks -> Keys \cup {NoKey}]
    /\ arc \in [Tasks -> Mutexes \cup {NoMutex}]
    /\ map \in [Keys -> Mutexes \cup {NoMutex}]
    /\ owner \in [Mutexes -> Tasks \cup {NoTask}]

Init ==
    /\ pc = [t \in Tasks |-> "idle"]
    /\ key = [t \in Tasks |-> NoKey]
    /\ arc = [t \in Tasks |-> NoMutex]
    /\ map = [k \in Keys |-> NoMutex]
    /\ owner = [m \in Mutexes |-> NoTask]

Users(m) == {t \in Tasks : arc[t] = m}
Entries(m) == {k \in Keys : map[k] = m}

\* Arc::strong_count: the table's reference and one per task.
StrongCount(m) == Cardinality(Entries(m)) + Cardinality(Users(m))

\* "Exactly two means no other task references this key."
Mut_LastUser(m) == StrongCount(m) <= 3
LastUser(m) == StrongCount(m) <= 2

Unreferenced(m) == Entries(m) = {} /\ Users(m) = {}

\* A lookup that inserts a new mutex even when the key has one.
Mut_LookUp(t, k) ==
    /\ pc[t] = "idle"
    /\ \E m \in Mutexes :
          /\ Unreferenced(m)
          /\ map' = [map EXCEPT ![k] = m]
          /\ arc' = [arc EXCEPT ![t] = m]
    /\ pc' = [pc EXCEPT ![t] = "cloned"]
    /\ key' = [key EXCEPT ![t] = k]
    /\ UNCHANGED owner

\* lock(), under the table's std mutex: clone the entry's Arc, inserting a new
\* mutex when there is none.
LookUp(t, k) ==
    /\ pc[t] = "idle"
    /\ \E m \in Mutexes :
          /\ \/ map[k] = m
             \/ map[k] = NoMutex /\ Unreferenced(m)
          /\ map' = [map EXCEPT ![k] = m]
          /\ arc' = [arc EXCEPT ![t] = m]
    /\ pc' = [pc EXCEPT ![t] = "cloned"]
    /\ key' = [key EXCEPT ![t] = k]
    /\ UNCHANGED owner

\* lock_owned().await completes.
Acquire(t) ==
    /\ pc[t] = "cloned"
    /\ owner[arc[t]] = NoTask
    /\ owner' = [owner EXCEPT ![arc[t]] = t]
    /\ pc' = [pc EXCEPT ![t] = "held"]
    /\ UNCHANGED <<key, arc, map>>

\* The task leaves: its Arc goes and it is idle again.
Leave(t) ==
    /\ arc' = [arc EXCEPT ![t] = NoMutex]
    /\ key' = [key EXCEPT ![t] = NoKey]
    /\ pc' = [pc EXCEPT ![t] = "idle"]
    /\ UNCHANGED <<map, owner>>

\* The waiting future is dropped (its client went away) before the mutex is
\* granted: the clone is dropped and no KeyedGuard ever exists.
CancelWait(t) == pc[t] = "cloned" /\ Leave(t)

\* KeyedGuard::drop, under the table's std mutex.
Prune(t) ==
    /\ pc[t] = "held"
    /\ LET k == key[t] IN
       map' = IF map[k] # NoMutex /\ LastUser(map[k])
                THEN [map EXCEPT ![k] = NoMutex]
                ELSE map
    /\ pc' = [pc EXCEPT ![t] = "pruned"]
    /\ UNCHANGED <<key, arc, owner>>

\* A guard whose mutex is never unlocked.
Mut_Release(t) ==
    /\ pc[t] = "pruned"
    /\ pc' = [pc EXCEPT ![t] = "released"]
    /\ UNCHANGED <<key, arc, map, owner>>

\* The fields drop next: OwnedMutexGuard first unlocks the mutex ...
Release(t) ==
    /\ pc[t] = "pruned"
    /\ owner' = [owner EXCEPT ![arc[t]] = NoTask]
    /\ pc' = [pc EXCEPT ![t] = "released"]
    /\ UNCHANGED <<key, arc, map>>

\* ... and only then drops its Arc.
DropArc(t) == pc[t] = "released" /\ Leave(t)

Drop(t) == Prune(t) \/ Release(t) \/ DropArc(t)

Next ==
    \E t \in Tasks :
        Acquire(t) \/ Drop(t) \/ CancelWait(t) \/ \E k \in Keys : LookUp(t, k)

Spec == Init /\ [][Next]_vars

\* A guard is dropped when its upload ends, and a drop once begun is finished.
\* A tokio mutex is granted in the order of the waiters, so a waiter is not
\* overtaken for ever: strong fairness of Acquire.
FairSpec ==
    /\ Spec
    /\ \A t \in Tasks : WF_vars(Drop(t)) /\ SF_vars(Acquire(t))

-------------------------------------------------------------------------------
\* No two tasks are inside the lock of one key, although the entry of a key can
\* be removed and a new mutex inserted while its last holder is still dropping.
MutualExclusion ==
    \A t, u \in Tasks :
        pc[t] = "held" /\ pc[u] = "held" /\ key[t] = key[u] => t = u

\* Whoever waits or holds got the mutex that the table shows for the key now,
\* so a later task can never be sent to another mutex of the same key
\* (CurrentMutex); a mutex is locked by just the task that has yet to unlock it.
Referenced == \A t \in Tasks : (pc[t] = "idle") <=> (arc[t] = NoMutex)
CurrentMutex ==
    \A t \in Tasks :
        pc[t] \in {"cloned", "held"} =>
            /\ key[t] \in Keys
            /\ map[key[t]] = arc[t]
OwnerExact ==
    \A t \in Tasks, m \in Mutexes :
        owner[m] = t <=> arc[t] = m /\ pc[t] \in {"held", "pruned"}

IInv == TypeOK /\ Referenced /\ CurrentMutex /\ OwnerExact

\* The table of locks is one abstract lock per key.  The lock is free, for the
\* abstraction, from the moment the guard's drop begins.
wantBar == [t \in Tasks |-> IF pc[t] = "cloned" THEN key[t] ELSE NoKey]
Inside(t, k) == pc[t] = "held" /\ key[t] = k
holderBar ==
    [k \in Keys |-> IF \E t \in Tasks : Inside(t, k)
                      THEN CHOOSE t \in Tasks : Inside(t, k)
                      ELSE NoTask]
Abstract == INSTANCE KeyedMutex WITH want <- wantBar, holder <- holderBar
ImplementsKeyedMutex == Abstract!MutexSpec

\* Every waiter gets the lock or stops waiting, whatever the order in which the
\* other tasks look the key up, prune its entry and drop their references.
WaiterServed == \A t \in Tasks : pc[t] = "cloned" ~> pc[t] # "cloned"
===============================================================================
