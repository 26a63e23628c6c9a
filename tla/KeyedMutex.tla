------------------------------ MODULE KeyedMutex ------------------------------
(***************************************************************************)
(* What a map of per-key locks promises the tasks that use it: a task asks *)
(* for one key at a time, at most one task is inside a key, and a task     *)
(* that asked may stop waiting.  KeyedLocks implements it; XorbUpload uses *)
(* it as its lock.                                                         *)
(***************************************************************************)
CONSTANTS Tasks,     \* the tasks that lock
          Keys,      \* what they lock
          NoKey,     \* a task that is not waiting
          NoTask     \* a key nobody is inside

VARIABLES want,      \* want[t]: the key t waits for, or NoKey
          holder     \* holder[k]: the task inside k, or NoTask

mutexVars == <<want, holder>>

MutexTypeOK ==
    /\ want \in [Tasks -> Keys \cup {NoKey}]
    /\ holder \in [Keys -> Tasks \cup {NoTask}]

MutexInit ==
    /\ want = [t \in Tasks |-> NoKey]
    /\ holder = [k \in Keys |-> NoTask]

Holds(t) == \E k \in Keys : holder[k] = t

Request(t, k) ==
    /\ want[t] = NoKey
    /\ ~ Holds(t)
    /\ want' = [want EXCEPT ![t] = k]
    /\ UNCHANGED holder

Grant(t, k) ==
    /\ want[t] = k
    /\ holder[k] = NoTask
    /\ want' = [want EXCEPT ![t] = NoKey]
    /\ holder' = [holder EXCEPT ![k] = t]

Free(t, k) ==
    /\ holder[k] = t
    /\ holder' = [holder EXCEPT ![k] = NoTask]
    /\ UNCHANGED want

Abandon(t) ==
    /\ want[t] # NoKey
    /\ want' = [want EXCEPT ![t] = NoKey]
    /\ UNCHANGED holder

MutexNext ==
    \E t \in Tasks :
        \/ Abandon(t)
        \/ \E k \in Keys : Request(t, k) \/ Grant(t, k) \/ Free(t, k)

MutexSpec == MutexInit /\ [][MutexNext]_mutexVars
===============================================================================
