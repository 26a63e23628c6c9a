--------------------------- MODULE KeyedLocksProofs ---------------------------
(***************************************************************************)
(* Proofs about the table of per-key locks: its inductive invariant, mutual *)
(* exclusion, and that it implements one abstract lock per key, for any    *)
(* finite sets of tasks and keys.                                          *)
(***************************************************************************)
EXTENDS KeyedLocks, FiniteSetTheorems, TLAPS

-------------------------------------------------------------------------------
\* What Arc::strong_count <= 2 tells KeyedGuard::drop (state.rs:146-149): when
\* the table refers to the mutex, at most one task does.
LEMMA LastUserIsAlone ==
    ASSUME TypeOK,
           NEW m \in Mutexes, LastUser(m),
           NEW k \in Keys, map[k] = m,
           NEW t \in Tasks, arc[t] = m,
           NEW u \in Tasks, arc[u] = m
    PROVE  t = u
<1>1. SUFFICES ASSUME t # u PROVE FALSE
  OBVIOUS
<1>2. /\ IsFiniteSet(Users(m)) /\ IsFiniteSet(Entries(m))
      /\ Cardinality(Users(m)) \in Nat /\ Cardinality(Entries(m)) \in Nat
  BY TasksFinite, KeysFinite, FS_Subset, FS_CardinalityType DEF Users, Entries
<1>3. Cardinality(Entries(m)) >= 1
  <2>1. {k} \in SUBSET Entries(m)
    BY DEF Entries
  <2>2. Cardinality({k}) = 1
    BY FS_Singleton
  <2>3. Cardinality({k}) <= Cardinality(Entries(m))
    BY <1>2, <2>1, FS_Subset
  <2>4. QED
    BY <1>2, <2>2, <2>3
<1>4. Cardinality(Users(m)) >= 2
  <2>1. {t} \cup {u} \in SUBSET Users(m)
    BY DEF Users
  <2>2. IsFiniteSet({t}) /\ Cardinality({t}) = 1
    BY FS_Singleton
  <2>3. Cardinality({t} \cup {u}) = 2
    <3>1. u \notin {t}
      BY <1>1
    <3>2. Cardinality({t} \cup {u}) =
            IF u \in {t} THEN Cardinality({t}) ELSE Cardinality({t}) + 1
      BY <2>2, FS_AddElement
    <3>3. QED
      BY <2>2, <3>1, <3>2
  <2>4. Cardinality({t} \cup {u}) <= Cardinality(Users(m))
    BY <1>2, <2>1, FS_Subset
  <2>5. QED
    BY <1>2, <2>3, <2>4
<1>5. QED
  BY <1>2, <1>3, <1>4 DEF LastUser, StrongCount

LEMMA InitIInv == Init => IInv
BY NullsDistinct DEF Init, IInv, TypeOK, Referenced, CurrentMutex, OwnerExact

-------------------------------------------------------------------------------
\* One lemma per action of lock() and of the guard's drop.
LEMMA LookUpPreserves ==
    ASSUME IInv, NEW t \in Tasks, NEW k \in Keys, LookUp(t, k)
    PROVE  IInv'
<1>. USE NullsDistinct DEF IInv
<1>1. PICK m \in Mutexes :
         /\ map[k] = m \/ (map[k] = NoMutex /\ Unreferenced(m))
         /\ map' = [map EXCEPT ![k] = m]
         /\ arc' = [arc EXCEPT ![t] = m]
  BY DEF LookUp
<1>2. TypeOK'
  BY <1>1 DEF LookUp, TypeOK
<1>3. Referenced'
  BY <1>1 DEF LookUp, TypeOK, Referenced
<1>4. CurrentMutex'
  BY <1>1 DEF LookUp, TypeOK, Referenced, CurrentMutex
<1>5. OwnerExact'
  BY <1>1 DEF LookUp, TypeOK, Referenced, OwnerExact
<1>6. QED
  BY <1>2, <1>3, <1>4, <1>5

LEMMA AcquirePreserves ==
    ASSUME IInv, NEW t \in Tasks, Acquire(t)
    PROVE  IInv'
<1>. USE NullsDistinct DEF IInv, Acquire
<1>1. arc[t] \in Mutexes
  BY DEF TypeOK, Referenced
<1>2. TypeOK' /\ Referenced' /\ CurrentMutex'
  BY <1>1 DEF TypeOK, Referenced, CurrentMutex
<1>3. OwnerExact'
  BY <1>1 DEF TypeOK, Referenced, OwnerExact
<1>4. QED
  BY <1>2, <1>3

\* Only a task that has not locked its mutex drops its reference.
LEMMA LeavePreserves ==
    ASSUME IInv, NEW t \in Tasks, pc[t] \in {"cloned", "released"}, Leave(t)
    PROVE  IInv'
BY NullsDistinct DEF IInv, Leave, TypeOK, Referenced, CurrentMutex, OwnerExact

\* The entry goes only when its last holder is alone, so nobody who still waits
\* or holds loses the table's entry.
LEMMA PrunePreserves ==
    ASSUME IInv, NEW t \in Tasks, Prune(t)
    PROVE  IInv'
<1>. USE NullsDistinct DEF IInv
<1>1. /\ key[t] \in Keys /\ map[key[t]] = arc[t] /\ arc[t] \in Mutexes
      /\ pc[t] = "held"
  BY DEF Prune, TypeOK, Referenced, CurrentMutex
<1>2. TypeOK'
  BY <1>1 DEF Prune, TypeOK
<1>3. Referenced'
  BY DEF Prune, TypeOK, Referenced
<1>4. CurrentMutex'
  <2>1. SUFFICES ASSUME NEW u \in Tasks, pc'[u] \in {"cloned", "held"}
                 PROVE  key[u] \in Keys /\ map'[key[u]] = arc[u]
    BY DEF Prune, CurrentMutex
  <2>2. /\ u # t /\ pc[u] \in {"cloned", "held"}
        /\ key[u] \in Keys /\ map[key[u]] = arc[u]
    BY <2>1 DEF Prune, TypeOK, CurrentMutex
  <2>3. CASE LastUser(map[key[t]])
    <3>1. key[u] # key[t]
      BY <1>1, <2>2, <2>3, LastUserIsAlone
    <3>2. QED
      BY <1>1, <2>2, <3>1 DEF Prune, TypeOK
  <2>4. CASE ~ LastUser(map[key[t]])
    BY <2>2, <2>4 DEF Prune
  <2>5. QED
    BY <2>3, <2>4
<1>5. OwnerExact'
  BY DEF Prune, TypeOK, OwnerExact
<1>6. QED
  BY <1>2, <1>3, <1>4, <1>5

LEMMA ReleasePreserves ==
    ASSUME IInv, NEW t \in Tasks, Release(t)
    PROVE  IInv'
<1>. USE NullsDistinct DEF IInv, Release
<1>1. arc[t] \in Mutexes
  BY DEF TypeOK, Referenced
<1>2. TypeOK' /\ Referenced' /\ CurrentMutex'
  BY <1>1 DEF TypeOK, Referenced, CurrentMutex
<1>3. OwnerExact'
  BY <1>1 DEF TypeOK, Referenced, OwnerExact
<1>4. QED
  BY <1>2, <1>3

LEMMA NextPreserves ==
    ASSUME IInv, [Next]_vars
    PROVE  IInv'
<1>1. CASE UNCHANGED vars
  BY <1>1 DEF vars, IInv, TypeOK, Referenced, CurrentMutex, OwnerExact
<1>2. ASSUME NEW t \in Tasks, NEW k \in Keys, LookUp(t, k) PROVE IInv'
  BY <1>2, LookUpPreserves
<1>3. ASSUME NEW t \in Tasks, Acquire(t) PROVE IInv'
  BY <1>3, AcquirePreserves
<1>4. ASSUME NEW t \in Tasks, Prune(t) PROVE IInv'
  BY <1>4, PrunePreserves
<1>5. ASSUME NEW t \in Tasks, Release(t) PROVE IInv'
  BY <1>5, ReleasePreserves
<1>6. ASSUME NEW t \in Tasks, DropArc(t) \/ CancelWait(t) PROVE IInv'
  BY <1>6, LeavePreserves DEF DropArc, CancelWait
<1>7. QED
  BY <1>1, <1>2, <1>3, <1>4, <1>5, <1>6 DEF Next, Drop

\* The inductive invariant holds in every state, cancelled waits included.
THEOREM Invariance == Spec => []IInv
<1>1. Init => IInv
  BY InitIInv
<1>2. IInv /\ [Next]_vars => IInv'
  BY NextPreserves
<1>3. QED
  BY <1>1, <1>2, PTL DEF Spec

\* Two holders of one key hold the mutex the table shows for it, and a mutex
\* has one owner.
LEMMA IInvMutualExclusion == IInv => MutualExclusion
BY NullsDistinct
   DEF IInv, MutualExclusion, TypeOK, Referenced, CurrentMutex, OwnerExact

\* At most one task is inside the lock of a key (state.rs:108-157): what makes
\* upload's check-write-insert of one xorb hash sequential.
THEOREM Exclusion == Spec => []MutualExclusion
<1>1. IInv => MutualExclusion
  BY IInvMutualExclusion
<1>2. QED
  BY <1>1, Invariance, PTL

-------------------------------------------------------------------------------
\* The abstract holder of a key is the one task inside it.
HolderExact ==
    \A k \in Keys :
        /\ \A t \in Tasks : Inside(t, k) <=> holderBar[k] = t
        /\ (\A t \in Tasks : ~ Inside(t, k)) => holderBar[k] = NoTask

LEMMA HolderValue == IInv => HolderExact
<1>1. SUFFICES ASSUME IInv, NEW k \in Keys
               PROVE  /\ \A t \in Tasks : Inside(t, k) <=> holderBar[k] = t
                      /\ (\A t \in Tasks : ~ Inside(t, k)) => holderBar[k] = NoTask
  BY DEF HolderExact
<1>2. \A t, u \in Tasks : Inside(t, k) /\ Inside(u, k) => t = u
  BY <1>1, IInvMutualExclusion DEF MutualExclusion, Inside
<1>3. CASE \E t \in Tasks : Inside(t, k)
  <2>1. PICK t \in Tasks : Inside(t, k)
    BY <1>3
  <2>2. holderBar[k] = CHOOSE u \in Tasks : Inside(u, k)
    BY <1>3 DEF holderBar
  <2>3. /\ (CHOOSE u \in Tasks : Inside(u, k)) \in Tasks
        /\ Inside(CHOOSE u \in Tasks : Inside(u, k), k)
    BY <2>1
  <2>4. holderBar[k] = t
    BY <1>2, <2>1, <2>2, <2>3
  <2>5. QED
    BY <1>2, <2>1, <2>4
<1>4. CASE \A t \in Tasks : ~ Inside(t, k)
  BY <1>4, NullsDistinct DEF holderBar
<1>5. QED
  BY <1>3, <1>4

\* The same of the next state.
LEMMA HolderValuePrimed == IInv' => HolderExact'
BY HolderValue, PTL

LEMMA InitRefines == Init => Abstract!MutexInit
BY DEF Init, Abstract!MutexInit, wantBar, holderBar, Inside

\* What a step does to the abstract lock, from what it does to the tasks that
\* are inside a key: nobody moves, t enters k, or t leaves k.
LEMMA HolderUnchanged ==
    ASSUME IInv, IInv',
           \A u \in Tasks, k \in Keys : Inside(u, k)' <=> Inside(u, k)
    PROVE  holderBar' = holderBar
<1>1. ASSUME NEW k \in Keys
      PROVE  holderBar'[k] = holderBar[k]
  <2>1. CASE \E u \in Tasks : Inside(u, k)
    BY <2>1, HolderValue, HolderValuePrimed DEF HolderExact
  <2>2. CASE \A u \in Tasks : ~ Inside(u, k)
    BY <2>2, HolderValue, HolderValuePrimed DEF HolderExact
  <2>3. QED
    BY <2>1, <2>2
<1>2. QED
  BY <1>1 DEF holderBar

LEMMA HolderEntered ==
    ASSUME IInv, IInv', NEW t \in Tasks, NEW k \in Keys,
           Inside(t, k)',
           \A j \in Keys \ {k} : \A u \in Tasks : Inside(u, j)' <=> Inside(u, j)
    PROVE  holderBar' = [holderBar EXCEPT ![k] = t]
<1>1. holderBar'[k] = t
  BY HolderValuePrimed DEF HolderExact
<1>2. ASSUME NEW j \in Keys \ {k}
      PROVE  holderBar'[j] = holderBar[j]
  <2>1. CASE \E u \in Tasks : Inside(u, j)
    BY <2>1, HolderValue, HolderValuePrimed DEF HolderExact
  <2>2. CASE \A u \in Tasks : ~ Inside(u, j)
    BY <2>2, HolderValue, HolderValuePrimed DEF HolderExact
  <2>3. QED
    BY <2>1, <2>2
<1>3. QED
  BY <1>1, <1>2 DEF holderBar

LEMMA HolderLeft ==
    ASSUME IInv, IInv', NEW k \in Keys,
           \A u \in Tasks : ~ Inside(u, k)',
           \A j \in Keys \ {k} : \A u \in Tasks : Inside(u, j)' <=> Inside(u, j)
    PROVE  holderBar' = [holderBar EXCEPT ![k] = NoTask]
<1>1. holderBar'[k] = NoTask
  BY HolderValuePrimed DEF HolderExact
<1>2. ASSUME NEW j \in Keys \ {k}
      PROVE  holderBar'[j] = holderBar[j]
  <2>1. CASE \E u \in Tasks : Inside(u, j)
    BY <2>1, HolderValue, HolderValuePrimed DEF HolderExact
  <2>2. CASE \A u \in Tasks : ~ Inside(u, j)
    BY <2>2, HolderValue, HolderValuePrimed DEF HolderExact
  <2>3. QED
    BY <2>1, <2>2
<1>3. QED
  BY <1>1, <1>2 DEF holderBar

-------------------------------------------------------------------------------
\* Which abstract action each action is.
LEMMA LookUpRefines ==
    ASSUME IInv, IInv', NEW t \in Tasks, NEW k \in Keys, LookUp(t, k)
    PROVE  Abstract!Request(t, k)
<1>1. \A u \in Tasks, j \in Keys : Inside(u, j)' <=> Inside(u, j)
  BY DEF LookUp, Inside, IInv, TypeOK
<1>2. holderBar' = holderBar
  BY <1>1, HolderUnchanged
<1>3. wantBar' = [wantBar EXCEPT ![t] = k]
  BY DEF LookUp, wantBar, IInv, TypeOK
<1>4. wantBar[t] = NoKey
  BY DEF LookUp, wantBar
<1>5. ~ Abstract!Holds(t)
  BY HolderValue DEF HolderExact, Abstract!Holds, LookUp, Inside
<1>6. QED
  BY <1>2, <1>3, <1>4, <1>5 DEF Abstract!Request

LEMMA AcquireRefines ==
    ASSUME IInv, IInv', NEW t \in Tasks, Acquire(t)
    PROVE  Abstract!Grant(t, key[t])
<1>1. key[t] \in Keys /\ map[key[t]] = arc[t] /\ arc[t] \in Mutexes
  BY DEF IInv, TypeOK, Referenced, CurrentMutex, Acquire
<1>2. wantBar[t] = key[t]
  BY DEF Acquire, wantBar
<1>3. holderBar[key[t]] = NoTask
  <2>1. ASSUME NEW u \in Tasks, Inside(u, key[t]) PROVE FALSE
    BY <1>1, <2>1, NullsDistinct
       DEF IInv, CurrentMutex, OwnerExact, Inside, Acquire
  <2>2. QED
    BY <1>1, <2>1, HolderValue DEF HolderExact
<1>4. wantBar' = [wantBar EXCEPT ![t] = NoKey]
  BY DEF Acquire, wantBar, IInv, TypeOK
<1>5. holderBar' = [holderBar EXCEPT ![key[t]] = t]
  <2>1. Inside(t, key[t])'
    BY DEF Acquire, Inside, IInv, TypeOK
  <2>2. \A j \in Keys \ {key[t]} : \A u \in Tasks : Inside(u, j)' <=> Inside(u, j)
    BY DEF Acquire, Inside, IInv, TypeOK
  <2>3. Inside(t, key[t])' <=> pc'[t] = "held" /\ key'[t] = key[t]
    BY <2>1 DEF Inside, Acquire
  <2>4. \A kk \in Keys : kk = key[t] => Inside(t, kk)'
    BY <2>3, <2>1 DEF Inside, Acquire
  <2>5. QED
    BY <1>1, <2>2, <2>4, HolderEntered
<1>6. QED
  BY <1>2, <1>3, <1>4, <1>5 DEF Abstract!Grant

LEMMA PruneRefines ==
    ASSUME IInv, IInv', NEW t \in Tasks, Prune(t)
    PROVE  Abstract!Free(t, key[t])
<1>1. key[t] \in Keys /\ Inside(t, key[t])
  BY DEF IInv, TypeOK, CurrentMutex, Prune, Inside
<1>2. holderBar[key[t]] = t
  BY <1>1, HolderValue DEF HolderExact
<1>3. wantBar' = wantBar
  BY DEF Prune, wantBar, IInv, TypeOK
<1>4. holderBar' = [holderBar EXCEPT ![key[t]] = NoTask]
  <2>1. \A u \in Tasks, j \in Keys : Inside(u, j)' <=> u # t /\ Inside(u, j)
    BY DEF Prune, Inside, IInv, TypeOK
  <2>2. \A u \in Tasks : Inside(u, key[t]) => u = t
    BY <1>1, HolderValue DEF HolderExact
  <2>3. \A j \in Keys : Inside(t, j) => j = key[t]
    BY DEF Inside
  <2>4. QED
    BY <1>1, <2>1, <2>2, <2>3, HolderLeft
<1>5. QED
  BY <1>2, <1>3, <1>4 DEF Abstract!Free

\* Unlocking the mutex and dropping the reference are invisible.
LEMMA DropRefines ==
    ASSUME IInv, IInv', NEW t \in Tasks, Release(t) \/ DropArc(t)
    PROVE  UNCHANGED Abstract!mutexVars
<1>1. \A u \in Tasks, j \in Keys : Inside(u, j)' <=> Inside(u, j)
  BY DEF Release, DropArc, Leave, Inside, IInv, TypeOK
<1>2. holderBar' = holderBar
  BY <1>1, HolderUnchanged
<1>3. wantBar' = wantBar
  BY DEF Release, DropArc, Leave, wantBar, IInv, TypeOK
<1>4. QED
  BY <1>2, <1>3 DEF Abstract!mutexVars

LEMMA CancelWaitRefines ==
    ASSUME IInv, IInv', NEW t \in Tasks, CancelWait(t)
    PROVE  Abstract!Abandon(t)
<1>1. \A u \in Tasks, j \in Keys : Inside(u, j)' <=> Inside(u, j)
  BY DEF CancelWait, Leave, Inside, IInv, TypeOK
<1>2. holderBar' = holderBar
  BY <1>1, HolderUnchanged
<1>3. wantBar' = [wantBar EXCEPT ![t] = NoKey]
  BY DEF CancelWait, Leave, wantBar, IInv, TypeOK
<1>4. wantBar[t] # NoKey
  BY NullsDistinct DEF CancelWait, wantBar, IInv, CurrentMutex
<1>5. QED
  BY <1>2, <1>3, <1>4 DEF Abstract!Abandon

LEMMA StepRefines ==
    ASSUME IInv, IInv', [Next]_vars
    PROVE  [Abstract!MutexNext]_(Abstract!mutexVars)
<1>1. CASE UNCHANGED vars
  <2>1. \A u \in Tasks, j \in Keys : Inside(u, j)' <=> Inside(u, j)
    BY <1>1 DEF vars, Inside
  <2>2. wantBar' = wantBar
    BY <1>1 DEF vars, wantBar
  <2>3. QED
    BY <2>1, <2>2, HolderUnchanged DEF Abstract!mutexVars
<1>2. ASSUME NEW t \in Tasks, NEW k \in Keys, LookUp(t, k)
      PROVE  Abstract!MutexNext
  BY <1>2, LookUpRefines DEF Abstract!MutexNext
<1>3. ASSUME NEW t \in Tasks, Acquire(t)
      PROVE  Abstract!MutexNext
  BY <1>3, AcquireRefines DEF Abstract!MutexNext, Acquire, IInv, CurrentMutex
<1>4. ASSUME NEW t \in Tasks, Prune(t)
      PROVE  Abstract!MutexNext
  BY <1>4, PruneRefines DEF Abstract!MutexNext, Prune, IInv, CurrentMutex
<1>5. ASSUME NEW t \in Tasks, Release(t) \/ DropArc(t)
      PROVE  UNCHANGED Abstract!mutexVars
  BY <1>5, DropRefines
<1>6. ASSUME NEW t \in Tasks, CancelWait(t)
      PROVE  Abstract!MutexNext
  BY <1>6, CancelWaitRefines DEF Abstract!MutexNext
<1>7. QED
  BY <1>1, <1>2, <1>3, <1>4, <1>5, <1>6 DEF Next, Drop

\* The table of reference-counted mutexes, with its pruning and its cancelled
\* waits, implements one lock per key (KeyedMutex): the lock that XorbUpload
\* takes around check, write and insert.
THEOREM Refinement == Spec => ImplementsKeyedMutex
<1>1. Init => Abstract!MutexInit
  BY InitRefines
<1>2. IInv /\ IInv' /\ [Next]_vars => [Abstract!MutexNext]_(Abstract!mutexVars)
  BY StepRefines
<1>3. QED
  BY <1>1, <1>2, Invariance, PTL
     DEF Spec, ImplementsKeyedMutex, Abstract!MutexSpec
===============================================================================
