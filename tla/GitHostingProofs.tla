---------------------------- MODULE GitHostingProofs ---------------------------
(***************************************************************************)
(* For any number of requests and repositories: IInv is an invariant of    *)
(* GitHosting, and GitHosting implements RepoHosting.                      *)
(***************************************************************************)
EXTENDS GitHosting, FiniteSetTheorems, TLAPS

CoreInv == TypeOK /\ LockOK /\ BuildOK /\ PlaceOK /\ ServeOK

LEMMA InitIInv == Init => IInv
<1>. SUFFICES ASSUME Init PROVE IInv
  OBVIOUS
<1>1. TypeOK
  BY DEF Init, TypeOK, Lock!MutexTypeOK, Lock!MutexInit
<1>2. \A r \in Repos : repo[r] \notin Requests
  BY NamesAssumption DEF Init
<1>3. LockOK /\ BuildOK /\ PlaceOK /\ ServeOK
  BY <1>2, NamesAssumption DEF Init, Lock!MutexInit, LockOK, BuildOK, PlaceOK, ServeOK, Alive
<1>4. Uncounted = {} /\ Placed = {}
  BY <1>2 DEF Init, Uncounted, Placed
<1>5. CountOK
  BY <1>4, FS_EmptySet DEF Init, CountOK
<1>6. CauseOK
  BY DEF Init, CauseOK, CauseOf
<1>7. QED
  BY <1>1, <1>3, <1>5, <1>6 DEF IInv

LEMMA HandlerStep ==
    ASSUME CoreInv, NEW q \in Requests, Arrive(q) \/ TakeLock(q) \/ Handler(q)
    PROVE  CoreInv'
<1>. USE NamesAssumption DEF CoreInv, GoTo, Unlock, lockVars, diskVars
<1>1. CASE Arrive(q)
  <2>1. TypeOK'
    BY <1>1 DEF Arrive, TypeOK, Lock!MutexTypeOK
  <2>2. LockOK'
    BY <1>1 DEF Arrive, TypeOK, Lock!MutexTypeOK, LockOK, BuildOK, Alive
  <2>3. BuildOK'
    BY <1>1 DEF Arrive, TypeOK, LockOK, BuildOK, PlaceOK, Alive
  <2>4. PlaceOK' /\ ServeOK'
    BY <1>1 DEF Arrive, TypeOK, LockOK, BuildOK, PlaceOK, ServeOK, Alive
  <2>5. QED
    BY <2>1, <2>2, <2>3, <2>4
<1>2. CASE TakeLock(q)
  <2>1. TypeOK'
    BY <1>2 DEF TakeLock, TypeOK, Lock!MutexTypeOK, Lock!Grant
  <2>2. LockOK'
    BY <1>2 DEF TakeLock, TypeOK, Lock!MutexTypeOK, LockOK, BuildOK, Alive, Lock!Grant
  <2>3. BuildOK'
    BY <1>2 DEF TakeLock, TypeOK, LockOK, BuildOK, PlaceOK, Alive, Lock!Grant
  <2>4. PlaceOK' /\ ServeOK'
    BY <1>2 DEF TakeLock, TypeOK, LockOK, BuildOK, PlaceOK, ServeOK, Alive, Lock!Grant
  <2>5. QED
    BY <2>1, <2>2, <2>3, <2>4
<1>3. CASE FindsReady(q)
  <2>1. TypeOK'
    BY <1>3 DEF FindsReady, TypeOK, Lock!MutexTypeOK, Ready
  <2>2. LockOK'
    BY <1>3 DEF FindsReady, TypeOK, Lock!MutexTypeOK, LockOK, BuildOK, Alive, Ready
  <2>3. BuildOK'
    BY <1>3 DEF FindsReady, TypeOK, LockOK, BuildOK, PlaceOK, Alive, Ready
  <2>4. PlaceOK' /\ ServeOK'
    BY <1>3 DEF FindsReady, TypeOK, LockOK, BuildOK, PlaceOK, ServeOK, Alive, Ready
  <2>5. QED
    BY <2>1, <2>2, <2>3, <2>4
<1>4. CASE RequestLock(q)
  <2>1. TypeOK'
    BY <1>4 DEF RequestLock, TypeOK, Lock!MutexTypeOK, Lock!Request,
       Lock!Holds
  <2>2. LockOK'
    BY <1>4 DEF RequestLock, TypeOK, Lock!MutexTypeOK, LockOK, BuildOK, Alive, Lock!Request,
       Lock!Holds
  <2>3. BuildOK'
    BY <1>4 DEF RequestLock, TypeOK, LockOK, BuildOK, PlaceOK, Alive, Lock!Request,
       Lock!Holds
  <2>4. PlaceOK' /\ ServeOK'
    BY <1>4 DEF RequestLock, TypeOK, LockOK, BuildOK, PlaceOK, ServeOK, Alive, Lock!Request,
       Lock!Holds
  <2>5. QED
    BY <2>1, <2>2, <2>3, <2>4
<1>5. CASE StartBuild(q)
  <2>1. TypeOK'
    BY <1>5 DEF StartBuild, TypeOK, Lock!MutexTypeOK, Jobs
  <2>2. LockOK'
    BY <1>5 DEF StartBuild, TypeOK, Lock!MutexTypeOK, LockOK, BuildOK, Alive
  <2>3. BuildOK'
    BY <1>5 DEF StartBuild, TypeOK, LockOK, BuildOK, PlaceOK, Alive
  <2>4. PlaceOK' /\ ServeOK'
    BY <1>5 DEF StartBuild, TypeOK, LockOK, BuildOK, PlaceOK, ServeOK, Alive
  <2>5. QED
    BY <2>1, <2>2, <2>3, <2>4
<1>6. CASE NotFound(q)
  <2>1. TypeOK'
    BY <1>6 DEF NotFound, TypeOK, Lock!MutexTypeOK, End
  <2>2. LockOK'
    BY <1>6 DEF NotFound, TypeOK, Lock!MutexTypeOK, LockOK, BuildOK, Alive, End
  <2>3. BuildOK'
    BY <1>6 DEF NotFound, TypeOK, LockOK, BuildOK, PlaceOK, Alive, End
  <2>4. PlaceOK' /\ ServeOK'
    BY <1>6 DEF NotFound, TypeOK, LockOK, BuildOK, PlaceOK, ServeOK, Alive, End
  <2>5. QED
    BY <2>1, <2>2, <2>3, <2>4
<1>7. CASE Created(q)
  <2>1. TypeOK'
    BY <1>7 DEF Created, TypeOK, Lock!MutexTypeOK
  <2>2. LockOK'
    BY <1>7 DEF Created, TypeOK, Lock!MutexTypeOK, LockOK, BuildOK, Alive
  <2>3. BuildOK'
    BY <1>7 DEF Created, TypeOK, LockOK, BuildOK, PlaceOK, Alive
  <2>4. PlaceOK' /\ ServeOK'
    BY <1>7 DEF Created, TypeOK, LockOK, BuildOK, PlaceOK, ServeOK, Alive
  <2>5. QED
    BY <2>1, <2>2, <2>3, <2>4
<1>8. CASE GiveUp(q)
  <2>1. TypeOK'
    BY <1>8 DEF GiveUp, TypeOK, Lock!MutexTypeOK, End
  <2>2. LockOK'
    BY <1>8 DEF GiveUp, TypeOK, Lock!MutexTypeOK, LockOK, BuildOK, Alive, End
  <2>3. BuildOK'
    BY <1>8 DEF GiveUp, TypeOK, LockOK, BuildOK, PlaceOK, Alive, End
  <2>4. PlaceOK' /\ ServeOK'
    BY <1>8 DEF GiveUp, TypeOK, LockOK, BuildOK, PlaceOK, ServeOK, Alive, End
  <2>5. QED
    BY <2>1, <2>2, <2>3, <2>4
<1>9. CASE Serve(q)
  <2>1. TypeOK'
    BY <1>9 DEF Serve, TypeOK, Lock!MutexTypeOK, End
  <2>2. LockOK'
    BY <1>9 DEF Serve, TypeOK, Lock!MutexTypeOK, LockOK, BuildOK, Alive, End
  <2>3. BuildOK'
    BY <1>9 DEF Serve, TypeOK, LockOK, BuildOK, PlaceOK, Alive, End
  <2>4. PlaceOK' /\ ServeOK'
    BY <1>9 DEF Serve, TypeOK, LockOK, BuildOK, PlaceOK, ServeOK, Alive, End
  <2>5. QED
    BY <2>1, <2>2, <2>3, <2>4
<1>10. CASE LookFails(q)
  <2>1. TypeOK'
    BY <1>10 DEF LookFails, TypeOK, Lock!MutexTypeOK, End
  <2>2. LockOK'
    BY <1>10 DEF LookFails, TypeOK, Lock!MutexTypeOK, LockOK, BuildOK, Alive, End
  <2>3. BuildOK'
    BY <1>10 DEF LookFails, TypeOK, LockOK, BuildOK, PlaceOK, Alive, End
  <2>4. PlaceOK' /\ ServeOK'
    BY <1>10 DEF LookFails, TypeOK, LockOK, BuildOK, PlaceOK, ServeOK, Alive, End
  <2>5. QED
    BY <2>1, <2>2, <2>3, <2>4
<1>11. QED
  BY <1>1, <1>2, <1>3, <1>4, <1>5, <1>6, <1>7, <1>8, <1>9, <1>10 DEF Handler

LEMMA JobStep ==
    ASSUME CoreInv, NEW q \in Requests, Job(q) \/ Disconnect(q)
    PROVE  CoreInv'
<1>. USE NamesAssumption DEF CoreInv, GoTo, Unlock, lockVars, diskVars, Then, jobFrame, Jobs
<1>1. CASE Mkdir(q)
  <2>1. TypeOK'
    BY <1>1 DEF Mkdir, TypeOK, Lock!MutexTypeOK
  <2>2. LockOK'
    BY <1>1 DEF Mkdir, TypeOK, Lock!MutexTypeOK, LockOK, BuildOK, Alive
  <2>3. BuildOK'
    BY <1>1 DEF Mkdir, TypeOK, LockOK, BuildOK, PlaceOK, Alive
  <2>4. PlaceOK' /\ ServeOK'
    BY <1>1 DEF Mkdir, TypeOK, LockOK, BuildOK, PlaceOK, ServeOK, Alive
  <2>5. QED
    BY <2>1, <2>2, <2>3, <2>4
<1>2. CASE MkdirFails(q)
  <2>1. TypeOK'
    BY <1>2 DEF MkdirFails, TypeOK, Lock!MutexTypeOK, End, Jobs
  <2>2. LockOK'
    BY <1>2 DEF MkdirFails, TypeOK, Lock!MutexTypeOK, LockOK, BuildOK, Alive, End, Jobs
  <2>3. BuildOK'
    BY <1>2 DEF MkdirFails, TypeOK, LockOK, BuildOK, PlaceOK, Alive, End, Jobs
  <2>4. PlaceOK' /\ ServeOK'
    BY <1>2 DEF MkdirFails, TypeOK, LockOK, BuildOK, PlaceOK, ServeOK, Alive, End, Jobs
  <2>5. QED
    BY <2>1, <2>2, <2>3, <2>4
<1>3. CASE GitInit(q)
  <2>1. TypeOK'
    BY <1>3 DEF GitInit, TypeOK, Lock!MutexTypeOK
  <2>2. LockOK'
    BY <1>3 DEF GitInit, TypeOK, Lock!MutexTypeOK, LockOK, BuildOK, Alive
  <2>3. BuildOK'
    BY <1>3 DEF GitInit, TypeOK, LockOK, BuildOK, PlaceOK, Alive
  <2>4. PlaceOK' /\ ServeOK'
    BY <1>3 DEF GitInit, TypeOK, LockOK, BuildOK, PlaceOK, ServeOK, Alive
  <2>5. QED
    BY <2>1, <2>2, <2>3, <2>4
<1>4. CASE GitConfig(q)
  <2>1. TypeOK'
    BY <1>4 DEF GitConfig, TypeOK, Lock!MutexTypeOK
  <2>2. LockOK'
    BY <1>4 DEF GitConfig, TypeOK, Lock!MutexTypeOK, LockOK, BuildOK, Alive
  <2>3. BuildOK'
    BY <1>4 DEF GitConfig, TypeOK, LockOK, BuildOK, PlaceOK, Alive
  <2>4. PlaceOK' /\ ServeOK'
    BY <1>4 DEF GitConfig, TypeOK, LockOK, BuildOK, PlaceOK, ServeOK, Alive
  <2>5. QED
    BY <2>1, <2>2, <2>3, <2>4
<1>5. CASE Rename(q)
  <2>1. TypeOK'
    BY <1>5 DEF Rename, TypeOK, Lock!MutexTypeOK, Leftovers
  <2>2. LockOK'
    BY <1>5 DEF Rename, TypeOK, Lock!MutexTypeOK, LockOK, BuildOK, Alive, Leftovers
  <2>3. BuildOK'
    BY <1>5 DEF Rename, TypeOK, LockOK, BuildOK, PlaceOK, Alive, Leftovers
  <2>4. PlaceOK' /\ ServeOK'
    BY <1>5 DEF Rename, TypeOK, LockOK, BuildOK, PlaceOK, ServeOK, Alive, Leftovers
  <2>5. QED
    BY <2>1, <2>2, <2>3, <2>4
<1>6. CASE BuildFails(q)
  <2>1. TypeOK'
    BY <1>6 DEF BuildFails, Break, TypeOK, Lock!MutexTypeOK
  <2>2. LockOK'
    BY <1>6 DEF BuildFails, Break, TypeOK, Lock!MutexTypeOK, LockOK, BuildOK, Alive
  <2>3. BuildOK'
    BY <1>6 DEF BuildFails, Break, TypeOK, LockOK, BuildOK, PlaceOK, Alive
  <2>4. PlaceOK' /\ ServeOK'
    BY <1>6 DEF BuildFails, Break, TypeOK, LockOK, BuildOK, PlaceOK, ServeOK, Alive
  <2>5. QED
    BY <2>1, <2>2, <2>3, <2>4
<1>7. CASE Remove(q)
  <2>1. TypeOK'
    BY <1>7 DEF Remove, TypeOK, Lock!MutexTypeOK
  <2>2. LockOK'
    BY <1>7 DEF Remove, TypeOK, Lock!MutexTypeOK, LockOK, BuildOK, Alive
  <2>3. BuildOK'
    BY <1>7 DEF Remove, TypeOK, LockOK, BuildOK, PlaceOK, Alive
  <2>4. PlaceOK' /\ ServeOK'
    BY <1>7 DEF Remove, TypeOK, LockOK, BuildOK, PlaceOK, ServeOK, Alive
  <2>5. QED
    BY <2>1, <2>2, <2>3, <2>4
<1>8. CASE Disconnect(q)
  <2>1. TypeOK'
    BY <1>8 DEF Disconnect, TypeOK, Lock!MutexTypeOK, End, Jobs
  <2>2. LockOK'
    BY <1>8 DEF Disconnect, TypeOK, Lock!MutexTypeOK, LockOK, BuildOK, Alive, End, Jobs
  <2>3. BuildOK'
    BY <1>8 DEF Disconnect, TypeOK, LockOK, BuildOK, PlaceOK, Alive, End, Jobs
  <2>4. PlaceOK' /\ ServeOK'
    BY <1>8 DEF Disconnect, TypeOK, LockOK, BuildOK, PlaceOK, ServeOK, Alive, End, Jobs
  <2>5. QED
    BY <2>1, <2>2, <2>3, <2>4
<1>9. CASE RenameBlocked(q)
  <2>1. TypeOK'
    BY <1>9 DEF RenameBlocked, TypeOK, Lock!MutexTypeOK, Break
  <2>2. LockOK'
    BY <1>9 DEF RenameBlocked, TypeOK, Lock!MutexTypeOK, LockOK, BuildOK, Alive, Break
  <2>3. BuildOK'
    BY <1>9 DEF RenameBlocked, TypeOK, LockOK, BuildOK, PlaceOK, Alive, Break
  <2>4. PlaceOK' /\ ServeOK'
    BY <1>9 DEF RenameBlocked, TypeOK, LockOK, BuildOK, PlaceOK, ServeOK, Alive, Break
  <2>5. QED
    BY <2>1, <2>2, <2>3, <2>4
<1>10. QED
  BY <1>1, <1>2, <1>3, <1>4, <1>5, <1>6, <1>7, <1>8, <1>9 DEF Job

LEMMA KillStep ==
    ASSUME CoreInv, Kill \/ UNCHANGED vars
    PROVE  CoreInv'
<1>. USE NamesAssumption DEF CoreInv
<1>1. CASE Kill
  <2>. USE <1>1 DEF Kill, diskVars
  <2>1. TypeOK'
    BY DEF TypeOK, Lock!MutexTypeOK
  <2>2. LockOK'
    BY DEF TypeOK, LockOK, Alive
  <2>3. BuildOK' /\ PlaceOK' /\ ServeOK'
    BY DEF TypeOK, BuildOK, PlaceOK, ServeOK, Alive
  <2>4. QED
    BY <2>1, <2>2, <2>3
<1>2. CASE UNCHANGED vars
  BY <1>2 DEF vars, TypeOK, Lock!MutexTypeOK, LockOK, BuildOK, PlaceOK, ServeOK, Alive
<1>3. QED
  BY <1>1, <1>2

-------------------------------------------------------------------------------
(* The counter.                                                            *)

LEMMA Finite ==
    /\ IsFiniteSet(Placed) /\ IsFiniteSet(Uncounted)
    /\ Cardinality(Placed) \in Nat /\ Cardinality(Uncounted) \in Nat
<1>1. IsFiniteSet(Placed) /\ IsFiniteSet(Uncounted)
  BY NamesAssumption, FS_Subset DEF Placed, Uncounted
<1>2. QED
  BY <1>1, FS_CardinalityType

\* A step that counts nothing and takes no repository away.
LEMMA CountKept ==
    ASSUME CountOK, created \in Nat, created' = created,
           Uncounted' \subseteq Uncounted, Placed' = Placed
    PROVE  CountOK'
<1>1. Cardinality(Uncounted') <= Cardinality(Uncounted) /\ IsFiniteSet(Uncounted')
  BY Finite, FS_Subset
<1>2. Cardinality(Uncounted') \in Nat /\ Cardinality(Placed') = Cardinality(Placed)
  BY <1>1, FS_CardinalityType
<1>3. QED
  BY <1>1, <1>2, Finite DEF CountOK

LEMMA CountRename ==
    ASSUME CoreInv, CountOK, NEW q \in Requests, Rename(q)
    PROVE  CountOK'
<1>1. target[q] \in Repos \ Placed /\ q \notin Uncounted
  BY NamesAssumption DEF Rename, CoreInv, LockOK, Placed, Uncounted, Leftovers
<1>2. Placed' = Placed \cup {target[q]}
  BY <1>1 DEF Rename, CoreInv, TypeOK, Placed
<1>3. Uncounted' \subseteq Uncounted \cup {q}
  BY DEF Rename, Then, CoreInv, TypeOK, Uncounted
<1>4. Cardinality(Placed') = Cardinality(Placed) + 1
  BY <1>1, <1>2, Finite, FS_AddElement
<1>5. /\ IsFiniteSet(Uncounted \cup {q})
      /\ Cardinality(Uncounted \cup {q}) = Cardinality(Uncounted) + 1
  BY <1>1, Finite, FS_AddElement
<1>6. IsFiniteSet(Uncounted') /\ Cardinality(Uncounted') <= Cardinality(Uncounted) + 1
  BY <1>3, <1>5, FS_Subset
<1>7. Cardinality(Uncounted') \in Nat
  BY <1>6, FS_CardinalityType
<1>8. created' = created /\ created \in Nat
  BY DEF Rename, jobFrame, CoreInv, TypeOK
<1>9. QED
  BY <1>4, <1>6, <1>7, <1>8, Finite DEF CountOK

LEMMA CountCreated ==
    ASSUME CoreInv, CountOK, NEW q \in Requests, Created(q)
    PROVE  CountOK'
<1>1. q \in Uncounted /\ created' = created + 1 /\ created \in Nat
  BY DEF Created, Uncounted, CoreInv, TypeOK
<1>2. Uncounted' = Uncounted \ {q} /\ Placed' = Placed
  BY DEF Created, diskVars, CoreInv, TypeOK, Uncounted, Placed
<1>3. Cardinality(Uncounted') = Cardinality(Uncounted) - 1
  BY <1>1, <1>2, Finite, FS_RemoveElement
<1>4. QED
  BY <1>1, <1>2, <1>3, Finite DEF CountOK

LEMMA StepCount ==
    ASSUME CoreInv, CountOK, [Next]_vars
    PROVE  CountOK'
<1>. USE DEF lockVars, diskVars, jobFrame, Then, Break
<1>1. created \in Nat
  BY DEF CoreInv, TypeOK
<1>2. ASSUME NEW q \in Requests,
             \/ Arrive(q) \/ TakeLock(q) \/ FindsReady(q) \/ RequestLock(q)
             \/ StartBuild(q) \/ NotFound(q) \/ GiveUp(q) \/ LookFails(q) \/ Serve(q)
      PROVE  CountOK'
  <2>1. created' = created /\ Placed' = Placed /\ Uncounted' \subseteq Uncounted
    BY <1>2 DEF Arrive, TakeLock, FindsReady, RequestLock, StartBuild, NotFound,
       GiveUp, LookFails, Serve, Placed, Uncounted, CoreInv, TypeOK
  <2>2. QED
    BY <1>1, <2>1, CountKept
<1>3. ASSUME NEW q \in Requests,
             \/ Mkdir(q) \/ MkdirFails(q) \/ GitInit(q) \/ GitConfig(q)
             \/ RenameBlocked(q) \/ BuildFails(q) \/ Remove(q) \/ Disconnect(q)
      PROVE  CountOK'
  <2>1. created' = created /\ Placed' = Placed /\ Uncounted' \subseteq Uncounted
    BY <1>3 DEF Mkdir, MkdirFails, GitInit, GitConfig, RenameBlocked, BuildFails,
       Remove, Disconnect, Placed, Uncounted, CoreInv, TypeOK
  <2>2. QED
    BY <1>1, <2>1, CountKept
<1>4. CASE Kill
  <2>1. created' = 0 /\ Placed' = Placed /\ Uncounted' = {}
    BY <1>4 DEF Kill, Placed, Uncounted
  <2>2. QED
    BY <2>1, Finite, FS_EmptySet DEF CountOK
<1>5. CASE UNCHANGED vars
  <2>1. created' = created /\ Placed' = Placed /\ Uncounted' \subseteq Uncounted
    BY <1>5 DEF vars, Placed, Uncounted
  <2>2. QED
    BY <1>1, <2>1, CountKept
<1>6. QED
  BY <1>2, <1>3, <1>4, <1>5, CountRename, CountCreated DEF Next, Handler, Job

-------------------------------------------------------------------------------
(* Why a request fails.                                                    *)

\* A step of one request leaves the others with what they know: a directory that
\* blocks a rename is there for good.
LEMMA CauseKept ==
    ASSUME CoreInv, NEW p \in Requests, CauseOf(p),
           phase'[p] = phase[p], job'[p] = job[p], result'[p] = result[p],
           cause'[p] = cause[p], target'[p] = target[p],
           \/ repo' = repo
           \/ \E q \in Requests : Rename(q)
    PROVE  CauseOf(p)'
<1>1. CASE repo' = repo
  BY <1>1 DEF CauseOf
<1>2. ASSUME NEW q \in Requests, Rename(q) PROVE CauseOf(p)'
  <2>1. repo[target[q]] \in {Absent, Empty} /\ repo' = [repo EXCEPT ![target[q]] = q]
    BY <1>2 DEF Rename
  <2>2. cause[p] = "blocked" => repo[target[p]] \in Requests \cup {Foreign}
    BY DEF CauseOf
  <2>3. cause[p] = "blocked" => target[p] # target[q]
    BY <2>1, <2>2, NamesAssumption DEF Leftovers
  <2>4. cause[p] = "blocked" => repo'[target[p]] = repo[target[p]]
    BY <2>1, <2>3 DEF CoreInv, TypeOK
  <2>5. QED
    BY <2>4 DEF CauseOf
<1>3. QED
  BY <1>1, <1>2

\* The steps of a request itself.
LEMMA CauseStep ==
    ASSUME CoreInv, NEW q \in Requests, CauseOf(q),
           Arrive(q) \/ TakeLock(q) \/ Handler(q) \/ Job(q) \/ Disconnect(q)
    PROVE  CauseOf(q)'
<1>. USE DEF CoreInv, GoTo, End, lockVars, diskVars, jobFrame, Then, Break, Alive, CauseOf
<1>1. CASE Arrive(q) \/ TakeLock(q) \/ FindsReady(q) \/ RequestLock(q)
  BY <1>1 DEF Arrive, TakeLock, FindsReady, RequestLock, TypeOK, LockOK
<1>2. CASE StartBuild(q) \/ NotFound(q) \/ Created(q) \/ LookFails(q) \/ Serve(q)
  BY <1>2 DEF StartBuild, NotFound, Created, LookFails, Serve, TypeOK, LockOK
<1>3. CASE GiveUp(q)
  <2>1. phase[q] = "recover" /\ cause[q] # "none"
    BY <1>3 DEF GiveUp
  <2>2. repo[target[q]] \notin Requests
    BY <1>3 DEF GiveUp, Ready, PlaceOK, LockOK
  <2>3. /\ phase' = [phase EXCEPT ![q] = "ended"] /\ result' = [result EXCEPT ![q] = "error"]
        /\ UNCHANGED <<target, job, repo, cause>>
    BY <1>3 DEF GiveUp
  <2>4. QED
    BY <2>1, <2>2, <2>3 DEF TypeOK
<1>4. CASE Mkdir(q) \/ GitInit(q) \/ GitConfig(q) \/ Remove(q)
  BY <1>4 DEF Mkdir, GitInit, GitConfig, Remove, TypeOK, LockOK, BuildOK
<1>5. CASE MkdirFails(q)
  BY <1>5 DEF MkdirFails, TypeOK, LockOK, BuildOK
<1>6. CASE Rename(q)
  <2>1. job[q] = "rename" /\ job'[q] # "remove"
    BY <1>6 DEF Rename, TypeOK
  <2>2. UNCHANGED <<phase, result, cause, target>>
    BY <1>6 DEF Rename
  <2>3. cause[q] = "blocked" => repo'[target[q]] = repo[target[q]]
    BY <1>6, NamesAssumption DEF Rename, TypeOK, LockOK, Leftovers
  <2>4. QED
    BY <2>1, <2>2, <2>3
<1>7. CASE RenameBlocked(q)
  <2>1. target[q] \in Repos /\ repo[target[q]] \in Requests \cup {Foreign}
    BY <1>7 DEF RenameBlocked, TypeOK, LockOK, Leftovers
  <2>2. Alive(q) => phase[q] = "build" /\ result[q] = "none"
    BY <1>7 DEF RenameBlocked, LockOK, BuildOK
  <2>3. QED
    BY <1>7, <2>1, <2>2 DEF RenameBlocked, TypeOK
<1>8. CASE BuildFails(q)
  BY <1>8 DEF BuildFails, TypeOK, LockOK, BuildOK
<1>9. CASE Disconnect(q)
  BY <1>9 DEF Disconnect, TypeOK, LockOK
<1>10. QED
  BY <1>1, <1>2, <1>3, <1>4, <1>5, <1>6, <1>7, <1>8, <1>9 DEF Handler, Job

LEMMA StepCause ==
    ASSUME CoreInv, CauseOK, [Next]_vars
    PROVE  CauseOK'
<1>. USE DEF lockVars, diskVars, jobFrame
<1>1. \A q \in Requests : CauseOf(q)
  BY DEF CauseOK
<1>2. (\A q \in Requests : CauseOf(q)') => CauseOK'
  BY DEF CauseOK
<1>3. ASSUME NEW q \in Requests,
             Arrive(q) \/ TakeLock(q) \/ Handler(q) \/ Job(q) \/ Disconnect(q)
      PROVE  CauseOK'
  <2>1. CauseOf(q)'
    BY <1>1, <1>3, CauseStep
  <2>2. ASSUME NEW p \in Requests \ {q} PROVE CauseOf(p)'
    <3>. USE DEF CoreInv, TypeOK, GoTo, End, Then, Break
    <3>1. /\ phase'[p] = phase[p] /\ job'[p] = job[p] /\ result'[p] = result[p]
          /\ cause'[p] = cause[p] /\ target'[p] = target[p]
      <4>1. CASE Arrive(q) \/ TakeLock(q) \/ Handler(q)
        BY <4>1 DEF Handler, Arrive, TakeLock, FindsReady, RequestLock, StartBuild, NotFound,
           Created, GiveUp, LookFails, Serve
      <4>2. CASE Job(q) \/ Disconnect(q)
        BY <4>2 DEF Job, Mkdir, MkdirFails, GitInit, GitConfig, Rename, RenameBlocked,
           BuildFails, Remove, Disconnect
      <4>3. QED
        BY <1>3, <4>1, <4>2
    <3>2. repo' = repo \/ Rename(q)
      BY <1>3 DEF Handler, Arrive, TakeLock, FindsReady, RequestLock, StartBuild, NotFound,
         Created, GiveUp, LookFails, Serve, Job, Mkdir, MkdirFails, GitInit, GitConfig,
         RenameBlocked, BuildFails, Remove, Disconnect
    <3>3. QED
      BY <1>1, <3>1, <3>2, CauseKept
  <2>3. QED
    BY <1>2, <2>1, <2>2
<1>4. CASE Kill
  BY <1>1, <1>2, <1>4 DEF Kill, CauseOf, Alive, CoreInv, TypeOK
<1>5. CASE UNCHANGED vars
  BY <1>1, <1>2, <1>5 DEF vars, CauseOf
<1>6. QED
  BY <1>3, <1>4, <1>5 DEF Next

-------------------------------------------------------------------------------
LEMMA StepIInv == IInv /\ [Next]_vars => IInv'
<1>. SUFFICES ASSUME IInv, [Next]_vars PROVE IInv'
  OBVIOUS
<1>1. CoreInv /\ CountOK /\ CauseOK
  BY DEF IInv, CoreInv
<1>2. CoreInv'
  BY <1>1, HandlerStep, JobStep, KillStep DEF Next
<1>3. CountOK' /\ CauseOK'
  BY <1>1, StepCount, StepCause
<1>4. QED
  BY <1>2, <1>3 DEF CoreInv, IInv

\* The inductive invariant: a directory is renamed into place by the request that
\* has finished it, with the lock or cut off from it (git.rs:103-136), and the
\* counter never exceeds the repositories made.
THEOREM Invariance == Spec => []IInv
<1>. QED
  BY InitIInv, StepIInv, PTL DEF Spec

\* git.rs:83-85, 117-131: whatever an earlier request left behind, a failed rename
\* included, a later one fails only by a fault of its own, or for a directory that
\* this server did not put there.
THEOREM NoneInherited == Spec => []NoInheritedFailure
<1>1. IInv => NoInheritedFailure
  <2>. SUFFICES ASSUME IInv, NEW q \in Requests, result[q] = "error"
                PROVE  cause[q] = "fault" \/ repo[target[q]] = Foreign
    BY DEF NoInheritedFailure
  <2>1. cause[q] \in {"none", "fault", "blocked"} /\ phase[q] = "ended"
    BY DEF IInv, TypeOK, LockOK
  <2>2. QED
    BY <2>1 DEF IInv, CauseOK, CauseOf
<1>2. QED
  BY <1>1, Invariance, PTL

-------------------------------------------------------------------------------
(* The refinement.                                                         *)

maker == [r \in Repos |->
             IF repo[r] \in Requests /\ built[repo[r]] = "config" THEN repo[r] ELSE None]
servedAt == [q \in Requests |-> IF result[q] = "served" THEN target[q] ELSE None]

LEMMA MakerIs ==
    ASSUME PlaceOK
    PROVE  maker = [r \in Repos |-> IF repo[r] \in Requests THEN repo[r] ELSE None]
BY DEF PlaceOK, maker

SameServed(q) ==
    \/ result'[q] = result[q] /\ target'[q] = target[q]
    \/ result[q] # "served" /\ result'[q] # "served"

\* Most steps are none of RepoHosting.
LEMMA Stutter ==
    ASSUME IInv, IInv', repo' = repo,
           \A q \in Requests : SameServed(q)
    PROVE  UNCHANGED <<maker, servedAt>>
<1>1. maker' = maker
  BY MakerIs DEF IInv, PlaceOK, maker
<1>2. servedAt' = servedAt
  BY DEF servedAt, SameServed
<1>3. QED
  BY <1>1, <1>2

LEMMA InitHosting == Init => Hosting!HostingInit
BY NamesAssumption DEF Init, Hosting!HostingInit

LEMMA StepHosting ==
    ASSUME IInv, IInv', [Next]_vars
    PROVE  [Hosting!HostingNext]_Hosting!hostingVars
<1>. USE DEF GoTo, lockVars, diskVars, jobFrame
<1>1. TypeOK /\ LockOK /\ PlaceOK /\ ServeOK /\ PlaceOK'
  BY DEF IInv
<1>2. UNCHANGED <<maker, servedAt>> => UNCHANGED Hosting!hostingVars
  BY DEF maker, servedAt, Hosting!hostingVars
<1>3. ASSUME NEW q \in Requests, Serve(q) PROVE Hosting!HostingNext
  <2>1. /\ phase[q] = "serve" /\ result[q] = "none" /\ target[q] \in Repos
        /\ repo[target[q]] \in Requests
    BY <1>1, <1>3 DEF Serve, LockOK, ServeOK
  <2>2. /\ result' = [result EXCEPT ![q] = "served"]
        /\ UNCHANGED <<target, repo, built>>
    BY <1>3 DEF Serve, End
  <2>3. servedAt[q] = None /\ servedAt' = [servedAt EXCEPT ![q] = target[q]]
    BY <1>1, <2>1, <2>2 DEF servedAt, TypeOK
  <2>4. maker[target[q]] # None /\ maker' = maker
    BY <1>1, <2>1, <2>2, MakerIs, NamesAssumption DEF maker
  <2>5. Hosting!HandOver(q, target[q])
    BY <2>3, <2>4 DEF maker, servedAt, Hosting!HandOver
  <2>6. QED
    BY <2>1, <2>5 DEF Hosting!HostingNext, Hosting!HandOver
<1>4. ASSUME NEW q \in Requests, Rename(q) PROVE Hosting!HostingNext
  <2>1. /\ target[q] \in Repos /\ repo[target[q]] \notin Requests
        /\ repo' = [repo EXCEPT ![target[q]] = q]
        /\ UNCHANGED <<result, target>>
    BY <1>1, <1>4, NamesAssumption DEF Rename, LockOK, Leftovers
  <2>2. maker[target[q]] = None /\ maker' = [maker EXCEPT ![target[q]] = q]
    <3>1. maker = [r \in Repos |-> IF repo[r] \in Requests THEN repo[r] ELSE None]
      BY <1>1, MakerIs
    <3>2. maker' = [r \in Repos |-> IF repo'[r] \in Requests THEN repo'[r] ELSE None]
      BY <1>1 DEF PlaceOK, maker
    <3>3. QED
      BY <1>1, <2>1, <3>1, <3>2 DEF TypeOK
  <2>3. servedAt' = servedAt
    BY <2>1 DEF servedAt
  <2>4. Hosting!Create(q, target[q])
    BY <2>2, <2>3 DEF maker, servedAt, Hosting!Create
  <2>5. QED
    BY <2>1, <2>4 DEF Hosting!HostingNext, Hosting!Create
<1>5. ASSUME NEW q \in Requests,
             \/ Arrive(q) \/ TakeLock(q) \/ FindsReady(q) \/ RequestLock(q)
             \/ StartBuild(q) \/ NotFound(q) \/ Created(q) \/ GiveUp(q) \/ LookFails(q)
      PROVE  UNCHANGED <<maker, servedAt>>
  <2>1. repo' = repo
    BY <1>5 DEF Arrive, TakeLock, FindsReady, RequestLock, StartBuild, NotFound,
       Created, GiveUp, LookFails
  <2>2. \A p \in Requests : SameServed(p)
    BY <1>1, <1>5 DEF Arrive, TakeLock, FindsReady, RequestLock, StartBuild, NotFound,
       Created, GiveUp, LookFails, End, TypeOK, LockOK, SameServed
  <2>3. QED
    BY <2>1, <2>2, Stutter
<1>6. ASSUME NEW q \in Requests,
             \/ Mkdir(q) \/ MkdirFails(q) \/ GitInit(q) \/ GitConfig(q)
             \/ RenameBlocked(q) \/ BuildFails(q) \/ Remove(q) \/ Disconnect(q)
      PROVE  UNCHANGED <<maker, servedAt>>
  <2>1. repo' = repo
    BY <1>6 DEF Mkdir, MkdirFails, GitInit, GitConfig, RenameBlocked, BuildFails, Remove,
       Disconnect
  <2>2. \A p \in Requests : SameServed(p)
    BY <1>1, <1>6 DEF Mkdir, MkdirFails, GitInit, GitConfig, RenameBlocked, BuildFails,
       Remove, Disconnect, Alive, End, TypeOK, LockOK, SameServed
  <2>3. QED
    BY <2>1, <2>2, Stutter
<1>7. CASE Kill
  <2>1. \A p \in Requests : SameServed(p)
    BY <1>1, <1>7 DEF Kill, Alive, LockOK, SameServed
  <2>2. QED
    BY <1>2, <1>7, <2>1, Stutter DEF Kill
<1>8. CASE UNCHANGED vars
  BY <1>8 DEF vars, Hosting!hostingVars
<1>9. QED
  BY <1>2, <1>3, <1>4, <1>5, <1>6, <1>7, <1>8 DEF Next, Handler, Job

\* git.rs:79-99: a repository appears whole, once, for good, and git is pointed
\* at nothing else, whoever races, fails, vanishes or is killed.
THEOREM Refinement == Spec => ImplementsHosting
<1>1. IInv /\ IInv' /\ [Next]_vars => [Hosting!HostingNext]_Hosting!hostingVars
  BY StepHosting
<1>2. QED
  BY <1>1, InitHosting, Invariance, PTL DEF Spec, ImplementsHosting, Hosting!HostingSpec

-------------------------------------------------------------------------------
(* The lock.                                                               *)

\* A guard that drops is one lock freed, one wait given up, or nothing at all.
LEMMA UnlockIsAStep ==
    ASSUME IInv, NEW q \in Requests, Unlock(q)
    PROVE  [Lock!MutexNext]_lockVars
<1>. USE NamesAssumption DEF lockVars
<1>1. CASE phase[q] = "lock"
  <2>1. want[q] # None /\ \A r \in Repos : holder[r] # q
    BY <1>1 DEF IInv, TypeOK, LockOK
  <2>2. Lock!Abandon(q)
    BY <2>1 DEF Lock!Abandon, Unlock, IInv, TypeOK, Lock!MutexTypeOK
  <2>3. QED
    BY <2>2 DEF Lock!MutexNext
<1>2. CASE phase[q] \in {"recheck", "build", "recover"}
  <2>1. /\ target[q] \in Repos /\ want[q] = None
        /\ \A r \in Repos : holder[r] = q <=> r = target[q]
    BY <1>2 DEF IInv, LockOK
  <2>2. holder' = [holder EXCEPT ![target[q]] = None]
    BY <2>1 DEF Unlock, IInv, TypeOK, Lock!MutexTypeOK
  <2>3. want' = want
    BY <2>1 DEF Unlock, IInv, TypeOK, Lock!MutexTypeOK
  <2>4. Lock!Free(q, target[q])
    BY <2>1, <2>2, <2>3 DEF Lock!Free
  <2>5. QED
    BY <2>1, <2>4 DEF Lock!MutexNext
<1>3. CASE phase[q] \notin {"lock", "recheck", "build", "recover"}
  <2>1. want[q] = None /\ \A r \in Repos : holder[r] # q
    BY <1>3 DEF IInv, LockOK
  <2>2. UNCHANGED lockVars
    BY <2>1 DEF Unlock, IInv, TypeOK, Lock!MutexTypeOK
  <2>3. QED
    BY <2>2
<1>4. QED
  BY <1>1, <1>2, <1>3

LEMMA StepUsesMutex ==
    ASSUME IInv, [Next]_vars
    PROVE  [Lock!MutexNext \/ Lock!MutexInit']_lockVars
<1>. USE DEF lockVars, diskVars, jobFrame
<1>1. ASSUME NEW q \in Requests,
             \/ FindsReady(q) \/ NotFound(q) \/ Created(q) \/ GiveUp(q) \/ LookFails(q)
             \/ Serve(q) \/ Disconnect(q)
      PROVE  [Lock!MutexNext]_lockVars
  <2>1. Unlock(q)
    BY <1>1 DEF FindsReady, NotFound, Created, GiveUp, LookFails, Serve, Disconnect, End
  <2>2. QED
    BY <2>1, UnlockIsAStep
<1>2. ASSUME NEW q \in Requests, RequestLock(q) \/ TakeLock(q) PROVE Lock!MutexNext
  <2>1. target[q] \in Repos
    BY <1>2 DEF RequestLock, TakeLock, IInv, LockOK
  <2>2. QED
    BY <1>2, <2>1 DEF RequestLock, TakeLock, Lock!MutexNext
<1>3. ASSUME NEW q \in Requests, MkdirFails(q) PROVE [Lock!MutexNext]_lockVars
  <2>1. CASE Alive(q)
    <3>1. Unlock(q)
      BY <1>3, <2>1 DEF MkdirFails, End
    <3>2. QED
      BY <3>1, UnlockIsAStep
  <2>2. CASE ~ Alive(q)
    BY <1>3, <2>2 DEF MkdirFails
  <2>3. QED
    BY <2>1, <2>2
<1>4. ASSUME NEW q \in Requests,
             \/ Arrive(q) \/ StartBuild(q) \/ Mkdir(q) \/ GitInit(q) \/ GitConfig(q)
             \/ Rename(q) \/ RenameBlocked(q) \/ BuildFails(q) \/ Remove(q)
      PROVE  UNCHANGED lockVars
  BY <1>4 DEF Arrive, StartBuild, Mkdir, GitInit, GitConfig, Rename, RenameBlocked,
     BuildFails, Remove
<1>5. CASE Kill
  BY <1>5 DEF Kill, Lock!MutexInit
<1>6. CASE UNCHANGED vars
  BY <1>6 DEF vars
<1>7. QED
  BY <1>1, <1>2, <1>3, <1>4, <1>5, <1>6 DEF Next, Handler, Job

\* Whoever asks for the lock has none and waits for none, so Request's guard, which
\* lock() does not have (state.rs:120-133), keeps no request from asking.
THEOREM AsksFreely == Spec => []AsksWithNoLock
<1>1. IInv => AsksWithNoLock
  BY DEF IInv, LockOK, AsksWithNoLock, Lock!Holds
<1>2. QED
  BY <1>1, Invariance, PTL

\* Requests use the repository's lock as KeyedMutex has it, until a restart
\* (git.rs:191): an early return, a failure or a disconnect frees one lock or
\* leaves one queue, never anything else.
THEOREM UsesLocks == Spec => UsesKeyedMutex
<1>1. Init => Lock!MutexInit
  BY DEF Init
<1>2. IInv /\ [Next]_vars => [Lock!MutexNext \/ Lock!MutexInit']_lockVars
  BY StepUsesMutex
<1>3. QED
  BY <1>1, <1>2, Invariance, PTL DEF Spec, UsesKeyedMutex
================================================================================
