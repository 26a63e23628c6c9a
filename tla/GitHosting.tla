------------------------------- MODULE GitHosting ------------------------------
(***************************************************************************)
(* First touch of a git repository (routes/git.rs, dispatch, autocreate).  *)
(* A request whose repository is not ready takes the repository's lock,    *)
(* looks again, builds the repository in a staging directory of its own    *)
(* and renames it into place.  The file operations and the git children    *)
(* run to their end also when the request they work for is gone.           *)
(*                                                                         *)
(* The lock is the abstract one of KeyedMutex.  A directory is known by    *)
(* the request that made it.  LFS batches and malformed paths never get    *)
(* here; the CGI run itself is I/O.  Mut_X is X with a plausible bug.      *)
(***************************************************************************)
EXTENDS Naturals, FiniteSets

CONSTANTS Requests, Repos,
          Absent, Empty, Foreign,  \* no directory; an empty one; one with files but no HEAD
          None

Leftovers == {Absent, Empty, Foreign}

ASSUME NamesAssumption ==
    /\ IsFiniteSet(Requests) /\ IsFiniteSet(Repos)
    /\ None \notin Requests \cup Repos
    /\ Leftovers \cap Requests = {}
    /\ Absent # Foreign /\ Empty # Foreign

VARIABLES
    autocreate,   \* config.git_autocreate
    phase,        \* phase[q]: where the handler of q is
    target,       \* target[q]: the repository q is about
    job,          \* job[q]: the operation that runs for q, or has been started for it
    result,       \* result[q]: how q ended
    want, holder, \* repo_locks (KeyedMutex)
    built,        \* built[q]: how far the directory that q made is
    repo,         \* repo[r]: the directory at the path of r
    created,      \* state.repos_created
    cause         \* cause[q]: why autocreate fails for q: an operation of its own
                  \* failed ("fault"), or the rename met a directory ("blocked")

lockVars == <<want, holder>>
diskVars == <<built, repo>>
vars ==
    <<autocreate, phase, target, job, result, want, holder, built, repo, created, cause>>

Lock == INSTANCE KeyedMutex WITH
            Tasks <- Requests, Keys <- Repos, NoKey <- None, NoTask <- None

Jobs == {"mkdir", "init", "config", "rename", "remove"}

TypeOK ==
    /\ autocreate \in BOOLEAN
    /\ phase \in [Requests -> {"idle", "check", "lock", "recheck", "build", "recover",
                               "serve", "ended"}]
    /\ target \in [Requests -> Repos \cup {None}]
    /\ job \in [Requests -> Jobs \cup {"none", "renamed"}]
    /\ result \in [Requests -> {"none", "served", "notFound", "error", "gone", "killed"}]
    /\ Lock!MutexTypeOK
    /\ built \in [Requests -> {"none", "empty", "init", "config"}]
    /\ repo \in [Repos -> Requests \cup Leftovers]
    /\ created \in Nat
    /\ cause \in [Requests -> {"none", "fault", "blocked"}]

Init ==
    /\ autocreate \in BOOLEAN
    /\ phase = [q \in Requests |-> "idle"]
    /\ target = [q \in Requests |-> None]
    /\ job = [q \in Requests |-> "none"]
    /\ result = [q \in Requests |-> "none"]
    /\ Lock!MutexInit
    /\ built = [q \in Requests |-> "none"]
    /\ repo \in [Repos -> Leftovers]
    /\ created = 0
    /\ cause = [q \in Requests |-> "none"]

Alive(q) == phase[q] \notin {"idle", "ended"}

\* There is a HEAD.  The mutant is content with a directory.
Mut_Ready(r) == repo[r] # Absent
Ready(r) == repo[r] \in Requests /\ built[repo[r]] \in {"init", "config"}

GoTo(q, p) == phase' = [phase EXCEPT ![q] = p]

\* The guard of q drops.
Unlock(q) ==
    /\ want' = [want EXCEPT ![q] = None]
    /\ holder' = [r \in Repos |-> IF holder[r] = q THEN None ELSE holder[r]]

\* An early return that leaves the guard with somebody else.
Mut_End(q, how) ==
    /\ GoTo(q, "ended")
    /\ result' = [result EXCEPT ![q] = how]
    /\ UNCHANGED lockVars

End(q, how) ==
    /\ GoTo(q, "ended")
    /\ result' = [result EXCEPT ![q] = how]
    /\ Unlock(q)

-------------------------------------------------------------------------------
(* The handler.                                                            *)

Arrive(q) ==
    /\ phase[q] = "idle"
    /\ GoTo(q, "check")
    /\ \E r \in Repos : target' = [target EXCEPT ![q] = r]
    /\ UNCHANGED <<autocreate, job, result, lockVars, diskVars, created, cause>>

\* repo_is_ready, before the lock is taken, under it, and after a failure, which
\* is forgotten then: another has won the rename.
FindsReady(q) ==
    /\ phase[q] \in {"check", "recheck", "recover"}
    /\ Ready(target[q])
    /\ GoTo(q, "serve") /\ Unlock(q)
    /\ cause' = [cause EXCEPT ![q] = "none"]
    /\ UNCHANGED <<autocreate, target, job, result, diskVars, created>>

\* An error of the metadata call, too, reads as "not ready".
RequestLock(q) ==
    /\ phase[q] = "check"
    /\ GoTo(q, "lock")
    /\ Lock!Request(q, target[q])
    /\ UNCHANGED <<autocreate, target, job, result, diskVars, created, cause>>

TakeLock(q) ==
    /\ phase[q] = "lock"
    /\ Lock!Grant(q, target[q])
    /\ GoTo(q, "recheck")
    /\ UNCHANGED <<autocreate, target, job, result, diskVars, created, cause>>

StartBuild(q) ==
    /\ phase[q] = "recheck" /\ autocreate
    /\ GoTo(q, "build")
    /\ job' = [job EXCEPT ![q] = "mkdir"]
    /\ UNCHANGED <<autocreate, target, result, lockVars, diskVars, created, cause>>

NotFound(q) ==
    /\ phase[q] = "recheck" /\ ~ autocreate
    /\ End(q, "notFound")
    /\ UNCHANGED <<autocreate, target, job, diskVars, created, cause>>

\* After the rename: repos_created, and the guard drops.
Created(q) ==
    /\ phase[q] = "build" /\ job[q] = "renamed"
    /\ created' = created + 1
    /\ job' = [job EXCEPT ![q] = "none"]
    /\ GoTo(q, "serve") /\ Unlock(q)
    /\ UNCHANGED <<autocreate, target, result, diskVars, cause>>

\* No look at whether another has won.
Mut_GiveUp(q) ==
    /\ phase[q] = "recover"
    /\ End(q, "error")
    /\ UNCHANGED <<autocreate, target, job, diskVars, created, cause>>

\* After the staging directory is removed, and nobody has won the rename.
GiveUp(q) ==
    /\ phase[q] = "recover" /\ ~ Ready(target[q])
    /\ End(q, "error")
    /\ UNCHANGED <<autocreate, target, job, diskVars, created, cause>>

\* Somebody may have, but the metadata call fails.
LookFails(q) ==
    /\ phase[q] = "recover"
    /\ End(q, "error")
    /\ cause' = [cause EXCEPT ![q] = "fault"]
    /\ UNCHANGED <<autocreate, target, job, diskVars, created>>

\* git http-backend is started on the repository.
Serve(q) ==
    /\ phase[q] = "serve"
    /\ End(q, "served")
    /\ UNCHANGED <<autocreate, target, job, diskVars, created, cause>>

-------------------------------------------------------------------------------
(* autocreate: a chain of operations.  Each one runs by itself; if its     *)
(* handler is still there, that starts the next.                           *)

Then(q, j) == job' = [job EXCEPT ![q] = IF Alive(q) THEN j ELSE "none"]

\* The chain breaks off: a live handler removes the staging directory.
Break(q, why) ==
    /\ Then(q, "remove")
    /\ cause' = [cause EXCEPT ![q] = IF Alive(q) THEN why ELSE @]

jobFrame == <<autocreate, target, result, lockVars, created>>

Mkdir(q) ==
    /\ job[q] = "mkdir"
    /\ built' = [built EXCEPT ![q] = "empty"]
    /\ Then(q, "init")
    /\ UNCHANGED <<jobFrame, phase, repo, cause>>

MkdirFails(q) ==
    /\ job[q] = "mkdir"
    /\ job' = [job EXCEPT ![q] = "none"]
    /\ IF Alive(q)
         THEN End(q, "error") /\ cause' = [cause EXCEPT ![q] = "fault"]
         ELSE UNCHANGED <<phase, result, lockVars, cause>>
    /\ UNCHANGED <<autocreate, target, diskVars, created>>

\* git init --bare
GitInit(q) ==
    /\ job[q] = "init"
    /\ built' = [built EXCEPT ![q] = "init"]
    /\ Then(q, "config")
    /\ UNCHANGED <<jobFrame, phase, repo, cause>>

\* git config http.receivepack true
GitConfig(q) ==
    /\ job[q] = "config"
    /\ built' = [built EXCEPT ![q] = "config"]
    /\ Then(q, "rename")
    /\ UNCHANGED <<jobFrame, phase, repo, cause>>

\* rename(2) replaces what is there.
Mut_Rename(q) ==
    /\ job[q] = "rename"
    /\ repo' = [repo EXCEPT ![target[q]] = q]
    /\ Then(q, "renamed")
    /\ UNCHANGED <<jobFrame, phase, built, cause>>

\* The parents are made; rename(2) replaces an empty directory and no other.
Rename(q) ==
    /\ job[q] = "rename"
    /\ repo[target[q]] \in {Absent, Empty}
    /\ repo' = [repo EXCEPT ![target[q]] = q]
    /\ Then(q, "renamed")
    /\ UNCHANGED <<jobFrame, phase, built, cause>>

\* "Anything else is a lost race."
RenameBlocked(q) ==
    /\ job[q] = "rename"
    /\ repo[target[q]] \notin {Absent, Empty}
    /\ Break(q, "blocked")
    /\ UNCHANGED <<jobFrame, phase, diskVars>>

\* git fails or cannot be run; any other I/O error.
BuildFails(q) ==
    /\ job[q] \in {"init", "config", "rename"}
    /\ Break(q, "fault")
    /\ UNCHANGED <<jobFrame, phase, diskVars>>

Remove(q) ==
    /\ job[q] = "remove"
    /\ built' \in {built, [built EXCEPT ![q] = "none"]}
    /\ job' = [job EXCEPT ![q] = "none"]
    /\ phase' = [phase EXCEPT ![q] = IF Alive(q) THEN "recover" ELSE @]
    /\ UNCHANGED <<jobFrame, repo, cause>>

-------------------------------------------------------------------------------
(* The environment.                                                        *)

\* The client goes away.  The handler may not have started the next operation.
Disconnect(q) ==
    /\ Alive(q)
    /\ End(q, "gone")
    /\ cause' = [cause EXCEPT ![q] = "none"]
    /\ \/ job' = [job EXCEPT ![q] = "none"]
       \/ job[q] \in Jobs /\ UNCHANGED job
    /\ UNCHANGED <<autocreate, target, diskVars, created>>

\* The server dies and is started again, perhaps with another configuration.
Kill ==
    /\ \E q \in Requests : Alive(q) \/ job[q] # "none"
    /\ autocreate' \in BOOLEAN
    /\ phase' = [q \in Requests |-> IF Alive(q) THEN "ended" ELSE phase[q]]
    /\ result' = [q \in Requests |-> IF Alive(q) THEN "killed" ELSE result[q]]
    /\ job' = [q \in Requests |-> "none"]
    /\ cause' = [q \in Requests |-> IF Alive(q) THEN "none" ELSE cause[q]]
    /\ want' = [q \in Requests |-> None]
    /\ holder' = [r \in Repos |-> None]
    /\ created' = 0
    /\ UNCHANGED <<target, diskVars>>

Handler(q) ==
    \/ FindsReady(q) \/ RequestLock(q) \/ StartBuild(q) \/ NotFound(q)
    \/ Created(q) \/ GiveUp(q) \/ LookFails(q) \/ Serve(q)

Job(q) ==
    \/ Mkdir(q) \/ MkdirFails(q) \/ GitInit(q) \/ GitConfig(q)
    \/ Rename(q) \/ RenameBlocked(q) \/ BuildFails(q) \/ Remove(q)

Next ==
    \/ Kill
    \/ \E q \in Requests :
          Arrive(q) \/ TakeLock(q) \/ Handler(q) \/ Job(q) \/ Disconnect(q)

\* Handlers that can go on do; operations and git children end; the lock serves
\* its waiters in order.
Spec ==
    /\ Init /\ [][Next]_vars
    /\ \A q \in Requests :
          WF_vars(Handler(q)) /\ WF_vars(Job(q)) /\ SF_vars(TakeLock(q))

-------------------------------------------------------------------------------
(* The parts of the inductive invariant.                                   *)

\* Who is between the lock and the end of the block holds the lock.
LockOK ==
    \A q \in Requests :
        /\ IF phase[q] = "idle" THEN target[q] = None /\ job[q] = "none" ELSE target[q] \in Repos
        /\ phase[q] # "ended" => result[q] = "none"
        /\ want[q] = IF phase[q] = "lock" THEN target[q] ELSE None
        /\ \A r \in Repos :
              holder[r] = q <=> phase[q] \in {"recheck", "build", "recover"} /\ target[q] = r

\* What a request has built goes with what runs for it.
BuildOK ==
    \A q \in Requests :
        /\ phase[q] \in {"idle", "check", "lock", "recheck"} => built[q] = "none"
        /\ Alive(q) => (phase[q] = "build") = (job[q] # "none")
        /\ job[q] = "mkdir" => built[q] = "none"
        /\ job[q] = "init" => built[q] = "empty"
        /\ job[q] = "config" => built[q] = "init"
        /\ job[q] = "rename" => built[q] = "config"
        /\ job[q] = "renamed" => Alive(q) /\ repo[target[q]] = q

\* A directory of this server is at its place whole, and nobody works on it.
PlaceOK ==
    \A r \in Repos : repo[r] \in Requests =>
        /\ target[repo[r]] = r
        /\ built[repo[r]] = "config"
        /\ job[repo[r]] \in {"none", "renamed"}

\* git.rs:81-83: whoever goes on to git finds a repository.
ServeOK == \A q \in Requests : phase[q] = "serve" => repo[target[q]] \in Requests

\* A repository is counted at most once, by the request that made it.
Placed == {r \in Repos : repo[r] \in Requests}
Uncounted == {q \in Requests : job[q] = "renamed"}
CountOK == created + Cardinality(Uncounted) <= Cardinality(Placed)

\* Whoever cleans up or has given up knows why, and a directory that blocked a rename
\* is there for good: whole by then, or of no use to anybody.
CauseOf(q) ==
    /\ phase[q] # "ended" =>
          (cause[q] # "none"
             <=> phase[q] = "recover" \/ (phase[q] = "build" /\ job[q] = "remove"))
    /\ result[q] = "error" => cause[q] # "none"
    /\ cause[q] = "blocked" =>
          repo[target[q]] \in
              IF phase[q] = "ended" THEN {Foreign} ELSE Requests \cup {Foreign}
CauseOK == \A q \in Requests : CauseOf(q)

IInv == TypeOK /\ LockOK /\ BuildOK /\ PlaceOK /\ ServeOK /\ CountOK /\ CauseOK

-------------------------------------------------------------------------------
(* Properties.                                                             *)

\* A repository appears whole, is made once, is never replaced, and git is
\* pointed at nothing else (git.rs:81-99).
Hosting == INSTANCE RepoHosting WITH
    maker <- [r \in Repos |->
                 IF repo[r] \in Requests /\ built[repo[r]] = "config" THEN repo[r] ELSE None],
    servedAt <- [q \in Requests |-> IF result[q] = "served" THEN target[q] ELSE None]
ImplementsHosting == Hosting!HostingSpec

\* git.rs:83-85, 117-131: nothing that an earlier request left behind makes a later
\* one fail, be it a staging directory, an empty directory, or a rename that goes
\* on for a client that is gone.  A request fails by a fault of its own, or because
\* there is a directory with files and no HEAD, which this server never puts there.
NoInheritedFailure ==
    \A q \in Requests :
        result[q] = "error" => cause[q] = "fault" \/ repo[target[q]] = Foreign

\* Every request ends, whoever fails or vanishes while it holds the lock.
FirstTouchEnds == \A q \in Requests : Alive(q) ~> phase[q] = "ended"

\* Who asks for a lock neither waits for one nor holds one: lock(), which has no
\* such guard, is never called where Request has none.
AsksWithNoLock ==
    \A q \in Requests : phase[q] = "check" => want[q] = None /\ ~ Lock!Holds(q)

\* Requests do with locks what KeyedMutex lets tasks do, one lock at a time, until
\* a restart begins with an empty table.
UsesKeyedMutex ==
    Lock!MutexInit /\ [][Lock!MutexNext \/ Lock!MutexInit']_lockVars
================================================================================
