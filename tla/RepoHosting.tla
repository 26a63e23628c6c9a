------------------------------ MODULE RepoHosting ------------------------------
(***************************************************************************)
(* What git hosting promises (routes/git.rs, dispatch): a repository comes *)
(* into being whole, made by one request, and stays; git is pointed at     *)
(* whole repositories only.                                                *)
(***************************************************************************)
CONSTANTS Requests, Repos, None

VARIABLES maker,     \* maker[r]: the request that made the repository r, or None
          servedAt   \* servedAt[q]: the repository q was handed to, or None

hostingVars == <<maker, servedAt>>

HostingInit ==
    /\ maker = [r \in Repos |-> None]
    /\ servedAt = [q \in Requests |-> None]

Create(q, r) ==
    /\ maker[r] = None
    /\ maker' = [maker EXCEPT ![r] = q]
    /\ UNCHANGED servedAt

HandOver(q, r) ==
    /\ servedAt[q] = None /\ maker[r] # None
    /\ servedAt' = [servedAt EXCEPT ![q] = r]
    /\ UNCHANGED maker

HostingNext ==
    \E q \in Requests, r \in Repos : Create(q, r) \/ HandOver(q, r)

HostingSpec == HostingInit /\ [][HostingNext]_hostingVars
================================================================================
