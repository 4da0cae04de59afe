---------------------------- MODULE RepoStorage ----------------------------
(***************************************************************************)
(* The life of one repository name: creation, deletion and re-creation     *)
(* (scope-postgres/src/db/repo_lifecycle.rs) against the queue that        *)
(* deletes the local storage of deleted repositories                       *)
(* (api/src/use_cases/content_cleanup.rs, db/cleanup_queue).               *)
(*                                                                         *)
(* Storage belongs to an incarnation of the name, but the queue has one    *)
(* row per name: a name must not be taken again before the storage of its  *)
(* previous incarnation is gone, or that storage would be forgotten.  The  *)
(* storage lock is an advisory lock on a session of its own.  Each         *)
(* transaction is a step; creations and drains may crash between steps,    *)
(* and use the time they read when they began (their age counts the ticks  *)
(* since then).  As in ContentCleanup a job records whose claim it is.     *)
(*                                                                         *)
(* Git requests (api/src/git/repository_engine.rs, git/cache.rs) read the  *)
(* row once and write under its incarnation later, without the storage     *)
(* lock and without looking again.  Deletion waits for the leases of the   *)
(* cached repository, but a request may be between its read and its lease, *)
(* and its object shelf and staging directory have none.                   *)
(***************************************************************************)
EXTENDS Integers

CONSTANTS
  Creators,      \* create_repo_with_init_tokens() calls
  Drains,        \* drain_pending_repo_storage_deletions() calls
  Requests,      \* Git requests in flight
  Nobody,        \* no lock holder, no claimant
  Incarnations,  \* bound on the incarnations of the name
  ClaimTime,     \* CLEANUP_CLAIM_SECONDS
  RetryDelay     \* bound on next_cleanup_retry_at() - now

RepoStorageAssumption ==
  /\ Incarnations \in Nat /\ ClaimTime \in Nat \ {0} /\ RetryDelay \in Nat
  /\ Creators \cap Drains = {} /\ Nobody \notin Creators \cup Drains

VARIABLES
  repo,     \* the repository row: its incarnation, 0 if there is none
  born,     \* how many incarnations there have been
  storage,  \* the incarnations that have storage on disk
  job,      \* scope_repo_storage_cleanup_jobs: the row of the name
  lock,     \* who holds the storage lock of the name
  creator,  \* local state of a creation
  drain,    \* local state of a drain
  request,  \* local state of a Git request
  wiped     \* the incarnations whose storage has been deleted (history)

vars == <<repo, born, storage, job, lock, creator, drain, request, wiped>>

-----------------------------------------------------------------------------
(* Vocabulary *)

Later(a, b) == IF a >= b THEN a ELSE b
Sooner(a, b) == IF a <= b THEN a ELSE b

MaxAge == Later(ClaimTime, RetryDelay)

NoCreation == [pc |-> "idle", claimed |-> FALSE, target |-> 0, age |-> 0]
NoDrain == [pc |-> "idle", target |-> 0, live |-> FALSE, kept |-> FALSE, age |-> 0]
NoJob == [open |-> FALSE, claim |-> Nobody, target |-> 0, due |-> 0]
NoRequest == [pc |-> "idle", target |-> 0]

\* The cached repository of an incarnation is leased (cache_users()).
Leased(i) == \E q \in Requests : request[q] = [pc |-> "leased", target |-> i]

\* delete_repo_storage() succeeds: the lease of the cached repository is the only
\* one it looks at, and an absent directory counts as deleted.
DeleteStorage(i) ==
  /\ ~Leased(i)
  /\ storage' = storage \ {i}
  /\ wiped' = wiped \cup {i}

\* The claim a creation or a drain made is still the one on the row.
Live(x) == job.open /\ job.claim = x

\* The time left of a delay that counts from age ticks ago.
Remaining(delay, age) == Later(delay - age, 0)

Release == lock' = Nobody

-----------------------------------------------------------------------------
(* Creation and deletion *)

CreateBegin(c) ==
  /\ creator[c].pc = "idle" /\ born < Incarnations
  /\ creator' = [creator EXCEPT ![c].pc = "lock"]
  /\ UNCHANGED <<repo, born, storage, job, lock, drain, request, wiped>>

CreateLock(c) ==
  /\ creator[c].pc = "lock" /\ lock = Nobody
  /\ lock' = c
  /\ creator' = [creator EXCEPT ![c].pc = "claim"]
  /\ UNCHANGED <<repo, born, storage, job, drain, request, wiped>>

\* The creation is refused, or it fails; it gives up its lock.
CreateEnds(c) ==
  /\ IF lock = c THEN Release ELSE UNCHANGED lock
  /\ creator' = [creator EXCEPT ![c] = NoCreation]

\* claim_pending_repo_storage_cleanup(): a pending row must be due by the
\* creation's own clock, which may be behind.
CreateClaim(c) ==
  /\ creator[c].pc = "claim" /\ repo = 0
  /\ IF job.open
     THEN /\ job.due = 0
          /\ job' = [job EXCEPT !.claim = c, !.due = Remaining(ClaimTime, creator[c].age)]
          /\ creator' = [creator EXCEPT ![c].pc = "clean", ![c].claimed = TRUE,
                                        ![c].target = job.target]
     ELSE creator' = [creator EXCEPT ![c].pc = "insert"] /\ UNCHANGED job
  /\ UNCHANGED <<repo, born, storage, lock, drain, request, wiped>>

CreateRefused(c) ==
  /\ creator[c].pc = "claim"
  /\ repo # 0 \/ (job.open /\ (job.due > 0 \/ creator[c].age > 0))
  /\ CreateEnds(c)
  /\ UNCHANGED <<repo, born, storage, job, drain, request, wiped>>

CreateClean(c) ==
  /\ creator[c].pc = "clean"
  /\ DeleteStorage(creator[c].target)
  /\ creator' = [creator EXCEPT ![c].pc = "insert"]
  /\ UNCHANGED <<repo, born, job, lock, drain, request>>

\* The second transaction checks everything again, completes the cleanup it
\* claimed and inserts the repository under a fresh incarnation.
CreateInsert(c) ==
  /\ creator[c].pc = "insert" /\ repo = 0 /\ born < Incarnations
  /\ IF creator[c].claimed
     THEN Live(c) /\ job' = NoJob
     ELSE ~job.open /\ UNCHANGED job
  /\ born' = born + 1 /\ repo' = born + 1
  /\ CreateEnds(c)
  /\ UNCHANGED <<storage, drain, request, wiped>>

CreateConflicts(c) ==
  /\ creator[c].pc = "insert"
  /\ repo # 0 \/ (IF creator[c].claimed THEN ~Live(c) ELSE job.open)
  /\ CreateEnds(c)
  /\ UNCHANGED <<repo, born, storage, job, drain, request, wiped>>

\* A crash, a failed statement, or storage that is leased or cannot be deleted.
CreateAborts(c) ==
  /\ creator[c].pc # "idle"
  /\ CreateEnds(c)
  /\ UNCHANGED <<repo, born, storage, job, drain, request, wiped>>

\* delete_locked_repository() does not take the storage lock.
DeleteRepo ==
  /\ repo # 0
  /\ repo' = 0
  /\ job' = [open |-> TRUE, claim |-> Nobody, target |-> repo, due |-> 0]
  /\ UNCHANGED <<born, storage, lock, creator, drain, request, wiped>>

-----------------------------------------------------------------------------
(* Git requests *)

\* The request reads the row of the repository, and its incarnation with it.
RequestBegins(q) ==
  /\ request[q].pc = "idle" /\ repo # 0
  /\ request' = [request EXCEPT ![q] = [pc |-> "read", target |-> repo]]
  /\ UNCHANGED <<repo, born, storage, job, lock, creator, drain, wiped>>

\* RepositoryGitCache::lease()
RequestLeases(q) ==
  /\ request[q].pc = "read"
  /\ request' = [request EXCEPT ![q].pc = "leased"]
  /\ UNCHANGED <<repo, born, storage, job, lock, creator, drain, wiped>>

\* The cached repository is restored or extended under a lease; the request's
\* objects and the staging of a push are written without one.
RequestWrites(q) ==
  /\ request[q].pc # "idle"
  /\ storage' = storage \cup {request[q].target}
  /\ UNCHANGED <<repo, born, job, lock, creator, drain, request, wiped>>

\* The request ends, whatever became of it, and drops its lease.
RequestEnds(q) ==
  /\ request[q].pc # "idle"
  /\ request' = [request EXCEPT ![q] = NoRequest]
  /\ UNCHANGED <<repo, born, storage, job, lock, creator, drain, wiped>>

-----------------------------------------------------------------------------
(* The drain *)

\* repo_storage_cleanup_batch()
DrainClaim(d) ==
  /\ drain[d].pc = "idle" /\ job.open /\ job.due = 0
  /\ job' = [job EXCEPT !.claim = d, !.due = ClaimTime]
  /\ drain' = [drain EXCEPT ![d] = [NoDrain EXCEPT !.pc = "lock", !.target = job.target,
                                                   !.live = (repo # 0)]]
  /\ UNCHANGED <<repo, born, storage, lock, creator, request, wiped>>

DrainLock(d) ==
  /\ drain[d].pc = "lock" /\ lock = Nobody
  /\ lock' = d
  /\ drain' = [drain EXCEPT ![d].pc = "exists"]
  /\ UNCHANGED <<repo, born, storage, job, creator, request, wiped>>

DrainExists(d) ==
  /\ drain[d].pc = "exists"
  /\ IF repo # 0
     THEN Release /\ drain' = [drain EXCEPT ![d].pc = "finish", ![d].kept = TRUE]
     ELSE UNCHANGED lock /\ drain' = [drain EXCEPT ![d].pc = "delete"]
  /\ UNCHANGED <<repo, born, storage, job, creator, request, wiped>>

DrainDelete(d) ==
  /\ drain[d].pc = "delete"
  /\ DeleteStorage(drain[d].target)
  /\ drain' = [drain EXCEPT ![d].pc = "finish"]
  /\ Release
  /\ UNCHANGED <<repo, born, job, creator, request>>

\* The storage could not be deleted; the row stays.
DrainKeeps(d) ==
  /\ drain[d].pc = "delete"
  /\ drain' = [drain EXCEPT ![d].pc = "finish", ![d].kept = TRUE]
  /\ Release
  /\ UNCHANGED <<repo, born, storage, job, creator, request, wiped>>

DrainDeleteInUse(d) == Leased(drain[d].target) /\ DrainKeeps(d)

DrainDeleteFails(d) == ~Leased(drain[d].target) /\ DrainKeeps(d)

\* Mutant: completion does not compare generations.
DrainFinish_Unowned(d) ==
  /\ drain[d].pc = "finish"
  /\ job' = [job EXCEPT !.open = @ /\ drain[d].kept]
  /\ drain' = [drain EXCEPT ![d] = NoDrain]
  /\ UNCHANGED <<repo, born, storage, lock, creator, request, wiped>>

\* reconcile_repo_storage_cleanup_rows(): only a name that was not live when
\* the batch was loaded backs off.
DrainFinish(d) ==
  /\ drain[d].pc = "finish"
  /\ IF ~Live(d) THEN UNCHANGED job
     ELSE IF ~drain[d].kept THEN job' = NoJob
     ELSE \E delay \in 0..RetryDelay :
            /\ drain[d].live => delay = 0
            /\ job' = [job EXCEPT !.due = Remaining(delay, drain[d].age)]
  /\ drain' = [drain EXCEPT ![d] = NoDrain]
  /\ UNCHANGED <<repo, born, storage, lock, creator, request, wiped>>

DrainAborts(d) ==
  /\ drain[d].pc # "idle"
  /\ IF lock = d THEN Release ELSE UNCHANGED lock
  /\ drain' = [drain EXCEPT ![d] = NoDrain]
  /\ UNCHANGED <<repo, born, storage, job, creator, request, wiped>>

-----------------------------------------------------------------------------
(* The specification *)

Older(x) == IF x.pc = "idle" THEN x ELSE [x EXCEPT !.age = Sooner(@ + 1, MaxAge)]

Tick ==
  /\ job' = [job EXCEPT !.due = Later(@ - 1, 0)]
  /\ creator' = [c \in Creators |-> Older(creator[c])]
  /\ drain' = [d \in Drains |-> Older(drain[d])]
  /\ UNCHANGED <<repo, born, storage, lock, request, wiped>>

Init ==
  /\ repo = 0 /\ born = 0 /\ storage = {}
  /\ job = NoJob
  /\ lock = Nobody
  /\ creator = [c \in Creators |-> NoCreation]
  /\ drain = [d \in Drains |-> NoDrain]
  /\ request = [q \in Requests |-> NoRequest] /\ wiped = {}

CreatorStep(c) ==
  \/ CreateBegin(c) \/ CreateLock(c) \/ CreateClaim(c) \/ CreateRefused(c)
  \/ CreateClean(c) \/ CreateInsert(c) \/ CreateConflicts(c) \/ CreateAborts(c)

DrainStep(d) ==
  \/ DrainClaim(d) \/ DrainLock(d) \/ DrainExists(d)
  \/ DrainDelete(d) \/ DrainDeleteInUse(d) \/ DrainDeleteFails(d)
  \/ DrainFinish(d) \/ DrainAborts(d)

RequestStep(q) ==
  RequestBegins(q) \/ RequestLeases(q) \/ RequestWrites(q) \/ RequestEnds(q)

Next ==
  \/ \E c \in Creators : CreatorStep(c)
  \/ DeleteRepo
  \/ \E q \in Requests : RequestStep(q)
  \/ \E d \in Drains : DrainStep(d)
  \/ Tick

Spec == Init /\ [][Next]_vars

-----------------------------------------------------------------------------
(* Properties *)

Born == 0..Incarnations

TypeOK ==
  /\ repo \in Born /\ born \in Born /\ storage \in SUBSET Born
  /\ job \in [open : BOOLEAN, claim : Creators \cup Drains \cup {Nobody},
              target : Born, due : Nat]
  /\ lock \in Creators \cup Drains \cup {Nobody}
  /\ creator \in [Creators -> [pc : {"idle", "lock", "claim", "clean", "insert"},
                               claimed : BOOLEAN, target : Born, age : Nat]]
  /\ drain \in [Drains -> [pc : {"idle", "lock", "exists", "delete", "finish"},
                           target : Born, live : BOOLEAN, kept : BOOLEAN, age : Nat]]
  /\ request \in [Requests -> [pc : {"idle", "read", "leased"}, target : Born]]
  /\ wiped \in SUBSET Born

\* No storage is forgotten: what is on disk belongs to the live repository, to
\* the incarnation that the pending cleanup of the name names, or to a request
\* that wrote it after the storage of its incarnation had been deleted.  That
\* remainder is the code's: no cleanup is queued for what such a request leaves.
StorageIsAccountedFor ==
  \A i \in storage : i = repo \/ (job.open /\ job.target = i) \/ i \in wiped

\* The storage of a live repository is not deleted by a creation or a drain that
\* outlived its claim of an earlier incarnation's storage.
LiveStorageIsKept == repo # 0 => repo \notin wiped

\* A name is taken again only when nothing is left to clean up under it, so the
\* one row of the name never has to serve two incarnations.
NoPendingCleanupWhileLive == repo # 0 => ~job.open

\* No drain crashes, or fails to delete storage that nobody has leased.
DrainsGoWell == \A d \in Drains : ~DrainAborts(d) /\ ~DrainDeleteFails(d)

\* The storage of a deleted repository does not stay for ever: whatever failed
\* before, once drains go well and the requests that have it leased end, it is
\* deleted, unless creations of the same name keep coming.
StorageIsDeleted ==
  <>[][DrainsGoWell]_vars =>
    (storage \ ({repo} \cup wiped) # {}
       ~> storage \subseteq {repo} \cup wiped \/ \E c \in Creators : creator[c].pc # "idle")
=============================================================================
