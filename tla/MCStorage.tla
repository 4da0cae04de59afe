----------------------------- MODULE MCStorage -----------------------------
(***************************************************************************)
(* Small instances of the four modules that delete what is no longer used, *)
(* for TLC: ContentCleanup, RepoStorage, GitSegments and CacheService.     *)
(* They share no state, so every behaviour is of one of them, which part   *)
(* names; the others stay as they are initially.                           *)
(***************************************************************************)
EXTENDS ContentStorage

CONSTANTS c1, c2, d1, d2, s1, k1, w1, inline, i1, o1

VARIABLES
  part,
  head, packs, drafts, ledger, object, compaction, writer, comp, sweep, late, refused,
  now, references, cacheObjects, queue, uploads, issued, bucket, urls, lateUploads,
  overtaken, client, rec

\* The first retry is immediate; later ones wait.
ShortRetries == <<0, 1>>

Git == INSTANCE GitSegments WITH
  job <- compaction,
  Segments <- {s1}, Compactors <- {k1}, Sweepers <- {w1}, MaxPushes <- 2, MaxSpan <- 2,
  Inline <- inline

Cache == INSTANCE CacheService WITH
  refs <- references, objects <- cacheObjects, late <- lateUploads,
  Identities <- {i1}, Objects <- {o1}, Clients <- {c1}, Reconcilers <- {w1},
  ReferenceTTL <- 2, LeaseTerm <- 1, Grace <- 2, UrlTTL <- 1, RetryAfter <- 2, Budget <- 1,
  BatchSize <- 1, MaxLag <- 1, MaxUploads <- 2, Horizon <- 3

nameVars == <<repo, born, storage, nameJob, lock, creator, nameDrain, request, wiped>>
gitVars == <<head, packs, drafts, ledger, object, compaction, writer, comp, sweep, late, refused>>
cacheVars ==
  <<now, references, cacheObjects, queue, uploads, issued, bucket, urls, lateUploads,
    overtaken, client, rec>>
mcVars == <<part, vars, nameVars, gitVars, cacheVars>>

\* One creation at a time and two drains against requests, or two creations that
\* compete with one drain while requests take no time.
OneCreation == creator'[c2] = creator[c2]
OneDrain ==
  /\ nameDrain'[d2] = nameDrain[d2]
  /\ (\A q \in Requests : request[q].pc = "idle") \/ <<request, storage>>' # <<request, storage>>

MCInit ==
  /\ part \in {"content", "name", "names", "git", "cache"}
  /\ Init /\ Name!Init /\ Git!Init /\ Cache!Init

MCNext ==
  /\ UNCHANGED part
  /\ \/ part = "content" /\ Next /\ UNCHANGED <<nameVars, gitVars, cacheVars>>
     \/ part = "name" /\ Name!Next /\ OneCreation /\ UNCHANGED <<vars, gitVars, cacheVars>>
     \/ part = "names" /\ Name!Next /\ OneDrain /\ UNCHANGED <<vars, gitVars, cacheVars>>
     \/ part = "git" /\ Git!Next /\ UNCHANGED <<vars, nameVars, cacheVars>>
     \/ part = "cache" /\ Cache!Next /\ UNCHANGED <<vars, nameVars, gitVars>>

\* Publications end, drains keep polling and their steps end, every due object
\* has its turn and a fence is granted in the end.
ContentFairness ==
  LET on == part = "content" IN
  /\ WF_vars(on /\ Tick)
  /\ \A p \in Publishers :
       WF_vars(on /\ (\/ PublishPut(p) \/ PublishRollback(p) \/ PublishRelease(p)
                      \/ \E r \in Runs : PublishEnqueueFails(p, r)))
  /\ \A d \in Drains : WF_vars(on /\ DrainStep(d))
  /\ \A o \in Objects :
       /\ SF_vars(on /\ \E d \in Drains : DrainClaim(d, {o}))
       /\ SF_vars(on /\ \E d \in Drains : DrainFence(d, o))

\* Drains keep being started, their steps and requests end, and the storage lock
\* is granted in the end.
NameFairness ==
  LET on == part \in {"name", "names"}
      Polls(d) == on /\ (part = "names" => d # d2)
  IN
  /\ WF_nameVars(on /\ Name!Tick)
  /\ \A d \in Drains : WF_nameVars(Polls(d) /\ Name!DrainStep(d))
  /\ \A q \in Requests : WF_nameVars(on /\ Name!RequestEnds(q))
  /\ SF_nameVars(\E d \in Drains : Polls(d) /\ Name!DrainLock(d))

\* Uploads, workers and sweeps go on, leases expire, delayed jobs become due, and
\* every segment has its turn.
GitFairness ==
  LET on == part = "git" IN
  /\ WF_gitVars(on /\ Git!LeaseExpires) /\ WF_gitVars(on /\ Git!JobIsDue)
  /\ WF_gitVars(on /\ Git!Upload(s1)) /\ WF_gitVars(on /\ Git!Compact(k1))
  /\ WF_gitVars(on /\ Git!Sweep(w1)) /\ SF_gitVars(on /\ Git!LoadStale(w1, s1))

\* The clock goes on, a request is answered, and passes are made for ever.
CacheFairness ==
  LET on == part = "cache" IN
  /\ WF_cacheVars(on /\ Cache!Tick)
  /\ WF_cacheVars(on /\ client[c1].pc # "upload" /\ Cache!NothingChanged(c1))
  /\ WF_cacheVars(on /\ (Cache!PassStep(w1) \/ Cache!EndPass(w1)))

MCSpec ==
  /\ MCInit /\ [][MCNext]_mcVars
  /\ ContentFairness /\ NameFairness /\ GitFairness /\ CacheFairness

-----------------------------------------------------------------------------
(* What the modules have in common *)

\* What is to be deleted is deleted in the end and what can be merged is merged,
\* whatever crashed and expired before, once passes go well: orphaned objects,
\* the storage of deleted repositories, segments, packs, and upload leases.
CleanupsEnd ==
  /\ OrphansAreCollected
  /\ Name!StorageIsDeleted
  /\ Git!SegmentsSettle /\ Git!PacksAreMerged
  /\ Cache!LeasesEnd
=============================================================================
