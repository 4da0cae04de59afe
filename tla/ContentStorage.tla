--------------------------- MODULE ContentStorage --------------------------
(***************************************************************************)
(* The two queues of one drain (api/src/use_cases/content_cleanup.rs): the *)
(* sources of runs that nothing refers to any more (ContentCleanup), and   *)
(* the local storage of deleted repositories (RepoStorage).  The rows, the *)
(* locks and the deletions of the two are apart.                           *)
(***************************************************************************)
EXTENDS ContentCleanup

CONSTANTS
  Creators, Requests, Incarnations,
  NameClaimTime, NameRetryDelay   \* ClaimTime and RetryDelay of RepoStorage

VARIABLES repo, born, storage, nameJob, lock, creator, nameDrain, request, wiped

Name == INSTANCE RepoStorage WITH
  job <- nameJob, drain <- nameDrain, ClaimTime <- NameClaimTime, RetryDelay <- NameRetryDelay

ASSUME NameAssumption == Name!RepoStorageAssumption

-----------------------------------------------------------------------------
(* Properties *)

\* No bytes are forgotten: an object without a reference is queued, and what is
\* on disk under a name belongs to its repository, to the cleanup that is still
\* pending, which a new repository waits for, or to a request that wrote it
\* after the cleanup had deleted (cleanup_queue, repo_lifecycle.rs).  No cleanup
\* deletes under a live repository.
BytesAreTracked ==
  /\ TypeOK /\ OrphansAreQueued
  /\ Name!TypeOK /\ Name!StorageIsAccountedFor /\ Name!LiveStorageIsKept
  /\ Name!NoPendingCleanupWhileLive
=============================================================================
