---------------------------- MODULE GitStorage -----------------------------
(***************************************************************************)
(* Where the objects of a repository are: in the packs of GitSegments, the *)
(* truth, and in the API's local cache of them (GitCache).  A build of the *)
(* cache downloads the packs of a head; whether it succeeds is a choice of *)
(* GitCache, and the two share no state.                                   *)
(***************************************************************************)
EXTENDS GitSegments

CONSTANTS Requests, MaxHead

VARIABLES mainHead, dir, request, build, task, torn

Cache == INSTANCE GitCache WITH head <- mainHead

ASSUME CacheAssumption == Cache!GitCacheAssumption

-----------------------------------------------------------------------------
(* Properties *)

\* What is registered can be read, and what is stored is registered: a pack is
\* published and stored, and a stored segment has a row that the sweep or a
\* pack still knows (git_segments/ledger.rs, git_compaction.rs).
SegmentsAreKept == PacksAreStored /\ StoredIsTracked

\* The marker never claims more than the directory holds, a handle stays usable
\* for as long as it is held, and no request waits for a build that is over
\* (cache.rs, cache/coordinator.rs, repository_engine.rs).
HandlesAreSound ==
  Cache!TypeOK /\ Cache!MarkerIsSound /\ Cache!HandlesStayUsable /\ Cache!WaitersHaveALeader
=============================================================================
