------------------------------- MODULE MCGit -------------------------------
(***************************************************************************)
(* Small instances of GitSegments and GitCache for TLC: two compactors     *)
(* that race for a repository with two segments, a segment that is         *)
(* compacted, retired and swept, and three requests for the local cache.   *)
(* part names the one a behaviour is of.                                   *)
(***************************************************************************)
EXTENDS GitStorage, TLC

CONSTANTS s1, s2, k1, k2, t1, t2, t3

VARIABLE part

cacheVars == <<mainHead, dir, request, build, task, torn>>
mcVars == <<part, vars, cacheVars>>

\* Two compactors race without a sweep, or one segment is compacted and swept.
TakesPart ==
  \/ part = "compact" /\ \A w \in Sweepers : sweep[w].pc = "idle"
  \/ /\ part = "sweep" /\ head < MaxPushes
     /\ \E k \in Compactors : \A other \in Compactors \ {k} : comp[other].pc = "idle"
     /\ \E s \in Segments : \A other \in Segments \ {s} : ledger[other] = "none"

MCInit == part \in {"compact", "sweep", "cache"} /\ Init /\ Cache!Init

MCNext ==
  /\ UNCHANGED part
  /\ \/ Next /\ TakesPart' /\ UNCHANGED cacheVars
     \/ part = "cache" /\ Cache!Next /\ UNCHANGED vars

MCSpec == MCInit /\ [][MCNext]_mcVars

Symmetry == UNION {Permutations(S) : S \in {{s1, s2}, {k1, k2}, {t1, t2, t3}}}
=============================================================================
