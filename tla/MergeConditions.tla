-------------------------- MODULE MergeConditions --------------------------
(***************************************************************************)
(* What lets a request merge: somebody's intent that still stands          *)
(* (AutoMerge), and check results of GitHub that are recent (GitHubChecks).*)
(* AutoMerge takes the outcome of the checks as it comes; GitHubChecks     *)
(* opens up how it is read.                                                *)
(***************************************************************************)
EXTENDS AutoMerge

CONSTANTS Readers, Merges, Freshness, MaxTime, MaxReads, MaxMain

VARIABLES
  now, github, held, connected, main, evaluation, refresh, reader, merge, mergeLanding

Checks == INSTANCE GitHubChecks WITH landing <- mergeLanding

ASSUME ChecksAssumption == Checks!GitHubChecksAssumption

-----------------------------------------------------------------------------
(* The properties of GitHubChecks *)

\* A merge lands only on checks that GitHub has reported as passed recently, of
\* a commit that was tested together with the main it lands on; what is stored
\* for a commit is what GitHub said (github_check_runs.rs, evidence.rs,
\* request_check_commits.rs).
MergedOnGoodChecks ==
  Checks!TypeOK /\ Checks!StoredWasTrue /\ Checks!MergedOnFreshChecks /\ Checks!MergedAsTested

\* Reads are applied in the order of their numbers, and no merge outruns a newer
\* read of its checks (apply_github_check_read(), locked_merge_checks()).
ReadsAreOrdered == Checks!ReadsApplyInOrder /\ Checks!NoReadIsOutrun
=============================================================================
