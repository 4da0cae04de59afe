------------------------------ MODULE Landing ------------------------------
(***************************************************************************)
(* What an accepted main gives rise to: the group commit of merges into it *)
(* (MergeCommitter) and, from an accepted push on, the evaluation of its   *)
(* triggers (PushTriggers), which begins with the outbox row that the      *)
(* transaction of the push leaves behind.  They share no other state.      *)
(***************************************************************************)
EXTENDS MergeCommitter

CONSTANTS Pushes, Workers, LeaseTime, RetryDelay, MaxAttempts

VARIABLES repo, evaluation, job, run, listed, worker, settle

Push == INSTANCE PushTriggers

ASSUME PushAssumption == Push!PushTriggersAssumption

-----------------------------------------------------------------------------
(* The properties of PushTriggers *)

\* A push that still waits for its evaluation has a job that will make it, and
\* runs are created together with the evaluation that explains them
\* (push_triggers.rs, outbox.rs).
PushesAreFollowed == Push!TypeOK /\ Push!PendingHasJob /\ Push!RunsAreExplained

\* Once a withdrawal has been settled no run of the owner is left active
\* (native_runs/withdrawal.rs).
WithdrawnMeansStopped == Push!WithdrawnMeansStopped
=============================================================================
