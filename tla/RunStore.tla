------------------------------ MODULE RunStore ------------------------------
(***************************************************************************)
(* One workflow run as the run store persists it: the run row, one row per *)
(* workflow job, and one row per dispatched attempt of a job together with *)
(* its step rows.  Every public mutation of scope-postgres' RunStore is    *)
(* one action, because each of them is one PostgreSQL transaction that     *)
(* locks the rows it reads (job rows, then the run row, then the attempt   *)
(* and its steps) before it applies a scope-domain transition.             *)
(*                                                                         *)
(* The callers are left open: any holder of a token, the lease recovery    *)
(* loop, the run coordinator and users may call any operation at any time, *)
(* with a clock reading that is up to MaxStaleness behind, which is how    *)
(* late, duplicated and reordered requests appear here.  An operation that *)
(* the code answers with an error rolls back and is not a step.            *)
(*                                                                         *)
(* Abstracted: ids, images, exit codes, messages and log bytes; the        *)
(* timestamps of single steps; the auto-merge row of the request, which    *)
(* mutate_attempt and mutate_active_attempt stop when the run has ended    *)
(* and never read.  A job's capacity_retry of None is a record with zero   *)
(* rejections, an Option<u64> time of None is NoTime.                      *)
(***************************************************************************)
EXTENDS Naturals, FiniteSets

CONSTANTS
  Jobs,                 \* the jobs of the workflow revision
  Needs,                \* Needs[j]: the jobs j depends on
  NumSteps,             \* steps of a job
  MaxRunAttempts,       \* MAX_RUN_ATTEMPTS
  MaxCapacityRetries,   \* MAX_CAPACITY_RETRIES
  CapacityRetryWindow,  \* CAPACITY_RETRY_WINDOW_SECONDS
  CapacityRetryDelays,  \* the delay table of record_capacity_rejection
  DispatchLease,        \* the coordinator's DISPATCH_LEASE
  AttemptLease,         \* the API's ATTEMPT_LEASE_SECONDS
  MaxAttemptAge,        \* MAX_RUN_ATTEMPT_AGE_SECONDS
  MaxStaleness,         \* how far behind a caller's now_unix may be
  MaxClock              \* bound on the explored time

ASSUME JobsAssumption ==
  /\ Jobs # {} /\ IsFiniteSet(Jobs)
  /\ Needs \in [Jobs -> SUBSET Jobs]

\* WorkflowDefinition refuses a cyclic graph (validate_job_graph).
ASSUME AcyclicAssumption ==
  \E rank \in [Jobs -> 1..Cardinality(Jobs)] :
    \A j \in Jobs : \A d \in Needs[j] : rank[d] < rank[j]

ASSUME BoundsAssumption ==
  /\ NumSteps \in Nat \ {0}
  /\ MaxRunAttempts \in Nat \ {0}
  /\ MaxCapacityRetries \in Nat
  /\ CapacityRetryWindow \in Nat \ {0}
  /\ CapacityRetryDelays \in [1..3 -> Nat \ {0}]
  /\ DispatchLease \in Nat \ {0}
  /\ AttemptLease \in Nat \ {0}
  /\ MaxAttemptAge \in Nat \ {0}
  /\ MaxStaleness \in Nat
  /\ MaxClock \in Nat \ {0}

VARIABLES
  clock,    \* the current second; 1 is the first, NoTime is none
  run,      \* scope_runs: state, cancellation_requested, updated_at
  job,      \* scope_run_jobs, by job
  attempt   \* scope_run_attempts with scope_run_attempt_steps, by job and number

vars == <<clock, run, job, attempt>>

-----------------------------------------------------------------------------
(* Vocabulary *)

NoTime == 0
NoNumber == 0
Numbers == 1..MaxRunAttempts
Steps == 1..NumSteps
Tokens == {"bootstrap", "runtime"}   \* which of the two secrets the stored hash is of

JobActive == {"Dispatching", "Running"}
JobTerminal == {"Succeeded", "Failed", "Skipped", "Canceled", "Lost"}
JobStates == {"Blocked", "Queued"} \cup JobActive \cup JobTerminal

AttemptActive == {"Dispatching", "Running"}
AttemptTerminal == {"Succeeded", "Failed", "Canceled", "Lost"}
AttemptStates == {"Absent"} \cup AttemptActive \cup AttemptTerminal

RunTerminal == {"Succeeded", "Failed", "Canceled", "Lost"}
RunStates == {"Queued", "Dispatching", "Running"} \cup RunTerminal

StepStates == {"Pending", "Running", "Succeeded", "Failed", "Canceled", "Lost", "Skipped"}

TerminalReasons == {"None", "StepFailed", "TimedOut", "Canceled", "ExecutionLost",
                    "DispatchAttemptsExhausted", "RuntimeSetupFailed",
                    "ProviderCapacityRejected"}

NoCapacityRetry == [first |-> NoTime, rejections |-> 0, next |-> NoTime]

\* A number no attempt has taken yet.
NoAttempt ==
  [state |-> "Absent", token |-> "bootstrap", reason |-> "None",
   lease |-> 0, heartbeat |-> 0, created |-> 0, started |-> FALSE,
   completed |-> NoTime, steps |-> [i \in Steps |-> "Pending"]]

\* The clock readings a transaction may carry: now_unix is read before the
\* transaction begins, so other transactions may commit in between.
Now == {t \in 1..clock : clock =< t + MaxStaleness}

Later(a, b) == IF a >= b THEN a ELSE b
IsLatest(t, S) == t \in S /\ \A s \in S : s =< t

-----------------------------------------------------------------------------
(* Reconciliation of a run with its jobs (scope-domain/src/runs/job.rs)     *)

\* One pass over the jobs in topological order.  Each Blocked job is settled
\* from the already settled states of the jobs it needs; because the graph is
\* acyclic the equation below has exactly one solution, the pass's result.
BlockedJobs(js) == {j \in Jobs : js[j].state = "Blocked"}

\* Mutant: a job is queued once all it needs has ended, however it ended.
ResolvedState_AnyOutcome(settled, j) ==
  IF \A d \in Needs[j] : settled[d].state \in JobTerminal THEN "Queued" ELSE "Blocked"

ResolvedState(settled, j) ==
  CASE \E d \in Needs[j] : settled[d].state \in JobTerminal \ {"Succeeded"} -> "Skipped"
    [] \A d \in Needs[j] : settled[d].state = "Succeeded" -> "Queued"
    [] OTHER -> "Blocked"

ResolvedTime(js, settled, now, j, t) ==
  IF settled[j].state = "Blocked"
    THEN t = js[j].updated
    ELSE IsLatest(t, {now, js[j].updated} \cup {settled[d].updated : d \in Needs[j]})

ResolveBlocked(js, now) ==
  LET stamps == {now} \cup {js[j].updated : j \in Jobs}
      Outcome(f) == [j \in Jobs |->
                       IF j \in BlockedJobs(js)
                         THEN [js[j] EXCEPT !.state = f[j].state, !.updated = f[j].updated]
                         ELSE js[j]]
      outcomes == {Outcome(f) : f \in [BlockedJobs(js) ->
                     [state : {"Blocked", "Queued", "Skipped"}, updated : stamps]]}
  IN {settled \in outcomes : \A j \in BlockedJobs(js) :
        /\ settled[j].state = ResolvedState(settled, j)
        /\ ResolvedTime(js, settled, now, j, settled[j].updated)}

\* derive_run_state, first half: a requested cancellation takes every job that
\* has not been dispatched with it.
CancelUndispatched(js, ct) ==
  [j \in Jobs |->
     IF js[j].state \in {"Blocked", "Queued"}
       THEN [js[j] EXCEPT !.state = "Canceled", !.updated = Later(ct, js[j].updated),
                          !.retry = [js[j].retry EXCEPT !.next = NoTime]]
       ELSE js[j]]

\* Mutant: a job lost by its runner does not count against the run.
AggregateState_IgnoresLost(previous, js) ==
  LET states == {js[j].state : j \in Jobs} IN
  IF states \subseteq JobTerminal
    THEN IF "Canceled" \in states THEN "Canceled"
         ELSE IF "Failed" \in states THEN "Failed" ELSE "Succeeded"
    ELSE IF previous = "Running" \/ "Running" \in states THEN "Running" ELSE "Queued"

\* derive_run_state, second half: the run's state is a function of its jobs,
\* except that a run that has been Running stays Running until it ends.
AggregateState(previous, js) ==
  LET states == {js[j].state : j \in Jobs}
      outcomes == IF "Canceled" \in states THEN "Canceled"
                  ELSE IF "Failed" \in states THEN "Failed"
                  ELSE IF "Lost" \in states THEN "Lost"
                  ELSE "Succeeded"
  IN IF states \subseteq JobTerminal THEN outcomes
     ELSE IF previous = "Running" \/ "Running" \in states THEN "Running"
     ELSE IF "Dispatching" \in states THEN "Dispatching"
     ELSE "Queued"

\* derive_run_state: writes the run row, and of the jobs those in `saved'.
DeriveRunState(r, js, now, saved) ==
  LET cancel == r.cancel \/ \E j \in Jobs : js[j].state = "Canceled"
      cancelStamps == {now} \cup {js[j].updated : j \in {k \in Jobs : js[k].state = "Canceled"}}
  IN \E ct \in cancelStamps :
       /\ IsLatest(ct, cancelStamps)
       /\ LET settled == IF cancel THEN CancelUndispatched(js, ct) ELSE js
              next == AggregateState(r.state, settled)
              runStamps == {now, r.updated} \cup {settled[j].updated : j \in Jobs}
          IN \E at \in runStamps :
               /\ IsLatest(at, runStamps)
               /\ job' = [j \in Jobs |-> IF j \in saved THEN settled[j] ELSE job[j]]
               /\ run' = [state |-> next,
                          cancel |-> cancel /\ (next \in RunTerminal => next = "Canceled"),
                          updated |-> at]

ReconcileRun(js, now, saved) ==
  \E settled \in ResolveBlocked(js, now) : DeriveRunState(run, settled, now, saved)

-----------------------------------------------------------------------------
(* Shared guards and the shared ends of the transactions                    *)

LatestAttempt(j, n) == job[j].last = n
CurrentAttempt(j, n) == LatestAttempt(j, n) /\ job[j].current = n
JobAlignment(j, n) == LatestAttempt(j, n) /\ job[j].state = attempt[j][n].state

AuthenticateIdentity(j, n, token) == JobAlignment(j, n) /\ attempt[j][n].token = token

Authenticate(j, n, token, now) ==
  /\ AuthenticateIdentity(j, n, token)
  /\ CurrentAttempt(j, n)
  /\ now < attempt[j][n].lease

NotBeforeHeartbeat(j, n, now) == attempt[j][n].heartbeat =< now
NotBeforeUpdate(j, now) == job[j].updated =< now

\* The CHECK constraint scope_run_attempts_values: a transaction that would
\* store such a row rolls back, whatever the domain decided.
AttemptRowCheck(a) ==
  /\ a.created =< a.heartbeat
  /\ a.heartbeat < a.lease
  /\ a.completed # NoTime => a.heartbeat =< a.completed

SaveAttempt(j, n, a) ==
  /\ AttemptRowCheck(a)
  /\ attempt' = [attempt EXCEPT ![j] = [@ EXCEPT ![n] = a]]

\* mutate_attempt: all jobs of the run are locked and all are saved.
MutateAttempt(j, n, newJob, newAttempt) ==
  /\ SaveAttempt(j, n, newAttempt)
  /\ ReconcileRun([job EXCEPT ![j] = newJob],
                  IF newAttempt.completed # NoTime THEN newAttempt.completed ELSE newJob.updated,
                  Jobs)
  /\ UNCHANGED clock

\* Mutant: the job and its attempt are saved, the run is not.
MutateActiveAttempt_RunForgotten(j, n, newJob, newAttempt) ==
  /\ SaveAttempt(j, n, newAttempt)
  /\ job' = [job EXCEPT ![j] = newJob]
  /\ UNCHANGED <<clock, run>>

\* mutate_active_attempt: the run is derived from all jobs, but only the job of
\* the attempt is saved.
MutateActiveAttempt(j, n, newJob, newAttempt) ==
  /\ SaveAttempt(j, n, newAttempt)
  /\ ReconcileRun([job EXCEPT ![j] = newJob], newJob.updated, {j})
  /\ UNCHANGED clock

\* skip_pending_steps, interrupt_steps
SkipPending(steps) == [i \in Steps |-> IF steps[i] = "Pending" THEN "Skipped" ELSE steps[i]]
InterruptSteps(steps, state) ==
  SkipPending([i \in Steps |-> IF steps[i] = "Running" THEN state ELSE steps[i]])

Finished(a, state, reason, steps, now) ==
  [a EXCEPT !.state = state, !.reason = reason, !.steps = steps, !.completed = now]

\* Mutant: the job keeps pointing at the attempt that ended.
Released_KeepsCurrent(k, state, now) == [k EXCEPT !.state = state, !.updated = now]

Released(k, state, now) == [k EXCEPT !.state = state, !.current = NoNumber, !.updated = now]

-----------------------------------------------------------------------------
(* Dispatch and capacity                                                    *)

CapacityRetryDue(j, now) ==
  LET retry == job[j].retry IN
  retry.rejections > 0 => /\ retry.next =< now
                          /\ now < retry.first + CapacityRetryWindow

\* dispatch_in_transaction: RunJob::dispatch, the inserted attempt and step
\* rows, and the reconciled run.
Dispatch(j, now) ==
  LET n == job[j].last + 1 IN
  /\ job[j].state = "Queued" /\ job[j].current = NoNumber
  /\ ~run.cancel /\ run.state \notin RunTerminal
  /\ NotBeforeUpdate(j, now)
  /\ CapacityRetryDue(j, now)
  /\ n \in Numbers
  /\ SaveAttempt(j, n, [NoAttempt EXCEPT !.state = "Dispatching", !.lease = now + DispatchLease,
                                         !.heartbeat = now, !.created = now])
  /\ ReconcileRun([job EXCEPT ![j] = [job[j] EXCEPT !.state = "Dispatching", !.last = n,
                                                    !.current = n, !.updated = now,
                                                    !.retry = [job[j].retry EXCEPT !.next = NoTime]]],
                  now, {j})
  /\ UNCHANGED clock

\* record_capacity_rejection
CapacityRejected(k, now) ==
  LET first == IF k.retry.rejections = 0 THEN now ELSE k.retry.first
      rejections == k.retry.rejections + 1
      next == now + CapacityRetryDelays[IF rejections =< 3 THEN rejections ELSE 3]
      again == /\ rejections =< MaxCapacityRetries
               /\ k.last < MaxRunAttempts
               /\ next < first + CapacityRetryWindow
  IN [Released(k, IF again THEN "Queued" ELSE "Failed", now) EXCEPT
        !.retry = [first |-> first, rejections |-> rejections,
                   next |-> IF again THEN next ELSE NoTime]]

\* Mutant: a repeated report of a rejection is recorded once more.
RejectCapacity_NotIdempotent(j, n, now) ==
  LET a == attempt[j][n] IN
  /\ a.token = "bootstrap" /\ LatestAttempt(j, n)
  /\ a.state = "Dispatching" \/ a.reason = "ProviderCapacityRejected"
  /\ ~run.cancel
  /\ NotBeforeHeartbeat(j, n, now) /\ NotBeforeUpdate(j, now)
  /\ MutateAttempt(j, n, CapacityRejected(job[j], now),
       Finished(a, "Failed", "ProviderCapacityRejected", SkipPending(a.steps), now))

\* reject_capacity_attempt: the coordinator learnt that the provider had no
\* room.  A repeated report of a rejection that is already stored is accepted.
RejectCapacity(j, n, now) ==
  LET a == attempt[j][n] IN
  \/ /\ a.state \in AttemptTerminal
     /\ a.token = "bootstrap" /\ a.reason = "ProviderCapacityRejected"
     /\ MutateAttempt(j, n, job[j], a)
  \/ /\ Authenticate(j, n, "bootstrap", now)
     /\ a.state = "Dispatching" /\ ~a.started
     /\ ~run.cancel
     /\ NotBeforeHeartbeat(j, n, now) /\ NotBeforeUpdate(j, now)
     /\ MutateAttempt(j, n, CapacityRejected(job[j], now),
          Finished(a, "Failed", "ProviderCapacityRejected", SkipPending(a.steps), now))

\* Mutant: the job fails but its run is not reconciled.
ExpireCapacityRetry_JobOnly(j, now) ==
  /\ job[j].state = "Queued" /\ job[j].retry.rejections > 0
  /\ job[j].retry.first + CapacityRetryWindow =< now
  /\ job' = [job EXCEPT ![j] = [job[j] EXCEPT !.state = "Failed", !.updated = now,
                                          !.retry = [job[j].retry EXCEPT !.next = NoTime]]]
  /\ UNCHANGED <<clock, run, attempt>>

\* expire_capacity_retries, for one candidate job
ExpireCapacityRetry(j, now) ==
  /\ job[j].state = "Queued" /\ job[j].retry.rejections > 0
  /\ job[j].retry.first + CapacityRetryWindow =< now
  /\ NotBeforeUpdate(j, now)
  /\ ReconcileRun([job EXCEPT ![j] = [job[j] EXCEPT !.state = "Failed", !.updated = now,
                                                    !.retry = [job[j].retry EXCEPT !.next = NoTime]]],
                  now, Jobs)
  /\ UNCHANGED <<clock, attempt>>

-----------------------------------------------------------------------------
(* The runtime's protocol                                                   *)

\* claim_runtime: the runtime trades its bootstrap token for an attempt token.
ClaimRuntime(j, n, now) ==
  LET a == attempt[j][n] IN
  /\ Authenticate(j, n, "bootstrap", now)
  /\ a.state = "Dispatching"
  /\ SaveAttempt(j, n, [a EXCEPT !.token = "runtime", !.heartbeat = now,
                                 !.lease = now + AttemptLease])
  /\ UNCHANGED <<clock, run, job>>

\* heartbeat_attempt
Heartbeat(j, n, now) ==
  LET a == attempt[j][n] IN
  /\ Authenticate(j, n, "runtime", now)
  /\ a.state \notin AttemptTerminal
  /\ NotBeforeHeartbeat(j, n, now)
  /\ a.lease =< now + AttemptLease
  /\ SaveAttempt(j, n, [a EXCEPT !.heartbeat = now, !.lease = now + AttemptLease])
  /\ UNCHANGED <<clock, run, job>>

\* Mutant: a requested cancellation does not keep the next step from starting.
StepMayStart_IgnoresCancellation(a, i) ==
  a.steps[i] = "Pending" /\ \A k \in 1..(i-1) : a.steps[k] = "Succeeded"

StepMayStart(a, i) ==
  /\ ~run.cancel
  /\ a.steps[i] = "Pending"
  /\ \A k \in 1..(i-1) : a.steps[k] = "Succeeded"

\* start_attempt_step: RunAttempt::start_step, which for the first step of a
\* dispatching attempt is also RunAttempt::start.  A repeated start of the
\* running step is accepted.
StartStep(j, n, i, now) ==
  LET a == attempt[j][n]
      starting == a.state = "Dispatching" /\ i = 1
      running == [a EXCEPT !.state = "Running", !.started = TRUE]
      runningJob == [job[j] EXCEPT !.state = "Running", !.updated = now]
  IN /\ Authenticate(j, n, "runtime", now)
     /\ \/ /\ a.state = "Running" /\ a.steps[i] = "Running"
           /\ MutateActiveAttempt(j, n, job[j], a)
        \/ /\ a.state = "Running" \/ starting
           /\ StepMayStart(a, i)
           /\ NotBeforeHeartbeat(j, n, now) /\ NotBeforeUpdate(j, now)
           /\ MutateActiveAttempt(j, n, runningJob,
                [running EXCEPT !.steps = [@ EXCEPT ![i] = "Running"]])

\* complete_attempt_step.  A repeated report of the stored conclusion is
\* accepted, before and after the attempt has ended.
CompleteStep(j, n, i, conclusion, now) ==
  LET a == attempt[j][n]
      terminal == a.state \in AttemptTerminal \/ job[j].state \in JobTerminal
      steps == [a.steps EXCEPT ![i] = conclusion]
      Replay == IF conclusion = "Failed" THEN MutateAttempt(j, n, job[j], a)
                                         ELSE MutateActiveAttempt(j, n, job[j], a)
  IN \/ /\ AuthenticateIdentity(j, n, "runtime")
        /\ terminal \/ (CurrentAttempt(j, n) /\ now < a.lease)
        /\ a.steps[i] = conclusion
        /\ Replay
     \/ /\ ~terminal
        /\ Authenticate(j, n, "runtime", now)
        /\ a.steps[i] = "Running"
        /\ NotBeforeHeartbeat(j, n, now) /\ NotBeforeUpdate(j, now)
        /\ \/ /\ conclusion = "Succeeded"
              /\ MutateActiveAttempt(j, n, [job[j] EXCEPT !.updated = now],
                                     [a EXCEPT !.steps = steps])
           \/ /\ conclusion = "Failed"
              /\ MutateAttempt(j, n, Released(job[j], "Failed", now),
                   Finished(a, "Failed", "StepFailed", SkipPending(steps), now))

\* RunAttempt::matches_conclusion
MatchesConclusion(a, conclusion) ==
  \/ conclusion = "Succeeded" /\ a.state = "Succeeded"
  \/ conclusion \in {"Succeeded", "Canceled"} /\ a.state = "Canceled" /\ a.reason = "Canceled"
  \/ conclusion = "SetupFailed" /\ a.state = "Failed" /\ a.reason = "RuntimeSetupFailed"
  \/ conclusion = "TimedOut" /\ a.state = "Failed" /\ a.reason = "TimedOut"

\* complete_attempt: called by the runtime, and by the coordinator with the
\* bootstrap token when the provider rejected the dispatch.
CompleteAttempt(j, n, token, conclusion, now) ==
  LET a == attempt[j][n]
      terminal == a.state \in AttemptTerminal \/ job[j].state \in JobTerminal
      End(state, reason, steps) ==
        MutateAttempt(j, n, Released(job[j], state, now), Finished(a, state, reason, steps, now))
  IN \/ /\ terminal
        /\ AuthenticateIdentity(j, n, token)
        /\ MatchesConclusion(a, conclusion)
        /\ MutateAttempt(j, n, job[j], a)
     \/ /\ ~terminal
        /\ Authenticate(j, n, token, now)
        /\ NotBeforeHeartbeat(j, n, now) /\ NotBeforeUpdate(j, now)
        /\ \/ /\ conclusion = "Succeeded"
              /\ a.state = "Running" /\ \A i \in Steps : a.steps[i] = "Succeeded"
              /\ IF run.cancel THEN End("Canceled", "Canceled", a.steps)
                               ELSE End("Succeeded", "None", a.steps)
           \/ /\ conclusion = "SetupFailed"
              /\ a.state = "Dispatching"
              /\ End("Failed", "RuntimeSetupFailed", SkipPending(a.steps))
           \/ /\ conclusion = "TimedOut"
              /\ End("Failed", "TimedOut", InterruptSteps(a.steps, "Canceled"))
           \/ /\ conclusion = "Canceled"
              /\ run.cancel
              /\ End("Canceled", "Canceled", InterruptSteps(a.steps, "Canceled"))

-----------------------------------------------------------------------------
(* Loss, cancellation and retry                                             *)

\* finish_lost_or_requeue
FinishLostOrRequeue(j, n, now) ==
  LET a == attempt[j][n]
      exhausted == a.state = "Dispatching" /\ ~run.cancel /\ n = MaxRunAttempts
      state == CASE a.state = "Running" -> "Lost"
                 [] a.state # "Running" /\ run.cancel -> "Canceled"
                 [] exhausted -> "Lost"
                 [] OTHER -> "Queued"
  IN /\ CurrentAttempt(j, n)
     /\ NotBeforeUpdate(j, now)
     /\ MutateAttempt(j, n, Released(job[j], state, now),
          Finished(a, "Lost", IF exhausted THEN "DispatchAttemptsExhausted" ELSE "ExecutionLost",
                   InterruptSteps(a.steps, "Lost"), now))

\* expire_attempt, called by the lease recovery loop
ExpireAttempt(j, n, now) ==
  LET a == attempt[j][n] IN
  /\ CurrentAttempt(j, n)
  /\ a.state \notin AttemptTerminal
  /\ a.lease =< now \/ a.created + MaxAttemptAge =< now
  /\ FinishLostOrRequeue(j, n, now)

\* abandon_attempt, called by a runtime that cannot go on.  (A terminal attempt
\* is no longer current, so its early return is never reached.)
AbandonAttempt(j, n, now) ==
  /\ Authenticate(j, n, "runtime", now)
  /\ attempt[j][n].state \notin AttemptTerminal
  /\ FinishLostOrRequeue(j, n, now)

\* confirm_provider_cancellation, called by the coordinator once the task of an
\* attempt of a canceled run has been stopped.
ConfirmProviderCancellation(j, n, now) ==
  LET a == attempt[j][n] IN
  \/ /\ a.state = "Canceled" /\ job[j].state = "Canceled" /\ job[j].current = NoNumber
     /\ MutateAttempt(j, n, job[j], a)
  \/ /\ CurrentAttempt(j, n)
     /\ a.state \notin AttemptTerminal
     /\ run.cancel
     /\ NotBeforeUpdate(j, now)
     /\ MutateAttempt(j, n, Released(job[j], "Canceled", now),
          Finished(a, "Canceled", "Canceled", InterruptSteps(a.steps, "Canceled"), now))

\* request_run_cancellation
RequestCancellation(now) ==
  /\ run.state \notin RunTerminal /\ ~run.cancel
  /\ DeriveRunState([run EXCEPT !.cancel = TRUE, !.updated = Later(now, run.updated)],
                    job, now, Jobs)
  /\ UNCHANGED <<clock, attempt>>

InitialJobState(j) == IF Needs[j] = {} THEN "Queued" ELSE "Blocked"

\* retry_run
RetryRun(now) ==
  /\ run.state \in RunTerminal
  /\ run.updated =< now
  /\ \A j \in Jobs : NotBeforeUpdate(j, now) /\ job[j].last < MaxRunAttempts
  /\ job' = [j \in Jobs |-> [job[j] EXCEPT !.state = InitialJobState(j), !.current = NoNumber,
                                           !.updated = now, !.retry = NoCapacityRetry]]
  /\ run' = [state |-> "Queued", cancel |-> FALSE, updated |-> now]
  /\ UNCHANGED <<clock, attempt>>

-----------------------------------------------------------------------------
(* The specification                                                        *)

Init ==
  /\ clock = 1
  /\ run = [state |-> "Queued", cancel |-> FALSE, updated |-> 1]
  /\ job = [j \in Jobs |-> [state |-> InitialJobState(j), last |-> 0, current |-> NoNumber,
                            updated |-> 1, retry |-> NoCapacityRetry]]
  /\ attempt = [j \in Jobs |-> [n \in Numbers |-> NoAttempt]]

Tick ==
  /\ clock < MaxClock
  /\ clock' = clock + 1
  /\ UNCHANGED <<run, job, attempt>>

Conclusions == {"Succeeded", "SetupFailed", "TimedOut", "Canceled"}
StepConclusions == {"Succeeded", "Failed"}

JobAction(j, now) == Dispatch(j, now) \/ ExpireCapacityRetry(j, now)

\* Only an inserted attempt has an id to call with.
AttemptAction(j, n, now) ==
  /\ attempt[j][n].state # "Absent"
  /\ \/ RejectCapacity(j, n, now)
     \/ ClaimRuntime(j, n, now)
     \/ Heartbeat(j, n, now)
     \/ \E i \in Steps : StartStep(j, n, i, now)
     \/ \E i \in Steps, c \in StepConclusions : CompleteStep(j, n, i, c, now)
     \/ \E c \in Conclusions : CompleteAttempt(j, n, "runtime", c, now)
     \/ CompleteAttempt(j, n, "bootstrap", "SetupFailed", now)
     \/ ExpireAttempt(j, n, now)
     \/ AbandonAttempt(j, n, now)
     \/ ConfirmProviderCancellation(j, n, now)

Next ==
  \/ Tick
  \/ \E now \in Now :
       \/ RequestCancellation(now)
       \/ RetryRun(now)
       \/ \E j \in Jobs : JobAction(j, now)
       \/ \E j \in Jobs, n \in Numbers : AttemptAction(j, n, now)

Spec == Init /\ [][Next]_vars
-----------------------------------------------------------------------------
(* Properties                                                               *)

RunRows == [state : RunStates, cancel : BOOLEAN, updated : Nat]
Retries == [first : Nat, rejections : Nat, next : Nat]
JobRows ==
  [state : JobStates, last : Nat, current : Nat, updated : Nat, retry : Retries]
AttemptRows ==
  [state : AttemptStates, token : Tokens, reason : TerminalReasons, lease : Nat,
   heartbeat : Nat, created : Nat, started : BOOLEAN, completed : Nat,
   steps : [Steps -> StepStates]]

\* The rows hold what their columns admit.
TypeOK ==
  /\ clock \in Nat \ {0}
  /\ run \in RunRows
  /\ job \in [Jobs -> JobRows]
  /\ attempt \in [Jobs -> [Numbers -> AttemptRows]]

\* A job and its attempts never disagree about who is executing: an attempt is
\* active exactly while it is the job's current and latest one and the job has
\* the same state.  (Were it otherwise, ensure_job_alignment would refuse the
\* runtime for ever, or two runtimes would be accepted at once.)
AttemptJobAgreement ==
  \A j \in Jobs :
    /\ job[j].state \in JobActive <=> job[j].current # NoNumber
    /\ \A n \in Numbers :
         /\ attempt[j][n].state = "Absent" <=> n > job[j].last
         /\ attempt[j][n].state \in AttemptActive <=> job[j].current = n
         /\ job[j].current = n => job[j].last = n /\ job[j].state = attempt[j][n].state

\* validate_execution (step.rs): the stored steps of every attempt fit its state
\* and terminal reason.  Every mutation re-validates, so an attempt that failed
\* this once could never end.
InterruptedAs(steps, state) ==
  \/ \A i \in Steps : steps[i] \in {"Succeeded", "Skipped"}
  \/ \E i \in Steps : steps[i] = state /\ \A k \in (i+1)..NumSteps : steps[k] = "Skipped"

StepsFit(n, a) ==
  LET All(states) == \A i \in Steps : a.steps[i] \in states IN
  /\ \A i, k \in Steps :
       i < k /\ a.steps[i] # "Succeeded" => a.steps[k] \in {"Pending", "Skipped"}
  /\ CASE a.state \in {"Absent", "Dispatching"} -> a.reason = "None" /\ All({"Pending"})
       [] a.state = "Running" -> a.reason = "None" /\ All({"Succeeded", "Running", "Pending"})
       [] a.state = "Succeeded" -> a.reason = "None" /\ All({"Succeeded"})
       [] a.state = "Canceled" -> a.reason = "Canceled" /\ InterruptedAs(a.steps, "Canceled")
       [] a.state = "Failed" ->
            \/ a.reason = "StepFailed" /\ \E i \in Steps :
                 a.steps[i] = "Failed" /\ \A k \in (i+1)..NumSteps : a.steps[k] = "Skipped"
            \/ a.reason = "TimedOut" /\ InterruptedAs(a.steps, "Canceled")
            \/ a.reason = "RuntimeSetupFailed" /\ All({"Skipped"})
            \/ a.reason = "ProviderCapacityRejected" /\ ~a.started /\ All({"Skipped"})
       [] a.state = "Lost" ->
            \/ a.reason = "ExecutionLost" /\ InterruptedAs(a.steps, "Lost")
            \/ a.reason = "DispatchAttemptsExhausted" /\ ~a.started
                 /\ n = MaxRunAttempts /\ All({"Skipped"})

ExecutionFits == \A j \in Jobs : \A n \in Numbers : StepsFit(n, attempt[j][n])

\* RunJob::validate_facts and RunAttempt::validate_facts, which every load runs:
\* whatever interleaving of rejections, losses and stale clocks stored the rows,
\* the next transaction can read them back.
CapacityFacts(k) ==
  LET retry == k.retry IN
  retry.rejections > 0 =>
    /\ retry.rejections =< MaxCapacityRetries + 1
    /\ retry.first =< k.updated
    /\ retry.next # NoTime => /\ retry.first < retry.next
                              /\ retry.next < retry.first + CapacityRetryWindow
                              /\ retry.rejections =< MaxCapacityRetries
                              /\ k.state = "Queued"

AttemptFacts(a) ==
  /\ a.state \in {"Running", "Succeeded"} => a.started
  /\ a.state \in AttemptTerminal <=> a.completed # NoTime
  /\ a.state # "Absent" => /\ a.created =< a.heartbeat /\ a.heartbeat < a.lease
                           /\ a.completed # NoTime => a.heartbeat =< a.completed

RowsRestorable ==
  \A j \in Jobs : CapacityFacts(job[j]) /\ \A n \in Numbers : AttemptFacts(attempt[j][n])

\* The stored jobs are always settled: another reconcile_run would change none
\* of them.  start_attempt_step, complete_attempt_step and dispatch rely on it:
\* they derive the run from all jobs but save only their own.
JobsSettled ==
  \A j \in Jobs :
    /\ job[j].state = "Blocked" => ResolvedState(job, j) = "Blocked"
    /\ run.cancel => job[j].state \notin {"Blocked", "Queued"}

\* The run row tells the truth about its jobs, and its stamp is at least theirs.
RunReflectsJobs ==
  /\ run.state = AggregateState(run.state, job)
  /\ run.state \in RunTerminal => (run.cancel <=> run.state = "Canceled")
  /\ \A j \in Jobs :
       /\ job[j].updated =< run.updated
       /\ job[j].state = "Canceled" => run.cancel
       /\ \A n \in Numbers : attempt[j][n].completed =< run.updated

\* A dependent job has been dispatched only after everything it needs succeeded
\* in the same round of the run, and no need is taken back while it executes.
NeedsSucceeded ==
  \A j \in Jobs : job[j].state \notin {"Blocked", "Skipped", "Canceled"} =>
    \A d \in Needs[j] : job[d].state = "Succeeded"

\* Success is earned: a job that is Succeeded has a latest attempt in which every
\* step succeeded, and a run that is Succeeded has only such jobs; a Skipped job
\* never hides in a successful run.
SuccessIsEarned ==
  /\ \A j \in Jobs : job[j].state = "Succeeded" =>
       \E n \in Numbers : /\ n = job[j].last
                          /\ attempt[j][n].state = "Succeeded"
                          /\ \A i \in Steps : attempt[j][n].steps[i] = "Succeeded"
  /\ run.state = "Succeeded" => \A j \in Jobs : job[j].state = "Succeeded"

\* A finished attempt is history: no late, repeated or reordered report changes
\* its state, reason, steps or stamps.
FinishedAttemptsFrozen ==
  [][\A j \in Jobs, n \in Numbers :
       attempt[j][n].state \in AttemptTerminal => attempt'[j][n] = attempt[j][n]]_vars

\* A finished run only changes by a retry, which starts every job afresh:
\* repeated completions, rejections and cancellation confirmations that arrive
\* late are accepted but move neither the run, its jobs, nor their stamps.
FinishedRunsOnlyRetried ==
  [][run.state \in RunTerminal /\ <<run, job>>' # <<run, job>> =>
       /\ run' = [state |-> "Queued", cancel |-> FALSE, updated |-> run'.updated]
       /\ \A j \in Jobs : job'[j].state = InitialJobState(j) /\ job'[j].last = job[j].last]_vars

\* Cancellation is final for the round: from the request until a retry no
\* attempt is created, no step starts, and no job succeeds.
CancellationHolds ==
  [][run.cancel /\ run.state \notin RunTerminal =>
       /\ \A j \in Jobs : job'[j].last = job[j].last
       /\ \A j \in Jobs : job'[j].state = "Succeeded" => job[j].state = "Succeeded"
       /\ \A j \in Jobs, n \in Numbers, i \in Steps :
            attempt'[j][n].steps[i] = "Running" => attempt[j][n].steps[i] = "Running"]_vars
=============================================================================
