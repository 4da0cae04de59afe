---------------------------- MODULE PushTriggers ----------------------------
(***************************************************************************)
(* From an accepted push to its runs: the outbox that leases jobs to the   *)
(* control loops of the workers (scope-postgres/src/db/outbox.rs), the     *)
(* evaluation of push triggers that it executes (push_triggers.rs) and the *)
(* allow-list of native runs, whose withdrawal cancels what it finds       *)
(* (native_runs.rs, native_runs/withdrawal.rs).                            *)
(*                                                                         *)
(* One repository.  A job is executed and completed in one transaction,    *)
(* which holds the row of its evaluation exclusively and, when the owner   *)
(* is listed, the row of the listing shared until it ends; what it wrote   *)
(* is seen only when it commits.  A worker may crash anywhere, which rolls *)
(* its transaction back.  Abstracted: the runs of a push are one run; the  *)
(* other kind of job (a read-model rebuild, which repeats what the push    *)
(* did already) has rows of its own and touches none of these.             *)
(*                                                                         *)
(* Times are relative: due counts the ticks to next_run_at_unix of a ready *)
(* job and to lease_expires_at_unix of a running one.                      *)
(***************************************************************************)
EXTENDS Integers, FiniteSets

CONSTANTS
  Pushes,        \* accepted pushes to main, by change version
  Workers,       \* worker processes, each with a worker_id of its own
  Nobody,        \* no lease owner
  LeaseTime,     \* DEFAULT_JOB_LEASE_SECS
  RetryDelay,    \* bound on retry_delay_seconds()
  MaxAttempts    \* MAX_JOB_ATTEMPTS

PushTriggersAssumption ==
  /\ LeaseTime \in Nat \ {0} /\ RetryDelay \in Nat /\ MaxAttempts \in Nat \ {0}
  /\ Nobody \notin Workers \cup Pushes

VARIABLES
  repo,        \* whether the repository exists
  evaluation,  \* scope_push_trigger_evaluations
  job,         \* scope_outbox_jobs
  run,         \* the runs of a push
  listed,      \* scope_native_runs_accounts has the owner
  worker,      \* local state of a control loop
  settle       \* local state of a withdrawal

vars == <<repo, evaluation, job, run, listed, worker, settle>>

-----------------------------------------------------------------------------
(* Vocabulary *)

Ended == {"Succeeded", "ConfigurationError", "Failed"}

NoJob == [state |-> "none", owner |-> Nobody, attempts |-> 0, due |-> 0]
NoWork == [pc |-> "idle", push |-> Nobody, fresh |-> FALSE, listed |-> FALSE]
NoSettlement == [pc |-> "idle", todo |-> {}, relisted |-> FALSE]

\* The transactions that have locked the evaluation of a push.
Evaluating(p) == {w \in Workers : worker[w].pc = "executing" /\ worker[w].push = p}

\* Mutant: the listing is read without FOR SHARE.
Sharing_Unlocked == {}

\* The transactions that hold the listing of the owner shared.
Sharing == {w \in Workers : worker[w].pc = "executing" /\ worker[w].listed}

\* claim_next_ready_job(): a due job, or one whose lease has expired.
Runnable(p) == job[p].due = 0 /\ job[p].state \in {"ready", "running"}

-----------------------------------------------------------------------------
(* Pushes and runs *)

\* enqueue_push_main_trigger_evaluation(), in the transaction of the push: a
\* push without workflows is evaluated on the spot.
AcceptPush(p, requiresEvaluation) ==
  /\ repo /\ evaluation[p] = "none"
  /\ IF requiresEvaluation
     THEN /\ evaluation' = [evaluation EXCEPT ![p] = "Pending"]
          /\ job' = [job EXCEPT ![p] = [NoJob EXCEPT !.state = "ready"]]
     ELSE /\ evaluation' = [evaluation EXCEPT ![p] = "Succeeded"]
          /\ UNCHANGED job
  /\ UNCHANGED <<repo, run, listed, worker, settle>>

RunEnds(p) ==
  /\ run[p] \in {"active", "canceling"}
  /\ run' = [run EXCEPT ![p] = "ended"]
  /\ UNCHANGED <<repo, evaluation, job, listed, worker, settle>>

\* RunStore::retry_run() asks for the listing in its own transaction.
RetryRun(p) ==
  /\ run[p] = "ended" /\ listed
  /\ run' = [run EXCEPT ![p] = "active"]
  /\ UNCHANGED <<repo, evaluation, job, listed, worker, settle>>

\* Deleting the repository removes its rows, and waits for whoever has them
\* locked.
DeleteRepo ==
  /\ repo /\ \A p \in Pushes : Evaluating(p) = {}
  /\ repo' = FALSE
  /\ evaluation' = [p \in Pushes |-> "none"]
  /\ job' = [p \in Pushes |-> NoJob]
  /\ run' = [p \in Pushes |-> "none"]
  /\ UNCHANGED <<listed, worker, settle>>

-----------------------------------------------------------------------------
(* The outbox *)

Claim(w, p) ==
  /\ worker[w].pc = "idle" /\ Runnable(p)
  /\ job' = [job EXCEPT ![p].state = "running", ![p].owner = w, ![p].due = LeaseTime]
  /\ worker' = [worker EXCEPT ![w] = [NoWork EXCEPT !.pc = "claimed", !.push = p]]
  /\ UNCHANGED <<repo, evaluation, run, listed, settle>>

\* load_job_payload() finds the job's row.
LoadPayload(w) ==
  /\ worker[w].pc = "claimed" /\ job[worker[w].push].state # "none"
  /\ worker' = [worker EXCEPT ![w].pc = "loaded"]
  /\ UNCHANGED <<repo, evaluation, job, run, listed, settle>>

\* evaluate(), up to the availability of native runs: an evaluation that is
\* gone or has ended leaves nothing to do.
Evaluate(w) ==
  LET p == worker[w].push
  IN /\ worker[w].pc = "loaded" /\ Evaluating(p) = {}
     /\ worker' = [worker EXCEPT ![w].pc = "executing",
                                 ![w].fresh = (evaluation[p] = "Pending"),
                                 ![w].listed = (evaluation[p] = "Pending" /\ listed)]
     /\ UNCHANGED <<repo, evaluation, job, run, listed, settle>>

\* The rest of evaluate(), complete_outbox_job() and the commit.  When the
\* lease was lost, or the repository is gone, nothing is written.
Complete(w, outcome, creates) ==
  LET p == worker[w].push
  IN /\ worker[w].pc = "executing"
     /\ ~worker[w].fresh => outcome = evaluation[p] /\ ~creates
     /\ worker[w].fresh => outcome \in {"Succeeded", "ConfigurationError"}
     /\ worker[w].fresh /\ ~worker[w].listed => outcome = "Succeeded" /\ ~creates
     /\ creates => outcome = "Succeeded"
     /\ IF job[p].owner = w
        THEN /\ job' = [job EXCEPT ![p].state = "succeeded", ![p].owner = Nobody, ![p].due = 0]
             /\ evaluation' = [evaluation EXCEPT ![p] = outcome]
             /\ run' = IF creates THEN [run EXCEPT ![p] = "active"] ELSE run
        ELSE UNCHANGED <<job, evaluation, run>>
     /\ worker' = [worker EXCEPT ![w] = NoWork]
     /\ UNCHANGED <<repo, listed, settle>>

\* The execution fails and its transaction is rolled back.
ExecutionFails(w) ==
  /\ worker[w].pc \in {"claimed", "loaded", "executing"}
  /\ worker' = [worker EXCEPT ![w] = [NoWork EXCEPT !.pc = "failing", !.push = worker[w].push]]
  /\ UNCHANGED <<repo, evaluation, job, run, listed, settle>>

\* Mutant: exhausted retries end the job but not its evaluation.
FailTerminally_JobOnly(w, p) ==
  /\ job' = [job EXCEPT ![p] = [state |-> "failed", owner |-> Nobody,
                                attempts |-> MaxAttempts, due |-> 0]]
  /\ UNCHANGED evaluation

\* mark_terminal_failure() is part of the transaction that fails the job.
FailTerminally(w, p) ==
  /\ Evaluating(p) = {}
  /\ job' = [job EXCEPT ![p] = [state |-> "failed", owner |-> Nobody,
                                attempts |-> MaxAttempts, due |-> 0]]
  /\ evaluation' = [evaluation EXCEPT ![p] = IF @ = "Pending" THEN "Failed" ELSE @]

\* The job is due again after retry_delay_seconds().
Reschedule(p) ==
  /\ \E delay \in 0..RetryDelay :
       job' = [job EXCEPT ![p] = [state |-> "ready", owner |-> Nobody,
                                  attempts |-> @.attempts + 1, due |-> delay]]
  /\ UNCHANGED evaluation

\* fail_outbox_job()
RecordFailure(w) ==
  LET p == worker[w].push
  IN /\ worker[w].pc = "failing"
     /\ IF job[p].owner # w THEN UNCHANGED <<job, evaluation>>
        ELSE IF job[p].attempts + 1 >= MaxAttempts THEN FailTerminally(w, p)
        ELSE Reschedule(p)
     /\ worker' = [worker EXCEPT ![w] = NoWork]
     /\ UNCHANGED <<repo, run, listed, settle>>

WorkerCrash(w) ==
  /\ worker[w].pc # "idle"
  /\ worker' = [worker EXCEPT ![w] = NoWork]
  /\ UNCHANGED <<repo, evaluation, job, run, listed, settle>>

\* prune_succeeded_outbox_jobs()
PruneJob(p) ==
  /\ job[p].state = "succeeded"
  /\ job' = [job EXCEPT ![p] = NoJob]
  /\ UNCHANGED <<repo, evaluation, run, listed, worker, settle>>

-----------------------------------------------------------------------------
(* The allow-list *)

AddAccount ==
  /\ ~listed
  /\ listed' = TRUE
  /\ settle' = [settle EXCEPT !.relisted = TRUE]
  /\ UNCHANGED <<repo, evaluation, job, run, worker>>

\* remove_account(): the deletion of the listing waits for the transactions
\* that hold it; settling follows, also when there was nothing to delete.
RemoveAccount ==
  /\ settle.pc \in {"idle", "done"}
  /\ listed => Sharing = {}
  /\ listed' = FALSE
  /\ settle' = [NoSettlement EXCEPT !.pc = "list"]
  /\ UNCHANGED <<repo, evaluation, job, run, worker>>

\* unfinished_run_ids()
SettleList ==
  /\ settle.pc = "list"
  /\ settle' = [settle EXCEPT !.pc = "cancel", !.todo = {p \in Pushes : run[p] = "active"}]
  /\ UNCHANGED <<repo, evaluation, job, run, listed, worker>>

\* cancel_run() looks at the listing and the run again.
SettleCancel(p) ==
  /\ settle.pc = "cancel" /\ p \in settle.todo
  /\ run' = IF ~listed /\ run[p] = "active" THEN [run EXCEPT ![p] = "canceling"] ELSE run
  /\ settle' = [settle EXCEPT !.todo = @ \ {p}]
  /\ UNCHANGED <<repo, evaluation, job, listed, worker>>

SettleEnds ==
  /\ settle.pc = "cancel" /\ settle.todo = {}
  /\ settle' = [settle EXCEPT !.pc = "done"]
  /\ UNCHANGED <<repo, evaluation, job, run, listed, worker>>

SettleCrash ==
  /\ settle.pc \in {"list", "cancel"}
  /\ settle' = NoSettlement
  /\ UNCHANGED <<repo, evaluation, job, run, listed, worker>>

-----------------------------------------------------------------------------
(* The specification *)

Tick ==
  /\ job' = [p \in Pushes |-> [job[p] EXCEPT !.due = IF @ = 0 THEN 0 ELSE @ - 1]]
  /\ UNCHANGED <<repo, evaluation, run, listed, worker, settle>>

Init ==
  /\ repo = TRUE /\ listed = TRUE
  /\ evaluation = [p \in Pushes |-> "none"]
  /\ job = [p \in Pushes |-> NoJob]
  /\ run = [p \in Pushes |-> "none"]
  /\ worker = [w \in Workers |-> NoWork]
  /\ settle = NoSettlement

Completes(w) ==
  \E outcome \in Ended \cup {"none"}, creates \in BOOLEAN : Complete(w, outcome, creates)

\* What a worker does with the job it has claimed.
Execution(w) ==
  \/ LoadPayload(w) \/ Evaluate(w) \/ Completes(w)
  \/ ExecutionFails(w) \/ RecordFailure(w) \/ WorkerCrash(w)

Next ==
  \/ \E p \in Pushes :
       \/ \E requiresEvaluation \in BOOLEAN : AcceptPush(p, requiresEvaluation)
       \/ RunEnds(p) \/ RetryRun(p) \/ PruneJob(p) \/ SettleCancel(p)
  \/ DeleteRepo
  \/ \E w \in Workers : Execution(w) \/ \E p \in Pushes : Claim(w, p)
  \/ AddAccount \/ RemoveAccount \/ SettleList \/ SettleEnds \/ SettleCrash
  \/ Tick

Spec == Init /\ [][Next]_vars

-----------------------------------------------------------------------------
(* Properties *)

TypeOK ==
  /\ repo \in BOOLEAN /\ listed \in BOOLEAN
  /\ evaluation \in [Pushes -> Ended \cup {"none", "Pending"}]
  /\ job \in [Pushes -> [state : {"none", "ready", "running", "succeeded", "failed"},
                         owner : Workers \cup {Nobody}, attempts : 0..MaxAttempts, due : Nat]]
  /\ run \in [Pushes -> {"none", "active", "canceling", "ended"}]
  /\ worker \in [Workers -> [pc : {"idle", "claimed", "loaded", "executing", "failing"},
                             push : Pushes \cup {Nobody}, fresh : BOOLEAN, listed : BOOLEAN]]
  /\ settle \in [pc : {"idle", "list", "cancel", "done"}, todo : SUBSET Pushes,
                 relisted : BOOLEAN]

\* A push that still waits for its evaluation has a job that will make it: no
\* crash, lost lease or exhausted retry leaves it pending for good.
PendingHasJob ==
  \A p \in Pushes : evaluation[p] = "Pending" => job[p].state \in {"ready", "running"}

\* Runs and the evaluation that explains them are created together: a push has
\* runs only if its evaluation says so, whoever lost a lease in between.
RunsAreExplained ==
  \A p \in Pushes : run[p] # "none" => evaluation[p] = "Succeeded"

\* Once a withdrawal has been settled no run of the owner is left running or
\* waiting, although triggers were being evaluated and runs retried meanwhile.
WithdrawnMeansStopped ==
  settle.pc = "done" /\ ~listed /\ ~settle.relisted => \A p \in Pushes : run[p] # "active"

\* No lease expires under an execution that is still under way, and no worker
\* crashes.
ExecutionsFit ==
  /\ \A p \in Pushes : job'[p].owner \notin {job[p].owner, Nobody} /\ job[p].owner # Nobody
                         => worker[job[p].owner].push # p
  /\ \A w \in Workers : ~ WorkerCrash(w)

\* Every evaluation ends, with runs, with an error, or with its repository,
\* although executions fail: whatever workers crashed and leases were taken
\* over before, once executions fit the 60 seconds of their lease.
EvaluationsEnd ==
  <>[][ExecutionsFit]_vars
    => \A p \in Pushes : evaluation[p] = "Pending" ~> evaluation[p] # "Pending"
=============================================================================
