--------------------------- MODULE CloudExecution ---------------------------
(***************************************************************************)
(* Cloud execution: the run store of RunStore together with the worker's   *)
(* run coordinator (worker/src/execution/coordinator.rs) and the tasks it  *)
(* starts and stops through the dispatch broker (TaskProvider).            *)
(*                                                                         *)
(* Each database statement or transaction and each broker reply is a step. *)
(* Any number of worker processes may run: provisioning is tracked per     *)
(* attempt, stop reconciliation by the slots of Stoppers.  A worker may    *)
(* crash, or a statement fail, between any two steps, and every time it    *)
(* stores is the one it read when its phase began.                         *)
(*                                                                         *)
(* The runtime in the container may call the API from the moment its task  *)
(* has been launched; requests still under way when the task ends arrive   *)
(* late.  Abstracted: the native-runs allow-list (every repository is on   *)
(* it), batch sizes, analytics and change notifications.                   *)
(***************************************************************************)
EXTENDS RunStore

CONSTANTS
  MaxConcurrency,  \* SCOPE_CLOUD_RUN_MAX_CONCURRENCY
  StopClaimLease,  \* CLOUD_TASK_STOP_CLAIM_LEASE_SECS
  Stoppers,        \* stop reconciliations that may be under way at once
  RuntimeConclusions  \* bound on the conclusions a runtime reports

ASSUME CloudAssumption ==
  /\ MaxConcurrency \in Nat /\ StopClaimLease \in Nat \ {0} /\ IsFiniteSet(Stoppers)
  /\ RuntimeConclusions \subseteq Conclusions

VARIABLES
  stop,     \* runner_stop_claimed/completed_at_unix and external_run_id, by attempt
  start,    \* provision(), by attempt
  granted,  \* the attempts whose start the API has authorized to the broker
  stopper,  \* abort_canceled_attempt() and the tasks of cleanup_terminal()
  task,     \* TaskProvider
  closed    \* TaskProvider

storeVars == <<clock, run, job, attempt>>
coordinatorVars == <<stop, start, granted, stopper>>
providerVars == <<task, closed>>
cloudVars == <<storeVars, coordinatorVars, providerVars>>

-----------------------------------------------------------------------------
(* Vocabulary *)

Attempts == Jobs \X Numbers

Broker == INSTANCE TaskProvider

NoStop == [claimed |-> NoTime, completed |-> NoTime, external |-> FALSE]
NotStarting == [pc |-> "idle", reason |-> "None", now |-> NoTime]
NotStopping == [pc |-> "idle", target |-> <<>>, abort |-> FALSE, now |-> NoTime]

State(a) == attempt[a[1]][a[2]].state

\* authorize_start, authorize_stop (dispatch_authorization.rs)
MayStart(a) ==
  /\ Authenticate(a[1], a[2], "bootstrap", clock)
  /\ run.state \notin RunTerminal /\ ~run.cancel
  /\ State(a) = "Dispatching"
  /\ clock < attempt[a[1]][a[2]].created + MaxAttemptAge
MayStop(a) == run.cancel \/ State(a) \in AttemptTerminal

-----------------------------------------------------------------------------
(* Admission (run_admission.rs)                                             *)

Unstopped(a) == stop[a].completed = NoTime

\* Mutant: an attempt that ended holds no slot, whether its task was stopped or not.
Occupying_ActiveOnly == {a \in Attempts : State(a) \in AttemptActive}

\* Attempts that hold one of the MaxConcurrency slots.
Occupying ==
  {a \in Attempts : State(a) \in AttemptActive \/ (State(a) \in AttemptTerminal /\ Unstopped(a))}

\* Mutant: a job is admitted while the task of an earlier attempt may still run.
Admissible_IgnoresPrevious(j) == Cardinality(Occupying) < MaxConcurrency

\* admit_next_job: a slot is free and the job's previous tasks are gone.
Admissible(j) ==
  /\ Cardinality(Occupying) < MaxConcurrency
  /\ \A n \in Numbers : State(<<j, n>>) \in AttemptTerminal => ~Unstopped(<<j, n>>)

AdmitNextJob(j, now) ==
  LET a == <<j, job[j].last + 1>> IN
  /\ Admissible(j)
  /\ Dispatch(j, now)
  /\ start' = [start EXCEPT ![a] = [pc |-> "calling", reason |-> "None", now |-> now]]
  /\ UNCHANGED <<stop, granted, stopper, providerVars>>

-----------------------------------------------------------------------------
(* provision: one start call per attempt                                    *)

\* The broker asks the API.
AuthorizeStart(a) ==
  /\ State(a) # "Absent" /\ a \notin granted
  /\ MayStart(a)
  /\ granted' = granted \cup {a}
  /\ UNCHANGED <<storeVars, stop, start, stopper, providerVars>>

LaunchTask(a) ==
  /\ a \in granted
  /\ Broker!Launch(a)
  /\ UNCHANGED <<storeVars, coordinatorVars>>

\* The runtime exits, or the provider carries out a stop.
TaskEnds(a) ==
  /\ Broker!Finish(a)
  /\ UNCHANGED <<storeVars, coordinatorVars>>

StartedReply(a) ==
  /\ start[a].pc = "calling" /\ task[a] # "Absent"
  /\ start' = [start EXCEPT ![a].pc = "record"]
  /\ UNCHANGED <<storeVars, stop, granted, stopper, providerVars>>

\* Only ECS itself can lack capacity, so such a launch had been authorized.
RejectedReply(a, reason) ==
  /\ start[a].pc = "calling"
  /\ reason = "Capacity" => a \in granted /\ task[a] = "Absent"
  /\ Broker!Close(a)
  /\ start' = [start EXCEPT ![a].pc = "reject", ![a].reason = reason]
  /\ UNCHANGED <<storeVars, stop, granted, stopper>>

\* record_external_run_id
RecordExternalRunId(a) ==
  /\ start[a].pc = "record"
  /\ stop' = [stop EXCEPT ![a].external = TRUE]
  /\ start' = [start EXCEPT ![a] = NotStarting]
  /\ UNCHANGED <<storeVars, granted, stopper, providerVars>>

\* The time is read again, but never before the one the phase began with.
RejectStart(a) ==
  LET now == Later(clock, start[a].now) IN
  /\ start[a].pc = "reject"
  /\ \/ start[a].reason = "Capacity" /\ RejectCapacity(a[1], a[2], now)
     \/ start[a].reason = "Other" /\ CompleteAttempt(a[1], a[2], "bootstrap", "SetupFailed", now)
  /\ start' = [start EXCEPT ![a].pc = "absence", ![a].now = now]
  /\ UNCHANGED <<stop, granted, stopper, providerVars>>

\* The columns' part of the CHECK constraint scope_run_attempts_values.
StopRowCheck(a, s) ==
  /\ s.claimed # NoTime => attempt[a[1]][a[2]].created =< s.claimed
  /\ s.completed # NoTime => s.claimed # NoTime /\ s.claimed =< s.completed

SaveStop(a, s) == StopRowCheck(a, s) /\ stop' = [stop EXCEPT ![a] = s]

\* complete_cloud_task_absence
CompleteAbsence(a) ==
  /\ start[a].pc = "absence"
  /\ State(a) \in AttemptTerminal /\ ~stop[a].external /\ Unstopped(a)
  /\ SaveStop(a, [stop[a] EXCEPT !.claimed = start[a].now, !.completed = start[a].now])
  /\ start' = [start EXCEPT ![a] = NotStarting]
  /\ UNCHANGED <<storeVars, granted, stopper, providerVars>>

\* An ambiguous reply, a failed statement, or a crash: the attempt's lease and
\* the task cleanup own the rest.
ProvisionEnds(a) ==
  /\ start[a].pc # "idle"
  /\ start' = [start EXCEPT ![a] = NotStarting]
  /\ UNCHANGED <<storeVars, stop, granted, stopper, providerVars>>

-----------------------------------------------------------------------------
(* Stop reconciliation                                                      *)

\* Mutant: a claim is never taken over.
Claimable_NeverExpires(a, now) == Unstopped(a) /\ stop[a].claimed = NoTime

Claimable(a, now) ==
  /\ Unstopped(a)
  /\ stop[a].claimed = NoTime \/ stop[a].claimed + StopClaimLease =< now

\* claim_cloud_attempt_aborts, claim_terminal_cloud_task_stops
ClaimStop(w, a, abort, now) ==
  /\ stopper[w].pc = "idle"
  /\ IF abort THEN run.cancel /\ State(a) \in AttemptActive ELSE State(a) \in AttemptTerminal
  /\ Claimable(a, now)
  /\ SaveStop(a, [stop[a] EXCEPT !.claimed = now])
  /\ stopper' = [stopper EXCEPT ![w] = [pc |-> "calling", target |-> a, abort |-> abort,
                                        now |-> now]]
  /\ UNCHANGED <<storeVars, start, granted, providerVars>>

\* The broker answers stopped, which it does only if the API authorized the stop.
StoppedReply(w) ==
  /\ stopper[w].pc = "calling"
  /\ MayStop(stopper[w].target)
  /\ Broker!Close(stopper[w].target)
  /\ stopper' = [stopper EXCEPT ![w].pc = IF stopper[w].abort THEN "confirm" ELSE "complete"]
  /\ UNCHANGED <<storeVars, stop, start, granted>>

\* Mutant: a stop that is still pending is taken as done.
PendingReply_Completes(w) ==
  /\ stopper[w].pc = "calling"
  /\ stopper' = [stopper EXCEPT ![w].pc = IF stopper[w].abort THEN "confirm" ELSE "complete"]
  /\ UNCHANGED <<storeVars, stop, start, granted, providerVars>>

\* stopping, ambiguous, rejected, or no reply
PendingReply(w) ==
  /\ stopper[w].pc = "calling"
  /\ stopper' = [stopper EXCEPT ![w].pc = "release"]
  /\ UNCHANGED <<storeVars, stop, start, granted, providerVars>>

\* release_cloud_task_stop_claim, whoever holds the claim by now.
ReleaseStopClaim(w) ==
  LET a == stopper[w].target IN
  /\ stopper[w].pc = "release"
  /\ stop' = IF Unstopped(a) THEN [stop EXCEPT ![a].claimed = NoTime] ELSE stop
  /\ stopper' = [stopper EXCEPT ![w] = NotStopping]
  /\ UNCHANGED <<storeVars, start, granted, providerVars>>

Confirm(w) ==
  LET a == stopper[w].target IN
  /\ stopper[w].pc = "confirm"
  /\ ConfirmProviderCancellation(a[1], a[2], stopper[w].now)
  /\ stopper' = [stopper EXCEPT ![w].pc = "complete"]
  /\ UNCHANGED <<stop, start, granted, providerVars>>

\* complete_cloud_task_stop
CompleteStop(w) ==
  LET a == stopper[w].target IN
  /\ stopper[w].pc = "complete"
  /\ stop[a].claimed # NoTime /\ Unstopped(a)
  /\ SaveStop(a, [stop[a] EXCEPT !.completed = stopper[w].now])
  /\ stopper' = [stopper EXCEPT ![w] = NotStopping]
  /\ UNCHANGED <<storeVars, start, granted, providerVars>>

\* A failed statement or a crash leaves the claim to its lease.
StopperEnds(w) ==
  /\ stopper[w].pc # "idle"
  /\ stopper' = [stopper EXCEPT ![w] = NotStopping]
  /\ UNCHANGED <<storeVars, stop, start, granted, providerVars>>

-----------------------------------------------------------------------------
(* The specification                                                        *)

CloudInit ==
  /\ Init
  /\ stop = [a \in Attempts |-> NoStop]
  /\ start = [a \in Attempts |-> NotStarting]
  /\ granted = {}
  /\ stopper = [w \in Stoppers |-> NotStopping]
  /\ Broker!Init

\* What the runtime of attempt n of job j calls.
RuntimeCall(j, n, now) ==
  \/ ClaimRuntime(j, n, now)
  \/ Heartbeat(j, n, now)
  \/ \E i \in Steps : StartStep(j, n, i, now)
  \/ \E i \in Steps, c \in StepConclusions : CompleteStep(j, n, i, c, now)
  \/ \E c \in RuntimeConclusions : CompleteAttempt(j, n, "runtime", c, now)
  \/ AbandonAttempt(j, n, now)

Runtime(a, now) ==
  /\ task[a] # "Absent"
  /\ RuntimeCall(a[1], a[2], now)
  /\ UNCHANGED <<coordinatorVars, providerVars>>

\* Users, the capacity-retry sweep and the lease recovery loop.
StoreCall(now) ==
  /\ \/ RequestCancellation(now)
     \/ RetryRun(now)
     \/ \E j \in Jobs : ExpireCapacityRetry(j, now)
     \/ \E a \in Attempts : State(a) # "Absent" /\ ExpireAttempt(a[1], a[2], now)
  /\ UNCHANGED <<coordinatorVars, providerVars>>

Provisioning(a) ==
  \/ AuthorizeStart(a) \/ LaunchTask(a) \/ TaskEnds(a)
  \/ StartedReply(a) \/ RecordExternalRunId(a)
  \/ \E reason \in {"Capacity", "Other"} : RejectedReply(a, reason)
  \/ RejectStart(a) \/ CompleteAbsence(a) \/ ProvisionEnds(a)

Stopping(w) ==
  \/ StoppedReply(w) \/ PendingReply(w) \/ ReleaseStopClaim(w)
  \/ Confirm(w) \/ CompleteStop(w) \/ StopperEnds(w)

CloudNext ==
  \/ Tick /\ UNCHANGED <<coordinatorVars, providerVars>>
  \/ \E now \in Now :
       \/ StoreCall(now)
       \/ \E j \in Jobs : AdmitNextJob(j, now)
       \/ \E a \in Attempts : Runtime(a, now)
       \/ \E a \in Attempts, w \in Stoppers, abort \in BOOLEAN : ClaimStop(w, a, abort, now)
  \/ \E a \in Attempts : Provisioning(a)
  \/ \E w \in Stoppers : Stopping(w)

CloudSpec == CloudInit /\ [][CloudNext]_cloudVars

\* Some pass over the stop queue takes up attempt a.
TakesUp(a) == \E w \in Stoppers, abort \in BOOLEAN : ClaimStop(w, a, abort, clock)

\* The coordinator loop keeps polling and its passes end, in success or not; a task
\* ends once it is stopped; the broker does not answer "stopping" for ever.
CloudFairness ==
  /\ WF_cloudVars(Tick /\ UNCHANGED <<coordinatorVars, providerVars>>)
  /\ \A a \in Attempts :
       /\ WF_cloudVars(TaskEnds(a))
       /\ SF_cloudVars(TakesUp(a))
       /\ SF_cloudVars(\E w \in Stoppers : stopper[w].target = a /\ StoppedReply(w))
  /\ \A w \in Stoppers : WF_cloudVars(Stopping(w))

-----------------------------------------------------------------------------
(* Properties                                                               *)

CloudTypeOK ==
  /\ TypeOK
  /\ stop \in [Attempts -> [claimed : Nat, completed : Nat, external : BOOLEAN]]
  /\ start \in [Attempts -> [pc : {"idle", "calling", "record", "reject", "absence"},
                             reason : {"None", "Capacity", "Other"}, now : Nat]]
  /\ granted \subseteq Attempts
  /\ stopper \in [Stoppers -> [pc : {"idle", "calling", "release", "confirm", "complete"},
                               target : Attempts \cup {<<>>}, abort : BOOLEAN, now : Nat]]
  /\ task \in [Attempts -> Broker!TaskStates]
  /\ closed \subseteq Attempts

\* SCOPE_CLOUD_RUN_MAX_CONCURRENCY is a limit on tasks, not only on rows: however
\* leases expire and workers crash, no more tasks execute than were admitted.
ConcurrencyRespected == Cardinality({a \in Attempts : task[a] = "Live"}) =< MaxConcurrency

\* "Every previous attempt must have confirmed provider cleanup before a new one
\* starts": two tasks never execute the same job, not even the lost one and the
\* one that replaces it.
OneTaskPerJob ==
  \A a, b \in Attempts : task[a] = "Live" /\ task[b] = "Live" /\ a # b => a[1] # b[1]

\* A completed stop is the truth: its attempt has ended in the store, and its task
\* is gone for good (a late launch included).
StopCompletedMeansGone ==
  \A a \in Attempts : ~Unstopped(a) => State(a) \in AttemptTerminal /\ a \in closed

\* An abandoned claim that expires only after the explored time.
OutOfTime(a) ==
  /\ stop[a].claimed + StopClaimLease > MaxClock
  /\ \A w \in Stoppers : stopper[w].target # a

\* The task of every attempt that has ended, or whose run is canceled, is eventually
\* confirmed gone and its slot given back, although passes crash with the claim in
\* hand, the broker answers "stopping", and confirmations fail because the runtime
\* reported or was heard of meanwhile.
StopsComplete ==
  \A a \in Attempts :
    (State(a) \in AttemptTerminal \/ (run.cancel /\ State(a) \in AttemptActive))
      ~> (~Unstopped(a) \/ OutOfTime(a))
=============================================================================
