--------------------------- MODULE DispatchBroker ---------------------------
(***************************************************************************)
(* The dispatch broker (deploy/aws/dispatch-broker): the Lambda function   *)
(* that starts and stops the ECS task of one attempt, with its DynamoDB    *)
(* journal record, the record's lock, and ECS as the broker sees it.       *)
(* Every call to DynamoDB, ECS, Secrets Manager or the API is a step of    *)
(* its own; between two of them the invocation may be killed, and each of  *)
(* them may fail with its effect done or not done.                         *)
(*                                                                         *)
(* Time is kept as ages and countdowns that Tick advances and saturates,   *)
(* so no bound on the clock is needed.  int(self.clock()) is one reading   *)
(* per step.  Lambda's hard timeout is the guard of Tick.                  *)
(*                                                                         *)
(* Abstracted: the launch specification, task definitions (the bootstrap   *)
(* secret stands for the setup that cleanup removes), image and deadline   *)
(* comparison (the API derives both from the attempt, they cannot change), *)
(* the once-only report of a stuck stop, and logging.                      *)
(***************************************************************************)
EXTENDS Naturals, FiniteSets

CONSTANTS
  Invocations,         \* invocations that may be alive at the same time
  MaxTasks,            \* tasks ECS may create for the attempt in the model
  MaxStarts,           \* start calls made for the attempt, duplicates included
  MaxFaults,           \* failing calls and killed invocations
  LambdaHardTimeout,   \* LAMBDA_HARD_TIMEOUT_SECONDS
  LockSeconds,         \* LOCK_SECONDS
  ConsistencySeconds,  \* CONSISTENCY_SECONDS
  StopCheckSeconds,    \* STOP_CHECK_SECONDS
  ListDelay            \* seconds until ECS lists and describes a new task

ASSUME InvocationsAssumption ==
  /\ IsFiniteSet(Invocations) /\ "none" \notin Invocations /\ "orphan" \notin Invocations
  /\ MaxTasks \in Nat \ {0} /\ MaxStarts \in Nat /\ MaxFaults \in Nat

\* journal.py: LOCK_SECONDS = LAMBDA_HARD_TIMEOUT_SECONDS + 60.  The wait for an
\* uncertain launch covers three things: RunTask is called up to a timeout after
\* launch_at was read, ECS lists the task ListDelay later, and a stop decides on
\* a listing that is up to another timeout old.  With 120 and 300 seconds this
\* leaves ECS 60 seconds.
ASSUME TimingAssumption ==
  /\ LambdaHardTimeout \in Nat \ {0} /\ LockSeconds \in Nat /\ ConsistencySeconds \in Nat
  /\ StopCheckSeconds \in Nat /\ ListDelay \in Nat
  /\ LambdaHardTimeout < LockSeconds
  /\ 2 * LambdaHardTimeout + ListDelay =< ConsistencySeconds

VARIABLES
  journal,    \* the DynamoDB item of the attempt, without its lock
  lock,       \* its lock_owner and the seconds until lock_until has passed
  inv,        \* the invocations
  ecs,        \* the tasks of the attempt in ECS
  secret,     \* whether the bootstrap secret exists in Secrets Manager
  authority,  \* what the API authorizes for the attempt
  answered,   \* history: the definite replies to the coordinator's calls
  starts,     \* start calls so far
  faults      \* faults so far

vars == <<journal, lock, inv, ecs, secret, authority, answered, starts, faults>>

-----------------------------------------------------------------------------
(* Vocabulary *)

Tasks == 1..MaxTasks
NoTask == 0
Phases == {"None", "preparing", "registered", "launching", "running", "stopping", "stopped"}
Replies == {"none", "started", "rejected", "ambiguous", "stopping", "stopped"}

\* uncertain is the age of launch_at, or else of setup_at; both unset count as
\* long past.  wait counts down to next_stop_check_at.
NewRecord ==
  [phase |-> "None", task |-> NoTask, uncertain |-> ConsistencySeconds, rejected |-> FALSE,
   reconciling |-> {}, accepted |-> {}, wait |-> 0]

\* No invocation runs in this slot.
Idle ==
  [pc |-> "idle", kind |-> "start", own |-> TRUE, age |-> 0, rec |-> NewRecord,
   todo |-> {}, missing |-> FALSE, alive |-> FALSE, reply |-> "none"]

PCs == {"idle", "acquire", "authorize", "savePreparing", "prepare", "saveRegistered",
        "authorizeAgain", "saveLaunching", "launch", "saveRunning", "saveRejecting",
        "cleanup", "saveStopped", "find", "authorizeStop", "saveStopping", "list",
        "saveFound", "stopTask", "saveAccepted", "status", "saveSchedule", "release"}

Active(i) == inv[i].pc # "idle"

Executing(t) == ecs[t].state \in {"Live", "Stopping"}
Settled(t) == ecs[t].age = ListDelay

Fault == faults < MaxFaults /\ faults' = faults + 1
NoFault == UNCHANGED faults

\* The invocation i continues with the given values.
Continue(i, next) == inv' = [inv EXCEPT ![i] = next]

\* handle's return: the reply is fixed, only the finally clause is left.
Return(i, reply) ==
  Continue(i, [Idle EXCEPT !.pc = "release", !.kind = inv[i].kind, !.own = inv[i].own,
                           !.age = inv[i].age, !.reply = reply])

\* Mutant: every denial is answered as a rejection, whatever the journal holds.
Deny_AlwaysRejected(i, rec) == Return(i, "rejected")

\* `except Exception', `except Denied'
Ambiguous(i) == Return(i, "ambiguous")
Deny(i, rec) == Return(i, IF rec.phase \in {"None", "stopped"} THEN "rejected" ELSE "ambiguous")

\* The replies the coordinator acts on; it takes any other one as `retry later'.
Definite == {<<"start", "started">>, <<"start", "rejected">>, <<"stop", "stopped">>}

-----------------------------------------------------------------------------
(* Journal (journal.py)                                                     *)

Invoke(i, kind, own) ==
  /\ ~Active(i)
  /\ IF kind = "start" THEN starts < MaxStarts /\ starts' = starts + 1
                       ELSE own /\ UNCHANGED starts
  /\ Continue(i, [Idle EXCEPT !.pc = "acquire", !.kind = kind, !.own = own])
  /\ UNCHANGED <<journal, lock, ecs, secret, authority, answered, faults>>

\* Mutant: the lock lapses while the invocation that holds it may still run.
LockTerm_TooShort == LambdaHardTimeout

\* lock_until < now first holds LOCK_SECONDS + 1 seconds after the acquisition.
LockTerm == LockSeconds + 1

LockFree == lock.owner = "none" \/ lock.left = 0

\* Mutant: a start that finds a launch marker launches once more.
StartFrom_Relaunches(i, rec) ==
  IF rec.phase = "launching" THEN Continue(i, [inv[i] EXCEPT !.pc = "launch", !.rec = rec])
  ELSE IF rec.phase \in {"stopping", "stopped"} THEN Deny(i, rec)
  ELSE IF rec.phase = "running" THEN Return(i, "started")
  ELSE Continue(i, [inv[i] EXCEPT !.pc = "authorize", !.rec = rec])

\* The head of Broker.start, on the record just read.
StartFrom(i, rec) ==
  IF rec.phase # "None" /\ ~inv[i].own THEN Deny(i, rec)
  ELSE CASE rec.phase = "stopped" /\ rec.rejected -> Return(i, "rejected")
         [] rec.phase = "stopped" /\ ~rec.rejected -> Deny(i, rec)
         [] rec.phase = "stopping" -> Deny(i, rec)
         [] rec.phase = "running" -> Return(i, "started")
         [] rec.phase = "launching" -> Continue(i, [inv[i] EXCEPT !.pc = "find", !.rec = rec])
         [] OTHER -> Continue(i, [inv[i] EXCEPT !.pc = "authorize", !.rec = rec])

\* Journal.acquire.  If its response is lost the lock is taken but never released.
Acquire(i) ==
  /\ inv[i].pc = "acquire"
  /\ \/ /\ LockFree
        /\ lock' = [owner |-> i, left |-> LockTerm]
        /\ IF inv[i].kind = "start"
             THEN StartFrom(i, journal)
             ELSE Continue(i, [inv[i] EXCEPT !.pc = "authorizeStop", !.rec = journal])
        /\ NoFault
     \/ /\ ~LockFree /\ Ambiguous(i) /\ UNCHANGED lock /\ NoFault
     \/ /\ Fault /\ Ambiguous(i)
        /\ UNCHANGED lock \/ (LockFree /\ lock' = [owner |-> "orphan", left |-> LockTerm])
  /\ UNCHANGED <<journal, ecs, secret, authority, answered, starts>>

\* Journal.save of rec at step `at', then on to `next' or to the reply.
SavePut(i, rec) ==
  IF lock.owner = i THEN journal' = rec ELSE UNCHANGED journal

Save(i, at, rec, next, reply) ==
  /\ inv[i].pc = at
  /\ \/ /\ lock.owner = i
        /\ journal' = rec
        /\ IF next = "release" THEN Return(i, reply)
                               ELSE Continue(i, [inv[i] EXCEPT !.pc = next, !.rec = rec])
        /\ NoFault
     \/ /\ lock.owner # i /\ Ambiguous(i) /\ UNCHANGED journal /\ NoFault
     \/ /\ Fault /\ Ambiguous(i)
        /\ UNCHANGED journal \/ SavePut(i, rec)
  /\ UNCHANGED <<lock, ecs, secret, authority, answered, starts>>

\* Journal.release, and the reply reaches the caller.
Release(i) ==
  /\ inv[i].pc = "release"
  /\ answered' = IF inv[i].own THEN answered \cup ({<<inv[i].kind, inv[i].reply>>} \cap Definite)
                              ELSE answered
  /\ Continue(i, Idle)
  /\ \/ /\ lock' = IF lock.owner = i THEN [owner |-> "none", left |-> 0] ELSE lock
        /\ NoFault
     \/ /\ lock.owner = i /\ Fault
        /\ lock' = [lock EXCEPT !.owner = "orphan"]
  /\ UNCHANGED <<journal, ecs, secret, authority, starts>>

\* Lambda kills the invocation, or it crashes: no finally clause, no reply.
Kill(i) ==
  /\ Active(i)
  /\ Fault
  /\ Continue(i, Idle)
  /\ lock' = IF lock.owner = i THEN [lock EXCEPT !.owner = "orphan"] ELSE lock
  /\ UNCHANGED <<journal, ecs, secret, authority, answered, starts>>

-----------------------------------------------------------------------------
(* start (lifecycle.py, provider.py)                                        *)

\* Authority.authorize: allowed, denied, or unavailable.
Authorize(i, at, allowed, Then) ==
  /\ inv[i].pc = at
  /\ \/ allowed /\ Then /\ NoFault
     \/ ~allowed /\ Deny(i, inv[i].rec) /\ NoFault
     \/ Fault /\ Ambiguous(i)
  /\ UNCHANGED <<journal, lock, ecs, secret, authority, answered, starts>>

StartAllowed(i) == inv[i].own /\ authority = "start"

AuthorizeStart(i) ==
  LET resume == [None |-> "savePreparing", preparing |-> "prepare",
                 registered |-> "authorizeAgain"]
  IN Authorize(i, "authorize", StartAllowed(i),
       Continue(i, [inv[i] EXCEPT !.pc = resume[inv[i].rec.phase]]))

SavePreparing(i) ==
  Save(i, "savePreparing", [inv[i].rec EXCEPT !.phase = "preparing", !.uncertain = 0],
       "prepare", "none")

\* Provider.prepare: the secret is created, or found to exist.
Prepare(i) ==
  /\ inv[i].pc = "prepare"
  /\ \/ secret' = TRUE /\ Continue(i, [inv[i] EXCEPT !.pc = "saveRegistered"]) /\ NoFault
     \/ secret' \in {secret, TRUE} /\ Fault /\ Ambiguous(i)
  /\ UNCHANGED <<journal, lock, ecs, authority, answered, starts>>

SaveRegistered(i) ==
  Save(i, "saveRegistered", [inv[i].rec EXCEPT !.phase = "registered"], "authorizeAgain", "none")

AuthorizeAgain(i) ==
  Authorize(i, "authorizeAgain", StartAllowed(i),
    Continue(i, [inv[i] EXCEPT !.pc = "saveLaunching"]))

SaveLaunching(i) ==
  Save(i, "saveLaunching", [inv[i].rec EXCEPT !.phase = "launching", !.uncertain = 0],
       "launch", "none")

\* The task RunTask creates.
NewTask(t) == ecs[t].state = "None" /\ \A u \in Tasks : u < t => ecs[u].state # "None"
Created(t) == [ecs EXCEPT ![t] = [state |-> "Live", age |-> 0]]

\* Provider.launch: a task, a definite rejection, or an unknown outcome.
Launch(i) ==
  /\ inv[i].pc = "launch"
  /\ \/ \E t \in Tasks :
          /\ NewTask(t) /\ ecs' = Created(t)
          /\ \/ Continue(i, [inv[i] EXCEPT !.pc = "saveRunning", !.rec.task = t]) /\ NoFault
             \/ Fault /\ Ambiguous(i)
     \/ /\ Continue(i, [inv[i] EXCEPT !.pc = "saveRejecting"])
        /\ UNCHANGED ecs /\ NoFault
     \/ Fault /\ Ambiguous(i) /\ UNCHANGED ecs
  /\ UNCHANGED <<journal, lock, secret, authority, answered, starts>>

SaveRunning(i) ==
  Save(i, "saveRunning", [inv[i].rec EXCEPT !.phase = "running"], "release", "started")

SaveRejecting(i) ==
  Save(i, "saveRejecting", [inv[i].rec EXCEPT !.phase = "stopping", !.rejected = TRUE],
       "cleanup", "none")

\* Provider.cleanup, which both flows end with.
Cleanup(i) ==
  /\ inv[i].pc = "cleanup"
  /\ \/ secret' = FALSE /\ Continue(i, [inv[i] EXCEPT !.pc = "saveStopped"]) /\ NoFault
     \/ secret' \in {secret, FALSE} /\ Fault /\ Ambiguous(i)
  /\ UNCHANGED <<journal, lock, ecs, authority, answered, starts>>

SaveStopped(i) ==
  Save(i, "saveStopped", [inv[i].rec EXCEPT !.phase = "stopped"], "release",
       IF inv[i].kind = "start" THEN "rejected" ELSE "stopped")

\* Provider.find: ListTasks by startedBy.  A task that is stopping need not be
\* listed any more, one that is not settled need not be listed yet.
Listing(found) ==
  /\ {t \in Tasks : ecs[t].state = "Live" /\ Settled(t)} \subseteq found
  /\ \A t \in found : Executing(t)

\* A repeated start discovers the task of an uncertain launch, or stays pending.
Find(i) ==
  /\ inv[i].pc = "find"
  /\ \/ \E found \in SUBSET Tasks :
          /\ Listing(found)
          /\ \/ \E t \in found :
                  /\ found = {t}
                  /\ Continue(i, [inv[i] EXCEPT !.pc = "saveRunning", !.rec.task = t])
             \/ Cardinality(found) # 1 /\ Ambiguous(i)
          /\ NoFault
     \/ Fault /\ Ambiguous(i)
  /\ UNCHANGED <<journal, lock, ecs, secret, authority, answered, starts>>

-----------------------------------------------------------------------------
(* stop (lifecycle.py, provider.py)                                         *)

\* Mutant: a stop under way is never looked at again.
AuthorizeStop_NeverChecksAgain(i) ==
  LET rec == inv[i].rec IN
  Authorize(i, "authorizeStop", authority = "stop",
    \/ rec.phase = "stopped" /\ Return(i, "stopped")
    \/ rec.phase = "stopping" /\ Return(i, "stopping")
    \/ rec.phase \notin {"stopped", "stopping"}
         /\ Continue(i, [inv[i] EXCEPT !.pc = "saveStopping"]))

AuthorizeStop(i) ==
  LET rec == inv[i].rec IN
  Authorize(i, "authorizeStop", authority = "stop",
    \/ rec.phase = "stopped" /\ Return(i, "stopped")
    \/ rec.phase = "stopping" /\ rec.wait > 0 /\ Return(i, "stopping")
    \/ rec.phase # "stopped" /\ ~(rec.phase = "stopping" /\ rec.wait > 0)
         /\ Continue(i, [inv[i] EXCEPT !.pc = "saveStopping"]))

SaveStopping(i) ==
  Save(i, "saveStopping", [inv[i].rec EXCEPT !.phase = "stopping"], "list", "none")

List(i) ==
  /\ inv[i].pc = "list"
  /\ \/ \E found \in SUBSET Tasks :
          LET tasks == found \cup ({inv[i].rec.task} \ {NoTask}) \cup inv[i].rec.reconciling IN
          /\ Listing(found)
          /\ Continue(i, [inv[i] EXCEPT !.pc = "saveFound", !.rec.reconciling = tasks,
                                        !.todo = tasks, !.missing = FALSE, !.alive = FALSE])
          /\ NoFault
     \/ Fault /\ Ambiguous(i)
  /\ UNCHANGED <<journal, lock, ecs, secret, authority, answered, starts>>

\* Mutant: a task that ECS does not know (yet) is taken to be gone.
StopConfirmed_IgnoresConsistency(rec, alive, missing) == ~alive

\* Every task is STOPPED, or absent for long enough.
StopConfirmed(rec, alive, missing) ==
  /\ ~alive
  /\ missing => rec.uncertain = ConsistencySeconds
  /\ rec.task = NoTask /\ ~rec.rejected => rec.uncertain = ConsistencySeconds

\* The next iteration of stop's loop over the tasks, or its end.
AfterTasks(v) ==
  IF v.todo # {} THEN "stopTask"
  ELSE IF StopConfirmed(v.rec, v.alive, v.missing) THEN "cleanup" ELSE "saveSchedule"

SaveFound(i) == Save(i, "saveFound", inv[i].rec, AfterTasks(inv[i]), "none")

FirstTodo(i, t) == t \in inv[i].todo /\ \A u \in inv[i].todo : t =< u

\* Provider.stop: accepted, not found (any more, or yet), or failed either way.
StopTask(i) ==
  \E t \in Tasks :
    LET Request == ecs' = IF ecs[t].state = "Live" THEN [ecs EXCEPT ![t].state = "Stopping"]
                                                   ELSE ecs
    IN
    /\ inv[i].pc = "stopTask" /\ FirstTodo(i, t)
    /\ \/ /\ t \in inv[i].rec.accepted
          /\ Continue(i, [inv[i] EXCEPT !.pc = "status"]) /\ UNCHANGED ecs /\ NoFault
       \/ /\ t \notin inv[i].rec.accepted
          /\ \/ /\ Request /\ NoFault
                /\ Continue(i, [inv[i] EXCEPT !.pc = "saveAccepted"])
             \/ /\ ~(Executing(t) /\ Settled(t)) /\ UNCHANGED ecs /\ NoFault
                /\ Continue(i, [inv[i] EXCEPT !.pc = "status"])
             \/ /\ Request \/ UNCHANGED ecs
                /\ Fault /\ Ambiguous(i)
    /\ UNCHANGED <<journal, lock, secret, authority, answered, starts>>

SaveAccepted(i) ==
  \E t \in Tasks :
    /\ FirstTodo(i, t)
    /\ Save(i, "saveAccepted", [inv[i].rec EXCEPT !.accepted = @ \cup {t}], "status", "none")

\* Provider.status of the task, and the end of its iteration.
Status(i) ==
  \E t \in Tasks :
    LET v == [inv[i] EXCEPT !.todo = @ \ {t}]
        Seen(w) == Continue(i, [w EXCEPT !.pc = AfterTasks(w)]) /\ NoFault
    IN
    /\ inv[i].pc = "status" /\ FirstTodo(i, t)
    /\ \/ ecs[t].state = "Stopped" /\ Seen(v)
       \/ ~(Executing(t) /\ Settled(t)) /\ Seen([v EXCEPT !.missing = TRUE])
       \/ Executing(t) /\ Seen([v EXCEPT !.alive = TRUE])
       \/ Fault /\ Ambiguous(i)
    /\ UNCHANGED <<journal, lock, ecs, secret, authority, answered, starts>>

SaveSchedule(i) ==
  Save(i, "saveSchedule", [inv[i].rec EXCEPT !.wait = StopCheckSeconds], "release", "stopping")

-----------------------------------------------------------------------------
(* Surroundings: ECS, the API's view of the attempt, time                   *)

\* The runtime exits on its own, or a requested stop takes effect.
TaskExit(t) ==
  /\ ecs[t].state \in {"Live", "Stopping"}
  /\ ecs' = [ecs EXCEPT ![t].state = "Stopped"]
  /\ UNCHANGED <<journal, lock, inv, secret, authority, answered, starts, faults>>

\* authorize_start holds until the attempt is claimed, canceled, ended or past
\* its lease; authorize_stop from its end or the run's cancellation on.
AuthorityChanges ==
  /\ \/ authority = "start" /\ authority' \in {"neither", "stop"}
     \/ authority = "neither" /\ authority' = "stop"
  /\ UNCHANGED <<journal, lock, inv, ecs, secret, answered, starts, faults>>

Up(age, limit) == IF age < limit THEN age + 1 ELSE age
Down(left) == IF left > 0 THEN left - 1 ELSE 0

Older(rec) == [rec EXCEPT !.uncertain = Up(@, ConsistencySeconds), !.wait = Down(@)]

\* Lambda lets no invocation live past its hard timeout.
Tick ==
  /\ \A i \in Invocations : Active(i) => inv[i].age < LambdaHardTimeout
  /\ journal' = Older(journal)
  /\ lock' = [lock EXCEPT !.left = Down(@)]
  /\ inv' = [i \in Invocations |->
               IF Active(i) THEN [inv[i] EXCEPT !.age = @ + 1, !.rec = Older(@)] ELSE inv[i]]
  /\ ecs' = [t \in Tasks |->
               IF ecs[t].state = "None" THEN ecs[t] ELSE [ecs[t] EXCEPT !.age = Up(@, ListDelay)]]
  /\ UNCHANGED <<secret, authority, answered, starts, faults>>

-----------------------------------------------------------------------------
(* The specification                                                        *)

Init ==
  /\ journal = NewRecord
  /\ lock = [owner |-> "none", left |-> 0]
  /\ inv = [i \in Invocations |-> Idle]
  /\ ecs = [t \in Tasks |-> [state |-> "None", age |-> 0]]
  /\ secret = FALSE
  /\ authority = "start"
  /\ answered = {}
  /\ starts = 0 /\ faults = 0

StartSteps(i) ==
  \/ AuthorizeStart(i) \/ SavePreparing(i) \/ Prepare(i) \/ SaveRegistered(i)
  \/ AuthorizeAgain(i) \/ SaveLaunching(i) \/ Launch(i) \/ SaveRunning(i)
  \/ SaveRejecting(i) \/ Find(i)

StopSteps(i) ==
  \/ AuthorizeStop(i) \/ SaveStopping(i) \/ List(i) \/ SaveFound(i) \/ StopTask(i)
  \/ SaveAccepted(i) \/ Status(i) \/ SaveSchedule(i)

InvocationStep(i) ==
  Acquire(i) \/ StartSteps(i) \/ StopSteps(i) \/ Cleanup(i) \/ SaveStopped(i) \/ Release(i)

Next ==
  \/ \E i \in Invocations :
       \/ \E kind \in {"start", "stop"}, own \in BOOLEAN : Invoke(i, kind, own)
       \/ InvocationStep(i)
       \/ Kill(i)
  \/ \E t \in Tasks : TaskExit(t)
  \/ AuthorityChanges
  \/ Tick

Spec == Init /\ [][Next]_vars

\* Lambda runs every invocation on, ECS carries out every stop it accepted, time
\* passes, and the coordinator repeats its stop calls until one is confirmed.
FairSpec ==
  /\ Spec
  /\ WF_vars(Tick)
  /\ \A i \in Invocations : WF_vars(InvocationStep(i)) /\ WF_vars(Invoke(i, "stop", TRUE))
  /\ \A t \in Tasks : WF_vars(ecs[t].state = "Stopping" /\ TaskExit(t))

-----------------------------------------------------------------------------
(* Properties                                                               *)

Records ==
  [phase : Phases, task : Tasks \cup {NoTask}, uncertain : 0..ConsistencySeconds,
   rejected : BOOLEAN, reconciling : SUBSET Tasks, accepted : SUBSET Tasks,
   wait : 0..StopCheckSeconds]

TypeOK ==
  /\ journal \in Records
  /\ lock \in [owner : Invocations \cup {"none", "orphan"}, left : 0..LockTerm]
  /\ inv \in [Invocations ->
       [pc : PCs, kind : {"start", "stop"}, own : BOOLEAN, age : 0..LambdaHardTimeout,
        rec : Records, todo : SUBSET Tasks, missing : BOOLEAN, alive : BOOLEAN,
        reply : Replies]]
  /\ ecs \in [Tasks -> [state : {"None", "Live", "Stopping", "Stopped"}, age : 0..ListDelay]]
  /\ secret \in BOOLEAN
  /\ authority \in {"start", "neither", "stop"}
  /\ answered \subseteq Definite
  /\ starts \in 0..MaxStarts /\ faults \in 0..MaxFaults

\* DISPATCH-BROKER.md: "an expired lock cannot overlap a still-running old
\* invocation".  No two invocations are ever between a successful acquire and
\* their release, whatever was killed, lost or delayed before.
Serialized ==
  \A i, k \in Invocations :
    i # k => ~(inv[i].pc \notin {"idle", "acquire", "release"}
               /\ inv[k].pc \notin {"idle", "acquire", "release"})

\* "It never calls RunTask again after an uncertain launch": ECS creates at most
\* one task for the attempt, and only behind a durable launch marker.
OneLaunch ==
  /\ Cardinality({t \in Tasks : ecs[t].state # "None"}) =< 1
  /\ \A t \in Tasks : ecs[t].state # "None" =>
       journal.phase \in {"launching", "running", "stopping", "stopped"}

\* Once the journal says stopped, no task is executing, none will be launched by
\* an invocation still under way, and the bootstrap secret is gone.
StoppedMeansGone ==
  journal.phase = "stopped" =>
    /\ \A t \in Tasks : ~Executing(t)
    /\ \A i \in Invocations : inv[i].pc \notin {"saveLaunching", "launch", "prepare"}
    /\ ~secret

\* The caller can trust a definite answer: a started attempt has its task in the
\* journal.
StartedIsRecorded ==
  <<"start", "started">> \in answered => journal.task # NoTask /\ ecs[journal.task].state # "None"

\* The broker implements the contract the coordinator relies on: one task per
\* attempt, and nothing executes once stopped or rejected has been answered.
launched == {t \in Tasks : ecs[t].state # "None"}
taskBar == IF launched = {} THEN "Absent"
           ELSE IF Cardinality(launched) > 1 THEN "Relaunched"
           ELSE IF \E t \in launched : Executing(t) THEN "Live" ELSE "Gone"

Provider == INSTANCE TaskProvider WITH
  Attempts <- {"attempt"},
  task <- [a \in {"attempt"} |-> taskBar],
  closed <- IF answered \ {<<"start", "started">>} # {} THEN {"attempt"} ELSE {}

ImplementsTaskProvider == Provider!Spec

\* Cleanup ends: once the API authorizes the stop, the repeated stop calls get
\* the attempt to its tombstone, through expired locks, uncertain launches and
\* failed calls.
CleanupCompletes == authority = "stop" ~> (journal.phase = "stopped" /\ ~secret)
=============================================================================
