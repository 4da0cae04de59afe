--------------------------- MODULE ContentCleanup ---------------------------
(***************************************************************************)
(* Content-addressed run sources and the collector that deletes the ones   *)
(* no run refers to any more: the fenced publication of a bundle           *)
(* (api/src/use_cases/run_control.rs, request_check_sources.rs), run       *)
(* retention and repository deletion, which drop references, and the       *)
(* orphan-object queue drained by the worker and by the API               *)
(* (scope-content-lifecycle, scope-postgres/src/db/cleanup_queue).         *)
(*                                                                         *)
(* An object's key is the digest of its bytes, so two runs that upload the *)
(* same bundle share one object: publishing and collecting it race.  Each  *)
(* database transaction and each object-store reply is a step; publishers  *)
(* and drains may crash between any two of them, which ends the Postgres   *)
(* session that holds their fence.                                         *)
(*                                                                         *)
(* Times are relative: the due of a job counts the ticks until its         *)
(* next_run_at_unix.  A generation is fresh at every queueing and every    *)
(* claim and is only ever compared with the one a drain loaded, so a job   *)
(* records whose claim it carries.                                         *)
(***************************************************************************)
EXTENDS Integers, FiniteSets

CONSTANTS
  Objects,        \* content references
  Runs,           \* run ids, the ref_id of an object reference
  Publishers,     \* create_manual_run() and request_check_sources::prepare() calls
  Drains,         \* drain_source_blob_cleanup() calls
  Nobody,         \* no fence holder, no claimant
  Grace,          \* SOURCE_BLOB_DELETE_GRACE_SECONDS
  ClaimTime,      \* CLEANUP_CLAIM_SECONDS
  MaxAttempts,    \* bound on the attempts counter
  RetryDelays     \* next_cleanup_retry_at() - now, by attempts

ASSUME CleanupAssumption ==
  /\ Grace \in Nat /\ ClaimTime \in Nat \ {0} /\ MaxAttempts \in Nat \ {0}
  /\ RetryDelays \in [1..MaxAttempts -> Nat]
  /\ Publishers \cap Drains = {} /\ Nobody \notin Publishers \cup Drains

VARIABLES
  stored,     \* the objects in the object store
  refs,       \* scope_object_references: the runs that refer to an object
  job,        \* scope_orphan_object_jobs, by object
  fence,      \* who holds the advisory lock of an object
  publisher,  \* local state of a publication
  drain,      \* local state of a drain
  lost        \* objects left behind by a publication that could not queue them

vars == <<stored, refs, job, fence, publisher, drain, lost>>

-----------------------------------------------------------------------------
(* Vocabulary *)

Later(a, b) == IF a >= b THEN a ELSE b

NoJob == [open |-> FALSE, claim |-> Nobody, attempts |-> 0, due |-> 0]
NotPublishing == [pc |-> "idle", at |-> Nobody]
NotDraining == [pc |-> "idle", at |-> Nobody, loaded |-> {}, todo |-> {},
                retained |-> {}, age |-> 0]

\* The job row queue_pending_source_blob_deletion_rows() writes, over any other.
Queued == [open |-> TRUE, claim |-> Nobody, attempts |-> 0, due |-> Grace]

\* The claim a drain loaded is live: same generation, not completed.
Live(d, o) == job[o].open /\ job[o].claim = d

Due == {o \in Objects : job[o].open /\ job[o].due = 0}

\* mark_source_blob_cleanup_retained(): the retry counts from the time the
\* drain read when it began.
Retained(d, o) ==
  LET n == IF job[o].attempts < MaxAttempts THEN job[o].attempts + 1 ELSE MaxAttempts
  IN  [job[o] EXCEPT !.attempts = n,
                     !.due = Later(RetryDelays[n] - drain[d].age, 0)]

-----------------------------------------------------------------------------
(* Publication of a run source *)

Release(o) == fence' = [fence EXCEPT ![o] = Nobody]

\* acquire_content_ref_fence() waits for the lock.
PublishFence(p, o) ==
  /\ publisher[p].pc = "idle" /\ fence[o] = Nobody
  /\ fence' = [fence EXCEPT ![o] = p]
  /\ publisher' = [publisher EXCEPT ![p] = [pc |-> "put", at |-> o]]
  /\ UNCHANGED <<stored, refs, job, drain, lost>>

PublishPut(p) ==
  /\ publisher[p].pc = "put"
  /\ stored' = stored \cup {publisher[p].at}
  /\ publisher' = [publisher EXCEPT ![p].pc = "enqueue"]
  /\ UNCHANGED <<refs, job, fence, drain, lost>>

\* The upload is reported as failed, whether or not its bytes were stored.
PublishPutFails(p) ==
  LET o == publisher[p].at
  IN /\ publisher[p].pc = "put"
     /\ \/ UNCHANGED <<stored, lost>>
        \/ stored' = stored \cup {o} /\ lost' = lost \cup {o}
     /\ Release(o)
     /\ publisher' = [publisher EXCEPT ![p] = NotPublishing]
     /\ UNCHANGED <<refs, job, drain>>

\* enqueue_run_in_transaction() inserts the run's reference, or finds the run
\* already enqueued with the same source.
PublishEnqueue(p, r) ==
  LET o == publisher[p].at
  IN /\ publisher[p].pc = "enqueue"
     /\ \A x \in Objects \ {o} : r \notin refs[x]
     /\ refs' = [refs EXCEPT ![o] = @ \cup {r}]
     /\ publisher' = [publisher EXCEPT ![p].pc = "release"]
     /\ UNCHANGED <<stored, job, fence, drain, lost>>

\* The transaction is rejected, or it commits run r and its reply is lost; an
\* approval may also commit without creating a run.
PublishEnqueueFails(p, r) ==
  LET o == publisher[p].at
  IN /\ publisher[p].pc = "enqueue"
     /\ \/ UNCHANGED refs
        \/ /\ \A x \in Objects \ {o} : r \notin refs[x]
           /\ refs' = [refs EXCEPT ![o] = @ \cup {r}]
     /\ publisher' = [publisher EXCEPT ![p].pc = "rollback"]
     /\ UNCHANGED <<stored, job, fence, drain, lost>>

\* best_effort_cleanup_rollback_source_blobs(): a failure to queue is logged.
PublishRollback(p) ==
  LET o == publisher[p].at
  IN /\ publisher[p].pc = "rollback"
     /\ \/ job' = [job EXCEPT ![o] = Queued] /\ lost' = lost \ {o}
        \/ lost' = lost \cup {o} /\ UNCHANGED job
     /\ publisher' = [publisher EXCEPT ![p].pc = "release"]
     /\ UNCHANGED <<stored, refs, fence, drain>>

PublishRelease(p) ==
  /\ publisher[p].pc = "release"
  /\ Release(publisher[p].at)
  /\ publisher' = [publisher EXCEPT ![p] = NotPublishing]
  /\ UNCHANGED <<stored, refs, job, drain, lost>>

PublisherCrash(p) ==
  /\ publisher[p].pc # "idle"
  /\ Release(publisher[p].at)
  /\ lost' = IF publisher[p].pc \in {"enqueue", "rollback"}
             THEN lost \cup {publisher[p].at} ELSE lost
  /\ publisher' = [publisher EXCEPT ![p] = NotPublishing]
  /\ UNCHANGED <<stored, refs, job, drain>>

\* prune_terminal_runs() and delete_locked_repository(): the runs, their
\* references and the jobs of their sources change in one transaction.
DropRuns(gone) ==
  LET sources == {o \in Objects : refs[o] \cap gone # {}}
  IN /\ sources # {}
     /\ refs' = [o \in Objects |-> refs[o] \ gone]
     /\ job' = [o \in Objects |-> IF o \in sources THEN Queued ELSE job[o]]
     /\ lost' = lost \ sources
     /\ UNCHANGED <<stored, fence, publisher, drain>>

-----------------------------------------------------------------------------
(* The collector *)

\* claim_pending_source_blob_cleanup_rows() takes due rows and skips the ones
\* another transaction has locked.
DrainClaim(d, batch) ==
  /\ drain[d].pc = "idle"
  /\ batch \subseteq Due /\ batch # {}
  /\ job' = [o \in Objects |-> IF o \in batch
                               THEN [job[o] EXCEPT !.claim = d, !.due = ClaimTime]
                               ELSE job[o]]
  /\ drain' = [drain EXCEPT ![d] = [NotDraining EXCEPT !.pc = "next", !.loaded = batch,
                                                       !.todo = batch]]
  /\ UNCHANGED <<stored, refs, fence, publisher, lost>>

DrainFence(d, o) ==
  /\ drain[d].pc = "next" /\ o \in drain[d].todo /\ fence[o] = Nobody
  /\ fence' = [fence EXCEPT ![o] = d]
  /\ drain' = [drain EXCEPT ![d].pc = "claim", ![d].at = o]
  /\ UNCHANGED <<stored, refs, job, publisher, lost>>

\* The drain is done with its object and goes on to the next one.
Advance(d, kept) ==
  /\ Release(drain[d].at)
  /\ drain' = [drain EXCEPT ![d].pc = "next", ![d].at = Nobody,
                            ![d].todo = @ \ {drain[d].at}, ![d].retained = @ \cup kept]

\* source_blob_cleanup_decision() reads the job and then the references, in
\* two statements of a read-committed transaction.
DrainCheckClaim(d) ==
  /\ drain[d].pc = "claim"
  /\ IF Live(d, drain[d].at)
     THEN drain' = [drain EXCEPT ![d].pc = "refs"] /\ UNCHANGED fence
     ELSE Advance(d, {})
  /\ UNCHANGED <<stored, refs, job, publisher, lost>>

\* Mutant: the references are not read again under the fence.
DrainCheckReferences_Unread(d) ==
  /\ drain[d].pc = "refs"
  /\ drain' = [drain EXCEPT ![d].pc = "delete"]
  /\ UNCHANGED <<stored, refs, job, fence, publisher, lost>>

DrainCheckReferences(d) ==
  /\ drain[d].pc = "refs"
  /\ IF refs[drain[d].at] = {}
     THEN drain' = [drain EXCEPT ![d].pc = "delete"] /\ UNCHANGED fence
     ELSE Advance(d, {})
  /\ UNCHANGED <<stored, refs, job, publisher, lost>>

DrainDelete(d) ==
  /\ drain[d].pc = "delete"
  /\ stored' = stored \ {drain[d].at}
  /\ Advance(d, {})
  /\ lost' = lost \ {drain[d].at}
  /\ UNCHANGED <<refs, job, publisher>>

\* The deletion is reported as failed, whether or not the object is gone.
DrainDeleteFails(d) ==
  /\ drain[d].pc = "delete"
  /\ \/ UNCHANGED stored
     \/ stored' = stored \ {drain[d].at}
  /\ Advance(d, {drain[d].at})
  /\ UNCHANGED <<refs, job, publisher, lost>>

\* reconcile_source_blob_cleanup_rows(): retained jobs wait for a retry, the
\* others are completed, and only under the generation the drain claimed.
DrainFinish(d) ==
  /\ drain[d].pc = "next" /\ drain[d].todo = {}
  /\ job' = [o \in Objects |->
               IF o \notin drain[d].loaded \/ ~Live(d, o) THEN job[o]
               ELSE IF o \in drain[d].retained THEN Retained(d, o)
               ELSE [job[o] EXCEPT !.open = FALSE]]
  /\ drain' = [drain EXCEPT ![d] = NotDraining]
  /\ UNCHANGED <<stored, refs, fence, publisher, lost>>

\* A crash, or a failed statement, which abandons the batch.
DrainAbort(d) ==
  /\ drain[d].pc # "idle"
  /\ fence' = [o \in Objects |-> IF fence[o] = d THEN Nobody ELSE fence[o]]
  /\ drain' = [drain EXCEPT ![d] = NotDraining]
  /\ UNCHANGED <<stored, refs, job, publisher, lost>>

-----------------------------------------------------------------------------
(* The specification *)

\* Beyond the longest delay a drain's age makes no difference.
MaxAge == CHOOSE m \in {RetryDelays[n] : n \in 1..MaxAttempts} :
            \A n \in 1..MaxAttempts : RetryDelays[n] <= m

Tick ==
  /\ job' = [o \in Objects |-> [job[o] EXCEPT !.due = Later(@ - 1, 0)]]
  /\ drain' = [d \in Drains |->
                 IF drain[d].pc # "idle" /\ drain[d].age < MaxAge
                 THEN [drain[d] EXCEPT !.age = @ + 1] ELSE drain[d]]
  /\ UNCHANGED <<stored, refs, fence, publisher, lost>>

Init ==
  /\ stored = {} /\ lost = {}
  /\ refs = [o \in Objects |-> {}]
  /\ job = [o \in Objects |-> NoJob]
  /\ fence = [o \in Objects |-> Nobody]
  /\ publisher = [p \in Publishers |-> NotPublishing]
  /\ drain = [d \in Drains |-> NotDraining]

PublisherStep(p) ==
  \/ \E o \in Objects : PublishFence(p, o)
  \/ PublishPut(p) \/ PublishPutFails(p)
  \/ \E r \in Runs : PublishEnqueue(p, r) \/ PublishEnqueueFails(p, r)
  \/ PublishRollback(p) \/ PublishRelease(p) \/ PublisherCrash(p)

DrainStep(d) ==
  \/ \E batch \in SUBSET Objects : DrainClaim(d, batch)
  \/ \E o \in Objects : DrainFence(d, o)
  \/ DrainCheckClaim(d) \/ DrainCheckReferences(d)
  \/ DrainDelete(d) \/ DrainDeleteFails(d)
  \/ DrainFinish(d) \/ DrainAbort(d)

Next ==
  \/ \E p \in Publishers : PublisherStep(p)
  \/ \E gone \in SUBSET Runs : DropRuns(gone)
  \/ \E d \in Drains : DrainStep(d)
  \/ Tick

Spec == Init /\ [][Next]_vars

-----------------------------------------------------------------------------
(* Properties *)

TypeOK ==
  /\ stored \in SUBSET Objects /\ lost \in SUBSET Objects
  /\ refs \in [Objects -> SUBSET Runs]
  /\ job \in [Objects -> [open : BOOLEAN, claim : Drains \cup {Nobody},
                          attempts : 0..MaxAttempts, due : Nat]]
  /\ fence \in [Objects -> Publishers \cup Drains \cup {Nobody}]
  /\ publisher \in [Publishers -> [pc : {"idle", "put", "enqueue", "rollback", "release"},
                                   at : Objects \cup {Nobody}]]
  /\ drain \in [Drains -> [pc : {"idle", "next", "claim", "refs", "delete"},
                           at : Objects \cup {Nobody},
                           loaded : SUBSET Objects, todo : SUBSET Objects,
                           retained : SUBSET Objects, age : Nat]]

\* A run's source is never collected under it: whatever a reference names is in
\* the object store, although publication, collection, retention and crashes
\* interleave and the same bytes may be uploaded while their last copy is
\* being deleted.
ReferencedIsStored == \A o \in Objects : refs[o] # {} => o \in stored

\* Nothing is forgotten: an object that is stored without a reference is still
\* being published, or has an open job, or was left behind by a publication
\* that crashed or could not queue it.  A drain that decided before the last
\* reference was dropped must therefore not close the job queued since.
OrphansAreQueued ==
  \A o \in stored : \/ refs[o] # {} \/ job[o].open \/ o \in lost
                    \/ \E p \in Publishers : publisher[p].at = o

\* No drain crashes, fails to delete, or has its claim taken over.
DrainsGoWell ==
  \A d \in Drains :
    /\ ~DrainAbort(d) /\ ~DrainDeleteFails(d)
    /\ \A o \in drain[d].todo : job[o].claim = d => job'[o].claim \in {d, Nobody}

\* An orphan with an open job does not stay for ever: whatever crashed, failed
\* or was taken over before, once drains go well it is deleted, or it is
\* referred to or being published again.
OrphansAreCollected ==
  <>[][DrainsGoWell]_vars =>
    \A o \in Objects :
      (o \in stored /\ job[o].open /\ o \notin lost)
        ~> (o \notin stored \/ refs[o] # {} \/ \E p \in Publishers : publisher[p].at = o)
=============================================================================
