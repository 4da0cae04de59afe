------------------------------ MODULE AutoMerge ------------------------------
(***************************************************************************)
(* Automatic merging of one request: a maintainer authorizes the merge of  *)
(* the revision he has seen (an intent), and reconcilers of the API        *)
(* processes claim the intent, look whether the request is ready and merge *)
(* it (scope-domain/src/requests/auto_merge.rs,                            *)
(* scope-postgres/src/db/request_auto_merge.rs,                            *)
(* api/src/use_cases/request_auto_merge.rs).  Around it every transaction  *)
(* that may take the authorization away: new revisions, closing, check     *)
(* runs, removed access, direct merges (db/requests.rs, request_merge.rs, *)
(* request_checks.rs, request_stack.rs, repo_collaboration.rs).            *)
(*                                                                         *)
(* A transaction is one step: it holds the aggregate lock of the request,  *)
(* and those that write the request's content or access hold the one of    *)
(* the repository too.  What a reconciler reads outside of a transaction   *)
(* may be stale when it is used.  Abstracted: the commit queue between the *)
(* reconciler and the transaction (MergeCommitter), results of GitHub      *)
(* (GitHubChecks), reviews by bots, the reasons of a stop.                 *)
(*                                                                         *)
(* Times are relative: due counts the ticks to next_attempt_at_unix, lease *)
(* those to claim_expires_at_unix, down to -1 when that is past.           *)
(***************************************************************************)
EXTENDS Integers, FiniteSets

CONSTANTS
  Actors,        \* people who are or were maintainers
  Reconcilers,   \* API processes; the claim of one carries its name as token
  Nobody,        \* no actor, no claim token
  Providers,     \* who may run the checks: "native", "github" or both
  MaxRevisions,  \* bound: revisions of the request
  MaxIntents,    \* bound: authorizations
  LeaseTime,     \* CLAIM_SECONDS
  RetryDelay     \* bound on the delay of release()

ASSUME AutoMergeAssumption ==
  /\ MaxRevisions \in Nat \ {0} /\ MaxIntents \in Nat
  /\ LeaseTime \in Nat \ {0} /\ RetryDelay \in Nat
  /\ Providers \subseteq {"native", "github"} /\ Providers # {}
  /\ Nobody \notin Actors \cup Reconcilers

VARIABLES
  request,     \* the request: its state, revision, place in a stack and CI
  checks,      \* outcome of the evaluation of the current revision
  access,      \* "merger", "member" (may not merge) or "none", for each actor
  intents,     \* scope_request_auto_merge_intents, oldest first
  reconciler,  \* local state of each reconciler
  manual,      \* a direct merge between its checks and its transaction
  landing      \* ghost: what the merge that landed was based on

vars == <<request, checks, access, intents, reconciler, manual, landing>>

-----------------------------------------------------------------------------
(* Vocabulary *)

Ids == 1 .. MaxIntents
NoIntent == [status |-> "none", rev |-> 0, actor |-> Nobody,
             token |-> Nobody, lease |-> 0, due |-> 0]
NoClaim == [pc |-> "idle", id |-> 0, seen |-> "none", stack |-> "main"]
NoManual == [pc |-> "idle", actor |-> Nobody, rev |-> 0]
NoLanding == [by |-> "none", id |-> 0, rev |-> 0, actor |-> Nobody,
              member |-> FALSE, checks |-> "none"]

\* Outcomes of the checks that stop an automatic merge.
Unmergeable == {"failed", "invalid"}

IsMember(a) == access[a] # "none"
MayMerge(a) == access[a] = "merger"

\* request_auto_merge_readiness() of evaluate_merge_gate(), for an open request
\* and somebody who may merge it.
Readiness(stack, outcome) ==
  CASE stack \in {"blocked", "conflict"} \/ outcome \in Unmergeable -> "stop"
    [] stack = "waiting" /\ outcome \notin Unmergeable -> "release"
    [] stack = "main" /\ outcome \in {"none", "approval", "pending"} -> "release"
    [] stack = "main" /\ outcome = "clear" -> "merge"

Active == {i \in Ids : intents[i].status = "Active"}
Created == {i \in Ids : intents[i].status # "none"}

\* with_transition(): an intent that ends loses its claim.
Ended(i, status) == [intents[i] EXCEPT !.status = status, !.token = Nobody,
                                       !.lease = 0, !.due = 0]

\* stop_request_auto_merge() on the active intent, when there is one.
Stopped == [i \in Ids |-> IF i \in Active THEN Ended(i, "Stopped") ELSE intents[i]]

\* fulfill_request_auto_merge() on the active intent, when there is one: it
\* must be for the revision that landed.
CanFulfill(rev) == \A i \in Active : intents[i].rev = rev

Fulfilled == [i \in Ids |-> IF i \in Active THEN Ended(i, "Fulfilled") ELSE intents[i]]

-----------------------------------------------------------------------------
(* The request *)

\* publish_request_revision(): the new revision has no evaluation yet and its
\* place in the stack is judged anew.
PushRevision ==
  /\ request.state = "Open" /\ request.rev < MaxRevisions
  /\ \E s \in {"main", "waiting", "blocked"} :
       request' = [request EXCEPT !.rev = @ + 1, !.stack = s]
  /\ checks' = "none"
  /\ intents' = Stopped
  /\ UNCHANGED <<access, reconciler, manual, landing>>

\* refresh_children() of the parent, which was rewritten, closed, blocked or
\* repaired: persist_refresh() stops what can no longer merge.
RefreshStack(status) ==
  /\ request.state = "Open" /\ request.stack \in {"waiting", "blocked"}
  /\ request' = [request EXCEPT !.stack = status]
  /\ intents' = IF status = "blocked" THEN Stopped ELSE intents
  /\ UNCHANGED <<checks, access, reconciler, manual, landing>>

\* retarget_children() when the parent lands: the request becomes one on main,
\* perhaps one that must be updated first, and its intent is woken.
ParentLands(status) ==
  /\ request.state = "Open" /\ request.stack \in {"waiting", "blocked"}
  /\ request' = [request EXCEPT !.stack = status]
  /\ intents' = IF status = "main"
                THEN [i \in Ids |-> IF i \in Active THEN [intents[i] EXCEPT !.due = 0]
                                    ELSE intents[i]]
                ELSE Stopped
  /\ UNCHANGED <<checks, access, reconciler, manual, landing>>

\* close_request()
Close ==
  /\ request.state = "Open"
  /\ request' = [request EXCEPT !.state = "Closed"]
  /\ intents' = Stopped
  /\ UNCHANGED <<checks, access, reconciler, manual, landing>>

\* record_request_checks(): a request without checks is clear at once.
RecordChecks(outcome) ==
  /\ request.state = "Open" /\ checks = "none"
  /\ checks' = outcome
  /\ intents' = IF outcome = "invalid" THEN Stopped ELSE intents
  /\ UNCHANGED <<request, access, reconciler, manual, landing>>

\* withdraw_evaluation(): native runs are withdrawn while checks wait for them.
WithdrawChecks ==
  /\ request.state = "Open" /\ request.ci = "native" /\ checks = "pending"
  /\ checks' = "invalid"
  /\ intents' = Stopped
  /\ UNCHANGED <<request, access, reconciler, manual, landing>>

\* approve_request_checks()
ApproveChecks ==
  /\ request.state = "Open" /\ checks = "approval"
  /\ checks' = "pending"
  /\ UNCHANGED <<request, access, intents, reconciler, manual, landing>>

\* The transaction that ends a check run, stop_auto_merge_for_terminal_run()
\* included.
CheckRunEnds(outcome) ==
  /\ request.ci = "native" /\ checks = "pending"
  /\ checks' = outcome
  /\ intents' = IF outcome = "failed" THEN Stopped ELSE intents
  /\ UNCHANGED <<request, access, reconciler, manual, landing>>

\* retry_run() of the run that failed.
RetryCheckRun ==
  /\ request.ci = "native" /\ checks = "failed"
  /\ checks' = "pending"
  /\ UNCHANGED <<request, access, intents, reconciler, manual, landing>>

\* apply_github_check_read(): GitHub may run checks again at any time.  The
\* intent of a request whose checks failed is stopped by its next pass.
GitHubResult(outcome) ==
  /\ request.ci = "github" /\ checks \in {"pending", "clear", "failed"} \ {outcome}
  /\ checks' = outcome
  /\ UNCHANGED <<request, access, intents, reconciler, manual, landing>>

\* Mutant: removing a member leaves what he authorized.
RemoveMember_KeepsIntent(a) ==
  /\ IsMember(a)
  /\ access' = [access EXCEPT ![a] = "none"]
  /\ UNCHANGED <<request, checks, intents, reconciler, manual, landing>>

\* remove_repository_member() and forget_deleted_account()
RemoveMember(a) ==
  /\ IsMember(a)
  /\ access' = [access EXCEPT ![a] = "none"]
  /\ intents' = [i \in Ids |-> IF i \in Active /\ intents[i].actor = a
                               THEN Ended(i, "Stopped") ELSE intents[i]]
  /\ UNCHANGED <<request, checks, reconciler, manual, landing>>

\* accept_repository_invite(), and update_repository_member_permissions(): a
\* member whose view no longer lets him merge keeps his intent for now.
SetAccess(a, level) ==
  /\ access[a] # level
  /\ access' = [access EXCEPT ![a] = level]
  /\ UNCHANGED <<request, checks, intents, reconciler, manual, landing>>

-----------------------------------------------------------------------------
(* The intent *)

\* authorize_request_auto_merge() for the current revision.
Authorize(a) ==
  /\ request.state = "Open" /\ request.stack \in {"main", "waiting"} /\ MayMerge(a)
  /\ checks \notin Unmergeable /\ Active = {}
  /\ \E i \in Ids \ Created :
       /\ \A j \in Created : j < i
       /\ \A j \in Ids \ Created : i <= j
       /\ intents' = [intents EXCEPT ![i] =
                        [NoIntent EXCEPT !.status = "Active", !.rev = request.rev, !.actor = a]]
  /\ UNCHANGED <<request, checks, access, reconciler, manual, landing>>

\* cancel_request_auto_merge(), by any maintainer.
Cancel(a) ==
  /\ request.state = "Open" /\ IsMember(a)
  /\ \E i \in Active : intents' = [intents EXCEPT ![i] = Ended(i, "Cancelled")]
  /\ UNCHANGED <<request, checks, access, reconciler, manual, landing>>

-----------------------------------------------------------------------------
(* Reconcilers *)

\* Mutant: a claim is never taken over.
Due_Unclaimed(i) == intents[i].due = 0 /\ intents[i].token = Nobody

\* The filter of claim_due_request_auto_merges().
Due(i) == intents[i].due = 0 /\ (intents[i].token # Nobody => intents[i].lease <= 0)

\* claim_due_request_auto_merges()
Claim(r) ==
  /\ reconciler[r].pc = "idle"
  /\ \E i \in Active :
       /\ Due(i)
       /\ intents' = [intents EXCEPT ![i].token = r, ![i].lease = LeaseTime]
       /\ reconciler' = [reconciler EXCEPT ![r] = [NoClaim EXCEPT !.pc = "claimed", !.id = i]]
  /\ UNCHANGED <<request, checks, access, manual, landing>>

\* What authorized_request() requires of what it reads.
Authorized(i) ==
  /\ request.state = "Open" /\ request.rev = intents[i].rev
  /\ MayMerge(intents[i].actor)

Goto(r, pc) == reconciler' = [reconciler EXCEPT ![r].pc = pc, ![r].seen = "none",
                                              ![r].stack = "main"]

\* The first authorized_request(): an intent that is no longer active ends
\* the pass, one that no longer stands is to be stopped.
Observe(r) ==
  LET i == reconciler[r].id
  IN  /\ reconciler[r].pc = "claimed"
      /\ IF i \notin Active THEN reconciler' = [reconciler EXCEPT ![r] = NoClaim]
         ELSE IF Authorized(i)
         THEN reconciler' = [reconciler EXCEPT ![r].pc = "observed", ![r].stack = request.stack]
         ELSE Goto(r, "stop")
      /\ UNCHANGED <<request, checks, access, intents, manual, landing>>

\* checks_view()
ReadChecks(r) ==
  /\ reconciler[r].pc = "observed"
  /\ reconciler' = [reconciler EXCEPT ![r].pc = "read", ![r].seen = checks]
  /\ UNCHANGED <<request, checks, access, intents, manual, landing>>

\* The second authorized_request() and the gate, on the checks read before it.
Decide(r) ==
  LET i == reconciler[r].id
  IN  /\ reconciler[r].pc = "read"
      /\ IF i \notin Active THEN reconciler' = [reconciler EXCEPT ![r] = NoClaim]
         ELSE Goto(r, CASE ~ Authorized(i) -> "stop"
                        [] Authorized(i) -> Readiness(reconciler[r].stack, reconciler[r].seen))
      /\ UNCHANGED <<request, checks, access, intents, manual, landing>>

\* merge_request_inner() fails before its transaction or for a reason that
\* may pass: main moved, GitHub or Git unavailable.
MergeFails(r) ==
  /\ reconciler[r].pc = "merge"
  /\ Goto(r, "release")
  /\ UNCHANGED <<request, checks, access, intents, manual, landing>>

\* It finds that the request does not merge into main: the committer records
\* the conflict, and the reconciler stops the intent.
MergeConflicts(r) ==
  /\ reconciler[r].pc = "merge"
  /\ IF request.state = "Open" /\ request.rev = intents[reconciler[r].id].rev
     THEN request' = [request EXCEPT !.stack = "conflict"] /\ intents' = Stopped
     ELSE UNCHANGED <<request, intents>>
  /\ Goto(r, "stop")
  /\ UNCHANGED <<checks, access, manual, landing>>

\* merge_one_request(): the intent is active and claimed with this token, and
\* the claim has not expired.
ClaimStands(r, i) ==
  i \in Active /\ intents[i].token = r /\ intents[i].lease >= 0

\* Mutant: the transaction trusts the checks the reconciler has seen clear.
GateOfMerge_Seen == Readiness(request.stack, "clear")

\* evaluate_merge_gate() in the transaction.
GateOfMerge == Readiness(request.stack, checks)

\* merge_request_contents() for the claim: without the claim nothing happens;
\* a request, access or outcome that no longer allows the merge stops the
\* intent at once; checks that wait again defer it; otherwise it lands.
MergeTx(r) ==
  LET i == reconciler[r].id
  IN  /\ reconciler[r].pc = "merge"
      /\ \/ /\ ~ ClaimStands(r, i)
            /\ Goto(r, "release") /\ UNCHANGED <<request, intents, landing>>
         \/ /\ ClaimStands(r, i) /\ Authorized(i) /\ GateOfMerge = "merge"
            /\ request' = [request EXCEPT !.state = "Merged", !.stack = "main"]
            /\ intents' = [intents EXCEPT ![i] = Ended(i, "Fulfilled")]
            /\ landing' = [by |-> "auto", id |-> i, rev |-> request.rev,
                           actor |-> intents[i].actor,
                           member |-> MayMerge(intents[i].actor), checks |-> checks]
            /\ reconciler' = [reconciler EXCEPT ![r] = NoClaim]
         \/ /\ ClaimStands(r, i) /\ Authorized(i) /\ GateOfMerge = "release"
            /\ Goto(r, "release") /\ UNCHANGED <<request, intents, landing>>
         \/ /\ ClaimStands(r, i) /\ (Authorized(i) => GateOfMerge = "stop")
            /\ intents' = [intents EXCEPT ![i] = Ended(i, "Stopped")]
            /\ Goto(r, "release") /\ UNCHANGED <<request, landing>>
      /\ UNCHANGED <<checks, access, manual>>

\* Mutant: a claim is released by whoever once had it.
OwnsClaim_Any(r, i) == i \in Active

\* The filter of release_request_auto_merge_claim() and
\* stop_claimed_request_auto_merge(): the claim may have expired, as long as
\* no other reconciler took it over.
OwnsClaim(r, i) == i \in Active /\ intents[i].token = r

Release(r, delay) ==
  LET i == reconciler[r].id
  IN  /\ reconciler[r].pc = "release"
      /\ intents' = IF OwnsClaim(r, i)
                    THEN [intents EXCEPT ![i].token = Nobody, ![i].lease = 0, ![i].due = delay]
                    ELSE intents
      /\ reconciler' = [reconciler EXCEPT ![r] = NoClaim]
      /\ UNCHANGED <<request, checks, access, manual, landing>>

StopClaimed(r) ==
  LET i == reconciler[r].id
  IN  /\ reconciler[r].pc = "stop"
      /\ intents' = IF OwnsClaim(r, i) THEN [intents EXCEPT ![i] = Ended(i, "Stopped")]
                    ELSE intents
      /\ reconciler' = [reconciler EXCEPT ![r] = NoClaim]
      /\ UNCHANGED <<request, checks, access, manual, landing>>

\* The process dies, or the store cannot be reached: the claim must expire.
Crash(r) ==
  /\ reconciler[r].pc # "idle"
  /\ reconciler' = [reconciler EXCEPT ![r] = NoClaim]
  /\ UNCHANGED <<request, checks, access, intents, manual, landing>>

-----------------------------------------------------------------------------
(* Other merges *)

\* merge_request(), up to its transaction: authorize_merge() and
\* ensure_checks_cleared() for a person.
PrepareManual(a) ==
  /\ manual.pc = "idle"
  /\ request.state = "Open" /\ MayMerge(a) /\ Readiness(request.stack, checks) = "merge"
  /\ manual' = [pc |-> "merge", actor |-> a, rev |-> request.rev]
  /\ UNCHANGED <<request, checks, access, intents, reconciler, landing>>

\* merge_request_contents() without a claim: an active intent is fulfilled,
\* whoever authorized it.
ManualTx ==
  /\ manual.pc = "merge"
  /\ manual' = NoManual
  /\ IF /\ request.rev = manual.rev /\ request.state = "Open" /\ MayMerge(manual.actor)
        /\ Readiness(request.stack, checks) = "merge" /\ CanFulfill(request.rev)
     THEN /\ request' = [request EXCEPT !.state = "Merged"]
          /\ intents' = Fulfilled
          /\ landing' = [by |-> "person", id |-> 0, rev |-> request.rev, actor |-> manual.actor,
                         member |-> TRUE, checks |-> checks]
     ELSE UNCHANGED <<request, intents, landing>>
  /\ UNCHANGED <<checks, access, reconciler>>

\* complete_landed_requests(): a push to main contains the request's head.
MainPushLands(a) ==
  /\ request.state = "Open" /\ request.stack \in {"main", "conflict"}
  /\ MayMerge(a) /\ CanFulfill(request.rev)
  /\ request' = [request EXCEPT !.state = "Merged", !.stack = "main"]
  /\ intents' = Fulfilled
  /\ landing' = [by |-> "push", id |-> 0, rev |-> request.rev, actor |-> a,
                 member |-> TRUE, checks |-> checks]
  /\ UNCHANGED <<checks, access, reconciler, manual>>

Tick ==
  /\ \E i \in Active : intents[i].due > 0 \/ intents[i].lease > -1
  /\ intents' = [i \in Ids |->
       IF i \in Active
       THEN [intents[i] EXCEPT !.due = IF @ > 0 THEN @ - 1 ELSE 0,
                               !.lease = IF intents[i].token = Nobody THEN 0
                                         ELSE IF @ > -1 THEN @ - 1 ELSE -1]
       ELSE intents[i]]
  /\ UNCHANGED <<request, checks, access, reconciler, manual, landing>>

-----------------------------------------------------------------------------
(* Specification *)

Init ==
  /\ \E s \in {"main", "waiting"}, ci \in Providers :
       request = [state |-> "Open", rev |-> 1, stack |-> s, ci |-> ci]
  /\ checks = "none" /\ access = [a \in Actors |-> "merger"]
  /\ intents = [i \in Ids |-> NoIntent]
  /\ reconciler = [r \in Reconcilers |-> NoClaim]
  /\ manual = NoManual /\ landing = NoLanding

\* reconcile_claim() without what interrupts it.
Reconcile(r) ==
  \/ Observe(r) \/ ReadChecks(r) \/ Decide(r) \/ MergeTx(r) \/ StopClaimed(r)
  \/ \E d \in 0 .. RetryDelay : Release(r, d)

Next ==
  \/ PushRevision \/ Close \/ ApproveChecks \/ WithdrawChecks \/ RetryCheckRun
  \/ \E s \in {"waiting", "blocked"} : RefreshStack(s)
  \/ \E s \in {"main", "conflict"} : ParentLands(s)
  \/ \E o \in {"approval", "pending", "clear", "invalid"} : RecordChecks(o)
  \/ \E o \in {"clear", "failed"} : CheckRunEnds(o)
  \/ \E o \in {"pending", "clear", "failed"} : GitHubResult(o)
  \/ \E a \in Actors : \/ RemoveMember(a) \/ Authorize(a) \/ Cancel(a)
                       \/ PrepareManual(a) \/ MainPushLands(a)
  \/ \E a \in Actors, level \in {"merger", "member"} : SetAccess(a, level)
  \/ ManualTx
  \/ \E r \in Reconcilers :
       Claim(r) \/ Reconcile(r) \/ MergeFails(r) \/ MergeConflicts(r) \/ Crash(r)
  \/ Tick

Spec == Init /\ [][Next]_vars

-----------------------------------------------------------------------------
(* Properties *)

\* Every variable has its type, and only an active intent has a claim.
TypeOK ==
  /\ request \in [state : {"Open", "Merged", "Closed"}, rev : 1 .. MaxRevisions,
                  stack : {"main", "waiting", "blocked", "conflict"},
                  ci : {"native", "github"}]
  /\ checks \in {"none", "approval", "pending", "clear", "failed", "invalid"}
  /\ access \in [Actors -> {"merger", "member", "none"}]
  /\ intents \in [Ids -> [status : {"none", "Active", "Cancelled", "Stopped", "Fulfilled"},
                          rev : 0 .. MaxRevisions, actor : Actors \cup {Nobody},
                          token : Reconcilers \cup {Nobody}, lease : -1 .. LeaseTime,
                          due : 0 .. RetryDelay]]
  /\ \A i \in Ids : intents[i].token # Nobody => i \in Active
  /\ reconciler \in [Reconcilers ->
       [pc : {"idle", "claimed", "observed", "read", "merge", "release", "stop"},
        id : 0 .. MaxIntents,
        seen : {"none", "approval", "pending", "clear", "failed", "invalid"},
        stack : {"main", "waiting", "blocked", "conflict"}]]
  /\ manual \in [pc : {"idle", "merge"}, actor : Actors \cup {Nobody}, rev : 0 .. MaxRevisions]
  /\ landing \in [by : {"none", "auto", "person", "push"}, id : 0 .. MaxIntents,
                  rev : 0 .. MaxRevisions, actor : Actors \cup {Nobody}, member : BOOLEAN,
                  checks : {"none", "approval", "pending", "clear", "failed", "invalid"}]

\* An intent that is active still stands: whichever transaction takes away
\* what it rests on (the revision, the open request, the membership of whoever
\* authorized it, its checks, its place in the stack) ends it at once.
ActiveIntentStands ==
  /\ \A i \in Active :
       /\ request.state = "Open" /\ request.stack \in {"main", "waiting"}
       /\ intents[i].rev = request.rev /\ IsMember(intents[i].actor)
       /\ checks # "invalid" /\ (request.ci = "native" => checks # "failed")
  /\ Cardinality(Active) <= 1

\* A merge nobody pressed the button for is the one that was authorized: of
\* that revision, with clear checks and an actor who may still merge when it
\* lands, and its intent was neither cancelled nor stopped before.
AutoMergeWasAuthorized ==
  landing.by = "auto" =>
    /\ landing.checks = "clear" /\ landing.member
    /\ landing.rev = intents[landing.id].rev /\ landing.actor = intents[landing.id].actor
    /\ intents[landing.id].status = "Fulfilled"

\* An intent is fulfilled exactly by the merge of its revision, so that at
\* most one is, and none for a request that is closed.
FulfilledMeansMerged ==
  \A i \in Ids : intents[i].status = "Fulfilled" =>
    /\ request.state = "Merged" /\ landing.rev = intents[i].rev
    /\ \A j \in Created : j <= i

\* Intents mean what they say, while they are active and afterwards.
IntentsAreSound == TypeOK /\ ActiveIntentStands /\ FulfilledMeansMerged

\* A reconciler whose claim was taken over or ended changes nothing: a claim
\* changes hands only when it has expired, and an intent that ended stays so.
ClaimsAreRespected ==
  [][\A i \in Ids :
       /\ intents[i].status \in {"Cancelled", "Stopped", "Fulfilled"} =>
            intents'[i] = intents[i]
       /\ (i \in Active /\ intents'[i].status = "Active" /\ intents[i].token # Nobody
             /\ intents'[i].token # intents[i].token) =>
            (intents[i].lease <= 0 \/ reconciler[intents[i].token].pc = "release")]_vars

InTime(r) == ClaimStands(r, reconciler[r].id)

\* No pass crashes, fails to merge, or outlives its claim.
PassesGoWell ==
  \A r \in Reconcilers :
    /\ ~ Crash(r) /\ ~ MergeFails(r)
    /\ InTime(r) => InTime(r)' \/ reconciler'[r].pc = "idle"

\* What the checks and the stack say of the request decides over its intent.
Decided == Readiness(request.stack, checks) # "release"

\* No automatic merge waits for ever although it is decided: whatever crashed,
\* failed or was taken over before, once passes go well the request lands, or
\* the intent ends, or the checks start again.
IntentsEnd ==
  <>[][PassesGoWell]_vars
    => \A i \in Ids : (i \in Active /\ Decided) ~> ~(i \in Active /\ Decided)
=============================================================================
