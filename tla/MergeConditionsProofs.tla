---------------------- MODULE MergeConditionsProofs -----------------------
(***************************************************************************)
(* What AutoMerge and GitHubChecks promise, proved for any number of people, *)
(* reconcilers, revisions, intents, readers and merges and for every lease, *)
(* delay and freshness: intents mean what they say, an automatic merge is the *)
(* one that was authorized, claims are respected, and what lands has passed *)
(* its checks recently.                                                    *)
(***************************************************************************)
EXTENDS MergeConditions, FiniteSetTheorems, TLAPS

-----------------------------------------------------------------------------
(* Types, row by row                                                        *)

Stacks == {"main", "waiting", "blocked", "conflict"}
Outcomes == {"none", "approval", "pending", "clear", "failed", "invalid"}
Requests ==
  [state : {"Open", "Merged", "Closed"}, rev : 1 .. MaxRevisions, stack : Stacks,
   ci : {"native", "github"}]
Over == {"Cancelled", "Stopped", "Fulfilled"}
IntentRows ==
  [status : {"none", "Active", "Cancelled", "Stopped", "Fulfilled"},
   rev : 0 .. MaxRevisions, actor : Actors \cup {Nobody}, token : Reconcilers \cup {Nobody},
   lease : -1 .. LeaseTime, due : 0 .. RetryDelay]
Passes ==
  [pc : {"idle", "claimed", "observed", "read", "merge", "release", "stop"},
   id : 0 .. MaxIntents, seen : Outcomes, stack : Stacks]
Manuals == [pc : {"idle", "merge"}, actor : Actors \cup {Nobody}, rev : 0 .. MaxRevisions]
Landings ==
  [by : {"none", "auto", "person", "push"}, id : 0 .. MaxIntents, rev : 0 .. MaxRevisions,
   actor : Actors \cup {Nobody}, member : BOOLEAN, checks : Outcomes]

\* All but the intents.
Around ==
  /\ request \in Requests /\ checks \in Outcomes
  /\ access \in [Actors -> {"merger", "member", "none"}]
  /\ reconciler \in [Reconcilers -> Passes] /\ manual \in Manuals /\ landing \in Landings

\* A row of the intents, with a claim only while it is active.
Row(w) == w \in IntentRows /\ (w.token # Nobody => w.status = "Active")

LEMMA TypeByRow ==
  TypeOK <=> Around /\ intents \in [Ids -> IntentRows] /\ \A i \in Ids : Row(intents[i])
  BY DEF TypeOK, Around, Row, Requests, IntentRows, Passes, Manuals, Landings, Outcomes, Stacks,
         Active

LEMMA TypeByNextRow ==
  TypeOK' <=> Around' /\ intents' \in [Ids -> IntentRows] /\ \A i \in Ids : Row(intents'[i])
  BY DEF TypeOK, Around, Row, Requests, IntentRows, Passes, Manuals, Landings, Outcomes, Stacks,
         Active

-----------------------------------------------------------------------------
(* The inductive invariant                                                  *)

\* What an active intent rests on.
Stands(w) ==
  /\ request.state = "Open" /\ request.stack \in {"main", "waiting"}
  /\ w.rev = request.rev /\ w.actor \in Actors /\ IsMember(w.actor)
  /\ checks # "invalid" /\ (request.ci = "native" => checks # "failed")

Standing == \A i \in Active : Stands(intents[i])

\* There is one active intent at most, and it is the latest.
Latest == \A i \in Active : \A j \in Created : j =< i

\* What landed automatically names its intent.
Landed == landing.by = "auto" => landing.id \in Ids

AutoInv ==
  TypeOK /\ Standing /\ Latest /\ Landed /\ AutoMergeWasAuthorized /\ FulfilledMeansMerged

-----------------------------------------------------------------------------
(* What a step does to the intents                                          *)

\* The claim on intent i stays as it is, or it was free, expired or given back.
Respected(i) ==
  \/ intents'[i].token = intents[i].token
  \/ intents[i].token = Nobody \/ intents[i].lease =< 0
  \/ reconciler[intents[i].token].pc = "release"

\* Intent i is left alone, or it was active and goes on or ends.
Follows(i) ==
  \/ intents'[i] = intents[i]
  \/ /\ i \in Active
     /\ intents'[i].rev = intents[i].rev /\ intents'[i].actor = intents[i].actor
     /\ \/ intents'[i].status \in Over
        \/ intents'[i].status = "Active" /\ Respected(i)

Changes ==
  /\ intents' \in [Ids -> IntentRows]
  /\ \A i \in Ids : Row(intents'[i]) /\ Follows(i)

LEMMA EndedRow ==
  ASSUME TypeOK, NEW i \in Active, NEW s \in Over
  PROVE  /\ Row(Ended(i, s)) /\ Ended(i, s).status = s
         /\ Ended(i, s).rev = intents[i].rev /\ Ended(i, s).actor = intents[i].actor
<1>1. i \in Ids /\ intents[i] \in IntentRows
  BY TypeByRow DEF Active
<1>2. 0 \in -1 .. LeaseTime /\ 0 \in 0 .. RetryDelay
  BY AutoMergeAssumption
<1>3. Ended(i, s) \in IntentRows /\ Ended(i, s).token = Nobody
  BY <1>1, <1>2 DEF Ended, IntentRows, Over
<1>4. Ended(i, s).status = s /\ Ended(i, s).rev = intents[i].rev
        /\ Ended(i, s).actor = intents[i].actor
  BY <1>1 DEF Ended, IntentRows
<1> QED
  BY <1>3, <1>4 DEF Row

\* Intents that end, all of one kind.
LEMMA EndingChanges ==
  ASSUME TypeOK, NEW s \in Over, NEW gone \in SUBSET Active,
         intents' = [i \in Ids |-> IF i \in gone THEN Ended(i, s) ELSE intents[i]]
  PROVE  /\ Changes
         /\ \A i \in gone : intents'[i].status = s
         /\ \A i \in Ids \ gone : intents'[i] = intents[i]
<1>1. \A i \in gone : i \in Ids
  BY DEF Active
<1>2. \A i \in gone : Row(intents'[i]) /\ Follows(i) /\ intents'[i].status = s
  BY <1>1, EndedRow DEF Follows
<1>3. \A i \in Ids \ gone : intents'[i] = intents[i]
  OBVIOUS
<1>4. \A i \in Ids : Row(intents'[i])
  BY <1>2, <1>3, TypeByRow
<1>5. intents' \in [Ids -> IntentRows]
  BY <1>4 DEF Row
<1> QED
  BY <1>2, <1>3, <1>4, <1>5 DEF Changes, Follows

LEMMA OneEnds ==
  ASSUME TypeOK, NEW s \in Over, NEW i \in Active, intents' = [intents EXCEPT ![i] = Ended(i, s)]
  PROVE  Changes /\ intents'[i].status = s /\ \A j \in Ids \ {i} : intents'[j] = intents[j]
<1>1. i \in Ids
  BY DEF Active
<1>2. intents' = [j \in Ids |-> IF j \in {i} THEN Ended(j, s) ELSE intents[j]]
  BY TypeByRow
<1> QED
  BY <1>1, <1>2, EndingChanges

LEMMA StoppedAll ==
  ASSUME TypeOK, intents' = Stopped
  PROVE  /\ Changes /\ Active' = {}
         /\ \A i \in Ids : intents'[i].status = "Fulfilled" => intents'[i] = intents[i]
<1>1. Changes /\ (\A i \in Active : intents'[i].status = "Stopped")
        /\ \A i \in Ids \ Active : intents'[i] = intents[i]
  BY EndingChanges DEF Stopped, Over
<1>2. \A i \in Ids : i \notin Active => intents[i].status # "Active"
  BY DEF Active
<1>3. \A i \in Ids : intents'[i].status # "Active"
  BY <1>1, <1>2
<1> QED
  BY <1>1, <1>3 DEF Active

LEMMA FulfilledAll ==
  ASSUME TypeOK, intents' = Fulfilled
  PROVE  Changes /\ Active' = {} /\ \A i \in Ids \ Active : intents'[i] = intents[i]
<1>1. Changes /\ (\A i \in Active : intents'[i].status = "Fulfilled")
        /\ \A i \in Ids \ Active : intents'[i] = intents[i]
  BY EndingChanges DEF Fulfilled, Over
<1>2. \A i \in Ids : i \notin Active => intents[i].status # "Active"
  BY DEF Active
<1>3. \A i \in Ids : intents'[i].status # "Active"
  BY <1>1, <1>2
<1> QED
  BY <1>1, <1>3 DEF Active

LEMMA NoChange ==
  ASSUME TypeOK, intents' = intents
  PROVE  Changes
  BY TypeByRow DEF Changes, Follows

-----------------------------------------------------------------------------
(* Steps that create no intent                                              *)

LEMMA SameCreated ==
  ASSUME TypeOK, Changes
  PROVE  Created' = Created /\ Active' \subseteq Active
  BY DEF Changes, Follows, Created, Active, Over

\* Nothing lands.
LEMMA QuietStep ==
  ASSUME AutoInv, Around', Changes, landing' = landing, Standing',
         request.state = "Merged" => request'.state = "Merged",
         \A i \in Ids : intents'[i].status = "Fulfilled" => intents'[i] = intents[i]
  PROVE  AutoInv'
<1>1. TypeOK
  BY DEF AutoInv
<1>2. TypeOK'
  BY TypeByNextRow DEF Changes
<1>3. Created' = Created /\ Active' \subseteq Active
  BY <1>1, SameCreated
<1>4. Latest' /\ Landed'
  BY <1>3 DEF AutoInv, Latest, Landed
<1>5. FulfilledMeansMerged'
  BY <1>3 DEF AutoInv, FulfilledMeansMerged
<1>6. AutoMergeWasAuthorized'
  <2>1. SUFFICES ASSUME landing.by = "auto" PROVE AutoMergeWasAuthorized'
    BY DEF AutoMergeWasAuthorized
  <2>2. landing.id \in Ids /\ intents[landing.id].status = "Fulfilled"
    BY <2>1 DEF AutoInv, Landed, AutoMergeWasAuthorized
  <2>3. intents'[landing.id] = intents[landing.id]
    BY <2>2 DEF Changes, Follows, Active
  <2> QED
    BY <2>1, <2>3 DEF AutoInv, AutoMergeWasAuthorized
<1> QED
  BY <1>2, <1>4, <1>5, <1>6 DEF AutoInv

\* The request lands, and with it the active intent, if there is one.
LEMMA LandStep ==
  ASSUME AutoInv, Around', Changes, request.state = "Open", request'.state = "Merged",
         Active' = {}, landing'.rev = request.rev,
         \A i \in Ids \ Active : intents'[i] = intents[i],
         Landed', AutoMergeWasAuthorized'
  PROVE  AutoInv'
<1>1. TypeOK
  BY DEF AutoInv
<1>2. TypeOK'
  BY TypeByNextRow DEF Changes
<1>3. Created' = Created
  BY <1>1, SameCreated
<1>4. ASSUME NEW i \in Ids, intents'[i].status = "Fulfilled"
      PROVE  i \in Active
  <2>1. intents[i].status # "Fulfilled"
    BY DEF AutoInv, FulfilledMeansMerged
  <2> QED
    BY <1>4, <2>1
<1>5. FulfilledMeansMerged'
  <2>1. ASSUME NEW i \in Ids, intents'[i].status = "Fulfilled"
        PROVE  landing'.rev = intents'[i].rev /\ \A j \in Created' : j =< i
    <3>1. i \in Active
      BY <1>4, <2>1
    <3>2. intents'[i].rev = intents[i].rev /\ intents[i].rev = request.rev
      BY <3>1 DEF Changes, Follows, AutoInv, Standing, Stands
    <3> QED
      BY <1>3, <3>1, <3>2 DEF AutoInv, Latest
  <2> QED
    BY <2>1 DEF FulfilledMeansMerged
<1>6. Standing' /\ Latest'
  BY DEF Standing, Latest
<1> QED
  BY <1>2, <1>5, <1>6 DEF AutoInv

\* An active intent that stays active still stands if what it rests on does.
LEMMA StillStanding ==
  ASSUME AutoInv, Changes, request' = request, checks' = checks,
         \A i \in Active' : access'[intents[i].actor] # "none"
  PROVE  Standing'
<1>1. Active' \subseteq Active
  BY SameCreated DEF AutoInv
<1>2. ASSUME NEW i \in Active' PROVE Stands(intents[i])'
  <2>1. i \in Active /\ Stands(intents[i]) /\ i \in Ids
    BY <1>1 DEF AutoInv, Standing, Active
  <2>2. intents'[i].rev = intents[i].rev /\ intents'[i].actor = intents[i].actor
    BY <2>1 DEF Changes, Follows
  <2> QED
    BY <2>1, <2>2, <1>2 DEF Stands, IsMember
<1> QED
  BY <1>2 DEF Standing

\* The same where the request's place in the stack or its checks change for
\* the better.
LEMMA StandingAnew ==
  ASSUME AutoInv, Changes, access' = access, request'.state = request.state,
         request'.rev = request.rev, request'.ci = request.ci,
         \/ request'.stack = request.stack \/ request'.stack \in {"main", "waiting"},
         checks' # "invalid" \/ checks' = checks,
         \/ checks' # "failed" \/ request.ci # "native" \/ checks' = checks
  PROVE  Standing'
<1>1. Active' \subseteq Active
  BY SameCreated DEF AutoInv
<1>2. ASSUME NEW i \in Active' PROVE Stands(intents[i])'
  <2>1. i \in Active /\ Stands(intents[i]) /\ i \in Ids
    BY <1>1 DEF AutoInv, Standing, Active
  <2>2. intents'[i].rev = intents[i].rev /\ intents'[i].actor = intents[i].actor
    BY <2>1 DEF Changes, Follows
  <2> QED
    BY <2>1, <2>2, <1>2 DEF Stands, IsMember
<1> QED
  BY <1>2 DEF Standing

LEMMA AtMostOne ==
  ASSUME AutoInv, NEW i \in Active, NEW j \in Active
  PROVE  i = j
<1>1. i \in Created /\ j \in Created /\ i \in Int /\ j \in Int
  BY AutoMergeAssumption DEF Active, Created, Ids
<1> QED
  BY <1>1 DEF AutoInv, Latest

LEMMA ReadinessKinds ==
  ASSUME NEW s \in Stacks, NEW o \in Outcomes
  PROVE  /\ Readiness(s, o) \in {"stop", "release", "merge"}
         /\ Readiness(s, o) = "merge" => o = "clear"
  BY DEF Readiness, Unmergeable, Stacks, Outcomes

LEMMA GotoTypes ==
  ASSUME Around, NEW r \in Reconcilers,
         NEW pc \in {"idle", "claimed", "observed", "read", "merge", "release", "stop"},
         Goto(r, pc)
  PROVE  reconciler' \in [Reconcilers -> Passes]
<1> DEFINE p == [reconciler[r] EXCEPT !.pc = pc, !.seen = "none", !.stack = "main"]
<1>1. p \in Passes
  BY DEF Around, Passes, Outcomes, Stacks
<1>2. reconciler' = [reconciler EXCEPT ![r] = p]
  BY DEF Around, Goto
<1> HIDE DEF p
<1> QED
  BY <1>1, <1>2 DEF Around

LEMMA DroppedTypes ==
  ASSUME Around, NEW r \in Reconcilers, reconciler' = [reconciler EXCEPT ![r] = NoClaim]
  PROVE  reconciler' \in [Reconcilers -> Passes]
<1>1. NoClaim \in Passes
  BY AutoMergeAssumption DEF NoClaim, Passes, Outcomes, Stacks
<1> QED
  BY <1>1 DEF Around

-----------------------------------------------------------------------------
(* The request's own steps                                                  *)

Step == AutoInv' /\ Changes

\* All intents are stopped.
LEMMA StopAll ==
  ASSUME AutoInv, Around', intents' = Stopped, landing' = landing,
         request.state = "Merged" => request'.state = "Merged"
  PROVE  Step
<1>1. /\ Changes /\ Active' = {}
      /\ \A i \in Ids : intents'[i].status = "Fulfilled" => intents'[i] = intents[i]
  BY StoppedAll DEF AutoInv
<1>2. Standing'
  BY <1>1 DEF Standing
<1> QED
  BY <1>1, <1>2, QuietStep DEF Step

\* The intents are left alone, and so is what they rest on.
LEMMA LeaveAll ==
  ASSUME AutoInv, Around', intents' = intents, landing' = landing,
         request.state = "Merged" => request'.state = "Merged", Changes => Standing'
  PROVE  Step
<1>1. Changes
  BY NoChange DEF AutoInv
<1> QED
  BY <1>1, QuietStep DEF Step

LEMMA PushRevisionStep ==
  ASSUME AutoInv, PushRevision
  PROVE  Step
<1>1. Around
  BY TypeByRow DEF AutoInv
<1>2. PICK s \in {"main", "waiting", "blocked"} :
        request' = [request EXCEPT !.rev = @ + 1, !.stack = s]
  BY DEF PushRevision
<1>3. request' \in Requests
  <2>1. request \in Requests /\ request.rev \in 1 .. MaxRevisions /\ request.rev < MaxRevisions
    BY <1>1 DEF PushRevision, Around, Requests
  <2>2. request.rev + 1 \in 1 .. MaxRevisions
    BY <2>1, AutoMergeAssumption
  <2> QED
    BY <1>2, <2>1, <2>2 DEF Requests, Stacks
<1>4. Around'
  BY <1>1, <1>3 DEF PushRevision, Around, Outcomes
<1> QED
  BY <1>4, StopAll DEF PushRevision

LEMMA CloseStep ==
  ASSUME AutoInv, Close
  PROVE  Step
<1>1. Around
  BY TypeByRow DEF AutoInv
<1>2. request' \in Requests
  BY <1>1 DEF Close, Around, Requests
<1>3. Around'
  BY <1>1, <1>2 DEF Close, Around
<1> QED
  BY <1>3, StopAll DEF Close

LEMMA RefreshStackStep ==
  ASSUME AutoInv, NEW s \in {"waiting", "blocked"}, RefreshStack(s)
  PROVE  Step
<1>1. Around
  BY TypeByRow DEF AutoInv
<1>2. request' \in Requests
  BY <1>1 DEF RefreshStack, Around, Requests, Stacks
<1>3. Around'
  BY <1>1, <1>2 DEF RefreshStack, Around
<1>4. CASE s = "blocked"
  BY <1>3, <1>4, StopAll DEF RefreshStack
<1>5. CASE s = "waiting"
  <2>1. /\ request'.state = request.state /\ request'.rev = request.rev
        /\ request'.ci = request.ci /\ request'.stack = "waiting"
    BY <1>1, <1>5 DEF RefreshStack, Around, Requests
  <2>2. Changes => Standing'
    BY <2>1, StandingAnew DEF RefreshStack
  <2> QED
    BY <1>3, <1>5, <2>1, <2>2, LeaveAll DEF RefreshStack
<1> QED
  BY <1>4, <1>5

\* Steps that change the checks and may stop the intents.
LEMMA ChecksStep ==
  ASSUME AutoInv, NEW o \in Outcomes, checks' = o,
         UNCHANGED <<request, access, reconciler, manual, landing>>,
         \/ intents' = Stopped
         \/ /\ intents' = intents /\ o # "invalid"
            /\ o # "failed" \/ request.ci # "native"
  PROVE  Step
<1>1. Around'
  BY TypeByRow DEF AutoInv, Around
<1>2. CASE intents' = Stopped
  BY <1>1, <1>2, StopAll
<1>3. CASE intents' = intents /\ o # "invalid" /\ (o # "failed" \/ request.ci # "native")
  <2>1. Changes => Standing'
    BY <1>3, StandingAnew
  <2> QED
    BY <1>1, <1>3, <2>1, LeaveAll
<1> QED
  BY <1>2, <1>3

LEMMA AllChecksSteps ==
  ASSUME AutoInv,
         \/ ApproveChecks \/ WithdrawChecks \/ RetryCheckRun
         \/ \E o \in {"approval", "pending", "clear", "invalid"} : RecordChecks(o)
         \/ \E o \in {"clear", "failed"} : CheckRunEnds(o)
         \/ \E o \in {"pending", "clear", "failed"} : GitHubResult(o)
  PROVE  Step
<1>1. CASE ApproveChecks \/ RetryCheckRun
  BY <1>1, ChecksStep DEF ApproveChecks, RetryCheckRun, Outcomes
<1>2. CASE WithdrawChecks
  BY <1>2, ChecksStep DEF WithdrawChecks, Outcomes
<1>3. ASSUME NEW o \in {"approval", "pending", "clear", "invalid"}, RecordChecks(o)
      PROVE  Step
  BY <1>3, ChecksStep DEF RecordChecks, Outcomes
<1>4. ASSUME NEW o \in {"clear", "failed"}, CheckRunEnds(o)
      PROVE  Step
  BY <1>4, ChecksStep DEF CheckRunEnds, Outcomes
<1>5. ASSUME NEW o \in {"pending", "clear", "failed"}, GitHubResult(o)
      PROVE  Step
  BY <1>5, ChecksStep DEF GitHubResult, Outcomes
<1> QED
  BY <1>1, <1>2, <1>3, <1>4, <1>5

-----------------------------------------------------------------------------
(* Active intents that go on                                                *)

\* The rows in `kept` go on with another claim or another time, the others are
\* left alone.
LEMMA GoingOn ==
  ASSUME TypeOK, NEW kept \in SUBSET Active, NEW row,
         intents' = [i \in Ids |-> IF i \in kept THEN row[i] ELSE intents[i]],
         \A i \in kept : /\ Row(row[i]) /\ row[i].status = "Active"
                         /\ row[i].rev = intents[i].rev /\ row[i].actor = intents[i].actor
                         /\ Respected(i)
  PROVE  /\ Changes
         /\ \A i \in Ids : intents'[i].status = "Fulfilled" => intents'[i] = intents[i]
<1>1. \A i \in kept : i \in Ids /\ intents'[i] = row[i]
  BY DEF Active
<1>2. \A i \in Ids \ kept : intents'[i] = intents[i]
  OBVIOUS
<1>3. \A i \in Ids : Row(intents'[i])
  BY <1>1, <1>2, TypeByRow
<1>4. intents' \in [Ids -> IntentRows]
  BY <1>3 DEF Row
<1>5. \A i \in Ids : Follows(i)
  BY <1>1, <1>2 DEF Follows
<1>6. \A i \in kept : intents'[i].status = "Active"
  BY <1>1
<1> QED
  BY <1>2, <1>3, <1>4, <1>5, <1>6 DEF Changes

LEMMA ParentLandsStep ==
  ASSUME AutoInv, NEW s \in {"main", "conflict"}, ParentLands(s)
  PROVE  Step
<1>1. Around /\ TypeOK
  BY TypeByRow DEF AutoInv
<1>2. request' \in Requests
  BY <1>1 DEF ParentLands, Around, Requests, Stacks
<1>3. Around'
  BY <1>1, <1>2 DEF ParentLands, Around
<1>4. CASE s = "conflict"
  BY <1>3, <1>4, StopAll DEF ParentLands
<1>5. CASE s = "main"
  <2> DEFINE row == [i \in Ids |-> [intents[i] EXCEPT !.due = 0]]
  <2>1. intents' = [i \in Ids |-> IF i \in Active THEN row[i] ELSE intents[i]]
    BY <1>5 DEF ParentLands
  <2>2. ASSUME NEW i \in Active
        PROVE  /\ Row(row[i]) /\ row[i].status = "Active" /\ row[i].rev = intents[i].rev
               /\ row[i].actor = intents[i].actor /\ row[i].token = intents[i].token
    <3>1. i \in Ids /\ intents[i] \in IntentRows /\ intents[i].status = "Active"
      BY <1>1, TypeByRow DEF Active
    <3>2. 0 \in 0 .. RetryDelay
      BY AutoMergeAssumption
    <3>3. row[i] \in IntentRows
      BY <3>1, <3>2 DEF IntentRows
    <3> QED
      BY <3>1, <3>3 DEF Row, IntentRows
  <2> HIDE DEF row
  <2>3. \A i \in Active : i \in Ids /\ intents'[i] = row[i]
    BY <2>1 DEF Active
  <2>4. \A i \in Active : Respected(i)
    BY <2>2, <2>3 DEF Respected
  <2>5. Changes /\ \A i \in Ids : intents'[i].status = "Fulfilled" => intents'[i] = intents[i]
    BY <1>1, <2>1, <2>2, <2>4, GoingOn
  <2>6. /\ request'.state = request.state /\ request'.rev = request.rev
        /\ request'.ci = request.ci /\ request'.stack = "main"
    BY <1>1, <1>5 DEF ParentLands, Around, Requests
  <2>7. Standing'
    BY <2>5, <2>6, StandingAnew DEF ParentLands
  <2> QED
    BY <1>3, <2>5, <2>6, <2>7, QuietStep DEF ParentLands, Step
<1> QED
  BY <1>4, <1>5

LEMMA TickStep ==
  ASSUME AutoInv, Tick
  PROVE  Step
<1>1. Around /\ TypeOK
  BY TypeByRow DEF AutoInv
<1> DEFINE row == [i \in Ids |->
             [intents[i] EXCEPT !.due = IF @ > 0 THEN @ - 1 ELSE 0,
                                !.lease = IF intents[i].token = Nobody THEN 0
                                          ELSE IF @ > -1 THEN @ - 1 ELSE -1]]
<1>2. intents' = [i \in Ids |-> IF i \in Active THEN row[i] ELSE intents[i]]
  BY DEF Tick
<1>3. ASSUME NEW i \in Active
      PROVE  /\ Row(row[i]) /\ row[i].status = "Active" /\ row[i].rev = intents[i].rev
             /\ row[i].actor = intents[i].actor /\ row[i].token = intents[i].token
  <2>1. i \in Ids /\ intents[i] \in IntentRows /\ intents[i].status = "Active"
    BY <1>1, TypeByRow DEF Active
  <2> DEFINE due == IF intents[i].due > 0 THEN intents[i].due - 1 ELSE 0
             lease == IF intents[i].token = Nobody THEN 0
                      ELSE IF intents[i].lease > -1 THEN intents[i].lease - 1 ELSE -1
  <2>2. due \in 0 .. RetryDelay /\ lease \in -1 .. LeaseTime
    BY <2>1, AutoMergeAssumption DEF IntentRows
  <2>3. row[i] = [intents[i] EXCEPT !.due = due, !.lease = lease]
    BY <2>1
  <2> HIDE DEF due, lease, row
  <2>4. row[i] \in IntentRows
    BY <2>1, <2>2, <2>3 DEF IntentRows
  <2> QED
    BY <2>1, <2>3, <2>4 DEF Row, IntentRows
<1> HIDE DEF row
<1>4. \A i \in Active : i \in Ids /\ intents'[i] = row[i]
  BY <1>2 DEF Active
<1>5. \A i \in Active : Respected(i)
  BY <1>3, <1>4 DEF Respected
<1>6. Changes /\ \A i \in Ids : intents'[i].status = "Fulfilled" => intents'[i] = intents[i]
  BY <1>1, <1>2, <1>3, <1>5, GoingOn
<1>7. Around' /\ Standing'
  BY <1>1, <1>6, StandingAnew DEF Tick, Around
<1> QED
  BY <1>6, <1>7, QuietStep DEF Tick, Step

\* One active intent goes on.
LEMMA OneGoesOn ==
  ASSUME TypeOK, NEW i \in Active, NEW token \in Reconcilers \cup {Nobody},
         NEW lease \in -1 .. LeaseTime, NEW due \in 0 .. RetryDelay,
         intents' = [intents EXCEPT ![i] = [intents[i] EXCEPT !.token = token, !.lease = lease,
                                                              !.due = due]],
         \/ intents[i].token = Nobody \/ intents[i].lease =< 0
         \/ reconciler[intents[i].token].pc = "release"
  PROVE  /\ Changes
         /\ \A j \in Ids : intents'[j].status = "Fulfilled" => intents'[j] = intents[j]
<1> DEFINE w == [intents[i] EXCEPT !.token = token, !.lease = lease, !.due = due]
           row == [j \in Ids |-> w]
<1>1. i \in Ids /\ intents[i] \in IntentRows /\ intents[i].status = "Active"
  BY TypeByRow DEF Active
<1>2. w \in IntentRows /\ w.status = "Active" /\ w.rev = intents[i].rev
        /\ w.actor = intents[i].actor
  BY <1>1 DEF IntentRows
<1> HIDE DEF w
<1>3. intents' = [j \in Ids |-> IF j \in {i} THEN row[j] ELSE intents[j]]
  BY <1>1, TypeByRow DEF w
<1>4. row[i] = w
  BY <1>1
<1> HIDE DEF row
<1>5. Row(row[i]) /\ Respected(i)
  BY <1>2, <1>4 DEF Row, Respected
<1> QED
  BY <1>2, <1>3, <1>4, <1>5, GoingOn

LEMMA ClaimStep ==
  ASSUME AutoInv, NEW r \in Reconcilers, Claim(r)
  PROVE  Step
<1>1. Around /\ TypeOK
  BY TypeByRow DEF AutoInv
<1>2. PICK i \in Active :
        /\ Due(i)
        /\ intents' = [intents EXCEPT ![i].token = r, ![i].lease = LeaseTime]
        /\ reconciler' = [reconciler EXCEPT ![r] = [NoClaim EXCEPT !.pc = "claimed", !.id = i]]
  BY DEF Claim
<1>3. i \in Ids /\ intents[i] \in IntentRows /\ intents \in [Ids -> IntentRows]
  BY <1>1, TypeByRow DEF Active
<1>4. LeaseTime \in -1 .. LeaseTime /\ intents[i].due \in 0 .. RetryDelay
  BY <1>3, AutoMergeAssumption DEF IntentRows
<1>5. intents[i].token = Nobody \/ intents[i].lease =< 0
  BY <1>2 DEF Due
<1>6. [intents[i] EXCEPT !.token = r, !.lease = LeaseTime]
        = [intents[i] EXCEPT !.token = r, !.lease = LeaseTime, !.due = intents[i].due]
  BY <1>3 DEF IntentRows
<1>7. intents' = [intents EXCEPT ![i] = [intents[i] EXCEPT !.token = r, !.lease = LeaseTime,
                                                           !.due = intents[i].due]]
  BY <1>2, <1>3, <1>6
<1>8. Changes /\ \A j \in Ids : intents'[j].status = "Fulfilled" => intents'[j] = intents[j]
  BY <1>1, <1>4, <1>5, <1>7, OneGoesOn
<1>9. [NoClaim EXCEPT !.pc = "claimed", !.id = i] \in Passes
  <2>1. i \in 0 .. MaxIntents
    BY <1>3, AutoMergeAssumption DEF Ids
  <2> QED
    BY <2>1 DEF NoClaim, Passes, Outcomes, Stacks
<1>10. Around' /\ Standing'
  BY <1>1, <1>2, <1>8, <1>9, StandingAnew DEF Claim, Around
<1> QED
  BY <1>8, <1>10, QuietStep DEF Claim, Step

LEMMA ReleaseStep ==
  ASSUME AutoInv, NEW r \in Reconcilers, NEW delay \in 0 .. RetryDelay, Release(r, delay)
  PROVE  Step
<1>1. Around /\ TypeOK
  BY TypeByRow DEF AutoInv
<1> DEFINE i == reconciler[r].id
<1>2. Around'
  BY <1>1, DroppedTypes DEF Release, Around
<1>3. CASE OwnsClaim(r, i)
  <2>1. PICK k \in Active : k = i /\ intents[k].token = r /\ k \in Ids
    BY <1>3 DEF OwnsClaim, Active
  <2>2. intents' = [intents EXCEPT ![k] = [intents[k] EXCEPT !.token = Nobody, !.lease = 0,
                                                             !.due = delay]]
    BY <1>1, <1>3, <2>1, TypeByRow DEF Release
  <2>3. reconciler[intents[k].token].pc = "release"
    BY <2>1 DEF Release
  <2>4. 0 \in -1 .. LeaseTime
    BY AutoMergeAssumption
  <2>5. Changes /\ \A j \in Ids : intents'[j].status = "Fulfilled" => intents'[j] = intents[j]
    BY <1>1, <2>2, <2>3, <2>4, OneGoesOn
  <2>6. Standing'
    BY <2>5, StandingAnew DEF Release
  <2> QED
    BY <1>2, <2>5, <2>6, QuietStep DEF Release, Step
<1>4. CASE ~ OwnsClaim(r, i)
  <2>1. Changes => Standing'
    BY StandingAnew DEF Release
  <2> QED
    BY <1>2, <1>4, <2>1, LeaveAll DEF Release
<1> QED
  BY <1>3, <1>4

-----------------------------------------------------------------------------
(* One intent ends                                                          *)

LEMMA OneStops ==
  ASSUME AutoInv, Around', NEW s \in {"Cancelled", "Stopped"}, NEW i \in Active,
         intents' = [intents EXCEPT ![i] = Ended(i, s)],
         UNCHANGED <<request, checks, access, landing>>
  PROVE  Step
<1>1. Changes /\ intents'[i].status = s /\ \A j \in Ids \ {i} : intents'[j] = intents[j]
  BY OneEnds DEF AutoInv, Over
<1>2. \A j \in Ids : intents'[j].status = "Fulfilled" => intents'[j] = intents[j]
  BY <1>1
<1>3. Standing'
  BY <1>1, StandingAnew
<1> QED
  BY <1>1, <1>2, <1>3, QuietStep DEF Step

LEMMA CancelStep ==
  ASSUME AutoInv, NEW a \in Actors, Cancel(a)
  PROVE  Step
<1>1. Around'
  BY TypeByRow DEF AutoInv, Cancel, Around
<1>2. PICK i \in Active : intents' = [intents EXCEPT ![i] = Ended(i, "Cancelled")]
  BY DEF Cancel
<1> QED
  BY <1>1, <1>2, OneStops DEF Cancel

LEMMA StopClaimedStep ==
  ASSUME AutoInv, NEW r \in Reconcilers, StopClaimed(r)
  PROVE  Step
<1>1. Around
  BY TypeByRow DEF AutoInv
<1>2. Around'
  BY <1>1, DroppedTypes DEF StopClaimed, Around
<1>3. CASE OwnsClaim(r, reconciler[r].id)
  <2>1. PICK k \in Active : k = reconciler[r].id
    BY <1>3 DEF OwnsClaim
  <2>2. intents' = [intents EXCEPT ![k] = Ended(k, "Stopped")]
    BY <1>3, <2>1 DEF StopClaimed
  <2> QED
    BY <1>2, <2>2, OneStops DEF StopClaimed
<1>4. CASE ~ OwnsClaim(r, reconciler[r].id)
  <2>1. Changes => Standing'
    BY StandingAnew DEF StopClaimed
  <2> QED
    BY <1>2, <1>4, <2>1, LeaveAll DEF StopClaimed
<1> QED
  BY <1>3, <1>4

LEMMA RemoveMemberStep ==
  ASSUME AutoInv, NEW a \in Actors, RemoveMember(a)
  PROVE  Step
<1>1. Around /\ TypeOK
  BY TypeByRow DEF AutoInv
<1>2. Around'
  BY <1>1 DEF RemoveMember, Around
<1>3. PICK gone \in SUBSET Active : gone = {i \in Active : intents[i].actor = a}
  OBVIOUS
<1>4. intents' = [i \in Ids |-> IF i \in gone THEN Ended(i, "Stopped") ELSE intents[i]]
  BY <1>3 DEF RemoveMember
<1>5. /\ Changes
      /\ \A i \in gone : intents'[i].status = "Stopped"
      /\ \A i \in Ids \ gone : intents'[i] = intents[i]
  BY <1>1, <1>4, EndingChanges DEF Over
<1>6. \A i \in Ids : intents'[i].status = "Fulfilled" => intents'[i] = intents[i]
  BY <1>5
<1>7. ASSUME NEW i \in Active'
      PROVE  access'[intents[i].actor] # "none"
  <2>1. i \in Active /\ i \in Ids /\ i \notin gone
    BY <1>1, <1>5, <1>7, SameCreated DEF Active
  <2>2. intents[i].actor # a /\ intents[i].actor \in Actors /\ IsMember(intents[i].actor)
    BY <1>3, <2>1 DEF AutoInv, Standing, Stands
  <2> QED
    BY <1>1, <2>2 DEF RemoveMember, IsMember, Around
<1>8. Standing'
  BY <1>5, <1>7, StillStanding DEF RemoveMember
<1> QED
  BY <1>2, <1>5, <1>6, <1>8, QuietStep DEF RemoveMember, Step

-----------------------------------------------------------------------------
(* Steps that leave the intents alone                                       *)

LEMMA SetAccessStep ==
  ASSUME AutoInv, NEW a \in Actors, NEW level \in {"merger", "member"}, SetAccess(a, level)
  PROVE  Step
<1>1. Around
  BY TypeByRow DEF AutoInv
<1>2. Around'
  BY <1>1 DEF SetAccess, Around
<1>3. ASSUME Changes PROVE Standing'
  <2>1. ASSUME NEW i \in Active' PROVE access'[intents[i].actor] # "none"
    <3>1. i \in Active
      BY <1>3, <2>1, SameCreated DEF AutoInv
    <3>2. intents[i].actor \in Actors /\ access[intents[i].actor] # "none"
      BY <3>1 DEF AutoInv, Standing, Stands, IsMember
    <3> QED
      BY <1>1, <3>2 DEF SetAccess, Around
  <2> QED
    BY <1>3, <2>1, StillStanding DEF SetAccess
<1> QED
  BY <1>2, <1>3, LeaveAll DEF SetAccess

\* A pass, or a person, looks.
LEMMA LookStep ==
  ASSUME AutoInv, reconciler' \in [Reconcilers -> Passes], manual' \in Manuals,
         UNCHANGED <<request, checks, access, intents, landing>>
  PROVE  Step
<1>1. Around'
  BY TypeByRow DEF AutoInv, Around
<1>2. Changes => Standing'
  BY StandingAnew
<1> QED
  BY <1>1, <1>2, LeaveAll

LEMMA PassSteps ==
  ASSUME AutoInv, NEW r \in Reconcilers,
         Observe(r) \/ ReadChecks(r) \/ Decide(r) \/ MergeFails(r) \/ Crash(r)
  PROVE  Step
<1>1. Around
  BY TypeByRow DEF AutoInv
<1>2. reconciler' \in [Reconcilers -> Passes]
  <2>1. CASE reconciler' = [reconciler EXCEPT ![r] = NoClaim]
    BY <1>1, <2>1, DroppedTypes
  <2>2. ASSUME NEW pc \in {"release", "stop", "merge"}, Goto(r, pc)
        PROVE  reconciler' \in [Reconcilers -> Passes]
    BY <1>1, <2>2, GotoTypes
  <2>3. CASE Observe(r)
    <3>1. CASE reconciler' = [reconciler EXCEPT ![r].pc = "observed",
                                                ![r].stack = request.stack]
      <4> DEFINE p == [reconciler[r] EXCEPT !.pc = "observed", !.stack = request.stack]
      <4>1. p \in Passes
        <5>1. request.stack \in Stacks /\ reconciler[r] \in Passes
          BY <1>1 DEF Around, Requests
        <5> QED
          BY <5>1 DEF Passes
      <4>2. reconciler' = [reconciler EXCEPT ![r] = p]
        BY <1>1, <3>1 DEF Around
      <4> HIDE DEF p
      <4> QED
        BY <1>1, <4>1, <4>2 DEF Around
    <3> QED
      BY <2>1, <2>2, <2>3, <3>1 DEF Observe
  <2>4. CASE ReadChecks(r)
    BY <1>1, <2>4 DEF ReadChecks, Around, Passes
  <2>5. CASE Decide(r)
    <3>1. Readiness(reconciler[r].stack, reconciler[r].seen) \in {"stop", "release", "merge"}
      BY <1>1, ReadinessKinds DEF Around, Passes
    <3> QED
      BY <2>1, <2>2, <2>5, <3>1 DEF Decide
  <2> QED
    BY <2>1, <2>2, <2>3, <2>4, <2>5 DEF MergeFails, Crash
<1>3. manual' = manual /\ UNCHANGED <<request, checks, access, intents, landing>>
  BY DEF Observe, ReadChecks, Decide, MergeFails, Crash
<1> QED
  BY <1>1, <1>2, <1>3, LookStep DEF Around

LEMMA PrepareManualStep ==
  ASSUME AutoInv, NEW a \in Actors, PrepareManual(a)
  PROVE  Step
<1>1. Around
  BY TypeByRow DEF AutoInv
<1>2. request.rev \in 0 .. MaxRevisions
  BY <1>1, AutoMergeAssumption DEF Around, Requests
<1>3. manual' \in Manuals
  BY <1>2 DEF PrepareManual, Manuals
<1> QED
  BY <1>1, <1>3, LookStep DEF PrepareManual, Around

-----------------------------------------------------------------------------
(* Merges                                                                   *)

LEMMA MergeConflictsStep ==
  ASSUME AutoInv, NEW r \in Reconcilers, MergeConflicts(r)
  PROVE  Step
<1>1. Around
  BY TypeByRow DEF AutoInv
<1>2. reconciler' \in [Reconcilers -> Passes]
  BY <1>1, GotoTypes DEF MergeConflicts
<1>3. CASE request' = [request EXCEPT !.stack = "conflict"] /\ intents' = Stopped
  <2>1. request' \in Requests /\ request'.state = request.state
    BY <1>1, <1>3 DEF Around, Requests, Stacks
  <2>2. Around'
    BY <1>1, <1>2, <2>1 DEF MergeConflicts, Around
  <2> QED
    BY <1>3, <2>1, <2>2, StopAll DEF MergeConflicts
<1>4. CASE UNCHANGED <<request, intents>>
  BY <1>1, <1>2, <1>4, LookStep DEF MergeConflicts, Around
<1> QED
  BY <1>3, <1>4 DEF MergeConflicts

\* What a landing by a person writes.
LEMMA PersonLands ==
  ASSUME AutoInv, NEW a \in Actors \cup {Nobody}, NEW by \in {"person", "push"},
         request.state = "Open",
         request' \in Requests, request'.state = "Merged", intents' = Fulfilled,
         landing' = [by |-> by, id |-> 0, rev |-> request.rev, actor |-> a, member |-> TRUE,
                     checks |-> checks],
         manual' \in Manuals, UNCHANGED <<checks, access, reconciler>>
  PROVE  Step
<1>1. Around /\ TypeOK
  BY TypeByRow DEF AutoInv
<1>2. request.rev \in 0 .. MaxRevisions /\ 0 \in 0 .. MaxIntents
  BY <1>1, AutoMergeAssumption DEF Around, Requests
<1>3. landing' \in Landings /\ landing'.by # "auto" /\ landing'.rev = request.rev
  BY <1>1, <1>2 DEF Around, Landings
<1>4. Around'
  BY <1>1, <1>3 DEF Around
<1>5. Changes /\ Active' = {} /\ \A i \in Ids \ Active : intents'[i] = intents[i]
  BY <1>1, FulfilledAll
<1>6. Landed' /\ AutoMergeWasAuthorized'
  BY <1>3 DEF Landed, AutoMergeWasAuthorized
<1> QED
  BY <1>3, <1>4, <1>5, <1>6, LandStep DEF Step

LEMMA ManualTxStep ==
  ASSUME AutoInv, ManualTx
  PROVE  Step
<1>1. Around
  BY TypeByRow DEF AutoInv
<1>2. NoManual \in Manuals
  BY AutoMergeAssumption DEF NoManual, Manuals
<1>3. CASE UNCHANGED <<request, intents, landing>>
  BY <1>1, <1>2, <1>3, LookStep DEF ManualTx, Around
<1>4. CASE ~ UNCHANGED <<request, intents, landing>>
  <2>1. /\ request.state = "Open" /\ MayMerge(manual.actor)
        /\ request' = [request EXCEPT !.state = "Merged"] /\ intents' = Fulfilled
        /\ landing' = [by |-> "person", id |-> 0, rev |-> request.rev, actor |-> manual.actor,
                       member |-> TRUE, checks |-> checks]
    BY <1>4 DEF ManualTx
  <2>2. request' \in Requests /\ request'.state = "Merged"
    BY <1>1, <2>1 DEF Around, Requests
  <2>3. manual.actor \in Actors \cup {Nobody}
    BY <1>1 DEF Around, Manuals
  <2> QED
    BY <1>2, <2>1, <2>2, <2>3, PersonLands DEF ManualTx
<1> QED
  BY <1>3, <1>4

LEMMA MainPushLandsStep ==
  ASSUME AutoInv, NEW a \in Actors, MainPushLands(a)
  PROVE  Step
<1>1. Around
  BY TypeByRow DEF AutoInv
<1>2. request' \in Requests /\ request'.state = "Merged"
  BY <1>1 DEF MainPushLands, Around, Requests, Stacks
<1> QED
  BY <1>1, <1>2, PersonLands DEF MainPushLands, Around

\* The transaction of the claim: it lands what the intent authorized.
LEMMA MergeTxLands ==
  ASSUME AutoInv, NEW r \in Reconcilers, NEW i \in Active, Authorized(i),
         GateOfMerge = "merge",
         request' = [request EXCEPT !.state = "Merged", !.stack = "main"],
         intents' = [intents EXCEPT ![i] = Ended(i, "Fulfilled")],
         landing' = [by |-> "auto", id |-> i, rev |-> request.rev, actor |-> intents[i].actor,
                     member |-> MayMerge(intents[i].actor), checks |-> checks],
         reconciler' = [reconciler EXCEPT ![r] = NoClaim],
         UNCHANGED <<checks, access, manual>>
  PROVE  Step
<1>1. Around /\ TypeOK
  BY TypeByRow DEF AutoInv
<1>2. request' \in Requests /\ request'.state = "Merged" /\ request.state = "Open"
  BY <1>1 DEF Around, Requests, Stacks, Authorized
<1>3. i \in Ids /\ i \in 0 .. MaxIntents /\ intents[i].actor \in Actors \cup {Nobody}
        /\ request.rev \in 0 .. MaxRevisions
  BY <1>1, TypeByRow, AutoMergeAssumption DEF Active, Ids, IntentRows, Around, Requests
<1>4. landing' \in Landings
  <2>1. MayMerge(intents[i].actor) \in BOOLEAN
    BY DEF MayMerge
  <2>2. checks \in Outcomes
    BY <1>1 DEF Around
  <2> QED
    BY <1>3, <2>1, <2>2 DEF Landings
<1>5. Around'
  BY <1>1, <1>2, <1>4, DroppedTypes DEF Around
<1>6. Changes /\ intents'[i].status = "Fulfilled" /\ \A j \in Ids \ {i} : intents'[j] = intents[j]
  BY <1>1, OneEnds DEF Over
<1>7. Active' = {} /\ \A j \in Ids \ Active : intents'[j] = intents[j]
  <2>1. \A j \in Active : j = i
    BY AtMostOne
  <2>2. \A j \in Ids : intents'[j].status # "Active"
    BY <1>6, <2>1 DEF Active
  <2> QED
    BY <1>6, <2>2 DEF Active
<1>8. Landed'
  BY <1>3 DEF Landed
<1>9. AutoMergeWasAuthorized'
  <2>1. checks = "clear" /\ MayMerge(intents[i].actor)
    BY <1>1, ReadinessKinds DEF GateOfMerge, Authorized, Around, Requests
  <2>2. landing'.member
    BY <2>1
  <2>3. intents'[i].rev = intents[i].rev /\ intents'[i].actor = intents[i].actor
          /\ intents[i].rev = request.rev
    BY <1>3, <1>6 DEF Changes, Follows, Authorized
  <2>4. landing'.id = i /\ landing'.checks = checks /\ landing'.rev = request.rev
          /\ landing'.actor = intents[i].actor
    OBVIOUS
  <2> QED
    BY <1>6, <2>1, <2>2, <2>3, <2>4 DEF AutoMergeWasAuthorized
<1> QED
  BY <1>2, <1>5, <1>6, <1>7, <1>8, <1>9, LandStep DEF Step

LEMMA MergeTxStep ==
  ASSUME AutoInv, NEW r \in Reconcilers, MergeTx(r)
  PROVE  Step
<1>1. Around
  BY TypeByRow DEF AutoInv
<1>2. PICK i : i = reconciler[r].id
  OBVIOUS
<1>3. CASE Goto(r, "release") /\ UNCHANGED <<request, intents, landing>>
  <2>1. reconciler' \in [Reconcilers -> Passes]
    BY <1>1, <1>3, GotoTypes
  <2> QED
    BY <1>1, <1>3, <2>1, LookStep DEF MergeTx, Around
<1>4. CASE /\ ClaimStands(r, i) /\ Authorized(i) /\ GateOfMerge = "merge"
           /\ request' = [request EXCEPT !.state = "Merged", !.stack = "main"]
           /\ intents' = [intents EXCEPT ![i] = Ended(i, "Fulfilled")]
           /\ landing' = [by |-> "auto", id |-> i, rev |-> request.rev,
                          actor |-> intents[i].actor,
                          member |-> MayMerge(intents[i].actor), checks |-> checks]
           /\ reconciler' = [reconciler EXCEPT ![r] = NoClaim]
  <2>1. i \in Active
    BY <1>4 DEF ClaimStands
  <2> QED
    BY <1>4, <2>1, MergeTxLands DEF MergeTx
<1>5. CASE /\ ClaimStands(r, i) /\ intents' = [intents EXCEPT ![i] = Ended(i, "Stopped")]
           /\ Goto(r, "release") /\ UNCHANGED <<request, landing>>
  <2>1. i \in Active
    BY <1>5 DEF ClaimStands
  <2>2. reconciler' \in [Reconcilers -> Passes]
    BY <1>1, <1>5, GotoTypes
  <2>3. Around'
    BY <1>1, <1>5, <2>2 DEF MergeTx, Around
  <2> QED
    BY <1>5, <2>1, <2>3, OneStops DEF MergeTx
<1> QED
  BY <1>2, <1>3, <1>4, <1>5 DEF MergeTx

-----------------------------------------------------------------------------
(* The step that creates an intent                                          *)

LEMMA AuthorizeStep ==
  ASSUME AutoInv, NEW a \in Actors, Authorize(a)
  PROVE  /\ AutoInv'
         /\ \A i \in Ids : intents'[i] = intents[i] \/ intents[i].status = "none"
<1>1. Around /\ TypeOK /\ intents \in [Ids -> IntentRows] /\ \A j \in Ids : Row(intents[j])
  BY TypeByRow DEF AutoInv
<1> DEFINE w == [NoIntent EXCEPT !.status = "Active", !.rev = request.rev, !.actor = a]
<1>2. PICK i \in Ids \ Created :
        (\A j \in Created : j < i) /\ intents' = [intents EXCEPT ![i] = w]
  BY DEF Authorize
<1>3. /\ Row(w) /\ w.status = "Active" /\ w.rev = request.rev /\ w.actor = a
  <2>1. request.rev \in 0 .. MaxRevisions
    BY <1>1, AutoMergeAssumption DEF Around, Requests
  <2>2. 0 \in -1 .. LeaseTime /\ 0 \in 0 .. RetryDelay
    BY AutoMergeAssumption
  <2>3. NoIntent \in IntentRows /\ NoIntent.token = Nobody
    BY <2>2, AutoMergeAssumption DEF NoIntent, IntentRows
  <2>4. w \in IntentRows /\ w.token = Nobody
    BY <2>1, <2>3 DEF IntentRows
  <2>5. w.status = "Active" /\ w.rev = request.rev /\ w.actor = a
    BY <2>3 DEF IntentRows
  <2> QED
    BY <2>4, <2>5 DEF Row
<1> SUFFICES ASSUME NEW v, v = w
             PROVE  /\ AutoInv'
                    /\ \A j \in Ids : intents'[j] = intents[j] \/ intents[j].status = "none"
  OBVIOUS
<1> HIDE DEF w
<1>4. /\ intents' = [intents EXCEPT ![i] = v] /\ Row(v) /\ v.status = "Active"
      /\ v.rev = request.rev /\ v.actor = a /\ v \in IntentRows
  BY <1>2, <1>3 DEF Row
<1>5. /\ i \in Ids /\ intents[i].status = "none" /\ intents'[i] = v
      /\ \A j \in Ids \ {i} : intents'[j] = intents[j]
  BY <1>1, <1>2, <1>4 DEF Created
<1>6. intents' \in [Ids -> IntentRows] /\ \A j \in Ids : Row(intents'[j])
  BY <1>1, <1>4, <1>5
<1>7. TypeOK'
  BY <1>1, <1>6, TypeByNextRow DEF Authorize, Around
<1>8. \A j \in Ids : intents[j].status # "Active"
  BY DEF Authorize, Active
<1>9. Active' = {i} /\ Created' = Created \cup {i}
  <2>1. \A j \in Ids : intents'[j].status = "Active" <=> j = i
    BY <1>4, <1>5, <1>8
  <2>2. \A j \in Ids : intents'[j].status # "none" <=> (j = i \/ intents[j].status # "none")
    BY <1>4, <1>5
  <2> QED
    BY <1>5, <2>1, <2>2 DEF Active, Created
<1>10. Standing'
  <2>1. Stands(v)
    BY <1>4 DEF Authorize, Stands, IsMember, MayMerge, Unmergeable
  <2>2. Stands(intents[i])'
    BY <1>5, <2>1 DEF Authorize, Stands, IsMember
  <2> QED
    BY <1>9, <2>2 DEF Standing
<1>11. Latest'
  <2>1. \A j \in Created : j \in Int
    BY DEF Created, Ids
  <2>2. i \in Int
    BY <1>5 DEF Ids
  <2> QED
    BY <1>2, <1>9, <2>1, <2>2 DEF Latest
<1>12. Landed' /\ AutoMergeWasAuthorized'
  <2>1. landing' = landing
    BY DEF Authorize
  <2>2. landing.by = "auto" => landing.id \in Ids /\ landing.id # i
    BY <1>5 DEF AutoInv, Landed, AutoMergeWasAuthorized
  <2> QED
    BY <1>5, <2>1, <2>2 DEF AutoInv, Landed, AutoMergeWasAuthorized
<1>13. FulfilledMeansMerged'
  <2>1. \A j \in Ids : intents[j].status # "Fulfilled"
    BY DEF AutoInv, FulfilledMeansMerged, Authorize
  <2>2. \A j \in Ids : intents'[j].status # "Fulfilled"
    BY <1>4, <1>5, <2>1
  <2> QED
    BY <2>2 DEF FulfilledMeansMerged
<1> QED
  BY <1>5, <1>7, <1>10, <1>11, <1>12, <1>13 DEF AutoInv

-----------------------------------------------------------------------------
(* All steps                                                                *)

LEMMA AutoInit == Init => AutoInv
<1> SUFFICES ASSUME Init PROVE AutoInv
  OBVIOUS
<1>1. NoIntent \in IntentRows /\ NoIntent.token = Nobody /\ NoIntent.status = "none"
  <2>1. 0 \in -1 .. LeaseTime /\ 0 \in 0 .. RetryDelay /\ 0 \in 0 .. MaxRevisions
    BY AutoMergeAssumption
  <2> QED
    BY <2>1 DEF NoIntent, IntentRows
<1>2. intents \in [Ids -> IntentRows] /\ \A i \in Ids : intents[i] = NoIntent
  BY <1>1 DEF Init
<1>3. Row(NoIntent)
  BY <1>1 DEF Row
<1>4. NoClaim \in Passes
  BY AutoMergeAssumption DEF NoClaim, Passes, Outcomes, Stacks
<1>5. NoManual \in Manuals /\ NoLanding \in Landings /\ NoLanding.by = "none"
  BY AutoMergeAssumption DEF NoManual, Manuals, NoLanding, Landings, Outcomes
<1>6. request \in Requests
  BY AutoMergeAssumption DEF Init, Requests, Stacks
<1>7. Around
  BY <1>4, <1>5, <1>6 DEF Init, Around, Outcomes
<1>8. TypeOK
  BY <1>2, <1>3, <1>7, TypeByRow
<1>9. Standing /\ Latest /\ FulfilledMeansMerged
  BY <1>1, <1>2 DEF Standing, Latest, FulfilledMeansMerged, Active
<1>10. Landed /\ AutoMergeWasAuthorized
  BY <1>5 DEF Init, Landed, AutoMergeWasAuthorized
<1> QED
  BY <1>8, <1>9, <1>10 DEF AutoInv

\* Intents follow their course, or one is created.
Good ==
  /\ AutoInv'
  /\ \/ Changes
     \/ \A i \in Ids : intents'[i] = intents[i] \/ intents[i].status = "none"

LEMMA AutoNext ==
  ASSUME AutoInv, [Next]_vars
  PROVE  Good
<1>1. Step => Good
  BY DEF Step, Good
<1>2. CASE UNCHANGED vars
  <2>1. Around
    BY TypeByRow DEF AutoInv
  <2> QED
    BY <1>1, <1>2, <2>1, LookStep DEF vars, Around
<1>3. CASE PushRevision \/ Close
  BY <1>1, <1>3, PushRevisionStep, CloseStep
<1>4. CASE \/ ApproveChecks \/ WithdrawChecks \/ RetryCheckRun
           \/ \E o \in {"approval", "pending", "clear", "invalid"} : RecordChecks(o)
           \/ \E o \in {"clear", "failed"} : CheckRunEnds(o)
           \/ \E o \in {"pending", "clear", "failed"} : GitHubResult(o)
  BY <1>1, <1>4, AllChecksSteps
<1>5. ASSUME NEW s \in {"waiting", "blocked"}, RefreshStack(s) PROVE Good
  BY <1>1, <1>5, RefreshStackStep
<1>6. ASSUME NEW s \in {"main", "conflict"}, ParentLands(s) PROVE Good
  BY <1>1, <1>6, ParentLandsStep
<1>7. ASSUME NEW a \in Actors,
             \/ RemoveMember(a) \/ Authorize(a) \/ Cancel(a) \/ PrepareManual(a)
             \/ MainPushLands(a)
      PROVE  Good
  <2>1. CASE Authorize(a)
    BY <2>1, AuthorizeStep DEF Good
  <2> QED
    BY <1>1, <1>7, <2>1, RemoveMemberStep, CancelStep, PrepareManualStep, MainPushLandsStep
<1>8. ASSUME NEW a \in Actors, NEW level \in {"merger", "member"}, SetAccess(a, level)
      PROVE  Good
  BY <1>1, <1>8, SetAccessStep
<1>9. CASE ManualTx \/ Tick
  BY <1>1, <1>9, ManualTxStep, TickStep
<1>10. ASSUME NEW r \in Reconcilers,
              Claim(r) \/ Reconcile(r) \/ MergeFails(r) \/ MergeConflicts(r) \/ Crash(r)
       PROVE  Good
  <2>1. ASSUME NEW d \in 0 .. RetryDelay, Release(r, d) PROVE Good
    BY <1>1, <2>1, ReleaseStep
  <2>2. CASE Claim(r) \/ MergeTx(r) \/ MergeConflicts(r) \/ StopClaimed(r)
    BY <1>1, <2>2, ClaimStep, MergeTxStep, MergeConflictsStep, StopClaimedStep
  <2>3. CASE Observe(r) \/ ReadChecks(r) \/ Decide(r) \/ MergeFails(r) \/ Crash(r)
    BY <1>1, <2>3, PassSteps
  <2> QED
    BY <1>10, <2>1, <2>2, <2>3 DEF Reconcile
<1> QED
  BY <1>2, <1>3, <1>4, <1>5, <1>6, <1>7, <1>8, <1>9, <1>10 DEF Next

LEMMA AutoAlways == Spec => []AutoInv
<1>1. AutoInv /\ [Next]_vars => AutoInv'
  BY AutoNext DEF Good
<1> QED
  BY <1>1, AutoInit, PTL DEF Spec

-----------------------------------------------------------------------------
(* Theorems                                                                 *)

\* Intents mean what they say, for every number of people, passes and
\* revisions: the one that is active rests on an open request of its revision
\* that still may merge and on somebody who is still a member, and one that is
\* fulfilled is the last of a request that merged at its revision.
THEOREM IntentsSound == Spec => []IntentsAreSound
<1>1. AutoInv => IntentsAreSound
  <2> SUFFICES ASSUME AutoInv PROVE IntentsAreSound
    OBVIOUS
  <2>1. TypeOK /\ FulfilledMeansMerged /\ Standing
    BY DEF AutoInv
  <2>2. Cardinality(Active) =< 1
    <3>1. CASE Active = {}
      BY <3>1, FS_EmptySet
    <3>2. CASE Active # {}
      <4>1. PICK i : i \in Active
        BY <3>2
      <4>2. Active = {i}
        BY <4>1, AtMostOne
      <4> QED
        BY <4>2, FS_Singleton
    <3> QED
      BY <3>1, <3>2
  <2>3. ActiveIntentStands
    BY <2>1, <2>2 DEF ActiveIntentStands, Standing, Stands
  <2> QED
    BY <2>1, <2>3 DEF IntentsAreSound
<1> QED
  BY <1>1, AutoAlways, PTL

\* A merge nobody pressed the button for is the one that was authorized: of
\* that revision, with clear checks, by somebody who may still merge, and of
\* an intent that nobody had cancelled or stopped.
THEOREM AutoMergesAuthorized == Spec => []AutoMergeWasAuthorized
<1>1. AutoInv => AutoMergeWasAuthorized
  BY DEF AutoInv
<1> QED
  BY <1>1, AutoAlways, PTL

\* A reconciler whose claim expired and was taken over, or whose intent ended
\* meanwhile, changes nothing any more.
THEOREM ClaimsHold == Spec => ClaimsAreRespected
<1> DEFINE Claims ==
      \A i \in Ids :
        /\ intents[i].status \in {"Cancelled", "Stopped", "Fulfilled"} =>
             intents'[i] = intents[i]
        /\ (i \in Active /\ intents'[i].status = "Active" /\ intents[i].token # Nobody
              /\ intents'[i].token # intents[i].token) =>
             (intents[i].lease <= 0 \/ reconciler[intents[i].token].pc = "release")
<1>1. ASSUME AutoInv, [Next]_vars PROVE Claims
  <2>1. CASE Changes
    BY <2>1 DEF Changes, Follows, Respected, Active, Over
  <2>2. CASE \A i \in Ids : intents'[i] = intents[i] \/ intents[i].status = "none"
    BY <2>2 DEF Active
  <2> QED
    BY <1>1, <2>1, <2>2, AutoNext DEF Good
<1>2. AutoInv /\ [Next]_vars => [Claims]_vars
  BY <1>1
<1> QED
  BY <1>2, AutoAlways, PTL DEF Spec, ClaimsAreRespected

-----------------------------------------------------------------------------
(* Checks: the inductive invariant                                          *)

Asking == Readers \cup Merges
StoredChecks ==
  [started : 0 .. MaxReads, applied : 0 .. MaxReads, at : Checks!Times,
   result : Checks!Statuses \cup {"none"}]
Readings ==
  [pc : {"idle", "begun", "started", "answered"}, commit : Checks!Commits, at : Checks!Times,
   number : 0 .. MaxReads, got : Checks!Statuses \cup {"none"}]
MergeStates ==
  [pc : {"idle", "confirming", "confirmed", "cleared", "prepared"}, tested : Checks!Commits,
   read : 0 .. MaxReads, base : Checks!Commits]
CheckedLandings ==
  [done : BOOLEAN, at : Checks!Times, tested : Checks!Commits, base : Checks!Commits,
   passed : Checks!Times \cup {Checks!Never}]

ChecksTypes ==
  /\ now \in Checks!Times /\ connected \in BOOLEAN /\ main \in Checks!Commits
  /\ github \in [Checks!Commits -> Checks!Statuses]
  /\ held \in [Checks!Commits -> [Checks!Statuses -> Checks!Times \cup {Checks!Never}]]
  /\ evaluation \in [state : {"started", "invalid"}, tested : Checks!Commits]
  /\ refresh \in [Checks!Commits -> StoredChecks] /\ reader \in [Asking -> Readings]
  /\ merge \in [Merges -> MergeStates] /\ mergeLanding \in CheckedLandings

\* What is past is past.
HeldBefore ==
  /\ \A c \in Checks!Commits, s \in Checks!Statuses : held[c][s] <= now
  /\ \A r \in Asking : reader[r].at <= now

IsTrueReading(read) == read.got \in Checks!Statuses /\ Checks!LastHeld(read.commit, read.got) >= read.at

\* What a read has got was true after it began, and its number has been given out.
ReadIsTrue(read) ==
  /\ read.pc \in {"started", "answered"} => read.number <= refresh[read.commit].started
  /\ read.pc = "answered" => IsTrueReading(read)

\* What is stored is what such a read got.
StoredIsTrue(c) ==
  refresh[c].applied > 0 => /\ refresh[c].result \in Checks!Statuses
                            /\ Checks!LastHeld(c, refresh[c].result) >= refresh[c].at

ChecksInv ==
  /\ ChecksTypes /\ HeldBefore
  /\ \A r \in Asking : ReadIsTrue(reader[r])
  /\ \A c \in Checks!Commits : StoredIsTrue(c)
  /\ Checks!MergedOnFreshChecks /\ Checks!MergedAsTested

-----------------------------------------------------------------------------
(* Checks: one lemma per kind of step                                       *)

LEMMA ChecksNumbers ==
  /\ MaxTime \in Nat /\ MaxReads \in Nat /\ MaxMain \in Nat /\ Freshness \in Nat
  /\ 0 \in Checks!Times /\ \A t \in Checks!Times : t \in Nat
  /\ \A t \in Checks!Times \cup {Checks!Never} : t \in Int
  /\ 0 \in Checks!Commits /\ \A c \in Checks!Commits : c \in Nat
  /\ \A i \in 0 .. MaxReads : i \in Nat
  BY ChecksAssumption DEF Checks!GitHubChecksAssumption, Checks!Times, Checks!Never, Checks!Commits

LEMMA IdleReadFacts == Checks!NoRead \in Readings /\ Checks!NoRead.pc = "idle" /\ Checks!NoRead.at = 0
<1>1. 0 \in 0 .. MaxReads
  BY ChecksNumbers
<1> QED
  BY <1>1, ChecksNumbers DEF Checks!NoRead, Readings

LEMMA IdleMergeFacts == Checks!NoMerge \in MergeStates
<1>1. 0 \in 0 .. MaxReads
  BY ChecksNumbers
<1> QED
  BY <1>1, ChecksNumbers DEF Checks!NoMerge, MergeStates

\* Times only grow: what a status was last seen at, too.
LEMMA WorldKeeps ==
  ASSUME ChecksInv, UNCHANGED <<refresh, reader, mergeLanding>>,
         now' \in Checks!Times, now' >= now,
         github' \in [Checks!Commits -> Checks!Statuses],
         held' \in [Checks!Commits -> [Checks!Statuses -> Checks!Times \cup {Checks!Never}]],
         \A c \in Checks!Commits, s \in Checks!Statuses :
           held'[c][s] <= now /\ Checks!LastHeld(c, s)' >= Checks!LastHeld(c, s),
         connected' \in BOOLEAN, main' \in Checks!Commits,
         evaluation' \in [state : {"started", "invalid"}, tested : Checks!Commits],
         merge' \in [Merges -> MergeStates]
  PROVE  ChecksInv'
<1> USE DEF ChecksInv, ChecksTypes
<1>1. now \in Nat /\ now' \in Nat
  BY ChecksNumbers
<1>2. HeldBefore'
  <2>1. \A c \in Checks!Commits, s \in Checks!Statuses : held'[c][s] \in Int
    BY ChecksNumbers
  <2>2. \A r \in Asking : reader[r].at \in Nat
    BY ChecksNumbers DEF Readings
  <2> QED
    BY <1>1, <2>1, <2>2 DEF HeldBefore
<1>3. \A c \in Checks!Commits, s \in Checks!Statuses :
        Checks!LastHeld(c, s) \in Int /\ Checks!LastHeld(c, s)' \in Int
  <2>1. \A c \in Checks!Commits, s \in Checks!Statuses : held[c][s] \in Int /\ held'[c][s] \in Int
    BY ChecksNumbers
  <2> QED
    BY <1>1, <2>1 DEF Checks!LastHeld
<1>4. \A r \in Asking : ReadIsTrue(reader[r])'
  <2> SUFFICES ASSUME NEW r \in Asking PROVE ReadIsTrue(reader[r])'
    OBVIOUS
  <2>1. reader[r].commit \in Checks!Commits /\ reader[r].at \in Int
    BY ChecksNumbers DEF Readings
  <2>2. ReadIsTrue(reader[r])
    OBVIOUS
  <2>3. \A s \in Checks!Statuses :
          Checks!LastHeld(reader[r].commit, s) >= reader[r].at
            => Checks!LastHeld(reader[r].commit, s)' >= reader[r].at
    BY <1>3, <2>1
  <2> QED
    BY <2>2, <2>3 DEF ReadIsTrue, IsTrueReading
<1>5. \A c \in Checks!Commits : StoredIsTrue(c)'
  <2> SUFFICES ASSUME NEW c \in Checks!Commits PROVE StoredIsTrue(c)'
    OBVIOUS
  <2>1. refresh[c].at \in Int
    BY ChecksNumbers DEF StoredChecks
  <2>2. \A s \in Checks!Statuses :
          Checks!LastHeld(c, s) >= refresh[c].at => Checks!LastHeld(c, s)' >= refresh[c].at
    BY <1>3, <2>1
  <2> QED
    BY <2>2 DEF StoredIsTrue
<1> QED
  BY <1>2, <1>4, <1>5 DEF Checks!MergedOnFreshChecks, Checks!MergedAsTested

\* The world stands still, one reader moves, and what is stored may be replaced.
LEMMA ReaderKeeps ==
  ASSUME ChecksInv, UNCHANGED <<now, github, held, connected, main, evaluation, mergeLanding>>,
         NEW r \in Asking, NEW l \in Readings, reader' = [reader EXCEPT ![r] = l],
         l.at <= now, l.pc = "answered" => IsTrueReading(l),
         l.pc \in {"started", "answered"} => l.number <= refresh'[l.commit].started,
         refresh' \in [Checks!Commits -> StoredChecks],
         \A c \in Checks!Commits : StoredIsTrue(c)' /\ refresh'[c].started >= refresh[c].started,
         merge' \in [Merges -> MergeStates]
  PROVE  ChecksInv'
<1> USE DEF ChecksInv, ChecksTypes
<1>1. /\ reader' \in [Asking -> Readings] /\ reader'[r] = l
      /\ \A x \in Asking \ {r} : reader'[x] = reader[x]
  OBVIOUS
<1>2. HeldBefore'
  BY <1>1 DEF HeldBefore
<1>3. \A x \in Asking : ReadIsTrue(reader[x])'
  <2>0. ReadIsTrue(reader[r])'
    BY <1>1 DEF ReadIsTrue, IsTrueReading, Checks!LastHeld
  <2> SUFFICES ASSUME NEW x \in Asking \ {r} PROVE ReadIsTrue(reader[x])'
    BY <2>0
  <2>1. ReadIsTrue(reader[x]) /\ reader'[x] = reader[x] /\ reader[x] \in Readings
    BY <1>1
  <2> DEFINE c == reader[x].commit
  <2>2. /\ c \in Checks!Commits /\ refresh[c].started \in Nat /\ refresh'[c].started \in Nat
        /\ reader[x].number \in Nat
    BY <2>1, ChecksNumbers DEF Readings, StoredChecks
  <2>3. refresh'[c].started >= refresh[c].started
    BY <2>2
  <2> QED
    BY <2>1, <2>2, <2>3 DEF ReadIsTrue, IsTrueReading, Checks!LastHeld
<1> QED
  BY <1>1, <1>2, <1>3 DEF Checks!MergedOnFreshChecks, Checks!MergedAsTested

LEMMA StoreStands ==
  ASSUME ChecksInv, UNCHANGED <<now, github, held, refresh>>
  PROVE  /\ refresh' \in [Checks!Commits -> StoredChecks]
         /\ \A c \in Checks!Commits : StoredIsTrue(c)' /\ refresh'[c].started >= refresh[c].started
<1>1. \A c \in Checks!Commits : refresh[c].started \in Nat
  BY ChecksNumbers DEF ChecksInv, ChecksTypes, StoredChecks
<1> QED
  BY <1>1 DEF ChecksInv, ChecksTypes, StoredIsTrue, Checks!LastHeld

LEMMA EnvironmentKeeps ==
  ASSUME ChecksInv,
         \/ Checks!Tick \/ Checks!MoveMain
         \/ \E b \in BOOLEAN : Checks!SetConnected(b)
         \/ \E s \in {"started", "invalid"} : Checks!RebuildCheckCommit(s)
  PROVE  ChecksInv'
<1> USE DEF ChecksInv, ChecksTypes
<1>1. /\ now \in Nat
      /\ \A c \in Checks!Commits, s \in Checks!Statuses : held[c][s] \in Int /\ held[c][s] <= now
  BY ChecksNumbers DEF HeldBefore
<1>2. /\ now' \in Checks!Times /\ now' >= now /\ main' \in Checks!Commits /\ connected' \in BOOLEAN
      /\ UNCHANGED <<github, held, refresh, reader, merge, mergeLanding>>
      /\ evaluation' \in [state : {"started", "invalid"}, tested : Checks!Commits]
  <2>1. CASE Checks!Tick
    BY <1>1, <2>1, ChecksNumbers DEF Checks!Tick, Checks!Times
  <2>2. CASE Checks!MoveMain
    BY <1>1, <2>2, ChecksNumbers DEF Checks!MoveMain, Checks!Commits
  <2>3. CASE \E b \in BOOLEAN : Checks!SetConnected(b)
    BY <1>1, <2>3 DEF Checks!SetConnected
  <2>4. CASE \E s \in {"started", "invalid"} : Checks!RebuildCheckCommit(s)
    BY <1>1, <2>4 DEF Checks!RebuildCheckCommit
  <2> QED
    BY <2>1, <2>2, <2>3, <2>4
<1>3. \A c \in Checks!Commits, s \in Checks!Statuses :
        held'[c][s] <= now /\ Checks!LastHeld(c, s)' >= Checks!LastHeld(c, s)
  <2>1. now' \in Nat
    BY <1>2, ChecksNumbers
  <2> QED
    BY <1>1, <1>2, <2>1 DEF Checks!LastHeld
<1> QED
  BY <1>2, <1>3, WorldKeeps

LEMMA ReportKeeps ==
  ASSUME ChecksInv, NEW d \in Checks!Commits, NEW t \in Checks!Statuses, Checks!Report(d, t)
  PROVE  ChecksInv'
<1> USE DEF ChecksInv, ChecksTypes
<1>1. /\ now \in Checks!Times /\ now \in Nat
      /\ \A c \in Checks!Commits, s \in Checks!Statuses : held[c][s] \in Int /\ held[c][s] <= now
  BY ChecksNumbers DEF HeldBefore
<1> DEFINE h == [held[d] EXCEPT ![github[d]] = now]
<1>2. /\ github' = [github EXCEPT ![d] = t] /\ held' = [held EXCEPT ![d] = h]
      /\ UNCHANGED <<now, connected, main, evaluation, refresh, reader, merge, mergeLanding>>
  BY Zenon DEF Checks!Report
<1>3. /\ h \in [Checks!Statuses -> Checks!Times \cup {Checks!Never}] /\ h[github[d]] = now
      /\ \A s \in Checks!Statuses : s # github[d] => h[s] = held[d][s]
  BY <1>1
<1> HIDE DEF h
<1>4. /\ held' \in [Checks!Commits -> [Checks!Statuses -> Checks!Times \cup {Checks!Never}]]
      /\ held'[d] = h /\ \A c \in Checks!Commits \ {d} : held'[c] = held[c]
  BY <1>2, <1>3
<1>5. /\ github' \in [Checks!Commits -> Checks!Statuses]
      /\ github'[d] = t /\ \A c \in Checks!Commits \ {d} : github'[c] = github[c]
  BY <1>2
<1>6. \A c \in Checks!Commits, s \in Checks!Statuses :
        held'[c][s] <= now /\ Checks!LastHeld(c, s)' >= Checks!LastHeld(c, s)
  <2> SUFFICES ASSUME NEW c \in Checks!Commits, NEW s \in Checks!Statuses
               PROVE  held'[c][s] <= now /\ Checks!LastHeld(c, s)' >= Checks!LastHeld(c, s)
    OBVIOUS
  <2>1. CASE c # d
    BY <1>1, <1>2, <1>4, <1>5, <2>1 DEF Checks!LastHeld
  <2>2. CASE c = d
    BY <1>1, <1>2, <1>3, <1>4, <1>5, <2>2 DEF Checks!LastHeld
  <2> QED
    BY <2>1, <2>2
<1>7. now >= now
  BY <1>1
<1> QED
  BY <1>1, <1>2, <1>4, <1>5, <1>6, <1>7, WorldKeeps

LEMMA BeginReadFacts ==
  ASSUME ChecksInv, NEW c \in Checks!Commits
  PROVE  LET l == [Checks!NoRead EXCEPT !.pc = "begun", !.commit = c, !.at = now]
         IN  l \in Readings /\ l.at <= now /\ l.pc = "begun"
<1> DEFINE l == [Checks!NoRead EXCEPT !.pc = "begun", !.commit = c, !.at = now]
<1>1. now \in Checks!Times /\ now \in Nat
  BY ChecksNumbers DEF ChecksInv, ChecksTypes
<1>2. Checks!NoRead \in Readings
  BY IdleReadFacts
<1>3. l \in Readings /\ l.pc = "begun" /\ l.at = now
  BY <1>1, <1>2 DEF Readings
<1> HIDE DEF l
<1>4. l.at <= now
  BY <1>1, <1>3
<1> QED
  BY <1>3, <1>4 DEF l

LEMMA RefreshKeeps ==
  ASSUME ChecksInv, NEW r \in Readers, NEW c \in Checks!Commits, Checks!Refresh(r, c)
  PROVE  ChecksInv'
<1> DEFINE l == [Checks!NoRead EXCEPT !.pc = "begun", !.commit = c, !.at = now]
<1>1. /\ reader' = [reader EXCEPT ![r] = l] /\ r \in Asking
      /\ UNCHANGED <<now, github, held, connected, main, evaluation, refresh, merge, mergeLanding>>
  BY DEF Checks!Refresh, Checks!BeginRead, Asking
<1>2. l \in Readings /\ l.at <= now /\ l.pc = "begun"
  BY BeginReadFacts
<1>3. merge' \in [Merges -> MergeStates]
  BY <1>1 DEF ChecksInv, ChecksTypes
<1> HIDE DEF l
<1> QED
  BY <1>1, <1>2, <1>3, StoreStands, ReaderKeeps

LEMMA StartReadKeeps == ASSUME ChecksInv, NEW r \in Asking, Checks!StartRead(r) PROVE ChecksInv'
<1> USE DEF ChecksInv, ChecksTypes
<1> DEFINE c == reader[r].commit
           l == [reader[r] EXCEPT !.pc = "started", !.number = refresh[c].started + 1]
           k == [refresh[c] EXCEPT !.started = refresh[c].started + 1]
<1>1. reader[r] \in Readings /\ c \in Checks!Commits /\ refresh[c] \in StoredChecks
  BY DEF Readings
<1>2. refresh[c].started \in Nat /\ refresh[c].started + 1 \in 0 .. MaxReads
  BY <1>1, ChecksNumbers DEF Checks!StartRead, StoredChecks
<1>3. /\ l \in Readings /\ l.pc = "started" /\ l.number = refresh[c].started + 1 /\ l.commit = c
      /\ l.at = reader[r].at
  BY <1>1, <1>2 DEF Readings
<1>4. /\ k \in StoredChecks /\ k.started = refresh[c].started + 1 /\ k.applied = refresh[c].applied
      /\ k.at = refresh[c].at /\ k.result = refresh[c].result
  BY <1>1, <1>2 DEF StoredChecks
<1>5. /\ reader' = [reader EXCEPT ![r] = l] /\ refresh' = [refresh EXCEPT ![c] = k]
      /\ UNCHANGED <<now, github, held, connected, main, evaluation, merge, mergeLanding>>
  BY Zenon DEF Checks!StartRead
<1> HIDE DEF l, k
<1>6. /\ refresh' \in [Checks!Commits -> StoredChecks] /\ refresh'[c] = k
      /\ \A d \in Checks!Commits \ {c} : refresh'[d] = refresh[d]
  BY <1>1, <1>4, <1>5
<1>7. l.number <= refresh'[l.commit].started /\ l.at <= now
  BY <1>2, <1>3, <1>4, <1>6 DEF HeldBefore
<1>8. \A d \in Checks!Commits : StoredIsTrue(d)' /\ refresh'[d].started >= refresh[d].started
  <2>1. \A d \in Checks!Commits : refresh[d].started \in Nat
    BY ChecksNumbers DEF StoredChecks
  <2>2. \A d \in Checks!Commits : /\ refresh'[d].applied = refresh[d].applied
                                  /\ refresh'[d].at = refresh[d].at
                                  /\ refresh'[d].result = refresh[d].result
                                  /\ refresh'[d].started >= refresh[d].started
    BY <1>2, <1>4, <1>6, <2>1
  <2> QED
    BY <1>5, <2>2 DEF StoredIsTrue, Checks!LastHeld
<1>9. merge' \in [Merges -> MergeStates]
  BY <1>5
<1> QED
  BY <1>3, <1>5, <1>6, <1>7, <1>8, <1>9, ReaderKeeps

LEMMA ListCheckRunsKeeps ==
  ASSUME ChecksInv, NEW r \in Asking, Checks!ListCheckRuns(r) PROVE ChecksInv'
<1> USE DEF ChecksInv, ChecksTypes
<1> DEFINE c == reader[r].commit
           l == [reader[r] EXCEPT !.pc = "answered", !.got = github[c]]
<1>1. reader[r] \in Readings /\ c \in Checks!Commits /\ github[c] \in Checks!Statuses
  BY DEF Readings
<1>2. /\ l \in Readings /\ l.pc = "answered" /\ l.got = github[c] /\ l.commit = c
      /\ l.at = reader[r].at /\ l.number = reader[r].number
  BY <1>1 DEF Readings
<1>3. /\ reader' = [reader EXCEPT ![r] = l] /\ reader[r].pc = "started"
      /\ UNCHANGED <<now, github, held, connected, main, evaluation, refresh, merge, mergeLanding>>
  BY Zenon DEF Checks!ListCheckRuns
<1> HIDE DEF l
<1>4. IsTrueReading(l) /\ l.number <= refresh'[l.commit].started /\ l.at <= now
  <2>1. reader[r].at <= now /\ now \in Nat /\ reader[r].at \in Nat
    BY <1>1, ChecksNumbers DEF HeldBefore, Readings
  <2> QED
    BY <1>1, <1>2, <1>3, <2>1 DEF ReadIsTrue, IsTrueReading, Checks!LastHeld
<1>5. merge' \in [Merges -> MergeStates]
  BY <1>3
<1> QED
  BY <1>2, <1>3, <1>4, <1>5, StoreStands, ReaderKeeps

LEMMA ResumeType ==
  ASSUME ChecksInv, NEW r, NEW pc \in {"idle", "confirmed"}, Checks!Resume(r, pc)
  PROVE  merge' \in [Merges -> MergeStates]
<1> USE DEF ChecksInv, ChecksTypes
<1>1. CASE r \notin Merges
  BY <1>1 DEF Checks!Resume
<1>2. CASE r \in Merges
  <2> DEFINE k == [merge[r] EXCEPT !.pc = pc]
  <2>1. merge[r] \in MergeStates
    BY <1>2
  <2>2. k \in MergeStates
    BY <2>1 DEF MergeStates
  <2>3. merge' = [merge EXCEPT ![r] = k]
    BY <1>2, Zenon DEF Checks!Resume
  <2> HIDE DEF k
  <2> QED
    BY <2>2, <2>3
<1> QED
  BY <1>1, <1>2

\* A read that was numbered is applied, unless a later one has been.
LEMMA ApplyReadKeeps == ASSUME ChecksInv, NEW r \in Asking, Checks!ApplyRead(r) PROVE ChecksInv'
<1> USE DEF ChecksInv, ChecksTypes
<1>0. PICK read \in Readings, c \in Checks!Commits : read = reader[r] /\ c = reader[r].commit
  BY DEF Readings
<1> DEFINE k == Checks!StoredAs(c, read)
<1>1. refresh[c] \in StoredChecks /\ read.pc = "answered" /\ ReadIsTrue(reader[r])
  BY <1>0 DEF Checks!ApplyRead
<1>2. /\ reader' = [reader EXCEPT ![r] = Checks!NoRead]
      /\ refresh' = IF Checks!Replaces(read.number, c)
                    THEN [refresh EXCEPT ![c] = k] ELSE refresh
      /\ UNCHANGED <<now, github, held, connected, main, evaluation, mergeLanding>>
  BY <1>0, Zenon DEF Checks!ApplyRead
<1>3. merge' \in [Merges -> MergeStates]
  BY ResumeType DEF Checks!ApplyRead
<1>4. Checks!NoRead.pc = "idle" /\ Checks!NoRead.at <= now
  BY IdleReadFacts, ChecksNumbers
<1>5. CASE ~ Checks!Replaces(read.number, c)
  BY <1>2, <1>3, <1>4, <1>5, IdleReadFacts, StoreStands, ReaderKeeps
<1>6. CASE Checks!Replaces(read.number, c)
  <2>1. /\ k \in StoredChecks /\ k.started = refresh[c].started /\ k.at = read.at
        /\ k.result = read.got
    BY <1>1 DEF StoredChecks, Readings, Checks!StoredAs
  <2> HIDE DEF k
  <2>2. /\ refresh' \in [Checks!Commits -> StoredChecks] /\ refresh'[c] = k
        /\ \A d \in Checks!Commits \ {c} : refresh'[d] = refresh[d]
    BY <1>2, <1>6, <2>1
  <2>3. StoredIsTrue(c)'
    <3>1. read.got \in Checks!Statuses /\ Checks!LastHeld(c, read.got) >= read.at
      BY <1>0, <1>1 DEF ReadIsTrue, IsTrueReading
    <3>2. Checks!LastHeld(c, read.got)' = Checks!LastHeld(c, read.got)
      BY <1>2 DEF Checks!LastHeld
    <3> QED
      BY <2>1, <2>2, <3>1, <3>2 DEF StoredIsTrue
  <2>4. \A d \in Checks!Commits \ {c} : StoredIsTrue(d)'
    BY <1>2, <2>2 DEF StoredIsTrue, Checks!LastHeld
  <2>5. \A d \in Checks!Commits : refresh'[d].started >= refresh[d].started
    <3>1. \A d \in Checks!Commits : refresh[d].started \in Nat
      BY ChecksNumbers DEF StoredChecks
    <3> QED
      BY <2>1, <2>2, <3>1
  <2>6. \A d \in Checks!Commits : StoredIsTrue(d)' /\ refresh'[d].started >= refresh[d].started
    BY <2>3, <2>4, <2>5
  <2> QED
    BY <1>2, <1>3, <1>4, <2>2, <2>6, IdleReadFacts, ReaderKeeps
<1> QED
  BY <1>5, <1>6

LEMMA ReadFailsKeeps == ASSUME ChecksInv, NEW r \in Asking, Checks!ReadFails(r) PROVE ChecksInv'
<1>1. /\ reader' = [reader EXCEPT ![r] = Checks!NoRead]
      /\ UNCHANGED <<now, github, held, connected, main, evaluation, refresh, mergeLanding>>
  BY DEF Checks!ReadFails
<1>2. merge' \in [Merges -> MergeStates]
  BY ResumeType DEF Checks!ReadFails
<1>3. Checks!NoRead.pc = "idle" /\ Checks!NoRead.at <= now
  BY IdleReadFacts, ChecksNumbers DEF ReadIsTrue, ChecksInv, ChecksTypes
<1> QED
  BY <1>1, <1>2, <1>3, IdleReadFacts, StoreStands, ReaderKeeps

\* A merge moves on: only the state of that merge changes.
LEMMA MergeMoves ==
  ASSUME ChecksInv, NEW m \in Merges, NEW l \in MergeStates, merge' = [merge EXCEPT ![m] = l],
         UNCHANGED <<now, github, held, connected, main, evaluation, refresh, reader, mergeLanding>>
  PROVE  ChecksInv'
<1>1. merge' \in [Merges -> MergeStates]
  BY DEF ChecksInv, ChecksTypes
<1> QED
  BY <1>1 DEF ChecksInv, ChecksTypes, HeldBefore, ReadIsTrue, IsTrueReading, StoredIsTrue, Checks!LastHeld,
     Checks!MergedOnFreshChecks, Checks!MergedAsTested

LEMMA ConfirmKeeps == ASSUME ChecksInv, NEW m \in Merges, Checks!Confirm(m) PROVE ChecksInv'
<1> USE DEF ChecksInv, ChecksTypes
<1> DEFINE c == evaluation.tested
           l == [Checks!NoRead EXCEPT !.pc = "begun", !.commit = c, !.at = now]
           k(pc) == [merge[m] EXCEPT !.pc = pc]
<1>1. merge[m] \in MergeStates /\ m \in Asking /\ c \in Checks!Commits
  BY DEF Asking
<1>2. \A pc \in {"confirming", "confirmed"} : k(pc) \in MergeStates
  BY <1>1 DEF MergeStates
<1>3. UNCHANGED <<now, github, held, connected, main, evaluation, refresh, mergeLanding>>
  BY DEF Checks!Confirm
<1>4. \/ Checks!BeginRead(m, c) /\ merge' = [merge EXCEPT ![m] = k("confirming")]
      \/ merge' = [merge EXCEPT ![m] = k("confirmed")] /\ UNCHANGED reader
  BY Zenon DEF Checks!Confirm
<1> HIDE DEF k
<1>5. CASE Checks!BeginRead(m, c) /\ merge' = [merge EXCEPT ![m] = k("confirming")]
  <2>1. reader' = [reader EXCEPT ![m] = l]
    BY <1>5 DEF Checks!BeginRead
  <2>2. l \in Readings /\ l.at <= now /\ l.pc = "begun"
    BY <1>1, BeginReadFacts
  <2>3. merge' \in [Merges -> MergeStates]
    BY <1>2, <1>5
  <2> HIDE DEF l
  <2> QED
    BY <1>1, <1>3, <2>1, <2>2, <2>3, StoreStands, ReaderKeeps
<1>6. CASE merge' = [merge EXCEPT ![m] = k("confirmed")] /\ UNCHANGED reader
  BY <1>2, <1>3, <1>6, MergeMoves
<1> QED
  BY <1>4, <1>5, <1>6

LEMMA EnsureClearedKeeps ==
  ASSUME ChecksInv, NEW m \in Merges, Checks!EnsureCleared(m) PROVE ChecksInv'
<1> DEFINE l == [merge[m] EXCEPT !.pc = IF Checks!IsClear THEN "cleared" ELSE "idle"]
<1>1. merge[m] \in MergeStates
  BY DEF ChecksInv, ChecksTypes
<1>2. l \in MergeStates
  BY <1>1 DEF MergeStates
<1>3. merge' = [merge EXCEPT ![m] = l]
      /\ UNCHANGED <<now, github, held, connected, main, evaluation, refresh, reader, mergeLanding>>
  BY Zenon DEF Checks!EnsureCleared
<1> HIDE DEF l
<1> QED
  BY <1>2, <1>3, MergeMoves

LEMMA PrepareKeeps == ASSUME ChecksInv, NEW m \in Merges, Checks!Prepare(m) PROVE ChecksInv'
<1> DEFINE l == IF Checks!HasEvidence
                THEN [pc |-> "prepared", tested |-> evaluation.tested,
                      read |-> refresh[evaluation.tested].applied, base |-> main]
                ELSE Checks!NoMerge
<1>1. /\ evaluation.tested \in Checks!Commits /\ main \in Checks!Commits
      /\ refresh[evaluation.tested].applied \in 0 .. MaxReads
  BY DEF ChecksInv, ChecksTypes, StoredChecks
<1>2. l \in MergeStates
  BY <1>1, IdleMergeFacts DEF MergeStates
<1>3. merge' = [merge EXCEPT ![m] = l]
      /\ UNCHANGED <<now, github, held, connected, main, evaluation, refresh, reader, mergeLanding>>
  BY Zenon DEF Checks!Prepare
<1> HIDE DEF l
<1> QED
  BY <1>2, <1>3, MergeMoves

\* The transaction looks at the evidence, its age and the gate again.
LEMMA LandKeeps == ASSUME ChecksInv, NEW m \in Merges, Checks!Land(m) PROVE ChecksInv'
<1> USE DEF ChecksInv, ChecksTypes
<1> DEFINE c == evaluation.tested
           l == [done |-> TRUE, at |-> now, tested |-> c, base |-> main,
                 passed |-> Checks!LastHeld(c, "passed")]
<1>1. /\ merge' = [merge EXCEPT ![m] = Checks!NoMerge]
      /\ UNCHANGED <<now, github, held, connected, main, evaluation, refresh, reader>>
  BY DEF Checks!Land
<1>2. CASE UNCHANGED mergeLanding
  BY <1>1, <1>2, IdleMergeFacts, MergeMoves
<1>3. CASE mergeLanding' # mergeLanding
  <2>1. /\ mergeLanding' = l /\ Checks!IsSettled(c) /\ Checks!IsFresh(refresh[c].at)
        /\ refresh[c].result = "passed" /\ c = main
    BY <1>3, Zenon DEF Checks!Land, Checks!EvidenceStands, Checks!HasEvidence, Checks!IsClear,
       Checks!IsCurrent
  <2>2. /\ c \in Checks!Commits /\ "passed" \in Checks!Statuses /\ now \in Checks!Times
        /\ refresh[c].at \in Nat /\ now \in Nat /\ StoredIsTrue(c) /\ refresh[c].applied > 0
    BY <2>1, ChecksNumbers DEF StoredChecks, Checks!Statuses, Checks!IsSettled
  <2>3. /\ Checks!LastHeld(c, "passed") \in Checks!Times \cup {Checks!Never}
        /\ Checks!LastHeld(c, "passed") >= refresh[c].at
        /\ refresh[c].at + Freshness > now
    BY <2>1, <2>2 DEF StoredIsTrue, Checks!LastHeld, Checks!IsFresh
  <2>4. l \in CheckedLandings
    BY <2>2, <2>3 DEF CheckedLandings
  <2>5. Checks!LastHeld(c, "passed") + Freshness > now
    <3>1. Checks!LastHeld(c, "passed") \in Int /\ Freshness \in Nat
      BY <2>3, ChecksNumbers
    <3> QED
      BY <2>2, <2>3, <3>1
  <2>6. l.tested = l.base /\ l.passed + Freshness > l.at
    BY <2>1, <2>5
  <2> HIDE DEF l
  <2>7. merge' \in [Merges -> MergeStates]
    BY <1>1, IdleMergeFacts
  <2>8. Checks!MergedOnFreshChecks' /\ Checks!MergedAsTested'
    BY <2>1, <2>6 DEF Checks!MergedOnFreshChecks, Checks!MergedAsTested
  <2> QED
    BY <1>1, <2>1, <2>4, <2>7, <2>8 DEF HeldBefore, ReadIsTrue, IsTrueReading, StoredIsTrue, Checks!LastHeld
<1> QED
  BY <1>2, <1>3

LEMMA ChecksInitInv == Checks!Init => ChecksInv
<1> SUFFICES ASSUME Checks!Init PROVE ChecksInv
  OBVIOUS
<1> DEFINE n == [started |-> 0, applied |-> 0, at |-> 0, result |-> "none"]
           f == [s \in Checks!Statuses |-> Checks!Never]
           g == [done |-> FALSE, at |-> 0, tested |-> 0, base |-> 0, passed |-> Checks!Never]
<1>1. 0 \in 0 .. MaxReads
  BY ChecksNumbers
<1>2. n \in StoredChecks /\ n.applied = 0
  BY <1>1, ChecksNumbers DEF StoredChecks
<1>3. f \in [Checks!Statuses -> Checks!Times \cup {Checks!Never}]
      /\ \A s \in Checks!Statuses : f[s] <= 0
  <2>1. Checks!Never <= 0
    BY DEF Checks!Never
  <2> QED
    BY <2>1
<1>4. g \in CheckedLandings /\ g.done = FALSE
  BY ChecksNumbers DEF CheckedLandings
<1>5. /\ now = 0 /\ connected = TRUE /\ main = 0
      /\ github = [c \in Checks!Commits |-> "open"] /\ held = [c \in Checks!Commits |-> f]
      /\ evaluation = [state |-> "started", tested |-> 0]
      /\ refresh = [c \in Checks!Commits |-> n] /\ reader = [r \in Asking |-> Checks!NoRead]
      /\ merge = [m \in Merges |-> Checks!NoMerge] /\ mergeLanding = g
  BY DEF Checks!Init, Asking, Checks!NoLanding
<1> HIDE DEF n, f, g
<1>6. ChecksTypes
  BY <1>2, <1>3, <1>4, <1>5, ChecksNumbers, IdleReadFacts, IdleMergeFacts
     DEF ChecksTypes, Checks!Statuses
<1>7. HeldBefore
  BY <1>3, <1>5, IdleReadFacts DEF HeldBefore
<1>8. \A r \in Asking : ReadIsTrue(reader[r])
  BY <1>5, IdleReadFacts DEF ReadIsTrue
<1>9. \A c \in Checks!Commits : StoredIsTrue(c)
  BY <1>2, <1>5 DEF StoredIsTrue
<1> QED
  BY <1>4, <1>5, <1>6, <1>7, <1>8, <1>9
     DEF ChecksInv, Checks!MergedOnFreshChecks, Checks!MergedAsTested

LEMMA ChecksNextInv == ChecksInv /\ [Checks!Next]_(Checks!vars) => ChecksInv'
<1> SUFFICES ASSUME ChecksInv, [Checks!Next]_(Checks!vars) PROVE ChecksInv'
  OBVIOUS
<1>1. CASE UNCHANGED Checks!vars
  BY <1>1 DEF Checks!vars, ChecksInv, ChecksTypes, HeldBefore, ReadIsTrue, IsTrueReading, StoredIsTrue,
     Checks!LastHeld, Checks!MergedOnFreshChecks, Checks!MergedAsTested
<1>2. ASSUME NEW r \in Asking,
             Checks!StartRead(r) \/ Checks!ListCheckRuns(r) \/ Checks!ApplyRead(r) \/ Checks!ReadFails(r)
      PROVE  ChecksInv'
  BY <1>2, StartReadKeeps, ListCheckRunsKeeps, ApplyReadKeeps, ReadFailsKeeps
<1>3. ASSUME NEW m \in Merges,
             Checks!Confirm(m) \/ Checks!EnsureCleared(m) \/ Checks!Prepare(m) \/ Checks!Land(m)
      PROVE  ChecksInv'
  BY <1>3, ConfirmKeeps, EnsureClearedKeeps, PrepareKeeps, LandKeeps
<1> QED
  BY <1>1, <1>2, <1>3, EnvironmentKeeps, ReportKeeps, RefreshKeeps DEF Checks!Next, Asking

LEMMA ChecksInvImplies == ChecksInv => MergedOnGoodChecks
<1> SUFFICES ASSUME ChecksInv PROVE MergedOnGoodChecks
  OBVIOUS
<1>1. Checks!TypeOK
  BY DEF ChecksInv, ChecksTypes, Checks!TypeOK, StoredChecks, Readings, MergeStates, CheckedLandings, Asking
<1>2. Checks!StoredWasTrue
  BY DEF ChecksInv, StoredIsTrue, Checks!StoredWasTrue
<1> QED
  BY <1>1, <1>2 DEF ChecksInv, MergedOnGoodChecks

LEMMA ReadsApply ==
  ASSUME ChecksInv, [Checks!Next]_(Checks!vars), NEW c \in Checks!Commits
  PROVE  refresh'[c].applied >= refresh[c].applied
<1> USE DEF ChecksInv, ChecksTypes
<1>1. refresh[c].applied \in Nat /\ refresh[c] \in StoredChecks
  BY ChecksNumbers DEF StoredChecks
<1>2. CASE UNCHANGED refresh
  BY <1>1, <1>2
<1>3. ASSUME NEW r \in Asking, Checks!StartRead(r) PROVE refresh'[c].applied >= refresh[c].applied
  <2>1. refresh' = [refresh EXCEPT ![reader[r].commit].started
                                    = refresh[reader[r].commit].started + 1]
    BY <1>3, Zenon DEF Checks!StartRead
  <2>2. reader[r].commit \in Checks!Commits /\ refresh[reader[r].commit] \in StoredChecks
    BY DEF Readings
  <2>3. refresh'[c].applied = refresh[c].applied
    BY <1>1, <2>1, <2>2 DEF StoredChecks
  <2> QED
    BY <1>1, <2>3
<1>4. ASSUME NEW r \in Asking, Checks!ApplyRead(r) PROVE refresh'[c].applied >= refresh[c].applied
  <2> DEFINE d == reader[r].commit
             k == Checks!StoredAs(d, reader[r])
  <2>1. CASE Checks!Replaces(reader[r].number, d) /\ c = d
    <3>1. refresh' = [refresh EXCEPT ![d] = k] /\ reader[r].number > refresh[d].applied
      BY <1>4, <2>1 DEF Checks!ApplyRead, Checks!Replaces
    <3>2. refresh'[c].applied = reader[r].number /\ reader[r].number \in Nat
      BY <2>1, <3>1, ChecksNumbers DEF Checks!StoredAs, Readings
    <3> QED
      BY <1>1, <2>1, <3>1, <3>2
  <2>2. CASE ~ (Checks!Replaces(reader[r].number, d) /\ c = d)
    <3>1. refresh'[c] = refresh[c]
      BY <1>4, <2>2 DEF Checks!ApplyRead
    <3> QED
      BY <1>1, <3>1
  <2> QED
    BY <2>1, <2>2
<1>5. \/ UNCHANGED refresh
      \/ \E r \in Asking : Checks!StartRead(r) \/ Checks!ApplyRead(r)
  BY DEF Checks!Next, Checks!vars, Checks!Tick, Checks!MoveMain, Checks!Report,
     Checks!SetConnected, Checks!RebuildCheckCommit, Checks!Refresh, Checks!ListCheckRuns,
     Checks!ReadFails, Checks!Confirm, Checks!EnsureCleared, Checks!Prepare, Checks!Land, Asking
<1> QED
  BY <1>2, <1>3, <1>4, <1>5

LEMMA NothingOutrun ==
  ASSUME ChecksInv, [Checks!Next]_(Checks!vars), mergeLanding' # mergeLanding, NEW r \in Asking,
         reader[r].pc \in {"started", "answered"}, reader[r].commit = mergeLanding'.tested
  PROVE  reader[r].number <= refresh[mergeLanding'.tested].applied
<1> USE DEF ChecksInv, ChecksTypes
<1>1. \E m \in Merges : Checks!Land(m)
  BY DEF Checks!Next, Checks!vars, Checks!Tick, Checks!MoveMain, Checks!Report,
     Checks!SetConnected, Checks!RebuildCheckCommit, Checks!Refresh, Checks!StartRead,
     Checks!ListCheckRuns, Checks!ApplyRead,
     Checks!ReadFails, Checks!Confirm, Checks!EnsureCleared, Checks!Prepare
<1>2. mergeLanding'.tested = evaluation.tested /\ Checks!IsSettled(evaluation.tested)
  BY <1>1 DEF Checks!Land, Checks!EvidenceStands, Checks!HasEvidence
<1>3. reader[r].number <= refresh[reader[r].commit].started
  BY DEF ReadIsTrue
<1> QED
  BY <1>2, <1>3 DEF Checks!IsSettled

\* A merge lands only on checks that GitHub reported as passed less than Freshness
\* before, of a commit tested with the main it lands on, and what is stored for a
\* commit is what GitHub said after the time given for it, however reads overtake
\* each other (apply_github_check_read(), locked_merge_checks()).
THEOREM ChecksAreGood == Checks!Spec => []MergedOnGoodChecks
<1> QED
  BY ChecksInitInv, ChecksNextInv, ChecksInvImplies, PTL DEF Checks!Spec

\* Stored reads only grow in number, and when a merge lands no read with a higher
\* number than the stored one has begun: the numbers are given out by the row
\* whose two counters the evidence compares (start_github_check_read(),
\* db/request_merge/evidence.rs).
THEOREM ReadsOrdered == Checks!Spec => ReadsAreOrdered
<1>1. ChecksInv /\ [Checks!Next]_(Checks!vars)
        => [\A c \in Checks!Commits : refresh'[c].applied >= refresh[c].applied]_(Checks!vars)
  BY ReadsApply
<1>2. ChecksInv /\ [Checks!Next]_(Checks!vars)
        => [(mergeLanding' # mergeLanding) =>
              \A r \in Readers \cup Merges :
                reader[r].pc \in {"started", "answered"} /\ reader[r].commit = mergeLanding'.tested =>
                  reader[r].number <= refresh[mergeLanding'.tested].applied]_(Checks!vars)
  BY NothingOutrun DEF Asking
<1> QED
  BY ChecksInitInv, ChecksNextInv, <1>1, <1>2, PTL
     DEF Checks!Spec, ReadsAreOrdered, Checks!ReadsApplyInOrder, Checks!NoReadIsOutrun
=============================================================================
