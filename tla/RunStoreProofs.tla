--------------------------- MODULE RunStoreProofs ---------------------------
(***************************************************************************)
(* What RunStore promises, proved for every workflow graph, every number   *)
(* of steps and attempts, and every lease.  Each operation is shown to be  *)
(* a transaction of one of six kinds, so that an invariant needs one       *)
(* argument per kind instead of one per operation; then the safety         *)
(* invariants; then what is reported: the run row reflects its jobs,       *)
(* success is earned, cancellation holds, and every stored row passes the  *)
(* validation of the next load.                                            *)
(***************************************************************************)
EXTENDS RunStore, WellFoundedInduction, TLAPS

-----------------------------------------------------------------------------
(* What reconciliation stores                                               *)

LEMMA LaterNat == ASSUME NEW a \in Nat, NEW b \in Nat PROVE Later(a, b) \in Nat
  BY DEF Later

\* What reconciliation may do to a job row: it leaves the attempts alone and
\* moves only a job that no attempt is executing.
Reconciled(k, l) ==
  /\ l.last = k.last /\ l.current = k.current
  /\ \/ l.state = k.state
     \/ k.state = "Blocked" /\ l.state \in {"Queued", "Skipped"}
     \/ k.state \in {"Blocked", "Queued"} /\ l.state = "Canceled"

\* Its stamp never goes back, and a capacity retry stays as it is or is called off.
Kept(k, l) ==
  /\ k.updated =< l.updated
  /\ \/ l.retry = k.retry /\ (k.state = "Queued" => l.state = "Queued")
     \/ l.retry = [k.retry EXCEPT !.next = NoTime]

LEMMA KeptTwice ==
  ASSUME NEW k \in JobRows, NEW l \in JobRows, NEW m \in JobRows, Kept(k, l), Kept(l, m)
  PROVE  Kept(k, m)
<1>1. k.updated =< m.updated
  BY DEF Kept, JobRows
<1>2. k.retry \in Retries /\ l.retry \in Retries /\ m.retry \in Retries
  BY DEF JobRows
<1>3. [[k.retry EXCEPT !.next = NoTime] EXCEPT !.next = NoTime] = [k.retry EXCEPT !.next = NoTime]
  BY <1>2 DEF Retries
<1> QED
  BY <1>1, <1>2, <1>3 DEF Kept

\* The pass over the Blocked jobs.
LEMMA ResolveBlockedType ==
  ASSUME NEW js \in [Jobs -> JobRows], NEW now \in Nat, NEW settled \in ResolveBlocked(js, now)
  PROVE  /\ settled \in [Jobs -> JobRows]
         /\ \A j \in Jobs : /\ settled[j].last = js[j].last /\ settled[j].current = js[j].current
                            /\ \/ settled[j].state = js[j].state
                               \/ /\ js[j].state = "Blocked"
                                  /\ settled[j].state \in {"Queued", "Skipped"}
         /\ \A j \in Jobs : js[j].state = "Blocked" =>
                              settled[j].state = ResolvedState(settled, j)
         /\ \A j \in Jobs : Kept(js[j], settled[j])
         /\ (\A j \in Jobs : js[j].state # "Blocked") => settled = js
<1> DEFINE stamps == {now} \cup {js[j].updated : j \in Jobs}
           Outcome(f) == [j \in Jobs |->
                       IF j \in BlockedJobs(js)
                         THEN [js[j] EXCEPT !.state = f[j].state, !.updated = f[j].updated]
                         ELSE js[j]]
<1>1. PICK f \in [BlockedJobs(js) -> [state : {"Blocked", "Queued", "Skipped"}, updated : stamps]] :
        settled = Outcome(f)
  BY DEF ResolveBlocked
<1>2. stamps \subseteq Nat
  BY DEF JobRows
<1>4. \A j \in Jobs : js[j].state = "Blocked" => settled[j].state = ResolvedState(settled, j)
  BY DEF ResolveBlocked, BlockedJobs
<1>5. ASSUME \A j \in Jobs : js[j].state # "Blocked" PROVE settled = js
  BY <1>1, <1>5 DEF BlockedJobs
<1>6. \A j \in BlockedJobs(js) : ResolvedTime(js, settled, now, j, settled[j].updated)
  BY DEF ResolveBlocked
<1> HIDE DEF stamps
<1>3. ASSUME NEW j \in Jobs
      PROVE  /\ Outcome(f)[j] \in JobRows
             /\ Outcome(f)[j].last = js[j].last /\ Outcome(f)[j].current = js[j].current
             /\ \/ Outcome(f)[j].state = js[j].state
                \/ js[j].state = "Blocked" /\ Outcome(f)[j].state \in {"Queued", "Skipped"}
  <2>1. CASE j \in BlockedJobs(js)
    <3>1. f[j] \in [state : {"Blocked", "Queued", "Skipped"}, updated : stamps]
      BY <2>1
    <3>2. f[j].state \in {"Blocked", "Queued", "Skipped"}
      BY <3>1
    <3>3. f[j].updated \in Nat
      BY <3>1, <1>2
    <3>4. f[j].state \in JobStates
      BY <3>2 DEF JobStates, JobTerminal
    <3>5. Outcome(f)[j] = [js[j] EXCEPT !.state = f[j].state, !.updated = f[j].updated]
      BY <2>1
    <3>6. js[j] \in JobRows /\ js[j].state = "Blocked"
      BY <2>1 DEF BlockedJobs
    <3> QED
      BY <3>2, <3>3, <3>4, <3>5, <3>6 DEF JobRows
  <2>2. CASE j \notin BlockedJobs(js)
    BY <2>2
  <2> QED
    BY <2>1, <2>2
<1>7. ASSUME NEW j \in Jobs PROVE Kept(js[j], settled[j])
  <2>1. js[j] \in JobRows /\ js[j].updated \in Nat
    BY DEF JobRows
  <2>2. CASE j \in BlockedJobs(js)
    <3>1. settled[j] = [js[j] EXCEPT !.state = f[j].state, !.updated = f[j].updated]
      BY <1>1, <2>2
    <3>2. settled[j].retry = js[j].retry /\ js[j].state = "Blocked"
      BY <2>1, <2>2, <3>1 DEF JobRows, BlockedJobs
    <3>3. js[j].updated =< settled[j].updated
      BY <1>6, <2>1, <2>2 DEF ResolvedTime, IsLatest
    <3> QED
      BY <3>2, <3>3 DEF Kept
  <2>3. CASE j \notin BlockedJobs(js)
    <3>1. settled[j] = js[j]
      BY <1>1, <2>3
    <3> QED
      BY <2>1, <3>1 DEF Kept
  <2> QED
    BY <2>2, <2>3
<1> QED
  BY <1>1, <1>3, <1>4, <1>5, <1>7

\* A cancellation takes exactly the undispatched jobs with it.
LEMMA CancelUndispatchedType ==
  ASSUME NEW js \in [Jobs -> JobRows], NEW ct \in Nat
  PROVE  /\ CancelUndispatched(js, ct) \in [Jobs -> JobRows]
         /\ \A j \in Jobs :
              LET k == CancelUndispatched(js, ct)[j] IN
              /\ k.last = js[j].last /\ k.current = js[j].current
              /\ k.state \notin {"Blocked", "Queued"}
              /\ IF js[j].state \in {"Blocked", "Queued"} THEN k.state = "Canceled"
                                                          ELSE k = js[j]
              /\ Kept(js[j], k)
<1> SUFFICES ASSUME NEW j \in Jobs
             PROVE  LET k == CancelUndispatched(js, ct)[j] IN
                    /\ k \in JobRows
                    /\ k.last = js[j].last /\ k.current = js[j].current
                    /\ k.state \notin {"Blocked", "Queued"}
                    /\ IF js[j].state \in {"Blocked", "Queued"} THEN k.state = "Canceled"
                                                                ELSE k = js[j]
                    /\ Kept(js[j], k)
  BY DEF CancelUndispatched
<1>1. js[j] \in JobRows /\ js[j].updated \in Nat /\ js[j].retry \in Retries
  BY DEF JobRows
<1>2. Later(ct, js[j].updated) \in Nat
  BY <1>1, LaterNat
<1>3. [js[j].retry EXCEPT !.next = NoTime] \in Retries
  BY <1>1 DEF Retries, NoTime
<1>4. "Canceled" \in JobStates
  BY DEF JobStates, JobTerminal
<1>5. CASE js[j].state \in {"Blocked", "Queued"}
  <2>1. CancelUndispatched(js, ct)[j] =
          [js[j] EXCEPT !.state = "Canceled", !.updated = Later(ct, js[j].updated),
                        !.retry = [js[j].retry EXCEPT !.next = NoTime]]
    BY <1>5 DEF CancelUndispatched
  <2>2. js[j].updated =< Later(ct, js[j].updated)
    BY <1>1 DEF Later
  <2> QED
    BY <1>1, <1>2, <1>3, <1>4, <1>5, <2>1, <2>2 DEF JobRows, Kept
<1>6. CASE js[j].state \notin {"Blocked", "Queued"}
  BY <1>1, <1>6 DEF CancelUndispatched, Kept
<1> QED
  BY <1>5, <1>6

\* The run is over exactly when all its jobs are.
LEMMA AggregateStateType ==
  ASSUME NEW previous \in RunStates, NEW js \in [Jobs -> JobRows]
  PROVE  /\ AggregateState(previous, js) \in RunStates
         /\ AggregateState(previous, js) \in RunTerminal <=>
              \A j \in Jobs : js[j].state \in JobTerminal
         /\ /\ \A j \in Jobs : js[j].state \in JobTerminal
            /\ \E j \in Jobs : js[j].state = "Canceled"
            => AggregateState(previous, js) = "Canceled"
         /\ AggregateState(previous, js) = "Canceled" => \E j \in Jobs : js[j].state = "Canceled"
  BY DEF AggregateState, RunStates, RunTerminal

\* What derive_run_state leaves behind: the rows it computed, the ones of them
\* it saved, and a run row that agrees with the computed rows.
Derived(r, js, settled, saved) ==
  /\ settled \in [Jobs -> JobRows]
  /\ \A j \in Jobs : Reconciled(js[j], settled[j])
  /\ job' = [j \in Jobs |-> IF j \in saved THEN settled[j] ELSE job[j]]
  /\ run' \in RunRows
  /\ run'.state \in RunTerminal <=> \A j \in Jobs : settled[j].state \in JobTerminal
  /\ run'.cancel => \A j \in Jobs : settled[j].state \notin {"Blocked", "Queued"}
  /\ \A j \in Jobs : settled[j].state = "Canceled" => run'.cancel
  /\ run'.cancel => r.cancel \/ \E j \in Jobs : js[j].state = "Canceled"

\* What the run row then says, and how far the rows it was derived from may differ
\* from the ones that were read.
Reflects(r, js, settled, now) ==
  /\ run'.state = AggregateState(r.state, settled)
  /\ run'.state \in RunTerminal => (run'.cancel <=> run'.state = "Canceled")
  /\ IsLatest(run'.updated, {now, r.updated} \cup {settled[j].updated : j \in Jobs})
  /\ \A j \in Jobs : Kept(js[j], settled[j])
  /\ (\A j \in Jobs : js[j].state \notin {"Blocked", "Queued"}) => settled = js

\* A canceled run takes every undispatched job with it and no other.
TakenAlong(js, settled) ==
  \A j \in Jobs : /\ settled[j].state \notin {"Blocked", "Queued"}
                  /\ settled[j].state \in {js[j].state, "Canceled"}

LEMMA DeriveRunStateDerived ==
  ASSUME NEW r \in RunRows, NEW js \in [Jobs -> JobRows], NEW now \in Nat, NEW saved,
         DeriveRunState(r, js, now, saved)
  PROVE  \E settled : /\ Derived(r, js, settled, saved) /\ Reflects(r, js, settled, now)
                      /\ settled = js \/ TakenAlong(js, settled)
<1> DEFINE cancel == r.cancel \/ \E j \in Jobs : js[j].state = "Canceled"
           cancelStamps == {now} \cup
              {js[j].updated : j \in {k \in Jobs : js[k].state = "Canceled"}}
           Settled(ct) == IF cancel THEN CancelUndispatched(js, ct) ELSE js
           runStamps(ct) == {now, r.updated} \cup {Settled(ct)[j].updated : j \in Jobs}
           nextState(ct) == AggregateState(r.state, Settled(ct))
<1>1. PICK ct \in cancelStamps :
        \E at \in runStamps(ct) :
          /\ IsLatest(at, runStamps(ct))
          /\ job' = [j \in Jobs |-> IF j \in saved THEN Settled(ct)[j] ELSE job[j]]
          /\ run' = [state |-> nextState(ct),
                     cancel |-> cancel /\ (nextState(ct) \in RunTerminal => nextState(ct) = "Canceled"),
                     updated |-> at]
  BY DEF DeriveRunState
<1>2. cancelStamps \subseteq Nat
  BY DEF JobRows
<1>3. ct \in Nat
  BY <1>1, <1>2
<1> DEFINE settled == Settled(ct)
<1> HIDE DEF cancelStamps
<1>4. /\ settled \in [Jobs -> JobRows]
      /\ \A j \in Jobs : Reconciled(js[j], settled[j])
      /\ cancel => TakenAlong(js, settled)
      /\ ~cancel => settled = js
      /\ \A j \in Jobs : Kept(js[j], settled[j])
      /\ (\A j \in Jobs : js[j].state \notin {"Blocked", "Queued"}) => settled = js
  <2>1. CASE cancel
    BY <1>3, <2>1, CancelUndispatchedType DEF Reconciled, TakenAlong
  <2>2. CASE ~cancel
    <3>1. settled = js /\ \A j \in Jobs : js[j].updated \in Nat
      BY <2>2 DEF JobRows
    <3> QED
      BY <2>2, <3>1 DEF Reconciled, Kept
  <2> QED
    BY <2>1, <2>2
<1>5. \A j \in Jobs : settled[j].state = "Canceled" => cancel
  BY <1>4
<1>6. runStamps(ct) \subseteq Nat
  BY <1>4 DEF JobRows, RunRows
<1>7. PICK at \in Nat :
        /\ IsLatest(at, {now, r.updated} \cup {settled[j].updated : j \in Jobs})
        /\ job' = [j \in Jobs |-> IF j \in saved THEN settled[j] ELSE job[j]]
        /\ run' = [state |-> nextState(ct),
                   cancel |-> cancel /\ (nextState(ct) \in RunTerminal => nextState(ct) = "Canceled"),
                   updated |-> at]
  BY <1>1, <1>6
<1> HIDE DEF settled
<1>8. nextState(ct) = AggregateState(r.state, settled)
  BY DEF settled
<1> HIDE DEF nextState, runStamps, Settled
<1>9. /\ nextState(ct) \in RunStates
      /\ nextState(ct) \in RunTerminal <=> \A j \in Jobs : settled[j].state \in JobTerminal
      /\ /\ \A j \in Jobs : settled[j].state \in JobTerminal
         /\ \E j \in Jobs : settled[j].state = "Canceled"
         => nextState(ct) = "Canceled"
      /\ nextState(ct) = "Canceled" => \E j \in Jobs : settled[j].state = "Canceled"
  <2>1. r.state \in RunStates
    BY DEF RunRows
  <2> QED
    BY <1>4, <1>8, <2>1, AggregateStateType
<1> HIDE DEF cancel
<1>10. run' \in RunRows
  <2>1. r.cancel \in BOOLEAN
    BY DEF RunRows
  <2>2. cancel \in BOOLEAN
    BY <2>1 DEF cancel
  <2> QED
    BY <1>7, <1>9, <2>2 DEF RunRows
<1>11. /\ run'.state = nextState(ct)
       /\ run'.cancel <=> cancel /\ (nextState(ct) \in RunTerminal => nextState(ct) = "Canceled")
  BY <1>7
<1>12. Derived(r, js, settled, saved)
  BY <1>4, <1>5, <1>7, <1>9, <1>10, <1>11 DEF Derived, TakenAlong, cancel
<1>13. Reflects(r, js, settled, now)
  <2>1. run'.state \in RunTerminal => (run'.cancel <=> run'.state = "Canceled")
    BY <1>5, <1>9, <1>11
  <2>2. run'.state = AggregateState(r.state, settled)
    BY <1>8, <1>11
  <2>3. IsLatest(run'.updated, {now, r.updated} \cup {settled[j].updated : j \in Jobs})
    BY <1>7
  <2> QED
    BY <1>4, <2>1, <2>2, <2>3 DEF Reflects
<1> QED
  BY <1>4, <1>12, <1>13

\* reconcile_run in addition leaves no Blocked job behind that could be settled,
\* queues a job only when everything it needs has succeeded, and skips one only
\* when something it needs has ended otherwise.
FullyResolved(js, settled) ==
  \A j \in Jobs :
    /\ settled[j].state = "Blocked" => ResolvedState(settled, j) = "Blocked"
    /\ js[j].state = "Blocked" /\ settled[j].state = "Queued" =>
         \A d \in Needs[j] : settled[d].state = "Succeeded"
    /\ js[j].state = "Blocked" /\ settled[j].state = "Skipped" =>
         \E d \in Needs[j] : settled[d].state \in JobTerminal \ {"Succeeded"}

LEMMA ReconcileRunDerived ==
  ASSUME run \in RunRows, NEW js \in [Jobs -> JobRows], NEW now \in Nat, NEW saved,
         ReconcileRun(js, now, saved)
  PROVE  \E settled : /\ Derived(run, js, settled, saved) /\ FullyResolved(js, settled)
                      /\ Reflects(run, js, settled, now)
<1>1. PICK mid \in ResolveBlocked(js, now) : DeriveRunState(run, mid, now, saved)
  BY DEF ReconcileRun
<1>2. /\ mid \in [Jobs -> JobRows]
      /\ \A j \in Jobs : /\ mid[j].last = js[j].last /\ mid[j].current = js[j].current
                         /\ \/ mid[j].state = js[j].state
                            \/ js[j].state = "Blocked" /\ mid[j].state \in {"Queued", "Skipped"}
      /\ \A j \in Jobs : js[j].state = "Blocked" => mid[j].state = ResolvedState(mid, j)
      /\ \A j \in Jobs : Kept(js[j], mid[j])
      /\ (\A j \in Jobs : js[j].state # "Blocked") => mid = js
  BY ResolveBlockedType
<1>3. PICK settled : /\ Derived(run, mid, settled, saved) /\ Reflects(run, mid, settled, now)
                     /\ settled = mid \/ TakenAlong(mid, settled)
  BY <1>1, <1>2, DeriveRunStateDerived
<1>4. ASSUME NEW j \in Jobs PROVE Reconciled(js[j], settled[j])
  <2>1. Reconciled(mid[j], settled[j])
    BY <1>3 DEF Derived
  <2> QED
    BY <1>2, <2>1 DEF Reconciled
<1>5. Derived(run, js, settled, saved)
  BY <1>2, <1>3, <1>4 DEF Derived
<1>6. ASSUME NEW j \in Jobs
      PROVE  /\ settled[j].state = "Blocked" => ResolvedState(settled, j) = "Blocked"
             /\ js[j].state = "Blocked" /\ settled[j].state = "Queued" =>
                  \A d \in Needs[j] : settled[d].state = "Succeeded"
             /\ js[j].state = "Blocked" /\ settled[j].state = "Skipped" =>
                  \E d \in Needs[j] : settled[d].state \in JobTerminal \ {"Succeeded"}
  <2>0. ASSUME js[j].state = "Blocked", settled[j].state = "Skipped"
        PROVE  \E d \in Needs[j] : settled[d].state \in JobTerminal \ {"Succeeded"}
    <3>2. mid[j].state = "Skipped"
      BY <1>3, <2>0 DEF TakenAlong
    <3>3. ResolvedState(mid, j) = "Skipped"
      BY <1>2, <2>0, <3>2
    <3>4. PICK d \in Needs[j] : mid[d].state \in JobTerminal \ {"Succeeded"}
      BY <3>3 DEF ResolvedState
    <3>5. d \in Jobs
      BY JobsAssumption
    <3>6. Reconciled(mid[d], settled[d])
      BY <1>3, <3>5 DEF Derived
    <3>7. settled[d].state = mid[d].state
      BY <3>4, <3>6 DEF Reconciled, JobTerminal
    <3> QED
      BY <3>4, <3>7
  <2>1. CASE settled = mid
    <3>1. settled[j].state = "Blocked" => ResolvedState(settled, j) = "Blocked"
      BY <1>2, <2>1
    <3>2. ASSUME js[j].state = "Blocked", settled[j].state = "Queued"
          PROVE  \A d \in Needs[j] : settled[d].state = "Succeeded"
      <4>1. ResolvedState(settled, j) = "Queued"
        BY <1>2, <2>1, <3>2
      <4> QED
        BY <4>1 DEF ResolvedState
    <3> QED
      BY <2>0, <3>1, <3>2
  <2>2. CASE TakenAlong(mid, settled)
    BY <2>0, <2>2 DEF TakenAlong
  <2> QED
    BY <1>3, <2>0, <2>1, <2>2
<1>7. Reflects(run, js, settled, now)
  <2>1. ASSUME NEW j \in Jobs PROVE Kept(js[j], settled[j])
    <3>1. settled \in [Jobs -> JobRows]
      BY <1>3 DEF Derived
    <3>2. Kept(js[j], mid[j]) /\ Kept(mid[j], settled[j])
      BY <1>2, <1>3 DEF Reflects
    <3> QED
      BY <1>2, <3>1, <3>2, KeptTwice
  <2>2. ASSUME \A j \in Jobs : js[j].state \notin {"Blocked", "Queued"} PROVE settled = js
    BY <1>2, <1>3, <2>2 DEF Reflects
  <2> QED
    BY <1>3, <2>1, <2>2 DEF Reflects
<1> QED
  BY <1>5, <1>6, <1>7 DEF FullyResolved

-----------------------------------------------------------------------------
(* The rows the transitions build                                           *)

LEMMA NowNat == ASSUME TypeOK, NEW now \in Now PROVE now \in Nat \ {0}
  BY DEF TypeOK, Now

LEMMA StepsType ==
  ASSUME NEW steps \in [Steps -> StepStates], NEW state \in StepStates
  PROVE  /\ SkipPending(steps) \in [Steps -> StepStates]
         /\ InterruptSteps(steps, state) \in [Steps -> StepStates]
<1>1. \A s \in [Steps -> StepStates] : SkipPending(s) \in [Steps -> StepStates]
  BY DEF SkipPending, StepStates
<1>2. [i \in Steps |-> IF steps[i] = "Running" THEN state ELSE steps[i]] \in [Steps -> StepStates]
  OBVIOUS
<1> QED
  BY <1>1, <1>2 DEF InterruptSteps

LEMMA FinishedType ==
  ASSUME NEW a \in AttemptRows, NEW state \in AttemptTerminal, NEW reason \in TerminalReasons,
         NEW steps \in [Steps -> StepStates], NEW now \in Nat
  PROVE  /\ Finished(a, state, reason, steps, now) \in AttemptRows
         /\ Finished(a, state, reason, steps, now).state = state
         /\ Finished(a, state, reason, steps, now).reason = reason
         /\ Finished(a, state, reason, steps, now).steps = steps
         /\ Finished(a, state, reason, steps, now).completed = now
<1>1. state \in AttemptStates
  BY DEF AttemptStates
<1> QED
  BY <1>1 DEF Finished, AttemptRows

LEMMA ReleasedType ==
  ASSUME NEW k \in JobRows, NEW state \in JobStates, NEW now \in Nat
  PROVE  /\ Released(k, state, now) \in JobRows
         /\ Released(k, state, now).state = state
         /\ Released(k, state, now).current = NoNumber
         /\ Released(k, state, now).last = k.last
         /\ Released(k, state, now).retry = k.retry
         /\ Released(k, state, now).updated = now
  BY DEF Released, JobRows, NoNumber

LEMMA CapacityRejectedType ==
  ASSUME NEW k \in JobRows, NEW now \in Nat
  PROVE  /\ CapacityRejected(k, now) \in JobRows
         /\ CapacityRejected(k, now).state \in {"Queued", "Failed"}
         /\ CapacityRejected(k, now).current = NoNumber
         /\ CapacityRejected(k, now).last = k.last
<1> DEFINE first == IF k.retry.rejections = 0 THEN now ELSE k.retry.first
           rejections == k.retry.rejections + 1
           next == now + CapacityRetryDelays[IF rejections =< 3 THEN rejections ELSE 3]
           again == /\ rejections =< MaxCapacityRetries
                    /\ k.last < MaxRunAttempts
                    /\ next < first + CapacityRetryWindow
           state == IF again THEN "Queued" ELSE "Failed"
           retry == [first |-> first, rejections |-> rejections,
                     next |-> IF again THEN next ELSE NoTime]
<1>1. k.retry \in [first : Nat, rejections : Nat, next : Nat]
  BY DEF JobRows, Retries
<1>2. first \in Nat /\ rejections \in Nat \ {0}
  BY <1>1
<1>3. next \in Nat
  <2>1. (IF rejections =< 3 THEN rejections ELSE 3) \in 1..3
    BY <1>2
  <2> QED
    BY <2>1, BoundsAssumption
<1>4. retry \in Retries
  BY <1>2, <1>3 DEF Retries, NoTime
<1>5. state \in JobStates /\ state \in {"Queued", "Failed"}
  BY DEF JobStates, JobTerminal
<1>6. CapacityRejected(k, now) = [Released(k, state, now) EXCEPT !.retry = retry]
  BY DEF CapacityRejected
<1> HIDE DEF retry, state
<1> QED
  BY <1>4, <1>5, <1>6, ReleasedType DEF JobRows

-----------------------------------------------------------------------------
(* The four kinds of transaction on an attempt.  Each operation is one of   *)
(* them, whatever its own guards are; the invariants are then preserved     *)
(* kind by kind.                                                            *)

\* A repeated report of something already stored.
Replays(j, n) ==
  \/ MutateAttempt(j, n, job[j], attempt[j][n])
  \/ MutateActiveAttempt(j, n, job[j], attempt[j][n])

\* A new lease or token for an active attempt.
Renews(j, n) ==
  \E a \in AttemptRows :
    /\ attempt[j][n].state \in AttemptActive
    /\ a.state = attempt[j][n].state
    /\ a = [attempt[j][n] EXCEPT !.token = a.token, !.heartbeat = a.heartbeat, !.lease = a.lease]
    /\ SaveAttempt(j, n, a)
    /\ UNCHANGED <<clock, run, job>>

\* A step starts, which a canceled run does not allow, or succeeds.
Progress(b, a) ==
  /\ a = [b EXCEPT !.state = a.state, !.started = a.started, !.steps = a.steps]
  /\ \E i \in Steps :
       \/ /\ StepMayStart(b, i)
          /\ a.state = "Running" /\ a.started = TRUE
          /\ a.steps = [b.steps EXCEPT ![i] = "Running"]
       \/ /\ b.steps[i] = "Running"
          /\ a.state = b.state /\ a.started = b.started
          /\ a.steps = [b.steps EXCEPT ![i] = "Succeeded"]

\* The current attempt goes on executing: a step starts or succeeds.
Advances(j, n) ==
  \E k \in JobRows, a \in AttemptRows :
    /\ attempt[j][n].state \in AttemptActive /\ a.state \in AttemptActive
    /\ CurrentAttempt(j, n) /\ JobAlignment(j, n)
    /\ k.state = a.state /\ k.last = n /\ k.current = n
    /\ k.retry = job[j].retry /\ job[j].updated =< k.updated
    /\ Progress(attempt[j][n], a)
    /\ MutateActiveAttempt(j, n, k, a)

\* The ways an attempt b with number n can end: the state its job takes, its own
\* state and reason, and what becomes of its steps.
Ending(n, b, k, state, reason, steps) ==
  \/ /\ k = "Succeeded" /\ state = "Succeeded" /\ reason = "None"
     /\ ~run.cancel /\ b.state = "Running"
     /\ steps = b.steps /\ \A i \in Steps : b.steps[i] = "Succeeded"
  \/ /\ k = "Canceled" /\ state = "Canceled" /\ reason = "Canceled"
     /\ steps = b.steps /\ \A i \in Steps : b.steps[i] = "Succeeded"
  \/ /\ k = "Canceled" /\ state = "Canceled" /\ reason = "Canceled"
     /\ steps = InterruptSteps(b.steps, "Canceled")
  \/ /\ k = "Failed" /\ state = "Failed" /\ reason = "TimedOut"
     /\ steps = InterruptSteps(b.steps, "Canceled")
  \/ /\ k = "Failed" /\ state = "Failed" /\ reason = "RuntimeSetupFailed"
     /\ b.state = "Dispatching" /\ steps = SkipPending(b.steps)
  \/ /\ k = "Failed" /\ state = "Failed" /\ reason = "StepFailed"
     /\ \E i \in Steps : /\ b.steps[i] = "Running"
                         /\ steps = SkipPending([b.steps EXCEPT ![i] = "Failed"])
  \/ /\ k \in {"Queued", "Failed"} /\ state = "Failed" /\ reason = "ProviderCapacityRejected"
     /\ b.state = "Dispatching" /\ b.started = FALSE /\ steps = SkipPending(b.steps)
  \/ /\ k \in {"Queued", "Canceled", "Lost"} /\ state = "Lost" /\ reason = "ExecutionLost"
     /\ steps = InterruptSteps(b.steps, "Lost")
  \/ /\ k = "Lost" /\ state = "Lost" /\ reason = "DispatchAttemptsExhausted"
     /\ b.state = "Dispatching" /\ n = MaxRunAttempts
     /\ steps = InterruptSteps(b.steps, "Lost")

\* The current attempt ends and releases its job.
Ends(j, n) ==
  \E k \in JobRows, a \in AttemptRows :
    /\ attempt[j][n].state \in AttemptActive /\ a.state \in AttemptTerminal
    /\ CurrentAttempt(j, n)
    /\ k.last = n /\ k.current = NoNumber
    /\ k.state \in {"Queued", "Succeeded", "Failed", "Canceled", "Lost"}
    /\ \/ k.retry = job[j].retry /\ job[j].updated =< k.updated
       \/ job[j].updated =< a.completed /\ k = CapacityRejected(job[j], a.completed)
    /\ a.completed # NoTime
    /\ a = Finished(attempt[j][n], a.state, a.reason, a.steps, a.completed)
    /\ Ending(n, attempt[j][n], k.state, a.state, a.reason, a.steps)
    /\ MutateAttempt(j, n, k, a)

LEMMA RejectCapacityKind ==
  ASSUME TypeOK, NEW j \in Jobs, NEW n \in Numbers, NEW now \in Nat \ {0}, RejectCapacity(j, n, now)
  PROVE  Replays(j, n) \/ Ends(j, n)
<1> DEFINE a == attempt[j][n]
           k == CapacityRejected(job[j], now)
           b == Finished(a, "Failed", "ProviderCapacityRejected", SkipPending(a.steps), now)
<1>1. a \in AttemptRows /\ job[j] \in JobRows /\ now \in Nat /\ now # NoTime
  BY DEF TypeOK, NoTime
<1>2. CASE MutateAttempt(j, n, job[j], a)
  BY <1>2 DEF Replays
<1>3. CASE /\ Authenticate(j, n, "bootstrap", now) /\ a.state = "Dispatching" /\ ~a.started
           /\ NotBeforeUpdate(j, now)
           /\ MutateAttempt(j, n, k, b)
  <2>1. CurrentAttempt(j, n) /\ job[j].last = n
    BY <1>3 DEF Authenticate, CurrentAttempt, LatestAttempt
  <2>2. k \in JobRows /\ k.state \in {"Queued", "Failed"} /\ k.current = NoNumber /\ k.last = n
    BY <1>1, <2>1, CapacityRejectedType
  <2>3. /\ b \in AttemptRows /\ b.state \in AttemptTerminal
        /\ b.state = "Failed" /\ b.reason = "ProviderCapacityRejected"
        /\ b.steps = SkipPending(a.steps) /\ b.completed = now
    <3>1. a.steps \in [Steps -> StepStates] /\ "Lost" \in StepStates
      BY <1>1 DEF AttemptRows, StepStates
    <3>2. SkipPending(a.steps) \in [Steps -> StepStates]
      BY <3>1, StepsType
    <3>3. "Failed" \in AttemptTerminal /\ "ProviderCapacityRejected" \in TerminalReasons
      BY DEF AttemptTerminal, TerminalReasons
    <3> QED
      BY <1>1, <3>2, <3>3, FinishedType
  <2>4. a.state \in AttemptActive
    BY <1>3 DEF AttemptActive
  <2>5. b = Finished(a, b.state, b.reason, b.steps, b.completed)
    BY <2>3
  <2>6. Ending(n, a, k.state, b.state, b.reason, b.steps)
    <3>1. a.started = FALSE
      BY <1>1, <1>3 DEF AttemptRows
    <3> QED
      BY <1>3, <2>2, <2>3, <3>1 DEF Ending
  <2>7. job[j].updated =< b.completed /\ k = CapacityRejected(job[j], b.completed)
    BY <1>3, <2>3 DEF NotBeforeUpdate
  <2> HIDE DEF k, b
  <2> QED
    BY <1>1, <1>3, <2>1, <2>2, <2>3, <2>4, <2>5, <2>6, <2>7 DEF Ends
<1> QED
  BY <1>2, <1>3 DEF RejectCapacity

LEMMA RenewKinds ==
  ASSUME TypeOK, NEW j \in Jobs, NEW n \in Numbers, NEW now \in Nat \ {0},
         attempt[j][n].state # "Absent", ClaimRuntime(j, n, now) \/ Heartbeat(j, n, now)
  PROVE  Renews(j, n)
<1> DEFINE a == attempt[j][n]
           claimed == [a EXCEPT !.token = "runtime", !.heartbeat = now, !.lease = now + AttemptLease]
           renewed == [a EXCEPT !.heartbeat = now, !.lease = now + AttemptLease]
<1>1. a \in AttemptRows /\ now \in Nat
  BY DEF TypeOK
<1>2. now + AttemptLease \in Nat
  BY <1>1, BoundsAssumption
<1>3. /\ claimed \in AttemptRows /\ claimed.state = a.state
      /\ renewed \in AttemptRows /\ renewed.state = a.state
  BY <1>1, <1>2 DEF AttemptRows, Tokens
<1>7. /\ claimed = [a EXCEPT !.token = claimed.token, !.heartbeat = claimed.heartbeat,
                             !.lease = claimed.lease]
      /\ renewed = [a EXCEPT !.token = renewed.token, !.heartbeat = renewed.heartbeat,
                             !.lease = renewed.lease]
  BY <1>1 DEF AttemptRows
<1>4. a.state \in AttemptActive
  BY <1>1 DEF ClaimRuntime, Heartbeat, AttemptRows, AttemptStates, AttemptActive
<1> HIDE DEF claimed, renewed
<1>5. CASE ClaimRuntime(j, n, now)
  <2>1. SaveAttempt(j, n, claimed) /\ UNCHANGED <<clock, run, job>>
    BY <1>5 DEF ClaimRuntime, claimed
  <2> QED
    BY <1>3, <1>4, <1>7, <2>1 DEF Renews
<1>6. CASE Heartbeat(j, n, now)
  <2>1. SaveAttempt(j, n, renewed) /\ UNCHANGED <<clock, run, job>>
    BY <1>6 DEF Heartbeat, renewed
  <2> QED
    BY <1>3, <1>4, <1>7, <2>1 DEF Renews
<1> QED
  BY <1>5, <1>6

LEMMA StartStepKind ==
  ASSUME TypeOK, NEW j \in Jobs, NEW n \in Numbers, NEW i \in Steps, NEW now \in Nat \ {0},
         StartStep(j, n, i, now)
  PROVE  Replays(j, n) \/ Advances(j, n)
<1> DEFINE a == attempt[j][n]
           b == [[a EXCEPT !.state = "Running", !.started = TRUE] EXCEPT
                   !.steps = [@ EXCEPT ![i] = "Running"]]
           k == [job[j] EXCEPT !.state = "Running", !.updated = now]
<1>1. a \in AttemptRows /\ job[j] \in JobRows /\ now \in Nat
  BY DEF TypeOK
<1>2. Authenticate(j, n, "runtime", now)
  BY DEF StartStep
<1>3. CASE MutateActiveAttempt(j, n, job[j], a)
  BY <1>3 DEF Replays
<1>4. CASE /\ a.state \in AttemptActive /\ StepMayStart(a, i) /\ NotBeforeUpdate(j, now)
           /\ MutateActiveAttempt(j, n, k, b)
  <2>1. CurrentAttempt(j, n) /\ JobAlignment(j, n) /\ job[j].last = n /\ job[j].current = n
    BY <1>2 DEF Authenticate, AuthenticateIdentity, CurrentAttempt, JobAlignment, LatestAttempt
  <2>2. /\ k \in JobRows /\ k.state = "Running" /\ k.last = n /\ k.current = n
        /\ k.retry = job[j].retry /\ k.updated = now
    <3>1. "Running" \in JobStates
      BY DEF JobStates, JobActive
    <3> QED
      BY <1>1, <2>1, <3>1 DEF JobRows
  <2>5. job[j].updated =< k.updated
    BY <1>4, <2>2 DEF NotBeforeUpdate
  <2>3. /\ b \in AttemptRows /\ b.state = "Running" /\ b.started = TRUE
        /\ b.steps = [a.steps EXCEPT ![i] = "Running"]
    <3>1. "Running" \in AttemptStates /\ "Running" \in StepStates
      BY DEF AttemptStates, AttemptActive, StepStates
    <3>2. [a.steps EXCEPT ![i] = "Running"] \in [Steps -> StepStates]
      BY <1>1, <3>1 DEF AttemptRows
    <3> QED
      BY <1>1, <3>1, <3>2 DEF AttemptRows
  <2>4. b.state \in AttemptActive
    BY <2>3 DEF AttemptActive
  <2>6. b = [a EXCEPT !.state = b.state, !.started = b.started, !.steps = b.steps]
    BY <1>1, <2>3 DEF AttemptRows
  <2>7. Progress(a, b)
    BY <1>4, <2>3, <2>6 DEF Progress
  <2> HIDE DEF k, b
  <2> QED
    BY <1>4, <2>1, <2>2, <2>3, <2>4, <2>5, <2>7 DEF Advances
<1>5. \/ MutateActiveAttempt(j, n, job[j], a)
      \/ /\ a.state \in AttemptActive /\ StepMayStart(a, i) /\ NotBeforeUpdate(j, now)
         /\ MutateActiveAttempt(j, n, k, b)
  BY DEF StartStep, AttemptActive
<1> QED
  BY <1>3, <1>4, <1>5

\* An attempt that is ended with any conclusion ends in one and the same way.
LEMMA EndKind ==
  ASSUME TypeOK, NEW j \in Jobs, NEW n \in Numbers, NEW now \in Nat \ {0},
         attempt[j][n].state \in AttemptActive, CurrentAttempt(j, n), NotBeforeUpdate(j, now),
         NEW k \in {"Queued", "Succeeded", "Failed", "Canceled", "Lost"},
         NEW state \in AttemptTerminal, NEW reason \in TerminalReasons,
         NEW steps \in [Steps -> StepStates],
         Ending(n, attempt[j][n], k, state, reason, steps),
         MutateAttempt(j, n, Released(job[j], k, now),
                       Finished(attempt[j][n], state, reason, steps, now))
  PROVE  Ends(j, n)
<1>0. now \in Nat /\ now # NoTime
  BY DEF NoTime
<1>1. attempt[j][n] \in AttemptRows /\ job[j] \in JobRows /\ job[j].last = n
  BY DEF TypeOK, CurrentAttempt, LatestAttempt
<1>2. k \in JobStates
  BY DEF JobStates, JobTerminal
<1>3. /\ Released(job[j], k, now) \in JobRows
      /\ Released(job[j], k, now).state = k
      /\ Released(job[j], k, now).last = n
      /\ Released(job[j], k, now).current = NoNumber
      /\ Released(job[j], k, now).retry = job[j].retry
      /\ Released(job[j], k, now).updated = now
  BY <1>0, <1>1, <1>2, ReleasedType
<1>4. /\ Finished(attempt[j][n], state, reason, steps, now) \in AttemptRows
      /\ Finished(attempt[j][n], state, reason, steps, now).state = state
      /\ Finished(attempt[j][n], state, reason, steps, now).reason = reason
      /\ Finished(attempt[j][n], state, reason, steps, now).steps = steps
      /\ Finished(attempt[j][n], state, reason, steps, now).completed = now
  BY <1>0, <1>1, FinishedType
<1>5. job[j].updated =< now
  BY DEF NotBeforeUpdate
<1> QED
  BY <1>0, <1>3, <1>4, <1>5 DEF Ends

\* An attempt that exists and has not ended is active.
LEMMA ActiveAttempt ==
  ASSUME TypeOK, NEW j \in Jobs, NEW n \in Numbers,
         attempt[j][n].state # "Absent", attempt[j][n].state \notin AttemptTerminal
  PROVE  attempt[j][n].state \in AttemptActive
<1>1. attempt[j][n] \in AttemptRows
  BY DEF TypeOK
<1>2. attempt[j][n].state \in AttemptStates
  BY <1>1 DEF AttemptRows
<1> QED
  BY <1>2 DEF AttemptStates

LEMMA CompleteStepKind ==
  ASSUME TypeOK, NEW j \in Jobs, NEW n \in Numbers, NEW i \in Steps, NEW now \in Nat \ {0},
         NEW conclusion \in StepConclusions, attempt[j][n].state # "Absent",
         CompleteStep(j, n, i, conclusion, now)
  PROVE  Replays(j, n) \/ Advances(j, n) \/ Ends(j, n)
<1> DEFINE a == attempt[j][n]
           steps == [a.steps EXCEPT ![i] = conclusion]
           b == [a EXCEPT !.steps = steps]
           k == [job[j] EXCEPT !.updated = now]
<1>1. a \in AttemptRows /\ job[j] \in JobRows /\ now \in Nat
  BY DEF TypeOK
<1>2. steps \in [Steps -> StepStates]
  <2>1. conclusion \in StepStates
    BY DEF StepConclusions, StepStates
  <2> QED
    BY <1>1, <2>1 DEF AttemptRows
<1>3. CASE \/ MutateAttempt(j, n, job[j], a)
           \/ MutateActiveAttempt(j, n, job[j], a)
  BY <1>3 DEF Replays
<1>4. ASSUME a.state \notin AttemptTerminal, Authenticate(j, n, "runtime", now)
      PROVE  /\ a.state \in AttemptActive
             /\ CurrentAttempt(j, n) /\ JobAlignment(j, n)
             /\ job[j].last = n /\ job[j].current = n /\ job[j].state = a.state
  BY <1>4, ActiveAttempt
     DEF Authenticate, AuthenticateIdentity, CurrentAttempt, JobAlignment, LatestAttempt
<1>5. CASE /\ a.state \notin AttemptTerminal /\ Authenticate(j, n, "runtime", now)
           /\ a.steps[i] = "Running" /\ NotBeforeUpdate(j, now) /\ conclusion = "Succeeded"
           /\ MutateActiveAttempt(j, n, k, b)
  <2>1. /\ k \in JobRows /\ k.state = a.state /\ k.last = n /\ k.current = n
        /\ k.retry = job[j].retry /\ k.updated = now
    BY <1>1, <1>4, <1>5 DEF JobRows
  <2>2. /\ b \in AttemptRows /\ b.state = a.state /\ b.started = a.started
        /\ b.steps = [a.steps EXCEPT ![i] = "Succeeded"]
    BY <1>1, <1>2, <1>5 DEF AttemptRows
  <2>3. b = [a EXCEPT !.state = b.state, !.started = b.started, !.steps = b.steps]
    BY <1>1, <2>2 DEF AttemptRows
  <2>4. Progress(a, b)
    BY <1>5, <2>2, <2>3 DEF Progress
  <2>5. job[j].updated =< k.updated
    BY <1>5, <2>1 DEF NotBeforeUpdate
  <2> HIDE DEF k, b
  <2> QED
    BY <1>4, <1>5, <2>1, <2>2, <2>4, <2>5 DEF Advances
<1>6. CASE /\ a.state \notin AttemptTerminal /\ Authenticate(j, n, "runtime", now)
           /\ a.steps[i] = "Running" /\ NotBeforeUpdate(j, now) /\ conclusion = "Failed"
           /\ MutateAttempt(j, n, Released(job[j], "Failed", now),
                Finished(a, "Failed", "StepFailed", SkipPending(steps), now))
  <2>1. SkipPending(steps) \in [Steps -> StepStates]
    BY <1>2, StepsType DEF StepStates
  <2>2. "Failed" \in AttemptTerminal /\ "StepFailed" \in TerminalReasons
    BY DEF AttemptTerminal, TerminalReasons
  <2>3. Ending(n, a, "Failed", "Failed", "StepFailed", SkipPending(steps))
    BY <1>6 DEF Ending
  <2> HIDE DEF steps
  <2> QED
    BY <1>1, <1>4, <1>6, <2>1, <2>2, <2>3, EndKind
<1>7. \/ MutateAttempt(j, n, job[j], a)
      \/ MutateActiveAttempt(j, n, job[j], a)
      \/ /\ a.state \notin AttemptTerminal /\ Authenticate(j, n, "runtime", now)
         /\ a.steps[i] = "Running" /\ NotBeforeUpdate(j, now)
         /\ \/ conclusion = "Succeeded" /\ MutateActiveAttempt(j, n, k, b)
            \/ /\ conclusion = "Failed"
               /\ MutateAttempt(j, n, Released(job[j], "Failed", now),
                    Finished(a, "Failed", "StepFailed", SkipPending(steps), now))
  <2>1. CASE /\ AuthenticateIdentity(j, n, "runtime")
             /\ IF conclusion = "Failed" THEN MutateAttempt(j, n, job[j], a)
                                         ELSE MutateActiveAttempt(j, n, job[j], a)
    BY <2>1
  <2>2. CASE ~(/\ AuthenticateIdentity(j, n, "runtime")
               /\ IF conclusion = "Failed" THEN MutateAttempt(j, n, job[j], a)
                                           ELSE MutateActiveAttempt(j, n, job[j], a))
    BY <2>2, Zenon DEF CompleteStep
  <2> QED
    BY <2>1, <2>2
<1> QED
  BY <1>3, <1>5, <1>6, <1>7

LEMMA CompleteAttemptKind ==
  ASSUME TypeOK, NEW j \in Jobs, NEW n \in Numbers, NEW now \in Nat \ {0}, NEW token,
         NEW conclusion, attempt[j][n].state # "Absent",
         CompleteAttempt(j, n, token, conclusion, now)
  PROVE  Replays(j, n) \/ Ends(j, n)
<1> DEFINE a == attempt[j][n]
           End(state, reason, steps) ==
             MutateAttempt(j, n, Released(job[j], state, now), Finished(a, state, reason, steps, now))
<1>1. a \in AttemptRows /\ now \in Nat
  BY DEF TypeOK
<1>2. /\ a.steps \in [Steps -> StepStates]
      /\ SkipPending(a.steps) \in [Steps -> StepStates]
      /\ InterruptSteps(a.steps, "Canceled") \in [Steps -> StepStates]
  <2>1. a.steps \in [Steps -> StepStates] /\ "Canceled" \in StepStates
    BY <1>1 DEF AttemptRows, StepStates
  <2> QED
    BY <2>1, StepsType
<1>3. CASE MutateAttempt(j, n, job[j], a)
  BY <1>3 DEF Replays
<1> DEFINE AllSucceeded == \A i \in Steps : a.steps[i] = "Succeeded"
<1>4. CASE /\ a.state \notin AttemptTerminal /\ Authenticate(j, n, token, now)
           /\ NotBeforeUpdate(j, now)
           /\ \/ AllSucceeded /\ End("Canceled", "Canceled", a.steps)
              \/ /\ AllSucceeded /\ a.state = "Running" /\ ~run.cancel
                 /\ End("Succeeded", "None", a.steps)
              \/ a.state = "Dispatching" /\ End("Failed", "RuntimeSetupFailed", SkipPending(a.steps))
              \/ End("Failed", "TimedOut", InterruptSteps(a.steps, "Canceled"))
              \/ End("Canceled", "Canceled", InterruptSteps(a.steps, "Canceled"))
  <2>1. a.state \in AttemptActive /\ CurrentAttempt(j, n)
    BY <1>4, ActiveAttempt DEF Authenticate
  <2>2. /\ {"Canceled", "Succeeded", "Failed"} \subseteq AttemptTerminal
        /\ {"None", "Canceled", "RuntimeSetupFailed", "TimedOut"} \subseteq TerminalReasons
    BY DEF AttemptTerminal, TerminalReasons
  <2>3. ASSUME NEW state \in {"Canceled", "Succeeded", "Failed"},
               NEW reason \in {"None", "Canceled", "RuntimeSetupFailed", "TimedOut"},
               NEW steps \in [Steps -> StepStates], End(state, reason, steps),
               Ending(n, a, state, state, reason, steps)
        PROVE  Ends(j, n)
    BY <1>1, <1>4, <2>1, <2>2, <2>3, EndKind
  <2>4. /\ AllSucceeded => Ending(n, a, "Canceled", "Canceled", "Canceled", a.steps)
        /\ AllSucceeded /\ a.state = "Running" /\ ~run.cancel
             => Ending(n, a, "Succeeded", "Succeeded", "None", a.steps)
        /\ a.state = "Dispatching" =>
             Ending(n, a, "Failed", "Failed", "RuntimeSetupFailed", SkipPending(a.steps))
        /\ Ending(n, a, "Failed", "Failed", "TimedOut", InterruptSteps(a.steps, "Canceled"))
        /\ Ending(n, a, "Canceled", "Canceled", "Canceled", InterruptSteps(a.steps, "Canceled"))
    BY DEF Ending
  <2> HIDE DEF End, AllSucceeded
  <2> QED
    BY <1>2, <1>4, <2>3, <2>4
<1>5. \/ MutateAttempt(j, n, job[j], a)
      \/ /\ a.state \notin AttemptTerminal /\ Authenticate(j, n, token, now)
         /\ NotBeforeUpdate(j, now)
         /\ \/ AllSucceeded /\ End("Canceled", "Canceled", a.steps)
            \/ /\ AllSucceeded /\ a.state = "Running" /\ ~run.cancel
               /\ End("Succeeded", "None", a.steps)
            \/ a.state = "Dispatching" /\ End("Failed", "RuntimeSetupFailed", SkipPending(a.steps))
            \/ End("Failed", "TimedOut", InterruptSteps(a.steps, "Canceled"))
            \/ End("Canceled", "Canceled", InterruptSteps(a.steps, "Canceled"))
  BY Zenon DEF CompleteAttempt
<1> QED
  BY <1>3, <1>4, <1>5

LEMMA LostKinds ==
  ASSUME TypeOK, NEW j \in Jobs, NEW n \in Numbers, NEW now \in Nat \ {0},
         attempt[j][n].state # "Absent",
         ExpireAttempt(j, n, now) \/ AbandonAttempt(j, n, now)
  PROVE  Ends(j, n)
<1> DEFINE a == attempt[j][n]
           exhausted == a.state = "Dispatching" /\ ~run.cancel /\ n = MaxRunAttempts
           state == CASE a.state = "Running" -> "Lost"
                      [] a.state # "Running" /\ run.cancel -> "Canceled"
                      [] exhausted -> "Lost"
                      [] OTHER -> "Queued"
           reason == IF exhausted THEN "DispatchAttemptsExhausted" ELSE "ExecutionLost"
<1>1. a \in AttemptRows /\ now \in Nat
  BY DEF TypeOK
<1>2. a.state \in AttemptActive
  BY ActiveAttempt DEF ExpireAttempt, AbandonAttempt
<1>3. FinishLostOrRequeue(j, n, now)
  BY DEF ExpireAttempt, AbandonAttempt
<1>4. /\ CurrentAttempt(j, n) /\ NotBeforeUpdate(j, now)
      /\ MutateAttempt(j, n, Released(job[j], state, now),
                       Finished(a, "Lost", reason, InterruptSteps(a.steps, "Lost"), now))
  BY <1>3, Zenon DEF FinishLostOrRequeue
<1>5. InterruptSteps(a.steps, "Lost") \in [Steps -> StepStates]
  <2>1. a.steps \in [Steps -> StepStates] /\ "Lost" \in StepStates
    BY <1>1 DEF AttemptRows, StepStates
  <2> QED
    BY <2>1, StepsType
<1>6. state \in {"Queued", "Succeeded", "Failed", "Canceled", "Lost"}
  OBVIOUS
<1>7. "Lost" \in AttemptTerminal /\ reason \in TerminalReasons
  BY DEF AttemptTerminal, TerminalReasons
<1>8. Ending(n, a, state, "Lost", reason, InterruptSteps(a.steps, "Lost"))
  <2>1. CASE exhausted
    BY <2>1 DEF Ending
  <2>2. CASE ~exhausted
    <3>1. state \in {"Queued", "Canceled", "Lost"} /\ reason = "ExecutionLost"
      BY <2>2
    <3> HIDE DEF state, reason
    <3> QED
      BY <3>1 DEF Ending
  <2> QED
    BY <2>1, <2>2
<1> HIDE DEF state, reason
<1> QED
  BY <1>1, <1>2, <1>4, <1>5, <1>6, <1>7, <1>8, EndKind

LEMMA ConfirmKind ==
  ASSUME TypeOK, NEW j \in Jobs, NEW n \in Numbers, NEW now \in Nat \ {0},
         attempt[j][n].state # "Absent", ConfirmProviderCancellation(j, n, now)
  PROVE  Replays(j, n) \/ Ends(j, n)
<1> DEFINE a == attempt[j][n]
<1>1. a \in AttemptRows /\ now \in Nat
  BY DEF TypeOK
<1>2. CASE MutateAttempt(j, n, job[j], a)
  BY <1>2 DEF Replays
<1>3. CASE /\ CurrentAttempt(j, n) /\ a.state \notin AttemptTerminal /\ NotBeforeUpdate(j, now)
           /\ MutateAttempt(j, n, Released(job[j], "Canceled", now),
                Finished(a, "Canceled", "Canceled", InterruptSteps(a.steps, "Canceled"), now))
  <2>1. a.steps \in [Steps -> StepStates] /\ "Canceled" \in StepStates
    BY <1>1 DEF AttemptRows, StepStates
  <2>2. InterruptSteps(a.steps, "Canceled") \in [Steps -> StepStates]
    BY <2>1, StepsType
  <2>3. "Canceled" \in AttemptTerminal /\ "Canceled" \in TerminalReasons
    BY DEF AttemptTerminal, TerminalReasons
  <2>4. a.state \in AttemptActive
    BY <1>3, ActiveAttempt
  <2>5. Ending(n, a, "Canceled", "Canceled", "Canceled", InterruptSteps(a.steps, "Canceled"))
    BY DEF Ending
  <2> QED
    BY <1>1, <1>3, <2>2, <2>3, <2>4, <2>5, EndKind
<1> QED
  BY <1>2, <1>3 DEF ConfirmProviderCancellation

\* Every operation on an attempt is a transaction of one of the four kinds.
LEMMA AttemptKinds ==
  ASSUME TypeOK, NEW j \in Jobs, NEW n \in Numbers, NEW now \in Nat \ {0}, AttemptAction(j, n, now)
  PROVE  Replays(j, n) \/ Renews(j, n) \/ Advances(j, n) \/ Ends(j, n)
<1>1. CASE RejectCapacity(j, n, now)
  BY <1>1, RejectCapacityKind
<1>2. CASE ClaimRuntime(j, n, now) \/ Heartbeat(j, n, now)
  BY <1>2, RenewKinds DEF AttemptAction
<1>3. CASE \E i \in Steps : StartStep(j, n, i, now)
  BY <1>3, StartStepKind
<1>4. CASE \E i \in Steps, c \in StepConclusions : CompleteStep(j, n, i, c, now)
  BY <1>4, CompleteStepKind DEF AttemptAction
<1>5. CASE \E c \in Conclusions : CompleteAttempt(j, n, "runtime", c, now)
  BY <1>5, CompleteAttemptKind DEF AttemptAction
<1>6. CASE CompleteAttempt(j, n, "bootstrap", "SetupFailed", now)
  BY <1>6, CompleteAttemptKind DEF AttemptAction
<1>7. CASE ExpireAttempt(j, n, now) \/ AbandonAttempt(j, n, now)
  BY <1>7, LostKinds DEF AttemptAction
<1>8. CASE ConfirmProviderCancellation(j, n, now)
  BY <1>8, ConfirmKind DEF AttemptAction
<1> QED
  BY <1>1, <1>2, <1>3, <1>4, <1>5, <1>6, <1>7, <1>8 DEF AttemptAction

\* A dispatch: a new current attempt for a queued job.
Inserts(j) ==
  \E k \in JobRows, a \in AttemptRows, now \in Nat :
    LET n == job[j].last + 1 IN
    /\ job[j].state = "Queued" /\ job[j].current = NoNumber
    /\ n \in Numbers
    /\ ~run.cancel
    /\ k.state = "Dispatching" /\ k.last = n /\ k.current = n
    /\ k.retry = [job[j].retry EXCEPT !.next = NoTime] /\ job[j].updated =< k.updated
    /\ a.state = "Dispatching"
    /\ a = [NoAttempt EXCEPT !.state = a.state, !.lease = a.lease, !.heartbeat = a.heartbeat,
                             !.created = a.created]
    /\ SaveAttempt(j, n, a)
    /\ ReconcileRun([job EXCEPT ![j] = k], now, {j})
    /\ UNCHANGED clock

\* A queued job whose capacity retries are over.
GivesUp(j) ==
  \E k \in JobRows, now \in Nat :
    /\ job[j].state = "Queued"
    /\ k.state = "Failed" /\ k.last = job[j].last /\ k.current = job[j].current
    /\ k.retry = [job[j].retry EXCEPT !.next = NoTime] /\ job[j].updated =< k.updated
    /\ ReconcileRun([job EXCEPT ![j] = k], now, Jobs)
    /\ UNCHANGED <<clock, attempt>>

LEMMA NoAttemptType == NoAttempt \in AttemptRows /\ NoAttempt.state = "Absent"
  BY DEF NoAttempt, AttemptRows, AttemptStates, Tokens, TerminalReasons, StepStates, NoTime

LEMMA DispatchKind ==
  ASSUME TypeOK, NEW j \in Jobs, NEW now \in Now, Dispatch(j, now)
  PROVE  Inserts(j)
<1> DEFINE n == job[j].last + 1
           k == [job[j] EXCEPT !.state = "Dispatching", !.last = n, !.current = n,
                               !.updated = now, !.retry = [job[j].retry EXCEPT !.next = NoTime]]
           a == [NoAttempt EXCEPT !.state = "Dispatching", !.lease = now + DispatchLease,
                                  !.heartbeat = now, !.created = now]
<1>1. job[j] \in JobRows /\ now \in Nat
  BY NowNat DEF TypeOK
<1>2. n \in Numbers
  BY DEF Dispatch
<1>3. n \in Nat
  BY <1>1 DEF JobRows
<1>4. /\ k \in JobRows /\ k.state = "Dispatching" /\ k.last = n /\ k.current = n
      /\ k.retry = [job[j].retry EXCEPT !.next = NoTime] /\ k.updated = now
  <2>1. "Dispatching" \in JobStates
    BY DEF JobStates, JobActive
  <2>2. job[j].retry \in Retries
    BY <1>1 DEF JobRows
  <2>3. [job[j].retry EXCEPT !.next = NoTime] \in Retries
    BY <2>2 DEF Retries, NoTime
  <2> HIDE DEF n
  <2> QED
    BY <1>1, <1>3, <2>1, <2>3 DEF JobRows
<1>5. /\ a \in AttemptRows /\ a.state = "Dispatching"
      /\ a = [NoAttempt EXCEPT !.state = a.state, !.lease = a.lease, !.heartbeat = a.heartbeat,
                               !.created = a.created]
  <2>1. "Dispatching" \in AttemptStates
    BY DEF AttemptStates, AttemptActive
  <2>2. now + DispatchLease \in Nat
    BY <1>1, BoundsAssumption
  <2> QED
    BY <1>1, <2>1, <2>2, NoAttemptType DEF AttemptRows
<1>6. /\ job[j].state = "Queued" /\ job[j].current = NoNumber /\ ~run.cancel
      /\ SaveAttempt(j, n, a) /\ UNCHANGED clock
      /\ ReconcileRun([job EXCEPT ![j] = k], now, {j})
  BY Zenon DEF Dispatch
<1>7. job[j].updated =< k.updated
  BY <1>4 DEF Dispatch, NotBeforeUpdate
<1> HIDE DEF k, a
<1> QED
  BY <1>1, <1>2, <1>4, <1>5, <1>6, <1>7 DEF Inserts

LEMMA ExpireCapacityRetryKind ==
  ASSUME TypeOK, NEW j \in Jobs, NEW now \in Now, ExpireCapacityRetry(j, now)
  PROVE  GivesUp(j)
<1> DEFINE k == [job[j] EXCEPT !.state = "Failed", !.updated = now,
                               !.retry = [job[j].retry EXCEPT !.next = NoTime]]
<1>1. job[j] \in JobRows /\ now \in Nat
  BY NowNat DEF TypeOK
<1>2. /\ k \in JobRows /\ k.state = "Failed" /\ k.last = job[j].last /\ k.current = job[j].current
      /\ k.retry = [job[j].retry EXCEPT !.next = NoTime] /\ k.updated = now
  <2>1. "Failed" \in JobStates
    BY DEF JobStates, JobTerminal
  <2>2. job[j].retry \in Retries
    BY <1>1 DEF JobRows
  <2>3. [job[j].retry EXCEPT !.next = NoTime] \in Retries
    BY <2>2 DEF Retries, NoTime
  <2> QED
    BY <1>1, <2>1, <2>3 DEF JobRows
<1>3. /\ job[j].state = "Queued" /\ UNCHANGED <<clock, attempt>>
      /\ ReconcileRun([job EXCEPT ![j] = k], now, Jobs)
  BY Zenon DEF ExpireCapacityRetry
<1>4. job[j].updated =< k.updated
  BY <1>2 DEF ExpireCapacityRetry, NotBeforeUpdate
<1> HIDE DEF k
<1> QED
  BY <1>1, <1>2, <1>3, <1>4 DEF GivesUp

\* What a transaction that replaces one job row leaves in the job and run tables.
LEMMA MutateAttemptEffect ==
  ASSUME TypeOK, NEW j \in Jobs, NEW n \in Numbers, NEW k \in JobRows, NEW a \in AttemptRows,
         MutateAttempt(j, n, k, a)
  PROVE  \E settled : /\ Derived(run, [job EXCEPT ![j] = k], settled, Jobs)
                      /\ FullyResolved([job EXCEPT ![j] = k], settled)
                      /\ Reflects(run, [job EXCEPT ![j] = k], settled,
                                  IF a.completed # NoTime THEN a.completed ELSE k.updated)
<1>1. run \in RunRows /\ [job EXCEPT ![j] = k] \in [Jobs -> JobRows]
  BY DEF TypeOK
<1>2. (IF a.completed # NoTime THEN a.completed ELSE k.updated) \in Nat
  BY DEF JobRows, AttemptRows
<1> QED
  BY <1>1, <1>2, ReconcileRunDerived DEF MutateAttempt

LEMMA MutateActiveAttemptEffect ==
  ASSUME TypeOK, NEW j \in Jobs, NEW n \in Numbers, NEW k \in JobRows, NEW a \in AttemptRows,
         MutateActiveAttempt(j, n, k, a)
  PROVE  \E settled : /\ Derived(run, [job EXCEPT ![j] = k], settled, {j})
                      /\ FullyResolved([job EXCEPT ![j] = k], settled)
                      /\ Reflects(run, [job EXCEPT ![j] = k], settled, k.updated)
<1>1. run \in RunRows /\ [job EXCEPT ![j] = k] \in [Jobs -> JobRows]
  BY DEF TypeOK
<1>2. k.updated \in Nat
  BY DEF JobRows
<1> QED
  BY <1>1, <1>2, ReconcileRunDerived DEF MutateActiveAttempt

-----------------------------------------------------------------------------
(* Callers whose clock reading may be of any age.  A phase of the           *)
(* coordinator keeps the time it began with, so what is proved for LateNext *)
(* holds where RunStore is a part of a larger system too.                   *)

LateNext ==
  \/ Tick
  \/ \E now \in Now : RequestCancellation(now) \/ RetryRun(now) \/ \E j \in Jobs : JobAction(j, now)
  \/ \E now \in Nat \ {0}, j \in Jobs, n \in Numbers : AttemptAction(j, n, now)

LateSpec == Init /\ [][LateNext]_vars

LEMMA NextIsLate == TypeOK /\ [Next]_vars => [LateNext]_vars
<1> SUFFICES ASSUME TypeOK, Next PROVE LateNext
  BY DEF vars
<1>1. ASSUME NEW now \in Now, NEW j \in Jobs, NEW n \in Numbers, AttemptAction(j, n, now)
      PROVE  LateNext
  BY <1>1, NowNat DEF LateNext
<1> QED
  BY <1>1 DEF Next, LateNext

-----------------------------------------------------------------------------
(* Type correctness                                                         *)

\* A reconciled table is a table of job rows.
LEMMA DerivedType ==
  ASSUME TypeOK, NEW r, NEW js, NEW settled, NEW saved, Derived(r, js, settled, saved)
  PROVE  run' \in RunRows /\ job' \in [Jobs -> JobRows]
  BY DEF TypeOK, Derived

LEMMA SavedAttemptType ==
  ASSUME TypeOK, NEW j \in Jobs, NEW n \in Numbers, NEW a \in AttemptRows,
         attempt' = [attempt EXCEPT ![j] = [@ EXCEPT ![n] = a]]
  PROVE  attempt' \in [Jobs -> [Numbers -> AttemptRows]]
  BY DEF TypeOK

LEMMA InitType == Init => TypeOK
<1> SUFFICES ASSUME Init PROVE TypeOK
  OBVIOUS
<1>1. \A j \in Jobs : InitialJobState(j) \in JobStates
  BY DEF InitialJobState, JobStates
<1>2. NoCapacityRetry \in Retries
  BY DEF NoCapacityRetry, Retries, NoTime
<1>3. run \in RunRows
  BY DEF Init, RunRows, RunStates
<1>4. job \in [Jobs -> JobRows]
  BY <1>1, <1>2 DEF Init, JobRows, NoNumber
<1>5. attempt \in [Jobs -> [Numbers -> AttemptRows]]
  BY NoAttemptType DEF Init
<1> QED
  BY <1>3, <1>4, <1>5 DEF Init, TypeOK

LEMMA RetryType ==
  ASSUME TypeOK, NEW now \in Now, RetryRun(now)
  PROVE  TypeOK'
<1>1. now \in Nat
  BY NowNat
<1>2. \A j \in Jobs : InitialJobState(j) \in JobStates
  BY DEF InitialJobState, JobStates
<1>3. NoCapacityRetry \in Retries
  BY DEF NoCapacityRetry, Retries, NoTime
<1>4. run' \in RunRows
  BY <1>1 DEF RetryRun, RunRows, RunStates
<1>5. job' \in [Jobs -> JobRows]
  BY <1>1, <1>2, <1>3 DEF RetryRun, TypeOK, JobRows, NoNumber
<1> QED
  BY <1>4, <1>5 DEF RetryRun, TypeOK

\* request_run_cancellation derives the run from jobs it has not touched.
LEMMA CancellationEffect ==
  ASSUME TypeOK, NEW now \in Now, RequestCancellation(now)
  PROVE  \E r \in RunRows : \E settled :
           /\ r.cancel /\ r.state = run.state /\ run.updated =< r.updated
           /\ Derived(r, job, settled, Jobs) /\ Reflects(r, job, settled, now)
           /\ settled = job \/ TakenAlong(job, settled)
<1> DEFINE r == [run EXCEPT !.cancel = TRUE, !.updated = Later(now, run.updated)]
<1>1. now \in Nat /\ run \in RunRows /\ job \in [Jobs -> JobRows]
  BY NowNat DEF TypeOK
<1>2. Later(now, run.updated) \in Nat
  BY <1>1, LaterNat DEF RunRows
<1>3. r \in RunRows /\ r.cancel /\ r.state = run.state
  BY <1>1, <1>2 DEF RunRows
<1>5. run.updated =< r.updated
  BY <1>1, <1>2 DEF RunRows, Later
<1>4. DeriveRunState(r, job, now, Jobs)
  BY DEF RequestCancellation
<1> HIDE DEF r
<1> QED
  BY <1>1, <1>3, <1>4, <1>5, DeriveRunStateDerived

LEMMA NextType == TypeOK /\ [LateNext]_vars => TypeOK'
<1> SUFFICES ASSUME TypeOK, [LateNext]_vars PROVE TypeOK'
  OBVIOUS
<1>1. CASE UNCHANGED vars
  BY <1>1 DEF vars, TypeOK
<1>2. CASE Tick
  BY <1>2 DEF Tick, TypeOK
<1>3. ASSUME NEW now \in Now, RequestCancellation(now) PROVE TypeOK'
  <2>1. run' \in RunRows /\ job' \in [Jobs -> JobRows]
    BY <1>3, CancellationEffect, DerivedType
  <2> QED
    BY <1>3, <2>1 DEF RequestCancellation, TypeOK
<1>4. ASSUME NEW now \in Now, RetryRun(now) PROVE TypeOK'
  BY <1>4, RetryType
<1>5. ASSUME NEW now \in Now, NEW j \in Jobs, Dispatch(j, now) PROVE TypeOK'
  <2>1. PICK k \in JobRows, a \in AttemptRows, t \in Nat :
          /\ job[j].last + 1 \in Numbers
          /\ SaveAttempt(j, job[j].last + 1, a)
          /\ ReconcileRun([job EXCEPT ![j] = k], t, {j})
          /\ UNCHANGED clock
    BY <1>5, DispatchKind DEF Inserts
  <2>2. run \in RunRows /\ [job EXCEPT ![j] = k] \in [Jobs -> JobRows]
    BY DEF TypeOK
  <2>3. run' \in RunRows /\ job' \in [Jobs -> JobRows]
    BY <2>1, <2>2, ReconcileRunDerived, DerivedType
  <2>4. attempt' \in [Jobs -> [Numbers -> AttemptRows]]
    BY <2>1, SavedAttemptType DEF SaveAttempt
  <2> QED
    BY <2>1, <2>3, <2>4 DEF TypeOK
<1>6. ASSUME NEW now \in Now, NEW j \in Jobs, ExpireCapacityRetry(j, now) PROVE TypeOK'
  <2>1. PICK k \in JobRows, t \in Nat :
          /\ ReconcileRun([job EXCEPT ![j] = k], t, Jobs)
          /\ UNCHANGED <<clock, attempt>>
    BY <1>6, ExpireCapacityRetryKind DEF GivesUp
  <2>2. run \in RunRows /\ [job EXCEPT ![j] = k] \in [Jobs -> JobRows]
    BY DEF TypeOK
  <2>3. run' \in RunRows /\ job' \in [Jobs -> JobRows]
    BY <2>1, <2>2, ReconcileRunDerived, DerivedType
  <2> QED
    BY <2>1, <2>3 DEF TypeOK
<1>7. ASSUME NEW now \in Nat \ {0}, NEW j \in Jobs, NEW n \in Numbers, AttemptAction(j, n, now)
      PROVE  TypeOK'
  <2>1. ASSUME NEW k \in JobRows, NEW a \in AttemptRows,
               MutateAttempt(j, n, k, a) \/ MutateActiveAttempt(j, n, k, a)
        PROVE  TypeOK'
    <3>1. clock' = clock /\ attempt' = [attempt EXCEPT ![j] = [@ EXCEPT ![n] = a]]
      BY <2>1 DEF MutateAttempt, MutateActiveAttempt, SaveAttempt
    <3>2. \/ \E settled : Derived(run, [job EXCEPT ![j] = k], settled, Jobs)
          \/ \E settled : Derived(run, [job EXCEPT ![j] = k], settled, {j})
      <4>1. CASE MutateAttempt(j, n, k, a)
        BY <4>1, MutateAttemptEffect
      <4>2. CASE MutateActiveAttempt(j, n, k, a)
        BY <4>2, MutateActiveAttemptEffect
      <4> QED
        BY <2>1, <4>1, <4>2
    <3>3. run' \in RunRows /\ job' \in [Jobs -> JobRows]
      BY <3>2, DerivedType
    <3>4. attempt' \in [Jobs -> [Numbers -> AttemptRows]]
      BY <3>1, SavedAttemptType
    <3> QED
      BY <3>1, <3>3, <3>4 DEF TypeOK
  <2>2. CASE Replays(j, n)
    <3>1. job[j] \in JobRows /\ attempt[j][n] \in AttemptRows
      BY DEF TypeOK
    <3> QED
      BY <2>1, <2>2, <3>1 DEF Replays
  <2>3. CASE Renews(j, n)
    <3>0. PICK a \in AttemptRows : attempt' = [attempt EXCEPT ![j] = [@ EXCEPT ![n] = a]]
      BY <2>3 DEF Renews, SaveAttempt
    <3>1. attempt' \in [Jobs -> [Numbers -> AttemptRows]]
      BY <3>0, SavedAttemptType
    <3> QED
      BY <2>3, <3>1 DEF Renews, TypeOK
  <2>4. CASE Advances(j, n)
    BY <2>1, <2>4 DEF Advances
  <2>5. CASE Ends(j, n)
    BY <2>1, <2>5 DEF Ends
  <2> QED
    BY <1>7, <2>2, <2>3, <2>4, <2>5, AttemptKinds
<1> QED
  BY <1>1, <1>2, <1>3, <1>4, <1>5, <1>6, <1>7 DEF LateNext, JobAction

\* Every transaction of the run store keeps the rows within their columns' types,
\* whoever calls it and however late.
THEOREM TypeCorrect == Spec => []TypeOK
<1>1. Init => TypeOK
  BY InitType
<1>2. TypeOK /\ [Next]_vars => TypeOK'
  BY NextType, NextIsLate
<1> QED
  BY <1>1, <1>2, PTL DEF Spec


-----------------------------------------------------------------------------
(* The inductive invariant                                                  *)

EndedTogether == run.state \in RunTerminal => \A j \in Jobs : job[j].state \in JobTerminal
CanceledKnown == \A j \in Jobs : job[j].state = "Canceled" => run.cancel

\* What retry_run relies on (EndedTogether), what reconcile_run relies on when
\* it saves one job only (JobsSettled, CanceledKnown), and what they are for.
StoreInv ==
  /\ TypeOK
  /\ AttemptJobAgreement
  /\ JobsSettled /\ CanceledKnown /\ EndedTogether
  /\ NeedsSucceeded

-----------------------------------------------------------------------------
(* Reconciling settled jobs changes none of them                            *)

\* A non-empty set of jobs has one that needs none of the others.
LEMMA MinimalJob ==
  ASSUME NEW S, S \subseteq Jobs, S # {}
  PROVE  \E m \in S : \A d \in Needs[m] : d \notin S
<1>1. PICK rank \in [Jobs -> 1..Cardinality(Jobs)] :
        \A j \in Jobs : \A d \in Needs[j] : rank[d] < rank[j]
  BY AcyclicAssumption
<1> DEFINE T == {rank[m] : m \in S}
<1>2. \A m \in Jobs : rank[m] \in Nat
  <2>1. \A m \in Jobs : rank[m] \in 1..Cardinality(Jobs)
    OBVIOUS
  <2> QED
    BY <2>1
<1>3. T \subseteq Nat /\ T # {}
  BY <1>2
<1>4. \E x \in T : \A y \in T : ~ (<<y, x>> \in OpToRel(<, Nat))
  BY <1>3, NatLessThanWellFounded, WFMin
<1>5. PICK x \in T : \A y \in T : ~ (y < x)
  BY <1>3, <1>4 DEF OpToRel
<1>6. PICK m \in S : x = rank[m]
  OBVIOUS
<1>7. ASSUME NEW d \in Needs[m], d \in S PROVE FALSE
  BY <1>1, <1>5, <1>6, <1>7
<1> QED
  BY <1>7

\* The jobs js are settled under the run row.
Standing(js) ==
  \A j \in Jobs :
    /\ js[j].state = "Blocked" => ResolvedState(js, j) = "Blocked"
    /\ run.cancel => js[j].state \notin {"Blocked", "Queued"}
    /\ js[j].state = "Canceled" => run.cancel

LEMMA ReconcilingTwice ==
  ASSUME NEW js \in [Jobs -> JobRows], NEW settled, NEW saved,
         Derived(run, js, settled, saved), FullyResolved(js, settled), Standing(js)
  PROVE  \A j \in Jobs : settled[j].state = js[j].state
<1>1. \A j \in Jobs : Reconciled(js[j], settled[j])
  BY DEF Derived
<1>2. CASE run.cancel
  BY <1>1, <1>2 DEF Standing, Reconciled
<1>3. CASE ~run.cancel
  <2>1. \A j \in Jobs : settled[j].state # "Canceled"
    BY <1>3 DEF Derived, Standing
  <2>2. \A j \in Jobs : settled[j].state # js[j].state =>
          js[j].state = "Blocked" /\ settled[j].state \in {"Queued", "Skipped"}
    BY <1>1, <2>1 DEF Reconciled
  <2> DEFINE S == {j \in Jobs : settled[j].state # js[j].state}
  <2>3. SUFFICES ASSUME S # {} PROVE FALSE
    OBVIOUS
  <2>4. PICK m \in S : \A d \in Needs[m] : d \notin S
    BY <2>3, MinimalJob
  <2>5. \A d \in Needs[m] : settled[d].state = js[d].state
    BY <2>4, JobsAssumption
  <2>6. ResolvedState(js, m) = "Blocked"
    BY <2>2, <2>4 DEF Standing
  <2>7. CASE settled[m].state = "Queued"
    <3>1. \A d \in Needs[m] : js[d].state = "Succeeded"
      BY <2>2, <2>4, <2>5, <2>7 DEF FullyResolved
    <3>2. ResolvedState(js, m) = "Queued"
      BY <3>1 DEF ResolvedState
    <3> QED
      BY <2>6, <3>2
  <2>8. CASE settled[m].state = "Skipped"
    <3>1. \E d \in Needs[m] : js[d].state \in JobTerminal \ {"Succeeded"}
      BY <2>2, <2>4, <2>5, <2>8 DEF FullyResolved
    <3>2. ResolvedState(js, m) = "Skipped"
      BY <3>1 DEF ResolvedState
    <3> QED
      BY <2>6, <3>2
  <2> QED
    BY <2>2, <2>4, <2>7, <2>8
<1> QED
  BY <1>2, <1>3

-----------------------------------------------------------------------------
(* The jobs and the run                                                     *)

\* The part of the invariant that is about the jobs and the run alone.
JobsInv == JobsSettled /\ CanceledKnown /\ EndedTogether /\ NeedsSucceeded

\* What a transaction may have done to its own job before it reconciles.
Moved(j, k) ==
  \/ k.state = job[j].state
  \/ /\ job[j].state \in {"Queued"} \cup JobActive
     /\ k.state \in {"Queued", "Dispatching", "Running", "Succeeded", "Failed", "Canceled", "Lost"}

\* Jobs that have not succeeded have no dispatched dependents, so moving one of
\* them takes nothing back.
LEMMA MovedNeeds ==
  ASSUME TypeOK, NeedsSucceeded, NEW j \in Jobs, NEW k \in JobRows, Moved(j, k)
  PROVE  \A m \in Jobs :
           [job EXCEPT ![j] = k][m].state \notin {"Blocked", "Skipped", "Canceled"} =>
             \A d \in Needs[m] : [job EXCEPT ![j] = k][d].state = "Succeeded"
<1> DEFINE js == [job EXCEPT ![j] = k]
<1>1. js[j] = k /\ \A m \in Jobs \ {j} : js[m] = job[m]
  BY DEF TypeOK
<1>2. \A m \in Jobs : Needs[m] \subseteq Jobs
  BY JobsAssumption
<1> HIDE DEF js
<1>3. CASE k.state = job[j].state
  <2>1. \A m \in Jobs : js[m].state = job[m].state
    BY <1>1, <1>3
  <2> QED
    BY <1>2, <2>1 DEF NeedsSucceeded, js
<1>4. CASE job[j].state \in {"Queued"} \cup JobActive
  <2>1. job[j].state \notin {"Blocked", "Skipped", "Canceled", "Succeeded"}
    BY <1>4 DEF JobActive
  <2>2. \A d \in Needs[j] : job[d].state = "Succeeded" /\ d # j
    BY <2>1 DEF NeedsSucceeded
  <2>3. ASSUME NEW m \in Jobs \ {j}, job[m].state \notin {"Blocked", "Skipped", "Canceled"},
               NEW d \in Needs[m]
        PROVE  job[d].state = "Succeeded" /\ d # j
    BY <2>1, <2>3 DEF NeedsSucceeded
  <2> QED
    BY <1>1, <1>2, <2>2, <2>3 DEF js
<1> QED
  BY <1>3, <1>4 DEF Moved

\* A transaction that saves every job it settled.
LEMMA AllSaved ==
  ASSUME TypeOK, NeedsSucceeded, NEW j \in Jobs, NEW k \in JobRows, Moved(j, k),
         NEW settled, Derived(run, [job EXCEPT ![j] = k], settled, Jobs),
         FullyResolved([job EXCEPT ![j] = k], settled)
  PROVE  JobsInv'
<1> DEFINE js == [job EXCEPT ![j] = k]
<1>1. settled \in [Jobs -> JobRows] /\ job' = settled
  BY DEF Derived
<1>2. \A m \in Jobs : Needs[m] \subseteq Jobs
  BY JobsAssumption
<1>3. JobsSettled'
  <2>1. \A m \in Jobs : job'[m].state = "Blocked" => ResolvedState(job', m) = "Blocked"
    BY <1>1 DEF FullyResolved
  <2>2. \A m \in Jobs : run'.cancel => job'[m].state \notin {"Blocked", "Queued"}
    BY <1>1 DEF Derived
  <2> QED
    BY <2>1, <2>2 DEF JobsSettled, ResolvedState
<1>4. CanceledKnown' /\ EndedTogether'
  BY <1>1 DEF CanceledKnown, EndedTogether, Derived
<1>5. \A m \in Jobs : js[m].state \notin {"Blocked", "Skipped", "Canceled"} =>
                        \A d \in Needs[m] : js[d].state = "Succeeded"
  BY MovedNeeds
<1>6. \A m \in Jobs : Reconciled(js[m], settled[m])
  BY DEF Derived
<1>7. \A m \in Jobs : js[m].state = "Blocked" /\ settled[m].state = "Queued" =>
                       \A d \in Needs[m] : settled[d].state = "Succeeded"
  BY DEF FullyResolved
<1> HIDE DEF js
<1>8. ASSUME NEW m \in Jobs, settled[m].state \notin {"Blocked", "Skipped", "Canceled"},
             NEW d \in Needs[m]
      PROVE  settled[d].state = "Succeeded"
  <2>1. d \in Jobs
    BY <1>2
  <2>2. CASE js[m].state = "Blocked"
    BY <1>6, <1>7, <1>8, <2>2 DEF Reconciled
  <2>3. CASE js[m].state # "Blocked"
    <3>1. js[m].state \notin {"Blocked", "Skipped", "Canceled"}
      BY <1>6, <1>8, <2>3 DEF Reconciled
    <3>2. js[d].state = "Succeeded"
      BY <1>5, <3>1
    <3> QED
      BY <1>6, <2>1, <3>2 DEF Reconciled
  <2> QED
    BY <2>2, <2>3
<1>9. NeedsSucceeded'
  BY <1>1, <1>8 DEF NeedsSucceeded
<1> QED
  BY <1>3, <1>4, <1>9 DEF JobsInv

\* A transaction that derives the run from all jobs and saves its own only: an
\* attempt that is executing, or a report that repeats what is stored.
LEMMA OwnSaved ==
  ASSUME TypeOK, JobsInv, NEW j \in Jobs, NEW k \in JobRows,
         \/ k.state = job[j].state
         \/ job[j].state \in {"Queued"} \cup JobActive /\ k.state \in JobActive,
         NEW settled, Derived(run, [job EXCEPT ![j] = k], settled, {j}),
         FullyResolved([job EXCEPT ![j] = k], settled)
  PROVE  JobsInv' /\ \A m \in Jobs : job'[m].state = settled[m].state
<1> DEFINE js == [job EXCEPT ![j] = k]
<1>1. /\ js \in [Jobs -> JobRows]
      /\ js[j] = k /\ \A m \in Jobs \ {j} : js[m] = job[m]
  BY DEF TypeOK
<1>2. \A m \in Jobs : Needs[m] \subseteq Jobs
  BY JobsAssumption
<1>3. Derived(run, js, settled, {j}) /\ FullyResolved(js, settled)
  OBVIOUS
<1>4. Moved(j, k)
  BY DEF Moved, JobActive
<1>5. \A m \in Jobs : js[m].state \notin {"Blocked", "Skipped", "Canceled"} =>
                        \A d \in Needs[m] : js[d].state = "Succeeded"
  BY <1>4, MovedNeeds DEF JobsInv
<1> HIDE DEF js
\* Neither the old nor the new state of the job settles a dependent.
<1>6. \A m \in Jobs :
        /\ js[m].state \in JobTerminal => js[m].state = job[m].state
        /\ job[m].state \in JobTerminal => js[m].state = job[m].state
        /\ js[m].state = "Blocked" => job[m].state = "Blocked"
  BY <1>1 DEF JobActive, JobTerminal
<1>7. Standing(js)
  <2> SUFFICES ASSUME NEW m \in Jobs
               PROVE  /\ js[m].state = "Blocked" => ResolvedState(js, m) = "Blocked"
                      /\ run.cancel => js[m].state \notin {"Blocked", "Queued"}
                      /\ js[m].state = "Canceled" => run.cancel
    BY DEF Standing
  <2>1. ASSUME js[m].state = "Blocked" PROVE ResolvedState(js, m) = "Blocked"
    <3>1. job[m].state = "Blocked"
      BY <1>6, <2>1
    <3>2. ResolvedState(job, m) = "Blocked"
      BY <3>1 DEF JobsInv, JobsSettled
    <3>3. \A d \in Needs[m] :
            /\ js[d].state \in JobTerminal \ {"Succeeded"} <=>
                 job[d].state \in JobTerminal \ {"Succeeded"}
            /\ js[d].state = "Succeeded" <=> job[d].state = "Succeeded"
      BY <1>2, <1>6 DEF JobTerminal
    <3> QED
      BY <3>2, <3>3 DEF ResolvedState
  <2>2. run.cancel => js[m].state \notin {"Blocked", "Queued"}
    BY <1>1 DEF JobsInv, JobsSettled, JobActive
  <2>3. js[m].state = "Canceled" => run.cancel
    BY <1>1 DEF JobsInv, CanceledKnown, JobActive
  <2> QED
    BY <2>1, <2>2, <2>3
<1>8. \A m \in Jobs : settled[m].state = js[m].state
  BY <1>1, <1>3, <1>7, ReconcilingTwice
<1>9. job' \in [Jobs -> JobRows] /\ \A m \in Jobs : job'[m].state = js[m].state
  BY <1>1, <1>3, <1>8 DEF Derived, TypeOK
<1>10. JobsSettled'
  <2>1. \A m \in Jobs : ResolvedState(js, m) = ResolvedState(job', m)
    BY <1>2, <1>9 DEF ResolvedState
  <2>2. \A m \in Jobs : run'.cancel => js[m].state \notin {"Blocked", "Queued"}
    BY <1>3, <1>8 DEF Derived
  <2> QED
    BY <1>7, <1>9, <2>1, <2>2 DEF JobsSettled, Standing, ResolvedState
<1>11. CanceledKnown' /\ EndedTogether'
  BY <1>3, <1>8, <1>9 DEF CanceledKnown, EndedTogether, Derived
<1>12. NeedsSucceeded'
  BY <1>2, <1>5, <1>9 DEF NeedsSucceeded
<1> QED
  BY <1>8, <1>9, <1>10, <1>11, <1>12 DEF JobsInv

-----------------------------------------------------------------------------
(* A job and its attempts                                                   *)

\* AttemptJobAgreement of one job row with the attempts of that job.
RowAgreement(k, as) ==
  /\ k.state \in JobActive <=> k.current # NoNumber
  /\ \A n \in Numbers :
       /\ as[n].state = "Absent" <=> n > k.last
       /\ as[n].state \in AttemptActive <=> k.current = n
       /\ k.current = n => k.last = n /\ k.state = as[n].state

LEMMA AgreementByRow ==
  /\ AttemptJobAgreement <=> \A j \in Jobs : RowAgreement(job[j], attempt[j])
  /\ AttemptJobAgreement' <=> \A j \in Jobs : RowAgreement(job'[j], attempt'[j])
  BY DEF AttemptJobAgreement, RowAgreement

\* Reconciliation moves no job that an attempt is executing.
LEMMA ReconciledAgreement ==
  ASSUME NEW k, NEW l, NEW as, RowAgreement(k, as), Reconciled(k, l)
  PROVE  RowAgreement(l, as)
<1>1. l.state \in JobActive <=> k.state \in JobActive
  BY DEF Reconciled, JobActive
<1>2. k.current # NoNumber => l.state = k.state
  BY DEF RowAgreement, Reconciled, JobActive
<1>3. \A n \in Numbers : k.current = n => k.current # NoNumber
  BY DEF Numbers, NoNumber
<1> QED
  BY <1>1, <1>2, <1>3 DEF RowAgreement, Reconciled

\* A transaction whose own job and attempts agree before it reconciles leaves
\* all of them in agreement, whether it saves one job or all.
LEMMA DerivedAgreement ==
  ASSUME TypeOK, AttemptJobAgreement, NEW j \in Jobs, NEW k \in JobRows, NEW settled,
         \/ Derived(run, [job EXCEPT ![j] = k], settled, Jobs)
         \/ Derived(run, [job EXCEPT ![j] = k], settled, {j}),
         RowAgreement(k, attempt'[j]),
         \A m \in Jobs \ {j} : attempt'[m] = attempt[m]
  PROVE  AttemptJobAgreement'
<1> DEFINE js == [job EXCEPT ![j] = k]
<1>1. js[j] = k /\ \A m \in Jobs \ {j} : js[m] = job[m]
  BY DEF TypeOK
<1>2. /\ \A m \in Jobs : Reconciled(js[m], settled[m])
      /\ job'[j] = settled[j]
      /\ \A m \in Jobs \ {j} : job'[m] = settled[m] \/ job'[m] = job[m]
  BY DEF Derived
<1> HIDE DEF js
<1>3. RowAgreement(job'[j], attempt'[j])
  BY <1>1, <1>2, ReconciledAgreement
<1>4. ASSUME NEW m \in Jobs \ {j} PROVE RowAgreement(job'[m], attempt'[m])
  <2>1. RowAgreement(job[m], attempt'[m])
    BY AgreementByRow
  <2>2. Reconciled(job[m], settled[m])
    BY <1>1, <1>2
  <2>3. RowAgreement(settled[m], attempt'[m])
    BY <2>1, <2>2, ReconciledAgreement
  <2> QED
    BY <1>2, <2>1, <2>3
<1> QED
  BY <1>3, <1>4, AgreementByRow

\* What SaveAttempt does to the attempts.
LEMMA SavedAttempt ==
  ASSUME TypeOK, NEW j \in Jobs, NEW n \in Numbers, NEW a,
         attempt' = [attempt EXCEPT ![j] = [@ EXCEPT ![n] = a]]
  PROVE  /\ attempt'[j][n] = a
         /\ \A m \in Numbers \ {n} : attempt'[j][m] = attempt[j][m]
         /\ \A i \in Jobs \ {j} : attempt'[i] = attempt[i]
  BY DEF TypeOK

-----------------------------------------------------------------------------
(* One argument per kind of transaction                                     *)

LEMMA ReplaysInv ==
  ASSUME StoreInv, NEW j \in Jobs, NEW n \in Numbers, Replays(j, n)
  PROVE  AttemptJobAgreement' /\ JobsInv' /\ attempt' = attempt
<1>1. TypeOK /\ job[j] \in JobRows /\ attempt[j][n] \in AttemptRows
  BY DEF StoreInv, TypeOK
<1>2. PICK settled :
        /\ FullyResolved([job EXCEPT ![j] = job[j]], settled)
        /\ \/ Derived(run, [job EXCEPT ![j] = job[j]], settled, Jobs)
           \/ Derived(run, [job EXCEPT ![j] = job[j]], settled, {j})
  <2>1. CASE MutateAttempt(j, n, job[j], attempt[j][n])
    BY <1>1, <2>1, MutateAttemptEffect
  <2>2. CASE MutateActiveAttempt(j, n, job[j], attempt[j][n])
    BY <1>1, <2>2, MutateActiveAttemptEffect
  <2> QED
    BY <2>1, <2>2 DEF Replays
<1>3. attempt' = attempt
  BY <1>1 DEF TypeOK, Replays, MutateAttempt, MutateActiveAttempt, SaveAttempt
<1>4. JobsInv'
  <2>1. CASE Derived(run, [job EXCEPT ![j] = job[j]], settled, Jobs)
    BY <1>1, <1>2, <2>1, AllSaved DEF StoreInv, Moved
  <2>2. CASE Derived(run, [job EXCEPT ![j] = job[j]], settled, {j})
    BY <1>1, <1>2, <2>2, OwnSaved DEF StoreInv, JobsInv
  <2> QED
    BY <1>2, <2>1, <2>2
<1>5. RowAgreement(job[j], attempt'[j])
  BY <1>3, AgreementByRow DEF StoreInv
<1>6. AttemptJobAgreement'
  BY <1>1, <1>2, <1>3, <1>5, DerivedAgreement DEF StoreInv
<1> QED
  BY <1>3, <1>4, <1>6

LEMMA RenewsInv ==
  ASSUME StoreInv, NEW j \in Jobs, NEW n \in Numbers, Renews(j, n)
  PROVE  AttemptJobAgreement' /\ JobsInv'
<1>1. PICK a \in AttemptRows :
        /\ a.state = attempt[j][n].state
        /\ attempt' = [attempt EXCEPT ![j] = [@ EXCEPT ![n] = a]]
        /\ UNCHANGED <<run, job>>
  BY DEF Renews, SaveAttempt
<1>2. \A i \in Jobs, m \in Numbers : attempt'[i][m].state = attempt[i][m].state
  BY <1>1, SavedAttempt DEF StoreInv
<1>3. AttemptJobAgreement'
  BY <1>1, <1>2 DEF StoreInv, AttemptJobAgreement
<1>4. JobsInv'
  BY <1>1 DEF StoreInv, JobsInv, JobsSettled, ResolvedState, CanceledKnown, EndedTogether,
              NeedsSucceeded
<1> QED
  BY <1>3, <1>4

LEMMA AdvancesInv ==
  ASSUME StoreInv, NEW j \in Jobs, NEW n \in Numbers, Advances(j, n)
  PROVE  AttemptJobAgreement' /\ JobsInv'
<1>1. PICK k \in JobRows, a \in AttemptRows :
        /\ attempt[j][n].state \in AttemptActive /\ a.state \in AttemptActive
        /\ CurrentAttempt(j, n) /\ JobAlignment(j, n)
        /\ k.state = a.state /\ k.last = n /\ k.current = n
        /\ MutateActiveAttempt(j, n, k, a)
  BY DEF Advances
<1>2. TypeOK
  BY DEF StoreInv
<1>0. attempt' = [attempt EXCEPT ![j] = [@ EXCEPT ![n] = a]]
  BY <1>1 DEF MutateActiveAttempt, SaveAttempt
<1>3. PICK settled :
        /\ FullyResolved([job EXCEPT ![j] = k], settled)
        /\ Derived(run, [job EXCEPT ![j] = k], settled, {j})
  BY <1>1, <1>2, MutateActiveAttemptEffect
<1>4. job[j].state \in JobActive /\ k.state \in JobActive
  BY <1>1 DEF JobAlignment, AttemptActive, JobActive
<1>5. JobsInv'
  BY <1>2, <1>3, <1>4, OwnSaved DEF StoreInv, JobsInv
<1>6. RowAgreement(k, attempt'[j])
  <2>1. RowAgreement(job[j], attempt[j])
    BY AgreementByRow DEF StoreInv
  <2>2. job[j].last = n /\ job[j].current = n /\ n # NoNumber
    BY <1>1 DEF CurrentAttempt, LatestAttempt, Numbers, NoNumber
  <2>3. attempt'[j][n] = a /\ \A m \in Numbers \ {n} : attempt'[j][m] = attempt[j][m]
    BY <1>0, <1>2 DEF TypeOK
  <2>4. a.state # "Absent" /\ attempt[j][n].state # "Absent"
    BY <1>1 DEF AttemptActive
  <2> QED
    BY <1>1, <1>4, <2>1, <2>2, <2>3, <2>4 DEF RowAgreement
<1>7. AttemptJobAgreement'
  BY <1>0, <1>2, <1>3, <1>6, SavedAttempt, DerivedAgreement DEF StoreInv
<1> QED
  BY <1>5, <1>7

LEMMA EndsInv ==
  ASSUME StoreInv, NEW j \in Jobs, NEW n \in Numbers, Ends(j, n)
  PROVE  AttemptJobAgreement' /\ JobsInv'
<1>1. PICK k \in JobRows, a \in AttemptRows :
        /\ attempt[j][n].state \in AttemptActive /\ a.state \in AttemptTerminal
        /\ CurrentAttempt(j, n)
        /\ k.last = n /\ k.current = NoNumber
        /\ k.state \in {"Queued", "Succeeded", "Failed", "Canceled", "Lost"}
        /\ MutateAttempt(j, n, k, a)
  BY DEF Ends
<1>2. TypeOK
  BY DEF StoreInv
<1>0. attempt' = [attempt EXCEPT ![j] = [@ EXCEPT ![n] = a]]
  BY <1>1 DEF MutateAttempt, SaveAttempt
<1>3. PICK settled :
        /\ FullyResolved([job EXCEPT ![j] = k], settled)
        /\ Derived(run, [job EXCEPT ![j] = k], settled, Jobs)
  BY <1>1, <1>2, MutateAttemptEffect
<1>4. RowAgreement(job[j], attempt[j])
  BY AgreementByRow DEF StoreInv
<1>5. job[j].last = n /\ job[j].current = n /\ n # NoNumber
  BY <1>1 DEF CurrentAttempt, LatestAttempt, Numbers, NoNumber
<1>6. job[j].state \in JobActive
  BY <1>4, <1>5 DEF RowAgreement
<1>7. JobsInv'
  <2>1. Moved(j, k)
    BY <1>1, <1>6 DEF Moved
  <2> QED
    BY <1>2, <1>3, <2>1, AllSaved DEF StoreInv
<1>8. RowAgreement(k, attempt'[j])
  <2>1. attempt'[j][n] = a /\ \A m \in Numbers \ {n} : attempt'[j][m] = attempt[j][m]
    BY <1>0, <1>2 DEF TypeOK
  <2>2. a.state # "Absent" /\ a.state \notin AttemptActive /\ attempt[j][n].state # "Absent"
    BY <1>1 DEF AttemptActive, AttemptTerminal
  <2>3. k.state \notin JobActive
    BY <1>1 DEF JobActive
  <2>4. \A m \in Numbers : m # NoNumber
    BY DEF Numbers, NoNumber
  <2> QED
    BY <1>1, <1>4, <1>5, <2>1, <2>2, <2>3, <2>4 DEF RowAgreement
<1>9. AttemptJobAgreement'
  BY <1>0, <1>2, <1>3, <1>8, SavedAttempt, DerivedAgreement DEF StoreInv
<1> QED
  BY <1>7, <1>9

LEMMA InsertsInv ==
  ASSUME StoreInv, NEW j \in Jobs, Inserts(j)
  PROVE  AttemptJobAgreement' /\ JobsInv'
<1> DEFINE n == job[j].last + 1
<1>1. PICK k \in JobRows, a \in AttemptRows, now \in Nat :
        /\ job[j].state = "Queued" /\ job[j].current = NoNumber
        /\ n \in Numbers
        /\ k.state = "Dispatching" /\ k.last = n /\ k.current = n
        /\ a.state = "Dispatching"
        /\ attempt' = [attempt EXCEPT ![j] = [@ EXCEPT ![n] = a]]
        /\ ReconcileRun([job EXCEPT ![j] = k], now, {j})
  BY DEF Inserts, SaveAttempt
<1>2. TypeOK /\ run \in RunRows /\ [job EXCEPT ![j] = k] \in [Jobs -> JobRows]
  BY DEF StoreInv, TypeOK
<1>3. PICK settled : /\ Derived(run, [job EXCEPT ![j] = k], settled, {j})
                     /\ FullyResolved([job EXCEPT ![j] = k], settled)
  BY <1>1, <1>2, ReconcileRunDerived
<1>4. JobsInv'
  BY <1>1, <1>2, <1>3, OwnSaved DEF StoreInv, JobsInv, JobActive
<1>5. RowAgreement(k, attempt'[j])
  <2>1. RowAgreement(job[j], attempt[j])
    BY AgreementByRow DEF StoreInv
  <2>2. attempt'[j][n] = a /\ \A m \in Numbers \ {n} : attempt'[j][m] = attempt[j][m]
    BY <1>1, <1>2 DEF TypeOK
  <2>3. job[j].last \in Nat /\ \A m \in Numbers : m \in Nat \ {0}
    BY <1>2, BoundsAssumption DEF TypeOK, JobRows, Numbers
  <2>4. \A m \in Numbers \ {n} : m > n <=> m > job[j].last
    BY <2>3
  <2>5. \A m \in Numbers : attempt[j][m].state \notin AttemptActive
    BY <1>1, <2>1, <2>3 DEF RowAgreement, NoNumber
  <2> HIDE DEF n
  <2>6. ~ (n > n) /\ n # NoNumber
    BY <1>1, <2>3 DEF NoNumber
  <2> QED
    BY <1>1, <2>1, <2>2, <2>4, <2>5, <2>6 DEF RowAgreement, JobActive, AttemptActive
<1>6. AttemptJobAgreement'
  BY <1>1, <1>2, <1>3, <1>5, SavedAttempt, DerivedAgreement DEF StoreInv
<1> QED
  BY <1>4, <1>6

LEMMA GivesUpInv ==
  ASSUME StoreInv, NEW j \in Jobs, GivesUp(j)
  PROVE  AttemptJobAgreement' /\ JobsInv'
<1>1. PICK k \in JobRows, now \in Nat :
        /\ job[j].state = "Queued"
        /\ k.state = "Failed" /\ k.last = job[j].last /\ k.current = job[j].current
        /\ ReconcileRun([job EXCEPT ![j] = k], now, Jobs)
        /\ attempt' = attempt
  BY DEF GivesUp
<1>2. TypeOK /\ run \in RunRows /\ [job EXCEPT ![j] = k] \in [Jobs -> JobRows]
  BY DEF StoreInv, TypeOK
<1>3. PICK settled : /\ Derived(run, [job EXCEPT ![j] = k], settled, Jobs)
                     /\ FullyResolved([job EXCEPT ![j] = k], settled)
  BY <1>1, <1>2, ReconcileRunDerived
<1>4. JobsInv'
  <2>1. Moved(j, k)
    BY <1>1 DEF Moved
  <2> QED
    BY <1>2, <1>3, <2>1, AllSaved DEF StoreInv
<1>5. RowAgreement(k, attempt'[j])
  <2>1. RowAgreement(job[j], attempt[j])
    BY AgreementByRow DEF StoreInv
  <2>2. \A n \in Numbers : n # NoNumber
    BY DEF Numbers, NoNumber
  <2> QED
    BY <1>1, <2>1, <2>2 DEF RowAgreement, JobActive
<1>6. AttemptJobAgreement'
  BY <1>1, <1>2, <1>3, <1>5, DerivedAgreement DEF StoreInv
<1> QED
  BY <1>4, <1>6

\* A cancellation touches no attempt, and of the jobs only undispatched ones.
LEMMA CancellationInv ==
  ASSUME StoreInv, NEW now \in Now, RequestCancellation(now)
  PROVE  AttemptJobAgreement' /\ JobsInv'
<1>1. TypeOK
  BY DEF StoreInv
<1>2. PICK r \in RunRows : \E settled : /\ Derived(r, job, settled, Jobs)
                                        /\ settled = job \/ TakenAlong(job, settled)
  BY <1>1, CancellationEffect
<1>3. PICK settled : /\ Derived(r, job, settled, Jobs)
                     /\ settled = job \/ TakenAlong(job, settled)
  BY <1>2
<1>4. /\ settled \in [Jobs -> JobRows] /\ job' = settled /\ attempt' = attempt
      /\ \A j \in Jobs : Reconciled(job[j], settled[j])
  BY <1>3 DEF Derived, RequestCancellation
<1>5. AttemptJobAgreement'
  <2>1. ASSUME NEW j \in Jobs PROVE RowAgreement(job'[j], attempt'[j])
    <3>1. RowAgreement(job[j], attempt[j])
      BY AgreementByRow DEF StoreInv
    <3> QED
      BY <1>4, <3>1, ReconciledAgreement
  <2> QED
    BY <2>1, AgreementByRow
<1>6. JobsSettled'
  <2>1. \A j \in Jobs : job'[j].state = "Blocked" => ResolvedState(job', j) = "Blocked"
    BY <1>3, <1>4 DEF StoreInv, JobsSettled, TakenAlong
  <2>2. \A j \in Jobs : run'.cancel => job'[j].state \notin {"Blocked", "Queued"}
    BY <1>3, <1>4 DEF Derived
  <2> QED
    BY <2>1, <2>2 DEF JobsSettled, ResolvedState
<1>7. CanceledKnown' /\ EndedTogether'
  BY <1>3, <1>4 DEF CanceledKnown, EndedTogether, Derived
<1>8. NeedsSucceeded'
  <2>1. CASE settled = job
    BY <1>4, <2>1 DEF StoreInv, NeedsSucceeded
  <2>2. CASE TakenAlong(job, settled)
    <3>1. ASSUME NEW j \in Jobs, settled[j].state \notin {"Blocked", "Skipped", "Canceled"},
                 NEW d \in Needs[j]
          PROVE  settled[d].state = "Succeeded"
      <4>1. d \in Jobs
        BY JobsAssumption
      <4>2. settled[j].state = job[j].state
        BY <2>2, <3>1 DEF TakenAlong
      <4>3. job[d].state = "Succeeded"
        BY <3>1, <4>2 DEF StoreInv, NeedsSucceeded
      <4> QED
        BY <1>4, <4>1, <4>3 DEF Reconciled
    <3> QED
      BY <1>4, <3>1 DEF NeedsSucceeded
  <2> QED
    BY <1>3, <2>1, <2>2
<1> QED
  BY <1>5, <1>6, <1>7, <1>8 DEF JobsInv

\* A retry finds every job at rest, so no attempt is left executing.
LEMMA RetryInv ==
  ASSUME StoreInv, NEW now \in Now, RetryRun(now)
  PROVE  AttemptJobAgreement' /\ JobsInv'
<1>1. /\ job \in [Jobs -> JobRows] /\ attempt' = attempt
      /\ \A j \in Jobs : job[j].state \in JobTerminal
  BY DEF StoreInv, TypeOK, RetryRun, EndedTogether
<1>2. \A j \in Jobs : /\ job'[j].state = InitialJobState(j)
                      /\ job'[j].last = job[j].last /\ job'[j].current = NoNumber
  BY <1>1 DEF RetryRun, JobRows
<1>3. run'.state = "Queued" /\ run'.cancel = FALSE
  BY DEF RetryRun
<1>4. ASSUME NEW j \in Jobs PROVE RowAgreement(job'[j], attempt'[j])
  <2>1. RowAgreement(job[j], attempt[j])
    BY AgreementByRow DEF StoreInv
  <2>2. job[j].current = NoNumber
    BY <1>1, <2>1 DEF RowAgreement, JobActive, JobTerminal
  <2>3. job'[j].state \notin JobActive
    BY <1>2 DEF InitialJobState, JobActive
  <2>4. \A n \in Numbers : n # NoNumber
    BY DEF Numbers, NoNumber
  <2> QED
    BY <1>1, <1>2, <2>1, <2>2, <2>3, <2>4 DEF RowAgreement
<1>5. \A j \in Jobs : job'[j].state \in {"Blocked", "Queued"}
  BY <1>2 DEF InitialJobState
<1>6. JobsSettled'
  <2>1. ASSUME NEW j \in Jobs, job'[j].state = "Blocked"
        PROVE  ResolvedState(job', j) = "Blocked"
    <3>1. Needs[j] # {} /\ Needs[j] \subseteq Jobs
      BY <1>2, <2>1, JobsAssumption DEF InitialJobState
    <3>2. \A d \in Needs[j] : job'[d].state \notin JobTerminal
      BY <1>5, <3>1 DEF JobTerminal
    <3>3. "Succeeded" \in JobTerminal
      BY DEF JobTerminal
    <3> QED
      BY <3>1, <3>2, <3>3 DEF ResolvedState
  <2> QED
    BY <1>3, <2>1 DEF JobsSettled, ResolvedState
<1>7. CanceledKnown' /\ EndedTogether'
  BY <1>3, <1>5 DEF CanceledKnown, EndedTogether, RunTerminal
<1>8. NeedsSucceeded'
  BY <1>2 DEF NeedsSucceeded, InitialJobState
<1> QED
  BY <1>4, <1>6, <1>7, <1>8, AgreementByRow DEF JobsInv

-----------------------------------------------------------------------------
(* The invariants                                                           *)

LEMMA InitInv == Init => StoreInv
<1> SUFFICES ASSUME Init PROVE StoreInv
  OBVIOUS
<1>1. TypeOK
  BY InitType
<1>2. \A j \in Jobs : /\ job[j].state = InitialJobState(j)
                      /\ job[j].last = 0 /\ job[j].current = NoNumber
  BY DEF Init
<1>3. run.state = "Queued" /\ run.cancel = FALSE
  BY DEF Init
<1>4. \A j \in Jobs : job[j].state \in {"Blocked", "Queued"}
  BY <1>2 DEF InitialJobState
<1>5. AttemptJobAgreement
  <2>1. \A j \in Jobs, n \in Numbers : attempt[j][n].state = "Absent"
    BY NoAttemptType DEF Init
  <2>2. \A n \in Numbers : n > 0 /\ n # NoNumber
    BY BoundsAssumption DEF Numbers, NoNumber
  <2>3. \A j \in Jobs : job[j].state \notin JobActive
    BY <1>4 DEF JobActive
  <2> QED
    BY <1>2, <2>1, <2>2, <2>3 DEF AttemptJobAgreement, AttemptActive
<1>6. JobsSettled
  <2>1. ASSUME NEW j \in Jobs, job[j].state = "Blocked"
        PROVE  ResolvedState(job, j) = "Blocked"
    <3>1. Needs[j] # {} /\ Needs[j] \subseteq Jobs
      BY <1>2, <2>1, JobsAssumption DEF InitialJobState
    <3>2. \A d \in Needs[j] : job[d].state \notin JobTerminal
      BY <1>4, <3>1 DEF JobTerminal
    <3>3. "Succeeded" \in JobTerminal
      BY DEF JobTerminal
    <3> QED
      BY <3>1, <3>2, <3>3 DEF ResolvedState
  <2> QED
    BY <1>3, <2>1 DEF JobsSettled
<1>7. CanceledKnown /\ EndedTogether
  BY <1>3, <1>4 DEF CanceledKnown, EndedTogether, RunTerminal
<1>8. NeedsSucceeded
  BY <1>2 DEF NeedsSucceeded, InitialJobState
<1> QED
  BY <1>1, <1>5, <1>6, <1>7, <1>8 DEF StoreInv

LEMMA NextInv == StoreInv /\ [LateNext]_vars => StoreInv'
<1> SUFFICES ASSUME StoreInv, [LateNext]_vars PROVE StoreInv'
  OBVIOUS
<1>1. TypeOK /\ TypeOK'
  BY NextType DEF StoreInv
<1> SUFFICES AttemptJobAgreement' /\ JobsInv'
  BY <1>1 DEF StoreInv, JobsInv
<1>2. ASSUME UNCHANGED <<run, job, attempt>> PROVE AttemptJobAgreement' /\ JobsInv'
  BY <1>2 DEF StoreInv, JobsInv, AttemptJobAgreement, JobsSettled, ResolvedState,
              CanceledKnown, EndedTogether, NeedsSucceeded
<1>3. CASE UNCHANGED vars
  BY <1>2, <1>3 DEF vars
<1>4. CASE Tick
  BY <1>2, <1>4 DEF Tick
<1>5. ASSUME NEW now \in Now, RequestCancellation(now) PROVE AttemptJobAgreement' /\ JobsInv'
  BY <1>5, CancellationInv
<1>6. ASSUME NEW now \in Now, RetryRun(now) PROVE AttemptJobAgreement' /\ JobsInv'
  BY <1>6, RetryInv
<1>7. ASSUME NEW now \in Now, NEW j \in Jobs, Dispatch(j, now)
      PROVE  AttemptJobAgreement' /\ JobsInv'
  BY <1>1, <1>7, DispatchKind, InsertsInv
<1>8. ASSUME NEW now \in Now, NEW j \in Jobs, ExpireCapacityRetry(j, now)
      PROVE  AttemptJobAgreement' /\ JobsInv'
  BY <1>1, <1>8, ExpireCapacityRetryKind, GivesUpInv
<1>9. ASSUME NEW now \in Nat \ {0}, NEW j \in Jobs, NEW n \in Numbers, AttemptAction(j, n, now)
      PROVE  AttemptJobAgreement' /\ JobsInv'
  <2>1. Replays(j, n) \/ Renews(j, n) \/ Advances(j, n) \/ Ends(j, n)
    BY <1>1, <1>9, AttemptKinds
  <2> QED
    BY <2>1, ReplaysInv, RenewsInv, AdvancesInv, EndsInv
<1> QED
  BY <1>3, <1>4, <1>5, <1>6, <1>7, <1>8, <1>9 DEF LateNext, JobAction

LEMMA StoreInvariant ==
  /\ Spec => []StoreInv
  /\ LateSpec => []StoreInv
<1>1. Init => StoreInv
  BY InitInv
<1>2. StoreInv /\ [LateNext]_vars => StoreInv'
  BY NextInv
<1>3. StoreInv /\ [Next]_vars => StoreInv'
  BY NextInv, NextIsLate DEF StoreInv
<1> QED
  BY <1>1, <1>2, <1>3, PTL DEF Spec, LateSpec

\* However leases expire, reports repeat and users cancel or retry, a job and its
\* attempts agree about who is executing (RunJob and RunAttempt in scope-domain).
THEOREM Agreement == Spec => []AttemptJobAgreement
<1>1. StoreInv => AttemptJobAgreement
  BY DEF StoreInv
<1> QED
  BY <1>1, StoreInvariant, PTL

\* In every acyclic workflow the stored jobs are settled after every transaction,
\* so mutate_active_attempt and dispatch may save one job and still derive the run
\* from all of them.
THEOREM Settled == Spec => []JobsSettled
<1>1. StoreInv => JobsSettled
  BY DEF StoreInv
<1> QED
  BY <1>1, StoreInvariant, PTL

\* In every acyclic workflow a job is dispatched, runs and ends only while all the
\* jobs it needs are Succeeded (reconcile_run in job.rs).
THEOREM NeedsBeforeDependents == Spec => []NeedsSucceeded
<1>1. StoreInv => NeedsSucceeded
  BY DEF StoreInv
<1> QED
  BY <1>1, StoreInvariant, PTL

-----------------------------------------------------------------------------
(* Finished attempts                                                        *)

LEMMA NextFrozen ==
  ASSUME StoreInv, [LateNext]_vars, NEW i \in Jobs, NEW m \in Numbers,
         attempt[i][m].state \in AttemptTerminal
  PROVE  attempt'[i][m] = attempt[i][m]
<1>1. TypeOK
  BY DEF StoreInv
<1>2. ASSUME NEW j \in Jobs, NEW n \in Numbers, NEW a,
             attempt' = [attempt EXCEPT ![j] = [@ EXCEPT ![n] = a]],
             attempt[j][n].state \notin AttemptTerminal
      PROVE  attempt'[i][m] = attempt[i][m]
  BY <1>1, <1>2 DEF TypeOK
<1>3. CASE UNCHANGED vars
  BY <1>3 DEF vars
<1>4. CASE Tick
  BY <1>4 DEF Tick
<1>5. ASSUME NEW now \in Now, RequestCancellation(now) \/ RetryRun(now)
      PROVE  attempt'[i][m] = attempt[i][m]
  BY <1>5 DEF RequestCancellation, RetryRun
<1>6. ASSUME NEW now \in Now, NEW j \in Jobs, Dispatch(j, now)
      PROVE  attempt'[i][m] = attempt[i][m]
  <2> DEFINE n == job[j].last + 1
  <2>1. PICK a : n \in Numbers /\ attempt' = [attempt EXCEPT ![j] = [@ EXCEPT ![n] = a]]
    BY <1>1, <1>6, DispatchKind DEF Inserts, SaveAttempt
  <2>2. job[j].last \in Nat
    BY <1>1 DEF TypeOK, JobRows
  <2>3. n > job[j].last
    BY <2>2
  <2>4. attempt[j][n].state = "Absent"
    BY <2>1, <2>3 DEF StoreInv, AttemptJobAgreement
  <2>5. attempt[j][n].state \notin AttemptTerminal
    BY <2>4 DEF AttemptTerminal
  <2> HIDE DEF n
  <2> QED
    BY <1>2, <2>1, <2>5
<1>7. ASSUME NEW now \in Now, NEW j \in Jobs, ExpireCapacityRetry(j, now)
      PROVE  attempt'[i][m] = attempt[i][m]
  BY <1>1, <1>7, ExpireCapacityRetryKind DEF GivesUp
<1>8. ASSUME NEW now \in Nat \ {0}, NEW j \in Jobs, NEW n \in Numbers, AttemptAction(j, n, now)
      PROVE  attempt'[i][m] = attempt[i][m]
  <2>1. Replays(j, n) \/ Renews(j, n) \/ Advances(j, n) \/ Ends(j, n)
    BY <1>1, <1>8, AttemptKinds
  <2>2. CASE Replays(j, n)
    BY <2>2, ReplaysInv
  <2>3. CASE Renews(j, n) \/ Advances(j, n) \/ Ends(j, n)
    <3>1. attempt[j][n].state \in AttemptActive
      BY <2>3 DEF Renews, Advances, Ends
    <3>2. attempt[j][n].state \notin AttemptTerminal
      BY <3>1 DEF AttemptActive, AttemptTerminal
    <3>3. PICK a : attempt' = [attempt EXCEPT ![j] = [@ EXCEPT ![n] = a]]
      BY <2>3 DEF Renews, Advances, Ends, MutateAttempt, MutateActiveAttempt, SaveAttempt
    <3> QED
      BY <1>2, <3>2, <3>3
  <2> QED
    BY <2>1, <2>2, <2>3
<1> QED
  BY <1>3, <1>4, <1>5, <1>6, <1>7, <1>8 DEF LateNext, JobAction

\* No late, repeated or reordered report, no retry and no recovery ever rewrites an
\* attempt that has ended (RunAttempt::complete, reject_capacity, expire, abandon).
THEOREM AttemptHistory == Spec => FinishedAttemptsFrozen
<1>1. StoreInv /\ [Next]_vars =>
        [\A j \in Jobs, n \in Numbers :
           attempt[j][n].state \in AttemptTerminal => attempt'[j][n] = attempt[j][n]]_vars
  BY NextFrozen, NextIsLate DEF StoreInv
<1> QED
  BY <1>1, StoreInvariant, PTL DEF Spec, FinishedAttemptsFrozen

-----------------------------------------------------------------------------
(* The job and run tables after a transaction                               *)

\* A transaction has replaced the row of job j by k and reconciled: every stored
\* job has the state reconciliation settled, whether it was saved or not.
Rewrites(j, k, t) ==
  LET js == [job EXCEPT ![j] = k] IN
  \E settled \in [Jobs -> JobRows] :
    /\ FullyResolved(js, settled)
    /\ Reflects(run, js, settled, t)
    /\ run' \in RunRows
    /\ \A m \in Jobs :
         /\ Reconciled(js[m], settled[m])
         /\ job'[m].state = settled[m].state
         /\ job'[m] = settled[m] \/ (m # j /\ job'[m] = job[m])

LEMMA DerivedRewrites ==
  ASSUME StoreInv, NEW j \in Jobs, NEW k \in JobRows, NEW settled, NEW t \in Nat,
         FullyResolved([job EXCEPT ![j] = k], settled),
         Reflects(run, [job EXCEPT ![j] = k], settled, t),
         \/ Derived(run, [job EXCEPT ![j] = k], settled, Jobs)
         \/ /\ Derived(run, [job EXCEPT ![j] = k], settled, {j})
            /\ \/ k.state = job[j].state
               \/ job[j].state \in {"Queued"} \cup JobActive /\ k.state \in JobActive
  PROVE  Rewrites(j, k, t)
<1> DEFINE js == [job EXCEPT ![j] = k]
<1>1. /\ settled \in [Jobs -> JobRows] /\ run' \in RunRows
      /\ \A m \in Jobs : Reconciled(js[m], settled[m])
  BY DEF Derived
<1>2. CASE Derived(run, js, settled, Jobs)
  <2>1. \A m \in Jobs : job'[m] = settled[m]
    BY <1>2 DEF Derived
  <2> QED
    BY <1>1, <2>1 DEF Rewrites
<1>3. CASE /\ Derived(run, js, settled, {j})
           /\ \/ k.state = job[j].state
              \/ job[j].state \in {"Queued"} \cup JobActive /\ k.state \in JobActive
  <2>1. \A m \in Jobs : job'[m] = settled[m] \/ (m # j /\ job'[m] = job[m])
    BY <1>3 DEF Derived
  <2>2. \A m \in Jobs : job'[m].state = settled[m].state
    BY <1>3, OwnSaved DEF StoreInv, JobsInv
  <2> QED
    BY <1>1, <2>1, <2>2 DEF Rewrites
<1> QED
  BY <1>2, <1>3

\* A repeated report rewrites nothing but the stamps.
LEMMA ReplaysRewrites ==
  ASSUME StoreInv, NEW j \in Jobs, NEW n \in Numbers, Replays(j, n)
  PROVE  /\ attempt' = attempt
         /\ \E t \in Nat : /\ Rewrites(j, job[j], t)
                           /\ t = job[j].updated \/ t = attempt[j][n].completed
<1>1. TypeOK /\ job[j] \in JobRows /\ attempt[j][n] \in AttemptRows
  BY DEF StoreInv, TypeOK
<1> DEFINE a == attempt[j][n]
           t == IF a.completed # NoTime THEN a.completed ELSE job[j].updated
<1>2. t \in Nat /\ job[j].updated \in Nat /\ (t = job[j].updated \/ t = a.completed)
  BY <1>1 DEF JobRows, AttemptRows
<1>3. CASE MutateAttempt(j, n, job[j], a)
  <2>1. PICK settled : /\ Derived(run, [job EXCEPT ![j] = job[j]], settled, Jobs)
                       /\ FullyResolved([job EXCEPT ![j] = job[j]], settled)
                       /\ Reflects(run, [job EXCEPT ![j] = job[j]], settled, t)
    BY <1>1, <1>3, MutateAttemptEffect
  <2>2. Rewrites(j, job[j], t)
    BY <1>1, <1>2, <2>1, DerivedRewrites
  <2> QED
    BY <1>2, <2>2, ReplaysInv
<1>4. CASE MutateActiveAttempt(j, n, job[j], a)
  <2>1. PICK settled : /\ Derived(run, [job EXCEPT ![j] = job[j]], settled, {j})
                       /\ FullyResolved([job EXCEPT ![j] = job[j]], settled)
                       /\ Reflects(run, [job EXCEPT ![j] = job[j]], settled, job[j].updated)
    BY <1>1, <1>4, MutateActiveAttemptEffect
  <2>2. Rewrites(j, job[j], job[j].updated)
    BY <1>1, <1>2, <2>1, DerivedRewrites
  <2> QED
    BY <1>2, <2>2, ReplaysInv
<1> QED
  BY <1>3, <1>4 DEF Replays

LEMMA AdvancesRewrites ==
  ASSUME StoreInv, NEW j \in Jobs, NEW n \in Numbers, Advances(j, n)
  PROVE  \E k \in JobRows, a \in AttemptRows, t \in Nat :
           /\ attempt[j][n].state \in AttemptActive /\ a.state \in AttemptActive
           /\ job[j].state \in JobActive /\ k.state \in JobActive /\ k.last = job[j].last
           /\ k.retry = job[j].retry /\ job[j].updated =< k.updated
           /\ Progress(attempt[j][n], a)
           /\ AttemptRowCheck(a)
           /\ attempt' = [attempt EXCEPT ![j] = [@ EXCEPT ![n] = a]]
           /\ Rewrites(j, k, t)
<1>1. PICK k \in JobRows, a \in AttemptRows :
        /\ attempt[j][n].state \in AttemptActive /\ a.state \in AttemptActive
        /\ CurrentAttempt(j, n) /\ JobAlignment(j, n)
        /\ k.state = a.state /\ k.last = n /\ k.current = n
        /\ k.retry = job[j].retry /\ job[j].updated =< k.updated
        /\ Progress(attempt[j][n], a)
        /\ MutateActiveAttempt(j, n, k, a)
  BY DEF Advances
<1>2. TypeOK /\ k.updated \in Nat
  BY DEF StoreInv, JobRows
<1>3. attempt' = [attempt EXCEPT ![j] = [@ EXCEPT ![n] = a]] /\ AttemptRowCheck(a)
  BY <1>1 DEF MutateActiveAttempt, SaveAttempt
<1>4. PICK settled : /\ Derived(run, [job EXCEPT ![j] = k], settled, {j})
                     /\ FullyResolved([job EXCEPT ![j] = k], settled)
                     /\ Reflects(run, [job EXCEPT ![j] = k], settled, k.updated)
  BY <1>1, <1>2, MutateActiveAttemptEffect
<1>5. job[j].state \in JobActive /\ k.state \in JobActive /\ k.last = job[j].last
  BY <1>1 DEF JobAlignment, LatestAttempt, AttemptActive, JobActive
<1>6. Rewrites(j, k, k.updated)
  BY <1>2, <1>4, <1>5, DerivedRewrites
<1> QED
  BY <1>1, <1>2, <1>3, <1>5, <1>6

LEMMA EndsRewrites ==
  ASSUME StoreInv, NEW j \in Jobs, NEW n \in Numbers, Ends(j, n)
  PROVE  \E k \in JobRows, a \in AttemptRows :
           /\ attempt[j][n].state \in AttemptActive /\ a.state \in AttemptTerminal
           /\ job[j].state \in JobActive /\ job[j].last = n /\ k.last = n
           /\ k.state \in {"Queued", "Succeeded", "Failed", "Canceled", "Lost"}
           /\ \/ k.retry = job[j].retry /\ job[j].updated =< k.updated
              \/ job[j].updated =< a.completed /\ k = CapacityRejected(job[j], a.completed)
           /\ a.completed # NoTime
           /\ a = Finished(attempt[j][n], a.state, a.reason, a.steps, a.completed)
           /\ Ending(n, attempt[j][n], k.state, a.state, a.reason, a.steps)
           /\ AttemptRowCheck(a)
           /\ attempt' = [attempt EXCEPT ![j] = [@ EXCEPT ![n] = a]]
           /\ Rewrites(j, k, a.completed)
<1>1. PICK k \in JobRows, a \in AttemptRows :
        /\ attempt[j][n].state \in AttemptActive /\ a.state \in AttemptTerminal
        /\ CurrentAttempt(j, n)
        /\ k.last = n /\ k.current = NoNumber
        /\ k.state \in {"Queued", "Succeeded", "Failed", "Canceled", "Lost"}
        /\ \/ k.retry = job[j].retry /\ job[j].updated =< k.updated
           \/ job[j].updated =< a.completed /\ k = CapacityRejected(job[j], a.completed)
        /\ a.completed # NoTime
        /\ a = Finished(attempt[j][n], a.state, a.reason, a.steps, a.completed)
        /\ Ending(n, attempt[j][n], k.state, a.state, a.reason, a.steps)
        /\ MutateAttempt(j, n, k, a)
  BY DEF Ends
<1>2. TypeOK /\ a.completed \in Nat
  BY DEF StoreInv, AttemptRows
<1>3. attempt' = [attempt EXCEPT ![j] = [@ EXCEPT ![n] = a]] /\ AttemptRowCheck(a)
  BY <1>1 DEF MutateAttempt, SaveAttempt
<1>4. PICK settled : /\ Derived(run, [job EXCEPT ![j] = k], settled, Jobs)
                     /\ FullyResolved([job EXCEPT ![j] = k], settled)
                     /\ Reflects(run, [job EXCEPT ![j] = k], settled, a.completed)
  BY <1>1, <1>2, MutateAttemptEffect
<1>5. job[j].last = n /\ job[j].current = n /\ n # NoNumber
  BY <1>1 DEF CurrentAttempt, LatestAttempt, Numbers, NoNumber
<1>6. job[j].state \in JobActive
  BY <1>5, AgreementByRow DEF StoreInv, RowAgreement
<1>7. Rewrites(j, k, a.completed)
  BY <1>2, <1>4, DerivedRewrites
<1> QED
  BY <1>1, <1>3, <1>5, <1>6, <1>7

LEMMA InsertsRewrites ==
  ASSUME StoreInv, NEW j \in Jobs, Inserts(j)
  PROVE  \E k \in JobRows, a \in AttemptRows, n \in Numbers, t \in Nat :
           /\ job[j].state = "Queued" /\ ~run.cancel
           /\ k.state = "Dispatching"
           /\ k.retry = [job[j].retry EXCEPT !.next = NoTime] /\ job[j].updated =< k.updated
           /\ a.state = "Dispatching"
           /\ a = [NoAttempt EXCEPT !.state = a.state, !.lease = a.lease,
                                    !.heartbeat = a.heartbeat, !.created = a.created]
           /\ AttemptRowCheck(a)
           /\ attempt' = [attempt EXCEPT ![j] = [@ EXCEPT ![n] = a]]
           /\ Rewrites(j, k, t)
<1> DEFINE n == job[j].last + 1
<1>1. PICK k \in JobRows, a \in AttemptRows, t \in Nat :
        /\ job[j].state = "Queued" /\ ~run.cancel
        /\ n \in Numbers
        /\ k.state = "Dispatching"
        /\ k.retry = [job[j].retry EXCEPT !.next = NoTime] /\ job[j].updated =< k.updated
        /\ a.state = "Dispatching"
        /\ a = [NoAttempt EXCEPT !.state = a.state, !.lease = a.lease,
                                 !.heartbeat = a.heartbeat, !.created = a.created]
        /\ SaveAttempt(j, n, a)
        /\ ReconcileRun([job EXCEPT ![j] = k], t, {j})
  BY DEF Inserts
<1>2. attempt' = [attempt EXCEPT ![j] = [@ EXCEPT ![n] = a]] /\ AttemptRowCheck(a)
  BY <1>1 DEF SaveAttempt
<1>3. run \in RunRows /\ [job EXCEPT ![j] = k] \in [Jobs -> JobRows]
  BY DEF StoreInv, TypeOK
<1>4. PICK settled : /\ Derived(run, [job EXCEPT ![j] = k], settled, {j})
                     /\ FullyResolved([job EXCEPT ![j] = k], settled)
                     /\ Reflects(run, [job EXCEPT ![j] = k], settled, t)
  BY <1>1, <1>3, ReconcileRunDerived
<1>5. k.state \in JobActive
  BY <1>1 DEF JobActive
<1>6. Rewrites(j, k, t)
  BY <1>1, <1>4, <1>5, DerivedRewrites
<1> HIDE DEF n
<1> QED
  BY <1>1, <1>2, <1>6

LEMMA GivesUpRewrites ==
  ASSUME StoreInv, NEW j \in Jobs, GivesUp(j)
  PROVE  \E k \in JobRows, t \in Nat :
           /\ job[j].state = "Queued" /\ k.state = "Failed" /\ k.last = job[j].last
           /\ k.retry = [job[j].retry EXCEPT !.next = NoTime] /\ job[j].updated =< k.updated
           /\ attempt' = attempt
           /\ Rewrites(j, k, t)
<1>1. PICK k \in JobRows, t \in Nat :
        /\ job[j].state = "Queued" /\ k.state = "Failed" /\ k.last = job[j].last
        /\ k.retry = [job[j].retry EXCEPT !.next = NoTime] /\ job[j].updated =< k.updated
        /\ attempt' = attempt
        /\ ReconcileRun([job EXCEPT ![j] = k], t, Jobs)
  BY DEF GivesUp
<1>2. run \in RunRows /\ [job EXCEPT ![j] = k] \in [Jobs -> JobRows]
  BY DEF StoreInv, TypeOK
<1>3. PICK settled : /\ Derived(run, [job EXCEPT ![j] = k], settled, Jobs)
                     /\ FullyResolved([job EXCEPT ![j] = k], settled)
                     /\ Reflects(run, [job EXCEPT ![j] = k], settled, t)
  BY <1>1, <1>2, ReconcileRunDerived
<1>4. Rewrites(j, k, t)
  BY <1>3, DerivedRewrites
<1> QED
  BY <1>1, <1>4

-----------------------------------------------------------------------------
(* The run row                                                              *)

\* The aggregate depends on the states of the jobs only, and deriving it once
\* more from the same jobs yields it again.
LEMMA AggregateAgain ==
  ASSUME NEW js, NEW ls, NEW previous, \A j \in Jobs : js[j].state = ls[j].state
  PROVE  /\ AggregateState(previous, js) = AggregateState(previous, ls)
         /\ AggregateState(AggregateState(previous, js), ls) = AggregateState(previous, js)
<1> DEFINE S == {js[j].state : j \in Jobs}
           Of(p) ==
             IF S \subseteq JobTerminal
               THEN IF "Canceled" \in S THEN "Canceled"
                    ELSE IF "Failed" \in S THEN "Failed"
                    ELSE IF "Lost" \in S THEN "Lost" ELSE "Succeeded"
               ELSE IF p = "Running" \/ "Running" \in S THEN "Running"
                    ELSE IF "Dispatching" \in S THEN "Dispatching" ELSE "Queued"
<1>1. S = {ls[j].state : j \in Jobs}
  OBVIOUS
<1>2. \A p : AggregateState(p, js) = Of(p)
  BY DEF AggregateState
<1>3. \A p : AggregateState(p, ls) = Of(p)
  BY <1>1 DEF AggregateState
<1> HIDE DEF S
<1>4. Of(Of(previous)) = Of(previous)
  OBVIOUS
<1> HIDE DEF Of
<1> QED
  BY <1>2, <1>3, <1>4

\* RunReflectsJobs without the attempts' stamps.
Reflecting ==
  /\ run.state = AggregateState(run.state, job)
  /\ run.state \in RunTerminal => (run.cancel <=> run.state = "Canceled")
  /\ \A j \in Jobs : job[j].updated =< run.updated

LEMMA RewritesRun ==
  ASSUME TypeOK, TypeOK', NEW j \in Jobs, NEW k \in JobRows, NEW t \in Nat, Rewrites(j, k, t),
         job[j].updated =< k.updated
  PROVE  Reflecting' /\ run.updated =< run'.updated /\ t =< run'.updated
<1> DEFINE js == [job EXCEPT ![j] = k]
<1>1. PICK settled \in [Jobs -> JobRows] :
        /\ Reflects(run, js, settled, t)
        /\ \A m \in Jobs :
             /\ job'[m].state = settled[m].state
             /\ job'[m] = settled[m] \/ (m # j /\ job'[m] = job[m])
  BY DEF Rewrites
<1>2. run'.state = AggregateState(run'.state, job')
  <2>1. run'.state = AggregateState(run.state, settled)
    BY <1>1 DEF Reflects
  <2>2. \A m \in Jobs : settled[m].state = job'[m].state
    BY <1>1
  <2> QED
    BY <2>1, <2>2, AggregateAgain
<1>3. run'.state \in RunTerminal => (run'.cancel <=> run'.state = "Canceled")
  BY <1>1 DEF Reflects
<1>4. /\ run.updated =< run'.updated /\ t =< run'.updated
      /\ \A m \in Jobs : settled[m].updated =< run'.updated
  BY <1>1 DEF Reflects, IsLatest
<1>5. ASSUME NEW m \in Jobs PROVE job'[m].updated =< run'.updated
  <2>1. CASE job'[m] = settled[m]
    BY <1>4, <2>1
  <2>2. CASE m # j /\ job'[m] = job[m]
    <3>1. js[m] = job[m]
      BY <2>2 DEF TypeOK
    <3>2. job[m].updated =< settled[m].updated
      BY <1>1, <3>1 DEF Reflects, Kept
    <3>3. job[m].updated \in Nat /\ settled[m].updated \in Nat /\ run'.updated \in Nat
      BY DEF TypeOK, JobRows, RunRows
    <3> QED
      BY <1>4, <2>2, <3>2, <3>3
  <2> QED
    BY <1>1, <2>1, <2>2
<1> QED
  BY <1>2, <1>3, <1>4, <1>5 DEF Reflecting

-----------------------------------------------------------------------------
(* Skipped jobs                                                             *)

\* A job is skipped only because something it needs has ended without success.
SkippedForCause ==
  \A j \in Jobs : job[j].state = "Skipped" =>
    \E d \in Needs[j] : job[d].state \in JobTerminal \ {"Succeeded"}

LEMMA RewritesSkipped ==
  ASSUME TypeOK, SkippedForCause, NEW j \in Jobs, NEW k \in JobRows, NEW t, Rewrites(j, k, t),
         Moved(j, k)
  PROVE  SkippedForCause'
<1> DEFINE js == [job EXCEPT ![j] = k]
<1>1. PICK settled \in [Jobs -> JobRows] :
        /\ FullyResolved(js, settled)
        /\ \A m \in Jobs : Reconciled(js[m], settled[m]) /\ job'[m].state = settled[m].state
  BY DEF Rewrites
<1>2. /\ js[j] = k /\ \A m \in Jobs \ {j} : js[m] = job[m]
      /\ \A m \in Jobs : Needs[m] \subseteq Jobs
  BY JobsAssumption DEF TypeOK
<1> HIDE DEF js
<1>3. \A m \in Jobs : job[m].state \in JobTerminal => job'[m].state = job[m].state
  BY <1>1, <1>2 DEF Moved, Reconciled, JobActive, JobTerminal
<1>4. ASSUME NEW m \in Jobs, job'[m].state = "Skipped"
      PROVE  \E d \in Needs[m] : job'[d].state \in JobTerminal \ {"Succeeded"}
  <2>1. CASE js[m].state = "Blocked"
    <3>1. PICK d \in Needs[m] : settled[d].state \in JobTerminal \ {"Succeeded"}
      BY <1>1, <1>4, <2>1 DEF FullyResolved
    <3> QED
      BY <1>1, <1>2, <3>1
  <2>2. CASE js[m].state # "Blocked"
    <3>1. js[m].state = "Skipped"
      BY <1>1, <1>4, <2>2 DEF Reconciled
    <3>2. job[m].state = "Skipped"
      BY <1>2, <3>1 DEF Moved
    <3>3. PICK d \in Needs[m] : job[d].state \in JobTerminal \ {"Succeeded"}
      BY <3>2 DEF SkippedForCause
    <3> QED
      BY <1>2, <1>3, <3>3
  <2> QED
    BY <2>1, <2>2
<1> QED
  BY <1>4 DEF SkippedForCause

\* In an acyclic workflow a run whose jobs all succeeded or were skipped has no
\* skipped job.
LEMMA NoneSkipped ==
  ASSUME SkippedForCause, \A j \in Jobs : job[j].state \in {"Succeeded", "Skipped"}
  PROVE  \A j \in Jobs : job[j].state = "Succeeded"
<1> DEFINE S == {j \in Jobs : job[j].state = "Skipped"}
<1>1. SUFFICES ASSUME S # {} PROVE FALSE
  OBVIOUS
<1>2. PICK m \in S : \A d \in Needs[m] : d \notin S
  BY <1>1, MinimalJob
<1>3. PICK d \in Needs[m] : job[d].state \in JobTerminal \ {"Succeeded"}
  BY <1>2 DEF SkippedForCause
<1>4. d \in Jobs
  BY JobsAssumption
<1> QED
  BY <1>2, <1>3, <1>4

-----------------------------------------------------------------------------
(* Earned success                                                           *)

Earned ==
  \A j \in Jobs : job[j].state = "Succeeded" =>
    \E n \in Numbers : /\ n = job[j].last
                       /\ attempt[j][n].state = "Succeeded"
                       /\ \A i \in Steps : attempt[j][n].steps[i] = "Succeeded"

\* A job succeeds only by the hand of the transaction that replaced its row.
LEMMA RewritesSucceeded ==
  ASSUME TypeOK, NEW j \in Jobs, NEW k \in JobRows, NEW t, Rewrites(j, k, t)
  PROVE  /\ \A m \in Jobs \ {j} : /\ job'[m].state = "Succeeded" => job[m].state = "Succeeded"
                                  /\ job'[m].last = job[m].last
         /\ job'[j].state = "Succeeded" => k.state = "Succeeded"
         /\ job'[j].last = k.last
<1> DEFINE js == [job EXCEPT ![j] = k]
<1>1. PICK settled \in [Jobs -> JobRows] :
        \A m \in Jobs : /\ Reconciled(js[m], settled[m])
                        /\ job'[m].state = settled[m].state
                        /\ job'[m] = settled[m] \/ (m # j /\ job'[m] = job[m])
  BY DEF Rewrites
<1>2. js[j] = k /\ \A m \in Jobs \ {j} : js[m] = job[m]
  BY DEF TypeOK
<1> HIDE DEF js
<1> QED
  BY <1>1, <1>2 DEF Reconciled

-----------------------------------------------------------------------------
(* Capacity retries                                                         *)

\* RunJob::validate_facts, and that a job with rejections to spare is not over.
CapacitySound(k) ==
  /\ CapacityFacts(k)
  /\ k.state \notin JobTerminal => k.retry.rejections =< MaxCapacityRetries

CapacityKept == \A j \in Jobs : CapacitySound(job[j])

\* Reconciliation and a called-off retry leave the facts standing.
LEMMA KeptCapacity ==
  ASSUME NEW k \in JobRows, NEW l \in JobRows, CapacitySound(k), Kept(k, l),
         k.state \in JobTerminal => l.state \in JobTerminal
  PROVE  CapacitySound(l)
<1>1. /\ k.retry \in Retries /\ l.retry \in Retries
      /\ k.updated \in Nat /\ l.updated \in Nat /\ k.updated =< l.updated
  BY DEF JobRows, Kept
<1>2. CASE l.retry = k.retry /\ (k.state = "Queued" => l.state = "Queued")
  BY <1>1, <1>2 DEF CapacitySound, CapacityFacts, Retries
<1>3. CASE l.retry = [k.retry EXCEPT !.next = NoTime]
  <2>1. /\ l.retry.first = k.retry.first /\ l.retry.rejections = k.retry.rejections
        /\ l.retry.next = NoTime
    BY <1>1, <1>3 DEF Retries
  <2> QED
    BY <1>1, <2>1 DEF CapacitySound, CapacityFacts, Retries
<1> QED
  BY <1>2, <1>3 DEF Kept

LEMMA RewritesCapacity ==
  ASSUME TypeOK, CapacityKept, NEW j \in Jobs, NEW k \in JobRows, NEW t, Rewrites(j, k, t),
         CapacitySound(k)
  PROVE  CapacityKept'
<1> DEFINE js == [job EXCEPT ![j] = k]
<1>1. PICK settled \in [Jobs -> JobRows] :
        /\ Reflects(run, js, settled, t)
        /\ \A m \in Jobs : /\ Reconciled(js[m], settled[m])
                           /\ job'[m] = settled[m] \/ (m # j /\ job'[m] = job[m])
  BY DEF Rewrites
<1>2. \A m \in Jobs : js[m] \in JobRows /\ CapacitySound(js[m])
  BY DEF TypeOK, CapacityKept
<1>3. \A m \in Jobs : Kept(js[m], settled[m])
  BY <1>1 DEF Reflects
<1> HIDE DEF js
<1>4. ASSUME NEW m \in Jobs PROVE CapacitySound(settled[m])
  <2>1. js[m].state \in JobTerminal => settled[m].state \in JobTerminal
    BY <1>1 DEF Reconciled, JobTerminal
  <2> QED
    BY <1>2, <1>3, <2>1, KeptCapacity
<1>5. ASSUME NEW m \in Jobs PROVE CapacitySound(job'[m])
  BY <1>1, <1>4 DEF CapacityKept
<1>6. \A m \in Jobs : CapacitySound(job[m])'
  BY <1>5 DEF CapacitySound, CapacityFacts
<1> QED
  BY <1>6 DEF CapacityKept

\* record_capacity_rejection: the retry it schedules lies after the rejection and
\* inside the window that the first one opened.
LEMMA RejectedCapacity ==
  ASSUME NEW k \in JobRows, NEW now \in Nat, CapacitySound(k), k.state \notin JobTerminal,
         k.updated =< now
  PROVE  CapacitySound(CapacityRejected(k, now))
<1> DEFINE first == IF k.retry.rejections = 0 THEN now ELSE k.retry.first
           rejections == k.retry.rejections + 1
           next == now + CapacityRetryDelays[IF rejections =< 3 THEN rejections ELSE 3]
           again == /\ rejections =< MaxCapacityRetries
                    /\ k.last < MaxRunAttempts
                    /\ next < first + CapacityRetryWindow
           state == IF again THEN "Queued" ELSE "Failed"
           retry == [first |-> first, rejections |-> rejections,
                     next |-> IF again THEN next ELSE NoTime]
           l == CapacityRejected(k, now)
<1> SUFFICES CapacitySound(l)
  OBVIOUS
<1>1. k.retry \in Retries /\ k.updated \in Nat
  BY DEF JobRows
<1>2. first \in Nat /\ rejections \in Nat \ {0} /\ rejections =< MaxCapacityRetries + 1
  BY <1>1, BoundsAssumption DEF CapacitySound, Retries
<1>3. first =< now
  BY <1>1 DEF CapacitySound, CapacityFacts, Retries
<1>4. next \in Nat /\ now < next
  <2>1. (IF rejections =< 3 THEN rejections ELSE 3) \in 1..3
    BY <1>2
  <2> QED
    BY <2>1, BoundsAssumption
<1>5. l = [Released(k, state, now) EXCEPT !.retry = retry]
  BY DEF CapacityRejected
<1>6. state \in JobStates
  BY DEF JobStates, JobTerminal
<1>7. retry \in Retries
  BY <1>2, <1>4 DEF Retries, NoTime
<1> HIDE DEF retry, state
<1>8. l.retry = retry /\ l.state = state /\ l.updated = now
  BY <1>5, <1>6, <1>7, ReleasedType DEF JobRows
<1>9. CASE again
  <2>1. l.state = "Queued" /\ l.retry.first = first /\ l.retry.rejections = rejections
        /\ l.retry.next = next
    BY <1>8, <1>9 DEF state, retry
  <2> HIDE DEF l, next, first, rejections
  <2> QED
    BY <1>2, <1>3, <1>4, <1>8, <1>9, <2>1, BoundsAssumption DEF CapacitySound, CapacityFacts
<1>10. CASE ~again
  <2>1. l.state = "Failed" /\ l.retry.first = first /\ l.retry.rejections = rejections
        /\ l.retry.next = NoTime
    BY <1>8, <1>10 DEF state, retry
  <2>2. l.state \in JobTerminal
    BY <2>1 DEF JobTerminal
  <2> HIDE DEF l, next, first, rejections
  <2> QED
    BY <1>2, <1>3, <1>8, <2>1, <2>2 DEF CapacitySound, CapacityFacts
<1> QED
  BY <1>9, <1>10

-----------------------------------------------------------------------------
(* Attempt rows                                                             *)

\* RunAttempt::validate_facts and validate_execution, and that an attempt that
\* has not left Dispatching has not started.
AttemptSound(n, a) ==
  /\ AttemptFacts(a)
  /\ StepsFit(n, a)
  /\ a.state \in {"Absent", "Dispatching"} => a.started = FALSE

AttemptsSound == \A j \in Jobs : \A n \in Numbers : AttemptSound(n, attempt[j][n])

\* The steps in order: what follows a step that has not succeeded has not begun.
InOrder(steps) ==
  \A i, k \in Steps : i < k /\ steps[i] # "Succeeded" => steps[k] \in {"Pending", "Skipped"}

\* What StepsFit says of the states an attempt is in before it ends.
LEMMA ActiveFit ==
  ASSUME NEW n, NEW a
  PROVE  /\ StepsFit(n, a) => InOrder(a.steps)
         /\ a.state \in {"Absent", "Dispatching"} =>
              (StepsFit(n, a) <=> /\ InOrder(a.steps) /\ a.reason = "None"
                                  /\ \A i \in Steps : a.steps[i] = "Pending")
         /\ a.state = "Running" =>
              (StepsFit(n, a) <=> /\ InOrder(a.steps) /\ a.reason = "None"
                                  /\ \A i \in Steps : a.steps[i] \in {"Succeeded", "Running", "Pending"})
  BY DEF StepsFit, InOrder

\* A row that agrees in everything but its token and stamps is as sound.
LEMMA RenewedSound ==
  ASSUME NEW n, NEW b \in AttemptRows, NEW a \in AttemptRows, AttemptSound(n, b),
         a = [b EXCEPT !.token = a.token, !.heartbeat = a.heartbeat, !.lease = a.lease],
         b.state \in AttemptActive, AttemptRowCheck(a)
  PROVE  AttemptSound(n, a)
<1>1. /\ a.state = b.state /\ a.reason = b.reason /\ a.steps = b.steps
      /\ a.started = b.started /\ a.completed = b.completed
  BY DEF AttemptRows
<1>2. StepsFit(n, a)
  <2>1. StepsFit(n, b)
    BY DEF AttemptSound
  <2> QED
    BY <1>1, <2>1, ActiveFit DEF AttemptActive
<1>3. AttemptFacts(a)
  BY <1>1 DEF AttemptSound, AttemptFacts, AttemptRowCheck
<1> QED
  BY <1>1, <1>2, <1>3 DEF AttemptSound

\* dispatch inserts a sound row, and a number not taken has one.
LEMMA InsertedSound ==
  ASSUME NEW n, NEW a \in AttemptRows,
         a = [NoAttempt EXCEPT !.state = a.state, !.lease = a.lease, !.heartbeat = a.heartbeat,
                               !.created = a.created],
         \/ a.state = "Absent"
         \/ a.state = "Dispatching" /\ AttemptRowCheck(a)
  PROVE  AttemptSound(n, a)
<1>1. /\ a.reason = "None" /\ a.steps = [i \in Steps |-> "Pending"]
      /\ a.started = FALSE /\ a.completed = NoTime
  BY DEF NoAttempt
<1>2. InOrder(a.steps) /\ \A i \in Steps : a.steps[i] = "Pending"
  BY <1>1 DEF InOrder
<1>3. StepsFit(n, a)
  BY <1>1, <1>2, ActiveFit
<1>4. AttemptFacts(a)
  BY <1>1 DEF AttemptFacts, AttemptRowCheck, AttemptTerminal
<1> QED
  BY <1>1, <1>3, <1>4 DEF AttemptSound

\* A step that starts, or succeeds, keeps the steps in order: what precedes a
\* started step has succeeded, and only the first step that has not can run.
LEMMA ProgressSound ==
  ASSUME NEW n, NEW b \in AttemptRows, NEW a \in AttemptRows, AttemptSound(n, b),
         b.state \in AttemptActive, a.state \in AttemptActive, Progress(b, a), AttemptRowCheck(a)
  PROVE  AttemptSound(n, a)
<1>1. /\ b.steps \in [Steps -> StepStates] /\ a.reason = b.reason
      /\ a.completed = b.completed
  BY DEF Progress, AttemptRows
<1>2. StepsFit(n, b) /\ InOrder(b.steps) /\ b.reason = "None"
  BY ActiveFit DEF AttemptSound, AttemptActive
<1>3. \A i \in Steps : b.steps[i] \in {"Succeeded", "Running", "Pending"}
  BY <1>2, ActiveFit DEF AttemptActive
<1>4. PICK i \in Steps :
        \/ /\ StepMayStart(b, i)
           /\ a.state = "Running" /\ a.started = TRUE
           /\ a.steps = [b.steps EXCEPT ![i] = "Running"]
        \/ /\ b.steps[i] = "Running"
           /\ a.state = b.state /\ a.started = b.started
           /\ a.steps = [b.steps EXCEPT ![i] = "Succeeded"]
  BY DEF Progress
<1>5. a.state = "Running" /\ a.started
  <2>1. CASE b.state = "Dispatching"
    <3>1. b.steps[i] = "Pending"
      BY <1>2, <2>1, ActiveFit
    <3> QED
      BY <1>4, <3>1
  <2>2. CASE b.state = "Running"
    BY <1>4, <2>2 DEF AttemptSound, AttemptFacts
  <2> QED
    BY <2>1, <2>2 DEF AttemptActive
<1>6. \A m \in Steps : a.steps[m] \in {"Succeeded", "Running", "Pending"}
  BY <1>1, <1>3, <1>4
<1>7. InOrder(a.steps)
  <2>1. \A m \in Steps : m \in Nat \ {0}
    BY BoundsAssumption DEF Steps
  <2>2. CASE StepMayStart(b, i) /\ a.steps = [b.steps EXCEPT ![i] = "Running"]
    <3>1. b.steps[i] = "Pending" /\ \A m \in Steps : m < i => b.steps[m] = "Succeeded"
      BY <2>1, <2>2 DEF StepMayStart
    <3> QED
      BY <1>1, <1>2, <2>2, <3>1 DEF InOrder
  <2>3. CASE b.steps[i] = "Running" /\ a.steps = [b.steps EXCEPT ![i] = "Succeeded"]
    BY <1>1, <1>2, <2>3 DEF InOrder
  <2> QED
    BY <1>4, <2>2, <2>3
<1>8. StepsFit(n, a)
  BY <1>1, <1>2, <1>5, <1>6, <1>7, ActiveFit
<1>9. AttemptFacts(a)
  <2>1. b.completed = NoTime
    BY DEF AttemptSound, AttemptFacts, AttemptActive, AttemptTerminal
  <2> QED
    BY <1>1, <1>5, <2>1 DEF AttemptFacts, AttemptRowCheck, AttemptTerminal
<1> QED
  BY <1>5, <1>8, <1>9 DEF AttemptSound

\* What skip_pending_steps and interrupt_steps make of ordered steps.
LEMMA InterruptedSteps ==
  ASSUME NEW steps \in [Steps -> StepStates], InOrder(steps), NEW state \in {"Canceled", "Lost"},
         \A i \in Steps : steps[i] \in {"Succeeded", "Running", "Pending"}
  PROVE  /\ InOrder(InterruptSteps(steps, state))
         /\ InterruptedAs(InterruptSteps(steps, state), state)
         /\ (\A i \in Steps : steps[i] = "Pending") =>
              \A i \in Steps : InterruptSteps(steps, state)[i] = "Skipped"
<1> DEFINE done == InterruptSteps(steps, state)
<1>1. \A i \in Steps : /\ steps[i] = "Succeeded" => done[i] = "Succeeded"
                       /\ steps[i] = "Running" => done[i] = state
                       /\ steps[i] = "Pending" => done[i] = "Skipped"
  BY DEF InterruptSteps, SkipPending
<1> HIDE DEF done
<1>2. InOrder(done)
  BY <1>1 DEF InOrder
<1>3. InterruptedAs(done, state)
  <2>1. CASE \E i \in Steps : steps[i] = "Running"
    <3>1. PICK i \in Steps : steps[i] = "Running"
      BY <2>1
    <3>2. ASSUME NEW k \in (i+1)..NumSteps PROVE done[k] = "Skipped"
      <4>1. k \in Steps /\ i < k
        BY BoundsAssumption DEF Steps
      <4>2. steps[k] = "Pending"
        BY <3>1, <4>1 DEF InOrder
      <4> QED
        BY <1>1, <4>1, <4>2
    <3> QED
      BY <1>1, <3>1, <3>2 DEF InterruptedAs
  <2>2. CASE \A i \in Steps : steps[i] # "Running"
    BY <1>1, <2>2 DEF InterruptedAs
  <2> QED
    BY <2>1, <2>2
<1> QED
  BY <1>1, <1>2, <1>3 DEF done

\* However an attempt ends, its steps fit its outcome.
LEMMA EndedSound ==
  ASSUME NEW n, NEW b \in AttemptRows, NEW a \in AttemptRows, AttemptSound(n, b),
         b.state \in AttemptActive, a.state \in AttemptTerminal, a.completed # NoTime,
         a = Finished(b, a.state, a.reason, a.steps, a.completed), NEW k,
         Ending(n, b, k, a.state, a.reason, a.steps), AttemptRowCheck(a)
  PROVE  AttemptSound(n, a)
<1>1. b.steps \in [Steps -> StepStates] /\ a.started = b.started
  BY DEF Finished, AttemptRows
<1>2. StepsFit(n, b) /\ InOrder(b.steps)
  BY ActiveFit DEF AttemptSound
<1>3. /\ \A i \in Steps : b.steps[i] \in {"Succeeded", "Running", "Pending"}
      /\ b.state = "Dispatching" => /\ b.started = FALSE
                                    /\ \A i \in Steps : b.steps[i] = "Pending"
  BY <1>2, ActiveFit DEF AttemptActive, AttemptSound
<1>4. ASSUME NEW s \in {"Canceled", "Lost"}
      PROVE  /\ InOrder(InterruptSteps(b.steps, s))
             /\ InterruptedAs(InterruptSteps(b.steps, s), s)
             /\ b.state = "Dispatching" => \A i \in Steps : InterruptSteps(b.steps, s)[i] = "Skipped"
  BY <1>1, <1>2, <1>3, InterruptedSteps
<1>5. b.state = "Dispatching" => /\ InOrder(SkipPending(b.steps))
                                 /\ \A i \in Steps : SkipPending(b.steps)[i] = "Skipped"
  BY <1>3 DEF SkipPending, InOrder
<1>6. StepsFit(n, a)
  <2>1. CASE a.state = "Succeeded" /\ a.reason = "None" /\ a.steps = b.steps
             /\ \A i \in Steps : b.steps[i] = "Succeeded"
    BY <1>2, <2>1 DEF StepsFit, InOrder
  <2>2. CASE /\ a.state = "Canceled" /\ a.reason = "Canceled" /\ a.steps = b.steps
             /\ \A i \in Steps : b.steps[i] = "Succeeded"
    BY <1>2, <2>2 DEF StepsFit, InOrder, InterruptedAs
  <2>3. CASE /\ a.state = "Canceled" /\ a.reason = "Canceled"
             /\ a.steps = InterruptSteps(b.steps, "Canceled")
    BY <1>4, <2>3 DEF StepsFit, InOrder
  <2>4. CASE /\ a.state = "Failed" /\ a.reason = "TimedOut"
             /\ a.steps = InterruptSteps(b.steps, "Canceled")
    BY <1>4, <2>4 DEF StepsFit, InOrder
  <2>5. CASE /\ a.state = "Failed" /\ a.reason = "RuntimeSetupFailed"
             /\ b.state = "Dispatching" /\ a.steps = SkipPending(b.steps)
    BY <1>5, <2>5 DEF StepsFit, InOrder
  <2>6. CASE /\ a.state = "Failed" /\ a.reason = "StepFailed"
             /\ \E i \in Steps : /\ b.steps[i] = "Running"
                                 /\ a.steps = SkipPending([b.steps EXCEPT ![i] = "Failed"])
    <3>1. PICK i \in Steps : /\ b.steps[i] = "Running"
                             /\ a.steps = SkipPending([b.steps EXCEPT ![i] = "Failed"])
      BY <2>6
    <3>2. \A m \in Steps : /\ m = i => a.steps[m] = "Failed"
                           /\ m # i /\ b.steps[m] = "Pending" => a.steps[m] = "Skipped"
                           /\ m # i /\ b.steps[m] # "Pending" => a.steps[m] = b.steps[m]
      BY <1>1, <3>1 DEF SkipPending
    <3>3. \A m \in Steps : m \in Nat
      BY DEF Steps
    <3>4. ASSUME NEW m \in Steps, i < m PROVE a.steps[m] = "Skipped"
      <4>1. b.steps[m] = "Pending" /\ m # i
        BY <1>2, <1>3, <3>1, <3>3, <3>4 DEF InOrder
      <4> QED
        BY <3>2, <4>1
    <3>5. ASSUME NEW m \in Steps, m < i PROVE a.steps[m] = "Succeeded"
      <4>1. b.steps[m] = "Succeeded" /\ m # i
        BY <1>2, <3>1, <3>3, <3>5 DEF InOrder
      <4> QED
        BY <3>2, <4>1
    <3>6. InOrder(a.steps)
      BY <3>3, <3>4, <3>5 DEF InOrder
    <3>7. \A m \in (i+1)..NumSteps : a.steps[m] = "Skipped"
      BY <3>4, BoundsAssumption DEF Steps
    <3> QED
      BY <2>6, <3>2, <3>6, <3>7 DEF StepsFit, InOrder
  <2>7. CASE /\ a.state = "Failed" /\ a.reason = "ProviderCapacityRejected"
             /\ b.state = "Dispatching" /\ b.started = FALSE /\ a.steps = SkipPending(b.steps)
    BY <1>1, <1>5, <2>7 DEF StepsFit, InOrder
  <2>8. CASE /\ a.state = "Lost" /\ a.reason = "ExecutionLost"
             /\ a.steps = InterruptSteps(b.steps, "Lost")
    BY <1>4, <2>8 DEF StepsFit, InOrder
  <2>9. CASE /\ a.state = "Lost" /\ a.reason = "DispatchAttemptsExhausted"
             /\ b.state = "Dispatching" /\ n = MaxRunAttempts
             /\ a.steps = InterruptSteps(b.steps, "Lost")
    BY <1>1, <1>3, <1>4, <2>9 DEF StepsFit, InOrder
  <2> QED
    BY <2>1, <2>2, <2>3, <2>4, <2>5, <2>6, <2>7, <2>8, <2>9 DEF Ending
<1>7. AttemptFacts(a)
  <2>1. a.state = "Succeeded" => b.state = "Running"
    BY DEF Ending
  <2>2. a.state \in {"Running", "Succeeded"} => a.started
    BY <1>1, <2>1 DEF AttemptSound, AttemptFacts, AttemptTerminal
  <2> QED
    BY <2>2 DEF AttemptFacts, AttemptRowCheck
<1> QED
  BY <1>6, <1>7 DEF AttemptSound, AttemptTerminal

\* One row replaced by a sound one.
LEMMA SavedSound ==
  ASSUME TypeOK, AttemptsSound, NEW j \in Jobs, NEW n \in Numbers, NEW a,
         attempt' = [attempt EXCEPT ![j] = [@ EXCEPT ![n] = a]], AttemptSound(n, a)
  PROVE  AttemptsSound'
<1>0. /\ attempt'[j][n] = a
      /\ \A m \in Numbers \ {n} : attempt'[j][m] = attempt[j][m]
      /\ \A i \in Jobs \ {j} : attempt'[i] = attempt[i]
  BY SavedAttempt
<1>1. \A i \in Jobs, m \in Numbers : AttemptSound(m, attempt'[i][m])
  <2> SUFFICES ASSUME NEW i \in Jobs, NEW m \in Numbers PROVE AttemptSound(m, attempt'[i][m])
    OBVIOUS
  <2>1. CASE i = j /\ m = n
    BY <1>0, <2>1
  <2>2. CASE ~ (i = j /\ m = n)
    <3>1. attempt'[i][m] = attempt[i][m]
      BY <1>0, <2>2
    <3> QED
      BY <3>1 DEF AttemptsSound
  <2> QED
    BY <2>1, <2>2
<1> QED
  BY <1>1 DEF AttemptsSound, AttemptSound, AttemptFacts, StepsFit, InterruptedAs

-----------------------------------------------------------------------------
(* The inductive invariant                                                  *)

StampsKept == \A j \in Jobs, n \in Numbers : attempt[j][n].completed =< run.updated

\* JobsOutcomes is about the jobs and the run, AttemptOutcomes about what the
\* attempts add to it.
JobsOutcomes == Reflecting /\ SkippedForCause /\ CapacityKept
AttemptOutcomes == StampsKept /\ Earned /\ AttemptsSound
Outcomes == JobsOutcomes /\ AttemptOutcomes

LEMMA RewritesOutcomes ==
  ASSUME TypeOK, TypeOK', JobsOutcomes, NEW j \in Jobs, NEW k \in JobRows, NEW t \in Nat,
         Rewrites(j, k, t), Moved(j, k), job[j].updated =< k.updated, CapacitySound(k)
  PROVE  JobsOutcomes' /\ run.updated =< run'.updated /\ t =< run'.updated
<1>1. Reflecting' /\ run.updated =< run'.updated /\ t =< run'.updated
  BY RewritesRun
<1>2. SkippedForCause'
  BY RewritesSkipped DEF JobsOutcomes
<1>3. CapacityKept'
  BY RewritesCapacity DEF JobsOutcomes
<1> QED
  BY <1>1, <1>2, <1>3 DEF JobsOutcomes

\* A transaction that touches no attempt and lets no job succeed.
LEMMA UntouchedAttempts ==
  ASSUME TypeOK, TypeOK', AttemptOutcomes, attempt' = attempt, run.updated =< run'.updated,
         \A j \in Jobs : job'[j].state = "Succeeded" =>
                           job[j].state = "Succeeded" /\ job'[j].last = job[j].last
  PROVE  AttemptOutcomes'
<1>1. StampsKept'
  <2>1. ASSUME NEW j \in Jobs, NEW n \in Numbers PROVE attempt'[j][n].completed =< run'.updated
    <3>1. attempt[j][n].completed \in Nat /\ run.updated \in Nat /\ run'.updated \in Nat
      BY DEF TypeOK, RunRows, AttemptRows
    <3> QED
      BY <3>1 DEF AttemptOutcomes, StampsKept
  <2> QED
    BY <2>1 DEF StampsKept
<1>2. Earned'
  BY DEF AttemptOutcomes, Earned
<1>3. AttemptsSound'
  <2>1. \A j \in Jobs : \A n \in Numbers : AttemptSound(n, attempt'[j][n])
    BY DEF AttemptOutcomes, AttemptsSound
  <2> QED
    BY <2>1 DEF AttemptsSound, AttemptSound, AttemptFacts, StepsFit, InterruptedAs
<1> QED
  BY <1>1, <1>2, <1>3 DEF AttemptOutcomes

\* A transaction that saves one attempt of its job.
LEMMA SavedOutcomes ==
  ASSUME TypeOK, TypeOK', AttemptOutcomes, NEW j \in Jobs, NEW n \in Numbers, NEW a,
         attempt' = [attempt EXCEPT ![j] = [@ EXCEPT ![n] = a]],
         run.updated =< run'.updated, a.completed =< run'.updated,
         AttemptSound(n, a),
         \A m \in Jobs \ {j} : job'[m].state = "Succeeded" =>
                                 job[m].state = "Succeeded" /\ job'[m].last = job[m].last,
         job'[j].state = "Succeeded" =>
           /\ job'[j].last = n /\ a.state = "Succeeded"
           /\ \A i \in Steps : a.steps[i] = "Succeeded"
  PROVE  AttemptOutcomes'
<1>0. /\ attempt'[j][n] = a
      /\ \A m \in Numbers \ {n} : attempt'[j][m] = attempt[j][m]
      /\ \A m \in Jobs \ {j} : attempt'[m] = attempt[m]
  BY SavedAttempt
<1>1. StampsKept'
  <2>1. ASSUME NEW i \in Jobs, NEW m \in Numbers PROVE attempt'[i][m].completed =< run'.updated
    <3>1. attempt[i][m].completed \in Nat /\ run.updated \in Nat /\ run'.updated \in Nat
      BY DEF TypeOK, RunRows, AttemptRows
    <3>2. attempt[i][m].completed =< run'.updated
      BY <3>1 DEF AttemptOutcomes, StampsKept
    <3> QED
      BY <1>0, <3>2
  <2> QED
    BY <2>1 DEF StampsKept
<1>2. Earned'
  <2>1. ASSUME NEW m \in Jobs, job'[m].state = "Succeeded"
        PROVE  \E i \in Numbers : /\ i = job'[m].last
                                  /\ attempt'[m][i].state = "Succeeded"
                                  /\ \A s \in Steps : attempt'[m][i].steps[s] = "Succeeded"
    <3>1. CASE m = j
      BY <1>0, <2>1, <3>1
    <3>2. CASE m # j
      BY <1>0, <2>1, <3>2 DEF AttemptOutcomes, Earned
    <3> QED
      BY <3>1, <3>2
  <2> QED
    BY <2>1 DEF Earned
<1>3. AttemptsSound'
  BY SavedSound DEF AttemptOutcomes
<1> QED
  BY <1>1, <1>2, <1>3 DEF AttemptOutcomes

-----------------------------------------------------------------------------
(* One argument per kind of transaction                                     *)

LEMMA ReplaysOutcomes ==
  ASSUME StoreInv, TypeOK', Outcomes, NEW j \in Jobs, NEW n \in Numbers, Replays(j, n)
  PROVE  Outcomes'
<1>1. TypeOK /\ job[j] \in JobRows /\ Moved(j, job[j]) /\ job[j].updated \in Nat
  BY DEF StoreInv, TypeOK, Moved, JobRows
<1>2. PICK t \in Nat : Rewrites(j, job[j], t)
  BY ReplaysRewrites
<1>3. CapacitySound(job[j])
  BY DEF Outcomes, JobsOutcomes, CapacityKept
<1>4. JobsOutcomes' /\ run.updated =< run'.updated
  BY <1>1, <1>2, <1>3, RewritesOutcomes DEF Outcomes
<1>5. \A m \in Jobs : job'[m].state = "Succeeded" =>
                        job[m].state = "Succeeded" /\ job'[m].last = job[m].last
  BY <1>1, <1>2, RewritesSucceeded
<1>6. AttemptOutcomes'
  BY <1>1, <1>4, <1>5, ReplaysRewrites, UntouchedAttempts DEF Outcomes
<1> QED
  BY <1>4, <1>6 DEF Outcomes

LEMMA RenewsOutcomes ==
  ASSUME StoreInv, TypeOK', Outcomes, NEW j \in Jobs, NEW n \in Numbers, Renews(j, n)
  PROVE  Outcomes'
<1> DEFINE b == attempt[j][n]
<1>1. PICK a \in AttemptRows :
        /\ b.state \in AttemptActive
        /\ a = [b EXCEPT !.token = a.token, !.heartbeat = a.heartbeat, !.lease = a.lease]
        /\ SaveAttempt(j, n, a)
        /\ UNCHANGED <<run, job>>
  BY DEF Renews
<1>2. TypeOK /\ b \in AttemptRows /\ run.updated \in Nat
  BY DEF StoreInv, TypeOK, RunRows
<1>3. AttemptRowCheck(a) /\ attempt' = [attempt EXCEPT ![j] = [@ EXCEPT ![n] = a]]
  BY <1>1 DEF SaveAttempt
<1>4. AttemptSound(n, b) /\ b.completed =< run.updated
  BY DEF Outcomes, AttemptOutcomes, AttemptsSound, StampsKept
<1>5. AttemptSound(n, a)
  BY <1>1, <1>2, <1>3, <1>4, RenewedSound
<1>6. a.completed =< run.updated
  BY <1>1, <1>2, <1>4 DEF AttemptRows
<1>7. job[j].state # "Succeeded"
  <2>1. job[j].current = n /\ n # NoNumber
    BY <1>1, AgreementByRow DEF StoreInv, RowAgreement, Numbers, NoNumber
  <2>2. job[j].state \in JobActive
    BY <2>1, AgreementByRow DEF StoreInv, RowAgreement
  <2> QED
    BY <2>2 DEF JobActive
<1>8. AttemptOutcomes'
  <2>1. AttemptOutcomes
    BY DEF Outcomes
  <2>2. run.updated =< run'.updated /\ a.completed =< run'.updated
    BY <1>1, <1>2, <1>6
  <2>3. /\ job'[j].state # "Succeeded"
        /\ \A m \in Jobs \ {j} : job'[m].state = "Succeeded" =>
                                   job[m].state = "Succeeded" /\ job'[m].last = job[m].last
    BY <1>1, <1>7
  <2> QED
    BY <1>2, <1>3, <1>5, <2>1, <2>2, <2>3, SavedOutcomes
<1>9. JobsOutcomes'
  BY <1>1 DEF Outcomes, JobsOutcomes, Reflecting, AggregateState, SkippedForCause, CapacityKept,
              CapacitySound, CapacityFacts
<1> QED
  BY <1>8, <1>9 DEF Outcomes

LEMMA AdvancesOutcomes ==
  ASSUME StoreInv, TypeOK', Outcomes, NEW j \in Jobs, NEW n \in Numbers, Advances(j, n)
  PROVE  Outcomes'
<1> DEFINE b == attempt[j][n]
<1>1. PICK k \in JobRows, a \in AttemptRows, t \in Nat :
        /\ b.state \in AttemptActive /\ a.state \in AttemptActive
        /\ job[j].state \in JobActive /\ k.state \in JobActive /\ k.last = job[j].last
        /\ k.retry = job[j].retry /\ job[j].updated =< k.updated
        /\ Progress(b, a)
        /\ AttemptRowCheck(a)
        /\ attempt' = [attempt EXCEPT ![j] = [@ EXCEPT ![n] = a]]
        /\ Rewrites(j, k, t)
  BY AdvancesRewrites
<1>2. TypeOK /\ b \in AttemptRows /\ job[j] \in JobRows /\ run.updated \in Nat /\ run'.updated \in Nat
  BY DEF StoreInv, TypeOK, RunRows
<1>3. Moved(j, k) /\ k.state \notin JobTerminal /\ k.state # "Succeeded"
  BY <1>1 DEF Moved, JobActive, JobTerminal
<1>4. CapacitySound(k)
  <2>1. Kept(job[j], k) /\ (job[j].state \in JobTerminal => k.state \in JobTerminal)
    BY <1>1 DEF Kept, JobActive, JobTerminal
  <2>2. CapacitySound(job[j])
    BY DEF Outcomes, JobsOutcomes, CapacityKept
  <2> QED
    BY <1>2, <2>1, <2>2, KeptCapacity
<1>5. JobsOutcomes' /\ run.updated =< run'.updated
  BY <1>1, <1>2, <1>3, <1>4, RewritesOutcomes DEF Outcomes
<1>6. AttemptSound(n, b) /\ b.completed =< run.updated
  BY DEF Outcomes, AttemptOutcomes, AttemptsSound, StampsKept
<1>7. AttemptSound(n, a)
  BY <1>1, <1>2, <1>6, ProgressSound
<1>8. a.completed =< run'.updated
  <2>1. a.completed = b.completed /\ b.completed \in Nat
    BY <1>1, <1>2 DEF Progress, AttemptRows
  <2> QED
    BY <1>2, <1>5, <1>6, <2>1
<1>9. /\ job'[j].state # "Succeeded"
      /\ \A m \in Jobs \ {j} : job'[m].state = "Succeeded" =>
                                 job[m].state = "Succeeded" /\ job'[m].last = job[m].last
  BY <1>1, <1>2, <1>3, RewritesSucceeded
<1>10. AttemptOutcomes'
  BY <1>1, <1>2, <1>5, <1>7, <1>8, <1>9, SavedOutcomes DEF Outcomes
<1> QED
  BY <1>5, <1>10 DEF Outcomes

LEMMA EndsOutcomes ==
  ASSUME StoreInv, TypeOK', Outcomes, NEW j \in Jobs, NEW n \in Numbers, Ends(j, n)
  PROVE  Outcomes'
<1> DEFINE b == attempt[j][n]
<1>1. PICK k \in JobRows, a \in AttemptRows :
        /\ b.state \in AttemptActive /\ a.state \in AttemptTerminal
        /\ job[j].state \in JobActive /\ job[j].last = n /\ k.last = n
        /\ k.state \in {"Queued", "Succeeded", "Failed", "Canceled", "Lost"}
        /\ \/ k.retry = job[j].retry /\ job[j].updated =< k.updated
           \/ job[j].updated =< a.completed /\ k = CapacityRejected(job[j], a.completed)
        /\ a.completed # NoTime
        /\ a = Finished(b, a.state, a.reason, a.steps, a.completed)
        /\ Ending(n, b, k.state, a.state, a.reason, a.steps)
        /\ AttemptRowCheck(a)
        /\ attempt' = [attempt EXCEPT ![j] = [@ EXCEPT ![n] = a]]
        /\ Rewrites(j, k, a.completed)
  BY EndsRewrites
<1>2. TypeOK /\ b \in AttemptRows /\ job[j] \in JobRows /\ a.completed \in Nat
  BY DEF StoreInv, TypeOK, AttemptRows
<1>3. Moved(j, k) /\ job[j].state \notin JobTerminal
  BY <1>1 DEF Moved, JobActive, JobTerminal
<1>4. CapacitySound(job[j])
  BY DEF Outcomes, JobsOutcomes, CapacityKept
<1>5. CapacitySound(k) /\ job[j].updated =< k.updated
  <2>1. CASE k.retry = job[j].retry /\ job[j].updated =< k.updated
    <3>1. Kept(job[j], k)
      BY <1>1, <2>1 DEF Kept, JobActive
    <3> QED
      BY <1>2, <1>3, <1>4, <2>1, <3>1, KeptCapacity
  <2>2. CASE job[j].updated =< a.completed /\ k = CapacityRejected(job[j], a.completed)
    <3>1. CapacitySound(k)
      BY <1>2, <1>3, <1>4, <2>2, RejectedCapacity
    <3>2. k.updated = a.completed
      BY <1>2, <2>2 DEF CapacityRejected, Released, JobRows
    <3> QED
      BY <2>2, <3>1, <3>2
  <2> QED
    BY <1>1, <2>1, <2>2
<1>6. JobsOutcomes' /\ run.updated =< run'.updated /\ a.completed =< run'.updated
  BY <1>1, <1>2, <1>3, <1>5, RewritesOutcomes DEF Outcomes
<1>7. AttemptSound(n, a)
  <2>1. AttemptSound(n, b)
    BY DEF Outcomes, AttemptOutcomes, AttemptsSound
  <2> QED
    BY <1>1, <1>2, <2>1, EndedSound
<1>8. /\ job'[j].state = "Succeeded" => k.state = "Succeeded"
      /\ job'[j].last = n
      /\ \A m \in Jobs \ {j} : job'[m].state = "Succeeded" =>
                                 job[m].state = "Succeeded" /\ job'[m].last = job[m].last
  BY <1>1, <1>2, RewritesSucceeded
<1>9. k.state = "Succeeded" => /\ a.state = "Succeeded"
                               /\ \A i \in Steps : a.steps[i] = "Succeeded"
  BY <1>1 DEF Ending
<1>10. AttemptOutcomes'
  BY <1>1, <1>2, <1>6, <1>7, <1>8, <1>9, SavedOutcomes DEF Outcomes
<1> QED
  BY <1>6, <1>10 DEF Outcomes

LEMMA InsertsOutcomes ==
  ASSUME StoreInv, TypeOK', Outcomes, NEW j \in Jobs, Inserts(j)
  PROVE  Outcomes'
<1>1. PICK k \in JobRows, a \in AttemptRows, n \in Numbers, t \in Nat :
        /\ job[j].state = "Queued" /\ ~run.cancel
        /\ k.state = "Dispatching"
        /\ k.retry = [job[j].retry EXCEPT !.next = NoTime] /\ job[j].updated =< k.updated
        /\ a.state = "Dispatching"
        /\ a = [NoAttempt EXCEPT !.state = a.state, !.lease = a.lease,
                                 !.heartbeat = a.heartbeat, !.created = a.created]
        /\ AttemptRowCheck(a)
        /\ attempt' = [attempt EXCEPT ![j] = [@ EXCEPT ![n] = a]]
        /\ Rewrites(j, k, t)
  BY InsertsRewrites
<1>2. TypeOK /\ job[j] \in JobRows /\ run'.updated \in Nat
  BY DEF StoreInv, TypeOK, RunRows
<1>3. Moved(j, k) /\ job[j].state \notin JobTerminal
  BY <1>1 DEF Moved, JobTerminal
<1>4. CapacitySound(k)
  <2>1. CapacitySound(job[j]) /\ Kept(job[j], k)
    BY <1>1 DEF Outcomes, JobsOutcomes, CapacityKept, Kept
  <2> QED
    BY <1>2, <1>3, <2>1, KeptCapacity
<1>5. JobsOutcomes' /\ run.updated =< run'.updated
  BY <1>1, <1>2, <1>3, <1>4, RewritesOutcomes DEF Outcomes
<1>6. AttemptSound(n, a)
  BY <1>1, InsertedSound
<1>7. a.completed =< run'.updated
  <2>1. a.completed = 0
    BY <1>1 DEF NoAttempt, NoTime
  <2> QED
    BY <1>2, <2>1
<1>8. /\ job'[j].state # "Succeeded"
      /\ \A m \in Jobs \ {j} : job'[m].state = "Succeeded" =>
                                 job[m].state = "Succeeded" /\ job'[m].last = job[m].last
  BY <1>1, <1>2, RewritesSucceeded
<1>9. AttemptOutcomes'
  BY <1>1, <1>2, <1>5, <1>6, <1>7, <1>8, SavedOutcomes DEF Outcomes
<1> QED
  BY <1>5, <1>9 DEF Outcomes

LEMMA GivesUpOutcomes ==
  ASSUME StoreInv, TypeOK', Outcomes, NEW j \in Jobs, GivesUp(j)
  PROVE  Outcomes'
<1>1. PICK k \in JobRows, t \in Nat :
        /\ job[j].state = "Queued" /\ k.state = "Failed" /\ k.last = job[j].last
        /\ k.retry = [job[j].retry EXCEPT !.next = NoTime] /\ job[j].updated =< k.updated
        /\ attempt' = attempt
        /\ Rewrites(j, k, t)
  BY GivesUpRewrites
<1>2. TypeOK /\ job[j] \in JobRows
  BY DEF StoreInv, TypeOK
<1>3. Moved(j, k) /\ k.state \in JobTerminal
  BY <1>1 DEF Moved, JobTerminal
<1>4. CapacitySound(k)
  <2>1. CapacitySound(job[j]) /\ Kept(job[j], k)
    BY <1>1 DEF Outcomes, JobsOutcomes, CapacityKept, Kept
  <2> QED
    BY <1>2, <1>3, <2>1, KeptCapacity
<1>5. JobsOutcomes' /\ run.updated =< run'.updated
  BY <1>1, <1>2, <1>3, <1>4, RewritesOutcomes DEF Outcomes
<1>6. \A m \in Jobs : job'[m].state = "Succeeded" =>
                        job[m].state = "Succeeded" /\ job'[m].last = job[m].last
  BY <1>1, <1>2, RewritesSucceeded
<1>7. AttemptOutcomes'
  BY <1>1, <1>2, <1>5, <1>6, UntouchedAttempts DEF Outcomes
<1> QED
  BY <1>5, <1>7 DEF Outcomes

LEMMA CancellationOutcomes ==
  ASSUME StoreInv, TypeOK', Outcomes, NEW now \in Now, RequestCancellation(now)
  PROVE  Outcomes'
<1>1. TypeOK
  BY DEF StoreInv
<1>2. PICK r \in RunRows : \E settled :
        /\ r.state = run.state /\ run.updated =< r.updated
        /\ Derived(r, job, settled, Jobs) /\ Reflects(r, job, settled, now)
        /\ settled = job \/ TakenAlong(job, settled)
  BY <1>1, CancellationEffect
<1>3. PICK settled : /\ r.state = run.state /\ run.updated =< r.updated
                     /\ Derived(r, job, settled, Jobs) /\ Reflects(r, job, settled, now)
                     /\ settled = job \/ TakenAlong(job, settled)
  BY <1>2
<1>4. /\ settled \in [Jobs -> JobRows] /\ job' = settled /\ attempt' = attempt
      /\ \A j \in Jobs : Reconciled(job[j], job'[j]) /\ Kept(job[j], job'[j])
  BY <1>3 DEF Derived, Reflects, RequestCancellation
<1>5. /\ r.updated =< run'.updated /\ \A j \in Jobs : job'[j].updated =< run'.updated
      /\ run.updated =< run'.updated
  <2>1. /\ r.updated =< run'.updated
        /\ \A j \in Jobs : settled[j].updated =< run'.updated
    BY <1>3 DEF Reflects, IsLatest
  <2>2. run.updated \in Nat /\ r.updated \in Nat /\ run'.updated \in Nat
    BY <1>1 DEF TypeOK, RunRows
  <2> QED
    BY <1>3, <1>4, <2>1, <2>2
<1>6. Reflecting'
  <2>1. run'.state = AggregateState(run.state, job')
    BY <1>3, <1>4 DEF Reflects
  <2>2. run'.state = AggregateState(run'.state, job')
    BY <2>1, AggregateAgain
  <2>3. run'.state \in RunTerminal => (run'.cancel <=> run'.state = "Canceled")
    BY <1>3 DEF Reflects
  <2> QED
    BY <1>5, <2>2, <2>3 DEF Reflecting
<1>7. SkippedForCause'
  <2>1. ASSUME NEW j \in Jobs, job'[j].state = "Skipped"
        PROVE  \E d \in Needs[j] : job'[d].state \in JobTerminal \ {"Succeeded"}
    <3>1. job[j].state = "Skipped"
      BY <1>3, <1>4, <2>1 DEF TakenAlong
    <3>2. PICK d \in Needs[j] : job[d].state \in JobTerminal \ {"Succeeded"}
      BY <3>1 DEF Outcomes, JobsOutcomes, SkippedForCause
    <3>3. d \in Jobs
      BY JobsAssumption
    <3>4. job'[d].state = job[d].state
      BY <1>4, <3>2, <3>3 DEF Reconciled, JobTerminal
    <3> QED
      BY <3>2, <3>4
  <2> QED
    BY <2>1 DEF SkippedForCause
<1>8. CapacityKept'
  <2>1. ASSUME NEW j \in Jobs PROVE CapacitySound(job'[j])
    <3>1. CapacitySound(job[j]) /\ job[j] \in JobRows /\ job'[j] \in JobRows
      BY <1>1, <1>4 DEF Outcomes, JobsOutcomes, CapacityKept, TypeOK
    <3>2. job[j].state \in JobTerminal => job'[j].state \in JobTerminal
      BY <1>4 DEF Reconciled, JobTerminal
    <3> QED
      BY <1>4, <3>1, <3>2, KeptCapacity
  <2>2. \A j \in Jobs : CapacitySound(job[j])'
    BY <2>1 DEF CapacitySound, CapacityFacts
  <2> QED
    BY <2>2 DEF CapacityKept
<1>9. \A j \in Jobs : job'[j].state = "Succeeded" =>
                        job[j].state = "Succeeded" /\ job'[j].last = job[j].last
  BY <1>4 DEF Reconciled
<1>10. AttemptOutcomes'
  BY <1>1, <1>4, <1>5, <1>9, UntouchedAttempts DEF Outcomes
<1> QED
  BY <1>6, <1>7, <1>8, <1>10 DEF Outcomes, JobsOutcomes

\* A run starts, and starts again, with every job waiting.
LEMMA FreshAggregate ==
  ASSUME NEW js, \A j \in Jobs : js[j].state \in {"Blocked", "Queued"}
  PROVE  AggregateState("Queued", js) = "Queued"
  BY JobsAssumption DEF AggregateState, JobTerminal

LEMMA FreshCapacity ==
  ASSUME NEW k, k.retry = NoCapacityRetry
  PROVE  CapacitySound(k)
  BY BoundsAssumption DEF CapacitySound, CapacityFacts, NoCapacityRetry

LEMMA RetryOutcomes ==
  ASSUME StoreInv, TypeOK', Outcomes, NEW now \in Now, RetryRun(now)
  PROVE  Outcomes'
<1>1. TypeOK /\ attempt' = attempt /\ now \in Nat
  BY NowNat DEF StoreInv, RetryRun
<1>2. /\ run'.state = "Queued" /\ run'.cancel = FALSE /\ run'.updated = now
      /\ run.updated =< now
  BY DEF RetryRun
<1>3. \A j \in Jobs : /\ job'[j].state = InitialJobState(j)
                      /\ job'[j].updated = now /\ job'[j].retry = NoCapacityRetry
  BY <1>1 DEF RetryRun, TypeOK, JobRows
<1>4. \A j \in Jobs : job'[j].state \in {"Blocked", "Queued"}
  BY <1>3 DEF InitialJobState
<1>5. Reflecting'
  <2>1. run'.state = AggregateState(run'.state, job')
    BY <1>2, <1>4, FreshAggregate
  <2> QED
    BY <1>1, <1>2, <1>3, <2>1 DEF Reflecting, RunTerminal
<1>6. SkippedForCause'
  BY <1>4 DEF SkippedForCause
<1>7. CapacityKept'
  <2>1. \A j \in Jobs : CapacitySound(job'[j])
    BY <1>3, FreshCapacity
  <2>2. \A j \in Jobs : CapacitySound(job[j])'
    BY <2>1 DEF CapacitySound, CapacityFacts
  <2> QED
    BY <2>2 DEF CapacityKept
<1>8. AttemptOutcomes'
  BY <1>1, <1>2, <1>4, UntouchedAttempts DEF Outcomes
<1> QED
  BY <1>5, <1>6, <1>7, <1>8 DEF Outcomes, JobsOutcomes

LEMMA InitOutcomes == Init => Outcomes
<1> SUFFICES ASSUME Init PROVE Outcomes
  OBVIOUS
<1>1. \A j \in Jobs : /\ job[j].state = InitialJobState(j)
                      /\ job[j].updated = 1 /\ job[j].retry = NoCapacityRetry
  BY DEF Init
<1>2. run.state = "Queued" /\ run.cancel = FALSE /\ run.updated = 1
  BY DEF Init
<1>3. \A j \in Jobs : job[j].state \in {"Blocked", "Queued"}
  BY <1>1 DEF InitialJobState
<1>4. Reflecting
  BY <1>1, <1>2, <1>3, FreshAggregate DEF Reflecting, RunTerminal
<1>5. SkippedForCause /\ Earned
  BY <1>3 DEF SkippedForCause, Earned
<1>6. CapacityKept
  BY <1>1, FreshCapacity DEF CapacityKept
<1>7. \A j \in Jobs, n \in Numbers : attempt[j][n] = NoAttempt
  BY DEF Init
<1>8. StampsKept
  BY <1>2, <1>7 DEF StampsKept, NoAttempt, NoTime
<1>9. AttemptsSound
  <2>1. NoAttempt = [NoAttempt EXCEPT !.state = NoAttempt.state, !.lease = NoAttempt.lease,
                       !.heartbeat = NoAttempt.heartbeat, !.created = NoAttempt.created]
    BY DEF NoAttempt
  <2>2. \A n : AttemptSound(n, NoAttempt)
    BY <2>1, NoAttemptType, InsertedSound
  <2> QED
    BY <1>7, <2>2 DEF AttemptsSound
<1> QED
  BY <1>4, <1>5, <1>6, <1>8, <1>9 DEF Outcomes, JobsOutcomes, AttemptOutcomes

LEMMA NextOutcomes == StoreInv /\ Outcomes /\ [LateNext]_vars => Outcomes'
<1> SUFFICES ASSUME StoreInv, Outcomes, [LateNext]_vars PROVE Outcomes'
  OBVIOUS
<1>1. TypeOK /\ TypeOK'
  BY NextType DEF StoreInv
<1>2. ASSUME UNCHANGED <<run, job, attempt>> PROVE Outcomes'
  <2>1. JobsOutcomes'
    BY <1>2 DEF Outcomes, JobsOutcomes, Reflecting, AggregateState, SkippedForCause,
                CapacityKept, CapacitySound, CapacityFacts
  <2>2. run.updated \in Nat
    BY <1>1 DEF TypeOK, RunRows
  <2>3. AttemptOutcomes'
    BY <1>1, <1>2, <2>2, UntouchedAttempts DEF Outcomes
  <2> QED
    BY <2>1, <2>3 DEF Outcomes
<1>3. CASE UNCHANGED vars
  BY <1>2, <1>3 DEF vars
<1>4. CASE Tick
  BY <1>2, <1>4 DEF Tick
<1>5. ASSUME NEW now \in Now, RequestCancellation(now) PROVE Outcomes'
  BY <1>1, <1>5, CancellationOutcomes
<1>6. ASSUME NEW now \in Now, RetryRun(now) PROVE Outcomes'
  BY <1>1, <1>6, RetryOutcomes
<1>7. ASSUME NEW now \in Now, NEW j \in Jobs, Dispatch(j, now) PROVE Outcomes'
  BY <1>1, <1>7, DispatchKind, InsertsOutcomes
<1>8. ASSUME NEW now \in Now, NEW j \in Jobs, ExpireCapacityRetry(j, now) PROVE Outcomes'
  BY <1>1, <1>8, ExpireCapacityRetryKind, GivesUpOutcomes
<1>9. ASSUME NEW now \in Nat \ {0}, NEW j \in Jobs, NEW n \in Numbers, AttemptAction(j, n, now)
      PROVE  Outcomes'
  <2>1. Replays(j, n) \/ Renews(j, n) \/ Advances(j, n) \/ Ends(j, n)
    BY <1>1, <1>9, AttemptKinds
  <2> QED
    BY <1>1, <2>1, ReplaysOutcomes, RenewsOutcomes, AdvancesOutcomes, EndsOutcomes
<1> QED
  BY <1>3, <1>4, <1>5, <1>6, <1>7, <1>8, <1>9 DEF LateNext, JobAction

LEMMA OutcomesInvariant ==
  /\ Spec => [](StoreInv /\ Outcomes)
  /\ LateSpec => [](StoreInv /\ Outcomes)
<1>1. Init => Outcomes
  BY InitOutcomes
<1>2. StoreInv /\ Outcomes /\ [LateNext]_vars => Outcomes'
  BY NextOutcomes
<1>3. StoreInv /\ Outcomes /\ [Next]_vars => Outcomes'
  BY NextOutcomes, NextIsLate DEF StoreInv
<1> QED
  BY <1>1, <1>2, <1>3, StoreInvariant, PTL DEF Spec, LateSpec

-----------------------------------------------------------------------------
(* The theorems                                                             *)

LEMMA OutcomesGive ==
  ASSUME StoreInv, Outcomes
  PROVE  RunReflectsJobs /\ SuccessIsEarned /\ ExecutionFits /\ RowsRestorable
<1>1. RunReflectsJobs
  BY DEF StoreInv, CanceledKnown, Outcomes, JobsOutcomes, AttemptOutcomes, Reflecting, StampsKept,
         RunReflectsJobs
<1>2. SuccessIsEarned
  <2>1. Earned
    BY DEF Outcomes, AttemptOutcomes
  <2>2. ASSUME run.state = "Succeeded" PROVE \A j \in Jobs : job[j].state = "Succeeded"
    <3>1. AggregateState(run.state, job) = "Succeeded"
      BY <2>2 DEF Outcomes, JobsOutcomes, Reflecting
    <3>2. \A j \in Jobs : job[j].state \in {"Succeeded", "Skipped"}
      BY <3>1 DEF AggregateState, JobTerminal
    <3> QED
      BY <3>2, NoneSkipped DEF Outcomes, JobsOutcomes
  <2> QED
    BY <2>1, <2>2 DEF SuccessIsEarned, Earned
<1>3. ExecutionFits
  BY DEF Outcomes, AttemptOutcomes, AttemptsSound, AttemptSound, ExecutionFits
<1>4. RowsRestorable
  BY DEF Outcomes, JobsOutcomes, CapacityKept, CapacitySound, AttemptOutcomes, AttemptsSound,
         AttemptSound, RowsRestorable
<1> QED
  BY <1>1, <1>2, <1>3, <1>4

\* In every workflow the run row is what derive_run_state would compute from the
\* stored jobs, although most transactions save only one of them, and its stamp is
\* never behind a job's or an ended attempt's.
THEOREM RunRowTruthful == Spec => []RunReflectsJobs
<1>1. StoreInv /\ Outcomes => RunReflectsJobs
  BY OutcomesGive
<1> QED
  BY <1>1, OutcomesInvariant, PTL

\* A job is Succeeded only with a latest attempt in which every step succeeded, and
\* a run only when all its jobs are: no lost, failed or skipped job hides in it.
THEOREM SuccessEarned == Spec => []SuccessIsEarned
<1>1. StoreInv /\ Outcomes => SuccessIsEarned
  BY OutcomesGive
<1> QED
  BY <1>1, OutcomesInvariant, PTL

\* Every stored attempt passes validate_execution, whatever ended it: its steps are
\* in order and fit its state and reason.
THEOREM StepsAlwaysFit == Spec => []ExecutionFits
<1>1. StoreInv /\ Outcomes => ExecutionFits
  BY OutcomesGive
<1> QED
  BY <1>1, OutcomesInvariant, PTL

\* Every stored job and attempt passes validate_facts when it is next loaded: no
\* sequence of rejections, losses and late reports leaves a row that cannot be read.
THEOREM RowsLoadable == Spec => []RowsRestorable
<1>1. StoreInv /\ Outcomes => RowsRestorable
  BY OutcomesGive
<1> QED
  BY <1>1, OutcomesInvariant, PTL

-----------------------------------------------------------------------------
(* Cancellation                                                             *)

\* The steps an attempt ends with: none of them has just started.
LEMMA EndingStartsNothing ==
  ASSUME NEW n, NEW b, b.steps \in [Steps -> StepStates], NEW k, NEW state, NEW reason, NEW steps,
         Ending(n, b, k, state, reason, steps), NEW i \in Steps, steps[i] = "Running"
  PROVE  b.steps[i] = "Running"
<1>1. ASSUME NEW s \in [Steps -> StepStates], SkipPending(s)[i] = "Running"
      PROVE  s[i] = "Running"
  BY <1>1 DEF SkipPending
<1>2. ASSUME NEW s \in {"Canceled", "Lost"} PROVE InterruptSteps(b.steps, s)[i] # "Running"
  BY <1>2 DEF InterruptSteps, SkipPending
<1>3. ASSUME NEW m \in Steps, SkipPending([b.steps EXCEPT ![m] = "Failed"])[i] = "Running"
      PROVE  b.steps[i] = "Running"
  BY <1>3 DEF SkipPending
<1> QED
  BY <1>1, <1>2, <1>3 DEF Ending

LEMMA NextCancellation ==
  ASSUME StoreInv, [LateNext]_vars, run.cancel, run.state \notin RunTerminal
  PROVE  /\ \A j \in Jobs : job'[j].last = job[j].last
         /\ \A j \in Jobs : job'[j].state = "Succeeded" => job[j].state = "Succeeded"
         /\ \A j \in Jobs, n \in Numbers, i \in Steps :
              attempt'[j][n].steps[i] = "Running" => attempt[j][n].steps[i] = "Running"
<1> DEFINE Goal ==
      /\ \A j \in Jobs : job'[j].last = job[j].last
      /\ \A j \in Jobs : job'[j].state = "Succeeded" => job[j].state = "Succeeded"
      /\ \A j \in Jobs, n \in Numbers, i \in Steps :
           attempt'[j][n].steps[i] = "Running" => attempt[j][n].steps[i] = "Running"
<1> SUFFICES Goal
  OBVIOUS
<1>1. TypeOK
  BY DEF StoreInv
<1>2. ASSUME NEW j \in Jobs, NEW n \in Numbers, NEW a,
             attempt' = [attempt EXCEPT ![j] = [@ EXCEPT ![n] = a]],
             \A i \in Steps : a.steps[i] = "Running" => attempt[j][n].steps[i] = "Running"
      PROVE  \A m \in Jobs, l \in Numbers, i \in Steps :
               attempt'[m][l].steps[i] = "Running" => attempt[m][l].steps[i] = "Running"
  <2>1. /\ attempt'[j][n] = a
        /\ \A m \in Numbers \ {n} : attempt'[j][m] = attempt[j][m]
        /\ \A m \in Jobs \ {j} : attempt'[m] = attempt[m]
    BY <1>1, <1>2, SavedAttempt
  <2> QED
    BY <1>2, <2>1
<1>3. CASE UNCHANGED vars
  BY <1>3 DEF vars
<1>4. CASE Tick
  BY <1>4 DEF Tick
<1>5. ASSUME NEW now \in Now, RequestCancellation(now) PROVE Goal
  BY <1>5 DEF RequestCancellation
<1>6. ASSUME NEW now \in Now, RetryRun(now) PROVE Goal
  BY <1>6 DEF RetryRun
<1>7. ASSUME NEW now \in Now, NEW j \in Jobs, Dispatch(j, now) PROVE Goal
  BY <1>1, <1>7, DispatchKind, InsertsRewrites
<1>8. ASSUME NEW now \in Now, NEW j \in Jobs, ExpireCapacityRetry(j, now) PROVE Goal
  <2>1. GivesUp(j)
    BY <1>1, <1>8, ExpireCapacityRetryKind
  <2>2. PICK k \in JobRows, t \in Nat :
          k.state = "Failed" /\ k.last = job[j].last /\ attempt' = attempt /\ Rewrites(j, k, t)
    BY <2>1, GivesUpRewrites
  <2> QED
    BY <1>1, <2>2, RewritesSucceeded
<1>9. ASSUME NEW j \in Jobs, NEW n \in Numbers, Replays(j, n) PROVE Goal
  <2>1. job[j] \in JobRows
    BY <1>1 DEF TypeOK
  <2>2. PICK t \in Nat : Rewrites(j, job[j], t)
    BY <1>9, ReplaysRewrites
  <2>3. attempt' = attempt
    BY <1>9, ReplaysRewrites
  <2> QED
    BY <1>1, <2>1, <2>2, <2>3, RewritesSucceeded
<1>10. ASSUME NEW j \in Jobs, NEW n \in Numbers, Renews(j, n) PROVE Goal
  <2> DEFINE b == attempt[j][n]
  <2>1. PICK a \in AttemptRows :
          /\ a = [b EXCEPT !.token = a.token, !.heartbeat = a.heartbeat, !.lease = a.lease]
          /\ attempt' = [attempt EXCEPT ![j] = [@ EXCEPT ![n] = a]]
          /\ job' = job
    BY <1>10 DEF Renews, SaveAttempt
  <2>2. b \in AttemptRows
    BY <1>1 DEF TypeOK
  <2>3. a.steps = b.steps
    BY <2>1, <2>2 DEF AttemptRows
  <2> QED
    BY <1>2, <2>1, <2>3
<1>11. ASSUME NEW j \in Jobs, NEW n \in Numbers, Advances(j, n) PROVE Goal
  <2> DEFINE b == attempt[j][n]
  <2>1. PICK k \in JobRows, a \in AttemptRows, t \in Nat :
          /\ k.state \in JobActive /\ k.last = job[j].last
          /\ Progress(b, a)
          /\ attempt' = [attempt EXCEPT ![j] = [@ EXCEPT ![n] = a]]
          /\ Rewrites(j, k, t)
    BY <1>11, AdvancesRewrites
  <2>2. b.steps \in [Steps -> StepStates] /\ k.state # "Succeeded"
    BY <1>1, <2>1 DEF TypeOK, AttemptRows, JobActive
  <2>3. PICK i \in Steps : a.steps = [b.steps EXCEPT ![i] = "Succeeded"]
    BY <2>1 DEF Progress, StepMayStart
  <2>4. \A m \in Steps : a.steps[m] = "Running" => b.steps[m] = "Running"
    BY <2>2, <2>3
  <2>5. \A m \in Jobs : /\ job'[m].last = job[m].last
                        /\ job'[m].state = "Succeeded" => job[m].state = "Succeeded"
    BY <1>1, <2>1, <2>2, RewritesSucceeded
  <2> QED
    BY <1>2, <2>1, <2>4, <2>5
<1>12. ASSUME NEW j \in Jobs, NEW n \in Numbers, Ends(j, n) PROVE Goal
  <2> DEFINE b == attempt[j][n]
  <2>1. PICK k \in JobRows, a \in AttemptRows :
          /\ job[j].last = n /\ k.last = n
          /\ Ending(n, b, k.state, a.state, a.reason, a.steps)
          /\ attempt' = [attempt EXCEPT ![j] = [@ EXCEPT ![n] = a]]
          /\ Rewrites(j, k, a.completed)
    BY <1>12, EndsRewrites
  <2>2. b.steps \in [Steps -> StepStates]
    BY <1>1 DEF TypeOK, AttemptRows
  <2>3. \A m \in Steps : a.steps[m] = "Running" => b.steps[m] = "Running"
    BY <2>1, <2>2, EndingStartsNothing
  <2>4. k.state # "Succeeded"
    BY <2>1 DEF Ending
  <2>5. \A m \in Jobs : /\ job'[m].last = job[m].last
                        /\ job'[m].state = "Succeeded" => job[m].state = "Succeeded"
    BY <1>1, <2>1, <2>4, RewritesSucceeded
  <2> QED
    BY <1>2, <2>1, <2>3, <2>5
<1>13. ASSUME NEW now \in Nat \ {0}, NEW j \in Jobs, NEW n \in Numbers, AttemptAction(j, n, now)
       PROVE  Goal
  <2>1. Replays(j, n) \/ Renews(j, n) \/ Advances(j, n) \/ Ends(j, n)
    BY <1>1, <1>13, AttemptKinds
  <2> HIDE DEF Goal
  <2> QED
    BY <1>9, <1>10, <1>11, <1>12, <2>1
<1> HIDE DEF Goal
<1> QED
  BY <1>3, <1>4, <1>5, <1>6, <1>7, <1>8, <1>13 DEF LateNext, JobAction

\* From a cancellation request to the end of the run no attempt is created, no step
\* starts and no job succeeds, whatever reports were already on their way.
THEOREM CancellationFinal == Spec => CancellationHolds
<1>1. StoreInv /\ [Next]_vars =>
        [run.cancel /\ run.state \notin RunTerminal =>
           /\ \A j \in Jobs : job'[j].last = job[j].last
           /\ \A j \in Jobs : job'[j].state = "Succeeded" => job[j].state = "Succeeded"
           /\ \A j \in Jobs, n \in Numbers, i \in Steps :
                attempt'[j][n].steps[i] = "Running" => attempt[j][n].steps[i] = "Running"]_vars
  BY NextCancellation, NextIsLate DEF StoreInv
<1> QED
  BY <1>1, StoreInvariant, PTL DEF Spec, CancellationHolds

-----------------------------------------------------------------------------
(* Finished runs                                                            *)

LEMMA NextFinished ==
  ASSUME StoreInv, Outcomes, [LateNext]_vars, run.state \in RunTerminal
  PROVE  \/ run' = run /\ job' = job
         \/ /\ run' = [state |-> "Queued", cancel |-> FALSE, updated |-> run'.updated]
            /\ \A j \in Jobs : job'[j].state = InitialJobState(j) /\ job'[j].last = job[j].last
<1>1. TypeOK /\ TypeOK'
  BY NextType DEF StoreInv
<1>2. \A j \in Jobs : job[j].state \in JobTerminal /\ job[j].state \notin {"Blocked", "Queued"}
  BY DEF StoreInv, EndedTogether, JobTerminal
<1>3. \A j \in Jobs, n \in Numbers : attempt[j][n].state \notin AttemptActive
  <2>1. ASSUME NEW j \in Jobs, NEW n \in Numbers PROVE attempt[j][n].state \notin AttemptActive
    <3>1. job[j].state \notin JobActive
      BY <1>2 DEF JobActive, JobTerminal
    <3> QED
      BY <3>1, AgreementByRow DEF StoreInv, RowAgreement, Numbers, NoNumber
  <2> QED
    BY <2>1
<1>4. CASE UNCHANGED vars
  BY <1>4 DEF vars
<1>5. CASE Tick
  BY <1>5 DEF Tick
<1>6. ASSUME NEW now \in Now, RequestCancellation(now) PROVE FALSE
  BY <1>6 DEF RequestCancellation
<1>7. ASSUME NEW now \in Now, RetryRun(now)
      PROVE  /\ run' = [state |-> "Queued", cancel |-> FALSE, updated |-> run'.updated]
             /\ \A j \in Jobs : job'[j].state = InitialJobState(j) /\ job'[j].last = job[j].last
  BY <1>1, <1>7 DEF RetryRun, TypeOK, JobRows
<1>8. ASSUME NEW now \in Now, NEW j \in Jobs, JobAction(j, now) PROVE FALSE
  BY <1>2, <1>8 DEF JobAction, Dispatch, ExpireCapacityRetry
<1>9. ASSUME NEW j \in Jobs, NEW n \in Numbers, Replays(j, n) PROVE run' = run /\ job' = job
  <2> DEFINE js == [job EXCEPT ![j] = job[j]]
  <2>1. job \in [Jobs -> JobRows] /\ job' \in [Jobs -> JobRows] /\ js = job
    BY <1>1 DEF TypeOK
  <2>2. PICK t \in Nat : /\ Rewrites(j, job[j], t)
                         /\ t = job[j].updated \/ t = attempt[j][n].completed
    BY <1>9, ReplaysRewrites
  <2>3. PICK settled \in [Jobs -> JobRows] :
          /\ Reflects(run, job, settled, t)
          /\ \A m \in Jobs : job'[m] = settled[m] \/ job'[m] = job[m]
    BY <2>1, <2>2 DEF Rewrites
  <2>4. settled = job
    BY <1>2, <2>3 DEF Reflects
  <2>5. job' = job
    BY <2>1, <2>3, <2>4
  <2>6. run'.state = run.state
    BY <2>3, <2>4 DEF Reflects, Outcomes, JobsOutcomes, Reflecting
  <2>7. run'.cancel = run.cancel
    <3>1. (run'.cancel <=> run'.state = "Canceled") /\ (run.cancel <=> run.state = "Canceled")
      BY <2>3, <2>6 DEF Reflects, Outcomes, JobsOutcomes, Reflecting
    <3>2. run'.cancel \in BOOLEAN /\ run.cancel \in BOOLEAN
      BY <1>1 DEF TypeOK, RunRows
    <3> QED
      BY <2>6, <3>1, <3>2
  <2>8. run'.updated = run.updated
    <3>1. run.updated \in Nat /\ run'.updated \in Nat
      BY <1>1 DEF TypeOK, RunRows
    <3>2. t =< run.updated /\ \A m \in Jobs : job[m].updated =< run.updated
      BY <2>2 DEF Outcomes, JobsOutcomes, AttemptOutcomes, Reflecting, StampsKept
    <3>3. IsLatest(run'.updated, {t, run.updated} \cup {job[m].updated : m \in Jobs})
      BY <2>3, <2>4 DEF Reflects
    <3>4. run'.updated =< run.updated
      BY <3>1, <3>2, <3>3 DEF IsLatest
    <3>5. run.updated =< run'.updated
      BY <3>3 DEF IsLatest
    <3> QED
      BY <3>1, <3>4, <3>5
  <2>9. run' = run
    BY <1>1, <2>6, <2>7, <2>8 DEF TypeOK, RunRows
  <2> QED
    BY <2>5, <2>9
<1>10. ASSUME NEW now \in Nat \ {0}, NEW j \in Jobs, NEW n \in Numbers, AttemptAction(j, n, now)
       PROVE  run' = run /\ job' = job
  <2>1. Replays(j, n) \/ Renews(j, n) \/ Advances(j, n) \/ Ends(j, n)
    BY <1>1, <1>10, AttemptKinds
  <2>2. ~ (Renews(j, n) \/ Advances(j, n) \/ Ends(j, n))
    BY <1>3 DEF Renews, Advances, Ends
  <2> QED
    BY <1>9, <2>1, <2>2
<1> QED
  BY <1>4, <1>5, <1>6, <1>7, <1>8, <1>10 DEF LateNext

\* Once a run has ended, repeated completions, rejections and confirmations are
\* accepted and change neither the run nor its jobs, down to their stamps; only
\* retry_run does, and it starts every job afresh.
THEOREM FinishedRunsStand == Spec => FinishedRunsOnlyRetried
<1>1. StoreInv /\ Outcomes /\ [Next]_vars =>
        [run.state \in RunTerminal /\ <<run, job>>' # <<run, job>> =>
           /\ run' = [state |-> "Queued", cancel |-> FALSE, updated |-> run'.updated]
           /\ \A j \in Jobs : job'[j].state = InitialJobState(j) /\ job'[j].last = job[j].last]_vars
  BY NextFinished, NextIsLate DEF StoreInv
<1> QED
  BY <1>1, OutcomesInvariant, PTL DEF Spec, FinishedRunsOnlyRetried
=============================================================================
