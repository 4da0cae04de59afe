----------------------- MODULE ContentStorageProofs -----------------------
(***************************************************************************)
(* Invariants of ContentCleanup and RepoStorage, proved for any number of  *)
(* objects, runs, publications, drains, creations, requests and            *)
(* incarnations, and for every grace, claim time and delay.                *)
(***************************************************************************)
EXTENDS ContentStorage, TLAPS

-----------------------------------------------------------------------------
(* Type correctness                                                         *)

JobRows ==
  [open : BOOLEAN, claim : Drains \cup {Nobody}, attempts : 0..MaxAttempts, due : Nat]
PublisherRows ==
  [pc : {"idle", "put", "enqueue", "rollback", "release"}, at : Objects \cup {Nobody}]
DrainRows ==
  [pc : {"idle", "next", "claim", "refs", "delete"}, at : Objects \cup {Nobody},
   loaded : SUBSET Objects, todo : SUBSET Objects, retained : SUBSET Objects, age : Nat]

LEMMA TypeByRow ==
  TypeOK <=> /\ stored \in SUBSET Objects /\ lost \in SUBSET Objects
             /\ refs \in [Objects -> SUBSET Runs]
             /\ job \in [Objects -> JobRows]
             /\ fence \in [Objects -> Publishers \cup Drains \cup {Nobody}]
             /\ publisher \in [Publishers -> PublisherRows]
             /\ drain \in [Drains -> DrainRows]
  BY DEF TypeOK, JobRows, PublisherRows, DrainRows

LEMMA TypeByNextRow ==
  TypeOK' <=> /\ stored' \in SUBSET Objects /\ lost' \in SUBSET Objects
              /\ refs' \in [Objects -> SUBSET Runs]
              /\ job' \in [Objects -> JobRows]
              /\ fence' \in [Objects -> Publishers \cup Drains \cup {Nobody}]
              /\ publisher' \in [Publishers -> PublisherRows]
              /\ drain' \in [Drains -> DrainRows]
  BY DEF TypeOK, JobRows, PublisherRows, DrainRows

LEMMA ConstantRows ==
  /\ NoJob \in JobRows /\ Queued \in JobRows
  /\ NotPublishing \in PublisherRows /\ NotDraining \in DrainRows
  BY CleanupAssumption DEF NoJob, Queued, NotPublishing, NotDraining, JobRows, PublisherRows,
                           DrainRows

LEMMA RetainedType ==
  ASSUME NEW d \in Drains, NEW o \in Objects, job[o] \in JobRows, drain[d] \in DrainRows
  PROVE  /\ Retained(d, o) \in JobRows
         /\ Retained(d, o).open = job[o].open /\ Retained(d, o).claim = job[o].claim
<1> DEFINE n == IF job[o].attempts < MaxAttempts THEN job[o].attempts + 1 ELSE MaxAttempts
           due == Later(RetryDelays[n] - drain[d].age, 0)
<1>1. n \in 1..MaxAttempts
  BY CleanupAssumption DEF JobRows
<1>2. due \in Nat
  BY <1>1, CleanupAssumption DEF DrainRows, Later
<1>3. Retained(d, o) = [job[o] EXCEPT !.attempts = n, !.due = due]
  BY DEF Retained
<1>4. n \in 0..MaxAttempts
  BY <1>1
<1> HIDE DEF n, due
<1> QED
  BY <1>2, <1>3, <1>4 DEF JobRows

-----------------------------------------------------------------------------
(* Why nothing referenced is deleted                                        *)

\* Whoever works on an object holds its advisory lock.
Fenced ==
  /\ \A p \in Publishers : publisher[p].pc # "idle" =>
       publisher[p].at \in Objects /\ fence[publisher[p].at] = p
  /\ \A d \in Drains : drain[d].pc \in {"claim", "refs", "delete"} =>
       drain[d].at \in Objects /\ fence[drain[d].at] = d

\* What a publication is about to refer to is stored.
Uploaded ==
  \A p \in Publishers : publisher[p].pc \in {"enqueue", "rollback"} => publisher[p].at \in stored

\* What a drain is about to delete has no reference.
Unused == \A d \in Drains : drain[d].pc = "delete" => refs[drain[d].at] = {}

CleanupInv == TypeOK /\ Fenced /\ Uploaded /\ Unused /\ ReferencedIsStored

LEMMA InitiallyClean == Init => CleanupInv
<1> SUFFICES ASSUME Init PROVE CleanupInv
  OBVIOUS
<1>1. TypeOK
  BY TypeByRow, ConstantRows DEF Init
<1>2. Fenced /\ Uploaded /\ Unused /\ ReferencedIsStored
  BY DEF Init, Fenced, Uploaded, Unused, ReferencedIsStored, NotPublishing, NotDraining
<1> QED
  BY <1>1, <1>2 DEF CleanupInv

\* The publisher's row after a step, and the objects it holds.
LEMMA PublicationKeeps ==
  ASSUME CleanupInv, NEW p \in Publishers, PublisherStep(p)
  PROVE  CleanupInv'
<1> DEFINE o == publisher[p].at
<1>t. /\ stored \in SUBSET Objects /\ lost \in SUBSET Objects
      /\ refs \in [Objects -> SUBSET Runs]
      /\ job \in [Objects -> JobRows]
      /\ fence \in [Objects -> Publishers \cup Drains \cup {Nobody}]
      /\ publisher \in [Publishers -> PublisherRows]
      /\ drain \in [Drains -> DrainRows]
  BY TypeByRow DEF CleanupInv
<1>a. Publishers \cap Drains = {} /\ Nobody \notin Publishers \cup Drains
  BY CleanupAssumption
<1>f. Fenced /\ Uploaded /\ Unused /\ ReferencedIsStored
  BY DEF CleanupInv
<1>h. publisher[p].pc # "idle" => o \in Objects /\ fence[o] = p
  BY <1>f DEF Fenced
<1>p. ASSUME NEW c \in {"idle", "put", "enqueue", "rollback", "release"},
             publisher' = [publisher EXCEPT ![p].pc = c]
      PROVE  /\ publisher' \in [Publishers -> PublisherRows]
             /\ \A q \in Publishers \ {p} : publisher'[q] = publisher[q]
             /\ publisher'[p].pc = c /\ publisher'[p].at = o
  BY <1>p, <1>t DEF PublisherRows
<1>i. /\ NotPublishing \in PublisherRows /\ NotPublishing.pc = "idle"
      /\ Queued \in JobRows
  BY ConstantRows DEF NotPublishing
<1>1. ASSUME NEW x \in Objects, PublishFence(p, x) PROVE CleanupInv'
  <2>1. [pc |-> "put", at |-> x] \in PublisherRows
    BY DEF PublisherRows
  <2>2. TypeOK'
    BY <1>1, <1>t, <2>1, TypeByNextRow DEF PublishFence
  <2>3. Fenced'
    BY <1>1, <1>t, <1>a, <1>f DEF PublishFence, Fenced
  <2>4. Uploaded' /\ Unused' /\ ReferencedIsStored'
    BY <1>1, <1>t, <1>f DEF PublishFence, Uploaded, Unused, ReferencedIsStored
  <2> QED
    BY <2>2, <2>3, <2>4 DEF CleanupInv
<1>2. CASE PublishPut(p)
  <2>1. /\ publisher' \in [Publishers -> PublisherRows]
        /\ \A q \in Publishers \ {p} : publisher'[q] = publisher[q]
        /\ publisher'[p].pc = "enqueue" /\ publisher'[p].at = o
    BY <1>2, <1>p DEF PublishPut
  <2>2. TypeOK'
    BY <1>2, <1>t, <1>h, <2>1, TypeByNextRow DEF PublishPut
  <2>3. Fenced'
    BY <1>2, <1>f, <1>h, <2>1 DEF PublishPut, Fenced
  <2>4. Uploaded' /\ Unused' /\ ReferencedIsStored'
    BY <1>2, <1>f, <2>1 DEF PublishPut, Uploaded, Unused, ReferencedIsStored
  <2> QED
    BY <2>2, <2>3, <2>4 DEF CleanupInv
<1>3. CASE PublishPutFails(p)
  <2>1. /\ stored' \in SUBSET Objects /\ stored \subseteq stored' /\ lost' \in SUBSET Objects
    BY <1>3, <1>t, <1>h DEF PublishPutFails
  <2>2. TypeOK'
    BY <1>3, <1>t, <1>i, <2>1, TypeByNextRow DEF PublishPutFails, Release
  <2>3. Fenced'
    BY <1>3, <1>t, <1>a, <1>f, <1>h, <1>i DEF PublishPutFails, Release, Fenced
  <2>4. Uploaded' /\ Unused' /\ ReferencedIsStored'
    BY <1>3, <1>t, <1>f, <1>i, <2>1 DEF PublishPutFails, Uploaded, Unused, ReferencedIsStored
  <2> QED
    BY <2>2, <2>3, <2>4 DEF CleanupInv
<1>4. ASSUME NEW r \in Runs, PublishEnqueue(p, r) \/ PublishEnqueueFails(p, r)
      PROVE  CleanupInv'
  <2>1. /\ publisher[p].pc = "enqueue"
        /\ \/ refs' = refs
           \/ refs' = [refs EXCEPT ![o] = @ \cup {r}]
        /\ \/ publisher' = [publisher EXCEPT ![p].pc = "release"]
           \/ publisher' = [publisher EXCEPT ![p].pc = "rollback"]
        /\ UNCHANGED <<stored, job, fence, drain, lost>>
    BY <1>4 DEF PublishEnqueue, PublishEnqueueFails
  <2>p. /\ publisher' \in [Publishers -> PublisherRows]
        /\ \A q \in Publishers \ {p} : publisher'[q] = publisher[q]
        /\ publisher'[p].pc \in {"release", "rollback"} /\ publisher'[p].at = o
    BY <2>1, <1>p
  <2>2. TypeOK'
    <3>1. refs' \in [Objects -> SUBSET Runs]
      BY <2>1, <1>t, <1>h
    <3> QED
      BY <2>1, <2>p, <3>1, <1>t, TypeByNextRow
  <2>3. Fenced'
    BY <2>1, <2>p, <1>f, <1>h DEF Fenced
  <2>4. Uploaded'
    BY <2>1, <2>p, <1>f DEF Uploaded
  <2>5. \A x \in Objects \ {o} : refs'[x] = refs[x]
    BY <2>1, <1>t, <1>h
  <2>6. Unused'
    BY <2>1, <2>5, <1>a, <1>f, <1>h DEF Unused, Fenced
  <2>7. ReferencedIsStored'
    BY <2>1, <2>5, <1>f DEF ReferencedIsStored, Uploaded
  <2> QED
    BY <2>2, <2>3, <2>4, <2>6, <2>7 DEF CleanupInv
<1>5. CASE PublishRollback(p)
  <2>1. job' \in [Objects -> JobRows] /\ lost' \in SUBSET Objects
    BY <1>5, <1>t, <1>h, <1>i DEF PublishRollback
  <2>p. /\ publisher' \in [Publishers -> PublisherRows]
        /\ \A q \in Publishers \ {p} : publisher'[q] = publisher[q]
        /\ publisher'[p].pc = "release" /\ publisher'[p].at = o
    BY <1>5, <1>p DEF PublishRollback
  <2>2. TypeOK'
    BY <1>5, <1>t, <2>1, <2>p, TypeByNextRow DEF PublishRollback
  <2>3. Fenced'
    BY <1>5, <1>f, <1>h, <2>p DEF PublishRollback, Fenced
  <2>4. Uploaded' /\ Unused' /\ ReferencedIsStored'
    BY <1>5, <1>f, <2>p DEF PublishRollback, Uploaded, Unused, ReferencedIsStored
  <2> QED
    BY <2>2, <2>3, <2>4 DEF CleanupInv
<1>6. CASE PublishRelease(p) \/ PublisherCrash(p)
  <2>1. /\ publisher[p].pc # "idle"
        /\ fence' = [fence EXCEPT ![o] = Nobody]
        /\ publisher' = [publisher EXCEPT ![p] = NotPublishing]
        /\ lost' \in SUBSET Objects
        /\ UNCHANGED <<stored, refs, job, drain>>
    BY <1>6, <1>t, <1>h DEF PublishRelease, PublisherCrash, Release
  <2>2. TypeOK'
    BY <2>1, <1>t, <1>i, TypeByNextRow
  <2>3. Fenced'
    BY <2>1, <1>t, <1>a, <1>f, <1>h, <1>i DEF Fenced
  <2>4. Uploaded' /\ Unused' /\ ReferencedIsStored'
    BY <2>1, <1>t, <1>f, <1>i DEF Uploaded, Unused, ReferencedIsStored
  <2> QED
    BY <2>2, <2>3, <2>4 DEF CleanupInv
<1> QED
  BY <1>1, <1>2, <1>3, <1>4, <1>5, <1>6 DEF PublisherStep

LEMMA DropRunsKeeps ==
  ASSUME CleanupInv, NEW gone \in SUBSET Runs, DropRuns(gone)
  PROVE  CleanupInv'
<1> DEFINE sources == {o \in Objects : refs[o] \cap gone # {}}
<1>1. /\ refs' = [o \in Objects |-> refs[o] \ gone]
      /\ job' = [o \in Objects |-> IF o \in sources THEN Queued ELSE job[o]]
      /\ lost' = lost \ sources
      /\ UNCHANGED <<stored, fence, publisher, drain>>
  BY DEF DropRuns
<1> HIDE DEF sources
<1>2. TypeOK'
  BY <1>1, TypeByRow, TypeByNextRow, ConstantRows DEF CleanupInv
<1>3. Fenced' /\ Uploaded'
  BY <1>1 DEF CleanupInv, Fenced, Uploaded
<1>4. \A o \in Objects : refs'[o] \subseteq refs[o]
  BY <1>1
<1>5. Unused' /\ ReferencedIsStored'
  BY <1>1, <1>4 DEF CleanupInv, Unused, ReferencedIsStored, Fenced
<1> QED
  BY <1>2, <1>3, <1>5 DEF CleanupInv

\* What Advance leaves of a drain's row.
LEMMA Advanced ==
  ASSUME CleanupInv, NEW d \in Drains, drain[d].pc \in {"claim", "refs", "delete"},
         NEW kept \in SUBSET Objects, Advance(d, kept)
  PROVE  /\ drain' \in [Drains -> DrainRows]
         /\ \A e \in Drains \ {d} : drain'[e] = drain[e]
         /\ drain'[d].pc = "next" /\ drain'[d].loaded = drain[d].loaded
         /\ drain'[d].todo = drain[d].todo \ {drain[d].at}
         /\ drain'[d].retained = drain[d].retained \cup kept
         /\ drain[d].at \in Objects
         /\ fence' \in [Objects -> Publishers \cup Drains \cup {Nobody}]
         /\ \A o \in Objects \ {drain[d].at} : fence'[o] = fence[o]
<1>1. drain \in [Drains -> DrainRows]
      /\ fence \in [Objects -> Publishers \cup Drains \cup {Nobody}]
  BY TypeByRow DEF CleanupInv
<1>2. drain[d].at \in Objects
  BY DEF CleanupInv, Fenced
<1> DEFINE row == [drain[d] EXCEPT !.pc = "next", !.at = Nobody,
                     !.todo = @ \ {drain[d].at}, !.retained = @ \cup kept]
<1>3. row \in DrainRows
  BY <1>1 DEF DrainRows
<1>4. /\ row.pc = "next" /\ row.loaded = drain[d].loaded
      /\ row.todo = drain[d].todo \ {drain[d].at}
      /\ row.retained = drain[d].retained \cup kept
  BY <1>1 DEF DrainRows
<1>5. drain' = [drain EXCEPT ![d] = row]
  BY <1>1 DEF Advance, DrainRows
<1> HIDE DEF row
<1>6. /\ drain' \in [Drains -> DrainRows] /\ drain'[d] = row
      /\ \A e \in Drains \ {d} : drain'[e] = drain[e]
  BY <1>1, <1>3, <1>5
<1>7. fence' = [fence EXCEPT ![drain[d].at] = Nobody]
  BY DEF Advance, Release
<1>8. /\ fence' \in [Objects -> Publishers \cup Drains \cup {Nobody}]
      /\ \A o \in Objects \ {drain[d].at} : fence'[o] = fence[o]
  BY <1>1, <1>2, <1>7
<1> QED
  BY <1>2, <1>4, <1>6, <1>8

LEMMA CollectionKeeps ==
  ASSUME CleanupInv, NEW d \in Drains, DrainStep(d)
  PROVE  CleanupInv'
<1> DEFINE o == drain[d].at
<1>t. /\ stored \in SUBSET Objects /\ lost \in SUBSET Objects
      /\ refs \in [Objects -> SUBSET Runs]
      /\ job \in [Objects -> JobRows]
      /\ fence \in [Objects -> Publishers \cup Drains \cup {Nobody}]
      /\ publisher \in [Publishers -> PublisherRows]
      /\ drain \in [Drains -> DrainRows]
  BY TypeByRow DEF CleanupInv
<1>a. Publishers \cap Drains = {} /\ Nobody \notin Publishers \cup Drains
  BY CleanupAssumption
<1>f. Fenced /\ Uploaded /\ Unused /\ ReferencedIsStored
  BY DEF CleanupInv
<1>i. NotDraining \in DrainRows /\ NotDraining.pc = "idle"
  BY ConstantRows DEF NotDraining
<1>k. ASSUME NEW kept \in SUBSET Objects, Advance(d, kept),
             drain[d].pc \in {"claim", "refs", "delete"},
             stored' = stored \/ (stored' = stored \ {o} /\ drain[d].pc = "delete"),
             lost' \in SUBSET Objects, UNCHANGED <<refs, job, publisher>>
      PROVE  CleanupInv'
  <2>1. /\ drain' \in [Drains -> DrainRows]
        /\ \A e \in Drains \ {d} : drain'[e] = drain[e]
        /\ drain'[d].pc = "next" /\ o \in Objects
        /\ fence' \in [Objects -> Publishers \cup Drains \cup {Nobody}]
        /\ \A x \in Objects \ {o} : fence'[x] = fence[x]
    BY <1>k, Advanced
  <2>2. fence[o] = d
    BY <1>k, <1>f DEF Fenced
  <2>3. TypeOK'
    BY <1>k, <1>t, <2>1, TypeByNextRow
  <2>4. Fenced'
    BY <1>k, <1>a, <1>f, <2>1, <2>2 DEF Fenced
  <2>5. Uploaded'
    BY <1>k, <1>a, <1>f, <2>2 DEF Fenced, Uploaded
  <2>6. Unused' /\ ReferencedIsStored'
    BY <1>k, <1>f, <2>1 DEF Unused, ReferencedIsStored
  <2> QED
    BY <2>3, <2>4, <2>5, <2>6 DEF CleanupInv
<1>p. ASSUME NEW c \in {"refs", "delete"}, drain' = [drain EXCEPT ![d].pc = c],
             drain[d].pc \in {"claim", "refs"}, c = "delete" => refs[o] = {},
             UNCHANGED <<fence, stored, refs, job, publisher, lost>>
      PROVE  CleanupInv'
  <2>1. /\ drain' \in [Drains -> DrainRows]
        /\ \A e \in Drains \ {d} : drain'[e] = drain[e]
        /\ drain'[d].pc = c /\ drain'[d].at = o
    BY <1>p, <1>t DEF DrainRows
  <2>2. TypeOK'
    BY <1>p, <1>t, <2>1, TypeByNextRow
  <2>3. Fenced' /\ Uploaded'
    BY <1>p, <1>f, <2>1 DEF Fenced, Uploaded
  <2>4. Unused' /\ ReferencedIsStored'
    BY <1>p, <1>f, <2>1 DEF Unused, ReferencedIsStored
  <2> QED
    BY <2>2, <2>3, <2>4 DEF CleanupInv
<1>1. ASSUME NEW batch \in SUBSET Objects, DrainClaim(d, batch) PROVE CleanupInv'
  <2> DEFINE row == [NotDraining EXCEPT !.pc = "next", !.loaded = batch, !.todo = batch]
  <2>1. row \in DrainRows /\ row.pc = "next"
    BY <1>i DEF DrainRows
  <2>2. \A x \in Objects : [job[x] EXCEPT !.claim = d, !.due = ClaimTime] \in JobRows
    BY <1>t, CleanupAssumption DEF JobRows
  <2>3. /\ drain' = [drain EXCEPT ![d] = row]
        /\ job' \in [Objects -> JobRows]
        /\ UNCHANGED <<stored, refs, fence, publisher, lost>>
    BY <1>1, <1>t, <2>2 DEF DrainClaim
  <2> HIDE DEF row
  <2>4. TypeOK'
    BY <1>t, <2>1, <2>3, TypeByNextRow
  <2>5. Fenced' /\ Uploaded'
    BY <1>t, <1>f, <2>1, <2>3 DEF Fenced, Uploaded
  <2>6. Unused' /\ ReferencedIsStored'
    BY <1>t, <1>f, <2>1, <2>3 DEF Unused, ReferencedIsStored
  <2> QED
    BY <2>4, <2>5, <2>6 DEF CleanupInv
<1>2. ASSUME NEW x \in Objects, DrainFence(d, x) PROVE CleanupInv'
  <2>1. /\ drain' \in [Drains -> DrainRows]
        /\ \A e \in Drains \ {d} : drain'[e] = drain[e]
        /\ drain'[d].pc = "claim" /\ drain'[d].at = x
    <3> DEFINE row == [drain[d] EXCEPT !.pc = "claim", !.at = x]
    <3>1. row \in DrainRows /\ row.pc = "claim" /\ row.at = x
      BY <1>t DEF DrainRows
    <3>2. drain' = [drain EXCEPT ![d] = row]
      BY <1>2, <1>t DEF DrainFence, DrainRows
    <3> HIDE DEF row
    <3> QED
      BY <1>t, <3>1, <3>2
  <2>2. TypeOK'
    BY <1>2, <1>t, <2>1, TypeByNextRow DEF DrainFence
  <2>3. Fenced'
    BY <1>2, <1>t, <1>a, <1>f, <2>1 DEF DrainFence, Fenced
  <2>4. Uploaded' /\ Unused' /\ ReferencedIsStored'
    BY <1>2, <1>f, <2>1 DEF DrainFence, Uploaded, Unused, ReferencedIsStored
  <2> QED
    BY <2>2, <2>3, <2>4 DEF CleanupInv
<1>3. CASE DrainCheckClaim(d)
  BY <1>3, <1>t, <1>k, <1>p DEF DrainCheckClaim
<1>4. CASE DrainCheckReferences(d)
  BY <1>4, <1>t, <1>k, <1>p DEF DrainCheckReferences
<1>5. CASE DrainDelete(d)
  BY <1>5, <1>t, <1>k DEF DrainDelete
<1>6. CASE DrainDeleteFails(d)
  <2>1. {o} \in SUBSET Objects
    BY <1>6, <1>f DEF DrainDeleteFails, Fenced
  <2> QED
    BY <1>6, <1>t, <1>k, <2>1 DEF DrainDeleteFails
<1>7. CASE DrainFinish(d)
  <2>1. \A x \in Objects : /\ Retained(d, x) \in JobRows
                          /\ [job[x] EXCEPT !.open = FALSE] \in JobRows
    <3> TAKE x \in Objects
    <3>1. job[x] \in JobRows /\ drain[d] \in DrainRows
      BY <1>t
    <3>2. Retained(d, x) \in JobRows
      BY <3>1, RetainedType
    <3>3. [job[x] EXCEPT !.open = FALSE] \in JobRows
      BY <3>1 DEF JobRows
    <3> QED
      BY <3>2, <3>3
  <2>2. job' \in [Objects -> JobRows]
    BY <1>7, <1>t, <2>1 DEF DrainFinish
  <2>3. TypeOK'
    BY <1>7, <1>t, <1>i, <2>2, TypeByNextRow DEF DrainFinish
  <2>4. Fenced' /\ Uploaded' /\ Unused' /\ ReferencedIsStored'
    BY <1>7, <1>t, <1>f, <1>i DEF DrainFinish, Fenced, Uploaded, Unused, ReferencedIsStored
  <2> QED
    BY <2>3, <2>4 DEF CleanupInv
<1>8. CASE DrainAbort(d)
  <2>1. TypeOK'
    BY <1>8, <1>t, <1>i, TypeByNextRow DEF DrainAbort
  <2>2. Fenced'
    BY <1>8, <1>t, <1>a, <1>f, <1>i DEF DrainAbort, Fenced
  <2>3. Uploaded' /\ Unused' /\ ReferencedIsStored'
    BY <1>8, <1>t, <1>f, <1>i DEF DrainAbort, Uploaded, Unused, ReferencedIsStored
  <2> QED
    BY <2>1, <2>2, <2>3 DEF CleanupInv
<1> QED
  BY <1>1, <1>2, <1>3, <1>4, <1>5, <1>6, <1>7, <1>8 DEF DrainStep

\* Time moves only what a row is due and a drain's age.
LEMMA TimePasses ==
  ASSUME TypeOK, Tick
  PROVE  /\ TypeOK'
         /\ \A o \in Objects : job'[o].open = job[o].open /\ job'[o].claim = job[o].claim
         /\ \A d \in Drains : /\ drain'[d].pc = drain[d].pc /\ drain'[d].at = drain[d].at
                              /\ drain'[d].loaded = drain[d].loaded
                              /\ drain'[d].todo = drain[d].todo
                              /\ drain'[d].retained = drain[d].retained
<1>t. job \in [Objects -> JobRows] /\ drain \in [Drains -> DrainRows]
  BY TypeByRow
<1>1. ASSUME NEW o \in Objects
      PROVE  /\ job'[o] \in JobRows
             /\ job'[o].open = job[o].open /\ job'[o].claim = job[o].claim
  <2>1. Later(job[o].due - 1, 0) \in Nat
    BY <1>t DEF Later, JobRows
  <2>2. job'[o] = [job[o] EXCEPT !.due = Later(job[o].due - 1, 0)]
    BY <1>t DEF Tick, JobRows
  <2> QED
    BY <1>t, <2>1, <2>2 DEF JobRows
<1>2. ASSUME NEW d \in Drains
      PROVE  /\ drain'[d] \in DrainRows
             /\ drain'[d].pc = drain[d].pc /\ drain'[d].at = drain[d].at
             /\ drain'[d].loaded = drain[d].loaded /\ drain'[d].todo = drain[d].todo
             /\ drain'[d].retained = drain[d].retained
  <2>1. drain'[d] = drain[d] \/ drain'[d] = [drain[d] EXCEPT !.age = drain[d].age + 1]
    BY <1>t DEF Tick, DrainRows
  <2>2. drain[d].age + 1 \in Nat
    BY <1>t DEF DrainRows
  <2> QED
    BY <1>t, <2>1, <2>2 DEF DrainRows
<1>3. job' \in [Objects -> JobRows] /\ drain' \in [Drains -> DrainRows]
  BY <1>1, <1>2 DEF Tick
<1>4. TypeOK'
  BY <1>3, TypeByRow, TypeByNextRow DEF Tick
<1> QED
  BY <1>1, <1>2, <1>4

LEMMA NextKeeps == CleanupInv /\ [Next]_vars => CleanupInv'
<1> SUFFICES ASSUME CleanupInv, [Next]_vars PROVE CleanupInv'
  OBVIOUS
<1>1. CASE Tick
  <2>1. TypeOK
    BY DEF CleanupInv
  <2> QED
    BY <1>1, <2>1, TimePasses
       DEF Tick, CleanupInv, Fenced, Uploaded, Unused, ReferencedIsStored
<1>2. CASE UNCHANGED vars
  BY <1>2 DEF vars, CleanupInv, TypeOK, Fenced, Uploaded, Unused, ReferencedIsStored
<1> QED
  BY <1>1, <1>2, PublicationKeeps, DropRunsKeeps, CollectionKeeps DEF Next

\* The queue's tables, the fences and the two kinds of process keep their
\* types, for every number of objects, runs, publications and drains.
THEOREM CleanupTypes == Spec => []TypeOK
<1>1. CleanupInv => TypeOK
  BY DEF CleanupInv
<1> QED
  BY <1>1, InitiallyClean, NextKeeps, PTL DEF Spec

\* A run's source is never collected under it: a drain deletes only under the
\* fence of source_blob_cleanup_decision(), after it has read that nothing
\* refers to the object, and a publication holds the same fence from before its
\* upload until its reference is committed.
THEOREM SourcesStay == Spec => []ReferencedIsStored
<1>1. CleanupInv => ReferencedIsStored
  BY DEF CleanupInv
<1> QED
  BY <1>1, InitiallyClean, NextKeeps, PTL DEF Spec

-----------------------------------------------------------------------------
(* Why nothing unreferenced is forgotten                                    *)

\* Drain d is going to complete the job of o when it finishes.
WillClose(d, o) ==
  /\ Live(d, o) /\ drain[d].pc # "idle"
  /\ o \in drain[d].loaded /\ o \notin drain[d].todo /\ o \notin drain[d].retained

\* The object has a reference or a job that stays open, or it was reported lost.
CaredFor(o) ==
  refs[o] # {} \/ o \in lost \/ (job[o].open /\ \A d \in Drains : ~WillClose(d, o))

\* A publication that still refers to the object, queues it or loses it.
InPublication(o) ==
  \E p \in Publishers : publisher[p].at = o /\ publisher[p].pc \in {"enqueue", "rollback"}

Tracked == \A o \in stored : CaredFor(o) \/ InPublication(o)

LEMMA PublicationTracks ==
  ASSUME CleanupInv, Tracked, NEW p \in Publishers, PublisherStep(p)
  PROVE  Tracked'
<1> DEFINE at == publisher[p].at
<1>t. /\ stored \in SUBSET Objects /\ job \in [Objects -> JobRows]
      /\ refs \in [Objects -> SUBSET Runs]
      /\ publisher \in [Publishers -> PublisherRows]
  BY TypeByRow DEF CleanupInv
<1>h. publisher[p].pc # "idle" => at \in Objects
  BY DEF CleanupInv, Fenced
<1>d. UNCHANGED drain /\ \A q \in Publishers \ {p} : publisher'[q] = publisher[q]
  BY <1>t DEF PublisherStep, PublishFence, PublishPut, PublishPutFails, PublishEnqueue,
              PublishEnqueueFails, PublishRollback, PublishRelease, PublisherCrash
<1>s. stored' \in SUBSET Objects
  BY PublicationKeeps, TypeByNextRow DEF CleanupInv
<1> SUFFICES ASSUME NEW o \in stored' PROVE CaredFor(o)' \/ InPublication(o)'
  BY DEF Tracked
<1>o. o \in Objects
  BY <1>s
<1>q. CASE \E q \in Publishers \ {p} :
               publisher[q].at = o /\ publisher[q].pc \in {"enqueue", "rollback"}
  BY <1>q, <1>d DEF InPublication
<1>n. ASSUME ~ \E q \in Publishers \ {p} :
               publisher[q].at = o /\ publisher[q].pc \in {"enqueue", "rollback"}
      PROVE  o \in stored =>
               CaredFor(o) \/ (at = o /\ publisher[p].pc \in {"enqueue", "rollback"})
  BY <1>n DEF Tracked, InPublication
<1>c. ASSUME CaredFor(o), job'[o] = job[o], refs[o] # {} => refs'[o] # {},
             o \in lost => o \in lost'
      PROVE  CaredFor(o)'
  BY <1>c, <1>d DEF CaredFor, WillClose, Live
<1>1. ASSUME NEW x \in Objects, PublishFence(p, x) PROVE CaredFor(o)' \/ InPublication(o)'
  BY <1>1, <1>q, <1>n, <1>c DEF PublishFence
<1>2. CASE PublishPut(p)
  <2>1. publisher'[p].at = at /\ publisher'[p].pc = "enqueue"
    BY <1>2, <1>t DEF PublishPut, PublisherRows
  <2>2. CASE o = at
    BY <2>1, <2>2 DEF InPublication
  <2>3. CASE o # at
    BY <1>2, <1>q, <1>n, <1>c, <2>3 DEF PublishPut
  <2> QED
    BY <2>2, <2>3
<1>3. CASE PublishPutFails(p)
  <2>1. o \in stored \/ o \in lost'
    BY <1>3 DEF PublishPutFails
  <2>2. publisher[p].pc = "put" /\ lost \subseteq lost' /\ UNCHANGED <<refs, job>>
    BY <1>3 DEF PublishPutFails
  <2>3. CASE o \in lost'
    BY <2>3 DEF CaredFor
  <2> QED
    BY <1>q, <1>n, <1>c, <2>1, <2>2, <2>3
<1>4. ASSUME NEW r \in Runs, PublishEnqueue(p, r) \/ PublishEnqueueFails(p, r)
      PROVE  CaredFor(o)' \/ InPublication(o)'
  <2>1. /\ publisher[p].pc = "enqueue" /\ UNCHANGED <<stored, job, lost>>
        /\ \/ refs' = refs
           \/ refs' = [refs EXCEPT ![at] = @ \cup {r}]
    BY <1>4 DEF PublishEnqueue, PublishEnqueueFails
  <2>2. refs[o] # {} => refs'[o] # {}
    BY <2>1, <1>t, <1>h, <1>o
  <2>3. CASE CaredFor(o)
    BY <2>1, <2>2, <2>3, <1>c
  <2>4. CASE o = at
    <3>1. CASE refs'[o] # {}
      BY <3>1 DEF CaredFor
    <3>2. CASE refs'[o] = {}
      <4>1. refs' = refs
        BY <2>1, <2>4, <3>2, <1>t, <1>o
      <4>2. ~PublishEnqueue(p, r)
        BY <2>4, <3>2, <1>t, <1>o DEF PublishEnqueue
      <4>3. publisher' = [publisher EXCEPT ![p].pc = "rollback"]
        BY <1>4, <4>2 DEF PublishEnqueueFails
      <4>4. publisher'[p].at = at /\ publisher'[p].pc = "rollback"
        BY <4>3, <1>t DEF PublisherRows
      <4> QED
        BY <2>4, <4>4 DEF InPublication
    <3> QED
      BY <3>1, <3>2
  <2> QED
    BY <1>q, <1>n, <2>1, <2>3, <2>4
<1>5. CASE PublishRollback(p)
  <2>1. publisher[p].pc = "rollback" /\ UNCHANGED <<stored, refs>>
    BY <1>5 DEF PublishRollback
  <2>2. CASE o = at /\ o \in lost'
    BY <2>2 DEF CaredFor
  <2>3. CASE o = at /\ o \notin lost'
    <3>1. job'[o] = Queued
      BY <1>5, <1>t, <1>o, <2>3 DEF PublishRollback
    <3>2. job'[o].open /\ job'[o].claim \notin Drains
      BY <3>1, CleanupAssumption DEF Queued
    <3> QED
      BY <3>2 DEF CaredFor, WillClose, Live
  <2>4. CASE o # at
    <3>1. job'[o] = job[o] /\ (o \in lost => o \in lost')
      BY <1>5, <1>t, <1>o, <2>4 DEF PublishRollback
    <3> QED
      BY <1>q, <1>n, <1>c, <2>1, <2>4, <3>1
  <2> QED
    BY <2>2, <2>3, <2>4
<1>6. CASE PublishRelease(p)
  BY <1>6, <1>q, <1>n, <1>c DEF PublishRelease
<1>7. CASE PublisherCrash(p)
  <2>1. lost \subseteq lost' /\ UNCHANGED <<stored, refs, job>>
    BY <1>7 DEF PublisherCrash
  <2>2. CASE at = o /\ publisher[p].pc \in {"enqueue", "rollback"}
    BY <1>7, <2>2 DEF PublisherCrash, CaredFor
  <2> QED
    BY <1>q, <1>n, <1>c, <2>1, <2>2
<1> QED
  BY <1>1, <1>2, <1>3, <1>4, <1>5, <1>6, <1>7 DEF PublisherStep

LEMMA DropRunsTracks ==
  ASSUME CleanupInv, Tracked, NEW gone \in SUBSET Runs, DropRuns(gone)
  PROVE  Tracked'
<1> DEFINE sources == {o \in Objects : refs[o] \cap gone # {}}
<1>1. /\ refs' = [o \in Objects |-> refs[o] \ gone]
      /\ job' = [o \in Objects |-> IF o \in sources THEN Queued ELSE job[o]]
      /\ lost' = lost \ sources
      /\ UNCHANGED <<stored, fence, publisher, drain>>
  BY DEF DropRuns
<1>t. stored \in SUBSET Objects /\ refs \in [Objects -> SUBSET Runs]
  BY TypeByRow DEF CleanupInv
<1> SUFFICES ASSUME NEW o \in stored PROVE CaredFor(o)' \/ InPublication(o)'
  BY <1>1 DEF Tracked
<1>2. CaredFor(o) \/ InPublication(o)
  BY DEF Tracked
<1>3. CASE o \in sources
  <2>1. job'[o].open /\ job'[o].claim \notin Drains
    BY <1>1, <1>3, CleanupAssumption DEF Queued
  <2> QED
    BY <2>1 DEF CaredFor, WillClose, Live
<1>4. CASE o \notin sources
  <2>1. refs'[o] = refs[o] /\ job'[o] = job[o] /\ (o \in lost => o \in lost')
    BY <1>1, <1>4, <1>t
  <2> QED
    BY <1>1, <1>2, <2>1 DEF CaredFor, WillClose, Live, InPublication
<1> QED
  BY <1>3, <1>4

LEMMA CollectionTracks ==
  ASSUME CleanupInv, Tracked, NEW d \in Drains, DrainStep(d)
  PROVE  Tracked'
<1> DEFINE at == drain[d].at
<1>t. /\ stored \in SUBSET Objects /\ job \in [Objects -> JobRows]
      /\ drain \in [Drains -> DrainRows]
  BY TypeByRow DEF CleanupInv
<1>d. UNCHANGED <<refs, publisher>> /\ stored' \subseteq stored
  BY DEF DrainStep, DrainClaim, DrainFence, DrainCheckClaim, DrainCheckReferences,
         DrainDelete, DrainDeleteFails, DrainFinish, DrainAbort
<1>e. \A e \in Drains \ {d} : drain'[e] = drain[e]
  BY <1>t DEF DrainStep, DrainClaim, DrainFence, DrainCheckClaim, DrainCheckReferences,
              DrainDelete, DrainDeleteFails, DrainFinish, DrainAbort, Advance
<1> SUFFICES ASSUME NEW o \in stored', CaredFor(o) PROVE CaredFor(o)'
  BY <1>d DEF Tracked, InPublication
<1>o. o \in Objects /\ o \in stored
  BY <1>d, <1>t
<1>c. ASSUME job'[o] = job[o], o \in lost => o \in lost',
             refs[o] # {} \/ ~WillClose(d, o)' \/ WillClose(d, o)
      PROVE  CaredFor(o)'
  BY <1>c, <1>d, <1>e DEF CaredFor, WillClose, Live
<1>k. ASSUME NEW kept \in SUBSET Objects, Advance(d, kept),
             drain[d].pc \in {"claim", "refs", "delete"}, UNCHANGED <<job, lost>>,
             o = at => refs[o] # {} \/ ~Live(d, o) \/ o \in kept
      PROVE  CaredFor(o)'
  <2>1. /\ drain'[d].loaded = drain[d].loaded
        /\ drain'[d].todo = drain[d].todo \ {at}
        /\ drain'[d].retained = drain[d].retained \cup kept
    BY <1>k, Advanced
  <2>2. refs[o] # {} \/ ~WillClose(d, o)' \/ WillClose(d, o)
    BY <1>k, <2>1 DEF WillClose, Live
  <2> QED
    BY <1>k, <1>c, <2>2
<1>p. ASSUME NEW c \in {"refs", "delete"}, drain' = [drain EXCEPT ![d].pc = c],
             drain[d].pc \in {"claim", "refs"}, UNCHANGED <<job, lost>>
      PROVE  CaredFor(o)'
  <2>1. /\ drain'[d].loaded = drain[d].loaded /\ drain'[d].todo = drain[d].todo
        /\ drain'[d].retained = drain[d].retained
    BY <1>p, <1>t DEF DrainRows
  <2>2. ~WillClose(d, o)' \/ WillClose(d, o)
    BY <1>p, <2>1 DEF WillClose, Live
  <2> QED
    BY <1>p, <1>c, <2>2
<1>1. ASSUME NEW batch \in SUBSET Objects, DrainClaim(d, batch) PROVE CaredFor(o)'
  <2>1. drain'[d].loaded = batch /\ drain'[d].todo = batch
    BY <1>1, <1>t DEF DrainClaim, NotDraining
  <2>2. ~WillClose(d, o)'
    BY <2>1 DEF WillClose
  <2>3. job'[o].open = job[o].open /\ (job'[o].claim = job[o].claim \/ job'[o].claim = d)
    BY <1>1, <1>t, <1>o DEF DrainClaim, JobRows
  <2>4. UNCHANGED lost
    BY <1>1 DEF DrainClaim
  <2> QED
    BY <1>d, <1>e, <2>2, <2>3, <2>4 DEF CaredFor, WillClose, Live
<1>2. ASSUME NEW x \in Objects, DrainFence(d, x) PROVE CaredFor(o)'
  <2>1. /\ drain'[d].loaded = drain[d].loaded /\ drain'[d].todo = drain[d].todo
        /\ drain'[d].retained = drain[d].retained
    BY <1>2, <1>t DEF DrainFence, DrainRows
  <2>2. UNCHANGED <<job, lost>> /\ drain[d].pc # "idle"
    BY <1>2 DEF DrainFence
  <2>3. ~WillClose(d, o)' \/ WillClose(d, o)
    BY <2>1, <2>2 DEF WillClose, Live
  <2> QED
    BY <1>c, <2>2, <2>3
<1>3. CASE DrainCheckClaim(d)
  BY <1>3, <1>k, <1>p DEF DrainCheckClaim
<1>4. CASE DrainCheckReferences(d)
  BY <1>4, <1>k, <1>p DEF DrainCheckReferences
<1>5. CASE DrainDelete(d)
  <2>1. o # at /\ at \in Objects /\ job' = job /\ (o \in lost => o \in lost')
    BY <1>5 DEF DrainDelete, CleanupInv, Fenced
  <2>2. /\ drain'[d].loaded = drain[d].loaded
        /\ drain'[d].todo = drain[d].todo \ {at}
        /\ drain'[d].retained = drain[d].retained \cup {}
    BY <1>5, Advanced DEF DrainDelete
  <2>3. ~WillClose(d, o)' \/ WillClose(d, o)
    BY <1>5, <2>1, <2>2 DEF DrainDelete, WillClose, Live
  <2> QED
    BY <1>c, <2>1, <2>3
<1>6. CASE DrainDeleteFails(d)
  <2>1. {at} \in SUBSET Objects
    BY <1>6 DEF DrainDeleteFails, CleanupInv, Fenced
  <2> QED
    BY <1>6, <1>k, <2>1 DEF DrainDeleteFails
<1>7. CASE DrainFinish(d)
  <2>1. drain'[d].pc = "idle" /\ UNCHANGED lost
    BY <1>7, <1>t DEF DrainFinish, NotDraining
  <2>2. ~WillClose(d, o)'
    BY <2>1 DEF WillClose
  <2>3. CASE o \in drain[d].loaded /\ Live(d, o) /\ o \in drain[d].retained
    <3>1. job'[o] = Retained(d, o)
      BY <1>7, <1>o, <2>3 DEF DrainFinish
    <3>2. job'[o].open = job[o].open /\ job'[o].claim = job[o].claim
      BY <1>t, <1>o, <3>1, RetainedType
    <3> QED
      BY <1>d, <1>e, <2>1, <2>2, <3>2 DEF CaredFor, WillClose, Live
  <2>4. CASE o \in drain[d].loaded /\ Live(d, o) /\ o \notin drain[d].retained
    <3>1. WillClose(d, o)
      BY <1>7, <2>4 DEF DrainFinish, WillClose
    <3> QED
      BY <1>d, <2>1, <3>1 DEF CaredFor
  <2>5. CASE ~(o \in drain[d].loaded /\ Live(d, o))
    <3>1. job'[o] = job[o]
      BY <1>7, <1>o, <2>5 DEF DrainFinish
    <3> QED
      BY <1>c, <2>1, <2>2, <3>1
  <2> QED
    BY <2>3, <2>4, <2>5
<1>8. CASE DrainAbort(d)
  <2>1. drain'[d].pc = "idle" /\ UNCHANGED <<job, lost>>
    BY <1>8, <1>t DEF DrainAbort, NotDraining
  <2>2. ~WillClose(d, o)'
    BY <2>1 DEF WillClose
  <2> QED
    BY <1>c, <2>1, <2>2
<1> QED
  BY <1>1, <1>2, <1>3, <1>4, <1>5, <1>6, <1>7, <1>8 DEF DrainStep

LEMMA NextTracks == CleanupInv /\ Tracked /\ [Next]_vars => Tracked'
<1> SUFFICES ASSUME CleanupInv, Tracked, [Next]_vars PROVE Tracked'
  OBVIOUS
<1>1. CASE Tick
  <2>1. stored \in SUBSET Objects /\ TypeOK
    BY TypeByRow DEF CleanupInv
  <2>2. UNCHANGED <<stored, refs, publisher, lost>>
    BY <1>1 DEF Tick
  <2> QED
    BY <1>1, <2>1, <2>2, TimePasses DEF Tracked, CaredFor, WillClose, Live, InPublication
<1>2. CASE UNCHANGED vars
  BY <1>2 DEF vars, Tracked, CaredFor, WillClose, Live, InPublication
<1> QED
  BY <1>1, <1>2, PublicationTracks, DropRunsTracks, CollectionTracks DEF Next

\* No stored object is forgotten: what nothing refers to is being published,
\* has an open job, or was reported lost.  A drain completes only the jobs it
\* claimed, so one queued since, by the retention of the last run that used the
\* object, stays open.
THEOREM OrphansStayQueued == Spec => []OrphansAreQueued
<1>1. Init => Tracked
  BY DEF Init, Tracked
<1>2. Tracked => OrphansAreQueued
  BY DEF Tracked, CaredFor, InPublication, OrphansAreQueued
<1> QED
  BY <1>1, <1>2, InitiallyClean, NextKeeps, NextTracks, PTL DEF Spec

-----------------------------------------------------------------------------
(* Names: the storage of one repository name                                *)

NameJobs ==
  [open : BOOLEAN, claim : Creators \cup Drains \cup {Nobody}, target : Name!Born, due : Nat]
Creations ==
  [pc : {"idle", "lock", "claim", "clean", "insert"}, claimed : BOOLEAN, target : Name!Born,
   age : Nat]
NameDrains ==
  [pc : {"idle", "lock", "exists", "delete", "finish"}, target : Name!Born, live : BOOLEAN,
   kept : BOOLEAN, age : Nat]

GitRequests == [pc : {"idle", "read", "leased"}, target : Name!Born]

NameTypes ==
  /\ repo \in Name!Born /\ born \in Name!Born /\ storage \in SUBSET Name!Born
  /\ nameJob \in NameJobs /\ lock \in Creators \cup Drains \cup {Nobody}
  /\ creator \in [Creators -> Creations] /\ nameDrain \in [Drains -> NameDrains]
  /\ request \in [Requests -> GitRequests] /\ wiped \in SUBSET Name!Born

\* The incarnations that have storage, or a request that may still write some.
Held == storage \cup {request[q].target : q \in {r \in Requests : request[r].pc # "idle"}}

HeldIsAccountedFor ==
  \A i \in Held : i # 0 /\ (i = repo \/ (nameJob.open /\ nameJob.target = i) \/ i \in wiped)

\* A creation whose claim of the cleanup still stands cleans up what the row
\* names, and has deleted it when it inserts the repository.
CreationsClean ==
  \A c \in Creators :
    creator[c].pc \in {"clean", "insert"} /\ creator[c].claimed /\ Name!Live(c) =>
      /\ creator[c].target = nameJob.target
      /\ creator[c].pc = "insert" => creator[c].target \in wiped

\* So does a drain, which has deleted it unless it keeps the row.
DrainsClean ==
  \A d \in Drains :
    nameDrain[d].pc # "idle" /\ Name!Live(d) =>
      /\ nameDrain[d].target = nameJob.target
      /\ nameDrain[d].pc = "finish" /\ ~nameDrain[d].kept => nameDrain[d].target \in wiped

NameInv ==
  /\ NameTypes
  /\ HeldIsAccountedFor /\ Name!NoPendingCleanupWhileLive
  /\ CreationsClean /\ DrainsClean

LEMMA NameNumbers ==
  /\ Incarnations \in Nat /\ NameClaimTime \in Nat /\ NameRetryDelay \in Nat
  /\ 0 \in Name!Born /\ \A i \in Name!Born : i \in Nat
  /\ Name!MaxAge \in Nat
  /\ \A a \in Nat, b \in Nat : Name!Remaining(a, b) \in Nat
  /\ Creators \cap Drains = {} /\ Nobody \notin Creators \cup Drains
  BY NameAssumption DEF Name!RepoStorageAssumption, Name!Born, Name!MaxAge, Name!Later,
     Name!Remaining

LEMMA NameStarts ==
  /\ Name!NoCreation \in Creations /\ Name!NoDrain \in NameDrains
  /\ Name!NoRequest \in GitRequests /\ Name!NoRequest.pc = "idle"
  /\ Name!NoJob \in NameJobs /\ Name!NoJob.open = FALSE
  BY NameNumbers DEF Name!NoCreation, Name!NoDrain, Name!NoRequest, Name!NoJob, Creations,
     NameDrains, GitRequests, NameJobs

\* What was accounted for stays so while the rows stay as they are.
LEMMA HeldStays ==
  ASSUME HeldIsAccountedFor, Held' \subseteq Held, wiped \subseteq wiped', UNCHANGED repo,
         nameJob'.open = nameJob.open, nameJob'.target = nameJob.target
  PROVE  HeldIsAccountedFor'
  BY DEF HeldIsAccountedFor

-----------------------------------------------------------------------------
(* Names: creations                                                         *)

\* A creation moves, and leaves the rows and the disk alone.
LEMMA CreationMoves ==
  ASSUME NameInv, NEW c \in Creators, NEW l \in Creations, creator' = [creator EXCEPT ![c] = l],
         lock' \in Creators \cup Drains \cup {Nobody},
         UNCHANGED <<repo, born, storage, nameJob, nameDrain, request, wiped>>,
         l.pc \in {"clean", "insert"} =>
           l.claimed = FALSE \/ (l = creator[c])
  PROVE  NameInv'
<1> USE DEF NameInv, NameTypes
<1>1. /\ creator' \in [Creators -> Creations] /\ creator'[c] = l
      /\ \A x \in Creators \ {c} : creator'[x] = creator[x]
  OBVIOUS
<1>2. CreationsClean'
  BY <1>1 DEF CreationsClean, Name!Live
<1> QED
  BY <1>1, <1>2 DEF HeldIsAccountedFor, Held, Name!NoPendingCleanupWhileLive, DrainsClean,
     Name!Live

LEMMA CreateEndsKeeps ==
  ASSUME NameInv, NEW c \in Creators, Name!CreateEnds(c),
         UNCHANGED <<repo, born, storage, nameJob, nameDrain, request, wiped>>
  PROVE  NameInv'
<1>1. creator' = [creator EXCEPT ![c] = Name!NoCreation]
      /\ lock' \in Creators \cup Drains \cup {Nobody}
  BY DEF Name!CreateEnds, Name!Release, NameInv, NameTypes
<1>2. Name!NoCreation \in Creations /\ Name!NoCreation.pc = "idle"
  BY NameStarts DEF Name!NoCreation
<1> QED
  BY <1>1, <1>2, CreationMoves

LEMMA CreateBeginKeeps ==
  ASSUME NameInv, NEW c \in Creators, Name!CreateBegin(c) \/ Name!CreateLock(c)
  PROVE  NameInv'
<1> DEFINE l(pc) == [creator[c] EXCEPT !.pc = pc]
<1>1. creator[c] \in Creations
  BY DEF NameInv, NameTypes
<1>2. \A pc \in {"lock", "claim"} : l(pc) \in Creations /\ l(pc).pc = pc
  BY <1>1 DEF Creations
<1>3. /\ creator' = [creator EXCEPT ![c] = l("lock")] \/ creator' = [creator EXCEPT ![c] = l("claim")]
      /\ lock' \in Creators \cup Drains \cup {Nobody}
      /\ UNCHANGED <<repo, born, storage, nameJob, nameDrain, request, wiped>>
  BY DEF Name!CreateBegin, Name!CreateLock, NameInv, NameTypes
<1> HIDE DEF l
<1> QED
  BY <1>2, <1>3, CreationMoves

LEMMA CreateClaimKeeps == ASSUME NameInv, NEW c \in Creators, Name!CreateClaim(c) PROVE NameInv'
<1> USE DEF NameInv, NameTypes
<1>1. creator[c] \in Creations /\ creator[c].age \in Nat
  BY DEF Creations
<1>2. CASE nameJob.open
  <2> DEFINE k == [nameJob EXCEPT !.claim = c, !.due = Name!Remaining(NameClaimTime, creator[c].age)]
             l == [creator[c] EXCEPT !.pc = "clean", !.claimed = TRUE, !.target = nameJob.target]
  <2>1. /\ k \in NameJobs /\ k.open = nameJob.open /\ k.claim = c /\ k.target = nameJob.target
    BY <1>1, NameNumbers DEF NameJobs
  <2>2. l \in Creations /\ l.pc = "clean" /\ l.target = nameJob.target
    BY <1>1 DEF Creations, NameJobs
  <2>3. nameJob' = k /\ creator' = [creator EXCEPT ![c] = l]
        /\ UNCHANGED <<repo, born, storage, lock, nameDrain, request, wiped>>
    BY <1>2, Zenon DEF Name!CreateClaim
  <2> HIDE DEF k, l
  <2>4. /\ creator' \in [Creators -> Creations] /\ creator'[c] = l
        /\ \A x \in Creators \ {c} : creator'[x] = creator[x]
    BY <2>2, <2>3
  <2>5. CreationsClean'
    BY <2>1, <2>2, <2>3, <2>4 DEF CreationsClean, Name!Live
  <2>6. DrainsClean'
    BY <2>1, <2>3, NameNumbers DEF DrainsClean, Name!Live
  <2> QED
    BY <2>1, <2>3, <2>4, <2>5, <2>6 DEF HeldIsAccountedFor, Held, Name!NoPendingCleanupWhileLive
<1>3. CASE ~nameJob.open
  <2> DEFINE l == [creator[c] EXCEPT !.pc = "insert"]
  <2>1. l \in Creations /\ l.pc = "insert"
    BY <1>1 DEF Creations
  <2>2. /\ creator' = [creator EXCEPT ![c] = l]
        /\ UNCHANGED <<repo, born, storage, nameJob, lock, nameDrain, request, wiped>>
    BY <1>3, Zenon DEF Name!CreateClaim
  <2> HIDE DEF l
  <2>3. /\ creator' \in [Creators -> Creations] /\ creator'[c] = l
        /\ \A x \in Creators \ {c} : creator'[x] = creator[x]
    BY <2>1, <2>2
  <2>4. CreationsClean' /\ DrainsClean'
    BY <1>3, <2>2 DEF CreationsClean, DrainsClean, Name!Live
  <2> QED
    BY <2>2, <2>3, <2>4 DEF HeldIsAccountedFor, Held, Name!NoPendingCleanupWhileLive
<1> QED
  BY <1>2, <1>3

LEMMA CreateCleanKeeps == ASSUME NameInv, NEW c \in Creators, Name!CreateClean(c) PROVE NameInv'
<1> USE DEF NameInv, NameTypes
<1> DEFINE l == [creator[c] EXCEPT !.pc = "insert"]
<1>1. creator[c] \in Creations
  OBVIOUS
<1>2. l \in Creations /\ l.pc = "insert" /\ l.target = creator[c].target /\ l.claimed = creator[c].claimed
  BY <1>1 DEF Creations
<1>3. /\ creator' = [creator EXCEPT ![c] = l] /\ storage' = storage \ {creator[c].target}
      /\ wiped' = wiped \cup {creator[c].target}
      /\ creator[c].pc = "clean" /\ UNCHANGED <<repo, born, nameJob, lock, nameDrain, request>>
  BY Zenon DEF Name!CreateClean, Name!DeleteStorage
<1> HIDE DEF l
<1>4. /\ creator' \in [Creators -> Creations] /\ creator'[c] = l
      /\ \A x \in Creators \ {c} : creator'[x] = creator[x]
  BY <1>2, <1>3
<1>5. /\ storage' \in SUBSET Name!Born /\ wiped' \in SUBSET Name!Born
      /\ wiped \subseteq wiped' /\ creator[c].target \in wiped'
  BY <1>1, <1>3 DEF Creations
<1>6. CreationsClean' /\ DrainsClean'
  BY <1>2, <1>3, <1>4, <1>5 DEF CreationsClean, DrainsClean, Name!Live
<1>7. HeldIsAccountedFor'
  BY <1>3, <1>5, HeldStays DEF Held
<1> QED
  BY <1>3, <1>4, <1>5, <1>6, <1>7 DEF Name!NoPendingCleanupWhileLive

\* What is left on disk when the name is taken was written after its deletion: by the
\* cleanup that the creation has claimed, or by an earlier one.
LEMMA CreateInsertKeeps == ASSUME NameInv, NEW c \in Creators, Name!CreateInsert(c) PROVE NameInv'
<1> USE DEF NameInv, NameTypes
<1>1. \A i \in Held : i # 0 /\ i \in wiped
  <2>1. \A i \in Held : i # 0 /\ ((nameJob.open /\ nameJob.target = i) \/ i \in wiped)
    BY DEF Name!CreateInsert, HeldIsAccountedFor
  <2>2. CASE creator[c].claimed
    BY <2>1, <2>2 DEF Name!CreateInsert, CreationsClean
  <2>3. CASE ~creator[c].claimed
    BY <2>1, <2>3 DEF Name!CreateInsert
  <2> QED
    BY <2>2, <2>3
<1>2. nameJob' \in NameJobs /\ nameJob'.open = FALSE
  <2>1. nameJob' = Name!NoJob \/ (nameJob' = nameJob /\ ~nameJob.open)
    BY Zenon DEF Name!CreateInsert
  <2>2. nameJob.open \in BOOLEAN
    BY DEF NameJobs
  <2> QED
    BY <2>1, <2>2, NameStarts
<1>3. /\ creator' = [creator EXCEPT ![c] = Name!NoCreation] /\ creator' \in [Creators -> Creations]
      /\ lock' \in Creators \cup Drains \cup {Nobody} /\ UNCHANGED <<storage, nameDrain, request, wiped>>
  BY NameStarts DEF Name!CreateInsert, Name!CreateEnds, Name!Release
<1>4. repo' \in Name!Born /\ born' \in Name!Born
  BY NameNumbers DEF Name!CreateInsert, Name!Born
<1>5. Held' = Held
  BY <1>3 DEF Held
<1> QED
  BY <1>1, <1>2, <1>3, <1>4, <1>5 DEF HeldIsAccountedFor, Name!NoPendingCleanupWhileLive,
     CreationsClean, DrainsClean, Name!Live

-----------------------------------------------------------------------------
(* Names: deletion and requests                                             *)

LEMMA DeleteRepoKeeps == ASSUME NameInv, Name!DeleteRepo PROVE NameInv'
<1> USE DEF NameInv, NameTypes
<1> DEFINE k == [open |-> TRUE, claim |-> Nobody, target |-> repo, due |-> 0]
<1>1. k \in NameJobs /\ k.open /\ k.claim = Nobody /\ k.target = repo
  BY DEF NameJobs
<1>2. nameJob' = k /\ repo' = 0 /\ repo # 0
      /\ UNCHANGED <<born, storage, lock, creator, nameDrain, request, wiped>>
  BY Zenon DEF Name!DeleteRepo
<1> HIDE DEF k
<1>3. CreationsClean' /\ DrainsClean'
  BY <1>1, <1>2, NameNumbers DEF CreationsClean, DrainsClean, Name!Live
<1>4. Held' = Held
  BY <1>2 DEF Held
<1>5. HeldIsAccountedFor' /\ Name!NoPendingCleanupWhileLive'
  BY <1>1, <1>2, <1>4 DEF HeldIsAccountedFor, Name!NoPendingCleanupWhileLive
<1> QED
  BY <1>1, <1>2, <1>3, <1>5, NameNumbers

\* A request moves, and may write for the incarnation it has read.
LEMMA RequestMoves ==
  ASSUME NameInv, NEW q \in Requests, NEW l \in GitRequests,
         request' = [request EXCEPT ![q] = l], storage' \subseteq Held, storage' \in SUBSET Name!Born,
         UNCHANGED <<repo, born, nameJob, lock, creator, nameDrain, wiped>>,
         l.pc # "idle" =>
           (l.target = repo /\ repo # 0) \/ (l.target = request[q].target /\ request[q].pc # "idle")
  PROVE  NameInv'
<1> USE DEF NameInv, NameTypes
<1>1. /\ request' \in [Requests -> GitRequests] /\ request'[q] = l
      /\ \A r \in Requests \ {q} : request'[r] = request[r]
  OBVIOUS
<1>2. CreationsClean' /\ DrainsClean' /\ Name!NoPendingCleanupWhileLive'
  BY DEF CreationsClean, DrainsClean, Name!Live, Name!NoPendingCleanupWhileLive
<1>3. \A i \in Held' : i \in Held \/ (i = repo /\ repo # 0)
  BY <1>1 DEF Held
<1>4. HeldIsAccountedFor'
  BY <1>3 DEF HeldIsAccountedFor
<1> QED
  BY <1>1, <1>2, <1>4

LEMMA RequestKeeps == ASSUME NameInv, NEW q \in Requests, Name!RequestStep(q) PROVE NameInv'
<1> USE DEF NameInv, NameTypes
<1>1. request[q] \in GitRequests /\ storage \subseteq Held
  BY DEF Held
<1>2. CASE Name!RequestBegins(q)
  <2> DEFINE l == [pc |-> "read", target |-> repo]
  <2>1. l \in GitRequests /\ l.target = repo
    BY DEF GitRequests
  <2>2. /\ request' = [request EXCEPT ![q] = l] /\ repo # 0
        /\ UNCHANGED <<repo, born, storage, nameJob, lock, creator, nameDrain, wiped>>
    BY <1>2, Zenon DEF Name!RequestBegins
  <2> HIDE DEF l
  <2> QED
    BY <1>1, <2>1, <2>2, RequestMoves
<1>3. CASE Name!RequestLeases(q)
  <2> DEFINE l == [request[q] EXCEPT !.pc = "leased"]
  <2>1. l \in GitRequests /\ l.target = request[q].target
    BY <1>1 DEF GitRequests
  <2>2. /\ request' = [request EXCEPT ![q] = l] /\ request[q].pc # "idle"
        /\ UNCHANGED <<repo, born, storage, nameJob, lock, creator, nameDrain, wiped>>
    BY <1>3, Zenon DEF Name!RequestLeases
  <2> HIDE DEF l
  <2> QED
    BY <1>1, <2>1, <2>2, RequestMoves
<1>4. CASE Name!RequestWrites(q)
  <2>1. /\ request' = [request EXCEPT ![q] = request[q]] /\ request[q].pc # "idle"
        /\ storage' = storage \cup {request[q].target}
        /\ UNCHANGED <<repo, born, nameJob, lock, creator, nameDrain, wiped>>
    BY <1>4 DEF Name!RequestWrites
  <2>2. storage' \subseteq Held /\ storage' \in SUBSET Name!Born
    BY <1>1, <2>1 DEF Held, GitRequests
  <2> QED
    BY <1>1, <2>1, <2>2, RequestMoves
<1>5. CASE Name!RequestEnds(q)
  BY <1>1, <1>5, NameStarts, RequestMoves DEF Name!RequestEnds
<1> QED
  BY <1>2, <1>3, <1>4, <1>5 DEF Name!RequestStep

-----------------------------------------------------------------------------
(* Names: drains                                                            *)

LEMMA NameDrainClaimKeeps == ASSUME NameInv, NEW d \in Drains, Name!DrainClaim(d) PROVE NameInv'
<1> USE DEF NameInv, NameTypes
<1> DEFINE k == [nameJob EXCEPT !.claim = d, !.due = NameClaimTime]
           l == [Name!NoDrain EXCEPT !.pc = "lock", !.target = nameJob.target, !.live = (repo # 0)]
<1>1. k \in NameJobs /\ k.open = nameJob.open /\ k.claim = d /\ k.target = nameJob.target
  BY NameNumbers DEF NameJobs
<1>2. l \in NameDrains /\ l.pc = "lock" /\ l.target = nameJob.target
  BY NameStarts DEF NameDrains, NameJobs
<1>3. nameJob' = k /\ nameDrain' = [nameDrain EXCEPT ![d] = l]
      /\ UNCHANGED <<repo, born, storage, lock, creator, request, wiped>>
  BY Zenon DEF Name!DrainClaim
<1> HIDE DEF k, l
<1>4. /\ nameDrain' \in [Drains -> NameDrains] /\ nameDrain'[d] = l
      /\ \A x \in Drains \ {d} : nameDrain'[x] = nameDrain[x]
  BY <1>2, <1>3
<1>5. CreationsClean'
  BY <1>1, <1>3, NameNumbers DEF CreationsClean, Name!Live
<1>6. DrainsClean'
  BY <1>1, <1>2, <1>3, <1>4 DEF DrainsClean, Name!Live
<1> QED
  BY <1>1, <1>3, <1>4, <1>5, <1>6 DEF HeldIsAccountedFor, Held, Name!NoPendingCleanupWhileLive

\* A drain moves, and at most deletes what it was told to.
LEMMA NameDrainMoves ==
  ASSUME NameInv, NEW d \in Drains, NEW l \in NameDrains,
         nameDrain' = [nameDrain EXCEPT ![d] = l],
         lock' \in Creators \cup Drains \cup {Nobody}, UNCHANGED <<repo, born, nameJob, creator>>,
         UNCHANGED request, storage' \subseteq storage, wiped \subseteq wiped',
         wiped' \in SUBSET Name!Born,
         l.pc # "idle" => nameDrain[d].pc # "idle" /\ l.target = nameDrain[d].target,
         l.pc = "finish" /\ ~l.kept => l.target \in wiped'
  PROVE  NameInv'
<1> USE DEF NameInv, NameTypes
<1>1. /\ nameDrain' \in [Drains -> NameDrains] /\ nameDrain'[d] = l
      /\ \A x \in Drains \ {d} : nameDrain'[x] = nameDrain[x]
  OBVIOUS
<1>2. CreationsClean'
  BY DEF CreationsClean, Name!Live
<1>3. DrainsClean'
  BY <1>1 DEF DrainsClean, Name!Live
<1>4. HeldIsAccountedFor'
  BY HeldStays DEF Held
<1> QED
  BY <1>1, <1>2, <1>3, <1>4 DEF Name!NoPendingCleanupWhileLive

LEMMA NameDrainWorks ==
  ASSUME NameInv, NEW d \in Drains,
         \/ Name!DrainLock(d) \/ Name!DrainExists(d) \/ Name!DrainDelete(d)
         \/ Name!DrainDeleteInUse(d) \/ Name!DrainDeleteFails(d) \/ Name!DrainAborts(d)
  PROVE  NameInv'
<1> USE DEF NameInv, NameTypes
<1> DEFINE l(pc) == [nameDrain[d] EXCEPT !.pc = pc]
           k == [nameDrain[d] EXCEPT !.pc = "finish", !.kept = TRUE]
<1>1. nameDrain[d] \in NameDrains
  OBVIOUS
<1>2. \A pc \in {"exists", "delete", "finish"} :
        l(pc) \in NameDrains /\ l(pc).pc = pc /\ l(pc).target = nameDrain[d].target
  BY <1>1 DEF NameDrains
<1>3. k \in NameDrains /\ k.pc = "finish" /\ k.kept /\ k.target = nameDrain[d].target
  BY <1>1 DEF NameDrains
<1>4. Name!NoDrain \in NameDrains /\ Name!NoDrain.pc = "idle"
  BY NameStarts DEF Name!NoDrain
<1>5. lock' \in Creators \cup Drains \cup {Nobody} /\ UNCHANGED <<repo, born, nameJob, creator>>
      /\ UNCHANGED request
  BY DEF Name!DrainLock, Name!DrainExists, Name!DrainDelete, Name!DrainDeleteInUse,
     Name!DrainDeleteFails, Name!DrainKeeps, Name!DrainAborts, Name!Release
<1>6. CASE Name!DrainLock(d)
  <2>1. nameDrain' = [nameDrain EXCEPT ![d] = l("exists")] /\ nameDrain[d].pc # "idle"
        /\ UNCHANGED <<storage, wiped>>
    BY <1>6, Zenon DEF Name!DrainLock
  <2> HIDE DEF l
  <2> QED
    BY <1>2, <1>5, <2>1, NameDrainMoves
<1>7. CASE Name!DrainExists(d)
  <2>1. /\ \/ nameDrain' = [nameDrain EXCEPT ![d] = l("delete")]
           \/ nameDrain' = [nameDrain EXCEPT ![d] = k]
        /\ nameDrain[d].pc # "idle" /\ UNCHANGED <<storage, wiped>>
    BY <1>7, Zenon DEF Name!DrainExists
  <2> HIDE DEF l, k
  <2> QED
    BY <1>2, <1>3, <1>5, <2>1, NameDrainMoves
<1>8. CASE Name!DrainDelete(d)
  <2>1. /\ nameDrain' = [nameDrain EXCEPT ![d] = l("finish")] /\ nameDrain[d].pc # "idle"
        /\ storage' = storage \ {nameDrain[d].target} /\ wiped' = wiped \cup {nameDrain[d].target}
    BY <1>8, Zenon DEF Name!DrainDelete, Name!DeleteStorage
  <2> HIDE DEF l
  <2>2. /\ l("finish").target \in wiped' /\ storage' \subseteq storage
        /\ wiped \subseteq wiped' /\ wiped' \in SUBSET Name!Born
    BY <1>1, <1>2, <2>1 DEF NameDrains
  <2> QED
    BY <1>2, <1>5, <2>1, <2>2, NameDrainMoves
<1>9. CASE Name!DrainDeleteInUse(d) \/ Name!DrainDeleteFails(d)
  <2>1. nameDrain' = [nameDrain EXCEPT ![d] = k] /\ nameDrain[d].pc # "idle" /\ UNCHANGED <<storage, wiped>>
    BY <1>9, Zenon DEF Name!DrainDeleteInUse, Name!DrainDeleteFails, Name!DrainKeeps
  <2> HIDE DEF k
  <2> QED
    BY <1>3, <1>5, <2>1, NameDrainMoves
<1>10. CASE Name!DrainAborts(d)
  <2>1. nameDrain' = [nameDrain EXCEPT ![d] = Name!NoDrain] /\ UNCHANGED <<storage, wiped>>
    BY <1>10, Zenon DEF Name!DrainAborts
  <2> QED
    BY <1>4, <1>5, <2>1, NameDrainMoves
<1> QED
  BY <1>6, <1>7, <1>8, <1>9, <1>10

LEMMA NameDrainFinishKeeps == ASSUME NameInv, NEW d \in Drains, Name!DrainFinish(d) PROVE NameInv'
<1> USE DEF NameInv, NameTypes
<1>1. /\ nameDrain' = [nameDrain EXCEPT ![d] = Name!NoDrain]
      /\ UNCHANGED <<repo, born, storage, lock, creator, request, wiped>> /\ nameDrain[d].pc = "finish"
  BY DEF Name!DrainFinish
<1>2. /\ nameDrain' \in [Drains -> NameDrains] /\ nameDrain'[d].pc = "idle"
      /\ \A x \in Drains \ {d} : nameDrain'[x] = nameDrain[x]
  BY <1>1, NameStarts DEF Name!NoDrain
<1>3. CASE UNCHANGED nameJob
  BY <1>1, <1>2, <1>3, NameStarts, NameDrainMoves DEF Name!NoDrain
<1>4. CASE Name!Live(d) /\ ~nameDrain[d].kept
  <2>1. nameJob' = Name!NoJob /\ nameJob' \in NameJobs /\ nameJob'.open = FALSE
    BY <1>4, NameStarts, Zenon DEF Name!DrainFinish
  <2>2. nameJob.target \in wiped
    BY <1>1, <1>4 DEF DrainsClean
  <2>3. Held' = Held
    BY <1>1 DEF Held
  <2>4. HeldIsAccountedFor'
    BY <1>1, <2>1, <2>2, <2>3 DEF HeldIsAccountedFor
  <2> QED
    BY <1>1, <1>2, <2>1, <2>4 DEF
       Name!NoPendingCleanupWhileLive, CreationsClean, DrainsClean, Name!Live
<1>5. CASE Name!Live(d) /\ nameDrain[d].kept
  <2>1. PICK delay \in 0..NameRetryDelay :
          nameJob' = [nameJob EXCEPT !.due = Name!Remaining(delay, nameDrain[d].age)]
    BY <1>5 DEF Name!DrainFinish
  <2>2. Name!Remaining(delay, nameDrain[d].age) \in Nat
    <3>1. delay \in Nat
      BY NameNumbers
    <3>2. nameDrain[d].age \in Nat
      BY DEF NameDrains
    <3> QED
      BY <3>1, <3>2, NameNumbers
  <2>3. /\ nameJob' \in NameJobs /\ nameJob'.open = nameJob.open /\ nameJob'.claim = nameJob.claim
        /\ nameJob'.target = nameJob.target
    BY <2>1, <2>2 DEF NameJobs
  <2> QED
    BY <1>1, <1>2, <2>3 DEF HeldIsAccountedFor, Held,
       Name!NoPendingCleanupWhileLive, CreationsClean, DrainsClean, Name!Live
<1> QED
  BY <1>3, <1>4, <1>5 DEF Name!DrainFinish

\* Time moves nothing but ages and delays.
LEMMA OlderKeeps ==
  /\ \A x \in Creations : /\ Name!Older(x) \in Creations /\ Name!Older(x).pc = x.pc
                          /\ Name!Older(x).claimed = x.claimed /\ Name!Older(x).target = x.target
  /\ \A x \in NameDrains : /\ Name!Older(x) \in NameDrains /\ Name!Older(x).pc = x.pc
                           /\ Name!Older(x).kept = x.kept /\ Name!Older(x).target = x.target
<1>1. \A a \in Nat : Name!Sooner(a + 1, Name!MaxAge) \in Nat
  BY NameNumbers DEF Name!Sooner
<1>2. ASSUME NEW x \in Creations
      PROVE  /\ Name!Older(x) \in Creations /\ Name!Older(x).pc = x.pc
             /\ Name!Older(x).claimed = x.claimed /\ Name!Older(x).target = x.target
  <2>1. x.age \in Nat
    BY DEF Creations
  <2> DEFINE a == Name!Sooner(x.age + 1, Name!MaxAge)
  <2>2. a \in Nat
    BY <1>1, <2>1
  <2>3. Name!Older(x) = IF x.pc = "idle" THEN x ELSE [x EXCEPT !.age = a]
    BY Zenon DEF Name!Older
  <2> HIDE DEF a
  <2> QED
    BY <2>2, <2>3 DEF Creations
<1>3. ASSUME NEW x \in NameDrains
      PROVE  /\ Name!Older(x) \in NameDrains /\ Name!Older(x).pc = x.pc
             /\ Name!Older(x).kept = x.kept /\ Name!Older(x).target = x.target
  <2>1. x.age \in Nat
    BY DEF NameDrains
  <2> DEFINE a == Name!Sooner(x.age + 1, Name!MaxAge)
  <2>2. a \in Nat
    BY <1>1, <2>1
  <2>3. Name!Older(x) = IF x.pc = "idle" THEN x ELSE [x EXCEPT !.age = a]
    BY Zenon DEF Name!Older
  <2> HIDE DEF a
  <2> QED
    BY <2>2, <2>3 DEF NameDrains
<1> QED
  BY <1>2, <1>3

LEMMA NameTickKeeps == ASSUME NameInv, Name!Tick PROVE NameInv'
<1> USE DEF NameInv, NameTypes
<1> DEFINE k == [nameJob EXCEPT !.due = Name!Later(nameJob.due - 1, 0)]
<1>1. /\ k \in NameJobs /\ k.open = nameJob.open /\ k.claim = nameJob.claim
      /\ k.target = nameJob.target
  BY DEF NameJobs, Name!Later
<1>2. /\ nameJob' = k /\ creator' = [c \in Creators |-> Name!Older(creator[c])]
      /\ nameDrain' = [d \in Drains |-> Name!Older(nameDrain[d])]
      /\ UNCHANGED <<repo, born, storage, lock, request, wiped>>
  BY Zenon DEF Name!Tick
<1> HIDE DEF k
<1>3. /\ creator' \in [Creators -> Creations]
      /\ \A c \in Creators : /\ creator'[c].pc = creator[c].pc
                             /\ creator'[c].claimed = creator[c].claimed
                             /\ creator'[c].target = creator[c].target
  BY <1>2, OlderKeeps
<1>4. /\ nameDrain' \in [Drains -> NameDrains]
      /\ \A d \in Drains : /\ nameDrain'[d].pc = nameDrain[d].pc
                           /\ nameDrain'[d].kept = nameDrain[d].kept
                           /\ nameDrain'[d].target = nameDrain[d].target
  BY <1>2, OlderKeeps
<1>5. CreationsClean' /\ DrainsClean'
  BY <1>1, <1>2, <1>3, <1>4 DEF CreationsClean, DrainsClean, Name!Live
<1> QED
  BY <1>1, <1>2, <1>3, <1>4, <1>5 DEF HeldIsAccountedFor, Held, Name!NoPendingCleanupWhileLive

LEMMA NameInitInv == Name!Init => NameInv
<1> SUFFICES ASSUME Name!Init PROVE NameInv
  OBVIOUS
<1>1. NameTypes
  BY NameNumbers, NameStarts DEF Name!Init, NameTypes, NameJobs
<1>2. Held = {}
  <2>1. storage = {} /\ \A q \in Requests : request[q].pc = "idle"
    BY NameStarts DEF Name!Init
  <2> QED
    BY <2>1 DEF Held
<1>3. nameJob.open = FALSE
  BY NameStarts DEF Name!Init
<1> QED
  BY <1>1, <1>2, <1>3 DEF Name!Init, NameInv, HeldIsAccountedFor, Name!NoPendingCleanupWhileLive,
     CreationsClean, DrainsClean, Name!Live

LEMMA NameNextInv == NameInv /\ [Name!Next]_(Name!vars) => NameInv'
<1> SUFFICES ASSUME NameInv, [Name!Next]_(Name!vars) PROVE NameInv'
  OBVIOUS
<1>1. CASE UNCHANGED Name!vars
  BY <1>1 DEF Name!vars, NameInv, NameTypes, HeldIsAccountedFor, Held,
     Name!NoPendingCleanupWhileLive, CreationsClean, DrainsClean, Name!Live
<1>2. ASSUME NEW c \in Creators, Name!CreatorStep(c) PROVE NameInv'
  <2>1. CASE Name!CreateRefused(c) \/ Name!CreateConflicts(c) \/ Name!CreateAborts(c)
    BY <2>1, CreateEndsKeeps DEF Name!CreateRefused, Name!CreateConflicts, Name!CreateAborts
  <2> QED
    BY <1>2, <2>1, CreateBeginKeeps, CreateClaimKeeps, CreateCleanKeeps, CreateInsertKeeps
       DEF Name!CreatorStep
<1>3. ASSUME NEW d \in Drains, Name!DrainStep(d) PROVE NameInv'
  BY <1>3, NameDrainClaimKeeps, NameDrainWorks, NameDrainFinishKeeps DEF Name!DrainStep
<1> QED
  BY <1>1, <1>2, <1>3, DeleteRepoKeeps, RequestKeeps, NameTickKeeps DEF Name!Next

-----------------------------------------------------------------------------
(* Names: whose storage a cleanup may delete                                *)

\* An incarnation whose repository is gone, and so is not the next one either.
Past(i) == i =< born /\ (repo # 0 => i # repo)

TargetsArePast ==
  /\ repo =< born /\ Past(nameJob.target)
  /\ \A c \in Creators : Past(creator[c].target)
  /\ \A d \in Drains : Past(nameDrain[d].target)
  /\ \A i \in wiped : Past(i)

LEMMA PastStays ==
  ASSUME NameInv, TargetsArePast, UNCHANGED <<repo, born>>,
         nameJob'.target \in {0, nameJob.target},
         \A c \in Creators : creator'[c].target \in {0, creator[c].target, nameJob.target},
         \A d \in Drains : nameDrain'[d].target \in {0, nameDrain[d].target, nameJob.target},
         \A i \in wiped' : \/ i \in wiped
                           \/ \E c \in Creators : i = creator[c].target
                           \/ \E d \in Drains : i = nameDrain[d].target
  PROVE  TargetsArePast'
<1>1. born \in Nat
  BY NameNumbers DEF NameInv, NameTypes
<1>2. Past(0)
  BY <1>1 DEF Past
<1>3. \A i : Past(i) => Past(i)'
  BY DEF Past
<1> QED
  BY <1>2, <1>3 DEF TargetsArePast

LEMMA CreationsPast ==
  ASSUME NameInv, TargetsArePast, NEW c \in Creators, Name!CreatorStep(c)
  PROVE  TargetsArePast'
<1> USE DEF NameInv, NameTypes
<1>1. creator[c] \in Creations
  OBVIOUS
<1>2. CASE Name!CreateInsert(c)
  <2>1. /\ repo' = born + 1 /\ born' = born + 1 /\ UNCHANGED <<nameDrain, wiped>>
        /\ creator' = [creator EXCEPT ![c] = Name!NoCreation]
        /\ nameJob' = Name!NoJob \/ nameJob' = nameJob
    BY <1>2, Zenon DEF Name!CreateInsert, Name!CreateEnds
  <2>2. born \in Nat /\ \A i \in Name!Born : i \in Nat
    BY NameNumbers
  <2>3. Past(0)' /\ \A i \in Name!Born : Past(i) => Past(i)'
    BY <2>1, <2>2 DEF Past
  <2>4. Past(nameJob.target)'
    <3>1. nameJob.target \in Name!Born /\ Name!NoJob.target = 0
      BY DEF NameJobs, Name!NoJob
    <3> QED
      BY <2>1, <2>3, <3>1 DEF TargetsArePast
  <2>5. \A d \in Drains : Past(nameDrain[d].target)'
    <3>1. \A d \in Drains : nameDrain[d].target \in Name!Born
      BY DEF NameDrains
    <3> QED
      BY <2>1, <2>3, <3>1 DEF TargetsArePast
  <2>6. \A x \in Creators : Past(creator[x].target)'
    <3>1. \A x \in Creators : creator[x].target \in Name!Born
      BY DEF Creations
    <3>2. \A x \in Creators : creator'[x].target \in {0, creator[x].target}
      BY <2>1 DEF Name!NoCreation
    <3> QED
      BY <2>3, <3>1, <3>2 DEF TargetsArePast
  <2> QED
    BY <2>1, <2>2, <2>3, <2>4, <2>5, <2>6 DEF TargetsArePast
<1>3. CASE ~Name!CreateInsert(c)
  <2>1. /\ UNCHANGED <<repo, born, nameDrain>> /\ nameJob'.target = nameJob.target
        /\ wiped' \subseteq wiped \cup {creator[c].target}
        /\ \E l : /\ creator' = [creator EXCEPT ![c] = l]
                 /\ l.target \in {0, creator[c].target, nameJob.target}
    <3>1. CASE Name!CreateClaim(c)
      <4>1. /\ UNCHANGED <<repo, born, nameDrain, wiped>>
            /\ \/ nameJob' = nameJob
               \/ \E due : nameJob' = [nameJob EXCEPT !.claim = c, !.due = due]
            /\ \/ creator' = [creator EXCEPT ![c] = [@ EXCEPT !.pc = "insert"]]
               \/ creator' = [creator EXCEPT ![c] =
                                [@ EXCEPT !.pc = "clean", !.claimed = TRUE, !.target = nameJob.target]]
        BY <3>1, Zenon DEF Name!CreateClaim
      <4>2. nameJob'.target = nameJob.target
        BY <4>1 DEF NameJobs
      <4>3. \E l : /\ creator' = [creator EXCEPT ![c] = l]
                  /\ l.target \in {0, creator[c].target, nameJob.target}
        BY <1>1, <4>1 DEF Creations
      <4> QED
        BY <4>1, <4>2, <4>3
    <3>2. CASE Name!CreateBegin(c) \/ Name!CreateLock(c) \/ Name!CreateClean(c)
      BY <1>1, <3>2 DEF Name!CreateBegin, Name!CreateLock, Name!CreateClean, Name!DeleteStorage,
         Creations
    <3>3. CASE Name!CreateRefused(c) \/ Name!CreateConflicts(c) \/ Name!CreateAborts(c)
      BY <3>3 DEF Name!CreateRefused, Name!CreateConflicts, Name!CreateAborts, Name!CreateEnds,
         Name!NoCreation
    <3> QED
      BY <1>3, <3>1, <3>2, <3>3 DEF Name!CreatorStep
  <2>2. \A x \in Creators : creator'[x].target \in {0, creator[x].target, nameJob.target}
    BY <2>1
  <2> QED
    BY <2>1, <2>2, PastStays
<1> QED
  BY <1>2, <1>3

LEMMA DrainsPast ==
  ASSUME NameInv, TargetsArePast, NEW d \in Drains, Name!DrainStep(d)
  PROVE  TargetsArePast'
<1> USE DEF NameInv, NameTypes
<1>1. nameDrain[d] \in NameDrains
  OBVIOUS
<1>2. /\ UNCHANGED <<repo, born, creator>> /\ nameJob'.target \in {0, nameJob.target}
      /\ wiped' \subseteq wiped \cup {nameDrain[d].target}
      /\ \E l : /\ nameDrain' = [nameDrain EXCEPT ![d] = l]
               /\ l.target \in {0, nameDrain[d].target, nameJob.target}
  <2>1. CASE Name!DrainClaim(d)
    <3> DEFINE l == [Name!NoDrain EXCEPT !.pc = "lock", !.target = nameJob.target, !.live = (repo # 0)]
               k == [nameJob EXCEPT !.claim = d, !.due = NameClaimTime]
    <3>1. l.target = nameJob.target /\ k.target = nameJob.target
      BY DEF Name!NoDrain, NameJobs
    <3>2. /\ nameJob' = k /\ nameDrain' = [nameDrain EXCEPT ![d] = l]
          /\ UNCHANGED <<repo, born, creator, wiped>>
      BY <2>1, Zenon DEF Name!DrainClaim
    <3> HIDE DEF l, k
    <3> QED
      BY <3>1, <3>2
  <2>2. CASE Name!DrainLock(d) \/ Name!DrainExists(d) \/ Name!DrainDelete(d)
    BY <1>1, <2>2 DEF Name!DrainLock, Name!DrainExists, Name!DrainDelete, Name!DeleteStorage,
       NameDrains
  <2>3. CASE Name!DrainDeleteInUse(d) \/ Name!DrainDeleteFails(d)
    BY <1>1, <2>3 DEF Name!DrainDeleteInUse, Name!DrainDeleteFails, Name!DrainKeeps, NameDrains
  <2>4. CASE Name!DrainFinish(d) \/ Name!DrainAborts(d)
    BY <2>4 DEF Name!DrainFinish, Name!DrainAborts, Name!NoDrain, Name!NoJob, NameJobs
  <2> QED
    BY <2>1, <2>2, <2>3, <2>4 DEF Name!DrainStep
<1>3. \A x \in Drains : nameDrain'[x].target \in {0, nameDrain[x].target, nameJob.target}
  BY <1>2
<1> QED
  BY <1>2, <1>3, PastStays

LEMMA NextPast == NameInv /\ TargetsArePast /\ [Name!Next]_(Name!vars) => TargetsArePast'
<1> SUFFICES ASSUME NameInv, TargetsArePast, [Name!Next]_(Name!vars) PROVE TargetsArePast'
  OBVIOUS
<1> USE DEF NameInv, NameTypes
<1>1. CASE UNCHANGED Name!vars
  BY <1>1, PastStays DEF Name!vars
<1>2. CASE Name!DeleteRepo
  <2>1. /\ repo' = 0 /\ nameJob'.target = repo
        /\ UNCHANGED <<born, creator, nameDrain, wiped>>
    BY <1>2 DEF Name!DeleteRepo
  <2>2. \A i : i =< born => Past(i)'
    BY <2>1 DEF Past
  <2>3. born \in Nat /\ repo =< born
    BY NameNumbers DEF TargetsArePast
  <2>4. \A c \in Creators : Past(creator[c].target)'
    BY <2>1, <2>2 DEF TargetsArePast, Past
  <2>5. \A d \in Drains : Past(nameDrain[d].target)'
    BY <2>1, <2>2 DEF TargetsArePast, Past
  <2>6. \A i \in wiped : Past(i)'
    BY <2>1, <2>2 DEF TargetsArePast, Past
  <2> QED
    BY <2>1, <2>2, <2>3, <2>4, <2>5, <2>6 DEF TargetsArePast
<1>3. ASSUME NEW q \in Requests, Name!RequestStep(q) PROVE TargetsArePast'
  BY <1>3, PastStays DEF Name!RequestStep, Name!RequestBegins, Name!RequestLeases,
     Name!RequestWrites, Name!RequestEnds
<1>4. CASE Name!Tick
  <2>1. /\ UNCHANGED <<repo, born, wiped>> /\ nameJob'.target = nameJob.target
        /\ creator' = [c \in Creators |-> Name!Older(creator[c])]
        /\ nameDrain' = [d \in Drains |-> Name!Older(nameDrain[d])]
    BY <1>4 DEF Name!Tick, NameJobs
  <2>2. /\ \A c \in Creators : creator'[c].target = creator[c].target
        /\ \A d \in Drains : nameDrain'[d].target = nameDrain[d].target
    BY <2>1, OlderKeeps
  <2> QED
    BY <2>1, <2>2, PastStays
<1> QED
  BY <1>1, <1>2, <1>3, <1>4, CreationsPast, DrainsPast DEF Name!Next

LEMMA InitPast == Name!Init => TargetsArePast
  BY DEF Name!Init, TargetsArePast, Past, Name!NoJob, Name!NoCreation, Name!NoDrain

LEMMA NameInvImplies ==
  NameInv => Name!TypeOK /\ Name!StorageIsAccountedFor /\ Name!NoPendingCleanupWhileLive
  BY DEF NameInv, NameTypes, Name!TypeOK, NameJobs, Creations, NameDrains, GitRequests,
     HeldIsAccountedFor, Held, Name!StorageIsAccountedFor

\* No bytes are forgotten: an object that nothing refers to is queued, and what is
\* on disk under a name belongs to its repository, to the one cleanup that the
\* name's row stands for, or to a request that wrote it after that cleanup had
\* deleted, since a repository is inserted only when the cleanup has been done; and
\* a cleanup only ever deletes what belonged to a repository that is gone
\* (cleanup_queue, repo_lifecycle.rs).
THEOREM BytesStayTracked == Spec /\ Name!Spec => []BytesAreTracked
<1>1. Spec => [](TypeOK /\ OrphansAreQueued)
  BY CleanupTypes, OrphansStayQueued, PTL
<1>2. TargetsArePast => Name!LiveStorageIsKept
  BY DEF TargetsArePast, Past, Name!LiveStorageIsKept
<1> QED
  BY <1>1, <1>2, NameInitInv, NameNextInv, NameInvImplies, InitPast, NextPast, PTL
     DEF Name!Spec, BytesAreTracked
=============================================================================
