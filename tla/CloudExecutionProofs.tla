------------------------ MODULE CloudExecutionProofs ------------------------
(***************************************************************************)
(* The composition of run store, coordinator and broker, proved for every  *)
(* workflow, every limit and any number of stop reconciliations: a job is  *)
(* executed by one task at a time, the limit bounds tasks, and a completed *)
(* stop is the truth.                                                      *)
(***************************************************************************)
EXTENDS CloudExecution, RunStoreProofs, FiniteSetTheorems

-----------------------------------------------------------------------------
(* The inductive invariant                                                  *)

\* Only an attempt that exists was authorized, only an authorized one launched,
\* and a closed one executes no more.
Provided ==
  /\ \A a \in granted : State(a) # "Absent"
  /\ \A a \in Attempts : task[a] # "Absent" => a \in granted
  /\ \A a \in closed : task[a] # "Live"

\* A provision under way: a rejection has closed its attempt.
Starting(a) ==
  start[a].pc # "idle" =>
    /\ State(a) # "Absent" /\ start[a].now # NoTime
    /\ start[a].pc \in {"reject", "absence"} => a \in closed

\* A stop reconciliation under way: it completes only what is closed and has ended.
StoppingSoundly(w) ==
  LET s == stopper[w] IN
  s.pc # "idle" =>
    /\ s.target \in Attempts /\ State(s.target) # "Absent" /\ s.now # NoTime
    /\ ~s.abort \/ s.pc = "complete" => State(s.target) \in AttemptTerminal
    /\ s.pc \in {"confirm", "complete"} => s.target \in closed

\* Slots are held for tasks: at most one per job, and no more than there are.
Slots ==
  /\ \A a, b \in Occupying : a # b => a[1] # b[1]
  /\ Cardinality(Occupying) =< MaxConcurrency

CloudInv ==
  /\ StoreInv
  /\ CloudTypeOK
  /\ Provided
  /\ \A a \in Attempts : Starting(a)
  /\ \A w \in Stoppers : StoppingSoundly(w)
  /\ StopCompletedMeansGone
  /\ Slots

-----------------------------------------------------------------------------
(* What the steps of the store do to the states of attempts                 *)

\* A step of the store that dispatches nothing.
QuietNext ==
  \/ Tick
  \/ \E now \in Now :
       RequestCancellation(now) \/ RetryRun(now) \/ \E j \in Jobs : ExpireCapacityRetry(j, now)
  \/ \E now \in Nat \ {0}, j \in Jobs, n \in Numbers : AttemptAction(j, n, now)

\* An attempt stays as it is, goes on, or ends.
Ages(s, t) == t = s \/ (s \in AttemptActive /\ t \in AttemptActive \cup AttemptTerminal)

LEMMA AgesFacts ==
  ASSUME NEW s, NEW t, Ages(s, t)
  PROVE  /\ s # "Absent" => t # "Absent"
         /\ s \in AttemptTerminal => t = s
         /\ t \in AttemptActive => s \in AttemptActive
         /\ t \in AttemptTerminal => s \in AttemptActive \cup AttemptTerminal
  BY DEF Ages, AttemptActive, AttemptTerminal

LEMMA AttemptPair ==
  /\ \A a \in Attempts : a[1] \in Jobs /\ a[2] \in Numbers /\ a = <<a[1], a[2]>>
  /\ \A j \in Jobs, n \in Numbers : <<j, n>> \in Attempts
  BY DEF Attempts

LEMMA QuietIsLate == QuietNext => LateNext
  BY DEF QuietNext, LateNext, JobAction

LEMMA QuietAges ==
  ASSUME StoreInv, QuietNext \/ UNCHANGED storeVars
  PROVE  \A a \in Attempts : Ages(State(a), State(a)')
<1> SUFFICES ASSUME NEW b \in Attempts PROVE Ages(State(b), State(b)')
  OBVIOUS
<1> SUFFICES ASSUME NEW i \in Jobs, NEW m \in Numbers, i = b[1], m = b[2]
             PROVE  Ages(attempt[i][m].state, attempt'[i][m].state)
  BY AttemptPair DEF State
<1>1. TypeOK
  BY DEF StoreInv
<1>2. CASE attempt' = attempt
  BY <1>2 DEF Ages
<1>3. ASSUME NEW now \in Nat \ {0}, NEW j \in Jobs, NEW n \in Numbers, AttemptAction(j, n, now)
      PROVE  Ages(attempt[i][m].state, attempt'[i][m].state)
  <2>1. Replays(j, n) \/ Renews(j, n) \/ Advances(j, n) \/ Ends(j, n)
    BY <1>1, <1>3, AttemptKinds
  <2>2. CASE Replays(j, n)
    BY <1>2, <2>2, ReplaysInv
  <2>3. CASE Renews(j, n) \/ Advances(j, n) \/ Ends(j, n)
    <3>1. PICK a : /\ attempt' = [attempt EXCEPT ![j] = [@ EXCEPT ![n] = a]]
                   /\ attempt[j][n].state \in AttemptActive
                   /\ a.state \in AttemptActive \cup AttemptTerminal
      <4>1. CASE Renews(j, n)
        BY <4>1 DEF Renews, SaveAttempt
      <4>2. CASE Advances(j, n)
        BY <4>2 DEF Advances, MutateActiveAttempt, SaveAttempt
      <4>3. CASE Ends(j, n)
        BY <4>3 DEF Ends, MutateAttempt, SaveAttempt
      <4> QED
        BY <2>3, <4>1, <4>2, <4>3
    <3>2. /\ attempt'[j][n] = a
          /\ \A k \in Numbers \ {n} : attempt'[j][k] = attempt[j][k]
          /\ \A k \in Jobs \ {j} : attempt'[k] = attempt[k]
      BY <1>1, <3>1, SavedAttempt
    <3>3. CASE i = j /\ m = n
      BY <3>1, <3>2, <3>3 DEF Ages
    <3>4. CASE i # j \/ m # n
      <4>1. attempt'[i][m] = attempt[i][m]
        BY <3>2, <3>4
      <4> QED
        BY <4>1 DEF Ages
    <3> QED
      BY <3>3, <3>4
  <2> QED
    BY <2>1, <2>2, <2>3
<1>4. ASSUME NEW now \in Now, NEW j \in Jobs, ExpireCapacityRetry(j, now)
      PROVE  attempt' = attempt
  BY <1>4 DEF ExpireCapacityRetry
<1> QED
  BY <1>2, <1>3, <1>4 DEF QuietNext, storeVars, Tick, RequestCancellation, RetryRun

\* A dispatch makes one attempt of its job exist and leaves the others alone.
LEMMA DispatchStates ==
  ASSUME StoreInv, NEW now \in Now, NEW j \in Jobs, Dispatch(j, now),
         NEW a, a = <<j, job[j].last + 1>>
  PROVE  /\ a \in Attempts
         /\ State(a) = "Absent" /\ State(a)' = "Dispatching"
         /\ \A b \in Attempts \ {a} : State(b)' = State(b)
         /\ \A n \in Numbers : attempt[j][n].state \notin AttemptActive
<1>1. TypeOK
  BY DEF StoreInv
<1> SUFFICES ASSUME NEW n, n = job[j].last + 1, a = <<j, n>>
             PROVE  /\ a \in Attempts
                    /\ State(a) = "Absent" /\ State(a)' = "Dispatching"
                    /\ \A b \in Attempts \ {a} : State(b)' = State(b)
                    /\ \A m \in Numbers : attempt[j][m].state \notin AttemptActive
  OBVIOUS
<1>2. PICK r : /\ n \in Numbers
               /\ attempt' = [attempt EXCEPT ![j] = [@ EXCEPT ![n] = r]]
               /\ r.state = "Dispatching"
               /\ job[j].current = NoNumber
  <2>1. Inserts(j)
    BY <1>1, DispatchKind
  <2> QED
    BY <2>1 DEF Inserts, SaveAttempt
<1>3. job[j].last \in Nat
  BY <1>1 DEF TypeOK, JobRows
<1>4. n > job[j].last
  BY <1>3
<1>5. attempt[j][n].state = "Absent"
  BY <1>2, <1>4 DEF StoreInv, AttemptJobAgreement
<1>6. \A k \in Numbers : attempt[j][k].state \notin AttemptActive
  <2>1. \A k \in Numbers : k # NoNumber
    BY DEF Numbers, NoNumber
  <2> QED
    BY <1>2, <2>1 DEF StoreInv, AttemptJobAgreement
<1>7. /\ attempt'[j][n] = r
      /\ \A k \in Numbers \ {n} : attempt'[j][k] = attempt[j][k]
      /\ \A k \in Jobs \ {j} : attempt'[k] = attempt[k]
  <2>1. n \in Numbers /\ attempt' = [attempt EXCEPT ![j] = [@ EXCEPT ![n] = r]]
    BY <1>2
  <2> QED
    BY <1>1, <2>1 DEF TypeOK
<1>8. a \in Attempts /\ a[1] = j /\ a[2] = n
  BY <1>2, AttemptPair
<1>9. State(a) = "Absent" /\ State(a)' = "Dispatching"
  BY <1>2, <1>5, <1>7, <1>8 DEF State
<1>10. ASSUME NEW b \in Attempts, b # a PROVE State(b)' = State(b)
  <2>1. b[1] \in Jobs /\ b[2] \in Numbers /\ (b[1] # j \/ b[2] # n)
    BY <1>10, AttemptPair
  <2>2. attempt'[b[1]][b[2]] = attempt[b[1]][b[2]]
    BY <1>7, <2>1
  <2> QED
    BY <2>2 DEF State
<1> QED
  BY <1>6, <1>8, <1>9, <1>10

-----------------------------------------------------------------------------
(* What every step but an admission keeps                                   *)

LEMMA AttemptsFinite == IsFiniteSet(Attempts)
<1>1. IsFiniteSet(Jobs)
  BY JobsAssumption
<1>2. IsFiniteSet(Numbers)
  BY BoundsAssumption, FS_Interval DEF Numbers
<1> QED
  BY <1>1, <1>2, FS_Product DEF Attempts

\* Slots are only given back.
LEMMA SlotsKept ==
  ASSUME CloudInv, \A a \in Attempts : Ages(State(a), State(a)'),
         \A a \in Attempts : Unstopped(a)' => Unstopped(a)
  PROVE  Slots'
<1>1. \A a \in Attempts : State(a) \in AttemptActive => Unstopped(a)
  BY DEF CloudInv, StopCompletedMeansGone, AttemptActive, AttemptTerminal
<1>2. ASSUME NEW a \in Occupying' PROVE a \in Occupying
  <2>1. a \in Attempts
    BY DEF Occupying
  <2>2. Ages(State(a), State(a)')
    BY <2>1
  <2>3. CASE State(a)' \in AttemptActive
    BY <2>1, <2>2, <2>3, AgesFacts DEF Occupying
  <2>4. CASE State(a)' \in AttemptTerminal /\ Unstopped(a)'
    BY <2>1, <2>2, <2>4, AgesFacts DEF Occupying
  <2> QED
    BY <2>3, <2>4 DEF Occupying
<1>3. IsFiniteSet(Occupying)
  BY AttemptsFinite, FS_Subset DEF Occupying
<1>4. /\ IsFiniteSet(Occupying') /\ Cardinality(Occupying') =< Cardinality(Occupying)
      /\ Cardinality(Occupying) \in Nat /\ Cardinality(Occupying') \in Nat
  BY <1>2, <1>3, FS_Subset, FS_CardinalityType
<1>5. Cardinality(Occupying) =< MaxConcurrency /\ MaxConcurrency \in Nat
  BY CloudAssumption DEF CloudInv, Slots
<1>6. Cardinality(Occupying') =< MaxConcurrency
  BY <1>4, <1>5
<1>7. \A a, b \in Occupying' : a # b => a[1] # b[1]
  BY <1>2 DEF CloudInv, Slots
<1> QED
  BY <1>6, <1>7 DEF Slots

\* What is closed stays closed, what has ended stays ended.
LEMMA GoneKept ==
  ASSUME CloudInv, \A a \in Attempts : Ages(State(a), State(a)'), closed \subseteq closed',
         \A a \in Attempts : \/ Unstopped(a)' \/ ~Unstopped(a)
                            \/ (State(a) \in AttemptTerminal /\ a \in closed)
  PROVE  StopCompletedMeansGone'
<1> SUFFICES ASSUME NEW a \in Attempts, ~Unstopped(a)'
             PROVE  State(a)' \in AttemptTerminal /\ a \in closed'
  BY DEF StopCompletedMeansGone
<1>1. State(a) \in AttemptTerminal /\ a \in closed
  BY DEF CloudInv, StopCompletedMeansGone
<1>2. Ages(State(a), State(a)')
  OBVIOUS
<1> QED
  BY <1>1, <1>2, AgesFacts

LEMMA StartingKept ==
  ASSUME CloudInv, NEW a \in Attempts, Ages(State(a), State(a)'), closed \subseteq closed',
         start'[a] = start[a]
  PROVE  Starting(a)'
<1>1. Starting(a)
  BY DEF CloudInv
<1> QED
  BY <1>1, AgesFacts DEF Starting

LEMMA StoppingKept ==
  ASSUME CloudInv, NEW w \in Stoppers, \A a \in Attempts : Ages(State(a), State(a)'),
         closed \subseteq closed', stopper'[w] = stopper[w]
  PROVE  StoppingSoundly(w)'
<1>1. StoppingSoundly(w)
  BY DEF CloudInv
<1> SUFFICES ASSUME NEW s, s = stopper[w], s.pc # "idle"
             PROVE  StoppingSoundly(w)'
  BY DEF StoppingSoundly
<1>2. /\ s.target \in Attempts /\ State(s.target) # "Absent" /\ s.now # NoTime
      /\ ~s.abort \/ s.pc = "complete" => State(s.target) \in AttemptTerminal
      /\ s.pc \in {"confirm", "complete"} => s.target \in closed
  BY <1>1 DEF StoppingSoundly
<1> SUFFICES ASSUME NEW a \in Attempts, a = s.target
             PROVE  StoppingSoundly(w)'
  BY <1>2
<1>3. Ages(State(a), State(a)')
  OBVIOUS
<1>4. State(a)' # "Absent" /\ (State(a) \in AttemptTerminal => State(a)' \in AttemptTerminal)
  BY <1>2, <1>3, AgesFacts
<1>5. State(s.target)' = State(a)'
  OBVIOUS
<1> QED
  BY <1>2, <1>4, <1>5 DEF StoppingSoundly

LEMMA ProvidedKept ==
  ASSUME CloudInv, \A a \in Attempts : Ages(State(a), State(a)'),
         UNCHANGED <<granted, task, closed>>
  PROVE  Provided'
<1>1. \A a \in granted : a \in Attempts /\ State(a) # "Absent"
  BY DEF CloudInv, CloudTypeOK, Provided
<1>2. \A a \in granted : State(a)' # "Absent"
  BY <1>1, AgesFacts
<1> QED
  BY <1>2 DEF CloudInv, Provided

-----------------------------------------------------------------------------
(* One argument per action                                                  *)

\* The part of CloudInv that is not about the store alone.
Coordinated ==
  /\ CloudTypeOK
  /\ Provided
  /\ \A a \in Attempts : Starting(a)
  /\ \A w \in Stoppers : StoppingSoundly(w)
  /\ StopCompletedMeansGone
  /\ Slots

\* Store calls and the runtime's calls.
LEMMA StoreOnly ==
  ASSUME CloudInv, TypeOK', QuietNext \/ UNCHANGED storeVars,
         UNCHANGED <<coordinatorVars, providerVars>>
  PROVE  Coordinated'
<1>1. \A a \in Attempts : Ages(State(a), State(a)')
  BY QuietAges DEF CloudInv
<1>2. /\ UNCHANGED <<stop, start, granted, stopper, task, closed>>
      /\ \A a \in Attempts : Unstopped(a)' = Unstopped(a)
  BY DEF coordinatorVars, providerVars, Unstopped
<1>3. CloudTypeOK'
  BY <1>2 DEF CloudInv, CloudTypeOK
<1>4. Provided'
  BY <1>1, <1>2, ProvidedKept
<1>5. \A a \in Attempts : Starting(a)'
  BY <1>1, <1>2, StartingKept
<1>6. \A w \in Stoppers : StoppingSoundly(w)'
  BY <1>1, <1>2, StoppingKept
<1>7. StopCompletedMeansGone'
  BY <1>1, <1>2, GoneKept
<1>8. Slots'
  BY <1>1, <1>2, SlotsKept
<1> QED
  BY <1>3, <1>4, <1>5, <1>6, <1>7, <1>8 DEF Coordinated

\* The broker's steps: authorization, launch and end of a task.
LEMMA BrokerSteps ==
  ASSUME CloudInv, TypeOK', NEW a \in Attempts,
         AuthorizeStart(a) \/ LaunchTask(a) \/ TaskEnds(a)
  PROVE  Coordinated'
<1>0. UNCHANGED storeVars /\ UNCHANGED <<stop, start, stopper, closed>>
  BY DEF AuthorizeStart, LaunchTask, TaskEnds, Broker!Launch, Broker!Finish, coordinatorVars,
         providerVars
<1>1. \A b \in Attempts : Ages(State(b), State(b)') /\ State(b)' = State(b)
  BY <1>0, QuietAges DEF CloudInv, storeVars, State
<1>2. \A b \in Attempts : Unstopped(b)' = Unstopped(b)
  BY <1>0 DEF Unstopped
<1>3. /\ granted \subseteq Attempts /\ task \in [Attempts -> Broker!TaskStates]
      /\ \A b \in granted : State(b) # "Absent"
      /\ \A b \in Attempts : task[b] # "Absent" => b \in granted
      /\ \A b \in closed : task[b] # "Live"
  BY DEF CloudInv, CloudTypeOK, Provided
<1>4. /\ granted' \subseteq Attempts /\ task' \in [Attempts -> Broker!TaskStates]
      /\ Provided'
  <2>1. CASE AuthorizeStart(a)
    <3>1. granted' = granted \cup {a} /\ State(a) # "Absent" /\ task' = task
      BY <2>1 DEF AuthorizeStart, providerVars
    <3> QED
      BY <1>0, <1>1, <1>3, <3>1 DEF Provided
  <2>2. CASE LaunchTask(a)
    <3>1. /\ granted' = granted /\ task' = [task EXCEPT ![a] = "Live"]
          /\ a \in granted /\ a \notin closed
      BY <2>2 DEF LaunchTask, Broker!Launch, coordinatorVars
    <3>2. task' \in [Attempts -> Broker!TaskStates]
      BY <1>3, <3>1 DEF Broker!TaskStates
    <3>3. \A b \in Attempts : b # a => task'[b] = task[b]
      BY <1>3, <3>1
    <3>4. \A b \in closed : b \in Attempts /\ b # a
      BY <3>1 DEF CloudInv, CloudTypeOK
    <3> QED
      BY <1>0, <1>1, <1>3, <3>1, <3>2, <3>3, <3>4 DEF Provided
  <2>3. CASE TaskEnds(a)
    <3>1. /\ granted' = granted /\ task' = [task EXCEPT ![a] = "Gone"] /\ task[a] = "Live"
      BY <2>3 DEF TaskEnds, Broker!Finish, coordinatorVars
    <3>2. task' \in [Attempts -> Broker!TaskStates]
      BY <1>3, <3>1 DEF Broker!TaskStates
    <3>3. \A b \in Attempts : b # a => task'[b] = task[b]
      BY <1>3, <3>1
    <3>4. task'[a] = "Gone" /\ a \in granted
      BY <1>3, <3>1
    <3>5. closed \subseteq Attempts
      BY DEF CloudInv, CloudTypeOK
    <3> QED
      BY <1>0, <1>1, <1>3, <3>1, <3>2, <3>3, <3>4, <3>5 DEF Provided
  <2> QED
    BY <2>1, <2>2, <2>3
<1>5. CloudTypeOK'
  BY <1>0, <1>4 DEF CloudInv, CloudTypeOK
<1>6. \A b \in Attempts : Starting(b)'
  BY <1>0, <1>1, StartingKept
<1>7. \A w \in Stoppers : StoppingSoundly(w)'
  BY <1>0, <1>1, StoppingKept
<1>8. StopCompletedMeansGone' /\ Slots'
  BY <1>0, <1>1, <1>2, GoneKept, SlotsKept
<1> QED
  BY <1>4, <1>5, <1>6, <1>7, <1>8 DEF Coordinated

\* The broker answers a start or a stop: an attempt is closed, or nothing changes.
LEMMA ClosedProvided ==
  ASSUME CloudInv, UNCHANGED <<storeVars, granted>>, NEW a \in Attempts, Broker!Close(a)
  PROVE  /\ Provided' /\ closed' = closed \cup {a} /\ closed' \subseteq Attempts /\ task' = task
<1>1. closed' = closed \cup {a} /\ task' = task /\ task[a] # "Live"
  BY DEF Broker!Close
<1>2. \A b \in Attempts : State(b)' = State(b)
  BY DEF storeVars, State
<1>3. granted \subseteq Attempts /\ closed \subseteq Attempts
  BY DEF CloudInv, CloudTypeOK
<1> QED
  BY <1>1, <1>2, <1>3 DEF CloudInv, Provided

StopRows == [claimed : Nat, completed : Nat, external : BOOLEAN]
StartRows == [pc : {"idle", "calling", "record", "reject", "absence"},
              reason : {"None", "Capacity", "Other"}, now : Nat]
StopperRows == [pc : {"idle", "calling", "release", "confirm", "complete"},
                target : Attempts \cup {<<>>}, abort : BOOLEAN, now : Nat]

\* A step that moves one provision on.
LEMMA ProvisionMoves ==
  ASSUME CloudInv, TypeOK', QuietNext \/ UNCHANGED storeVars, UNCHANGED <<granted, stopper, task>>,
         NEW a \in Attempts, NEW r \in StartRows, start' = [start EXCEPT ![a] = r],
         r.pc # "idle" => /\ State(a) # "Absent" /\ r.now # NoTime
                          /\ r.pc \in {"reject", "absence"} => a \in closed',
         Provided', closed \subseteq closed', closed' \subseteq Attempts,
         stop' \in [Attempts -> StopRows],
         \A b \in Attempts : \/ Unstopped(b)' = Unstopped(b)
                            \/ (~Unstopped(b)' /\ State(b) \in AttemptTerminal /\ b \in closed)
  PROVE  Coordinated'
<1>1. \A b \in Attempts : Ages(State(b), State(b)')
  BY QuietAges DEF CloudInv
<1>2. CloudTypeOK'
  <2>1. start \in [Attempts -> StartRows]
    BY DEF CloudInv, CloudTypeOK, StartRows
  <2>2. start' \in [Attempts -> StartRows]
    BY <2>1
  <2> QED
    BY <2>2 DEF CloudInv, CloudTypeOK, StartRows, StopRows
<1>3. ASSUME NEW b \in Attempts PROVE Starting(b)'
  <2>1. start \in [Attempts -> StartRows]
    BY DEF CloudInv, CloudTypeOK, StartRows
  <2>2. CASE b = a
    <3>1. start'[a] = r
      BY <2>1
    <3>2. State(a) # "Absent" => State(a)' # "Absent"
      BY <1>1, AgesFacts
    <3> QED
      BY <2>2, <3>1, <3>2 DEF Starting
  <2>3. CASE b # a
    <3>1. start'[b] = start[b]
      BY <2>1, <2>3
    <3> QED
      BY <1>1, <3>1, StartingKept
  <2> QED
    BY <2>2, <2>3
<1>4. \A w \in Stoppers : StoppingSoundly(w)'
  BY <1>1, StoppingKept
<1>5. StopCompletedMeansGone'
  BY <1>1, GoneKept
<1>6. Slots'
  BY <1>1, SlotsKept
<1> QED
  BY <1>2, <1>3, <1>4, <1>5, <1>6 DEF Coordinated

\* A step that moves one stop reconciliation on.
LEMMA StopperMoves ==
  ASSUME CloudInv, TypeOK', QuietNext \/ UNCHANGED storeVars, UNCHANGED <<granted, start, task>>,
         NEW w \in Stoppers, NEW r \in StopperRows, stopper' = [stopper EXCEPT ![w] = r],
         StoppingSoundly(w)',
         Provided', closed \subseteq closed', closed' \subseteq Attempts,
         stop' \in [Attempts -> StopRows],
         \A b \in Attempts : \/ Unstopped(b)' = Unstopped(b)
                            \/ (~Unstopped(b)' /\ State(b) \in AttemptTerminal /\ b \in closed)
  PROVE  Coordinated'
<1>1. \A b \in Attempts : Ages(State(b), State(b)')
  BY QuietAges DEF CloudInv
<1>0. stopper \in [Stoppers -> StopperRows]
  BY DEF CloudInv, CloudTypeOK, StopperRows
<1>2. CloudTypeOK'
  <2>2. stopper' \in [Stoppers -> StopperRows]
    BY <1>0
  <2> QED
    BY <2>2 DEF CloudInv, CloudTypeOK, StopperRows, StopRows
<1>3. \A b \in Attempts : Starting(b)'
  BY <1>1, StartingKept
<1>4. ASSUME NEW v \in Stoppers PROVE StoppingSoundly(v)'
  <2>1. CASE v # w
    <3>1. stopper'[v] = stopper[v]
      BY <1>0, <2>1
    <3> QED
      BY <1>1, <3>1, StoppingKept
  <2> QED
    BY <2>1
<1>5. StopCompletedMeansGone'
  BY <1>1, GoneKept
<1>6. Slots'
  BY <1>1, SlotsKept
<1> QED
  BY <1>2, <1>3, <1>4, <1>5, <1>6 DEF Coordinated

LEMMA StoppedReplyKeeps ==
  ASSUME CloudInv, TypeOK', NEW w \in Stoppers, StoppedReply(w)
  PROVE  Coordinated'
<1> SUFFICES ASSUME NEW a, a = stopper[w].target PROVE Coordinated'
  OBVIOUS
<1> DEFINE r == [stopper[w] EXCEPT !.pc = IF stopper[w].abort THEN "confirm" ELSE "complete"]
<1>1. /\ stopper[w].pc = "calling" /\ Broker!Close(a)
      /\ stopper' = [stopper EXCEPT ![w] = r]
      /\ UNCHANGED <<storeVars, stop, start, granted>>
  BY DEF StoppedReply
<1>2. /\ a \in Attempts /\ State(a) # "Absent" /\ stopper[w].now # NoTime
      /\ ~stopper[w].abort => State(a) \in AttemptTerminal
  BY <1>1 DEF CloudInv, StoppingSoundly
<1>3. stopper[w] \in StopperRows /\ stopper \in [Stoppers -> StopperRows]
  BY DEF CloudInv, CloudTypeOK, StopperRows
<1>4. /\ r \in StopperRows /\ r.target = a /\ r.now = stopper[w].now /\ r.abort = stopper[w].abort
      /\ r.pc = IF stopper[w].abort THEN "confirm" ELSE "complete"
  BY <1>3 DEF StopperRows
<1>5. /\ Provided' /\ closed' = closed \cup {a} /\ closed' \subseteq Attempts /\ task' = task
  BY <1>1, <1>2, ClosedProvided
<1> HIDE DEF r
<1>6. State(a)' = State(a)
  BY <1>1 DEF storeVars, State
<1>7. stopper'[w] = r
  BY <1>1, <1>3
<1>8. StoppingSoundly(w)'
  BY <1>2, <1>4, <1>5, <1>6, <1>7 DEF StoppingSoundly
<1>9. stop' \in [Attempts -> StopRows] /\ \A b \in Attempts : Unstopped(b)' = Unstopped(b)
  BY <1>1 DEF CloudInv, CloudTypeOK, StopRows, Unstopped
<1> QED
  BY <1>1, <1>4, <1>5, <1>8, <1>9, StopperMoves

\* Claims come and go without any effect on what is stopped.
LEMMA StopRowSaved ==
  ASSUME CloudInv, NEW a \in Attempts, NEW r \in StopRows, stop' = [stop EXCEPT ![a] = r]
  PROVE  /\ stop' \in [Attempts -> StopRows]
         /\ \A b \in Attempts \ {a} : Unstopped(b)' = Unstopped(b)
         /\ Unstopped(a)' <=> r.completed = NoTime
         /\ stop[a] \in StopRows
<1>1. stop \in [Attempts -> StopRows]
  BY DEF CloudInv, CloudTypeOK, StopRows
<1>2. stop' \in [Attempts -> StopRows]
  BY <1>1
<1>3. stop'[a] = r /\ \A b \in Attempts \ {a} : stop'[b] = stop[b]
  BY <1>1
<1> QED
  BY <1>1, <1>2, <1>3 DEF Unstopped

LEMMA ClaimStopKeeps ==
  ASSUME CloudInv, TypeOK', NEW w \in Stoppers, NEW a \in Attempts, NEW abort \in BOOLEAN,
         NEW now \in Now, ClaimStop(w, a, abort, now)
  PROVE  Coordinated'
<1> DEFINE r == [pc |-> "calling", target |-> a, abort |-> abort, now |-> now]
           c == [stop[a] EXCEPT !.claimed = now]
<1>1. /\ stop' = [stop EXCEPT ![a] = c]
      /\ stopper' = [stopper EXCEPT ![w] = r]
      /\ UNCHANGED <<storeVars, start, granted, task, closed>>
      /\ IF abort THEN run.cancel /\ State(a) \in AttemptActive ELSE State(a) \in AttemptTerminal
  BY DEF ClaimStop, SaveStop, providerVars
<1>2. now \in Nat /\ now # NoTime
  BY NowNat DEF CloudInv, StoreInv, NoTime
<1>3. stop[a] \in StopRows
  BY DEF CloudInv, CloudTypeOK, StopRows
<1>4. c \in StopRows /\ c.completed = stop[a].completed
  BY <1>2, <1>3 DEF StopRows
<1>5. r \in StopperRows
  BY <1>2 DEF StopperRows
<1>6. r.pc = "calling" /\ r.target = a /\ r.abort = abort /\ r.now = now
  OBVIOUS
<1> HIDE DEF r, c
<1>7. stop' \in [Attempts -> StopRows] /\ \A b \in Attempts : Unstopped(b)' = Unstopped(b)
  BY <1>1, <1>4, StopRowSaved DEF Unstopped
<1>8. stopper'[w] = r
  BY <1>1 DEF CloudInv, CloudTypeOK
<1>9. State(a)' = State(a) /\ State(a) # "Absent"
  BY <1>1 DEF storeVars, State, AttemptActive, AttemptTerminal
<1>10. StoppingSoundly(w)'
  BY <1>1, <1>2, <1>6, <1>8, <1>9 DEF StoppingSoundly
<1>11. Provided' /\ closed \subseteq Attempts
  <2>1. \A b \in Attempts : Ages(State(b), State(b)')
    BY <1>1, QuietAges DEF CloudInv
  <2> QED
    BY <1>1, <2>1, ProvidedKept DEF CloudInv, CloudTypeOK
<1> QED
  BY <1>1, <1>5, <1>7, <1>10, <1>11, StopperMoves

\* The steps that end a reconciliation, or send it to release its claim.
LEMMA StopperEndings ==
  ASSUME CloudInv, TypeOK', NEW w \in Stoppers,
         PendingReply(w) \/ ReleaseStopClaim(w) \/ CompleteStop(w) \/ StopperEnds(w)
  PROVE  Coordinated'
<1> SUFFICES ASSUME NEW a, a = stopper[w].target PROVE Coordinated'
  OBVIOUS
<1>1. UNCHANGED <<storeVars, start, granted, task, closed>> /\ stopper[w].pc # "idle"
  BY DEF PendingReply, ReleaseStopClaim, CompleteStop, StopperEnds, providerVars
<1>2. /\ a \in Attempts /\ State(a) # "Absent" /\ stopper[w].now # NoTime
      /\ ~stopper[w].abort => State(a) \in AttemptTerminal
      /\ stopper[w].pc = "complete" => State(a) \in AttemptTerminal /\ a \in closed
  BY <1>1 DEF CloudInv, StoppingSoundly
<1>3. stopper[w] \in StopperRows /\ stopper \in [Stoppers -> StopperRows] /\ stop[a] \in StopRows
  BY <1>2 DEF CloudInv, CloudTypeOK, StopperRows, StopRows
<1>4. Provided' /\ closed' = closed /\ closed \subseteq Attempts
  <2>1. \A b \in Attempts : Ages(State(b), State(b)')
    BY <1>1, QuietAges DEF CloudInv
  <2> QED
    BY <1>1, <2>1, ProvidedKept DEF CloudInv, CloudTypeOK
<1>5. NotStopping \in StopperRows /\ NotStopping.pc = "idle"
  BY DEF NotStopping, StopperRows, NoTime
<1>6. CASE PendingReply(w)
  <2> DEFINE r == [stopper[w] EXCEPT !.pc = "release"]
  <2>1. stopper' = [stopper EXCEPT ![w] = r] /\ stop' = stop
    BY <1>6 DEF PendingReply
  <2>2. /\ r \in StopperRows /\ r.pc = "release" /\ r.target = a /\ r.now = stopper[w].now
        /\ r.abort = stopper[w].abort
    BY <1>3 DEF StopperRows
  <2> HIDE DEF r
  <2>3. stopper'[w] = r
    BY <1>3, <2>1
  <2>4. State(a)' = State(a)
    BY <1>1 DEF storeVars, State
  <2>5. StoppingSoundly(w)'
    BY <1>2, <2>2, <2>3, <2>4 DEF StoppingSoundly
  <2>6. stop' \in [Attempts -> StopRows] /\ \A b \in Attempts : Unstopped(b)' = Unstopped(b)
    BY <2>1 DEF CloudInv, CloudTypeOK, StopRows, Unstopped
  <2> QED
    BY <1>1, <1>4, <2>1, <2>2, <2>5, <2>6, StopperMoves
<1>7. CASE stopper' = [stopper EXCEPT ![w] = NotStopping]
  <2>1. stopper'[w] = NotStopping
    BY <1>3, <1>7
  <2>2. StoppingSoundly(w)'
    BY <1>5, <2>1 DEF StoppingSoundly
  <2>3. CASE stop' = stop
    <3>1. stop' \in [Attempts -> StopRows] /\ \A b \in Attempts : Unstopped(b)' = Unstopped(b)
      BY <2>3 DEF CloudInv, CloudTypeOK, StopRows, Unstopped
    <3> QED
      BY <1>1, <1>4, <1>5, <1>7, <2>2, <3>1, StopperMoves
  <2>4. CASE stop' = [stop EXCEPT ![a] = [stop[a] EXCEPT !.claimed = NoTime]]
    <3> DEFINE r == [stop[a] EXCEPT !.claimed = NoTime]
    <3>1. r \in StopRows /\ r.completed = stop[a].completed
      BY <1>3 DEF StopRows, NoTime
    <3> HIDE DEF r
    <3>2. stop' = [stop EXCEPT ![a] = r]
      BY <2>4 DEF r
    <3>3. stop' \in [Attempts -> StopRows] /\ \A b \in Attempts : Unstopped(b)' = Unstopped(b)
      BY <1>2, <3>1, <3>2, StopRowSaved DEF Unstopped
    <3> QED
      BY <1>1, <1>4, <1>5, <1>7, <2>2, <3>3, StopperMoves
  <2>5. CASE /\ stopper[w].pc = "complete"
             /\ stop' = [stop EXCEPT ![a] = [stop[a] EXCEPT !.completed = stopper[w].now]]
    <3> DEFINE r == [stop[a] EXCEPT !.completed = stopper[w].now]
    <3>0. stopper[w].now \in Nat
      BY <1>3 DEF StopperRows
    <3>1. r \in StopRows /\ r.completed # NoTime
      BY <1>2, <1>3, <3>0 DEF StopRows
    <3> HIDE DEF r
    <3>2. stop' = [stop EXCEPT ![a] = r]
      BY <2>5 DEF r
    <3>3. /\ stop' \in [Attempts -> StopRows]
          /\ \A b \in Attempts \ {a} : Unstopped(b)' = Unstopped(b)
          /\ ~Unstopped(a)'
      BY <1>2, <3>1, <3>2, StopRowSaved
    <3>4. State(a) \in AttemptTerminal /\ a \in closed
      BY <1>2, <2>5
    <3> QED
      BY <1>1, <1>4, <1>5, <1>7, <2>2, <3>3, <3>4, StopperMoves
  <2>6. ReleaseStopClaim(w) \/ CompleteStop(w) \/ StopperEnds(w) \/ PendingReply(w)
    OBVIOUS
  <2>7. CASE ReleaseStopClaim(w)
    BY <2>3, <2>4, <2>7 DEF ReleaseStopClaim
  <2>8. CASE CompleteStop(w)
    BY <2>5, <2>8 DEF CompleteStop, SaveStop
  <2>9. CASE StopperEnds(w)
    BY <2>3, <2>9 DEF StopperEnds
  <2> QED
    BY <1>6, <2>6, <2>7, <2>8, <2>9
<1> QED
  BY <1>6, <1>7 DEF ReleaseStopClaim, CompleteStop, StopperEnds

\* The calls of coordinator and runtime are operations of the store.
LEMMA AttemptCall ==
  ASSUME NEW a \in Attempts, State(a) # "Absent", NEW now \in Nat \ {0},
         \/ RejectCapacity(a[1], a[2], now)
         \/ CompleteAttempt(a[1], a[2], "bootstrap", "SetupFailed", now)
         \/ ConfirmProviderCancellation(a[1], a[2], now)
         \/ ExpireAttempt(a[1], a[2], now)
         \/ RuntimeCall(a[1], a[2], now)
  PROVE  QuietNext
<1>1. a[1] \in Jobs /\ a[2] \in Numbers /\ attempt[a[1]][a[2]].state # "Absent"
  BY AttemptPair DEF State
<1>2. ASSUME NEW c \in RuntimeConclusions, CompleteAttempt(a[1], a[2], "runtime", c, now)
      PROVE  AttemptAction(a[1], a[2], now)
  <2>1. c \in Conclusions
    BY CloudAssumption
  <2> QED
    BY <1>1, <1>2, <2>1 DEF AttemptAction
<1>3. AttemptAction(a[1], a[2], now)
  BY <1>1, <1>2 DEF AttemptAction, RuntimeCall
<1> QED
  BY <1>1, <1>3 DEF QuietNext

\* After a confirmation the attempt has ended, whoever ended it.
LEMMA ConfirmEnds ==
  ASSUME TypeOK, NEW j \in Jobs, NEW n \in Numbers, NEW now, ConfirmProviderCancellation(j, n, now)
  PROVE  attempt'[j][n].state = "Canceled"
<1>1. attempt[j][n] \in AttemptRows
  BY DEF TypeOK
<1>2. ASSUME NEW k, NEW a, MutateAttempt(j, n, k, a) PROVE attempt'[j][n] = a
  BY <1>2 DEF MutateAttempt, SaveAttempt, TypeOK
<1>3. CASE attempt[j][n].state = "Canceled" /\ MutateAttempt(j, n, job[j], attempt[j][n])
  BY <1>2, <1>3
<1> DEFINE a == attempt[j][n]
           b == Finished(a, "Canceled", "Canceled", InterruptSteps(a.steps, "Canceled"), now)
<1>4. CASE MutateAttempt(j, n, Released(job[j], "Canceled", now), b)
  <2>1. attempt'[j][n] = b
    BY <1>2, <1>4
  <2>2. b.state = "Canceled"
    BY <1>1 DEF Finished, AttemptRows
  <2> QED
    BY <2>1, <2>2
<1> QED
  BY <1>3, <1>4 DEF ConfirmProviderCancellation

LEMMA ConfirmKeeps ==
  ASSUME CloudInv, TypeOK', NEW w \in Stoppers, Confirm(w)
  PROVE  Coordinated'
<1> SUFFICES ASSUME NEW a, a = stopper[w].target PROVE Coordinated'
  OBVIOUS
<1> DEFINE r == [stopper[w] EXCEPT !.pc = "complete"]
<1>1. /\ stopper[w].pc = "confirm" /\ stopper' = [stopper EXCEPT ![w] = r]
      /\ ConfirmProviderCancellation(a[1], a[2], stopper[w].now)
      /\ UNCHANGED <<stop, start, granted, task, closed>>
  BY DEF Confirm, providerVars
<1>2. a \in Attempts /\ State(a) # "Absent" /\ stopper[w].now # NoTime /\ a \in closed
  BY <1>1 DEF CloudInv, StoppingSoundly
<1>3. stopper[w] \in StopperRows /\ stopper \in [Stoppers -> StopperRows]
  BY DEF CloudInv, CloudTypeOK, StopperRows
<1>4. stopper[w].now \in Nat \ {0}
  BY <1>2, <1>3 DEF StopperRows, NoTime
<1>5. /\ r \in StopperRows /\ r.pc = "complete" /\ r.target = a /\ r.now = stopper[w].now
  BY <1>3 DEF StopperRows
<1> HIDE DEF r
<1>6. QuietNext
  BY <1>1, <1>2, <1>4, AttemptCall
<1>7. State(a)' \in AttemptTerminal /\ State(a)' # "Absent"
  <2>1. TypeOK /\ a[1] \in Jobs /\ a[2] \in Numbers
    BY <1>2, AttemptPair DEF CloudInv, StoreInv
  <2>2. attempt'[a[1]][a[2]].state = "Canceled"
    BY <1>1, <2>1, ConfirmEnds
  <2> QED
    BY <2>2 DEF State, AttemptTerminal
<1>8. stopper'[w] = r
  BY <1>1, <1>3
<1>9. StoppingSoundly(w)'
  BY <1>1, <1>2, <1>5, <1>7, <1>8 DEF StoppingSoundly
<1>10. Provided' /\ closed \subseteq Attempts
  <2>1. \A b \in Attempts : Ages(State(b), State(b)')
    BY <1>6, QuietAges DEF CloudInv
  <2> QED
    BY <1>1, <2>1, ProvidedKept DEF CloudInv, CloudTypeOK
<1>11. stop' \in [Attempts -> StopRows] /\ \A b \in Attempts : Unstopped(b)' = Unstopped(b)
  BY <1>1 DEF CloudInv, CloudTypeOK, StopRows, Unstopped
<1> QED
  BY <1>1, <1>5, <1>6, <1>9, <1>10, <1>11, StopperMoves

\* The replies to a start, what is recorded of them, and the ends of a provision.
LEMMA ProvisionSteps ==
  ASSUME CloudInv, TypeOK', NEW a \in Attempts,
         \/ StartedReply(a) \/ RecordExternalRunId(a) \/ CompleteAbsence(a) \/ ProvisionEnds(a)
         \/ \E reason \in {"Capacity", "Other"} : RejectedReply(a, reason)
  PROVE  Coordinated'
<1>1. UNCHANGED <<storeVars, granted, stopper, task>> /\ start[a].pc # "idle"
  BY DEF StartedReply, RecordExternalRunId, CompleteAbsence, ProvisionEnds, RejectedReply,
         Broker!Close, providerVars
<1>2. /\ State(a) # "Absent" /\ start[a].now # NoTime
      /\ start[a].pc \in {"reject", "absence"} => a \in closed
  BY <1>1 DEF CloudInv, Starting
<1>3. start[a] \in StartRows /\ stop[a] \in StopRows /\ closed \subseteq Attempts
  BY DEF CloudInv, CloudTypeOK, StartRows, StopRows
<1>4. NotStarting \in StartRows /\ NotStarting.pc = "idle"
  BY DEF NotStarting, StartRows, NoTime
<1>5. ASSUME closed' = closed PROVE Provided'
  <2>1. \A b \in Attempts : Ages(State(b), State(b)')
    BY <1>1, QuietAges DEF CloudInv
  <2> QED
    BY <1>1, <1>5, <2>1, ProvidedKept
<1>6. ASSUME stop' = stop
      PROVE  stop' \in [Attempts -> StopRows] /\ \A b \in Attempts : Unstopped(b)' = Unstopped(b)
  BY <1>6 DEF CloudInv, CloudTypeOK, StopRows, Unstopped
<1>7. CASE StartedReply(a)
  <2> DEFINE r == [start[a] EXCEPT !.pc = "record"]
  <2>1. start' = [start EXCEPT ![a] = r] /\ stop' = stop /\ closed' = closed
    BY <1>7 DEF StartedReply, providerVars
  <2>2. r \in StartRows /\ r.pc = "record" /\ r.now = start[a].now
    BY <1>3 DEF StartRows
  <2> HIDE DEF r
  <2> QED
    BY <1>1, <1>2, <1>3, <1>5, <1>6, <2>1, <2>2, ProvisionMoves
<1>8. ASSUME NEW reason \in {"Capacity", "Other"}, RejectedReply(a, reason) PROVE Coordinated'
  <2> DEFINE r == [start[a] EXCEPT !.pc = "reject", !.reason = reason]
  <2>1. start' = [start EXCEPT ![a] = r] /\ stop' = stop /\ Broker!Close(a)
    BY <1>8 DEF RejectedReply
  <2>2. r \in StartRows /\ r.pc = "reject" /\ r.now = start[a].now
    BY <1>3 DEF StartRows
  <2> HIDE DEF r
  <2>3. Provided' /\ closed' = closed \cup {a} /\ closed' \subseteq Attempts
    BY <1>1, <2>1, ClosedProvided
  <2> QED
    BY <1>1, <1>2, <1>3, <1>6, <2>1, <2>2, <2>3, ProvisionMoves
<1>9. CASE RecordExternalRunId(a)
  <2> DEFINE r == [stop[a] EXCEPT !.external = TRUE]
  <2>1. /\ start' = [start EXCEPT ![a] = NotStarting] /\ stop' = [stop EXCEPT ![a] = r]
        /\ closed' = closed
    BY <1>9 DEF RecordExternalRunId, providerVars
  <2>2. r \in StopRows /\ r.completed = stop[a].completed
    BY <1>3 DEF StopRows
  <2> HIDE DEF r
  <2>3. stop' \in [Attempts -> StopRows] /\ \A b \in Attempts : Unstopped(b)' = Unstopped(b)
    BY <2>1, <2>2, StopRowSaved DEF Unstopped
  <2> QED
    BY <1>1, <1>3, <1>4, <1>5, <2>1, <2>3, ProvisionMoves
<1>10. CASE CompleteAbsence(a)
  <2> DEFINE r == [stop[a] EXCEPT !.claimed = start[a].now, !.completed = start[a].now]
  <2>1. /\ start' = [start EXCEPT ![a] = NotStarting] /\ stop' = [stop EXCEPT ![a] = r]
        /\ closed' = closed /\ State(a) \in AttemptTerminal /\ start[a].pc = "absence"
    BY <1>10 DEF CompleteAbsence, SaveStop, providerVars
  <2>0. start[a].now \in Nat
    BY <1>3 DEF StartRows
  <2>2. r \in StopRows /\ r.completed # NoTime
    BY <1>2, <1>3, <2>0 DEF StopRows
  <2> HIDE DEF r
  <2>3. /\ stop' \in [Attempts -> StopRows]
        /\ \A b \in Attempts \ {a} : Unstopped(b)' = Unstopped(b)
        /\ ~Unstopped(a)'
    BY <2>1, <2>2, StopRowSaved
  <2> QED
    BY <1>1, <1>2, <1>3, <1>4, <1>5, <2>1, <2>3, ProvisionMoves
<1>11. CASE ProvisionEnds(a)
  <2>1. start' = [start EXCEPT ![a] = NotStarting] /\ stop' = stop /\ closed' = closed
    BY <1>11 DEF ProvisionEnds, providerVars
  <2> QED
    BY <1>1, <1>3, <1>4, <1>5, <1>6, <2>1, ProvisionMoves
<1> QED
  BY <1>7, <1>8, <1>9, <1>10, <1>11

LEMMA RejectStartKeeps ==
  ASSUME CloudInv, TypeOK', NEW a \in Attempts, RejectStart(a)
  PROVE  Coordinated' /\ QuietNext
<1> SUFFICES ASSUME NEW now, now = Later(clock, start[a].now) PROVE Coordinated' /\ QuietNext
  OBVIOUS
<1> DEFINE r == [start[a] EXCEPT !.pc = "absence", !.now = now]
<1>1. /\ start[a].pc = "reject" /\ start' = [start EXCEPT ![a] = r]
      /\ \/ RejectCapacity(a[1], a[2], now)
         \/ CompleteAttempt(a[1], a[2], "bootstrap", "SetupFailed", now)
      /\ UNCHANGED <<stop, granted, stopper, task, closed>>
  BY DEF RejectStart, providerVars
<1>2. State(a) # "Absent" /\ a \in closed
  BY <1>1 DEF CloudInv, Starting
<1>3. start[a] \in StartRows /\ closed \subseteq Attempts
  BY DEF CloudInv, CloudTypeOK, StartRows
<1>4. now \in Nat \ {0}
  <2>1. clock \in Nat \ {0}
    BY DEF CloudInv, StoreInv, TypeOK
  <2>2. start[a].now \in Nat
    BY <1>3 DEF StartRows
  <2> QED
    BY <2>1, <2>2 DEF Later
<1>5. QuietNext
  BY <1>1, <1>2, <1>4, AttemptCall
<1>6. r \in StartRows /\ r.pc = "absence" /\ r.now = now
  BY <1>3, <1>4 DEF StartRows
<1> HIDE DEF r
<1>7. Provided'
  <2>1. \A b \in Attempts : Ages(State(b), State(b)')
    BY <1>5, QuietAges DEF CloudInv
  <2> QED
    BY <1>1, <2>1, ProvidedKept
<1>8. stop' \in [Attempts -> StopRows] /\ \A b \in Attempts : Unstopped(b)' = Unstopped(b)
  BY <1>1 DEF CloudInv, CloudTypeOK, StopRows, Unstopped
<1>9. now # NoTime
  BY <1>4 DEF NoTime
<1> QED
  BY <1>1, <1>2, <1>3, <1>5, <1>6, <1>7, <1>8, <1>9, ProvisionMoves

\* An admission takes a free slot for a job none of whose tasks can be left.
LEMMA AdmitKeeps ==
  ASSUME CloudInv, TypeOK', NEW j \in Jobs, NEW now \in Now, AdmitNextJob(j, now)
  PROVE  Coordinated'
<1> SUFFICES ASSUME NEW a, a = <<j, job[j].last + 1>> PROVE Coordinated'
  OBVIOUS
<1> DEFINE r == [pc |-> "calling", reason |-> "None", now |-> now]
<1>1. /\ Admissible(j) /\ Dispatch(j, now) /\ start' = [start EXCEPT ![a] = r]
      /\ UNCHANGED <<stop, granted, stopper, task, closed>>
  BY DEF AdmitNextJob, providerVars
<1>2. /\ a \in Attempts
      /\ State(a) = "Absent" /\ State(a)' = "Dispatching"
      /\ \A b \in Attempts \ {a} : State(b)' = State(b)
      /\ \A n \in Numbers : attempt[j][n].state \notin AttemptActive
  BY <1>1, DispatchStates DEF CloudInv
<1>3. now \in Nat /\ now # NoTime
  BY NowNat DEF CloudInv, StoreInv, NoTime
<1>4. r \in StartRows /\ r.pc = "calling" /\ r.now = now
  BY <1>3 DEF StartRows
<1> HIDE DEF r
<1>5. start \in [Attempts -> StartRows]
  BY DEF CloudInv, CloudTypeOK, StartRows
<1>6. CloudTypeOK'
  <2>1. start' \in [Attempts -> StartRows]
    BY <1>1, <1>4, <1>5
  <2> QED
    BY <1>1, <2>1 DEF CloudInv, CloudTypeOK, StartRows
<1>7. Provided'
  <2>1. \A b \in granted : b \in Attempts /\ State(b) # "Absent"
    BY DEF CloudInv, CloudTypeOK, Provided
  <2>2. \A b \in granted : State(b)' # "Absent"
    BY <1>2, <2>1
  <2> QED
    BY <1>1, <2>2 DEF CloudInv, Provided
<1>8. ASSUME NEW b \in Attempts PROVE Starting(b)'
  <2>1. CASE b = a
    <3>1. start'[a] = r
      BY <1>1, <1>2, <1>5
    <3> QED
      BY <1>2, <1>3, <1>4, <2>1, <3>1 DEF Starting
  <2>2. CASE b # a
    <3>1. start'[b] = start[b] /\ State(b)' = State(b)
      BY <1>1, <1>2, <1>5, <2>2
    <3>2. Starting(b)
      BY DEF CloudInv
    <3> QED
      BY <1>1, <3>1, <3>2 DEF Starting
  <2> QED
    BY <2>1, <2>2
<1>9. ASSUME NEW w \in Stoppers PROVE StoppingSoundly(w)'
  <2> SUFFICES ASSUME NEW s, s = stopper[w], s.pc # "idle", NEW b, b = s.target
               PROVE  StoppingSoundly(w)'
    BY <1>1 DEF StoppingSoundly
  <2>1. /\ b \in Attempts /\ State(b) # "Absent" /\ s.now # NoTime
        /\ ~s.abort \/ s.pc = "complete" => State(b) \in AttemptTerminal
        /\ s.pc \in {"confirm", "complete"} => b \in closed
    BY DEF CloudInv, StoppingSoundly
  <2>2. State(b)' = State(b)
    BY <1>2, <2>1
  <2>3. stopper'[w] = s
    BY <1>1
  <2> QED
    BY <1>1, <2>1, <2>2, <2>3 DEF StoppingSoundly
<1>10. StopCompletedMeansGone'
  <2> SUFFICES ASSUME NEW b \in Attempts, ~Unstopped(b)
               PROVE  State(b)' \in AttemptTerminal /\ b \in closed
    BY <1>1 DEF StopCompletedMeansGone, Unstopped
  <2>1. State(b) \in AttemptTerminal /\ b \in closed
    BY DEF CloudInv, StopCompletedMeansGone
  <2>2. b # a
    BY <1>2, <2>1 DEF AttemptTerminal
  <2> QED
    BY <1>2, <2>1, <2>2
<1>11. ASSUME NEW b \in Occupying', b # a PROVE b \in Occupying
  <2>1. b \in Attempts /\ State(b)' = State(b) /\ Unstopped(b)' = Unstopped(b)
    BY <1>1, <1>2, <1>11 DEF Occupying, Unstopped
  <2> QED
    BY <2>1 DEF Occupying
<1>12. ASSUME NEW b \in Occupying PROVE b[1] # j
  <2> SUFFICES ASSUME b[1] = j PROVE FALSE
    OBVIOUS
  <2>1. b \in Attempts /\ b = <<j, b[2]>> /\ b[2] \in Numbers
    BY AttemptPair DEF Occupying
  <2>2. State(b) \notin AttemptActive
    BY <1>2, <2>1 DEF State
  <2>3. State(b) \in AttemptTerminal => ~Unstopped(b)
    BY <1>1, <2>1 DEF Admissible
  <2> QED
    BY <2>2, <2>3 DEF Occupying
<1>13. \A b, c \in Occupying' : b # c => b[1] # c[1]
  <2>1. a[1] = j
    OBVIOUS
  <2> QED
    BY <1>11, <1>12, <2>1 DEF CloudInv, Slots
<1>14. Cardinality(Occupying') =< MaxConcurrency
  <2>1. IsFiniteSet(Occupying)
    BY AttemptsFinite, FS_Subset DEF Occupying
  <2>2. a \notin Occupying
    BY <1>12
  <2>3. /\ IsFiniteSet(Occupying \cup {a})
        /\ Cardinality(Occupying \cup {a}) = Cardinality(Occupying) + 1
    BY <2>1, <2>2, FS_AddElement
  <2>4. Occupying' \subseteq Occupying \cup {a}
    BY <1>11
  <2>5. IsFiniteSet(Occupying') /\ Cardinality(Occupying') =< Cardinality(Occupying \cup {a})
    BY <2>3, <2>4, FS_Subset
  <2>6. Cardinality(Occupying) \in Nat /\ Cardinality(Occupying') \in Nat
    BY <2>1, <2>5, FS_CardinalityType
  <2>7. Cardinality(Occupying) < MaxConcurrency /\ MaxConcurrency \in Nat
    BY <1>1, CloudAssumption DEF Admissible
  <2> QED
    BY <2>3, <2>5, <2>6, <2>7
<1> QED
  BY <1>6, <1>7, <1>8, <1>9, <1>10, <1>13, <1>14 DEF Coordinated, Slots

-----------------------------------------------------------------------------
(* The theorems                                                             *)

LEMMA CloudInitInv == CloudInit => CloudInv
<1> SUFFICES ASSUME CloudInit PROVE CloudInv
  OBVIOUS
<1>1. StoreInv /\ TypeOK
  BY InitInv DEF CloudInit, StoreInv
<1>2. /\ stop = [a \in Attempts |-> NoStop] /\ start = [a \in Attempts |-> NotStarting]
      /\ granted = {} /\ stopper = [w \in Stoppers |-> NotStopping]
      /\ task = [a \in Attempts |-> "Absent"] /\ closed = {}
  BY DEF CloudInit, Broker!Init
<1>3. NoStop \in StopRows /\ NotStarting \in StartRows /\ NotStopping \in StopperRows
  BY DEF NoStop, NotStarting, NotStopping, StopRows, StartRows, StopperRows, NoTime
<1>4. CloudTypeOK
  <2>1. task \in [Attempts -> Broker!TaskStates]
    BY <1>2 DEF Broker!TaskStates
  <2>2. stop \in [Attempts -> StopRows] /\ start \in [Attempts -> StartRows]
    BY <1>2, <1>3
  <2>3. stopper \in [Stoppers -> StopperRows]
    BY <1>2, <1>3
  <2> QED
    BY <1>1, <1>2, <2>1, <2>2, <2>3 DEF CloudTypeOK, StopRows, StartRows, StopperRows
<1>5. Provided
  BY <1>2 DEF Provided
<1>6. (\A a \in Attempts : Starting(a)) /\ (\A w \in Stoppers : StoppingSoundly(w))
  BY <1>2 DEF Starting, StoppingSoundly, NotStarting, NotStopping
<1>7. StopCompletedMeansGone
  BY <1>2 DEF StopCompletedMeansGone, Unstopped, NoStop
<1>8. Slots
  <2>1. \A a \in Attempts : State(a) = "Absent"
    BY AttemptPair, NoAttemptType DEF CloudInit, Init, State
  <2>2. Occupying = {}
    BY <2>1 DEF Occupying, AttemptActive, AttemptTerminal
  <2>3. Cardinality(Occupying) = 0
    BY <2>2, FS_EmptySet
  <2> QED
    BY <2>2, <2>3, CloudAssumption DEF Slots
<1> QED
  BY <1>1, <1>4, <1>5, <1>6, <1>7, <1>8 DEF CloudInv

\* Every step of the composition is, for the store, a step of LateNext.
LEMMA CloudIsLate == CloudInv /\ [CloudNext]_cloudVars => [LateNext]_vars
<1> SUFFICES ASSUME CloudInv, CloudNext PROVE LateNext \/ UNCHANGED storeVars
  BY DEF cloudVars, storeVars, vars
<1>0. TypeOK /\ CloudTypeOK
  BY DEF CloudInv, StoreInv
<1>1. CASE Tick
  BY <1>1 DEF LateNext
<1>2. ASSUME NEW now \in Now, StoreCall(now) PROVE LateNext
  <2>1. ASSUME NEW a \in Attempts, State(a) # "Absent", ExpireAttempt(a[1], a[2], now)
        PROVE  LateNext
    BY <1>0, <2>1, NowNat, AttemptCall, QuietIsLate
  <2> QED
    BY <1>2, <2>1 DEF StoreCall, LateNext, JobAction
<1>3. ASSUME NEW now \in Now, NEW j \in Jobs, AdmitNextJob(j, now) PROVE LateNext
  BY <1>3 DEF AdmitNextJob, LateNext, JobAction
<1>4. ASSUME NEW now \in Now, NEW a \in Attempts, Runtime(a, now) PROVE LateNext
  <2>1. State(a) # "Absent"
    BY <1>4 DEF CloudInv, Provided, Runtime
  <2> QED
    BY <1>0, <1>4, <2>1, NowNat, AttemptCall, QuietIsLate DEF Runtime
<1>5. ASSUME NEW now \in Now, NEW a \in Attempts, NEW w \in Stoppers, NEW abort \in BOOLEAN,
             ClaimStop(w, a, abort, now)
      PROVE  UNCHANGED storeVars
  BY <1>5 DEF ClaimStop
<1>6. ASSUME NEW a \in Attempts, Provisioning(a) PROVE LateNext \/ UNCHANGED storeVars
  <2>1. CASE RejectStart(a)
    <3> SUFFICES ASSUME NEW now, now = Later(clock, start[a].now) PROVE LateNext
      OBVIOUS
    <3>1. now \in Nat \ {0}
      <4>1. clock \in Nat \ {0} /\ start[a] \in StartRows
        BY <1>0 DEF TypeOK, CloudTypeOK, StartRows
      <4>2. start[a].now \in Nat
        BY <4>1 DEF StartRows
      <4> QED
        BY <4>1, <4>2 DEF Later
    <3>2. State(a) # "Absent"
      BY <2>1 DEF CloudInv, Starting, RejectStart
    <3> QED
      BY <2>1, <3>1, <3>2, AttemptCall, QuietIsLate DEF RejectStart
  <2> QED
    BY <1>6, <2>1 DEF Provisioning, AuthorizeStart, LaunchTask, TaskEnds, StartedReply,
                      RecordExternalRunId, RejectedReply, CompleteAbsence, ProvisionEnds
<1>7. ASSUME NEW w \in Stoppers, Stopping(w) PROVE LateNext \/ UNCHANGED storeVars
  <2>1. CASE Confirm(w)
    <3> SUFFICES ASSUME NEW a, a = stopper[w].target PROVE LateNext
      OBVIOUS
    <3>1. a \in Attempts /\ State(a) # "Absent" /\ stopper[w].now # NoTime
      BY <2>1 DEF CloudInv, StoppingSoundly, Confirm
    <3>2. stopper[w] \in StopperRows
      BY <1>0 DEF CloudTypeOK, StopperRows
    <3>3. stopper[w].now \in Nat \ {0}
      BY <3>1, <3>2 DEF StopperRows, NoTime
    <3> QED
      BY <2>1, <3>1, <3>3, AttemptCall, QuietIsLate DEF Confirm
  <2> QED
    BY <1>7, <2>1 DEF Stopping, StoppedReply, PendingReply, ReleaseStopClaim, CompleteStop,
                      StopperEnds
<1> QED
  BY <1>1, <1>2, <1>3, <1>4, <1>5, <1>6, <1>7 DEF CloudNext

LEMMA CloudNextInv == CloudInv /\ [CloudNext]_cloudVars => CloudInv'
<1> SUFFICES ASSUME CloudInv, [CloudNext]_cloudVars PROVE CloudInv'
  OBVIOUS
<1>1. StoreInv'
  BY CloudIsLate, NextInv DEF CloudInv
<1>2. TypeOK /\ TypeOK'
  BY <1>1 DEF CloudInv, StoreInv
<1> SUFFICES Coordinated'
  BY <1>1 DEF CloudInv, Coordinated
<1>3. CASE UNCHANGED cloudVars
  BY <1>2, <1>3, StoreOnly DEF cloudVars
<1>4. CASE Tick /\ UNCHANGED <<coordinatorVars, providerVars>>
  BY <1>2, <1>4, StoreOnly DEF QuietNext
<1>5. ASSUME NEW now \in Now, StoreCall(now) PROVE Coordinated'
  <2>1. UNCHANGED <<coordinatorVars, providerVars>>
    BY <1>5 DEF StoreCall
  <2>2. ASSUME NEW a \in Attempts, State(a) # "Absent", ExpireAttempt(a[1], a[2], now)
        PROVE  QuietNext
    BY <1>2, <2>2, NowNat, AttemptCall
  <2>3. QuietNext
    BY <1>5, <2>2 DEF StoreCall, QuietNext
  <2> QED
    BY <1>2, <2>1, <2>3, StoreOnly
<1>6. ASSUME NEW now \in Now, NEW j \in Jobs, AdmitNextJob(j, now) PROVE Coordinated'
  BY <1>2, <1>6, AdmitKeeps
<1>7. ASSUME NEW now \in Now, NEW a \in Attempts, Runtime(a, now) PROVE Coordinated'
  <2>1. State(a) # "Absent"
    BY <1>7 DEF CloudInv, Provided, Runtime
  <2>2. QuietNext /\ UNCHANGED <<coordinatorVars, providerVars>>
    BY <1>2, <1>7, <2>1, NowNat, AttemptCall DEF Runtime
  <2> QED
    BY <1>2, <2>2, StoreOnly
<1>8. ASSUME NEW now \in Now, NEW a \in Attempts, NEW w \in Stoppers, NEW abort \in BOOLEAN,
             ClaimStop(w, a, abort, now)
      PROVE  Coordinated'
  BY <1>2, <1>8, ClaimStopKeeps
<1>9. ASSUME NEW a \in Attempts, Provisioning(a) PROVE Coordinated'
  BY <1>2, <1>9, BrokerSteps, ProvisionSteps, RejectStartKeeps DEF Provisioning
<1>10. ASSUME NEW w \in Stoppers, Stopping(w) PROVE Coordinated'
  BY <1>2, <1>10, StoppedReplyKeeps, StopperEndings, ConfirmKeeps DEF Stopping
<1> QED
  BY <1>3, <1>4, <1>5, <1>6, <1>7, <1>8, <1>9, <1>10 DEF CloudNext

LEMMA CloudInvariant == CloudSpec => []CloudInv
<1>1. CloudInit => CloudInv
  BY CloudInitInv
<1>2. CloudInv /\ [CloudNext]_cloudVars => CloudInv'
  BY CloudNextInv
<1> QED
  BY <1>1, <1>2, PTL DEF CloudSpec

\* Rows, phases and the broker's answers keep their types (coordinator.rs and the
\* columns of scope_run_attempts).
THEOREM CloudTypes == CloudSpec => []CloudTypeOK
<1>1. CloudInv => CloudTypeOK
  BY DEF CloudInv
<1> QED
  BY <1>1, CloudInvariant, PTL

\* complete_cloud_task_stop and complete_cloud_task_absence are only ever right:
\* the attempt they mark has ended and its task is gone for good, whoever held,
\* released or took over the claim.
THEOREM CloudStops == CloudSpec => []StopCompletedMeansGone
<1>1. CloudInv => StopCompletedMeansGone
  BY DEF CloudInv
<1> QED
  BY <1>1, CloudInvariant, PTL

LEMMA LiveOccupies ==
  ASSUME CloudInv, NEW a \in Attempts, task[a] = "Live"
  PROVE  a \in Occupying
<1>1. State(a) # "Absent" /\ a \notin closed
  BY DEF CloudInv, Provided
<1>2. Unstopped(a)
  BY <1>1 DEF CloudInv, StopCompletedMeansGone
<1>3. State(a) \in AttemptActive \cup AttemptTerminal
  <2>1. a[1] \in Jobs /\ a[2] \in Numbers
    BY AttemptPair
  <2>2. attempt[a[1]][a[2]] \in AttemptRows
    BY <2>1 DEF CloudInv, StoreInv, TypeOK
  <2>3. State(a) \in AttemptStates
    BY <2>2 DEF State, AttemptRows
  <2> QED
    BY <1>1, <2>3 DEF AttemptStates
<1> QED
  BY <1>2, <1>3 DEF Occupying

\* No job is ever executed by two tasks at once, not by the lost one and its
\* replacement either (admit_next_job, run_admission.rs).
THEOREM CloudOneTask == CloudSpec => []OneTaskPerJob
<1>1. CloudInv => OneTaskPerJob
  BY LiveOccupies DEF CloudInv, Slots, OneTaskPerJob
<1> QED
  BY <1>1, CloudInvariant, PTL

\* SCOPE_CLOUD_RUN_MAX_CONCURRENCY bounds the tasks that execute, although it is
\* compared with rows (admit_next_job, run_admission.rs).
THEOREM CloudConcurrency == CloudSpec => []ConcurrencyRespected
<1>1. ASSUME CloudInv PROVE ConcurrencyRespected
  <2> DEFINE live == {a \in Attempts : task[a] = "Live"}
  <2>1. IsFiniteSet(Occupying)
    BY AttemptsFinite, FS_Subset DEF Occupying
  <2>2. live \subseteq Occupying
    BY <1>1, LiveOccupies
  <2>3. IsFiniteSet(live) /\ Cardinality(live) =< Cardinality(Occupying)
    BY <2>1, <2>2, FS_Subset
  <2>4. Cardinality(live) \in Nat /\ Cardinality(Occupying) \in Nat
    BY <2>1, <2>3, FS_CardinalityType
  <2>5. Cardinality(Occupying) =< MaxConcurrency /\ MaxConcurrency \in Nat
    BY <1>1, CloudAssumption DEF CloudInv, Slots
  <2>6. Cardinality(live) =< MaxConcurrency
    BY <2>3, <2>4, <2>5
  <2> QED
    BY <2>6 DEF ConcurrencyRespected
<1> QED
  BY <1>1, CloudInvariant, PTL

\* What the run store promises on its own it keeps as a part of the system, where
\* phases store the time they began with, however long ago that is.
THEOREM CloudKeepsStore ==
  CloudSpec => [](/\ AttemptJobAgreement /\ NeedsSucceeded /\ RunReflectsJobs
                  /\ SuccessIsEarned /\ ExecutionFits /\ RowsRestorable)
<1>1. CloudInit => Init
  BY DEF CloudInit
<1>2. CloudInv /\ [CloudNext]_cloudVars => [LateNext]_vars
  BY CloudIsLate
<1>3. CloudSpec => LateSpec
  BY <1>1, <1>2, CloudInvariant, PTL DEF CloudSpec, LateSpec
<1>4. StoreInv /\ Outcomes => /\ AttemptJobAgreement /\ NeedsSucceeded /\ RunReflectsJobs
                              /\ SuccessIsEarned /\ ExecutionFits /\ RowsRestorable
  BY OutcomesGive DEF StoreInv
<1> QED
  BY <1>3, <1>4, OutcomesInvariant, PTL
=============================================================================
