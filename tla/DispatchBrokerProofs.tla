------------------------ MODULE DispatchBrokerProofs ------------------------
(***************************************************************************)
(* The dispatch broker serializes its invocations, launches at most one    *)
(* task per attempt, leaves nothing behind a `stopped' record, and         *)
(* implements TaskProvider: proved for any number of invocations, tasks,   *)
(* duplicated calls and faults, and for every choice of the timeouts that  *)
(* satisfies TimingAssumption.                                             *)
(*                                                                         *)
(* The inductive invariant has two halves.  Stored relates the journal,    *)
(* ECS and the answers given; Sound(i) says what invocation i knows at     *)
(* each step.  While an invocation works on the record every other one is  *)
(* outside its critical section, so a step of i has to re-establish Stored *)
(* and Sound(i), and keeps Sound of the others by one lemma (OthersSound). *)
(***************************************************************************)
EXTENDS DispatchBroker, FiniteSetTheorems, TLAPS

-----------------------------------------------------------------------------
(* The inductive invariant                                                  *)

\* Between a successful acquire and the release.
Holds(i) == inv[i].pc \notin {"idle", "acquire", "release"}

Untouched == \A t \in Tasks : ecs[t].state = "None"

\* stop's loop over the tasks, once they are listed.
InLoop == {"saveFound", "stopTask", "saveAccepted", "status", "saveSchedule"}

\* The phase of the record at each step that depends on it.
PhaseAt(pc, phase) ==
  /\ pc = "authorize" => phase \in {"None", "preparing", "registered"}
  /\ pc = "savePreparing" => phase = "None"
  /\ pc \in {"prepare", "saveRegistered"} => phase = "preparing"
  /\ pc \in {"authorizeAgain", "saveLaunching"} => phase = "registered"
  /\ pc \in {"launch", "saveRunning", "saveRejecting", "find"} => phase = "launching"
  /\ pc = "saveStopping" => phase # "stopped"
  /\ pc \in InLoop \cup {"list", "cleanup", "saveStopped"} => phase = "stopping"

\* The lock outlives the invocation that took it.
LockHeld(i) == lock.owner = i /\ LockTerm =< lock.left + inv[i].age

\* The invocation's copy of the record is the journal's, but for what the next
\* save will add.
RecordFresh(i) ==
  /\ inv[i].rec.phase = journal.phase
  /\ inv[i].rec.uncertain = journal.uncertain
  /\ inv[i].rec.rejected = journal.rejected
  /\ inv[i].rec.accepted = journal.accepted
  /\ inv[i].rec.wait = journal.wait
  /\ inv[i].pc # "saveRunning" => inv[i].rec.task = journal.task
  /\ inv[i].pc # "saveFound" => inv[i].rec.reconciling = journal.reconciling

\* A task that stop's loop has passed over executes only if it was seen alive, or
\* so soon after the launch that absence proves nothing.
LoopSound(v) ==
  /\ v.todo \subseteq v.rec.reconciling
  /\ journal.task # NoTask => journal.task \in v.rec.reconciling
  /\ \A t \in Tasks : Executing(t) /\ t \notin v.todo =>
       \/ v.alive
       \/ /\ journal.uncertain < LambdaHardTimeout + ListDelay + v.age
          /\ v.missing \/ t \notin v.rec.reconciling

\* No task that a stop has ever found is forgotten.
KnownKept(i) == journal.reconciling \subseteq inv[i].rec.reconciling

\* What an invocation knows at the step it is about to take.
Knows(i) ==
  /\ inv[i].pc \in {"launch", "saveRejecting"} => Untouched
  /\ inv[i].pc = "launch" => journal.uncertain =< inv[i].age
  /\ inv[i].pc = "saveRunning" =>
       inv[i].rec.task # NoTask /\ ecs[inv[i].rec.task].state # "None"
  /\ inv[i].pc \in InLoop => LoopSound(inv[i]) /\ KnownKept(i)
  /\ inv[i].pc \in {"cleanup", "saveStopped"} => \A t \in Tasks : ~Executing(t)
  /\ inv[i].pc = "saveStopped" => ~secret
  /\ inv[i].pc = "authorizeStop" => inv[i].kind = "stop"

\* No task of the attempt executes and none ever will.
Closed ==
  \/ journal.phase = "stopped"
  \/ /\ journal.phase \in {"None", "stopping"} /\ Untouched
     /\ authority # "start"
     /\ \A i \in Invocations : inv[i].pc # "savePreparing"

Closing == {<<"start", "rejected">>, <<"stop", "stopped">>}

Recorded == journal.task # NoTask

ReplySound(i) ==
  inv[i].pc = "release" /\ inv[i].own =>
    /\ <<inv[i].kind, inv[i].reply>> \in Closing => Closed
    /\ <<inv[i].kind, inv[i].reply>> = <<"start", "started">> => Recorded

Sound(i) ==
  /\ Holds(i) => /\ LockHeld(i)
                 /\ PhaseAt(inv[i].pc, journal.phase)
                 /\ RecordFresh(i)
                 /\ Knows(i)
  /\ ReplySound(i)

\* The stored record r fits what ECS holds.
TasksFit(r) ==
  /\ \A t, u \in Tasks : ecs[t].state # "None" /\ ecs[u].state # "None" => t = u
  /\ r.phase \in {"None", "preparing", "registered"} => Untouched
  /\ r.rejected => Untouched /\ r.phase \in {"stopping", "stopped"}
  /\ r.task # NoTask => ecs[r.task].state # "None"
  /\ r.phase = "running" => r.task # NoTask
  /\ \A t \in Tasks : ecs[t].state = "Stopping" => t \in r.reconciling
  /\ \A t \in Tasks : ecs[t].state # "None" /\ ~Settled(t) =>
       r.uncertain =< LambdaHardTimeout + ecs[t].age

StoppedFits(r) ==
  r.phase = "stopped" => ~secret /\ \A t \in Tasks : ~Executing(t)

AnswersStored ==
  /\ answered \cap Closing # {} => Closed
  /\ <<"start", "started">> \in answered => Recorded

Stored == TasksFit(journal) /\ StoppedFits(journal) /\ AnswersStored

BrokerInv == TypeOK /\ Stored /\ \A i \in Invocations : Sound(i)

-----------------------------------------------------------------------------
(* Values of the right type                                                 *)

Slots ==
  [pc : PCs, kind : {"start", "stop"}, own : BOOLEAN, age : 0..LambdaHardTimeout,
   rec : Records, todo : SUBSET Tasks, missing : BOOLEAN, alive : BOOLEAN,
   reply : Replies]

LEMMA Constants ==
  /\ MaxTasks \in Nat \ {0} /\ MaxStarts \in Nat /\ MaxFaults \in Nat
  /\ LambdaHardTimeout \in Nat \ {0} /\ LockSeconds \in Nat /\ ConsistencySeconds \in Nat
  /\ StopCheckSeconds \in Nat /\ ListDelay \in Nat
  /\ LambdaHardTimeout < LockSeconds
  /\ 2 * LambdaHardTimeout + ListDelay =< ConsistencySeconds
  /\ LockTerm \in Nat /\ LambdaHardTimeout < LockTerm
  /\ "none" \notin Invocations /\ "orphan" \notin Invocations
  /\ NoTask \notin Tasks
  BY InvocationsAssumption, TimingAssumption DEF LockTerm, NoTask, Tasks

LEMMA IdleType == NewRecord \in Records /\ Idle \in Slots
<1>1. NewRecord \in Records
  BY Constants DEF NewRecord, Records, Phases
<1> QED
  BY <1>1, Constants DEF Idle, Slots, PCs, Replies

LEMMA InvType ==
  TypeOK => inv \in [Invocations -> Slots]
  BY DEF TypeOK, Slots

\* The slot after a return: nothing but the reply is left.
Returned(i, reply) ==
  [Idle EXCEPT !.pc = "release", !.kind = inv[i].kind, !.own = inv[i].own,
               !.age = inv[i].age, !.reply = reply]

LEMMA ReturnedType ==
  ASSUME TypeOK, NEW i \in Invocations, NEW reply \in Replies
  PROVE  /\ Returned(i, reply) \in Slots
         /\ Returned(i, reply).pc = "release"
         /\ Returned(i, reply).kind = inv[i].kind
         /\ Returned(i, reply).own = inv[i].own
         /\ Returned(i, reply).reply = reply
<1>1. inv[i] \in Slots
  BY InvType
<1> QED
  BY <1>1, IdleType DEF Returned, Slots, PCs, Idle

LEMMA InitInv == Init => BrokerInv
<1> SUFFICES ASSUME Init PROVE BrokerInv
  OBVIOUS
<1>1. TypeOK
  <2>1. inv \in [Invocations -> Slots]
    BY IdleType DEF Init
  <2>2. lock \in [owner : Invocations \cup {"none", "orphan"}, left : 0..LockTerm]
    BY Constants DEF Init
  <2>3. ecs \in [Tasks -> [state : {"None", "Live", "Stopping", "Stopped"}, age : 0..ListDelay]]
    BY Constants DEF Init
  <2>4. journal \in Records /\ starts \in 0..MaxStarts /\ faults \in 0..MaxFaults
    BY IdleType, Constants DEF Init
  <2> QED
    BY <2>1, <2>2, <2>3, <2>4 DEF Init, TypeOK, Slots
<1>2. Stored
  BY DEF Init, Stored, TasksFit, StoppedFits, AnswersStored, Untouched, NewRecord
<1>3. \A i \in Invocations : Sound(i)
  BY DEF Init, Sound, Holds, ReplySound, Idle
<1> QED
  BY <1>1, <1>2, <1>3 DEF BrokerInv

-----------------------------------------------------------------------------
(* One invocation at a time                                                 *)

\* The lock of an invocation in its critical section has not run out.
LEMMA HolderOwns ==
  ASSUME BrokerInv, NEW i \in Invocations, Holds(i)
  PROVE  lock.owner = i /\ lock.left > 0
<1>1. LockHeld(i)
  BY DEF BrokerInv, Sound
<1>2. inv[i].age \in 0..LambdaHardTimeout /\ lock.left \in 0..LockTerm
  BY DEF BrokerInv, TypeOK
<1> QED
  BY <1>1, <1>2, Constants DEF LockHeld

LEMMA OneHolder ==
  ASSUME BrokerInv, NEW i \in Invocations, NEW k \in Invocations, Holds(i), Holds(k)
  PROVE  i = k
  BY HolderOwns

\* A step of invocation i leaves the knowledge of the others intact.
LEMMA OthersSound ==
  ASSUME BrokerInv, NEW i \in Invocations,
         \A k \in Invocations : k # i => inv'[k] = inv[k],
         Holds(i) \/ UNCHANGED <<journal, ecs, secret>>,
         \A k \in Invocations : k # i /\ Holds(k) => lock' = lock,
         Closed => Closed', Recorded => Recorded'
  PROVE  \A k \in Invocations : k # i => Sound(k)'
<1> SUFFICES ASSUME NEW k \in Invocations, k # i PROVE Sound(k)'
  OBVIOUS
<1>1. inv'[k] = inv[k] /\ Sound(k)
  BY DEF BrokerInv
<1>2. ReplySound(k)'
  BY <1>1 DEF Sound, ReplySound
<1>3. ASSUME Holds(k)'
      PROVE  (LockHeld(k) /\ PhaseAt(inv[k].pc, journal.phase) /\ RecordFresh(k) /\ Knows(k))'
  <2>1. Holds(k)
    BY <1>1, <1>3 DEF Holds
  <2>2. UNCHANGED <<journal, ecs, secret, lock>>
    BY <2>1, OneHolder
  <2>3. (LockHeld(k) /\ PhaseAt(inv[k].pc, journal.phase) /\ RecordFresh(k))'
    BY <1>1, <2>1, <2>2 DEF Sound, LockHeld, PhaseAt, RecordFresh
  <2>4. Knows(k)'
    BY <1>1, <2>1, <2>2 DEF Sound, Knows, KnownKept, Untouched, LoopSound, Executing
  <2> QED
    BY <2>3, <2>4
<1> QED
  BY <1>2, <1>3 DEF Sound

\* What a step of invocation i has to show.
Keeps(i) ==
  /\ TypeOK' /\ TasksFit(journal)' /\ StoppedFits(journal)' /\ Sound(i)'
  /\ Closed => Closed'
  /\ Recorded => Recorded'

LEMMA KeepsInv ==
  ASSUME BrokerInv, NEW i \in Invocations, Keeps(i), UNCHANGED answered,
         \A k \in Invocations : k # i => inv'[k] = inv[k],
         Holds(i) \/ UNCHANGED <<journal, ecs, secret>>,
         \A k \in Invocations : k # i /\ Holds(k) => lock' = lock
  PROVE  BrokerInv'
<1>1. \A k \in Invocations : k # i => Sound(k)'
  BY OthersSound DEF Keeps
<1>2. AnswersStored'
  BY DEF BrokerInv, Stored, AnswersStored, Keeps
<1> QED
  BY <1>1, <1>2 DEF BrokerInv, Stored, Keeps

LEMMA FaultsType ==
  ASSUME TypeOK, Fault \/ NoFault
  PROVE  faults' \in 0..MaxFaults
  BY Constants DEF TypeOK, Fault, NoFault

-----------------------------------------------------------------------------
(* Steps that change nothing but their own slot                             *)

LEMMA LocalStep ==
  ASSUME BrokerInv, NEW i \in Invocations, NEW v \in Slots, Continue(i, v),
         UNCHANGED <<journal, lock, ecs, secret, authority, answered, starts>>,
         Fault \/ NoFault,
         Sound(i)', v.pc = "savePreparing" => ~Closed
  PROVE  BrokerInv'
<1>1. /\ inv' \in [Invocations -> Slots] /\ inv'[i] = v
      /\ \A k \in Invocations : k # i => inv'[k] = inv[k]
  BY InvType DEF BrokerInv, Continue
<1>2. TypeOK'
  BY <1>1, FaultsType DEF BrokerInv, TypeOK, Slots
<1>3. TasksFit(journal)' /\ StoppedFits(journal)'
  BY DEF BrokerInv, Stored, TasksFit, StoppedFits, Untouched, Executing, Settled
<1>4. Closed => Closed'
  BY <1>1 DEF Closed, Untouched
<1>5. Keeps(i)
  BY <1>2, <1>3, <1>4 DEF Keeps, Recorded
<1> QED
  BY <1>1, <1>5, KeepsInv

\* A return whose reply is true.
LEMMA ReturnStep ==
  ASSUME BrokerInv, NEW i \in Invocations, NEW reply \in Replies, Return(i, reply),
         UNCHANGED <<journal, lock, ecs, secret, authority, answered, starts>>,
         Fault \/ NoFault,
         inv[i].own /\ <<inv[i].kind, reply>> \in Closing => Closed,
         inv[i].own /\ <<inv[i].kind, reply>> = <<"start", "started">> => Recorded
  PROVE  BrokerInv'
<1> DEFINE v == Returned(i, reply)
<1>1. v \in Slots /\ v.pc = "release" /\ v.kind = inv[i].kind /\ v.own = inv[i].own /\ v.reply = reply
  BY ReturnedType DEF BrokerInv
<1>2. Continue(i, v)
  BY DEF Return, Returned
<1> HIDE DEF v
<1>3. inv'[i] = v /\ \A k \in Invocations : k # i => inv'[k] = inv[k]
  BY <1>2, InvType DEF Continue, BrokerInv
<1>4. Closed => Closed'
  BY <1>1, <1>3 DEF Closed, Untouched
<1>5. Sound(i)'
  BY <1>1, <1>3, <1>4 DEF Sound, Holds, ReplySound, Recorded
<1> QED
  BY <1>1, <1>2, <1>5, LocalStep

LEMMA AmbiguousStep ==
  ASSUME BrokerInv, NEW i \in Invocations, Ambiguous(i),
         UNCHANGED <<journal, lock, ecs, secret, authority, answered, starts>>,
         Fault \/ NoFault
  PROVE  BrokerInv'
<1>1. "ambiguous" \in Replies /\ Return(i, "ambiguous")
  BY DEF Replies, Ambiguous
<1>2. <<inv[i].kind, "ambiguous">> \notin Closing /\ <<inv[i].kind, "ambiguous">> # <<"start", "started">>
  BY DEF Closing
<1> QED
  BY <1>1, <1>2, ReturnStep

\* A step inside the critical section that keeps the record and the age.
LEMMA StayStep ==
  ASSUME BrokerInv, NEW i \in Invocations, Holds(i), NEW v \in Slots, Continue(i, v),
         UNCHANGED <<journal, lock, ecs, secret, authority, answered, starts>>,
         Fault \/ NoFault,
         v.pc \notin {"idle", "acquire", "release"}, v.age = inv[i].age,
         PhaseAt(v.pc, journal.phase),
         RecordFresh(i)', Knows(i)',
         v.pc = "savePreparing" => ~Closed
  PROVE  BrokerInv'
<1>1. inv'[i] = v
  BY InvType DEF Continue, BrokerInv
<1>2. LockHeld(i)'
  BY <1>1 DEF BrokerInv, Sound, LockHeld
<1>3. PhaseAt(inv[i].pc, journal.phase)'
  BY <1>1 DEF PhaseAt
<1>4. Sound(i)'
  BY <1>1, <1>2, <1>3 DEF Sound, ReplySound
<1> QED
  BY <1>4, LocalStep

LEMMA AuthorizeStartInv ==
  ASSUME BrokerInv, NEW i \in Invocations, AuthorizeStart(i)
  PROVE  BrokerInv'
<1> DEFINE resume == [None |-> "savePreparing", preparing |-> "prepare",
                      registered |-> "authorizeAgain"]
           next == resume[inv[i].rec.phase]
           v == [inv[i] EXCEPT !.pc = next]
<1>1. inv[i].pc = "authorize" /\ Holds(i) /\ Sound(i) /\ inv[i] \in Slots
  BY InvType DEF AuthorizeStart, Authorize, Holds, BrokerInv
<1>2. /\ inv[i].rec.phase = journal.phase /\ journal.phase \in {"None", "preparing", "registered"}
      /\ RecordFresh(i) /\ Untouched
  BY <1>1 DEF Sound, RecordFresh, PhaseAt, BrokerInv, Stored, TasksFit
<1>3. CASE StartAllowed(i) /\ Continue(i, v) /\ NoFault
  <2>1. /\ next \in {"savePreparing", "prepare", "authorizeAgain"}
        /\ next = "savePreparing" => journal.phase = "None"
        /\ next = "prepare" => journal.phase = "preparing"
        /\ next = "authorizeAgain" => journal.phase = "registered"
    BY <1>2
  <2> HIDE DEF next
  <2>2. v \in Slots /\ v.pc = next /\ v.age = inv[i].age /\ v.rec = inv[i].rec
    BY <1>1, <2>1 DEF Slots, PCs
  <2>3. inv'[i] = v
    BY <1>3, InvType DEF BrokerInv, Continue
  <2>4. PhaseAt(v.pc, journal.phase)
    BY <2>1, <2>2 DEF PhaseAt, InLoop
  <2>5. ~Closed
    BY <1>2, <1>3 DEF Closed, StartAllowed
  <2>6. UNCHANGED <<journal, lock, ecs, secret, authority, answered, starts>>
    BY DEF AuthorizeStart, Authorize
  <2>7. RecordFresh(i)'
    BY <1>1, <1>2, <2>1, <2>2, <2>3, <2>6 DEF RecordFresh
  <2>8. Knows(i)'
    BY <2>1, <2>2, <2>3 DEF Knows, InLoop
  <2> HIDE DEF v
  <2> QED
    BY <1>1, <1>3, <2>1, <2>2, <2>4, <2>5, <2>6, <2>7, <2>8, StayStep
<1>4. CASE ~StartAllowed(i) /\ Deny(i, inv[i].rec) /\ NoFault
  <2> DEFINE reply == IF inv[i].rec.phase \in {"None", "stopped"} THEN "rejected" ELSE "ambiguous"
  <2>1. reply \in Replies /\ Return(i, reply)
    BY <1>4 DEF Replies, Deny
  <2>2. inv[i].own /\ <<inv[i].kind, reply>> \in Closing => Closed
    <3> SUFFICES ASSUME inv[i].own, reply = "rejected" PROVE Closed
      BY DEF Closing
    <3>1. journal.phase = "None" /\ authority # "start"
      BY <1>2, <1>4 DEF StartAllowed
    <3>2. \A k \in Invocations : inv[k].pc # "savePreparing"
      BY <1>1, OneHolder DEF Holds
    <3> QED
      BY <1>2, <3>1, <3>2 DEF Closed
  <2>3. <<inv[i].kind, reply>> # <<"start", "started">>
    OBVIOUS
  <2>4. UNCHANGED <<journal, lock, ecs, secret, authority, answered, starts>>
    BY DEF AuthorizeStart, Authorize
  <2> QED
    BY <1>4, <2>1, <2>2, <2>3, <2>4, ReturnStep
<1>5. CASE Fault /\ Ambiguous(i)
  BY <1>5, AmbiguousStep DEF AuthorizeStart, Authorize
<1> QED
  BY <1>3, <1>4, <1>5 DEF AuthorizeStart, Authorize

\* Only the kind of step and the loop's own fields change.
LEMMA AuthorizeAgainInv ==
  ASSUME BrokerInv, NEW i \in Invocations, AuthorizeAgain(i)
  PROVE  BrokerInv'
<1> DEFINE v == [inv[i] EXCEPT !.pc = "saveLaunching"]
<1>1. inv[i].pc = "authorizeAgain" /\ Holds(i) /\ Sound(i) /\ inv[i] \in Slots
  BY InvType DEF AuthorizeAgain, Authorize, Holds, BrokerInv
<1>2. journal.phase = "registered" /\ RecordFresh(i)
  BY <1>1 DEF Sound, PhaseAt
<1>3. UNCHANGED <<journal, lock, ecs, secret, authority, answered, starts>>
  BY DEF AuthorizeAgain, Authorize
<1>4. CASE Continue(i, v) /\ NoFault
  <2>1. v \in Slots /\ v.pc = "saveLaunching" /\ v.age = inv[i].age /\ v.rec = inv[i].rec
    BY <1>1 DEF Slots, PCs
  <2>2. inv'[i] = v
    BY <1>4, InvType DEF BrokerInv, Continue
  <2>3. PhaseAt(v.pc, journal.phase)
    BY <1>2, <2>1 DEF PhaseAt, InLoop
  <2>4. RecordFresh(i)' /\ Knows(i)'
    BY <1>1, <1>2, <1>3, <2>1, <2>2 DEF RecordFresh, Knows, InLoop
  <2> HIDE DEF v
  <2> QED
    BY <1>1, <1>3, <1>4, <2>1, <2>3, <2>4, StayStep
<1>5. CASE Deny(i, inv[i].rec) /\ NoFault
  BY <1>2, <1>3, <1>5, AmbiguousStep DEF Deny, Ambiguous, RecordFresh
<1>6. CASE Fault /\ Ambiguous(i)
  BY <1>3, <1>6, AmbiguousStep
<1> QED
  BY <1>4, <1>5, <1>6 DEF AuthorizeAgain, Authorize

LEMMA AuthorizeStopInv ==
  ASSUME BrokerInv, NEW i \in Invocations, AuthorizeStop(i)
  PROVE  BrokerInv'
<1> DEFINE v == [inv[i] EXCEPT !.pc = "saveStopping"]
<1>1. inv[i].pc = "authorizeStop" /\ Holds(i) /\ Sound(i) /\ inv[i] \in Slots
  BY InvType DEF AuthorizeStop, Authorize, Holds, BrokerInv
<1>2. inv[i].rec.phase = journal.phase /\ RecordFresh(i) /\ inv[i].kind = "stop"
  BY <1>1 DEF Sound, RecordFresh, Knows
<1>3. UNCHANGED <<journal, lock, ecs, secret, authority, answered, starts>>
  BY DEF AuthorizeStop, Authorize
<1>4. CASE Continue(i, v) /\ journal.phase # "stopped" /\ NoFault
  <2>1. v \in Slots /\ v.pc = "saveStopping" /\ v.age = inv[i].age /\ v.rec = inv[i].rec
    BY <1>1 DEF Slots, PCs
  <2>2. inv'[i] = v
    BY <1>4, InvType DEF BrokerInv, Continue
  <2>3. PhaseAt(v.pc, journal.phase)
    BY <1>4, <2>1 DEF PhaseAt, InLoop
  <2>4. RecordFresh(i)' /\ Knows(i)'
    BY <1>1, <1>2, <1>3, <2>1, <2>2 DEF RecordFresh, Knows, InLoop
  <2> HIDE DEF v
  <2> QED
    BY <1>1, <1>3, <1>4, <2>1, <2>3, <2>4, StayStep
<1>5. ASSUME NEW reply \in {"stopped", "stopping", "rejected", "ambiguous"},
             Return(i, reply), NoFault, reply = "stopped" => journal.phase = "stopped"
      PROVE  BrokerInv'
  <2>1. reply \in Replies /\ <<inv[i].kind, reply>> # <<"start", "started">>
    BY <1>5, <1>2 DEF Replies
  <2>2. <<inv[i].kind, reply>> \in Closing => Closed
    BY <1>2, <1>5 DEF Closing, Closed
  <2> QED
    BY <1>3, <1>5, <2>1, <2>2, ReturnStep
<1>6. CASE Fault /\ Ambiguous(i)
  BY <1>3, <1>6, AmbiguousStep
<1> QED
  BY <1>2, <1>4, <1>5, <1>6 DEF AuthorizeStop, Authorize, Deny

LEMMA FindInv ==
  ASSUME BrokerInv, NEW i \in Invocations, Find(i)
  PROVE  BrokerInv'
<1>1. inv[i].pc = "find" /\ Holds(i) /\ Sound(i) /\ inv[i] \in Slots
  BY InvType DEF Find, Holds, BrokerInv
<1>2. journal.phase = "launching" /\ RecordFresh(i)
  BY <1>1 DEF Sound, PhaseAt
<1>3. UNCHANGED <<journal, lock, ecs, secret, authority, answered, starts>>
  BY DEF Find
<1>4. ASSUME NEW t \in Tasks, Executing(t),
             Continue(i, [inv[i] EXCEPT !.pc = "saveRunning", !.rec.task = t]), NoFault
      PROVE  BrokerInv'
  <2> DEFINE v == [inv[i] EXCEPT !.pc = "saveRunning", !.rec.task = t]
  <2>1. /\ v \in Slots /\ v.pc = "saveRunning" /\ v.age = inv[i].age
        /\ v.rec = [inv[i].rec EXCEPT !.task = t] /\ inv[i].rec \in Records
    BY <1>1 DEF Slots, PCs, Records
  <2>2. inv'[i] = v
    BY <1>4, InvType DEF BrokerInv, Continue
  <2>3. PhaseAt(v.pc, journal.phase)
    BY <1>2, <2>1 DEF PhaseAt, InLoop
  <2>4. RecordFresh(i)'
    BY <1>1, <1>2, <1>3, <2>1, <2>2 DEF RecordFresh, Records
  <2>5. Knows(i)'
    BY <1>3, <1>4, <2>1, <2>2, Constants DEF Knows, InLoop, Executing, Records
  <2>8. Continue(i, v)
    BY <1>4
  <2> HIDE DEF v
  <2> QED
    BY <1>1, <1>3, <1>4, <2>1, <2>3, <2>8, <2>4, <2>5, StayStep
<1>5. CASE Ambiguous(i) /\ (Fault \/ NoFault)
  BY <1>3, <1>5, AmbiguousStep
<1> QED
  BY <1>4, <1>5 DEF Find, Listing

\* A task the listing does not show is too young for that, or not executing.
LEMMA ListInv ==
  ASSUME BrokerInv, NEW i \in Invocations, List(i)
  PROVE  BrokerInv'
<1>1. inv[i].pc = "list" /\ Holds(i) /\ Sound(i) /\ inv[i] \in Slots
  BY InvType DEF List, Holds, BrokerInv
<1>2. /\ journal.phase = "stopping" /\ RecordFresh(i)
      /\ inv[i].rec.task = journal.task /\ inv[i].rec.reconciling = journal.reconciling
  BY <1>1 DEF Sound, PhaseAt, RecordFresh
<1>3. UNCHANGED <<journal, lock, ecs, secret, authority, answered, starts>>
  BY DEF List
<1>4. ASSUME NEW found \in SUBSET Tasks, Listing(found), NoFault,
             NEW tasks, tasks = found \cup ({inv[i].rec.task} \ {NoTask}) \cup inv[i].rec.reconciling,
             Continue(i, [inv[i] EXCEPT !.pc = "saveFound", !.rec.reconciling = tasks,
                                        !.todo = tasks, !.missing = FALSE, !.alive = FALSE])
      PROVE  BrokerInv'
  <2> DEFINE v == [inv[i] EXCEPT !.pc = "saveFound", !.rec.reconciling = tasks,
                                 !.todo = tasks, !.missing = FALSE, !.alive = FALSE]
  <2>0. inv[i].rec \in Records /\ tasks \in SUBSET Tasks
    BY <1>1, <1>4 DEF Slots, Records
  <2>1. /\ v \in Slots /\ v.pc = "saveFound" /\ v.age = inv[i].age /\ v.todo = tasks
        /\ v.rec = [inv[i].rec EXCEPT !.reconciling = tasks]
    BY <1>1, <2>0 DEF Slots, PCs, Records
  <2>2. inv'[i] = v
    BY <1>4, InvType DEF BrokerInv, Continue
  <2>3. PhaseAt(v.pc, journal.phase)
    BY <1>2, <2>1 DEF PhaseAt, InLoop
  <2>4. v.rec.reconciling = tasks /\ RecordFresh(i)'
    BY <1>1, <1>2, <1>3, <2>0, <2>1, <2>2 DEF RecordFresh, Records
  <2>5. ASSUME NEW t \in Tasks, Executing(t), t \notin tasks
        PROVE  journal.uncertain < LambdaHardTimeout + ListDelay + inv[i].age
    <3>1. ecs[t].state = "Live" /\ ~Settled(t)
      BY <1>2, <1>4, <2>5 DEF Listing, Executing, BrokerInv, Stored, TasksFit
    <3>2. journal.uncertain =< LambdaHardTimeout + ecs[t].age
      BY <3>1 DEF BrokerInv, Stored, TasksFit
    <3>3. ecs[t].age \in 0..ListDelay /\ inv[i].age \in Nat /\ journal.uncertain \in Nat
      BY <1>1, Constants DEF BrokerInv, TypeOK, Slots, Records
    <3> QED
      BY <3>1, <3>2, <3>3, Constants DEF Settled
  <2>6. LoopSound(inv[i])'
    BY <1>1, <1>2, <1>3, <1>4, <2>1, <2>2, <2>4, <2>5 DEF LoopSound, Executing, Slots
  <2>7. Knows(i)'
    <3>1. KnownKept(i)'
      BY <1>2, <1>3, <1>4, <2>2, <2>4 DEF KnownKept
    <3> QED
      BY <2>1, <2>2, <2>6, <3>1 DEF Knows
  <2>8. Continue(i, v)
    BY <1>4
  <2> HIDE DEF v
  <2> QED
    BY <1>1, <1>3, <1>4, <2>1, <2>3, <2>8, <2>4, <2>7, StayStep
<1>5. CASE Ambiguous(i) /\ Fault
  BY <1>3, <1>5, AmbiguousStep
<1> QED
  BY <1>4, <1>5 DEF List

\* The end of stop's loop: with the timeouts of TimingAssumption, a confirmed
\* stop means that nothing executes.
LEMMA LoopEnd ==
  ASSUME BrokerInv, NEW v \in Slots, LoopSound(v), AfterTasks(v) = "cleanup",
         v.rec.uncertain = journal.uncertain, v.rec.task = journal.task,
         v.rec.rejected = journal.rejected
  PROVE  \A t \in Tasks : ~Executing(t)
<1> SUFFICES ASSUME NEW t \in Tasks, Executing(t) PROVE FALSE
  OBVIOUS
<1>1. t \notin v.todo /\ StopConfirmed(v.rec, v.alive, v.missing)
  BY DEF AfterTasks
<1>2. /\ journal.uncertain < LambdaHardTimeout + ListDelay + v.age
      /\ v.missing \/ t \notin v.rec.reconciling
  BY <1>1 DEF LoopSound, StopConfirmed
<1>3. journal.uncertain # ConsistencySeconds
  <2>1. v.age \in 0..LambdaHardTimeout /\ journal.uncertain \in 0..ConsistencySeconds
    BY DEF Slots, BrokerInv, TypeOK, Records
  <2> QED
    BY <1>2, <2>1, Constants
<1>4. ~v.missing /\ (journal.task # NoTask \/ journal.rejected)
  BY <1>1, <1>3 DEF StopConfirmed
<1>5. CASE journal.task # NoTask
  <2>1. journal.task \in Tasks /\ ecs[journal.task].state # "None" /\ ecs[t].state # "None"
    BY <1>5 DEF BrokerInv, TypeOK, Records, Stored, TasksFit, Executing
  <2>2. journal.task = t
    BY <2>1 DEF BrokerInv, Stored, TasksFit
  <2> QED
    BY <1>2, <1>4, <1>5, <2>2 DEF LoopSound
<1>6. CASE journal.rejected
  BY <1>6 DEF BrokerInv, Stored, TasksFit, Untouched, Executing
<1> QED
  BY <1>4, <1>5, <1>6

LEMMA StatusInv ==
  ASSUME BrokerInv, NEW i \in Invocations, Status(i)
  PROVE  BrokerInv'
<1>1. inv[i].pc = "status" /\ Holds(i) /\ Sound(i) /\ inv[i] \in Slots
  BY InvType DEF Status, Holds, BrokerInv
<1>2. /\ journal.phase = "stopping" /\ RecordFresh(i) /\ LoopSound(inv[i])
      /\ inv[i].rec.task = journal.task /\ inv[i].rec.reconciling = journal.reconciling
  BY <1>1 DEF Sound, PhaseAt, RecordFresh, Knows, InLoop
<1>3. UNCHANGED <<journal, lock, ecs, secret, authority, answered, starts>>
  BY DEF Status
<1>4. ASSUME NEW w \in Slots, LoopSound(w), w.rec = inv[i].rec, w.age = inv[i].age,
             Continue(i, [w EXCEPT !.pc = AfterTasks(w)]), NoFault
      PROVE  BrokerInv'
  <2> DEFINE next == AfterTasks(w)
             v == [w EXCEPT !.pc = next]
  <2>1. next \in {"stopTask", "cleanup", "saveSchedule"}
    BY DEF AfterTasks
  <2>2. next = "cleanup" => \A t \in Tasks : ~Executing(t)
    BY <1>2, <1>4, LoopEnd DEF RecordFresh
  <2>3. Continue(i, v)
    BY <1>4
  <2> HIDE DEF next
  <2>4. /\ v \in Slots /\ v.pc = next /\ v.age = inv[i].age /\ v.rec = inv[i].rec
        /\ v.todo = w.todo /\ v.alive = w.alive /\ v.missing = w.missing
    BY <1>4, <2>1 DEF Slots, PCs
  <2>5. inv'[i] = v
    BY <2>3, InvType DEF BrokerInv, Continue
  <2>6. PhaseAt(v.pc, journal.phase)
    BY <1>2, <2>1, <2>4 DEF PhaseAt, InLoop
  <2>7. RecordFresh(i)'
    BY <1>1, <1>2, <1>3, <2>1, <2>4, <2>5 DEF RecordFresh
  <2>8. LoopSound(inv[i])'
    BY <1>3, <1>4, <2>4, <2>5 DEF LoopSound, Executing
  <2>9. Knows(i)'
    <3>1. KnownKept(i)'
      BY <1>2, <1>3, <2>4, <2>5 DEF KnownKept
    <3> QED
      BY <1>3, <2>1, <2>2, <2>4, <2>5, <2>8, <3>1 DEF Knows, Executing
  <2> HIDE DEF v
  <2> QED
    BY <1>1, <1>3, <1>4, <2>1, <2>3, <2>4, <2>6, <2>7, <2>9, StayStep
<1>5. ASSUME NEW t \in Tasks, FirstTodo(i, t), NEW w,
             \/ w = [inv[i] EXCEPT !.todo = @ \ {t}] /\ ecs[t].state = "Stopped"
             \/ w = [inv[i] EXCEPT !.todo = @ \ {t}, !.missing = TRUE]
                /\ ~(Executing(t) /\ Settled(t))
             \/ w = [inv[i] EXCEPT !.todo = @ \ {t}, !.alive = TRUE]
      PROVE  w \in Slots /\ LoopSound(w) /\ w.rec = inv[i].rec /\ w.age = inv[i].age
  <2>1. /\ w \in Slots /\ w.rec = inv[i].rec /\ w.age = inv[i].age /\ w.todo = inv[i].todo \ {t}
        /\ \/ w.missing = inv[i].missing /\ w.alive = inv[i].alive /\ ecs[t].state = "Stopped"
           \/ w.missing /\ w.alive = inv[i].alive /\ ~(Executing(t) /\ Settled(t))
           \/ w.alive
    BY <1>1, <1>5 DEF Slots
  <2>2. CASE w.alive
    BY <1>2, <2>1, <2>2 DEF LoopSound
  <2>3. CASE w.missing = inv[i].missing /\ w.alive = inv[i].alive /\ ecs[t].state = "Stopped"
    BY <1>2, <2>1, <2>3 DEF LoopSound, Executing
  <2>4. CASE w.missing /\ w.alive = inv[i].alive /\ ~(Executing(t) /\ Settled(t))
    <3>1. Executing(t) => journal.uncertain < LambdaHardTimeout + ListDelay + inv[i].age
      <4> SUFFICES ASSUME Executing(t)
                   PROVE  journal.uncertain < LambdaHardTimeout + ListDelay + inv[i].age
        OBVIOUS
      <4>1. journal.uncertain =< LambdaHardTimeout + ecs[t].age
        BY <2>4 DEF BrokerInv, Stored, TasksFit, Executing
      <4>2. ecs[t].age \in 0..ListDelay /\ inv[i].age \in Nat /\ journal.uncertain \in Nat
        BY <1>1, Constants DEF BrokerInv, TypeOK, Slots, Records
      <4> QED
        BY <2>4, <4>1, <4>2, Constants DEF Settled
    <3> QED
      BY <1>2, <2>1, <2>4, <3>1 DEF LoopSound
  <2> QED
    BY <2>1, <2>2, <2>3, <2>4
<1>6. CASE Ambiguous(i) /\ Fault
  BY <1>3, <1>6, AmbiguousStep
<1> QED
  BY <1>4, <1>5, <1>6 DEF Status

-----------------------------------------------------------------------------
(* Steps that save the record                                               *)

\* A save puts rec into the journal or, failing, leaves the journal alone; either
\* is fine if rec fits the tasks and the invocation goes on with what it knows.
LEMMA SaveStep ==
  ASSUME BrokerInv, NEW i \in Invocations, NEW at, NEW rec \in Records, NEW next \in PCs,
         NEW reply \in Replies, Save(i, at, rec, next, reply),
         at \notin {"idle", "acquire", "release"},
         TasksFit(rec), StoppedFits(rec), Recorded => rec.task # NoTask,
         Closed => \/ rec.phase = "stopped"
                   \/ journal.phase # "stopped" /\ rec.phase \in {"None", "stopping"},
         next = "release" =>
           /\ <<inv[i].kind, reply>> \in Closing => rec.phase = "stopped"
           /\ <<inv[i].kind, reply>> = <<"start", "started">> => rec.task # NoTask,
         next # "release" =>
           /\ next \notin {"idle", "acquire", "savePreparing"} /\ PhaseAt(next, rec.phase)
           /\ inv' = [inv EXCEPT ![i] = [inv[i] EXCEPT !.pc = next, !.rec = rec]] /\ journal' = rec
                => Knows(i)'
  PROVE  BrokerInv'
<1>1. Holds(i) /\ inv[i] \in Slots /\ Sound(i) /\ lock.owner = i
  BY HolderOwns, InvType DEF Save, Holds, BrokerInv
<1>2. UNCHANGED <<lock, ecs, secret, authority, answered, starts>> /\ (Fault \/ NoFault)
  BY DEF Save
<1>3. ASSUME NEW v \in Slots, Continue(i, v), v.pc # "savePreparing", journal' = rec, Sound(i)'
      PROVE  BrokerInv'
  <2>1. /\ inv' \in [Invocations -> Slots] /\ inv'[i] = v
        /\ \A k \in Invocations : k # i => inv'[k] = inv[k]
    BY <1>3, InvType DEF BrokerInv, Continue
  <2>2. TypeOK'
    BY <1>2, <1>3, <2>1, FaultsType DEF BrokerInv, TypeOK, Slots
  <2>3. TasksFit(journal)' /\ StoppedFits(journal)'
    BY <1>2, <1>3 DEF TasksFit, StoppedFits, Untouched, Executing, Settled
  <2>4. (Closed => Closed') /\ (Recorded => Recorded')
    BY <1>2, <1>3, <2>1 DEF Closed, Recorded, Untouched
  <2>5. Keeps(i)
    BY <1>3, <2>2, <2>3, <2>4 DEF Keeps
  <2> QED
    BY <1>1, <1>2, <2>1, <2>5, KeepsInv
<1>4. ASSUME NEW r \in Replies, Return(i, r), journal' = rec,
             <<inv[i].kind, r>> \in Closing => rec.phase = "stopped",
             <<inv[i].kind, r>> = <<"start", "started">> => rec.task # NoTask
      PROVE  BrokerInv'
  <2> DEFINE v == Returned(i, r)
  <2>1. v \in Slots /\ v.pc = "release" /\ v.kind = inv[i].kind /\ v.own = inv[i].own /\ v.reply = r
    BY ReturnedType DEF BrokerInv
  <2>2. Continue(i, v)
    BY <1>4 DEF Return, Returned
  <2> HIDE DEF v
  <2>3. inv'[i] = v
    BY <2>2, InvType DEF Continue, BrokerInv
  <2>4. Sound(i)'
    BY <1>4, <2>1, <2>3 DEF Sound, Holds, ReplySound, Closed, Recorded
  <2> QED
    BY <1>3, <1>4, <2>1, <2>2, <2>4
<1>5. CASE Ambiguous(i) /\ UNCHANGED journal
  BY <1>2, <1>5, AmbiguousStep
<1>6. CASE Ambiguous(i) /\ journal' = rec
  <2>1. <<inv[i].kind, "ambiguous">> \notin Closing /\ <<inv[i].kind, "ambiguous">> # <<"start", "started">>
    BY DEF Closing
  <2> QED
    BY <1>4, <1>6, <2>1 DEF Ambiguous, Replies
<1>7. CASE journal' = rec /\ next = "release" /\ Return(i, reply)
  BY <1>4, <1>7
<1>8. CASE journal' = rec /\ next # "release" /\ Continue(i, [inv[i] EXCEPT !.pc = next, !.rec = rec])
  <2> DEFINE v == [inv[i] EXCEPT !.pc = next, !.rec = rec]
  <2>1. v \in Slots /\ v.pc = next /\ v.rec = rec /\ v.age = inv[i].age /\ v.own = inv[i].own
    BY <1>1 DEF Slots
  <2>2. inv'[i] = v
    BY <1>8, InvType DEF Continue, BrokerInv
  <2>3. LockHeld(i)' /\ RecordFresh(i)' /\ PhaseAt(inv[i].pc, journal.phase)'
    BY <1>1, <1>2, <1>8, <2>1, <2>2 DEF Sound, LockHeld, RecordFresh, PhaseAt
  <2>4. Sound(i)'
    BY <1>8, <2>1, <2>2, <2>3 DEF Sound, ReplySound, Continue
  <2> QED
    BY <1>3, <1>8, <2>1, <2>4
<1> QED
  BY <1>1, <1>5, <1>6, <1>7, <1>8 DEF Save, SavePut

\* The record of an invocation about to save, with the fields given.
LEMMA AtSave ==
  ASSUME BrokerInv, NEW i \in Invocations, Holds(i)
  PROVE  /\ inv[i] \in Slots /\ inv[i].rec \in Records /\ Sound(i)
         /\ TasksFit(journal) /\ StoppedFits(journal)
         /\ journal \in Records
         /\ PhaseAt(inv[i].pc, journal.phase) /\ RecordFresh(i) /\ Knows(i)
  BY InvType DEF BrokerInv, Slots, Stored, TypeOK, Sound

LEMMA SavePreparingInv ==
  ASSUME BrokerInv, NEW i \in Invocations, SavePreparing(i)
  PROVE  BrokerInv'
<1> DEFINE rec == [inv[i].rec EXCEPT !.phase = "preparing", !.uncertain = 0]
<1>1. inv[i].pc = "savePreparing" /\ Holds(i)
  BY DEF SavePreparing, Save, Holds
<1>2. /\ inv[i].rec \in Records /\ RecordFresh(i) /\ TasksFit(journal) /\ Knows(i)
      /\ journal.phase = "None"
  BY <1>1, AtSave DEF PhaseAt, InLoop
<1>3. 0 \in 0..ConsistencySeconds
  BY Constants
<1>4. /\ rec \in Records /\ rec.phase = "preparing" /\ rec.uncertain = 0
      /\ rec.rejected = inv[i].rec.rejected /\ rec.task = inv[i].rec.task
      /\ rec.reconciling = inv[i].rec.reconciling
  BY <1>2, <1>3 DEF Records, Phases
<1>5. Save(i, "savePreparing", rec, "prepare", "none")
  BY DEF SavePreparing
<1> HIDE DEF rec
<1>6. TasksFit(rec) /\ StoppedFits(rec) /\ (Recorded => rec.task # NoTask)
  BY <1>1, <1>2, <1>4 DEF TasksFit, StoppedFits, Untouched, RecordFresh, Recorded
<1>7. ~Closed
  BY <1>1, <1>2 DEF Closed, Untouched
<1>8. "prepare" \in PCs /\ "none" \in Replies /\ PhaseAt("prepare", rec.phase)
  BY <1>4 DEF PhaseAt, InLoop, PCs, Replies
<1>9. ASSUME inv' = [inv EXCEPT ![i] = [inv[i] EXCEPT !.pc = "prepare", !.rec = rec]], journal' = rec
      PROVE  Knows(i)'
  <2>1. /\ inv'[i].pc = "prepare" /\ inv'[i].rec = rec /\ inv'[i].age = inv[i].age
    BY <1>1, <1>9, InvType, AtSave DEF BrokerInv, Slots
  <2> QED
    BY <2>1 DEF Knows, InLoop
<1> QED
  BY <1>1, <1>4, <1>5, <1>6, <1>7, <1>8, <1>9, SaveStep

LEMMA SaveRegisteredInv ==
  ASSUME BrokerInv, NEW i \in Invocations, SaveRegistered(i)
  PROVE  BrokerInv'
<1> DEFINE rec == [inv[i].rec EXCEPT !.phase = "registered"]
<1>1. inv[i].pc = "saveRegistered" /\ Holds(i)
  BY DEF SaveRegistered, Save, Holds
<1>2. /\ inv[i].rec \in Records /\ RecordFresh(i) /\ TasksFit(journal) /\ Knows(i)
      /\ journal.phase = "preparing"
  BY <1>1, AtSave DEF PhaseAt, InLoop
<1>4. /\ rec \in Records /\ rec.phase = "registered" /\ rec.uncertain = inv[i].rec.uncertain
      /\ rec.rejected = inv[i].rec.rejected /\ rec.task = inv[i].rec.task
      /\ rec.reconciling = inv[i].rec.reconciling
  BY <1>2 DEF Records, Phases
<1>5. Save(i, "saveRegistered", rec, "authorizeAgain", "none")
  BY DEF SaveRegistered
<1> HIDE DEF rec
<1>6. TasksFit(rec) /\ StoppedFits(rec) /\ (Recorded => rec.task # NoTask)
  BY <1>1, <1>2, <1>4 DEF TasksFit, StoppedFits, Untouched, RecordFresh, Recorded
<1>7. ~Closed
  BY <1>1, <1>2 DEF Closed, Untouched
<1>8. "authorizeAgain" \in PCs /\ "none" \in Replies /\ PhaseAt("authorizeAgain", rec.phase)
  BY <1>4 DEF PhaseAt, InLoop, PCs, Replies
<1>9. ASSUME inv' = [inv EXCEPT ![i] = [inv[i] EXCEPT !.pc = "authorizeAgain", !.rec = rec]], journal' = rec
      PROVE  Knows(i)'
  <2>1. /\ inv'[i].pc = "authorizeAgain" /\ inv'[i].rec = rec /\ inv'[i].age = inv[i].age
    BY <1>1, <1>9, InvType, AtSave DEF BrokerInv, Slots
  <2> QED
    BY <2>1 DEF Knows, InLoop
<1> QED
  BY <1>1, <1>4, <1>5, <1>6, <1>7, <1>8, <1>9, SaveStep

\* The launch marker is written before RunTask, with no task launched yet.
LEMMA SaveLaunchingInv ==
  ASSUME BrokerInv, NEW i \in Invocations, SaveLaunching(i)
  PROVE  BrokerInv'
<1> DEFINE rec == [inv[i].rec EXCEPT !.phase = "launching", !.uncertain = 0]
<1>1. inv[i].pc = "saveLaunching" /\ Holds(i)
  BY DEF SaveLaunching, Save, Holds
<1>2. /\ inv[i].rec \in Records /\ RecordFresh(i) /\ TasksFit(journal) /\ Knows(i)
      /\ journal.phase = "registered" /\ inv[i].age \in Nat
  BY <1>1, AtSave, Constants DEF PhaseAt, InLoop, Slots
<1>3. 0 \in 0..ConsistencySeconds
  BY Constants
<1>4. /\ rec \in Records /\ rec.phase = "launching" /\ rec.uncertain = 0
      /\ rec.rejected = inv[i].rec.rejected /\ rec.task = inv[i].rec.task
      /\ rec.reconciling = inv[i].rec.reconciling
  BY <1>2, <1>3 DEF Records, Phases
<1>5. Save(i, "saveLaunching", rec, "launch", "none")
  BY DEF SaveLaunching
<1> HIDE DEF rec
<1>6. TasksFit(rec) /\ StoppedFits(rec) /\ (Recorded => rec.task # NoTask)
  BY <1>1, <1>2, <1>4 DEF TasksFit, StoppedFits, Untouched, RecordFresh, Recorded
<1>7. ~Closed
  BY <1>1, <1>2 DEF Closed, Untouched
<1>8. "launch" \in PCs /\ "none" \in Replies /\ PhaseAt("launch", rec.phase)
  BY <1>4 DEF PhaseAt, InLoop, PCs, Replies
<1>9. ASSUME inv' = [inv EXCEPT ![i] = [inv[i] EXCEPT !.pc = "launch", !.rec = rec]], journal' = rec
      PROVE  Knows(i)'
  <2>1. /\ inv'[i].pc = "launch" /\ inv'[i].rec = rec /\ inv'[i].age = inv[i].age
    BY <1>1, <1>9, InvType, AtSave DEF BrokerInv, Slots
  <2>2. UNCHANGED <<ecs, secret>>
    BY DEF SaveLaunching, Save
  <2>3. Untouched'
    BY <1>2, <2>2 DEF TasksFit, Untouched
  <2> QED
    BY <1>2, <1>4, <1>9, <2>1, <2>3 DEF Knows, InLoop
<1> QED
  BY <1>1, <1>4, <1>5, <1>6, <1>7, <1>8, <1>9, SaveStep

LEMMA SaveRunningInv ==
  ASSUME BrokerInv, NEW i \in Invocations, SaveRunning(i)
  PROVE  BrokerInv'
<1> DEFINE rec == [inv[i].rec EXCEPT !.phase = "running"]
<1>1. inv[i].pc = "saveRunning" /\ Holds(i)
  BY DEF SaveRunning, Save, Holds
<1>2. /\ inv[i].rec \in Records /\ RecordFresh(i) /\ TasksFit(journal) /\ Knows(i)
      /\ journal.phase = "launching" /\ inv[i].rec.task # NoTask /\ ecs[inv[i].rec.task].state # "None"
  BY <1>1, AtSave DEF PhaseAt, InLoop, Knows
<1>4. /\ rec \in Records /\ rec.phase = "running" /\ rec.uncertain = inv[i].rec.uncertain
      /\ rec.rejected = inv[i].rec.rejected /\ rec.task = inv[i].rec.task
      /\ rec.reconciling = inv[i].rec.reconciling
  BY <1>2 DEF Records, Phases
<1>5. Save(i, "saveRunning", rec, "release", "started")
  BY DEF SaveRunning
<1> HIDE DEF rec
<1>6. TasksFit(rec) /\ StoppedFits(rec) /\ (Recorded => rec.task # NoTask)
  BY <1>1, <1>2, <1>4 DEF TasksFit, StoppedFits, Untouched, RecordFresh, Recorded
<1>7. ~Closed
  BY <1>1, <1>2 DEF Closed, Untouched
<1>8. "release" \in PCs /\ "started" \in Replies
  BY DEF PCs, Replies
<1>9. <<inv[i].kind, "started">> \notin Closing /\ rec.task # NoTask
  BY <1>2, <1>4 DEF Closing
<1> QED
  BY <1>1, <1>4, <1>5, <1>6, <1>7, <1>8, <1>9, SaveStep

LEMMA SaveRejectingInv ==
  ASSUME BrokerInv, NEW i \in Invocations, SaveRejecting(i)
  PROVE  BrokerInv'
<1> DEFINE rec == [inv[i].rec EXCEPT !.phase = "stopping", !.rejected = TRUE]
<1>1. inv[i].pc = "saveRejecting" /\ Holds(i)
  BY DEF SaveRejecting, Save, Holds
<1>2. /\ inv[i].rec \in Records /\ RecordFresh(i) /\ TasksFit(journal) /\ Knows(i)
      /\ journal.phase = "launching" /\ Untouched
  BY <1>1, AtSave DEF PhaseAt, InLoop, Knows
<1>4. /\ rec \in Records /\ rec.phase = "stopping" /\ rec.uncertain = inv[i].rec.uncertain
      /\ rec.rejected /\ rec.task = inv[i].rec.task
      /\ rec.reconciling = inv[i].rec.reconciling
  BY <1>2 DEF Records, Phases
<1>5. Save(i, "saveRejecting", rec, "cleanup", "none")
  BY DEF SaveRejecting
<1> HIDE DEF rec
<1>6. TasksFit(rec) /\ StoppedFits(rec) /\ (Recorded => rec.task # NoTask)
  BY <1>1, <1>2, <1>4 DEF TasksFit, StoppedFits, Untouched, RecordFresh, Recorded
<1>7. ~Closed
  BY <1>1, <1>2 DEF Closed, Untouched
<1>8. "cleanup" \in PCs /\ "none" \in Replies /\ PhaseAt("cleanup", rec.phase)
  BY <1>4 DEF PhaseAt, InLoop, PCs, Replies
<1>9. ASSUME inv' = [inv EXCEPT ![i] = [inv[i] EXCEPT !.pc = "cleanup", !.rec = rec]], journal' = rec
      PROVE  Knows(i)'
  <2>1. /\ inv'[i].pc = "cleanup" /\ inv'[i].rec = rec /\ inv'[i].age = inv[i].age
    BY <1>1, <1>9, InvType, AtSave DEF BrokerInv, Slots
  <2>2. UNCHANGED <<ecs, secret>>
    BY DEF SaveRejecting, Save
  <2> QED
    BY <1>2, <2>1, <2>2 DEF Knows, InLoop, Untouched, Executing
<1> QED
  BY <1>1, <1>4, <1>5, <1>6, <1>7, <1>8, <1>9, SaveStep

LEMMA SaveStoppingInv ==
  ASSUME BrokerInv, NEW i \in Invocations, SaveStopping(i)
  PROVE  BrokerInv'
<1> DEFINE rec == [inv[i].rec EXCEPT !.phase = "stopping"]
<1>1. inv[i].pc = "saveStopping" /\ Holds(i)
  BY DEF SaveStopping, Save, Holds
<1>2. /\ inv[i].rec \in Records /\ RecordFresh(i) /\ TasksFit(journal) /\ Knows(i)
      /\ journal.phase # "stopped"
  BY <1>1, AtSave DEF PhaseAt, InLoop
<1>4. /\ rec \in Records /\ rec.phase = "stopping" /\ rec.uncertain = inv[i].rec.uncertain
      /\ rec.rejected = inv[i].rec.rejected /\ rec.task = inv[i].rec.task
      /\ rec.reconciling = inv[i].rec.reconciling
  BY <1>2 DEF Records, Phases
<1>5. Save(i, "saveStopping", rec, "list", "none")
  BY DEF SaveStopping
<1> HIDE DEF rec
<1>6. TasksFit(rec) /\ StoppedFits(rec) /\ (Recorded => rec.task # NoTask)
  BY <1>1, <1>2, <1>4 DEF TasksFit, StoppedFits, Untouched, RecordFresh, Recorded
<1>7. journal.phase # "stopped" /\ rec.phase \in {"None", "stopping"}
  BY <1>2, <1>4
<1>8. "list" \in PCs /\ "none" \in Replies /\ PhaseAt("list", rec.phase)
  BY <1>4 DEF PhaseAt, InLoop, PCs, Replies
<1>9. ASSUME inv' = [inv EXCEPT ![i] = [inv[i] EXCEPT !.pc = "list", !.rec = rec]], journal' = rec
      PROVE  Knows(i)'
  <2>1. /\ inv'[i].pc = "list" /\ inv'[i].rec = rec /\ inv'[i].age = inv[i].age
    BY <1>1, <1>9, InvType, AtSave DEF BrokerInv, Slots
  <2> QED
    BY <2>1 DEF Knows, InLoop
<1> QED
  BY <1>1, <1>4, <1>5, <1>6, <1>7, <1>8, <1>9, SaveStep

LEMMA SaveScheduleInv ==
  ASSUME BrokerInv, NEW i \in Invocations, SaveSchedule(i)
  PROVE  BrokerInv'
<1> DEFINE rec == [inv[i].rec EXCEPT !.wait = StopCheckSeconds]
<1>1. inv[i].pc = "saveSchedule" /\ Holds(i)
  BY DEF SaveSchedule, Save, Holds
<1>2. /\ inv[i].rec \in Records /\ RecordFresh(i) /\ TasksFit(journal) /\ Knows(i)
      /\ journal.phase = "stopping"
  BY <1>1, AtSave DEF PhaseAt, InLoop
<1>3. StopCheckSeconds \in 0..StopCheckSeconds
  BY Constants
<1>4. /\ rec \in Records /\ rec.phase = inv[i].rec.phase /\ rec.uncertain = inv[i].rec.uncertain
      /\ rec.rejected = inv[i].rec.rejected /\ rec.task = inv[i].rec.task
      /\ rec.reconciling = inv[i].rec.reconciling
  BY <1>2, <1>3 DEF Records, Phases
<1>5. Save(i, "saveSchedule", rec, "release", "stopping")
  BY DEF SaveSchedule
<1> HIDE DEF rec
<1>6. TasksFit(rec) /\ StoppedFits(rec) /\ (Recorded => rec.task # NoTask)
  BY <1>1, <1>2, <1>4 DEF TasksFit, StoppedFits, Untouched, RecordFresh, Recorded
<1>7. journal.phase # "stopped" /\ rec.phase \in {"None", "stopping"}
  BY <1>2, <1>4 DEF RecordFresh
<1>8. "release" \in PCs /\ "stopping" \in Replies
  BY DEF PCs, Replies
<1>9. <<inv[i].kind, "stopping">> \notin Closing /\ <<inv[i].kind, "stopping">> # <<"start", "started">>
  BY DEF Closing
<1> QED
  BY <1>1, <1>4, <1>5, <1>6, <1>7, <1>8, <1>9, SaveStep

\* The tombstone: cleanup is done and nothing executes.
LEMMA SaveStoppedInv ==
  ASSUME BrokerInv, NEW i \in Invocations, SaveStopped(i)
  PROVE  BrokerInv'
<1> DEFINE rec == [inv[i].rec EXCEPT !.phase = "stopped"]
           reply == IF inv[i].kind = "start" THEN "rejected" ELSE "stopped"
<1>1. inv[i].pc = "saveStopped" /\ Holds(i)
  BY DEF SaveStopped, Save, Holds
<1>2. /\ inv[i].rec \in Records /\ RecordFresh(i) /\ TasksFit(journal)
      /\ journal.phase = "stopping" /\ ~secret /\ \A t \in Tasks : ~Executing(t)
  BY <1>1, AtSave DEF PhaseAt, InLoop, Knows
<1>3. /\ rec \in Records /\ rec.phase = "stopped" /\ rec.uncertain = inv[i].rec.uncertain
      /\ rec.rejected = inv[i].rec.rejected /\ rec.task = inv[i].rec.task
      /\ rec.reconciling = inv[i].rec.reconciling
  BY <1>2 DEF Records, Phases
<1>4. Save(i, "saveStopped", rec, "release", reply)
  BY DEF SaveStopped
<1>5. reply \in Replies /\ <<inv[i].kind, reply>> # <<"start", "started">> /\ "release" \in PCs
  BY DEF Replies, PCs
<1> HIDE DEF rec, reply
<1>6. TasksFit(rec) /\ StoppedFits(rec) /\ (Recorded => rec.task # NoTask)
  BY <1>1, <1>2, <1>3 DEF TasksFit, StoppedFits, Untouched, RecordFresh, Recorded
<1> QED
  BY <1>3, <1>4, <1>5, <1>6, SaveStep

\* The record with the tasks found is saved, and the loop begins.
LEMMA SaveFoundInv ==
  ASSUME BrokerInv, NEW i \in Invocations, SaveFound(i)
  PROVE  BrokerInv'
<1> DEFINE rec == inv[i].rec
           next == AfterTasks(inv[i])
<1>1. inv[i].pc = "saveFound" /\ Holds(i)
  BY DEF SaveFound, Save, Holds
<1>2. /\ inv[i] \in Slots /\ rec \in Records /\ RecordFresh(i) /\ TasksFit(journal)
      /\ LoopSound(inv[i]) /\ journal.phase = "stopping" /\ rec.task = journal.task
  BY <1>1, AtSave DEF PhaseAt, InLoop, Knows, RecordFresh
<1>3. journal.reconciling \subseteq rec.reconciling
  BY <1>1, AtSave DEF Knows, InLoop, KnownKept
<1>4. Save(i, "saveFound", rec, next, "none")
  BY DEF SaveFound
<1>5. /\ next \in {"stopTask", "cleanup", "saveSchedule"}
      /\ next = "cleanup" => \A t \in Tasks : ~Executing(t)
  BY <1>2, LoopEnd DEF AfterTasks, RecordFresh
<1> HIDE DEF next
<1>6. TasksFit(rec) /\ StoppedFits(rec) /\ (Recorded => rec.task # NoTask)
  BY <1>2, <1>3 DEF TasksFit, StoppedFits, Untouched, RecordFresh, Recorded
<1>7. journal.phase # "stopped" /\ rec.phase \in {"None", "stopping"}
  BY <1>2 DEF RecordFresh
<1>8. next \in PCs /\ "none" \in Replies /\ PhaseAt(next, rec.phase)
  BY <1>2, <1>5 DEF PhaseAt, InLoop, PCs, Replies, RecordFresh
<1>9. ASSUME inv' = [inv EXCEPT ![i] = [inv[i] EXCEPT !.pc = next, !.rec = rec]], journal' = rec
      PROVE  Knows(i)'
  <2>1. /\ inv'[i].pc = next /\ inv'[i].rec = rec /\ inv'[i].age = inv[i].age
        /\ inv'[i].todo = inv[i].todo /\ inv'[i].alive = inv[i].alive
        /\ inv'[i].missing = inv[i].missing
    BY <1>2, <1>9, InvType DEF BrokerInv, Slots
  <2>2. UNCHANGED <<ecs, secret>>
    BY DEF SaveFound, Save
  <2>3. LoopSound(inv[i])'
    BY <1>2, <1>9, <2>1, <2>2 DEF LoopSound, Executing, RecordFresh
  <2>4. KnownKept(i)'
    BY <1>9, <2>1 DEF KnownKept
  <2> QED
    BY <1>5, <2>1, <2>2, <2>3, <2>4 DEF Knows, Executing
<1> QED
  BY <1>1, <1>2, <1>4, <1>5, <1>6, <1>7, <1>8, <1>9, SaveStep

LEMMA SaveAcceptedInv ==
  ASSUME BrokerInv, NEW i \in Invocations, SaveAccepted(i)
  PROVE  BrokerInv'
<1>1. inv[i].pc = "saveAccepted" /\ Holds(i)
  BY DEF SaveAccepted, Save, Holds
<1>2. PICK t \in Tasks : Save(i, "saveAccepted", [inv[i].rec EXCEPT !.accepted = @ \cup {t}],
                              "status", "none")
  BY DEF SaveAccepted
<1> DEFINE rec == [inv[i].rec EXCEPT !.accepted = @ \cup {t}]
<1>3. /\ inv[i] \in Slots /\ inv[i].rec \in Records /\ RecordFresh(i) /\ TasksFit(journal)
      /\ LoopSound(inv[i]) /\ journal.phase = "stopping"
  BY <1>1, AtSave DEF PhaseAt, InLoop, Knows
<1>4. /\ rec \in Records /\ rec.phase = inv[i].rec.phase /\ rec.uncertain = inv[i].rec.uncertain
      /\ rec.rejected = inv[i].rec.rejected /\ rec.task = inv[i].rec.task
      /\ rec.reconciling = inv[i].rec.reconciling
  BY <1>3 DEF Records
<1>5. Save(i, "saveAccepted", rec, "status", "none")
  BY <1>2
<1> HIDE DEF rec
<1>6. TasksFit(rec) /\ StoppedFits(rec) /\ (Recorded => rec.task # NoTask)
  BY <1>1, <1>3, <1>4 DEF TasksFit, StoppedFits, Untouched, RecordFresh, Recorded
<1>7. journal.phase # "stopped" /\ rec.phase \in {"None", "stopping"}
  BY <1>3, <1>4 DEF RecordFresh
<1>8. "status" \in PCs /\ "none" \in Replies /\ PhaseAt("status", rec.phase)
  BY <1>3, <1>4 DEF PhaseAt, InLoop, PCs, Replies, RecordFresh
<1>9. ASSUME inv' = [inv EXCEPT ![i] = [inv[i] EXCEPT !.pc = "status", !.rec = rec]], journal' = rec
      PROVE  Knows(i)'
  <2>1. /\ inv'[i].pc = "status" /\ inv'[i].rec = rec /\ inv'[i].age = inv[i].age
        /\ inv'[i].todo = inv[i].todo /\ inv'[i].alive = inv[i].alive
        /\ inv'[i].missing = inv[i].missing
    BY <1>3, <1>9, InvType DEF BrokerInv, Slots
  <2>2. UNCHANGED <<ecs, secret>>
    BY <1>2 DEF Save
  <2>3. LoopSound(inv[i])'
    BY <1>1, <1>3, <1>4, <1>9, <2>1, <2>2 DEF LoopSound, Executing, RecordFresh
  <2>4. KnownKept(i)'
    BY <1>9, <2>1 DEF KnownKept
  <2> QED
    BY <2>1, <2>3, <2>4 DEF Knows, InLoop
<1> QED
  BY <1>1, <1>4, <1>5, <1>6, <1>7, <1>8, <1>9, SaveStep

-----------------------------------------------------------------------------
(* Steps that change the secret or ECS                                      *)

\* Prepare and cleanup: only the secret and the invocation's own slot change.
LEMMA SecretStep ==
  ASSUME BrokerInv, NEW i \in Invocations, inv[i].pc \in {"prepare", "cleanup"},
         NEW v \in Slots, Continue(i, v), v.pc # "savePreparing", Sound(i)',
         UNCHANGED <<journal, lock, ecs, authority, answered, starts>>,
         Fault \/ NoFault, secret' \in BOOLEAN
  PROVE  BrokerInv'
<1>1. Holds(i) /\ journal.phase \in {"preparing", "stopping"}
  BY AtSave DEF Holds, PhaseAt, InLoop
<1>2. /\ inv' \in [Invocations -> Slots] /\ inv'[i] = v
      /\ \A k \in Invocations : k # i => inv'[k] = inv[k]
  BY InvType DEF BrokerInv, Continue
<1>3. TypeOK'
  BY <1>2, FaultsType DEF BrokerInv, TypeOK, Slots
<1>4. TasksFit(journal)' /\ StoppedFits(journal)'
  BY <1>1 DEF BrokerInv, Stored, TasksFit, StoppedFits, Untouched, Executing, Settled
<1>5. (Closed => Closed') /\ (Recorded => Recorded')
  BY <1>2 DEF Closed, Recorded, Untouched
<1>6. Keeps(i)
  BY <1>3, <1>4, <1>5 DEF Keeps
<1> QED
  BY <1>1, <1>2, <1>6, KeepsInv

\* An ambiguous reply says nothing.
LEMMA AmbiguousSound ==
  ASSUME BrokerInv, NEW i \in Invocations, Ambiguous(i)
  PROVE  /\ Continue(i, Returned(i, "ambiguous")) /\ Returned(i, "ambiguous") \in Slots
         /\ Returned(i, "ambiguous").pc = "release"
         /\ inv'[i] = Returned(i, "ambiguous")
         /\ Sound(i)'
<1> DEFINE v == Returned(i, "ambiguous")
<1>1. Continue(i, v)
  BY DEF Ambiguous, Return, Returned
<1>2. v \in Slots /\ v.pc = "release" /\ v.reply = "ambiguous"
  BY ReturnedType DEF BrokerInv, Replies
<1> HIDE DEF v
<1>3. inv'[i] = v
  BY <1>1, InvType DEF Continue, BrokerInv
<1>4. Sound(i)'
  BY <1>2, <1>3 DEF Sound, Holds, ReplySound, Closing
<1> QED
  BY <1>1, <1>2, <1>3, <1>4 DEF v

LEMMA PrepareInv ==
  ASSUME BrokerInv, NEW i \in Invocations, Prepare(i)
  PROVE  BrokerInv'
<1> DEFINE v == [inv[i] EXCEPT !.pc = "saveRegistered"]
<1>1. inv[i].pc = "prepare" /\ Holds(i)
  BY DEF Prepare, Holds
<1>2. inv[i] \in Slots /\ RecordFresh(i) /\ journal.phase = "preparing" /\ Sound(i)
  BY <1>1, AtSave DEF PhaseAt
<1>3. UNCHANGED <<journal, lock, ecs, authority, answered, starts>> /\ secret' \in BOOLEAN
  BY DEF Prepare, BrokerInv, TypeOK
<1>4. CASE Continue(i, v) /\ NoFault
  <2>1. v \in Slots /\ v.pc = "saveRegistered" /\ v.age = inv[i].age /\ v.rec = inv[i].rec
    BY <1>2 DEF Slots, PCs
  <2>2. inv'[i] = v
    BY <1>4, InvType DEF BrokerInv, Continue
  <2> HIDE DEF v
  <2>3. LockHeld(i)' /\ PhaseAt(inv[i].pc, journal.phase)' /\ RecordFresh(i)' /\ Knows(i)'
    BY <1>1, <1>2, <1>3, <2>1, <2>2 DEF Sound, LockHeld, PhaseAt, RecordFresh, Knows, InLoop
  <2>4. Sound(i)'
    BY <2>1, <2>2, <2>3 DEF Sound, ReplySound
  <2> QED
    BY <1>1, <1>3, <1>4, <2>1, <2>4, SecretStep
<1>5. CASE Ambiguous(i) /\ Fault
  BY <1>1, <1>3, <1>5, AmbiguousSound, SecretStep
<1> QED
  BY <1>4, <1>5 DEF Prepare

LEMMA CleanupInv ==
  ASSUME BrokerInv, NEW i \in Invocations, Cleanup(i)
  PROVE  BrokerInv'
<1> DEFINE v == [inv[i] EXCEPT !.pc = "saveStopped"]
<1>1. inv[i].pc = "cleanup" /\ Holds(i)
  BY DEF Cleanup, Holds
<1>2. /\ inv[i] \in Slots /\ RecordFresh(i) /\ journal.phase = "stopping" /\ Sound(i)
      /\ \A t \in Tasks : ~Executing(t)
  BY <1>1, AtSave DEF PhaseAt, Knows
<1>3. UNCHANGED <<journal, lock, ecs, authority, answered, starts>> /\ secret' \in BOOLEAN
  BY DEF Cleanup, BrokerInv, TypeOK
<1>4. CASE Continue(i, v) /\ NoFault /\ ~secret'
  <2>1. v \in Slots /\ v.pc = "saveStopped" /\ v.age = inv[i].age /\ v.rec = inv[i].rec
    BY <1>2 DEF Slots, PCs
  <2>2. inv'[i] = v
    BY <1>4, InvType DEF BrokerInv, Continue
  <2> HIDE DEF v
  <2>3. LockHeld(i)' /\ PhaseAt(inv[i].pc, journal.phase)' /\ RecordFresh(i)'
    BY <1>1, <1>2, <1>3, <2>1, <2>2 DEF Sound, LockHeld, PhaseAt, RecordFresh, InLoop
  <2>4. Knows(i)'
    BY <1>2, <1>3, <1>4, <2>1, <2>2 DEF Knows, InLoop, Executing
  <2>5. Sound(i)'
    BY <2>1, <2>2, <2>3, <2>4 DEF Sound, ReplySound
  <2> QED
    BY <1>1, <1>3, <1>4, <2>1, <2>5, SecretStep
<1>5. CASE Ambiguous(i) /\ Fault
  BY <1>1, <1>3, <1>5, AmbiguousSound, SecretStep
<1> QED
  BY <1>4, <1>5 DEF Cleanup

\* RunTask: the one step that creates a task, behind a marker and with none there.
LEMMA LaunchInv ==
  ASSUME BrokerInv, NEW i \in Invocations, Launch(i)
  PROVE  BrokerInv'
<1>1. inv[i].pc = "launch" /\ Holds(i)
  BY DEF Launch, Holds
<1>2. /\ inv[i] \in Slots /\ RecordFresh(i) /\ journal.phase = "launching" /\ Sound(i)
      /\ Untouched /\ journal.uncertain =< inv[i].age /\ TasksFit(journal) /\ journal \in Records
  BY <1>1, AtSave DEF PhaseAt, Knows
<1>3. UNCHANGED <<journal, lock, secret, authority, answered, starts>> /\ (Fault \/ NoFault)
  BY DEF Launch
<1>4. ~Closed
  BY <1>2 DEF Closed
<1>5. ASSUME NEW t \in Tasks, ecs' = Created(t), NEW v \in Slots, Continue(i, v), Sound(i)'
      PROVE  BrokerInv'
  <2>1. /\ inv' \in [Invocations -> Slots] /\ inv'[i] = v
        /\ \A k \in Invocations : k # i => inv'[k] = inv[k]
    BY <1>5, InvType DEF BrokerInv, Continue
  <2>2. ecs' \in [Tasks -> [state : {"None", "Live", "Stopping", "Stopped"}, age : 0..ListDelay]]
    BY <1>5, Constants DEF BrokerInv, TypeOK, Created
  <2>3. TypeOK'
    BY <1>3, <2>1, <2>2, FaultsType DEF BrokerInv, TypeOK, Slots
  <2>4. /\ ecs'[t].state = "Live" /\ ecs'[t].age = 0
        /\ \A u \in Tasks : u # t => ecs'[u] = ecs[u] /\ ecs'[u].state = "None"
    BY <1>2, <1>5 DEF BrokerInv, TypeOK, Created, Untouched
  <2>5. journal.uncertain =< LambdaHardTimeout
    BY <1>2, Constants DEF Slots, Records
  <2>6. TasksFit(journal)'
    BY <1>2, <1>3, <2>4, <2>5, Constants DEF TasksFit, Untouched, Settled, Records
  <2>7. StoppedFits(journal)' /\ (Recorded => Recorded')
    BY <1>2, <1>3 DEF StoppedFits, Recorded
  <2>8. Keeps(i)
    BY <1>4, <1>5, <2>3, <2>6, <2>7 DEF Keeps
  <2> QED
    BY <1>1, <1>3, <2>1, <2>8, KeepsInv
<1>6. ASSUME NEW t \in Tasks, ecs' = Created(t),
             Continue(i, [inv[i] EXCEPT !.pc = "saveRunning", !.rec.task = t])
      PROVE  BrokerInv'
  <2> DEFINE v == [inv[i] EXCEPT !.pc = "saveRunning", !.rec.task = t]
  <2>1. /\ v \in Slots /\ v.pc = "saveRunning" /\ v.age = inv[i].age
        /\ v.rec = [inv[i].rec EXCEPT !.task = t] /\ inv[i].rec \in Records
    BY <1>2 DEF Slots, PCs, Records
  <2>2. inv'[i] = v /\ Continue(i, v)
    BY <1>6, InvType DEF BrokerInv, Continue
  <2> HIDE DEF v
  <2>3. v.rec.task = t /\ t # NoTask
    BY <2>1, Constants DEF Records
  <2>4. ecs'[t].state # "None"
    BY <1>6 DEF BrokerInv, TypeOK, Created
  <2>5. RecordFresh(i)'
    BY <1>1, <1>2, <1>3, <2>1, <2>2 DEF RecordFresh, Records
  <2>6. LockHeld(i)' /\ PhaseAt(inv[i].pc, journal.phase)'
    BY <1>1, <1>2, <1>3, <2>1, <2>2 DEF Sound, LockHeld, PhaseAt, InLoop
  <2>7. Knows(i)'
    BY <2>1, <2>2, <2>3, <2>4 DEF Knows, InLoop
  <2>8. Sound(i)'
    BY <2>1, <2>2, <2>5, <2>6, <2>7 DEF Sound, ReplySound
  <2> QED
    BY <1>5, <1>6, <2>1, <2>2, <2>8
<1>7. ASSUME NEW t \in Tasks, ecs' = Created(t), Ambiguous(i)
      PROVE  BrokerInv'
  BY <1>5, <1>7, AmbiguousSound
<1>8. CASE Continue(i, [inv[i] EXCEPT !.pc = "saveRejecting"]) /\ UNCHANGED ecs
  <2> DEFINE v == [inv[i] EXCEPT !.pc = "saveRejecting"]
  <2>1. v \in Slots /\ v.pc = "saveRejecting" /\ v.age = inv[i].age /\ v.rec = inv[i].rec
    BY <1>2 DEF Slots, PCs
  <2>2. inv'[i] = v /\ Continue(i, v)
    BY <1>8, InvType DEF BrokerInv, Continue
  <2> HIDE DEF v
  <2>3. PhaseAt(v.pc, journal.phase)
    BY <1>2, <2>1 DEF PhaseAt, InLoop
  <2>4. RecordFresh(i)' /\ Knows(i)'
    BY <1>1, <1>2, <1>3, <1>8, <2>1, <2>2 DEF RecordFresh, Knows, InLoop, Untouched
  <2> QED
    BY <1>1, <1>3, <1>8, <2>1, <2>2, <2>3, <2>4, StayStep
<1>9. CASE Ambiguous(i) /\ UNCHANGED ecs
  BY <1>3, <1>9, AmbiguousStep
<1> QED
  BY <1>6, <1>7, <1>8, <1>9 DEF Launch

LEMMA StopTaskInv ==
  ASSUME BrokerInv, NEW i \in Invocations, StopTask(i)
  PROVE  BrokerInv'
<1>1. inv[i].pc = "stopTask" /\ Holds(i)
  BY DEF StopTask, Holds
<1>2. /\ inv[i] \in Slots /\ RecordFresh(i) /\ journal.phase = "stopping" /\ Sound(i)
      /\ LoopSound(inv[i]) /\ KnownKept(i) /\ TasksFit(journal) /\ journal \in Records
      /\ inv[i].rec.reconciling = journal.reconciling
  BY <1>1, AtSave DEF PhaseAt, Knows, InLoop, RecordFresh
<1>3. UNCHANGED <<journal, lock, secret, authority, answered, starts>> /\ (Fault \/ NoFault)
  BY DEF StopTask
<1>4. PICK t \in inv[i].todo :
        /\ t \in Tasks
        /\ \/ UNCHANGED ecs
           \/ ecs[t].state = "Live" /\ ecs' = [ecs EXCEPT ![t].state = "Stopping"]
        /\ \/ \E next \in {"status", "saveAccepted"} :
                Continue(i, [inv[i] EXCEPT !.pc = next])
           \/ Ambiguous(i)
  BY DEF StopTask, FirstTodo
<1>5. /\ \A u \in Tasks : Executing(u)' <=> Executing(u)
      /\ \A u \in Tasks : ecs'[u].age = ecs[u].age /\ (ecs'[u].state = "None" <=> ecs[u].state = "None")
      /\ \A u \in Tasks : ecs'[u].state = "Stopping" => ecs[u].state = "Stopping" \/ u = t
      /\ ecs' \in [Tasks -> [state : {"None", "Live", "Stopping", "Stopped"}, age : 0..ListDelay]]
  <2>1. ecs \in [Tasks -> [state : {"None", "Live", "Stopping", "Stopped"}, age : 0..ListDelay]]
    BY DEF BrokerInv, TypeOK
  <2>2. CASE UNCHANGED ecs
    BY <2>1, <2>2 DEF Executing
  <2>3. CASE ecs[t].state = "Live" /\ ecs' = [ecs EXCEPT ![t].state = "Stopping"]
    BY <1>4, <2>1, <2>3 DEF Executing
  <2> QED
    BY <1>4, <2>2, <2>3
<1>6. TasksFit(journal)' /\ StoppedFits(journal)'
  <2>1. t \in journal.reconciling
    BY <1>2, <1>4 DEF LoopSound
  <2>2. journal.task # NoTask => journal.task \in Tasks
    BY <1>2 DEF Records
  <2> QED
    BY <1>2, <1>3, <1>5, <2>1, <2>2 DEF TasksFit, StoppedFits, Untouched, Settled
<1>7. ASSUME NEW v \in Slots, Continue(i, v), v.pc # "savePreparing", Sound(i)'
      PROVE  BrokerInv'
  <2>1. /\ inv' \in [Invocations -> Slots] /\ inv'[i] = v
        /\ \A k \in Invocations : k # i => inv'[k] = inv[k]
    BY <1>7, InvType DEF BrokerInv, Continue
  <2>2. TypeOK'
    BY <1>3, <1>5, <2>1, FaultsType DEF BrokerInv, TypeOK, Slots
  <2>3. (Closed => Closed') /\ (Recorded => Recorded')
    BY <1>3, <1>5, <1>7, <2>1 DEF Closed, Recorded, Untouched
  <2>4. Keeps(i)
    BY <1>6, <1>7, <2>2, <2>3 DEF Keeps
  <2> QED
    BY <1>1, <1>3, <2>1, <2>4, KeepsInv
<1>8. ASSUME NEW next \in {"status", "saveAccepted"}, Continue(i, [inv[i] EXCEPT !.pc = next])
      PROVE  BrokerInv'
  <2> DEFINE v == [inv[i] EXCEPT !.pc = next]
  <2>1. /\ v \in Slots /\ v.pc = next /\ v.age = inv[i].age /\ v.rec = inv[i].rec
        /\ v.todo = inv[i].todo /\ v.alive = inv[i].alive /\ v.missing = inv[i].missing
    BY <1>2, <1>8 DEF Slots, PCs
  <2>2. inv'[i] = v /\ Continue(i, v)
    BY <1>8, InvType DEF BrokerInv, Continue
  <2> HIDE DEF v
  <2>3. LockHeld(i)' /\ PhaseAt(inv[i].pc, journal.phase)' /\ RecordFresh(i)'
    BY <1>1, <1>2, <1>3, <1>8, <2>1, <2>2 DEF Sound, LockHeld, PhaseAt, RecordFresh, InLoop
  <2>4. LoopSound(inv[i])' /\ KnownKept(i)'
    BY <1>2, <1>3, <1>5, <2>1, <2>2 DEF LoopSound, KnownKept
  <2>5. Knows(i)'
    BY <1>8, <2>1, <2>2, <2>4 DEF Knows, InLoop
  <2>6. Sound(i)'
    BY <1>8, <2>1, <2>2, <2>3, <2>5 DEF Sound, ReplySound
  <2> QED
    BY <1>7, <1>8, <2>1, <2>2, <2>6
<1>9. CASE Ambiguous(i)
  BY <1>7, <1>9, AmbiguousSound
<1> QED
  BY <1>4, <1>8, <1>9

-----------------------------------------------------------------------------
(* The lock                                                                 *)

\* A free lock has no holder, so that taking it disturbs nobody.
LEMMA FreeLock ==
  ASSUME BrokerInv, LockFree
  PROVE  \A k \in Invocations : ~Holds(k)
  BY HolderOwns, Constants DEF LockFree

\* Only the lock and the invocation's own slot change.
LEMMA LockStep ==
  ASSUME BrokerInv, NEW i \in Invocations, NEW v \in Slots, Continue(i, v),
         v.pc # "savePreparing", Sound(i)',
         UNCHANGED <<journal, ecs, secret, authority, answered, starts>>, Fault \/ NoFault,
         lock' \in [owner : Invocations \cup {"none", "orphan"}, left : 0..LockTerm],
         \A k \in Invocations : k # i /\ Holds(k) => lock' = lock
  PROVE  BrokerInv'
<1>1. /\ inv' \in [Invocations -> Slots] /\ inv'[i] = v
      /\ \A k \in Invocations : k # i => inv'[k] = inv[k]
  BY InvType DEF BrokerInv, Continue
<1>2. TypeOK'
  BY <1>1, FaultsType DEF BrokerInv, TypeOK, Slots
<1>3. TasksFit(journal)' /\ StoppedFits(journal)'
  BY DEF BrokerInv, Stored, TasksFit, StoppedFits, Untouched, Executing, Settled
<1>4. (Closed => Closed') /\ (Recorded => Recorded')
  BY <1>1 DEF Closed, Recorded, Untouched
<1>5. Keeps(i)
  BY <1>2, <1>3, <1>4 DEF Keeps
<1> QED
  BY <1>1, <1>5, KeepsInv

LEMMA AcquireInv ==
  ASSUME BrokerInv, NEW i \in Invocations, Acquire(i)
  PROVE  BrokerInv'
<1>1. /\ inv[i].pc = "acquire" /\ inv[i] \in Slots /\ journal \in Records
      /\ TasksFit(journal) /\ (Fault \/ NoFault)
      /\ UNCHANGED <<journal, ecs, secret, authority, answered, starts>>
  BY InvType DEF Acquire, BrokerInv, TypeOK, Stored
<1>2. CASE UNCHANGED lock /\ Ambiguous(i)
  BY <1>1, <1>2, AmbiguousStep
<1>3. ASSUME LockFree, NEW o \in Invocations \cup {"none", "orphan"},
             lock' = [owner |-> o, left |-> LockTerm]
      PROVE  /\ lock' \in [owner : Invocations \cup {"none", "orphan"}, left : 0..LockTerm]
             /\ \A k \in Invocations : ~Holds(k)
  BY <1>3, FreeLock, Constants
<1>4. CASE LockFree /\ lock' = [owner |-> "orphan", left |-> LockTerm] /\ Ambiguous(i)
  BY <1>1, <1>3, <1>4, AmbiguousSound, LockStep
<1>5. CASE /\ LockFree /\ lock' = [owner |-> i, left |-> LockTerm]
           /\ IF inv[i].kind = "start"
                THEN StartFrom(i, journal)
                ELSE Continue(i, [inv[i] EXCEPT !.pc = "authorizeStop", !.rec = journal])
  <2>1. ASSUME NEW reply \in Replies, Return(i, reply),
               inv[i].own /\ <<inv[i].kind, reply>> \in Closing => Closed,
               <<inv[i].kind, reply>> = <<"start", "started">> => Recorded
        PROVE  BrokerInv'
    <3> DEFINE v == Returned(i, reply)
    <3>1. v \in Slots /\ v.pc = "release" /\ v.kind = inv[i].kind /\ v.own = inv[i].own /\ v.reply = reply
      BY <2>1, ReturnedType DEF BrokerInv
    <3>2. Continue(i, v)
      BY <2>1 DEF Return, Returned
    <3> HIDE DEF v
    <3>3. inv'[i] = v /\ \A k \in Invocations : k # i => inv'[k] = inv[k]
      BY <3>2, InvType DEF Continue, BrokerInv
    <3>4. Closed => Closed'
      BY <1>1, <3>1, <3>3 DEF Closed, Untouched
    <3>5. Sound(i)'
      BY <1>1, <2>1, <3>1, <3>3, <3>4 DEF Sound, Holds, ReplySound, Recorded
    <3> QED
      BY <1>1, <1>3, <1>5, <3>1, <3>2, <3>5, LockStep
  <2>2. ASSUME NEW next \in {"find", "authorize", "authorizeStop"},
               PhaseAt(next, journal.phase), next = "authorizeStop" => inv[i].kind = "stop",
               Continue(i, [inv[i] EXCEPT !.pc = next, !.rec = journal])
        PROVE  BrokerInv'
    <3> DEFINE v == [inv[i] EXCEPT !.pc = next, !.rec = journal]
    <3>1. /\ v \in Slots /\ v.pc = next /\ v.rec = journal /\ v.age = inv[i].age
          /\ v.kind = inv[i].kind /\ v.age \in 0..LambdaHardTimeout
      BY <1>1, <2>2 DEF Slots, PCs
    <3>2. inv'[i] = v /\ Continue(i, v)
      BY <2>2, InvType DEF BrokerInv, Continue
    <3> HIDE DEF v
    <3>3. LockHeld(i)'
      BY <1>5, <3>1, <3>2, Constants DEF LockHeld
    <3>4. PhaseAt(inv[i].pc, journal.phase)' /\ RecordFresh(i)' /\ Knows(i)'
      BY <1>1, <2>2, <3>1, <3>2 DEF PhaseAt, RecordFresh, Knows, InLoop
    <3>5. Sound(i)'
      BY <2>2, <3>1, <3>2, <3>3, <3>4 DEF Sound, ReplySound
    <3> QED
      BY <1>1, <1>3, <1>5, <2>2, <3>1, <3>2, <3>5, LockStep
  <2>3. CASE inv[i].kind = "start" /\ StartFrom(i, journal)
    <3>1. ASSUME Deny(i, journal), ~inv[i].own \/ journal.phase \in {"stopped", "stopping"}
          PROVE  BrokerInv'
      BY <2>1, <3>1 DEF Deny, Replies, Closing, Closed
    <3>2. CASE journal.phase = "running" /\ Return(i, "started")
      BY <1>1, <2>1, <3>2 DEF Replies, Closing, TasksFit, Recorded
    <3>3. CASE journal.phase = "stopped" /\ Return(i, "rejected")
      BY <2>1, <3>3 DEF Replies, Closing, Closed
    <3>4. CASE journal.phase = "launching" /\ Continue(i, [inv[i] EXCEPT !.pc = "find", !.rec = journal])
      BY <2>2, <3>4 DEF PhaseAt, InLoop
    <3>5. CASE journal.phase \in {"None", "preparing", "registered"}
               /\ Continue(i, [inv[i] EXCEPT !.pc = "authorize", !.rec = journal])
      BY <2>2, <3>5 DEF PhaseAt, InLoop
    <3>6. journal.phase \in Phases
      BY <1>1 DEF Records
    <3> QED
      BY <2>3, <3>1, <3>2, <3>3, <3>4, <3>5, <3>6 DEF StartFrom, Phases
  <2>4. CASE inv[i].kind = "stop" /\ Continue(i, [inv[i] EXCEPT !.pc = "authorizeStop", !.rec = journal])
    BY <2>2, <2>4 DEF PhaseAt, InLoop
  <2> QED
    BY <1>1, <1>5, <2>3, <2>4 DEF Slots
<1> QED
  BY <1>2, <1>4, <1>5 DEF Acquire

LEMMA ReleaseInv ==
  ASSUME BrokerInv, NEW i \in Invocations, Release(i)
  PROVE  BrokerInv'
<1>1. /\ inv[i].pc = "release" /\ inv[i] \in Slots /\ Sound(i) /\ (Fault \/ NoFault)
      /\ UNCHANGED <<journal, ecs, secret, authority, starts>> /\ Continue(i, Idle)
  BY InvType DEF Release, BrokerInv
<1>2. /\ inv' \in [Invocations -> Slots] /\ inv'[i] = Idle
      /\ \A k \in Invocations : k # i => inv'[k] = inv[k]
  BY <1>1, IdleType, InvType DEF BrokerInv, Continue
<1>3. /\ lock' \in [owner : Invocations \cup {"none", "orphan"}, left : 0..LockTerm]
      /\ lock.owner = i \/ lock' = lock
  <2>1. 0 \in 0..LockTerm
    BY Constants
  <2> QED
    BY <2>1 DEF Release, BrokerInv, TypeOK
<1>4. \A k \in Invocations : k # i /\ Holds(k) => lock' = lock
  BY <1>3, HolderOwns
<1>5. TypeOK'
  BY <1>1, <1>2, <1>3, FaultsType DEF Release, BrokerInv, TypeOK, Slots
<1>6. TasksFit(journal)' /\ StoppedFits(journal)'
  BY <1>1 DEF BrokerInv, Stored, TasksFit, StoppedFits, Untouched, Executing, Settled
<1>7. (Closed => Closed') /\ (Recorded => Recorded')
  BY <1>1, <1>2 DEF Closed, Recorded, Untouched, Idle
<1>8. Sound(i)'
  BY <1>2 DEF Sound, Holds, ReplySound, Idle
<1>9. \A k \in Invocations : k # i => Sound(k)'
  BY <1>1, <1>2, <1>4, <1>7, OthersSound
<1>10. AnswersStored'
  <2>1. \A a \in answered' : a \in answered \/ (inv[i].own /\ a = <<inv[i].kind, inv[i].reply>>)
    BY DEF Release
  <2>2. \A a \in answered' \cap Closing : Closed
    BY <1>1, <2>1 DEF BrokerInv, Stored, AnswersStored, Sound, ReplySound
  <2>3. <<"start", "started">> \in answered' => Recorded
    BY <1>1, <2>1 DEF BrokerInv, Stored, AnswersStored, Sound, ReplySound
  <2> QED
    BY <1>7, <2>2, <2>3 DEF AnswersStored
<1> QED
  BY <1>5, <1>6, <1>8, <1>9, <1>10 DEF BrokerInv, Stored

LEMMA KillInv ==
  ASSUME BrokerInv, NEW i \in Invocations, Kill(i)
  PROVE  BrokerInv'
<1>1. /\ Continue(i, Idle) /\ Fault
      /\ UNCHANGED <<journal, ecs, secret, authority, answered, starts>>
  BY DEF Kill
<1>2. /\ lock' \in [owner : Invocations \cup {"none", "orphan"}, left : 0..LockTerm]
      /\ \A k \in Invocations : k # i /\ Holds(k) => lock' = lock
  BY HolderOwns DEF Kill, BrokerInv, TypeOK
<1>3. Idle \in Slots /\ inv'[i] = Idle /\ Idle.pc # "savePreparing"
  BY <1>1, IdleType, InvType DEF BrokerInv, Continue, Idle
<1>4. Sound(i)'
  BY <1>3 DEF Sound, Holds, ReplySound, Idle
<1> QED
  BY <1>1, <1>2, <1>3, <1>4, LockStep

LEMMA InvokeInv ==
  ASSUME BrokerInv, NEW i \in Invocations, NEW kind \in {"start", "stop"}, NEW own \in BOOLEAN,
         Invoke(i, kind, own)
  PROVE  BrokerInv'
<1> DEFINE v == [Idle EXCEPT !.pc = "acquire", !.kind = kind, !.own = own]
<1>1. v \in Slots /\ v.pc = "acquire"
  BY IdleType DEF Slots, PCs
<1>2. Continue(i, v) /\ UNCHANGED <<journal, lock, ecs, secret, authority, answered, faults>>
  BY DEF Invoke
<1> HIDE DEF v
<1>3. /\ inv' \in [Invocations -> Slots] /\ inv'[i] = v
      /\ \A k \in Invocations : k # i => inv'[k] = inv[k]
  BY <1>1, <1>2, InvType DEF BrokerInv, Continue
<1>4. starts' \in 0..MaxStarts
  BY Constants DEF Invoke, BrokerInv, TypeOK
<1>5. TypeOK'
  BY <1>2, <1>3, <1>4 DEF BrokerInv, TypeOK, Slots
<1>6. TasksFit(journal)' /\ StoppedFits(journal)'
  BY <1>2 DEF BrokerInv, Stored, TasksFit, StoppedFits, Untouched, Executing, Settled
<1>7. (Closed => Closed') /\ (Recorded => Recorded')
  BY <1>1, <1>2, <1>3 DEF Closed, Recorded, Untouched
<1>8. Sound(i)'
  BY <1>1, <1>3 DEF Sound, Holds, ReplySound
<1>9. Keeps(i)
  BY <1>5, <1>6, <1>7, <1>8 DEF Keeps
<1> QED
  BY <1>2, <1>3, <1>9, KeepsInv

-----------------------------------------------------------------------------
(* The surroundings                                                         *)

LEMMA TaskExitInv ==
  ASSUME BrokerInv, NEW t \in Tasks, TaskExit(t)
  PROVE  BrokerInv'
<1>1. UNCHANGED <<journal, lock, inv, secret, authority, answered, starts, faults>>
  BY DEF TaskExit
<1>2. /\ ecs' \in [Tasks -> [state : {"None", "Live", "Stopping", "Stopped"}, age : 0..ListDelay]]
      /\ \A u \in Tasks : ecs'[u].age = ecs[u].age /\ (ecs'[u].state = "None" <=> ecs[u].state = "None")
      /\ \A u \in Tasks : (Executing(u)' => Executing(u))
      /\ \A u \in Tasks : ecs'[u].state = "Stopping" => ecs[u].state = "Stopping"
  BY DEF TaskExit, BrokerInv, TypeOK, Executing
<1>3. TypeOK'
  BY <1>1, <1>2 DEF BrokerInv, TypeOK
<1>4. journal.task # NoTask => journal.task \in Tasks
  BY DEF BrokerInv, TypeOK, Records
<1>5. TasksFit(journal)' /\ StoppedFits(journal)'
  BY <1>1, <1>2, <1>4 DEF BrokerInv, Stored, TasksFit, StoppedFits, Untouched, Settled
<1>6. (Closed => Closed') /\ (Recorded => Recorded')
  BY <1>1, <1>2 DEF Closed, Recorded, Untouched
<1>7. AnswersStored'
  BY <1>1, <1>6 DEF BrokerInv, Stored, AnswersStored
<1>8. ASSUME NEW i \in Invocations PROVE Sound(i)'
  <2>1. Sound(i) /\ inv[i] \in Slots
    BY InvType DEF BrokerInv
  <2>2. ReplySound(i)'
    BY <1>1, <1>6, <2>1 DEF Sound, ReplySound
  <2>3. inv[i].rec.task # NoTask => inv[i].rec.task \in Tasks
    BY <2>1 DEF Slots, Records
  <2>4. Holds(i) => Knows(i)'
    BY <1>1, <1>2, <2>1, <2>3 DEF Sound, Knows, KnownKept, Untouched, LoopSound
  <2>5. Holds(i) => (LockHeld(i) /\ PhaseAt(inv[i].pc, journal.phase) /\ RecordFresh(i))'
    BY <1>1, <2>1 DEF Sound, LockHeld, PhaseAt, RecordFresh
  <2> QED
    BY <1>1, <2>2, <2>4, <2>5 DEF Sound, Holds
<1> QED
  BY <1>3, <1>5, <1>7, <1>8 DEF BrokerInv, Stored

LEMMA AuthorityInv ==
  ASSUME BrokerInv, AuthorityChanges
  PROVE  BrokerInv'
<1>1. /\ UNCHANGED <<journal, lock, inv, ecs, secret, answered, starts, faults>>
      /\ authority' \in {"neither", "stop"}
  BY DEF AuthorityChanges
<1>2. TypeOK'
  BY <1>1 DEF BrokerInv, TypeOK
<1>3. TasksFit(journal)' /\ StoppedFits(journal)'
  BY <1>1 DEF BrokerInv, Stored, TasksFit, StoppedFits, Untouched, Executing, Settled
<1>4. (Closed => Closed') /\ (Recorded => Recorded')
  BY <1>1 DEF Closed, Recorded, Untouched
<1>5. AnswersStored'
  BY <1>1, <1>4 DEF BrokerInv, Stored, AnswersStored
<1>6. ASSUME NEW i \in Invocations PROVE Sound(i)'
  <2>1. Sound(i)
    BY DEF BrokerInv
  <2>2. ReplySound(i)'
    BY <1>1, <1>4, <2>1 DEF Sound, ReplySound
  <2>3. Holds(i) => (LockHeld(i) /\ PhaseAt(inv[i].pc, journal.phase) /\ RecordFresh(i))'
    BY <1>1, <2>1 DEF Sound, LockHeld, PhaseAt, RecordFresh
  <2>4. Holds(i) => Knows(i)'
    BY <1>1, <2>1 DEF Sound, Knows, KnownKept, Untouched, LoopSound, Executing
  <2> QED
    BY <1>1, <2>2, <2>3, <2>4 DEF Sound, Holds
<1> QED
  BY <1>2, <1>3, <1>5, <1>6 DEF BrokerInv, Stored

\* Time: the lock runs down while its holder ages, and a record's uncertainty
\* grows no faster than the age of the task it is about.
LEMMA TickInv ==
  ASSUME BrokerInv, Tick
  PROVE  BrokerInv'
<1>1. /\ UNCHANGED <<secret, authority, answered, starts, faults>>
      /\ journal \in Records /\ journal' = Older(journal)
      /\ lock' = [lock EXCEPT !.left = Down(@)]
  BY DEF Tick, BrokerInv, TypeOK
<1>2. ASSUME NEW r \in Records
      PROVE  /\ Older(r) \in Records
             /\ Older(r).phase = r.phase /\ Older(r).rejected = r.rejected /\ Older(r).task = r.task
             /\ Older(r).reconciling = r.reconciling /\ Older(r).accepted = r.accepted
             /\ Older(r).uncertain = Up(r.uncertain, ConsistencySeconds)
             /\ Older(r).wait = Down(r.wait)
  <2>1. Up(r.uncertain, ConsistencySeconds) \in 0..ConsistencySeconds
    BY Constants DEF Records, Up
  <2>2. Down(r.wait) \in 0..StopCheckSeconds
    BY Constants DEF Records, Down
  <2> QED
    BY <2>1, <2>2 DEF Older, Records
<1>3. /\ journal'.phase = journal.phase /\ journal'.rejected = journal.rejected
      /\ journal'.task = journal.task /\ journal'.reconciling = journal.reconciling
      /\ journal'.uncertain \in Nat /\ journal'.uncertain =< journal.uncertain + 1
      /\ journal.uncertain \in Nat
  BY <1>1, <1>2, Constants DEF Records, Up
<1>4. ASSUME NEW t \in Tasks
      PROVE  /\ ecs'[t] \in [state : {"None", "Live", "Stopping", "Stopped"}, age : 0..ListDelay]
             /\ ecs'[t].state = ecs[t].state
             /\ ecs[t].state # "None" /\ ~Settled(t)' => ~Settled(t) /\ ecs'[t].age = ecs[t].age + 1
             /\ ecs[t].age \in Nat
  <2>1. ecs[t] \in [state : {"None", "Live", "Stopping", "Stopped"}, age : 0..ListDelay]
    BY DEF BrokerInv, TypeOK
  <2>2. Up(ecs[t].age, ListDelay) \in 0..ListDelay
    BY <2>1, Constants DEF Up
  <2>3. ecs'[t] = IF ecs[t].state = "None" THEN ecs[t]
                  ELSE [ecs[t] EXCEPT !.age = Up(ecs[t].age, ListDelay)]
    BY DEF Tick
  <2>4. /\ ecs'[t] \in [state : {"None", "Live", "Stopping", "Stopped"}, age : 0..ListDelay]
        /\ ecs'[t].state = ecs[t].state
        /\ ecs[t].state # "None" => ecs'[t].age = Up(ecs[t].age, ListDelay)
    BY <2>1, <2>2, <2>3
  <2> QED
    BY <2>1, <2>4, Constants DEF Up, Settled
<1>5. ASSUME NEW i \in Invocations
      PROVE  /\ inv'[i] \in Slots /\ inv'[i].pc = inv[i].pc /\ inv'[i].kind = inv[i].kind
             /\ inv'[i].own = inv[i].own /\ inv'[i].reply = inv[i].reply
             /\ inv'[i].todo = inv[i].todo /\ inv'[i].alive = inv[i].alive
             /\ inv'[i].missing = inv[i].missing
             /\ inv[i].pc # "idle" => inv'[i].age = inv[i].age + 1 /\ inv'[i].rec = Older(inv[i].rec)
             /\ inv[i].rec \in Records /\ inv[i].age \in Nat
  <2>1. inv[i] \in Slots /\ inv[i].rec \in Records
    BY InvType DEF BrokerInv, Slots
  <2>2. inv'[i] = IF Active(i) THEN [inv[i] EXCEPT !.age = inv[i].age + 1, !.rec = Older(inv[i].rec)]
                               ELSE inv[i]
    BY DEF Tick
  <2>3. inv[i].age \in Nat /\ (Active(i) => inv[i].age + 1 \in 0..LambdaHardTimeout)
    <3>1. inv[i].age \in 0..LambdaHardTimeout /\ (Active(i) => inv[i].age < LambdaHardTimeout)
      BY <2>1 DEF Slots, Tick
    <3> QED
      BY <3>1, Constants
  <2>4. Older(inv[i].rec) \in Records
    BY <1>2, <2>1
  <2> QED
    BY <2>1, <2>2, <2>3, <2>4 DEF Slots, Active
<1>6. TypeOK'
  <2>1. journal' \in Records
    BY <1>1, <1>2
  <2>2. lock' \in [owner : Invocations \cup {"none", "orphan"}, left : 0..LockTerm]
    <3>1. Down(lock.left) \in 0..LockTerm
      BY Constants DEF BrokerInv, TypeOK, Down
    <3> QED
      BY <1>1, <3>1 DEF BrokerInv, TypeOK
  <2>3. inv' \in [Invocations -> Slots]
    BY <1>5 DEF Tick
  <2>4. ecs' \in [Tasks -> [state : {"None", "Live", "Stopping", "Stopped"}, age : 0..ListDelay]]
    BY <1>4 DEF Tick
  <2> QED
    BY <1>1, <2>1, <2>2, <2>3, <2>4 DEF BrokerInv, TypeOK, Slots
<1>7. /\ \A t \in Tasks : Executing(t)' <=> Executing(t)
      /\ Untouched' <=> Untouched
      /\ journal.task # NoTask => journal.task \in Tasks
  BY <1>1, <1>4 DEF Executing, Untouched, Records
<1>8. TasksFit(journal)' /\ StoppedFits(journal)'
  <2>1. \A t \in Tasks : ecs'[t].state # "None" /\ ~Settled(t)' =>
          journal'.uncertain =< LambdaHardTimeout + ecs'[t].age
    BY <1>3, <1>4, Constants DEF BrokerInv, Stored, TasksFit
  <2>2. TasksFit(journal)'
    BY <1>3, <1>4, <1>7, <2>1 DEF BrokerInv, Stored, TasksFit
  <2> QED
    BY <1>1, <1>3, <1>7, <2>2 DEF BrokerInv, Stored, StoppedFits
<1>9. (Closed => Closed') /\ (Recorded => Recorded')
  BY <1>1, <1>3, <1>5, <1>7 DEF Closed, Recorded
<1>10. AnswersStored'
  BY <1>1, <1>9 DEF BrokerInv, Stored, AnswersStored
<1>11. ASSUME NEW i \in Invocations PROVE Sound(i)'
  <2>1. Sound(i) /\ ReplySound(i)'
    BY <1>5, <1>9, <1>11 DEF BrokerInv, Sound, ReplySound
  <2>2. ASSUME Holds(i) PROVE LockHeld(i)'
    <3>1. lock'.owner = lock.owner /\ lock'.left = lock.left - 1 /\ lock.left \in Nat /\ lock.left > 0
      BY <1>1, <2>2, HolderOwns, Constants DEF BrokerInv, TypeOK, Down
    <3> QED
      BY <1>5, <2>1, <2>2, <3>1, Constants DEF Sound, LockHeld, Holds
  <2>3. ASSUME Holds(i) PROVE PhaseAt(inv[i].pc, journal.phase)' /\ RecordFresh(i)'
    <3>1. inv'[i].rec = Older(inv[i].rec) /\ inv[i].rec \in Records
      BY <1>5, <2>3 DEF Holds
    <3> QED
      BY <1>1, <1>2, <1>3, <1>5, <2>1, <2>3, <3>1 DEF Sound, PhaseAt, RecordFresh, Up, Down
  <2>4. ASSUME Holds(i) PROVE Knows(i)'
    <3>1. /\ inv'[i].rec.reconciling = inv[i].rec.reconciling /\ inv'[i].rec.task = inv[i].rec.task
          /\ inv'[i].age = inv[i].age + 1 /\ inv[i].age \in Nat
          /\ inv[i].rec.task # NoTask => inv[i].rec.task \in Tasks
      BY <1>2, <1>5, <2>4 DEF Holds, Records
    <3>2. inv[i].pc \in InLoop => LoopSound(inv[i])' /\ KnownKept(i)'
      BY <1>3, <1>5, <1>7, <2>1, <2>4, <3>1, Constants DEF Sound, Knows, LoopSound, KnownKept
    <3>3. inv[i].pc = "launch" => journal'.uncertain =< inv'[i].age
      BY <1>3, <2>1, <2>4, <3>1 DEF Sound, Knows
    <3> QED
      BY <1>1, <1>4, <1>5, <1>7, <2>1, <2>4, <3>1, <3>2, <3>3 DEF Sound, Knows
  <2> QED
    BY <1>5, <2>1, <2>2, <2>3, <2>4 DEF Sound, Holds
<1> QED
  BY <1>6, <1>8, <1>10, <1>11 DEF BrokerInv, Stored

-----------------------------------------------------------------------------
(* Theorems                                                                 *)

LEMMA NextInv == BrokerInv /\ [Next]_vars => BrokerInv'
<1> SUFFICES ASSUME BrokerInv, [Next]_vars PROVE BrokerInv'
  OBVIOUS
<1>1. CASE UNCHANGED vars
  <2>1. TypeOK' /\ Stored'
    BY <1>1 DEF vars, BrokerInv, TypeOK, Stored, TasksFit, StoppedFits, AnswersStored, Closed,
                Recorded, Untouched, Executing, Settled
  <2>2. ASSUME NEW i \in Invocations PROVE Sound(i)'
    <3>1. Sound(i)
      BY DEF BrokerInv
    <3>2. ReplySound(i)'
      BY <1>1, <3>1 DEF vars, Sound, ReplySound, Closed, Recorded, Untouched
    <3>3. Holds(i)' => (LockHeld(i) /\ PhaseAt(inv[i].pc, journal.phase) /\ RecordFresh(i))'
      BY <1>1, <3>1 DEF vars, Sound, Holds, LockHeld, PhaseAt, RecordFresh
    <3>4. Holds(i)' => Knows(i)'
      BY <1>1, <3>1 DEF vars, Sound, Holds, Knows, KnownKept, LoopSound, Untouched, Executing
    <3> QED
      BY <3>2, <3>3, <3>4 DEF Sound
  <2> QED
    BY <2>1, <2>2 DEF BrokerInv
<1>2. ASSUME NEW i \in Invocations, StartSteps(i) PROVE BrokerInv'
  BY <1>2, AuthorizeStartInv, SavePreparingInv, PrepareInv, SaveRegisteredInv, AuthorizeAgainInv,
     SaveLaunchingInv, LaunchInv, SaveRunningInv, SaveRejectingInv, FindInv DEF StartSteps
<1>3. ASSUME NEW i \in Invocations, StopSteps(i) PROVE BrokerInv'
  BY <1>3, AuthorizeStopInv, SaveStoppingInv, ListInv, SaveFoundInv, StopTaskInv, SaveAcceptedInv,
     StatusInv, SaveScheduleInv DEF StopSteps
<1>4. ASSUME NEW i \in Invocations, InvocationStep(i) PROVE BrokerInv'
  BY <1>2, <1>3, <1>4, AcquireInv, CleanupInv, SaveStoppedInv, ReleaseInv DEF InvocationStep
<1> QED
  BY <1>1, <1>4, InvokeInv, KillInv, TaskExitInv, AuthorityInv, TickInv DEF Next

\* The inductive invariant holds in every reachable state.
THEOREM BrokerInvariant == Spec => []BrokerInv
  BY InitInv, NextInv, PTL DEF Spec

\* The journal, the lock, the invocations and ECS keep their types.
THEOREM BrokerTypes == Spec => []TypeOK
<1>1. BrokerInv => TypeOK
  BY DEF BrokerInv
<1> QED
  BY <1>1, BrokerInvariant, PTL

\* No two invocations are between acquire and release at the same time: the lock
\* outlives every invocation, so no takeover of an expired one can overlap.
THEOREM BrokerSerialized == Spec => []Serialized
<1>1. BrokerInv => Serialized
  BY OneHolder DEF Serialized, Holds
<1> QED
  BY <1>1, BrokerInvariant, PTL

LEMMA TasksOfOne ==
  ASSUME TypeOK, TasksFit(journal)
  PROVE  /\ Untouched => launched = {}
         /\ \A t \in Tasks : ecs[t].state # "None" => launched = {t}
         /\ IsFiniteSet(launched) /\ Cardinality(launched) =< 1
<1>1. /\ Untouched => launched = {}
      /\ \A t \in Tasks : ecs[t].state # "None" => launched = {t}
  BY DEF TasksFit, Untouched, launched
<1>2. CASE Untouched
  BY <1>1, <1>2, FS_EmptySet
<1>3. ASSUME NEW t \in Tasks, ecs[t].state # "None"
      PROVE  IsFiniteSet(launched) /\ Cardinality(launched) =< 1
  <2>1. IsFiniteSet({t}) /\ Cardinality({t}) = 1
    BY FS_Singleton
  <2>2. launched = {t}
    BY <1>1, <1>3
  <2> QED
    BY <2>1, <2>2
<1> QED
  BY <1>1, <1>2, <1>3 DEF Untouched

\* RunTask succeeds at most once for an attempt, whatever is retried after an
\* unknown outcome, and only behind the durable launch marker.
THEOREM BrokerLaunchesOnce == Spec => []OneLaunch
<1>1. BrokerInv => OneLaunch
  <2> SUFFICES ASSUME BrokerInv PROVE OneLaunch
    OBVIOUS
  <2>1. TypeOK /\ TasksFit(journal) /\ journal.phase \in Phases
    BY DEF BrokerInv, Stored, TypeOK, Records
  <2>2. Cardinality({t \in Tasks : ecs[t].state # "None"}) =< 1
    BY <2>1, TasksOfOne DEF launched
  <2>3. \A t \in Tasks : ecs[t].state # "None" =>
          journal.phase \in {"launching", "running", "stopping", "stopped"}
    BY <2>1 DEF TasksFit, Untouched, Phases
  <2> QED
    BY <2>2, <2>3 DEF OneLaunch
<1> QED
  BY <1>1, BrokerInvariant, PTL

\* A record that says stopped is the truth: no task executes, no invocation will
\* launch one, and the bootstrap secret is gone.
THEOREM BrokerStops == Spec => []StoppedMeansGone
<1>1. BrokerInv => StoppedMeansGone
  <2> SUFFICES ASSUME BrokerInv, journal.phase = "stopped" PROVE StoppedMeansGone
    BY DEF StoppedMeansGone
  <2>1. ~secret /\ \A t \in Tasks : ~Executing(t)
    BY DEF BrokerInv, Stored, StoppedFits
  <2>2. \A i \in Invocations : inv[i].pc \notin {"saveLaunching", "launch", "prepare"}
    BY DEF BrokerInv, Sound, Holds, PhaseAt
  <2> QED
    BY <2>1, <2>2 DEF StoppedMeansGone
<1> QED
  BY <1>1, BrokerInvariant, PTL

\* An attempt that was reported started has its launched task in the journal.
THEOREM BrokerRecordsStarts == Spec => []StartedIsRecorded
<1>1. BrokerInv => StartedIsRecorded
  BY DEF BrokerInv, Stored, AnswersStored, Recorded, TasksFit, StartedIsRecorded
<1> QED
  BY <1>1, BrokerInvariant, PTL

-----------------------------------------------------------------------------
(* The broker implements TaskProvider                                       *)

\* The abstract state: the task's stage, and whether the attempt is closed.
LEMMA BarValue ==
  BrokerInv => /\ Untouched => taskBar = "Absent"
               /\ \A t \in Tasks : ecs[t].state # "None" =>
                    taskBar = IF Executing(t) THEN "Live" ELSE "Gone"
<1> SUFFICES ASSUME BrokerInv
             PROVE  /\ Untouched => taskBar = "Absent"
                    /\ \A t \in Tasks : ecs[t].state # "None" =>
                         taskBar = IF Executing(t) THEN "Live" ELSE "Gone"
  OBVIOUS
<1>1. TypeOK /\ TasksFit(journal)
  BY DEF BrokerInv, Stored
<1>2. Untouched => taskBar = "Absent"
  BY <1>1, TasksOfOne DEF taskBar
<1>3. ASSUME NEW t \in Tasks, ecs[t].state # "None"
      PROVE  taskBar = IF Executing(t) THEN "Live" ELSE "Gone"
  <2>1. launched = {t} /\ Cardinality(launched) =< 1
    BY <1>1, <1>3, TasksOfOne
  <2>2. ~(Cardinality(launched) > 1)
    BY <2>1, FS_Singleton
  <2> QED
    BY <2>1, <2>2 DEF taskBar
<1> QED
  BY <1>2, <1>3

closedBar == IF answered \ {<<"start", "started">>} # {} THEN {"attempt"} ELSE {}

LEMMA ClosedBar == BrokerInv /\ closedBar # {} => Closed /\ taskBar # "Live"
<1> SUFFICES ASSUME BrokerInv, closedBar # {} PROVE Closed /\ taskBar # "Live"
  OBVIOUS
<1>1. answered \cap Closing # {}
  BY DEF closedBar, BrokerInv, TypeOK, Definite, Closing
<1>2. Closed
  BY <1>1 DEF BrokerInv, Stored, AnswersStored
<1>3. \A t \in Tasks : ~Executing(t)
  BY <1>2 DEF Closed, BrokerInv, Stored, StoppedFits, Untouched, Executing
<1>4. Untouched \/ \E t \in Tasks : ecs[t].state # "None"
  BY DEF Untouched
<1> QED
  BY <1>2, <1>3, <1>4, BarValue

\* A step that neither launches nor ends a task shows nothing of the task.
LEMMA BarKept ==
  ASSUME BrokerInv, BrokerInv',
         \A t \in Tasks : /\ ecs'[t].state = "None" <=> ecs[t].state = "None"
                          /\ Executing(t)' <=> Executing(t)
  PROVE  taskBar' = taskBar
<1>1. (BrokerInv => /\ Untouched => taskBar = "Absent"
                    /\ \A t \in Tasks : ecs[t].state # "None" =>
                         taskBar = IF Executing(t) THEN "Live" ELSE "Gone")'
  BY BarValue, PTL
<1>2. CASE Untouched
  BY <1>1, <1>2, BarValue DEF Untouched
<1>3. ASSUME NEW t \in Tasks, ecs[t].state # "None" PROVE taskBar' = taskBar
  BY <1>1, <1>3, BarValue
<1> QED
  BY <1>2, <1>3 DEF Untouched

LEMMA StepSimulates ==
  BrokerInv /\ BrokerInv' /\ [Next]_vars => [Provider!Next]_(Provider!vars)
<1> SUFFICES ASSUME BrokerInv, BrokerInv', [Next]_vars PROVE [Provider!Next]_(Provider!vars)
  OBVIOUS
<1>0. (BrokerInv => /\ Untouched => taskBar = "Absent"
                    /\ \A t \in Tasks : ecs[t].state # "None" =>
                         taskBar = IF Executing(t) THEN "Live" ELSE "Gone")'
  BY BarValue, PTL
<1>1. ASSUME taskBar' = taskBar, closedBar' = closedBar PROVE UNCHANGED Provider!vars
  BY <1>1 DEF Provider!vars, closedBar
<1>2. ASSUME UNCHANGED answered,
             \A t \in Tasks : /\ ecs'[t].state = "None" <=> ecs[t].state = "None"
                              /\ Executing(t)' <=> Executing(t)
      PROVE  UNCHANGED Provider!vars
  BY <1>1, <1>2, BarKept DEF closedBar
<1>3. ASSUME UNCHANGED <<ecs, answered>> PROVE UNCHANGED Provider!vars
  BY <1>2, <1>3 DEF Executing
<1>4. ASSUME NEW i \in Invocations, Launch(i) PROVE [Provider!Next]_(Provider!vars)
  <2>1. Untouched /\ ~Closed /\ taskBar = "Absent"
    BY <1>4, AtSave, BarValue DEF Launch, Holds, Knows, PhaseAt, Closed
  <2>2. closedBar = {} /\ closedBar' = closedBar
    BY <1>4, <2>1, ClosedBar DEF Launch, closedBar
  <2>3. CASE UNCHANGED ecs
    BY <1>3, <1>4, <2>3 DEF Launch
  <2>4. ASSUME NEW t \in Tasks, ecs' = Created(t) PROVE Provider!Launch("attempt")
    <3>1. ecs'[t].state = "Live"
      BY <2>4 DEF BrokerInv, TypeOK, Created
    <3>2. taskBar' = "Live"
      BY <1>0, <3>1 DEF Executing
    <3> QED
      BY <2>1, <2>2, <3>2 DEF Provider!Launch, closedBar
  <2> QED
    BY <1>4, <2>3, <2>4 DEF Launch, Provider!Next
<1>5. ASSUME NEW t \in Tasks, TaskExit(t) PROVE [Provider!Next]_(Provider!vars)
  <2>1. taskBar = "Live"
    BY <1>5, BarValue DEF TaskExit, Executing
  <2>2. taskBar' = "Gone"
    <3>1. ecs'[t].state = "Stopped"
      BY <1>5 DEF TaskExit, BrokerInv, TypeOK
    <3> QED
      BY <1>0, <3>1 DEF Executing
  <2>3. Provider!Finish("attempt")
    BY <1>5, <2>1, <2>2 DEF Provider!Finish, TaskExit
  <2> QED
    BY <2>3 DEF Provider!Next
<1>6. ASSUME NEW i \in Invocations, Release(i) PROVE [Provider!Next]_(Provider!vars)
  <2>1. taskBar' = taskBar
    BY <1>6, BarKept DEF Release, Executing
  <2>2. CASE closedBar' = closedBar
    BY <1>1, <2>1, <2>2
  <2>3. CASE closedBar' # closedBar
    <3>1. closedBar' = {"attempt"} /\ closedBar = {}
      BY <1>6, <2>3 DEF closedBar, Release
    <3>2. (BrokerInv /\ closedBar # {} => taskBar # "Live")'
      BY ClosedBar, PTL
    <3>3. Provider!Close("attempt")
      BY <2>1, <3>1, <3>2 DEF Provider!Close, closedBar
    <3> QED
      BY <3>3 DEF Provider!Next
  <2> QED
    BY <2>2, <2>3
<1>7. ASSUME NEW i \in Invocations, StopTask(i) PROVE UNCHANGED Provider!vars
  <2>1. \A t \in Tasks : /\ ecs'[t].state = "None" <=> ecs[t].state = "None"
                         /\ Executing(t)' <=> Executing(t)
    BY <1>7 DEF StopTask, BrokerInv, TypeOK, Executing
  <2> QED
    BY <1>2, <1>7, <2>1 DEF StopTask
<1>8. CASE Tick
  <2>1. ASSUME NEW t \in Tasks PROVE ecs'[t].state = ecs[t].state
    <3>1. ecs[t] \in [state : {"None", "Live", "Stopping", "Stopped"}, age : 0..ListDelay]
      BY DEF BrokerInv, TypeOK
    <3>2. ecs'[t] = IF ecs[t].state = "None" THEN ecs[t]
                    ELSE [ecs[t] EXCEPT !.age = Up(ecs[t].age, ListDelay)]
      BY <1>8 DEF Tick
    <3> QED
      BY <3>1, <3>2
  <2> QED
    BY <1>2, <1>8, <2>1 DEF Tick, Executing
<1>9. ASSUME NEW i \in Invocations, StartSteps(i) PROVE [Provider!Next]_(Provider!vars)
  BY <1>3, <1>4, <1>9 DEF StartSteps, AuthorizeStart, AuthorizeAgain, Authorize, SavePreparing,
     Prepare, SaveRegistered, SaveLaunching, SaveRunning, SaveRejecting, Save, Find
<1>10. ASSUME NEW i \in Invocations, StopSteps(i) PROVE UNCHANGED Provider!vars
  BY <1>3, <1>7, <1>10 DEF StopSteps, AuthorizeStop, Authorize, SaveStopping, List, SaveFound,
     SaveAccepted, Status, SaveSchedule, Save
<1>11. ASSUME NEW i \in Invocations, InvocationStep(i) PROVE [Provider!Next]_(Provider!vars)
  BY <1>3, <1>6, <1>9, <1>10, <1>11 DEF InvocationStep, Acquire, Cleanup, SaveStopped, Save
<1>12. CASE Next
  BY <1>3, <1>5, <1>8, <1>11, <1>12 DEF Next, Invoke, Kill, AuthorityChanges
<1> QED
  BY <1>3, <1>12 DEF vars

LEMMA InitSimulates == Init => Provider!Init
<1> SUFFICES ASSUME Init PROVE Provider!Init
  OBVIOUS
<1>1. taskBar = "Absent"
  BY InitInv, BarValue DEF Init, Untouched
<1> QED
  BY <1>1 DEF Init, Provider!Init

\* The broker's promise to the run coordinator, step by step: one task per
\* attempt, and none executing once stopped or rejected has been answered.
THEOREM BrokerImplementsProvider == Spec => ImplementsTaskProvider
  BY InitSimulates, StepSimulates, BrokerInvariant, PTL DEF Spec, ImplementsTaskProvider, Provider!Spec
=============================================================================
