--------------------------- MODULE MCLogProgress ---------------------------
(***************************************************************************)
(* The progress of steps and their logs: small instances of StepSupervisor *)
(* and RunLogs with their fairness, and the ring file between the readers  *)
(* and the uploader of a step (LogSpool).  They share no state here; part  *)
(* names the one a behaviour is of, and the others stay as they are        *)
(* initially.                                                              *)
(***************************************************************************)
EXTENDS StepSupervisor

CONSTANTS a1, q1, q2

VARIABLES
  part,
  attempt, rows, position, runLock, request, sending, notify, publishes, stream,
  received, faults,
  file, readAt, writeAt, used, readers, failure, discarding, result

Logs == INSTANCE RunLogs WITH
  Attempts <- {a1}, Requests <- {q1, q2}, ChunkBytes <- <<1>>, MaxLogBytes <- 1,
  PageSize <- 1, MaxRollbacks <- 0, MaxDisconnects <- 1, MaxLosses <- 1

Spool == INSTANCE LogSpool WITH
  Streams <- {0, 1}, Bytes <- {3}, MaxLength <- 2, HeaderBytes <- 2, Capacity <- 9

ASSUME Spool!SpoolAssumption

logVars == <<attempt, rows, position, runLock, request, sending, notify, publishes, stream,
             received, faults>>
spoolVars == <<file, readAt, writeAt, used, readers, failure, discarding, result>>
mcVars == <<part, vars, logVars, spoolVars>>

MCInit == part \in {"steps", "logs", "spool"} /\ Init /\ Logs!Init /\ Spool!Init

MCNext ==
  /\ UNCHANGED part
  /\ \/ part = "steps" /\ Next /\ UNCHANGED <<logVars, spoolVars>>
     \/ part = "logs" /\ Logs!Next /\ UNCHANGED <<vars, spoolVars>>
     \/ part = "spool" /\ Spool!Next /\ UNCHANGED <<vars, logVars>>

\* The threads of the runtime are scheduled; its processes need never end, and the
\* job's deadline may be far away.
StepFairness ==
  LET on == part = "steps" IN
  /\ WF_vars(on /\ Supervisor) /\ WF_vars(on /\ Uploader)
  /\ \A s \in Streams : WF_vars(on /\ Reader(s))

\* Transactions end, and the stream's task and its timers are scheduled.
LogFairness ==
  LET on == part = "logs" IN
  /\ \A q \in {q1, q2} : WF_logVars(on /\ Logs!Appending(q))
  /\ WF_logVars(on /\ Logs!WindowLapses) /\ WF_logVars(on /\ Logs!OnDeadline)
  /\ WF_logVars(on /\ Logs!PublishRunChange) /\ WF_logVars(on /\ Logs!Streaming)

MCSpec == MCInit /\ [][MCNext]_mcVars /\ StepFairness /\ LogFairness

-----------------------------------------------------------------------------
(* The properties of RunLogs and LogSpool, and what steps and logs share *)

\* The ring is a bounded first-in first-out queue of records.
IsAQueue == Spool!IsAQueue

\* Every step ends, although its descendants keep the pipes open, and every
\* committed row reaches the client, also when notifications are lost.
StepsAndLogsEnd == StepsEnd /\ Logs!LogsArrive
=============================================================================
