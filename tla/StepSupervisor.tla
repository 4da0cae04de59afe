--------------------------- MODULE StepSupervisor ---------------------------
(***************************************************************************)
(* The steps of one attempt inside its container (runner-runtime/execute): *)
(* the supervisor starts a process group per step, one thread per stream   *)
(* reads its pipes into a bounded spool, an uploader batches the spool and *)
(* appends it to the attempt's log with retries, and the heartbeat thread  *)
(* may report a cancellation or an error at any time.                      *)
(*                                                                         *)
(* An append is a message: the client gives up on it after a timeout and   *)
(* tries again, the first copy may still arrive, and replies are lost.     *)
(* The store applies an append atomically (RunLogs opens up that           *)
(* transaction).                                                           *)
(*                                                                         *)
(* Abstracted: bytes and UTF-8 (a chunk is what one read returns, a batch  *)
(* some chunks), batch sizes and deadlines (a flush may happen whenever    *)
(* something is pending), the records' offsets in the spool file (the      *)
(* module LogSpool), exit codes beyond success and failure.                *)
(***************************************************************************)
EXTENDS Naturals, Sequences, FiniteSets, SequencesExt

CONSTANTS
  NumSteps,      \* steps of the job
  Streams,       \* stdout and stderr
  MaxWrites,     \* bound on the chunks a step writes to a stream
  SpoolRecords,  \* LOG_SPOOL_BYTES, in chunks
  UploadTries,   \* UploadPolicy::attempts
  MaxLogChunks   \* MAX_RUN_LOG_BYTES_PER_ATTEMPT, in chunks

ASSUME SupervisorAssumption ==
  /\ {NumSteps, SpoolRecords, UploadTries, MaxLogChunks} \subseteq Nat \ {0}
  /\ MaxWrites \in Nat /\ IsFiniteSet(Streams)

VARIABLES
  sup,      \* run_steps_with_options
  group,    \* the process group of the current step
  written,  \* chunks written so far, by step and stream
  pipe,     \* written and not yet read, by stream
  reader,   \* read_output, by stream
  spool,    \* LogSpool: records, open readers, discarding, failed
  flags,    \* stop_reading, stop_uploading, locally_discarded
  up,       \* upload_output and append_with_retry
  wire,     \* append requests that may still arrive
  verdict,  \* what the heartbeat thread has reported
  store     \* the attempt's rows: active, step states, log, first_truncated_step_index

captureVars == <<pipe, reader, spool, flags, up, wire>>
vars == <<sup, group, written, captureVars, verdict, store>>

-----------------------------------------------------------------------------
(* Vocabulary *)

Steps == 1..NumSteps
MemberStates == {"none", "quiet", "writing"}
StepEnds == {"succeeded", "failed", "timedout", "canceled"}

\* Members that outlive the leader may have sent their output elsewhere ("quiet").
GroupAlive == group.leader = "running" \/ group.members # "none"
HoldsPipes == group.leader = "running" \/ group.members = "writing"
\* The pipes reach their end when no process holds them, escaped ones included.
AtEof(s) == pipe[s] = <<>> /\ ~HoldsPipes /\ ~group.escaped

NoGroup == [step |-> 0, leader |-> "none", members |-> "none", escaped |-> FALSE]
NewUpload(next, truncated) ==
  [pc |-> "recv", pending |-> <<>>, batch |-> <<>>, next |-> next, try |-> 0,
   truncated |-> truncated, notice |-> FALSE, final |-> FALSE, reply |-> "none"]
IdleUpload == [NewUpload(1, FALSE) EXCEPT !.pc = "done"]

\* What the log holds of stream s of step n.
Stored(n, s) ==
  LET texts == FoldLeft(LAMBDA acc, entry : acc \o entry.text, <<>>,
                        SelectSeq(store.log, LAMBDA entry : entry.step = n))
  IN SelectSeq(texts, LAMBDA chunk : chunk[1] = s)

Output(n, s) == [k \in 1..written[n][s] |-> <<s, k>>]
StoredCount == FoldLeft(LAMBDA acc, entry : acc + Len(entry.text), 0, store.log)

-----------------------------------------------------------------------------
(* The processes of a step                                                  *)

Write(s) ==
  /\ HoldsPipes /\ written[group.step][s] < MaxWrites
  /\ written' = [written EXCEPT ![group.step][s] = @ + 1]
  /\ pipe' = [pipe EXCEPT ![s] = Append(@, <<s, written[group.step][s] + 1>>)]
  /\ UNCHANGED <<sup, group, reader, spool, flags, up, wire, verdict, store>>

\* The leader exits; it may leave processes of its group behind, or a daemon that
\* left the group and holds the pipes without writing to them.
LeaderExits(code, members, escaped) ==
  /\ group.leader = "running"
  /\ group' = [group EXCEPT !.leader = code, !.members = members, !.escaped = escaped]
  /\ UNCHANGED <<sup, written, captureVars, verdict, store>>

MembersExit ==
  /\ group.leader # "running" /\ group.members # "none"
  /\ group' = [group EXCEPT !.members = "none"]
  /\ UNCHANGED <<sup, written, captureVars, verdict, store>>

\* SIGKILL to the group, and the leader is reaped.
Killed == [group EXCEPT !.leader = IF @ = "running" THEN "failed" ELSE @, !.members = "none"]

-----------------------------------------------------------------------------
(* read_output and LogSpool                                                 *)

CloseReader(s) ==
  /\ reader' = [reader EXCEPT ![s] = [pc |-> "done", chunk |-> <<>>]]

Read(s) ==
  /\ reader[s].pc = "reading" /\ ~flags.stopReading /\ pipe[s] # <<>>
  /\ reader' = [reader EXCEPT ![s] = [pc |-> "sending", chunk |-> Head(pipe[s])]]
  /\ pipe' = [pipe EXCEPT ![s] = Tail(@)]
  /\ UNCHANGED <<sup, group, written, spool, flags, up, wire, verdict, store>>

ReadEof(s) ==
  /\ reader[s].pc = "reading" /\ ~flags.stopReading /\ AtEof(s)
  /\ CloseReader(s)
  /\ UNCHANGED <<sup, group, written, pipe, spool, flags, up, wire, verdict, store>>

ReadFails(s) ==
  /\ reader[s].pc = "reading" /\ ~flags.stopReading
  /\ spool' = [spool EXCEPT !.failed = TRUE]
  /\ CloseReader(s)
  /\ UNCHANGED <<sup, group, written, pipe, flags, up, wire, verdict, store>>

\* Mutant: what is left in the pipe is dropped in silence.
ReadStopped_Silently(s) ==
  /\ reader[s].pc = "reading" /\ flags.stopReading
  /\ CloseReader(s)
  /\ UNCHANGED <<sup, group, written, pipe, spool, flags, up, wire, verdict, store>>

\* One more read tells whether something is lost.
ReadStopped(s) ==
  /\ reader[s].pc = "reading" /\ flags.stopReading
  /\ flags' = [flags EXCEPT !.discarded = @ \/ pipe[s] # <<>>]
  /\ CloseReader(s)
  /\ UNCHANGED <<sup, group, written, pipe, spool, up, wire, verdict, store>>

\* LogSpool::send
SpoolChunk(s) ==
  /\ reader[s].pc = "sending"
  /\ spool.discarding \/ (~flags.stopReading /\ ~spool.failed /\ Len(spool.records) < SpoolRecords)
  /\ spool' = IF spool.discarding THEN spool
              ELSE [spool EXCEPT !.records = Append(@, reader[s].chunk)]
  /\ reader' = [reader EXCEPT ![s] = [pc |-> "reading", chunk |-> <<>>]]
  /\ UNCHANGED <<sup, group, written, pipe, flags, up, wire, verdict, store>>

SpoolRefuses(s) ==
  /\ reader[s].pc = "sending" /\ ~spool.discarding
  /\ flags.stopReading \/ spool.failed
  /\ flags' = [flags EXCEPT !.discarded = TRUE]
  /\ CloseReader(s)
  /\ UNCHANGED <<sup, group, written, pipe, spool, up, wire, verdict, store>>

\* The spool file cannot be written.
SpoolFails(s) ==
  /\ reader[s].pc = "sending" /\ ~spool.discarding /\ Len(spool.records) < SpoolRecords
  /\ ~flags.stopReading /\ ~spool.failed
  /\ spool' = [spool EXCEPT !.failed = TRUE]
  /\ flags' = [flags EXCEPT !.discarded = TRUE]
  /\ CloseReader(s)
  /\ UNCHANGED <<sup, group, written, pipe, up, wire, verdict, store>>

ReadersClosed == \A s \in Streams : reader[s].pc = "done"

-----------------------------------------------------------------------------
(* upload_output                                                            *)

\* The end of a turn of the loop: after a truncation nothing more is spooled.
Settle(u) ==
  /\ up' = u
  /\ spool' = IF u.truncated THEN [spool EXCEPT !.discarding = TRUE, !.records = <<>>] ELSE spool

\* recv_timeout, then flush if enough is pending or the batch is due.
Receive(flush) ==
  /\ up.pc = "recv" /\ spool.records # <<>>
  /\ up' = [up EXCEPT !.pending = Append(@, Head(spool.records)),
                      !.pc = IF flush THEN "flush" ELSE "recv"]
  /\ spool' = [spool EXCEPT !.records = Tail(@)]
  /\ UNCHANGED <<sup, group, written, pipe, reader, flags, wire, verdict, store>>

BatchDue ==
  /\ up.pc = "recv" /\ up.pending # <<>>
  /\ up' = [up EXCEPT !.pc = "flush"]
  /\ UNCHANGED <<sup, group, written, pipe, reader, spool, flags, wire, verdict, store>>

\* A failure is reported only once the records before it have been received.
ReceiveFailure ==
  /\ up.pc = "recv" /\ spool.records = <<>> /\ spool.failed
  /\ up' = [up EXCEPT !.pc = "failed"]
  /\ spool' = [spool EXCEPT !.failed = FALSE]
  /\ UNCHANGED <<sup, group, written, pipe, reader, flags, wire, verdict, store>>

Disconnected ==
  /\ up.pc = "recv" /\ spool.records = <<>> /\ ~spool.failed /\ ReadersClosed
  /\ up' = [up EXCEPT !.pc = "flush", !.final = TRUE]
  /\ UNCHANGED <<sup, group, written, pipe, reader, spool, flags, wire, verdict, store>>

\* What follows a flush: the next turn, the rest of the last flush, or the summary.
AfterFlush(u) ==
  IF ~u.final THEN [u EXCEPT !.pc = "recv"]
  ELSE IF u.pending # <<>> THEN [u EXCEPT !.pc = "flush"]
  ELSE [u EXCEPT !.pc = "done", !.truncated = @ \/ flags.discarded]

Flush ==
  /\ up.pc = "flush"
  /\ IF up.pending = <<>> THEN Settle(AfterFlush(up)) /\ UNCHANGED wire
     ELSE IF up.truncated \/ flags.stopUploading
       THEN Settle(AfterFlush([up EXCEPT !.truncated = TRUE, !.pending = <<>>])) /\ UNCHANGED wire
       ELSE /\ \E n \in 1..Len(up.pending) :
                 up' = [up EXCEPT !.pc = "try", !.try = 1, !.batch = SubSeq(up.pending, 1, n),
                                  !.pending = SubSeq(up.pending, n + 1, Len(up.pending))]
            /\ UNCHANGED <<spool, wire>>
  /\ UNCHANGED <<sup, group, written, pipe, reader, flags, verdict, store>>

\* append_with_retry: Ok(None)
GiveUp == Settle(AfterFlush([up EXCEPT !.truncated = TRUE, !.batch = <<>>, !.reply = "none"]))

TryStopped ==
  /\ up.pc = "try" /\ flags.stopUploading
  /\ GiveUp
  /\ UNCHANGED <<sup, group, written, pipe, reader, flags, wire, verdict, store>>

SendAppend ==
  /\ up.pc = "try" /\ ~flags.stopUploading
  /\ wire' = wire \cup {[step |-> sup.step, sequence |-> up.next, text |-> up.batch, try |-> up.try]}
  /\ up' = [up EXCEPT !.pc = "sent"]
  /\ UNCHANGED <<sup, group, written, pipe, reader, spool, flags, verdict, store>>

\* Mutant: what is tried again gets a number of its own.
Retry_NewSequence(u) == [u EXCEPT !.pc = "try", !.try = @ + 1, !.next = @ + 1]

Retry(u) == [u EXCEPT !.pc = "try", !.try = @ + 1, !.reply = "none"]

\* No reply in time, or a retryable status.
AppendTimesOut ==
  /\ up.pc = "sent" /\ up.reply = "none"
  /\ IF flags.stopUploading THEN GiveUp
     ELSE /\ up' = IF up.try < UploadTries THEN Retry(up) ELSE [up EXCEPT !.pc = "failed"]
          /\ UNCHANGED spool
  /\ UNCHANGED <<sup, group, written, pipe, reader, flags, wire, verdict, store>>

AppendReplied ==
  /\ up.pc = "sent" /\ up.reply # "none"
  /\ \/ /\ up.reply = "accepted"
        /\ Settle(AfterFlush([up EXCEPT !.next = @ + 1, !.batch = <<>>, !.reply = "none"]))
     \/ /\ up.reply = "truncated"
        /\ Settle(AfterFlush([up EXCEPT !.truncated = TRUE, !.notice = TRUE, !.batch = <<>>,
                                        !.reply = "none"]))
     \/ /\ up.reply = "fatal"
        /\ IF flags.stopUploading THEN GiveUp
           ELSE up' = [up EXCEPT !.pc = "failed"] /\ UNCHANGED spool
  /\ UNCHANGED <<sup, group, written, pipe, reader, flags, wire, verdict, store>>

-----------------------------------------------------------------------------
(* The store                                                                *)

\* append_attempt_log's answer to a request.
Answer(r) ==
  IF ~store.active THEN "fatal"
  ELSE IF store.truncated # 0 THEN "truncated"
  ELSE IF r.sequence =< Len(store.log)
    THEN IF store.log[r.sequence] = [step |-> r.step, text |-> r.text] THEN "accepted" ELSE "fatal"
  ELSE IF r.sequence # Len(store.log) + 1 \/ store.step[r.step] # "running" THEN "fatal"
  ELSE IF StoredCount + Len(r.text) > MaxLogChunks THEN "truncated"
  ELSE "accepted"

Deliver(r, answered) ==
  /\ r \in wire
  /\ wire' = wire \ {r}
  /\ store' = [store EXCEPT
       !.log = IF Answer(r) = "accepted" /\ r.sequence = Len(@) + 1
                 THEN Append(@, [step |-> r.step, text |-> r.text]) ELSE @,
       !.truncated = IF Answer(r) = "truncated" /\ @ = 0 THEN r.step ELSE @]
  /\ up' = IF answered THEN [up EXCEPT !.reply = Answer(r)] ELSE up
  /\ answered => up.pc = "sent" /\ up.try = r.try /\ up.next = r.sequence /\ up.batch = r.text
  /\ UNCHANGED <<sup, group, written, pipe, reader, spool, flags, verdict>>

\* A lease expires, or the coordinator confirms a cancellation.
EndedElsewhere ==
  /\ store.active
  /\ store' = [store EXCEPT !.active = FALSE]
  /\ UNCHANGED <<sup, group, written, captureVars, verdict>>

Conclude(n, state, truncated) ==
  [store EXCEPT !.step[n] = state, !.active = (state = "succeeded"),
                !.truncated = IF truncated /\ @ = 0 THEN n ELSE @]

-----------------------------------------------------------------------------
(* The supervisor                                                           *)

Heartbeat(result) ==
  /\ verdict = "none" /\ sup.pc # "over"
  /\ verdict' = result
  /\ UNCHANGED <<sup, group, written, captureVars, store>>

\* start_step answers: go on, a cancellation was requested, or an error.
StartStep ==
  /\ sup.pc = "start"
  /\ \/ /\ store.active
        /\ store' = [store EXCEPT !.step[sup.step] = "running"]
        /\ sup' = [sup EXCEPT !.pc = "spawn"]
     \/ /\ store.active
        /\ sup' = [sup EXCEPT !.pc = "report", !.outcome = "canceled"]
        /\ UNCHANGED store
     \/ /\ sup' = [sup EXCEPT !.pc = "abandon"]
        /\ store' \in {store, [store EXCEPT !.step[sup.step] =
                                 IF store.active THEN "running" ELSE @]}
  /\ UNCHANGED <<group, written, captureVars, verdict>>

\* StepProcess::spawn and OutputCapture::start
Spawn ==
  /\ sup.pc = "spawn"
  /\ group' = [NoGroup EXCEPT !.step = sup.step, !.leader = "running"]
  /\ pipe' = [s \in Streams |-> <<>>]
  /\ reader' = [s \in Streams |-> [pc |-> "reading", chunk |-> <<>>]]
  /\ spool' = [records |-> <<>>, discarding |-> sup.truncated, failed |-> FALSE]
  /\ flags' = [stopReading |-> FALSE, stopUploading |-> FALSE, discarded |-> FALSE]
  /\ up' = NewUpload(sup.next, sup.truncated)
  /\ sup' = [sup EXCEPT !.pc = "loop", !.exited = FALSE, !.killed = FALSE, !.summary = FALSE]
  /\ UNCHANGED <<written, wire, verdict, store>>

SpawnFails ==
  /\ sup.pc = "spawn"
  /\ sup' = [sup EXCEPT !.pc = "abandon"]
  /\ UNCHANGED <<group, written, captureVars, verdict, store>>

SeeTruncated ==
  /\ sup.pc = "loop" /\ up.notice
  /\ sup' = [sup EXCEPT !.truncated = TRUE]
  /\ up' = [up EXCEPT !.notice = FALSE]
  /\ UNCHANGED <<group, written, pipe, reader, spool, flags, wire, verdict, store>>

SeeFinished ==
  /\ sup.pc = "loop" /\ up.pc = "done" /\ ~sup.summary
  /\ sup' = [sup EXCEPT !.summary = TRUE, !.next = up.next, !.truncated = @ \/ up.truncated]
  /\ UNCHANGED <<group, written, captureVars, verdict, store>>

\* terminate_and_wait, then stop: the capture ends on its own.
Terminate(outcome) ==
  /\ group' = Killed
  /\ flags' = [flags EXCEPT !.stopReading = TRUE, !.stopUploading = TRUE]
  /\ sup' = [sup EXCEPT !.pc = "drain", !.outcome = outcome]
  /\ UNCHANGED <<written, pipe, reader, spool, up, wire, verdict, store>>

SeeFailed ==
  /\ sup.pc = "loop" /\ up.pc = "failed"
  /\ Terminate("error")

\* try_wait and SIGTERM: some members of the group may go.
SeeExit ==
  /\ sup.pc = "loop" /\ ~sup.exited /\ group.leader # "running"
  /\ sup' = [sup EXCEPT !.exited = TRUE]
  /\ UNCHANGED <<group, written, captureVars, verdict, store>>

\* Mutant: the readers are left to find the end of their pipes.
KillGroup_KeepsReading ==
  /\ sup.pc = "loop" /\ sup.exited /\ ~sup.killed
  /\ group' = Killed
  /\ sup' = [sup EXCEPT !.killed = TRUE]
  /\ UNCHANGED <<written, captureVars, verdict, store>>

\* TERMINATION_GRACE after the leader's exit.
KillGroup ==
  /\ sup.pc = "loop" /\ sup.exited /\ ~sup.killed
  /\ group' = Killed
  /\ flags' = IF sup.summary THEN flags ELSE [flags EXCEPT !.stopReading = TRUE]
  /\ sup' = [sup EXCEPT !.killed = TRUE]
  /\ UNCHANGED <<written, pipe, reader, spool, up, wire, verdict, store>>

StepFinished == sup.exited /\ sup.summary

\* StepProcess::finish and join
FinishStep ==
  /\ sup.pc = "loop" /\ StepFinished
  /\ group' = Killed
  /\ sup' = [sup EXCEPT !.pc = "report", !.outcome = group.leader]
  /\ UNCHANGED <<written, captureVars, verdict, store>>

DeadlinePasses ==
  /\ sup.pc = "loop" /\ ~StepFinished
  /\ Terminate("timedout")

PollHeartbeat ==
  /\ sup.pc = "loop" /\ ~StepFinished /\ verdict # "none"
  /\ Terminate(IF verdict = "cancel" THEN "canceled" ELSE "error")

\* capture.wait or join: a capture that failed leaves logs_truncated as it was.
CaptureEnded ==
  /\ sup.pc = "drain" /\ ReadersClosed /\ up.pc \in {"done", "failed"}
  /\ sup' = [sup EXCEPT !.pc = IF sup.outcome = "error" THEN "abandon" ELSE "report",
                        !.truncated = @ \/ (up.pc = "done" /\ up.truncated)]
  /\ UNCHANGED <<group, written, captureVars, verdict, store>>

\* complete_step, complete_timeout, complete_canceled
Report ==
  /\ sup.pc = "report" /\ store.active
  /\ store' = Conclude(sup.step, sup.outcome, sup.truncated)
  /\ sup' = [sup EXCEPT
       !.pc = IF sup.outcome = "succeeded" /\ sup.step < NumSteps THEN "start" ELSE "over",
       !.step = IF sup.outcome = "succeeded" /\ sup.step < NumSteps THEN @ + 1 ELSE @]
  /\ UNCHANGED <<group, written, captureVars, verdict>>

\* The report is refused, or its reply is lost.
ReportFails ==
  /\ sup.pc = "report"
  /\ store' \in {store, IF store.active THEN Conclude(sup.step, sup.outcome, sup.truncated) ELSE store}
  /\ sup' = [sup EXCEPT !.pc = "abandon"]
  /\ UNCHANGED <<group, written, captureVars, verdict>>

Abandon ==
  /\ sup.pc = "abandon"
  /\ store' \in {store, [store EXCEPT !.active = FALSE]}
  /\ sup' = [sup EXCEPT !.pc = "over"]
  /\ UNCHANGED <<group, written, captureVars, verdict>>

-----------------------------------------------------------------------------
(* The specification                                                        *)

Init ==
  /\ sup = [pc |-> "start", step |-> 1, exited |-> FALSE, killed |-> FALSE, summary |-> FALSE,
            truncated |-> FALSE, next |-> 1, outcome |-> "none"]
  /\ group = NoGroup
  /\ written = [n \in Steps |-> [s \in Streams |-> 0]]
  /\ pipe = [s \in Streams |-> <<>>]
  /\ reader = [s \in Streams |-> [pc |-> "done", chunk |-> <<>>]]
  /\ spool = [records |-> <<>>, discarding |-> FALSE, failed |-> FALSE]
  /\ flags = [stopReading |-> FALSE, stopUploading |-> FALSE, discarded |-> FALSE]
  /\ up = IdleUpload
  /\ wire = {}
  /\ verdict = "none"
  /\ store = [active |-> TRUE, step |-> [n \in Steps |-> "pending"], log |-> <<>>, truncated |-> 0]

Processes ==
  \/ \E s \in Streams : Write(s)
  \/ \E code \in {"succeeded", "failed"}, m \in MemberStates, e \in BOOLEAN :
       LeaderExits(code, m, e)
  \/ MembersExit

Reader(s) ==
  Read(s) \/ ReadEof(s) \/ ReadStopped(s) \/ SpoolChunk(s) \/ SpoolRefuses(s)

\* Input and output errors, which nothing forces.
IoError(s) == ReadFails(s) \/ SpoolFails(s)

Uploader ==
  \/ \E flush \in BOOLEAN : Receive(flush)
  \/ BatchDue \/ ReceiveFailure \/ Disconnected \/ Flush
  \/ TryStopped \/ SendAppend \/ AppendTimesOut \/ AppendReplied

Supervisor ==
  \/ StartStep \/ Spawn \/ SpawnFails
  \/ SeeTruncated \/ SeeFinished \/ SeeFailed \/ SeeExit \/ KillGroup \/ FinishStep
  \/ PollHeartbeat \/ CaptureEnded
  \/ Report \/ ReportFails \/ Abandon

Next ==
  \/ Processes \/ (\E s \in Streams : Reader(s) \/ IoError(s)) \/ Uploader
  \/ (\E r \in wire, answered \in BOOLEAN : Deliver(r, answered))
  \/ EndedElsewhere \/ (\E result \in {"cancel", "lost"} : Heartbeat(result))
  \/ Supervisor \/ DeadlinePasses

Spec == Init /\ [][Next]_vars

-----------------------------------------------------------------------------
(* Properties                                                               *)

Chunk == Streams \X (1..MaxWrites)

TypeOK ==
  /\ sup \in [pc : {"start", "spawn", "loop", "drain", "report", "abandon", "over"},
              step : Steps, exited : BOOLEAN, killed : BOOLEAN, summary : BOOLEAN,
              truncated : BOOLEAN, next : 1..(MaxLogChunks + 1),
              outcome : StepEnds \cup {"none", "error"}]
  /\ group \in [step : 0..NumSteps, leader : {"none", "running", "succeeded", "failed"},
                members : MemberStates, escaped : BOOLEAN]
  /\ written \in [Steps -> [Streams -> 0..MaxWrites]]
  /\ pipe \in [Streams -> Seq(Chunk)]
  /\ reader \in [Streams -> [pc : {"reading", "sending", "done"}, chunk : Chunk \cup {<<>>}]]
  /\ spool \in [records : Seq(Chunk), discarding : BOOLEAN, failed : BOOLEAN]
  /\ Len(spool.records) =< SpoolRecords
  /\ flags \in [stopReading : BOOLEAN, stopUploading : BOOLEAN, discarded : BOOLEAN]
  /\ up \in [pc : {"recv", "flush", "try", "sent", "done", "failed"}, pending : Seq(Chunk),
             batch : Seq(Chunk), next : 1..(MaxLogChunks + 1), try : 0..UploadTries,
             truncated : BOOLEAN, notice : BOOLEAN, final : BOOLEAN,
             reply : {"none", "accepted", "truncated", "fatal"}]
  /\ wire \subseteq [step : Steps, sequence : 1..(MaxLogChunks + 1), text : Seq(Chunk),
                     try : 1..UploadTries]
  /\ verdict \in {"none", "cancel", "lost"}
  /\ store \in [active : BOOLEAN, step : [Steps -> {"pending", "running"} \cup StepEnds],
                log : Seq([step : Steps, text : Seq(Chunk)]), truncated : 0..NumSteps]

Complete(n) == \A s \in Streams : Stored(n, s) = Output(n, s)
MarkedTruncated(n) == store.truncated # 0 /\ store.truncated =< n

\* The log is at all times a prefix of the output: no chunk twice, none out of order,
\* none behind a hole, however often appends are repeated and however late they arrive.
StoredIsPrefix ==
  \A n \in Steps :
    /\ \A s \in Streams : IsPrefix(Stored(n, s), Output(n, s))
    /\ (\E m \in Steps, s \in Streams : m > n /\ Stored(m, s) # <<>>) => Complete(n)

\* A step that is reported and not marked as truncated has its whole output in the
\* log.  Only a step that was interrupted after its upload had failed may lose some.
LossIsReported ==
  \A n \in Steps :
    store.step[n] \in StepEnds /\ ~MarkedTruncated(n) =>
      \/ Complete(n)
      \/ store.step[n] \in {"timedout", "canceled"} /\ n = sup.step /\ up.pc = "failed"

\* Processes of a step never outlive it: while any of them is alive its step has
\* not been reported, so they cannot disturb the next step or the caches.
GroupBelongsToStep == GroupAlive => store.step[group.step] = "running" /\ sup.step = group.step

\* A step whose command has exited is finished without waiting for the job's deadline,
\* and an interrupted one comes to its end: a daemon that holds the pipes, a full
\* spool or a silent API cannot keep the attempt alive.
StepsEnd ==
  /\ (sup.pc = "loop" /\ group.leader # "running") ~> sup.pc # "loop"
  /\ sup.pc = "drain" ~> sup.pc = "over"
=============================================================================
