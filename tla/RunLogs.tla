------------------------------ MODULE RunLogs ------------------------------
(***************************************************************************)
(* The logs of one run: the runtimes of its attempts append numbered       *)
(* chunks (append_attempt_log), and a client follows them as a stream of   *)
(* events (http/run_events.rs) woken by change notifications               *)
(* (repo_events.rs).                                                       *)
(*                                                                         *)
(* An append is a transaction that holds its attempt's row lock from its   *)
(* first check to its commit; its position in the run is drawn from a      *)
(* database sequence when the row is inserted, while the row is visible    *)
(* only from the commit on.  A request whose reply was lost is repeated,   *)
(* also while the first one is still under way.  The stream reads pages of *)
(* rows after its cursor, then the run's state, then waits; the client may *)
(* disconnect at any time and comes back with the position of the last     *)
(* event it received.                                                      *)
(*                                                                         *)
(* Abstracted: texts (a chunk is its number, with a size), steps (the      *)
(* module StepSupervisor), access checks, a retry of the run after it has  *)
(* ended, and the clock: RUN_LOG_NOTIFY_WINDOW is a window that may lapse. *)
(***************************************************************************)
EXTENDS Naturals, Sequences, FiniteSets, SequencesExt

CONSTANTS
  Attempts,        \* the attempts that are executing, one per parallel job
  Requests,        \* append requests that may be under way at once
  ChunkBytes,      \* ChunkBytes[k]: the size of the k-th chunk of a runtime
  MaxLogBytes,     \* MAX_RUN_LOG_BYTES_PER_ATTEMPT
  PageSize,        \* RUN_LOG_STREAM_PAGE_SIZE
  MaxRollbacks,    \* bound on the appends that fail after their insert began
  MaxDisconnects,  \* bound on the reconnections of the client
  MaxLosses        \* bound on the notifications that are not delivered

ASSUME RunLogsAssumption ==
  /\ IsFiniteSet(Attempts) /\ IsFiniteSet(Requests)
  /\ ChunkBytes \in Seq(Nat \ {0})
  /\ {MaxLogBytes, PageSize, MaxRollbacks, MaxDisconnects, MaxLosses} \subseteq Nat
  /\ PageSize > 0

VARIABLES
  attempt,   \* scope_run_attempts: active, log_bytes, first_truncated_step_index
  rows,      \* scope_run_logs, committed: position, attempt and sequence (which names the text)
  position,  \* the sequence that positions are drawn from
  runLock,   \* the request that holds the advisory lock scope:run-log of the run
  request,   \* append_log requests of the runtimes, by slot
  sending,   \* the sequence number each runtime is at; it stops past the last chunk
  notify,    \* LogNotifyWindow of the run, with its timers
  publishes, \* publish_run_change_now calls under way
  stream,    \* stream_run_events
  received,  \* the positions of the log events the client has received, in order
  faults     \* rollbacks, disconnects and lost notifications so far

storeVars == <<attempt, rows, position, runLock>>
notifyVars == <<notify, publishes>>
streamVars == <<stream, received>>
vars == <<storeVars, request, sending, notifyVars, streamVars, faults>>

-----------------------------------------------------------------------------
(* Vocabulary *)

NumChunks == Len(ChunkBytes)
NoRequest == [pc |-> "idle", attempt |-> "none", sequence |-> 0, position |-> 0]
Nobody == "nobody"

RowsOf(a) == {r \in rows : r.attempt = a}
LastSequence(a) == IF RowsOf(a) = {} THEN 0 ELSE Max({r.sequence : r \in RowsOf(a)})
RunTerminal == \A a \in Attempts : ~attempt[a].active

\* The positions of a set of rows in ascending order.
InOrder(S) == SetToSortSeq({r.position : r \in S}, <)

-----------------------------------------------------------------------------
(* The runtimes and append_attempt_log                                      *)

\* A runtime sends its next chunk, or repeats it because no reply came.
Send(q, a) ==
  /\ request[q].pc = "idle" /\ sending[a] =< NumChunks
  /\ request' = [request EXCEPT ![q] = [pc |-> "begin", attempt |-> a,
                                        sequence |-> sending[a], position |-> 0]]
  /\ UNCHANGED <<storeVars, sending, notifyVars, streamVars, faults>>

\* Mutant: the attempt's row is read without a lock.
LockedAttempts_None == {}

\* locked_attempt_context: held until the transaction ends.
LockedAttempts ==
  {request[q].attempt : q \in {p \in Requests : request[p].pc \in {"append", "commit"}}}

Overflows(a, k) == attempt[a].bytes + ChunkBytes[k] > MaxLogBytes

AlreadyStored(a, k) == \E r \in RowsOf(a) : r.sequence = k

\* The reply to request q arrives, or is lost and the runtime will ask again.
Reply(q, next) ==
  LET a == request[q].attempt IN
  /\ request' = [request EXCEPT ![q] = NoRequest]
  /\ sending' \in {sending, IF sending[a] = request[q].sequence
                              THEN [sending EXCEPT ![a] = next] ELSE sending}

Accepted(q) == Reply(q, request[q].sequence + 1)
Truncated(q) == Reply(q, NumChunks + 1)

\* The attempt ended meanwhile, its log is full already, the chunk is a repetition,
\* or it is the one that overflows the limit, which is recorded.
RefuseOrRepeat(q) ==
  LET a == request[q].attempt
      k == request[q].sequence
  IN /\ request[q].pc = "begin" /\ a \notin LockedAttempts
     /\ \/ ~attempt[a].active /\ Reply(q, NumChunks + 1) /\ UNCHANGED attempt
        \/ attempt[a].active /\ attempt[a].truncated /\ Truncated(q) /\ UNCHANGED attempt
        \/ /\ attempt[a].active /\ ~attempt[a].truncated
           /\ AlreadyStored(a, k)
           /\ Accepted(q) /\ UNCHANGED attempt
        \/ /\ attempt[a].active /\ ~attempt[a].truncated
           /\ k = LastSequence(a) + 1
           /\ Overflows(a, k)
           /\ attempt' = [attempt EXCEPT ![a].truncated = TRUE]
           /\ Truncated(q)
     /\ UNCHANGED <<rows, position, runLock, notifyVars, streamVars, faults>>

MayAppend(a, k) ==
  /\ attempt[a].active /\ ~attempt[a].truncated
  /\ k = LastSequence(a) + 1
  /\ ~Overflows(a, k)

\* authenticate and accept_log_chunk under the lock of the attempt's row.
BeginAppend(q) ==
  LET a == request[q].attempt IN
  /\ request[q].pc = "begin" /\ a \notin LockedAttempts
  /\ MayAppend(a, request[q].sequence)
  /\ request' = [request EXCEPT ![q].pc = "append"]
  /\ UNCHANGED <<storeVars, sending, notifyVars, streamVars, faults>>

\* The run's lock is taken first, so that positions become visible in order.
Insert(q) ==
  /\ request[q].pc = "append" /\ runLock = Nobody
  /\ runLock' = q
  /\ position' = position + 1
  /\ request' = [request EXCEPT ![q].pc = "commit", ![q].position = position + 1]
  /\ UNCHANGED <<attempt, rows, sending, notifyVars, streamVars, faults>>

Commit(q) ==
  LET a == request[q].attempt IN
  /\ request[q].pc = "commit"
  /\ rows' = rows \cup {[position |-> request[q].position, attempt |-> a,
                         sequence |-> request[q].sequence]}
  /\ attempt' = [attempt EXCEPT ![a].bytes = @ + ChunkBytes[request[q].sequence]]
  /\ runLock' = IF runLock = q THEN Nobody ELSE runLock
  /\ request' = [request EXCEPT ![q].pc = "announce"]
  /\ UNCHANGED <<position, sending, notifyVars, streamVars, faults>>

\* A failed statement or a lost connection; the position drawn is not given back.
Rollback(q) ==
  /\ request[q].pc \in {"append", "commit"} /\ faults.rollbacks < MaxRollbacks
  /\ runLock' = IF runLock = q THEN Nobody ELSE runLock
  /\ request' = [request EXCEPT ![q] = NoRequest]
  /\ faults' = [faults EXCEPT !.rollbacks = @ + 1]
  /\ UNCHANGED <<attempt, rows, position, sending, notifyVars, streamVars>>

-----------------------------------------------------------------------------
(* Notifications: at most one per window, and a trailing one                *)

\* Mutant: appends within the window are not announced at all.
OnAppend_NoTrailing ==
  IF notify.recent
    THEN UNCHANGED notifyVars
    ELSE /\ notify' = [notify EXCEPT !.recent = TRUE, !.trailing = FALSE]
         /\ publishes' = publishes + 1

\* LogNotifyWindow::on_append
OnAppend ==
  IF notify.recent
    THEN /\ notify' = [notify EXCEPT !.trailing = TRUE, !.armed = @ \/ ~notify.trailing]
         /\ UNCHANGED publishes
    ELSE /\ notify' = [notify EXCEPT !.recent = TRUE, !.trailing = FALSE]
         /\ publishes' = publishes + 1

Announce(q) ==
  /\ request[q].pc = "announce"
  /\ OnAppend
  /\ Accepted(q)
  /\ UNCHANGED <<storeVars, streamVars, faults>>

\* RUN_LOG_NOTIFY_WINDOW has passed since the last publication.
WindowLapses ==
  /\ notify.recent
  /\ notify' = [notify EXCEPT !.recent = FALSE, !.armed = FALSE,
                              !.due = IF notify.armed THEN @ + 1 ELSE @]
  /\ UNCHANGED <<storeVars, request, sending, publishes, streamVars, faults>>

\* A timer fires: LogNotifyWindow::on_deadline
OnDeadline ==
  /\ notify.due > 0
  /\ IF notify.trailing /\ ~notify.recent
       THEN /\ notify' = [notify EXCEPT !.due = @ - 1, !.recent = TRUE, !.trailing = FALSE]
            /\ publishes' = publishes + 1
       ELSE /\ notify' = [notify EXCEPT !.due = @ - 1]
            /\ UNCHANGED publishes
  /\ UNCHANGED <<storeVars, request, sending, streamVars, faults>>

Subscribed == stream.pc \in {"read", "send", "snapshot", "wait"}

\* publish_run_change_now: the subscribers of the repository receive the event.
PublishRunChange ==
  /\ publishes > 0
  /\ publishes' = publishes - 1
  /\ stream' = IF Subscribed THEN [stream EXCEPT !.events = @ + 1] ELSE stream
  /\ UNCHANGED <<storeVars, request, sending, notify, received, faults>>

\* The repository's incarnation could not be read, or the notification to the
\* process that serves the stream was lost.
PublishFails ==
  /\ publishes > 0 /\ faults.losses < MaxLosses
  /\ publishes' = publishes - 1
  /\ faults' = [faults EXCEPT !.losses = @ + 1]
  /\ UNCHANGED <<storeVars, request, sending, notify, streamVars>>

\* An attempt ends (its row is locked); the change of status is published at once.
EndAttempt(a) ==
  /\ attempt[a].active /\ a \notin LockedAttempts
  /\ attempt' = [attempt EXCEPT ![a].active = FALSE]
  /\ publishes' = publishes + 1
  /\ UNCHANGED <<rows, position, runLock, request, sending, notify, streamVars, faults>>

-----------------------------------------------------------------------------
(* stream_run_events                                                        *)

NewStream(cursor) ==
  [pc |-> "read", cursor |-> cursor, page |-> <<>>, full |-> FALSE,
   terminal |-> FALSE, events |-> 0]

Cursor == IF received = <<>> THEN 0 ELSE Last(received)

\* run_logs_after: one page of the committed rows after the cursor.
ReadLogs ==
  LET after == InOrder({r \in rows : r.position > stream.cursor})
      page == SubSeq(after, 1, IF Len(after) < PageSize THEN Len(after) ELSE PageSize)
  IN /\ stream.pc = "read"
     /\ stream' = [stream EXCEPT !.pc = "send", !.page = page, !.full = Len(page) = PageSize]
     /\ UNCHANGED <<storeVars, request, sending, notifyVars, received, faults>>

SendLog ==
  /\ stream.pc = "send" /\ stream.page # <<>>
  /\ stream' = [stream EXCEPT !.cursor = Head(stream.page), !.page = Tail(stream.page)]
  /\ received' = Append(received, Head(stream.page))
  /\ UNCHANGED <<storeVars, request, sending, notifyVars, faults>>

PageSent ==
  /\ stream.pc = "send" /\ stream.page = <<>>
  /\ stream' = [stream EXCEPT !.pc = "snapshot"]
  /\ UNCHANGED <<storeVars, request, sending, notifyVars, received, faults>>

\* A run seen to have ended for the first time is read once more.
AfterSnapshot ==
  IF RunTerminal /\ ~stream.terminal THEN "read"
  ELSE IF RunTerminal /\ ~stream.full THEN "ended"
  ELSE IF stream.full THEN "read"
  ELSE "wait"

ReadSnapshot ==
  /\ stream.pc = "snapshot"
  /\ stream' = [stream EXCEPT !.pc = AfterSnapshot, !.terminal = @ \/ RunTerminal]
  /\ UNCHANGED <<storeVars, request, sending, notifyVars, received, faults>>

\* wait_for_run_change
Wake ==
  /\ stream.pc = "wait" /\ stream.events > 0
  /\ stream' = [stream EXCEPT !.pc = "read", !.events = @ - 1]
  /\ UNCHANGED <<storeVars, request, sending, notifyVars, received, faults>>

\* RUN_LOG_STREAM_RECONCILE_INTERVAL
Reconcile ==
  /\ stream.pc = "wait"
  /\ stream' = [stream EXCEPT !.pc = "read"]
  /\ UNCHANGED <<storeVars, request, sending, notifyVars, received, faults>>

\* The client, its connection or the API process goes away.
Disconnect ==
  /\ Subscribed /\ faults.disconnects < MaxDisconnects
  /\ stream' = [NewStream(0) EXCEPT !.pc = "closed"]
  /\ faults' = [faults EXCEPT !.disconnects = @ + 1]
  /\ UNCHANGED <<storeVars, request, sending, notifyVars, received>>

\* run_events with last-event-id: the stream subscribes before it first reads.
Reconnect ==
  /\ stream.pc = "closed"
  /\ stream' = NewStream(Cursor)
  /\ UNCHANGED <<storeVars, request, sending, notifyVars, received, faults>>

-----------------------------------------------------------------------------
(* The specification                                                        *)

Init ==
  /\ attempt = [a \in Attempts |-> [active |-> TRUE, bytes |-> 0, truncated |-> FALSE]]
  /\ rows = {} /\ position = 0 /\ runLock = Nobody
  /\ request = [q \in Requests |-> NoRequest]
  /\ sending = [a \in Attempts |-> 1]
  /\ notify = [recent |-> FALSE, trailing |-> FALSE, armed |-> FALSE, due |-> 0]
  /\ publishes = 0
  /\ stream = NewStream(0) /\ received = <<>>
  /\ faults = [rollbacks |-> 0, disconnects |-> 0, losses |-> 0]

Appending(q) ==
  RefuseOrRepeat(q) \/ BeginAppend(q) \/ Insert(q) \/ Commit(q) \/ Announce(q)

Notifying == WindowLapses \/ OnDeadline \/ PublishRunChange

Streaming == ReadLogs \/ SendLog \/ PageSent \/ ReadSnapshot \/ Wake \/ Reconcile \/ Reconnect

Next ==
  \/ \E q \in Requests : (\E a \in Attempts : Send(q, a)) \/ Appending(q) \/ Rollback(q)
  \/ \E a \in Attempts : EndAttempt(a)
  \/ Notifying \/ PublishFails
  \/ Streaming \/ Disconnect

Spec == Init /\ [][Next]_vars

-----------------------------------------------------------------------------
(* Properties                                                               *)

TypeOK ==
  /\ attempt \in [Attempts -> [active : BOOLEAN, bytes : 0..MaxLogBytes, truncated : BOOLEAN]]
  /\ rows \subseteq [position : Nat, attempt : Attempts, sequence : 1..NumChunks]
  /\ position \in Nat /\ runLock \in Requests \cup {Nobody}
  /\ request \in [Requests -> [pc : {"idle", "begin", "append", "commit", "announce"},
                               attempt : Attempts \cup {"none"}, sequence : 0..NumChunks,
                               position : Nat]]
  /\ sending \in [Attempts -> 1..(NumChunks + 1)]
  /\ notify \in [recent : BOOLEAN, trailing : BOOLEAN, armed : BOOLEAN, due : Nat]
  /\ publishes \in Nat
  /\ stream \in [pc : {"read", "send", "snapshot", "wait", "ended", "closed"}, cursor : Nat,
                 page : Seq(Nat), full : BOOLEAN, terminal : BOOLEAN, events : Nat]
  /\ received \in Seq(Nat)
  /\ faults \in [rollbacks : 0..MaxRollbacks, disconnects : 0..MaxDisconnects,
                 losses : 0..MaxLosses]

\* Following by position loses nothing: at any time the client has received exactly
\* the rows up to its cursor, once and in order, although appends of parallel jobs
\* commit in any order and the client reconnects.
NothingSkipped == received = InOrder({r \in rows : r.position =< Cursor})

\* The log of an attempt is what its runtime sent, every chunk once and in order,
\* although requests are repeated while an earlier one is under way.
StoredAsSent ==
  \A a \in Attempts :
    /\ {r.sequence : r \in RowsOf(a)} = 1..Cardinality(RowsOf(a))
    /\ \A r, s \in RowsOf(a) : s.sequence < r.sequence => s.position < r.position

\* A log is cut exactly where the limit is met: what fits is stored, and the first
\* chunk that does not fit is the one after the last stored, for ever.
TruncatedAtTheLimit ==
  \A a \in Attempts :
    attempt[a].truncated =>
      /\ LastSequence(a) < NumChunks
      /\ attempt[a].bytes + ChunkBytes[LastSequence(a) + 1] > MaxLogBytes

\* A stream that has ended has delivered the whole log: rows committed between its
\* last page and the moment it saw the run's end are not missed.
EndedMeansComplete == stream.pc = "ended" => received = InOrder(rows)

\* No wake-up is lost: a stream that waits with nothing announced or being
\* published, no timer armed or due, has delivered every committed row, if no notification was lost.
NoLostWakeup ==
  /\ stream.pc = "wait" /\ stream.events = 0
  /\ publishes = 0 /\ ~notify.armed /\ notify.due = 0 /\ faults.losses = 0
  /\ \A q \in Requests : request[q].pc # "announce"
  => received = InOrder(rows)

\* Every committed row reaches the client, also when notifications are lost.
LogsArrive ==
  \A a \in Attempts, k \in 1..NumChunks :
    AlreadyStored(a, k)
      ~> (\E r \in RowsOf(a) : r.sequence = k /\ Contains(received, r.position))
=============================================================================
