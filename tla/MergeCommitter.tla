--------------------------- MODULE MergeCommitter ---------------------------
(***************************************************************************)
(* Group commit of request merges into the main of one repository          *)
(* (api/src/use_cases/request_merge/committer.rs, committer/persist.rs).   *)
(* Every API process keeps one queue of submitted merges and at most one   *)
(* leader task, which takes the repository's merge turn (an advisory lock  *)
(* of Postgres, merge_turns.rs), prepares a batch on the main it has read, *)
(* writes it in one transaction (scope-postgres/src/db/request_merge.rs)   *)
(* and meanwhile prepares the next batch on the main it hopes for.         *)
(*                                                                         *)
(* A main is the sequence of what went into it: a merge by its number, a   *)
(* direct push as 0.  Landing a prepared merge sets main to what the merge *)
(* was prepared on, followed by the merge: a merge prepared on another     *)
(* main would undo whatever that main lacks.  Abstracted: whether Git can  *)
(* merge (a choice), the request's own rows (clear, see AutoMerge for      *)
(* them), and the deletion and new creation of the repository while its    *)
(* merges are queued.                                                      *)
(***************************************************************************)
EXTENDS Integers, Sequences, FiniteSets

CONSTANTS
  Processes,       \* API processes
  Nobody,          \* holder of a free merge turn
  NumMerges,       \* merges ever submitted, numbered in order of submission
  MaxBatch,        \* MAX_MERGES_PER_COMMIT
  BatchesPerTurn,  \* BATCHES_PER_TURN
  Attempts,        \* MERGE_ATTEMPTS
  MaxPushes        \* bound: direct pushes to main

ASSUME MergeCommitterAssumption ==
  /\ NumMerges \in Nat /\ MaxPushes \in Nat
  /\ MaxBatch \in Nat \ {0} /\ BatchesPerTurn \in Nat \ {0} /\ Attempts \in Nat \ {0}
  /\ Nobody \notin Processes

Merges == 1 .. NumMerges

VARIABLES
  main,    \* what the accepted main holds, oldest first
  clear,   \* merges whose request is open, unchanged and cleared by its checks
  queue,   \* MergeCommitter::queues of each process
  turn,    \* holder of the advisory lock
  leader,  \* local state of each process' leader task
  reply    \* what the submitter of each merge was told

vars == <<main, clear, queue, turn, leader, reply>>

-----------------------------------------------------------------------------
(* Vocabulary *)

\* A process without an entry in MergeCommitter::queues.
NoQueue == [open |-> FALSE, merges |-> <<>>]

Range1(s) == {s[i] : i \in DOMAIN s}
Ids(s) == [i \in DOMAIN s |-> s[i].id]
From(s, k) == SubSeq(s, k, Len(s))

\* PreparedBatch.  The i-th ready merge was prepared on base and the ready
\* merges before it; proposed is the main when all of them land.
NoBatch == [ready |-> <<>>, base |-> <<>>, speculative |-> FALSE,
            stop |-> "absent", stopped |-> <<>>, conflict |-> FALSE, waiting |-> <<>>]
Proposed(b) == b.base \o Ids(b.ready)
Unwound(b) == b.ready \o b.stopped \o b.waiting

NoLeader == [pc |-> "none", batch |-> <<>>, committed |-> <<>>, prepared |-> NoBatch,
             next |-> NoBatch, batches |-> 0, landed |-> 0, rejected |-> "no"]

\* The merges a leader has in hand, in the order it would put them back.
InHand(l) == l.batch \o Unwound(l.prepared) \o Unwound(l.next)

\* The merges of a process that have no answer yet, first come first.
Pipeline(p) == Ids(InHand(leader[p]) \o queue[p].merges)

Answer(ms, what) == [m \in Merges |-> IF m \in ms THEN what ELSE reply[m]]
Released(p) == IF turn = p THEN Nobody ELSE turn

\* take_batch(): the longest prefix within the limit in which a merge to be
\* prepared alone is alone.
Batchable(q) ==
  LET fits(k) == k <= Len(q) /\ \A i \in 1 .. k : q[i].alone => k = 1
  IN  CHOOSE k \in 0 .. MaxBatch :
        fits(k) /\ (k < MaxBatch => ~ fits(k + 1))

\* prepare_batch(): what it may come to.  A merge that cannot be prepared
\* ends the batch before it; when it is the first, it stops the batch, and
\* so does a proposed main whose views cannot be projected.
PreparedOn(batch, base, speculative) ==
  LET ends(k) == [NoBatch EXCEPT !.base = base, !.speculative = speculative,
                                 !.stop = "no", !.waiting = From(batch, k + 1)]
  IN  {[ends(1) EXCEPT !.stop = "first", !.stopped = SubSeq(batch, 1, 1), !.conflict = c] :
          c \in BOOLEAN}
      \cup {[ends(k) EXCEPT !.ready = SubSeq(batch, 1, k)] : k \in 1 .. Len(batch)}
      \cup {[ends(k) EXCEPT !.stop = "preflight", !.stopped = SubSeq(batch, 1, k)] :
               k \in 1 .. Len(batch)}

-----------------------------------------------------------------------------
(* Submitters and the rest of the repository *)

\* MergeCommitter::submit()
Submit(m, p) ==
  /\ reply[m] = "none" /\ \A n \in 1 .. m - 1 : reply[n] # "none"
  /\ reply' = [reply EXCEPT ![m] = "waiting"]
  /\ queue' = [queue EXCEPT ![p] =
       [open |-> TRUE, merges |-> Append(@.merges, [id |-> m, attempt |-> 1, alone |-> FALSE])]]
  /\ leader' = IF queue[p].open THEN leader
               ELSE [leader EXCEPT ![p] = [NoLeader EXCEPT !.pc = "turn"]]
  /\ UNCHANGED <<main, clear, turn>>

\* A direct push to main is accepted.
PushMain ==
  /\ Cardinality({i \in DOMAIN main : main[i] = 0}) < MaxPushes
  /\ main' = Append(main, 0)
  /\ UNCHANGED <<clear, queue, turn, leader, reply>>

\* The request is closed or pushed to, or its checks no longer clear it.
Disturb(m) ==
  /\ m \in clear
  /\ clear' = clear \ {m}
  /\ UNCHANGED <<main, queue, turn, leader, reply>>

-----------------------------------------------------------------------------
(* The leader *)

AcquireTurn(p) ==
  /\ leader[p].pc = "turn" /\ turn = Nobody
  /\ turn' = p
  /\ leader' = [leader EXCEPT ![p].pc = "take"]
  /\ UNCHANGED <<main, clear, queue, reply>>

\* acquire_merge_turn() fails: everything queued is answered.
AcquireFails(p) ==
  /\ leader[p].pc = "turn"
  /\ reply' = Answer(Range1(Pipeline(p)), "error")
  /\ queue' = [queue EXCEPT ![p] = NoQueue]
  /\ leader' = [leader EXCEPT ![p] = NoLeader]
  /\ UNCHANGED <<main, clear, turn>>

\* lead(): take a batch, or leave with the queue removed and the turn given
\* back.
TakeBatch(p) ==
  LET q == queue[p].merges
      k == Batchable(q)
  IN  /\ leader[p].pc = "take"
      /\ IF k = 0
         THEN /\ queue' = [queue EXCEPT ![p] = NoQueue]
              /\ leader' = [leader EXCEPT ![p] = NoLeader]
              /\ turn' = Released(p)
         ELSE /\ queue' = [queue EXCEPT ![p].merges = From(q, k + 1)]
              /\ leader' = [leader EXCEPT ![p].pc = "open", ![p].batch = SubSeq(q, 1, k)]
              /\ UNCHANGED turn
      /\ UNCHANGED <<main, clear, reply>>

\* The end of a drain: the turn is released, what is to be retried goes back
\* to the front of the queue, and the leader asks for another turn.
EndTurn(p, retry, merges) ==
  /\ turn' = Released(p)
  /\ queue' = [queue EXCEPT ![p].merges = retry \o merges]
  /\ leader' = [leader EXCEPT ![p] = [NoLeader EXCEPT !.pc = "turn"]]

\* drain() cannot read the repository or stage it.
OpenFails(p) ==
  /\ leader[p].pc = "open"
  /\ reply' = Answer(Range1(Ids(leader[p].batch)), "error")
  /\ EndTurn(p, <<>>, queue[p].merges)
  /\ UNCHANGED <<main, clear>>

\* drain(): the repository is read and the first batch prepared on it.
Open(p) ==
  /\ leader[p].pc = "open"
  /\ \E b \in PreparedOn(leader[p].batch, main, FALSE) :
       leader' = [leader EXCEPT ![p].pc = "settle", ![p].batch = <<>>,
                                ![p].committed = main, ![p].prepared = b]
  /\ UNCHANGED <<main, clear, queue, turn, reply>>

\* settle_first_failure(): a conflict is tried again when main has moved.
RetriesFirst(b, committed) ==
  b.conflict /\ b.stopped[1].attempt < Attempts /\ main # committed

\* Mutant: what could not be prepared goes to the back of the queue.
Requeue_Back(settled, merges) == merges \o settled

\* requeue(): in front of what is queued.
Requeue(settled, merges) == settled \o merges

\* PreparedBatch::settle(): what it puts back and whom it answers.  A stop on
\* a hoped-for main says nothing about the real one.
Settled(b, committed) ==
  LET back(stopped, failed) == [back |-> stopped \o b.waiting, failed |-> failed]
  IN  CASE b.stop = "no" -> back(<<>>, {})
        [] b.stop # "no" /\ b.speculative -> back(b.stopped, {})
        [] b.stop = "first" /\ ~ b.speculative ->
             IF RetriesFirst(b, committed)
             THEN back(<<[b.stopped[1] EXCEPT !.attempt = @ + 1]>>, {})
             ELSE back(<<>>, {b.stopped[1].id})
        [] b.stop = "preflight" /\ ~ b.speculative ->
             IF Len(b.stopped) = 1
             THEN back(<<>>, {b.stopped[1].id})
             ELSE back([i \in DOMAIN b.stopped |-> [b.stopped[i] EXCEPT !.alone = TRUE]], {})

\* The top of the loop of drain().
Settle(p) ==
  LET l == leader[p]
      s == Settled(l.prepared, l.committed)
      merges == Requeue(s.back, queue[p].merges)
  IN  /\ l.pc = "settle"
      /\ reply' = Answer(s.failed, "error")
      /\ IF l.prepared.ready = <<>>
         THEN EndTurn(p, <<>>, merges)
         ELSE /\ queue' = [queue EXCEPT ![p].merges = merges]
              /\ leader' = [leader EXCEPT ![p].pc = "persist", ![p].batches = @ + 1,
                   ![p].prepared = [NoBatch EXCEPT !.ready = l.prepared.ready,
                                                   !.base = l.prepared.base, !.stop = "no"]]
              /\ UNCHANGED turn
      /\ UNCHANGED <<main, clear>>

\* persist_while_preparing(): a batch taken while the one before it is being
\* written is prepared on the main that one would leave.
PrepareNext(p) ==
  LET l == leader[p]
      q == queue[p].merges
      k == Batchable(q)
  IN  /\ l.pc = "persist" /\ l.batches < BatchesPerTurn /\ l.next = NoBatch /\ k > 0
      /\ queue' = [queue EXCEPT ![p].merges = From(q, k + 1)]
      /\ \E b \in PreparedOn(SubSeq(q, 1, k), Proposed(l.prepared), TRUE) :
           leader' = [leader EXCEPT ![p].next = b]
      /\ UNCHANGED <<main, clear, turn, reply>>

\* Mutant: the transaction does not compare main with what was prepared on.
Lands_Unchecked(b, k) ==
  \A i \in 1 .. k : b.ready[i].id \in clear /\ b.ready[i].id \notin Range1(main)

\* merge_one_request(): the first k merges of a batch pass the checks of the
\* transaction, the request's rows and the expected frontier of main.
Lands(b, k) ==
  /\ k > 0 => b.base = main
  /\ \A i \in 1 .. k : b.ready[i].id \in clear /\ b.ready[i].id \notin Range1(main)

\* merge_request_contents(): k merges land in one transaction.  The next one
\* is rejected because main moved, or with a conflict: its request changed, or
\* the confirmation of its checks expired before the transaction ended.
PersistTx(p, k) ==
  LET l == leader[p]
      b == l.prepared
  IN  /\ l.pc = "persist" /\ k <= Len(b.ready) /\ Lands(b, k)
      /\ main' = IF k = 0 THEN main ELSE b.base \o SubSeq(Ids(b.ready), 1, k)
      /\ \E why \in IF k = Len(b.ready) THEN {"no"}
                    ELSE {"conflict"} \cup (IF b.base # main THEN {"moved"} ELSE {}) :
           leader' = [leader EXCEPT ![p].pc = "persisted", ![p].landed = k, ![p].rejected = why]
      /\ UNCHANGED <<clear, queue, turn, reply>>

\* Postgres cannot be asked, or its answer to the commit is lost: the leader
\* takes it that nothing landed.
PersistFails(p, k) ==
  LET l == leader[p]
      b == l.prepared
  IN  /\ l.pc = "persist" /\ k \in {0, Len(b.ready)} /\ Lands(b, k)
      /\ main' = IF k = 0 THEN main ELSE b.base \o Ids(b.ready)
      /\ leader' = [leader EXCEPT ![p].pc = "persisted", ![p].landed = 0,
                                  ![p].rejected = "conflict"]
      /\ UNCHANGED <<clear, queue, turn, reply>>

\* retries_after_rejection()
RetriesRejected(l) ==
  l.rejected = "moved" /\ l.prepared.ready[l.landed + 1].attempt < Attempts

\* persist_batch(): who is answered.
Replies(l) ==
  LET ids == Ids(l.prepared.ready)
  IN  [m \in Merges |->
         IF m \in Range1(SubSeq(ids, 1, l.landed)) THEN "ok"
         ELSE IF l.landed < Len(ids) /\ m = ids[l.landed + 1] /\ ~ RetriesRejected(l) THEN "error"
         ELSE reply[m]]

\* persist_batch(): what is prepared again, the rejected merge first.
Retry(l) ==
  LET rest == From(l.prepared.ready, l.landed + 2)
  IN  IF RetriesRejected(l)
      THEN <<[l.prepared.ready[l.landed + 1] EXCEPT !.attempt = @ + 1]>> \o rest
      ELSE rest

\* drain(), after persist_batch(): the turn ends with everything unwound when
\* a merge did not land, and after the last batch of a turn; otherwise the
\* next batch is settled, or taken now.
Persisted(p) ==
  LET l == leader[p]
      q == queue[p].merges
      k == Batchable(q)
      landed == [l EXCEPT !.pc = "settle", !.committed = Proposed(l.prepared),
                          !.next = NoBatch, !.landed = 0, !.rejected = "no"]
  IN  /\ l.pc = "persisted"
      /\ reply' = Replies(l)
      /\ IF l.landed < Len(l.prepared.ready)
         THEN EndTurn(p, Retry(l) \o Unwound(l.next), q)
         ELSE IF l.batches >= BatchesPerTurn THEN EndTurn(p, <<>>, q)
         ELSE IF l.next # NoBatch
         THEN /\ leader' = [leader EXCEPT ![p] = [landed EXCEPT !.prepared = l.next]]
              /\ UNCHANGED <<queue, turn>>
         ELSE IF k = 0 THEN EndTurn(p, <<>>, q)
         ELSE /\ queue' = [queue EXCEPT ![p].merges = From(q, k + 1)]
              /\ \E b \in PreparedOn(SubSeq(q, 1, k), landed.committed, FALSE) :
                   leader' = [leader EXCEPT ![p] = [landed EXCEPT !.prepared = b]]
              /\ UNCHANGED turn
      /\ UNCHANGED <<main, clear>>

-----------------------------------------------------------------------------
(* Failures *)

\* The leader task panics: Leadership::drop() abandons the queue, the replies
\* of all its merges close, and the session that holds the turn is closed.
LeaderDies(p) ==
  /\ leader[p].pc \notin {"none", "turn", "take"}
  /\ reply' = Answer(Range1(Pipeline(p)), "error")
  /\ queue' = [queue EXCEPT ![p] = NoQueue]
  /\ leader' = [leader EXCEPT ![p] = NoLeader]
  /\ turn' = Released(p)
  /\ UNCHANGED <<main, clear>>

\* The session that holds the turn is lost; its leader does not notice.
LoseTurn ==
  /\ turn # Nobody
  /\ turn' = Nobody
  /\ UNCHANGED <<main, clear, queue, leader, reply>>

-----------------------------------------------------------------------------
(* Specification *)

Init ==
  /\ main = <<>> /\ clear = Merges /\ turn = Nobody
  /\ queue = [p \in Processes |-> NoQueue]
  /\ leader = [p \in Processes |-> NoLeader]
  /\ reply = [m \in Merges |-> "none"]

Lead(p) ==
  \/ AcquireTurn(p) \/ TakeBatch(p) \/ Open(p) \/ Settle(p) \/ Persisted(p)
  \/ \E k \in 0 .. MaxBatch : PersistTx(p, k)

Next ==
  \/ \E m \in Merges, p \in Processes : Submit(m, p)
  \/ PushMain
  \/ \E m \in Merges : Disturb(m)
  \/ \E p \in Processes :
       \/ Lead(p)
       \/ AcquireFails(p) \/ OpenFails(p) \/ PrepareNext(p) \/ LeaderDies(p)
       \/ \E k \in 0 .. MaxBatch : PersistFails(p, k)
  \/ LoseTurn

Spec == Init /\ [][Next]_vars

-----------------------------------------------------------------------------
(* Properties *)

Entries == [id : Merges, attempt : 1 .. Attempts, alone : BOOLEAN]

\* Every variable has its type: no merge is tried more often than allowed and
\* no turn has more batches than it may.
TypeOK ==
  /\ Range1(main) \subseteq 0 .. NumMerges
  /\ clear \subseteq Merges
  /\ turn \in Processes \cup {Nobody}
  /\ \A p \in Processes :
       /\ queue[p].open \in BOOLEAN
       /\ Range1(queue[p].merges) \subseteq Entries
       /\ Range1(InHand(leader[p])) \subseteq Entries
       /\ Len(leader[p].prepared.ready) <= MaxBatch
       /\ leader[p].batches \in 0 .. BatchesPerTurn
       /\ leader[p].pc \in {"none", "turn", "take", "open", "settle", "persist", "persisted"}
  /\ reply \in [Merges -> {"none", "waiting", "ok", "error"}]

\* A submitter that waits is in exactly one place of its process' pipeline:
\* no path of the leader drops a merge without an answer or keeps it twice.
WaitingIsQueued ==
  /\ {m \in Merges : reply[m] = "waiting"} = UNION {Range1(Pipeline(p)) : p \in Processes}
  /\ \A p, q \in Processes : p # q => Range1(Pipeline(p)) \cap Range1(Pipeline(q)) = {}

\* Retries, unwound batches and new arrivals never overtake: a process'
\* merges are always tried in the order in which they were submitted.
SubmissionOrder ==
  \A p \in Processes : \A i, j \in DOMAIN Pipeline(p) : i < j => Pipeline(p)[i] < Pipeline(p)[j]

\* A queue has a leader and a leader a queue: nobody submits to a queue that
\* no task will ever read.
QueueHasLeader == \A p \in Processes : queue[p].open <=> leader[p].pc # "none"

\* No path of the leader loses, doubles or overtakes a merge that waits, or
\* leaves it in a queue without a leader.
MergesAreQueued == TypeOK /\ WaitingIsQueued /\ SubmissionOrder /\ QueueHasLeader

\* Whoever is told that the merge landed finds it in main, in the end as well:
\* no later push or merge, of a process that lost its turn included, undoes it.
\* A request is merged at most once, although a merge whose commit was not
\* confirmed is prepared and submitted to the transaction again.
MergesLandOnce ==
  /\ \A m \in Merges : reply[m] = "ok" => m \in Range1(main)
  /\ \A i, j \in DOMAIN main : main[i] # 0 /\ main[i] = main[j] => i = j

\* Every submitted merge is answered, whatever fails.
MergesAreAnswered == \A m \in Merges : reply[m] = "waiting" ~> reply[m] \in {"ok", "error"}
=============================================================================
