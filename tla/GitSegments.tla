---------------------------- MODULE GitSegments ----------------------------
(***************************************************************************)
(* The packs of one repository: pushes to main and to requests store a     *)
(* pack as a segment in object storage (or inline in its row), compaction  *)
(* workers replace two neighbouring main packs by one, and a sweep removes *)
(* the segments nobody published.                                          *)
(*                                                                         *)
(* A segment's row in the ledger (scope_git_segment_uploads) decides which *)
(* of a writer, the worker that retires it and the sweep may do what: every*)
(* transition is one UPDATE guarded by the state it leaves.  The transac-  *)
(* tions that change the packs hold the repository's lock.  Writers crash, *)
(* uploads end after their row is gone, commits succeed whose reply is     *)
(* lost, and a worker may lose its lease at any time.                      *)
(*                                                                         *)
(* Abstracted: object ids (a push is its number in main's history, a       *)
(* segment holds a set of pushes), bytes (the size limit of a compaction   *)
(* counts pushes), time (a lease may expire, a row may be old enough for   *)
(* the sweep, and a delayed job may be due at any moment), local copies of *)
(* packs, and deleting the repository (the module RepoStorage).            *)
(***************************************************************************)
EXTENDS Naturals, FiniteSets

CONSTANTS
  Segments,     \* segment ids, each reserved at most once
  Compactors,   \* tasks of the compaction workers
  Sweepers,     \* API processes that run the recovery sweep
  MaxPushes,    \* bound on the pushes to main
  MaxSpan,      \* max_source_bytes, in pushes
  Inline        \* where a small pack is stored

ASSUME SegmentAssumption ==
  /\ IsFiniteSet(Segments) /\ MaxPushes \in Nat /\ MaxSpan \in Nat
  /\ Inline \notin Segments
  /\ {"none", "main", "request"} \cap Compactors = {}

VARIABLES
  head,      \* GitHead::push_sequence
  packs,     \* the main packs
  drafts,    \* segments of the packs of requests
  ledger,    \* state of each segment's upload row
  object,    \* object storage: the pushes each segment holds, {} when it is not there
  job,       \* the row of scope_git_compaction_jobs
  writer,    \* whoever uploads a segment
  comp,      \* compact_one_git_repository, by compactor
  sweep,     \* recover_stale_git_segments, by sweeper
  late,      \* segments whose upload ended after their row had been given up
  refused    \* the last attempt was refused, and nothing has been pushed since

vars == <<head, packs, drafts, ledger, object, job, writer, comp, sweep, late, refused>>

None == "none"
Pushes == 1..MaxPushes

-----------------------------------------------------------------------------
(* Packs and the plan of a compaction                                       *)

Span(p) == p.last - p.first + 1
Follows(p, q) == q.first = p.last + 1

\* is_power_of_two, of the spans there can be: the least set that holds 1 and, with a
\* number, its double.
PowersOfTwo ==
  {n \in Pushes : \A S \in SUBSET Pushes :
                    1 \in S /\ (\A m \in S : 2 * m \in Pushes => 2 * m \in S) => n \in S}

\* validate_main_chain
ChainIsValid(ps) ==
  /\ \A p \in ps : Span(p) \in PowersOfTwo
  /\ \A p \in ps : p.first = 1 \/ (\E q \in ps : Follows(q, p))
  /\ \A p, q \in ps : p # q => p.last < q.first \/ q.last < p.first

CanMerge(p, q) == Follows(p, q) /\ Span(p) = Span(q) /\ Span(p) + Span(q) =< MaxSpan
Pairs(ps) == {pair \in ps \X ps : CanMerge(pair[1], pair[2])}

\* GitCompactionPlan::select: the first pair, or none.
Select(ps) == {pair \in Pairs(ps) : \A other \in Pairs(ps) : pair[1].first =< other[1].first}

Available(p) == p.seg # Inline => object[p.seg] # {}
Content(p) == IF p.seg = Inline THEN p.first..p.last ELSE object[p.seg]

\* A row of scope_git_pool_packs names the segment.
OfMain(s) == \E p \in packs : p.seg = s
Referenced(s) == OfMain(s) \/ s \in drafts

-----------------------------------------------------------------------------
(* The ledger                                                               *)

\* begin_git_segment_upload
Begins(s) == ledger[s] = "none" /\ ledger' = [ledger EXCEPT ![s] = "uploading"]

\* publish_git_segment
CanPublish(s) == ledger[s] \in {"ready", "published"}

\* retire_git_segment, for the packs that are left
Retired(l, gone, left) ==
  [s \in Segments |-> IF s \in gone /\ l[s] \in {"ready", "published"} /\ ~(\E p \in left : p.seg = s)
                      THEN "deleting" ELSE l[s]]

\* Mutant: a row is given up whatever has become of it.
CanAbandon_Published(s) == ledger[s] \in {"uploading", "ready", "published"}

\* abandon_git_segment_upload
CanAbandon(s) == ledger[s] \in {"uploading", "ready"} /\ ~Referenced(s)

-----------------------------------------------------------------------------
(* Writers: stage_git_pack and build_replacement                            *)

NoWriter == [owner |-> None, pc |-> "none", content |-> {}, remote |-> TRUE, after |-> "none"]

\* The upload is settled; a compactor still has its job to release.
Gone == [NoWriter EXCEPT !.pc = "done"]
Settled(wr) == IF wr.owner \in Compactors THEN [Gone EXCEPT !.owner = wr.owner, !.after = wr.after]
               ELSE Gone

BeginPush(s, owner) ==
  /\ Begins(s) /\ head < MaxPushes
  /\ writer' = [writer EXCEPT ![s] = [NoWriter EXCEPT !.owner = owner, !.pc = "ingest",
                                                     !.content = {head + 1}]]
  /\ UNCHANGED <<head, packs, drafts, object, job, comp, sweep, late, refused>>

GiveUp(s, remote, after) ==
  writer' = [writer EXCEPT ![s].pc = "abandon", ![s].remote = remote, ![s].after = after]

\* build_compacted_pack reads the packs of the plan.
Restore(c) ==
  LET s == comp[c].seg IN
  /\ comp[c].pc = "work" /\ writer[s].pc = "restore"
  /\ IF \A p \in comp[c].plan : Available(p)
       THEN writer' = [writer EXCEPT ![s].pc = "ingest",
                                     ![s].content = UNION {Content(p) : p \in comp[c].plan}]
       ELSE GiveUp(s, TRUE, "fail")
  /\ UNCHANGED <<head, packs, drafts, ledger, object, job, comp, sweep, late, refused>>

\* The upload ends, whatever has become of the row.
Ingest(s) ==
  /\ writer[s].pc = "ingest"
  /\ object' = [object EXCEPT ![s] = writer[s].content]
  /\ late' = IF ledger[s] = "uploading" THEN late ELSE late \cup {s}
  /\ writer' = [writer EXCEPT ![s].pc = "staged"]
  /\ UNCHANGED <<head, packs, drafts, ledger, job, comp, sweep, refused>>

\* Nothing is deleted after a timeout; a timeout or a pack that is too large is a refusal.
IngestFails(s, remote, after) ==
  /\ writer[s].pc \in {"restore", "ingest", "staged"}
  /\ writer[s].owner \in Compactors /\ ~remote => after = "complete"
  /\ GiveUp(s, remote, after)
  /\ UNCHANGED <<head, packs, drafts, ledger, object, job, comp, sweep, late, refused>>

HoldsLease(c) == job.present /\ job.holder = c /\ ~job.expired

\* The renewal before publication.
FinalRenewal(c) ==
  LET s == comp[c].seg IN
  /\ comp[c].pc = "work" /\ writer[s].pc = "staged"
  /\ IF HoldsLease(c) THEN writer' = [writer EXCEPT ![s].pc = "renewed"] ELSE GiveUp(s, TRUE, "stale")
  /\ UNCHANGED <<head, packs, drafts, ledger, object, job, comp, sweep, late, refused>>

MarkReady(s) ==
  /\ writer[s].pc = IF writer[s].owner \in Compactors THEN "renewed" ELSE "staged"
  /\ IF ledger[s] = "uploading"
       THEN /\ ledger' = [ledger EXCEPT ![s] = "ready"]
            /\ writer' = [writer EXCEPT ![s].pc = "ready"]
       ELSE GiveUp(s, TRUE, "fail") /\ UNCHANGED ledger
  /\ UNCHANGED <<head, packs, drafts, object, job, comp, sweep, late, refused>>

\* The process is gone, and its upload with it.
WriterDies(s) ==
  /\ writer[s].pc \notin {"none", "done"} /\ writer[s].owner \notin Compactors
  /\ writer' = [writer EXCEPT ![s] = Gone]
  /\ UNCHANGED <<head, packs, drafts, ledger, object, job, comp, sweep, late, refused>>

-----------------------------------------------------------------------------
(* Pushes                                                                   *)

\* schedule_git_compaction: a job that exists keeps its lease and its due time.
Scheduled(target) ==
  IF job.present THEN [job EXCEPT !.target = target]
  ELSE [present |-> TRUE, target |-> target, holder |-> None, expired |-> FALSE, due |-> TRUE]

Pushed(seg) ==
  /\ head' = head + 1
  /\ packs' = packs \cup {[first |-> head + 1, last |-> head + 1, seg |-> seg]}
  /\ job' = Scheduled(head + 1)
  /\ refused' = FALSE

PushInline ==
  /\ head < MaxPushes
  /\ Pushed(Inline)
  /\ UNCHANGED <<drafts, ledger, object, writer, comp, sweep, late>>

\* The push commits on the head it was staged on; its reply may be lost.
PublishMain(s, lost) ==
  /\ writer[s].owner = "main" /\ writer[s].pc = "ready"
  /\ writer[s].content = {head + 1} /\ CanPublish(s)
  /\ Pushed(s)
  /\ ledger' = [ledger EXCEPT ![s] = "published"]
  /\ IF lost THEN GiveUp(s, TRUE, "none") ELSE writer' = [writer EXCEPT ![s] = Gone]
  /\ UNCHANGED <<drafts, object, comp, sweep, late>>

PublishRequest(s, lost) ==
  /\ writer[s].owner = "request" /\ writer[s].pc = "ready" /\ CanPublish(s)
  /\ drafts' = drafts \cup {s}
  /\ ledger' = [ledger EXCEPT ![s] = "published"]
  /\ IF lost THEN GiveUp(s, TRUE, "none") ELSE writer' = [writer EXCEPT ![s] = Gone]
  /\ UNCHANGED <<head, packs, object, job, comp, sweep, late, refused>>

\* Main has moved, the push is refused, or the row has been given up.
PublishFails(s) ==
  /\ writer[s].owner \notin Compactors /\ writer[s].pc = "ready"
  /\ GiveUp(s, TRUE, "none")
  /\ UNCHANGED <<head, packs, drafts, ledger, object, job, comp, sweep, late, refused>>

\* persist_deleted_draft
DeleteDraft(s) ==
  /\ s \in drafts
  /\ drafts' = drafts \ {s}
  /\ ledger' = Retired(ledger, {s}, packs)
  /\ UNCHANGED <<head, packs, object, job, writer, comp, sweep, late, refused>>

-----------------------------------------------------------------------------
(* Giving up an upload: abandon_upload, best_effort_delete_git_segment      *)

AbandonUpload(s) ==
  /\ writer[s].pc = "abandon"
  /\ \/ /\ CanAbandon(s)
        /\ ledger' = [ledger EXCEPT ![s] = "deleting"]
        /\ writer' = [writer EXCEPT ![s] = IF @.remote THEN [@ EXCEPT !.pc = "remote"] ELSE Settled(@)]
     \/ /\ writer' = [writer EXCEPT ![s] = Settled(@)]
        /\ UNCHANGED ledger
  /\ UNCHANGED <<head, packs, drafts, object, job, comp, sweep, late, refused>>

CleanupRemote(s, fails) ==
  /\ writer[s].pc = "remote"
  /\ object' = IF fails THEN object ELSE [object EXCEPT ![s] = {}]
  /\ writer' = [writer EXCEPT ![s] = IF fails THEN Settled(@) ELSE [@ EXCEPT !.pc = "settle"]]
  /\ UNCHANGED <<head, packs, drafts, ledger, job, comp, sweep, late, refused>>

MarkDeleted(s) ==
  /\ writer[s].pc = "settle"
  /\ ledger' = [ledger EXCEPT ![s] = IF @ = "deleting" THEN "deleted" ELSE @]
  /\ writer' = [writer EXCEPT ![s] = Settled(@)]
  /\ UNCHANGED <<head, packs, drafts, object, job, comp, sweep, late, refused>>

-----------------------------------------------------------------------------
(* Compaction                                                               *)

IdleComp == [pc |-> "idle", target |-> 0, plan |-> {}, seg |-> None]

Claimable == job.present /\ job.due /\ (job.holder = None \/ job.expired)

\* claim_git_compaction
Claim(c) ==
  /\ comp[c].pc = "idle" /\ ChainIsValid(packs) /\ Claimable
  /\ job' = [job EXCEPT !.holder = c, !.expired = FALSE]
  /\ LET pair == Select(packs) IN
       comp' = [comp EXCEPT ![c] = [pc |-> IF pair = {} THEN "drain" ELSE "begin",
                                    target |-> job.target, seg |-> None,
                                    plan |-> UNION {{p[1], p[2]} : p \in pair}]]
  /\ UNCHANGED <<head, packs, drafts, ledger, object, writer, sweep, late, refused>>

Freed(j) == [j EXCEPT !.holder = None, !.expired = FALSE, !.due = TRUE]

\* complete_git_compaction_claim
Completed(c) ==
  IF ~job.present \/ job.holder # c THEN job
  ELSE IF job.target > comp[c].target THEN Freed(job) ELSE [Freed(job) EXCEPT !.present = FALSE]

\* continue_git_compaction_claim and fail_git_compaction_claim
Continued(c) == IF job.present /\ job.holder = c THEN Freed(job) ELSE job
Failed(c) == IF job.present /\ job.holder = c THEN [Freed(job) EXCEPT !.due = FALSE] ELSE job

\* There was nothing to compact.
Drain(c) ==
  /\ comp[c].pc = "drain"
  /\ job' = Completed(c)
  /\ comp' = [comp EXCEPT ![c] = IdleComp]
  /\ UNCHANGED <<head, packs, drafts, ledger, object, writer, sweep, late, refused>>

BeginCompaction(c, s) ==
  /\ comp[c].pc = "begin" /\ Begins(s)
  /\ writer' = [writer EXCEPT ![s] = [NoWriter EXCEPT !.owner = c, !.pc = "restore"]]
  /\ comp' = [comp EXCEPT ![c].pc = "work", ![c].seg = s]
  /\ UNCHANGED <<head, packs, drafts, object, job, sweep, late, refused>>

Replacement(c) ==
  [first |-> CHOOSE n \in Pushes : \E p \in comp[c].plan : p.first = n /\ \A q \in comp[c].plan : n =< q.first,
   last |-> CHOOSE n \in Pushes : \E p \in comp[c].plan : p.last = n /\ \A q \in comp[c].plan : q.last =< n,
   seg |-> comp[c].seg]

\* Mutant: the packs of the plan need not be there any more.
StillCurrent_Overlaps(c) == \A p \in comp[c].plan : p.last =< head

StillCurrent(c) == comp[c].plan \subseteq packs

\* replace_main_pool_packs_with_compaction; its reply may be lost.
Replace(c, lost) ==
  LET s == comp[c].seg
      left == (packs \ comp[c].plan) \cup {Replacement(c)}
  IN
  /\ comp[c].pc = "work" /\ writer[s].pc = "ready" /\ StillCurrent(c) /\ CanPublish(s)
  /\ packs' = left
  /\ ledger' = Retired([ledger EXCEPT ![s] = "published"],
                       {p.seg : p \in comp[c].plan} \cap Segments, left)
  /\ writer' = [writer EXCEPT ![s] = IF lost THEN [@ EXCEPT !.pc = "failing"]
                                    ELSE Settled([@ EXCEPT !.after = "continue"])]
  /\ UNCHANGED <<head, drafts, object, job, comp, sweep, late, refused>>

\* The packs of the plan have been replaced by someone else.
ReplaceStale(c) ==
  LET s == comp[c].seg IN
  /\ comp[c].pc = "work" /\ writer[s].pc = "ready" /\ ~StillCurrent(c)
  /\ ledger' = Retired(ledger, {s}, packs)
  /\ writer' = [writer EXCEPT ![s].pc = "remote", ![s].after = "continue"]
  /\ UNCHANGED <<head, packs, drafts, object, job, comp, sweep, late, refused>>

ReplaceFails(c) ==
  LET s == comp[c].seg IN
  /\ comp[c].pc = "work" /\ writer[s].pc = "ready"
  /\ writer' = [writer EXCEPT ![s].pc = "failing"]
  /\ UNCHANGED <<head, packs, drafts, ledger, object, job, comp, sweep, late, refused>>

\* After an error the job is failed first, and the upload given up then.
FailFirst(c) ==
  LET s == comp[c].seg IN
  /\ comp[c].pc = "work" /\ writer[s].pc = "failing"
  /\ job' = Failed(c)
  /\ GiveUp(s, TRUE, "none")
  /\ UNCHANGED <<head, packs, drafts, ledger, object, comp, sweep, late, refused>>

\* What is left to do to the job once the upload is settled.
EndAttempt(c) ==
  LET s == comp[c].seg IN
  /\ comp[c].pc = "work" /\ writer[s].pc = "done"
  /\ job' = CASE writer[s].after = "complete" -> Completed(c)
              [] writer[s].after = "continue" -> Continued(c)
              [] writer[s].after = "fail" -> Failed(c)
              [] OTHER -> job
  /\ refused' = (refused \/ (writer[s].after = "complete" /\ job.present
                             /\ job.holder = c /\ job.target = comp[c].target))
  /\ comp' = [comp EXCEPT ![c] = IdleComp]
  /\ writer' = [writer EXCEPT ![s] = Gone]
  /\ UNCHANGED <<head, packs, drafts, ledger, object, sweep, late>>

CompactorDies(c) ==
  /\ comp[c].pc # "idle"
  /\ comp' = [comp EXCEPT ![c] = IdleComp]
  /\ writer' = IF comp[c].pc = "work" THEN [writer EXCEPT ![comp[c].seg] = Gone] ELSE writer
  /\ UNCHANGED <<head, packs, drafts, ledger, object, job, sweep, late, refused>>

LeaseExpires ==
  /\ job.present /\ job.holder # None /\ ~job.expired
  /\ job' = [job EXCEPT !.expired = TRUE]
  /\ UNCHANGED <<head, packs, drafts, ledger, object, writer, comp, sweep, late, refused>>

JobIsDue ==
  /\ job.present /\ ~job.due
  /\ job' = [job EXCEPT !.due = TRUE]
  /\ UNCHANGED <<head, packs, drafts, ledger, object, writer, comp, sweep, late, refused>>

-----------------------------------------------------------------------------
(* The recovery sweep                                                       *)

IdleSweep == [pc |-> "idle", seg |-> None, deleting |-> FALSE]

\* Mutant: only uploads that were never published are looked for.
IsStale_Uploads(s) == ledger[s] \in {"uploading", "ready"}

IsStale(s) == ledger[s] \in {"uploading", "ready", "deleting"}

\* load_stale_git_segment_uploads: the row is acted upon later, as it was read.
LoadStale(w, s) ==
  /\ sweep[w].pc = "idle" /\ IsStale(s)
  /\ sweep' = [sweep EXCEPT ![w] = [pc |-> "decide", seg |-> s, deleting |-> ledger[s] = "deleting"]]
  /\ UNCHANGED <<head, packs, drafts, ledger, object, job, writer, comp, late, refused>>

MayDelete(w) ==
  LET s == sweep[w].seg IN
  /\ sweep[w].pc = "decide"
  /\ IF sweep[w].deleting THEN UNCHANGED ledger
     ELSE CanAbandon(s) /\ ledger' = [ledger EXCEPT ![s] = "deleting"]
  /\ sweep' = [sweep EXCEPT ![w].pc = "remote"]
  /\ UNCHANGED <<head, packs, drafts, object, job, writer, comp, late, refused>>

Skip(w) ==
  /\ sweep[w].pc = "decide" /\ ~sweep[w].deleting /\ ~CanAbandon(sweep[w].seg)
  /\ sweep' = [sweep EXCEPT ![w] = IdleSweep]
  /\ UNCHANGED <<head, packs, drafts, ledger, object, job, writer, comp, late, refused>>

SweepRemote(w) ==
  /\ sweep[w].pc = "remote"
  /\ object' = [object EXCEPT ![sweep[w].seg] = {}]
  /\ sweep' = [sweep EXCEPT ![w].pc = "mark"]
  /\ UNCHANGED <<head, packs, drafts, ledger, job, writer, comp, late, refused>>

SweepMark(w) ==
  LET s == sweep[w].seg IN
  /\ sweep[w].pc = "mark"
  /\ ledger' = [ledger EXCEPT ![s] = IF @ = "deleting" THEN "deleted" ELSE @]
  /\ sweep' = [sweep EXCEPT ![w] = IdleSweep]
  /\ UNCHANGED <<head, packs, drafts, object, job, writer, comp, late, refused>>

\* An error ends the pass; so does the end of the process.
SweepStops(w) ==
  /\ sweep[w].pc # "idle"
  /\ sweep' = [sweep EXCEPT ![w] = IdleSweep]
  /\ UNCHANGED <<head, packs, drafts, ledger, object, job, writer, comp, late, refused>>

-----------------------------------------------------------------------------
(* The specification                                                        *)

Init ==
  /\ head = 0 /\ packs = {} /\ drafts = {}
  /\ ledger = [s \in Segments |-> "none"]
  /\ object = [s \in Segments |-> {}]
  /\ job = [present |-> FALSE, target |-> 0, holder |-> None, expired |-> FALSE, due |-> TRUE]
  /\ writer = [s \in Segments |-> NoWriter]
  /\ comp = [c \in Compactors |-> IdleComp]
  /\ sweep = [w \in Sweepers |-> IdleSweep]
  /\ late = {} /\ refused = FALSE

Upload(s) ==
  \/ Ingest(s) \/ MarkReady(s) \/ AbandonUpload(s) \/ MarkDeleted(s)
  \/ \E fails \in BOOLEAN : CleanupRemote(s, fails)

Push(s) ==
  \/ \E owner \in {"main", "request"} : BeginPush(s, owner)
  \/ (\E lost \in BOOLEAN : PublishMain(s, lost) \/ PublishRequest(s, lost))
  \/ PublishFails(s) \/ DeleteDraft(s) \/ WriterDies(s)
  \/ (\E remote \in BOOLEAN : writer[s].owner \notin Compactors /\ IngestFails(s, remote, "none"))

Compact(c) ==
  \/ Claim(c) \/ Drain(c) \/ Restore(c) \/ FinalRenewal(c)
  \/ Replace(c, FALSE) \/ ReplaceStale(c) \/ FailFirst(c) \/ EndAttempt(c)
  \/ \E s \in Segments : BeginCompaction(c, s)

CompactFails(c) ==
  \/ Replace(c, TRUE) \/ ReplaceFails(c) \/ CompactorDies(c)
  \/ (comp[c].pc = "work" /\ \E remote \in BOOLEAN, after \in {"complete", "fail"} :
        IngestFails(comp[c].seg, remote, after))

Sweep(w) == (\E s \in Segments : LoadStale(w, s)) \/ MayDelete(w) \/ Skip(w) \/ SweepRemote(w) \/ SweepMark(w)

Next ==
  \/ PushInline \/ LeaseExpires \/ JobIsDue
  \/ \E s \in Segments : Upload(s) \/ Push(s)
  \/ \E c \in Compactors : Compact(c) \/ CompactFails(c)
  \/ \E w \in Sweepers : Sweep(w) \/ SweepStops(w)

Spec == Init /\ [][Next]_vars

-----------------------------------------------------------------------------
(* Properties                                                               *)

LedgerStates == {"none", "uploading", "ready", "published", "deleting", "deleted"}
Packs == [first : Pushes, last : Pushes, seg : Segments \cup {Inline}]

TypeOK ==
  /\ head \in 0..MaxPushes /\ packs \subseteq Packs /\ drafts \subseteq Segments
  /\ ledger \in [Segments -> LedgerStates]
  /\ object \in [Segments -> SUBSET Pushes]
  /\ job \in [present : BOOLEAN, target : 0..MaxPushes, holder : Compactors \cup {None},
              expired : BOOLEAN, due : BOOLEAN]
  /\ writer \in [Segments ->
       [owner : Compactors \cup {None, "main", "request"},
        pc : {"none", "restore", "ingest", "staged", "renewed", "ready", "failing", "abandon",
              "remote", "settle", "done"},
        content : SUBSET Pushes, remote : BOOLEAN,
        after : {"none", "stale", "complete", "fail", "continue"}]]
  /\ comp \in [Compactors -> [pc : {"idle", "drain", "begin", "work"}, target : 0..MaxPushes,
                              plan : SUBSET Packs, seg : Segments \cup {None}]]
  /\ sweep \in [Sweepers -> [pc : {"idle", "decide", "remote", "mark"}, seg : Segments \cup {None},
                             deleting : BOOLEAN]]
  /\ late \subseteq Segments /\ refused \in BOOLEAN

\* The packs of main always cover its history without a gap or an overlap, in spans
\* that the next plan accepts.
MainIsCovered ==
  /\ ChainIsValid(packs)
  /\ UNION {p.first..p.last : p \in packs} = 1..head

\* Every registered pack can be read: its segment is published and stored, and holds
\* what the row says, whoever retired, swept or gave up what in the meantime.
PacksAreStored ==
  /\ \A p \in packs : p.seg # Inline => ledger[p.seg] = "published" /\ object[p.seg] = p.first..p.last
  /\ \A s \in drafts : ledger[s] = "published" /\ object[s] # {}

\* No bytes are forgotten: what is stored has a row that the sweep or a pack still
\* knows, unless the upload ended after the row had been given up.
StoredIsTracked ==
  \A s \in Segments : object[s] # {} => ledger[s] \notin {"none", "deleted"} \/ s \in late

\* No sweep and no worker stops half-way.
PassesGoWell ==
  /\ \A w \in Sweepers : ~SweepStops(w)
  /\ \A c \in Compactors : ~CompactorDies(c)

\* A segment does not stay in between: whatever writers, workers and sweeps died before,
\* once passes go well it is published, or its bytes are deleted.
SegmentsSettle ==
  <>[][PassesGoWell]_vars =>
    \A s \in Segments :
      ledger[s] \in {"uploading", "ready", "deleting"} ~> ledger[s] \in {"published", "deleted"}

\* Two packs that can be merged are merged in the end, or the attempt is refused, although
\* workers die and lose leases; the instance has finitely many segments to try with.
PacksAreMerged ==
  <>[][PassesGoWell]_vars =>
    (Select(packs) # {} ~> (Select(packs) = {} \/ refused \/ \A s \in Segments : ledger[s] # "none"))
=============================================================================
