------------------------- MODULE GitStorageProofs -------------------------
(***************************************************************************)
(* What GitSegments promises about the packs of a repository and GitCache  *)
(* about the handles of its local copy, proved for any number of segments, *)
(* workers, sweeps, pushes, requests and heads.                            *)
(***************************************************************************)
EXTENDS GitStorage, TLAPS

-----------------------------------------------------------------------------
(* Type correctness, row by row                                             *)

JobRows ==
  [present : BOOLEAN, target : 0..MaxPushes, holder : Compactors \cup {None},
   expired : BOOLEAN, due : BOOLEAN]
WriterPcs ==
  {"none", "restore", "ingest", "staged", "renewed", "ready", "failing", "abandon", "remote",
   "settle", "done"}
Afters == {"none", "stale", "complete", "fail", "continue"}
WriterRows ==
  [owner : Compactors \cup {None, "main", "request"}, pc : WriterPcs, content : SUBSET Pushes,
   remote : BOOLEAN, after : Afters]
CompRows ==
  [pc : {"idle", "drain", "begin", "work"}, target : 0..MaxPushes, plan : SUBSET Packs,
   seg : Segments \cup {None}]
SweepRows ==
  [pc : {"idle", "decide", "remote", "mark"}, seg : Segments \cup {None}, deleting : BOOLEAN]

LEMMA TypeByRow ==
  TypeOK <=> /\ head \in 0..MaxPushes /\ packs \in SUBSET Packs /\ drafts \in SUBSET Segments
             /\ ledger \in [Segments -> LedgerStates]
             /\ object \in [Segments -> SUBSET Pushes]
             /\ job \in JobRows
             /\ writer \in [Segments -> WriterRows]
             /\ comp \in [Compactors -> CompRows]
             /\ sweep \in [Sweepers -> SweepRows]
             /\ late \in SUBSET Segments /\ refused \in BOOLEAN
  BY DEF TypeOK, JobRows, WriterRows, WriterPcs, Afters, CompRows, SweepRows

LEMMA TypeByNextRow ==
  TypeOK' <=> /\ head' \in 0..MaxPushes /\ packs' \in SUBSET Packs /\ drafts' \in SUBSET Segments
              /\ ledger' \in [Segments -> LedgerStates]
              /\ object' \in [Segments -> SUBSET Pushes]
              /\ job' \in JobRows
              /\ writer' \in [Segments -> WriterRows]
              /\ comp' \in [Compactors -> CompRows]
              /\ sweep' \in [Sweepers -> SweepRows]
              /\ late' \in SUBSET Segments /\ refused' \in BOOLEAN
  BY DEF TypeOK, JobRows, WriterRows, WriterPcs, Afters, CompRows, SweepRows

LEMMA ConstantRows ==
  /\ NoWriter \in WriterRows /\ Gone \in WriterRows
  /\ Gone.pc = "done" /\ Gone.owner = None
  /\ IdleComp \in CompRows /\ IdleComp.pc = "idle"
  /\ IdleSweep \in SweepRows /\ IdleSweep.pc = "idle"
<1>1. 0 \in 0..MaxPushes
  BY SegmentAssumption
<1>2. NoWriter \in WriterRows /\ IdleSweep \in SweepRows /\ IdleSweep.pc = "idle"
  BY DEF NoWriter, WriterRows, WriterPcs, Afters, None, IdleSweep, SweepRows
<1>3. Gone \in WriterRows /\ Gone.pc = "done" /\ Gone.owner = None
  BY <1>2 DEF Gone, NoWriter, WriterRows, WriterPcs
<1>4. IdleComp \in CompRows /\ IdleComp.pc = "idle"
  BY <1>1 DEF IdleComp, CompRows
<1> QED
  BY <1>2, <1>3, <1>4

LEMMA SettledRow ==
  ASSUME NEW wr \in WriterRows
  PROVE  /\ Settled(wr) \in WriterRows /\ Settled(wr).pc = "done"
         /\ wr.owner \in Compactors => Settled(wr).owner = wr.owner
         /\ wr.owner \notin Compactors => Settled(wr).owner = None
<1>1. CASE wr.owner \in Compactors
  BY <1>1, ConstantRows DEF Settled, WriterRows
<1>2. CASE wr.owner \notin Compactors
  BY <1>2, ConstantRows DEF Settled
<1> QED
  BY <1>1, <1>2

\* A writer's row after its pc has moved.
LEMMA PcMoves ==
  ASSUME writer \in [Segments -> WriterRows], NEW s \in Segments, NEW c \in WriterPcs,
         writer' = [writer EXCEPT ![s].pc = c]
  PROVE  /\ writer' \in [Segments -> WriterRows]
         /\ \A x \in Segments \ {s} : writer'[x] = writer[x]
         /\ writer'[s].pc = c /\ writer'[s].owner = writer[s].owner
         /\ writer'[s].content = writer[s].content
<1> DEFINE row == [writer[s] EXCEPT !.pc = c]
<1>1. /\ row \in WriterRows /\ row.pc = c /\ row.owner = writer[s].owner
      /\ row.content = writer[s].content
  BY DEF WriterRows
<1>2. writer' = [writer EXCEPT ![s] = row]
  BY DEF WriterRows
<1> HIDE DEF row
<1> QED
  BY <1>1, <1>2

LEMMA GivesUp ==
  ASSUME writer \in [Segments -> WriterRows], NEW s \in Segments, NEW remote \in BOOLEAN,
         NEW after \in Afters, GiveUp(s, remote, after)
  PROVE  /\ writer' \in [Segments -> WriterRows]
         /\ \A x \in Segments \ {s} : writer'[x] = writer[x]
         /\ writer'[s].pc = "abandon" /\ writer'[s].owner = writer[s].owner
         /\ writer'[s].content = writer[s].content
<1> DEFINE row == [writer[s] EXCEPT !.pc = "abandon", !.remote = remote, !.after = after]
<1>1. /\ row \in WriterRows /\ row.pc = "abandon" /\ row.owner = writer[s].owner
      /\ row.content = writer[s].content
  BY DEF WriterRows, WriterPcs
<1>2. writer' = [writer EXCEPT ![s] = row]
  BY DEF GiveUp, WriterRows
<1> HIDE DEF row
<1> QED
  BY <1>1, <1>2

LEMMA JobChanges ==
  ASSUME job \in JobRows, NEW c \in Compactors, NEW t \in 0..MaxPushes
  PROVE  /\ Scheduled(t) \in JobRows /\ Freed(job) \in JobRows
         /\ Completed(c) \in JobRows /\ Continued(c) \in JobRows /\ Failed(c) \in JobRows
         /\ [job EXCEPT !.holder = c, !.expired = FALSE] \in JobRows
         /\ [job EXCEPT !.expired = TRUE] \in JobRows
         /\ [job EXCEPT !.due = TRUE] \in JobRows
<1>1. Scheduled(t) \in JobRows
  BY DEF Scheduled, JobRows
<1>2. Freed(job) \in JobRows
  BY DEF Freed, JobRows
<1>3. Completed(c) \in JobRows /\ Continued(c) \in JobRows /\ Failed(c) \in JobRows
  <2> DEFINE f == Freed(job)
  <2>1. [f EXCEPT !.present = FALSE] \in JobRows /\ [f EXCEPT !.due = FALSE] \in JobRows
    BY <1>2 DEF JobRows
  <2> QED
    BY <1>2, <2>1 DEF Completed, Continued, Failed
<1>4. /\ [job EXCEPT !.holder = c, !.expired = FALSE] \in JobRows
      /\ [job EXCEPT !.expired = TRUE] \in JobRows
      /\ [job EXCEPT !.due = TRUE] \in JobRows
  BY DEF JobRows
<1> QED
  BY <1>1, <1>2, <1>3, <1>4

-----------------------------------------------------------------------------
(* The inductive invariant                                                  *)

\* The rows that have been given up; a row never leaves these states again.
Dead == {"deleting", "deleted"}

\* The writer is beyond publication, whether it published or not.
Past == {"failing", "abandon", "remote", "settle", "done"}

\* The writer has what it is going to store.
Filled == {"ingest", "staged", "renewed", "ready"}

Disjoint(p, q) == p.last < q.first \/ q.last < p.first

Chain ==
  /\ \A p \in packs : p.last =< head /\ p.first =< p.last /\ Span(p) \in PowersOfTwo
  /\ \A p, q \in packs : p # q => Disjoint(p, q)
  /\ \A n \in 1..head : \E p \in packs : p.first =< n /\ n =< p.last

\* A segment's row, its bytes and its writer.
Row(s) ==
  /\ ledger[s] = "none" => writer[s].pc = "none" /\ writer[s].owner = None /\ object[s] = {}
  /\ Referenced(s) => writer[s].pc \in {"failing", "abandon", "done"}
  /\ ~(OfMain(s) /\ s \in drafts)
  /\ writer[s].pc = "ready" => ledger[s] = "ready" \/ ledger[s] \in Dead
  /\ writer[s].pc \in {"remote", "settle"} => ledger[s] \in Dead
  /\ writer[s].pc \in {"staged", "renewed", "ready"} /\ ledger[s] \in {"uploading", "ready"}
       => object[s] = writer[s].content
  /\ writer[s].pc \in Filled /\ writer[s].owner \notin Compactors => writer[s].content # {}
  /\ writer[s].pc = "settle" => object[s] = {} \/ s \in late
  /\ object[s] # {} /\ ledger[s] = "deleted" => s \in late

\* What a sweep deletes has been given up.
SweepSound(w) ==
  /\ sweep[w].pc # "idle" => sweep[w].seg \in Segments
  /\ sweep[w].pc \in {"remote", "mark"} \/ (sweep[w].pc = "decide" /\ sweep[w].deleting)
       => ledger[sweep[w].seg] \in Dead
  /\ sweep[w].pc = "mark" => object[sweep[w].seg] = {} \/ sweep[w].seg \in late

\* A plan is two neighbours of one size that were packs of main.
Neighbours(p, q) ==
  /\ p.first =< p.last /\ Follows(p, q) /\ Span(p) = Span(q) /\ Span(p) \in PowersOfTwo

PlanSound(c) ==
  /\ \E p, q \in Packs : comp[c].plan = {p, q} /\ Neighbours(p, q) /\ q.last =< head
  /\ \A x \in comp[c].plan : x.seg # Inline => writer[x.seg].pc \in Past

\* What the worker has read are the packs of its plan, if they are still there.
WorkSound(c) ==
  /\ comp[c].seg \in Segments /\ writer[comp[c].seg].owner = c
  /\ writer[comp[c].seg].pc \in Filled /\ comp[c].plan \subseteq packs
       => writer[comp[c].seg].content = UNION {p.first..p.last : p \in comp[c].plan}

CompSound(c) ==
  /\ comp[c].pc \in {"begin", "work"} => PlanSound(c)
  /\ comp[c].pc = "work" => WorkSound(c)

Rows == \A s \in Segments : Row(s)
Sweeps == \A w \in Sweepers : SweepSound(w)
Comps == \A c \in Compactors : CompSound(c)

SegmentInv == TypeOK /\ Chain /\ PacksAreStored /\ Rows /\ Sweeps /\ Comps

-----------------------------------------------------------------------------
(* Steps that publish nothing                                               *)

\* Nothing happens to the other segments.
Elsewhere(s) ==
  \A x \in Segments \ {s} : /\ ledger'[x] = ledger[x] /\ object'[x] = object[x]
                            /\ writer'[x] = writer[x]

\* A segment that was given up is not taken up again.
StaysDead(s) ==
  /\ ledger'[s] \in Dead
  /\ object[s] = {} \/ s \in late => object'[s] = {} \/ s \in late'

\* What no step does to a segment that is given up, beyond publication, or referenced
\* and stays so.
Advances(s) ==
  /\ ledger[s] \in Dead => StaysDead(s)
  /\ writer[s].pc \in Past => writer'[s].pc \in Past
  /\ Referenced(s) => ledger'[s] = ledger[s] /\ object'[s] = object[s]

\* The worker keeps its segment, and what it has read.
Keeps(s) ==
  writer[s].owner \in Compactors =>
    /\ writer'[s].owner = writer[s].owner
    /\ writer'[s].pc \in Filled => writer[s].pc \in Filled /\ writer'[s].content = writer[s].content

LEMMA StoredStay ==
  ASSUME TypeOK, PacksAreStored, UNCHANGED <<packs, drafts>>, \A s \in Segments : Advances(s)
  PROVE  PacksAreStored'
<1>1. packs \subseteq Packs /\ drafts \subseteq Segments
  BY DEF TypeOK
<1>2. \A p \in packs : p.seg # Inline => p.seg \in Segments /\ Referenced(p.seg)
  BY <1>1 DEF Packs, Referenced, OfMain
<1>3. \A s \in drafts : s \in Segments /\ Referenced(s)
  BY <1>1 DEF Referenced
<1> QED
  BY <1>2, <1>3 DEF PacksAreStored, Advances

LEMMA SweepsStay ==
  ASSUME Sweeps, NEW w \in Sweepers, sweep'[w] = sweep[w],
         \A s \in Segments : ledger[s] \in Dead => StaysDead(s)
  PROVE  SweepSound(w)'
  BY DEF Sweeps, SweepSound, StaysDead

\* A plan stays sound; its packs do not come back once they are gone.
LEMMA CompsStay ==
  ASSUME TypeOK, TypeOK', Comps, NEW c \in Compactors, comp'[c] = comp[c], head =< head',
         comp[c].pc = "work" /\ comp[c].plan \subseteq packs' => comp[c].plan \subseteq packs,
         \A s \in Segments : writer[s].pc \in Past => writer'[s].pc \in Past,
         comp[c].pc = "work" => Keeps(comp[c].seg)
  PROVE  CompSound(c)'
<1>t. head \in Nat /\ head' \in Nat /\ comp[c] \in CompRows
  BY TypeByRow, TypeByNextRow, SegmentAssumption
<1>1. ASSUME comp[c].pc \in {"begin", "work"} PROVE PlanSound(c)'
  <2>1. PlanSound(c)
    BY <1>1 DEF Comps, CompSound
  <2>2. \A x \in comp[c].plan : x.seg # Inline => x.seg \in Segments
    BY <1>t DEF CompRows, Packs
  <2>3. \A q \in Packs : q.last =< head => q.last =< head'
    BY <1>t DEF Packs, Pushes
  <2>4. \E p, q \in Packs : comp'[c].plan = {p, q} /\ Neighbours(p, q) /\ q.last =< head'
    BY <2>1, <2>3 DEF PlanSound
  <2>5. \A x \in comp'[c].plan : x.seg # Inline => writer'[x.seg].pc \in Past
    BY <2>1, <2>2 DEF PlanSound
  <2> QED
    BY <2>4, <2>5 DEF PlanSound
<1>2. ASSUME comp[c].pc = "work" PROVE WorkSound(c)'
  <2>1. WorkSound(c)
    BY <1>2 DEF Comps, CompSound
  <2> QED
    BY <1>2, <2>1 DEF WorkSound, Keeps
<1> QED
  BY <1>1, <1>2 DEF CompSound

LEMMA RowsElsewhere ==
  ASSUME Rows, NEW s \in Segments, Elsewhere(s), late \subseteq late',
         UNCHANGED <<packs, drafts>>
  PROVE  \A x \in Segments \ {s} : Row(x)'
<1> SUFFICES ASSUME NEW x \in Segments \ {s} PROVE Row(x)'
  OBVIOUS
<1>1. Row(x)
  BY DEF Rows
<1>2. (OfMain(x)' <=> OfMain(x)) /\ (Referenced(x)' <=> Referenced(x))
  BY DEF OfMain, Referenced
<1>3. ledger'[x] = ledger[x] /\ object'[x] = object[x] /\ writer'[x] = writer[x]
  BY DEF Elsewhere
<1> QED
  BY <1>1, <1>2, <1>3 DEF Row

LEMMA AdvancesElsewhere ==
  ASSUME NEW s \in Segments, Elsewhere(s), late \subseteq late'
  PROVE  \A x \in Segments \ {s} : Advances(x) /\ Keeps(x)
  BY DEF Elsewhere, Advances, StaysDead, Keeps

\* A step on one segment that publishes nothing, perhaps with one worker or sweep.
LEMMA SegmentStep ==
  ASSUME SegmentInv, TypeOK', NEW s \in Segments, Elsewhere(s), late \subseteq late',
         UNCHANGED <<head, packs, drafts>>, Advances(s), Row(s)',
         \A w \in Sweepers : sweep'[w] = sweep[w] \/ SweepSound(w)',
         \A c \in Compactors :
           \/ CompSound(c)'
           \/ comp'[c] = comp[c] /\ (comp[c].pc = "work" => comp[c].seg # s \/ Keeps(s))
  PROVE  SegmentInv'
<1>1. \A x \in Segments : Advances(x) /\ (x # s => Keeps(x))
  BY AdvancesElsewhere
<1>2. Rows'
  BY RowsElsewhere DEF SegmentInv, Rows
<1>3. PacksAreStored'
  BY <1>1, StoredStay DEF SegmentInv
<1>4. Chain'
  BY DEF SegmentInv, Chain
<1>5. Sweeps'
  BY <1>1, SweepsStay DEF SegmentInv, Sweeps, Advances
<1>6. Comps'
  <2>1. \A x \in Segments : writer[x].pc \in Past => writer'[x].pc \in Past
    BY <1>1 DEF Advances
  <2>3. head =< head'
    BY TypeByRow, SegmentAssumption DEF SegmentInv
  <2>4. ASSUME NEW c \in Compactors PROVE CompSound(c)'
    <3>1. comp[c].pc = "work" => comp[c].seg \in Segments
      BY DEF SegmentInv, Comps, CompSound, WorkSound
    <3> QED
      BY <1>1, <2>1, <2>3, <3>1, CompsStay DEF SegmentInv
  <2> QED
    BY <2>4 DEF Comps
<1> QED
  BY <1>2, <1>3, <1>4, <1>5, <1>6 DEF SegmentInv

LEMMA QuietStep ==
  ASSUME SegmentInv, TypeOK', NEW s \in Segments, Elsewhere(s), late \subseteq late',
         UNCHANGED <<head, packs, drafts, comp, sweep>>,
         Advances(s), Keeps(s), Row(s)'
  PROVE  SegmentInv'
<1>1. \A w \in Sweepers : sweep'[w] = sweep[w] \/ SweepSound(w)'
  OBVIOUS
<1>2. \A c \in Compactors :
        \/ CompSound(c)'
        \/ comp'[c] = comp[c] /\ (comp[c].pc = "work" => comp[c].seg # s \/ Keeps(s))
  OBVIOUS
<1> QED
  BY <1>1, <1>2, SegmentStep

\* A step of one worker or sweep that touches no segment.
LEMMA IdleStep ==
  ASSUME SegmentInv, TypeOK',
         UNCHANGED <<head, packs, drafts, ledger, object, writer, late>>,
         \A w \in Sweepers : sweep'[w] = sweep[w] \/ SweepSound(w)',
         \A c \in Compactors : comp'[c] = comp[c] \/ CompSound(c)'
  PROVE  SegmentInv'
<1>1. \A x \in Segments : Advances(x) /\ Keeps(x)
  BY DEF Advances, StaysDead, Keeps
<1>2. Rows'
  <2>1. ASSUME NEW x \in Segments PROVE Row(x)'
    <3>1. Row(x) /\ (OfMain(x)' <=> OfMain(x)) /\ (Referenced(x)' <=> Referenced(x))
      BY DEF SegmentInv, Rows, OfMain, Referenced
    <3> QED
      BY <3>1 DEF Row
  <2> QED
    BY <2>1 DEF Rows
<1>3. PacksAreStored' /\ Chain'
  BY DEF SegmentInv, PacksAreStored, Chain
<1>4. Sweeps'
  BY <1>1, SweepsStay DEF SegmentInv, Sweeps, Advances
<1>5. Comps'
  <2>1. head =< head'
    BY TypeByRow, SegmentAssumption DEF SegmentInv
  <2>2. ASSUME NEW c \in Compactors PROVE CompSound(c)'
    <3>1. comp[c].pc = "work" => comp[c].seg \in Segments
      BY DEF SegmentInv, Comps, CompSound, WorkSound
    <3> QED
      BY <1>1, <2>1, <3>1, CompsStay DEF SegmentInv
  <2> QED
    BY <2>2 DEF Comps
<1> QED
  BY <1>2, <1>3, <1>4, <1>5 DEF SegmentInv

\* The writer gives up, fails or ends, and leaves everything as it is.
LEMMA StepsBack ==
  ASSUME SegmentInv, NEW s \in Segments, writer[s].pc # "none",
         writer' \in [Segments -> WriterRows],
         \A x \in Segments \ {s} : writer'[x] = writer[x],
         writer'[s].pc \in {"failing", "abandon", "done"},
         writer[s].owner \in Compactors => writer'[s].owner = writer[s].owner,
         job' \in JobRows, refused' \in BOOLEAN,
         UNCHANGED <<head, packs, drafts, ledger, object, comp, sweep, late>>
  PROVE  SegmentInv'
<1>1. TypeOK'
  BY TypeByRow, TypeByNextRow DEF SegmentInv
<1>2. Row(s)
  BY DEF SegmentInv, Rows
<1>3. (OfMain(s)' <=> OfMain(s)) /\ (Referenced(s)' <=> Referenced(s))
  BY DEF OfMain, Referenced
<1>4. Row(s)'
  BY <1>2, <1>3 DEF Row, Filled
<1>5. Elsewhere(s) /\ Advances(s) /\ Keeps(s)
  BY DEF Elsewhere, Advances, StaysDead, Keeps, Past, Filled
<1> QED
  BY <1>1, <1>4, <1>5, QuietStep

LEMMA GivingUp ==
  ASSUME SegmentInv, NEW s \in Segments, writer[s].pc # "none", NEW remote \in BOOLEAN,
         NEW after \in Afters, GiveUp(s, remote, after), job' \in JobRows,
         UNCHANGED <<head, packs, drafts, ledger, object, comp, sweep, late, refused>>
  PROVE  SegmentInv'
<1>1. writer \in [Segments -> WriterRows] /\ refused' \in BOOLEAN
  BY TypeByRow DEF SegmentInv
<1>2. /\ writer' \in [Segments -> WriterRows]
      /\ \A x \in Segments \ {s} : writer'[x] = writer[x]
      /\ writer'[s].pc = "abandon" /\ writer'[s].owner = writer[s].owner
  BY <1>1, GivesUp
<1> QED
  BY <1>1, <1>2, StepsBack

LEMMA Ending ==
  ASSUME SegmentInv, NEW s \in Segments, writer[s].pc # "none",
         \/ writer' = [writer EXCEPT ![s] = Settled(@)]
         \/ writer[s].owner \notin Compactors /\ writer' = [writer EXCEPT ![s] = Gone],
         UNCHANGED <<head, packs, drafts, ledger, object, job, comp, sweep, late, refused>>
  PROVE  SegmentInv'
<1>1. writer \in [Segments -> WriterRows] /\ job' \in JobRows /\ refused' \in BOOLEAN
  BY TypeByRow DEF SegmentInv
<1>2. writer[s] \in WriterRows
  BY <1>1
<1>3. CASE writer' = [writer EXCEPT ![s] = Settled(@)]
  <2>1. /\ writer' \in [Segments -> WriterRows] /\ writer'[s] = Settled(writer[s])
        /\ \A x \in Segments \ {s} : writer'[x] = writer[x]
    BY <1>1, <1>2, <1>3, SettledRow
  <2> QED
    BY <1>1, <1>2, <2>1, SettledRow, StepsBack
<1>4. CASE writer[s].owner \notin Compactors /\ writer' = [writer EXCEPT ![s] = Gone]
  <2>1. /\ writer' \in [Segments -> WriterRows] /\ writer'[s] = Gone
        /\ \A x \in Segments \ {s} : writer'[x] = writer[x]
    BY <1>1, <1>4, ConstantRows
  <2> QED
    BY <1>1, <1>4, <2>1, ConstantRows, StepsBack
<1> QED
  BY <1>3, <1>4

LEMMA UploadKeeps ==
  ASSUME SegmentInv, NEW s \in Segments, Upload(s)
  PROVE  SegmentInv'
<1>t. /\ ledger \in [Segments -> LedgerStates] /\ object \in [Segments -> SUBSET Pushes]
      /\ writer \in [Segments -> WriterRows] /\ late \in SUBSET Segments
  BY TypeByRow DEF SegmentInv
<1>r. Row(s)
  BY DEF SegmentInv, Rows
<1>k. writer[s].pc \in WriterPcs /\ writer[s].content \in SUBSET Pushes
  BY <1>t DEF WriterRows
<1>1. CASE Ingest(s)
  <2>1. /\ writer' \in [Segments -> WriterRows]
        /\ \A x \in Segments \ {s} : writer'[x] = writer[x]
        /\ writer'[s].pc = "staged" /\ writer'[s].owner = writer[s].owner
        /\ writer'[s].content = writer[s].content
    BY <1>1, <1>t, PcMoves DEF Ingest, WriterPcs
  <2>2. /\ writer[s].pc = "ingest"
        /\ object' = [object EXCEPT ![s] = writer[s].content]
        /\ late' = IF ledger[s] = "uploading" THEN late ELSE late \cup {s}
        /\ UNCHANGED <<head, packs, drafts, ledger, job, comp, sweep, refused>>
    BY <1>1 DEF Ingest
  <2>3. TypeOK'
    BY <1>t, <1>k, <2>1, <2>2, TypeByRow, TypeByNextRow DEF SegmentInv
  <2>4. ~Referenced(s) /\ ~Referenced(s)' /\ ~OfMain(s)'
    BY <1>r, <2>2 DEF Row, Referenced, OfMain
  <2>5. object'[s] = writer[s].content /\ ledger[s] # "none"
    BY <1>t, <1>r, <2>2 DEF Row
  <2>6. Row(s)'
    BY <1>r, <2>1, <2>2, <2>4, <2>5 DEF Row, Filled
  <2>7. Elsewhere(s) /\ Advances(s) /\ Keeps(s) /\ late \subseteq late'
    BY <1>t, <2>1, <2>2, <2>4 DEF Elsewhere, Advances, StaysDead, Keeps, Past, Filled, Dead
  <2> QED
    BY <2>2, <2>3, <2>6, <2>7, QuietStep
<1>2. CASE MarkReady(s)
  <2>1. writer[s].pc \in {"staged", "renewed"}
    BY <1>2 DEF MarkReady
  <2>2. CASE ledger[s] # "uploading"
    BY <1>2, <2>1, <2>2, GivingUp, TypeByRow DEF MarkReady, Afters, SegmentInv
  <2>3. CASE ledger[s] = "uploading"
    <3>1. /\ ledger' = [ledger EXCEPT ![s] = "ready"]
          /\ writer' = [writer EXCEPT ![s].pc = "ready"]
          /\ UNCHANGED <<head, packs, drafts, object, job, comp, sweep, late, refused>>
      BY <1>2, <2>3 DEF MarkReady
    <3>2. /\ writer' \in [Segments -> WriterRows]
          /\ \A x \in Segments \ {s} : writer'[x] = writer[x]
          /\ writer'[s].pc = "ready" /\ writer'[s].owner = writer[s].owner
          /\ writer'[s].content = writer[s].content
      BY <3>1, <1>t, PcMoves DEF WriterPcs
    <3>3. TypeOK'
      BY <1>t, <3>1, <3>2, TypeByRow, TypeByNextRow DEF SegmentInv, LedgerStates
    <3>4. ~Referenced(s) /\ ~Referenced(s)' /\ ~OfMain(s)'
      BY <1>r, <2>1, <3>1 DEF Row, Referenced, OfMain
    <3>5. ledger'[s] = "ready"
      BY <1>t, <3>1
    <3>6. Row(s)'
      BY <1>r, <2>1, <2>3, <3>1, <3>2, <3>4, <3>5 DEF Row, Filled
    <3>7. Elsewhere(s) /\ Advances(s) /\ Keeps(s)
      BY <1>t, <2>1, <2>3, <3>1, <3>2, <3>4 DEF Elsewhere, Advances, StaysDead, Keeps, Past, Filled, Dead
    <3> QED
      BY <3>1, <3>3, <3>6, <3>7, QuietStep
  <2> QED
    BY <2>2, <2>3
<1>3. CASE AbandonUpload(s)
  <2>1. writer[s].pc = "abandon" /\ UNCHANGED <<head, packs, drafts, object, job, comp, sweep, late, refused>>
    BY <1>3 DEF AbandonUpload
  <2>2. CASE writer' = [writer EXCEPT ![s] = Settled(@)] /\ UNCHANGED ledger
    BY <2>1, <2>2, Ending
  <2>3. CASE /\ CanAbandon(s) /\ ledger' = [ledger EXCEPT ![s] = "deleting"]
             /\ writer' = [writer EXCEPT ![s] = IF @.remote THEN [@ EXCEPT !.pc = "remote"]
                                               ELSE Settled(@)]
    <3>1. /\ writer' \in [Segments -> WriterRows]
          /\ \A x \in Segments \ {s} : writer'[x] = writer[x]
          /\ writer'[s].pc \in {"remote", "done"}
          /\ writer[s].owner \in Compactors => writer'[s].owner = writer[s].owner
      <4> DEFINE moved == [writer[s] EXCEPT !.pc = "remote"]
      <4>1. moved \in WriterRows /\ moved.pc = "remote" /\ moved.owner = writer[s].owner
        BY <1>t DEF WriterRows, WriterPcs
      <4>2. \/ writer' = [writer EXCEPT ![s] = moved]
            \/ writer' = [writer EXCEPT ![s] = Settled(writer[s])]
        BY <2>3, <1>t
      <4>3. writer[s] \in WriterRows
        BY <1>t
      <4> HIDE DEF moved
      <4> QED
        BY <4>1, <4>2, <4>3, <1>t, SettledRow
    <3>3. TypeOK'
      BY <1>t, <2>1, <2>3, <3>1, TypeByRow, TypeByNextRow DEF SegmentInv, LedgerStates
    <3>4. ~Referenced(s) /\ ~Referenced(s)' /\ ~OfMain(s)'
      BY <2>1, <2>3 DEF Referenced, OfMain, CanAbandon
    <3>5. ledger'[s] = "deleting"
      BY <1>t, <2>3
    <3>6. Row(s)'
      BY <3>1, <3>4, <3>5 DEF Row, Filled, Dead
    <3>7. Elsewhere(s) /\ Advances(s) /\ Keeps(s)
      BY <1>t, <2>1, <2>3, <3>1, <3>4, <3>5 DEF Elsewhere, Advances, StaysDead, Keeps, Past, Filled, Dead
    <3> QED
      BY <2>1, <3>3, <3>6, <3>7, QuietStep
  <2> QED
    BY <1>3, <2>2, <2>3 DEF AbandonUpload
<1>4. CASE CleanupRemote(s, TRUE)
  BY <1>4, Ending DEF CleanupRemote
<1>5. CASE CleanupRemote(s, FALSE)
  <2>1. /\ writer[s].pc = "remote" /\ object' = [object EXCEPT ![s] = {}]
        /\ UNCHANGED <<head, packs, drafts, ledger, job, comp, sweep, late, refused>>
    BY <1>5 DEF CleanupRemote
  <2>2. writer' = [writer EXCEPT ![s].pc = "settle"]
    BY <1>5 DEF CleanupRemote
  <2>3. /\ writer' \in [Segments -> WriterRows]
        /\ \A x \in Segments \ {s} : writer'[x] = writer[x]
        /\ writer'[s].pc = "settle" /\ writer'[s].owner = writer[s].owner
        /\ writer'[s].content = writer[s].content
    BY <2>2, <1>t, PcMoves DEF WriterPcs
  <2>4. TypeOK'
    BY <1>t, <2>1, <2>3, TypeByRow, TypeByNextRow DEF SegmentInv
  <2>5. ~Referenced(s) /\ ~Referenced(s)' /\ ~OfMain(s)'
    BY <1>r, <2>1 DEF Row, Referenced, OfMain
  <2>6. object'[s] = {} /\ ledger'[s] \in Dead
    BY <1>t, <1>r, <2>1 DEF Row
  <2>7. Row(s)'
    BY <2>3, <2>5, <2>6 DEF Row, Filled, Dead
  <2>8. Elsewhere(s) /\ Advances(s) /\ Keeps(s)
    BY <1>t, <2>1, <2>3, <2>5, <2>6 DEF Elsewhere, Advances, StaysDead, Keeps, Past, Filled
  <2> QED
    BY <2>1, <2>4, <2>7, <2>8, QuietStep
<1>6. CASE MarkDeleted(s)
  <2>1. /\ writer[s].pc = "settle"
        /\ ledger' = [ledger EXCEPT ![s] = IF @ = "deleting" THEN "deleted" ELSE @]
        /\ writer' = [writer EXCEPT ![s] = Settled(@)]
        /\ UNCHANGED <<head, packs, drafts, object, job, comp, sweep, late, refused>>
    BY <1>6 DEF MarkDeleted
  <2>2. ledger[s] \in Dead /\ (object[s] = {} \/ s \in late)
    BY <1>r, <2>1 DEF Row
  <2>3. ledger' \in [Segments -> LedgerStates] /\ ledger'[s] = "deleted"
    BY <1>t, <2>1, <2>2 DEF Dead, LedgerStates
  <2>4. /\ writer' \in [Segments -> WriterRows]
        /\ \A x \in Segments \ {s} : writer'[x] = writer[x]
        /\ writer'[s].pc = "done"
        /\ writer[s].owner \in Compactors => writer'[s].owner = writer[s].owner
    <3>1. writer[s] \in WriterRows
      BY <1>t
    <3> QED
      BY <1>t, <2>1, <3>1, SettledRow
  <2>5. TypeOK'
    BY <2>1, <2>3, <2>4, TypeByRow, TypeByNextRow DEF SegmentInv
  <2>6. ~Referenced(s) /\ ~Referenced(s)' /\ ~OfMain(s)'
    BY <1>r, <2>1 DEF Row, Referenced, OfMain
  <2>7. Row(s)'
    BY <2>1, <2>2, <2>3, <2>4, <2>6 DEF Row, Filled, Dead
  <2>8. Elsewhere(s) /\ Advances(s) /\ Keeps(s)
    BY <1>t, <2>1, <2>3, <2>4, <2>6 DEF Elsewhere, Advances, StaysDead, Keeps, Past, Filled, Dead
  <2> QED
    BY <2>1, <2>5, <2>7, <2>8, QuietStep
<1> QED
  BY <1>1, <1>2, <1>3, <1>4, <1>5, <1>6 DEF Upload

LEMMA PushBegins ==
  ASSUME SegmentInv, NEW s \in Segments, NEW owner \in {"main", "request"}, BeginPush(s, owner)
  PROVE  SegmentInv'
<1> DEFINE row == [NoWriter EXCEPT !.owner = owner, !.pc = "ingest", !.content = {head + 1}]
<1>t. /\ ledger \in [Segments -> LedgerStates] /\ writer \in [Segments -> WriterRows]
      /\ head \in 0..MaxPushes
  BY TypeByRow DEF SegmentInv
<1>1. {head + 1} \in SUBSET Pushes
  BY <1>t, SegmentAssumption DEF BeginPush, Pushes
<1>2. /\ row \in WriterRows /\ row.pc = "ingest" /\ row.owner = owner
      /\ row.content = {head + 1}
  BY <1>1, ConstantRows DEF WriterRows, WriterPcs
<1>3. /\ ledger[s] = "none" /\ ledger' = [ledger EXCEPT ![s] = "uploading"]
      /\ writer' = [writer EXCEPT ![s] = row]
      /\ UNCHANGED <<head, packs, drafts, object, job, comp, sweep, late, refused>>
  BY DEF BeginPush, Begins
<1> HIDE DEF row
<1>4. TypeOK'
  BY <1>t, <1>2, <1>3, TypeByRow, TypeByNextRow DEF SegmentInv, LedgerStates
<1>5. Row(s)
  BY DEF SegmentInv, Rows
<1>6. ~Referenced(s)' /\ ~Referenced(s) /\ ~OfMain(s)' /\ writer[s].owner = None
  BY <1>3, <1>5 DEF Row, Referenced, OfMain
<1>7. ledger'[s] = "uploading" /\ writer'[s] = row
  BY <1>t, <1>3
<1>8. Row(s)'
  BY <1>2, <1>6, <1>7 DEF Row, Dead
<1>9. Elsewhere(s) /\ Advances(s)
  BY <1>t, <1>3, <1>5, <1>6, <1>7 DEF Elsewhere, Advances, StaysDead, Dead, Past, Row
<1>10. Keeps(s)
  BY <1>6, SegmentAssumption DEF Keeps, None
<1> QED
  BY <1>3, <1>4, <1>8, <1>9, <1>10, QuietStep

LEMMA FailureKeeps ==
  ASSUME SegmentInv, NEW s \in Segments, NEW remote \in BOOLEAN, NEW after \in Afters,
         IngestFails(s, remote, after) \/ PublishFails(s) \/ WriterDies(s)
  PROVE  SegmentInv'
<1>1. CASE IngestFails(s, remote, after)
  BY <1>1, GivingUp, TypeByRow DEF IngestFails, SegmentInv
<1>2. CASE PublishFails(s)
  BY <1>2, GivingUp, TypeByRow DEF PublishFails, SegmentInv, Afters
<1>3. CASE WriterDies(s)
  BY <1>3, Ending DEF WriterDies
<1> QED
  BY <1>1, <1>2, <1>3

-----------------------------------------------------------------------------
(* The sweep                                                                *)

LEMMA SweepKeeps ==
  ASSUME SegmentInv, NEW w \in Sweepers, Sweep(w) \/ SweepStops(w)
  PROVE  SegmentInv'
<1> SUFFICES ASSUME NEW s, s = sweep[w].seg PROVE SegmentInv'
  OBVIOUS
<1>t. /\ ledger \in [Segments -> LedgerStates] /\ object \in [Segments -> SUBSET Pushes]
      /\ writer \in [Segments -> WriterRows] /\ sweep \in [Sweepers -> SweepRows]
  BY TypeByRow DEF SegmentInv
<1>s. SweepSound(w)
  BY DEF SegmentInv, Sweeps
<1>i. ASSUME sweep' = [sweep EXCEPT ![w] = IdleSweep]
      PROVE  /\ sweep' \in [Sweepers -> SweepRows]
             /\ \A v \in Sweepers : sweep'[v] = sweep[v] \/ SweepSound(v)'
  BY <1>i, <1>t, ConstantRows DEF SweepSound
<1>p. ASSUME NEW pc \in {"remote", "mark"}, sweep' = [sweep EXCEPT ![w].pc = pc]
      PROVE  /\ sweep' \in [Sweepers -> SweepRows] /\ sweep'[w].seg = s /\ sweep'[w].pc = pc
             /\ \A v \in Sweepers \ {w} : sweep'[v] = sweep[v]
  BY <1>p, <1>t DEF SweepRows
<1>1. CASE Skip(w) \/ SweepStops(w)
  <2>1. /\ sweep' = [sweep EXCEPT ![w] = IdleSweep]
        /\ UNCHANGED <<head, packs, drafts, ledger, object, job, writer, comp, late, refused>>
    BY <1>1 DEF Skip, SweepStops
  <2>2. TypeOK'
    BY <2>1, <1>i, TypeByRow, TypeByNextRow DEF SegmentInv
  <2> QED
    BY <2>1, <2>2, <1>i, IdleStep
<1>2. ASSUME NEW x \in Segments, LoadStale(w, x) PROVE SegmentInv'
  <2> DEFINE row == [pc |-> "decide", seg |-> x, deleting |-> ledger[x] = "deleting"]
  <2>1. row \in SweepRows
    BY DEF SweepRows
  <2>2. /\ sweep' = [sweep EXCEPT ![w] = row]
        /\ UNCHANGED <<head, packs, drafts, ledger, object, job, writer, comp, late, refused>>
    BY <1>2 DEF LoadStale
  <2>3. sweep'[w] = row
    BY <2>2, <1>t
  <2>4. SweepSound(w)'
    <3>1. row.pc = "decide" /\ row.seg = x
      OBVIOUS
    <3>2. row.deleting => ledger[x] = "deleting"
      OBVIOUS
    <3> HIDE DEF row
    <3> QED
      BY <2>2, <2>3, <3>1, <3>2 DEF SweepSound, Dead
  <2> HIDE DEF row
  <2>5. TypeOK'
    BY <2>1, <2>2, TypeByRow, TypeByNextRow DEF SegmentInv
  <2>6. \A v \in Sweepers : sweep'[v] = sweep[v] \/ SweepSound(v)'
    BY <2>2, <2>4, <1>t
  <2> QED
    BY <2>2, <2>5, <2>6, IdleStep
<1>3. CASE MayDelete(w)
  <2>1. /\ sweep[w].pc = "decide" /\ s \in Segments
        /\ sweep' = [sweep EXCEPT ![w].pc = "remote"]
        /\ UNCHANGED <<head, packs, drafts, object, job, writer, comp, late, refused>>
    BY <1>3, <1>s DEF MayDelete, SweepSound
  <2>2. CASE sweep[w].deleting
    <3>1. UNCHANGED ledger /\ ledger[s] \in Dead
      BY <1>3, <1>s, <2>1, <2>2 DEF MayDelete, SweepSound
    <3>2. SweepSound(w)'
      BY <2>1, <3>1, <1>p DEF SweepSound
    <3>3. TypeOK'
      BY <2>1, <3>1, <1>p, TypeByRow, TypeByNextRow DEF SegmentInv
    <3>4. \A v \in Sweepers : sweep'[v] = sweep[v] \/ SweepSound(v)'
      BY <2>1, <3>2, <1>p
    <3> QED
      BY <2>1, <3>1, <3>3, <3>4, IdleStep
  <2>3. CASE ~sweep[w].deleting
    <3>1. CanAbandon(s) /\ ledger' = [ledger EXCEPT ![s] = "deleting"]
      BY <1>3, <2>3 DEF MayDelete
    <3>2. ledger'[s] = "deleting" /\ ledger' \in [Segments -> LedgerStates]
      BY <1>t, <2>1, <3>1 DEF LedgerStates
    <3>3. TypeOK'
      BY <2>1, <3>2, <1>p, TypeByRow, TypeByNextRow DEF SegmentInv
    <3>4. SweepSound(w)'
      BY <2>1, <3>2, <1>p DEF SweepSound, Dead
    <3>5. \A v \in Sweepers : sweep'[v] = sweep[v] \/ SweepSound(v)'
      BY <2>1, <3>4, <1>p
    <3>6. ~Referenced(s) /\ ~Referenced(s)' /\ ~OfMain(s)' /\ Row(s)
      BY <2>1, <3>1 DEF Referenced, OfMain, CanAbandon, SegmentInv, Rows
    <3>7. Row(s)'
      BY <2>1, <3>1, <3>2, <3>6 DEF Row, Dead, CanAbandon
    <3>8. Elsewhere(s) /\ Advances(s) /\ Keeps(s)
      BY <1>t, <2>1, <3>1, <3>2, <3>6 DEF Elsewhere, Advances, StaysDead, Keeps, Dead
    <3> QED
      BY <2>1, <3>3, <3>5, <3>7, <3>8, SegmentStep
  <2> QED
    BY <2>2, <2>3
<1>4. CASE SweepRemote(w)
  <2>1. /\ sweep[w].pc = "remote" /\ s \in Segments /\ ledger[s] \in Dead
        /\ object' = [object EXCEPT ![s] = {}]
        /\ sweep' = [sweep EXCEPT ![w].pc = "mark"]
        /\ UNCHANGED <<head, packs, drafts, ledger, job, writer, comp, late, refused>>
    BY <1>4, <1>s DEF SweepRemote, SweepSound
  <2>2. object'[s] = {} /\ object' \in [Segments -> SUBSET Pushes]
    BY <1>t, <2>1
  <2>3. TypeOK'
    BY <2>1, <2>2, <1>p, TypeByRow, TypeByNextRow DEF SegmentInv
  <2>4. SweepSound(w)'
    BY <2>1, <2>2, <1>p DEF SweepSound
  <2>5. \A v \in Sweepers : sweep'[v] = sweep[v] \/ SweepSound(v)'
    BY <2>1, <2>4, <1>p
  <2>6. ~Referenced(s)
    <3>1. OfMain(s) => ledger[s] = "published"
      BY <2>1, SegmentAssumption DEF SegmentInv, PacksAreStored, OfMain
    <3>2. s \in drafts => ledger[s] = "published"
      BY DEF SegmentInv, PacksAreStored
    <3> QED
      BY <2>1, <3>1, <3>2 DEF Referenced, Dead
  <2>7. ~Referenced(s)' /\ ~OfMain(s)' /\ Row(s)
    BY <2>1, <2>6 DEF Referenced, OfMain, SegmentInv, Rows
  <2>8. Row(s)'
    BY <2>1, <2>2, <2>7 DEF Row, Dead
  <2>9. Elsewhere(s) /\ Advances(s) /\ Keeps(s)
    BY <1>t, <2>1, <2>2, <2>6 DEF Elsewhere, Advances, StaysDead, Keeps
  <2> QED
    BY <2>1, <2>3, <2>5, <2>8, <2>9, SegmentStep
<1>5. CASE SweepMark(w)
  <2>1. /\ sweep[w].pc = "mark" /\ s \in Segments /\ ledger[s] \in Dead
        /\ object[s] = {} \/ s \in late
        /\ ledger' = [ledger EXCEPT ![s] = IF @ = "deleting" THEN "deleted" ELSE @]
        /\ sweep' = [sweep EXCEPT ![w] = IdleSweep]
        /\ UNCHANGED <<head, packs, drafts, object, job, writer, comp, late, refused>>
    BY <1>5, <1>s DEF SweepMark, SweepSound
  <2>2. ledger'[s] = "deleted" /\ ledger' \in [Segments -> LedgerStates]
    BY <1>t, <2>1 DEF Dead, LedgerStates
  <2>3. TypeOK'
    BY <2>1, <2>2, <1>i, TypeByRow, TypeByNextRow DEF SegmentInv
  <2>6. ~Referenced(s)
    <3>1. OfMain(s) => ledger[s] = "published"
      BY <2>1, SegmentAssumption DEF SegmentInv, PacksAreStored, OfMain
    <3>2. s \in drafts => ledger[s] = "published"
      BY DEF SegmentInv, PacksAreStored
    <3> QED
      BY <2>1, <3>1, <3>2 DEF Referenced, Dead
  <2>7. ~Referenced(s)' /\ ~OfMain(s)' /\ Row(s)
    BY <2>1, <2>6 DEF Referenced, OfMain, SegmentInv, Rows
  <2>8. Row(s)'
    BY <2>1, <2>2, <2>7 DEF Row, Dead
  <2>9. Elsewhere(s) /\ Advances(s) /\ Keeps(s)
    BY <1>t, <2>1, <2>2, <2>6 DEF Elsewhere, Advances, StaysDead, Keeps, Dead
  <2> QED
    BY <2>1, <2>3, <2>8, <2>9, <1>i, SegmentStep
<1> QED
  BY <1>1, <1>2, <1>3, <1>4, <1>5 DEF Sweep

-----------------------------------------------------------------------------
(* Compaction                                                               *)

LEMMA Powers ==
  /\ 1 \in Pushes => 1 \in PowersOfTwo
  /\ \A n \in PowersOfTwo : n \in Pushes /\ (2 * n \in Pushes => 2 * n \in PowersOfTwo)
  BY DEF PowersOfTwo

\* A valid chain has one pair that select() takes, if it has any.
LEMMA PlanOfPair ==
  ASSUME TypeOK, Chain, Select(packs) # {}
  PROVE  \E p, q \in packs : /\ UNION {{pair[1], pair[2]} : pair \in Select(packs)} = {p, q}
                            /\ Neighbours(p, q)
<1>t. \A p \in packs : p.first \in Nat /\ p.last \in Nat /\ p.first =< p.last
  BY SegmentAssumption DEF TypeOK, Packs, Pushes, Chain
<1>1. PICK pair \in Select(packs) : TRUE
  OBVIOUS
<1> DEFINE p == pair[1]
           q == pair[2]
<1>2. /\ p \in packs /\ q \in packs /\ CanMerge(p, q)
      /\ \A other \in Pairs(packs) : p.first =< other[1].first
  BY <1>1 DEF Select, Pairs
<1>3. ASSUME NEW other \in Select(packs) PROVE other[1] = p /\ other[2] = q
  <2>1. /\ other[1] \in packs /\ other[2] \in packs /\ CanMerge(other[1], other[2])
        /\ other[1].first =< p.first
    BY <1>1 DEF Select, Pairs
  <2>2. p.first =< other[1].first
    BY <1>2, <1>3 DEF Select
  <2>3. other[1].first = p.first
    BY <1>t, <1>2, <2>1, <2>2
  <2>4. other[1] = p
    BY <1>t, <1>2, <2>1, <2>3 DEF Chain, Disjoint
  <2>5. other[2].first = q.first
    BY <1>2, <2>1, <2>4 DEF CanMerge, Follows
  <2>6. other[2] = q
    BY <1>t, <1>2, <2>1, <2>5 DEF Chain, Disjoint
  <2> QED
    BY <2>4, <2>6
<1>4. UNION {{other[1], other[2]} : other \in Select(packs)} = {p, q}
  <2>1. \A other \in Select(packs) : {other[1], other[2]} = {p, q}
    BY <1>3
  <2> QED
    BY <1>1, <2>1
<1>5. Neighbours(p, q)
  BY <1>t, <1>2 DEF Neighbours, CanMerge, Chain
<1> QED
  BY <1>2, <1>4, <1>5

\* Two workers never work on one segment.
LEMMA OwnSegment ==
  ASSUME SegmentInv, NEW c \in Compactors, comp[c].pc = "work"
  PROVE  /\ comp[c].seg \in Segments /\ writer[comp[c].seg].owner = c
         /\ \A d \in Compactors \ {c} : comp[d].pc = "work" => comp[d].seg # comp[c].seg
         /\ ledger[comp[c].seg] # "none"
<1>1. \A d \in Compactors : comp[d].pc = "work" =>
        comp[d].seg \in Segments /\ writer[comp[d].seg].owner = d
  BY DEF SegmentInv, Comps, CompSound, WorkSound
<1>2. Row(comp[c].seg)
  BY <1>1 DEF SegmentInv, Rows
<1>3. c # None
  BY SegmentAssumption DEF None
<1> QED
  BY <1>1, <1>2, <1>3 DEF Row

LEMMA ClaimKeeps ==
  ASSUME SegmentInv, NEW c \in Compactors, Claim(c)
  PROVE  SegmentInv'
<1> DEFINE pairs == Select(packs)
           plan == UNION {{p[1], p[2]} : p \in pairs}
           row == [pc |-> IF pairs = {} THEN "drain" ELSE "begin",
                   target |-> job.target, seg |-> None, plan |-> plan]
<1>t. /\ packs \in SUBSET Packs /\ job \in JobRows /\ comp \in [Compactors -> CompRows]
  BY TypeByRow DEF SegmentInv
<1>1. /\ comp' = [comp EXCEPT ![c] = row]
      /\ job' = [job EXCEPT !.holder = c, !.expired = FALSE]
      /\ UNCHANGED <<head, packs, drafts, ledger, object, writer, sweep, late, refused>>
  BY DEF Claim
<1>2. row.pc \in {"drain", "begin"} /\ (row.pc = "begin" <=> pairs # {}) /\ row.plan = plan
  OBVIOUS
<1>3. pairs # {} => \E p, q \in packs : plan = {p, q} /\ Neighbours(p, q)
  BY PlanOfPair DEF SegmentInv
<1>4. plan \in SUBSET Packs
  BY <1>t, <1>3
<1>5. job.target \in 0..MaxPushes
  BY <1>t DEF JobRows
<1>6. row \in CompRows
  <2> HIDE DEF plan, pairs
  <2> QED
    BY <1>4, <1>5 DEF CompRows
<1> HIDE DEF row, plan, pairs
<1>7. TypeOK'
  <2>1. 0 \in 0..MaxPushes
    BY SegmentAssumption
  <2>2. job' \in JobRows
    BY <1>1, <1>t, <2>1, JobChanges
  <2> QED
    BY <1>1, <1>t, <1>6, <2>2, TypeByRow, TypeByNextRow DEF SegmentInv
<1>8. comp'[c] = row
  BY <1>1, <1>t
<1>9. ASSUME pairs # {} PROVE PlanSound(c)'
  <2>1. PICK p \in packs, q \in packs : plan = {p, q} /\ Neighbours(p, q)
    BY <1>3, <1>9
  <2>2. p \in Packs /\ q \in Packs /\ q.last =< head
    BY <1>t DEF SegmentInv, Chain
  <2>3. \A x \in packs : x.seg # Inline => writer[x.seg].pc \in Past
    <3> SUFFICES ASSUME NEW x \in packs, x.seg # Inline PROVE writer[x.seg].pc \in Past
      OBVIOUS
    <3>1. x.seg \in Segments /\ OfMain(x.seg)
      BY <1>t DEF Packs, OfMain
    <3>2. Row(x.seg)
      BY <3>1 DEF SegmentInv, Rows
    <3> QED
      BY <3>1, <3>2 DEF Row, Referenced, Past
  <2>4. /\ comp'[c].plan = {p, q} /\ head' = head /\ writer' = writer
    BY <1>1, <1>2, <1>8, <2>1
  <2> QED
    BY <2>1, <2>2, <2>3, <2>4 DEF PlanSound
<1>10. CompSound(c)'
  BY <1>2, <1>8, <1>9 DEF CompSound
<1>11. \A d \in Compactors : comp'[d] = comp[d] \/ CompSound(d)'
  BY <1>1, <1>t, <1>10
<1>12. \A w \in Sweepers : sweep'[w] = sweep[w] \/ SweepSound(w)'
  BY <1>1
<1> QED
  BY <1>1, <1>7, <1>11, <1>12, IdleStep

LEMMA DrainKeeps ==
  ASSUME SegmentInv, NEW c \in Compactors, Drain(c)
  PROVE  SegmentInv'
<1>t. job \in JobRows /\ comp \in [Compactors -> CompRows] /\ 0 \in 0..MaxPushes
  BY TypeByRow, SegmentAssumption DEF SegmentInv
<1>1. /\ comp' = [comp EXCEPT ![c] = IdleComp] /\ job' = Completed(c)
      /\ UNCHANGED <<head, packs, drafts, ledger, object, writer, sweep, late, refused>>
  BY DEF Drain
<1>2. comp'[c].pc = "idle" /\ job' \in JobRows
  BY <1>1, <1>t, ConstantRows, JobChanges
<1>3. TypeOK'
  BY <1>1, <1>2, <1>t, ConstantRows, TypeByRow, TypeByNextRow DEF SegmentInv
<1>4. \A d \in Compactors : comp'[d] = comp[d] \/ CompSound(d)'
  BY <1>1, <1>2, <1>t DEF CompSound
<1>5. \A w \in Sweepers : sweep'[w] = sweep[w] \/ SweepSound(w)'
  BY <1>1
<1> QED
  BY <1>1, <1>3, <1>4, <1>5, IdleStep

\* The worker ends or dies, and its upload with it.
LEMMA WorkerEnds ==
  ASSUME SegmentInv, NEW c \in Compactors, EndAttempt(c) \/ CompactorDies(c)
  PROVE  SegmentInv'
<1> SUFFICES ASSUME NEW s, s = comp[c].seg PROVE SegmentInv'
  OBVIOUS
<1>t. /\ job \in JobRows /\ comp \in [Compactors -> CompRows] /\ refused \in BOOLEAN
      /\ writer \in [Segments -> WriterRows] /\ 0 \in 0..MaxPushes
  BY TypeByRow, SegmentAssumption DEF SegmentInv
<1>1. /\ comp' = [comp EXCEPT ![c] = IdleComp] /\ job' \in JobRows /\ refused' \in BOOLEAN
      /\ UNCHANGED <<head, packs, drafts, ledger, object, sweep, late>>
  <2>1. Completed(c) \in JobRows /\ Continued(c) \in JobRows /\ Failed(c) \in JobRows
    BY <1>t, JobChanges
  <2>2. CASE EndAttempt(c)
    BY <2>1, <2>2, <1>t DEF EndAttempt
  <2>3. CASE CompactorDies(c)
    BY <2>3, <1>t DEF CompactorDies
  <2> QED
    BY <2>2, <2>3
<1>2. comp'[c].pc = "idle"
  BY <1>1, <1>t, ConstantRows
<1>3. CompSound(c)' /\ \A d \in Compactors \ {c} : comp'[d] = comp[d]
  BY <1>1, <1>2, <1>t DEF CompSound
<1>4. CASE comp[c].pc = "work"
  <2>1. /\ s \in Segments /\ ledger[s] # "none"
        /\ \A d \in Compactors \ {c} : comp[d].pc = "work" => comp[d].seg # s
    BY <1>4, OwnSegment
  <2>2. writer' = [writer EXCEPT ![s] = Gone]
    BY <1>4 DEF EndAttempt, CompactorDies
  <2>3. writer'[s].pc = "done" /\ writer' \in [Segments -> WriterRows]
    BY <1>t, <2>1, <2>2, ConstantRows
  <2>4. TypeOK'
    BY <1>1, <1>t, <2>3, ConstantRows, TypeByRow, TypeByNextRow DEF SegmentInv
  <2>5. Row(s) /\ (OfMain(s)' <=> OfMain(s)) /\ (Referenced(s)' <=> Referenced(s))
    BY <1>1, <2>1 DEF SegmentInv, Rows, OfMain, Referenced
  <2>6. Row(s)'
    BY <1>1, <2>1, <2>3, <2>5 DEF Row, Filled
  <2>7. Elsewhere(s) /\ Advances(s)
    BY <1>1, <1>t, <2>1, <2>2, <2>3 DEF Elsewhere, Advances, StaysDead, Past
  <2>8. \A w \in Sweepers : sweep'[w] = sweep[w] \/ SweepSound(w)'
    BY <1>1
  <2>9. \A d \in Compactors :
          \/ CompSound(d)'
          \/ comp'[d] = comp[d] /\ (comp[d].pc = "work" => comp[d].seg # s \/ Keeps(s))
    BY <1>3, <2>1
  <2>10. late \subseteq late'
    BY <1>1
  <2> QED
    BY <1>1, <2>1, <2>4, <2>6, <2>7, <2>8, <2>9, <2>10, SegmentStep
<1>5. CASE comp[c].pc # "work"
  <2>1. writer' = writer
    BY <1>5 DEF EndAttempt, CompactorDies
  <2>2. TypeOK'
    BY <1>1, <1>t, <2>1, ConstantRows, TypeByRow, TypeByNextRow DEF SegmentInv
  <2>3. /\ \A d \in Compactors : comp'[d] = comp[d] \/ CompSound(d)'
        /\ \A w \in Sweepers : sweep'[w] = sweep[w] \/ SweepSound(w)'
    BY <1>1, <1>3
  <2> QED
    BY <1>1, <2>1, <2>2, <2>3, IdleStep
<1> QED
  BY <1>4, <1>5

LEMMA CompactionBegins ==
  ASSUME SegmentInv, NEW c \in Compactors, NEW s \in Segments, BeginCompaction(c, s)
  PROVE  SegmentInv'
<1> DEFINE row == [NoWriter EXCEPT !.owner = c, !.pc = "restore"]
           work == [comp[c] EXCEPT !.pc = "work", !.seg = s]
<1>t. /\ ledger \in [Segments -> LedgerStates] /\ writer \in [Segments -> WriterRows]
      /\ comp \in [Compactors -> CompRows]
  BY TypeByRow DEF SegmentInv
<1>1. row \in WriterRows /\ row.pc = "restore" /\ row.owner = c
  BY ConstantRows DEF WriterRows, WriterPcs
<1>2. /\ work \in CompRows /\ work.pc = "work" /\ work.seg = s
      /\ work.plan = comp[c].plan
  BY <1>t DEF CompRows
<1>3. /\ comp[c].pc = "begin" /\ ledger[s] = "none"
      /\ ledger' = [ledger EXCEPT ![s] = "uploading"]
      /\ writer' = [writer EXCEPT ![s] = row]
      /\ UNCHANGED <<head, packs, drafts, object, job, sweep, late, refused>>
  BY DEF BeginCompaction, Begins
<1>4. comp' = [comp EXCEPT ![c] = work]
  BY <1>t DEF BeginCompaction, CompRows
<1> HIDE DEF row, work
<1>5. ledger'[s] = "uploading" /\ writer'[s] = row /\ comp'[c] = work
  BY <1>t, <1>3, <1>4
<1>6. TypeOK'
  BY <1>t, <1>1, <1>2, <1>3, <1>4, TypeByRow, TypeByNextRow DEF SegmentInv, LedgerStates
<1>7. Row(s)
  BY DEF SegmentInv, Rows
<1>8. /\ ~Referenced(s)' /\ ~Referenced(s) /\ ~OfMain(s)'
      /\ writer[s].owner = None /\ writer[s].pc = "none"
  BY <1>3, <1>7 DEF Row, Referenced, OfMain
<1>9. Row(s)'
  BY <1>1, <1>5, <1>8 DEF Row, Dead, Filled
<1>10. Elsewhere(s) /\ Advances(s)
  BY <1>t, <1>3, <1>5, <1>8 DEF Elsewhere, Advances, StaysDead, Dead, Past
<1>11. CompSound(c)'
  <2>1. PlanSound(c)
    BY <1>3 DEF SegmentInv, Comps, CompSound
  <2>2. \A x \in Segments : writer[x].pc \in Past => writer'[x].pc \in Past
    BY <1>10 DEF Elsewhere, Advances
  <2>3. \A x \in comp[c].plan : x.seg # Inline => x.seg \in Segments
    BY <1>t DEF CompRows, Packs
  <2>4. /\ \E p, q \in Packs : comp'[c].plan = {p, q} /\ Neighbours(p, q) /\ q.last =< head'
        /\ \A x \in comp'[c].plan : x.seg # Inline => writer'[x.seg].pc \in Past
    BY <1>2, <1>3, <1>5, <2>1, <2>2, <2>3 DEF PlanSound
  <2>5. WorkSound(c)'
    BY <1>1, <1>2, <1>5 DEF WorkSound, Filled
  <2> QED
    BY <2>4, <2>5 DEF CompSound, PlanSound
<1>12. \A d \in Compactors :
         \/ CompSound(d)'
         \/ comp'[d] = comp[d] /\ (comp[d].pc = "work" => comp[d].seg # s \/ Keeps(s))
  <2>1. \A d \in Compactors : comp[d].pc = "work" => writer[comp[d].seg].owner = d
    BY OwnSegment
  <2>2. None \notin Compactors
    BY SegmentAssumption DEF None
  <2> QED
    BY <1>t, <1>4, <1>8, <1>11, <2>1, <2>2
<1>13. \A w \in Sweepers : sweep'[w] = sweep[w] \/ SweepSound(w)'
  BY <1>3
<1>14. late \subseteq late'
  BY <1>3
<1> QED
  BY <1>3, <1>6, <1>9, <1>10, <1>12, <1>13, <1>14, SegmentStep

LEMMA RestoreKeeps ==
  ASSUME SegmentInv, NEW c \in Compactors, Restore(c)
  PROVE  SegmentInv'
<1> SUFFICES ASSUME NEW s, s = comp[c].seg PROVE SegmentInv'
  OBVIOUS
<1>t. /\ writer \in [Segments -> WriterRows] /\ comp \in [Compactors -> CompRows]
      /\ object \in [Segments -> SUBSET Pushes] /\ job \in JobRows
  BY TypeByRow DEF SegmentInv
<1>1. comp[c].pc = "work" /\ writer[s].pc = "restore"
  BY DEF Restore
<1>2. /\ s \in Segments /\ writer[s].owner = c /\ ledger[s] # "none"
      /\ \A d \in Compactors \ {c} : comp[d].pc = "work" => comp[d].seg # s
  BY <1>1, OwnSegment
<1>3. CASE GiveUp(s, TRUE, "fail")
  BY <1>1, <1>2, <1>3, <1>t, GivingUp DEF Restore, Afters
<1>4. CASE ~GiveUp(s, TRUE, "fail")
  <2> DEFINE content == UNION {Content(p) : p \in comp[c].plan}
             row == [writer[s] EXCEPT !.pc = "ingest", !.content = content]
  <2>1. /\ writer' = [writer EXCEPT ![s].pc = "ingest", ![s].content = content]
        /\ UNCHANGED <<head, packs, drafts, ledger, object, job, comp, sweep, late, refused>>
    BY <1>4 DEF Restore
  <2>2. content \in SUBSET Pushes
    <3>1. \A p \in Packs : p.seg \in Segments \/ p.seg = Inline
      BY DEF Packs
    <3>2. \A p \in Packs : p.first..p.last \subseteq Pushes
      BY SegmentAssumption DEF Packs, Pushes
    <3>3. \A p \in Packs : Content(p) \subseteq Pushes
      BY <1>t, <3>1, <3>2 DEF Content
    <3>4. comp[c].plan \subseteq Packs
      BY <1>t DEF CompRows
    <3> QED
      BY <3>3, <3>4
  <2>3. comp[c].plan \subseteq packs => content = UNION {p.first..p.last : p \in comp[c].plan}
    <3>1. \A p \in packs : Content(p) = p.first..p.last
      BY DEF SegmentInv, PacksAreStored, Content
    <3>2. ASSUME comp[c].plan \subseteq packs
          PROVE  content = UNION {p.first..p.last : p \in comp[c].plan}
      <4>1. \A p \in comp[c].plan : Content(p) = p.first..p.last
        BY <3>1, <3>2
      <4>2. {Content(p) : p \in comp[c].plan} = {p.first..p.last : p \in comp[c].plan}
        BY <4>1, Zenon
      <4> QED
        BY <4>2
    <3> QED
      BY <3>2
  <2> HIDE DEF content
  <2>4. row \in WriterRows /\ row.pc = "ingest" /\ row.owner = c /\ row.content = content
    BY <1>t, <1>2, <2>2 DEF WriterRows, WriterPcs
  <2>5. writer' = [writer EXCEPT ![s] = row]
    BY <1>t, <1>2, <2>1 DEF WriterRows
  <2> HIDE DEF row
  <2>6. writer'[s] = row /\ TypeOK'
    <3>1. writer'[s] = row /\ writer' \in [Segments -> WriterRows]
      BY <1>t, <1>2, <2>4, <2>5
    <3> QED
      BY <2>1, <3>1, TypeByRow, TypeByNextRow DEF SegmentInv
  <2>7. Row(s) /\ (OfMain(s)' <=> OfMain(s)) /\ (Referenced(s)' <=> Referenced(s))
    BY <1>2, <2>1 DEF SegmentInv, Rows, OfMain, Referenced
  <2>8. Row(s)'
    BY <1>1, <1>2, <2>1, <2>4, <2>6, <2>7 DEF Row, Filled
  <2>9. Elsewhere(s) /\ Advances(s)
    BY <1>1, <1>t, <1>2, <2>1, <2>5 DEF Elsewhere, Advances, StaysDead, Past
  <2>10. CompSound(c)'
    <3>1. PlanSound(c)
      BY <1>1 DEF SegmentInv, Comps, CompSound
    <3>2. \A x \in Segments : writer[x].pc \in Past => writer'[x].pc \in Past
      BY <2>9 DEF Elsewhere, Advances
    <3>3. \A x \in comp[c].plan : x.seg # Inline => x.seg \in Segments
      BY <1>t DEF CompRows, Packs
    <3>4. \A x \in comp'[c].plan : x.seg # Inline => writer'[x.seg].pc \in Past
      BY <2>1, <3>1, <3>2, <3>3 DEF PlanSound
    <3>5. PlanSound(c)'
      BY <2>1, <3>1, <3>4 DEF PlanSound
    <3>6. WorkSound(c)'
      BY <1>2, <2>1, <2>3, <2>4, <2>6 DEF WorkSound
    <3> QED
      BY <3>5, <3>6 DEF CompSound
  <2>11. /\ \A d \in Compactors :
              \/ CompSound(d)'
              \/ comp'[d] = comp[d] /\ (comp[d].pc = "work" => comp[d].seg # s \/ Keeps(s))
         /\ \A w \in Sweepers : sweep'[w] = sweep[w] \/ SweepSound(w)'
         /\ late \subseteq late'
    BY <1>2, <2>1, <2>10
  <2> QED
    BY <1>2, <2>1, <2>6, <2>8, <2>9, <2>11, SegmentStep
<1> QED
  BY <1>3, <1>4

LEMMA WorkKeeps ==
  ASSUME SegmentInv, NEW c \in Compactors,
         FinalRenewal(c) \/ ReplaceStale(c) \/ ReplaceFails(c) \/ FailFirst(c)
  PROVE  SegmentInv'
<1> SUFFICES ASSUME NEW s, s = comp[c].seg PROVE SegmentInv'
  OBVIOUS
<1>t. /\ writer \in [Segments -> WriterRows] /\ job \in JobRows /\ refused \in BOOLEAN
      /\ ledger \in [Segments -> LedgerStates] /\ 0 \in 0..MaxPushes
  BY TypeByRow, SegmentAssumption DEF SegmentInv
<1>1. comp[c].pc = "work"
  BY DEF FinalRenewal, ReplaceStale, ReplaceFails, FailFirst
<1>2. s \in Segments /\ writer[s].owner = c /\ ledger[s] # "none" /\ Row(s)
  BY <1>1, OwnSegment DEF SegmentInv, Rows
<1>3. CASE FinalRenewal(c)
  <2>1. CASE GiveUp(s, TRUE, "stale")
    BY <1>2, <1>3, <1>t, <2>1, GivingUp DEF FinalRenewal, Afters
  <2>2. CASE ~GiveUp(s, TRUE, "stale")
    <3>1. /\ writer[s].pc = "staged" /\ writer' = [writer EXCEPT ![s].pc = "renewed"]
          /\ UNCHANGED <<head, packs, drafts, ledger, object, job, comp, sweep, late, refused>>
      BY <1>3, <2>2 DEF FinalRenewal
    <3>2. /\ writer' \in [Segments -> WriterRows]
          /\ \A x \in Segments \ {s} : writer'[x] = writer[x]
          /\ writer'[s].pc = "renewed" /\ writer'[s].owner = writer[s].owner
          /\ writer'[s].content = writer[s].content
      BY <1>t, <1>2, <3>1, PcMoves DEF WriterPcs
    <3>3. TypeOK'
      BY <3>1, <3>2, TypeByRow, TypeByNextRow DEF SegmentInv
    <3>4. (OfMain(s)' <=> OfMain(s)) /\ (Referenced(s)' <=> Referenced(s))
      BY <3>1 DEF OfMain, Referenced
    <3>5. Row(s)'
      BY <1>2, <3>1, <3>2, <3>4 DEF Row, Filled
    <3>6. Elsewhere(s) /\ Advances(s) /\ Keeps(s) /\ late \subseteq late'
      BY <3>1, <3>2 DEF Elsewhere, Advances, StaysDead, Keeps, Past, Filled
    <3> QED
      BY <1>2, <3>1, <3>3, <3>5, <3>6, QuietStep
  <2> QED
    BY <2>1, <2>2
<1>4. CASE ReplaceStale(c)
  <2> DEFINE row == [writer[s] EXCEPT !.pc = "remote", !.after = "continue"]
  <2>1. /\ writer[s].pc = "ready" /\ ledger' = Retired(ledger, {s}, packs)
        /\ writer' = [writer EXCEPT ![s].pc = "remote", ![s].after = "continue"]
        /\ UNCHANGED <<head, packs, drafts, object, job, comp, sweep, late, refused>>
    BY <1>4 DEF ReplaceStale
  <2>2. row \in WriterRows /\ row.pc = "remote" /\ row.owner = writer[s].owner
    <3>1. writer[s] \in WriterRows
      BY <1>t, <1>2
    <3> QED
      BY <3>1 DEF WriterRows, WriterPcs, Afters
  <2>3. writer' = [writer EXCEPT ![s] = row]
    BY <1>t, <1>2, <2>1 DEF WriterRows
  <2> HIDE DEF row
  <2>4. ~Referenced(s) /\ ~Referenced(s)' /\ ~OfMain(s)'
    BY <1>2, <2>1 DEF Row, Referenced, OfMain
  <2>5. /\ ledger' \in [Segments -> LedgerStates] /\ ledger'[s] \in Dead
        /\ \A x \in Segments \ {s} : ledger'[x] = ledger[x]
    <3>1. ledger[s] = "ready" \/ ledger[s] \in Dead
      BY <1>2, <2>1 DEF Row
    <3>2. ~ \E p \in packs : p.seg = s
      BY <2>4 DEF Referenced, OfMain
    <3>3. ledger' = [x \in Segments |-> IF x = s /\ ledger[x] \in {"ready", "published"}
                                       THEN "deleting" ELSE ledger[x]]
      BY <2>1, <3>2 DEF Retired
    <3> QED
      BY <1>t, <1>2, <3>1, <3>3 DEF LedgerStates, Dead
  <2>7. writer'[s] = row /\ writer' \in [Segments -> WriterRows]
    BY <1>t, <1>2, <2>2, <2>3
  <2>6. TypeOK'
    BY <2>1, <2>5, <2>7, TypeByRow, TypeByNextRow DEF SegmentInv
  <2>8. Row(s)'
    BY <1>2, <2>1, <2>2, <2>4, <2>5, <2>7 DEF Row, Filled, Dead, Retired
  <2>9. Elsewhere(s) /\ Advances(s) /\ Keeps(s) /\ late \subseteq late'
    BY <1>t, <2>1, <2>2, <2>3, <2>4, <2>5, <2>7
       DEF Elsewhere, Advances, StaysDead, Keeps, Past, Filled
  <2> QED
    BY <1>2, <2>1, <2>6, <2>8, <2>9, QuietStep
<1>5. CASE ReplaceFails(c)
  <2>1. /\ writer[s].pc = "ready" /\ writer' = [writer EXCEPT ![s].pc = "failing"]
        /\ UNCHANGED <<head, packs, drafts, ledger, object, job, comp, sweep, late, refused>>
    BY <1>5 DEF ReplaceFails
  <2>2. /\ writer' \in [Segments -> WriterRows]
        /\ \A x \in Segments \ {s} : writer'[x] = writer[x]
        /\ writer'[s].pc = "failing" /\ writer'[s].owner = writer[s].owner
    BY <1>t, <1>2, <2>1, PcMoves DEF WriterPcs
  <2> QED
    BY <1>t, <1>2, <2>1, <2>2, StepsBack
<1>6. CASE FailFirst(c)
  <2>1. Failed(c) \in JobRows
    BY <1>t, JobChanges
  <2> QED
    BY <1>2, <1>6, <1>t, <2>1, GivingUp DEF FailFirst, Afters
<1> QED
  BY <1>3, <1>4, <1>5, <1>6

-----------------------------------------------------------------------------
(* Publications                                                             *)

\* Main gets a pack at its end.
LEMMA ChainGrows ==
  ASSUME TypeOK, Chain, head + 1 \in Pushes, head' = head + 1, NEW seg,
         packs' = packs \cup {[first |-> head + 1, last |-> head + 1, seg |-> seg]}
  PROVE  Chain'
<1> DEFINE new == [first |-> head + 1, last |-> head + 1, seg |-> seg]
<1>1. new.first = head + 1 /\ new.last = head + 1 /\ packs' = packs \cup {new}
  OBVIOUS
<1>t. head \in Nat /\ \A p \in packs : p.first \in Nat /\ p.last \in Nat
  BY SegmentAssumption DEF TypeOK, Packs, Pushes
<1> HIDE DEF new
<1>2. Span(new) = 1 /\ 1 \in Pushes
  BY <1>1, <1>t, SegmentAssumption DEF Span, Pushes
<1>3. \A p \in packs' : p.last =< head' /\ p.first =< p.last /\ Span(p) \in PowersOfTwo
  BY <1>1, <1>t, <1>2, Powers DEF Chain
<1>4. \A p, q \in packs' : p # q => Disjoint(p, q)
  BY <1>1, <1>t DEF Chain, Disjoint
<1>5. \A n \in 1..head' : \E p \in packs' : p.first =< n /\ n =< p.last
  <2> SUFFICES ASSUME NEW n \in 1..head'
               PROVE  \E p \in packs' : p.first =< n /\ n =< p.last
    OBVIOUS
  <2>1. CASE n = head + 1
    BY <1>1, <1>t, <2>1
  <2>2. CASE n # head + 1
    <3>1. n \in 1..head
      BY <1>t, <2>2
    <3> QED
      BY <1>1, <3>1 DEF Chain
  <2> QED
    BY <2>1, <2>2
<1> QED
  BY <1>3, <1>4, <1>5 DEF Chain

\* No worker's plan has a pack that was not there when it was made.
LEMMA PlansAreOld ==
  ASSUME TypeOK, NEW c \in Compactors, PlanSound(c)
  PROVE  \A p \in comp[c].plan : p.last =< head
<1>1. PICK p \in Packs, q \in Packs :
        comp[c].plan = {p, q} /\ Neighbours(p, q) /\ q.last =< head
  BY DEF PlanSound
<1>2. p.first \in Nat /\ p.last \in Nat /\ q.first \in Nat /\ q.last \in Nat /\ head \in Nat
  BY SegmentAssumption DEF Packs, Pushes, TypeOK
<1>3. p.last =< q.last
  BY <1>1, <1>2 DEF Neighbours, Follows, Span
<1> QED
  BY <1>1, <1>2, <1>3

LEMMA PushKeeps ==
  ASSUME SegmentInv, PushInline \/ (\E s \in Segments, lost \in BOOLEAN : PublishMain(s, lost))
  PROVE  SegmentInv'
<1>t. /\ head \in 0..MaxPushes /\ packs \in SUBSET Packs /\ job \in JobRows
      /\ writer \in [Segments -> WriterRows] /\ ledger \in [Segments -> LedgerStates]
      /\ object \in [Segments -> SUBSET Pushes]
  BY TypeByRow DEF SegmentInv
<1>g. ASSUME NEW seg \in Segments \cup {Inline}, Pushed(seg), head + 1 \in Pushes,
             UNCHANGED <<drafts, object, comp, sweep, late>>,
             writer' \in [Segments -> WriterRows], ledger' \in [Segments -> LedgerStates],
             \A x \in Segments \ {seg} : ledger'[x] = ledger[x] /\ writer'[x] = writer[x],
             seg # Inline =>
               /\ ~Referenced(seg) /\ writer[seg].owner \notin Compactors
               /\ ledger[seg] \notin Dead /\ ledger'[seg] = "published"
               /\ writer'[seg].pc \in {"abandon", "done"}
               /\ object[seg] = (head + 1)..(head + 1)
      PROVE  SegmentInv'
  <2> DEFINE new == [first |-> head + 1, last |-> head + 1, seg |-> seg]
  <2>1. /\ head' = head + 1 /\ packs' = packs \cup {new} /\ refused' = FALSE
        /\ job' = Scheduled(head + 1)
    BY <1>g DEF Pushed
  <2>2. new \in Packs /\ new.first = head + 1 /\ new.last = head + 1 /\ new.seg = seg
    BY <1>g DEF Packs
  <2>3. Chain'
    BY <1>g, <2>1, ChainGrows DEF SegmentInv
  <2> HIDE DEF new
  <2>n. head \in Nat /\ head' \in 0..MaxPushes /\ head' \in Nat
    BY <1>g, <1>t, <2>1, SegmentAssumption DEF Pushes
  <2>4. TypeOK'
    <3>1. job' \in JobRows
      BY <1>t, <2>1, <2>n DEF Scheduled, JobRows
    <3> QED
      BY <1>g, <1>t, <2>1, <2>2, <2>n, <3>1, TypeByRow, TypeByNextRow DEF SegmentInv
  <2>5. \A p \in packs : p.seg # Inline => p.seg \in Segments /\ Referenced(p.seg)
    BY <1>t DEF Packs, Referenced, OfMain
  <2>6. \A x \in drafts : x \in Segments /\ Referenced(x)
    BY TypeByRow DEF Referenced, SegmentInv
  <2>7. PacksAreStored'
    <3>1. \A p \in packs : p.seg # Inline =>
            ledger'[p.seg] = "published" /\ object'[p.seg] = p.first..p.last
      BY <1>g, <2>5 DEF SegmentInv, PacksAreStored
    <3>2. seg # Inline => ledger'[seg] = "published" /\ object'[seg] = new.first..new.last
      BY <1>g, <2>2
    <3>3. \A x \in drafts' : ledger'[x] = "published" /\ object'[x] # {}
      <4>1. seg \notin drafts
        BY <1>g, <2>6, SegmentAssumption
      <4>2. \A x \in drafts : ledger[x] = "published" /\ object[x] # {}
        BY DEF SegmentInv, PacksAreStored
      <4> QED
        BY <1>g, <2>6, <4>1, <4>2
    <3> QED
      BY <2>1, <2>2, <3>1, <3>2, <3>3 DEF PacksAreStored
  <2>8. Rows'
    <3> SUFFICES ASSUME NEW x \in Segments PROVE Row(x)'
      BY DEF Rows
    <3>1. Row(x)
      BY DEF SegmentInv, Rows
    <3>2. CASE x # seg
      <4>1. (OfMain(x)' <=> OfMain(x)) /\ (Referenced(x)' <=> Referenced(x))
        BY <1>g, <2>1, <2>2, <3>2 DEF OfMain, Referenced
      <4> QED
        BY <1>g, <3>1, <3>2, <4>1 DEF Row
    <3>3. CASE x = seg
      <4>1. x # Inline /\ x \notin drafts'
        BY <1>g, <3>3, SegmentAssumption DEF Referenced
      <4> QED
        BY <1>g, <3>3, <4>1 DEF Row, Dead, Filled
    <3> QED
      BY <3>2, <3>3
  <2>9. Sweeps'
    <3>1. \A x \in Segments : ledger[x] \in Dead => StaysDead(x)
      BY <1>g, SegmentAssumption DEF StaysDead
    <3>2. \A w \in Sweepers : sweep'[w] = sweep[w]
      BY <1>g
    <3> QED
      BY <3>1, <3>2, SweepsStay DEF SegmentInv, Sweeps
  <2>10. Comps'
    <3> SUFFICES ASSUME NEW c \in Compactors PROVE CompSound(c)'
      BY DEF Comps
    <3>1. comp[c].pc = "work" /\ comp[c].plan \subseteq packs' => comp[c].plan \subseteq packs
      <4>1. comp[c].pc = "work" => PlanSound(c)
        BY DEF SegmentInv, Comps, CompSound
      <4>2. comp[c].pc = "work" => \A p \in comp[c].plan : p.last =< head
        BY <4>1, PlansAreOld DEF SegmentInv
      <4>3. ~(new.last =< head)
        BY <2>2, <2>n
      <4> QED
        BY <2>1, <4>2, <4>3
    <3>2. \A x \in Segments : writer[x].pc \in Past => writer'[x].pc \in Past
      BY <1>g, SegmentAssumption DEF Past
    <3>3. comp[c].pc = "work" => Keeps(comp[c].seg)
      <4>1. ASSUME comp[c].pc = "work" PROVE comp[c].seg \in Segments /\ comp[c].seg # seg
        BY <1>g, <4>1, OwnSegment, SegmentAssumption
      <4> QED
        BY <1>g, <4>1 DEF Keeps
    <3>4. head =< head' /\ comp'[c] = comp[c]
      BY <1>g, <2>1, <2>n
    <3> QED
      BY <2>4, <3>1, <3>2, <3>3, <3>4, CompsStay DEF SegmentInv
  <2> QED
    BY <2>3, <2>4, <2>7, <2>8, <2>9, <2>10 DEF SegmentInv
<1>1. CASE PushInline
  <2>1. head + 1 \in Pushes
    BY <1>1, <1>t, SegmentAssumption DEF PushInline, Pushes
  <2>2. Pushed(Inline) /\ UNCHANGED <<drafts, ledger, object, writer, comp, sweep, late>>
    BY <1>1 DEF PushInline
  <2> QED
    BY <1>g, <1>t, <2>1, <2>2
<1>2. ASSUME NEW s \in Segments, NEW lost \in BOOLEAN, PublishMain(s, lost) PROVE SegmentInv'
  <2>1. /\ writer[s].owner = "main" /\ writer[s].pc = "ready"
        /\ writer[s].content = {head + 1} /\ CanPublish(s) /\ Pushed(s)
        /\ ledger' = [ledger EXCEPT ![s] = "published"]
        /\ GiveUp(s, TRUE, "none") \/ writer' = [writer EXCEPT ![s] = Gone]
        /\ UNCHANGED <<drafts, object, comp, sweep, late>>
    BY <1>2 DEF PublishMain
  <2>2. Row(s)
    BY DEF SegmentInv, Rows
  <2>3. /\ writer' \in [Segments -> WriterRows]
        /\ \A x \in Segments \ {s} : writer'[x] = writer[x]
        /\ writer'[s].pc \in {"abandon", "done"}
    <3>1. CASE GiveUp(s, TRUE, "none")
      BY <1>t, <3>1, GivesUp DEF Afters
    <3>2. CASE writer' = [writer EXCEPT ![s] = Gone]
      BY <1>t, <3>2, ConstantRows
    <3> QED
      BY <2>1, <3>1, <3>2
  <2>4. /\ ledger' \in [Segments -> LedgerStates] /\ ledger'[s] = "published"
        /\ \A x \in Segments \ {s} : ledger'[x] = ledger[x]
    BY <1>t, <2>1 DEF LedgerStates
  <2>5. ledger[s] = "ready"
    BY <2>1, <2>2 DEF Row, CanPublish, Dead
  <2>6. object[s] = {head + 1} /\ ~Referenced(s)
    BY <2>1, <2>2, <2>5 DEF Row
  <2>7. head + 1 \in Pushes /\ {head + 1} = (head + 1)..(head + 1)
    <3>1. {head + 1} \subseteq Pushes
      BY <1>t, <2>1 DEF WriterRows
    <3> QED
      BY <3>1, <1>t, SegmentAssumption
  <2>8. "main" \notin Compactors
    BY SegmentAssumption
  <2> QED
    BY <1>g, <2>1, <2>3, <2>4, <2>5, <2>6, <2>7, <2>8 DEF Dead
<1> QED
  BY <1>1, <1>2

LEMMA RequestKeeps ==
  ASSUME SegmentInv, NEW s \in Segments, NEW lost \in BOOLEAN, PublishRequest(s, lost)
  PROVE  SegmentInv'
<1>t. /\ writer \in [Segments -> WriterRows] /\ ledger \in [Segments -> LedgerStates]
      /\ drafts \in SUBSET Segments /\ packs \in SUBSET Packs /\ head \in 0..MaxPushes
  BY TypeByRow DEF SegmentInv
<1>1. /\ writer[s].owner = "request" /\ writer[s].pc = "ready" /\ CanPublish(s)
      /\ drafts' = drafts \cup {s}
      /\ ledger' = [ledger EXCEPT ![s] = "published"]
      /\ GiveUp(s, TRUE, "none") \/ writer' = [writer EXCEPT ![s] = Gone]
      /\ UNCHANGED <<head, packs, object, job, comp, sweep, late, refused>>
  BY DEF PublishRequest
<1>2. Row(s) /\ "request" \notin Compactors
  BY SegmentAssumption DEF SegmentInv, Rows
<1>3. /\ writer' \in [Segments -> WriterRows]
      /\ \A x \in Segments \ {s} : writer'[x] = writer[x]
      /\ writer'[s].pc \in {"abandon", "done"}
  <2>1. CASE GiveUp(s, TRUE, "none")
    BY <1>t, <2>1, GivesUp DEF Afters
  <2>2. CASE writer' = [writer EXCEPT ![s] = Gone]
    BY <1>t, <2>2, ConstantRows
  <2> QED
    BY <1>1, <2>1, <2>2
<1>4. /\ ledger' \in [Segments -> LedgerStates] /\ ledger'[s] = "published"
      /\ \A x \in Segments \ {s} : ledger'[x] = ledger[x]
  BY <1>t, <1>1 DEF LedgerStates
<1>5. ledger[s] = "ready"
  BY <1>1, <1>2 DEF Row, CanPublish, Dead
<1>6. object[s] # {} /\ ~Referenced(s)
  BY <1>1, <1>2, <1>5 DEF Row, Filled
<1>7. TypeOK'
  <2>1. drafts' \in SUBSET Segments
    BY <1>t, <1>1
  <2> QED
    BY <1>1, <1>3, <1>4, <2>1, TypeByRow, TypeByNextRow DEF SegmentInv
<1>8. PacksAreStored'
  <2>1. \A p \in packs : p.seg # Inline => p.seg \in Segments /\ p.seg # s
    BY <1>t, <1>6 DEF Packs, Referenced, OfMain
  <2>2. \A p \in packs : p.seg # Inline =>
          ledger'[p.seg] = "published" /\ object'[p.seg] = p.first..p.last
    BY <1>1, <1>4, <2>1 DEF SegmentInv, PacksAreStored
  <2>3. \A x \in drafts : x \in Segments /\ ledger[x] = "published" /\ object[x] # {}
    BY <1>t DEF SegmentInv, PacksAreStored
  <2>4. \A x \in drafts' : ledger'[x] = "published" /\ object'[x] # {}
    BY <1>1, <1>4, <1>6, <2>3
  <2> QED
    BY <1>1, <2>2, <2>4 DEF PacksAreStored
<1>9. Rows'
  <2> SUFFICES ASSUME NEW x \in Segments PROVE Row(x)'
    BY DEF Rows
  <2>1. Row(x)
    BY DEF SegmentInv, Rows
  <2>2. CASE x # s
    <3>1. /\ OfMain(x)' <=> OfMain(x)
          /\ x \in drafts' <=> x \in drafts
      BY <1>1, <2>2 DEF OfMain
    <3>2. Referenced(x)' <=> Referenced(x)
      BY <3>1 DEF Referenced
    <3> QED
      BY <1>1, <1>3, <1>4, <2>1, <2>2, <3>1, <3>2 DEF Row
  <2>3. CASE x = s
    <3>1. ~OfMain(s)'
      BY <1>1, <1>6 DEF Referenced, OfMain
    <3> QED
      BY <1>3, <1>4, <2>3, <3>1 DEF Row, Dead, Filled
  <2> QED
    BY <2>2, <2>3
<1>10. Sweeps' /\ Chain'
  <2>1. \A x \in Segments : ledger[x] \in Dead => StaysDead(x)
    BY <1>1, <1>4, <1>5 DEF StaysDead, Dead
  <2>2. \A w \in Sweepers : sweep'[w] = sweep[w]
    BY <1>1
  <2>3. Sweeps'
    BY <2>1, <2>2, SweepsStay DEF SegmentInv, Sweeps
  <2>4. Chain'
    BY <1>1 DEF SegmentInv, Chain
  <2> QED
    BY <2>3, <2>4
<1>11. Comps'
  <2> SUFFICES ASSUME NEW c \in Compactors PROVE CompSound(c)'
    BY DEF Comps
  <2>1. \A x \in Segments : writer[x].pc \in Past => writer'[x].pc \in Past
    BY <1>3 DEF Past
  <2>2. comp[c].pc = "work" => Keeps(comp[c].seg)
    <3>1. ASSUME comp[c].pc = "work" PROVE comp[c].seg \in Segments /\ comp[c].seg # s
      BY <1>1, <1>2, <3>1, OwnSegment
    <3> QED
      BY <1>3, <3>1 DEF Keeps
  <2>3. head =< head' /\ comp'[c] = comp[c] /\ packs' = packs
    BY <1>1, <1>t, SegmentAssumption
  <2> QED
    BY <1>7, <2>1, <2>2, <2>3, CompsStay DEF SegmentInv
<1> QED
  BY <1>7, <1>8, <1>9, <1>10, <1>11 DEF SegmentInv

LEMMA DraftKeeps ==
  ASSUME SegmentInv, NEW s \in Segments, DeleteDraft(s)
  PROVE  SegmentInv'
<1>t. /\ ledger \in [Segments -> LedgerStates] /\ drafts \in SUBSET Segments
      /\ packs \in SUBSET Packs /\ head \in 0..MaxPushes
  BY TypeByRow DEF SegmentInv
<1>1. /\ s \in drafts /\ drafts' = drafts \ {s} /\ ledger' = Retired(ledger, {s}, packs)
      /\ UNCHANGED <<head, packs, object, job, writer, comp, sweep, late, refused>>
  BY DEF DeleteDraft
<1>2. /\ Row(s) /\ ledger[s] = "published" /\ ~OfMain(s)
  BY <1>1 DEF SegmentInv, Rows, Row, PacksAreStored
<1>3. /\ ledger' \in [Segments -> LedgerStates] /\ ledger'[s] = "deleting"
      /\ \A x \in Segments \ {s} : ledger'[x] = ledger[x]
  <2>1. ~ \E p \in packs : p.seg = s
    BY <1>2 DEF OfMain
  <2>2. ledger' = [x \in Segments |-> IF x = s /\ ledger[x] \in {"ready", "published"}
                                     THEN "deleting" ELSE ledger[x]]
    BY <1>1, <2>1 DEF Retired
  <2> QED
    BY <1>t, <1>2, <2>2 DEF LedgerStates
<1>4. TypeOK'
  <2>1. drafts' \in SUBSET Segments
    BY <1>t, <1>1
  <2> QED
    BY <1>1, <1>3, <2>1, TypeByRow, TypeByNextRow DEF SegmentInv
<1>5. PacksAreStored'
  <2>1. \A p \in packs : p.seg # Inline => p.seg \in Segments /\ p.seg # s
    BY <1>t, <1>2 DEF Packs, OfMain
  <2>2. \A p \in packs : p.seg # Inline =>
          ledger'[p.seg] = "published" /\ object'[p.seg] = p.first..p.last
    BY <1>1, <1>3, <2>1 DEF SegmentInv, PacksAreStored
  <2>3. \A x \in drafts : x \in Segments /\ ledger[x] = "published" /\ object[x] # {}
    BY <1>t DEF SegmentInv, PacksAreStored
  <2>4. \A x \in drafts' : ledger'[x] = "published" /\ object'[x] # {}
    BY <1>1, <1>3, <2>3
  <2> QED
    BY <1>1, <2>2, <2>4 DEF PacksAreStored
<1>6. Rows'
  <2> SUFFICES ASSUME NEW x \in Segments PROVE Row(x)'
    BY DEF Rows
  <2>1. Row(x)
    BY DEF SegmentInv, Rows
  <2>2. CASE x # s
    <3>1. /\ OfMain(x)' <=> OfMain(x)
          /\ x \in drafts' <=> x \in drafts
      BY <1>1, <2>2 DEF OfMain
    <3>2. Referenced(x)' <=> Referenced(x)
      BY <3>1 DEF Referenced
    <3> QED
      BY <1>1, <1>3, <2>1, <2>2, <3>1, <3>2 DEF Row
  <2>3. CASE x = s
    <3>1. ~OfMain(s)' /\ ~Referenced(s)'
      BY <1>1, <1>2 DEF Referenced, OfMain
    <3>2. writer[s].pc \in {"failing", "abandon", "done"}
      BY <1>1, <1>2 DEF Row, Referenced
    <3> QED
      BY <1>1, <1>3, <2>3, <3>1, <3>2 DEF Row, Dead, Filled
  <2> QED
    BY <2>2, <2>3
<1>7. Sweeps' /\ Chain'
  <2>1. \A x \in Segments : ledger[x] \in Dead => StaysDead(x)
    BY <1>1, <1>3 DEF StaysDead, Dead
  <2>2. \A w \in Sweepers : sweep'[w] = sweep[w]
    BY <1>1
  <2>3. Sweeps'
    BY <2>1, <2>2, SweepsStay DEF SegmentInv, Sweeps
  <2>4. Chain'
    BY <1>1 DEF SegmentInv, Chain
  <2> QED
    BY <2>3, <2>4
<1>8. Comps'
  <2> SUFFICES ASSUME NEW c \in Compactors PROVE CompSound(c)'
    BY DEF Comps
  <2>1. head =< head' /\ comp'[c] = comp[c] /\ packs' = packs /\ writer' = writer
    BY <1>1, <1>t, SegmentAssumption
  <2>2. comp[c].pc = "work" => Keeps(comp[c].seg)
    BY <2>1 DEF Keeps
  <2> QED
    BY <1>4, <2>1, <2>2, CompsStay DEF SegmentInv
<1> QED
  BY <1>4, <1>5, <1>6, <1>7, <1>8 DEF SegmentInv

\* The replacement spans exactly the packs of the plan.
LEMMA ReplacementSpans ==
  ASSUME NEW c \in Compactors, NEW p \in Packs, NEW q \in Packs,
         comp[c].plan = {p, q}, Neighbours(p, q)
  PROVE  /\ Replacement(c).first = p.first /\ Replacement(c).last = q.last
         /\ Replacement(c).seg = comp[c].seg
         /\ UNION {x.first..x.last : x \in comp[c].plan} = p.first..q.last
         /\ Span(Replacement(c)) = 2 * Span(p)
         /\ Span(Replacement(c)) \in PowersOfTwo
<1>t. /\ p.first \in Pushes /\ p.last \in Pushes /\ q.first \in Pushes /\ q.last \in Pushes
      /\ p.first \in Nat \ {0} /\ p.last \in Nat /\ q.first \in Nat /\ q.last \in Nat
      /\ MaxPushes \in Nat /\ q.last =< MaxPushes
  BY SegmentAssumption DEF Packs, Pushes
<1>1. /\ p.first =< p.last /\ q.first = p.last + 1 /\ q.last - q.first = p.last - p.first
      /\ Span(p) = p.last - p.first + 1
  BY <1>t DEF Neighbours, Follows, Span
<1> DEFINE First(n) == \E x \in comp[c].plan : x.first = n /\ \A y \in comp[c].plan : n =< y.first
           Last(n) == \E x \in comp[c].plan : x.last = n /\ \A y \in comp[c].plan : y.last =< n
<1>2. First(p.first) /\ \A n \in Pushes : First(n) => n = p.first
  BY <1>t, <1>1
<1>3. Last(q.last) /\ \A n \in Pushes : Last(n) => n = q.last
  BY <1>t, <1>1
<1>4. /\ Replacement(c).first = CHOOSE n \in Pushes : First(n)
      /\ Replacement(c).last = CHOOSE n \in Pushes : Last(n)
      /\ Replacement(c).seg = comp[c].seg
  BY DEF Replacement
<1> HIDE DEF First, Last
<1>5. Replacement(c).first = p.first /\ Replacement(c).last = q.last
  BY <1>t, <1>2, <1>3, <1>4
<1>6. UNION {x.first..x.last : x \in comp[c].plan} = p.first..q.last
  <2>1. UNION {x.first..x.last : x \in comp[c].plan} = (p.first..p.last) \cup (q.first..q.last)
    OBVIOUS
  <2>2. (p.first..p.last) \cup (q.first..q.last) = p.first..q.last
    BY <1>t, <1>1
  <2> QED
    BY <2>1, <2>2
<1>7. Span(Replacement(c)) = 2 * Span(p)
  BY <1>t, <1>1, <1>5 DEF Span
<1>8. 2 * Span(p) \in Pushes
  BY <1>t, <1>1 DEF Pushes
<1>9. 2 * Span(p) \in PowersOfTwo
  BY <1>8, Powers DEF Neighbours
<1> QED
  BY <1>4, <1>5, <1>6, <1>7, <1>9

\* The chain with two neighbours replaced by what spans both.
LEMMA ChainMerges ==
  ASSUME TypeOK, Chain, NEW p \in packs, NEW q \in packs, Neighbours(p, q), NEW r,
         r.first = p.first, r.last = q.last, Span(r) \in PowersOfTwo,
         head' = head, packs' = (packs \ {p, q}) \cup {r}
  PROVE  Chain'
<1>t. /\ head \in Nat /\ \A x \in packs : x.first \in Nat /\ x.last \in Nat
      /\ \A x \in packs : x.first =< x.last /\ x.last =< head
  BY SegmentAssumption DEF TypeOK, Packs, Pushes, Chain
<1>1. q.first = p.last + 1 /\ p.first =< p.last
  BY DEF Neighbours, Follows
<1>2. \A x \in packs' : x.last =< head' /\ x.first =< x.last /\ Span(x) \in PowersOfTwo
  BY <1>t, <1>1 DEF Chain
<1>3. ASSUME NEW x \in packs \ {p, q} PROVE Disjoint(x, r) /\ Disjoint(r, x)
  <2>1. Disjoint(x, p) /\ Disjoint(x, q)
    BY <1>3 DEF Chain
  <2> QED
    BY <1>t, <1>1, <1>3, <2>1 DEF Disjoint
<1>4. \A x, y \in packs' : x # y => Disjoint(x, y)
  <2>1. \A x, y \in packs \ {p, q} : x # y => Disjoint(x, y)
    BY DEF Chain
  <2> QED
    BY <1>3, <2>1
<1>5. \A n \in 1..head' : \E x \in packs' : x.first =< n /\ n =< x.last
  <2> SUFFICES ASSUME NEW n \in 1..head
               PROVE  \E x \in packs' : x.first =< n /\ n =< x.last
    OBVIOUS
  <2>1. PICK x \in packs : x.first =< n /\ n =< x.last
    BY DEF Chain
  <2>2. CASE x \in {p, q}
    BY <1>t, <1>1, <2>1, <2>2
  <2>3. CASE x \notin {p, q}
    BY <2>1, <2>3
  <2> QED
    BY <2>2, <2>3
<1> QED
  BY <1>2, <1>4, <1>5 DEF Chain

LEMMA ReplaceKeeps ==
  ASSUME SegmentInv, NEW c \in Compactors, NEW lost \in BOOLEAN, Replace(c, lost)
  PROVE  SegmentInv'
<1> SUFFICES ASSUME NEW s, s = comp[c].seg, NEW r, r = Replacement(c) PROVE SegmentInv'
  OBVIOUS
<1> DEFINE gone == {x.seg : x \in comp[c].plan} \cap Segments
           left == (packs \ comp[c].plan) \cup {r}
<1>t. /\ writer \in [Segments -> WriterRows] /\ ledger \in [Segments -> LedgerStates]
      /\ drafts \in SUBSET Segments /\ packs \in SUBSET Packs /\ head \in 0..MaxPushes
      /\ object \in [Segments -> SUBSET Pushes]
  BY TypeByRow DEF SegmentInv
<1>1. /\ comp[c].pc = "work" /\ writer[s].pc = "ready" /\ comp[c].plan \subseteq packs
      /\ CanPublish(s) /\ packs' = left
      /\ ledger' = Retired([ledger EXCEPT ![s] = "published"], gone, left)
      /\ UNCHANGED <<head, drafts, object, job, comp, sweep, late, refused>>
  BY DEF Replace, StillCurrent
<1>2. /\ s \in Segments /\ writer[s].owner = c /\ Row(s)
      /\ \A d \in Compactors \ {c} : comp[d].pc = "work" => comp[d].seg # s
  BY <1>1, OwnSegment DEF SegmentInv, Rows
<1>3. PlanSound(c) /\ WorkSound(c)
  BY <1>1 DEF SegmentInv, Comps, CompSound
<1>4. PICK p \in Packs, q \in Packs : comp[c].plan = {p, q} /\ Neighbours(p, q)
  BY <1>3 DEF PlanSound
<1>5. /\ r.first = p.first /\ r.last = q.last /\ r.seg = s
      /\ UNION {x.first..x.last : x \in comp[c].plan} = p.first..q.last
      /\ Span(r) \in PowersOfTwo
  BY <1>4, ReplacementSpans
<1>6. r \in Packs
  <2>1. r = [first |-> r.first, last |-> r.last, seg |-> r.seg]
    BY DEF Replacement
  <2>2. r.first \in Pushes /\ r.last \in Pushes /\ r.seg \in Segments \cup {Inline}
    BY <1>2, <1>5 DEF Packs
  <2> QED
    BY <2>1, <2>2 DEF Packs
<1>7. Chain'
  BY <1>1, <1>4, <1>5, ChainMerges DEF SegmentInv
<1>8. ledger[s] = "ready" /\ ~Referenced(s)
  BY <1>1, <1>2 DEF Row, CanPublish, Dead
<1>9. object[s] = p.first..q.last
  <2>1. writer[s].content = p.first..q.last
    BY <1>1, <1>3, <1>5 DEF WorkSound, Filled
  <2> QED
    BY <1>1, <1>2, <1>8, <2>1 DEF Row
<1>w. /\ writer' \in [Segments -> WriterRows]
      /\ \A x \in Segments \ {s} : writer'[x] = writer[x]
      /\ writer'[s].pc \in {"failing", "done"} /\ writer'[s].owner = c
  <2> DEFINE failing == [writer[s] EXCEPT !.pc = "failing"]
             next == [writer[s] EXCEPT !.after = "continue"]
  <2>1. failing \in WriterRows /\ failing.pc = "failing" /\ failing.owner = c
    BY <1>t, <1>2 DEF WriterRows, WriterPcs
  <2>2. next \in WriterRows /\ next.owner = c
    <3>1. writer[s] \in WriterRows
      BY <1>t, <1>2
    <3> QED
      BY <1>2, <3>1 DEF WriterRows, Afters
  <2>3. \/ writer' = [writer EXCEPT ![s] = failing]
        \/ writer' = [writer EXCEPT ![s] = Settled(next)]
    BY <1>t, <1>2 DEF Replace
  <2> HIDE DEF failing, next
  <2>4. Settled(next) \in WriterRows /\ Settled(next).pc = "done" /\ Settled(next).owner = c
    BY <2>2, SettledRow
  <2> QED
    BY <1>t, <1>2, <2>1, <2>3, <2>4
<1>10. ledger' = [x \in Segments |->
                    IF x = s THEN "published"
                    ELSE IF x \in gone /\ ledger[x] \in {"ready", "published"}
                            /\ ~(\E y \in left : y.seg = x)
                         THEN "deleting" ELSE ledger[x]]
  <2>1. \E y \in left : y.seg = s
    BY <1>5
  <2> DEFINE l == [ledger EXCEPT ![s] = "published"]
  <2>2. l[s] = "published" /\ \A x \in Segments \ {s} : l[x] = ledger[x]
    BY <1>t, <1>2
  <2>3. ledger' = Retired(l, gone, left)
    BY <1>1
  <2> HIDE DEF l, gone, left
  <2> QED
    BY <2>1, <2>2, <2>3 DEF Retired
<1>11. /\ ledger' \in [Segments -> LedgerStates] /\ ledger'[s] = "published"
       /\ \A x \in Segments \ {s} :
            \/ ledger'[x] = ledger[x]
            \/ /\ ledger'[x] = "deleting" /\ OfMain(x) /\ ~OfMain(x)'
               /\ ledger[x] \in {"ready", "published"}
  <2>1. \A x \in gone : OfMain(x)
    BY <1>1 DEF OfMain
  <2>2. packs' = left
    BY <1>1
  <2> HIDE DEF gone, left
  <2>3. \A x \in Segments : OfMain(x)' <=> \E y \in left : y.seg = x
    BY <2>2 DEF OfMain
  <2>4. ledger' \in [Segments -> LedgerStates] /\ ledger'[s] = "published"
    BY <1>t, <1>2, <1>10 DEF LedgerStates
  <2>5. \A x \in Segments \ {s} :
          \/ ledger'[x] = ledger[x]
          \/ /\ ledger'[x] = "deleting" /\ x \in gone /\ ~(\E y \in left : y.seg = x)
             /\ ledger[x] \in {"ready", "published"}
    BY <1>10
  <2> QED
    BY <2>1, <2>3, <2>4, <2>5
<1> HIDE DEF gone
<1>12. TypeOK'
  <2>1. packs' \in SUBSET Packs
    BY <1>t, <1>1, <1>6
  <2> QED
    BY <1>1, <1>w, <1>11, <2>1, TypeByRow, TypeByNextRow DEF SegmentInv
<1>13. PacksAreStored'
  <2>1. ASSUME NEW x \in packs \ comp[c].plan, x.seg # Inline
        PROVE  ledger'[x.seg] = "published" /\ object'[x.seg] = x.first..x.last
    <3>1. x.seg \in Segments /\ OfMain(x.seg) /\ OfMain(x.seg)'
      BY <1>t, <1>1, <2>1 DEF Packs, OfMain
    <3>2. x.seg # s
      BY <1>8, <3>1 DEF Referenced
    <3>3. ledger[x.seg] = "published" /\ object[x.seg] = x.first..x.last
      BY <2>1 DEF SegmentInv, PacksAreStored
    <3> QED
      BY <1>1, <1>11, <3>1, <3>2, <3>3
  <2>2. ledger'[r.seg] = "published" /\ object'[r.seg] = r.first..r.last
    BY <1>1, <1>5, <1>9, <1>11
  <2>3. ASSUME NEW x \in drafts PROVE ledger'[x] = "published" /\ object'[x] # {}
    <3>1. x \in Segments /\ x # s /\ Row(x) /\ ledger[x] = "published" /\ object[x] # {}
      BY <1>t, <1>8, <2>3 DEF Referenced, SegmentInv, PacksAreStored, Rows
    <3>2. ~OfMain(x)
      BY <2>3, <3>1 DEF Row
    <3> QED
      BY <1>1, <1>11, <3>1, <3>2
  <2> QED
    BY <1>1, <2>1, <2>2, <2>3 DEF PacksAreStored
<1>14. Rows'
  <2> SUFFICES ASSUME NEW x \in Segments PROVE Row(x)'
    BY DEF Rows
  <2>1. Row(x)
    BY DEF SegmentInv, Rows
  <2>2. CASE x = s
    <3>1. s \notin drafts'
      BY <1>1, <1>8 DEF Referenced
    <3> QED
      BY <1>w, <1>11, <2>2, <3>1 DEF Row, Dead, Filled
  <2>3. CASE x # s
    <3>1. OfMain(x)' => OfMain(x)
      BY <1>1, <1>5, <2>3 DEF OfMain
    <3>2. Referenced(x)' => Referenced(x)
      BY <1>1, <3>1 DEF Referenced
    <3>3. CASE ledger'[x] = ledger[x]
      BY <1>1, <1>w, <2>1, <2>3, <3>1, <3>2, <3>3 DEF Row
    <3>4. CASE ledger'[x] = "deleting" /\ OfMain(x) /\ ~OfMain(x)'
      <4>1. x \notin drafts' /\ writer[x].pc \in {"failing", "abandon", "done"}
        BY <1>1, <2>1, <3>4 DEF Row, Referenced
      <4>2. ~Referenced(x)'
        BY <3>4, <4>1 DEF Referenced
      <4> QED
        BY <1>w, <2>3, <3>4, <4>1, <4>2 DEF Row, Dead, Filled
    <3> QED
      BY <1>11, <2>3, <3>3, <3>4
  <2> QED
    BY <2>2, <2>3
<1>15. Sweeps'
  <2>1. \A x \in Segments : ledger[x] \in Dead => StaysDead(x)
    BY <1>1, <1>8, <1>11 DEF StaysDead, Dead
  <2>2. \A w \in Sweepers : sweep'[w] = sweep[w]
    BY <1>1
  <2> QED
    BY <2>1, <2>2, SweepsStay DEF SegmentInv, Sweeps
<1>16. Comps'
  <2> SUFFICES ASSUME NEW d \in Compactors PROVE CompSound(d)'
    BY DEF Comps
  <2>1. comp[d].pc = "work" /\ comp[d].plan \subseteq packs' => comp[d].plan \subseteq packs
    <3> SUFFICES ASSUME comp[d].pc = "work" PROVE r \notin comp[d].plan
      BY <1>1
    <3>1. PlanSound(d)
      BY DEF SegmentInv, Comps, CompSound
    <3>2. s # Inline /\ writer[s].pc \notin Past
      BY <1>1, <1>2, SegmentAssumption DEF Past
    <3> QED
      BY <1>5, <3>1, <3>2 DEF PlanSound
  <2>2. \A x \in Segments : writer[x].pc \in Past => writer'[x].pc \in Past
    BY <1>w DEF Past
  <2>3. comp[d].pc = "work" => Keeps(comp[d].seg)
    <3> SUFFICES ASSUME comp[d].pc = "work" PROVE Keeps(comp[d].seg)
      OBVIOUS
    <3>1. CASE d = c
      BY <1>2, <1>w, <3>1 DEF Keeps, Filled
    <3>2. CASE d # c
      <4>1. comp[d].seg \in Segments \ {s}
        BY <1>2, <3>2, OwnSegment
      <4> QED
        BY <1>w, <4>1 DEF Keeps
    <3> QED
      BY <3>1, <3>2
  <2>4. head =< head' /\ comp'[d] = comp[d]
    BY <1>1, <1>t, SegmentAssumption
  <2> QED
    BY <1>12, <2>1, <2>2, <2>3, <2>4, CompsStay DEF SegmentInv
<1> QED
  BY <1>7, <1>12, <1>13, <1>14, <1>15, <1>16 DEF SegmentInv

-----------------------------------------------------------------------------
(* The theorems                                                             *)

LEMMA InitiallySound == Init => SegmentInv
<1> SUFFICES ASSUME Init PROVE SegmentInv
  OBVIOUS
<1>0. head = 0 /\ MaxPushes \in Nat
  BY SegmentAssumption DEF Init
<1>1. TypeOK
  <2>1. job \in JobRows
    BY <1>0 DEF Init, JobRows
  <2>2. ledger \in [Segments -> LedgerStates] /\ object \in [Segments -> SUBSET Pushes]
    BY DEF Init, LedgerStates
  <2>3. head \in 0..MaxPushes /\ packs = {} /\ drafts = {} /\ late = {}
    BY <1>0 DEF Init
  <2>r. refused \in BOOLEAN
    BY DEF Init
  <2>4. /\ writer \in [Segments -> WriterRows] /\ comp \in [Compactors -> CompRows]
        /\ sweep \in [Sweepers -> SweepRows]
    BY ConstantRows DEF Init
  <2> QED
    BY <2>1, <2>2, <2>3, <2>r, <2>4, TypeByRow
<1>2. Chain /\ PacksAreStored
  BY <1>0 DEF Init, Chain, PacksAreStored
<1>3. Rows
  BY DEF Init, Rows, Row, OfMain, Referenced, NoWriter, Filled, Dead
<1>4. Sweeps /\ Comps
  BY ConstantRows DEF Init, Sweeps, SweepSound, Comps, CompSound
<1> QED
  BY <1>1, <1>2, <1>3, <1>4 DEF SegmentInv

LEMMA NextSound == SegmentInv /\ [Next]_vars => SegmentInv'
<1> SUFFICES ASSUME SegmentInv, [Next]_vars PROVE SegmentInv'
  OBVIOUS
<1>1. CASE LeaseExpires \/ JobIsDue
  <2>1. UNCHANGED <<head, packs, drafts, ledger, object, writer, comp, sweep, late, refused>>
    BY <1>1 DEF LeaseExpires, JobIsDue
  <2>2. job' \in JobRows
    <3>1. job \in JobRows
      BY TypeByRow DEF SegmentInv
    <3> QED
      BY <1>1, <3>1 DEF LeaseExpires, JobIsDue, JobRows
  <2>3. TypeOK'
    BY <2>1, <2>2, TypeByRow, TypeByNextRow DEF SegmentInv
  <2> QED
    BY <2>1, <2>3, IdleStep
<1>2. CASE UNCHANGED vars
  <2>1. TypeOK'
    BY <1>2, TypeByRow, TypeByNextRow DEF vars, SegmentInv
  <2> QED
    BY <1>2, <2>1, IdleStep DEF vars
<1>3. ASSUME NEW s \in Segments, Push(s) PROVE SegmentInv'
  BY <1>3, PushBegins, PushKeeps, RequestKeeps, FailureKeeps, DraftKeeps DEF Push, Afters
<1>4. ASSUME NEW c \in Compactors, Compact(c) PROVE SegmentInv'
  BY <1>4, ClaimKeeps, DrainKeeps, RestoreKeeps, WorkKeeps, ReplaceKeeps, WorkerEnds,
     CompactionBegins DEF Compact
<1>5. ASSUME NEW c \in Compactors, CompactFails(c) PROVE SegmentInv'
  <2>1. ASSUME NEW remote \in BOOLEAN, NEW after \in {"complete", "fail"}, comp[c].pc = "work",
               IngestFails(comp[c].seg, remote, after)
        PROVE  SegmentInv'
    <3>1. comp[c].seg \in Segments /\ after \in Afters
      BY <2>1, OwnSegment DEF Afters
    <3> QED
      BY <2>1, <3>1, FailureKeeps
  <2> QED
    BY <1>5, <2>1, ReplaceKeeps, WorkKeeps, WorkerEnds DEF CompactFails
<1> QED
  BY <1>1, <1>2, <1>3, <1>4, <1>5, UploadKeeps, PushKeeps, SweepKeeps DEF Next

\* The heads, the packs, the ledger, the job and the three kinds of process keep
\* their types.
THEOREM SegmentTypes == Spec => []TypeOK
<1>1. SegmentInv => TypeOK
  BY DEF SegmentInv
<1> QED
  BY <1>1, InitiallySound, NextSound, PTL DEF Spec

\* The packs of main cover its whole history, without a gap or an overlap and in spans
\* that validate_main_chain accepts, whatever workers race, crash or lose their lease:
\* a plan is applied only while its packs are all there.
THEOREM HistoryIsCovered == Spec => []MainIsCovered
<1>1. SegmentInv => MainIsCovered
  <2> SUFFICES ASSUME SegmentInv PROVE MainIsCovered
    OBVIOUS
  <2>t. /\ head \in Nat
        /\ \A p \in packs : p.first \in Nat \ {0} /\ p.last \in Nat /\ p.first =< p.last
    BY SegmentAssumption DEF SegmentInv, TypeOK, Packs, Pushes, Chain
  <2>1. \A p \in packs : p.first = 1 \/ \E q \in packs : Follows(q, p)
    <3> SUFFICES ASSUME NEW p \in packs, p.first # 1 PROVE \E q \in packs : Follows(q, p)
      OBVIOUS
    <3>1. p.first - 1 \in 1..head
      BY <2>t DEF SegmentInv, Chain
    <3>2. PICK q \in packs : q.first =< p.first - 1 /\ p.first - 1 =< q.last
      BY <3>1 DEF SegmentInv, Chain
    <3>3. q # p /\ Disjoint(p, q)
      BY <2>t, <3>2 DEF SegmentInv, Chain
    <3>4. p.first = q.last + 1
      BY <2>t, <3>2, <3>3 DEF Disjoint
    <3> QED
      BY <3>4 DEF Follows
  <2>2. ChainIsValid(packs)
    BY <2>1 DEF ChainIsValid, SegmentInv, Chain, Disjoint
  <2>3. UNION {p.first..p.last : p \in packs} = 1..head
    <3>1. \A p \in packs : p.first..p.last \subseteq 1..head
      BY <2>t DEF SegmentInv, Chain
    <3>2. ASSUME NEW n \in 1..head PROVE n \in UNION {p.first..p.last : p \in packs}
      <4>1. PICK p \in packs : p.first =< n /\ n =< p.last
        BY DEF SegmentInv, Chain
      <4>2. n \in p.first..p.last
        BY <2>t, <4>1
      <4> QED
        BY <4>2
    <3> QED
      BY <3>1, <3>2
  <2> QED
    BY <2>2, <2>3 DEF MainIsCovered
<1> QED
  BY <1>1, InitiallySound, NextSound, PTL DEF Spec

\* Every registered pack can be read: its segment is published, stored, and holds the
\* pushes its row names.  The ledger's guarded transitions keep writers, retirement and
\* the sweep apart.
THEOREM PacksStayStored == Spec => []PacksAreStored
<1>1. SegmentInv => PacksAreStored
  BY DEF SegmentInv
<1> QED
  BY <1>1, InitiallySound, NextSound, PTL DEF Spec

\* Stored bytes have a row that a pack or the sweep still knows, unless their upload
\* ended after the row had been given up.
THEOREM StoredStaysTracked == Spec => []StoredIsTracked
<1>1. SegmentInv => StoredIsTracked
  BY DEF SegmentInv, Rows, Row, StoredIsTracked
<1> QED
  BY <1>1, InitiallySound, NextSound, PTL DEF Spec

\* What is registered can be read and what is stored is registered (ledger.rs,
\* git_compaction.rs, git_segment_recovery.rs).
THEOREM SegmentsStayKept == Spec => []SegmentsAreKept
  BY PacksStayStored, StoredStaysTracked, PTL DEF SegmentsAreKept

-----------------------------------------------------------------------------
(* The cache: what its directory, its build and its requests agree on       *)

Heads == Cache!Heads
Directories == [present : BOOLEAN, content : Heads, applied : Heads]
CacheRequests ==
  [pc : {"idle", "check", "join", "wait", "lead", "held"}, kind : {"read", "link"}, want : Heads,
   base : Heads]
Builds == [active : BOOLEAN, done : BOOLEAN, ok : BOOLEAN]
Tasks ==
  [pc : {"idle", "start", "install", "note", "write", "restore", "rename", "publish", "remove"},
   kind : {"read", "link", "missing"}, want : Heads, base : Heads, ok : BOOLEAN]

CacheTypes ==
  /\ mainHead \in 1..MaxHead /\ torn \in BOOLEAN /\ dir \in Directories
  /\ request \in [Requests -> CacheRequests] /\ build \in Builds /\ task \in Tasks

\* The coordinator has an entry as long as the task lives, and the entry is
\* complete only while the task is about to remove it.
BuildIsTasks ==
  /\ build.active <=> task.pc # "idle"
  /\ build.done <=> task.pc = "remove"
  /\ task.pc # "idle" => task.want > 0

\* What the task has done to the directory.
TaskIsRight ==
  /\ task.pc \in {"install", "note", "write"} => dir.present
  /\ task.pc \in {"note", "write"} => dir.content >= task.want
  /\ task.pc \in {"restore", "rename"} => dir.applied = 0
  /\ task.pc \in {"publish", "remove"} /\ task.ok /\ task.kind # "missing" /\ ~torn =>
       dir.present /\ dir.content >= task.want /\ dir.applied > 0

\* A request waits for a task that will wake it, leads one for its own head, and
\* holds a directory that has a marker, unless it is just being written.
RequestIsRight(r) ==
  /\ r.pc # "idle" => r.want > 0
  /\ r.pc = "wait" => task.pc \notin {"idle", "remove"}
  /\ r.pc = "lead" => task.pc # "idle" /\ task.want = r.want
  /\ r.pc = "held" /\ ~torn => /\ dir.present /\ dir.content >= r.want
                               /\ task.pc # "write" => dir.applied > 0

CacheInv ==
  /\ CacheTypes /\ Cache!MarkerIsSound /\ BuildIsTasks /\ TaskIsRight
  /\ \A t \in Requests : RequestIsRight(request[t])

LEMMA HeadNumbers == MaxHead \in Nat /\ 0 \in Heads /\ \A h \in Heads : h \in Nat
  BY CacheAssumption DEF Cache!GitCacheAssumption, Heads, Cache!Heads

LEMMA CacheStarts ==
  /\ Cache!Idle \in CacheRequests /\ Cache!Idle.pc = "idle"
  /\ Cache!NoTask \in Tasks /\ Cache!NoTask.pc = "idle"
  /\ Cache!NoBuild \in Builds /\ Cache!NoBuild.active = FALSE /\ Cache!NoBuild.done = FALSE
  /\ Cache!NoDir \in Directories /\ Cache!NoDir.applied = 0 /\ Cache!NoDir.content = 0
  BY HeadNumbers DEF Cache!Idle, CacheRequests, Cache!NoTask, Tasks, Cache!NoBuild, Builds,
     Cache!NoDir, Directories

-----------------------------------------------------------------------------
(* The cache: requests                                                      *)

\* One request moves, and nothing else.
LEMMA RequestMoves ==
  ASSUME CacheInv, NEW t \in Requests, NEW l \in CacheRequests, RequestIsRight(l),
         request' = [request EXCEPT ![t] = l],
         mainHead' \in 1..MaxHead, UNCHANGED <<dir, build, task, torn>>
  PROVE  CacheInv'
<1> USE DEF CacheInv, CacheTypes
<1>1. /\ request' \in [Requests -> CacheRequests] /\ request'[t] = l
      /\ \A u \in Requests \ {t} : request'[u] = request[u]
  OBVIOUS
<1>2. \A u \in Requests : RequestIsRight(request[u])'
  BY <1>1 DEF RequestIsRight
<1> QED
  BY <1>1, <1>2 DEF Cache!MarkerIsSound, BuildIsTasks, TaskIsRight

LEMMA ServedIsRight ==
  ASSUME CacheInv, NEW l \in CacheRequests, l.want > 0,
         torn \/ (dir.present /\ dir.content >= l.want /\ dir.applied > 0)
  PROVE  Cache!Served(l) \in CacheRequests /\ RequestIsRight(Cache!Served(l))
<1> DEFINE k == [l EXCEPT !.pc = "held"]
<1>1. k \in CacheRequests /\ k.pc = "held" /\ k.want = l.want
  BY DEF CacheRequests
<1>2. Cache!Served(l) = IF l.kind = "read" THEN k ELSE Cache!Idle
  BY Zenon DEF Cache!Served
<1> HIDE DEF k
<1> QED
  BY <1>1, <1>2, CacheStarts DEF RequestIsRight

LEMMA BeginKeeps ==
  ASSUME CacheInv, NEW t \in Requests, NEW kind \in {"read", "link"}, NEW want \in 1..MaxHead,
         NEW base \in 0..MaxHead, Cache!Begin(t, kind, want, base)
  PROVE  CacheInv'
<1> DEFINE l == [pc |-> "check", kind |-> kind, want |-> want, base |-> base]
<1>1. want \in Heads /\ base \in Heads /\ want > 0
  BY HeadNumbers DEF Heads, Cache!Heads
<1>2. l \in CacheRequests /\ l.pc = "check" /\ l.want = want
  BY <1>1 DEF CacheRequests
<1>3. request' = [request EXCEPT ![t] = l] /\ UNCHANGED <<mainHead, dir, build, task, torn>>
  BY Zenon DEF Cache!Begin
<1> HIDE DEF l
<1>4. RequestIsRight(l) /\ mainHead' \in 1..MaxHead
  BY <1>1, <1>2, <1>3 DEF RequestIsRight, CacheInv, CacheTypes
<1> QED
  BY <1>2, <1>3, <1>4, RequestMoves

LEMMA CheckReadyKeeps == ASSUME CacheInv, NEW t \in Requests, Cache!CheckReady(t) PROVE CacheInv'
<1> USE DEF CacheInv, CacheTypes
<1> DEFINE j == [request[t] EXCEPT !.pc = "join"]
<1>1. /\ request[t] \in CacheRequests /\ request[t].want > 0 /\ request[t].pc = "check"
      /\ UNCHANGED <<mainHead, dir, build, task, torn>>
  BY DEF Cache!CheckReady, RequestIsRight
<1>2. j \in CacheRequests /\ j.pc = "join" /\ j.want = request[t].want
  BY <1>1 DEF CacheRequests
<1>3. request' = [request EXCEPT ![t] = IF Cache!Ready(request[t].want)
                                        THEN Cache!Served(request[t]) ELSE j]
  BY Zenon DEF Cache!CheckReady
<1> HIDE DEF j
<1>4. CASE Cache!Ready(request[t].want)
  <2>1. dir.present /\ dir.applied >= request[t].want /\ dir.applied <= dir.content
    BY <1>4 DEF Cache!Ready, Cache!MarkerIsSound
  <2>2. dir.applied \in Nat /\ dir.content \in Nat /\ request[t].want \in Nat
    BY <1>1, HeadNumbers DEF Directories, CacheRequests
  <2>3. dir.content >= request[t].want /\ dir.applied > 0
    BY <1>1, <2>1, <2>2
  <2>4. Cache!Served(request[t]) \in CacheRequests /\ RequestIsRight(Cache!Served(request[t]))
    BY <1>1, <2>1, <2>3, ServedIsRight
  <2> QED
    BY <1>1, <1>3, <1>4, <2>4, RequestMoves
<1>5. CASE ~Cache!Ready(request[t].want)
  <2>1. RequestIsRight(j)
    BY <1>1, <1>2 DEF RequestIsRight
  <2> QED
    BY <1>1, <1>2, <1>3, <1>5, <2>1, RequestMoves
<1> QED
  BY <1>4, <1>5

LEMMA AbandonKeeps ==
  ASSUME CacheInv, NEW t \in Requests, Cache!Abandon(t) \/ Cache!DropHandle(t) PROVE CacheInv'
<1>1. /\ request' = [request EXCEPT ![t] = Cache!Idle]
      /\ UNCHANGED <<mainHead, dir, build, task, torn>>
  BY DEF Cache!Abandon, Cache!DropHandle
<1>2. RequestIsRight(Cache!Idle) /\ mainHead' \in 1..MaxHead
  BY <1>1, CacheStarts DEF RequestIsRight, CacheInv, CacheTypes
<1> QED
  BY <1>1, <1>2, CacheStarts, RequestMoves

LEMMA JoinKeeps == ASSUME CacheInv, NEW t \in Requests, Cache!Join(t) PROVE CacheInv'
<1> USE DEF CacheInv, CacheTypes
<1> DEFINE l(pc) == [request[t] EXCEPT !.pc = pc]
<1>1. /\ request[t] \in CacheRequests /\ request[t].want > 0
      /\ UNCHANGED <<mainHead, dir, torn>>
  BY DEF Cache!Join, RequestIsRight
<1>2. \A pc \in {"lead", "wait", "check"} :
        l(pc) \in CacheRequests /\ l(pc).pc = pc /\ l(pc).want = request[t].want
  BY <1>1 DEF CacheRequests
<1>3. CASE build.active
  <2>1. /\ UNCHANGED <<build, task>>
        /\ request' = [request EXCEPT ![t] = IF ~build.done THEN l("wait")
                                             ELSE IF build.ok THEN l("check") ELSE Cache!Idle]
    BY <1>3, Zenon DEF Cache!Join
  <2> DEFINE k == IF ~build.done THEN l("wait") ELSE IF build.ok THEN l("check") ELSE Cache!Idle
  <2>2. build.done <=> task.pc = "remove"
    BY DEF BuildIsTasks
  <2>3. task.pc # "idle"
    BY <1>3 DEF BuildIsTasks
  <2> HIDE DEF l
  <2>4. k \in CacheRequests /\ RequestIsRight(k)
    BY <1>1, <1>2, <2>2, <2>3, CacheStarts DEF RequestIsRight
  <2> HIDE DEF k
  <2>5. request' = [request EXCEPT ![t] = k]
    BY <2>1 DEF k
  <2> QED
    BY <1>1, <2>1, <2>4, <2>5, RequestMoves
<1>4. CASE ~build.active
  <2> DEFINE b == [Cache!NoBuild EXCEPT !.active = TRUE]
             n == [pc |-> "start", kind |-> request[t].kind, want |-> request[t].want,
                   base |-> request[t].base, ok |-> FALSE]
  <2>1. build' = b /\ task' = n /\ request' = [request EXCEPT ![t] = l("lead")]
    BY <1>4, Zenon DEF Cache!Join
  <2>2. b \in Builds /\ b.active = TRUE /\ b.done = FALSE
    BY CacheStarts DEF Builds
  <2>3. n \in Tasks /\ n.pc = "start" /\ n.want = request[t].want
    BY <1>1 DEF Tasks, CacheRequests
  <2> HIDE DEF b, n, l
  <2>4. /\ request' \in [Requests -> CacheRequests] /\ request'[t] = l("lead")
        /\ \A u \in Requests \ {t} : request'[u] = request[u]
    BY <1>2, <2>1
  <2>5. task.pc = "idle"
    BY <1>4 DEF BuildIsTasks
  <2>6. \A u \in Requests : RequestIsRight(request[u])'
    BY <1>1, <1>2, <2>1, <2>3, <2>4, <2>5 DEF RequestIsRight
  <2>7. BuildIsTasks' /\ TaskIsRight'
    BY <1>1, <2>1, <2>2, <2>3 DEF BuildIsTasks, TaskIsRight
  <2> QED
    BY <1>1, <2>1, <2>2, <2>3, <2>4, <2>6, <2>7 DEF Cache!MarkerIsSound
<1> QED
  BY <1>3, <1>4

-----------------------------------------------------------------------------
(* The cache: the build task                                                *)

\* The task moves and may change the directory; the coordinator waits.
LEMMA TaskMoves ==
  ASSUME CacheInv, UNCHANGED <<mainHead, request, build>>, torn' \in BOOLEAN,
         dir' \in Directories, task' \in Tasks,
         task.pc \notin {"idle", "remove"}, task'.pc \notin {"idle", "remove"},
         task'.want = task.want,
         Cache!MarkerIsSound', TaskIsRight', torn => torn',
         \A t \in Requests : request[t].pc = "held" /\ ~torn' =>
           /\ dir'.present /\ dir'.content >= request[t].want
           /\ task'.pc # "write" => dir'.applied > 0
  PROVE  CacheInv'
<1> USE DEF CacheInv, CacheTypes
<1>1. \A t \in Requests : RequestIsRight(request[t])'
  BY DEF RequestIsRight
<1>2. BuildIsTasks'
  BY DEF BuildIsTasks
<1> QED
  BY <1>1, <1>2

\* A task that leaves the directory alone.
LEMMA TaskGoes ==
  ASSUME CacheInv, UNCHANGED <<mainHead, request, build, dir>>, torn' \in BOOLEAN, torn => torn',
         task' \in Tasks, task.pc \notin {"idle", "remove"}, task'.pc \notin {"idle", "remove"},
         task'.want = task.want, TaskIsRight',
         task.pc = "write" => dir.applied > 0 \/ torn' \/ task'.pc = "write"
  PROVE  CacheInv'
<1> USE DEF CacheInv, CacheTypes
<1>1. \A t \in Requests : request[t].pc = "held" /\ ~torn' =>
           /\ dir'.present /\ dir'.content >= request[t].want
           /\ task'.pc # "write" => dir'.applied > 0
  BY DEF RequestIsRight
<1> QED
  BY <1>1, TaskMoves DEF Cache!MarkerIsSound

LEMMA TaskNumbers ==
  ASSUME CacheInv
  PROVE  task.want \in Nat /\ dir.content \in Nat /\ dir.applied \in Nat
  BY HeadNumbers DEF CacheInv, CacheTypes, Tasks, Directories

LEMMA TaskFields ==
  ASSUME CacheInv
  PROVE  /\ \A pc \in {"install", "note", "write", "restore", "rename"} :
              /\ [task EXCEPT !.pc = pc] \in Tasks
              /\ [task EXCEPT !.pc = pc].pc = pc /\ [task EXCEPT !.pc = pc].want = task.want
         /\ \A ok \in BOOLEAN :
              /\ [task EXCEPT !.pc = "publish", !.ok = ok] \in Tasks
              /\ [task EXCEPT !.pc = "publish", !.ok = ok].pc = "publish"
              /\ [task EXCEPT !.pc = "publish", !.ok = ok].want = task.want
              /\ [task EXCEPT !.pc = "publish", !.ok = ok].ok = ok
              /\ [task EXCEPT !.pc = "publish", !.ok = ok].kind = task.kind
  BY DEF CacheInv, CacheTypes, Tasks, Directories

LEMMA FailKeeps ==
  ASSUME CacheInv, Cache!Fail, UNCHANGED <<mainHead, request, build, dir>>, torn' \in BOOLEAN,
         torn => torn', task.pc \notin {"idle", "remove"}, task.pc = "write" => torn'
  PROVE  CacheInv'
<1>1. task' = [task EXCEPT !.pc = "publish", !.ok = FALSE]
  BY DEF Cache!Fail
<1>2. /\ task' \in Tasks /\ task'.pc = "publish" /\ task'.want = task.want /\ task'.ok = FALSE
  BY <1>1, TaskFields
<1> HIDE DEF Cache!Fail
<1>3. TaskIsRight'
  BY <1>2 DEF TaskIsRight
<1> QED
  BY <1>2, <1>3, TaskGoes

LEMMA StartBuildKeeps == ASSUME CacheInv, Cache!StartBuild PROVE CacheInv'
<1> USE DEF CacheInv, CacheTypes
<1>1. task.pc = "start" /\ UNCHANGED <<mainHead, request, build, dir, torn>>
      /\ task.want > 0
  BY DEF Cache!StartBuild, Cache!InTask, BuildIsTasks
<1>2. CASE Cache!Ready(task.want) /\ Cache!Succeed
  <2>1. task' = [task EXCEPT !.pc = "publish", !.ok = TRUE]
    BY <1>2 DEF Cache!Succeed
  <2>2. task' \in Tasks /\ task'.pc = "publish" /\ task'.want = task.want
    BY <2>1, TaskFields
  <2>3. dir.present /\ dir.applied >= task.want /\ dir.applied <= dir.content
    BY <1>2 DEF Cache!Ready, Cache!MarkerIsSound
  <2>4. dir.applied > 0 /\ dir.content >= task.want
    BY <1>1, <2>3, TaskNumbers
  <2>5. TaskIsRight'
    BY <1>1, <2>2, <2>3, <2>4 DEF TaskIsRight
  <2> QED
    BY <1>1, <2>2, <2>5, TaskGoes
<1>3. CASE Cache!Goto("install") /\ dir.present
  <2>1. task' \in Tasks /\ task'.pc = "install" /\ task'.want = task.want
    BY <1>3, TaskFields DEF Cache!Goto
  <2>2. TaskIsRight'
    BY <1>1, <1>3, <2>1 DEF TaskIsRight
  <2> QED
    BY <1>1, <2>1, <2>2, TaskGoes
<1>4. CASE Cache!Goto("restore") /\ ~(dir.present /\ dir.applied > 0)
  <2>1. task' \in Tasks /\ task'.pc = "restore" /\ task'.want = task.want
    BY <1>4, TaskFields DEF Cache!Goto
  <2>2. dir.applied = 0
    BY <1>4, TaskNumbers DEF Cache!MarkerIsSound
  <2>3. TaskIsRight'
    BY <1>1, <2>1, <2>2 DEF TaskIsRight
  <2> QED
    BY <1>1, <2>1, <2>3, TaskGoes
<1>5. CASE task' = [task EXCEPT !.pc = "publish", !.ok = TRUE, !.kind = "missing"]
  <2>1. task' \in Tasks /\ task'.pc = "publish" /\ task'.want = task.want /\ task'.kind = "missing"
    BY <1>5 DEF Tasks
  <2>2. TaskIsRight'
    BY <2>1 DEF TaskIsRight
  <2> QED
    BY <1>1, <2>1, <2>2, TaskGoes
<1> QED
  BY <1>2, <1>3, <1>4, <1>5 DEF Cache!StartBuild

LEMMA InstallKeeps == ASSUME CacheInv, Cache!Install PROVE CacheInv'
<1> USE DEF CacheInv, CacheTypes
<1> DEFINE n == IF dir.content < task.want THEN task.want ELSE dir.content
           d == [dir EXCEPT !.content = n]
<1>1. /\ task.pc = "install" /\ dir' = d /\ Cache!Goto("note")
      /\ UNCHANGED <<mainHead, request, build, torn>> /\ dir.present
  BY Zenon DEF Cache!Install, Cache!InTask, TaskIsRight
<1>2. task' \in Tasks /\ task'.pc = "note" /\ task'.want = task.want
  BY <1>1, TaskFields DEF Cache!Goto
<1>3. n \in Heads /\ n >= dir.content /\ n >= task.want /\ n \in Nat
  BY TaskNumbers DEF Tasks, Directories
<1> HIDE DEF n
<1>4. d \in Directories /\ d.content = n /\ d.present = dir.present /\ d.applied = dir.applied
  BY <1>3 DEF Directories
<1> HIDE DEF d
<1>5. Cache!MarkerIsSound'
  BY <1>1, <1>3, <1>4, TaskNumbers DEF Cache!MarkerIsSound
<1>6. TaskIsRight'
  BY <1>1, <1>2, <1>3, <1>4 DEF TaskIsRight
<1>7. \A t \in Requests : request[t].pc = "held" /\ ~torn =>
           dir'.present /\ dir'.content >= request[t].want /\ dir'.applied > 0
  <2> SUFFICES ASSUME NEW t \in Requests, request[t].pc = "held", ~torn
               PROVE  dir'.present /\ dir'.content >= request[t].want /\ dir'.applied > 0
    OBVIOUS
  <2>1. dir.present /\ dir.content >= request[t].want /\ dir.applied > 0
    BY <1>1 DEF RequestIsRight
  <2>2. request[t].want \in Nat
    BY HeadNumbers DEF CacheRequests
  <2> QED
    BY <1>1, <1>3, <1>4, <2>1, <2>2, TaskNumbers
<1> QED
  BY <1>1, <1>2, <1>4, <1>5, <1>6, <1>7, TaskMoves

\* The marker is truncated before it is written: until then the directory has none.
LEMMA NoteTruncateKeeps == ASSUME CacheInv, Cache!NoteTruncate PROVE CacheInv'
<1> USE DEF CacheInv, CacheTypes
<1> DEFINE d == [dir EXCEPT !.applied = 0]
<1>1. /\ task.pc = "note" /\ dir' = d /\ Cache!Goto("write")
      /\ UNCHANGED <<mainHead, request, build, torn>> /\ dir.present /\ dir.content >= task.want
  BY Zenon DEF Cache!NoteTruncate, Cache!InTask, TaskIsRight
<1>2. task' \in Tasks /\ task'.pc = "write" /\ task'.want = task.want
  BY <1>1, TaskFields DEF Cache!Goto
<1>3. d \in Directories /\ d.content = dir.content /\ d.present = dir.present /\ d.applied = 0
  BY HeadNumbers DEF Directories
<1> HIDE DEF d
<1>4. Cache!MarkerIsSound' /\ TaskIsRight'
  BY <1>1, <1>2, <1>3, TaskNumbers DEF Cache!MarkerIsSound, TaskIsRight
<1>5. \A t \in Requests : request[t].pc = "held" /\ ~torn =>
           dir'.present /\ dir'.content >= request[t].want
  BY <1>1, <1>3 DEF RequestIsRight
<1> QED
  BY <1>1, <1>2, <1>3, <1>4, <1>5, TaskMoves

LEMMA NoteWriteKeeps == ASSUME CacheInv, Cache!NoteWrite PROVE CacheInv'
<1> USE DEF CacheInv, CacheTypes
<1> DEFINE d == [dir EXCEPT !.applied = task.want]
<1>1. /\ task.pc = "write" /\ dir' = d /\ Cache!Succeed
      /\ UNCHANGED <<mainHead, request, build, torn>> /\ dir.present /\ dir.content >= task.want
      /\ task.want > 0
  BY Zenon DEF Cache!NoteWrite, Cache!InTask, TaskIsRight, BuildIsTasks
<1>2. task' \in Tasks /\ task'.pc = "publish" /\ task'.want = task.want
  BY <1>1, TaskFields DEF Cache!Succeed
<1>3. d \in Directories /\ d.content = dir.content /\ d.present = dir.present /\ d.applied = task.want
  BY DEF Directories, Tasks
<1> HIDE DEF d
<1>4. Cache!MarkerIsSound' /\ TaskIsRight'
  BY <1>1, <1>2, <1>3, TaskNumbers DEF Cache!MarkerIsSound, TaskIsRight
<1>5. \A t \in Requests : request[t].pc = "held" /\ ~torn =>
           dir'.present /\ dir'.content >= request[t].want /\ dir'.applied > 0
  BY <1>1, <1>3 DEF RequestIsRight
<1> QED
  BY <1>1, <1>2, <1>3, <1>4, <1>5, TaskMoves

\* Only a directory without a marker is replaced, and no handle has such a one.
LEMMA CacheRestoreKeeps ==
  ASSUME CacheInv, Cache!RestoreReplace \/ Cache!RestoreRename PROVE CacheInv'
<1> USE DEF CacheInv, CacheTypes
<1>1. /\ task.pc \in {"restore", "rename"} /\ dir.applied = 0 /\ task.want > 0
      /\ UNCHANGED <<mainHead, request, build, torn>>
  BY DEF Cache!RestoreReplace, Cache!RestoreRename, Cache!InTask, TaskIsRight, BuildIsTasks
<1>2. torn \/ \A t \in Requests : request[t].pc # "held"
  BY <1>1 DEF RequestIsRight
<1>3. CASE Cache!RestoreReplace
  <2>1. dir' = Cache!NoDir /\ task' \in Tasks /\ task'.pc = "rename" /\ task'.want = task.want
    BY <1>3, TaskFields DEF Cache!RestoreReplace, Cache!Goto
  <2>2. Cache!MarkerIsSound' /\ TaskIsRight'
    BY <2>1, CacheStarts DEF Cache!MarkerIsSound, TaskIsRight
  <2> QED
    BY <1>1, <1>2, <2>1, <2>2, CacheStarts, TaskMoves
<1>4. CASE Cache!RestoreRename
  <2> DEFINE d == [present |-> TRUE, content |-> task.want, applied |-> task.want]
  <2>1. dir' = d /\ task' \in Tasks /\ task'.pc = "publish" /\ task'.want = task.want
    BY <1>4, TaskFields DEF Cache!RestoreRename, Cache!Succeed
  <2>2. d \in Directories /\ d.present /\ d.content = task.want /\ d.applied = task.want
    BY DEF Directories, Tasks
  <2> HIDE DEF d
  <2>3. Cache!MarkerIsSound' /\ TaskIsRight'
    BY <1>1, <2>1, <2>2, TaskNumbers DEF Cache!MarkerIsSound, TaskIsRight
  <2> QED
    BY <1>1, <1>2, <2>1, <2>2, <2>3, TaskMoves
<1> QED
  BY <1>3, <1>4

LEMMA NoteFailsKeeps == ASSUME CacheInv, Cache!NoteFails \/ Cache!BuildFails PROVE CacheInv'
<1>1. /\ Cache!Fail /\ UNCHANGED <<mainHead, request, build, dir>> /\ torn' \in BOOLEAN
      /\ torn => torn'
      /\ task.pc \notin {"idle", "remove"} /\ (task.pc = "write" => torn')
  BY DEF Cache!NoteFails, Cache!BuildFails, Cache!InTask, CacheInv, CacheTypes
<1> QED
  BY <1>1, FailKeeps

LEMMA PublishKeeps == ASSUME CacheInv, Cache!Publish PROVE CacheInv'
<1> USE DEF CacheInv, CacheTypes
<1> DEFINE b == [build EXCEPT !.done = TRUE, !.ok = task.ok]
           n == [task EXCEPT !.pc = "remove"]
           k(t) == [request[t] EXCEPT !.pc = "check"]
<1>1. /\ task.pc = "publish" /\ build' = b /\ task' = n /\ UNCHANGED <<mainHead, dir, torn>>
      /\ request' = [t \in Requests |-> IF request[t].pc # "wait" THEN request[t]
                                        ELSE IF task.ok THEN k(t) ELSE Cache!Idle]
  BY Zenon DEF Cache!Publish, Cache!Goto
<1>2. b \in Builds /\ b.active = build.active /\ b.done = TRUE
  BY DEF Builds, Tasks
<1>3. /\ n \in Tasks /\ n.pc = "remove" /\ n.want = task.want /\ n.kind = task.kind
      /\ n.ok = task.ok
  BY DEF Tasks
<1>4. \A t \in Requests : k(t) \in CacheRequests /\ k(t).pc = "check" /\ k(t).want = request[t].want
  BY DEF CacheRequests
<1> HIDE DEF b, n, k
<1>5. request' \in [Requests -> CacheRequests]
  BY <1>1, <1>4, CacheStarts
<1>6. \A t \in Requests : RequestIsRight(request[t])'
  <2> SUFFICES ASSUME NEW t \in Requests PROVE RequestIsRight(request[t])'
    OBVIOUS
  <2>1. RequestIsRight(request[t])
    OBVIOUS
  <2>2. request'[t] = IF request[t].pc # "wait" THEN request[t]
                      ELSE IF task.ok THEN k(t) ELSE Cache!Idle
    BY <1>1
  <2> QED
    BY <1>1, <1>3, <1>4, <2>1, <2>2, CacheStarts DEF RequestIsRight
<1>7. BuildIsTasks' /\ TaskIsRight'
  BY <1>1, <1>2, <1>3 DEF BuildIsTasks, TaskIsRight
<1> QED
  BY <1>1, <1>2, <1>3, <1>5, <1>6, <1>7 DEF Cache!MarkerIsSound

\* The leader is served from the directory that its own build has left.
LEMMA RemoveKeeps == ASSUME CacheInv, Cache!Remove PROVE CacheInv'
<1> USE DEF CacheInv, CacheTypes
<1> DEFINE k(t) == [request[t] EXCEPT !.pc = "check", !.kind = "read", !.base = 0]
<1>1. /\ task.pc = "remove" /\ build' = Cache!NoBuild /\ task' = Cache!NoTask
      /\ UNCHANGED <<mainHead, dir, torn>>
      /\ request' = [t \in Requests |-> IF request[t].pc # "lead" THEN request[t]
                                        ELSE IF ~task.ok THEN Cache!Idle
                                        ELSE IF task.kind = "missing" THEN k(t)
                                        ELSE Cache!Served(request[t])]
  BY Zenon DEF Cache!Remove
<1>2. \A t \in Requests : k(t) \in CacheRequests /\ k(t).pc = "check" /\ k(t).want = request[t].want
  BY HeadNumbers DEF CacheRequests
<1> HIDE DEF k
<1>3. ASSUME NEW t \in Requests
      PROVE  request'[t] \in CacheRequests /\ RequestIsRight(request[t])'
  <2>1. RequestIsRight(request[t]) /\ request[t] \in CacheRequests
    OBVIOUS
  <2>2. request'[t] = IF request[t].pc # "lead" THEN request[t]
                      ELSE IF ~task.ok THEN Cache!Idle
                      ELSE IF task.kind = "missing" THEN k(t)
                      ELSE Cache!Served(request[t])
    BY <1>1
  <2>3. CASE request[t].pc # "lead"
    BY <1>1, <2>1, <2>2, <2>3, CacheStarts DEF RequestIsRight
  <2>4. CASE request[t].pc = "lead" /\ ~task.ok
    BY <1>1, <2>1, <2>2, <2>4, CacheStarts DEF RequestIsRight
  <2>5. CASE request[t].pc = "lead" /\ task.ok /\ task.kind = "missing"
    BY <1>1, <1>2, <2>1, <2>2, <2>5, CacheStarts DEF RequestIsRight
  <2>6. CASE request[t].pc = "lead" /\ task.ok /\ task.kind # "missing"
    <3>1. request[t].want > 0 /\ request[t].want = task.want
      BY <2>1, <2>6 DEF RequestIsRight
    <3>2. torn \/ (dir.present /\ dir.content >= request[t].want /\ dir.applied > 0)
      BY <1>1, <2>6, <3>1 DEF TaskIsRight
    <3>3. Cache!Served(request[t]) \in CacheRequests
          /\ (Cache!Served(request[t]).pc # "idle" =>
                /\ Cache!Served(request[t]).pc = "held"
                /\ Cache!Served(request[t]).want = request[t].want)
      <4> DEFINE h == [request[t] EXCEPT !.pc = "held"]
      <4>1. h \in CacheRequests /\ h.pc = "held" /\ h.want = request[t].want
        BY <2>1 DEF CacheRequests
      <4>2. Cache!Served(request[t]) = IF request[t].kind = "read" THEN h ELSE Cache!Idle
        BY Zenon DEF Cache!Served
      <4> HIDE DEF h
      <4> QED
        BY <4>1, <4>2, CacheStarts
    <3>4. request'[t] = Cache!Served(request[t])
      BY <2>2, <2>6
    <3> QED
      BY <1>1, <3>1, <3>2, <3>3, <3>4, CacheStarts DEF RequestIsRight
  <2> QED
    BY <2>3, <2>4, <2>5, <2>6
<1>4. request' \in [Requests -> CacheRequests]
  <2>1. \A t \in Requests : request'[t] \in CacheRequests
    BY <1>3
  <2> QED
    BY <1>1, <2>1
<1>5. BuildIsTasks' /\ TaskIsRight'
  BY <1>1, CacheStarts DEF BuildIsTasks, TaskIsRight
<1> QED
  BY <1>1, <1>3, <1>4, <1>5, CacheStarts DEF Cache!MarkerIsSound

-----------------------------------------------------------------------------
(* The cache: its environment                                               *)

LEMMA EvictKeeps == ASSUME CacheInv, Cache!Evict \/ Cache!Restart PROVE CacheInv'
<1> USE DEF CacheInv, CacheTypes
<1>1. CASE Cache!Evict
  <2>1. /\ dir' = Cache!NoDir /\ task.pc = "idle" /\ \A t \in Requests : request[t].pc = "idle"
        /\ UNCHANGED <<mainHead, request, build, task, torn>>
    BY <1>1 DEF Cache!Evict, Cache!Leased
  <2> QED
    BY <2>1, CacheStarts DEF Cache!MarkerIsSound, BuildIsTasks, TaskIsRight, RequestIsRight
<1>2. CASE Cache!Restart
  <2>1. /\ request' = [t \in Requests |-> Cache!Idle] /\ build' = Cache!NoBuild
        /\ task' = Cache!NoTask /\ UNCHANGED <<mainHead, dir, torn>>
    BY <1>2 DEF Cache!Restart
  <2>2. request' \in [Requests -> CacheRequests] /\ \A t \in Requests : request'[t].pc = "idle"
    BY <2>1, CacheStarts
  <2> QED
    BY <2>1, <2>2, CacheStarts DEF Cache!MarkerIsSound, BuildIsTasks, TaskIsRight, RequestIsRight
<1> QED
  BY <1>1, <1>2

LEMMA AcceptKeeps == ASSUME CacheInv, Cache!AcceptPush PROVE CacheInv'
<1>1. mainHead' \in 1..MaxHead /\ UNCHANGED <<dir, request, build, task, torn>>
  BY HeadNumbers DEF Cache!AcceptPush, CacheInv, CacheTypes
<1> QED
  BY <1>1 DEF CacheInv, CacheTypes, Cache!MarkerIsSound, BuildIsTasks, TaskIsRight, RequestIsRight

LEMMA CacheInitInv == Cache!Init => CacheInv
<1> SUFFICES ASSUME Cache!Init PROVE CacheInv
  OBVIOUS
<1>1. 1 \in 1..MaxHead
  BY CacheAssumption DEF Cache!GitCacheAssumption
<1>2. request \in [Requests -> CacheRequests] /\ \A t \in Requests : request[t].pc = "idle"
  BY CacheStarts DEF Cache!Init
<1>3. /\ mainHead = 1 /\ torn = FALSE /\ dir = Cache!NoDir /\ build = Cache!NoBuild
      /\ task = Cache!NoTask
  BY DEF Cache!Init
<1>4. CacheTypes
  BY <1>1, <1>2, <1>3, CacheStarts DEF CacheTypes
<1>5. Cache!MarkerIsSound /\ BuildIsTasks /\ TaskIsRight
  BY <1>3, CacheStarts DEF Cache!MarkerIsSound, BuildIsTasks, TaskIsRight
<1>6. \A t \in Requests : RequestIsRight(request[t])
  BY <1>2 DEF RequestIsRight
<1> QED
  BY <1>4, <1>5, <1>6 DEF CacheInv

LEMMA CacheNextInv == CacheInv /\ [Cache!Next]_(Cache!vars) => CacheInv'
<1> SUFFICES ASSUME CacheInv, [Cache!Next]_(Cache!vars) PROVE CacheInv'
  OBVIOUS
<1>1. CASE UNCHANGED Cache!vars
  BY <1>1 DEF Cache!vars, CacheInv, CacheTypes, Cache!MarkerIsSound, BuildIsTasks, TaskIsRight,
     RequestIsRight
<1>2. CASE Cache!BuildStep
  BY <1>2, StartBuildKeeps, InstallKeeps, NoteTruncateKeeps, NoteWriteKeeps, CacheRestoreKeeps,
     NoteFailsKeeps, PublishKeeps, RemoveKeeps DEF Cache!BuildStep
<1> QED
  BY <1>1, <1>2, AcceptKeeps, BeginKeeps, CheckReadyKeeps, JoinKeeps, AbandonKeeps, EvictKeeps
     DEF Cache!Next

LEMMA CacheInvImplies == CacheInv => HandlesAreSound
<1> SUFFICES ASSUME CacheInv PROVE HandlesAreSound
  OBVIOUS
<1>1. Cache!TypeOK
  BY DEF CacheInv, CacheTypes, Cache!TypeOK, Directories, CacheRequests, Builds, Tasks, Heads
<1>2. Cache!HandlesStayUsable
  BY DEF CacheInv, RequestIsRight, Cache!HandlesStayUsable
<1>3. Cache!WaitersHaveALeader
  BY DEF CacheInv, RequestIsRight, BuildIsTasks, Cache!WaitersHaveALeader
<1> QED
  BY <1>1, <1>2, <1>3 DEF CacheInv, HandlesAreSound

\* A handle stays usable for as long as it is held and no request waits for a
\* build that is over: leases keep eviction away, only a directory without a
\* marker is replaced, and the one task of the coordinator outlives whoever
\* started it (cache.rs, cache/coordinator.rs, repository_engine.rs).
THEOREM HandlesStaySound == Cache!Spec => []HandlesAreSound
<1> QED
  BY CacheInitInv, CacheNextInv, CacheInvImplies, PTL DEF Cache!Spec
=============================================================================
