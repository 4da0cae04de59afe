-------------------------- MODULE LandingProofs ---------------------------
(***************************************************************************)
(* What MergeCommitter and PushTriggers promise, proved for any number of  *)
(* processes, merges, pushes, workers, batches and attempts: no leader     *)
(* loses, doubles or overtakes a merge that waits, and what is reported as *)
(* landed is in main once and stays there; a push that waits has a job, runs *)
(* have an evaluation that explains them, and a withdrawal stops them.     *)
(***************************************************************************)
EXTENDS Landing, SequenceTheorems, WellFoundedInduction, TLAPS

-----------------------------------------------------------------------------
(* Types                                                                    *)

Nums == 0 .. NumMerges
Pcs == {"none", "turn", "take", "open", "settle", "persist", "persisted"}
Line == Seq(Entries)
Queues == [open : BOOLEAN, merges : Line]
Batches ==
  [ready : Line, base : Seq(Nums), speculative : BOOLEAN,
   stop : {"absent", "no", "first", "preflight"}, stopped : Line, conflict : BOOLEAN,
   waiting : Line]
Leaders ==
  [pc : Pcs, batch : Line, committed : Seq(Nums), prepared : Batches, next : Batches,
   batches : 0 .. BatchesPerTurn, landed : Nat, rejected : {"no", "conflict", "moved"}]

Types ==
  /\ main \in Seq(Nums) /\ clear \subseteq Merges /\ turn \in Processes \cup {Nobody}
  /\ queue \in [Processes -> Queues] /\ leader \in [Processes -> Leaders]
  /\ reply \in [Merges -> {"none", "waiting", "ok", "error"}]

-----------------------------------------------------------------------------
(* The inductive invariant                                                  *)

\* A batch as prepare_batch() leaves it: it lands or it stops.
WellPrepared(b) ==
  /\ b.stop \in {"no", "first", "preflight"} /\ Len(b.ready) =< MaxBatch
  /\ b.stop = "no" => b.ready # <<>> /\ b.stopped = <<>>
  /\ b.stop # "no" => b.ready = <<>> /\ b.stopped # <<>>
  /\ b.stop = "first" => Len(b.stopped) = 1

\* What a leader has in hand at each of its steps.
Working(l) ==
  /\ l.pc \in {"none", "turn", "take"} => l.batch = <<>> /\ l.prepared = NoBatch
  /\ l.pc = "open" => l.batch # <<>> /\ Len(l.batch) =< MaxBatch /\ l.prepared = NoBatch
  /\ l.pc \in {"none", "turn", "take", "open"} => l.batches = 0 /\ l.next = NoBatch
  /\ l.pc = "settle" => /\ l.batch = <<>> /\ l.next = NoBatch /\ WellPrepared(l.prepared)
                        /\ l.batches < BatchesPerTurn
  /\ l.pc \in {"persist", "persisted"} =>
       /\ l.batch = <<>> /\ l.prepared.ready # <<>> /\ Len(l.prepared.ready) =< MaxBatch
       /\ l.prepared.stopped = <<>> /\ l.prepared.waiting = <<>>
       /\ \/ l.next = NoBatch
          \/ WellPrepared(l.next) /\ l.batches < BatchesPerTurn
  /\ l.pc = "persisted" => l.landed =< Len(l.prepared.ready)

\* What a leader took to have landed is in main.
Landed(l) ==
  l.pc = "persisted" => \A i \in 1 .. l.landed : l.prepared.ready[i].id \in Range1(main)

\* The merges of a process that have no answer yet.
Unanswered(l, q) == InHand(l) \o q.merges

Growing(s) == \A i, j \in DOMAIN s : i < j => s[i].id < s[j].id
IdsOf(s) == {s[i].id : i \in DOMAIN s}

Waiters == {m \in Merges : reply[m] = "waiting"}

\* Merges are submitted in the order of their numbers.
Submitted == \A m, n \in Merges : n < m /\ reply[m] # "none" => reply[n] # "none"

\* A process and its leader.
Alright(l, q) ==
  /\ Working(l) /\ (q.open <=> l.pc # "none") /\ (~ q.open => q.merges = <<>>)
  /\ Growing(Unanswered(l, q))

Owned(p) == IdsOf(Unanswered(leader[p], queue[p]))

Shared ==
  /\ Waiters = UNION {Owned(p) : p \in Processes}
  /\ \A p, q \in Processes : p # q => Owned(p) \cap Owned(q) = {}

CommitInv ==
  /\ Types /\ Submitted /\ Shared /\ MergesLandOnce
  /\ \A p \in Processes : Alright(leader[p], queue[p]) /\ Landed(leader[p])

-----------------------------------------------------------------------------
(* Lines of merges                                                          *)

Before(S, T) == \A a \in S, b \in T : a < b

LEMMA LineFacts ==
  ASSUME NEW s \in Line
  PROVE  /\ Len(s) \in Nat /\ DOMAIN s = 1 .. Len(s)
         /\ \A i \in DOMAIN s : s[i] \in Entries /\ s[i].id \in Merges
         /\ IdsOf(s) \subseteq Merges /\ Merges \subseteq Nat
<1>1. Len(s) \in Nat /\ DOMAIN s = 1 .. Len(s) /\ \A i \in DOMAIN s : s[i] \in Entries
  BY DEF Line
<1>2. \A i \in DOMAIN s : s[i].id \in Merges
  BY <1>1 DEF Entries
<1>3. IdsOf(s) \subseteq Merges
  BY <1>2 DEF IdsOf
<1>4. Merges \subseteq Nat
  BY MergeCommitterAssumption DEF Merges
<1> QED
  BY <1>1, <1>2, <1>3, <1>4

LEMMA LineEmpty ==
  /\ <<>> \in Line /\ IdsOf(<<>>) = {} /\ Growing(<<>>)
  /\ \A s \in Line : s = <<>> <=> Len(s) = 0
  BY DEF Line, IdsOf, Growing

LEMMA LineConcat ==
  ASSUME NEW s \in Line, NEW t \in Line
  PROVE  /\ s \o t \in Line
         /\ IdsOf(s \o t) = IdsOf(s) \cup IdsOf(t)
         /\ Growing(s \o t) <=> Growing(s) /\ Growing(t) /\ Before(IdsOf(s), IdsOf(t))
         /\ s \o <<>> = s /\ <<>> \o s = s
<1> DEFINE u == s \o t
<1>1. u \in Line /\ s \o <<>> = s /\ <<>> \o s = s
  BY DEF Line
<1>2. /\ Len(s) \in Nat /\ Len(t) \in Nat /\ Len(u) = Len(s) + Len(t)
      /\ DOMAIN s = 1 .. Len(s) /\ DOMAIN t = 1 .. Len(t) /\ DOMAIN u = 1 .. Len(u)
  BY <1>1 DEF Line
<1>3. /\ \A i \in 1 .. Len(s) : u[i] = s[i]
      /\ \A i \in 1 .. Len(t) : u[Len(s) + i] = t[i]
      /\ \A i \in 1 .. Len(u) : i > Len(s) => i - Len(s) \in 1 .. Len(t) /\ u[i] = t[i - Len(s)]
  BY <1>1, <1>2 DEF Line
<1>4. \A i \in 1 .. Len(t) : Len(s) + i \in 1 .. Len(u)
  BY <1>2
<1>5. \A i \in 1 .. Len(s) : i \in 1 .. Len(u)
  BY <1>2
<1> HIDE DEF u
<1>6. IdsOf(u) = IdsOf(s) \cup IdsOf(t)
  <2>1. IdsOf(u) \subseteq IdsOf(s) \cup IdsOf(t)
    <3> SUFFICES ASSUME NEW i \in 1 .. Len(u) PROVE u[i].id \in IdsOf(s) \cup IdsOf(t)
      BY <1>2 DEF IdsOf
    <3>1. CASE i =< Len(s)
      BY <3>1, <1>2, <1>3 DEF IdsOf
    <3>2. CASE i > Len(s)
      <4>1. i - Len(s) \in DOMAIN t /\ u[i] = t[i - Len(s)]
        BY <3>2, <1>2, <1>3
      <4> QED
        BY <4>1 DEF IdsOf
    <3> QED
      BY <1>2, <3>1, <3>2
  <2>2. IdsOf(s) \subseteq IdsOf(u)
    BY <1>2, <1>3, <1>5 DEF IdsOf
  <2>3. IdsOf(t) \subseteq IdsOf(u)
    BY <1>2, <1>3, <1>4 DEF IdsOf
  <2> QED
    BY <2>1, <2>2, <2>3
<1>7. ASSUME Growing(u) PROVE Growing(s) /\ Growing(t) /\ Before(IdsOf(s), IdsOf(t))
  <2>1. Growing(s)
    BY <1>2, <1>3, <1>5, <1>7 DEF Growing
  <2>2. Growing(t)
    <3> SUFFICES ASSUME NEW i \in DOMAIN t, NEW j \in DOMAIN t, i < j PROVE t[i].id < t[j].id
      BY DEF Growing
    <3>1. Len(s) + i \in DOMAIN u /\ Len(s) + j \in DOMAIN u /\ Len(s) + i < Len(s) + j
      BY <1>2, <1>4
    <3>2. u[Len(s) + i].id < u[Len(s) + j].id
      BY <3>1, <1>7 DEF Growing
    <3> QED
      BY <3>2, <1>2, <1>3
  <2>3. Before(IdsOf(s), IdsOf(t))
    <3> SUFFICES ASSUME NEW i \in DOMAIN s, NEW j \in DOMAIN t PROVE s[i].id < t[j].id
      BY DEF Before, IdsOf
    <3>1. i \in DOMAIN u /\ Len(s) + j \in DOMAIN u /\ i < Len(s) + j
      BY <1>2, <1>4, <1>5
    <3>2. u[i].id < u[Len(s) + j].id
      BY <3>1, <1>7 DEF Growing
    <3> QED
      BY <3>2, <1>2, <1>3
  <2> QED
    BY <2>1, <2>2, <2>3
<1>8. ASSUME Growing(s), Growing(t), Before(IdsOf(s), IdsOf(t)) PROVE Growing(u)
  <2> SUFFICES ASSUME NEW i \in DOMAIN u, NEW j \in DOMAIN u, i < j PROVE u[i].id < u[j].id
    BY DEF Growing
  <2>1. CASE j =< Len(s)
    <3>1. i \in DOMAIN s /\ j \in DOMAIN s
      BY <1>2, <2>1
    <3> QED
      BY <3>1, <1>2, <1>3, <1>8 DEF Growing
  <2>2. CASE i > Len(s)
    <3>1. i - Len(s) \in DOMAIN t /\ j - Len(s) \in DOMAIN t /\ i - Len(s) < j - Len(s) /\ j > Len(s)
      BY <1>2, <2>2
    <3>2. t[i - Len(s)].id < t[j - Len(s)].id
      BY <3>1, <1>8 DEF Growing
    <3> QED
      BY <3>1, <3>2, <1>2, <1>3, <2>2
  <2>3. CASE i =< Len(s) /\ j > Len(s)
    <3>1. i \in DOMAIN s /\ j - Len(s) \in DOMAIN t
      BY <1>2, <2>3
    <3>2. s[i].id < t[j - Len(s)].id
      BY <3>1, <1>8 DEF Before, IdsOf
    <3> QED
      BY <3>1, <3>2, <1>2, <1>3, <2>3
  <2> QED
    BY <1>2, <2>1, <2>2, <2>3
<1> QED
  BY <1>1, <1>6, <1>7, <1>8 DEF u

LEMMA LineAssociates ==
  ASSUME NEW s \in Line, NEW t \in Line, NEW u \in Line
  PROVE  (s \o t) \o u = s \o (t \o u)
  BY ConcatAssociative DEF Line

\* A line cut in two.
LEMMA LineCut ==
  ASSUME NEW s \in Line, NEW k \in Nat, k =< Len(s)
  PROVE  /\ SubSeq(s, 1, k) \in Line /\ From(s, k + 1) \in Line
         /\ Len(SubSeq(s, 1, k)) = k /\ Len(From(s, k + 1)) = Len(s) - k
         /\ s = SubSeq(s, 1, k) \o From(s, k + 1)
         /\ \A i \in 1 .. k : SubSeq(s, 1, k)[i] = s[i]
<1>1. s \in Seq(Entries) /\ Len(s) \in Nat
  BY DEF Line
<1>2. SubSeq(s, 1, k) \o SubSeq(s, k + 1, Len(s)) = SubSeq(s, 1, Len(s))
  <2>1. 1 \in 1 .. Len(s) + 1 /\ k \in 1 - 1 .. Len(s) /\ Len(s) \in k .. Len(s)
    BY <1>1
  <2> QED
    BY <1>1, <2>1, ConcatAdjacentSubSeq
<1>3. SubSeq(s, 1, Len(s)) = s
  BY <1>1, SubSeqFull
<1>4. /\ SubSeq(s, 1, k) \in Seq(Entries) /\ Len(SubSeq(s, 1, k)) = k
      /\ \A i \in 1 .. k : SubSeq(s, 1, k)[i] = s[i]
  BY <1>1
<1>5. SubSeq(s, k + 1, Len(s)) \in Seq(Entries) /\ Len(SubSeq(s, k + 1, Len(s))) = Len(s) - k
  BY <1>1
<1> QED
  BY <1>2, <1>3, <1>4, <1>5 DEF Line, From

\* A line whose merges are marked but stay where they are.
LEMMA LineMarked ==
  ASSUME NEW s \in Line, NEW t \in Line, Len(s) = Len(t),
         \A i \in 1 .. Len(s) : s[i].id = t[i].id
  PROVE  IdsOf(s) = IdsOf(t) /\ (Growing(s) <=> Growing(t))
<1>1. DOMAIN s = DOMAIN t /\ DOMAIN s = 1 .. Len(s)
  BY LineFacts
<1> QED
  BY <1>1 DEF IdsOf, Growing

LEMMA LineOfOne ==
  ASSUME NEW e \in Entries
  PROVE  <<e>> \in Line /\ IdsOf(<<e>>) = {e.id} /\ Growing(<<e>>) /\ Len(<<e>>) = 1
  BY DEF Line, IdsOf, Growing

-----------------------------------------------------------------------------
(* What take_batch() takes and what prepare_batch() leaves                  *)

LEMMA BatchableFacts ==
  ASSUME NEW q \in Line
  PROVE  /\ Batchable(q) \in Nat /\ Batchable(q) =< MaxBatch /\ Batchable(q) =< Len(q)
         /\ Batchable(q) = 0 => q = <<>>
<1> DEFINE fits(k) == k <= Len(q) /\ \A i \in 1 .. k : q[i].alone => k = 1
           T == {MaxBatch - k : k \in {n \in 0 .. MaxBatch : fits(n)}}
<1>1. MaxBatch \in Nat \ {0} /\ Len(q) \in Nat
  BY MergeCommitterAssumption DEF Line
<1>2. fits(0)
  BY <1>1
<1>3. T \subseteq Nat /\ T # {}
  BY <1>1, <1>2
<1>4. \E x \in T : \A y \in T : ~ (<<y, x>> \in OpToRel(<, Nat))
  BY <1>3, NatLessThanWellFounded, WFMin
<1>5. PICK x \in T : \A y \in T : ~ (y < x)
  BY <1>3, <1>4 DEF OpToRel
<1>6. PICK k \in 0 .. MaxBatch : fits(k) /\ x = MaxBatch - k
  OBVIOUS
<1>7. k < MaxBatch => ~ fits(k + 1)
  <2> SUFFICES ASSUME k < MaxBatch, fits(k + 1) PROVE FALSE
    OBVIOUS
  <2>1. k + 1 \in 0 .. MaxBatch
    BY <1>1
  <2>2. MaxBatch - (k + 1) \in T
    BY <2>1
  <2>3. MaxBatch - (k + 1) < MaxBatch - k
    BY <1>1
  <2> HIDE DEF T
  <2>4. ~ (MaxBatch - (k + 1) < x)
    BY <2>2, <1>5
  <2> QED
    BY <2>3, <2>4, <1>6
<1>8. /\ Batchable(q) \in 0 .. MaxBatch /\ fits(Batchable(q))
      /\ Batchable(q) < MaxBatch => ~ fits(Batchable(q) + 1)
  BY <1>6, <1>7 DEF Batchable
<1>9. ~ fits(1) => Len(q) = 0
  BY <1>1
<1> HIDE DEF fits
<1>10. Batchable(q) = 0 => Len(q) = 0
  BY <1>1, <1>8, <1>9
<1>11. Batchable(q) =< Len(q)
  BY <1>8 DEF fits
<1> QED
  BY <1>1, <1>8, <1>10, <1>11, LineEmpty

LEMMA UnwoundFacts ==
  /\ NoBatch \in Batches /\ Unwound(NoBatch) = <<>>
  /\ \A b \in Batches : Unwound(b) \in Line
<1>1. NoBatch \in Batches
  BY LineEmpty DEF NoBatch, Batches
<1>2. Unwound(NoBatch) = <<>>
  BY LineEmpty, LineConcat DEF NoBatch, Unwound
<1>3. ASSUME NEW b \in Batches PROVE Unwound(b) \in Line
  <2>1. b.ready \in Line /\ b.stopped \in Line /\ b.waiting \in Line
    BY DEF Batches
  <2> QED
    BY <2>1, LineConcat DEF Unwound
<1> QED
  BY <1>1, <1>2, <1>3

LEMMA PreparedFacts ==
  ASSUME NEW batch \in Line, batch # <<>>, Len(batch) =< MaxBatch,
         NEW base \in Seq(Nums), NEW speculative \in BOOLEAN,
         NEW b \in PreparedOn(batch, base, speculative)
  PROVE  b \in Batches /\ WellPrepared(b) /\ Unwound(b) = batch
<1> DEFINE ends(k) == [NoBatch EXCEPT !.base = base, !.speculative = speculative,
                                      !.stop = "no", !.waiting = From(batch, k + 1)]
<1>1. Len(batch) \in Nat /\ Len(batch) > 0 /\ MaxBatch \in Nat
  BY LineEmpty, LineFacts, MergeCommitterAssumption
<1>2. NoBatch \in Batches /\ NoBatch.ready = <<>> /\ NoBatch.stopped = <<>>
  BY UnwoundFacts DEF NoBatch
<1>3. ASSUME NEW k \in 1 .. Len(batch)
      PROVE  /\ SubSeq(batch, 1, k) \in Line /\ From(batch, k + 1) \in Line
             /\ Len(SubSeq(batch, 1, k)) = k /\ SubSeq(batch, 1, k) # <<>>
             /\ SubSeq(batch, 1, k) \o From(batch, k + 1) = batch
             /\ <<>> \o SubSeq(batch, 1, k) = SubSeq(batch, 1, k)
             /\ SubSeq(batch, 1, k) \o <<>> = SubSeq(batch, 1, k)
  <2>1. k \in Nat /\ k =< Len(batch) /\ k # 0
    BY <1>1
  <2>2. /\ SubSeq(batch, 1, k) \in Line /\ From(batch, k + 1) \in Line
        /\ Len(SubSeq(batch, 1, k)) = k
        /\ SubSeq(batch, 1, k) \o From(batch, k + 1) = batch
    BY <2>1, LineCut
  <2> QED
    BY <2>1, <2>2, LineEmpty, LineConcat
<1>4. CASE \E c \in BOOLEAN :
         b = [ends(1) EXCEPT !.stop = "first", !.stopped = SubSeq(batch, 1, 1), !.conflict = c]
  <2>1. 1 \in 1 .. Len(batch)
    BY <1>1
  <2> HIDE DEF ends
  <2>2. /\ b \in Batches /\ b.ready = <<>> /\ b.stop = "first"
        /\ b.stopped = SubSeq(batch, 1, 1) /\ b.waiting = From(batch, 1 + 1)
    <3>1. PICK c \in BOOLEAN :
            b = [ends(1) EXCEPT !.stop = "first", !.stopped = SubSeq(batch, 1, 1), !.conflict = c]
      BY <1>4
    <3>2. PICK w \in Line : w = From(batch, 1 + 1)
      BY <2>1, <1>3
    <3>3. PICK s \in Line : s = SubSeq(batch, 1, 1)
      BY <2>1, <1>3
    <3>4. PICK e : e = [NoBatch EXCEPT !.base = base, !.speculative = speculative,
                                      !.stop = "no", !.waiting = w]
      OBVIOUS
    <3>5. b = [e EXCEPT !.stop = "first", !.stopped = s, !.conflict = c]
      BY <3>1, <3>2, <3>3, <3>4, Zenon DEF ends
    <3>6. b \in Batches /\ b.ready = <<>> /\ b.stop = "first" /\ b.stopped = s /\ b.waiting = w
      <4>1. e \in Batches /\ e.ready = <<>> /\ e.stop = "no" /\ e.stopped = <<>> /\ e.waiting = w
        BY <1>2, <3>4, LineEmpty DEF Batches
      <4> QED
        BY <3>5, <4>1 DEF Batches
    <3> QED
      BY <3>2, <3>3, <3>6
  <2> QED
    BY <2>1, <2>2, <1>1, <1>3, LineEmpty DEF WellPrepared, Unwound
<1>5. CASE \E k \in 1 .. Len(batch) : b = [ends(k) EXCEPT !.ready = SubSeq(batch, 1, k)]
  <2>1. PICK k \in 1 .. Len(batch) : b = [ends(k) EXCEPT !.ready = SubSeq(batch, 1, k)]
    BY <1>5
  <2> HIDE DEF ends
  <2>2. /\ b \in Batches /\ b.ready = SubSeq(batch, 1, k) /\ b.stop = "no"
        /\ b.stopped = <<>> /\ b.waiting = From(batch, k + 1)
    <3>2. PICK w \in Line : w = From(batch, k + 1)
      BY <1>3
    <3>3. PICK s \in Line : s = SubSeq(batch, 1, k)
      BY <1>3
    <3>4. PICK e : e = [NoBatch EXCEPT !.base = base, !.speculative = speculative,
                                      !.stop = "no", !.waiting = w]
      OBVIOUS
    <3>5. b = [e EXCEPT !.ready = s]
      BY <2>1, <3>2, <3>3, <3>4, Zenon DEF ends
    <3>6. b \in Batches /\ b.ready = s /\ b.stop = "no" /\ b.stopped = <<>> /\ b.waiting = w
      <4>1. e \in Batches /\ e.ready = <<>> /\ e.stop = "no" /\ e.stopped = <<>> /\ e.waiting = w
        BY <1>2, <3>4, LineEmpty DEF Batches
      <4> QED
        BY <3>5, <4>1 DEF Batches
    <3> QED
      BY <3>2, <3>3, <3>6
  <2>3. k =< MaxBatch /\ Len(b.ready) =< MaxBatch
    BY <2>2, <1>1, <1>3, LineEmpty
  <2>4. WellPrepared(b)
    BY <2>2, <2>3, <1>3 DEF WellPrepared
  <2> QED
    BY <2>2, <2>4, <1>3, LineEmpty DEF Unwound
<1>6. CASE \E k \in 1 .. Len(batch) :
         b = [ends(k) EXCEPT !.stop = "preflight", !.stopped = SubSeq(batch, 1, k)]
  <2>1. PICK k \in 1 .. Len(batch) :
          b = [ends(k) EXCEPT !.stop = "preflight", !.stopped = SubSeq(batch, 1, k)]
    BY <1>6
  <2> HIDE DEF ends
  <2>2. /\ b \in Batches /\ b.ready = <<>> /\ b.stop = "preflight"
        /\ b.stopped = SubSeq(batch, 1, k) /\ b.waiting = From(batch, k + 1)
    <3>2. PICK w \in Line : w = From(batch, k + 1)
      BY <1>3
    <3>3. PICK s \in Line : s = SubSeq(batch, 1, k)
      BY <1>3
    <3>4. PICK e : e = [NoBatch EXCEPT !.base = base, !.speculative = speculative,
                                      !.stop = "no", !.waiting = w]
      OBVIOUS
    <3>5. b = [e EXCEPT !.stop = "preflight", !.stopped = s]
      BY <2>1, <3>2, <3>3, <3>4, Zenon DEF ends
    <3>6. b \in Batches /\ b.ready = <<>> /\ b.stop = "preflight" /\ b.stopped = s /\ b.waiting = w
      <4>1. e \in Batches /\ e.ready = <<>> /\ e.stop = "no" /\ e.stopped = <<>> /\ e.waiting = w
        BY <1>2, <3>4, LineEmpty DEF Batches
      <4> QED
        BY <3>5, <4>1 DEF Batches
    <3> QED
      BY <3>2, <3>3, <3>6
  <2>3. k =< MaxBatch /\ Len(b.ready) =< MaxBatch
    BY <2>2, <1>1, <1>3, LineEmpty
  <2>4. WellPrepared(b)
    BY <2>2, <2>3, <1>3 DEF WellPrepared
  <2> QED
    BY <2>2, <2>4, <1>3, LineEmpty DEF Unwound
<1> QED
  BY <1>4, <1>5, <1>6 DEF PreparedOn

-----------------------------------------------------------------------------
(* What a process owes an answer to, by the step of its leader              *)

LEMMA Shape ==
  ASSUME NEW l \in Leaders, Working(l), NEW q \in Queues
  PROVE  /\ Unanswered(l, q) \in Line
         /\ l.pc \in {"none", "turn", "take"} => Unanswered(l, q) = q.merges
         /\ l.pc = "open" => Unanswered(l, q) = l.batch \o q.merges
         /\ l.pc = "settle" => Unanswered(l, q) = Unwound(l.prepared) \o q.merges
         /\ l.pc \in {"persist", "persisted"} =>
              Unanswered(l, q) = (l.prepared.ready \o Unwound(l.next)) \o q.merges
<1>1. /\ l.batch \in Line /\ l.prepared \in Batches /\ l.next \in Batches /\ q.merges \in Line
      /\ l.prepared.ready \in Line /\ l.pc \in Pcs
  BY DEF Leaders, Queues, Batches
<1>2. Unwound(l.prepared) \in Line /\ Unwound(l.next) \in Line
  BY <1>1, UnwoundFacts
<1>3. l.batch \o Unwound(l.prepared) \in Line
  BY <1>1, <1>2, LineConcat
<1>4. InHand(l) \in Line
  BY <1>2, <1>3, LineConcat DEF InHand
<1>5. l.pc \in {"none", "turn", "take"} => InHand(l) = <<>>
  BY LineEmpty, LineConcat, UnwoundFacts DEF Working, InHand
<1>6. l.pc = "open" => InHand(l) = l.batch
  <2>1. l.pc = "open" => Unwound(l.prepared) = <<>> /\ Unwound(l.next) = <<>>
    BY UnwoundFacts DEF Working
  <2>2. l.batch \o <<>> = l.batch
    BY <1>1, LineEmpty, LineConcat
  <2> QED
    BY <2>1, <2>2 DEF InHand
<1>7. l.pc = "settle" => InHand(l) = Unwound(l.prepared)
  BY <1>1, <1>2, LineEmpty, LineConcat, UnwoundFacts DEF Working, InHand
<1>8. l.pc \in {"persist", "persisted"} => InHand(l) = l.prepared.ready \o Unwound(l.next)
  <2> SUFFICES ASSUME l.pc \in {"persist", "persisted"}
               PROVE  InHand(l) = l.prepared.ready \o Unwound(l.next)
    OBVIOUS
  <2>1. l.batch = <<>> /\ l.prepared.stopped = <<>> /\ l.prepared.waiting = <<>>
    BY DEF Working
  <2>2. Unwound(l.prepared) = l.prepared.ready
    BY <1>1, <2>1, LineEmpty, LineConcat DEF Unwound
  <2>3. l.batch \o Unwound(l.prepared) = l.prepared.ready
    BY <1>1, <2>1, <2>2, LineEmpty, LineConcat
  <2> QED
    BY <2>3 DEF InHand
<1>9. Unanswered(l, q) \in Line
  BY <1>1, <1>4, LineConcat DEF Unanswered
<1>10. <<>> \o q.merges = q.merges
  BY <1>1, LineConcat, LineEmpty
<1> QED
  BY <1>5, <1>6, <1>7, <1>8, <1>9, <1>10 DEF Unanswered

-----------------------------------------------------------------------------
(* A step of one leader                                                     *)

\* The leader of p becomes l and its queue q; the merges in done are answered
\* and nothing else is.
Handles(p, l, q, done) ==
  /\ leader' = [leader EXCEPT ![p] = l] /\ queue' = [queue EXCEPT ![p] = q]
  /\ done \subseteq Owned(p) /\ IdsOf(Unanswered(l, q)) = Owned(p) \ done
  /\ reply' \in [Merges -> {"none", "waiting", "ok", "error"}]
  /\ \A m \in Merges \ done : reply'[m] = reply[m]
  /\ \A m \in done : reply'[m] \in {"ok", "error"}

LEMMA OwnedFacts ==
  ASSUME CommitInv, NEW p \in Processes
  PROVE  /\ leader[p] \in Leaders /\ queue[p] \in Queues /\ queue[p].merges \in Line
         /\ Working(leader[p]) /\ Unanswered(leader[p], queue[p]) \in Line
         /\ Growing(Unanswered(leader[p], queue[p]))
         /\ Owned(p) \subseteq Waiters /\ Owned(p) \subseteq Merges
         /\ \A m \in Owned(p) : reply[m] = "waiting"
<1>1. leader[p] \in Leaders /\ queue[p] \in Queues /\ Alright(leader[p], queue[p])
  BY DEF CommitInv, Types
<1>2. queue[p].merges \in Line
  BY <1>1 DEF Queues
<1>3. Owned(p) \subseteq Waiters
  BY DEF CommitInv, Shared
<1>4. Working(leader[p]) /\ Growing(Unanswered(leader[p], queue[p]))
  BY <1>1 DEF Alright
<1>5. Unanswered(leader[p], queue[p]) \in Line
  BY <1>1, <1>4, Shape
<1> QED
  BY <1>1, <1>2, <1>3, <1>4, <1>5 DEF Waiters

LEMMA HandlesShared ==
  ASSUME CommitInv, NEW p \in Processes, NEW l \in Leaders, NEW q \in Queues, NEW done,
         Handles(p, l, q, done), Alright(l, q)
  PROVE  /\ leader' \in [Processes -> Leaders] /\ queue' \in [Processes -> Queues]
         /\ \A r \in Processes : Alright(leader'[r], queue'[r])
         /\ Shared' /\ Submitted'
<1> USE DEF Handles
<1>1. leader \in [Processes -> Leaders] /\ queue \in [Processes -> Queues]
  BY DEF CommitInv, Types
<1>2. leader' \in [Processes -> Leaders] /\ queue' \in [Processes -> Queues]
  BY <1>1
<1>3. /\ leader'[p] = l /\ queue'[p] = q
      /\ \A r \in Processes : r # p => leader'[r] = leader[r] /\ queue'[r] = queue[r]
  BY <1>1
<1>4. \A r \in Processes : Alright(leader[r], queue[r])
  BY DEF CommitInv
<1>5. \A r \in Processes : Alright(leader'[r], queue'[r])
  BY <1>3, <1>4
<1>6. /\ Owned(p)' = Owned(p) \ done
      /\ \A r \in Processes : r # p => Owned(r)' = Owned(r)
  BY <1>3 DEF Owned
<1>7. Owned(p) \subseteq Waiters /\ Waiters \subseteq Merges
  BY OwnedFacts DEF Waiters
<1>8. Waiters' = Waiters \ done
  BY <1>7 DEF Waiters
<1>9. Shared
  BY DEF CommitInv
<1>10. Shared'
  <2>1. \A r, u \in Processes : r # u => Owned(r)' \cap Owned(u)' = {}
    BY <1>6, <1>9 DEF Shared
  <2>2. \A r \in Processes : Owned(r)' = Owned(r) \ done
    BY <1>6, <1>9 DEF Shared
  <2>3. Waiters = UNION {Owned(r) : r \in Processes}
    BY <1>9 DEF Shared
  <2>4. Waiters' = UNION {Owned(r)' : r \in Processes}
    BY <1>8, <2>2, <2>3
  <2> QED
    BY <2>1, <2>4 DEF Shared
<1>11. Submitted'
  <2>1. \A m \in Merges : reply'[m] = "none" <=> reply[m] = "none"
    BY <1>7 DEF Waiters
  <2>2. Submitted
    BY DEF CommitInv
  <2> QED
    BY <2>1, <2>2 DEF Submitted
<1> QED
  BY <1>2, <1>5, <1>10, <1>11

LEMMA MainKept ==
  ASSUME CommitInv, NEW p \in Processes, NEW l \in Leaders, NEW q \in Queues, NEW done,
         Handles(p, l, q, done), Alright(l, q), l.pc # "persisted",
         \A m \in done : reply'[m] = "ok" => m \in Range1(main),
         turn' \in Processes \cup {Nobody}, UNCHANGED <<main, clear>>
  PROVE  CommitInv'
<1>1. /\ leader' \in [Processes -> Leaders] /\ queue' \in [Processes -> Queues]
      /\ \A r \in Processes : Alright(leader'[r], queue'[r])
      /\ Shared' /\ Submitted'
  BY HandlesShared
<1>2. Types'
  BY <1>1 DEF CommitInv, Types, Handles
<1>3. MergesLandOnce'
  BY DEF CommitInv, MergesLandOnce, Handles, Range1
<1>5. ASSUME NEW r \in Processes PROVE Landed(leader[r])'
  <2>1. leader \in [Processes -> Leaders] /\ Landed(leader[r])
    BY DEF CommitInv, Types
  <2>2. leader'[r] = IF r = p THEN l ELSE leader[r]
    BY <2>1 DEF Handles
  <2> QED
    BY <2>1, <2>2 DEF Landed
<1>6. \A r \in Processes : Alright(leader[r], queue[r])'
  BY <1>1
<1> QED
  BY <1>1, <1>2, <1>3, <1>5, <1>6 DEF CommitInv

LEMMA Idle ==
  /\ NoLeader \in Leaders /\ Working(NoLeader) /\ NoLeader.pc = "none"
  /\ [NoLeader EXCEPT !.pc = "turn"] \in Leaders /\ Working([NoLeader EXCEPT !.pc = "turn"])
  /\ [NoLeader EXCEPT !.pc = "turn"].pc = "turn"
  /\ NoQueue \in Queues /\ NoQueue.merges = <<>> /\ ~ NoQueue.open
<1>1. BatchesPerTurn \in Nat /\ <<>> \in Seq(Nums) /\ <<>> \in Line /\ NoBatch \in Batches
  BY MergeCommitterAssumption, LineEmpty, UnwoundFacts
<1>2. NoLeader \in Leaders /\ NoLeader.pc = "none" /\ NoLeader.batch = <<>>
      /\ NoLeader.prepared = NoBatch /\ NoLeader.next = NoBatch /\ NoLeader.batches = 0
  BY <1>1 DEF NoLeader, Leaders, Pcs
<1>3. Working(NoLeader)
  BY <1>2 DEF Working
<1>4. PICK t : t = [NoLeader EXCEPT !.pc = "turn"]
  OBVIOUS
<1>5. t \in Leaders /\ t.pc = "turn" /\ t.batch = <<>>
      /\ t.prepared = NoBatch /\ t.next = NoBatch /\ t.batches = 0
  BY <1>2, <1>4 DEF Leaders, Pcs
<1>6. Working(t)
  BY <1>5 DEF Working
<1>7. NoQueue \in Queues /\ NoQueue.merges = <<>> /\ ~ NoQueue.open
  BY <1>1 DEF NoQueue, Queues
<1> QED
  BY <1>2, <1>3, <1>4, <1>5, <1>6, <1>7

LEMMA AnsweredIds == ASSUME NEW s PROVE Range1(Ids(s)) = IdsOf(s)
  BY DEF Range1, Ids, IdsOf

LEMMA ReleasedFree ==
  ASSUME CommitInv, NEW p \in Processes
  PROVE  Released(p) \in Processes \cup {Nobody}
  BY DEF CommitInv, Types, Released

\* What is answered, as a function.
LEMMA AnswerFacts ==
  ASSUME CommitInv, NEW ms, NEW what \in {"ok", "error"}
  PROVE  /\ Answer(ms, what) \in [Merges -> {"none", "waiting", "ok", "error"}]
         /\ \A m \in Merges \ ms : Answer(ms, what)[m] = reply[m]
         /\ \A m \in Merges \cap ms : Answer(ms, what)[m] = what
  BY DEF CommitInv, Types, Answer

\* The merges in done are answered, truthfully, and no other merge is.
Answers(p, done) ==
  /\ done \subseteq Owned(p)
  /\ reply' \in [Merges -> {"none", "waiting", "ok", "error"}]
  /\ \A m \in Merges \ done : reply'[m] = reply[m]
  /\ \A m \in done : reply'[m] \in {"ok", "error"} /\ (reply'[m] = "ok" => m \in Range1(main))

\* The leader gives the turn back and keeps what it has not answered.
LEMMA TurnEnds ==
  ASSUME CommitInv, NEW p \in Processes, leader[p].pc # "none",
         NEW retry \in Line, NEW merges \in Line, NEW done, Answers(p, done),
         EndTurn(p, retry, merges), UNCHANGED <<main, clear>>,
         Growing(retry \o merges), IdsOf(retry \o merges) = Owned(p) \ done
  PROVE  CommitInv'
<1> DEFINE t == [NoLeader EXCEPT !.pc = "turn"]
           q == [queue[p] EXCEPT !.merges = retry \o merges]
<1>1. queue[p] \in Queues /\ queue[p].open /\ retry \o merges \in Line
  BY OwnedFacts, LineConcat DEF CommitInv, Alright
<1>2. q \in Queues /\ q.open /\ q.merges = retry \o merges
  BY <1>1 DEF Queues
<1>3. t \in Leaders /\ Working(t) /\ t.pc = "turn"
  BY Idle
<1>4. leader' = [leader EXCEPT ![p] = t] /\ queue' = [queue EXCEPT ![p] = q]
      /\ turn' \in Processes \cup {Nobody}
  BY ReleasedFree DEF EndTurn
<1> HIDE DEF t, q
<1>5. Unanswered(t, q) = retry \o merges
  BY <1>2, <1>3, Shape
<1>6. Alright(t, q)
  BY <1>2, <1>3, <1>5 DEF Alright
<1>7. Handles(p, t, q, done)
  BY <1>4, <1>5 DEF Handles, Answers
<1>8. \A m \in done : reply'[m] = "ok" => m \in Range1(main)
  BY DEF Answers
<1> QED
  BY <1>2, <1>3, <1>4, <1>6, <1>7, <1>8, MainKept

-----------------------------------------------------------------------------
(* Submitters and failures                                                  *)

LEMMA SubmitInv ==
  ASSUME CommitInv, NEW m \in Merges, NEW p \in Processes, Submit(m, p)
  PROVE  CommitInv'
<1> DEFINE e == [id |-> m, attempt |-> 1, alone |-> FALSE]
           q == [open |-> TRUE, merges |-> Append(queue[p].merges, e)]
           t == [NoLeader EXCEPT !.pc = "turn"]
           l == IF queue[p].open THEN leader[p] ELSE t
           U == Unanswered(leader[p], queue[p])
<1>1. /\ leader[p] \in Leaders /\ queue[p] \in Queues /\ queue[p].merges \in Line
      /\ Working(leader[p]) /\ U \in Line /\ Growing(U)
      /\ Owned(p) \subseteq Merges /\ \A n \in Owned(p) : reply[n] = "waiting"
  BY OwnedFacts
<1>2. /\ leader \in [Processes -> Leaders] /\ queue \in [Processes -> Queues]
      /\ reply \in [Merges -> {"none", "waiting", "ok", "error"}] /\ Merges \subseteq Nat
  BY MergeCommitterAssumption DEF CommitInv, Types, Merges
<1>3. e \in Entries /\ e.id = m
  BY MergeCommitterAssumption DEF Entries
<1>4. /\ queue[p].merges \o <<e>> \in Line
      /\ Append(queue[p].merges, e) = queue[p].merges \o <<e>> /\ <<e>> \in Line
  <2> HIDE DEF e
  <2>1. Append(queue[p].merges, e) = queue[p].merges \o <<e>>
    BY <1>1, <1>3, AppendIsConcat DEF Line
  <2> QED
    BY <2>1, <1>1, <1>3, LineOfOne, LineConcat
<1> HIDE DEF e
<1>5. q \in Queues /\ q.open /\ q.merges = queue[p].merges \o <<e>>
  BY <1>4 DEF Queues
<1>6. l \in Leaders /\ Working(l) /\ l.pc # "none"
  BY <1>1, Idle DEF CommitInv, Alright
<1>7. Unanswered(l, q) = U \o <<e>>
  <2>1. CASE queue[p].open
    <3>1. InHand(leader[p]) \in Line
      <4>1. leader[p].batch \in Line /\ leader[p].prepared \in Batches /\ leader[p].next \in Batches
        BY <1>1 DEF Leaders
      <4> QED
        BY <4>1, UnwoundFacts, LineConcat DEF InHand
    <3>2. Unanswered(l, q) = InHand(leader[p]) \o (queue[p].merges \o <<e>>)
      BY <2>1, <1>5 DEF Unanswered
    <3> QED
      BY <3>1, <3>2, <1>1, <1>4, LineAssociates DEF Unanswered
  <2>2. CASE ~ queue[p].open
    <3>1. leader[p].pc = "none" /\ queue[p].merges = <<>>
      BY <2>2 DEF CommitInv, Alright
    <3>2. U = <<>>
      BY <3>1, <1>1, Shape
    <3>3. l.pc = "turn"
      BY <2>2, Idle
    <3> HIDE DEF l, q, U
    <3> QED
      BY <3>1, <3>2, <3>3, <1>5, <1>6, Shape
  <2> QED
    BY <2>1, <2>2
<1>8. leader' = [leader EXCEPT ![p] = l] /\ queue' = [queue EXCEPT ![p] = q]
  BY <1>2 DEF Submit, e
<1>9. \A n \in Owned(p) : n < m
  <2>1. Submitted /\ reply[m] = "none"
    BY DEF CommitInv, Submit
  <2>2. ASSUME NEW n \in Owned(p) PROVE n < m
    <3>1. n \in Merges /\ reply[n] # "none" /\ n # m
      BY <1>1, <2>1
    <3>2. ~ (m < n)
      BY <2>1, <3>1 DEF Submitted
    <3> QED
      BY <1>2, <3>1, <3>2
  <2> QED
    BY <2>2
<1> HIDE DEF q, l
<1>10. IdsOf(U \o <<e>>) = Owned(p) \cup {m} /\ Growing(U \o <<e>>)
  BY <1>1, <1>3, <1>4, <1>9, LineConcat, LineOfOne DEF Before, Owned
<1> HIDE DEF U
<1>11. Alright(l, q)
  BY <1>5, <1>6, <1>7, <1>10 DEF Alright
<1>12. \A r \in Processes : Alright(leader[r], queue[r])'
  <2>1. \A r \in Processes : Alright(leader[r], queue[r])
    BY DEF CommitInv
  <2>2. \A r \in Processes : /\ leader'[r] = IF r = p THEN l ELSE leader[r]
                            /\ queue'[r] = IF r = p THEN q ELSE queue[r]
    BY <1>2, <1>8
  <2> QED
    BY <1>11, <2>1, <2>2
<1>13. Owned(p)' = Owned(p) \cup {m} /\ \A r \in Processes : r # p => Owned(r)' = Owned(r)
  BY <1>2, <1>7, <1>8, <1>10 DEF Owned
<1>14. /\ reply' \in [Merges -> {"none", "waiting", "ok", "error"}]
       /\ reply'[m] = "waiting" /\ reply[m] = "none"
       /\ \A n \in Merges : n # m => reply'[n] = reply[n]
  BY <1>2 DEF Submit
<1>15. Waiters' = Waiters \cup {m} /\ m \notin Waiters
  BY <1>14 DEF Waiters
<1>16. Shared'
  <2>1. Shared
    BY DEF CommitInv
  <2>2. \A r \in Processes : Owned(r) \subseteq Waiters
    BY <2>1 DEF Shared
  <2>3. \A r, u \in Processes : r # u => Owned(r)' \cap Owned(u)' = {}
    BY <1>13, <1>15, <2>1, <2>2 DEF Shared
  <2>4. Waiters = UNION {Owned(r) : r \in Processes}
    BY <2>1 DEF Shared
  <2>5. Waiters' = UNION {Owned(r)' : r \in Processes}
    BY <1>13, <1>15, <2>4
  <2> QED
    BY <2>3, <2>5 DEF Shared
<1>17. Submitted'
  <2>1. Submitted /\ \A n \in 1 .. m - 1 : reply[n] # "none"
    BY DEF CommitInv, Submit
  <2>2. \A n \in Merges : n < m => n \in 1 .. m - 1
    BY <1>2 DEF Merges
  <2> QED
    BY <1>14, <2>1, <2>2 DEF Submitted
<1>18. Types'
  <2>1. leader' \in [Processes -> Leaders] /\ queue' \in [Processes -> Queues]
    BY <1>2, <1>5, <1>6, <1>8
  <2> QED
    BY <2>1, <1>14 DEF CommitInv, Types, Submit
<1>19. MergesLandOnce'
  BY <1>14 DEF CommitInv, MergesLandOnce, Submit, Range1
<1>20. ASSUME NEW r \in Processes PROVE Landed(leader[r])'
  <2>1. Landed(leader[r]) /\ Alright(leader[p], queue[p])
    BY DEF CommitInv
  <2>2. leader'[r] = leader[r] \/ leader'[r].pc = "turn"
    BY <1>2, <1>8, Idle DEF l
  <2> QED
    BY <2>1, <2>2 DEF Landed, Submit
<1> QED
  BY <1>12, <1>16, <1>17, <1>18, <1>19, <1>20 DEF CommitInv

LEMMA PushMainInv ==
  ASSUME CommitInv, PushMain
  PROVE  CommitInv'
<1>1. main \in Seq(Nums) /\ 0 \in Nums /\ main' = Append(main, 0)
  BY MergeCommitterAssumption DEF CommitInv, Types, PushMain, Nums
<1>2. /\ main' \in Seq(Nums) /\ Len(main') = Len(main) + 1 /\ Len(main) \in Nat
      /\ DOMAIN main = 1 .. Len(main) /\ DOMAIN main' = 1 .. Len(main) + 1
      /\ \A i \in 1 .. Len(main) : main'[i] = main[i]
      /\ main'[Len(main) + 1] = 0
  BY <1>1
<1>3. Range1(main) \subseteq Range1(main)'
  BY <1>2 DEF Range1
<1>4. MergesLandOnce'
  <2>1. MergesLandOnce
    BY DEF CommitInv
  <2>2. ASSUME NEW i \in DOMAIN main', NEW j \in DOMAIN main', main'[i] # 0, main'[i] = main'[j]
        PROVE  i = j
    <3>1. i \in 1 .. Len(main) /\ j \in 1 .. Len(main)
      BY <1>2, <2>2
    <3> QED
      BY <1>2, <2>1, <2>2, <3>1 DEF MergesLandOnce
  <2>3. \A m \in Merges : reply'[m] = "ok" => m \in Range1(main)'
    BY <1>3, <2>1 DEF MergesLandOnce, PushMain
  <2> QED
    BY <2>2, <2>3 DEF MergesLandOnce
<1>5. UNCHANGED <<clear, queue, turn, leader, reply>>
  BY DEF PushMain
<1>6. Types' /\ Submitted' /\ Shared'
  BY <1>2, <1>5 DEF CommitInv, Types, Submitted, Shared, Waiters, Owned
<1>7. \A p \in Processes : Alright(leader[p], queue[p])' /\ Landed(leader[p])'
  BY <1>3, <1>5 DEF CommitInv, Landed
<1> QED
  BY <1>4, <1>6, <1>7 DEF CommitInv

LEMMA OutsideInv ==
  ASSUME CommitInv, LoseTurn \/ \E m \in Merges : Disturb(m)
  PROVE  CommitInv'
<1>1. UNCHANGED <<main, queue, leader, reply>> /\ clear' \subseteq clear
      /\ turn' \in Processes \cup {Nobody}
  BY DEF LoseTurn, Disturb, CommitInv, Types
<1>2. Types' /\ Submitted' /\ Shared' /\ MergesLandOnce'
  BY <1>1 DEF CommitInv, Types, Submitted, Shared, Waiters, Owned, MergesLandOnce
<1>3. \A p \in Processes : Alright(leader[p], queue[p])' /\ Landed(leader[p])'
  BY <1>1 DEF CommitInv, Landed
<1> QED
  BY <1>2, <1>3 DEF CommitInv

\* Everything a process holds is answered at once.
LEMMA AbandonInv ==
  ASSUME CommitInv, NEW p \in Processes, AcquireFails(p) \/ LeaderDies(p)
  PROVE  CommitInv'
<1>1. /\ reply' = Answer(Range1(Pipeline(p)), "error")
      /\ queue' = [queue EXCEPT ![p] = NoQueue] /\ leader' = [leader EXCEPT ![p] = NoLeader]
      /\ UNCHANGED <<main, clear>> /\ turn' \in Processes \cup {Nobody}
  BY ReleasedFree DEF AcquireFails, LeaderDies, CommitInv, Types
<1>2. Range1(Pipeline(p)) = Owned(p)
  BY AnsweredIds DEF Pipeline, Owned, Unanswered
<1>3. Unanswered(NoLeader, NoQueue) = <<>>
  BY Idle, Shape
<1>4. Alright(NoLeader, NoQueue)
  BY <1>3, Idle, LineEmpty DEF Alright
<1>5. /\ reply' \in [Merges -> {"none", "waiting", "ok", "error"}]
      /\ \A m \in Merges \ Owned(p) : reply'[m] = reply[m]
      /\ \A m \in Owned(p) : reply'[m] = "error"
  BY <1>1, <1>2, AnswerFacts, OwnedFacts
<1>6. Handles(p, NoLeader, NoQueue, Owned(p))
  BY <1>1, <1>3, <1>5, LineEmpty DEF Handles
<1> QED
  BY <1>1, <1>4, <1>5, <1>6, Idle, MainKept

-----------------------------------------------------------------------------
(* Taking and preparing a batch                                             *)

LEMMA AcquireTurnInv ==
  ASSUME CommitInv, NEW p \in Processes, AcquireTurn(p)
  PROVE  CommitInv'
<1> DEFINE l == [leader[p] EXCEPT !.pc = "take"]
<1>1. /\ leader[p] \in Leaders /\ queue[p] \in Queues /\ Working(leader[p])
      /\ leader[p].pc = "turn" /\ Alright(leader[p], queue[p])
  BY OwnedFacts DEF AcquireTurn, CommitInv
<1>2. /\ l \in Leaders /\ l.pc = "take" /\ l.batch = leader[p].batch /\ l.batches = leader[p].batches
      /\ l.prepared = leader[p].prepared /\ l.next = leader[p].next
  BY <1>1 DEF Leaders, Pcs
<1>3. Working(l)
  BY <1>1, <1>2 DEF Working
<1>4. Unanswered(l, queue[p]) = Unanswered(leader[p], queue[p])
  BY <1>2 DEF Unanswered, InHand
<1>5. Alright(l, queue[p])
  BY <1>1, <1>2, <1>3, <1>4 DEF Alright
<1>6. Handles(p, l, queue[p], {})
  BY <1>4 DEF Handles, AcquireTurn, Owned, CommitInv, Types
<1>7. turn' \in Processes \cup {Nobody} /\ UNCHANGED <<main, clear>>
  BY DEF AcquireTurn
<1> HIDE DEF l
<1> QED
  BY <1>1, <1>2, <1>5, <1>6, <1>7, MainKept

\* The first merges of a queue and the rest of it.
LEMMA TakenFacts ==
  ASSUME NEW q \in Line, NEW k, k = Batchable(q), k # 0
  PROVE  /\ SubSeq(q, 1, k) \in Line /\ From(q, k + 1) \in Line /\ SubSeq(q, 1, k) # <<>>
         /\ Len(SubSeq(q, 1, k)) =< MaxBatch /\ SubSeq(q, 1, k) \o From(q, k + 1) = q
<1>1. k \in Nat /\ k =< MaxBatch /\ k =< Len(q)
  BY BatchableFacts
<1> QED
  BY <1>1, LineCut, LineEmpty

LEMMA TakeBatchInv ==
  ASSUME CommitInv, NEW p \in Processes, TakeBatch(p)
  PROVE  CommitInv'
<1>1. /\ leader[p] \in Leaders /\ queue[p] \in Queues /\ Working(leader[p])
      /\ queue[p].merges \in Line
      /\ leader[p].pc = "take" /\ Alright(leader[p], queue[p])
  BY OwnedFacts DEF TakeBatch, CommitInv
<1>2. PICK k : k = Batchable(queue[p].merges)
  OBVIOUS
<1>3. Unanswered(leader[p], queue[p]) = queue[p].merges
  BY <1>1, Shape
<1>4. reply \in [Merges -> {"none", "waiting", "ok", "error"}] /\ UNCHANGED <<main, clear, reply>>
  BY DEF CommitInv, Types, TakeBatch
<1>5. CASE k = 0
  <2>1. queue[p].merges = <<>>
    BY <1>1, <1>2, <1>5, BatchableFacts
  <2>2. Unanswered(NoLeader, NoQueue) = <<>>
    BY Idle, Shape
  <2>3. Alright(NoLeader, NoQueue)
    BY <2>2, Idle, LineEmpty DEF Alright
  <2>4. /\ queue' = [queue EXCEPT ![p] = NoQueue] /\ leader' = [leader EXCEPT ![p] = NoLeader]
        /\ turn' \in Processes \cup {Nobody}
    BY <1>2, <1>5, ReleasedFree DEF TakeBatch
  <2>5. Handles(p, NoLeader, NoQueue, {})
    BY <1>3, <1>4, <2>1, <2>2, <2>4, LineEmpty DEF Handles, Owned
  <2> QED
    BY <1>4, <2>3, <2>4, <2>5, Idle, MainKept
<1>6. CASE k # 0
  <2>1. PICK b \in Line, rest \in Line :
          /\ b = SubSeq(queue[p].merges, 1, k) /\ rest = From(queue[p].merges, k + 1)
          /\ b # <<>> /\ Len(b) =< MaxBatch /\ b \o rest = queue[p].merges
    BY <1>1, <1>2, <1>6, TakenFacts
  <2> DEFINE q == [queue[p] EXCEPT !.merges = rest]
             l == [leader[p] EXCEPT !.pc = "open", !.batch = b]
  <2>2. q \in Queues /\ q.open = queue[p].open /\ q.merges = rest
    BY <1>1 DEF Queues
  <2>3. /\ l \in Leaders /\ l.pc = "open" /\ l.batch = b /\ l.batches = leader[p].batches
        /\ l.prepared = leader[p].prepared /\ l.next = leader[p].next
    BY <1>1 DEF Leaders, Pcs
  <2>4. leader' = [leader EXCEPT ![p] = l] /\ queue' = [queue EXCEPT ![p] = q] /\ turn' = turn
    BY <1>2, <1>6, <2>1 DEF TakeBatch
  <2> HIDE DEF q, l
  <2>5. Working(l)
    BY <1>1, <2>1, <2>3 DEF Working
  <2>6. Unanswered(l, q) = queue[p].merges
    BY <2>1, <2>2, <2>3, <2>5, Shape
  <2>7. Alright(l, q)
    BY <1>1, <1>3, <2>2, <2>3, <2>5, <2>6 DEF Alright
  <2>8. Handles(p, l, q, {})
    BY <1>3, <1>4, <2>4, <2>6 DEF Handles, Owned
  <2>9. turn' \in Processes \cup {Nobody}
    BY <2>4 DEF CommitInv, Types
  <2> QED
    BY <1>4, <2>2, <2>3, <2>7, <2>8, <2>9, MainKept
<1> QED
  BY <1>5, <1>6

LEMMA OpenFailsInv ==
  ASSUME CommitInv, NEW p \in Processes, OpenFails(p)
  PROVE  CommitInv'
<1>1. /\ leader[p] \in Leaders /\ queue[p] \in Queues /\ Working(leader[p])
      /\ queue[p].merges \in Line /\ leader[p].batch \in Line
      /\ leader[p].pc = "open" /\ Growing(Unanswered(leader[p], queue[p]))
      /\ Owned(p) \subseteq Merges
  BY OwnedFacts DEF OpenFails, Leaders
<1>2. Unanswered(leader[p], queue[p]) = leader[p].batch \o queue[p].merges
  BY <1>1, Shape
<1>3. PICK done : done = IdsOf(leader[p].batch)
  OBVIOUS
<1>4. /\ Growing(queue[p].merges) /\ Before(done, IdsOf(queue[p].merges))
      /\ Owned(p) = done \cup IdsOf(queue[p].merges)
  BY <1>1, <1>2, <1>3, LineConcat DEF Owned
<1>5. done \subseteq Owned(p) /\ IdsOf(queue[p].merges) = Owned(p) \ done
  BY <1>1, <1>4, LineFacts DEF Before
<1>6. /\ reply' \in [Merges -> {"none", "waiting", "ok", "error"}]
      /\ \A m \in Merges \ done : reply'[m] = reply[m]
      /\ \A m \in Merges \cap done : reply'[m] = "error"
  BY <1>3, AnswerFacts, AnsweredIds DEF OpenFails
<1>7. \A m \in done : reply'[m] = "error"
  BY <1>1, <1>5, <1>6
<1>8. <<>> \o queue[p].merges = queue[p].merges /\ <<>> \in Line
  BY <1>1, LineConcat, LineEmpty
<1>9. EndTurn(p, <<>>, queue[p].merges) /\ UNCHANGED <<main, clear>>
  BY DEF OpenFails
<1>10. Growing(<<>> \o queue[p].merges) /\ IdsOf(<<>> \o queue[p].merges) = Owned(p) \ done
  BY <1>4, <1>5, <1>8
<1>11. Answers(p, done)
  BY <1>5, <1>6, <1>7 DEF Answers
<1> QED
  BY <1>1, <1>8, <1>9, <1>10, <1>11, TurnEnds

LEMMA OpenInv ==
  ASSUME CommitInv, NEW p \in Processes, Open(p)
  PROVE  CommitInv'
<1>1. /\ leader[p] \in Leaders /\ queue[p] \in Queues /\ Working(leader[p])
      /\ queue[p].merges \in Line /\ leader[p].batch \in Line
      /\ leader[p].pc = "open" /\ Alright(leader[p], queue[p])
  BY OwnedFacts DEF Open, Leaders, CommitInv
<1>2. main \in Seq(Nums) /\ reply \in [Merges -> {"none", "waiting", "ok", "error"}]
      /\ leader[p].batch # <<>> /\ Len(leader[p].batch) =< MaxBatch
  BY <1>1 DEF CommitInv, Types, Working
<1>3. PICK b \in PreparedOn(leader[p].batch, main, FALSE) :
        leader' = [leader EXCEPT ![p].pc = "settle", ![p].batch = <<>>,
                                 ![p].committed = main, ![p].prepared = b]
  BY DEF Open
<1>4. b \in Batches /\ WellPrepared(b) /\ Unwound(b) = leader[p].batch
  BY <1>1, <1>2, <1>3, PreparedFacts
<1> DEFINE l == [leader[p] EXCEPT !.pc = "settle", !.batch = <<>>, !.committed = main,
                                  !.prepared = b]
<1>5. /\ l \in Leaders /\ l.pc = "settle" /\ l.batch = <<>> /\ l.batches = leader[p].batches
      /\ l.prepared = b /\ l.next = leader[p].next
  BY <1>1, <1>2, <1>4, LineEmpty DEF Leaders, Pcs
<1>6. leader' = [leader EXCEPT ![p] = l] /\ UNCHANGED <<main, clear, queue, turn, reply>>
  BY <1>3 DEF Open
<1> HIDE DEF l
<1>7. Working(l)
  BY <1>1, <1>4, <1>5, MergeCommitterAssumption DEF Working
<1>8. Unanswered(l, queue[p]) = Unanswered(leader[p], queue[p])
  BY <1>1, <1>4, <1>5, <1>7, Shape
<1>9. Alright(l, queue[p])
  BY <1>1, <1>5, <1>7, <1>8 DEF Alright
<1>10. Handles(p, l, queue[p], {})
  BY <1>2, <1>6, <1>8 DEF Handles, Owned, CommitInv, Types
<1>11. turn' \in Processes \cup {Nobody}
  BY <1>6 DEF CommitInv, Types
<1> QED
  BY <1>1, <1>5, <1>6, <1>9, <1>10, <1>11, MainKept

LEMMA PrepareNextInv ==
  ASSUME CommitInv, NEW p \in Processes, PrepareNext(p)
  PROVE  CommitInv'
<1>1. /\ leader[p] \in Leaders /\ queue[p] \in Queues /\ Working(leader[p])
      /\ queue[p].merges \in Line /\ leader[p].prepared \in Batches
      /\ leader[p].pc = "persist" /\ leader[p].next = NoBatch
      /\ leader[p].batches < BatchesPerTurn /\ Alright(leader[p], queue[p])
  BY OwnedFacts DEF PrepareNext, Leaders, CommitInv
<1>2. PICK k : k = Batchable(queue[p].merges)
  OBVIOUS
<1>3. k # 0
  BY <1>1, <1>2, BatchableFacts DEF PrepareNext
<1>4. PICK batch \in Line, rest \in Line :
        /\ batch = SubSeq(queue[p].merges, 1, k) /\ rest = From(queue[p].merges, k + 1)
        /\ batch # <<>> /\ Len(batch) =< MaxBatch /\ batch \o rest = queue[p].merges
  BY <1>1, <1>2, <1>3, TakenFacts
<1>5. Proposed(leader[p].prepared) \in Seq(Nums)
  <2>1. leader[p].prepared.base \in Seq(Nums) /\ leader[p].prepared.ready \in Line
    BY <1>1 DEF Batches
  <2>2. Ids(leader[p].prepared.ready) \in Seq(Nums)
    <3>1. /\ Len(leader[p].prepared.ready) \in Nat
          /\ DOMAIN leader[p].prepared.ready = 1 .. Len(leader[p].prepared.ready)
          /\ \A i \in DOMAIN leader[p].prepared.ready : leader[p].prepared.ready[i].id \in Nums
      BY <2>1, LineFacts DEF Merges, Nums
    <3> QED
      BY <3>1 DEF Ids
  <2> QED
    BY <2>1, <2>2 DEF Proposed
<1>6. PICK b \in PreparedOn(batch, Proposed(leader[p].prepared), TRUE) :
        leader' = [leader EXCEPT ![p].next = b]
  BY <1>2, <1>4 DEF PrepareNext
<1>7. b \in Batches /\ WellPrepared(b) /\ Unwound(b) = batch
  BY <1>4, <1>5, <1>6, PreparedFacts
<1> DEFINE l == [leader[p] EXCEPT !.next = b]
           q == [queue[p] EXCEPT !.merges = rest]
<1>8. /\ l \in Leaders /\ l.pc = "persist" /\ l.batch = leader[p].batch
      /\ l.batches = leader[p].batches /\ l.prepared = leader[p].prepared /\ l.next = b
  BY <1>1, <1>7 DEF Leaders, Pcs
<1>9. q \in Queues /\ q.open = queue[p].open /\ q.merges = rest
  BY <1>1 DEF Queues
<1>10. leader' = [leader EXCEPT ![p] = l] /\ queue' = [queue EXCEPT ![p] = q]
       /\ UNCHANGED <<main, clear, turn, reply>>
  BY <1>2, <1>4, <1>6 DEF PrepareNext
<1> HIDE DEF l, q
<1>11. Working(l)
  BY <1>1, <1>7, <1>8 DEF Working
<1>12. Unanswered(l, q) = Unanswered(leader[p], queue[p])
  <2>1. leader[p].prepared.ready \in Line
    BY <1>1 DEF Batches
  <2>2. Unanswered(l, q) = (leader[p].prepared.ready \o batch) \o rest
    BY <1>7, <1>8, <1>9, <1>11, Shape
  <2>3. Unanswered(leader[p], queue[p]) = (leader[p].prepared.ready \o <<>>) \o queue[p].merges
    BY <1>1, Shape, UnwoundFacts
  <2>4. leader[p].prepared.ready \o <<>> = leader[p].prepared.ready
    BY <2>1, LineConcat, LineEmpty
  <2>5. (leader[p].prepared.ready \o batch) \o rest = leader[p].prepared.ready \o (batch \o rest)
    BY <2>1, LineAssociates
  <2> QED
    BY <1>4, <2>2, <2>3, <2>4, <2>5
<1>13. Alright(l, q)
  BY <1>1, <1>8, <1>9, <1>11, <1>12 DEF Alright
<1>14. Handles(p, l, q, {}) /\ turn' \in Processes \cup {Nobody}
  BY <1>10, <1>12 DEF Handles, Owned, CommitInv, Types
<1> QED
  BY <1>8, <1>9, <1>10, <1>13, <1>14, MainKept

-----------------------------------------------------------------------------
(* Settling a prepared batch                                                *)

\* A line that loses some of its merges keeps its place between its neighbours.
LEMMA LineShrinks ==
  ASSUME NEW r \in Line, NEW s \in Line, NEW t \in Line, NEW w \in Line,
         Growing((r \o s) \o w), Growing(t), IdsOf(t) \subseteq IdsOf(s)
  PROVE  /\ Growing((r \o t) \o w)
         /\ IdsOf((r \o t) \o w) = IdsOf((r \o s) \o w) \ (IdsOf(s) \ IdsOf(t))
<1>1. /\ r \o s \in Line /\ r \o t \in Line
      /\ IdsOf(r \o s) = IdsOf(r) \cup IdsOf(s) /\ IdsOf(r \o t) = IdsOf(r) \cup IdsOf(t)
  BY LineConcat
<1>2. /\ IdsOf((r \o s) \o w) = IdsOf(r) \cup IdsOf(s) \cup IdsOf(w)
      /\ IdsOf((r \o t) \o w) = IdsOf(r) \cup IdsOf(t) \cup IdsOf(w)
  BY <1>1, LineConcat
<1>3. /\ Growing(r) /\ Growing(s) /\ Growing(w) /\ Before(IdsOf(r), IdsOf(s))
      /\ Before(IdsOf(r), IdsOf(w)) /\ Before(IdsOf(s), IdsOf(w))
  <2>1. Growing(r \o s) /\ Growing(w) /\ Before(IdsOf(r \o s), IdsOf(w))
    BY <1>1, LineConcat
  <2>2. Growing(r) /\ Growing(s) /\ Before(IdsOf(r), IdsOf(s))
    BY <2>1, LineConcat
  <2> QED
    BY <1>1, <2>1, <2>2 DEF Before
<1>4. Growing(r \o t)
  <2>1. Before(IdsOf(r), IdsOf(t))
    BY <1>3 DEF Before
  <2> QED
    BY <1>3, <2>1, LineConcat
<1>5. Growing((r \o t) \o w)
  <2>1. Before(IdsOf(r \o t), IdsOf(w))
    BY <1>1, <1>3 DEF Before
  <2> QED
    BY <1>1, <1>3, <1>4, <2>1, LineConcat
<1>6. IdsOf(s) \cap IdsOf(r) = {} /\ IdsOf(s) \cap IdsOf(w) = {}
  <2>1. \A a \in IdsOf(s) : a \in Nat
    BY LineFacts
  <2> QED
    BY <1>3, <2>1 DEF Before
<1> QED
  BY <1>2, <1>5, <1>6

\* A merge that is tried once more.
LEMMA TriedAgain ==
  ASSUME NEW x \in Entries, x.attempt < Attempts
  PROVE  [x EXCEPT !.attempt = @ + 1] \in Entries /\ [x EXCEPT !.attempt = @ + 1].id = x.id
<1>1. x.attempt \in 1 .. Attempts /\ Attempts \in Nat
  BY MergeCommitterAssumption DEF Entries
<1>2. x.attempt + 1 \in 1 .. Attempts
  BY <1>1
<1> QED
  BY <1>2 DEF Entries

\* What settle() puts back in front of the waiting merges.
LEMMA SettledFacts ==
  ASSUME NEW b \in Batches, WellPrepared(b), NEW committed, Growing(b.stopped)
  PROVE  \E t \in Line :
           /\ Settled(b, committed).back = t \o b.waiting /\ Growing(t)
           /\ Settled(b, committed).failed \subseteq IdsOf(b.stopped)
           /\ IdsOf(t) = IdsOf(b.stopped) \ Settled(b, committed).failed
<1>1. /\ b.stopped \in Line /\ b.speculative \in BOOLEAN
      /\ b.stop \in {"no", "first", "preflight"}
  BY DEF Batches, WellPrepared
<1>2. CASE b.stop = "no"
  <2>1. Settled(b, committed) = [back |-> <<>> \o b.waiting, failed |-> {}]
    BY <1>2 DEF Settled
  <2>2. b.stopped = <<>>
    BY <1>2 DEF WellPrepared
  <2>3. Settled(b, committed).back = <<>> \o b.waiting /\ Settled(b, committed).failed = {}
    BY <2>1
  <2> QED
    BY <2>2, <2>3, LineEmpty
<1>3. CASE b.stop # "no" /\ b.speculative
  <2>1. Settled(b, committed) = [back |-> b.stopped \o b.waiting, failed |-> {}]
    BY <1>3 DEF Settled
  <2>2. Settled(b, committed).back = b.stopped \o b.waiting /\ Settled(b, committed).failed = {}
    <3>1. PICK z : z = b.stopped \o b.waiting
      OBVIOUS
    <3>2. Settled(b, committed) = [back |-> z, failed |-> {}]
      BY <2>1, <3>1, Zenon
    <3>3. Settled(b, committed).back = z /\ Settled(b, committed).failed = {}
      BY <3>2
    <3> QED
      BY <3>1, <3>3, Zenon
  <2>3. b.stopped \in Line
    BY <1>1
  <2> WITNESS b.stopped \in Line
  <2> QED
    BY <2>2
<1>4. CASE b.stop # "no" /\ ~ b.speculative
  <2>1. b.stopped # <<>> /\ (b.stop = "first" => Len(b.stopped) = 1)
    BY <1>4 DEF WellPrepared
  <2>2. Len(b.stopped) \in Nat /\ Len(b.stopped) > 0 /\ DOMAIN b.stopped = 1 .. Len(b.stopped)
    BY <1>1, <2>1, LineFacts, LineEmpty
  <2>3. b.stopped[1] \in Entries
    BY <1>1, <2>2, LineFacts
  <2>4. CASE /\ Len(b.stopped) = 1
             /\ Settled(b, committed) = [back |-> <<>> \o b.waiting, failed |-> {b.stopped[1].id}]
    <3>1. IdsOf(b.stopped) = {b.stopped[1].id}
      BY <2>2, <2>4 DEF IdsOf
    <3>2. /\ Settled(b, committed).back = <<>> \o b.waiting
          /\ Settled(b, committed).failed = {b.stopped[1].id}
      BY <2>4
    <3> QED
      BY <3>1, <3>2, LineEmpty
  <2>5. CASE /\ Len(b.stopped) = 1 /\ b.stopped[1].attempt < Attempts
             /\ Settled(b, committed) =
                  [back |-> <<[b.stopped[1] EXCEPT !.attempt = @ + 1]>> \o b.waiting, failed |-> {}]
    <3>1. PICK e : e = [b.stopped[1] EXCEPT !.attempt = @ + 1]
      OBVIOUS
    <3>2. e \in Entries /\ e.id = b.stopped[1].id
      BY <2>3, <2>5, <3>1, TriedAgain
    <3>3. <<e>> \in Line /\ Growing(<<e>>) /\ IdsOf(<<e>>) = {b.stopped[1].id}
      BY <3>2, LineOfOne
    <3>4. IdsOf(b.stopped) = {b.stopped[1].id}
      BY <2>2, <2>5 DEF IdsOf
    <3>5. Settled(b, committed).back = <<e>> \o b.waiting /\ Settled(b, committed).failed = {}
      BY <2>5, <3>1
    <3> QED
      BY <3>3, <3>4, <3>5
  <2>6. CASE Settled(b, committed) =
               [back |-> [i \in DOMAIN b.stopped |-> [b.stopped[i] EXCEPT !.alone = TRUE]]
                           \o b.waiting, failed |-> {}]
    <3>1. PICK t : t = [i \in DOMAIN b.stopped |-> [b.stopped[i] EXCEPT !.alone = TRUE]]
      OBVIOUS
    <3>2. ASSUME NEW i \in DOMAIN b.stopped PROVE t[i] \in Entries /\ t[i].id = b.stopped[i].id
      <4>1. b.stopped[i] \in Entries
        BY <1>1, LineFacts
      <4>2. t[i] = [b.stopped[i] EXCEPT !.alone = TRUE]
        BY <3>1
      <4> QED
        BY <4>1, <4>2 DEF Entries
    <3>3. t \in Line /\ Len(t) = Len(b.stopped)
      <4>1. t \in [1 .. Len(b.stopped) -> Entries]
        BY <2>2, <3>1, <3>2
      <4> QED
        BY <2>2, <4>1 DEF Line
    <3>4. IdsOf(t) = IdsOf(b.stopped) /\ Growing(t)
      BY <1>1, <2>2, <3>2, <3>3, LineMarked
    <3>5. Settled(b, committed).back = t \o b.waiting /\ Settled(b, committed).failed = {}
      BY <2>6, <3>1
    <3> QED
      BY <3>3, <3>4, <3>5
  <2>7. CASE b.stop = "first"
    <3>1. Settled(b, committed) =
            IF RetriesFirst(b, committed)
            THEN [back |-> <<[b.stopped[1] EXCEPT !.attempt = @ + 1]>> \o b.waiting, failed |-> {}]
            ELSE [back |-> <<>> \o b.waiting, failed |-> {b.stopped[1].id}]
      BY <1>4, <2>7 DEF Settled
    <3>2. RetriesFirst(b, committed) => b.stopped[1].attempt < Attempts
      BY DEF RetriesFirst
    <3> QED
      BY <2>1, <2>4, <2>5, <2>7, <3>1, <3>2
  <2>8. CASE b.stop = "preflight"
    <3>1. Settled(b, committed) =
            IF Len(b.stopped) = 1
            THEN [back |-> <<>> \o b.waiting, failed |-> {b.stopped[1].id}]
            ELSE [back |-> [i \in DOMAIN b.stopped |-> [b.stopped[i] EXCEPT !.alone = TRUE]]
                             \o b.waiting, failed |-> {}]
      BY <1>4, <2>8 DEF Settled
    <3> QED
      BY <2>4, <2>6, <3>1
  <2> QED
    BY <1>1, <1>4, <2>7, <2>8
<1> QED
  BY <1>1, <1>2, <1>3, <1>4

LEMMA SettleInv ==
  ASSUME CommitInv, NEW p \in Processes, Settle(p)
  PROVE  CommitInv'
<1>1. /\ leader[p] \in Leaders /\ queue[p] \in Queues /\ Working(leader[p])
      /\ queue[p].merges \in Line /\ leader[p].prepared \in Batches
      /\ leader[p].pc = "settle" /\ Alright(leader[p], queue[p]) /\ Owned(p) \subseteq Merges
      /\ Growing(Unanswered(leader[p], queue[p])) /\ leader[p].batches \in Nat
  BY OwnedFacts DEF Settle, Leaders, CommitInv
<1>2. PICK b \in Batches, m \in Line : b = leader[p].prepared /\ m = queue[p].merges
  BY <1>1
<1>3. b.ready \in Line /\ b.stopped \in Line /\ b.waiting \in Line /\ WellPrepared(b)
  BY <1>1, <1>2 DEF Batches, Working
<1>4. Unanswered(leader[p], queue[p]) = ((b.ready \o b.stopped) \o b.waiting) \o m
  BY <1>1, <1>2, Shape DEF Unwound
<1>5. /\ b.ready \o b.stopped \in Line /\ (b.ready \o b.stopped) \o b.waiting \in Line
      /\ b.waiting \o m \in Line
  BY <1>2, <1>3, LineConcat
<1>6. Unanswered(leader[p], queue[p]) = (b.ready \o b.stopped) \o (b.waiting \o m)
  <2>1. PICK u \in Line, w \in Line : u = b.ready \o b.stopped /\ w = b.waiting
    BY <1>3, <1>5
  <2>2. (u \o w) \o m = u \o (w \o m)
    BY LineAssociates
  <2> QED
    BY <1>4, <2>1, <2>2
<1>7. Growing(b.stopped)
  <2>1. Growing(b.ready \o b.stopped)
    BY <1>1, <1>5, <1>6, LineConcat
  <2> QED
    BY <1>3, <2>1, LineConcat
<1>8. PICK s : s = Settled(b, leader[p].committed)
  OBVIOUS
<1>9. PICK t \in Line : /\ s.back = t \o b.waiting /\ Growing(t)
                       /\ s.failed \subseteq IdsOf(b.stopped) /\ IdsOf(t) = IdsOf(b.stopped) \ s.failed
  BY <1>3, <1>7, <1>8, SettledFacts
<1>10. /\ Growing((b.ready \o t) \o (b.waiting \o m))
       /\ IdsOf((b.ready \o t) \o (b.waiting \o m)) = Owned(p) \ s.failed
  <2>1. PICK r \in Line, x \in Line, w \in Line : r = b.ready /\ x = b.stopped /\ w = b.waiting \o m
    BY <1>3, <1>5
  <2>2. Growing((r \o x) \o w)
    BY <1>1, <1>6, <2>1
  <2>3. Growing((r \o t) \o w) /\ IdsOf((r \o t) \o w) = IdsOf((r \o x) \o w) \ s.failed
    <3>1. IdsOf(t) \subseteq IdsOf(x) /\ s.failed = IdsOf(x) \ IdsOf(t)
      BY <1>9, <2>1
    <3>2. /\ Growing((r \o t) \o w)
          /\ IdsOf((r \o t) \o w) = IdsOf((r \o x) \o w) \ (IdsOf(x) \ IdsOf(t))
      BY <1>9, <2>2, <3>1, LineShrinks
    <3> QED
      BY <3>1, <3>2
  <2>4. Owned(p) = IdsOf((r \o x) \o w)
    BY <1>6, <2>1 DEF Owned
  <2> QED
    BY <2>1, <2>3, <2>4
<1>11. PICK merges \in Line : merges = t \o (b.waiting \o m)
  BY <1>5, LineConcat
<1>12. (b.ready \o t) \o (b.waiting \o m) = b.ready \o merges
  <2>1. PICK r \in Line, w \in Line : r = b.ready /\ w = b.waiting \o m
    BY <1>3, <1>5
  <2>2. (r \o t) \o w = r \o (t \o w)
    BY LineAssociates
  <2> QED
    BY <1>11, <2>1, <2>2
<1>13. Requeue(s.back, m) = merges
  <2>1. PICK w \in Line : w = b.waiting
    BY <1>3
  <2>2. (t \o w) \o m = t \o (w \o m)
    BY LineAssociates
  <2> QED
    BY <1>9, <1>11, <2>1, <2>2 DEF Requeue
<1>14. s.failed \subseteq Owned(p)
  <2>1. Owned(p) = IdsOf(b.ready \o b.stopped) \cup IdsOf(b.waiting \o m)
    BY <1>5, <1>6, LineConcat DEF Owned
  <2>2. IdsOf(b.ready \o b.stopped) = IdsOf(b.ready) \cup IdsOf(b.stopped)
    BY <1>3, LineConcat
  <2> QED
    BY <1>9, <2>1, <2>2
<1>15. reply' = Answer(s.failed, "error") /\ UNCHANGED <<main, clear>>
  BY <1>2, <1>8 DEF Settle
<1>16. Answers(p, s.failed)
  BY <1>1, <1>14, <1>15, AnswerFacts DEF Answers
<1>17. CASE b.ready = <<>>
  <2>1. EndTurn(p, <<>>, merges)
    BY <1>2, <1>8, <1>13, <1>17 DEF Settle
  <2>2. b.ready \o merges = <<>> \o merges
    BY <1>17
  <2> QED
    BY <1>1, <1>10, <1>12, <1>15, <1>16, <2>1, <2>2, LineEmpty, TurnEnds
<1>18. CASE b.ready # <<>>
  <2> DEFINE c == [NoBatch EXCEPT !.ready = b.ready, !.base = b.base, !.stop = "no"]
             l == [leader[p] EXCEPT !.pc = "persist", !.batches = @ + 1, !.prepared = c]
             q == [queue[p] EXCEPT !.merges = merges]
  <2>1. c \in Batches /\ c.ready = b.ready /\ c.stopped = <<>> /\ c.waiting = <<>>
    <3>1. NoBatch \in Batches /\ NoBatch.stopped = <<>> /\ NoBatch.waiting = <<>>
      BY UnwoundFacts DEF NoBatch
    <3> QED
      BY <1>3, <3>1 DEF Batches
  <2>2. leader[p].batches < BatchesPerTurn /\ leader[p].batch = <<>> /\ leader[p].next = NoBatch
    BY <1>1 DEF Working
  <2>3. leader[p].batches + 1 \in 0 .. BatchesPerTurn
    BY <1>1, <2>2, MergeCommitterAssumption
  <2>4. /\ leader' = [leader EXCEPT ![p] = l] /\ queue' = [queue EXCEPT ![p] = q]
        /\ turn' = turn
    BY <1>2, <1>8, <1>13, <1>18 DEF Settle
  <2> HIDE DEF c
  <2>5. /\ l \in Leaders /\ l.pc = "persist" /\ l.batch = <<>> /\ l.prepared = c
        /\ l.next = NoBatch
    BY <1>1, <2>1, <2>2, <2>3 DEF Leaders, Pcs
  <2>6. q \in Queues /\ q.open = queue[p].open /\ q.merges = merges
    BY <1>1 DEF Queues
  <2> HIDE DEF l, q
  <2>7. Working(l)
    BY <1>3, <1>18, <2>1, <2>5 DEF Working, WellPrepared
  <2>8. Unanswered(l, q) = b.ready \o merges
    <3>1. Unanswered(l, q) = (b.ready \o <<>>) \o merges
      BY <2>1, <2>5, <2>6, <2>7, Shape, UnwoundFacts
    <3>2. b.ready \o <<>> = b.ready
      BY <1>3, LineConcat, LineEmpty
    <3> QED
      BY <3>1, <3>2
  <2>9. Alright(l, q)
    BY <1>1, <1>10, <1>12, <2>5, <2>6, <2>7, <2>8 DEF Alright
  <2>10. Handles(p, l, q, s.failed)
    BY <1>10, <1>12, <1>16, <2>4, <2>8 DEF Handles, Answers
  <2>11. turn' \in Processes \cup {Nobody}
    BY <2>4 DEF CommitInv, Types
  <2>12. \A n \in s.failed : reply'[n] = "ok" => n \in Range1(main)
    BY <1>16 DEF Answers
  <2> QED
    BY <1>15, <2>5, <2>6, <2>9, <2>10, <2>11, <2>12, MainKept
<1> QED
  BY <1>17, <1>18

-----------------------------------------------------------------------------
(* The transaction                                                          *)

LEMMA IdsLine ==
  ASSUME NEW s \in Line
  PROVE  /\ Ids(s) \in Seq(Nums) /\ Len(Ids(s)) = Len(s)
         /\ \A i \in 1 .. Len(s) : Ids(s)[i] = s[i].id
<1>1. /\ Len(s) \in Nat /\ DOMAIN s = 1 .. Len(s)
      /\ \A i \in DOMAIN s : s[i].id \in Nums
  BY LineFacts DEF Merges, Nums
<1>2. Ids(s) \in [1 .. Len(s) -> Nums]
  BY <1>1 DEF Ids
<1> QED
  BY <1>1, <1>2 DEF Ids

\* The numbers of the first merges of a line.
LEMMA IdsCut ==
  ASSUME NEW s \in Line, NEW k \in Nat, k =< Len(s)
  PROVE  /\ SubSeq(Ids(s), 1, k) \in Seq(Nums) /\ Len(SubSeq(Ids(s), 1, k)) = k
         /\ \A i \in 1 .. k : SubSeq(Ids(s), 1, k)[i] = s[i].id
<1>1. /\ Ids(s) \in Seq(Nums) /\ Len(Ids(s)) = Len(s) /\ Len(s) \in Nat
      /\ \A i \in 1 .. Len(s) : Ids(s)[i] = s[i].id
  BY IdsLine, LineFacts
<1>2. /\ SubSeq(Ids(s), 1, k) \in Seq(Nums) /\ Len(SubSeq(Ids(s), 1, k)) = k
      /\ \A i \in 1 .. k : SubSeq(Ids(s), 1, k)[i] = Ids(s)[i]
  BY <1>1
<1> QED
  BY <1>1, <1>2

\* The first k merges of a batch land behind everything that is in main.
LEMMA LandsFacts ==
  ASSUME CommitInv, NEW s \in Line, Growing(s), NEW k \in Nat, k =< Len(s),
         \A i \in 1 .. k : s[i].id \notin Range1(main),
         main' = IF k = 0 THEN main ELSE main \o SubSeq(Ids(s), 1, k), reply' = reply
  PROVE  /\ main' \in Seq(Nums) /\ Range1(main) \subseteq Range1(main)' /\ MergesLandOnce'
         /\ \A i \in 1 .. k : s[i].id \in Range1(main)'
<1>1. main \in Seq(Nums) /\ MergesLandOnce /\ Len(main) \in Nat /\ DOMAIN main = 1 .. Len(main)
  BY DEF CommitInv, Types
<1>2. PICK new \in Seq(Nums) :
        new = SubSeq(Ids(s), 1, k) /\ Len(new) = k /\ \A i \in 1 .. k : new[i] = s[i].id
  BY IdsCut
<1>3. CASE k = 0
  BY <1>1, <1>3 DEF MergesLandOnce
<1>4. CASE k # 0
  <2>1. PICK n \in Nat : n = Len(main)
    BY <1>1
  <2>2. main' = main \o new
    BY <1>2, <1>4
  <2>3. /\ main' \in Seq(Nums) /\ Len(main') = n + k /\ DOMAIN main' = 1 .. n + k
        /\ \A i \in 1 .. n : main'[i] = main[i]
        /\ \A i \in 1 .. n + k : i > n => i - n \in 1 .. k /\ main'[i] = new[i - n]
        /\ \A i \in 1 .. k : main'[n + i] = new[i]
    BY <1>1, <1>2, <2>1, <2>2
  <2>4. Range1(main) \subseteq Range1(main)'
    <3>1. \A i \in 1 .. n : i \in 1 .. n + k
      OBVIOUS
    <3> QED
      BY <1>1, <2>1, <2>3, <3>1 DEF Range1
  <2>5. ASSUME NEW i \in 1 .. k PROVE s[i].id \in Range1(main)'
    <3>1. n + i \in DOMAIN main'
      BY <2>3
    <3>2. main'[n + i] = s[i].id
      BY <1>2, <2>3
    <3> QED
      BY <3>1, <3>2 DEF Range1
  <2>6. ASSUME NEW i \in DOMAIN main', NEW j \in DOMAIN main', main'[i] # 0, main'[i] = main'[j], i < j
        PROVE  FALSE
    <3>1. i \in 1 .. n + k /\ j \in 1 .. n + k
      BY <2>3, <2>6
    <3>2. CASE j =< n
      <4>1. i \in 1 .. n /\ j \in 1 .. n
        BY <2>6, <3>1, <3>2
      <4>2. main[i] # 0 /\ main[i] = main[j] /\ i \in DOMAIN main /\ j \in DOMAIN main
        BY <1>1, <2>1, <2>3, <2>6, <4>1
      <4>3. i = j
        BY <1>1, <4>2 DEF MergesLandOnce
      <4> QED
        BY <2>6, <4>1, <4>3
    <3>3. CASE i =< n /\ j > n
      <4>1. j - n \in 1 .. k /\ main'[j] = s[j - n].id
        BY <1>2, <2>3, <3>1, <3>3
      <4>2. i \in DOMAIN main /\ main'[i] = main[i]
        BY <1>1, <2>1, <2>3, <3>1, <3>3
      <4> QED
        BY <2>6, <4>1, <4>2 DEF Range1
    <3>4. CASE i > n
      <4>1. i - n \in 1 .. k /\ j - n \in 1 .. k /\ i - n < j - n /\ j > n
        BY <2>6, <3>1, <3>4
      <4>2. main'[i] = s[i - n].id /\ main'[j] = s[j - n].id
        BY <1>2, <2>3, <3>1, <3>4, <4>1
      <4>3. i - n \in DOMAIN s /\ j - n \in DOMAIN s
        BY <4>1, LineFacts
      <4>4. s[i - n].id < s[j - n].id /\ s[i - n].id \in Nat
        BY <4>1, <4>3, LineFacts DEF Growing
      <4>5. s[i - n].id = s[j - n].id
        BY <2>6, <4>2
      <4> QED
        BY <4>4, <4>5
    <3> QED
      BY <3>1, <3>2, <3>3, <3>4
  <2>7. ASSUME NEW i \in DOMAIN main', NEW j \in DOMAIN main', main'[i] # 0, main'[i] = main'[j]
        PROVE  i = j
    <3>1. i \in Nat /\ j \in Nat
      BY <2>3
    <3>2. ~ (i < j)
      BY <2>6, <2>7
    <3>3. ~ (j < i)
      BY <2>6, <2>7
    <3> QED
      BY <3>1, <3>2, <3>3
  <2>8. \A m \in Merges : reply'[m] = "ok" => m \in Range1(main)'
    BY <1>1, <2>4 DEF MergesLandOnce
  <2>9. MergesLandOnce'
    BY <2>7, <2>8 DEF MergesLandOnce
  <2> QED
    BY <2>3, <2>4, <2>5, <2>9
<1> QED
  BY <1>3, <1>4

\* A transaction that lands k merges and is taken to have landed n of them.
LEMMA TransactionInv ==
  ASSUME CommitInv, NEW p \in Processes, leader[p].pc = "persist",
         NEW k \in Nat, k =< Len(leader[p].prepared.ready), NEW n \in {0, k},
         NEW why \in {"no", "conflict", "moved"},
         Lands(leader[p].prepared, k),
         main' = IF k = 0 THEN main
                 ELSE leader[p].prepared.base \o SubSeq(Ids(leader[p].prepared.ready), 1, k),
         leader' = [leader EXCEPT ![p] = [leader[p] EXCEPT !.pc = "persisted", !.landed = n,
                                                           !.rejected = why]],
         UNCHANGED <<clear, queue, turn, reply>>
  PROVE  CommitInv'
<1>1. /\ leader[p] \in Leaders /\ queue[p] \in Queues /\ Working(leader[p])
      /\ leader[p].prepared \in Batches /\ Alright(leader[p], queue[p])
      /\ Growing(Unanswered(leader[p], queue[p])) /\ leader \in [Processes -> Leaders]
  BY OwnedFacts DEF Leaders, CommitInv, Types
<1>2. PICK s \in Line : s = leader[p].prepared.ready
  BY <1>1 DEF Batches
<1>3. Growing(s)
  <2>1. Unwound(leader[p].next) \in Line /\ queue[p].merges \in Line
    BY <1>1, UnwoundFacts DEF Leaders, Queues
  <2>2. s \o Unwound(leader[p].next) \in Line
    BY <2>1, LineConcat
  <2>3. Unanswered(leader[p], queue[p]) = (s \o Unwound(leader[p].next)) \o queue[p].merges
    BY <1>1, <1>2, Shape
  <2>4. Growing(s \o Unwound(leader[p].next))
    BY <1>1, <2>1, <2>2, <2>3, LineConcat
  <2> QED
    BY <2>1, <2>4, LineConcat
<1>4. /\ \A i \in 1 .. k : s[i].id \notin Range1(main)
      /\ main' = IF k = 0 THEN main ELSE main \o SubSeq(Ids(s), 1, k)
  BY <1>2 DEF Lands
<1>5. /\ main' \in Seq(Nums) /\ Range1(main) \subseteq Range1(main)' /\ MergesLandOnce'
      /\ \A i \in 1 .. k : s[i].id \in Range1(main)'
  BY <1>2, <1>3, <1>4, LandsFacts
<1> DEFINE l == [leader[p] EXCEPT !.pc = "persisted", !.landed = n, !.rejected = why]
<1>6. /\ l \in Leaders /\ l.pc = "persisted" /\ l.landed = n /\ l.batch = leader[p].batch
      /\ l.prepared = leader[p].prepared /\ l.next = leader[p].next /\ l.batches = leader[p].batches
  <2>1. n \in Nat /\ "persisted" \in Pcs
    BY DEF Pcs
  <2> QED
    BY <1>1, <2>1 DEF Leaders
<1>7. leader' = [leader EXCEPT ![p] = l]
  OBVIOUS
<1> HIDE DEF l
<1>8. Working(l)
  BY <1>1, <1>6 DEF Working
<1>9. Unanswered(l, queue[p]) = Unanswered(leader[p], queue[p])
  BY <1>6 DEF Unanswered, InHand
<1>10. Alright(l, queue[p])
  BY <1>1, <1>6, <1>8, <1>9 DEF Alright
<1>11. Handles(p, l, queue[p], {})
  BY <1>7, <1>9 DEF Handles, Owned, CommitInv, Types
<1>12. /\ leader' \in [Processes -> Leaders] /\ queue' \in [Processes -> Queues]
       /\ \A r \in Processes : Alright(leader'[r], queue'[r])
       /\ Shared' /\ Submitted'
  BY <1>1, <1>6, <1>10, <1>11, HandlesShared
<1>13. ASSUME NEW r \in Processes PROVE Landed(leader[r])'
  <2>1. Landed(leader[r])
    BY DEF CommitInv
  <2>2. leader'[r] = IF r = p THEN l ELSE leader[r]
    BY <1>1, <1>7
  <2>3. CASE r = p
    <3>1. \A i \in 1 .. l.landed : l.prepared.ready[i].id \in Range1(main)'
      BY <1>2, <1>5, <1>6
    <3> QED
      BY <2>2, <2>3, <3>1 DEF Landed
  <2>4. CASE r # p
    BY <1>5, <2>1, <2>2, <2>4 DEF Landed
  <2> QED
    BY <2>3, <2>4
<1>14. \A r \in Processes : Alright(leader[r], queue[r])'
  BY <1>12
<1>15. Types'
  BY <1>5, <1>12 DEF CommitInv, Types
<1> QED
  BY <1>5, <1>12, <1>13, <1>14, <1>15 DEF CommitInv

LEMMA PersistTxInv ==
  ASSUME CommitInv, NEW p \in Processes, NEW k \in 0 .. MaxBatch, PersistTx(p, k)
  PROVE  CommitInv'
<1>1. /\ leader[p].pc = "persist" /\ k =< Len(leader[p].prepared.ready)
      /\ Lands(leader[p].prepared, k)
      /\ main' = IF k = 0 THEN main
                 ELSE leader[p].prepared.base \o SubSeq(Ids(leader[p].prepared.ready), 1, k)
      /\ UNCHANGED <<clear, queue, turn, reply>>
  BY DEF PersistTx
<1>2. PICK why \in {"no", "conflict", "moved"} :
        leader' = [leader EXCEPT ![p].pc = "persisted", ![p].landed = k, ![p].rejected = why]
  BY DEF PersistTx
<1>3. leader' = [leader EXCEPT ![p] = [leader[p] EXCEPT !.pc = "persisted", !.landed = k,
                                                        !.rejected = why]]
  BY <1>2
<1>4. k \in Nat /\ k \in {0, k}
  BY MergeCommitterAssumption
<1> QED
  BY <1>1, <1>3, <1>4, TransactionInv

LEMMA PersistFailsInv ==
  ASSUME CommitInv, NEW p \in Processes, NEW k \in 0 .. MaxBatch, PersistFails(p, k)
  PROVE  CommitInv'
<1>1. PICK s \in Line : s = leader[p].prepared.ready
  <2>1. leader[p].prepared \in Batches
    BY OwnedFacts DEF Leaders
  <2> QED
    BY <2>1 DEF Batches
<1>2. Len(s) \in Nat /\ SubSeq(Ids(s), 1, Len(s)) = Ids(s)
  <2>1. Ids(s) \in Seq(Nums) /\ Len(Ids(s)) = Len(s) /\ Len(s) \in Nat
    BY IdsLine, LineFacts
  <2> QED
    BY <2>1, SubSeqFull
<1>3. /\ leader[p].pc = "persist" /\ k \in {0, Len(s)} /\ Lands(leader[p].prepared, k)
      /\ main' = IF k = 0 THEN main ELSE leader[p].prepared.base \o Ids(s)
      /\ UNCHANGED <<clear, queue, turn, reply>>
  BY <1>1 DEF PersistFails
<1>4. leader' = [leader EXCEPT ![p].pc = "persisted", ![p].landed = 0, ![p].rejected = "conflict"]
  BY DEF PersistFails
<1>5. leader' = [leader EXCEPT ![p] = [leader[p] EXCEPT !.pc = "persisted", !.landed = 0,
                                                        !.rejected = "conflict"]]
  BY <1>4
<1>6. /\ k \in Nat /\ k =< Len(s) /\ 0 \in {0, k}
      /\ main' = IF k = 0 THEN main ELSE leader[p].prepared.base \o SubSeq(Ids(s), 1, k)
  <2>1. CASE k = 0
    BY <1>2, <1>3, <2>1
  <2>2. CASE k = Len(s) /\ k # 0
    <3>1. SubSeq(Ids(s), 1, k) = Ids(s)
      BY <1>2, <2>2
    <3>2. main' = leader[p].prepared.base \o Ids(s)
      BY <1>3, <2>2
    <3>3. main' = leader[p].prepared.base \o SubSeq(Ids(s), 1, k)
      BY <3>1, <3>2, Zenon
    <3>4. k \in Nat /\ k =< Len(s) /\ 0 \in {0, k}
      BY <1>2, <2>2
    <3> QED
      BY <2>2, <3>3, <3>4, Zenon
  <2> QED
    BY <1>3, <2>1, <2>2
<1> QED
  BY <1>1, <1>3, <1>5, <1>6, TransactionInv

-----------------------------------------------------------------------------
(* After the transaction                                                    *)

\* The merges persist_batch() answers.
Done(l) ==
  IdsOf(SubSeq(l.prepared.ready, 1, l.landed))
    \cup {m \in Merges : /\ l.landed < Len(l.prepared.ready) /\ ~ RetriesRejected(l)
                         /\ m = l.prepared.ready[l.landed + 1].id}

LEMMA DoneFacts ==
  ASSUME NEW l \in Leaders, l.landed =< Len(l.prepared.ready), Growing(l.prepared.ready)
  PROVE  /\ Done(l) \subseteq IdsOf(l.prepared.ready)
         /\ l.landed = Len(l.prepared.ready) => Done(l) = IdsOf(l.prepared.ready)
         /\ l.landed < Len(l.prepared.ready) =>
              /\ Retry(l) \in Line /\ Growing(Retry(l))
              /\ IdsOf(Retry(l)) \subseteq IdsOf(l.prepared.ready)
              /\ Done(l) = IdsOf(l.prepared.ready) \ IdsOf(Retry(l))
<1>1. l.prepared.ready \in Line /\ l.landed \in Nat
  BY DEF Leaders, Batches
<1>2. PICK s \in Line, n \in Nat : s = l.prepared.ready /\ n = l.landed /\ n =< Len(s)
  BY <1>1
<1>3. Len(s) \in Nat /\ DOMAIN s = 1 .. Len(s)
  BY LineFacts
<1>4. PICK a \in Line, c \in Line :
        a = SubSeq(s, 1, n) /\ c = From(s, n + 1) /\ s = a \o c /\ Len(a) = n
  BY <1>2, LineCut
<1>5. IdsOf(s) = IdsOf(a) \cup IdsOf(c) /\ Growing(a) /\ Growing(c) /\ Before(IdsOf(a), IdsOf(c))
  <2>1. Growing(s) /\ s = a \o c
    BY <1>2, <1>4
  <2>2. Growing(a \o c)
    BY <2>1, Zenon
  <2>3. /\ IdsOf(a \o c) = IdsOf(a) \cup IdsOf(c)
        /\ Growing(a) /\ Growing(c) /\ Before(IdsOf(a), IdsOf(c))
    BY <2>2, LineConcat
  <2> QED
    BY <2>1, <2>3, Zenon
<1>6. CASE n = Len(s)
  <2>1. a = s
    BY <1>4, <1>6, SubSeqFull DEF Line
  <2>2. ~ (l.landed < Len(l.prepared.ready))
    BY <1>2, <1>3, <1>6
  <2>3. Done(l) = IdsOf(a)
    BY <1>2, <1>4, <2>2 DEF Done
  <2> QED
    BY <1>2, <2>1, <2>2, <2>3
<1>7. CASE n < Len(s)
  <2>1. n + 1 \in 1 .. Len(s) /\ Len(s) \in n + 1 .. Len(s)
    BY <1>2, <1>3, <1>7
  <2>2. PICK x \in Entries : x = s[n + 1]
    BY <1>3, <2>1, LineFacts
  <2>3. PICK r \in Line : r = From(s, n + 2)
    <3>1. n + 1 \in Nat /\ n + 1 =< Len(s) /\ n + 1 + 1 = n + 2
      BY <1>3, <2>1
    <3>2. From(s, n + 1 + 1) \in Line
      BY <3>1, LineCut
    <3> QED
      BY <3>1, <3>2
  <2>4. c = <<x>> \o r
    <3>1. SubSeq(s, n + 1, Len(s)) = <<s[n + 1]>> \o SubSeq(s, n + 1 + 1, Len(s))
      BY <2>1, SubSeqRecursiveFirst DEF Line
    <3>2. n + 1 + 1 = n + 2
      OBVIOUS
    <3> QED
      BY <1>4, <2>2, <2>3, <3>1, <3>2 DEF From
  <2>5. <<x>> \in Line /\ IdsOf(<<x>>) = {x.id}
    BY <2>2, LineOfOne
  <2>6. /\ IdsOf(c) = {x.id} \cup IdsOf(r) /\ Growing(r) /\ \A m \in IdsOf(r) : x.id < m
    <3>1. /\ IdsOf(c) = IdsOf(<<x>>) \cup IdsOf(r)
          /\ Growing(c) <=> Growing(<<x>>) /\ Growing(r) /\ Before(IdsOf(<<x>>), IdsOf(r))
      BY <2>4, <2>5, LineConcat
    <3>2. Growing(r) /\ Before({x.id}, IdsOf(r))
      BY <1>5, <2>5, <3>1, Zenon
    <3> QED
      BY <2>5, <3>1, <3>2, Zenon DEF Before
  <2>7. x.id \in Merges /\ Merges \subseteq Nat /\ IdsOf(a) \subseteq Nat /\ IdsOf(r) \subseteq Nat
    BY LineFacts DEF Entries
  <2>8. CASE RetriesRejected(l)
    <3>1. x.attempt < Attempts
      BY <1>2, <2>2, <2>8 DEF RetriesRejected
    <3>2. PICK e \in Entries : e = [x EXCEPT !.attempt = @ + 1] /\ e.id = x.id
      BY <3>1, TriedAgain
    <3>3. Retry(l) = <<e>> \o r
      BY <1>2, <2>2, <2>3, <2>8, <3>2 DEF Retry
    <3>4. <<e>> \in Line /\ IdsOf(<<e>>) = {x.id} /\ Growing(<<e>>)
      BY <3>2, LineOfOne
    <3>5. Before(IdsOf(<<e>>), IdsOf(r))
      BY <2>6, <3>4 DEF Before
    <3>6. Retry(l) \in Line /\ Growing(Retry(l)) /\ IdsOf(Retry(l)) = {x.id} \cup IdsOf(r)
      BY <2>6, <3>3, <3>4, <3>5, LineConcat
    <3>7. Done(l) = IdsOf(a)
      BY <1>2, <1>4, <2>8 DEF Done
    <3>8. IdsOf(a) = IdsOf(s) \ IdsOf(Retry(l))
      BY <1>5, <2>6, <2>7, <3>6 DEF Before
    <3> QED
      BY <1>2, <1>5, <1>7, <2>6, <3>6, <3>7, <3>8
  <2>9. CASE ~ RetriesRejected(l)
    <3>1. Retry(l) = r
      BY <1>2, <2>3, <2>9 DEF Retry
    <3>2. Done(l) = IdsOf(a) \cup {x.id}
      BY <1>2, <1>4, <1>7, <2>2, <2>7, <2>9 DEF Done
    <3>3. IdsOf(a) \cup {x.id} = IdsOf(s) \ IdsOf(r)
      BY <1>5, <2>6, <2>7 DEF Before
    <3> QED
      BY <1>2, <1>5, <1>7, <2>6, <3>1, <3>2, <3>3
  <2> QED
    BY <2>8, <2>9
<1> QED
  BY <1>2, <1>3, <1>6, <1>7

LEMMA RepliesFacts ==
  ASSUME CommitInv, NEW p \in Processes, leader[p].pc = "persisted",
         reply' = Replies(leader[p]), Done(leader[p]) \subseteq Owned(p)
  PROVE  Answers(p, Done(leader[p]))
<1>1. PICK l \in Leaders : l = leader[p] /\ Working(l) /\ Landed(l) /\ l.pc = "persisted"
  BY OwnedFacts DEF CommitInv
<1>2. PICK s \in Line, n \in Nat : s = l.prepared.ready /\ n = l.landed /\ n =< Len(s)
  BY <1>1 DEF Leaders, Batches, Working
<1>3. /\ Len(s) \in Nat /\ DOMAIN s = 1 .. Len(s) /\ Len(Ids(s)) = Len(s)
      /\ \A i \in 1 .. Len(s) : Ids(s)[i] = s[i].id
  BY LineFacts, IdsLine
<1>4. /\ SubSeq(s, 1, n) \in Line /\ Len(SubSeq(s, 1, n)) = n
      /\ \A i \in 1 .. n : SubSeq(s, 1, n)[i] = s[i]
  BY <1>2, LineCut
<1>5. /\ SubSeq(Ids(s), 1, n) \in Seq(Nums) /\ Len(SubSeq(Ids(s), 1, n)) = n
      /\ \A i \in 1 .. n : SubSeq(Ids(s), 1, n)[i] = s[i].id
  BY <1>2, IdsCut
<1>6. DOMAIN SubSeq(s, 1, n) = 1 .. n /\ DOMAIN SubSeq(Ids(s), 1, n) = 1 .. n
  <2>1. PICK x \in Line, y \in Seq(Nums) : x = SubSeq(s, 1, n) /\ y = SubSeq(Ids(s), 1, n)
    BY <1>4, <1>5
  <2>2. DOMAIN x = 1 .. Len(x) /\ DOMAIN y = 1 .. Len(y)
    BY LenProperties DEF Line
  <2> QED
    BY <1>4, <1>5, <2>1, <2>2
<1>7. Range1(SubSeq(Ids(s), 1, n)) = IdsOf(SubSeq(s, 1, n))
  BY <1>4, <1>5, <1>6 DEF Range1, IdsOf
<1>8. IdsOf(SubSeq(s, 1, n)) = {s[i].id : i \in 1 .. n}
  BY <1>4, <1>6 DEF IdsOf
<1>9. PICK R : R = {m \in Merges : n < Len(s) /\ m = Ids(s)[n + 1] /\ ~ RetriesRejected(l)}
  OBVIOUS
<1>10. \A m \in Merges : reply'[m] = IF m \in IdsOf(SubSeq(s, 1, n)) THEN "ok"
                                     ELSE IF m \in R THEN "error" ELSE reply[m]
  BY <1>1, <1>2, <1>3, <1>7, <1>9 DEF Replies
<1>11. Done(l) = IdsOf(SubSeq(s, 1, n)) \cup R
  <2>1. n < Len(s) => Ids(s)[n + 1] = s[n + 1].id
    BY <1>2, <1>3
  <2> QED
    BY <1>2, <1>9, <2>1 DEF Done
<1>12. \A m \in IdsOf(SubSeq(s, 1, n)) : m \in Range1(main)
  BY <1>1, <1>2, <1>8 DEF Landed
<1>13. reply \in [Merges -> {"none", "waiting", "ok", "error"}] /\ Owned(p) \subseteq Merges
       /\ \A m \in Owned(p) : reply[m] = "waiting"
  BY OwnedFacts DEF CommitInv, Types
<1>14. Done(l) \subseteq Owned(p) /\ Done(l) \subseteq Merges
  BY <1>1, <1>13
<1>15. \A m \in Merges \ Done(l) : reply'[m] = reply[m]
  BY <1>10, <1>11
<1>16. \A m \in Done(l) : reply'[m] \in {"ok", "error"} /\ (reply'[m] = "ok" => m \in Range1(main))
  BY <1>10, <1>11, <1>12, <1>14
<1>17. reply' \in [Merges -> {"none", "waiting", "ok", "error"}]
  <2>1. \A m \in Merges : reply'[m] \in {"none", "waiting", "ok", "error"}
    BY <1>10, <1>13
  <2>2. DOMAIN reply' = Merges /\ reply' = [m \in Merges |-> reply'[m]]
    BY DEF Replies
  <2> QED
    BY <2>1, <2>2
<1> QED
  BY <1>1, <1>14, <1>15, <1>16, <1>17 DEF Answers

LEMMA PersistedInv ==
  ASSUME CommitInv, NEW p \in Processes, Persisted(p)
  PROVE  CommitInv'
<1>1. PICK l \in Leaders, m \in Line :
        /\ l = leader[p] /\ m = queue[p].merges /\ Working(l) /\ l.pc = "persisted"
  BY OwnedFacts DEF Persisted
<1>2. /\ queue[p] \in Queues /\ queue[p].open /\ Owned(p) \subseteq Merges
      /\ Growing(Unanswered(leader[p], queue[p])) /\ queue[p] = [queue[p] EXCEPT !.merges = m]
  <2>1. queue[p] \in Queues /\ Alright(leader[p], queue[p]) /\ Owned(p) \subseteq Merges
        /\ Growing(Unanswered(leader[p], queue[p]))
    BY OwnedFacts DEF CommitInv
  <2> QED
    BY <1>1, <2>1 DEF Alright, Queues
<1>3. /\ l.prepared \in Batches /\ l.next \in Batches /\ l.landed \in Nat /\ l.batches \in Nat
      /\ l.landed =< Len(l.prepared.ready) /\ l.batch = <<>>
      /\ l.next = NoBatch \/ (WellPrepared(l.next) /\ l.batches < BatchesPerTurn)
  BY <1>1 DEF Leaders, Working
<1>4. PICK s \in Line, w \in Line : s = l.prepared.ready /\ w = Unwound(l.next)
  BY <1>3, UnwoundFacts DEF Batches
<1>5. w \o m \in Line /\ Unanswered(leader[p], queue[p]) = s \o (w \o m)
  <2>1. Unanswered(leader[p], queue[p]) = (s \o w) \o m
    BY <1>1, <1>2, <1>4, Shape
  <2> QED
    BY <2>1, LineConcat, LineAssociates
<1>6. /\ Growing(s) /\ Growing(w \o m) /\ Owned(p) = IdsOf(s) \cup IdsOf(w \o m)
  <2>1. Growing(s \o (w \o m)) /\ Owned(p) = IdsOf(s \o (w \o m))
    BY <1>2, <1>5 DEF Owned
  <2> QED
    BY <1>5, <2>1, LineConcat
<1>7. ASSUME NEW t \in Line, Growing(t), IdsOf(t) \subseteq IdsOf(s)
      PROVE  Growing(t \o (w \o m)) /\ IdsOf(t \o (w \o m)) = Owned(p) \ (IdsOf(s) \ IdsOf(t))
  <2>1. <<>> \in Line /\ <<>> \o s = s /\ <<>> \o t = t
    BY LineEmpty, LineConcat
  <2>2. Growing(s \o (w \o m)) /\ Owned(p) = IdsOf(s \o (w \o m))
    BY <1>2, <1>5 DEF Owned
  <2>3. PICK x \in Line : x = w \o m
    BY <1>5
  <2>4. PICK e \in Line : e \o s = s /\ e \o t = t
    BY <2>1
  <2>5. Growing((e \o s) \o x)
    BY <2>2, <2>3, <2>4
  <2>6. /\ Growing((e \o t) \o x)
        /\ IdsOf((e \o t) \o x) = IdsOf((e \o s) \o x) \ (IdsOf(s) \ IdsOf(t))
    BY <1>7, <2>5, LineShrinks
  <2> QED
    BY <2>2, <2>3, <2>4, <2>6
<1>8. /\ Done(l) \subseteq IdsOf(s) /\ (l.landed = Len(s) => Done(l) = IdsOf(s))
      /\ l.landed < Len(s) =>
           /\ Retry(l) \in Line /\ Growing(Retry(l)) /\ IdsOf(Retry(l)) \subseteq IdsOf(s)
           /\ Done(l) = IdsOf(s) \ IdsOf(Retry(l))
  BY <1>3, <1>4, <1>6, DoneFacts
<1>9. reply' = Replies(leader[p]) /\ UNCHANGED <<main, clear>>
  BY DEF Persisted
<1>10. Answers(p, Done(l))
  BY <1>1, <1>6, <1>8, <1>9, RepliesFacts
<1>11. Len(s) \in Nat
  BY LineFacts
<1>12. CASE l.landed < Len(s)
  <2>1. PICK t \in Line : /\ t = Retry(l) /\ Growing(t) /\ IdsOf(t) \subseteq IdsOf(s)
                         /\ Done(l) = IdsOf(s) \ IdsOf(t)
    BY <1>8, <1>12
  <2>2. EndTurn(p, t \o w, m)
    BY <1>1, <1>4, <1>12, <2>1 DEF Persisted
  <2>3. t \o w \in Line /\ (t \o w) \o m = t \o (w \o m)
    BY LineConcat, LineAssociates
  <2>4. Growing((t \o w) \o m) /\ IdsOf((t \o w) \o m) = Owned(p) \ Done(l)
    BY <1>7, <2>1, <2>3
  <2>5. leader[p].pc # "none"
    BY <1>1
  <2> QED
    BY <1>9, <1>10, <2>2, <2>3, <2>4, <2>5, TurnEnds
<1>13. CASE l.landed = Len(s)
  <2>1. Growing(w \o m) /\ IdsOf(w \o m) = Owned(p) \ Done(l)
    <3>1. <<>> \in Line /\ Growing(<<>>) /\ IdsOf(<<>>) = {} /\ <<>> \o (w \o m) = w \o m
      BY <1>5, LineEmpty, LineConcat
    <3>2. PICK e \in Line : Growing(e) /\ IdsOf(e) = {} /\ e \o (w \o m) = w \o m
      BY <3>1
    <3>3. IdsOf(e) \subseteq IdsOf(s)
      BY <3>2
    <3>4. IdsOf(e \o (w \o m)) = Owned(p) \ (IdsOf(s) \ IdsOf(e)) /\ Growing(e \o (w \o m))
      BY <1>7, <3>2, <3>3
    <3>5. IdsOf(s) \ IdsOf(e) = Done(l)
      BY <1>8, <1>13, <3>2
    <3> QED
      BY <3>2, <3>4, <3>5
  <2>2. ~ (l.landed < Len(s))
    BY <1>11, <1>13
  <2>3. ASSUME l.next = NoBatch, EndTurn(p, <<>>, m) PROVE CommitInv'
    <3>1. w = <<>>
      BY <1>4, <2>3, UnwoundFacts
    <3>2. <<>> \in Line /\ leader[p].pc # "none"
      BY <1>1, LineEmpty
    <3>3. Growing(<<>> \o m) /\ IdsOf(<<>> \o m) = Owned(p) \ Done(l)
      BY <2>1, <3>1
    <3> QED
      BY <1>9, <1>10, <2>3, <3>2, <3>3, TurnEnds
  <2> DEFINE landed == [l EXCEPT !.pc = "settle", !.committed = Proposed(l.prepared),
                                 !.next = NoBatch, !.landed = 0, !.rejected = "no"]
  <2>4. landed.committed = Proposed(l.prepared)
    BY DEF Leaders
  <2>5. Proposed(l.prepared) \in Seq(Nums)
    <3>1. l.prepared.base \in Seq(Nums) /\ Ids(l.prepared.ready) \in Seq(Nums)
      BY <1>3, <1>4, IdsLine DEF Batches
    <3> QED
      BY <3>1 DEF Proposed
  <2>6. ASSUME NEW b \in Batches, WellPrepared(b), NEW q \in Queues, q.open,
               Unwound(b) \o q.merges = w \o m, l.batches < BatchesPerTurn,
               leader' = [leader EXCEPT ![p] = [landed EXCEPT !.prepared = b]],
               queue' = [queue EXCEPT ![p] = q], turn' = turn
        PROVE  CommitInv'
    <3>1. PICK k : k = [landed EXCEPT !.prepared = b]
      OBVIOUS
    <3>2. /\ k \in Leaders /\ k.pc = "settle" /\ k.batch = <<>> /\ k.prepared = b
          /\ k.next = NoBatch /\ k.batches = l.batches
      <4>1. /\ landed \in Leaders /\ landed.pc = "settle" /\ landed.batch = <<>>
            /\ landed.next = NoBatch /\ landed.batches = l.batches
        BY <1>3, <2>5, UnwoundFacts DEF Leaders, Pcs
      <4> HIDE DEF landed
      <4> QED
        BY <3>1, <4>1 DEF Leaders
    <3>3. leader' = [leader EXCEPT ![p] = k]
      BY <2>6, <3>1
    <3> HIDE DEF landed
    <3>4. Working(k)
      BY <2>6, <3>2 DEF Working
    <3>5. Unanswered(k, q) = w \o m
      BY <2>6, <3>2, <3>4, Shape
    <3>6. Alright(k, q)
      BY <2>1, <2>6, <3>2, <3>4, <3>5 DEF Alright
    <3>7. Handles(p, k, q, Done(l))
      BY <1>10, <2>1, <2>6, <3>3, <3>5 DEF Handles, Answers
    <3>8. turn' \in Processes \cup {Nobody}
      BY <2>6 DEF CommitInv, Types
    <3>9. \A n \in Done(l) : reply'[n] = "ok" => n \in Range1(main)
      BY <1>10 DEF Answers
    <3> QED
      BY <1>9, <2>6, <3>2, <3>6, <3>7, <3>8, <3>9, MainKept
  <2>7. CASE l.batches >= BatchesPerTurn
    <3>1. l.next = NoBatch
      BY <1>3, <2>7, MergeCommitterAssumption
    <3>2. EndTurn(p, <<>>, m)
      BY <1>1, <1>4, <2>2, <2>7 DEF Persisted
    <3> QED
      BY <2>3, <3>1, <3>2
  <2>8. CASE ~ (l.batches >= BatchesPerTurn) /\ l.next # NoBatch
    <3>1. /\ leader' = [leader EXCEPT ![p] = [landed EXCEPT !.prepared = l.next]]
          /\ queue' = queue /\ turn' = turn
      BY <1>1, <1>4, <2>2, <2>8 DEF Persisted
    <3>2. queue' = [queue EXCEPT ![p] = queue[p]]
      BY <3>1 DEF CommitInv, Types
    <3>3. WellPrepared(l.next) /\ l.batches < BatchesPerTurn
      BY <1>3, <2>8
    <3>4. Unwound(l.next) \o queue[p].merges = w \o m
      BY <1>1, <1>4
    <3> HIDE DEF landed
    <3> QED
      BY <1>2, <1>3, <2>6, <3>1, <3>2, <3>3, <3>4
  <2>9. CASE ~ (l.batches >= BatchesPerTurn) /\ l.next = NoBatch
    <3>1. PICK k : k = Batchable(m)
      OBVIOUS
    <3>2. CASE k = 0
      <4>1. EndTurn(p, <<>>, m)
        BY <1>1, <1>4, <2>2, <2>9, <3>1, <3>2 DEF Persisted
      <4> QED
        BY <2>3, <2>9, <4>1
    <3>3. CASE k # 0
      <4>1. PICK batch \in Line, rest \in Line :
              /\ batch = SubSeq(m, 1, k) /\ rest = From(m, k + 1)
              /\ batch # <<>> /\ Len(batch) =< MaxBatch /\ batch \o rest = m
        BY <3>1, <3>3, TakenFacts
      <4>2. /\ queue' = [queue EXCEPT ![p].merges = rest] /\ turn' = turn
            /\ \E b \in PreparedOn(batch, landed.committed, FALSE) :
                 leader' = [leader EXCEPT ![p] = [landed EXCEPT !.prepared = b]]
        BY <1>1, <1>4, <2>2, <2>9, <3>1, <3>3, <4>1 DEF Persisted
      <4>3. PICK b \in PreparedOn(batch, Proposed(l.prepared), FALSE) :
              leader' = [leader EXCEPT ![p] = [landed EXCEPT !.prepared = b]]
        BY <2>4, <4>2
      <4>4. b \in Batches /\ WellPrepared(b) /\ Unwound(b) = batch
        BY <2>5, <4>1, <4>3, PreparedFacts
      <4>5. PICK q \in Queues : q = [queue[p] EXCEPT !.merges = rest] /\ q.open /\ q.merges = rest
        <5>1. LET q == [queue[p] EXCEPT !.merges = rest] IN q \in Queues /\ q.merges = rest
          BY <1>2 DEF Queues
        <5>2. [queue[p] EXCEPT !.merges = rest].open = queue[p].open
          BY <1>2 DEF Queues
        <5> QED
          BY <1>2, <5>1, <5>2
      <4>6. queue' = [queue EXCEPT ![p] = q]
        BY <4>2, <4>5
      <4>7. Unwound(b) \o q.merges = w \o m
        <5>1. w = <<>>
          BY <1>4, <2>9, UnwoundFacts
        <5>2. <<>> \o m = m
          BY LineConcat, LineEmpty
        <5> QED
          BY <4>1, <4>4, <4>5, <5>1, <5>2
      <4>8. l.batches < BatchesPerTurn
        BY <1>3, <2>9, MergeCommitterAssumption
      <4> HIDE DEF landed
      <4> QED
        BY <2>6, <4>2, <4>3, <4>4, <4>5, <4>6, <4>7, <4>8
    <3> QED
      BY <3>2, <3>3
  <2> QED
    BY <2>7, <2>8, <2>9
<1> QED
  BY <1>3, <1>4, <1>11, <1>12, <1>13

-----------------------------------------------------------------------------
(* The theorems                                                             *)

LEMMA InitInv == Init => CommitInv
<1> SUFFICES ASSUME Init PROVE CommitInv
  OBVIOUS
<1>1. <<>> \in Seq(Nums) /\ Range1(<<>>) = {}
  BY DEF Range1
<1>2. Types
  BY <1>1, Idle DEF Init, Types
<1>3. Unanswered(NoLeader, NoQueue) = <<>>
  BY Idle, Shape
<1>4. Alright(NoLeader, NoQueue) /\ Landed(NoLeader)
  BY <1>3, Idle, LineEmpty DEF Alright, Landed
<1>5. \A p \in Processes : leader[p] = NoLeader /\ queue[p] = NoQueue
  BY DEF Init
<1>6. \A p \in Processes : Owned(p) = {}
  BY <1>3, <1>5, LineEmpty DEF Owned
<1>7. Waiters = {} /\ Submitted
  BY DEF Init, Waiters, Submitted
<1>8. Shared
  BY <1>6, <1>7 DEF Shared
<1>9. MergesLandOnce
  BY DEF Init, MergesLandOnce
<1> QED
  BY <1>2, <1>4, <1>5, <1>7, <1>8, <1>9 DEF CommitInv

LEMMA NextInv == CommitInv /\ [Next]_vars => CommitInv'
<1> SUFFICES ASSUME CommitInv, [Next]_vars PROVE CommitInv'
  OBVIOUS
<1>1. ASSUME NEW m \in Merges, NEW p \in Processes, Submit(m, p) PROVE CommitInv'
  BY <1>1, SubmitInv
<1>2. CASE PushMain
  BY <1>2, PushMainInv
<1>3. CASE LoseTurn \/ \E m \in Merges : Disturb(m)
  BY <1>3, OutsideInv
<1>4. ASSUME NEW p \in Processes, AcquireFails(p) \/ LeaderDies(p) PROVE CommitInv'
  BY <1>4, AbandonInv
<1>5. ASSUME NEW p \in Processes, OpenFails(p) PROVE CommitInv'
  BY <1>5, OpenFailsInv
<1>6. ASSUME NEW p \in Processes, PrepareNext(p) PROVE CommitInv'
  BY <1>6, PrepareNextInv
<1>7. ASSUME NEW p \in Processes, NEW k \in 0 .. MaxBatch, PersistFails(p, k) PROVE CommitInv'
  BY <1>7, PersistFailsInv
<1>8. ASSUME NEW p \in Processes, Lead(p) PROVE CommitInv'
  <2>1. CASE AcquireTurn(p)
    BY <2>1, AcquireTurnInv
  <2>2. CASE TakeBatch(p)
    BY <2>2, TakeBatchInv
  <2>3. CASE Open(p)
    BY <2>3, OpenInv
  <2>4. CASE Settle(p)
    BY <2>4, SettleInv
  <2>5. CASE Persisted(p)
    BY <2>5, PersistedInv
  <2>6. ASSUME NEW k \in 0 .. MaxBatch, PersistTx(p, k) PROVE CommitInv'
    BY <2>6, PersistTxInv
  <2> QED
    BY <1>8, <2>1, <2>2, <2>3, <2>4, <2>5, <2>6 DEF Lead
<1>9. CASE UNCHANGED vars
  BY <1>9 DEF vars, CommitInv, Types, Submitted, Shared, Waiters, Owned, MergesLandOnce, Landed
<1> QED
  BY <1>1, <1>2, <1>3, <1>4, <1>5, <1>6, <1>7, <1>8, <1>9 DEF Next

\* A line of merges in order, as SubmissionOrder sees it.
LEMMA InvImpliesQueued == CommitInv => MergesAreQueued
<1> SUFFICES ASSUME CommitInv PROVE MergesAreQueued
  OBVIOUS
<1>1. ASSUME NEW p \in Processes
      PROVE  /\ Range1(Pipeline(p)) = Owned(p)
             /\ \A i, j \in DOMAIN Pipeline(p) : i < j => Pipeline(p)[i] < Pipeline(p)[j]
  <2>1. PICK u \in Line : u = Unanswered(leader[p], queue[p]) /\ Growing(u)
    BY OwnedFacts
  <2>2. Pipeline(p) = Ids(u)
    BY <2>1 DEF Pipeline, Unanswered
  <2>3. Range1(Ids(u)) = IdsOf(u)
    BY AnsweredIds
  <2>4. DOMAIN Ids(u) = DOMAIN u /\ \A i \in DOMAIN u : Ids(u)[i] = u[i].id
    BY DEF Ids
  <2>5. \A i, j \in DOMAIN Ids(u) : i < j => Ids(u)[i] < Ids(u)[j]
    BY <2>1, <2>4 DEF Growing
  <2> QED
    BY <2>1, <2>2, <2>3, <2>5 DEF Owned
<1>2. WaitingIsQueued
  <2>1. Waiters = UNION {Owned(p) : p \in Processes}
        /\ \A p, q \in Processes : p # q => Owned(p) \cap Owned(q) = {}
    BY DEF CommitInv, Shared
  <2> QED
    BY <1>1, <2>1 DEF WaitingIsQueued, Waiters
<1>3. SubmissionOrder
  BY <1>1 DEF SubmissionOrder
<1>4. QueueHasLeader
  BY DEF CommitInv, Alright, QueueHasLeader
<1>5. ASSUME NEW p \in Processes
      PROVE  /\ queue[p].open \in BOOLEAN /\ Range1(queue[p].merges) \subseteq Entries
             /\ Range1(InHand(leader[p])) \subseteq Entries
             /\ Len(leader[p].prepared.ready) <= MaxBatch
             /\ leader[p].batches \in 0 .. BatchesPerTurn
             /\ leader[p].pc \in {"none", "turn", "take", "open", "settle", "persist", "persisted"}
  <2>1. PICK l \in Leaders, q \in Queues : l = leader[p] /\ q = queue[p] /\ Working(l)
    BY OwnedFacts
  <2>2. /\ l.batch \in Line /\ l.prepared \in Batches /\ l.next \in Batches /\ l.pc \in Pcs
        /\ l.batches \in 0 .. BatchesPerTurn /\ q.merges \in Line /\ q.open \in BOOLEAN
    BY DEF Leaders, Queues
  <2>3. InHand(l) \in Line
    BY <2>2, UnwoundFacts, LineConcat DEF InHand
  <2>4. \A x \in Line : Range1(x) \subseteq Entries
    BY LineFacts DEF Range1
  <2>5. Len(l.prepared.ready) <= MaxBatch
    <3>1. Len(NoBatch.ready) = 0 /\ MaxBatch \in Nat
      BY LineEmpty, MergeCommitterAssumption DEF NoBatch
    <3> QED
      BY <2>1, <2>2, <3>1 DEF Working, WellPrepared, Pcs
  <2> QED
    BY <2>1, <2>2, <2>3, <2>4, <2>5 DEF Pcs
<1>6. TypeOK
  <2>1. Range1(main) \subseteq 0 .. NumMerges
    <3>1. PICK x \in Seq(Nums) : x = main
      BY DEF CommitInv, Types
    <3>2. DOMAIN x = 1 .. Len(x) /\ \A i \in 1 .. Len(x) : x[i] \in Nums
      BY LenProperties, ElementOfSeq
    <3> QED
      BY <3>1, <3>2 DEF Nums, Range1
  <2> QED
    BY <1>5, <2>1 DEF TypeOK, CommitInv, Types
<1> QED
  BY <1>2, <1>3, <1>4, <1>6 DEF MergesAreQueued

\* What the queues, the leaders and main always satisfy together; the two theorems
\* below are read off it: committer.rs, persist.rs.
THEOREM CommitterInvariant == Spec => []CommitInv
  BY InitInv, NextInv, PTL DEF Spec

\* No path of a leader - retries, unwound batches, failed reads, failed
\* transactions, a lost turn or a panic - loses, doubles or overtakes a merge
\* that waits, or leaves one in a queue that no task reads: committer.rs.
THEOREM MergesStayQueued == Spec => []MergesAreQueued
  BY CommitterInvariant, InvImpliesQueued, PTL

\* A merge reported as landed is in main, and no merge is in main twice,
\* although a commit may be unconfirmed and its merges submitted again, and two
\* processes may both believe that they hold the turn: persist.rs.
THEOREM LandsOnce == Spec => []MergesLandOnce
<1>1. CommitInv => MergesLandOnce
  BY DEF CommitInv
<1> QED
  BY <1>1, CommitterInvariant, PTL

-----------------------------------------------------------------------------
(* Pushes: the inductive invariant                                          *)

PushJobs ==
  [state : {"none", "ready", "running", "succeeded", "failed"}, owner : Workers \cup {Nobody},
   attempts : 0..MaxAttempts, due : Nat]
PushWork ==
  [pc : {"idle", "claimed", "loaded", "executing", "failing"}, push : Pushes \cup {Nobody},
   fresh : BOOLEAN, listed : BOOLEAN]
Settlements ==
  [pc : {"idle", "list", "cancel", "done"}, todo : SUBSET Pushes, relisted : BOOLEAN]
Evaluations == Push!Ended \cup {"none", "Pending"}
RunStates == {"none", "active", "canceling", "ended"}

PushTypes ==
  /\ repo \in BOOLEAN /\ listed \in BOOLEAN
  /\ evaluation \in [Pushes -> Evaluations] /\ job \in [Pushes -> PushJobs]
  /\ run \in [Pushes -> RunStates] /\ worker \in [Workers -> PushWork]
  /\ settle \in Settlements

\* Nobody evaluates a push that was never accepted, and a job has an evaluation.
JobsKnown ==
  /\ \A p \in Pushes : /\ job[p].state # "none" => evaluation[p] # "none"
                       /\ job[p].owner # Nobody => job[p].state = "running"
  /\ \A w \in Workers : worker[w].pc # "idle" =>
       worker[w].push \in Pushes /\ (evaluation[worker[w].push] # "none" \/ ~repo)

\* A transaction has its evaluation to itself: what it saw of it still holds.
Exclusive ==
  \A w \in Workers : worker[w].pc = "executing" =>
    /\ worker[w].fresh <=> evaluation[worker[w].push] = "Pending"
    /\ worker[w].listed => worker[w].fresh /\ listed
    /\ \A x \in Workers \ {w} : worker[x].pc = "executing" => worker[x].push # worker[w].push

\* A withdrawal that no listing followed: its list of runs misses none that is active.
Withdrawn ==
  settle.pc # "idle" /\ ~settle.relisted =>
    /\ ~listed
    /\ settle.pc = "cancel" => \A p \in Pushes : run[p] = "active" => p \in settle.todo
    /\ settle.pc = "done" => \A p \in Pushes : run[p] # "active"

PushInv ==
  /\ PushTypes /\ Push!PendingHasJob /\ Push!RunsAreExplained
  /\ JobsKnown /\ Exclusive /\ Withdrawn

-----------------------------------------------------------------------------
(* Pushes: one lemma per kind of step                                       *)

LEMMA NoWorkFacts == Push!NoWork \in PushWork /\ Push!NoWork.pc = "idle"
  BY DEF Push!NoWork, PushWork

LEMMA NoJobFacts ==
  /\ Push!NoJob \in PushJobs /\ Push!NoJob.state = "none"
  /\ [Push!NoJob EXCEPT !.state = "ready"] \in PushJobs
  BY PushAssumption DEF Push!NoJob, PushJobs, Push!PushTriggersAssumption

\* A step of one worker that changes only what it knows.
WorkerMoves(w, l) ==
  /\ worker' = [worker EXCEPT ![w] = l]
  /\ l.pc = "executing" => l = worker[w]
  /\ l.pc # "idle" => worker[w].pc # "idle" /\ l.push = worker[w].push

LEMMA WorkerMovesKeeps ==
  ASSUME PushInv, NEW w \in Workers, NEW l \in PushWork, WorkerMoves(w, l),
         UNCHANGED <<repo, evaluation, job, run, listed, settle>>
  PROVE  PushInv'
<1> USE DEF PushInv, PushTypes
<1>1. worker' \in [Workers -> PushWork] /\ worker'[w] = l
  BY DEF WorkerMoves
<1>2. \A x \in Workers \ {w} : worker'[x] = worker[x]
  BY DEF WorkerMoves
<1>3. JobsKnown'
  BY <1>1, <1>2 DEF JobsKnown, WorkerMoves
<1>4. Exclusive'
  BY <1>1, <1>2 DEF Exclusive, WorkerMoves
<1> QED
  BY <1>1, <1>3, <1>4 DEF Push!PendingHasJob, Push!RunsAreExplained, Withdrawn

LEMMA ExecutionKeeps ==
  ASSUME PushInv, NEW w \in Workers,
         \/ Push!LoadPayload(w) \/ Push!ExecutionFails(w) \/ Push!WorkerCrash(w)
  PROVE  PushInv'
<1> DEFINE ll == [worker[w] EXCEPT !.pc = "loaded"]
           lf == [Push!NoWork EXCEPT !.pc = "failing", !.push = worker[w].push]
<1>1. worker[w] \in PushWork
  BY DEF PushInv, PushTypes
<1>2. CASE Push!LoadPayload(w)
  <2>1. ll \in PushWork /\ ll.pc = "loaded" /\ ll.push = worker[w].push
    BY <1>1 DEF PushWork
  <2>2. WorkerMoves(w, ll)
    BY <1>2, <2>1 DEF Push!LoadPayload, WorkerMoves
  <2> QED
    BY <1>2, <2>1, <2>2, WorkerMovesKeeps DEF Push!LoadPayload
<1>3. CASE Push!ExecutionFails(w)
  <2>1. lf \in PushWork /\ lf.pc = "failing" /\ lf.push = worker[w].push
    BY <1>1, NoWorkFacts DEF PushWork
  <2>2. WorkerMoves(w, lf)
    BY <1>3, <2>1 DEF Push!ExecutionFails, WorkerMoves
  <2> QED
    BY <1>3, <2>1, <2>2, WorkerMovesKeeps DEF Push!ExecutionFails
<1>4. CASE Push!WorkerCrash(w)
  <2>1. WorkerMoves(w, Push!NoWork)
    BY <1>4, NoWorkFacts DEF Push!WorkerCrash, WorkerMoves
  <2> QED
    BY <1>4, <2>1, NoWorkFacts, WorkerMovesKeeps DEF Push!WorkerCrash
<1> QED
  BY <1>2, <1>3, <1>4

LEMMA EvaluateKeeps ==
  ASSUME PushInv, NEW w \in Workers, Push!Evaluate(w)
  PROVE  PushInv'
<1> DEFINE p == worker[w].push
           l == [worker[w] EXCEPT !.pc = "executing", !.fresh = (evaluation[p] = "Pending"),
                                  !.listed = (evaluation[p] = "Pending" /\ listed)]
<1> USE DEF PushInv, PushTypes
<1>1. worker[w] \in PushWork /\ worker[w].pc = "loaded" /\ p \in Pushes
  BY DEF Push!Evaluate, JobsKnown
<1>2. /\ l \in PushWork /\ l.pc = "executing" /\ l.push = p
      /\ l.fresh = (evaluation[p] = "Pending")
      /\ l.listed = (evaluation[p] = "Pending" /\ listed)
  BY <1>1 DEF PushWork
<1>3. worker' = [worker EXCEPT ![w] = l] /\ Push!Evaluating(p) = {}
      /\ UNCHANGED <<repo, evaluation, job, run, listed, settle>>
  BY DEF Push!Evaluate
<1> HIDE DEF l
<1>4. worker' \in [Workers -> PushWork] /\ worker'[w] = l
      /\ \A x \in Workers \ {w} : worker'[x] = worker[x]
  BY <1>2, <1>3
<1>5. \A x \in Workers : worker[x].pc = "executing" => worker[x].push # p
  BY <1>3 DEF Push!Evaluating
<1>6. JobsKnown'
  BY <1>1, <1>2, <1>3, <1>4 DEF JobsKnown
<1>7. Exclusive'
  <2> SUFFICES ASSUME NEW v \in Workers, worker'[v].pc = "executing"
               PROVE  /\ worker'[v].fresh <=> evaluation[worker'[v].push] = "Pending"
                      /\ worker'[v].listed => worker'[v].fresh /\ listed
                      /\ \A x \in Workers \ {v} :
                           worker'[x].pc = "executing" => worker'[x].push # worker'[v].push
    BY <1>3 DEF Exclusive
  <2>1. CASE v = w
    BY <1>2, <1>4, <1>5, <2>1
  <2>2. CASE v # w
    <3>1. worker'[v] = worker[v] /\ worker[v].pc = "executing"
      BY <1>4, <2>2
    <3>2. worker'[w].push # worker[v].push
      BY <1>2, <1>4, <1>5, <3>1
    <3> QED
      BY <1>4, <3>1, <3>2 DEF Exclusive
  <2> QED
    BY <2>1, <2>2
<1> QED
  BY <1>3, <1>4, <1>6, <1>7 DEF Push!PendingHasJob, Push!RunsAreExplained, Withdrawn

LEMMA ClaimKeeps ==
  ASSUME PushInv, NEW w \in Workers, NEW p \in Pushes, Push!Claim(w, p)
  PROVE  PushInv'
<1> DEFINE l == [Push!NoWork EXCEPT !.pc = "claimed", !.push = p]
           k == [job[p] EXCEPT !.state = "running", !.owner = w, !.due = LeaseTime]
<1> USE DEF PushInv, PushTypes
<1>1. l \in PushWork /\ l.pc = "claimed" /\ l.push = p
  BY NoWorkFacts DEF PushWork
<1>2. k \in PushJobs /\ k.state = "running" /\ job[p].state # "none"
  BY PushAssumption DEF PushJobs, Push!Claim, Push!Runnable, Push!PushTriggersAssumption
<1>3. worker' = [worker EXCEPT ![w] = l] /\ job' = [job EXCEPT ![p] = k]
      /\ UNCHANGED <<repo, evaluation, run, listed, settle>>
  BY Zenon DEF Push!Claim
<1> HIDE DEF l, k
<1>4. /\ worker' \in [Workers -> PushWork] /\ worker'[w] = l
      /\ \A x \in Workers \ {w} : worker'[x] = worker[x]
  BY <1>1, <1>3
<1>5. /\ job' \in [Pushes -> PushJobs] /\ job'[p] = k
      /\ \A q \in Pushes \ {p} : job'[q] = job[q]
  BY <1>2, <1>3
<1>6. JobsKnown'
  BY <1>1, <1>2, <1>3, <1>4, <1>5 DEF JobsKnown
<1>7. Exclusive'
  BY <1>1, <1>3, <1>4 DEF Exclusive
<1>8. Push!PendingHasJob'
  BY <1>2, <1>3, <1>5 DEF Push!PendingHasJob
<1> QED
  BY <1>3, <1>4, <1>5, <1>6, <1>7, <1>8 DEF Push!RunsAreExplained, Withdrawn

\* A worker ends its transaction with p: it writes the job, the evaluation and the run
\* of p, of which no other transaction is under way.
LEMMA CompleteKeeps ==
  ASSUME PushInv, NEW w \in Workers, Push!Completes(w)
  PROVE  PushInv'
<1> DEFINE p == worker[w].push
           k == [job[p] EXCEPT !.state = "succeeded", !.owner = Nobody, !.due = 0]
<1> USE DEF PushInv, PushTypes
<1>1. PICK outcome \in Push!Ended \cup {"none"}, creates \in BOOLEAN : Push!Complete(w, outcome, creates)
  BY DEF Push!Completes
<1>2. /\ worker[w] \in PushWork /\ worker[w].pc = "executing" /\ p \in Pushes
      /\ worker' = [worker EXCEPT ![w] = Push!NoWork] /\ UNCHANGED <<repo, listed, settle>>
  BY <1>1, Zenon DEF Push!Complete, JobsKnown
<1>3. /\ worker' \in [Workers -> PushWork] /\ worker'[w].pc = "idle"
      /\ \A x \in Workers \ {w} : worker'[x] = worker[x]
  BY <1>2, NoWorkFacts
<1>4. CASE job[p].owner # w
  <2>1. UNCHANGED <<job, evaluation, run>>
    BY <1>1, <1>4 DEF Push!Complete
  <2>2. WorkerMoves(w, Push!NoWork)
    BY <1>2, NoWorkFacts DEF WorkerMoves
  <2> QED
    BY <1>2, <2>1, <2>2, NoWorkFacts, WorkerMovesKeeps
<1>5. CASE job[p].owner = w
  <2>1. /\ job' = [job EXCEPT ![p] = k] /\ evaluation' = [evaluation EXCEPT ![p] = outcome]
        /\ run' = IF creates THEN [run EXCEPT ![p] = "active"] ELSE run
    BY <1>1, <1>5, Zenon DEF Push!Complete
  <2>2. k \in PushJobs /\ k.state = "succeeded" /\ k.owner = Nobody
    <3>1. job[p] \in PushJobs
      BY <1>2
    <3>2. 0 \in Nat /\ Nobody \in Workers \cup {Nobody}
      OBVIOUS
    <3> HIDE DEF p, PushInv, PushTypes
    <3> QED
      BY <3>1, <3>2 DEF PushJobs
  <2> HIDE DEF k
  <2>3. /\ job' \in [Pushes -> PushJobs] /\ job'[p] = k
        /\ \A q \in Pushes \ {p} : job'[q] = job[q]
    BY <2>1, <2>2, <1>2
  <2>4. /\ evaluation' \in [Pushes -> Evaluations] /\ evaluation'[p] = outcome
        /\ outcome # "Pending" /\ \A q \in Pushes \ {p} : evaluation'[q] = evaluation[q]
    BY <2>1, <1>2 DEF Evaluations, Push!Ended
  <2>5. /\ run' \in [Pushes -> RunStates] /\ \A q \in Pushes \ {p} : run'[q] = run[q]
        /\ run'[p] = IF creates THEN "active" ELSE run[p]
    BY <2>1, <1>2 DEF RunStates
  <2>6. \A x \in Workers \ {w} : worker[x].pc = "executing" => worker[x].push # p
    BY <1>2 DEF Exclusive
  <2>7. outcome # "none"
    <3>1. evaluation[p] # "none"
      BY <1>2, <1>5, PushAssumption DEF JobsKnown, Push!PushTriggersAssumption
    <3> QED
      BY <1>1, <3>1 DEF Push!Complete
  <2>8. Push!PendingHasJob'
    BY <2>2, <2>3, <2>4 DEF Push!PendingHasJob
  <2>9. Push!RunsAreExplained'
    <3>1. worker[w].fresh => run[p] = "none"
      BY <1>2 DEF Push!RunsAreExplained, Exclusive
    <3>2. run'[p] # "none" => outcome = "Succeeded"
      BY <1>1, <1>2, <2>5, <3>1 DEF Push!Complete, Push!RunsAreExplained
    <3> QED
      BY <2>4, <2>5, <3>2 DEF Push!RunsAreExplained
  <2>10. JobsKnown'
    BY <1>2, <1>3, <2>2, <2>3, <2>4, <2>7 DEF JobsKnown
  <2>11. Exclusive'
    BY <1>2, <1>3, <2>4, <2>6 DEF Exclusive, JobsKnown
  <2>12. Withdrawn'
    <3>1. creates => listed
      BY <1>1, <1>2 DEF Push!Complete, Exclusive
    <3> QED
      BY <1>2, <2>5, <3>1 DEF Withdrawn
  <2> QED
    BY <1>2, <1>3, <2>3, <2>4, <2>5, <2>8, <2>9, <2>10, <2>11, <2>12
<1> QED
  BY <1>4, <1>5

LEMMA RecordFailureKeeps ==
  ASSUME PushInv, NEW w \in Workers, Push!RecordFailure(w)
  PROVE  PushInv'
<1> DEFINE p == worker[w].push
<1> USE DEF PushInv, PushTypes
<1>1. /\ worker[w] \in PushWork /\ worker[w].pc = "failing" /\ p \in Pushes
      /\ worker' = [worker EXCEPT ![w] = Push!NoWork] /\ UNCHANGED <<repo, run, listed, settle>>
  BY Zenon DEF Push!RecordFailure, JobsKnown
<1>2. /\ worker' \in [Workers -> PushWork] /\ worker'[w].pc = "idle"
      /\ \A x \in Workers \ {w} : worker'[x] = worker[x]
  BY <1>1, NoWorkFacts
<1>3. CASE job[p].owner # w
  <2>1. UNCHANGED <<job, evaluation>>
    BY <1>3 DEF Push!RecordFailure
  <2>2. WorkerMoves(w, Push!NoWork)
    BY <1>1, NoWorkFacts DEF WorkerMoves
  <2> QED
    BY <1>1, <2>1, <2>2, NoWorkFacts, WorkerMovesKeeps
<1>4. CASE job[p].owner = w
  <2>1. evaluation[p] # "none" /\ job[p].state = "running"
    BY <1>1, <1>4, PushAssumption DEF JobsKnown, Push!PushTriggersAssumption
  <2>2. PICK k \in PushJobs, e \in Evaluations :
          /\ job' = [job EXCEPT ![p] = k] /\ evaluation' = [evaluation EXCEPT ![p] = e]
          /\ k.state \in {"ready", "failed"} /\ k.owner = Nobody
          /\ e = evaluation[p] \/ (evaluation[p] = "Pending" /\ e = "Failed")
          /\ e = "Pending" => k.state = "ready"
          /\ e # evaluation[p] => Push!Evaluating(p) = {}
    <3>1. CASE job[p].attempts + 1 >= MaxAttempts
      <4> DEFINE k == [state |-> "failed", owner |-> Nobody, attempts |-> MaxAttempts, due |-> 0]
                 e == IF evaluation[p] = "Pending" THEN "Failed" ELSE evaluation[p]
      <4>1. Push!FailTerminally(w, p)
        BY <1>4, <3>1 DEF Push!RecordFailure
      <4>2. job' = [job EXCEPT ![p] = k] /\ evaluation' = [evaluation EXCEPT ![p] = e]
        BY <4>1, Zenon DEF Push!FailTerminally
      <4>3. k \in PushJobs
        BY PushAssumption DEF PushJobs, Push!PushTriggersAssumption
      <4>4. e \in Evaluations
        BY <1>1 DEF Evaluations, Push!Ended
      <4>5. Push!Evaluating(p) = {}
        BY <4>1 DEF Push!FailTerminally
      <4>6. k.state = "failed" /\ k.owner = Nobody /\ e # "Pending"
            /\ (e = evaluation[p] \/ (evaluation[p] = "Pending" /\ e = "Failed"))
        OBVIOUS
      <4> HIDE DEF k, e
      <4> QED
        BY <4>2, <4>3, <4>4, <4>5, <4>6
    <3>2. CASE ~(job[p].attempts + 1 >= MaxAttempts)
      <4>1. Push!Reschedule(p)
        BY <1>4, <3>2 DEF Push!RecordFailure
      <4>2. PICK delay \in 0..RetryDelay :
              job' = [job EXCEPT ![p] = [state |-> "ready", owner |-> Nobody,
                                         attempts |-> job[p].attempts + 1, due |-> delay]]
        BY <4>1, <1>1 DEF Push!Reschedule
      <4> DEFINE k == [state |-> "ready", owner |-> Nobody, attempts |-> job[p].attempts + 1,
                       due |-> delay]
      <4>3. job[p].attempts \in Nat /\ job[p].attempts + 1 \in 0..MaxAttempts /\ delay \in Nat
        BY <1>1, <3>2, PushAssumption DEF PushJobs, Push!PushTriggersAssumption
      <4>4. k \in PushJobs /\ k.state = "ready" /\ k.owner = Nobody
        BY <4>3 DEF PushJobs
      <4>5. evaluation' = [evaluation EXCEPT ![p] = evaluation[p]] /\ evaluation[p] \in Evaluations
        BY <4>1, <1>1 DEF Push!Reschedule
      <4>6. job' = [job EXCEPT ![p] = k]
        BY <4>2, Zenon
      <4> HIDE DEF k
      <4> QED
        BY <4>4, <4>5, <4>6
    <3> QED
      BY <3>1, <3>2
  <2>3. /\ job' \in [Pushes -> PushJobs] /\ job'[p] = k
        /\ \A q \in Pushes \ {p} : job'[q] = job[q]
        /\ evaluation' \in [Pushes -> Evaluations] /\ evaluation'[p] = e
        /\ \A q \in Pushes \ {p} : evaluation'[q] = evaluation[q]
    BY <1>1, <2>2
  <2>4. Push!PendingHasJob' /\ JobsKnown'
    BY <1>1, <1>2, <2>1, <2>2, <2>3 DEF Push!PendingHasJob, JobsKnown
  <2>5. Push!RunsAreExplained'
    BY <1>1, <2>2, <2>3 DEF Push!RunsAreExplained
  <2>6. Exclusive'
    <3>1. e # evaluation[p] => \A x \in Workers : worker[x].pc = "executing" => worker[x].push # p
      BY <2>2 DEF Push!Evaluating
    <3> QED
      BY <1>1, <1>2, <2>3, <3>1 DEF Exclusive, JobsKnown
  <2> QED
    BY <1>1, <1>2, <2>3, <2>4, <2>5, <2>6 DEF Withdrawn
<1> QED
  BY <1>3, <1>4

\* What leaves workers, evaluations and jobs alone.
LEMMA RunsKeep ==
  ASSUME PushInv, UNCHANGED <<repo, evaluation, job, worker>>,
         run' \in [Pushes -> RunStates], listed' \in BOOLEAN, settle' \in Settlements,
         \A p \in Pushes : run'[p] # "none" => run[p] # "none",
         listed => listed' \/ Push!Sharing = {}, Withdrawn'
  PROVE  PushInv'
<1> USE DEF PushInv, PushTypes
<1>1. Exclusive'
  BY DEF Exclusive, Push!Sharing
<1> QED
  BY <1>1 DEF JobsKnown, Push!PendingHasJob, Push!RunsAreExplained

LEMMA RunStepKeeps ==
  ASSUME PushInv, NEW p \in Pushes, Push!RunEnds(p) \/ Push!RetryRun(p) \/ Push!SettleCancel(p)
  PROVE  PushInv'
<1> USE DEF PushInv, PushTypes
<1>1. CASE Push!RunEnds(p)
  BY <1>1, RunsKeep DEF Push!RunEnds, RunStates, Withdrawn
<1>2. CASE Push!RetryRun(p)
  BY <1>2, RunsKeep DEF Push!RetryRun, RunStates, Withdrawn
<1>3. CASE Push!SettleCancel(p)
  <2> DEFINE s == [settle EXCEPT !.todo = settle.todo \ {p}]
  <2>1. /\ s \in Settlements /\ s.pc = settle.pc /\ s.relisted = settle.relisted
        /\ s.todo = settle.todo \ {p}
    BY DEF Settlements
  <2>2. settle' = s /\ settle.pc = "cancel" /\ UNCHANGED <<repo, evaluation, job, listed, worker>>
    BY <1>3 DEF Push!SettleCancel
  <2> HIDE DEF s
  <2>3. /\ run' \in [Pushes -> RunStates] /\ \A q \in Pushes \ {p} : run'[q] = run[q]
        /\ run'[p] = IF ~listed /\ run[p] = "active" THEN "canceling" ELSE run[p]
    BY <1>3 DEF Push!SettleCancel, RunStates
  <2>4. Withdrawn'
    BY <2>1, <2>2, <2>3 DEF Withdrawn
  <2> QED
    BY <2>1, <2>2, <2>3, <2>4, RunsKeep
<1> QED
  BY <1>1, <1>2, <1>3

LEMMA ListingKeeps ==
  ASSUME PushInv,
         \/ Push!AddAccount \/ Push!RemoveAccount
         \/ Push!SettleList \/ Push!SettleEnds \/ Push!SettleCrash
  PROVE  PushInv'
<1> USE DEF PushInv, PushTypes
<1>0. settle \in Settlements /\ Push!NoSettlement \in Settlements
      /\ Push!NoSettlement.pc = "idle"
  BY DEF Settlements, Push!NoSettlement
<1>1. CASE Push!AddAccount
  <2>1. settle' \in Settlements /\ settle'.relisted /\ listed'
        /\ UNCHANGED <<repo, evaluation, job, run, worker>>
    BY <1>0, <1>1 DEF Push!AddAccount, Settlements
  <2> QED
    BY <2>1, RunsKeep DEF Withdrawn
<1>2. CASE Push!RemoveAccount
  <2>1. settle' \in Settlements /\ settle'.pc = "list" /\ listed' = FALSE
        /\ UNCHANGED <<repo, evaluation, job, run, worker>> /\ (listed => Push!Sharing = {})
    BY <1>0, <1>2 DEF Push!RemoveAccount, Settlements
  <2>2. Withdrawn'
    BY <2>1 DEF Withdrawn
  <2>3. \A p \in Pushes : run'[p] # "none" => run[p] # "none"
    BY <2>1
  <2> QED
    BY <2>1, <2>2, <2>3, RunsKeep
<1>3. CASE Push!SettleList
  <2>1. /\ settle' \in Settlements /\ settle'.pc = "cancel" /\ settle'.relisted = settle.relisted
        /\ settle'.todo = {p \in Pushes : run[p] = "active"} /\ settle.pc = "list"
        /\ UNCHANGED <<repo, evaluation, job, run, listed, worker>>
    BY <1>0, <1>3 DEF Push!SettleList, Settlements
  <2>2. settle.pc = "list" /\ settle'.pc = "cancel" /\ ~settle'.relisted => ~listed'
    BY <2>1 DEF Withdrawn
  <2>3. \A p \in Pushes : run'[p] = "active" => p \in settle'.todo
    BY <2>1
  <2>4. Withdrawn'
    BY <2>1, <2>2, <2>3 DEF Withdrawn
  <2> QED
    BY <2>1, <2>4, RunsKeep
<1>4. CASE Push!SettleEnds
  <2>1. /\ settle' \in Settlements /\ settle'.pc = "done" /\ settle'.relisted = settle.relisted
        /\ settle.pc = "cancel" /\ settle.todo = {}
        /\ UNCHANGED <<repo, evaluation, job, run, listed, worker>>
    BY <1>0, <1>4 DEF Push!SettleEnds, Settlements
  <2> QED
    BY <2>1, RunsKeep DEF Withdrawn
<1>5. CASE Push!SettleCrash
  BY <1>0, <1>5, RunsKeep DEF Push!SettleCrash, Withdrawn
<1> QED
  BY <1>1, <1>2, <1>3, <1>4, <1>5

LEMMA AcceptPushKeeps ==
  ASSUME PushInv, NEW p \in Pushes, NEW required \in BOOLEAN, Push!AcceptPush(p, required)
  PROVE  PushInv'
<1> USE DEF PushInv, PushTypes
<1>1. repo /\ evaluation[p] = "none" /\ UNCHANGED <<repo, run, listed, worker, settle>>
  BY DEF Push!AcceptPush
<1>2. PICK e \in {"Pending", "Succeeded"} : evaluation' = [evaluation EXCEPT ![p] = e]
                                            /\ (e = "Pending" <=> required)
  BY Zenon DEF Push!AcceptPush
<1>3. /\ evaluation' \in [Pushes -> Evaluations] /\ evaluation'[p] = e
      /\ \A q \in Pushes \ {p} : evaluation'[q] = evaluation[q]
  BY <1>2 DEF Evaluations, Push!Ended
<1>4. /\ job' \in [Pushes -> PushJobs] /\ \A q \in Pushes \ {p} : job'[q] = job[q]
      /\ job'[p].owner # Nobody => job'[p] = job[p]
      /\ e = "Pending" => job'[p].state = "ready"
  <2>1. CASE required
    <3> DEFINE k == [Push!NoJob EXCEPT !.state = "ready"]
    <3>1. job' = [job EXCEPT ![p] = k] /\ job \in [Pushes -> PushJobs]
      BY <2>1, Zenon DEF Push!AcceptPush
    <3>2. k \in PushJobs /\ k.state = "ready" /\ k.owner = Nobody
      BY NoJobFacts DEF Push!NoJob
    <3> HIDE DEF k
    <3> QED
      BY <3>1, <3>2
  <2>2. CASE ~required
    BY <1>2, <2>2 DEF Push!AcceptPush
  <2> QED
    BY <2>1, <2>2
<1>5. \A w \in Workers : worker[w].pc # "idle" => worker[w].push # p
  BY <1>1 DEF JobsKnown
<1>6. Push!PendingHasJob' /\ Push!RunsAreExplained'
  BY <1>1, <1>3, <1>4 DEF Push!PendingHasJob, Push!RunsAreExplained
<1>7. JobsKnown'
  BY <1>1, <1>3, <1>4, <1>5 DEF JobsKnown
<1>8. Exclusive'
  BY <1>1, <1>3, <1>5 DEF Exclusive, JobsKnown
<1> QED
  BY <1>1, <1>3, <1>4, <1>6, <1>7, <1>8 DEF Withdrawn

LEMMA DeleteRepoKeeps == ASSUME PushInv, Push!DeleteRepo PROVE PushInv'
<1> USE DEF PushInv, PushTypes
<1>1. /\ ~repo' /\ evaluation' = [p \in Pushes |-> "none"] /\ job' = [p \in Pushes |-> Push!NoJob]
      /\ run' = [p \in Pushes |-> "none"] /\ UNCHANGED <<listed, worker, settle>>
      /\ \A p \in Pushes : Push!Evaluating(p) = {}
  BY DEF Push!DeleteRepo
<1>2. repo' \in BOOLEAN /\ evaluation' \in [Pushes -> Evaluations]
      /\ job' \in [Pushes -> PushJobs] /\ run' \in [Pushes -> RunStates]
  BY <1>1, NoJobFacts DEF Push!DeleteRepo, Evaluations, RunStates
<1>3. \A p \in Pushes : evaluation'[p] = "none" /\ job'[p].state = "none" /\ job'[p].owner = Nobody
                          /\ run'[p] = "none"
  BY <1>1, NoJobFacts DEF Push!NoJob
<1>4. \A w \in Workers : worker[w].pc # "executing"
  BY <1>1 DEF Push!Evaluating, JobsKnown
<1>5. JobsKnown' /\ Exclusive'
  BY <1>1, <1>3, <1>4 DEF JobsKnown, Exclusive
<1>6. Push!PendingHasJob' /\ Push!RunsAreExplained' /\ Withdrawn'
  BY <1>1, <1>3 DEF Push!PendingHasJob, Push!RunsAreExplained, Withdrawn
<1> QED
  BY <1>1, <1>2, <1>5, <1>6

\* The clock, and the removal of completed jobs.
LEMMA JobsKeep ==
  ASSUME PushInv, UNCHANGED <<repo, evaluation, run, listed, worker, settle>>,
         job' \in [Pushes -> PushJobs],
         \A p \in Pushes :
           \/ job'[p].state = job[p].state /\ job'[p].owner = job[p].owner
           \/ job[p].state = "succeeded" /\ job'[p] = Push!NoJob
  PROVE  PushInv'
<1> USE DEF PushInv, PushTypes
<1>1. Push!NoJob.state = "none" /\ Push!NoJob.owner = Nobody
  BY DEF Push!NoJob
<1>2. JobsKnown'
  BY <1>1 DEF JobsKnown
<1>3. Push!PendingHasJob'
  BY DEF Push!PendingHasJob
<1> QED
  BY <1>2, <1>3 DEF Push!RunsAreExplained, Exclusive, Withdrawn

LEMMA TickKeepsPush == ASSUME PushInv, Push!Tick PROVE PushInv'
<1> DEFINE l(p) == [job[p] EXCEPT !.due = IF job[p].due = 0 THEN 0 ELSE job[p].due - 1]
<1>1. \A p \in Pushes : job[p] \in PushJobs
  BY DEF PushInv, PushTypes
<1>2. \A p \in Pushes : l(p) \in PushJobs /\ l(p).state = job[p].state /\ l(p).owner = job[p].owner
  BY <1>1 DEF PushJobs
<1>3. job' = [p \in Pushes |-> l(p)] /\ UNCHANGED <<repo, evaluation, run, listed, worker, settle>>
  BY Zenon DEF Push!Tick
<1> HIDE DEF l
<1>4. job' \in [Pushes -> PushJobs] /\ \A p \in Pushes : job'[p] = l(p)
  BY <1>2, <1>3
<1> QED
  BY <1>2, <1>3, <1>4, JobsKeep

LEMMA PruneJobKeeps == ASSUME PushInv, NEW p \in Pushes, Push!PruneJob(p) PROVE PushInv'
<1>1. /\ job \in [Pushes -> PushJobs] /\ job[p].state = "succeeded"
      /\ job' = [job EXCEPT ![p] = Push!NoJob]
      /\ UNCHANGED <<repo, evaluation, run, listed, worker, settle>>
  BY DEF Push!PruneJob, PushInv, PushTypes
<1> QED
  BY <1>1, NoJobFacts, JobsKeep

LEMMA PushInitInv == Push!Init => PushInv
<1> SUFFICES ASSUME Push!Init PROVE PushInv
  OBVIOUS
<1>1. PushTypes
  BY NoJobFacts, NoWorkFacts DEF Push!Init, PushTypes, Push!NoSettlement, Settlements, Evaluations,
     RunStates
<1>2. JobsKnown /\ Exclusive
  BY NoJobFacts, NoWorkFacts DEF Push!Init, JobsKnown, Exclusive, Push!NoJob
<1> QED
  BY <1>1, <1>2 DEF PushInv, Push!Init, Push!PendingHasJob, Push!RunsAreExplained, Withdrawn,
     Push!NoSettlement

LEMMA PushNextInv == PushInv /\ [Push!Next]_(Push!vars) => PushInv'
<1> SUFFICES ASSUME PushInv, [Push!Next]_(Push!vars) PROVE PushInv'
  OBVIOUS
<1>1. CASE UNCHANGED Push!vars
  BY <1>1 DEF Push!vars, PushInv, PushTypes, Push!PendingHasJob, Push!RunsAreExplained, JobsKnown,
     Exclusive, Withdrawn
<1>2. ASSUME NEW p \in Pushes,
             \/ \E required \in BOOLEAN : Push!AcceptPush(p, required)
             \/ Push!RunEnds(p) \/ Push!RetryRun(p) \/ Push!PruneJob(p) \/ Push!SettleCancel(p)
      PROVE  PushInv'
  BY <1>2, AcceptPushKeeps, RunStepKeeps, PruneJobKeeps
<1>3. ASSUME NEW w \in Workers, Push!Execution(w) \/ \E p \in Pushes : Push!Claim(w, p)
      PROVE  PushInv'
  BY <1>3, ExecutionKeeps, EvaluateKeeps, CompleteKeeps, RecordFailureKeeps, ClaimKeeps
     DEF Push!Execution
<1> QED
  BY <1>1, <1>2, <1>3, DeleteRepoKeeps, ListingKeeps, TickKeepsPush DEF Push!Next

LEMMA PushInvImplies == PushInv => PushesAreFollowed /\ WithdrawnMeansStopped
<1> SUFFICES ASSUME PushInv PROVE PushesAreFollowed /\ WithdrawnMeansStopped
  OBVIOUS
<1>1. Push!TypeOK
  BY DEF PushInv, PushTypes, Push!TypeOK, Evaluations, PushJobs, RunStates, PushWork, Settlements
<1>2. WithdrawnMeansStopped
  BY DEF PushInv, Withdrawn, WithdrawnMeansStopped, Push!WithdrawnMeansStopped
<1> QED
  BY <1>1, <1>2 DEF PushInv, PushesAreFollowed

\* No crash, lost lease or exhausted retry leaves a push pending without a job,
\* and no transaction that lost its lease leaves runs without the evaluation that
\* explains them (claim_next_ready_job(), complete_outbox_job(),
\* fail_outbox_job() in outbox.rs, mark_terminal_failure()).
THEOREM PushesFollowed == Push!Spec => []PushesAreFollowed
<1> QED
  BY PushInitInv, PushNextInv, PushInvImplies, PTL DEF Push!Spec

\* A settled withdrawal leaves no run of the owner active: a transaction that
\* still creates one holds the listing, whose deletion waits for it, and the list
\* of runs is made after that (remove_account(), native_runs/withdrawal.rs).
THEOREM WithdrawnStopped == Push!Spec => []WithdrawnMeansStopped
<1> QED
  BY PushInitInv, PushNextInv, PushInvImplies, PTL DEF Push!Spec
=============================================================================
