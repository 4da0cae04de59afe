----------------------------- MODULE MCRunLogs -----------------------------
(***************************************************************************)
(* The safety of a run's logs from the pipes of its steps to the client:   *)
(* small instances of RunLogs and StepSupervisor for TLC, two of each.     *)
(* The modules share no state; part names the instance a behaviour is of,  *)
(* and the variables of the other module stay as they are initially.       *)
(***************************************************************************)
EXTENDS RunLogs

CONSTANTS a1, a2, a3, q1, q2

VARIABLES
  part,
  sup, group, written, pipe, reader, spool, flags, up, wire, verdict, store

\* The second chunk fills a limit of 2 bytes exactly, the third overflows it.
Chunks == <<1, 1, 2>>

\* Two attempts that send one chunk each.
Pair == INSTANCE RunLogs WITH
  Attempts <- {a1, a2}, ChunkBytes <- <<1>>,
  MaxRollbacks <- 0, MaxDisconnects <- 1, MaxLosses <- 1

\* Two steps that write to one stream, and one step that writes to two.
Sequence == INSTANCE StepSupervisor WITH
  NumSteps <- 2, Streams <- {"stdout"}, MaxWrites <- 1, SpoolRecords <- 1,
  UploadTries <- 2, MaxLogChunks <- 2
TwoStreams == INSTANCE StepSupervisor WITH
  NumSteps <- 1, Streams <- {"stdout", "stderr"}, MaxWrites <- 1, SpoolRecords <- 1,
  UploadTries <- 1, MaxLogChunks <- 1

stepVars == <<sup, group, written, pipe, reader, spool, flags, up, wire, verdict, store>>
mcVars == <<part, vars, stepVars>>

MCInit ==
  \/ part = "chunks" /\ Init /\ Sequence!Init
  \/ part = "pair" /\ Pair!Init /\ Sequence!Init
  \/ part = "sequence" /\ Init /\ Sequence!Init
  \/ part = "streams" /\ Init /\ TwoStreams!Init

MCNext ==
  /\ UNCHANGED part
  /\ \/ part = "chunks" /\ Next /\ UNCHANGED stepVars
     \/ part = "pair" /\ Pair!Next /\ UNCHANGED stepVars
     \/ part = "sequence" /\ Sequence!Next /\ UNCHANGED vars
     \/ part = "streams" /\ TwoStreams!Next /\ UNCHANGED vars

MCSpec == MCInit /\ [][MCNext]_mcVars

Symmetry == Permutations({q1, q2}) \cup Permutations({a1, a2})

-----------------------------------------------------------------------------
(* The properties of the instance a behaviour is of *)

\* The log of an attempt is what its runtime sent, once and in order, cut
\* exactly where the limit is met.
LogStoredAsSent ==
  /\ part = "chunks" => TypeOK /\ StoredAsSent /\ TruncatedAtTheLimit
  /\ part = "pair" => Pair!TypeOK /\ Pair!StoredAsSent /\ Pair!TruncatedAtTheLimit

\* At any time the client has received exactly the rows up to its cursor; a
\* stream that has ended, or that waits for nothing that is still to come, has
\* delivered every row.
LogIsDelivered ==
  /\ part = "chunks" => NothingSkipped /\ EndedMeansComplete /\ NoLostWakeup
  /\ part = "pair" => Pair!NothingSkipped /\ Pair!EndedMeansComplete /\ Pair!NoLostWakeup

\* The stored log of a step is at all times a prefix of its own output: the
\* processes that write it never outlive the step.
StepLogIsItsOutput ==
  /\ part = "sequence" => Sequence!StoredIsPrefix /\ Sequence!GroupBelongsToStep
  /\ part = "streams" => TwoStreams!StoredIsPrefix /\ TwoStreams!GroupBelongsToStep
=============================================================================
