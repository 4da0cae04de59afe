------------------------------ MODULE LogQueue ------------------------------
(***************************************************************************)
(* What the log spool promises to the threads that read a step's output    *)
(* and to the one that uploads it: a first-in first-out queue of records,  *)
(* bounded by the space they take, that can be told to drop its records    *)
(* and accept no more, and that reports an error behind the records        *)
(* accepted before it.                                                     *)
(***************************************************************************)
EXTENDS Naturals, Sequences, SequencesExt

CONSTANTS
  Records,    \* what may be sent
  Size(_),    \* the space a record takes
  Capacity,   \* the space there is
  Readers     \* how many threads send

VARIABLES queue, readers, discarding, failed, result

vars == <<queue, readers, discarding, failed, result>>

Space == FoldLeft(LAMBDA acc, r : acc + Size(r), 0, queue)

Init ==
  /\ queue = <<>> /\ readers = Readers
  /\ discarding = FALSE /\ failed = FALSE /\ result = <<"none">>

Send(r) ==
  /\ discarding \/ (~failed /\ Space + Size(r) =< Capacity)
  /\ queue' = IF discarding THEN queue ELSE Append(queue, r)
  /\ result' = <<"sent", TRUE>>
  /\ UNCHANGED <<readers, discarding, failed>>

Refuse ==
  /\ ~discarding
  /\ result' = <<"sent", FALSE>>
  /\ failed' \in {failed, TRUE}
  /\ UNCHANGED <<queue, readers, discarding>>

Fail ==
  /\ failed' = TRUE /\ result' = <<"sent", TRUE>>
  /\ UNCHANGED <<queue, readers, discarding>>

Recv ==
  /\ queue # <<>>
  /\ \/ result' = <<"chunk", Head(queue)>> /\ queue' = Tail(queue)
     \/ result' = <<"failed">> /\ UNCHANGED queue
  /\ UNCHANGED <<readers, discarding, failed>>

RecvFailure ==
  /\ queue = <<>> /\ failed
  /\ failed' = FALSE /\ result' = <<"failed">>
  /\ UNCHANGED <<queue, readers, discarding>>

RecvEnd ==
  /\ queue = <<>> /\ ~failed
  /\ result' = IF readers = 0 THEN <<"disconnected">> ELSE <<"timeout">>
  /\ UNCHANGED <<queue, readers, discarding, failed>>

Discard ==
  /\ discarding' = TRUE /\ queue' = <<>>
  /\ UNCHANGED <<readers, failed, result>>

Close ==
  /\ readers > 0 /\ readers' = readers - 1
  /\ UNCHANGED <<queue, discarding, failed, result>>

Next ==
  \/ \E r \in Records : Send(r)
  \/ Refuse \/ Fail \/ Recv \/ RecvFailure \/ RecvEnd \/ Discard \/ Close

Spec == Init /\ [][Next]_vars
=============================================================================
