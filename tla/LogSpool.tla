------------------------------ MODULE LogSpool ------------------------------
(***************************************************************************)
(* LogSpool (runner-runtime/execute/spool.rs): the records between the     *)
(* threads that read a step's pipes and the uploader, kept in a file of    *)
(* fixed size used as a ring.  A record is a header (one byte for the      *)
(* stream, the others for the length) and the bytes read; either may wrap  *)
(* around the end of the file.  Every call holds the mutex, so a call is   *)
(* one action; send waits while there is no room, so having room is its    *)
(* guard.  Writes and reads of the file may fail; a failed write leaves    *)
(* any part of the record behind.                                          *)
(*                                                                         *)
(* LogQueue is what this implements: Queue decodes the used part of the    *)
(* file.                                                                   *)
(***************************************************************************)
EXTENDS Naturals, Sequences, SequencesExt

CONSTANTS
  Streams,      \* the values of the header's first byte
  Bytes,        \* the byte values of the output
  MaxLength,    \* LOG_READ_BYTES
  HeaderBytes,  \* HEADER_BYTES
  Capacity      \* LOG_SPOOL_BYTES

SpoolAssumption ==
  /\ {MaxLength, HeaderBytes, Capacity} \subseteq Nat
  /\ MaxLength > 0 /\ HeaderBytes > 1
  /\ HeaderBytes + MaxLength =< Capacity   \* asserted by send

VARIABLES
  file,        \* the bytes of the file, by offset
  readAt, writeAt, used,
  readers,     \* open readers
  failure,     \* an error is waiting to be received
  discarding,
  result       \* what the last call returned

spoolVars == <<file, readAt, writeAt, used, readers, failure, discarding, result>>

Record == [stream : Streams, bytes : UNION {[1..n -> Bytes] : n \in 1..MaxLength}]
RecordBytes(r) == HeaderBytes + Len(r.bytes)
Offsets == 0..(Capacity - 1)

\* The length is little-endian; the lengths considered fit its first byte.
HeaderOf(r) == [i \in 1..HeaderBytes |-> IF i = 1 THEN r.stream ELSE IF i = 2 THEN Len(r.bytes) ELSE 0]
Encoded(r) == HeaderOf(r) \o r.bytes

\* Mutant: what does not fit before the end of the file is lost.
Write_NoWrap(f, offset, data) ==
  [at \in Offsets |->
     IF at >= offset /\ at - offset < Len(data) THEN data[at - offset + 1] ELSE f[at]]

\* write: up to the end of the file, and the rest from its start.
Write(f, offset, data) ==
  [at \in Offsets |->
     LET i == (at + Capacity - offset) % Capacity IN IF i < Len(data) THEN data[i + 1] ELSE f[at]]

\* read
ReadBytes(offset, n) == [i \in 1..n |-> file[(offset + i - 1) % Capacity]]

\* The record at an offset, its length taken from its header.
Decode(offset) ==
  LET header == ReadBytes(offset, HeaderBytes)
  IN [stream |-> header[1],
      bytes |-> ReadBytes((offset + HeaderBytes) % Capacity, header[2])]

-----------------------------------------------------------------------------
(* The calls                                                                *)

HasRoom(r) == Capacity - used >= RecordBytes(r)

Send(r) ==
  /\ discarding \/ (HasRoom(r) /\ ~failure)
  /\ IF discarding THEN UNCHANGED <<file, writeAt, used>>
     ELSE /\ file' = Write(Write(file, writeAt, HeaderOf(r)),
                           (writeAt + HeaderBytes) % Capacity, r.bytes)
          /\ writeAt' = (writeAt + RecordBytes(r)) % Capacity
          /\ used' = used + RecordBytes(r)
  /\ result' = <<"sent", TRUE>>
  /\ UNCHANGED <<readAt, readers, failure, discarding>>

\* stop is set, or another call has failed.
SendRefused ==
  /\ ~discarding
  /\ result' = <<"sent", FALSE>>
  /\ UNCHANGED <<file, readAt, writeAt, used, readers, failure, discarding>>

\* The file takes the first n bytes of the record only.
SendFails(r, n) ==
  /\ ~discarding /\ HasRoom(r) /\ ~failure /\ n < RecordBytes(r)
  /\ file' = Write(file, writeAt, SubSeq(Encoded(r), 1, n))
  /\ failure' = TRUE /\ result' = <<"sent", FALSE>>
  /\ UNCHANGED <<readAt, writeAt, used, readers, discarding>>

\* A reader could not read its pipe.
SendFailure ==
  /\ failure' = TRUE /\ result' = <<"sent", TRUE>>
  /\ UNCHANGED <<file, readAt, writeAt, used, readers, discarding>>

DiscardOutput ==
  /\ discarding' = TRUE /\ used' = 0 /\ readAt' = writeAt
  /\ UNCHANGED <<file, writeAt, readers, failure, result>>

CloseReader ==
  /\ readers > 0 /\ readers' = readers - 1
  /\ UNCHANGED <<file, readAt, writeAt, used, failure, discarding, result>>

\* recv_timeout with something in the file.
Recv ==
  /\ used > 0
  /\ LET r == Decode(readAt) IN
       \/ /\ Len(r.bytes) =< MaxLength /\ r.stream \in Streams
          /\ readAt' = (readAt + RecordBytes(r)) % Capacity
          /\ used' = used - RecordBytes(r)
          /\ result' = <<"chunk", r>>
       \/ /\ result' = <<"failed">>
          /\ UNCHANGED <<readAt, used>>
  /\ UNCHANGED <<file, writeAt, readers, failure, discarding>>

\* recv_timeout with nothing in it: an error, the end, or a timeout.
RecvNothing ==
  /\ used = 0
  /\ failure' = FALSE
  /\ result' = IF failure THEN <<"failed">>
               ELSE IF readers = 0 THEN <<"disconnected">> ELSE <<"timeout">>
  /\ UNCHANGED <<file, readAt, writeAt, used, readers, discarding>>

-----------------------------------------------------------------------------
(* The specification                                                        *)

Init ==
  /\ file = [at \in Offsets |-> 0]
  /\ readAt = 0 /\ writeAt = 0 /\ used = 0
  /\ readers = 2 /\ failure = FALSE /\ discarding = FALSE /\ result = <<"none">>

Next ==
  \/ \E r \in Record : Send(r) \/ \E n \in 0..(RecordBytes(r) - 1) : SendFails(r, n)
  \/ SendRefused \/ SendFailure \/ DiscardOutput \/ CloseReader
  \/ Recv \/ RecvNothing

Spec == Init /\ [][Next]_spoolVars

-----------------------------------------------------------------------------
(* Properties                                                               *)

TypeOK ==
  /\ file \in [Offsets -> Streams \cup Bytes \cup (0..MaxLength)]
  /\ readAt \in Offsets /\ writeAt \in Offsets /\ used \in 0..Capacity
  /\ readers \in 0..2 /\ failure \in BOOLEAN /\ discarding \in BOOLEAN
  /\ (readAt + used) % Capacity = writeAt

\* The records in the last u bytes before writeAt.
Queue ==
  LET from[u \in 0..Capacity] ==
        IF u = 0 THEN <<>>
        ELSE LET r == Decode((writeAt + Capacity - u) % Capacity)
             IN IF RecordBytes(r) > u THEN <<>> ELSE <<r>> \o from[u - RecordBytes(r)]
  IN from[used]

Abstract == INSTANCE LogQueue WITH
  Records <- Record, Size <- RecordBytes, Readers <- 2,
  queue <- Queue, failed <- failure

\* The ring is a bounded first-in first-out queue: every record is received once,
\* whole and in order, wherever it lies across the end of the file, whether the file
\* is exactly full, and whatever a failed write left behind it.
IsAQueue == Abstract!Spec
=============================================================================
