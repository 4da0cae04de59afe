--------------------------- MODULE MCCacheService ---------------------------
(***************************************************************************)
(* CacheService for TLC, in five shapes, which say who takes part in a     *)
(* behaviour and when time may pass:                                       *)
(*   lag: an attempt whose requests take time, and a replica whose passes  *)
(*     may take for ever;                                                  *)
(*   replicas: two replicas and an attempt, whose steps interleave as they *)
(*     like but take no time;                                              *)
(*   takeover: two replicas whose deletions in the bucket may outlive      *)
(*     their claims;                                                       *)
(*   room: a replica and an attempt with more objects than fit;            *)
(*   race: two attempts that store different objects.                      *)
(***************************************************************************)
EXTENDS CacheService, TLC

CONSTANTS i1, i2, i3, o1, o2, o3, c1, c2, c3, w1, w2, w3

VARIABLE shape

Attempts == IF shape = "race" THEN {c1, c2} ELSE {c3}
Replicas ==
  CASE shape \in {"lag", "room"} -> {w3} [] shape = "race" -> {} [] OTHER -> {w1, w2}
Named == IF shape = "takeover" THEN {i3} ELSE {i1, i2}
Stored == IF shape \in {"room", "race"} THEN {o1, o2} ELSE {o3}

Quiet == client[c3].pc \in {"idle", "upload"}
NoPass == \A w \in Replicas : rec[w].pc = "idle"

\* Where a pass waits for the bucket.
Waits(w) == rec[w].pc \in {"idle", "cleanup", "delete"}

TimePasses ==
  CASE shape = "lag" -> now < 4
    [] shape = "replicas" -> now < 4 /\ Quiet /\ NoPass
    [] shape = "takeover" -> Quiet /\ (\A w \in Replicas : Waits(w))
    [] shape = "room" -> now < 3 /\ Quiet /\ NoPass
    [] OTHER -> now < 1

MCInit == Init /\ shape \in {"lag", "replicas", "takeover", "room", "race"}

\* In a takeover the attempt and the passes go on only while the others wait.
MCNext ==
  /\ UNCHANGED shape
  /\ \/ TimePasses /\ Tick
     \/ \E c \in Attempts :
          /\ shape = "takeover" => \A w \in Replicas : Waits(w)
          /\ ClientStep(c)
          /\ client'[c].object \in Stored \cup {"none"} /\ client'[c].identity \in Named \cup {"none"}
     \/ \E w \in Replicas :
          /\ shape = "takeover" => Quiet /\ \A v \in Replicas \ {w} : Waits(v)
          /\ PassStep(w) \/ EndPass(w)

MCSpec == MCInit /\ [][MCNext]_<<shape, vars>>

Symmetry == Permutations({i1, i2}) \cup Permutations({o1, o2}) \cup Permutations({c1, c2})
              \cup Permutations({w1, w2})
=============================================================================
