-------------------------- MODULE MCCloudExecution --------------------------
(***************************************************************************)
(* Small instances of CloudExecution for TLC.  There are two jobs, and     *)
(* shape names what a behaviour is about: in "compete" both jobs are       *)
(* attempted once and there is one slot; in "replace" one job is attempted *)
(* twice and there is a slot for both attempts.                            *)
(***************************************************************************)
EXTENDS CloudExecution, TLC

CONSTANTS lint, pack, worker

VARIABLE shape

TwoJobs == {lint, pack}
NoNeeds == [j \in Jobs |-> {}]
OneStopper == {worker}
ShortDelays == <<1, 1, 2>>

Wide == INSTANCE CloudExecution WITH MaxConcurrency <- 2

\* Which attempts there are in either shape.
Attempted ==
  \/ shape = "compete" /\ \A j \in Jobs : job[j].last =< 1
  \/ shape = "replace" /\ \E j \in Jobs : \A k \in Jobs \ {j} : job[k].last = 0

\* A run that has ended is retried only where a replacement can still be lost.
StaysEnded ==
  run.state \in RunTerminal /\ (shape = "compete" \/ clock = MaxClock)
    => run'.state \in RunTerminal

\* A replacement is not canceled.
StaysRequested == (\E j \in Jobs : job[j].last = 2) => (run'.cancel => run.cancel)

MCInit == shape \in {"compete", "replace"} /\ CloudInit

MCNext ==
  /\ UNCHANGED shape
  /\ \/ shape = "compete" /\ CloudNext
     \/ shape = "replace" /\ Wide!CloudNext
  /\ Attempted' /\ StaysEnded /\ StaysRequested

MCSpec == MCInit /\ [][MCNext]_<<shape, cloudVars>>

Symmetry == Permutations(Jobs)
=============================================================================
