---------------------------- MODULE MCCloudLive -----------------------------
(***************************************************************************)
(* One attempt and two stop reconciliations of CloudExecution, with the    *)
(* fairness of its workers and its task.                                   *)
(***************************************************************************)
EXTENDS CloudExecution

CONSTANTS build, worker, other

OneJob == {build}
NoNeeds == [j \in Jobs |-> {}]
TwoStoppers == {worker, other}
ShortDelays == <<1, 1, 2>>

MCSpec == CloudSpec /\ CloudFairness
=============================================================================
