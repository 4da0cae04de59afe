----------------------------- MODULE MCAutoMerge -----------------------------
(***************************************************************************)
(* What lets a merge happen: small instances for TLC of AutoMerge, one     *)
(* with two reconcilers at once and one with two intents, and of           *)
(* GitHubChecks, one in which time passes and one in which main moves.     *)
(* The modules share no state; part names the instance a behaviour is of,  *)
(* and the variables of the other module stay as they are initially.       *)
(***************************************************************************)
EXTENDS MergeConditions, TLC

CONSTANTS u1, r1, r2, d1, m1

VARIABLE part

checkVars ==
  <<now, github, held, connected, main, evaluation, refresh, reader, merge, mergeLanding>>
mcVars == <<part, vars, checkVars>>

\* Two reconcilers work on one intent, or one at a time on two.
TakesPart ==
  \/ part = "claims" /\ Created \subseteq {1}
  \/ /\ part = "intents" /\ request.ci = "native"
     /\ \E r \in Reconcilers : \A q \in Reconcilers \ {r} : reconciler[q].pc = "idle"

\* Time passes, or main moves.
ChecksTakePart ==
  \/ part = "reads" /\ main = 0
  \/ part = "mains" /\ now = 0 /\ \A c \in Checks!Commits : refresh[c].started =< 1

MCInit ==
  /\ Init /\ Checks!Init
  /\ \/ part \in {"claims", "intents"} /\ TakesPart
     \/ part \in {"reads", "mains"} /\ request.stack = "main" /\ request.ci = "github"

MCNext ==
  /\ UNCHANGED part
  /\ \/ part \in {"claims", "intents"} /\ Next /\ TakesPart' /\ UNCHANGED checkVars
     \/ part \in {"reads", "mains"} /\ Checks!Next /\ ChecksTakePart' /\ UNCHANGED vars

MCSpec == MCInit /\ [][MCNext]_mcVars

Symmetry == Permutations({r1, r2})
=============================================================================
