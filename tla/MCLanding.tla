------------------------------ MODULE MCLanding ------------------------------
(***************************************************************************)
(* Small instances of the modules behind the merge button, for TLC: the    *)
(* group commit of merges (MergeCommitter), the reconcilers that merge for *)
(* somebody (AutoMerge) and what an accepted push sets going               *)
(* (PushTriggers).  They share no state, so every behaviour is of one of   *)
(* them, which part names; the others stay as they are initially.          *)
(***************************************************************************)
EXTENDS Landing

CONSTANTS a1, a2, u1, r1, r2, p1, w1, w2

VARIABLES part, request, checks, access, intents, reconciler, manual, landing

Auto == INSTANCE AutoMerge WITH
  Actors <- {u1}, Reconcilers <- {r1, r2}, Providers <- {"native"},
  MaxRevisions <- 1, MaxIntents <- 1

autoVars == <<request, checks, access, intents, reconciler, manual, landing>>
pushVars == <<repo, evaluation, job, run, listed, worker, settle>>
mcVars == <<part, vars, autoVars, pushVars>>

MCInit ==
  /\ part \in {"commit", "auto", "push"} /\ Init /\ Auto!Init /\ Push!Init
  /\ part # "auto" => request.stack = "main"

MCNext ==
  /\ UNCHANGED part
  /\ \/ part = "commit" /\ Next /\ UNCHANGED <<autoVars, pushVars>>
     \/ part = "auto" /\ Auto!Next /\ UNCHANGED <<vars, pushVars>>
     \/ part = "push" /\ Push!Next /\ UNCHANGED <<vars, autoVars>>

\* A leader task runs until it leaves; Postgres grants a free advisory lock.
CommitFairness == \A p \in Processes : WF_vars(part = "commit" /\ Lead(p))

\* The loop of BackgroundWork keeps running and time passes.
AutoFairness ==
  LET on == part = "auto" IN
  /\ WF_autoVars(on /\ Auto!Tick)
  /\ \A r \in {r1, r2} : WF_autoVars(on /\ Auto!Claim(r)) /\ WF_autoVars(on /\ Auto!Reconcile(r))

\* Control loops poll for ever, and every execution ends or fails.
PushFairness ==
  LET on == part = "push" IN
  /\ WF_pushVars(on /\ Push!Tick)
  /\ \A w \in {w1, w2} : WF_pushVars(on /\ Push!Execution(w))
  /\ WF_pushVars(on /\ \E w \in {w1, w2} : Push!Claim(w, p1))

MCSpec ==
  /\ MCInit /\ [][MCNext]_mcVars
  /\ CommitFairness /\ AutoFairness /\ PushFairness

-----------------------------------------------------------------------------
(* What the three have in common *)

\* Nobody waits for ever: every merge is answered, every decided automatic merge
\* ends and every push is evaluated, once passes and executions go well.
LandingEnds == MergesAreAnswered /\ Auto!IntentsEnd /\ Push!EvaluationsEnd
=============================================================================
