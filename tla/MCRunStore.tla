----------------------------- MODULE MCRunStore -----------------------------
(***************************************************************************)
(* A small instance of RunStore for TLC: two jobs, of which one needs the  *)
(* other.                                                                  *)
(***************************************************************************)
EXTENDS RunStore

CONSTANTS build, test

ChainJobs == {build, test}
ChainNeeds == [j \in ChainJobs |-> IF j = test THEN {build} ELSE {}]

\* The delay table 10, 30, 60 s scaled down to the explored clock.
ShortDelays == <<1, 1, 2>>

\* Bound on the explored state: one attempt fewer than both jobs may use up.
FewAttempts == job[build].last + job[test].last < 2 * MaxRunAttempts
=============================================================================
