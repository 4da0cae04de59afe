---------------------------- MODULE TaskProvider ----------------------------
(***************************************************************************)
(* What the run coordinator relies on when it hands an attempt to the      *)
(* dispatch broker: an attempt gets at most one task, and once the broker  *)
(* has answered `stopped' or `rejected' for it (the attempt is closed) no  *)
(* task of it is executing and none ever will.  DispatchBroker implements  *)
(* this specification; CloudExecution is built on it.                      *)
(***************************************************************************)
CONSTANT Attempts

VARIABLES
  task,     \* per attempt: no task yet, a task that may execute, a task that ended
  closed    \* the attempts the broker has answered for with stopped or rejected

vars == <<task, closed>>

TaskStates == {"Absent", "Live", "Gone"}

Init ==
  /\ task = [a \in Attempts |-> "Absent"]
  /\ closed = {}

\* A start launches the attempt's task.
Launch(a) ==
  /\ task[a] = "Absent" /\ a \notin closed
  /\ task' = [task EXCEPT ![a] = "Live"]
  /\ UNCHANGED closed

\* The runtime exits, or a stop takes effect.
Finish(a) ==
  /\ task[a] = "Live"
  /\ task' = [task EXCEPT ![a] = "Gone"]
  /\ UNCHANGED closed

\* The broker answers stopped or rejected.
Close(a) ==
  /\ task[a] # "Live"
  /\ closed' = closed \cup {a}
  /\ UNCHANGED task

Next == \E a \in Attempts : Launch(a) \/ Finish(a) \/ Close(a)

Spec == Init /\ [][Next]_vars
=============================================================================
