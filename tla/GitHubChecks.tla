---------------------------- MODULE GitHubChecks -----------------------------
(***************************************************************************)
(* The results of GitHub's checks a merge rests on.  GitHub is read by     *)
(* webhooks, by a reconciliation loop and by merges, all at once           *)
(* (api/src/use_cases/github_check_results.rs); reads of a commit are      *)
(* numbered and only a read with a higher number replaces what is stored   *)
(* (scope-postgres/src/db/github_check_runs.rs).  A merge confirms that a  *)
(* recent read is stored, notes which one it is (its evidence), prepares   *)
(* the merge, and its transaction requires that very read to be still the  *)
(* newest and still recent (db/request_merge/evidence.rs).                 *)
(*                                                                         *)
(* One request whose checks run on a check commit: its head merged with    *)
(* main, built anew whenever main moves.  The check commit on the m-th     *)
(* main is m.  Abstracted: several checks of one commit are one status;    *)
(* the request's own changes (AutoMerge) and the commit queue              *)
(* (MergeCommitter) are left out.                                          *)
(***************************************************************************)
EXTENDS Integers

CONSTANTS
  Readers,    \* webhook deliveries and passes of the reconciliation loop
  Merges,     \* attempts to merge the request; each may read GitHub itself
  Freshness,  \* GITHUB_CHECK_MERGE_FRESHNESS_SECS
  MaxTime,    \* bound: the clock
  MaxReads,   \* bound: reads of one commit
  MaxMain     \* bound: accepted heads of main

GitHubChecksAssumption ==
  /\ Freshness \in Nat /\ MaxTime \in Nat /\ MaxReads \in Nat /\ MaxMain \in Nat
  /\ Readers \cap Merges = {}

VARIABLES
  now,         \* unix_now() of every process
  github,      \* status of each check commit on GitHub
  held,        \* ghost: when each commit last had each status before now
  connected,   \* the repository's GitHub connection
  main,        \* accepted head of main
  evaluation,  \* the request's evaluation: its state and check commit
  refresh,     \* scope_github_check_refreshes and the runs stored with it
  reader,      \* refresh_commit_checks() of each reader and merge
  merge,       \* merge_request_inner() of each merge
  landing      \* ghost: the merge that landed

vars == <<now, github, held, connected, main, evaluation, refresh, reader, merge, landing>>

-----------------------------------------------------------------------------
(* Vocabulary *)

\* Checks that are pending or failed are open: neither lets a merge pass.
Statuses == {"passed", "open"}
Commits == 0 .. MaxMain
Times == 0 .. MaxTime

\* No time: before the clock starts.
Never == -1

NoRead == [pc |-> "idle", commit |-> 0, at |-> 0, number |-> 0, got |-> "none"]
NoMerge == [pc |-> "idle", tested |-> 0, read |-> 0, base |-> 0]
NoLanding == [done |-> FALSE, at |-> 0, tested |-> 0, base |-> 0, passed |-> Never]

\* Ghost: the last moment at which commit c had status s on GitHub.
LastHeld(c, s) == IF github[c] = s THEN now ELSE held[c][s]

\* started_reads = applied_read: no read that began later is unaccounted for.
IsSettled(c) == refresh[c].started = refresh[c].applied /\ refresh[c].applied > 0

\* Mutant: a confirmation does not expire.
IsFresh_Always(at) == TRUE

\* ensure_fresh(), and the comparison of confirm_recent_github_checks().
IsFresh(at) == at + Freshness > now

\* check_commit_is_current()
IsCurrent == evaluation.tested = main

\* request_checks_outcome() is Clear.
IsClear ==
  /\ evaluation.state = "started" /\ connected /\ IsCurrent
  /\ refresh[evaluation.tested].result = "passed"

-----------------------------------------------------------------------------
(* The world *)

Tick ==
  /\ now < MaxTime /\ now' = now + 1
  /\ UNCHANGED <<github, held, connected, main, evaluation, refresh, reader, merge, landing>>

\* GitHub finishes the checks of a commit, or runs them again.
Report(c, s) ==
  /\ github[c] # s /\ c <= evaluation.tested
  /\ github' = [github EXCEPT ![c] = s]
  /\ held' = [held EXCEPT ![c][github[c]] = now]
  /\ UNCHANGED <<now, connected, main, evaluation, refresh, reader, merge, landing>>

SetConnected(b) ==
  /\ connected # b /\ connected' = b
  /\ UNCHANGED <<now, github, held, main, evaluation, refresh, reader, merge, landing>>

\* A push to main, or another request's merge.
MoveMain ==
  /\ main < MaxMain /\ ~ landing.done
  /\ main' = main + 1
  /\ UNCHANGED <<now, github, held, connected, evaluation, refresh, reader, merge, landing>>

\* rebuild_request_check_commit(): a check commit on the new main, or the
\* discovery that there is none.
RebuildCheckCommit(state) ==
  /\ evaluation.state = "started" /\ ~ IsCurrent /\ ~ landing.done
  /\ evaluation' = [state |-> state, tested |-> main]
  /\ UNCHANGED <<now, github, held, connected, main, refresh, reader, merge, landing>>

-----------------------------------------------------------------------------
(* Reads: refresh_commit_checks() *)

\* The time a read counts from is taken first.
BeginRead(r, c) ==
  reader' = [reader EXCEPT ![r] = [NoRead EXCEPT !.pc = "begun", !.commit = c, !.at = now]]

\* refresh_checks_for_delivery() and reconcile_github_checks_once(), for any
\* commit that was ever tested.
Refresh(r, c) ==
  /\ connected /\ reader[r].pc = "idle" /\ c <= evaluation.tested
  /\ BeginRead(r, c)
  /\ UNCHANGED <<now, github, held, connected, main, evaluation, refresh, merge, landing>>

\* start_github_check_read()
StartRead(r) ==
  LET c == reader[r].commit
  IN  /\ reader[r].pc = "begun" /\ refresh[c].started < MaxReads
      /\ refresh' = [refresh EXCEPT ![c].started = @ + 1]
      /\ reader' = [reader EXCEPT ![r].pc = "started", ![r].number = refresh[c].started + 1]
      /\ UNCHANGED <<now, github, held, connected, main, evaluation, merge, landing>>

\* commit_check_runs()
ListCheckRuns(r) ==
  /\ reader[r].pc = "started"
  /\ reader' = [reader EXCEPT ![r].pc = "answered", ![r].got = github[reader[r].commit]]
  /\ UNCHANGED <<now, github, held, connected, main, evaluation, refresh, merge, landing>>

\* What a merge that asked for the read does next.
Resume(r, pc) ==
  merge' = IF r \in Merges THEN [merge EXCEPT ![r].pc = pc] ELSE merge

\* The condition of apply_github_check_read().
Replaces(number, c) == number > refresh[c].applied

StoredAs(c, read) == [started |-> refresh[c].started, applied |-> read.number,
                      at |-> read.at, result |-> read.got]

ApplyRead(r) ==
  LET c == reader[r].commit
      read == reader[r]
  IN  /\ read.pc = "answered"
      /\ refresh' = IF Replaces(read.number, c)
                    THEN [refresh EXCEPT ![c] = StoredAs(c, read)]
                    ELSE refresh
      /\ reader' = [reader EXCEPT ![r] = NoRead]
      /\ Resume(r, "confirmed")
      /\ UNCHANGED <<now, github, held, connected, main, evaluation, landing>>

\* GitHub cannot be reached or refuses, the store fails, or the process dies:
\* a read that was numbered stays unapplied.
ReadFails(r) ==
  /\ reader[r].pc # "idle"
  /\ reader' = [reader EXCEPT ![r] = NoRead]
  /\ Resume(r, "idle")
  /\ UNCHANGED <<now, github, held, connected, main, evaluation, refresh, landing>>

-----------------------------------------------------------------------------
(* Merging: merge_request_inner() *)

\* confirm_recent_github_checks()
Confirm(m) ==
  LET c == evaluation.tested
      asks == evaluation.state = "started" /\ connected
      recent == IsSettled(c) /\ IsFresh(refresh[c].at)
  IN  /\ merge[m].pc = "idle" /\ ~ landing.done
      /\ IF asks /\ ~ recent
         THEN BeginRead(m, c) /\ merge' = [merge EXCEPT ![m].pc = "confirming"]
         ELSE merge' = [merge EXCEPT ![m].pc = "confirmed"] /\ UNCHANGED reader
      /\ UNCHANGED <<now, github, held, connected, main, evaluation, refresh, landing>>

\* ensure_checks_cleared()
EnsureCleared(m) ==
  /\ merge[m].pc = "confirmed"
  /\ merge' = [merge EXCEPT ![m].pc = IF IsClear THEN "cleared" ELSE "idle"]
  /\ UNCHANGED <<now, github, held, connected, main, evaluation, refresh, reader, landing>>

\* expected_evaluation() succeeds.
HasEvidence == connected /\ IsSettled(evaluation.tested)

\* prepare_merge_on(): request_merge_evidence(), and the main it merges into.
Prepare(m) ==
  /\ merge[m].pc = "cleared"
  /\ merge' = [merge EXCEPT ![m] =
       IF HasEvidence
       THEN [pc |-> "prepared", tested |-> evaluation.tested,
             read |-> refresh[evaluation.tested].applied, base |-> main]
       ELSE NoMerge]
  /\ UNCHANGED <<now, github, held, connected, main, evaluation, refresh, reader, landing>>

\* Mutant: the transaction takes the evidence of the preparation as it was.
EvidenceStands_Noted(m) == merge[m].tested = evaluation.tested

\* locked_merge_checks(): the evidence is still what the store says.
EvidenceStands(m) ==
  /\ HasEvidence
  /\ merge[m].tested = evaluation.tested
  /\ merge[m].read = refresh[evaluation.tested].applied

\* merge_one_request() up to the commit: evidence, its age, the gate, and the
\* frontier of main.
Land(m) ==
  LET c == evaluation.tested
  IN  /\ merge[m].pc = "prepared"
      /\ merge' = [merge EXCEPT ![m] = NoMerge]
      /\ IF /\ ~ landing.done /\ EvidenceStands(m) /\ IsFresh(refresh[c].at)
            /\ IsClear /\ merge[m].base = main
         THEN landing' = [done |-> TRUE, at |-> now, tested |-> c, base |-> main,
                          passed |-> LastHeld(c, "passed")]
         ELSE UNCHANGED landing
      /\ UNCHANGED <<now, github, held, connected, main, evaluation, refresh, reader>>

-----------------------------------------------------------------------------
(* Specification *)

Init ==
  /\ now = 0 /\ connected = TRUE /\ main = 0
  /\ github = [c \in Commits |-> "open"]
  /\ held = [c \in Commits |-> [s \in Statuses |-> Never]]
  /\ evaluation = [state |-> "started", tested |-> 0]
  /\ refresh = [c \in Commits |-> [started |-> 0, applied |-> 0, at |-> 0, result |-> "none"]]
  /\ reader = [r \in Readers \cup Merges |-> NoRead]
  /\ merge = [m \in Merges |-> NoMerge]
  /\ landing = NoLanding

Next ==
  \/ Tick \/ MoveMain
  \/ \E c \in Commits, s \in Statuses : Report(c, s)
  \/ \E b \in BOOLEAN : SetConnected(b)
  \/ \E s \in {"started", "invalid"} : RebuildCheckCommit(s)
  \/ \E r \in Readers, c \in Commits : Refresh(r, c)
  \/ \E r \in Readers \cup Merges :
       StartRead(r) \/ ListCheckRuns(r) \/ ApplyRead(r) \/ ReadFails(r)
  \/ \E m \in Merges : Confirm(m) \/ EnsureCleared(m) \/ Prepare(m) \/ Land(m)

Spec == Init /\ [][Next]_vars

-----------------------------------------------------------------------------
(* Properties *)

\* Every variable has its type.
TypeOK ==
  /\ now \in Times /\ connected \in BOOLEAN /\ main \in Commits
  /\ github \in [Commits -> Statuses]
  /\ held \in [Commits -> [Statuses -> Times \cup {Never}]]
  /\ evaluation \in [state : {"started", "invalid"}, tested : Commits]
  /\ refresh \in [Commits -> [started : 0 .. MaxReads, applied : 0 .. MaxReads, at : Times,
                              result : Statuses \cup {"none"}]]
  /\ reader \in [Readers \cup Merges ->
       [pc : {"idle", "begun", "started", "answered"}, commit : Commits, at : Times,
        number : 0 .. MaxReads, got : Statuses \cup {"none"}]]
  /\ merge \in [Merges -> [pc : {"idle", "confirming", "confirmed", "cleared", "prepared"},
                           tested : Commits, read : 0 .. MaxReads, base : Commits]]
  /\ landing \in [done : BOOLEAN, at : Times, tested : Commits, base : Commits,
                  passed : Times \cup {Never}]

\* What is stored for a commit is what GitHub said at some moment not before
\* the time the store gives for it, however reads overtake each other.
StoredWasTrue ==
  \A c \in Commits : refresh[c].applied > 0 =>
    LastHeld(c, refresh[c].result) >= refresh[c].at

\* A merge lands only if GitHub reported its check commit as passed less than
\* Freshness before, although results change, reads are late and the merge
\* waits between its confirmation and its transaction.
MergedOnFreshChecks ==
  landing.done => landing.passed + Freshness > landing.at

\* What lands was tested together with the main it lands on.
MergedAsTested == landing.done => landing.tested = landing.base

\* No merge outruns a newer read: when one lands, every read of its commit that
\* has a higher number than the stored one is applied or has never started,
\* so that a failure somebody has already heard of is never passed over.
NoReadIsOutrun ==
  [][(landing' # landing) =>
       \A r \in Readers \cup Merges :
         reader[r].pc \in {"started", "answered"} /\ reader[r].commit = landing'.tested =>
           reader[r].number <= refresh[landing'.tested].applied]_vars

\* Reads are applied in the order of their numbers.
ReadsApplyInOrder ==
  [][\A c \in Commits : refresh'[c].applied >= refresh[c].applied]_vars
=============================================================================
