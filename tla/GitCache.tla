------------------------------ MODULE GitCache ------------------------------
(***************************************************************************)
(* The API's local Git cache of one repository: leases and eviction        *)
(* (api/src/git/cache.rs), the single-flight build coordinator             *)
(* (cache/coordinator.rs) and the three builds of the repository engine    *)
(* (repository_engine.rs): catching up, restoring into a fresh directory   *)
(* and linking a pack that was just pushed.                                *)
(*                                                                         *)
(* Requests run concurrently; every look at the directory, every critical  *)
(* section of a mutex and every change on disk is a step.  A build runs in *)
(* a task of its own and outlives the request that started it.  A Git head *)
(* is its push sequence, and main only moves forward, so a directory that  *)
(* holds head n holds every earlier one.  Abstracted: sizes and ages (any  *)
(* unleased directory may be evicted), Git commands (they succeed or       *)
(* fail), the other namespaces of the coordinator.                         *)
(***************************************************************************)
EXTENDS Integers, FiniteSets

CONSTANTS
  Requests,   \* materialize_repository() and sync_after_push() calls
  MaxHead     \* bound on the push sequence of main

GitCacheAssumption == MaxHead \in Nat \ {0} /\ IsFiniteSet(Requests)

VARIABLES
  head,     \* push sequence of the head of main, in Postgres
  dir,      \* the directory: whether it exists, the head its objects reach
            \* and the marker scope-cache-applied-frontier (0: unreadable)
  request,  \* local state of a request; it holds a lease unless idle
  build,    \* the coordinator's entry for this repository
  task,     \* the build task; it holds a lease unless idle
  torn      \* whether a write of the marker has ever failed half-way

vars == <<head, dir, request, build, task, torn>>

-----------------------------------------------------------------------------
(* Vocabulary *)

Idle == [pc |-> "idle", kind |-> "read", want |-> 0, base |-> 0]
NoDir == [present |-> FALSE, content |-> 0, applied |-> 0]
NoBuild == [active |-> FALSE, done |-> FALSE, ok |-> FALSE]
NoTask == [pc |-> "idle", kind |-> "read", want |-> 0, base |-> 0, ok |-> FALSE]

Ready(want) == dir.present /\ dir.applied >= want

\* The commits a pushed pack builds on are in the directory.
HasPrerequisites(base) == base = 0 \/ (dir.present /\ dir.content >= base)

Leased == task.pc # "idle" \/ \E t \in Requests : request[t].pc # "idle"

-----------------------------------------------------------------------------
(* Requests *)

\* A push to main is accepted.
AcceptPush ==
  /\ head < MaxHead
  /\ head' = head + 1
  /\ UNCHANGED <<dir, request, build, task, torn>>

\* materialize_repository() for a head read from the database some time ago,
\* or link_pushed_pack() for a pack whose bases are reached by head base.
Begin(t, kind, want, base) ==
  /\ request[t].pc = "idle" /\ want <= head /\ base < want
  /\ kind = "read" => base = 0
  /\ request' = [request EXCEPT ![t] = [pc |-> "check", kind |-> kind,
                                        want |-> want, base |-> base]]
  /\ UNCHANGED <<head, dir, build, task, torn>>

\* What a request does once it has been served: a read keeps the handle.
Served(r) == IF r.kind = "read" THEN [r EXCEPT !.pc = "held"] ELSE Idle

\* The head of the loop in materialize() and materialize_async().
CheckReady(t) ==
  /\ request[t].pc = "check"
  /\ request' = [request EXCEPT ![t] = IF Ready(@.want) THEN Served(@)
                                       ELSE [@ EXCEPT !.pc = "join"]]
  /\ UNCHANGED <<head, dir, build, task, torn>>

\* build_state(): the first request becomes the leader and starts the build,
\* the others follow it, also one that is complete and not yet removed.
Join(t) ==
  /\ request[t].pc = "join"
  /\ IF ~build.active
     THEN /\ build' = [NoBuild EXCEPT !.active = TRUE]
          /\ task' = [pc |-> "start", kind |-> request[t].kind, want |-> request[t].want,
                      base |-> request[t].base, ok |-> FALSE]
          /\ request' = [request EXCEPT ![t].pc = "lead"]
     ELSE /\ request' = [request EXCEPT ![t] =
                           IF ~build.done THEN [@ EXCEPT !.pc = "wait"]
                           ELSE IF build.ok THEN [@ EXCEPT !.pc = "check"]
                           ELSE Idle]
          /\ UNCHANGED <<build, task>>
  /\ UNCHANGED <<head, dir, torn>>

\* The client goes away while its request waits; a blocking link is not dropped.
Abandon(t) ==
  /\ request[t].pc \in {"wait", "lead"} /\ request[t].kind = "read"
  /\ request' = [request EXCEPT ![t] = Idle]
  /\ UNCHANGED <<head, dir, build, task, torn>>

DropHandle(t) ==
  /\ request[t].pc = "held"
  /\ request' = [request EXCEPT ![t] = Idle]
  /\ UNCHANGED <<head, dir, build, task, torn>>

-----------------------------------------------------------------------------
(* The build task *)

Goto(pc) == task' = [task EXCEPT !.pc = pc]
Fail == task' = [task EXCEPT !.pc = "publish", !.ok = FALSE]
Succeed == task' = [task EXCEPT !.pc = "publish", !.ok = TRUE]
InTask == UNCHANGED <<head, request, build>>

\* The leader looks again and then chooses its build.
StartBuild ==
  /\ task.pc = "start"
  /\ \/ Ready(task.want) /\ Succeed
     \/ /\ ~Ready(task.want) /\ task.kind = "read"
        /\ Goto(IF dir.present /\ dir.applied > 0 THEN "install" ELSE "restore")
     \/ /\ ~Ready(task.want) /\ task.kind = "link"
        /\ IF ~HasPrerequisites(task.base)
           THEN task' = [task EXCEPT !.pc = "publish", !.ok = TRUE, !.kind = "missing"]
           ELSE Goto(IF dir.present THEN "install" ELSE "restore")
  /\ InTask /\ UNCHANGED <<dir, torn>>

\* Packs are installed in the directory and its main ref is advanced.
Install ==
  /\ task.pc = "install"
  /\ dir' = [dir EXCEPT !.content = IF @ < task.want THEN task.want ELSE @]
  /\ Goto("note")
  /\ InTask /\ UNCHANGED torn

\* note_applied() truncates the marker before it writes it.
NoteTruncate ==
  /\ task.pc = "note"
  /\ dir' = [dir EXCEPT !.applied = 0]
  /\ Goto("write")
  /\ InTask /\ UNCHANGED torn

NoteWrite ==
  /\ task.pc = "write"
  /\ dir' = [dir EXCEPT !.applied = task.want]
  /\ Succeed
  /\ InTask /\ UNCHANGED torn

NoteFails ==
  /\ task.pc = "write"
  /\ torn' = TRUE
  /\ Fail
  /\ InTask /\ UNCHANGED dir

\* The repository has been built, marker and all, in a temporary directory;
\* what is at the cache path is removed before the new one is renamed to it.
RestoreReplace ==
  /\ task.pc = "restore"
  /\ dir' = NoDir
  /\ Goto("rename")
  /\ InTask /\ UNCHANGED torn

RestoreRename ==
  /\ task.pc = "rename"
  /\ dir' = [present |-> TRUE, content |-> task.want, applied |-> task.want]
  /\ Succeed
  /\ InTask /\ UNCHANGED torn

\* A Git command, a download or a rename fails, or the build panics.
BuildFails ==
  /\ task.pc \in {"start", "install", "note", "restore", "rename"}
  /\ Fail
  /\ InTask /\ UNCHANGED <<dir, torn>>

\* complete_build() stores the outcome and wakes the followers ...
Publish ==
  /\ task.pc = "publish"
  /\ build' = [build EXCEPT !.done = TRUE, !.ok = task.ok]
  /\ request' = [t \in Requests |->
                   IF request[t].pc # "wait" THEN request[t]
                   ELSE IF task.ok THEN [request[t] EXCEPT !.pc = "check"] ELSE Idle]
  /\ Goto("remove")
  /\ UNCHANGED <<head, dir, torn>>

\* ... and then removes the entry; the leader returns.  A pusher whose pack
\* lacked its prerequisites materializes the repository instead.
Remove ==
  /\ task.pc = "remove"
  /\ build' = NoBuild
  /\ request' = [t \in Requests |->
                   IF request[t].pc # "lead" THEN request[t]
                   ELSE IF ~task.ok THEN Idle
                   ELSE IF task.kind = "missing"
                   THEN [request[t] EXCEPT !.pc = "check", !.kind = "read", !.base = 0]
                   ELSE Served(request[t])]
  /\ task' = NoTask
  /\ UNCHANGED <<head, dir, torn>>

-----------------------------------------------------------------------------
(* The environment *)

\* Mutant: leases are not consulted.
Evict_Leased ==
  /\ dir.present /\ task.pc = "idle"
  /\ dir' = NoDir
  /\ UNCHANGED <<head, request, build, task, torn>>

\* prune_to() and remove(): the registry is locked while a directory without
\* users is renamed away.
Evict ==
  /\ dir.present /\ ~Leased
  /\ dir' = NoDir
  /\ UNCHANGED <<head, request, build, task, torn>>

Restart ==
  /\ Leased
  /\ request' = [t \in Requests |-> Idle]
  /\ build' = NoBuild /\ task' = NoTask
  /\ UNCHANGED <<head, dir, torn>>

Init ==
  /\ head = 1 /\ dir = NoDir /\ torn = FALSE
  /\ request = [t \in Requests |-> Idle]
  /\ build = NoBuild /\ task = NoTask

BuildStep ==
  \/ StartBuild \/ Install \/ NoteTruncate \/ NoteWrite \/ NoteFails
  \/ RestoreReplace \/ RestoreRename \/ BuildFails \/ Publish \/ Remove

Next ==
  \/ AcceptPush
  \/ \E t \in Requests :
       \/ \E kind \in {"read", "link"}, want \in 1..MaxHead, base \in 0..MaxHead :
            Begin(t, kind, want, base)
       \/ CheckReady(t) \/ Join(t) \/ Abandon(t) \/ DropHandle(t)
  \/ BuildStep
  \/ Evict \/ Restart

Spec == Init /\ [][Next]_vars

-----------------------------------------------------------------------------
(* Properties *)

Heads == 0..MaxHead

TypeOK ==
  /\ head \in 1..MaxHead /\ torn \in BOOLEAN
  /\ dir \in [present : BOOLEAN, content : Heads, applied : Heads]
  /\ request \in [Requests -> [pc : {"idle", "check", "join", "wait", "lead", "held"},
                               kind : {"read", "link"}, want : Heads, base : Heads]]
  /\ build \in [active : BOOLEAN, done : BOOLEAN, ok : BOOLEAN]
  /\ task \in [pc : {"idle", "start", "install", "note", "write", "restore", "rename",
                     "publish", "remove"},
               kind : {"read", "link", "missing"}, want : Heads, base : Heads, ok : BOOLEAN]

\* The marker never claims more than the directory holds, whichever build
\* failed, panicked or was cut off by a restart, and whatever was linked.
MarkerIsSound == dir.applied <= dir.content /\ (dir.applied > 0 => dir.present)

\* A handle stays usable for as long as it is held: its directory exists and
\* reaches the head that was asked for, while others catch up, restore, link
\* and evict.  Only after a failed write of the marker may a restore replace
\* a directory that is in use.
HandlesStayUsable ==
  \A t \in Requests : request[t].pc = "held" =>
    \/ dir.present /\ dir.content >= request[t].want
    \/ torn

\* No request waits for a build that is over: a follower always has a task that
\* will wake it.
WaitersHaveALeader ==
  (\E t \in Requests : request[t].pc = "wait") =>
    build.active /\ ~build.done /\ task.pc \notin {"idle", "remove"}

=============================================================================
