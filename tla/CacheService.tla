---------------------------- MODULE CacheService ----------------------------
(***************************************************************************)
(* The run caches of one repository: references from exact identities to   *)
(* stored objects, upload leases, the deletion queue, and the bucket the   *)
(* bytes are in.  Clients are attempts that restore, prepare, upload and   *)
(* commit; reconcilers are the API replicas that expire references and     *)
(* uploads and delete what nothing refers to.                              *)
(*                                                                         *)
(* A transaction that holds the repository's lock (lock_repository) is one *)
(* step, and so is one that only changes the row it has locked.            *)
(* expire_references takes no lock but those of the rows it deletes: it is *)
(* two steps, what its statements read and its commit.  Requests and       *)
(* passes use the time at which they started.                              *)
(*                                                                         *)
(* Abstracted: every object has size 1; all identities are in one          *)
(* compatibility group, and a restore that finds no exact reference may    *)
(* take any other; an upload's row is found under its object, as the       *)
(* unique index on object_key allows.  A deletion in the bucket takes      *)
(* effect before its reply.  The table of orphan uploads, which nothing in *)
(* the code fills, is left out.                                            *)
(***************************************************************************)
EXTENDS Integers, FiniteSets, FiniteSetsExt

CONSTANTS
  Identities,     \* exact identity digests
  Objects,        \* checksums
  Clients,        \* attempts with a cache request in hand
  Reconcilers,    \* API replicas
  ReferenceTTL,   \* CACHE_REFERENCE_TTL_SECONDS
  LeaseTerm,      \* UPLOAD_LEASE_SECONDS
  Grace,          \* DELETION_GRACE_SECONDS
  UrlTTL,         \* SIGNED_URL_TTL_SECONDS
  RetryAfter,     \* RETRY_SECONDS, and the lease of an upload's cleanup
  Budget,         \* MAX_REPOSITORY_CACHE_BYTES
  BatchSize,      \* BATCH_SIZE, for references
  MaxLag,         \* how long a request may take
  MaxUploads,     \* bound on the uploads
  Horizon         \* bound on the clock

Terms == {ReferenceTTL, LeaseTerm, Grace, UrlTTL, RetryAfter}

ASSUME CacheAssumption ==
  /\ IsFiniteSet(Objects) /\ IsFiniteSet(Identities)
  /\ Terms \subseteq Nat \ {0} /\ {Budget, BatchSize, MaxLag, MaxUploads, Horizon} \subseteq Nat
  /\ "none" \notin Objects \cup Identities \cup Reconcilers

\* The code has 7 days, 30 minutes, 1 hour, 15 minutes and 5 minutes for Terms.
ASSUME TimingAssumption ==
  /\ UrlTTL + MaxLag =< Grace /\ UrlTTL + MaxLag =< ReferenceTTL
  /\ LeaseTerm + MaxLag =< Grace

VARIABLES
  now,
  refs,      \* scope_cache_references
  objects,   \* scope_cache_objects
  queue,     \* scope_cache_deletion_queue; a claim says, as history, which pass made it last
  uploads,   \* scope_cache_uploads
  issued,    \* number of upload ids given out
  bucket,    \* the objects whose bytes are in object storage
  urls,      \* when the last download URL of each object ends
  late,      \* objects whose bytes arrived after their lease was gone (history)
  overtaken, \* objects whose deletion went on without its claim (history)
  client, rec

rows == <<refs, objects, queue, uploads, issued>>
store == <<bucket, urls, late, overtaken>>
vars == <<now, rows, store, client, rec>>

NoRef == [object |-> "none", accessed |-> -1, expires |-> -1]
NoEntry == [claim |-> "none", notBefore |-> -1]
NoUpload == [id |-> 0, identity |-> "none", state |-> "none", expires |-> -1,
             generation |-> 0, lease |-> -1]
Idle == [pc |-> "idle", identity |-> "none", object |-> "none", id |-> 0, at |-> -1]
Resting == [pc |-> "idle", at |-> -1, locked |-> {}, queued |-> {}, todo |-> {}, done |-> {}]

-----------------------------------------------------------------------------
(* References                                                               *)

Present(r) == {i \in Identities : r[i] # NoRef}
Referenced(r) == {r[i].object : i \in Present(r)}
Without(r, gone) == [i \in Identities |-> IF i \in gone THEN NoRef ELSE r[i]]

\* CacheReference::is_expired_at
Expired(r, at) == {i \in Present(r) : r[i].expires =< at}

\* CacheReference::point_to
PointTo(o, at) == [object |-> o, accessed |-> at, expires |-> at + ReferenceTTL]

\* insert_reference
Inserted(r, i, o, at) == IF r[i] = NoRef THEN [r EXCEPT ![i] = PointTo(o, at)] ELSE r

\* Mutant: an object is due at once.
QueueIfUnreferenced_NoGrace(q, left, gone, at) ==
  [o \in Objects |-> IF o \in (gone \cap objects) \ Referenced(left)
                     THEN [q[o] EXCEPT !.notBefore = Max({@, at})] ELSE q[o]]

\* queue_if_unreferenced, of the objects whose references a transaction removed
QueueIfUnreferenced(q, left, gone, at) ==
  [o \in Objects |-> IF o \in (gone \cap objects) \ Referenced(left)
                     THEN [q[o] EXCEPT !.notBefore = Max({@, at + Grace})] ELSE q[o]]

Dequeued(q, o) == [q EXCEPT ![o] = NoEntry]

\* The row locks of the transactions that expire references.
Locked == UNION {rec[w].locked : w \in Reconcilers}

-----------------------------------------------------------------------------
(* Room for an upload                                                       *)

\* active_repository_bytes
ActiveBytes(r) ==
  Cardinality(Referenced(r) \cap objects)
    + Cardinality({o \in Objects : uploads[o].state \in {"active", "deleting"}})

Fits(r) == ActiveBytes(r) + 1 =< Budget

\* make_repository_room: the references evicted, least recently used first and no more than needed
Evictions(r, protected) ==
  {v \in SUBSET (Present(r) \ {protected}) :
     /\ Fits(Without(r, v))
     /\ \A i \in v : \A j \in Present(r) \ (v \cup {protected}) : r[i].accessed =< r[j].accessed
     /\ v # {} => \E last \in v : /\ ~Fits(Without(r, v \ {last}))
                                  /\ \A i \in v : r[i].accessed =< r[last].accessed}

-----------------------------------------------------------------------------
(* Requests of an attempt                                                   *)

Goes(c, pc) == client' = [client EXCEPT ![c].pc = pc]
Ends(c) == client' = [client EXCEPT ![c] = Idle]

Ask(c, what, i, o) ==
  /\ client[c].pc = "idle"
  /\ client' = [client EXCEPT ![c] = [Idle EXCEPT !.pc = what, !.identity = i, !.object = o,
                                                 !.at = now]]
  /\ UNCHANGED <<now, rows, store, rec>>

\* The exact reference, or else one of the same compatibility group.
Candidates(i, at) ==
  LET live == Present(refs) \ Expired(refs, at)
  IN  IF i \in live THEN {i} ELSE live

Restore(c) ==
  LET at == client[c].at IN
  /\ client[c].pc = "restore"
  /\ \E i \in Candidates(client[c].identity, at) \ Locked :
       /\ refs[i].accessed =< at
       /\ refs' = [refs EXCEPT ![i] = PointTo(@.object, at)]
       /\ urls' = [urls EXCEPT ![refs[i].object] = Max({@, now + UrlTTL})]
  /\ Ends(c)
  /\ UNCHANGED <<now, objects, queue, uploads, issued, bucket, late, overtaken, rec>>

\* expire_repository_references, which waits for the rows others have locked
Kept(at) == Without(refs, Expired(refs, at))
QueueAfterExpiry(at) ==
  QueueIfUnreferenced(queue, Kept(at), {refs[i].object : i \in Expired(refs, at)}, at)

Preparing(c) ==
  /\ client[c].pc = "prepare"
  /\ (Expired(refs, client[c].at) \cup {client[c].identity}) \cap Locked = {}

\* The identity has its object.
PrepareCurrent(c) ==
  LET at == client[c].at IN
  /\ Preparing(c)
  /\ Kept(at)[client[c].identity] # NoRef
  /\ refs' = Kept(at) /\ queue' = QueueAfterExpiry(at)
  /\ Ends(c)
  /\ UNCHANGED <<now, objects, uploads, issued, store, rec>>

DeletionIsClaimed(o) == queue[o].claim # "none"

\* The object is stored: the identity refers to it.
PrepareStored(c) ==
  LET at == client[c].at
      i == client[c].identity
      o == client[c].object
  IN
  /\ Preparing(c)
  /\ Kept(at)[i] = NoRef /\ o \in objects /\ ~DeletionIsClaimed(o)
  /\ refs' = Inserted(Kept(at), i, o, at)
  /\ queue' = Dequeued(QueueAfterExpiry(at), o)
  /\ Ends(c)
  /\ UNCHANGED <<now, objects, uploads, issued, store, rec>>

\* The unique indexes: one upload of an object, one unfinished upload of an identity.
UploadConflicts(i, o) ==
  \/ uploads[o] # NoUpload
  \/ \E p \in Objects : uploads[p].identity = i /\ uploads[p].state \in {"active", "deleting"}

PrepareUpload(c) ==
  LET at == client[c].at
      i == client[c].identity
      o == client[c].object
  IN
  /\ Preparing(c)
  /\ Kept(at)[i] = NoRef /\ o \notin objects /\ ~UploadConflicts(i, o)
  /\ issued < MaxUploads
  /\ \E v \in Evictions(Kept(at), i) :
       /\ v \cap Locked = {}
       /\ refs' = Without(Kept(at), v)
       /\ queue' = QueueIfUnreferenced(QueueAfterExpiry(at), Without(Kept(at), v),
                                       {refs[j].object : j \in v}, at)
  /\ issued' = issued + 1
  /\ uploads' = [uploads EXCEPT ![o] = [NoUpload EXCEPT !.id = issued', !.identity = i,
                                          !.state = "active", !.expires = at + LeaseTerm]]
  /\ late' = late \ {o}
  /\ client' = [client EXCEPT ![c].pc = "upload", ![c].id = issued']
  /\ UNCHANGED <<now, objects, bucket, urls, overtaken, rec>>

\* The client puts the bytes, whatever has become of its lease.
Put(c) ==
  LET o == client[c].object IN
  /\ client[c].pc = "upload" /\ o \notin bucket
  /\ bucket' = bucket \cup {o}
  /\ late' = IF uploads[o].id = client[c].id THEN late ELSE late \cup {o}
  /\ UNCHANGED <<now, rows, urls, overtaken, client, rec>>

AskCommit(c) ==
  /\ client[c].pc = "upload"
  /\ client' = [client EXCEPT ![c].pc = "commit", ![c].at = now]
  /\ UNCHANGED <<now, rows, store, rec>>

\* live_upload
Live(c) ==
  /\ uploads[client[c].object].id = client[c].id
  /\ uploads[client[c].object].state \in {"active", "committed"}

\* verify_uploaded_object
Verify(c) ==
  /\ client[c].pc = "commit" /\ Live(c) /\ client[c].object \in bucket
  /\ Goes(c, "verified")
  /\ UNCHANGED <<now, rows, store, rec>>

Committing(c) == client[c].pc = "verified" /\ Live(c) /\ client[c].identity \notin Locked

\* The client may repeat its request, as the store allows for.
CommitReplied(c) == Ends(c) \/ Goes(c, "upload")

\* Mutant: the last commit wins.
Committed_Overwrites(c) ==
  LET at == client[c].at
      i == client[c].identity
      o == client[c].object
  IN
  /\ Committing(c) /\ uploads[o].state = "active" /\ at < uploads[o].expires
  /\ objects' = objects \cup {o}
  /\ refs' = [refs EXCEPT ![i] = PointTo(o, at)]
  /\ uploads' = [uploads EXCEPT ![o].state = "committed"]
  /\ queue' = Dequeued(queue, o)
  /\ CommitReplied(c)
  /\ UNCHANGED <<now, issued, store, rec>>

Committed(c) ==
  LET at == client[c].at
      i == client[c].identity
      o == client[c].object
  IN
  /\ Committing(c) /\ uploads[o].state = "active"
  /\ refs[i] = NoRef /\ at < uploads[o].expires
  /\ objects' = objects \cup {o}
  /\ refs' = Inserted(refs, i, o, at)
  /\ uploads' = [uploads EXCEPT ![o].state = "committed"]
  /\ queue' = Dequeued(queue, o)
  /\ CommitReplied(c)
  /\ UNCHANGED <<now, issued, store, rec>>

\* Another object became the identity's.  (Its own cannot have: it was not stored at the time of
\* prepare_upload, and the index on object_key lets nobody else store it.)
CommitStale(c) ==
  LET o == client[c].object IN
  /\ Committing(c) /\ uploads[o].state = "active"
  /\ refs[client[c].identity] # NoRef /\ refs[client[c].identity].object # o
  /\ uploads' = [uploads EXCEPT ![o].state = "deleting", ![o].lease = client[c].at]
  /\ CommitReplied(c)
  /\ UNCHANGED <<now, refs, objects, queue, issued, store, rec>>

\* A miss, an error, a commit that was already made, a client that gives up: no row changes.
NothingChanged(c) ==
  /\ client[c].pc # "idle"
  /\ Ends(c)
  /\ UNCHANGED <<now, rows, store, rec>>

-----------------------------------------------------------------------------
(* A pass of the reconciler                                                 *)

Step(w, pc) == rec' = [rec EXCEPT ![w].pc = pc]

StartPass(w) ==
  /\ rec[w].pc = "idle"
  /\ rec' = [rec EXCEPT ![w] = [Resting EXCEPT !.pc = "references", !.at = now]]
  /\ UNCHANGED <<now, rows, store, client>>

\* FOR UPDATE SKIP LOCKED LIMIT, in the order in which the references expire
Batches(due) ==
  {b \in SUBSET due : /\ Cardinality(b) = Min({BatchSize, Cardinality(due)})
                      /\ \A i \in b, j \in due \ b : refs[i].expires =< refs[j].expires}

\* expire_references: the rows it locks, and what its inserts into the queue find
ExpireReferences(w) ==
  /\ rec[w].pc = "references"
  /\ \E due \in Batches(Expired(refs, rec[w].at) \ Locked) :
       rec' = [rec EXCEPT
                 ![w].pc = "expiring", ![w].locked = due,
                 ![w].queued = {refs[i].object : i \in due} \ Referenced(Without(refs, due))]
  /\ UNCHANGED <<now, rows, store, client>>

ReferencesExpired(w) ==
  LET left == Without(refs, rec[w].locked) IN
  /\ rec[w].pc = "expiring"
  /\ refs' = left
  /\ queue' = QueueIfUnreferenced(queue, [i \in Identities |-> NoRef], rec[w].queued, rec[w].at)
  /\ rec' = [rec EXCEPT ![w].pc = "committed", ![w].locked = {}, ![w].queued = {}]
  /\ UNCHANGED <<now, objects, uploads, issued, store, client>>

ExpireCommittedUploads(w) ==
  /\ rec[w].pc = "committed"
  /\ uploads' = [o \in Objects |->
                   IF uploads[o].state = "committed" /\ uploads[o].expires =< rec[w].at
                   THEN NoUpload ELSE uploads[o]]
  /\ Step(w, "uploads")
  /\ UNCHANGED <<now, refs, objects, queue, issued, store, client>>

DueUploads(at) ==
  {o \in Objects : \/ uploads[o].state = "active" /\ uploads[o].expires =< at
                   \/ uploads[o].state = "deleting" /\ uploads[o].lease =< at}

ExpireUploads(w) ==
  LET due == DueUploads(rec[w].at)
      claimed == [o \in Objects |->
                    IF o \in due THEN [uploads[o] EXCEPT !.state = "deleting",
                                         !.generation = @ + 1, !.lease = rec[w].at + RetryAfter]
                    ELSE uploads[o]]
  IN
  /\ rec[w].pc = "uploads"
  /\ uploads' = claimed
  /\ rec' = [rec EXCEPT ![w].pc = "cleanup",
                        ![w].todo = {[object |-> o, id |-> claimed[o].id,
                                      generation |-> claimed[o].generation] : o \in due}]
  /\ UNCHANGED <<now, refs, objects, queue, issued, store, client>>

\* cleanup_upload finds its row, and holds it until the end.
HoldsCleanup(k) ==
  /\ uploads[k.object].id = k.id /\ uploads[k.object].state = "deleting"
  /\ uploads[k.object].generation = k.generation

\* A deletion that fails or takes too long may have had its effect.
CleanupUpload(w, k, ok) ==
  /\ rec[w].pc = "cleanup" /\ k \in rec[w].todo
  /\ rec' = [rec EXCEPT ![w].todo = @ \ {k}]
  /\ IF HoldsCleanup(k)
       THEN /\ bucket' \in (IF ok THEN {bucket \ {k.object}} ELSE {bucket, bucket \ {k.object}})
            /\ uploads' = IF ok THEN [uploads EXCEPT ![k.object] = NoUpload] ELSE uploads
       ELSE UNCHANGED <<bucket, uploads>>
  /\ UNCHANGED <<now, refs, objects, queue, issued, urls, late, overtaken, client>>

CleanupDone(w) ==
  /\ rec[w].pc = "cleanup" /\ rec[w].todo = {}
  /\ Step(w, "deletions")
  /\ UNCHANGED <<now, rows, store, client>>

InQueue(o) == queue[o] # NoEntry

Deletable(o, at) ==
  InQueue(o) /\ queue[o].notBefore =< at /\ o \in objects /\ o \notin Referenced(refs)

ClaimDeletion(w, o) ==
  /\ rec[w].pc = "deletions" /\ Deletable(o, rec[w].at)
  /\ queue' = [queue EXCEPT ![o] = [claim |-> w, notBefore |-> rec[w].at + RetryAfter]]
  /\ rec' = [rec EXCEPT ![w].todo = @ \cup {o}]
  /\ UNCHANGED <<now, refs, objects, uploads, issued, store, client>>

DeletionsClaimed(w) ==
  /\ rec[w].pc = "deletions"
  /\ Step(w, "delete")
  /\ UNCHANGED <<now, rows, store, client>>

\* A claim ends RETRY_SECONDS after its pass began, and another pass may then take it over; the
\* rest of the deletion does not look whose the claim is.
HoldsClaim(w, o) == queue[o].claim = w
GoesOn(w, o) == overtaken' = IF HoldsClaim(w, o) THEN overtaken ELSE overtaken \cup {o}

\* delete_objects, which nothing bounds in time
DeleteObject(w, o, ok) ==
  /\ rec[w].pc = "delete" /\ o \in rec[w].todo /\ GoesOn(w, o)
  /\ bucket' \in (IF ok THEN {bucket \ {o}} ELSE {bucket, bucket \ {o}})
  /\ rec' = [rec EXCEPT ![w].todo = @ \ {o}, ![w].done = @ \cup {[object |-> o, ok |-> ok]}]
  /\ UNCHANGED <<now, rows, urls, late, client>>

AllDeleted(w) == rec[w].pc = "delete" /\ rec[w].todo = {}

\* complete_deletion: the object's row goes, and with it the queue's.
CompleteDeletion(w, o) ==
  LET mayGo == o \in objects /\ DeletionIsClaimed(o) /\ o \notin Referenced(refs) IN
  /\ AllDeleted(w) /\ [object |-> o, ok |-> TRUE] \in rec[w].done /\ GoesOn(w, o)
  /\ objects' = IF mayGo THEN objects \ {o} ELSE objects
  /\ queue' = IF mayGo THEN Dequeued(queue, o) ELSE queue
  /\ rec' = [rec EXCEPT ![w].done = @ \ {[object |-> o, ok |-> TRUE]}]
  /\ UNCHANGED <<now, refs, uploads, issued, bucket, urls, late, client>>

FailDeletion(w, o) ==
  /\ AllDeleted(w) /\ [object |-> o, ok |-> FALSE] \in rec[w].done /\ GoesOn(w, o)
  /\ queue' = IF InQueue(o) THEN [queue EXCEPT ![o].notBefore = rec[w].at + RetryAfter] ELSE queue
  /\ rec' = [rec EXCEPT ![w].done = @ \ {[object |-> o, ok |-> FALSE]}]
  /\ UNCHANGED <<now, refs, objects, uploads, issued, bucket, urls, late, client>>

\* reconcile_at goes on while a batch was full.
NextBatch(w) ==
  /\ AllDeleted(w) /\ rec[w].done = {}
  /\ Step(w, "references")
  /\ UNCHANGED <<now, rows, store, client>>

\* The pass is over, or it failed or its process died: an open transaction is rolled back.
EndPass(w) ==
  /\ rec[w].pc # "idle"
  /\ rec' = [rec EXCEPT ![w] = Resting]
  /\ UNCHANGED <<now, rows, store, client>>

-----------------------------------------------------------------------------
(* Requests end in time; passes need not.  The clock goes on.               *)

Tick ==
  /\ now < Horizon
  /\ \A c \in Clients : client[c].pc \in {"restore", "prepare", "commit", "verified"}
                          => now < client[c].at + MaxLag
  /\ now' = now + 1
  /\ UNCHANGED <<rows, store, client, rec>>

ClientStep(c) ==
  \/ \E i \in Identities : Ask(c, "restore", i, "none")
  \/ \E i \in Identities, o \in Objects : Ask(c, "prepare", i, o)
  \/ Restore(c) \/ PrepareCurrent(c) \/ PrepareStored(c) \/ PrepareUpload(c)
  \/ Put(c) \/ AskCommit(c) \/ Verify(c) \/ Committed(c) \/ CommitStale(c)
  \/ NothingChanged(c)

PassStep(w) ==
  \/ StartPass(w) \/ ExpireReferences(w) \/ ReferencesExpired(w)
  \/ ExpireCommittedUploads(w) \/ ExpireUploads(w) \/ CleanupDone(w) \/ DeletionsClaimed(w) \/ NextBatch(w)
  \/ \E ok \in BOOLEAN, k \in rec[w].todo : CleanupUpload(w, k, ok)
  \/ \E o \in Objects : ClaimDeletion(w, o) \/ CompleteDeletion(w, o) \/ FailDeletion(w, o)
  \/ \E ok \in BOOLEAN, o \in Objects : DeleteObject(w, o, ok)

Init ==
  /\ now = 0 /\ issued = 0
  /\ refs = [i \in Identities |-> NoRef] /\ objects = {}
  /\ queue = [o \in Objects |-> NoEntry] /\ uploads = [o \in Objects |-> NoUpload]
  /\ bucket = {} /\ urls = [o \in Objects |-> 0] /\ late = {} /\ overtaken = {}
  /\ client = [c \in Clients |-> Idle] /\ rec = [w \in Reconcilers |-> Resting]

Next == Tick \/ (\E c \in Clients : ClientStep(c)) \/ (\E w \in Reconcilers : PassStep(w) \/ EndPass(w))

Spec == Init /\ [][Next]_vars

-----------------------------------------------------------------------------
(* Properties                                                               *)

Times == 0..(Horizon + ReferenceTTL + LeaseTerm + Grace + UrlTTL + RetryAfter)

\* A reference expires one term after its last use, an upload's row has an id that was given out
\* and one only, and only a replica in the middle of expire_references holds row locks.
TypeOK ==
  /\ now \in 0..Horizon /\ issued \in 0..MaxUploads
  /\ {objects, bucket, late, overtaken} \subseteq SUBSET Objects
  /\ \A i \in Present(refs) :
       /\ refs[i].object \in Objects /\ refs[i].accessed \in 0..now
       /\ refs[i].expires = refs[i].accessed + ReferenceTTL
  /\ \A o \in Objects : InQueue(o) => o \in objects /\ queue[o].notBefore \in Times
  /\ \A o \in {p \in Objects : uploads[p] # NoUpload} :
       /\ uploads[o].id \in 1..issued /\ uploads[o].identity \in Identities
       /\ uploads[o].expires \in Times
       /\ \A p \in Objects \ {o} : uploads[o].id # uploads[p].id
  /\ \A c \in Clients : client[c].pc \in {"idle", "restore", "prepare", "upload", "commit", "verified"}
  /\ \A w \in Reconcilers : rec[w].pc # "expiring" => rec[w].locked = {}

\* What an exact identity refers to has its row, and its bytes are in the bucket (restore,
\* prepare_upload and commit_upload against cleanup_upload and delete_objects of any replica),
\* whatever outlives its lease or its claim, unless a deletion of the object went on after
\* another pass had taken over its claim.
ReferencedIsStored ==
  \A i \in Present(refs) : refs[i].object \in objects /\ refs[i].object \in bucket \cup overtaken

\* A download URL stays good for its whole term, although the reference it came from may expire
\* or be evicted meanwhile (restore against DELETION_GRACE_SECONDS), with the same exception.
DownloadsHold == \A o \in Objects : now < urls[o] => o \in bucket \cup overtaken

\* Bytes in the bucket belong to a stored object or to an upload, whose expiry removes them,
\* unless they arrived after their lease was gone (cleanup_upload, complete_deletion).
BytesAreTracked ==
  \A o \in bucket : o \in objects \/ uploads[o] # NoUpload \/ o \in late \cup overtaken

\* What an exact identity refers to, and what a URL in its term names, can be downloaded; bytes in
\* the bucket belong to a stored object or to an upload, unless they arrived after their lease was
\* gone.  Passes may take any time: what a deletion can damage is only an object whose claim it
\* lost to another pass and went on with.
CachesAreStored == TypeOK /\ ReferencedIsStored /\ DownloadsHold /\ BytesAreTracked

\* Until it expires or is evicted, an exact identity leads to the same object (prepare_upload and
\* commit_upload of attempts that stored different bytes for it).
NeverRepointed ==
  [][\A i \in Present(refs) : now < refs[i].expires /\ i \in Present(refs')
                                => refs'[i].object = refs[i].object]_vars

\* No pass fails or dies on its way, none finds more than one batch, and no deletion fails.
PassesGoWell ==
  \A w \in Reconcilers :
    /\ EndPass(w) => AllDeleted(w) /\ rec[w].done = {}
    /\ ~NextBatch(w)
    /\ \A k \in rec[w].todo : rec[w].pc = "cleanup" /\ HoldsCleanup(k) => ~CleanupUpload(w, k, FALSE)

\* A lease that was not committed in time is given up and its row removed, so that the identity and
\* the object can be uploaded again, although replicas died between claiming the cleanup and making
\* it (expire_uploads, cleanup_upload), once passes go well; or the clock's bound is reached.
LeasesEnd ==
  <>[][PassesGoWell]_vars
    => \A o \in Objects :
         uploads[o].state = "active" /\ uploads[o].expires =< Horizon
           ~> uploads[o].state \in {"none", "committed"} \/ uploads[o].lease > Horizon

\* Replicas may reconcile at the same time: an object nothing refers to is in the deletion queue
\* (expire_references).
UnreferencedIsQueued ==
  \A o \in objects : o \notin Referenced(refs) => InQueue(o)
=============================================================================
