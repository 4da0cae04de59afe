------------------------- MODULE CacheServiceProofs -------------------------
(***************************************************************************)
(* What CacheService promises for every number of identities, objects,     *)
(* attempts and replicas, from the assumptions on its constants: an exact  *)
(* reference is of a stored object whose bytes are in the bucket, a        *)
(* download URL stays good for its term, bytes have an owner, and an       *)
(* identity is not made to refer to another object.                        *)
(*                                                                         *)
(* One lemma per action says that it keeps CacheInv.  An object's bytes    *)
(* are deleted only while a pass has claimed it, so the heart of CacheInv  *)
(* is why nothing can use a claimed object: a URL ends before its          *)
(* reference does or before its object leaves the grace of the queue       *)
(* (UrlEnds), and an upload is gone before its object may be claimed       *)
(* (CommittedSound), however long ago the pass began that queued it        *)
(* (RecentSound).  A pass that goes on without its claim is outside of     *)
(* this: the parts about bytes leave out the objects it has overtaken, so  *)
(* that what holds of all others holds whatever the time passes take.      *)
(***************************************************************************)
EXTENDS CacheService, TLAPS

-----------------------------------------------------------------------------
(* The inductive invariant                                                  *)

Refs == [object : Objects \cup {"none"}, accessed : Int, expires : Int]
Entries == [claim : Reconcilers \cup {"none"}, notBefore : Int]
Uploads == [id : Nat, identity : Identities \cup {"none"},
            state : {"none", "active", "committed", "deleting"}, expires : Int,
            generation : Nat, lease : Int]
Requests == [pc : {"idle", "restore", "prepare", "upload", "commit", "verified"},
             identity : Identities \cup {"none"}, object : Objects \cup {"none"}, id : Nat, at : Int]
Cleanups == [object : Objects, id : Nat, generation : Nat]
Deletions == [object : Objects, ok : BOOLEAN]
Passes == [pc : {"idle", "references", "expiring", "committed", "uploads", "cleanup", "deletions",
                 "delete"},
           at : Int, locked : SUBSET Identities, queued : SUBSET Objects,
           todo : SUBSET (Cleanups \cup Objects), done : SUBSET Deletions]

Typed ==
  /\ now \in 0..Horizon /\ issued \in 0..MaxUploads
  /\ refs \in [Identities -> Refs] /\ objects \subseteq Objects
  /\ queue \in [Objects -> Entries] /\ uploads \in [Objects -> Uploads]
  /\ bucket \subseteq Objects /\ late \subseteq Objects /\ overtaken \subseteq Objects
  /\ urls \in [Objects -> Nat]
  /\ client \in [Clients -> Requests] /\ rec \in [Reconcilers -> Passes]

\* A reference is of a stored object, and expires one term after its last use.
RefsSound ==
  \A i \in Identities :
    \/ refs[i] = NoRef
    \/ /\ refs[i].object \in objects /\ refs[i].accessed \in 0..now
       /\ refs[i].expires = refs[i].accessed + ReferenceTTL

\* A request acts within its time, and an upload has an id that was given out.
ClientsTimely ==
  \A c \in Clients :
    /\ client[c].id =< issued
    /\ client[c].pc \in {"restore", "prepare", "commit", "verified"}
         => client[c].at \in 0..now /\ now =< client[c].at + MaxLag
    /\ client[c].pc # "idle" => client[c].identity \in Identities
    /\ client[c].pc \in {"prepare", "upload", "commit", "verified"} => client[c].object \in Objects
    /\ client[c].pc \in {"upload", "commit", "verified"} => client[c].id > 0

\* The references a pass has locked are there, have expired, and are locked by no other; what it
\* will queue is what they refer to.
PassesSound ==
  \A w \in Reconcilers :
    /\ rec[w].pc # "idle" => rec[w].at \in 0..now
    /\ rec[w].pc # "expiring" => rec[w].locked = {}
    /\ \A i \in rec[w].locked :
         /\ refs[i] # NoRef /\ refs[i].expires =< rec[w].at
         /\ \A x \in Reconcilers \ {w} : i \notin rec[x].locked
    /\ rec[w].pc = "expiring"
         => \A o \in rec[w].queued : \E i \in rec[w].locked : refs[i].object = o
    /\ rec[w].pc = "cleanup" => rec[w].todo \subseteq Cleanups

QueueSound ==
  \A o \in Objects : InQueue(o) => o \in objects /\ queue[o].notBefore \in Times

\* A lease that is not committed is of an object that is not stored, one that is of one that is
\* (or was overtaken).
UploadsSound ==
  \A o \in Objects :
    \/ uploads[o] = NoUpload
    \/ /\ uploads[o].id \in 1..issued /\ uploads[o].identity \in Identities
       /\ uploads[o].expires \in 0..(now + LeaseTerm)
       /\ \A p \in Objects \ {o} : uploads[o].id # uploads[p].id
       /\ \/ uploads[o].state = "committed" /\ o \in objects \cup overtaken
          \/ uploads[o].state \in {"active", "deleting"} /\ o \notin objects

\* What is claimed for deletion is stored, and nothing refers to it, downloads it or uploads it.
ClaimsSound ==
  \A o \in Objects \ overtaken : queue[o].claim # "none" =>
    /\ o \in objects /\ o \notin Referenced(refs) /\ urls[o] =< now /\ uploads[o] = NoUpload

Attempted(o, ok) == [object |-> o, ok |-> ok]

\* A pass deletes what it has claimed once, and what it has deleted does not come back while the
\* claim is its own.
HoldsSoundly(w) ==
  /\ rec[w].pc # "delete" => rec[w].done = {}
  /\ \A o \in Objects :
       /\ rec[w].pc = "delete" /\ o \in rec[w].todo =>
            Attempted(o, TRUE) \notin rec[w].done /\ Attempted(o, FALSE) \notin rec[w].done
       /\ Attempted(o, TRUE) \in rec[w].done =>
            /\ Attempted(o, FALSE) \notin rec[w].done
            /\ queue[o].claim = w => o \notin bucket \/ o \in late \cup overtaken

HoldingSound == \A w \in Reconcilers : HoldsSoundly(w)

\* The bytes of a stored object are there until it is claimed, and bytes have an owner.
BytesSound ==
  \A o \in Objects \ overtaken :
    /\ o \in objects => o \in bucket \/ queue[o].claim # "none"
    /\ o \in bucket => o \in objects \/ uploads[o] # NoUpload \/ o \in late

\* The bytes of a verified upload are there until it is committed.
VerifiedSound ==
  \A c \in Clients, o \in Objects \ overtaken :
    client[c].pc = "verified" /\ client[c].object = o /\ uploads[o].id = client[c].id
      /\ uploads[o].state = "active"
      => o \in bucket

\* A download URL of o ends in time: it has ended, or o has a reference that will expire no earlier,
\* or o is in the deletion queue until then.
UrlEnds(r, q, o) ==
  \/ urls[o] =< now
  \/ \E i \in Identities : r[i].object = o /\ urls[o] =< r[i].accessed + MaxLag + UrlTTL
  \/ q[o] # NoEntry /\ urls[o] =< q[o].notBefore /\ \A i \in Identities : r[i].object # o

UrlsSound ==
  /\ \A o \in Objects : urls[o] =< now + UrlTTL
  /\ \A o \in Objects \ overtaken :
       /\ o \notin objects => urls[o] =< now
       /\ UrlEnds(refs, queue, o)

\* A pass that has removed the committed uploads of its time, and not yet claimed all it will.
Claiming(w) == rec[w].pc \in {"uploads", "cleanup", "deletions"}

\* A committed upload is gone before its object can be claimed.
CommittedSound ==
  \A o \in Objects \ overtaken : uploads[o].state = "committed" /\ InQueue(o) =>
    /\ uploads[o].expires =< queue[o].notBefore
    /\ \A w \in Reconcilers : Claiming(w) => rec[w].at < queue[o].notBefore

\* A reference to an object whose upload is still there was last used after the commit, but for the
\* lag of its request: the upload ends a lease later, and a pass that did not see the commit is older.
RecentSound ==
  \A o \in Objects \ overtaken, i \in Identities :
    uploads[o].state = "committed" /\ refs[i].object = o =>
      /\ uploads[o].expires =< refs[i].accessed + MaxLag + LeaseTerm
      /\ \A w \in Reconcilers :
           Claiming(w) => rec[w].at < uploads[o].expires \/ rec[w].at =< refs[i].accessed + MaxLag

CacheInv ==
  /\ Typed /\ RefsSound /\ ClientsTimely /\ PassesSound /\ QueueSound /\ UploadsSound
  /\ ClaimsSound /\ HoldingSound /\ BytesSound /\ VerifiedSound /\ UrlsSound /\ CommittedSound
  /\ RecentSound

-----------------------------------------------------------------------------
(* The constants, the types and the helpers                                 *)

LEMMA ConstantFacts ==
  /\ ReferenceTTL \in Nat /\ LeaseTerm \in Nat /\ Grace \in Nat /\ UrlTTL \in Nat /\ RetryAfter \in Nat
  /\ ReferenceTTL > 0 /\ LeaseTerm > 0 /\ Grace > 0 /\ UrlTTL > 0 /\ RetryAfter > 0
  /\ MaxLag \in Nat /\ MaxUploads \in Nat /\ Horizon \in Nat
  /\ UrlTTL + MaxLag =< Grace /\ UrlTTL + MaxLag =< ReferenceTTL /\ LeaseTerm + MaxLag =< Grace
  /\ "none" \notin Objects /\ "none" \notin Identities /\ "none" \notin Reconcilers
  BY CacheAssumption, TimingAssumption DEF Terms

Numbers ==
  /\ now \in Nat /\ issued \in Nat
  /\ \A o \in Objects : /\ urls[o] \in Nat /\ queue[o].notBefore \in Int
                       /\ uploads[o].id \in Nat /\ uploads[o].expires \in Int /\ uploads[o].lease \in Int
  /\ \A i \in Identities : refs[i].accessed \in Int /\ refs[i].expires \in Int
  /\ \A c \in Clients : client[c].at \in Int /\ client[c].id \in Nat
  /\ \A w \in Reconcilers : rec[w].at \in Int

LEMMA TypeFacts == Typed => Numbers
  BY ConstantFacts DEF Typed, Refs, Entries, Uploads, Requests, Passes, Numbers

LEMMA MaxPair ==
  ASSUME NEW a \in Int, NEW b \in Int
  PROVE  Max({a, b}) \in {a, b} /\ Max({a, b}) >= a /\ Max({a, b}) >= b
<1>1. CASE a >= b
  BY <1>1 DEF Max
<1>2. CASE b > a
  BY <1>2 DEF Max
<1> QED BY <1>1, <1>2

LEMMA ReferencedFact ==
  ASSUME NEW r \in [Identities -> Refs], NEW o \in Objects
  PROVE  o \in Referenced(r) <=> \E i \in Identities : r[i].object = o
  BY ConstantFacts DEF Referenced, Present, Refs, NoRef

LEMMA QueueFact ==
  ASSUME NEW q \in [Objects -> Entries], NEW left, NEW gone, NEW at \in Int, NEW q1,
         q1 = QueueIfUnreferenced(q, left, gone, at)
  PROVE  /\ q1 \in [Objects -> Entries]
         /\ \A o \in Objects :
              /\ q1[o].claim = q[o].claim
              /\ o \in gone /\ o \in objects /\ o \notin Referenced(left)
                   => /\ q1[o].notBefore >= q[o].notBefore /\ q1[o].notBefore >= at + Grace
                      /\ q1[o].notBefore \in {q[o].notBefore, at + Grace}
              /\ ~(o \in gone /\ o \in objects /\ o \notin Referenced(left)) => q1[o] = q[o]
<1>1. ASSUME NEW o \in Objects
      PROVE  /\ q[o].notBefore \in Int /\ at + Grace \in Int
             /\ Max({q[o].notBefore, at + Grace}) \in {q[o].notBefore, at + Grace}
             /\ Max({q[o].notBefore, at + Grace}) >= q[o].notBefore
             /\ Max({q[o].notBefore, at + Grace}) >= at + Grace
  <2>1. q[o].notBefore \in Int /\ at + Grace \in Int
    BY ConstantFacts DEF Entries
  <2> QED BY <2>1, MaxPair
<1>2. ASSUME NEW o \in Objects, o \in gone /\ o \in objects /\ o \notin Referenced(left)
      PROVE  q1[o] = [q[o] EXCEPT !.notBefore = Max({q[o].notBefore, at + Grace})]
  BY <1>2 DEF QueueIfUnreferenced
<1>3. ASSUME NEW o \in Objects, ~(o \in gone /\ o \in objects /\ o \notin Referenced(left))
      PROVE  q1[o] = q[o]
  BY <1>3 DEF QueueIfUnreferenced
<1>4. ASSUME NEW o \in Objects, o \in gone /\ o \in objects /\ o \notin Referenced(left)
      PROVE  /\ q1[o] \in Entries /\ q1[o].claim = q[o].claim
             /\ q1[o].notBefore >= q[o].notBefore /\ q1[o].notBefore >= at + Grace
             /\ q1[o].notBefore \in {q[o].notBefore, at + Grace}
  <2> DEFINE m == Max({q[o].notBefore, at + Grace})
  <2>1. m \in Int /\ m >= q[o].notBefore /\ m >= at + Grace /\ m \in {q[o].notBefore, at + Grace}
    BY <1>1
  <2>2. q1[o] = [q[o] EXCEPT !.notBefore = m] /\ q[o] \in Entries
    BY <1>2, <1>4
  <2> HIDE DEF m
  <2>3. q1[o] \in Entries /\ q1[o].notBefore = m /\ q1[o].claim = q[o].claim
    BY <2>1, <2>2 DEF Entries
  <2> QED BY <2>1, <2>3
<1>5. q1 \in [Objects -> Entries]
  <2>1. \A o \in Objects : q1[o] \in Entries
    BY <1>3, <1>4
  <2>2. DOMAIN q1 = Objects /\ q1 = [o \in Objects |-> q1[o]]
    BY DEF QueueIfUnreferenced
  <2> QED BY <2>1, <2>2
<1> QED BY <1>3, <1>4, <1>5

\* Some references are gone.
Dropped(r) ==
  /\ r \in [Identities -> Refs]
  /\ \A i \in Identities : r[i] = refs[i] \/ r[i] = NoRef

\* Some objects are in the queue, until m at least.
Postponed(q, m) ==
  /\ q \in [Objects -> Entries]
  /\ \A o \in Objects :
       /\ q[o].claim = queue[o].claim
       /\ \/ q[o] = queue[o]
          \/ /\ o \in objects /\ q[o] # NoEntry /\ q[o].notBefore \in Times
             /\ q[o].notBefore >= queue[o].notBefore /\ q[o].notBefore >= m

LEMMA DroppedFact ==
  ASSUME Typed, NEW gone
  PROVE  /\ Dropped(Without(refs, gone))
         /\ \A i \in Identities : Without(refs, gone)[i] = IF i \in gone THEN NoRef ELSE refs[i]
<1>1. NoRef \in Refs
  BY DEF NoRef, Refs
<1> QED BY <1>1, Zenon DEF Dropped, Without, Typed

\* The time of a request: what it queues is queued for longer than any lease of now.
Current(at) == at \in 0..now /\ now + LeaseTerm =< at + Grace

LEMMA PostponedFact ==
  ASSUME CacheInv, NEW left, NEW gone, NEW at \in 0..now, NEW m \in Int, m =< at + Grace,
         NEW q, Postponed(q, m), NEW q1, q1 = QueueIfUnreferenced(q, left, gone, at)
  PROVE  Postponed(q1, m)
<1>i. Typed /\ QueueSound /\ Numbers /\ at \in Int
  BY TypeFacts DEF CacheInv, Numbers
<1>1. at + Grace \in Times /\ at + Grace > 0
  BY <1>i, ConstantFacts DEF Times, Typed
<1>2. q \in [Objects -> Entries]
  BY DEF Postponed
<1>3. /\ q1 \in [Objects -> Entries]
      /\ \A o \in Objects :
           /\ q1[o].claim = q[o].claim
           /\ o \in gone /\ o \in objects /\ o \notin Referenced(left)
                => /\ q1[o].notBefore >= q[o].notBefore /\ q1[o].notBefore >= at + Grace
                   /\ q1[o].notBefore \in {q[o].notBefore, at + Grace}
           /\ ~(o \in gone /\ o \in objects /\ o \notin Referenced(left)) => q1[o] = q[o]
  BY <1>i, <1>2, QueueFact
<1>4. ASSUME NEW o \in Objects
      PROVE  /\ q1[o].claim = queue[o].claim
             /\ \/ q1[o] = queue[o]
                \/ /\ o \in objects /\ q1[o] # NoEntry /\ q1[o].notBefore \in Times
                   /\ q1[o].notBefore >= queue[o].notBefore /\ q1[o].notBefore >= m
  <2>1. q1[o].claim = q[o].claim /\ q[o].claim = queue[o].claim
    BY <1>3 DEF Postponed
  <2>2. CASE ~(o \in gone /\ o \in objects /\ o \notin Referenced(left))
    <3>1. q1[o] = q[o]
      BY <2>2, <1>3
    <3> QED BY <3>1, Zenon DEF Postponed
  <2>3. CASE o \in gone /\ o \in objects /\ o \notin Referenced(left)
    <3>1. /\ q1[o].notBefore \in Int /\ q[o].notBefore \in Int /\ queue[o].notBefore \in Int
          /\ q1[o].notBefore >= q[o].notBefore /\ q1[o].notBefore >= at + Grace
          /\ q1[o].notBefore \in {q[o].notBefore, at + Grace}
      BY <1>2, <1>3, <1>i, <2>3 DEF Numbers, Entries
    <3>2. q[o].notBefore >= queue[o].notBefore
      BY <3>1 DEF Postponed
    <3>3. q1[o] # NoEntry
      BY <3>1, <1>1, <1>i, ConstantFacts DEF NoEntry
    <3>4. q[o].notBefore \in Times \/ q[o].notBefore = queue[o].notBefore
      BY DEF Postponed
    <3>5. queue[o].notBefore \in Times \/ queue[o].notBefore = -1
      BY <1>i DEF QueueSound, InQueue, NoEntry
    <3>6. q1[o].notBefore \in Times
      BY <3>1, <3>4, <3>5, <1>1, <1>i, ConstantFacts DEF Numbers
    <3>7. q1[o].notBefore >= m
      BY <3>1, <1>1, <1>i, ConstantFacts
    <3>8. q1[o].notBefore >= queue[o].notBefore
      BY <3>1, <3>2
    <3> QED BY <2>1, <2>3, <3>3, <3>6, <3>7, <3>8
  <2> QED BY <2>2, <2>3
<1> QED BY <1>3, <1>4 DEF Postponed

LEMMA QueueIsPostponed == Typed => \A m : Postponed(queue, m)
  BY DEF Typed, Postponed

\* References whose term has ended carry no download.
LEMMA ExpiredEnds ==
  ASSUME CacheInv, NEW gone, NEW m, NEW q, Postponed(q, m),
         \A i \in gone : i \in Identities => refs[i] = NoRef \/ refs[i].expires =< now
  PROVE  \A o \in Objects \ overtaken : UrlEnds(Without(refs, gone), q, o)
<1>i. Typed /\ RefsSound /\ UrlsSound /\ Numbers
  BY TypeFacts DEF CacheInv
<1> SUFFICES ASSUME NEW o \in Objects \ overtaken
             PROVE  UrlEnds(Without(refs, gone), q, o)
  OBVIOUS
<1>1. PICK r \in [Identities -> Refs] : r = Without(refs, gone)
  BY <1>i, DroppedFact DEF Dropped
<1>2. \A i \in Identities : r[i] = IF i \in gone THEN NoRef ELSE refs[i]
  BY <1>1, <1>i, DroppedFact
<1>3. UrlEnds(refs, queue, o)
  BY <1>i DEF UrlsSound
<1>4. CASE urls[o] =< now
  BY <1>4 DEF UrlEnds
<1>5. ASSUME NEW i \in Identities, refs[i].object = o, urls[o] =< refs[i].accessed + MaxLag + UrlTTL,
             ~(urls[o] =< now)
      PROVE  UrlEnds(r, q, o)
  <2>1. refs[i] # NoRef
    BY <1>5, ConstantFacts DEF NoRef
  <2>2. refs[i].expires = refs[i].accessed + ReferenceTTL
    BY <2>1, <1>i DEF RefsSound
  <2>3. i \notin gone
    BY <1>5, <2>1, <2>2, <1>i, ConstantFacts DEF Numbers
  <2>4. r[i] = refs[i]
    BY <1>2, <2>3
  <2> QED BY <1>5, <2>4 DEF UrlEnds
<1>6. ASSUME queue[o] # NoEntry, urls[o] =< queue[o].notBefore,
             \A i \in Identities : refs[i].object # o
      PROVE  UrlEnds(r, q, o)
  <2>1. \A i \in Identities : r[i].object # o
    BY <1>2, <1>6, ConstantFacts DEF NoRef
  <2>2. q[o] # NoEntry /\ q[o].notBefore >= queue[o].notBefore /\ q[o].notBefore \in Int
    BY <1>6, <1>i DEF Postponed, Entries, Numbers
  <2> QED BY <1>6, <1>i, <2>1, <2>2 DEF UrlEnds, Numbers
<1> QED BY <1>1, <1>3, <1>4, <1>5, <1>6 DEF UrlEnds

\* An evicted reference leaves its downloads to one used later, or to the queue.
LEMMA EvictedEnds ==
  ASSUME CacheInv, NEW r \in [Identities -> Refs], Dropped(r), NEW m, NEW q, Postponed(q, m),
         NEW p \in Identities, r[p] = NoRef, NEW v \in Evictions(r, p),
         NEW at \in Int, Current(at), now =< at + MaxLag, NEW q1,
         q1 = QueueIfUnreferenced(q, Without(r, v), {r[j].object : j \in v}, at),
         \A o \in Objects \ overtaken : UrlEnds(r, q, o)
  PROVE  \A o \in Objects \ overtaken : UrlEnds(Without(r, v), q1, o)
<1>i. Typed /\ RefsSound /\ UrlsSound /\ Numbers
  BY TypeFacts DEF CacheInv
<1> SUFFICES ASSUME NEW o \in Objects \ overtaken
             PROVE  UrlEnds(Without(r, v), q1, o)
  OBVIOUS
<1>1. PICK left \in [Identities -> Refs] : left = Without(r, v)
  BY DEF Without, NoRef, Refs
<1>2. \A i \in Identities : left[i] = IF i \in v THEN NoRef ELSE r[i]
  BY <1>1 DEF Without
<1>3. /\ v \subseteq Identities /\ p \notin v
      /\ \A i \in v, j \in Identities : j \notin v /\ r[j] # NoRef => r[i].accessed =< r[j].accessed
  BY DEF Evictions, Present
<1>4. q \in [Objects -> Entries]
  BY DEF Postponed
<1>5. /\ q1 \in [Objects -> Entries]
      /\ o \in {r[j].object : j \in v} /\ o \in objects /\ o \notin Referenced(left)
           => /\ q1[o].notBefore >= q[o].notBefore /\ q1[o].notBefore >= at + Grace
              /\ q1[o].notBefore \in {q[o].notBefore, at + Grace}
      /\ ~(o \in {r[j].object : j \in v} /\ o \in objects /\ o \notin Referenced(left)) => q1[o] = q[o]
  BY <1>1, <1>4, QueueFact
<1>6. o \in Referenced(left) <=> \E i \in Identities : left[i].object = o
  BY ReferencedFact
<1>7. CASE urls[o] =< now
  BY <1>7 DEF UrlEnds
<1>8. ASSUME NEW i \in Identities, r[i].object = o, urls[o] =< r[i].accessed + MaxLag + UrlTTL
      PROVE  UrlEnds(left, q1, o)
  <2>1. CASE i \notin v
    <3>1. left[i] = r[i]
      BY <1>2, <2>1
    <3> QED BY <1>8, <3>1 DEF UrlEnds
  <2>2. ASSUME i \in v, NEW j \in Identities, left[j].object = o
        PROVE  UrlEnds(left, q1, o)
    <3>1. j \notin v /\ left[j] = r[j] /\ r[j] # NoRef
      BY <1>2, <2>2, ConstantFacts DEF NoRef
    <3>2. r[i].accessed =< r[j].accessed
      BY <1>3, <2>2, <3>1
    <3>3. urls[o] =< r[j].accessed + MaxLag + UrlTTL
      BY <1>8, <3>2, <1>i, ConstantFacts DEF Numbers, Refs
    <3> QED BY <2>2, <3>1, <3>3 DEF UrlEnds
  <2>3. CASE i \in v /\ \A j \in Identities : left[j].object # o
    <3>1. o \in {r[j].object : j \in v}
      BY <1>8, <2>3
    <3>2. r[i] # NoRef /\ r[i] = refs[i]
      BY <1>8, ConstantFacts DEF Dropped, NoRef
    <3>3. o \in objects
      BY <1>8, <1>i, <3>2 DEF RefsSound
    <3>4. q1[o].notBefore \in Int /\ q1[o].notBefore >= at + Grace
      BY <1>5, <1>6, <2>3, <3>1, <3>3 DEF Entries
    <3>5. urls[o] =< q1[o].notBefore /\ q1[o].notBefore > 0
      BY <3>4, <1>i, ConstantFacts DEF UrlsSound, Numbers, Current
    <3>6. q1[o] # NoEntry
      BY <3>5 DEF NoEntry
    <3> QED BY <2>3, <3>5, <3>6 DEF UrlEnds
  <2> QED BY <2>1, <2>2, <2>3
<1>9. ASSUME q[o] # NoEntry, urls[o] =< q[o].notBefore, \A i \in Identities : r[i].object # o
      PROVE  UrlEnds(left, q1, o)
  <2>1. \A i \in Identities : left[i].object # o
    BY <1>2, <1>9, ConstantFacts DEF NoRef
  <2>2. o \notin {r[j].object : j \in v}
    BY <1>3, <1>9
  <2>3. q1[o] = q[o]
    BY <1>5, <2>2
  <2> QED BY <1>9, <2>1, <2>3, Zenon DEF UrlEnds
<1> QED BY <1>1, <1>7, <1>8, <1>9 DEF UrlEnds

LEMMA RequestIsCurrent ==
  ASSUME CacheInv, NEW c \in Clients,
         client[c].pc \in {"restore", "prepare", "commit", "verified"}
  PROVE  /\ client[c].at \in Int /\ Current(client[c].at) /\ now =< client[c].at + MaxLag
         /\ client[c].identity \in Identities
<1>i. ClientsTimely /\ Numbers
  BY TypeFacts DEF CacheInv
<1> QED BY <1>i, ConstantFacts DEF ClientsTimely, Numbers, Current

LEMMA KeptFact ==
  ASSUME CacheInv, NEW at \in Int, Current(at)
  PROVE  /\ Dropped(Kept(at)) /\ Postponed(QueueAfterExpiry(at), now + LeaseTerm)
         /\ \A o \in Objects \ overtaken : UrlEnds(Kept(at), QueueAfterExpiry(at), o)
         /\ \A i \in Identities : Kept(at)[i] = NoRef <=> refs[i] = NoRef \/ refs[i].expires =< at
<1>i. Typed /\ Numbers
  BY TypeFacts DEF CacheInv
<1>1. /\ Dropped(Kept(at))
      /\ \A i \in Identities : Kept(at)[i] = IF i \in Expired(refs, at) THEN NoRef ELSE refs[i]
  BY <1>i, DroppedFact DEF Kept
<1>2. Postponed(QueueAfterExpiry(at), now + LeaseTerm)
  <2>1. PICK q : q = QueueAfterExpiry(at)
    OBVIOUS
  <2>2. now + LeaseTerm \in Int /\ now + LeaseTerm =< at + Grace /\ at \in 0..now
    BY <1>i, ConstantFacts DEF Current, Numbers
  <2>3. Postponed(q, now + LeaseTerm)
    BY <2>1, <2>2, <1>i, QueueIsPostponed, PostponedFact DEF QueueAfterExpiry
  <2> QED BY <2>1, <2>3
<1>3. \A o \in Objects \ overtaken : UrlEnds(Kept(at), QueueAfterExpiry(at), o)
  <2>1. \A i \in Expired(refs, at) : i \in Identities => refs[i] = NoRef \/ refs[i].expires =< now
    BY <1>i DEF Expired, Current, Numbers
  <2> QED BY <1>2, <2>1, ExpiredEnds DEF Kept
<1>4. \A i \in Identities : i \in Expired(refs, at) <=> refs[i] # NoRef /\ refs[i].expires =< at
  BY DEF Expired, Present
<1> QED BY <1>1, <1>2, <1>3, <1>4

\* A request that expires references waits for those a pass has locked.
LEMMA KeptLocked ==
  ASSUME Typed, NEW at, Expired(refs, at) \cap Locked = {}
  PROVE  \A w \in Reconcilers : \A j \in rec[w].locked : j \in Locked /\ Kept(at)[j] = refs[j]
<1> SUFFICES ASSUME NEW w \in Reconcilers, NEW j \in rec[w].locked
             PROVE  j \in Locked /\ Kept(at)[j] = refs[j]
  OBVIOUS
<1>1. j \in Locked /\ j \in Identities
  BY DEF Locked, Typed, Passes
<1>2. j \notin Expired(refs, at)
  BY <1>1
<1> QED BY <1>1, <1>2, DroppedFact DEF Kept

\* What keeps the parts of the invariant that are about passes when none takes a step.
LEMMA PassesKept ==
  ASSUME PassesSound, now' = now, rec' = rec,
         \A w \in Reconcilers : \A j \in rec[w].locked : refs'[j] = refs[j]
  PROVE  PassesSound'
<1>1. \A o : \A w \in Reconcilers : (\E i \in rec[w].locked : refs[i].object = o)
                                => \E i \in rec[w].locked : refs'[i].object = o
  OBVIOUS
<1> QED BY <1>1 DEF PassesSound

LEMMA HoldingKept ==
  ASSUME HoldingSound, rec' = rec, bucket' = bucket, overtaken' = overtaken,
         \A o \in Objects : queue'[o].claim # "none"
                            => queue'[o].claim = queue[o].claim /\ (o \in late => o \in late')
  PROVE  HoldingSound'
<1> SUFFICES ASSUME NEW w \in Reconcilers
             PROVE  HoldsSoundly(w)'
  BY DEF HoldingSound
<1>1. HoldsSoundly(w) /\ w # "none"
  BY ConstantFacts DEF HoldingSound
<1> QED BY <1>1 DEF HoldsSoundly

LEMMA CommittedKept ==
  ASSUME CacheInv, now' = now, rec' = rec, overtaken' = overtaken,
         \A o \in Objects : uploads'[o].state = "committed" => uploads'[o] = uploads[o],
         \A o \in Objects : \/ queue'[o] = NoEntry \/ queue'[o] = queue[o]
                            \/ queue'[o].notBefore \in Int /\ queue'[o].notBefore >= now + LeaseTerm
  PROVE  CommittedSound'
<1>i. UploadsSound /\ CommittedSound /\ PassesSound /\ Numbers
  BY TypeFacts DEF CacheInv
<1> USE ConstantFacts, <1>i DEF Numbers
<1> SUFFICES ASSUME NEW o \in Objects \ overtaken, uploads'[o].state = "committed", queue'[o] # NoEntry
             PROVE  /\ uploads'[o].expires =< queue'[o].notBefore
                    /\ \A w \in Reconcilers : Claiming(w) => rec[w].at < queue'[o].notBefore
  BY DEF CommittedSound, InQueue, Claiming
<1>1. uploads'[o] = uploads[o] /\ uploads[o].state = "committed"
  OBVIOUS
<1>2. CASE queue'[o] = queue[o]
  BY <1>1, <1>2 DEF CommittedSound, InQueue
<1>3. CASE queue'[o].notBefore \in Int /\ queue'[o].notBefore >= now + LeaseTerm
  <2>1. uploads[o].expires =< now + LeaseTerm
    BY <1>1 DEF UploadsSound, NoUpload
  <2>2. \A w \in Reconcilers : Claiming(w) => rec[w].at =< now
    BY DEF PassesSound, Claiming
  <2> QED BY <1>1, <1>3, <2>1, <2>2
<1> QED BY <1>2, <1>3

LEMMA ReferencedDropped ==
  ASSUME Typed, NEW r, Dropped(r), NEW o \in Objects, o \in Referenced(r)
  PROVE  o \in Referenced(refs)
<1>1. refs \in [Identities -> Refs] /\ r \in [Identities -> Refs]
  BY DEF Typed, Dropped
<1>2. PICK i \in Identities : r[i].object = o
  BY <1>1, ReferencedFact
<1>3. r[i] = refs[i]
  BY <1>2, ConstantFacts DEF Dropped, NoRef
<1> QED BY <1>1, <1>2, <1>3, ReferencedFact

NewUpload(n, i, e) == [NoUpload EXCEPT !.id = n, !.identity = i, !.state = "active", !.expires = e]

LEMMA NewUploadFact ==
  ASSUME NEW n \in Nat, NEW e \in Int, NEW i \in Identities
  PROVE  /\ NewUpload(n, i, e) \in Uploads
         /\ NewUpload(n, i, e).id = n /\ NewUpload(n, i, e).identity = i
         /\ NewUpload(n, i, e).state = "active" /\ NewUpload(n, i, e).expires = e
<1>1. NewUpload(n, i, e) \in Uploads
  <2>1. NoUpload \in Uploads
    BY DEF NoUpload, Uploads
  <2> QED BY <2>1 DEF NewUpload, Uploads
<1>2. NewUpload(n, i, e).id = n /\ NewUpload(n, i, e).expires = e
  BY DEF NewUpload, NoUpload
<1>3. NewUpload(n, i, e).identity = i /\ NewUpload(n, i, e).state = "active"
  BY DEF NewUpload, NoUpload
<1> QED BY <1>1, <1>2, <1>3

LEMMA AttemptedFact ==
  ASSUME NEW o \in Objects
  PROVE  /\ Attempted(o, TRUE) \in Deletions /\ Attempted(o, FALSE) \in Deletions
         /\ Attempted(o, TRUE) # Attempted(o, FALSE)
         /\ \A p \in Objects \ {o} :
              /\ Attempted(p, TRUE) # Attempted(o, TRUE) /\ Attempted(p, TRUE) # Attempted(o, FALSE)
              /\ Attempted(p, FALSE) # Attempted(o, TRUE) /\ Attempted(p, FALSE) # Attempted(o, FALSE)
<1>1. Attempted(o, TRUE) \in Deletions /\ Attempted(o, FALSE) \in Deletions
  BY DEF Attempted, Deletions
<1>2. \A p : /\ Attempted(p, TRUE).object = p /\ Attempted(p, FALSE).object = p
             /\ Attempted(p, TRUE).ok = TRUE /\ Attempted(p, FALSE).ok = FALSE
  BY DEF Attempted
<1>3. Attempted(o, TRUE) # Attempted(o, FALSE)
  BY <1>2, Zenon
<1> QED BY <1>1, <1>2, <1>3, Zenon

-----------------------------------------------------------------------------
LEMMA TickKeeps ==
  ASSUME CacheInv, Tick
  PROVE  CacheInv'
<1>i. Typed /\ RefsSound /\ ClientsTimely /\ PassesSound /\ QueueSound /\ UploadsSound
      /\ ClaimsSound /\ HoldingSound /\ BytesSound /\ VerifiedSound /\ UrlsSound
      /\ CommittedSound /\ RecentSound /\ Numbers
  BY TypeFacts DEF CacheInv
<1> USE ConstantFacts, <1>i DEF Numbers
<1>u. /\ issued' = issued /\ refs' = refs /\ objects' = objects /\ queue' = queue
      /\ uploads' = uploads /\ bucket' = bucket /\ late' = late /\ overtaken' = overtaken /\ urls' = urls
      /\ client' = client /\ rec' = rec
  BY DEF Tick, rows, store
<1>t. now' = now + 1 /\ now < Horizon
  BY DEF Tick
<1>1. Typed'
  BY <1>u, <1>t DEF Typed
<1>2. RefsSound'
  BY <1>u, <1>t DEF RefsSound
<1>3. ClientsTimely'
  BY <1>u, <1>t DEF ClientsTimely, Tick
<1>4. PassesSound'
  BY <1>u, <1>t DEF PassesSound, Tick
<1>5. QueueSound'
  BY <1>u DEF QueueSound, InQueue
<1>6. UploadsSound'
  BY <1>u, <1>t DEF UploadsSound
<1>7. ClaimsSound'
  BY <1>u, <1>t DEF ClaimsSound
<1>8. HoldingSound'
  BY <1>u DEF HoldingSound, HoldsSoundly
<1>9. BytesSound'
  BY <1>u DEF BytesSound
<1>10. VerifiedSound'
  BY <1>u DEF VerifiedSound
<1>11. UrlsSound'
  BY <1>u, <1>t DEF UrlsSound, UrlEnds
<1>12. CommittedSound'
  BY <1>u DEF CommittedSound, InQueue, Claiming
<1>13. RecentSound'
  BY <1>u DEF RecentSound, Claiming
<1> QED BY <1>1, <1>2, <1>3, <1>4, <1>5, <1>6, <1>7, <1>8, <1>9, <1>10, <1>11, <1>12, <1>13 DEF CacheInv

LEMMA AskKeeps ==
  ASSUME NEW c \in Clients, NEW i \in Identities, NEW o \in Objects \cup {"none"},
         NEW what \in {"restore", "prepare"}, what = "prepare" => o \in Objects, CacheInv, Ask(c, what, i, o)
  PROVE  CacheInv'
<1>i. Typed /\ RefsSound /\ ClientsTimely /\ PassesSound /\ QueueSound /\ UploadsSound
      /\ ClaimsSound /\ HoldingSound /\ BytesSound /\ VerifiedSound /\ UrlsSound
      /\ CommittedSound /\ RecentSound /\ Numbers
  BY TypeFacts DEF CacheInv
<1> USE ConstantFacts, <1>i DEF Numbers
<1>u. /\ now' = now /\ issued' = issued /\ refs' = refs /\ objects' = objects /\ queue' = queue
      /\ uploads' = uploads /\ bucket' = bucket /\ late' = late
      /\ overtaken' = overtaken /\ urls' = urls /\ rec' = rec
  BY DEF Ask, Idle, rows, store
<1>c. /\ client' \in [Clients -> Requests]
      /\ client'[c].pc = what /\ client'[c].identity = i /\ client'[c].object = o
      /\ client'[c].id = 0 /\ client'[c].at = now
      /\ \A d \in Clients \ {c} : client'[d] = client[d]
  <2> DEFINE l == [Idle EXCEPT !.pc = what, !.identity = i, !.object = o, !.at = now]
  <2>0. now \in Int /\ client[c] \in Requests
    BY DEF Typed
  <2>1. l \in Requests
    BY <2>0 DEF Requests, Idle
  <2>2. client' = [client EXCEPT ![c] = l]
    BY Zenon DEF Ask
  <2>3. client \in [Clients -> Requests]
    BY DEF Typed
  <2> QED BY <2>1, <2>2, <2>3 DEF Ask, Idle, Requests
<1>1. Typed'
  BY <1>u, <1>c DEF Typed
<1>2. RefsSound'
  BY <1>u DEF RefsSound
<1>3. ClientsTimely'
  BY <1>u, <1>c DEF ClientsTimely
<1>4. PassesSound'
  BY <1>u DEF PassesSound
<1>5. QueueSound'
  BY <1>u DEF QueueSound, InQueue
<1>6. UploadsSound'
  BY <1>u DEF UploadsSound
<1>7. ClaimsSound'
  BY <1>u DEF ClaimsSound
<1>8. HoldingSound'
  BY <1>u DEF HoldingSound, HoldsSoundly
<1>9. BytesSound'
  BY <1>u DEF BytesSound
<1>10. VerifiedSound'
  BY <1>u, <1>c DEF VerifiedSound
<1>11. UrlsSound'
  BY <1>u DEF UrlsSound, UrlEnds
<1>12. CommittedSound'
  BY <1>u DEF CommittedSound, InQueue, Claiming
<1>13. RecentSound'
  BY <1>u DEF RecentSound, Claiming
<1> QED BY <1>1, <1>2, <1>3, <1>4, <1>5, <1>6, <1>7, <1>8, <1>9, <1>10, <1>11, <1>12, <1>13 DEF CacheInv

LEMMA AskCommitKeeps ==
  ASSUME NEW c \in Clients, CacheInv, AskCommit(c)
  PROVE  CacheInv'
<1>i. Typed /\ RefsSound /\ ClientsTimely /\ PassesSound /\ QueueSound /\ UploadsSound
      /\ ClaimsSound /\ HoldingSound /\ BytesSound /\ VerifiedSound /\ UrlsSound
      /\ CommittedSound /\ RecentSound /\ Numbers
  BY TypeFacts DEF CacheInv
<1> USE ConstantFacts, <1>i DEF Numbers
<1>u. /\ now' = now /\ issued' = issued /\ refs' = refs /\ objects' = objects /\ queue' = queue
      /\ uploads' = uploads /\ bucket' = bucket /\ late' = late
      /\ overtaken' = overtaken /\ urls' = urls /\ rec' = rec
  BY DEF AskCommit, rows, store
<1>c. /\ client' \in [Clients -> Requests]
      /\ client[c].pc = "upload" /\ client'[c].pc = "commit"
      /\ client'[c].identity = client[c].identity /\ client'[c].object = client[c].object
      /\ client'[c].id = client[c].id /\ client'[c].at = now
      /\ \A d \in Clients \ {c} : client'[d] = client[d]
  <2> DEFINE l == [client[c] EXCEPT !.pc = "commit", !.at = now]
  <2>0. now \in Int /\ client[c] \in Requests
    BY DEF Typed
  <2>1. l \in Requests
    BY <2>0 DEF Requests, Typed
  <2>2. client' = [client EXCEPT ![c] = l]
    BY Zenon DEF AskCommit
  <2>3. client \in [Clients -> Requests]
    BY DEF Typed
  <2> QED BY <2>1, <2>2, <2>3 DEF AskCommit, Requests
<1>1. Typed'
  BY <1>u, <1>c DEF Typed
<1>2. RefsSound'
  BY <1>u DEF RefsSound
<1>3. ClientsTimely'
  BY <1>u, <1>c DEF ClientsTimely
<1>4. PassesSound'
  BY <1>u DEF PassesSound
<1>5. QueueSound'
  BY <1>u DEF QueueSound, InQueue
<1>6. UploadsSound'
  BY <1>u DEF UploadsSound
<1>7. ClaimsSound'
  BY <1>u DEF ClaimsSound
<1>8. HoldingSound'
  BY <1>u DEF HoldingSound, HoldsSoundly
<1>9. BytesSound'
  BY <1>u DEF BytesSound
<1>10. VerifiedSound'
  BY <1>u, <1>c DEF VerifiedSound
<1>11. UrlsSound'
  BY <1>u DEF UrlsSound, UrlEnds
<1>12. CommittedSound'
  BY <1>u DEF CommittedSound, InQueue, Claiming
<1>13. RecentSound'
  BY <1>u DEF RecentSound, Claiming
<1> QED BY <1>1, <1>2, <1>3, <1>4, <1>5, <1>6, <1>7, <1>8, <1>9, <1>10, <1>11, <1>12, <1>13 DEF CacheInv

LEMMA VerifyKeeps ==
  ASSUME NEW c \in Clients, CacheInv, Verify(c)
  PROVE  CacheInv'
<1>i. Typed /\ RefsSound /\ ClientsTimely /\ PassesSound /\ QueueSound /\ UploadsSound
      /\ ClaimsSound /\ HoldingSound /\ BytesSound /\ VerifiedSound /\ UrlsSound
      /\ CommittedSound /\ RecentSound /\ Numbers
  BY TypeFacts DEF CacheInv
<1> USE ConstantFacts, <1>i DEF Numbers
<1>u. /\ now' = now /\ issued' = issued /\ refs' = refs /\ objects' = objects /\ queue' = queue
      /\ uploads' = uploads /\ bucket' = bucket /\ late' = late
      /\ overtaken' = overtaken /\ urls' = urls /\ rec' = rec
  BY DEF Verify, Goes, Live, rows, store
<1>c. /\ client' \in [Clients -> Requests]
      /\ client[c].pc = "commit" /\ client[c].object \in bucket
      /\ client'[c].pc = "verified"
      /\ client'[c].identity = client[c].identity /\ client'[c].object = client[c].object
      /\ client'[c].id = client[c].id /\ client'[c].at = client[c].at
      /\ \A d \in Clients \ {c} : client'[d] = client[d]
  BY DEF Verify, Goes, Live, Typed, Requests, rows, store
<1>1. Typed'
  BY <1>u, <1>c DEF Typed
<1>2. RefsSound'
  BY <1>u DEF RefsSound
<1>3. ClientsTimely'
  BY <1>u, <1>c DEF ClientsTimely
<1>4. PassesSound'
  BY <1>u DEF PassesSound
<1>5. QueueSound'
  BY <1>u DEF QueueSound, InQueue
<1>6. UploadsSound'
  BY <1>u DEF UploadsSound
<1>7. ClaimsSound'
  BY <1>u DEF ClaimsSound
<1>8. HoldingSound'
  BY <1>u DEF HoldingSound, HoldsSoundly
<1>9. BytesSound'
  BY <1>u DEF BytesSound
<1>10. VerifiedSound'
  BY <1>u, <1>c DEF VerifiedSound
<1>11. UrlsSound'
  BY <1>u DEF UrlsSound, UrlEnds
<1>12. CommittedSound'
  BY <1>u DEF CommittedSound, InQueue, Claiming
<1>13. RecentSound'
  BY <1>u DEF RecentSound, Claiming
<1> QED BY <1>1, <1>2, <1>3, <1>4, <1>5, <1>6, <1>7, <1>8, <1>9, <1>10, <1>11, <1>12, <1>13 DEF CacheInv

LEMMA NothingChangedKeeps ==
  ASSUME NEW c \in Clients, CacheInv, NothingChanged(c)
  PROVE  CacheInv'
<1>i. Typed /\ RefsSound /\ ClientsTimely /\ PassesSound /\ QueueSound /\ UploadsSound
      /\ ClaimsSound /\ HoldingSound /\ BytesSound /\ VerifiedSound /\ UrlsSound
      /\ CommittedSound /\ RecentSound /\ Numbers
  BY TypeFacts DEF CacheInv
<1> USE ConstantFacts, <1>i DEF Numbers
<1>u. /\ now' = now /\ issued' = issued /\ refs' = refs /\ objects' = objects /\ queue' = queue
      /\ uploads' = uploads /\ bucket' = bucket /\ late' = late
      /\ overtaken' = overtaken /\ urls' = urls /\ rec' = rec
  BY DEF NothingChanged, Ends, Idle, rows, store
<1>c. /\ client' \in [Clients -> Requests]
      /\ client'[c].pc = "idle" /\ client'[c].id = 0
      /\ \A d \in Clients \ {c} : client'[d] = client[d]
  BY DEF NothingChanged, Ends, Idle, Typed, Requests, rows, store
<1>1. Typed'
  BY <1>u, <1>c DEF Typed
<1>2. RefsSound'
  BY <1>u DEF RefsSound
<1>3. ClientsTimely'
  BY <1>u, <1>c DEF ClientsTimely
<1>4. PassesSound'
  BY <1>u DEF PassesSound
<1>5. QueueSound'
  BY <1>u DEF QueueSound, InQueue
<1>6. UploadsSound'
  BY <1>u DEF UploadsSound
<1>7. ClaimsSound'
  BY <1>u DEF ClaimsSound
<1>8. HoldingSound'
  BY <1>u DEF HoldingSound, HoldsSoundly
<1>9. BytesSound'
  BY <1>u DEF BytesSound
<1>10. VerifiedSound'
  BY <1>u, <1>c DEF VerifiedSound
<1>11. UrlsSound'
  BY <1>u DEF UrlsSound, UrlEnds
<1>12. CommittedSound'
  BY <1>u DEF CommittedSound, InQueue, Claiming
<1>13. RecentSound'
  BY <1>u DEF RecentSound, Claiming
<1> QED BY <1>1, <1>2, <1>3, <1>4, <1>5, <1>6, <1>7, <1>8, <1>9, <1>10, <1>11, <1>12, <1>13 DEF CacheInv

LEMMA StartPassKeeps ==
  ASSUME NEW w \in Reconcilers, CacheInv, StartPass(w)
  PROVE  CacheInv'
<1>i. Typed /\ RefsSound /\ ClientsTimely /\ PassesSound /\ QueueSound /\ UploadsSound
      /\ ClaimsSound /\ HoldingSound /\ BytesSound /\ VerifiedSound /\ UrlsSound
      /\ CommittedSound /\ RecentSound /\ Numbers
  BY TypeFacts DEF CacheInv
<1> USE ConstantFacts, <1>i DEF Numbers
<1>u. /\ now' = now /\ issued' = issued /\ refs' = refs /\ objects' = objects /\ queue' = queue
      /\ uploads' = uploads /\ bucket' = bucket /\ late' = late /\ overtaken' = overtaken /\ urls' = urls
      /\ client' = client
  BY DEF StartPass, Resting, rows, store
<1>r. /\ rec' \in [Reconcilers -> Passes]
      /\ rec'[w].pc = "references"
      /\ rec'[w].at = now
      /\ rec'[w].locked = {}
      /\ rec'[w].queued = {}
      /\ rec'[w].todo = {}
      /\ rec'[w].done = {}
      /\ \A x \in Reconcilers \ {w} : rec'[x] = rec[x]
  <2> DEFINE l == [Resting EXCEPT !.pc = "references", !.at = now]
  <2>0. now \in Int /\ rec[w] \in Passes
    BY DEF Typed
  <2>1. l \in Passes
    BY <2>0 DEF Passes, Resting
  <2>2. rec' = [rec EXCEPT ![w] = l]
    BY Zenon DEF StartPass
  <2>3. rec \in [Reconcilers -> Passes]
    BY DEF Typed
  <2> QED BY <2>1, <2>2, <2>3 DEF Resting, Passes
<1>1. Typed'
  BY <1>u, <1>r DEF Typed
<1>2. RefsSound'
  BY <1>u DEF RefsSound
<1>3. ClientsTimely'
  BY <1>u DEF ClientsTimely
<1>4. PassesSound'
  BY <1>u, <1>r DEF PassesSound
<1>5. QueueSound'
  BY <1>u DEF QueueSound, InQueue
<1>6. UploadsSound'
  BY <1>u DEF UploadsSound
<1>7. ClaimsSound'
  BY <1>u DEF ClaimsSound
<1>8. HoldingSound'
  <2>0. \A x \in Reconcilers \ {w} : rec'[x] = rec[x]
    BY <1>r
  <2>1. ASSUME NEW x \in Reconcilers \ {w} PROVE HoldsSoundly(x)'
    BY <2>1, <2>0, <1>u DEF HoldingSound, HoldsSoundly
  <2>2. HoldsSoundly(w)'
    BY <1>u, <1>r DEF HoldingSound, HoldsSoundly
  <2> QED BY <2>1, <2>2 DEF HoldingSound
<1>9. BytesSound'
  BY <1>u DEF BytesSound
<1>10. VerifiedSound'
  BY <1>u DEF VerifiedSound
<1>11. UrlsSound'
  BY <1>u DEF UrlsSound, UrlEnds
<1>12. CommittedSound'
  BY <1>u, <1>r DEF CommittedSound, InQueue, Claiming
<1>13. RecentSound'
  BY <1>u, <1>r DEF RecentSound, Claiming
<1> QED BY <1>1, <1>2, <1>3, <1>4, <1>5, <1>6, <1>7, <1>8, <1>9, <1>10, <1>11, <1>12, <1>13 DEF CacheInv

LEMMA EndPassKeeps ==
  ASSUME NEW w \in Reconcilers, CacheInv, EndPass(w)
  PROVE  CacheInv'
<1>i. Typed /\ RefsSound /\ ClientsTimely /\ PassesSound /\ QueueSound /\ UploadsSound
      /\ ClaimsSound /\ HoldingSound /\ BytesSound /\ VerifiedSound /\ UrlsSound
      /\ CommittedSound /\ RecentSound /\ Numbers
  BY TypeFacts DEF CacheInv
<1> USE ConstantFacts, <1>i DEF Numbers
<1>u. /\ now' = now /\ issued' = issued /\ refs' = refs /\ objects' = objects /\ queue' = queue
      /\ uploads' = uploads /\ bucket' = bucket /\ late' = late /\ overtaken' = overtaken /\ urls' = urls
      /\ client' = client
  BY DEF EndPass, Resting, rows, store
<1>r. /\ rec' \in [Reconcilers -> Passes]
      /\ rec'[w].pc = "idle"
      /\ rec'[w].at = -1
      /\ rec'[w].locked = {}
      /\ rec'[w].queued = {}
      /\ rec'[w].todo = {}
      /\ rec'[w].done = {}
      /\ \A x \in Reconcilers \ {w} : rec'[x] = rec[x]
  BY DEF EndPass, Resting, Typed, Passes, rows, store
<1>1. Typed'
  BY <1>u, <1>r DEF Typed
<1>2. RefsSound'
  BY <1>u DEF RefsSound
<1>3. ClientsTimely'
  BY <1>u DEF ClientsTimely
<1>4. PassesSound'
  BY <1>u, <1>r DEF PassesSound
<1>5. QueueSound'
  BY <1>u DEF QueueSound, InQueue
<1>6. UploadsSound'
  BY <1>u DEF UploadsSound
<1>7. ClaimsSound'
  BY <1>u DEF ClaimsSound
<1>8. HoldingSound'
  <2>0. \A x \in Reconcilers \ {w} : rec'[x] = rec[x]
    BY <1>r
  <2>1. ASSUME NEW x \in Reconcilers \ {w} PROVE HoldsSoundly(x)'
    BY <2>1, <2>0, <1>u DEF HoldingSound, HoldsSoundly
  <2>2. HoldsSoundly(w)'
    BY <1>u, <1>r DEF HoldingSound, HoldsSoundly
  <2> QED BY <2>1, <2>2 DEF HoldingSound
<1>9. BytesSound'
  BY <1>u DEF BytesSound
<1>10. VerifiedSound'
  BY <1>u DEF VerifiedSound
<1>11. UrlsSound'
  BY <1>u DEF UrlsSound, UrlEnds
<1>12. CommittedSound'
  BY <1>u, <1>r DEF CommittedSound, InQueue, Claiming
<1>13. RecentSound'
  BY <1>u, <1>r DEF RecentSound, Claiming
<1> QED BY <1>1, <1>2, <1>3, <1>4, <1>5, <1>6, <1>7, <1>8, <1>9, <1>10, <1>11, <1>12, <1>13 DEF CacheInv

LEMMA CleanupDoneKeeps ==
  ASSUME NEW w \in Reconcilers, CacheInv, CleanupDone(w)
  PROVE  CacheInv'
<1>i. Typed /\ RefsSound /\ ClientsTimely /\ PassesSound /\ QueueSound /\ UploadsSound
      /\ ClaimsSound /\ HoldingSound /\ BytesSound /\ VerifiedSound /\ UrlsSound
      /\ CommittedSound /\ RecentSound /\ Numbers
  BY TypeFacts DEF CacheInv
<1> USE ConstantFacts, <1>i DEF Numbers
<1>u. /\ now' = now /\ issued' = issued /\ refs' = refs /\ objects' = objects /\ queue' = queue
      /\ uploads' = uploads /\ bucket' = bucket /\ late' = late /\ overtaken' = overtaken /\ urls' = urls
      /\ client' = client
  BY DEF CleanupDone, Step, rows, store
<1>p. rec[w].pc = "cleanup" /\ rec[w].todo = {}
  BY DEF CleanupDone, Step
<1>r. /\ rec' \in [Reconcilers -> Passes]
      /\ rec'[w].pc = "deletions"
      /\ rec'[w].at = rec[w].at
      /\ rec'[w].locked = rec[w].locked
      /\ rec'[w].queued = rec[w].queued
      /\ rec'[w].todo = rec[w].todo
      /\ rec'[w].done = rec[w].done
      /\ \A x \in Reconcilers \ {w} : rec'[x] = rec[x]
  BY DEF CleanupDone, Step, Typed, Passes, rows, store
<1>1. Typed'
  BY <1>u, <1>r DEF Typed
<1>2. RefsSound'
  BY <1>u DEF RefsSound
<1>3. ClientsTimely'
  BY <1>u DEF ClientsTimely
<1>4. PassesSound'
  BY <1>u, <1>r, <1>p DEF PassesSound
<1>5. QueueSound'
  BY <1>u DEF QueueSound, InQueue
<1>6. UploadsSound'
  BY <1>u DEF UploadsSound
<1>7. ClaimsSound'
  BY <1>u DEF ClaimsSound
<1>8. HoldingSound'
  <2>0. \A x \in Reconcilers \ {w} : rec'[x] = rec[x]
    BY <1>r
  <2>1. ASSUME NEW x \in Reconcilers \ {w} PROVE HoldsSoundly(x)'
    BY <2>1, <2>0, <1>u DEF HoldingSound, HoldsSoundly
  <2>2. HoldsSoundly(w)'
    BY <1>u, <1>r, <1>p DEF HoldingSound, HoldsSoundly
  <2> QED BY <2>1, <2>2 DEF HoldingSound
<1>9. BytesSound'
  BY <1>u DEF BytesSound
<1>10. VerifiedSound'
  BY <1>u DEF VerifiedSound
<1>11. UrlsSound'
  BY <1>u DEF UrlsSound, UrlEnds
<1>12. CommittedSound'
  BY <1>u, <1>r, <1>p DEF CommittedSound, InQueue, Claiming
<1>13. RecentSound'
  BY <1>u, <1>r, <1>p DEF RecentSound, Claiming
<1> QED BY <1>1, <1>2, <1>3, <1>4, <1>5, <1>6, <1>7, <1>8, <1>9, <1>10, <1>11, <1>12, <1>13 DEF CacheInv

LEMMA DeletionsClaimedKeeps ==
  ASSUME NEW w \in Reconcilers, CacheInv, DeletionsClaimed(w)
  PROVE  CacheInv'
<1>i. Typed /\ RefsSound /\ ClientsTimely /\ PassesSound /\ QueueSound /\ UploadsSound
      /\ ClaimsSound /\ HoldingSound /\ BytesSound /\ VerifiedSound /\ UrlsSound
      /\ CommittedSound /\ RecentSound /\ Numbers
  BY TypeFacts DEF CacheInv
<1> USE ConstantFacts, <1>i DEF Numbers
<1>u. /\ now' = now /\ issued' = issued /\ refs' = refs /\ objects' = objects /\ queue' = queue
      /\ uploads' = uploads /\ bucket' = bucket /\ late' = late /\ overtaken' = overtaken /\ urls' = urls
      /\ client' = client
  BY DEF DeletionsClaimed, Step, rows, store
<1>p. rec[w].pc = "deletions"
  BY DEF DeletionsClaimed, Step
<1>r. /\ rec' \in [Reconcilers -> Passes]
      /\ rec'[w].pc = "delete"
      /\ rec'[w].at = rec[w].at
      /\ rec'[w].locked = rec[w].locked
      /\ rec'[w].queued = rec[w].queued
      /\ rec'[w].todo = rec[w].todo
      /\ rec'[w].done = rec[w].done
      /\ \A x \in Reconcilers \ {w} : rec'[x] = rec[x]
  BY DEF DeletionsClaimed, Step, Typed, Passes, rows, store
<1>1. Typed'
  BY <1>u, <1>r DEF Typed
<1>2. RefsSound'
  BY <1>u DEF RefsSound
<1>3. ClientsTimely'
  BY <1>u DEF ClientsTimely
<1>4. PassesSound'
  BY <1>u, <1>r, <1>p DEF PassesSound
<1>5. QueueSound'
  BY <1>u DEF QueueSound, InQueue
<1>6. UploadsSound'
  BY <1>u DEF UploadsSound
<1>7. ClaimsSound'
  BY <1>u DEF ClaimsSound
<1>8. HoldingSound'
  <2>0. \A x \in Reconcilers \ {w} : rec'[x] = rec[x]
    BY <1>r
  <2>1. ASSUME NEW x \in Reconcilers \ {w} PROVE HoldsSoundly(x)'
    BY <2>1, <2>0, <1>u DEF HoldingSound, HoldsSoundly
  <2>2. HoldsSoundly(w)'
    BY <1>u, <1>r, <1>p DEF HoldingSound, HoldsSoundly
  <2> QED BY <2>1, <2>2 DEF HoldingSound
<1>9. BytesSound'
  BY <1>u DEF BytesSound
<1>10. VerifiedSound'
  BY <1>u DEF VerifiedSound
<1>11. UrlsSound'
  BY <1>u DEF UrlsSound, UrlEnds
<1>12. CommittedSound'
  BY <1>u, <1>r, <1>p DEF CommittedSound, InQueue, Claiming
<1>13. RecentSound'
  BY <1>u, <1>r, <1>p DEF RecentSound, Claiming
<1> QED BY <1>1, <1>2, <1>3, <1>4, <1>5, <1>6, <1>7, <1>8, <1>9, <1>10, <1>11, <1>12, <1>13 DEF CacheInv

LEMMA NextBatchKeeps ==
  ASSUME NEW w \in Reconcilers, CacheInv, NextBatch(w)
  PROVE  CacheInv'
<1>i. Typed /\ RefsSound /\ ClientsTimely /\ PassesSound /\ QueueSound /\ UploadsSound
      /\ ClaimsSound /\ HoldingSound /\ BytesSound /\ VerifiedSound /\ UrlsSound
      /\ CommittedSound /\ RecentSound /\ Numbers
  BY TypeFacts DEF CacheInv
<1> USE ConstantFacts, <1>i DEF Numbers
<1>u. /\ now' = now /\ issued' = issued /\ refs' = refs /\ objects' = objects /\ queue' = queue
      /\ uploads' = uploads /\ bucket' = bucket /\ late' = late /\ overtaken' = overtaken /\ urls' = urls
      /\ client' = client
  BY DEF NextBatch, Step, AllDeleted, rows, store
<1>p. rec[w].pc = "delete" /\ rec[w].todo = {} /\ rec[w].done = {}
  BY DEF NextBatch, Step, AllDeleted
<1>r. /\ rec' \in [Reconcilers -> Passes]
      /\ rec'[w].pc = "references"
      /\ rec'[w].at = rec[w].at
      /\ rec'[w].locked = rec[w].locked
      /\ rec'[w].queued = rec[w].queued
      /\ rec'[w].todo = rec[w].todo
      /\ rec'[w].done = rec[w].done
      /\ \A x \in Reconcilers \ {w} : rec'[x] = rec[x]
  BY DEF NextBatch, Step, AllDeleted, Typed, Passes, rows, store
<1>1. Typed'
  BY <1>u, <1>r DEF Typed
<1>2. RefsSound'
  BY <1>u DEF RefsSound
<1>3. ClientsTimely'
  BY <1>u DEF ClientsTimely
<1>4. PassesSound'
  BY <1>u, <1>r, <1>p DEF PassesSound
<1>5. QueueSound'
  BY <1>u DEF QueueSound, InQueue
<1>6. UploadsSound'
  BY <1>u DEF UploadsSound
<1>7. ClaimsSound'
  BY <1>u DEF ClaimsSound
<1>8. HoldingSound'
  <2>0. \A x \in Reconcilers \ {w} : rec'[x] = rec[x]
    BY <1>r
  <2>1. ASSUME NEW x \in Reconcilers \ {w} PROVE HoldsSoundly(x)'
    BY <2>1, <2>0, <1>u DEF HoldingSound, HoldsSoundly
  <2>2. HoldsSoundly(w)'
    BY <1>u, <1>r, <1>p DEF HoldingSound, HoldsSoundly
  <2> QED BY <2>1, <2>2 DEF HoldingSound
<1>9. BytesSound'
  BY <1>u DEF BytesSound
<1>10. VerifiedSound'
  BY <1>u DEF VerifiedSound
<1>11. UrlsSound'
  BY <1>u DEF UrlsSound, UrlEnds
<1>12. CommittedSound'
  BY <1>u, <1>r, <1>p DEF CommittedSound, InQueue, Claiming
<1>13. RecentSound'
  BY <1>u, <1>r, <1>p DEF RecentSound, Claiming
<1> QED BY <1>1, <1>2, <1>3, <1>4, <1>5, <1>6, <1>7, <1>8, <1>9, <1>10, <1>11, <1>12, <1>13 DEF CacheInv

LEMMA PutKeeps ==
  ASSUME NEW c \in Clients, CacheInv, Put(c)
  PROVE  CacheInv'
<1>i. Typed /\ RefsSound /\ ClientsTimely /\ PassesSound /\ QueueSound /\ UploadsSound
      /\ ClaimsSound /\ HoldingSound /\ BytesSound /\ VerifiedSound /\ UrlsSound
      /\ CommittedSound /\ RecentSound /\ Numbers
  BY TypeFacts DEF CacheInv
<1> USE ConstantFacts, <1>i DEF Numbers
<1>u. /\ now' = now /\ issued' = issued /\ refs' = refs /\ objects' = objects /\ queue' = queue
      /\ uploads' = uploads /\ urls' = urls /\ client' = client /\ rec' = rec
      /\ overtaken' = overtaken
  BY DEF Put, rows, store
<1>1p. PICK o \in Objects : o = client[c].object
  BY DEF ClientsTimely, Put
<1>b. /\ o \notin bucket /\ bucket' = bucket \cup {o} /\ client[c].id > 0
      /\ late' = late \/ late' = late \cup {o}
      /\ uploads[o].id # client[c].id => late' = late \cup {o}
  BY <1>1p DEF Put, ClientsTimely
<1>e. uploads[o] = NoUpload => o \in late'
  BY <1>b DEF NoUpload
<1>1. Typed'
  BY <1>u, <1>b DEF Typed
<1>2. RefsSound'
  BY <1>u DEF RefsSound
<1>3. ClientsTimely'
  BY <1>u DEF ClientsTimely
<1>4. PassesSound'
  BY <1>u DEF PassesSound
<1>5. QueueSound'
  BY <1>u DEF QueueSound, InQueue
<1>6. UploadsSound'
  BY <1>u DEF UploadsSound
<1>7. ClaimsSound'
  BY <1>u DEF ClaimsSound
<1>8. HoldingSound'
  <2> SUFFICES ASSUME NEW w \in Reconcilers PROVE HoldsSoundly(w)'
    BY DEF HoldingSound
  <2>1. HoldsSoundly(w) /\ w # "none"
    BY ConstantFacts DEF HoldingSound
  <2>2. queue[o].claim = w => o \in late' \cup overtaken
    BY <2>1, <1>e DEF ClaimsSound
  <2> QED BY <2>1, <2>2, <1>u, <1>b DEF HoldsSoundly
<1>9. BytesSound'
  BY <1>u, <1>b, <1>e DEF BytesSound
<1>10. VerifiedSound'
  BY <1>u, <1>b, <1>e DEF VerifiedSound
<1>11. UrlsSound'
  BY <1>u DEF UrlsSound, UrlEnds
<1>12. CommittedSound'
  BY <1>u DEF CommittedSound, InQueue, Claiming
<1>13. RecentSound'
  BY <1>u DEF RecentSound, Claiming
<1> QED BY <1>1, <1>2, <1>3, <1>4, <1>5, <1>6, <1>7, <1>8, <1>9, <1>10, <1>11, <1>12, <1>13 DEF CacheInv

LEMMA PrepareCurrentKeeps ==
  ASSUME NEW c \in Clients, CacheInv, PrepareCurrent(c)
  PROVE  CacheInv'
<1>i. Typed /\ RefsSound /\ ClientsTimely /\ PassesSound /\ QueueSound /\ UploadsSound
      /\ ClaimsSound /\ HoldingSound /\ BytesSound /\ VerifiedSound /\ UrlsSound
      /\ CommittedSound /\ RecentSound /\ Numbers
  BY TypeFacts DEF CacheInv
<1> USE ConstantFacts, <1>i DEF Numbers
<1>u. /\ now' = now /\ issued' = issued /\ objects' = objects /\ uploads' = uploads
      /\ bucket' = bucket /\ late' = late /\ overtaken' = overtaken /\ urls' = urls /\ rec' = rec
  BY DEF PrepareCurrent, Preparing, rows, store
<1>a. client[c].at \in Int /\ Current(client[c].at) /\ now =< client[c].at + MaxLag
      /\ client[c].identity \in Identities
  BY RequestIsCurrent DEF PrepareCurrent, Preparing
<1>d. /\ Dropped(refs') /\ Postponed(queue', now + LeaseTerm)
      /\ \A o \in Objects \ overtaken : UrlEnds(refs', queue', o)
  BY <1>a, KeptFact DEF PrepareCurrent
<1>c. /\ client' \in [Clients -> Requests]
      /\ client'[c].pc = "idle" /\ client'[c].id = 0
      /\ \A d \in Clients \ {c} : client'[d] = client[d]
  BY DEF PrepareCurrent, Ends, Idle, Typed, Requests, rows, store
<1>1. Typed'
  BY <1>u, <1>d, <1>c DEF Typed, Dropped, Postponed
<1>2. RefsSound'
  BY <1>u, <1>d DEF RefsSound, Dropped
<1>3. ClientsTimely'
  BY <1>u, <1>c DEF ClientsTimely
<1>4. PassesSound'
  BY <1>u, <1>a, KeptLocked, PassesKept DEF PrepareCurrent, Preparing
<1>5. QueueSound'
  BY <1>u, <1>d DEF QueueSound, InQueue, Postponed
<1>6. UploadsSound'
  BY <1>u DEF UploadsSound
<1>7. ClaimsSound'
  BY <1>u, <1>d, ReferencedDropped DEF ClaimsSound, Postponed
<1>8. HoldingSound'
  BY <1>u, <1>d, HoldingKept DEF Postponed
<1>9. BytesSound'
  BY <1>u, <1>d DEF BytesSound, Postponed
<1>10. VerifiedSound'
  BY <1>u, <1>c DEF VerifiedSound
<1>11. UrlsSound'
  BY <1>u, <1>d DEF UrlsSound, UrlEnds
<1>12. CommittedSound'
  <2>1. \A o \in Objects : \/ queue'[o] = queue[o]
                           \/ queue'[o].notBefore \in Int /\ queue'[o].notBefore >= now + LeaseTerm
    BY <1>d DEF Postponed, Times
  <2> QED BY <2>1, <1>u, CommittedKept
<1>13. RecentSound'
  <2>1. \A j \in Identities : refs'[j] = refs[j] \/ refs'[j].object \notin Objects
    BY <1>d DEF Dropped, NoRef
  <2> QED BY <2>1, <1>u DEF RecentSound, Claiming
<1> QED BY <1>1, <1>2, <1>3, <1>4, <1>5, <1>6, <1>7, <1>8, <1>9, <1>10, <1>11, <1>12, <1>13 DEF CacheInv

LEMMA PrepareStoredKeeps ==
  ASSUME NEW c \in Clients, CacheInv, PrepareStored(c)
  PROVE  CacheInv'
<1>i. Typed /\ RefsSound /\ ClientsTimely /\ PassesSound /\ QueueSound /\ UploadsSound
      /\ ClaimsSound /\ HoldingSound /\ BytesSound /\ VerifiedSound /\ UrlsSound
      /\ CommittedSound /\ RecentSound /\ Numbers
  BY TypeFacts DEF CacheInv
<1> USE ConstantFacts, <1>i DEF Numbers
<1>u. /\ now' = now /\ issued' = issued /\ objects' = objects /\ uploads' = uploads
      /\ bucket' = bucket /\ late' = late /\ overtaken' = overtaken /\ urls' = urls /\ rec' = rec
  BY DEF PrepareStored, Preparing, rows, store
<1>a. client[c].at \in Int /\ Current(client[c].at) /\ now =< client[c].at + MaxLag
      /\ client[c].identity \in Identities
  BY RequestIsCurrent DEF PrepareStored, Preparing
<1>b. PICK at \in Int, i \in Identities, o \in Objects :
        at = client[c].at /\ i = client[c].identity /\ o = client[c].object
  BY <1>a DEF ClientsTimely, PrepareStored, Preparing
<1>k. PICK r, q :
        /\ r = Kept(at) /\ q = QueueAfterExpiry(at)
        /\ Dropped(r) /\ Postponed(q, now + LeaseTerm) /\ \A p \in Objects \ overtaken : UrlEnds(r, q, p)
  BY <1>a, <1>b, KeptFact
<1>l. /\ r[i] = NoRef /\ o \in objects /\ queue[o].claim = "none" /\ i \notin Locked
      /\ refs' = Inserted(r, i, o, at) /\ queue' = Dequeued(q, o)
  BY <1>b, <1>k DEF PrepareStored, Preparing, DeletionIsClaimed
<1>f. /\ refs' \in [Identities -> Refs]
      /\ refs'[i].object = o /\ refs'[i].accessed = at /\ refs'[i].expires = at + ReferenceTTL
      /\ \A j \in Identities \ {i} : refs'[j] = refs[j] \/ refs'[j] = NoRef
      /\ \A j \in Identities \ {i} : refs'[j] = r[j]
  <2>1. PointTo(o, at) \in Refs /\ PointTo(o, at).object = o /\ PointTo(o, at).accessed = at
        /\ PointTo(o, at).expires = at + ReferenceTTL
    BY ConstantFacts DEF PointTo, Refs
  <2>2. refs' = [r EXCEPT ![i] = PointTo(o, at)]
    BY <1>l DEF Inserted
  <2> QED BY <2>1, <2>2, <1>k, Zenon DEF Dropped
<1>q. /\ queue' \in [Objects -> Entries] /\ queue'[o] = NoEntry /\ queue'[o].claim = "none"
      /\ \A p \in Objects \ {o} : queue'[p] = q[p]
  <2>1. NoEntry \in Entries /\ NoEntry.claim = "none"
    BY DEF NoEntry, Entries
  <2> QED BY <2>1, <1>k, <1>l, Zenon DEF Dequeued, Postponed
<1>s. \A p \in Objects \ {o} : p \in Referenced(refs') => p \in Referenced(refs)
  <2> SUFFICES ASSUME NEW p \in Objects \ {o}, p \in Referenced(refs')
               PROVE  p \in Referenced(refs)
    OBVIOUS
  <2>1. PICK j \in Identities : refs'[j].object = p
    BY <1>f, ReferencedFact
  <2>2. j # i /\ refs'[j] # NoRef
    BY <2>1, <1>f, ConstantFacts DEF NoRef
  <2>3. refs[j].object = p
    BY <1>f, <2>1, <2>2
  <2> QED BY <2>3, ReferencedFact DEF Typed
<1>c. /\ client' \in [Clients -> Requests]
      /\ client'[c].pc = "idle" /\ client'[c].id = 0
      /\ \A d \in Clients \ {c} : client'[d] = client[d]
  BY DEF PrepareStored, Ends, Idle, Typed, Requests, rows, store
<1>1. Typed'
  BY <1>u, <1>f, <1>q, <1>c DEF Typed
<1>2. RefsSound'
  BY <1>u, <1>f, <1>l, <1>a, <1>b DEF RefsSound, Current
<1>3. ClientsTimely'
  BY <1>u, <1>c DEF ClientsTimely
<1>4. PassesSound'
  <2>1. \A w \in Reconcilers : \A j \in rec[w].locked : j \in Locked /\ r[j] = refs[j]
    BY <1>b, <1>k, KeptLocked DEF PrepareStored, Preparing
  <2>2. \A w \in Reconcilers : \A j \in rec[w].locked : j \in Identities \ {i}
    BY <2>1, <1>l DEF Typed, Passes
  <2> QED BY <2>1, <2>2, <1>u, <1>f, PassesKept
<1>5. QueueSound'
  BY <1>u, <1>k, <1>q DEF QueueSound, InQueue, Postponed
<1>6. UploadsSound'
  BY <1>u DEF UploadsSound
<1>7. ClaimsSound'
  BY <1>u, <1>k, <1>q, <1>s DEF ClaimsSound, Postponed
<1>8. HoldingSound'
  <2>1. \A p \in Objects : queue'[p].claim # "none" => queue'[p].claim = queue[p].claim
    BY <1>k, <1>q DEF Postponed
  <2> QED BY <2>1, <1>u, HoldingKept
<1>9. BytesSound'
  BY <1>u, <1>k, <1>q, <1>l DEF BytesSound, Postponed
<1>10. VerifiedSound'
  BY <1>u, <1>c DEF VerifiedSound
<1>11. UrlsSound'
  <2> SUFFICES ASSUME NEW p \in Objects \ overtaken PROVE UrlEnds(refs', queue', p)
    BY <1>u DEF UrlsSound, UrlEnds
  <2>1. CASE p = o
    <3>1. urls[o] =< now + UrlTTL
      BY DEF UrlsSound
    <3>2. urls[o] =< refs'[i].accessed + MaxLag + UrlTTL
      BY <3>1, <1>a, <1>b, <1>f, ConstantFacts
    <3> QED BY <2>1, <1>f, <3>2 DEF UrlEnds
  <2>2. CASE p # o
    <3>1. UrlEnds(r, q, p)
      BY <1>k
    <3>2. \A j \in Identities : r[j].object = p => j # i
      BY <1>l, ConstantFacts DEF NoRef
    <3>3. \A j \in Identities : refs'[j].object = p => j # i
      BY <1>f, <2>2
    <3>4. queue'[p] = q[p]
      BY <1>q, <2>2
    <3>5. ASSUME NEW j \in Identities, r[j].object = p, urls[p] =< r[j].accessed + MaxLag + UrlTTL
          PROVE  UrlEnds(refs', queue', p)
      <4>1. refs'[j] = r[j]
        BY <1>f, <3>2, <3>5
      <4> QED BY <3>5, <4>1 DEF UrlEnds
    <3>6. ASSUME \A j \in Identities : r[j].object # p
          PROVE  \A j \in Identities : refs'[j].object # p
      BY <1>f, <3>3, <3>6
    <3> QED BY <3>1, <3>4, <3>5, <3>6 DEF UrlEnds
  <2> QED BY <2>1, <2>2
<1>12. CommittedSound'
  <2>1. \A p \in Objects : \/ queue'[p] = NoEntry \/ queue'[p] = queue[p]
                           \/ queue'[p].notBefore \in Int /\ queue'[p].notBefore >= now + LeaseTerm
    BY <1>k, <1>q DEF Postponed, Times
  <2>2. \A p \in Objects : uploads'[p].state = "committed" => uploads'[p] = uploads[p]
    BY <1>u
  <2> QED BY <2>1, <2>2, <1>u, CommittedKept
<1>13. RecentSound'
  <2> SUFFICES ASSUME NEW p \in Objects \ overtaken, NEW j \in Identities,
                      uploads[p].state = "committed", refs'[j].object = p
               PROVE  /\ uploads[p].expires =< refs'[j].accessed + MaxLag + LeaseTerm
                      /\ \A w \in Reconcilers : Claiming(w) =>
                           rec[w].at < uploads[p].expires \/ rec[w].at =< refs'[j].accessed + MaxLag
    BY <1>u DEF RecentSound, Claiming
  <2>1. CASE j = i
    <3>1. uploads[p].expires =< now + LeaseTerm
      BY DEF UploadsSound, NoUpload
    <3>2. now =< refs'[j].accessed + MaxLag
      BY <2>1, <1>a, <1>b, <1>f
    <3>3. \A w \in Reconcilers : Claiming(w) => rec[w].at =< now
      BY DEF PassesSound, Claiming
    <3> QED BY <2>1, <3>1, <3>2, <3>3, <1>b, <1>f
  <2>2. CASE j # i
    <3>1. refs'[j] = refs[j]
      BY <2>2, <1>f, ConstantFacts DEF NoRef
    <3> QED BY <3>1 DEF RecentSound
  <2> QED BY <2>1, <2>2
<1> QED BY <1>1, <1>2, <1>3, <1>4, <1>5, <1>6, <1>7, <1>8, <1>9, <1>10, <1>11, <1>12, <1>13 DEF CacheInv

\* A request that goes back to its upload keeps what it is about, and others are left alone.
LEMMA UploadGoes ==
  ASSUME NEW c \in Clients, client \in [Clients -> Requests], Goes(c, "upload")
  PROVE  /\ client' \in [Clients -> Requests]
         /\ client'[c].pc = "upload" /\ client'[c].identity = client[c].identity
         /\ client'[c].object = client[c].object /\ client'[c].id = client[c].id
         /\ \A d \in Clients \ {c} : client'[d] = client[d]
<1> DEFINE l == [client[c] EXCEPT !.pc = "upload"]
<1>1. l \in Requests /\ l.pc = "upload" /\ l.identity = client[c].identity
      /\ l.object = client[c].object /\ l.id = client[c].id
  BY DEF Requests
<1>2. client' = [client EXCEPT ![c] = l]
  BY DEF Goes
<1> HIDE DEF l
<1> QED
  BY <1>1, <1>2

LEMMA PrepareUploadKeeps ==
  ASSUME NEW c \in Clients, CacheInv, PrepareUpload(c)
  PROVE  CacheInv'
<1>i. Typed /\ RefsSound /\ ClientsTimely /\ PassesSound /\ QueueSound /\ UploadsSound
      /\ ClaimsSound /\ HoldingSound /\ BytesSound /\ VerifiedSound /\ UrlsSound
      /\ CommittedSound /\ RecentSound /\ Numbers
  BY TypeFacts DEF CacheInv
<1> USE ConstantFacts, <1>i DEF Numbers
<1>u. /\ now' = now /\ objects' = objects /\ bucket' = bucket /\ urls' = urls /\ rec' = rec
      /\ overtaken' = overtaken
  BY DEF PrepareUpload, Preparing, rows, store
<1>a. client[c].at \in Int /\ Current(client[c].at) /\ now =< client[c].at + MaxLag
      /\ client[c].identity \in Identities
  BY RequestIsCurrent DEF PrepareUpload, Preparing
<1>b. PICK at \in Int, i \in Identities, o \in Objects :
        at = client[c].at /\ i = client[c].identity /\ o = client[c].object
  BY <1>a DEF ClientsTimely, PrepareUpload, Preparing
<1>k. PICK r, q :
        /\ r = Kept(at) /\ q = QueueAfterExpiry(at)
        /\ Dropped(r) /\ Postponed(q, now + LeaseTerm) /\ \A p \in Objects \ overtaken : UrlEnds(r, q, p)
  BY <1>a, <1>b, KeptFact
<1>l. /\ r[i] = NoRef /\ o \notin objects /\ issued < MaxUploads /\ issued' = issued + 1
      /\ uploads' = [uploads EXCEPT ![o] = [NoUpload EXCEPT !.id = issued + 1, !.identity = i,
                                              !.state = "active", !.expires = at + LeaseTerm]]
  BY <1>b, <1>k, Zenon DEF PrepareUpload
<1>g. late' = late \ {o}
  BY <1>b DEF PrepareUpload
<1>v. PICK v \in Evictions(r, i) :
        /\ v \cap Locked = {} /\ refs' = Without(r, v)
        /\ queue' = QueueIfUnreferenced(q, Without(r, v), {refs[j].object : j \in v}, at)
  BY <1>b, <1>k, Zenon DEF PrepareUpload
<1>w. queue' = QueueIfUnreferenced(q, Without(r, v), {r[j].object : j \in v}, at)
  <2>1. \A j \in v : r[j] = refs[j]
    BY <1>k DEF Evictions, Present, Dropped
  <2>2. {refs[j].object : j \in v} = {r[j].object : j \in v}
    BY <2>1
  <2> QED BY <1>v, <2>2
<1>d. /\ Dropped(refs') /\ Postponed(queue', now + LeaseTerm)
      /\ \A p \in Objects \ overtaken : UrlEnds(refs', queue', p)
  <2>1. PICK left, gone : left = Without(r, v) /\ gone = {r[j].object : j \in v}
    OBVIOUS
  <2>2. PICK q1 : q1 = QueueIfUnreferenced(q, left, gone, at)
    OBVIOUS
  <2>3. Current(at) /\ now =< at + MaxLag
    BY <1>a, <1>b
  <2>8. at \in 0..now /\ now + LeaseTerm \in Int /\ now + LeaseTerm =< at + Grace
    BY <2>3 DEF Current
  <2>4. Postponed(q1, now + LeaseTerm)
    BY <2>2, <2>8, <1>k, PostponedFact
  <2>5. q1 = queue' /\ left = refs'
    BY <2>1, <2>2, <1>v, <1>w, Zenon
  <2>6. \A p \in Objects \ overtaken : UrlEnds(left, q1, p)
    <3>1. r \in [Identities -> Refs]
      BY <1>k DEF Dropped
    <3>2. q1 = QueueIfUnreferenced(q, Without(r, v), {r[j].object : j \in v}, at)
      BY <2>5, <1>w, Zenon
    <3> QED BY <2>1, <2>3, <3>1, <3>2, <1>k, <1>l, EvictedEnds
  <2>7. Dropped(left)
    <3>1. NoRef \in Refs
      BY DEF NoRef, Refs
    <3> QED BY <2>1, <3>1, <1>k DEF Dropped, Without
  <2> QED BY <2>4, <2>5, <2>6, <2>7, Zenon
<1>m. /\ uploads' \in [Objects -> Uploads]
      /\ uploads'[o].id = issued + 1 /\ uploads'[o].identity = i /\ uploads'[o].state = "active"
      /\ uploads'[o].expires = at + LeaseTerm /\ uploads'[o] # NoUpload
      /\ \A p \in Objects \ {o} : uploads'[p] = uploads[p]
  <2>1. at + LeaseTerm \in Int /\ issued + 1 \in Nat /\ issued + 1 # 0
    BY ConstantFacts, <1>b
  <2>2. PICK l : l = NewUpload(issued + 1, i, at + LeaseTerm)
    OBVIOUS
  <2>3. /\ l \in Uploads /\ l.id = issued + 1 /\ l.identity = i /\ l.state = "active"
        /\ l.expires = at + LeaseTerm
    BY <1>b, <2>1, <2>2, NewUploadFact
  <2>4. l # NoUpload
    BY <2>1, <2>3 DEF NoUpload
  <2>5. uploads' = [uploads EXCEPT ![o] = l]
    BY <1>l, <2>2, Zenon DEF NewUpload
  <2> QED BY <2>3, <2>4, <2>5, Zenon DEF Typed
<1>c. /\ client' \in [Clients -> Requests]
      /\ client'[c].pc = "upload" /\ client'[c].identity = client[c].identity
      /\ client'[c].object = client[c].object /\ client'[c].at = client[c].at
      /\ client'[c].id = issued + 1
      /\ \A d \in Clients \ {c} : client'[d] = client[d]
  <2> DEFINE l == [client[c] EXCEPT !.pc = "upload", !.id = issued + 1]
  <2>0. issued + 1 \in Nat /\ client[c] \in Requests
    BY DEF Typed
  <2>1. l \in Requests /\ l.pc = "upload" /\ l.identity = client[c].identity
        /\ l.object = client[c].object /\ l.at = client[c].at /\ l.id = issued + 1
    BY <2>0 DEF Requests
  <2>2. client' = [client EXCEPT ![c] = l]
    BY <1>l, Zenon DEF PrepareUpload
  <2> HIDE DEF l
  <2> QED BY <2>1, <2>2, Zenon DEF Typed
<1>1. Typed'
  BY <1>u, <1>d, <1>c, <1>l, <1>g, <1>m DEF Typed, Dropped, Postponed
<1>2. RefsSound'
  BY <1>u, <1>d DEF RefsSound, Dropped
<1>3. ClientsTimely'
  BY <1>u, <1>c, <1>l, <1>b DEF ClientsTimely, PrepareUpload, Preparing
<1>4. PassesSound'
  <2>1. \A w \in Reconcilers : \A j \in rec[w].locked : j \in Locked /\ r[j] = refs[j] /\ j \in Identities
    BY <1>b, <1>k, KeptLocked DEF PrepareUpload, Preparing, Typed, Passes
  <2>2. \A j \in Identities \cap Locked : refs'[j] = r[j]
    BY <1>v DEF Without
  <2> QED BY <2>1, <2>2, <1>u, PassesKept
<1>5. QueueSound'
  BY <1>u, <1>d DEF QueueSound, InQueue, Postponed
<1>6. UploadsSound'
  <2>1. /\ uploads'[o].id \in 1..issued' /\ uploads'[o].identity \in Identities
        /\ uploads'[o].expires \in 0..(now + LeaseTerm)
    BY <1>m, <1>l, <1>a, <1>b, ConstantFacts DEF Current
  <2>2. \A p \in Objects : uploads[p].id =< issued
    BY DEF UploadsSound, NoUpload
  <2> QED BY <2>1, <2>2, <1>m, <1>l, <1>u DEF UploadsSound
<1>7. ClaimsSound'
  BY <1>u, <1>d, <1>m, <1>l, ReferencedDropped DEF ClaimsSound, Postponed
<1>8. HoldingSound'
  <2>1. queue[o].claim = "none"
    BY <1>l DEF QueueSound, InQueue, NoEntry
  <2>2. \A p \in Objects : queue'[p].claim # "none"
                         => queue'[p].claim = queue[p].claim /\ (p \in late => p \in late')
    BY <2>1, <1>d, <1>g DEF Postponed
  <2> QED BY <2>2, <1>u, HoldingKept
<1>9. BytesSound'
  BY <1>u, <1>d, <1>m, <1>l, <1>g DEF BytesSound, Postponed
<1>10. VerifiedSound'
  <2>1. \A d \in Clients : client[d].id # issued + 1
    BY DEF ClientsTimely
  <2> QED BY <2>1, <1>u, <1>c, <1>m DEF VerifiedSound
<1>11. UrlsSound'
  BY <1>u, <1>d DEF UrlsSound, UrlEnds
<1>12. CommittedSound'
  <2>1. \A p \in Objects : \/ queue'[p] = NoEntry \/ queue'[p] = queue[p]
                           \/ queue'[p].notBefore \in Int /\ queue'[p].notBefore >= now + LeaseTerm
    BY <1>d DEF Postponed, Times
  <2>2. \A p \in Objects : uploads'[p].state = "committed" => uploads'[p] = uploads[p]
    BY <1>m
  <2> QED BY <2>1, <2>2, <1>u, CommittedKept
<1>13. RecentSound'
  <2>1. \A j \in Identities : refs'[j] = refs[j] \/ refs'[j].object \notin Objects
    BY <1>d DEF Dropped, NoRef
  <2>2. \A p \in Objects : uploads'[p].state = "committed" => uploads'[p] = uploads[p]
    BY <1>m
  <2> QED BY <2>1, <2>2, <1>u DEF RecentSound, Claiming
<1> QED BY <1>1, <1>2, <1>3, <1>4, <1>5, <1>6, <1>7, <1>8, <1>9, <1>10, <1>11, <1>12, <1>13 DEF CacheInv

LEMMA CommittedKeeps ==
  ASSUME NEW c \in Clients, CacheInv, Committed(c)
  PROVE  CacheInv'
<1>i. Typed /\ RefsSound /\ ClientsTimely /\ PassesSound /\ QueueSound /\ UploadsSound
      /\ ClaimsSound /\ HoldingSound /\ BytesSound /\ VerifiedSound /\ UrlsSound
      /\ CommittedSound /\ RecentSound /\ Numbers
  BY TypeFacts DEF CacheInv
<1> USE ConstantFacts, <1>i DEF Numbers
<1>u. /\ now' = now /\ issued' = issued /\ bucket' = bucket
      /\ late' = late /\ overtaken' = overtaken /\ urls' = urls
      /\ rec' = rec
  BY DEF Committed, rows, store
<1>a. client[c].at \in Int /\ Current(client[c].at) /\ now =< client[c].at + MaxLag
      /\ client[c].identity \in Identities
  BY RequestIsCurrent DEF Committed, Committing
<1>b. PICK at \in Int, i \in Identities, o \in Objects :
        at = client[c].at /\ i = client[c].identity /\ o = client[c].object
  BY <1>a DEF ClientsTimely, Committed, Committing
<1>c. /\ client' \in [Clients -> Requests]
      /\ \/ client'[c].pc = "idle" /\ client'[c].id = 0
         \/ /\ client'[c].pc = "upload" /\ client'[c].identity = client[c].identity
            /\ client'[c].object = client[c].object /\ client'[c].id = client[c].id
      /\ \A d \in Clients \ {c} : client'[d] = client[d]
  <2>1. CASE Ends(c)
    BY <2>1 DEF Ends, Idle, Typed, Requests
  <2>2. CASE Goes(c, "upload")
    BY <2>2, UploadGoes DEF Typed
  <2> QED BY <2>1, <2>2 DEF Committed, CommitReplied
<1>l. /\ uploads[o].state = "active" /\ refs[i] = NoRef /\ i \notin Locked
      /\ client[c].pc = "verified" /\ uploads[o].id = client[c].id
      /\ objects' = objects \cup {o} /\ refs' = Inserted(refs, i, o, at)
      /\ uploads' = [uploads EXCEPT ![o].state = "committed"] /\ queue' = Dequeued(queue, o)
  BY <1>b DEF Committed, Committing, Live
<1>o. o \notin objects /\ o \in bucket \cup overtaken /\ queue[o] = NoEntry /\ uploads[o] # NoUpload
  <2>1. uploads[o] # NoUpload
    BY <1>l DEF NoUpload
  <2>2. o \notin objects
    BY <2>1, <1>l DEF UploadsSound
  <2>3. o \in bucket \cup overtaken
    BY <1>b, <1>l DEF VerifiedSound
  <2>4. queue[o] = NoEntry
    BY <2>2 DEF QueueSound, InQueue
  <2> QED BY <2>1, <2>2, <2>3, <2>4
<1>f. /\ refs' \in [Identities -> Refs]
      /\ refs'[i].object = o /\ refs'[i].accessed = at /\ refs'[i].expires = at + ReferenceTTL
      /\ \A j \in Identities \ {i} : refs'[j] = refs[j]
  <2>1. PointTo(o, at) \in Refs /\ PointTo(o, at).object = o /\ PointTo(o, at).accessed = at
        /\ PointTo(o, at).expires = at + ReferenceTTL
    BY ConstantFacts, <1>b DEF PointTo, Refs
  <2>2. refs' = [refs EXCEPT ![i] = PointTo(o, at)]
    BY <1>l DEF Inserted
  <2> QED BY <2>1, <2>2, Zenon DEF Typed
<1>q. queue' = queue
  <2>1. \A p \in Objects : queue'[p] = queue[p]
    BY <1>l, <1>o, Zenon DEF Dequeued, Typed
  <2>2. queue' = [p \in Objects |-> queue'[p]] /\ queue = [p \in Objects |-> queue[p]]
    BY <1>l, Zenon DEF Dequeued, Typed
  <2> QED BY <2>1, <2>2, Zenon
<1>m. /\ uploads' \in [Objects -> Uploads]
      /\ uploads'[o].id = uploads[o].id /\ uploads'[o].identity = uploads[o].identity
      /\ uploads'[o].state = "committed" /\ uploads'[o].expires = uploads[o].expires
      /\ \A p \in Objects \ {o} : uploads'[p] = uploads[p]
  BY <1>l DEF Typed, Uploads
<1>n. uploads'[o] # NoUpload
  BY <1>m DEF NoUpload
<1>s. \A p \in Objects \ {o} : p \in Referenced(refs') => p \in Referenced(refs)
  <2> SUFFICES ASSUME NEW p \in Objects \ {o}, p \in Referenced(refs')
               PROVE  p \in Referenced(refs)
    OBVIOUS
  <2>1. PICK j \in Identities : refs'[j].object = p
    BY <1>f, ReferencedFact
  <2>2. refs[j].object = p
    BY <1>f, <2>1
  <2> QED BY <2>2, ReferencedFact DEF Typed
<1>1. Typed'
  BY <1>u, <1>f, <1>q, <1>m, <1>c, <1>l DEF Typed
<1>2. RefsSound'
  BY <1>u, <1>f, <1>l, <1>a, <1>b DEF RefsSound, Current
<1>3. ClientsTimely'
  BY <1>u, <1>c, <1>b DEF ClientsTimely, Committed, Committing
<1>4. PassesSound'
  <2>1. \A w \in Reconcilers : \A j \in rec[w].locked : j \in Identities \ {i}
    BY <1>l DEF Locked, Typed, Passes
  <2> QED BY <2>1, <1>u, <1>f, PassesKept
<1>5. QueueSound'
  BY <1>u, <1>q, <1>l DEF QueueSound, InQueue
<1>6. UploadsSound'
  <2>1. /\ uploads'[o].id \in 1..issued' /\ uploads'[o].identity \in Identities
        /\ uploads'[o].expires \in 0..(now + LeaseTerm)
        /\ \A p \in Objects \ {o} : uploads'[o].id # uploads[p].id
        /\ o \in objects'
    BY <1>u, <1>m, <1>o, <1>l DEF UploadsSound
  <2> QED BY <2>1, <1>m, <1>l, <1>u DEF UploadsSound
<1>7. ClaimsSound'
  <2>1. queue[o].claim = "none"
    BY <1>o DEF NoEntry
  <2> QED BY <2>1, <1>u, <1>q, <1>l, <1>m, <1>s DEF ClaimsSound
<1>8. HoldingSound'
  BY <1>u, <1>q DEF HoldingSound, HoldsSoundly
<1>9. BytesSound'
  BY <1>u, <1>q, <1>m, <1>n, <1>l, <1>o DEF BytesSound
<1>10. VerifiedSound'
  BY <1>u, <1>c, <1>m DEF VerifiedSound
<1>11. UrlsSound'
  <2> SUFFICES ASSUME NEW p \in Objects \ overtaken
               PROVE  UrlEnds(refs', queue', p) /\ (p \notin objects' => urls[p] =< now)
    BY <1>u DEF UrlsSound, UrlEnds
  <2>1. CASE p = o
    BY <2>1, <1>o, <1>l DEF UrlsSound, UrlEnds
  <2>2. CASE p # o
    <3>1. UrlEnds(refs, queue, p) /\ (p \notin objects' => urls[p] =< now)
      BY <1>l, <2>2 DEF UrlsSound
    <3>2. \A j \in Identities : refs[j].object = p => j # i
      BY <1>l, ConstantFacts DEF NoRef
    <3>3. \A j \in Identities : refs'[j].object = p => j # i
      BY <1>f, <2>2
    <3>5. ASSUME NEW j \in Identities, refs[j].object = p, urls[p] =< refs[j].accessed + MaxLag + UrlTTL
          PROVE  UrlEnds(refs', queue', p)
      <4>1. refs'[j] = refs[j]
        BY <1>f, <3>2, <3>5
      <4> QED BY <3>5, <4>1 DEF UrlEnds
    <3>6. ASSUME \A j \in Identities : refs[j].object # p
          PROVE  \A j \in Identities : refs'[j].object # p
      BY <1>f, <3>3, <3>6
    <3> QED BY <3>1, <3>5, <3>6, <1>q DEF UrlEnds
  <2> QED BY <2>1, <2>2
<1>12. CommittedSound'
  <2>1. ASSUME NEW p \in Objects, uploads'[p].state = "committed", queue[p] # NoEntry
        PROVE  uploads'[p] = uploads[p]
    BY <2>1, <1>m, <1>o
  <2> QED BY <2>1, <1>u, <1>q DEF CommittedSound, InQueue, Claiming
<1>13. RecentSound'
  <2> SUFFICES ASSUME NEW p \in Objects \ overtaken, NEW j \in Identities,
                      uploads'[p].state = "committed", refs'[j].object = p
               PROVE  /\ uploads'[p].expires =< refs'[j].accessed + MaxLag + LeaseTerm
                      /\ \A w \in Reconcilers : Claiming(w) =>
                           rec[w].at < uploads'[p].expires \/ rec[w].at =< refs'[j].accessed + MaxLag
    BY <1>u DEF RecentSound, Claiming
  <2>1. CASE p = o
    <3>1. uploads'[p].expires =< now + LeaseTerm
      BY <2>1, <1>m, <1>o DEF UploadsSound
    <3>2. j = i
      BY <2>1, <1>f, <1>o, ConstantFacts DEF RefsSound, NoRef
    <3>3. now =< refs'[j].accessed + MaxLag /\ refs'[j].accessed \in Int
      BY <3>2, <1>a, <1>b, <1>f
    <3>4. \A w \in Reconcilers : Claiming(w) => rec[w].at =< now
      BY DEF PassesSound, Claiming
    <3>5. uploads'[p].expires \in Int
      BY <1>m DEF Uploads
    <3> QED BY <3>1, <3>3, <3>4, <3>5
  <2>2. CASE p # o
    <3>1. j # i /\ uploads'[p] = uploads[p]
      BY <2>2, <1>f, <1>m
    <3>2. refs'[j] = refs[j]
      BY <3>1, <1>f
    <3> QED BY <3>1, <3>2 DEF RecentSound
  <2> QED BY <2>1, <2>2
<1> QED BY <1>1, <1>2, <1>3, <1>4, <1>5, <1>6, <1>7, <1>8, <1>9, <1>10, <1>11, <1>12, <1>13 DEF CacheInv

LEMMA CommitStaleKeeps ==
  ASSUME NEW c \in Clients, CacheInv, CommitStale(c)
  PROVE  CacheInv'
<1>i. Typed /\ RefsSound /\ ClientsTimely /\ PassesSound /\ QueueSound /\ UploadsSound
      /\ ClaimsSound /\ HoldingSound /\ BytesSound /\ VerifiedSound /\ UrlsSound
      /\ CommittedSound /\ RecentSound /\ Numbers
  BY TypeFacts DEF CacheInv
<1> USE ConstantFacts, <1>i DEF Numbers
<1>u. /\ now' = now /\ issued' = issued /\ refs' = refs /\ objects' = objects /\ queue' = queue
      /\ bucket' = bucket /\ late' = late /\ overtaken' = overtaken /\ urls' = urls /\ rec' = rec
  BY DEF CommitStale, rows, store
<1>a. client[c].at \in Int /\ Current(client[c].at) /\ now =< client[c].at + MaxLag
      /\ client[c].identity \in Identities
  BY RequestIsCurrent DEF CommitStale, Committing
<1>b. PICK at \in Int, i \in Identities, o \in Objects :
        at = client[c].at /\ i = client[c].identity /\ o = client[c].object
  BY <1>a DEF ClientsTimely, CommitStale, Committing
<1>c. /\ client' \in [Clients -> Requests]
      /\ \/ client'[c].pc = "idle" /\ client'[c].id = 0
         \/ /\ client'[c].pc = "upload" /\ client'[c].identity = client[c].identity
            /\ client'[c].object = client[c].object /\ client'[c].id = client[c].id
      /\ \A d \in Clients \ {c} : client'[d] = client[d]
  <2>1. CASE Ends(c)
    BY <2>1 DEF Ends, Idle, Typed, Requests
  <2>2. CASE Goes(c, "upload")
    BY <2>2, UploadGoes DEF Typed
  <2> QED BY <2>1, <2>2 DEF CommitStale, CommitReplied
<1>l. /\ uploads[o].state = "active"
      /\ uploads' = [uploads EXCEPT ![o].state = "deleting", ![o].lease = at]
  BY <1>b DEF CommitStale
<1>m. /\ uploads' \in [Objects -> Uploads]
      /\ uploads'[o].id = uploads[o].id /\ uploads'[o].identity = uploads[o].identity
      /\ uploads'[o].state = "deleting" /\ uploads'[o].expires = uploads[o].expires
      /\ \A p \in Objects \ {o} : uploads'[p] = uploads[p]
  <2> DEFINE l == [uploads[o] EXCEPT !.state = "deleting", !.lease = at]
  <2>0. uploads[o] \in Uploads
    BY DEF Typed
  <2>1. /\ l \in Uploads /\ l.id = uploads[o].id /\ l.identity = uploads[o].identity
        /\ l.state = "deleting" /\ l.expires = uploads[o].expires
    BY <2>0, <1>b DEF Uploads
  <2>2. uploads' = [uploads EXCEPT ![o] = l]
    BY <1>l, Zenon
  <2> HIDE DEF l
  <2> QED BY <2>1, <2>2, Zenon DEF Typed
<1>n. uploads'[o] # NoUpload /\ uploads[o] # NoUpload
  <2>1. NoUpload.state = "none"
    BY DEF NoUpload
  <2> QED BY <2>1, <1>l, <1>m
<1>1. Typed'
  BY <1>u, <1>m, <1>c DEF Typed
<1>2. RefsSound'
  BY <1>u DEF RefsSound
<1>3. ClientsTimely'
  BY <1>u, <1>c, <1>b DEF ClientsTimely, CommitStale, Committing
<1>4. PassesSound'
  BY <1>u DEF PassesSound
<1>5. QueueSound'
  BY <1>u DEF QueueSound, InQueue
<1>6. UploadsSound'
  <2>1. /\ uploads'[o].id \in 1..issued' /\ uploads'[o].identity \in Identities
        /\ uploads'[o].expires \in 0..(now + LeaseTerm)
        /\ \A p \in Objects \ {o} : uploads'[o].id # uploads[p].id
        /\ o \notin objects'
    BY <1>u, <1>m, <1>n, <1>l DEF UploadsSound
  <2> QED BY <2>1, <1>m, <1>u DEF UploadsSound
<1>7. ClaimsSound'
  BY <1>u, <1>m, <1>n DEF ClaimsSound
<1>8. HoldingSound'
  BY <1>u DEF HoldingSound, HoldsSoundly
<1>9. BytesSound'
  BY <1>u, <1>c, <1>m, <1>n DEF BytesSound
<1>10. VerifiedSound'
  BY <1>u, <1>c, <1>m, <1>n DEF VerifiedSound
<1>11. UrlsSound'
  BY <1>u DEF UrlsSound, UrlEnds
<1>12. CommittedSound'
  BY <1>u, <1>c, <1>m, <1>n DEF CommittedSound, InQueue, Claiming
<1>13. RecentSound'
  BY <1>u, <1>c, <1>m, <1>n DEF RecentSound, Claiming
<1> QED BY <1>1, <1>2, <1>3, <1>4, <1>5, <1>6, <1>7, <1>8, <1>9, <1>10, <1>11, <1>12, <1>13 DEF CacheInv

LEMMA ExpireReferencesKeeps ==
  ASSUME NEW w \in Reconcilers, CacheInv, ExpireReferences(w)
  PROVE  CacheInv'
<1>i. Typed /\ RefsSound /\ ClientsTimely /\ PassesSound /\ QueueSound /\ UploadsSound
      /\ ClaimsSound /\ HoldingSound /\ BytesSound /\ VerifiedSound /\ UrlsSound
      /\ CommittedSound /\ RecentSound /\ Numbers
  BY TypeFacts DEF CacheInv
<1> USE ConstantFacts, <1>i DEF Numbers
<1>u. /\ now' = now /\ issued' = issued /\ refs' = refs /\ objects' = objects /\ queue' = queue
      /\ uploads' = uploads /\ bucket' = bucket /\ late' = late /\ overtaken' = overtaken /\ urls' = urls
      /\ client' = client
  BY DEF ExpireReferences, rows, store
<1>e. PICK due : /\ due \in Batches(Expired(refs, rec[w].at) \ Locked) /\ rec[w].pc = "references"
      /\ rec' = [rec EXCEPT ![w].pc = "expiring", ![w].locked = due,
                   ![w].queued = {refs[i].object : i \in due} \ Referenced(Without(refs, due))]
  BY DEF ExpireReferences
<1>d. due \subseteq Identities \ Locked /\ \A i \in due : refs[i] # NoRef /\ refs[i].expires =< rec[w].at
  BY <1>e DEF Batches, Expired, Present
<1>r. /\ rec' \in [Reconcilers -> Passes]
      /\ rec'[w].pc = "expiring" /\ rec'[w].at = rec[w].at /\ rec'[w].locked = due
      /\ rec'[w].done = rec[w].done
      /\ \A o \in rec'[w].queued : \E i \in due : refs[i].object = o
  <2> PICK gone : gone = {refs[i].object : i \in due} \ Referenced(Without(refs, due))
    OBVIOUS
  <2>1. gone \subseteq Objects
    BY <1>d DEF RefsSound, Typed
  <2> DEFINE l == [rec[w] EXCEPT !.pc = "expiring", !.locked = due, !.queued = gone]
  <2>0. rec[w] \in Passes
    BY DEF Typed
  <2>2. l \in Passes
    BY <2>0, <2>1, <1>d DEF Passes
  <2>3. l.pc = "expiring" /\ l.at = rec[w].at /\ l.locked = due /\ l.done = rec[w].done
        /\ l.queued = gone
    BY <2>0 DEF Passes
  <2>4. rec' = [rec EXCEPT ![w] = l]
    BY <1>e, Zenon
  <2>5. \A o \in gone : \E i \in due : refs[i].object = o
    OBVIOUS
  <2> HIDE DEF l
  <2> QED BY <2>2, <2>3, <2>4, <2>5, Zenon DEF Typed
<1>s. \A x \in Reconcilers \ {w} : rec'[x] = rec[x]
  BY <1>e, Zenon DEF Typed
<1>1. Typed'
  BY <1>u, <1>r DEF Typed
<1>2. RefsSound'
  BY <1>u DEF RefsSound
<1>3. ClientsTimely'
  BY <1>u DEF ClientsTimely
<1>4. PassesSound'
  <2>1. \A x \in Reconcilers : \A i \in rec[x].locked : i \in Locked
    BY DEF Locked
  <2>2. rec[w].locked = {}
    BY <1>e DEF PassesSound
  <2> QED BY <2>1, <2>2, <1>u, <1>r, <1>s, <1>d, <1>e DEF PassesSound
<1>5. QueueSound'
  BY <1>u DEF QueueSound, InQueue
<1>6. UploadsSound'
  BY <1>u DEF UploadsSound
<1>7. ClaimsSound'
  BY <1>u DEF ClaimsSound
<1>8. HoldingSound'
  <2>0. \A x \in Reconcilers \ {w} : rec'[x] = rec[x]
    BY <1>s
  <2>1. ASSUME NEW x \in Reconcilers \ {w} PROVE HoldsSoundly(x)'
    BY <2>1, <2>0, <1>u DEF HoldingSound, HoldsSoundly
  <2>2. HoldsSoundly(w)'
    BY <1>u, <1>r, <1>e DEF HoldingSound, HoldsSoundly
  <2> QED BY <2>1, <2>2 DEF HoldingSound
<1>9. BytesSound'
  BY <1>u DEF BytesSound
<1>10. VerifiedSound'
  BY <1>u DEF VerifiedSound
<1>11. UrlsSound'
  BY <1>u DEF UrlsSound, UrlEnds
<1>12. CommittedSound'
  BY <1>u, <1>r, <1>s, <1>d, <1>e DEF CommittedSound, InQueue, Claiming
<1>13. RecentSound'
  BY <1>u, <1>r, <1>s, <1>d, <1>e DEF RecentSound, Claiming
<1> QED BY <1>1, <1>2, <1>3, <1>4, <1>5, <1>6, <1>7, <1>8, <1>9, <1>10, <1>11, <1>12, <1>13 DEF CacheInv

LEMMA ReferencesExpiredKeeps ==
  ASSUME NEW w \in Reconcilers, CacheInv, ReferencesExpired(w)
  PROVE  CacheInv'
<1>i. Typed /\ RefsSound /\ ClientsTimely /\ PassesSound /\ QueueSound /\ UploadsSound
      /\ ClaimsSound /\ HoldingSound /\ BytesSound /\ VerifiedSound /\ UrlsSound
      /\ CommittedSound /\ RecentSound /\ Numbers
  BY TypeFacts DEF CacheInv
<1> USE ConstantFacts, <1>i DEF Numbers
<1>u. /\ now' = now /\ issued' = issued /\ objects' = objects /\ uploads' = uploads
      /\ bucket' = bucket /\ late' = late /\ overtaken' = overtaken /\ urls' = urls /\ client' = client
  BY DEF ReferencesExpired, rows, store
<1>e. /\ rec[w].pc = "expiring" /\ refs' = Without(refs, rec[w].locked)
      /\ queue' = QueueIfUnreferenced(queue, [i \in Identities |-> NoRef], rec[w].queued, rec[w].at)
      /\ rec' = [rec EXCEPT ![w].pc = "committed", ![w].locked = {}, ![w].queued = {}]
  BY DEF ReferencesExpired
<1>a. rec[w].at \in Int /\ rec[w].at \in 0..now /\ rec[w].at + Grace \in Int
  BY <1>e DEF PassesSound
<1>q. /\ Postponed(queue', rec[w].at + Grace)
      /\ \A o \in Objects : queue'[o] = queue[o] \/ o \in rec[w].queued
  <2>1. PICK q, left, gone : /\ left = [i \in Identities |-> NoRef] /\ gone = rec[w].queued
                             /\ q = QueueIfUnreferenced(queue, left, gone, rec[w].at)
    OBVIOUS
  <2>2. q = queue'
    BY <2>1, <1>e, Zenon
  <2>3. Postponed(q, rec[w].at + Grace)
    BY <2>1, <1>a, QueueIsPostponed, PostponedFact
  <2>4. queue \in [Objects -> Entries]
    BY DEF Typed
  <2>5. \A o \in Objects : q[o] = queue[o] \/ o \in gone
    BY <2>1, <2>4, <1>a, QueueFact
  <2> QED BY <2>1, <2>2, <2>3, <2>5
<1>d. Dropped(refs') /\ \A o \in Objects \ overtaken : UrlEnds(refs', queue', o)
  <2>1. Dropped(refs')
    BY <1>e, DroppedFact
  <2>2. \A i \in rec[w].locked : i \in Identities => refs[i] = NoRef \/ refs[i].expires =< now
    BY <1>a DEF PassesSound
  <2>3. PICK q, m : q = queue' /\ Postponed(q, m)
    BY <1>q
  <2>4. \A o \in Objects \ overtaken : UrlEnds(refs', q, o)
    BY <1>e, <2>2, <2>3, ExpiredEnds
  <2> QED BY <2>1, <2>3, <2>4
<1>r. /\ rec' \in [Reconcilers -> Passes]
      /\ rec'[w].pc = "committed"
      /\ rec'[w].locked = {}
      /\ rec'[w].at = rec[w].at
      /\ rec'[w].done = rec[w].done
  <2> DEFINE l == [rec[w] EXCEPT !.pc = "committed", !.locked = {}, !.queued = {}]
  <2>0. rec[w] \in Passes
    BY DEF Typed
  <2>1. l \in Passes
    BY <2>0, <1>e DEF Passes
  <2>2. l.pc = "committed" /\ l.locked = {} /\ l.at = rec[w].at /\ l.done = rec[w].done
    BY <2>0, <1>e DEF Passes
  <2>3. rec' = [rec EXCEPT ![w] = l]
    BY <1>e, Zenon
  <2> HIDE DEF l
  <2> QED BY <2>1, <2>2, <2>3, Zenon DEF Typed
<1>s. \A x \in Reconcilers \ {w} : rec'[x] = rec[x]
  BY <1>e, Zenon DEF Typed
<1>1. Typed'
  BY <1>u, <1>d, <1>q, <1>r DEF Typed, Dropped, Postponed
<1>2. RefsSound'
  BY <1>u, <1>d DEF RefsSound, Dropped
<1>3. ClientsTimely'
  BY <1>u DEF ClientsTimely
<1>4. PassesSound'
  <2>1. ASSUME NEW x \in Reconcilers \ {w}, NEW i \in rec[x].locked
        PROVE  refs'[i] = refs[i]
    <3>1. i \notin rec[w].locked /\ i \in Identities
      BY <2>1 DEF PassesSound, Typed, Passes
    <3> QED BY <3>1, <1>e DEF Without
  <2> QED BY <2>1, <1>u, <1>r, <1>s, <1>e DEF PassesSound
<1>5. QueueSound'
  BY <1>u, <1>q DEF QueueSound, InQueue, Postponed
<1>6. UploadsSound'
  BY <1>u DEF UploadsSound
<1>7. ClaimsSound'
  BY <1>u, <1>d, <1>q, ReferencedDropped DEF ClaimsSound, Postponed
<1>8. HoldingSound'
  <2>1. \A o \in Objects : queue'[o].claim = queue[o].claim
    BY <1>q DEF Postponed
  <2>2. ASSUME NEW x \in Reconcilers \ {w} PROVE HoldsSoundly(x)'
    BY <2>1, <2>2, <1>s, <1>u DEF HoldingSound, HoldsSoundly
  <2>3. HoldsSoundly(w)'
    BY <1>r, <1>e DEF HoldingSound, HoldsSoundly
  <2> QED BY <2>2, <2>3 DEF HoldingSound
<1>9. BytesSound'
  BY <1>u, <1>q DEF BytesSound, Postponed
<1>10. VerifiedSound'
  BY <1>u DEF VerifiedSound
<1>11. UrlsSound'
  BY <1>u, <1>d DEF UrlsSound, UrlEnds
<1>12. CommittedSound'
  <2> SUFFICES ASSUME NEW o \in Objects \ overtaken, uploads[o].state = "committed", queue'[o] # NoEntry
               PROVE  /\ uploads[o].expires =< queue'[o].notBefore
                      /\ \A x \in Reconcilers : Claiming(x) => rec[x].at < queue'[o].notBefore
    BY <1>u, <1>r, <1>s DEF CommittedSound, InQueue, Claiming
  <2>1. CASE queue'[o] = queue[o]
    BY <2>1 DEF CommittedSound, InQueue
  <2>2. CASE queue'[o] # queue[o]
    <3>1. PICK i \in rec[w].locked : i \in Identities /\ refs[i].object = o
      BY <2>2, <1>q, <1>e DEF PassesSound, Typed, Passes
    <3>2. refs[i].expires =< rec[w].at /\ refs[i].expires = refs[i].accessed + ReferenceTTL
      BY <3>1 DEF PassesSound, RefsSound
    <3>3. queue'[o].notBefore \in Int /\ queue'[o].notBefore >= rec[w].at + Grace
      BY <2>2, <1>q DEF Postponed, Entries
    <3>4. /\ uploads[o].expires =< refs[i].accessed + MaxLag + LeaseTerm
          /\ \A x \in Reconcilers : Claiming(x) =>
               rec[x].at < uploads[o].expires \/ rec[x].at =< refs[i].accessed + MaxLag
      BY <3>1 DEF RecentSound
    <3>5. refs[i].accessed + MaxLag + LeaseTerm < queue'[o].notBefore
      BY <3>1, <3>2, <3>3, <1>a
    <3> QED BY <3>1, <3>3, <3>4, <3>5
  <2> QED BY <2>1, <2>2
<1>13. RecentSound'
  <2>1. \A j \in Identities : refs'[j] = refs[j] \/ refs'[j].object \notin Objects
    BY <1>d DEF Dropped, NoRef
  <2> QED BY <2>1, <1>u, <1>r, <1>s DEF RecentSound, Claiming
<1> QED BY <1>1, <1>2, <1>3, <1>4, <1>5, <1>6, <1>7, <1>8, <1>9, <1>10, <1>11, <1>12, <1>13 DEF CacheInv

LEMMA ExpireCommittedUploadsKeeps ==
  ASSUME NEW w \in Reconcilers, CacheInv, ExpireCommittedUploads(w)
  PROVE  CacheInv'
<1>i. Typed /\ RefsSound /\ ClientsTimely /\ PassesSound /\ QueueSound /\ UploadsSound
      /\ ClaimsSound /\ HoldingSound /\ BytesSound /\ VerifiedSound /\ UrlsSound
      /\ CommittedSound /\ RecentSound /\ Numbers
  BY TypeFacts DEF CacheInv
<1> USE ConstantFacts, <1>i DEF Numbers
<1>u. /\ now' = now /\ issued' = issued /\ refs' = refs /\ objects' = objects /\ queue' = queue
      /\ bucket' = bucket /\ late' = late /\ overtaken' = overtaken /\ urls' = urls /\ client' = client
  BY DEF ExpireCommittedUploads, Step, rows, store
<1>e. rec[w].pc = "committed" /\ rec' = [rec EXCEPT ![w].pc = "uploads"]
  BY DEF ExpireCommittedUploads, Step
<1>m. /\ uploads' \in [Objects -> Uploads]
      /\ \A o \in Objects :
           \/ uploads'[o] = uploads[o] /\ (uploads[o].state = "committed" => uploads[o].expires > rec[w].at)
           \/ uploads[o].state = "committed" /\ uploads'[o] = NoUpload
  <2>1. NoUpload \in Uploads
    BY DEF NoUpload, Uploads
  <2>2. uploads' = [o \in Objects |-> IF uploads[o].state = "committed" /\ uploads[o].expires =< rec[w].at
                                     THEN NoUpload ELSE uploads[o]]
    BY DEF ExpireCommittedUploads
  <2>3. \A o \in Objects : uploads'[o] = IF uploads[o].state = "committed" /\ uploads[o].expires =< rec[w].at
                                     THEN NoUpload ELSE uploads[o]
    BY <2>2
  <2>4. \A o \in Objects : uploads[o].expires > rec[w].at \/ uploads[o].expires =< rec[w].at
    OBVIOUS
  <2>5. \A o \in Objects : uploads[o] \in Uploads
    BY DEF Typed
  <2>6. uploads' \in [Objects -> Uploads]
    BY <2>1, <2>2, <2>5, Zenon
  <2>7. ASSUME NEW o \in Objects
        PROVE  \/ uploads'[o] = uploads[o] /\
                    (uploads[o].state = "committed" => uploads[o].expires > rec[w].at)
               \/ uploads[o].state = "committed" /\ uploads'[o] = NoUpload
    <3>1. CASE uploads[o].state = "committed" /\ uploads[o].expires =< rec[w].at
      BY <2>3, <3>1, Zenon
    <3>2. CASE ~(uploads[o].state = "committed" /\ uploads[o].expires =< rec[w].at)
      <4>1. uploads'[o] = uploads[o]
        BY <2>3, <3>2, Zenon
      <4> QED BY <2>4, <3>2, <4>1, Zenon
    <3> QED BY <3>1, <3>2
  <2> QED BY <2>6, <2>7
<1>n. NoUpload.state = "none" /\ NoUpload.id = 0
  BY DEF NoUpload
<1>r. /\ rec' \in [Reconcilers -> Passes]
      /\ rec'[w].pc = "uploads"
      /\ rec'[w].locked = rec[w].locked
      /\ rec'[w].at = rec[w].at
      /\ rec'[w].done = rec[w].done
  <2> DEFINE l == [rec[w] EXCEPT !.pc = "uploads"]
  <2>0. rec[w] \in Passes
    BY DEF Typed
  <2>1. l \in Passes
    BY <2>0, <1>e DEF Passes
  <2>2. l.pc = "uploads" /\ l.locked = rec[w].locked /\ l.at = rec[w].at /\ l.done = rec[w].done
    BY <2>0, <1>e DEF Passes
  <2>3. rec' = [rec EXCEPT ![w] = l]
    BY <1>e, Zenon
  <2> HIDE DEF l
  <2> QED BY <2>1, <2>2, <2>3, Zenon DEF Typed
<1>s. \A x \in Reconcilers \ {w} : rec'[x] = rec[x]
  BY <1>e, Zenon DEF Typed
<1>1. Typed'
  BY <1>u, <1>m, <1>r DEF Typed
<1>2. RefsSound'
  BY <1>u DEF RefsSound
<1>3. ClientsTimely'
  BY <1>u DEF ClientsTimely
<1>4. PassesSound'
  BY <1>u, <1>r, <1>s, <1>e, <1>m DEF PassesSound
<1>5. QueueSound'
  BY <1>u DEF QueueSound, InQueue
<1>6. UploadsSound'
  <2>1. \A p \in Objects : uploads'[p] = uploads[p] \/ uploads'[p] = NoUpload
    BY <1>m
  <2>2. \A p \in Objects : uploads[p] # NoUpload => uploads[p].id # 0
    BY DEF UploadsSound
  <2> QED BY <2>1, <2>2, <1>n, <1>u DEF UploadsSound
<1>7. ClaimsSound'
  <2>1. \A p \in Objects : uploads'[p] = uploads[p] \/ uploads'[p] = NoUpload
    BY <1>m
  <2> QED BY <2>1, <1>u DEF ClaimsSound
<1>8. HoldingSound'
  <2>0. \A x \in Reconcilers \ {w} : rec'[x] = rec[x]
    BY <1>s
  <2>1. ASSUME NEW x \in Reconcilers \ {w} PROVE HoldsSoundly(x)'
    BY <2>1, <2>0, <1>u DEF HoldingSound, HoldsSoundly
  <2>2. HoldsSoundly(w)'
    BY <1>u, <1>r, <1>e DEF HoldingSound, HoldsSoundly
  <2> QED BY <2>1, <2>2 DEF HoldingSound
<1>9. BytesSound'
  <2>1. \A o \in Objects \ overtaken : uploads'[o] = uploads[o] \/ (uploads'[o] = NoUpload /\ o \in objects)
    BY <1>m, <1>n DEF UploadsSound
  <2> QED BY <2>1, <1>u DEF BytesSound
<1>10. VerifiedSound'
  BY <1>u, <1>m, <1>n DEF VerifiedSound
<1>11. UrlsSound'
  BY <1>u DEF UrlsSound, UrlEnds
<1>12. CommittedSound'
  <2>1. \A o \in Objects : uploads'[o].state = "committed" =>
          uploads'[o] = uploads[o] /\ uploads[o].expires > rec[w].at
    BY <1>m, <1>n
  <2>2. \A o \in Objects \ overtaken : uploads'[o].state = "committed" /\ queue[o] # NoEntry
          => rec[w].at < queue[o].notBefore
    BY <2>1 DEF CommittedSound, InQueue
  <2> QED BY <2>1, <2>2, <1>u, <1>r, <1>s DEF CommittedSound, InQueue, Claiming
<1>13. RecentSound'
  <2>1. \A o \in Objects : uploads'[o].state = "committed" =>
          uploads'[o] = uploads[o] /\ rec[w].at < uploads[o].expires
    BY <1>m, <1>n
  <2> QED BY <2>1, <1>u, <1>r, <1>s DEF RecentSound, Claiming
<1> QED BY <1>1, <1>2, <1>3, <1>4, <1>5, <1>6, <1>7, <1>8, <1>9, <1>10, <1>11, <1>12, <1>13 DEF CacheInv

LEMMA ExpireUploadsKeeps ==
  ASSUME NEW w \in Reconcilers, CacheInv, ExpireUploads(w)
  PROVE  CacheInv'
<1>i. Typed /\ RefsSound /\ ClientsTimely /\ PassesSound /\ QueueSound /\ UploadsSound
      /\ ClaimsSound /\ HoldingSound /\ BytesSound /\ VerifiedSound /\ UrlsSound
      /\ CommittedSound /\ RecentSound /\ Numbers
  BY TypeFacts DEF CacheInv
<1> USE ConstantFacts, <1>i DEF Numbers
<1>u. /\ now' = now /\ issued' = issued /\ refs' = refs /\ objects' = objects /\ queue' = queue
      /\ bucket' = bucket /\ late' = late /\ overtaken' = overtaken /\ urls' = urls /\ client' = client
  BY DEF ExpireUploads, rows, store
<1>e. PICK todo : /\ rec[w].pc = "uploads"
      /\ rec' = [rec EXCEPT ![w].pc = "cleanup", ![w].todo = todo]
      /\ todo = {[object |-> o, id |-> uploads'[o].id, generation |-> uploads'[o].generation] :
                  o \in DueUploads(rec[w].at)}
  BY DEF ExpireUploads
<1>d. DueUploads(rec[w].at) \subseteq Objects
      /\ \A o \in DueUploads(rec[w].at) : uploads[o].state \in {"active", "deleting"}
  BY DEF DueUploads
<1>m. /\ uploads' \in [Objects -> Uploads]
      /\ \A o \in Objects :
           \/ uploads'[o] = uploads[o]
           \/ /\ uploads[o].state \in {"active", "deleting"} /\ uploads'[o].state = "deleting"
              /\ uploads'[o].id = uploads[o].id /\ uploads'[o].identity = uploads[o].identity
              /\ uploads'[o].expires = uploads[o].expires
  <2>1. /\ uploads' = [o \in Objects |-> uploads'[o]]
        /\ \A o \in Objects : uploads'[o] =
             IF o \in DueUploads(rec[w].at)
             THEN [uploads[o] EXCEPT !.state = "deleting", !.generation = @ + 1,
                                  !.lease = rec[w].at + RetryAfter]
             ELSE uploads[o]
    BY DEF ExpireUploads
  <2>2. ASSUME NEW o \in Objects, o \in DueUploads(rec[w].at)
        PROVE  /\ uploads'[o] \in Uploads
               /\ uploads[o].state \in {"active", "deleting"} /\ uploads'[o].state = "deleting"
               /\ uploads'[o].id = uploads[o].id /\ uploads'[o].identity = uploads[o].identity
               /\ uploads'[o].expires = uploads[o].expires
    <3>1. PICK g \in Nat, t \in Int : g = uploads[o].generation + 1 /\ t = rec[w].at + RetryAfter
      BY ConstantFacts DEF Typed, Uploads
    <3>2. uploads[o] \in Uploads
      BY DEF Typed
    <3>3. uploads'[o] = [uploads[o] EXCEPT !.state = "deleting", !.generation = g, !.lease = t]
      BY <2>1, <2>2, <3>1, Zenon
    <3>4. PICK u : u = uploads[o]
      OBVIOUS
    <3>5. [u EXCEPT !.state = "deleting", !.generation = g, !.lease = t] \in Uploads
      BY <3>1, <3>2, <3>4 DEF Uploads
    <3>6. LET v == [u EXCEPT !.state = "deleting", !.generation = g, !.lease = t]
          IN  v.state = "deleting" /\ v.id = u.id /\ v.identity = u.identity /\ v.expires = u.expires
      BY <3>2, <3>4 DEF Uploads
    <3>7. uploads'[o] = [u EXCEPT !.state = "deleting", !.generation = g, !.lease = t]
      BY <3>3, <3>4, Zenon
    <3> QED BY <2>2, <3>4, <3>5, <3>6, <3>7, <1>d, Zenon
  <2>3. \A o \in Objects : uploads'[o] \in Uploads
    BY <2>1, <2>2 DEF Typed
  <2>4. uploads' \in [Objects -> Uploads]
    BY <2>1, <2>3
  <2>5. \A o \in Objects : o \notin DueUploads(rec[w].at) => uploads'[o] = uploads[o]
    BY <2>1
  <2> QED BY <2>2, <2>4, <2>5
<1>n. NoUpload.state = "none" /\ NoUpload.id = 0
  BY DEF NoUpload
<1>t. todo \subseteq Cleanups
  BY <1>d, <1>e, <1>m DEF Cleanups, Uploads
<1>r. /\ rec' \in [Reconcilers -> Passes]
      /\ rec'[w].pc = "cleanup"
      /\ rec'[w].locked = rec[w].locked
      /\ rec'[w].todo = todo
      /\ rec'[w].at = rec[w].at
      /\ rec'[w].done = rec[w].done
  <2> DEFINE l == [rec[w] EXCEPT !.pc = "cleanup", !.todo = todo]
  <2>0. rec[w] \in Passes
    BY DEF Typed
  <2>1. l \in Passes
    BY <2>0, <1>t DEF Passes
  <2>2. /\ l.pc = "cleanup" /\ l.locked = rec[w].locked /\ l.todo = todo
        /\ l.at = rec[w].at /\ l.done = rec[w].done
    BY <2>0, <1>e DEF Passes
  <2>3. rec' = [rec EXCEPT ![w] = l]
    BY <1>e, Zenon
  <2> HIDE DEF l
  <2> QED BY <2>1, <2>2, <2>3, Zenon DEF Typed
<1>s. \A x \in Reconcilers \ {w} : rec'[x] = rec[x]
  BY <1>e, Zenon DEF Typed
<1>1. Typed'
  BY <1>u, <1>m, <1>r DEF Typed
<1>2. RefsSound'
  BY <1>u DEF RefsSound
<1>3. ClientsTimely'
  BY <1>u DEF ClientsTimely
<1>4. PassesSound'
  BY <1>u, <1>r, <1>s, <1>e, <1>m, <1>t DEF PassesSound
<1>5. QueueSound'
  BY <1>u DEF QueueSound, InQueue
<1>6. UploadsSound'
  <2>1. \A o \in Objects : uploads'[o] = NoUpload => uploads[o] = NoUpload
    BY <1>m, <1>n
  <2> QED BY <2>1, <1>m, <1>n, <1>u DEF UploadsSound
<1>7. ClaimsSound'
  BY <1>m, <1>n, <1>u DEF ClaimsSound
<1>8. HoldingSound'
  <2>0. \A x \in Reconcilers \ {w} : rec'[x] = rec[x]
    BY <1>s
  <2>1. ASSUME NEW x \in Reconcilers \ {w} PROVE HoldsSoundly(x)'
    BY <2>1, <2>0, <1>u DEF HoldingSound, HoldsSoundly
  <2>2. HoldsSoundly(w)'
    BY <1>u, <1>r, <1>e DEF HoldingSound, HoldsSoundly
  <2> QED BY <2>1, <2>2 DEF HoldingSound
<1>9. BytesSound'
  BY <1>m, <1>n, <1>u DEF BytesSound
<1>10. VerifiedSound'
  BY <1>u, <1>r, <1>s, <1>e, <1>m, <1>t DEF VerifiedSound
<1>11. UrlsSound'
  BY <1>u DEF UrlsSound, UrlEnds
<1>12. CommittedSound'
  BY <1>u, <1>r, <1>s, <1>e, <1>m, <1>t DEF CommittedSound, InQueue, Claiming
<1>13. RecentSound'
  BY <1>u, <1>r, <1>s, <1>e, <1>m, <1>t DEF RecentSound, Claiming
<1> QED BY <1>1, <1>2, <1>3, <1>4, <1>5, <1>6, <1>7, <1>8, <1>9, <1>10, <1>11, <1>12, <1>13 DEF CacheInv

LEMMA CleanupUploadKeeps ==
  ASSUME NEW w \in Reconcilers, NEW k, NEW ok \in BOOLEAN, CacheInv, CleanupUpload(w, k, ok)
  PROVE  CacheInv'
<1>i. Typed /\ RefsSound /\ ClientsTimely /\ PassesSound /\ QueueSound /\ UploadsSound
      /\ ClaimsSound /\ HoldingSound /\ BytesSound /\ VerifiedSound /\ UrlsSound
      /\ CommittedSound /\ RecentSound /\ Numbers
  BY TypeFacts DEF CacheInv
<1> USE ConstantFacts, <1>i DEF Numbers
<1>u. /\ now' = now /\ issued' = issued /\ refs' = refs /\ objects' = objects /\ queue' = queue
      /\ late' = late /\ overtaken' = overtaken /\ urls' = urls /\ client' = client
  BY DEF CleanupUpload, rows, store
<1>e. /\ rec[w].pc = "cleanup" /\ k \in Cleanups /\ k.object \in Objects
      /\ rec' = [rec EXCEPT ![w].todo = rec[w].todo \ {k}]
  BY DEF CleanupUpload, PassesSound, Cleanups
<1>b. PICK o \in Objects : o = k.object
  BY <1>e
<1>m. /\ uploads' \in [Objects -> Uploads] /\ \A p \in Objects \ {o} : uploads'[p] = uploads[p]
      /\ bucket' \subseteq bucket /\ \A p \in Objects \ {o} : p \in bucket => p \in bucket'
      /\ \/ uploads'[o] = uploads[o] /\ bucket' = bucket
         \/ uploads[o].state = "deleting" /\ uploads'[o] = uploads[o]
         \/ uploads[o].state = "deleting" /\ uploads'[o] = NoUpload /\ o \notin bucket'
  <2>1. CASE HoldsCleanup(k)
    <3>1. uploads[o].state = "deleting"
      BY <2>1, <1>b DEF HoldsCleanup
    <3>2. /\ bucket' \in {bucket, bucket \ {o}}
          /\ \/ uploads' = uploads
             \/ uploads' = [uploads EXCEPT ![o] = NoUpload] /\ bucket' = bucket \ {o}
      BY <2>1, <1>b DEF CleanupUpload
    <3>3. NoUpload \in Uploads
      BY DEF NoUpload, Uploads
    <3>4. CASE uploads' = uploads
      BY <3>1, <3>2, <3>4 DEF Typed
    <3>5. CASE uploads' = [uploads EXCEPT ![o] = NoUpload] /\ bucket' = bucket \ {o}
      <4>1. uploads'[o] = NoUpload /\ \A p \in Objects \ {o} : uploads'[p] = uploads[p]
        BY <3>5, Zenon DEF Typed
      <4>2. uploads' \in [Objects -> Uploads]
        BY <3>3, <3>5, Zenon DEF Typed
      <4> QED BY <3>1, <3>5, <4>1, <4>2
    <3> QED BY <3>2, <3>4, <3>5
  <2>2. CASE ~HoldsCleanup(k)
    <3>1. uploads' = uploads /\ bucket' = bucket
      BY <2>2 DEF CleanupUpload
    <3> QED BY <3>1 DEF Typed
  <2> QED BY <2>1, <2>2
<1>n. NoUpload.state = "none" /\ NoUpload.id = 0
  BY DEF NoUpload
<1>o. bucket' = bucket \/ o \notin objects
  BY <1>m, <1>n DEF UploadsSound
<1>r. /\ rec' \in [Reconcilers -> Passes]
      /\ rec'[w].pc = "cleanup"
      /\ rec'[w].locked = rec[w].locked
      /\ rec'[w].at = rec[w].at
      /\ rec'[w].done = rec[w].done
  <2>4. PICK t : t = rec[w].todo \ {k}
    OBVIOUS
  <2> DEFINE l == [rec[w] EXCEPT !.todo = t]
  <2>0. rec[w] \in Passes
    BY DEF Typed
  <2>5. t \subseteq Cleanups \cup Objects
    BY <2>0, <2>4, <1>e DEF Passes
  <2>1. l \in Passes
    BY <2>0, <2>5, <1>e DEF Passes
  <2>2. l.pc = "cleanup" /\ l.locked = rec[w].locked /\ l.at = rec[w].at /\ l.done = rec[w].done
    BY <2>0, <1>e DEF Passes
  <2>3. rec' = [rec EXCEPT ![w] = l]
    BY <1>e, <2>4, Zenon
  <2> HIDE DEF l
  <2> QED BY <2>1, <2>2, <2>3, Zenon DEF Typed
<1>z. rec'[w].todo \subseteq Cleanups
  BY <1>e DEF PassesSound, Typed, Passes
<1>s. \A x \in Reconcilers \ {w} : rec'[x] = rec[x]
  BY <1>e, Zenon DEF Typed
<1>1. Typed'
  BY <1>u, <1>m, <1>r DEF Typed
<1>2. RefsSound'
  BY <1>u DEF RefsSound
<1>3. ClientsTimely'
  BY <1>u DEF ClientsTimely
<1>4. PassesSound'
  BY <1>u, <1>r, <1>s, <1>e, <1>m, <1>n, <1>z DEF PassesSound
<1>5. QueueSound'
  BY <1>u DEF QueueSound, InQueue
<1>6. UploadsSound'
  <2>1. \A p \in Objects : uploads'[p] = uploads[p] \/ uploads'[p] = NoUpload
    BY <1>m
  <2>2. \A p \in Objects : uploads[p] # NoUpload => uploads[p].id # 0
    BY DEF UploadsSound
  <2> QED BY <2>1, <2>2, <1>n, <1>u DEF UploadsSound
<1>7. ClaimsSound'
  <2>1. \A p \in Objects : uploads'[p] = uploads[p] \/ uploads'[p] = NoUpload
    BY <1>m
  <2> QED BY <2>1, <1>u DEF ClaimsSound
<1>8. HoldingSound'
  <2>0. \A x \in Reconcilers : HoldsSoundly(x)
    BY DEF HoldingSound
  <2>1. ASSUME NEW x \in Reconcilers \ {w} PROVE HoldsSoundly(x)'
    BY <2>0, <2>1, <1>u, <1>m, <1>s DEF HoldsSoundly
  <2>2. HoldsSoundly(w)'
    BY <2>0, <1>r, <1>e DEF HoldsSoundly
  <2> QED BY <2>1, <2>2 DEF HoldingSound
<1>9. BytesSound'
  BY <1>m, <1>n, <1>o, <1>u DEF BytesSound
<1>10. VerifiedSound'
  BY <1>m, <1>n, <1>u DEF VerifiedSound
<1>11. UrlsSound'
  BY <1>u DEF UrlsSound, UrlEnds
<1>12. CommittedSound'
  <2>1. \A p \in Objects : uploads'[p].state = "committed" => uploads'[p] = uploads[p]
    BY <1>m, <1>n
  <2> QED BY <2>1, <1>u, <1>r, <1>s, <1>e DEF CommittedSound, InQueue, Claiming
<1>13. RecentSound'
  <2>1. \A p \in Objects : uploads'[p].state = "committed" => uploads'[p] = uploads[p]
    BY <1>m, <1>n
  <2> QED BY <2>1, <1>u, <1>r, <1>s, <1>e DEF RecentSound, Claiming
<1> QED BY <1>1, <1>2, <1>3, <1>4, <1>5, <1>6, <1>7, <1>8, <1>9, <1>10, <1>11, <1>12, <1>13 DEF CacheInv

LEMMA ClaimDeletionKeeps ==
  ASSUME NEW w \in Reconcilers, NEW o \in Objects, CacheInv, ClaimDeletion(w, o)
  PROVE  CacheInv'
<1>i. Typed /\ RefsSound /\ ClientsTimely /\ PassesSound /\ QueueSound /\ UploadsSound
      /\ ClaimsSound /\ HoldingSound /\ BytesSound /\ VerifiedSound /\ UrlsSound
      /\ CommittedSound /\ RecentSound /\ Numbers
  BY TypeFacts DEF CacheInv
<1> USE ConstantFacts, <1>i DEF Numbers
<1>u. /\ now' = now /\ issued' = issued /\ refs' = refs /\ objects' = objects
      /\ uploads' = uploads /\ bucket' = bucket /\ late' = late /\ overtaken' = overtaken /\ urls' = urls
      /\ client' = client
  BY DEF ClaimDeletion, rows, store
<1>e. /\ rec[w].pc = "deletions" /\ queue[o] # NoEntry /\ queue[o].notBefore =< rec[w].at
      /\ o \in objects /\ o \notin Referenced(refs)
      /\ queue' = [queue EXCEPT ![o] = [claim |-> w, notBefore |-> rec[w].at + RetryAfter]]
      /\ rec' = [rec EXCEPT ![w].todo = rec[w].todo \cup {o}]
  BY DEF ClaimDeletion, Deletable, InQueue
<1>a. rec[w].at \in Int /\ rec[w].at \in 0..now
  BY <1>e DEF PassesSound
<1>q. /\ queue' \in [Objects -> Entries] /\ queue'[o].claim = w
      /\ queue'[o].notBefore = rec[w].at + RetryAfter /\ queue'[o] # NoEntry
      /\ \A p \in Objects \ {o} : queue'[p] = queue[p]
  <2> DEFINE l == [claim |-> w, notBefore |-> rec[w].at + RetryAfter]
  <2>1. rec[w].at + RetryAfter \in Int
    BY <1>a, ConstantFacts
  <2>2. l \in Entries /\ l.notBefore = rec[w].at + RetryAfter
    BY <2>1 DEF Entries
  <2>3. l.claim = w
    OBVIOUS
  <2>4. l # NoEntry
    BY <1>a, <2>2, ConstantFacts DEF NoEntry
  <2>5. queue' = [queue EXCEPT ![o] = l]
    BY <1>e, Zenon
  <2> HIDE DEF l
  <2> QED BY <2>2, <2>3, <2>4, <2>5, Zenon DEF Typed
<1>v. o \notin overtaken => urls[o] =< now
  <2>1. \A i \in Identities : refs[i].object # o
    BY <1>e, ReferencedFact DEF Typed
  <2>2. o \notin overtaken => urls[o] =< now \/ urls[o] =< queue[o].notBefore
    BY <2>1 DEF UrlsSound, UrlEnds
  <2> QED BY <2>2, <1>e, <1>a
<1>n. o \notin overtaken => uploads[o] = NoUpload
  <2>1. o \notin overtaken => uploads[o].state # "committed"
    BY <1>e, <1>a DEF CommittedSound, InQueue, Claiming
  <2> QED BY <2>1, <1>e DEF UploadsSound
<1>r. /\ rec' \in [Reconcilers -> Passes]
      /\ rec'[w].pc = "deletions"
      /\ rec'[w].locked = rec[w].locked
      /\ rec'[w].at = rec[w].at
      /\ rec'[w].done = rec[w].done
  <2>4. PICK t : t = rec[w].todo \cup {o}
    OBVIOUS
  <2> DEFINE l == [rec[w] EXCEPT !.todo = t]
  <2>0. rec[w] \in Passes
    BY DEF Typed
  <2>5. t \subseteq Cleanups \cup Objects
    BY <2>0, <2>4, <1>e DEF Passes
  <2>1. l \in Passes
    BY <2>0, <2>5, <1>e DEF Passes
  <2>2. l.pc = "deletions" /\ l.locked = rec[w].locked /\ l.at = rec[w].at /\ l.done = rec[w].done
    BY <2>0, <1>e DEF Passes
  <2>3. rec' = [rec EXCEPT ![w] = l]
    BY <1>e, <2>4, Zenon
  <2> HIDE DEF l
  <2> QED BY <2>1, <2>2, <2>3, Zenon DEF Typed
<1>s. \A x \in Reconcilers \ {w} : rec'[x] = rec[x]
  BY <1>e, Zenon DEF Typed
<1>d. rec[w].done = {}
  BY <1>e DEF HoldingSound, HoldsSoundly
<1>1. Typed'
  BY <1>u, <1>q, <1>r DEF Typed
<1>2. RefsSound'
  BY <1>u DEF RefsSound
<1>3. ClientsTimely'
  BY <1>u DEF ClientsTimely
<1>4. PassesSound'
  BY <1>u, <1>r, <1>s, <1>e, <1>q DEF PassesSound
<1>5. QueueSound'
  <2>1. rec[w].at + RetryAfter \in Times
    BY <1>a, ConstantFacts DEF Times, Typed
  <2> QED BY <2>1, <1>u, <1>q, <1>e DEF QueueSound, InQueue
<1>6. UploadsSound'
  BY <1>u DEF UploadsSound
<1>7. ClaimsSound'
  BY <1>u, <1>q, <1>e, <1>v, <1>n DEF ClaimsSound
<1>8. HoldingSound'
  <2>1. ASSUME NEW x \in Reconcilers \ {w} PROVE HoldsSoundly(x)'
    <3>1. rec'[x] = rec[x] /\ HoldsSoundly(x) /\ x # w
      BY <2>1, <1>s DEF HoldingSound
    <3>2. \A p \in Objects : queue'[p].claim = x => queue[p].claim = x
      BY <3>1, <1>q
    <3> QED BY <3>1, <3>2, <1>u DEF HoldsSoundly
  <2>2. HoldsSoundly(w)'
    BY <1>r, <1>d DEF HoldsSoundly
  <2> QED BY <2>1, <2>2 DEF HoldingSound
<1>9. BytesSound'
  BY <1>u, <1>q, ConstantFacts DEF BytesSound
<1>10. VerifiedSound'
  BY <1>u DEF VerifiedSound
<1>11. UrlsSound'
  BY <1>u, <1>q, <1>v DEF UrlsSound, UrlEnds
<1>12. CommittedSound'
  <2>1. o \notin overtaken => uploads[o].state = "none"
    BY <1>n DEF NoUpload
  <2> QED BY <2>1, <1>u, <1>q, <1>r, <1>s, <1>e DEF CommittedSound, InQueue, Claiming
<1>13. RecentSound'
  BY <1>u, <1>r, <1>s, <1>e DEF RecentSound, Claiming
<1> QED BY <1>1, <1>2, <1>3, <1>4, <1>5, <1>6, <1>7, <1>8, <1>9, <1>10, <1>11, <1>12, <1>13 DEF CacheInv

LEMMA DeleteObjectKeeps ==
  ASSUME NEW w \in Reconcilers, NEW o \in Objects, NEW ok \in BOOLEAN, CacheInv, DeleteObject(w, o, ok)
  PROVE  CacheInv'
<1>i. Typed /\ RefsSound /\ ClientsTimely /\ PassesSound /\ QueueSound /\ UploadsSound
      /\ ClaimsSound /\ HoldingSound /\ BytesSound /\ VerifiedSound /\ UrlsSound
      /\ CommittedSound /\ RecentSound /\ Numbers
  BY TypeFacts DEF CacheInv
<1> USE ConstantFacts, <1>i DEF Numbers
<1>u. /\ now' = now /\ issued' = issued /\ refs' = refs /\ objects' = objects /\ queue' = queue
      /\ uploads' = uploads /\ late' = late /\ urls' = urls /\ client' = client
  BY DEF DeleteObject, rows, store
<1>e. /\ rec[w].pc = "delete" /\ o \in rec[w].todo
      /\ bucket' \in (IF ok THEN {bucket \ {o}} ELSE {bucket, bucket \ {o}})
      /\ rec' = [rec EXCEPT ![w].todo = rec[w].todo \ {o}, ![w].done = rec[w].done \cup {Attempted(o, ok)}]
  BY DEF DeleteObject, Attempted
<1>g. /\ overtaken \subseteq overtaken' /\ overtaken' \subseteq Objects
      /\ \A p \in Objects \ overtaken' : p \in Objects \ overtaken
      /\ o \notin overtaken' => queue[o].claim = w
  BY DEF DeleteObject, GoesOn, HoldsClaim, Typed
<1>l. HoldsSoundly(w)
  BY DEF HoldingSound
<1>x. o \notin overtaken' =>
        /\ queue[o].claim = w /\ queue[o].claim # "none" /\ o \in objects /\ o \notin Referenced(refs)
        /\ urls[o] =< now /\ uploads[o] = NoUpload
  <2>1. o \notin overtaken' => queue[o].claim = w /\ queue[o].claim # "none"
    BY <1>g, ConstantFacts
  <2> QED BY <2>1, <1>g DEF ClaimsSound
<1>n. NoUpload.state = "none" /\ NoUpload.id = 0
  BY DEF NoUpload
<1>b. /\ bucket' \subseteq bucket /\ \A p \in Objects \ {o} : p \in bucket => p \in bucket'
      /\ ok => o \notin bucket'
  BY <1>e
<1>d. Attempted(o, TRUE) \notin rec[w].done /\ Attempted(o, FALSE) \notin rec[w].done
  BY <1>l, <1>e DEF HoldsSoundly
<1>k. ok = TRUE \/ ok = FALSE
  OBVIOUS
<1>r. /\ rec' \in [Reconcilers -> Passes]
      /\ rec'[w].pc = "delete" /\ rec'[w].at = rec[w].at /\ rec'[w].locked = rec[w].locked
      /\ rec'[w].todo = rec[w].todo \ {o} /\ rec'[w].done = rec[w].done \cup {Attempted(o, ok)}
  <2>4. PICK t, d : t = rec[w].todo \ {o} /\ d = rec[w].done \cup {Attempted(o, ok)}
    OBVIOUS
  <2> DEFINE l == [rec[w] EXCEPT !.todo = t, !.done = d]
  <2>0. rec[w] \in Passes
    BY DEF Typed
  <2>5. Attempted(o, ok) \in Deletions
    BY <1>k, AttemptedFact
  <2>6. t \subseteq Cleanups \cup Objects /\ d \subseteq Deletions
    BY <2>0, <2>4, <2>5 DEF Passes
  <2>1. l \in Passes
    BY <2>0, <2>6 DEF Passes
  <2>2. l.pc = "delete" /\ l.at = rec[w].at /\ l.locked = rec[w].locked /\ l.todo = t /\ l.done = d
    BY <2>0, <1>e DEF Passes
  <2>3. rec' = [rec EXCEPT ![w] = l]
    BY <1>e, <2>4, Zenon
  <2> HIDE DEF l
  <2> QED BY <2>1, <2>2, <2>3, <2>4, Zenon DEF Typed
<1>s. \A x \in Reconcilers \ {w} : rec'[x] = rec[x]
  BY <1>e, Zenon DEF Typed
<1>t. /\ \A p \in Objects \ {o} :
           /\ p \in rec'[w].todo <=> p \in rec[w].todo
           /\ Attempted(p, TRUE) \in rec'[w].done <=> Attempted(p, TRUE) \in rec[w].done
           /\ Attempted(p, FALSE) \in rec'[w].done <=> Attempted(p, FALSE) \in rec[w].done
      /\ o \notin rec'[w].todo
      /\ Attempted(o, TRUE) \in rec'[w].done <=> ok
      /\ Attempted(o, FALSE) \in rec'[w].done <=> ~ok
  <2>1. CASE ok = TRUE
    BY <2>1, <1>r, <1>d, AttemptedFact
  <2>2. CASE ok = FALSE
    BY <2>2, <1>r, <1>d, AttemptedFact
  <2> QED BY <2>1, <2>2, <1>k
<1>1. Typed'
  BY <1>u, <1>b, <1>g, <1>r DEF Typed
<1>2. RefsSound'
  BY <1>u DEF RefsSound
<1>3. ClientsTimely'
  BY <1>u DEF ClientsTimely
<1>4. PassesSound'
  BY <1>u, <1>r, <1>s, <1>e, <1>b DEF PassesSound
<1>5. QueueSound'
  BY <1>u DEF QueueSound, InQueue
<1>6. UploadsSound'
  BY <1>u, <1>g DEF UploadsSound
<1>7. ClaimsSound'
  BY <1>u, <1>g DEF ClaimsSound
<1>8. HoldingSound'
  <2>1. ASSUME NEW x \in Reconcilers \ {w} PROVE HoldsSoundly(x)'
    <3>1. rec'[x] = rec[x] /\ HoldsSoundly(x)
      BY <2>1, <1>s DEF HoldingSound
    <3> QED BY <3>1, <1>u, <1>b, <1>g DEF HoldsSoundly
  <2>2. ASSUME NEW p \in Objects
        PROVE  /\ p \in rec'[w].todo =>
                    Attempted(p, TRUE) \notin rec'[w].done /\ Attempted(p, FALSE) \notin rec'[w].done
               /\ Attempted(p, TRUE) \in rec'[w].done =>
                    /\ Attempted(p, FALSE) \notin rec'[w].done
                    /\ queue[p].claim = w => p \notin bucket' \/ p \in late \cup overtaken'
    <3>1. CASE p = o
      BY <3>1, <1>t, <1>b
    <3>2. CASE p # o
      BY <2>2, <3>2, <1>l, <1>e, <1>t, <1>b, <1>g DEF HoldsSoundly
    <3> QED BY <3>1, <3>2
  <2>3. HoldsSoundly(w)'
    BY <2>2, <1>r, <1>u DEF HoldsSoundly
  <2> QED BY <2>1, <2>3 DEF HoldingSound
<1>9. BytesSound'
  BY <1>u, <1>b, <1>g, <1>x DEF BytesSound
<1>10. VerifiedSound'
  BY <1>u, <1>b, <1>g, <1>x, <1>n DEF VerifiedSound
<1>11. UrlsSound'
  BY <1>u, <1>g DEF UrlsSound, UrlEnds
<1>12. CommittedSound'
  BY <1>u, <1>g, <1>r, <1>s, <1>e DEF CommittedSound, InQueue, Claiming
<1>13. RecentSound'
  BY <1>u, <1>g, <1>r, <1>s, <1>e DEF RecentSound, Claiming
<1> QED BY <1>1, <1>2, <1>3, <1>4, <1>5, <1>6, <1>7, <1>8, <1>9, <1>10, <1>11, <1>12, <1>13 DEF CacheInv

LEMMA CompleteDeletionKeeps ==
  ASSUME NEW w \in Reconcilers, NEW o \in Objects, CacheInv, CompleteDeletion(w, o)
  PROVE  CacheInv'
<1>i. Typed /\ RefsSound /\ ClientsTimely /\ PassesSound /\ QueueSound /\ UploadsSound
      /\ ClaimsSound /\ HoldingSound /\ BytesSound /\ VerifiedSound /\ UrlsSound
      /\ CommittedSound /\ RecentSound /\ Numbers
  BY TypeFacts DEF CacheInv
<1> USE ConstantFacts, <1>i DEF Numbers
<1>u. /\ now' = now /\ issued' = issued /\ refs' = refs /\ uploads' = uploads /\ bucket' = bucket
      /\ late' = late /\ urls' = urls /\ client' = client
  BY DEF CompleteDeletion, rows, store
<1>e. /\ rec[w].pc = "delete" /\ rec[w].todo = {} /\ Attempted(o, TRUE) \in rec[w].done
      /\ rec' = [rec EXCEPT ![w].done = rec[w].done \ {Attempted(o, TRUE)}]
  BY DEF CompleteDeletion, AllDeleted, Attempted
<1>g. /\ overtaken \subseteq overtaken' /\ overtaken' \subseteq Objects
      /\ \A p \in Objects \ overtaken' : p \in Objects \ overtaken
      /\ o \notin overtaken' => queue[o].claim = w
  BY DEF CompleteDeletion, GoesOn, HoldsClaim, Typed
<1>l. HoldsSoundly(w)
  BY DEF HoldingSound
<1>x. o \notin overtaken' =>
        /\ queue[o].claim = w /\ queue[o].claim # "none" /\ o \in objects /\ o \notin Referenced(refs)
        /\ urls[o] =< now /\ uploads[o] = NoUpload
  <2>1. o \notin overtaken' => queue[o].claim = w /\ queue[o].claim # "none"
    BY <1>g, ConstantFacts
  <2> QED BY <2>1, <1>g DEF ClaimsSound
<1>n. NoUpload.state = "none" /\ NoUpload.id = 0
  BY DEF NoUpload
<1>b. /\ \/ o \in overtaken' /\ objects' = objects /\ queue' = queue
         \/ o \notin Referenced(refs) /\ objects' = objects \ {o} /\ queue' = Dequeued(queue, o)
      /\ o \notin overtaken' => o \notin bucket \/ o \in late
  <2>1. o \notin overtaken' => o \notin bucket \/ o \in late
    BY <1>l, <1>e, <1>g, <1>x DEF HoldsSoundly
  <2>2. CASE o \in objects /\ DeletionIsClaimed(o) /\ o \notin Referenced(refs)
    BY <2>1, <2>2 DEF CompleteDeletion
  <2>3. CASE ~(o \in objects /\ DeletionIsClaimed(o) /\ o \notin Referenced(refs))
    <3>1. o \in overtaken'
      BY <2>3, <1>x DEF DeletionIsClaimed
    <3> QED BY <2>1, <2>3, <3>1 DEF CompleteDeletion
  <2> QED BY <2>2, <2>3
<1>q. /\ queue' \in [Objects -> Entries] /\ \A p \in Objects \ {o} : queue'[p] = queue[p]
      /\ \/ o \in overtaken' /\ objects' = objects /\ queue'[o] = queue[o]
         \/ /\ objects' = objects \ {o} /\ queue'[o] = NoEntry /\ queue'[o].claim = "none"
            /\ o \notin Referenced(refs)
  <2>1. NoEntry \in Entries /\ NoEntry.claim = "none"
    BY DEF NoEntry, Entries
  <2>2. CASE queue' = Dequeued(queue, o) /\ objects' = objects \ {o} /\ o \notin Referenced(refs)
    <3>1. /\ queue' \in [Objects -> Entries] /\ queue'[o] = NoEntry
          /\ \A p \in Objects \ {o} : queue'[p] = queue[p]
      BY <2>1, <2>2, Zenon DEF Dequeued, Typed
    <3> QED BY <2>1, <2>2, <3>1, Zenon
  <2>3. CASE o \in overtaken' /\ queue' = queue /\ objects' = objects
    BY <2>3 DEF Typed
  <2> QED BY <1>b, <2>2, <2>3
<1>r. /\ rec' \in [Reconcilers -> Passes]
      /\ rec'[w].pc = "delete" /\ rec'[w].at = rec[w].at /\ rec'[w].locked = rec[w].locked
      /\ rec'[w].todo = {} /\ rec'[w].done = rec[w].done \ {Attempted(o, TRUE)}
  <2>4. PICK d : d = rec[w].done \ {Attempted(o, TRUE)}
    OBVIOUS
  <2> DEFINE l == [rec[w] EXCEPT !.done = d]
  <2>0. rec[w] \in Passes
    BY DEF Typed
  <2>6. d \subseteq Deletions
    BY <2>0, <2>4 DEF Passes
  <2>1. l \in Passes
    BY <2>0, <2>6 DEF Passes
  <2>2. l.pc = "delete" /\ l.at = rec[w].at /\ l.locked = rec[w].locked /\ l.todo = rec[w].todo /\ l.done = d
    BY <2>0, <1>e DEF Passes
  <2>3. rec' = [rec EXCEPT ![w] = l]
    BY <1>e, <2>4, Zenon
  <2>7. rec[w].todo = {}
    BY <1>e
  <2> HIDE DEF l
  <2> QED BY <2>1, <2>2, <2>3, <2>4, <2>7, Zenon DEF Typed
<1>s. \A x \in Reconcilers \ {w} : rec'[x] = rec[x]
  BY <1>e, Zenon DEF Typed
<1>t. /\ \A p \in Objects \ {o} :
           /\ Attempted(p, TRUE) \in rec'[w].done <=> Attempted(p, TRUE) \in rec[w].done
           /\ Attempted(p, FALSE) \in rec'[w].done <=> Attempted(p, FALSE) \in rec[w].done
      /\ Attempted(o, TRUE) \notin rec'[w].done /\ Attempted(o, FALSE) \notin rec'[w].done
  <2>1. ~(Attempted(o, TRUE) \in rec[w].done /\ Attempted(o, FALSE) \in rec[w].done)
    BY <1>l, AttemptedFact DEF HoldsSoundly
  <2> QED BY <2>1, <1>e, <1>r, AttemptedFact
<1>1. Typed'
  BY <1>u, <1>q, <1>g, <1>r DEF Typed
<1>2. RefsSound'
  <2>1. o \notin Referenced(refs) => \A i \in Identities : refs[i].object # o
    BY ReferencedFact DEF Typed
  <2> QED BY <2>1, <1>u, <1>q DEF RefsSound
<1>3. ClientsTimely'
  BY <1>u DEF ClientsTimely
<1>4. PassesSound'
  BY <1>u, <1>r, <1>s, <1>e DEF PassesSound
<1>5. QueueSound'
  BY <1>u, <1>q DEF QueueSound, InQueue
<1>6. UploadsSound'
  <2>1. uploads[o].state = "committed" => o \in overtaken'
    BY <1>x, <1>n
  <2> QED BY <2>1, <1>u, <1>g, <1>q DEF UploadsSound
<1>7. ClaimsSound'
  BY <1>u, <1>g, <1>q DEF ClaimsSound
<1>8. HoldingSound'
  <2>1. \A p \in Objects, x \in Reconcilers : queue'[p].claim = x => queue[p].claim = x
    BY <1>q, ConstantFacts
  <2>2. ASSUME NEW x \in Reconcilers \ {w} PROVE HoldsSoundly(x)'
    <3>1. rec'[x] = rec[x] /\ HoldsSoundly(x)
      BY <2>2, <1>s DEF HoldingSound
    <3> QED BY <2>1, <3>1, <1>u, <1>g DEF HoldsSoundly
  <2>3. ASSUME NEW p \in Objects
        PROVE  /\ p \notin rec'[w].todo
               /\ Attempted(p, TRUE) \in rec'[w].done => Attempted(p, TRUE) \in rec[w].done
               /\ Attempted(p, FALSE) \in rec'[w].done => Attempted(p, FALSE) \in rec[w].done
    BY <1>r
  <2>4. HoldsSoundly(w)'
    BY <2>1, <2>3, <1>l, <1>r, <1>u, <1>g DEF HoldsSoundly
  <2> QED BY <2>2, <2>4 DEF HoldingSound
<1>9. BytesSound'
  BY <1>u, <1>b, <1>g, <1>q, <1>x DEF BytesSound
<1>10. VerifiedSound'
  BY <1>u, <1>g DEF VerifiedSound
<1>11. UrlsSound'
  BY <1>u, <1>g, <1>q, <1>x DEF UrlsSound, UrlEnds
<1>12. CommittedSound'
  BY <1>u, <1>g, <1>r, <1>s, <1>e, <1>q DEF CommittedSound, InQueue, Claiming
<1>13. RecentSound'
  BY <1>u, <1>g, <1>r, <1>s, <1>e DEF RecentSound, Claiming
<1> QED BY <1>1, <1>2, <1>3, <1>4, <1>5, <1>6, <1>7, <1>8, <1>9, <1>10, <1>11, <1>12, <1>13 DEF CacheInv

LEMMA FailDeletionKeeps ==
  ASSUME NEW w \in Reconcilers, NEW o \in Objects, CacheInv, FailDeletion(w, o)
  PROVE  CacheInv'
<1>i. Typed /\ RefsSound /\ ClientsTimely /\ PassesSound /\ QueueSound /\ UploadsSound
      /\ ClaimsSound /\ HoldingSound /\ BytesSound /\ VerifiedSound /\ UrlsSound
      /\ CommittedSound /\ RecentSound /\ Numbers
  BY TypeFacts DEF CacheInv
<1> USE ConstantFacts, <1>i DEF Numbers
<1>u. /\ now' = now /\ issued' = issued /\ refs' = refs /\ objects' = objects
      /\ uploads' = uploads /\ bucket' = bucket /\ late' = late /\ urls' = urls
      /\ client' = client
  BY DEF FailDeletion, rows, store
<1>e. /\ rec[w].pc = "delete" /\ rec[w].todo = {} /\ Attempted(o, FALSE) \in rec[w].done
      /\ rec' = [rec EXCEPT ![w].done = rec[w].done \ {Attempted(o, FALSE)}]
  BY DEF FailDeletion, AllDeleted, Attempted
<1>a. rec[w].at \in Int /\ rec[w].at \in 0..now
  BY <1>e DEF PassesSound
<1>g. /\ overtaken \subseteq overtaken' /\ overtaken' \subseteq Objects
      /\ \A p \in Objects \ overtaken' : p \in Objects \ overtaken
      /\ o \notin overtaken' => queue[o].claim = w
  BY DEF FailDeletion, GoesOn, HoldsClaim, Typed
<1>l. HoldsSoundly(w)
  BY DEF HoldingSound
<1>x. o \notin overtaken' =>
        /\ queue[o].claim = w /\ queue[o].claim # "none" /\ o \in objects /\ o \notin Referenced(refs)
        /\ urls[o] =< now /\ uploads[o] = NoUpload
  <2>1. o \notin overtaken' => queue[o].claim = w /\ queue[o].claim # "none"
    BY <1>g, ConstantFacts
  <2> QED BY <2>1, <1>g DEF ClaimsSound
<1>n. NoUpload.state = "none" /\ NoUpload.id = 0
  BY DEF NoUpload
<1>q. /\ queue' \in [Objects -> Entries] /\ \A p \in Objects \ {o} : queue'[p] = queue[p]
      /\ queue'[o].claim = queue[o].claim
      /\ queue'[o] = queue[o] \/ (queue[o] # NoEntry /\ queue'[o].notBefore = rec[w].at + RetryAfter)
  <2>1. CASE queue[o] # NoEntry
    <3> DEFINE l == [queue[o] EXCEPT !.notBefore = rec[w].at + RetryAfter]
    <3>1. rec[w].at + RetryAfter \in Int /\ queue[o] \in Entries
      BY <1>a, ConstantFacts DEF Typed
    <3>2. l \in Entries /\ l.notBefore = rec[w].at + RetryAfter /\ l.claim = queue[o].claim
      BY <3>1 DEF Entries
    <3>3. queue' = [queue EXCEPT ![o] = l]
      BY <2>1 DEF FailDeletion, InQueue
    <3> HIDE DEF l
    <3>4. queue' \in [Objects -> Entries] /\ queue'[o] = l /\ \A p \in Objects \ {o} : queue'[p] = queue[p]
      BY <3>2, <3>3, Zenon DEF Typed
    <3> QED BY <2>1, <3>2, <3>4, Zenon
  <2>2. CASE queue[o] = NoEntry
    BY <2>2 DEF FailDeletion, InQueue, Typed
  <2> QED BY <2>1, <2>2
<1>r. /\ rec' \in [Reconcilers -> Passes]
      /\ rec'[w].pc = "delete" /\ rec'[w].at = rec[w].at /\ rec'[w].locked = rec[w].locked
      /\ rec'[w].todo = {} /\ rec'[w].done = rec[w].done \ {Attempted(o, FALSE)}
  <2>4. PICK d : d = rec[w].done \ {Attempted(o, FALSE)}
    OBVIOUS
  <2> DEFINE l == [rec[w] EXCEPT !.done = d]
  <2>0. rec[w] \in Passes
    BY DEF Typed
  <2>6. d \subseteq Deletions
    BY <2>0, <2>4 DEF Passes
  <2>1. l \in Passes
    BY <2>0, <2>6 DEF Passes
  <2>2. l.pc = "delete" /\ l.at = rec[w].at /\ l.locked = rec[w].locked /\ l.todo = rec[w].todo /\ l.done = d
    BY <2>0, <1>e DEF Passes
  <2>3. rec' = [rec EXCEPT ![w] = l]
    BY <1>e, <2>4, Zenon
  <2>7. rec[w].todo = {}
    BY <1>e
  <2> HIDE DEF l
  <2> QED BY <2>1, <2>2, <2>3, <2>4, <2>7, Zenon DEF Typed
<1>s. \A x \in Reconcilers \ {w} : rec'[x] = rec[x]
  BY <1>e, Zenon DEF Typed
<1>t. /\ \A p \in Objects \ {o} :
           /\ Attempted(p, TRUE) \in rec'[w].done <=> Attempted(p, TRUE) \in rec[w].done
           /\ Attempted(p, FALSE) \in rec'[w].done <=> Attempted(p, FALSE) \in rec[w].done
      /\ Attempted(o, TRUE) \notin rec'[w].done /\ Attempted(o, FALSE) \notin rec'[w].done
  <2>1. ~(Attempted(o, TRUE) \in rec[w].done /\ Attempted(o, FALSE) \in rec[w].done)
    BY <1>l, AttemptedFact DEF HoldsSoundly
  <2> QED BY <2>1, <1>e, <1>r, AttemptedFact
<1>1. Typed'
  BY <1>u, <1>q, <1>g, <1>r DEF Typed
<1>2. RefsSound'
  BY <1>u DEF RefsSound
<1>3. ClientsTimely'
  BY <1>u DEF ClientsTimely
<1>4. PassesSound'
  BY <1>u, <1>r, <1>s, <1>e DEF PassesSound
<1>5. QueueSound'
  <2>1. rec[w].at + RetryAfter \in Times
    BY <1>a, ConstantFacts DEF Times, Typed
  <2> QED BY <2>1, <1>u, <1>q DEF QueueSound, InQueue
<1>6. UploadsSound'
  BY <1>u, <1>g DEF UploadsSound
<1>7. ClaimsSound'
  BY <1>u, <1>g, <1>q DEF ClaimsSound
<1>8. HoldingSound'
  <2>1. \A p \in Objects, x \in Reconcilers : queue'[p].claim = x => queue[p].claim = x
    BY <1>q, ConstantFacts
  <2>2. ASSUME NEW x \in Reconcilers \ {w} PROVE HoldsSoundly(x)'
    <3>1. rec'[x] = rec[x] /\ HoldsSoundly(x)
      BY <2>2, <1>s DEF HoldingSound
    <3> QED BY <2>1, <3>1, <1>u, <1>g DEF HoldsSoundly
  <2>3. ASSUME NEW p \in Objects
        PROVE  /\ p \notin rec'[w].todo
               /\ Attempted(p, TRUE) \in rec'[w].done => Attempted(p, TRUE) \in rec[w].done
               /\ Attempted(p, FALSE) \in rec'[w].done => Attempted(p, FALSE) \in rec[w].done
    BY <1>r
  <2>4. HoldsSoundly(w)'
    BY <2>1, <2>3, <1>l, <1>r, <1>u, <1>g DEF HoldsSoundly
  <2> QED BY <2>2, <2>4 DEF HoldingSound
<1>9. BytesSound'
  BY <1>u, <1>g, <1>q DEF BytesSound
<1>10. VerifiedSound'
  BY <1>u, <1>g DEF VerifiedSound
<1>11. UrlsSound'
  BY <1>u, <1>g, <1>q, <1>x DEF UrlsSound, UrlEnds
<1>12. CommittedSound'
  BY <1>u, <1>g, <1>r, <1>s, <1>e, <1>q, <1>x, <1>n DEF CommittedSound, InQueue, Claiming
<1>13. RecentSound'
  BY <1>u, <1>g, <1>r, <1>s, <1>e DEF RecentSound, Claiming
<1> QED BY <1>1, <1>2, <1>3, <1>4, <1>5, <1>6, <1>7, <1>8, <1>9, <1>10, <1>11, <1>12, <1>13 DEF CacheInv

LEMMA RestoreKeeps ==
  ASSUME NEW c \in Clients, CacheInv, Restore(c)
  PROVE  CacheInv'
<1>i. Typed /\ RefsSound /\ ClientsTimely /\ PassesSound /\ QueueSound /\ UploadsSound
      /\ ClaimsSound /\ HoldingSound /\ BytesSound /\ VerifiedSound /\ UrlsSound
      /\ CommittedSound /\ RecentSound /\ Numbers
  BY TypeFacts DEF CacheInv
<1> USE ConstantFacts, <1>i DEF Numbers
<1>u. /\ now' = now /\ issued' = issued /\ objects' = objects /\ queue' = queue
      /\ uploads' = uploads /\ bucket' = bucket /\ late' = late /\ overtaken' = overtaken /\ rec' = rec
  BY DEF Restore, rows, store
<1>a. client[c].at \in Int /\ Current(client[c].at) /\ now =< client[c].at + MaxLag
  BY RequestIsCurrent DEF Restore
<1>b. PICK at \in Int, i \in Identities :
        /\ at = client[c].at /\ i \in Candidates(client[c].identity, at) \ Locked
        /\ refs' = [refs EXCEPT ![i] = PointTo(refs[i].object, at)]
        /\ urls' = [urls EXCEPT ![refs[i].object] = Max({urls[refs[i].object], now + UrlTTL})]
  <2>1. Candidates(client[c].identity, client[c].at) \subseteq Identities
    BY DEF Candidates, Present
  <2> QED BY <1>a, <2>1 DEF Restore
<1>l. refs[i] # NoRef /\ i \notin Locked
  <2>1. Candidates(client[c].identity, at) \subseteq Present(refs)
    BY DEF Candidates
  <2> QED BY <1>b, <2>1 DEF Present
<1>o. PICK o \in Objects : o = refs[i].object /\ o \in objects
  BY <1>l DEF RefsSound, Typed
<1>m. PICK m \in Int : m = Max({urls[o], now + UrlTTL}) /\ m \in {urls[o], now + UrlTTL}
  <2>1. urls[o] \in Int /\ now + UrlTTL \in Int
    BY ConstantFacts
  <2> QED BY <2>1, MaxPair
<1>g. /\ urls' \in [Objects -> Nat] /\ urls'[o] = m /\ \A p \in Objects \ {o} : urls'[p] = urls[p]
  <2>1. m \in Nat
    BY <1>m, ConstantFacts
  <2>2. urls' = [urls EXCEPT ![o] = m]
    BY <1>b, <1>o, <1>m, Zenon
  <2> QED BY <2>1, <2>2, Zenon DEF Typed
<1>f. /\ refs' \in [Identities -> Refs]
      /\ refs'[i].object = o /\ refs'[i].accessed = at /\ refs'[i].expires = at + ReferenceTTL
      /\ \A j \in Identities \ {i} : refs'[j] = refs[j]
  <2>1. PointTo(o, at) \in Refs /\ PointTo(o, at).object = o /\ PointTo(o, at).accessed = at
        /\ PointTo(o, at).expires = at + ReferenceTTL
    BY ConstantFacts, <1>b, <1>o DEF PointTo, Refs
  <2>2. refs' = [refs EXCEPT ![i] = PointTo(o, at)]
    BY <1>b, <1>o, Zenon
  <2> QED BY <2>1, <2>2, Zenon DEF Typed
<1>s. \A j \in Identities : refs'[j].object = refs[j].object
  BY <1>f, <1>o
<1>t. \A p \in Objects : p \in Referenced(refs') <=> p \in Referenced(refs)
  <2> SUFFICES ASSUME NEW p \in Objects PROVE p \in Referenced(refs') <=> p \in Referenced(refs)
    OBVIOUS
  <2>1. p \in Referenced(refs) <=> \E j \in Identities : refs[j].object = p
    BY ReferencedFact DEF Typed
  <2>2. p \in Referenced(refs') <=> \E j \in Identities : refs'[j].object = p
    BY <1>f, ReferencedFact
  <2> QED BY <2>1, <2>2, <1>s
<1>v. o \in Referenced(refs)
  BY <1>o, ReferencedFact DEF Typed
<1>c. /\ client' \in [Clients -> Requests]
      /\ client'[c].pc = "idle" /\ client'[c].id = 0
      /\ \A d \in Clients \ {c} : client'[d] = client[d]
  BY DEF Restore, Ends, Idle, Typed, Requests, rows, store
<1>1. Typed'
  BY <1>u, <1>f, <1>g, <1>c DEF Typed
<1>2. RefsSound'
  BY <1>u, <1>f, <1>o, <1>a, <1>b DEF RefsSound, Current
<1>3. ClientsTimely'
  BY <1>u, <1>c DEF ClientsTimely
<1>4. PassesSound'
  <2>1. \A w \in Reconcilers : \A j \in rec[w].locked : j \in Identities \ {i}
    BY <1>l DEF Locked, Typed, Passes
  <2> QED BY <2>1, <1>u, <1>f, PassesKept
<1>5. QueueSound'
  BY <1>u DEF QueueSound, InQueue
<1>6. UploadsSound'
  BY <1>u DEF UploadsSound
<1>7. ClaimsSound'
  <2>1. \A p \in Objects \ overtaken : queue[p].claim # "none" => p # o
    BY <1>v DEF ClaimsSound
  <2> QED BY <2>1, <1>t, <1>g, <1>u DEF ClaimsSound
<1>8. HoldingSound'
  BY <1>u DEF HoldingSound, HoldsSoundly
<1>9. BytesSound'
  BY <1>u DEF BytesSound
<1>10. VerifiedSound'
  BY <1>u, <1>c DEF VerifiedSound
<1>11. UrlsSound'
  <2>0. \A p \in Objects : urls'[p] =< now + UrlTTL
    BY <1>g, <1>m DEF UrlsSound
  <2> SUFFICES ASSUME NEW p \in Objects \ overtaken
               PROVE  /\ p \notin objects => urls'[p] =< now
                      /\ \/ urls'[p] =< now
                         \/ \E j \in Identities : refs'[j].object = p /\
                                                  urls'[p] =< refs'[j].accessed + MaxLag + UrlTTL
                         \/ queue[p] # NoEntry /\ urls'[p] =< queue[p].notBefore
                            /\ \A j \in Identities : refs'[j].object # p
    BY <2>0, <1>u DEF UrlsSound, UrlEnds
  <2>1. CASE p = o
    <3>1. urls'[o] =< now + UrlTTL
      BY <1>g, <1>m DEF UrlsSound
    <3>2. urls'[o] =< refs'[i].accessed + MaxLag + UrlTTL
      BY <3>1, <1>a, <1>b, <1>f, <1>g, ConstantFacts
    <3> QED BY <2>1, <3>1, <3>2, <1>f, <1>o
  <2>2. CASE p # o
    <3>1. /\ urls'[p] = urls[p] /\ urls[p] =< now + UrlTTL /\ (p \notin objects => urls[p] =< now)
          /\ UrlEnds(refs, queue, p)
      BY <2>2, <1>g DEF UrlsSound
    <3>2. \A j \in Identities : refs[j].object = p => refs'[j] = refs[j]
      BY <1>f, <1>o, <2>2
    <3>3. ASSUME NEW j \in Identities, refs[j].object = p, urls[p] =< refs[j].accessed + MaxLag + UrlTTL
          PROVE  refs'[j].object = p /\ urls'[p] =< refs'[j].accessed + MaxLag + UrlTTL
      BY <3>1, <3>2, <3>3
    <3> QED BY <3>1, <3>3, <1>s DEF UrlEnds
  <2> QED BY <2>1, <2>2
<1>12. CommittedSound'
  BY <1>u DEF CommittedSound, InQueue, Claiming
<1>13. RecentSound'
  <2> SUFFICES ASSUME NEW p \in Objects \ overtaken, NEW j \in Identities,
                      uploads[p].state = "committed", refs'[j].object = p
               PROVE  /\ uploads[p].expires =< refs'[j].accessed + MaxLag + LeaseTerm
                      /\ \A w \in Reconcilers : Claiming(w) =>
                           rec[w].at < uploads[p].expires \/ rec[w].at =< refs'[j].accessed + MaxLag
    BY <1>u DEF RecentSound, Claiming
  <2>1. CASE j = i
    <3>1. uploads[p].expires =< now + LeaseTerm
      BY DEF UploadsSound, NoUpload
    <3>2. now =< refs'[j].accessed + MaxLag
      BY <2>1, <1>a, <1>b, <1>f
    <3>3. \A w \in Reconcilers : Claiming(w) => rec[w].at =< now
      BY DEF PassesSound, Claiming
    <3> QED BY <2>1, <3>1, <3>2, <3>3, <1>b, <1>f
  <2>2. CASE j # i
    <3>1. refs'[j] = refs[j]
      BY <2>2, <1>f
    <3> QED BY <3>1 DEF RecentSound
  <2> QED BY <2>1, <2>2
<1> QED BY <1>1, <1>2, <1>3, <1>4, <1>5, <1>6, <1>7, <1>8, <1>9, <1>10, <1>11, <1>12, <1>13 DEF CacheInv
-----------------------------------------------------------------------------
(* The theorems                                                             *)

LEMMA InitHolds == Init => CacheInv
<1> SUFFICES ASSUME Init
             PROVE  CacheInv
  OBVIOUS
<1> USE ConstantFacts
<1>i. /\ now = 0 /\ issued = 0 /\ objects = {} /\ bucket = {} /\ late = {} /\ overtaken = {}
      /\ refs = [i \in Identities |-> NoRef] /\ queue = [o \in Objects |-> NoEntry]
      /\ uploads = [o \in Objects |-> NoUpload] /\ urls = [o \in Objects |-> 0]
      /\ client = [c \in Clients |-> Idle] /\ rec = [w \in Reconcilers |-> Resting]
  BY DEF Init
<1>0. /\ NoRef \in Refs /\ NoEntry \in Entries /\ NoUpload \in Uploads
      /\ Idle \in Requests /\ Resting \in Passes
  <2>1. NoRef \in Refs /\ NoEntry \in Entries
    BY DEF NoRef, NoEntry, Refs, Entries
  <2>2. NoUpload \in Uploads
    BY DEF NoUpload, Uploads
  <2>3. Idle \in Requests
    BY DEF Idle, Requests
  <2>4. Resting \in Passes
    BY DEF Resting, Passes
  <2> QED BY <2>1, <2>2, <2>3, <2>4
<1>1. Typed
  BY <1>i, <1>0 DEF Typed
<1>2. RefsSound
  BY <1>i DEF RefsSound
<1>3. ClientsTimely
  BY <1>i DEF ClientsTimely, Idle
<1>4. PassesSound
  BY <1>i DEF PassesSound, Resting
<1>5. QueueSound
  BY <1>i DEF QueueSound, InQueue
<1>6. UploadsSound
  BY <1>i DEF UploadsSound
<1>7. ClaimsSound
  BY <1>i DEF ClaimsSound, NoEntry
<1>8. HoldingSound
  BY <1>i DEF HoldingSound, HoldsSoundly, Resting
<1>9. BytesSound
  BY <1>i DEF BytesSound
<1>10. VerifiedSound
  BY <1>i DEF VerifiedSound, Idle
<1>11. UrlsSound
  BY <1>i DEF UrlsSound, UrlEnds
<1>12. CommittedSound
  BY <1>i DEF CommittedSound, InQueue
<1>13. RecentSound
  BY <1>i DEF RecentSound, NoUpload
<1> QED BY <1>1, <1>2, <1>3, <1>4, <1>5, <1>6, <1>7, <1>8, <1>9, <1>10, <1>11, <1>12, <1>13 DEF CacheInv

LEMMA StutteringKeeps == CacheInv /\ UNCHANGED vars => CacheInv'
<1> SUFFICES ASSUME CacheInv, UNCHANGED vars
             PROVE  CacheInv'
  OBVIOUS
<1>i. Typed /\ RefsSound /\ ClientsTimely /\ PassesSound /\ QueueSound /\ UploadsSound
      /\ ClaimsSound /\ HoldingSound /\ BytesSound /\ VerifiedSound /\ UrlsSound /\ CommittedSound
      /\ RecentSound
  BY DEF CacheInv
<1>u. /\ now' = now /\ issued' = issued /\ refs' = refs /\ objects' = objects /\ queue' = queue
      /\ uploads' = uploads /\ bucket' = bucket /\ late' = late /\ overtaken' = overtaken /\ urls' = urls
      /\ client' = client /\ rec' = rec
  BY DEF vars, rows, store
<1>1. Typed' /\ RefsSound' /\ ClientsTimely' /\ PassesSound'
  BY <1>i, <1>u DEF Typed, RefsSound, ClientsTimely, PassesSound
<1>2. QueueSound' /\ UploadsSound' /\ ClaimsSound'
  BY <1>i, <1>u DEF QueueSound, InQueue, UploadsSound, ClaimsSound
<1>3. HoldingSound' /\ BytesSound' /\ VerifiedSound'
  BY <1>i, <1>u DEF HoldingSound, HoldsSoundly, BytesSound, VerifiedSound
<1>4. UrlsSound' /\ CommittedSound' /\ RecentSound'
  BY <1>i, <1>u DEF UrlsSound, UrlEnds, CommittedSound, InQueue, RecentSound, Claiming
<1> QED BY <1>1, <1>2, <1>3, <1>4 DEF CacheInv

LEMMA ClientKeeps ==
  ASSUME NEW c \in Clients, CacheInv, ClientStep(c)
  PROVE  CacheInv'
<1>1. CASE \E i \in Identities : Ask(c, "restore", i, "none")
  <2>1. "none" \in Objects \cup {"none"} /\ "restore" \in {"restore", "prepare"} /\ "restore" # "prepare"
    OBVIOUS
  <2> QED BY <1>1, <2>1, AskKeeps
<1>2. CASE \E i \in Identities, o \in Objects : Ask(c, "prepare", i, o)
  <2>1. PICK i \in Identities, o \in Objects : Ask(c, "prepare", i, o)
    BY <1>2
  <2>2. o \in Objects \cup {"none"} /\ "prepare" \in {"restore", "prepare"}
    OBVIOUS
  <2> QED BY <2>1, <2>2, AskKeeps
<1>3. CASE Restore(c) \/ PrepareCurrent(c) \/ PrepareStored(c) \/ PrepareUpload(c)
  BY <1>3, RestoreKeeps, PrepareCurrentKeeps, PrepareStoredKeeps, PrepareUploadKeeps
<1>4. CASE Put(c) \/ AskCommit(c) \/ Verify(c) \/ Committed(c) \/ CommitStale(c) \/ NothingChanged(c)
  BY <1>4, PutKeeps, AskCommitKeeps, VerifyKeeps, CommittedKeeps, CommitStaleKeeps,
     NothingChangedKeeps
<1> QED BY <1>1, <1>2, <1>3, <1>4 DEF ClientStep

LEMMA PassKeeps ==
  ASSUME NEW w \in Reconcilers, CacheInv, PassStep(w) \/ EndPass(w)
  PROVE  CacheInv'
<1>1. CASE StartPass(w) \/ ExpireReferences(w) \/ ReferencesExpired(w) \/ ExpireCommittedUploads(w)
           \/ ExpireUploads(w) \/ EndPass(w)
  BY <1>1, StartPassKeeps, ExpireReferencesKeeps, ReferencesExpiredKeeps,
     ExpireCommittedUploadsKeeps,
     ExpireUploadsKeeps, EndPassKeeps
<1>2. CASE CleanupDone(w) \/ DeletionsClaimed(w) \/ NextBatch(w)
  BY <1>2, CleanupDoneKeeps, DeletionsClaimedKeeps, NextBatchKeeps
<1>3. CASE \E ok \in BOOLEAN, k \in rec[w].todo : CleanupUpload(w, k, ok)
  BY <1>3, CleanupUploadKeeps
<1>4. CASE \E o \in Objects : ClaimDeletion(w, o) \/ CompleteDeletion(w, o) \/ FailDeletion(w, o)
  BY <1>4, ClaimDeletionKeeps, CompleteDeletionKeeps, FailDeletionKeeps
<1>5. CASE \E ok \in BOOLEAN, o \in Objects : DeleteObject(w, o, ok)
  BY <1>5, DeleteObjectKeeps
<1> QED BY <1>1, <1>2, <1>3, <1>4, <1>5 DEF PassStep

\* Every reachable state satisfies CacheInv: what the store holds, what its clients and passes have
\* in hand, and how the terms of references, leases, URLs and queue entries bound one another.
THEOREM CacheInvariant == Spec => []CacheInv
<1>1. Init => CacheInv
  BY InitHolds
<1>2. CacheInv /\ [Next]_vars => CacheInv'
  BY StutteringKeeps, TickKeeps, ClientKeeps, PassKeeps DEF Next
<1> QED BY <1>1, <1>2, PTL DEF Spec

LEMMA InvIsStored == CacheInv => CachesAreStored
<1> SUFFICES ASSUME CacheInv
             PROVE  CachesAreStored
  OBVIOUS
<1>i. Typed /\ RefsSound /\ ClientsTimely /\ PassesSound /\ QueueSound /\ UploadsSound
      /\ ClaimsSound /\ HoldingSound /\ BytesSound /\ VerifiedSound /\ UrlsSound /\ Numbers
  BY TypeFacts DEF CacheInv
<1> USE ConstantFacts, <1>i DEF Numbers
<1>1. TypeOK
  <2>1. \A o \in Objects : uploads[o] # NoUpload => uploads[o].expires \in Times
    BY DEF UploadsSound, Times, Typed
  <2>2. \A i \in Present(refs) : /\ refs[i].object \in Objects /\ refs[i].accessed \in 0..now
                                 /\ refs[i].expires = refs[i].accessed + ReferenceTTL
    BY DEF RefsSound, Present, Typed
  <2>3. \A c \in Clients : client[c].pc \in {"idle", "restore", "prepare", "upload", "commit", "verified"}
    BY DEF Typed, Requests
  <2>4. now \in 0..Horizon /\ issued \in 0..MaxUploads
        /\ objects \subseteq Objects /\ bucket \subseteq Objects
        /\ late \subseteq Objects /\ overtaken \subseteq Objects
    BY DEF Typed
  <2>5. \A o \in Objects : InQueue(o) => o \in objects /\ queue[o].notBefore \in Times
    BY DEF QueueSound
  <2>6. \A o \in {p \in Objects : uploads[p] # NoUpload} :
          /\ uploads[o].id \in 1..issued /\ uploads[o].identity \in Identities
          /\ \A p \in Objects \ {o} : uploads[o].id # uploads[p].id
    BY DEF UploadsSound
  <2>7. \A w \in Reconcilers : rec[w].pc # "expiring" => rec[w].locked = {}
    BY DEF PassesSound
  <2> QED BY <2>1, <2>2, <2>3, <2>4, <2>5, <2>6, <2>7 DEF TypeOK
<1>2. ReferencedIsStored
  <2> SUFFICES ASSUME NEW i \in Present(refs)
               PROVE  refs[i].object \in objects /\ refs[i].object \in bucket \cup overtaken
    BY DEF ReferencedIsStored
  <2>1. PICK o \in Objects : o = refs[i].object /\ o \in objects /\ i \in Identities
    BY DEF RefsSound, Present, Typed
  <2>2. o \notin overtaken => queue[o].claim = "none"
    BY <2>1, ReferencedFact DEF ClaimsSound, Typed
  <2> QED BY <2>1, <2>2 DEF BytesSound
<1>3. DownloadsHold
  BY DEF DownloadsHold, UrlsSound, ClaimsSound, BytesSound
<1>4. BytesAreTracked
  BY DEF BytesAreTracked, BytesSound, Typed
<1> QED BY <1>1, <1>2, <1>3, <1>4 DEF CachesAreStored

\* An exact identity's object has its row and its bytes, a download URL stays good for its term, and
\* bytes in the bucket have an owner unless they came after their lease: whatever the number of
\* attempts and replicas, their order, and the deletions and passes that fail (restore,
\* prepare_upload and commit_upload against the reconciliation of any replica).
THEOREM CachesStayStored == Spec => []CachesAreStored
<1> QED BY CacheInvariant, InvIsStored, PTL

LEMMA NeverRepointedStep ==
  ASSUME CacheInv, [Next]_vars, NEW i \in Present(refs), now < refs[i].expires, i \in Present(refs')
  PROVE  refs'[i].object = refs[i].object
<1>i. Typed /\ Numbers
  BY TypeFacts DEF CacheInv
<1>0. i \in Identities /\ refs[i] # NoRef /\ refs'[i] # NoRef
  BY DEF Present
<1>1. CASE refs' = refs
  BY <1>1
<1>2. ASSUME NEW c \in Clients, Restore(c)
      PROVE  refs'[i].object = refs[i].object
  <2>1. PICK j, at : refs' = [refs EXCEPT ![j] = PointTo(refs[j].object, at)]
    BY <1>2 DEF Restore
  <2>2. CASE i = j
    <3>1. refs'[i] = PointTo(refs[i].object, at)
      BY <2>1, <2>2, <1>0, <1>i, Zenon DEF Typed
    <3>2. \A o : PointTo(o, at).object = o
      BY DEF PointTo
    <3> QED BY <3>1, <3>2, Zenon
  <2>3. CASE i # j
    BY <2>1, <2>3, <1>0, <1>i, Zenon DEF Typed
  <2> QED BY <2>2, <2>3
<1>3. ASSUME NEW r, Dropped(r), r[i] = refs'[i]
      PROVE  refs'[i].object = refs[i].object
  BY <1>0, <1>3, Zenon DEF Dropped
<1>4. ASSUME NEW c \in Clients, client[c].pc = "prepare"
      PROVE  /\ Dropped(Kept(client[c].at))
             /\ Kept(client[c].at)[i] # NoRef
  <2>1. client[c].at \in Int /\ Current(client[c].at)
    BY <1>4, RequestIsCurrent
  <2> QED BY <2>1, KeptFact, <1>0, <1>i DEF Current, Numbers
<1>5. ASSUME NEW c \in Clients, PrepareCurrent(c)
      PROVE  refs'[i].object = refs[i].object
  <2>1. refs' = Kept(client[c].at) /\ client[c].pc = "prepare"
    BY <1>5 DEF PrepareCurrent, Preparing
  <2> QED BY <2>1, <1>3, <1>4
<1>6. ASSUME NEW c \in Clients, PrepareStored(c)
      PROVE  refs'[i].object = refs[i].object
  <2>1. PICK r, j, o, at : /\ r = Kept(client[c].at) /\ client[c].pc = "prepare" /\ r[j] = NoRef
                           /\ refs' = Inserted(r, j, o, at)
    BY <1>6 DEF PrepareStored, Preparing
  <2>2. Dropped(r) /\ r[i] # NoRef
    BY <2>1, <1>4
  <2>3. i # j
    BY <2>1, <2>2
  <2>4. refs'[i] = r[i]
    BY <2>1, <2>2, <2>3, <1>0, Zenon DEF Inserted, Dropped
  <2> QED BY <2>2, <2>4, <1>3
<1>7. ASSUME NEW c \in Clients, PrepareUpload(c)
      PROVE  refs'[i].object = refs[i].object
  <2>1. PICK r, v : r = Kept(client[c].at) /\ client[c].pc = "prepare" /\ refs' = Without(r, v)
    BY <1>7 DEF PrepareUpload, Preparing
  <2>2. Dropped(r)
    BY <2>1, <1>4
  <2>3. refs'[i] = r[i]
    BY <2>1, <1>0, Zenon DEF Without
  <2> QED BY <2>2, <2>3, <1>3
<1>8. ASSUME NEW c \in Clients, Committed(c)
      PROVE  refs'[i].object = refs[i].object
  <2>1. PICK j, o, at : refs[j] = NoRef /\ refs' = Inserted(refs, j, o, at)
    BY <1>8 DEF Committed
  <2>2. refs'[i] = refs[i]
    BY <2>1, <1>0, <1>i, Zenon DEF Inserted, Typed
  <2> QED BY <2>2
<1>9. ASSUME NEW w \in Reconcilers, ReferencesExpired(w)
      PROVE  refs'[i].object = refs[i].object
  <2>1. refs' = Without(refs, rec[w].locked)
    BY <1>9 DEF ReferencesExpired
  <2>2. refs'[i] = refs[i]
    BY <2>1, <1>0, Zenon DEF Without
  <2> QED BY <2>2
<1>10. ASSUME NEW c \in Clients, ClientStep(c)
       PROVE  refs'[i].object = refs[i].object
  <2>1. CASE Restore(c) \/ PrepareCurrent(c) \/ PrepareStored(c) \/ PrepareUpload(c) \/ Committed(c)
    BY <2>1, <1>2, <1>5, <1>6, <1>7, <1>8
  <2>2. CASE ~(Restore(c) \/ PrepareCurrent(c) \/ PrepareStored(c) \/ PrepareUpload(c) \/ Committed(c))
    <3>1. refs' = refs
      BY <1>10, <2>2 DEF ClientStep, Ask, Put, AskCommit, Verify, CommitStale, NothingChanged,
         rows, store
    <3> QED BY <3>1, <1>1
  <2> QED BY <2>1, <2>2
<1>11. ASSUME NEW w \in Reconcilers, PassStep(w) \/ EndPass(w)
       PROVE  refs'[i].object = refs[i].object
  <2>1. CASE ReferencesExpired(w)
    BY <2>1, <1>9
  <2>2. CASE ~ReferencesExpired(w)
    <3>1. refs' = refs
      BY <1>11, <2>2 DEF PassStep, EndPass, StartPass, ExpireReferences, ExpireCommittedUploads,
         ExpireUploads, CleanupDone, DeletionsClaimed,
         NextBatch, CleanupUpload, ClaimDeletion, CompleteDeletion, FailDeletion, DeleteObject, rows, store
    <3> QED BY <3>1, <1>1
  <2> QED BY <2>1, <2>2
<1>12. CASE Tick
  BY <1>12, <1>1 DEF Tick, rows
<1>13. CASE UNCHANGED vars
  BY <1>13, <1>1 DEF vars, rows
<1> QED BY <1>10, <1>11, <1>12, <1>13 DEF Next

\* Until it expires or is evicted, an exact identity leads to the same object, however many attempts
\* store bytes for it (prepare_upload, commit_upload).
THEOREM ObjectsStayPut == Spec => NeverRepointed
<1>1. CacheInv /\ [Next]_vars =>
        [\A i \in Present(refs) : now < refs[i].expires /\ i \in Present(refs')
                                    => refs'[i].object = refs[i].object]_vars
  BY NeverRepointedStep
<1> QED BY <1>1, CacheInvariant, PTL DEF Spec, NeverRepointed
=============================================================================
