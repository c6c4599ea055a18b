--------------------------- MODULE CachedRelations ---------------------------
(***************************************************************************)
(* CachedRelationRepository over LruTupleCache, or over RedisTupleCache:   *)
(* reads of object and subject buckets go through a cache whose keys carry *)
(* tenant and revision; nothing is ever invalidated.  A read is the cache  *)
(* lookup, the backend's read, the fill and the return, and other reads,   *)
(* the writes of the backend and restarts happen between them.             *)
(*                                                                         *)
(* The backend is what RevisionedStore promises: snapshots[tn] lists the   *)
(* snapshots of a tenant, that of revision r at place r + 1.               *)
(***************************************************************************)
EXTENDS RedisStore, TupleFilters

CONSTANTS
  Tenant,
  Tuple,      \* relation tuples, as records of the six fields
  Contents,   \* the sets of tuples that writes may leave active
  Requests,   \* what threads ask for: records of an op and a filter
  Reader,     \* threads that call read or read_reverse
  MaxHead,    \* bound on the revisions of a tenant
  MaxClock    \* bound on the clock

ASSUME ContentsAssumption == Contents \subseteq SUBSET Tuple
ASSUME BoundsAssumption == MaxHead \in Nat /\ MaxClock \in Nat

\* What decodes is a set of tuples.
ASSUME CorruptAssumption == \A A \in SUBSET Tuple : A # Corrupt

VARIABLES
  kind,       \* which tuple cache is configured, "lru" or "redis"
  snapshots,  \* the backend
  cache,      \* the LruStore of LruTupleCache
  server,     \* the entries on the Redis server
  clock,
  read        \* read[rd]: the call of thread rd

stores == <<cache, server>>
vars == <<kind, snapshots, stores, clock, read>>

HeadRevision(tn) == Len(snapshots[tn]) - 1
SnapshotAt(tn, r) == snapshots[tn][r + 1]

Idle == [pc |-> "idle"]
Empty == [tn \in Tenant |-> << {} >>]

Init ==
  /\ kind \in {"lru", "redis"}
  /\ snapshots = Empty
  /\ cache = <<>>
  /\ server = {}
  /\ clock = 0
  /\ read = [rd \in Reader |-> Idle]

\* write: the backend commits a revision, the cache is left alone.
Write(tn) ==
  /\ HeadRevision(tn) < MaxHead
  /\ \E A \in Contents :
       snapshots' = [snapshots EXCEPT ![tn] = Append(@, A)]
  /\ UNCHANGED <<kind, stores, clock, read>>

Tick ==
  /\ clock < MaxClock
  /\ clock' = clock + 1
  /\ UNCHANGED <<kind, snapshots, stores, read>>

------------------------------------------------------------------------------
\* Which bucket answers a filter.  An object bucket is tried first, and only
\* by read: read_reverse looks for a subject bucket alone.

UsesObjectBucket(call) == call.op = "read" /\ IsObjectBucket(call.filter)
UsesSubjectBucket(call) ==
  ~UsesObjectBucket(call) /\ IsSubjectBucket(call.filter)
UsesBucket(call) == UsesObjectBucket(call) \/ UsesSubjectBucket(call)

\* What is read from the backend.
BackendFilter(call) ==
  IF UsesObjectBucket(call) THEN ObjectBucketFilter(call.filter)
  ELSE IF UsesSubjectBucket(call) THEN SubjectBucketFilter(call.filter)
  ELSE call.filter

\* _object_key, _subject_key
Key(call) ==
  IF UsesObjectBucket(call)
    THEN <<"object", call.tenant, call.at, call.filter.object_type,
           call.filter.object_id>>
    ELSE <<"subject", call.tenant, call.at, call.filter.subject_type,
           call.filter.subject_id, SubjectRefRelation(call.filter)>>

------------------------------------------------------------------------------
\* read, read_reverse

StartRead(rd, op, tn, at, filter) ==
  LET call == [pc |-> "cache", op |-> op, tenant |-> tn, at |-> at,
               filter |-> filter]
  IN
  /\ read[rd].pc \in {"idle", "done"}
  /\ read' = [read EXCEPT ![rd] =
       IF UsesBucket(call) THEN call ELSE [call EXCEPT !.pc = "backend"]]
  /\ UNCHANGED <<kind, snapshots, stores, clock>>

Answer(call, tuples) ==
  [pc |-> "done", op |-> call.op, tenant |-> call.tenant, at |-> call.at,
   filter |-> call.filter, got |-> Matching(call.filter, tuples)]

\* The bucket that was found, or the way to the backend.
Looked(call, found) ==
  IF found = {} THEN [call EXCEPT !.pc = "backend"]
  ELSE Answer(call, CHOOSE v \in found : TRUE)

GetCached(rd) ==
  LET call == read[rd]
      got  == Get(cache, Key(call), clock)
  IN
  /\ kind = "lru"
  /\ call.pc = "cache"
  /\ cache' = got.store
  /\ read' = [read EXCEPT ![rd] = Looked(call, got.found)]
  /\ UNCHANGED <<kind, snapshots, server, clock>>

\* A payload that cannot be decoded is deleted, in a command of its own.
GetFromRedis(rd) ==
  LET call  == read[rd]
      found == RedisGet(server, Key(call), clock)
  IN
  /\ kind = "redis"
  /\ call.pc = "cache"
  /\ read' = [read EXCEPT ![rd] =
       IF Corrupt \in found THEN [call EXCEPT !.pc = "corrupt"] ELSE Looked(call, found)]
  /\ UNCHANGED <<kind, snapshots, stores, clock>>

DeleteCorrupt(rd) ==
  /\ read[rd].pc = "corrupt"
  /\ server' = RedisDelete(server, Key(read[rd]))
  /\ read' = [read EXCEPT ![rd].pc = "backend"]
  /\ UNCHANGED <<kind, snapshots, cache, clock>>

\* An exception of the cache counts as a miss.
GetFails(rd) ==
  /\ read[rd].pc \in {"cache", "corrupt"}
  /\ read' = [read EXCEPT ![rd].pc = "backend"]
  /\ UNCHANGED <<kind, snapshots, stores, clock>>

\* The backend refuses a revision that is newer than its head.
ReadBackend(rd) ==
  LET call == read[rd]
      got  == Matching(BackendFilter(call), SnapshotAt(call.tenant, call.at))
  IN
  /\ call.pc = "backend"
  /\ call.at <= HeadRevision(call.tenant)
  /\ read' = [read EXCEPT ![rd] =
       IF UsesBucket(call)
         THEN [pc |-> "fill", op |-> call.op, tenant |-> call.tenant,
               at |-> call.at, filter |-> call.filter, bucket |-> got]
         ELSE Answer(call, got)]
  /\ UNCHANGED <<kind, snapshots, stores, clock>>

RefuseFuture(rd) ==
  /\ read[rd].pc = "backend"
  /\ read[rd].at > HeadRevision(read[rd].tenant)
  /\ read' = [read EXCEPT ![rd] = Idle]
  /\ UNCHANGED <<kind, snapshots, stores, clock>>

FillCache(rd) ==
  LET call == read[rd] IN
  /\ call.pc = "fill"
  /\ IF kind = "lru"
       THEN cache' = Set(cache, Key(call), call.bucket, clock) /\ UNCHANGED server
       ELSE /\ server' \in RedisSet(server, Key(call), call.bucket, clock)
            /\ UNCHANGED cache
  /\ read' = [read EXCEPT ![rd] = Answer(call, call.bucket)]
  /\ UNCHANGED <<kind, snapshots, clock>>

\* An exception of the cache is swallowed: the backend's answer stands.
FillFails(rd) ==
  /\ read[rd].pc = "fill"
  /\ read' = [read EXCEPT ![rd] = Answer(read[rd], read[rd].bucket)]
  /\ UNCHANGED <<kind, snapshots, stores, clock>>

------------------------------------------------------------------------------
\* What happens to the stores from outside

\* The server evicts an entry.
ServerEvicts ==
  /\ \E e \in server : server' = server \ {e}
  /\ UNCHANGED <<kind, snapshots, cache, clock, read>>

\* Another writer of the key, say with another codec, leaves a payload that
\* this one cannot decode.
Overwritten ==
  /\ \E e \in server :
       server' = (server \ {e})
                   \cup {[key |-> e.key, value |-> Corrupt, expires |-> e.expires]}
  /\ UNCHANGED <<kind, snapshots, cache, clock, read>>

\* Mutant: the in-process cache is there still when the backend starts over.
RestartKeepsCache ==
  /\ read' = [rd \in Reader |-> Idle]
  /\ \/ UNCHANGED snapshots
     \/ kind = "lru" /\ snapshots' = Empty
  /\ UNCHANGED <<kind, stores, clock>>

\* The process ends and starts again.  The in-process cache goes with it, and
\* the backend may too, if it is the in-memory one.  A Redis server stays: its
\* keys are right only over a backend that keeps its revisions, so in-memory
\* repositories behind Redis are not among the setups.
Restart ==
  /\ cache' = <<>>
  /\ read' = [rd \in Reader |-> Idle]
  /\ \/ UNCHANGED snapshots
     \/ kind = "lru" /\ snapshots' = Empty
  /\ UNCHANGED <<kind, server, clock>>

------------------------------------------------------------------------------

Step(rd) ==
  \/ GetCached(rd) \/ GetFromRedis(rd) \/ DeleteCorrupt(rd) \/ GetFails(rd) \/ ReadBackend(rd) \/ RefuseFuture(rd)
  \/ FillCache(rd) \/ FillFails(rd)

Next ==
  \/ \E tn \in Tenant : Write(tn)
  \/ Tick \/ ServerEvicts \/ Overwritten \/ Restart
  \/ \E rd \in Reader :
       \/ \E tn \in Tenant, req \in Requests :
            \E at \in 0..HeadRevision(tn) + 1 :
              StartRead(rd, req.op, tn, at, req.filter)
       \/ Step(rd)

Spec == Init /\ [][Next]_vars

------------------------------------------------------------------------------
\* Properties

Entries == {cache[i] : i \in DOMAIN cache} \cup server

\* The store in use is bounded, has one entry per key, and holds sets of tuples
\* or, on the server only, what others left there.
TypeOK ==
  /\ \A tn \in Tenant : HeadRevision(tn) \in 0..MaxHead
  /\ Len(cache) <= MaxEntries /\ Cardinality(server) <= MaxEntries
  /\ IF kind = "lru" THEN server = {} ELSE cache = <<>>
  /\ Cardinality({e.key : e \in Entries}) = Len(cache) + Cardinality(server)
  /\ \A e \in Entries : e.value = Corrupt => kind = "redis"
  /\ \A e \in Entries : e.value # Corrupt => e.value \subseteq Tuple
  /\ clock \in 0..MaxClock

\* Every read returns exactly what its filter selects from the snapshot of its
\* tenant and revision: from the cache or not, whichever filter filled the
\* bucket, whatever was written, evicted, overwritten, expired or failed in
\* between, and whatever of the cache survived a restart.
ReadsExact ==
  \A rd \in Reader : read[rd].pc = "done" =>
    read[rd].got =
      Matching(read[rd].filter, SnapshotAt(read[rd].tenant, read[rd].at))

\* What a key stands for, whoever put it there.
BucketOf(key) ==
  IF key[1] = "object"
    THEN {t \in SnapshotAt(key[2], key[3]) :
            t.object_type = key[4] /\ t.object_id = key[5]}
    ELSE {t \in SnapshotAt(key[2], key[3]) :
            /\ t.subject_type = key[4] /\ t.subject_id = key[5]
            /\ key[6] \in {None, t.subject_relation}}

\* Every entry that can be decoded, old or new, is the bucket of its key in an
\* existing snapshot: nothing needs to be invalidated after a write, nor after
\* a restart.
CacheCoherent ==
  \A e \in {x \in Entries : x.value # Corrupt} :
    /\ e.key[3] <= HeadRevision(e.key[2])
    /\ e.value = BucketOf(e.key)

\* A value served from the cache has not reached its time (_is_expired).
NoExpiredHit ==
  [][\A rd \in Reader :
       read[rd].pc = "cache" /\ read'[rd].pc = "done" =>
         \E e \in Entries :
           e.key = Key(read[rd]) /\ (Ttl = Forever \/ clock < e.expires)]_vars

\* A fill evicts other entries than its own: the one just filled is still there
\* for the next read (_evict_if_needed).
FillSticks ==
  [][\A rd \in Reader :
       FillCache(rd) /\ MaxEntries > 0 => Key(read[rd]) \in {e.key : e \in Entries'}]_vars

==============================================================================
