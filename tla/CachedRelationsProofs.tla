------------------------ MODULE CachedRelationsProofs -------------------------
(***************************************************************************)
(* CachedRelationRepository over its tuple caches, for any tenants, tuples *)
(* and filters, any capacity and TTL: what a read returns, and why nothing *)
(* is ever invalidated.  An entry is the bucket of its key from the fill   *)
(* on, because snapshots never change, and a bucket holds what every       *)
(* filter that may be answered from it asks for.                           *)
(***************************************************************************)
EXTENDS CachedRelations, SequenceTheorems, FiniteSetTheorems, TLAPS

-------------------------------------------------------------------------------
\* Buckets

\* The tuples of T in the bucket of a key.
InBucket(key, T) ==
  IF key[1] = "object"
    THEN {t \in T : t.object_type = key[4] /\ t.object_id = key[5]}
    ELSE {t \in T : /\ t.subject_type = key[4] /\ t.subject_id = key[5]
                    /\ key[6] \in {None, t.subject_relation}}

\* The bucket that is read from the backend is that of the key, and it loses
\* nothing that the filter of the call selects.
LEMMA BucketAnswers ==
  ASSUME NEW call, UsesBucket(call), NEW T
  PROVE  /\ Key(call)[2] = call.tenant /\ Key(call)[3] = call.at
         /\ Matching(BackendFilter(call), T) = InBucket(Key(call), T)
         /\ Matching(call.filter, Matching(BackendFilter(call), T))
              = Matching(call.filter, T)
<1> DEFINE f == call.filter
           b == BackendFilter(call)
<1>1. CASE UsesObjectBucket(call)
  <2>1. /\ f.object_type # None /\ f.object_id # None
    BY <1>1 DEF UsesObjectBucket, IsObjectBucket
  <2>2. /\ b.object_type = f.object_type /\ b.object_id = f.object_id
        /\ b.relation = None /\ b.subject_type = None /\ b.subject_id = None
        /\ b.subject_relation = None
    BY <1>1 DEF BackendFilter, ObjectBucketFilter, Unconstrained, Fields
  <2>3. Key(call) = <<"object", call.tenant, call.at, f.object_type, f.object_id>>
    BY <1>1 DEF Key
  <2> HIDE DEF b
  <2>4. \A t : Matches(b, t) <=> t.object_type = f.object_type /\ t.object_id = f.object_id
    BY <2>1, <2>2 DEF Matches, MatchesOn, Fields
  <2>5. \A t : Matches(f, t) => t.object_type = f.object_type /\ t.object_id = f.object_id
    BY <2>1 DEF Matches, MatchesOn, Fields
  <2>6. Matching(b, T) = InBucket(Key(call), T)
    BY <2>3, <2>4 DEF Matching, InBucket
  <2>7. Matching(f, Matching(b, T)) = Matching(f, T)
    BY <2>4, <2>5 DEF Matching
  <2> QED
    BY <2>3, <2>6, <2>7 DEF b
<1>2. CASE ~UsesObjectBucket(call) /\ UsesSubjectBucket(call)
  <2> DEFINE rel == IF f.subject_relation = Direct THEN None ELSE f.subject_relation
  <2>1. f.subject_type # None /\ f.subject_id # None
    BY <1>2 DEF UsesSubjectBucket, IsSubjectBucket
  <2>2. /\ b.subject_type = f.subject_type /\ b.subject_id = f.subject_id
        /\ b.subject_relation = rel
        /\ b.object_type = None /\ b.object_id = None /\ b.relation = None
    BY <1>2 DEF BackendFilter, SubjectBucketFilter, Unconstrained, Fields
  <2>3. Key(call) = <<"subject", call.tenant, call.at, f.subject_type, f.subject_id, rel>>
    BY <1>2 DEF Key, SubjectRefRelation
  <2>4. rel = None \/ rel = f.subject_relation
    OBVIOUS
  <2> HIDE DEF b, rel
  <2>5. \A t : Matches(b, t) <=> /\ t.subject_type = f.subject_type
                                 /\ t.subject_id = f.subject_id
                                 /\ rel = None \/ rel = t.subject_relation
    BY <2>1, <2>2 DEF Matches, MatchesOn, Fields
  <2>6. \A t : Matches(f, t) => /\ t.subject_type = f.subject_type
                                /\ t.subject_id = f.subject_id
                                /\ rel = None \/ rel = t.subject_relation
    BY <2>1, <2>4 DEF Matches, MatchesOn, Fields
  <2>7. Matching(b, T) = InBucket(Key(call), T)
    BY <2>3, <2>5 DEF Matching, InBucket
  <2>8. Matching(f, Matching(b, T)) = Matching(f, T)
    BY <2>5, <2>6 DEF Matching
  <2> QED
    BY <2>3, <2>7, <2>8 DEF b
<1> QED
  BY <1>1, <1>2 DEF UsesBucket

-------------------------------------------------------------------------------
\* The LRU store

Elements(S) == {S[i] : i \in DOMAIN S}

\* A sequence over a set is one over its own elements, which are in the set.
LEMMA OwnElements ==
  ASSUME NEW G, NEW S \in Seq(G)
  PROVE  S \in Seq(Elements(S)) /\ Elements(S) \subseteq G
<1>1. Len(S) \in Nat /\ DOMAIN S = 1..Len(S) /\ S \in [1..Len(S) -> G]
  BY LenProperties
<1>2. S \in [1..Len(S) -> Elements(S)]
  BY <1>1 DEF Elements
<1> QED
  BY <1>1, <1>2 DEF Elements

LEMMA WithoutIn ==
  ASSUME NEW G, NEW S \in Seq(G), NEW k
  PROVE  Without(S, k) \in Seq(G)
<1>1. CASE PlacesOf(S, k) = {}
  BY <1>1 DEF Without
<1>2. CASE PlacesOf(S, k) # {}
  <2>1. PICK i \in PlacesOf(S, k) : Without(S, k) = RemoveAt(S, i)
    BY <1>2 DEF Without
  <2>2. Len(S) \in Nat /\ i \in 1..Len(S)
    BY <2>1, LenProperties DEF PlacesOf
  <2>3. /\ \A j \in 1..i-1 : S[j] \in G
        /\ \A j \in i+1..Len(S) : S[j] \in G
    BY <2>2, ElementOfSeq
  <2>4. SubSeq(S, 1, i-1) \in Seq(G)
    BY <2>2, <2>3, SubSeqProperties
  <2>5. SubSeq(S, i+1, Len(S)) \in Seq(G)
    BY <2>2, <2>3, SubSeqProperties
  <2> QED
    BY <2>1, <2>4, <2>5, ConcatProperties DEF RemoveAt
<1> QED
  BY <1>1, <1>2

\* Eviction takes no entry that was not there, and leaves the last one.
LEMMA EvictedIn ==
  ASSUME NEW G, NEW S \in Seq(G), Len(S) > 0
  PROVE  /\ Evicted(S) \in Seq(G)
         /\ MaxEntries > 0 => S[Len(S)] \in Elements(Evicted(S))
<1>1. Len(S) \in Nat /\ DOMAIN S = 1..Len(S) /\ MaxEntries \in Nat
  BY LenProperties, LruAssumption
<1>2. CASE Len(S) <= MaxEntries
  BY <1>1, <1>2 DEF Evicted, Elements
<1>3. CASE ~(Len(S) <= MaxEntries)
  <2> DEFINE m == Len(S) - MaxEntries + 1
  <2>1. m \in Int /\ Len(S) \in Int /\ \A i \in m..Len(S) : S[i] \in G
    BY <1>1, <1>3, ElementOfSeq
  <2>2. /\ SubSeq(S, m, Len(S)) \in Seq(G)
        /\ Len(SubSeq(S, m, Len(S))) = IF m <= Len(S) THEN Len(S) - m + 1 ELSE 0
        /\ \A i \in 1..Len(S) - m + 1 : SubSeq(S, m, Len(S))[i] = S[m + i - 1]
    BY <2>1, SubSeqProperties
  <2>3. Evicted(S) = SubSeq(S, m, Len(S))
    BY <1>3 DEF Evicted
  <2>4. ASSUME MaxEntries > 0
        PROVE  S[Len(S)] \in Elements(SubSeq(S, m, Len(S)))
    <3>1. /\ MaxEntries \in 1..Len(S) - m + 1 /\ m + MaxEntries - 1 = Len(S)
          /\ m <= Len(S) /\ Len(S) - m + 1 = MaxEntries
      BY <1>1, <1>3, <2>4
    <3>2. MaxEntries \in DOMAIN SubSeq(S, m, Len(S))
      BY <2>2, <3>1, LenProperties
    <3> QED
      BY <2>2, <3>1, <3>2 DEF Elements
  <2> QED
    BY <2>2, <2>3, <2>4
<1> QED
  BY <1>2, <1>3

\* get finds live entries of its key only, and adds none.
LEMMA GetIn ==
  ASSUME NEW G, NEW S \in Seq(G), NEW k, NEW now
  PROVE  /\ Get(S, k, now).store \in Seq(G)
         /\ \A v \in Get(S, k, now).found : \E e \in Elements(S) :
              e.key = k /\ e.value = v /\ ~Expired(e, now)
<1> DEFINE live == {e \in EntriesOf(S, k) : ~Expired(e, now)}
<1>1. \A e \in live : e \in Elements(S) /\ e.key = k /\ ~Expired(e, now)
  BY DEF EntriesOf, PlacesOf, Elements
<1>2. Elements(S) \subseteq G
  BY OwnElements
<1>3. Without(S, k) \in Seq(G)
  BY WithoutIn
<1> HIDE DEF live
<1>4. CASE live = {}
  BY <1>1, <1>3, <1>4 DEF Get, live
<1>5. CASE live # {}
  <2>1. (CHOOSE e \in live : TRUE) \in G
    BY <1>1, <1>2, <1>5
  <2>2. Append(Without(S, k), CHOOSE e \in live : TRUE) \in Seq(G)
    BY <1>3, <2>1, AppendProperties
  <2> QED
    BY <1>1, <1>5, <2>2 DEF Get, live
<1> QED
  BY <1>4, <1>5

NewEntry(k, v, now) ==
  [key |-> k, value |-> v, expires |-> IF Ttl = Forever THEN Forever ELSE now + Ttl]

\* set adds the new entry only, which survives its own eviction.
LEMMA SetIn ==
  ASSUME NEW G, NEW S \in Seq(G), NEW k, NEW v, NEW now, NewEntry(k, v, now) \in G
  PROVE  /\ Set(S, k, v, now) \in Seq(G)
         /\ MaxEntries > 0 => NewEntry(k, v, now) \in Elements(Set(S, k, v, now))
<1> DEFINE e == NewEntry(k, v, now)
           W == Append(Without(S, k), e)
<1>1. Set(S, k, v, now) = Evicted(W)
  BY DEF Set, NewEntry
<1>2. Without(S, k) \in Seq(G)
  BY WithoutIn
<1> HIDE DEF e
<1>3. W \in Seq(G) /\ Len(W) = Len(Without(S, k)) + 1 /\ W[Len(W)] = e
  BY <1>2, AppendProperties DEF e
<1>4. Len(W) > 0
  BY <1>2, <1>3, LenProperties
<1> HIDE DEF W
<1> QED
  BY <1>1, <1>3, <1>4, EvictedIn DEF e

-------------------------------------------------------------------------------
\* The invariant

\* A call that has not read the backend yet.
Lookup ==
  [pc : {"cache", "corrupt", "backend"}, op : {req.op : req \in Requests},
   tenant : Tenant, at : Nat, filter : {req.filter : req \in Requests}]

Snapshot(tn, r) == tn \in Tenant /\ r \in 0..HeadRevision(tn)

\* Where a call has got to, and what it holds by then.
CallHolds(call) ==
  /\ call.pc \in {"cache", "corrupt", "backend"} => call \in Lookup
  /\ call.pc \in {"cache", "corrupt"} => UsesBucket(call)
  /\ call.pc = "fill" =>
       /\ UsesBucket(call) /\ Snapshot(call.tenant, call.at)
       /\ call.bucket = InBucket(Key(call), SnapshotAt(call.tenant, call.at))
  /\ call.pc = "done" =>
       /\ Snapshot(call.tenant, call.at)
       /\ call.got = Matching(call.filter, SnapshotAt(call.tenant, call.at))

\* An entry is of an existing snapshot, and expires if entries do.
Filed(e) ==
  /\ Snapshot(e.key[2], e.key[3])
  /\ Ttl # Forever => e.expires \in Nat

IsBucket(e) == e.value = InBucket(e.key, SnapshotAt(e.key[2], e.key[3]))

Histories ==
  /\ snapshots \in [Tenant -> Seq(SUBSET Tuple)]
  /\ \A tn \in Tenant : HeadRevision(tn) \in Nat
  /\ clock \in Nat

Stores ==
  /\ kind = "lru" => server = {}
  /\ cache \in Seq(Elements(cache))
  /\ \A e \in Elements(cache) : Filed(e) /\ IsBucket(e)
  /\ \A e \in server : Filed(e) /\ (e.value = Corrupt \/ IsBucket(e))

Calls ==
  /\ DOMAIN read = Reader
  /\ \A rd \in Reader : CallHolds(read[rd])

CacheInv == Histories /\ Stores /\ Calls

LEMMA EmptyStore == <<>> \in Seq(Elements(<<>>)) /\ Elements(<<>>) = {}
BY DEF Elements

LEMMA EmptyHistories ==
  /\ Empty \in [Tenant -> Seq(SUBSET Tuple)]
  /\ \A tn \in Tenant : Len(Empty[tn]) - 1 \in Nat
<1>1. << {} >> \in Seq(SUBSET Tuple) /\ Len(<< {} >>) = 1
  OBVIOUS
<1> QED
  BY <1>1 DEF Empty

LEMMA CacheInit == Init => CacheInv
<1> SUFFICES ASSUME Init PROVE CacheInv
  OBVIOUS
<1>1. Histories
  BY EmptyHistories DEF Init, Histories, HeadRevision
<1>2. Stores
  BY EmptyStore DEF Init, Stores
<1>3. Calls
  BY DEF Init, Calls, CallHolds, Idle
<1> QED
  BY <1>1, <1>2, <1>3 DEF CacheInv

\* A step that changes the call of one reader, and no history.
LEMMA OneCall ==
  ASSUME CacheInv, NEW rd \in Reader, NEW call,
         read' = [read EXCEPT ![rd] = call], CallHolds(call),
         UNCHANGED <<snapshots, clock>>
  PROVE  Histories' /\ Calls'
<1>1. Histories'
  BY DEF CacheInv, Histories, HeadRevision
<1>2. DOMAIN read' = Reader /\ \A r \in Reader : read'[r] = IF r = rd THEN call ELSE read[r]
  BY DEF CacheInv, Calls
<1>3. \A c : CallHolds(c) => CallHolds(c)'
  BY DEF CallHolds, Snapshot, SnapshotAt, HeadRevision
<1>4. CallHolds(call)'
  BY <1>3
<1>5. \A r \in Reader \ {rd} : CallHolds(read[r])'
  BY <1>3 DEF CacheInv, Calls
<1> QED
  BY <1>1, <1>2, <1>4, <1>5 DEF Calls

\* Stores that hold good entries of unchanged histories.
LEMMA GoodStores ==
  ASSUME UNCHANGED <<kind, snapshots>>, kind = "lru" => server' = {},
         NEW G, cache' \in Seq(G), \A e \in G : Filed(e) /\ IsBucket(e),
         \A e \in server' : Filed(e) /\ (e.value = Corrupt \/ IsBucket(e))
  PROVE  Stores'
<1>1. cache' \in Seq(Elements(cache')) /\ Elements(cache') \subseteq G
  BY OwnElements
<1>2. \A e : (Filed(e) => Filed(e)') /\ (IsBucket(e) => IsBucket(e)')
  BY DEF Filed, IsBucket, Snapshot, SnapshotAt, HeadRevision
<1>3. \A e \in Elements(cache') : Filed(e)' /\ IsBucket(e)'
  BY <1>1, <1>2
<1>4. \A e \in server' : Filed(e)' /\ (e.value = Corrupt \/ IsBucket(e)')
  BY <1>2
<1> QED
  BY <1>1, <1>3, <1>4 DEF Stores

\* The stores are left alone.
LEMMA SameStores ==
  ASSUME CacheInv, UNCHANGED <<kind, snapshots, stores>>
  PROVE  Stores'
<1>1. kind = "lru" => server' = {}
  BY DEF CacheInv, Stores, stores
<1>2. /\ cache' \in Seq(Elements(cache))
      /\ \A e \in Elements(cache) : Filed(e) /\ IsBucket(e)
      /\ \A e \in server' : Filed(e) /\ (e.value = Corrupt \/ IsBucket(e))
  BY DEF CacheInv, Stores, stores
<1> QED
  BY <1>1, <1>2, GoodStores

\* What a look-up makes of a call: the answer, or the way to the backend.
LEMMA LookedHolds ==
  ASSUME CacheInv, NEW call \in Lookup, UsesBucket(call), NEW found,
         \A v \in found : /\ Snapshot(call.tenant, call.at)
                          /\ v = InBucket(Key(call), SnapshotAt(call.tenant, call.at))
  PROVE  CallHolds(Looked(call, found))
<1>1. CASE found = {}
  <2>1. [call EXCEPT !.pc = "backend"] \in Lookup
        /\ [call EXCEPT !.pc = "backend"].pc = "backend"
    BY DEF Lookup
  <2> QED
    BY <1>1, <2>1 DEF Looked, CallHolds
<1>2. CASE found # {}
  <2>1. PICK v \in found : Looked(call, found) = Answer(call, v)
    BY <1>2 DEF Looked
  <2>2. v = Matching(BackendFilter(call), SnapshotAt(call.tenant, call.at))
    BY <2>1, BucketAnswers
  <2>3. Matching(call.filter, v) = Matching(call.filter, SnapshotAt(call.tenant, call.at))
    BY <2>2, BucketAnswers
  <2> QED
    BY <2>1, <2>3 DEF Answer, CallHolds
<1> QED
  BY <1>1, <1>2

\* What an entry of the call's key promises the call.
LEMMA EntryServes ==
  ASSUME NEW call, UsesBucket(call), NEW e, Filed(e), IsBucket(e), e.key = Key(call)
  PROVE  /\ Snapshot(call.tenant, call.at)
         /\ e.value = InBucket(Key(call), SnapshotAt(call.tenant, call.at))
BY BucketAnswers DEF Filed, IsBucket

-------------------------------------------------------------------------------
\* The steps of a call

LEMMA StartInv ==
  ASSUME CacheInv, NEW rd \in Reader, NEW tn \in Tenant, NEW req \in Requests,
         NEW at \in 0..HeadRevision(tn) + 1, StartRead(rd, req.op, tn, at, req.filter)
  PROVE  CacheInv'
<1> DEFINE call == [pc |-> "cache", op |-> req.op, tenant |-> tn, at |-> at,
                    filter |-> req.filter]
           next == IF UsesBucket(call) THEN call ELSE [call EXCEPT !.pc = "backend"]
<1>1. /\ read' = [read EXCEPT ![rd] = next]
      /\ UNCHANGED <<kind, snapshots, stores, clock>>
  BY DEF StartRead
<1>2. at \in Nat
  BY DEF CacheInv, Histories
<1>3. call \in Lookup /\ [call EXCEPT !.pc = "backend"] \in Lookup
  BY <1>2 DEF Lookup
<1>4. CallHolds(next)
  BY <1>3 DEF CallHolds
<1> HIDE DEF next
<1> QED
  BY <1>1, <1>4, OneCall, SameStores DEF CacheInv

LEMMA GetCachedInv ==
  ASSUME CacheInv, NEW rd \in Reader, GetCached(rd)
  PROVE  CacheInv'
<1> DEFINE call == read[rd]
           got  == Get(cache, Key(call), clock)
           next == Looked(call, got.found)
<1>1. /\ call.pc = "cache" /\ cache' = got.store
      /\ read' = [read EXCEPT ![rd] = next]
      /\ UNCHANGED <<kind, snapshots, server, clock>>
  BY DEF GetCached
<1>2. call \in Lookup /\ UsesBucket(call)
  BY <1>1 DEF CacheInv, Calls, CallHolds
<1>3. cache \in Seq(Elements(cache)) /\ \A e \in Elements(cache) : Filed(e) /\ IsBucket(e)
  BY DEF CacheInv, Stores
<1>4. /\ got.store \in Seq(Elements(cache))
      /\ \A v \in got.found : \E e \in Elements(cache) : e.key = Key(call) /\ e.value = v
  BY <1>3, GetIn
<1>5. \A v \in got.found :
        /\ Snapshot(call.tenant, call.at)
        /\ v = InBucket(Key(call), SnapshotAt(call.tenant, call.at))
  BY <1>2, <1>3, <1>4, EntryServes
<1> HIDE DEF got, call
<1>6. CallHolds(next)
  BY <1>2, <1>5, LookedHolds
<1> HIDE DEF next
<1>7. Histories' /\ Calls'
  BY <1>1, <1>6, OneCall
<1>8. Stores'
  <2>1. /\ kind = "lru" => server' = {}
        /\ \A e \in server' : Filed(e) /\ (e.value = Corrupt \/ IsBucket(e))
    BY <1>1 DEF CacheInv, Stores
  <2> QED
    BY <1>1, <1>3, <1>4, <2>1, GoodStores
<1> QED
  BY <1>7, <1>8 DEF CacheInv

LEMMA GetFromRedisInv ==
  ASSUME CacheInv, NEW rd \in Reader, GetFromRedis(rd)
  PROVE  CacheInv'
<1> DEFINE call  == read[rd]
           found == RedisGet(server, Key(call), clock)
           next  == IF Corrupt \in found THEN [call EXCEPT !.pc = "corrupt"]
                    ELSE Looked(call, found)
<1>1. /\ call.pc = "cache" /\ read' = [read EXCEPT ![rd] = next]
      /\ UNCHANGED <<kind, snapshots, stores, clock>>
  BY DEF GetFromRedis
<1>2. call \in Lookup /\ UsesBucket(call)
  BY <1>1 DEF CacheInv, Calls, CallHolds
<1>3. CallHolds(next)
  <2>1. CASE Corrupt \in found
    <3>1. /\ [call EXCEPT !.pc = "corrupt"] \in Lookup
          /\ UsesBucket([call EXCEPT !.pc = "corrupt"])
          /\ [call EXCEPT !.pc = "corrupt"].pc = "corrupt"
      BY <1>2 DEF Lookup, UsesBucket, UsesObjectBucket, UsesSubjectBucket
    <3> QED
      BY <2>1, <3>1 DEF CallHolds
  <2>2. CASE Corrupt \notin found
    <3>1. \A v \in found : \E e \in server : e.key = Key(call) /\ e.value = v /\ v # Corrupt
      BY <2>2 DEF RedisGet, ServedBy
    <3>2. \A e \in server : Filed(e) /\ (e.value = Corrupt \/ IsBucket(e))
      BY DEF CacheInv, Stores
    <3>3. \A v \in found :
            /\ Snapshot(call.tenant, call.at)
            /\ v = InBucket(Key(call), SnapshotAt(call.tenant, call.at))
      BY <1>2, <3>1, <3>2, EntryServes
    <3> HIDE DEF call, found
    <3>4. CallHolds(Looked(call, found))
      BY <1>2, <3>3, LookedHolds
    <3> QED
      BY <2>2, <3>4
  <2> QED
    BY <2>1, <2>2
<1> HIDE DEF next
<1> QED
  BY <1>1, <1>3, OneCall, SameStores DEF CacheInv

LEMMA DeleteCorruptInv ==
  ASSUME CacheInv, NEW rd \in Reader, DeleteCorrupt(rd)
  PROVE  CacheInv'
<1> DEFINE call == read[rd]
           next == [call EXCEPT !.pc = "backend"]
<1>1. /\ call.pc = "corrupt" /\ read' = [read EXCEPT ![rd] = next]
      /\ server' \subseteq server
      /\ UNCHANGED <<kind, snapshots, cache, clock>>
  BY DEF DeleteCorrupt, RedisDelete, CacheInv, Calls
<1>2. CallHolds(next)
  BY <1>1 DEF CacheInv, Calls, CallHolds, Lookup
<1> HIDE DEF next
<1>3. Histories' /\ Calls'
  BY <1>1, <1>2, OneCall
<1>4. /\ kind = "lru" => server' = {}
      /\ cache' \in Seq(Elements(cache))
      /\ \A e \in Elements(cache) : Filed(e) /\ IsBucket(e)
      /\ \A e \in server' : Filed(e) /\ (e.value = Corrupt \/ IsBucket(e))
  BY <1>1 DEF CacheInv, Stores
<1>5. Stores'
  BY <1>1, <1>4, GoodStores
<1> QED
  BY <1>3, <1>5 DEF CacheInv

LEMMA GetFailsInv ==
  ASSUME CacheInv, NEW rd \in Reader, GetFails(rd)
  PROVE  CacheInv'
<1> DEFINE next == [read[rd] EXCEPT !.pc = "backend"]
<1>1. /\ read[rd].pc \in {"cache", "corrupt"} /\ read' = [read EXCEPT ![rd] = next]
      /\ UNCHANGED <<kind, snapshots, stores, clock>>
  BY DEF GetFails, CacheInv, Calls
<1>2. CallHolds(next)
  BY <1>1 DEF CacheInv, Calls, CallHolds, Lookup
<1> HIDE DEF next
<1> QED
  BY <1>1, <1>2, OneCall, SameStores DEF CacheInv

LEMMA ReadBackendInv ==
  ASSUME CacheInv, NEW rd \in Reader, ReadBackend(rd)
  PROVE  CacheInv'
<1> DEFINE call == read[rd]
           got  == Matching(BackendFilter(call), SnapshotAt(call.tenant, call.at))
           next == IF UsesBucket(call)
                     THEN [pc |-> "fill", op |-> call.op, tenant |-> call.tenant,
                           at |-> call.at, filter |-> call.filter, bucket |-> got]
                     ELSE Answer(call, got)
<1>1. /\ call.pc = "backend" /\ call.at <= HeadRevision(call.tenant)
      /\ read' = [read EXCEPT ![rd] = next]
      /\ UNCHANGED <<kind, snapshots, stores, clock>>
  BY DEF ReadBackend
<1>2. call \in Lookup
  BY <1>1 DEF CacheInv, Calls, CallHolds
<1>3. Snapshot(call.tenant, call.at)
  BY <1>1, <1>2 DEF Lookup, Snapshot, CacheInv, Histories
<1>4. CallHolds(next)
  <2>1. CASE UsesBucket(call)
    <3>1. /\ next.pc = "fill" /\ next.op = call.op /\ next.tenant = call.tenant
          /\ next.at = call.at /\ next.filter = call.filter /\ next.bucket = got
      BY <2>1
    <3>2. UsesBucket(next) /\ Key(next) = Key(call)
      BY <2>1, <3>1 DEF UsesBucket, UsesObjectBucket, UsesSubjectBucket, Key
    <3>3. got = InBucket(Key(call), SnapshotAt(call.tenant, call.at))
      BY <2>1, BucketAnswers
    <3> HIDE DEF next, got
    <3> QED
      BY <1>3, <3>1, <3>2, <3>3 DEF CallHolds
  <2>2. CASE ~UsesBucket(call)
    <3>1. BackendFilter(call) = call.filter
      BY <2>2 DEF UsesBucket, BackendFilter
    <3>2. Matching(call.filter, got) = got
      BY <3>1 DEF Matching
    <3>3. next = Answer(call, got)
      BY <2>2
    <3> QED
      BY <1>3, <3>1, <3>2, <3>3 DEF Answer, CallHolds
  <2> QED
    BY <2>1, <2>2
<1> HIDE DEF next
<1> QED
  BY <1>1, <1>4, OneCall, SameStores DEF CacheInv

LEMMA RefuseFutureInv ==
  ASSUME CacheInv, NEW rd \in Reader, RefuseFuture(rd)
  PROVE  CacheInv'
<1>1. CallHolds(Idle)
  BY DEF CallHolds, Idle
<1> QED
  BY <1>1, OneCall, SameStores DEF RefuseFuture, CacheInv

\* The answer of a call that has read its bucket.
LEMMA FilledHolds ==
  ASSUME NEW call, call.pc = "fill", CallHolds(call)
  PROVE  CallHolds(Answer(call, call.bucket))
<1>1. /\ UsesBucket(call) /\ Snapshot(call.tenant, call.at)
      /\ call.bucket = Matching(BackendFilter(call), SnapshotAt(call.tenant, call.at))
  BY BucketAnswers DEF CallHolds
<1>2. Matching(call.filter, call.bucket)
        = Matching(call.filter, SnapshotAt(call.tenant, call.at))
  BY <1>1, BucketAnswers
<1> QED
  BY <1>1, <1>2 DEF Answer, CallHolds

LEMMA FillFailsInv ==
  ASSUME CacheInv, NEW rd \in Reader, FillFails(rd)
  PROVE  CacheInv'
<1>1. CallHolds(Answer(read[rd], read[rd].bucket))
  BY FilledHolds DEF FillFails, CacheInv, Calls
<1> QED
  BY <1>1, OneCall, SameStores DEF FillFails, CacheInv

\* The entry that a fill makes is the bucket of its key.
LEMMA FilledEntry ==
  ASSUME CacheInv, NEW call, call.pc = "fill", CallHolds(call)
  PROVE  /\ Filed(NewEntry(Key(call), call.bucket, clock))
         /\ IsBucket(NewEntry(Key(call), call.bucket, clock))
<1> DEFINE e == NewEntry(Key(call), call.bucket, clock)
<1>1. /\ e.key = Key(call) /\ e.value = call.bucket
      /\ Ttl # Forever => e.expires = clock + Ttl
  BY DEF NewEntry
<1>2. Key(call)[2] = call.tenant /\ Key(call)[3] = call.at
  BY BucketAnswers DEF CallHolds
<1>3. Ttl # Forever => e.expires \in Nat
  BY <1>1, LruAssumption DEF CacheInv, Histories
<1> HIDE DEF e
<1>4. Filed(e) /\ IsBucket(e)
  BY <1>1, <1>2, <1>3 DEF Filed, IsBucket, CallHolds
<1> QED
  BY <1>4 DEF e

\* What a server may hold after a SET.
LEMMA RedisSetHolds ==
  ASSUME NEW k, NEW v, NEW now, NEW next \in RedisSet(server, k, v, now)
  PROVE  next \subseteq server \cup {NewEntry(k, v, now)} /\ NewEntry(k, v, now) \in next
BY DEF RedisSet, RedisDelete, NewEntry

LEMMA FillCacheInv ==
  ASSUME CacheInv, NEW rd \in Reader, FillCache(rd)
  PROVE  CacheInv'
<1> DEFINE call == read[rd]
           e    == NewEntry(Key(call), call.bucket, clock)
<1>1. /\ call.pc = "fill" /\ read' = [read EXCEPT ![rd] = Answer(call, call.bucket)]
      /\ UNCHANGED <<kind, snapshots, clock>>
  BY DEF FillCache
<1>2. CallHolds(call)
  BY DEF CacheInv, Calls
<1>3. CallHolds(Answer(call, call.bucket))
  BY <1>1, <1>2, FilledHolds
<1>4. Histories' /\ Calls'
  BY <1>1, <1>3, OneCall
<1>5. Filed(e) /\ IsBucket(e)
  BY <1>1, <1>2, FilledEntry
<1>6. /\ cache \in Seq(Elements(cache))
      /\ kind = "lru" => server = {}
      /\ \A x \in Elements(cache) : Filed(x) /\ IsBucket(x)
      /\ \A x \in server : Filed(x) /\ (x.value = Corrupt \/ IsBucket(x))
  BY DEF CacheInv, Stores
<1> DEFINE G == Elements(cache) \cup {e}
<1>7. \A x \in G : Filed(x) /\ IsBucket(x)
  BY <1>5, <1>6
<1>8. cache \in Seq(G) /\ e \in G
  <2>1. Elements(cache) \subseteq G
    OBVIOUS
  <2> HIDE DEF G
  <2>2. cache \in Seq(G)
    BY <1>6, <2>1, SeqMonotonic
  <2> QED
    BY <2>2 DEF G
<1> HIDE DEF G
<1>9. CASE kind = "lru"
  <2>1. cache' = Set(cache, Key(call), call.bucket, clock) /\ server' = server
    BY <1>9 DEF FillCache
  <2>2. cache' \in Seq(G)
    BY <1>8, <2>1, SetIn
  <2>3. Stores'
    BY <1>1, <1>6, <1>7, <1>9, <2>1, <2>2, GoodStores
  <2> QED
    BY <1>4, <2>3 DEF CacheInv
<1>10. CASE kind # "lru"
  <2>1. cache' = cache /\ server' \in RedisSet(server, Key(call), call.bucket, clock)
    BY <1>10 DEF FillCache
  <2>2. server' \subseteq server \cup {e}
    BY <2>1, RedisSetHolds
  <2>3. \A x \in server' : Filed(x) /\ (x.value = Corrupt \/ IsBucket(x))
    BY <1>5, <1>6, <2>2
  <2>4. Stores'
    BY <1>1, <1>7, <1>8, <1>10, <2>1, <2>3, GoodStores
  <2> QED
    BY <1>4, <2>4 DEF CacheInv
<1> QED
  BY <1>9, <1>10

-------------------------------------------------------------------------------
\* What happens around the calls

\* A revision is appended: no snapshot that an entry or a call refers to
\* changes.
LEMMA WriteInv ==
  ASSUME CacheInv, NEW tn \in Tenant, Write(tn)
  PROVE  CacheInv'
<1>1. PICK A \in Contents : snapshots' = [snapshots EXCEPT ![tn] = Append(@, A)]
  BY DEF Write
<1>2. UNCHANGED <<kind, cache, server, clock, read>>
  BY DEF Write, stores
<1>3. A \in SUBSET Tuple
  BY ContentsAssumption
<1>4. ASSUME NEW t \in Tenant
      PROVE  /\ snapshots'[t] \in Seq(SUBSET Tuple)
             /\ HeadRevision(t) \in Nat /\ HeadRevision(t)' \in Nat
             /\ HeadRevision(t) <= HeadRevision(t)'
             /\ \A r \in 0..HeadRevision(t) : SnapshotAt(t, r)' = SnapshotAt(t, r)
  <2>1. snapshots[t] \in Seq(SUBSET Tuple) /\ HeadRevision(t) \in Nat
    BY DEF CacheInv, Histories
  <2>2. Len(snapshots[t]) \in Nat /\ Len(snapshots[t]) = HeadRevision(t) + 1
    BY <2>1, LenProperties DEF HeadRevision
  <2>3. CASE t # tn
    <3>1. snapshots'[t] = snapshots[t]
      BY <1>1, <2>3 DEF CacheInv, Histories
    <3> QED
      BY <2>1, <3>1 DEF HeadRevision, SnapshotAt
  <2>4. CASE t = tn
    <3>1. snapshots'[t] = Append(snapshots[t], A)
      BY <1>1, <2>4 DEF CacheInv, Histories
    <3>2. /\ snapshots'[t] \in Seq(SUBSET Tuple)
          /\ Len(snapshots'[t]) = Len(snapshots[t]) + 1
          /\ \A i \in 1..Len(snapshots[t]) : snapshots'[t][i] = snapshots[t][i]
      BY <1>3, <2>1, <3>1, AppendProperties
    <3>3. HeadRevision(t)' = HeadRevision(t) + 1
      BY <2>2, <3>2 DEF HeadRevision
    <3>4. \A r \in 0..HeadRevision(t) : r + 1 \in 1..Len(snapshots[t])
      BY <2>1, <2>2
    <3> QED
      BY <2>1, <3>2, <3>3, <3>4 DEF SnapshotAt
  <2> QED
    BY <2>3, <2>4
<1>5. Histories'
  <2>1. snapshots' \in [Tenant -> Seq(SUBSET Tuple)]
    BY <1>1, <1>4 DEF CacheInv, Histories
  <2> QED
    BY <1>2, <1>4, <2>1 DEF CacheInv, Histories
<1>6. \A t, r : Snapshot(t, r) => Snapshot(t, r)' /\ SnapshotAt(t, r)' = SnapshotAt(t, r)
  BY <1>4 DEF Snapshot
<1>7. Stores'
  <2>1. \A e : Filed(e) => Filed(e)'
    BY <1>6 DEF Filed
  <2>2. \A e : Filed(e) /\ IsBucket(e) => IsBucket(e)'
    BY <1>6 DEF Filed, IsBucket
  <2> QED
    BY <1>2, <2>1, <2>2 DEF CacheInv, Stores
<1>8. Calls'
  <2>1. \A c : CallHolds(c) => CallHolds(c)'
    BY <1>6 DEF CallHolds
  <2> QED
    BY <1>2, <2>1 DEF CacheInv, Calls
<1> QED
  BY <1>5, <1>7, <1>8 DEF CacheInv

LEMMA TickInv == ASSUME CacheInv, Tick PROVE CacheInv'
<1>1. Histories'
  BY DEF Tick, CacheInv, Histories, HeadRevision
<1>2. Stores'
  BY SameStores DEF Tick
<1>3. \A c : CallHolds(c) => CallHolds(c)'
  BY DEF Tick, CallHolds, Snapshot, SnapshotAt, HeadRevision
<1>4. Calls'
  BY <1>3 DEF Tick, CacheInv, Calls
<1> QED
  BY <1>1, <1>2, <1>4 DEF CacheInv

\* The server loses an entry, or its payload.
LEMMA ServerInv ==
  ASSUME CacheInv, ServerEvicts \/ Overwritten
  PROVE  CacheInv'
<1>1. UNCHANGED <<kind, snapshots, cache, clock, read>>
  BY DEF ServerEvicts, Overwritten
<1>2. Histories' /\ Calls'
  <2>1. \A c : CallHolds(c) => CallHolds(c)'
    BY <1>1 DEF CallHolds, Snapshot, SnapshotAt, HeadRevision
  <2> QED
    BY <1>1, <2>1 DEF CacheInv, Calls, Histories, HeadRevision
<1>3. \A e \in server : Filed(e) /\ (e.value = Corrupt \/ IsBucket(e))
  BY DEF CacheInv, Stores
<1>4. (server = {} => server' = {})
      /\ \A e \in server' : Filed(e) /\ (e.value = Corrupt \/ IsBucket(e))
  <2>1. CASE ServerEvicts
    BY <1>3, <2>1 DEF ServerEvicts
  <2>2. CASE Overwritten
    <3> DEFINE spoilt(e) == [key |-> e.key, value |-> Corrupt, expires |-> e.expires]
    <3>1. PICK e \in server : server' = (server \ {e}) \cup {spoilt(e)}
      BY <2>2 DEF Overwritten
    <3>2. Filed(spoilt(e)) /\ spoilt(e).value = Corrupt
      BY <1>3 DEF Filed
    <3> QED
      BY <1>3, <3>1, <3>2
  <2> QED
    BY <2>1, <2>2
<1>5. cache' \in Seq(Elements(cache)) /\ \A e \in Elements(cache) : Filed(e) /\ IsBucket(e)
  BY <1>1 DEF CacheInv, Stores
<1>6. Stores'
  BY <1>1, <1>4, <1>5, GoodStores DEF CacheInv, Stores
<1> QED
  BY <1>2, <1>6 DEF CacheInv

LEMMA RestartInv == ASSUME CacheInv, Restart PROVE CacheInv'
<1>1. /\ cache' = <<>> /\ UNCHANGED <<kind, server, clock>>
      /\ read' = [rd \in Reader |-> Idle]
      /\ UNCHANGED snapshots \/ (kind = "lru" /\ snapshots' = Empty)
  BY DEF Restart
<1>2. Calls'
  BY <1>1 DEF Calls, CallHolds, Idle
<1>3. Histories'
  <2>1. CASE UNCHANGED snapshots
    BY <1>1, <2>1 DEF CacheInv, Histories, HeadRevision
  <2>2. CASE snapshots' = Empty
    BY <1>1, <2>2, EmptyHistories DEF CacheInv, Histories, HeadRevision
  <2> QED
    BY <1>1, <2>1, <2>2
<1>4. Stores'
  <2>1. CASE UNCHANGED snapshots
    <3>1. cache' \in Seq({}) /\ \A e \in {} : Filed(e) /\ IsBucket(e)
      BY <1>1
    <3>2. \A e \in server' : Filed(e) /\ (e.value = Corrupt \/ IsBucket(e))
      BY <1>1 DEF CacheInv, Stores
    <3>3. kind = "lru" => server' = {}
      BY <1>1 DEF CacheInv, Stores
    <3>4. UNCHANGED <<kind, snapshots>>
      BY <1>1, <2>1
    <3> QED
      BY <3>1, <3>2, <3>3, <3>4, GoodStores
  <2>2. CASE kind = "lru" /\ snapshots' = Empty
    BY <1>1, <2>2, EmptyStore DEF CacheInv, Stores
  <2> QED
    BY <1>1, <2>1, <2>2
<1> QED
  BY <1>2, <1>3, <1>4 DEF CacheInv

LEMMA CacheStep == ASSUME CacheInv, [Next]_vars PROVE CacheInv'
<1>1. CASE UNCHANGED vars
  <2>1. Stores'
    BY <1>1, SameStores DEF vars
  <2>2. \A c : CallHolds(c) => CallHolds(c)'
    BY <1>1 DEF vars, CallHolds, Snapshot, SnapshotAt, HeadRevision
  <2> QED
    BY <1>1, <2>1, <2>2 DEF vars, CacheInv, Histories, HeadRevision, Calls
<1>2. ASSUME NEW tn \in Tenant, Write(tn)
      PROVE  CacheInv'
  BY <1>2, WriteInv
<1>3. CASE Tick \/ ServerEvicts \/ Overwritten \/ Restart
  BY <1>3, TickInv, ServerInv, RestartInv
<1>4. ASSUME NEW rd \in Reader, NEW tn \in Tenant, NEW req \in Requests,
             NEW at \in 0..HeadRevision(tn) + 1, StartRead(rd, req.op, tn, at, req.filter)
      PROVE  CacheInv'
  BY <1>4, StartInv
<1>5. ASSUME NEW rd \in Reader, Step(rd)
      PROVE  CacheInv'
  BY <1>5, GetCachedInv, GetFromRedisInv, DeleteCorruptInv, GetFailsInv,
     ReadBackendInv, RefuseFutureInv, FillCacheInv, FillFailsInv DEF Step
<1> QED
  BY <1>1, <1>2, <1>3, <1>4, <1>5 DEF Next

LEMMA CacheInvariant == Spec => []CacheInv
<1>1. CacheInv /\ [Next]_vars => CacheInv'
  BY CacheStep
<1> QED
  BY <1>1, CacheInit, PTL DEF Spec

-------------------------------------------------------------------------------
\* The size of the stores

\* One entry per key.
Keyed(S) == \A i, j \in DOMAIN S : S[i].key = S[j].key => i = j
KeyedSet(E) == \A e, f \in E : e.key = f.key => e = f

SizeInv ==
  /\ \A tn \in Tenant : HeadRevision(tn) \in 0..MaxHead
  /\ clock \in 0..MaxClock
  /\ kind \in {"lru", "redis"}
  /\ kind = "redis" => cache = <<>>
  /\ Keyed(cache) /\ Len(cache) <= MaxEntries
  /\ KeyedSet(server) /\ IsFiniteSet(server) /\ Cardinality(server) <= MaxEntries

\* Taking an entry out closes the gap.
LEMMA RemoveAtFacts ==
  ASSUME NEW G, NEW S \in Seq(G), NEW i \in 1..Len(S)
  PROVE  /\ Len(RemoveAt(S, i)) = Len(S) - 1
         /\ \A j \in 1..Len(S) - 1 : RemoveAt(S, i)[j] = IF j < i THEN S[j] ELSE S[j + 1]
<1> DEFINE A == SubSeq(S, 1, i - 1)
           B == SubSeq(S, i + 1, Len(S))
<1>1. Len(S) \in Nat /\ i \in Nat
  BY LenProperties
<1>2. /\ \A j \in 1..i-1 : S[j] \in G
      /\ \A j \in i+1..Len(S) : S[j] \in G
  BY <1>1, ElementOfSeq
<1>3. /\ A \in Seq(G) /\ Len(A) = i - 1
      /\ \A j \in 1..i-1 : A[j] = S[j]
  BY <1>1, <1>2, SubSeqProperties
<1>4. /\ B \in Seq(G) /\ Len(B) = Len(S) - i
      /\ \A j \in 1..Len(S) - i : B[j] = S[i + j]
  BY <1>1, <1>2, SubSeqProperties
<1>5. RemoveAt(S, i) = A \o B
  BY DEF RemoveAt
<1> HIDE DEF A, B
<1>6. /\ Len(A \o B) = Len(A) + Len(B)
      /\ \A j \in 1..Len(A) + Len(B) :
           (A \o B)[j] = IF j <= Len(A) THEN A[j] ELSE B[j - Len(A)]
  BY <1>3, <1>4, ConcatProperties
<1>7. ASSUME NEW j \in 1..Len(S) - 1
      PROVE  (A \o B)[j] = IF j < i THEN S[j] ELSE S[j + 1]
  <2>1. CASE j < i
    BY <1>1, <1>3, <1>4, <1>6, <2>1
  <2>2. CASE ~(j < i)
    <3>1. j - (i - 1) \in 1..Len(S) - i /\ i + (j - (i - 1)) = j + 1
      BY <1>1, <2>2
    <3>2. B[j - (i - 1)] = S[j + 1]
      BY <1>4, <3>1
    <3> QED
      BY <1>1, <1>3, <1>4, <1>6, <2>2, <3>2
  <2> QED
    BY <2>1, <2>2
<1> QED
  BY <1>1, <1>3, <1>4, <1>5, <1>6, <1>7

\* What is left of a store without a key has not got the key, and is one
\* entry shorter if the key was there.
LEMMA WithoutKey ==
  ASSUME NEW G, NEW S \in Seq(G), Keyed(S), NEW k
  PROVE  LET W == Without(S, k) IN
         /\ W \in Seq(G) /\ Keyed(W)
         /\ \A j \in DOMAIN W : W[j].key # k
         /\ Len(W) = IF PlacesOf(S, k) = {} THEN Len(S) ELSE Len(S) - 1
<1>1. Len(S) \in Nat /\ DOMAIN S = 1..Len(S)
  BY LenProperties
<1>2. CASE PlacesOf(S, k) = {}
  BY <1>2 DEF Without, PlacesOf
<1>3. CASE PlacesOf(S, k) # {}
  <2>1. PICK i \in PlacesOf(S, k) : Without(S, k) = RemoveAt(S, i)
    BY <1>3 DEF Without
  <2>2. i \in 1..Len(S) /\ S[i].key = k
    BY <1>1, <2>1 DEF PlacesOf
  <2> DEFINE W == RemoveAt(S, i)
  <2>3. /\ Len(W) = Len(S) - 1
        /\ \A j \in 1..Len(S) - 1 : W[j] = IF j < i THEN S[j] ELSE S[j + 1]
    BY <2>2, RemoveAtFacts
  <2>4. W \in Seq(G)
    BY <2>1, WithoutIn
  <2> HIDE DEF W
  <2>5. DOMAIN W = 1..Len(S) - 1
    BY <2>3, <2>4, LenProperties
  <2>6. \A j \in DOMAIN W : W[j].key # k
    BY <1>1, <2>2, <2>3, <2>5 DEF Keyed
  <2>7. ASSUME NEW p \in DOMAIN W, NEW q \in DOMAIN W, W[p].key = W[q].key
        PROVE  p = q
    <3> DEFINE place(j) == IF j < i THEN j ELSE j + 1
    <3>1. /\ place(p) \in DOMAIN S /\ W[p] = S[place(p)]
          /\ place(q) \in DOMAIN S /\ W[q] = S[place(q)]
      BY <1>1, <2>2, <2>3, <2>5
    <3>2. place(p) = place(q)
      BY <2>7, <3>1 DEF Keyed
    <3> QED
      BY <1>1, <2>2, <2>5, <3>2
  <2> QED
    BY <1>3, <2>1, <2>3, <2>4, <2>6, <2>7 DEF W, Keyed
<1> QED
  BY <1>2, <1>3

\* An entry of a key that is not there goes to the end.
LEMMA AppendKeyed ==
  ASSUME NEW G, NEW W \in Seq(G), Keyed(W), NEW e \in G,
         \A j \in DOMAIN W : W[j].key # e.key
  PROVE  /\ Append(W, e) \in Seq(G) /\ Keyed(Append(W, e))
         /\ Len(Append(W, e)) = Len(W) + 1
<1>1. /\ Append(W, e) \in Seq(G) /\ Len(Append(W, e)) = Len(W) + 1
      /\ \A j \in 1..Len(W) : Append(W, e)[j] = W[j]
      /\ Append(W, e)[Len(W) + 1] = e
  BY AppendProperties
<1>2. Len(W) \in Nat /\ DOMAIN W = 1..Len(W) /\ DOMAIN Append(W, e) = 1..Len(W) + 1
  BY <1>1, LenProperties
<1>3. Keyed(Append(W, e))
  BY <1>1, <1>2 DEF Keyed
<1> QED
  BY <1>1, <1>3

LEMMA GetKeyed ==
  ASSUME NEW G, NEW S \in Seq(G), Keyed(S), NEW k, NEW now
  PROVE  Keyed(Get(S, k, now).store) /\ Len(Get(S, k, now).store) <= Len(S)
<1> DEFINE live == {e \in EntriesOf(S, k) : ~Expired(e, now)}
           W    == Without(S, k)
<1>1. /\ W \in Seq(G) /\ Keyed(W) /\ \A j \in DOMAIN W : W[j].key # k
      /\ Len(W) = IF PlacesOf(S, k) = {} THEN Len(S) ELSE Len(S) - 1
  BY WithoutKey
<1>2. Len(S) \in Nat
  BY LenProperties
<1>3. \A e \in live : e \in G /\ e.key = k /\ PlacesOf(S, k) # {}
  BY OwnElements DEF EntriesOf, PlacesOf, Elements
<1>4. Get(S, k, now).store = IF live = {} THEN W ELSE Append(W, CHOOSE e \in live : TRUE)
  BY DEF Get
<1> HIDE DEF live, W
<1>5. CASE live = {}
  BY <1>1, <1>2, <1>4, <1>5
<1>6. CASE live # {}
  <2>1. PICK e \in live : e = CHOOSE x \in live : TRUE
    BY <1>6
  <2>2. e \in G /\ e.key = k /\ Len(W) = Len(S) - 1
    BY <1>1, <1>3
  <2>3. Keyed(Append(W, e)) /\ Len(Append(W, e)) = Len(W) + 1
    BY <1>1, <2>2, AppendKeyed
  <2> QED
    BY <1>2, <1>4, <1>6, <2>1, <2>2, <2>3
<1> QED
  BY <1>5, <1>6

LEMMA EvictedKeyed ==
  ASSUME NEW G, NEW S \in Seq(G), Keyed(S)
  PROVE  Keyed(Evicted(S)) /\ Len(Evicted(S)) <= MaxEntries
<1>1. Len(S) \in Nat /\ DOMAIN S = 1..Len(S) /\ MaxEntries \in Nat
  BY LenProperties, LruAssumption
<1>2. CASE Len(S) <= MaxEntries
  BY <1>1, <1>2 DEF Evicted
<1>3. CASE ~(Len(S) <= MaxEntries)
  <2> DEFINE m == Len(S) - MaxEntries + 1
             E == SubSeq(S, m, Len(S))
  <2>1. m \in Int /\ Len(S) \in Int /\ \A i \in m..Len(S) : S[i] \in G
    BY <1>1, <1>3, ElementOfSeq
  <2>2. /\ E \in Seq(G)
        /\ Len(E) = IF m <= Len(S) THEN Len(S) - m + 1 ELSE 0
        /\ \A i \in 1..Len(S) - m + 1 : E[i] = S[m + i - 1]
    BY <2>1, SubSeqProperties
  <2>3. Evicted(S) = E
    BY <1>3 DEF Evicted
  <2> HIDE DEF E
  <2>4. Len(E) = MaxEntries /\ DOMAIN E = 1..MaxEntries
    BY <1>1, <2>2, LenProperties
  <2>5. \A i \in 1..MaxEntries : E[i] = S[m + i - 1] /\ m + i - 1 \in 1..Len(S)
    BY <1>1, <1>3, <2>2
  <2>6. ASSUME NEW p \in DOMAIN E, NEW q \in DOMAIN E, E[p].key = E[q].key
        PROVE  p = q
    <3>1. /\ m + p - 1 \in DOMAIN S /\ E[p] = S[m + p - 1] /\ p \in Nat
          /\ m + q - 1 \in DOMAIN S /\ E[q] = S[m + q - 1] /\ q \in Nat
      BY <1>1, <2>4, <2>5
    <3>2. m + p - 1 = m + q - 1
      BY <2>6, <3>1 DEF Keyed
    <3> QED
      BY <2>1, <3>1, <3>2
  <2> QED
    BY <1>1, <2>3, <2>4, <2>6 DEF Keyed
<1> QED
  BY <1>2, <1>3

LEMMA SetKeyed ==
  ASSUME NEW G, NEW S \in Seq(G), Keyed(S), NEW k, NEW v, NEW now,
         NewEntry(k, v, now) \in G
  PROVE  /\ Keyed(Set(S, k, v, now)) /\ Len(Set(S, k, v, now)) <= MaxEntries
<1> DEFINE e == NewEntry(k, v, now)
<1>1. Set(S, k, v, now) = Evicted(Append(Without(S, k), e)) /\ e.key = k
  BY DEF Set, NewEntry
<1>2. /\ Without(S, k) \in Seq(G) /\ Keyed(Without(S, k))
      /\ \A j \in DOMAIN Without(S, k) : Without(S, k)[j].key # k
  BY WithoutKey
<1> HIDE DEF e
<1>3. Append(Without(S, k), e) \in Seq(G) /\ Keyed(Append(Without(S, k), e))
  BY <1>1, <1>2, AppendKeyed DEF e
<1> QED
  BY <1>1, <1>3, EvictedKeyed

\* What SET leaves is at most as much as the server holds.
LEMMA RedisSetKeyed ==
  ASSUME NEW E, KeyedSet(E), IsFiniteSet(E), NEW k, NEW v, NEW now,
         NEW next \in RedisSet(E, k, v, now)
  PROVE  KeyedSet(next) /\ IsFiniteSet(next) /\ Cardinality(next) <= MaxEntries
<1> DEFINE e == NewEntry(k, v, now)
<1>1. PICK kept \in SUBSET RedisDelete(E, k) :
        Cardinality(kept) < MaxEntries /\ next = kept \cup {e}
  BY DEF RedisSet, NewEntry
<1>2. e.key = k
  BY DEF NewEntry
<1>3. \A x \in kept : x \in E /\ x.key # k
  BY <1>1 DEF RedisDelete
<1> HIDE DEF e
<1>4. IsFiniteSet(kept) /\ Cardinality(kept) \in Nat /\ e \notin kept
  BY <1>2, <1>3, FS_Subset, FS_CardinalityType
<1>5. IsFiniteSet(next) /\ Cardinality(next) = Cardinality(kept) + 1
  BY <1>1, <1>4, FS_AddElement
<1>6. KeyedSet(next)
  BY <1>1, <1>2, <1>3 DEF KeyedSet
<1> QED
  BY <1>1, <1>4, <1>5, <1>6, LruAssumption

\* A server with fewer entries.
LEMMA FewerEntries ==
  ASSUME NEW E, KeyedSet(E), IsFiniteSet(E), Cardinality(E) <= MaxEntries,
         NEW F \in SUBSET E
  PROVE  KeyedSet(F) /\ IsFiniteSet(F) /\ Cardinality(F) <= MaxEntries
<1>1. /\ IsFiniteSet(F) /\ Cardinality(F) <= Cardinality(E)
      /\ Cardinality(F) \in Nat /\ Cardinality(E) \in Nat
  BY FS_Subset, FS_CardinalityType
<1>2. KeyedSet(F)
  BY DEF KeyedSet
<1> QED
  BY <1>1, <1>2, LruAssumption

\* One entry in place of another with the same key.
LEMMA ReplacedEntry ==
  ASSUME NEW E, KeyedSet(E), IsFiniteSet(E), Cardinality(E) <= MaxEntries,
         NEW e \in E, NEW f, f.key = e.key, NEW F, F = (E \ {e}) \cup {f}
  PROVE  KeyedSet(F) /\ IsFiniteSet(F) /\ Cardinality(F) <= MaxEntries
<1>1. /\ IsFiniteSet(E \ {e}) /\ Cardinality(E \ {e}) = Cardinality(E) - 1
      /\ Cardinality(E) \in Nat
  BY FS_RemoveElement, FS_CardinalityType
<1>2. /\ IsFiniteSet(F)
      /\ Cardinality(F) \in {Cardinality(E \ {e}), Cardinality(E \ {e}) + 1}
  BY <1>1, FS_AddElement
<1>3. KeyedSet(F)
  BY DEF KeyedSet
<1> QED
  BY <1>1, <1>2, <1>3, LruAssumption

LEMMA SizeInit == Init => SizeInv
<1> SUFFICES ASSUME Init PROVE SizeInv
  OBVIOUS
<1>1. \A tn \in Tenant : HeadRevision(tn) = 0
  <2>1. Len(<< {} >>) = 1
    OBVIOUS
  <2> QED
    BY <2>1 DEF Init, Empty, HeadRevision
<1> QED
  BY <1>1, FS_EmptySet, BoundsAssumption, LruAssumption
     DEF Init, SizeInv, Keyed, KeyedSet

\* Every step leaves the stores within bounds, with one entry per key.
LEMMA SizeStep ==
  ASSUME SizeInv, CacheInv, [Next]_vars
  PROVE  SizeInv'
<1> USE BoundsAssumption, LruAssumption
<1>1. ASSUME UNCHANGED <<kind, snapshots, stores, clock>>
      PROVE  SizeInv'
  BY <1>1 DEF SizeInv, stores, HeadRevision, Keyed, KeyedSet
<1>2. ASSUME NEW tn \in Tenant, Write(tn)
      PROVE  SizeInv'
  <2>1. PICK A \in Contents : snapshots' = [snapshots EXCEPT ![tn] = Append(@, A)]
    BY <1>2 DEF Write
  <2>2. /\ snapshots \in [Tenant -> Seq(SUBSET Tuple)] /\ A \in SUBSET Tuple
        /\ HeadRevision(tn) < MaxHead
    BY <1>2, ContentsAssumption DEF CacheInv, Histories, Write
  <2>3. Len(Append(snapshots[tn], A)) = Len(snapshots[tn]) + 1
    BY <2>2
  <2>4. \A t \in Tenant : HeadRevision(t)' =
          IF t = tn THEN HeadRevision(t) + 1 ELSE HeadRevision(t)
    BY <2>1, <2>2, <2>3 DEF HeadRevision
  <2>5. \A t \in Tenant : HeadRevision(t)' \in 0..MaxHead
    BY <2>2, <2>4 DEF SizeInv
  <2> QED
    BY <1>2, <2>5 DEF Write, stores, SizeInv, Keyed, KeyedSet
<1>3. CASE Tick
  BY <1>3 DEF Tick, SizeInv, stores, HeadRevision, Keyed, KeyedSet
<1>4. ASSUME UNCHANGED <<kind, snapshots, clock, cache>>,
             KeyedSet(server'), IsFiniteSet(server'), Cardinality(server') <= MaxEntries
      PROVE  SizeInv'
  BY <1>4 DEF SizeInv, HeadRevision, Keyed, KeyedSet
<1>5. ASSUME UNCHANGED <<kind, snapshots, clock, server>>, kind = "lru",
             Keyed(cache'), Len(cache') <= MaxEntries
      PROVE  SizeInv'
  BY <1>5 DEF SizeInv, HeadRevision, Keyed, KeyedSet
<1>6. CASE ServerEvicts \/ \E rd \in Reader : DeleteCorrupt(rd)
  <2>1. server' \in SUBSET server /\ UNCHANGED <<kind, snapshots, clock, cache>>
    BY <1>6 DEF ServerEvicts, DeleteCorrupt, RedisDelete
  <2>2. KeyedSet(server') /\ IsFiniteSet(server') /\ Cardinality(server') <= MaxEntries
    BY <2>1, FewerEntries DEF SizeInv
  <2> QED
    BY <1>4, <2>1, <2>2
<1>7. CASE Overwritten
  <2>1. PICK e \in server :
          server' = (server \ {e})
                      \cup {[key |-> e.key, value |-> Corrupt, expires |-> e.expires]}
    BY <1>7 DEF Overwritten
  <2>2. KeyedSet(server') /\ IsFiniteSet(server') /\ Cardinality(server') <= MaxEntries
    BY <2>1, ReplacedEntry DEF SizeInv
  <2> QED
    BY <1>4, <1>7, <2>2 DEF Overwritten
<1>8. CASE Restart
  <2>1. \A tn \in Tenant : HeadRevision(tn)' \in 0..MaxHead
    <3>1. CASE UNCHANGED snapshots
      BY <3>1 DEF SizeInv, HeadRevision
    <3>2. CASE snapshots' = Empty
      <4>1. Len(<< {} >>) = 1
        OBVIOUS
      <4> QED
        BY <3>2, <4>1 DEF Empty, HeadRevision
    <3> QED
      BY <1>8, <3>1, <3>2 DEF Restart
  <2>2. Keyed(<<>>) /\ Len(<<>>) = 0
    BY DEF Keyed
  <2>3. Keyed(cache') /\ Len(cache') <= MaxEntries
    BY <1>8, <2>2 DEF Restart
  <2> QED
    BY <1>8, <2>1, <2>3 DEF Restart, SizeInv, KeyedSet
<1>9. ASSUME NEW rd \in Reader, GetCached(rd)
      PROVE  SizeInv'
  <2>1. /\ cache' = Get(cache, Key(read[rd]), clock).store /\ kind = "lru"
        /\ UNCHANGED <<kind, snapshots, clock, server>>
    BY <1>9 DEF GetCached
  <2>2. cache \in Seq(Elements(cache)) /\ Keyed(cache) /\ Len(cache) <= MaxEntries
    BY DEF SizeInv, CacheInv, Stores
  <2>3. Keyed(cache') /\ Len(cache') <= Len(cache)
    BY <2>1, <2>2, GetKeyed
  <2>4. Len(cache) \in Nat /\ cache' \in Seq(Elements(cache))
    BY <2>1, <2>2, LenProperties, GetIn
  <2>5. Len(cache') \in Nat
    BY <2>4, LenProperties
  <2>6. Len(cache') <= MaxEntries
    BY <2>2, <2>3, <2>4, <2>5
  <2> QED
    BY <1>5, <2>1, <2>3, <2>6
<1>10. ASSUME NEW rd \in Reader, FillCache(rd)
       PROVE  SizeInv'
  <2> DEFINE k == Key(read[rd])
             v == read[rd].bucket
  <2>1. CASE kind = "lru"
    <3>1. cache' = Set(cache, k, v, clock) /\ UNCHANGED <<kind, snapshots, clock, server>>
      BY <1>10, <2>1 DEF FillCache
    <3> DEFINE e == NewEntry(k, v, clock)
               G == Elements(cache) \cup {e}
    <3>2. cache \in Seq(Elements(cache)) /\ Elements(cache) \subseteq G /\ e \in G
      BY DEF CacheInv, Stores
    <3> HIDE DEF G
    <3>3. cache \in Seq(G) /\ Keyed(cache)
      BY <3>2, SeqMonotonic DEF SizeInv
    <3>4. Keyed(cache') /\ Len(cache') <= MaxEntries
      BY <3>1, <3>2, <3>3, SetKeyed
    <3> QED
      BY <1>5, <2>1, <3>1, <3>4
  <2>2. CASE kind # "lru"
    <3>1. server' \in RedisSet(server, k, v, clock) /\ UNCHANGED <<kind, snapshots, clock, cache>>
      BY <1>10, <2>2 DEF FillCache
    <3>2. KeyedSet(server') /\ IsFiniteSet(server') /\ Cardinality(server') <= MaxEntries
      BY <3>1, RedisSetKeyed DEF SizeInv
    <3> QED
      BY <1>4, <3>1, <3>2
  <2> QED
    BY <2>1, <2>2
<1>11. ASSUME NEW rd \in Reader, Step(rd)
       PROVE  SizeInv'
  <2>1. CASE \/ GetFromRedis(rd) \/ GetFails(rd) \/ ReadBackend(rd) \/ RefuseFuture(rd)
             \/ FillFails(rd)
    BY <1>1, <2>1 DEF GetFromRedis, GetFails, ReadBackend, RefuseFuture, FillFails
  <2> QED
    BY <1>6, <1>9, <1>10, <1>11, <2>1 DEF Step
<1>12. ASSUME NEW rd \in Reader, NEW tn \in Tenant, NEW req \in Requests,
              NEW at \in 0..HeadRevision(tn) + 1, StartRead(rd, req.op, tn, at, req.filter)
       PROVE  SizeInv'
  BY <1>1, <1>12 DEF StartRead
<1>13. CASE UNCHANGED vars
  BY <1>1, <1>13 DEF vars
<1> QED
  BY <1>2, <1>3, <1>6, <1>7, <1>8, <1>11, <1>12, <1>13 DEF Next

\* A store with one entry per key has as many keys as entries.
LEMMA KeysOfStore ==
  ASSUME NEW S, S \in Seq(Elements(S)), Keyed(S)
  PROVE  Cardinality({e.key : e \in Elements(S)}) = Len(S)
<1> DEFINE K == {e.key : e \in Elements(S)}
           f == [i \in 1..Len(S) |-> S[i].key]
<1>1. Len(S) \in Nat /\ DOMAIN S = 1..Len(S)
  BY LenProperties
<1>2. f \in Bijection(1..Len(S), K)
  <2>1. f \in [1..Len(S) -> K] /\ \A x \in K : \E i \in 1..Len(S) : f[i] = x
    BY <1>1 DEF Elements
  <2>2. \A i, j \in 1..Len(S) : f[i] = f[j] => i = j
    BY <1>1 DEF Keyed
  <2> QED
    BY <2>1, <2>2 DEF Bijection, Injection, Surjection, IsInjective
<1>3. IsFiniteSet(1..Len(S)) /\ Cardinality(1..Len(S)) = Len(S)
  BY <1>1, FS_Interval
<1>4. ExistsBijection(1..Len(S), K)
  BY <1>2 DEF ExistsBijection
<1> QED
  BY <1>3, <1>4, FS_Bijection

LEMMA KeysOfServer ==
  ASSUME NEW E, KeyedSet(E), IsFiniteSet(E)
  PROVE  Cardinality({e.key : e \in E}) = Cardinality(E)
<1> DEFINE K == {e.key : e \in E}
           f == [e \in E |-> e.key]
<1>1. f \in Bijection(E, K)
  BY DEF KeyedSet, Bijection, Injection, Surjection, IsInjective
<1>2. ExistsBijection(E, K)
  BY <1>1 DEF ExistsBijection
<1> QED
  BY <1>2, FS_Bijection

-------------------------------------------------------------------------------

\* The store in use is bounded by its capacity, holds one entry per key, and
\* what it holds is a set of tuples or, on the server only, what others left
\* there; the other store is empty.
THEOREM StoresBounded == Spec => []TypeOK
<1>1. ASSUME SizeInv, CacheInv
      PROVE  TypeOK
  <2> USE <1>1
  <2>1. Entries = Elements(cache) \cup server
    BY DEF Entries, Elements
  <2>2. /\ kind \in {"lru", "redis"}
        /\ kind = "lru" => server = {}
        /\ kind = "redis" => cache = <<>>
    BY DEF SizeInv, CacheInv, Stores
  <2>3. Cardinality({e.key : e \in Entries}) = Len(cache) + Cardinality(server)
    <3>1. /\ cache \in Seq(Elements(cache)) /\ Len(cache) \in Nat
          /\ Cardinality(server) \in Nat
      BY LenProperties, FS_CardinalityType DEF CacheInv, Stores, SizeInv
    <3>2. Cardinality({e.key : e \in Elements(cache)}) = Len(cache)
      BY <3>1, KeysOfStore DEF SizeInv
    <3>3. Cardinality({e.key : e \in server}) = Cardinality(server)
      BY KeysOfServer DEF SizeInv
    <3>4. CASE server = {}
      BY <2>1, <3>1, <3>2, <3>4, FS_EmptySet
    <3>5. CASE cache = <<>>
      <4>1. Len(cache) = 0 /\ Elements(cache) = {}
        BY <3>5, EmptyStore
      <4> QED
        BY <2>1, <3>1, <3>3, <4>1
    <3> QED
      BY <2>2, <3>4, <3>5
  <2>4. \A e : Filed(e) /\ IsBucket(e) => e.value \in SUBSET Tuple
    <3> SUFFICES ASSUME NEW e, Filed(e), IsBucket(e)
                 PROVE  e.value \in SUBSET Tuple
      OBVIOUS
    <3> DEFINE tn == e.key[2]
               T  == snapshots[tn][e.key[3] + 1]
    <3>1. /\ tn \in Tenant /\ snapshots[tn] \in Seq(SUBSET Tuple)
          /\ e.key[3] \in 0..HeadRevision(tn)
      BY DEF Filed, Snapshot, CacheInv, Histories
    <3>2. e.key[3] + 1 \in 1..Len(snapshots[tn])
      BY <3>1, LenProperties DEF HeadRevision
    <3>3. T \in SUBSET Tuple
      BY <3>1, <3>2, ElementOfSeq
    <3>4. e.value = InBucket(e.key, T)
      BY DEF IsBucket, SnapshotAt
    <3>5. InBucket(e.key, T) \subseteq T
      BY DEF InBucket
    <3> QED
      BY <3>3, <3>4, <3>5
  <2>5. ASSUME NEW e \in Entries
        PROVE  /\ e.value = Corrupt => kind = "redis"
               /\ e.value # Corrupt => e.value \subseteq Tuple
    <3>1. CASE e \in Elements(cache)
      <4>1. e.value \in SUBSET Tuple
        BY <2>4, <3>1 DEF CacheInv, Stores
      <4> QED
        BY <4>1, CorruptAssumption
    <3>2. CASE e \in server
      BY <2>2, <2>4, <3>2 DEF CacheInv, Stores
    <3> QED
      BY <2>1, <2>5, <3>1, <3>2
  <2> QED
    BY <2>2, <2>3, <2>5 DEF TypeOK, SizeInv
<1>2. SizeInv /\ CacheInv /\ [Next]_vars => SizeInv'
  BY SizeStep
<1> QED
  BY <1>1, <1>2, SizeInit, CacheInvariant, PTL DEF Spec

\* A read through the cache returns what its filter selects from the snapshot
\* of its revision, whichever call filled the bucket for whichever filter, and
\* whatever was written, evicted, overwritten or restarted meanwhile.
THEOREM ReadsThroughCache == Spec => []ReadsExact
<1>1. CacheInv => ReadsExact
  BY DEF CacheInv, Calls, CallHolds, ReadsExact
<1> QED
  BY <1>1, CacheInvariant, PTL

\* Every entry that decodes, in the process or on the server, is the bucket of
\* its key in a snapshot that exists: writes need to invalidate nothing.
THEOREM EntriesCoherent == Spec => []CacheCoherent
<1>1. CacheInv => CacheCoherent
  <2> SUFFICES ASSUME CacheInv, NEW e \in Entries, e.value # Corrupt
               PROVE  /\ e.key[3] <= HeadRevision(e.key[2])
                      /\ e.value = BucketOf(e.key)
    BY DEF CacheCoherent
  <2>1. Filed(e) /\ IsBucket(e)
    BY DEF Entries, Elements, CacheInv, Stores
  <2> QED
    BY <2>1 DEF Filed, IsBucket, Snapshot, InBucket, BucketOf, CacheInv, Histories
<1> QED
  BY <1>1, CacheInvariant, PTL

\* An answer from the cache was there, under the key of the call, and not
\* expired at the time it was served.
THEOREM HitsAreLive == Spec => NoExpiredHit
<1> DEFINE Served(rd) == read[rd].pc = "cache" /\ read'[rd].pc = "done" =>
             \E e \in Entries :
               e.key = Key(read[rd]) /\ (Ttl = Forever \/ clock < e.expires)
<1>1. ASSUME CacheInv, Next, NEW rd \in Reader, read[rd].pc = "cache", read'[rd].pc = "done"
      PROVE  \E e \in Entries : e.key = Key(read[rd]) /\ (Ttl = Forever \/ clock < e.expires)
  <2>1. DOMAIN read = Reader /\ read[rd] \in Lookup /\ clock \in Nat
    BY <1>1 DEF CacheInv, Calls, CallHolds, Histories
  <2>2. GetCached(rd) \/ GetFromRedis(rd)
    <3>1. CASE Tick \/ ServerEvicts \/ Overwritten \/ \E tn \in Tenant : Write(tn)
      BY <1>1, <3>1 DEF Tick, ServerEvicts, Overwritten, Write
    <3>2. CASE Restart
      BY <1>1, <3>2 DEF Restart, Idle
    <3>3. ASSUME NEW r \in Reader, NEW tn \in Tenant, NEW req \in Requests,
                 NEW at \in 0..HeadRevision(tn) + 1,
                 StartRead(r, req.op, tn, at, req.filter)
          PROVE  FALSE
      BY <1>1, <2>1, <3>3 DEF StartRead
    <3>4. ASSUME NEW r \in Reader, Step(r)
          PROVE  GetCached(rd) \/ GetFromRedis(rd)
      <4>1. CASE r # rd
        BY <1>1, <2>1, <3>4, <4>1
           DEF Step, GetCached, GetFromRedis, DeleteCorrupt, GetFails, ReadBackend,
               RefuseFuture, FillCache, FillFails
      <4>2. CASE r = rd
        <5>1. ~GetFails(rd)
          BY <1>1, <2>1 DEF GetFails, Lookup
        <5> QED
          BY <1>1, <3>4, <4>2, <5>1
             DEF Step, DeleteCorrupt, ReadBackend, RefuseFuture, FillCache, FillFails
      <4> QED
        BY <4>1, <4>2
    <3> QED
      BY <1>1, <3>1, <3>2, <3>3, <3>4 DEF Next
  <2>3. \E e \in Entries : e.key = Key(read[rd]) /\ ~Expired(e, clock)
    <3>1. CASE GetCached(rd)
      <4> DEFINE found == Get(cache, Key(read[rd]), clock).found
      <4>1. read'[rd] = Looked(read[rd], found)
        BY <2>1, <3>1 DEF GetCached
      <4>2. found # {}
        BY <1>1, <2>1, <4>1 DEF Looked, Lookup
      <4>3. cache \in Seq(Elements(cache))
        BY <1>1 DEF CacheInv, Stores
      <4>4. \A v \in found : \E e \in Elements(cache) :
              e.key = Key(read[rd]) /\ e.value = v /\ ~Expired(e, clock)
        BY <4>3, GetIn
      <4> QED
        BY <4>2, <4>4 DEF Entries, Elements
    <3>2. CASE GetFromRedis(rd)
      <4> DEFINE found == RedisGet(server, Key(read[rd]), clock)
      <4>1. read'[rd] = IF Corrupt \in found THEN [read[rd] EXCEPT !.pc = "corrupt"]
                        ELSE Looked(read[rd], found)
        BY <2>1, <3>2 DEF GetFromRedis
      <4>2. found # {}
        BY <1>1, <2>1, <4>1 DEF Looked, Lookup
      <4> QED
        BY <4>2 DEF RedisGet, ServedBy, Entries
    <3> QED
      BY <2>2, <3>1, <3>2
  <2>4. \A e \in Entries : Ttl # Forever => e.expires \in Nat
    BY <1>1 DEF Entries, Elements, CacheInv, Stores, Filed
  <2> QED
    BY <2>1, <2>3, <2>4, LruAssumption DEF Expired
<1>2. CacheInv /\ [Next]_vars => [\A rd \in Reader : Served(rd)]_vars
  BY <1>1
<1> QED
  BY <1>2, CacheInvariant, PTL DEF Spec, NoExpiredHit

\* The entry of a fill survives the eviction that its own set causes.
THEOREM FillsStick == Spec => FillSticks
<1> DEFINE Sticks(rd) == FillCache(rd) /\ MaxEntries > 0 =>
             Key(read[rd]) \in {e.key : e \in Entries'}
<1>1. ASSUME CacheInv, NEW rd \in Reader, FillCache(rd), MaxEntries > 0
      PROVE  Key(read[rd]) \in {e.key : e \in Entries'}
  <2> DEFINE e == NewEntry(Key(read[rd]), read[rd].bucket, clock)
             G == Elements(cache) \cup {e}
  <2>1. e.key = Key(read[rd])
    BY DEF NewEntry
  <2>2. CASE kind = "lru"
    <3>1. cache' = Set(cache, Key(read[rd]), read[rd].bucket, clock)
      BY <1>1, <2>2 DEF FillCache
    <3>2. cache \in Seq(Elements(cache)) /\ Elements(cache) \subseteq G /\ e \in G
      BY <1>1 DEF CacheInv, Stores
    <3> HIDE DEF G
    <3>3. cache \in Seq(G)
      BY <3>2, SeqMonotonic
    <3>4. e \in Elements(cache')
      BY <1>1, <3>1, <3>2, <3>3, SetIn
    <3> QED
      BY <2>1, <3>4 DEF Entries, Elements
  <2>3. CASE kind # "lru"
    <3>1. server' \in RedisSet(server, Key(read[rd]), read[rd].bucket, clock)
      BY <1>1, <2>3 DEF FillCache
    <3>2. e \in server'
      BY <3>1, RedisSetHolds
    <3> QED
      BY <2>1, <3>2 DEF Entries
  <2> QED
    BY <2>2, <2>3
<1>2. CacheInv /\ [Next]_vars => [\A rd \in Reader : Sticks(rd)]_vars
  BY <1>1
<1> QED
  BY <1>2, CacheInvariant, PTL DEF Spec, FillSticks

===============================================================================
