----------------------------- MODULE RedisStore ------------------------------
(***************************************************************************)
(* The Redis server behind RedisTupleCache (storage/cache/concrete/        *)
(* redis.py): the set of its entries.  The server drops entries when it is *)
(* full and whenever it likes, and a payload may be one that the codec     *)
(* cannot decode.                                                          *)
(***************************************************************************)
EXTENDS LruStore, FiniteSets

CONSTANT Corrupt   \* a payload decode raises on

ServedBy(entries, k, now) == {e \in entries : e.key = k /\ ~Expired(e, now)}

\* GET: the payload of a live entry, or nothing.
RedisGet(entries, k, now) == {e.value : e \in ServedBy(entries, k, now)}

\* DEL
RedisDelete(entries, k) == {e \in entries : e.key # k}

\* SET with ex: what the server may hold then, at most MaxEntries in all.
RedisSet(entries, k, v, now) ==
  {kept \cup {[key |-> k, value |-> v,
               expires |-> IF Ttl = Forever THEN Forever ELSE now + Ttl]} :
     kept \in {K \in SUBSET RedisDelete(entries, k) : Cardinality(K) < MaxEntries}}
==============================================================================
