------------------------------ MODULE LruStore -------------------------------
(***************************************************************************)
(* LruStore (storage/cache/concrete/_lru.py): a bounded map whose entries  *)
(* may expire.  A store is the sequence of its entries, least recently     *)
(* used first; every operation runs under the store's lock, so it is one   *)
(* step of the module that uses it.                                        *)
(***************************************************************************)
EXTENDS Integers, SequencesExt

CONSTANTS
  MaxEntries,  \* max_entries
  Ttl,         \* ttl_seconds, Forever for None
  Forever

ASSUME LruAssumption ==
  MaxEntries \in Nat /\ (Ttl = Forever \/ Ttl \in Nat) /\ Forever \notin Nat

\* The places of a key, of which there is one at most.
PlacesOf(S, k) == {i \in DOMAIN S : S[i].key = k}
EntriesOf(S, k) == {S[i] : i \in PlacesOf(S, k)}
Without(S, k) ==
  IF PlacesOf(S, k) = {} THEN S ELSE RemoveAt(S, CHOOSE i \in PlacesOf(S, k) : TRUE)

\* Mutant: an entry is served at the very time it expires.
ExpiredLate(e, now) == e.expires # Forever /\ now > e.expires

Expired(e, now) == e.expires # Forever /\ now >= e.expires

\* get: `found` is the set with the value, or empty; an expired entry is
\* dropped, one that is found becomes the most recent.
Get(S, k, now) ==
  LET live == {e \in EntriesOf(S, k) : ~Expired(e, now)} IN
  [found |-> {e.value : e \in live},
   store |-> IF live = {} THEN Without(S, k)
             ELSE Append(Without(S, k), CHOOSE e \in live : TRUE)]

\* Mutant: the most recent entries are evicted.
EvictedNewest(S) == IF Len(S) <= MaxEntries THEN S ELSE SubSeq(S, 1, MaxEntries)

\* Mutant: room for one entry too many.
EvictedLate(S) ==
  IF Len(S) <= MaxEntries + 1 THEN S ELSE SubSeq(S, Len(S) - MaxEntries, Len(S))

Evicted(S) ==
  IF Len(S) <= MaxEntries THEN S
  ELSE SubSeq(S, Len(S) - MaxEntries + 1, Len(S))

Set(S, k, v, now) ==
  Evicted(Append(Without(S, k),
    [key |-> k, value |-> v,
     expires |-> IF Ttl = Forever THEN Forever ELSE now + Ttl]))

==============================================================================
