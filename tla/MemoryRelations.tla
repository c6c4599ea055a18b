--------------------------- MODULE MemoryRelations ---------------------------
(***************************************************************************)
(* InMemoryRelationRepository: per tenant the active tuples, a snapshot of *)
(* them for every revision and the list of changes.  It is not thread-     *)
(* safe, so a call of write or of a read is one step; a watch is a         *)
(* generator, and writes happen between two of its changes.                *)
(*                                                                         *)
(* A tenant has entries in the four dictionaries from its first write that *)
(* passes validation: Known is the domain of `revisions`.                  *)
(***************************************************************************)
EXTENDS Mutations

CONSTANTS
  Watcher,      \* invocations of watch
  Batches,      \* the batches of mutations writers submit
  MaxRevisions  \* bound on the revisions of a tenant

ASSUME MemoryBatches == Batches \subseteq Seq(Mutation)
ASSUME MemoryBound == MaxRevisions \in Nat

VARIABLES
  revisions,  \* revisions[tn]: the head of each known tenant
  tuples,     \* tuples[tn]: its active relation tuples
  snapshots,  \* snapshots[tn][r]: the tuples active at revision r
  changes,    \* changes[tn]: its changes, oldest first
  result,     \* what the last write that returned promised
  watch       \* the generators

store == <<revisions, tuples, snapshots, changes>>
vars == <<store, result, watch>>

Known == DOMAIN revisions

Change == [revision : Nat, tuple : Tuple, op : {"write", "delete"}]

head_revision(tn) == IF tn \in Known THEN revisions[tn] ELSE 0

\* _snapshot_at, for a revision that is not newer than the head.
SnapshotAt(tn, r) == IF tn \in Known THEN snapshots[tn][r] ELSE {}

Init ==
  /\ revisions = [tn \in {} |-> 0]
  /\ tuples = [tn \in {} |-> {}]
  /\ snapshots = [tn \in {} |-> {}]
  /\ changes = [tn \in {} |-> <<>>]
  /\ result = [tenant |-> "none"]
  /\ watch = [w \in Watcher |-> [pc |-> "new"]]

------------------------------------------------------------------------------
\* write

\* What _ensure_tenant makes of a dictionary.
Ensured(f, tn, empty) ==
  [x \in DOMAIN f \cup {tn} |-> IF x \in DOMAIN f THEN f[x] ELSE empty]

ActiveTuples(tn) == IF tn \in Known THEN tuples[tn] ELSE {}

\* Mutant: a tuple the batch names twice is recorded twice.
EffectiveTwice(batch, A) ==
  {i \in DOMAIN batch : (batch[i].op = "write") <=> (batch[i].tuple \notin A)}

\* The positions of a batch whose mutation changes `staged`: in a batch that
\* does not conflict, the first of its tuple, when it differs from A.
EffectiveAt(batch, A) ==
  {i \in DOMAIN batch :
     /\ \A j \in 1..i-1 : batch[j].tuple # batch[i].tuple
     /\ (batch[i].op = "write") <=> (batch[i].tuple \notin A)}

\* Mutant: deletes are recorded as changes and stay in the snapshot.
StagedKeeping(batch, A) == A \cup Touched(batch)

Staged(batch, A) == (A \cup Touched(batch)) \ Deleted(batch)

\* `order` lists the effective positions of the batch in the batch's order.
Lists(order, batch, A) ==
  /\ \A m, n \in DOMAIN order : m < n => order[m] < order[n]
  /\ EffectiveAt(batch, A) = {order[n] : n \in DOMAIN order}

\* Mutant: changes are recorded under the head they started from.
RecordedBefore(order, batch, r) ==
  [n \in DOMAIN order |->
     [revision |-> r-1, tuple |-> batch[order[n]].tuple, op |-> batch[order[n]].op]]

\* The elements that extend the list of changes.
Recorded(order, batch, r) ==
  [n \in DOMAIN order |->
     [revision |-> r, tuple |-> batch[order[n]].tuple, op |-> batch[order[n]].op]]

\* A write that changes something becomes the next revision.  The conflict
\* test and the test for unknown operations have both passed.
Write(tn, batch) ==
  LET A == ActiveTuples(tn)
      r == head_revision(tn) + 1 IN
  /\ ~Conflicting(batch)
  /\ ~HasUnknown(batch)
  /\ EffectiveAt(batch, A) # {}
  /\ r <= MaxRevisions
  /\ revisions' = [Ensured(revisions, tn, 0) EXCEPT ![tn] = r]
  /\ tuples' = [Ensured(tuples, tn, {}) EXCEPT ![tn] = Staged(batch, A)]
  /\ snapshots' = [Ensured(snapshots, tn, [q \in {0} |-> {}]) EXCEPT ![tn] =
       [q \in 0..r |-> IF q = r THEN Staged(batch, A) ELSE @[q]]]
  /\ \E n \in 1..Len(batch) : \E order \in [1..n -> 1..Len(batch)] :
       /\ Lists(order, batch, A)
       /\ changes' = [Ensured(changes, tn, <<>>) EXCEPT ![tn] =
            @ \o Recorded(order, batch, r)]
  /\ result' = [tenant |-> tn, batch |-> batch, revision |-> r]
  /\ UNCHANGED watch

\* Mutant: a new tenant has no snapshot at revision 0.
EnsureTenantBare(tn) ==
  /\ revisions' = Ensured(revisions, tn, 0)
  /\ tuples' = Ensured(tuples, tn, {})
  /\ snapshots' = Ensured(snapshots, tn, [q \in {} |-> {}])
  /\ changes' = Ensured(changes, tn, <<>>)

EnsureTenant(tn) ==
  /\ revisions' = Ensured(revisions, tn, 0)
  /\ tuples' = Ensured(tuples, tn, {})
  /\ snapshots' = Ensured(snapshots, tn, [q \in {0} |-> {}])
  /\ changes' = Ensured(changes, tn, <<>>)

\* One that changes nothing returns the head.
WriteNothing(tn, batch) ==
  /\ ~Conflicting(batch)
  /\ ~HasUnknown(batch)
  /\ EffectiveAt(batch, ActiveTuples(tn)) = {}
  /\ EnsureTenant(tn)
  /\ result' = [tenant |-> tn, batch |-> batch, revision |-> head_revision(tn)]
  /\ UNCHANGED watch

\* Mutant: the mutations are made in place, not on a copy.
WriteUnknownInPlace(tn, batch) ==
  /\ ~Conflicting(batch)
  /\ HasUnknown(batch)
  /\ revisions' = Ensured(revisions, tn, 0)
  /\ tuples' = [Ensured(tuples, tn, {}) EXCEPT ![tn] = Staged(batch, @)]
  /\ snapshots' = Ensured(snapshots, tn, [q \in {0} |-> {}])
  /\ changes' = Ensured(changes, tn, <<>>)
  /\ UNCHANGED <<result, watch>>

\* An unknown operation raises and `staged` is dropped, whatever the mutations
\* before it did.
WriteUnknown(tn, batch) ==
  /\ ~Conflicting(batch)
  /\ HasUnknown(batch)
  /\ EnsureTenant(tn)
  /\ UNCHANGED <<result, watch>>

------------------------------------------------------------------------------
\* watch

ChangesOf(tn) == IF tn \in Known THEN changes[tn] ELSE <<>>

\* The generator g runs on to its next change, or ends: `pos` is how far it is
\* in the list, which it does not copy.
Advanced(g) ==
  LET list == ChangesOf(g.tenant)
      due  == {i \in g.pos + 1..Len(list) : list[i].revision > g.after}
  IN IF due = {} THEN [g EXCEPT !.pc = "ended", !.last = head_revision(g.tenant)]
     ELSE LET i == CHOOSE m \in due : \A n \in due : m <= n
          IN [g EXCEPT !.pos = i, !.got = Append(@, list[i])]

\* The first next() tests `after` and runs to the first change.
StartWatch(w, tn, after) ==
  /\ watch[w].pc = "new"
  /\ after <= head_revision(tn)
  /\ watch' = [watch EXCEPT ![w] =
       Advanced([pc |-> "open", tenant |-> tn, after |-> after, pos |-> 0,
                 got |-> <<>>, last |-> 0])]
  /\ UNCHANGED <<store, result>>

ResumeWatch(w) ==
  /\ watch[w].pc = "open"
  /\ watch' = [watch EXCEPT ![w] = Advanced(@)]
  /\ UNCHANGED <<store, result>>

Next ==
  \/ \E tn \in Tenant, batch \in Batches :
       Write(tn, batch) \/ WriteNothing(tn, batch) \/ WriteUnknown(tn, batch)
  \/ \E w \in Watcher :
       \/ \E tn \in Tenant : \E after \in 0..head_revision(tn) + 1 :
            StartWatch(w, tn, after)
       \/ ResumeWatch(w)

Spec == Init /\ [][Next]_vars

------------------------------------------------------------------------------
\* Properties

\* Every variable has its type; a known tenant has a snapshot for every
\* revision up to its head, so _snapshot_at never meets an unknown one.
TypeOK ==
  /\ Known \subseteq Tenant
  /\ DOMAIN tuples = Known /\ DOMAIN snapshots = Known /\ DOMAIN changes = Known
  /\ \A tn \in Known :
       /\ revisions[tn] \in Nat
       /\ tuples[tn] \subseteq Tuple
       /\ snapshots[tn] \in [0..revisions[tn] -> SUBSET Tuple]
       /\ changes[tn] \in Seq(Change)

\* The live dictionary is the snapshot of the head, between any two calls and
\* after a write that raised.
LiveIsHead ==
  \A tn \in Known : tuples[tn] = snapshots[tn][revisions[tn]]

\* The token of a write pins a snapshot in which the batch holds, and keeps
\* pinning it.
WriteVisibleAtToken ==
  result.tenant # "none" =>
    LET seen == SnapshotAt(result.tenant, result.revision) IN
    /\ Touched(result.batch) \subseteq seen
    /\ Deleted(result.batch) \cap seen = {}

\* A consumer's replica: A brought forward by the first n changes of a list,
\* where the last change of a tuple decides.
Replay(A, list, n) ==
  {t \in Tuple :
     \/ t \in A /\ \A i \in 1..n : list[i].tuple # t
     \/ \E i \in 1..n : /\ list[i].tuple = t /\ list[i].op = "write"
                        /\ \A j \in i+1..n : list[j].tuple # t}

\* A watch that has ended has yielded what leads from the snapshot it started
\* after to the snapshot of the head it ended at, in order and once each,
\* whatever was written between two of its changes.
WatchReplaysToEnd ==
  \A w \in Watcher : watch[w].pc = "ended" =>
    LET g == watch[w]
        start == SnapshotAt(g.tenant, g.after) IN
    /\ Replay(start, g.got, Len(g.got)) = SnapshotAt(g.tenant, g.last)
    /\ \A i \in DOMAIN g.got :
         (g.got[i].op = "write") <=> (g.got[i].tuple \notin Replay(start, g.got, i-1))

\* What RevisionedStore sees of the repository.
Heads == [tn \in Tenant |-> head_revision(tn)]
Snapshots == [tn \in Tenant |-> [r \in 0..head_revision(tn) |-> SnapshotAt(tn, r)]]
ChangedBy(tn, r, op) ==
  {t \in Tuple : \E i \in DOMAIN ChangesOf(tn) :
     ChangesOf(tn)[i] = [revision |-> r, tuple |-> t, op |-> op]}
Changes ==
  [tn \in Tenant |-> [r \in 1..head_revision(tn) |->
     [written |-> ChangedBy(tn, r, "write"), deleted |-> ChangedBy(tn, r, "delete")]]]

Store == INSTANCE RevisionedStore
           WITH head <- Heads, snapshot <- Snapshots, changes <- Changes

\* The dictionaries implement the abstract store.
ImplementsStore == Store!Spec

==============================================================================
