------------------------ MODULE MemoryRelationsProofs -------------------------
(***************************************************************************)
(* InMemoryRelationRepository, for any number of tenants, tuples, batches, *)
(* watches and revisions: its dictionaries keep together, a token pins     *)
(* what its write asked for, and the whole implements RevisionedStore.     *)
(* The watches take part in Next and write nothing.                        *)
(***************************************************************************)
EXTENDS MemoryRelations, WellFoundedInduction, SequenceTheorems, TLAPS

-------------------------------------------------------------------------------
\* What a batch does to the active tuples

\* A batch names every tuple of it for a first time.
LEMMA FirstNaming ==
  ASSUME NEW batch \in Seq(Mutation), NEW i \in DOMAIN batch
  PROVE  \E k \in DOMAIN batch :
           /\ batch[k].tuple = batch[i].tuple
           /\ \A j \in 1..k-1 : batch[j].tuple # batch[k].tuple
<1> DEFINE named == {k \in DOMAIN batch : batch[k].tuple = batch[i].tuple}
           less  == OpToRel(<, Nat)
<1>1. DOMAIN batch = 1..Len(batch) /\ Len(batch) \in Nat
  OBVIOUS
<1>2. named \subseteq Nat /\ named # {}
  BY <1>1
<1>3. IsWellFoundedOn(less, Nat)
  BY NatLessThanWellFounded
<1> HIDE DEF less
<1>4. PICK k \in named : \A j \in named : ~(<<j, k>> \in less)
  BY <1>2, <1>3, WFMin
<1>5. \A j \in named : ~(j < k)
  BY <1>2, <1>4 DEF less, OpToRel
<1>6. \A j \in 1..k-1 : j \in DOMAIN batch /\ j < k
  BY <1>1
<1> QED
  BY <1>5, <1>6

\* The tuples whose mutation, of kind op, changes A.
EffectiveTuples(batch, A, op) ==
  {t \in Tuple : \E i \in EffectiveAt(batch, A) : batch[i] = [tuple |-> t, op |-> op]}

LEMMA BatchTypes ==
  ASSUME NEW batch \in Seq(Mutation), ~HasUnknown(batch), NEW i \in DOMAIN batch
  PROVE  /\ batch[i].tuple \in Tuple /\ batch[i].op \in {"write", "delete"}
         /\ batch[i] = [tuple |-> batch[i].tuple, op |-> batch[i].op]
<1>1. batch[i] \in Mutation /\ batch[i].op # "bogus"
  BY DEF HasUnknown
<1> QED
  BY <1>1 DEF Mutation

\* In a batch that does not conflict, the mutations that count are those of
\* its first namings: written are the touched tuples that were not active,
\* deleted the deleted ones that were.
LEMMA EffectOfBatch ==
  ASSUME NEW batch \in Seq(Mutation), NEW A \in SUBSET Tuple,
         ~Conflicting(batch), ~HasUnknown(batch)
  PROVE  /\ EffectiveTuples(batch, A, "write") = Touched(batch) \ A
         /\ EffectiveTuples(batch, A, "delete") = Deleted(batch) \cap A
<1>1. ASSUME NEW op \in {"write", "delete"}, NEW t \in WithOp(batch, op),
             (op = "write") <=> (t \notin A)
      PROVE  t \in EffectiveTuples(batch, A, op)
  <2>1. PICK i \in DOMAIN batch : batch[i] = [tuple |-> t, op |-> op]
    BY DEF WithOp
  <2>2. PICK k \in DOMAIN batch :
          batch[k].tuple = t /\ \A j \in 1..k-1 : batch[j].tuple # batch[k].tuple
    BY <2>1, FirstNaming
  <2>3. batch[k] = [tuple |-> t, op |-> batch[k].op] /\ batch[k].op \in {"write", "delete"}
    BY <2>2, BatchTypes
  <2>4. t \in Tuple
    BY DEF WithOp
  <2>5. batch[k].op = op
    BY <1>1, <2>2, <2>3, <2>4 DEF Conflicting, Touched, Deleted, WithOp
  <2> QED
    BY <1>1, <2>2, <2>3, <2>4, <2>5 DEF EffectiveTuples, EffectiveAt
<1>2. ASSUME NEW op \in {"write", "delete"}, NEW t \in EffectiveTuples(batch, A, op)
      PROVE  t \in WithOp(batch, op) /\ ((op = "write") <=> (t \notin A))
  <2>1. PICK i \in DOMAIN batch :
          /\ batch[i] = [tuple |-> t, op |-> op]
          /\ (batch[i].op = "write") <=> (batch[i].tuple \notin A)
    BY DEF EffectiveTuples, EffectiveAt
  <2> QED
    BY <2>1 DEF EffectiveTuples, WithOp
<1>3. ASSUME NEW t \in EffectiveTuples(batch, A, "write")
      PROVE  t \in Touched(batch) \ A
  BY <1>2 DEF Touched
<1>4. ASSUME NEW t \in Touched(batch) \ A
      PROVE  t \in EffectiveTuples(batch, A, "write")
  BY <1>1 DEF Touched
<1>5. ASSUME NEW t \in EffectiveTuples(batch, A, "delete")
      PROVE  t \in Deleted(batch) \cap A
  BY <1>2 DEF Deleted
<1>6. ASSUME NEW t \in Deleted(batch) \cap A
      PROVE  t \in EffectiveTuples(batch, A, "delete")
  BY <1>1 DEF Deleted
<1> QED
  BY <1>3, <1>4, <1>5, <1>6

\* A batch that has no effect asks for what is there already.
LEMMA NoEffect ==
  ASSUME NEW batch \in Seq(Mutation), NEW A \in SUBSET Tuple,
         ~Conflicting(batch), ~HasUnknown(batch), EffectiveAt(batch, A) = {}
  PROVE  Touched(batch) \subseteq A /\ Deleted(batch) \cap A = {}
<1>1. EffectiveTuples(batch, A, "write") = {} /\ EffectiveTuples(batch, A, "delete") = {}
  BY DEF EffectiveTuples
<1> QED
  BY <1>1, EffectOfBatch

LEMMA StagedHolds ==
  ASSUME NEW batch \in Seq(Mutation), NEW A \in SUBSET Tuple, ~Conflicting(batch)
  PROVE  /\ Staged(batch, A) \in SUBSET Tuple
         /\ Touched(batch) \subseteq Staged(batch, A)
         /\ Deleted(batch) \cap Staged(batch, A) = {}
         /\ Staged(batch, A) = (A \cup (Touched(batch) \ A)) \ (Deleted(batch) \cap A)
BY DEF Staged, Conflicting, Touched, Deleted, WithOp

-------------------------------------------------------------------------------
\* The dictionaries

\* The recorded changes are those of the revisions up to the head.
ChangesWithin ==
  \A tn \in Known : \A i \in DOMAIN changes[tn] :
    changes[tn][i].revision \in 1..revisions[tn]

\* What a write returned is a revision of its tenant, which keeps its promise.
ResultHolds ==
  result.tenant # "none" =>
    LET tn == result.tenant IN
    /\ tn \in Known /\ result.revision \in 0..revisions[tn]
    /\ Touched(result.batch) \subseteq snapshots[tn][result.revision]
    /\ Deleted(result.batch) \cap snapshots[tn][result.revision] = {}

MemoryInv == TypeOK /\ LiveIsHead /\ ChangesWithin /\ ResultHolds

\* What is known of a tenant, whether or not it has entries.
LEMMA TenantFacts ==
  ASSUME MemoryInv, NEW tn \in Tenant
  PROVE  /\ head_revision(tn) \in Nat
         /\ ActiveTuples(tn) \in SUBSET Tuple
         /\ SnapshotAt(tn, head_revision(tn)) = ActiveTuples(tn)
         /\ ChangesOf(tn) \in Seq(Change)
         /\ \A i \in DOMAIN ChangesOf(tn) :
              ChangesOf(tn)[i].revision \in 1..head_revision(tn)
BY DEF MemoryInv, TypeOK, LiveIsHead, ChangesWithin, head_revision, ActiveTuples,
       SnapshotAt, ChangesOf

LEMMA MemoryInit == Init => MemoryInv
<1> SUFFICES ASSUME Init PROVE MemoryInv
  OBVIOUS
<1>1. Known = {} /\ DOMAIN tuples = {} /\ DOMAIN snapshots = {} /\ DOMAIN changes = {}
  BY DEF Init, Known
<1>2. result.tenant = "none"
  BY DEF Init
<1> QED
  BY <1>1, <1>2 DEF MemoryInv, TypeOK, LiveIsHead, ChangesWithin, ResultHolds

\* _ensure_tenant gives a new tenant empty entries, and nobody else anything.
LEMMA EnsuredInv ==
  ASSUME MemoryInv, NEW tn \in Tenant, EnsureTenant(tn)
  PROVE  /\ TypeOK' /\ LiveIsHead' /\ ChangesWithin'
         /\ tn \in Known'
         /\ \A other \in Known : /\ other \in Known'
                                 /\ revisions'[other] = revisions[other]
                                 /\ tuples'[other] = tuples[other]
                                 /\ snapshots'[other] = snapshots[other]
                                 /\ changes'[other] = changes[other]
         /\ tn \notin Known => /\ revisions'[tn] = 0 /\ tuples'[tn] = {}
                               /\ snapshots'[tn] = [q \in {0} |-> {}]
                               /\ changes'[tn] = <<>>
         /\ Known' = Known \cup {tn}
<1> USE DEF MemoryInv
<1>1. /\ Known' = Known \cup {tn} /\ DOMAIN tuples' = Known' /\ DOMAIN snapshots' = Known'
      /\ DOMAIN changes' = Known'
  BY DEF EnsureTenant, Ensured, Known, TypeOK
<1>2. \A other \in Known : /\ other \in Known'
                           /\ revisions'[other] = revisions[other]
                           /\ tuples'[other] = tuples[other]
                           /\ snapshots'[other] = snapshots[other]
                           /\ changes'[other] = changes[other]
  BY DEF EnsureTenant, Ensured, Known, TypeOK
<1>3. tn \notin Known => /\ revisions'[tn] = 0 /\ tuples'[tn] = {}
                         /\ snapshots'[tn] = [q \in {0} |-> {}]
                         /\ changes'[tn] = <<>>
  BY DEF EnsureTenant, Ensured, Known, TypeOK
<1>4. 0..0 = {0} /\ <<>> \in Seq(Change) /\ DOMAIN <<>> = {}
  OBVIOUS
<1>5. TypeOK'
  <2>1. Known' \subseteq Tenant
    BY <1>1 DEF TypeOK
  <2>2. ASSUME NEW other \in Known'
        PROVE  /\ revisions'[other] \in Nat
               /\ tuples'[other] \subseteq Tuple
               /\ snapshots'[other] \in [0..revisions'[other] -> SUBSET Tuple]
               /\ changes'[other] \in Seq(Change)
    <3>1. CASE other \in Known
      BY <1>2, <3>1 DEF TypeOK
    <3>2. CASE other \notin Known
      <4>1. other = tn
        BY <1>1, <3>2
      <4>2. /\ revisions'[other] = 0 /\ tuples'[other] = {}
            /\ snapshots'[other] = [q \in {0} |-> {}] /\ changes'[other] = <<>>
        BY <1>3, <3>2, <4>1
      <4>3. [q \in {0} |-> {}] \in [0..0 -> SUBSET Tuple]
        BY <1>4
      <4>4. snapshots'[other] \in [0..revisions'[other] -> SUBSET Tuple]
        BY <4>2, <4>3
      <4> QED
        BY <1>4, <4>2, <4>4
    <3> QED
      BY <3>1, <3>2
  <2> QED
    BY <1>1, <2>1, <2>2 DEF TypeOK
<1>6. LiveIsHead'
  <2>1. tn \notin Known => tuples'[tn] = snapshots'[tn][revisions'[tn]]
    BY <1>3
  <2>2. \A other \in Known : tuples'[other] = snapshots'[other][revisions'[other]]
    BY <1>2 DEF LiveIsHead
  <2> QED
    BY <1>1, <2>1, <2>2 DEF LiveIsHead
<1>7. ChangesWithin'
  BY <1>1, <1>2, <1>3, <1>4 DEF ChangesWithin
<1> QED
  BY <1>1, <1>2, <1>3, <1>5, <1>6, <1>7

LEMMA QuietWriteInv ==
  ASSUME MemoryInv, NEW tn \in Tenant, NEW batch \in Batches,
         WriteNothing(tn, batch) \/ WriteUnknown(tn, batch)
  PROVE  MemoryInv'
<1> USE DEF MemoryInv
<1>1. EnsureTenant(tn)
  BY DEF WriteNothing, WriteUnknown
<1>2. CASE WriteUnknown(tn, batch)
  <2>1. result' = result
    BY <1>2 DEF WriteUnknown
  <2>2. ResultHolds'
    BY <1>1, <2>1, EnsuredInv DEF ResultHolds
  <2> QED
    BY <1>1, <2>2, EnsuredInv
<1>3. CASE WriteNothing(tn, batch)
  <2> DEFINE A == ActiveTuples(tn)
  <2>1. /\ result'.tenant = tn /\ result'.batch = batch
        /\ result'.revision = head_revision(tn)
    BY <1>3 DEF WriteNothing
  <2>2. batch \in Seq(Mutation)
    BY MemoryBatches
  <2>3. Touched(batch) \subseteq A /\ Deleted(batch) \cap A = {}
    BY <1>3, <2>2, NoEffect, TenantFacts DEF WriteNothing
  <2>4. /\ tn \in Known' /\ revisions'[tn] = head_revision(tn) /\ head_revision(tn) \in Nat
        /\ snapshots'[tn][head_revision(tn)] = A
    <3>1. CASE tn \in Known
      BY <1>1, <3>1, EnsuredInv, TenantFacts
         DEF head_revision, ActiveTuples, LiveIsHead
    <3>2. CASE tn \notin Known
      BY <1>1, <3>2, EnsuredInv DEF head_revision, ActiveTuples
    <3> QED
      BY <3>1, <3>2
  <2>5. ResultHolds'
    BY <2>1, <2>3, <2>4 DEF ResultHolds
  <2> QED
    BY <1>1, <2>5, EnsuredInv
<1> QED
  BY <1>2, <1>3

\* What a write that changes something leaves of its tenant and of the others.
LEMMA WriteEffect ==
  ASSUME MemoryInv, NEW tn \in Tenant, NEW batch \in Batches, Write(tn, batch)
  PROVE  LET A == ActiveTuples(tn)
             r == head_revision(tn) + 1
             S == Staged(batch, A) IN
         /\ Known' = Known \cup {tn} /\ DOMAIN tuples' = Known'
         /\ DOMAIN snapshots' = Known' /\ DOMAIN changes' = Known'
         /\ revisions'[tn] = r /\ tuples'[tn] = S
         /\ snapshots'[tn] = [q \in 0..r |-> IF q = r THEN S ELSE SnapshotAt(tn, q)]
         /\ \E n \in 1..Len(batch) : \E order \in [1..n -> 1..Len(batch)] :
              /\ Lists(order, batch, A)
              /\ changes'[tn] = ChangesOf(tn) \o Recorded(order, batch, r)
         /\ \A other \in Known \ {tn} : /\ revisions'[other] = revisions[other]
                                        /\ tuples'[other] = tuples[other]
                                        /\ snapshots'[other] = snapshots[other]
                                        /\ changes'[other] = changes[other]
         /\ r \in Nat /\ S \in SUBSET Tuple
         /\ Touched(batch) \subseteq S /\ Deleted(batch) \cap S = {}
<1> USE DEF MemoryInv
<1> DEFINE A == ActiveTuples(tn)
           r == head_revision(tn) + 1
           S == Staged(batch, A)
<1>1. A \in SUBSET Tuple /\ head_revision(tn) \in Nat
  BY TenantFacts
<1>2. /\ S \in SUBSET Tuple
      /\ Touched(batch) \subseteq S /\ Deleted(batch) \cap S = {}
  <2>1. batch \in Seq(Mutation) /\ ~Conflicting(batch)
    BY MemoryBatches DEF Write
  <2> QED
    BY <1>1, <2>1, StagedHolds
<1>3. /\ Known' = Known \cup {tn} /\ revisions'[tn] = r
      /\ \A other \in Known \ {tn} : revisions'[other] = revisions[other]
  BY DEF Write, Ensured, Known
<1>4. /\ DOMAIN tuples' = Known \cup {tn} /\ tuples'[tn] = S
      /\ \A other \in Known \ {tn} : tuples'[other] = tuples[other]
  BY DEF Write, Ensured, Known, TypeOK
<1>5. DOMAIN snapshots = Known /\ DOMAIN changes = Known
  BY DEF TypeOK
<1> DEFINE old == Ensured(snapshots, tn, [q \in {0} |-> {}])
<1>6. /\ DOMAIN old = Known \cup {tn}
      /\ \A other \in Known : old[other] = snapshots[other]
      /\ tn \notin Known => old[tn] = [q \in {0} |-> {}]
  BY <1>5 DEF Ensured
<1>7. snapshots' = [old EXCEPT ![tn] = [q \in 0..r |-> IF q = r THEN S ELSE @[q]]]
  BY DEF Write
<1> HIDE DEF old
<1>8. /\ DOMAIN snapshots' = Known \cup {tn}
      /\ \A other \in Known \ {tn} : snapshots'[other] = snapshots[other]
      /\ snapshots'[tn] = [q \in 0..r |-> IF q = r THEN S ELSE old[tn][q]]
  BY <1>6, <1>7
<1>9. \A q \in 0..r : q # r => old[tn][q] = SnapshotAt(tn, q)
  <2>1. CASE tn \in Known
    BY <1>6, <2>1 DEF SnapshotAt
  <2>2. CASE tn \notin Known
    <3>1. head_revision(tn) = 0
      BY <2>2 DEF head_revision
    <3>2. \A q \in 0..r : q # r => q = 0
      BY <3>1
    <3> QED
      BY <1>6, <2>2, <3>2 DEF SnapshotAt
  <2> QED
    BY <2>1, <2>2
<1>10. snapshots'[tn] = [q \in 0..r |-> IF q = r THEN S ELSE SnapshotAt(tn, q)]
  BY <1>8, <1>9
<1>0. PICK n \in 1..Len(batch) : \E order \in [1..n -> 1..Len(batch)] :
        /\ Lists(order, batch, A)
        /\ changes' = [Ensured(changes, tn, <<>>) EXCEPT ![tn] =
             @ \o Recorded(order, batch, r)]
  BY DEF Write
<1>11. PICK order \in [1..n -> 1..Len(batch)] :
         /\ Lists(order, batch, A)
         /\ changes' = [Ensured(changes, tn, <<>>) EXCEPT ![tn] =
              @ \o Recorded(order, batch, r)]
  BY <1>0
<1> DEFINE lists == Ensured(changes, tn, <<>>)
<1>12. /\ DOMAIN lists = Known \cup {tn} /\ lists[tn] = ChangesOf(tn)
       /\ \A other \in Known : lists[other] = changes[other]
  BY <1>5 DEF Ensured, ChangesOf
<1> HIDE DEF lists
<1>13. /\ DOMAIN changes' = Known \cup {tn}
       /\ changes'[tn] = ChangesOf(tn) \o Recorded(order, batch, r)
       /\ \A other \in Known \ {tn} : changes'[other] = changes[other]
  BY <1>11, <1>12 DEF lists
<1>14. \E m \in 1..Len(batch) : \E o \in [1..m -> 1..Len(batch)] :
         /\ Lists(o, batch, A)
         /\ changes'[tn] = ChangesOf(tn) \o Recorded(o, batch, r)
  BY <1>11, <1>13
<1>15. r \in Nat
  BY <1>1
<1> QED
  BY <1>2, <1>3, <1>4, <1>8, <1>10, <1>13, <1>14, <1>15

ChangeAt(batch, i, r) ==
  [revision |-> r, tuple |-> batch[i].tuple, op |-> batch[i].op]

Extends(all, list, batch, order, n, r) ==
  /\ all \in Seq(Change)
  /\ DOMAIN all = 1..Len(list) + n
  /\ \A i \in 1..Len(list) : all[i] = list[i]
  /\ \A i \in 1..n : all[Len(list) + i] = ChangeAt(batch, order[i], r)

\* What a write adds to the list of changes.
LEMMA RecordedChanges ==
  ASSUME NEW batch \in Seq(Mutation), ~HasUnknown(batch), NEW n \in 1..Len(batch),
         NEW order \in [1..n -> 1..Len(batch)], NEW r \in Nat, NEW list \in Seq(Change),
         NEW all, all = list \o Recorded(order, batch, r)
  PROVE  Extends(all, list, batch, order, n, r)
<1> DEFINE new == Recorded(order, batch, r)
<1>1. n \in Nat /\ DOMAIN order = 1..n /\ \A i \in 1..n : order[i] \in DOMAIN batch
  OBVIOUS
<1>2. \A i \in 1..n : new[i] =
        [revision |-> r, tuple |-> batch[order[i]].tuple, op |-> batch[order[i]].op]
  BY <1>1 DEF Recorded
<1>3. \A i \in 1..n : batch[order[i]].tuple \in Tuple
                      /\ batch[order[i]].op \in {"write", "delete"}
  BY <1>1, BatchTypes
<1>4. new = [i \in 1..n |-> new[i]]
  BY <1>1 DEF Recorded
<1> HIDE DEF new
<1>5. ASSUME NEW i \in 1..n
      PROVE  new[i] \in Change
  <2> DEFINE t == batch[order[i]].tuple
             op == batch[order[i]].op
  <2>1. t \in Tuple /\ op \in {"write", "delete"}
    BY <1>3
  <2>2. new[i] = [revision |-> r, tuple |-> t, op |-> op]
    BY <1>2
  <2> HIDE DEF t, op
  <2> QED
    BY <2>1, <2>2 DEF Change
<1>6. new \in Seq(Change) /\ Len(new) = n
  <2>1. new \in [1..n -> Change]
    BY <1>4, <1>5
  <2>2. DOMAIN new = 1..n
    BY <2>1
  <2>3. new \in Seq(Change)
    BY <1>1, <2>1
  <2> QED
    BY <1>1, <2>2, <2>3, LenProperties
<1>7. /\ list \o new \in Seq(Change)
      /\ Len(list \o new) = Len(list) + n /\ Len(list) \in Nat
      /\ \A i \in 1..Len(list) : (list \o new)[i] = list[i]
      /\ \A i \in 1..n : (list \o new)[Len(list) + i] = new[i]
  <2>1. /\ list \o new \in Seq(Change) /\ Len(list \o new) = Len(list) + n
        /\ \A i \in 1..Len(list) + n : (list \o new)[i] =
             IF i <= Len(list) THEN list[i] ELSE new[i - Len(list)]
    BY <1>6, ConcatProperties
  <2>2. Len(list) \in Nat
    BY LenProperties
  <2>3. ASSUME NEW i \in 1..Len(list)
        PROVE  (list \o new)[i] = list[i]
    BY <1>1, <2>1, <2>2
  <2>4. ASSUME NEW i \in 1..n
        PROVE  (list \o new)[Len(list) + i] = new[i]
    <3>1. /\ Len(list) + i \in 1..Len(list) + n /\ ~(Len(list) + i <= Len(list))
          /\ Len(list) + i - Len(list) = i
      BY <1>1, <2>2
    <3> QED
      BY <2>1, <3>1
  <2> QED
    BY <2>1, <2>2, <2>3, <2>4
<1> QED
  BY <1>2, <1>7 DEF new, Extends, ChangeAt

LEMMA WriteInv ==
  ASSUME MemoryInv, NEW tn \in Tenant, NEW batch \in Batches, Write(tn, batch)
  PROVE  MemoryInv'
<1> USE DEF MemoryInv
<1> DEFINE A == ActiveTuples(tn)
           r == head_revision(tn) + 1
           S == Staged(batch, A)
<1>1. /\ Known' = Known \cup {tn} /\ DOMAIN tuples' = Known'
      /\ DOMAIN snapshots' = Known' /\ DOMAIN changes' = Known'
      /\ revisions'[tn] = r /\ tuples'[tn] = S
      /\ snapshots'[tn] = [q \in 0..r |-> IF q = r THEN S ELSE SnapshotAt(tn, q)]
      /\ \A other \in Known \ {tn} : /\ revisions'[other] = revisions[other]
                                     /\ tuples'[other] = tuples[other]
                                     /\ snapshots'[other] = snapshots[other]
                                     /\ changes'[other] = changes[other]
      /\ r \in Nat /\ S \in SUBSET Tuple
      /\ Touched(batch) \subseteq S /\ Deleted(batch) \cap S = {}
  BY WriteEffect
<1>2. head_revision(tn) \in Nat /\ ChangesOf(tn) \in Seq(Change)
      /\ \A i \in DOMAIN ChangesOf(tn) : ChangesOf(tn)[i].revision \in 1..head_revision(tn)
  BY TenantFacts
<1>3. PICK n \in 1..Len(batch) : \E order \in [1..n -> 1..Len(batch)] :
        /\ Lists(order, batch, A)
        /\ changes'[tn] = ChangesOf(tn) \o Recorded(order, batch, r)
  BY WriteEffect, Zenon
<1>4. PICK order \in [1..n -> 1..Len(batch)] :
        changes'[tn] = ChangesOf(tn) \o Recorded(order, batch, r)
  BY <1>3
<1>5. batch \in Seq(Mutation) /\ ~HasUnknown(batch)
  BY MemoryBatches DEF Write
<1> HIDE DEF r, S, A
<1>6. LET all == changes'[tn] IN
      /\ all \in Seq(Change)
      /\ DOMAIN all = 1..Len(ChangesOf(tn)) + n
      /\ \A i \in 1..Len(ChangesOf(tn)) : all[i] = ChangesOf(tn)[i]
      /\ \A i \in 1..n : all[Len(ChangesOf(tn)) + i].revision = r
  <2>1. /\ r \in Nat /\ ChangesOf(tn) \in Seq(Change)
        /\ n \in 1..Len(batch) /\ order \in [1..n -> 1..Len(batch)]
    BY <1>1, <1>2
  <2>2. Extends(changes'[tn], ChangesOf(tn), batch, order, n, r)
    BY <1>4, <1>5, <2>1, RecordedChanges
  <2>3. \A i \in 1..n : ChangeAt(batch, order[i], r).revision = r
    BY DEF ChangeAt
  <2> QED
    BY <2>2, <2>3 DEF Extends
<1>7. TypeOK'
  <2>1. Known' \subseteq Tenant
    BY <1>1 DEF TypeOK
  <2>2. \A q \in 0..r : q # r => SnapshotAt(tn, q) \in SUBSET Tuple
    <3>1. \A q \in 0..r : q # r => q \in 0..head_revision(tn)
      BY <1>2 DEF r
    <3> QED
      BY <3>1 DEF TypeOK, SnapshotAt, head_revision
  <2>3. snapshots'[tn] \in [0..r -> SUBSET Tuple]
    BY <1>1, <2>2
  <2>4. ASSUME NEW other \in Known'
        PROVE  /\ revisions'[other] \in Nat
               /\ tuples'[other] \subseteq Tuple
               /\ snapshots'[other] \in [0..revisions'[other] -> SUBSET Tuple]
               /\ changes'[other] \in Seq(Change)
    <3>1. CASE other = tn
      BY <1>1, <1>6, <2>3, <3>1
    <3>2. CASE other # tn
      <4>1. other \in Known \ {tn}
        BY <1>1, <3>2
      <4> QED
        BY <1>1, <4>1 DEF TypeOK
    <3> QED
      BY <3>1, <3>2
  <2> QED
    BY <1>1, <2>1, <2>4 DEF TypeOK
<1>8. LiveIsHead'
  <2>1. tuples'[tn] = snapshots'[tn][revisions'[tn]]
    BY <1>1
  <2>2. \A other \in Known \ {tn} : tuples'[other] = snapshots'[other][revisions'[other]]
    BY <1>1 DEF LiveIsHead
  <2> QED
    BY <1>1, <2>1, <2>2 DEF LiveIsHead
<1>9. ChangesWithin'
  <2>1. ASSUME NEW i \in DOMAIN changes'[tn]
        PROVE  changes'[tn][i].revision \in 1..revisions'[tn]
    <3> DEFINE k == Len(ChangesOf(tn))
    <3>1. k \in Nat /\ DOMAIN ChangesOf(tn) = 1..k
      BY <1>2
    <3>2. CASE i <= k
      <4>1. i \in 1..k
        BY <1>6, <3>1, <3>2
      <4>2. ChangesOf(tn)[i].revision \in 1..head_revision(tn)
        BY <1>2, <3>1, <4>1
      <4> QED
        BY <1>1, <1>2, <1>6, <4>1, <4>2 DEF r
    <3>3. CASE ~(i <= k)
      <4>1. i - k \in 1..n /\ i = k + (i - k)
        BY <1>6, <3>1, <3>3
      <4>2. changes'[tn][i].revision = r
        BY <1>6, <4>1
      <4> QED
        BY <1>1, <1>2, <4>2 DEF r
    <3> QED
      BY <3>2, <3>3
  <2>2. \A other \in Known \ {tn} : \A i \in DOMAIN changes'[other] :
          changes'[other][i].revision \in 1..revisions'[other]
    BY <1>1 DEF ChangesWithin
  <2> QED
    BY <1>1, <2>1, <2>2 DEF ChangesWithin
<1>10. ResultHolds'
  <2>1. result'.tenant = tn /\ result'.batch = batch /\ result'.revision = r
    BY DEF Write, r
  <2>2. snapshots'[tn][r] = S /\ r \in 0..r
    BY <1>1
  <2> QED
    BY <1>1, <2>1, <2>2 DEF ResultHolds
<1> QED
  BY <1>7, <1>8, <1>9, <1>10

LEMMA MemoryStep ==
  ASSUME MemoryInv, [Next]_vars
  PROVE  MemoryInv'
<1>1. CASE UNCHANGED <<store, result>>
  BY <1>1 DEF MemoryInv, TypeOK, LiveIsHead, ChangesWithin, ResultHolds, Known, store
<1>2. ASSUME NEW w \in Watcher,
             \/ \E tn \in Tenant : \E after \in 0..head_revision(tn) + 1 :
                  StartWatch(w, tn, after)
             \/ ResumeWatch(w)
      PROVE  UNCHANGED <<store, result>>
  BY <1>2 DEF StartWatch, ResumeWatch
<1>3. ASSUME NEW tn \in Tenant, NEW batch \in Batches,
             Write(tn, batch) \/ WriteNothing(tn, batch) \/ WriteUnknown(tn, batch)
      PROVE  MemoryInv'
  BY <1>3, WriteInv, QuietWriteInv
<1> QED
  BY <1>1, <1>2, <1>3 DEF Next, vars

LEMMA MemoryInvariant == Spec => []MemoryInv
<1>1. MemoryInv /\ [Next]_vars => MemoryInv'
  BY MemoryStep
<1> QED
  BY <1>1, MemoryInit, PTL DEF Spec

\* The four dictionaries have entries for the same tenants, of their types,
\* and a known tenant has a snapshot for every revision up to its head: no
\* call meets a KeyError, whatever raised before it.
THEOREM DictionariesTyped == Spec => []TypeOK
<1>1. MemoryInv => TypeOK
  BY DEF MemoryInv
<1> QED
  BY <1>1, MemoryInvariant, PTL

\* The live dictionary is the snapshot of the head between any two calls:
\* neither a batch that raises nor one that changes nothing sets them apart.
THEOREM LiveTuplesAreHead == Spec => []LiveIsHead
<1>1. MemoryInv => LiveIsHead
  BY DEF MemoryInv
<1> QED
  BY <1>1, MemoryInvariant, PTL

\* The revision that write returns pins a snapshot in which the batch holds,
\* also when the call changed nothing.
THEOREM TokenPinsWrite == Spec => []WriteVisibleAtToken
<1>1. MemoryInv => WriteVisibleAtToken
  BY DEF MemoryInv, ResultHolds, WriteVisibleAtToken, SnapshotAt
<1> QED
  BY <1>1, MemoryInvariant, PTL

-------------------------------------------------------------------------------
\* The abstract store

\* The tuples a list of changes names under a revision.
ChangedIn(list, q, op) ==
  {t \in Tuple : \E i \in DOMAIN list : list[i] = [revision |-> q, tuple |-> t, op |-> op]}

\* all is the list of changes and after it the effective mutations of a batch,
\* in the given order, under a new revision.
Records(all, list, batch, A, order, n, r) ==
  /\ list \in Seq(Change) /\ r \in Nat
  /\ n \in 1..Len(batch) /\ order \in [1..n -> 1..Len(batch)]
  /\ Lists(order, batch, A)
  /\ Extends(all, list, batch, order, n, r)
  /\ \A i \in DOMAIN list : list[i].revision # r

\* Under the new revision are the effective mutations, and what was there
\* before stands.
LEMMA ChangesExtended ==
  ASSUME NEW batch \in Seq(Mutation), NEW A, NEW n, NEW order, NEW r, NEW list, NEW all,
         Records(all, list, batch, A, order, n, r), NEW op, NEW q \in Nat
  PROVE  ChangedIn(all, q, op) =
           IF q = r THEN EffectiveTuples(batch, A, op) ELSE ChangedIn(list, q, op)
<1> USE DEF Records
<1> DEFINE k == Len(list)
<1>1. k \in Nat /\ DOMAIN list = 1..k /\ n \in Nat /\ DOMAIN order = 1..n
  OBVIOUS
<1>2. \A i \in DOMAIN all : i \in 1..k \/ (i - k \in 1..n /\ i = k + (i - k))
  BY <1>1 DEF Extends
<1>3. \A i \in 1..k : i \in DOMAIN all /\ all[i] = list[i]
  BY <1>1 DEF Extends
<1>4. \A i \in 1..n : k + i \in DOMAIN all /\ all[k + i] = ChangeAt(batch, order[i], r)
  BY <1>1 DEF Extends
<1>5. \A i \in 1..n : order[i] \in EffectiveAt(batch, A) /\ order[i] \in DOMAIN batch
  BY <1>1 DEF Lists
<1>6. ASSUME q # r
      PROVE  ChangedIn(all, q, op) = ChangedIn(list, q, op)
  <2>1. \A i \in 1..n : ChangeAt(batch, order[i], r).revision = r
    BY DEF ChangeAt
  <2>2. ASSUME NEW t, NEW i \in DOMAIN all, all[i] = [revision |-> q, tuple |-> t, op |-> op]
        PROVE  i \in 1..k
    <3>1. all[i].revision = q
      BY <2>2
    <3> QED
      BY <1>2, <1>4, <1>6, <2>1, <3>1
  <2> QED
    BY <1>1, <1>3, <2>2 DEF ChangedIn
<1>7. ChangedIn(all, r, op) = EffectiveTuples(batch, A, op)
  <2>1. ASSUME NEW t \in Tuple, NEW i \in DOMAIN all,
               all[i] = [revision |-> r, tuple |-> t, op |-> op]
        PROVE  t \in EffectiveTuples(batch, A, op)
    <3>1. i \notin 1..k
      BY <1>1, <1>3, <2>1
    <3>2. PICK j \in 1..n : i = k + j
      BY <1>2, <3>1
    <3>3. ChangeAt(batch, order[j], r) = [revision |-> r, tuple |-> t, op |-> op]
      BY <1>4, <2>1, <3>2
    <3>4. batch[order[j]].tuple = t /\ batch[order[j]].op = op
      BY <3>3 DEF ChangeAt
    <3>5. batch[order[j]] = [tuple |-> t, op |-> op]
      <4>1. batch[order[j]] \in Mutation
        BY <1>5
      <4> QED
        BY <3>4, <4>1 DEF Mutation
    <3> QED
      BY <1>5, <3>5 DEF EffectiveTuples
  <2>2. ASSUME NEW t \in EffectiveTuples(batch, A, op)
        PROVE  t \in ChangedIn(all, r, op)
    <3>1. PICK m \in EffectiveAt(batch, A) : batch[m] = [tuple |-> t, op |-> op]
      BY DEF EffectiveTuples
    <3>2. PICK i \in 1..n : order[i] = m
      BY <1>1 DEF Lists
    <3>3. all[k + i] = [revision |-> r, tuple |-> t, op |-> op] /\ k + i \in DOMAIN all
      BY <1>4, <3>1, <3>2 DEF ChangeAt
    <3> QED
      BY <3>3 DEF ChangedIn, EffectiveTuples
  <2> QED
    BY <2>1, <2>2 DEF ChangedIn, EffectiveTuples
<1> QED
  BY <1>6, <1>7

\* No tenant has entries at the start, and each is seen as an empty history.
LEMMA StoreInit == Init => Store!Init
<1> SUFFICES ASSUME Init PROVE Store!Init
  OBVIOUS
<1> 0..0 = {0} /\ 1..0 = {}
  OBVIOUS
<1>1. \A tn \in Tenant : head_revision(tn) = 0 /\ \A q : SnapshotAt(tn, q) = {}
  BY DEF Init, head_revision, SnapshotAt, Known
<1>2. Heads = [tn \in Tenant |-> 0]
  BY <1>1 DEF Heads
<1>3. Snapshots = [tn \in Tenant |-> [r \in {0} |-> {}]]
  <2>1. \A tn \in Tenant :
          [r \in 0..head_revision(tn) |-> SnapshotAt(tn, r)] = [r \in {0} |-> {}]
    BY <1>1
  <2> QED
    BY <2>1 DEF Snapshots
<1>4. Changes = [tn \in Tenant |-> [r \in {} |-> {}]]
  <2>1. \A tn \in Tenant : 1..head_revision(tn) = {}
    BY <1>1
  <2>2. \A tn \in Tenant :
          [r \in 1..head_revision(tn) |->
             [written |-> ChangedBy(tn, r, "write"), deleted |-> ChangedBy(tn, r, "delete")]]
          = [r \in {} |-> {}]
    BY <2>1
  <2> QED
    BY <2>2 DEF Changes
<1> QED
  BY <1>2, <1>3, <1>4 DEF Store!Init

\* What a tenant is seen as, when the step leaves its head, its snapshots and
\* its changes.
SeenUnchanged(tn) ==
  /\ head_revision(tn)' = head_revision(tn)
  /\ \A q \in 0..head_revision(tn) : SnapshotAt(tn, q)' = SnapshotAt(tn, q)
  /\ ChangesOf(tn)' = ChangesOf(tn)

LEMMA SameSight ==
  ASSUME NEW tn \in Tenant, SeenUnchanged(tn)
  PROVE  Heads'[tn] = Heads[tn] /\ Snapshots'[tn] = Snapshots[tn] /\ Changes'[tn] = Changes[tn]
<1>1. \A q, op : ChangedBy(tn, q, op)' = ChangedBy(tn, q, op)
  BY DEF SeenUnchanged, ChangedBy
<1> QED
  BY <1>1 DEF SeenUnchanged, Heads, Snapshots, Changes

\* Giving a tenant empty entries changes nothing that anybody can read.
LEMMA EnsuredStutters ==
  ASSUME MemoryInv, NEW tn \in Tenant, EnsureTenant(tn)
  PROVE  UNCHANGED Store!vars
<1>1. ASSUME NEW t \in Tenant
      PROVE  SeenUnchanged(t)
  <2>1. CASE t \in Known
    BY <2>1, EnsuredInv DEF SeenUnchanged, head_revision, SnapshotAt, ChangesOf
  <2>2. CASE t \notin Known /\ t # tn
    <3>1. t \notin Known'
      BY <2>2, EnsuredInv
    <3> QED
      BY <2>2, <3>1 DEF SeenUnchanged, head_revision, SnapshotAt, ChangesOf
  <2>3. CASE t \notin Known /\ t = tn
    <3>1. /\ t \in Known' /\ revisions'[t] = 0
          /\ snapshots'[t] = [q \in {0} |-> {}] /\ changes'[t] = <<>>
      BY <2>3, EnsuredInv
    <3>2. head_revision(t) = 0 /\ \A q \in 0..0 : q = 0
      BY <2>3 DEF head_revision
    <3> QED
      BY <2>3, <3>1, <3>2 DEF SeenUnchanged, head_revision, SnapshotAt, ChangesOf
  <2> QED
    BY <2>1, <2>2, <2>3
<1> QED
  BY <1>1, SameSight DEF Store!vars, Heads, Snapshots, Changes

\* A write that changes something is one commit of the abstract store.
LEMMA WriteImplements ==
  ASSUME MemoryInv, NEW tn \in Tenant, NEW batch \in Batches, Write(tn, batch)
  PROVE  \E t \in Tenant, W, D \in SUBSET Tuple : Store!Commit(t, W, D)
<1> DEFINE A == ActiveTuples(tn)
           n == head_revision(tn)
           r == n + 1
           S == Staged(batch, A)
           W == Touched(batch) \ A
           D == Deleted(batch) \cap A
<1>1. batch \in Seq(Mutation) /\ ~HasUnknown(batch) /\ ~Conflicting(batch)
  BY MemoryBatches DEF Write
<1>2. /\ n \in Nat /\ A \in SUBSET Tuple /\ SnapshotAt(tn, n) = A
      /\ ChangesOf(tn) \in Seq(Change)
      /\ \A i \in DOMAIN ChangesOf(tn) : ChangesOf(tn)[i].revision \in 1..n
  BY TenantFacts
<1>3. /\ Known' = Known \cup {tn} /\ DOMAIN changes' = Known'
      /\ revisions'[tn] = r
      /\ snapshots'[tn] = [q \in 0..r |-> IF q = r THEN S ELSE SnapshotAt(tn, q)]
      /\ \A t \in Known \ {tn} : /\ revisions'[t] = revisions[t]
                                 /\ snapshots'[t] = snapshots[t]
                                 /\ changes'[t] = changes[t]
      /\ r \in Nat
  BY WriteEffect
<1>4. PICK m \in 1..Len(batch) : \E order \in [1..m -> 1..Len(batch)] :
        /\ Lists(order, batch, A)
        /\ changes'[tn] = ChangesOf(tn) \o Recorded(order, batch, r)
  BY WriteEffect, Zenon
<1>5. PICK order \in [1..m -> 1..Len(batch)] :
        /\ Lists(order, batch, A)
        /\ changes'[tn] = ChangesOf(tn) \o Recorded(order, batch, r)
  BY <1>4
<1>6. W \in SUBSET Tuple /\ D \in SUBSET Tuple /\ S = (A \cup W) \ D
  BY <1>1, <1>2, StagedHolds DEF Touched, Deleted, WithOp
<1>7. Heads[tn] = n /\ Snapshots[tn] = [q \in 0..n |-> SnapshotAt(tn, q)]
  BY DEF Heads, Snapshots
<1>8. Store!Latest(tn) = A
  BY <1>2, <1>7 DEF Store!Latest
<1>9. head_revision(tn)' = r
  BY <1>3 DEF head_revision
<1>10. ASSUME NEW t \in Tenant \ {tn}
       PROVE  SeenUnchanged(t)
  BY <1>3 DEF SeenUnchanged, head_revision, SnapshotAt, ChangesOf
<1>11. \A q \in 0..r : SnapshotAt(tn, q)' = IF q = r THEN S ELSE SnapshotAt(tn, q)
  BY <1>3 DEF SnapshotAt
<1> DEFINE list == ChangesOf(tn)
           all  == changes'[tn]
<1>12. /\ Changes[tn] = [q \in 1..n |->
            [written |-> ChangedIn(list, q, "write"), deleted |-> ChangedIn(list, q, "delete")]]
       /\ Changes'[tn] = [q \in 1..r |->
            [written |-> ChangedIn(all, q, "write"), deleted |-> ChangedIn(all, q, "delete")]]
  BY <1>3, <1>9 DEF Changes, ChangedBy, ChangedIn, ChangesOf
<1> HIDE DEF r, S, A, n, W, D, list, all
<1>13. ASSUME NEW op \in {"write", "delete"}, NEW q \in Nat
       PROVE  ChangedIn(all, q, op) =
                IF q = r THEN EffectiveTuples(batch, A, op) ELSE ChangedIn(list, q, op)
  <2>1. /\ r \in Nat /\ list \in Seq(Change)
        /\ m \in 1..Len(batch) /\ order \in [1..m -> 1..Len(batch)]
        /\ batch \in Seq(Mutation)
    BY <1>1, <1>2, <1>3 DEF list
  <2>2. Extends(all, list, batch, order, m, r) /\ Lists(order, batch, A)
    BY <1>1, <1>5, <2>1, RecordedChanges DEF all, list
  <2>3. \A i \in DOMAIN list : list[i].revision # r
    BY <1>2 DEF r, list
  <2>4. Records(all, list, batch, A, order, m, r)
    BY <2>1, <2>2, <2>3 DEF Records
  <2> QED
    BY <2>1, <2>4, ChangesExtended
<1>14. \A q \in Nat :
         /\ ChangedIn(all, q, "write") = IF q = r THEN W ELSE ChangedIn(list, q, "write")
         /\ ChangedIn(all, q, "delete") = IF q = r THEN D ELSE ChangedIn(list, q, "delete")
  BY <1>1, <1>2, <1>13, EffectOfBatch DEF W, D
<1>15. Heads' = [Heads EXCEPT ![tn] = r]
  BY <1>9, <1>10 DEF Heads, SeenUnchanged
<1>16. Snapshots' = [Snapshots EXCEPT ![tn] =
         [q \in 0..r |-> IF q = r THEN (Store!Latest(tn) \cup W) \ D ELSE Snapshots[tn][q]]]
  <2>1. Snapshots'[tn] =
          [q \in 0..r |-> IF q = r THEN (Store!Latest(tn) \cup W) \ D ELSE Snapshots[tn][q]]
    <3>1. Snapshots'[tn] = [q \in 0..r |-> SnapshotAt(tn, q)']
      BY <1>9 DEF Snapshots
    <3>2. \A q \in 0..r : q # r => q \in 0..n
      BY <1>2 DEF r
    <3> QED
      BY <1>6, <1>7, <1>8, <1>11, <3>1, <3>2
  <2>2. \A t \in Tenant \ {tn} : Snapshots'[t] = Snapshots[t]
    BY <1>10, SameSight
  <2> QED
    BY <2>1, <2>2 DEF Snapshots
<1>17. Changes' = [Changes EXCEPT ![tn] =
         [q \in 1..r |-> IF q = r THEN [written |-> W, deleted |-> D] ELSE Changes[tn][q]]]
  <2>1. Changes'[tn] =
          [q \in 1..r |-> IF q = r THEN [written |-> W, deleted |-> D] ELSE Changes[tn][q]]
    <3>1. \A q \in 1..r : q # r => q \in 1..n
      BY <1>2 DEF r
    <3> QED
      BY <1>12, <1>14, <3>1
  <2>2. \A t \in Tenant \ {tn} : Changes'[t] = Changes[t]
    BY <1>10, SameSight
  <2> QED
    BY <2>1, <2>2 DEF Changes
<1>18. W \cap A = {} /\ D \subseteq A
  BY DEF W, D
<1>19. Store!Commit(tn, W, D)
  BY <1>7, <1>8, <1>15, <1>16, <1>17, <1>18 DEF Store!Commit, r
<1> QED
  BY <1>6, <1>19

\* The dictionaries, read as snapshots and changes, behave as the abstract
\* store: a write commits one batch of real changes as the next revision, or
\* changes nothing that anybody can read, and a watch never does.
THEOREM MemoryImplementsStore == Spec => ImplementsStore
<1>1. MemoryInv /\ [Next]_vars => [Store!Next]_(Store!vars)
  <2> SUFFICES ASSUME MemoryInv, [Next]_vars PROVE [Store!Next]_(Store!vars)
    OBVIOUS
  <2>1. CASE UNCHANGED <<store, result>>
    <3>1. \A tn \in Tenant : SeenUnchanged(tn)
      BY <2>1 DEF SeenUnchanged, head_revision, SnapshotAt, ChangesOf, Known, store
    <3> QED
      BY <3>1, SameSight DEF Store!vars, Heads, Snapshots, Changes
  <2>2. ASSUME NEW w \in Watcher,
               \/ \E tn \in Tenant : \E after \in 0..head_revision(tn) + 1 :
                    StartWatch(w, tn, after)
               \/ ResumeWatch(w)
        PROVE  UNCHANGED <<store, result>>
    BY <2>2 DEF StartWatch, ResumeWatch
  <2>3. ASSUME NEW tn \in Tenant, NEW batch \in Batches, Write(tn, batch)
        PROVE  Store!Next
    BY <2>3, WriteImplements DEF Store!Next
  <2>4. ASSUME NEW tn \in Tenant, NEW batch \in Batches,
               WriteNothing(tn, batch) \/ WriteUnknown(tn, batch)
        PROVE  UNCHANGED Store!vars
    <3>1. EnsureTenant(tn)
      BY <2>4 DEF WriteNothing, WriteUnknown
    <3> QED
      BY <3>1, EnsuredStutters
  <2> QED
    BY <2>1, <2>2, <2>3, <2>4 DEF Next, vars
<1> QED
  BY <1>1, StoreInit, MemoryInvariant, PTL DEF Spec, ImplementsStore, Store!Spec

-------------------------------------------------------------------------------
\* Replaying changes

\* The first n of got are what the list has after its first b.
Continues(got, list, b, n) == \A i \in 1..n : got[i] = list[b + i]

\* Replaying a stretch on top of what comes before it is replaying them all.
LEMMA ReplayStretch ==
  ASSUME NEW A, NEW list, NEW got, NEW b \in Nat, NEW n \in Nat,
         Continues(got, list, b, n)
  PROVE  Replay(Replay(A, list, b), got, n) = Replay(A, list, b + n)
<1> USE DEF Continues
<1>1. \A i \in b+1..b+n : i - b \in 1..n /\ got[i - b] = list[i]
  OBVIOUS
<1>2. ASSUME NEW t \in Replay(Replay(A, list, b), got, n)
      PROVE  t \in Replay(A, list, b + n)
  <2>1. CASE t \in Replay(A, list, b) /\ \A i \in 1..n : got[i].tuple # t
    <3>1. \A i \in b+1..b+n : list[i].tuple # t
      BY <1>1, <2>1
    <3> QED
      BY <2>1, <3>1 DEF Replay
  <2>2. ASSUME NEW i \in 1..n, got[i].tuple = t, got[i].op = "write",
               \A j \in i+1..n : got[j].tuple # t
        PROVE  t \in Replay(A, list, b + n)
    <3>1. b + i \in 1..b+n /\ list[b + i].tuple = t /\ list[b + i].op = "write"
      BY <2>2
    <3>2. \A j \in b+i+1..b+n : list[j].tuple # t
      BY <1>1, <2>2
    <3> QED
      BY <3>1, <3>2 DEF Replay
  <2> QED
    BY <2>1, <2>2 DEF Replay
<1>3. ASSUME NEW t \in Replay(A, list, b + n)
      PROVE  t \in Replay(Replay(A, list, b), got, n)
  <2>1. t \in Tuple
    BY DEF Replay
  <2>2. CASE t \in A /\ \A i \in 1..b+n : list[i].tuple # t
    BY <2>1, <2>2 DEF Replay
  <2>3. ASSUME NEW i \in 1..b+n, list[i].tuple = t, list[i].op = "write",
               \A j \in i+1..b+n : list[j].tuple # t
        PROVE  t \in Replay(Replay(A, list, b), got, n)
    <3>1. CASE i <= b
      <4>1. t \in Replay(A, list, b)
        BY <2>1, <2>3, <3>1 DEF Replay
      <4>2. \A j \in 1..n : got[j].tuple # t
        BY <2>3, <3>1
      <4> QED
        BY <2>1, <4>1, <4>2 DEF Replay
    <3>2. CASE ~(i <= b)
      <4>1. i - b \in 1..n /\ got[i - b].tuple = t /\ got[i - b].op = "write"
        BY <1>1, <2>3, <3>2
      <4>2. \A j \in (i - b)+1..n : got[j].tuple # t
        BY <2>3, <3>2
      <4> QED
        BY <2>1, <4>1, <4>2 DEF Replay
    <3> QED
      BY <3>1, <3>2
  <2> QED
    BY <2>2, <2>3 DEF Replay
<1> QED
  BY <1>2, <1>3

LEMMA ReplayPrefix ==
  ASSUME NEW A, NEW list, NEW all, NEW n \in Nat, \A i \in 1..n : all[i] = list[i]
  PROVE  Replay(A, all, n) = Replay(A, list, n)
<1>1. ASSUME NEW i \in 1..n
      PROVE  i+1..n \subseteq 1..n
  OBVIOUS
<1> QED
  BY <1>1 DEF Replay

\* What a write records: changes of different tuples, each of them real, that
\* lead from the active tuples to the staged ones.
LEMMA RecordedLead ==
  ASSUME NEW batch \in Seq(Mutation), NEW A \in SUBSET Tuple,
         ~Conflicting(batch), ~HasUnknown(batch), NEW n \in Nat, NEW r,
         NEW order \in [1..n -> 1..Len(batch)], Lists(order, batch, A),
         NEW got, \A i \in 1..n : got[i] = ChangeAt(batch, order[i], r)
  PROVE  /\ Replay(A, got, n) = Staged(batch, A)
         /\ \A i \in 1..n :
              got[i].op = "write" <=> got[i].tuple \notin Replay(A, got, i-1)
<1>1. DOMAIN order = 1..n /\ Len(batch) \in Nat /\ DOMAIN batch = 1..Len(batch)
  OBVIOUS
<1>2. \A i \in 1..n : /\ order[i] \in EffectiveAt(batch, A) /\ order[i] \in 1..Len(batch)
                      /\ got[i].tuple = batch[order[i]].tuple
                      /\ got[i].op = batch[order[i]].op
  <2>1. ASSUME NEW i \in 1..n
        PROVE  got[i].tuple = batch[order[i]].tuple /\ got[i].op = batch[order[i]].op
    <3>1. got[i] = [revision |-> r, tuple |-> batch[order[i]].tuple, op |-> batch[order[i]].op]
      BY DEF ChangeAt
    <3> QED
      BY ONLY <3>1
  <2>2. ASSUME NEW i \in 1..n
        PROVE  order[i] \in EffectiveAt(batch, A)
    BY <1>1 DEF Lists
  <2> QED
    BY <2>1, <2>2
<1>3. ASSUME NEW i \in 1..n
      PROVE  /\ got[i].tuple \in Tuple /\ got[i].op \in {"write", "delete"}
             /\ got[i].op = "write" <=> got[i].tuple \notin A
  BY <1>1, <1>2, BatchTypes DEF EffectiveAt
<1>4. ASSUME NEW i \in 1..n, NEW j \in 1..n, i < j
      PROVE  got[i].tuple # got[j].tuple
  <2>1. order[i] < order[j]
    BY <1>1, <1>4 DEF Lists
  <2>2. order[i] \in 1..order[j]-1
    BY <1>2, <2>1
  <2>3. order[j] \in EffectiveAt(batch, A)
    BY <1>2
  <2>4. batch[order[i]].tuple # batch[order[j]].tuple
    BY ONLY <2>2, <2>3 DEF EffectiveAt
  <2> QED
    BY <1>2, <2>4
<1>5. \A t \in Tuple, op \in {"write", "delete"} :
        t \in EffectiveTuples(batch, A, op) <=>
          \E i \in 1..n : got[i].tuple = t /\ got[i].op = op
  <2> SUFFICES ASSUME NEW t \in Tuple, NEW op \in {"write", "delete"}
               PROVE  t \in EffectiveTuples(batch, A, op) <=>
                        \E i \in 1..n : got[i].tuple = t /\ got[i].op = op
    OBVIOUS
  <2>1. ASSUME NEW m \in EffectiveAt(batch, A), batch[m] = [tuple |-> t, op |-> op]
        PROVE  \E i \in 1..n : got[i].tuple = t /\ got[i].op = op
    <3>1. PICK i \in 1..n : order[i] = m
      BY <1>1 DEF Lists
    <3> QED
      BY <1>2, <2>1, <3>1
  <2>2. ASSUME NEW i \in 1..n, got[i].tuple = t, got[i].op = op
        PROVE  \E m \in EffectiveAt(batch, A) : batch[m] = [tuple |-> t, op |-> op]
    <3>1. batch[order[i]] = [tuple |-> t, op |-> op]
      BY <1>1, <1>2, <2>2, BatchTypes
    <3> QED
      BY <1>2, <3>1
  <2>3. t \in EffectiveTuples(batch, A, op) <=>
          \E m \in EffectiveAt(batch, A) : batch[m] = [tuple |-> t, op |-> op]
    BY DEF EffectiveTuples
  <2> QED
    BY <2>1, <2>2, <2>3
<1>6. Replay(A, got, n) =
        (A \cup EffectiveTuples(batch, A, "write")) \ EffectiveTuples(batch, A, "delete")
  <2>1. ASSUME NEW t \in Tuple
        PROVE  t \in Replay(A, got, n) <=>
                 \/ t \in A /\ ~\E i \in 1..n : got[i].tuple = t
                 \/ \E i \in 1..n : got[i].tuple = t /\ got[i].op = "write"
    <3>1. ASSUME NEW i \in 1..n, got[i].tuple = t
          PROVE  \A j \in i+1..n : got[j].tuple # t
      BY <1>4, <3>1
    <3> QED
      BY <3>1 DEF Replay
  <2>2. ASSUME NEW t \in Tuple
        PROVE  t \in Replay(A, got, n) <=>
                 /\ t \in A \/ t \in EffectiveTuples(batch, A, "write")
                 /\ t \notin EffectiveTuples(batch, A, "delete")
    <3>1. t \in EffectiveTuples(batch, A, "write") <=>
            \E i \in 1..n : got[i].tuple = t /\ got[i].op = "write"
      BY <1>5
    <3>2. t \in EffectiveTuples(batch, A, "delete") <=>
            \E i \in 1..n : got[i].tuple = t /\ got[i].op = "delete"
      BY <1>5
    <3>3. \A i \in 1..n : got[i].tuple = t =>
            (got[i].op = "write" <=> t \notin A) /\ (got[i].op = "delete" <=> t \in A)
      BY <1>3
    <3> QED
      BY <1>3, <2>1, <3>1, <3>2, <3>3
  <2> QED
    BY <2>2 DEF Replay, EffectiveTuples
<1>7. Replay(A, got, n) = Staged(batch, A)
  BY <1>6, EffectOfBatch, StagedHolds
<1>8. ASSUME NEW i \in 1..n
      PROVE  got[i].tuple \in Replay(A, got, i-1) <=> got[i].tuple \in A
  <2>1. \A j \in 1..i-1 : got[j].tuple # got[i].tuple
    BY <1>4
  <2> QED
    BY <1>3, <2>1 DEF Replay
<1> QED
  BY <1>3, <1>7, <1>8

-------------------------------------------------------------------------------
\* The changes a watch delivers

\* The first n changes of a list are those up to revision q.
Cut(list, n, q) ==
  /\ n \in 0..Len(list)
  /\ \A i \in DOMAIN list : i <= n <=> list[i].revision <= q

\* got is the stretch of the list after its first b changes.
Stretch(list, got, b) ==
  /\ b \in Nat /\ b + Len(got) <= Len(list)
  /\ \A i \in DOMAIN got : got[i] = list[b + i]

Sorted(list) ==
  \A i, j \in DOMAIN list : i < j => list[i].revision <= list[j].revision

\* Each change is a real one where it stands.
Genuine(list) ==
  \A i \in DOMAIN list :
    list[i].op = "write" <=> list[i].tuple \notin Replay({}, list, i-1)

\* The changes up to a revision lead from nothing to its snapshot.
LeadsTo(list, snaps) ==
  \A q \in DOMAIN snaps : \A n \in 0..Len(list) :
    Cut(list, n, q) => snaps[q] = Replay({}, list, n)

ChangesTellSnapshots ==
  \A tn \in Known :
    /\ Sorted(changes[tn]) /\ Genuine(changes[tn])
    /\ LeadsTo(changes[tn], snapshots[tn])

\* A generator that is suspended at a change has yielded, with that one, all
\* after the revision it was asked for.
Suspended(g, list) ==
  /\ g.pos \in Nat /\ Len(g.got) > 0
  /\ Stretch(list, g.got, g.pos - Len(g.got))
  /\ Cut(list, g.pos - Len(g.got), g.after)

\* One that has ended has yielded those from its start to the head it met.
Finished(g, list, head) ==
  /\ g.last \in 0..head
  /\ \E b \in Nat : /\ Stretch(list, g.got, b)
                    /\ Cut(list, b, g.after) /\ Cut(list, b + Len(g.got), g.last)

Generator ==
  [pc : {"open", "ended"}, tenant : Tenant, after : Nat, pos : Nat, got : Seq(Change),
   last : Nat]

Watching(g) ==
  \/ g.pc = "new"
  \/ /\ g \in Generator /\ g.after <= head_revision(g.tenant)
     /\ g.pc = "open" => Suspended(g, ChangesOf(g.tenant))
     /\ g.pc = "ended" => Finished(g, ChangesOf(g.tenant), head_revision(g.tenant))

WatchInv == DOMAIN watch = Watcher /\ \A w \in Watcher : Watching(watch[w])

ReplayInv == ChangesTellSnapshots /\ WatchInv

\* What a longer list keeps of the one it extends.
Grown(all, list, n, h) ==
  /\ list \in Seq(Change) /\ all \in Seq(Change) /\ n \in Nat /\ h \in Nat
  /\ DOMAIN all = 1..Len(list) + n
  /\ \A i \in 1..Len(list) : all[i] = list[i]
  /\ \A i \in 1..n : all[Len(list) + i].revision = h + 1
  /\ \A i \in DOMAIN list : list[i].revision \in 1..h

LEMMA GrownFacts ==
  ASSUME NEW list, NEW all, NEW n, NEW h, Grown(all, list, n, h)
  PROVE  /\ Len(list) \in Nat /\ DOMAIN list = 1..Len(list)
         /\ Len(all) = Len(list) + n
         /\ \A i \in DOMAIN all :
              IF i <= Len(list) THEN /\ i \in 1..Len(list) /\ all[i] = list[i]
                                     /\ all[i].revision \in 1..h
              ELSE /\ i - Len(list) \in 1..n /\ i = Len(list) + (i - Len(list))
                   /\ all[i].revision = h + 1
<1> DEFINE k == Len(list)
<1>1. k \in Nat /\ DOMAIN list = 1..k /\ Len(all) \in Nat /\ DOMAIN all = 1..Len(all)
  BY DEF Grown
<1>2. Len(all) = k + n
  BY <1>1, LenProperties DEF Grown
<1>3. ASSUME NEW i \in DOMAIN all, i <= k
      PROVE  i \in 1..k /\ all[i] = list[i] /\ all[i].revision \in 1..h
  <2>1. i \in 1..k
    BY <1>1, <1>3
  <2> QED
    BY <1>1, <2>1 DEF Grown
<1>4. ASSUME NEW i \in DOMAIN all, ~(i <= k)
      PROVE  i - k \in 1..n /\ i = k + (i - k) /\ all[i].revision = h + 1
  <2>1. i - k \in 1..n /\ i = k + (i - k)
    BY <1>1, <1>2, <1>4 DEF Grown
  <2> QED
    BY <2>1 DEF Grown
<1> QED
  BY <1>1, <1>2, <1>3, <1>4

\* What is added under a newer revision is after every cut at an older one.
LEMMA GrownCuts ==
  ASSUME NEW list, NEW all, NEW n, NEW h, Grown(all, list, n, h), NEW q \in 0..h, NEW m
  PROVE  Cut(list, m, q) <=> Cut(all, m, q)
<1> DEFINE k == Len(list)
<1>1. /\ k \in Nat /\ DOMAIN list = 1..k /\ Len(all) = k + n /\ n \in Nat /\ h \in Nat
      /\ DOMAIN all = 1..k + n
      /\ \A i \in DOMAIN all :
           IF i <= k THEN i \in 1..k /\ all[i] = list[i]
           ELSE all[i].revision = h + 1
  <2>1. n \in Nat /\ h \in Nat /\ DOMAIN all = 1..k + n
    BY DEF Grown
  <2>2. k \in Nat /\ DOMAIN list = 1..k /\ Len(all) = k + n
    BY GrownFacts
  <2>3. ASSUME NEW i \in DOMAIN all
        PROVE  IF i <= k THEN i \in 1..k /\ all[i] = list[i] ELSE all[i].revision = h + 1
    BY GrownFacts
  <2> QED
    BY <2>1, <2>2, <2>3
<1> HIDE DEF k
<1>2. ASSUME Cut(list, m, q)
      PROVE  Cut(all, m, q)
  <2>1. m \in 0..k /\ \A i \in 1..k : i <= m <=> list[i].revision <= q
    BY <1>1, <1>2 DEF Cut, k
  <2>2. ASSUME NEW i \in 1..k+n
        PROVE  i <= m <=> all[i].revision <= q
    <3>1. CASE i <= k
      BY <1>1, <2>1, <3>1
    <3>2. CASE ~(i <= k)
      BY <1>1, <2>1, <3>2
    <3> QED
      BY <3>1, <3>2
  <2>3. m \in 0..k+n
    BY <1>1, <2>1
  <2> QED
    BY <1>1, <2>2, <2>3 DEF Cut
<1>3. ASSUME Cut(all, m, q)
      PROVE  Cut(list, m, q)
  <2>1. m \in 0..k+n /\ \A i \in 1..k+n : i <= m <=> all[i].revision <= q
    BY <1>1, <1>3 DEF Cut
  <2>2. m <= k
    <3> SUFFICES ASSUME ~(m <= k) PROVE FALSE
      BY <1>1, <2>1
    <3>1. m \in 1..k+n /\ all[m].revision = h + 1
      BY <1>1, <2>1
    <3>2. all[m].revision <= q
      BY <2>1, <3>1
    <3> QED
      BY <1>1, <3>1, <3>2
  <2>3. ASSUME NEW i \in 1..k
        PROVE  i <= m <=> list[i].revision <= q
    BY <1>1, <2>1
  <2> QED
    BY <1>1, <2>1, <2>2, <2>3 DEF Cut, k
<1> QED
  BY <1>2, <1>3

\* All changes are up to the head.
LEMMA CutAtHead ==
  ASSUME NEW list \in Seq(Change), NEW q \in Nat,
         \A i \in DOMAIN list : list[i].revision <= q
  PROVE  /\ Cut(list, Len(list), q)
         /\ \A m : Cut(list, m, q) => m = Len(list)
<1>1. PICK k \in Nat : k = Len(list) /\ DOMAIN list = 1..k
  OBVIOUS
<1>2. ASSUME NEW m, Cut(list, m, q)
      PROVE  m = k
  <2>1. m \in 0..k /\ \A i \in 1..k : i <= m
    BY <1>1, <1>2 DEF Cut
  <2>2. k = 0 \/ k \in 1..k
    OBVIOUS
  <2> QED
    BY <2>1, <2>2
<1>3. Cut(list, Len(list), q)
  <2>1. k \in 0..k /\ \A i \in 1..k : i <= k
    OBVIOUS
  <2> QED
    BY <1>1, <2>1 DEF Cut
<1> QED
  BY <1>1, <1>2, <1>3

LEMMA ReplayInit == Init => ReplayInv
BY DEF Init, ReplayInv, ChangesTellSnapshots, WatchInv, Watching, Known

\* What the changes tell of a tenant, whether or not it has entries.
LEMMA ToldFacts ==
  ASSUME MemoryInv, ReplayInv, NEW tn \in Tenant
  PROVE  /\ Sorted(ChangesOf(tn)) /\ Genuine(ChangesOf(tn))
         /\ \A q \in 0..head_revision(tn) : \A m :
              Cut(ChangesOf(tn), m, q) => SnapshotAt(tn, q) = Replay({}, ChangesOf(tn), m)
<1>1. CASE tn \in Known
  <2>1. /\ Sorted(changes[tn]) /\ Genuine(changes[tn]) /\ LeadsTo(changes[tn], snapshots[tn])
        /\ DOMAIN snapshots[tn] = 0..revisions[tn]
    BY <1>1 DEF ReplayInv, ChangesTellSnapshots, MemoryInv, TypeOK
  <2>2. \A q, m : Cut(changes[tn], m, q) => m \in 0..Len(changes[tn])
    BY DEF Cut
  <2> QED
    BY <1>1, <2>1, <2>2 DEF ChangesOf, SnapshotAt, head_revision, LeadsTo
<1>2. CASE tn \notin Known
  <2>1. ChangesOf(tn) = <<>> /\ \A q : SnapshotAt(tn, q) = {}
    BY <1>2 DEF ChangesOf, SnapshotAt
  <2>2. DOMAIN <<>> = {} /\ Len(<<>>) = 0 /\ \A m \in 0..0 : m = 0
    OBVIOUS
  <2>3. Replay({}, <<>>, 0) = {}
    <3>1. 1..0 = {}
      OBVIOUS
    <3> QED
      BY <3>1 DEF Replay
  <2>4. \A q, m : Cut(<<>>, m, q) => m = 0
    BY <2>2 DEF Cut
  <2> QED
    BY <2>1, <2>2, <2>3, <2>4 DEF Sorted, Genuine
<1> QED
  BY <1>1, <1>2

\* The n changes that make `list` into `all`, got, bring A, the snapshot of the
\* head h, to S.
Brings(list, all, n, h, snaps, A, S, got) ==
  /\ n > 0
  /\ \A i \in 1..n : got[i] = all[Len(list) + i]
  /\ Sorted(list) /\ Genuine(list)
  /\ \A q \in 0..h : \A m : Cut(list, m, q) => snaps[q] = Replay({}, list, m)
  /\ snaps[h] = A
  /\ Replay(A, got, n) = S
  /\ \A i \in 1..n : got[i].op = "write" <=> got[i].tuple \notin Replay(A, got, i-1)

\* A write leaves a list of changes that tells its snapshots too.
LEMMA WriteTells ==
  ASSUME NEW list, NEW all, NEW n, NEW h, Grown(all, list, n, h),
         NEW snaps, NEW A, NEW S, NEW got, Brings(list, all, n, h, snaps, A, S, got)
  PROVE  /\ Sorted(all) /\ Genuine(all)
         /\ LeadsTo(all, [q \in 0..h+1 |-> IF q = h + 1 THEN S ELSE snaps[q]])
<1> USE DEF Brings
<1>1. PICK k \in Nat : k = Len(list) /\ DOMAIN list = 1..k
  BY GrownFacts
<1>2. /\ n \in Nat /\ h \in Nat /\ DOMAIN all = 1..k + n /\ Len(all) = k + n
      /\ all \in Seq(Change) /\ list \in Seq(Change)
  <2>1. /\ n \in Nat /\ h \in Nat /\ DOMAIN all = 1..k + n
        /\ all \in Seq(Change) /\ list \in Seq(Change)
    BY <1>1 DEF Grown
  <2> QED
    BY <1>1, <2>1, GrownFacts
<1>3. /\ \A i \in 1..k : all[i] = list[i] /\ list[i].revision \in 1..h
      /\ \A i \in 1..n : got[i] = all[k + i] /\ all[k + i].revision = h + 1
  BY <1>1 DEF Grown
<1>4. \A i \in DOMAIN all :
        IF i <= k THEN i \in 1..k /\ all[i] = list[i] /\ all[i].revision \in 1..h
        ELSE i - k \in 1..n /\ i = k + (i - k) /\ all[i].revision = h + 1
  BY <1>1, GrownFacts
<1>5. Sorted(all)
  <2> SUFFICES ASSUME NEW i \in 1..k+n, NEW j \in 1..k+n, i < j
               PROVE  all[i].revision <= all[j].revision
    BY <1>2 DEF Sorted
  <2>1. CASE j <= k
    <3>1. i \in 1..k /\ j \in 1..k
      BY <2>1
    <3>2. list[i].revision <= list[j].revision
      BY <1>1, <3>1 DEF Sorted
    <3> QED
      BY <1>3, <3>1, <3>2
  <2>2. CASE ~(j <= k)
    <3>1. all[j].revision = h + 1
      BY <1>2, <1>4, <2>2
    <3>2. all[i].revision \in 1..h \/ all[i].revision = h + 1
      BY <1>2, <1>4
    <3> QED
      BY <1>2, <3>1, <3>2
  <2> QED
    BY <2>1, <2>2
<1>6. Replay({}, list, k) = A
  <2>1. \A i \in DOMAIN list : list[i].revision <= h
    BY <1>1, <1>2, <1>3
  <2>2. Cut(list, k, h)
    BY <1>1, <1>2, <2>1, CutAtHead
  <2> QED
    BY <1>2, <2>2
<1>7. ASSUME NEW m \in 0..n
      PROVE  Replay({}, all, k + m) = Replay(A, got, m)
  <2>1. Replay({}, all, k) = A
    BY <1>3, <1>6, ReplayPrefix
  <2>2. Continues(got, all, k, m) /\ m \in Nat
    BY <1>2, <1>3 DEF Continues
  <2> QED
    BY <2>1, <2>2, ReplayStretch
<1>8. Genuine(all)
  <2> SUFFICES ASSUME NEW i \in 1..k+n
               PROVE  all[i].op = "write" <=> all[i].tuple \notin Replay({}, all, i-1)
    BY <1>2 DEF Genuine
  <2>1. CASE i <= k
    <3>1. i \in 1..k /\ i-1 \in Nat /\ \A j \in 1..i-1 : j \in 1..k
      BY <2>1
    <3>2. Replay({}, all, i-1) = Replay({}, list, i-1)
      BY <1>3, <3>1, ReplayPrefix
    <3>3. list[i].op = "write" <=> list[i].tuple \notin Replay({}, list, i-1)
      BY <1>1, <3>1 DEF Genuine
    <3> QED
      BY <1>3, <3>1, <3>2, <3>3
  <2>2. CASE ~(i <= k)
    <3>1. PICK m \in 1..n : i = k + m
      BY <1>2, <1>4, <2>2
    <3>2. m-1 \in 0..n /\ i-1 = k + (m-1)
      BY <1>2, <3>1
    <3>3. Replay({}, all, i-1) = Replay(A, got, m-1)
      BY <1>7, <3>2
    <3>4. all[i] = got[m]
      BY <1>3, <3>1
    <3> QED
      BY <3>3, <3>4
  <2> QED
    BY <2>1, <2>2
<1>9. ASSUME NEW q \in 0..h+1, NEW m, Cut(all, m, q)
      PROVE  Replay({}, all, m) = IF q = h + 1 THEN S ELSE snaps[q]
  <2>1. CASE q = h + 1
    <3>1. ASSUME NEW i \in DOMAIN all
          PROVE  all[i].revision <= q
      <4>1. all[i].revision \in 1..h \/ all[i].revision = h + 1
        BY <1>4
      <4> QED
        BY <1>2, <2>1, <4>1
    <3>2. q \in Nat
      BY <1>2, <2>1
    <3>4. m = Len(all)
      BY <1>2, <1>9, <3>1, <3>2, CutAtHead
    <3>3. n \in 0..n
      BY <1>2
    <3> QED
      BY <1>2, <1>7, <2>1, <3>3, <3>4
  <2>2. CASE q # h + 1
    <3>1. q \in 0..h
      BY <1>2, <2>2
    <3>2. Cut(list, m, q)
      BY <1>9, <3>1, GrownCuts
    <3>3. m \in 0..k
      BY <1>1, <3>2 DEF Cut
    <3>4. Replay({}, all, m) = Replay({}, list, m)
      BY <1>3, <3>3, ReplayPrefix
    <3> QED
      BY <2>2, <3>1, <3>2, <3>4
  <2> QED
    BY <2>1, <2>2
<1>10. LeadsTo(all, [q \in 0..h+1 |-> IF q = h + 1 THEN S ELSE snaps[q]])
  BY <1>9 DEF LeadsTo
<1> QED
  BY <1>5, <1>8, <1>10

\* A tenant's list as a step leaves it: the same under the same head, or
\* longer by changes under the next.
Listed(tn) ==
  \/ ChangesOf(tn)' = ChangesOf(tn) /\ head_revision(tn)' = head_revision(tn)
  \/ /\ head_revision(tn)' = head_revision(tn) + 1
     /\ \E n \in Nat : Grown(ChangesOf(tn)', ChangesOf(tn), n, head_revision(tn))

\* What was yielded, and where it was cut, stands in a longer list.
LEMMA GrownStretch ==
  ASSUME NEW list, NEW all, NEW n, NEW h, Grown(all, list, n, h), NEW got \in Seq(Change),
         NEW b, Stretch(list, got, b)
  PROVE  Stretch(all, got, b)
<1>1. PICK k \in Nat : k = Len(list)
  BY GrownFacts
<1>2. PICK m \in Nat : m = Len(got) /\ DOMAIN got = 1..m
  OBVIOUS
<1>3. n \in Nat /\ Len(all) = k + n /\ \A i \in 1..k : all[i] = list[i]
  BY <1>1, GrownFacts DEF Grown
<1>4. b \in Nat /\ b + m <= k /\ \A i \in 1..m : got[i] = list[b + i]
  BY <1>1, <1>2 DEF Stretch
<1>5. \A i \in 1..m : b + i \in 1..k
  BY <1>4
<1> QED
  BY <1>2, <1>3, <1>4, <1>5 DEF Stretch

\* A suspended generator, and one that has ended, are not disturbed by writes.
LEMMA WatchStable ==
  ASSUME MemoryInv, WatchInv, UNCHANGED watch, \A tn \in Tenant : Listed(tn)
  PROVE  WatchInv'
<1> SUFFICES ASSUME NEW w \in Watcher PROVE Watching(watch[w])'
  BY DEF WatchInv
<1>1. PICK g : g = watch[w] /\ g = watch'[w]
  OBVIOUS
<1>2. Watching(g)
  BY <1>1 DEF WatchInv
<1>3. CASE g.pc = "new"
  BY <1>1, <1>3 DEF Watching
<1>4. CASE g.pc # "new"
  <2>1. PICK list, all, h, next :
          /\ list = ChangesOf(g.tenant) /\ all = ChangesOf(g.tenant)'
          /\ h = head_revision(g.tenant) /\ next = head_revision(g.tenant)'
    OBVIOUS
  <2>2. /\ g \in Generator /\ g.after <= h
        /\ g.pc = "open" => Suspended(g, list)
        /\ g.pc = "ended" => Finished(g, list, h)
    BY <1>2, <1>4, <2>1 DEF Watching
  <2>3. g.tenant \in Tenant /\ g.after \in Nat /\ g.got \in Seq(Change)
    BY <2>2 DEF Generator
  <2>4. h \in Nat
    BY <2>1, <2>3, TenantFacts
  <2>5. \/ all = list /\ next = h
        \/ next = h + 1 /\ \E n \in Nat : Grown(all, list, n, h)
    BY <2>1, <2>3 DEF Listed
  <2>6. CASE all = list /\ next = h
    BY <1>1, <2>1, <2>2, <2>6 DEF Watching
  <2>7. ASSUME NEW n \in Nat, next = h + 1, Grown(all, list, n, h)
        PROVE  Watching(watch[w])'
    <3>1. g.after \in 0..h
      BY <2>2, <2>3, <2>4
    <3>2. \A b : Stretch(list, g.got, b) => Stretch(all, g.got, b)
      BY <2>3, <2>7, GrownStretch
    <3>3. \A q \in 0..h : \A m : Cut(list, m, q) => Cut(all, m, q)
      BY <2>7, GrownCuts
    <3>4. g.pc = "open" => Suspended(g, all)
      BY <2>2, <3>1, <3>2, <3>3 DEF Suspended
    <3>5. g.pc = "ended" => Finished(g, all, next)
      <4>1. 0..h \subseteq 0..next
        BY <2>4, <2>7
      <4> QED
        BY <2>2, <3>1, <3>2, <3>3, <4>1 DEF Finished
    <3>6. g.after <= next
      BY <2>3, <2>4, <2>7, <3>1
    <3> QED
      BY <1>1, <2>1, <2>2, <3>4, <3>5, <3>6 DEF Watching
  <2> QED
    BY <2>5, <2>6, <2>7
<1> QED
  BY <1>3, <1>4

\* A write that changes something.
LEMMA WriteReplay ==
  ASSUME MemoryInv, ReplayInv, NEW tn \in Tenant, NEW batch \in Batches, Write(tn, batch)
  PROVE  ReplayInv'
<1> DEFINE A == ActiveTuples(tn)
           h == head_revision(tn)
           S == Staged(batch, A)
           list == ChangesOf(tn)
           all == changes'[tn]
<1>1. batch \in Seq(Mutation) /\ ~HasUnknown(batch) /\ ~Conflicting(batch)
  BY MemoryBatches DEF Write
<1>2. /\ h \in Nat /\ A \in SUBSET Tuple /\ SnapshotAt(tn, h) = A /\ list \in Seq(Change)
      /\ \A i \in DOMAIN list : list[i].revision \in 1..h
  BY TenantFacts
<1>3. /\ Known' = Known \cup {tn} /\ revisions'[tn] = h + 1
      /\ snapshots'[tn] = [q \in 0..h+1 |-> IF q = h + 1 THEN S ELSE SnapshotAt(tn, q)]
      /\ \A t \in Known \ {tn} : /\ revisions'[t] = revisions[t]
                                 /\ snapshots'[t] = snapshots[t]
                                 /\ changes'[t] = changes[t]
  BY WriteEffect
<1>4. PICK n \in 1..Len(batch) : \E order \in [1..n -> 1..Len(batch)] :
        Lists(order, batch, A) /\ all = list \o Recorded(order, batch, h + 1)
  BY WriteEffect, Zenon
<1>5. PICK order \in [1..n -> 1..Len(batch)] :
        Lists(order, batch, A) /\ all = list \o Recorded(order, batch, h + 1)
  BY <1>4
<1>6. UNCHANGED watch /\ DOMAIN changes = Known
  BY DEF Write, MemoryInv, TypeOK
<1>7. /\ Sorted(list) /\ Genuine(list)
      /\ \A q \in 0..h : \A m : Cut(list, m, q) => SnapshotAt(tn, q) = Replay({}, list, m)
  BY ToldFacts
<1>8. ChangesOf(tn)' = all /\ head_revision(tn)' = h + 1
  BY <1>3 DEF ChangesOf, head_revision
<1> HIDE DEF A, h, S, list, all
<1>9. Extends(all, list, batch, order, n, h + 1)
  <2>1. h + 1 \in Nat
    BY <1>2
  <2> QED
    BY <1>1, <1>2, <1>5, <2>1, RecordedChanges
<1>10. n \in Nat /\ n > 0
  BY <1>1
<1>11. Grown(all, list, n, h)
  <2>1. \A i \in 1..n : all[Len(list) + i].revision = h + 1
    <3>1. \A i \in 1..n : ChangeAt(batch, order[i], h + 1).revision = h + 1
      BY DEF ChangeAt
    <3> QED
      BY <1>9, <3>1 DEF Extends
  <2> QED
    BY <1>2, <1>9, <1>10, <2>1 DEF Extends, Grown
<1>12. PICK got : got = [i \in 1..n |-> all[Len(list) + i]]
  OBVIOUS
<1>13. \A i \in 1..n : /\ got[i] = all[Len(list) + i]
                       /\ got[i] = ChangeAt(batch, order[i], h + 1)
  BY <1>9, <1>12 DEF Extends
<1>14. /\ Replay(A, got, n) = S
       /\ \A i \in 1..n : got[i].op = "write" <=> got[i].tuple \notin Replay(A, got, i-1)
  <2>1. PICK r : r = h + 1
    OBVIOUS
  <2>2. \A i \in 1..n : got[i] = ChangeAt(batch, order[i], r)
    BY <1>13, <2>1
  <2>3. A \in SUBSET Tuple /\ Lists(order, batch, A)
    BY <1>2, <1>5
  <2>4. /\ Replay(A, got, n) = Staged(batch, A)
        /\ \A i \in 1..n : got[i].op = "write" <=> got[i].tuple \notin Replay(A, got, i-1)
    BY <1>1, <1>10, <2>2, <2>3, RecordedLead
  <2> QED
    BY <2>4 DEF S
<1>15. PICK snaps : snaps = [q \in 0..h |-> SnapshotAt(tn, q)]
  OBVIOUS
<1>16. /\ \A q \in 0..h : \A m : Cut(list, m, q) => snaps[q] = Replay({}, list, m)
       /\ snaps[h] = A
  BY <1>2, <1>7, <1>15 DEF h
<1>17. snapshots'[tn] = [q \in 0..h+1 |-> IF q = h + 1 THEN S ELSE snaps[q]]
  <2>1. \A q \in 0..h+1 : q # h + 1 => q \in 0..h
    BY <1>2
  <2> QED
    BY <1>3, <1>15, <2>1
<1>18. Sorted(all) /\ Genuine(all) /\ LeadsTo(all, snapshots'[tn])
  <2>1. A \in SUBSET Tuple /\ Sorted(list) /\ Genuine(list)
    BY <1>2, <1>7
  <2>2. \A i \in 1..n : got[i] = all[Len(list) + i]
    BY <1>13
  <2>3. Brings(list, all, n, h, snaps, A, S, got)
    BY <1>10, <1>14, <1>16, <2>1, <2>2 DEF Brings
  <2>4. /\ Sorted(all) /\ Genuine(all)
        /\ LeadsTo(all, [q \in 0..h+1 |-> IF q = h + 1 THEN S ELSE snaps[q]])
    BY <1>11, <2>3, WriteTells
  <2> QED
    BY <1>17, <2>4
<1>19. ChangesTellSnapshots'
  <2>1. ASSUME NEW t \in Known'
        PROVE  /\ Sorted(changes'[t]) /\ Genuine(changes'[t])
               /\ LeadsTo(changes'[t], snapshots'[t])
    <3>1. CASE t = tn
      BY <1>18, <3>1 DEF all
    <3>2. CASE t # tn
      BY <1>3, <3>2 DEF ReplayInv, ChangesTellSnapshots
    <3> QED
      BY <3>1, <3>2
  <2> QED
    BY <2>1 DEF ChangesTellSnapshots
<1>20. ASSUME NEW t \in Tenant
       PROVE  Listed(t)
  <2>1. CASE t = tn
    BY <1>8, <1>10, <1>11, <2>1 DEF Listed, h, list, all
  <2>2. CASE t # tn
    BY <1>3, <2>2 DEF Listed, ChangesOf, head_revision
  <2> QED
    BY <2>1, <2>2
<1> QED
  BY <1>6, <1>19, <1>20, WatchStable DEF ReplayInv

\* One that changes nothing, or raises.
LEMMA QuietWriteReplay ==
  ASSUME MemoryInv, ReplayInv, NEW tn \in Tenant, EnsureTenant(tn), UNCHANGED watch
  PROVE  ReplayInv'
<1>1. /\ Known' = Known \cup {tn}
      /\ \A t \in Known : /\ revisions'[t] = revisions[t] /\ snapshots'[t] = snapshots[t]
                          /\ changes'[t] = changes[t]
      /\ tn \notin Known => /\ revisions'[tn] = 0 /\ snapshots'[tn] = [q \in {0} |-> {}]
                            /\ changes'[tn] = <<>>
  BY EnsuredInv
<1>2. ASSUME tn \notin Known
      PROVE  /\ Sorted(changes'[tn]) /\ Genuine(changes'[tn])
             /\ LeadsTo(changes'[tn], snapshots'[tn])
  <2>1. DOMAIN <<>> = {} /\ Len(<<>>) = 0 /\ (\A m \in 0..0 : m = 0) /\ 1..0 = {}
    OBVIOUS
  <2>2. Replay({}, <<>>, 0) = {}
    BY <2>1 DEF Replay
  <2>3. changes'[tn] = <<>> /\ snapshots'[tn] = [q \in {0} |-> {}]
    BY <1>1, <1>2
  <2> QED
    BY <2>1, <2>2, <2>3 DEF Sorted, Genuine, LeadsTo
<1>3. ChangesTellSnapshots'
  BY <1>1, <1>2 DEF ReplayInv, ChangesTellSnapshots
<1>4. ASSUME NEW t \in Tenant
      PROVE  Listed(t)
  BY <1>1 DEF Listed, ChangesOf, head_revision
<1> QED
  BY <1>3, <1>4, WatchStable DEF ReplayInv

\* A generator that runs on to its next change, or to the end, still yields a
\* stretch of the list that starts after its revision.
LEMMA AdvancedWatching ==
  ASSUME MemoryInv, ReplayInv, NEW g \in Generator, g.pc = "open",
         g.after <= head_revision(g.tenant),
         \/ g.pos = 0 /\ g.got = <<>>
         \/ Suspended(g, ChangesOf(g.tenant))
  PROVE  Watching(Advanced(g))
<1>1. PICK list, h : list = ChangesOf(g.tenant) /\ h = head_revision(g.tenant)
  OBVIOUS
<1>2. /\ g.tenant \in Tenant /\ g.after \in Nat /\ g.pos \in Nat /\ g.got \in Seq(Change)
      /\ g.last \in Nat
  BY DEF Generator
<1>3. /\ h \in Nat /\ list \in Seq(Change) /\ Sorted(list)
      /\ \A i \in DOMAIN list : list[i].revision \in 1..h
  BY <1>1, <1>2, TenantFacts, ToldFacts
<1>4. PICK k \in Nat : k = Len(list) /\ DOMAIN list = 1..k
  BY <1>3
<1>5. PICK m \in Nat : m = Len(g.got) /\ DOMAIN g.got = 1..m
  BY <1>2
<1>6. \/ g.pos = 0 /\ m = 0 /\ g.got = <<>>
      \/ /\ m > 0 /\ g.pos - m \in Nat /\ g.pos <= k
         /\ \A i \in 1..m : g.got[i] = list[g.pos - m + i]
         /\ Cut(list, g.pos - m, g.after)
  <2>1. CASE g.pos = 0 /\ g.got = <<>>
    <3>1. Len(<<>>) = 0
      OBVIOUS
    <3> QED
      BY <1>5, <2>1, <3>1
  <2>2. CASE Suspended(g, list)
    <3>1. /\ m > 0 /\ g.pos - m \in Nat /\ g.pos - m + m <= k
          /\ \A i \in 1..m : g.got[i] = list[g.pos - m + i]
          /\ Cut(list, g.pos - m, g.after)
      BY <1>4, <1>5, <2>2 DEF Suspended, Stretch
    <3> QED
      BY <1>2, <3>1
  <2> QED
    BY <1>1, <2>1, <2>2
<1>7. \A i \in 1..k : list[i].revision \in Nat
  BY <1>3, <1>4
<1>8. PICK due : due = {i \in g.pos + 1..k : list[i].revision > g.after}
  OBVIOUS
<1>9. Advanced(g) = IF due = {} THEN [g EXCEPT !.pc = "ended", !.last = h]
                    ELSE LET i == CHOOSE x \in due : \A y \in due : x <= y
                         IN [g EXCEPT !.pos = i, !.got = Append(@, list[i])]
  BY <1>1, <1>4, <1>8 DEF Advanced
<1>10. CASE due = {}
  <2>1. PICK new : new = [g EXCEPT !.pc = "ended", !.last = h]
    OBVIOUS
  <2>2. new = [pc |-> "ended", tenant |-> g.tenant, after |-> g.after, pos |-> g.pos,
               got |-> g.got, last |-> h]
    BY <2>1 DEF Generator
  <2>3. /\ new \in Generator /\ new.pc = "ended" /\ new.tenant = g.tenant
        /\ new.after = g.after /\ new.got = g.got /\ new.last = h
    BY <1>2, <1>3, <2>2 DEF Generator
  <2>4. Cut(list, k, h)
    <3>1. \A i \in DOMAIN list : list[i].revision <= h
      BY <1>3
    <3> QED
      BY <1>3, <1>4, <3>1, CutAtHead
  <2>5. \A i \in 1..k : i > g.pos => list[i].revision <= g.after
    BY <1>2, <1>7, <1>8, <1>10
  <2>6. \E b \in Nat : b + m = k /\ Stretch(list, g.got, b) /\ Cut(list, b, g.after)
    <3>1. CASE g.pos = 0 /\ m = 0
      <4>1. \A i \in DOMAIN list : list[i].revision <= g.after
        BY <1>4, <2>5, <3>1
      <4>2. Cut(list, k, g.after)
        BY <1>2, <1>3, <1>4, <4>1, CutAtHead
      <4>3. Stretch(list, g.got, k)
        BY <1>4, <1>5, <3>1 DEF Stretch
      <4> QED
        BY <3>1, <4>2, <4>3
    <3>2. CASE /\ m > 0 /\ g.pos - m \in Nat /\ g.pos <= k
               /\ \A i \in 1..m : g.got[i] = list[g.pos - m + i]
               /\ Cut(list, g.pos - m, g.after)
      <4>1. g.pos = k
        <5> SUFFICES ASSUME g.pos # k PROVE FALSE
          OBVIOUS
        <5>1. g.pos + 1 \in 1..k /\ g.pos + 1 > g.pos
          BY <1>2, <3>2
        <5>2. list[g.pos + 1].revision <= g.after
          BY <2>5, <5>1
        <5>3. g.pos + 1 <= g.pos - m
          BY <1>4, <3>2, <5>1, <5>2 DEF Cut
        <5> QED
          BY <1>2, <3>2, <5>3
      <4>2. Stretch(list, g.got, g.pos - m)
        BY <1>2, <1>4, <1>5, <3>2 DEF Stretch
      <4> QED
        BY <1>2, <3>2, <4>1, <4>2
    <3> QED
      BY <1>6, <3>1, <3>2
  <2>7. Finished(new, list, h)
    <3>1. h \in 0..h
      BY <1>3
    <3> QED
      BY <1>5, <2>3, <2>4, <2>6, <3>1 DEF Finished
  <2>8. Watching(new)
    BY <1>1, <2>3, <2>7 DEF Watching
  <2> QED
    BY <1>9, <1>10, <2>1, <2>8
<1>11. CASE due # {}
  <2>1. \A i \in due : i \in 1..k /\ i > g.pos /\ list[i].revision > g.after
    BY <1>2, <1>8
  <2>2. \E x \in due : \A y \in due : x <= y
    <3> DEFINE less == OpToRel(<, Nat)
    <3>1. due \subseteq Nat
      BY <2>1
    <3>2. IsWellFoundedOn(less, Nat)
      BY NatLessThanWellFounded
    <3> HIDE DEF less
    <3>3. PICK x \in due : \A y \in due : ~(<<y, x>> \in less)
      BY <1>11, <3>1, <3>2, WFMin
    <3>4. \A y \in due : ~(y < x)
      BY <3>1, <3>3 DEF less, OpToRel
    <3> QED
      BY <3>1, <3>4
  <2>3. PICK i : i = CHOOSE x \in due : \A y \in due : x <= y
    OBVIOUS
  <2>4. i \in due /\ \A y \in due : i <= y
    BY <2>2, <2>3
  <2>5. i \in 1..k /\ i > g.pos /\ list[i].revision > g.after
    BY <2>1, <2>4
  <2>6. \A j \in 1..k : j > g.pos /\ j < i => list[j].revision <= g.after
    BY <1>2, <1>7, <1>8, <2>4
  <2>7. Append(g.got, list[i]) \in Seq(Change) /\ Len(Append(g.got, list[i])) = m + 1
        /\ (\A j \in 1..m : Append(g.got, list[i])[j] = g.got[j])
        /\ Append(g.got, list[i])[m + 1] = list[i]
    <3>1. list[i] \in Change
      BY <1>3, <1>4, <2>5
    <3> QED
      BY <1>2, <1>5, <3>1, AppendProperties
  <2>8. PICK got : got = Append(g.got, list[i])
    OBVIOUS
  <2>9. got \in Seq(Change) /\ Len(got) = m + 1 /\ DOMAIN got = 1..m+1
        /\ (\A j \in 1..m : got[j] = g.got[j]) /\ got[m + 1] = list[i]
    BY <2>7, <2>8
  <2>10. PICK new : new = [g EXCEPT !.pos = i, !.got = Append(@, list[i])]
    OBVIOUS
  <2>11. new = [pc |-> "open", tenant |-> g.tenant, after |-> g.after, pos |-> i,
                got |-> got, last |-> g.last]
    BY <2>8, <2>10 DEF Generator
  <2>12. /\ new \in Generator /\ new.pc = "open" /\ new.tenant = g.tenant
         /\ new.after = g.after /\ new.got = got /\ new.pos = i
    BY <1>2, <2>5, <2>9, <2>11 DEF Generator
  <2>13. \A j \in 1..k : j >= i => list[j].revision > g.after
    <3>1. \A j \in 1..k : j > i => list[i].revision <= list[j].revision
      BY <1>3, <1>4, <2>5 DEF Sorted
    <3> QED
      BY <1>2, <1>7, <2>5, <3>1
  <2>14. /\ i - (m + 1) \in Nat /\ Cut(list, i - (m + 1), g.after)
         /\ \A j \in 1..m+1 : got[j] = list[i - (m + 1) + j]
    <3>1. CASE g.pos = 0 /\ m = 0
      <4>1. \A j \in 1..k : j <= i - 1 <=> list[j].revision <= g.after
        BY <1>2, <1>7, <2>5, <2>6, <2>13, <3>1
      <4>2. Cut(list, i - 1, g.after)
        BY <1>4, <2>5, <4>1 DEF Cut
      <4>3. \A j \in 1..1 : got[j] = list[i - 1 + j]
        BY <2>5, <2>9, <3>1
      <4> QED
        BY <2>5, <3>1, <4>2, <4>3
    <3>2. CASE /\ m > 0 /\ g.pos - m \in Nat /\ g.pos <= k
               /\ \A j \in 1..m : g.got[j] = list[g.pos - m + j]
               /\ Cut(list, g.pos - m, g.after)
      <4>1. i = g.pos + 1
        <5> SUFFICES ASSUME i # g.pos + 1 PROVE FALSE
          OBVIOUS
        <5>1. g.pos + 1 \in 1..k /\ g.pos + 1 > g.pos /\ g.pos + 1 < i
          BY <1>2, <2>5
        <5>2. list[g.pos + 1].revision <= g.after
          BY <2>6, <5>1
        <5>3. g.pos + 1 <= g.pos - m
          BY <1>4, <3>2, <5>1, <5>2 DEF Cut
        <5> QED
          BY <1>2, <3>2, <5>3
      <4>2. i - (m + 1) = g.pos - m
        BY <1>2, <4>1
      <4>3. ASSUME NEW j \in 1..m+1
            PROVE  got[j] = list[g.pos - m + j]
        <5>1. CASE j = m + 1
          <6>1. g.pos - m + j = i
            BY <1>2, <4>1, <5>1
          <6> QED
            BY <2>9, <5>1, <6>1
        <5>2. CASE j # m + 1
          BY <2>9, <3>2, <5>2
        <5> QED
          BY <5>1, <5>2
      <4> QED
        BY <3>2, <4>2, <4>3
    <3> QED
      BY <1>6, <3>1, <3>2
  <2>15. Suspended(new, list)
    <3>1. i - (m + 1) + (m + 1) <= k /\ i \in Nat /\ m + 1 > 0
      BY <2>5
    <3> QED
      BY <1>4, <2>9, <2>12, <2>14, <3>1 DEF Suspended, Stretch
  <2>16. Watching(new)
    BY <1>1, <2>12, <2>15 DEF Watching
  <2> QED
    BY <1>9, <1>11, <2>3, <2>10, <2>16
<1> QED
  BY <1>10, <1>11

LEMMA WatchStep ==
  ASSUME MemoryInv, ReplayInv, NEW w \in Watcher,
         \/ \E tn \in Tenant : \E after \in 0..head_revision(tn) + 1 :
              StartWatch(w, tn, after)
         \/ ResumeWatch(w)
  PROVE  ReplayInv'
<1>1. UNCHANGED store
  BY DEF StartWatch, ResumeWatch
<1>2. \E g \in Generator :
        /\ watch' = [watch EXCEPT ![w] = Advanced(g)] /\ g.pc = "open"
        /\ g.after <= head_revision(g.tenant)
        /\ \/ g.pos = 0 /\ g.got = <<>>
           \/ Suspended(g, ChangesOf(g.tenant))
  <2>1. ASSUME NEW tn \in Tenant, NEW after \in 0..head_revision(tn) + 1,
               StartWatch(w, tn, after)
        PROVE  \E g \in Generator :
                 /\ watch' = [watch EXCEPT ![w] = Advanced(g)] /\ g.pc = "open"
                 /\ g.after <= head_revision(g.tenant)
                 /\ g.pos = 0 /\ g.got = <<>>
    <3>1. PICK g : g = [pc |-> "open", tenant |-> tn, after |-> after, pos |-> 0,
                        got |-> <<>>, last |-> 0]
      OBVIOUS
    <3>2. after \in Nat /\ <<>> \in Seq(Change)
      BY TenantFacts
    <3>3. /\ g \in Generator /\ g.pc = "open" /\ g.tenant = tn /\ g.after = after
          /\ g.pos = 0 /\ g.got = <<>>
      BY <3>1, <3>2 DEF Generator
    <3>4. watch' = [watch EXCEPT ![w] = Advanced(g)] /\ after <= head_revision(tn)
      BY <2>1, <3>1 DEF StartWatch
    <3> QED
      BY <3>3, <3>4
  <2>2. ASSUME ResumeWatch(w)
        PROVE  \E g \in Generator :
                 /\ watch' = [watch EXCEPT ![w] = Advanced(g)] /\ g.pc = "open"
                 /\ g.after <= head_revision(g.tenant)
                 /\ Suspended(g, ChangesOf(g.tenant))
    <3>1. PICK g : g = watch[w]
      OBVIOUS
    <3>2. Watching(g)
      BY <3>1 DEF ReplayInv, WatchInv
    <3>3. g.pc = "open" /\ watch' = [watch EXCEPT ![w] = Advanced(g)]
      BY <2>2, <3>1 DEF ResumeWatch
    <3>4. g \in Generator /\ g.after <= head_revision(g.tenant)
          /\ Suspended(g, ChangesOf(g.tenant))
      BY <3>2, <3>3 DEF Watching
    <3> QED
      BY <3>3, <3>4
  <2> QED
    BY <2>1, <2>2
<1>3. PICK g \in Generator :
        /\ watch' = [watch EXCEPT ![w] = Advanced(g)] /\ g.pc = "open"
        /\ g.after <= head_revision(g.tenant)
        /\ \/ g.pos = 0 /\ g.got = <<>>
           \/ Suspended(g, ChangesOf(g.tenant))
  BY <1>2
<1>4. Watching(Advanced(g))
  BY <1>3, AdvancedWatching
<1>5. /\ DOMAIN watch' = Watcher
      /\ \A v \in Watcher : watch'[v] = IF v = w THEN Advanced(g) ELSE watch[v]
  BY <1>3 DEF ReplayInv, WatchInv
<1>6. ASSUME NEW v \in Watcher
      PROVE  Watching(watch'[v])
  BY <1>4, <1>5 DEF ReplayInv, WatchInv
<1>7. ASSUME NEW v \in Watcher
      PROVE  Watching(watch[v])'
  <2>1. /\ \A t : ChangesOf(t)' = ChangesOf(t)
        /\ \A t : head_revision(t)' = head_revision(t)
    BY <1>1 DEF store, ChangesOf, head_revision, Known
  <2> QED
    BY <1>6, <2>1 DEF Watching
<1>8. WatchInv'
  BY <1>5, <1>7 DEF WatchInv
<1>9. ChangesTellSnapshots'
  BY <1>1 DEF store, ReplayInv, ChangesTellSnapshots, Known
<1> QED
  BY <1>8, <1>9 DEF ReplayInv

LEMMA ReplayStep ==
  ASSUME MemoryInv, ReplayInv, [Next]_vars
  PROVE  ReplayInv'
<1>1. CASE UNCHANGED vars
  <2>1. UNCHANGED <<revisions, snapshots, changes, watch>>
    BY <1>1 DEF vars, store
  <2> QED
    BY <2>1 DEF ReplayInv, ChangesTellSnapshots, WatchInv, Watching, Known, ChangesOf,
                head_revision
<1>2. ASSUME NEW w \in Watcher,
             \/ \E tn \in Tenant : \E after \in 0..head_revision(tn) + 1 :
                  StartWatch(w, tn, after)
             \/ ResumeWatch(w)
      PROVE  ReplayInv'
  BY <1>2, WatchStep
<1>3. ASSUME NEW tn \in Tenant, NEW batch \in Batches, Write(tn, batch)
      PROVE  ReplayInv'
  BY <1>3, WriteReplay
<1>4. ASSUME NEW tn \in Tenant, NEW batch \in Batches,
             WriteNothing(tn, batch) \/ WriteUnknown(tn, batch)
      PROVE  ReplayInv'
  <2>1. EnsureTenant(tn) /\ UNCHANGED watch
    BY <1>4 DEF WriteNothing, WriteUnknown
  <2> QED
    BY <2>1, QuietWriteReplay
<1> QED
  BY <1>1, <1>2, <1>3, <1>4 DEF Next

\* What a watch that has ended yielded leads from the snapshot it started after
\* to the snapshot of the head it met at its end, each change real where it
\* stands, although the list grew while the generator was suspended.
THEOREM WatchesReplay == Spec => []WatchReplaysToEnd
<1>1. MemoryInv /\ ReplayInv => WatchReplaysToEnd
  <2> SUFFICES ASSUME MemoryInv, ReplayInv, NEW w \in Watcher, watch[w].pc = "ended"
               PROVE  LET g == watch[w]
                          start == SnapshotAt(g.tenant, g.after) IN
                      /\ Replay(start, g.got, Len(g.got)) = SnapshotAt(g.tenant, g.last)
                      /\ \A i \in DOMAIN g.got :
                           (g.got[i].op = "write") <=>
                             (g.got[i].tuple \notin Replay(start, g.got, i-1))
    BY DEF WatchReplaysToEnd
  <2>1. PICK g : g = watch[w]
    OBVIOUS
  <2>2. PICK list, h : list = ChangesOf(g.tenant) /\ h = head_revision(g.tenant)
    OBVIOUS
  <2>3. g \in Generator /\ g.after <= h /\ Finished(g, list, h)
    BY <2>1, <2>2 DEF ReplayInv, WatchInv, Watching
  <2>4. g.tenant \in Tenant /\ g.after \in Nat /\ g.got \in Seq(Change)
    BY <2>3 DEF Generator
  <2>5. /\ h \in Nat /\ Genuine(list) /\ list \in Seq(Change)
        /\ \A q \in 0..h : \A m :
             Cut(list, m, q) => SnapshotAt(g.tenant, q) = Replay({}, list, m)
    BY <2>2, <2>4, TenantFacts, ToldFacts
  <2>6. g.after \in 0..h /\ g.last \in 0..h
    BY <2>3, <2>4, <2>5 DEF Finished
  <2>7. PICK b \in Nat : /\ Stretch(list, g.got, b)
                         /\ Cut(list, b, g.after) /\ Cut(list, b + Len(g.got), g.last)
    BY <2>3 DEF Finished
  <2>8. PICK m \in Nat : m = Len(g.got) /\ DOMAIN g.got = 1..m
    BY <2>4
  <2>9. PICK k \in Nat : k = Len(list) /\ DOMAIN list = 1..k
    BY <2>5
  <2>10. b + m <= k /\ \A i \in 1..m : g.got[i] = list[b + i]
    BY <2>7, <2>8, <2>9 DEF Stretch
  <2>11. PICK start : start = SnapshotAt(g.tenant, g.after)
    OBVIOUS
  <2>12. ASSUME NEW n \in 0..m
         PROVE  Replay(start, g.got, n) = Replay({}, list, b + n)
    <3>1. start = Replay({}, list, b)
      BY <2>5, <2>6, <2>7, <2>11
    <3>2. n \in Nat /\ Continues(g.got, list, b, n)
      BY <2>10 DEF Continues
    <3> QED
      BY <3>1, <3>2, ReplayStretch
  <2>13. Replay(start, g.got, m) = SnapshotAt(g.tenant, g.last)
    <3>1. SnapshotAt(g.tenant, g.last) = Replay({}, list, b + m)
      BY <2>5, <2>6, <2>7, <2>8
    <3>2. m \in 0..m
      OBVIOUS
    <3>3. Replay(start, g.got, m) = Replay({}, list, b + m)
      BY <2>12, <3>2
    <3> QED
      BY <3>1, <3>3
  <2>14. ASSUME NEW i \in 1..m
         PROVE  g.got[i].op = "write" <=> g.got[i].tuple \notin Replay(start, g.got, i-1)
    <3>1. b + i \in DOMAIN list /\ b + i - 1 = b + (i - 1) /\ i - 1 \in 0..m
      BY <2>9, <2>10
    <3>2. list[b + i].op = "write" <=>
            list[b + i].tuple \notin Replay({}, list, b + (i - 1))
      BY <2>5, <3>1 DEF Genuine
    <3> QED
      BY <2>10, <2>12, <3>1, <3>2
  <2> QED
    BY <2>1, <2>8, <2>11, <2>13, <2>14
<1>2. MemoryInv /\ ReplayInv /\ [Next]_vars => ReplayInv'
  BY ReplayStep
<1> QED
  BY <1>1, <1>2, ReplayInit, MemoryInvariant, PTL DEF Spec

===============================================================================
