------------------------ MODULE SqliteRelationsProofs -------------------------
(***************************************************************************)
(* SQLiteRelationRepository, for any number of connections, tenants,       *)
(* tuples and batches.  BEGIN IMMEDIATE lets one transaction at a time be  *)
(* open, also one that an interrupted write has left behind, so what it    *)
(* has staged stays a change of what is active until it is committed or    *)
(* rolled back: every commit is one of SqlReadsProofs (ConnCommits).       *)
(***************************************************************************)
EXTENDS SqliteRelations, SqlReadsProofs

Transaction ==
  [pc : {"idle", "write", "head"}, inTransaction : BOOLEAN, tenant : Tenant \cup {Null},
   batch : Seq(Mutation), next : Nat \ {0}, revision : Nat, inserted : SUBSET Tuple,
   ended : SUBSET Tuple, floor : Nat]

Result ==
  [tenant : Tenant \cup {Null}, batch : Seq(Mutation), effective : BOOLEAN,
   floor : Nat, revision : Nat]

\* The mutations of a batch hold in a set of active tuples.
HoldIn(batch, active) ==
  Touched(batch) \subseteq active /\ Deleted(batch) \cap active = {}

OneTransaction ==
  \A c, d \in Conn : conn[c].inTransaction /\ conn[d].inTransaction => c = d

\* What is staged is what would be committed, interrupted or not.
Staged(rec) ==
  rec.inTransaction =>
    /\ rec.tenant \in Tenant
    /\ Touched(rec.batch) \cap Deleted(rec.batch) = {}
    /\ rec.inserted \subseteq Touched(rec.batch) \ ActiveTuples(rows, rec.tenant)
    /\ rec.ended \subseteq Deleted(rec.batch) \cap ActiveTuples(rows, rec.tenant)
    /\ rec.revision = Null => rec.inserted = {} /\ rec.ended = {}
    /\ rec.revision # Null => rec.revision = HeadRevision(rec.tenant) + 1

\* What a transaction sees as active (Active of its connection).
SeenBy(rec) == (ActiveTuples(rows, rec.tenant) \ rec.ended) \cup rec.inserted

\* The mutations that have been dealt with hold in what the transaction sees.
Working(rec) ==
  rec.pc = "write" =>
    /\ rec.inTransaction
    /\ rec.floor <= HeadRevision(rec.tenant)
    /\ \A i \in DOMAIN rec.batch : i < rec.next =>
         /\ rec.batch[i].op = "write"  => rec.batch[i].tuple \in SeenBy(rec)
         /\ rec.batch[i].op = "delete" => rec.batch[i].tuple \notin SeenBy(rec)

\* A write that found nothing to do held when it looked.
Waiting(rec) ==
  rec.pc = "head" =>
    /\ ~rec.inTransaction
    /\ rec.tenant \in Tenant
    /\ rec.revision = Null
    /\ \E r \in rec.floor..HeadRevision(rec.tenant) :
         HoldIn(rec.batch, VisibleAt(rows, rec.tenant, r))

Kept(res) ==
  res = NoResult \/
    /\ res.tenant \in Tenant
    /\ res.revision <= HeadRevision(res.tenant)
    /\ IF res.effective THEN HoldIn(res.batch, VisibleAt(rows, res.tenant, res.revision))
       ELSE \E r \in res.floor..res.revision :
              HoldIn(res.batch, VisibleAt(rows, res.tenant, r))

ConnTypes ==
  /\ conn \in [Conn -> Transaction]
  /\ result \in [Conn -> Result]
  /\ writes \in 0..MaxWrites
  /\ faults \in 0..MaxFaults

ConnInv ==
  /\ TablesInv /\ ConnTypes /\ OneTransaction
  /\ \A c \in Conn :
       /\ Staged(conn[c]) /\ Working(conn[c]) /\ Waiting(conn[c])
       /\ Kept(result[c])

------------------------------------------------------------------------------

\* A step of connection c.
ConnStep(c) ==
  \/ \E tn \in Tenant, batch \in Batches : BeginImmediate(c, tn, batch)
  \/ WriteMutation(c) \/ DeleteMutation(c) \/ UnknownOperation(c)
  \/ Commit(c) \/ ReadHead(c) \/ Interrupt(c) \/ Close(c)

LEMMA QuietSound ==
  /\ Quiet \in Transaction /\ ~Quiet.inTransaction
  /\ Staged(Quiet) /\ Working(Quiet) /\ Waiting(Quiet)
<1>1. Quiet \in Transaction
  BY DEF Quiet, Transaction, Null
<1> QED
  BY <1>1 DEF Quiet, Staged, Working, Waiting

LEMMA ConnInit == Init => ConnInv
<1> SUFFICES ASSUME Init PROVE ConnInv
  OBVIOUS
<1>1. TablesInv
  BY TablesInit DEF Init
<1>2. \A c \in Conn : conn[c] = Quiet /\ result[c] = NoResult
  BY DEF Init
<1>3. ConnTypes
  <2>1. NoResult \in Result
    BY DEF NoResult, Result, Null
  <2> QED
    BY <2>1, QuietSound, SqliteBounds DEF Init, ConnTypes
<1> QED
  BY <1>1, <1>2, <1>3, QuietSound DEF ConnInv, OneTransaction, Kept

\* A step of one connection that writes nothing to the tables stands or falls
\* with the record it leaves.
LEMMA OneConnection ==
  ASSUME ConnInv, NEW c \in Conn, NEW rec \in Transaction,
         conn' = [conn EXCEPT ![c] = rec], UNCHANGED database,
         rec.inTransaction => \A d \in Conn \ {c} : ~conn[d].inTransaction,
         Staged(rec), Working(rec), Waiting(rec),
         writes' \in 0..MaxWrites, faults' \in 0..MaxFaults,
         NEW res \in Result, Kept(res), result' = [result EXCEPT ![c] = res]
  PROVE  ConnInv'
<1>1. TablesInv'
  BY TablesKept DEF ConnInv, TablesStep
<1>2. ConnTypes'
  BY DEF ConnInv, ConnTypes
<1>3. \A d \in Conn : conn'[d] = IF d = c THEN rec ELSE conn[d]
  BY DEF ConnInv, ConnTypes
<1>4. \A d \in Conn : result'[d] = IF d = c THEN res ELSE result[d]
  BY DEF ConnInv, ConnTypes
<1>5. OneTransaction'
  BY <1>3 DEF ConnInv, OneTransaction
<1>6. rows' = rows /\ revisions' = revisions
  BY DEF database
<1>7. ASSUME NEW d \in Conn
      PROVE  /\ Staged(conn'[d]) /\ Working(conn'[d]) /\ Waiting(conn'[d])
             /\ Kept(result'[d])
  BY <1>3, <1>4 DEF ConnInv
<1>8. ASSUME NEW d \in Conn
      PROVE  /\ Staged(conn[d])' /\ Working(conn[d])' /\ Waiting(conn[d])'
             /\ Kept(result[d])'
  <2>1. Staged(conn[d])'
    BY <1>6, <1>7 DEF Staged, HeadRevision
  <2>2. Working(conn[d])'
    BY <1>6, <1>7 DEF Working, SeenBy, HeadRevision
  <2>3. Waiting(conn[d])'
    BY <1>6, <1>7 DEF Waiting, HeadRevision
  <2>4. Kept(result[d])'
    BY <1>6, <1>7 DEF Kept, HeadRevision
  <2> QED
    BY <2>1, <2>2, <2>3, <2>4
<1> QED
  BY <1>1, <1>2, <1>5, <1>8 DEF ConnInv

\* The same where the call goes on.
LEMMA CallGoesOn ==
  ASSUME ConnInv, NEW c \in Conn, NEW rec \in Transaction,
         conn' = [conn EXCEPT ![c] = rec], UNCHANGED <<database, result>>,
         rec.inTransaction => \A d \in Conn \ {c} : ~conn[d].inTransaction,
         Staged(rec), Working(rec), Waiting(rec),
         writes' \in 0..MaxWrites, faults' \in 0..MaxFaults
  PROVE  ConnInv'
<1>1. result' = [result EXCEPT ![c] = result[c]] /\ result[c] \in Result /\ Kept(result[c])
  BY DEF ConnInv, ConnTypes
<1> QED
  BY <1>1, OneConnection DEF database

LEMMA BeginSound ==
  ASSUME ConnInv, NEW c \in Conn, NEW tn \in Tenant, NEW batch \in Batches,
         BeginImmediate(c, tn, batch)
  PROVE  ConnInv'
<1> DEFINE rec == [pc |-> "write", inTransaction |-> TRUE, tenant |-> tn,
                   batch |-> batch, next |-> 1, revision |-> Null, inserted |-> {},
                   ended |-> {}, floor |-> HeadRevision(tn)]
<1>1. HeadRevision(tn) \in Nat /\ batch \in Seq(Mutation)
  BY HeadOfNumbered, SqliteBatches DEF ConnInv, TablesInv
<1>2. rec \in Transaction
  BY <1>1 DEF Transaction, Null
<1>3. conn' = [conn EXCEPT ![c] = rec] /\ UNCHANGED <<database, result, faults>>
  <2>1. PICK new :
          /\ conn' = [conn EXCEPT ![c] = new]
          /\ new = [Quiet EXCEPT !.pc = "write", !.inTransaction = TRUE, !.tenant = tn,
                                 !.batch = batch, !.floor = HeadRevision(tn)]
    BY DEF BeginImmediate
  <2>2. new = rec
    BY <2>1 DEF Quiet
  <2> QED
    BY <2>1, <2>2 DEF BeginImmediate
<1>4. Staged(rec) /\ Waiting(rec)
  BY DEF Staged, Waiting, BeginImmediate, Conflicting
<1>5. Working(rec)
  BY <1>1 DEF Working
<1>6. writes' \in 0..MaxWrites /\ faults' \in 0..MaxFaults
  BY SqliteBounds DEF BeginImmediate, ConnInv, ConnTypes
<1>7. \A d \in Conn \ {c} : ~conn[d].inTransaction
  BY DEF BeginImmediate
<1> HIDE DEF rec
<1> QED
  BY <1>2, <1>3, <1>4, <1>5, <1>6, <1>7, CallGoesOn

\* What is known of a connection in the middle of its batch.
LEMMA InBatchFacts ==
  ASSUME ConnInv, NEW c \in Conn, conn[c].pc = "write"
  PROVE  /\ conn[c] \in Transaction /\ conn[c].inTransaction
         /\ conn[c].tenant \in Tenant /\ conn[c].batch \in Seq(Mutation)
         /\ \A d \in Conn \ {c} : ~conn[d].inTransaction
         /\ HeadRevision(conn[c].tenant) \in Nat
         /\ Staged(conn[c]) /\ Working(conn[c])
         /\ Active(c) = SeenBy(conn[c])
         /\ InBatch(c) =>
              LET m == conn[c].batch[conn[c].next] IN
              /\ m \in Mutation /\ m.tuple \in Tuple
              /\ m.op = "write"  => m.tuple \in Touched(conn[c].batch)
              /\ m.op = "delete" => m.tuple \in Deleted(conn[c].batch)
<1>1. conn[c] \in Transaction
  BY DEF ConnInv, ConnTypes
<1>2. Staged(conn[c]) /\ Working(conn[c])
  BY DEF ConnInv
<1>3. conn[c].inTransaction /\ conn[c].tenant \in Tenant
  BY <1>2 DEF Working, Staged
<1>4. HeadRevision(conn[c].tenant) \in Nat
  BY <1>3, HeadOfNumbered DEF ConnInv, TablesInv
<1>5. conn[c].batch \in Seq(Mutation)
  BY <1>1 DEF Transaction
<1>6. ASSUME InBatch(c)
      PROVE  LET m == conn[c].batch[conn[c].next] IN
              /\ m \in Mutation /\ m.tuple \in Tuple
              /\ m.op = "write"  => m.tuple \in Touched(conn[c].batch)
              /\ m.op = "delete" => m.tuple \in Deleted(conn[c].batch)
  <2> DEFINE m == conn[c].batch[conn[c].next]
  <2>1. conn[c].next \in DOMAIN conn[c].batch
    BY <1>6 DEF InBatch
  <2>2. m \in Mutation
    BY <1>5, <2>1
  <2>3. m.tuple \in Tuple /\ m = [tuple |-> m.tuple, op |-> m.op]
    BY <2>2 DEF Mutation
  <2> QED
    BY <2>1, <2>2, <2>3 DEF Touched, Deleted, WithOp
<1> QED
  BY <1>1, <1>2, <1>3, <1>4, <1>5, <1>6 DEF ConnInv, OneTransaction, Active, SeenBy

\* A mutation that is dealt with leaves the transaction as it should be.
LEMMA MutationSound ==
  ASSUME ConnInv, NEW c \in Conn, InBatch(c), NEW rec \in Transaction,
         conn' = [conn EXCEPT ![c] = rec],
         UNCHANGED <<database, result, writes, faults>>,
         rec.pc = "write" /\ rec.inTransaction, rec.tenant = conn[c].tenant,
         rec.batch = conn[c].batch, rec.floor = conn[c].floor,
         rec.next = conn[c].next + 1,
         Staged(rec),
         LET m == conn[c].batch[conn[c].next] IN
           /\ m.op \in {"write", "delete"}
           /\ \A t \in Tuple : t # m.tuple =>
                (t \in SeenBy(rec) <=> t \in SeenBy(conn[c]))
           /\ m.op = "write"  => m.tuple \in SeenBy(rec)
           /\ m.op = "delete" => m.tuple \notin SeenBy(rec)
  PROVE  ConnInv'
<1> DEFINE old == conn[c]
           m   == old.batch[old.next]
<1>1. /\ old \in Transaction /\ old.tenant \in Tenant /\ old.batch \in Seq(Mutation)
      /\ Working(old) /\ old.pc = "write" /\ m \in Mutation
      /\ Touched(old.batch) \cap Deleted(old.batch) = {}
      /\ m.op = "write"  => m.tuple \in Touched(old.batch)
      /\ m.op = "delete" => m.tuple \in Deleted(old.batch)
      /\ \A d \in Conn \ {c} : ~conn[d].inTransaction
  BY InBatchFacts DEF InBatch, Staged
<1>2. old.next \in Nat \ {0}
  BY <1>1 DEF Transaction
<1>3. ASSUME NEW i \in DOMAIN old.batch, i < old.next + 1
      PROVE  /\ old.batch[i].op = "write"  => old.batch[i].tuple \in SeenBy(rec)
             /\ old.batch[i].op = "delete" => old.batch[i].tuple \notin SeenBy(rec)
  <2> DEFINE k == old.batch[i]
  <2> k \in Mutation
    BY <1>1
  <2>1. k = [tuple |-> k.tuple, op |-> k.op] /\ k.tuple \in Tuple
    BY DEF Mutation
  <2>2. i = old.next \/ i < old.next
    BY <1>1, <1>2, <1>3
  <2>3. CASE i = old.next
    BY <2>3
  <2>4. CASE i < old.next
    <3>1. /\ k.op = "write"  => k.tuple \in SeenBy(old) /\ k.tuple \in Touched(old.batch)
          /\ k.op = "delete" => k.tuple \notin SeenBy(old) /\ k.tuple \in Deleted(old.batch)
      BY <1>1, <2>1, <2>4 DEF Working, Touched, Deleted, WithOp
    <3>2. CASE k.tuple # m.tuple
      BY <2>1, <3>1, <3>2
    <3>3. CASE k.tuple = m.tuple
      BY <1>1, <2>1, <3>1, <3>3
    <3> QED
      BY <3>2, <3>3
  <2> QED
    BY <2>2, <2>3, <2>4
<1>4. Working(rec)
  BY <1>1, <1>3 DEF Working
<1>5. Waiting(rec)
  BY DEF Waiting
<1> QED
  BY <1>1, <1>4, <1>5, CallGoesOn DEF ConnInv, ConnTypes, database

------------------------------------------------------------------------------
\* The mutations of a batch

LEMMA WriteSound ==
  ASSUME ConnInv, NEW c \in Conn, WriteMutation(c)
  PROVE  ConnInv'
<1> DEFINE old  == conn[c]
           m    == old.batch[old.next]
           skip == [pc |-> old.pc, inTransaction |-> old.inTransaction,
                    tenant |-> old.tenant, batch |-> old.batch, next |-> old.next + 1,
                    revision |-> old.revision, inserted |-> old.inserted,
                    ended |-> old.ended, floor |-> old.floor]
           rec  == [pc |-> old.pc, inTransaction |-> old.inTransaction,
                    tenant |-> old.tenant, batch |-> old.batch, next |-> old.next + 1,
                    revision |-> WriteRevision(c), inserted |-> old.inserted \cup {m.tuple},
                    ended |-> old.ended, floor |-> old.floor]
<1>1. /\ InBatch(c) /\ m.op = "write" /\ old.pc = "write"
      /\ UNCHANGED <<database, result, writes, faults>>
  BY DEF WriteMutation, InBatch
<1>2. /\ old \in Transaction /\ old.inTransaction /\ old.tenant \in Tenant
      /\ HeadRevision(old.tenant) \in Nat /\ Staged(old)
      /\ Active(c) = SeenBy(old)
      /\ m.tuple \in Tuple /\ m.tuple \in Touched(old.batch)
  BY <1>1, InBatchFacts
<1>3. CASE m.tuple \in Active(c)
  <2>1. conn' = [conn EXCEPT ![c] = skip]
    <3>1. PICK new : /\ conn' = [conn EXCEPT ![c] = new]
                     /\ new = [old EXCEPT !.next = old.next + 1]
      BY <1>3 DEF WriteMutation
    <3>2. new = skip
      BY <1>2, <3>1 DEF Transaction
    <3> QED
      BY <3>1, <3>2
  <2>2. skip \in Transaction
    BY <1>2 DEF Transaction
  <2>3. Staged(skip)
    BY <1>2 DEF Staged
  <2>4. SeenBy(skip) = SeenBy(old)
    BY DEF SeenBy
  <2>5. /\ skip.pc = "write" /\ skip.inTransaction /\ skip.tenant = old.tenant
        /\ skip.batch = old.batch /\ skip.floor = old.floor /\ skip.next = old.next + 1
    BY <1>1, <1>2
  <2> HIDE DEF skip
  <2> QED
    BY <1>1, <1>2, <1>3, <2>1, <2>2, <2>3, <2>4, <2>5, MutationSound
<1>4. CASE m.tuple \notin Active(c)
  <2>1. conn' = [conn EXCEPT ![c] = rec]
    <3>1. PICK new : /\ conn' = [conn EXCEPT ![c] = new]
                     /\ new = [old EXCEPT !.next = old.next + 1, !.revision = WriteRevision(c),
                                         !.inserted = old.inserted \cup {m.tuple}]
      BY <1>4 DEF WriteMutation
    <3>2. new = rec
      BY <1>2, <3>1 DEF Transaction
    <3> QED
      BY <3>1, <3>2
  <2>2. /\ WriteRevision(c) = HeadRevision(old.tenant) + 1
        /\ WriteRevision(c) \in Nat \ {Null}
    BY <1>2 DEF WriteRevision, Staged, Null
  <2>3. rec \in Transaction
    BY <1>2, <2>2 DEF Transaction
  <2>4. m.tuple \notin Deleted(old.batch) /\ m.tuple \notin old.ended
    BY <1>2 DEF Staged
  <2>5. Staged(rec)
    BY <1>2, <1>4, <2>2, <2>4 DEF Staged, SeenBy
  <2>6. SeenBy(rec) = SeenBy(old) \cup {m.tuple}
    BY DEF SeenBy
  <2>7. /\ rec.pc = "write" /\ rec.inTransaction /\ rec.tenant = old.tenant
        /\ rec.batch = old.batch /\ rec.floor = old.floor /\ rec.next = old.next + 1
    BY <1>1, <1>2
  <2> HIDE DEF rec
  <2> QED
    BY <1>1, <1>2, <2>1, <2>3, <2>5, <2>6, <2>7, MutationSound
<1> QED
  BY <1>3, <1>4

LEMMA DeleteSound ==
  ASSUME ConnInv, NEW c \in Conn, DeleteMutation(c)
  PROVE  ConnInv'
<1> DEFINE old  == conn[c]
           m    == old.batch[old.next]
           skip == [pc |-> old.pc, inTransaction |-> old.inTransaction,
                    tenant |-> old.tenant, batch |-> old.batch, next |-> old.next + 1,
                    revision |-> old.revision, inserted |-> old.inserted,
                    ended |-> old.ended, floor |-> old.floor]
           rec  == [pc |-> old.pc, inTransaction |-> old.inTransaction,
                    tenant |-> old.tenant, batch |-> old.batch, next |-> old.next + 1,
                    revision |-> WriteRevision(c), inserted |-> old.inserted,
                    ended |-> old.ended \cup {m.tuple}, floor |-> old.floor]
<1>1. /\ InBatch(c) /\ m.op = "delete" /\ old.pc = "write"
      /\ UNCHANGED <<database, result, writes, faults>>
  BY DEF DeleteMutation, InBatch
<1>2. /\ old \in Transaction /\ old.inTransaction /\ old.tenant \in Tenant
      /\ HeadRevision(old.tenant) \in Nat /\ Staged(old)
      /\ Active(c) = SeenBy(old)
      /\ m.tuple \in Tuple /\ m.tuple \in Deleted(old.batch)
  BY <1>1, InBatchFacts
<1>3. CASE m.tuple \notin Active(c)
  <2>1. conn' = [conn EXCEPT ![c] = skip]
    <3>1. PICK new : /\ conn' = [conn EXCEPT ![c] = new]
                     /\ new = [old EXCEPT !.next = old.next + 1]
      BY <1>3 DEF DeleteMutation
    <3>2. new = skip
      BY <1>2, <3>1 DEF Transaction
    <3> QED
      BY <3>1, <3>2
  <2>2. skip \in Transaction
    BY <1>2 DEF Transaction
  <2>3. Staged(skip)
    BY <1>2 DEF Staged
  <2>4. SeenBy(skip) = SeenBy(old)
    BY DEF SeenBy
  <2>5. /\ skip.pc = "write" /\ skip.inTransaction /\ skip.tenant = old.tenant
        /\ skip.batch = old.batch /\ skip.floor = old.floor /\ skip.next = old.next + 1
    BY <1>1, <1>2
  <2> HIDE DEF skip
  <2> QED
    BY <1>1, <1>2, <1>3, <2>1, <2>2, <2>3, <2>4, <2>5, MutationSound
<1>4. CASE m.tuple \in Active(c)
  <2>1. conn' = [conn EXCEPT ![c] = rec]
    <3>1. PICK new : /\ conn' = [conn EXCEPT ![c] = new]
                     /\ new = [old EXCEPT !.next = old.next + 1, !.revision = WriteRevision(c),
                                         !.ended = old.ended \cup {m.tuple}]
      BY <1>4 DEF DeleteMutation
    <3>2. new = rec
      BY <1>2, <3>1 DEF Transaction
    <3> QED
      BY <3>1, <3>2
  <2>2. /\ WriteRevision(c) = HeadRevision(old.tenant) + 1
        /\ WriteRevision(c) \in Nat \ {Null}
    BY <1>2 DEF WriteRevision, Staged, Null
  <2>3. rec \in Transaction
    BY <1>2, <2>2 DEF Transaction
  <2>4. m.tuple \notin Touched(old.batch) /\ m.tuple \notin old.inserted
    BY <1>2 DEF Staged
  <2>5. Staged(rec)
    BY <1>2, <1>4, <2>2, <2>4 DEF Staged, SeenBy
  <2>6. SeenBy(rec) = SeenBy(old) \ {m.tuple}
    BY <2>4 DEF SeenBy
  <2>7. /\ rec.pc = "write" /\ rec.inTransaction /\ rec.tenant = old.tenant
        /\ rec.batch = old.batch /\ rec.floor = old.floor /\ rec.next = old.next + 1
    BY <1>1, <1>2
  <2> HIDE DEF rec
  <2> QED
    BY <1>1, <1>2, <2>1, <2>3, <2>5, <2>6, <2>7, MutationSound
<1> QED
  BY <1>3, <1>4

\* A transaction that is rolled back, by write or by close, leaves nothing.
LEMMA RollbackSound ==
  ASSUME ConnInv, NEW c \in Conn, UnknownOperation(c) \/ Close(c)
  PROVE  ConnInv'
<1>1. conn' = [conn EXCEPT ![c] = Quiet] /\ UNCHANGED <<database, result, writes, faults>>
  BY DEF UnknownOperation, Close
<1>2. writes' \in 0..MaxWrites /\ faults' \in 0..MaxFaults
  BY <1>1 DEF ConnInv, ConnTypes
<1> QED
  BY <1>1, <1>2, QuietSound, CallGoesOn DEF database

\* What an interrupted write has staged stays staged.
LEMMA InterruptSound ==
  ASSUME ConnInv, NEW c \in Conn, Interrupt(c)
  PROVE  ConnInv'
<1> DEFINE old == conn[c]
           rec == [pc |-> "idle", inTransaction |-> old.inTransaction,
                   tenant |-> old.tenant, batch |-> old.batch, next |-> old.next,
                   revision |-> old.revision, inserted |-> old.inserted,
                   ended |-> old.ended, floor |-> old.floor]
<1>1. old.pc = "write" /\ UNCHANGED <<database, result, writes>>
  BY DEF Interrupt
<1>2. /\ old \in Transaction /\ Staged(old)
      /\ \A d \in Conn \ {c} : ~conn[d].inTransaction
  BY <1>1, InBatchFacts
<1>3. conn' = [conn EXCEPT ![c] = rec]
  <2>1. PICK new : conn' = [conn EXCEPT ![c] = new] /\ new = [old EXCEPT !.pc = "idle"]
    BY DEF Interrupt
  <2>2. new = rec
    BY <1>2, <2>1 DEF Transaction
  <2> QED
    BY <2>1, <2>2
<1>4. rec \in Transaction /\ rec.pc = "idle"
  BY <1>2 DEF Transaction
<1>5. Staged(rec)
  BY <1>2 DEF Staged
<1>6. writes' \in 0..MaxWrites /\ faults' \in 0..MaxFaults
  BY SqliteBounds DEF Interrupt, ConnInv, ConnTypes
<1> HIDE DEF rec
<1>7. Working(rec) /\ Waiting(rec)
  BY <1>4 DEF Working, Waiting
<1> QED
  BY <1>1, <1>2, <1>3, <1>4, <1>5, <1>6, <1>7, CallGoesOn DEF database

------------------------------------------------------------------------------
\* The end of a write

\* The whole batch holds in what the transaction sees.
LEMMA BatchHolds ==
  ASSUME ConnInv, NEW c \in Conn, conn[c].pc = "write", ~InBatch(c)
  PROVE  HoldIn(conn[c].batch, SeenBy(conn[c]))
<1> DEFINE old == conn[c]
<1>1. old \in Transaction /\ old.batch \in Seq(Mutation) /\ Working(old)
  BY InBatchFacts
<1>2. old.next \in Nat \ {0} /\ old.next \notin DOMAIN old.batch
  BY <1>1 DEF Transaction, InBatch
<1>3. \A i \in DOMAIN old.batch : i < old.next
  BY <1>1, <1>2
<1>4. \A i \in DOMAIN old.batch :
        /\ old.batch[i].op = "write"  => old.batch[i].tuple \in SeenBy(old)
        /\ old.batch[i].op = "delete" => old.batch[i].tuple \notin SeenBy(old)
  BY <1>1, <1>3 DEF Working
<1> QED
  BY <1>4 DEF HoldIn, Touched, Deleted, WithOp

\* A batch that changed nothing is committed without a change.
LEMMA EmptyCommitSound ==
  ASSUME ConnInv, NEW c \in Conn, Commit(c), conn[c].revision = Null
  PROVE  ConnInv' /\ UNCHANGED database
<1> DEFINE old == conn[c]
           rec == [pc |-> "head", inTransaction |-> FALSE, tenant |-> old.tenant,
                   batch |-> old.batch, next |-> old.next, revision |-> old.revision,
                   inserted |-> old.inserted, ended |-> old.ended, floor |-> old.floor]
           n   == HeadRevision(old.tenant)
<1>1. /\ old.pc = "write" /\ ~InBatch(c)
      /\ revisions' = revisions /\ rows' = CommittedRows(c)
      /\ UNCHANGED <<result, readVars, writes, faults>>
  BY DEF Commit, CommittedRevisions
<1>2. /\ old \in Transaction /\ old.tenant \in Tenant /\ n \in Nat
      /\ Staged(old) /\ Working(old) /\ old.inTransaction
  BY <1>1, InBatchFacts
<1>3. old.inserted = {} /\ old.ended = {} /\ old.floor \in Nat /\ old.floor <= n
  BY <1>1, <1>2 DEF Staged, Working, Transaction
<1>4. UNCHANGED database
  BY <1>1, <1>3 DEF CommittedRows, CloseWindows, database
<1>5. conn' = [conn EXCEPT ![c] = rec]
  <2>1. conn' = [conn EXCEPT ![c].pc = "head", ![c].inTransaction = FALSE]
    BY DEF Commit
  <2>2. PICK new : /\ conn' = [conn EXCEPT ![c] = new]
                   /\ new = [old EXCEPT !.pc = "head", !.inTransaction = FALSE]
    BY <2>1 DEF ConnInv, ConnTypes
  <2>3. new = rec
    BY <1>2, <2>2 DEF Transaction
  <2> QED
    BY <2>2, <2>3
<1>6. HoldIn(old.batch, VisibleAt(rows, old.tenant, n))
  <2>1. SeenBy(old) = ActiveTuples(rows, old.tenant)
    BY <1>3 DEF SeenBy
  <2>2. VisibleAt(rows, old.tenant, n) = ActiveTuples(rows, old.tenant)
    BY <1>2, LatestIsActive DEF ConnInv
  <2> QED
    BY <1>1, <2>1, <2>2, BatchHolds
<1>7. Staged(rec) /\ Working(rec) /\ rec \in Transaction
  BY <1>2 DEF Staged, Working, Transaction
<1>8. Waiting(rec)
  <2>1. n \in old.floor..n
    BY <1>2, <1>3
  <2> QED
    BY <1>2, <1>6, <2>1 DEF Waiting
<1>9. writes' \in 0..MaxWrites /\ faults' \in 0..MaxFaults /\ ~rec.inTransaction
  BY <1>1 DEF ConnInv, ConnTypes
<1> HIDE DEF rec
<1> QED
  BY <1>1, <1>4, <1>5, <1>7, <1>8, <1>9, CallGoesOn DEF database

\* What a transaction of a tenant commits is its next revision.
LEMMA ConnCommits ==
  ASSUME ConnInv, NEW c \in Conn, Commit(c), conn[c].revision # Null
  PROVE  Commits(conn[c].tenant, conn[c].revision, conn[c].inserted, conn[c].ended)
<1> DEFINE old == conn[c]
<1>1. old.pc = "write"
  BY DEF Commit
<1>2. old \in Transaction /\ old.inTransaction /\ Staged(old)
  BY <1>1, InBatchFacts
<1>3. /\ old.revision = HeadRevision(old.tenant) + 1
      /\ old.inserted \subseteq Tuple
      /\ old.inserted \cap ActiveTuples(rows, old.tenant) = {}
      /\ old.ended \subseteq ActiveTuples(rows, old.tenant)
  BY <1>2 DEF Staged, Transaction
<1>4. /\ revisions' = [revisions EXCEPT ![old.tenant] = @ \cup {old.revision}]
      /\ rows' = CloseWindows(rows, old.tenant, old.ended, old.revision)
                   \cup {NewRow(old.tenant, t, old.revision) : t \in old.inserted}
  BY DEF Commit, CommittedRevisions, CommittedRows
<1> QED
  BY <1>3, <1>4 DEF Commits

\* A commit takes nothing back that another write waits to report or has
\* reported.
LEMMA OthersStand ==
  ASSUME ConnInv, TablesStep
  PROVE  /\ \A rec \in Transaction : Waiting(rec) => Waiting(rec)'
         /\ \A res \in Result : Kept(res) => Kept(res)'
<1> USE DEF ConnInv
<1>1. ASSUME NEW tn \in Tenant
      PROVE  /\ HeadRevision(tn) \in Nat /\ HeadRevision(tn)' \in Nat
             /\ HeadRevision(tn) <= HeadRevision(tn)'
  BY HeadsGrow
<1>2. ASSUME NEW tn \in Tenant, NEW r \in Nat, r <= HeadRevision(tn)
      PROVE  VisibleAt(rows', tn, r) = VisibleAt(rows, tn, r)
  BY <1>2, SnapshotsStand
<1>3. ASSUME NEW rec \in Transaction, Waiting(rec), rec.pc = "head"
      PROVE  Waiting(rec)'
  <2>1. /\ rec.tenant \in Tenant /\ ~rec.inTransaction /\ rec.revision = Null
        /\ rec.floor \in Nat
    BY <1>3 DEF Waiting, Transaction
  <2>2. PICK tn \in Tenant : tn = rec.tenant
    BY <2>1
  <2>3. PICK r \in rec.floor..HeadRevision(tn) : HoldIn(rec.batch, VisibleAt(rows, tn, r))
    BY <1>3, <2>2 DEF Waiting
  <2>4. r \in Nat /\ r <= HeadRevision(tn) /\ r \in rec.floor..HeadRevision(tn)'
    BY <1>1, <2>1, <2>3
  <2>5. HoldIn(rec.batch, VisibleAt(rows', tn, r))
    BY <1>2, <2>3, <2>4
  <2>6. HeadRevision(rec.tenant)' = HeadRevision(tn)'
    BY <2>2 DEF HeadRevision
  <2> QED
    BY <2>1, <2>2, <2>4, <2>5, <2>6 DEF Waiting
<1>4. ASSUME NEW res \in Result, Kept(res), res # NoResult
      PROVE  Kept(res)'
  <2>1. /\ res.tenant \in Tenant /\ res.floor \in Nat /\ res.revision \in Nat
        /\ res.revision <= HeadRevision(res.tenant)
    BY <1>4 DEF Kept, Result
  <2>2. PICK tn \in Tenant : tn = res.tenant
    BY <2>1
  <2>3. HeadRevision(res.tenant)' = HeadRevision(tn)'
    BY <2>2 DEF HeadRevision
  <2>4. res.revision <= HeadRevision(res.tenant)'
    BY <1>1, <2>1, <2>2, <2>3
  <2>5. \A r \in 0..res.revision : VisibleAt(rows', tn, r) = VisibleAt(rows, tn, r)
    BY <1>1, <1>2, <2>1, <2>2
  <2>6. CASE res.effective
    <3>1. HoldIn(res.batch, VisibleAt(rows, tn, res.revision))
      BY <1>4, <2>2, <2>6 DEF Kept
    <3>2. HoldIn(res.batch, VisibleAt(rows', tn, res.revision))
      BY <2>1, <2>5, <3>1
    <3> QED
      BY <2>1, <2>2, <2>4, <2>6, <3>2 DEF Kept
  <2>7. CASE ~res.effective
    <3>1. PICK r \in res.floor..res.revision : HoldIn(res.batch, VisibleAt(rows, tn, r))
      BY <1>4, <2>2, <2>7 DEF Kept
    <3>2. HoldIn(res.batch, VisibleAt(rows', tn, r))
      BY <2>1, <2>5, <3>1
    <3> QED
      BY <2>1, <2>2, <2>4, <2>7, <3>1, <3>2 DEF Kept
  <2> QED
    BY <2>6, <2>7
<1>5. ASSUME NEW rec \in Transaction, rec.pc # "head"
      PROVE  Waiting(rec)'
  BY <1>5 DEF Waiting
<1>6. Kept(NoResult)'
  BY DEF Kept
<1> QED
  BY <1>3, <1>4, <1>5, <1>6

LEMMA CommitSound ==
  ASSUME ConnInv, NEW c \in Conn, Commit(c), conn[c].revision # Null
  PROVE  ConnInv'
<1> DEFINE old == conn[c]
           tn  == old.tenant
           r   == old.revision
<1>1. /\ old.pc = "write" /\ ~InBatch(c)
      /\ conn' = [conn EXCEPT ![c] = Quiet]
      /\ result' = [result EXCEPT ![c] = Returned(c, r)]
      /\ UNCHANGED <<readVars, writes, faults>>
  BY DEF Commit
<1>2. /\ old \in Transaction /\ tn \in Tenant /\ old.batch \in Seq(Mutation)
      /\ Staged(old) /\ old.inTransaction
      /\ \A d \in Conn \ {c} : ~conn[d].inTransaction
  BY <1>1, InBatchFacts
<1>3. Commits(tn, r, old.inserted, old.ended)
  BY ConnCommits
<1>4. TablesStep
  BY <1>2, <1>3 DEF TablesStep
<1>5. TablesInv'
  BY <1>4, TablesKept DEF ConnInv
<1>6. PICK res \in Result :
        res = [tenant |-> tn, batch |-> old.batch, effective |-> TRUE,
               floor |-> old.floor, revision |-> r]
  BY <1>2 DEF Result, Transaction
<1>7. /\ \A d \in Conn : conn'[d] = IF d = c THEN Quiet ELSE conn[d]
      /\ \A d \in Conn : result'[d] = IF d = c THEN res ELSE result[d]
  BY <1>1, <1>6 DEF ConnInv, ConnTypes, Returned
<1>8. ConnTypes'
  BY <1>1, <1>6, QuietSound DEF ConnInv, ConnTypes, Returned
<1>9. OneTransaction'
  BY <1>2, <1>7, QuietSound DEF OneTransaction
<1>10. Kept(res)'
  <2>1. VisibleAt(rows', tn, r) = (ActiveTuples(rows, tn) \cup old.inserted) \ old.ended
    BY <1>2, <1>3, NewRevision DEF ConnInv
  <2>2. old.inserted \cap old.ended = {}
    BY <1>2 DEF Staged
  <2>3. VisibleAt(rows', tn, r) = SeenBy(old)
    BY <2>1, <2>2 DEF SeenBy
  <2>4. HoldIn(old.batch, VisibleAt(rows', tn, r))
    BY <1>1, <2>3, BatchHolds
  <2>5. PICK t \in Tenant : t = tn
    BY <1>2
  <2>6. r \in Nat /\ HeadRevision(t)' = r
    BY <1>3, <2>5, HeadOfCommit DEF ConnInv
  <2>7. /\ res.tenant = t /\ res.revision = r /\ res.effective /\ res.batch = old.batch
    BY <1>6, <2>5
  <2>8. HeadRevision(res.tenant)' = r
    BY <2>6, <2>7 DEF HeadRevision
  <2> QED
    BY <2>4, <2>5, <2>6, <2>7, <2>8 DEF Kept
<1>11. ASSUME NEW d \in Conn
       PROVE  Staged(conn[d])' /\ Working(conn[d])'
  <2>1. ~conn'[d].inTransaction /\ conn'[d].pc # "write"
    BY <1>2, <1>7 DEF Quiet, ConnInv, Working
  <2> QED
    BY <2>1 DEF Staged, Working
<1>12. ASSUME NEW d \in Conn
       PROVE  Waiting(conn[d])'
  <2>1. CASE d = c
    BY <1>7, <2>1 DEF Waiting, Quiet
  <2>2. CASE d # c
    <3>1. conn'[d] = conn[d] /\ conn[d] \in Transaction /\ Waiting(conn[d])
      BY <1>7, <2>2 DEF ConnInv, ConnTypes
    <3>2. PICK rec \in Transaction : rec = conn[d]
      BY <3>1
    <3>3. Waiting(rec)'
      BY <1>4, <3>1, <3>2, OthersStand
    <3> QED
      BY <3>1, <3>2, <3>3 DEF Waiting, HeadRevision
  <2> QED
    BY <2>1, <2>2
<1>13. ASSUME NEW d \in Conn
       PROVE  Kept(result[d])'
  <2>1. CASE d = c
    BY <1>7, <1>10, <2>1 DEF Kept, HeadRevision
  <2>2. CASE d # c
    <3>1. result'[d] = result[d] /\ result[d] \in Result /\ Kept(result[d])
      BY <1>7, <2>2 DEF ConnInv, ConnTypes
    <3>2. PICK rec \in Result : rec = result[d]
      BY <3>1
    <3>3. Kept(rec)'
      BY <1>4, <3>1, <3>2, OthersStand
    <3> QED
      BY <3>1, <3>2, <3>3 DEF Kept, HeadRevision
  <2> QED
    BY <2>1, <2>2
<1> QED
  BY <1>5, <1>8, <1>9, <1>11, <1>12, <1>13 DEF ConnInv

LEMMA ReadHeadSound ==
  ASSUME ConnInv, NEW c \in Conn, ReadHead(c)
  PROVE  ConnInv'
<1> DEFINE old == conn[c]
           tn  == old.tenant
           n   == HeadRevision(tn)
           res == [tenant |-> tn, batch |-> old.batch, effective |-> FALSE,
                   floor |-> old.floor, revision |-> n]
<1>1. old.pc = "head" /\ old \in Transaction /\ Waiting(old)
  BY DEF ReadHead, ConnInv, ConnTypes
<1>2. /\ tn \in Tenant /\ old.revision = Null
      /\ \E r \in old.floor..n : HoldIn(old.batch, VisibleAt(rows, tn, r))
  BY <1>1 DEF Waiting
<1>3. n \in Nat
  BY <1>2, HeadOfNumbered DEF ConnInv, TablesInv
<1>4. /\ conn' = [conn EXCEPT ![c] = Quiet] /\ result' = [result EXCEPT ![c] = res]
      /\ UNCHANGED <<database, readVars, writes, faults>>
  BY <1>2 DEF ReadHead, Returned
<1>5. res \in Result
  BY <1>1, <1>2, <1>3 DEF Result, Transaction
<1>6. Kept(res)
  BY <1>2, <1>3 DEF Kept
<1>7. writes' \in 0..MaxWrites /\ faults' \in 0..MaxFaults
  BY <1>4 DEF ConnInv, ConnTypes
<1> HIDE DEF res
<1> QED
  BY <1>4, <1>5, <1>6, <1>7, QuietSound, OneConnection DEF database

------------------------------------------------------------------------------
\* Every step

LEMMA ConnStepSound ==
  ASSUME ConnInv, NEW c \in Conn, ConnStep(c)
  PROVE  ConnInv' /\ TablesStep /\ UNCHANGED readVars
<1>1. CASE \E tn \in Tenant, batch \in Batches : BeginImmediate(c, tn, batch)
  <2>1. UNCHANGED <<database, readVars>>
    BY <1>1 DEF BeginImmediate
  <2> QED
    BY <1>1, <2>1, BeginSound DEF TablesStep
<1>2. CASE WriteMutation(c)
  BY <1>2, WriteSound DEF WriteMutation, TablesStep
<1>3. CASE DeleteMutation(c)
  BY <1>3, DeleteSound DEF DeleteMutation, TablesStep
<1>4. CASE UnknownOperation(c) \/ Close(c)
  BY <1>4, RollbackSound DEF UnknownOperation, Close, TablesStep
<1>5. CASE Interrupt(c)
  BY <1>5, InterruptSound DEF Interrupt, TablesStep
<1>6. CASE ReadHead(c)
  BY <1>6, ReadHeadSound DEF ReadHead, TablesStep
<1>7. CASE Commit(c) /\ conn[c].revision = Null
  <2>1. UNCHANGED readVars
    BY <1>7 DEF Commit
  <2> QED
    BY <1>7, <2>1, EmptyCommitSound DEF TablesStep
<1>8. CASE Commit(c) /\ conn[c].revision # Null
  <2>1. UNCHANGED readVars
    BY <1>8 DEF Commit
  <2>2. conn[c].tenant \in Tenant
    <3>1. conn[c].pc = "write"
      BY <1>8 DEF Commit
    <3> QED
      BY <3>1, InBatchFacts
  <2>3. TablesStep
    BY <1>8, <2>2, ConnCommits DEF TablesStep
  <2> QED
    BY <1>8, <2>1, <2>3, CommitSound
<1> QED
  BY <1>1, <1>2, <1>3, <1>4, <1>5, <1>6, <1>7, <1>8 DEF ConnStep

LEMMA NextCases ==
  ASSUME [Next]_vars
  PROVE  \/ UNCHANGED vars
         \/ \E c \in Conn : ConnStep(c)
         \/ ReadTables
BY DEF Next, ConnStep

LEMMA ConnInvStep ==
  ASSUME ConnInv, [Next]_vars
  PROVE  /\ ConnInv'
         /\ TablesStep
         /\ ReadStep \/ (TablesStep /\ UNCHANGED readVars)
<1>1. ASSUME UNCHANGED <<database, conn, result, writes, faults>>
      PROVE  ConnInv'
  <2>1. TablesInv'
    BY <1>1, TablesKept DEF TablesStep, ConnInv
  <2>2. \A c \in Conn : Staged(conn[c])' /\ Working(conn[c])'
    BY <1>1 DEF ConnInv, Staged, Working, SeenBy, HeadRevision, database
  <2>3. \A c \in Conn : Waiting(conn[c])' /\ Kept(result[c])'
    BY <1>1 DEF ConnInv, Waiting, Kept, HeadRevision, database
  <2> QED
    BY <1>1, <2>1, <2>2, <2>3 DEF ConnInv, ConnTypes, OneTransaction, database
<1>2. CASE UNCHANGED vars
  BY <1>1, <1>2 DEF vars, TablesStep
<1>3. CASE ReadTables
  BY <1>1, <1>3 DEF ReadTables, ReadStep, TablesStep
<1>4. CASE \E c \in Conn : ConnStep(c)
  BY <1>4, ConnStepSound
<1> QED
  BY <1>2, <1>3, <1>4, NextCases

LEMMA ConnInvariant == Spec => []ConnInv
<1>1. ConnInv /\ [Next]_vars => ConnInv'
  BY ConnInvStep
<1> QED
  BY <1>1, ConnInit, PTL DEF Spec

\* Every variable has its type, and a write call is in a transaction exactly
\* while it works on its batch.
THEOREM SqliteTypes == Spec => []TypeOK
<1>1. ConnInv => TypeOK
  <2> SUFFICES ASSUME ConnInv PROVE TypeOK
    OBVIOUS
  <2>1. ASSUME NEW c \in Conn
        PROVE  /\ conn[c].pc \in {"idle", "write", "head"}
               /\ conn[c].inserted \cup conn[c].ended \subseteq Tuple
               /\ conn[c].pc = "write" => conn[c].inTransaction
               /\ conn[c].pc = "head" => ~conn[c].inTransaction
    BY DEF ConnInv, ConnTypes, Transaction, Working, Waiting
  <2> QED
    BY <2>1 DEF TypeOK, ConnInv, ConnTypes, TablesInv, TableTypes
<1> QED
  BY <1>1, ConnInvariant, PTL

\* However many connections write and are interrupted, a write that returns
\* holds as a whole at its token, and one that found nothing to do held when
\* it looked: nobody else commits between its BEGIN IMMEDIATE and its COMMIT.
THEOREM SqliteWritesHold == Spec => []WriteHolds
<1>1. ConnInv => WriteHolds
  <2> SUFFICES ASSUME ConnInv, NEW c \in Conn, result[c].tenant # Null
               PROVE  LET res == result[c] IN
                      IF res.effective
                        THEN HoldIn(res.batch, VisibleAt(rows, res.tenant, res.revision))
                        ELSE \E r \in res.floor..res.revision :
                               HoldIn(res.batch, VisibleAt(rows, res.tenant, r))
    BY DEF WriteHolds, HoldIn
  <2>1. result[c] # NoResult /\ Kept(result[c])
    BY DEF NoResult, ConnInv
  <2> QED
    BY <2>1 DEF Kept
<1> QED
  BY <1>1, ConnInvariant, PTL

\* Only one transaction of the file is open at a time, and it stays the only
\* one when its write is interrupted: what it has staged can be committed
\* without a look at what others did.
THEOREM SqliteWritersSerialised == Spec => []OneTransaction
BY ConnInvariant, PTL DEF ConnInv

\* No tuple is visible twice at a revision, and no visibility window is
\* empty, whatever was interrupted.
THEOREM SqliteWindows == Spec => []WindowsDisjoint
<1>1. ConnInv => WindowsDisjoint
  BY DEF ConnInv, TablesInv
<1> QED
  BY <1>1, ConnInvariant, PTL

LEMMA ConnReads == Spec => []ReadInv
<1>1. ReadInv /\ ConnInv /\ [Next]_vars => ReadInv'
  BY ConnInvStep, ReadsKept DEF readVars
<1>2. Init => ReadInv
  BY ReadsInit DEF Init
<1> QED
  BY <1>1, <1>2, ConnInvariant, PTL DEF Spec

\* What a read returned for a revision stays what that revision shows.
THEOREM SqliteSnapshotReads == Spec => []ReadIsSnapshot
BY ConnReads, ReadsAreSnapshots, PTL

\* A call of the client that reads more than once answers from one revision,
\* and from one its consistency policy allows.
THEOREM SqliteOneSnapshotPerCall == Spec => []CallReadsOneSnapshot
BY ConnReads, CallsReadOneSnapshot, PTL

\* A watch of the SQLite tables yields all that was committed after its
\* `after` and before it began.
THEOREM SqliteWatchesCover == Spec => []WatchCovers
<1>1. WatchInv /\ ConnInv /\ [Next]_vars => WatchInv'
  BY ConnInvStep, WatchesKept DEF readVars
<1>2. Init => WatchInv
  BY WatchesInit DEF Init
<1> QED
  BY <1>1, <1>2, ConnInvariant, SoundWatchesCover, PTL DEF Spec

\* The tables behave as the abstract store: a COMMIT is one commit of one
\* tenant, every other step of a connection is invisible to a reader.
THEOREM SqliteImplementsStore == Spec => ImplementsStore
<1>1. ConnInv /\ [Next]_vars => [Store!Next]_(Store!vars)
  BY ConnInvStep, StoreStep DEF ConnInv
<1>2. Init => Store!Init
  BY StoreInit DEF Init
<1> QED
  BY <1>1, <1>2, ConnInvariant, PTL DEF Spec, ImplementsStore, Store!Spec

==============================================================================
