-------------------------- MODULE SqlRelationsProofs --------------------------
(***************************************************************************)
(* SQLAlchemyRelationRepository, for any number of tenants, calls, tuples  *)
(* and batches.  ClaimInv is the inductive invariant: a session that has   *)
(* changed a row holds the next revision of its tenant, which keeps every  *)
(* other session of the tenant from changing one.  So each commit is one   *)
(* of SqlReadsProofs (SessionCommits), and what is shown there of tables,  *)
(* reads, watches and the abstract store follows.  Readers and watchers    *)
(* take part in Next but write nothing: every step is a step of one call   *)
(* or leaves the database and the calls alone (NextCases).                 *)
(***************************************************************************)
EXTENDS SqlRelations, SqlReadsProofs

LEMMA RollbackTypes ==
  ASSUME TypeOK, NEW c \in Call, Rollback(c)
  PROVE  /\ next' \in [Call -> Nat \ {0}]
         /\ candidate' \in [Call -> Nat]
         /\ revision' \in [Call -> Nat]
         /\ inserted' \in [Call -> SUBSET Tuple]
         /\ ended' \in [Call -> SUBSET Tuple]
BY DEF TypeOK, Rollback, Null

LEMMA RetryTypes ==
  ASSUME TypeOK, NEW c \in Call, pc[c] \in Running, Retry(c), UNCHANGED faults \/ Fault,
         revisions' \in [Tenant -> SUBSET (Nat \ {0})], rows' \subseteq Row
  PROVE  TypeOK'
<1>1. pc' \in [Call -> Label] /\ attempt' \in [Call -> 1..Attempts]
  BY DEF Retry, Goto, TypeOK, Label, Running, Attempts
<1>2. faults' \in 0..MaxFaults
  BY MaxFaultsAssumption DEF TypeOK, Fault
<1>3. \A d \in Call : pc'[d] # "idle" => job'[d] \in Job
  BY DEF Retry, Goto, TypeOK, Running
<1>4. \A d \in Call :
        pc'[d] \in {"allocate", "claim", "apply"} => next'[d] \in DOMAIN job'[d].batch
  BY DEF Retry, Goto, Rollback, TypeOK
<1> QED
  BY <1>1, <1>2, <1>3, <1>4, RollbackTypes DEF TypeOK, Retry

LEMMA BeginTypes ==
  ASSUME TypeOK, Numbered, NEW c \in Call, NEW tn \in Tenant, NEW batch \in Batches,
         Begin(c, tn, batch)
  PROVE  TypeOK'
<1>1. [tenant |-> tn, batch |-> batch] \in Job
  BY BatchesAssumption DEF Job
<1>2. HeadRevision(tn) \in Nat
  BY HeadOfNumbered
<1>3. pc' \in [Call -> Label]
  BY DEF TypeOK, Begin, Goto, Label, Running
<1>4. job' \in [Call -> Job \cup {NoJob}] /\ floor' \in [Call -> Nat]
  BY <1>1, <1>2 DEF TypeOK, Begin
<1>5. \A d \in Call : pc'[d] # "idle" => job'[d] \in Job
  BY <1>1 DEF TypeOK, Begin, Goto
<1>6. \A d \in Call :
        pc'[d] \in {"allocate", "claim", "apply"} => next'[d] \in DOMAIN job'[d].batch
  BY DEF TypeOK, Begin, Goto, session
<1> QED
  BY <1>3, <1>4, <1>5, <1>6 DEF TypeOK, Begin, session, database

\* What a call that is under way needs to know of its current mutation.
LEMMA CurrentTypes ==
  ASSUME TypeOK, NEW c \in Call, pc[c] # "idle", next[c] \in DOMAIN job[c].batch
  PROVE  Current(c) \in Mutation /\ Current(c).tuple \in Tuple
<1>1. job[c] \in Job
  BY DEF TypeOK
<1>2. job[c].batch \in Seq(Mutation)
  BY <1>1 DEF Job
<1>3. Current(c) \in Mutation
  BY <1>2 DEF Current
<1> QED
  BY <1>3 DEF Mutation

LEMMA TenantOfTypes ==
  ASSUME TypeOK, NEW c \in Call, pc[c] # "idle"
  PROVE  TenantOf(c) \in Tenant
BY DEF TypeOK, TenantOf, Job

LEMMA ForwardTypes ==
  ASSUME TypeOK, Numbered, NEW c \in Call,
         \/ SkipMutation(c) \/ KeepMutation(c) \/ ReadMax(c) \/ ClaimRevision(c)
         \/ InsertRow(c) \/ CloseRow(c) \/ NoOp(c) \/ ReadHead(c)
  PROVE  TypeOK'
<1>1. CASE SkipMutation(c)
  BY <1>1 DEF TypeOK, SkipMutation, Looking, database, readVars
<1>2. CASE KeepMutation(c)
  BY <1>2 DEF TypeOK, KeepMutation, Looking, Goto, Label, Running, session, database
<1>3. CASE ReadMax(c)
  <2>1. HeadRevision(TenantOf(c)) \in Nat
    BY <1>3, HeadOfNumbered, TenantOfTypes DEF ReadMax
  <2> QED
    BY <1>3, <2>1 DEF TypeOK, ReadMax, Goto, Label, Running, database
<1>4. CASE ClaimRevision(c)
  BY <1>4 DEF TypeOK, ClaimRevision, Goto, Label, Running, database
<1>5. CASE InsertRow(c)
  <2>1. Current(c).tuple \in Tuple
    BY <1>5, CurrentTypes DEF TypeOK, InsertRow
  <2> QED
    BY <1>5, <2>1 DEF TypeOK, InsertRow, NextMutation, Goto, Label, Running, database
<1>6. CASE CloseRow(c)
  <2>1. Current(c).tuple \in Tuple
    BY <1>6, CurrentTypes DEF TypeOK, CloseRow
  <2> QED
    BY <1>6, <2>1 DEF TypeOK, CloseRow, NextMutation, Goto, Label, Running, database
<1>7. CASE NoOp(c)
  BY <1>7 DEF TypeOK, NoOp, BatchDone, Goto, Label, Running, session, database
<1>8. CASE ReadHead(c)
  <2>1. HeadRevision(TenantOf(c)) \in Nat
    BY <1>8, HeadOfNumbered, TenantOfTypes DEF ReadHead
  <2> QED
    BY <1>8, <2>1 DEF TypeOK, ReadHead, Goto, Label, session, database
<1> QED
  BY <1>1, <1>2, <1>3, <1>4, <1>5, <1>6, <1>7, <1>8

LEMMA RaiseTypes ==
  ASSUME TypeOK, NEW c \in Call, pc[c] \in Running, Raise(c), UNCHANGED faults \/ Fault
  PROVE  TypeOK'
<1>1. pc' \in [Call -> Label] /\ \A d \in Call : pc'[d] # "idle" => job'[d] \in Job
  BY DEF TypeOK, Raise, Goto, Label, Running
<1>2. faults' \in 0..MaxFaults
  BY MaxFaultsAssumption DEF TypeOK, Fault
<1>3. \A d \in Call :
        pc'[d] \in {"allocate", "claim", "apply"} => next'[d] \in DOMAIN job'[d].batch
  BY DEF TypeOK, Raise, Goto, Rollback
<1> QED
  BY <1>1, <1>2, <1>3, RollbackTypes DEF TypeOK, Raise, database

LEMMA CommitTypes ==
  ASSUME TypeOK, NEW c \in Call, Commit(c), TableTypes'
  PROVE  TypeOK'
<1>1. pc[c] # "idle" /\ revision[c] # Null
  BY DEF Commit, BatchDone
<1>2. pc' \in [Call -> Label] /\ token' \in [Call -> Nat]
  BY DEF TypeOK, Commit, Goto, Label
<1>3. \A d \in Call : pc'[d] # "idle" => job'[d] \in Job
  BY <1>1 DEF TypeOK, Commit, Goto
<1>4. \A d \in Call :
        pc'[d] \in {"allocate", "claim", "apply"} => next'[d] \in DOMAIN job'[d].batch
  BY DEF TypeOK, Commit, Goto, session
<1> QED
  BY <1>1, <1>2, <1>3, <1>4 DEF TypeOK, TableTypes, Commit, session

LEMMA TypeStep ==
  ASSUME TypeOK, Numbered, [Next]_vars, TableTypes'
  PROVE  TypeOK'
<1>1. CASE UNCHANGED vars
  BY <1>1 DEF TypeOK, vars, database, calls, session
<1>2. CASE ReadStep /\ UNCHANGED <<calls, faults>>
  BY <1>2 DEF TypeOK, ReadStep, database, calls, session
<1>3. ASSUME NEW c \in Call, NEW tn \in Tenant, NEW batch \in Batches,
             Begin(c, tn, batch)
      PROVE  TypeOK'
  BY <1>3, BeginTypes
<1>4. ASSUME NEW c \in Call, Step(c)
      PROVE  TypeOK'
  <2>1. CASE UnknownOperation(c)
    BY <2>1, RaiseTypes DEF UnknownOperation, Looking, Running
  <2>2. CASE ClaimConflict(c) \/ InsertConflict(c)
    BY <2>2, RetryTypes DEF ClaimConflict, InsertConflict, Running, database, TypeOK
  <2>3. CASE Commit(c)
    BY <2>3, CommitTypes
  <2> QED
    BY <1>4, <2>1, <2>2, <2>3, ForwardTypes DEF Step
<1>5. ASSUME NEW c \in Call, TransientError(c)
      PROVE  TypeOK'
  BY <1>5, RetryTypes DEF TransientError, database, TypeOK
<1>6. ASSUME NEW c \in Call, CommitLost(c)
      PROVE  TypeOK'
  BY <1>6, RetryTypes DEF CommitLost, BatchDone, Running, TableTypes
<1>7. ASSUME NEW c \in Call, Abort(c)
      PROVE  TypeOK'
  BY <1>7, RaiseTypes DEF Abort
<1> QED
  BY <1>1, <1>2, <1>3, <1>4, <1>5, <1>6, <1>7 DEF Next

------------------------------------------------------------------------------
\* Revisions, claims and what a session has in hand

CandidateBound ==
  \A c \in Call : pc[c] = "claim" => candidate[c] \in 1..HeadRevision(TenantOf(c)) + 1

Fresh ==
  \A c \in Call : pc[c] = "idle" =>
    revision[c] = Null /\ inserted[c] = {} /\ ended[c] = {}

\* What a session has inserted and closed comes from its batch and, until it
\* ends, changes what is active; one that has changed a row holds a revision.
SessionInv ==
  \A c \in Call :
    /\ pc[c] \in Running \cup {"done"} =>
         /\ Touched(job[c].batch) \cap Deleted(job[c].batch) = {}
         /\ inserted[c] \subseteq Touched(job[c].batch)
         /\ ended[c] \subseteq Deleted(job[c].batch)
    /\ pc[c] \in Running =>
         /\ revision[c] = Null => inserted[c] = {} /\ ended[c] = {}
         /\ pc[c] = "apply" => revision[c] # Null
         /\ inserted[c] \cap ActiveTuples(rows, TenantOf(c)) = {}
         /\ ended[c] \subseteq ActiveTuples(rows, TenantOf(c))

ClaimInv ==
  TypeOK /\ TablesInv /\ ClaimExclusive /\ CandidateBound /\ Fresh /\ SessionInv

LEMMA ClaimInit == Init => ClaimInv
<1> SUFFICES ASSUME Init PROVE ClaimInv
  OBVIOUS
<1>1. TypeOK
  BY MaxFaultsAssumption
     DEF Init, ReadInit, TypeOK, Row, Label, Null, Attempts
<1>2. TablesInv
  BY TablesInit DEF Init
<1>3. ClaimExclusive /\ CandidateBound /\ Fresh /\ SessionInv
  BY DEF Init, ClaimExclusive, CandidateBound, Fresh, SessionInv, Holds, Running
<1> QED
  BY <1>1, <1>2, <1>3 DEF ClaimInv

\* A step of call c.
CallStep(c) ==
  \/ \E tn \in Tenant, batch \in Batches : Begin(c, tn, batch)
  \/ Step(c) \/ TransientError(c) \/ CommitLost(c) \/ Abort(c)

Untouched(d) ==
  /\ pc'[d] = pc[d] /\ job'[d] = job[d]
  /\ candidate'[d] = candidate[d] /\ revision'[d] = revision[d]
  /\ inserted'[d] = inserted[d] /\ ended'[d] = ended[d]
  /\ token'[d] = token[d] /\ floor'[d] = floor[d]

LEMMA NextCases ==
  ASSUME [Next]_vars
  PROVE  \/ UNCHANGED <<database, calls>>
         \/ \E c \in Call : CallStep(c)
BY DEF Next, CallStep, ReadStep, vars

\* A call commits with the revision it holds, or writes nothing.
LEMMA DatabaseStep ==
  ASSUME NEW c \in Call, CallStep(c)
  PROVE  \/ UNCHANGED database
         \/ Holds(c) /\ BatchDone(c) /\ CommitRows(c)
<1>1. CASE Commit(c) \/ CommitLost(c)
  BY <1>1 DEF Commit, CommitLost, BatchDone, Holds, Running
<1>2. CASE \/ \E tn \in Tenant, batch \in Batches : Begin(c, tn, batch)
           \/ Step(c) /\ ~Commit(c)
           \/ TransientError(c) \/ Abort(c)
  BY <1>2 DEF Begin, Step, SkipMutation, KeepMutation, UnknownOperation, Raise,
              ReadMax, ClaimRevision, ClaimConflict, InsertRow, InsertConflict,
              CloseRow, NextMutation, NoOp, ReadHead, TransientError, Abort, database
<1> QED
  BY <1>1, <1>2 DEF CallStep, Step

LEMMA OthersStand ==
  ASSUME TypeOK, NEW c \in Call, CallStep(c), NEW d \in Call \ {c}
  PROVE  Untouched(d)
<1>1. ASSUME NEW tn \in Tenant, NEW batch \in Batches, Begin(c, tn, batch)
      PROVE  Untouched(d)
  BY <1>1 DEF Begin, Goto, session, TypeOK, Untouched
<1>2. CASE SkipMutation(c) \/ KeepMutation(c) \/ ReadMax(c) \/ ClaimRevision(c)
  BY <1>2 DEF SkipMutation, KeepMutation, ReadMax, ClaimRevision, Goto, session,
              TypeOK, Untouched
<1>3. CASE InsertRow(c) \/ CloseRow(c) \/ NoOp(c) \/ ReadHead(c) \/ Commit(c)
  BY <1>3 DEF InsertRow, CloseRow, NextMutation, NoOp, ReadHead, Commit, Goto,
              session, TypeOK, Untouched
<1>4. CASE Raise(c)
  BY <1>4 DEF Raise, Rollback, Goto, TypeOK, Untouched
<1>5. CASE Retry(c)
  BY <1>5 DEF Retry, Rollback, Goto, TypeOK, Untouched
<1> QED
  BY <1>1, <1>2, <1>3, <1>4, <1>5
     DEF CallStep, Step, UnknownOperation, ClaimConflict, InsertConflict,
         TransientError, CommitLost, Abort

\* Only ClaimRevision makes a call hold a revision; a holder that steps and
\* writes nothing keeps what it holds or lets go of it.
LEMMA ActorHolds ==
  ASSUME ClaimInv, NEW c \in Call, CallStep(c), ~ClaimRevision(c), Holds(c)'
  PROVE  /\ Holds(c) /\ revision'[c] = revision[c] /\ job'[c] = job[c]
         /\ UNCHANGED database
<1> USE DEF ClaimInv
<1>1. ASSUME NEW tn \in Tenant, NEW batch \in Batches, Begin(c, tn, batch)
      PROVE  FALSE
  BY <1>1 DEF Begin, session, Fresh, Holds
<1>2. CASE SkipMutation(c) \/ KeepMutation(c) \/ ReadMax(c)
  BY <1>2 DEF SkipMutation, KeepMutation, ReadMax, Looking, Goto, session, TypeOK,
              Holds, Running
<1>3. CASE InsertRow(c) \/ CloseRow(c)
  BY <1>3 DEF InsertRow, CloseRow, NextMutation, Goto, session, TypeOK, Holds, Running
<1>4. CASE NoOp(c) \/ ReadHead(c) \/ Commit(c)
  BY <1>4 DEF NoOp, ReadHead, Commit, Goto, session, TypeOK, Holds, Running
<1>5. CASE Rollback(c)
  BY <1>5 DEF Rollback, TypeOK, Holds
<1> QED
  BY <1>1, <1>2, <1>3, <1>4, <1>5
     DEF CallStep, Step, UnknownOperation, ClaimConflict, InsertConflict,
         TransientError, CommitLost, Abort, Raise, Retry

LEMMA ClaimTaken ==
  ASSUME ClaimInv, NEW c \in Call, ClaimRevision(c)
  PROVE  /\ revision'[c] = HeadRevision(TenantOf(c)) + 1
         /\ UNCHANGED <<database, job>>
         /\ \A d \in Call \ {c} : ~(Holds(d) /\ TenantOf(d) = TenantOf(c))
<1> DEFINE t == TenantOf(c)
<1>1. t \in Tenant
  BY TenantOfTypes DEF ClaimInv, ClaimRevision
<1>2. HeadRevision(t) \in Nat /\ revisions[t] = 1..HeadRevision(t)
  BY <1>1, HeadOfNumbered DEF ClaimInv, TablesInv
<1>3. candidate[c] = HeadRevision(t) + 1
  BY <1>2 DEF ClaimInv, CandidateBound, ClaimRevision
<1>4. revision'[c] = candidate[c] /\ UNCHANGED <<database, job>>
  BY DEF ClaimRevision, ClaimInv, TypeOK
<1>5. \A d \in Call \ {c} : ~(Holds(d) /\ TenantOf(d) = t)
  BY <1>3 DEF ClaimInv, ClaimExclusive, ClaimRevision, Waits
<1> QED
  BY <1>3, <1>4, <1>5

\* What a session that holds a revision commits is one commit of its tenant.
LEMMA SessionCommits ==
  ASSUME ClaimInv, NEW c \in Call, Holds(c), CommitRows(c),
         NEW t \in Tenant, t = TenantOf(c)
  PROVE  Commits(t, revision[c], inserted[c], ended[c])
<1>1. pc[c] \in Running
  BY DEF Holds
<1>2. revision[c] = HeadRevision(t) + 1
  BY DEF ClaimInv, ClaimExclusive
<1>3. /\ inserted[c] \subseteq Tuple
      /\ inserted[c] \cap ActiveTuples(rows, t) = {}
      /\ ended[c] \subseteq ActiveTuples(rows, t)
  BY <1>1 DEF ClaimInv, TypeOK, SessionInv
<1> QED
  BY <1>2, <1>3 DEF Commits, CommitRows

\* A call commits with the revision it holds, or writes nothing.
LEMMA CallCommits ==
  ASSUME ClaimInv, NEW c \in Call, CallStep(c)
  PROVE  \/ UNCHANGED database
         \/ /\ Holds(c) /\ BatchDone(c)
            /\ \E t \in Tenant : /\ t = TenantOf(c)
                                 /\ Commits(t, revision[c], inserted[c], ended[c])
<1>1. CASE Holds(c) /\ BatchDone(c) /\ CommitRows(c)
  <2>1. PICK t \in Tenant : t = TenantOf(c)
    BY <1>1, TenantOfTypes DEF ClaimInv, Holds, Running
  <2> QED
    BY <1>1, <2>1, SessionCommits
<1> QED
  BY <1>1, DatabaseStep

LEMMA CallTables ==
  ASSUME ClaimInv, NEW c \in Call, CallStep(c)
  PROVE  TablesStep
BY CallCommits DEF TablesStep

LEMMA ClaimExclusiveStep ==
  ASSUME ClaimInv, [Next]_vars
  PROVE  ClaimExclusive'
<1>1. CASE UNCHANGED <<database, calls>>
  BY <1>1 DEF ClaimInv, ClaimExclusive, Holds, TenantOf, HeadRevision,
              database, calls, session
<1>2. ASSUME NEW c \in Call, CallStep(c)
      PROVE  ClaimExclusive'
  <2> \A d \in Call \ {c} : Untouched(d)
    BY <1>2, OthersStand DEF ClaimInv
  <2>1. \A d \in Call \ {c} :
          /\ Holds(d)' = Holds(d)
          /\ revision'[d] = revision[d] /\ TenantOf(d)' = TenantOf(d)
    BY DEF Untouched, Holds, TenantOf
  <2>2. CASE ClaimRevision(c)
    <3>1. \A d \in Call : TenantOf(d)' = TenantOf(d)
      BY <2>2, ClaimTaken DEF TenantOf
    <3>2. \A tn : HeadRevision(tn)' = HeadRevision(tn)
      BY <2>2, ClaimTaken DEF HeadRevision, database
    <3> QED
      BY <2>1, <2>2, <3>1, <3>2, ClaimTaken DEF ClaimInv, ClaimExclusive
  <2>3. CASE ~ClaimRevision(c) /\ UNCHANGED database
    <3>1. \A tn : HeadRevision(tn)' = HeadRevision(tn)
      BY <2>3 DEF HeadRevision, database
    <3>2. Holds(c)' => /\ Holds(c) /\ revision'[c] = revision[c]
                       /\ TenantOf(c)' = TenantOf(c)
      BY <1>2, <2>3, ActorHolds DEF TenantOf
    <3> QED
      BY <2>1, <3>1, <3>2 DEF ClaimInv, ClaimExclusive
  <2>4. CASE ~UNCHANGED database
    <3>1. PICK t \in Tenant :
            /\ t = TenantOf(c) /\ Holds(c)
            /\ Commits(t, revision[c], inserted[c], ended[c])
      BY <1>2, <2>4, CallCommits
    <3>2. ~Holds(c)'
      BY <1>2, <2>4, ActorHolds, ClaimTaken
    <3>3. \A tn \in Tenant \ {t} : HeadRevision(tn)' = HeadRevision(tn)
      BY <3>1, HeadOfCommit DEF ClaimInv
    <3>4. \A d \in Call \ {c} : Holds(d) => TenantOf(d) \in Tenant \ {t}
      BY <3>1, TenantOfTypes DEF ClaimInv, ClaimExclusive, Holds, Running
    <3>5. \A d \in Call \ {c} : Holds(d) =>
            HeadRevision(TenantOf(d))' = HeadRevision(TenantOf(d))
      BY <2>1, <3>3, <3>4 DEF HeadRevision
    <3> QED
      BY <2>1, <3>2, <3>5 DEF ClaimInv, ClaimExclusive
  <2> QED
    BY <2>2, <2>3, <2>4, ClaimTaken
<1> QED
  BY <1>1, <1>2, NextCases

\* The mutation that a call is about to write is one of its batch.
LEMMA CurrentOfBatch ==
  ASSUME TypeOK, NEW c \in Call, pc[c] = "apply"
  PROVE  /\ Current(c).tuple \in Tuple
         /\ Current(c).op = "write"  => Current(c).tuple \in Touched(job[c].batch)
         /\ Current(c).op = "delete" => Current(c).tuple \in Deleted(job[c].batch)
<1>1. next[c] \in DOMAIN job[c].batch
  BY DEF TypeOK
<1>2. Current(c) \in Mutation /\ Current(c).tuple \in Tuple
  BY <1>1, CurrentTypes
<1>3. Current(c) = [tuple |-> Current(c).tuple, op |-> Current(c).op]
  BY <1>2 DEF Mutation
<1> QED
  BY <1>1, <1>2, <1>3 DEF Touched, Deleted, WithOp, Current

LEMMA SessionStep ==
  ASSUME ClaimInv, NEW c \in Call, CallStep(c)
  PROVE  SessionInv'
<1> USE DEF ClaimInv
<1> DEFINE InHand(d) ==
      /\ pc[d] \in Running \cup {"done"} =>
           /\ Touched(job[d].batch) \cap Deleted(job[d].batch) = {}
           /\ inserted[d] \subseteq Touched(job[d].batch)
           /\ ended[d] \subseteq Deleted(job[d].batch)
      /\ pc[d] \in Running =>
           /\ revision[d] = Null => inserted[d] = {} /\ ended[d] = {}
           /\ pc[d] = "apply" => revision[d] # Null
           /\ inserted[d] \cap ActiveTuples(rows, TenantOf(d)) = {}
           /\ ended[d] \subseteq ActiveTuples(rows, TenantOf(d))
<1>1. ASSUME NEW d \in Call \ {c}
      PROVE  InHand(d)'
  <2>1. Untouched(d)
    BY OthersStand
  <2>2. InHand(d)
    BY DEF SessionInv
  <2>3. CASE UNCHANGED database
    BY <2>1, <2>2, <2>3 DEF Untouched, TenantOf, database
  <2>4. CASE pc[d] \notin Running
    BY <2>1, <2>2, <2>4 DEF Untouched
  <2>5. ASSUME NEW t \in Tenant, t = TenantOf(c), Holds(c), pc[d] \in Running,
               Commits(t, revision[c], inserted[c], ended[c])
        PROVE  InHand(d)'
    <3>1. CASE TenantOf(d) = t
      <4>1. revision[d] = Null
        BY <2>5, <3>1 DEF ClaimExclusive, Holds
      <4> QED
        BY <2>1, <2>2, <2>5, <4>1 DEF Untouched
    <3>2. CASE TenantOf(d) # t
      <4>1. PICK tn \in Tenant \ {t} : tn = TenantOf(d)
        BY <2>5, <3>2, TenantOfTypes DEF Running
      <4>2. ActiveTuples(rows', tn) = ActiveTuples(rows, tn)
        BY <2>5, <4>1, ActiveElsewhere
      <4>3. TenantOf(d)' = tn
        BY <2>1, <4>1 DEF Untouched, TenantOf
      <4> QED
        BY <2>1, <2>2, <4>1, <4>2, <4>3 DEF Untouched
    <3> QED
      BY <3>1, <3>2
  <2> QED
    BY <2>3, <2>4, <2>5, CallCommits
<1>2. InHand(c)'
  <2> InHand(c)
    BY DEF SessionInv
  <2>1. ASSUME NEW tn \in Tenant, NEW batch \in Batches, Begin(c, tn, batch)
        PROVE  InHand(c)'
    BY <2>1 DEF Begin, Goto, session, TypeOK, Fresh, Conflicting, Running
  <2>2. CASE SkipMutation(c) \/ KeepMutation(c)
    BY <2>2 DEF SkipMutation, KeepMutation, Looking, Goto, session, database, TenantOf,
                Running, TypeOK
  <2>3. CASE ReadMax(c) \/ NoOp(c)
    BY <2>3 DEF ReadMax, NoOp, BatchDone, Goto, session, database, TenantOf, Running,
                TypeOK
  <2>4. CASE ClaimRevision(c)
    <3>1. revision'[c] # Null
      <4>1. pc[c] # "idle"
        BY <2>4 DEF ClaimRevision
      <4>2. HeadRevision(TenantOf(c)) \in Nat
        BY <4>1, TenantOfTypes, HeadOfNumbered DEF TablesInv
      <4>3. revision'[c] = HeadRevision(TenantOf(c)) + 1
        BY <2>4, ClaimTaken
      <4> QED
        BY <4>2, <4>3 DEF Null
    <3> QED
      BY <2>4, <3>1 DEF ClaimRevision, Goto, database, TenantOf, Running, TypeOK
  <2>5. CASE InsertRow(c)
    <3>1. /\ inserted'[c] = inserted[c] \cup {Current(c).tuple}
          /\ Current(c).tuple \in Touched(job[c].batch)
          /\ Current(c).tuple \notin ActiveTuples(rows, TenantOf(c)) \ ended[c]
          /\ UNCHANGED <<database, job, ended, revision>>
          /\ pc'[c] = "lookup" /\ pc[c] = "apply"
      BY <2>5, CurrentOfBatch DEF InsertRow, SeenActive, NextMutation, Goto, TypeOK
    <3>2. Current(c).tuple \notin ActiveTuples(rows, TenantOf(c))
      BY <3>1 DEF Running
    <3> QED
      BY <3>1, <3>2 DEF database, TenantOf, Running
  <2>6. CASE CloseRow(c)
    <3>1. /\ ended'[c] = ended[c] \cup ({Current(c).tuple} \cap SeenActive(c))
          /\ Current(c).tuple \in Deleted(job[c].batch)
          /\ UNCHANGED <<database, job, inserted, revision>>
          /\ pc'[c] = "lookup" /\ pc[c] = "apply"
      BY <2>6, CurrentOfBatch DEF CloseRow, NextMutation, Goto, TypeOK
    <3>2. Current(c).tuple \notin inserted[c]
      BY <3>1 DEF Running
    <3>3. ended'[c] \subseteq ActiveTuples(rows, TenantOf(c))
      BY <3>1, <3>2 DEF SeenActive, Running
    <3> QED
      BY <3>1, <3>3 DEF database, TenantOf, Running
  <2>7. CASE ReadHead(c) \/ Commit(c)
    BY <2>7 DEF ReadHead, Commit, BatchDone, Goto, session, Running, TypeOK
  <2>8. CASE Raise(c)
    BY <2>8 DEF Raise, Goto, TypeOK, Running
  <2>9. CASE Retry(c) /\ pc[c] \in Running
    BY <2>9 DEF Retry, Rollback, Goto, TypeOK, Running
  <2> QED
    BY <2>1, <2>2, <2>3, <2>4, <2>5, <2>6, <2>7, <2>8, <2>9
       DEF CallStep, Step, UnknownOperation, ClaimConflict, InsertConflict,
           TransientError, CommitLost, BatchDone, Abort, Running
<1> QED
  BY <1>1, <1>2 DEF SessionInv

LEMMA CandidateStep ==
  ASSUME ClaimInv, NEW c \in Call, CallStep(c)
  PROVE  CandidateBound'
<1> USE DEF ClaimInv
<1> SUFFICES ASSUME NEW d \in Call, pc'[d] = "claim"
             PROVE  candidate'[d] \in 1..HeadRevision(TenantOf(d))' + 1
  BY DEF CandidateBound
<1>1. CASE d # c
  <2>1. Untouched(d)
    BY <1>1, OthersStand
  <2>2. pc[d] = "claim" /\ candidate'[d] = candidate[d]
    BY <2>1 DEF Untouched
  <2>3. PICK t \in Tenant : t = TenantOf(d) /\ t = TenantOf(d)'
    BY <2>1, <2>2, TenantOfTypes DEF Untouched, TenantOf
  <2>4. candidate[d] \in 1..HeadRevision(t) + 1
    BY <2>2, <2>3 DEF CandidateBound
  <2>5. /\ HeadRevision(t) \in Nat /\ HeadRevision(t)' \in Nat
        /\ HeadRevision(t) <= HeadRevision(t)'
    BY CallTables, HeadsGrow
  <2>6. HeadRevision(TenantOf(d))' = HeadRevision(t)'
    BY <2>3 DEF HeadRevision
  <2> QED
    BY <2>2, <2>4, <2>5, <2>6
<1>2. CASE d = c
  <2>1. ReadMax(c)
    BY <1>2 DEF CallStep, Step, Begin, SkipMutation, KeepMutation, Looking,
           UnknownOperation, Raise, ClaimRevision, ClaimConflict, Retry,
           InsertRow, InsertConflict, CloseRow, NextMutation, NoOp, ReadHead,
           TransientError, Abort, Commit, CommitLost, Goto, TypeOK
  <2>2. /\ candidate'[c] = HeadRevision(TenantOf(c)) + 1
        /\ UNCHANGED <<database, job>>
    BY <2>1 DEF ReadMax, TypeOK
  <2>3. HeadRevision(TenantOf(c)) \in Nat
    BY <2>1, TenantOfTypes, HeadOfNumbered DEF ReadMax, TablesInv
  <2> QED
    BY <1>2, <2>2, <2>3 DEF HeadRevision, TenantOf, database
<1> QED
  BY <1>1, <1>2

LEMMA FreshStep ==
  ASSUME ClaimInv, NEW c \in Call, CallStep(c)
  PROVE  Fresh'
<1>1. pc'[c] # "idle"
  BY DEF CallStep, Step, Begin, SkipMutation, KeepMutation, Looking,
         UnknownOperation, Raise, ReadMax, ClaimRevision, ClaimConflict, Retry,
         InsertRow, InsertConflict, CloseRow, NextMutation, NoOp, ReadHead,
         TransientError, Abort, Commit, CommitLost, Goto, ClaimInv, TypeOK,
         BatchDone, Running
<1>2. \A d \in Call \ {c} : Untouched(d)
  BY OthersStand DEF ClaimInv
<1> QED
  BY <1>1, <1>2 DEF ClaimInv, Fresh, Untouched

LEMMA ClaimStep ==
  ASSUME ClaimInv, [Next]_vars
  PROVE  ClaimInv'
<1>1. TablesInv'
  BY NextCases, CallTables, TablesKept DEF ClaimInv, TablesStep
<1>2. TypeOK'
  BY <1>1, TypeStep DEF ClaimInv, TablesInv
<1>3. ClaimExclusive'
  BY ClaimExclusiveStep
<1>4. CASE UNCHANGED <<database, calls>>
  BY <1>1, <1>2, <1>3, <1>4
     DEF ClaimInv, CandidateBound, Fresh, SessionInv, TenantOf, HeadRevision,
         database, calls, session
<1>5. CASE \E c \in Call : CallStep(c)
  BY <1>1, <1>2, <1>3, <1>5, CandidateStep, FreshStep, SessionStep DEF ClaimInv
<1> QED
  BY <1>4, <1>5, NextCases

LEMMA ClaimInvariant == Spec => []ClaimInv
<1>1. ClaimInv /\ [Next]_vars => ClaimInv'
  BY ClaimStep
<1> QED
  BY <1>1, ClaimInit, PTL DEF Spec

\* Every variable of the calls keeps its type, for any number of calls,
\* tenants, tuples, batches and faults.
THEOREM TypeInvariant == Spec => []TypeOK
<1>1. ClaimInv => TypeOK
  BY DEF ClaimInv
<1> QED
  BY <1>1, ClaimInvariant, PTL

\* MAX(revision) + 1 with the primary key as the only lock numbers the commits
\* of each tenant 1, 2, 3, ... whatever races, fails or is tried again.
THEOREM DenseRevisions == Spec => []RevisionsDense
<1>1. ClaimInv => RevisionsDense
  BY HeadOfNumbered DEF ClaimInv, TablesInv, RevisionsDense
<1> QED
  BY <1>1, ClaimInvariant, PTL

\* Holding the row of revision head + 1 is a lock on the tenant: no two
\* sessions that have something to commit overlap.
THEOREM WritersSerialised == Spec => []ClaimExclusive
<1>1. ClaimInv => ClaimExclusive
  BY DEF ClaimInv
<1> QED
  BY <1>1, ClaimInvariant, PTL

\* A tuple is visible at most once at any revision, whichever writers raced
\* on it: one window ends before the next begins.
THEOREM DisjointWindows == Spec => []WindowsDisjoint
<1>1. ClaimInv => WindowsDisjoint
  BY DEF ClaimInv, TablesInv
<1> QED
  BY <1>1, ClaimInvariant, PTL

------------------------------------------------------------------------------
\* Tokens

TokenBound ==
  \A c \in Call :
    /\ pc[c] # "idle" => floor[c] <= HeadRevision(TenantOf(c))
    /\ Done(c) => floor[c] <= token[c] /\ token[c] <= HeadRevision(TenantOf(c))

TokenInv == ClaimInv /\ TokenBound

LEMMA TokenStep ==
  ASSUME TokenInv, NEW c \in Call, CallStep(c)
  PROVE  TokenBound'
<1> USE DEF TokenInv, ClaimInv
<1> DEFINE Bound(d) ==
      /\ pc[d] # "idle" => floor[d] <= HeadRevision(TenantOf(d))
      /\ Done(d) => floor[d] <= token[d] /\ token[d] <= HeadRevision(TenantOf(d))
<1>1. ASSUME NEW d \in Call \ {c}
      PROVE  Bound(d)'
  <2>1. Untouched(d)
    BY OthersStand
  <2>2. CASE pc[d] = "idle"
    BY <2>1, <2>2 DEF Untouched, Done
  <2>3. CASE pc[d] # "idle"
    <3>1. PICK t \in Tenant : t = TenantOf(d)
      BY <2>3, TenantOfTypes
    <3>2. TenantOf(d)' = t
      BY <2>1, <3>1 DEF Untouched, TenantOf
    <3>3. HeadRevision(TenantOf(d))' = HeadRevision(t)'
      BY <3>2 DEF HeadRevision
    <3>4. /\ HeadRevision(t) \in Nat /\ HeadRevision(t)' \in Nat
          /\ HeadRevision(t) <= HeadRevision(t)'
      BY CallTables, HeadsGrow
    <3>5. floor[d] \in Nat /\ token[d] \in Nat
      BY DEF TypeOK
    <3>6. Bound(d)
      BY DEF TokenBound
    <3> QED
      BY <2>1, <2>3, <3>1, <3>3, <3>4, <3>5, <3>6 DEF Untouched, Done
  <2> QED
    BY <2>2, <2>3
<1>2. Bound(c)'
  <2>1. ASSUME NEW tn \in Tenant, NEW batch \in Batches, Begin(c, tn, batch)
        PROVE  Bound(c)'
    <3>1. TenantOf(c)' = tn /\ revisions' = revisions
      BY <2>1 DEF Begin, TypeOK, TenantOf, database
    <3>2. HeadRevision(TenantOf(c))' = HeadRevision(tn)
      BY <3>1 DEF HeadRevision
    <3>3. HeadRevision(tn) \in Nat
      BY HeadOfNumbered DEF TablesInv
    <3> QED
      BY <2>1, <3>2, <3>3 DEF Begin, Goto, TypeOK, Done
  <2>2. CASE ~\E tn \in Tenant, batch \in Batches : Begin(c, tn, batch)
    <3>1. pc[c] # "idle" /\ ~Done(c) /\ job' = job /\ floor' = floor
      BY <2>2 DEF CallStep, Step, SkipMutation, KeepMutation, Looking, ReadMax,
                  ClaimRevision, InsertRow, CloseRow, NextMutation, NoOp, BatchDone,
                  ReadHead, Commit, UnknownOperation, ClaimConflict, InsertConflict,
                  TransientError, CommitLost, Abort, Raise, Retry, Done, Running
    <3>2. PICK t \in Tenant : t = TenantOf(c)
      BY <3>1, TenantOfTypes
    <3>3. TenantOf(c)' = t
      BY <3>1, <3>2 DEF TenantOf
    <3>4. HeadRevision(TenantOf(c))' = HeadRevision(t)'
      BY <3>3 DEF HeadRevision
    <3>5. /\ HeadRevision(t) \in Nat /\ HeadRevision(t)' \in Nat
          /\ HeadRevision(t) <= HeadRevision(t)'
      BY CallTables, HeadsGrow
    <3>6. floor[c] \in Nat /\ floor[c] <= HeadRevision(t)
      BY <3>1, <3>2 DEF TokenBound, TypeOK
    <3>7. CASE Commit(c)
      <4>1. Holds(c) /\ CommitRows(c) /\ token'[c] = revision[c]
        BY <3>7 DEF Commit, BatchDone, Holds, Running, TypeOK
      <4>2. /\ HeadRevision(t)' = revision[c]
            /\ revision[c] = HeadRevision(t) + 1
        BY <3>2, <4>1, SessionCommits, HeadOfCommit
      <4> QED
        BY <3>1, <3>4, <3>5, <3>6, <4>1, <4>2
    <3>8. CASE ReadHead(c)
      <4>1. token'[c] = HeadRevision(t) /\ revisions' = revisions
        BY <3>2, <3>8 DEF ReadHead, TypeOK, database
      <4>2. HeadRevision(t)' = HeadRevision(t)
        BY <4>1 DEF HeadRevision
      <4> QED
        BY <3>1, <3>4, <3>5, <3>6, <4>1, <4>2
    <3>9. CASE ~Commit(c) /\ ~ReadHead(c)
      <4>1. ~Done(c)'
        BY <2>2, <3>1, <3>9 DEF CallStep, Step, SkipMutation, KeepMutation, ReadMax,
               ClaimRevision, InsertRow, CloseRow, NextMutation, NoOp, BatchDone, Looking,
               UnknownOperation, ClaimConflict, InsertConflict, TransientError,
               CommitLost, Abort, Raise, Retry, Goto, Done, TypeOK
      <4> QED
        BY <3>1, <3>4, <3>5, <3>6, <4>1
    <3> QED
      BY <3>7, <3>8, <3>9
  <2> QED
    BY <2>1, <2>2
<1> QED
  BY <1>1, <1>2 DEF TokenBound

\* The revision write returns lies between what was committed when write was
\* called and the head of its tenant now: tokens of calls that follow one
\* another never go back, whichever way the call found its revision.
THEOREM FreshTokens == Spec => []TokenNotStale
<1>1. Init => TokenInv
  <2>1. Init => TokenBound
    BY DEF Init, TokenBound, Done
  <2> QED
    BY <2>1, ClaimInit DEF TokenInv
<1>2. TokenInv /\ [Next]_vars => TokenInv'
  <2> SUFFICES ASSUME TokenInv, [Next]_vars PROVE TokenInv'
    OBVIOUS
  <2>1. ClaimInv'
    BY ClaimStep DEF TokenInv
  <2>2. CASE UNCHANGED <<database, calls>>
    BY <2>1, <2>2 DEF TokenInv, TokenBound, Done, HeadRevision, TenantOf, database, calls
  <2>3. CASE \E c \in Call : CallStep(c)
    BY <2>1, <2>3, TokenStep DEF TokenInv
  <2> QED
    BY <2>2, <2>3, NextCases
<1>3. TokenInv => TokenNotStale
  BY DEF TokenInv, TokenBound, TokenNotStale
<1> QED
  BY <1>1, <1>2, <1>3, PTL DEF Spec

------------------------------------------------------------------------------
\* Reads, watches and the abstract store

\* Every step reads the tables or commits what a session has in hand.
LEMMA ReaderCases ==
  ASSUME ClaimInv, [Next]_vars
  PROVE  ReadStep \/ (TablesStep /\ UNCHANGED readVars)
<1>1. ASSUME NEW c \in Call, CallStep(c)
      PROVE  UNCHANGED readVars
  BY <1>1
     DEF CallStep, Begin, Step, SkipMutation, KeepMutation, UnknownOperation, Raise,
         Retry, ReadMax, ClaimRevision, ClaimConflict, InsertRow, InsertConflict,
         CloseRow, NextMutation, NoOp, ReadHead, Commit, TransientError, CommitLost,
         Abort
<1>2. CASE UNCHANGED vars
  BY <1>2 DEF vars, TablesStep
<1>3. CASE \E c \in Call : CallStep(c)
  BY <1>1, <1>3, CallTables
<1>4. Next => ReadStep \/ \E c \in Call : CallStep(c)
  BY DEF Next, CallStep
<1> QED
  BY <1>2, <1>3, <1>4

LEMMA ReadInvariant == Spec => []ReadInv
<1>1. ReadInv /\ ClaimInv /\ [Next]_vars => ReadInv'
  BY ReaderCases, ReadsKept DEF readVars
<1>2. Init => ReadInv
  BY ReadsInit DEF Init
<1> QED
  BY <1>1, <1>2, ClaimInvariant, PTL DEF Spec

\* Whatever is committed during a read or after it, what the read returned is
\* the snapshot of the revision it was pinned to: rows that are closed later
\* keep their place in the revisions before.
THEOREM SnapshotReads == Spec => []ReadIsSnapshot
BY ReadInvariant, ReadsAreSnapshots, PTL

\* A call of the client that reads more than once, each time in sessions of
\* its own, answers from one revision, and from one its consistency policy
\* allows, however many batches are committed between its reads.
THEOREM OneSnapshotPerCall == Spec => []CallReadsOneSnapshot
BY ReadInvariant, CallsReadOneSnapshot, PTL

\* A watch yields all that was committed after its `after` and before it
\* began: its writes up to some revision, its deletes up to one no earlier,
\* whatever is committed before, between or after its two SELECTs.
THEOREM WatchesCover == Spec => []WatchCovers
<1>1. WatchInv /\ ClaimInv /\ [Next]_vars => WatchInv'
  BY ReaderCases, WatchesKept DEF readVars
<1>2. Init => WatchInv
  BY WatchesInit DEF Init
<1> QED
  BY <1>1, <1>2, ClaimInvariant, SoundWatchesCover, PTL DEF Spec

\* The tables, read as snapshots and changes, behave as the abstract store:
\* every step of every call, reader and watch commits one batch of one tenant
\* as the next revision, or changes nothing that anybody can read.
THEOREM SqlImplementsStore == Spec => ImplementsStore
<1>1. ClaimInv /\ [Next]_vars => [Store!Next]_(Store!vars)
  <2> SUFFICES ASSUME ClaimInv, [Next]_vars PROVE [Store!Next]_(Store!vars)
    OBVIOUS
  <2>1. TablesStep
    BY ReaderCases DEF ReadStep, TablesStep
  <2> QED
    BY <2>1, StoreStep DEF ClaimInv
<1>2. Init => Store!Init
  BY StoreInit DEF Init
<1> QED
  BY <1>1, <1>2, ClaimInvariant, PTL DEF Spec, ImplementsStore, Store!Spec

------------------------------------------------------------------------------
\* What the callers of write may rely on: their revision holds exactly their
\* own changes, and all they asked for held while they waited.

\* What a call holds when it commits: the next revision, and changes that are
\* changes of what is active.
LEMMA CommitterHolds ==
  ASSUME ClaimInv, NEW c \in Call, Holds(c), CommitRows(c),
         NEW t \in Tenant, t = TenantOf(c)
  PROVE  /\ HeadRevision(t) \in Nat
         /\ revision[c] = HeadRevision(t) + 1
         /\ HeadRevision(t)' = revision[c]
         /\ inserted[c] \cap ended[c] = {}
         /\ CreatedAt(rows', t, revision[c]) = inserted[c]
         /\ DeletedAt(rows', t, revision[c]) = ended[c]
         /\ VisibleAt(rows', t, revision[c]) =
              (ActiveTuples(rows, t) \cup inserted[c]) \ ended[c]
<1>1. Commits(t, revision[c], inserted[c], ended[c])
  BY SessionCommits
<1>2. inserted[c] \cap ended[c] = {}
  BY <1>1 DEF Commits
<1> QED
  BY <1>1, <1>2, HeadOfCommit, NewRevision DEF ClaimInv

------------------------------------------------------------------------------
\* One revision per commit

\* The record of a call that has committed, and of one that had nothing to.
CommittedInv ==
  \A c \in Call :
    /\ pc[c] = "head" => revision[c] = Null
    /\ Done(c) /\ revision[c] # Null =>
         /\ token[c] \in 1..HeadRevision(TenantOf(c))
         /\ CreatedAt(rows, TenantOf(c), token[c]) = inserted[c]
         /\ DeletedAt(rows, TenantOf(c), token[c]) = ended[c]

DistinctTokens ==
  \A c, d \in Call :
    /\ Done(c) /\ Done(d) /\ c # d /\ TenantOf(c) = TenantOf(d)
    /\ revision[c] # Null /\ revision[d] # Null
    => token[c] # token[d]

\* Only Commit ends a call that has something to show for it.
LEMMA DoneByCommit ==
  ASSUME ClaimInv, CommittedInv, NEW c \in Call, CallStep(c), ~Commit(c)
  PROVE  /\ pc'[c] = "head" => revision'[c] = Null
         /\ Done(c)' => revision'[c] = Null
<1> USE DEF ClaimInv, TablesInv
<1>1. ASSUME NEW tn \in Tenant, NEW batch \in Batches, Begin(c, tn, batch)
      PROVE  pc'[c] \notin {"head", "done"}
  BY <1>1 DEF Begin, Goto, TypeOK
<1>2. CASE SkipMutation(c) \/ KeepMutation(c) \/ ReadMax(c) \/ ClaimRevision(c)
           \/ InsertRow(c) \/ CloseRow(c)
  BY <1>2 DEF SkipMutation, KeepMutation, Looking, ReadMax, ClaimRevision, InsertRow,
              CloseRow, NextMutation, Goto, TypeOK, Done
<1>3. CASE NoOp(c)
  BY <1>3 DEF NoOp, Goto, session, TypeOK, Done
<1>4. CASE ReadHead(c)
  BY <1>4 DEF ReadHead, Goto, session, TypeOK, Done, CommittedInv
<1>5. CASE Raise(c) \/ Retry(c)
  BY <1>5 DEF Raise, Retry, Goto, TypeOK, Done
<1> QED
  BY <1>1, <1>2, <1>3, <1>4, <1>5
     DEF CallStep, Step, UnknownOperation, ClaimConflict, InsertConflict,
         TransientError, CommitLost, Abort, Done

\* What was recorded of a call that is done stays true of it.
LEMMA RecordStands ==
  ASSUME ClaimInv, CommittedInv, NEW c \in Call, CallStep(c), NEW d \in Call \ {c}
  PROVE  /\ pc'[d] = "head" => revision'[d] = Null
         /\ Done(d)' /\ revision'[d] # Null =>
              /\ token'[d] \in 1..HeadRevision(TenantOf(d))'
              /\ CreatedAt(rows', TenantOf(d)', token'[d]) = inserted'[d]
              /\ DeletedAt(rows', TenantOf(d)', token'[d]) = ended'[d]
<1> USE DEF ClaimInv, TablesInv
<1>1. Untouched(d)
  BY OthersStand
<1>2. CASE Done(d) /\ revision[d] # Null
  <2>1. PICK t \in Tenant : t = TenantOf(d)
    BY <1>2, TenantOfTypes DEF Done
  <2>2. TenantOf(d)' = t /\ token'[d] = token[d]
    BY <1>1, <2>1 DEF Untouched, TenantOf
  <2>3. HeadRevision(TenantOf(d))' = HeadRevision(t)'
    BY <2>2 DEF HeadRevision
  <2>4. /\ token[d] \in 1..HeadRevision(t)
        /\ CreatedAt(rows, t, token[d]) = inserted[d]
        /\ DeletedAt(rows, t, token[d]) = ended[d]
    BY <1>2, <2>1 DEF CommittedInv
  <2>5. /\ HeadRevision(t) \in Nat /\ HeadRevision(t)' \in Nat
        /\ HeadRevision(t) <= HeadRevision(t)'
    BY CallTables, HeadsGrow
  <2>6. /\ CreatedAt(rows', t, token[d]) = CreatedAt(rows, t, token[d])
        /\ DeletedAt(rows', t, token[d]) = DeletedAt(rows, t, token[d])
    BY <2>4, CallTables, ChangesStand DEF ClaimInv
  <2>7. token'[d] \in 1..HeadRevision(t)'
    BY <2>2, <2>4, <2>5
  <2> QED
    BY <1>1, <1>2, <2>2, <2>3, <2>4, <2>6, <2>7 DEF Untouched, Done
<1> QED
  BY <1>1, <1>2 DEF Untouched, Done, CommittedInv

\* What Commit records of its call.
LEMMA CommitRecords ==
  ASSUME ClaimInv, NEW c \in Call, Commit(c), NEW t \in Tenant, t = TenantOf(c)
  PROVE  /\ Done(c)' /\ TenantOf(c)' = t
         /\ token'[c] = revision[c] /\ token'[c] = HeadRevision(t) + 1
         /\ token'[c] \in 1..HeadRevision(t)'
         /\ CreatedAt(rows', t, token'[c]) = inserted'[c]
         /\ DeletedAt(rows', t, token'[c]) = ended'[c]
<1> USE DEF ClaimInv, TablesInv
<1>1. /\ Holds(c) /\ CommitRows(c) /\ token'[c] = revision[c] /\ pc'[c] = "done"
      /\ inserted' = inserted /\ ended' = ended /\ job' = job
  BY DEF Commit, BatchDone, Holds, Running, Goto, session, TypeOK
<1>2. HeadRevision(t) \in Nat /\ revision[c] = HeadRevision(t) + 1
      /\ HeadRevision(t)' = revision[c]
  BY <1>1, CommitterHolds
<1>3. token'[c] \in 1..HeadRevision(t)'
  BY <1>1, <1>2
<1>4. /\ CreatedAt(rows', t, token'[c]) = inserted'[c]
      /\ DeletedAt(rows', t, token'[c]) = ended'[c]
  BY <1>1, CommitterHolds
<1> QED
  BY <1>1, <1>2, <1>3, <1>4 DEF Done, TenantOf

RecordInv == ClaimInv /\ CommittedInv /\ DistinctTokens

LEMMA RecordStep ==
  ASSUME RecordInv, NEW c \in Call, CallStep(c)
  PROVE  CommittedInv' /\ DistinctTokens'
<1> USE DEF RecordInv
<1>1. ASSUME NEW d \in Call \ {c}
      PROVE  /\ Untouched(d) /\ TenantOf(d)' = TenantOf(d) /\ Done(d)' = Done(d)
  BY OthersStand DEF Untouched, TenantOf, Done, ClaimInv
<1>2. CASE Commit(c)
  <2>1. PICK t \in Tenant : t = TenantOf(c)
    BY <1>2, TenantOfTypes
       DEF Commit, BatchDone, ClaimInv
  <2>2. /\ Done(c)' /\ TenantOf(c)' = t
        /\ token'[c] = HeadRevision(t) + 1
        /\ token'[c] \in 1..HeadRevision(t)'
        /\ CreatedAt(rows', t, token'[c]) = inserted'[c]
        /\ DeletedAt(rows', t, token'[c]) = ended'[c]
    BY <1>2, <2>1, CommitRecords
  <2>3. HeadRevision(TenantOf(c))' = HeadRevision(t)'
    BY <2>2 DEF HeadRevision
  <2>4. CommittedInv'
    BY <2>2, <2>3, RecordStands DEF CommittedInv, Done
  <2>5. HeadRevision(t) \in Nat
    BY HeadOfNumbered DEF ClaimInv, TablesInv
  <2>6. ASSUME NEW d \in Call \ {c}, Done(d), TenantOf(d) = t, revision[d] # Null
        PROVE  token[d] # token'[c]
    BY <2>1, <2>2, <2>5, <2>6 DEF CommittedInv
  <2>7. DistinctTokens'
    BY <1>1, <2>1, <2>2, <2>6 DEF DistinctTokens, Untouched
  <2> QED
    BY <2>4, <2>7
<1>3. CASE ~Commit(c)
  <2>1. CommittedInv'
    BY <1>3, DoneByCommit, RecordStands DEF CommittedInv
  <2>2. Done(c)' => revision'[c] = Null
    BY <1>3, DoneByCommit
  <2>3. DistinctTokens'
    BY <1>1, <2>2 DEF DistinctTokens, Untouched
  <2> QED
    BY <2>1, <2>3
<1> QED
  BY <1>2, <1>3

\* Two calls that both committed something got different tokens, and what is
\* stored under the token of a call is exactly what its own statements did,
\* whichever calls raced it, failed or committed after it.
THEOREM CommitsKeepApart == Spec => []OneRevisionPerCommit
<1>1. Init => RecordInv
  <2>1. Init => ClaimInv
    BY ClaimInit
  <2>2. Init => CommittedInv /\ DistinctTokens
    BY DEF Init, CommittedInv, DistinctTokens, Done
  <2> QED
    BY <2>1, <2>2 DEF RecordInv
<1>2. RecordInv /\ [Next]_vars => RecordInv'
  <2> SUFFICES ASSUME RecordInv, [Next]_vars PROVE RecordInv'
    OBVIOUS
  <2>1. ClaimInv'
    BY ClaimStep DEF RecordInv
  <2>2. CASE UNCHANGED <<database, calls>>
    BY <2>1, <2>2 DEF RecordInv, CommittedInv, DistinctTokens, Done, TenantOf,
                      HeadRevision, database, calls, session
  <2>3. CASE \E c \in Call : CallStep(c)
    BY <2>1, <2>3, RecordStep DEF RecordInv
  <2> QED
    BY <2>2, <2>3, NextCases
<1>3. RecordInv => OneRevisionPerCommit
  BY DEF RecordInv, CommittedInv, DistinctTokens, OneRevisionPerCommit
<1> QED
  BY <1>1, <1>2, <1>3, PTL DEF Spec

------------------------------------------------------------------------------
\* What a call was asked to do held at some time during the call

\* Mutation m held at one of the revisions lo..hi of rows T, or is among what
\* a session has still to commit.
HeldIn(m, T, tn, lo, hi, ins, del) ==
  /\ m.op = "write" =>
       m.tuple \in ins \/ \E r \in lo..hi : m.tuple \in VisibleAt(T, tn, r)
  /\ m.op = "delete" =>
       m.tuple \in del \/ \E r \in lo..hi : m.tuple \notin VisibleAt(T, tn, r)

HeadFor(c) == HeadRevision(TenantOf(c))

HeldWhileRunning(c) ==
  \A i \in DOMAIN job[c].batch : i < next[c] =>
    HeldIn(job[c].batch[i], rows, TenantOf(c), floor[c], HeadFor(c), inserted[c], ended[c])

HeldWhenDone(c) ==
  \A i \in DOMAIN job[c].batch :
    HeldIn(job[c].batch[i], rows, TenantOf(c), floor[c], token[c], {}, {})

HeldCall(c) ==
  /\ pc[c] = "idle" => next[c] = 1
  /\ pc[c] \in Running => HeldWhileRunning(c)
  /\ pc[c] = "head" => revision[c] = Null /\ next[c] \notin DOMAIN job[c].batch
  /\ Done(c) => HeldWhenDone(c)

HeldInv == ClaimInv /\ TokenBound /\ \A c \in Call : HeldCall(c)

LEMMA HeldStands ==
  ASSUME NEW m, NEW T, NEW T2, NEW tn, NEW lo \in Nat, NEW hi \in Nat, NEW hi2 \in Nat,
         NEW ins, NEW ins2, NEW del, NEW del2,
         hi <= hi2, ins \subseteq ins2, del \subseteq del2,
         \A r \in lo..hi : VisibleAt(T2, tn, r) = VisibleAt(T, tn, r),
         HeldIn(m, T, tn, lo, hi, ins, del)
  PROVE  HeldIn(m, T2, tn, lo, hi2, ins2, del2)
<1>1. \A r \in lo..hi : r \in lo..hi2
  OBVIOUS
<1> QED
  BY <1>1 DEF HeldIn

\* Snapshots up to the head stand, whichever call steps.
LEMMA StepKeepsSnapshots ==
  ASSUME ClaimInv, NEW c \in Call, CallStep(c), NEW tn \in Tenant
  PROVE  /\ HeadRevision(tn) \in Nat /\ HeadRevision(tn)' \in Nat
         /\ HeadRevision(tn) <= HeadRevision(tn)'
         /\ \A r \in 0..HeadRevision(tn) :
              VisibleAt(rows', tn, r) = VisibleAt(rows, tn, r)
<1>1. /\ HeadRevision(tn) \in Nat /\ HeadRevision(tn)' \in Nat
      /\ HeadRevision(tn) <= HeadRevision(tn)'
  BY CallTables, HeadsGrow DEF ClaimInv
<1>2. ASSUME NEW r \in 0..HeadRevision(tn)
      PROVE  VisibleAt(rows', tn, r) = VisibleAt(rows, tn, r)
  <2>1. r \in Nat /\ r <= HeadRevision(tn)
    BY <1>1
  <2> QED
    BY <2>1, CallTables, SnapshotsStand DEF ClaimInv
<1> QED
  BY <1>1, <1>2

\* What holds of a call survives the steps of the others.
LEMMA OthersHeld ==
  ASSUME HeldInv, NEW c \in Call, CallStep(c), NEW d \in Call \ {c}
  PROVE  HeldCall(d)'
<1> USE DEF HeldInv
<1>1. Untouched(d)
  BY OthersStand DEF ClaimInv, TablesInv
<1>2. next'[d] = next[d]
  BY DEF CallStep, Begin, Step, SkipMutation, KeepMutation, UnknownOperation, Raise,
         Retry, Rollback, ReadMax, ClaimRevision, ClaimConflict, InsertRow,
         InsertConflict, CloseRow, NextMutation, NoOp, ReadHead, Commit,
         TransientError, CommitLost, Abort, session, ClaimInv,
         TypeOK
<1>3. HeldCall(d)
  OBVIOUS
<1>4. CASE pc[d] \in Running \/ Done(d)
  <2>1. PICK t \in Tenant : t = TenantOf(d)
    BY <1>4, TenantOfTypes DEF Done, Running, ClaimInv
  <2>2. TenantOf(d)' = t /\ HeadFor(d)' = HeadRevision(t)'
    BY <1>1, <2>1 DEF Untouched, TenantOf, HeadFor
  <2>3. /\ HeadRevision(t) \in Nat /\ HeadRevision(t)' \in Nat
        /\ HeadRevision(t) <= HeadRevision(t)'
        /\ \A r \in 0..HeadRevision(t) : VisibleAt(rows', t, r) = VisibleAt(rows, t, r)
    BY StepKeepsSnapshots
  <2>4. floor[d] \in Nat /\ token[d] \in Nat
    BY DEF ClaimInv, TypeOK
  <2>5. CASE pc[d] \in Running
    <3>1. \A r \in floor[d]..HeadRevision(t) : VisibleAt(rows', t, r) = VisibleAt(rows, t, r)
      BY <2>3, <2>4
    <3>2. HeldWhileRunning(d)
      BY <1>3, <2>5 DEF HeldCall
    <3>3. ASSUME NEW i \in DOMAIN job[d].batch, i < next[d]
          PROVE  HeldIn(job[d].batch[i], rows', t, floor[d], HeadRevision(t)',
                        inserted[d], ended[d])
      BY <2>1, <2>3, <2>4, <3>1, <3>2, <3>3, HeldStands DEF HeldWhileRunning, HeadFor
    <3>4. HeldWhileRunning(d)'
      BY <1>1, <1>2, <2>2, <3>3 DEF HeldWhileRunning, Untouched
    <3> QED
      BY <1>1, <1>2, <1>3, <2>5, <3>4 DEF HeldCall, Untouched, Done, Running
  <2>6. CASE Done(d)
    <3>1. token[d] <= HeadRevision(t)
      BY <2>1, <2>6 DEF TokenBound
    <3>2. \A r \in floor[d]..token[d] : VisibleAt(rows', t, r) = VisibleAt(rows, t, r)
      BY <2>3, <2>4, <3>1
    <3>3. ASSUME NEW i \in DOMAIN job[d].batch
          PROVE  HeldIn(job[d].batch[i], rows', t, floor[d], token[d], {}, {})
      BY <1>3, <2>1, <2>4, <2>6, <3>2, HeldStands DEF HeldCall, HeldWhenDone
    <3>4. HeldWhenDone(d)'
      BY <1>1, <2>2, <3>3 DEF HeldWhenDone, Untouched
    <3> QED
      BY <1>1, <2>6, <3>4 DEF HeldCall, Untouched, Done, Running
  <2> QED
    BY <1>4, <2>5, <2>6
<1>5. CASE pc[d] \notin Running /\ ~Done(d)
  BY <1>1, <1>2, <1>3, <1>5 DEF HeldCall, Untouched, Done, Running
<1> QED
  BY <1>4, <1>5

\* A mutation is dealt with when it is skipped or applied: it holds now, or
\* will when the session commits.
LEMMA DealtWith ==
  ASSUME HeldInv, NEW c \in Call, pc[c] \in Running, HeldWhileRunning(c),
         NEW t \in Tenant, t = TenantOf(c), next[c] \in DOMAIN job[c].batch,
         UNCHANGED <<database, job, floor>>, next'[c] = next[c] + 1,
         inserted[c] \subseteq inserted'[c], ended[c] \subseteq ended'[c],
         Current(c).op = "write" =>
           Current(c).tuple \in inserted'[c] \cup ActiveTuples(rows, t),
         Current(c).op = "delete" =>
           Current(c).tuple \in ended'[c] \/ Current(c).tuple \notin ActiveTuples(rows, t)
  PROVE  HeldWhileRunning(c)'
<1> USE DEF HeldInv
<1> DEFINE n == HeadRevision(t)
<1>1. /\ n \in Nat /\ floor[c] \in Nat /\ floor[c] <= n
      /\ VisibleAt(rows, t, n) = ActiveTuples(rows, t)
  BY HeadOfNumbered, LatestIsActive
     DEF ClaimInv, TablesInv, TypeOK, TokenBound, Running
<1>2. TenantOf(c)' = t /\ HeadFor(c)' = n /\ rows' = rows
  BY DEF TenantOf, HeadFor, HeadRevision, database
<1>3. n \in floor[c]..n
  BY <1>1
<1>4. HeldIn(Current(c), rows, t, floor[c], n, inserted'[c], ended'[c])
  BY <1>1, <1>3 DEF HeldIn
<1>5. ASSUME NEW i \in DOMAIN job[c].batch, i < next[c]
      PROVE  HeldIn(job[c].batch[i], rows, t, floor[c], n, inserted'[c], ended'[c])
  BY <1>1, <1>5, HeldStands DEF HeldWhileRunning, HeadFor
<1>6. \A i \in DOMAIN job[c].batch : i < next[c] + 1 => i < next[c] \/ i = next[c]
  <2>1. job[c].batch \in Seq(Mutation) /\ next[c] \in Nat
    BY DEF ClaimInv, TypeOK, Running, Job
  <2> QED
    BY <2>1
<1> QED
  BY <1>2, <1>4, <1>5, <1>6 DEF HeldWhileRunning, Current

\* The call that steps keeps what held of it.
LEMMA ActorHeld ==
  ASSUME HeldInv, NEW c \in Call, CallStep(c)
  PROVE  HeldCall(c)'
<1> USE DEF HeldInv
<1> /\ HeldCall(c) /\ TypeOK
  BY DEF ClaimInv, TablesInv
<1>1. ASSUME NEW tn \in Tenant, NEW batch \in Batches, Begin(c, tn, batch)
      PROVE  HeldCall(c)'
  <2>1. next'[c] = 1 /\ pc'[c] \in {"raised", "lookup"} /\ job'[c].batch \in Seq(Mutation)
    BY <1>1, BatchesAssumption DEF Begin, session, Goto, TypeOK, HeldCall
  <2>2. \A i \in DOMAIN job'[c].batch : ~(i < next'[c])
    BY <2>1
  <2> QED
    BY <2>1, <2>2 DEF HeldCall, HeldWhileRunning, Done
<1>2. CASE Rollback(c) /\ pc'[c] \in {"raised", "lookup"} /\ job' = job /\ pc[c] # "idle"
  <2>1. next'[c] = 1 /\ job[c].batch \in Seq(Mutation)
    BY <1>2 DEF Rollback, TypeOK, Job
  <2>2. \A i \in DOMAIN job'[c].batch : ~(i < next'[c])
    BY <1>2, <2>1
  <2> QED
    BY <1>2, <2>1, <2>2 DEF HeldCall, HeldWhileRunning, Done
<1>3. CASE Raise(c) /\ pc[c] \in Running
  BY <1>2, <1>3 DEF Raise, Goto, TypeOK, Running
<1>4. CASE Retry(c) /\ pc[c] \in Running
  BY <1>2, <1>4 DEF Retry, Goto, TypeOK, Running
<1>5. CASE KeepMutation(c) \/ ReadMax(c) \/ ClaimRevision(c)
  <2>1. /\ pc[c] \in Running /\ pc'[c] \in {"allocate", "apply", "claim"}
        /\ UNCHANGED <<database, job, floor, next, inserted, ended>>
    BY <1>5 DEF KeepMutation, Looking, ReadMax, ClaimRevision, Goto, session, TypeOK,
                Running
  <2> QED
    BY <2>1 DEF HeldCall, HeldWhileRunning, HeadFor, HeadRevision, TenantOf, database,
                Done, Running
<1>6. ASSUME pc[c] \in {"lookup", "apply"}, pc'[c] = "lookup", HeldWhileRunning(c)'
      PROVE  HeldCall(c)'
  BY <1>6 DEF HeldCall, Done
<1>7. CASE SkipMutation(c)
  <2>1. /\ pc[c] = "lookup" /\ pc'[c] = "lookup" /\ next[c] \in DOMAIN job[c].batch
        /\ next'[c] = next[c] + 1
        /\ UNCHANGED <<database, job, floor, inserted, ended>>
    BY <1>7 DEF SkipMutation, Looking, TypeOK
  <2>2. PICK t \in Tenant : t = TenantOf(c)
    BY <2>1, TenantOfTypes
  <2>3. /\ Current(c).op = "write" =>
             Current(c).tuple \in inserted[c] \cup ActiveTuples(rows, t)
        /\ Current(c).op = "delete" =>
             Current(c).tuple \in ended[c] \/ Current(c).tuple \notin ActiveTuples(rows, t)
    BY <1>7, <2>2 DEF SkipMutation, NeedsNothing, SeenActive
  <2>4. HeldWhileRunning(c) /\ pc[c] \in Running
    BY <2>1 DEF HeldCall, Running
  <2>5. HeldWhileRunning(c)'
    BY <2>1, <2>2, <2>3, <2>4, DealtWith
  <2> QED
    BY <1>6, <2>1, <2>5
<1>8. CASE InsertRow(c) \/ CloseRow(c)
  <2>1. /\ pc[c] = "apply" /\ pc'[c] = "lookup" /\ next[c] \in DOMAIN job[c].batch
        /\ next'[c] = next[c] + 1 /\ UNCHANGED <<database, job, floor>>
        /\ inserted[c] \subseteq inserted'[c] /\ ended[c] \subseteq ended'[c]
    BY <1>8 DEF InsertRow, CloseRow, NextMutation, Goto, TypeOK
  <2>2. PICK t \in Tenant : t = TenantOf(c)
    BY <2>1, TenantOfTypes
  <2>3. /\ Current(c).op = "write" => Current(c).tuple \in inserted'[c]
        /\ Current(c).op = "delete" =>
             Current(c).tuple \in ended'[c] \/ Current(c).tuple \notin ActiveTuples(rows, t)
    BY <1>8, <2>2 DEF InsertRow, CloseRow, SeenActive, TypeOK
  <2>4. HeldWhileRunning(c) /\ pc[c] \in Running
    BY <2>1 DEF HeldCall, Running
  <2>5. HeldWhileRunning(c)'
    BY <2>1, <2>2, <2>3, <2>4, DealtWith
  <2> QED
    BY <1>6, <2>1, <2>5
<1>9. CASE NoOp(c)
  <2>1. /\ pc[c] = "lookup" /\ pc'[c] = "head" /\ next[c] \notin DOMAIN job[c].batch
        /\ revision[c] = Null
        /\ UNCHANGED <<database, job, floor, session>>
    BY <1>9 DEF NoOp, BatchDone, Goto, TypeOK
  <2> QED
    BY <2>1 DEF HeldCall, HeldWhileRunning, HeadFor, HeadRevision, TenantOf, database,
                session, Done, Running
<1> DEFINE AllBefore == \A i \in DOMAIN job[c].batch : i < next[c]
<1>10. ASSUME next[c] \notin DOMAIN job[c].batch, pc[c] # "idle"
       PROVE  AllBefore
  <2>1. job[c].batch \in Seq(Mutation) /\ next[c] \in Nat \ {0}
    BY <1>10 DEF TypeOK, Job
  <2> QED
    BY <1>10, <2>1
<1>11. CASE ReadHead(c)
  <2>1. /\ pc[c] = "head" /\ pc'[c] = "done" /\ token'[c] = HeadFor(c)
        /\ UNCHANGED <<database, job, floor>>
    BY <1>11 DEF ReadHead, Goto, HeadFor, TypeOK
  <2>2. inserted[c] = {} /\ ended[c] = {} /\ AllBefore /\ HeldWhileRunning(c)
    BY <1>10, <2>1 DEF ClaimInv, SessionInv, Running, HeldCall
  <2>3. HeldWhenDone(c)'
    BY <2>1, <2>2 DEF HeldWhileRunning, HeldWhenDone, TenantOf, database
  <2> QED
    BY <2>1, <2>3 DEF HeldCall, Running
<1>12. CASE Commit(c)
  <2>1. /\ Holds(c) /\ CommitRows(c) /\ pc[c] = "lookup" /\ pc'[c] = "done"
        /\ next[c] \notin DOMAIN job[c].batch /\ token'[c] = revision[c]
        /\ UNCHANGED <<job, floor>>
    BY <1>12 DEF Commit, BatchDone, Holds, Running, Goto, TypeOK
  <2>2. PICK t \in Tenant : t = TenantOf(c) /\ t = TenantOf(c)'
    BY <2>1, TenantOfTypes DEF TenantOf
  <2> DEFINE n == HeadRevision(t)
             r == revision[c]
  <2>3. /\ n \in Nat /\ r = n + 1 /\ floor[c] \in Nat /\ floor[c] <= n
        /\ inserted[c] \cap ended[c] = {}
    BY <2>1, <2>2, CommitterHolds DEF TokenBound, TypeOK
  <2>4. VisibleAt(rows', t, r) = (ActiveTuples(rows, t) \cup inserted[c]) \ ended[c]
    BY <2>1, <2>2, CommitterHolds
  <2>5. \A q \in floor[c]..n : VisibleAt(rows', t, q) = VisibleAt(rows, t, q)
    BY <2>3, StepKeepsSnapshots
  <2>6. AllBefore /\ HeldWhileRunning(c)
    BY <1>10, <2>1 DEF HeldCall, Running
  <2>7. r \in floor[c]..r /\ n <= r /\ r \in Nat
    BY <2>3
  <2>8. ASSUME NEW i \in DOMAIN job[c].batch
        PROVE  HeldIn(job[c].batch[i], rows', t, floor[c], r, {}, {})
    <3> DEFINE m == job[c].batch[i]
    <3>1. HeldIn(m, rows, t, floor[c], n, inserted[c], ended[c])
      BY <2>2, <2>6 DEF HeldWhileRunning, HeadFor
    <3>2. HeldIn(m, rows', t, floor[c], r, inserted[c], ended[c])
      BY <2>3, <2>5, <2>7, <3>1, HeldStands
    <3> QED
      BY <2>3, <2>4, <2>7, <3>2 DEF HeldIn
  <2>9. HeldWhenDone(c)'
    BY <2>1, <2>2, <2>8 DEF HeldWhenDone
  <2> QED
    BY <2>1, <2>9 DEF HeldCall, Running
<1> QED
  BY <1>1, <1>3, <1>4, <1>5, <1>7, <1>8, <1>9, <1>11, <1>12
     DEF CallStep, Step, UnknownOperation, Looking, ClaimConflict, InsertConflict,
         TransientError, CommitLost, BatchDone, Abort, Running

LEMMA HeldInit == Init => HeldInv
<1>1. Init => ClaimInv /\ TokenBound
  BY ClaimInit DEF Init, TokenBound, Done
<1>2. Init => \A c \in Call : HeldCall(c)
  BY DEF Init, HeldCall, Running, Done
<1> QED
  BY <1>1, <1>2 DEF HeldInv

LEMMA HeldStep ==
  ASSUME HeldInv, [Next]_vars
  PROVE  HeldInv'
<1>1. ClaimInv'
  BY ClaimStep DEF HeldInv
<1>2. CASE UNCHANGED <<database, calls>>
  <2>1. TokenBound'
    BY <1>2 DEF HeldInv, TokenBound, Done, HeadRevision, TenantOf, database, calls, session
  <2>2. \A c \in Call : HeldCall(c)'
    BY <1>2 DEF HeldInv, HeldCall, HeldWhileRunning, HeldWhenDone, HeadFor, Done,
                HeadRevision, TenantOf, database, calls, session
  <2> QED
    BY <1>1, <2>1, <2>2 DEF HeldInv
<1>3. ASSUME NEW c \in Call, CallStep(c)
      PROVE  HeldInv'
  <2>1. TokenBound'
    BY <1>3, TokenStep DEF HeldInv, TokenInv
  <2>2. \A d \in Call : HeldCall(d)'
    BY <1>3, ActorHeld, OthersHeld
  <2> QED
    BY <1>1, <2>1, <2>2 DEF HeldInv
<1> QED
  BY <1>2, <1>3, NextCases

\* Every mutation of a call that returned held at some revision between the
\* head when the call began and its token, also where the code skips it as
\* already satisfied or its UPDATE matches no row.
THEOREM MutationsHeld == Spec => []MutationsHeldDuringCall
<1>1. ASSUME HeldInv, NEW c \in Call, Done(c)
      PROVE  /\ \A t \in Touched(job[c].batch) : \E r \in floor[c]..token[c] :
                  t \in VisibleAt(rows, TenantOf(c), r)
             /\ \A t \in Deleted(job[c].batch) : \E r \in floor[c]..token[c] :
                  t \notin VisibleAt(rows, TenantOf(c), r)
  BY <1>1 DEF HeldInv, HeldCall, HeldWhenDone, HeldIn, Touched, Deleted, WithOp
<1>2. HeldInv => MutationsHeldDuringCall
  BY <1>1 DEF MutationsHeldDuringCall
<1>3. HeldInv /\ [Next]_vars => HeldInv'
  BY HeldStep
<1> QED
  BY <1>2, <1>3, HeldInit, PTL DEF Spec

==============================================================================
