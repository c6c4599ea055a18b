---------------------------- MODULE SqlRelations -----------------------------
(***************************************************************************)
(* SQLAlchemyRelationRepository over a database whose statements see what  *)
(* was committed when they started (PostgreSQL's READ COMMITTED; SQLite    *)
(* before a transaction's first INSERT).  Every call of write is a process *)
(* and every SQL statement one step; reads and watches run beside them,    *)
(* each in sessions of its own.                                            *)
(*                                                                         *)
(* rows and revisions hold committed data only.  What an open session has  *)
(* inserted or closed is in inserted and ended, and its uncommitted row of *)
(* the revisions table is revision[c]: the primary key makes a second      *)
(* session that inserts the same revision wait for the first one to end.   *)
(***************************************************************************)
EXTENDS SqlReads

CONSTANTS
  Call,       \* invocations of write
  Batches,    \* the batches of mutations writers submit
  MaxFaults   \* bound on the faults of a behaviour

ASSUME BatchesAssumption == Batches \subseteq Seq(Mutation)
ASSUME MaxFaultsAssumption == MaxFaults \in Nat

VARIABLES
  pc,         \* where each call of write is
  job,        \* the tenant and batch of a call
  next,       \* position in the batch of the mutation being processed
  attempt,    \* 1..Attempts
  candidate,  \* MAX(revision) + 1 as the call read it
  revision,   \* the revision this session has inserted, Null before
  inserted,   \* tuples this session has inserted a row for
  ended,      \* tuples whose active row this session has closed
  token,      \* the revision of the token returned
  floor,      \* history: the head when the call began
  faults      \* faults so far, at most MaxFaults

session == <<next, candidate, revision, inserted, ended>>
calls == <<pc, job, attempt, token, floor, session>>
vars == <<database, calls, readVars, faults>>

Attempts == 3

Job == [tenant : Tenant, batch : Seq(Mutation)]
NoJob == [tenant |-> Null, batch |-> <<>>]

Running == {"lookup", "allocate", "claim", "apply", "head"}

\* c has an uncommitted row in the revisions table.
Holds(c) == pc[c] \in Running /\ revision[c] # Null

TenantOf(c) == job[c].tenant
Current(c) == job[c].batch[next[c]]

\* What a statement of session c sees as active.
SeenActive(c) ==
  (ActiveTuples(rows, TenantOf(c)) \ ended[c]) \cup inserted[c]

------------------------------------------------------------------------------
\* Init

Init ==
  /\ ReadInit
  /\ pc = [c \in Call |-> "idle"]
  /\ job = [c \in Call |-> NoJob]
  /\ next = [c \in Call |-> 1]
  /\ attempt = [c \in Call |-> 1]
  /\ candidate = [c \in Call |-> Null]
  /\ revision = [c \in Call |-> Null]
  /\ inserted = [c \in Call |-> {}]
  /\ ended = [c \in Call |-> {}]
  /\ token = [c \in Call |-> Null]
  /\ floor = [c \in Call |-> 0]
  /\ faults = 0

------------------------------------------------------------------------------
\* write

Goto(c, label) == pc' = [pc EXCEPT ![c] = label]

\* Mutant: the revision claimed by a failed attempt is kept for the next one.
RollbackKeepsRevision(c) ==
  /\ next' = [next EXCEPT ![c] = 1]
  /\ candidate' = [candidate EXCEPT ![c] = Null]
  /\ inserted' = [inserted EXCEPT ![c] = {}]
  /\ ended' = [ended EXCEPT ![c] = {}]
  /\ UNCHANGED revision

\* Mutant: the batch is an iterator that a failed attempt has used up.
RollbackKeepsPosition(c) ==
  /\ candidate' = [candidate EXCEPT ![c] = Null]
  /\ revision' = [revision EXCEPT ![c] = Null]
  /\ inserted' = [inserted EXCEPT ![c] = {}]
  /\ ended' = [ended EXCEPT ![c] = {}]
  /\ UNCHANGED next

\* The session's transaction is rolled back, the loop variables start again.
Rollback(c) ==
  /\ next' = [next EXCEPT ![c] = 1]
  /\ candidate' = [candidate EXCEPT ![c] = Null]
  /\ revision' = [revision EXCEPT ![c] = Null]
  /\ inserted' = [inserted EXCEPT ![c] = {}]
  /\ ended' = [ended EXCEPT ![c] = {}]

Raise(c) ==
  /\ Rollback(c)
  /\ Goto(c, "raised")
  /\ UNCHANGED <<database, job, attempt, token, floor, readVars>>

\* Mutant: one attempt too many.
RetryOnceMore(c) ==
  /\ Rollback(c)
  /\ Goto(c, IF attempt[c] > Attempts THEN "raised" ELSE "lookup")
  /\ attempt' = [attempt EXCEPT ![c] = IF @ > Attempts THEN @ ELSE @ + 1]
  /\ UNCHANGED <<job, token, floor, readVars>>

\* IntegrityError or OperationalError: start over, or give up on the third.
Retry(c) ==
  /\ Rollback(c)
  /\ Goto(c, IF attempt[c] = Attempts THEN "raised" ELSE "lookup")
  /\ attempt' = [attempt EXCEPT ![c] = IF @ = Attempts THEN @ ELSE @ + 1]
  /\ UNCHANGED <<job, token, floor, readVars>>

\* _validated_mutation_batch refuses a conflicting batch before any session.
Begin(c, tn, batch) ==
  /\ pc[c] = "idle"
  /\ job' = [job EXCEPT ![c] = [tenant |-> tn, batch |-> batch]]
  /\ floor' = [floor EXCEPT ![c] = HeadRevision(tn)]
  /\ Goto(c, IF Conflicting(batch) THEN "raised" ELSE "lookup")
  /\ UNCHANGED <<database, attempt, token, session, readVars, faults>>

\* The next mutation is looked up; `next` stays until it is dealt with.
Looking(c) == pc[c] = "lookup" /\ next[c] \in DOMAIN job[c].batch

\* The mutation would change nothing as _active_tuple sees it: `continue`.
NeedsNothing(c) ==
  LET m == Current(c) IN
    \/ m.op = "write"  /\ m.tuple \in SeenActive(c)
    \/ m.op = "delete" /\ m.tuple \notin SeenActive(c)

SkipMutation(c) ==
  /\ Looking(c)
  /\ NeedsNothing(c)
  /\ next' = [next EXCEPT ![c] = @ + 1]
  /\ UNCHANGED <<database, pc, job, attempt, token, floor, candidate,
                 revision, inserted, ended, readVars, faults>>

\* _ensure_write_revision: the session keeps the revision it has.
KeepMutation(c) ==
  /\ Looking(c)
  /\ Current(c).op \in {"write", "delete"}
  /\ ~NeedsNothing(c)
  /\ Goto(c, IF revision[c] = Null THEN "allocate" ELSE "apply")
  /\ UNCHANGED <<database, job, attempt, token, floor, session, readVars,
                 faults>>

UnknownOperation(c) ==
  /\ Looking(c)
  /\ Current(c).op \notin {"write", "delete"}
  /\ Raise(c)
  /\ UNCHANGED faults

\* Mutant: a retry skips ahead to get out of the others' way.
ReadMaxSkipping(c) ==
  /\ pc[c] = "allocate"
  /\ candidate' = [candidate EXCEPT ![c] = HeadRevision(TenantOf(c)) + attempt[c]]
  /\ Goto(c, "claim")
  /\ UNCHANGED <<database, job, attempt, token, floor, next, revision,
                 inserted, ended, readVars, faults>>

\* SELECT COALESCE(MAX(revision), 0) + 1
ReadMax(c) ==
  /\ pc[c] = "allocate"
  /\ candidate' = [candidate EXCEPT ![c] = HeadRevision(TenantOf(c)) + 1]
  /\ Goto(c, "claim")
  /\ UNCHANGED <<database, job, attempt, token, floor, next, revision,
                 inserted, ended, readVars, faults>>

\* Mutant: no primary key on (tenant_id, revision).
WaitsForNobody(c) == FALSE

\* INSERT INTO revisions: waits while another session holds the same key.
Waits(c) ==
  \E d \in Call \ {c} :
    Holds(d) /\ TenantOf(d) = TenantOf(c) /\ revision[d] = candidate[c]

ClaimRevision(c) ==
  /\ pc[c] = "claim"
  /\ ~Waits(c)
  /\ candidate[c] \notin revisions[TenantOf(c)]
  /\ revision' = [revision EXCEPT ![c] = candidate[c]]
  /\ Goto(c, "apply")
  /\ UNCHANGED <<database, job, attempt, token, floor, next, candidate,
                 inserted, ended, readVars, faults>>

\* Mutant: only the INSERT is tried again, with the revision it had.
ClaimConflictSpins(c) ==
  /\ pc[c] = "claim"
  /\ candidate[c] \in revisions[TenantOf(c)]
  /\ UNCHANGED vars

ClaimConflict(c) ==
  /\ pc[c] = "claim"
  /\ candidate[c] \in revisions[TenantOf(c)]
  /\ Retry(c)
  /\ UNCHANGED <<database, faults>>

NextMutation(c) ==
  /\ next' = [next EXCEPT ![c] = @ + 1]
  /\ Goto(c, "lookup")
  /\ UNCHANGED <<database, job, attempt, token, floor, candidate, revision,
                 readVars, faults>>

\* Mutant: no unique index on the active row of a tuple.
InsertRowTwice(c) ==
  /\ pc[c] = "apply"
  /\ Current(c).op = "write"
  /\ inserted' = [inserted EXCEPT ![c] = @ \cup {Current(c).tuple}]
  /\ NextMutation(c)
  /\ UNCHANGED ended

InsertRow(c) ==
  /\ pc[c] = "apply"
  /\ Current(c).op = "write"
  /\ Current(c).tuple \notin SeenActive(c)
  /\ inserted' = [inserted EXCEPT ![c] = @ \cup {Current(c).tuple}]
  /\ NextMutation(c)
  /\ UNCHANGED ended

\* idx_rt_active_unique: another call committed the tuple after the lookup.
InsertConflict(c) ==
  /\ pc[c] = "apply"
  /\ Current(c).op = "write"
  /\ Current(c).tuple \in SeenActive(c)
  /\ Retry(c)
  /\ UNCHANGED <<database, faults>>

\* UPDATE ... WHERE deleted_revision IS NULL: matches no row when another call
\* deleted the tuple after the lookup, and nobody looks at the row count.
CloseRow(c) ==
  /\ pc[c] = "apply"
  /\ Current(c).op = "delete"
  /\ ended' = [ended EXCEPT ![c] =
                 @ \cup ({Current(c).tuple} \cap SeenActive(c))]
  /\ NextMutation(c)
  /\ UNCHANGED inserted

BatchDone(c) == pc[c] = "lookup" /\ next[c] \notin DOMAIN job[c].batch

\* What COMMIT makes of the session's work.
CommitRows(c) ==
  LET tn == TenantOf(c)
      r  == revision[c] IN
  /\ revisions' = [revisions EXCEPT ![tn] = @ \cup {r}]
  /\ rows' = CloseWindows(rows, tn, ended[c], r)
               \cup {NewRow(tn, t, r) : t \in inserted[c]}

\* inserted, ended and revision stay as a record of what the call committed.
Commit(c) ==
  /\ BatchDone(c)
  /\ revision[c] # Null
  /\ CommitRows(c)
  /\ token' = [token EXCEPT ![c] = revision[c]]
  /\ Goto(c, "done")
  /\ UNCHANGED <<job, attempt, floor, session, readVars, faults>>

\* Nothing to write: rollback, then the head in a session of its own.
NoOp(c) ==
  /\ BatchDone(c)
  /\ revision[c] = Null
  /\ Goto(c, "head")
  /\ UNCHANGED <<database, job, attempt, token, floor, session, readVars,
                 faults>>

\* Mutant: the token of a call that wrote nothing is what it last had in hand.
ReadHeadFromCandidate(c) ==
  /\ pc[c] = "head"
  /\ token' = [token EXCEPT ![c] = candidate[c]]
  /\ Goto(c, "done")
  /\ UNCHANGED <<database, job, attempt, floor, session, readVars, faults>>

ReadHead(c) ==
  /\ pc[c] = "head"
  /\ token' = [token EXCEPT ![c] = HeadRevision(TenantOf(c))]
  /\ Goto(c, "done")
  /\ UNCHANGED <<database, job, attempt, floor, session, readVars, faults>>

------------------------------------------------------------------------------
\* Faults

Fault ==
  /\ faults < MaxFaults
  /\ faults' = faults + 1

\* OperationalError from any statement, head_revision's included.
TransientError(c) ==
  /\ Fault
  /\ pc[c] \in Running
  /\ Retry(c)
  /\ UNCHANGED database

\* The connection is lost while COMMIT is answered: the database has
\* committed, the call sees an OperationalError.
CommitLost(c) ==
  /\ Fault
  /\ BatchDone(c)
  /\ revision[c] # Null
  /\ CommitRows(c)
  /\ Retry(c)

\* Any other exception, or the death of the process: nothing is committed.
Abort(c) ==
  /\ Fault
  /\ pc[c] \in Running
  /\ Raise(c)

------------------------------------------------------------------------------

\* The steps of a call that is under way, without faults.
Step(c) ==
  \/ SkipMutation(c) \/ KeepMutation(c) \/ UnknownOperation(c)
  \/ ReadMax(c) \/ ClaimRevision(c) \/ ClaimConflict(c)
  \/ InsertRow(c) \/ InsertConflict(c) \/ CloseRow(c)
  \/ Commit(c) \/ NoOp(c) \/ ReadHead(c)

Next ==
  \/ \E c \in Call :
       \/ \E tn \in Tenant, batch \in Batches : Begin(c, tn, batch)
       \/ Step(c)
       \/ TransientError(c) \/ CommitLost(c) \/ Abort(c)
  \/ ReadStep /\ UNCHANGED <<calls, faults>>

Spec == Init /\ [][Next]_vars

\* A thread that has called write is scheduled and its statements are answered.
FairSpec == Spec /\ \A c \in Call : WF_vars(Step(c))

------------------------------------------------------------------------------
\* Properties

Label == {"idle", "done", "raised"} \cup Running

\* Every variable has its type; a call that is under way has a job, and one
\* that is about to write has a mutation to write.
TypeOK ==
  /\ revisions \in [Tenant -> SUBSET (Nat \ {0})]
  /\ rows \subseteq Row
  /\ pc \in [Call -> Label]
  /\ job \in [Call -> Job \cup {NoJob}]
  /\ next \in [Call -> Nat \ {0}]
  /\ attempt \in [Call -> 1..Attempts]
  /\ candidate \in [Call -> Nat]
  /\ revision \in [Call -> Nat]
  /\ inserted \in [Call -> SUBSET Tuple]
  /\ ended \in [Call -> SUBSET Tuple]
  /\ token \in [Call -> Nat]
  /\ floor \in [Call -> Nat]
  /\ faults \in 0..MaxFaults
  /\ \A c \in Call : pc[c] # "idle" => job[c] \in Job
  /\ \A c \in Call :
       pc[c] \in {"allocate", "claim", "apply"} => next[c] \in DOMAIN job[c].batch

\* The committed revisions of a tenant are 1, 2, ... without a gap, whatever
\* writers raced, failed or retried.
RevisionsDense ==
  \A tn \in Tenant : revisions[tn] = 1..HeadRevision(tn)

\* At most one session of a tenant has claimed a revision, and it is the one
\* after the head: _ensure_write_revision serialises the writers of a tenant.
ClaimExclusive ==
  /\ \A c \in Call : Holds(c) => revision[c] = HeadRevision(TenantOf(c)) + 1
  /\ \A c, d \in Call :
       Holds(c) /\ Holds(d) /\ TenantOf(c) = TenantOf(d) => c = d

Done(c) == pc[c] = "done"

\* Two calls that both committed something got different tokens, and no third
\* revision mixes into theirs: what is stored under the token is exactly what
\* the call's own statements did.
OneRevisionPerCommit ==
  /\ \A c, d \in Call :
       /\ Done(c) /\ Done(d) /\ c # d /\ TenantOf(c) = TenantOf(d)
       /\ revision[c] # Null /\ revision[d] # Null
       => token[c] # token[d]
  /\ \A c \in Call : Done(c) /\ revision[c] # Null =>
       /\ CreatedAt(rows, TenantOf(c), token[c]) = inserted[c]
       /\ DeletedAt(rows, TenantOf(c), token[c]) = ended[c]

\* A token is never older than what was committed when write was called: the
\* tokens of calls that follow one another never go back.
TokenNotStale ==
  \A c \in Call : Done(c) => floor[c] <= token[c] /\ token[c] <= HeadRevision(TenantOf(c))

\* Every mutation of a call that returned held at some revision between the
\* call's start and its token: touched tuples were active, deleted ones were
\* not.  (That they hold AT the token is WriteVisibleAtToken.)
MutationsHeldDuringCall ==
  \A c \in Call : Done(c) =>
    LET At(r) == VisibleAt(rows, TenantOf(c), r) IN
    /\ \A t \in Touched(job[c].batch) : \E r \in floor[c]..token[c] : t \in At(r)
    /\ \A t \in Deleted(job[c].batch) : \E r \in floor[c]..token[c] : t \notin At(r)

\* The token pins a snapshot in which the call's own mutations hold.
WriteVisibleAtToken ==
  \A c \in Call : Done(c) =>
    LET seen == VisibleAt(rows, TenantOf(c), token[c]) IN
    /\ Touched(job[c].batch) \subseteq seen
    /\ Deleted(job[c].batch) \cap seen = {}

\* Every call of write returns or raises: writers wait for one another but
\* never in a circle, and retry a bounded number of times.
WriteTerminates ==
  \A c \in Call : pc[c] \in Running ~> pc[c] \in {"done", "raised"}

==============================================================================
