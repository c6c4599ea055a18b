--------------------------- MODULE SqliteRelations ---------------------------
(***************************************************************************)
(* SQLiteRelationRepository: processes that share a database file, each    *)
(* with one repository and its one connection.  BEGIN IMMEDIATE takes the  *)
(* write lock of the file before anything is looked up, so a write decides *)
(* on data that nobody else changes; what it stages becomes visible to the *)
(* other connections when it commits.                                      *)
(*                                                                         *)
(* An exception that is no Exception (KeyboardInterrupt, SystemExit), or a *)
(* COMMIT that fails, leaves write with the transaction open: the          *)
(* connection keeps the lock, sees its own uncommitted rows, and refuses   *)
(* every later write, until it is closed.                                  *)
(***************************************************************************)
EXTENDS SqlReads

CONSTANTS
  Conn,        \* the connections
  Batches,     \* the batches of mutations writers submit
  MaxWrites,   \* bound on the writes of a behaviour
  MaxFaults    \* bound on its interruptions

ASSUME SqliteBatches == Batches \subseteq Seq(Mutation)
ASSUME SqliteBounds == MaxWrites \in Nat /\ MaxFaults \in Nat

VARIABLES
  conn,     \* conn[c]: the transaction of the connection
  result,   \* result[c]: what its last write that returned promised
  writes,   \* writes so far, at most MaxWrites
  faults    \* interruptions so far, at most MaxFaults

vars == <<database, readVars, conn, result, writes, faults>>

\* A connection without a transaction; `pc` is where its write call is.
Quiet == [pc |-> "idle", inTransaction |-> FALSE, tenant |-> Null,
          batch |-> <<>>, next |-> 1, revision |-> Null, inserted |-> {},
          ended |-> {}, floor |-> 0]

NoResult == [tenant |-> Null, batch |-> <<>>, effective |-> FALSE,
             floor |-> 0, revision |-> Null]

Init ==
  /\ ReadInit
  /\ conn = [c \in Conn |-> Quiet]
  /\ result = [c \in Conn |-> NoResult]
  /\ writes = 0
  /\ faults = 0

------------------------------------------------------------------------------
\* write

\* Another connection's transaction makes BEGIN IMMEDIATE fail after its
\* timeout, and so does a transaction this connection left open: both raise,
\* which changes nothing.
BeginImmediate(c, tn, batch) ==
  /\ conn[c].pc = "idle"
  /\ writes < MaxWrites
  /\ ~Conflicting(batch)
  /\ \A d \in Conn : ~conn[d].inTransaction
  /\ conn' = [conn EXCEPT ![c] =
       [Quiet EXCEPT !.pc = "write", !.inTransaction = TRUE, !.tenant = tn,
                     !.batch = batch, !.floor = HeadRevision(tn)]]
  /\ writes' = writes + 1
  /\ UNCHANGED <<database, readVars, result, faults>>

\* What this connection sees as active in its transaction.
Active(c) ==
  (ActiveTuples(rows, conn[c].tenant) \ conn[c].ended) \cup conn[c].inserted

\* Mutant: every mutation that needs one gets a revision of its own.
WriteRevisionAlways(c) ==
  IF conn[c].revision # Null THEN conn[c].revision + 1
  ELSE HeadRevision(conn[c].tenant) + 1

\* _ensure_write_revision
WriteRevision(c) ==
  IF conn[c].revision # Null THEN conn[c].revision
  ELSE HeadRevision(conn[c].tenant) + 1

InBatch(c) == conn[c].pc = "write" /\ conn[c].next \in DOMAIN conn[c].batch

WriteMutation(c) ==
  LET old == conn[c]
      m   == old.batch[old.next]
  IN
  /\ InBatch(c)
  /\ m.op = "write"
  /\ conn' = [conn EXCEPT ![c] =
       IF m.tuple \in Active(c)
         THEN [old EXCEPT !.next = old.next + 1]
         ELSE [old EXCEPT !.next = old.next + 1, !.revision = WriteRevision(c),
                          !.inserted = old.inserted \cup {m.tuple}]]
  /\ UNCHANGED <<database, readVars, result, writes, faults>>

DeleteMutation(c) ==
  LET old == conn[c]
      m   == old.batch[old.next]
  IN
  /\ InBatch(c)
  /\ m.op = "delete"
  /\ conn' = [conn EXCEPT ![c] =
       IF m.tuple \notin Active(c)
         THEN [old EXCEPT !.next = old.next + 1]
         ELSE [old EXCEPT !.next = old.next + 1, !.revision = WriteRevision(c),
                          !.ended = old.ended \cup {m.tuple}]]
  /\ UNCHANGED <<database, readVars, result, writes, faults>>

\* The ValueError is caught, rolled back and raised again.
UnknownOperation(c) ==
  /\ InBatch(c)
  /\ conn[c].batch[conn[c].next].op \notin {"write", "delete"}
  /\ conn' = [conn EXCEPT ![c] = Quiet]
  /\ UNCHANGED <<database, readVars, result, writes, faults>>

\* Mutant: the rows that end are closed at the head they were read at.
CommittedRowsEarly(c) ==
  CloseWindows(rows, conn[c].tenant, conn[c].ended, HeadRevision(conn[c].tenant))
    \cup {NewRow(conn[c].tenant, t, conn[c].revision) : t \in conn[c].inserted}

\* What the tables hold once the transaction of c is committed.
CommittedRevisions(c) ==
  IF conn[c].revision = Null THEN revisions
  ELSE [revisions EXCEPT ![conn[c].tenant] = @ \cup {conn[c].revision}]
CommittedRows(c) ==
  CloseWindows(rows, conn[c].tenant, conn[c].ended, conn[c].revision)
    \cup {NewRow(conn[c].tenant, t, conn[c].revision) : t \in conn[c].inserted}

Returned(c, r) ==
  [tenant |-> conn[c].tenant, batch |-> conn[c].batch,
   effective |-> conn[c].revision # Null, floor |-> conn[c].floor, revision |-> r]

\* Mutant: the token is always read back after the commit.
CommitThenHead(c) ==
  /\ conn[c].pc = "write"
  /\ ~InBatch(c)
  /\ revisions' = CommittedRevisions(c)
  /\ rows' = CommittedRows(c)
  /\ conn' = [conn EXCEPT ![c].pc = "head", ![c].inTransaction = FALSE]
  /\ UNCHANGED <<result, readVars, writes, faults>>

\* Mutant: a batch that changed nothing is neither committed nor rolled back.
CommitIfChanged(c) ==
  /\ conn[c].pc = "write"
  /\ ~InBatch(c)
  /\ revisions' = CommittedRevisions(c)
  /\ rows' = CommittedRows(c)
  /\ IF conn[c].revision = Null
       THEN /\ conn' = [conn EXCEPT ![c].pc = "head"]
            /\ UNCHANGED result
       ELSE /\ conn' = [conn EXCEPT ![c] = Quiet]
            /\ result' = [result EXCEPT ![c] = Returned(c, conn[c].revision)]
  /\ UNCHANGED <<readVars, writes, faults>>

\* The token of a write that committed something is its own revision.  One
\* that did not reads the head afterwards, in another transaction.
Commit(c) ==
  /\ conn[c].pc = "write"
  /\ ~InBatch(c)
  /\ revisions' = CommittedRevisions(c)
  /\ rows' = CommittedRows(c)
  /\ IF conn[c].revision = Null
       THEN /\ conn' = [conn EXCEPT ![c].pc = "head", ![c].inTransaction = FALSE]
            /\ UNCHANGED result
       ELSE /\ conn' = [conn EXCEPT ![c] = Quiet]
            /\ result' = [result EXCEPT ![c] = Returned(c, conn[c].revision)]
  /\ UNCHANGED <<readVars, writes, faults>>

ReadHead(c) ==
  /\ conn[c].pc = "head"
  /\ conn' = [conn EXCEPT ![c] = Quiet]
  /\ result' = [result EXCEPT ![c] = Returned(c, HeadRevision(conn[c].tenant))]
  /\ UNCHANGED <<database, readVars, writes, faults>>

\* write ends without commit or rollback.
Interrupt(c) ==
  /\ conn[c].pc = "write"
  /\ faults < MaxFaults
  /\ faults' = faults + 1
  /\ conn' = [conn EXCEPT ![c].pc = "idle"]
  /\ UNCHANGED <<database, readVars, result, writes>>

\* close, or the end of the process, rolls back what is open; the next write
\* uses a new connection.
Close(c) ==
  /\ conn[c] # Quiet
  /\ conn' = [conn EXCEPT ![c] = Quiet]
  /\ UNCHANGED <<database, readVars, result, writes, faults>>

\* get, read, read_reverse and watch, from connections with nothing open.
ReadTables == ReadStep /\ UNCHANGED <<conn, result, writes, faults>>

Next ==
  \/ \E c \in Conn :
       \/ \E tn \in Tenant, batch \in Batches : BeginImmediate(c, tn, batch)
       \/ WriteMutation(c) \/ DeleteMutation(c) \/ UnknownOperation(c)
       \/ Commit(c) \/ ReadHead(c) \/ Interrupt(c) \/ Close(c)
  \/ ReadTables

Spec == Init /\ [][Next]_vars

------------------------------------------------------------------------------
\* Properties

\* Every variable has its type.
TypeOK ==
  /\ revisions \in [Tenant -> SUBSET (Nat \ {0})]
  /\ rows \subseteq Row
  /\ \A c \in Conn :
       /\ conn[c].pc \in {"idle", "write", "head"}
       /\ conn[c].inserted \cup conn[c].ended \subseteq Tuple
       /\ conn[c].pc = "write" => conn[c].inTransaction
       /\ conn[c].pc = "head" => ~conn[c].inTransaction
  /\ writes \in 0..MaxWrites
  /\ faults \in 0..MaxFaults

\* A write that committed something holds as a whole at its token.  One that
\* found nothing to do held when it looked, between its start and its token.
WriteHolds ==
  \A c \in Conn : result[c].tenant # Null =>
    LET res == result[c]
        Held(r) ==
          /\ Touched(res.batch) \subseteq VisibleAt(rows, res.tenant, r)
          /\ Deleted(res.batch) \cap VisibleAt(rows, res.tenant, r) = {}
    IN IF res.effective THEN Held(res.revision)
       ELSE \E r \in res.floor..res.revision : Held(r)

\* head_revision as connection c answers it: inside a transaction that was
\* left open it counts the revision that was never committed.
HeadSeenBy(c, tn) ==
  IF conn[c].inTransaction /\ conn[c].tenant = tn
    THEN MaxRevision(CommittedRevisions(c)[tn]) ELSE HeadRevision(tn)

\* What head_revision returns is committed.
HeadIsCommitted ==
  \A c \in Conn, tn \in Tenant :
    conn[c].pc = "idle" => HeadSeenBy(c, tn) = HeadRevision(tn)

==============================================================================
