------------------------------ MODULE SqlReads -------------------------------
(***************************************************************************)
(* Reading and watching the tables of the two SQL repositories.  Writers   *)
(* are left to the modules that extend this one: rows and revisions hold   *)
(* what they have committed, and every SELECT is a step of its own that    *)
(* sees what is committed when it runs.                                    *)
(***************************************************************************)
EXTENDS RelationRows

CONSTANTS
  Reader,     \* callers of the client's reads
  Watcher     \* invocations of watch

VARIABLES
  revisions,  \* revisions[tn]: committed rows of the revisions table
  rows,       \* committed rows of the relation_tuples table
  read,       \* the calls that read
  watch       \* the watches

database == <<revisions, rows>>
readVars == <<read, watch>>

HeadRevision(tn) == MaxRevision(revisions[tn])

NoCall == [pc |-> "idle"]

ReadInit ==
  /\ revisions = [tn \in Tenant |-> {}]
  /\ rows = {}
  /\ read = [rd \in Reader |-> NoCall]
  /\ watch = [w \in Watcher |-> [pc |-> "idle"]]

------------------------------------------------------------------------------
\* A call of the client: it resolves its consistency policy to one revision of
\* its tenant and then reads at that revision, as often as the evaluation
\* needs, here ReadsPerCall times.  get_permissions is such a call too: it takes
\* the head as its token and checks every permission exactly there.

Policy == {"full", "fresh", "exact"}
ReadsPerCall == 2

\* The token of a policy is the revision `asked` of the tenant `of`.  floor, the
\* head when the call begins, is not in the code.
StartCall(rd, tn, policy, of, asked) ==
  /\ read[rd].pc = "idle"
  /\ policy = "full" => of = tn /\ asked = 0
  /\ read' = [read EXCEPT ![rd] =
       [pc |-> "head", tenant |-> tn, policy |-> policy, of |-> of, asked |-> asked,
        floor |-> HeadRevision(tn)]]
  /\ UNCHANGED watch

Pinned(rec, revision) ==
  [pc |-> "check", tenant |-> rec.tenant, policy |-> rec.policy, of |-> rec.of,
   asked |-> rec.asked, floor |-> rec.floor, at |-> revision, got |-> <<>>]

\* _raise_if_token_tenant_mismatch
ForeignToken(rec) == rec.of # rec.tenant

TooFresh(rec) == rec.policy = "fresh" /\ rec.asked > HeadRevision(rec.tenant)

\* Mutant: a token is taken for one of the call's own tenant.
ResolveAnyTenant(rd) ==
  LET rec == read[rd] IN
  /\ rec.pc = "head"
  /\ ~TooFresh(rec)
  /\ read' = [read EXCEPT ![rd] =
       Pinned(rec, IF rec.policy = "exact" THEN rec.asked ELSE HeadRevision(rec.tenant))]
  /\ UNCHANGED watch

Resolve(rd) ==
  LET rec == read[rd] IN
  /\ rec.pc = "head"
  /\ ~ForeignToken(rec)
  /\ ~TooFresh(rec)
  /\ read' = [read EXCEPT ![rd] =
       Pinned(rec, IF rec.policy = "exact" THEN rec.asked ELSE HeadRevision(rec.tenant))]
  /\ UNCHANGED watch

\* get, read, read_reverse: _raise_if_future_revision and the SELECT run in
\* two sessions.

\* Mutant: a revision that does not exist yet is accepted.
StartReadAnywhere(rd) ==
  /\ read[rd].pc = "check"
  /\ read' = [read EXCEPT ![rd].pc = "select"]
  /\ UNCHANGED watch

\* Mutant: every read of a call that asks for the head takes it anew.
StartReadAtHead(rd) ==
  LET rec == read[rd]
      head == HeadRevision(rec.tenant)
  IN /\ rec.pc = "check"
     /\ rec.at <= head
     /\ read' = [read EXCEPT ![rd] =
          [rec EXCEPT !.pc = "select", !.at = IF rec.policy = "exact" THEN @ ELSE head]]
     /\ UNCHANGED watch

StartRead(rd) ==
  /\ read[rd].pc = "check"
  /\ read[rd].at <= HeadRevision(read[rd].tenant)
  /\ read' = [read EXCEPT ![rd].pc = "select"]
  /\ UNCHANGED watch

Select(rd) ==
  LET rec == read[rd] IN
  /\ rec.pc = "select"
  /\ read' = [read EXCEPT ![rd] =
       [rec EXCEPT !.pc = IF Len(rec.got) + 1 = ReadsPerCall THEN "done" ELSE "check",
                   !.got = Append(@, VisibleAt(rows, rec.tenant, rec.at))]]
  /\ UNCHANGED watch

\* A token of another tenant raises, and so does a revision that is still to
\* come, at the head or at the read.
RefuseCall(rd) ==
  LET rec == read[rd] IN
  /\ \/ rec.pc = "head" /\ (ForeignToken(rec) \/ TooFresh(rec))
     \/ rec.pc = "check" /\ rec.at > HeadRevision(rec.tenant)
  /\ read' = [read EXCEPT ![rd] = NoCall]
  /\ UNCHANGED watch

\* watch: two SELECTs of one session, whose results are merged and sorted by
\* revision.  Under READ COMMITTED each sees what is committed when it runs.

StartWatch(w, tn, after) ==
  /\ watch[w].pc = "idle"
  /\ after <= HeadRevision(tn)
  /\ watch' = [watch EXCEPT ![w] =
       [pc |-> "created", tenant |-> tn, after |-> after, start |-> HeadRevision(tn)]]
  /\ UNCHANGED read

WrittenAfter(tn, after) ==
  {<<row.created, row.tuple>> :
     row \in {x \in rows : x.tenant = tn /\ x.created > after}}

DeletedAfter(tn, after) ==
  {<<row.deleted, row.tuple>> :
     row \in {x \in rows : x.tenant = tn /\ ~IsActive(x) /\ x.deleted > after}}

\* Mutant: writes are read from the active rows only.
SelectCreatedActive(w) ==
  LET rec == watch[w] IN
  /\ rec.pc = "created"
  /\ watch' = [watch EXCEPT ![w] =
       [pc |-> "deleted", tenant |-> rec.tenant, after |-> rec.after,
        start |-> rec.start,
        writes |-> {c \in WrittenAfter(rec.tenant, rec.after) :
                      c[2] \in ActiveTuples(rows, rec.tenant)}]]
  /\ UNCHANGED read

SelectCreated(w) ==
  LET rec == watch[w] IN
  /\ rec.pc = "created"
  /\ watch' = [watch EXCEPT ![w] =
       [pc |-> "deleted", tenant |-> rec.tenant, after |-> rec.after,
        start |-> rec.start, writes |-> WrittenAfter(rec.tenant, rec.after)]]
  /\ UNCHANGED read

SelectDeleted(w) ==
  LET rec == watch[w] IN
  /\ rec.pc = "deleted"
  /\ watch' = [watch EXCEPT ![w] =
       [pc |-> "done", tenant |-> rec.tenant, after |-> rec.after,
        start |-> rec.start, writes |-> rec.writes,
        deletes |-> DeletedAfter(rec.tenant, rec.after)]]
  /\ UNCHANGED read

------------------------------------------------------------------------------

ReadStep ==
  /\ \/ \E rd \in Reader :
          \/ \E tn, of \in Tenant, policy \in Policy :
               \E asked \in 0..HeadRevision(of) + 1 : StartCall(rd, tn, policy, of, asked)
          \/ Resolve(rd) \/ StartRead(rd) \/ Select(rd) \/ RefuseCall(rd)
     \/ \E w \in Watcher :
          \/ \E tn \in Tenant : \E after \in 0..HeadRevision(tn) + 1 :
               StartWatch(w, tn, after)
          \/ SelectCreated(w) \/ SelectDeleted(w)
  /\ UNCHANGED database

------------------------------------------------------------------------------
\* Properties

\* The visibility windows of a tuple do not overlap and are never empty: a
\* tuple is visible at most once at any revision, so get's fetchone and
\* read's rows have no duplicates.
WindowsDisjoint ==
  /\ \A row \in rows : IsActive(row) \/ row.created < row.deleted
  /\ \A x, y \in rows :
       /\ x # y /\ x.tenant = y.tenant /\ x.tuple = y.tuple
       => \/ ~IsActive(x) /\ x.deleted <= y.created
          \/ ~IsActive(y) /\ y.deleted <= x.created

\* What a read returned for a revision stays what that revision shows: no
\* later write, and none that ran during the read, changes it.
ReadIsSnapshot ==
  \A rd \in Reader : read[rd].pc \in {"check", "select", "done"} =>
    \A i \in 1..Len(read[rd].got) :
      read[rd].got[i] = VisibleAt(rows, read[rd].tenant, read[rd].at)

\* The revisions of its tenant that a call may answer from: a token of another
\* tenant names none of them.
Promised(rec) ==
  {r \in 0..HeadRevision(rec.tenant) :
     /\ rec.of = rec.tenant
     /\ CASE rec.policy = "full"  -> r >= rec.floor
          [] rec.policy = "fresh" -> r >= rec.asked
          [] rec.policy = "exact" -> r = rec.asked}

\* All the reads of one call agree on one revision its policy allows: the very
\* one it named, one that includes its token, or one that includes whatever
\* was committed when the call began.  No write falls between its reads, and
\* no call is answered on the word of another tenant's token.
CallReadsOneSnapshot ==
  \A rd \in Reader : read[rd].pc = "done" =>
    \E r \in Promised(read[rd]) : \A i \in 1..ReadsPerCall :
      read[rd].got[i] = VisibleAt(rows, read[rd].tenant, r)

WatchDone(w) == watch[w].pc = "done"

\* The writes a watch yields are all those of the revisions after..u for some
\* u that is at least the head when it started, its deletes all those of
\* after..v for some v >= u.
WatchCovers ==
  \A w \in Watcher : WatchDone(w) =>
    LET rec == watch[w] IN
    \E v \in rec.start..HeadRevision(rec.tenant) : \E u \in rec.start..v :
      /\ rec.writes = {c \in WrittenAfter(rec.tenant, rec.after) : c[1] <= u}
      /\ rec.deletes = {c \in DeletedAfter(rec.tenant, rec.after) : c[1] <= v}

\* A watch yields revisions whole: no change of a revision is missing up to
\* the last revision it yields, which is where a consumer resumes.
WatchWhole ==
  \A w \in Watcher : WatchDone(w) =>
    LET rec == watch[w] IN
    \A c \in rec.writes \cup rec.deletes :
      \A d \in WrittenAfter(rec.tenant, rec.after) :
        d[1] <= c[1] => d \in rec.writes

\* The sum of the committed rows is what a repository promises.
Heads == [tn \in Tenant |-> HeadRevision(tn)]
Snapshots ==
  [tn \in Tenant |-> [r \in 0..HeadRevision(tn) |-> VisibleAt(rows, tn, r)]]
Changes ==
  [tn \in Tenant |-> [r \in 1..HeadRevision(tn) |->
     [written |-> CreatedAt(rows, tn, r), deleted |-> DeletedAt(rows, tn, r)]]]

Store == INSTANCE RevisionedStore
           WITH head <- Heads, snapshot <- Snapshots, changes <- Changes

\* Every step of the repository commits one batch of one tenant as the next
\* revision, or changes nothing a reader can see.
ImplementsStore == Store!Spec

==============================================================================
