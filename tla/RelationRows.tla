---------------------------- MODULE RelationRows -----------------------------
(***************************************************************************)
(* The tables the two SQL repositories share: `relation_tuples`, one row   *)
(* per visibility window of a tuple, and `revisions`, the committed        *)
(* revision numbers of each tenant (storage/repos/concrete/_rows.py,       *)
(* sqlite/relations.py, sqlalchemy/relations.py).  The operators are the   *)
(* queries the repositories run on them; T is a set of rows, R a set of    *)
(* revisions.                                                              *)
(***************************************************************************)
EXTENDS Mutations

\* SQL NULL and Python's None where a revision is expected.  Revisions that
\* are allocated start at 1.
Null == 0

Row == [tenant : Tenant, tuple : Tuple, created : Nat \ {Null}, deleted : Nat]

NewRow(tn, t, r) == [tenant |-> tn, tuple |-> t, created |-> r, deleted |-> Null]

IsActive(row) == row.deleted = Null

ActiveTuples(T, tn) ==
  {t \in Tuple : \E row \in T : row.tenant = tn /\ row.tuple = t /\ IsActive(row)}

\* Mutant: a tuple is still visible at the revision that deleted it.
InWindowInclusive(row, r) == row.created <= r /\ (IsActive(row) \/ row.deleted >= r)

\* The WHERE clause of every snapshot read.
InWindow(row, r) == row.created <= r /\ (IsActive(row) \/ row.deleted > r)

VisibleAt(T, tn, r) ==
  {t \in Tuple : \E row \in T : row.tenant = tn /\ row.tuple = t /\ InWindow(row, r)}

\* SELECT COALESCE(MAX(revision), 0)
MaxRevision(R) ==
  IF R = {} THEN 0 ELSE CHOOSE m \in R : \A r \in R : r <= m

\* The two queries of watch.
CreatedAt(T, tn, r) ==
  {t \in Tuple : \E row \in T : row.tenant = tn /\ row.tuple = t /\ row.created = r}
DeletedAt(T, tn, r) ==
  {t \in Tuple : \E row \in T : row.tenant = tn /\ row.tuple = t /\ row.deleted = r}

\* UPDATE ... SET deleted_revision = r WHERE tenant_id = tn AND tuple_key IN ts
\* AND deleted_revision IS NULL
CloseWindows(T, tn, ts, r) ==
  {IF row.tenant = tn /\ row.tuple \in ts /\ IsActive(row)
     THEN [row EXCEPT !.deleted = r] ELSE row : row \in T}

==============================================================================
