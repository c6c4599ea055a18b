---------------------------- MODULE SqlReadsProofs ----------------------------
(***************************************************************************)
(* What the two SQL repositories share a proof of: whatever writes them,   *)
(* as long as every change of the tables commits the next revision of one  *)
(* tenant (Commits), windows stay disjoint, snapshots and changes stand,   *)
(* the abstract RevisionedStore takes a step, and what reads and watches   *)
(* have in hand stays true.  SqlRelationsProofs and SqliteRelationsProofs  *)
(* show that their writers commit this way.                                *)
(***************************************************************************)
EXTENDS SqlReads, TLAPS

LEMMA MaxOfInterval ==
  ASSUME NEW n \in Nat
  PROVE  MaxRevision(1..n) = n
<1>1. CASE n = 0
  BY <1>1 DEF MaxRevision
<1>2. CASE n # 0
  <2>1. n \in 1..n /\ \A r \in 1..n : r <= n
    BY <1>2
  <2>2. \A m \in 1..n : (\A r \in 1..n : r <= m) => m = n
    BY <1>2
  <2> QED
    BY <1>2, <2>1, <2>2 DEF MaxRevision
<1> QED
  BY <1>1, <1>2

------------------------------------------------------------------------------
\* The tables

TableTypes == revisions \in [Tenant -> SUBSET (Nat \ {0})] /\ rows \subseteq Row

Numbered == \A tn \in Tenant : \E n \in Nat : revisions[tn] = 1..n

WithinHead ==
  \A row \in rows : /\ row.created <= HeadRevision(row.tenant)
                    /\ row.deleted <= HeadRevision(row.tenant)

TablesInv == TableTypes /\ Numbered /\ WithinHead /\ WindowsDisjoint

\* Revision r of tenant tn is committed: W was inserted, D closed.
Commits(tn, r, W, D) ==
  /\ r = HeadRevision(tn) + 1
  /\ W \subseteq Tuple
  /\ W \cap ActiveTuples(rows, tn) = {}
  /\ D \subseteq ActiveTuples(rows, tn)
  /\ revisions' = [revisions EXCEPT ![tn] = @ \cup {r}]
  /\ rows' = CloseWindows(rows, tn, D, r) \cup {NewRow(tn, t, r) : t \in W}

TablesStep ==
  \/ UNCHANGED database
  \/ \E tn \in Tenant : \E r, W, D : Commits(tn, r, W, D)

LEMMA HeadOfNumbered ==
  ASSUME Numbered, NEW tn \in Tenant
  PROVE  HeadRevision(tn) \in Nat /\ revisions[tn] = 1..HeadRevision(tn)
BY MaxOfInterval DEF Numbered, HeadRevision

LEMMA TablesInit == ReadInit => TablesInv
<1> 1..0 = {}
  OBVIOUS
<1> QED
  BY DEF ReadInit, TablesInv, TableTypes, Numbered, WithinHead, WindowsDisjoint, Row

LEMMA HeadOfCommit ==
  ASSUME TablesInv, NEW t \in Tenant, NEW r, NEW W, NEW D, Commits(t, r, W, D)
  PROVE  /\ HeadRevision(t) \in Nat /\ r = HeadRevision(t) + 1
         /\ r \in Nat \ {Null}
         /\ revisions' \in [Tenant -> SUBSET (Nat \ {0})]
         /\ Numbered'
         /\ HeadRevision(t)' = r
         /\ \A tn \in Tenant \ {t} : HeadRevision(tn)' = HeadRevision(tn)
<1> DEFINE n == HeadRevision(t)
<1>1. n \in Nat /\ revisions[t] = 1..n
  BY HeadOfNumbered DEF TablesInv
<1>2. r = n + 1
  BY DEF Commits
<1>3. revisions' = [revisions EXCEPT ![t] = 1..n + 1]
  <2>1. 1..n \cup {n + 1} = 1..n + 1
    BY <1>1
  <2> QED
    BY <1>1, <1>2, <2>1 DEF Commits, TablesInv, TableTypes
<1>4. Numbered' /\ revisions' \in [Tenant -> SUBSET (Nat \ {0})]
  BY <1>1, <1>3 DEF Numbered, TablesInv, TableTypes
<1>5. HeadRevision(t)' = n + 1
  <2>1. revisions'[t] = 1..n + 1
    BY <1>3 DEF TablesInv, TableTypes
  <2> QED
    BY <1>1, <2>1, MaxOfInterval DEF HeadRevision
<1>6. \A tn \in Tenant \ {t} : HeadRevision(tn)' = HeadRevision(tn)
  BY <1>3 DEF HeadRevision, TablesInv, TableTypes
<1> QED
  BY <1>1, <1>2, <1>4, <1>5, <1>6 DEF Null

\* A step of a writer never takes a tenant's head back.
LEMMA HeadsGrow ==
  ASSUME TablesInv, TablesStep, NEW tn \in Tenant
  PROVE  /\ HeadRevision(tn) \in Nat /\ HeadRevision(tn)' \in Nat
         /\ HeadRevision(tn) <= HeadRevision(tn)'
<1>1. HeadRevision(tn) \in Nat
  BY HeadOfNumbered DEF TablesInv
<1>2. CASE UNCHANGED database
  BY <1>1, <1>2 DEF database, HeadRevision
<1>3. ASSUME NEW t \in Tenant, NEW r, NEW W, NEW D, Commits(t, r, W, D)
      PROVE  HeadRevision(tn)' \in {HeadRevision(tn), HeadRevision(tn) + 1}
  BY <1>3, HeadOfCommit
<1> QED
  BY <1>1, <1>2, <1>3 DEF TablesStep

------------------------------------------------------------------------------
\* The rows a commit leaves

Closes(tn, D, old) == old.tenant = tn /\ old.tuple \in D /\ IsActive(old)

After(tn, r, D, old) ==
  IF Closes(tn, D, old) THEN [old EXCEPT !.deleted = r] ELSE old

\* A row is new, or was there and may have been closed.
LEMMA RowsOfCommit ==
  ASSUME NEW tn, NEW r, NEW W, NEW D, Commits(tn, r, W, D), NEW row \in rows'
  PROVE  \/ \E old \in rows : row = After(tn, r, D, old)
         \/ row = NewRow(tn, row.tuple, r) /\ row.tuple \in W
<1>1. CASE row \in CloseWindows(rows, tn, D, r)
  BY <1>1 DEF CloseWindows, After, Closes
<1>2. CASE row \in {NewRow(tn, t, r) : t \in W}
  BY <1>2 DEF NewRow
<1> QED
  BY <1>1, <1>2 DEF Commits

LEMMA KeptRows ==
  ASSUME NEW tn, NEW r, NEW W, NEW D, Commits(tn, r, W, D), NEW old \in rows
  PROVE  After(tn, r, D, old) \in rows'
BY DEF Commits, CloseWindows, After, Closes

LEMMA AfterFields ==
  ASSUME TableTypes, NEW tn, NEW r, NEW D, NEW old \in rows
  PROVE  LET new == After(tn, r, D, old) IN
         /\ new.tenant = old.tenant /\ new.tuple = old.tuple
         /\ new.created = old.created
         /\ new.deleted = IF Closes(tn, D, old) THEN r ELSE old.deleted
BY DEF After, TableTypes, Row

\* What is known of a row of the tenant that commits.
LEMMA OldRows ==
  ASSUME TablesInv, NEW t \in Tenant, NEW r, NEW W, NEW D, Commits(t, r, W, D),
         NEW old \in rows, old.tenant = t
  PROVE  /\ old.created \in Nat /\ old.deleted \in Nat /\ old.tuple \in Tuple
         /\ old.created < r /\ old.deleted < r
         /\ old.tuple \in W => ~IsActive(old)
<1>1. HeadRevision(t) \in Nat /\ r = HeadRevision(t) + 1
  BY HeadOfCommit
<1>2. old.created \in Nat /\ old.deleted \in Nat /\ old.tuple \in Tuple
  BY DEF TablesInv, TableTypes, Row
<1>3. old.created <= HeadRevision(t) /\ old.deleted <= HeadRevision(t)
  BY DEF TablesInv, WithinHead
<1>4. old.tuple \in W => ~IsActive(old)
  BY <1>2 DEF Commits, ActiveTuples
<1> QED
  BY <1>1, <1>2, <1>3, <1>4

LEMMA RowTypesCommit ==
  ASSUME TablesInv, NEW t \in Tenant, NEW r, NEW W, NEW D, Commits(t, r, W, D)
  PROVE  rows' \subseteq Row
<1>1. r \in Nat \ {Null} /\ W \subseteq Tuple
  <2>1. r \in Nat \ {Null}
    BY HeadOfCommit
  <2> QED
    BY <2>1 DEF Commits
<1>2. CloseWindows(rows, t, D, r) \subseteq Row
  BY <1>1 DEF TablesInv, TableTypes, CloseWindows, Row
<1>3. {NewRow(t, u, r) : u \in W} \subseteq Row
  BY <1>1 DEF NewRow, Row, Null
<1> QED
  BY <1>2, <1>3 DEF Commits

LEMMA WindowsCommit ==
  ASSUME TablesInv, NEW t \in Tenant, NEW r, NEW W, NEW D, Commits(t, r, W, D)
  PROVE  TablesInv'
<1>1. /\ HeadRevision(t) \in Nat /\ r = HeadRevision(t) + 1 /\ r \in Nat \ {Null}
      /\ HeadRevision(t)' = r
      /\ \A tn \in Tenant \ {t} : HeadRevision(tn)' = HeadRevision(tn)
  BY HeadOfCommit
<1>2. TableTypes
  BY DEF TablesInv
<1>3. \A row \in rows : row \in Row /\ HeadRevision(row.tenant) \in Nat
  BY HeadOfNumbered DEF TablesInv, TableTypes, Row
<1>4. ASSUME NEW row \in rows'
      PROVE  /\ row.created <= HeadRevision(row.tenant)'
             /\ row.deleted <= HeadRevision(row.tenant)'
             /\ IsActive(row) \/ row.created < row.deleted
  <2>1. CASE row = NewRow(t, row.tuple, r)
    BY <1>1, <2>1 DEF NewRow, IsActive, Null, HeadRevision
  <2>2. ASSUME NEW old \in rows, row = After(t, r, D, old)
        PROVE  /\ row.created <= HeadRevision(row.tenant)'
               /\ row.deleted <= HeadRevision(row.tenant)'
               /\ IsActive(row) \/ row.created < row.deleted
    <3> /\ row.tenant = old.tenant /\ row.created = old.created
        /\ row.deleted = IF Closes(t, D, old) THEN r ELSE old.deleted
      BY <1>2, <2>2, AfterFields
    <3>1. CASE old.tenant = t
      <4>1. old.created < r /\ old.deleted < r /\ old.created \in Nat /\ old.deleted \in Nat
        BY <3>1, OldRows
      <4>2. IsActive(old) \/ old.created < old.deleted
        BY DEF TablesInv, WindowsDisjoint
      <4> QED
        BY <1>1, <2>2, <3>1, <4>1, <4>2 DEF IsActive, HeadRevision
    <3>2. CASE old.tenant # t
      <4>1. HeadRevision(old.tenant)' = HeadRevision(old.tenant) /\ row = old
        BY <1>1, <1>3, <2>2, <3>2 DEF Row, After, Closes
      <4> QED
        BY <4>1 DEF TablesInv, WithinHead, WindowsDisjoint
    <3> QED
      BY <3>1, <3>2
  <2> QED
    BY <2>1, <2>2, RowsOfCommit
<1>5. WithinHead'
  BY <1>4 DEF WithinHead
<1>6. ASSUME NEW a \in rows', NEW b \in rows, a.tenant = b.tenant, a.tuple = b.tuple,
             a = NewRow(t, a.tuple, r), a.tuple \in W
      PROVE  LET z == After(t, r, D, b) IN ~IsActive(z) /\ z.deleted <= a.created
  <2>1. b.tenant = t /\ b.tuple \in W /\ a.created = r
    BY <1>6 DEF NewRow
  <2>2. ~IsActive(b) /\ b.deleted < r /\ b.deleted \in Nat
    BY <2>1, OldRows
  <2>3. After(t, r, D, b) = b
    BY <2>2 DEF After, Closes
  <2> QED
    BY <1>1, <2>1, <2>2, <2>3
<1>7. ASSUME NEW a \in rows, NEW b \in rows, a.tenant = b.tenant,
             a.tuple = b.tuple, ~IsActive(a), a.deleted <= b.created
      PROVE  LET x == After(t, r, D, a)
                 y == After(t, r, D, b)
             IN ~IsActive(x) /\ x.deleted <= y.created
  BY <1>2, <1>7, AfterFields DEF After, Closes
<1>8. ASSUME NEW x \in rows', NEW y \in rows',
             x # y, x.tenant = y.tenant, x.tuple = y.tuple
      PROVE  \/ ~IsActive(x) /\ x.deleted <= y.created
             \/ ~IsActive(y) /\ y.deleted <= x.created
  <2>1. CASE /\ x = NewRow(t, x.tuple, r) /\ x.tuple \in W
             /\ y = NewRow(t, y.tuple, r)
    BY <1>8, <2>1
  <2>2. CASE /\ x = NewRow(t, x.tuple, r) /\ x.tuple \in W
             /\ \E b \in rows : y = After(t, r, D, b)
    BY <1>2, <1>6, <1>8, <2>2, AfterFields
  <2>3. CASE /\ y = NewRow(t, y.tuple, r) /\ y.tuple \in W
             /\ \E b \in rows : x = After(t, r, D, b)
    BY <1>2, <1>6, <1>8, <2>3, AfterFields
  <2>4. ASSUME NEW a \in rows, NEW b \in rows,
               x = After(t, r, D, a), y = After(t, r, D, b)
        PROVE  \/ ~IsActive(x) /\ x.deleted <= y.created
               \/ ~IsActive(y) /\ y.deleted <= x.created
    <3>1. a # b /\ a.tenant = b.tenant /\ a.tuple = b.tuple
      BY <1>2, <1>8, <2>4, AfterFields
    <3>2. \/ ~IsActive(a) /\ a.deleted <= b.created
          \/ ~IsActive(b) /\ b.deleted <= a.created
      BY <3>1 DEF TablesInv, WindowsDisjoint
    <3> QED
      BY <1>7, <2>4, <3>1, <3>2
  <2> QED
    BY <2>1, <2>2, <2>3, <2>4, RowsOfCommit
<1>9. WindowsDisjoint'
  BY <1>4, <1>8 DEF WindowsDisjoint
<1> QED
  BY <1>5, <1>9, HeadOfCommit, RowTypesCommit DEF TablesInv, TableTypes

LEMMA TablesKept ==
  ASSUME TablesInv, TablesStep
  PROVE  TablesInv'
<1>1. CASE UNCHANGED database
  BY <1>1 DEF TablesInv, TableTypes, Numbered, WithinHead, WindowsDisjoint,
              HeadRevision, IsActive, database
<1> QED
  BY <1>1, WindowsCommit DEF TablesStep

LEMMA ActiveElsewhere ==
  ASSUME TablesInv, NEW t \in Tenant, NEW r, NEW W, NEW D, Commits(t, r, W, D),
         NEW tn \in Tenant \ {t}
  PROVE  ActiveTuples(rows', tn) = ActiveTuples(rows, tn)
<1>1. ASSUME NEW row \in rows', row.tenant = tn
      PROVE  row \in rows
  <2>1. ASSUME NEW old \in rows, row = After(t, r, D, old)
        PROVE  row = old
    BY <1>1, <2>1, AfterFields DEF After, Closes, TablesInv
  <2> QED
    BY <1>1, <2>1, RowsOfCommit DEF NewRow
<1>2. ASSUME NEW row \in rows, row.tenant = tn
      PROVE  row \in rows'
  BY <1>2, KeptRows DEF After, Closes
<1> QED
  BY <1>1, <1>2 DEF ActiveTuples

------------------------------------------------------------------------------
\* Snapshots and changes

\* A commit changes no snapshot up to the head before it.
LEMMA CommitKeepsSnapshots ==
  ASSUME TablesInv, NEW t \in Tenant, NEW r, NEW W, NEW D, Commits(t, r, W, D),
         NEW tn \in Tenant, NEW at \in Nat, at <= HeadRevision(tn)
  PROVE  VisibleAt(rows', tn, at) = VisibleAt(rows, tn, at)
<1>1. HeadRevision(t) \in Nat /\ r = HeadRevision(t) + 1 /\ r # Null
  BY HeadOfCommit
<1>2. TableTypes /\ rows \subseteq Row
  BY DEF TablesInv, TableTypes
<1>3. ASSUME NEW old \in rows, old.tenant = tn
      PROVE  LET new == After(t, r, D, old) IN
             /\ new \in rows' /\ new.tenant = tn /\ new.tuple = old.tuple
             /\ InWindow(new, at) <=> InWindow(old, at)
  <2>1. After(t, r, D, old) \in rows'
    BY KeptRows
  <2>2. CASE Closes(t, D, old)
    <3>1. tn = t /\ at < r
      BY <1>1, <1>3, <2>2 DEF Closes
    <3> QED
      BY <1>1, <1>2, <1>3, <2>1, <2>2, <3>1, AfterFields DEF InWindow, IsActive, Closes
  <2>3. CASE ~Closes(t, D, old)
    BY <1>3, <2>1, <2>3 DEF After
  <2> QED
    BY <2>2, <2>3
<1>4. ASSUME NEW row \in rows', row.tenant = tn, InWindow(row, at)
      PROVE  \E old \in rows : old.tenant = tn /\ old.tuple = row.tuple /\ InWindow(old, at)
  <2>1. CASE row = NewRow(t, row.tuple, r)
    <3>1. row.tenant = t /\ row.created = r
      BY <2>1 DEF NewRow
    <3> QED
      BY <1>1, <1>4, <3>1 DEF InWindow
  <2>2. ASSUME NEW old \in rows, row = After(t, r, D, old)
        PROVE  old.tenant = tn /\ old.tuple = row.tuple /\ InWindow(old, at)
    <3>1. old.tenant = tn
      BY <1>2, <1>4, <2>2, AfterFields
    <3> QED
      BY <1>3, <1>4, <2>2, <3>1
  <2> QED
    BY <2>1, <2>2, RowsOfCommit
<1> QED
  BY <1>3, <1>4 DEF VisibleAt

LEMMA SnapshotsStand ==
  ASSUME TablesInv, TablesStep, NEW tn \in Tenant, NEW at \in Nat, at <= HeadRevision(tn)
  PROVE  VisibleAt(rows', tn, at) = VisibleAt(rows, tn, at)
BY CommitKeepsSnapshots DEF TablesStep, database

\* The tuples active now are those of the snapshot of the head.
LEMMA LatestIsActive ==
  ASSUME TablesInv, NEW tn \in Tenant
  PROVE  VisibleAt(rows, tn, HeadRevision(tn)) = ActiveTuples(rows, tn)
<1>1. HeadRevision(tn) \in Nat
  BY HeadOfNumbered DEF TablesInv
<1>2. ASSUME NEW row \in rows, row.tenant = tn
      PROVE  InWindow(row, HeadRevision(tn)) <=> IsActive(row)
  <2>1. /\ row.created \in Nat /\ row.deleted \in Nat
        /\ row.created <= HeadRevision(tn) /\ row.deleted <= HeadRevision(tn)
    BY <1>2 DEF TablesInv, TableTypes, WithinHead, Row
  <2> QED
    BY <1>1, <2>1 DEF InWindow
<1> QED
  BY <1>2 DEF VisibleAt, ActiveTuples

\* The rows a revision up to the head was created or closed in stay.
LEMMA CommitKeepsChanges ==
  ASSUME TablesInv, NEW t \in Tenant, NEW r, NEW W, NEW D, Commits(t, r, W, D),
         NEW tn \in Tenant, NEW q \in 1..HeadRevision(tn)
  PROVE  /\ CreatedAt(rows', tn, q) = CreatedAt(rows, tn, q)
         /\ DeletedAt(rows', tn, q) = DeletedAt(rows, tn, q)
<1>1. HeadRevision(t) \in Nat /\ r = HeadRevision(t) + 1 /\ HeadRevision(tn) \in Nat
  BY HeadOfCommit, HeadOfNumbered DEF TablesInv
<1>2. TableTypes /\ q \in Nat \ {0}
  BY <1>1 DEF TablesInv
<1>3. tn = t => q # r
  BY <1>1
<1>4. ASSUME NEW old \in rows, old.tenant = tn
      PROVE  LET new == After(t, r, D, old) IN
             /\ new \in rows' /\ new.tenant = tn /\ new.tuple = old.tuple
             /\ new.created = old.created
             /\ new.deleted = q <=> old.deleted = q
  BY <1>2, <1>3, <1>4, KeptRows, AfterFields DEF Closes, IsActive, Null
<1>5. ASSUME NEW row \in rows', row.tenant = tn
      PROVE  \/ row.created # q /\ row.deleted # q
             \/ \E old \in rows : row = After(t, r, D, old) /\ old.tenant = tn
  <2>1. CASE row = NewRow(t, row.tuple, r)
    BY <1>2, <1>3, <1>5, <2>1 DEF NewRow, Null
  <2>2. ASSUME NEW old \in rows, row = After(t, r, D, old)
        PROVE  old.tenant = tn
    BY <1>2, <1>5, <2>2, AfterFields
  <2> QED
    BY <2>1, <2>2, RowsOfCommit
<1>6. CreatedAt(rows', tn, q) = CreatedAt(rows, tn, q)
  BY <1>4, <1>5 DEF CreatedAt
<1>7. DeletedAt(rows', tn, q) = DeletedAt(rows, tn, q)
  BY <1>4, <1>5 DEF DeletedAt
<1> QED
  BY <1>6, <1>7

LEMMA ChangesStand ==
  ASSUME TablesInv, TablesStep, NEW tn \in Tenant, NEW q \in 1..HeadRevision(tn)
  PROVE  /\ CreatedAt(rows', tn, q) = CreatedAt(rows, tn, q)
         /\ DeletedAt(rows', tn, q) = DeletedAt(rows, tn, q)
BY CommitKeepsChanges DEF TablesStep, database

\* The new revision is made of what was inserted and closed.
LEMMA NewRevision ==
  ASSUME TablesInv, NEW t \in Tenant, NEW r, NEW W, NEW D, Commits(t, r, W, D)
  PROVE  /\ CreatedAt(rows', t, r) = W
         /\ DeletedAt(rows', t, r) = D
         /\ VisibleAt(rows', t, r) = (ActiveTuples(rows, t) \cup W) \ D
<1>1. /\ r \in Nat \ {Null} /\ TableTypes
      /\ W \subseteq Tuple /\ D \subseteq ActiveTuples(rows, t) /\ W \cap D = {}
  <2>1. r \in Nat \ {Null}
    BY HeadOfCommit
  <2> QED
    BY <2>1 DEF TablesInv, Commits
<1>2. ASSUME NEW old \in rows, old.tenant = t
      PROVE  LET new == After(t, r, D, old) IN
             /\ new \in rows' /\ new.tenant = t /\ new.tuple = old.tuple
             /\ new.created # r
             /\ new.deleted = r <=> old.tuple \in D /\ IsActive(old)
             /\ InWindow(new, r) <=> IsActive(old) /\ old.tuple \notin D
  <2>1. /\ old.created \in Nat /\ old.deleted \in Nat
        /\ old.created < r /\ old.deleted < r
    BY <1>2, OldRows
  <2>2. CASE Closes(t, D, old)
    BY <1>1, <1>2, <2>1, <2>2, KeptRows, AfterFields DEF Closes, InWindow, IsActive
  <2>3. CASE ~Closes(t, D, old)
    BY <1>1, <1>2, <2>1, <2>3, KeptRows, AfterFields DEF Closes, InWindow, IsActive
  <2> QED
    BY <2>2, <2>3
<1>3. ASSUME NEW u \in W
      PROVE  LET new == NewRow(t, u, r) IN
             /\ new \in rows' /\ new.tenant = t /\ new.tuple = u
             /\ new.created = r /\ new.deleted # r /\ InWindow(new, r)
  BY <1>1 DEF Commits, NewRow, InWindow, IsActive
<1>4. ASSUME NEW row \in rows', row.tenant = t
      PROVE  \/ row.tuple \in W /\ row = NewRow(t, row.tuple, r)
             \/ \E old \in rows : old.tenant = t /\ row = After(t, r, D, old)
  BY <1>1, <1>4, RowsOfCommit, AfterFields
<1>5. CreatedAt(rows', t, r) = W
  BY <1>1, <1>2, <1>3, <1>4 DEF CreatedAt
<1>6. DeletedAt(rows', t, r) = D
  BY <1>1, <1>2, <1>3, <1>4 DEF DeletedAt, ActiveTuples
<1>7. ASSUME NEW u \in VisibleAt(rows', t, r)
      PROVE  u \in (ActiveTuples(rows, t) \cup W) \ D
  <2>1. PICK row \in rows' : row.tenant = t /\ row.tuple = u /\ InWindow(row, r)
    BY DEF VisibleAt
  <2> QED
    BY <1>1, <1>2, <1>4, <1>7, <2>1 DEF ActiveTuples, VisibleAt
<1>8. ASSUME NEW u \in (ActiveTuples(rows, t) \cup W) \ D
      PROVE  u \in VisibleAt(rows', t, r)
  <2>1. CASE u \in W
    BY <1>1, <1>3, <2>1 DEF VisibleAt
  <2>2. CASE u \in ActiveTuples(rows, t)
    BY <1>2, <1>8, <2>2 DEF VisibleAt, ActiveTuples
  <2> QED
    BY <2>1, <2>2
<1> QED
  BY <1>5, <1>6, <1>7, <1>8

------------------------------------------------------------------------------
\* The abstract store

LEMMA StoreInit == ReadInit => Store!Init
<1> SUFFICES ASSUME ReadInit PROVE Store!Init
  OBVIOUS
<1> 0..0 = {0} /\ 1..0 = {}
  OBVIOUS
<1>1. \A tn \in Tenant : HeadRevision(tn) = 0
  BY DEF ReadInit, HeadRevision, MaxRevision
<1>2. Heads = [tn \in Tenant |-> 0]
  BY <1>1 DEF Heads
<1>3. Snapshots = [tn \in Tenant |-> [r \in {0} |-> {}]]
  <2>1. \A tn \in Tenant : 0..HeadRevision(tn) = {0}
    BY <1>1
  <2>2. \A tn \in Tenant, r \in {0} : VisibleAt(rows, tn, r) = {}
    BY DEF ReadInit, VisibleAt
  <2>3. \A tn \in Tenant : [r \in 0..HeadRevision(tn) |-> VisibleAt(rows, tn, r)]
                             = [r \in {0} |-> {}]
    BY <2>1, <2>2
  <2> QED
    BY <2>3 DEF Snapshots
<1>4. Changes = [tn \in Tenant |-> [r \in {} |-> {}]]
  <2>1. \A tn \in Tenant : 1..HeadRevision(tn) = {}
    BY <1>1
  <2>2. \A tn \in Tenant :
          [r \in 1..HeadRevision(tn) |->
             [written |-> CreatedAt(rows, tn, r), deleted |-> DeletedAt(rows, tn, r)]]
          = [r \in {} |-> {}]
    BY <2>1
  <2> QED
    BY <2>2 DEF Changes
<1> QED
  BY <1>2, <1>3, <1>4 DEF Store!Init

ChangeOf(T, tn, q) ==
  [written |-> CreatedAt(T, tn, q), deleted |-> DeletedAt(T, tn, q)]

\* A commit is one step of the abstract store, with the same W and D.
LEMMA CommitImplements ==
  ASSUME TablesInv, NEW t \in Tenant, NEW r, NEW W, NEW D, Commits(t, r, W, D)
  PROVE  W \in SUBSET Tuple /\ D \in SUBSET Tuple /\ Store!Commit(t, W, D)
<1> DEFINE n == HeadRevision(t)
<1>1. /\ n \in Nat /\ r = n + 1 /\ HeadRevision(t)' = r
      /\ \A tn \in Tenant \ {t} : HeadRevision(tn)' = HeadRevision(tn)
  BY HeadOfCommit
<1>2. /\ W \subseteq Tuple /\ W \cap ActiveTuples(rows, t) = {}
      /\ D \subseteq ActiveTuples(rows, t)
  BY DEF Commits
<1>3. W \in SUBSET Tuple /\ D \in SUBSET Tuple
  BY <1>2 DEF ActiveTuples
<1>4. Heads[t] = n /\ Snapshots[t] = [q \in 0..n |-> VisibleAt(rows, t, q)]
  BY DEF Heads, Snapshots
<1>5. Store!Latest(t) = ActiveTuples(rows, t)
  <2>1. VisibleAt(rows, t, n) = ActiveTuples(rows, t)
    BY LatestIsActive
  <2> QED
    BY <1>1, <1>4, <2>1 DEF Store!Latest
<1>6. Heads' = [Heads EXCEPT ![t] = r]
  BY <1>1 DEF Heads
<1>7. Snapshots' = [Snapshots EXCEPT ![t] =
        [q \in 0..r |-> IF q = r THEN (Store!Latest(t) \cup W) \ D ELSE Snapshots[t][q]]]
  <2>1. ASSUME NEW tn \in Tenant \ {t}
        PROVE  Snapshots'[tn] = Snapshots[tn]
    <3>1. HeadRevision(tn) \in Nat /\ HeadRevision(tn)' = HeadRevision(tn)
      BY <1>1, HeadOfNumbered DEF TablesInv
    <3>2. \A q \in 0..HeadRevision(tn) : VisibleAt(rows', tn, q) = VisibleAt(rows, tn, q)
      BY <3>1, CommitKeepsSnapshots
    <3> QED
      BY <3>1, <3>2 DEF Snapshots
  <2>2. \A q \in 0..n : VisibleAt(rows', t, q) = VisibleAt(rows, t, q)
    BY <1>1, CommitKeepsSnapshots
  <2>3. VisibleAt(rows', t, r) = (Store!Latest(t) \cup W) \ D
    BY <1>5, NewRevision
  <2>4. Snapshots'[t] = [q \in 0..r |-> VisibleAt(rows', t, q)]
    BY <1>1 DEF Snapshots
  <2>5. \A q \in 0..r : q # r => q \in 0..n
    BY <1>1
  <2>6. Snapshots'[t] =
          [q \in 0..r |-> IF q = r THEN (Store!Latest(t) \cup W) \ D ELSE Snapshots[t][q]]
    BY <1>4, <2>2, <2>3, <2>4, <2>5
  <2> QED
    BY <2>1, <2>6 DEF Snapshots
<1>8. Changes' = [Changes EXCEPT ![t] =
        [q \in 1..r |-> IF q = r THEN [written |-> W, deleted |-> D] ELSE Changes[t][q]]]
  <2>1. \A tn \in Tenant : Changes[tn] = [q \in 1..HeadRevision(tn) |-> ChangeOf(rows, tn, q)]
    BY DEF Changes, ChangeOf
  <2>2. \A tn \in Tenant : \A q \in 1..HeadRevision(tn) :
          ChangeOf(rows', tn, q) = ChangeOf(rows, tn, q)
    BY CommitKeepsChanges DEF ChangeOf
  <2>3. \A tn \in Tenant :
          Changes'[tn] = [q \in 1..HeadRevision(tn)' |-> ChangeOf(rows', tn, q)]
    BY DEF Changes, ChangeOf
  <2>4. ChangeOf(rows', t, r) = [written |-> W, deleted |-> D]
    BY NewRevision DEF ChangeOf
  <2>5. \A q \in 1..r : q # r => q \in 1..n
    BY <1>1
  <2>6. ASSUME NEW tn \in Tenant \ {t}
        PROVE  Changes'[tn] = Changes[tn]
    <3>1. HeadRevision(tn)' = HeadRevision(tn)
      BY <1>1
    <3>2. Changes'[tn] = [q \in 1..HeadRevision(tn) |-> ChangeOf(rows', tn, q)]
      BY <2>3, <3>1
    <3> QED
      BY <2>1, <2>2, <3>2
  <2>7. Changes'[t] =
          [q \in 1..r |-> IF q = r THEN [written |-> W, deleted |-> D] ELSE Changes[t][q]]
    <3>1. Changes'[t] = [q \in 1..r |-> ChangeOf(rows', t, q)]
      BY <1>1, <2>3
    <3>2. Changes[t] = [q \in 1..n |-> ChangeOf(rows, t, q)]
      BY <2>1
    <3>3. \A q \in 1..n : ChangeOf(rows', t, q) = ChangeOf(rows, t, q)
      BY <2>2
    <3> QED
      BY <2>4, <2>5, <3>1, <3>2, <3>3
  <2> QED
    BY <2>6, <2>7 DEF Changes
<1>9. Store!Commit(t, W, D)
  BY <1>1, <1>2, <1>4, <1>5, <1>6, <1>7, <1>8 DEF Store!Commit
<1> QED
  BY <1>3, <1>9

LEMMA StoreStep ==
  ASSUME TablesInv, TablesStep
  PROVE  [Store!Next]_(Store!vars)
<1>1. CASE UNCHANGED database
  BY <1>1 DEF database, Store!vars, Heads, Snapshots, Changes, HeadRevision
<1>2. ASSUME NEW t \in Tenant, NEW r, NEW W, NEW D, Commits(t, r, W, D)
      PROVE  Store!Next
  BY <1>2, CommitImplements DEF Store!Next
<1> QED
  BY <1>1, <1>2 DEF TablesStep

------------------------------------------------------------------------------
\* Calls that read

Asking == [pc : {"head"}, tenant : Tenant, policy : Policy, of : Tenant, asked : Nat,
           floor : Nat]
Reading == [pc : {"check", "select", "done"}, tenant : Tenant, policy : Policy,
            of : Tenant, asked : Nat, floor : Nat, at : Nat, got : Seq(SUBSET Tuple)]

\* A call that has resolved its policy, in a database with rows T and head n:
\* its revision is one it may answer from, and exists before anything is read.
Allowed(rec) ==
  /\ rec.of = rec.tenant
  /\ rec.policy = "full"  => rec.floor <= rec.at
  /\ rec.policy = "fresh" => rec.asked <= rec.at
  /\ rec.policy = "exact" => rec.at = rec.asked

Sound(rec, T, n) ==
  /\ rec.floor <= n
  /\ Allowed(rec)
  /\ rec.pc = "select" \/ Len(rec.got) > 0 => rec.at <= n
  /\ rec.pc = "done" => Len(rec.got) = ReadsPerCall
  /\ \A i \in 1..Len(rec.got) : rec.got[i] = VisibleAt(T, rec.tenant, rec.at)

ReadTypes == read \in [Reader -> {NoCall} \cup Asking \cup Reading]

CallSound(rd) ==
  LET rec == read[rd] IN
  /\ rec \in Asking => rec.floor <= HeadRevision(rec.tenant)
  /\ rec \in Reading => Sound(rec, rows, HeadRevision(rec.tenant))

ReadInv == TablesInv /\ ReadTypes /\ \A rd \in Reader : CallSound(rd)

\* The three kinds of record are told apart by where the call is.
LEMMA ReadKinds ==
  ASSUME NEW rec \in {NoCall} \cup Asking \cup Reading
  PROVE  /\ rec.pc = "idle" => rec = NoCall
         /\ rec.pc = "head" <=> rec \in Asking
         /\ rec.pc \in {"check", "select", "done"} <=> rec \in Reading
BY DEF NoCall, Asking, Reading

\* Whatever is committed, a call that reads stays sound.
LEMMA ReadsStand ==
  ASSUME ReadInv, TablesStep, UNCHANGED read
  PROVE  ReadTypes' /\ \A rd \in Reader : CallSound(rd)'
<1>1. ReadTypes'
  BY DEF ReadInv, ReadTypes
<1>2. ASSUME NEW rd \in Reader
      PROVE  CallSound(rd)'
  <2> DEFINE rec == read[rd]
             n   == HeadRevision(rec.tenant)
  <2>1. CASE rec = NoCall
    BY <2>1 DEF CallSound, NoCall, Asking, Reading
  <2>2. CASE rec \in Asking
    <3>1. rec \in Asking /\ rec \notin Reading /\ rec.tenant \in Tenant /\ rec.floor \in Nat
      BY <2>2 DEF Asking, Reading
    <3>2. PICK t \in Tenant : t = rec.tenant
      BY <3>1
    <3>3. HeadRevision(t) \in Nat /\ HeadRevision(t)' \in Nat
          /\ HeadRevision(t) <= HeadRevision(t)'
      BY HeadsGrow DEF ReadInv
    <3>4. HeadRevision(read[rd].tenant)' = HeadRevision(t)'
      BY <3>2 DEF HeadRevision
    <3> QED
      BY <3>1, <3>2, <3>3, <3>4 DEF CallSound, ReadInv
  <2>3. CASE rec \in Reading
    <3>1. /\ rec \in Reading /\ rec \notin Asking /\ rec.tenant \in Tenant
          /\ rec.floor \in Nat /\ rec.at \in Nat /\ Len(rec.got) \in Nat
      BY <2>3 DEF Asking, Reading
    <3>2. PICK t \in Tenant : t = rec.tenant
      BY <3>1
    <3>3. HeadRevision(t) \in Nat /\ HeadRevision(t)' \in Nat
          /\ HeadRevision(t) <= HeadRevision(t)'
      BY HeadsGrow DEF ReadInv
    <3>4. Sound(rec, rows, HeadRevision(t))
      BY <3>1, <3>2 DEF CallSound, ReadInv
    <3>5. ASSUME Len(rec.got) > 0
          PROVE  VisibleAt(rows', t, rec.at) = VisibleAt(rows, t, rec.at)
      <4>1. rec.at <= HeadRevision(t)
        BY <3>4, <3>5 DEF Sound
      <4> QED
        BY <3>1, <4>1, SnapshotsStand DEF ReadInv
    <3>6. Sound(rec, rows', HeadRevision(t)')
      BY <3>1, <3>2, <3>3, <3>4, <3>5 DEF Sound
    <3>7. HeadRevision(read[rd].tenant)' = HeadRevision(t)'
      BY <3>2 DEF HeadRevision
    <3> QED
      BY <3>1, <3>6, <3>7 DEF CallSound
  <2> QED
    BY <2>1, <2>2, <2>3 DEF ReadInv, ReadTypes
<1> QED
  BY <1>1, <1>2

\* A step of one reader stands or falls with the record it leaves.
LEMMA OneCallReads ==
  ASSUME ReadInv, NEW rd \in Reader, NEW rec \in {NoCall} \cup Asking \cup Reading,
         read' = [read EXCEPT ![rd] = rec], UNCHANGED database,
         rec \in Asking => rec.floor <= HeadRevision(rec.tenant),
         rec \in Reading => Sound(rec, rows, HeadRevision(rec.tenant))
  PROVE  ReadTypes' /\ \A other \in Reader : CallSound(other)'
<1>1. ReadTypes'
  BY DEF ReadInv, ReadTypes
<1>2. ASSUME NEW other \in Reader
      PROVE  CallSound(other)'
  <2> DEFINE kept == read'[other]
  <2>1. kept = IF other = rd THEN rec ELSE read[other]
    BY DEF ReadInv, ReadTypes
  <2>2. /\ kept \in Asking => kept.floor <= HeadRevision(kept.tenant)
        /\ kept \in Reading => Sound(kept, rows, HeadRevision(kept.tenant))
    BY <2>1 DEF ReadInv, CallSound
  <2>3. rows' = rows /\ revisions' = revisions
    BY DEF database
  <2> QED
    BY <2>2, <2>3 DEF CallSound, HeadRevision
<1> QED
  BY <1>1, <1>2

\* What is known of a call that has resolved its policy.
LEMMA ReadingTypes ==
  ASSUME ReadInv, NEW rd \in Reader, read[rd].pc \in {"check", "select", "done"}
  PROVE  /\ read[rd] \in Reading
         /\ HeadRevision(read[rd].tenant) \in Nat
         /\ Sound(read[rd], rows, HeadRevision(read[rd].tenant))
<1>1. read[rd] \in Reading
  BY ReadKinds DEF ReadInv, ReadTypes
<1> QED
  BY <1>1, HeadOfNumbered DEF ReadInv, TablesInv, CallSound, Reading

LEMMA StartCallSound ==
  ASSUME ReadInv, UNCHANGED database, NEW rd \in Reader, NEW tn \in Tenant,
         NEW of \in Tenant, NEW policy \in Policy, NEW asked \in Nat,
         StartCall(rd, tn, policy, of, asked)
  PROVE  ReadTypes' /\ \A other \in Reader : CallSound(other)'
<1> DEFINE rec == [pc |-> "head", tenant |-> tn, policy |-> policy, of |-> of,
                   asked |-> asked, floor |-> HeadRevision(tn)]
<1>1. HeadRevision(tn) \in Nat
  BY HeadOfNumbered DEF ReadInv, TablesInv
<1>2. rec \in Asking /\ rec \notin Reading /\ rec.floor <= HeadRevision(rec.tenant)
  BY <1>1 DEF Asking, Reading
<1>3. read' = [read EXCEPT ![rd] = rec]
  BY DEF StartCall
<1> HIDE DEF rec
<1> QED
  BY <1>2, <1>3, OneCallReads

LEMMA ResolveSound ==
  ASSUME ReadInv, UNCHANGED database, NEW rd \in Reader, Resolve(rd)
  PROVE  ReadTypes' /\ \A other \in Reader : CallSound(other)'
<1> DEFINE old == read[rd]
           n   == HeadRevision(old.tenant)
           rec == Pinned(old, IF old.policy = "exact" THEN old.asked ELSE n)
<1>1. old \in Asking
  BY ReadKinds DEF Resolve, ReadInv, ReadTypes
<1>2. n \in Nat /\ old.floor <= n
  BY <1>1, HeadOfNumbered DEF ReadInv, TablesInv, CallSound, Asking
<1>3. rec \in Reading /\ rec \notin Asking /\ rec.tenant = old.tenant
  BY <1>1, <1>2 DEF Pinned, Asking, Reading
<1>4. Sound(rec, rows, n)
  <2>1. /\ rec.policy = old.policy /\ rec.of = old.of /\ rec.asked = old.asked
        /\ rec.floor = old.floor /\ rec.pc = "check" /\ rec.got = <<>>
        /\ rec.at = IF old.policy = "exact" THEN old.asked ELSE n
    BY DEF Pinned
  <2>2. old.policy = "fresh" => old.asked <= n
    BY <1>1, <1>2 DEF Resolve, TooFresh, Asking
  <2>3. old.of = old.tenant
    BY DEF Resolve, ForeignToken
  <2> QED
    BY <1>1, <1>2, <1>3, <2>1, <2>2, <2>3 DEF Sound, Allowed, Asking
<1>5. read' = [read EXCEPT ![rd] = rec]
  BY DEF Resolve
<1> HIDE DEF rec
<1> QED
  BY <1>3, <1>4, <1>5, OneCallReads

LEMMA StartReadSound ==
  ASSUME ReadInv, UNCHANGED database, NEW rd \in Reader, StartRead(rd)
  PROVE  ReadTypes' /\ \A other \in Reader : CallSound(other)'
<1> DEFINE old == read[rd]
           n   == HeadRevision(old.tenant)
           rec == [old EXCEPT !.pc = "select"]
<1>1. old \in Reading /\ n \in Nat /\ Sound(old, rows, n) /\ old.at <= n
  BY ReadingTypes DEF StartRead
<1>2. rec \in Reading /\ rec \notin Asking
  BY <1>1 DEF Reading, Asking
<1>3. /\ rec.pc = "select" /\ rec.tenant = old.tenant /\ rec.policy = old.policy
      /\ rec.of = old.of /\ rec.asked = old.asked /\ rec.floor = old.floor /\ rec.at = old.at
      /\ rec.got = old.got
  BY <1>1 DEF Reading
<1>4. Sound(rec, rows, n)
  BY <1>1, <1>3 DEF Sound, Allowed
<1>5. read' = [read EXCEPT ![rd] = rec]
  BY DEF StartRead, ReadInv, ReadTypes
<1> HIDE DEF rec
<1> QED
  BY <1>2, <1>3, <1>4, <1>5, OneCallReads

LEMMA SelectSound ==
  ASSUME ReadInv, UNCHANGED database, NEW rd \in Reader, Select(rd)
  PROVE  ReadTypes' /\ \A other \in Reader : CallSound(other)'
<1> DEFINE old == read[rd]
           n   == HeadRevision(old.tenant)
           seen == VisibleAt(rows, old.tenant, old.at)
           rec == [old EXCEPT
                     !.pc = IF Len(old.got) + 1 = ReadsPerCall THEN "done" ELSE "check",
                     !.got = Append(old.got, seen)]
<1>1. old \in Reading /\ n \in Nat /\ Sound(old, rows, n) /\ old.pc = "select"
  BY ReadingTypes DEF Select
<1>2. old.got \in Seq(SUBSET Tuple) /\ seen \in SUBSET Tuple
  BY <1>1 DEF Reading, VisibleAt
<1> HIDE DEF seen
<1>3. /\ Append(old.got, seen) \in Seq(SUBSET Tuple)
      /\ Len(Append(old.got, seen)) = Len(old.got) + 1
      /\ \A i \in 1..Len(old.got) : Append(old.got, seen)[i] = old.got[i]
      /\ Append(old.got, seen)[Len(old.got) + 1] = seen
      /\ Len(old.got) \in Nat
  BY <1>2
<1>4. rec \in Reading /\ rec \notin Asking
  BY <1>1, <1>3 DEF Reading, Asking
<1>5. /\ rec.tenant = old.tenant /\ rec.policy = old.policy /\ rec.of = old.of
      /\ rec.asked = old.asked /\ rec.floor = old.floor /\ rec.at = old.at
      /\ rec.got = Append(old.got, seen)
      /\ rec.pc = "done" => Len(old.got) + 1 = ReadsPerCall
  BY <1>1 DEF Reading
<1>6. \A i \in 1..Len(rec.got) : rec.got[i] = VisibleAt(rows, rec.tenant, rec.at)
  BY <1>1, <1>3, <1>5 DEF Sound, seen
<1>7. Sound(rec, rows, n)
  BY <1>1, <1>3, <1>5, <1>6 DEF Sound, Allowed
<1>8. read' = [read EXCEPT ![rd] = rec]
  BY DEF Select, seen
<1> HIDE DEF rec
<1> QED
  BY <1>4, <1>5, <1>7, <1>8, OneCallReads

LEMMA RefuseCallSound ==
  ASSUME ReadInv, UNCHANGED database, NEW rd \in Reader, RefuseCall(rd)
  PROVE  ReadTypes' /\ \A other \in Reader : CallSound(other)'
<1>1. read' = [read EXCEPT ![rd] = NoCall] /\ NoCall \notin Asking \cup Reading
  BY DEF RefuseCall, NoCall, Asking, Reading
<1> QED
  BY <1>1, OneCallReads

LEMMA ReadStepSound ==
  ASSUME ReadInv, ReadStep
  PROVE  ReadTypes' /\ \A rd \in Reader : CallSound(rd)'
<1>1. UNCHANGED database
  BY DEF ReadStep
<1>2. ASSUME NEW rd \in Reader, NEW tn \in Tenant, NEW policy \in Policy,
             NEW of \in Tenant, NEW asked \in 0..HeadRevision(of) + 1,
             StartCall(rd, tn, policy, of, asked)
      PROVE  ReadTypes' /\ \A other \in Reader : CallSound(other)'
  <2>1. HeadRevision(of) \in Nat
    BY HeadOfNumbered DEF ReadInv, TablesInv
  <2>2. asked \in Nat
    BY <2>1
  <2> QED
    BY <1>1, <1>2, <2>2, StartCallSound
<1>3. ASSUME NEW rd \in Reader,
             Resolve(rd) \/ StartRead(rd) \/ Select(rd) \/ RefuseCall(rd)
      PROVE  ReadTypes' /\ \A other \in Reader : CallSound(other)'
  BY <1>1, <1>3, ResolveSound, StartReadSound, SelectSound, RefuseCallSound
<1>4. CASE read' = read
  BY <1>1, <1>4 DEF ReadInv, ReadTypes, CallSound, HeadRevision, database
<1>5. ASSUME NEW w \in Watcher,
             \/ \E tn \in Tenant : \E after \in 0..HeadRevision(tn) + 1 :
                  StartWatch(w, tn, after)
             \/ SelectCreated(w) \/ SelectDeleted(w)
      PROVE  read' = read
  BY <1>5 DEF StartWatch, SelectCreated, SelectDeleted
<1> QED
  BY <1>2, <1>3, <1>4, <1>5 DEF ReadStep

LEMMA ReadsInit == ReadInit => ReadInv
<1> SUFFICES ASSUME ReadInit PROVE ReadInv
  OBVIOUS
<1>1. read = [rd \in Reader |-> NoCall]
  BY DEF ReadInit
<1>2. NoCall \notin Asking /\ NoCall \notin Reading
  BY DEF NoCall, Asking, Reading
<1> QED
  BY <1>1, <1>2, TablesInit DEF ReadInv, ReadTypes, CallSound

LEMMA ReadsKept ==
  ASSUME ReadInv, ReadStep \/ (TablesStep /\ UNCHANGED read)
  PROVE  ReadInv'
<1>1. TablesInv'
  BY TablesKept DEF ReadInv, ReadStep, TablesStep
<1> QED
  BY <1>1, ReadStepSound, ReadsStand DEF ReadInv

\* What has been read is the snapshot of the revision it was pinned to.
LEMMA ReadsAreSnapshots == ReadInv => ReadIsSnapshot
BY ReadingTypes DEF ReadIsSnapshot, Sound

\* A call that is done has read one snapshot, and one that its policy allows.
LEMMA CallsReadOneSnapshot == ReadInv => CallReadsOneSnapshot
<1>1. ASSUME ReadInv, NEW rd \in Reader, read[rd].pc = "done"
      PROVE  \E r \in Promised(read[rd]) : \A i \in 1..ReadsPerCall :
               read[rd].got[i] = VisibleAt(rows, read[rd].tenant, r)
  <2> DEFINE rec == read[rd]
             n   == HeadRevision(rec.tenant)
  <2>1. rec \in Reading /\ n \in Nat /\ Sound(rec, rows, n)
    BY <1>1, ReadingTypes
  <2>2. Len(rec.got) = ReadsPerCall
    BY <1>1, <2>1 DEF Sound
  <2>3. rec.at <= n /\ \A i \in 1..ReadsPerCall :
          rec.got[i] = VisibleAt(rows, rec.tenant, rec.at)
    BY <2>1, <2>2 DEF Sound, ReadsPerCall
  <2>4. rec.at \in Promised(rec)
    <3>1. /\ rec.policy \in Policy /\ rec.at \in Nat /\ rec.asked \in Nat
          /\ rec.floor \in Nat /\ Allowed(rec)
      BY <2>1 DEF Reading, Sound
    <3>2. CASE rec.policy = "full"
      BY <2>1, <2>3, <3>1, <3>2 DEF Promised, Allowed
    <3>3. CASE rec.policy = "fresh"
      BY <2>1, <2>3, <3>1, <3>3 DEF Promised, Allowed
    <3>4. CASE rec.policy = "exact"
      BY <2>1, <2>3, <3>1, <3>4 DEF Promised, Allowed
    <3> QED
      BY <3>1, <3>2, <3>3, <3>4 DEF Policy
  <2> QED
    BY <2>3, <2>4
<1> QED
  BY <1>1 DEF CallReadsOneSnapshot

------------------------------------------------------------------------------
\* Watches

Idling == [pc : {"idle"}]
Watching == [pc : {"created"}, tenant : Tenant, after : Nat, start : Nat]
HalfWatched == [pc : {"deleted"}, tenant : Tenant, after : Nat, start : Nat,
                writes : SUBSET (Nat \X Tuple)]
Watched == [pc : {"done"}, tenant : Tenant, after : Nat, start : Nat,
            writes : SUBSET (Nat \X Tuple), deletes : SUBSET (Nat \X Tuple)]

UpTo(S, u) == {change \in S : change[1] <= u}

WatchTypes == watch \in [Watcher -> Idling \cup Watching \cup HalfWatched \cup Watched]

\* What a watch has read is what the database shows now, up to some revision
\* that is no earlier than its start.
Covers(rec, written, deleted, n) ==
  /\ rec \in Watching => rec.start <= n
  /\ rec \in HalfWatched => \E u \in rec.start..n : rec.writes = UpTo(written, u)
  /\ rec \in Watched => \E v \in rec.start..n : \E u \in rec.start..v :
       rec.writes = UpTo(written, u) /\ rec.deletes = UpTo(deleted, v)

WatchSound(w) ==
  watch[w] \notin Idling =>
    Covers(watch[w], WrittenAfter(watch[w].tenant, watch[w].after),
           DeletedAfter(watch[w].tenant, watch[w].after), HeadRevision(watch[w].tenant))

WatchInv == TablesInv /\ WatchTypes /\ \A w \in Watcher : WatchSound(w)

LEMMA WatchKinds ==
  ASSUME NEW rec \in Idling \cup Watching \cup HalfWatched \cup Watched
  PROVE  /\ rec.pc = "idle" <=> rec \in Idling
         /\ rec.pc = "created" <=> rec \in Watching
         /\ rec.pc = "deleted" <=> rec \in HalfWatched
         /\ rec.pc = "done" <=> rec \in Watched
         /\ rec \notin Idling => rec.tenant \in Tenant /\ rec.after \in Nat /\ rec.start \in Nat
BY DEF Idling, Watching, HalfWatched, Watched

\* All that a tenant's rows record lies up to its head.
LEMMA ChangesUpToHead ==
  ASSUME TablesInv, NEW tn \in Tenant, NEW after \in Nat
  PROVE  /\ WrittenAfter(tn, after) \in SUBSET (Nat \X Tuple)
         /\ DeletedAfter(tn, after) \in SUBSET (Nat \X Tuple)
         /\ UpTo(WrittenAfter(tn, after), HeadRevision(tn)) = WrittenAfter(tn, after)
         /\ UpTo(DeletedAfter(tn, after), HeadRevision(tn)) = DeletedAfter(tn, after)
<1>1. ASSUME NEW row \in rows, row.tenant = tn
      PROVE  /\ row.created \in Nat /\ row.deleted \in Nat /\ row.tuple \in Tuple
             /\ row.created <= HeadRevision(tn) /\ row.deleted <= HeadRevision(tn)
  BY <1>1 DEF TablesInv, TableTypes, WithinHead, Row
<1> QED
  BY <1>1 DEF WrittenAfter, DeletedAfter, UpTo

\* Later commits add to what a watch would read only beyond the head.
LEMMA WatchedStands ==
  ASSUME TablesInv, TablesStep, NEW tn \in Tenant, NEW after \in Nat,
         NEW u \in Nat, u <= HeadRevision(tn)
  PROVE  /\ UpTo(WrittenAfter(tn, after)', u) = UpTo(WrittenAfter(tn, after), u)
         /\ UpTo(DeletedAfter(tn, after)', u) = UpTo(DeletedAfter(tn, after), u)
<1>1. CASE UNCHANGED database
  BY <1>1 DEF database, WrittenAfter, DeletedAfter
<1>2. ASSUME NEW t \in Tenant, NEW r, NEW W, NEW D, Commits(t, r, W, D)
      PROVE  /\ UpTo(WrittenAfter(tn, after)', u) = UpTo(WrittenAfter(tn, after), u)
             /\ UpTo(DeletedAfter(tn, after)', u) = UpTo(DeletedAfter(tn, after), u)
  <2>1. HeadRevision(t) \in Nat /\ r = HeadRevision(t) + 1
    BY <1>2, HeadOfCommit
  <2>2. TableTypes /\ (tn = t => ~(r <= u))
    BY <2>1 DEF TablesInv
  <2>3. ASSUME NEW old \in rows, old.tenant = tn
        PROVE  LET new == After(t, r, D, old) IN
               /\ new \in rows' /\ new.tenant = tn
               /\ new.tuple = old.tuple /\ new.created = old.created
               /\ \/ new.deleted = old.deleted
                  \/ IsActive(old) /\ ~(new.deleted <= u)
    BY <1>2, <2>2, <2>3, KeptRows, AfterFields DEF Closes
  <2>4. ASSUME NEW row \in rows', row.tenant = tn
        PROVE  \/ ~(row.created <= u) /\ IsActive(row)
               \/ \E old \in rows : row = After(t, r, D, old) /\ old.tenant = tn
    <3>1. CASE row = NewRow(t, row.tuple, r)
      BY <2>2, <2>4, <3>1 DEF NewRow, IsActive
    <3>2. ASSUME NEW old \in rows, row = After(t, r, D, old)
          PROVE  old.tenant = tn
      BY <2>2, <2>4, <3>2, AfterFields
    <3> QED
      BY <1>2, <3>1, <3>2, RowsOfCommit
  <2>5. WrittenAfter(tn, after)' =
          {<<row.created, row.tuple>> : row \in {x \in rows' : x.tenant = tn /\ x.created > after}}
    BY DEF WrittenAfter
  <2>6. DeletedAfter(tn, after)' =
          {<<row.deleted, row.tuple>> :
             row \in {x \in rows' : x.tenant = tn /\ ~IsActive(x) /\ x.deleted > after}}
    BY DEF DeletedAfter, IsActive
  <2>7. UpTo(WrittenAfter(tn, after)', u) = UpTo(WrittenAfter(tn, after), u)
    BY <2>3, <2>4, <2>5 DEF WrittenAfter, UpTo
  <2>8. UpTo(DeletedAfter(tn, after)', u) = UpTo(DeletedAfter(tn, after), u)
    BY <2>3, <2>4, <2>6 DEF DeletedAfter, UpTo, IsActive
  <2> QED
    BY <2>7, <2>8
<1> QED
  BY <1>1, <1>2 DEF TablesStep

\* A commit leaves every watch sound.
LEMMA WatchesStand ==
  ASSUME WatchInv, TablesStep, UNCHANGED watch
  PROVE  WatchTypes' /\ \A w \in Watcher : WatchSound(w)'
<1>1. watch' = watch
  OBVIOUS
<1>2. WatchTypes'
  BY <1>1 DEF WatchInv, WatchTypes
<1>3. ASSUME NEW w \in Watcher, watch[w] \notin Idling
      PROVE  WatchSound(w)'
  <2> DEFINE rec == watch[w]
  <2>1. /\ rec \in Idling \cup Watching \cup HalfWatched \cup Watched
        /\ rec.tenant \in Tenant /\ rec.after \in Nat /\ rec.start \in Nat
    BY <1>3, WatchKinds DEF WatchInv, WatchTypes
  <2>2. PICK tn \in Tenant, after \in Nat, start \in Nat :
          tn = rec.tenant /\ after = rec.after /\ start = rec.start
    BY <2>1
  <2>3. /\ HeadRevision(tn) \in Nat /\ HeadRevision(tn)' \in Nat
        /\ HeadRevision(tn) <= HeadRevision(tn)'
    BY HeadsGrow DEF WatchInv
  <2> DEFINE n  == HeadRevision(tn)
             n2 == HeadRevision(tn)'
             W  == WrittenAfter(tn, after)
             W2 == WrittenAfter(tn, after)'
             D  == DeletedAfter(tn, after)
             D2 == DeletedAfter(tn, after)'
  <2>4. \A u \in Nat : u <= n => UpTo(W2, u) = UpTo(W, u) /\ UpTo(D2, u) = UpTo(D, u)
    BY WatchedStands DEF WatchInv
  <2>5. Covers(rec, W, D, n)
    BY <1>3, <2>2 DEF WatchInv, WatchSound
  <2>6. /\ WrittenAfter(watch[w].tenant, watch[w].after)' = W2
        /\ DeletedAfter(watch[w].tenant, watch[w].after)' = D2
        /\ HeadRevision(watch[w].tenant)' = n2
    BY <1>1, <2>2 DEF WrittenAfter, DeletedAfter, HeadRevision
  <2> HIDE DEF n, n2, W, W2, D, D2
  <2>7. n \in Nat /\ n2 \in Nat /\ n <= n2
    BY <2>3 DEF n, n2
  <2>8. Covers(rec, W2, D2, n2)
    <3>1. rec \in Watching => rec.start <= n2
      BY <2>2, <2>5, <2>7 DEF Covers
    <3>2. ASSUME rec \in HalfWatched
          PROVE  \E u \in rec.start..n2 : rec.writes = UpTo(W2, u)
      <4>1. PICK u \in rec.start..n : rec.writes = UpTo(W, u)
        BY <2>5, <3>2 DEF Covers
      <4>2. u \in Nat /\ u <= n /\ u \in rec.start..n2
        BY <2>2, <2>7, <4>1
      <4> QED
        BY <2>4, <4>1, <4>2
    <3>3. ASSUME rec \in Watched
          PROVE  \E v \in rec.start..n2 : \E u \in rec.start..v :
                   rec.writes = UpTo(W2, u) /\ rec.deletes = UpTo(D2, v)
      <4>1. PICK v \in rec.start..n, u \in rec.start..n :
              u \in rec.start..v /\ rec.writes = UpTo(W, u) /\ rec.deletes = UpTo(D, v)
        <5>1. \A v \in rec.start..n : \A u \in rec.start..v : u \in rec.start..n
          BY <2>2, <2>7
        <5> QED
          BY <2>5, <3>3, <5>1 DEF Covers
      <4>2. /\ v \in Nat /\ v <= n /\ v \in rec.start..n2
            /\ u \in Nat /\ u <= n
        BY <2>2, <2>7, <4>1
      <4> QED
        BY <2>4, <4>1, <4>2
    <3> QED
      BY <3>1, <3>2, <3>3 DEF Covers
  <2> QED
    BY <1>1, <2>6, <2>8 DEF WatchSound
<1>4. ASSUME NEW w \in Watcher, watch[w] \in Idling
      PROVE  WatchSound(w)'
  BY <1>1, <1>4 DEF WatchSound, Idling
<1> QED
  BY <1>2, <1>3, <1>4

\* A step of one watch stands or falls with the record it leaves.
LEMMA OneWatchSteps ==
  ASSUME WatchInv, NEW w \in Watcher, UNCHANGED database,
         NEW rec \in Watching \cup HalfWatched \cup Watched,
         watch' = [watch EXCEPT ![w] = rec],
         Covers(rec, WrittenAfter(rec.tenant, rec.after),
                DeletedAfter(rec.tenant, rec.after), HeadRevision(rec.tenant))
  PROVE  WatchTypes' /\ \A other \in Watcher : WatchSound(other)'
<1>1. WatchTypes'
  BY DEF WatchInv, WatchTypes
<1>2. ASSUME NEW other \in Watcher
      PROVE  WatchSound(other)'
  <2>1. watch'[other] = IF other = w THEN rec ELSE watch[other]
    BY DEF WatchInv, WatchTypes
  <2>2. watch'[other] \notin Idling =>
          Covers(watch'[other], WrittenAfter(watch'[other].tenant, watch'[other].after),
                 DeletedAfter(watch'[other].tenant, watch'[other].after),
                 HeadRevision(watch'[other].tenant))
    BY <2>1 DEF WatchInv, WatchSound
  <2> QED
    BY <2>2 DEF WatchSound, WrittenAfter, DeletedAfter, HeadRevision, database, IsActive
<1> QED
  BY <1>1, <1>2

LEMMA WatchStepSound ==
  ASSUME WatchInv, ReadStep
  PROVE  WatchTypes' /\ \A w \in Watcher : WatchSound(w)'
<1>1. UNCHANGED database
  BY DEF ReadStep
<1>2. CASE watch' = watch
  BY <1>1, <1>2 DEF WatchInv, WatchTypes, WatchSound, WrittenAfter, DeletedAfter,
                    HeadRevision, database, IsActive
<1>3. ASSUME NEW w \in Watcher, NEW tn \in Tenant, NEW after \in 0..HeadRevision(tn) + 1,
             StartWatch(w, tn, after)
      PROVE  WatchTypes' /\ \A other \in Watcher : WatchSound(other)'
  <2> DEFINE rec == [pc |-> "created", tenant |-> tn, after |-> after,
                     start |-> HeadRevision(tn)]
  <2>1. HeadRevision(tn) \in Nat
    BY HeadOfNumbered DEF WatchInv, TablesInv
  <2>2. /\ rec \in Watching /\ rec \notin HalfWatched /\ rec \notin Watched
        /\ rec.start <= HeadRevision(rec.tenant)
    BY <2>1 DEF Watching, HalfWatched, Watched
  <2>3. watch' = [watch EXCEPT ![w] = rec]
    BY <1>3 DEF StartWatch
  <2> HIDE DEF rec
  <2> QED
    BY <1>1, <2>2, <2>3, OneWatchSteps DEF Covers
<1>4. ASSUME NEW w \in Watcher, SelectCreated(w)
      PROVE  WatchTypes' /\ \A other \in Watcher : WatchSound(other)'
  <2> DEFINE old == watch[w]
             n   == HeadRevision(old.tenant)
             W   == WrittenAfter(old.tenant, old.after)
             rec == [pc |-> "deleted", tenant |-> old.tenant, after |-> old.after,
                     start |-> old.start, writes |-> W]
  <2>1. /\ old \in Watching /\ old \notin Idling
        /\ old.tenant \in Tenant /\ old.after \in Nat /\ old.start \in Nat
    BY <1>4, WatchKinds DEF SelectCreated, WatchInv, WatchTypes, Watching, Idling
  <2>2. n \in Nat /\ W \in SUBSET (Nat \X Tuple) /\ UpTo(W, n) = W
    BY <2>1, HeadOfNumbered, ChangesUpToHead DEF WatchInv, TablesInv
  <2>3. old.start <= n
    BY <2>1 DEF WatchInv, WatchSound, Covers
  <2> HIDE DEF W
  <2>4. /\ rec \in HalfWatched /\ rec \notin Watching /\ rec \notin Watched
        /\ rec.tenant = old.tenant /\ rec.after = old.after /\ rec.start = old.start
        /\ rec.writes = W
    BY <2>1, <2>2 DEF HalfWatched, Watching, Watched
  <2>5. n \in rec.start..n /\ rec.writes = UpTo(W, n)
    BY <2>1, <2>2, <2>3, <2>4
  <2>6. watch' = [watch EXCEPT ![w] = rec]
    BY <1>4 DEF SelectCreated, W
  <2> HIDE DEF rec
  <2>7. Covers(rec, W, DeletedAfter(rec.tenant, rec.after), n)
    BY <2>4, <2>5 DEF Covers
  <2> QED
    BY <1>1, <2>4, <2>6, <2>7, OneWatchSteps DEF W
<1>5. ASSUME NEW w \in Watcher, SelectDeleted(w)
      PROVE  WatchTypes' /\ \A other \in Watcher : WatchSound(other)'
  <2> DEFINE old == watch[w]
             n   == HeadRevision(old.tenant)
             W   == WrittenAfter(old.tenant, old.after)
             D   == DeletedAfter(old.tenant, old.after)
             rec == [pc |-> "done", tenant |-> old.tenant, after |-> old.after,
                     start |-> old.start, writes |-> old.writes, deletes |-> D]
  <2>1. /\ old \in HalfWatched /\ old \notin Idling
        /\ old.tenant \in Tenant /\ old.after \in Nat /\ old.start \in Nat
        /\ old.writes \in SUBSET (Nat \X Tuple)
    BY <1>5, WatchKinds DEF SelectDeleted, WatchInv, WatchTypes, HalfWatched, Idling
  <2>2. n \in Nat /\ D \in SUBSET (Nat \X Tuple) /\ UpTo(D, n) = D
    BY <2>1, HeadOfNumbered, ChangesUpToHead DEF WatchInv, TablesInv
  <2>3. PICK u \in old.start..n : old.writes = UpTo(W, u)
    BY <2>1 DEF WatchInv, WatchSound, Covers
  <2> HIDE DEF D, W
  <2>4. /\ rec \in Watched /\ rec \notin Watching /\ rec \notin HalfWatched
        /\ rec.tenant = old.tenant /\ rec.after = old.after /\ rec.start = old.start
        /\ rec.writes = old.writes /\ rec.deletes = D
    BY <2>1, <2>2 DEF HalfWatched, Watching, Watched
  <2>5. n \in rec.start..n /\ u \in rec.start..n
    BY <2>1, <2>2, <2>3, <2>4
  <2>6. watch' = [watch EXCEPT ![w] = rec]
    BY <1>5 DEF SelectDeleted, D
  <2> HIDE DEF rec
  <2>7. Covers(rec, W, D, n)
    BY <2>2, <2>3, <2>4, <2>5 DEF Covers
  <2> QED
    BY <1>1, <2>4, <2>6, <2>7, OneWatchSteps DEF W, D
<1>6. ASSUME NEW rd \in Reader,
             \/ \E tn, of \in Tenant, policy \in Policy :
                  \E asked \in 0..HeadRevision(of) + 1 : StartCall(rd, tn, policy, of, asked)
             \/ Resolve(rd) \/ StartRead(rd) \/ Select(rd) \/ RefuseCall(rd)
      PROVE  watch' = watch
  BY <1>6 DEF StartCall, Resolve, StartRead, Select, RefuseCall
<1> QED
  BY <1>2, <1>3, <1>4, <1>5, <1>6 DEF ReadStep

LEMMA WatchesInit == ReadInit => WatchInv
<1>1. ReadInit => WatchTypes /\ \A w \in Watcher : WatchSound(w)
  BY DEF ReadInit, WatchTypes, WatchSound, Idling
<1> QED
  BY <1>1, TablesInit DEF WatchInv

LEMMA WatchesKept ==
  ASSUME WatchInv, ReadStep \/ (TablesStep /\ UNCHANGED watch)
  PROVE  WatchInv'
<1>1. TablesInv'
  BY TablesKept DEF WatchInv, ReadStep, TablesStep
<1> QED
  BY <1>1, WatchStepSound, WatchesStand DEF WatchInv

\* A watch that is done covers what it should.
LEMMA SoundWatchesCover == WatchInv => WatchCovers
<1>1. ASSUME WatchInv, NEW w \in Watcher, WatchDone(w)
      PROVE  LET rec == watch[w] IN
             \E v \in rec.start..HeadRevision(rec.tenant) : \E u \in rec.start..v :
               /\ rec.writes = UpTo(WrittenAfter(rec.tenant, rec.after), u)
               /\ rec.deletes = UpTo(DeletedAfter(rec.tenant, rec.after), v)
  <2>1. watch[w] \in Watched /\ watch[w] \notin Idling
    BY <1>1, WatchKinds DEF WatchDone, WatchInv, WatchTypes, Watched, Idling
  <2> QED
    BY <1>1, <2>1 DEF WatchInv, WatchSound, Covers
<1> QED
  BY <1>1 DEF WatchCovers, UpTo

==============================================================================
