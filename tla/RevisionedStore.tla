--------------------------- MODULE RevisionedStore ---------------------------
(***************************************************************************)
(* What a RelationRepository promises, whatever its backend: per tenant, a *)
(* dense sequence of revisions, each with an immutable snapshot of the     *)
(* active relation tuples, and the changes that lead from one snapshot to  *)
(* the next (what watch replays).  Tenants share nothing.                  *)
(*                                                                         *)
(* The in-memory and the SQL repositories are shown to implement this      *)
(* specification.                                                          *)
(***************************************************************************)
EXTENDS Integers

CONSTANTS Tenant, Tuple

VARIABLES
  head,      \* head[tn]: greatest committed revision of tn, 0 when none
  snapshot,  \* snapshot[tn][r]: tuples active at revision r, r in 0..head[tn]
  changes    \* changes[tn][r]: tuples written and deleted by revision r

vars == <<head, snapshot, changes>>

Change == [written : SUBSET Tuple, deleted : SUBSET Tuple]

TypeOK ==
  /\ head \in [Tenant -> Nat]
  /\ \A tn \in Tenant :
       /\ snapshot[tn] \in [0..head[tn] -> SUBSET Tuple]
       /\ changes[tn] \in [1..head[tn] -> Change]

Init ==
  /\ head = [tn \in Tenant |-> 0]
  /\ snapshot = [tn \in Tenant |-> [r \in {0} |-> {}]]
  /\ changes = [tn \in Tenant |-> [r \in {} |-> {}]]

Latest(tn) == snapshot[tn][head[tn]]

\* One write batch becomes one new revision.  W and D are the mutations that
\* took effect: touching an active tuple or deleting an absent one changes
\* nothing, and is not a change of the revision.
Commit(tn, W, D) ==
  LET r == head[tn] + 1 IN
  /\ W \cap Latest(tn) = {}
  /\ D \subseteq Latest(tn)
  /\ head' = [head EXCEPT ![tn] = r]
  /\ snapshot' = [snapshot EXCEPT ![tn] =
       [q \in 0..r |-> IF q = r THEN (Latest(tn) \cup W) \ D ELSE @[q]]]
  /\ changes' = [changes EXCEPT ![tn] =
       [q \in 1..r |->
          IF q = r THEN [written |-> W, deleted |-> D] ELSE @[q]]]

Next == \E tn \in Tenant, W, D \in SUBSET Tuple : Commit(tn, W, D)

Spec == Init /\ [][Next]_vars

\* Replaying the changes of one revision on the snapshot before it gives the
\* snapshot of that revision: a consumer of watch that starts from any
\* snapshot reaches the head's.
WatchReplays ==
  \A tn \in Tenant : \A r \in 1..head[tn] :
    snapshot[tn][r] =
      (snapshot[tn][r-1] \cup changes[tn][r].written) \ changes[tn][r].deleted

==============================================================================
