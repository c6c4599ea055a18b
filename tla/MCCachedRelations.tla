-------------------------- MODULE MCCachedRelations --------------------------
EXTENDS CachedRelations, TLC

CONSTANTS t1, t2, r1, r2

MCTuple(oid, rel, srel) ==
  [object_type |-> "doc", object_id |-> oid, relation |-> rel,
   subject_type |-> "user", subject_id |-> "u", subject_relation |-> srel]

\* Two relations of one object, one of them to a userset, and another object.
viewer == MCTuple("1", "viewer", Direct)
editor == MCTuple("1", "editor", "member")
other  == MCTuple("2", "viewer", "member")

MCTuples == {viewer, editor, other}
MCContents == {{viewer, editor}, {editor, other}}

\* An object bucket narrowed to a relation; the subject with any relation and
\* as a direct subject, which share a bucket; and the whole object, in reverse,
\* which no bucket answers.
MCRequests ==
  { [op |-> "read", filter |->
       [Unconstrained EXCEPT !.object_type = "doc", !.object_id = "1",
                             !.relation = "viewer"]],
    [op |-> "read_reverse", filter |->
       [Unconstrained EXCEPT !.subject_type = "user", !.subject_id = "u"]],
    [op |-> "read", filter |->
       [Unconstrained EXCEPT !.subject_type = "user", !.subject_id = "u",
                             !.subject_relation = Direct]],
    [op |-> "read_reverse", filter |->
       [Unconstrained EXCEPT !.object_type = "doc", !.object_id = "1"]] }

\* Neither the threads nor the tenants are told apart by anything.
Interchangeable ==
  {f @@ g : f \in Permutations(Reader), g \in Permutations(Tenant)}
==============================================================================
