---------------------------- MODULE SubjectValues -----------------------------
(***************************************************************************)
(* Subjects of relation tuples, as engines handle them: a concrete subject *)
(* like user:u, all subjects of a namespace, or the subjects that have a   *)
(* relation to an object, like group:g#member.                             *)
(***************************************************************************)
EXTENDS TupleFilters

CONSTANT Wildcard  \* the entity id of all subjects of a namespace

Node(ns, id, name) == [type |-> ns, id |-> id, relation |-> name]

\* _wildcard_namespace and _concrete_subject_namespace are not None.
IsWildcard(node) == node.relation = Direct /\ node.id = Wildcard
IsConcrete(node) == node.relation = Direct /\ node.id # Wildcard

SubjectOf(t) == Node(t.subject_type, t.subject_id, t.subject_relation)

==============================================================================
