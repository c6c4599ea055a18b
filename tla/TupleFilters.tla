---------------------------- MODULE TupleFilters -----------------------------
(***************************************************************************)
(* TupleFilter (models/filter.py): optional criteria on the six parts of a *)
(* relation tuple, and the cache buckets a filter can be answered from.    *)
(* A tuple and a filter are records with the same fields; None in a filter *)
(* is Python's None.  The subject relation of a direct subject is Direct.  *)
(***************************************************************************)
CONSTANTS None, Direct

Fields == {"object_type", "object_id", "relation",
           "subject_type", "subject_id", "subject_relation"}

MatchesOn(filter, tuple, fields) ==
  \A f \in fields : filter[f] = None \/ filter[f] = tuple[f]

\* matches: subject_relation = "" asks for a direct subject.
Matches(filter, tuple) == MatchesOn(filter, tuple, Fields)

Matching(filter, tuples) == {t \in tuples : Matches(filter, t)}

\* is_object_bucket, is_subject_bucket
IsObjectBucket(filter) ==
  /\ filter.object_type # None /\ filter.object_id # None
  /\ filter.subject_type = None /\ filter.subject_id = None
  /\ filter.subject_relation = None

IsSubjectBucket(filter) == filter.subject_type # None /\ filter.subject_id # None

Unconstrained == [f \in Fields |-> None]

\* by_object: from_object(filter.object_ref)
ObjectBucketFilter(filter) ==
  [Unconstrained EXCEPT !.object_type = filter.object_type,
                        !.object_id = filter.object_id]

\* Mutant: the bucket of a direct subject holds direct subjects only.
SubjectBucketFilterExact(filter) ==
  [Unconstrained EXCEPT !.subject_type = filter.subject_type,
                        !.subject_id = filter.subject_id,
                        !.subject_relation = filter.subject_relation]

\* subject_bucket_filter: direct-only subjects share the bucket of all.
SubjectBucketFilter(filter) ==
  [Unconstrained EXCEPT !.subject_type = filter.subject_type,
                        !.subject_id = filter.subject_id,
                        !.subject_relation =
                          IF filter.subject_relation = Direct THEN None
                          ELSE filter.subject_relation]

\* subject_ref: the relation of the bucket's key, None for direct and for any.
SubjectRefRelation(filter) ==
  IF filter.subject_relation \in {None, Direct} THEN None ELSE filter.subject_relation

==============================================================================
