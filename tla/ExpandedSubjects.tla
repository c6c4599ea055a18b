--------------------------- MODULE ExpandedSubjects ---------------------------
(***************************************************************************)
(* SubjectSet, what expand returns, and _ExpandedSubjects, the values its  *)
(* set algebra is defined on.                                              *)
(*                                                                         *)
(* A subject set is [subjects, exceptions]: subjects are its users and its *)
(* usersets together, which differ in their namespace only, and exceptions *)
(* its wildcard_exclusions by namespace.  An expanded value is             *)
(* [finite, wildcards]: wildcards maps a namespace all of whose subjects   *)
(* are meant to the concrete ones that are not.                            *)
(***************************************************************************)
EXTENDS SubjectValues

NoSubjects == [subjects |-> {}, exceptions |-> [ns \in {} |-> {}]]

InNamespace(nodes, ns) == {n \in nodes : IsConcrete(n) /\ n.type = ns}

\* _wildcard_includes
WildcardIncludes(wildcards, node) ==
  /\ IsConcrete(node)
  /\ node.type \in DOMAIN wildcards
  /\ node \notin wildcards[node.type]

\* contains_concrete
Contains(expanded, node) ==
  node \in expanded.finite \/ WildcardIncludes(expanded.wildcards, node)

\* _normalized
Normalized(finite, wildcards) ==
  LET except == [ns \in DOMAIN wildcards |->
                   InNamespace(wildcards[ns], ns) \ InNamespace(finite, ns)]
  IN [finite |-> {n \in finite : ~WildcardIncludes(except, n)},
      wildcards |-> except]

\* The exclusions of a namespace, none where it is not meant as a whole.
Exclusions(wildcards, ns) == IF ns \in DOMAIN wildcards THEN wildcards[ns] ELSE {}

\* from_subject_set, from_rendered_subjects
Expanded(set) ==
  Normalized({n \in set.subjects : ~IsWildcard(n)},
             [ns \in {n.type : n \in {x \in set.subjects : IsWildcard(x)}}
                       \cup DOMAIN set.exceptions |->
                Exclusions(set.exceptions, ns)])

\* to_subject_set
Rendered(expanded) ==
  LET whole == {ns \in DOMAIN expanded.wildcards : expanded.wildcards[ns] = {}}
  IN [subjects |-> expanded.finite \cup {Node(ns, Wildcard, Direct) : ns \in whole},
      exceptions |-> [ns \in DOMAIN expanded.wildcards \ whole |->
                        expanded.wildcards[ns]]]

\* union: excluded is what neither side has.
Either(a, b) ==
  Normalized(a.finite \cup b.finite,
             [ns \in DOMAIN a.wildcards \cup DOMAIN b.wildcards |->
                IF ns \notin DOMAIN b.wildcards
                THEN a.wildcards[ns] \ InNamespace(b.finite, ns)
                ELSE IF ns \notin DOMAIN a.wildcards
                THEN b.wildcards[ns] \ InNamespace(a.finite, ns)
                ELSE a.wildcards[ns] \cap b.wildcards[ns]])

\* intersection
Both(a, b) ==
  Normalized({n \in a.finite : Contains(b, n)} \cup {n \in b.finite : Contains(a, n)},
             [ns \in DOMAIN a.wildcards \cap DOMAIN b.wildcards |->
                a.wildcards[ns] \cup b.wildcards[ns]])

\* Mutant: a wildcard taken from a wildcard leaves nobody.
WithoutAny(a, b) ==
  Normalized({n \in a.finite : ~Contains(b, n)},
             [ns \in DOMAIN a.wildcards \ DOMAIN b.wildcards |->
                a.wildcards[ns] \cup InNamespace(b.finite, ns)])

\* difference: of a wildcard, a wildcard leaves the other's exceptions.
Without(a, b) ==
  LET shared == DOMAIN a.wildcards \cap DOMAIN b.wildcards
      left == UNION {InNamespace(b.wildcards[ns] \ a.wildcards[ns], ns) : ns \in shared}
  IN Normalized({n \in a.finite : ~Contains(b, n)} \cup left,
                [ns \in DOMAIN a.wildcards \ shared |->
                   a.wildcards[ns] \cup InNamespace(b.finite, ns)])

==============================================================================
