------------------------------ MODULE SchemaDsl ------------------------------
(***************************************************************************)
(* NamespaceBuilder and its shorthand (dsl/builder.py), as the definitions *)
(* it builds.  A string is the sequence of its parts: <<"viewer">> and     *)
(* <<"parent", "view">> for the operands `viewer` and `parent->view`,      *)
(* <<"user">>, <<"group", "member">> and <<"user", Wildcard>> for the      *)
(* subjects `user`, `group#member` and `user:*`.                           *)
(***************************************************************************)
EXTENDS CompiledModel, Sequences

\* DslCodec.parse_subject and to_subjects
ParseSubject(parts) ==
  IF Len(parts) = 1 THEN DirectRef(parts[1])
  ELSE IF parts[2] = Wildcard THEN WildcardRef(parts[1])
  ELSE UsersetRef(parts[1], parts[2])

ToSubjects(subjects) == {ParseSubject(s) : s \in subjects}

\* DslCodec.name_to_rule and names_to_children
NameToRule(parts) ==
  IF Len(parts) = 2 THEN TupleToUserset(parts[1], parts[2]) ELSE Computed(parts[1])

NamesToChildren(operands) == {NameToRule(o) : o \in operands}

\* relation with a rewrite: the rewrite is all there is, This included or not.
RelationWithRewrite(subjects, rewrite) ==
  [rewrite |-> rewrite, subjects |-> ToSubjects(subjects)]

\* relation without one is direct.
Relation(subjects) == RelationWithRewrite(subjects, This)

\* permission_with_rewrite
PermissionWithRewrite(rewrite) == [rewrite |-> rewrite, subjects |-> {}]

\* permission(union=...) and permission(exclusion=...)
UnionPermission(operands) == PermissionWithRewrite(AnyOf(NamesToChildren(operands)))

ExclusionPermission(base, subtract) ==
  PermissionWithRewrite(Except(NameToRule(base), NameToRule(subtract)))

==============================================================================
