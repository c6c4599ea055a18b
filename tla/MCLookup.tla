------------------------------- MODULE MCLookup -------------------------------
EXTENDS AuthorizationEngine, SchemaDsl

user == <<"user">>
anyone == <<"user", Wildcard>>
member == <<"group", "member">>
inherited == <<"parent", "view">>

Users == [x \in {} |-> 0]

\* Groups of users and groups; only tuples make members.
Plain == [member |-> Relation({user, anyone, member})]

\* Members are also those of the groups below, but for who is blocked.
Nested ==
  [child |-> Relation({<<"group">>}),
   blocked |-> Relation({user}),
   member |-> RelationWithRewrite({user, anyone, member},
                Except(AnyOf({This, TupleToUserset("child", "member")}),
                       Computed("blocked")))]

\* Members must also be blocked, or own the group.
Strict ==
  [child |-> Relation({<<"group">>}),
   blocked |-> Relation({user}),
   member |-> RelationWithRewrite({user, anyone, member},
                AllOf({This, AnyOf(NamesToChildren({<<"blocked">>, <<"child", "blocked">>}))}))]

\* Inherited through parents.
Docs ==
  [parent |-> Relation({<<"doc">>}),
   viewer |-> Relation({anyone, member}),
   view |-> UnionPermission({<<"viewer">>, inherited})]

\* Not what the parent lets view.
Opposed == [Docs EXCEPT !.view = ExclusionPermission(<<"viewer">>, inherited)]

UpdatesDef ==
  {[user |-> Users, group |-> Plain, doc |-> Docs],
   [user |-> Users, group |-> Nested, doc |-> Opposed],
   [user |-> Users, group |-> Strict, doc |-> Docs]}

NamespaceDefs == UNION {{defs[ns] : ns \in DOMAIN defs} : defs \in UpdatesDef}

\* Rewrites nest two levels deep.
WithParts(rules) == rules \cup UNION {Parts(rule) : rule \in rules}
RuleDef ==
  WithParts(WithParts(UNION {{def[name].rewrite : name \in DOMAIN def} : def \in NamespaceDefs}))

Tuple(type, id, rel, stype, sid, srel) ==
  [object_type |-> type, object_id |-> id, relation |-> rel,
   subject_type |-> stype, subject_id |-> sid, subject_relation |-> srel]

PoolDef ==
  {Tuple("doc", "d", "viewer", "group", "g", "member"),
   Tuple("doc", "e", "viewer", "user", Wildcard, Direct),
   Tuple("doc", "d", "parent", "doc", "e", Direct),
   Tuple("doc", "e", "parent", "doc", "d", Direct),
   Tuple("group", "h", "member", "user", "v", Direct),
   Tuple("group", "g", "member", "group", "h", "member"),
   Tuple("group", "g", "member", "user", Wildcard, Direct),
   Tuple("group", "g", "child", "group", "h", Direct),
   Tuple("group", "g", "blocked", "user", "v", Direct)}

SubjectsDef == {[type |-> "user", id |-> i] : i \in {"u", "v"}}
ObjectsDef ==
  {[type |-> "doc", id |-> i] : i \in {"d", "e"}}
  \cup {[type |-> "group", id |-> i] : i \in {"g", "h"}}

NamespaceDef == {"user", "group", "doc"}
NameDef == UNION {DOMAIN def : def \in NamespaceDefs}
IdDef == {"u", "v", "d", "e", "g", "h", Wildcard}

==============================================================================
