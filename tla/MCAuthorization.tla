--------------------------- MODULE MCAuthorization ---------------------------
EXTENDS AuthorizationEngine, SchemaDsl

user == <<"user">>
anyone == <<"user", Wildcard>>
member == <<"group", "member">>
inherited == <<"parent", "view">>

Users == [x \in {} |-> 0]

Groups == [member |-> Relation({user, member})]

\* Inherited through parents, with an exclusion.
Banning ==
  [parent |-> Relation({<<"doc">>}),
   viewer |-> RelationWithRewrite({user, anyone, member}, AnyOf({This, Computed("banned")})),
   banned |-> Relation({user, member}),
   view |-> PermissionWithRewrite(
              Except(AnyOf({Computed("viewer"), TupleToUserset("parent", "view")}),
                     Computed("banned")))]

\* An exclusion that depends on itself where parents form a circle.
Alternating ==
  [parent |-> Relation({<<"doc">>}),
   viewer |-> Relation({user}),
   view |-> ExclusionPermission(<<"viewer">>, inherited)]

\* No exclusion; a viewer inherits what both the parent and a reviewer grant.
Sharing ==
  [parent |-> Relation({<<"doc">>}),
   viewer |-> Relation({user, anyone, member}),
   banned |-> Relation({user, member}),
   view |-> PermissionWithRewrite(
              AnyOf({Computed("viewer"),
                     AllOf({Computed("banned"), TupleToUserset("parent", "view")})}))]

\* Groups are objects of the parent relation and have no view: refused.
Dangling == [Sharing EXCEPT !.parent = Relation({<<"doc">>, <<"group">>})]

UpdatesDef ==
  {[user |-> Users, group |-> Groups, doc |-> Banning]}
  \cup {[doc |-> d] : d \in {Alternating, Sharing, Dangling}}

NamespaceDefs == UNION {{defs[ns] : ns \in DOMAIN defs} : defs \in UpdatesDef}

\* Rewrites nest two levels deep.
WithParts(rules) == rules \cup UNION {Parts(rule) : rule \in rules}
RuleDef ==
  WithParts(WithParts(UNION {{def[name].rewrite : name \in DOMAIN def} : def \in NamespaceDefs}))

Tuple(type, id, rel, stype, sid, srel) ==
  [object_type |-> type, object_id |-> id, relation |-> rel,
   subject_type |-> stype, subject_id |-> sid, subject_relation |-> srel]

PoolDef ==
  {Tuple("doc", "d", "viewer", "user", "v", Direct),
   Tuple("doc", "d", "viewer", "group", "g", "member"),
   Tuple("doc", "e", "viewer", "user", Wildcard, Direct),
   Tuple("doc", "d", "parent", "doc", "e", Direct),
   Tuple("doc", "e", "parent", "doc", "d", Direct),
   Tuple("doc", "d", "banned", "group", "g", "member"),
   Tuple("group", "h", "member", "user", "v", Direct),
   Tuple("group", "g", "member", "group", "h", "member"),
   Tuple("group", "h", "member", "group", "g", "member"),
   Tuple("doc", "d", "parent", "group", "g", Direct)}

SubjectsDef == {[type |-> "user", id |-> i] : i \in {"u", "v"}}
ObjectsDef ==
  {[type |-> "doc", id |-> i] : i \in {"d", "e"}}
  \cup {[type |-> "group", id |-> i] : i \in {"g", "h"}}

NamespaceDef == {"user", "group", "doc"}
NameDef == UNION {DOMAIN def : def \in NamespaceDefs}
IdDef == {"u", "v", "d", "e", "g", "h", Wildcard}

==============================================================================
