---------------------------- MODULE CompiledModel ----------------------------
(***************************************************************************)
(* Schemas: what a namespace defines, what a registry accepts, and the     *)
(* CompiledAuthorizationModel the engines resolve relations in.            *)
(*                                                                         *)
(* A schema maps namespaces to definitions, and a definition maps names to *)
(* [rewrite, subjects].  A permission is a name without allowed subjects;  *)
(* a relation has at least one.  The children of a union or intersection   *)
(* are a set: no rule reads their order.                                   *)
(***************************************************************************)
EXTENDS SubjectValues, Integers, FiniteSets

CONSTANTS
  Namespace,  \* object types
  Name,       \* names of relations and permissions
  Rule        \* the rewrite rules that definitions are made of

\* Names are strings; no relation at all is none.
ASSUME NameAssumption == Direct \notin Name

------------------------------------------------------------------------------
\* Rewrite rules.  DirectRule and ThisRule are evaluated alike by every engine.

This == [kind |-> "this"]
Computed(name) == [kind |-> "computed", relation |-> name]
TupleToUserset(edge, name) == [kind |-> "arrow", tuple_relation |-> edge,
                               computed_relation |-> name]
AnyOf(rules) == [kind |-> "union", children |-> rules]
AllOf(rules) == [kind |-> "intersection", children |-> rules]
Except(base, subtract) == [kind |-> "exclusion", base |-> base, subtract |-> subtract]

\* The rules a rule is made of.
Parts(rule) ==
  CASE rule.kind \in {"union", "intersection"} -> rule.children
    [] rule.kind = "exclusion" -> {rule.base, rule.subtract}
    [] OTHER -> {}

IsRule(rule) ==
  \/ rule = This
  \/ \E name \in Name : rule = Computed(name)
  \/ \E edge, name \in Name : rule = TupleToUserset(edge, name)
  \/ \E rules \in SUBSET Rule : IsFiniteSet(rules) /\ rule \in {AnyOf(rules), AllOf(rules)}
  \/ \E base, subtract \in Rule : rule = Except(base, subtract)

\* A rule is built after its parts, so none is nested in itself.
ASSUME RuleAssumption ==
  /\ \A rule \in Rule : IsRule(rule)
  /\ \A rules \in SUBSET Rule :
       rules # {} => \E rule \in rules : Parts(rule) \cap rules = {}

\* Sets of rules with the parts of each.
WholeRules == {rules \in SUBSET Rule : \A rule \in rules : Parts(rule) \subseteq rules}

NestedRules ==
  [rule \in Rule |->
     {r \in Rule : \A rules \in WholeRules : rule \in rules => r \in rules}]

\* _iter_rewrite_rules: the rule and all that is nested in it.
RulesOf(rule) == NestedRules[rule]

\* Subject references: `user`, `group#member` and `user:*`.
DirectRef(ns) == [type |-> ns, relation |-> Direct, wildcard |-> FALSE]
UsersetRef(ns, name) == [type |-> ns, relation |-> name, wildcard |-> FALSE]
WildcardRef(ns) == [type |-> ns, relation |-> Direct, wildcard |-> TRUE]

SubjectReference ==
  {ref \in [type : Namespace, relation : Name \cup {Direct}, wildcard : BOOLEAN] :
     ref.wildcard => ref.relation = Direct}

Definition == [rewrite : Rule, subjects : SUBSET SubjectReference]

IsSchema(schema) ==
  /\ DOMAIN schema \subseteq Namespace /\ IsFiniteSet(DOMAIN schema)
  /\ schema \in [DOMAIN schema -> {schema[ns] : ns \in DOMAIN schema}]
  /\ \A ns \in DOMAIN schema : /\ DOMAIN schema[ns] \subseteq Name /\ IsFiniteSet(DOMAIN schema[ns])
                              /\ schema[ns] \in [DOMAIN schema[ns] -> Definition]

\* SubjectReference.allows and CompiledSubjectReference.allows
RefAllows(ref, t) ==
  /\ ref.type = t.subject_type
  /\ t.subject_relation = ref.relation
  /\ ref.wildcard <=> t.subject_id = Wildcard

------------------------------------------------------------------------------
\* The validation of a namespace and of a registry

IsRelation(def, name) == name \in DOMAIN def /\ def[name].subjects # {}

\* _validate_rewrite
ValidRewrite(def, name) ==
  \A rule \in RulesOf(def[name].rewrite) :
    /\ rule.kind \in {"union", "intersection"} => rule.children # {}
    /\ rule.kind = "this" => IsRelation(def, name)
    /\ rule.kind = "computed" => rule.relation \in DOMAIN def
    /\ rule.kind = "arrow" => IsRelation(def, rule.tuple_relation)

\* Object namespaces that a relation's direct subjects may have.
TargetTypes(def, name) ==
  {ref.type : ref \in {s \in def[name].subjects : s.relation = Direct /\ ~s.wildcard}}

\* _validate_allowed_subject_sets: group#member names a relation, and not a
\* permission, of a registered namespace.
ValidSubjectSets(schema, ns, name) ==
  \A ref \in schema[ns][name].subjects : ref.relation # Direct =>
    ref.type \in DOMAIN schema /\ IsRelation(schema[ref.type], ref.relation)

\* _validate_tuple_to_userset_targets
ValidArrows(schema, ns, name) ==
  \A rule \in RulesOf(schema[ns][name].rewrite) : rule.kind = "arrow" =>
    LET targets == TargetTypes(schema[ns], rule.tuple_relation) IN
    /\ targets # {}
    /\ \A target \in targets :
         target \in DOMAIN schema /\ rule.computed_relation \in DOMAIN schema[target]

\* _validate_registry
ValidSchema(schema) ==
  \A ns \in DOMAIN schema : \A name \in DOMAIN schema[ns] :
    /\ ValidRewrite(schema[ns], name)
    /\ ValidSubjectSets(schema, ns, name)
    /\ ValidArrows(schema, ns, name)

------------------------------------------------------------------------------
\* What engines ask of a compiled model

Defines(model, ns, name) == ns \in DOMAIN model /\ name \in DOMAIN model[ns]

\* allows_stored_subject
AllowsStored(model, t) ==
  /\ Defines(model, t.object_type, t.relation)
  /\ \E ref \in model[t.object_type][t.relation].subjects : RefAllows(ref, t)

\* allows_tuple_to_userset_stored_subject
AllowsArrow(model, t) ==
  /\ t.subject_relation = Direct
  /\ t.subject_id # Wildcard
  /\ t.subject_type \in TargetTypes(model[t.object_type], t.relation)

==============================================================================
