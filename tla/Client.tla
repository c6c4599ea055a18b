-------------------------------- MODULE Client -------------------------------
(***************************************************************************)
(* A client, its schema registry and the engine compiled from it.  The     *)
(* client validates tuples against the registry as it is; the engine keeps *)
(* the model it was built with.  Tuples written under an earlier schema    *)
(* stay stored.                                                            *)
(***************************************************************************)
EXTENDS CheckEngine

CONSTANTS
  Updates,      \* the namespace definitions given to one register_many
  Pool,         \* the tuples clients write
  Subjects,     \* the subjects checked, [type, id]
  Objects,      \* the objects checked, [type, id]
  MaxDepth,     \* the engine's depth limit
  Shallower     \* depth limits a check is compared at

ASSUME DepthAssumption == MaxDepth \in Nat /\ Shallower \subseteq 0..MaxDepth

ASSUME InputAssumption ==
  /\ \A defs \in Updates : IsSchema(defs)
  /\ Pool \subseteq RelationTuple
  /\ Subjects \cup Objects \subseteq [type : Namespace, id : Id]

VARIABLE registry  \* the SchemaRegistry: its namespaces' definitions

vars == <<registry, model, tuples>>

EmptySchema == [ns \in {} |-> <<>>]

Init ==
  /\ registry = EmptySchema
  /\ model = EmptySchema
  /\ tuples = {}

------------------------------------------------------------------------------
\* SchemaRegistry

Replaced(schema, defs) ==
  [ns \in DOMAIN schema \cup DOMAIN defs |->
     IF ns \in DOMAIN defs THEN defs[ns] ELSE schema[ns]]

\* Mutant: only the new definitions are validated, each by itself.
RegisterPiecewise(defs) ==
  /\ \A ns \in DOMAIN defs : \A name \in DOMAIN defs[ns] : ValidRewrite(defs[ns], name)
  /\ registry' = Replaced(registry, defs)
  /\ UNCHANGED <<model, tuples>>

\* register and register_many: the candidate is validated as a whole.
Register(defs) ==
  /\ ValidSchema(Replaced(registry, defs))
  /\ registry' = Replaced(registry, defs)
  /\ UNCHANGED <<model, tuples>>

\* update_namespace and update_many: of registered namespaces only.
Update(defs) ==
  /\ DOMAIN defs \subseteq DOMAIN registry
  /\ Register(defs)

------------------------------------------------------------------------------
\* CompiledAuthorizationModel.from_schema and its cache of compiled rules

RuleKeys(schema) == UNION {{<<ns, name>> : name \in DOMAIN schema[ns]} : ns \in DOMAIN schema}

\* What the cache may hold, keyed by namespace and name alone: rules that an
\* engine of this or of another process compiled from any schema left there,
\* less those that were evicted, invalidated or cannot be decoded.
RuleCaches ==
  UNION {{[key \in kept |-> defs[key[1]][key[2]].rewrite] : kept \in SUBSET RuleKeys(defs)} :
           defs \in Updates}

\* Mutant: a cached rule is taken for the rule of the registry.
CachedRewriteUnverified(key, rewrite, held) ==
  IF key \in DOMAIN held THEN held[key] ELSE rewrite

\* _cached_rewrite
CachedRewrite(key, rewrite, held) ==
  IF key \in DOMAIN held /\ held[key] = rewrite THEN held[key] ELSE rewrite

\* A new engine.  What it finds in the cache, and what it puts there for the
\* next one, is open: the cache outlives engines and is shared between them.
NewEngine ==
  /\ \E held \in RuleCaches :
       model' = [ns \in DOMAIN registry |->
         [name \in DOMAIN registry[ns] |->
            [registry[ns][name] EXCEPT !.rewrite = CachedRewrite(<<ns, name>>, @, held)]]]
  /\ UNCHANGED <<registry, tuples>>

------------------------------------------------------------------------------
\* ZanzibarClient

\* write: _validate_tuple_against_schema asks the registry.
Write(t) ==
  /\ AllowsStored(registry, t)
  /\ tuples' = tuples \cup {t}
  /\ UNCHANGED <<registry, model>>

\* delete: _validate_relation_against_schema refuses permissions.
Delete(t) ==
  /\ Defines(registry, t.object_type, t.relation)
  /\ IsRelation(registry[t.object_type], t.relation)
  /\ tuples' = tuples \ {t}
  /\ UNCHANGED <<registry, model>>

Next ==
  \/ \E defs \in Updates : Register(defs) \/ Update(defs)
  \/ NewEngine
  \/ \E t \in Pool : Write(t) \/ Delete(t)

Spec == Init /\ [][Next]_vars

------------------------------------------------------------------------------
\* What a schema means

DefinedOn(objects) ==
  UNION {{KeyOf(o.type, o.id, name) : name \in DOMAIN model[o.type]} :
           o \in {x \in objects : x.type \in DOMAIN model}}

DefinedKeys == DefinedOn(Objects)

\* A node is a rule at a key; the node of a key is its rewrite there.
NodeAt(key) == <<model[key.object_type][key.relation].rewrite, key>>

\* All that checks and lookups come to.
Reached ==
  Objects \cup {[type |-> t.subject_type, id |-> t.subject_id] : t \in tuples}
          \cup {[type |-> t.object_type, id |-> t.object_id] : t \in tuples}

Nodes == UNION {RulesOf(NodeAt(key)[1]) \X {key} : key \in DefinedOn(Reached)}

\* The subject has a rule at key, when the nodes of `must` are known to hold
\* and those outside of `may` are known to fail.  With the two exchanged: it may
\* have it.  An exclusion is not settled by what it takes away alone, its base
\* has to be settled first: both readings ask for no more than the engine does.
Grants(rule, key, subject, must, may) ==
  CASE rule.kind = "this" ->
         \E t \in TuplesAt(key, key.relation) :
           /\ AllowsStored(model, t)
           /\ IF t.subject_relation = Direct THEN SubjectMatches(t, subject)
              ELSE NodeAt(KeyOf(t.subject_type, t.subject_id, t.subject_relation)) \in must
    [] rule.kind = "computed" -> NodeAt([key EXCEPT !.relation = rule.relation]) \in must
    [] rule.kind = "arrow" ->
         \E t \in TuplesAt(key, rule.tuple_relation) :
           /\ AllowsArrow(model, t)
           /\ NodeAt(KeyOf(t.subject_type, t.subject_id, rule.computed_relation)) \in must
    [] rule.kind = "union" -> \E c \in rule.children : <<c, key>> \in must
    [] rule.kind = "intersection" -> \A c \in rule.children : <<c, key>> \in must
    [] rule.kind = "exclusion" ->
         /\ <<rule.base, key>> \in must
         /\ <<rule.base, key>> \in may => <<rule.subtract, key>> \notin may

Granted(subject, must, may) == {n \in Nodes : Grants(n[1], n[2], subject, must, may)}

\* One step further in what holds and in what may hold.
Settle(subject, stage) ==
  [must |-> Granted(subject, stage.must, stage.may),
   may |-> Granted(subject, stage.may, stage.must)]

\* What is settled after so many steps, from nothing.
Stages(subject) ==
  LET stage[i \in Nat] ==
        IF i = 0 THEN [must |-> {}, may |-> Nodes] ELSE Settle(subject, stage[i - 1])
  IN stage

------------------------------------------------------------------------------
\* Properties

\* The registry is valid whatever was registered over what, and so is the
\* engine's model, whatever rules an older schema left in the cache.
TypeOK ==
  /\ ValidSchema(registry)
  /\ ValidSchema(model)
  /\ tuples \subseteq Pool

\* What the schema grants, or keeps from a subject, in no more steps than the
\* limit, a check allows or denies; and once nothing more is left to settle, it
\* allows and denies nothing else.  Cycle detection on the path alone neither
\* loses a grant nor invents one.
CheckExact ==
  \A subject \in Subjects :
    LET stage == Stages(subject)[MaxDepth] IN
    \A k \in DefinedKeys :
      LET answer == Check(k, subject, MaxDepth) IN
      /\ NodeAt(k) \in stage.must => answer = Allow
      /\ NodeAt(k) \notin stage.may => answer = Deny
      /\ Settle(subject, stage) = stage => /\ answer = Allow => NodeAt(k) \in stage.must
                                           /\ answer = Deny => NodeAt(k) \notin stage.may

\* A smaller depth limit forgets answers and never changes one, under any
\* nesting of exclusions: the limit fails closed.
DepthOnlyForgets ==
  \A subject \in Subjects, k \in DefinedKeys :
    LET answer == Check(k, subject, MaxDepth) IN
    \A limit \in Shallower : Check(k, subject, limit) \in {answer, Unknown}

\* Whatever an earlier schema left in the rule cache, an engine is built with the
\* rules of the registry as it stands, and keeps them until the next is built.
ModelIsOfRegistry == [][model' # model => model' = registry]_vars

\* Every relation a check can come to from a known one is in the model: no
\* answer is unknown, and no expansion fails, for want of a definition.
EdgesDefined ==
  \A t \in tuples :
    /\ AllowsStored(model, t) /\ t.subject_relation # Direct =>
         Defines(model, t.subject_type, t.subject_relation)
    /\ Defines(model, t.object_type, t.relation) /\ AllowsArrow(model, t) =>
         \A name \in DOMAIN model[t.object_type] :
           \A rule \in RulesOf(model[t.object_type][name].rewrite) :
             rule.kind = "arrow" /\ rule.tuple_relation = t.relation =>
               Defines(model, t.subject_type, rule.computed_relation)

WithoutExclusion ==
  \A ns \in DOMAIN model : \A name \in DOMAIN model[ns] :
    \A rule \in RulesOf(model[ns][name].rewrite) : rule.kind # "exclusion"

AllowedKeys(subject, limit) == {k \in DefinedKeys : Allowed(k, subject, limit)}

\* Without exclusions a write revokes nothing, at any depth limit: neither a
\* new cycle nor a longer path gets in the way of an older grant.
WritesNeverRevoke ==
  [][tuples # tuples' /\ tuples \subseteq tuples' /\ WithoutExclusion =>
       \A subject \in Subjects, limit \in Shallower \cup {MaxDepth} :
         AllowedKeys(subject, limit) \subseteq AllowedKeys(subject, limit)']_vars

==============================================================================
