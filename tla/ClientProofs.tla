----------------------------- MODULE ClientProofs -----------------------------
(***************************************************************************)
(* A client, its registry and the checks and expansions of its engine, for *)
(* any names, rules, definitions, tuples and depth limit.  A check is a    *)
(* recursive function of calls, so first: the calls a call makes come      *)
(* before it in a well-founded order (Deepest), hence the recursion has a  *)
(* solution, which is what the engine answers (Evaluated).  The recursion  *)
(* of an expansion is shown to end in the same way, and the set algebra of *)
(* _ExpandedSubjects to be that of the sets it stands for; then what an    *)
(* expansion names follows, by the schema and by the checks.               *)
(***************************************************************************)
EXTENDS ClientExpansions, FiniteSetTheorems, WellFoundedInduction, TLAPS

------------------------------------------------------------------------------
\* Rules

LEMMA RuleKinds ==
  ASSUME NEW rule \in Rule
  PROVE  /\ rule.kind \in {"this", "computed", "arrow", "union", "intersection", "exclusion"}
         /\ rule.kind = "computed" => rule.relation \in Name
         /\ rule.kind = "arrow" => rule.tuple_relation \in Name /\ rule.computed_relation \in Name
         /\ rule.kind \in {"union", "intersection"} => Parts(rule) = rule.children
         /\ rule.kind = "exclusion" => Parts(rule) = {rule.base, rule.subtract}
         /\ Parts(rule) \subseteq Rule
<1>1. IsRule(rule)
  BY RuleAssumption
<1>2. CASE rule = This
  BY <1>2 DEF This, Parts
<1>3. CASE \E name \in Name : rule = Computed(name)
  BY <1>3 DEF Computed, Parts
<1>4. CASE \E edge, name \in Name : rule = TupleToUserset(edge, name)
  BY <1>4 DEF TupleToUserset, Parts
<1>5. CASE \E rules \in SUBSET Rule : rule \in {AnyOf(rules), AllOf(rules)}
  BY <1>5 DEF AnyOf, AllOf, Parts
<1>6. CASE \E base, subtract \in Rule : rule = Except(base, subtract)
  BY <1>6 DEF Except, Parts
<1> QED
  BY <1>1, <1>2, <1>3, <1>4, <1>5, <1>6 DEF IsRule

\* What is nested in a rule: the rule, and the parts of all that is.
LEMMA NestedParts ==
  ASSUME NEW rule \in Rule
  PROVE  /\ rule \in RulesOf(rule) /\ RulesOf(rule) \subseteq Rule
         /\ \A r \in RulesOf(rule) : Parts(r) \subseteq RulesOf(rule)
<1>1. RulesOf(rule) = {r \in Rule : \A rules \in WholeRules : rule \in rules => r \in rules}
  BY DEF RulesOf, NestedRules
<1>2. ASSUME NEW r \in RulesOf(rule), NEW part \in Parts(r)
      PROVE  part \in RulesOf(rule)
  <2>1. part \in Rule
    BY <1>1, <1>2, RuleKinds
  <2>2. ASSUME NEW rules \in WholeRules, rule \in rules
        PROVE  part \in rules
    BY <1>1, <1>2, <2>2 DEF WholeRules
  <2> QED
    BY <1>1, <2>1, <2>2
<1> QED
  BY <1>1, <1>2

------------------------------------------------------------------------------
\* The registry and what is compiled from it

Typed == IsSchema(registry) /\ IsSchema(model) /\ tuples \subseteq Pool

LEMMA ReplacedIsSchema ==
  ASSUME NEW schema, IsSchema(schema), NEW defs \in Updates
  PROVE  IsSchema(Replaced(schema, defs))
<1>1. IsSchema(defs)
  BY InputAssumption
<1>2. PICK new : new = Replaced(schema, defs)
  OBVIOUS
<1>3. DOMAIN new = DOMAIN schema \cup DOMAIN defs
  BY <1>2 DEF Replaced
<1>4. \A ns \in DOMAIN new : new[ns] = IF ns \in DOMAIN defs THEN defs[ns] ELSE schema[ns]
  BY <1>2, <1>3 DEF Replaced
<1>5. new \in [DOMAIN new -> {new[ns] : ns \in DOMAIN new}]
  BY <1>2 DEF Replaced
<1>6. DOMAIN new \subseteq Namespace /\ IsFiniteSet(DOMAIN new)
  <2>1. IsFiniteSet(DOMAIN schema \cup DOMAIN defs)
    BY <1>1, FS_Union DEF IsSchema
  <2> QED
    BY <1>1, <1>3, <2>1 DEF IsSchema
<1>7. ASSUME NEW ns \in DOMAIN new
      PROVE  /\ DOMAIN new[ns] \subseteq Name /\ IsFiniteSet(DOMAIN new[ns])
             /\ new[ns] \in [DOMAIN new[ns] -> Definition]
  <2>1. CASE ns \in DOMAIN defs
    BY <1>1, <1>4, <2>1 DEF IsSchema
  <2>2. CASE ns \notin DOMAIN defs
    BY <1>3, <1>4, <2>2 DEF IsSchema
  <2> QED
    BY <2>1, <2>2
<1> QED
  BY <1>2, <1>5, <1>6, <1>7 DEF IsSchema

\* Whatever is in the rule cache, an engine is built with the registry's rules.
LEMMA CompiledIsRegistry ==
  ASSUME IsSchema(registry), NewEngine
  PROVE  model' = registry
<1>1. PICK held \in RuleCaches :
        model' = [ns \in DOMAIN registry |->
          [name \in DOMAIN registry[ns] |->
             [registry[ns][name] EXCEPT !.rewrite = CachedRewrite(<<ns, name>>, @, held)]]]
  BY DEF NewEngine
<1>2. ASSUME NEW ns \in DOMAIN registry, NEW name \in DOMAIN registry[ns]
      PROVE  [registry[ns][name] EXCEPT !.rewrite = CachedRewrite(<<ns, name>>, @, held)]
               = registry[ns][name]
  <2>1. PICK def \in Definition : def = registry[ns][name]
    BY <1>2 DEF IsSchema
  <2>2. CachedRewrite(<<ns, name>>, def.rewrite, held) = def.rewrite
    BY DEF CachedRewrite
  <2>3. [def EXCEPT !.rewrite = def.rewrite] = def
    BY <2>1 DEF Definition
  <2> QED
    BY <2>1, <2>2, <2>3
<1>3. ASSUME NEW ns \in DOMAIN registry
      PROVE  [name \in DOMAIN registry[ns] |->
               [registry[ns][name] EXCEPT !.rewrite = CachedRewrite(<<ns, name>>, @, held)]]
             = registry[ns]
  <2>1. registry[ns] = [name \in DOMAIN registry[ns] |-> registry[ns][name]]
    BY DEF IsSchema
  <2> QED
    BY <1>2, <2>1
<1>4. registry = [ns \in DOMAIN registry |-> registry[ns]]
  BY DEF IsSchema
<1> QED
  BY <1>1, <1>3, <1>4

------------------------------------------------------------------------------

LEMMA InitTyped == Init => Typed /\ TypeOK
<1> SUFFICES ASSUME Init PROVE Typed /\ TypeOK
  OBVIOUS
<1>1. DOMAIN EmptySchema = {} /\ EmptySchema \in [{} -> {}]
  BY DEF EmptySchema
<1>2. IsSchema(EmptySchema) /\ ValidSchema(EmptySchema)
  BY <1>1, FS_EmptySet DEF IsSchema, ValidSchema
<1> QED
  BY <1>2 DEF Init, Typed, TypeOK

LEMMA TypedStep == Typed /\ TypeOK /\ [Next]_vars => Typed' /\ TypeOK'
<1> SUFFICES ASSUME Typed, TypeOK, [Next]_vars PROVE Typed' /\ TypeOK'
  OBVIOUS
<1>1. ASSUME NEW defs \in Updates, Register(defs)
      PROVE  Typed' /\ TypeOK'
  <2>1. IsSchema(registry') /\ ValidSchema(registry')
    BY <1>1, ReplacedIsSchema DEF Register, Typed
  <2> QED
    BY <1>1, <2>1 DEF Register, Typed, TypeOK
<1>2. CASE NewEngine
  <2>1. model' = registry /\ registry' = registry /\ tuples' = tuples
    BY <1>2, CompiledIsRegistry DEF Typed, NewEngine
  <2> QED
    BY <2>1 DEF Typed, TypeOK
<1>3. ASSUME NEW t \in Pool, Write(t) \/ Delete(t)
      PROVE  Typed' /\ TypeOK'
  BY <1>3 DEF Write, Delete, Typed, TypeOK
<1>4. CASE UNCHANGED vars
  BY <1>4 DEF vars, Typed, TypeOK
<1> QED
  BY <1>1, <1>2, <1>3, <1>4 DEF Next, Update

\* The registry is valid after any sequence of registrations and updates, each
\* of which is validated once, and so is the model of every engine, whatever
\* the rule cache held when it was built (TypeOK: register_many, from_schema).
THEOREM SchemasStayValid == Spec => []TypeOK
<1>1. Spec => [](Typed /\ TypeOK)
  BY InitTyped, TypedStep, PTL DEF Spec
<1> QED
  BY <1>1, PTL

\* An engine is built with the rules of the registry as it stands, also where the
\* rule cache holds others under the same names, valid or not, and keeps them
\* until the next is built (ModelIsOfRegistry: _cached_rewrite, from_schema).
THEOREM EnginesServeRegistry == Spec => ModelIsOfRegistry
<1>1. Typed /\ [Next]_vars => (model' # model => model' = registry)
  <2> SUFFICES ASSUME Typed, [Next]_vars, model' # model
               PROVE  model' = registry
    OBVIOUS
  <2>1. NewEngine
    BY DEF Next, Update, Register, Write, Delete, vars
  <2> QED
    BY <2>1, CompiledIsRegistry DEF Typed
<1>2. Spec => [](Typed /\ TypeOK)
  BY InitTyped, TypedStep, PTL DEF Spec
<1> QED
  BY <1>1, <1>2, PTL DEF Spec, ModelIsOfRegistry

\* In a valid schema, an edge leads to a definition.
LEMMA ValidEdges == ValidSchema(model) => EdgesDefined
<1> SUFFICES ASSUME ValidSchema(model), NEW t \in tuples
             PROVE
    /\ AllowsStored(model, t) /\ t.subject_relation # Direct =>
         Defines(model, t.subject_type, t.subject_relation)
    /\ Defines(model, t.object_type, t.relation) /\ AllowsArrow(model, t) =>
         \A name \in DOMAIN model[t.object_type] :
           \A rule \in RulesOf(model[t.object_type][name].rewrite) :
             rule.kind = "arrow" /\ rule.tuple_relation = t.relation =>
               Defines(model, t.subject_type, rule.computed_relation)
  BY DEF EdgesDefined
<1>1. ASSUME AllowsStored(model, t), t.subject_relation # Direct
      PROVE  Defines(model, t.subject_type, t.subject_relation)
  <2>1. PICK ref \in model[t.object_type][t.relation].subjects : RefAllows(ref, t)
    BY <1>1 DEF AllowsStored
  <2>2. ValidSubjectSets(model, t.object_type, t.relation)
    BY <1>1 DEF AllowsStored, Defines, ValidSchema
  <2> QED
    BY <1>1, <2>1, <2>2 DEF RefAllows, ValidSubjectSets, IsRelation, Defines
<1>2. ASSUME Defines(model, t.object_type, t.relation), AllowsArrow(model, t),
             NEW name \in DOMAIN model[t.object_type],
             NEW rule \in RulesOf(model[t.object_type][name].rewrite),
             rule.kind = "arrow", rule.tuple_relation = t.relation
      PROVE  Defines(model, t.subject_type, rule.computed_relation)
  <2>1. ValidArrows(model, t.object_type, name)
    BY <1>2 DEF Defines, ValidSchema
  <2>2. t.subject_type \in TargetTypes(model[t.object_type], rule.tuple_relation)
    BY <1>2 DEF AllowsArrow
  <2> QED
    BY <1>2, <2>1, <2>2 DEF ValidArrows, Defines
<1> QED
  BY <1>1, <1>2

\* Every relation a check can come to from a known one is in the model
\* (EdgesDefined: the lookups of _check_direct and _check_tuple_to_userset).
THEOREM NoEdgeDangles == Spec => []EdgesDefined
<1>1. TypeOK => EdgesDefined
  BY ValidEdges DEF TypeOK
<1> QED
  BY <1>1, SchemasStayValid, PTL

------------------------------------------------------------------------------
\* Checks

\* What d may be to be called by c: deeper, and if that is past the limit, of
\* a part of its rule.
Below(d, c) ==
  /\ d.ask.limit = c.ask.limit /\ d.ask.depth = c.ask.depth + 1
  /\ d.ask.depth <= d.ask.limit \/ d.rule \in Parts(c.rule)

\* How far a call is from the limit.
Left(c) == IF c.ask.depth > c.ask.limit THEN 0 ELSE c.ask.limit + 1 - c.ask.depth

\* Calls of traversals, of checks as of lookups.
Traversing(S) == \A c \in S : c.rule \in Rule /\ c.ask.limit \in Nat /\ c.ask.depth \in Nat

LEMMA LeftFalls ==
  ASSUME NEW S, Traversing(S), NEW c \in S, NEW d \in S, Below(d, c)
  PROVE  /\ Left(c) \in Nat
         /\ Left(d) < Left(c) \/ (Left(d) = Left(c) /\ d.rule \in Parts(c.rule))
<1>1. /\ c.ask.limit \in Nat /\ c.ask.depth \in Nat
      /\ d.ask.limit \in Nat /\ d.ask.depth \in Nat
  BY DEF Traversing
<1> QED
  BY <1>1 DEF Below, Left

\* Of some calls, one that makes none of the others.
LEMMA DeepestOf ==
  ASSUME NEW S, S # {}, Traversing(S)
  PROVE  \E c \in S : \A d \in S : ~Below(d, c)
<1> DEFINE less == OpToRel(<, Nat)
           lefts == {Left(c) : c \in S}
<1>1. \A c \in S : Left(c) \in Nat
  <2>1. ASSUME NEW c \in S
        PROVE  c.ask.limit \in Nat /\ c.ask.depth \in Nat
    BY DEF Traversing
  <2> QED
    BY <2>1 DEF Left
<1>2. lefts \subseteq Nat /\ lefts # {}
  BY <1>1
<1>3. IsWellFoundedOn(less, Nat)
  BY NatLessThanWellFounded
<1> HIDE DEF less, lefts
<1>4. PICK k \in lefts : \A j \in lefts : ~(<<j, k>> \in less)
  BY <1>2, <1>3, WFMin
<1>5. \A j \in lefts : ~(j < k)
  BY <1>2, <1>4 DEF less, OpToRel
<1> DEFINE rules == {r \in Rule : \E c \in S : Left(c) = k /\ c.rule = r}
<1>6. rules \in SUBSET Rule /\ rules # {}
  BY <1>4 DEF lefts, Traversing
<1>7. PICK r \in rules : Parts(r) \cap rules = {}
  BY <1>6, RuleAssumption
<1>8. PICK c \in S : Left(c) = k /\ c.rule = r
  BY <1>7
<1>9. ASSUME NEW d \in S, Below(d, c)
      PROVE  FALSE
  <2>1. Left(d) < k \/ (Left(d) = k /\ d.rule \in Parts(r))
    BY <1>8, <1>9, LeftFalls
  <2>2. ~(Left(d) < k)
    BY <1>5 DEF lefts
  <2>3. d.rule \notin Parts(r) \/ Left(d) # k
    BY <1>7, <1>9 DEF Traversing
  <2> QED
    BY <2>1, <2>2, <2>3
<1> QED
  BY <1>9

LEMMA Deepest ==
  ASSUME NEW S \in SUBSET Call, S # {}
  PROVE  \E c \in S : \A d \in S : ~Below(d, c)
<1>1. Traversing(S)
  BY DEF Traversing, Call
<1> QED
  BY <1>1, DeepestOf

\* The calls that one call makes.

PartCall(c, part) == [rule |-> part, key |-> c.key, ask |-> Deeper(c.ask)]

LEMMA PartBelow ==
  ASSUME NEW c \in Call, NEW part \in Parts(c.rule)
  PROVE  PartCall(c, part) \in Call /\ Below(PartCall(c, part), c)
<1>1. part \in Rule
  BY RuleKinds DEF Call
<1>2. PICK a : a = c.ask
  OBVIOUS
<1>3. a \in [subject : [type : Namespace, id : Id], limit : Nat, depth : Nat,
             visited : SUBSET Key]
  BY <1>2 DEF Call
<1>4. PICK b : b = Deeper(a)
  OBVIOUS
<1>5. /\ b \in [subject : [type : Namespace, id : Id], limit : Nat, depth : Nat,
                visited : SUBSET Key]
      /\ b.limit = a.limit /\ b.depth = a.depth + 1
  BY <1>3, <1>4 DEF Deeper
<1>6. PICK d : d = PartCall(c, part)
  OBVIOUS
<1>7. d = [rule |-> part, key |-> c.key, ask |-> b]
  BY <1>2, <1>4, <1>6 DEF PartCall
<1>8. d \in Call
  BY <1>1, <1>5, <1>7 DEF Call
<1>9. Below(d, c)
  BY <1>2, <1>5, <1>7 DEF Below
<1> QED
  BY <1>6, <1>8, <1>9

KeyCall(c, key) ==
  [rule |-> model[key.object_type][key.relation].rewrite, key |-> key,
   ask |-> [Deeper(c.ask) EXCEPT !.visited = @ \cup {key}]]

CutOff(c, key) ==
  \/ key \in c.ask.visited
  \/ c.ask.depth + 1 > c.ask.limit
  \/ ~Defines(model, key.object_type, key.relation)

LEMMA KeyBelow ==
  ASSUME IsSchema(model), NEW c \in Call, NEW key \in Key
  PROVE  /\ ~CutOff(c, key) => KeyCall(c, key) \in Call /\ Below(KeyCall(c, key), c)
         /\ \A answers : CheckRecursive(answers, key, Deeper(c.ask)) =
              IF CutOff(c, key) THEN Unknown ELSE answers[KeyCall(c, key)]
<1>2. PICK a : a = c.ask
  OBVIOUS
<1>3. a \in [subject : [type : Namespace, id : Id], limit : Nat, depth : Nat,
             visited : SUBSET Key]
  BY <1>2 DEF Call
<1>4. PICK b : b = Deeper(a)
  OBVIOUS
<1>5. /\ b \in [subject : [type : Namespace, id : Id], limit : Nat, depth : Nat,
                visited : SUBSET Key]
      /\ b.limit = a.limit /\ b.depth = a.depth + 1 /\ b.visited = a.visited
  BY <1>3, <1>4 DEF Deeper
<1>6. PICK e : e = [b EXCEPT !.visited = @ \cup {key}]
  OBVIOUS
<1>7. /\ e \in [subject : [type : Namespace, id : Id], limit : Nat, depth : Nat,
                visited : SUBSET Key]
      /\ e.limit = a.limit /\ e.depth = a.depth + 1
  BY <1>5, <1>6
<1>8. PICK d : d = KeyCall(c, key)
  OBVIOUS
<1>9. d = [rule |-> model[key.object_type][key.relation].rewrite, key |-> key, ask |-> e]
  BY <1>2, <1>4, <1>6, <1>8 DEF KeyCall
<1>10. ASSUME ~CutOff(c, key)
       PROVE  d \in Call /\ Below(d, c)
  <2>1. model[key.object_type][key.relation] \in Definition
    BY <1>10 DEF CutOff, Defines, IsSchema
  <2>2. model[key.object_type][key.relation].rewrite \in Rule
    BY <2>1 DEF Definition
  <2>3. d \in Call
    BY <1>7, <1>9, <2>2 DEF Call
  <2>4. a.depth + 1 <= a.limit
    BY <1>2, <1>3, <1>10 DEF CutOff
  <2> QED
    BY <1>2, <1>7, <1>9, <2>3, <2>4 DEF Below
<1>11. ASSUME NEW answers
       PROVE  CheckRecursive(answers, key, b) = IF CutOff(c, key) THEN Unknown ELSE answers[d]
  BY <1>2, <1>5, <1>6, <1>9 DEF CheckRecursive, CutOff, Truncated
<1> QED
  BY <1>2, <1>4, <1>8, <1>10, <1>11

\* What the calls that one call makes take over from it.
LEMMA CallFields ==
  ASSUME NEW c \in Call, NEW part, NEW key
  PROVE  /\ c.rule \in Rule /\ c.key \in Key
         /\ c.ask.limit \in Nat /\ c.ask.depth \in Nat /\ c.ask.visited \subseteq Key
         /\ PartCall(c, part).rule = part /\ PartCall(c, part).key = c.key
         /\ PartCall(c, part).ask.subject = c.ask.subject
         /\ PartCall(c, part).ask.limit = c.ask.limit
         /\ PartCall(c, part).ask.depth = c.ask.depth + 1
         /\ PartCall(c, part).ask.visited = c.ask.visited
         /\ KeyCall(c, key).rule = model[key.object_type][key.relation].rewrite
         /\ KeyCall(c, key).key = key
         /\ KeyCall(c, key).ask.subject = c.ask.subject
         /\ KeyCall(c, key).ask.limit = c.ask.limit
         /\ KeyCall(c, key).ask.depth = c.ask.depth + 1
         /\ KeyCall(c, key).ask.visited = c.ask.visited \cup {key}
<1>1. PICK a : a = c.ask /\ a \in [subject : [type : Namespace, id : Id], limit : Nat,
                                   depth : Nat, visited : SUBSET Key]
  BY DEF Call
<1>2. PICK b : b = Deeper(a)
  OBVIOUS
<1>3. /\ b.subject = a.subject /\ b.limit = a.limit /\ b.depth = a.depth + 1
      /\ b.visited = a.visited
      /\ b \in [subject : [type : Namespace, id : Id], limit : Nat, depth : Nat,
                visited : SUBSET Key]
  BY <1>1, <1>2 DEF Deeper
<1>4. PICK e : e = [b EXCEPT !.visited = @ \cup {key}]
  OBVIOUS
<1>5. /\ e.subject = a.subject /\ e.limit = a.limit /\ e.depth = a.depth + 1
      /\ e.visited = a.visited \cup {key}
  BY <1>3, <1>4
<1>6. c.rule \in Rule /\ c.key \in Key
  BY DEF Call
<1> QED
  BY <1>1, <1>2, <1>3, <1>4, <1>5, <1>6 DEF PartCall, KeyCall

\* Answers told apart by what is known: a is b, or not known.
Leq(a, b) == a = Unknown \/ a = b

LEMMA SomeMonotone ==
  ASSUME NEW R, NEW S, \A a \in R : \E b \in S : Leq(a, b), \A b \in S : \E a \in R : Leq(a, b)
  PROVE  Leq(Some(R), Some(S))
<1>1. Allow # Unknown /\ Deny # Unknown /\ Allow # Deny
  BY DEF Allow, Deny, Unknown
<1>2. CASE Allow \in R
  BY <1>1, <1>2 DEF Leq, Some
<1>3. CASE Allow \notin R /\ Unknown \in R
  BY <1>1, <1>3 DEF Leq, Some
<1>4. CASE Allow \notin R /\ Unknown \notin R
  <2>1. Allow \notin S /\ Unknown \notin S
    BY <1>4 DEF Leq
  <2> QED
    BY <1>4, <2>1 DEF Leq, Some
<1> QED
  BY <1>2, <1>3, <1>4

LEMMA EveryMonotone ==
  ASSUME NEW R, NEW S, \A a \in R : \E b \in S : Leq(a, b), \A b \in S : \E a \in R : Leq(a, b)
  PROVE  Leq(Every(R), Every(S))
<1>1. Allow # Unknown /\ Deny # Unknown /\ Allow # Deny
  BY DEF Allow, Deny, Unknown
<1>2. CASE Deny \in R
  BY <1>1, <1>2 DEF Leq, Every
<1>3. CASE Deny \notin R /\ Unknown \in R
  BY <1>1, <1>3 DEF Leq, Every
<1>4. CASE Deny \notin R /\ Unknown \notin R
  <2>1. Deny \notin S /\ Unknown \notin S
    BY <1>4 DEF Leq
  <2> QED
    BY <1>4, <2>1 DEF Leq, Every
<1> QED
  BY <1>2, <1>3, <1>4

LEMMA ButNotMonotone ==
  ASSUME NEW a, NEW b, NEW x, NEW y, Leq(a, b), Leq(x, y)
  PROVE  Leq(ButNot(a, x), ButNot(b, y))
<1>1. Allow # Unknown /\ Deny # Unknown /\ Allow # Deny
  BY DEF Allow, Deny, Unknown
<1> QED
  BY <1>1 DEF Leq, ButNot

\* The same call of a traversal that may be nearer to its limit, and evaluating
\* more keys.
Twin(c, d) ==
  /\ c.rule = d.rule /\ c.key = d.key /\ c.ask.subject = d.ask.subject
  /\ d.ask.visited \subseteq c.ask.visited
  /\ c.ask.limit + d.ask.depth <= d.ask.limit + c.ask.depth

\* The answers of the calls below two twins tell no more of the first.
Dominated(f, c, g, d) ==
  \A x, y \in Call : Below(x, c) /\ Below(y, d) /\ Twin(x, y) => Leq(f[x], g[y])

\* What two calls of the same rule rest on tells no more of the first.
Matched(f, c, g, d) ==
  /\ c.rule = d.rule /\ c.key = d.key /\ c.ask.subject = d.ask.subject
  /\ \A part \in Parts(c.rule) : Leq(f[PartCall(c, part)], g[PartCall(d, part)])
  /\ \A key \in Key : Leq(CheckRecursive(f, key, Deeper(c.ask)),
                         CheckRecursive(g, key, Deeper(d.ask)))

LEMMA TwinParts ==
  ASSUME NEW c \in Call, NEW d \in Call, Twin(c, d), NEW f, NEW g, Dominated(f, c, g, d),
         NEW part \in Parts(c.rule)
  PROVE  Leq(f[PartCall(c, part)], g[PartCall(d, part)])
<1>1. /\ PartCall(c, part) \in Call /\ Below(PartCall(c, part), c)
      /\ PartCall(d, part) \in Call /\ Below(PartCall(d, part), d)
  BY PartBelow DEF Twin
<1>2. Twin(PartCall(c, part), PartCall(d, part))
  BY CallFields DEF Twin
<1> QED
  BY <1>1, <1>2 DEF Dominated

LEMMA TwinKeys ==
  ASSUME IsSchema(model),
         NEW c \in Call, NEW d \in Call, Twin(c, d), NEW f, NEW g, Dominated(f, c, g, d),
         NEW key \in Key
  PROVE  Leq(CheckRecursive(f, key, Deeper(c.ask)), CheckRecursive(g, key, Deeper(d.ask)))
<1>3. /\ CheckRecursive(f, key, Deeper(c.ask)) =
           IF CutOff(c, key) THEN Unknown ELSE f[KeyCall(c, key)]
      /\ CheckRecursive(g, key, Deeper(d.ask)) =
           IF CutOff(d, key) THEN Unknown ELSE g[KeyCall(d, key)]
  BY KeyBelow
<1>4. CASE CutOff(c, key)
  BY <1>3, <1>4 DEF Leq
<1>5. CASE ~CutOff(c, key)
  <2>1. ~CutOff(d, key)
    BY <1>5, CallFields DEF CutOff, Twin
  <2>2. /\ KeyCall(c, key) \in Call /\ Below(KeyCall(c, key), c)
        /\ KeyCall(d, key) \in Call /\ Below(KeyCall(d, key), d)
    BY <1>5, <2>1, KeyBelow
  <2>3. Twin(KeyCall(c, key), KeyCall(d, key))
    BY CallFields DEF Twin
  <2> QED
    BY <1>3, <1>5, <2>1, <2>2, <2>3 DEF Dominated
<1> QED
  BY <1>4, <1>5

\* Where the edges of a key lead.
LEMMA EdgeKeys ==
  ASSUME tuples \subseteq Pool, NEW key \in Key, NEW name, NEW t \in TuplesAt(key, name)
  PROVE  /\ t.subject_relation # Direct =>
              KeyOf(t.subject_type, t.subject_id, t.subject_relation) \in Key
         /\ \A other \in Name : KeyOf(t.subject_type, t.subject_id, other) \in Key
<1>1. t \in RelationTuple
  BY InputAssumption DEF TuplesAt
<1> QED
  BY <1>1 DEF RelationTuple, Key, KeyOf

LEMMA MatchedDirect ==
  ASSUME Typed, NEW c \in Call, NEW d \in Call, NEW f, NEW g, Matched(f, c, g, d)
  PROVE  Leq(CheckDirect(f, c.key, c.ask), CheckDirect(g, d.key, d.ask))
<1> DEFINE Found(answers, e, t) ==
             IF t.subject_relation # Direct
             THEN CheckRecursive(answers,
                    KeyOf(t.subject_type, t.subject_id, t.subject_relation), Deeper(e.ask))
             ELSE IF SubjectMatches(t, e.ask.subject) THEN Allow ELSE Deny
           stored == {x \in TuplesAt(c.key, c.key.relation) : AllowsStored(model, x)}
<1>1. ASSUME NEW t \in stored
      PROVE  Leq(Found(f, c, t), Found(g, d, t))
  <2>1. CASE t.subject_relation # Direct
    <3>1. KeyOf(t.subject_type, t.subject_id, t.subject_relation) \in Key
      BY <2>1, EdgeKeys DEF Typed, Call
    <3> QED
      BY <2>1, <3>1 DEF Matched
  <2>2. CASE t.subject_relation = Direct
    BY <2>2 DEF Matched, Leq
  <2> QED
    BY <2>1, <2>2
<1>2. CheckDirect(f, c.key, c.ask) = Some({Found(f, c, t) : t \in stored})
  BY DEF CheckDirect
<1>3. CheckDirect(g, d.key, d.ask) = Some({Found(g, d, t) : t \in stored})
  BY DEF CheckDirect, Matched
<1> HIDE DEF Found, stored
<1>4. Leq(Some({Found(f, c, t) : t \in stored}), Some({Found(g, d, t) : t \in stored}))
  <2>1. PICK R, S : R = {Found(f, c, t) : t \in stored} /\ S = {Found(g, d, t) : t \in stored}
    OBVIOUS
  <2>2. (\A x \in R : \E y \in S : Leq(x, y)) /\ (\A y \in S : \E x \in R : Leq(x, y))
    BY <1>1, <2>1
  <2> QED
    BY <2>1, <2>2, SomeMonotone
<1> QED
  BY <1>2, <1>3, <1>4

LEMMA MatchedArrow ==
  ASSUME Typed, NEW c \in Call, NEW d \in Call, NEW f, NEW g, Matched(f, c, g, d),
         c.rule.kind = "arrow"
  PROVE  Leq(CheckArrow(f, c.rule, c.key, c.ask), CheckArrow(g, d.rule, d.key, d.ask))
<1> DEFINE Found(answers, e, t) ==
             CheckRecursive(answers,
               KeyOf(t.subject_type, t.subject_id, c.rule.computed_relation), Deeper(e.ask))
           followed == Followed(c.key, c.rule.tuple_relation)
<1>1. ASSUME NEW t \in followed
      PROVE  Leq(Found(f, c, t), Found(g, d, t))
  <2>1. c.rule.computed_relation \in Name
    BY RuleKinds DEF Call
  <2>2. t \in TuplesAt(c.key, c.rule.tuple_relation)
    BY DEF Followed
  <2>3. KeyOf(t.subject_type, t.subject_id, c.rule.computed_relation) \in Key
    BY <2>1, <2>2, EdgeKeys DEF Typed, Call
  <2> QED
    BY <2>3 DEF Matched
<1>2. CheckArrow(f, c.rule, c.key, c.ask) = Some({Found(f, c, t) : t \in followed})
  BY DEF CheckArrow
<1>3. CheckArrow(g, d.rule, d.key, d.ask) = Some({Found(g, d, t) : t \in followed})
  BY DEF CheckArrow, Matched
<1> HIDE DEF Found, followed
<1>4. Leq(Some({Found(f, c, t) : t \in followed}), Some({Found(g, d, t) : t \in followed}))
  <2>1. PICK R, S : R = {Found(f, c, t) : t \in followed}
                    /\ S = {Found(g, d, t) : t \in followed}
    OBVIOUS
  <2>2. (\A x \in R : \E y \in S : Leq(x, y)) /\ (\A y \in S : \E x \in R : Leq(x, y))
    BY <1>1, <2>1
  <2> QED
    BY <2>1, <2>2, SomeMonotone
<1> QED
  BY <1>2, <1>3, <1>4

LEMMA MatchedRules ==
  ASSUME Typed, NEW c \in Call, NEW d \in Call, NEW f, NEW g, Matched(f, c, g, d)
  PROVE  Leq(EvaluateRule(f, c.rule, c.key, c.ask), EvaluateRule(g, d.rule, d.key, d.ask))
<1>1. PICK r : r = c.rule
  OBVIOUS
<1>2. c.rule = r /\ d.rule = r /\ r \in Rule
  BY <1>1 DEF Matched, Call
<1>3. ASSUME NEW part \in Parts(r)
      PROVE  Leq(f[[rule |-> part, key |-> c.key, ask |-> Deeper(c.ask)]],
                 g[[rule |-> part, key |-> d.key, ask |-> Deeper(d.ask)]])
  BY <1>2, <1>3 DEF Matched, PartCall
<1> DEFINE F(part) == f[[rule |-> part, key |-> c.key, ask |-> Deeper(c.ask)]]
           G(part) == g[[rule |-> part, key |-> d.key, ask |-> Deeper(d.ask)]]
<1>4. ASSUME NEW parts \in SUBSET Parts(r)
      PROVE  /\ Leq(Some({F(p) : p \in parts}), Some({G(p) : p \in parts}))
             /\ Leq(Every({F(p) : p \in parts}), Every({G(p) : p \in parts}))
  <2>1. PICK R, S : R = {F(p) : p \in parts} /\ S = {G(p) : p \in parts}
    OBVIOUS
  <2>2. \A p \in parts : Leq(F(p), G(p))
    BY <1>3
  <2> HIDE DEF F, G
  <2>3. (\A x \in R : \E y \in S : Leq(x, y)) /\ (\A y \in S : \E x \in R : Leq(x, y))
    BY <2>1, <2>2
  <2> QED
    BY <2>1, <2>3, SomeMonotone, EveryMonotone
<1>5. CASE r.kind = "this"
  <2>1. /\ EvaluateRule(f, r, c.key, c.ask) = CheckDirect(f, c.key, c.ask)
        /\ EvaluateRule(g, r, d.key, d.ask) = CheckDirect(g, d.key, d.ask)
    BY <1>5 DEF EvaluateRule
  <2> QED
    BY <1>2, <2>1, MatchedDirect
<1>6. CASE r.kind = "computed"
  <2>1. PICK key : key = [c.key EXCEPT !.relation = r.relation]
    OBVIOUS
  <2>2. /\ EvaluateRule(f, r, c.key, c.ask) = CheckRecursive(f, key, Deeper(c.ask))
        /\ EvaluateRule(g, r, d.key, d.ask) = CheckRecursive(g, key, Deeper(d.ask))
    BY <1>6, <2>1 DEF EvaluateRule, Matched
  <2>3. key \in Key
    BY <1>2, <1>6, <2>1, RuleKinds DEF Call, Key
  <2> QED
    BY <1>2, <2>2, <2>3 DEF Matched
<1>7. CASE r.kind = "arrow"
  <2>1. /\ EvaluateRule(f, r, c.key, c.ask) = CheckArrow(f, r, c.key, c.ask)
        /\ EvaluateRule(g, r, d.key, d.ask) = CheckArrow(g, r, d.key, d.ask)
    BY <1>7 DEF EvaluateRule
  <2> QED
    BY <1>2, <1>7, <2>1, MatchedArrow
<1>8. CASE r.kind = "union"
  <2>1. /\ EvaluateRule(f, r, c.key, c.ask) = Some({F(p) : p \in r.children})
        /\ EvaluateRule(g, r, d.key, d.ask) = Some({G(p) : p \in r.children})
    BY <1>8 DEF EvaluateRule
  <2>2. r.children \in SUBSET Parts(r)
    BY <1>2, <1>8, RuleKinds
  <2> QED
    BY <1>2, <1>4, <2>1, <2>2
<1>9. CASE r.kind = "intersection"
  <2>1. /\ EvaluateRule(f, r, c.key, c.ask) = Every({F(p) : p \in r.children})
        /\ EvaluateRule(g, r, d.key, d.ask) = Every({G(p) : p \in r.children})
    BY <1>9 DEF EvaluateRule
  <2>2. r.children \in SUBSET Parts(r)
    BY <1>2, <1>9, RuleKinds
  <2> QED
    BY <1>2, <1>4, <2>1, <2>2
<1>10. CASE r.kind = "exclusion"
  <2>1. /\ EvaluateRule(f, r, c.key, c.ask) = ButNot(F(r.base), F(r.subtract))
        /\ EvaluateRule(g, r, d.key, d.ask) = ButNot(G(r.base), G(r.subtract))
    BY <1>10 DEF EvaluateRule
  <2>2. r.base \in Parts(r) /\ r.subtract \in Parts(r)
    BY <1>2, <1>10, RuleKinds
  <2>3. Leq(F(r.base), G(r.base)) /\ Leq(F(r.subtract), G(r.subtract))
    BY <1>3, <2>2
  <2> HIDE DEF F, G
  <2> QED
    BY <1>2, <2>1, <2>3, ButNotMonotone
<1> QED
  BY <1>2, <1>5, <1>6, <1>7, <1>8, <1>9, <1>10, RuleKinds

\* An evaluation depends on the answers of the calls below it alone.
LEMMA EvaluateLocal ==
  ASSUME Typed, NEW c \in Call, NEW f, NEW g, \A d \in Call : Below(d, c) => f[d] = g[d]
  PROVE  EvaluateRule(f, c.rule, c.key, c.ask) = EvaluateRule(g, c.rule, c.key, c.ask)
<1>1. ASSUME NEW key \in Key
      PROVE  CheckRecursive(f, key, Deeper(c.ask)) = CheckRecursive(g, key, Deeper(c.ask))
  BY KeyBelow DEF Typed
<1>2. \A part \in Parts(c.rule) : f[PartCall(c, part)] = g[PartCall(c, part)]
  BY PartBelow
<1>3. Matched(f, c, g, c) /\ Matched(g, c, f, c)
  BY <1>1, <1>2 DEF Matched, Leq
<1>4. PICK v, w : /\ v = EvaluateRule(f, c.rule, c.key, c.ask)
                  /\ w = EvaluateRule(g, c.rule, c.key, c.ask)
  OBVIOUS
<1>5. Leq(v, w) /\ Leq(w, v)
  BY <1>3, <1>4, MatchedRules
<1> QED
  BY <1>4, <1>5 DEF Leq

\* Answers to some calls, with all those they rest on.
Attempt(D, g) ==
  /\ D \subseteq Call
  /\ \A c \in D : /\ g[c] = EvaluateRule(g, c.rule, c.key, c.ask)
                  /\ \A d \in Call : Below(d, c) => d \in D

LEMMA AttemptsAgree ==
  ASSUME Typed, NEW D, NEW g, Attempt(D, g), NEW E, NEW h, Attempt(E, h)
  PROVE  \A c \in D \cap E : g[c] = h[c]
<1> DEFINE bad == {c \in D \cap E : g[c] # h[c]}
<1> SUFFICES ASSUME bad # {} PROVE FALSE
  OBVIOUS
<1>1. bad \in SUBSET Call
  BY DEF Attempt
<1>2. PICK c \in bad : \A d \in bad : ~Below(d, c)
  BY <1>1, Deepest
<1>3. \A d \in Call : Below(d, c) => d \in D \cap E /\ g[d] = h[d]
  BY <1>2 DEF Attempt
<1>4. EvaluateRule(g, c.rule, c.key, c.ask) = EvaluateRule(h, c.rule, c.key, c.ask)
  BY <1>1, <1>2, <1>3, EvaluateLocal
<1> QED
  BY <1>2, <1>4 DEF Attempt

Answered(c) == \E D, g : Attempt(D, g) /\ c \in D
AnswerOf(c) == CHOOSE v : \E D, g : Attempt(D, g) /\ c \in D /\ v = g[c]

LEMMA AnswerIsUnique ==
  ASSUME Typed, NEW D, NEW g, Attempt(D, g), NEW c \in D
  PROVE  AnswerOf(c) = g[c]
<1>1. \A E, h : Attempt(E, h) /\ c \in E => h[c] = g[c]
  BY AttemptsAgree
<1>2. \E v : \E E, h : Attempt(E, h) /\ c \in E /\ v = h[c]
  OBVIOUS
<1>3. \E E, h : Attempt(E, h) /\ c \in E /\ AnswerOf(c) = h[c]
  BY <1>2 DEF AnswerOf
<1> QED
  BY <1>1, <1>3

LEMMA AnsweredAttempt ==
  ASSUME Typed, NEW f, f = [c \in Call |-> AnswerOf(c)]
  PROVE  Attempt({c \in Call : Answered(c)}, f)
<1> SUFFICES ASSUME NEW c \in Call, Answered(c)
             PROVE  /\ f[c] = EvaluateRule(f, c.rule, c.key, c.ask)
                    /\ \A d \in Call : Below(d, c) => Answered(d)
  BY DEF Attempt
<1>1. PICK D, g : Attempt(D, g) /\ c \in D
  BY DEF Answered
<1>2. \A d \in D : d \in Call /\ f[d] = g[d] /\ Answered(d)
  <2>1. ASSUME NEW d \in D
        PROVE  d \in Call /\ AnswerOf(d) = g[d] /\ Answered(d)
    BY <1>1, AnswerIsUnique DEF Attempt, Answered
  <2> QED
    BY <2>1
<1>3. \A d \in Call : Below(d, c) => d \in D
  BY <1>1 DEF Attempt
<1>4. EvaluateRule(f, c.rule, c.key, c.ask) = EvaluateRule(g, c.rule, c.key, c.ask)
  BY <1>2, <1>3, EvaluateLocal
<1>5. g[c] = EvaluateRule(g, c.rule, c.key, c.ask)
  BY <1>1 DEF Attempt
<1> QED
  BY <1>1, <1>2, <1>3, <1>4, <1>5

LEMMA AllAnswered ==
  ASSUME Typed
  PROVE  \A c \in Call : Answered(c)
<1> DEFINE open == {c \in Call : ~Answered(c)}
           done == {c \in Call : Answered(c)}
<1> SUFFICES ASSUME open # {} PROVE FALSE
  OBVIOUS
<1>1. PICK c \in open : \A d \in open : ~Below(d, c)
  BY Deepest
<1>2. PICK f : f = [d \in Call |-> AnswerOf(d)]
  OBVIOUS
<1>3. Attempt(done, f)
  BY <1>2, AnsweredAttempt
<1>4. PICK g : g = [f EXCEPT ![c] = EvaluateRule(f, c.rule, c.key, c.ask)]
  OBVIOUS
<1>5. c \in Call /\ c \notin done
  BY <1>1
<1>6. /\ g[c] = EvaluateRule(f, c.rule, c.key, c.ask)
      /\ \A d \in Call : d # c => g[d] = f[d]
  BY <1>2, <1>4, <1>5
<1>7. \A d \in Call : Below(d, c) => d \in done
  BY <1>1
<1>8. ASSUME NEW d \in done \cup {c}
      PROVE  /\ g[d] = EvaluateRule(g, d.rule, d.key, d.ask)
             /\ \A e \in Call : Below(e, d) => e \in done
  <2>1. d \in Call
    BY <1>5
  <2>2. \A e \in Call : Below(e, d) => e \in done
    BY <1>3, <1>7 DEF Attempt
  <2>3. \A e \in Call : Below(e, d) => f[e] = g[e]
    BY <1>5, <1>6, <2>2
  <2>4. EvaluateRule(f, d.rule, d.key, d.ask) = EvaluateRule(g, d.rule, d.key, d.ask)
    BY <2>1, <2>3, EvaluateLocal
  <2>5. CASE d = c
    BY <1>6, <2>2, <2>4, <2>5
  <2>6. CASE d \in done
    <3>1. f[d] = EvaluateRule(f, d.rule, d.key, d.ask)
      BY <1>3, <2>6 DEF Attempt
    <3> QED
      BY <1>5, <1>6, <2>1, <2>2, <2>4, <2>6, <3>1
  <2> QED
    BY <2>5, <2>6
<1>9. Attempt(done \cup {c}, g)
  BY <1>5, <1>8 DEF Attempt
<1>10. Answered(c)
  BY <1>9 DEF Answered
<1> QED
  BY <1>5, <1>10

\* The recursion of _evaluate_rule ends: Answers are its results.
LEMMA Evaluated ==
  Typed => \A c \in Call : Answers[c] = EvaluateRule(Answers, c.rule, c.key, c.ask)
<1> SUFFICES ASSUME Typed
             PROVE  \A c \in Call : Answers[c] = EvaluateRule(Answers, c.rule, c.key, c.ask)
  OBVIOUS
<1> DEFINE Solution(f) == f = [c \in Call |-> EvaluateRule(f, c.rule, c.key, c.ask)]
<1>1. PICK f : f = [c \in Call |-> AnswerOf(c)]
  OBVIOUS
<1>2. \A c \in Call : f[c] = EvaluateRule(f, c.rule, c.key, c.ask)
  BY <1>1, AnsweredAttempt, AllAnswered DEF Attempt
<1>3. Solution(f)
  BY <1>1, <1>2
<1>4. Answers = CHOOSE g : Solution(g)
  BY DEF Answers
<1> HIDE DEF Solution
<1>5. Solution(Answers)
  BY <1>3, <1>4
<1> QED
  BY <1>5 DEF Solution

------------------------------------------------------------------------------
\* The depth limit

\* Nearer to the limit, or evaluating more keys, a call of a traversal answers the
\* same or not at all.
LEMMA TwinsAnswer ==
  ASSUME Typed, NEW c \in Call, NEW d \in Call, Twin(c, d)
  PROVE  Leq(Answers[c], Answers[d])
<1> DEFINE bad == {x \in Call : \E y \in Call : Twin(x, y) /\ ~Leq(Answers[x], Answers[y])}
<1> SUFFICES ASSUME bad # {} PROVE FALSE
  OBVIOUS
<1>1. PICK x \in bad : \A e \in bad : ~Below(e, x)
  BY Deepest
<1>2. PICK y \in Call : Twin(x, y) /\ ~Leq(Answers[x], Answers[y])
  OBVIOUS
<1>3. Matched(Answers, x, Answers, y)
  <2>1. Dominated(Answers, x, Answers, y)
    BY <1>1 DEF Dominated
  <2>2. \A part \in Parts(x.rule) : Leq(Answers[PartCall(x, part)], Answers[PartCall(y, part)])
    BY <1>2, <2>1, TwinParts
  <2>3. \A key \in Key : Leq(CheckRecursive(Answers, key, Deeper(x.ask)),
                            CheckRecursive(Answers, key, Deeper(y.ask)))
    BY <1>2, <2>1, TwinKeys DEF Typed
  <2> QED
    BY <1>2, <2>2, <2>3 DEF Matched, Twin
<1>4. Leq(EvaluateRule(Answers, x.rule, x.key, x.ask), EvaluateRule(Answers, y.rule, y.key, y.ask))
  BY <1>2, <1>3, MatchedRules
<1> QED
  BY <1>2, <1>4, Evaluated

\* The first call of a check.
FirstCall(key, subject, limit) ==
  [rule |-> model[key.object_type][key.relation].rewrite, key |-> key,
   ask |-> [subject |-> subject, limit |-> limit, depth |-> 0, visited |-> {key}]]

LEMMA DefinedAreKeys ==
  ASSUME IsSchema(model), NEW objects \in SUBSET [type : Namespace, id : Id],
         NEW key \in DefinedOn(objects)
  PROVE  key \in Key /\ Defines(model, key.object_type, key.relation)
<1>1. PICK o \in objects : /\ o.type \in DOMAIN model
                           /\ \E name \in DOMAIN model[o.type] : key = KeyOf(o.type, o.id, name)
  BY DEF DefinedOn
<1>2. PICK name \in DOMAIN model[o.type] :
        key = [object_type |-> o.type, object_id |-> o.id, relation |-> name]
  BY <1>1 DEF KeyOf
<1>3. o.type \in Namespace /\ o.id \in Id /\ name \in Name
  BY <1>1 DEF IsSchema
<1> QED
  BY <1>1, <1>2, <1>3 DEF Key, Defines

LEMMA CheckIsCall ==
  ASSUME IsSchema(model), NEW key \in Key, Defines(model, key.object_type, key.relation),
         NEW subject \in Subjects, NEW limit \in Nat
  PROVE  /\ FirstCall(key, subject, limit) \in Call
         /\ Check(key, subject, limit) = Answers[FirstCall(key, subject, limit)]
<1>1. subject \in [type : Namespace, id : Id]
  BY InputAssumption
<1>2. model[key.object_type][key.relation].rewrite \in Rule
  BY DEF Defines, IsSchema, Definition
<1>3. FirstCall(key, subject, limit) \in Call
  BY <1>1, <1>2 DEF FirstCall, Call
<1>4. PICK a : a = Ask(subject, limit)
  OBVIOUS
<1>5. a = [subject |-> subject, limit |-> limit, depth |-> 0, visited |-> {}]
  BY <1>4 DEF Ask
<1>6. [a EXCEPT !.visited = @ \cup {key}] =
         [subject |-> subject, limit |-> limit, depth |-> 0, visited |-> {key}]
  BY <1>5
<1>7. key \notin a.visited /\ ~(a.depth > a.limit)
  BY <1>5
<1>8. CheckRecursive(Answers, key, a) = Answers[FirstCall(key, subject, limit)]
  BY <1>6, <1>7 DEF CheckRecursive, FirstCall
<1> QED
  BY <1>3, <1>4, <1>8 DEF Check

LEMMA CheckIsFirstCall ==
  ASSUME IsSchema(model), NEW key \in DefinedKeys, NEW subject \in Subjects, NEW limit \in Nat
  PROVE  /\ key \in Key /\ FirstCall(key, subject, limit) \in Call
         /\ Check(key, subject, limit) = Answers[FirstCall(key, subject, limit)]
<1>1. key \in Key /\ Defines(model, key.object_type, key.relation)
  BY DefinedAreKeys, InputAssumption DEF DefinedKeys
<1> QED
  BY <1>1, CheckIsCall

\* At a smaller depth limit a check answers what it does at the default one, or
\* is unknown, for any schema, tuples and nesting of exclusions
\* (DepthOnlyForgets: the limit of _check_recursive fails closed).
THEOREM LimitFailsClosed == Spec => []DepthOnlyForgets
<1>1. Typed => DepthOnlyForgets
  <2> SUFFICES ASSUME Typed, NEW subject \in Subjects, NEW k \in DefinedKeys,
                      NEW limit \in Shallower
               PROVE  Check(k, subject, limit) \in {Check(k, subject, MaxDepth), Unknown}
    BY DEF DepthOnlyForgets
  <2>1. limit \in Nat /\ MaxDepth \in Nat /\ limit <= MaxDepth
    BY DepthAssumption
  <2>2. /\ FirstCall(k, subject, limit) \in Call /\ FirstCall(k, subject, MaxDepth) \in Call
        /\ Check(k, subject, limit) = Answers[FirstCall(k, subject, limit)]
        /\ Check(k, subject, MaxDepth) = Answers[FirstCall(k, subject, MaxDepth)]
    BY <2>1, CheckIsFirstCall DEF Typed
  <2>3. Twin(FirstCall(k, subject, limit), FirstCall(k, subject, MaxDepth))
    BY <2>1 DEF Twin, FirstCall
  <2> QED
    BY <2>2, <2>3, TwinsAnswer DEF Leq
<1>2. Spec => []Typed
  BY InitTyped, TypedStep, PTL DEF Spec
<1> QED
  BY <1>1, <1>2, PTL

------------------------------------------------------------------------------
\* What a schema grants

LEMMA AnswerKinds ==
  ASSUME Typed, NEW c \in Call
  PROVE  Answers[c] \in {Allow, Deny, Unknown}
<1> DEFINE bad == {x \in Call : Answers[x] \notin {Allow, Deny, Unknown}}
<1> SUFFICES ASSUME bad # {} PROVE FALSE
  OBVIOUS
<1>1. PICK x \in bad : \A e \in bad : ~Below(e, x)
  BY Deepest
<1>2. PICK r : r = x.rule /\ r \in Rule
  BY DEF Call
<1>3. Answers[x] = EvaluateRule(Answers, r, x.key, x.ask)
  BY <1>2, Evaluated
<1>4. \A results : Some(results) \in {Allow, Deny, Unknown} /\ Every(results) \in {Allow, Deny, Unknown}
  BY DEF Some, Every
<1>5. CASE r.kind \in {"this", "arrow", "union", "intersection"}
  BY <1>3, <1>4, <1>5 DEF EvaluateRule, CheckDirect, CheckArrow
<1>6. CASE r.kind = "computed"
  <2>1. PICK key : key = [x.key EXCEPT !.relation = r.relation]
    OBVIOUS
  <2>2. key \in Key
    BY <1>2, <1>6, <2>1, RuleKinds DEF Call, Key
  <2>3. Answers[x] = CheckRecursive(Answers, key, Deeper(x.ask))
    BY <1>3, <1>6, <2>1 DEF EvaluateRule
  <2>4. Answers[x] = Unknown \/ (KeyCall(x, key) \in Call /\ Below(KeyCall(x, key), x)
                                 /\ Answers[x] = Answers[KeyCall(x, key)])
    BY <2>2, <2>3, KeyBelow DEF Typed
  <2> QED
    BY <1>1, <2>4
<1>7. CASE r.kind = "exclusion"
  <2>1. PartCall(x, r.base) \in Call /\ Below(PartCall(x, r.base), x)
    BY <1>2, <1>7, RuleKinds, PartBelow
  <2>2. Answers[PartCall(x, r.base)] \in {Allow, Deny, Unknown}
    BY <1>1, <2>1
  <2>3. Answers[x] = ButNot(Answers[PartCall(x, r.base)], Answers[PartCall(x, r.subtract)])
    BY <1>3, <1>7 DEF EvaluateRule, PartCall
  <2> QED
    BY <2>2, <2>3 DEF ButNot
<1> QED
  BY <1>2, <1>5, <1>6, <1>7, RuleKinds

LEMMA ReachedTyped == Typed => Reached \in SUBSET [type : Namespace, id : Id]
BY InputAssumption DEF Typed, Reached, RelationTuple

\* A rule of a node, and all that it rests on.
LEMMA NodeKinds ==
  ASSUME Typed, NEW n \in Nodes
  PROVE  /\ n = <<n[1], n[2]>> /\ n[1] \in Rule /\ n[2] \in Key
         /\ n[2] \in DefinedOn(Reached) /\ n[1] \in RulesOf(NodeAt(n[2])[1])
         /\ \A part \in Parts(n[1]) : <<part, n[2]>> \in Nodes
<1>1. PICK key \in DefinedOn(Reached) : n \in RulesOf(NodeAt(key)[1]) \X {key}
  BY DEF Nodes
<1>2. key \in Key /\ Defines(model, key.object_type, key.relation)
  BY ReachedTyped, DefinedAreKeys DEF Typed
<1>3. NodeAt(key)[1] \in Rule
  BY <1>2 DEF NodeAt, Defines, Typed, IsSchema, Definition
<1>4. /\ RulesOf(NodeAt(key)[1]) \subseteq Rule
      /\ \A r \in RulesOf(NodeAt(key)[1]) : Parts(r) \subseteq RulesOf(NodeAt(key)[1])
  BY <1>3, NestedParts
<1>5. ASSUME NEW part \in Parts(n[1])
      PROVE  <<part, key>> \in Nodes
  BY <1>1, <1>4 DEF Nodes
<1> QED
  BY <1>1, <1>2, <1>4, <1>5

LEMMA NodeOfKey ==
  ASSUME Typed, NEW key \in DefinedOn(Reached)
  PROVE  NodeAt(key) \in Nodes
<1>1. Defines(model, key.object_type, key.relation)
  BY ReachedTyped, DefinedAreKeys DEF Typed
<1>2. NodeAt(key)[1] \in Rule /\ NodeAt(key) = <<NodeAt(key)[1], key>>
  BY <1>1 DEF NodeAt, Defines, Typed, IsSchema, Definition
<1>3. NodeAt(key)[1] \in RulesOf(NodeAt(key)[1])
  BY <1>2, NestedParts
<1> QED
  BY <1>2, <1>3 DEF Nodes

\* A key that a check comes to: if it is defined, it has a node.
Near(key) ==
  /\ key \in Key
  /\ Defines(model, key.object_type, key.relation) => NodeAt(key) \in Nodes

LEMMA EdgesNear ==
  ASSUME Typed, NEW key, NEW edge, NEW t \in TuplesAt(key, edge)
  PROVE  /\ t.subject_relation # Direct =>
              Near(KeyOf(t.subject_type, t.subject_id, t.subject_relation))
         /\ \A name \in Name : Near(KeyOf(t.subject_type, t.subject_id, name))
<1>1. t \in tuples /\ t \in RelationTuple
  BY InputAssumption DEF TuplesAt, Typed
<1>2. ASSUME NEW name \in Name
      PROVE  Near(KeyOf(t.subject_type, t.subject_id, name))
  <2>1. PICK o : o = [type |-> t.subject_type, id |-> t.subject_id]
    OBVIOUS
  <2>2. o \in Reached /\ o.type = t.subject_type /\ o.id = t.subject_id
    BY <1>1, <2>1 DEF Reached
  <2>3. PICK k : k = KeyOf(t.subject_type, t.subject_id, name)
    OBVIOUS
  <2>4. k \in Key /\ k.object_type = t.subject_type /\ k.relation = name
    BY <1>1, <2>3 DEF RelationTuple, Key, KeyOf
  <2>5. ASSUME Defines(model, k.object_type, k.relation)
        PROVE  k \in DefinedOn(Reached)
    BY <2>2, <2>3, <2>4, <2>5 DEF DefinedOn, Defines
  <2> QED
    BY <2>3, <2>4, <2>5, NodeOfKey DEF Near
<1>3. t.subject_relation \in Name \cup {Direct}
  BY <1>1 DEF RelationTuple
<1> QED
  BY <1>2, <1>3

LEMMA ComputedNear ==
  ASSUME Typed, NEW key \in DefinedOn(Reached), NEW name \in Name
  PROVE  Near([key EXCEPT !.relation = name])
<1>1. PICK o \in Reached : o.type \in DOMAIN model /\ \E n : key = KeyOf(o.type, o.id, n)
  BY DEF DefinedOn
<1>2. key \in Key
  BY ReachedTyped, DefinedAreKeys DEF Typed
<1>3. PICK k : k = [key EXCEPT !.relation = name]
  OBVIOUS
<1>4. k = KeyOf(o.type, o.id, name) /\ k \in Key /\ k.object_type = o.type /\ k.relation = name
  BY <1>1, <1>2, <1>3 DEF KeyOf, Key
<1>5. ASSUME Defines(model, k.object_type, k.relation)
      PROVE  k \in DefinedOn(Reached)
  BY <1>1, <1>4, <1>5 DEF DefinedOn, Defines
<1> QED
  BY <1>3, <1>4, <1>5, NodeOfKey DEF Near

\* What holds is settled as soon as `must` says so of what it rests on, and
\* nothing may hold that `may` does not account for.
Closed(subject, must, may) ==
  /\ Granted(subject, must, may) \subseteq must
  /\ may \subseteq Granted(subject, may, must)

ClosedPairs(subject) ==
  {p \in (SUBSET Nodes) \X (SUBSET Nodes) : Closed(subject, p[1], p[2])}

\* What holds, and what may hold: the least of the closed pairs.
Must(subject) == {n \in Nodes : \A p \in ClosedPairs(subject) : n \in p[1]}
May(subject) == {n \in Nodes : \E p \in ClosedPairs(subject) : n \in p[2]}

\* Whatever is asked of whom at whatever limit, a check allows what the schema
\* grants, and denies what it cannot.
ChecksSound ==
  \A subject \in Subjects, key \in DefinedKeys, limit \in Nat :
    /\ Check(key, subject, limit) = Allow => NodeAt(key) \in Must(subject)
    /\ Check(key, subject, limit) = Deny => NodeAt(key) \notin May(subject)

LEMMA GrantsMonotone ==
  ASSUME NEW rule \in Rule, NEW key, NEW subject, NEW must, NEW may, NEW more, NEW less,
         must \subseteq more, less \subseteq may, Grants(rule, key, subject, must, may)
  PROVE  Grants(rule, key, subject, more, less)
<1>1. CASE rule.kind = "this"
  BY <1>1 DEF Grants
<1>2. CASE rule.kind = "computed"
  BY <1>2 DEF Grants
<1>3. CASE rule.kind = "arrow"
  BY <1>3 DEF Grants
<1>4. CASE rule.kind = "union"
  BY <1>4 DEF Grants
<1>5. CASE rule.kind = "intersection"
  BY <1>5 DEF Grants
<1>6. CASE rule.kind = "exclusion"
  BY <1>6 DEF Grants
<1> QED
  BY <1>1, <1>2, <1>3, <1>4, <1>5, <1>6, RuleKinds

LEMMA GrantedMonotone ==
  ASSUME Typed, NEW subject, NEW must, NEW may, NEW more, NEW less,
         must \subseteq more, less \subseteq may
  PROVE  Granted(subject, must, may) \subseteq Granted(subject, more, less)
<1>1. ASSUME NEW n \in Nodes, Grants(n[1], n[2], subject, must, may)
      PROVE  Grants(n[1], n[2], subject, more, less)
  BY <1>1, NodeKinds, GrantsMonotone
<1> QED
  BY <1>1 DEF Granted

\* The least is one of them.
LEMMA LeastIsClosed ==
  ASSUME Typed, NEW subject
  PROVE  Closed(subject, Must(subject), May(subject))
<1>1. ASSUME NEW p \in ClosedPairs(subject)
      PROVE  /\ Must(subject) \subseteq p[1] /\ p[2] \subseteq May(subject)
             /\ Granted(subject, Must(subject), May(subject)) \subseteq p[1]
             /\ p[2] \subseteq Granted(subject, May(subject), Must(subject))
  <2>1. Must(subject) \subseteq p[1] /\ p[2] \subseteq May(subject)
    BY DEF Must, May, ClosedPairs
  <2>2. Closed(subject, p[1], p[2])
    BY DEF ClosedPairs
  <2>3. /\ Granted(subject, Must(subject), May(subject)) \subseteq Granted(subject, p[1], p[2])
        /\ Granted(subject, p[2], p[1]) \subseteq Granted(subject, May(subject), Must(subject))
    BY <2>1, GrantedMonotone
  <2> QED
    BY <2>1, <2>2, <2>3 DEF Closed
<1>2. Granted(subject, Must(subject), May(subject)) \subseteq Nodes
  BY DEF Granted
<1>3. Granted(subject, Must(subject), May(subject)) \subseteq Must(subject)
  BY <1>1, <1>2 DEF Must
<1>4. May(subject) \subseteq Granted(subject, May(subject), Must(subject))
  BY <1>1 DEF May
<1> QED
  BY <1>3, <1>4 DEF Closed

\* What a call says of its node, given a closed pair.
Sound(c, must, may) ==
  /\ Answers[c] = Allow => <<c.rule, c.key>> \in must
  /\ Answers[c] = Deny => <<c.rule, c.key>> \notin may

LEMMA AnswersAreSound ==
  ASSUME Typed, NEW c \in Call, <<c.rule, c.key>> \in Nodes, NEW must, NEW may,
         Closed(c.ask.subject, must, may)
  PROVE  Sound(c, must, may)
<1> DEFINE subject == c.ask.subject
           bad == {x \in Call : /\ x.ask.subject = subject /\ <<x.rule, x.key>> \in Nodes
                             /\ ~Sound(x, must, may)}
<1> SUFFICES ASSUME bad # {} PROVE FALSE
  OBVIOUS
<1>1. PICK x \in bad : \A e \in bad : ~Below(e, x)
  BY Deepest
<1>2. PICK r : r = x.rule /\ r \in Rule
  BY DEF Call
<1>3. PICK k : k = x.key /\ k \in Key
  BY DEF Call
<1>4. <<r, k>> \in Nodes
  BY <1>2, <1>3
<1>5. Answers[x] = EvaluateRule(Answers, r, k, x.ask)
  BY <1>2, <1>3, Evaluated
<1>6. Allow # Unknown /\ Deny # Unknown /\ Allow # Deny
  BY DEF Allow, Deny, Unknown
<1>7. ASSUME NEW d \in Call, Below(d, x), d.ask.subject = subject, <<d.rule, d.key>> \in Nodes
      PROVE  Sound(d, must, may)
  BY <1>1, <1>7
<1>8. ASSUME NEW key, Near(key)
      PROVE  /\ CheckRecursive(Answers, key, Deeper(x.ask)) = Allow => NodeAt(key) \in must
             /\ CheckRecursive(Answers, key, Deeper(x.ask)) = Deny => NodeAt(key) \notin may
             /\ CheckRecursive(Answers, key, Deeper(x.ask)) \in {Allow, Deny, Unknown}
  <2>1. CASE CutOff(x, key)
    BY <1>6, <1>8, <2>1, KeyBelow DEF Typed, Near
  <2>2. CASE ~CutOff(x, key)
    <3>1. PICK d : d = KeyCall(x, key)
      OBVIOUS
    <3>2. d \in Call /\ Below(d, x) /\ CheckRecursive(Answers, key, Deeper(x.ask)) = Answers[d]
      BY <1>8, <2>2, <3>1, KeyBelow DEF Typed, Near
    <3>3. d.ask.subject = subject
      BY <1>8, <3>1, CallFields DEF Near
    <3>4. <<d.rule, d.key>> = NodeAt(key) /\ NodeAt(key) \in Nodes
      BY <1>8, <2>2, <3>1 DEF KeyCall, NodeAt, Near, CutOff
    <3> QED
      BY <1>7, <3>2, <3>3, <3>4, AnswerKinds DEF Sound
  <2> QED
    BY <2>1, <2>2
<1>9. ASSUME NEW p \in Parts(r)
      PROVE  /\ Answers[PartCall(x, p)] = Allow => <<p, k>> \in must
             /\ Answers[PartCall(x, p)] = Deny => <<p, k>> \notin may
             /\ Answers[PartCall(x, p)] \in {Allow, Deny, Unknown}
  <2>1. PICK d : d = PartCall(x, p)
    OBVIOUS
  <2>2. d \in Call /\ Below(d, x)
    BY <1>2, <2>1, PartBelow
  <2>3. d.ask.subject = subject /\ <<d.rule, d.key>> = <<p, k>> /\ <<p, k>> \in Nodes
    BY <1>3, <1>4, <2>1, CallFields, NodeKinds DEF PartCall
  <2> QED
    BY <1>7, <2>1, <2>2, <2>3, AnswerKinds DEF Sound
<1>10. \A results \in SUBSET {Allow, Deny, Unknown} :
        /\ Some(results) = Allow => Allow \in results
        /\ Some(results) = Deny => \A v \in results : v = Deny
        /\ Every(results) = Allow => \A v \in results : v = Allow
        /\ Every(results) = Deny => Deny \in results
  BY <1>6 DEF Some, Every
<1> DEFINE Answer(v) == /\ v = Allow => Grants(r, k, subject, must, may)
                        /\ v = Deny => ~Grants(r, k, subject, may, must)
<1>11. ASSUME r.kind = "this" PROVE Answer(Answers[x])
  <2> DEFINE Found(t) ==
               IF t.subject_relation # Direct
               THEN CheckRecursive(Answers,
                      KeyOf(t.subject_type, t.subject_id, t.subject_relation), Deeper(x.ask))
               ELSE IF SubjectMatches(t, x.ask.subject) THEN Allow ELSE Deny
             Holds(t, nodes) ==
               IF t.subject_relation = Direct THEN SubjectMatches(t, subject)
               ELSE NodeAt(KeyOf(t.subject_type, t.subject_id, t.subject_relation)) \in nodes
             stored == {y \in TuplesAt(k, k.relation) : AllowsStored(model, y)}
  <2>1. Answers[x] = Some({Found(t) : t \in stored})
    BY <1>5, <1>11 DEF EvaluateRule, CheckDirect
  <2>2. ASSUME NEW t \in stored
        PROVE  /\ Found(t) = Allow => Holds(t, must)
               /\ Found(t) = Deny => ~Holds(t, may)
               /\ Found(t) \in {Allow, Deny, Unknown}
    <3>1. CASE t.subject_relation # Direct
      <4>1. Near(KeyOf(t.subject_type, t.subject_id, t.subject_relation))
        BY <3>1, EdgesNear
      <4> QED
        BY <1>8, <3>1, <4>1
    <3>2. CASE t.subject_relation = Direct
      BY <1>1, <1>6, <3>2
    <3> QED
      BY <3>1, <3>2
  <2>3. \A nodes, others :
          Grants(r, k, subject, nodes, others) <=> \E t \in stored : Holds(t, nodes)
    BY <1>11 DEF Grants
  <2> HIDE DEF Found, Holds, stored
  <2>4. {Found(t) : t \in stored} \in SUBSET {Allow, Deny, Unknown}
    BY <2>2
  <2> QED
    BY <1>10, <2>1, <2>2, <2>3, <2>4
<1>12. ASSUME r.kind = "computed" PROVE Answer(Answers[x])
  <2>1. PICK key : key = [k EXCEPT !.relation = r.relation]
    OBVIOUS
  <2>2. Near(key)
    BY <1>2, <1>4, <1>12, <2>1, RuleKinds, NodeKinds, ComputedNear
  <2>3. Answers[x] = CheckRecursive(Answers, key, Deeper(x.ask))
    BY <1>5, <1>12, <2>1 DEF EvaluateRule
  <2>4. \A nodes, others : Grants(r, k, subject, nodes, others) <=> NodeAt(key) \in nodes
    BY <1>12, <2>1 DEF Grants
  <2> QED
    BY <1>8, <2>2, <2>3, <2>4
<1>13. ASSUME r.kind = "arrow" PROVE Answer(Answers[x])
  <2> DEFINE Found(t) ==
               CheckRecursive(Answers,
                 KeyOf(t.subject_type, t.subject_id, r.computed_relation), Deeper(x.ask))
             Holds(t, nodes) ==
               NodeAt(KeyOf(t.subject_type, t.subject_id, r.computed_relation)) \in nodes
             followed == Followed(k, r.tuple_relation)
  <2>1. Answers[x] = Some({Found(t) : t \in followed})
    BY <1>5, <1>13 DEF EvaluateRule, CheckArrow
  <2>2. ASSUME NEW t \in followed
        PROVE  /\ Found(t) = Allow => Holds(t, must)
               /\ Found(t) = Deny => ~Holds(t, may)
               /\ Found(t) \in {Allow, Deny, Unknown}
    <3>1. r.computed_relation \in Name
      BY <1>2, <1>13, RuleKinds
    <3>2. t \in TuplesAt(k, r.tuple_relation)
      BY DEF Followed
    <3>3. Near(KeyOf(t.subject_type, t.subject_id, r.computed_relation))
      BY <3>1, <3>2, EdgesNear
    <3> QED
      BY <1>8, <3>3
  <2>3. \A nodes, others :
          Grants(r, k, subject, nodes, others) <=> \E t \in followed : Holds(t, nodes)
    BY <1>13 DEF Grants, Followed
  <2> HIDE DEF Found, Holds, followed
  <2>4. {Found(t) : t \in followed} \in SUBSET {Allow, Deny, Unknown}
    BY <2>2
  <2> QED
    BY <1>10, <2>1, <2>2, <2>3, <2>4
<1>14. ASSUME r.kind = "union" PROVE Answer(Answers[x])
  <2> DEFINE Found(p) == Answers[PartCall(x, p)]
             Holds(p, nodes) == <<p, k>> \in nodes
             parts == r.children
  <2>1. Answers[x] = Some({Found(p) : p \in parts})
    BY <1>3, <1>5, <1>14 DEF EvaluateRule, PartCall
  <2>2. Parts(r) = r.children
    BY <1>2, <1>14, RuleKinds
  <2>3. ASSUME NEW p \in parts
        PROVE  /\ Found(p) = Allow => Holds(p, must)
               /\ Found(p) = Deny => ~Holds(p, may)
               /\ Found(p) \in {Allow, Deny, Unknown}
    BY <1>9, <2>2
  <2>4. \A nodes, others :
          Grants(r, k, subject, nodes, others) <=> \E p \in parts : Holds(p, nodes)
    BY <1>14 DEF Grants
  <2> HIDE DEF Found, Holds, parts
  <2>5. {Found(p) : p \in parts} \in SUBSET {Allow, Deny, Unknown}
    BY <2>3
  <2> QED
    BY <1>10, <2>1, <2>3, <2>4, <2>5
<1>15. ASSUME r.kind = "intersection" PROVE Answer(Answers[x])
  <2> DEFINE Found(p) == Answers[PartCall(x, p)]
             Holds(p, nodes) == <<p, k>> \in nodes
             parts == r.children
  <2>1. Answers[x] = Every({Found(p) : p \in parts})
    BY <1>3, <1>5, <1>15 DEF EvaluateRule, PartCall
  <2>2. Parts(r) = r.children
    BY <1>2, <1>15, RuleKinds
  <2>3. ASSUME NEW p \in parts
        PROVE  /\ Found(p) = Allow => Holds(p, must)
               /\ Found(p) = Deny => ~Holds(p, may)
               /\ Found(p) \in {Allow, Deny, Unknown}
    BY <1>9, <2>2
  <2>4. \A nodes, others :
          Grants(r, k, subject, nodes, others) <=> \A p \in parts : Holds(p, nodes)
    BY <1>15 DEF Grants
  <2> HIDE DEF Found, Holds, parts
  <2>5. {Found(p) : p \in parts} \in SUBSET {Allow, Deny, Unknown}
    BY <2>3
  <2> QED
    BY <1>10, <2>1, <2>3, <2>4, <2>5
<1>16. ASSUME r.kind = "exclusion" PROVE Answer(Answers[x])
  <2>1. Answers[x] = ButNot(Answers[PartCall(x, r.base)], Answers[PartCall(x, r.subtract)])
    BY <1>3, <1>5, <1>16 DEF EvaluateRule, PartCall
  <2>2. r.base \in Parts(r) /\ r.subtract \in Parts(r)
    BY <1>2, <1>16, RuleKinds
  <2>3. \A nodes, others : Grants(r, k, subject, nodes, others) <=>
          <<r.base, k>> \in nodes /\ (<<r.base, k>> \in others => <<r.subtract, k>> \notin others)
    BY <1>16 DEF Grants
  <2> DEFINE base == Answers[PartCall(x, r.base)]
             subtract == Answers[PartCall(x, r.subtract)]
  <2>4. /\ base = Allow => <<r.base, k>> \in must
        /\ base = Deny => <<r.base, k>> \notin may
        /\ subtract = Allow => <<r.subtract, k>> \in must
        /\ subtract = Deny => <<r.subtract, k>> \notin may
    BY <1>9, <2>2
  <2>5. /\ ButNot(base, subtract) = Allow => base = Allow /\ subtract = Deny
        /\ ButNot(base, subtract) = Deny => base = Deny \/ (base = Allow /\ subtract = Allow)
    BY <1>6 DEF ButNot
  <2> HIDE DEF base, subtract
  <2>6. Answers[x] = ButNot(base, subtract)
    BY <2>1 DEF base, subtract
  <2> QED
    BY <2>3, <2>4, <2>5, <2>6
<1>17. Answer(Answers[x])
  BY <1>2, <1>11, <1>12, <1>13, <1>14, <1>15, <1>16, RuleKinds
<1>18. /\ Grants(r, k, subject, must, may) => <<r, k>> \in must
       /\ <<r, k>> \in may => Grants(r, k, subject, may, must)
  BY <1>4 DEF Closed, Granted
<1>19. Sound(x, must, may)
  BY <1>2, <1>3, <1>17, <1>18 DEF Sound
<1> QED
  BY <1>19

\* A check allows what the schema grants and denies what it cannot grant, for
\* any schema, tuples, nesting of exclusions and depth limit: neither cycle
\* detection on the path nor the limit invents an answer (_check_recursive and
\* _evaluate_rule).
THEOREM ChecksAreSound == Spec => []ChecksSound
<1>1. Typed => ChecksSound
  <2> SUFFICES ASSUME Typed, NEW subject \in Subjects, NEW key \in DefinedKeys, NEW limit \in Nat
               PROVE  /\ Check(key, subject, limit) = Allow => NodeAt(key) \in Must(subject)
                      /\ Check(key, subject, limit) = Deny => NodeAt(key) \notin May(subject)
    BY DEF ChecksSound
  <2>1. PICK c : c = FirstCall(key, subject, limit)
    OBVIOUS
  <2>2. key \in Key /\ c \in Call /\ Check(key, subject, limit) = Answers[c]
    BY <2>1, CheckIsFirstCall DEF Typed
  <2>3. <<c.rule, c.key>> = NodeAt(key) /\ c.ask.subject = subject
    BY <2>1 DEF FirstCall, NodeAt
  <2>4. NodeAt(key) \in Nodes
    BY NodeOfKey DEF DefinedKeys, DefinedOn, Reached
  <2>5. ASSUME NEW p \in ClosedPairs(subject)
        PROVE  /\ Answers[c] = Allow => NodeAt(key) \in p[1]
               /\ Answers[c] = Deny => NodeAt(key) \notin p[2]
    BY <2>2, <2>3, <2>4, AnswersAreSound DEF Sound, ClosedPairs
  <2> QED
    BY <2>2, <2>4, <2>5 DEF Must, May
<1>2. Spec => []Typed
  BY InitTyped, TypedStep, PTL DEF Spec
<1> QED
  BY <1>1, <1>2, PTL

------------------------------------------------------------------------------
\* What is settled step by step

LEMMA Least ==
  ASSUME NEW S \in SUBSET Nat, S # {}
  PROVE  \E k \in S : \A j \in S : k <= j
<1> DEFINE less == OpToRel(<, Nat)
<1>1. IsWellFoundedOn(less, Nat)
  BY NatLessThanWellFounded
<1> HIDE DEF less
<1>2. PICK k \in S : \A j \in S : ~(<<j, k>> \in less)
  BY <1>1, WFMin
<1>3. \A j \in S : ~(j < k)
  BY <1>2 DEF less, OpToRel
<1> QED
  BY <1>3

Start == [must |-> {}, may |-> Nodes]

\* The first stages, up to n.
Run(g, subject, n) ==
  /\ g = [i \in 0..n |-> g[i]]
  /\ g[0] = Start
  /\ \A i \in 1..n : g[i] = Settle(subject, g[i - 1])

LEMMA RunsAgree ==
  ASSUME NEW subject, NEW m \in Nat, NEW n \in Nat, NEW g, NEW h,
         Run(g, subject, m), Run(h, subject, n), NEW i \in Nat, i <= m, i <= n
  PROVE  g[i] = h[i]
<1> DEFINE bad == {j \in Nat : j <= m /\ j <= n /\ g[j] # h[j]}
<1> SUFFICES ASSUME bad # {} PROVE FALSE
  OBVIOUS
<1>1. PICK k \in bad : \A j \in bad : k <= j
  <2> HIDE DEF bad
  <2>1. bad \subseteq Nat
    BY DEF bad
  <2> QED
    BY <2>1, Least
<1>2. k # 0
  BY <1>1 DEF Run
<1>3. k - 1 \in Nat /\ k - 1 <= m /\ k - 1 <= n /\ ~(k <= k - 1)
  BY <1>1, <1>2
<1>4. g[k - 1] = h[k - 1]
  BY <1>1, <1>3
<1>5. k \in 1..m /\ k \in 1..n
  BY <1>1, <1>2
<1> QED
  BY <1>1, <1>4, <1>5 DEF Run

LEMMA RunExists ==
  ASSUME NEW subject, NEW n \in Nat
  PROVE  \E g : Run(g, subject, n)
<1> DEFINE bad == {j \in Nat : ~\E g : Run(g, subject, j)}
<1> SUFFICES ASSUME bad # {} PROVE FALSE
  OBVIOUS
<1>1. PICK k \in bad : \A j \in bad : k <= j
  <2> HIDE DEF bad
  <2>1. bad \subseteq Nat
    BY DEF bad
  <2> QED
    BY <2>1, Least
<1>2. CASE k = 0
  <2>1. PICK g : g = [i \in 0..0 |-> Start]
    OBVIOUS
  <2>2. Run(g, subject, 0)
    BY <2>1 DEF Run
  <2> QED
    BY <1>1, <1>2, <2>2
<1>3. CASE k # 0
  <2>1. k - 1 \in Nat /\ ~(k <= k - 1)
    BY <1>3
  <2>2. PICK f : Run(f, subject, k - 1)
    BY <1>1, <2>1
  <2>3. PICK last : last = Settle(subject, f[k - 1])
    OBVIOUS
  <2>4. PICK g : g = [i \in 0..k |-> IF i = k THEN last ELSE f[i]]
    OBVIOUS
  <2>5. \A i \in 0..(k - 1) : g[i] = f[i]
    BY <2>1, <2>4
  <2>6. g[k] = Settle(subject, g[k - 1])
    BY <2>1, <2>3, <2>4, <2>5
  <2>7. g[0] = Start
    BY <2>1, <2>2, <2>5 DEF Run
  <2>8. ASSUME NEW i \in 1..k
        PROVE  g[i] = Settle(subject, g[i - 1])
    <3>1. CASE i = k
      BY <2>6, <3>1
    <3>2. CASE i # k
      <4>1. i \in 1..(k - 1) /\ i \in 0..(k - 1) /\ i - 1 \in 0..(k - 1)
        BY <2>1, <3>2
      <4> QED
        BY <2>2, <2>5, <4>1 DEF Run
    <3> QED
      BY <3>1, <3>2
  <2>9. g = [i \in 0..k |-> g[i]]
    BY <2>4
  <2>10. Run(g, subject, k)
    BY <2>7, <2>8, <2>9 DEF Run
  <2> QED
    BY <1>1, <2>10
<1> QED
  BY <1>2, <1>3

RunAt(subject, n) == CHOOSE v : \E g : Run(g, subject, n) /\ v = g[n]

LEMMA RunAtFollows ==
  ASSUME NEW subject
  PROVE  /\ RunAt(subject, 0) = Start
         /\ \A n \in Nat : RunAt(subject, n + 1) = Settle(subject, RunAt(subject, n))
<1>1. ASSUME NEW n \in Nat
      PROVE  \E g : Run(g, subject, n) /\ RunAt(subject, n) = g[n]
  <2>1. \E v : \E g : Run(g, subject, n) /\ v = g[n]
    BY RunExists
  <2> QED
    BY <2>1 DEF RunAt
<1>2. RunAt(subject, 0) = Start
  BY <1>1 DEF Run
<1>3. ASSUME NEW n \in Nat
      PROVE  RunAt(subject, n + 1) = Settle(subject, RunAt(subject, n))
  <2>1. PICK g : Run(g, subject, n) /\ RunAt(subject, n) = g[n]
    BY <1>1
  <2>2. PICK h : Run(h, subject, n + 1) /\ RunAt(subject, n + 1) = h[n + 1]
    BY <1>1
  <2>3. /\ n + 1 \in Nat /\ n <= n /\ n <= n + 1 /\ n + 1 - 1 = n
        /\ n + 1 \in 1..(n + 1)
    OBVIOUS
  <2>4. g[n] = h[n]
    BY <2>1, <2>2, <2>3, RunsAgree
  <2>5. h[n + 1] = Settle(subject, h[n + 1 - 1])
    BY <2>2, <2>3 DEF Run
  <2> QED
    BY <2>1, <2>2, <2>3, <2>4, <2>5
<1> QED
  BY <1>2, <1>3

LEMMA StagesFollow ==
  ASSUME NEW subject
  PROVE  /\ Stages(subject)[0] = Start
         /\ \A n \in Nat : Stages(subject)[n + 1] = Settle(subject, Stages(subject)[n])
<1> DEFINE Solution(f) ==
             f = [i \in Nat |-> IF i = 0 THEN [must |-> {}, may |-> Nodes]
                                ELSE Settle(subject, f[i - 1])]
<1>1. PICK f : f = [i \in Nat |-> RunAt(subject, i)]
  OBVIOUS
<1>2. ASSUME NEW i \in Nat
      PROVE  f[i] = IF i = 0 THEN [must |-> {}, may |-> Nodes] ELSE Settle(subject, f[i - 1])
  <2>1. CASE i = 0
    BY <1>1, <2>1, RunAtFollows DEF Start
  <2>2. CASE i # 0
    <3>1. i - 1 \in Nat /\ i = (i - 1) + 1
      BY <2>2
    <3> QED
      BY <1>1, <2>2, <3>1, RunAtFollows
  <2> QED
    BY <2>1, <2>2
<1>3. Solution(f)
  BY <1>1, <1>2
<1>4. Stages(subject) = CHOOSE g : Solution(g)
  BY DEF Stages
<1> HIDE DEF Solution
<1>5. Solution(Stages(subject))
  BY <1>3, <1>4
<1>6. PICK g : g = Stages(subject)
  OBVIOUS
<1>7. \A i \in Nat : g[i] = IF i = 0 THEN [must |-> {}, may |-> Nodes]
                            ELSE Settle(subject, g[i - 1])
  BY <1>5, <1>6 DEF Solution
<1>8. ASSUME NEW n \in Nat
      PROVE  g[n + 1] = Settle(subject, g[n])
  <2>1. n + 1 \in Nat /\ n + 1 # 0 /\ n + 1 - 1 = n
    OBVIOUS
  <2> QED
    BY <1>7, <2>1
<1> QED
  BY <1>6, <1>7, <1>8 DEF Start

MustAt(subject, i) == Stages(subject)[i].must
MayAt(subject, i) == Stages(subject)[i].may

LEMMA NextStage ==
  ASSUME NEW subject
  PROVE  /\ MustAt(subject, 0) = {} /\ MayAt(subject, 0) = Nodes
         /\ \A i \in Nat :
              /\ MustAt(subject, i + 1) = Granted(subject, MustAt(subject, i), MayAt(subject, i))
              /\ MayAt(subject, i + 1) = Granted(subject, MayAt(subject, i), MustAt(subject, i))
<1>1. MustAt(subject, 0) = {} /\ MayAt(subject, 0) = Nodes
  BY StagesFollow DEF MustAt, MayAt, Start
<1>2. ASSUME NEW i \in Nat
      PROVE  /\ MustAt(subject, i + 1) = Granted(subject, MustAt(subject, i), MayAt(subject, i))
             /\ MayAt(subject, i + 1) = Granted(subject, MayAt(subject, i), MustAt(subject, i))
  <2>1. Stages(subject)[i + 1] = Settle(subject, Stages(subject)[i])
    BY StagesFollow
  <2> QED
    BY <2>1 DEF MustAt, MayAt, Settle
<1> QED
  BY <1>1, <1>2

\* What holds at a stage may hold, and what is settled stays so at the next.
Rising(subject, i) ==
  /\ MustAt(subject, i) \subseteq MayAt(subject, i)
  /\ MustAt(subject, i) \subseteq MustAt(subject, i + 1)
  /\ MayAt(subject, i + 1) \subseteq MayAt(subject, i)

LEMMA StagesRise ==
  ASSUME Typed, NEW subject, NEW n \in Nat
  PROVE  Rising(subject, n)
<1> DEFINE bad == {j \in Nat : ~Rising(subject, j)}
<1> SUFFICES ASSUME bad # {} PROVE FALSE
  OBVIOUS
<1>1. PICK k \in bad : \A j \in bad : k <= j
  <2> HIDE DEF bad
  <2>1. bad \subseteq Nat
    BY DEF bad
  <2> QED
    BY <2>1, Least
<1>2. CASE k = 0
  <2>0. \A must, may : Granted(subject, must, may) \subseteq Nodes
    BY DEF Granted
  <2>1. MayAt(subject, k + 1) \subseteq Nodes
    BY <1>1, <2>0, NextStage
  <2>2. MustAt(subject, k) = {} /\ MayAt(subject, k) = Nodes
    BY <1>2, NextStage
  <2>3. Rising(subject, k)
    BY <2>1, <2>2 DEF Rising
  <2> QED
    BY <1>1, <2>3
<1>3. CASE k # 0
  <2>1. PICK i \in Nat : k = i + 1 /\ ~(k <= i)
    <3>1. k - 1 \in Nat /\ k = (k - 1) + 1 /\ ~(k <= k - 1)
      BY <1>3
    <3> QED
      BY <3>1
  <2>2. Rising(subject, i)
    BY <1>1, <2>1
  <2>3. /\ MustAt(subject, k) = Granted(subject, MustAt(subject, i), MayAt(subject, i))
        /\ MayAt(subject, k) = Granted(subject, MayAt(subject, i), MustAt(subject, i))
        /\ MustAt(subject, k + 1) = Granted(subject, MustAt(subject, k), MayAt(subject, k))
        /\ MayAt(subject, k + 1) = Granted(subject, MayAt(subject, k), MustAt(subject, k))
    BY <2>1, NextStage
  <2>4. MustAt(subject, i) \subseteq MustAt(subject, k) /\ MayAt(subject, k) \subseteq MayAt(subject, i)
        /\ MustAt(subject, i) \subseteq MayAt(subject, i)
    BY <2>1, <2>2 DEF Rising
  <2>5. MustAt(subject, k) \subseteq MayAt(subject, k)
    BY <2>3, <2>4, GrantedMonotone
  <2>6. MustAt(subject, k) \subseteq MustAt(subject, k + 1)
    BY <2>3, <2>4, GrantedMonotone
  <2>7. MayAt(subject, k + 1) \subseteq MayAt(subject, k)
    BY <2>3, <2>4, GrantedMonotone
  <2> QED
    BY <1>1, <2>5, <2>6, <2>7 DEF Rising
<1> QED
  BY <1>2, <1>3

LEMMA StagesKeep ==
  ASSUME Typed, NEW subject, NEW i \in Nat, NEW n \in Nat, i <= n
  PROVE  MustAt(subject, i) \subseteq MustAt(subject, n) /\ MayAt(subject, n) \subseteq MayAt(subject, i)
<1> DEFINE Keeps(j) == /\ MustAt(subject, i) \subseteq MustAt(subject, j)
                       /\ MayAt(subject, j) \subseteq MayAt(subject, i)
           bad == {j \in Nat : i <= j /\ ~Keeps(j)}
<1> SUFFICES ASSUME bad # {} PROVE FALSE
  OBVIOUS
<1>1. PICK k \in bad : \A j \in bad : k <= j
  <2> HIDE DEF bad
  <2>1. bad \subseteq Nat
    BY DEF bad
  <2> QED
    BY <2>1, Least
<1>2. k # i
  BY <1>1
<1>3. PICK j \in Nat : k = j + 1 /\ i <= j /\ ~(k <= j)
  <2>1. k - 1 \in Nat /\ k = (k - 1) + 1 /\ i <= k - 1 /\ ~(k <= k - 1)
    BY <1>1, <1>2
  <2> QED
    BY <2>1
<1>4. Keeps(j)
  BY <1>1, <1>3
<1>5. Rising(subject, j)
  BY StagesRise
<1> QED
  BY <1>1, <1>3, <1>4, <1>5 DEF Rising

\* Known at a stage to hold or to fail.
Decided(subject, n, i) == n \in MustAt(subject, i) \/ n \notin MayAt(subject, i)

LEMMA DecidedStays ==
  ASSUME Typed, NEW subject, NEW n, NEW i \in Nat, NEW j \in Nat, i <= j, Decided(subject, n, i)
  PROVE  Decided(subject, n, j)
BY StagesKeep DEF Decided

LEMMA FirstDecided ==
  ASSUME Typed, NEW subject, NEW n \in Nodes, NEW i \in Nat, Decided(subject, n, i)
  PROVE  \E j \in Nat :
           /\ j <= i /\ j # 0
           /\ ~Decided(subject, n, j - 1)
           /\ n \in MustAt(subject, i) => n \in MustAt(subject, j)
           /\ n \notin MayAt(subject, i) => n \notin MayAt(subject, j)
<1> DEFINE decided == {j \in Nat : Decided(subject, n, j)}
<1>1. PICK j \in decided : \A k \in decided : j <= k
  <2> HIDE DEF decided
  <2>1. decided \subseteq Nat /\ decided # {}
    BY DEF decided
  <2> QED
    BY <2>1, Least
<1>2. j \in Nat /\ j <= i
  BY <1>1
<1>3. j # 0
  BY <1>1, NextStage DEF Decided
<1>4. ~Decided(subject, n, j - 1)
  <2>1. j - 1 \in Nat /\ ~(j <= j - 1)
    BY <1>2, <1>3
  <2> QED
    BY <1>1, <2>1
<1>5. /\ MayAt(subject, i) \subseteq MayAt(subject, j) /\ MustAt(subject, j) \subseteq MustAt(subject, i)
      /\ MustAt(subject, i) \subseteq MayAt(subject, i)
  BY <1>2, StagesKeep, StagesRise DEF Rising
<1>6. Decided(subject, n, j)
  BY <1>1
<1> QED
  BY <1>2, <1>3, <1>4, <1>5, <1>6 DEF Decided

\* In a valid schema, what a node rests on is defined.
LEMMA RestsOnDefined ==
  ASSUME Typed, ValidSchema(model), NEW n \in Nodes
  PROVE  /\ n[1].kind = "computed" => Defines(model, n[2].object_type, n[1].relation)
         /\ \A t \in TuplesAt(n[2], n[2].relation) :
              AllowsStored(model, t) /\ t.subject_relation # Direct =>
                Defines(model, t.subject_type, t.subject_relation)
         /\ n[1].kind = "arrow" =>
              \A t \in TuplesAt(n[2], n[1].tuple_relation) :
                AllowsArrow(model, t) => Defines(model, t.subject_type, n[1].computed_relation)
<1>1. PICK rule, key : rule = n[1] /\ key = n[2]
  OBVIOUS
<1>2. /\ key \in Key /\ Defines(model, key.object_type, key.relation)
      /\ rule \in RulesOf(model[key.object_type][key.relation].rewrite)
  BY <1>1, NodeKinds, ReachedTyped, DefinedAreKeys DEF NodeAt, Typed
<1>3. ValidRewrite(model[key.object_type], key.relation)
  BY <1>2 DEF ValidSchema, Defines
<1>4. EdgesDefined
  BY ValidEdges
<1>5. ASSUME rule.kind = "computed"
      PROVE  Defines(model, key.object_type, rule.relation)
  BY <1>2, <1>3, <1>5 DEF ValidRewrite, Defines
<1>6. ASSUME NEW t \in TuplesAt(key, key.relation), AllowsStored(model, t),
             t.subject_relation # Direct
      PROVE  Defines(model, t.subject_type, t.subject_relation)
  BY <1>4, <1>6 DEF EdgesDefined, TuplesAt
<1>7. ASSUME rule.kind = "arrow", NEW t \in TuplesAt(key, rule.tuple_relation),
             AllowsArrow(model, t)
      PROVE  Defines(model, t.subject_type, rule.computed_relation)
  <2>1. t \in tuples /\ t.object_type = key.object_type /\ t.relation = rule.tuple_relation
    BY <1>7 DEF TuplesAt
  <2>2. rule.tuple_relation \in DOMAIN model[key.object_type]
    BY <1>2, <1>3, <1>7 DEF ValidRewrite, IsRelation
  <2>3. Defines(model, t.object_type, t.relation)
    BY <1>2, <2>1, <2>2 DEF Defines
  <2> QED
    BY <1>2, <1>4, <1>7, <2>1, <2>3 DEF EdgesDefined, Defines
<1> QED
  BY <1>1, <1>5, <1>6, <1>7

\* None of the keys that are being evaluated is settled before stage i.
Open(c, i) == \A key \in c.ask.visited : ~Decided(c.ask.subject, NodeAt(key), i - 1)

Right(c, i) ==
  /\ <<c.rule, c.key>> \in MustAt(c.ask.subject, i) => Answers[c] = Allow
  /\ <<c.rule, c.key>> \notin MayAt(c.ask.subject, i) => Answers[c] = Deny

\* A call that may go i levels deeper.
Able(c, i) ==
  /\ c \in Call /\ <<c.rule, c.key>> \in Nodes
  /\ i # 0 /\ c.ask.depth + i <= c.ask.limit
  /\ Open(c, i)

LEMMA PartsAble ==
  ASSUME Typed, NEW c, NEW i \in Nat, Able(c, i), NEW part \in Parts(c.rule), i - 1 # 0
  PROVE  i - 1 \in Nat /\ Able(PartCall(c, part), i - 1)
<1>1. i - 1 \in Nat /\ i - 1 - 1 \in Nat /\ i - 1 - 1 <= i - 1
  BY DEF Able
<1>2. c \in Call /\ c.ask.depth \in Nat /\ c.ask.limit \in Nat
  BY DEF Able, Call
<1>3. PICK d : d = PartCall(c, part)
  OBVIOUS
<1>4. d \in Call /\ d.ask.depth = c.ask.depth + 1 /\ d.ask.limit = c.ask.limit
      /\ d.ask.subject = c.ask.subject
  BY <1>2, <1>3, PartBelow, CallFields DEF Below
<1>5. d.ask.visited = c.ask.visited
  <2>1. PICK a : a = c.ask /\ a \in [subject : [type : Namespace, id : Id], limit : Nat,
                                     depth : Nat, visited : SUBSET Key]
    BY <1>2 DEF Call
  <2>2. Deeper(a).visited = a.visited
    BY <2>1 DEF Deeper
  <2> QED
    BY <1>3, <2>1, <2>2 DEF PartCall
<1>6. <<d.rule, d.key>> \in Nodes
  <2>1. <<part, c.key>> \in Nodes
    BY NodeKinds DEF Able
  <2> QED
    BY <1>3, <2>1 DEF PartCall
<1>7. Open(d, i - 1)
  BY <1>1, <1>4, <1>5, DecidedStays DEF Open, Able
<1>8. d.ask.depth + (i - 1) <= d.ask.limit
  BY <1>2, <1>4 DEF Able
<1> QED
  BY <1>1, <1>3, <1>4, <1>6, <1>7, <1>8 DEF Able

LEMMA KeysAble ==
  ASSUME Typed, NEW c, NEW i \in Nat, Able(c, i), NEW key \in Key, NodeAt(key) \in Nodes,
         Defines(model, key.object_type, key.relation),
         Decided(c.ask.subject, NodeAt(key), i - 1),
         NEW j \in Nat, j <= i - 1, j # 0, ~Decided(c.ask.subject, NodeAt(key), j - 1)
  PROVE  ~CutOff(c, key) /\ Able(KeyCall(c, key), j)
<1>1. i - 1 \in Nat /\ j - 1 \in Nat /\ j - 1 <= i - 1
  OBVIOUS
<1>2. c \in Call /\ c.ask.depth \in Nat /\ c.ask.limit \in Nat
  BY DEF Able, Call
<1>3. key \notin c.ask.visited
  BY DEF Able, Open
<1>4. ~CutOff(c, key)
  BY <1>1, <1>2, <1>3 DEF CutOff, Able
<1>5. PICK d : d = KeyCall(c, key)
  OBVIOUS
<1>6. d \in Call /\ d.ask.depth = c.ask.depth + 1 /\ d.ask.limit = c.ask.limit
      /\ d.ask.subject = c.ask.subject
  BY <1>2, <1>4, <1>5, KeyBelow, CallFields DEF Below, Typed
<1>7. d.ask.visited = c.ask.visited \cup {key}
  <2>1. PICK a : a = c.ask /\ a \in [subject : [type : Namespace, id : Id], limit : Nat,
                                     depth : Nat, visited : SUBSET Key]
    BY <1>2 DEF Call
  <2>2. PICK b : b = Deeper(a)
    OBVIOUS
  <2>3. /\ b \in [subject : [type : Namespace, id : Id], limit : Nat, depth : Nat,
                  visited : SUBSET Key]
        /\ b.visited = a.visited
    BY <2>1, <2>2 DEF Deeper
  <2>4. PICK e : e = [b EXCEPT !.visited = @ \cup {key}]
    OBVIOUS
  <2>5. e.visited = a.visited \cup {key}
    BY <2>3, <2>4
  <2> QED
    BY <1>5, <2>1, <2>2, <2>4, <2>5 DEF KeyCall
<1>8. <<d.rule, d.key>> = NodeAt(key)
  BY <1>5 DEF KeyCall, NodeAt
<1>9. Open(d, j)
  <2>1. ASSUME NEW k \in c.ask.visited
        PROVE  ~Decided(c.ask.subject, NodeAt(k), j - 1)
    BY <1>1, DecidedStays DEF Able, Open
  <2> QED
    BY <1>6, <1>7, <2>1 DEF Open
<1>10. d.ask.depth + j <= d.ask.limit
  BY <1>2, <1>6 DEF Able
<1> QED
  BY <1>4, <1>5, <1>6, <1>8, <1>9, <1>10 DEF Able

\* What is settled in i steps is answered right by a call that may go as deep:
\* of the nodes it rests on, those that settle it are settled before it, and so
\* before all that is being evaluated.
LEMMA AnswersAreRight ==
  ASSUME Typed, ValidSchema(model), NEW i \in Nat, NEW c \in Call, Able(c, i)
  PROVE  Right(c, i)
<1> DEFINE bad == {j \in Nat : \E d \in Call : Able(d, j) /\ ~Right(d, j)}
<1> SUFFICES ASSUME bad # {} PROVE FALSE
  OBVIOUS
<1>1. PICK n \in bad : \A j \in bad : n <= j
  <2> HIDE DEF bad
  <2>1. bad \subseteq Nat
    BY DEF bad
  <2> QED
    BY <2>1, Least
<1>2. PICK x \in Call : Able(x, n) /\ ~Right(x, n)
  BY <1>1
<1>3. n \in Nat /\ n # 0 /\ n - 1 \in Nat /\ n = (n - 1) + 1 /\ <<x.rule, x.key>> \in Nodes
  BY <1>1, <1>2 DEF Able
<1>4. ASSUME NEW j \in Nat, j <= n - 1, NEW d, Able(d, j)
      PROVE  Right(d, j)
  <2>1. ~(n <= j)
    BY <1>1, <1>3, <1>4
  <2> QED
    BY <1>1, <1>4, <2>1 DEF Able
<1> HIDE DEF bad
<1>5. PICK r, k, subject : r = x.rule /\ k = x.key /\ subject = x.ask.subject
  OBVIOUS
<1>6. r \in Rule /\ k \in Key
  BY <1>2, <1>5 DEF Call
<1>7. Answers[x] = EvaluateRule(Answers, r, k, x.ask)
  BY <1>5, Evaluated
<1>8. PICK must, may : must = MustAt(subject, n - 1) /\ may = MayAt(subject, n - 1)
  OBVIOUS
<1>9. /\ MustAt(subject, n) = Granted(subject, must, may)
      /\ MayAt(subject, n) = Granted(subject, may, must)
  BY <1>3, <1>8, NextStage
<1>10. Allow # Unknown /\ Deny # Unknown /\ Allow # Deny
  BY DEF Allow, Deny, Unknown
<1>11. /\ \A results : Some(results) = Allow <=> Allow \in results
       /\ \A results : (\A v \in results : v = Deny) => Some(results) = Deny
       /\ \A results : (\A v \in results : v = Allow) => Every(results) = Allow
       /\ \A results : Deny \in results => Every(results) = Deny
  BY <1>10 DEF Some, Every
<1>12. ASSUME NEW key, Near(key), Defines(model, key.object_type, key.relation)
       PROVE  /\ NodeAt(key) \in must => CheckRecursive(Answers, key, Deeper(x.ask)) = Allow
              /\ NodeAt(key) \notin may => CheckRecursive(Answers, key, Deeper(x.ask)) = Deny
  <2> SUFFICES ASSUME Decided(subject, NodeAt(key), n - 1)
               PROVE  /\ NodeAt(key) \in must => CheckRecursive(Answers, key, Deeper(x.ask)) = Allow
                      /\ NodeAt(key) \notin may => CheckRecursive(Answers, key, Deeper(x.ask)) = Deny
    BY <1>8 DEF Decided
  <2>1. key \in Key /\ NodeAt(key) \in Nodes
    BY <1>12 DEF Near
  <2>2. PICK j \in Nat :
          /\ j <= n - 1 /\ j # 0
          /\ ~Decided(subject, NodeAt(key), j - 1)
          /\ NodeAt(key) \in must => NodeAt(key) \in MustAt(subject, j)
          /\ NodeAt(key) \notin may => NodeAt(key) \notin MayAt(subject, j)
    BY <1>3, <1>8, <2>1, FirstDecided
  <2>3. ~CutOff(x, key) /\ Able(KeyCall(x, key), j)
    BY <1>2, <1>3, <1>5, <1>12, <2>1, <2>2, KeysAble
  <2>4. PICK d : d = KeyCall(x, key)
    OBVIOUS
  <2>5. Right(d, j)
    BY <1>4, <2>2, <2>3, <2>4
  <2>6. d.ask.subject = subject
    BY <1>5, <2>1, <2>4, CallFields
  <2>7. <<d.rule, d.key>> = NodeAt(key)
    BY <2>4 DEF KeyCall, NodeAt
  <2>8. CheckRecursive(Answers, key, Deeper(x.ask)) = Answers[d]
    BY <2>1, <2>3, <2>4, KeyBelow DEF Typed
  <2> QED
    BY <2>2, <2>5, <2>6, <2>7, <2>8 DEF Right
<1>13. ASSUME NEW p \in Parts(r)
       PROVE  /\ <<p, k>> \in must => Answers[PartCall(x, p)] = Allow
              /\ <<p, k>> \notin may => Answers[PartCall(x, p)] = Deny
  <2>1. CASE n - 1 = 0
    <3>1. <<p, k>> \in Nodes
      BY <1>3, <1>5, NodeKinds
    <3> QED
      BY <1>8, <2>1, <3>1, NextStage
  <2>2. CASE n - 1 # 0
    <3>1. Able(PartCall(x, p), n - 1)
      BY <1>2, <1>3, <1>5, <2>2, PartsAble
    <3>2. PICK d : d = PartCall(x, p)
      OBVIOUS
    <3>3. Right(d, n - 1)
      BY <1>3, <1>4, <3>1, <3>2
    <3>4. d.ask.subject = subject /\ <<d.rule, d.key>> = <<p, k>>
      BY <1>5, <3>2, CallFields DEF PartCall
    <3> QED
      BY <1>8, <3>2, <3>3, <3>4 DEF Right
  <2> QED
    BY <2>1, <2>2
<1> DEFINE Answer(v) == /\ Grants(r, k, subject, must, may) => v = Allow
                        /\ ~Grants(r, k, subject, may, must) => v = Deny
<1>14. ASSUME r.kind = "this" PROVE Answer(Answers[x])
  <2> DEFINE Found(t) ==
               IF t.subject_relation # Direct
               THEN CheckRecursive(Answers,
                      KeyOf(t.subject_type, t.subject_id, t.subject_relation), Deeper(x.ask))
               ELSE IF SubjectMatches(t, x.ask.subject) THEN Allow ELSE Deny
             Holds(t, nodes) ==
               IF t.subject_relation = Direct THEN SubjectMatches(t, subject)
               ELSE NodeAt(KeyOf(t.subject_type, t.subject_id, t.subject_relation)) \in nodes
             stored == {y \in TuplesAt(k, k.relation) : AllowsStored(model, y)}
  <2>1. Answers[x] = Some({Found(t) : t \in stored})
    BY <1>7, <1>14 DEF EvaluateRule, CheckDirect
  <2>2. ASSUME NEW t \in stored
        PROVE  /\ Holds(t, must) => Found(t) = Allow
               /\ ~Holds(t, may) => Found(t) = Deny
    <3>1. CASE t.subject_relation # Direct
      <4>1. PICK key : key = KeyOf(t.subject_type, t.subject_id, t.subject_relation)
        OBVIOUS
      <4>2. Near(key)
        BY <3>1, <4>1, EdgesNear
      <4>3. Defines(model, t.subject_type, t.subject_relation)
        BY <1>3, <1>5, <3>1, RestsOnDefined
      <4>4. Defines(model, key.object_type, key.relation)
        BY <4>1, <4>3 DEF KeyOf
      <4> QED
        BY <1>12, <3>1, <4>1, <4>2, <4>4
    <3>2. CASE t.subject_relation = Direct
      BY <1>5, <3>2
    <3> QED
      BY <3>1, <3>2
  <2>3. \A nodes, others :
          Grants(r, k, subject, nodes, others) <=> \E t \in stored : Holds(t, nodes)
    BY <1>14 DEF Grants
  <2> HIDE DEF Found, Holds, stored
  <2> QED
    BY <1>11, <2>1, <2>2, <2>3
<1>15. ASSUME r.kind = "computed" PROVE Answer(Answers[x])
  <2>1. PICK key : key = [k EXCEPT !.relation = r.relation]
    OBVIOUS
  <2>2. Near(key)
    BY <1>3, <1>5, <1>6, <1>15, <2>1, RuleKinds, NodeKinds, ComputedNear
  <2>3. Defines(model, k.object_type, r.relation)
    BY <1>3, <1>5, <1>15, RestsOnDefined
  <2>4. key.object_type = k.object_type /\ key.relation = r.relation
    BY <1>6, <2>1 DEF Key
  <2>5. Answers[x] = CheckRecursive(Answers, key, Deeper(x.ask))
    BY <1>7, <1>15, <2>1 DEF EvaluateRule
  <2>6. \A nodes, others : Grants(r, k, subject, nodes, others) <=> NodeAt(key) \in nodes
    BY <1>15, <2>1 DEF Grants
  <2> QED
    BY <1>12, <2>2, <2>3, <2>4, <2>5, <2>6
<1>16. ASSUME r.kind = "arrow" PROVE Answer(Answers[x])
  <2> DEFINE Found(t) ==
               CheckRecursive(Answers,
                 KeyOf(t.subject_type, t.subject_id, r.computed_relation), Deeper(x.ask))
             Holds(t, nodes) ==
               NodeAt(KeyOf(t.subject_type, t.subject_id, r.computed_relation)) \in nodes
             followed == Followed(k, r.tuple_relation)
  <2>1. Answers[x] = Some({Found(t) : t \in followed})
    BY <1>7, <1>16 DEF EvaluateRule, CheckArrow
  <2>2. ASSUME NEW t \in followed
        PROVE  /\ Holds(t, must) => Found(t) = Allow
               /\ ~Holds(t, may) => Found(t) = Deny
    <3>1. r.computed_relation \in Name
      BY <1>6, <1>16, RuleKinds
    <3>2. t \in TuplesAt(k, r.tuple_relation) /\ AllowsArrow(model, t)
      BY DEF Followed
    <3>3. PICK key : key = KeyOf(t.subject_type, t.subject_id, r.computed_relation)
      OBVIOUS
    <3>4. Near(key)
      BY <3>1, <3>2, <3>3, EdgesNear
    <3>5. Defines(model, t.subject_type, r.computed_relation)
      BY <1>3, <1>5, <1>16, <3>2, RestsOnDefined
    <3>6. Defines(model, key.object_type, key.relation)
      BY <3>3, <3>5 DEF KeyOf
    <3> QED
      BY <1>12, <3>3, <3>4, <3>6
  <2>3. \A nodes, others :
          Grants(r, k, subject, nodes, others) <=> \E t \in followed : Holds(t, nodes)
    BY <1>16 DEF Grants, Followed
  <2> HIDE DEF Found, Holds, followed
  <2> QED
    BY <1>11, <2>1, <2>2, <2>3
<1>17. ASSUME r.kind = "union" PROVE Answer(Answers[x])
  <2> DEFINE Found(p) == Answers[PartCall(x, p)]
             Holds(p, nodes) == <<p, k>> \in nodes
             parts == r.children
  <2>1. Answers[x] = Some({Found(p) : p \in parts})
    BY <1>5, <1>7, <1>17 DEF EvaluateRule, PartCall
  <2>2. Parts(r) = parts
    BY <1>6, <1>17, RuleKinds
  <2>3. ASSUME NEW p \in parts
        PROVE  /\ Holds(p, must) => Found(p) = Allow
               /\ ~Holds(p, may) => Found(p) = Deny
    BY <1>13, <2>2
  <2>4. \A nodes, others :
          Grants(r, k, subject, nodes, others) <=> \E p \in parts : Holds(p, nodes)
    BY <1>17 DEF Grants
  <2> HIDE DEF Found, Holds, parts
  <2> QED
    BY <1>11, <2>1, <2>3, <2>4
<1>18. ASSUME r.kind = "intersection" PROVE Answer(Answers[x])
  <2> DEFINE Found(p) == Answers[PartCall(x, p)]
             Holds(p, nodes) == <<p, k>> \in nodes
             parts == r.children
  <2>1. Answers[x] = Every({Found(p) : p \in parts})
    BY <1>5, <1>7, <1>18 DEF EvaluateRule, PartCall
  <2>2. Parts(r) = parts
    BY <1>6, <1>18, RuleKinds
  <2>3. ASSUME NEW p \in parts
        PROVE  /\ Holds(p, must) => Found(p) = Allow
               /\ ~Holds(p, may) => Found(p) = Deny
    BY <1>13, <2>2
  <2>4. \A nodes, others :
          Grants(r, k, subject, nodes, others) <=> \A p \in parts : Holds(p, nodes)
    BY <1>18 DEF Grants
  <2> HIDE DEF Found, Holds, parts
  <2> QED
    BY <1>11, <2>1, <2>3, <2>4
<1>19. ASSUME r.kind = "exclusion" PROVE Answer(Answers[x])
  <2>1. Answers[x] = ButNot(Answers[PartCall(x, r.base)], Answers[PartCall(x, r.subtract)])
    BY <1>5, <1>7, <1>19 DEF EvaluateRule, PartCall
  <2>2. r.base \in Parts(r) /\ r.subtract \in Parts(r)
    BY <1>6, <1>19, RuleKinds
  <2>3. \A nodes, others : Grants(r, k, subject, nodes, others) <=>
          <<r.base, k>> \in nodes /\ (<<r.base, k>> \in others => <<r.subtract, k>> \notin others)
    BY <1>19 DEF Grants
  <2> DEFINE base == Answers[PartCall(x, r.base)]
             subtract == Answers[PartCall(x, r.subtract)]
  <2>4. /\ <<r.base, k>> \in must => base = Allow
        /\ <<r.base, k>> \notin may => base = Deny
        /\ <<r.subtract, k>> \in must => subtract = Allow
        /\ <<r.subtract, k>> \notin may => subtract = Deny
    BY <1>13, <2>2
  <2>5. /\ base = Allow /\ subtract = Deny => ButNot(base, subtract) = Allow
        /\ base = Deny => ButNot(base, subtract) = Deny
        /\ base = Allow /\ subtract = Allow => ButNot(base, subtract) = Deny
    BY <1>10 DEF ButNot
  <2>6. <<r.base, k>> \in must => <<r.base, k>> \in may
    BY <1>10, <2>4
  <2> HIDE DEF base, subtract
  <2>7. Answers[x] = ButNot(base, subtract)
    BY <2>1 DEF base, subtract
  <2> QED
    BY <2>3, <2>4, <2>5, <2>6, <2>7
<1>20. Answer(Answers[x])
  BY <1>6, <1>14, <1>15, <1>16, <1>17, <1>18, <1>19, RuleKinds
<1>21. /\ <<r, k>> \in MustAt(subject, n) => Grants(r, k, subject, must, may)
       /\ <<r, k>> \notin MayAt(subject, n) => ~Grants(r, k, subject, may, must)
  BY <1>3, <1>5, <1>9 DEF Granted
<1> QED
  BY <1>2, <1>5, <1>20, <1>21 DEF Right

\* CheckExact of one answer, about any key that a check can come to.
LEMMA CheckSettled ==
  ASSUME Typed, ValidSchema(model), NEW subject \in Subjects,
         NEW key \in Key, Defines(model, key.object_type, key.relation), NodeAt(key) \in Nodes,
         NEW stage, stage = Stages(subject)[MaxDepth]
  PROVE  /\ NodeAt(key) \in stage.must => Check(key, subject, MaxDepth) = Allow
         /\ NodeAt(key) \notin stage.may => Check(key, subject, MaxDepth) = Deny
         /\ Settle(subject, stage) = stage =>
              /\ Check(key, subject, MaxDepth) = Allow => NodeAt(key) \in stage.must
              /\ Check(key, subject, MaxDepth) = Deny => NodeAt(key) \notin stage.may
<1>1. MaxDepth \in Nat
  BY DepthAssumption
<1>2. PICK c : c = FirstCall(key, subject, MaxDepth)
  OBVIOUS
<1>3. c \in Call /\ Check(key, subject, MaxDepth) = Answers[c]
  BY <1>1, <1>2, CheckIsCall DEF Typed
<1>4. /\ <<c.rule, c.key>> = NodeAt(key)
      /\ c.ask.subject = subject /\ c.ask.visited = {key}
      /\ c.ask.depth = 0 /\ c.ask.limit = MaxDepth
  BY <1>2 DEF FirstCall, NodeAt
<1>5. stage.must = MustAt(subject, MaxDepth) /\ stage.may = MayAt(subject, MaxDepth)
  BY DEF MustAt, MayAt
<1>6. ASSUME Decided(subject, NodeAt(key), MaxDepth)
      PROVE  /\ NodeAt(key) \in stage.must => Answers[c] = Allow
             /\ NodeAt(key) \notin stage.may => Answers[c] = Deny
  <2>1. PICK j \in Nat :
          /\ j <= MaxDepth /\ j # 0
          /\ ~Decided(subject, NodeAt(key), j - 1)
          /\ NodeAt(key) \in MustAt(subject, MaxDepth) => NodeAt(key) \in MustAt(subject, j)
          /\ NodeAt(key) \notin MayAt(subject, MaxDepth) => NodeAt(key) \notin MayAt(subject, j)
    BY <1>1, <1>6, FirstDecided
  <2>2. Able(c, j)
    BY <1>1, <1>3, <1>4, <2>1 DEF Able, Open
  <2>3. Right(c, j)
    BY <1>3, <2>1, <2>2, AnswersAreRight
  <2> QED
    BY <1>4, <1>5, <2>1, <2>3 DEF Right
<1>7. ASSUME Settle(subject, stage) = stage
      PROVE  /\ Answers[c] = Allow => NodeAt(key) \in stage.must
             /\ Answers[c] = Deny => NodeAt(key) \notin stage.may
  <2>1. PICK must, may : must = stage.must /\ may = stage.may
    OBVIOUS
  <2>2. Granted(subject, must, may) = must /\ Granted(subject, may, must) = may
    BY <1>7, <2>1 DEF Settle
  <2>3. Closed(subject, must, may)
    BY <2>2 DEF Closed
  <2>4. Sound(c, must, may)
    BY <1>3, <1>4, <2>3, AnswersAreSound
  <2> QED
    BY <1>4, <2>1, <2>4 DEF Sound
<1> QED
  BY <1>3, <1>5, <1>6, <1>7 DEF Decided

\* A check allows what the schema grants, and denies what it keeps from a
\* subject, in no more steps than the limit; once nothing more is left to settle
\* it allows and denies nothing else (CheckExact), for any schema, tuples and
\* nesting of exclusions: cycle detection on the path loses no grant
\* (_check_recursive and _evaluate_rule).
THEOREM CheckIsExact == Spec => []CheckExact
<1>1. Typed /\ TypeOK => CheckExact
  <2> SUFFICES ASSUME Typed, TypeOK, NEW subject \in Subjects, NEW key \in DefinedKeys,
                      NEW stage, stage = Stages(subject)[MaxDepth]
               PROVE  /\ NodeAt(key) \in stage.must => Check(key, subject, MaxDepth) = Allow
                      /\ NodeAt(key) \notin stage.may => Check(key, subject, MaxDepth) = Deny
                      /\ Settle(subject, stage) = stage =>
                           /\ Check(key, subject, MaxDepth) = Allow => NodeAt(key) \in stage.must
                           /\ Check(key, subject, MaxDepth) = Deny => NodeAt(key) \notin stage.may
    BY DEF CheckExact
  <2>1. key \in Key /\ Defines(model, key.object_type, key.relation)
    BY DefinedAreKeys, InputAssumption DEF DefinedKeys, Typed
  <2>2. NodeAt(key) \in Nodes
    BY NodeOfKey DEF DefinedKeys, DefinedOn, Reached
  <2> QED
    BY <2>1, <2>2, CheckSettled DEF TypeOK
<1>2. Spec => [](Typed /\ TypeOK)
  BY InitTyped, TypedStep, PTL DEF Spec
<1> QED
  BY <1>1, <1>2, PTL

------------------------------------------------------------------------------
\* Writes without exclusions

\* A rule without exclusions.
Pure(rule) == \A r \in RulesOf(rule) : r.kind # "exclusion"

\* Why a call answers Allow.
Leads(c, key) == ~CutOff(c, key) /\ Answers[KeyCall(c, key)] = Allow

Because(c) ==
  \/ /\ c.rule.kind = "this"
     /\ \E t \in TuplesAt(c.key, c.key.relation) :
          /\ AllowsStored(model, t)
          /\ IF t.subject_relation # Direct
             THEN Leads(c, KeyOf(t.subject_type, t.subject_id, t.subject_relation))
             ELSE SubjectMatches(t, c.ask.subject)
  \/ c.rule.kind = "computed" /\ Leads(c, [c.key EXCEPT !.relation = c.rule.relation])
  \/ /\ c.rule.kind = "arrow"
     /\ \E t \in TuplesAt(c.key, c.rule.tuple_relation) :
          /\ AllowsArrow(model, t)
          /\ Leads(c, KeyOf(t.subject_type, t.subject_id, c.rule.computed_relation))
  \/ /\ c.rule.kind = "union"
     /\ \E part \in c.rule.children : Answers[PartCall(c, part)] = Allow
  \/ /\ c.rule.kind = "intersection"
     /\ \A part \in c.rule.children : Answers[PartCall(c, part)] = Allow
  \/ /\ c.rule.kind = "exclusion"
     /\ Answers[PartCall(c, c.rule.base)] = Allow
     /\ Answers[PartCall(c, c.rule.subtract)] = Deny

LEMMA LeadsAllow ==
  ASSUME Typed, NEW c \in Call, NEW key \in Key
  PROVE  CheckRecursive(Answers, key, Deeper(c.ask)) = Allow <=> Leads(c, key)
<1>1. Unknown # Allow
  BY DEF Unknown, Allow
<1> QED
  BY <1>1, KeyBelow DEF Typed, Leads

Explained == \A c \in Call : Answers[c] = Allow <=> Because(c)

LEMMA AllowedBecause == Typed => Explained
<1> SUFFICES ASSUME Typed, NEW c \in Call
             PROVE  Answers[c] = Allow <=> Because(c)
  BY DEF Explained
<1>1. PICK r : r = c.rule /\ r \in Rule
  BY DEF Call
<1>2. Answers[c] = EvaluateRule(Answers, r, c.key, c.ask)
  BY <1>1, Evaluated
<1>3. Allow # Unknown /\ Deny # Unknown /\ Allow # Deny
  BY DEF Allow, Deny, Unknown
<1>4. \A results : Some(results) = Allow <=> Allow \in results
  BY <1>3 DEF Some
<1>5. \A results \in SUBSET {Allow, Deny, Unknown} :
        Every(results) = Allow <=> \A x \in results : x = Allow
  BY <1>3 DEF Every
<1>6. CASE r.kind = "exclusion"
  <2>1. PICK base, subtract : /\ base = Answers[PartCall(c, r.base)]
                              /\ subtract = Answers[PartCall(c, r.subtract)]
    OBVIOUS
  <2>2. Answers[c] = ButNot(base, subtract)
    BY <1>2, <1>6, <2>1 DEF EvaluateRule, PartCall
  <2>3. Answers[c] = Allow <=> base = Allow /\ subtract = Deny
    BY <1>3, <2>2 DEF ButNot
  <2> QED
    BY <1>1, <1>6, <2>1, <2>3 DEF Because
<1>7. CASE r.kind = "this"
  <2> DEFINE Found(t) ==
               IF t.subject_relation # Direct
               THEN CheckRecursive(Answers,
                      KeyOf(t.subject_type, t.subject_id, t.subject_relation), Deeper(c.ask))
               ELSE IF SubjectMatches(t, c.ask.subject) THEN Allow ELSE Deny
             stored == {x \in TuplesAt(c.key, c.key.relation) : AllowsStored(model, x)}
  <2>1. Answers[c] = Some({Found(t) : t \in stored})
    BY <1>2, <1>7 DEF EvaluateRule, CheckDirect
  <2>2. ASSUME NEW t \in stored
        PROVE  Found(t) = Allow <=>
                 IF t.subject_relation # Direct
                 THEN Leads(c, KeyOf(t.subject_type, t.subject_id, t.subject_relation))
                 ELSE SubjectMatches(t, c.ask.subject)
    <3>1. CASE t.subject_relation # Direct
      <4>1. KeyOf(t.subject_type, t.subject_id, t.subject_relation) \in Key
        BY <3>1, EdgeKeys DEF Typed, Call
      <4> QED
        BY <3>1, <4>1, LeadsAllow
    <3>2. CASE t.subject_relation = Direct
      BY <1>3, <3>2
    <3> QED
      BY <3>1, <3>2
  <2>3. Because(c) <=> \E t \in stored :
                         IF t.subject_relation # Direct
                         THEN Leads(c, KeyOf(t.subject_type, t.subject_id, t.subject_relation))
                         ELSE SubjectMatches(t, c.ask.subject)
    BY <1>1, <1>7 DEF Because
  <2> HIDE DEF Found, stored
  <2>4. Answers[c] = Allow <=> \E t \in stored : Found(t) = Allow
    BY <1>4, <2>1
  <2> QED
    BY <2>2, <2>3, <2>4
<1>8. CASE r.kind = "computed"
  <2>1. PICK key : key = [c.key EXCEPT !.relation = r.relation]
    OBVIOUS
  <2>2. key \in Key
    BY <1>1, <1>8, <2>1, RuleKinds DEF Call, Key
  <2>3. Answers[c] = CheckRecursive(Answers, key, Deeper(c.ask))
    BY <1>2, <1>8, <2>1 DEF EvaluateRule
  <2>4. Because(c) <=> Leads(c, key)
    BY <1>1, <1>8, <2>1 DEF Because
  <2> QED
    BY <2>2, <2>3, <2>4, LeadsAllow
<1>9. CASE r.kind = "arrow"
  <2> DEFINE Found(t) ==
               CheckRecursive(Answers,
                 KeyOf(t.subject_type, t.subject_id, r.computed_relation), Deeper(c.ask))
             followed == Followed(c.key, r.tuple_relation)
  <2>1. Answers[c] = Some({Found(t) : t \in followed})
    BY <1>2, <1>9 DEF EvaluateRule, CheckArrow
  <2>2. ASSUME NEW t \in followed
        PROVE  Found(t) = Allow <=>
                 Leads(c, KeyOf(t.subject_type, t.subject_id, r.computed_relation))
    <3>1. r.computed_relation \in Name
      BY <1>1, <1>9, RuleKinds
    <3>2. t \in TuplesAt(c.key, r.tuple_relation)
      BY DEF Followed
    <3>3. KeyOf(t.subject_type, t.subject_id, r.computed_relation) \in Key
      BY <3>1, <3>2, EdgeKeys DEF Typed, Call
    <3> QED
      BY <3>3, LeadsAllow
  <2>3. Because(c) <=> \E t \in followed :
                         Leads(c, KeyOf(t.subject_type, t.subject_id, r.computed_relation))
    BY <1>1, <1>9 DEF Because, Followed
  <2> HIDE DEF Found, followed
  <2>4. Answers[c] = Allow <=> \E t \in followed : Found(t) = Allow
    BY <1>4, <2>1
  <2> QED
    BY <2>2, <2>3, <2>4
<1>10. CASE r.kind = "union"
  <2>1. Answers[c] = Some({Answers[PartCall(c, p)] : p \in r.children})
    BY <1>2, <1>10 DEF EvaluateRule, PartCall
  <2>2. Answers[c] = Allow <=> \E p \in r.children : Answers[PartCall(c, p)] = Allow
    BY <1>4, <2>1
  <2> QED
    BY <1>1, <1>10, <2>2 DEF Because
<1>11. CASE r.kind = "intersection"
  <2>1. Answers[c] = Every({Answers[PartCall(c, p)] : p \in r.children})
    BY <1>2, <1>11 DEF EvaluateRule, PartCall
  <2>2. \A p \in r.children : Answers[PartCall(c, p)] \in {Allow, Deny, Unknown}
    <3>1. ASSUME NEW p \in r.children
          PROVE  PartCall(c, p) \in Call
      BY <1>1, <1>11, RuleKinds, PartBelow
    <3> QED
      BY <3>1, AnswerKinds
  <2>3. Answers[c] = Allow <=> \A p \in r.children : Answers[PartCall(c, p)] = Allow
    BY <1>5, <2>1, <2>2
  <2> QED
    BY <1>1, <1>11, <2>3 DEF Because
<1> QED
  BY <1>1, <1>6, <1>7, <1>8, <1>9, <1>10, <1>11, RuleKinds

LEMMA PureParts ==
  ASSUME NEW rule \in Rule, Pure(rule), NEW part \in Parts(rule)
  PROVE  Pure(part)
<1>1. part \in RulesOf(rule) /\ part \in Rule
  BY NestedParts
<1>2. RulesOf(rule) \in WholeRules
  BY NestedParts DEF WholeRules
<1>3. RulesOf(part) \subseteq RulesOf(rule)
  BY <1>1, <1>2 DEF RulesOf, NestedRules
<1> QED
  BY <1>3 DEF Pure

\* The same model, with more tuples.
Written == model' = model /\ tuples \subseteq tuples' /\ WithoutExclusion

LEMMA BecauseAfter == Typed' => Explained'
  BY AllowedBecause, PTL

\* What is allowed stays allowed, call by call.
LEMMA AllowedStays ==
  ASSUME Typed, Typed', Written, NEW c \in Call, Pure(c.rule), Answers[c] = Allow
  PROVE  (Answers')[c] = Allow
<1> DEFINE bad == {x \in Call : /\ Pure(x.rule) /\ Answers[x] = Allow
                               /\ (Answers')[x] # Allow}
<1> SUFFICES ASSUME bad # {} PROVE FALSE
  OBVIOUS
<1>1. PICK x \in bad : \A e \in bad : ~Below(e, x)
  BY Deepest
<1>2. \A e \in Call : Below(e, x) /\ Pure(e.rule) /\ Answers[e] = Allow => (Answers')[e] = Allow
  BY <1>1
<1>3. Explained'
  BY BecauseAfter
<1>4. (Answers')[x] = Allow <=> Because(x)'
  BY <1>1, <1>3 DEF Explained
<1>5. Because(x)
  BY <1>1, AllowedBecause DEF Explained
<1>6. model' = model /\ tuples \subseteq tuples'
  BY DEF Written
<1>7. ASSUME NEW key \in Key, Leads(x, key)
      PROVE  Leads(x, key)'
  <2>1. KeyCall(x, key) \in Call /\ Below(KeyCall(x, key), x) /\ Answers[KeyCall(x, key)] = Allow
    BY <1>7, KeyBelow DEF Leads, Typed
  <2>2. CutOff(x, key)' <=> CutOff(x, key)
    BY <1>6 DEF CutOff, Defines
  <2>3. KeyCall(x, key)' = KeyCall(x, key)
    BY <1>6 DEF KeyCall
  <2>4. Pure(KeyCall(x, key).rule)
    <3>1. KeyCall(x, key).rule = model[key.object_type][key.relation].rewrite
      BY DEF KeyCall
    <3>2. key.object_type \in DOMAIN model /\ key.relation \in DOMAIN model[key.object_type]
      BY <1>7 DEF Leads, CutOff, Defines
    <3> QED
      BY <3>1, <3>2 DEF Written, WithoutExclusion, Pure
  <2>5. (Answers')[KeyCall(x, key)] = Allow
    BY <1>2, <2>1, <2>4
  <2> QED
    BY <1>7, <2>2, <2>3, <2>5 DEF Leads
<1>8. \A key, name : TuplesAt(key, name) \subseteq TuplesAt(key, name)'
  BY <1>6 DEF TuplesAt
<1>9. ASSUME NEW part \in Parts(x.rule), Answers[PartCall(x, part)] = Allow
      PROVE  (Answers')[PartCall(x, part)] = Allow
  <2>1. PartCall(x, part) \in Call /\ Below(PartCall(x, part), x)
    BY <1>9, PartBelow
  <2>2. Pure(PartCall(x, part).rule)
    BY <1>1, <1>9, PureParts DEF PartCall, Call
  <2> QED
    BY <1>2, <1>9, <2>1, <2>2
<1>10. x \in Call /\ x.rule \in Rule /\ x.key \in Key
  BY <1>1 DEF Call
<1>11. CASE x.rule.kind = "this"
  <2>1. PICK t \in TuplesAt(x.key, x.key.relation) :
          /\ AllowsStored(model, t)
          /\ IF t.subject_relation # Direct
             THEN Leads(x, KeyOf(t.subject_type, t.subject_id, t.subject_relation))
             ELSE SubjectMatches(t, x.ask.subject)
    BY <1>5, <1>11 DEF Because
  <2>2. t \in TuplesAt(x.key, x.key.relation)'
    BY <1>8, <2>1
  <2>3. AllowsStored(model, t)'
    BY <1>6, <2>1 DEF AllowsStored, Defines
  <2>4. t.subject_relation # Direct =>
          Leads(x, KeyOf(t.subject_type, t.subject_id, t.subject_relation))'
    BY <1>7, <1>10, <2>1, EdgeKeys DEF Typed
  <2>5. Because(x)'
    BY <1>11, <2>1, <2>2, <2>3, <2>4 DEF Because
  <2> QED
    BY <1>1, <1>4, <2>5
<1>12. CASE x.rule.kind = "computed"
  <2>1. PICK key : key = [x.key EXCEPT !.relation = x.rule.relation]
    OBVIOUS
  <2>2. key \in Key
    BY <1>10, <1>12, <2>1, RuleKinds DEF Key
  <2>3. Leads(x, key)'
    BY <1>5, <1>7, <1>12, <2>1, <2>2 DEF Because
  <2>4. Because(x)'
    BY <1>12, <2>1, <2>3 DEF Because
  <2> QED
    BY <1>1, <1>4, <2>4
<1>13. CASE x.rule.kind = "arrow"
  <2>1. PICK t \in TuplesAt(x.key, x.rule.tuple_relation) :
          /\ AllowsArrow(model, t)
          /\ Leads(x, KeyOf(t.subject_type, t.subject_id, x.rule.computed_relation))
    BY <1>5, <1>13 DEF Because
  <2>2. t \in TuplesAt(x.key, x.rule.tuple_relation)'
    BY <1>8, <2>1
  <2>3. AllowsArrow(model, t)'
    BY <1>6, <2>1 DEF AllowsArrow
  <2>4. x.rule.computed_relation \in Name
    BY <1>10, <1>13, RuleKinds
  <2>5. KeyOf(t.subject_type, t.subject_id, x.rule.computed_relation) \in Key
    BY <1>10, <2>1, <2>4, EdgeKeys DEF Typed
  <2>6. Leads(x, KeyOf(t.subject_type, t.subject_id, x.rule.computed_relation))'
    BY <1>7, <2>1, <2>5
  <2>7. Because(x)'
    BY <1>13, <2>2, <2>3, <2>6 DEF Because
  <2> QED
    BY <1>1, <1>4, <2>7
<1>14. CASE x.rule.kind = "union"
  <2>1. PICK part \in x.rule.children : Answers[PartCall(x, part)] = Allow
    BY <1>5, <1>14 DEF Because
  <2>2. (Answers')[PartCall(x, part)] = Allow
    BY <1>9, <1>10, <1>14, <2>1, RuleKinds
  <2>3. Because(x)'
    BY <1>14, <2>1, <2>2 DEF Because
  <2> QED
    BY <1>1, <1>4, <2>3
<1>15. CASE x.rule.kind = "intersection"
  <2>1. \A part \in x.rule.children : Answers[PartCall(x, part)] = Allow
    BY <1>5, <1>15 DEF Because
  <2>2. \A part \in x.rule.children : (Answers')[PartCall(x, part)] = Allow
    BY <1>9, <1>10, <1>15, <2>1, RuleKinds
  <2>3. Because(x)'
    BY <1>15, <2>2 DEF Because
  <2> QED
    BY <1>1, <1>4, <2>3
<1>16. x.rule.kind # "exclusion"
  BY <1>1, <1>10, NestedParts DEF Pure
<1> QED
  BY <1>10, <1>11, <1>12, <1>13, <1>14, <1>15, <1>16, RuleKinds

LEMMA FirstCallAfter ==
  (\A key \in DefinedKeys, subject \in Subjects, limit \in Nat :
     IsSchema(model) => Check(key, subject, limit) = Answers[FirstCall(key, subject, limit)])'
<1>1. \A key \in DefinedKeys, subject \in Subjects, limit \in Nat :
        IsSchema(model) => Check(key, subject, limit) = Answers[FirstCall(key, subject, limit)]
  BY CheckIsFirstCall
<1> QED
  BY <1>1, PTL

LEMMA WriteKeepsAllowed ==
  ASSUME Typed, Typed', Written, NEW subject \in Subjects, NEW limit \in Nat
  PROVE  AllowedKeys(subject, limit) \subseteq AllowedKeys(subject, limit)'
<1> SUFFICES ASSUME NEW k \in DefinedKeys, Allowed(k, subject, limit)
             PROVE  k \in DefinedKeys' /\ Allowed(k, subject, limit)'
  BY DEF AllowedKeys
<1>1. model' = model
  BY DEF Written
<1>2. k \in DefinedKeys'
  BY <1>1 DEF DefinedKeys, DefinedOn
<1>3. PICK c : c = FirstCall(k, subject, limit)
  OBVIOUS
<1>4. FirstCall(k, subject, limit)' = c
  BY <1>1, <1>3 DEF FirstCall
<1>5. c \in Call /\ Answers[c] = Allow
  BY <1>3, CheckIsFirstCall DEF Allowed, Typed
<1>6. Pure(c.rule)
  <2>1. c.rule = model[k.object_type][k.relation].rewrite
    BY <1>3 DEF FirstCall
  <2>2. k.object_type \in DOMAIN model /\ k.relation \in DOMAIN model[k.object_type]
    BY DefinedAreKeys, InputAssumption DEF DefinedKeys, Defines, Typed
  <2> QED
    BY <2>1, <2>2 DEF Written, WithoutExclusion, Pure
<1>7. (Answers')[c] = Allow
  BY <1>5, <1>6, AllowedStays
<1>8. IsSchema(model')
  BY DEF Typed
<1>9. Check(k, subject, limit)' = (Answers')[c]
  BY <1>2, <1>4, <1>8, FirstCallAfter
<1> QED
  BY <1>2, <1>7, <1>9 DEF Allowed

\* Without exclusions in the model, no write takes away what a check allowed,
\* at any depth limit, for any schema and tuples (WritesNeverRevoke: the path
\* alone decides what is visited, so new cycles stay out of old paths).
THEOREM WritesOnlyGrant == Spec => WritesNeverRevoke
<1>1. Typed /\ Typed' /\ [Next]_vars =>
        [tuples # tuples' /\ tuples \subseteq tuples' /\ WithoutExclusion =>
           \A subject \in Subjects, limit \in Shallower \cup {MaxDepth} :
             AllowedKeys(subject, limit) \subseteq AllowedKeys(subject, limit)']_vars
  <2> SUFFICES ASSUME Typed, Typed', Next, tuples # tuples', tuples \subseteq tuples',
                      WithoutExclusion, NEW subject \in Subjects,
                      NEW limit \in Shallower \cup {MaxDepth}
               PROVE  AllowedKeys(subject, limit) \subseteq AllowedKeys(subject, limit)'
    OBVIOUS
  <2>1. model' = model
    BY DEF Next, Register, Update, NewEngine, Write, Delete
  <2>2. limit \in Nat
    BY DepthAssumption
  <2> QED
    BY <2>1, <2>2, WriteKeepsAllowed DEF Written
<1>2. Spec => []Typed
  BY InitTyped, TypedStep, PTL DEF Spec
<1> QED
  BY <1>1, <1>2, PTL DEF Spec, WritesNeverRevoke

------------------------------------------------------------------------------
\* The algebra of expanded subjects

\* No exception is among the finite subjects: every value that an operation
\* returns is normal, and difference depends on it.
IsNormal(expanded) ==
  \A ns \in DOMAIN expanded.wildcards :
    expanded.wildcards[ns] \cap expanded.finite = {}

LEMMA NormalizedFields ==
  ASSUME NEW finite, NEW wildcards
  PROVE  /\ DOMAIN Normalized(finite, wildcards).wildcards = DOMAIN wildcards
         /\ \A ns \in DOMAIN wildcards :
              Normalized(finite, wildcards).wildcards[ns] =
                InNamespace(wildcards[ns], ns) \ InNamespace(finite, ns)
         /\ Normalized(finite, wildcards).finite \subseteq finite
         /\ \A n \in finite : n \notin Normalized(finite, wildcards).finite <=>
              WildcardIncludes(Normalized(finite, wildcards).wildcards, n)
BY DEF Normalized

LEMMA NormalizedMeans ==
  ASSUME NEW finite, NEW wildcards, NEW n, IsConcrete(n)
  PROVE  Contains(Normalized(finite, wildcards), n) <=>
           n \in finite \/ WildcardIncludes(wildcards, n)
<1> DEFINE e == Normalized(finite, wildcards)
<1>1. CASE n \in finite
  BY <1>1, NormalizedFields DEF Contains
<1>2. CASE n \notin finite
  <2>1. n \notin e.finite
    BY <1>2, NormalizedFields
  <2>2. WildcardIncludes(e.wildcards, n) <=> WildcardIncludes(wildcards, n)
    BY <1>2, NormalizedFields DEF WildcardIncludes, InNamespace
  <2> QED
    BY <1>2, <2>1, <2>2 DEF Contains
<1> QED
  BY <1>1, <1>2

LEMMA NormalizedIsNormal ==
  ASSUME NEW finite, NEW wildcards
  PROVE  IsNormal(Normalized(finite, wildcards))
BY NormalizedFields DEF IsNormal, InNamespace

\* Every value the algebra returns or starts from is normal.
THEOREM AlwaysNormal ==
  ASSUME NEW a, NEW b, NEW set
  PROVE  /\ IsNormal(Expanded(set))
         /\ IsNormal(Either(a, b)) /\ IsNormal(Both(a, b)) /\ IsNormal(Without(a, b))
BY NormalizedIsNormal DEF Expanded, Either, Both, Without

\* union: a subject is in it just when it is in one of the two, also where
\* one is a wildcard that the other's subjects are exceptions to.
THEOREM EitherMeansOr ==
  ASSUME NEW a, NEW b, NEW n, IsConcrete(n)
  PROVE  Contains(Either(a, b), n) <=> Contains(a, n) \/ Contains(b, n)
<1> DEFINE w == [ns \in DOMAIN a.wildcards \cup DOMAIN b.wildcards |->
                   IF ns \notin DOMAIN b.wildcards
                   THEN a.wildcards[ns] \ InNamespace(b.finite, ns)
                   ELSE IF ns \notin DOMAIN a.wildcards
                   THEN b.wildcards[ns] \ InNamespace(a.finite, ns)
                   ELSE a.wildcards[ns] \cap b.wildcards[ns]]
<1>1. Contains(Either(a, b), n) <=>
        n \in a.finite \cup b.finite \/ WildcardIncludes(w, n)
  BY NormalizedMeans DEF Either
<1>2. CASE n.type \in DOMAIN w
  BY <1>1, <1>2 DEF Contains, WildcardIncludes, InNamespace
<1>3. CASE n.type \notin DOMAIN w
  BY <1>1, <1>3 DEF Contains, WildcardIncludes
<1> QED
  BY <1>2, <1>3

\* intersection
THEOREM BothMeansAnd ==
  ASSUME NEW a, NEW b, NEW n, IsConcrete(n)
  PROVE  Contains(Both(a, b), n) <=> Contains(a, n) /\ Contains(b, n)
<1> DEFINE w == [ns \in DOMAIN a.wildcards \cap DOMAIN b.wildcards |->
                   a.wildcards[ns] \cup b.wildcards[ns]]
           f == {x \in a.finite : Contains(b, x)} \cup {x \in b.finite : Contains(a, x)}
<1>1. Contains(Both(a, b), n) <=> n \in f \/ WildcardIncludes(w, n)
  BY NormalizedMeans DEF Both
<1> QED
  BY <1>1 DEF Contains, WildcardIncludes

\* difference: what is left of a wildcard without a wildcard is what the
\* second excludes and the first does not.
THEOREM WithoutMeansNot ==
  ASSUME NEW a, NEW b, NEW n, IsConcrete(n), IsNormal(b)
  PROVE  Contains(Without(a, b), n) <=> Contains(a, n) /\ ~Contains(b, n)
<1> DEFINE shared == DOMAIN a.wildcards \cap DOMAIN b.wildcards
           left == UNION {InNamespace(b.wildcards[ns] \ a.wildcards[ns], ns) : ns \in shared}
           w == [ns \in DOMAIN a.wildcards \ shared |->
                   a.wildcards[ns] \cup InNamespace(b.finite, ns)]
           f == {x \in a.finite : ~Contains(b, x)} \cup left
<1>1. Contains(Without(a, b), n) <=> n \in f \/ WildcardIncludes(w, n)
  <2>1. Without(a, b) = Normalized(f, w)
    BY Zenon DEF Without
  <2> HIDE DEF f, w
  <2> QED
    BY <2>1, NormalizedMeans
<1>2. n \in left <=> /\ n.type \in shared
                     /\ n \in b.wildcards[n.type] /\ n \notin a.wildcards[n.type]
  BY DEF InNamespace
<1>3. n \in left => n \notin b.finite
  BY <1>2 DEF IsNormal
<1>4. CASE n.type \in shared
  <2>1. ~WildcardIncludes(w, n)
    BY <1>4 DEF WildcardIncludes
  <2>2. n \in left => Contains(a, n)
    BY <1>2 DEF Contains, WildcardIncludes
  <2>3. n \in left => ~Contains(b, n)
    BY <1>2, <1>3 DEF Contains, WildcardIncludes
  <2>4. Contains(a, n) /\ ~Contains(b, n) /\ n \notin a.finite => n \in left
    BY <1>2, <1>4 DEF Contains, WildcardIncludes
  <2> QED
    BY <1>1, <2>1, <2>2, <2>3, <2>4 DEF Contains
<1>5. CASE n.type \notin shared
  <2>1. n \notin left
    BY <1>2, <1>5
  <2>2. ~WildcardIncludes(a.wildcards, n) \/ n.type \in DOMAIN w
    BY <1>5 DEF WildcardIncludes
  <2>3. n.type \in DOMAIN w => w[n.type] = a.wildcards[n.type] \cup InNamespace(b.finite, n.type)
    BY <1>5
  <2>4. n \in InNamespace(b.finite, n.type) <=> n \in b.finite
    BY DEF InNamespace
  <2>5. WildcardIncludes(w, n) <=> WildcardIncludes(a.wildcards, n) /\ n \notin b.finite
    BY <1>5, <2>2, <2>3, <2>4 DEF WildcardIncludes
  <2>6. CASE n.type \in DOMAIN b.wildcards
    <3>1. n.type \notin DOMAIN a.wildcards
      BY <1>5, <2>6
    <3> QED
      BY <1>1, <2>1, <2>5, <3>1 DEF Contains, WildcardIncludes
  <2>7. CASE n.type \notin DOMAIN b.wildcards
    BY <1>1, <2>1, <2>5, <2>7 DEF Contains, WildcardIncludes
  <2> QED
    BY <2>6, <2>7
<1> QED
  BY <1>4, <1>5

\* A value written out as a subject set and read again means the same: users,
\* usersets and wildcard_exclusions lose nothing between two operations.
THEOREM RenderedMeansSame ==
  ASSUME NEW e, NEW n, IsConcrete(n),
         \A x \in e.finite : ~IsWildcard(x)
  PROVE  Contains(Expanded(Rendered(e)), n) <=> Contains(e, n)
<1> DEFINE set == Rendered(e)
           whole == {ns \in DOMAIN e.wildcards : e.wildcards[ns] = {}}
           stars == {Node(ns, Wildcard, Direct) : ns \in whole}
           w == [ns \in {x.type : x \in {y \in set.subjects : IsWildcard(y)}}
                          \cup DOMAIN set.exceptions |->
                   Exclusions(set.exceptions, ns)]
<1>1. /\ set.subjects = e.finite \cup stars
      /\ DOMAIN set.exceptions = DOMAIN e.wildcards \ whole
      /\ \A ns \in DOMAIN e.wildcards \ whole : set.exceptions[ns] = e.wildcards[ns]
  BY DEF Rendered
<1>2. \A ns \in whole : /\ IsWildcard(Node(ns, Wildcard, Direct))
                        /\ Node(ns, Wildcard, Direct).type = ns
  BY DEF IsWildcard, Node
<1>3. {y \in set.subjects : IsWildcard(y)} = stars
  BY <1>1, <1>2
<1>4. {x.type : x \in stars} = whole
  BY <1>2
<1>5. {y \in set.subjects : ~IsWildcard(y)} = e.finite
  BY <1>1, <1>2
<1>6. DOMAIN w = DOMAIN e.wildcards
  BY <1>1, <1>3, <1>4
<1>7. \A ns \in DOMAIN w : w[ns] = e.wildcards[ns]
  <2> SUFFICES ASSUME NEW ns \in DOMAIN e.wildcards PROVE w[ns] = e.wildcards[ns]
    BY <1>6
  <2>1. w[ns] = Exclusions(set.exceptions, ns)
    BY <1>6
  <2> QED
    BY <1>1, <2>1 DEF Exclusions
<1>8. Contains(Expanded(set), n) <=> n \in e.finite \/ WildcardIncludes(w, n)
  BY <1>5, NormalizedMeans DEF Expanded
<1> QED
  BY <1>6, <1>7, <1>8 DEF Contains, WildcardIncludes

------------------------------------------------------------------------------
\* What a value names

\* No subject of a value is a wildcard: those are in its other part.
Finite(e) == \A n \in e.finite : ~IsWildcard(n)

\* All that a value names are concrete subjects: no userset is left.
Plain(e) == \A n \in e.finite : n.relation = Direct

LEMMA FiniteValues ==
  /\ \A set : Finite(Expanded(set))
  /\ \A a, b : Finite(a) /\ Finite(b) =>
       Finite(Either(a, b)) /\ Finite(Both(a, b)) /\ Finite(Without(a, b))
<1>1. ASSUME NEW set PROVE Finite(Expanded(set))
  BY NormalizedFields DEF Expanded, Finite
<1>2. ASSUME NEW a, NEW b, Finite(a), Finite(b)
      PROVE  Finite(Either(a, b)) /\ Finite(Both(a, b)) /\ Finite(Without(a, b))
  <2>1. Either(a, b).finite \subseteq a.finite \cup b.finite
    BY NormalizedFields DEF Either
  <2>2. Both(a, b).finite \subseteq a.finite \cup b.finite
    BY NormalizedFields DEF Both
  <2>3. \A n \in Without(a, b).finite : n \in a.finite \/ IsConcrete(n)
    BY NormalizedFields DEF Without, InNamespace
  <2> QED
    BY <1>2, <2>1, <2>2, <2>3 DEF Finite, IsWildcard, IsConcrete
<1> QED
  BY <1>1, <1>2

LEMMA PlainValues ==
  \A a, b : Plain(a) /\ Plain(b) =>
    Plain(Either(a, b)) /\ Plain(Both(a, b)) /\ Plain(Without(a, b))
<1> SUFFICES ASSUME NEW a, NEW b, Plain(a), Plain(b)
             PROVE  Plain(Either(a, b)) /\ Plain(Both(a, b)) /\ Plain(Without(a, b))
  OBVIOUS
<1>1. Either(a, b).finite \subseteq a.finite \cup b.finite
  BY NormalizedFields DEF Either
<1>2. Both(a, b).finite \subseteq a.finite \cup b.finite
  BY NormalizedFields DEF Both
<1>3. \A n \in Without(a, b).finite : n \in a.finite \/ IsConcrete(n)
  BY NormalizedFields DEF Without, InNamespace
<1> QED
  BY <1>1, <1>2, <1>3 DEF Plain, IsConcrete

\* A union keeps the usersets of both sides.
LEMMA EitherKeepsUsersets ==
  ASSUME NEW a, NEW b, NEW n, n.relation # Direct
  PROVE  n \in Either(a, b).finite <=> n \in a.finite \/ n \in b.finite
<1> DEFINE w == [ns \in DOMAIN a.wildcards \cup DOMAIN b.wildcards |->
                   IF ns \notin DOMAIN b.wildcards
                   THEN a.wildcards[ns] \ InNamespace(b.finite, ns)
                   ELSE IF ns \notin DOMAIN a.wildcards
                   THEN b.wildcards[ns] \ InNamespace(a.finite, ns)
                   ELSE a.wildcards[ns] \cap b.wildcards[ns]]
<1>1. Either(a, b) = Normalized(a.finite \cup b.finite, w)
  BY DEF Either
<1> HIDE DEF w
<1> QED
  BY <1>1, NormalizedFields DEF WildcardIncludes, IsConcrete

------------------------------------------------------------------------------
\* Unions and intersections of many values, one after the other

\* Of some subsets of a finite set, one that no other is part of.
LEMMA SmallestSubset ==
  ASSUME NEW V, IsFiniteSet(V), NEW S \in SUBSET (SUBSET V), S # {}
  PROVE  \E s \in S : \A t \in S : t \subseteq s => t = s
<1> DEFINE sizes == {Cardinality(s) : s \in S}
<1>1. \A s \in S : IsFiniteSet(s) /\ Cardinality(s) \in Nat
  BY FS_Subset, FS_CardinalityType
<1>2. sizes \in SUBSET Nat /\ sizes # {}
  BY <1>1
<1> HIDE DEF sizes
<1>3. PICK k \in sizes : \A j \in sizes : k <= j
  BY <1>2, Least
<1>4. PICK s \in S : Cardinality(s) = k
  BY <1>3 DEF sizes
<1>5. ASSUME NEW t \in S, t \subseteq s
      PROVE  t = s
  <2>1. Cardinality(t) <= Cardinality(s) /\ (Cardinality(t) = Cardinality(s) => t = s)
    BY <1>1, <1>5, FS_Subset
  <2>2. k <= Cardinality(t)
    BY <1>3 DEF sizes
  <2> QED
    BY <1>1, <1>4, <2>1, <2>2
<1> QED
  BY <1>5

Chosen(s) == CHOOSE x \in s : TRUE

\* What a fold does next: a union or an intersection with a value.
Combined(op, a, b) == IF op = "union" THEN Either(a, b) ELSE Both(a, b)

\* The value of a fold over each subset of V.
Folding(op, base, V, g) ==
  g = [s \in SUBSET V |->
         IF s = {} THEN base ELSE Combined(op, Chosen(s), g[s \ {Chosen(s)}])]

LEMMA FoldingStep ==
  ASSUME NEW op, NEW base, NEW V, NEW g, Folding(op, base, V, g), NEW s \in SUBSET V
  PROVE  /\ s = {} => g[s] = base
         /\ s # {} => /\ Chosen(s) \in s
                      /\ g[s] = Combined(op, Chosen(s), g[s \ {Chosen(s)}])
<1>1. g[s] = IF s = {} THEN base ELSE Combined(op, Chosen(s), g[s \ {Chosen(s)}])
  BY Zenon DEF Folding
<1>2. s # {} => Chosen(s) \in s
  BY DEF Chosen
<1> QED
  BY <1>1, <1>2

LEMMA FoldingsAgree ==
  ASSUME NEW op, NEW base, NEW V, NEW g, Folding(op, base, V, g),
         NEW W, NEW h, Folding(op, base, W, h), IsFiniteSet(V), V \subseteq W
  PROVE  \A s \in SUBSET V : g[s] = h[s]
<1> DEFINE bad == {s \in SUBSET V : g[s] # h[s]}
<1> SUFFICES ASSUME bad # {} PROVE FALSE
  OBVIOUS
<1>1. bad \in SUBSET (SUBSET V)
  OBVIOUS
<1>2. PICK s \in bad : \A t \in bad : t \subseteq s => t = s
  <2> HIDE DEF bad
  <2> QED
    BY <1>1, SmallestSubset
<1>3. s \in SUBSET V /\ s \in SUBSET W /\ g[s] # h[s]
  BY <1>2
<1>4. /\ s = {} => g[s] = base /\ h[s] = base
      /\ s # {} => /\ Chosen(s) \in s
                   /\ g[s] = Combined(op, Chosen(s), g[s \ {Chosen(s)}])
                   /\ h[s] = Combined(op, Chosen(s), h[s \ {Chosen(s)}])
  BY <1>3, FoldingStep
<1>5. s # {}
  BY <1>3, <1>4
<1>6. PICK t : t = s \ {Chosen(s)}
  OBVIOUS
<1>7. t \in SUBSET V /\ t \subseteq s /\ t # s
  BY <1>3, <1>4, <1>5, <1>6
<1>8. g[t] = h[t]
  BY <1>2, <1>7
<1> QED
  BY <1>3, <1>4, <1>5, <1>6, <1>8

FoldOf(op, base, V) == CHOOSE g : Folding(op, base, V, g)

LEMMA FoldingExists ==
  ASSUME NEW op, NEW base, NEW V, IsFiniteSet(V)
  PROVE  \E g : Folding(op, base, V, g)
<1> DEFINE bad == {W \in SUBSET V : ~\E g : Folding(op, base, W, g)}
<1> SUFFICES ASSUME bad # {} PROVE FALSE
  BY DEF bad
<1>1. PICK W \in bad : \A U \in bad : U \subseteq W => U = W
  <2> HIDE DEF bad
  <2>1. bad \in SUBSET (SUBSET V)
    BY DEF bad
  <2> QED
    BY <2>1, SmallestSubset
<1>2. W \in SUBSET V /\ ~\E g : Folding(op, base, W, g)
  BY <1>1
<1>3. ASSUME NEW U \in SUBSET W, U # W
      PROVE  Folding(op, base, U, FoldOf(op, base, U))
  <2>1. \E g : Folding(op, base, U, g)
    BY <1>1, <1>2, <1>3
  <2> QED
    BY <2>1, Zenon DEF FoldOf
<1> HIDE DEF bad
<1>4. PICK At : At = [U \in SUBSET W |-> FoldOf(op, base, U)[U]]
  OBVIOUS
<1>5. ASSUME NEW U \in SUBSET W, U # W
      PROVE  /\ U = {} => At[U] = base
             /\ U # {} => /\ Chosen(U) \in U
                          /\ At[U] = Combined(op, Chosen(U), At[U \ {Chosen(U)}])
  <2>1. PICK g : g = FoldOf(op, base, U)
    OBVIOUS
  <2>2. Folding(op, base, U, g) /\ At[U] = g[U]
    BY <1>3, <1>4, <1>5, <2>1
  <2>3. /\ U = {} => g[U] = base
        /\ U # {} => /\ Chosen(U) \in U
                     /\ g[U] = Combined(op, Chosen(U), g[U \ {Chosen(U)}])
    BY <2>2, FoldingStep
  <2>4. ASSUME U # {}
        PROVE  g[U \ {Chosen(U)}] = At[U \ {Chosen(U)}]
    <3>1. PICK T : T = U \ {Chosen(U)}
      OBVIOUS
    <3>2. T \in SUBSET W /\ T # W /\ T \subseteq U /\ T \in SUBSET T
      BY <1>5, <2>3, <2>4, <3>1
    <3>3. Folding(op, base, T, FoldOf(op, base, T))
      BY <1>3, <3>2
    <3>4. IsFiniteSet(T)
      BY <1>2, <3>2, FS_Subset
    <3>5. FoldOf(op, base, T)[T] = g[T]
      BY <2>2, <3>2, <3>3, <3>4, FoldingsAgree
    <3> QED
      BY <1>4, <3>1, <3>2, <3>5
  <2> QED
    BY <2>2, <2>3, <2>4
<1>6. PICK last : last = IF W = {} THEN base
                         ELSE Combined(op, Chosen(W), At[W \ {Chosen(W)}])
  OBVIOUS
<1>7. PICK g : g = [U \in SUBSET W |-> IF U = W THEN last ELSE At[U]]
  OBVIOUS
<1>8. ASSUME NEW U \in SUBSET W
      PROVE  g[U] = IF U = {} THEN base ELSE Combined(op, Chosen(U), g[U \ {Chosen(U)}])
  <2>1. ASSUME U # {}
        PROVE  g[U \ {Chosen(U)}] = At[U \ {Chosen(U)}]
    <3>1. PICK T : T = U \ {Chosen(U)}
      OBVIOUS
    <3>2. Chosen(U) \in U
      BY <2>1 DEF Chosen
    <3>3. T \in SUBSET W /\ T # W
      BY <3>1, <3>2
    <3> QED
      BY <1>7, <3>1, <3>3
  <2>2. CASE U = W
    BY <1>6, <1>7, <2>1, <2>2
  <2>3. CASE U # W
    BY <1>5, <1>7, <2>1, <2>3
  <2> QED
    BY <2>2, <2>3
<1>9. Folding(op, base, W, g)
  BY <1>7, <1>8, Zenon DEF Folding
<1> QED
  BY <1>2, <1>9

\* A union names whom one of the values names, and an intersection whom all do.
LEMMA FoldMeans ==
  ASSUME NEW op, NEW base, NEW V, IsFiniteSet(V), NEW g, Folding(op, base, V, g),
         NEW n, IsConcrete(n)
  PROVE  /\ op = "union" => (Contains(g[V], n) <=>
                        Contains(base, n) \/ \E v \in V : Contains(v, n))
         /\ op # "union" => (Contains(g[V], n) <=>
                         Contains(base, n) /\ \A v \in V : Contains(v, n))
<1> DEFINE Means(s) ==
             /\ op = "union" => (Contains(g[s], n) <=>
                            Contains(base, n) \/ \E v \in s : Contains(v, n))
             /\ op # "union" => (Contains(g[s], n) <=>
                             Contains(base, n) /\ \A v \in s : Contains(v, n))
           bad == {s \in SUBSET V : ~Means(s)}
<1> SUFFICES ASSUME bad # {} PROVE FALSE
  OBVIOUS
<1>1. PICK s \in bad : \A t \in bad : t \subseteq s => t = s
  <2> HIDE DEF bad
  <2>1. bad \in SUBSET (SUBSET V)
    BY DEF bad
  <2> QED
    BY <2>1, SmallestSubset
<1>2. s \in SUBSET V /\ ~Means(s)
  BY <1>1
<1>3. /\ s = {} => g[s] = base
      /\ s # {} => /\ Chosen(s) \in s
                   /\ g[s] = Combined(op, Chosen(s), g[s \ {Chosen(s)}])
  BY <1>2, FoldingStep
<1>4. s # {}
  BY <1>2, <1>3
<1>5. PICK t, v : t = s \ {v} /\ v = Chosen(s)
  OBVIOUS
<1>6. t \in SUBSET V /\ t \subseteq s /\ t # s /\ v \in s /\ s = t \cup {v}
  BY <1>2, <1>3, <1>4, <1>5
<1>7. Means(t)
  BY <1>1, <1>6
<1>8. g[s] = IF op = "union" THEN Either(v, g[t]) ELSE Both(v, g[t])
  BY <1>3, <1>4, <1>5 DEF Combined
<1>9. /\ Contains(Either(v, g[t]), n) <=> Contains(v, n) \/ Contains(g[t], n)
      /\ Contains(Both(v, g[t]), n) <=> Contains(v, n) /\ Contains(g[t], n)
  BY EitherMeansOr, BothMeansAnd
<1>10. CASE op = "union"
  BY <1>2, <1>6, <1>7, <1>8, <1>9, <1>10
<1>11. CASE op # "union"
  BY <1>2, <1>6, <1>7, <1>8, <1>9, <1>11
<1> QED
  BY <1>10, <1>11

\* A fold names no wildcard, nor a userset, where none of the values does.
LEMMA FoldKeeps ==
  ASSUME NEW op, NEW base, NEW V, IsFiniteSet(V), NEW g, Folding(op, base, V, g)
  PROVE  /\ Finite(base) /\ (\A v \in V : Finite(v)) => Finite(g[V])
         /\ Plain(base) /\ (\A v \in V : Plain(v)) => Plain(g[V])
<1> DEFINE Keeps(s) ==
             /\ Finite(base) /\ (\A v \in s : Finite(v)) => Finite(g[s])
             /\ Plain(base) /\ (\A v \in s : Plain(v)) => Plain(g[s])
           bad == {s \in SUBSET V : ~Keeps(s)}
<1> SUFFICES ASSUME bad # {} PROVE FALSE
  OBVIOUS
<1>1. PICK s \in bad : \A t \in bad : t \subseteq s => t = s
  <2> HIDE DEF bad
  <2>1. bad \in SUBSET (SUBSET V)
    BY DEF bad
  <2> QED
    BY <2>1, SmallestSubset
<1>2. s \in SUBSET V /\ ~Keeps(s)
  BY <1>1
<1>3. /\ s = {} => g[s] = base
      /\ s # {} => /\ Chosen(s) \in s
                   /\ g[s] = Combined(op, Chosen(s), g[s \ {Chosen(s)}])
  BY <1>2, FoldingStep
<1>4. s # {}
  BY <1>2, <1>3
<1>5. PICK t, v : t = s \ {v} /\ v = Chosen(s)
  OBVIOUS
<1>6. t \in SUBSET V /\ t \subseteq s /\ t # s /\ v \in s
  BY <1>2, <1>3, <1>4, <1>5
<1>7. Keeps(t)
  BY <1>1, <1>6
<1>8. g[s] = IF op = "union" THEN Either(v, g[t]) ELSE Both(v, g[t])
  BY <1>3, <1>4, <1>5 DEF Combined
<1>9. /\ Finite(v) /\ Finite(g[t]) => Finite(g[s])
      /\ Plain(v) /\ Plain(g[t]) => Plain(g[s])
  BY <1>8, FiniteValues, PlainValues
<1> QED
  BY <1>2, <1>6, <1>7, <1>9

\* A union keeps the usersets of its values.
LEMMA FoldKeepsUsersets ==
  ASSUME NEW base, NEW V, IsFiniteSet(V), NEW g, Folding("union", base, V, g),
         NEW n, n.relation # Direct
  PROVE  n \in g[V].finite <=> n \in base.finite \/ \E v \in V : n \in v.finite
<1> DEFINE Keeps(s) == n \in g[s].finite <=> n \in base.finite \/ \E v \in s : n \in v.finite
           bad == {s \in SUBSET V : ~Keeps(s)}
<1> SUFFICES ASSUME bad # {} PROVE FALSE
  OBVIOUS
<1>1. PICK s \in bad : \A t \in bad : t \subseteq s => t = s
  <2> HIDE DEF bad
  <2>1. bad \in SUBSET (SUBSET V)
    BY DEF bad
  <2> QED
    BY <2>1, SmallestSubset
<1>2. s \in SUBSET V /\ ~Keeps(s)
  BY <1>1
<1>3. /\ s = {} => g[s] = base
      /\ s # {} => /\ Chosen(s) \in s
                   /\ g[s] = Combined("union", Chosen(s), g[s \ {Chosen(s)}])
  BY <1>2, FoldingStep
<1>4. s # {}
  BY <1>2, <1>3
<1>5. PICK t, v : t = s \ {v} /\ v = Chosen(s)
  OBVIOUS
<1>6. t \in SUBSET V /\ t \subseteq s /\ t # s /\ v \in s /\ s = t \cup {v}
  BY <1>2, <1>3, <1>4, <1>5
<1>7. Keeps(t)
  BY <1>1, <1>6
<1>8. g[s] = Either(v, g[t])
  BY <1>3, <1>4, <1>5 DEF Combined
<1>9. n \in g[s].finite <=> n \in v.finite \/ n \in g[t].finite
  BY <1>8, EitherKeepsUsersets
<1> QED
  BY <1>2, <1>6, <1>7, <1>9

LEMMA NobodyExpanded ==
  /\ Finite(Expanded(NoSubjects)) /\ Plain(Expanded(NoSubjects))
  /\ \A n : ~Contains(Expanded(NoSubjects), n)
  /\ Expanded(NoSubjects).finite = {}
<1>1. NoSubjects.subjects = {} /\ DOMAIN NoSubjects.exceptions = {}
  BY DEF NoSubjects
<1>2. PICK e : e = Expanded(NoSubjects)
  OBVIOUS
<1>3. e.finite = {} /\ DOMAIN e.wildcards = {}
  BY <1>1, <1>2 DEF Expanded, Normalized
<1> QED
  BY <1>2, <1>3 DEF Finite, Plain, Contains, WildcardIncludes

LEMMA TogetherMeans ==
  ASSUME NEW V, IsFiniteSet(V)
  PROVE  /\ \A n : IsConcrete(n) => (Contains(Together(V), n) <=> \E v \in V : Contains(v, n))
         /\ \A n : n.relation # Direct =>
              (n \in Together(V).finite <=> \E v \in V : n \in v.finite)
         /\ (\A v \in V : Finite(v)) => Finite(Together(V))
         /\ (\A v \in V : Plain(v)) => Plain(Together(V))
         /\ IsNormal(Together(V))
<1>1. PICK base : base = Expanded(NoSubjects)
  OBVIOUS
<1>2. Together(V) = (CHOOSE g : Folding("union", base, V, g))[V]
  BY <1>1 DEF Together, FoldSet, MapThenFoldSet, Folding, Combined, Chosen
<1>3. PICK g : Folding("union", base, V, g) /\ Together(V) = g[V]
  BY <1>2, FoldingExists
<1>4. Finite(base) /\ Plain(base) /\ base.finite = {} /\ \A n : ~Contains(base, n)
  BY <1>1, NobodyExpanded
<1>5. ASSUME NEW n, IsConcrete(n)
      PROVE  Contains(g[V], n) <=> \E v \in V : Contains(v, n)
  <2>1. Contains(g[V], n) <=> Contains(base, n) \/ \E v \in V : Contains(v, n)
    BY <1>3, <1>5, FoldMeans
  <2> QED
    BY <1>4, <2>1
<1>6. ASSUME NEW n, n.relation # Direct
      PROVE  n \in g[V].finite <=> \E v \in V : n \in v.finite
  BY <1>3, <1>4, <1>6, FoldKeepsUsersets
<1>7. /\ (\A v \in V : Finite(v)) => Finite(g[V])
      /\ (\A v \in V : Plain(v)) => Plain(g[V])
  BY <1>3, <1>4, FoldKeeps
<1>8. IsNormal(g[V])
  <2>1. /\ V = {} => g[V] = base
        /\ V # {} => g[V] = Combined("union", Chosen(V), g[V \ {Chosen(V)}])
    BY <1>3, FoldingStep
  <2> QED
    BY <1>1, <2>1, AlwaysNormal DEF Combined
<1> QED
  BY <1>3, <1>5, <1>6, <1>7, <1>8

LEMMA CommonMeans ==
  ASSUME NEW V, IsFiniteSet(V)
  PROVE  /\ \A n : IsConcrete(n) /\ V # {} =>
              (Contains(Common(V), n) <=> \A v \in V : Contains(v, n))
         /\ (\A v \in V : Finite(v)) => Finite(Common(V))
         /\ (\A v \in V : Plain(v)) => Plain(Common(V))
<1>1. CASE V = {}
  BY <1>1, NobodyExpanded DEF Common
<1>2. CASE V # {}
  <2>1. PICK base : base = Chosen(V)
    OBVIOUS
  <2>2. Common(V) = (CHOOSE g : Folding("intersection", base, V, g))[V]
    BY <1>2, <2>1 DEF Common, FoldSet, MapThenFoldSet, Folding, Combined, Chosen
  <2>3. PICK g : Folding("intersection", base, V, g) /\ Common(V) = g[V]
    BY <2>2, FoldingExists
  <2>4. base \in V
    BY <1>2, <2>1 DEF Chosen
  <2>5. ASSUME NEW n, IsConcrete(n)
        PROVE  Contains(g[V], n) <=> \A v \in V : Contains(v, n)
    <3>1. Contains(g[V], n) <=> Contains(base, n) /\ \A v \in V : Contains(v, n)
      BY <2>3, <2>5, FoldMeans
    <3> QED
      BY <2>4, <3>1
  <2>6. /\ (\A v \in V : Finite(v)) => Finite(g[V])
        /\ (\A v \in V : Plain(v)) => Plain(g[V])
    BY <2>3, <2>4, FoldKeeps
  <2> QED
    BY <2>3, <2>5, <2>6
<1> QED
  BY <1>1, <1>2

------------------------------------------------------------------------------
\* The calls that one call makes

Calls == RuleCall \cup MemberCall

\* How many levels of calls there may be below this one.
Steps(c) ==
  IF c.ask.depth > c.ask.limit THEN IF c \in RuleCall THEN 1 ELSE 0
  ELSE 2 * (c.ask.limit - c.ask.depth) + (IF c \in RuleCall THEN 2 ELSE 3)

\* d may be called by c: with fewer levels below it, or, past the limit, for a
\* part of its rule.
Under(d, c) ==
  \/ Steps(d) < Steps(c)
  \/ /\ Steps(d) = Steps(c)
     /\ d \in RuleCall /\ c \in RuleCall /\ d.rule \in Parts(c.rule)

LEMMA CallKinds ==
  /\ \A c \in RuleCall : c \notin MemberCall
  /\ \A c \in Calls : /\ c.ask \in Trail /\ c.ask.limit \in Nat /\ c.ask.depth \in Nat
                      /\ Steps(c) \in Nat
<1>1. ASSUME NEW c \in RuleCall, c \in MemberCall
      PROVE  FALSE
  <2>1. DOMAIN c = {"rule", "key", "ask"}
    BY DEF RuleCall
  <2>2. DOMAIN c = {"members", "ask"}
    BY <1>1 DEF MemberCall
  <2> QED
    BY <2>1, <2>2
<1>2. ASSUME NEW c \in Calls
      PROVE  c.ask \in Trail
  BY DEF Calls, RuleCall, MemberCall
<1>3. ASSUME NEW c \in Calls
      PROVE  c.ask.limit \in Nat /\ c.ask.depth \in Nat
  BY <1>2 DEF Trail
<1>4. ASSUME NEW c \in Calls
      PROVE  Steps(c) \in Nat
  BY <1>3 DEF Steps
<1> QED
  BY <1>1, <1>2, <1>3, <1>4

\* Of some calls, one that makes none of the others.
LEMMA Innermost ==
  ASSUME NEW S \in SUBSET Calls, S # {}
  PROVE  \E c \in S : \A d \in S : ~Under(d, c)
<1> DEFINE all == {Steps(c) : c \in S}
<1>1. all \subseteq Nat /\ all # {}
  BY CallKinds
<1> HIDE DEF all
<1>2. PICK k \in all : \A j \in all : k <= j
  BY <1>1, Least
<1>3. \A c \in S : Steps(c) \in Nat /\ k \in Nat /\ k <= Steps(c)
  BY <1>1, <1>2, CallKinds DEF all
<1> DEFINE rules == {r \in Rule : \E c \in S \cap RuleCall : Steps(c) = k /\ c.rule = r}
<1>4. CASE rules = {}
  <2>1. PICK c \in S : Steps(c) = k
    BY <1>2 DEF all
  <2>2. c \notin RuleCall
    BY <1>4, <2>1 DEF RuleCall
  <2> QED
    BY <1>3, <2>1, <2>2 DEF Under
<1>5. CASE rules # {}
  <2>1. PICK r \in rules : Parts(r) \cap rules = {}
    BY <1>5, RuleAssumption
  <2>2. PICK c \in S \cap RuleCall : Steps(c) = k /\ c.rule = r
    BY <2>1
  <2>3. ASSUME NEW d \in S, Under(d, c)
        PROVE  FALSE
    <3>1. ~(Steps(d) < Steps(c))
      BY <1>3, <2>2
    <3>2. Steps(d) = k /\ d \in RuleCall /\ d.rule \in Parts(r)
      BY <2>2, <2>3, <3>1 DEF Under
    <3>3. d.rule \in Rule
      BY <3>2 DEF RuleCall
    <3> QED
      BY <2>1, <3>2, <3>3
  <2> QED
    BY <2>2, <2>3
<1> QED
  BY <1>4, <1>5

LEMMA DeeperTrail ==
  ASSUME NEW ask \in Trail
  PROVE  /\ Deeper(ask) \in Trail /\ Deeper(ask).limit = ask.limit
         /\ Deeper(ask).depth = ask.depth + 1 /\ Deeper(ask).visited = ask.visited
         /\ ask.limit \in Nat /\ ask.depth \in Nat
BY DEF Trail, Deeper

LEMMA PartUnder ==
  ASSUME NEW c \in RuleCall, NEW part \in Parts(c.rule)
  PROVE  PartCall(c, part) \in RuleCall /\ Under(PartCall(c, part), c)
<1>1. part \in Rule /\ c.key \in Key /\ c.ask \in Trail
  BY RuleKinds DEF RuleCall
<1>2. PICK b : b = Deeper(c.ask)
  OBVIOUS
<1>3. /\ b \in Trail /\ b.limit = c.ask.limit /\ b.depth = c.ask.depth + 1
      /\ c.ask.limit \in Nat /\ c.ask.depth \in Nat
  BY <1>1, <1>2, DeeperTrail
<1>4. PICK d : d = [rule |-> part, key |-> c.key, ask |-> b]
  OBVIOUS
<1>5. d \in RuleCall
  BY <1>1, <1>3, <1>4 DEF RuleCall
<1>6. d.ask = b /\ d.rule = part
  BY <1>4
<1>7. Under(d, c)
  BY <1>3, <1>5, <1>6 DEF Under, Steps
<1> QED
  BY <1>2, <1>4, <1>5, <1>7 DEF PartCall

\* The call that an expansion of a key makes.
TopCall(key, ask) ==
  [rule |-> model[key.object_type][key.relation].rewrite, key |-> key,
   ask |-> [ask EXCEPT !.visited = @ \cup {key}]]

Cut(key, ask) ==
  \/ key \in ask.visited
  \/ ask.depth > ask.limit
  \/ ~Defines(model, key.object_type, key.relation)

LEMMA TopCallIs ==
  ASSUME IsSchema(model), NEW key \in Key, NEW ask \in Trail
  PROVE  /\ \A f : ExpandRecursive(f, key, ask) =
              IF Cut(key, ask) THEN Expansion(NoSubjects, FALSE) ELSE f[TopCall(key, ask)]
         /\ ~Cut(key, ask) =>
              /\ TopCall(key, ask) \in RuleCall
              /\ TopCall(key, ask).ask.depth = ask.depth
              /\ TopCall(key, ask).ask.limit = ask.limit
              /\ ask.depth <= ask.limit
              /\ <<TopCall(key, ask).rule, TopCall(key, ask).key>> = NodeAt(key)
<1>1. \A f : ExpandRecursive(f, key, ask) =
        IF Cut(key, ask) THEN Expansion(NoSubjects, FALSE) ELSE f[TopCall(key, ask)]
  BY DEF ExpandRecursive, Cut, TopCall
<1>2. PICK e : e = [ask EXCEPT !.visited = @ \cup {key}]
  OBVIOUS
<1>3. /\ e \in Trail /\ e.depth = ask.depth /\ e.limit = ask.limit
      /\ ask.depth \in Nat /\ ask.limit \in Nat
  BY <1>2 DEF Trail
<1>4. ASSUME ~Cut(key, ask)
      PROVE  model[key.object_type][key.relation].rewrite \in Rule
  BY <1>4 DEF Cut, Defines, IsSchema, Definition
<1>5. PICK d : d = [rule |-> model[key.object_type][key.relation].rewrite, key |-> key, ask |-> e]
  OBVIOUS
<1>6. d = TopCall(key, ask) /\ d.ask = e /\ <<d.rule, d.key>> = NodeAt(key)
  BY <1>2, <1>5 DEF TopCall, NodeAt
<1>7. ASSUME ~Cut(key, ask)
      PROVE  d \in RuleCall /\ ask.depth <= ask.limit
  BY <1>3, <1>4, <1>5, <1>7 DEF RuleCall, Cut
<1> QED
  BY <1>1, <1>3, <1>6, <1>7

\* Of a rule, with another key.
LEMMA KeyUnder ==
  ASSUME IsSchema(model), NEW c \in RuleCall, NEW key \in Key, ~Cut(key, Deeper(c.ask))
  PROVE  TopCall(key, Deeper(c.ask)) \in Calls /\ Under(TopCall(key, Deeper(c.ask)), c)
<1>1. c \in Calls /\ c.ask \in Trail
  BY CallKinds DEF Calls
<1>2. PICK b : b = Deeper(c.ask)
  OBVIOUS
<1>3. /\ b \in Trail /\ b.limit = c.ask.limit /\ b.depth = c.ask.depth + 1
      /\ c.ask.limit \in Nat /\ c.ask.depth \in Nat
  BY <1>1, <1>2, DeeperTrail
<1>4. PICK d : d = TopCall(key, b)
  OBVIOUS
<1>5. d \in RuleCall /\ d.ask.depth = b.depth /\ d.ask.limit = b.limit /\ b.depth <= b.limit
  BY <1>2, <1>3, <1>4, TopCallIs
<1>6. Steps(d) < Steps(c)
  BY <1>3, <1>5 DEF Steps
<1> QED
  BY <1>2, <1>4, <1>5, <1>6 DEF Calls, Under

\* Of a userset, for its relation.
LEMMA MembersKeyUnder ==
  ASSUME IsSchema(model), NEW c \in MemberCall, ~Cut(c.members, c.ask)
  PROVE  TopCall(c.members, c.ask) \in Calls /\ Under(TopCall(c.members, c.ask), c)
<1>1. c \in Calls /\ c.ask \in Trail /\ c.members \in Key
  BY CallKinds DEF Calls, MemberCall
<1>2. c.ask.limit \in Nat /\ c.ask.depth \in Nat
  BY <1>1, DeeperTrail
<1>3. PICK d : d = TopCall(c.members, c.ask)
  OBVIOUS
<1>4. /\ d \in RuleCall /\ d.ask.depth = c.ask.depth /\ d.ask.limit = c.ask.limit
      /\ c.ask.depth <= c.ask.limit
  BY <1>1, <1>3, TopCallIs
<1>5. c \notin RuleCall
  BY CallKinds
<1>6. Steps(d) < Steps(c)
  BY <1>2, <1>4, <1>5 DEF Steps
<1> QED
  BY <1>3, <1>4, <1>6 DEF Calls, Under

\* The call for the members of a userset n.
InnerCall(n, ask) == [members |-> NodeKey(n), ask |-> Deeper(ask)]

LEMMA InnerCallIs ==
  ASSUME NEW n, NodeKey(n) \in Key, NEW ask \in Trail
  PROVE  /\ InnerCall(n, ask) \in MemberCall /\ InnerCall(n, ask) \in Calls
         /\ InnerCall(n, ask) \notin RuleCall /\ InnerCall(n, ask).members = NodeKey(n)
         /\ InnerCall(n, ask).ask = Deeper(ask)
<1>1. Deeper(ask) \in Trail
  BY DeeperTrail
<1>2. InnerCall(n, ask) \in MemberCall
  BY <1>1 DEF InnerCall, MemberCall
<1> QED
  BY <1>2, CallKinds DEF InnerCall, Calls

LEMMA InnerUnder ==
  ASSUME NEW n, NodeKey(n) \in Key
  PROVE  /\ \A c \in RuleCall : Under(InnerCall(n, Deeper(c.ask)), c)
         /\ \A c \in MemberCall : c.ask.depth <= c.ask.limit => Under(InnerCall(n, c.ask), c)
<1>1. ASSUME NEW c \in RuleCall
      PROVE  Under(InnerCall(n, Deeper(c.ask)), c)
  <2>1. c \in Calls /\ c.ask \in Trail
    BY CallKinds DEF Calls
  <2>2. PICK b : b = Deeper(c.ask)
    OBVIOUS
  <2>3. /\ b \in Trail /\ b.limit = c.ask.limit /\ b.depth = c.ask.depth + 1
        /\ c.ask.limit \in Nat /\ c.ask.depth \in Nat
    BY <2>1, <2>2, DeeperTrail
  <2>4. PICK d : d = InnerCall(n, b)
    OBVIOUS
  <2>5. d \notin RuleCall /\ d.ask = Deeper(b)
    BY <2>3, <2>4, InnerCallIs
  <2>6. d.ask.limit = b.limit /\ d.ask.depth = b.depth + 1
    BY <2>3, <2>5, DeeperTrail
  <2>7. Steps(d) < Steps(c)
    BY <2>3, <2>5, <2>6 DEF Steps
  <2> QED
    BY <2>2, <2>4, <2>7 DEF Under
<1>2. ASSUME NEW c \in MemberCall, c.ask.depth <= c.ask.limit
      PROVE  Under(InnerCall(n, c.ask), c)
  <2>1. c \in Calls /\ c.ask \in Trail /\ c \notin RuleCall
    BY CallKinds DEF Calls
  <2>2. c.ask.limit \in Nat /\ c.ask.depth \in Nat
    BY <2>1, DeeperTrail
  <2>3. PICK d : d = InnerCall(n, c.ask)
    OBVIOUS
  <2>4. d \notin RuleCall /\ d.ask = Deeper(c.ask)
    BY <2>1, <2>3, InnerCallIs
  <2>5. d.ask.limit = c.ask.limit /\ d.ask.depth = c.ask.depth + 1
    BY <2>1, <2>4, DeeperTrail
  <2>6. Steps(d) < Steps(c)
    BY <1>2, <2>1, <2>2, <2>4, <2>5 DEF Steps
  <2> QED
    BY <2>3, <2>6 DEF Under
<1> QED
  BY <1>1, <1>2

------------------------------------------------------------------------------
\* What the results look like

Sane == Typed /\ ValidSchema(model) /\ IsFiniteSet(tuples)

\* The usersets that tuples name.
Usersets ==
  {SubjectOf(t) : t \in {x \in tuples : AllowsStored(model, x) /\ x.subject_relation # Direct}}

UsersetsOf(set) == {n \in set.subjects : n.relation # Direct}

\* A subject set, whose usersets are all those of tuples.
Known(set) ==
  /\ set = [subjects |-> set.subjects, exceptions |-> set.exceptions]
  /\ UsersetsOf(set) \subseteq Usersets

\* Rules give subject sets, and the members of a userset are a value.
Shaped(v, c) ==
  /\ c \in RuleCall => Known(v.set)
  /\ c \in MemberCall => Plain(v.set) /\ Finite(v.set)

\* The elements of a finite set, mapped, are a finite set.
LEMMA FiniteImage ==
  ASSUME NEW S, IsFiniteSet(S), NEW f
  PROVE  IsFiniteSet({f[x] : x \in S})
<1>1. PICK T, g : T = {f[x] : x \in S} /\ g = [x \in S |-> f[x]]
  OBVIOUS
<1>2. g \in Surjection(S, T)
  BY <1>1 DEF Surjection
<1> QED
  BY <1>1, <1>2, FS_Surjection

LEMMA UsersetsAreKeys ==
  ASSUME Sane
  PROVE  /\ IsFiniteSet(Usersets)
         /\ \A n \in Usersets : /\ n.relation # Direct /\ NodeKey(n) \in Key
                                /\ Defines(model, n.type, n.relation)
                                /\ NodeAt(NodeKey(n)) \in Nodes
<1> DEFINE stored == {x \in tuples : AllowsStored(model, x) /\ x.subject_relation # Direct}
<1>1. IsFiniteSet(Usersets)
  <2>1. PICK f : f = [t \in stored |-> SubjectOf(t)]
    OBVIOUS
  <2>2. IsFiniteSet(stored)
    BY FS_Subset DEF Sane
  <2>3. Usersets = {f[t] : t \in stored}
    BY <2>1 DEF Usersets
  <2> HIDE DEF stored
  <2> QED
    BY <2>2, <2>3, FiniteImage
<1>2. ASSUME NEW t \in stored
      PROVE  /\ SubjectOf(t).relation # Direct /\ NodeKey(SubjectOf(t)) \in Key
             /\ Defines(model, SubjectOf(t).type, SubjectOf(t).relation)
             /\ NodeAt(NodeKey(SubjectOf(t))) \in Nodes
  <2>1. PICK key : key = KeyOf(t.object_type, t.object_id, t.relation)
    OBVIOUS
  <2>2. t \in TuplesAt(key, t.relation)
    BY <2>1 DEF TuplesAt, KeyOf
  <2>3. Near(KeyOf(t.subject_type, t.subject_id, t.subject_relation))
    BY <2>2, EdgesNear DEF Sane
  <2>4. Defines(model, t.subject_type, t.subject_relation)
    BY ValidEdges DEF EdgesDefined, Sane
  <2>5. PICK n : n = SubjectOf(t)
    OBVIOUS
  <2>6. /\ n.type = t.subject_type /\ n.id = t.subject_id /\ n.relation = t.subject_relation
    BY <2>5 DEF SubjectOf, Node
  <2>7. PICK k : k = NodeKey(n)
    OBVIOUS
  <2>8. /\ k = KeyOf(t.subject_type, t.subject_id, t.subject_relation)
        /\ k.object_type = t.subject_type /\ k.relation = t.subject_relation
    BY <2>6, <2>7 DEF NodeKey, KeyOf
  <2>9. k \in Key /\ NodeAt(k) \in Nodes
    BY <2>3, <2>4, <2>8 DEF Near
  <2> QED
    BY <2>4, <2>5, <2>6, <2>7, <2>9
<1> QED
  BY <1>1, <1>2 DEF Usersets

LEMMA NothingKnown ==
  /\ Known(NoSubjects) /\ UsersetsOf(NoSubjects) = {}
  /\ Expansion(NoSubjects, FALSE).set = NoSubjects /\ ~Expansion(NoSubjects, FALSE).complete
BY DEF Known, UsersetsOf, NoSubjects, Expansion

LEMMA DirectKnown ==
  ASSUME NEW key
  PROVE  Known(ExpandDirect(key).set)
<1> DEFINE found == {SubjectOf(t) : t \in {x \in TuplesAt(key, key.relation) :
                                             AllowsStored(model, x)}}
<1>1. PICK set : set = ExpandDirect(key).set
  OBVIOUS
<1>2. set.subjects = found /\ set = [subjects |-> found, exceptions |-> set.exceptions]
  BY <1>1 DEF ExpandDirect, Expansion, NoSubjects
<1>3. ASSUME NEW t \in tuples, AllowsStored(model, t), SubjectOf(t).relation # Direct
      PROVE  SubjectOf(t) \in Usersets
  BY <1>3 DEF Usersets, SubjectOf, Node
<1>4. \A n \in found : n.relation # Direct => n \in Usersets
  BY <1>3 DEF TuplesAt
<1> QED
  BY <1>1, <1>2, <1>4 DEF Known, UsersetsOf

LEMMA RenderedUsersets ==
  ASSUME NEW e
  PROVE  /\ Rendered(e) = [subjects |-> Rendered(e).subjects, exceptions |-> Rendered(e).exceptions]
         /\ UsersetsOf(Rendered(e)) = {n \in e.finite : n.relation # Direct}
BY DEF Rendered, UsersetsOf, Node

\* The usersets of a subject set stay in the value made of it.
LEMMA ExpandedUsersets ==
  ASSUME NEW set
  PROVE  {n \in Expanded(set).finite : n.relation # Direct} = UsersetsOf(set)
<1> DEFINE w == [ns \in {n.type : n \in {x \in set.subjects : IsWildcard(x)}}
                          \cup DOMAIN set.exceptions |-> Exclusions(set.exceptions, ns)]
           f == {n \in set.subjects : ~IsWildcard(n)}
<1>1. Expanded(set) = Normalized(f, w)
  BY DEF Expanded
<1>2. \A n : n.relation # Direct => (n \in f <=> n \in set.subjects)
  BY DEF IsWildcard
<1> HIDE DEF f, w
<1>3. \A n : n.relation # Direct => (n \in Normalized(f, w).finite <=> n \in f)
  BY NormalizedFields DEF WildcardIncludes, IsConcrete
<1> QED
  BY <1>1, <1>2, <1>3 DEF UsersetsOf

\* Who a union names, and with which usersets.
LEMMA UnionIs ==
  ASSUME NEW parts, IsFiniteSet(parts)
  PROVE  /\ (\A p \in parts : Known(p.set)) => Known(ExpandUnion(parts).set)
         /\ \A n : n \in UsersetsOf(ExpandUnion(parts).set) <=>
                     \E p \in parts : n \in UsersetsOf(p.set)
         /\ \A me : IsConcrete(me) =>
              (Contains(Expanded(ExpandUnion(parts).set), me) <=>
                 \E p \in parts : Contains(Expanded(p.set), me))
         /\ ExpandUnion(parts).complete <=> \A p \in parts : p.complete
<1> DEFINE V == {Expanded(p.set) : p \in parts}
<1>1. IsFiniteSet(V)
  <2>1. PICK f : f = [p \in parts |-> Expanded(p.set)]
    OBVIOUS
  <2>2. V = {f[p] : p \in parts}
    BY <2>1
  <2> HIDE DEF V
  <2> QED
    BY <2>2, FiniteImage
<1>2. PICK e : e = Together(V)
  OBVIOUS
<1>3. PICK u : u = ExpandUnion(parts)
  OBVIOUS
<1>4. u.set = Rendered(e)
  BY <1>2, <1>3 DEF ExpandUnion, Expansion
<1>5. u.complete <=> \A p \in parts : p.complete
  BY <1>3 DEF ExpandUnion, Expansion
<1>6. \A v \in V : Finite(v)
  BY FiniteValues
<1> HIDE DEF V
<1>7. /\ \A n : IsConcrete(n) => (Contains(e, n) <=> \E v \in V : Contains(v, n))
      /\ \A n : n.relation # Direct => (n \in e.finite <=> \E v \in V : n \in v.finite)
      /\ Finite(e)
  BY <1>1, <1>2, <1>6, TogetherMeans
<1>8. ASSUME NEW n
      PROVE  n \in UsersetsOf(u.set) <=> \E p \in parts : n \in UsersetsOf(p.set)
  <2>1. n \in UsersetsOf(u.set) <=> n \in e.finite /\ n.relation # Direct
    BY <1>4, RenderedUsersets
  <2>2. \A p \in parts : n \in UsersetsOf(p.set) <=>
                           n \in Expanded(p.set).finite /\ n.relation # Direct
    BY ExpandedUsersets
  <2> QED
    BY <1>7, <2>1, <2>2 DEF V
<1>9. ASSUME NEW me, IsConcrete(me)
      PROVE  Contains(Expanded(u.set), me) <=> \E p \in parts : Contains(Expanded(p.set), me)
  <2>1. Contains(Expanded(u.set), me) <=> Contains(e, me)
    BY <1>4, <1>7, <1>9, RenderedMeansSame DEF Finite
  <2>2. Contains(e, me) <=> \E v \in V : Contains(v, me)
    BY <1>7, <1>9
  <2> QED
    BY <2>1, <2>2 DEF V
<1>10. (\A p \in parts : Known(p.set)) => Known(u.set)
  BY <1>4, <1>8, RenderedUsersets DEF Known
<1> QED
  BY <1>3, <1>5, <1>8, <1>9, <1>10

\* Without its usersets a subject set names the same concrete subjects.
LEMMA WithoutUsersets ==
  ASSUME NEW set, set = [subjects |-> set.subjects, exceptions |-> set.exceptions],
         NEW rest, rest = [set EXCEPT !.subjects = @ \ UsersetsOf(set)]
  PROVE  /\ Plain(Expanded(rest))
         /\ \A me : IsConcrete(me) => (Contains(Expanded(rest), me) <=> Contains(Expanded(set), me))
<1>1. rest.subjects = set.subjects \ UsersetsOf(set) /\ rest.exceptions = set.exceptions
  BY DEF UsersetsOf
<1>2. UsersetsOf(rest) = {}
  BY <1>1 DEF UsersetsOf
<1>3. Plain(Expanded(rest))
  BY <1>2, ExpandedUsersets DEF Plain
<1>4. {x \in rest.subjects : IsWildcard(x)} = {x \in set.subjects : IsWildcard(x)}
  BY <1>1 DEF UsersetsOf, IsWildcard
<1>5. PICK w, f, g : /\ w = [ns \in {n.type : n \in {x \in set.subjects : IsWildcard(x)}}
                                 \cup DOMAIN set.exceptions |-> Exclusions(set.exceptions, ns)]
                     /\ f = {n \in set.subjects : ~IsWildcard(n)}
                     /\ g = {n \in rest.subjects : ~IsWildcard(n)}
  OBVIOUS
<1>6. Expanded(set) = Normalized(f, w) /\ Expanded(rest) = Normalized(g, w)
  BY <1>1, <1>4, <1>5 DEF Expanded
<1>7. ASSUME NEW me, IsConcrete(me)
      PROVE  Contains(Expanded(rest), me) <=> Contains(Expanded(set), me)
  <2>1. me \in f <=> me \in g
    BY <1>1, <1>5, <1>7 DEF UsersetsOf, IsConcrete
  <2> QED
    BY <1>6, <1>7, <2>1, NormalizedMeans
<1> QED
  BY <1>3, <1>7

\* A subject set with the members of its usersets in their place.
LEMMA MaterializedIs ==
  ASSUME Sane, NEW part, Known(part.set), NEW ask, NEW f,
         \A n \in UsersetsOf(part.set) :
           Plain(f[InnerCall(n, ask)].set) /\ Finite(f[InnerCall(n, ask)].set)
  PROVE  /\ Plain(Materialized(f, part, ask).set) /\ Finite(Materialized(f, part, ask).set)
         /\ \A me : IsConcrete(me) =>
              (Contains(Materialized(f, part, ask).set, me) <=>
                 \/ Contains(Expanded(part.set), me)
                 \/ \E n \in UsersetsOf(part.set) : Contains(f[InnerCall(n, ask)].set, me))
         /\ Materialized(f, part, ask).complete <=>
              part.complete /\ \A n \in UsersetsOf(part.set) : f[InnerCall(n, ask)].complete
<1>1. PICK names : names = UsersetsOf(part.set)
  OBVIOUS
<1>2. PICK rest : rest = [part.set EXCEPT !.subjects = @ \ names]
  OBVIOUS
<1> DEFINE inner == {f[InnerCall(n, ask)] : n \in names}
           V == {Expanded(rest)} \cup {m.set : m \in inner}
<1>3. PICK e : e = Materialized(f, part, ask)
  OBVIOUS
<1>4. names = {n \in part.set.subjects : n.relation # Direct}
  BY <1>1 DEF UsersetsOf
<1>5. e.set = Together(V) /\ (e.complete <=> part.complete /\ \A m \in inner : m.complete)
  BY <1>2, <1>3, <1>4 DEF Materialized, Expansion, InnerCall
<1>6. IsFiniteSet(V)
  <2>1. IsFiniteSet(names)
    BY <1>1, UsersetsAreKeys, FS_Subset DEF Known
  <2>2. PICK g : g = [n \in names |-> f[InnerCall(n, ask)].set]
    OBVIOUS
  <2>3. {m.set : m \in inner} = {g[n] : n \in names}
    BY <2>2
  <2>4. IsFiniteSet({g[n] : n \in names})
    BY <2>1, FiniteImage
  <2> QED
    BY <2>3, <2>4, FS_Singleton, FS_Union
<1>7. /\ Plain(Expanded(rest)) /\ Finite(Expanded(rest))
      /\ \A me : IsConcrete(me) =>
           (Contains(Expanded(rest), me) <=> Contains(Expanded(part.set), me))
  BY <1>1, <1>2, WithoutUsersets, FiniteValues DEF Known
<1>8. \A v \in V : Plain(v) /\ Finite(v)
  BY <1>1, <1>7
<1> HIDE DEF V
<1>9. /\ Plain(e.set) /\ Finite(e.set)
      /\ \A me : IsConcrete(me) => (Contains(e.set, me) <=> \E v \in V : Contains(v, me))
  BY <1>5, <1>6, <1>8, TogetherMeans
<1>10. ASSUME NEW me, IsConcrete(me)
       PROVE  Contains(e.set, me) <=>
                \/ Contains(Expanded(part.set), me)
                \/ \E n \in names : Contains(f[InnerCall(n, ask)].set, me)
  <2>1. (\E v \in V : Contains(v, me)) <=>
          Contains(Expanded(rest), me) \/ \E n \in names : Contains(f[InnerCall(n, ask)].set, me)
    BY DEF V
  <2> QED
    BY <1>7, <1>9, <1>10, <2>1
<1>11. e.complete <=> part.complete /\ \A n \in names : f[InnerCall(n, ask)].complete
  BY <1>5
<1> QED
  BY <1>1, <1>3, <1>9, <1>10, <1>11

LEMMA MaterializedLocal ==
  ASSUME NEW part, NEW ask, NEW f, NEW g,
         \A n \in UsersetsOf(part.set) : f[InnerCall(n, ask)] = g[InnerCall(n, ask)]
  PROVE  Materialized(f, part, ask) = Materialized(g, part, ask)
<1>1. PICK names : names = {n \in part.set.subjects : n.relation # Direct}
  OBVIOUS
<1>2. {f[[members |-> NodeKey(n), ask |-> Deeper(ask)]] : n \in names} =
      {g[[members |-> NodeKey(n), ask |-> Deeper(ask)]] : n \in names}
  BY <1>1 DEF UsersetsOf, InnerCall
<1> QED
  BY <1>1, <1>2 DEF Materialized

\* An intersection of parts, and an exclusion, given the parts materialized.
LEMMA IntersectionIs ==
  ASSUME NEW parts, IsFiniteSet(parts), NEW ask, NEW f,
         \A p \in parts : /\ Plain(Materialized(f, p, Deeper(ask)).set)
                          /\ Finite(Materialized(f, p, Deeper(ask)).set)
  PROVE  /\ Known(ExpandIntersection(f, parts, ask).set)
         /\ UsersetsOf(ExpandIntersection(f, parts, ask).set) = {}
         /\ \A me : IsConcrete(me) /\ parts # {} =>
              (Contains(Expanded(ExpandIntersection(f, parts, ask).set), me) <=>
                 \A p \in parts : Contains(Materialized(f, p, Deeper(ask)).set, me))
         /\ ExpandIntersection(f, parts, ask).complete <=>
              \A p \in parts : Materialized(f, p, Deeper(ask)).complete
<1> DEFINE M(p) == Materialized(f, p, Deeper(ask))
           values == {M(p) : p \in parts}
           V == {v.set : v \in values}
<1>1. PICK x, e : x = ExpandIntersection(f, parts, ask) /\ e = Common(V)
  OBVIOUS
<1>2. x.set = Rendered(e) /\ (x.complete <=> \A v \in values : v.complete)
  BY <1>1 DEF ExpandIntersection, Expansion
<1>3. \A p \in parts : Plain(M(p).set) /\ Finite(M(p).set)
  OBVIOUS
<1> HIDE DEF M
<1>4. IsFiniteSet(V)
  <2>1. PICK g : g = [p \in parts |-> M(p).set]
    OBVIOUS
  <2>2. V = {g[p] : p \in parts}
    BY <2>1
  <2> QED
    BY <2>2, FiniteImage
<1>5. /\ \A v \in V : Plain(v) /\ Finite(v)
      /\ parts # {} => V # {}
  BY <1>3
<1>6. \A me : (\A v \in V : Contains(v, me)) <=> \A p \in parts : Contains(M(p).set, me)
  OBVIOUS
<1>7. (\A v \in values : v.complete) <=> \A p \in parts : M(p).complete
  OBVIOUS
<1> HIDE DEF V
<1>8. /\ \A me : IsConcrete(me) /\ V # {} =>
           (Contains(e, me) <=> \A v \in V : Contains(v, me))
      /\ Finite(e) /\ Plain(e)
  BY <1>1, <1>4, <1>5, CommonMeans
<1>9. UsersetsOf(x.set) = {} /\ Known(x.set)
  BY <1>2, <1>8, RenderedUsersets DEF Plain, Known
<1>10. ASSUME NEW me, IsConcrete(me), parts # {}
       PROVE  Contains(Expanded(x.set), me) <=> \A p \in parts : Contains(M(p).set, me)
  BY <1>2, <1>5, <1>6, <1>8, <1>10, RenderedMeansSame DEF Finite
<1> QED
  BY <1>1, <1>2, <1>7, <1>9, <1>10 DEF M

LEMMA ExclusionIs ==
  ASSUME NEW base, NEW subtract, NEW ask, NEW f,
         NEW from, from = Materialized(f, base, Deeper(ask)), Plain(from.set), Finite(from.set),
         NEW less, less = Materialized(f, subtract, Deeper(ask)),
         Plain(less.set), Finite(less.set), IsNormal(less.set)
  PROVE  /\ Known(ExpandExclusion(f, base, subtract, ask).set)
         /\ UsersetsOf(ExpandExclusion(f, base, subtract, ask).set) = {}
         /\ \A me : IsConcrete(me) =>
              (Contains(Expanded(ExpandExclusion(f, base, subtract, ask).set), me) <=>
                 less.complete /\ Contains(from.set, me) /\ ~Contains(less.set, me))
         /\ ExpandExclusion(f, base, subtract, ask).complete <=> less.complete /\ from.complete
<1>1. PICK x : x = ExpandExclusion(f, base, subtract, ask)
  OBVIOUS
<1>2. CASE ~less.complete
  <2>1. x = Expansion(NoSubjects, FALSE)
    BY <1>1, <1>2 DEF ExpandExclusion
  <2> QED
    BY <1>1, <1>2, <2>1, NothingKnown, NobodyExpanded
<1>3. CASE less.complete
  <2>1. PICK e : e = Without(from.set, less.set)
    OBVIOUS
  <2>2. x.set = Rendered(e) /\ x.complete = from.complete
    BY <1>1, <1>3, <2>1 DEF ExpandExclusion, Expansion
  <2>3. Finite(e) /\ Plain(e)
    BY <2>1, FiniteValues, PlainValues
  <2>4. \A me : IsConcrete(me) =>
          (Contains(e, me) <=> Contains(from.set, me) /\ ~Contains(less.set, me))
    BY <2>1, WithoutMeansNot
  <2>5. UsersetsOf(x.set) = {} /\ Known(x.set)
    BY <2>2, <2>3, RenderedUsersets DEF Plain, Known
  <2>6. \A me : IsConcrete(me) => (Contains(Expanded(x.set), me) <=> Contains(e, me))
    BY <2>2, <2>3, RenderedMeansSame DEF Finite
  <2> QED
    BY <1>1, <1>3, <2>2, <2>4, <2>5, <2>6
<1> QED
  BY <1>2, <1>3

LEMMA MaterializedNormal ==
  ASSUME Sane, NEW part, Known(part.set), NEW ask, NEW f
  PROVE  IsNormal(Materialized(f, part, ask).set)
<1>1. PICK names : names = {n \in part.set.subjects : n.relation # Direct}
  OBVIOUS
<1>2. PICK g : g = [n \in names |-> f[[members |-> NodeKey(n), ask |-> Deeper(ask)]]]
  OBVIOUS
<1>3. PICK V : V = {Expanded([part.set EXCEPT !.subjects = @ \ names])}
                   \cup {m.set : m \in {g[n] : n \in names}}
  OBVIOUS
<1>4. Materialized(f, part, ask).set = Together(V)
  BY <1>1, <1>2, <1>3 DEF Materialized, Expansion
<1>5. IsFiniteSet(V)
  <2>1. IsFiniteSet(names)
    BY <1>1, UsersetsAreKeys, FS_Subset DEF Known, UsersetsOf
  <2>2. PICK h : h = [n \in names |-> g[n].set]
    OBVIOUS
  <2>3. {m.set : m \in {g[n] : n \in names}} = {h[n] : n \in names}
    BY <2>2
  <2>4. IsFiniteSet({h[n] : n \in names})
    BY <2>1, FiniteImage
  <2> QED
    BY <1>3, <2>3, <2>4, FS_Singleton, FS_Union
<1> QED
  BY <1>4, <1>5, TogetherMeans

LEMMA FiniteParts ==
  ASSUME NEW rule \in Rule, rule.kind \in {"union", "intersection"}
  PROVE  IsFiniteSet(rule.children)
<1>1. IsRule(rule)
  BY RuleAssumption
<1>2. CASE \E rules \in SUBSET Rule :
             IsFiniteSet(rules) /\ rule \in {AnyOf(rules), AllOf(rules)}
  BY <1>2 DEF AnyOf, AllOf
<1> QED
  BY <1>1, <1>2 DEF IsRule, This, Computed, TupleToUserset, Except

------------------------------------------------------------------------------
\* The recursion of the engine

\* What one call comes to, given the results of the calls it makes.
OneCall(f, c) ==
  IF c \in RuleCall THEN ExpandRule(f, c.rule, c.key, c.ask)
  ELSE ExpandMembers(f, c.members, c.ask)

Prepared(f, c) == \A d \in Calls : Under(d, c) => Shaped(f[d], d)

Alike(f, g, c) == \A d \in Calls : Under(d, c) => f[d] = g[d]

LEMMA PartReady ==
  ASSUME Sane, NEW c \in RuleCall, NEW f, Prepared(f, c), NEW part \in Parts(c.rule)
  PROVE  /\ Known(f[PartCall(c, part)].set)
         /\ \A n \in UsersetsOf(f[PartCall(c, part)].set) :
              /\ n \in Usersets
              /\ InnerCall(n, Deeper(c.ask)) \in Calls
              /\ Under(InnerCall(n, Deeper(c.ask)), c)
              /\ Plain(f[InnerCall(n, Deeper(c.ask))].set)
              /\ Finite(f[InnerCall(n, Deeper(c.ask))].set)
<1>1. Known(f[PartCall(c, part)].set)
  BY PartUnder DEF Prepared, Shaped, Calls
<1>2. ASSUME NEW n \in Usersets
      PROVE  /\ InnerCall(n, Deeper(c.ask)) \in MemberCall
             /\ Under(InnerCall(n, Deeper(c.ask)), c)
  <2>1. NodeKey(n) \in Key
    BY UsersetsAreKeys
  <2>2. PICK b : b = Deeper(c.ask)
    OBVIOUS
  <2>3. b \in Trail
    BY <2>2, CallKinds, DeeperTrail DEF Calls
  <2>4. InnerCall(n, b) \in MemberCall
    BY <2>1, <2>3, InnerCallIs
  <2> QED
    BY <2>1, <2>2, <2>4, InnerUnder
<1>3. ASSUME NEW n \in Usersets
      PROVE  /\ InnerCall(n, Deeper(c.ask)) \in Calls
             /\ Plain(f[InnerCall(n, Deeper(c.ask))].set)
             /\ Finite(f[InnerCall(n, Deeper(c.ask))].set)
  BY <1>2 DEF Prepared, Shaped, Calls
<1>4. UsersetsOf(f[PartCall(c, part)].set) \subseteq Usersets
  BY <1>1 DEF Known
<1> QED
  BY <1>1, <1>2, <1>3, <1>4

\* A part of a rule, materialized.
PartMembers(f, c, part) == Materialized(f, f[PartCall(c, part)], Deeper(c.ask))

LEMMA PartMembersAre ==
  ASSUME Sane, NEW c \in RuleCall, NEW f, Prepared(f, c), NEW part \in Parts(c.rule)
  PROVE  /\ Plain(PartMembers(f, c, part).set) /\ Finite(PartMembers(f, c, part).set)
         /\ IsNormal(PartMembers(f, c, part).set)
         /\ \A me : IsConcrete(me) =>
              (Contains(PartMembers(f, c, part).set, me) <=>
                 \/ Contains(Expanded(f[PartCall(c, part)].set), me)
                 \/ \E n \in UsersetsOf(f[PartCall(c, part)].set) :
                      Contains(f[InnerCall(n, Deeper(c.ask))].set, me))
         /\ PartMembers(f, c, part).complete <=>
              /\ f[PartCall(c, part)].complete
              /\ \A n \in UsersetsOf(f[PartCall(c, part)].set) :
                   f[InnerCall(n, Deeper(c.ask))].complete
<1>1. PICK v, b : v = f[PartCall(c, part)] /\ b = Deeper(c.ask)
  OBVIOUS
<1>2. /\ Known(v.set)
      /\ \A n \in UsersetsOf(v.set) : Plain(f[InnerCall(n, b)].set) /\ Finite(f[InnerCall(n, b)].set)
  BY <1>1, PartReady
<1>3. PartMembers(f, c, part) = Materialized(f, v, b)
  BY <1>1 DEF PartMembers
<1>4. /\ Plain(Materialized(f, v, b).set) /\ Finite(Materialized(f, v, b).set)
      /\ \A me : IsConcrete(me) =>
           (Contains(Materialized(f, v, b).set, me) <=>
              \/ Contains(Expanded(v.set), me)
              \/ \E n \in UsersetsOf(v.set) : Contains(f[InnerCall(n, b)].set, me))
      /\ Materialized(f, v, b).complete <=>
           v.complete /\ \A n \in UsersetsOf(v.set) : f[InnerCall(n, b)].complete
  BY <1>2, MaterializedIs
<1>5. IsNormal(Materialized(f, v, b).set)
  BY <1>2, MaterializedNormal
<1> QED
  BY <1>1, <1>3, <1>4, <1>5

\* What a rule expands for another key.
KeyResult(f, c, key) == ExpandRecursive(f, key, Deeper(c.ask))

LEMMA KeyReady ==
  ASSUME Sane, NEW c \in RuleCall, NEW f, Prepared(f, c), NEW key \in Key
  PROVE  Known(KeyResult(f, c, key).set)
<1>1. PICK b : b = Deeper(c.ask) /\ b \in Trail
  BY CallKinds, DeeperTrail DEF Calls
<1>2. KeyResult(f, c, key) = IF Cut(key, b) THEN Expansion(NoSubjects, FALSE)
                             ELSE f[TopCall(key, b)]
  BY <1>1, TopCallIs DEF KeyResult, Sane, Typed
<1>3. ASSUME ~Cut(key, b)
      PROVE  Known(f[TopCall(key, b)].set)
  <2>1. TopCall(key, b) \in RuleCall
    BY <1>1, <1>3, TopCallIs DEF Sane, Typed
  <2>2. TopCall(key, b) \in Calls /\ Under(TopCall(key, b), c)
    BY <1>1, <1>3, KeyUnder DEF Sane, Typed
  <2> QED
    BY <2>1, <2>2 DEF Prepared, Shaped
<1> QED
  BY <1>2, <1>3, NothingKnown

\* What is expanded for the relation of a userset, before it is materialized.
LEMMA MembersReady ==
  ASSUME Sane, NEW c \in MemberCall, NEW f, Prepared(f, c)
  PROVE  /\ Known(ExpandRecursive(f, c.members, c.ask).set)
         /\ \A n \in UsersetsOf(ExpandRecursive(f, c.members, c.ask).set) :
              /\ n \in Usersets
              /\ InnerCall(n, c.ask) \in Calls
              /\ Under(InnerCall(n, c.ask), c)
              /\ Plain(f[InnerCall(n, c.ask)].set)
              /\ Finite(f[InnerCall(n, c.ask)].set)
<1>1. PICK v : v = ExpandRecursive(f, c.members, c.ask)
  OBVIOUS
<1>2. c.ask \in Trail /\ c.members \in Key
  BY DEF MemberCall
<1>3. v = IF Cut(c.members, c.ask) THEN Expansion(NoSubjects, FALSE)
          ELSE f[TopCall(c.members, c.ask)]
  BY <1>1, <1>2, TopCallIs DEF Sane, Typed
<1>4. CASE Cut(c.members, c.ask)
  BY <1>1, <1>3, <1>4, NothingKnown
<1>5. CASE ~Cut(c.members, c.ask)
  <2>1. TopCall(c.members, c.ask) \in RuleCall /\ c.ask.depth <= c.ask.limit
    BY <1>2, <1>5, TopCallIs DEF Sane, Typed
  <2>2. TopCall(c.members, c.ask) \in Calls /\ Under(TopCall(c.members, c.ask), c)
    BY <1>5, MembersKeyUnder DEF Sane, Typed
  <2>3. Known(v.set)
    BY <1>3, <1>5, <2>1, <2>2 DEF Prepared, Shaped
  <2>4. ASSUME NEW n \in Usersets
        PROVE  /\ InnerCall(n, c.ask) \in Calls /\ InnerCall(n, c.ask) \in MemberCall
               /\ Under(InnerCall(n, c.ask), c)
    <3>1. NodeKey(n) \in Key
      BY UsersetsAreKeys
    <3> QED
      BY <1>2, <2>1, <3>1, InnerCallIs, InnerUnder
  <2>5. ASSUME NEW n \in Usersets
        PROVE  /\ Plain(f[InnerCall(n, c.ask)].set)
               /\ Finite(f[InnerCall(n, c.ask)].set)
    BY <2>4 DEF Prepared, Shaped
  <2> QED
    BY <1>1, <2>3, <2>4, <2>5 DEF Known
<1> QED
  BY <1>4, <1>5

ArrowKey(c, t) == KeyOf(t.subject_type, t.subject_id, c.rule.computed_relation)

\* The cases of _evaluate_rule.
LEMMA OneCallIs ==
  ASSUME NEW c \in RuleCall, NEW f
  PROVE  /\ c.rule.kind = "this" => OneCall(f, c) = ExpandDirect(c.key)
         /\ c.rule.kind = "computed" =>
              OneCall(f, c) = KeyResult(f, c, [c.key EXCEPT !.relation = c.rule.relation])
         /\ c.rule.kind = "arrow" =>
              OneCall(f, c) = ExpandUnion({KeyResult(f, c, ArrowKey(c, t)) :
                                           t \in Followed(c.key, c.rule.tuple_relation)})
         /\ c.rule.kind = "union" =>
              OneCall(f, c) = ExpandUnion({f[PartCall(c, p)] : p \in c.rule.children})
         /\ c.rule.kind = "intersection" =>
              OneCall(f, c) = ExpandIntersection(f, {f[PartCall(c, p)] : p \in c.rule.children},
                                                 c.ask)
         /\ c.rule.kind = "exclusion" =>
              OneCall(f, c) = ExpandExclusion(f, f[PartCall(c, c.rule.base)],
                                              f[PartCall(c, c.rule.subtract)], c.ask)
<1>1. OneCall(f, c) = ExpandRule(f, c.rule, c.key, c.ask)
  BY DEF OneCall
<1>2. CASE c.rule.kind = "this"
  BY <1>1, <1>2 DEF ExpandRule
<1>3. CASE c.rule.kind = "computed"
  BY <1>1, <1>3 DEF ExpandRule, KeyResult
<1>4. CASE c.rule.kind = "arrow"
  BY <1>1, <1>4 DEF ExpandRule, KeyResult, ArrowKey
<1>5. CASE c.rule.kind = "union"
  BY <1>1, <1>5 DEF ExpandRule, PartCall
<1>6. CASE c.rule.kind = "intersection"
  BY <1>1, <1>6 DEF ExpandRule, PartCall
<1>7. CASE c.rule.kind = "exclusion"
  BY <1>1, <1>7 DEF ExpandRule, PartCall
<1> QED
  BY <1>2, <1>3, <1>4, <1>5, <1>6, <1>7

\* The parts of a union or an intersection, and the targets of an arrow.
LEMMA PartsAreFinite ==
  ASSUME Sane, NEW c \in RuleCall, NEW f
  PROVE  /\ c.rule.kind \in {"union", "intersection"} =>
              IsFiniteSet({f[PartCall(c, p)] : p \in c.rule.children})
         /\ IsFiniteSet({KeyResult(f, c, ArrowKey(c, t)) :
                         t \in Followed(c.key, c.rule.tuple_relation)})
<1>1. ASSUME c.rule.kind \in {"union", "intersection"}
      PROVE  IsFiniteSet({f[PartCall(c, p)] : p \in c.rule.children})
  <2>1. IsFiniteSet(c.rule.children)
    BY <1>1, FiniteParts DEF RuleCall
  <2>2. PICK g : g = [p \in c.rule.children |-> f[PartCall(c, p)]]
    OBVIOUS
  <2>3. {f[PartCall(c, p)] : p \in c.rule.children} = {g[p] : p \in c.rule.children}
    BY <2>2
  <2> QED
    BY <2>1, <2>3, FiniteImage
<1>2. PICK followed : followed = Followed(c.key, c.rule.tuple_relation)
  OBVIOUS
<1>3. IsFiniteSet(followed)
  <2>1. followed \subseteq tuples
    BY <1>2 DEF Followed, TuplesAt
  <2> QED
    BY <2>1, FS_Subset DEF Sane
<1>4. PICK g : g = [t \in followed |-> KeyResult(f, c, ArrowKey(c, t))]
  OBVIOUS
<1>5. {KeyResult(f, c, ArrowKey(c, t)) : t \in followed} = {g[t] : t \in followed}
  BY <1>4
<1>6. IsFiniteSet({g[t] : t \in followed})
  BY <1>3, FiniteImage
<1> QED
  BY <1>1, <1>2, <1>5, <1>6

LEMMA KeysOfRule ==
  ASSUME Sane, NEW c \in RuleCall
  PROVE  /\ c.rule.kind = "computed" => [c.key EXCEPT !.relation = c.rule.relation] \in Key
         /\ c.rule.kind = "arrow" =>
              \A t \in Followed(c.key, c.rule.tuple_relation) : ArrowKey(c, t) \in Key
<1>1. c.rule \in Rule /\ c.key \in Key
  BY DEF RuleCall
<1>2. ASSUME c.rule.kind = "computed"
      PROVE  [c.key EXCEPT !.relation = c.rule.relation] \in Key
  BY <1>1, <1>2, RuleKinds DEF Key
<1>3. ASSUME c.rule.kind = "arrow", NEW t \in Followed(c.key, c.rule.tuple_relation)
      PROVE  ArrowKey(c, t) \in Key
  <2>1. c.rule.computed_relation \in Name /\ t \in TuplesAt(c.key, c.rule.tuple_relation)
    BY <1>1, <1>3, RuleKinds DEF Followed
  <2> QED
    BY <1>1, <2>1, EdgeKeys DEF ArrowKey, Sane, Typed
<1> QED
  BY <1>2, <1>3

LEMMA OneCallShaped ==
  ASSUME Sane, NEW c \in Calls, NEW f, Prepared(f, c)
  PROVE  Shaped(OneCall(f, c), c)
<1>1. ASSUME c \in MemberCall
      PROVE  Plain(OneCall(f, c).set) /\ Finite(OneCall(f, c).set)
  <2>1. PICK v : v = ExpandRecursive(f, c.members, c.ask)
    OBVIOUS
  <2>2. OneCall(f, c) = Materialized(f, v, c.ask)
    BY <1>1, <2>1, CallKinds DEF OneCall, ExpandMembers
  <2>3. /\ Known(v.set)
        /\ \A n \in UsersetsOf(v.set) :
             Plain(f[InnerCall(n, c.ask)].set) /\ Finite(f[InnerCall(n, c.ask)].set)
    BY <1>1, <2>1, MembersReady
  <2> QED
    BY <2>2, <2>3, MaterializedIs
<1>2. ASSUME c \in RuleCall
      PROVE  Known(OneCall(f, c).set)
  <2>1. PICK r : r = c.rule /\ r \in Rule
    BY <1>2 DEF RuleCall
  <2>2. CASE r.kind = "this"
    BY <1>2, <2>1, <2>2, OneCallIs, DirectKnown
  <2>3. CASE r.kind = "computed"
    <3>1. PICK key : key = [c.key EXCEPT !.relation = r.relation]
      OBVIOUS
    <3>2. key \in Key
      BY <1>2, <2>1, <2>3, <3>1, KeysOfRule
    <3>3. OneCall(f, c) = KeyResult(f, c, key)
      BY <1>2, <2>1, <2>3, <3>1, OneCallIs
    <3> QED
      BY <1>2, <3>2, <3>3, KeyReady
  <2>4. CASE r.kind = "arrow"
    <3>1. PICK parts : parts = {KeyResult(f, c, ArrowKey(c, t)) : t \in Followed(c.key, r.tuple_relation)}
      OBVIOUS
    <3>2. OneCall(f, c) = ExpandUnion(parts)
      BY <1>2, <2>1, <2>4, <3>1, OneCallIs
    <3>3. ASSUME NEW t \in Followed(c.key, r.tuple_relation)
          PROVE  Known(KeyResult(f, c, ArrowKey(c, t)).set)
      BY <1>2, <2>1, <2>4, KeysOfRule, KeyReady
    <3>4. IsFiniteSet(parts)
      BY <1>2, <2>1, <3>1, PartsAreFinite
    <3> QED
      BY <3>1, <3>2, <3>3, <3>4, UnionIs
  <2>5. CASE r.kind = "union"
    <3>1. PICK parts : parts = {f[PartCall(c, p)] : p \in r.children}
      OBVIOUS
    <3>2. OneCall(f, c) = ExpandUnion(parts)
      BY <1>2, <2>1, <2>5, <3>1, OneCallIs
    <3>3. ASSUME NEW p \in r.children
          PROVE  Known(f[PartCall(c, p)].set)
      BY <1>2, <2>1, <2>5, RuleKinds, PartReady
    <3>4. IsFiniteSet(parts)
      BY <1>2, <2>1, <2>5, <3>1, PartsAreFinite
    <3> QED
      BY <3>1, <3>2, <3>3, <3>4, UnionIs
  <2>6. CASE r.kind = "intersection"
    <3>1. PICK parts : parts = {f[PartCall(c, p)] : p \in r.children}
      OBVIOUS
    <3>2. OneCall(f, c) = ExpandIntersection(f, parts, c.ask)
      BY <1>2, <2>1, <2>6, <3>1, OneCallIs
    <3>3. ASSUME NEW p \in r.children
          PROVE  /\ Plain(Materialized(f, f[PartCall(c, p)], Deeper(c.ask)).set)
                 /\ Finite(Materialized(f, f[PartCall(c, p)], Deeper(c.ask)).set)
      BY <1>2, <2>1, <2>6, RuleKinds, PartMembersAre DEF PartMembers
    <3>4. IsFiniteSet(parts)
      BY <1>2, <2>1, <2>6, <3>1, PartsAreFinite
    <3> QED
      BY <3>1, <3>2, <3>3, <3>4, IntersectionIs
  <2>7. CASE r.kind = "exclusion"
    <3>1. PICK base, subtract : base = f[PartCall(c, r.base)] /\ subtract = f[PartCall(c, r.subtract)]
      OBVIOUS
    <3>2. OneCall(f, c) = ExpandExclusion(f, base, subtract, c.ask)
      BY <1>2, <2>1, <2>7, <3>1, OneCallIs
    <3>3. ASSUME NEW p \in {r.base, r.subtract}
          PROVE  /\ Plain(PartMembers(f, c, p).set) /\ Finite(PartMembers(f, c, p).set)
                 /\ IsNormal(PartMembers(f, c, p).set)
      BY <1>2, <2>1, <2>7, RuleKinds, PartMembersAre
    <3>4. PICK from, less : /\ from = Materialized(f, base, Deeper(c.ask))
                            /\ less = Materialized(f, subtract, Deeper(c.ask))
      OBVIOUS
    <3>5. /\ Plain(from.set) /\ Finite(from.set)
          /\ Plain(less.set) /\ Finite(less.set) /\ IsNormal(less.set)
      BY <3>1, <3>3, <3>4 DEF PartMembers
    <3> QED
      BY <3>2, <3>4, <3>5, ExclusionIs
  <2> QED
    BY <2>1, <2>2, <2>3, <2>4, <2>5, <2>6, <2>7, RuleKinds
<1> QED
  BY <1>1, <1>2 DEF Shaped

LEMMA PartsAlike ==
  ASSUME NEW c \in RuleCall, NEW f, NEW g, Alike(f, g, c), NEW part \in Parts(c.rule)
  PROVE  f[PartCall(c, part)] = g[PartCall(c, part)]
BY PartUnder DEF Alike, Calls

LEMMA KeysAlike ==
  ASSUME Sane, NEW c \in RuleCall, NEW f, NEW g, Alike(f, g, c), NEW key \in Key
  PROVE  KeyResult(f, c, key) = KeyResult(g, c, key)
<1>1. PICK b : b = Deeper(c.ask) /\ b \in Trail
  BY CallKinds, DeeperTrail DEF Calls
<1>2. PICK none : none = Expansion(NoSubjects, FALSE)
  OBVIOUS
<1>3. /\ KeyResult(f, c, key) = IF Cut(key, b) THEN none ELSE f[TopCall(key, b)]
      /\ KeyResult(g, c, key) = IF Cut(key, b) THEN none ELSE g[TopCall(key, b)]
  BY <1>1, <1>2, TopCallIs DEF KeyResult, Sane, Typed
<1>4. ~Cut(key, b) => f[TopCall(key, b)] = g[TopCall(key, b)]
  BY <1>1, KeyUnder DEF Sane, Typed, Alike
<1> QED
  BY <1>3, <1>4

LEMMA PartMembersAlike ==
  ASSUME Sane, NEW c \in RuleCall, NEW f, NEW g, Prepared(f, c), Alike(f, g, c),
         NEW part \in Parts(c.rule)
  PROVE  PartMembers(f, c, part) = PartMembers(g, c, part)
<1>1. PICK v, b : v = f[PartCall(c, part)] /\ b = Deeper(c.ask)
  OBVIOUS
<1>2. g[PartCall(c, part)] = v
  BY <1>1, PartsAlike
<1>3. \A n \in UsersetsOf(v.set) : f[InnerCall(n, b)] = g[InnerCall(n, b)]
  BY <1>1, PartReady DEF Alike
<1>4. Materialized(f, v, b) = Materialized(g, v, b)
  BY <1>3, MaterializedLocal
<1> QED
  BY <1>1, <1>2, <1>4 DEF PartMembers

\* A call depends on the results of those under it alone.
LEMMA OneCallLocal ==
  ASSUME Sane, NEW c \in Calls, NEW f, NEW g, Prepared(f, c), Alike(f, g, c)
  PROVE  OneCall(f, c) = OneCall(g, c)
<1>1. ASSUME c \in MemberCall
      PROVE  OneCall(f, c) = OneCall(g, c)
  <2>1. PICK v : v = ExpandRecursive(f, c.members, c.ask)
    OBVIOUS
  <2>2. c.ask \in Trail /\ c.members \in Key
    BY <1>1 DEF MemberCall
  <2>3. /\ v = IF Cut(c.members, c.ask) THEN Expansion(NoSubjects, FALSE)
               ELSE f[TopCall(c.members, c.ask)]
        /\ ExpandRecursive(g, c.members, c.ask) =
             IF Cut(c.members, c.ask) THEN Expansion(NoSubjects, FALSE)
             ELSE g[TopCall(c.members, c.ask)]
    BY <2>1, <2>2, TopCallIs DEF Sane, Typed
  <2>4. ~Cut(c.members, c.ask) =>
          f[TopCall(c.members, c.ask)] = g[TopCall(c.members, c.ask)]
    BY <1>1, MembersKeyUnder DEF Sane, Typed, Alike
  <2>5. ExpandRecursive(g, c.members, c.ask) = v
    BY <2>3, <2>4
  <2>6. \A n \in UsersetsOf(v.set) : f[InnerCall(n, c.ask)] = g[InnerCall(n, c.ask)]
    BY <1>1, <2>1, MembersReady DEF Alike
  <2>7. Materialized(f, v, c.ask) = Materialized(g, v, c.ask)
    BY <2>6, MaterializedLocal
  <2> QED
    BY <1>1, <2>1, <2>5, <2>7, CallKinds DEF OneCall, ExpandMembers
<1>2. ASSUME c \in RuleCall
      PROVE  OneCall(f, c) = OneCall(g, c)
  <2>1. PICK r : r = c.rule /\ r \in Rule
    BY <1>2 DEF RuleCall
  <2>2. ASSUME NEW p \in Parts(r)
        PROVE  f[PartCall(c, p)] = g[PartCall(c, p)] /\ PartMembers(f, c, p) = PartMembers(g, c, p)
    BY <1>2, <2>1, PartsAlike, PartMembersAlike
  <2>3. CASE r.kind = "this"
    BY <1>2, <2>1, <2>3, OneCallIs
  <2>4. CASE r.kind = "computed"
    <3>1. PICK key : key = [c.key EXCEPT !.relation = r.relation]
      OBVIOUS
    <3>2. key \in Key
      BY <1>2, <2>1, <2>4, <3>1, KeysOfRule
    <3>3. OneCall(f, c) = KeyResult(f, c, key) /\ OneCall(g, c) = KeyResult(g, c, key)
      BY <1>2, <2>1, <2>4, <3>1, OneCallIs
    <3> QED
      BY <1>2, <3>2, <3>3, KeysAlike
  <2>5. CASE r.kind = "arrow"
    <3>1. ASSUME NEW t \in Followed(c.key, r.tuple_relation)
          PROVE  KeyResult(f, c, ArrowKey(c, t)) = KeyResult(g, c, ArrowKey(c, t))
      <4>1. ArrowKey(c, t) \in Key
        BY <1>2, <2>1, <2>5, KeysOfRule
      <4> QED
        BY <1>2, <4>1, KeysAlike
    <3>2. {KeyResult(f, c, ArrowKey(c, t)) : t \in Followed(c.key, r.tuple_relation)} =
          {KeyResult(g, c, ArrowKey(c, t)) : t \in Followed(c.key, r.tuple_relation)}
      BY <3>1
    <3> QED
      BY <1>2, <2>1, <2>5, <3>2, OneCallIs
  <2>6. CASE r.kind \in {"union", "intersection"}
    <3>1. PICK parts : parts = {f[PartCall(c, p)] : p \in r.children}
      OBVIOUS
    <3>2. parts = {g[PartCall(c, p)] : p \in r.children}
      BY <2>1, <2>2, <2>6, <3>1, RuleKinds
    <3>3. \A p \in parts : Materialized(f, p, Deeper(c.ask)) = Materialized(g, p, Deeper(c.ask))
      <4>1. ASSUME NEW p \in r.children
            PROVE  Materialized(f, f[PartCall(c, p)], Deeper(c.ask)) =
                   Materialized(g, f[PartCall(c, p)], Deeper(c.ask))
        BY <2>1, <2>2, <2>6, RuleKinds DEF PartMembers
      <4> QED
        BY <3>1, <4>1
    <3>4. {Materialized(f, p, Deeper(c.ask)) : p \in parts} =
          {Materialized(g, p, Deeper(c.ask)) : p \in parts}
      BY <3>3
    <3>5. ExpandIntersection(f, parts, c.ask) = ExpandIntersection(g, parts, c.ask)
      BY <3>4 DEF ExpandIntersection
    <3>6. CASE r.kind = "union"
      BY <1>2, <2>1, <3>1, <3>2, <3>6, OneCallIs
    <3>7. CASE r.kind = "intersection"
      BY <1>2, <2>1, <3>1, <3>2, <3>5, <3>7, OneCallIs
    <3> QED
      BY <2>6, <3>6, <3>7
  <2>7. CASE r.kind = "exclusion"
    <3>1. PICK base, subtract : base = f[PartCall(c, r.base)] /\ subtract = f[PartCall(c, r.subtract)]
      OBVIOUS
    <3>2. r.base \in Parts(r) /\ r.subtract \in Parts(r)
      BY <2>1, <2>7, RuleKinds
    <3>3. /\ base = g[PartCall(c, r.base)] /\ subtract = g[PartCall(c, r.subtract)]
          /\ Materialized(f, base, Deeper(c.ask)) = Materialized(g, base, Deeper(c.ask))
          /\ Materialized(f, subtract, Deeper(c.ask)) = Materialized(g, subtract, Deeper(c.ask))
      BY <2>2, <3>1, <3>2 DEF PartMembers
    <3>4. ExpandExclusion(f, base, subtract, c.ask) = ExpandExclusion(g, base, subtract, c.ask)
      BY <3>3 DEF ExpandExclusion
    <3> QED
      BY <1>2, <2>1, <2>7, <3>1, <3>3, <3>4, OneCallIs
  <2> QED
    BY <2>1, <2>3, <2>4, <2>5, <2>6, <2>7, RuleKinds
<1> QED
  BY <1>1, <1>2 DEF Calls

\* Results of some calls, with all those they rest on.
Partial(D, g) ==
  /\ D \subseteq Calls
  /\ \A c \in D : /\ g[c] = OneCall(g, c) /\ Shaped(g[c], c)
                  /\ \A d \in Calls : Under(d, c) => d \in D

LEMMA PartialsAgree ==
  ASSUME Sane, NEW D, NEW g, Partial(D, g), NEW E, NEW h, Partial(E, h)
  PROVE  \A c \in D \cap E : g[c] = h[c]
<1> DEFINE bad == {c \in D \cap E : g[c] # h[c]}
<1> SUFFICES ASSUME bad # {} PROVE FALSE
  OBVIOUS
<1>1. bad \in SUBSET Calls
  BY DEF Partial
<1>2. PICK c \in bad : \A d \in bad : ~Under(d, c)
  BY <1>1, Innermost
<1>3. Prepared(g, c) /\ Alike(g, h, c)
  BY <1>2 DEF Partial, Prepared, Alike
<1>4. OneCall(g, c) = OneCall(h, c)
  BY <1>1, <1>2, <1>3, OneCallLocal
<1> QED
  BY <1>2, <1>4 DEF Partial

Expandable(c) == \E D, g : Partial(D, g) /\ c \in D
ResultOf(c) == CHOOSE v : \E D, g : Partial(D, g) /\ c \in D /\ v = g[c]

LEMMA ResultIsUnique ==
  ASSUME Sane, NEW D, NEW g, Partial(D, g), NEW c \in D
  PROVE  ResultOf(c) = g[c]
<1>1. \A E, h : Partial(E, h) /\ c \in E => h[c] = g[c]
  BY PartialsAgree
<1>2. \E v : \E E, h : Partial(E, h) /\ c \in E /\ v = h[c]
  OBVIOUS
<1>3. \E E, h : Partial(E, h) /\ c \in E /\ ResultOf(c) = h[c]
  BY <1>2 DEF ResultOf
<1> QED
  BY <1>1, <1>3

LEMMA ExpandablePartial ==
  ASSUME Sane, NEW f, f = [c \in Calls |-> ResultOf(c)]
  PROVE  Partial({c \in Calls : Expandable(c)}, f)
<1> SUFFICES ASSUME NEW c \in Calls, Expandable(c)
             PROVE  /\ f[c] = OneCall(f, c) /\ Shaped(f[c], c)
                    /\ \A d \in Calls : Under(d, c) => Expandable(d)
  BY DEF Partial
<1>1. PICK D, g : Partial(D, g) /\ c \in D
  BY DEF Expandable
<1>2. \A d \in D : d \in Calls /\ f[d] = g[d] /\ Expandable(d)
  <2>1. ASSUME NEW d \in D
        PROVE  d \in Calls /\ ResultOf(d) = g[d] /\ Expandable(d)
    BY <1>1, ResultIsUnique DEF Partial, Expandable
  <2> QED
    BY <2>1
<1>3. \A d \in Calls : Under(d, c) => d \in D
  BY <1>1 DEF Partial
<1>4. Prepared(g, c) /\ Alike(g, f, c)
  BY <1>1, <1>2, <1>3 DEF Partial, Prepared, Alike
<1>5. OneCall(g, c) = OneCall(f, c)
  BY <1>4, OneCallLocal
<1>6. g[c] = OneCall(g, c) /\ Shaped(g[c], c)
  BY <1>1 DEF Partial
<1> QED
  BY <1>1, <1>2, <1>3, <1>5, <1>6

LEMMA AllExpandable ==
  ASSUME Sane
  PROVE  \A c \in Calls : Expandable(c)
<1> DEFINE open == {c \in Calls : ~Expandable(c)}
           done == {c \in Calls : Expandable(c)}
<1> SUFFICES ASSUME open # {} PROVE FALSE
  OBVIOUS
<1>1. PICK c \in open : \A d \in open : ~Under(d, c)
  BY Innermost
<1>2. PICK f : f = [d \in Calls |-> ResultOf(d)]
  OBVIOUS
<1>3. Partial(done, f)
  BY <1>2, ExpandablePartial
<1>4. PICK g : g = [f EXCEPT ![c] = OneCall(f, c)]
  OBVIOUS
<1>5. c \in Calls /\ c \notin done
  BY <1>1
<1>6. /\ g[c] = OneCall(f, c)
      /\ \A d \in Calls : d # c => g[d] = f[d]
  BY <1>2, <1>4, <1>5
<1>7. \A d \in Calls : Under(d, c) => d \in done
  BY <1>1
<1>8. ASSUME NEW d \in done \cup {c}
      PROVE  /\ g[d] = OneCall(g, d) /\ Shaped(g[d], d)
             /\ \A e \in Calls : Under(e, d) => e \in done
  <2>1. d \in Calls
    BY <1>5
  <2>2. \A e \in Calls : Under(e, d) => e \in done
    BY <1>3, <1>7 DEF Partial
  <2>3. Prepared(f, d) /\ Alike(f, g, d)
    BY <1>3, <1>5, <1>6, <2>2 DEF Partial, Prepared, Alike
  <2>4. OneCall(f, d) = OneCall(g, d) /\ Shaped(OneCall(f, d), d)
    BY <2>1, <2>3, OneCallLocal, OneCallShaped
  <2>5. g[d] = OneCall(f, d)
    <3>1. CASE d = c
      BY <1>6, <3>1
    <3>2. CASE d # c
      BY <1>3, <1>6, <2>1, <3>2 DEF Partial
    <3> QED
      BY <3>1, <3>2
  <2> QED
    BY <2>2, <2>4, <2>5
<1>9. Partial(done \cup {c}, g)
  BY <1>5, <1>8 DEF Partial
<1>10. Expandable(c)
  BY <1>9 DEF Expandable
<1> QED
  BY <1>5, <1>10

\* The recursion of the expander ends: Expansions are its results.
LEMMA ExpansionsEvaluated ==
  ASSUME Sane
  PROVE  \A c \in Calls : Expansions[c] = OneCall(Expansions, c) /\ Shaped(Expansions[c], c)
<1> DEFINE Solution(f) == f = [c \in Calls |-> OneCall(f, c)]
<1>1. PICK f : f = [c \in Calls |-> ResultOf(c)]
  OBVIOUS
<1>2. \A c \in Calls : f[c] = OneCall(f, c)
  BY <1>1, ExpandablePartial, AllExpandable DEF Partial
<1>3. Solution(f)
  BY <1>1, <1>2
<1>4. Expansions = CHOOSE g : Solution(g)
  BY DEF Expansions, Calls, OneCall
<1> HIDE DEF Solution
<1>5. Solution(Expansions)
  BY <1>3, <1>4
<1>6. PICK g : g = Expansions
  OBVIOUS
<1>7. \A c \in Calls : g[c] = OneCall(g, c)
  BY <1>5, <1>6 DEF Solution
<1> DEFINE bad == {c \in Calls : ~Shaped(g[c], c)}
<1>8. bad = {}
  <2> SUFFICES ASSUME bad # {} PROVE FALSE
    OBVIOUS
  <2>1. PICK c \in bad : \A d \in bad : ~Under(d, c)
    BY Innermost
  <2>2. Prepared(g, c)
    BY <2>1 DEF Prepared
  <2> QED
    BY <1>7, <2>1, <2>2, OneCallShaped
<1> QED
  BY <1>6, <1>7, <1>8

------------------------------------------------------------------------------
\* What the results name

Me(subject) == Node(subject.type, subject.id, Direct)

\* Nothing is left to settle for the subject.
Fixed(subject, must, may) ==
  /\ Granted(subject, must, may) = must /\ Granted(subject, may, must) = may
  /\ must \subseteq may

\* A subject set has the subject, or a userset that it is in by one of the nodes.
Names(set, subject, nodes) ==
  \/ Contains(Expanded(set), Me(subject))
  \/ \E n \in UsersetsOf(set) : NodeAt(NodeKey(n)) \in nodes

\* An expansion names the subject only where the node holds for it, and, if it
\* is complete, wherever the node does or may.
Tells(v, node, subject, must, may) ==
  /\ Names(v.set, subject, must) => node \in must
  /\ v.complete => /\ node \in must => Names(v.set, subject, must)
                   /\ node \in may => Names(v.set, subject, may)

\* The same of a value, in which nothing is left open.
TellsAll(v, node, subject, must, may) ==
  /\ Contains(v.set, Me(subject)) => node \in must
  /\ v.complete /\ node \in may => Contains(v.set, Me(subject))

Informs(f, d, subject, must, may) ==
  /\ d \in RuleCall /\ <<d.rule, d.key>> \in Nodes =>
       Tells(f[d], <<d.rule, d.key>>, subject, must, may)
  /\ d \in MemberCall /\ NodeAt(d.members) \in Nodes =>
       TellsAll(f[d], NodeAt(d.members), subject, must, may)

\* All that the call rests on does.
Informed(f, c, subject, must, may) ==
  \A d \in Calls : Under(d, c) => Informs(f, d, subject, must, may)

LEMMA ConcreteMe ==
  ASSUME NEW subject, subject.id # Wildcard
  PROVE  IsConcrete(Me(subject))
BY DEF Me, IsConcrete, Node

\* Nothing is told of where the path or the depth is cut off.
LEMMA NothingTold ==
  ASSUME NEW node, NEW subject, NEW must, NEW may
  PROVE  Tells(Expansion(NoSubjects, FALSE), node, subject, must, may)
<1>1. PICK v : v = Expansion(NoSubjects, FALSE)
  OBVIOUS
<1>2. v.set = NoSubjects /\ ~v.complete /\ UsersetsOf(NoSubjects) = {}
  BY <1>1, NothingKnown
<1>3. ~Names(v.set, subject, must)
  BY <1>2, NobodyExpanded DEF Names
<1> QED
  BY <1>1, <1>2, <1>3 DEF Tells

\* With the members of its usersets in their place.
LEMMA MaterializedTells ==
  ASSUME NEW part, NEW v, NEW f, NEW ask, NEW node, NEW subject, NEW must, NEW may,
         subject.id # Wildcard, must \subseteq may,
         Tells(part, node, subject, must, may),
         \A n \in UsersetsOf(part.set) :
           TellsAll(f[InnerCall(n, ask)], NodeAt(NodeKey(n)), subject, must, may),
         Contains(v.set, Me(subject)) <=>
           \/ Contains(Expanded(part.set), Me(subject))
           \/ \E n \in UsersetsOf(part.set) :
                Contains(f[InnerCall(n, ask)].set, Me(subject)),
         v.complete <=>
           part.complete /\ \A n \in UsersetsOf(part.set) : f[InnerCall(n, ask)].complete
  PROVE  TellsAll(v, node, subject, must, may)
<1>1. ASSUME Contains(v.set, Me(subject))
      PROVE  node \in must
  <2>1. Names(part.set, subject, must)
    BY <1>1 DEF Names, TellsAll
  <2> QED
    BY <2>1 DEF Tells
<1>2. ASSUME v.complete, node \in may
      PROVE  Contains(v.set, Me(subject))
  <2>1. Names(part.set, subject, may)
    BY <1>2 DEF Tells
  <2> QED
    BY <1>2, <2>1 DEF Names, TellsAll
<1> QED
  BY <1>1, <1>2 DEF TellsAll

LEMMA InnerTells ==
  ASSUME Sane, NEW d, d \in MemberCall, NEW n \in Usersets, d.members = NodeKey(n),
         NEW f, NEW subject, NEW must, NEW may, Informs(f, d, subject, must, may)
  PROVE  TellsAll(f[d], NodeAt(NodeKey(n)), subject, must, may)
BY UsersetsAreKeys DEF Informs

LEMMA PartTells ==
  ASSUME Sane, NEW c \in RuleCall, <<c.rule, c.key>> \in Nodes, NEW f, Prepared(f, c),
         NEW subject, NEW must, NEW may, subject.id # Wildcard, must \subseteq may,
         Informed(f, c, subject, must, may), NEW part \in Parts(c.rule)
  PROVE  /\ Tells(f[PartCall(c, part)], <<part, c.key>>, subject, must, may)
         /\ TellsAll(PartMembers(f, c, part), <<part, c.key>>, subject, must, may)
<1>1. PICK d : d = PartCall(c, part)
  OBVIOUS
<1>2. d \in RuleCall /\ Under(d, c) /\ d.rule = part /\ d.key = c.key
  BY <1>1, PartUnder DEF PartCall
<1>3. <<part, c.key>> \in Nodes
  BY NodeKinds DEF Sane
<1>4. Tells(f[d], <<part, c.key>>, subject, must, may)
  BY <1>2, <1>3 DEF Informed, Informs, Calls
<1>5. PICK b : b = Deeper(c.ask) /\ b \in Trail
  BY CallKinds, DeeperTrail DEF Calls
<1>6. ASSUME NEW n \in UsersetsOf(f[d].set)
      PROVE  TellsAll(f[InnerCall(n, b)], NodeAt(NodeKey(n)), subject, must, may)
  <2>1. n \in Usersets /\ InnerCall(n, b) \in Calls /\ Under(InnerCall(n, b), c)
    BY <1>1, <1>5, <1>6, PartReady
  <2>2. InnerCall(n, b) \in MemberCall /\ InnerCall(n, b).members = NodeKey(n)
    BY <1>5, <2>1, UsersetsAreKeys, InnerCallIs
  <2>3. Informs(f, InnerCall(n, b), subject, must, may)
    BY <2>1 DEF Informed
  <2> QED
    BY <2>1, <2>2, <2>3, InnerTells
<1>7. PICK v : v = PartMembers(f, c, part)
  OBVIOUS
<1>8. /\ Contains(v.set, Me(subject)) <=>
           \/ Contains(Expanded(f[d].set), Me(subject))
           \/ \E n \in UsersetsOf(f[d].set) : Contains(f[InnerCall(n, b)].set, Me(subject))
      /\ v.complete <=>
           f[d].complete /\ \A n \in UsersetsOf(f[d].set) : f[InnerCall(n, b)].complete
  BY <1>1, <1>5, <1>7, PartMembersAre, ConcreteMe
<1>9. TellsAll(v, <<part, c.key>>, subject, must, may)
  BY <1>4, <1>6, <1>8, MaterializedTells
<1> QED
  BY <1>1, <1>4, <1>7, <1>9

LEMMA KeyTells ==
  ASSUME Sane, NEW c \in RuleCall, NEW f, NEW subject, NEW must, NEW may,
         Informed(f, c, subject, must, may), NEW key \in Key, NodeAt(key) \in Nodes
  PROVE  Tells(KeyResult(f, c, key), NodeAt(key), subject, must, may)
<1>1. PICK b : b = Deeper(c.ask) /\ b \in Trail
  BY CallKinds, DeeperTrail DEF Calls
<1>2. PICK none : none = Expansion(NoSubjects, FALSE)
  OBVIOUS
<1>3. KeyResult(f, c, key) = IF Cut(key, b) THEN none ELSE f[TopCall(key, b)]
  BY <1>1, <1>2, TopCallIs DEF KeyResult, Sane, Typed
<1>4. CASE Cut(key, b)
  BY <1>2, <1>3, <1>4, NothingTold
<1>5. CASE ~Cut(key, b)
  <2>1. PICK d : d = TopCall(key, b)
    OBVIOUS
  <2>2. d \in RuleCall /\ <<d.rule, d.key>> = NodeAt(key)
    BY <1>1, <1>5, <2>1, TopCallIs DEF Sane, Typed
  <2>3. d \in Calls /\ Under(d, c)
    BY <1>1, <1>5, <2>1, KeyUnder DEF Sane, Typed
  <2> QED
    BY <1>3, <1>5, <2>1, <2>2, <2>3 DEF Informed, Informs
<1> QED
  BY <1>4, <1>5

LEMMA MembersTell ==
  ASSUME Sane, NEW c \in MemberCall, NodeAt(c.members) \in Nodes, NEW f, Prepared(f, c),
         NEW subject, NEW must, NEW may, subject.id # Wildcard, must \subseteq may,
         Informed(f, c, subject, must, may)
  PROVE  TellsAll(OneCall(f, c), NodeAt(c.members), subject, must, may)
<1>1. PICK v, b : v = ExpandRecursive(f, c.members, c.ask) /\ b = c.ask
  OBVIOUS
<1>2. c.members \in Key /\ b \in Trail
  BY <1>1 DEF MemberCall
<1>3. PICK none : none = Expansion(NoSubjects, FALSE)
  OBVIOUS
<1>4. v = IF Cut(c.members, b) THEN none ELSE f[TopCall(c.members, b)]
  BY <1>1, <1>2, <1>3, TopCallIs DEF Sane, Typed
<1>5. Tells(v, NodeAt(c.members), subject, must, may)
  <2>1. CASE Cut(c.members, b)
    BY <1>3, <1>4, <2>1, NothingTold
  <2>2. CASE ~Cut(c.members, b)
    <3>1. PICK d : d = TopCall(c.members, b)
      OBVIOUS
    <3>2. d \in RuleCall /\ <<d.rule, d.key>> = NodeAt(c.members)
      BY <1>2, <2>2, <3>1, TopCallIs DEF Sane, Typed
    <3>3. d \in Calls /\ Under(d, c)
      BY <1>1, <2>2, <3>1, MembersKeyUnder DEF Sane, Typed
    <3> QED
      BY <1>4, <2>2, <3>1, <3>2, <3>3 DEF Informed, Informs
  <2> QED
    BY <2>1, <2>2
<1>6. ASSUME NEW n \in UsersetsOf(v.set)
      PROVE  TellsAll(f[InnerCall(n, b)], NodeAt(NodeKey(n)), subject, must, may)
  <2>1. n \in Usersets /\ InnerCall(n, b) \in Calls /\ Under(InnerCall(n, b), c)
    BY <1>1, <1>6, MembersReady
  <2>2. InnerCall(n, b) \in MemberCall /\ InnerCall(n, b).members = NodeKey(n)
    BY <1>2, <2>1, UsersetsAreKeys, InnerCallIs
  <2>3. Informs(f, InnerCall(n, b), subject, must, may)
    BY <2>1 DEF Informed
  <2> QED
    BY <2>1, <2>2, <2>3, InnerTells
<1>7. OneCall(f, c) = Materialized(f, v, b)
  BY <1>1, CallKinds DEF OneCall, ExpandMembers
<1>8. /\ Known(v.set)
      /\ \A n \in UsersetsOf(v.set) : Plain(f[InnerCall(n, b)].set) /\ Finite(f[InnerCall(n, b)].set)
  BY <1>1, MembersReady
<1>9. PICK w : w = Materialized(f, v, b)
  OBVIOUS
<1>10. /\ Contains(w.set, Me(subject)) <=>
            \/ Contains(Expanded(v.set), Me(subject))
            \/ \E n \in UsersetsOf(v.set) : Contains(f[InnerCall(n, b)].set, Me(subject))
       /\ w.complete <=>
            v.complete /\ \A n \in UsersetsOf(v.set) : f[InnerCall(n, b)].complete
  BY <1>8, <1>9, MaterializedIs, ConcreteMe
<1>11. TellsAll(w, NodeAt(c.members), subject, must, may)
  BY <1>5, <1>6, <1>10, MaterializedTells
<1> QED
  BY <1>7, <1>9, <1>11

LEMMA DirectNames ==
  ASSUME Sane, NEW c \in RuleCall, c.rule.kind = "this", NEW subject, subject.id # Wildcard,
         NEW nodes, NEW others
  PROVE  /\ Names(ExpandDirect(c.key).set, subject, nodes) <=>
              Grants(c.rule, c.key, subject, nodes, others)
         /\ ExpandDirect(c.key).complete
<1> DEFINE stored == {x \in TuplesAt(c.key, c.key.relation) : AllowsStored(model, x)}
           found == {SubjectOf(t) : t \in stored}
<1>1. PICK x, set, me : x = ExpandDirect(c.key) /\ set = x.set /\ me = Me(subject)
  OBVIOUS
<1>2. x.complete /\ set.subjects = found /\ DOMAIN set.exceptions = {}
  BY <1>1 DEF ExpandDirect, Expansion, NoSubjects
<1>3. /\ me.type = subject.type /\ me.id = subject.id /\ me.relation = Direct
      /\ IsConcrete(me)
  BY <1>1, ConcreteMe DEF Me, Node
<1>4. Contains(Expanded(set), me) <=>
        me \in found \/ \E n \in found : IsWildcard(n) /\ n.type = me.type
  <2>1. PICK w, f : /\ w = [ns \in {n.type : n \in {y \in set.subjects : IsWildcard(y)}}
                                      \cup DOMAIN set.exceptions |-> Exclusions(set.exceptions, ns)]
                    /\ f = {n \in set.subjects : ~IsWildcard(n)}
    OBVIOUS
  <2>2. Contains(Expanded(set), me) <=> me \in f \/ WildcardIncludes(w, me)
    BY <1>3, <2>1, NormalizedMeans DEF Expanded
  <2>3. me \in f <=> me \in found
    BY <1>2, <1>3, <2>1 DEF IsWildcard, IsConcrete
  <2>4. DOMAIN w = {n.type : n \in {y \in found : IsWildcard(y)}}
    BY <1>2, <2>1
  <2>5. \A ns \in DOMAIN w : w[ns] = {}
    BY <1>2, <2>1 DEF Exclusions
  <2> HIDE DEF found
  <2>6. WildcardIncludes(w, me) <=> \E n \in found : IsWildcard(n) /\ n.type = me.type
    BY <1>3, <2>4, <2>5 DEF WildcardIncludes
  <2> QED
    BY <2>2, <2>3, <2>6
<1>5. ASSUME NEW t \in stored
      PROVE  /\ SubjectOf(t).type = t.subject_type /\ SubjectOf(t).id = t.subject_id
             /\ SubjectOf(t).relation = t.subject_relation
             /\ NodeKey(SubjectOf(t)) = KeyOf(t.subject_type, t.subject_id, t.subject_relation)
  BY DEF SubjectOf, Node, NodeKey
<1>6. \A t \in stored : SubjectOf(t) = me <=>
        t.subject_type = subject.type /\ t.subject_id = subject.id /\ t.subject_relation = Direct
  BY <1>1, <1>5 DEF Me, SubjectOf, Node
<1>7. Contains(Expanded(set), me) <=>
        \E t \in stored : t.subject_relation = Direct /\ SubjectMatches(t, subject)
  BY <1>3, <1>4, <1>5, <1>6 DEF SubjectMatches, IsWildcard
<1>8. (\E n \in UsersetsOf(set) : NodeAt(NodeKey(n)) \in nodes) <=>
        \E t \in stored :
          /\ t.subject_relation # Direct
          /\ NodeAt(KeyOf(t.subject_type, t.subject_id, t.subject_relation)) \in nodes
  BY <1>2, <1>5 DEF UsersetsOf
<1>9. Grants(c.rule, c.key, subject, nodes, others) <=>
        \E t \in stored :
          IF t.subject_relation = Direct THEN SubjectMatches(t, subject)
          ELSE NodeAt(KeyOf(t.subject_type, t.subject_id, t.subject_relation)) \in nodes
  BY DEF Grants
<1> HIDE DEF stored
<1>10. Names(set, subject, nodes) <=> Grants(c.rule, c.key, subject, nodes, others)
  BY <1>1, <1>7, <1>8, <1>9 DEF Names
<1> QED
  BY <1>1, <1>2, <1>10

LEMMA UnionNames ==
  ASSUME NEW parts, IsFiniteSet(parts), NEW subject, subject.id # Wildcard, NEW nodes
  PROVE  Names(ExpandUnion(parts).set, subject, nodes) <=>
           \E p \in parts : Names(p.set, subject, nodes)
<1>1. PICK set : set = ExpandUnion(parts).set
  OBVIOUS
<1>2. /\ \A n : n \in UsersetsOf(set) <=> \E p \in parts : n \in UsersetsOf(p.set)
      /\ Contains(Expanded(set), Me(subject)) <=>
           \E p \in parts : Contains(Expanded(p.set), Me(subject))
  BY <1>1, UnionIs, ConcreteMe
<1> QED
  BY <1>1, <1>2 DEF Names

\* One call tells of its node, if those under it tell of theirs.
LEMMA OneCallTells ==
  ASSUME Sane, NEW c \in RuleCall, <<c.rule, c.key>> \in Nodes, NEW f, Prepared(f, c),
         NEW subject, NEW must, NEW may, subject.id # Wildcard, Fixed(subject, must, may),
         Informed(f, c, subject, must, may)
  PROVE  Tells(OneCall(f, c), <<c.rule, c.key>>, subject, must, may)
<1>1. PICK r, k, node, v : /\ r = c.rule /\ k = c.key /\ node = <<c.rule, c.key>>
                           /\ v = OneCall(f, c)
  OBVIOUS
<1>2. r \in Rule /\ k \in Key /\ must \subseteq may
  BY <1>1 DEF RuleCall, Fixed
<1>3. /\ node \in must <=> Grants(r, k, subject, must, may)
      /\ node \in may <=> Grants(r, k, subject, may, must)
  BY <1>1 DEF Fixed, Granted
<1>4. /\ k \in DefinedOn(Reached)
      /\ r.kind = "computed" => Defines(model, k.object_type, r.relation)
      /\ r.kind = "arrow" =>
           \A t \in TuplesAt(k, r.tuple_relation) :
             AllowsArrow(model, t) => Defines(model, t.subject_type, r.computed_relation)
  BY <1>1, NodeKinds, RestsOnDefined DEF Sane
<1>5. ASSUME NEW p \in Parts(r)
      PROVE  /\ Tells(f[PartCall(c, p)], <<p, k>>, subject, must, may)
             /\ TellsAll(PartMembers(f, c, p), <<p, k>>, subject, must, may)
  BY <1>1, <1>2, PartTells
<1>6. CASE r.kind = "this"
  <2>1. v = ExpandDirect(k)
    BY <1>1, <1>6, OneCallIs
  <2>2. /\ Names(v.set, subject, must) <=> Grants(r, k, subject, must, may)
        /\ Names(v.set, subject, may) <=> Grants(r, k, subject, may, must)
    BY <1>1, <1>6, <2>1, DirectNames
  <2> QED
    BY <1>1, <1>3, <2>2 DEF Tells
<1>7. CASE r.kind = "computed"
  <2>1. PICK key : key = [k EXCEPT !.relation = r.relation]
    OBVIOUS
  <2>2. r.relation \in Name
    BY <1>2, <1>7, RuleKinds
  <2>3. key \in Key /\ key.object_type = k.object_type /\ key.relation = r.relation
    BY <1>2, <2>1, <2>2 DEF Key
  <2>4. NodeAt(key) \in Nodes
    <3>1. Near(key)
      BY <1>4, <2>1, <2>2, ComputedNear DEF Sane
    <3> QED
      BY <1>4, <1>7, <2>3, <3>1 DEF Near
  <2>5. v = KeyResult(f, c, key)
    BY <1>1, <1>7, <2>1, OneCallIs
  <2>6. Tells(v, NodeAt(key), subject, must, may)
    BY <2>3, <2>4, <2>5, KeyTells
  <2>7. \A nodes, others : Grants(r, k, subject, nodes, others) <=> NodeAt(key) \in nodes
    BY <1>7, <2>1 DEF Grants
  <2> QED
    BY <1>1, <1>3, <2>6, <2>7 DEF Tells
<1>8. CASE r.kind = "arrow"
  <2>1. PICK followed : followed = Followed(k, r.tuple_relation)
    OBVIOUS
  <2>2. PICK parts : parts = {KeyResult(f, c, ArrowKey(c, t)) : t \in followed}
    OBVIOUS
  <2>3. v = ExpandUnion(parts) /\ IsFiniteSet(parts)
    BY <1>1, <1>8, <2>1, <2>2, OneCallIs, PartsAreFinite
  <2>4. ASSUME NEW t \in followed
        PROVE  Tells(KeyResult(f, c, ArrowKey(c, t)), NodeAt(ArrowKey(c, t)), subject, must, may)
    <3>1. t \in TuplesAt(k, r.tuple_relation) /\ AllowsArrow(model, t)
      BY <2>1 DEF Followed
    <3>2. r.computed_relation \in Name
      BY <1>2, <1>8, RuleKinds
    <3>3. PICK key : key = ArrowKey(c, t)
      OBVIOUS
    <3>4. key = KeyOf(t.subject_type, t.subject_id, r.computed_relation)
      BY <1>1, <3>3 DEF ArrowKey
    <3>5. Near(key)
      BY <3>1, <3>2, <3>4, EdgesNear DEF Sane
    <3>6. key.object_type = t.subject_type /\ key.relation = r.computed_relation
      BY <3>4 DEF KeyOf
    <3>7. key \in Key /\ NodeAt(key) \in Nodes
      BY <1>4, <1>8, <3>1, <3>5, <3>6 DEF Near
    <3> QED
      BY <3>3, <3>7, KeyTells
  <2>5. \A nodes, others : Grants(r, k, subject, nodes, others) <=>
          \E t \in followed : NodeAt(ArrowKey(c, t)) \in nodes
    BY <1>1, <1>8, <2>1 DEF Grants, Followed, ArrowKey
  <2>6. \A nodes : Names(v.set, subject, nodes) <=>
          \E t \in followed : Names(KeyResult(f, c, ArrowKey(c, t)).set, subject, nodes)
    <3>1. ASSUME NEW nodes
          PROVE  Names(v.set, subject, nodes) <=> \E p \in parts : Names(p.set, subject, nodes)
      BY <2>3, UnionNames
    <3> QED
      BY <2>2, <3>1
  <2>7. v.complete <=> \A t \in followed : KeyResult(f, c, ArrowKey(c, t)).complete
    <3>1. v.complete <=> \A p \in parts : p.complete
      BY <2>3, UnionIs
    <3> QED
      BY <2>2, <3>1
  <2> QED
    BY <1>1, <1>3, <2>4, <2>5, <2>6, <2>7 DEF Tells
<1>9. CASE r.kind = "union"
  <2>1. PICK parts : parts = {f[PartCall(c, p)] : p \in r.children}
    OBVIOUS
  <2>2. v = ExpandUnion(parts) /\ IsFiniteSet(parts)
    BY <1>1, <1>9, <2>1, OneCallIs, PartsAreFinite
  <2>3. \A p \in r.children : Tells(f[PartCall(c, p)], <<p, k>>, subject, must, may)
    BY <1>2, <1>5, <1>9, RuleKinds
  <2>4. \A nodes, others : Grants(r, k, subject, nodes, others) <=>
          \E p \in r.children : <<p, k>> \in nodes
    BY <1>9 DEF Grants
  <2>5. \A nodes : Names(v.set, subject, nodes) <=>
          \E p \in r.children : Names(f[PartCall(c, p)].set, subject, nodes)
    <3>1. ASSUME NEW nodes
          PROVE  Names(v.set, subject, nodes) <=> \E p \in parts : Names(p.set, subject, nodes)
      BY <2>2, UnionNames
    <3> QED
      BY <2>1, <3>1
  <2>6. v.complete <=> \A p \in r.children : f[PartCall(c, p)].complete
    <3>1. v.complete <=> \A p \in parts : p.complete
      BY <2>2, UnionIs
    <3> QED
      BY <2>1, <3>1
  <2> QED
    BY <1>1, <1>3, <2>3, <2>4, <2>5, <2>6 DEF Tells
<1>10. CASE r.kind = "intersection"
  <2>1. PICK parts : parts = {f[PartCall(c, p)] : p \in r.children}
    OBVIOUS
  <2>2. v = ExpandIntersection(f, parts, c.ask) /\ IsFiniteSet(parts)
    BY <1>1, <1>10, <2>1, OneCallIs, PartsAreFinite
  <2>3. \A p \in r.children : p \in Parts(r)
    BY <1>2, <1>10, RuleKinds
  <2>4. \A p \in r.children : TellsAll(PartMembers(f, c, p), <<p, k>>, subject, must, may)
    BY <1>5, <2>3
  <2>5. ASSUME NEW p \in parts
        PROVE  /\ Plain(Materialized(f, p, Deeper(c.ask)).set)
               /\ Finite(Materialized(f, p, Deeper(c.ask)).set)
    <3>1. PICK q \in r.children : p = f[PartCall(c, q)]
      BY <2>1, <2>5
    <3> QED
      BY <1>1, <2>3, <3>1, PartMembersAre DEF PartMembers
  <2>6. r.children # {}
    <3>1. /\ k \in Key /\ Defines(model, k.object_type, k.relation)
          /\ r \in RulesOf(model[k.object_type][k.relation].rewrite)
      BY <1>1, NodeKinds, ReachedTyped, DefinedAreKeys DEF NodeAt, Sane, Typed
    <3>2. ValidRewrite(model[k.object_type], k.relation)
      BY <3>1 DEF ValidSchema, Defines, Sane
    <3> QED
      BY <1>10, <3>1, <3>2 DEF ValidRewrite
  <2>7. parts # {}
    BY <2>1, <2>6
  <2>8. /\ UsersetsOf(v.set) = {}
        /\ Contains(Expanded(v.set), Me(subject)) <=>
             \A p \in parts : Contains(Materialized(f, p, Deeper(c.ask)).set, Me(subject))
        /\ v.complete <=> \A p \in parts : Materialized(f, p, Deeper(c.ask)).complete
    BY <2>2, <2>5, <2>7, IntersectionIs, ConcreteMe
  <2>9. /\ Contains(Expanded(v.set), Me(subject)) <=>
             \A p \in r.children : Contains(PartMembers(f, c, p).set, Me(subject))
        /\ v.complete <=> \A p \in r.children : PartMembers(f, c, p).complete
    BY <2>1, <2>8 DEF PartMembers
  <2>10. \A nodes : Names(v.set, subject, nodes) <=>
           \A p \in r.children : Contains(PartMembers(f, c, p).set, Me(subject))
    BY <2>8, <2>9 DEF Names
  <2>11. \A nodes, others : Grants(r, k, subject, nodes, others) <=>
           \A p \in r.children : <<p, k>> \in nodes
    BY <1>10 DEF Grants
  <2> QED
    BY <1>1, <1>2, <1>3, <2>4, <2>9, <2>10, <2>11 DEF Tells, TellsAll
<1>11. CASE r.kind = "exclusion"
  <2>1. PICK base, subtract, from, less :
          /\ base = f[PartCall(c, r.base)] /\ subtract = f[PartCall(c, r.subtract)]
          /\ from = PartMembers(f, c, r.base) /\ less = PartMembers(f, c, r.subtract)
    OBVIOUS
  <2>2. r.base \in Parts(r) /\ r.subtract \in Parts(r)
    BY <1>2, <1>11, RuleKinds
  <2>3. v = ExpandExclusion(f, base, subtract, c.ask)
    BY <1>1, <1>11, <2>1, OneCallIs
  <2>4. /\ from = Materialized(f, base, Deeper(c.ask))
        /\ less = Materialized(f, subtract, Deeper(c.ask))
    BY <2>1 DEF PartMembers
  <2>5. /\ Plain(from.set) /\ Finite(from.set)
        /\ Plain(less.set) /\ Finite(less.set) /\ IsNormal(less.set)
    BY <1>1, <2>1, <2>2, PartMembersAre
  <2>6. /\ UsersetsOf(v.set) = {}
        /\ Contains(Expanded(v.set), Me(subject)) <=>
             less.complete /\ Contains(from.set, Me(subject)) /\ ~Contains(less.set, Me(subject))
        /\ v.complete <=> less.complete /\ from.complete
    BY <2>3, <2>4, <2>5, ExclusionIs, ConcreteMe
  <2>7. /\ TellsAll(from, <<r.base, k>>, subject, must, may)
        /\ TellsAll(less, <<r.subtract, k>>, subject, must, may)
    BY <1>5, <2>1, <2>2
  <2>8. \A nodes : Names(v.set, subject, nodes) <=>
          less.complete /\ Contains(from.set, Me(subject)) /\ ~Contains(less.set, Me(subject))
    BY <2>6 DEF Names
  <2>9. \A nodes, others : Grants(r, k, subject, nodes, others) <=>
          /\ <<r.base, k>> \in nodes
          /\ <<r.base, k>> \in others => <<r.subtract, k>> \notin others
    BY <1>11 DEF Grants
  <2> QED
    BY <1>1, <1>2, <1>3, <2>6, <2>7, <2>8, <2>9 DEF Tells, TellsAll
<1> QED
  BY <1>2, <1>6, <1>7, <1>8, <1>9, <1>10, <1>11, RuleKinds

LEMMA ExpansionsTell ==
  ASSUME Sane, NEW subject, subject.id # Wildcard, NEW must, NEW may, Fixed(subject, must, may)
  PROVE  \A c \in Calls : Informs(Expansions, c, subject, must, may)
<1>1. PICK f : f = Expansions
  OBVIOUS
<1>2. \A c \in Calls : f[c] = OneCall(f, c) /\ Shaped(f[c], c)
  BY <1>1, ExpansionsEvaluated
<1> DEFINE bad == {c \in Calls : ~Informs(f, c, subject, must, may)}
<1> SUFFICES ASSUME bad # {} PROVE FALSE
  BY <1>1
<1>3. PICK c \in bad : \A d \in bad : ~Under(d, c)
  BY Innermost
<1>4. Prepared(f, c) /\ Informed(f, c, subject, must, may)
  BY <1>2, <1>3 DEF Prepared, Informed
<1>5. c \in RuleCall /\ <<c.rule, c.key>> \in Nodes =>
        Tells(OneCall(f, c), <<c.rule, c.key>>, subject, must, may)
  BY <1>4, OneCallTells
<1>6. must \subseteq may
  BY DEF Fixed
<1>7. c \in MemberCall /\ NodeAt(c.members) \in Nodes =>
        TellsAll(OneCall(f, c), NodeAt(c.members), subject, must, may)
  BY <1>4, <1>6, MembersTell
<1> QED
  BY <1>2, <1>3, <1>5, <1>7 DEF Informs

------------------------------------------------------------------------------
\* Against the checks

LEMMA FiniteTuples == Spec => []IsFiniteSet(tuples)
<1>1. Init => IsFiniteSet(tuples)
  BY FS_EmptySet DEF Init
<1>2. IsFiniteSet(tuples) /\ [Next]_vars => IsFiniteSet(tuples)'
  <2> SUFFICES ASSUME IsFiniteSet(tuples), [Next]_vars PROVE IsFiniteSet(tuples')
    OBVIOUS
  <2>1. tuples' = tuples \/ \E t : tuples' = tuples \cup {t} \/ tuples' = tuples \ {t}
    BY DEF Next, Register, Update, NewEngine, Write, Delete, vars
  <2> QED
    BY <2>1, FS_AddElement, FS_Subset
<1> QED
  BY <1>1, <1>2, PTL DEF Spec

\* What a check allows, once nothing more is left to settle.
LEMMA AllowedIsMust ==
  ASSUME Sane, NEW subject \in Subjects, NEW stage, stage = Stages(subject)[MaxDepth],
         Settle(subject, stage) = stage,
         NEW key \in Key, Defines(model, key.object_type, key.relation), NodeAt(key) \in Nodes
  PROVE  Allowed(key, subject, MaxDepth) <=> NodeAt(key) \in stage.must
BY CheckSettled DEF Sane, Allowed

LEMMA ExpansionMatches ==
  ASSUME Sane, NEW subject \in Subjects, subject.id # Wildcard,
         NEW stage, stage = Stages(subject)[MaxDepth], Settle(subject, stage) = stage,
         NEW key \in DefinedKeys, NEW limit \in Nat
  PROVE  /\ Includes(Expand(key, limit).set, subject) => Allowed(key, subject, MaxDepth)
         /\ Expand(key, limit).complete /\ Allowed(key, subject, MaxDepth) =>
              Includes(Expand(key, limit).set, subject)
<1>1. PICK must, may : must = stage.must /\ may = stage.may
  OBVIOUS
<1>2. Fixed(subject, must, may)
  <2>1. Granted(subject, must, may) = must /\ Granted(subject, may, must) = may
    BY <1>1 DEF Settle
  <2>2. must \subseteq may
    BY <1>1, StagesRise, DepthAssumption DEF Rising, MustAt, MayAt, Sane
  <2> QED
    BY <2>1, <2>2 DEF Fixed
<1>3. key \in Key /\ Defines(model, key.object_type, key.relation)
  BY DefinedAreKeys, InputAssumption DEF DefinedKeys, Sane, Typed
<1>4. NodeAt(key) \in Nodes
  BY NodeOfKey DEF DefinedKeys, DefinedOn, Reached, Sane
<1>5. Allowed(key, subject, MaxDepth) <=> NodeAt(key) \in must
  BY <1>1, <1>3, <1>4, AllowedIsMust
<1>6. PICK ask : ask = FromTop(limit)
  OBVIOUS
<1>7. ask \in Trail /\ ask.visited = {} /\ ask.depth = 0 /\ ask.limit = limit
  BY <1>6 DEF FromTop, Trail
<1>8. ~Cut(key, ask)
  BY <1>3, <1>7 DEF Cut
<1>9. PICK d : d = TopCall(key, ask)
  OBVIOUS
<1>10. d \in RuleCall /\ <<d.rule, d.key>> = NodeAt(key)
  BY <1>3, <1>7, <1>8, <1>9, TopCallIs DEF Sane, Typed
<1>11. PICK v : v = Expand(key, limit)
  OBVIOUS
<1>12. v = Expansions[d]
  BY <1>3, <1>6, <1>7, <1>8, <1>9, <1>11, TopCallIs DEF Expand, Sane, Typed
<1>13. Tells(v, NodeAt(key), subject, must, may)
  BY <1>2, <1>4, <1>10, <1>12, ExpansionsTell DEF Informs, Calls
<1>14. Known(v.set)
  BY <1>10, <1>12, ExpansionsEvaluated DEF Shaped, Calls
<1>15. Includes(v.set, subject) <=> Names(v.set, subject, must)
  <2>1. ASSUME NEW n \in UsersetsOf(v.set)
        PROVE  Allowed(NodeKey(n), subject, MaxDepth) <=> NodeAt(NodeKey(n)) \in must
    <3>1. n \in Usersets
      BY <1>14, <2>1 DEF Known
    <3>2. PICK k : k = NodeKey(n)
      OBVIOUS
    <3>3. k.object_type = n.type /\ k.relation = n.relation
      BY <3>2 DEF NodeKey, KeyOf
    <3>4. k \in Key /\ Defines(model, k.object_type, k.relation) /\ NodeAt(k) \in Nodes
      BY <3>1, <3>2, <3>3, UsersetsAreKeys
    <3> QED
      BY <1>1, <3>2, <3>4, AllowedIsMust
  <2> QED
    BY <2>1 DEF Includes, Names, UsersetsOf, Me
<1> QED
  BY <1>5, <1>11, <1>13, <1>15 DEF Tells

\* Whatever is cut off from it, an expansion names nobody but whom a check
\* allows, and if nothing is, everybody (ExpandMatchesCheck), for any schema,
\* tuples, wildcards and nesting of exclusions, at any depth limit, where the
\* limit is enough for the checks (_evaluate_rule, _materialize).
THEOREM ExpansionsAreExact == Spec => []ExpandMatchesCheck
<1>1. Typed /\ TypeOK /\ IsFiniteSet(tuples) => ExpandMatchesCheck
  <2> SUFFICES ASSUME Typed, TypeOK, IsFiniteSet(tuples),
                      NEW subject \in {s \in Subjects : s.id # Wildcard},
                      NEW stage, stage = Stages(subject)[MaxDepth],
                      Settle(subject, stage) = stage,
                      NEW key \in DefinedKeys, NEW limit \in Shallower \cup {MaxDepth}
               PROVE  /\ Includes(Expand(key, limit).set, subject) =>
                           Allowed(key, subject, MaxDepth)
                      /\ Expand(key, limit).complete /\ Allowed(key, subject, MaxDepth) =>
                           Includes(Expand(key, limit).set, subject)
    BY DEF ExpandMatchesCheck
  <2>1. Sane
    BY DEF Sane, TypeOK
  <2>2. limit \in Nat
    BY DepthAssumption
  <2> QED
    BY <2>1, <2>2, ExpansionMatches
<1>2. Spec => [](Typed /\ TypeOK)
  BY InitTyped, TypedStep, PTL DEF Spec
<1> QED
  BY <1>1, <1>2, FiniteTuples, PTL

==============================================================================
