----------------------------- MODULE LookupEngine -----------------------------
(***************************************************************************)
(* LookupEngine: which objects of a type does a subject have a relation    *)
(* to?  Found by walking relation tuples backwards from the subject; when  *)
(* the walk can find too much, what it found is checked object by object.  *)
(*                                                                         *)
(* A ref is a relation of a namespace, a node a subject of stored tuples,  *)
(* and what is looked up is the set of ids of the objects of one type.     *)
(***************************************************************************)
EXTENDS CheckEngine

Ref(ns, name) == [type |-> ns, relation |-> name]
RefOf(node) == Ref(node.type, node.relation)

LookupRef == [type : Namespace, relation : Name]
DefinedRefs == UNION {{Ref(ns, name) : name \in DOMAIN model[ns]} : ns \in DOMAIN model}

IsDefined(ref) == Defines(model, ref.type, ref.relation)
RewriteOf(ref) == model[ref.type][ref.relation].rewrite

ArrowTargets(rule, ns) ==
  {Ref(target, rule.computed_relation) : target \in TargetTypes(model[ns], rule.tuple_relation)}

\* The refs that a rule of namespace ns names.
LeafRefs(rule, ns) ==
  CASE rule.kind = "computed" -> {Ref(ns, rule.relation)}
    [] rule.kind = "arrow"    -> ArrowTargets(rule, ns)
    [] OTHER                  -> {}

------------------------------------------------------------------------------
\* What a lookup of a ref may have to do with

\* CompiledAuthorizationModel.allowed_userset_refs
UsersetRefs(ref) ==
  {Ref(s.type, s.relation) : s \in {x \in model[ref.type][ref.relation].subjects :
                                     x.relation # Direct}}

\* The parts that add to what a rule grants: what is excluded adds nobody.
Adding(rule) == IF rule.kind = "exclusion" THEN {rule.base} ELSE Parts(rule)

\* _rewrite_dependencies: the rules nested in a rule that lead elsewhere, and
\* how deep.  (The code keeps the least cost of each; so does the walk.)
Leaves[rule \in Rule] ==
  IF rule.kind \in {"computed", "arrow"} THEN {[leaf |-> rule, cost |-> 1]}
  ELSE {[l EXCEPT !.cost = @ + 1] : l \in UNION {Leaves[p] : p \in Adding(rule)}}

\* _rewrite_dependency_refs
DependenciesOf(ref) ==
  UNION {{[ref |-> r, leaf |-> l.leaf, cost |-> l.cost] : r \in LeafRefs(l.leaf, ref.type)} :
           l \in Leaves[RewriteOf(ref)]}

\* What a worklist comes to that starts with refs and goes `onward` from each
\* that is defined: after so many rounds, there is nothing more to add.
Spread(refs, onward) ==
  LET spread[n \in Nat] ==
        IF n = 0 THEN refs
        ELSE LET met == spread[n - 1]
             IN met \cup UNION {onward[r] : r \in met \cap DefinedRefs}
  IN spread[Cardinality(DefinedRefs)]

\* _reachable_userset_refs
Reachable(ref) ==
  Spread(UsersetRefs(ref),
         [r \in DefinedRefs |-> UsersetRefs(r) \cup {d.ref : d \in DependenciesOf(r)}])

\* _rewrite_relation_refs: of both sides of an exclusion.
RewriteRefs(ref) == UNION {LeafRefs(rule, ref.type) : rule \in RulesOf(RewriteOf(ref))}

Crossed(ref) == Spread({ref}, [r \in DefinedRefs |-> RewriteRefs(r)])

\* _relation_uses_complex_userset
UsesComplexUserset(ref) ==
  \E u \in Reachable(ref) : ~IsDefined(u) \/ RewriteOf(u).kind # "this"

\* Mutant: only an exclusion of the relation itself calls for checks.
NeedsFilterOnTop(ref) ==
  \E rule \in RulesOf(RewriteOf(ref)) : rule.kind = "exclusion"

\* _needs_canonical_check_filter
NeedsFilter(ref) ==
  \E r \in Crossed(ref) :
    /\ IsDefined(r)
    /\ \/ \E rule \in RulesOf(RewriteOf(r)) : rule.kind = "exclusion"
       \/ UsesComplexUserset(r)

------------------------------------------------------------------------------
\* _lookup_direct: the walk.  Its worklist settles on the least depth at which
\* each node is met, whatever the order it is worked in.

\* _direct_subject_matches
Starts(subject) ==
  {Node(subject.type, id, Direct) : id \in {subject.id, Wildcard}}

\* The tuples of refs with a node as their subject.
TuplesOf(node, refs) ==
  {t \in tuples : /\ SubjectOf(t) = node
                  /\ Ref(t.object_type, t.relation) \in refs
                  /\ AllowsStored(model, t)}

\* Objects from which an arrow over `edge` leads to the object of a node.
Holders(ns, edge, node) ==
  {t.object_id : t \in {x \in tuples : /\ x.object_type = ns
                                       /\ x.relation = edge
                                       /\ SubjectOf(x) = [node EXCEPT !.relation = Direct]
                                       /\ AllowsArrow(model, x)}}

\* The usersets that tuples put a node in, and those that a rewrite rule puts
\* its members in, with what each adds to the depth.
TupleSteps(node, refs) ==
  {[node |-> Node(t.object_type, t.object_id, t.relation), cost |-> 1] :
     t \in TuplesOf(node, refs)}

RewriteSteps(node, refs) ==
  UNION {UNION {{[node |-> Node(parent.type, id, parent.relation), cost |-> d.cost] :
                   id \in IF d.leaf.kind = "computed" THEN {node.id}
                          ELSE Holders(parent.type, d.leaf.tuple_relation, node)} :
                d \in {x \in DependenciesOf(parent) : x.ref = RefOf(node)}} :
         parent \in refs}

Onward(node, refs) ==
  TupleSteps(node, refs) \cup (IF node.relation = Direct THEN {} ELSE RewriteSteps(node, refs))

\* _userset_semantically_reachable
Confirmed(node, subject, limit) ==
  \/ RewriteOf(RefOf(node)).kind = "this"
  \/ Allowed(KeyOf(node.type, node.id, node.relation), subject, limit)

\* The nodes met within so many levels of the start, with the least of each.
Met(refs, subject, limit) ==
  LET walk[level \in Nat] ==
        IF level = 0 THEN {[node |-> n, cost |-> 0] : n \in Starts(subject)}
        ELSE LET met == walk[level - 1]
                 new == UNION {{s.node : s \in {x \in Onward(m.node, refs) :
                                                  m.cost + x.cost = level}} : m \in met}
             IN met \cup {[node |-> n, cost |-> level] :
                            n \in {x \in new : /\ x \notin {m.node : m \in met}
                                               /\ Confirmed(x, subject, limit)}}
  IN walk

LookupDirect(ref, ask) ==
  LET levels == IF ask.depth > ask.limit THEN 0 ELSE ask.limit - ask.depth
      nodes == {m.node : m \in Met(Reachable(ref), ask.subject, ask.limit)[levels]}
  IN {t.object_id : t \in UNION {TuplesOf(n, {ref}) : n \in nodes}}

------------------------------------------------------------------------------
\* One call, given the results of the calls it makes.

\* A call of _evaluate_rule: a rule, the ref it is the rewrite of, and how the
\* traversal got there.  Calls differ from those of checks in what they visit.
LookupCall ==
  [rule : Rule, ref : LookupRef,
   ask : [subject : [type : Namespace, id : Id], limit : Nat, depth : Nat,
          visited : SUBSET LookupRef]]

\* _lookup_recursive: a relation of its own tuples is no part of a cycle.
LookupRecursive(found, ref, ask) ==
  IF \/ ask.depth > ask.limit
     \/ ~IsDefined(ref)
     \/ RewriteOf(ref).kind # "this" /\ ref \in ask.visited
  THEN {}
  ELSE found[[rule |-> RewriteOf(ref), ref |-> ref,
              ask |-> [ask EXCEPT !.visited = @ \cup {ref}]]]

\* _lookup_tuple_to_userset: each target is looked up with a fresh stack.
LookupArrow(found, rule, ref, ask) ==
  LET fresh == [Deeper(ask) EXCEPT !.visited = {}]
  IN UNION {UNION {Holders(ref.type, rule.tuple_relation, Node(target.type, id, Direct)) :
                     id \in LookupRecursive(found, target, fresh)} :
            target \in ArrowTargets(rule, ref.type)}

\* _evaluate_rule
LookupRule(found, rule, ref, ask) ==
  LET LookupPart(part) == found[[rule |-> part, ref |-> ref, ask |-> Deeper(ask)]]
  IN CASE rule.kind = "this" -> LookupDirect(ref, ask)
       [] rule.kind = "computed" ->
            LookupRecursive(found, Ref(ref.type, rule.relation), Deeper(ask))
       [] rule.kind = "arrow" -> LookupArrow(found, rule, ref, ask)
       [] rule.kind = "union" -> UNION {LookupPart(c) : c \in rule.children}
       [] rule.kind = "intersection" ->
            LET parts == {LookupPart(c) : c \in rule.children}
            IN {id \in UNION parts : \A ids \in parts : id \in ids}
       [] rule.kind = "exclusion" -> LookupPart(rule.base) \ LookupPart(rule.subtract)

\* Calls nest as those of checks do.
Resources[c \in LookupCall] == LookupRule(Resources, c.rule, c.ref, c.ask)

------------------------------------------------------------------------------

\* lookup_resources
LookupResources(ref, subject, limit) ==
  LET found == LookupRecursive(Resources, ref, Ask(subject, limit))
  IN IF NeedsFilter(ref)
     THEN {id \in found : Allowed(KeyOf(ref.type, id, ref.relation), subject, limit)}
     ELSE found

==============================================================================
