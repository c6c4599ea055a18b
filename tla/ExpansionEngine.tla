---------------------------- MODULE ExpansionEngine ---------------------------
(***************************************************************************)
(* ExpansionEngine: who has a relation to an object?  Tuples and unions    *)
(* keep group:g#member as it stands; intersections and exclusions put its  *)
(* members in its place first.                                             *)
(*                                                                         *)
(* The code raises _ExpansionIncomplete from a truncated branch where the  *)
(* caller cannot do with less than everybody, that is, in what an          *)
(* exclusion subtracts.  Here each expansion says whether it is complete,  *)
(* and the exclusion asks.                                                 *)
(***************************************************************************)
EXTENDS CheckEngine, ExpandedSubjects, FiniteSetsExt

\* A traversal: as of a check, without a subject.
Trail == [limit : Nat, depth : Nat, visited : SUBSET Key]

\* A call of _evaluate_rule, and one for the members of a userset, which
\* _materialize expands and materializes in turn.
RuleCall == [rule : Rule, key : Key, ask : Trail]
MemberCall == [members : Key, ask : Trail]

Expansion(set, complete) == [set |-> set, complete |-> complete]

FromTop(limit) == [limit |-> limit, depth |-> 0, visited |-> {}]

Together(values) == FoldSet(Either, Expanded(NoSubjects), values)

\* What all of the values have, and nothing, where there are none.
Common(values) ==
  IF values = {} THEN Expanded(NoSubjects)
  ELSE FoldSet(Both, CHOOSE v \in values : TRUE, values)

NodeKey(node) == KeyOf(node.type, node.id, node.relation)

------------------------------------------------------------------------------
\* One call, given the results of the calls it makes.

\* _expand_recursive.  An unknown relation raises in the code; no edge leads to
\* one (EdgesDefined), and nobody is expanded of it here.
ExpandRecursive(results, key, ask) ==
  IF \/ key \in ask.visited
     \/ ask.depth > ask.limit
     \/ ~Defines(model, key.object_type, key.relation)
  THEN Expansion(NoSubjects, FALSE)
  ELSE results[[rule |-> model[key.object_type][key.relation].rewrite, key |-> key,
                ask |-> [ask EXCEPT !.visited = @ \cup {key}]]]

\* _expand_direct
ExpandDirect(key) ==
  Expansion([NoSubjects EXCEPT !.subjects =
               {SubjectOf(t) : t \in {x \in TuplesAt(key, key.relation) :
                                        AllowsStored(model, x)}}],
            TRUE)

\* Of unions, and of the targets of an arrow.
ExpandUnion(parts) ==
  Expansion(Rendered(Together({Expanded(p.set) : p \in parts})),
            \A p \in parts : p.complete)

\* _materialize: an expanded value in place of a subject set.
Materialized(results, part, ask) ==
  LET usersets == {n \in part.set.subjects : n.relation # Direct}
      inner == {results[[members |-> NodeKey(n), ask |-> Deeper(ask)]] : n \in usersets}
  IN Expansion(Together({Expanded([part.set EXCEPT !.subjects = @ \ usersets])}
                        \cup {m.set : m \in inner}),
               part.complete /\ \A m \in inner : m.complete)

ExpandIntersection(results, parts, ask) ==
  LET values == {Materialized(results, p, Deeper(ask)) : p \in parts}
  IN Expansion(Rendered(Common({v.set : v \in values})), \A v \in values : v.complete)

\* Mutant: what could be expanded of the subtracted side will do.
ExpandExclusionLoose(results, base, subtract, ask) ==
  LET from == Materialized(results, base, Deeper(ask))
      less == Materialized(results, subtract, Deeper(ask))
  IN Expansion(Rendered(Without(from.set, less.set)), from.complete)

\* Nobody, where what is subtracted is not known to the last subject.
ExpandExclusion(results, base, subtract, ask) ==
  LET from == Materialized(results, base, Deeper(ask))
      less == Materialized(results, subtract, Deeper(ask))
  IN IF less.complete
     THEN Expansion(Rendered(Without(from.set, less.set)), from.complete)
     ELSE Expansion(NoSubjects, FALSE)

\* _evaluate_rule
ExpandRule(results, rule, key, ask) ==
  LET ExpandPart(part) == results[[rule |-> part, key |-> key, ask |-> Deeper(ask)]]
  IN CASE rule.kind = "this" -> ExpandDirect(key)
       [] rule.kind = "computed" ->
            ExpandRecursive(results, [key EXCEPT !.relation = rule.relation], Deeper(ask))
       [] rule.kind = "arrow" ->
            ExpandUnion({ExpandRecursive(results, KeyOf(t.subject_type, t.subject_id,
                                                        rule.computed_relation), Deeper(ask)) :
                         t \in Followed(key, rule.tuple_relation)})
       [] rule.kind = "union" -> ExpandUnion({ExpandPart(c) : c \in rule.children})
       [] rule.kind = "intersection" ->
            ExpandIntersection(results, {ExpandPart(c) : c \in rule.children}, ask)
       [] rule.kind = "exclusion" ->
            ExpandExclusion(results, ExpandPart(rule.base), ExpandPart(rule.subtract), ask)

ExpandMembers(results, key, ask) ==
  Materialized(results, ExpandRecursive(results, key, ask), ask)

\* Calls nest in the depth and, past the limit, in the rule alone.
Expansions[c \in RuleCall \cup MemberCall] ==
  IF c \in RuleCall THEN ExpandRule(Expansions, c.rule, c.key, c.ask)
  ELSE ExpandMembers(Expansions, c.members, c.ask)

------------------------------------------------------------------------------

Expand(key, limit) == ExpandRecursive(Expansions, key, FromTop(limit))

==============================================================================
