----------------------------- MODULE CheckEngine -----------------------------
(***************************************************************************)
(* CheckEngine: does a subject have a relation to an object?  The answer   *)
(* is ALLOW, DENY or UNKNOWN; the caller sees whether it is ALLOW.  All    *)
(* reads of a check are made at one revision, whose tuples do not change:  *)
(* a check is a function of the model and of these tuples.                 *)
(***************************************************************************)
EXTENDS CompiledModel

CONSTANT Id  \* ids of objects and subjects, the wildcard among them

VARIABLES
  model,   \* the engine's compiled model
  tuples   \* the relation tuples at the revision checked

Allow == "allow"
Deny == "deny"
Unknown == "unknown"

\* A traversal: the subject and the depth limit asked for, the depth, and the
\* keys that are being evaluated.  The subject is part of the code's visited
\* keys; it never changes in a traversal.
Ask(subject, limit) ==
  [subject |-> subject, limit |-> limit, depth |-> 0, visited |-> {}]

Key == [object_type : Namespace, object_id : Id, relation : Name]

RelationTuple ==
  [object_type : Namespace, object_id : Id, relation : Name,
   subject_type : Namespace, subject_id : Id, subject_relation : Name \cup {Direct}]

\* A call of _evaluate_rule: a rule, the key it is the rewrite of, and how the
\* traversal got there.
Call ==
  [rule : Rule, key : Key,
   ask : [subject : [type : Namespace, id : Id], limit : Nat, depth : Nat,
          visited : SUBSET Key]]

Deeper(ask) == [ask EXCEPT !.depth = @ + 1]

\* Mutant: whoever comes back to a key has found nothing there.
TruncatedDenies == Deny

\* A cycle, the depth limit or an unknown relation.
Truncated == Unknown

\* Mutant: what is not known outweighs what is.
SomeUnknownFirst(results) ==
  IF Unknown \in results THEN Unknown ELSE IF Allow \in results THEN Allow ELSE Deny

\* Union, and the tuples of a relation.
Some(results) ==
  IF Allow \in results THEN Allow ELSE IF Unknown \in results THEN Unknown ELSE Deny

Every(results) ==
  IF Deny \in results THEN Deny ELSE IF Unknown \in results THEN Unknown ELSE Allow

\* Mutant: a base that is known is enough.
ButNotOptimistic(base, subtract) ==
  IF base # Allow THEN base ELSE IF subtract = Allow THEN Deny ELSE Allow

ButNot(base, subtract) ==
  IF base # Allow THEN base
  ELSE IF subtract = Allow THEN Deny
  ELSE IF subtract = Deny THEN Allow
  ELSE Unknown

\* TupleFilter.from_object, then the relation.
TuplesAt(key, name) ==
  {t \in tuples : /\ t.object_type = key.object_type
                  /\ t.object_id = key.object_id
                  /\ t.relation = name}

SubjectMatches(t, subject) ==
  /\ t.subject_type = subject.type
  /\ t.subject_id \in {subject.id, Wildcard}

KeyOf(type, id, name) == [object_type |-> type, object_id |-> id, relation |-> name]

------------------------------------------------------------------------------
\* One call, given the answers of the calls it makes.

\* _check_recursive
CheckRecursive(answers, key, ask) ==
  IF \/ key \in ask.visited
     \/ ask.depth > ask.limit
     \/ ~Defines(model, key.object_type, key.relation)
  THEN Truncated
  ELSE answers[[rule |-> model[key.object_type][key.relation].rewrite, key |-> key,
                ask |-> [ask EXCEPT !.visited = @ \cup {key}]]]

\* _check_direct
CheckDirect(answers, key, ask) ==
  Some({IF t.subject_relation # Direct
          THEN CheckRecursive(answers,
                              KeyOf(t.subject_type, t.subject_id, t.subject_relation),
                              Deeper(ask))
          ELSE IF SubjectMatches(t, ask.subject) THEN Allow ELSE Deny :
        t \in {x \in TuplesAt(key, key.relation) : AllowsStored(model, x)}})

Followed(key, edge) == {t \in TuplesAt(key, edge) : AllowsArrow(model, t)}

\* _check_tuple_to_userset
CheckArrow(answers, rule, key, ask) ==
  Some({CheckRecursive(answers,
                       KeyOf(t.subject_type, t.subject_id, rule.computed_relation),
                       Deeper(ask)) :
        t \in Followed(key, rule.tuple_relation)})

EvaluateRule(answers, rule, key, ask) ==
  LET CheckPart(part) == answers[[rule |-> part, key |-> key, ask |-> Deeper(ask)]]
  IN CASE rule.kind = "this" -> CheckDirect(answers, key, ask)
       [] rule.kind = "computed" ->
            CheckRecursive(answers, [key EXCEPT !.relation = rule.relation], Deeper(ask))
       [] rule.kind = "arrow" -> CheckArrow(answers, rule, key, ask)
       [] rule.kind = "union" -> Some({CheckPart(c) : c \in rule.children})
       [] rule.kind = "intersection" -> Every({CheckPart(c) : c \in rule.children})
       [] rule.kind = "exclusion" -> ButNot(CheckPart(rule.base), CheckPart(rule.subtract))

\* Calls nest in the depth and, past the limit, in the rule alone.
Answers[c \in Call] == EvaluateRule(Answers, c.rule, c.key, c.ask)

------------------------------------------------------------------------------

Check(key, subject, limit) == CheckRecursive(Answers, key, Ask(subject, limit))

\* CheckResponse.allowed
Allowed(key, subject, limit) == Check(key, subject, limit) = Allow

==============================================================================
