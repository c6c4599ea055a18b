--------------------------- MODULE ClientExpansions ---------------------------
(***************************************************************************)
(* The expansions of a client's engine, against the checks of the same     *)
(* model and tuples.                                                       *)
(***************************************************************************)
EXTENDS Client, ExpansionEngine

\* A subject is in a subject set: by name, by a wildcard it is no exception to,
\* or as somebody a check allows in a userset of it.
Includes(set, subject) ==
  \/ Contains(Expanded(set), Node(subject.type, subject.id, Direct))
  \/ \E n \in set.subjects : n.relation # Direct /\ Allowed(NodeKey(n), subject, MaxDepth)

\* An expansion names nobody whom a check does not allow, whatever the depth
\* limit or a cycle cuts off, and one that nothing is cut off from (that does
\* not raise in what an exclusion subtracts) names everybody; provided that the
\* limit is enough for checks of the subject to answer all that they can.
ExpandMatchesCheck ==
  \A subject \in {s \in Subjects : s.id # Wildcard} :
    LET stage == Stages(subject)[MaxDepth] IN
    Settle(subject, stage) = stage =>
      \A key \in DefinedKeys, limit \in Shallower \cup {MaxDepth} :
        LET expansion == Expand(key, limit) IN
        /\ Includes(expansion.set, subject) => Allowed(key, subject, MaxDepth)
        /\ expansion.complete /\ Allowed(key, subject, MaxDepth) =>
             Includes(expansion.set, subject)

==============================================================================
