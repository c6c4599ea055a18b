------------------------- MODULE AuthorizationEngine -------------------------
(***************************************************************************)
(* AuthorizationEngine: check, lookup and expand over one compiled model,  *)
(* one repository and one depth limit.  What the three answer, against     *)
(* what the schema grants and against each other, in every state that a    *)
(* client and its registry can bring about.                                *)
(***************************************************************************)
EXTENDS ClientExpansions, LookupEngine

\* A lookup lists exactly the objects that a check allows, at any depth limit:
\* walking tuples backwards misses no grant, and finds none that an exclusion,
\* a cycle or the limit keeps from the check.
LookupMatchesCheck ==
  \A subject \in Subjects, ns \in DOMAIN model :
    \A name \in DOMAIN model[ns], limit \in Shallower \cup {MaxDepth} :
      LookupResources(Ref(ns, name), subject, limit) =
        {id \in Id : Allowed(KeyOf(ns, id, name), subject, limit)}

==============================================================================
