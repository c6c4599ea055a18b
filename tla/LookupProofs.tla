----------------------------- MODULE LookupProofs -----------------------------
(***************************************************************************)
(* Lookups, for any schema, tuples and depth limit: what a lookup lists is *)
(* what a check allows.  The recursions of the engine come first (leaves,  *)
(* worklists, the calls of a lookup), then the walk of a direct lookup,    *)
(* which misses nothing that a check allows, and what it finds no check    *)
(* denies; call by call the lookup agrees with the check (Agrees).  Where  *)
(* nothing calls for checks it also finds nothing that one does not know   *)
(* about (Trusted), because without exclusions a traversal that comes back *)
(* to a key learns nothing there (BareEnters).                             *)
(***************************************************************************)
EXTENDS AuthorizationEngine, ClientProofs

------------------------------------------------------------------------------
\* Recursion

\* Of any elements, one that rests on none of the others.
Founded(S, below) ==
  \A T \in SUBSET S : T # {} => \E x \in T : below[x] \cap T = {}

\* What a step makes of an element depends on the elements it rests on.
Local(S, V, below, step) ==
  \A x \in S : \A f, g \in [S -> V] :
    (\A y \in below[x] : f[y] = g[y]) => step[<<x, f>>] = step[<<x, g>>]

\* Values of some elements, with all that those rest on.
Solves(S, V, below, step, D, g) ==
  /\ D \in SUBSET S /\ g \in [S -> V]
  /\ \A x \in D : g[x] = step[<<x, g>>] /\ below[x] \subseteq D

LEMMA SolutionsAgree ==
  ASSUME NEW S, NEW V, NEW below \in [S -> SUBSET S], Founded(S, below),
         NEW step, Local(S, V, below, step),
         NEW D, NEW g, Solves(S, V, below, step, D, g),
         NEW E, NEW h, Solves(S, V, below, step, E, h),
         NEW x \in D \cap E
  PROVE  g[x] = h[x]
<1> DEFINE bad == {y \in D \cap E : g[y] # h[y]}
<1> SUFFICES ASSUME bad # {} PROVE FALSE
  OBVIOUS
<1>1. bad \in SUBSET S
  BY DEF Solves
<1>2. PICK y \in bad : below[y] \cap bad = {}
  BY <1>1 DEF Founded
<1>3. below[y] \subseteq D \cap E
  BY <1>2 DEF Solves
<1>4. \A z \in below[y] : g[z] = h[z]
  BY <1>2, <1>3
<1>5. y \in S /\ g \in [S -> V] /\ h \in [S -> V]
  BY <1>1, <1>2 DEF Solves
<1>6. step[<<y, g>>] = step[<<y, h>>]
  BY <1>4, <1>5 DEF Local
<1> QED
  BY <1>2, <1>6 DEF Solves

\* Steps from values of V to values of V.
Steady(S, V, below, step) ==
  /\ V # {} /\ below \in [S -> SUBSET S] /\ step \in [S \X [S -> V] -> V]
  /\ Founded(S, below) /\ Local(S, V, below, step)

Solution(S, V, step, f) == f \in [S -> V] /\ \A x \in S : f[x] = step[<<x, f>>]

\* A recursion ends, if each element rests on others in a well-founded order.
LEMMA Recursion ==
  ASSUME NEW S, NEW V, NEW below, NEW step, Steady(S, V, below, step)
  PROVE  \E f : Solution(S, V, step, f)
<1>0. /\ V # {} /\ below \in [S -> SUBSET S] /\ step \in [S \X [S -> V] -> V]
      /\ Founded(S, below) /\ Local(S, V, below, step)
  BY DEF Steady
<1> DEFINE Solved(x) == \E D, g : Solves(S, V, below, step, D, g) /\ x \in D
           Value(x) == CHOOSE v \in V : \E D, g : /\ Solves(S, V, below, step, D, g)
                                                  /\ x \in D /\ v = g[x]
           open == {x \in S : ~Solved(x)}
           done == {x \in S : Solved(x)}
<1>1. PICK v0 : v0 \in V
  BY <1>0
<1>2. PICK f : f = [x \in S |-> IF Solved(x) THEN Value(x) ELSE v0]
  OBVIOUS
<1>3. ASSUME NEW D, NEW g, Solves(S, V, below, step, D, g), NEW x \in D
      PROVE  x \in S /\ Solved(x) /\ f[x] = g[x]
  <2>1. x \in S /\ g[x] \in V
    BY <1>3 DEF Solves
  <2>2. \E v \in V : \E E, h : Solves(S, V, below, step, E, h) /\ x \in E /\ v = h[x]
    BY <1>3, <2>1
  <2>3. \E E, h : Solves(S, V, below, step, E, h) /\ x \in E /\ Value(x) = h[x]
    BY <2>2
  <2>4. PICK E, h : Solves(S, V, below, step, E, h) /\ x \in E /\ Value(x) = h[x]
    BY <2>3
  <2>5. h[x] = g[x]
    BY <1>0, <1>3, <2>4, SolutionsAgree
  <2>6. Solved(x)
    BY <1>3
  <2> HIDE DEF Solved, Value
  <2> QED
    BY <1>2, <2>1, <2>4, <2>5, <2>6
<1>4. f \in [S -> V]
  <2>1. ASSUME NEW x \in S, Solved(x)
        PROVE  f[x] \in V
    <3>1. PICK D, g : Solves(S, V, below, step, D, g) /\ x \in D
      BY <2>1
    <3>2. f[x] = g[x]
      BY <1>3, <3>1
    <3> QED
      BY <3>1, <3>2 DEF Solves
  <2> HIDE DEF Solved, Value
  <2>2. \A x \in S : f[x] \in V
    BY <1>1, <1>2, <2>1
  <2> QED
    BY <1>2, <2>2
<1>5. ASSUME NEW x \in done
      PROVE  f[x] = step[<<x, f>>] /\ below[x] \subseteq done
  <2>1. PICK D, g : Solves(S, V, below, step, D, g) /\ x \in D
    OBVIOUS
  <2>2. below[x] \subseteq D
    BY <2>1 DEF Solves
  <2>3. \A y \in D : y \in S /\ Solved(y) /\ f[y] = g[y]
    BY <1>3, <2>1
  <2> HIDE DEF Solved, Value
  <2>4. g \in [S -> V] /\ g[x] = step[<<x, g>>]
    BY <2>1 DEF Solves
  <2>5. step[<<x, f>>] = step[<<x, g>>]
    BY <1>0, <1>4, <2>2, <2>3, <2>4 DEF Local
  <2> QED
    BY <2>1, <2>2, <2>3, <2>4, <2>5
<1>6. open = {}
  <2> SUFFICES ASSUME open # {} PROVE FALSE
    OBVIOUS
  <2>1. PICK x \in open : below[x] \cap open = {}
    BY <1>0 DEF Founded
  <2>2. below[x] \subseteq done
    BY <1>0, <2>1
  <2>3. PICK g : g = [f EXCEPT ![x] = step[<<x, f>>]]
    OBVIOUS
  <2>4. x \in S /\ x \notin done /\ ~Solved(x)
    BY <2>1
  <2>41. done \in SUBSET S
    OBVIOUS
  <2> HIDE DEF Solved, Value, done, open
  <2>5. step[<<x, f>>] \in V
    BY <1>0, <1>4, <2>4
  <2>6. g \in [S -> V] /\ g[x] = step[<<x, f>>] /\ \A y \in done : g[y] = f[y]
    BY <1>4, <2>3, <2>4, <2>41, <2>5
  <2>7. ASSUME NEW y \in done \cup {x}
        PROVE  g[y] = step[<<y, g>>] /\ below[y] \subseteq done
    <3>1. below[y] \subseteq done
      BY <1>5, <2>2
    <3>2. y \in S /\ \A z \in below[y] : g[z] = f[z]
      BY <2>4, <2>41, <2>6, <3>1
    <3>3. step[<<y, g>>] = step[<<y, f>>]
      BY <1>0, <1>4, <2>6, <3>2 DEF Local
    <3>4. g[y] = step[<<y, f>>]
      BY <1>5, <2>6
    <3> QED
      BY <3>1, <3>3, <3>4
  <2>8. done \cup {x} \in SUBSET S
    BY <2>4, <2>41
  <2>9. Solves(S, V, below, step, done \cup {x}, g)
    BY <2>6, <2>7, <2>8 DEF Solves
  <2>10. Solved(x)
    BY <2>9 DEF Solved
  <2> QED
    BY <2>4, <2>10
<1>7. \A x \in S : x \in done
  BY <1>6
<1> HIDE DEF done
<1> QED
  BY <1>4, <1>5, <1>7 DEF Solution

Iterates(V, start, next, f) ==
  /\ f \in [Nat -> V] /\ f[0] = start
  /\ \A n \in Nat : f[n + 1] = next[<<n + 1, f[n]>>]

\* Recursion over the numbers, each of which rests on the one before.
LEMMA NatRecursion ==
  ASSUME NEW V, NEW start, start \in V, NEW next, next \in [Nat \X V -> V]
  PROVE  \E f : Iterates(V, start, next, f)
<1>1. PICK below : below = [n \in Nat |-> {m \in Nat : m + 1 = n}]
  OBVIOUS
<1>2. below \in [Nat -> SUBSET Nat]
  BY <1>1
<1>3. Founded(Nat, below)
  <2> SUFFICES ASSUME NEW T \in SUBSET Nat, T # {}
               PROVE  \E x \in T : below[x] \cap T = {}
    BY DEF Founded
  <2>1. PICK x \in T : \A y \in T : x <= y
    BY Least
  <2>2. x \in Nat /\ T \subseteq Nat
    OBVIOUS
  <2>3. ASSUME NEW y \in T, y \in below[x]
        PROVE  FALSE
    <3>1. y \in Nat /\ y + 1 = x /\ x <= y
      BY <1>1, <2>1, <2>2, <2>3
    <3> QED
      BY <2>2, <3>1
  <2> QED
    BY <2>3
<1>4. PICK step : step = [p \in Nat \X [Nat -> V] |->
                            IF p[1] = 0 THEN start ELSE next[<<p[1], p[2][p[1] - 1]>>]]
  OBVIOUS
<1>5. ASSUME NEW n \in Nat, NEW f \in [Nat -> V]
      PROVE  /\ step[<<n, f>>] = IF n = 0 THEN start ELSE next[<<n, f[n - 1]>>]
             /\ step[<<n, f>>] \in V
  <2>0. <<n, f>> \in Nat \X [Nat -> V]
    OBVIOUS
  <2>1. step[<<n, f>>] = IF n = 0 THEN start ELSE next[<<n, f[n - 1]>>]
    BY <1>4, <2>0
  <2>2. ASSUME n # 0 PROVE next[<<n, f[n - 1]>>] \in V
    <3>1. n - 1 \in Nat
      BY <2>2
    <3> QED
      BY <3>1
  <2> QED
    BY <2>1, <2>2
<1>6. step \in [Nat \X [Nat -> V] -> V]
  <2>1. \A p \in Nat \X [Nat -> V] : step[p] \in V
    <3> SUFFICES ASSUME NEW p \in Nat \X [Nat -> V] PROVE step[p] \in V
      OBVIOUS
    <3>1. PICK n \in Nat, f \in [Nat -> V] : p = <<n, f>>
      OBVIOUS
    <3> QED
      BY <1>5, <3>1
  <2>2. step = [p \in Nat \X [Nat -> V] |-> step[p]]
    BY <1>4
  <2> QED
    BY <2>1, <2>2
<1>7. Local(Nat, V, below, step)
  <2> SUFFICES ASSUME NEW n \in Nat, NEW f \in [Nat -> V], NEW g \in [Nat -> V],
                      \A m \in below[n] : f[m] = g[m]
               PROVE  step[<<n, f>>] = step[<<n, g>>]
    BY DEF Local
  <2>1. ASSUME n # 0 PROVE f[n - 1] = g[n - 1]
    <3>1. n - 1 \in Nat /\ (n - 1) + 1 = n
      BY <2>1
    <3> QED
      BY <1>1, <3>1
  <2> QED
    BY <1>5, <2>1
<1>8. Steady(Nat, V, below, step)
  BY <1>2, <1>3, <1>6, <1>7 DEF Steady
<1>9. PICK f : Solution(Nat, V, step, f)
  BY <1>8, Recursion
<1>10. f \in [Nat -> V] /\ \A n \in Nat : f[n] = step[<<n, f>>]
  BY <1>9 DEF Solution
<1>11. \A n \in Nat : f[n] = IF n = 0 THEN start ELSE next[<<n, f[n - 1]>>]
  BY <1>5, <1>10
<1>12. ASSUME NEW n \in Nat
       PROVE  f[n + 1] = next[<<n + 1, f[n]>>]
  <2>1. n + 1 \in Nat /\ n + 1 # 0 /\ n + 1 - 1 = n
    OBVIOUS
  <2>2. f[n + 1] = IF n + 1 = 0 THEN start ELSE next[<<n + 1, f[n + 1 - 1]>>]
    BY <1>11, <2>1
  <2> QED
    BY <2>1, <2>2
<1> QED
  BY <1>10, <1>11, <1>12 DEF Iterates

------------------------------------------------------------------------------
\* The rules nested in a rule, and worklists

Leaf == [leaf : Rule, cost : Nat]

\* What the leaves of a rule are, given those of its parts.
LeavesOf(leaves, rule) ==
  IF rule.kind \in {"computed", "arrow"} THEN {[leaf |-> rule, cost |-> 1]}
  ELSE {[l EXCEPT !.cost = @ + 1] : l \in UNION {leaves[p] : p \in Adding(rule)}}

LEMMA AddingParts ==
  ASSUME NEW rule \in Rule
  PROVE  Adding(rule) \subseteq Parts(rule) /\ Adding(rule) \subseteq Rule
BY RuleKinds DEF Adding

LEMMA LeavesFollow ==
  ASSUME NEW rule \in Rule
  PROVE  Leaves[rule] = LeavesOf(Leaves, rule) /\ Leaves[rule] \subseteq Leaf
<1> DEFINE V == SUBSET Leaf
<1>1. PICK below : below = [r \in Rule |-> Adding(r)]
  OBVIOUS
<1>2. below \in [Rule -> SUBSET Rule]
  BY <1>1, AddingParts
<1>3. Founded(Rule, below)
  BY <1>1, AddingParts, RuleAssumption DEF Founded
<1>4. PICK step : step = [p \in Rule \X [Rule -> V] |-> LeavesOf(p[2], p[1])]
  OBVIOUS
<1>5. ASSUME NEW r \in Rule, NEW f \in [Rule -> V]
      PROVE  step[<<r, f>>] = LeavesOf(f, r) /\ LeavesOf(f, r) \in V
  <2>0. <<r, f>> \in Rule \X [Rule -> V]
    OBVIOUS
  <2>1. step[<<r, f>>] = LeavesOf(f, r)
    BY <1>4, <2>0
  <2>2. CASE r.kind \in {"computed", "arrow"}
    <3>1. LeavesOf(f, r) = {[leaf |-> r, cost |-> 1]}
      BY <2>2 DEF LeavesOf
    <3>2. [leaf |-> r, cost |-> 1] \in Leaf
      BY DEF Leaf
    <3> QED
      BY <2>1, <3>1, <3>2
  <2>3. CASE r.kind \notin {"computed", "arrow"}
    <3>1. ASSUME NEW l \in UNION {f[p] : p \in Adding(r)}
          PROVE  [l EXCEPT !.cost = @ + 1] \in Leaf
      <4>1. l \in Leaf
        BY AddingParts
      <4> QED
        BY <4>1 DEF Leaf
    <3>2. LeavesOf(f, r) = {[l EXCEPT !.cost = @ + 1] : l \in UNION {f[p] : p \in Adding(r)}}
      BY <2>3 DEF LeavesOf
    <3> QED
      BY <2>1, <3>1, <3>2
  <2> QED
    BY <2>2, <2>3
<1>6. step \in [Rule \X [Rule -> V] -> V]
  <2>1. ASSUME NEW p \in Rule \X [Rule -> V]
        PROVE  step[p] \in V
    <3>1. PICK r \in Rule, f \in [Rule -> V] : p = <<r, f>>
      OBVIOUS
    <3> QED
      BY <1>5, <3>1
  <2>2. step = [p \in Rule \X [Rule -> V] |-> step[p]]
    BY <1>4
  <2> HIDE DEF V
  <2> QED
    BY <2>1, <2>2
<1>7. Local(Rule, V, below, step)
  <2> SUFFICES ASSUME NEW r \in Rule, NEW f \in [Rule -> V], NEW g \in [Rule -> V],
                      \A q \in below[r] : f[q] = g[q]
               PROVE  step[<<r, f>>] = step[<<r, g>>]
    BY DEF Local
  <2>1. {f[p] : p \in Adding(r)} = {g[p] : p \in Adding(r)}
    BY <1>1
  <2>2. LeavesOf(f, r) = LeavesOf(g, r)
    BY <2>1 DEF LeavesOf
  <2> HIDE DEF V
  <2> QED
    BY <1>5, <2>2
<1>8. V # {}
  OBVIOUS
<1> HIDE DEF V
<1>9. Steady(Rule, V, below, step)
  BY <1>2, <1>3, <1>6, <1>7, <1>8 DEF Steady
<1>10. PICK f : Solution(Rule, V, step, f)
  BY <1>9, Recursion
<1>11. f \in [Rule -> V] /\ \A r \in Rule : f[r] = LeavesOf(f, r)
  BY <1>5, <1>10 DEF Solution
<1> DEFINE Defining(g) == g = [r \in Rule |-> LeavesOf(g, r)]
<1>12. Defining(f)
  BY <1>11
<1>13. Leaves = CHOOSE g : Defining(g)
  BY DEF Leaves, LeavesOf
<1> HIDE DEF Defining
<1>14. Defining(Leaves)
  BY <1>12, <1>13
<1>15. PICK leaves : leaves = Leaves
  OBVIOUS
<1>16. /\ leaves = [r \in Rule |-> leaves[r]]
       /\ \A r \in Rule : leaves[r] = LeavesOf(leaves, r)
  BY <1>14, <1>15 DEF Defining
<1>17. ASSUME NEW r \in Rule, leaves[r] # f[r]
       PROVE  FALSE
  <2> DEFINE bad == {q \in Rule : leaves[q] # f[q]}
  <2>1. PICK q \in bad : below[q] \cap bad = {}
    <3>1. bad \in SUBSET Rule /\ bad # {}
      BY <1>17
    <3> QED
      BY <1>3, <3>1 DEF Founded
  <2>2. \A p \in Adding(q) : leaves[p] = f[p]
    BY <1>1, <2>1, AddingParts
  <2>3. {leaves[p] : p \in Adding(q)} = {f[p] : p \in Adding(q)}
    BY <2>2
  <2>4. LeavesOf(leaves, q) = LeavesOf(f, q)
    BY <2>3 DEF LeavesOf
  <2>5. q \in Rule /\ leaves[q] # f[q]
    BY <2>1
  <2>6. leaves[q] = LeavesOf(leaves, q)
    BY <1>16, <2>5
  <2>7. f[q] = LeavesOf(f, q)
    BY <1>11, <2>5
  <2> QED
    BY <2>4, <2>5, <2>6, <2>7
<1> QED
  BY <1>11, <1>15, <1>16, <1>17 DEF V

LEMMA FiniteRefs == IsSchema(model) => IsFiniteSet(DefinedRefs)
<1> SUFFICES ASSUME IsSchema(model) PROVE IsFiniteSet(DefinedRefs)
  OBVIOUS
<1>1. IsFiniteSet(DOMAIN model) /\ \A ns \in DOMAIN model : IsFiniteSet(DOMAIN model[ns])
  BY DEF IsSchema
<1>2. ASSUME NEW ns \in DOMAIN model
      PROVE  IsFiniteSet({Ref(ns, name) : name \in DOMAIN model[ns]})
  <2>1. PICK f : f = [name \in DOMAIN model[ns] |-> Ref(ns, name)]
    OBVIOUS
  <2>2. IsFiniteSet({f[name] : name \in DOMAIN model[ns]})
    BY <1>1, FiniteImage
  <2>3. {f[name] : name \in DOMAIN model[ns]} = {Ref(ns, name) : name \in DOMAIN model[ns]}
    BY <2>1
  <2> QED
    BY <2>2, <2>3
<1>3. PICK g : g = [ns \in DOMAIN model |-> {Ref(ns, name) : name \in DOMAIN model[ns]}]
  OBVIOUS
<1>4. IsFiniteSet({g[ns] : ns \in DOMAIN model})
  BY <1>1, FiniteImage
<1>5. {g[ns] : ns \in DOMAIN model} =
        {{Ref(ns, name) : name \in DOMAIN model[ns]} : ns \in DOMAIN model}
  BY <1>3
<1>6. PICK sets : sets = {{Ref(ns, name) : name \in DOMAIN model[ns]} : ns \in DOMAIN model}
  OBVIOUS
<1>7. IsFiniteSet(sets) /\ \A T \in sets : IsFiniteSet(T)
  BY <1>2, <1>4, <1>5, <1>6
<1>8. IsFiniteSet(UNION sets)
  BY <1>7, FS_UNION
<1> QED
  BY <1>6, <1>8 DEF DefinedRefs

\* The rounds of a worklist.
Rounds(refs, onward, f) ==
  /\ f[0] = refs
  /\ \A n \in Nat : f[n + 1] = f[n] \cup UNION {onward[r] : r \in f[n] \cap DefinedRefs}

LEMMA SpreadRounds ==
  ASSUME NEW refs, NEW onward, IsFiniteSet(DefinedRefs)
  PROVE  \E f : Rounds(refs, onward, f) /\ Spread(refs, onward) = f[Cardinality(DefinedRefs)]
<1>0. PICK D : D = DefinedRefs
  OBVIOUS
<1>1. PICK V : V = SUBSET (refs \cup UNION {onward[r] : r \in D})
  OBVIOUS
<1>2. PICK next : next = [p \in Nat \X V |-> p[2] \cup UNION {onward[r] : r \in p[2] \cap D}]
  OBVIOUS
<1>3. ASSUME NEW n \in Nat, NEW v \in V
      PROVE  /\ next[<<n, v>>] = v \cup UNION {onward[r] : r \in v \cap D}
             /\ next[<<n, v>>] \in V
  BY <1>1, <1>2
<1>4. next \in [Nat \X V -> V]
  <2>1. ASSUME NEW p \in Nat \X V PROVE next[p] \in V
    <3>1. PICK n \in Nat, v \in V : p = <<n, v>>
      OBVIOUS
    <3> QED
      BY <1>3, <3>1
  <2>2. next = [p \in Nat \X V |-> next[p]]
    BY <1>2
  <2> QED
    BY <2>1, <2>2
<1>5. refs \in V
  BY <1>1
<1>6. PICK f : Iterates(V, refs, next, f)
  BY <1>4, <1>5, NatRecursion
<1>61. f \in [Nat -> V] /\ f[0] = refs /\ \A n \in Nat : f[n + 1] = next[<<n + 1, f[n]>>]
  BY <1>6 DEF Iterates
<1> DEFINE Defining(g) ==
      g = [n \in Nat |-> IF n = 0 THEN refs
                         ELSE g[n - 1] \cup UNION {onward[r] : r \in g[n - 1] \cap DefinedRefs}]
<1>7. Defining(f)
  <2>1. ASSUME NEW n \in Nat, n # 0
        PROVE  f[n] = f[n - 1] \cup UNION {onward[r] : r \in f[n - 1] \cap D}
    <3>1. n - 1 \in Nat /\ n - 1 + 1 = n /\ f[n - 1] \in V
      BY <1>61, <2>1
    <3>2. f[n] = next[<<n, f[n - 1]>>]
      BY <1>61, <3>1
    <3> QED
      BY <1>3, <3>1, <3>2
  <2> QED
    BY <1>0, <1>61, <2>1
<1>8. Spread(refs, onward) = (CHOOSE g : Defining(g))[Cardinality(DefinedRefs)]
  BY DEF Spread
<1> HIDE DEF Defining
<1>9. PICK g : Defining(g) /\ Spread(refs, onward) = g[Cardinality(DefinedRefs)]
  BY <1>7, <1>8
<1>10. Rounds(refs, onward, g)
  <2>1. \A n \in Nat : g[n] = IF n = 0 THEN refs
           ELSE g[n - 1] \cup UNION {onward[r] : r \in g[n - 1] \cap DefinedRefs}
    BY <1>9 DEF Defining
  <2>2. g[0] = refs
    BY <2>1
  <2>3. ASSUME NEW n \in Nat
        PROVE  g[n + 1] = g[n] \cup UNION {onward[r] : r \in g[n] \cap DefinedRefs}
    <3>1. n + 1 \in Nat /\ n + 1 # 0 /\ n + 1 - 1 = n
      OBVIOUS
    <3>2. PICK m \in Nat : m = n + 1
      BY <3>1
    <3>3. m # 0 /\ m - 1 = n
      BY <3>1, <3>2
    <3>4. g[m] = g[m - 1] \cup UNION {onward[r] : r \in g[m - 1] \cap DefinedRefs}
      BY <2>1, <3>3
    <3> QED
      BY <3>2, <3>3, <3>4
  <2> QED
    BY <2>2, <2>3 DEF Rounds
<1> QED
  BY <1>9, <1>10

\* A worklist ends with all that it leads to: a round that adds anything adds a
\* ref that is defined, or is the last.
LEMMA SpreadCloses ==
  ASSUME IsSchema(model), NEW refs, NEW onward
  PROVE  /\ refs \subseteq Spread(refs, onward)
         /\ \A r \in Spread(refs, onward) \cap DefinedRefs : onward[r] \subseteq Spread(refs, onward)
<1>1. IsFiniteSet(DefinedRefs)
  BY FiniteRefs
<1>2. PICK f : Rounds(refs, onward, f) /\ Spread(refs, onward) = f[Cardinality(DefinedRefs)]
  BY <1>1, SpreadRounds
<1>3. PICK D : D = DefinedRefs
  OBVIOUS
<1>4. IsFiniteSet(D) /\ Cardinality(D) \in Nat
  BY <1>1, <1>3, FS_CardinalityType
<1>5. f[0] = refs /\ \A n \in Nat : f[n + 1] = f[n] \cup UNION {onward[r] : r \in f[n] \cap D}
  BY <1>2, <1>3 DEF Rounds
<1> DEFINE Grown(n) == Cardinality(f[n] \cap D) \in Nat /\ n + 1 <= Cardinality(f[n] \cap D)
           Good(n) == refs \subseteq f[n] /\ (f[n + 1] = f[n] \/ Grown(n))
           bad == {n \in Nat : ~Good(n)}
<1>6. \A n : IsFiniteSet(f[n] \cap D) /\ Cardinality(f[n] \cap D) \in Nat
             /\ Cardinality(f[n] \cap D) <= Cardinality(D)
  <2>1. \A n : IsFiniteSet(f[n] \cap D) /\ Cardinality(f[n] \cap D) <= Cardinality(D)
    BY <1>4, FS_Intersection
  <2> QED
    BY <2>1, FS_CardinalityType
<1>7. Good(0)
  <2>1. CASE f[0] \cap D = {}
    <3>1. 0 \in Nat /\ 0 + 1 = 1 /\ f[0 + 1] = f[0] \cup UNION {onward[r] : r \in f[0] \cap D}
      BY <1>5
    <3>2. f[0 + 1] = f[0]
      BY <2>1, <3>1
    <3> QED
      BY <1>5, <3>2
  <2>2. CASE f[0] \cap D # {}
    <3>1. Cardinality(f[0] \cap D) # 0
      BY <1>6, <2>2, FS_EmptySet
    <3>2. 0 + 1 <= Cardinality(f[0] \cap D)
      BY <1>6, <3>1
    <3> QED
      BY <1>5, <1>6, <3>2
  <2> QED
    BY <2>1, <2>2
<1>8. ASSUME NEW n \in Nat, Good(n)
      PROVE  Good(n + 1)
  <2>1. /\ f[n + 1] = f[n] \cup UNION {onward[r] : r \in f[n] \cap D}
        /\ f[n + 1 + 1] = f[n + 1] \cup UNION {onward[r] : r \in f[n + 1] \cap D}
    BY <1>5
  <2>2. CASE f[n + 1] \cap D = f[n] \cap D
    <3>1. f[n + 1 + 1] = f[n + 1]
      BY <2>1, <2>2
    <3> QED
      BY <1>8, <2>1, <3>1
  <2>3. CASE f[n + 1] \cap D # f[n] \cap D
    <3>1. f[n + 1] # f[n] /\ f[n] \cap D \in SUBSET (f[n + 1] \cap D)
      BY <2>1, <2>3
    <3>2. /\ Cardinality(f[n] \cap D) <= Cardinality(f[n + 1] \cap D)
          /\ Cardinality(f[n] \cap D) # Cardinality(f[n + 1] \cap D)
      BY <1>6, <2>3, <3>1, FS_Subset
    <3>3. n + 1 <= Cardinality(f[n] \cap D)
      BY <1>8, <3>1
    <3>4. PICK a, b : a = Cardinality(f[n] \cap D) /\ b = Cardinality(f[n + 1] \cap D)
      OBVIOUS
    <3>41. a \in Nat /\ b \in Nat
      BY <1>6, <3>4
    <3>42. n + 1 <= a /\ a <= b /\ a # b
      BY <3>2, <3>3, <3>4
    <3>43. n + 1 + 1 <= b
      BY <3>41, <3>42
    <3>5. Grown(n + 1)
      BY <3>4, <3>41, <3>43
    <3>6. refs \subseteq f[n + 1]
      BY <1>8, <2>1
    <3> HIDE DEF Grown
    <3> QED
      BY <3>5, <3>6
  <2> QED
    BY <2>2, <2>3
<1>9. \A n \in Nat : Good(n)
  <2> SUFFICES ASSUME bad # {} PROVE FALSE
    OBVIOUS
  <2>0. bad \subseteq Nat
    OBVIOUS
  <2> HIDE DEF Good
  <2>1. PICK k \in bad : \A j \in bad : k <= j
    BY <2>0, Least
  <2>2. k \in Nat /\ ~Good(k) /\ k # 0
    BY <1>7, <2>1
  <2>3. PICK j \in Nat : k = j + 1 /\ ~(k <= j)
    <3>1. k - 1 \in Nat /\ k = (k - 1) + 1 /\ ~(k <= k - 1)
      BY <2>2
    <3> QED
      BY <3>1
  <2>4. Good(j)
    BY <2>1, <2>3
  <2> QED
    BY <1>8, <2>2, <2>3, <2>4
<1>10. PICK N \in Nat : N = Cardinality(D)
  BY <1>4
<1>11. Good(N)
  BY <1>9
<1>12. ~Grown(N)
  <2>1. Cardinality(f[N] \cap D) <= N /\ Cardinality(f[N] \cap D) \in Nat
    BY <1>6, <1>10
  <2> QED
    BY <2>1
<1>13. refs \subseteq f[N] /\ f[N + 1] = f[N]
  BY <1>11, <1>12
<1>14. f[N + 1] = f[N] \cup UNION {onward[r] : r \in f[N] \cap D}
  BY <1>5
<1>15. Spread(refs, onward) = f[N]
  BY <1>2, <1>3, <1>10
<1> QED
  BY <1>3, <1>13, <1>14, <1>15

------------------------------------------------------------------------------
\* Checks do not deny what the schema grants

\* What holds may hold: the two that settle a subject never contradict each other.
LEMMA MustIsMay ==
  ASSUME Typed, NEW subject
  PROVE  Must(subject) \subseteq May(subject)
<1>1. PICK M, Y : M = Must(subject) /\ Y = May(subject)
  OBVIOUS
<1>2. Granted(subject, M, Y) \subseteq M /\ Y \subseteq Granted(subject, Y, M)
  BY <1>1, LeastIsClosed DEF Closed
<1>3. M \subseteq Nodes /\ Y \subseteq Nodes
  BY <1>1 DEF Must, May
<1>4. \A must, may : Granted(subject, must, may) \subseteq Nodes
  BY DEF Granted
<1>5. ASSUME NEW must, NEW may, must \subseteq Nodes, may \subseteq Nodes,
             Closed(subject, must, may)
      PROVE  M \subseteq must /\ may \subseteq Y
  <2>1. PICK p : p = <<must, may>>
    OBVIOUS
  <2>2. p \in (SUBSET Nodes) \X (SUBSET Nodes) /\ p[1] = must /\ p[2] = may
    BY <1>5, <2>1
  <2>3. p \in ClosedPairs(subject)
    BY <1>5, <2>2 DEF ClosedPairs
  <2>4. \A n \in M : n \in p[1]
    BY <1>1, <2>3 DEF Must
  <2>5. \A n \in p[2] : n \in Y
    BY <1>1, <1>5, <2>2, <2>3 DEF May
  <2> QED
    BY <2>2, <2>4, <2>5
<1>6. M \subseteq Granted(subject, M, Y)
  <2>1. PICK N : N = Granted(subject, M, Y)
    OBVIOUS
  <2>2. Granted(subject, N, Y) \subseteq N /\ Granted(subject, Y, M) \subseteq Granted(subject, Y, N)
    BY <1>2, <2>1, GrantedMonotone
  <2>3. Closed(subject, N, Y)
    BY <1>2, <2>2 DEF Closed
  <2> QED
    BY <1>3, <1>4, <1>5, <2>1, <2>3
<1>7. Granted(subject, Y, M) \subseteq Y
  <2>1. PICK Z : Z = Granted(subject, Y, M)
    OBVIOUS
  <2>2. Granted(subject, M, Z) \subseteq Granted(subject, M, Y) /\ Z \subseteq Granted(subject, Z, M)
    BY <1>2, <2>1, GrantedMonotone
  <2>3. Closed(subject, M, Z)
    BY <1>2, <2>2 DEF Closed
  <2> QED
    BY <1>3, <1>4, <1>5, <2>1, <2>3
<1>8. /\ Granted(subject, M \cap Y, M \cup Y) \subseteq Granted(subject, M, Y)
      /\ Granted(subject, M \cap Y, M \cup Y) \subseteq Granted(subject, Y, M)
      /\ Granted(subject, Y, M) \subseteq Granted(subject, M \cup Y, M \cap Y)
      /\ Granted(subject, M, Y) \subseteq Granted(subject, M \cup Y, M \cap Y)
  <2>1. /\ M \cap Y \subseteq M /\ M \cap Y \subseteq Y
        /\ M \subseteq M \cup Y /\ Y \subseteq M \cup Y
    OBVIOUS
  <2> QED
    BY <2>1, GrantedMonotone
<1>9. Closed(subject, M \cap Y, M \cup Y)
  BY <1>2, <1>6, <1>7, <1>8 DEF Closed
<1>10. M \cap Y \subseteq Nodes /\ M \cup Y \subseteq Nodes
  BY <1>3
<1>11. M \subseteq M \cap Y
  BY <1>5, <1>9, <1>10
<1> QED
  BY <1>1, <1>11

\* A node of which more than nothing holds is never denied.
LEMMA NeverDenied ==
  ASSUME Typed, NEW c \in Call, <<c.rule, c.key>> \in Must(c.ask.subject)
  PROVE  Answers[c] # Deny
<1>1. <<c.rule, c.key>> \in Nodes
  BY DEF Must
<1>2. Sound(c, Must(c.ask.subject), May(c.ask.subject))
  BY <1>1, AnswersAreSound, LeastIsClosed
<1> QED
  BY <1>2, MustIsMay DEF Sound

\* A worklist stays within what it cannot leave.
LEMMA SpreadWithin ==
  ASSUME IsSchema(model), NEW refs, NEW onward, NEW S, refs \subseteq S,
         \A r \in S \cap DefinedRefs : onward[r] \subseteq S
  PROVE  Spread(refs, onward) \subseteq S
<1>1. IsFiniteSet(DefinedRefs)
  BY FiniteRefs
<1>2. PICK f : Rounds(refs, onward, f) /\ Spread(refs, onward) = f[Cardinality(DefinedRefs)]
  BY <1>1, SpreadRounds
<1>3. /\ f[0] = refs
      /\ \A n \in Nat : f[n + 1] = f[n] \cup UNION {onward[r] : r \in f[n] \cap DefinedRefs}
  BY <1>2 DEF Rounds
<1> DEFINE bad == {n \in Nat : ~(f[n] \subseteq S)}
<1>4. bad = {}
  <2> SUFFICES ASSUME bad # {} PROVE FALSE
    OBVIOUS
  <2>1. PICK k \in bad : \A j \in bad : k <= j
    BY Least
  <2>2. k \in Nat /\ k # 0 /\ ~(f[k] \subseteq S)
    BY <1>3, <2>1
  <2>3. PICK j \in Nat : k = j + 1 /\ ~(k <= j)
    <3>1. k - 1 \in Nat /\ k = (k - 1) + 1 /\ ~(k <= k - 1)
      BY <2>2
    <3> QED
      BY <3>1
  <2>4. f[j] \subseteq S
    BY <2>1, <2>3
  <2>5. f[j + 1] = f[j] \cup UNION {onward[r] : r \in f[j] \cap DefinedRefs}
    BY <1>3
  <2> QED
    BY <2>2, <2>3, <2>4, <2>5
<1>5. Cardinality(DefinedRefs) \in Nat
  BY <1>1, FS_CardinalityType
<1> QED
  BY <1>2, <1>4, <1>5

LEMMA RefsDefined ==
  ASSUME IsSchema(model)
  PROVE  /\ \A ns, name : Defines(model, ns, name) <=> Ref(ns, name) \in DefinedRefs
         /\ \A r \in DefinedRefs : /\ r = Ref(r.type, r.relation) /\ r \in LookupRef
                                   /\ IsDefined(r) /\ RewriteOf(r) \in Rule
<1>1. ASSUME NEW r \in DefinedRefs
      PROVE  /\ r = Ref(r.type, r.relation) /\ r \in LookupRef
             /\ IsDefined(r) /\ RewriteOf(r) \in Rule
  <2>1. PICK ns \in DOMAIN model : r \in {Ref(ns, name) : name \in DOMAIN model[ns]}
    BY DEF DefinedRefs
  <2>2. PICK name \in DOMAIN model[ns] : r = Ref(ns, name)
    BY <2>1
  <2>3. r.type = ns /\ r.relation = name /\ r = [type |-> ns, relation |-> name]
    BY <2>2 DEF Ref
  <2>4. ns \in Namespace /\ name \in Name /\ model[ns][name] \in Definition
    BY DEF IsSchema
  <2> QED
    BY <2>2, <2>3, <2>4 DEF LookupRef, IsDefined, Defines, RewriteOf, Definition
<1>2. ASSUME NEW ns, NEW name, Defines(model, ns, name)
      PROVE  Ref(ns, name) \in DefinedRefs
  BY <1>2 DEF Defines, DefinedRefs
<1>3. ASSUME NEW ns, NEW name, Ref(ns, name) \in DefinedRefs
      PROVE  Defines(model, ns, name)
  <2>1. PICK r : r = Ref(ns, name)
    OBVIOUS
  <2>2. r.type = ns /\ r.relation = name
    BY <2>1 DEF Ref
  <2> QED
    BY <1>1, <1>3, <2>1, <2>2 DEF IsDefined
<1> QED
  BY <1>1, <1>2, <1>3

LEMMA NestedIn ==
  ASSUME NEW rule \in Rule, NEW r \in RulesOf(rule)
  PROVE  RulesOf(r) \subseteq RulesOf(rule)
<1>1. RulesOf(rule) \in WholeRules /\ r \in Rule
  BY NestedParts DEF WholeRules
<1> QED
  BY <1>1 DEF RulesOf, NestedRules

\* A leaf of a rule is nested in it, and names a relation.
LEMMA LeavesNested ==
  ASSUME NEW rule \in Rule
  PROVE  \A l \in Leaves[rule] : /\ l.leaf \in RulesOf(rule) /\ l.leaf.kind \in {"computed", "arrow"}
                                 /\ l.cost \in Nat /\ 1 <= l.cost
<1> DEFINE Good(r) == \A l \in Leaves[r] :
              /\ l.leaf \in RulesOf(r) /\ l.leaf.kind \in {"computed", "arrow"}
              /\ l.cost \in Nat /\ 1 <= l.cost
           bad == {r \in Rule : ~Good(r)}
<1>1. ASSUME bad # {}
      PROVE  FALSE
  <2>1. PICK r \in bad : Parts(r) \cap bad = {}
    <3>1. bad \in SUBSET Rule
      OBVIOUS
    <3> QED
      BY <1>1, <3>1, RuleAssumption
  <2>2. r \in Rule /\ ~Good(r)
    OBVIOUS
  <2>3. Leaves[r] = LeavesOf(Leaves, r) /\ Leaves[r] \subseteq Leaf
    BY LeavesFollow
  <2>4. CASE r.kind \in {"computed", "arrow"}
    <3>1. Leaves[r] = {[leaf |-> r, cost |-> 1]}
      BY <2>3, <2>4 DEF LeavesOf
    <3>2. r \in RulesOf(r)
      BY NestedParts
    <3> QED
      BY <2>2, <2>4, <3>1, <3>2
  <2>5. CASE r.kind \notin {"computed", "arrow"}
    <3>1. Leaves[r] = {[l EXCEPT !.cost = @ + 1] : l \in UNION {Leaves[p] : p \in Adding(r)}}
      BY <2>3, <2>5 DEF LeavesOf
    <3>2. ASSUME NEW l \in Leaves[r]
          PROVE  /\ l.leaf \in RulesOf(r) /\ l.leaf.kind \in {"computed", "arrow"}
                 /\ l.cost \in Nat /\ 1 <= l.cost
      <4>0. PICK p \in Adding(r) : \E m \in Leaves[p] : l = [m EXCEPT !.cost = @ + 1]
        BY <3>1
      <4>1. PICK m \in Leaves[p] : l = [m EXCEPT !.cost = @ + 1]
        BY <4>0
      <4>2. p \in Parts(r) /\ p \in Rule
        BY AddingParts
      <4>3. Good(p)
        BY <2>1, <4>2
      <4>4. m \in Leaf
        BY <4>2, LeavesFollow
      <4>5. l.leaf = m.leaf /\ l.cost = m.cost + 1
        BY <4>1, <4>4 DEF Leaf
      <4>6. p \in RulesOf(r) /\ RulesOf(p) \subseteq RulesOf(r)
        BY <4>2, NestedParts, NestedIn
      <4> QED
        BY <4>3, <4>5, <4>6
    <3> QED
      BY <2>2, <3>2
  <2> QED
    BY <2>4, <2>5
<1>2. Good(rule)
  BY <1>1
<1> QED
  BY <1>2

------------------------------------------------------------------------------
\* What a lookup may come to

LEMMA NamedAreDefined ==
  ASSUME Typed, ValidSchema(model), NEW r \in DefinedRefs
  PROVE  /\ \A rule \in RulesOf(RewriteOf(r)) : LeafRefs(rule, r.type) \subseteq DefinedRefs
         /\ \A d \in DependenciesOf(r) : d.ref \in DefinedRefs
         /\ UsersetRefs(r) \subseteq DefinedRefs
<1>1. IsDefined(r) /\ RewriteOf(r) \in Rule /\ r = Ref(r.type, r.relation)
  BY RefsDefined DEF Typed
<1>2. /\ ValidRewrite(model[r.type], r.relation) /\ ValidSubjectSets(model, r.type, r.relation)
      /\ ValidArrows(model, r.type, r.relation)
  BY <1>1 DEF ValidSchema, IsDefined, Defines
<1>3. ASSUME NEW rule \in RulesOf(RewriteOf(r)), NEW x \in LeafRefs(rule, r.type)
      PROVE  x \in DefinedRefs
  <2>1. CASE rule.kind = "computed"
    <3>1. x = Ref(r.type, rule.relation)
      BY <2>1, <1>3 DEF LeafRefs
    <3>2. Defines(model, r.type, rule.relation)
      BY <1>1, <1>2, <2>1 DEF ValidRewrite, RewriteOf, IsDefined, Defines
    <3> QED
      BY <3>1, <3>2, RefsDefined DEF Typed
  <2>2. CASE rule.kind = "arrow"
    <3>1. PICK target \in TargetTypes(model[r.type], rule.tuple_relation) :
            x = Ref(target, rule.computed_relation)
      BY <1>3, <2>2 DEF LeafRefs, ArrowTargets
    <3>2. Defines(model, target, rule.computed_relation)
      BY <1>2, <2>2 DEF ValidArrows, RewriteOf, Defines
    <3> QED
      BY <3>1, <3>2, RefsDefined DEF Typed
  <2> QED
    BY <2>1, <2>2 DEF LeafRefs
<1>4. ASSUME NEW d \in DependenciesOf(r)
      PROVE  d.ref \in DefinedRefs
  <2>0. PICK l \in Leaves[RewriteOf(r)] :
          d \in {[ref |-> x, leaf |-> l.leaf, cost |-> l.cost] : x \in LeafRefs(l.leaf, r.type)}
    BY DEF DependenciesOf
  <2>1. PICK x \in LeafRefs(l.leaf, r.type) : d = [ref |-> x, leaf |-> l.leaf, cost |-> l.cost]
    BY <2>0
  <2>2. l.leaf \in RulesOf(RewriteOf(r))
    BY <1>1, LeavesNested
  <2> QED
    BY <1>3, <2>1, <2>2
<1>5. ASSUME NEW x \in UsersetRefs(r)
      PROVE  x \in DefinedRefs
  <2>1. PICK s \in model[r.type][r.relation].subjects :
          s.relation # Direct /\ x = Ref(s.type, s.relation)
    BY DEF UsersetRefs
  <2>2. Defines(model, s.type, s.relation)
    BY <1>2, <2>1 DEF ValidSubjectSets, IsRelation, Defines
  <2> QED
    BY <2>1, <2>2, RefsDefined DEF Typed
<1> QED
  BY <1>3, <1>4, <1>5

\* Refs with the usersets that their tuples may name and those that they rest on.
Saturated(refs) ==
  /\ refs \subseteq DefinedRefs
  /\ \A r \in refs : /\ UsersetRefs(r) \subseteq refs
                     /\ \A d \in DependenciesOf(r) : d.ref \in refs

LEMMA ReachableIs ==
  ASSUME Typed, ValidSchema(model), NEW ref \in DefinedRefs
  PROVE  Saturated(Reachable(ref)) /\ UsersetRefs(ref) \subseteq Reachable(ref)
<1>1. PICK onward :
        onward = [r \in DefinedRefs |-> UsersetRefs(r) \cup {d.ref : d \in DependenciesOf(r)}]
  OBVIOUS
<1>2. Reachable(ref) = Spread(UsersetRefs(ref), onward)
  BY <1>1 DEF Reachable
<1>3. \A r \in DefinedRefs : onward[r] \subseteq DefinedRefs /\ UsersetRefs(r) \subseteq DefinedRefs
  BY <1>1, NamedAreDefined
<1>4. Spread(UsersetRefs(ref), onward) \subseteq DefinedRefs
  BY <1>3, SpreadWithin DEF Typed
<1>5. /\ UsersetRefs(ref) \subseteq Spread(UsersetRefs(ref), onward)
      /\ \A r \in Spread(UsersetRefs(ref), onward) \cap DefinedRefs :
           onward[r] \subseteq Spread(UsersetRefs(ref), onward)
  BY SpreadCloses DEF Typed
<1> QED
  BY <1>1, <1>2, <1>4, <1>5 DEF Saturated

LEMMA CrossedIs ==
  ASSUME Typed, ValidSchema(model), NEW ref \in DefinedRefs
  PROVE  /\ Crossed(ref) \subseteq DefinedRefs /\ ref \in Crossed(ref)
         /\ \A r \in Crossed(ref) : RewriteRefs(r) \subseteq Crossed(ref)
<1>1. PICK onward : onward = [r \in DefinedRefs |-> RewriteRefs(r)]
  OBVIOUS
<1>2. Crossed(ref) = Spread({ref}, onward)
  BY <1>1 DEF Crossed
<1>3. \A r \in DefinedRefs : onward[r] \subseteq DefinedRefs
  BY <1>1, NamedAreDefined DEF RewriteRefs
<1>4. {ref} \subseteq DefinedRefs
  OBVIOUS
<1>5. Spread({ref}, onward) \subseteq DefinedRefs
  BY <1>3, <1>4, SpreadWithin DEF Typed
<1>6. /\ {ref} \subseteq Spread({ref}, onward)
      /\ \A r \in Spread({ref}, onward) \cap DefinedRefs : onward[r] \subseteq Spread({ref}, onward)
  BY SpreadCloses DEF Typed
<1> QED
  BY <1>1, <1>2, <1>5, <1>6

------------------------------------------------------------------------------
\* The steps of a walk

\* The subjects that a walk meets, each with the depth it is met at.
WalkNode == [type : Namespace, id : Id \cup {Wildcard}, relation : Name \cup {Direct}]
Footing == [node : WalkNode, cost : Nat]

\* The tuples of a node lead on to usersets, at the cost of one.
ByTuple(node, refs, s) ==
  \E t \in TuplesOf(node, refs) :
    s = [node |-> Node(t.object_type, t.object_id, t.relation), cost |-> 1]

\* A leaf of a ref's rewrite leads from a userset that it names to an object.
LeafLeads(leaf, parent, node, id) ==
  /\ RefOf(node) \in LeafRefs(leaf, parent.type)
  /\ leaf.kind = "computed" => id = node.id
  /\ leaf.kind # "computed" => id \in Holders(parent.type, leaf.tuple_relation, node)

ByLeaf(node, refs, s) ==
  \E parent \in refs : \E l \in Leaves[RewriteOf(parent)] : \E id :
    /\ LeafLeads(l.leaf, parent, node, id)
    /\ s = [node |-> Node(parent.type, id, parent.relation), cost |-> l.cost]

LEMMA OnwardIs ==
  ASSUME NEW node, NEW refs, NEW s
  PROVE  s \in Onward(node, refs) <=>
           ByTuple(node, refs, s) \/ (node.relation # Direct /\ ByLeaf(node, refs, s))
<1>1. s \in TupleSteps(node, refs) <=> ByTuple(node, refs, s)
  BY DEF TupleSteps, ByTuple
<1> DEFINE Ids(parent, leaf) == IF leaf.kind = "computed" THEN {node.id}
                                ELSE Holders(parent.type, leaf.tuple_relation, node)
           Arrivals(parent, d) == {[node |-> Node(parent.type, id, parent.relation),
                                    cost |-> d.cost] : id \in Ids(parent, d.leaf)}
           Here(parent) == {x \in DependenciesOf(parent) : x.ref = RefOf(node)}
<1>2. RewriteSteps(node, refs) = UNION {UNION {Arrivals(p, d) : d \in Here(p)} : p \in refs}
  BY DEF RewriteSteps
<1>3. ASSUME NEW p \in refs, NEW d \in Here(p), s \in Arrivals(p, d)
      PROVE  ByLeaf(node, refs, s)
  <2>1. PICK l \in Leaves[RewriteOf(p)] :
          d \in {[ref |-> r, leaf |-> l.leaf, cost |-> l.cost] : r \in LeafRefs(l.leaf, p.type)}
    BY DEF DependenciesOf
  <2>2. RefOf(node) \in LeafRefs(l.leaf, p.type) /\ d.leaf = l.leaf /\ d.cost = l.cost
    BY <2>1
  <2>3. PICK id \in Ids(p, d.leaf) : s = [node |-> Node(p.type, id, p.relation), cost |-> d.cost]
    BY <1>3
  <2>4. LeafLeads(l.leaf, p, node, id)
    BY <2>2, <2>3 DEF LeafLeads
  <2> QED
    BY <2>2, <2>3, <2>4 DEF ByLeaf
<1>4. ASSUME ByLeaf(node, refs, s)
      PROVE  \E p \in refs : \E d \in Here(p) : s \in Arrivals(p, d)
  <2>1. PICK p \in refs : \E l \in Leaves[RewriteOf(p)] : \E id :
          /\ LeafLeads(l.leaf, p, node, id)
          /\ s = [node |-> Node(p.type, id, p.relation), cost |-> l.cost]
    BY <1>4 DEF ByLeaf
  <2>2. PICK l \in Leaves[RewriteOf(p)] : \E id :
          /\ LeafLeads(l.leaf, p, node, id)
          /\ s = [node |-> Node(p.type, id, p.relation), cost |-> l.cost]
    BY <2>1
  <2>3. PICK id : /\ LeafLeads(l.leaf, p, node, id)
                  /\ s = [node |-> Node(p.type, id, p.relation), cost |-> l.cost]
    BY <2>2
  <2>4. PICK d : d = [ref |-> RefOf(node), leaf |-> l.leaf, cost |-> l.cost]
    OBVIOUS
  <2>5. d \in DependenciesOf(p) /\ d.ref = RefOf(node) /\ d.leaf = l.leaf /\ d.cost = l.cost
    <3>1. d \in {[ref |-> r, leaf |-> l.leaf, cost |-> l.cost] : r \in LeafRefs(l.leaf, p.type)}
      BY <2>3, <2>4 DEF LeafLeads
    <3>2. d \in DependenciesOf(p)
      BY <3>1 DEF DependenciesOf
    <3> QED
      BY <2>4, <3>2
  <2>6. id \in Ids(p, d.leaf)
    BY <2>3, <2>5 DEF LeafLeads
  <2> QED
    BY <2>3, <2>5, <2>6
<1> HIDE DEF Arrivals, Here
<1>5. s \in RewriteSteps(node, refs) <=> ByLeaf(node, refs, s)
  BY <1>2, <1>3, <1>4
<1> QED
  BY <1>1, <1>5 DEF Onward

\* A walk goes on to usersets of its refs.
LEMMA OnwardTyped ==
  ASSUME Typed, NEW refs, refs \subseteq DefinedRefs, NEW node \in WalkNode,
         NEW s \in Onward(node, refs)
  PROVE  /\ s = [node |-> s.node, cost |-> s.cost]
         /\ s.node \in WalkNode /\ RefOf(s.node) \in refs /\ s.node.relation # Direct
         /\ s.cost \in Nat /\ 1 <= s.cost
         /\ s.node = Node(s.node.type, s.node.id, s.node.relation)
<1>0. ASSUME NEW r \in refs, NEW id \in Id \cup {Wildcard}, NEW cost \in Nat, 1 <= cost,
             s = [node |-> Node(r.type, id, r.relation), cost |-> cost]
      PROVE  /\ s = [node |-> s.node, cost |-> s.cost]
             /\ s.node \in WalkNode /\ RefOf(s.node) \in refs /\ s.node.relation # Direct
             /\ s.cost \in Nat /\ 1 <= s.cost
             /\ s.node = Node(s.node.type, s.node.id, s.node.relation)
  <2>1. r \in LookupRef /\ r = Ref(r.type, r.relation)
    BY RefsDefined DEF Typed
  <2>2. r.type \in Namespace /\ r.relation \in Name
    BY <2>1 DEF LookupRef
  <2>3. s.node = [type |-> r.type, id |-> id, relation |-> r.relation] /\ s.cost = cost
    BY <1>0 DEF Node
  <2>4. s.node.relation # Direct
    BY <2>2, <2>3, NameAssumption
  <2>5. RefOf(s.node) = r
    BY <2>1, <2>3 DEF RefOf
  <2> QED
    BY <1>0, <2>2, <2>3, <2>4, <2>5 DEF WalkNode, Node
<1>1. CASE ByTuple(node, refs, s)
  <2>1. PICK t \in TuplesOf(node, refs) :
          s = [node |-> Node(t.object_type, t.object_id, t.relation), cost |-> 1]
    BY <1>1 DEF ByTuple
  <2>2. PICK r \in refs : r = Ref(t.object_type, t.relation)
    BY DEF TuplesOf
  <2>3. r.type = t.object_type /\ r.relation = t.relation
    BY <2>2 DEF Ref
  <2>4. t \in RelationTuple
    BY InputAssumption DEF TuplesOf, Typed
  <2>5. t.object_id \in Id \cup {Wildcard}
    BY <2>4 DEF RelationTuple
  <2> QED
    BY <1>0, <2>1, <2>3, <2>5
<1>2. CASE ByLeaf(node, refs, s)
  <2>1. PICK p \in refs : \E l \in Leaves[RewriteOf(p)] : \E id :
          /\ LeafLeads(l.leaf, p, node, id)
          /\ s = [node |-> Node(p.type, id, p.relation), cost |-> l.cost]
    BY <1>2 DEF ByLeaf
  <2>2. PICK l \in Leaves[RewriteOf(p)] : \E id :
          /\ LeafLeads(l.leaf, p, node, id)
          /\ s = [node |-> Node(p.type, id, p.relation), cost |-> l.cost]
    BY <2>1
  <2>3. PICK id : /\ LeafLeads(l.leaf, p, node, id)
                  /\ s = [node |-> Node(p.type, id, p.relation), cost |-> l.cost]
    BY <2>2
  <2>4. l.cost \in Nat /\ 1 <= l.cost
    BY RefsDefined, LeavesNested DEF Typed
  <2>5. id \in Id \cup {Wildcard}
    <3>1. CASE l.leaf.kind = "computed"
      BY <2>3, <3>1 DEF LeafLeads, WalkNode
    <3>2. CASE l.leaf.kind # "computed"
      BY <2>3, <3>2, InputAssumption DEF LeafLeads, Holders, Typed, RelationTuple
    <3> QED
      BY <3>1, <3>2
  <2> QED
    BY <1>0, <2>3, <2>4, <2>5
<1> QED
  BY <1>1, <1>2, OnwardIs

------------------------------------------------------------------------------
\* The levels of a walk

NextLevel(refs, subject, limit, level, met) ==
  LET new == UNION {{s.node : s \in {x \in Onward(m.node, refs) : m.cost + x.cost = level}} :
                      m \in met}
  IN met \cup {[node |-> n, cost |-> level] :
                 n \in {x \in new : /\ x \notin {m.node : m \in met}
                                    /\ Confirmed(x, subject, limit)}}

LEMMA NextLevelIs ==
  ASSUME NEW refs, NEW subject, NEW limit, NEW level, NEW met, NEW f
  PROVE  f \in NextLevel(refs, subject, limit, level, met) <=>
           \/ f \in met
           \/ /\ f = [node |-> f.node, cost |-> level]
              /\ \E m \in met : \E s \in Onward(m.node, refs) :
                   m.cost + s.cost = level /\ s.node = f.node
              /\ \A m \in met : m.node # f.node
              /\ Confirmed(f.node, subject, limit)
<1> DEFINE new == UNION {{s.node : s \in {x \in Onward(m.node, refs) : m.cost + x.cost = level}} :
                           m \in met}
<1>1. \A n : n \in new <=> \E m \in met : \E s \in Onward(m.node, refs) :
                             m.cost + s.cost = level /\ s.node = n
  OBVIOUS
<1>2. NextLevel(refs, subject, limit, level, met) =
        met \cup {[node |-> n, cost |-> level] :
                    n \in {x \in new : /\ x \notin {m.node : m \in met}
                                       /\ Confirmed(x, subject, limit)}}
  BY DEF NextLevel
<1> HIDE DEF new
<1>3. f \in NextLevel(refs, subject, limit, level, met) <=>
        \/ f \in met
        \/ \E n \in new : /\ f = [node |-> n, cost |-> level]
                          /\ n \notin {m.node : m \in met}
                          /\ Confirmed(n, subject, limit)
  BY <1>2
<1> QED
  BY <1>1, <1>3

LEMMA NextLevelTyped ==
  ASSUME Typed, NEW refs, refs \subseteq DefinedRefs, NEW subject, NEW limit,
         NEW level \in Nat, NEW met \in SUBSET Footing
  PROVE  NextLevel(refs, subject, limit, level, met) \in SUBSET Footing
<1> SUFFICES ASSUME NEW f \in NextLevel(refs, subject, limit, level, met) PROVE f \in Footing
  OBVIOUS
<1>1. CASE f \in met
  BY <1>1
<1>2. CASE f \notin met
  <2>1. /\ f = [node |-> f.node, cost |-> level]
        /\ \E m \in met : \E s \in Onward(m.node, refs) :
             m.cost + s.cost = level /\ s.node = f.node
    BY <1>2, NextLevelIs
  <2>2. PICK m \in met : \E s \in Onward(m.node, refs) : s.node = f.node
    BY <2>1
  <2>3. m.node \in WalkNode
    BY DEF Footing
  <2>4. f.node \in WalkNode
    BY <2>2, <2>3, OnwardTyped
  <2> QED
    BY <2>1, <2>4 DEF Footing
<1> QED
  BY <1>1, <1>2

StartLevel(subject) == {[node |-> n, cost |-> 0] : n \in Starts(subject)}

LEMMA StartsTyped ==
  ASSUME NEW subject \in Subjects
  PROVE  StartLevel(subject) \in SUBSET Footing
BY InputAssumption DEF StartLevel, Starts, Node, Footing, WalkNode

\* The levels of a walk, one after the other.
Levels(refs, subject, limit, w) ==
  /\ w[0] = StartLevel(subject)
  /\ \A i \in Nat : w[i + 1] = NextLevel(refs, subject, limit, i + 1, w[i])
  /\ \A i \in Nat : w[i] \in SUBSET Footing

LEMMA MetLevels ==
  ASSUME Typed, NEW refs, refs \subseteq DefinedRefs, NEW subject \in Subjects, NEW limit
  PROVE  \E w : w = Met(refs, subject, limit) /\ Levels(refs, subject, limit, w)
<1>1. PICK V, start : V = SUBSET Footing /\ start = StartLevel(subject)
  OBVIOUS
<1>2. start \in V
  BY <1>1, StartsTyped
<1>3. PICK next : next = [p \in Nat \X V |-> NextLevel(refs, subject, limit, p[1], p[2])]
  OBVIOUS
<1>4. ASSUME NEW n \in Nat, NEW v \in V
      PROVE  /\ next[<<n, v>>] = NextLevel(refs, subject, limit, n, v)
             /\ next[<<n, v>>] \in V
  <2>1. next[<<n, v>>] = NextLevel(refs, subject, limit, n, v)
    <3>1. <<n, v>> \in Nat \X V
      OBVIOUS
    <3> QED
      BY <1>3, <3>1
  <2> QED
    BY <1>1, <2>1, NextLevelTyped
<1>5. next \in [Nat \X V -> V]
  <2>1. ASSUME NEW p \in Nat \X V PROVE next[p] \in V
    <3>1. PICK n \in Nat, v \in V : p = <<n, v>>
      OBVIOUS
    <3> QED
      BY <1>4, <3>1
  <2>2. next = [p \in Nat \X V |-> next[p]]
    BY <1>3
  <2> QED
    BY <2>1, <2>2
<1>6. PICK f : Iterates(V, start, next, f)
  BY <1>2, <1>5, NatRecursion
<1>7. f \in [Nat -> V] /\ f[0] = start /\ \A n \in Nat : f[n + 1] = next[<<n + 1, f[n]>>]
  BY <1>6 DEF Iterates
<1> DEFINE Next1(level, met) == NextLevel(refs, subject, limit, level, met)
           Defining(g) == g = [level \in Nat |-> IF level = 0 THEN StartLevel(subject)
                                                 ELSE Next1(level, g[level - 1])]
<1>8. Met(refs, subject, limit) = CHOOSE g : Defining(g)
  BY DEF Met, NextLevel, StartLevel
<1> HIDE DEF Next1
<1>9. Defining(f)
  <2>1. ASSUME NEW n \in Nat, n # 0
        PROVE  f[n] = Next1(n, f[n - 1])
    <3>1. n - 1 \in Nat /\ n - 1 + 1 = n /\ f[n - 1] \in V
      BY <1>7, <2>1
    <3>2. f[n] = next[<<n, f[n - 1]>>]
      BY <1>7, <3>1
    <3> QED
      BY <1>4, <3>1, <3>2 DEF Next1
  <2> QED
    BY <1>1, <1>7, <2>1
<1> HIDE DEF Defining
<1>10. PICK w : w = Met(refs, subject, limit) /\ Defining(w)
  BY <1>8, <1>9
<1>11. \A n \in Nat : w[n] = IF n = 0 THEN StartLevel(subject) ELSE Next1(n, w[n - 1])
  BY <1>10 DEF Defining
<1>12. w[0] = StartLevel(subject)
  BY <1>11
<1>13. ASSUME NEW n \in Nat
       PROVE  w[n + 1] = Next1(n + 1, w[n])
  <2>1. PICK m \in Nat : m = n + 1 /\ m # 0 /\ m - 1 = n
    OBVIOUS
  <2> QED
    BY <1>11, <2>1
<1> DEFINE bad == {n \in Nat : w[n] \notin SUBSET Footing}
<1>14. bad = {}
  <2> SUFFICES ASSUME bad # {} PROVE FALSE
    OBVIOUS
  <2>1. PICK k \in bad : \A j \in bad : k <= j
    BY Least
  <2>2. k \in Nat /\ w[k] \notin SUBSET Footing /\ k # 0
    BY <1>1, <1>2, <1>12, <2>1
  <2>3. PICK j \in Nat : k = j + 1 /\ ~(k <= j)
    <3>1. k - 1 \in Nat /\ k = (k - 1) + 1 /\ ~(k <= k - 1)
      BY <2>2
    <3> QED
      BY <3>1
  <2>4. w[j] \in SUBSET Footing
    BY <2>1, <2>3
  <2>5. w[k] = NextLevel(refs, subject, limit, k, w[j])
    BY <1>13, <2>3 DEF Next1
  <2> QED
    BY <2>2, <2>4, <2>5, NextLevelTyped
<1> QED
  BY <1>10, <1>12, <1>13, <1>14 DEF Levels, Next1

LEMMA Induction ==
  ASSUME NEW S, 0 \in S, \A n \in Nat : n \in S => n + 1 \in S
  PROVE  Nat \subseteq S
<1> DEFINE bad == {n \in Nat : n \notin S}
<1> SUFFICES ASSUME bad # {} PROVE FALSE
  OBVIOUS
<1>1. PICK k \in bad : \A j \in bad : k <= j
  BY Least
<1>2. k \in Nat /\ k \notin S /\ k # 0
  OBVIOUS
<1>3. PICK j \in Nat : k = j + 1 /\ ~(k <= j)
  <2>1. k - 1 \in Nat /\ k = (k - 1) + 1 /\ ~(k <= k - 1)
    BY <1>2
  <2> QED
    BY <2>1
<1>4. j \in S
  BY <1>1, <1>3
<1> QED
  BY <1>2, <1>3, <1>4

LEMMA LevelsRise ==
  ASSUME NEW refs, NEW subject, NEW limit, NEW w, Levels(refs, subject, limit, w),
         NEW i \in Nat, NEW j \in Nat, i <= j
  PROVE  w[i] \subseteq w[j]
<1> DEFINE good == {n \in Nat : w[i] \subseteq w[i + n]}
<1>1. 0 \in good
  OBVIOUS
<1>2. ASSUME NEW n \in Nat, n \in good
      PROVE  n + 1 \in good
  <2>1. PICK k \in Nat : k = i + n /\ k + 1 = i + (n + 1)
    OBVIOUS
  <2>2. w[k + 1] = NextLevel(refs, subject, limit, k + 1, w[k])
    BY DEF Levels
  <2>3. w[k] \subseteq w[k + 1]
    BY <2>2, NextLevelIs
  <2> QED
    BY <1>2, <2>1, <2>3
<1> HIDE DEF good
<1>3. Nat \subseteq good
  BY <1>1, <1>2, Induction
<1>4. PICK n \in Nat : j = i + n
  <2>1. j - i \in Nat /\ j = i + (j - i)
    OBVIOUS
  <2> QED
    BY <2>1
<1> QED
  BY <1>3, <1>4 DEF good

\* A subject is met at the level of its cost: at the start, or by a step from one
\* that is met before.
Grounded(refs, subject, limit, w, f) ==
  \/ f.cost = 0 /\ f.node \in Starts(subject)
  \/ /\ \E m \in w[f.cost] : \E s \in Onward(m.node, refs) :
          m.cost + s.cost = f.cost /\ s.node = f.node
     /\ Confirmed(f.node, subject, limit)

LEMMA LevelsGrounded ==
  ASSUME Typed, NEW refs, NEW subject, NEW limit, NEW w, Levels(refs, subject, limit, w),
         NEW i \in Nat, NEW f \in w[i]
  PROVE  /\ f \in Footing /\ f.cost <= i /\ f \in w[f.cost]
         /\ Grounded(refs, subject, limit, w, f)
<1> DEFINE Good(n, x) == /\ x \in Footing /\ x.cost <= n /\ x \in w[x.cost]
                         /\ Grounded(refs, subject, limit, w, x)
           good == {n \in Nat : \A x \in w[n] : Good(n, x)}
<1>1. 0 \in good
  <2>1. ASSUME NEW x \in w[0]
        PROVE  Good(0, x)
    <3>1. PICK n \in Starts(subject) : x = [node |-> n, cost |-> 0]
      BY DEF Levels, StartLevel
    <3>2. x \in Footing
      BY DEF Levels
    <3> QED
      BY <3>1, <3>2 DEF Grounded
  <2> QED
    BY <2>1
<1>2. ASSUME NEW n \in Nat, n \in good
      PROVE  n + 1 \in good
  <2>1. ASSUME NEW x \in w[n + 1]
        PROVE  Good(n + 1, x)
    <3>0. x \in Footing /\ n + 1 \in Nat
      BY DEF Levels
    <3>1. w[n + 1] = NextLevel(refs, subject, limit, n + 1, w[n])
      BY DEF Levels
    <3>2. CASE x \in w[n]
      <4>1. Good(n, x)
        BY <1>2, <3>2
      <4>2. x.cost \in Nat /\ x.cost <= n + 1
        BY <3>0, <4>1 DEF Footing
      <4> QED
        BY <4>1, <4>2
    <3>3. CASE x \notin w[n]
      <4>1. /\ x = [node |-> x.node, cost |-> n + 1]
            /\ \E m \in w[n] : \E s \in Onward(m.node, refs) :
                 m.cost + s.cost = n + 1 /\ s.node = x.node
            /\ Confirmed(x.node, subject, limit)
        BY <3>1, <3>3, NextLevelIs
      <4>2. x.cost = n + 1
        BY <4>1
      <4>3. w[n] \subseteq w[n + 1]
        BY LevelsRise
      <4>4. Grounded(refs, subject, limit, w, x)
        BY <4>1, <4>2, <4>3 DEF Grounded
      <4> QED
        BY <3>0, <4>2, <4>4
    <3> QED
      BY <3>2, <3>3
  <2> QED
    BY <2>1
<1> HIDE DEF good
<1>3. Nat \subseteq good
  BY <1>1, <1>2, Induction
<1> QED
  BY <1>3 DEF good

\* A walk has come to a node.
MetBy(w, level, node) == \E f \in w[level] : f.node = node

\* What a step leads to is met at the latest at the step's cost.
LEMMA LevelsGoOn ==
  ASSUME Typed, NEW refs, refs \subseteq DefinedRefs, NEW subject, NEW limit, NEW w,
         Levels(refs, subject, limit, w),
         NEW i \in Nat, NEW m \in w[i], NEW s \in Onward(m.node, refs),
         Confirmed(s.node, subject, limit), NEW level \in Nat, m.cost + s.cost <= level
  PROVE  MetBy(w, level, s.node)
<1>1. m \in Footing /\ m \in w[m.cost]
  BY LevelsGrounded
<1>2. m.cost \in Nat /\ m.node \in WalkNode
  BY <1>1 DEF Footing
<1>3. s.cost \in Nat /\ 1 <= s.cost
  BY <1>2, OnwardTyped
<1>4. PICK j \in Nat : m.cost + s.cost = j + 1 /\ m.cost <= j /\ j + 1 <= level
  <2>1. m.cost + s.cost - 1 \in Nat /\ m.cost + s.cost = (m.cost + s.cost - 1) + 1
        /\ m.cost <= m.cost + s.cost - 1
    BY <1>2, <1>3
  <2> QED
    BY <2>1
<1>5. m \in w[j]
  BY <1>1, <1>2, <1>4, LevelsRise
<1>6. \E f \in w[j + 1] : f.node = s.node
  <2>1. CASE \E x \in w[j] : x.node = s.node
    <3>1. w[j] \subseteq w[j + 1]
      BY LevelsRise
    <3> QED
      BY <2>1, <3>1
  <2>2. CASE \A x \in w[j] : x.node # s.node
    <3>1. PICK f : f = [node |-> s.node, cost |-> j + 1]
      OBVIOUS
    <3>2. f.node = s.node /\ f = [node |-> f.node, cost |-> j + 1]
      BY <3>1
    <3>3. f \in NextLevel(refs, subject, limit, j + 1, w[j])
      BY <1>4, <1>5, <2>2, <3>2, NextLevelIs
    <3>4. w[j + 1] = NextLevel(refs, subject, limit, j + 1, w[j])
      BY DEF Levels
    <3> QED
      BY <3>2, <3>3, <3>4
  <2> QED
    BY <2>1, <2>2
<1>7. w[j + 1] \subseteq w[level]
  <2>1. j + 1 \in Nat
    OBVIOUS
  <2> QED
    BY <1>4, <2>1, LevelsRise
<1> QED
  BY <1>6, <1>7 DEF MetBy

RefAt(key) == Ref(key.object_type, key.relation)
KeyNode(key) == Node(key.object_type, key.object_id, key.relation)

\* A rule of a rewrite, whose leaves are leaves of the rewrite.
Within(rule, rewrite) ==
  /\ rule \in RulesOf(rewrite)
  /\ \A l \in Leaves[rule] : \E x \in Leaves[rewrite] : x.leaf = l.leaf

LEMMA WithinParts ==
  ASSUME NEW rewrite \in Rule, NEW rule, Within(rule, rewrite), NEW part \in Adding(rule)
  PROVE  /\ rule \in Rule /\ part \in Parts(rule) /\ Within(part, rewrite)
         /\ \A l \in Leaves[part] : l.cost \in Nat
                                    /\ [leaf |-> l.leaf, cost |-> l.cost + 1] \in Leaves[rule]
<1>1. rule \in Rule
  BY NestedParts DEF Within
<1>2. part \in Parts(rule) /\ part \in Rule
  BY <1>1, AddingParts
<1>3. rule.kind \notin {"computed", "arrow"}
  BY <1>1, <1>2 DEF Parts
<1>4. Leaves[rule] = {[l EXCEPT !.cost = @ + 1] : l \in UNION {Leaves[p] : p \in Adding(rule)}}
  BY <1>1, <1>3, LeavesFollow DEF LeavesOf
<1>5. ASSUME NEW l \in Leaves[part]
      PROVE  l.cost \in Nat /\ [leaf |-> l.leaf, cost |-> l.cost + 1] \in Leaves[rule]
  <2>1. l \in Leaf
    BY <1>2, LeavesFollow
  <2>2. [l EXCEPT !.cost = @ + 1] = [leaf |-> l.leaf, cost |-> l.cost + 1] /\ l.cost \in Nat
    BY <2>1 DEF Leaf
  <2>3. [l EXCEPT !.cost = @ + 1] \in Leaves[rule]
    BY <1>4
  <2> QED
    BY <2>2, <2>3
<1>6. part \in RulesOf(rewrite)
  BY <1>2, NestedParts DEF Within
<1>7. ASSUME NEW l \in Leaves[part]
      PROVE  \E x \in Leaves[rewrite] : x.leaf = l.leaf
  <2>1. PICK m : m = [leaf |-> l.leaf, cost |-> l.cost + 1]
    OBVIOUS
  <2>2. m \in Leaves[rule] /\ m.leaf = l.leaf
    BY <1>5, <2>1
  <2> QED
    BY <2>2 DEF Within
<1> QED
  BY <1>1, <1>2, <1>5, <1>6, <1>7 DEF Within

\* Where a leaf of a rewrite leads, the refs of a walk go.
LEMMA LeafRefsWithin ==
  ASSUME NEW refs, Saturated(refs), NEW r \in refs, NEW rule,
         Within(rule, RewriteOf(r)), NEW l \in Leaves[rule]
  PROVE  LeafRefs(l.leaf, r.type) \subseteq refs
<1> SUFFICES ASSUME NEW x \in LeafRefs(l.leaf, r.type) PROVE x \in refs
  OBVIOUS
<1>1. PICK k \in Leaves[RewriteOf(r)] : k.leaf = l.leaf
  BY DEF Within
<1>2. PICK d : d = [ref |-> x, leaf |-> k.leaf, cost |-> k.cost]
  OBVIOUS
<1>3. d \in DependenciesOf(r)
  <2>1. d \in {[ref |-> y, leaf |-> k.leaf, cost |-> k.cost] : y \in LeafRefs(k.leaf, r.type)}
    BY <1>1, <1>2
  <2> QED
    BY <2>1 DEF DependenciesOf
<1> QED
  BY <1>2, <1>3 DEF Saturated

------------------------------------------------------------------------------
\* A walk misses nothing

\* Of what a call allows, a walk finds the tuple, or the leaf and what it leads
\* from, in time for the walk to come to the call's key.
Offers(w, refs, c) ==
  \E m \in w[c.ask.limit + 1] :
    \/ /\ m.cost = 0 \/ m.cost + c.ask.depth <= c.ask.limit
       /\ \E t \in TuplesOf(m.node, refs) :
            /\ t.object_type = c.key.object_type /\ t.object_id = c.key.object_id
            /\ t.relation = c.key.relation
    \/ /\ m.node.relation # Direct
       /\ \E l \in Leaves[c.rule] :
            /\ LeafLeads(l.leaf, RefAt(c.key), m.node, c.key.object_id)
            /\ m.cost + l.cost + c.ask.depth <= c.ask.limit + 1

LEMMA PartOffers ==
  ASSUME NEW w, NEW refs, NEW rewrite \in Rule, NEW c \in Call, Within(c.rule, rewrite),
         \A m \in w[c.ask.limit + 1] : m.cost \in Nat,
         NEW part \in Adding(c.rule), Offers(w, refs, PartCall(c, part))
  PROVE  Offers(w, refs, c)
<1>1. PICK d : d = PartCall(c, part)
  OBVIOUS
<1>2. /\ d.rule = part /\ d.key = c.key /\ d.ask.limit = c.ask.limit
      /\ d.ask.depth = c.ask.depth + 1 /\ c.ask.depth \in Nat /\ c.ask.limit \in Nat
  BY <1>1, CallFields
<1>3. Offers(w, refs, d)
  BY <1>1
<1>4. PICK m \in w[c.ask.limit + 1] :
        \/ /\ m.cost = 0 \/ m.cost + d.ask.depth <= d.ask.limit
           /\ \E t \in TuplesOf(m.node, refs) :
                /\ t.object_type = d.key.object_type /\ t.object_id = d.key.object_id
                /\ t.relation = d.key.relation
        \/ /\ m.node.relation # Direct
           /\ \E l \in Leaves[d.rule] :
                /\ LeafLeads(l.leaf, RefAt(d.key), m.node, d.key.object_id)
                /\ m.cost + l.cost + d.ask.depth <= d.ask.limit + 1
  BY <1>2, <1>3 DEF Offers
<1>5. m.cost \in Nat
  OBVIOUS
<1>6. CASE /\ m.cost = 0 \/ m.cost + d.ask.depth <= d.ask.limit
           /\ \E t \in TuplesOf(m.node, refs) :
                /\ t.object_type = d.key.object_type /\ t.object_id = d.key.object_id
                /\ t.relation = d.key.relation
  <2>1. m.cost = 0 \/ m.cost + c.ask.depth <= c.ask.limit
    BY <1>2, <1>5, <1>6
  <2> QED
    BY <1>2, <1>6, <2>1 DEF Offers
<1>7. CASE /\ m.node.relation # Direct
           /\ \E l \in Leaves[d.rule] :
                /\ LeafLeads(l.leaf, RefAt(d.key), m.node, d.key.object_id)
                /\ m.cost + l.cost + d.ask.depth <= d.ask.limit + 1
  <2>1. PICK l \in Leaves[part] :
          /\ LeafLeads(l.leaf, RefAt(c.key), m.node, c.key.object_id)
          /\ m.cost + l.cost + d.ask.depth <= d.ask.limit + 1
    BY <1>2, <1>7
  <2>2. PICK k : k = [leaf |-> l.leaf, cost |-> l.cost + 1]
    OBVIOUS
  <2>3. k \in Leaves[c.rule] /\ k.leaf = l.leaf /\ k.cost = l.cost + 1 /\ l.cost \in Nat
    BY <2>2, WithinParts
  <2>4. m.cost + k.cost + c.ask.depth <= c.ask.limit + 1
    BY <1>2, <1>5, <2>1, <2>3
  <2> QED
    BY <1>7, <2>1, <2>3, <2>4 DEF Offers
<1> QED
  BY <1>4, <1>6, <1>7

\* A call of a rewrite that allows, of which a walk finds this.
Arriving(w, refs, subject, limit, d) ==
  /\ d \in Call /\ d.ask.subject = subject /\ d.ask.limit = limit /\ d.ask.depth <= limit
  /\ RefAt(d.key) \in refs /\ d.rule = RewriteOf(RefAt(d.key)) /\ d.key \in d.ask.visited
  /\ Answers[d] = Allow /\ Offers(w, refs, d)

\* A walk comes to the key of such a call.
LEMMA OffersArrive ==
  ASSUME Typed, NEW refs, refs \subseteq DefinedRefs, NEW subject \in Subjects,
         NEW limit \in Nat, NEW w, Levels(refs, subject, limit, w),
         NEW d, Arriving(w, refs, subject, limit, d),
         NEW level \in Nat, level + d.ask.depth = limit + 1
  PROVE  MetBy(w, level, KeyNode(d.key))
<1>0. /\ d \in Call /\ d.ask.subject = subject /\ d.ask.limit = limit /\ d.ask.depth <= limit
      /\ RefAt(d.key) \in refs /\ d.rule = RewriteOf(RefAt(d.key)) /\ d.key \in d.ask.visited
      /\ Answers[d] = Allow /\ Offers(w, refs, d)
  BY DEF Arriving
<1>1. PICK key : key = d.key /\ key \in Key
  BY <1>0 DEF Call
<1>2. PICK n : n = KeyNode(key)
  OBVIOUS
<1>3. n.type = key.object_type /\ n.id = key.object_id /\ n.relation = key.relation
  BY <1>2 DEF KeyNode, Node
<1>4. KeyOf(n.type, n.id, n.relation) = key
  BY <1>1, <1>3 DEF KeyOf, Key
<1>5. Defines(model, key.object_type, key.relation)
  BY <1>0, <1>1, RefsDefined DEF Typed, RefAt
<1>6. Allowed(key, subject, limit)
  <2>1. PICK x : x = FirstCall(key, subject, limit)
    OBVIOUS
  <2>2. x \in Call /\ Check(key, subject, limit) = Answers[x]
    BY <1>1, <1>5, <2>1, CheckIsCall DEF Typed
  <2>3. /\ x.rule = model[key.object_type][key.relation].rewrite /\ x.key = key
        /\ x.ask.subject = subject /\ x.ask.limit = limit /\ x.ask.depth = 0
        /\ x.ask.visited = {key}
    BY <2>1 DEF FirstCall
  <2>4. d.rule = x.rule
    BY <1>0, <1>1, <2>3 DEF RewriteOf, RefAt, Ref
  <2>5. d.ask.depth \in Nat
    BY <1>0, CallFields
  <2>6. Twin(d, x)
    BY <1>0, <1>1, <2>3, <2>4, <2>5 DEF Twin
  <2>7. Leq(Answers[d], Answers[x])
    BY <1>0, <2>2, <2>6, TwinsAnswer
  <2>8. Allow # Unknown
    BY DEF Allow, Unknown
  <2> QED
    BY <1>0, <2>2, <2>7, <2>8 DEF Allowed, Leq
<1>7. Confirmed(n, subject, limit)
  BY <1>4, <1>6 DEF Confirmed
<1>8. PICK m \in w[limit + 1] :
        \/ /\ m.cost = 0 \/ m.cost + d.ask.depth <= limit
           /\ \E t \in TuplesOf(m.node, refs) :
                /\ t.object_type = key.object_type /\ t.object_id = key.object_id
                /\ t.relation = key.relation
        \/ /\ m.node.relation # Direct
           /\ \E l \in Leaves[d.rule] :
                /\ LeafLeads(l.leaf, RefAt(key), m.node, key.object_id)
                /\ m.cost + l.cost + d.ask.depth <= limit + 1
  BY <1>0, <1>1 DEF Offers
<1>9. limit + 1 \in Nat /\ d.ask.depth \in Nat
  BY <1>0, CallFields
<1>10. m.cost \in Nat
  BY <1>9, LevelsGrounded DEF Footing
<1>11. \E s \in Onward(m.node, refs) : s.node = n /\ m.cost + s.cost <= level
  <2>1. CASE /\ m.cost = 0 \/ m.cost + d.ask.depth <= limit
             /\ \E t \in TuplesOf(m.node, refs) :
                  /\ t.object_type = key.object_type /\ t.object_id = key.object_id
                  /\ t.relation = key.relation
    <3>1. PICK s : s = [node |-> n, cost |-> 1]
      OBVIOUS
    <3>2. ByTuple(m.node, refs, s)
      BY <1>2, <2>1, <3>1 DEF ByTuple, KeyNode
    <3>3. s \in Onward(m.node, refs)
      BY <3>2, OnwardIs
    <3>4. s.node = n /\ s.cost = 1
      BY <3>1
    <3>5. m.cost + 1 <= level
      BY <1>0, <1>9, <1>10, <2>1
    <3> QED
      BY <3>3, <3>4, <3>5
  <2>2. CASE /\ m.node.relation # Direct
             /\ \E l \in Leaves[d.rule] :
                  /\ LeafLeads(l.leaf, RefAt(key), m.node, key.object_id)
                  /\ m.cost + l.cost + d.ask.depth <= limit + 1
    <3>1. PICK l \in Leaves[d.rule] :
            /\ LeafLeads(l.leaf, RefAt(key), m.node, key.object_id)
            /\ m.cost + l.cost + d.ask.depth <= limit + 1
      BY <2>2
    <3>2. PICK s : s = [node |-> n, cost |-> l.cost]
      OBVIOUS
    <3>3. PICK r : r = RefAt(key)
      OBVIOUS
    <3>4. r \in refs /\ r.type = key.object_type /\ r.relation = key.relation
      BY <1>0, <1>1, <3>3 DEF RefAt, Ref
    <3>5. n = Node(r.type, key.object_id, r.relation)
      BY <1>2, <3>4 DEF KeyNode
    <3>6. l \in Leaves[RewriteOf(r)]
      BY <1>0, <1>1, <3>3
    <3>7. ByLeaf(m.node, refs, s)
      BY <3>1, <3>2, <3>3, <3>4, <3>5, <3>6 DEF ByLeaf
    <3>8. s \in Onward(m.node, refs)
      BY <2>2, <3>7, OnwardIs
    <3>9. l.cost \in Nat
      BY <1>0, LeavesNested, CallFields
    <3>10. m.cost + l.cost <= level
      BY <1>0, <1>9, <1>10, <3>1, <3>9
    <3>11. s.node = n /\ s.cost = l.cost
      BY <3>2
    <3> QED
      BY <3>8, <3>10, <3>11
  <2> QED
    BY <1>8, <2>1, <2>2
<1>12. PICK s \in Onward(m.node, refs) : s.node = n /\ m.cost + s.cost <= level
  BY <1>11
<1>13. MetBy(w, level, s.node)
  BY <1>7, <1>9, <1>12, LevelsGoOn
<1> QED
  BY <1>1, <1>2, <1>12, <1>13

\* Calls of the rules of refs that a walk is made for.
OnWalk(refs, subject, limit, c) ==
  /\ c.ask.subject = subject /\ c.ask.limit = limit
  /\ RefAt(c.key) \in refs /\ Within(c.rule, RewriteOf(RefAt(c.key)))

LEMMA WholeWithin ==
  ASSUME NEW rule \in Rule
  PROVE  Within(rule, rule)
BY NestedParts DEF Within

LEMMA RewriteAt ==
  ASSUME NEW key
  PROVE  RewriteOf(RefAt(key)) = model[key.object_type][key.relation].rewrite
BY DEF RewriteOf, RefAt, Ref

\* A walk comes in time to the key of a call that answers for another call.
LEMMA LeadsArrive ==
  ASSUME Typed, NEW refs, refs \subseteq DefinedRefs, NEW subject \in Subjects,
         NEW limit \in Nat, NEW w, Levels(refs, subject, limit, w),
         NEW c \in Call, c.ask.subject = subject, c.ask.limit = limit,
         NEW key \in Key, RefAt(key) \in refs, Leads(c, key),
         \A d \in Call : Below(d, c) /\ OnWalk(refs, subject, limit, d) /\ Answers[d] = Allow =>
                           Offers(w, refs, d)
  PROVE  \E m \in w[limit + 1] : /\ m.node = KeyNode(key) /\ m.cost \in Nat
                                 /\ m.cost + c.ask.depth <= limit
<1>1. PICK d : d = KeyCall(c, key)
  OBVIOUS
<1>2. d \in Call /\ Below(d, c) /\ Answers[d] = Allow
  BY <1>1, KeyBelow DEF Leads, Typed
<1>3. /\ d.key = key /\ d.ask.subject = subject /\ d.ask.limit = limit
      /\ d.ask.depth = c.ask.depth + 1 /\ c.ask.depth \in Nat /\ key \in d.ask.visited
      /\ d.rule = RewriteOf(RefAt(key))
  <2>1. /\ d.rule = model[key.object_type][key.relation].rewrite /\ d.key = key
        /\ d.ask.subject = c.ask.subject /\ d.ask.limit = c.ask.limit
        /\ d.ask.depth = c.ask.depth + 1 /\ d.ask.visited = c.ask.visited \cup {key}
    BY <1>1, CallFields
  <2>2. c.ask.depth \in Nat
    BY CallFields
  <2> QED
    BY <2>1, <2>2, RewriteAt
<1>4. d.ask.depth <= limit
  BY <1>3 DEF Leads, CutOff
<1>5. RewriteOf(RefAt(key)) \in Rule
  BY RefsDefined DEF Typed
<1>6. OnWalk(refs, subject, limit, d)
  BY <1>3, <1>5, WholeWithin DEF OnWalk
<1>7. Offers(w, refs, d)
  BY <1>2, <1>6
<1>8. PICK level \in Nat : level + d.ask.depth = limit + 1 /\ level + c.ask.depth = limit
  <2>1. limit - c.ask.depth \in Nat /\ (limit - c.ask.depth) + d.ask.depth = limit + 1
        /\ (limit - c.ask.depth) + c.ask.depth = limit
    BY <1>3, <1>4
  <2> QED
    BY <2>1
<1>9. PICK f \in w[level] : f.node = KeyNode(key)
  <2>1. Arriving(w, refs, subject, limit, d)
    BY <1>2, <1>3, <1>4, <1>7 DEF Arriving
  <2>2. MetBy(w, level, KeyNode(d.key))
    BY <1>8, <2>1, OffersArrive
  <2> QED
    BY <1>3, <2>2 DEF MetBy
<1>10. f \in Footing /\ f.cost <= level
  BY LevelsGrounded
<1>11. level <= limit + 1 /\ limit + 1 \in Nat
  BY <1>3, <1>8
<1>12. f \in w[limit + 1]
  BY <1>11, LevelsRise
<1>13. f.cost \in Nat
  BY <1>10 DEF Footing
<1>14. f.cost + c.ask.depth <= limit
  BY <1>3, <1>8, <1>10, <1>13
<1> QED
  BY <1>9, <1>12, <1>13, <1>14

\* The tuple of a direct grant leads to the userset that it names.
LEMMA StoredUserset ==
  ASSUME NEW key, NEW t \in TuplesAt(key, key.relation), AllowsStored(model, t),
         t.subject_relation # Direct
  PROVE  RefAt(KeyOf(t.subject_type, t.subject_id, t.subject_relation)) \in UsersetRefs(RefAt(key))
<1>1. t.object_type = key.object_type /\ t.relation = key.relation
  BY DEF TuplesAt
<1>2. PICK s \in model[key.object_type][key.relation].subjects : RefAllows(s, t)
  BY <1>1 DEF AllowsStored
<1>3. s.type = t.subject_type /\ s.relation = t.subject_relation
  BY <1>2 DEF RefAllows
<1>4. RefAt(KeyOf(t.subject_type, t.subject_id, t.subject_relation)) = Ref(s.type, s.relation)
  BY <1>3 DEF RefAt, KeyOf
<1> QED
  BY <1>2, <1>3, <1>4 DEF UsersetRefs, RefAt, Ref

LEMMA SubjectNode ==
  ASSUME NEW t
  PROVE  /\ KeyNode(KeyOf(t.subject_type, t.subject_id, t.subject_relation)) = SubjectOf(t)
BY DEF KeyNode, KeyOf, SubjectOf, Node

\* The tuple of a key is one of its node's subject.
LEMMA TupleOf ==
  ASSUME Typed, NEW key, NEW refs, RefAt(key) \in refs, NEW t \in TuplesAt(key, key.relation),
         AllowsStored(model, t)
  PROVE  /\ t \in TuplesOf(SubjectOf(t), refs)
         /\ t.object_type = key.object_type /\ t.object_id = key.object_id
         /\ t.relation = key.relation
BY DEF TuplesOf, TuplesAt, RefAt

LEMMA WalkMisses ==
  ASSUME Typed, ValidSchema(model), NEW refs, Saturated(refs), NEW subject \in Subjects,
         NEW limit \in Nat, NEW w, Levels(refs, subject, limit, w),
         NEW c \in Call, OnWalk(refs, subject, limit, c), Answers[c] = Allow,
         \A d \in Call : Below(d, c) /\ OnWalk(refs, subject, limit, d) /\ Answers[d] = Allow =>
                           Offers(w, refs, d)
  PROVE  Offers(w, refs, c)
<1>1. PICK r, key : r = c.rule /\ key = c.key
  OBVIOUS
<1>2. /\ r \in Rule /\ key \in Key /\ c.ask.depth \in Nat /\ c.ask.limit = limit
      /\ c.ask.subject = subject /\ limit + 1 \in Nat
  BY <1>1, CallFields DEF OnWalk
<1>3. /\ RefAt(key) \in refs /\ RefAt(key) \in DefinedRefs /\ refs \subseteq DefinedRefs
      /\ Within(r, RewriteOf(RefAt(key))) /\ RewriteOf(RefAt(key)) \in Rule
  BY <1>1, RefsDefined DEF OnWalk, Saturated, Typed
<1>4. RefAt(key).type = key.object_type
  BY DEF RefAt, Ref
<1>5. Because(c)
  BY AllowedBecause DEF Explained
<1>6. \A m \in w[limit + 1] : m.cost \in Nat
  BY <1>2, LevelsGrounded DEF Footing
<1>7. ASSUME NEW k \in Key, RefAt(k) \in refs, Leads(c, k)
      PROVE  \E m \in w[limit + 1] : /\ m.node = KeyNode(k) /\ m.cost \in Nat
                                     /\ m.cost + c.ask.depth <= limit
  BY <1>2, <1>3, <1>7, LeadsArrive
<1>8. ASSUME NEW part \in Adding(r), Answers[PartCall(c, part)] = Allow
      PROVE  Offers(w, refs, c)
  <2>1. part \in Parts(r) /\ Within(part, RewriteOf(RefAt(key)))
    BY <1>3, WithinParts
  <2>2. PartCall(c, part) \in Call /\ Below(PartCall(c, part), c)
    BY <1>1, <2>1, PartBelow
  <2>3. OnWalk(refs, subject, limit, PartCall(c, part))
    BY <1>1, <1>2, <1>3, <2>1, CallFields DEF OnWalk
  <2>4. Offers(w, refs, PartCall(c, part))
    BY <1>8, <2>2, <2>3
  <2> QED
    BY <1>1, <1>2, <1>3, <1>6, <2>4, PartOffers
<1>9. CASE r.kind = "this"
  <2>1. PICK t \in TuplesAt(key, key.relation) :
          /\ AllowsStored(model, t)
          /\ IF t.subject_relation # Direct
             THEN Leads(c, KeyOf(t.subject_type, t.subject_id, t.subject_relation))
             ELSE SubjectMatches(t, subject)
    BY <1>1, <1>2, <1>5, <1>9 DEF Because
  <2>2. /\ t \in TuplesOf(SubjectOf(t), refs)
        /\ t.object_type = key.object_type /\ t.object_id = key.object_id
        /\ t.relation = key.relation
    BY <1>3, <2>1, TupleOf
  <2>3. CASE t.subject_relation = Direct
    <3>1. SubjectOf(t) \in Starts(subject)
      BY <2>1, <2>3 DEF SubjectMatches, Starts, SubjectOf
    <3>2. PICK m : m = [node |-> SubjectOf(t), cost |-> 0]
      OBVIOUS
    <3>3. m \in w[0] /\ m.node = SubjectOf(t) /\ m.cost = 0
      BY <3>1, <3>2 DEF Levels, StartLevel
    <3>4. m \in w[limit + 1]
      <4>1. 0 \in Nat /\ 0 <= limit + 1
        OBVIOUS
      <4> QED
        BY <1>2, <3>3, <4>1, LevelsRise
    <3> QED
      BY <1>1, <1>2, <2>2, <3>3, <3>4 DEF Offers
  <2>4. CASE t.subject_relation # Direct
    <3>1. PICK k : k = KeyOf(t.subject_type, t.subject_id, t.subject_relation)
      OBVIOUS
    <3>2. k \in Key
      BY <1>2, <2>4, <3>1, EdgeKeys DEF Typed
    <3>3. RefAt(k) \in refs
      BY <1>3, <2>1, <2>4, <3>1, StoredUserset DEF Saturated
    <3>4. PICK m \in w[limit + 1] : /\ m.node = KeyNode(k) /\ m.cost \in Nat
                                    /\ m.cost + c.ask.depth <= limit
      BY <1>7, <2>1, <2>4, <3>1, <3>2, <3>3
    <3>5. m.node = SubjectOf(t)
      BY <3>1, <3>4, SubjectNode
    <3> QED
      BY <1>1, <1>2, <2>2, <3>4, <3>5 DEF Offers
  <2> QED
    BY <2>3, <2>4
<1>10. ASSUME r.kind \in {"computed", "arrow"}, NEW k \in Key, Leads(c, k),
              RefAt(k) \in LeafRefs(r, key.object_type),
              r.kind = "computed" => key.object_id = k.object_id,
              r.kind = "arrow" =>
                key.object_id \in Holders(key.object_type, r.tuple_relation, KeyNode(k))
       PROVE  Offers(w, refs, c)
  <2>1. PICK l : l = [leaf |-> r, cost |-> 1]
    OBVIOUS
  <2>2. l \in Leaves[r] /\ l.leaf = r /\ l.cost = 1
    BY <1>2, <1>10, <2>1, LeavesFollow DEF LeavesOf
  <2>3. RefAt(k) \in refs
    BY <1>3, <1>4, <1>10, <2>2, LeafRefsWithin
  <2>4. PICK m \in w[limit + 1] : /\ m.node = KeyNode(k) /\ m.cost \in Nat
                                  /\ m.cost + c.ask.depth <= limit
    BY <1>7, <1>10, <2>3
  <2>5. /\ m.node.relation = k.relation /\ m.node.id = k.object_id
        /\ RefOf(m.node) = RefAt(k)
    BY <2>4 DEF KeyNode, Node, RefOf, RefAt
  <2>6. m.node.relation # Direct
    BY <2>5, NameAssumption DEF Key
  <2>7. LeafLeads(l.leaf, RefAt(key), m.node, key.object_id)
    BY <1>4, <1>10, <2>2, <2>4, <2>5 DEF LeafLeads
  <2>8. m.cost + l.cost + c.ask.depth <= limit + 1
    BY <1>2, <2>2, <2>4
  <2> QED
    BY <1>1, <1>2, <2>2, <2>6, <2>7, <2>8 DEF Offers
<1>11. CASE r.kind = "computed"
  <2>1. PICK k : k = [key EXCEPT !.relation = r.relation]
    OBVIOUS
  <2>2. k \in Key /\ k.object_type = key.object_type /\ k.object_id = key.object_id
        /\ k.relation = r.relation
    BY <1>2, <1>11, <2>1, RuleKinds DEF Key
  <2>3. Leads(c, k)
    BY <1>1, <1>5, <1>11, <2>1 DEF Because
  <2>4. RefAt(k) \in LeafRefs(r, key.object_type)
    BY <1>11, <2>2 DEF LeafRefs, RefAt
  <2> QED
    BY <1>10, <1>11, <2>2, <2>3, <2>4
<1>12. CASE r.kind = "arrow"
  <2>1. PICK t \in TuplesAt(key, r.tuple_relation) :
          /\ AllowsArrow(model, t)
          /\ Leads(c, KeyOf(t.subject_type, t.subject_id, r.computed_relation))
    BY <1>1, <1>5, <1>12 DEF Because
  <2>2. PICK k : k = KeyOf(t.subject_type, t.subject_id, r.computed_relation)
    OBVIOUS
  <2>3. r.computed_relation \in Name
    BY <1>2, <1>12, RuleKinds
  <2>4. k \in Key
    BY <1>2, <2>2, <2>3, EdgeKeys DEF Typed
  <2>5. t \in tuples /\ t.object_type = key.object_type /\ t.object_id = key.object_id
        /\ t.relation = r.tuple_relation
    BY DEF TuplesAt
  <2>6. RefAt(k) \in LeafRefs(r, key.object_type)
    BY <1>12, <2>1, <2>2, <2>5 DEF LeafRefs, ArrowTargets, AllowsArrow, RefAt, KeyOf
  <2>7. SubjectOf(t) = [KeyNode(k) EXCEPT !.relation = Direct]
    BY <2>1, <2>2 DEF SubjectOf, KeyNode, KeyOf, Node, AllowsArrow
  <2>8. key.object_id \in Holders(key.object_type, r.tuple_relation, KeyNode(k))
    BY <2>1, <2>5, <2>7 DEF Holders
  <2> QED
    BY <1>10, <1>12, <2>1, <2>2, <2>4, <2>6, <2>8
<1>13. CASE r.kind = "union"
  <2>1. PICK part \in r.children : Answers[PartCall(c, part)] = Allow
    BY <1>1, <1>5, <1>13 DEF Because
  <2>2. part \in Adding(r)
    BY <1>2, <1>13, RuleKinds DEF Adding
  <2> QED
    BY <1>8, <2>1, <2>2
<1>14. CASE r.kind = "intersection"
  <2>1. \A part \in r.children : Answers[PartCall(c, part)] = Allow
    BY <1>1, <1>5, <1>14 DEF Because
  <2>2. r.children # {}
    <3>1. Defines(model, key.object_type, key.relation)
      BY <1>3, RefsDefined DEF RefAt, Typed
    <3>2. r \in RulesOf(model[key.object_type][key.relation].rewrite)
      BY <1>3, RewriteAt DEF Within
    <3> QED
      BY <1>14, <3>1, <3>2 DEF ValidSchema, ValidRewrite, Defines
  <2>3. PICK part : part \in r.children
    BY <2>2
  <2>4. part \in Adding(r)
    BY <1>2, <1>14, <2>3, RuleKinds DEF Adding
  <2> QED
    BY <1>8, <2>1, <2>3, <2>4
<1>15. CASE r.kind = "exclusion"
  <2>1. Answers[PartCall(c, r.base)] = Allow
    BY <1>1, <1>5, <1>15 DEF Because
  <2>2. r.base \in Adding(r)
    BY <1>15 DEF Adding
  <2> QED
    BY <1>8, <2>1, <2>2
<1> QED
  BY <1>2, <1>9, <1>11, <1>12, <1>13, <1>14, <1>15, RuleKinds

LEMMA WalkCompletes ==
  ASSUME Typed, ValidSchema(model), NEW refs, Saturated(refs), NEW subject \in Subjects,
         NEW limit \in Nat, NEW w, Levels(refs, subject, limit, w),
         NEW c \in Call, OnWalk(refs, subject, limit, c), Answers[c] = Allow
  PROVE  Offers(w, refs, c)
<1> DEFINE bad == {x \in Call : /\ OnWalk(refs, subject, limit, x) /\ Answers[x] = Allow
                               /\ ~Offers(w, refs, x)}
<1> SUFFICES ASSUME bad # {} PROVE FALSE
  OBVIOUS
<1>1. PICK x \in bad : \A e \in bad : ~Below(e, x)
  BY Deepest
<1>2. \A d \in Call : Below(d, x) /\ OnWalk(refs, subject, limit, d) /\ Answers[d] = Allow =>
                        Offers(w, refs, d)
  BY <1>1
<1>3. x \in Call /\ OnWalk(refs, subject, limit, x) /\ Answers[x] = Allow /\ ~Offers(w, refs, x)
  OBVIOUS
<1> HIDE DEF bad
<1>4. Offers(w, refs, x)
  BY <1>2, <1>3, WalkMisses
<1> QED
  BY <1>3, <1>4

------------------------------------------------------------------------------
\* One call of a lookup

LookupAsk ==
  [subject : [type : Namespace, id : Id], limit : Nat, depth : Nat, visited : SUBSET LookupRef]

\* How the traversal gets to a part of a rule or to a relation it computes, and
\* to a target of its arrow.
Fresh(ask) == [Deeper(ask) EXCEPT !.visited = {}]

LEMMA AsksFollow ==
  ASSUME NEW c \in LookupCall
  PROVE  /\ c.rule \in Rule /\ c.ref \in LookupRef /\ c.ask \in LookupAsk
         /\ c.ask.limit \in Nat /\ c.ask.depth \in Nat
         /\ \A ask \in {Deeper(c.ask), Fresh(c.ask)} :
              /\ ask \in LookupAsk /\ ask.subject = c.ask.subject
              /\ ask.limit = c.ask.limit /\ ask.depth = c.ask.depth + 1
         /\ Deeper(c.ask).visited = c.ask.visited /\ Fresh(c.ask).visited = {}
<1>1. PICK a : a = c.ask
  OBVIOUS
<1>2. c.rule \in Rule /\ c.ref \in LookupRef /\ a \in LookupAsk
  BY <1>1 DEF LookupCall, LookupAsk
<1>3. PICK b : b = Deeper(a)
  OBVIOUS
<1>4. /\ b \in LookupAsk /\ b.subject = a.subject /\ b.limit = a.limit
      /\ b.depth = a.depth + 1 /\ b.visited = a.visited
  BY <1>2, <1>3 DEF LookupAsk, Deeper
<1>5. PICK e : e = [b EXCEPT !.visited = {}]
  OBVIOUS
<1>6. /\ e \in LookupAsk /\ e.subject = a.subject /\ e.limit = a.limit
      /\ e.depth = a.depth + 1 /\ e.visited = {}
  BY <1>4, <1>5 DEF LookupAsk
<1>7. e = Fresh(c.ask) /\ b = Deeper(c.ask)
  BY <1>1, <1>3, <1>5 DEF Fresh
<1>8. a.limit \in Nat /\ a.depth \in Nat
  BY <1>2 DEF LookupAsk
<1> QED
  BY <1>1, <1>2, <1>4, <1>6, <1>7, <1>8

LookupPart(c, part) == [rule |-> part, ref |-> c.ref, ask |-> Deeper(c.ask)]

RefCall(ref, ask) ==
  [rule |-> RewriteOf(ref), ref |-> ref, ask |-> [ask EXCEPT !.visited = @ \cup {ref}]]

LookupCut(ref, ask) ==
  \/ ask.depth > ask.limit
  \/ ~IsDefined(ref)
  \/ RewriteOf(ref).kind # "this" /\ ref \in ask.visited

\* An id is found for a ref.
Finds(found, ref, ask, id) == ~LookupCut(ref, ask) /\ id \in found[RefCall(ref, ask)]

LEMMA FindsIs ==
  ASSUME NEW found, NEW ref, NEW ask, NEW id
  PROVE  id \in LookupRecursive(found, ref, ask) <=> Finds(found, ref, ask, id)
BY DEF LookupRecursive, Finds, LookupCut, RefCall

LEMMA LookupPartIs ==
  ASSUME NEW c \in LookupCall, NEW part \in Parts(c.rule)
  PROVE  /\ LookupPart(c, part) \in LookupCall /\ Below(LookupPart(c, part), c)
         /\ LookupPart(c, part).rule = part /\ LookupPart(c, part).ref = c.ref
         /\ LookupPart(c, part).ask = Deeper(c.ask)
<1>1. part \in Rule
  BY AsksFollow, RuleKinds
<1>2. PICK b : b = Deeper(c.ask)
  OBVIOUS
<1>3. /\ b \in LookupAsk /\ b.limit = c.ask.limit /\ b.depth = c.ask.depth + 1
      /\ c.ref \in LookupRef
  BY <1>2, AsksFollow
<1>4. PICK d : d = LookupPart(c, part)
  OBVIOUS
<1>5. d = [rule |-> part, ref |-> c.ref, ask |-> b]
  BY <1>2, <1>4 DEF LookupPart
<1>6. d \in LookupCall
  BY <1>1, <1>3, <1>5 DEF LookupCall, LookupAsk
<1>7. Below(d, c)
  BY <1>3, <1>5 DEF Below
<1> QED
  BY <1>2, <1>4, <1>5, <1>6, <1>7

LEMMA RefCallIs ==
  ASSUME Typed, NEW ref, ref = Ref(ref.type, ref.relation), NEW ask \in LookupAsk,
         ~LookupCut(ref, ask)
  PROVE  /\ RefCall(ref, ask) \in LookupCall
         /\ RefCall(ref, ask).rule = RewriteOf(ref) /\ RefCall(ref, ask).ref = ref
         /\ RefCall(ref, ask).ask.subject = ask.subject
         /\ RefCall(ref, ask).ask.limit = ask.limit /\ RefCall(ref, ask).ask.depth = ask.depth
         /\ RefCall(ref, ask).ask.visited = ask.visited \cup {ref}
         /\ ref \in DefinedRefs /\ ask.depth <= ask.limit
<1>1. ref \in DefinedRefs
  BY RefsDefined DEF Typed, LookupCut, IsDefined
<1>2. ref \in LookupRef /\ RewriteOf(ref) \in Rule
  BY <1>1, RefsDefined DEF Typed
<1>3. PICK b : b = [ask EXCEPT !.visited = @ \cup {ref}]
  OBVIOUS
<1>4. /\ b \in LookupAsk /\ b.subject = ask.subject /\ b.limit = ask.limit
      /\ b.depth = ask.depth /\ b.visited = ask.visited \cup {ref}
  BY <1>2, <1>3 DEF LookupAsk
<1>5. PICK d : d = RefCall(ref, ask)
  OBVIOUS
<1>6. d = [rule |-> RewriteOf(ref), ref |-> ref, ask |-> b]
  BY <1>3, <1>5 DEF RefCall
<1>7. d \in LookupCall
  BY <1>2, <1>4, <1>6 DEF LookupCall, LookupAsk
<1>8. ask.depth <= ask.limit
  BY DEF LookupCut, LookupAsk
<1> QED
  BY <1>1, <1>4, <1>5, <1>6, <1>7, <1>8

\* Why a call finds an id.
FoundBecause(found, c, id) ==
  \/ c.rule.kind = "this" /\ id \in LookupDirect(c.ref, c.ask)
  \/ /\ c.rule.kind = "computed"
     /\ Finds(found, Ref(c.ref.type, c.rule.relation), Deeper(c.ask), id)
  \/ /\ c.rule.kind = "arrow"
     /\ \E target \in ArrowTargets(c.rule, c.ref.type) : \E y :
          /\ Finds(found, target, Fresh(c.ask), y)
          /\ id \in Holders(c.ref.type, c.rule.tuple_relation, Node(target.type, y, Direct))
  \/ c.rule.kind = "union" /\ \E part \in c.rule.children : id \in found[LookupPart(c, part)]
  \/ /\ c.rule.kind = "intersection" /\ c.rule.children # {}
     /\ \A part \in c.rule.children : id \in found[LookupPart(c, part)]
  \/ /\ c.rule.kind = "exclusion"
     /\ id \in found[LookupPart(c, c.rule.base)]
     /\ id \notin found[LookupPart(c, c.rule.subtract)]

LEMMA LookupRuleIs ==
  ASSUME NEW c \in LookupCall, NEW found, NEW id
  PROVE  id \in LookupRule(found, c.rule, c.ref, c.ask) <=> FoundBecause(found, c, id)
<1>1. PICK r, ref, ask : r = c.rule /\ ref = c.ref /\ ask = c.ask /\ r \in Rule
  BY AsksFollow
<1>2. CASE r.kind = "this"
  <2>1. LookupRule(found, r, ref, ask) = LookupDirect(ref, ask)
    BY <1>2 DEF LookupRule
  <2> QED
    BY <1>1, <1>2, <2>1 DEF FoundBecause
<1>3. CASE r.kind = "computed"
  <2>1. LookupRule(found, r, ref, ask) = LookupRecursive(found, Ref(ref.type, r.relation), Deeper(ask))
    BY <1>3 DEF LookupRule
  <2> QED
    BY <1>1, <1>3, <2>1, FindsIs DEF FoundBecause
<1>4. CASE r.kind = "arrow"
  <2> DEFINE From(target) == LookupRecursive(found, target, Fresh(ask))
             To(target, y) == Holders(ref.type, r.tuple_relation, Node(target.type, y, Direct))
             targets == ArrowTargets(r, ref.type)
  <2>1. LookupRule(found, r, ref, ask) = UNION {UNION {To(t, y) : y \in From(t)} : t \in targets}
    BY <1>4 DEF LookupRule, LookupArrow, Fresh
  <2>2. \A t, y : y \in From(t) <=> Finds(found, t, Fresh(ask), y)
    BY FindsIs
  <2>3. FoundBecause(found, c, id) <=>
          \E t \in targets : \E y : Finds(found, t, Fresh(ask), y) /\ id \in To(t, y)
    BY <1>1, <1>4 DEF FoundBecause
  <2> HIDE DEF From, To, targets
  <2>4. id \in LookupRule(found, r, ref, ask) <=>
          \E t \in targets : \E y \in From(t) : id \in To(t, y)
    BY <2>1
  <2> QED
    BY <1>1, <2>2, <2>3, <2>4
<1>5. CASE r.kind = "union"
  <2>1. LookupRule(found, r, ref, ask) = UNION {found[LookupPart(c, p)] : p \in r.children}
    BY <1>1, <1>5 DEF LookupRule, LookupPart
  <2> QED
    BY <1>1, <1>5, <2>1 DEF FoundBecause
<1>6. CASE r.kind = "intersection"
  <2> DEFINE parts == {found[LookupPart(c, p)] : p \in r.children}
  <2>1. LookupRule(found, r, ref, ask) = {x \in UNION parts : \A ids \in parts : x \in ids}
    BY <1>1, <1>6 DEF LookupRule, LookupPart
  <2>2. id \in LookupRule(found, r, ref, ask) <=>
          r.children # {} /\ \A p \in r.children : id \in found[LookupPart(c, p)]
    BY <2>1
  <2> QED
    BY <1>1, <1>6, <2>2 DEF FoundBecause
<1>7. CASE r.kind = "exclusion"
  <2>1. LookupRule(found, r, ref, ask) =
          found[LookupPart(c, r.base)] \ found[LookupPart(c, r.subtract)]
    BY <1>1, <1>7 DEF LookupRule, LookupPart
  <2> QED
    BY <1>1, <1>7, <2>1 DEF FoundBecause
<1> QED
  BY <1>1, <1>2, <1>3, <1>4, <1>5, <1>6, <1>7, RuleKinds

LEMMA RefIs ==
  /\ \A ns, name : Ref(ns, name) = Ref(Ref(ns, name).type, Ref(ns, name).relation)
  /\ \A rule, ns : \A target \in ArrowTargets(rule, ns) :
       target = Ref(target.type, target.relation) /\ target.relation = rule.computed_relation
BY DEF Ref, ArrowTargets

\* A call of another relation is a deeper one.
LEMMA RefCallBelow ==
  ASSUME Typed, NEW c \in LookupCall, NEW ask \in {Deeper(c.ask), Fresh(c.ask)},
         NEW ref, ref = Ref(ref.type, ref.relation), ~LookupCut(ref, ask)
  PROVE  RefCall(ref, ask) \in LookupCall /\ Below(RefCall(ref, ask), c)
<1>1. ask \in LookupAsk /\ ask.limit = c.ask.limit /\ ask.depth = c.ask.depth + 1
  BY AsksFollow
<1> QED
  BY <1>1, RefCallIs DEF Below

SameBelow(f, g, c) == \A d \in LookupCall : Below(d, c) => f[d] = g[d]

LEMMA FindsAlike ==
  ASSUME Typed, NEW c \in LookupCall, NEW f, NEW g, SameBelow(f, g, c),
         NEW ask \in {Deeper(c.ask), Fresh(c.ask)},
         NEW ref, ref = Ref(ref.type, ref.relation), NEW id
  PROVE  Finds(f, ref, ask, id) <=> Finds(g, ref, ask, id)
<1>1. ASSUME ~LookupCut(ref, ask)
      PROVE  f[RefCall(ref, ask)] = g[RefCall(ref, ask)]
  BY <1>1, RefCallBelow DEF SameBelow
<1> QED
  BY <1>1 DEF Finds

LEMMA PartsFoundAlike ==
  ASSUME NEW c \in LookupCall, NEW f, NEW g, SameBelow(f, g, c), NEW part \in Parts(c.rule)
  PROVE  f[LookupPart(c, part)] = g[LookupPart(c, part)]
BY LookupPartIs DEF SameBelow

LEMMA FoundAlike ==
  ASSUME Typed, NEW c \in LookupCall, NEW f, NEW g, SameBelow(f, g, c), NEW id
  PROVE  FoundBecause(f, c, id) <=> FoundBecause(g, c, id)
<1>1. PICK r : r = c.rule /\ r \in Rule
  BY AsksFollow
<1>2. CASE r.kind = "this"
  BY <1>1, <1>2 DEF FoundBecause
<1>3. CASE r.kind = "computed"
  <2>1. PICK x : x = Ref(c.ref.type, r.relation) /\ x = Ref(x.type, x.relation)
    BY RefIs
  <2>2. Finds(f, x, Deeper(c.ask), id) <=> Finds(g, x, Deeper(c.ask), id)
    BY <2>1, FindsAlike
  <2> QED
    BY <1>1, <1>3, <2>1, <2>2 DEF FoundBecause
<1>4. CASE r.kind = "arrow"
  <2>1. ASSUME NEW x \in ArrowTargets(r, c.ref.type), NEW y
        PROVE  Finds(f, x, Fresh(c.ask), y) <=> Finds(g, x, Fresh(c.ask), y)
    <3>1. x = Ref(x.type, x.relation)
      BY RefIs
    <3> QED
      BY <3>1, FindsAlike
  <2> QED
    BY <1>1, <1>4, <2>1 DEF FoundBecause
<1>5. CASE r.kind \in {"union", "intersection"}
  <2>1. \A part \in r.children : f[LookupPart(c, part)] = g[LookupPart(c, part)]
    BY <1>1, <1>5, RuleKinds, PartsFoundAlike
  <2> QED
    BY <1>1, <1>5, <2>1 DEF FoundBecause
<1>6. CASE r.kind = "exclusion"
  <2>1. /\ f[LookupPart(c, r.base)] = g[LookupPart(c, r.base)]
        /\ f[LookupPart(c, r.subtract)] = g[LookupPart(c, r.subtract)]
    BY <1>1, <1>6, RuleKinds, PartsFoundAlike
  <2> QED
    BY <1>1, <1>6, <2>1 DEF FoundBecause
<1> QED
  BY <1>1, <1>2, <1>3, <1>4, <1>5, <1>6, RuleKinds

LEMMA FoundTyped ==
  ASSUME Typed, NEW c \in LookupCall, NEW found \in [LookupCall -> SUBSET Id], NEW id,
         FoundBecause(found, c, id)
  PROVE  id \in Id
<1>1. PICK r : r = c.rule /\ r \in Rule
  BY AsksFollow
<1>2. \A t \in tuples : t.object_id \in Id
  BY InputAssumption DEF Typed, RelationTuple
<1>3. CASE r.kind = "this"
  <2>1. id \in LookupDirect(c.ref, c.ask)
    BY <1>1, <1>3 DEF FoundBecause
  <2>2. \E t \in tuples : id = t.object_id
    BY <2>1 DEF LookupDirect, TuplesOf
  <2> QED
    BY <1>2, <2>2
<1>4. CASE r.kind = "computed"
  <2>1. PICK x, ask : /\ x = Ref(c.ref.type, r.relation) /\ x = Ref(x.type, x.relation)
                      /\ ask = Deeper(c.ask)
    BY RefIs
  <2>2. Finds(found, x, ask, id)
    BY <1>1, <1>4, <2>1 DEF FoundBecause
  <2>3. ask \in LookupAsk
    BY <2>1, AsksFollow
  <2> QED
    BY <2>1, <2>2, <2>3, RefCallIs DEF Finds
<1>5. CASE r.kind = "arrow"
  <2>1. PICK x, y : id \in Holders(c.ref.type, r.tuple_relation, Node(x.type, y, Direct))
    BY <1>1, <1>5 DEF FoundBecause
  <2> QED
    BY <1>2, <2>1 DEF Holders
<1>6. CASE r.kind \in {"union", "intersection", "exclusion"}
  <2>1. \E part \in Parts(r) : id \in found[LookupPart(c, part)]
    BY <1>1, <1>6, RuleKinds DEF FoundBecause
  <2>2. PICK part \in Parts(r) : id \in found[LookupPart(c, part)]
    BY <2>1
  <2>3. LookupPart(c, part) \in LookupCall
    BY <1>1, LookupPartIs
  <2> QED
    BY <2>2, <2>3
<1> QED
  BY <1>1, <1>3, <1>4, <1>5, <1>6, RuleKinds

\* The recursion of a lookup ends: Resources are its results.
LEMMA LookupsEvaluated ==
  ASSUME Typed
  PROVE  \A c \in LookupCall :
           /\ Resources[c] \in SUBSET Id
           /\ \A id : id \in Resources[c] <=> FoundBecause(Resources, c, id)
<1>1. PICK S, V : S = LookupCall /\ V = SUBSET Id
  OBVIOUS
<1>2. PICK below : below = [c \in S |-> {d \in S : Below(d, c)}]
  OBVIOUS
<1>3. below \in [S -> SUBSET S]
  BY <1>2
<1>4. Founded(S, below)
  <2> SUFFICES ASSUME NEW T \in SUBSET S, T # {}
               PROVE  \E x \in T : below[x] \cap T = {}
    BY DEF Founded
  <2>1. Traversing(T)
    BY <1>1, AsksFollow DEF Traversing
  <2>2. PICK x \in T : \A d \in T : ~Below(d, x)
    BY <2>1, DeepestOf
  <2> QED
    BY <1>2, <2>2
<1> DEFINE Found(c, f) == LookupRule(f, c.rule, c.ref, c.ask)
<1>5. ASSUME NEW c \in S, NEW f \in [S -> V]
      PROVE  Found(c, f) \in V
  <2>1. \A id : id \in Found(c, f) <=> FoundBecause(f, c, id)
    BY <1>1, LookupRuleIs
  <2> HIDE DEF Found
  <2> QED
    BY <1>1, <2>1, FoundTyped
<1>6. ASSUME NEW c \in S, NEW f \in [S -> V], NEW g \in [S -> V], \A y \in below[c] : f[y] = g[y]
      PROVE  Found(c, f) = Found(c, g)
  <2>1. \A id : /\ id \in Found(c, f) <=> FoundBecause(f, c, id)
                /\ id \in Found(c, g) <=> FoundBecause(g, c, id)
    BY <1>1, LookupRuleIs
  <2>2. SameBelow(f, g, c)
    BY <1>1, <1>2, <1>6 DEF SameBelow
  <2> HIDE DEF Found
  <2>3. \A id : id \in Found(c, f) <=> id \in Found(c, g)
    BY <1>1, <2>1, <2>2, FoundAlike
  <2>4. Found(c, f) \subseteq Id /\ Found(c, g) \subseteq Id
    BY <1>1, <1>5
  <2> QED
    BY <2>3, <2>4
<1>7. PICK step : step = [p \in S \X [S -> V] |-> Found(p[1], p[2])]
  OBVIOUS
<1>8. ASSUME NEW c \in S, NEW f \in [S -> V]
      PROVE  step[<<c, f>>] = Found(c, f)
  <2> HIDE DEF Found
  <2>1. <<c, f>> \in S \X [S -> V]
    OBVIOUS
  <2> QED
    BY <1>7, <2>1
<1>9. step \in [S \X [S -> V] -> V]
  <2> HIDE DEF Found
  <2>1. ASSUME NEW p \in S \X [S -> V] PROVE step[p] \in V
    <3>1. PICK c \in S, f \in [S -> V] : p = <<c, f>>
      OBVIOUS
    <3> QED
      BY <1>5, <1>8, <3>1
  <2>2. step = [p \in S \X [S -> V] |-> step[p]]
    BY <1>7
  <2> QED
    BY <2>1, <2>2
<1>10. Local(S, V, below, step)
  <2> HIDE DEF Found
  <2> QED
    BY <1>6, <1>8 DEF Local
<1>11. Steady(S, V, below, step)
  BY <1>1, <1>3, <1>4, <1>9, <1>10 DEF Steady
<1>12. PICK f : Solution(S, V, step, f)
  BY <1>11, Recursion
<1>13. f \in [S -> V] /\ \A c \in S : f[c] = Found(c, f)
  BY <1>8, <1>12 DEF Solution
<1> DEFINE Defining(g) == g = [c \in LookupCall |-> Found(c, g)]
<1>14. Resources = CHOOSE g : Defining(g)
  BY DEF Resources
<1>15. Defining(f)
  <2> HIDE DEF Found
  <2> QED
    BY <1>1, <1>13
<1> HIDE DEF Defining
<1>16. Defining(Resources)
  BY <1>14, <1>15
<1>17. \A c \in S : Resources[c] = Found(c, Resources)
  <2> HIDE DEF Found
  <2> QED
    BY <1>1, <1>16 DEF Defining
<1>18. Resources \in [S -> V]
  <2>2. \A c \in S : Resources[c] = f[c]
    <3> SUFFICES ASSUME {c \in S : Resources[c] # f[c]} # {} PROVE FALSE
      OBVIOUS
    <3>1. PICK bad : bad = {c \in S : Resources[c] # f[c]}
      OBVIOUS
    <3>2. Traversing(bad)
      BY <1>1, <3>1, AsksFollow DEF Traversing
    <3>3. PICK x \in bad : \A d \in bad : ~Below(d, x)
      BY <3>1, <3>2, DeepestOf
    <3>4. x \in S /\ Resources[x] # f[x]
      BY <3>1
    <3>5. SameBelow(Resources, f, x)
      BY <1>1, <3>1, <3>3 DEF SameBelow
    <3>6. \A id : /\ id \in Found(x, f) <=> FoundBecause(f, x, id)
                  /\ id \in Found(x, Resources) <=> FoundBecause(Resources, x, id)
      BY <1>1, <3>4, LookupRuleIs
    <3> HIDE DEF Found
    <3>7. \A id : id \in Found(x, f) <=> id \in Found(x, Resources)
      BY <1>1, <3>4, <3>5, <3>6, FoundAlike
    <3>8. Found(x, f) = Found(x, Resources)
      BY <3>7, SetExtensionality
    <3> QED
      BY <1>13, <1>17, <3>4, <3>8
  <2>3. Resources = [c \in S |-> Resources[c]]
    <3> HIDE DEF Found
    <3>1. Resources = [c \in S |-> Found(c, Resources)]
      BY <1>1, <1>16 DEF Defining
    <3> QED
      BY <1>17, <3>1
  <2> HIDE DEF Found
  <2> QED
    BY <1>13, <2>2, <2>3
<1> QED
  BY <1>1, <1>17, <1>18, LookupRuleIs

------------------------------------------------------------------------------
\* Direct lookups

\* A tuple of a ref gives an id to a subject that a walk has come to.
Shown(w, level, ref, id) == \E m \in w[level] : \E t \in TuplesOf(m.node, {ref}) : t.object_id = id

\* How far a direct lookup walks.
Reach(ask) == IF ask.depth > ask.limit THEN 0 ELSE ask.limit - ask.depth

LEMMA ReachIs ==
  ASSUME NEW ask, ask.depth \in Nat, ask.limit \in Nat
  PROVE  /\ Reach(ask) \in Nat
         /\ ask.depth > ask.limit => Reach(ask) = 0
         /\ ~(ask.depth > ask.limit) => Reach(ask) + ask.depth = ask.limit
BY DEF Reach

LEMMA LookupDirectIs ==
  ASSUME NEW ref, NEW ask, NEW w, w = Met(Reachable(ref), ask.subject, ask.limit), NEW id
  PROVE  id \in LookupDirect(ref, ask) <=> Shown(w, Reach(ask), ref, id)
<1>1. PICK level : level = Reach(ask)
  OBVIOUS
<1>2. LookupDirect(ref, ask) =
        {t.object_id : t \in UNION {TuplesOf(n, {ref}) : n \in {m.node : m \in w[level]}}}
  BY <1>1 DEF LookupDirect, Reach
<1>3. PICK met : met = w[level]
  OBVIOUS
<1>4. id \in LookupDirect(ref, ask) <=>
        \E n \in {m.node : m \in met} : \E t \in TuplesOf(n, {ref}) : id = t.object_id
  BY <1>2, <1>3
<1>5. Shown(w, level, ref, id) <=> \E m \in met : \E t \in TuplesOf(m.node, {ref}) : t.object_id = id
  BY <1>3 DEF Shown
<1> QED
  BY <1>1, <1>4, <1>5

\* The walk of a direct lookup.
LEMMA DirectWalk ==
  ASSUME Typed, ValidSchema(model), NEW ref \in DefinedRefs, NEW subject \in Subjects, NEW limit
  PROVE  /\ Saturated(Reachable(ref)) /\ Reachable(ref) \subseteq DefinedRefs
         /\ UsersetRefs(ref) \subseteq Reachable(ref)
         /\ Levels(Reachable(ref), subject, limit, Met(Reachable(ref), subject, limit))
<1>1. Saturated(Reachable(ref)) /\ UsersetRefs(ref) \subseteq Reachable(ref)
  BY ReachableIs
<1>2. Reachable(ref) \subseteq DefinedRefs
  BY <1>1 DEF Saturated
<1>3. PICK refs : refs = Reachable(ref)
  OBVIOUS
<1>4. \E w : w = Met(refs, subject, limit) /\ Levels(refs, subject, limit, w)
  BY <1>2, <1>3, MetLevels
<1> QED
  BY <1>1, <1>2, <1>3, <1>4

KeyAt(ref, id) == KeyOf(ref.type, id, ref.relation)

LEMMA KeyAtIs ==
  ASSUME Typed, NEW ref \in DefinedRefs, NEW id
  PROVE  /\ KeyAt(ref, id).object_type = ref.type /\ KeyAt(ref, id).object_id = id
         /\ KeyAt(ref, id).relation = ref.relation
         /\ RefAt(KeyAt(ref, id)) = ref
         /\ id \in Id => KeyAt(ref, id) \in Key
         /\ Defines(model, KeyAt(ref, id).object_type, KeyAt(ref, id).relation)
         /\ RewriteOf(ref) = model[KeyAt(ref, id).object_type][KeyAt(ref, id).relation].rewrite
<1>1. ref = Ref(ref.type, ref.relation) /\ ref \in LookupRef /\ IsDefined(ref)
  BY RefsDefined DEF Typed
<1>2. PICK k : k = KeyAt(ref, id)
  OBVIOUS
<1>3. k = [object_type |-> ref.type, object_id |-> id, relation |-> ref.relation]
  BY <1>2 DEF KeyAt, KeyOf
<1>4. RefAt(k) = ref
  BY <1>1, <1>3 DEF RefAt
<1>5. id \in Id => k \in Key
  BY <1>1, <1>3 DEF Key, LookupRef
<1> QED
  BY <1>1, <1>2, <1>3, <1>4, <1>5 DEF IsDefined, RewriteOf

\* A check of an object that is a call of the same place in a traversal as a lookup.
Mirrors(c, d, id) ==
  /\ d \in Call /\ d.rule = c.rule /\ d.key = KeyAt(c.ref, id)
  /\ d.ask.subject = c.ask.subject /\ d.ask.limit = c.ask.limit /\ d.ask.depth = c.ask.depth
  /\ \A r \in c.ask.visited : KeyAt(r, id) \in d.ask.visited

\* Calls of the rules of refs.
Asked(c) ==
  /\ c \in LookupCall /\ c.ask.subject \in Subjects
  /\ c.ref \in DefinedRefs /\ c.rule \in RulesOf(RewriteOf(c.ref))

\* A direct lookup misses nothing that a check allows.
LEMMA DirectFinds ==
  ASSUME Typed, ValidSchema(model), NEW c, Asked(c), c.rule.kind = "this",
         NEW id, NEW d, Mirrors(c, d, id), Answers[d] = Allow
  PROVE  id \in LookupDirect(c.ref, c.ask)
<1>1. PICK ref, ask, subject, limit, key :
        /\ ref = c.ref /\ ask = c.ask /\ subject = ask.subject /\ limit = ask.limit
        /\ key = KeyAt(ref, id)
  OBVIOUS
<1>2. /\ ref \in DefinedRefs /\ subject \in Subjects /\ limit \in Nat /\ ask.depth \in Nat
      /\ d \in Call /\ d.rule = c.rule /\ d.key = key /\ d.ask.subject = subject
      /\ d.ask.limit = limit /\ d.ask.depth = ask.depth
  BY <1>1, AsksFollow DEF Asked, Mirrors
<1>3. /\ key.object_type = ref.type /\ key.object_id = id /\ key.relation = ref.relation
      /\ RefAt(key) = ref
  BY <1>1, <1>2, KeyAtIs
<1>4. PICK refs, w : refs = Reachable(ref) /\ w = Met(refs, subject, limit)
  OBVIOUS
<1>5. /\ Saturated(refs) /\ refs \subseteq DefinedRefs /\ UsersetRefs(ref) \subseteq refs
      /\ Levels(refs, subject, limit, w)
  BY <1>2, <1>4, DirectWalk
<1>6. PICK level : level = Reach(ask)
  OBVIOUS
<1>7. /\ level \in Nat
      /\ ~(ask.depth > limit) => level + ask.depth = limit
  BY <1>1, <1>2, <1>6, ReachIs
<1>8. Because(d)
  BY <1>2, AllowedBecause DEF Explained
<1>9. PICK t \in TuplesAt(key, key.relation) :
        /\ AllowsStored(model, t)
        /\ IF t.subject_relation # Direct
           THEN Leads(d, KeyOf(t.subject_type, t.subject_id, t.subject_relation))
           ELSE SubjectMatches(t, subject)
  BY <1>2, <1>8 DEF Because
<1>10. t \in TuplesOf(SubjectOf(t), {ref}) /\ t.object_id = id
  BY <1>3, <1>9, TupleOf
<1>11. \E m \in w[level] : m.node = SubjectOf(t)
  <2>1. CASE t.subject_relation = Direct
    <3>1. SubjectOf(t) \in Starts(subject)
      BY <1>9, <2>1 DEF SubjectMatches, Starts, SubjectOf
    <3>2. PICK m : m = [node |-> SubjectOf(t), cost |-> 0]
      OBVIOUS
    <3>3. m \in w[0] /\ m.node = SubjectOf(t)
      BY <1>5, <3>1, <3>2 DEF Levels, StartLevel
    <3>4. 0 \in Nat /\ 0 <= level
      BY <1>7
    <3> QED
      BY <1>5, <1>7, <3>3, <3>4, LevelsRise
  <2>2. CASE t.subject_relation # Direct
    <3>1. PICK k : k = KeyOf(t.subject_type, t.subject_id, t.subject_relation)
      OBVIOUS
    <3>2. k \in Key /\ Leads(d, k)
      <4>1. Leads(d, k)
        BY <1>9, <2>2, <3>1
      <4>2. k \in Key
        BY <1>2, <1>9, <2>2, <3>1, EdgeKeys DEF Typed, Call
      <4> QED
        BY <4>1, <4>2
    <3>3. RefAt(k) \in refs
      <4>1. RefAt(k) \in UsersetRefs(RefAt(key))
        BY <1>9, <2>2, <3>1, StoredUserset
      <4> QED
        BY <1>3, <1>5, <4>1
    <3>4. \A e \in Call : Below(e, d) /\ OnWalk(refs, subject, limit, e) /\ Answers[e] = Allow =>
                            Offers(w, refs, e)
      BY <1>2, <1>5, WalkCompletes
    <3>5. PICK m \in w[limit + 1] : /\ m.node = KeyNode(k) /\ m.cost \in Nat
                                    /\ m.cost + d.ask.depth <= limit
      BY <1>2, <1>5, <3>2, <3>3, <3>4, LeadsArrive
    <3>6. m \in w[m.cost]
      <4>1. limit + 1 \in Nat
        BY <1>2
      <4> QED
        BY <1>5, <4>1, LevelsGrounded
    <3>7. m.cost <= level
      BY <1>2, <1>7, <3>5
    <3>8. m \in w[level]
      BY <1>5, <1>7, <3>5, <3>6, <3>7, LevelsRise
    <3>9. m.node = SubjectOf(t)
      BY <3>1, <3>5, SubjectNode
    <3> QED
      BY <3>8, <3>9
  <2> QED
    BY <2>1, <2>2
<1>12. Shown(w, level, ref, id)
  BY <1>10, <1>11 DEF Shown
<1> QED
  BY <1>1, <1>4, <1>6, <1>12, LookupDirectIs

------------------------------------------------------------------------------
\* A direct lookup finds nothing that a check denies

\* A userset that the schema grants a subject.
Held(subject, node) ==
  /\ node.relation # Direct /\ NodeKey(node) \in DefinedOn(Reached)
  /\ NodeAt(NodeKey(node)) \in Must(subject)

\* A tuple of the subject, or of a userset that the subject is granted, grants.
LEMMA TupleGrants ==
  ASSUME Typed, NEW subject, NEW rule, rule.kind = "this", NEW key, <<rule, key>> \in Nodes,
         NEW t \in TuplesAt(key, key.relation), AllowsStored(model, t),
         SubjectOf(t) \in Starts(subject) \/ Held(subject, SubjectOf(t))
  PROVE  <<rule, key>> \in Must(subject)
<1>1. PICK n : n = SubjectOf(t)
  OBVIOUS
<1>2. n.type = t.subject_type /\ n.id = t.subject_id /\ n.relation = t.subject_relation
  BY <1>1 DEF SubjectOf, Node
<1>3. IF t.subject_relation = Direct THEN SubjectMatches(t, subject)
      ELSE NodeAt(KeyOf(t.subject_type, t.subject_id, t.subject_relation)) \in Must(subject)
  <2>1. CASE n \in Starts(subject)
    <3>1. PICK id \in {subject.id, Wildcard} : n = Node(subject.type, id, Direct)
      BY <2>1 DEF Starts
    <3>2. n.type = subject.type /\ n.id = id /\ n.relation = Direct
      BY <3>1 DEF Node
    <3> QED
      BY <1>2, <3>2 DEF SubjectMatches
  <2>2. CASE Held(subject, n)
    <3>1. NodeKey(n) = KeyOf(t.subject_type, t.subject_id, t.subject_relation)
      BY <1>2 DEF NodeKey
    <3> QED
      BY <1>2, <2>2, <3>1 DEF Held
  <2> QED
    BY <1>1, <2>1, <2>2
<1>4. Grants(rule, key, subject, Must(subject), May(subject))
  BY <1>3 DEF Grants
<1>5. PICK p : p = <<rule, key>> /\ p[1] = rule /\ p[2] = key
  OBVIOUS
<1>6. p \in Granted(subject, Must(subject), May(subject))
  BY <1>4, <1>5 DEF Granted
<1> QED
  BY <1>5, <1>6, LeastIsClosed DEF Closed

LEMMA ThisLeavesNone ==
  ASSUME NEW rule \in Rule, rule.kind = "this"
  PROVE  Leaves[rule] = {}
<1>1. Parts(rule) = {}
  BY DEF Parts
<1>2. Adding(rule) = {}
  BY <1>1 DEF Adding
<1>3. UNION {Leaves[p] : p \in Adding(rule)} = {}
  BY <1>2
<1>4. Leaves[rule] = LeavesOf(Leaves, rule)
  BY LeavesFollow
<1> QED
  BY <1>3, <1>4 DEF LeavesOf

\* A step of a walk comes to an object of a tuple, or stays at an object.
LEMMA StepsReach ==
  ASSUME Typed, NEW refs, refs \subseteq DefinedRefs, NEW node \in WalkNode,
         node.relation # Direct => NodeKey(node) \in DefinedOn(Reached),
         NEW s \in Onward(node, refs)
  PROVE  NodeKey(s.node) \in DefinedOn(Reached)
<1>1. PICK n : n = s.node
  OBVIOUS
<1>2. RefOf(n) \in refs /\ n = Node(n.type, n.id, n.relation)
  BY <1>1, OnwardTyped
<1>3. n.type \in DOMAIN model /\ n.relation \in DOMAIN model[n.type]
  BY <1>2, RefsDefined DEF RefOf, Typed, Defines
<1>4. ASSUME [type |-> n.type, id |-> n.id] \in Reached
      PROVE  NodeKey(n) \in DefinedOn(Reached)
  <2>1. PICK o \in Reached : o.type = n.type /\ o.id = n.id
    BY <1>4
  <2>2. NodeKey(n) = KeyOf(o.type, o.id, n.relation)
    BY <2>1 DEF NodeKey
  <2> QED
    BY <1>3, <2>1, <2>2 DEF DefinedOn
<1>5. \A t \in tuples : [type |-> t.object_type, id |-> t.object_id] \in Reached
  BY DEF Reached
<1>6. CASE ByTuple(node, refs, s)
  <2>1. PICK t \in TuplesOf(node, refs) :
          s = [node |-> Node(t.object_type, t.object_id, t.relation), cost |-> 1]
    BY <1>6 DEF ByTuple
  <2>2. n.type = t.object_type /\ n.id = t.object_id /\ t \in tuples
    BY <1>1, <2>1 DEF Node, TuplesOf
  <2>3. [type |-> n.type, id |-> n.id] \in Reached
    BY <1>5, <2>2
  <2> QED
    BY <1>1, <1>4, <2>3
<1>7. CASE node.relation # Direct /\ ByLeaf(node, refs, s)
  <2>1. PICK p \in refs : \E l \in Leaves[RewriteOf(p)] : \E id :
          /\ LeafLeads(l.leaf, p, node, id)
          /\ s = [node |-> Node(p.type, id, p.relation), cost |-> l.cost]
    BY <1>7 DEF ByLeaf
  <2>2. PICK l \in Leaves[RewriteOf(p)] : \E id :
          /\ LeafLeads(l.leaf, p, node, id)
          /\ s = [node |-> Node(p.type, id, p.relation), cost |-> l.cost]
    BY <2>1
  <2>3. PICK id : /\ LeafLeads(l.leaf, p, node, id)
                  /\ s = [node |-> Node(p.type, id, p.relation), cost |-> l.cost]
    BY <2>2
  <2>4. n.type = p.type /\ n.id = id
    BY <1>1, <2>3 DEF Node
  <2>5. CASE l.leaf.kind = "computed"
    <3>1. RefOf(node) = Ref(p.type, l.leaf.relation) /\ id = node.id
      BY <2>3, <2>5 DEF LeafLeads, LeafRefs
    <3>2. node.type = n.type /\ node.id = n.id
      BY <2>4, <3>1 DEF RefOf, Ref
    <3>3. PICK o \in Reached : \E name : NodeKey(node) = KeyOf(o.type, o.id, name)
      BY <1>7 DEF DefinedOn
    <3>4. o.type = n.type /\ o.id = n.id
      BY <3>2, <3>3 DEF NodeKey, KeyOf
    <3>5. o = [type |-> n.type, id |-> n.id]
      <4>1. o \in [type : Namespace, id : Id]
        BY ReachedTyped
      <4> QED
        BY <3>4, <4>1
    <3> QED
      BY <1>1, <1>4, <3>5
  <2>6. CASE l.leaf.kind # "computed"
    <3>1. id \in Holders(p.type, l.leaf.tuple_relation, node)
      BY <2>3, <2>6 DEF LeafLeads
    <3>2. PICK t \in tuples : t.object_type = p.type /\ t.object_id = id
      BY <3>1 DEF Holders
    <3>3. [type |-> n.type, id |-> n.id] \in Reached
      BY <1>5, <2>4, <3>2
    <3> QED
      BY <1>1, <1>4, <3>3
  <2> QED
    BY <2>5, <2>6
<1> QED
  BY <1>6, <1>7, OnwardIs

\* A walk comes to no userset but those that the subject is granted.
LEMMA MetHeld ==
  ASSUME Typed, NEW refs, refs \subseteq DefinedRefs, NEW subject \in Subjects,
         NEW limit \in Nat, NEW w, Levels(refs, subject, limit, w),
         NEW i \in Nat, NEW f \in w[i]
  PROVE  f.node \in Starts(subject) \/ Held(subject, f.node)
<1> DEFINE Good(x) == x.node \in Starts(subject) \/ Held(subject, x.node)
           bad == {n \in Nat : \E x \in w[n] : x.cost = n /\ ~Good(x)}
<1>1. ASSUME bad # {} PROVE FALSE
  <2>1. PICK k \in bad : \A j \in bad : k <= j
    <3>1. bad \in SUBSET Nat
      OBVIOUS
    <3> QED
      BY <1>1, <3>1, Least
  <2>2. PICK x \in w[k] : x.cost = k /\ ~Good(x)
    BY <2>1
  <2>3. x \in Footing /\ Grounded(refs, subject, limit, w, x) /\ k \in Nat
    BY <2>1, LevelsGrounded
  <2>4. /\ \E m \in w[k] : \E s \in Onward(m.node, refs) : m.cost + s.cost = k /\ s.node = x.node
        /\ Confirmed(x.node, subject, limit)
    BY <2>2, <2>3 DEF Grounded
  <2>5. PICK m \in w[k] : \E s \in Onward(m.node, refs) : m.cost + s.cost = k /\ s.node = x.node
    BY <2>4
  <2>6. PICK s \in Onward(m.node, refs) : m.cost + s.cost = k /\ s.node = x.node
    BY <2>5
  <2>7. m \in Footing /\ m \in w[m.cost]
    BY <2>3, LevelsGrounded
  <2>8. m.cost \in Nat /\ m.node \in WalkNode
    BY <2>7 DEF Footing
  <2>9. /\ RefOf(s.node) \in refs /\ s.node.relation # Direct /\ s.cost \in Nat /\ 1 <= s.cost
        /\ s.node = Node(s.node.type, s.node.id, s.node.relation)
    BY <2>8, OnwardTyped
  <2>10. Good(m)
    <3>1. ~(k <= m.cost)
      BY <2>3, <2>6, <2>8, <2>9
    <3>2. m.cost \notin bad
      BY <2>1, <3>1
    <3> QED
      BY <2>7, <2>8, <3>2
  <2>11. m.node.relation # Direct => NodeKey(m.node) \in DefinedOn(Reached)
    BY <2>10 DEF Starts, Held, Node
  <2>12. PICK key, rule : /\ key = NodeKey(s.node)
                          /\ rule = model[key.object_type][key.relation].rewrite
    OBVIOUS
  <2>13. key \in DefinedOn(Reached)
    BY <2>8, <2>11, <2>12, StepsReach
  <2>14. key \in Key /\ Defines(model, key.object_type, key.relation)
    BY <2>13, ReachedTyped, DefinedAreKeys DEF Typed
  <2>15. NodeAt(key) = <<rule, key>> /\ NodeAt(key) \in Nodes
    BY <2>12, <2>13, NodeOfKey DEF NodeAt
  <2>16. /\ key.object_type = s.node.type /\ key.object_id = s.node.id
         /\ key.relation = s.node.relation /\ RewriteOf(RefOf(s.node)) = rule
    BY <2>12 DEF NodeKey, KeyOf, RefOf, RewriteOf, Ref
  <2>17. CASE Allowed(key, subject, limit)
    <3>1. PICK c : c = FirstCall(key, subject, limit)
      OBVIOUS
    <3>2. c \in Call /\ Answers[c] = Allow
      BY <2>14, <2>17, <3>1, CheckIsCall DEF Typed, Allowed
    <3>3. <<c.rule, c.key>> = NodeAt(key) /\ c.ask.subject = subject
      BY <3>1 DEF FirstCall, NodeAt
    <3>4. NodeAt(key) \in Must(subject)
      BY <2>15, <3>2, <3>3, AnswersAreSound, LeastIsClosed DEF Sound
    <3> QED
      BY <2>2, <2>6, <2>9, <2>12, <2>13, <3>4 DEF Held
  <2>18. CASE rule.kind = "this"
    <3>1. ~ByLeaf(m.node, refs, s)
      <4> SUFFICES ASSUME ByLeaf(m.node, refs, s) PROVE FALSE
        OBVIOUS
      <4>1. PICK p \in refs : \E l \in Leaves[RewriteOf(p)] : \E id :
              /\ LeafLeads(l.leaf, p, m.node, id)
              /\ s = [node |-> Node(p.type, id, p.relation), cost |-> l.cost]
        BY DEF ByLeaf
      <4>2. s.node.type = p.type /\ s.node.relation = p.relation
        BY <4>1 DEF Node
      <4>3. p = Ref(p.type, p.relation) /\ RewriteOf(p) \in Rule
        BY RefsDefined DEF Typed
      <4>4. RefOf(s.node) = p
        BY <4>2, <4>3 DEF RefOf
      <4> QED
        BY <2>16, <2>18, <4>1, <4>3, <4>4, ThisLeavesNone
    <3>2. ByTuple(m.node, refs, s)
      BY <3>1, OnwardIs
    <3>3. PICK t \in TuplesOf(m.node, refs) :
            s = [node |-> Node(t.object_type, t.object_id, t.relation), cost |-> 1]
      BY <3>2 DEF ByTuple
    <3>4. /\ t \in tuples /\ SubjectOf(t) = m.node /\ AllowsStored(model, t)
          /\ key.object_type = t.object_type /\ key.object_id = t.object_id
          /\ key.relation = t.relation
      BY <2>16, <3>3 DEF TuplesOf, Node
    <3>5. t \in TuplesAt(key, key.relation)
      BY <3>4 DEF TuplesAt
    <3>6. NodeAt(key) \in Must(subject)
      BY <2>10, <2>15, <2>18, <3>4, <3>5, TupleGrants
    <3> QED
      BY <2>2, <2>6, <2>9, <2>12, <2>13, <3>6 DEF Held
  <2>19. rule.kind = "this" \/ Allowed(key, subject, limit)
    BY <2>4, <2>6, <2>12, <2>16 DEF Confirmed, NodeKey
  <2> QED
    BY <2>17, <2>18, <2>19
<1>2. f \in Footing /\ f \in w[f.cost]
  BY LevelsGrounded
<1>3. f.cost \in Nat
  BY <1>2 DEF Footing
<1>4. Good(f)
  BY <1>1, <1>2, <1>3
<1> QED
  BY <1>4

\* What a direct lookup finds, no check denies.
LEMMA DirectHolds ==
  ASSUME Typed, ValidSchema(model), NEW c, Asked(c), c.rule.kind = "this",
         NEW id \in Id, NEW d, Mirrors(c, d, id), id \in LookupDirect(c.ref, c.ask)
  PROVE  Answers[d] # Deny
<1>1. PICK ref, ask, subject, limit, key :
        /\ ref = c.ref /\ ask = c.ask /\ subject = ask.subject /\ limit = ask.limit
        /\ key = KeyAt(ref, id)
  OBVIOUS
<1>2. /\ ref \in DefinedRefs /\ subject \in Subjects /\ limit \in Nat /\ ask.depth \in Nat
      /\ d \in Call /\ d.rule = c.rule /\ d.key = key /\ d.ask.subject = subject
      /\ c.rule \in RulesOf(RewriteOf(ref))
  BY <1>1, AsksFollow DEF Asked, Mirrors
<1>3. /\ key.object_type = ref.type /\ key.object_id = id /\ key.relation = ref.relation
      /\ key \in Key /\ Defines(model, key.object_type, key.relation)
      /\ RewriteOf(ref) = model[key.object_type][key.relation].rewrite
  BY <1>1, <1>2, KeyAtIs
<1>4. PICK refs, w : refs = Reachable(ref) /\ w = Met(refs, subject, limit)
  OBVIOUS
<1>5. refs \subseteq DefinedRefs /\ Levels(refs, subject, limit, w)
  BY <1>2, <1>4, DirectWalk
<1>6. PICK level : level = Reach(ask) /\ level \in Nat
  BY <1>1, <1>2, ReachIs
<1>7. Shown(w, level, ref, id)
  BY <1>1, <1>4, <1>6, LookupDirectIs
<1>8. PICK m \in w[level] : \E t \in TuplesOf(m.node, {ref}) : t.object_id = id
  BY <1>7 DEF Shown
<1>9. PICK t \in TuplesOf(m.node, {ref}) : t.object_id = id
  BY <1>8
<1>10. /\ t \in tuples /\ SubjectOf(t) = m.node /\ AllowsStored(model, t)
       /\ t.object_type = ref.type /\ t.relation = ref.relation
  <2>1. Ref(t.object_type, t.relation) = ref
    BY DEF TuplesOf
  <2> QED
    BY <2>1 DEF TuplesOf, Ref
<1>11. t \in TuplesAt(key, key.relation)
  BY <1>3, <1>9, <1>10 DEF TuplesAt
<1>12. key \in DefinedOn(Reached)
  <2>0. PICK o : o = [type |-> t.object_type, id |-> t.object_id]
    OBVIOUS
  <2>1. o \in Reached /\ o.type = key.object_type /\ o.id = key.object_id
    BY <1>3, <1>9, <1>10, <2>0 DEF Reached
  <2>2. key = KeyOf(o.type, o.id, key.relation)
    BY <1>3, <2>1 DEF Key, KeyOf
  <2> QED
    BY <1>3, <2>1, <2>2 DEF DefinedOn, Defines
<1>13. <<c.rule, key>> \in Nodes
  BY <1>2, <1>3, <1>12 DEF Nodes, NodeAt
<1>14. m.node \in Starts(subject) \/ Held(subject, m.node)
  BY <1>2, <1>5, <1>6, MetHeld
<1>15. <<c.rule, key>> \in Must(subject)
  BY <1>10, <1>11, <1>13, <1>14, TupleGrants
<1> QED
  BY <1>2, <1>15, NeverDenied

------------------------------------------------------------------------------
\* What checks deny

Fails(c, key) == ~CutOff(c, key) /\ Answers[KeyCall(c, key)] = Deny

LEMMA FailsDeny ==
  ASSUME Typed, NEW c \in Call, NEW key \in Key
  PROVE  CheckRecursive(Answers, key, Deeper(c.ask)) = Deny <=> Fails(c, key)
<1>1. Unknown # Deny
  BY DEF Unknown, Deny
<1> QED
  BY <1>1, KeyBelow DEF Typed, Fails

\* Why a call that rests on others answers Deny.
Refused(c) ==
  /\ c.rule.kind = "computed" => Fails(c, [c.key EXCEPT !.relation = c.rule.relation])
  /\ c.rule.kind = "arrow" =>
       \A t \in Followed(c.key, c.rule.tuple_relation) :
         Fails(c, KeyOf(t.subject_type, t.subject_id, c.rule.computed_relation))
  /\ c.rule.kind = "union" => \A part \in c.rule.children : Answers[PartCall(c, part)] = Deny
  /\ c.rule.kind = "intersection" =>
       \E part \in c.rule.children : Answers[PartCall(c, part)] = Deny
  /\ c.rule.kind = "exclusion" =>
       \/ Answers[PartCall(c, c.rule.base)] = Deny
       \/ /\ Answers[PartCall(c, c.rule.base)] = Allow
          /\ Answers[PartCall(c, c.rule.subtract)] = Allow

LEMMA DeniedBecause ==
  ASSUME Typed, NEW c \in Call, Answers[c] = Deny
  PROVE  Refused(c)
<1>1. PICK r : r = c.rule /\ r \in Rule
  BY CallFields
<1>2. Answers[c] = EvaluateRule(Answers, r, c.key, c.ask)
  BY <1>1, Evaluated
<1>3. Allow # Unknown /\ Deny # Unknown /\ Allow # Deny
  BY DEF Allow, Deny, Unknown
<1>4. /\ \A results \in SUBSET {Allow, Deny, Unknown} :
           Some(results) = Deny => \A v \in results : v = Deny
      /\ \A results : Every(results) = Deny => Deny \in results
  BY <1>3 DEF Some, Every
<1>5. \A part \in Parts(r) : Answers[PartCall(c, part)] \in {Allow, Deny, Unknown}
  BY <1>1, PartBelow, AnswerKinds
<1>6. ASSUME r.kind = "computed"
      PROVE  Fails(c, [c.key EXCEPT !.relation = r.relation])
  <2>1. PICK key : key = [c.key EXCEPT !.relation = r.relation]
    OBVIOUS
  <2>2. key \in Key
    BY <1>1, <1>6, <2>1, RuleKinds DEF Call, Key
  <2>3. Answers[c] = CheckRecursive(Answers, key, Deeper(c.ask))
    BY <1>2, <1>6, <2>1 DEF EvaluateRule
  <2> QED
    BY <2>1, <2>2, <2>3, FailsDeny
<1>7. ASSUME r.kind = "arrow"
      PROVE  \A t \in Followed(c.key, r.tuple_relation) :
               Fails(c, KeyOf(t.subject_type, t.subject_id, r.computed_relation))
  <2> DEFINE KeyFor(t) == KeyOf(t.subject_type, t.subject_id, r.computed_relation)
             Found(t) == CheckRecursive(Answers, KeyFor(t), Deeper(c.ask))
             followed == Followed(c.key, r.tuple_relation)
  <2>1. Answers[c] = Some({Found(t) : t \in followed})
    BY <1>2, <1>7 DEF EvaluateRule, CheckArrow
  <2>2. ASSUME NEW t \in followed
        PROVE  /\ Found(t) = Deny <=> Fails(c, KeyFor(t))
               /\ Found(t) \in {Allow, Deny, Unknown}
    <3>1. r.computed_relation \in Name
      BY <1>1, <1>7, RuleKinds
    <3>2. t \in TuplesAt(c.key, r.tuple_relation)
      BY DEF Followed
    <3>3. PICK key : key = KeyFor(t) /\ key \in Key
      BY <3>1, <3>2, EdgeKeys DEF Typed, Call
    <3>4. Found(t) = Unknown \/ (KeyCall(c, key) \in Call /\ Found(t) = Answers[KeyCall(c, key)])
      BY <3>3, KeyBelow DEF Typed
    <3>5. Found(t) \in {Allow, Deny, Unknown}
      BY <3>4, AnswerKinds
    <3> QED
      BY <3>3, <3>5, FailsDeny
  <2> HIDE DEF Found, followed, KeyFor
  <2>3. {Found(t) : t \in followed} \in SUBSET {Allow, Deny, Unknown}
    BY <2>2
  <2>4. \A v \in {Found(t) : t \in followed} : v = Deny
    <3>1. PICK results : results = {Found(t) : t \in followed}
      OBVIOUS
    <3>2. results \in SUBSET {Allow, Deny, Unknown} /\ Some(results) = Deny
      BY <2>1, <2>3, <3>1
    <3>3. \A v \in results : v = Deny
      BY <1>4, <3>2
    <3> QED
      BY <3>1, <3>3
  <2>5. \A t \in followed : Fails(c, KeyFor(t))
    BY <2>2, <2>4
  <2> QED
    BY <2>5 DEF KeyFor, followed
<1>8. ASSUME r.kind = "union"
      PROVE  \A part \in r.children : Answers[PartCall(c, part)] = Deny
  <2> DEFINE Found(p) == Answers[PartCall(c, p)]
             parts == r.children
  <2>1. Answers[c] = Some({Found(p) : p \in parts})
    BY <1>2, <1>8 DEF EvaluateRule, PartCall
  <2>2. \A p \in parts : Found(p) \in {Allow, Deny, Unknown}
    BY <1>1, <1>5, <1>8, RuleKinds
  <2> HIDE DEF Found, parts
  <2>3. {Found(p) : p \in parts} \in SUBSET {Allow, Deny, Unknown}
    BY <2>2
  <2>4. PICK results : results = {Found(p) : p \in parts}
    OBVIOUS
  <2>5. \A v \in results : v = Deny
    <3>1. results \in SUBSET {Allow, Deny, Unknown} /\ Some(results) = Deny
      BY <2>1, <2>3, <2>4
    <3> QED
      BY <1>4, <3>1
  <2>6. \A p \in parts : Found(p) = Deny
    BY <2>4, <2>5
  <2> QED
    BY <2>6 DEF Found, parts
<1>9. ASSUME r.kind = "intersection"
      PROVE  \E part \in r.children : Answers[PartCall(c, part)] = Deny
  <2>1. Answers[c] = Every({Answers[PartCall(c, p)] : p \in r.children})
    BY <1>2, <1>9 DEF EvaluateRule, PartCall
  <2> QED
    BY <1>4, <2>1
<1>10. ASSUME r.kind = "exclusion"
       PROVE  \/ Answers[PartCall(c, r.base)] = Deny
              \/ Answers[PartCall(c, r.base)] = Allow /\ Answers[PartCall(c, r.subtract)] = Allow
  <2>1. PICK base, subtract : /\ base = Answers[PartCall(c, r.base)]
                              /\ subtract = Answers[PartCall(c, r.subtract)]
    OBVIOUS
  <2>2. Answers[c] = ButNot(base, subtract)
    BY <1>2, <1>10, <2>1 DEF EvaluateRule, PartCall
  <2>3. ButNot(base, subtract) = Deny
    BY <2>2
  <2>4. base = Deny \/ (base = Allow /\ subtract = Allow)
    BY <1>3, <2>3 DEF ButNot
  <2> QED
    BY <2>1, <2>4
<1> QED
  BY <1>1, <1>6, <1>7, <1>8, <1>9, <1>10 DEF Refused

------------------------------------------------------------------------------
\* What lookups find and checks answer

\* An arrow leads from an object to another.
LEMMA HoldersIs ==
  ASSUME NEW ns, NEW edge, NEW target, NEW y, NEW id
  PROVE  id \in Holders(ns, edge, Node(target, y, Direct)) <=>
           \E t \in tuples : /\ t.object_type = ns /\ t.relation = edge /\ t.object_id = id
                             /\ t.subject_type = target /\ t.subject_id = y
                             /\ AllowsArrow(model, t)
<1>1. PICK n : n = Node(target, y, Direct)
  OBVIOUS
<1>2. [n EXCEPT !.relation = Direct] = Node(target, y, Direct)
  BY <1>1 DEF Node
<1>3. \A t : AllowsArrow(model, t) =>
        (SubjectOf(t) = Node(target, y, Direct) <=> t.subject_type = target /\ t.subject_id = y)
  BY DEF AllowsArrow, SubjectOf, Node
<1> QED
  BY <1>1, <1>2, <1>3 DEF Holders

\* A lookup finds what a check of the same place allows, and nothing that one denies.
Agrees(c) ==
  \A id \in Id, d \in Call : Mirrors(c, d, id) =>
    /\ Answers[d] = Allow => id \in Resources[c]
    /\ Answers[d] = Deny => id \notin Resources[c]

LEMMA PartAgrees ==
  ASSUME Typed, NEW c, Asked(c), NEW id \in Id, NEW d, Mirrors(c, d, id),
         \A e : Asked(e) /\ Below(e, c) => Agrees(e), NEW part \in Parts(c.rule)
  PROVE  /\ Answers[PartCall(d, part)] = Allow => id \in Resources[LookupPart(c, part)]
         /\ Answers[PartCall(d, part)] = Deny => id \notin Resources[LookupPart(c, part)]
<1>1. PICK e, x : e = LookupPart(c, part) /\ x = PartCall(d, part)
  OBVIOUS
<1>2. /\ e \in LookupCall /\ Below(e, c) /\ e.rule = part /\ e.ref = c.ref
      /\ e.ask = Deeper(c.ask) /\ c \in LookupCall
  BY <1>1, LookupPartIs DEF Asked
<1>3. /\ e.ask.subject = c.ask.subject /\ e.ask.limit = c.ask.limit
      /\ e.ask.depth = c.ask.depth + 1 /\ e.ask.visited = c.ask.visited
  BY <1>2, AsksFollow
<1>4. Asked(e)
  <2>1. RewriteOf(c.ref) \in Rule
    BY RefsDefined DEF Asked, Typed
  <2>2. part \in RulesOf(RewriteOf(c.ref))
    BY <2>1, NestedParts DEF Asked
  <2> QED
    BY <1>2, <1>3, <2>2 DEF Asked
<1>5. x \in Call
  BY <1>1, PartBelow DEF Mirrors
<1>6. Mirrors(e, x, id)
  BY <1>1, <1>2, <1>3, <1>5, CallFields DEF Mirrors
<1>7. Agrees(e)
  BY <1>2, <1>4
<1> QED
  BY <1>1, <1>5, <1>6, <1>7 DEF Agrees

LEMMA RefAgrees ==
  ASSUME Typed, NEW c, Asked(c), NEW d \in Call,
         d.ask.subject = c.ask.subject, d.ask.limit = c.ask.limit, d.ask.depth = c.ask.depth,
         \A e : Asked(e) /\ Below(e, c) => Agrees(e),
         NEW ref \in DefinedRefs, NEW ask \in {Deeper(c.ask), Fresh(c.ask)}, NEW y \in Id,
         \A r \in ask.visited : KeyAt(r, y) \in d.ask.visited
  PROVE  /\ Leads(d, KeyAt(ref, y)) => Finds(Resources, ref, ask, y)
         /\ Fails(d, KeyAt(ref, y)) => ~Finds(Resources, ref, ask, y)
<1> SUFFICES ASSUME ~CutOff(d, KeyAt(ref, y))
             PROVE  /\ Leads(d, KeyAt(ref, y)) => Finds(Resources, ref, ask, y)
                    /\ Fails(d, KeyAt(ref, y)) => ~Finds(Resources, ref, ask, y)
  BY DEF Leads, Fails
<1>1. PICK key : key = KeyAt(ref, y)
  OBVIOUS
<1>2. /\ ref = Ref(ref.type, ref.relation) /\ IsDefined(ref) /\ RewriteOf(ref) \in Rule
      /\ key \in Key /\ RewriteOf(ref) = model[key.object_type][key.relation].rewrite
  BY <1>1, KeyAtIs, RefsDefined DEF Typed
<1>3. /\ c \in LookupCall /\ ask \in LookupAsk /\ ask.subject = c.ask.subject
      /\ ask.limit = c.ask.limit /\ ask.depth = c.ask.depth + 1
  BY AsksFollow DEF Asked
<1>4. key \notin d.ask.visited /\ ~(d.ask.depth + 1 > d.ask.limit)
  BY <1>1 DEF CutOff
<1>5. ~LookupCut(ref, ask)
  BY <1>1, <1>2, <1>3, <1>4 DEF LookupCut
<1>6. PICK e, x : e = RefCall(ref, ask) /\ x = KeyCall(d, key)
  OBVIOUS
<1>7. /\ e \in LookupCall /\ Below(e, c) /\ e.rule = RewriteOf(ref) /\ e.ref = ref
      /\ e.ask.subject = ask.subject /\ e.ask.limit = ask.limit /\ e.ask.depth = ask.depth
      /\ e.ask.visited = ask.visited \cup {ref}
  BY <1>2, <1>3, <1>5, <1>6, RefCallIs, RefCallBelow
<1>8. Asked(e)
  BY <1>2, <1>3, <1>7, NestedParts DEF Asked
<1>9. x \in Call
  BY <1>1, <1>2, <1>6, KeyBelow DEF Typed
<1>10. Mirrors(e, x, y)
  <2>1. /\ x.rule = model[key.object_type][key.relation].rewrite /\ x.key = key
        /\ x.ask.subject = d.ask.subject /\ x.ask.limit = d.ask.limit
        /\ x.ask.depth = d.ask.depth + 1 /\ x.ask.visited = d.ask.visited \cup {key}
    BY <1>6, CallFields
  <2>2. \A r \in e.ask.visited : KeyAt(r, y) \in x.ask.visited
    BY <1>1, <1>7, <2>1
  <2> QED
    BY <1>1, <1>2, <1>3, <1>7, <1>9, <2>1, <2>2 DEF Mirrors
<1>11. Agrees(e)
  BY <1>7, <1>8
<1>12. /\ Answers[x] = Allow => y \in Resources[e]
       /\ Answers[x] = Deny => y \notin Resources[e]
  BY <1>9, <1>10, <1>11 DEF Agrees
<1> QED
  BY <1>1, <1>5, <1>6, <1>12 DEF Finds, Leads, Fails

\* A call finds what its mirror allows, if the calls it rests on do.
LEMMA OneLookupFinds ==
  ASSUME Typed, ValidSchema(model), NEW c, Asked(c),
         \A e : Asked(e) /\ Below(e, c) => Agrees(e),
         NEW id \in Id, NEW d, Mirrors(c, d, id), Answers[d] = Allow
  PROVE  FoundBecause(Resources, c, id)
<1>1. PICK r, ref, key : r = c.rule /\ ref = c.ref /\ key = KeyAt(ref, id)
  OBVIOUS
<1>2. /\ c \in LookupCall /\ ref \in DefinedRefs /\ r \in RulesOf(RewriteOf(ref)) /\ r \in Rule
      /\ d \in Call /\ d.rule = r /\ d.key = key /\ d.ask.subject = c.ask.subject
      /\ d.ask.limit = c.ask.limit /\ d.ask.depth = c.ask.depth
      /\ \A x \in c.ask.visited : KeyAt(x, id) \in d.ask.visited
  BY <1>1, AsksFollow DEF Asked, Mirrors
<1>3. /\ key.object_type = ref.type /\ key.object_id = id /\ key.relation = ref.relation
      /\ key \in Key
  BY <1>1, <1>2, KeyAtIs
<1>4. Because(d)
  BY <1>2, AllowedBecause DEF Explained
<1>5. LeafRefs(r, ref.type) \subseteq DefinedRefs
  BY <1>2, NamedAreDefined
<1>6. Deeper(c.ask).visited = c.ask.visited /\ Fresh(c.ask).visited = {}
  BY <1>2, AsksFollow
<1>7. \A part \in Parts(r) :
        /\ Answers[PartCall(d, part)] = Allow => id \in Resources[LookupPart(c, part)]
        /\ Answers[PartCall(d, part)] = Deny => id \notin Resources[LookupPart(c, part)]
  BY <1>1, PartAgrees
<1>8. CASE r.kind = "this"
  <2>1. id \in LookupDirect(c.ref, c.ask)
    BY <1>1, <1>8, DirectFinds
  <2> QED
    BY <1>1, <1>8, <2>1 DEF FoundBecause
<1>9. CASE r.kind = "computed"
  <2>1. PICK x : x = Ref(ref.type, r.relation)
    OBVIOUS
  <2>2. x \in DefinedRefs
    BY <1>5, <1>9, <2>1 DEF LeafRefs
  <2>3. KeyAt(x, id) = [key EXCEPT !.relation = r.relation]
    BY <1>3, <2>1 DEF KeyAt, KeyOf, Ref, Key
  <2>4. Leads(d, KeyAt(x, id))
    BY <1>2, <1>4, <1>9, <2>3 DEF Because
  <2>5. \A y \in Deeper(c.ask).visited : KeyAt(y, id) \in d.ask.visited
    BY <1>2, <1>6
  <2>6. Finds(Resources, x, Deeper(c.ask), id)
    BY <1>2, <2>2, <2>4, <2>5, RefAgrees
  <2> QED
    BY <1>1, <1>9, <2>1, <2>6 DEF FoundBecause
<1>10. CASE r.kind = "arrow"
  <2>1. PICK t \in TuplesAt(key, r.tuple_relation) :
          /\ AllowsArrow(model, t)
          /\ Leads(d, KeyOf(t.subject_type, t.subject_id, r.computed_relation))
    BY <1>2, <1>4, <1>10 DEF Because
  <2>2. /\ t \in tuples /\ t.object_type = ref.type /\ t.object_id = id
        /\ t.relation = r.tuple_relation
    BY <1>3 DEF TuplesAt
  <2>3. PICK x, y : x = Ref(t.subject_type, r.computed_relation) /\ y = t.subject_id
    OBVIOUS
  <2>4. y \in Id
    BY <2>2, <2>3, InputAssumption DEF Typed, RelationTuple
  <2>5. x \in ArrowTargets(r, ref.type) /\ x.type = t.subject_type
    BY <2>1, <2>2, <2>3 DEF AllowsArrow, ArrowTargets, Ref
  <2>6. x \in DefinedRefs
    BY <1>5, <1>10, <2>5 DEF LeafRefs
  <2>7. KeyAt(x, y) = KeyOf(t.subject_type, t.subject_id, r.computed_relation)
    BY <2>3 DEF KeyAt, Ref
  <2>8. Leads(d, KeyAt(x, y))
    BY <2>1, <2>7
  <2>9. Finds(Resources, x, Fresh(c.ask), y)
    BY <1>2, <1>6, <2>4, <2>6, <2>8, RefAgrees
  <2>10. id \in Holders(ref.type, r.tuple_relation, Node(x.type, y, Direct))
    BY <2>1, <2>2, <2>3, <2>5, HoldersIs
  <2> QED
    BY <1>1, <1>10, <2>5, <2>9, <2>10 DEF FoundBecause
<1>11. CASE r.kind = "union"
  <2>1. PICK part \in r.children : Answers[PartCall(d, part)] = Allow
    BY <1>2, <1>4, <1>11 DEF Because
  <2>2. part \in Parts(r)
    BY <1>2, <1>11, RuleKinds
  <2> QED
    BY <1>1, <1>7, <1>11, <2>1, <2>2 DEF FoundBecause
<1>12. CASE r.kind = "intersection"
  <2>1. \A part \in r.children : Answers[PartCall(d, part)] = Allow
    BY <1>2, <1>4, <1>12 DEF Because
  <2>2. Parts(r) = r.children
    BY <1>2, <1>12, RuleKinds
  <2>3. r.children # {}
    <3>1. IsDefined(ref)
      BY <1>2, RefsDefined DEF Typed
    <3> QED
      BY <1>2, <1>12, <3>1 DEF ValidSchema, ValidRewrite, IsDefined, Defines, RewriteOf
  <2> QED
    BY <1>1, <1>7, <1>12, <2>1, <2>2, <2>3 DEF FoundBecause
<1>13. CASE r.kind = "exclusion"
  <2>1. Answers[PartCall(d, r.base)] = Allow /\ Answers[PartCall(d, r.subtract)] = Deny
    BY <1>2, <1>4, <1>13 DEF Because
  <2>2. r.base \in Parts(r) /\ r.subtract \in Parts(r)
    BY <1>2, <1>13, RuleKinds
  <2> QED
    BY <1>1, <1>7, <1>13, <2>1, <2>2 DEF FoundBecause
<1> QED
  BY <1>2, <1>8, <1>9, <1>10, <1>11, <1>12, <1>13, RuleKinds

\* Of a call that finds an id, the mirror does not deny.
LEMMA OneLookupHolds ==
  ASSUME Typed, ValidSchema(model), NEW c, Asked(c),
         \A e : Asked(e) /\ Below(e, c) => Agrees(e),
         NEW id \in Id, NEW d, Mirrors(c, d, id), Answers[d] = Deny
  PROVE  ~FoundBecause(Resources, c, id)
<1> SUFFICES ASSUME FoundBecause(Resources, c, id) PROVE FALSE
  OBVIOUS
<1>1. PICK r, ref, key : r = c.rule /\ ref = c.ref /\ key = KeyAt(ref, id)
  OBVIOUS
<1>2. /\ c \in LookupCall /\ ref \in DefinedRefs /\ r \in RulesOf(RewriteOf(ref)) /\ r \in Rule
      /\ d \in Call /\ d.rule = r /\ d.key = key /\ d.ask.subject = c.ask.subject
      /\ d.ask.limit = c.ask.limit /\ d.ask.depth = c.ask.depth
      /\ \A x \in c.ask.visited : KeyAt(x, id) \in d.ask.visited
  BY <1>1, AsksFollow DEF Asked, Mirrors
<1>3. /\ key.object_type = ref.type /\ key.object_id = id /\ key.relation = ref.relation
      /\ key \in Key
  BY <1>1, <1>2, KeyAtIs
<1>4. Refused(d)
  BY <1>2, DeniedBecause
<1>5. LeafRefs(r, ref.type) \subseteq DefinedRefs
  BY <1>2, NamedAreDefined
<1>6. Deeper(c.ask).visited = c.ask.visited /\ Fresh(c.ask).visited = {}
  BY <1>2, AsksFollow
<1>7. \A part \in Parts(r) :
        /\ Answers[PartCall(d, part)] = Allow => id \in Resources[LookupPart(c, part)]
        /\ Answers[PartCall(d, part)] = Deny => id \notin Resources[LookupPart(c, part)]
  BY <1>1, PartAgrees
<1>8. CASE r.kind = "this"
  <2>1. id \in LookupDirect(c.ref, c.ask)
    BY <1>1, <1>8 DEF FoundBecause
  <2> QED
    BY <1>1, <1>8, <2>1, DirectHolds
<1>9. CASE r.kind = "computed"
  <2>1. PICK x : x = Ref(ref.type, r.relation)
    OBVIOUS
  <2>2. x \in DefinedRefs
    BY <1>5, <1>9, <2>1 DEF LeafRefs
  <2>3. KeyAt(x, id) = [key EXCEPT !.relation = r.relation]
    BY <1>3, <2>1 DEF KeyAt, KeyOf, Ref, Key
  <2>4. Fails(d, KeyAt(x, id))
    BY <1>2, <1>4, <1>9, <2>3 DEF Refused
  <2>5. \A y \in Deeper(c.ask).visited : KeyAt(y, id) \in d.ask.visited
    BY <1>2, <1>6
  <2>6. ~Finds(Resources, x, Deeper(c.ask), id)
    BY <1>2, <2>2, <2>4, <2>5, RefAgrees
  <2> QED
    BY <1>1, <1>9, <2>1, <2>6 DEF FoundBecause
<1>10. CASE r.kind = "arrow"
  <2>0. PICK x \in ArrowTargets(r, ref.type) : \E y :
          /\ Finds(Resources, x, Fresh(c.ask), y)
          /\ id \in Holders(ref.type, r.tuple_relation, Node(x.type, y, Direct))
    BY <1>1, <1>10 DEF FoundBecause
  <2>1. PICK y : /\ Finds(Resources, x, Fresh(c.ask), y)
                 /\ id \in Holders(ref.type, r.tuple_relation, Node(x.type, y, Direct))
    BY <2>0
  <2>2. PICK t \in tuples : /\ t.object_type = ref.type /\ t.relation = r.tuple_relation
                            /\ t.object_id = id /\ t.subject_type = x.type /\ t.subject_id = y
                            /\ AllowsArrow(model, t)
    BY <2>1, HoldersIs
  <2>3. t \in Followed(key, r.tuple_relation)
    BY <1>3, <2>2 DEF Followed, TuplesAt
  <2>4. y \in Id
    BY <2>2, InputAssumption DEF Typed, RelationTuple
  <2>5. x \in DefinedRefs /\ x.relation = r.computed_relation
    BY <1>5, <1>10, RefIs DEF LeafRefs
  <2>6. KeyAt(x, y) = KeyOf(t.subject_type, t.subject_id, r.computed_relation)
    BY <2>2, <2>5 DEF KeyAt
  <2>7. Fails(d, KeyAt(x, y))
    BY <1>2, <1>4, <1>10, <2>3, <2>6 DEF Refused
  <2>8. ~Finds(Resources, x, Fresh(c.ask), y)
    BY <1>2, <1>6, <2>4, <2>5, <2>7, RefAgrees
  <2> QED
    BY <2>1, <2>8
<1>11. CASE r.kind = "union"
  <2>1. \A part \in r.children : Answers[PartCall(d, part)] = Deny
    BY <1>2, <1>4, <1>11 DEF Refused
  <2>2. Parts(r) = r.children
    BY <1>2, <1>11, RuleKinds
  <2> QED
    BY <1>1, <1>7, <1>11, <2>1, <2>2 DEF FoundBecause
<1>12. CASE r.kind = "intersection"
  <2>1. PICK part \in r.children : Answers[PartCall(d, part)] = Deny
    BY <1>2, <1>4, <1>12 DEF Refused
  <2>2. Parts(r) = r.children
    BY <1>2, <1>12, RuleKinds
  <2> QED
    BY <1>1, <1>7, <1>12, <2>1, <2>2 DEF FoundBecause
<1>13. CASE r.kind = "exclusion"
  <2>1. \/ Answers[PartCall(d, r.base)] = Deny
        \/ Answers[PartCall(d, r.subtract)] = Allow
    BY <1>2, <1>4, <1>13 DEF Refused
  <2>2. r.base \in Parts(r) /\ r.subtract \in Parts(r)
    BY <1>2, <1>13, RuleKinds
  <2> QED
    BY <1>1, <1>7, <1>13, <2>1, <2>2 DEF FoundBecause
<1> QED
  BY <1>2, <1>8, <1>9, <1>10, <1>11, <1>12, <1>13, RuleKinds

LEMMA LookupsAgree ==
  ASSUME Typed, ValidSchema(model), NEW c, Asked(c)
  PROVE  Agrees(c)
<1> DEFINE bad == {x \in LookupCall : Asked(x) /\ ~Agrees(x)}
<1>1. ASSUME bad # {} PROVE FALSE
  <2>1. Traversing(bad)
    BY AsksFollow DEF Traversing
  <2>2. PICK x \in bad : \A e \in bad : ~Below(e, x)
    BY <1>1, <2>1, DeepestOf
  <2>3. \A e : Asked(e) /\ Below(e, x) => Agrees(e)
    BY <2>2 DEF Asked
  <2>4. x \in LookupCall /\ Asked(x) /\ ~Agrees(x)
    BY <2>2
  <2> HIDE DEF bad
  <2>5. ASSUME NEW id \in Id, NEW d \in Call, Mirrors(x, d, id)
        PROVE  /\ Answers[d] = Allow => id \in Resources[x]
               /\ Answers[d] = Deny => id \notin Resources[x]
    <3>1. id \in Resources[x] <=> FoundBecause(Resources, x, id)
      BY <2>4, LookupsEvaluated
    <3>2. ASSUME Answers[d] = Allow PROVE FoundBecause(Resources, x, id)
      BY <2>3, <2>4, <2>5, <3>2, OneLookupFinds
    <3>3. ASSUME Answers[d] = Deny PROVE ~FoundBecause(Resources, x, id)
      BY <2>3, <2>4, <2>5, <3>3, OneLookupHolds
    <3> QED
      BY <3>1, <3>2, <3>3
  <2> QED
    BY <2>4, <2>5 DEF Agrees
<1> QED
  BY <1>1 DEF Asked

------------------------------------------------------------------------------
\* Without exclusions

\* Refs whose rules take nothing away, with all that those come to.
Granting(refs) ==
  /\ refs \subseteq DefinedRefs
  /\ \A r \in refs : /\ Pure(RewriteOf(r))
                     /\ UsersetRefs(r) \subseteq refs /\ RewriteRefs(r) \subseteq refs

\* Calls of the rules of refs.
CallOf(refs, c) ==
  c \in Call /\ RefAt(c.key) \in refs /\ c.rule \in RulesOf(RewriteOf(RefAt(c.key)))

\* A relation that a rule of refs leads to is one of them.
LEMMA KeysWithin ==
  ASSUME Typed, NEW refs, Granting(refs), NEW c, CallOf(refs, c)
  PROVE  /\ c.rule.kind # "exclusion"
         /\ c.rule.kind = "this" =>
              \A t \in TuplesAt(c.key, c.key.relation) :
                AllowsStored(model, t) /\ t.subject_relation # Direct =>
                  LET k == KeyOf(t.subject_type, t.subject_id, t.subject_relation)
                  IN k \in Key /\ RefAt(k) \in refs
         /\ c.rule.kind = "computed" =>
              LET k == [c.key EXCEPT !.relation = c.rule.relation]
              IN k \in Key /\ RefAt(k) \in refs
         /\ c.rule.kind = "arrow" =>
              \A t \in TuplesAt(c.key, c.rule.tuple_relation) : AllowsArrow(model, t) =>
                LET k == KeyOf(t.subject_type, t.subject_id, c.rule.computed_relation)
                IN k \in Key /\ RefAt(k) \in refs
         /\ \A part \in Parts(c.rule) : CallOf(refs, PartCall(c, part))
<1>1. PICK r, key : r = c.rule /\ key = c.key
  OBVIOUS
<1>2. /\ c \in Call /\ r \in Rule /\ key \in Key /\ RefAt(key) \in refs
      /\ r \in RulesOf(RewriteOf(RefAt(key)))
  BY <1>1, CallFields DEF CallOf
<1>3. /\ Pure(RewriteOf(RefAt(key))) /\ UsersetRefs(RefAt(key)) \subseteq refs
      /\ RewriteRefs(RefAt(key)) \subseteq refs /\ RewriteOf(RefAt(key)) \in Rule
  BY <1>2, RefsDefined DEF Granting, Typed
<1>4. RefAt(key).type = key.object_type
  BY DEF RefAt, Ref
<1>5. LeafRefs(r, key.object_type) \subseteq refs
  BY <1>2, <1>3, <1>4 DEF RewriteRefs
<1>6. r.kind # "exclusion"
  BY <1>2, <1>3 DEF Pure
<1>7. ASSUME NEW t \in TuplesAt(key, key.relation), AllowsStored(model, t),
             t.subject_relation # Direct
      PROVE  LET k == KeyOf(t.subject_type, t.subject_id, t.subject_relation)
             IN k \in Key /\ RefAt(k) \in refs
  <2>1. PICK k : k = KeyOf(t.subject_type, t.subject_id, t.subject_relation)
    OBVIOUS
  <2>2. k \in Key
    BY <1>2, <1>7, <2>1, EdgeKeys DEF Typed
  <2>3. RefAt(k) \in UsersetRefs(RefAt(key))
    BY <1>7, <2>1, StoredUserset
  <2> QED
    BY <1>3, <2>1, <2>2, <2>3
<1>8. ASSUME r.kind = "computed"
      PROVE  LET k == [key EXCEPT !.relation = r.relation] IN k \in Key /\ RefAt(k) \in refs
  <2>1. PICK k : k = [key EXCEPT !.relation = r.relation]
    OBVIOUS
  <2>2. k \in Key /\ k.object_type = key.object_type /\ k.relation = r.relation
    BY <1>2, <1>8, <2>1, RuleKinds DEF Key
  <2>3. RefAt(k) \in LeafRefs(r, key.object_type)
    BY <1>8, <2>2 DEF LeafRefs, RefAt
  <2> QED
    BY <1>5, <2>1, <2>2, <2>3
<1>9. ASSUME r.kind = "arrow", NEW t \in TuplesAt(key, r.tuple_relation), AllowsArrow(model, t)
      PROVE  LET k == KeyOf(t.subject_type, t.subject_id, r.computed_relation)
             IN k \in Key /\ RefAt(k) \in refs
  <2>1. PICK k : k = KeyOf(t.subject_type, t.subject_id, r.computed_relation)
    OBVIOUS
  <2>2. r.computed_relation \in Name
    BY <1>2, <1>9, RuleKinds
  <2>3. k \in Key
    BY <1>2, <2>1, <2>2, EdgeKeys DEF Typed
  <2>4. t.object_type = key.object_type /\ t.relation = r.tuple_relation
    BY DEF TuplesAt
  <2>5. RefAt(k) \in LeafRefs(r, key.object_type)
    BY <1>9, <2>1, <2>4 DEF LeafRefs, ArrowTargets, AllowsArrow, RefAt, KeyOf
  <2> QED
    BY <1>5, <2>1, <2>3, <2>5
<1>10. ASSUME NEW part \in Parts(r)
       PROVE  CallOf(refs, PartCall(c, part))
  <2>1. part \in RulesOf(RewriteOf(RefAt(key)))
    BY <1>2, <1>3, NestedParts
  <2>2. PartCall(c, part) \in Call
    BY <1>1, <1>2, PartBelow
  <2> QED
    BY <1>1, <1>2, <2>1, <2>2, CallFields DEF CallOf
<1> QED
  BY <1>1, <1>6, <1>7, <1>8, <1>9, <1>10

\* What allows a call of refs allows another that comes to the same.
LEMMA AllowedAlike ==
  ASSUME Typed, NEW refs, Granting(refs), NEW c, CallOf(refs, c), Answers[c] = Allow,
         NEW e \in Call, e.rule = c.rule, e.key = c.key, e.ask.subject = c.ask.subject,
         \A k \in Key : RefAt(k) \in refs /\ Leads(c, k) => Leads(e, k),
         \A part \in Parts(c.rule) :
           Answers[PartCall(c, part)] = Allow => Answers[PartCall(e, part)] = Allow
  PROVE  Answers[e] = Allow
<1>1. PICK r, key : r = c.rule /\ key = c.key
  OBVIOUS
<1>2. c \in Call /\ r \in Rule /\ r.kind # "exclusion"
  BY <1>1, CallFields, KeysWithin DEF CallOf
<1>3. Because(c)
  BY <1>2, AllowedBecause DEF Explained
<1>4. CASE r.kind = "this"
  <2>1. PICK t \in TuplesAt(key, key.relation) :
          /\ AllowsStored(model, t)
          /\ IF t.subject_relation # Direct
             THEN Leads(c, KeyOf(t.subject_type, t.subject_id, t.subject_relation))
             ELSE SubjectMatches(t, c.ask.subject)
    BY <1>1, <1>3, <1>4 DEF Because
  <2>2. ASSUME t.subject_relation # Direct
        PROVE  Leads(e, KeyOf(t.subject_type, t.subject_id, t.subject_relation))
    <3>1. PICK k : k = KeyOf(t.subject_type, t.subject_id, t.subject_relation)
      OBVIOUS
    <3>2. k \in Key /\ RefAt(k) \in refs
      BY <1>1, <1>4, <2>1, <2>2, <3>1, KeysWithin
    <3> QED
      BY <2>1, <2>2, <3>1, <3>2
  <2>3. Because(e)
    BY <1>1, <1>4, <2>1, <2>2 DEF Because
  <2> QED
    BY <2>3, AllowedBecause DEF Explained
<1>5. CASE r.kind = "computed"
  <2>1. PICK k : k = [key EXCEPT !.relation = r.relation]
    OBVIOUS
  <2>2. Leads(c, k)
    BY <1>1, <1>3, <1>5, <2>1 DEF Because
  <2>3. k \in Key /\ RefAt(k) \in refs
    BY <1>1, <1>5, <2>1, KeysWithin
  <2>4. Because(e)
    BY <1>1, <1>5, <2>1, <2>2, <2>3 DEF Because
  <2> QED
    BY <2>4, AllowedBecause DEF Explained
<1>6. CASE r.kind = "arrow"
  <2>1. PICK t \in TuplesAt(key, r.tuple_relation) :
          /\ AllowsArrow(model, t)
          /\ Leads(c, KeyOf(t.subject_type, t.subject_id, r.computed_relation))
    BY <1>1, <1>3, <1>6 DEF Because
  <2>2. PICK k : k = KeyOf(t.subject_type, t.subject_id, r.computed_relation)
    OBVIOUS
  <2>3. k \in Key /\ RefAt(k) \in refs
    BY <1>1, <1>6, <2>1, <2>2, KeysWithin
  <2>4. Because(e)
    BY <1>1, <1>6, <2>1, <2>2, <2>3 DEF Because
  <2> QED
    BY <2>4, AllowedBecause DEF Explained
<1>7. CASE r.kind \in {"union", "intersection"}
  <2>1. Parts(r) = r.children
    BY <1>2, <1>7, RuleKinds
  <2>2. Because(e)
    BY <1>1, <1>3, <1>7, <2>1 DEF Because
  <2> QED
    BY <2>2, AllowedBecause DEF Explained
<1> QED
  BY <1>2, <1>4, <1>5, <1>6, <1>7, RuleKinds

\* The rewrite of a key, in a traversal that evaluates no key.
Bare(key, subject, limit, depth) ==
  [rule |-> model[key.object_type][key.relation].rewrite, key |-> key,
   ask |-> [subject |-> subject, limit |-> limit, depth |-> depth, visited |-> {}]]

LEMMA BareIs ==
  ASSUME Typed, NEW key \in Key, RefAt(key) \in DefinedRefs, NEW subject \in Subjects,
         NEW limit \in Nat, NEW depth \in Nat, NEW c, c = Bare(key, subject, limit, depth)
  PROVE  /\ c \in Call /\ c.rule = RewriteOf(RefAt(key)) /\ c.key = key
         /\ c.rule = model[key.object_type][key.relation].rewrite
         /\ c.ask.subject = subject /\ c.ask.limit = limit
         /\ c.ask.depth = depth /\ c.ask.visited = {}
         /\ \A refs : RefAt(key) \in refs => CallOf(refs, c)
<1>1. PICK a : a = [subject |-> subject, limit |-> limit, depth |-> depth, visited |-> {}]
  OBVIOUS
<1>2. a \in [subject : [type : Namespace, id : Id], limit : Nat, depth : Nat, visited : SUBSET Key]
  BY <1>1, InputAssumption
<1>3. c = [rule |-> model[key.object_type][key.relation].rewrite, key |-> key, ask |-> a]
  BY <1>1 DEF Bare
<1>4. /\ RewriteOf(RefAt(key)) \in Rule
      /\ RewriteOf(RefAt(key)) = model[key.object_type][key.relation].rewrite
  BY RefsDefined, RewriteAt DEF Typed
<1>5. c \in Call
  BY <1>2, <1>3, <1>4 DEF Call
<1>6. c.rule \in RulesOf(RewriteOf(RefAt(key)))
  BY <1>3, <1>4, NestedParts
<1> QED
  BY <1>1, <1>3, <1>4, <1>5, <1>6 DEF CallOf

------------------------------------------------------------------------------
\* A key that a traversal comes back to

\* No deeper call of a key allows.
NoReturn(k, c) ==
  \A n \in Nat : c.ask.depth < n /\ n <= c.ask.limit =>
                   Answers[Bare(k, c.ask.subject, c.ask.limit, n)] # Allow

\* The same call, in a traversal that may be evaluating k as well.
Alongside(k, c, e) ==
  /\ e \in Call /\ e.rule = c.rule /\ e.key = c.key
  /\ e.ask.subject = c.ask.subject /\ e.ask.limit = c.ask.limit /\ e.ask.depth = c.ask.depth
  /\ e.ask.visited \subseteq c.ask.visited \cup {k}

LEMMA KeyCallOf ==
  ASSUME Typed, NEW refs, Granting(refs), NEW c, CallOf(refs, c), NEW m \in Key,
         RefAt(m) \in refs, ~CutOff(c, m)
  PROVE  CallOf(refs, KeyCall(c, m))
<1>1. c \in Call
  BY DEF CallOf
<1>2. KeyCall(c, m) \in Call
  BY <1>1, KeyBelow DEF Typed
<1>3. /\ KeyCall(c, m).rule = model[m.object_type][m.relation].rewrite
      /\ KeyCall(c, m).key = m
  BY <1>1, CallFields
<1>4. RefAt(m) \in DefinedRefs
  BY DEF Granting
<1>5. RewriteOf(RefAt(m)) \in Rule
  BY <1>4, RefsDefined DEF Typed
<1>6. KeyCall(c, m).rule = RewriteOf(RefAt(m))
  BY <1>3, RewriteAt
<1>7. KeyCall(c, m).rule \in RulesOf(RewriteOf(RefAt(m)))
  BY <1>5, <1>6, NestedParts
<1> QED
  BY <1>2, <1>3, <1>7 DEF CallOf

\* What a traversal allows that evaluates other keys, one with none allows.
LEMMA BareAllowed ==
  ASSUME Typed, NEW c \in Call, NEW m \in Key, RefAt(m) \in DefinedRefs,
         c.ask.subject \in Subjects, Leads(c, m)
  PROVE  /\ c.ask.depth + 1 \in Nat /\ c.ask.depth + 1 <= c.ask.limit
         /\ Answers[Bare(m, c.ask.subject, c.ask.limit, c.ask.depth + 1)] = Allow
<1>1. /\ c.ask.depth \in Nat /\ c.ask.limit \in Nat
      /\ KeyCall(c, m).rule = model[m.object_type][m.relation].rewrite
      /\ KeyCall(c, m).key = m /\ KeyCall(c, m).ask.subject = c.ask.subject
      /\ KeyCall(c, m).ask.limit = c.ask.limit /\ KeyCall(c, m).ask.depth = c.ask.depth + 1
  BY CallFields
<1>2. /\ ~CutOff(c, m) /\ Answers[KeyCall(c, m)] = Allow
      /\ c.ask.depth + 1 \in Nat /\ c.ask.depth + 1 <= c.ask.limit
  BY <1>1 DEF Leads, CutOff
<1>3. KeyCall(c, m) \in Call
  BY <1>2, KeyBelow DEF Typed
<1>4. PICK b : b = Bare(m, c.ask.subject, c.ask.limit, c.ask.depth + 1)
  OBVIOUS
<1>5. /\ b \in Call /\ b.rule = model[m.object_type][m.relation].rewrite /\ b.key = m
      /\ b.ask.subject = c.ask.subject /\ b.ask.limit = c.ask.limit
      /\ b.ask.depth = c.ask.depth + 1 /\ b.ask.visited = {}
  BY <1>1, <1>2, <1>4, BareIs
<1>6. PICK e : e = KeyCall(c, m)
  OBVIOUS
<1>7. Twin(e, b)
  BY <1>1, <1>5, <1>6 DEF Twin
<1>8. Leq(Answers[e], Answers[b])
  BY <1>3, <1>5, <1>6, <1>7, TwinsAnswer
<1> QED
  BY <1>2, <1>4, <1>6, <1>8 DEF Leq, Allow, Unknown

\* What is allowed without coming back to a key is allowed while it is evaluated.
LEMMA AllowedAlongside ==
  ASSUME Typed, NEW refs, Granting(refs), NEW subject \in Subjects,
         NEW k \in Key, RefAt(k) \in refs,
         NEW c, CallOf(refs, c), c.ask.subject = subject, Answers[c] = Allow, NoReturn(k, c),
         NEW e, Alongside(k, c, e)
  PROVE  Answers[e] = Allow
<1> DEFINE Bad(x) == /\ CallOf(refs, x) /\ x.ask.subject = subject
                     /\ Answers[x] = Allow /\ NoReturn(k, x)
                     /\ \E y \in Call : Alongside(k, x, y) /\ Answers[y] # Allow
           bad == {x \in Call : Bad(x)}
<1> SUFFICES ASSUME bad # {} PROVE FALSE
  BY DEF CallOf, Alongside
<1>1. PICK x \in bad : \A z \in bad : ~Below(z, x)
  BY Deepest
<1>2. PICK y \in Call : Alongside(k, x, y) /\ Answers[y] # Allow
  OBVIOUS
<1>3. /\ x \in Call /\ CallOf(refs, x) /\ x.ask.subject = subject
      /\ Answers[x] = Allow /\ NoReturn(k, x)
  OBVIOUS
<1>4. /\ y.rule = x.rule /\ y.key = x.key /\ y.ask.subject = x.ask.subject
      /\ y.ask.limit = x.ask.limit /\ y.ask.depth = x.ask.depth
      /\ y.ask.visited \subseteq x.ask.visited \cup {k}
  BY <1>2 DEF Alongside
<1>5. \A z \in Call, v \in Call :
        Below(z, x) /\ CallOf(refs, z) /\ z.ask.subject = subject /\ Answers[z] = Allow
        /\ NoReturn(k, z) /\ Alongside(k, z, v) => Answers[v] = Allow
  BY <1>1
<1> HIDE DEF Bad, bad
<1>6. ASSUME NEW z \in Call, Below(z, x), z.ask.subject = subject
      PROVE  NoReturn(k, z)
  <2>1. /\ z.ask.limit = x.ask.limit /\ z.ask.depth = x.ask.depth + 1
        /\ x.ask.depth \in Nat
    BY <1>3, <1>6, CallFields DEF Below
  <2>2. ASSUME NEW n \in Nat, z.ask.depth < n, n <= z.ask.limit
        PROVE  Answers[Bare(k, z.ask.subject, z.ask.limit, n)] # Allow
    <3>1. x.ask.depth < n /\ n <= x.ask.limit
      BY <2>1, <2>2
    <3>2. Answers[Bare(k, x.ask.subject, x.ask.limit, n)] # Allow
      BY <1>3, <3>1 DEF NoReturn
    <3> QED
      BY <1>3, <1>6, <2>1, <3>2
  <2> QED
    BY <2>2 DEF NoReturn
<1>7. ASSUME NEW m \in Key, RefAt(m) \in refs, Leads(x, m)
      PROVE  Leads(y, m)
  <2>1. m # k
    <3>1. SUFFICES ASSUME m = k PROVE FALSE
      OBVIOUS
    <3>2. RefAt(m) \in DefinedRefs
      BY <1>7 DEF Granting
    <3>3. PICK n : n = x.ask.depth + 1
      OBVIOUS
    <3>4. /\ n \in Nat /\ n <= x.ask.limit
          /\ Answers[Bare(m, x.ask.subject, x.ask.limit, n)] = Allow
      BY <1>3, <1>7, <3>2, <3>3, BareAllowed
    <3>5. x.ask.depth < n
      BY <1>3, <3>3, CallFields
    <3> QED
      BY <1>3, <3>1, <3>4, <3>5 DEF NoReturn
  <2>2. ~CutOff(x, m) /\ Answers[KeyCall(x, m)] = Allow
    BY <1>7 DEF Leads
  <2>3. ~CutOff(y, m)
    BY <1>4, <2>1, <2>2 DEF CutOff
  <2>4. PICK z, v : z = KeyCall(x, m) /\ v = KeyCall(y, m)
    OBVIOUS
  <2>5. /\ z \in Call /\ v \in Call /\ Below(z, x) /\ CallOf(refs, z)
    BY <1>2, <1>3, <1>7, <2>2, <2>3, <2>4, KeyBelow, KeyCallOf DEF Typed
  <2>6. /\ z.rule = v.rule /\ z.key = v.key
        /\ z.ask.subject = x.ask.subject /\ v.ask.subject = y.ask.subject
        /\ z.ask.limit = x.ask.limit /\ v.ask.limit = y.ask.limit
        /\ z.ask.depth = x.ask.depth + 1 /\ v.ask.depth = y.ask.depth + 1
        /\ z.ask.visited = x.ask.visited \cup {m} /\ v.ask.visited = y.ask.visited \cup {m}
    BY <1>2, <1>3, <2>4, CallFields
  <2>7. Alongside(k, z, v)
    BY <1>4, <2>5, <2>6 DEF Alongside
  <2>8. NoReturn(k, z)
    BY <1>3, <1>6, <2>5, <2>6
  <2>9. Answers[v] = Allow
    BY <1>3, <1>5, <2>2, <2>4, <2>5, <2>6, <2>7, <2>8
  <2> QED
    BY <2>3, <2>4, <2>9 DEF Leads
<1>8. ASSUME NEW part \in Parts(x.rule), Answers[PartCall(x, part)] = Allow
      PROVE  Answers[PartCall(y, part)] = Allow
  <2>1. PICK z, v : z = PartCall(x, part) /\ v = PartCall(y, part)
    OBVIOUS
  <2>2. z \in Call /\ v \in Call /\ Below(z, x) /\ CallOf(refs, z)
    BY <1>2, <1>3, <1>4, <1>8, <2>1, PartBelow, KeysWithin
  <2>3. /\ z.rule = v.rule /\ z.key = x.key /\ v.key = y.key
        /\ z.ask.subject = x.ask.subject /\ v.ask.subject = y.ask.subject
        /\ z.ask.limit = x.ask.limit /\ v.ask.limit = y.ask.limit
        /\ z.ask.depth = x.ask.depth + 1 /\ v.ask.depth = y.ask.depth + 1
        /\ z.ask.visited = x.ask.visited /\ v.ask.visited = y.ask.visited
    BY <1>2, <1>3, <2>1, CallFields
  <2>4. Alongside(k, z, v)
    BY <1>4, <2>2, <2>3 DEF Alongside
  <2>5. NoReturn(k, z)
    BY <1>3, <1>6, <2>2, <2>3
  <2> QED
    BY <1>3, <1>5, <1>8, <2>1, <2>2, <2>3, <2>4, <2>5
<1> QED
  BY <1>2, <1>3, <1>4, <1>7, <1>8, AllowedAlike

\* What is allowed to a traversal that evaluates no key is allowed to one that
\* evaluates the key itself: its deepest return to the key returns no more.
LEMMA BareEnters ==
  ASSUME Typed, NEW refs, Granting(refs), NEW subject \in Subjects, NEW limit \in Nat,
         NEW k \in Key, RefAt(k) \in refs, NEW depth \in Nat, depth <= limit,
         Answers[Bare(k, subject, limit, depth)] = Allow,
         NEW e \in Call, e.rule = RewriteOf(RefAt(k)), e.key = k, e.ask.subject = subject,
         e.ask.limit = limit, e.ask.depth = depth, e.ask.visited \subseteq {k}
  PROVE  Answers[e] = Allow
<1> DEFINE Allows(n) == Answers[Bare(k, subject, limit, n)] = Allow
           rooms == {m \in Nat : \E n \in Nat : n + m = limit /\ depth <= n /\ Allows(n)}
<1> HIDE DEF Allows
<1>1. RefAt(k) \in DefinedRefs
  BY DEF Granting
<1>2. limit - depth \in rooms
  BY DEF Allows
<1>3. PICK m \in rooms : \A j \in rooms : m <= j
  <2>1. rooms \in SUBSET Nat
    OBVIOUS
  <2> QED
    BY <1>2, <2>1, Least
<1>4. PICK n \in Nat : n + m = limit /\ depth <= n /\ Allows(n)
  OBVIOUS
<1>5. PICK c : c = Bare(k, subject, limit, n)
  OBVIOUS
<1>6. /\ c \in Call /\ c.rule = RewriteOf(RefAt(k)) /\ c.key = k
      /\ c.ask.subject = subject /\ c.ask.limit = limit /\ c.ask.depth = n
      /\ c.ask.visited = {} /\ CallOf(refs, c)
  BY <1>1, <1>5, BareIs
<1>7. NoReturn(k, c)
  <2>1. ASSUME NEW i \in Nat, n < i, i <= limit
        PROVE  ~Allows(i)
    <3>1. PICK j : j = limit - i
      OBVIOUS
    <3>2. j \in Nat /\ i + j = limit /\ depth <= i /\ ~(m <= j)
      BY <1>4, <2>1, <3>1
    <3> QED
      BY <1>3, <3>2
  <2> QED
    BY <1>6, <2>1 DEF NoReturn, Allows
<1>8. PICK a : a = [subject |-> subject, limit |-> limit, depth |-> n, visited |-> {k}]
  OBVIOUS
<1>9. PICK v : v = [rule |-> RewriteOf(RefAt(k)), key |-> k, ask |-> a]
  OBVIOUS
<1>10. v \in Call
  <2>1. a \in [subject : [type : Namespace, id : Id], limit : Nat, depth : Nat,
               visited : SUBSET Key]
    BY <1>8, InputAssumption
  <2>2. RewriteOf(RefAt(k)) \in Rule
    BY <1>6, CallFields
  <2> QED
    BY <1>9, <2>1, <2>2 DEF Call
<1>11. Alongside(k, c, v)
  BY <1>6, <1>8, <1>9, <1>10 DEF Alongside
<1>12. Answers[v] = Allow
  BY <1>4, <1>5, <1>6, <1>7, <1>11, AllowedAlongside DEF Allows
<1>13. Twin(v, e)
  BY <1>4, <1>8, <1>9 DEF Twin
<1>14. Leq(Answers[v], Answers[e])
  BY <1>10, <1>13, TwinsAnswer
<1> QED
  BY <1>12, <1>14 DEF Leq, Allow, Unknown

\* Of the calls of other keys that a traversal makes.
LEMMA BareLeads ==
  ASSUME Typed, NEW refs, Granting(refs), NEW k \in Key, RefAt(k) \in refs,
         NEW d \in Call, d.ask.subject \in Subjects, d.ask.visited = {},
         d.ask.depth + 1 <= d.ask.limit,
         Answers[Bare(k, d.ask.subject, d.ask.limit, d.ask.depth + 1)] = Allow
  PROVE  Leads(d, k)
<1>1. RefAt(k) \in DefinedRefs /\ d.ask.depth \in Nat /\ d.ask.limit \in Nat
  BY CallFields DEF Granting
<1>2. Defines(model, k.object_type, k.relation)
  BY <1>1, RefsDefined DEF Typed, RefAt
<1>3. ~CutOff(d, k)
  BY <1>1, <1>2 DEF CutOff
<1>4. PICK e, subject, limit, depth :
        /\ e = KeyCall(d, k) /\ subject = d.ask.subject /\ limit = d.ask.limit
        /\ depth = d.ask.depth + 1
  OBVIOUS
<1>5. /\ e \in Call /\ e.rule = RewriteOf(RefAt(k)) /\ e.key = k /\ e.ask.subject = subject
      /\ e.ask.limit = limit /\ e.ask.depth = depth /\ e.ask.visited \subseteq {k}
  <2>1. e \in Call
    BY <1>3, <1>4, KeyBelow DEF Typed
  <2>2. /\ e.rule = model[k.object_type][k.relation].rewrite /\ e.key = k
        /\ e.ask.subject = d.ask.subject /\ e.ask.limit = d.ask.limit
        /\ e.ask.depth = d.ask.depth + 1 /\ e.ask.visited = d.ask.visited \cup {k}
    BY <1>4, CallFields
  <2>3. e.rule = RewriteOf(RefAt(k))
    BY <2>2, RewriteAt
  <2> QED
    BY <1>4, <2>1, <2>2, <2>3
<1>6. /\ subject \in Subjects /\ limit \in Nat /\ depth \in Nat /\ depth <= limit
      /\ Answers[Bare(k, subject, limit, depth)] = Allow
  BY <1>1, <1>4
<1>7. Answers[e] = Allow
  BY <1>5, <1>6, BareEnters
<1> QED
  BY <1>3, <1>4, <1>7 DEF Leads

------------------------------------------------------------------------------
\* A walk of plain usersets finds nothing that a check does not allow

LEMMA OneRule ==
  ASSUME NEW rule \in Rule, rule.kind = "this"
  PROVE  RulesOf(rule) = {rule}
<1>1. Parts(rule) = {}
  BY DEF Parts
<1>2. {rule} \in WholeRules
  BY <1>1 DEF WholeRules
<1>3. RulesOf(rule) \subseteq {rule}
  BY <1>2 DEF RulesOf, NestedRules
<1> QED
  BY <1>3, NestedParts

\* Refs of relations that their own tuples alone grant.
LEMMA PlainGranting ==
  ASSUME Typed, NEW refs, Saturated(refs), \A r \in refs : RewriteOf(r).kind = "this"
  PROVE  Granting(refs)
<1>1. refs \subseteq DefinedRefs
  BY DEF Saturated
<1>2. ASSUME NEW r \in refs
      PROVE  Pure(RewriteOf(r)) /\ RewriteRefs(r) = {}
  <2>1. RewriteOf(r) \in Rule /\ RewriteOf(r).kind = "this"
    BY <1>1, RefsDefined DEF Typed
  <2>2. RulesOf(RewriteOf(r)) = {RewriteOf(r)}
    BY <2>1, OneRule
  <2> QED
    BY <2>1, <2>2 DEF Pure, RewriteRefs, LeafRefs
<1> QED
  BY <1>1, <1>2 DEF Granting, Saturated

\* The tuple of the subject, or of a userset that is allowed further down.
LEMMA TupleAllows ==
  ASSUME Typed, NEW refs, Granting(refs), NEW d \in Call, d.rule.kind = "this",
         d.ask.subject \in Subjects, d.ask.visited = {},
         NEW t \in TuplesAt(d.key, d.key.relation), AllowsStored(model, t),
         NEW k \in {NodeKey(SubjectOf(t))},
         \/ SubjectOf(t) \in Starts(d.ask.subject)
         \/ /\ t.subject_relation # Direct /\ RefAt(k) \in refs
            /\ d.ask.depth + 1 <= d.ask.limit
            /\ Answers[Bare(k, d.ask.subject, d.ask.limit, d.ask.depth + 1)] = Allow
  PROVE  Answers[d] = Allow
<1>1. PICK n : n = SubjectOf(t)
  OBVIOUS
<1>2. /\ n.type = t.subject_type /\ n.id = t.subject_id /\ n.relation = t.subject_relation
      /\ k = KeyOf(t.subject_type, t.subject_id, t.subject_relation)
  BY <1>1 DEF SubjectOf, Node, NodeKey
<1>3. IF t.subject_relation # Direct
      THEN Leads(d, KeyOf(t.subject_type, t.subject_id, t.subject_relation))
      ELSE SubjectMatches(t, d.ask.subject)
  <2>1. CASE n \in Starts(d.ask.subject)
    <3>1. PICK id \in {d.ask.subject.id, Wildcard} : n = Node(d.ask.subject.type, id, Direct)
      BY <2>1 DEF Starts
    <3>2. n.type = d.ask.subject.type /\ n.id = id /\ n.relation = Direct
      BY <3>1 DEF Node
    <3> QED
      BY <1>2, <3>2 DEF SubjectMatches
  <2>2. CASE ~(n \in Starts(d.ask.subject))
    <3>1. /\ t.subject_relation # Direct /\ RefAt(k) \in refs
          /\ d.ask.depth + 1 <= d.ask.limit
          /\ Answers[Bare(k, d.ask.subject, d.ask.limit, d.ask.depth + 1)] = Allow
      BY <1>1, <2>2
    <3>2. k \in Key
      <4>1. tuples \subseteq Pool /\ d.key \in Key
        BY CallFields DEF Typed
      <4> QED
        BY <1>2, <3>1, <4>1, EdgeKeys
    <3>3. Leads(d, k)
      BY <3>1, <3>2, BareLeads
    <3> QED
      BY <1>2, <3>1, <3>3
  <2> QED
    BY <2>1, <2>2
<1>4. Because(d)
  BY <1>3 DEF Because
<1> QED
  BY <1>4, AllowedBecause DEF Explained

\* A subject that is met: the one asked about, or a userset that is allowed it at
\* every depth that leaves room for the walk to it.
Backed(refs, subject, limit, f) ==
  \/ f.cost = 0 /\ f.node \in Starts(subject)
  \/ /\ f.cost # 0 /\ f.node.relation # Direct
     /\ NodeKey(f.node) \in Key /\ RefAt(NodeKey(f.node)) \in refs
     /\ \A n \in Nat : n + f.cost <= limit + 1 =>
          Answers[Bare(NodeKey(f.node), subject, limit, n)] = Allow

LEMMA NodeKeyIs ==
  ASSUME NEW node
  PROVE  /\ NodeKey(node).object_type = node.type /\ NodeKey(node).object_id = node.id
         /\ NodeKey(node).relation = node.relation
         /\ RefAt(NodeKey(node)) = RefOf(node)
BY DEF NodeKey, KeyOf, RefAt, RefOf

LEMMA MetAllowed ==
  ASSUME Typed, NEW refs, Saturated(refs), \A r \in refs : RewriteOf(r).kind = "this",
         NEW subject \in Subjects, NEW limit \in Nat, NEW w, Levels(refs, subject, limit, w),
         NEW i \in Nat, NEW f \in w[i]
  PROVE  Backed(refs, subject, limit, f)
<1> DEFINE Good(x) == Backed(refs, subject, limit, x)
           bad == {n \in Nat : \E x \in w[n] : x.cost = n /\ ~Good(x)}
<1> HIDE DEF Good
<1>1. refs \subseteq DefinedRefs /\ Granting(refs)
  BY PlainGranting DEF Saturated
<1>2. ASSUME bad # {} PROVE FALSE
  <2>1. PICK k \in bad : \A j \in bad : k <= j
    <3>1. bad \in SUBSET Nat
      OBVIOUS
    <3> QED
      BY <1>2, <3>1, Least
  <2>2. PICK x \in w[k] : x.cost = k /\ ~Good(x)
    BY <2>1
  <2>3. x \in Footing /\ Grounded(refs, subject, limit, w, x) /\ k \in Nat
    BY <2>1, LevelsGrounded
  <2>4. \E m \in w[k] : \E s \in Onward(m.node, refs) : m.cost + s.cost = k /\ s.node = x.node
    BY <2>2, <2>3 DEF Grounded, Good, Backed
  <2>5. PICK m \in w[k] : \E s \in Onward(m.node, refs) : m.cost + s.cost = k /\ s.node = x.node
    BY <2>4
  <2>6. PICK s \in Onward(m.node, refs) : m.cost + s.cost = k /\ s.node = x.node
    BY <2>5
  <2>7. m \in Footing /\ m \in w[m.cost]
    BY <2>3, LevelsGrounded
  <2>8. m.cost \in Nat /\ m.node \in WalkNode
    BY <2>7 DEF Footing
  <2>9. /\ RefOf(s.node) \in refs /\ s.node.relation # Direct /\ s.cost \in Nat /\ 1 <= s.cost
        /\ s.node = Node(s.node.type, s.node.id, s.node.relation)
    BY <1>1, <2>8, OnwardTyped
  <2>10. Good(m)
    <3>1. ~(k <= m.cost)
      BY <2>3, <2>6, <2>8, <2>9
    <3>2. m.cost \notin bad
      BY <2>1, <3>1
    <3> QED
      BY <2>7, <2>8, <3>2
  <2>11. ~ByLeaf(m.node, refs, s)
    <3> SUFFICES ASSUME ByLeaf(m.node, refs, s) PROVE FALSE
      OBVIOUS
    <3>1. PICK p \in refs : \E l \in Leaves[RewriteOf(p)] : \E id :
            /\ LeafLeads(l.leaf, p, m.node, id)
            /\ s = [node |-> Node(p.type, id, p.relation), cost |-> l.cost]
      BY DEF ByLeaf
    <3>2. RewriteOf(p) \in Rule /\ RewriteOf(p).kind = "this"
      BY <1>1, RefsDefined DEF Typed
    <3> QED
      BY <3>1, <3>2, ThisLeavesNone
  <2>12. ByTuple(m.node, refs, s)
    BY <2>11, OnwardIs
  <2>13. PICK t \in TuplesOf(m.node, refs) :
          s = [node |-> Node(t.object_type, t.object_id, t.relation), cost |-> 1]
    BY <2>12 DEF ByTuple
  <2>14. PICK key : key = NodeKey(x.node)
    OBVIOUS
  <2>15. /\ t \in tuples /\ SubjectOf(t) = m.node /\ AllowsStored(model, t)
         /\ key.object_type = t.object_type /\ key.object_id = t.object_id
         /\ key.relation = t.relation /\ RefAt(key) = RefOf(s.node)
         /\ key = KeyOf(t.object_type, t.object_id, t.relation) /\ m.cost + 1 = k
    BY <2>6, <2>13, <2>14, NodeKeyIs DEF TuplesOf, Node, NodeKey
  <2>16. t \in TuplesAt(key, key.relation) /\ key \in Key
    <3>1. t \in RelationTuple
      BY <2>15, InputAssumption DEF Typed
    <3> QED
      BY <2>15, <3>1 DEF TuplesAt, RelationTuple, Key, KeyOf
  <2>17. RefAt(key) \in refs /\ RefAt(key) \in DefinedRefs /\ RewriteOf(RefAt(key)).kind = "this"
    BY <1>1, <2>9, <2>15
  <2>18. ASSUME NEW n \in Nat, n + k <= limit + 1
         PROVE  Answers[Bare(key, subject, limit, n)] = Allow
    <3>1. PICK d, from : d = Bare(key, subject, limit, n) /\ from = NodeKey(m.node)
      OBVIOUS
    <3>2. /\ d \in Call /\ d.rule.kind = "this" /\ d.key = key /\ d.ask.subject = subject
          /\ d.ask.limit = limit /\ d.ask.depth = n /\ d.ask.visited = {}
      BY <2>16, <2>17, <3>1, BareIs
    <3>3. CASE m.node \in Starts(subject)
      BY <1>1, <2>15, <2>16, <3>1, <3>2, <3>3, TupleAllows
    <3>4. CASE ~(m.node \in Starts(subject))
      <4>1. /\ m.cost # 0 /\ m.node.relation # Direct /\ RefAt(from) \in refs
            /\ \A j \in Nat : j + m.cost <= limit + 1 =>
                 Answers[Bare(from, subject, limit, j)] = Allow
        BY <2>10, <3>1, <3>4 DEF Good, Backed
      <4>2. n + 1 \in Nat /\ n + 1 <= limit /\ n + 1 + m.cost <= limit + 1
        BY <2>8, <2>15, <2>18, <4>1
      <4>3. Answers[Bare(from, subject, limit, n + 1)] = Allow
        BY <4>1, <4>2
      <4>4. t.subject_relation # Direct
        BY <2>15, <4>1 DEF SubjectOf, Node
      <4> QED
        BY <1>1, <2>15, <2>16, <3>1, <3>2, <4>1, <4>2, <4>3, <4>4, TupleAllows
    <3> QED
      BY <3>1, <3>3, <3>4
  <2>19. k # 0
    BY <2>8, <2>15
  <2>20. Good(x)
    BY <2>2, <2>6, <2>9, <2>14, <2>16, <2>17, <2>18, <2>19 DEF Good, Backed
  <2> QED
    BY <2>2, <2>20
<1>3. f \in w[f.cost] /\ f.cost \in Nat
  BY LevelsGrounded DEF Footing
<1>4. Good(f)
  BY <1>2, <1>3
<1> QED
  BY <1>4 DEF Good

\* The check of an object from where a lookup has come to, evaluating no key.
Resembles(c, d, id) ==
  /\ d \in Call /\ d.rule = c.rule /\ d.key = KeyAt(c.ref, id)
  /\ d.ask.subject = c.ask.subject /\ d.ask.limit = c.ask.limit /\ d.ask.depth = c.ask.depth
  /\ d.ask.visited = {}

\* What a direct lookup finds among plain usersets, a check allows.
LEMMA DirectAllowed ==
  ASSUME Typed, ValidSchema(model), NEW c, Asked(c), c.rule.kind = "this",
         \A u \in Reachable(c.ref) : RewriteOf(u).kind = "this",
         NEW id \in Id, id \in LookupDirect(c.ref, c.ask),
         NEW d, Resembles(c, d, id)
  PROVE  Answers[d] = Allow
<1>1. PICK ref, ask, subject, limit, key :
        /\ ref = c.ref /\ ask = c.ask /\ subject = ask.subject /\ limit = ask.limit
        /\ key = KeyAt(ref, id)
  OBVIOUS
<1>2. /\ ref \in DefinedRefs /\ subject \in Subjects /\ limit \in Nat /\ ask.depth \in Nat
      /\ d \in Call /\ d.rule = c.rule /\ d.key = key /\ d.ask.subject = subject
      /\ d.ask.limit = limit /\ d.ask.depth = ask.depth /\ d.ask.visited = {}
  BY <1>1, AsksFollow DEF Asked, Resembles
<1>3. /\ key.object_type = ref.type /\ key.object_id = id /\ key.relation = ref.relation
      /\ RefAt(key) = ref
  BY <1>1, <1>2, KeyAtIs
<1>4. PICK refs, w, level : /\ refs = Reachable(ref) /\ w = Met(refs, subject, limit)
                            /\ level = Reach(ask)
  OBVIOUS
<1>5. /\ Saturated(refs) /\ refs \subseteq DefinedRefs /\ UsersetRefs(ref) \subseteq refs
      /\ Levels(refs, subject, limit, w)
  BY <1>2, <1>4, DirectWalk
<1>6. Granting(refs) /\ \A u \in refs : RewriteOf(u).kind = "this"
  BY <1>1, <1>4, <1>5, PlainGranting
<1>7. Shown(w, level, ref, id)
  BY <1>1, <1>4, LookupDirectIs
<1>8. PICK m \in w[level] : \E t \in TuplesOf(m.node, {ref}) : t.object_id = id
  BY <1>7 DEF Shown
<1>9. PICK t \in TuplesOf(m.node, {ref}) : t.object_id = id
  BY <1>8
<1>10. /\ t \in tuples /\ SubjectOf(t) = m.node /\ AllowsStored(model, t)
       /\ Ref(t.object_type, t.relation) = ref
  BY DEF TuplesOf
<1>11. ref.type = t.object_type /\ ref.relation = t.relation
  BY <1>10 DEF Ref
<1>12. t \in TuplesAt(key, key.relation)
  BY <1>3, <1>9, <1>10, <1>11 DEF TuplesAt
<1>13. /\ level \in Nat
       /\ ask.depth > limit => level = 0
       /\ ~(ask.depth > limit) => level + ask.depth = limit
  BY <1>1, <1>2, <1>4, ReachIs
<1>14. m \in Footing /\ m.cost <= level /\ Backed(refs, subject, limit, m)
  BY <1>2, <1>5, <1>6, <1>13, LevelsGrounded, MetAllowed
<1>15. PICK from : from = NodeKey(m.node)
  OBVIOUS
<1>18. /\ d \in Call /\ d.rule.kind = "this" /\ d.ask.visited = {} /\ d.ask.subject \in Subjects
       /\ t \in TuplesAt(d.key, d.key.relation) /\ AllowsStored(model, t)
       /\ from \in {NodeKey(SubjectOf(t))}
  BY <1>2, <1>10, <1>12, <1>15
<1>16. CASE m.node \in Starts(subject)
  <2>1. SubjectOf(t) \in Starts(d.ask.subject)
    BY <1>2, <1>10, <1>16
  <2> QED
    BY <1>6, <1>18, <2>1, TupleAllows
<1>17. CASE ~(m.node \in Starts(subject))
  <2>1. /\ m.cost # 0 /\ m.node.relation # Direct /\ RefAt(from) \in refs
        /\ \A n \in Nat : n + m.cost <= limit + 1 =>
             Answers[Bare(from, subject, limit, n)] = Allow
    BY <1>14, <1>15, <1>17 DEF Backed
  <2>2. m.cost \in Nat
    BY <1>14 DEF Footing
  <2>3. /\ ask.depth + 1 \in Nat /\ ask.depth + 1 <= limit
        /\ ask.depth + 1 + m.cost <= limit + 1
    BY <1>2, <1>13, <1>14, <2>1, <2>2
  <2>4. Answers[Bare(from, subject, limit, ask.depth + 1)] = Allow
    BY <2>1, <2>3
  <2>5. t.subject_relation # Direct
    BY <1>10, <2>1 DEF SubjectOf, Node
  <2> QED
    <3>1. /\ d.ask.depth + 1 <= d.ask.limit
          /\ Answers[Bare(from, d.ask.subject, d.ask.limit, d.ask.depth + 1)] = Allow
      BY <1>2, <2>3, <2>4
    <3> QED
      BY <1>6, <1>18, <2>1, <2>5, <3>1, TupleAllows
<1> QED
  BY <1>16, <1>17

------------------------------------------------------------------------------
\* A lookup that no check filters finds nothing that a check does not allow

\* Refs that rules may lead to, none of which takes anything away or names a
\* userset but plain ones.
Simple(refs) ==
  /\ refs \subseteq DefinedRefs
  /\ \A r \in refs : /\ Pure(RewriteOf(r)) /\ RewriteRefs(r) \subseteq refs
                     /\ \A u \in Reachable(r) : RewriteOf(u).kind = "this"

WithReached(refs) == refs \cup UNION {Reachable(r) : r \in refs}

LEMMA SimpleGranting ==
  ASSUME Typed, ValidSchema(model), NEW refs, Simple(refs)
  PROVE  Granting(WithReached(refs)) /\ refs \subseteq WithReached(refs)
<1>1. ASSUME NEW r \in refs
      PROVE  /\ Granting(Reachable(r)) /\ UsersetRefs(r) \subseteq Reachable(r)
             /\ r \in DefinedRefs /\ Pure(RewriteOf(r)) /\ RewriteRefs(r) \subseteq refs
  <2>1. /\ r \in DefinedRefs /\ Pure(RewriteOf(r)) /\ RewriteRefs(r) \subseteq refs
        /\ \A u \in Reachable(r) : RewriteOf(u).kind = "this"
    BY DEF Simple
  <2>2. Saturated(Reachable(r)) /\ UsersetRefs(r) \subseteq Reachable(r)
    BY <2>1, ReachableIs
  <2> QED
    BY <2>1, <2>2, PlainGranting
<1>2. ASSUME NEW u \in WithReached(refs)
      PROVE  /\ u \in DefinedRefs /\ Pure(RewriteOf(u)) /\ UsersetRefs(u) \subseteq WithReached(refs)
             /\ RewriteRefs(u) \subseteq WithReached(refs)
  <2>1. CASE u \in refs
    BY <1>1, <2>1 DEF WithReached
  <2>2. CASE u \notin refs
    <3>1. PICK r \in refs : u \in Reachable(r)
      BY <1>2, <2>2 DEF WithReached
    <3>2. Reachable(r) \subseteq WithReached(refs)
      BY DEF WithReached
    <3> QED
      BY <1>1, <3>1, <3>2 DEF Granting
  <2> QED
    BY <2>1, <2>2
<1> QED
  BY <1>2 DEF Granting, WithReached

\* A call finds nothing but what a check with no key to return to allows.
Trusted(c) ==
  \A id \in Id, d \in Call : Resembles(c, d, id) /\ id \in Resources[c] => Answers[d] = Allow

LEMMA PartTrusted ==
  ASSUME Typed, NEW c, Asked(c), NEW id \in Id, NEW d, Resembles(c, d, id),
         \A e : Asked(e) /\ e.ref = c.ref /\ Below(e, c) => Trusted(e),
         NEW part \in Parts(c.rule), id \in Resources[LookupPart(c, part)]
  PROVE  Answers[PartCall(d, part)] = Allow
<1>1. PICK e, x : e = LookupPart(c, part) /\ x = PartCall(d, part)
  OBVIOUS
<1>2. /\ e \in LookupCall /\ Below(e, c) /\ e.rule = part /\ e.ref = c.ref
      /\ e.ask = Deeper(c.ask) /\ c \in LookupCall
  BY <1>1, LookupPartIs DEF Asked
<1>3. /\ e.ask.subject = c.ask.subject /\ e.ask.limit = c.ask.limit
      /\ e.ask.depth = c.ask.depth + 1
  BY <1>2, AsksFollow
<1>4. Asked(e)
  <2>1. RewriteOf(c.ref) \in Rule
    BY RefsDefined DEF Asked, Typed
  <2>2. part \in RulesOf(RewriteOf(c.ref))
    BY <2>1, NestedParts DEF Asked
  <2> QED
    BY <1>2, <1>3, <2>2 DEF Asked
<1>5. x \in Call
  BY <1>1, PartBelow DEF Resembles
<1>6. Resembles(e, x, id)
  BY <1>1, <1>2, <1>3, <1>5, CallFields DEF Resembles
<1>7. Trusted(e)
  BY <1>2, <1>4
<1> QED
  BY <1>1, <1>5, <1>6, <1>7 DEF Trusted

LEMMA RefTrusted ==
  ASSUME Typed, NEW c, Asked(c), NEW d \in Call, NEW refs, Granting(refs),
         d.ask.subject = c.ask.subject, d.ask.limit = c.ask.limit, d.ask.depth = c.ask.depth,
         d.ask.visited = {},
         NEW ref \in refs, \A e : Asked(e) /\ e.ref = ref /\ Below(e, c) => Trusted(e),
         NEW ask \in {Deeper(c.ask), Fresh(c.ask)}, NEW y \in Id, Finds(Resources, ref, ask, y)
  PROVE  Leads(d, KeyAt(ref, y))
<1>1. PICK key : key = KeyAt(ref, y)
  OBVIOUS
<1>2. /\ ref = Ref(ref.type, ref.relation) /\ ref \in DefinedRefs /\ RewriteOf(ref) \in Rule
      /\ key \in Key /\ RefAt(key) = ref
      /\ RewriteOf(ref) = model[key.object_type][key.relation].rewrite
  BY <1>1, KeyAtIs, RefsDefined DEF Typed, Granting
<1>3. /\ c \in LookupCall /\ ask \in LookupAsk /\ ask.subject = c.ask.subject
      /\ ask.limit = c.ask.limit /\ ask.depth = c.ask.depth + 1 /\ c.ask.subject \in Subjects
      /\ c.ask.limit \in Nat /\ c.ask.depth \in Nat
  BY AsksFollow DEF Asked
<1>4. ~LookupCut(ref, ask) /\ y \in Resources[RefCall(ref, ask)]
  BY DEF Finds
<1>5. PICK e, x : /\ e = RefCall(ref, ask)
                  /\ x = Bare(key, d.ask.subject, d.ask.limit, d.ask.depth + 1)
  OBVIOUS
<1>6. /\ e \in LookupCall /\ Below(e, c) /\ e.rule = RewriteOf(ref) /\ e.ref = ref
      /\ e.ask.subject = ask.subject /\ e.ask.limit = ask.limit /\ e.ask.depth = ask.depth
      /\ ask.depth <= ask.limit
  BY <1>2, <1>3, <1>4, <1>5, RefCallIs, RefCallBelow
<1>7. Asked(e)
  BY <1>2, <1>3, <1>6, NestedParts DEF Asked
<1>8. d.ask.depth + 1 \in Nat
  BY <1>3
<1>9. /\ x \in Call /\ x.rule = RewriteOf(ref) /\ x.key = key
      /\ x.ask.subject = d.ask.subject /\ x.ask.limit = d.ask.limit
      /\ x.ask.depth = d.ask.depth + 1 /\ x.ask.visited = {}
  BY <1>2, <1>3, <1>5, <1>8, BareIs
<1>10. Resembles(e, x, y)
  BY <1>1, <1>3, <1>6, <1>9 DEF Resembles
<1>11. Trusted(e)
  BY <1>6, <1>7
<1>12. Answers[x] = Allow
  BY <1>4, <1>5, <1>9, <1>10, <1>11 DEF Trusted
<1>13. d.ask.subject \in Subjects /\ d.ask.depth + 1 <= d.ask.limit
  BY <1>3, <1>6
<1> QED
  BY <1>1, <1>2, <1>5, <1>12, <1>13, BareLeads

LEMMA OneTrusted ==
  ASSUME Typed, ValidSchema(model), NEW refs, Simple(refs), NEW c, Asked(c), c.ref \in refs,
         \A e : Asked(e) /\ e.ref \in refs /\ Below(e, c) => Trusted(e),
         NEW id \in Id, NEW d, Resembles(c, d, id), FoundBecause(Resources, c, id)
  PROVE  Answers[d] = Allow
<1>1. PICK r, ref, key : r = c.rule /\ ref = c.ref /\ key = KeyAt(ref, id)
  OBVIOUS
<1>2. /\ c \in LookupCall /\ ref \in DefinedRefs /\ r \in RulesOf(RewriteOf(ref)) /\ r \in Rule
      /\ d \in Call /\ d.rule = r /\ d.key = key /\ d.ask.subject = c.ask.subject
      /\ d.ask.limit = c.ask.limit /\ d.ask.depth = c.ask.depth /\ d.ask.visited = {}
  BY <1>1, AsksFollow DEF Asked, Resembles
<1>3. /\ key.object_type = ref.type /\ key.object_id = id /\ key.relation = ref.relation
      /\ key \in Key
  BY <1>1, <1>2, KeyAtIs
<1>4. /\ LeafRefs(r, ref.type) \subseteq refs /\ refs \subseteq DefinedRefs
      /\ r.kind # "exclusion" /\ \A u \in Reachable(ref) : RewriteOf(u).kind = "this"
  <2>1. /\ Pure(RewriteOf(ref)) /\ RewriteRefs(ref) \subseteq refs /\ refs \subseteq DefinedRefs
        /\ \A u \in Reachable(ref) : RewriteOf(u).kind = "this"
    BY <1>1 DEF Simple
  <2> QED
    BY <1>2, <2>1 DEF RewriteRefs, Pure
<1>5. PICK all : all = WithReached(refs)
  OBVIOUS
<1>6. Granting(all) /\ refs \subseteq all
  BY <1>5, SimpleGranting
<1>7. ASSUME NEW part \in Parts(r), id \in Resources[LookupPart(c, part)]
      PROVE  Answers[PartCall(d, part)] = Allow
  BY <1>1, <1>7, PartTrusted
<1>8. ASSUME NEW x \in refs, NEW ask \in {Deeper(c.ask), Fresh(c.ask)}, NEW y \in Id,
             Finds(Resources, x, ask, y)
      PROVE  Leads(d, KeyAt(x, y))
  <2>1. \A e : Asked(e) /\ e.ref = x /\ Below(e, c) => Trusted(e)
    OBVIOUS
  <2> QED
    BY <1>2, <1>6, <1>8, <2>1, RefTrusted
<1>9. CASE r.kind = "this"
  <2>1. id \in LookupDirect(c.ref, c.ask)
    BY <1>1, <1>9 DEF FoundBecause
  <2> QED
    BY <1>1, <1>4, <1>9, <2>1, DirectAllowed
<1>10. CASE r.kind = "computed"
  <2>1. PICK x : x = Ref(ref.type, r.relation)
    OBVIOUS
  <2>2. x \in refs
    BY <1>4, <1>10, <2>1 DEF LeafRefs
  <2>3. KeyAt(x, id) = [key EXCEPT !.relation = r.relation]
    BY <1>3, <2>1 DEF KeyAt, KeyOf, Ref, Key
  <2>4. Finds(Resources, x, Deeper(c.ask), id)
    BY <1>1, <1>10, <2>1 DEF FoundBecause
  <2>5. Leads(d, KeyAt(x, id))
    BY <1>8, <2>2, <2>4
  <2>6. Because(d)
    BY <1>2, <1>10, <2>3, <2>5 DEF Because
  <2> QED
    BY <1>2, <2>6, AllowedBecause DEF Explained
<1>11. CASE r.kind = "arrow"
  <2>1. PICK x \in ArrowTargets(r, ref.type) : \E y :
          /\ Finds(Resources, x, Fresh(c.ask), y)
          /\ id \in Holders(ref.type, r.tuple_relation, Node(x.type, y, Direct))
    BY <1>1, <1>11 DEF FoundBecause
  <2>2. PICK y : /\ Finds(Resources, x, Fresh(c.ask), y)
                 /\ id \in Holders(ref.type, r.tuple_relation, Node(x.type, y, Direct))
    BY <2>1
  <2>3. PICK t \in tuples : /\ t.object_type = ref.type /\ t.relation = r.tuple_relation
                            /\ t.object_id = id /\ t.subject_type = x.type /\ t.subject_id = y
                            /\ AllowsArrow(model, t)
    BY <2>2, HoldersIs
  <2>4. t \in TuplesAt(key, r.tuple_relation)
    BY <1>3, <2>3 DEF TuplesAt
  <2>5. y \in Id
    BY <2>3, InputAssumption DEF Typed, RelationTuple
  <2>6. x \in refs /\ x.relation = r.computed_relation
    BY <1>4, <1>11, RefIs DEF LeafRefs
  <2>7. KeyAt(x, y) = KeyOf(t.subject_type, t.subject_id, r.computed_relation)
    BY <2>3, <2>6 DEF KeyAt
  <2>8. Leads(d, KeyAt(x, y))
    BY <1>8, <2>2, <2>5, <2>6
  <2>9. Because(d)
    BY <1>2, <1>11, <2>3, <2>4, <2>7, <2>8 DEF Because
  <2> QED
    BY <1>2, <2>9, AllowedBecause DEF Explained
<1>12. CASE r.kind \in {"union", "intersection"}
  <2>1. Parts(r) = r.children
    BY <1>2, <1>12, RuleKinds
  <2>2. Because(d)
    BY <1>1, <1>2, <1>7, <1>12, <2>1 DEF FoundBecause, Because
  <2> QED
    BY <1>2, <2>2, AllowedBecause DEF Explained
<1> QED
  BY <1>2, <1>4, <1>9, <1>10, <1>11, <1>12, RuleKinds

LEMMA LookupsTrusted ==
  ASSUME Typed, ValidSchema(model), NEW refs, Simple(refs), NEW c, Asked(c), c.ref \in refs
  PROVE  Trusted(c)
<1> DEFINE bad == {x \in LookupCall : Asked(x) /\ x.ref \in refs /\ ~Trusted(x)}
<1>1. ASSUME bad # {} PROVE FALSE
  <2>1. Traversing(bad)
    BY AsksFollow DEF Traversing
  <2>2. PICK x \in bad : \A e \in bad : ~Below(e, x)
    BY <1>1, <2>1, DeepestOf
  <2>3. \A e : Asked(e) /\ e.ref \in refs /\ Below(e, x) => Trusted(e)
    BY <2>2 DEF Asked
  <2>4. x \in LookupCall /\ Asked(x) /\ x.ref \in refs /\ ~Trusted(x)
    BY <2>2
  <2> HIDE DEF bad
  <2>5. ASSUME NEW id \in Id, NEW d \in Call, Resembles(x, d, id), id \in Resources[x]
        PROVE  Answers[d] = Allow
    <3>1. FoundBecause(Resources, x, id)
      BY <2>4, <2>5, LookupsEvaluated
    <3> QED
      BY <2>3, <2>4, <2>5, <3>1, OneTrusted
  <2> QED
    BY <2>4, <2>5 DEF Trusted
<1> QED
  BY <1>1 DEF Asked

------------------------------------------------------------------------------
\* Whole lookups

LEMMA FirstLookup ==
  ASSUME Typed, NEW ref \in DefinedRefs, NEW subject \in Subjects, NEW limit \in Nat,
         NEW c, c = RefCall(ref, Ask(subject, limit))
  PROVE  /\ Asked(c) /\ c.rule = RewriteOf(ref) /\ c.ref = ref /\ c.ask.subject = subject
         /\ c.ask.limit = limit /\ c.ask.depth = 0 /\ c.ask.visited = {ref}
         /\ LookupRecursive(Resources, ref, Ask(subject, limit)) = Resources[c]
         /\ Resources[c] \subseteq Id
<1>1. PICK ask : ask = Ask(subject, limit)
  OBVIOUS
<1>2. ask = [subject |-> subject, limit |-> limit, depth |-> 0, visited |-> {}]
  BY <1>1 DEF Ask
<1>3. ask \in LookupAsk
  BY <1>2, InputAssumption DEF LookupAsk
<1>4. ref = Ref(ref.type, ref.relation) /\ IsDefined(ref) /\ RewriteOf(ref) \in Rule
  BY RefsDefined DEF Typed
<1>5. ~LookupCut(ref, ask)
  BY <1>2, <1>4 DEF LookupCut
<1>6. /\ c \in LookupCall /\ c.rule = RewriteOf(ref) /\ c.ref = ref
      /\ c.ask.subject = ask.subject /\ c.ask.limit = ask.limit /\ c.ask.depth = ask.depth
      /\ c.ask.visited = ask.visited \cup {ref}
  BY <1>1, <1>3, <1>4, <1>5, RefCallIs
<1>7. Asked(c)
  BY <1>2, <1>4, <1>6, NestedParts DEF Asked
<1>8. LookupRecursive(Resources, ref, ask) = Resources[c]
  BY <1>1, <1>5 DEF LookupRecursive, LookupCut, RefCall
<1>9. Resources[c] \subseteq Id
  BY <1>6, LookupsEvaluated
<1> QED
  BY <1>1, <1>2, <1>6, <1>7, <1>8, <1>9

\* A lookup misses nothing that a check allows.
LEMMA NothingMissed ==
  ASSUME Typed, ValidSchema(model), NEW ref \in DefinedRefs, NEW subject \in Subjects,
         NEW limit \in Nat, NEW id \in Id, Allowed(KeyAt(ref, id), subject, limit)
  PROVE  id \in LookupRecursive(Resources, ref, Ask(subject, limit))
<1>1. PICK c, key, d : /\ c = RefCall(ref, Ask(subject, limit)) /\ key = KeyAt(ref, id)
                       /\ d = FirstCall(key, subject, limit)
  OBVIOUS
<1>2. /\ key \in Key /\ Defines(model, key.object_type, key.relation)
      /\ RewriteOf(ref) = model[key.object_type][key.relation].rewrite
  BY <1>1, KeyAtIs
<1>3. d \in Call /\ Answers[d] = Allow
  BY <1>1, <1>2, CheckIsCall DEF Typed, Allowed
<1>4. /\ d.rule = model[key.object_type][key.relation].rewrite /\ d.key = key
      /\ d.ask.subject = subject /\ d.ask.limit = limit /\ d.ask.depth = 0
      /\ d.ask.visited = {key}
  BY <1>1 DEF FirstCall
<1>5. /\ Asked(c) /\ c.rule = RewriteOf(ref) /\ c.ref = ref /\ c.ask.subject = subject
      /\ c.ask.limit = limit /\ c.ask.depth = 0 /\ c.ask.visited = {ref}
      /\ LookupRecursive(Resources, ref, Ask(subject, limit)) = Resources[c]
  BY <1>1, FirstLookup
<1>6. Mirrors(c, d, id)
  BY <1>1, <1>2, <1>3, <1>4, <1>5 DEF Mirrors
<1>7. Agrees(c)
  BY <1>5, LookupsAgree
<1> QED
  BY <1>3, <1>5, <1>6, <1>7 DEF Agrees

\* Where no check is called for, a lookup finds only what one would allow.
LEMMA NothingGranted ==
  ASSUME Typed, ValidSchema(model), NEW ref \in DefinedRefs, NEW subject \in Subjects,
         NEW limit \in Nat, ~NeedsFilter(ref),
         NEW id \in Id, id \in LookupRecursive(Resources, ref, Ask(subject, limit))
  PROVE  Allowed(KeyAt(ref, id), subject, limit)
<1>1. PICK refs : refs = Crossed(ref)
  OBVIOUS
<1>2. Simple(refs) /\ ref \in refs
  <2>1. /\ refs \subseteq DefinedRefs /\ ref \in refs
        /\ \A r \in refs : RewriteRefs(r) \subseteq refs
    BY <1>1, CrossedIs
  <2>2. ASSUME NEW r \in refs
        PROVE  Pure(RewriteOf(r)) /\ \A u \in Reachable(r) : RewriteOf(u).kind = "this"
    <3>1. IsDefined(r)
      BY <2>1, RefsDefined DEF Typed
    <3> QED
      BY <1>1, <3>1 DEF NeedsFilter, UsesComplexUserset, Pure
  <2> QED
    BY <2>1, <2>2 DEF Simple
<1>3. PICK c, key, d, b : /\ c = RefCall(ref, Ask(subject, limit)) /\ key = KeyAt(ref, id)
                          /\ d = FirstCall(key, subject, limit)
                          /\ b = Bare(key, subject, limit, 0)
  OBVIOUS
<1>4. /\ key \in Key /\ Defines(model, key.object_type, key.relation) /\ RefAt(key) = ref
      /\ RewriteOf(ref) = model[key.object_type][key.relation].rewrite
  BY <1>3, KeyAtIs
<1>5. /\ Asked(c) /\ c.rule = RewriteOf(ref) /\ c.ref = ref /\ c.ask.subject = subject
      /\ c.ask.limit = limit /\ c.ask.depth = 0
      /\ LookupRecursive(Resources, ref, Ask(subject, limit)) = Resources[c]
  BY <1>3, FirstLookup
<1>6. /\ b \in Call /\ b.rule = RewriteOf(ref) /\ b.key = key /\ b.ask.subject = subject
      /\ b.ask.limit = limit /\ b.ask.depth = 0 /\ b.ask.visited = {}
  BY <1>3, <1>4, BareIs
<1>7. Resembles(c, b, id)
  BY <1>3, <1>5, <1>6 DEF Resembles
<1>8. Answers[b] = Allow
  BY <1>2, <1>5, <1>6, <1>7, LookupsTrusted DEF Trusted
<1>9. /\ d \in Call /\ Check(key, subject, limit) = Answers[d]
  BY <1>3, <1>4, CheckIsCall DEF Typed
<1>10. /\ d.rule = RewriteOf(RefAt(key)) /\ d.key = key /\ d.ask.subject = subject
       /\ d.ask.limit = limit /\ d.ask.depth = 0 /\ d.ask.visited = {key}
  BY <1>3, <1>4 DEF FirstCall
<1>11. PICK all : all = WithReached(refs)
  OBVIOUS
<1>12. Granting(all) /\ RefAt(key) \in all
  BY <1>2, <1>4, <1>11, SimpleGranting
<1>13. 0 \in Nat /\ 0 <= limit /\ d.ask.visited \subseteq {key}
  BY <1>10
<1>14. Answers[Bare(key, subject, limit, 0)] = Allow
  BY <1>3, <1>8
<1>15. Answers[d] = Allow
  BY <1>4, <1>9, <1>10, <1>12, <1>13, <1>14, BareEnters
<1> QED
  BY <1>3, <1>9, <1>15 DEF Allowed

LEMMA LookupMatches ==
  ASSUME Typed, ValidSchema(model), NEW ref \in DefinedRefs, NEW subject \in Subjects,
         NEW limit \in Nat
  PROVE  LookupResources(ref, subject, limit) =
           {id \in Id : Allowed(KeyAt(ref, id), subject, limit)}
<1>1. PICK found : found = LookupRecursive(Resources, ref, Ask(subject, limit))
  OBVIOUS
<1>2. found \subseteq Id
  BY <1>1, FirstLookup
<1>3. \A id \in Id : Allowed(KeyAt(ref, id), subject, limit) => id \in found
  BY <1>1, NothingMissed
<1>4. ~NeedsFilter(ref) => \A id \in found : Allowed(KeyAt(ref, id), subject, limit)
  BY <1>1, <1>2, NothingGranted
<1>5. LookupResources(ref, subject, limit) =
        IF NeedsFilter(ref) THEN {id \in found : Allowed(KeyAt(ref, id), subject, limit)}
        ELSE found
  BY <1>1 DEF LookupResources, KeyAt
<1> QED
  BY <1>2, <1>3, <1>4, <1>5

\* A lookup lists the objects that a check allows, and no other, for any schema,
\* tuples, nesting of exclusions and depth limit (LookupMatchesCheck: the
\* backward walk of _lookup_direct with its depth budget, the cycle detection of
\* _lookup_recursive, and when _needs_canonical_check_filter may be spared).
THEOREM LookupsAreExact == Spec => []LookupMatchesCheck
<1>1. Typed /\ TypeOK => LookupMatchesCheck
  <2> SUFFICES ASSUME Typed, TypeOK, NEW subject \in Subjects, NEW ns \in DOMAIN model,
                      NEW name \in DOMAIN model[ns], NEW limit \in Shallower \cup {MaxDepth}
               PROVE  LookupResources(Ref(ns, name), subject, limit) =
                        {id \in Id : Allowed(KeyOf(ns, id, name), subject, limit)}
    BY DEF LookupMatchesCheck
  <2>1. limit \in Nat
    BY DepthAssumption
  <2>2. PICK ref : ref = Ref(ns, name)
    OBVIOUS
  <2>3. ref \in DefinedRefs
    BY <2>2 DEF DefinedRefs
  <2>4. \A id : KeyAt(ref, id) = KeyOf(ns, id, name)
    BY <2>2 DEF KeyAt, Ref
  <2>5. ValidSchema(model)
    BY DEF TypeOK
  <2>6. LookupResources(ref, subject, limit) =
          {id \in Id : Allowed(KeyAt(ref, id), subject, limit)}
    BY <2>1, <2>3, <2>5, LookupMatches
  <2> QED
    BY <2>2, <2>4, <2>6
<1>2. Spec => [](Typed /\ TypeOK)
  BY InitTyped, TypedStep, PTL DEF Spec
<1> QED
  BY <1>1, <1>2, PTL

==============================================================================
