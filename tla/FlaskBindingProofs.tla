-------------------------- MODULE FlaskBindingProofs --------------------------
(***************************************************************************)
(* Which engine mixins resolve, for any number of threads, apps, nested    *)
(* contexts and calls of init_app, as long as init_app is called outside   *)
(* of contexts.  The two properties are about the innermost context and    *)
(* about none at all; what carries them through the popping of a context   *)
(* is that the token of every context restores what the one under it, or   *)
(* the thread without contexts, should resolve (Unwinding).                *)
(***************************************************************************)
EXTENDS FlaskBinding, TLAPS, SequenceTheorems

TokenAt(th, i) == contexts[th][i].token

\* Nothing was bound by the contexts above the i-th.
NoneAbove(th, i) == \A k \in 1..Len(contexts[th]) : i < k => TokenAt(th, k) = None

\* The j-th context is the next above the i-th to have bound an engine.
NextAbove(th, i, j) ==
  /\ i < j /\ TokenAt(th, j) # None
  /\ \A k \in 1..Len(contexts[th]) : i < k /\ k < j => TokenAt(th, k) = None

\* Where the default is bound, an engine of an app the extension counts.
OutsideGood(th, engine) ==
  IF token # None /\ token.thread = th
  THEN engine # None /\ engine.app \in keys
  ELSE engine = None

\* What should be bound when the i-th context is the innermost.
Good(th, i, engine) ==
  IF i = 0 THEN OutsideGood(th, engine)
  ELSE TokenAt(th, i) # None => engine # None /\ engine.app = contexts[th][i].app

UnwindingOf(th) ==
  \A i \in 0..Len(contexts[th]) :
    /\ NoneAbove(th, i) => Good(th, i, bound[th])
    /\ \A j \in 1..Len(contexts[th]) :
         NextAbove(th, i, j) => Good(th, i, TokenAt(th, j).old)

Unwinding == \A th \in Thread : UnwindingOf(th)

\* The token of the default restores nothing; the default is of the sole app.
DefaultInv ==
  /\ token # None => token.old = None
  /\ default # None => keys = {default.app}

Inv == TypeOK /\ Unwinding /\ DefaultInv

------------------------------------------------------------------------------

LEMMA InitInv == Init => Inv
BY BoundsAssumption
DEF Init, BindingInit, Inv, TypeOK, Unwinding, UnwindingOf, DefaultInv, Good, OutsideGood,
    NoneAbove, NextAbove, TokenOf, Engine

LEMMA EngineTypes ==
  ASSUME TypeOK, NEW app \in App, inits < MaxInits
  PROVE  /\ NewEngine(app) \in Engine
         /\ NewDefault(app) \in Engine \cup {None}
         /\ NewDefault(app) # None => NewDefault(app) = NewEngine(app)
BY BoundsAssumption DEF TypeOK, NewEngine, NewDefault, Engine

LEMMA EngineIsNotNone ==
  ASSUME NEW engine \in Engine
  PROVE  engine # None
BY NoneAssumption, BoundsAssumption DEF Engine

LEMMA StateTypes ==
  ASSUME TypeOK, NEW app \in App, SetState(app)
  PROVE  /\ inits' \in 0..MaxInits
         /\ state' \in [App -> Engine \cup {None}]
         /\ keys' = {a \in App : state'[a] # None}
         /\ default' \in Engine \cup {None}
         /\ \A a \in App : state'[a] # None => state'[a].app = a
<1>1. NewEngine(app) # None /\ NewEngine(app).app = app
  BY EngineTypes, EngineIsNotNone DEF SetState, NewEngine
<1>2. /\ NewEngine(app) \in Engine
      /\ NewDefault(app) \in Engine \cup {None}
  BY EngineTypes DEF SetState
<1>3. inits' \in 0..MaxInits
  BY BoundsAssumption DEF SetState, TypeOK
<1>4. \A a \in App : state'[a] = IF a = app THEN NewEngine(app) ELSE state[a]
  BY DEF SetState, TypeOK
<1>5. \A a : a \in keys' <=> a \in App /\ state'[a] # None
  BY <1>1, <1>4 DEF SetState, TypeOK
<1> QED
  BY <1>1, <1>2, <1>3, <1>4, <1>5 DEF SetState, TypeOK

LEMMA BindTypes ==
  ASSUME TypeOK, NEW th \in Thread, NEW engine \in Engine \cup {None},
         BindDefault(th, engine)
  PROVE  /\ bound' \in [Thread -> Engine \cup {None}]
         /\ token' \in TokenOf \cup {None}
BY DEF TypeOK, BindDefault, Configure, TokenOf

LEMMA PushTypes ==
  ASSUME TypeOK, NEW th \in Thread, NEW app \in App, PushContext(th, app)
  PROVE  TypeOK'
<1>1. Token(th) \in TokenOf
  BY DEF Token, TokenOf, TypeOK
<1>2. bound' \in [Thread -> Engine \cup {None}]
  BY DEF PushContext, Configure, TypeOK
<1>3. /\ [app |-> app, token |-> Token(th)] \in Context
      /\ [app |-> app, token |-> None] \in Context
  BY <1>1 DEF Context
<1>4. \A e \in Context : Append(contexts[th], e) \in Seq(Context)
  BY AppendProperties DEF TypeOK
<1>5. contexts' \in [Thread -> Seq(Context)]
  BY <1>3, <1>4 DEF PushContext, TypeOK
<1> QED
  BY <1>2, <1>5 DEF PushContext, TypeOK

LEMMA PopTypes ==
  ASSUME TypeOK, NEW th \in Thread, PopContext(th)
  PROVE  TypeOK'
<1>1. contexts[th] \in Seq(Context) /\ Len(contexts[th]) \in Nat /\ Len(contexts[th]) > 0
  BY EmptySeq, LenProperties DEF TypeOK, PopContext, Pushed
<1>2. Top(th) \in Context
  BY <1>1, ElementOfSeq DEF Top
<1>3. SubSeq(contexts[th], 1, Len(contexts[th]) - 1) \in Seq(Context)
  BY <1>1, SubSeqProperties
<1>4. bound' \in [Thread -> Engine \cup {None}]
  BY <1>2 DEF PopContext, ResetTo, TypeOK, TokenOf, Context
<1> QED
  BY <1>3, <1>4 DEF PopContext, TypeOK

\* Every variable keeps its type.
LEMMA TypesKept == TypeOK /\ [Next]_vars => TypeOK'
<1> SUFFICES ASSUME TypeOK, [Next]_vars PROVE TypeOK'
  OBVIOUS
<1>1. ASSUME NEW th \in Thread, NEW app \in App, InitApp(th, app)
      PROVE  TypeOK'
  <2>1. /\ NewDefault(app) \in Engine \cup {None}
        /\ NewEngine(app) \in Engine /\ NewEngine(app).app = app
    BY <1>1, EngineTypes DEF InitApp, SetState, NewEngine
  <2>2. /\ bound' \in [Thread -> Engine \cup {None}]
        /\ token' \in TokenOf \cup {None}
    BY <1>1, <2>1, BindTypes DEF InitApp
  <2>3. handlers' \in [App -> Engine \cup {None}]
        /\ \A a \in App : handlers'[a] # None => handlers'[a].app = a
    BY <1>1, <2>1 DEF InitApp, TypeOK
  <2> QED
    BY <1>1, <2>2, <2>3, StateTypes DEF InitApp, TypeOK
<1>2. ASSUME NEW th \in Thread, NEW app \in App, InitAppRaises(th, app)
      PROVE  TypeOK'
  BY <1>2, StateTypes DEF InitAppRaises, TypeOK
<1>3. CASE UNCHANGED vars
  BY <1>3 DEF vars, TypeOK
<1> QED
  BY <1>1, <1>2, <1>3, PushTypes, PopTypes DEF Next

\* Every variable has its type, whatever is initialised, pushed and popped.
THEOREM TypeCorrect == Spec => []TypeOK
<1>1. Init => TypeOK
  BY InitInv DEF Inv
<1> QED
  BY <1>1, TypesKept, PTL DEF Spec

------------------------------------------------------------------------------
\* The unwinding of contexts

LEMMA TokenIsNotNone ==
  ASSUME NEW t \in TokenOf
  PROVE  t # None
BY NoneAssumption, BoundsAssumption DEF TokenOf, Engine

LEMMA ContextsAreSeqs ==
  ASSUME TypeOK, NEW th \in Thread
  PROVE  /\ contexts[th] \in Seq(Context)
         /\ Len(contexts[th]) \in Nat
         /\ \A i \in 1..Len(contexts[th]) : contexts[th][i] \in Context
         /\ Pushed(th) => Len(contexts[th]) > 0
         /\ ~Pushed(th) => Len(contexts[th]) = 0
<1>1. contexts[th] \in Seq(Context)
  BY DEF TypeOK
<1> QED
  BY <1>1, EmptySeq, LenProperties, ElementOfSeq DEF Pushed

\* A thread whose contexts and binding a step leaves alone, and for which it
\* does not change what may be bound outside of contexts.
LEMMA UnwindingUntouched ==
  ASSUME NEW th \in Thread, UnwindingOf(th),
         contexts'[th] = contexts[th], bound'[th] = bound[th],
         \A e : OutsideGood(th, e) => OutsideGood(th, e)'
  PROVE  UnwindingOf(th)'
<1>1. \A i \in 0..Len(contexts[th]) : \A e : Good(th, i, e) => Good(th, i, e)'
  BY DEF Good, TokenAt
<1> QED
  BY <1>1 DEF UnwindingOf, NoneAbove, NextAbove, TokenAt

\* What a push makes of the contexts of a thread.
LEMMA PushedContexts ==
  ASSUME TypeOK, NEW th \in Thread, NEW app \in App, PushContext(th, app),
         NEW n, n = Len(contexts[th])
  PROVE  /\ Len(contexts'[th]) = n + 1
         /\ \A i \in 1..n : contexts'[th][i] = contexts[th][i]
         /\ contexts'[th][n + 1].app = app
         /\ handlers[app] = None =>
              contexts'[th][n + 1].token = None /\ bound' = bound
         /\ handlers[app] # None =>
              /\ contexts'[th][n + 1].token # None
              /\ contexts'[th][n + 1].token.old = bound[th]
              /\ bound'[th] = handlers[app]
<1>1. Token(th) \in TokenOf
  BY DEF Token, TokenOf, TypeOK
<1>2. /\ [app |-> app, token |-> Token(th)] \in Context
      /\ [app |-> app, token |-> None] \in Context
  BY <1>1 DEF Context
<1>3. \E e \in Context :
        /\ contexts'[th] = Append(contexts[th], e)
        /\ e.app = app
        /\ handlers[app] = None => e.token = None
        /\ handlers[app] # None => e.token # None /\ e.token.old = bound[th]
  BY <1>1, <1>2, TokenIsNotNone DEF PushContext, TypeOK, Token
<1>4. PICK e \in Context :
        /\ contexts'[th] = Append(contexts[th], e)
        /\ e.app = app
        /\ handlers[app] = None => e.token = None
        /\ handlers[app] # None => e.token # None /\ e.token.old = bound[th]
  BY <1>3
<1>5. /\ handlers[app] = None => bound' = bound
      /\ handlers[app] # None => bound'[th] = handlers[app]
  BY DEF PushContext, Configure, TypeOK
<1> QED
  BY <1>4, <1>5, ContextsAreSeqs, AppendProperties

LEMMA PushUnwinding ==
  ASSUME TypeOK, NEW th \in Thread, NEW app \in App, UnwindingOf(th),
         PushContext(th, app)
  PROVE  UnwindingOf(th)'
<1>1. PICK n \in Nat : n = Len(contexts[th])
  BY ContextsAreSeqs
<1>2. /\ Len(contexts'[th]) = n + 1
      /\ \A i \in 1..n : contexts'[th][i] = contexts[th][i]
      /\ contexts'[th][n + 1].app = app
      /\ handlers[app] = None =>
           contexts'[th][n + 1].token = None /\ bound' = bound
      /\ handlers[app] # None =>
           /\ contexts'[th][n + 1].token # None
           /\ contexts'[th][n + 1].token.old = bound[th]
           /\ bound'[th] = handlers[app]
  BY <1>1, PushedContexts
<1>3. handlers[app] # None => handlers[app].app = app
  BY DEF TypeOK
<1>4. token' = token /\ keys' = keys
  BY DEF PushContext
<1>5. \A i \in 0..n, j \in 1..n : NextAbove(th, i, j)' => NextAbove(th, i, j)
  BY <1>1, <1>2 DEF NextAbove, TokenAt
<1>6. \A i \in 0..n : NoneAbove(th, i)' \/ NextAbove(th, i, n + 1)' => NoneAbove(th, i)
  BY <1>1, <1>2 DEF NextAbove, NoneAbove, TokenAt
<1>7. ASSUME NEW i \in 0..n + 1, NoneAbove(th, i)'
      PROVE  Good(th, i, bound[th])'
  <2>1. CASE i \in 0..n
    <3>1. TokenAt(th, n + 1)' = None
      BY <1>1, <1>2, <1>7, <2>1 DEF NoneAbove
    <3>2. bound'[th] = bound[th]
      BY <1>2, <3>1 DEF TokenAt
    <3>3. Good(th, i, bound[th])
      BY <1>1, <1>6, <1>7, <2>1 DEF UnwindingOf
    <3>4. CASE i = 0
      BY <1>4, <3>2, <3>3, <3>4 DEF Good, OutsideGood
    <3>5. CASE i \in 1..n
      <4>1. contexts'[th][i] = contexts[th][i] /\ i # 0
        BY <1>2, <3>5
      <4> QED
        BY <3>2, <3>3, <4>1 DEF Good, TokenAt
    <3> QED
      BY <1>1, <2>1, <3>4, <3>5
  <2>2. CASE i = n + 1
    BY <1>1, <1>2, <1>3, <2>2 DEF Good, TokenAt
  <2> QED
    BY <1>1, <2>1, <2>2
<1>8. ASSUME NEW i \in 0..n + 1, NEW j \in 1..n + 1, NextAbove(th, i, j)'
      PROVE  Good(th, i, TokenAt(th, j).old)'
  <2>1. i \in 0..n
    BY <1>1, <1>8 DEF NextAbove
  <2>2. CASE j \in 1..n
    <3>1. Good(th, i, TokenAt(th, j).old)
      BY <1>1, <1>5, <1>8, <2>1, <2>2 DEF UnwindingOf
    <3>2. TokenAt(th, j)' = TokenAt(th, j)
      BY <1>2, <2>2 DEF TokenAt
    <3>3. CASE i = 0
      BY <1>4, <3>1, <3>2, <3>3 DEF Good, OutsideGood
    <3>4. CASE i \in 1..n
      <4>1. contexts'[th][i] = contexts[th][i] /\ i # 0
        BY <1>2, <3>4
      <4> QED
        BY <3>1, <3>2, <4>1 DEF Good, TokenAt
    <3> QED
      BY <1>1, <2>1, <3>3, <3>4
  <2>3. CASE j = n + 1
    <3>1. handlers[app] # None
      BY <1>2, <1>8, <2>3 DEF NextAbove, TokenAt
    <3>2. Good(th, i, bound[th])
      BY <1>1, <1>6, <1>8, <2>1, <2>3 DEF UnwindingOf
    <3>3. TokenAt(th, j).old' = bound[th]
      BY <1>2, <2>3, <3>1 DEF TokenAt
    <3>4. CASE i = 0
      BY <1>4, <3>2, <3>3, <3>4 DEF Good, OutsideGood
    <3>5. CASE i \in 1..n
      <4>1. contexts'[th][i] = contexts[th][i] /\ i # 0
        BY <1>2, <3>5
      <4> QED
        BY <3>2, <3>3, <4>1 DEF Good, TokenAt
    <3> QED
      BY <1>1, <2>1, <3>4, <3>5
  <2> QED
    BY <1>1, <2>2, <2>3
<1> QED
  BY <1>1, <1>2, <1>7, <1>8 DEF UnwindingOf

\* What a pop makes of the contexts of a thread.
LEMMA PoppedContexts ==
  ASSUME TypeOK, NEW th \in Thread, PopContext(th),
         NEW n \in Nat, n + 1 = Len(contexts[th])
  PROVE  /\ Len(contexts'[th]) = n
         /\ \A i \in 1..n : contexts'[th][i] = contexts[th][i]
         /\ bound'[th] = IF TokenAt(th, n + 1) = None THEN bound[th]
                         ELSE TokenAt(th, n + 1).old
<1>1. contexts'[th] = SubSeq(contexts[th], 1, n)
  BY ContextsAreSeqs DEF PopContext, TypeOK
<1>2. \A i \in 1..n : contexts[th][i] \in Context
  BY ContextsAreSeqs
<1>3. /\ Len(contexts'[th]) = n
      /\ \A i \in 1..n : contexts'[th][i] = contexts[th][i]
  BY <1>1, <1>2, SubSeqProperties
<1>4. Top(th) = contexts[th][n + 1]
  BY DEF Top
<1> QED
  BY <1>3, <1>4 DEF PopContext, ResetTo, TokenAt, TypeOK

LEMMA PopUnwinding ==
  ASSUME TypeOK, NEW th \in Thread, UnwindingOf(th), PopContext(th)
  PROVE  UnwindingOf(th)'
<1>1. PICK n \in Nat : n + 1 = Len(contexts[th])
  <2>1. Len(contexts[th]) \in Nat /\ Len(contexts[th]) > 0
    BY ContextsAreSeqs DEF PopContext
  <2>2. Len(contexts[th]) - 1 \in Nat /\ (Len(contexts[th]) - 1) + 1 = Len(contexts[th])
    BY <2>1
  <2> QED
    BY <2>2
<1>2. /\ Len(contexts'[th]) = n
      /\ \A i \in 1..n : contexts'[th][i] = contexts[th][i]
      /\ bound'[th] = IF TokenAt(th, n + 1) = None THEN bound[th]
                      ELSE TokenAt(th, n + 1).old
  BY <1>1, PoppedContexts
<1>3. token' = token /\ keys' = keys
  BY DEF PopContext
<1>4. \A i \in 0..n, j \in 1..n : NextAbove(th, i, j)' => NextAbove(th, i, j)
  BY <1>1, <1>2 DEF NextAbove, TokenAt
<1>5. \A i \in 0..n : NoneAbove(th, i)' =>
        IF TokenAt(th, n + 1) = None THEN NoneAbove(th, i) ELSE NextAbove(th, i, n + 1)
  BY <1>1, <1>2 DEF NextAbove, NoneAbove, TokenAt
<1>6. ASSUME NEW i \in 0..n, NoneAbove(th, i)'
      PROVE  Good(th, i, bound[th])'
  <2>1. CASE TokenAt(th, n + 1) = None
    <3>1. Good(th, i, bound[th])
      BY <1>1, <1>5, <1>6, <2>1 DEF UnwindingOf
    <3> QED
      BY <1>1, <1>2, <1>3, <2>1, <3>1 DEF Good, OutsideGood, TokenAt
  <2>2. CASE TokenAt(th, n + 1) # None
    <3>1. Good(th, i, TokenAt(th, n + 1).old)
      BY <1>1, <1>5, <1>6, <2>2 DEF UnwindingOf
    <3> QED
      BY <1>1, <1>2, <1>3, <2>2, <3>1 DEF Good, OutsideGood, TokenAt
  <2> QED
    BY <2>1, <2>2
<1>7. ASSUME NEW i \in 0..n, NEW j \in 1..n, NextAbove(th, i, j)'
      PROVE  Good(th, i, TokenAt(th, j).old)'
  <2>1. Good(th, i, TokenAt(th, j).old)
    BY <1>1, <1>4, <1>7 DEF UnwindingOf
  <2> QED
    BY <1>1, <1>2, <1>3, <2>1 DEF Good, OutsideGood, TokenAt
<1> QED
  BY <1>1, <1>2, <1>6, <1>7 DEF UnwindingOf

------------------------------------------------------------------------------
\* init_app, outside of contexts

\* A thread without contexts needs nothing but a good binding.
LEMMA UnwindingOutside ==
  ASSUME NEW th \in Thread, contexts'[th] = <<>>, OutsideGood(th, bound[th])'
  PROVE  UnwindingOf(th)'
<1>1. Len(contexts'[th]) = 0
  BY EmptySeq
<1> QED
  BY <1>1 DEF UnwindingOf, Good, OutsideGood

LEMMA OutsideOf ==
  ASSUME TypeOK, NEW th \in Thread, UnwindingOf(th), ~Pushed(th)
  PROVE  OutsideGood(th, bound[th])
<1>1. Len(contexts[th]) = 0
  BY ContextsAreSeqs
<1> QED
  BY <1>1 DEF UnwindingOf, NoneAbove, Good

\* What init_app leaves in its thread, and does not change in the others.
LEMMA InitUnwinding ==
  ASSUME InitDepth = 0, Inv, NEW th \in Thread, NEW app \in App, InitApp(th, app)
  PROVE  Unwinding' /\ DefaultInv'
<1>1. contexts[th] = <<>> /\ contexts' = contexts /\ ~Pushed(th)
  <2>1. Len(contexts[th]) = 0
    BY ContextsAreSeqs DEF InitApp, Inv
  <2> QED
    BY <2>1, ContextsAreSeqs DEF InitApp, Inv, Pushed
<1>2. OutsideGood(th, bound[th])
  BY <1>1, OutsideOf DEF Inv, Unwinding
<1> DEFINE old == IF token = None THEN bound[th] ELSE token.old
           engine == NewDefault(app)
<1>3. old = None
  BY <1>2 DEF OutsideGood, Inv, DefaultInv
<1>4. token # None => token.thread = th
  BY DEF InitApp, BindDefault, CanReset
<1>5. /\ token' = IF engine = None THEN None ELSE [thread |-> th, old |-> None]
      /\ bound'[th] = IF engine = None THEN None ELSE engine
      /\ \A t \in Thread \ {th} : bound'[t] = bound[t]
  BY <1>3 DEF InitApp, BindDefault, Configure, Inv, TypeOK
<1>6. engine # None => engine.app = app /\ keys' = {app}
  BY DEF InitApp, SetState, NewDefault, NewEngine
<1>7. default' = engine /\ keys' = keys \cup {app}
  BY DEF InitApp, SetState
<1>8. [thread |-> th, old |-> None] # None
  BY TokenIsNotNone DEF TokenOf
<1> HIDE DEF engine
<1>9. OutsideGood(th, bound[th])'
  BY <1>5, <1>6, <1>8 DEF OutsideGood
<1>10. \A t \in Thread \ {th} : \A e : OutsideGood(t, e) => OutsideGood(t, e)'
  BY <1>4, <1>5 DEF OutsideGood
<1>11. \A t \in Thread : UnwindingOf(t)'
  BY <1>1, <1>5, <1>9, <1>10, UnwindingOutside, UnwindingUntouched DEF Inv, Unwinding
<1>12. DefaultInv'
  BY <1>5, <1>6, <1>7 DEF DefaultInv
<1> QED
  BY <1>11, <1>12 DEF Unwinding

LEMMA RaiseUnwinding ==
  ASSUME Inv, NEW th \in Thread, NEW app \in App, InitAppRaises(th, app)
  PROVE  Unwinding' /\ DefaultInv'
<1>1. \A t \in Thread : \A e : OutsideGood(t, e) => OutsideGood(t, e)'
  BY DEF InitAppRaises, SetState, OutsideGood
<1>2. \A t \in Thread : UnwindingOf(t)'
  BY <1>1, UnwindingUntouched DEF InitAppRaises, Inv, Unwinding
<1>3. DefaultInv'
  BY DEF InitAppRaises, SetState, NewDefault, NewEngine, Inv, DefaultInv
<1> QED
  BY <1>2, <1>3 DEF Unwinding

LEMMA InvKept ==
  ASSUME InitDepth = 0, Inv, [Next]_vars
  PROVE  Inv'
<1>1. ASSUME NEW th \in Thread, NEW app \in App, PushContext(th, app)
      PROVE  Unwinding' /\ DefaultInv'
  <2>1. UnwindingOf(th)'
    BY <1>1, PushUnwinding DEF Inv, Unwinding
  <2>2. \A t \in Thread \ {th} :
          /\ contexts'[t] = contexts[t] /\ bound'[t] = bound[t]
          /\ \A e : OutsideGood(t, e) => OutsideGood(t, e)'
    BY <1>1 DEF PushContext, Configure, OutsideGood, Inv, TypeOK
  <2> QED
    BY <1>1, <2>1, <2>2, UnwindingUntouched DEF Inv, Unwinding, DefaultInv, PushContext
<1>2. ASSUME NEW th \in Thread, PopContext(th)
      PROVE  Unwinding' /\ DefaultInv'
  <2>1. UnwindingOf(th)'
    BY <1>2, PopUnwinding DEF Inv, Unwinding
  <2>2. \A t \in Thread \ {th} :
          /\ contexts'[t] = contexts[t] /\ bound'[t] = bound[t]
          /\ \A e : OutsideGood(t, e) => OutsideGood(t, e)'
    BY <1>2 DEF PopContext, ResetTo, OutsideGood, Inv, TypeOK
  <2> QED
    BY <1>2, <2>1, <2>2, UnwindingUntouched DEF Inv, Unwinding, DefaultInv, PopContext
<1>3. ASSUME UNCHANGED vars
      PROVE  Unwinding' /\ DefaultInv'
  BY <1>3 DEF vars, Inv, Unwinding, UnwindingOf, DefaultInv, Good, OutsideGood,
              NoneAbove, NextAbove, TokenAt
<1>4. Unwinding' /\ DefaultInv'
  BY <1>1, <1>2, <1>3, InitUnwinding, RaiseUnwinding DEF Next
<1> QED
  BY <1>4, TypesKept DEF Inv

LEMMA InvHolds ==
  ASSUME InitDepth = 0
  PROVE  Spec => []Inv
<1>1. Inv /\ [Next]_vars => Inv'
  BY InvKept
<1> QED
  BY <1>1, InitInv, PTL DEF Spec

\* When apps are initialised outside of contexts, mixins resolve in every
\* context the engine of its app.
THEOREM CurrentAppResolved ==
  ASSUME InitDepth = 0
  PROVE  Spec => []MixinsResolveCurrentApp
<1>1. Inv => MixinsResolveCurrentApp
  <2> SUFFICES ASSUME Inv, NEW th \in Thread, Pushed(th), Top(th).token # None
               PROVE  Configured(th) /\ bound[th].app = Top(th).app
    BY DEF MixinsResolveCurrentApp
  <2>1. PICK n \in Nat : n = Len(contexts[th]) /\ n > 0
    BY ContextsAreSeqs DEF Inv
  <2>2. NoneAbove(th, n)
    BY <2>1 DEF NoneAbove
  <2> QED
    BY <2>1, <2>2 DEF Inv, Unwinding, UnwindingOf, Good, TokenAt, Top, Configured
<1> QED
  BY <1>1, InvHolds, PTL

\* When apps are initialised outside of contexts, no context and no former
\* default leaves an engine behind in a thread.
THEOREM NothingLeftBound ==
  ASSUME InitDepth = 0
  PROVE  Spec => []OutsideOnlyDefault
<1>1. Inv => OutsideOnlyDefault
  BY OutsideOf DEF Inv, Unwinding, DefaultInv, OutsideGood, OutsideOnlyDefault, Configured
<1> QED
  BY <1>1, InvHolds, PTL

==============================================================================
