----------------------------- MODULE FlaskBinding -----------------------------
(***************************************************************************)
(* One Zanzibar extension object and the Flask apps it is given.  init_app *)
(* stores an engine on the app, binds it in the calling thread while it is *)
(* the only app, and connects handlers that bind it whenever a context of  *)
(* the app is pushed and restore the former binding when it is popped.     *)
(*                                                                         *)
(* An engine is [app, number], number telling the engines of an app that   *)
(* is initialised again from one another.                                  *)
(***************************************************************************)
EXTENDS EngineBinding, Naturals, Sequences

CONSTANTS
  App,
  InitDepth,   \* bound on the contexts pushed where init_app is called
  MaxInits,    \* bound on the calls of init_app
  MaxContexts  \* bound on the contexts pushed in a thread

ASSUME NoneAssumption ==
  /\ None \notin [app : App, number : Nat]
  /\ None \notin [thread : Thread, old : [app : App, number : Nat] \cup {None}]
ASSUME BoundsAssumption == InitDepth \in Nat /\ MaxInits \in Nat /\ MaxContexts \in Nat

VARIABLES
  inits,     \* calls of init_app so far, at most MaxInits
  state,     \* state[app]: the engine in app.extensions
  keys,      \* _app_keys
  default,   \* the engine of _default_state
  token,     \* _default_token
  handlers,  \* handlers[app]: the engine the connected handlers bind
  contexts   \* contexts[th]: the app contexts pushed, with the token on g

vars == <<bound, inits, state, keys, default, token, handlers, contexts>>

Init ==
  /\ BindingInit
  /\ inits = 0
  /\ state = [app \in App |-> None]
  /\ keys = {}
  /\ default = None
  /\ token = None
  /\ handlers = [app \in App |-> None]
  /\ contexts = [th \in Thread |-> <<>>]

Pushed(th) == contexts[th] # <<>>
Top(th) == contexts[th][Len(contexts[th])]

------------------------------------------------------------------------------
NewEngine(app) == [app |-> app, number |-> inits + 1]

\* The app's engine, if no other app has been initialised.
NewDefault(app) == IF keys \cup {app} = {app} THEN NewEngine(app) ELSE None

\* Mutant: the former default is not taken back.
BindDefaultOver(th, engine) ==
  /\ token # None => CanReset(th, token)
  /\ token' = IF engine = None THEN None ELSE Token(th)
  /\ IF engine = None THEN UNCHANGED bound ELSE Configure(th, engine)

\* _bind_default_engine: the former default gives way to the new one, if any.
BindDefault(th, engine) ==
  LET old == IF token = None THEN bound[th] ELSE token.old IN
  /\ token # None => CanReset(th, token)
  /\ token' = IF engine = None THEN None ELSE [thread |-> th, old |-> old]
  /\ Configure(th, IF engine = None THEN old ELSE engine)

\* Mutant: an app is counted when it is bound, and not before.
SetStateUncounted(app) ==
  /\ inits < MaxInits
  /\ inits' = inits + 1
  /\ state' = [state EXCEPT ![app] = NewEngine(app)]
  /\ keys' = IF NewDefault(app) = None THEN keys ELSE keys \cup {app}
  /\ default' = NewDefault(app)

\* What init_app stores before it binds anything.
SetState(app) ==
  /\ inits < MaxInits
  /\ inits' = inits + 1
  /\ state' = [state EXCEPT ![app] = NewEngine(app)]
  /\ keys' = keys \cup {app}
  /\ default' = NewDefault(app)

\* init_app; _install_context_binding replaces the handlers.
InitApp(th, app) ==
  /\ Len(contexts[th]) <= InitDepth
  /\ SetState(app)
  /\ BindDefault(th, NewDefault(app))
  /\ handlers' = [handlers EXCEPT ![app] = NewEngine(app)]
  /\ UNCHANGED contexts

\* The default is bound in another thread: ContextVar.reset raises, which
\* leaves the app with its new state and with the handlers it had.
InitAppRaises(th, app) ==
  /\ Len(contexts[th]) <= InitDepth
  /\ token # None /\ ~CanReset(th, token)
  /\ SetState(app)
  /\ UNCHANGED <<bound, token, handlers, contexts>>

------------------------------------------------------------------------------
\* bind_engine keeps the token on the g of the context.
PushContext(th, app) ==
  /\ Len(contexts[th]) < MaxContexts
  /\ IF handlers[app] = None
     THEN /\ contexts' = [contexts EXCEPT ![th] = Append(@, [app |-> app, token |-> None])]
          /\ UNCHANGED bound
     ELSE /\ contexts' = [contexts EXCEPT ![th] =
                            Append(@, [app |-> app, token |-> Token(th)])]
          /\ Configure(th, handlers[app])
  /\ UNCHANGED <<inits, state, keys, default, token, handlers>>

\* Mutant: the binding is cleared, whatever it was before.
PopContextClears(th) ==
  /\ Pushed(th)
  /\ contexts' = [contexts EXCEPT ![th] = SubSeq(@, 1, Len(@) - 1)]
  /\ IF Top(th).token = None THEN UNCHANGED bound ELSE Configure(th, None)
  /\ UNCHANGED <<inits, state, keys, default, token, handlers>>

\* reset_engine, of a context pushed when the app had handlers.
PopContext(th) ==
  /\ Pushed(th)
  /\ contexts' = [contexts EXCEPT ![th] = SubSeq(@, 1, Len(@) - 1)]
  /\ IF Top(th).token = None THEN UNCHANGED bound
     ELSE ResetTo(th, Top(th).token)
  /\ UNCHANGED <<inits, state, keys, default, token, handlers>>

Next ==
  \E th \in Thread :
    \/ \E app \in App :
         InitApp(th, app) \/ InitAppRaises(th, app) \/ PushContext(th, app)
    \/ PopContext(th)

Spec == Init /\ [][Next]_vars

------------------------------------------------------------------------------
\* Properties

Engine == [app : App, number : 1..MaxInits]
TokenOf == [thread : Thread, old : Engine \cup {None}]
Context == [app : App, token : TokenOf \cup {None}]

\* Every variable has its type: an app has engines of its own only, and the
\* extension counts the apps that have one.
TypeOK ==
  /\ bound \in [Thread -> Engine \cup {None}]
  /\ inits \in 0..MaxInits
  /\ state \in [App -> Engine \cup {None}]
  /\ keys = {app \in App : state[app] # None}
  /\ default \in Engine \cup {None}
  /\ token \in TokenOf \cup {None}
  /\ handlers \in [App -> Engine \cup {None}]
  /\ contexts \in [Thread -> Seq(Context)]
  /\ \A app \in App :
       /\ state[app] # None => state[app].app = app
       /\ handlers[app] # None => handlers[app].app = app

\* In a context of an app that was initialised before the context was pushed,
\* mixins resolve an engine of that app, whatever contexts are nested, what
\* other threads do, and which apps are initialised meanwhile.
MixinsResolveCurrentApp ==
  \A th \in Thread : Pushed(th) /\ Top(th).token # None =>
    Configured(th) /\ bound[th].app = Top(th).app

\* Outside of contexts, mixins resolve the default where it was bound, and
\* nothing anywhere else: no engine is left behind by a context, or by a
\* default that has given way.
OutsideOnlyDefault ==
  \A th \in Thread : ~Pushed(th) =>
    IF token # None /\ token.thread = th
    THEN Configured(th) /\ (default # None => bound[th].app = default.app)
    ELSE ~Configured(th)

==============================================================================
