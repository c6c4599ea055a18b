---------------------------- MODULE EngineBinding -----------------------------
(***************************************************************************)
(* The engine that mixins use: a ContextVar.  Every thread has a context   *)
(* of its own, which starts without an engine; what one thread binds, no   *)
(* other sees.  Setting the variable returns a token with the value it     *)
(* had, and only the thread that set it can give it back.                  *)
(***************************************************************************)

CONSTANTS
  Thread,
  None      \* no engine, no token

VARIABLE bound  \* bound[th]: the engine bound in a thread's context

BindingInit == bound = [th \in Thread |-> None]

\* What reset_authorization needs to restore the binding of a thread.
Token(th) == [thread |-> th, old |-> bound[th]]

\* configure_authorization
Configure(th, engine) == bound' = [bound EXCEPT ![th] = engine]

\* reset_authorization: ContextVar.reset raises in another context.
CanReset(th, token) == token.thread = th
ResetTo(th, token) == bound' = [bound EXCEPT ![th] = token.old]

\* get_authorization_engine raises where nothing is bound.
Configured(th) == bound[th] # None

==============================================================================
