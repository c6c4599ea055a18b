CONSTANTS
  th1 = th1
  th2 = th2
  app1 = app1
  app2 = app2
  app3 = app3
  None = None
  Thread = {th1}
  App = {app1, app2}
  InitDepth = 1
  MaxInits = 2
  MaxContexts = 1
SPECIFICATION Spec
INVARIANTS
  MixinsResolveCurrentApp
