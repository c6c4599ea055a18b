CONSTANTS
  th1 = th1
  th2 = th2
  app1 = app1
  app2 = app2
  app3 = app3
  None = None
  Thread = {th1, th2}
  App = {app1, app2, app3}
  InitDepth = 0
  MaxInits = 3
  MaxContexts = 3
SPECIFICATION Spec
INVARIANTS
  TypeOK
  MixinsResolveCurrentApp
  OutsideOnlyDefault
