\* Any client of three graph contexts, two of which share a stream.
SPECIFICATION ContextSpec
CONSTANTS
  c1 = c1
  c2 = c2
  c3 = c3
  e1 = e1
  e2 = e2
  n1 = n1
  n2 = n2
  n3 = n3
  Context = {c1, c2, c3}
  Exec = {e1, e2}
  ExecOf <- MCExecOf
  Node = {n1, n2, n3}
INVARIANTS
  ContextTypeOK
  FlagCoversLaunches
  OneLaunchPerContext
  LaunchesRespectDependencies
PROPERTIES
  InstantiatedOnce
  StreamsDrain
