\* Senders that do not throw, chains repeated three times.
SPECIFICATION Spec
CONSTANTS
  g = g
  h = h
  k = k
  s = s
  t = t
  Host = Host
  NoScheduler = NoScheduler
  Context = {g, h, k}
  Exec = {s, t}
  ExecOf <- MCExecOf
  Node <- MCNode
  MaxOps = 16
  MaxRounds = 3
  MaxAdaptors = 4
  MaxThrows = 0
  Senders <- All
INVARIANTS
  TypeOK
  NothingInFlight
  CompletesOnce
  NeverAborts
PROPERTIES
  KeepsPromise
  GraphBuiltOnce
  Ends
