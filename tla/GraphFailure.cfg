\* Senders in which one stage may throw, when connected or when run.
SPECIFICATION Spec
CONSTANTS
  g = g
  h = h
  k = k
  s = s
  t = t
  Host = Host
  NoScheduler = NoScheduler
  Context = {g, h, k}
  Exec = {s, t}
  ExecOf <- MCExecOf
  Node <- MCNode
  MaxOps = 16
  MaxRounds = 3
  MaxAdaptors = 4
  MaxThrows = 1
  Senders <- Faulty
INVARIANTS
  NothingInFlight
  ErrorsAreReported
  SkippedOnlyByFailure
  Careful
PROPERTIES
  Ends
