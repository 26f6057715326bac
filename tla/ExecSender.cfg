\* Senders on execution-space instances; stages may throw.
SPECIFICATION Spec
CONSTANTS
  A = A
  B = B
  Host = Host
  Execs = {A, B}
  MaxAdaptors = 4
  MaxRounds = 2
  Senders <- SoundSenders
INVARIANTS
  ExecTypeOK
  LaunchedWorkIsSynchronized
  FailureStopsDownstream
  Careful
PROPERTIES
  KeepsPromise
  Ends
