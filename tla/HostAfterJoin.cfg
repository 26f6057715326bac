\* A join is followed by a stage on the host, and later by one on an instance.
SPECIFICATION Spec
CONSTANTS
  A = A
  B = B
  Host = Host
  Execs = {A, B}
  MaxAdaptors = 4
  MaxRounds = 2
  Senders <- HostAfterJoin
PROPERTY
  KeepsPromise
