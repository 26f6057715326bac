\* A stage throws before the sender leaves its instance for the host.
SPECIFICATION Spec
CONSTANTS
  A = A
  B = B
  Host = Host
  Execs = {A, B}
  MaxAdaptors = 4
  MaxRounds = 2
  Senders <- ThrowsBeforeHost
INVARIANT
  LaunchedWorkIsSynchronized
