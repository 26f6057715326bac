\* Two calls of solve() with each way of assembling and solving.
SPECIFICATION Spec
CONSTANTS
  Sessions <- TwoCalls
  Delta <- Deltas
  MaxInner = 2
INVARIANTS
  NewtonTypeOK
  NoConcurrentAccess
  SingleExit
PROPERTIES
  SolvesAsPromised
  SolveReturns
