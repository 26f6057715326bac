\* Two calls of each of the four solvers.
SPECIFICATION Spec
CONSTANTS
  Sessions <- Supported
  Solutions = {"x", "y"}
  Inverses <- InverseViews
INVARIANTS
  SolverTypeOK
  NoConcurrentAccess
  SettledOnReturn
PROPERTIES
  SolvesAsPromised
  ApplyReturns
