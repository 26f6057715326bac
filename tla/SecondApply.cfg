\* The preconditioner is updated between two calls of PCGGraph.
SPECIFICATION Spec
CONSTANTS
  Sessions <- SweepsChanged
  Solutions = {"x", "y"}
  Inverses <- InverseViews
INVARIANT
  SweepsFollowUpdates
