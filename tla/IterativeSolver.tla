-------------------------- MODULE IterativeSolver --------------------------
(***************************************************************************)
(* What the solvers of algorithms/ promise to their caller, whichever way  *)
(* their kernels are dispatched: the solution is improved one iteration at *)
(* a time while its residual is above the tolerance and less than          *)
(* max_iters iterations were made; the caller is told how many were made   *)
(* and the residual of the solution that it gets, not of an earlier one.   *)
(* Several calls may follow one another.                                   *)
(*                                                                         *)
(* CGSolver (linear systems) and NewtonSolver (a non-linear one) implement *)
(* this specification.                                                     *)
(***************************************************************************)
EXTENDS Integers

CONSTANT Requests  \* a request: [max_iters, first], where `first` is the first
                   \* iterate whose residual is not above the tolerance

VARIABLES
  call,     \* the number of calls made so far
  request,  \* what the last one asked for
  iterate,  \* what the solution holds: the iterate of that number
  reported, \* number of iterations told to the caller, -1 while solving
  residual  \* the iterate whose residual was told, -1 while solving

solverVars == <<call, request, iterate, reported, residual>>

Init == call = 0 /\ request \in Requests /\ iterate = 0 /\ reported = 0 /\ residual = 0

Above == iterate < request.first

\* The next call begins, with whatever guess is in the solution.
Begin ==
  /\ reported # -1
  /\ call' = call + 1
  /\ request' \in Requests
  /\ iterate' = 0
  /\ reported' = -1 /\ residual' = -1

Iterate ==
  /\ reported = -1
  /\ Above /\ iterate < request.max_iters
  /\ iterate' = iterate + 1
  /\ UNCHANGED <<call, request, reported, residual>>

Return ==
  /\ reported = -1
  /\ Above => iterate >= request.max_iters
  /\ reported' = iterate /\ residual' = iterate
  /\ UNCHANGED <<call, request, iterate>>

Next == Begin \/ Iterate \/ Return

Spec == Init /\ [][Next]_solverVars

=============================================================================
