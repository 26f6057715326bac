--------------------------- MODULE MCNewtonSolver ---------------------------
(***************************************************************************)
(* Instances of NewtonSolver for TLC: two calls of solve() on one problem. *)
(***************************************************************************)
EXTENDS NewtonSolver

Deltas == <<"delta 1", "delta 2">>

Asked(max_iters, first) == [max_iters |-> max_iters, first |-> first]

\* The second call allows more iterations, or wants a better solution, or neither.
Calls ==
  {<<Asked(m, f), Asked(n, f + more)>> :
     m \in {0, 1, 3}, f \in {0, 1, 2, 4}, n \in 0 .. 2, more \in {0, 1}}

\* PCGGraph keeps improving the vector of the call in which it was built, so with
\* a graph the linear solver is called in one call of solve() only.
SolvesOnce(calls) ==
  LET version == Min({calls[1].max_iters, calls[1].first})
  IN version = 0 \/ calls[2].max_iters = 0 \/ calls[2].first <= version

TwoCalls ==
  {[graph |-> FALSE, calls |-> c] : c \in Calls}
  \cup {[graph |-> TRUE, calls |-> c] : c \in {d \in Calls : SolvesOnce(d)}}

=============================================================================
