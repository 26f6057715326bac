---------------------------- MODULE HeatTransfer ----------------------------
(***************************************************************************)
(* The problem of apps/heat that the Newton solver works on: the views it  *)
(* owns, the kernels that set them up, and the assembly of the matrix and  *)
(* of the right-hand side at the current solution, on three execution      *)
(* space instances of a pool or in a graph.                                *)
(*                                                                         *)
(* Numbers are left out.  A buffer holds a Value that says which quantity  *)
(* it is, and of which version of the solution: version n is the guess     *)
(* after n corrections.  Whatever is made of other operands than the       *)
(* algorithm wants is Garbage.                                             *)
(***************************************************************************)
EXTENDS Kernels

\* The stacked matrices and right-hand sides of the elements are one buffer, as
\* Fill writes both and Scatter reads both.
ProblemBuffer == {"structure", "mat", "rhs", "sol", "stacked"}

\* Quantity `what` at version `of` of the solution, after `made` iterations of
\* the linear solver.
Made(what, of, made) == [what |-> what, of |-> of, made |-> made]
Value(what, of) == Made(what, of, 0)

Unset == Value("unset", 0)
Garbage == Value("garbage", 0)
Zero == Value("zero", 0)

-----------------------------------------------------------------------------
(***************************************************************************)
(* Kernels.                                                                *)
(***************************************************************************)

\* Nothing is waited for at the end of init(): row map, entries, initial guess.
InitWork ==
  InOrder("A", <<Kernel("structure", <<>>, <<>>, <<"structure">>, {}),
                 Kernel("guess", <<>>, <<>>, <<"sol">>, {})>>)

\* A view is set to zero: deep_copy of a scalar, also as a node of the graph.
Reset(b) == Kernel("zero", <<>>, <<>>, <<b>>, {})

Fill == Kernel("fill", <<>>, <<"sol">>, <<"stacked">>, {})

\* Adds to what is in the matrix and the right-hand side.
Scatter == Kernel("scatter", <<>>, <<"stacked", "mat", "rhs">>, <<"mat", "rhs">>, {})

\* Contributions are those of the current solution; the sum is the system if it
\* started from zero.
Scattered(v) ==
  IF v[1].what = "stacked" /\ v[2] = Zero /\ v[3] = Zero
    THEN <<Value("mat", v[1].of), Value("rhs", v[1].of)>>
    ELSE <<Garbage, Garbage>>

\* What the kernels of the problem make of the operands v.
ProblemResults(op, v) ==
  CASE op = "structure" -> <<Value("structure", 0)>>
    [] op = "guess" -> <<Value("sol", 0)>>
    [] op = "zero" -> <<Zero>>
    [] op = "fill" -> <<IF v[1].what = "sol" THEN Value("stacked", v[1].of) ELSE Garbage>>
    [] op = "scatter" -> Scattered(v)

-----------------------------------------------------------------------------
(***************************************************************************)
(* assemble().  `ahead` are kernels that were enqueued on the first        *)
(* instance just before the call, `behind` those enqueued just after it.   *)
(***************************************************************************)

\* Without a graph: the resets do not wait for anything, and the host waits for
\* them before it enqueues the scatter.
FillAndReset(ahead) ==
  Then(Then(InOrder("A", ahead \o <<Fill>>), "B", {}, <<Reset("rhs")>>),
       "C", {}, <<Reset("mat")>>)

\* Mutant of WhenAll: the reset of the matrix is not joined.
WhenTwo(fill, rhs_reset, mat_reset) == {fill, rhs_reset}

WhenAll(fill, rhs_reset, mat_reset) == {fill, rhs_reset, mat_reset}

\* The graph: three nodes below the root, joined by the scatter.
AssemblyGraph(ahead, behind) ==
  LET n == Len(ahead)
      root == {n} \ {0}
      fill == Then(InOrder("A", ahead), "A", root, <<Fill>>)
      rhs_reset == Then(fill, "A", root, <<Reset("rhs")>>)
      mat_reset == Then(rhs_reset, "A", root, <<Reset("mat")>>)
  IN Then(mat_reset, "A", WhenAll(n + 1, n + 2, n + 3), <<Scatter>> \o behind)

=============================================================================
