---------------------------- MODULE MCCGSolver ----------------------------
(***************************************************************************)
(* Instances of CGSolver for TLC: two calls of each solver.                *)
(***************************************************************************)
EXTENDS CGSolver

SolverCall(sol, num_sweeps, max_iters, first, tie) ==
  [sol |-> sol, num_sweeps |-> num_sweeps, max_iters |-> max_iters, first |-> first, tie |-> tie,
   keeps |-> FALSE, invert |-> FALSE]

Session(in_graph, prec, gpu, calls) == [graph |-> in_graph, prec |-> prec, gpu |-> gpu, calls |-> calls]

InverseViews == <<"inverse 1", "inverse 2">>

\* A residual that equals the tolerance makes a difference for the guess only.
\* First calls: 0 to 2 iterations wanted, or more than allowed; 0, 1 or 3 allowed; 0 to 4 sweeps.
FirstCalls(sweeps) ==
  {c \in {SolverCall("x", n, m, f, tie) :
            n \in sweeps, m \in {0, 1, 3}, f \in {0, 1, 2, 4}, tie \in BOOLEAN} : c.tie => c.first = 0}

\* Second calls, from another guess.
SecondCalls(sols, sweeps) ==
  {SolverCall(x, n, 2, f, FALSE) : x \in sols, n \in sweeps, f \in 0 .. 2}

Pairs(first, second) == {<<a, b>> : a \in first, b \in second}

\* What a graph does not support: no iteration when one is not needed or allowed.
Iterates(c) == c.max_iters > 0 /\ ~c.tie

QueueSessions ==
  {Session(FALSE, "none", TRUE, calls) :
     calls \in Pairs(FirstCalls({1}), SecondCalls({"x", "y"}, {1}))}
  \cup
  {Session(FALSE, "jacobi", TRUE, calls) :
     calls \in Pairs(FirstCalls(0 .. 3), SecondCalls({"x"}, {3}) \cup SecondCalls({"y"}, {4}))}

\* CGGraph builds its graph in each call; PCGGraph keeps it.
GraphSessions ==
  {Session(TRUE, "none", TRUE, calls) :
     calls \in Pairs({c \in FirstCalls({1}) : Iterates(c)}, SecondCalls({"x", "y"}, {1}))}
  \cup
  {s \in {Session(TRUE, "jacobi", gpu, calls) :
            gpu \in BOOLEAN, calls \in Pairs({c \in FirstCalls(0 .. 4) : Iterates(c)},
                                             SecondCalls({"x"}, 0 .. 4))} :
     s.calls[1].num_sweeps = s.calls[2].num_sweeps}

\* The other preconditioners.  A new matrix needs a new inverse of its diagonal, which
\* PCGGraph does not see once it has built its graph.
OtherFirst == {c \in FirstCalls({1}) : c.max_iters # 1}
OtherCalls(in_graph) ==
  IF in_graph THEN Pairs({c \in OtherFirst : Iterates(c)}, SecondCalls({"x"}, {1}))
              ELSE Pairs(OtherFirst, SecondCalls({"y"}, {1}))

Inverted(c) == [c EXCEPT !.invert = TRUE]
Kept(c) == [c EXCEPT !.keeps = TRUE]

OtherSessions ==
  UNION {LET calls == OtherCalls(in_graph)
         IN {Session(in_graph, "identity", TRUE, c) : c \in calls}
            \cup {Session(in_graph, "diagonal", TRUE, <<Inverted(c[1]), Kept(c[2])>>) : c \in calls} :
           in_graph \in BOOLEAN}
  \cup {Session(FALSE, "diagonal", TRUE, <<Inverted(c[1]), Inverted(c[2])>>) : c \in OtherCalls(FALSE)}

\* The number of sweeps is changed between two calls.
SweepsChanged ==
  {Session(in_graph, "jacobi", TRUE, <<SolverCall("x", 1, 2, 2, FALSE), SolverCall("x", 2, 2, 2, FALSE)>>) :
     in_graph \in BOOLEAN}

Supported == QueueSessions \cup GraphSessions \cup OtherSessions
===========================================================================
