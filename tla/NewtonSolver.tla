---------------------------- MODULE NewtonSolver ----------------------------
(***************************************************************************)
(* The Newton solver of algorithms/newton on the problem of apps/heat:     *)
(* the host thread in solve(), and the kernels that it, the assembly and   *)
(* the linear solver enqueue on the execution space instances A, B and C   *)
(* of a pool.                                                              *)
(*                                                                         *)
(* The linear solver (PCGQueue or PCGGraph, see CGSolver) is reduced to    *)
(* what it does to the memory of the Newton solver, by what CGSolver       *)
(* promises: it reads the system, improves `delta` an iteration at a time, *)
(* and leaves nothing in flight when it returns.  How many iterations it   *)
(* makes is left open.                                                     *)
(***************************************************************************)
EXTENDS HeatTransfer, SequencesExt

CONSTANTS
  Sessions,  \* [graph : BOOLEAN, calls : sequence of the parameters of solve()]:
             \*   [max_iters, first], where version `first` of the solution is the
             \*   first one whose residual is not above the tolerance
  Delta,     \* Delta[c]: the vector of corrections that call c allocates
  MaxInner   \* bound: iterations the linear solver makes, at most

ASSUME NewtonAssumption ==
  /\ Sessions \subseteq [graph : BOOLEAN, calls : Seq([max_iters : Nat, first : Nat])]
  /\ \A s \in Sessions : Len(s.calls) > 0 /\ Len(s.calls) <= Len(Delta)
  /\ Delta \in Seq(Range(Delta)) /\ IsInjective(Delta)
  /\ Range(Delta) \cap (ProblemBuffer \cup {"res", "norm", "none"}) = {}
  /\ MaxInner \in Nat

VARIABLES
  session,
  call,            \* number of the current or last call of solve()
  pc,              \* what the host thread does next
  outer_iter,
  res_nrm2,
  inner,           \* iterations made by the current call of the linear solver
  num_inner_iters,
  captured,        \* the vector that the graph of the linear solver improves
  returned,        \* what solve() returned last
  entered          \* history: the version of the solution when solve() was called

hostVars == <<session, call, pc, outer_iter, res_nrm2, inner, num_inner_iters, captured, returned, entered>>
vars == <<deviceVars, hostVars>>

Request == session.calls[call]
FiniteMax == Value("finite max", 0)

-----------------------------------------------------------------------------
(***************************************************************************)
(* Kernels of the solvers.                                                 *)
(***************************************************************************)

\* The norm of the right-hand side, for which the host waits.
Nrm2 == Kernel("nrm2", <<>>, <<"rhs">>, <<"norm">>, {})

Subtract(delta) == Kernel("subtract", <<>>, <<"sol", delta>>, <<"sol">>, {})

\* The linear solver: the residual of the guess, and one iteration.
LinearResidual(delta) ==
  Kernel("residual", <<>>, <<"structure", "mat", "rhs", delta>>, <<"res">>, {})
LinearIteration(delta) ==
  Kernel("improve", <<>>, <<"structure", "mat", delta, "res">>, <<delta, "res">>, {})

Guess(v) == v.what \in {"zero", "delta"}

\* A residual is one of the assembled system, for whatever guess.
Residual(v) ==
  IF v[1].what = "structure" /\ v[2].what = "mat" /\ v[3] = Value("rhs", v[2].of) /\ Guess(v[4])
    THEN Value("res", v[2].of) ELSE Garbage

\* An iteration improves what the residual belongs to.
Improved(v) ==
  IF v[1].what = "structure" /\ v[4] = Value("res", v[2].of) /\ v[2].what = "mat" /\ Guess(v[3])
    THEN Made("delta", v[2].of, IF v[3].what = "delta" /\ v[3].of = v[2].of THEN v[3].made + 1 ELSE 1)
    ELSE Garbage

\* The next version of the solution, if the correction is one of this version.
Corrected(v) ==
  IF v[1].what = "sol" /\ v[2].what = "delta" /\ v[2].of = v[1].of
    THEN Value("sol", v[1].of + 1) ELSE Garbage

Results(op, v) ==
  CASE op = "nrm2" -> <<IF v[1].what = "rhs" THEN Value("norm", v[1].of) ELSE Garbage>>
    [] op = "subtract" -> <<Corrected(v)>>
    [] op = "residual" -> <<Residual(v)>>
    [] op = "improve" -> <<Improved(v), v[4]>>
    [] OTHER -> ProblemResults(op, v)

-----------------------------------------------------------------------------
(***************************************************************************)
(* The host thread in solve().                                             *)
(***************************************************************************)

\* assemble(), after the kernels `ahead`, and the norm: up to the next fence.
Assemble(ahead) ==
  IF session.graph
    THEN Enqueue(AssemblyGraph(ahead, <<Nrm2>>)) /\ pc' = "norm"
    ELSE Enqueue(FillAndReset(ahead)) /\ pc' = "resets"

\* A caller with a problem, or with the solution of an earlier call: delta is
\* allocated and filled with zeroes, and the system is assembled.
BeginSolve ==
  /\ pc = "idle" /\ call < Len(session.calls)
  /\ call' = call + 1
  /\ outer_iter' = 0 /\ num_inner_iters' = 0 /\ inner' = 0
  /\ res_nrm2' = FiniteMax /\ entered' = mem["sol"].of
  /\ Assemble(<<Reset(Delta[call + 1])>>)
  /\ UNCHANGED <<mem, session, captured, returned>>

\* Mutant of ScatterAfterResets: one fence for both resets.
ScatterAfterOneReset ==
  /\ pc = "resets" /\ Fenced("B")
  /\ Enqueue(InOrder("A", <<Scatter, Nrm2>>))
  /\ pc' = "norm"
  /\ UNCHANGED <<mem, session, call, outer_iter, res_nrm2, inner, num_inner_iters, captured, returned, entered>>

\* The rest of assemble() without a graph.
ScatterAfterResets ==
  /\ pc = "resets" /\ Fenced("B") /\ Fenced("C")
  /\ Enqueue(InOrder("A", <<Scatter, Nrm2>>))
  /\ pc' = "norm"
  /\ UNCHANGED <<mem, session, call, outer_iter, res_nrm2, inner, num_inner_iters, captured, returned, entered>>

FirstNorm ==
  /\ pc = "norm" /\ Fenced("A") /\ res_nrm2 = FiniteMax
  /\ res_nrm2' = mem["norm"] /\ pc' = "loop"
  /\ UNCHANGED <<deviceVars, session, call, outer_iter, inner, num_inner_iters, captured, returned, entered>>

NextNorm ==
  /\ pc = "norm" /\ Fenced("A") /\ res_nrm2 # FiniteMax
  /\ res_nrm2' = mem["norm"] /\ outer_iter' = outer_iter + 1 /\ pc' = "loop"
  /\ UNCHANGED <<deviceVars, session, call, inner, num_inner_iters, captured, returned, entered>>

\* Mutant of Goes: max_iters counts from zero.
GoesOnceMore ==
  res_nrm2.what = "norm" /\ res_nrm2.of < Request.first /\ outer_iter <= Request.max_iters

\* The condition of the loop.
Goes ==
  res_nrm2.what = "norm" /\ res_nrm2.of < Request.first /\ outer_iter < Request.max_iters

\* The linear solver is called with delta as its guess: the vector of zeroes, or
\* the correction of the iteration before.
BeginApply ==
  /\ pc = "loop" /\ Goes
  /\ Enqueue(InOrder("A", <<LinearResidual(Delta[call])>>))
  /\ inner' = 0 /\ pc' = "guess"
  /\ UNCHANGED <<mem, session, call, outer_iter, res_nrm2, num_inner_iters, captured, returned, entered>>

\* Mutant of ApplyReturnsGuess: solve() goes on when the linear solver made no
\* iteration, and counts none.
GuessUncounted ==
  /\ pc = "guess" /\ Fenced("A")
  /\ mem["res"].what = "res"
  /\ mem' = [mem EXCEPT ![Delta[call]] = Made("delta", mem["res"].of, 0)]
  /\ pc' = "loop"
  /\ UNCHANGED <<pending, issued, session, call, outer_iter, res_nrm2, inner, num_inner_iters,
                 captured, returned, entered>>

\* The guess is good enough: it is a correction of the current solution.
ApplyReturnsGuess ==
  /\ pc = "guess" /\ Fenced("A")
  /\ mem["res"].what = "res"
  /\ mem' = [mem EXCEPT ![Delta[call]] = Made("delta", mem["res"].of, 0)]
  /\ pc' = "correct"
  /\ UNCHANGED <<pending, issued, session, call, outer_iter, res_nrm2, inner, num_inner_iters,
                 captured, returned, entered>>

\* PCGGraph improves the vector it was first built for.
Target == IF session.graph /\ captured # "none" THEN captured ELSE Delta[call]

ApplyIterates ==
  /\ pc \in {"guess", "iterate"} /\ Fenced("A")
  /\ inner < MaxInner
  /\ captured' = IF session.graph THEN Target ELSE captured
  /\ Enqueue(InOrder("A", <<LinearIteration(Target)>>))
  /\ inner' = inner + 1 /\ pc' = "iterate"
  /\ UNCHANGED <<mem, session, call, outer_iter, res_nrm2, num_inner_iters, returned, entered>>

\* Mutant of ApplyReturns: the last iteration may be in flight.
ApplyReturnsEarly ==
  /\ pc = "iterate"
  /\ num_inner_iters' = num_inner_iters + inner /\ pc' = "correct"
  /\ UNCHANGED <<deviceVars, session, call, outer_iter, res_nrm2, inner, captured, returned, entered>>

ApplyReturns ==
  /\ pc = "iterate" /\ Fenced("A")
  /\ num_inner_iters' = num_inner_iters + inner /\ pc' = "correct"
  /\ UNCHANGED <<deviceVars, session, call, outer_iter, res_nrm2, inner, captured, returned, entered>>

\* The solution is corrected, and the system assembled at the new solution.
Correct ==
  /\ pc = "correct"
  /\ Assemble(<<Subtract(Delta[call])>>)
  /\ UNCHANGED <<mem, session, call, outer_iter, res_nrm2, inner, num_inner_iters, captured, returned, entered>>

ReturnSolution ==
  /\ pc = "loop" /\ ~Goes
  /\ returned' = [res |-> res_nrm2, iters |-> outer_iter]
  /\ pc' = "idle"
  /\ UNCHANGED <<deviceVars, session, call, outer_iter, res_nrm2, inner, num_inner_iters, captured,
                 entered>>

-----------------------------------------------------------------------------

RunOne ==
  /\ \E t \in pending : RunKernel(t, Results(t.kernel.op, Operands(t)))
  /\ UNCHANGED hostVars

\* All calls were made.
Terminated == pc = "idle" /\ call = Len(session.calls) /\ pending = {} /\ UNCHANGED vars

Buffer == ProblemBuffer \cup {"res", "norm"} \cup Range(Delta)

\* The problem has just been constructed: its kernels are in flight.
Init ==
  /\ session \in Sessions
  /\ mem = [b \in Buffer |-> Unset]
  /\ pending = {[id |-> i, stream |-> InitWork[i].stream, kernel |-> InitWork[i].kernel,
                 after |-> InitWork[i].deps] : i \in DOMAIN InitWork}
  /\ issued = Len(InitWork)
  /\ call = 0 /\ pc = "idle" /\ outer_iter = 0 /\ res_nrm2 = Garbage
  /\ inner = 0 /\ num_inner_iters = 0 /\ captured = "none"
  /\ returned = [res |-> Unset, iters |-> 0] /\ entered = 0

Solve ==
  \/ ScatterAfterResets \/ FirstNorm \/ NextNorm \/ BeginApply \/ ApplyReturnsGuess
  \/ ApplyIterates \/ ApplyReturns \/ Correct \/ ReturnSolution

Next == BeginSolve \/ Solve \/ RunOne \/ Terminated

\* The host thread runs unless a fence blocks it, and the device makes progress.
Spec == Init /\ [][Next]_vars /\ WF_vars(Solve) /\ WF_vars(RunOne)

-----------------------------------------------------------------------------
(***************************************************************************)
(* Properties.                                                             *)
(***************************************************************************)

Quantities == {"unset", "garbage", "zero", "finite max", "structure", "stacked", "mat", "rhs", "sol",
               "delta", "res", "norm"}
Values == [what : Quantities, of : Nat, made : Nat]

\* The iterations that the current call may make.
Allowed == IF call = 0 THEN 0 ELSE Request.max_iters

\* Type invariant.  A call makes no more iterations than max_iters allows, and counts
\* no more of the linear solver than that many calls of it can make.
NewtonTypeOK ==
  /\ session \in Sessions
  /\ mem \in [Buffer -> Values]
  /\ issued \in Nat
  /\ call \in 0 .. Len(session.calls)
  /\ pc \in {"idle", "resets", "norm", "loop", "guess", "iterate", "correct"}
  /\ outer_iter \in 0 .. Allowed
  /\ res_nrm2 \in Values
  /\ inner \in 0 .. MaxInner
  /\ num_inner_iters \in 0 .. (Allowed * MaxInner)
  /\ captured \in Range(Delta) \cup {"none"}
  /\ returned \in [res : Values, iters : Nat]
  /\ entered \in Nat

\* The resets on the second and third instance wait for nothing on the first one
\* (NonLinear1DHeatTransfer.hpp:230-231): they meet neither the scatter of the
\* assembly before nor a linear solver that still reads the matrix, and the scatter
\* adds to what was reset (:233-236).  The same for the nodes of the graph.
NoConcurrentAccess == NoRace

\* "Ensure that the next scope that uses the pool properly orders if it only uses
\* the first execution space instance of the pool" (pool.hpp:14): outside of
\* assemble() no other instance has work in flight, and none at all has any when
\* solve() has returned, after which callers read the solution.
SingleExit ==
  /\ pc # "resets" => \A t \in pending : t.stream = "A"
  /\ pc = "idle" /\ call > 0 => pending = {}

\* The iterate that the solution holds in the current call, -1 if it is none.
IterateHeld ==
  IF mem["sol"].what \in {"sol", "unset"} THEN mem["sol"].of - entered ELSE -1

Promise == INSTANCE IterativeSolver WITH
  Requests <- [max_iters : Nat, first : Nat],
  request <- LET asked == session.calls[IF call = 0 THEN 1 ELSE call]
             IN [max_iters |-> asked.max_iters,
                 first |-> IF asked.first > entered THEN asked.first - entered ELSE 0],
  iterate <- IterateHeld,
  reported <- IF pc = "idle" THEN returned.iters ELSE -1,
  residual <- IF pc = "idle" THEN returned.res.of - entered ELSE -1

\* Both ways of assembling, with a linear solver that stops anywhere: each correction
\* is one of the system at the current solution, which was summed up once from zero,
\* and is subtracted once; solve() stops in time and returns the residual of the
\* solution that it leaves, also when it is called again (newton/Solver.hpp:42-63).
SolvesAsPromised == Promise!Spec

\* Every fence returns, and so does solve().
SolveReturns == pc # "idle" ~> pc = "idle"

=============================================================================
