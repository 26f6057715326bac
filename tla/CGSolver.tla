------------------------------ MODULE CGSolver ------------------------------
(***************************************************************************)
(* The conjugate gradient solvers of algorithms/cg and algorithms/pcg, as  *)
(* kernels on streams and the host thread that enqueues them:              *)
(*                                                                         *)
(*   CGQueue, PCGQueue   two streams, kernels one by one, fences           *)
(*   CGGraph, PCGGraph   one stream, a graph submitted once per iteration; *)
(*                       PCGGraph keeps its graph from call to call        *)
(*                                                                         *)
(* Numbers are left out.  A buffer holds a Value that says which quantity  *)
(* of the algorithm it is, of which iterate and call; a kernel that finds  *)
(* anything but the operands the algorithm wants leaves Garbage.           *)
(***************************************************************************)
EXTENDS Kernels, Integers, SequencesExt

CONSTANTS
  Sessions,    \* A solver and the calls of apply() it gets, one after the other:
               \*   [graph, gpu : BOOLEAN, prec : the preconditioner, calls : Seq(call)],
               \*   where a call is [sol, num_sweeps, max_iters, first : the first
               \*   residual that is not above the tolerance, tie : is it equal to the
               \*   tolerance, keeps : is the matrix that of the call before, invert :
               \*   does init() of the diagonal preconditioner precede the call]
  Solutions,   \* the solution views that callers pass
  Inverses     \* Inverses[c]: the view that init() allocates before call c

ASSUME SessionsAssumption ==
  Sessions \subseteq
    [graph : BOOLEAN, gpu : BOOLEAN, prec : {"none", "identity", "diagonal", "jacobi"},
     calls : Seq([sol : Solutions, num_sweeps : Nat, max_iters : Nat, first : Nat,
                  tie : BOOLEAN, keeps : BOOLEAN, invert : BOOLEAN])]

VARIABLES
  session,
  call,         \* number of the current or last call
  pc,           \* what the host thread does next
  iter,
  res_nrm2,
  res_dot_old,  \* host copy of the queue variants
  graph,        \* what the graph captured: [sol, num_sweeps, inverse], or NoGraph
  reported      \* number of iterations returned, -1 while solving

hostVars == <<session, call, pc, iter, res_nrm2, res_dot_old, graph, reported>>
vars == <<deviceVars, hostVars>>

Request == session.calls[call]
HasPrec == session.prec # "none"

-----------------------------------------------------------------------------
(***************************************************************************)
(* The algorithm: what its operations make of their operands.              *)
(***************************************************************************)

\* The sweeps that make the preconditioned residual of call c.
Swept(c) == IF session.calls[c].num_sweeps > 1 THEN session.calls[c].num_sweeps ELSE 1

\* The latest of `calls` up to call c, or the first call.
LatestCall(c, calls) ==
  CHOOSE d \in 1 .. c : /\ d = 1 \/ d \in calls
                        /\ \A e \in (d + 1) .. c : e \notin calls

\* The call whose matrix is used in call c.
MatrixOf(c) ==
  IF c = 0 THEN 0 ELSE LatestCall(c, {d \in DOMAIN session.calls : ~session.calls[d].keeps})

\* Quantity `what` of iterate k in call c.
Value(what, c, k) ==
  [what |-> what, call |-> IF what \in {"mat", "inverse"} THEN MatrixOf(c) ELSE c,
   at |-> IF what \in {"mat", "inverse", "rhs"} THEN 0 ELSE k,
   sweeps |-> IF what = "res_p" THEN Swept(c) ELSE 0]

Garbage == [what |-> "garbage", call |-> 0, at |-> 0, sweeps |-> 0]

\* Residual that makes directions, and its product with the residual.
DirRes == IF HasPrec THEN "res_p" ELSE "res"
DirDot == IF HasPrec THEN "res_p_dot" ELSE "res_dot"

Of(what, shift) == [what |-> what, shift |-> shift]
Rule(in, out) == [in |-> in, out |-> out]

\* Operands and results of operation `op`, counted from the iterate of its last
\* operand.
Rules(op) ==
  CASE op = "residual" ->
         {Rule(<<Of("mat", 0), Of("sol", 0), Of("rhs", 0)>>, <<Of("res", 0)>>)}
    [] op = "identity" -> {Rule(<<Of("res", 0)>>, <<Of("res_p", 0)>>)}
    [] op = "scale" -> {Rule(<<Of("inverse", 0), Of("res", 0)>>, <<Of("res_p", 0)>>)}
    [] op = "direction" -> {Rule(<<Of(DirRes, 0)>>, <<Of("dir", 0)>>)}
    [] op = "spmv" -> {Rule(<<Of("mat", 0), Of("dir", 0)>>, <<Of("mat_dir", 0)>>)}
    [] op = "dot" ->
         {Rule(<<Of("dir", 0), Of("mat_dir", 0)>>, <<Of("dir_dot", 0)>>),
          Rule(<<Of("res", 0), Of("res", 0)>>, <<Of("res_dot", 0)>>),
          Rule(<<Of(DirRes, 0), Of("res", 0)>>, <<Of(DirDot, 0)>>)}
    [] op = "alpha" ->
         {Rule(<<Of(DirDot, 0), Of("dir_dot", 0)>>, <<Of("alpha", 0), Of("alpha_neg", 0)>>)}
    [] op = "beta" ->
         {Rule(<<Of(DirDot, -1), Of(DirDot, 0)>>, <<Of("beta", 0), Of(DirDot, 0)>>)}
    [] op = "axpby" ->
         {Rule(<<Of("alpha", 0), Of("dir", 0), Of("sol", 0)>>, <<Of("sol", 1)>>),
          Rule(<<Of("alpha_neg", 0), Of("mat_dir", 0), Of("res", 0)>>, <<Of("res", 1)>>),
          Rule(<<Of("beta", 1), Of(DirRes, 1), Of("dir", 0)>>, <<Of("dir", 1)>>)}

\* The values that operands of a rule have when the last one is `last`.
Wanted(quantities, last) ==
  [i \in DOMAIN quantities |->
     Value(quantities[i].what, last.call, last.at + quantities[i].shift)]

\* A Jacobi sweep over the matrix, the residual and, but for the first one, the
\* result of the sweep before.
Sweep(v) ==
  LET swept(n) == [Value("res_p", v[2].call, v[2].at) EXCEPT !.sweeps = n]
      before == IF Len(v) = 3 THEN v[3].sweeps ELSE 0
  IN IF /\ v[1] = Value("mat", v[2].call, 0) /\ v[2].what = "res"
        /\ Len(v) = 3 => v[3] = swept(before)
       THEN swept(before + 1)
       ELSE Garbage

\* What operation `op` makes of the operands v.
Results(op, v) ==
  LET fitting == {r \in Rules(op) : v = Wanted(r.in, Last(v))}
  IN IF Garbage \in Range(v) THEN <<Garbage, Garbage>>
     ELSE CASE op = "copy" -> v
            [] op = "sweep" -> <<Sweep(v)>>
            [] op = "invert" -> <<[v[1] EXCEPT !.what = "inverse"]>>
            [] OTHER -> IF fitting = {} THEN <<Garbage, Garbage>>
                        ELSE Wanted((CHOOSE r \in fitting : TRUE).out, Last(v))

\* res_nrm2 > params.tolerance, and res_nrm2 < params.tolerance.
Above(nrm2) == nrm2.what = "res_dot" /\ nrm2.at < Request.first
Below(nrm2) == nrm2.what = "res_dot" /\ ~Above(nrm2) /\ (nrm2.at = Request.first => ~Request.tie)

-----------------------------------------------------------------------------
(***************************************************************************)
(* Kernels and graphs.                                                     *)
(***************************************************************************)

\* The views that the solver and its caller hold but for the solution.
Vectors == {"mat", "rhs", "res", "res_p", "jacobi", "dir", "mat_dir", "tmp", "alpha",
            "alpha_neg", "dot_old", "res_dot"}
Buffer == Solutions \cup Range(Inverses) \cup Vectors

\* On a GPU a reduction uses the scratch space of its execution space instance.
ScratchOf(stream) == IF stream = "A" THEN "scratch of A" ELSE "scratch of B"
Scratch(stream) == IF session.gpu THEN {ScratchOf(stream)} ELSE {}

\* The caller does not pass a view of the solver's for the solution, and init()
\* allocates a view of its own.
ASSUME BuffersAssumption ==
  /\ Solutions \cap (Vectors \cup Range(Inverses) \cup {ScratchOf("A"), ScratchOf("B")}) = {}
  /\ Range(Inverses) \cap (Vectors \cup {ScratchOf("A"), ScratchOf("B")}) = {}
  /\ \A s \in Sessions : DOMAIN s.calls \subseteq DOMAIN Inverses

Copy(from, to) == Kernel("copy", <<>>, <<from>>, <<to>>, {})
Direction(from) == Kernel("direction", <<>>, <<from>>, <<"dir">>, {})
Spmv == Kernel("spmv", <<>>, <<"mat", "dir">>, <<"mat_dir">>, {})
Dot(stream, result, x, y) == Kernel("dot", <<>>, <<x, y>>, <<result>>, Scratch(stream))

\* y := scalar * x + y, or y := x + scalar * y: the scalar is in a buffer or was
\* captured by value.
Axpby(scalar, x, y) == Kernel("axpby", <<>>, <<scalar, x, y>>, <<y>>, {})
AxpbyBy(value, x, y) == Kernel("axpby", <<value>>, <<x, y>>, <<y>>, {})

\* The sweeps after the first one, which is made whatever num_sweeps is.
FurtherSweeps(num_sweeps) == IF num_sweeps > 1 THEN num_sweeps - 1 ELSE 0

\* Mutant of JacobiApply: no copy when the last sweep wrote the other buffer.
JacobiApplyInPlace(num_sweeps) ==
  LET from(i) == IF i % 2 = 1 THEN "res_p" ELSE "jacobi"
      to(i) == IF i % 2 = 1 THEN "jacobi" ELSE "res_p"
  IN <<Kernel("sweep", <<>>, <<"mat", "res">>, <<"res_p">>, {})>>
     \o [i \in 1 .. FurtherSweeps(num_sweeps) |->
           Kernel("sweep", <<>>, <<"mat", "res", from(i)>>, <<to(i)>>, {})]

\* JacobiPreconditioner::apply, on an instance or in a graph.
JacobiApply(num_sweeps) ==
  LET from(i) == IF i % 2 = 1 THEN "res_p" ELSE "jacobi"
      to(i) == IF i % 2 = 1 THEN "jacobi" ELSE "res_p"
  IN <<Kernel("sweep", <<>>, <<"mat", "res">>, <<"res_p">>, {})>>
     \o [i \in 1 .. FurtherSweeps(num_sweeps) |->
           Kernel("sweep", <<>>, <<"mat", "res", from(i)>>, <<to(i)>>, {})]
     \o (IF num_sweeps > 1 /\ num_sweeps % 2 = 0 THEN <<Copy("jacobi", "res_p")>> ELSE <<>>)

\* The view of the diagonal preconditioner in call c.
InverseOf(c) ==
  Inverses[LatestCall(c, {d \in DOMAIN session.calls : session.calls[d].invert})]

\* DiagonalPreconditioner::init.
Invert == Kernel("invert", <<>>, <<"mat">>, <<InverseOf(call')>>, {})

\* The preconditioned residual, by a preconditioner with these parameters.
Precondition(num_sweeps, inverse) ==
  CASE session.prec = "identity" -> <<Kernel("identity", <<>>, <<"res">>, <<"res_p">>, {})>>
    [] session.prec = "diagonal" -> <<Kernel("scale", <<>>, <<inverse, "res">>, <<"res_p">>, {})>>
    [] session.prec = "jacobi" -> JacobiApply(num_sweeps)

\* Residual of the guess, and its dot product in `result`.
PrecomputeResidual(sol) ==
  <<Copy("rhs", "res"),
    Kernel("residual", <<>>, <<"mat", sol, "res">>, <<"res">>, {}),
    Dot("A", "tmp", "res", "res")>>

\* Mutant of Serialized: the two reductions may run at the same time.
NotSerialized(nodes, reduction) == nodes

\* What the second reduction of the graph waits for: on a GPU also for the first.
Serialized(nodes, reduction) ==
  IF session.gpu THEN nodes \cup {reduction} ELSE nodes

\* The nodes up to the updates of the solution (4) and of the residual (5).
GraphUpdates(sol) ==
  LET alpha == Then(<<>>, "A", {},
                    <<Spmv, Dot("A", "tmp", "dir", "mat_dir"),
                      Kernel("alpha", <<>>, <<"dot_old", "tmp">>, <<"alpha", "alpha_neg">>, {})>>)
  IN Then(Then(alpha, "A", {3}, <<Axpby("alpha", "dir", sol)>>),
          "A", {3}, <<Axpby("alpha_neg", "mat_dir", "res")>>)

\* DivideAndSwap: tmp becomes beta, dot_old what was in tmp.
Beta == Kernel("beta", <<>>, <<"dot_old", "tmp">>, <<"tmp", "dot_old">>, {})

CGGraphWork(sol) ==
  LET beta == Then(GraphUpdates(sol), "A", {5}, <<Dot("A", "tmp", "res", "res"), Beta>>)
  IN Then(beta, "A", {4, Len(beta)}, <<Axpby("tmp", "res", "dir")>>)

PCGGraphWork(sol, num_sweeps, inverse) ==
  LET norm == Then(GraphUpdates(sol), "A", {5}, <<Dot("A", "res_dot", "res", "res")>>)
      prec == Then(norm, "A", {5}, Precondition(num_sweeps, inverse))
      beta == Then(prec, "A", Serialized({Len(prec)}, Len(norm)),
                   <<Dot("A", "tmp", "res_p", "res"), Beta>>)
  IN Then(beta, "A", {4, Len(beta)}, <<Axpby("tmp", "res_p", "dir")>>)

-----------------------------------------------------------------------------
(***************************************************************************)
(* The host thread in apply().                                             *)
(***************************************************************************)

NoGraph == [sol |-> "none", num_sweeps |-> 0, inverse |-> "none"]

\* Buffers that outlive a call; CG solvers allocate theirs in every call.
Members ==
  IF HasPrec THEN DOMAIN mem \ (IF session.graph THEN {} ELSE {"tmp"}) ELSE Solutions

Go(next) == pc' = next /\ UNCHANGED <<session, call>>

\* A caller with a guess in `sol`, a matrix and a right-hand side, who may have told
\* the diagonal preconditioner of the matrix; its constructor does so too.
BeginApply ==
  /\ pc = "idle" /\ call < Len(session.calls)
  /\ call' = call + 1 /\ pc' = "guess" /\ iter' = 0 /\ reported' = -1
  /\ LET sol == session.calls[call + 1].sol IN
       /\ mem' = [b \in DOMAIN mem |->
                    CASE b \in {"mat", "rhs"} -> Value(b, call + 1, 0)
                      [] b = sol -> Value("sol", call + 1, 0)
                      [] OTHER -> IF b \in Members THEN mem[b] ELSE Garbage]
       /\ Enqueue(InOrder("A",
            (IF session.calls[call + 1].invert THEN <<Invert>> ELSE <<>>) \o PrecomputeResidual(sol)))
  /\ graph' = IF HasPrec THEN graph ELSE NoGraph
  /\ UNCHANGED <<session, res_nrm2, res_dot_old>>

\* The guess is good enough.
ReturnGuess ==
  /\ pc = "guess" /\ Fenced("A") /\ Below(mem["tmp"])
  /\ res_nrm2' = mem["tmp"] /\ reported' = 0 /\ Go("idle")
  /\ UNCHANGED <<deviceVars, iter, res_dot_old, graph>>

\* CG: the direction is the residual; the dot product is kept on the host, by
\* the graph in a view that the device reads.
StartCG ==
  /\ pc = "guess" /\ Fenced("A") /\ ~Below(mem["tmp"]) /\ ~HasPrec
  /\ res_nrm2' = mem["tmp"] /\ res_dot_old' = mem["tmp"]
  /\ mem' = IF session.graph THEN [mem EXCEPT !["dot_old"] = mem["tmp"]] ELSE mem
  /\ Enqueue(InOrder("A", <<Direction("res")>>))
  /\ Go(IF session.graph THEN "submit" ELSE "loop")
  /\ UNCHANGED <<iter, graph, reported>>

\* PCG: the residual is preconditioned first.  PCGQueue waits for the dot product
\* of both residuals, PCGGraph leaves it on the device.
StartPCG ==
  /\ pc = "guess" /\ Fenced("A") /\ ~Below(mem["tmp"]) /\ HasPrec
  /\ res_nrm2' = mem["tmp"]
  /\ Enqueue(InOrder("A", Precondition(Request.num_sweeps, InverseOf(call))
         \o (IF session.graph
               THEN <<Dot("A", "dot_old", "res_p", "res"), Direction("res_p")>>
               ELSE <<Dot("A", "tmp", "res_p", "res")>>)))
  /\ Go(IF session.graph THEN "submit" ELSE "residuals")
  /\ UNCHANGED <<mem, iter, res_dot_old, graph, reported>>

StartPCGQueue ==
  /\ pc = "residuals" /\ Fenced("A")
  /\ res_dot_old' = mem["tmp"]
  /\ Enqueue(InOrder("A", <<Direction("res_p")>>))
  /\ Go("loop")
  /\ UNCHANGED <<mem, iter, res_nrm2, graph, reported>>

\* Mutant of Goes: one iteration more.
GoesOnceMore == Above(res_nrm2) /\ iter <= Request.max_iters

\* The condition of the loop.
Goes == Above(res_nrm2) /\ iter < Request.max_iters
-----------------------------------------------------------------------------
(***************************************************************************)
(* CGQueue, PCGQueue: one iteration is three or four pieces of work.       *)
(***************************************************************************)

QueueProduct ==
  /\ pc = "loop" /\ ~session.graph /\ Goes
  /\ Enqueue(InOrder("A", <<Spmv, Dot("A", "tmp", "dir", "mat_dir")>>))
  /\ Go("quadratic")
  /\ UNCHANGED <<mem, iter, res_nrm2, res_dot_old, graph, reported>>

\* The solution is updated on one stream, the residual on the other.
QueueUpdate ==
  /\ pc = "quadratic" /\ Fenced("A")
  /\ LET alpha == Results("alpha", <<res_dot_old, mem["tmp"]>>) IN
       Enqueue(Then(InOrder("A", <<AxpbyBy(alpha[1], "dir", Request.sol)>>), "B", {},
                    <<AxpbyBy(alpha[2], "mat_dir", "res"), Dot("B", "tmp", "res", "res")>>))
  /\ Go("norm")
  /\ UNCHANGED <<mem, iter, res_nrm2, res_dot_old, graph, reported>>

\* The direction is updated with beta, which is made of the old and the new dot
\* product.
UpdateDirection ==
  /\ res_dot_old' = mem["tmp"]
  /\ Enqueue(InOrder("A",
        <<AxpbyBy(Results("beta", <<res_dot_old, mem["tmp"]>>)[1], DirRes, "dir")>>))

\* Mutant of QueueConverged: the loop goes on before the residual is noted and the
\* iteration is counted.
QueueConvergedUncounted ==
  /\ pc = "norm" /\ Fenced("B") /\ ~Above(mem["tmp"]) /\ Go("loop")
  /\ UNCHANGED <<deviceVars, iter, res_nrm2, res_dot_old, graph, reported>>

QueueConverged ==
  /\ pc = "norm" /\ Fenced("B") /\ ~Above(mem["tmp"])
  /\ res_nrm2' = mem["tmp"] /\ iter' = iter + 1 /\ Go("loop")
  /\ UNCHANGED <<deviceVars, res_dot_old, graph, reported>>

CGQueueNext ==
  /\ pc = "norm" /\ Fenced("B") /\ Above(mem["tmp"]) /\ ~HasPrec
  /\ res_nrm2' = mem["tmp"] /\ iter' = iter + 1
  /\ UpdateDirection /\ Go("loop")
  /\ UNCHANGED <<mem, graph, reported>>

PCGQueuePrecondition ==
  /\ pc = "norm" /\ Fenced("B") /\ Above(mem["tmp"]) /\ HasPrec
  /\ res_nrm2' = mem["tmp"]
  /\ Enqueue(InOrder("B", Precondition(Request.num_sweeps, InverseOf(call))
                          \o <<Dot("B", "tmp", "res_p", "res")>>))
  /\ Go("next")
  /\ UNCHANGED <<mem, iter, res_dot_old, graph, reported>>

PCGQueueNext ==
  /\ pc = "next" /\ Fenced("B")
  /\ iter' = iter + 1
  /\ UpdateDirection /\ Go("loop")
  /\ UNCHANGED <<mem, res_nrm2, graph, reported>>

\* Mutant of QueueReturn: the last update of the solution may be in flight.
QueueReturnWithoutFence ==
  /\ pc = "loop" /\ ~session.graph /\ ~Goes
  /\ reported' = iter /\ Go("idle")
  /\ UNCHANGED <<deviceVars, iter, res_nrm2, res_dot_old, graph>>

\* The loop has ended and the solution has been fenced.
QueueReturn ==
  /\ pc = "loop" /\ ~session.graph /\ ~Goes /\ Fenced("A")
  /\ reported' = iter /\ Go("idle")
  /\ UNCHANGED <<deviceVars, iter, res_nrm2, res_dot_old, graph>>

-----------------------------------------------------------------------------
(***************************************************************************)
(* CGGraph, PCGGraph: one iteration is one submission.                     *)
(***************************************************************************)

SubmitGraph(built) ==
  /\ Enqueue(IF HasPrec THEN PCGGraphWork(built.sol, built.num_sweeps, built.inverse)
                             ELSE CGGraphWork(built.sol))
  /\ iter' = iter + 1 /\ Go("evaluate")
  /\ UNCHANGED <<mem, res_nrm2, res_dot_old, reported>>

\* The graph is built unless there is one, and submitted before the loop.
SubmitFirst ==
  /\ pc = "submit"
  /\ graph' = IF graph # NoGraph THEN graph
               ELSE [sol |-> Request.sol, num_sweeps |-> Request.num_sweeps, inverse |-> InverseOf(call)]
  /\ SubmitGraph(graph')

SubmitAgain ==
  /\ pc = "loop" /\ session.graph /\ Goes
  /\ SubmitGraph(graph) /\ UNCHANGED graph

EvaluateConvergence ==
  /\ pc = "evaluate" /\ Fenced("A")
  /\ res_nrm2' = mem[IF HasPrec THEN "res_dot" ELSE "dot_old"]
  /\ Go("loop")
  /\ UNCHANGED <<deviceVars, iter, res_dot_old, graph, reported>>

GraphReturn ==
  /\ pc = "loop" /\ session.graph /\ ~Goes
  /\ reported' = iter /\ Go("idle")
  /\ UNCHANGED <<deviceVars, iter, res_nrm2, res_dot_old, graph>>

-----------------------------------------------------------------------------

RunOne ==
  /\ \E t \in pending : RunKernel(t, Results(t.kernel.op, Operands(t)))
  /\ UNCHANGED hostVars

\* All calls were made.
Terminated == pc = "idle" /\ call = Len(session.calls) /\ pending = {} /\ UNCHANGED vars

Init ==
  /\ session \in Sessions
  /\ mem = [b \in Buffer |-> Garbage] /\ pending = {} /\ issued = 0
  /\ call = 0 /\ pc = "idle" /\ iter = 0 /\ reported = 0
  /\ res_nrm2 = Garbage /\ res_dot_old = Garbage /\ graph = NoGraph

\* The host thread, once apply() was called.
Solve ==
  \/ ReturnGuess \/ StartCG \/ StartPCG \/ StartPCGQueue
  \/ QueueProduct \/ QueueUpdate \/ QueueConverged \/ CGQueueNext
  \/ PCGQueuePrecondition \/ PCGQueueNext \/ QueueReturn
  \/ SubmitFirst \/ SubmitAgain \/ EvaluateConvergence \/ GraphReturn

Next == BeginApply \/ Solve \/ RunOne \/ Terminated

\* The host thread runs unless a fence blocks it, and the device makes progress.
\* That one of them does is enough here.  Nobody has to call apply() again.
Spec == Init /\ [][Next]_vars /\ WF_vars(RunOne \/ Solve)

-----------------------------------------------------------------------------
(***************************************************************************)
(* Properties.                                                             *)
(***************************************************************************)

Quantities == {"mat", "inverse", "rhs", "sol", "res", "res_p", "dir", "mat_dir", "res_dot", "res_p_dot",
               "dir_dot", "alpha", "alpha_neg", "beta"}
Values ==
  {Garbage} \cup [what : Quantities, call : DOMAIN session.calls, at : Nat, sweeps : Nat]

\* The iterations a call may make: a graph makes one whatever max_iters is
\* (cg/Graph.hpp:181-191).
Allowed ==
  IF call = 0 THEN 0 ELSE IF session.graph /\ Request.max_iters = 0 THEN 1 ELSE Request.max_iters

\* Type invariant.  The solver never counts more iterations than are allowed, and
\* captures or reads no scalar but quantities of the algorithm.
SolverTypeOK ==
  /\ session \in Sessions
  /\ mem \in [Buffer -> Values]
  /\ \A t \in pending : Range(t.kernel.args) \subseteq Values
  /\ issued \in Nat
  /\ call \in 0 .. Len(session.calls)
  /\ pc \in {"idle", "guess", "residuals", "loop", "quadratic", "norm", "next", "submit",
            "evaluate"}
  /\ iter \in 0 .. Allowed /\ reported \in -1 .. Allowed
  /\ res_nrm2 \in Values /\ res_dot_old \in Values
  /\ graph \in [sol : Solutions \cup {"none"}, num_sweeps : Nat, inverse : Range(Inverses) \cup {"none"}]

\* Kernels that could run at the same time do not touch the same memory unless all
\* of them only read it: on two streams (cg/Queue.hpp:98-107, pcg/Queue.hpp:126-151)
\* and in the graph, where reductions share scratch space on a GPU
\* (pcg/Graph.hpp:146-153).
NoConcurrentAccess == NoRace

\* The preconditioner makes as many sweeps as it was last told to ("Allow the user
\* to interact with the preconditioner, e.g. to update its parameters between 2
\* subsequent calls to apply.", pcg/Graph.hpp:84).
SweepsFollowUpdates ==
  HasPrec /\ pc = "loop" => mem["res_p"].sweeps = Swept(call)

\* When apply() returns nothing is in flight: the caller may read or overwrite the
\* solution and vectors may go out of scope (cg/Helpers.hpp:55-58).
SettledOnReturn == pc = "idle" => pending = {}

\* The iterate that the solution holds in the current call, -1 if it is none.
IterateHeld ==
  LET held == mem[Request.sol]
  IN IF call = 0 THEN 0
     ELSE IF held.what = "sol" /\ held.call = call THEN held.at ELSE -1

\* The iterate of which the returned residual is.
ResidualHeld ==
  IF call = 0 THEN 0
  ELSE IF res_nrm2.what = "res_dot" /\ res_nrm2.call = call THEN res_nrm2.at ELSE -2

Promise == INSTANCE IterativeSolver WITH
  Requests <- [max_iters : Nat, first : Nat],
  request <- LET asked == session.calls[IF call = 0 THEN 1 ELSE call]
             IN [max_iters |-> asked.max_iters, first |-> asked.first],
  iterate <- IterateHeld,
  residual <- IF reported = -1 THEN -1 ELSE ResidualHeld

\* All four solvers make the iterates of the conjugate gradient method one by one,
\* stop at the first one that is good enough or at max_iters, and return with that
\* iterate in the solution, its number and its residual, in every call
\* (cg/Base.hpp:27-34).
SolvesAsPromised == Promise!Spec

\* Every fence of apply() returns and so does apply(): no kernel or node waits for
\* one that comes after it.
ApplyReturns == pc # "idle" ~> pc = "idle"

=============================================================================
