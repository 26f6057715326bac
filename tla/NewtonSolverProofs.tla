------------------------- MODULE NewtonSolverProofs -------------------------
(***************************************************************************)
(* Proofs about NewtonSolver, for any sessions.  PoolInv says for every    *)
(* place where the host thread may be which instances of the pool can be   *)
(* busy there; FlightInv which kernels can be in flight, and how they wait *)
(* for each other, in streams or in the graph; ValueInv what each buffer   *)
(* holds, by what is in flight.  Hence the pool is left as it should be,   *)
(* no two kernels conflict, and solve() keeps the promise of               *)
(* IterativeSolver.  CountInv says how often the linear solver has         *)
(* returned at every place, from which the type invariant follows.         *)
(***************************************************************************)
EXTENDS NewtonSolver, KernelsProofs

\* The instances that may be busy, by what the host thread does next.  Before the
\* first call, those that have set up the problem.
Busy ==
  CASE pc = "resets" -> {"A", "B", "C"}
    [] pc \in {"norm", "guess", "iterate"} -> {"A"}
    [] pc = "idle" /\ call = 0 -> {"A"}
    [] OTHER -> {}

PoolInv == call \in Nat /\ (pc # "idle" => call > 0) /\ InFlightOn(Busy)

-----------------------------------------------------------------------------

\* The assembly, after whatever was enqueued ahead of it, in a graph and without.
LEMMA AssemblyOn ==
  ASSUME NEW a, NEW b
  PROVE  /\ WorkOn(FillAndReset(<<a>>), {"A", "B", "C"})
         /\ WorkOn(AssemblyGraph(<<a>>, <<b>>), {"A"})
<1>1. Sequence(<<a>>) /\ Sequence(<<a>> \o <<Fill>>) /\ Sequence(<<Scatter>> \o <<b>>)
  BY TupleSequences, Concatenation
<1>2. WorkOn(FillAndReset(<<a>>), {"A", "B", "C"})
  <2> DEFINE fill == InOrder("A", <<a>> \o <<Fill>>)
             rhs_reset == Then(fill, "B", {}, <<Reset("rhs")>>)
  <2>1. WorkOn(fill, {"A", "B", "C"})
    BY <1>1, InOrderOn
  <2>2. WorkOn(rhs_reset, {"A", "B", "C"})
    <3> HIDE DEF fill
    <3> QED
      BY <2>1, TupleSequences, ThenOn
  <2>3. FillAndReset(<<a>>) = Then(rhs_reset, "C", {}, <<Reset("mat")>>)
    BY DEF FillAndReset
  <2> HIDE DEF rhs_reset
  <2> QED
    BY <2>2, <2>3, TupleSequences, ThenOn
<1>3. WorkOn(AssemblyGraph(<<a>>, <<b>>), {"A"})
  <2> DEFINE n == Len(<<a>>)
             root == {n} \ {0}
             fill == Then(InOrder("A", <<a>>), "A", root, <<Fill>>)
             rhs_reset == Then(fill, "A", root, <<Reset("rhs")>>)
             mat_reset == Then(rhs_reset, "A", root, <<Reset("mat")>>)
  <2>1. WorkOn(InOrder("A", <<a>>), {"A"})
    BY <1>1, InOrderOn
  <2>2. WorkOn(fill, {"A"})
    BY <2>1, TupleSequences, ThenOn
  <2>3. WorkOn(rhs_reset, {"A"})
    <3> HIDE DEF fill
    <3> QED
      BY <2>2, TupleSequences, ThenOn
  <2>4. WorkOn(mat_reset, {"A"})
    <3> HIDE DEF rhs_reset
    <3> QED
      BY <2>3, TupleSequences, ThenOn
  <2>5. AssemblyGraph(<<a>>, <<b>>)
          = Then(mat_reset, "A", WhenAll(n + 1, n + 2, n + 3), <<Scatter>> \o <<b>>)
    BY DEF AssemblyGraph
  <2> HIDE DEF mat_reset, n
  <2> QED
    BY <1>1, <2>4, <2>5, ThenOn
<1> QED
  BY <1>2, <1>3

\* assemble() begins with no instance busy but the first.
LEMMA AssembleInv ==
  ASSUME NEW a, Assemble(<<a>>), InFlightOn({"A"})
  PROVE  pc' \in {"norm", "resets"} /\ InFlightOn(Busy)'
<1>1. CASE session.graph
  <2>1. Enqueue(AssemblyGraph(<<a>>, <<Nrm2>>)) /\ pc' = "norm"
    BY <1>1 DEF Assemble
  <2>2. InFlightOn({"A"})'
    BY <2>1, AssemblyOn, EnqueuedOn
  <2> QED
    BY <2>1, <2>2 DEF Busy, InFlightOn
<1>2. CASE ~session.graph
  <2>1. Enqueue(FillAndReset(<<a>>)) /\ pc' = "resets"
    BY <1>2 DEF Assemble
  <2>2. InFlightOn({"A", "B", "C"})
    BY DEF InFlightOn
  <2>3. InFlightOn({"A", "B", "C"})'
    BY <2>1, <2>2, AssemblyOn, EnqueuedOn
  <2> QED
    BY <2>1, <2>3 DEF Busy, InFlightOn
<1> QED
  BY <1>1, <1>2

\* One kernel on the first instance.
LEMMA EnqueueOneInv ==
  ASSUME NEW a, Enqueue(InOrder("A", <<a>>)), InFlightOn({}), pc' \in {"guess", "iterate"}
  PROVE  InFlightOn(Busy)'
<1>1. WorkOn(InOrder("A", <<a>>), {"A"}) /\ InFlightOn({"A"})
  BY TupleSequences, InOrderOn DEF InFlightOn
<1>2. InFlightOn({"A"})'
  BY <1>1, EnqueuedOn
<1> QED
  BY <1>2 DEF Busy, InFlightOn

-----------------------------------------------------------------------------
(***************************************************************************)
(* The invariant holds initially and is preserved by every step.           *)
(***************************************************************************)

LEMMA InitPoolInv == Init => PoolInv
<1>1. WorkOn(InitWork, {"A"})
  BY TupleSequences, InOrderOn DEF InitWork
<1>2. \A i \in DOMAIN InitWork : InitWork[i].stream = "A"
  BY <1>1 DEF WorkOn, Range
<1>3. ASSUME Init PROVE \A t \in pending : t.stream = "A"
  <2> HIDE DEF InitWork
  <2> QED
    BY <1>2, <1>3 DEF Init
<1> QED
  BY <1>3 DEF Init, PoolInv, Busy, InFlightOn

LEMMA SolveInv ==
  ASSUME PoolInv, BeginSolve \/ Solve
  PROVE  PoolInv'
<1> USE DEF PoolInv, Busy
<1>1. CASE BeginSolve
  <2>1. InFlightOn({"A"})
    BY <1>1 DEF BeginSolve, InFlightOn
  <2> QED
    BY <1>1, <2>1, AssembleInv DEF BeginSolve
<1>2. CASE ScatterAfterResets
  <2>1. InFlightOn({"A"})
    BY <1>2 DEF ScatterAfterResets, InFlightOn, Fenced
  <2>2. WorkOn(InOrder("A", <<Scatter, Nrm2>>), {"A"})
    BY TupleSequences, InOrderOn
  <2>3. InFlightOn({"A"})'
    BY <1>2, <2>1, <2>2, EnqueuedOn DEF ScatterAfterResets
  <2> QED
    BY <1>2, <2>3 DEF ScatterAfterResets, InFlightOn
<1>3. CASE FirstNorm \/ NextNorm \/ ApplyReturnsGuess \/ ApplyReturns
  <2>1. InFlightOn({})'
    BY <1>3 DEF FirstNorm, NextNorm, ApplyReturnsGuess, ApplyReturns, Fenced, InFlightOn, deviceVars
  <2> QED
    BY <1>3, <2>1 DEF FirstNorm, NextNorm, ApplyReturnsGuess, ApplyReturns, InFlightOn
<1>4. CASE BeginApply
  BY <1>4, EnqueueOneInv DEF BeginApply
<1>5. CASE ApplyIterates
  <2>1. InFlightOn({})
    BY <1>5 DEF ApplyIterates, Fenced, InFlightOn
  <2> QED
    BY <1>5, <2>1, EnqueueOneInv DEF ApplyIterates
<1>6. CASE Correct
  <2>1. InFlightOn({"A"})
    BY <1>6 DEF Correct, InFlightOn
  <2> QED
    BY <1>6, <2>1, AssembleInv DEF Correct
<1>7. CASE ReturnSolution
  BY <1>7 DEF ReturnSolution, InFlightOn, deviceVars
<1> QED
  BY <1>1, <1>2, <1>3, <1>4, <1>5, <1>6, <1>7 DEF Solve

LEMMA NextPoolInv == PoolInv /\ [Next]_vars => PoolInv'
<1> SUFFICES ASSUME PoolInv, [Next]_vars
             PROVE  PoolInv'
  OBVIOUS
<1>1. CASE BeginSolve \/ Solve
  BY <1>1, SolveInv
<1>2. CASE RunOne
  <2>1. Busy' = Busy /\ InFlightOn(Busy)
    BY <1>2 DEF RunOne, hostVars, Busy, PoolInv
  <2>2. InFlightOn(Busy)'
    BY <1>2, <2>1 DEF RunOne, RunKernel, InFlightOn
  <2> QED
    BY <1>2, <2>2 DEF RunOne, hostVars, PoolInv
<1>3. CASE UNCHANGED vars
  BY <1>3 DEF vars, deviceVars, hostVars, PoolInv, Busy, InFlightOn
<1> QED
  BY <1>1, <1>2, <1>3 DEF Next, Terminated

-----------------------------------------------------------------------------

\* Where the host thread is tells which instances of the pool can be busy
\* (newton/Solver.hpp:42-63, NonLinear1DHeatTransfer.hpp:217-243).
THEOREM PoolInvariance == Spec => []PoolInv
<1> QED
  BY InitPoolInv, NextPoolInv, PTL DEF Spec

\* For any sessions solve() leaves the pool as the next user expects it
\* (pool.hpp:11-15).
THEOREM Exit == Spec => []SingleExit
<1>1. PoolInv => SingleExit
  BY DEF PoolInv, Busy, InFlightOn, SingleExit
<1> QED
  BY <1>1, PoolInvariance, PTL

-----------------------------------------------------------------------------
(***************************************************************************)
(* Which kernels are in flight.  Those between two fences are named by     *)
(* what they do: each has its place, and waits for those it needs.         *)
(***************************************************************************)

CallInv ==
  /\ session \in Sessions
  /\ call \in Nat /\ call <= Len(session.calls)
  /\ captured \in Range(Delta) \cup {"none"}

\* The first assembly of a call, which is still without a norm.
First == res_nrm2 = FiniteMax

\* The corrections of the current call, or of the one that is to come.
Vector == Delta[IF call = 0 THEN 1 ELSE call]

\* "ahead" is what the host enqueues just before assemble().
At(p) ==
  CASE p = "structure" -> Kernel("structure", <<>>, <<>>, <<"structure">>, {})
    [] p = "guess" -> Kernel("guess", <<>>, <<>>, <<"sol">>, {})
    [] p = "ahead" -> IF First THEN Reset(Vector) ELSE Subtract(Vector)
    [] p = "fill" -> Fill
    [] p = "rhs" -> Reset("rhs")
    [] p = "mat" -> Reset("mat")
    [] p = "scatter" -> Scatter
    [] p = "nrm2" -> Nrm2
    [] p = "residual" -> LinearResidual(Vector)
    [] p = "improve" -> LinearIteration(Target)

Places == {"structure", "guess", "ahead", "fill", "rhs", "mat", "scatter", "nrm2", "residual", "improve"}

\* What may be in flight, by what the host thread does next.
Due ==
  CASE pc = "resets" -> {"structure", "guess", "ahead", "fill", "rhs", "mat"}
    [] pc = "norm" -> {"structure", "guess", "ahead", "fill", "scatter", "nrm2"}
                      \cup IF session.graph THEN {"rhs", "mat"} ELSE {}
    [] pc = "guess" -> {"residual"}
    [] pc = "iterate" -> {"improve"}
    [] pc = "idle" /\ call = 0 -> {"structure", "guess"}
    [] OTHER -> {}

\* The second one waits for the first one, on its stream or in its graph.
Waits ==
  {<<"structure", "guess">>, <<"guess", "ahead">>, <<"ahead", "fill">>, <<"fill", "scatter">>,
   <<"rhs", "scatter">>, <<"mat", "scatter">>, <<"scatter", "nrm2">>}
  \cup IF session.graph THEN {<<"ahead", "rhs">>, <<"ahead", "mat">>} ELSE {}

InFlight(p) == \E t \in pending : t.kernel = At(p)

\* In flight are some kernels that are due, each once, with the kernels they wait for;
\* and if one of them is, so are those that wait for it.
FlightInv ==
  /\ pc = "resets" => ~session.graph
  /\ \A t \in pending : \E p \in Due : t.kernel = At(p)
  /\ \A t, u \in pending : t.kernel = u.kernel => t = u
  /\ \A w \in Waits : \A t, u \in pending :
       t.kernel = At(w[1]) /\ u.kernel = At(w[2]) => t.id \in u.after
  /\ \A w \in Waits : w[2] \in Due /\ InFlight(w[1]) => InFlight(w[2])
  /\ ~session.graph => \A t \in pending : /\ t.kernel = At("rhs") => t.stream = "B"
                                          /\ t.kernel = At("mat") => t.stream = "C"

-----------------------------------------------------------------------------

\* Vectors of corrections are among Delta and no views of the problem.
LEMMA VectorType ==
  ASSUME CallInv
  PROVE  /\ Vector \in Range(Delta) /\ (call > 0 => Target \in Range(Delta))
         /\ \A d \in Range(Delta) : d \notin ProblemBuffer \cup {"res", "norm", "none"}
         /\ Range(Delta) \subseteq Buffer /\ ProblemBuffer \subseteq Buffer /\ {"res", "norm"} \subseteq Buffer
<1>1. /\ Len(session.calls) <= Len(Delta) /\ Len(session.calls) \in Nat /\ Len(session.calls) > 0
      /\ Len(Delta) \in Nat /\ DOMAIN Delta = 1 .. Len(Delta)
  BY NewtonAssumption, LenProperties DEF CallInv
<1>2. Vector \in Range(Delta)
  BY <1>1 DEF Vector, CallInv, Range
<1>3. call > 0 => Target \in Range(Delta)
  <2>1. call > 0 => Delta[call] \in Range(Delta)
    BY <1>1 DEF CallInv, Range
  <2> QED
    BY <2>1 DEF Target, CallInv
<1> QED
  BY <1>2, <1>3, NewtonAssumption DEF Buffer

\* The operations of the kernels, and what they work on.
LEMMA KernelIs ==
  /\ At("structure").op = "structure" /\ At("structure").in = <<>> /\ At("structure").out = <<"structure">>
  /\ At("guess").op = "guess" /\ At("guess").in = <<>> /\ At("guess").out = <<"sol">>
  /\ IF First
       THEN At("ahead").op = "zero" /\ At("ahead").in = <<>> /\ At("ahead").out = <<Vector>>
       ELSE At("ahead").op = "subtract" /\ At("ahead").in = <<"sol", Vector>> /\ At("ahead").out = <<"sol">>
  /\ At("fill").op = "fill" /\ At("fill").in = <<"sol">> /\ At("fill").out = <<"stacked">>
  /\ At("rhs").op = "zero" /\ At("rhs").in = <<>> /\ At("rhs").out = <<"rhs">>
  /\ At("mat").op = "zero" /\ At("mat").in = <<>> /\ At("mat").out = <<"mat">>
  /\ At("scatter").op = "scatter" /\ At("scatter").in = <<"stacked", "mat", "rhs">>
  /\ At("scatter").out = <<"mat", "rhs">>
  /\ At("nrm2").op = "nrm2" /\ At("nrm2").in = <<"rhs">> /\ At("nrm2").out = <<"norm">>
  /\ At("residual").op = "residual" /\ At("residual").in = <<"structure", "mat", "rhs", Vector>>
  /\ At("residual").out = <<"res">>
  /\ At("improve").op = "improve" /\ At("improve").in = <<"structure", "mat", Target, "res">>
  /\ At("improve").out = <<Target, "res">>
<1>1. At("structure") = Kernel("structure", <<>>, <<>>, <<"structure">>, {})
  BY DEF At
<1>2. At("guess") = Kernel("guess", <<>>, <<>>, <<"sol">>, {})
  BY DEF At
<1>3. At("ahead") = IF First THEN Reset(Vector) ELSE Subtract(Vector)
  BY DEF At
<1>4. At("fill") = Fill /\ At("rhs") = Reset("rhs") /\ At("mat") = Reset("mat")
  BY DEF At
<1>5. At("scatter") = Scatter /\ At("nrm2") = Nrm2
  BY DEF At
<1>6. At("residual") = LinearResidual(Vector) /\ At("improve") = LinearIteration(Target)
  BY DEF At
<1> HIDE DEF First
<1>7. CASE First
  BY <1>1, <1>2, <1>3, <1>4, <1>5, <1>6, <1>7
     DEF Kernel, Reset, Subtract, Fill, Scatter, Nrm2, LinearResidual, LinearIteration
<1>8. CASE ~First
  BY <1>1, <1>2, <1>3, <1>4, <1>5, <1>6, <1>8
     DEF Kernel, Reset, Subtract, Fill, Scatter, Nrm2, LinearResidual, LinearIteration
<1> QED
  BY <1>7, <1>8

LEMMA NoScalars ==
  ASSUME NEW p \in Places
  PROVE  At(p).args = <<>> /\ At(p).scratch = {}
BY DEF Places, At, Kernel, Reset, Subtract, Fill, Scatter, Nrm2, LinearResidual, LinearIteration

\* No two of them are the same.
LEMMA Apart ==
  ASSUME CallInv, NEW p \in Places, NEW q \in Places, At(p) = At(q)
  PROVE  p = q
<1> DEFINE Op(r) == At(r).op
           Out(r) == At(r).out[1]
<1>1. /\ Op("structure") = "structure" /\ Op("guess") = "guess" /\ Op("ahead") \in {"zero", "subtract"}
      /\ Op("fill") = "fill" /\ Op("rhs") = "zero" /\ Op("mat") = "zero" /\ Op("scatter") = "scatter"
      /\ Op("nrm2") = "nrm2" /\ Op("residual") = "residual" /\ Op("improve") = "improve"
  BY KernelIs
<1>2. /\ Out("rhs") = "rhs" /\ Out("mat") = "mat"
      /\ Out("ahead") # "rhs" /\ Out("ahead") # "mat"
  <2>1. Vector \notin {"rhs", "mat"}
    BY VectorType DEF ProblemBuffer
  <2> QED
    BY <2>1, KernelIs
<1>3. Op(p) = Op(q) /\ Out(p) = Out(q)
  OBVIOUS
<1> HIDE DEF Op, Out
<1>4. CASE p \in {"ahead", "rhs", "mat"}
  BY <1>1, <1>2, <1>3, <1>4 DEF Places
<1>5. CASE p \notin {"ahead", "rhs", "mat"}
  BY <1>1, <1>3, <1>5 DEF Places
<1> QED
  BY <1>4, <1>5

LEMMA ApartAll == CallInv => \A p, q \in Places : At(p) = At(q) => p = q
BY Apart

\* The names follow the host thread.
LEMMA SameKernels ==
  ASSUME UNCHANGED hostVars
  PROVE  /\ \A p : At(p)' = At(p)
         /\ Due' = Due /\ Waits' = Waits /\ Places' = Places
         /\ Vector' = Vector /\ Target' = Target /\ First' = First
BY DEF hostVars, At, First, Vector, Target, Due, Waits

\* What is due has a place.
LEMMA DueTypes == Due \subseteq Places /\ \A w \in Waits : w[1] \in Places /\ w[2] \in Places
<1>1. Due \subseteq Places
  BY DEF Due, Places
<1>2. \A w \in Waits : w[1] \in Places /\ w[2] \in Places
  BY DEF Waits, Places
<1> QED
  BY <1>1, <1>2

\* A kernel runs: what it waits for is not in flight, and the others stay in flight.
LEMMA RunFlight ==
  ASSUME CallInv, FlightInv, NEW t \in pending, NEW p \in Due, t.kernel = At(p),
         NEW results, RunKernel(t, results), UNCHANGED hostVars
  PROVE  /\ FlightInv'
         /\ InFlight(p)
         /\ \A w \in Waits : w[2] = p => ~InFlight(w[1])
         /\ \A q \in Places : InFlight(q)' <=> InFlight(q) /\ q # p
<1>1. pending' = pending \ {t} /\ Ready(t)
  BY DEF RunKernel
<1>2. /\ \A q : At(q)' = At(q)
      /\ Due' = Due /\ Waits' = Waits /\ pc' = pc /\ session' = session
  BY SameKernels DEF hostVars
<1>3. Due \subseteq Places /\ \A w \in Waits : w[1] \in Places /\ w[2] \in Places
  BY DueTypes
<1>4. \A u \in pending : u.kernel = t.kernel => u = t
  BY DEF FlightInv
<1>5. \A q \in Places : At(q) = At(p) => q = p
  BY <1>3, Apart
<1>6. \A q \in Places : InFlight(q)' <=> InFlight(q) /\ q # p
  BY <1>1, <1>2, <1>4, <1>5 DEF InFlight
<1>7. ASSUME NEW w \in Waits, w[2] = p, InFlight(w[1])
      PROVE  FALSE
  <2>1. PICK u \in pending : u.kernel = At(w[1])
    BY <1>7 DEF InFlight
  <2>2. u.id \in t.after
    BY <1>7, <2>1 DEF FlightInv
  <2> QED
    BY <1>1, <2>2 DEF Ready
<1>8. FlightInv'
  <2>1. \A w \in Waits : w[2] \in Due /\ InFlight(w[1])' => InFlight(w[2])'
    <3> SUFFICES ASSUME NEW w \in Waits, w[2] \in Due, InFlight(w[1])'
                 PROVE  InFlight(w[2])'
      OBVIOUS
    <3>1. InFlight(w[1])
      BY <1>3, <1>6
    <3>2. InFlight(w[2]) /\ w[2] # p
      BY <1>7, <3>1 DEF FlightInv
    <3> QED
      BY <1>3, <1>6, <3>2
  <2>2. pending' \subseteq pending
    BY <1>1
  <2> HIDE DEF InFlight
  <2> QED
    BY <1>2, <2>1, <2>2 DEF FlightInv
<1> QED
  BY <1>6, <1>7, <1>8 DEF InFlight

-----------------------------------------------------------------------------
(***************************************************************************)
(* Enqueuing.                                                              *)
(***************************************************************************)

\* The kernels of a piece of work have places that are due, and wait for those they
\* need; those in flight are of Old, and none of them needs one of the new ones.
Fits(work, place, Old) ==
  /\ Sequence(work) /\ place \in [DOMAIN work -> Places]
  /\ \A i, j \in DOMAIN work : place[i] = place[j] => i = j
  /\ \A i \in DOMAIN work : work[i].kernel = At(place[i])' /\ place[i] \in Due'
  /\ Old \subseteq Places /\ Old \subseteq Due' /\ \A t \in pending : \E p \in Old : t.kernel = At(p)
  /\ \A p \in Old : At(p)' = At(p) /\ \A i \in DOMAIN work : place[i] # p
  /\ \A w \in Waits : \A i \in DOMAIN work : w[2] = place[i] =>
       \/ \E j \in DOMAIN work : w[1] = place[j] /\ j \in work[i].deps
       \/ w[1] \in Old /\ \A t \in pending : t.kernel = At(w[1]) => t.stream = work[i].stream
       \/ w[1] \notin Old /\ \A j \in DOMAIN work : w[1] # place[j]
  /\ \A w \in Waits : w[2] \in Due' =>
       \/ \E i \in DOMAIN work : w[2] = place[i]
       \/ w[1] \in Old /\ w[2] \in Old /\ w[2] \in Due
       \/ w[1] \notin Old /\ \A i \in DOMAIN work : w[1] # place[i]
  /\ \A w \in Waits : w[2] \in Old => \A i \in DOMAIN work : w[1] # place[i]
  /\ pc' = "resets" => ~session.graph
  /\ ~session.graph => \A i \in DOMAIN work : /\ place[i] = "rhs" => work[i].stream = "B"
                                              /\ place[i] = "mat" => work[i].stream = "C"

\* Then they take their places behind those that are in flight.
Placed(work, place, Old) ==
  /\ FlightInv'
  /\ \A p \in Old : InFlight(p)' <=> InFlight(p)
  /\ \A i \in DOMAIN work : InFlight(place[i])'
  /\ \A p \in Places : InFlight(p)' => p \in Old \/ \E i \in DOMAIN work : p = place[i]

LEMMA EnqueueFlight ==
  ASSUME CallInv', session' = session, FlightInv, NEW work, NEW place, NEW Old,
         Enqueue(work), Fits(work, place, Old)
  PROVE  Placed(work, place, Old)
<1>f. /\ Sequence(work) /\ place \in [DOMAIN work -> Places]
      /\ \A i, j \in DOMAIN work : place[i] = place[j] => i = j
      /\ \A i \in DOMAIN work : work[i].kernel = At(place[i])' /\ place[i] \in Due'
      /\ Old \subseteq Places /\ Old \subseteq Due' /\ \A t \in pending : \E p \in Old : t.kernel = At(p)
      /\ \A p \in Old : At(p)' = At(p) /\ \A i \in DOMAIN work : place[i] # p
      /\ \A w \in Waits : \A i \in DOMAIN work : w[2] = place[i] =>
           \/ \E j \in DOMAIN work : w[1] = place[j] /\ j \in work[i].deps
           \/ w[1] \in Old /\ \A t \in pending : t.kernel = At(w[1]) => t.stream = work[i].stream
           \/ w[1] \notin Old /\ \A j \in DOMAIN work : w[1] # place[j]
      /\ \A w \in Waits : w[2] \in Due' =>
           \/ \E i \in DOMAIN work : w[2] = place[i]
           \/ w[1] \in Old /\ w[2] \in Old /\ w[2] \in Due
           \/ w[1] \notin Old /\ \A i \in DOMAIN work : w[1] # place[i]
      /\ \A w \in Waits : w[2] \in Old => \A i \in DOMAIN work : w[1] # place[i]
      /\ pc' = "resets" => ~session.graph
      /\ ~session.graph => \A i \in DOMAIN work : /\ place[i] = "rhs" => work[i].stream = "B"
                                                  /\ place[i] = "mat" => work[i].stream = "C"
  BY DEF Fits
<1> USE <1>f
<1>0. Waits' = Waits
  BY DEF Waits
<1>1. PICK new \in [DOMAIN work -> pending'] :
           /\ pending' = pending \cup {new[i] : i \in DOMAIN work}
           /\ \A i \in DOMAIN work :
                /\ new[i].kernel = work[i].kernel /\ new[i].stream = work[i].stream
                /\ \A t \in pending : t.stream = work[i].stream => t.id \in new[i].after
                /\ \A j \in DOMAIN work : j \in work[i].deps => new[j].id \in new[i].after
  BY EnqueuedAre
<1>2. \A p, q \in Places : At(p)' = At(q)' => p = q
  <2>1. (\A p, q \in Places : At(p) = At(q) => p = q)'
    BY ApartAll, PTL
  <2> QED
    BY <2>1 DEF Places
<1> DEFINE K(p) == At(p)'
<1>3. \A t \in pending : \E p \in Old : t.kernel = K(p)
  OBVIOUS
<1>4. \A i \in DOMAIN work : new[i].kernel = K(place[i]) /\ new[i] \in pending'
  BY <1>1
<1>5. \A p \in Places : InFlight(p)' <=> \E t \in pending' : t.kernel = K(p)
  BY DEF InFlight
<1>6. \A p \in Old : InFlight(p) <=> \E t \in pending : t.kernel = K(p)
  BY DEF InFlight
<1>7. \A t \in pending' : t \in pending \/ \E i \in DOMAIN work : t = new[i]
  BY <1>1
<1>8. \A w \in Waits : w[1] \in Places /\ w[2] \in Places
  BY DueTypes
<1>9. \A p, q \in Places : K(p) = K(q) => p = q
  BY <1>2
<1>10. \A w \in Waits : \A t, u \in pending :
         w[1] \in Old /\ w[2] \in Old /\ t.kernel = K(w[1]) /\ u.kernel = K(w[2]) => t.id \in u.after
  BY DEF FlightInv
<1>11. \A t, u \in pending : t.kernel = u.kernel => t = u
  BY DEF FlightInv
<1>12. \A w \in Waits : \A t \in pending : w[1] \in Old /\ t.kernel = K(w[1]) => t.kernel = At(w[1])
  OBVIOUS
<1> HIDE DEF K
<1>13. \A p \in Old : InFlight(p)' <=> InFlight(p)
  <2> SUFFICES ASSUME NEW p \in Old
               PROVE  InFlight(p)' <=> InFlight(p)
    OBVIOUS
  <2>1. p \in Places /\ \A i \in DOMAIN work : place[i] # p /\ place[i] \in Places
    OBVIOUS
  <2>2. \A t \in pending' : t.kernel = K(p) => t \in pending
    BY <1>4, <1>7, <1>9, <2>1
  <2>3. pending \subseteq pending'
    BY <1>1
  <2> QED
    BY <1>5, <1>6, <2>1, <2>2, <2>3
<1>14. \A i \in DOMAIN work : InFlight(place[i])'
  BY <1>4, <1>5
<1>15. \A p \in Places : InFlight(p)' => p \in Old \/ \E i \in DOMAIN work : p = place[i]
  BY <1>3, <1>4, <1>5, <1>7, <1>9
<1>16. \A t, u \in pending' : t.kernel = u.kernel => t = u
  <2> SUFFICES ASSUME NEW t \in pending', NEW u \in pending', t.kernel = u.kernel
               PROVE  t = u
    OBVIOUS
  <2>1. CASE t \in pending /\ u \in pending
    BY <1>11, <2>1
  <2>2. ASSUME NEW i \in DOMAIN work, t = new[i]
        PROVE  t = u
    BY <1>3, <1>4, <1>7, <1>9, <2>2
  <2>3. ASSUME NEW i \in DOMAIN work, u = new[i]
        PROVE  t = u
    BY <1>3, <1>4, <1>7, <1>9, <2>3
  <2> QED
    BY <1>7, <2>1, <2>2, <2>3
<1>17. ASSUME NEW w \in Waits, NEW t \in pending', NEW u \in pending', t.kernel = K(w[1]), u.kernel = K(w[2])
       PROVE  t.id \in u.after
  <2>1. w[1] \in Places /\ w[2] \in Places
    BY <1>8
  <2>2. CASE u \in pending
    <3>1. w[2] \in Old
      BY <1>3, <1>9, <1>17, <2>1, <2>2
    <3>2. t \in pending
      BY <1>4, <1>7, <1>9, <1>17, <2>1, <3>1
    <3>3. w[1] \in Old
      BY <1>3, <1>9, <1>17, <2>1, <3>2
    <3> QED
      BY <1>10, <1>17, <2>2, <3>1, <3>2, <3>3
  <2>3. ASSUME NEW i \in DOMAIN work, u = new[i]
        PROVE  t.id \in u.after
    <3>1. w[2] = place[i]
      BY <1>4, <1>9, <1>17, <2>1, <2>3
    <3>2. CASE t \in pending
      <4>1. w[1] \in Old
        BY <1>3, <1>9, <1>17, <2>1, <3>2
      <4>2. \A j \in DOMAIN work : w[1] # place[j]
        BY <4>1
      <4>3. t.stream = work[i].stream
        BY <1>12, <1>17, <3>1, <3>2, <4>1, <4>2
      <4> QED
        BY <1>1, <2>3, <3>2, <4>3
    <3>3. ASSUME NEW j \in DOMAIN work, t = new[j]
          PROVE  t.id \in u.after
      <4>1. w[1] = place[j]
        BY <1>4, <1>9, <1>17, <2>1, <3>3
      <4>2. w[1] \notin Old
        BY <4>1
      <4>3. j \in work[i].deps
        BY <3>1, <4>1, <4>2
      <4> QED
        BY <1>1, <2>3, <3>3, <4>3
    <3> QED
      BY <1>7, <3>2, <3>3
  <2> QED
    BY <1>7, <2>2, <2>3
<1>18. ASSUME NEW w \in Waits, w[2] \in Due', InFlight(w[1])'
       PROVE  InFlight(w[2])'
  <2>1. w[1] \in Old \/ \E i \in DOMAIN work : w[1] = place[i]
    BY <1>8, <1>15, <1>18
  <2>2. CASE \E i \in DOMAIN work : w[2] = place[i]
    BY <1>14, <2>2
  <2>3. CASE w[1] \in Old /\ w[2] \in Old /\ w[2] \in Due
    <3>1. InFlight(w[1])
      BY <1>13, <1>18, <2>3
    <3>2. InFlight(w[2])
      BY <2>3, <3>1 DEF FlightInv
    <3> QED
      BY <1>13, <2>3, <3>2
  <2> QED
    BY <1>18, <2>1, <2>2, <2>3
<1>19. \A t \in pending' : \E p \in Due' : t.kernel = K(p)
  BY <1>3, <1>4, <1>7
<1>20. ASSUME NEW t \in pending', ~session.graph
       PROVE  /\ t.kernel = K("rhs") => t.stream = "B"
              /\ t.kernel = K("mat") => t.stream = "C"
  <2>1. "rhs" \in Places /\ "mat" \in Places
    BY DEF Places
  <2>2. CASE t \in pending
    <3>1. PICK p \in Old : t.kernel = K(p)
      BY <1>3, <2>2
    <3>2. p \in Places /\ (p = "rhs" => K(p) = At("rhs")) /\ (p = "mat" => K(p) = At("mat"))
      BY <1>0 DEF K
    <3> QED
      BY <1>9, <1>20, <2>1, <2>2, <3>1, <3>2 DEF FlightInv
  <2>3. ASSUME NEW i \in DOMAIN work, t = new[i]
        PROVE  /\ t.kernel = K("rhs") => t.stream = "B"
               /\ t.kernel = K("mat") => t.stream = "C"
    BY <1>1, <1>4, <1>9, <1>20, <2>1, <2>3
  <2> QED
    BY <1>7, <2>2, <2>3
<1>21. FlightInv'
  BY <1>0, <1>16, <1>17, <1>18, <1>19, <1>20 DEF K, FlightInv
<1> QED
  BY <1>13, <1>14, <1>15, <1>21 DEF Placed

\* The pieces of work that the host enqueues.
LEMMA Tuples ==
  ASSUME NEW a, NEW b
  PROVE  /\ Sequence(<<a>>) /\ Len(<<a>>) = 1 /\ <<a>>[1] = a
         /\ Sequence(<<a, b>>) /\ Len(<<a, b>>) = 2 /\ <<a, b>>[1] = a /\ <<a, b>>[2] = b
BY TupleSequences

LEMMA Joined ==
  ASSUME NEW a, NEW b
  PROVE  <<a>> \o <<b>> = <<a, b>>
<1> DEFINE s == <<a>>
           t == <<b>>
           u == <<a, b>>
           S == {a, b}
<1>1. s \in Seq(S) /\ t \in Seq(S) /\ u \in Seq(S)
  OBVIOUS
<1>2. Len(s) = 1 /\ Len(t) = 1 /\ Len(u) = 2 /\ s[1] = a /\ t[1] = b /\ u[1] = a /\ u[2] = b
  OBVIOUS
<1> HIDE DEF s, t, u
<1>3. /\ s \o t \in Seq(S) /\ Len(s \o t) = 2
      /\ \A i \in 1 .. 2 : (s \o t)[i] = u[i]
  <2>1. /\ s \o t \in Seq(S) /\ Len(s \o t) = Len(s) + Len(t)
        /\ \A i \in 1 .. Len(s) + Len(t) : (s \o t)[i] = IF i <= Len(s) THEN s[i] ELSE t[i - Len(s)]
    BY <1>1, ConcatProperties
  <2> QED
    BY <1>2, <2>1
<1>4. s \o t = u
  BY <1>1, <1>2, <1>3, SeqEqual
<1> QED
  BY <1>4 DEF s, t, u

\* A chain on one stream.
LEMMA ChainIs ==
  ASSUME NEW stream, NEW k, NEW l
  PROVE  /\ Longer(InOrder(stream, <<k>>), 1, <<>>, Entry(k, stream, {}))
         /\ \E one : /\ Longer(one, 1, <<>>, Entry(k, stream, {}))
                     /\ Longer(InOrder(stream, <<k, l>>), 2, one, Entry(l, stream, {1}))
<1> DEFINE none == <<>>
           ks == <<k>>
           kls == <<k, l>>
<1>1. Sequence(none) /\ 1 = Len(none) + 1 /\ 1 + 1 = 2
  <2>1. Sequence(none)
    BY TupleSequences
  <2>2. Len(none) = 0
    OBVIOUS
  <2> QED
    BY <2>1, <2>2
<1>2. /\ Sequence(ks) /\ Len(ks) = 1 /\ ks[1] = k
      /\ Sequence(kls) /\ Len(kls) = 2 /\ kls[1] = k /\ kls[2] = l
  BY Tuples
<1>3. InOrder(stream, ks) = Then(none, stream, {}, ks) /\ InOrder(stream, kls) = Then(none, stream, {}, kls)
  BY DEF InOrder
<1> HIDE DEF none, ks, kls
<1>4. Longer(Then(none, stream, {}, ks), 1, none, Entry(ks[1], stream, {}))
  BY <1>1, <1>2, ThenOne
<1>5. \E one : /\ Longer(one, 1, none, Entry(kls[1], stream, {}))
               /\ Longer(Then(none, stream, {}, kls), 1 + 1, one, Entry(kls[2], stream, {1}))
  BY <1>1, <1>2, ThenTwo
<1> QED
  BY <1>1, <1>2, <1>3, <1>4, <1>5 DEF none, ks, kls

\* assemble() after a kernel, without a graph.
LEMMA FillAndResetIs ==
  ASSUME NEW a
  PROVE  \E w1, w2, w3 :
           /\ Longer(w1, 1, <<>>, Entry(a, "A", {}))
           /\ Longer(w2, 2, w1, Entry(Fill, "A", {1}))
           /\ Longer(w3, 3, w2, Entry(Reset("rhs"), "B", {}))
           /\ Longer(FillAndReset(<<a>>), 4, w3, Entry(Reset("mat"), "C", {}))
<1> DEFINE rhs == <<Reset("rhs")>>
           mat == <<Reset("mat")>>
           fill == InOrder("A", <<a, Fill>>)
           w3 == Then(fill, "B", {}, rhs)
           w4 == Then(w3, "C", {}, mat)
<1>1. FillAndReset(<<a>>) = w4
  <2>1. <<a>> \o <<Fill>> = <<a, Fill>>
    BY Joined
  <2> QED
    BY <2>1 DEF FillAndReset
<1>2. PICK w1 : /\ Longer(w1, 1, <<>>, Entry(a, "A", {}))
                /\ Longer(fill, 2, w1, Entry(Fill, "A", {1}))
  BY ChainIs
<1>3. /\ Sequence(rhs) /\ Len(rhs) = 1 /\ rhs[1] = Reset("rhs")
      /\ Sequence(mat) /\ Len(mat) = 1 /\ mat[1] = Reset("mat")
  BY Tuples
<1> HIDE DEF rhs, mat, fill
<1>4. Longer(w3, 3, fill, Entry(Reset("rhs"), "B", {}))
  <2>1. Sequence(fill) /\ 3 = Len(fill) + 1
    BY <1>2 DEF Longer
  <2> QED
    BY <1>3, <2>1, ThenOne
<1> HIDE DEF w3
<1>5. Longer(w4, 4, w3, Entry(Reset("mat"), "C", {}))
  <2>1. Sequence(w3) /\ 4 = Len(w3) + 1
    BY <1>4 DEF Longer
  <2> QED
    BY <1>3, <2>1, ThenOne
<1> QED
  BY <1>1, <1>2, <1>4, <1>5

\* assemble() between two kernels, in a graph.
LEMMA AssemblyGraphIs ==
  ASSUME NEW a, NEW b
  PROVE  \E w1, w2, w3, w4, w5 :
           /\ Longer(w1, 1, <<>>, Entry(a, "A", {}))
           /\ Longer(w2, 2, w1, Entry(Fill, "A", {1}))
           /\ Longer(w3, 3, w2, Entry(Reset("rhs"), "A", {1}))
           /\ Longer(w4, 4, w3, Entry(Reset("mat"), "A", {1}))
           /\ Longer(w5, 5, w4, Entry(Scatter, "A", {2, 3, 4}))
           /\ Longer(AssemblyGraph(<<a>>, <<b>>), 6, w5, Entry(b, "A", {5}))
<1> DEFINE fill == <<Fill>>
           rhs == <<Reset("rhs")>>
           mat == <<Reset("mat")>>
           last == <<Scatter, b>>
           w1 == InOrder("A", <<a>>)
           w2 == Then(w1, "A", {1}, fill)
           w3 == Then(w2, "A", {1}, rhs)
           w4 == Then(w3, "A", {1}, mat)
           all == Then(w4, "A", {2, 3, 4}, last)
<1>1. AssemblyGraph(<<a>>, <<b>>) = all
  <2>1. <<Scatter>> \o <<b>> = last
    BY Joined
  <2>2. Len(<<a>>) = 1
    BY Tuples
  <2>3. {1} \ {0} = {1} /\ WhenAll(1 + 1, 1 + 2, 1 + 3) = {2, 3, 4}
    BY DEF WhenAll
  <2> QED
    BY <2>1, <2>2, <2>3 DEF AssemblyGraph
<1>2. Longer(w1, 1, <<>>, Entry(a, "A", {}))
  BY ChainIs
<1>3. /\ Sequence(fill) /\ Len(fill) = 1 /\ fill[1] = Fill
      /\ Sequence(rhs) /\ Len(rhs) = 1 /\ rhs[1] = Reset("rhs")
      /\ Sequence(mat) /\ Len(mat) = 1 /\ mat[1] = Reset("mat")
      /\ Sequence(last) /\ Len(last) = 2 /\ last[1] = Scatter /\ last[2] = b
  BY Tuples
<1> HIDE DEF fill, rhs, mat, last, w1
<1>4. Longer(w2, 2, w1, Entry(Fill, "A", {1}))
  <2>1. Sequence(w1) /\ 2 = Len(w1) + 1
    BY <1>2 DEF Longer
  <2> QED
    BY <1>3, <2>1, ThenOne
<1> HIDE DEF w2
<1>5. Longer(w3, 3, w2, Entry(Reset("rhs"), "A", {1}))
  <2>1. Sequence(w2) /\ 3 = Len(w2) + 1
    BY <1>4 DEF Longer
  <2> QED
    BY <1>3, <2>1, ThenOne
<1> HIDE DEF w3
<1>6. Longer(w4, 4, w3, Entry(Reset("mat"), "A", {1}))
  <2>1. Sequence(w3) /\ 4 = Len(w3) + 1
    BY <1>5 DEF Longer
  <2> QED
    BY <1>3, <2>1, ThenOne
<1> HIDE DEF w4
<1>7. \E w5 : /\ Longer(w5, 5, w4, Entry(Scatter, "A", {2, 3, 4}))
              /\ Longer(all, 6, w5, Entry(b, "A", {5}))
  <2>1. Sequence(w4) /\ 5 = Len(w4) + 1 /\ 5 + 1 = 6
    BY <1>6 DEF Longer
  <2>2. \E w5 : /\ Longer(w5, 5, w4, Entry(last[1], "A", {2, 3, 4}))
                /\ Longer(all, 5 + 1, w5, Entry(last[2], "A", {5}))
    BY <1>3, <2>1, ThenTwo
  <2> QED
    BY <1>3, <2>1, <2>2
<1> HIDE DEF all
<1> QED
  BY <1>1, <1>2, <1>4, <1>5, <1>6, <1>7

\* The pairs of Waits, one by one.
LEMMA WaitsAre ==
  ASSUME NEW w \in Waits
  PROVE  \/ w[1] = "structure" /\ w[2] = "guess"
         \/ w[1] = "guess" /\ w[2] = "ahead"
         \/ w[1] = "ahead" /\ w[2] = "fill"
         \/ w[1] = "fill" /\ w[2] = "scatter"
         \/ w[1] = "rhs" /\ w[2] = "scatter"
         \/ w[1] = "mat" /\ w[2] = "scatter"
         \/ w[1] = "scatter" /\ w[2] = "nrm2"
         \/ session.graph /\ w[1] = "ahead" /\ w[2] = "rhs"
         \/ session.graph /\ w[1] = "ahead" /\ w[2] = "mat"
BY DEF Waits

\* assemble() between two kernels in a graph, when at most the problem is being set up.
LEMMA AssembleInGraph ==
  ASSUME CallInv', FlightInv, InFlightOn({"A"}), Due \in {{}, {"structure", "guess"}},
         session.graph, session' = session, pc' = "norm",
         Enqueue(AssemblyGraph(<<At("ahead")'>>, <<Nrm2>>))
  PROVE  /\ FlightInv'
         /\ \A p \in Due : InFlight(p)' <=> InFlight(p)
         /\ \A p \in {"ahead", "fill", "rhs", "mat", "scatter", "nrm2"} : InFlight(p)'
         /\ \A p \in Places : InFlight(p)' =>
              p \in Due \cup {"ahead", "fill", "rhs", "mat", "scatter", "nrm2"}
<1> DEFINE ahead == At("ahead")'
           work == AssemblyGraph(<<ahead>>, <<Nrm2>>)
           place == <<"ahead", "fill", "rhs", "mat", "scatter", "nrm2">>
           Old == Due
<1>1. /\ Sequence(work) /\ Len(work) = 6
      /\ work[1] = Entry(ahead, "A", {}) /\ work[2] = Entry(Fill, "A", {1})
      /\ work[3] = Entry(Reset("rhs"), "A", {1}) /\ work[4] = Entry(Reset("mat"), "A", {1})
      /\ work[5] = Entry(Scatter, "A", {2, 3, 4}) /\ work[6] = Entry(Nrm2, "A", {5})
  <2> HIDE DEF ahead, work
  <2>1. PICK w1, w2, w3, w4, w5 :
           /\ Longer(w1, 1, <<>>, Entry(ahead, "A", {}))
           /\ Longer(w2, 2, w1, Entry(Fill, "A", {1}))
           /\ Longer(w3, 3, w2, Entry(Reset("rhs"), "A", {1}))
           /\ Longer(w4, 4, w3, Entry(Reset("mat"), "A", {1}))
           /\ Longer(w5, 5, w4, Entry(Scatter, "A", {2, 3, 4}))
           /\ Longer(work, 6, w5, Entry(Nrm2, "A", {5}))
    BY AssemblyGraphIs DEF work
  <2> QED
    BY <2>1 DEF Longer
<1>2. DOMAIN work = 1 .. 6
  BY <1>1, SequenceDomain
<1>3. /\ place \in [1 .. 6 -> Places]
      /\ place[1] = "ahead" /\ place[2] = "fill" /\ place[3] = "rhs"
      /\ place[4] = "mat" /\ place[5] = "scatter" /\ place[6] = "nrm2"
  BY DEF Places
<1>4. /\ At("fill")' = Fill /\ At("rhs")' = Reset("rhs") /\ At("mat")' = Reset("mat")
      /\ At("scatter")' = Scatter /\ At("nrm2")' = Nrm2
      /\ At("structure")' = At("structure") /\ At("guess")' = At("guess")
  BY DEF At
<1>5. /\ Due' = {"structure", "guess", "ahead", "fill", "scatter", "nrm2", "rhs", "mat"}
      /\ Waits' = Waits
  BY DEF Due, Waits
<1>6. Enqueue(work)
  OBVIOUS
<1> HIDE DEF ahead, work, place
<1>7. \A i \in DOMAIN work : work[i].stream = "A" /\ work[i].kernel = At(place[i])' /\ place[i] \in Due'
  <2>1. At(place[1])' = ahead
    BY <1>3 DEF ahead
  <2>2. /\ At(place[2])' = Fill /\ At(place[3])' = Reset("rhs") /\ At(place[4])' = Reset("mat")
        /\ At(place[5])' = Scatter /\ At(place[6])' = Nrm2
    BY <1>3, <1>4
  <2> QED
    BY <1>1, <1>2, <1>3, <1>5, <2>1, <2>2 DEF Entry
<1>8. /\ 1 \in work[2].deps /\ 1 \in work[3].deps /\ 1 \in work[4].deps
      /\ 2 \in work[5].deps /\ 3 \in work[5].deps /\ 4 \in work[5].deps /\ 5 \in work[6].deps
  BY <1>1 DEF Entry
<1>9. \A i, j \in DOMAIN work : place[i] = place[j] => i = j
  BY <1>2, <1>3
<1>10. Old \subseteq Places /\ Old \subseteq Due' /\ \A t \in pending : \E p \in Old : t.kernel = At(p)
  BY <1>5, DueTypes DEF FlightInv
<1>11. \A p \in Old : At(p)' = At(p) /\ \A i \in DOMAIN work : place[i] # p
  BY <1>2, <1>3, <1>4
<1>12. ASSUME NEW w \in Waits
       PROVE  /\ \A i \in DOMAIN work : w[2] = place[i] =>
                   \/ \E j \in DOMAIN work : w[1] = place[j] /\ j \in work[i].deps
                   \/ w[1] \in Old /\ \A t \in pending : t.kernel = At(w[1]) => t.stream = work[i].stream
                   \/ w[1] \notin Old /\ \A j \in DOMAIN work : w[1] # place[j]
              /\ w[2] \in Due' =>
                   \/ \E i \in DOMAIN work : w[2] = place[i]
                   \/ w[1] \in Old /\ w[2] \in Old /\ w[2] \in Due
                   \/ w[1] \notin Old /\ \A i \in DOMAIN work : w[1] # place[i]
              /\ w[2] \in Old => \A i \in DOMAIN work : w[1] # place[i]
  <2>1. \A t \in pending : \A i \in DOMAIN work : t.stream = work[i].stream
    BY <1>7 DEF InFlightOn
  <2> HIDE DEF Waits, Due
  <2> QED
    BY <1>2, <1>3, <1>5, <1>8, <2>1, WaitsAre
<1>13. Fits(work, place, Old)
  <2>1. place \in [DOMAIN work -> Places]
    BY <1>2, <1>3
  <2> HIDE DEF Due, Waits, Old, Places, At
  <2> QED
    BY <1>1, <1>7, <1>9, <1>10, <1>11, <1>12, <2>1 DEF Fits
<1>14. Placed(work, place, Old)
  BY <1>6, <1>13, EnqueueFlight
<1>15. \A p \in {"ahead", "fill", "rhs", "mat", "scatter", "nrm2"} : InFlight(p)'
  BY <1>2, <1>3, <1>14 DEF Placed
<1> QED
  BY <1>2, <1>3, <1>14, <1>15 DEF Placed

\* assemble() after a kernel, without a graph.
LEMMA AssembleOnInstances ==
  ASSUME CallInv', FlightInv, InFlightOn({"A"}), Due \in {{}, {"structure", "guess"}},
         ~session.graph, session' = session, pc' = "resets",
         Enqueue(FillAndReset(<<At("ahead")'>>))
  PROVE  /\ FlightInv'
         /\ \A p \in Due : InFlight(p)' <=> InFlight(p)
         /\ \A p \in {"ahead", "fill", "rhs", "mat"} : InFlight(p)'
         /\ \A p \in Places : InFlight(p)' => p \in Due \cup {"ahead", "fill", "rhs", "mat"}
<1> DEFINE ahead == At("ahead")'
           work == FillAndReset(<<ahead>>)
           place == <<"ahead", "fill", "rhs", "mat">>
           Old == Due
<1>1. /\ Sequence(work) /\ Len(work) = 4
      /\ work[1] = Entry(ahead, "A", {}) /\ work[2] = Entry(Fill, "A", {1})
      /\ work[3] = Entry(Reset("rhs"), "B", {}) /\ work[4] = Entry(Reset("mat"), "C", {})
  <2> HIDE DEF ahead, work
  <2>1. PICK w1, w2, w3 :
           /\ Longer(w1, 1, <<>>, Entry(ahead, "A", {}))
           /\ Longer(w2, 2, w1, Entry(Fill, "A", {1}))
           /\ Longer(w3, 3, w2, Entry(Reset("rhs"), "B", {}))
           /\ Longer(work, 4, w3, Entry(Reset("mat"), "C", {}))
    BY FillAndResetIs DEF work
  <2> QED
    BY <2>1 DEF Longer
<1>2. DOMAIN work = 1 .. 4
  BY <1>1, SequenceDomain
<1>3. /\ place \in [1 .. 4 -> Places]
      /\ place[1] = "ahead" /\ place[2] = "fill" /\ place[3] = "rhs" /\ place[4] = "mat"
  BY DEF Places
<1>4. /\ At("fill")' = Fill /\ At("rhs")' = Reset("rhs") /\ At("mat")' = Reset("mat")
      /\ At("structure")' = At("structure") /\ At("guess")' = At("guess")
  BY DEF At
<1>5. Due' = {"structure", "guess", "ahead", "fill", "rhs", "mat"}
  BY DEF Due
<1>6. Enqueue(work)
  OBVIOUS
<1> HIDE DEF ahead, work, place
<1>7. \A i \in DOMAIN work : work[i].kernel = At(place[i])' /\ place[i] \in Due'
  <2>1. At(place[1])' = ahead
    BY <1>3 DEF ahead
  <2>2. At(place[2])' = Fill /\ At(place[3])' = Reset("rhs") /\ At(place[4])' = Reset("mat")
    BY <1>3, <1>4
  <2> QED
    BY <1>1, <1>2, <1>3, <1>5, <2>1, <2>2 DEF Entry
<1>8. /\ work[1].stream = "A" /\ work[3].stream = "B" /\ work[4].stream = "C"
      /\ 1 \in work[2].deps
  BY <1>1 DEF Entry
<1>9. \A i, j \in DOMAIN work : place[i] = place[j] => i = j
  BY <1>2, <1>3
<1>10. Old \subseteq Places /\ Old \subseteq Due' /\ \A t \in pending : \E p \in Old : t.kernel = At(p)
  BY <1>5, DueTypes DEF FlightInv
<1>11. \A p \in Old : At(p)' = At(p) /\ \A i \in DOMAIN work : place[i] # p
  BY <1>2, <1>3, <1>4
<1>12. ASSUME NEW w \in Waits
       PROVE  /\ \A i \in DOMAIN work : w[2] = place[i] =>
                   \/ \E j \in DOMAIN work : w[1] = place[j] /\ j \in work[i].deps
                   \/ w[1] \in Old /\ \A t \in pending : t.kernel = At(w[1]) => t.stream = work[i].stream
                   \/ w[1] \notin Old /\ \A j \in DOMAIN work : w[1] # place[j]
              /\ w[2] \in Due' =>
                   \/ \E i \in DOMAIN work : w[2] = place[i]
                   \/ w[1] \in Old /\ w[2] \in Old /\ w[2] \in Due
                   \/ w[1] \notin Old /\ \A i \in DOMAIN work : w[1] # place[i]
              /\ w[2] \in Old => \A i \in DOMAIN work : w[1] # place[i]
  <2>1. \A t \in pending : t.stream = "A"
    BY DEF InFlightOn
  <2> HIDE DEF Waits, Due
  <2> QED
    BY <1>2, <1>3, <1>5, <1>8, <2>1, WaitsAre
<1>13. Fits(work, place, Old)
  <2>1. place \in [DOMAIN work -> Places]
    BY <1>2, <1>3
  <2>2. \A i \in DOMAIN work : /\ place[i] = "rhs" => work[i].stream = "B"
                               /\ place[i] = "mat" => work[i].stream = "C"
    BY <1>2, <1>3, <1>8
  <2> HIDE DEF Due, Waits, Old, Places, At
  <2> QED
    BY <1>1, <1>7, <1>9, <1>10, <1>11, <1>12, <2>1, <2>2 DEF Fits
<1>14. Placed(work, place, Old)
  BY <1>6, <1>13, EnqueueFlight
<1>15. \A p \in {"ahead", "fill", "rhs", "mat"} : InFlight(p)'
  BY <1>2, <1>3, <1>14 DEF Placed
<1> QED
  BY <1>2, <1>3, <1>14, <1>15 DEF Placed

\* The rest of it, once the resets are done.
LEMMA ScatterFlight ==
  ASSUME CallInv', FlightInv, InFlightOn({"A"}), ScatterAfterResets
  PROVE  /\ FlightInv'
         /\ ~InFlight("rhs") /\ ~InFlight("mat")
         /\ \A p \in {"structure", "guess", "ahead", "fill"} : InFlight(p)' <=> InFlight(p)
         /\ InFlight("scatter")' /\ InFlight("nrm2")'
         /\ \A p \in Places : InFlight(p)' =>
              p \in {"structure", "guess", "ahead", "fill", "scatter", "nrm2"}
<1> DEFINE kernels == <<Scatter, Nrm2>>
           work == InOrder("A", kernels)
           place == <<"scatter", "nrm2">>
           Old == {"structure", "guess", "ahead", "fill"}
<1>0. pc = "resets" /\ pc' = "norm" /\ session' = session /\ ~session.graph /\ Enqueue(work)
  BY DEF ScatterAfterResets, FlightInv
<1>1. /\ Sequence(work) /\ Len(work) = 2
      /\ work[1] = Entry(Scatter, "A", {}) /\ work[2] = Entry(Nrm2, "A", {1})
  <2>1. PICK one : /\ Longer(one, 1, <<>>, Entry(Scatter, "A", {}))
                   /\ Longer(work, 2, one, Entry(Nrm2, "A", {1}))
    BY ChainIs
  <2> HIDE DEF work
  <2> QED
    BY <2>1 DEF Longer
<1>2. DOMAIN work = 1 .. 2
  BY <1>1, SequenceDomain
<1>3. place \in [1 .. 2 -> Places] /\ place[1] = "scatter" /\ place[2] = "nrm2"
  BY DEF Places
<1>4. At("scatter")' = Scatter /\ At("nrm2")' = Nrm2 /\ \A p \in Old : At(p)' = At(p)
  BY DEF ScatterAfterResets, At, First, Vector
<1>5. /\ Due = {"structure", "guess", "ahead", "fill", "rhs", "mat"}
      /\ Due' = {"structure", "guess", "ahead", "fill", "scatter", "nrm2"}
  BY <1>0 DEF Due
<1> HIDE DEF work, place
<1>6. ~InFlight("rhs") /\ ~InFlight("mat")
  BY <1>0 DEF InFlight, FlightInv, ScatterAfterResets, Fenced
<1>7. \A i \in DOMAIN work : work[i].stream = "A" /\ work[i].kernel = At(place[i])' /\ place[i] \in Due'
  BY <1>1, <1>2, <1>3, <1>4, <1>5 DEF Entry
<1>8. 1 \in work[2].deps
  BY <1>1 DEF Entry
<1>9. \A i, j \in DOMAIN work : place[i] = place[j] => i = j
  BY <1>2, <1>3
<1>10. Old \subseteq Places /\ Old \subseteq Due' /\ \A t \in pending : \E p \in Old : t.kernel = At(p)
  BY <1>5, <1>6 DEF FlightInv, InFlight, Places
<1>11. \A p \in Old : At(p)' = At(p) /\ \A i \in DOMAIN work : place[i] # p
  BY <1>2, <1>3, <1>4
<1>12. ASSUME NEW w \in Waits
       PROVE  /\ \A i \in DOMAIN work : w[2] = place[i] =>
                   \/ \E j \in DOMAIN work : w[1] = place[j] /\ j \in work[i].deps
                   \/ w[1] \in Old /\ \A t \in pending : t.kernel = At(w[1]) => t.stream = work[i].stream
                   \/ w[1] \notin Old /\ \A j \in DOMAIN work : w[1] # place[j]
              /\ w[2] \in Due' =>
                   \/ \E i \in DOMAIN work : w[2] = place[i]
                   \/ w[1] \in Old /\ w[2] \in Old /\ w[2] \in Due
                   \/ w[1] \notin Old /\ \A i \in DOMAIN work : w[1] # place[i]
              /\ w[2] \in Old => \A i \in DOMAIN work : w[1] # place[i]
  <2>1. \A t \in pending : \A i \in DOMAIN work : t.stream = work[i].stream
    BY <1>7 DEF InFlightOn
  <2> HIDE DEF Waits, Due
  <2> QED
    BY <1>2, <1>3, <1>5, <1>8, <2>1, WaitsAre
<1>13. Fits(work, place, Old)
  <2>1. /\ place \in [DOMAIN work -> Places]
        /\ \A i \in DOMAIN work : place[i] # "rhs" /\ place[i] # "mat"
    BY <1>2, <1>3
  <2> HIDE DEF Due, Waits, Old, Places, At
  <2> QED
    BY <1>0, <1>1, <1>7, <1>9, <1>10, <1>11, <1>12, <2>1 DEF Fits
<1>14. Placed(work, place, Old)
  BY <1>0, <1>13, EnqueueFlight
<1>15. InFlight("scatter")' /\ InFlight("nrm2")'
  BY <1>2, <1>3, <1>14 DEF Placed
<1> QED
  BY <1>2, <1>3, <1>6, <1>14, <1>15 DEF Placed

\* A kernel of the linear solver.
LEMMA EnqueueOneFlight ==
  ASSUME CallInv', FlightInv, pending = {}, session' = session, pc' \in {"guess", "iterate"},
         NEW p \in {"residual", "improve"}, Due' = {p}, Enqueue(InOrder("A", <<At(p)'>>))
  PROVE  FlightInv' /\ \A q \in Places : InFlight(q)' <=> q = p
<1> DEFINE kernel == At(p)'
           work == InOrder("A", <<kernel>>)
           place == <<p>>
<1>1. Sequence(work) /\ Len(work) = 1 /\ work[1] = Entry(kernel, "A", {})
  <2> HIDE DEF kernel
  <2>1. Longer(work, 1, <<>>, Entry(kernel, "A", {}))
    BY ChainIs
  <2> HIDE DEF work
  <2> QED
    BY <2>1 DEF Longer
<1>2. DOMAIN work = {1}
  BY <1>1, SequenceDomain
<1>3. place \in [{1} -> Places] /\ place[1] = p
  BY DEF Places
<1>4. Enqueue(work)
  OBVIOUS
<1> HIDE DEF work, place, kernel
<1>5. \A i \in DOMAIN work : work[i].kernel = At(place[i])' /\ place[i] \in Due'
  BY <1>1, <1>2, <1>3 DEF Entry, kernel
<1>6. \A w \in Waits : \A i \in DOMAIN work : w[1] # place[i] /\ w[2] # place[i]
  <2> HIDE DEF Waits
  <2> QED
    BY <1>2, <1>3, WaitsAre
<1>7. \A i \in DOMAIN work : place[i] # "rhs" /\ place[i] # "mat"
  BY <1>2, <1>3
<1>8. Fits(work, place, {})
  <2>1. \A i, j \in DOMAIN work : i = j
    BY <1>2
  <2>2. place \in [DOMAIN work -> Places]
    BY <1>2, <1>3
  <2> HIDE DEF Due, Waits, Places, At
  <2> QED
    BY <1>1, <1>5, <1>6, <1>7, <2>1, <2>2 DEF Fits
<1>9. Placed(work, place, {})
  BY <1>4, <1>8, EnqueueFlight
<1> QED
  BY <1>2, <1>3, <1>9 DEF Placed, Places

-----------------------------------------------------------------------------
(***************************************************************************)
(* The invariant holds initially and is preserved by every step.           *)
(***************************************************************************)

\* The linear solver is called when the loop goes on.
GoesInv == pc \in {"guess", "iterate", "correct"} => Goes

HostInv == PoolInv /\ CallInv /\ GoesInv

LEMMA InitFlight ==
  ASSUME Init
  PROVE  FlightInv /\ InFlight("structure") /\ InFlight("guess")
<1> DEFINE structure == Kernel("structure", <<>>, <<>>, <<"structure">>, {})
           guess == Kernel("guess", <<>>, <<>>, <<"sol">>, {})
           Task(i) == [id |-> i, stream |-> InitWork[i].stream, kernel |-> InitWork[i].kernel,
                       after |-> InitWork[i].deps]
<1>1. /\ Sequence(InitWork) /\ Len(InitWork) = 2
      /\ InitWork[1] = Entry(structure, "A", {}) /\ InitWork[2] = Entry(guess, "A", {1})
  <2> DEFINE work == InOrder("A", <<structure, guess>>)
  <2>1. InitWork = work
    BY DEF InitWork
  <2> HIDE DEF structure, guess
  <2>2. PICK one : /\ Longer(one, 1, <<>>, Entry(structure, "A", {}))
                   /\ Longer(work, 2, one, Entry(guess, "A", {1}))
    BY ChainIs
  <2> HIDE DEF work
  <2> QED
    BY <2>1, <2>2 DEF Longer
<1>2. DOMAIN InitWork = {1, 2}
  BY <1>1, SequenceDomain
<1>3. pending = {Task(i) : i \in DOMAIN InitWork}
  BY DEF Init
<1>4. pending = {Task(1), Task(2)}
  BY <1>2, <1>3
<1>5. /\ Task(1).id = 1 /\ Task(1).kernel = structure
      /\ Task(2).id = 2 /\ Task(2).kernel = guess /\ 1 \in Task(2).after
  <2> HIDE DEF InitWork, structure, guess
  <2> QED
    BY <1>1 DEF Entry
<1>6. structure = At("structure") /\ guess = At("guess")
  BY DEF At
<1> HIDE DEF structure, guess, Task, InitWork
<1>7. Due = {"structure", "guess"} /\ pc = "idle"
  BY DEF Init, Due
<1>8. \A p, q \in Places : At(p) = At(q) => p = q
  <2>1. CallInv
    <3>1. ASSUME session \in Sessions PROVE Len(session.calls) \in Nat
      BY <3>1, NewtonAssumption, LenProperties
    <3> QED
      BY <3>1 DEF Init, CallInv
  <2> QED
    BY <2>1, ApartAll
<1>9. "structure" \in Places /\ "guess" \in Places /\ structure # guess
  BY <1>6, <1>8 DEF Places
<1>10. \A w \in Waits : \A t, u \in pending :
         t.kernel = At(w[1]) /\ u.kernel = At(w[2]) => t.id \in u.after
  <2> SUFFICES ASSUME NEW w \in Waits, NEW t \in pending, NEW u \in pending,
                      t.kernel = At(w[1]), u.kernel = At(w[2])
               PROVE  t.id \in u.after
    OBVIOUS
  <2>1. w[1] \in {"structure", "guess"} /\ w[2] \in {"structure", "guess"}
    <3>1. w[1] \in Places /\ w[2] \in Places
      BY DueTypes
    <3> QED
      BY <1>4, <1>5, <1>6, <1>8, <1>9, <3>1
  <2>2. w[1] = "structure" /\ w[2] = "guess"
    BY <2>1, WaitsAre
  <2> QED
    BY <1>4, <1>5, <1>6, <1>9, <2>2
<1>11. InFlight("structure") /\ InFlight("guess")
  BY <1>4, <1>5, <1>6 DEF InFlight
<1>12. \A w \in Waits : w[2] \in Due => InFlight(w[2])
  BY <1>7, <1>11
<1>13. \A t \in pending : t.stream = "A"
  BY InitPoolInv, <1>7 DEF PoolInv, InFlightOn, Busy, Init
<1>14. \A t \in pending : \E p \in Due : t.kernel = At(p)
  BY <1>4, <1>5, <1>6, <1>7
<1>15. \A t, u \in pending : t.kernel = u.kernel => t = u
  BY <1>4, <1>5, <1>9
<1>16. \A t \in pending : t.kernel # At("rhs") /\ t.kernel # At("mat")
  <2>1. "rhs" \in Places /\ "mat" \in Places
    BY DEF Places
  <2> QED
    BY <1>4, <1>5, <1>6, <1>8, <1>9, <2>1
<1> QED
  BY <1>7, <1>10, <1>11, <1>12, <1>14, <1>15, <1>16 DEF FlightInv

LEMMA InitHostInv == Init => HostInv
<1>1. ASSUME session \in Sessions PROVE Len(session.calls) \in Nat
  BY <1>1, NewtonAssumption, LenProperties
<1> QED
  BY <1>1, InitPoolInv DEF Init, HostInv, CallInv, GoesInv

LEMMA NextCallInv == CallInv /\ PoolInv /\ [Next]_vars => CallInv' /\ session' = session
<1> SUFFICES ASSUME CallInv, PoolInv, [Next]_vars
             PROVE  CallInv' /\ session' = session
  OBVIOUS
<1>1. CASE BeginSolve
  <2>1. Len(session.calls) \in Nat
    BY NewtonAssumption, LenProperties DEF CallInv
  <2> QED
    BY <1>1, <2>1 DEF BeginSolve, CallInv
<1>2. CASE ApplyIterates
  <2>1. Target \in Range(Delta)
    BY <1>2, VectorType DEF ApplyIterates, PoolInv
  <2> QED
    BY <1>2, <2>1 DEF ApplyIterates, CallInv
<1>3. CASE Solve /\ ~ApplyIterates
  BY <1>3 DEF Solve, ScatterAfterResets, FirstNorm, NextNorm, BeginApply, ApplyReturnsGuess,
     ApplyReturns, Correct, ReturnSolution, CallInv
<1>4. CASE RunOne \/ UNCHANGED vars
  BY <1>4 DEF RunOne, vars, hostVars, CallInv
<1> QED
  BY <1>1, <1>2, <1>3, <1>4 DEF Next, Terminated

LEMMA NextGoesInv == GoesInv /\ [Next]_vars => GoesInv'
<1> SUFFICES ASSUME GoesInv, [Next]_vars
             PROVE  GoesInv'
  OBVIOUS
<1> USE DEF GoesInv, Goes, Request
<1>1. CASE BeginSolve
  BY <1>1 DEF BeginSolve, Assemble
<1>2. CASE Correct
  BY <1>2 DEF Correct, Assemble
<1>3. CASE Solve /\ ~Correct
  BY <1>3 DEF Solve, ScatterAfterResets, FirstNorm, NextNorm, BeginApply, ApplyReturnsGuess,
     ApplyIterates, ApplyReturns, ReturnSolution
<1>4. CASE RunOne \/ UNCHANGED vars
  BY <1>4 DEF RunOne, vars, hostVars
<1> QED
  BY <1>1, <1>2, <1>3, <1>4 DEF Next, Terminated

LEMMA NextHostInv == HostInv /\ [Next]_vars => HostInv' /\ session' = session
BY NextPoolInv, NextCallInv, NextGoesInv DEF HostInv

\* assemble(), called by solve().
LEMMA AssembleFlight ==
  ASSUME CallInv', FlightInv, InFlightOn({"A"}), Due \in {{}, {"structure", "guess"}},
         session' = session, Assemble(<<At("ahead")'>>)
  PROVE  /\ FlightInv'
         /\ \A p \in Due : InFlight(p)' <=> InFlight(p)
         /\ \A p \in {"ahead", "fill", "rhs", "mat"} : InFlight(p)'
         /\ \A p \in Places : InFlight(p)' =>
              \/ p \in Due \cup {"ahead", "fill", "rhs", "mat"}
              \/ pc' = "norm" /\ p \in {"scatter", "nrm2"}
         /\ pc' = "norm" => InFlight("scatter")' /\ InFlight("nrm2")'
         /\ pc' = IF session.graph THEN "norm" ELSE "resets"
<1>1. CASE session.graph
  <2>1. Enqueue(AssemblyGraph(<<At("ahead")'>>, <<Nrm2>>)) /\ pc' = "norm"
    BY <1>1 DEF Assemble
  <2> HIDE DEF At, Due
  <2>2. /\ FlightInv'
        /\ \A p \in Due : InFlight(p)' <=> InFlight(p)
        /\ \A p \in {"ahead", "fill", "rhs", "mat", "scatter", "nrm2"} : InFlight(p)'
        /\ \A p \in Places : InFlight(p)' =>
             p \in Due \cup {"ahead", "fill", "rhs", "mat", "scatter", "nrm2"}
    BY <1>1, <2>1, AssembleInGraph
  <2> QED
    BY <1>1, <2>1, <2>2
<1>2. CASE ~session.graph
  <2>1. Enqueue(FillAndReset(<<At("ahead")'>>)) /\ pc' = "resets"
    BY <1>2 DEF Assemble
  <2> HIDE DEF At, Due
  <2>2. /\ FlightInv'
        /\ \A p \in Due : InFlight(p)' <=> InFlight(p)
        /\ \A p \in {"ahead", "fill", "rhs", "mat"} : InFlight(p)'
        /\ \A p \in Places : InFlight(p)' => p \in Due \cup {"ahead", "fill", "rhs", "mat"}
    BY <1>2, <2>1, AssembleOnInstances
  <2> QED
    BY <1>2, <2>1, <2>2
<1> QED
  BY <1>1, <1>2

\* What the host thread enqueues, by the names of the places.
LEMMA HostKernels ==
  ASSUME HostInv
  PROVE  /\ BeginSolve => Assemble(<<At("ahead")'>>) /\ Due \in {{}, {"structure", "guess"}}
         /\ Correct => Assemble(<<At("ahead")'>>) /\ Due = {}
         /\ BeginApply => Enqueue(InOrder("A", <<At("residual")'>>)) /\ Due' = {"residual"}
         /\ ApplyIterates => Enqueue(InOrder("A", <<At("improve")'>>)) /\ Due' = {"improve"}
<1>1. ASSUME BeginSolve
      PROVE  Assemble(<<At("ahead")'>>) /\ Due \in {{}, {"structure", "guess"}}
  <2>1. call' = call + 1 /\ call \in Nat /\ First'
    BY <1>1 DEF BeginSolve, First, HostInv, CallInv
  <2>2. At("ahead")' = Reset(Delta[call + 1])
    <3>1. Vector' = Delta[call + 1]
      BY <2>1 DEF Vector
    <3>2. At("ahead")' = Reset(Vector')
      BY <2>1 DEF At
    <3> QED
      BY <3>1, <3>2
  <2> HIDE DEF At
  <2> QED
    BY <1>1, <2>2 DEF BeginSolve, Due
<1>2. ASSUME Correct
      PROVE  Assemble(<<At("ahead")'>>) /\ Due = {}
  <2>1. ~First' /\ call' = call /\ call > 0
    <3>1. FiniteMax.what = "finite max"
      BY DEF FiniteMax, Value, Made
    <3>2. res_nrm2.what = "norm" /\ res_nrm2' = res_nrm2 /\ call' = call /\ call > 0
      BY <1>2 DEF Correct, HostInv, PoolInv, GoesInv, Goes
    <3>3. First' <=> res_nrm2' = FiniteMax
      BY DEF First, FiniteMax
    <3> QED
      BY <3>1, <3>2, <3>3
  <2>2. At("ahead")' = Subtract(Delta[call])
    <3>1. Vector' = Delta[call]
      BY <2>1 DEF Vector
    <3>2. At("ahead")' = Subtract(Vector')
      BY <2>1 DEF At
    <3> QED
      BY <3>1, <3>2
  <2> HIDE DEF At
  <2> QED
    BY <1>2, <2>2 DEF Correct, Due
<1>3. ASSUME BeginApply
      PROVE  Enqueue(InOrder("A", <<At("residual")'>>)) /\ Due' = {"residual"}
  <2>1. At("residual")' = LinearResidual(Delta[call])
    <3>1. Vector' = Delta[call]
      BY <1>3 DEF BeginApply, Vector, HostInv, PoolInv
    <3>2. At("residual")' = LinearResidual(Vector')
      BY DEF At
    <3> QED
      BY <3>1, <3>2
  <2> HIDE DEF At
  <2> QED
    BY <1>3, <2>1 DEF BeginApply, Due
<1>4. ASSUME ApplyIterates
      PROVE  Enqueue(InOrder("A", <<At("improve")'>>)) /\ Due' = {"improve"}
  <2>1. Target' = Target
    <3>1. Target \in Range(Delta)
      BY <1>4, VectorType DEF ApplyIterates, HostInv, PoolInv
    <3>2. Target # "none"
      BY <3>1, NewtonAssumption
    <3> QED
      BY <1>4, <3>2 DEF ApplyIterates, Target
  <2>2. At("improve")' = LinearIteration(Target)
    <3>1. At("improve")' = LinearIteration(Target')
      BY DEF At
    <3> QED
      BY <2>1, <3>1
  <2> HIDE DEF At
  <2> QED
    BY <1>4, <2>2 DEF ApplyIterates, Due
<1> QED
  BY <1>1, <1>2, <1>3, <1>4

\* Where only nothing may be in flight, nothing is.
LEMMA QuietHost ==
  ASSUME HostInv, pc \in {"loop", "correct"} \/ (pc = "idle" /\ call > 0)
  PROVE  pending = {}
BY DEF HostInv, PoolInv, CallInv, Busy, InFlightOn

LEMMA SolveFlight ==
  ASSUME HostInv, HostInv', FlightInv, session' = session, BeginSolve \/ Solve
  PROVE  FlightInv'
<1> HIDE DEF At, Due
<1>1. CASE BeginSolve
  <2>1. InFlightOn({"A"})
    BY <1>1 DEF BeginSolve, HostInv, PoolInv, Busy, InFlightOn
  <2> QED
    BY <1>1, <2>1, HostKernels, AssembleFlight DEF HostInv
<1>2. CASE Correct
  <2>1. InFlightOn({"A"})
    BY <1>2, QuietHost DEF Correct, InFlightOn
  <2> QED
    BY <1>2, <2>1, HostKernels, AssembleFlight DEF HostInv
<1>3. CASE ScatterAfterResets
  <2>1. InFlightOn({"A"})
    BY <1>3 DEF ScatterAfterResets, HostInv, PoolInv, Busy, InFlightOn, Fenced
  <2> QED
    BY <1>3, <2>1, ScatterFlight DEF HostInv
<1>4. CASE BeginApply
  <2>1. pending = {}
    BY <1>4, QuietHost DEF BeginApply
  <2>2. pc' \in {"guess", "iterate"}
    BY <1>4 DEF BeginApply
  <2> QED
    BY <1>4, <2>1, <2>2, HostKernels, EnqueueOneFlight DEF HostInv
<1>5. CASE ApplyIterates
  <2>1. pending = {}
    BY <1>5 DEF ApplyIterates, HostInv, PoolInv, Busy, InFlightOn, Fenced
  <2>2. pc' \in {"guess", "iterate"}
    BY <1>5 DEF ApplyIterates
  <2> QED
    BY <1>5, <2>1, <2>2, HostKernels, EnqueueOneFlight DEF HostInv
<1>6. CASE FirstNorm \/ NextNorm \/ ApplyReturnsGuess \/ ApplyReturns \/ ReturnSolution
  <2>1. pending = {}
    BY <1>6, QuietHost DEF FirstNorm, NextNorm, ApplyReturnsGuess, ApplyReturns, ReturnSolution, HostInv,
       PoolInv, Busy, InFlightOn, Fenced
  <2>2. pending' = {} /\ pc' # "resets"
    BY <1>6, <2>1 DEF FirstNorm, NextNorm, ApplyReturnsGuess, ApplyReturns, ReturnSolution, deviceVars
  <2> QED
    BY <2>2 DEF FlightInv, InFlight
<1> QED
  BY <1>1, <1>2, <1>3, <1>4, <1>5, <1>6 DEF Solve

LEMMA NextFlight == HostInv /\ FlightInv /\ [Next]_vars => FlightInv'
<1> SUFFICES ASSUME HostInv, FlightInv, [Next]_vars
             PROVE  FlightInv'
  OBVIOUS
<1>1. CASE BeginSolve \/ Solve
  BY <1>1, SolveFlight, NextHostInv
<1>2. CASE RunOne
  <2>1. PICK t \in pending : RunKernel(t, Results(t.kernel.op, Operands(t)))
    BY <1>2 DEF RunOne
  <2>2. PICK p \in Due : t.kernel = At(p)
    BY DEF FlightInv
  <2> HIDE DEF At, Due, FlightInv, Results
  <2> QED
    BY <1>2, <2>1, <2>2, RunFlight DEF RunOne, HostInv
<1>3. CASE UNCHANGED vars
  <2>1. UNCHANGED hostVars /\ pending' = pending
    BY <1>3 DEF vars, deviceVars
  <2>2. /\ \A p : At(p)' = At(p)
        /\ Due' = Due /\ Waits' = Waits /\ pc' = pc /\ session' = session
    BY <2>1, SameKernels DEF hostVars
  <2> HIDE DEF At, Due, Waits
  <2> QED
    BY <2>1, <2>2 DEF FlightInv, InFlight
<1> QED
  BY <1>1, <1>2, <1>3 DEF Next, Terminated

-----------------------------------------------------------------------------

\* Kernels that may be ready at the same time.
LEMMA Concurrent ==
  ASSUME HostInv, FlightInv, NEW p \in Due, NEW q \in Due, p # q,
         NEW t \in pending, t.kernel = At(p), Ready(t),
         NEW u \in pending, u.kernel = At(q), Ready(u)
  PROVE  /\ {p, q} \subseteq {"structure", "guess", "ahead", "fill", "rhs", "mat"}
         /\ p \in {"rhs", "mat"} \/ q \in {"rhs", "mat"}
<1>1. \A w \in Waits : ~(w[1] = p /\ w[2] = q) /\ ~(w[1] = q /\ w[2] = p)
  BY DEF FlightInv, Ready
<1>2. InFlight(p) /\ InFlight(q)
  BY DEF InFlight
<1>3. \A w \in Waits : w[2] = p \/ w[2] = q => ~InFlight(w[1])
  BY DEF FlightInv, Ready, InFlight
<1>4. \A w \in Waits : w[2] \in Due /\ InFlight(w[1]) => InFlight(w[2])
  BY DEF FlightInv
<1>5. /\ <<"structure", "guess">> \in Waits /\ <<"guess", "ahead">> \in Waits
      /\ <<"ahead", "fill">> \in Waits /\ <<"fill", "scatter">> \in Waits
      /\ <<"rhs", "scatter">> \in Waits /\ <<"mat", "scatter">> \in Waits
      /\ <<"scatter", "nrm2">> \in Waits
  BY DEF Waits
<1> HIDE DEF Waits
<1>6. \A r \in {p, q} :
        /\ r = "guess" => ~InFlight("structure")
        /\ r = "ahead" => ~InFlight("guess")
        /\ r = "fill" => ~InFlight("ahead")
        /\ r = "scatter" => ~InFlight("fill") /\ ~InFlight("rhs") /\ ~InFlight("mat")
        /\ r = "nrm2" => ~InFlight("scatter")
  BY <1>3, <1>5
<1>7. /\ "guess" \in Due /\ InFlight("structure") => InFlight("guess")
      /\ "ahead" \in Due /\ InFlight("guess") => InFlight("ahead")
      /\ "fill" \in Due /\ InFlight("ahead") => InFlight("fill")
      /\ "scatter" \in Due /\ InFlight("fill") => InFlight("scatter")
      /\ "scatter" \in Due /\ InFlight("rhs") => InFlight("scatter")
      /\ "scatter" \in Due /\ InFlight("mat") => InFlight("scatter")
      /\ "nrm2" \in Due /\ InFlight("scatter") => InFlight("nrm2")
  BY <1>4, <1>5
<1>8. CASE pc = "resets"
  <2>1. Due = {"structure", "guess", "ahead", "fill", "rhs", "mat"}
    BY <1>8 DEF Due
  <2> QED
    BY <1>2, <1>6, <1>7, <2>1
<1>9. CASE pc = "norm"
  <2>1. /\ Due \subseteq {"structure", "guess", "ahead", "fill", "rhs", "mat", "scatter", "nrm2"}
        /\ {"structure", "guess", "ahead", "fill", "scatter", "nrm2"} \subseteq Due
    BY <1>9 DEF Due
  <2> QED
    BY <1>2, <1>6, <1>7, <2>1
<1>10. CASE pc \notin {"resets", "norm"}
  <2>1. Due \subseteq {"structure", "guess"} \/ \E r : Due = {r}
    BY <1>10 DEF Due
  <2>2. Due = {"structure", "guess"}
    BY <1>10, <2>1 DEF Due
  <2> QED
    BY <1>2, <1>6, <1>7, <2>2
<1> QED
  BY <1>8, <1>9, <1>10

\* Kernels that may run at the same time do not touch the same view: the resets meet
\* neither the filling nor what was enqueued before the assembly, each has a view of
\* its own, and every other kernel waits (NonLinear1DHeatTransfer.hpp:217-243).
THEOREM RaceFree == Spec => []NoConcurrentAccess
<1>1. HostInv /\ FlightInv => NoConcurrentAccess
  <2> SUFFICES ASSUME HostInv, FlightInv, NEW t \in pending, NEW u \in pending, t # u,
                      Ready(t), Ready(u)
               PROVE  ~Conflict(t, u)
    BY DEF NoConcurrentAccess, NoRace
  <2>1. PICK p \in Due, q \in Due : t.kernel = At(p) /\ u.kernel = At(q)
    BY DEF FlightInv
  <2>2. p # q
    BY <2>1 DEF FlightInv
  <2> HIDE DEF Due
  <2>3. /\ p \in {"structure", "guess", "ahead", "fill", "rhs", "mat"}
        /\ q \in {"structure", "guess", "ahead", "fill", "rhs", "mat"}
        /\ p \in {"rhs", "mat"} \/ q \in {"rhs", "mat"}
    BY <2>1, <2>2, Concurrent
  <2> DEFINE Touched(r) == Range(At(r).in) \cup Range(At(r).out)
  <2>4. /\ Touched("rhs") = {"rhs"} /\ Touched("mat") = {"mat"}
        /\ Touched("structure") = {"structure"} /\ Touched("guess") = {"sol"}
        /\ Touched("fill") = {"sol", "stacked"}
        /\ Touched("ahead") \subseteq {"sol", Vector}
  <3>1. Range(<<"sol">>) = {"sol"} /\ Range(<<"stacked">>) = {"stacked"} /\ Range(<<>>) = {}
          /\ Range(<<"rhs">>) = {"rhs"} /\ Range(<<"mat">>) = {"mat"}
          /\ Range(<<"structure">>) = {"structure"} /\ Range(<<Vector>>) = {Vector}
          /\ Range(<<"sol", Vector>>) = {"sol", Vector}
      BY NoName, OneName, TwoNames
    <3> HIDE DEF At, Vector, First
    <3> QED
      BY <3>1, KernelIs
  <2>5. Vector \notin {"rhs", "mat"}
    BY VectorType DEF HostInv, ProblemBuffer
  <2>6. Touched(p) \cap Touched(q) = {}
    <3> HIDE DEF Touched, Vector
    <3> QED
      BY <2>2, <2>3, <2>4, <2>5
  <2>7. At(p).scratch = {} /\ At(q).scratch = {}
    BY <2>3, NoScalars DEF Places
  <2> HIDE DEF At
  <2> QED
    BY <2>1, <2>6, <2>7 DEF Conflict, Reads, Writes
<1>2. Init => FlightInv
  BY InitFlight
<1> QED
  BY <1>1, <1>2, InitHostInv, NextHostInv, NextFlight, PTL DEF Spec

-----------------------------------------------------------------------------
(***************************************************************************)
(* What the kernels leave in memory.                                       *)
(***************************************************************************)

\* A kernel leaves v in buffer b, and nothing else.
Sets(b, v) == mem' = [a \in DOMAIN mem |-> IF a = b THEN v ELSE mem[a]]

\* The operands of a kernel that captured no scalars.
LEMMA OneOperand ==
  ASSUME NEW t, t.kernel.args = <<>>, NEW a, t.kernel.in = <<a>>
  PROVE  Operands(t)[1] = mem[a]
<1>1. /\ DOMAIN t.kernel.in = {1}
      /\ t.kernel.in[1] = a
  OBVIOUS
<1>2. t.kernel.in = [i \in 1 .. 1 |-> t.kernel.in[i]]
  OBVIOUS
<1>3. Sequence(t.kernel.in)
  BY <1>2, SequenceMade
<1>4. Operands(t) = [i \in DOMAIN t.kernel.in |-> mem[t.kernel.in[i]]]
  BY <1>3, OperandsAre
<1> QED
  BY <1>1, <1>4

LEMMA TwoOperands ==
  ASSUME NEW t, t.kernel.args = <<>>, NEW a, NEW b, t.kernel.in = <<a, b>>
  PROVE  Operands(t)[1] = mem[a] /\ Operands(t)[2] = mem[b]
<1>1. /\ DOMAIN t.kernel.in = {1, 2}
      /\ t.kernel.in[1] = a /\ t.kernel.in[2] = b
  OBVIOUS
<1>2. t.kernel.in = [i \in 1 .. 2 |-> t.kernel.in[i]]
  OBVIOUS
<1>3. Sequence(t.kernel.in)
  BY <1>2, SequenceMade
<1>4. Operands(t) = [i \in DOMAIN t.kernel.in |-> mem[t.kernel.in[i]]]
  BY <1>3, OperandsAre
<1> QED
  BY <1>1, <1>4

LEMMA ThreeOperands ==
  ASSUME NEW t, t.kernel.args = <<>>, NEW a, NEW b, NEW c, t.kernel.in = <<a, b, c>>
  PROVE  Operands(t)[1] = mem[a] /\ Operands(t)[2] = mem[b] /\ Operands(t)[3] = mem[c]
<1>1. /\ DOMAIN t.kernel.in = {1, 2, 3}
      /\ t.kernel.in[1] = a /\ t.kernel.in[2] = b /\ t.kernel.in[3] = c
  OBVIOUS
<1>2. t.kernel.in = [i \in 1 .. 3 |-> t.kernel.in[i]]
  OBVIOUS
<1>3. Sequence(t.kernel.in)
  BY <1>2, SequenceMade
<1>4. Operands(t) = [i \in DOMAIN t.kernel.in |-> mem[t.kernel.in[i]]]
  BY <1>3, OperandsAre
<1> QED
  BY <1>1, <1>4

LEMMA FourOperands ==
  ASSUME NEW t, t.kernel.args = <<>>, NEW a, NEW b, NEW c, NEW d, t.kernel.in = <<a, b, c, d>>
  PROVE  /\ Operands(t)[1] = mem[a] /\ Operands(t)[2] = mem[b]
         /\ Operands(t)[3] = mem[c] /\ Operands(t)[4] = mem[d]
<1>1. /\ DOMAIN t.kernel.in = {1, 2, 3, 4}
      /\ t.kernel.in[1] = a /\ t.kernel.in[2] = b /\ t.kernel.in[3] = c /\ t.kernel.in[4] = d
  OBVIOUS
<1>2. t.kernel.in = [i \in 1 .. 4 |-> t.kernel.in[i]]
  OBVIOUS
<1>3. Sequence(t.kernel.in)
  BY <1>2, SequenceMade
<1>4. Operands(t) = [i \in DOMAIN t.kernel.in |-> mem[t.kernel.in[i]]]
  BY <1>3, OperandsAre
<1> QED
  BY <1>1, <1>4

\* A kernel without operands.
LEMMA RunNullary ==
  ASSUME NEW p \in Places, NEW t, t.kernel = At(p), RunKernel(t, Results(t.kernel.op, Operands(t)))
  PROVE  /\ p = "structure" => Sets("structure", Value("structure", 0))
         /\ p = "guess" => Sets("sol", Value("sol", 0))
         /\ p = "ahead" /\ First => Sets(Vector, Zero)
         /\ p = "rhs" => Sets("rhs", Zero)
         /\ p = "mat" => Sets("mat", Zero)
<1> DEFINE results == Results(t.kernel.op, Operands(t))
<1>1. /\ t.kernel.op = "structure" => results[1] = Value("structure", 0)
      /\ t.kernel.op = "guess" => results[1] = Value("sol", 0)
      /\ t.kernel.op = "zero" => results[1] = Zero
  BY DEF Results, ProblemResults
<1> HIDE DEF results
<1>2. ASSUME NEW b, t.kernel.out = <<b>>
      PROVE  Sets(b, results[1])
  BY <1>2, WritesOne DEF Sets, results
<1> HIDE DEF At, First, Vector
<1> QED
  BY <1>1, <1>2, KernelIs

\* A kernel with one or two operands that writes one buffer.
LEMMA RunUnary ==
  ASSUME NEW p \in Places, NEW t, t.kernel = At(p), RunKernel(t, Results(t.kernel.op, Operands(t)))
  PROVE  /\ p = "ahead" /\ ~First => Sets("sol", Corrected(<<mem["sol"], mem[Vector]>>))
         /\ p = "fill" => Sets("stacked", IF mem["sol"].what = "sol" THEN Value("stacked", mem["sol"].of)
                                                                      ELSE Garbage)
         /\ p = "nrm2" => Sets("norm", IF mem["rhs"].what = "rhs" THEN Value("norm", mem["rhs"].of) ELSE Garbage)
<1> DEFINE results == Results(t.kernel.op, Operands(t))
           v == Operands(t)
<1> HIDE DEF v
<1>1. /\ t.kernel.op = "subtract" => results[1] = Corrected(v)
      /\ t.kernel.op = "fill" => results[1] = IF v[1].what = "sol" THEN Value("stacked", v[1].of) ELSE Garbage
      /\ t.kernel.op = "nrm2" => results[1] = IF v[1].what = "rhs" THEN Value("norm", v[1].of) ELSE Garbage
  BY DEF Results, ProblemResults, v
<1> HIDE DEF results
<1>2. ASSUME NEW b, t.kernel.out = <<b>>
      PROVE  Sets(b, results[1])
  BY <1>2, WritesOne DEF Sets, results
<1>3. /\ p = "ahead" /\ ~First => v[1] = mem["sol"] /\ v[2] = mem[Vector]
      /\ p = "fill" => v[1] = mem["sol"]
      /\ p = "nrm2" => v[1] = mem["rhs"]
  <2>1. t.kernel.args = <<>>
    BY NoScalars
  <2>2. /\ p = "ahead" /\ ~First => t.kernel.in = <<"sol", Vector>>
        /\ p = "fill" => t.kernel.in = <<"sol">>
        /\ p = "nrm2" => t.kernel.in = <<"rhs">>
    <3> HIDE DEF At, First, Vector
    <3> QED
      BY KernelIs
  <2> HIDE DEF At, First, Vector
  <2> QED
    BY <2>1, <2>2, OneOperand, TwoOperands DEF v
<1>4. /\ p = "ahead" /\ ~First => t.kernel.op = "subtract" /\ t.kernel.out = <<"sol">>
      /\ p = "fill" => t.kernel.op = "fill" /\ t.kernel.out = <<"stacked">>
      /\ p = "nrm2" => t.kernel.op = "nrm2" /\ t.kernel.out = <<"norm">>
  <2> HIDE DEF At, First, Vector
  <2> QED
    BY KernelIs
<1> HIDE DEF At, First, Vector
<1> QED
  BY <1>1, <1>2, <1>3, <1>4 DEF Corrected

\* A kernel of the assembly or of the linear solver with several operands.
LEMMA RunScatter ==
  ASSUME NEW t, t.kernel = At("scatter"), RunKernel(t, Results(t.kernel.op, Operands(t))),
         mem["stacked"].what = "stacked", mem["mat"] = Zero, mem["rhs"] = Zero
  PROVE  mem' = [a \in DOMAIN mem |->
                   IF a = "mat" THEN Value("mat", mem["stacked"].of)
                   ELSE IF a = "rhs" THEN Value("rhs", mem["stacked"].of) ELSE mem[a]]
<1> DEFINE results == Results(t.kernel.op, Operands(t))
<1>1. /\ t.kernel.op = "scatter" /\ t.kernel.in = <<"stacked", "mat", "rhs">>
      /\ t.kernel.out = <<"mat", "rhs">> /\ t.kernel.args = <<>>
  <2>1. At("scatter").args = <<>>
    BY NoScalars DEF Places
  <2> HIDE DEF At
  <2> QED
    BY <2>1, KernelIs
<1>2. /\ Operands(t)[1] = mem["stacked"] /\ Operands(t)[2] = mem["mat"] /\ Operands(t)[3] = mem["rhs"]
  BY <1>1, ThreeOperands
<1>3. results = <<Value("mat", mem["stacked"].of), Value("rhs", mem["stacked"].of)>>
  BY <1>1, <1>2 DEF Results, ProblemResults, Scattered
<1>4. results[1] = Value("mat", mem["stacked"].of) /\ results[2] = Value("rhs", mem["stacked"].of)
  BY <1>3, Tuples
<1> HIDE DEF results
<1>5. mem' = [a \in DOMAIN mem |->
                IF a = "mat" THEN results[1] ELSE IF a = "rhs" THEN results[2] ELSE mem[a]]
  BY <1>1, WritesTwo DEF results
<1> QED
  BY <1>4, <1>5

LEMMA RunResidual ==
  ASSUME NEW t, t.kernel = At("residual"), RunKernel(t, Results(t.kernel.op, Operands(t))),
         NEW n, mem["structure"].what = "structure", mem["mat"] = Value("mat", n), mem["rhs"] = Value("rhs", n),
         Guess(mem[Vector])
  PROVE  Sets("res", Value("res", n))
<1> DEFINE results == Results(t.kernel.op, Operands(t))
           v == Operands(t)
<1>1. /\ t.kernel.op = "residual" /\ t.kernel.in = <<"structure", "mat", "rhs", Vector>>
      /\ t.kernel.out = <<"res">> /\ t.kernel.args = <<>>
  <2>1. At("residual").args = <<>>
    BY NoScalars DEF Places
  <2> HIDE DEF At, Vector
  <2> QED
    BY <2>1, KernelIs
<1> HIDE DEF Vector, v
<1>2. v[1] = mem["structure"] /\ v[2] = mem["mat"] /\ v[3] = mem["rhs"] /\ v[4] = mem[Vector]
  BY <1>1, FourOperands DEF v
<1>3. v[2].what = "mat" /\ v[2].of = n
  BY <1>2 DEF Value, Made
<1>4. Residual(v) = Value("res", n)
  BY <1>2, <1>3 DEF Residual
<1>5. results[1] = Residual(v)
  BY <1>1 DEF Results, v
<1> HIDE DEF results
<1>6. Sets("res", results[1])
  BY <1>1, WritesOne DEF Sets, results
<1> QED
  BY <1>4, <1>5, <1>6

LEMMA RunImprove ==
  ASSUME NEW t, t.kernel = At("improve"), RunKernel(t, Results(t.kernel.op, Operands(t))),
         NEW n, mem["structure"].what = "structure", mem["mat"] = Value("mat", n), mem["res"] = Value("res", n),
         Guess(mem[Target]), Target # "res"
  PROVE  Sets(Target, Made("delta", n, IF mem[Target].what = "delta" /\ mem[Target].of = n
                                         THEN mem[Target].made + 1 ELSE 1))
<1> DEFINE results == Results(t.kernel.op, Operands(t))
           v == Operands(t)
           better == Made("delta", n, IF mem[Target].what = "delta" /\ mem[Target].of = n
                                        THEN mem[Target].made + 1 ELSE 1)
<1>1. /\ t.kernel.op = "improve" /\ t.kernel.in = <<"structure", "mat", Target, "res">>
      /\ t.kernel.out = <<Target, "res">> /\ t.kernel.args = <<>>
  <2>1. At("improve").args = <<>>
    BY NoScalars DEF Places
  <2> HIDE DEF At, Target
  <2> QED
    BY <2>1, KernelIs
<1> HIDE DEF Target, v
<1>2. v[1] = mem["structure"] /\ v[2] = mem["mat"] /\ v[3] = mem[Target] /\ v[4] = mem["res"]
  BY <1>1, FourOperands DEF v
<1>3. v[2].what = "mat" /\ v[2].of = n
  BY <1>2 DEF Value, Made
<1>4. Improved(v) = better
  BY <1>2, <1>3 DEF Improved
<1> HIDE DEF better
<1>5. results = <<Improved(v), v[4]>>
  BY <1>1 DEF Results, v
<1>6. results[1] = better /\ results[2] = mem["res"]
  BY <1>2, <1>4, <1>5, Tuples
<1> HIDE DEF results
<1>7. mem' = [a \in DOMAIN mem |->
                IF a = Target THEN results[1] ELSE IF a = "res" THEN results[2] ELSE mem[a]]
  BY <1>1, WritesTwo DEF results
<1>8. Sets(Target, better)
  BY <1>6, <1>7 DEF Sets
<1> QED
  BY <1>8 DEF better

-----------------------------------------------------------------------------
(***************************************************************************)
(* What the memory holds, by what is in flight.                            *)
(***************************************************************************)

\* The linear solver improves the vector of the current call.
OnTarget == pc \in {"guess", "iterate"} => Target = Vector

\* The version of the solution that is to be had once the assembly is done.
Reached == entered + outer_iter
Version == IF pc \in {"resets", "norm"} /\ ~First THEN Reached + 1 ELSE Reached

Corrections(n) == {Made("delta", n, m) : m \in 0 .. MaxInner}

\* The vector of corrections at the beginning of an iteration.
Before(v) == v = Zero \/ \E n \in 0 .. Version - 1 : v \in Corrections(n)

SetUpInv ==
  pc = "idle" /\ call = 0 =>
    /\ entered = 0 /\ outer_iter = 0
    /\ InFlight("structure") \/ mem["structure"] = Value("structure", 0)
    /\ mem["sol"] = IF InFlight("guess") THEN Unset ELSE Value("sol", 0)

\* What is there already when the assembly begins: the solution and the vector of
\* corrections, or that they are about to be.
AheadInv ==
  pc \in {"resets", "norm"} =>
    /\ InFlight("structure") \/ mem["structure"] = Value("structure", 0)
    /\ InFlight("guess") => First /\ entered = 0 /\ mem["sol"] = Unset
    /\ First => /\ outer_iter = 0
                /\ InFlight("guess") \/ mem["sol"] = Value("sol", Version)
                /\ InFlight("ahead") \/ mem[Vector] = Zero
    /\ ~First => /\ Goes /\ res_nrm2 = Value("norm", Reached)
                 /\ mem[Vector] \in Corrections(Reached)
                 /\ mem["sol"] = Value("sol", IF InFlight("ahead") THEN Reached ELSE Version)

\* The system, the sum of the contributions, and its norm.
AssemblyInv ==
  pc \in {"resets", "norm"} =>
    /\ InFlight("fill") \/ mem["stacked"] = Value("stacked", Version)
    /\ pc = "resets" \/ InFlight("scatter") => /\ InFlight("rhs") \/ mem["rhs"] = Zero
                                               /\ InFlight("mat") \/ mem["mat"] = Zero
    /\ pc = "norm" => /\ InFlight("scatter") \/ (mem["rhs"] = Value("rhs", Version)
                                                 /\ mem["mat"] = Value("mat", Version))
                      /\ InFlight("nrm2") \/ mem["norm"] = Value("norm", Version)

SystemInv ==
  pc \in {"loop", "guess", "iterate", "correct"} =>
    /\ mem["structure"] = Value("structure", 0) /\ mem["sol"] = Value("sol", Version)
    /\ mem["mat"] = Value("mat", Version) /\ mem["rhs"] = Value("rhs", Version)
    /\ res_nrm2 = Value("norm", Version)

\* The vector of corrections and the residual of the linear system.
CorrectionInv ==
  /\ pc \in {"loop", "guess"} => Before(mem[Vector])
  /\ pc = "guess" => inner = 0 /\ (InFlight("residual") \/ mem["res"] = Value("res", Version))
  /\ pc = "iterate" => /\ mem["res"] = Value("res", Version)
                       /\ inner \in 1 .. MaxInner
                       /\ IF InFlight("improve")
                            THEN IF inner = 1 THEN Before(mem[Vector])
                                              ELSE mem[Vector] = Made("delta", Version, inner - 1)
                            ELSE mem[Vector] = Made("delta", Version, inner)
  /\ pc = "correct" => mem[Vector] \in Corrections(Version)

ReturnedInv ==
  pc = "idle" /\ call > 0 =>
    /\ mem["structure"] = Value("structure", 0) /\ mem["sol"] = Value("sol", Version)
    /\ returned = [res |-> Value("norm", Version), iters |-> outer_iter]

MemoryInv ==
  /\ DOMAIN mem = Buffer /\ mem = [b \in Buffer |-> mem[b]]
  /\ entered \in Nat /\ outer_iter \in Nat

ValueInv ==
  MemoryInv /\ SetUpInv /\ AheadInv /\ AssemblyInv /\ SystemInv /\ CorrectionInv /\ ReturnedInv

LEMMA ValueParts ==
  ASSUME NEW what, NEW of, NEW made
  PROVE  /\ Value(what, of).what = what /\ Value(what, of).of = of
         /\ Made(what, of, made).what = what /\ Made(what, of, made).of = of
         /\ Made(what, of, made).made = made
BY DEF Value, Made

LEMMA CorrectionParts ==
  ASSUME NEW n, NEW v \in Corrections(n)
  PROVE  v.what = "delta" /\ v.of = n /\ Guess(v)
BY DEF Corrections, Made, Guess

\* What changes when a kernel runs, and what does not.
LEMMA RunKeeps ==
  ASSUME HostInv, MemoryInv, UNCHANGED hostVars
  PROVE  /\ Version' = Version /\ Reached' = Reached /\ First' = First /\ Vector' = Vector
         /\ Goes' = Goes /\ Target' = Target
         /\ pc' = pc /\ call' = call /\ entered' = entered /\ outer_iter' = outer_iter
         /\ res_nrm2' = res_nrm2 /\ inner' = inner /\ returned' = returned
BY DEF hostVars, Version, Reached, First, Vector, Goes, Target, Request

LEMMA SetsIs ==
  ASSUME MemoryInv, UNCHANGED <<entered, outer_iter>>, NEW b \in Buffer, NEW v, Sets(b, v)
  PROVE  /\ MemoryInv'
         /\ mem'[b] = v /\ \A a \in Buffer : a # b => mem'[a] = mem[a]
<1>1. Buffer' = Buffer
  BY DEF Buffer
<1> HIDE DEF Buffer
<1> QED
  BY <1>1 DEF MemoryInv, Sets

\* The names of the buffers.
LEMMA Buffers ==
  ASSUME CallInv
  PROVE  /\ {"structure", "mat", "rhs", "sol", "stacked", "res", "norm", Vector} \subseteq Buffer
         /\ Vector \notin {"structure", "mat", "rhs", "sol", "stacked", "res", "norm"}
         /\ call > 0 => Target \in Buffer /\ Target # "res"
<1>1. /\ Vector \in Range(Delta) /\ (call > 0 => Target \in Range(Delta))
      /\ \A d \in Range(Delta) : d \notin ProblemBuffer \cup {"res", "norm", "none"}
      /\ Range(Delta) \subseteq Buffer /\ ProblemBuffer \subseteq Buffer /\ {"res", "norm"} \subseteq Buffer
  BY VectorType
<1> HIDE DEF Vector, Target, Buffer
<1> QED
  BY <1>1 DEF ProblemBuffer

\* The set-up of the problem.
LEMMA RunSetUp ==
  ASSUME HostInv, FlightInv, ValueInv, pc = "idle", NEW t \in pending,
         RunKernel(t, Results(t.kernel.op, Operands(t))), UNCHANGED hostVars
  PROVE  MemoryInv' /\ SetUpInv' /\ call = 0
<1>1. PICK p \in Due : t.kernel = At(p)
  BY DEF FlightInv
<1>2. call = 0 /\ Due = {"structure", "guess"}
  BY QuietHost, <1>1 DEF Due, HostInv, CallInv
<1>3. \A q \in Places : InFlight(q)' <=> InFlight(q) /\ q # p
  <2> HIDE DEF At, Due, Results, Places
  <2> QED
    BY <1>1, RunFlight DEF HostInv
<1>4. "structure" \in Places /\ "guess" \in Places /\ p \in Places
  BY <1>2, <1>1 DEF Places
<1>5. /\ p = "structure" => Sets("structure", Value("structure", 0))
      /\ p = "guess" => Sets("sol", Value("sol", 0))
  <2> HIDE DEF At, Due, Results, Places
  <2> QED
    BY <1>1, <1>4, RunNullary
<1>6. /\ pc' = pc /\ call' = call /\ entered' = entered /\ outer_iter' = outer_iter
      /\ "structure" \in Buffer /\ "sol" \in Buffer
  BY Buffers DEF hostVars, HostInv
<1>7. CASE p = "structure"
  <2>1. MemoryInv' /\ mem'["structure"] = Value("structure", 0) /\ mem'["sol"] = mem["sol"]
    BY <1>5, <1>6, <1>7, SetsIs DEF ValueInv
  <2>2. (InFlight("guess")' <=> InFlight("guess"))
    BY <1>3, <1>4, <1>7
  <2> HIDE DEF InFlight
  <2> QED
    BY <1>2, <1>6, <2>1, <2>2 DEF SetUpInv, ValueInv
<1>8. CASE p = "guess"
  <2>1. MemoryInv' /\ mem'["sol"] = Value("sol", 0) /\ mem'["structure"] = mem["structure"]
    BY <1>5, <1>6, <1>8, SetsIs DEF ValueInv
  <2>2. ~InFlight("guess")' /\ (InFlight("structure")' <=> InFlight("structure"))
    BY <1>3, <1>4, <1>8
  <2> HIDE DEF InFlight
  <2> QED
    BY <1>2, <1>6, <2>1, <2>2 DEF SetUpInv, ValueInv
<1> QED
  BY <1>1, <1>2, <1>7, <1>8

\* A kernel of the assembly runs.
LEMMA RunAssembling ==
  ASSUME HostInv, FlightInv, ValueInv, pc \in {"resets", "norm"}, NEW t \in pending,
         RunKernel(t, Results(t.kernel.op, Operands(t))), UNCHANGED hostVars
  PROVE  MemoryInv' /\ AheadInv' /\ AssemblyInv'
<1>1. PICK p \in Due : t.kernel = At(p)
  BY DEF FlightInv
<1>2. p \in {"structure", "guess", "ahead", "fill", "rhs", "mat", "scatter", "nrm2"} /\ p \in Places
  BY DueTypes DEF Due
<1> HIDE DEF At, Due, Results
<1>3. /\ \A q \in Places : InFlight(q)' <=> InFlight(q) /\ q # p
      /\ \A w \in Waits : w[2] = p => ~InFlight(w[1])
      /\ InFlight(p)
  BY <1>1, RunFlight DEF HostInv
<1>4. /\ \A q \in {"structure", "guess", "ahead", "fill", "rhs", "mat", "scatter", "nrm2"} :
           InFlight(q)' <=> InFlight(q) /\ q # p
      /\ p = "guess" => ~InFlight("structure")
      /\ p = "ahead" => ~InFlight("guess")
      /\ p = "fill" => ~InFlight("ahead") /\ ~InFlight("guess")
      /\ p = "scatter" => ~InFlight("fill") /\ ~InFlight("rhs") /\ ~InFlight("mat")
      /\ p = "nrm2" => ~InFlight("scatter")
      /\ pc = "norm" /\ p \in {"rhs", "mat"} => InFlight("scatter")
      /\ p = "scatter" => InFlight("nrm2")
      /\ p \in {"scatter", "nrm2"} => pc = "norm"
  <2>1. {"structure", "guess", "ahead", "fill", "rhs", "mat", "scatter", "nrm2"} \subseteq Places
    BY DEF Places
  <2>2. /\ <<"structure", "guess">> \in Waits /\ <<"guess", "ahead">> \in Waits
        /\ <<"ahead", "fill">> \in Waits /\ <<"fill", "scatter">> \in Waits
        /\ <<"rhs", "scatter">> \in Waits /\ <<"mat", "scatter">> \in Waits
        /\ <<"scatter", "nrm2">> \in Waits
    BY DEF Waits
  <2>3. \A w \in Waits : w[2] \in Due /\ InFlight(w[1]) => InFlight(w[2])
    BY DEF FlightInv
  <2>4. "ahead" \in Due /\ (pc = "norm" => "scatter" \in Due /\ "nrm2" \in Due)
        /\ (pc = "resets" => "scatter" \notin Due /\ "nrm2" \notin Due)
    BY DEF Due
  <2> HIDE DEF Waits, InFlight
  <2> QED
    BY <1>2, <1>3, <2>1, <2>2, <2>3, <2>4
<1>5. /\ Version' = Version /\ Reached' = Reached /\ First' = First /\ Vector' = Vector
      /\ Goes' = Goes /\ pc' = pc /\ entered' = entered /\ outer_iter' = outer_iter
      /\ res_nrm2' = res_nrm2
  BY RunKeeps DEF ValueInv
<1>6. /\ {"structure", "mat", "rhs", "sol", "stacked", "res", "norm", Vector} \subseteq Buffer
      /\ Vector \notin {"structure", "mat", "rhs", "sol", "stacked", "res", "norm"}
  BY Buffers DEF HostInv
<1>7. MemoryInv /\ AheadInv /\ AssemblyInv /\ Reached \in Nat
  BY DEF ValueInv, MemoryInv, Reached
<1>8. Version = IF First THEN Reached ELSE Reached + 1
  BY DEF Version
<1> DEFINE Same(S) == \A a \in {"structure", "mat", "rhs", "sol", "stacked", "norm", Vector} \ S : mem'[a] = mem[a]
<1>9. ASSUME NEW b \in {"structure", "mat", "rhs", "sol", "stacked", "norm", Vector}, NEW v, Sets(b, v)
      PROVE  MemoryInv' /\ mem'[b] = v /\ Same({b})
  BY <1>5, <1>6, <1>7, <1>9, SetsIs
<1> HIDE DEF InFlight, Version, Reached, First, Vector, Goes, Corrections, Value, Zero, Unset, MemoryInv
<1>10. CASE p = "structure"
  <2>1. MemoryInv' /\ mem'["structure"] = Value("structure", 0) /\ Same({"structure"})
    BY <1>1, <1>2, <1>9, <1>10, RunNullary
  <2> QED
    BY <1>4, <1>5, <1>6, <1>7, <1>10, <2>1 DEF AheadInv, AssemblyInv
<1>11. CASE p = "guess"
  <2>1. MemoryInv' /\ mem'["sol"] = Value("sol", 0) /\ Same({"sol"})
    BY <1>1, <1>2, <1>9, <1>11, RunNullary
  <2>2. First /\ Version = 0
    <3>1. First /\ entered = 0 /\ outer_iter = 0
      BY <1>3, <1>7, <1>11 DEF AheadInv
    <3> QED
      BY <1>8, <3>1 DEF Reached
  <2> QED
    BY <1>4, <1>5, <1>6, <1>7, <1>11, <2>1, <2>2 DEF AheadInv, AssemblyInv
<1>12. CASE p = "ahead" /\ First
  <2>1. MemoryInv' /\ mem'[Vector] = Zero /\ Same({Vector})
    BY <1>1, <1>2, <1>9, <1>12, RunNullary
  <2> QED
    BY <1>4, <1>5, <1>6, <1>7, <1>12, <2>1 DEF AheadInv, AssemblyInv
<1>13. CASE p = "ahead" /\ ~First
  <2>1. mem["sol"] = Value("sol", Reached) /\ mem[Vector] \in Corrections(Reached)
    BY <1>3, <1>7, <1>13 DEF AheadInv
  <2>2. Corrected(<<mem["sol"], mem[Vector]>>) = Value("sol", Version)
    <3>1. mem["sol"].what = "sol" /\ mem["sol"].of = Reached
      BY <2>1, ValueParts
    <3>2. mem[Vector].what = "delta" /\ mem[Vector].of = Reached
      BY <2>1, CorrectionParts
    <3> QED
      BY <1>8, <1>13, <3>1, <3>2 DEF Corrected
  <2>3. Sets("sol", Value("sol", Version))
    <3>1. Sets("sol", Corrected(<<mem["sol"], mem[Vector]>>))
      BY <1>1, <1>2, <1>13, RunUnary
    <3> QED
      BY <2>2, <3>1
  <2>4. MemoryInv' /\ mem'["sol"] = Value("sol", Version) /\ Same({"sol"})
    BY <1>9, <2>3
  <2> QED
    BY <1>4, <1>5, <1>6, <1>7, <1>13, <2>4 DEF AheadInv, AssemblyInv
<1>14. CASE p = "fill"
  <2>1. mem["sol"] = Value("sol", Version)
    BY <1>4, <1>7, <1>14 DEF AheadInv
  <2>2. Sets("stacked", Value("stacked", Version))
    <3>1. Sets("stacked", IF mem["sol"].what = "sol" THEN Value("stacked", mem["sol"].of) ELSE Garbage)
      BY <1>1, <1>2, <1>14, RunUnary
    <3> QED
      BY <2>1, <3>1, ValueParts
  <2>3. MemoryInv' /\ mem'["stacked"] = Value("stacked", Version) /\ Same({"stacked"})
    BY <1>9, <2>2
  <2> QED
    BY <1>4, <1>5, <1>6, <1>7, <1>14, <2>3 DEF AheadInv, AssemblyInv
<1>15. CASE p = "rhs"
  <2>1. MemoryInv' /\ mem'["rhs"] = Zero /\ Same({"rhs"})
    BY <1>1, <1>2, <1>9, <1>15, RunNullary
  <2> QED
    BY <1>4, <1>5, <1>6, <1>7, <1>15, <2>1 DEF AheadInv, AssemblyInv
<1>16. CASE p = "mat"
  <2>1. MemoryInv' /\ mem'["mat"] = Zero /\ Same({"mat"})
    BY <1>1, <1>2, <1>9, <1>16, RunNullary
  <2> QED
    BY <1>4, <1>5, <1>6, <1>7, <1>16, <2>1 DEF AheadInv, AssemblyInv
<1>17. CASE p = "scatter"
  <2>1. mem["stacked"] = Value("stacked", Version) /\ mem["rhs"] = Zero /\ mem["mat"] = Zero
    BY <1>3, <1>4, <1>7, <1>17 DEF AssemblyInv
  <2>2. mem["stacked"].what = "stacked" /\ mem["stacked"].of = Version
    BY <2>1, ValueParts
  <2>3. mem' = [a \in DOMAIN mem |->
                  IF a = "mat" THEN Value("mat", Version)
                  ELSE IF a = "rhs" THEN Value("rhs", Version) ELSE mem[a]]
    BY <1>1, <1>17, <2>1, <2>2, RunScatter
  <2>4. DOMAIN mem = Buffer /\ Buffer' = Buffer
    BY <1>7 DEF MemoryInv, Buffer
  <2>5. MemoryInv'
    <3> HIDE DEF Buffer
    <3> QED
      BY <1>5, <1>7, <2>3, <2>4 DEF MemoryInv
  <2>6. mem'["mat"] = Value("mat", Version) /\ mem'["rhs"] = Value("rhs", Version) /\ Same({"mat", "rhs"})
    BY <1>6, <2>3, <2>4
  <2> QED
    BY <1>4, <1>5, <1>6, <1>7, <1>17, <2>5, <2>6 DEF AheadInv, AssemblyInv
<1>18. CASE p = "nrm2"
  <2>1. mem["rhs"] = Value("rhs", Version)
    BY <1>4, <1>7, <1>18 DEF AssemblyInv
  <2>2. Sets("norm", Value("norm", Version))
    <3>1. Sets("norm", IF mem["rhs"].what = "rhs" THEN Value("norm", mem["rhs"].of) ELSE Garbage)
      BY <1>1, <1>2, <1>18, RunUnary
    <3> QED
      BY <2>1, <3>1, ValueParts
  <2>3. MemoryInv' /\ mem'["norm"] = Value("norm", Version) /\ Same({"norm"})
    BY <1>9, <2>2
  <2> QED
    BY <1>4, <1>5, <1>6, <1>7, <1>18, <2>3 DEF AheadInv, AssemblyInv
<1> QED
  BY <1>2, <1>10, <1>11, <1>12, <1>13, <1>14, <1>15, <1>16, <1>17, <1>18

LEMMA BeforeGuess ==
  ASSUME Version \in Nat, NEW v, Before(v)
  PROVE  Guess(v) /\ ~(v.what = "delta" /\ v.of = Version)
<1>1. CASE v = Zero
  BY <1>1 DEF Zero, Value, Made, Guess
<1>2. ASSUME NEW n \in 0 .. Version - 1, v \in Corrections(n)
      PROVE  Guess(v) /\ v.of # Version
  <2>1. v.of = n /\ Guess(v)
    BY <1>2, CorrectionParts
  <2> HIDE DEF Version
  <2> QED
    BY <2>1
<1> QED
  BY <1>1, <1>2 DEF Before

\* A kernel of the linear solver runs.
LEMMA RunLinear ==
  ASSUME HostInv, FlightInv, ValueInv, OnTarget, pc \in {"guess", "iterate"}, NEW t \in pending,
         RunKernel(t, Results(t.kernel.op, Operands(t))), UNCHANGED hostVars
  PROVE  MemoryInv' /\ SystemInv' /\ CorrectionInv'
<1>1. PICK p \in Due : t.kernel = At(p)
  BY DEF FlightInv
<1>2. p = (IF pc = "guess" THEN "residual" ELSE "improve") /\ p \in Places
  BY DueTypes DEF Due
<1> HIDE DEF At, Due, Results
<1>3. ~InFlight(p)' /\ InFlight(p)
  BY <1>1, <1>2, RunFlight DEF HostInv
<1>4. /\ Version' = Version /\ Vector' = Vector /\ pc' = pc /\ entered' = entered /\ outer_iter' = outer_iter
      /\ res_nrm2' = res_nrm2 /\ inner' = inner
  BY RunKeeps DEF ValueInv
<1>5. /\ {"structure", "mat", "rhs", "sol", "stacked", "res", "norm", Vector} \subseteq Buffer
      /\ Vector \notin {"structure", "mat", "rhs", "sol", "stacked", "res", "norm"}
  BY Buffers DEF HostInv
<1>6. MemoryInv /\ SystemInv /\ CorrectionInv /\ Version \in Nat
  BY DEF ValueInv, MemoryInv, Reached, Version
<1>7. Target = Vector
  BY DEF OnTarget
<1>8. mem["structure"].what = "structure" /\ mem["mat"] = Value("mat", Version) /\ mem["rhs"] = Value("rhs", Version)
  BY <1>6, ValueParts DEF SystemInv
<1>9. \A v : Before(v)' <=> Before(v)
  BY <1>4 DEF Before, Corrections, Zero
<1> HIDE DEF InFlight, Version, Vector, Target, Corrections, Value, MemoryInv, Before
<1>10. CASE pc = "guess"
  <2>1. Before(mem[Vector])
    BY <1>6, <1>10 DEF CorrectionInv
  <2>2. Sets("res", Value("res", Version))
    BY <1>1, <1>2, <1>8, <1>10, <2>1, <1>6, BeforeGuess, RunResidual
  <2>3. /\ MemoryInv' /\ mem'["res"] = Value("res", Version)
        /\ \A a \in {"structure", "mat", "rhs", "sol", Vector} : mem'[a] = mem[a]
    BY <1>4, <1>5, <1>6, <2>2, SetsIs
  <2>4. Before(mem[Vector])'
    BY <1>4, <1>9, <2>1, <2>3
  <2> QED
    BY <1>4, <1>6, <1>10, <2>3, <2>4 DEF SystemInv, CorrectionInv
<1>11. CASE pc = "iterate"
  <2> DEFINE better == Made("delta", Version, IF mem[Vector].what = "delta" /\ mem[Vector].of = Version
                                                THEN mem[Vector].made + 1 ELSE 1)
  <2>1. /\ mem["res"] = Value("res", Version) /\ inner \in 1 .. MaxInner
        /\ IF inner = 1 THEN Before(mem[Vector]) ELSE mem[Vector] = Made("delta", Version, inner - 1)
    BY <1>2, <1>3, <1>6, <1>11 DEF CorrectionInv
  <2>2. Guess(mem[Vector]) /\ better = Made("delta", Version, inner)
    <3>1. CASE inner = 1
      BY <1>6, <2>1, <3>1, BeforeGuess
    <3>2. CASE inner # 1
      <4>1. /\ mem[Vector].what = "delta" /\ mem[Vector].of = Version
            /\ mem[Vector].made = inner - 1
        BY <2>1, <3>2, ValueParts
      <4>2. inner - 1 + 1 = inner
        BY <2>1, NewtonAssumption
      <4> QED
        BY <4>1, <4>2 DEF Guess
    <3> QED
      BY <3>1, <3>2
  <2>3. Sets(Vector, better)
    BY <1>1, <1>2, <1>5, <1>7, <1>8, <1>11, <2>1, <2>2, RunImprove
  <2> HIDE DEF better
  <2>4. /\ MemoryInv' /\ mem'[Vector] = Made("delta", Version, inner)
        /\ \A a \in {"structure", "mat", "rhs", "sol", "res"} : mem'[a] = mem[a]
    BY <1>4, <1>5, <1>6, <2>2, <2>3, SetsIs
  <2> QED
    BY <1>2, <1>3, <1>4, <1>6, <1>11, <2>1, <2>4 DEF SystemInv, CorrectionInv
<1> QED
  BY <1>10, <1>11

\* A kernel runs.
LEMMA RunValues ==
  ASSUME HostInv, FlightInv, ValueInv, OnTarget, RunOne
  PROVE  ValueInv'
<1>1. PICK t \in pending : RunKernel(t, Results(t.kernel.op, Operands(t))) /\ UNCHANGED hostVars
  BY DEF RunOne
<1>2. pc' = pc /\ call' = call
  BY <1>1 DEF hostVars
<1>3. CASE pc = "idle"
  BY <1>1, <1>2, <1>3, RunSetUp
     DEF ValueInv, AheadInv, AssemblyInv, SystemInv, CorrectionInv, ReturnedInv, HostInv, CallInv
<1>4. CASE pc \in {"resets", "norm"}
  <2>1. MemoryInv' /\ AheadInv' /\ AssemblyInv'
    BY <1>1, <1>4, RunAssembling
  <2> QED
    BY <1>2, <1>4, <2>1 DEF ValueInv, SetUpInv, SystemInv, CorrectionInv, ReturnedInv
<1>5. CASE pc \in {"guess", "iterate"}
  <2>1. MemoryInv' /\ SystemInv' /\ CorrectionInv'
    BY <1>1, <1>5, RunLinear
  <2> QED
    BY <1>2, <1>5, <2>1 DEF ValueInv, SetUpInv, AheadInv, AssemblyInv, ReturnedInv
<1>6. CASE pc \in {"loop", "correct"}
  BY <1>1, <1>6, QuietHost
<1> QED
  BY <1>3, <1>4, <1>5, <1>6 DEF FlightInv, Due

\* Nothing is in flight once the first instance is fenced outside of assemble().
LEMMA FencedQuiet ==
  ASSUME HostInv, Fenced("A"), pc \in {"norm", "guess", "iterate"}
  PROVE  pending = {} /\ \A p : ~InFlight(p)
BY DEF HostInv, PoolInv, Busy, InFlightOn, Fenced, InFlight

\* solve() begins.
LEMMA BeginSolveValues ==
  ASSUME HostInv, HostInv', FlightInv, ValueInv, BeginSolve
  PROVE  ValueInv'
<1> DEFINE ahead == {"ahead", "fill", "rhs", "mat"}
<1>1. /\ session' = session /\ InFlightOn({"A"}) /\ Due \in {{}, {"structure", "guess"}}
      /\ Assemble(<<At("ahead")'>>)
  BY HostKernels DEF BeginSolve, HostInv, PoolInv, Busy, InFlightOn
<1>2. /\ \A p \in Due : InFlight(p)' <=> InFlight(p)
      /\ \A p \in ahead : InFlight(p)'
      /\ \A p \in Places : InFlight(p)' => p \in Due \cup ahead \/ (pc' = "norm" /\ p \in {"scatter", "nrm2"})
      /\ pc' = "norm" => InFlight("scatter")' /\ InFlight("nrm2")'
      /\ pc' \in {"norm", "resets"}
  <2> HIDE DEF At, Due, InFlight, Places
  <2> QED
    BY <1>1, AssembleFlight DEF HostInv
<1>3. /\ pc = "idle" /\ call \in Nat /\ First' /\ outer_iter' = 0 /\ entered' = mem["sol"].of /\ mem' = mem
      /\ call' = call + 1 /\ call' > 0
  BY DEF BeginSolve, First, HostInv, CallInv
<1>4. /\ mem["sol"].of \in Nat
      /\ call = 0 => Due = {"structure", "guess"} /\ (InFlight("guess") => mem["sol"].of = 0)
      /\ call > 0 => Due = {}
  <2>1. CASE call = 0
    <3>1. Unset.of = 0 /\ Value("sol", 0).of = 0
      BY ValueParts DEF Unset
    <3> QED
      BY <1>3, <2>1, <3>1 DEF ValueInv, SetUpInv, Due
  <2>2. CASE call > 0
    <3>1. mem["sol"] = Value("sol", Version) /\ Version \in Nat
      BY <1>3, <2>2 DEF ValueInv, ReturnedInv, Version, Reached, MemoryInv
    <3>2. mem["sol"].of = Version
      BY <3>1, ValueParts
    <3> QED
      BY <1>3, <2>2, <3>1, <3>2 DEF Due
  <2> QED
    BY <1>3, <2>1, <2>2
<1>5. Version' = mem["sol"].of
  BY <1>3, <1>4 DEF Version, Reached
<1>6. MemoryInv'
  BY <1>3, <1>4 DEF MemoryInv, ValueInv, Buffer
<1>7. "structure" \in Places /\ "guess" \in Places
  BY DEF Places
<1>8. AheadInv'
  <2> HIDE DEF InFlight, Due, First, Version, Vector, Value, Places
  <2>1. CASE call = 0
    <3>1. /\ InFlight("structure") \/ mem["structure"] = Value("structure", 0)
          /\ mem["sol"] = IF InFlight("guess") THEN Unset ELSE Value("sol", 0)
      BY <1>3, <2>1 DEF ValueInv, SetUpInv
    <3>2. ~InFlight("guess") => mem["sol"].of = 0
      BY <3>1, ValueParts
    <3> QED
      BY <1>2, <1>3, <1>4, <1>5, <2>1, <3>1, <3>2 DEF AheadInv
  <2>2. CASE call > 0
    <3>1. ~InFlight("structure")' /\ ~InFlight("guess")'
      BY <1>2, <1>4, <1>7, <2>2
    <3>2. mem["structure"] = Value("structure", 0) /\ mem["sol"] = Value("sol", Version)
      BY <1>3, <2>2 DEF ValueInv, ReturnedInv
    <3>3. mem["sol"] = Value("sol", Version')
      BY <1>5, <3>2, ValueParts
    <3> QED
      BY <1>2, <1>3, <3>1, <3>2, <3>3 DEF AheadInv
  <2> QED
    BY <1>3, <2>1, <2>2
<1>9. AssemblyInv'
  <2> HIDE DEF InFlight
  <2> QED
    BY <1>2 DEF AssemblyInv
<1> QED
  BY <1>2, <1>6, <1>8, <1>9 DEF ValueInv, SetUpInv, SystemInv, CorrectionInv, ReturnedInv

\* The solution is corrected.
LEMMA CorrectValues ==
  ASSUME HostInv, HostInv', FlightInv, ValueInv, Correct
  PROVE  ValueInv'
<1> DEFINE ahead == {"ahead", "fill", "rhs", "mat"}
<1>1. /\ session' = session /\ InFlightOn({"A"}) /\ Due = {} /\ Assemble(<<At("ahead")'>>)
  BY HostKernels, QuietHost DEF Correct, InFlightOn
<1>2. /\ \A p \in ahead : InFlight(p)'
      /\ \A p \in Places : InFlight(p)' => p \in ahead \/ (pc' = "norm" /\ p \in {"scatter", "nrm2"})
      /\ pc' = "norm" => InFlight("scatter")' /\ InFlight("nrm2")'
      /\ pc' \in {"norm", "resets"}
  <2> HIDE DEF At, Due, InFlight, Places
  <2> QED
    BY <1>1, AssembleFlight DEF HostInv
<1>3. /\ pc = "correct" /\ mem' = mem /\ Reached' = Reached /\ Vector' = Vector /\ Goes' = Goes
      /\ res_nrm2' = res_nrm2 /\ entered' = entered /\ outer_iter' = outer_iter
  BY DEF Correct, Reached, Vector, Goes, Request
<1>4. Goes /\ ~First'
  <2>1. Goes
    BY <1>3 DEF HostInv, GoesInv
  <2>2. FiniteMax.what = "finite max" /\ (First' <=> res_nrm2' = FiniteMax)
    BY DEF FiniteMax, Value, Made, First
  <2> QED
    BY <1>3, <2>1, <2>2 DEF Goes
<1>5. Version = Reached
  BY <1>3 DEF Version
<1>6. /\ mem["structure"] = Value("structure", 0) /\ mem["sol"] = Value("sol", Reached)
      /\ res_nrm2 = Value("norm", Reached) /\ mem[Vector] \in Corrections(Reached)
  BY <1>3, <1>5 DEF ValueInv, SystemInv, CorrectionInv
<1>7. MemoryInv'
  BY <1>3 DEF MemoryInv, ValueInv, Buffer
<1>8. ~InFlight("structure")' /\ ~InFlight("guess")'
  BY <1>2 DEF Places
<1>9. Corrections(Reached)' = Corrections(Reached)
  BY <1>3 DEF Corrections
<1>10. AheadInv'
  <2> HIDE DEF InFlight, First, Version, Vector, Value, Reached, Goes, Corrections
  <2> QED
    BY <1>2, <1>3, <1>4, <1>6, <1>8, <1>9 DEF AheadInv
<1>11. AssemblyInv'
  <2> HIDE DEF InFlight
  <2> QED
    BY <1>2 DEF AssemblyInv
<1> QED
  BY <1>2, <1>7, <1>10, <1>11 DEF ValueInv, SetUpInv, SystemInv, CorrectionInv, ReturnedInv

\* The scatter is enqueued after the resets.
LEMMA ScatterValues ==
  ASSUME HostInv, HostInv', FlightInv, ValueInv, ScatterAfterResets
  PROVE  ValueInv'
<1>1. InFlightOn({"A"})
  BY DEF ScatterAfterResets, HostInv, PoolInv, Busy, InFlightOn, Fenced
<1>2. /\ ~InFlight("rhs") /\ ~InFlight("mat")
      /\ \A p \in {"structure", "guess", "ahead", "fill"} : InFlight(p)' <=> InFlight(p)
      /\ InFlight("scatter")' /\ InFlight("nrm2")'
  <2> HIDE DEF InFlight
  <2> QED
    BY <1>1, ScatterFlight DEF HostInv
<1>3. /\ pc = "resets" /\ pc' = "norm" /\ mem' = mem
      /\ First' = First /\ Version' = Version /\ Reached' = Reached /\ Vector' = Vector /\ Goes' = Goes
      /\ res_nrm2' = res_nrm2 /\ entered' = entered /\ outer_iter' = outer_iter
  BY DEF ScatterAfterResets, First, Version, Reached, Vector, Goes, Request
<1>4. MemoryInv'
  BY <1>3 DEF MemoryInv, ValueInv, Buffer
<1>5. Corrections(Reached)' = Corrections(Reached)
  BY <1>3 DEF Corrections
<1> HIDE DEF InFlight, First, Version, Vector, Value, Reached, Goes, Corrections, Zero, Unset
<1>6. AheadInv'
  BY <1>2, <1>3, <1>5 DEF ValueInv, AheadInv
<1>7. AssemblyInv'
  BY <1>2, <1>3 DEF ValueInv, AssemblyInv
<1> QED
  BY <1>3, <1>4, <1>6, <1>7 DEF ValueInv, SetUpInv, SystemInv, CorrectionInv, ReturnedInv

\* The norm of the right-hand side arrives.
LEMMA NormValues ==
  ASSUME HostInv, HostInv', FlightInv, ValueInv, FirstNorm \/ NextNorm
  PROVE  ValueInv'
<1>1. /\ pc = "norm" /\ pc' = "loop" /\ mem' = mem /\ res_nrm2' = mem["norm"] /\ entered' = entered
      /\ Vector' = Vector /\ \A p : ~InFlight(p)
  <2>1. pc = "norm" /\ Fenced("A")
    BY DEF FirstNorm, NextNorm
  <2>2. \A p : ~InFlight(p)
    BY <2>1, FencedQuiet
  <2> QED
    BY <2>1, <2>2 DEF FirstNorm, NextNorm, deviceVars, Vector
<1>2. MemoryInv /\ AheadInv /\ AssemblyInv /\ Reached \in Nat
  BY DEF ValueInv, MemoryInv, Reached
<1>3. outer_iter' \in Nat /\ Version' = Version
  BY <1>1, <1>2 DEF FirstNorm, NextNorm, First, Version, Reached, MemoryInv
<1>4. MemoryInv'
  BY <1>1, <1>2, <1>3 DEF MemoryInv, Buffer
<1>5. SystemInv'
  <2> HIDE DEF InFlight, First, Version, Vector, Value, Reached, Corrections
  <2> QED
    BY <1>1, <1>2, <1>3 DEF AheadInv, AssemblyInv, SystemInv
<1>6. Before(mem[Vector])'
  <2>1. CASE First
    <3>1. mem[Vector] = Zero
      BY <1>1, <1>2, <2>1 DEF AheadInv
    <3>2. mem'[Vector'] = Zero
      BY <1>1, <3>1
    <3> QED
      BY <3>2 DEF Before, Zero
  <2>2. CASE ~First
    <3>1. mem[Vector] \in Corrections(Reached)
      BY <1>1, <1>2, <2>2 DEF AheadInv
    <3>2. Reached \in 0 .. Version' - 1
      BY <1>1, <1>2, <1>3, <2>2 DEF Version
    <3>3. mem'[Vector'] \in Corrections(Reached)
      BY <1>1, <3>1
    <3> HIDE DEF Version, Vector, Reached
    <3> QED
      BY <3>2, <3>3 DEF Before, Corrections
  <2> QED
    BY <2>1, <2>2
<1> HIDE DEF Before
<1> QED
  BY <1>1, <1>4, <1>5, <1>6
     DEF ValueInv, SetUpInv, AheadInv, AssemblyInv, CorrectionInv, ReturnedInv

\* The linear solver is called, or enqueues an iteration.
LEMMA LinearValues ==
  ASSUME HostInv, HostInv', FlightInv, ValueInv, BeginApply \/ ApplyIterates
  PROVE  ValueInv'
<1>1. /\ mem' = mem /\ res_nrm2' = res_nrm2 /\ entered' = entered /\ outer_iter' = outer_iter
      /\ Vector' = Vector /\ Version' = Version /\ Version = Reached /\ session' = session
      /\ pc \in {"loop", "guess", "iterate"} /\ pc' \in {"guess", "iterate"}
  BY DEF BeginApply, ApplyIterates, Vector, Version, Reached
<1>2. pending = {} /\ \A p : ~InFlight(p)
  <2>1. CASE BeginApply
    BY <2>1, QuietHost DEF BeginApply, InFlight
  <2>2. CASE ApplyIterates
    BY <2>2, FencedQuiet DEF ApplyIterates
  <2> QED
    BY <2>1, <2>2
<1>3. MemoryInv' /\ SystemInv /\ CorrectionInv
  BY <1>1 DEF MemoryInv, ValueInv, Buffer
<1>4. SystemInv'
  <2> HIDE DEF Version, Value
  <2> QED
    BY <1>1, <1>3 DEF SystemInv
<1>5. Before(mem[Vector])' <=> Before(mem[Vector])
  BY <1>1 DEF Before, Corrections, Zero
<1> HIDE DEF Before
<1>6. CASE BeginApply
  <2>1. InFlight("residual")'
    <3>1. Enqueue(InOrder("A", <<At("residual")'>>)) /\ Due' = {"residual"}
      BY <1>6, HostKernels
    <3> HIDE DEF At, Due, InFlight, Places
    <3>2. \A q \in Places : InFlight(q)' <=> q = "residual"
      BY <1>1, <1>2, <3>1, EnqueueOneFlight DEF HostInv
    <3> QED
      BY <3>2 DEF Places
  <2> HIDE DEF InFlight
  <2>2. CorrectionInv'
    BY <1>3, <1>5, <1>6, <2>1 DEF BeginApply, CorrectionInv
  <2> QED
    BY <1>3, <1>4, <1>6, <2>2 DEF BeginApply, ValueInv, SetUpInv, AheadInv, AssemblyInv, ReturnedInv
<1>7. CASE ApplyIterates
  <2>1. InFlight("improve")'
    <3>1. Enqueue(InOrder("A", <<At("improve")'>>)) /\ Due' = {"improve"}
      BY <1>7, HostKernels
    <3> HIDE DEF At, Due, InFlight, Places
    <3>2. \A q \in Places : InFlight(q)' <=> q = "improve"
      BY <1>1, <1>2, <3>1, EnqueueOneFlight DEF HostInv
    <3> QED
      BY <3>2 DEF Places
  <2>2. /\ pc \in {"guess", "iterate"} /\ pc' = "iterate" /\ inner' = inner + 1 /\ inner < MaxInner
    BY <1>7 DEF ApplyIterates
  <2>3. /\ mem["res"] = Value("res", Version) /\ inner \in 0 .. MaxInner
        /\ IF inner = 0 THEN Before(mem[Vector]) ELSE mem[Vector] = Made("delta", Version, inner)
    <3> HIDE DEF InFlight, Version, Vector, Value
    <3> QED
      BY <1>2, <1>3, <2>2, NewtonAssumption DEF CorrectionInv
  <2>4. inner' \in 1 .. MaxInner /\ inner' - 1 = inner
    BY <2>2, <2>3, NewtonAssumption
  <2>5. IF inner' = 1 THEN Before(mem[Vector])' ELSE mem'[Vector'] = Made("delta", Version', inner' - 1)
    <3> HIDE DEF Version, Vector
    <3> QED
      BY <1>1, <1>5, <2>2, <2>3, <2>4, NewtonAssumption
  <2>6. CorrectionInv'
    <3> HIDE DEF InFlight, Version, Vector, Value
    <3> QED
      BY <1>1, <2>1, <2>2, <2>3, <2>4, <2>5 DEF CorrectionInv
  <2> QED
    BY <1>3, <1>4, <2>2, <2>6 DEF ValueInv, SetUpInv, AheadInv, AssemblyInv, ReturnedInv
<1> QED
  BY <1>6, <1>7

\* It returns.
LEMMA AppliedValues ==
  ASSUME HostInv, HostInv', FlightInv, ValueInv, ApplyReturnsGuess \/ ApplyReturns
  PROVE  ValueInv'
<1>1. /\ res_nrm2' = res_nrm2 /\ entered' = entered /\ outer_iter' = outer_iter
      /\ Vector' = Vector /\ Version' = Version
      /\ pc \in {"guess", "iterate"} /\ pc' = "correct" /\ \A p : ~InFlight(p)
  <2>1. pc \in {"guess", "iterate"} /\ Fenced("A")
    BY DEF ApplyReturnsGuess, ApplyReturns
  <2>2. \A p : ~InFlight(p)
    BY <2>1, FencedQuiet
  <2> QED
    BY <2>1, <2>2 DEF ApplyReturnsGuess, ApplyReturns, Vector, Version, Reached
<1>2. MemoryInv /\ SystemInv /\ CorrectionInv
  BY DEF ValueInv
<1>3. CASE ApplyReturnsGuess
  <2>1. mem["res"] = Value("res", Version)
    <3> HIDE DEF InFlight, Version, Value
    <3> QED
      BY <1>1, <1>2, <1>3 DEF ApplyReturnsGuess, CorrectionInv
  <2>2. Vector = Delta[call]
    BY <1>3 DEF ApplyReturnsGuess, Vector, HostInv, PoolInv
  <2>3. mem' = [mem EXCEPT ![Vector] = Made("delta", Version, 0)]
    <3>1. mem["res"].of = Version
      BY <2>1, ValueParts
    <3> HIDE DEF Vector, Version
    <3> QED
      BY <1>3, <2>2, <3>1 DEF ApplyReturnsGuess
  <2>4. Sets(Vector, Made("delta", Version, 0))
    <3> HIDE DEF Vector, Version
    <3> QED
      BY <1>2, <2>3 DEF Sets, MemoryInv
  <2>5. /\ {"structure", "mat", "rhs", "sol", Vector} \subseteq Buffer
        /\ Vector \notin {"structure", "mat", "rhs", "sol"}
    BY Buffers DEF HostInv
  <2> HIDE DEF Vector, Version, Value, MemoryInv
  <2>6. /\ MemoryInv' /\ mem'[Vector] = Made("delta", Version, 0)
        /\ \A a \in {"structure", "mat", "rhs", "sol"} : mem'[a] = mem[a]
    BY <1>1, <1>2, <2>4, <2>5, SetsIs
  <2>7. SystemInv'
    BY <1>1, <1>2, <2>6 DEF SystemInv
  <2>8. mem'[Vector'] \in Corrections(Version')
    BY <1>1, <2>6, NewtonAssumption DEF Corrections
  <2>9. CorrectionInv'
    BY <1>1, <2>8 DEF CorrectionInv, Corrections
  <2> QED
    BY <1>1, <2>6, <2>7, <2>9 DEF ValueInv, SetUpInv, AheadInv, AssemblyInv, ReturnedInv
<1>4. CASE ApplyReturns
  <2>1. mem' = mem /\ pc = "iterate"
    BY <1>4 DEF ApplyReturns, deviceVars
  <2>2. mem[Vector] = Made("delta", Version, inner) /\ inner \in 1 .. MaxInner
    <3> HIDE DEF InFlight, Version, Vector
    <3> QED
      BY <1>1, <1>2, <2>1 DEF CorrectionInv
  <2>3. MemoryInv'
    BY <1>1, <1>2, <2>1 DEF MemoryInv, Buffer
  <2> HIDE DEF Vector, Version, Value, MemoryInv
  <2>4. SystemInv'
    BY <1>1, <1>2, <2>1 DEF SystemInv
  <2>5. mem'[Vector'] \in Corrections(Version')
    BY <1>1, <2>1, <2>2, NewtonAssumption DEF Corrections
  <2>6. CorrectionInv'
    BY <1>1, <2>5 DEF CorrectionInv, Corrections
  <2> QED
    BY <1>1, <2>3, <2>4, <2>6 DEF ValueInv, SetUpInv, AheadInv, AssemblyInv, ReturnedInv
<1> QED
  BY <1>3, <1>4

\* solve() returns.
LEMMA ReturnValues ==
  ASSUME HostInv, HostInv', ValueInv, ReturnSolution
  PROVE  ValueInv'
<1>1. /\ pc = "loop" /\ pc' = "idle" /\ mem' = mem /\ entered' = entered /\ outer_iter' = outer_iter
      /\ returned' = [res |-> res_nrm2, iters |-> outer_iter] /\ Version' = Version /\ call' = call /\ call > 0
  BY DEF ReturnSolution, deviceVars, Version, Reached, HostInv, PoolInv
<1>2. MemoryInv'
  BY <1>1 DEF ValueInv, MemoryInv, Buffer
<1>3. ReturnedInv'
  <2> HIDE DEF Version, Value
  <2> QED
    BY <1>1 DEF ValueInv, SystemInv, ReturnedInv
<1> QED
  BY <1>1, <1>2, <1>3 DEF ValueInv, SetUpInv, AheadInv, AssemblyInv, SystemInv, CorrectionInv, HostInv, CallInv

LEMMA InitValues == Init => ValueInv
<1> SUFFICES ASSUME Init PROVE ValueInv
  OBVIOUS
<1>1. mem = [b \in Buffer |-> Unset] /\ pc = "idle" /\ call = 0 /\ entered = 0 /\ outer_iter = 0
  BY DEF Init
<1>2. MemoryInv
  BY <1>1 DEF MemoryInv
<1>3. InFlight("guess") /\ InFlight("structure")
  BY InitFlight
<1>4. mem["sol"] = Unset
  BY <1>1 DEF Buffer, ProblemBuffer
<1> QED
  BY <1>1, <1>2, <1>3, <1>4
     DEF ValueInv, SetUpInv, AheadInv, AssemblyInv, SystemInv, CorrectionInv, ReturnedInv

LEMMA NextValues == HostInv /\ FlightInv /\ ValueInv /\ OnTarget /\ [Next]_vars => ValueInv'
<1> SUFFICES ASSUME HostInv, FlightInv, ValueInv, OnTarget, [Next]_vars
             PROVE  ValueInv'
  OBVIOUS
<1>1. HostInv'
  BY NextHostInv
<1>2. CASE BeginSolve \/ Solve
  BY <1>1, <1>2, BeginSolveValues, CorrectValues, ScatterValues, NormValues, LinearValues, AppliedValues,
     ReturnValues DEF Solve
<1>3. CASE RunOne
  BY <1>3, RunValues
<1>4. CASE UNCHANGED vars
  <2>1. UNCHANGED hostVars /\ mem' = mem /\ pending' = pending
    BY <1>4 DEF vars, deviceVars
  <2>2. /\ Version' = Version /\ Reached' = Reached /\ First' = First /\ Vector' = Vector
        /\ Goes' = Goes
        /\ pc' = pc /\ call' = call /\ entered' = entered /\ outer_iter' = outer_iter
        /\ res_nrm2' = res_nrm2 /\ inner' = inner /\ returned' = returned
    BY <2>1, RunKeeps DEF ValueInv
  <2>3. \A p : InFlight(p)' <=> InFlight(p)
    BY <2>1, SameKernels DEF InFlight
  <2>4. (\A v : Before(v)' <=> Before(v)) /\ \A n : Corrections(n)' = Corrections(n)
    BY <2>2 DEF Before, Corrections, Zero
  <2>5. MemoryInv'
    BY <2>1, <2>2 DEF MemoryInv, ValueInv, Buffer
  <2> HIDE DEF InFlight, Version, Reached, First, Vector, Goes, Corrections, Before, Value, Zero, Unset
  <2> QED
    BY <2>1, <2>2, <2>3, <2>4, <2>5
       DEF ValueInv, SetUpInv, AheadInv, AssemblyInv, SystemInv, CorrectionInv, ReturnedInv
<1> QED
  BY <1>2, <1>3, <1>4 DEF Next, Terminated

-----------------------------------------------------------------------------
(***************************************************************************)
(* solve() keeps the promise of IterativeSolver.                           *)
(***************************************************************************)

IInv == HostInv /\ FlightInv /\ ValueInv /\ returned.iters \in Nat

\* What the invariant says of the iterate that the solution holds.
Held == IF pc \in {"resets", "norm"} /\ ~First /\ ~InFlight("ahead") THEN outer_iter + 1 ELSE outer_iter

LEMMA InitIInv == Init => IInv
BY InitHostInv, InitFlight, InitValues DEF Init, IInv

LEMMA NextIInv == IInv /\ OnTarget /\ [Next]_vars => IInv'
<1> SUFFICES ASSUME IInv, OnTarget, [Next]_vars
             PROVE  IInv'
  OBVIOUS
<1>1. HostInv' /\ FlightInv' /\ ValueInv'
  BY NextHostInv, NextFlight, NextValues DEF IInv
<1>2. returned'.iters \in Nat
  BY DEF IInv, ValueInv, MemoryInv, Next, BeginSolve, Solve, ScatterAfterResets, FirstNorm, NextNorm, BeginApply,
         ApplyReturnsGuess, ApplyIterates, ApplyReturns, Correct, ReturnSolution, RunOne, Terminated, vars, hostVars
<1> QED
  BY <1>1, <1>2 DEF IInv

LEMMA HeldIs ==
  ASSUME CallInv, ValueInv, pc \in {"idle", "resets", "norm", "loop", "guess", "iterate", "correct"}
  PROVE  /\ IterateHeld = Held /\ Held \in Nat
         /\ mem["sol"].what \in {"sol", "unset"} /\ mem["sol"].of \in Nat
<1>1. MemoryInv /\ SetUpInv /\ AheadInv /\ SystemInv /\ ReturnedInv
  BY DEF ValueInv
<1>2. entered \in Nat /\ outer_iter \in Nat /\ call \in Nat
  BY <1>1 DEF MemoryInv, CallInv
<1>3. /\ Unset.what = "unset" /\ Unset.of = 0
      /\ \A n : Value("sol", n).what = "sol" /\ Value("sol", n).of = n
  BY ValueParts DEF Unset
<1>4. ASSUME mem["sol"] = Value("sol", entered + Held), Held \in Nat
      PROVE  /\ IterateHeld = Held
             /\ mem["sol"].what \in {"sol", "unset"} /\ mem["sol"].of \in Nat
  <2> HIDE DEF Value, Held
  <2> QED
    BY <1>2, <1>3, <1>4 DEF IterateHeld
<1>5. ASSUME mem["sol"] = Unset, entered = 0, Held = 0
      PROVE  /\ IterateHeld = Held
             /\ mem["sol"].what \in {"sol", "unset"} /\ mem["sol"].of \in Nat
  <2> HIDE DEF Unset, Held
  <2> QED
    BY <1>3, <1>5 DEF IterateHeld
<1>6. Held \in Nat
  BY <1>2 DEF Held
<1> HIDE DEF Value, Unset, First, InFlight
<1>7. CASE pc = "idle" /\ call = 0
  <2>1. entered = 0 /\ Held = 0 /\ (mem["sol"] = Unset \/ mem["sol"] = Value("sol", 0))
    BY <1>1, <1>7 DEF SetUpInv, Held
  <2> HIDE DEF Held
  <2> QED
    BY <1>4, <1>5, <1>6, <2>1
<1>8. CASE pc \in {"resets", "norm"}
  <2>1. CASE InFlight("guess")
    <3>1. entered = 0 /\ Held = 0 /\ mem["sol"] = Unset
      BY <1>1, <1>8, <2>1 DEF AheadInv, Held
    <3> HIDE DEF Held
    <3> QED
      BY <1>5, <1>6, <3>1
  <2>2. CASE ~InFlight("guess")
    <3>1. mem["sol"] = Value("sol", entered + Held)
      <4>1. CASE First
        BY <1>1, <1>2, <1>8, <2>2, <4>1 DEF AheadInv, Held, Version, Reached
      <4>2. CASE ~First
        BY <1>1, <1>2, <1>8, <4>2 DEF AheadInv, Held, Version, Reached
      <4> QED
        BY <4>1, <4>2
    <3> HIDE DEF Held
    <3> QED
      BY <1>4, <1>6, <3>1
  <2> QED
    BY <2>1, <2>2
<1>9. CASE pc \in {"loop", "guess", "iterate", "correct"} \/ (pc = "idle" /\ call > 0)
  <2>1. mem["sol"] = Value("sol", entered + Held)
    BY <1>1, <1>9 DEF SystemInv, ReturnedInv, Held, Version, Reached
  <2> HIDE DEF Held
  <2> QED
    BY <1>4, <1>6, <2>1
<1> QED
  BY <1>2, <1>7, <1>8, <1>9

LEMMA HeldNow ==
  CallInv /\ ValueInv /\ pc \in {"idle", "resets", "norm", "guess", "iterate"} => IterateHeld = Held
BY HeldIs

-----------------------------------------------------------------------------

\* Requests are counted from the version that the caller came with.
Asked == session.calls[IF call = 0 THEN 1 ELSE call]
Wanted == IF Asked.first > entered THEN Asked.first - entered ELSE 0

LEMMA RequestType ==
  ASSUME CallInv, entered \in Nat
  PROVE  /\ [max_iters |-> Asked.max_iters, first |-> Wanted] \in [max_iters : Nat, first : Nat]
         /\ Asked.max_iters \in Nat /\ Asked.first \in Nat
         /\ call > 0 => Asked = Request
<1>1. session.calls \in Seq([max_iters : Nat, first : Nat]) /\ Len(session.calls) > 0
  BY NewtonAssumption DEF CallInv
<1>2. Asked \in [max_iters : Nat, first : Nat]
  <2> DEFINE n == IF call = 0 THEN 1 ELSE call
  <2>1. n \in 1 .. Len(session.calls) /\ DOMAIN session.calls = 1 .. Len(session.calls)
    BY <1>1, LenProperties DEF CallInv
  <2>2. Asked = session.calls[n]
    BY DEF Asked
  <2> HIDE DEF n
  <2> QED
    BY <1>1, <2>1, <2>2, ElementOfSeq
<1>3. Asked.max_iters \in Nat /\ Asked.first \in Nat
  BY <1>2
<1>4. Wanted \in Nat
  BY <1>3 DEF Wanted
<1> HIDE DEF Asked, Wanted
<1>5. call > 0 => Asked = Request
  BY DEF Asked, Request, CallInv
<1> QED
  BY <1>3, <1>4, <1>5

LEMMA WantedType == IInv => [max_iters |-> Asked.max_iters, first |-> Wanted] \in [max_iters : Nat, first : Nat]
BY RequestType DEF IInv, HostInv, ValueInv, MemoryInv

\* Steps that the caller does not notice.
LEMMA Stutters ==
  ASSUME UNCHANGED <<session, call, entered>>, IterateHeld' = IterateHeld,
         pc = "idle" <=> pc' = "idle", pc = "idle" => returned' = returned
  PROVE  UNCHANGED Promise!solverVars
BY DEF Promise!solverVars

\* solve() is called with the guess that is in the solution, or will be.
LEMMA BeginImplements ==
  ASSUME IInv, IInv', BeginSolve
  PROVE  Promise!Begin
<1>1. /\ pc = "idle" /\ pc' # "idle" /\ call' = call + 1 /\ call \in Nat /\ mem' = mem
      /\ entered' = mem["sol"].of
  BY DEF BeginSolve, Assemble, IInv, HostInv, CallInv
<1>2. mem["sol"].what \in {"sol", "unset"} /\ mem["sol"].of \in Nat
  BY <1>1, HeldIs DEF IInv, HostInv
<1>3. IterateHeld' = 0
  BY <1>1, <1>2 DEF IterateHeld
<1>4. ([max_iters |-> Asked.max_iters, first |-> Wanted] \in [max_iters : Nat, first : Nat])'
  BY WantedType, PTL
<1>5. returned.iters \in Nat
  BY DEF IInv
<1> QED
  BY <1>1, <1>3, <1>4, <1>5 DEF Promise!Begin, Asked, Wanted

\* The loop goes on only if it should.
LEMMA WhenGoes ==
  ASSUME CallInv, call > 0, entered \in Nat, outer_iter \in Nat, res_nrm2 = Value("norm", Reached)
  PROVE  Goes <=> outer_iter < Wanted /\ outer_iter < Asked.max_iters
<1>1. res_nrm2.what = "norm" /\ res_nrm2.of = entered + outer_iter
  BY ValueParts DEF Reached
<1>2. Asked.first \in Nat /\ Asked.max_iters \in Nat /\ Asked = Request
  BY RequestType
<1> HIDE DEF Asked
<1>3. res_nrm2.of < Asked.first <=> outer_iter < Wanted
  BY <1>1, <1>2 DEF Wanted
<1> HIDE DEF Wanted
<1> QED
  BY <1>1, <1>2, <1>3 DEF Goes

\* solve() returns the residual of the iterate that it leaves.
LEMMA ReturnImplements ==
  ASSUME IInv, ReturnSolution
  PROVE  Promise!Return
<1>1. /\ pc = "loop" /\ pc' = "idle" /\ ~Goes /\ returned' = [res |-> res_nrm2, iters |-> outer_iter]
      /\ mem' = mem /\ UNCHANGED <<session, call, entered>> /\ call > 0 /\ CallInv
  BY DEF ReturnSolution, deviceVars, IInv, HostInv, PoolInv
<1>2. entered \in Nat /\ outer_iter \in Nat /\ res_nrm2 = Value("norm", Reached)
  BY <1>1 DEF IInv, ValueInv, MemoryInv, SystemInv, Version
<1>3. res_nrm2.of = entered + outer_iter
  BY <1>2, ValueParts DEF Reached
<1>4. IterateHeld = outer_iter /\ IterateHeld' = IterateHeld
  <2>1. IterateHeld = Held
    BY <1>1, HeldIs DEF IInv
  <2>2. Held = outer_iter
    BY <1>1 DEF Held
  <2> QED
    BY <1>1, <2>1, <2>2 DEF IterateHeld
<1>5. ~(outer_iter < Wanted /\ outer_iter < Asked.max_iters)
  BY <1>1, <1>2, WhenGoes
<1>6. Asked.max_iters \in Nat
  BY <1>1, <1>2, RequestType
<1>7. outer_iter < Wanted => outer_iter >= Asked.max_iters
  BY <1>2, <1>5, <1>6
<1>8. returned'.iters = outer_iter /\ returned'.res.of - entered = outer_iter
  BY <1>1, <1>2, <1>3
<1> HIDE DEF IterateHeld
<1> QED
  BY <1>1, <1>4, <1>7, <1>8 DEF Promise!Return, Promise!Above, Asked, Wanted

\* A kernel runs: the correction is subtracted, or the solution stays.
LEMMA RunImplements ==
  ASSUME IInv, IInv', RunOne
  PROVE  Promise!Iterate \/ UNCHANGED Promise!solverVars
<1>1. PICK t \in pending : RunKernel(t, Results(t.kernel.op, Operands(t))) /\ UNCHANGED hostVars
  BY DEF RunOne
<1>2. /\ UNCHANGED <<session, call, pc, outer_iter, entered, returned>> /\ First' = First
      /\ pending' \subseteq pending
  BY <1>1 DEF hostVars, First, RunKernel
<1>3. pc \in {"resets", "norm", "guess", "iterate"} \/ (pc = "idle" /\ call = 0)
  BY <1>1 DEF IInv, FlightInv, Due
<1>4. InFlight("ahead")' => InFlight("ahead")
  <2>1. At("ahead")' = At("ahead")
    BY <1>1, SameKernels
  <2> HIDE DEF At
  <2> QED
    BY <1>2, <2>1 DEF InFlight
<1>5. IterateHeld = Held /\ IterateHeld' = Held'
  <2>1. IterateHeld = Held
    BY <1>3, HeldIs DEF IInv, HostInv
  <2>2. CallInv' /\ ValueInv' /\ (pc \in {"idle", "resets", "norm", "guess", "iterate"})'
    BY <1>2, <1>3 DEF IInv, HostInv
  <2>3. (IterateHeld = Held)'
    BY <2>2, HeldNow, PTL
  <2> QED
    BY <2>1, <2>3
<1> HIDE DEF IterateHeld, InFlight, First
<1>6. \/ Held' = Held
      \/ /\ pc \in {"resets", "norm"} /\ ~First
         /\ Held = outer_iter /\ Held' = outer_iter + 1
  BY <1>2, <1>4 DEF Held
<1>7. CASE Held' = Held
  BY <1>2, <1>5, <1>7, Stutters
<1>8. ASSUME pc \in {"resets", "norm"}, ~First, Held = outer_iter, Held' = outer_iter + 1
      PROVE  Promise!Iterate
  <2>1. Goes /\ res_nrm2 = Value("norm", Reached) /\ entered \in Nat /\ outer_iter \in Nat
    BY <1>8 DEF IInv, ValueInv, AheadInv, MemoryInv
  <2>2. CallInv /\ call > 0
    BY <1>8 DEF IInv, HostInv, PoolInv
  <2>3. outer_iter < Wanted /\ outer_iter < Asked.max_iters
    BY <2>1, <2>2, WhenGoes
  <2> QED
    BY <1>2, <1>5, <1>8, <2>3 DEF Promise!Iterate, Promise!Above, Asked, Wanted
<1> QED
  BY <1>6, <1>7, <1>8

\* The rest of the host thread's steps are not noticed.
LEMMA HostImplements ==
  ASSUME IInv, Solve, ~ReturnSolution
  PROVE  UNCHANGED Promise!solverVars
<1>1. /\ UNCHANGED <<session, call, entered>> /\ pc # "idle" /\ pc' # "idle"
      /\ ~ApplyReturnsGuess => mem' = mem
  BY DEF Solve, ScatterAfterResets, FirstNorm, NextNorm, BeginApply, ApplyReturnsGuess, ApplyIterates,
         ApplyReturns, Correct, Assemble, ReturnSolution, deviceVars
<1>2. mem'["sol"] = mem["sol"]
  <2>1. CASE ApplyReturnsGuess
    <3>1. Vector = Delta[call] /\ Vector # "sol"
      BY <2>1, Buffers DEF ApplyReturnsGuess, IInv, HostInv, PoolInv, Vector
    <3>2. "sol" \in DOMAIN mem
      BY Buffers DEF IInv, HostInv, ValueInv, MemoryInv
    <3> QED
      BY <2>1, <3>1, <3>2 DEF ApplyReturnsGuess
  <2> QED
    BY <1>1, <2>1
<1>3. IterateHeld' = IterateHeld
  BY <1>1, <1>2 DEF IterateHeld
<1> QED
  BY <1>1, <1>3, Stutters

\* No call was made, and the solution will be the initial guess.
LEMMA InitImplements == Init => Promise!Init
<1> SUFFICES ASSUME Init PROVE Promise!Init
  OBVIOUS
<1>1. IInv
  BY InitIInv
<1>2. mem["sol"] = Unset
  BY DEF Init, Buffer, ProblemBuffer
<1>3. IterateHeld = 0
  BY <1>2 DEF IterateHeld, Unset, Value, Made, Init
<1>4. [max_iters |-> Asked.max_iters, first |-> Wanted] \in [max_iters : Nat, first : Nat]
  BY <1>1, WantedType
<1>5. returned.res.of - entered = 0
  BY DEF Init, Unset, Value, Made
<1> QED
  BY <1>3, <1>4, <1>5 DEF Promise!Init, Init, Asked, Wanted

LEMMA StepImplements ==
  ASSUME IInv, IInv', [Next]_vars
  PROVE  [Promise!Next]_(Promise!solverVars)
<1>1. CASE BeginSolve
  BY <1>1, BeginImplements DEF Promise!Next
<1>2. CASE ReturnSolution
  BY <1>2, ReturnImplements DEF Promise!Next
<1>3. CASE Solve /\ ~ReturnSolution
  BY <1>3, HostImplements
<1>4. CASE RunOne
  BY <1>4, RunImplements DEF Promise!Next
<1>5. CASE UNCHANGED vars
  BY <1>5, Stutters DEF vars, deviceVars, hostVars, IterateHeld
<1> QED
  BY <1>1, <1>2, <1>3, <1>4, <1>5 DEF Next, Terminated

\* For any sessions, with a graph or without and with a linear solver that stops
\* anywhere, if the linear solver improves the vector it is given: each correction
\* is one of the system at the current solution, solve() stops in time, and returns
\* the residual of the solution that it leaves (newton/Solver.hpp:42-63).
THEOREM Implements == Spec /\ []OnTarget => SolvesAsPromised
<1>1. Init => IInv /\ Promise!Init
  BY InitIInv, InitImplements
<1>2. IInv /\ OnTarget /\ [Next]_vars => IInv'
  BY NextIInv
<1>3. IInv /\ IInv' /\ [Next]_vars => [Promise!Next]_(Promise!solverVars)
  BY StepImplements
<1> QED
  BY <1>1, <1>2, <1>3, PTL DEF Spec, SolvesAsPromised, Promise!Spec

\* The vector that the graph of the linear solver improves is that of the first call.
OneVector ==
  session.graph => Len(session.calls) = 1 /\ captured \in {"none", Delta[1]}

LEMMA InitOneVector == Init /\ (session.graph => Len(session.calls) = 1) => OneVector
BY DEF Init, OneVector

LEMMA OneVectorOnTarget == HostInv /\ OneVector => OnTarget
<1> SUFFICES ASSUME HostInv, OneVector, pc \in {"guess", "iterate"}
             PROVE  Target = Vector
  BY DEF OnTarget
<1>1. call > 0 /\ call \in Nat /\ call <= Len(session.calls)
  BY DEF HostInv, PoolInv, CallInv
<1>2. CASE session.graph
  <2>1. Len(session.calls) = 1 /\ captured \in {"none", Delta[1]}
    BY <1>2 DEF OneVector
  <2>2. call = 1
    BY <1>1, <2>1
  <2> QED
    BY <1>2, <2>1, <2>2 DEF Target, Vector
<1> QED
  BY <1>1, <1>2 DEF Target, Vector

LEMMA NextOneVector == HostInv /\ OneVector /\ [Next]_vars => OneVector'
<1> SUFFICES ASSUME HostInv, OneVector, [Next]_vars
             PROVE  OneVector'
  OBVIOUS
<1>1. session' = session
  BY NextHostInv
<1>2. CASE ApplyIterates
  <2>1. call > 0 /\ call \in Nat /\ call <= Len(session.calls)
    BY <1>2 DEF ApplyIterates, HostInv, PoolInv, CallInv
  <2>2. session.graph => Target \in {"none", Delta[1]}
    BY <2>1 DEF Target, OneVector
  <2> QED
    BY <1>1, <1>2, <2>2 DEF ApplyIterates, OneVector
<1>3. CASE ~ApplyIterates
  <2>1. captured' = captured
    BY <1>3 DEF Next, BeginSolve, Solve, ScatterAfterResets, FirstNorm, NextNorm, BeginApply, ApplyReturnsGuess,
       ApplyReturns, Correct, ReturnSolution, RunOne, Terminated, vars, hostVars
  <2> QED
    BY <1>1, <2>1 DEF OneVector
<1> QED
  BY <1>2, <1>3

\* Without a graph for any number of calls of solve(), and with a graph that was
\* built for the one call that is made, nothing is left to assume: PCGGraph captures
\* the vector of its first apply() (pcg/Graph.hpp:70-138) and it is the right one.
THEOREM SingleUse ==
  Spec /\ (session.graph => Len(session.calls) = 1) => SolvesAsPromised
<1>1. Init /\ (session.graph => Len(session.calls) = 1) => HostInv /\ OneVector
  BY InitHostInv, InitOneVector
<1>2. HostInv /\ OneVector /\ [Next]_vars => HostInv' /\ OneVector'
  BY NextHostInv, NextOneVector
<1>3. HostInv /\ OneVector => OnTarget
  BY OneVectorOnTarget
<1> QED
  BY <1>1, <1>2, <1>3, Implements, PTL DEF Spec

-----------------------------------------------------------------------------
(***************************************************************************)
(* The type invariant.  A call may start the linear solver once in every   *)
(* iteration that it makes: Applied counts how often it has returned,      *)
(* which is one more than outer_iter from there to the next norm.  That    *)
(* the first norm of a call is told from the others by the value of        *)
(* res_nrm2 needs that no kernel leaves such a value.                      *)
(***************************************************************************)

\* What kernels leave in memory.
Left == [what : Quantities \ {"finite max"}, of : Nat, made : Nat]

HostPlaces == {"idle", "resets", "norm", "loop", "guess", "iterate", "correct"}

Applied ==
  IF pc = "correct" \/ (pc \in {"resets", "norm"} /\ ~First) THEN outer_iter + 1 ELSE outer_iter

ScalarsInv ==
  /\ issued \in Nat /\ pc \in HostPlaces
  /\ mem \in [Buffer -> Left] /\ res_nrm2 \in Values
  /\ returned \in [res : Values, iters : Nat] /\ entered \in Nat

CountInv ==
  /\ outer_iter \in Nat /\ inner \in 0 .. MaxInner /\ num_inner_iters \in Nat
  /\ Applied <= Allowed /\ num_inner_iters <= Applied * MaxInner

-----------------------------------------------------------------------------

\* The iterations that a call may make.
LEMMA AllowedType ==
  ASSUME HostInv
  PROVE  Allowed \in Nat /\ (call > 0 => Allowed = Request.max_iters)
<1>1. session.calls \in Seq([max_iters : Nat, first : Nat])
  BY NewtonAssumption DEF HostInv, CallInv
<1>2. call \in Nat /\ call <= Len(session.calls)
  BY DEF HostInv, CallInv
<1>3. call > 0 => session.calls[call] \in [max_iters : Nat, first : Nat]
  <2>1. Len(session.calls) \in Nat
    BY <1>1, LenProperties
  <2>2. call > 0 => call \in 1 .. Len(session.calls)
    BY <1>2, <2>1
  <2> QED
    BY <1>1, <2>2, ElementOfSeq
<1> QED
  BY <1>2, <1>3 DEF Allowed, Request

\* Products, which count.
LEMMA Products ==
  ASSUME NEW a \in Nat, NEW b \in Nat, NEW m \in Nat
  PROVE  /\ a * m \in Nat /\ (a + 1) * m = a * m + m
         /\ a <= b => a * m <= b * m
<1>1. a * m \in Nat /\ (a + 1) * m = a * m + m
  OBVIOUS
<1>2. ASSUME a <= b PROVE a * m <= b * m
  <2>1. PICK d \in Nat : b = a + d
    BY <1>2
  <2>2. b * m = a * m + d * m /\ d * m \in Nat
    BY <2>1
  <2> QED
    BY <1>1, <2>2
<1> QED
  BY <1>1, <1>2

LEMMA TypesOf == HostInv /\ ScalarsInv /\ CountInv => NewtonTypeOK
<1> SUFFICES ASSUME HostInv, ScalarsInv, CountInv PROVE NewtonTypeOK
  OBVIOUS
<1>1. Allowed \in Nat /\ MaxInner \in Nat
  BY AllowedType, NewtonAssumption
<1>2. outer_iter <= Applied /\ Applied \in Nat
  BY DEF CountInv, Applied
<1>3. outer_iter \in 0 .. Allowed
  BY <1>1, <1>2 DEF CountInv
<1>4. num_inner_iters \in 0 .. (Allowed * MaxInner)
  <2>1. /\ Applied * MaxInner <= Allowed * MaxInner
        /\ Applied * MaxInner \in Nat /\ Allowed * MaxInner \in Nat
    BY <1>1, <1>2, Products DEF CountInv
  <2> QED
    BY <2>1 DEF CountInv
<1>5. mem \in [Buffer -> Values]
  <2>1. Left \subseteq Values
    BY DEF Left, Values
  <2> QED
    BY <2>1 DEF ScalarsInv
<1>6. call \in 0 .. Len(session.calls)
  <2>1. Len(session.calls) \in Nat
    BY NewtonAssumption, LenProperties DEF HostInv, CallInv
  <2> QED
    BY <2>1 DEF HostInv, CallInv
<1> QED
  BY <1>3, <1>4, <1>5, <1>6 DEF ScalarsInv, CountInv, HostInv, CallInv, HostPlaces, NewtonTypeOK

\* Values that are left in memory.
LEMMA LeftType ==
  ASSUME NEW what \in Quantities \ {"finite max"}, NEW of \in Nat, NEW made \in Nat
  PROVE  Value(what, of) \in Left /\ Made(what, of, made) \in Left
BY DEF Left, Value, Made

LEMMA LeftParts ==
  /\ \A v \in Left : v.of \in Nat /\ v.made \in Nat /\ v # FiniteMax
  /\ Garbage \in Left /\ Zero \in Left /\ Unset \in Left /\ FiniteMax \in Values /\ Left \subseteq Values
<1>1. \A v \in Left : v.what # "finite max" /\ v.of \in Nat /\ v.made \in Nat
  BY DEF Left
<1>2. FiniteMax.what = "finite max"
  BY DEF FiniteMax, Value, Made
<1>3. Garbage \in Left /\ Zero \in Left /\ Unset \in Left
  BY LeftType DEF Garbage, Zero, Unset, Quantities
<1>4. FiniteMax \in Values /\ Left \subseteq Values
  BY DEF FiniteMax, Value, Made, Values, Quantities, Left
<1> QED
  BY <1>1, <1>2, <1>3, <1>4

\* What the operations make of values that were left in memory.
LEMMA MadeOfLeft ==
  ASSUME NEW v, v[1] \in Left
  PROVE  /\ v[2] \in Left => Corrected(v) \in Left
         /\ v[2] \in Left => Residual(v) \in Left
         /\ v[2] \in Left /\ v[3] \in Left => Improved(v) \in Left
         /\ Scattered(v)[1] \in Left /\ Scattered(v)[2] \in Left
         /\ (IF v[1].what = "sol" THEN Value("stacked", v[1].of) ELSE Garbage) \in Left
         /\ (IF v[1].what = "rhs" THEN Value("norm", v[1].of) ELSE Garbage) \in Left
<1> USE DEF Quantities
<1>1. v[1].of \in Nat /\ Garbage \in Left
  BY LeftParts
<1>2. Corrected(v) \in Left
  <2>1. v[1].of + 1 \in Nat
    BY <1>1
  <2>2. Value("sol", v[1].of + 1) \in Left
    BY <2>1, LeftType
  <2> QED
    BY <1>1, <2>2 DEF Corrected
<1>3. ASSUME v[2] \in Left PROVE Residual(v) \in Left
  <2>1. Value("res", v[2].of) \in Left
    BY <1>3, LeftParts, LeftType
  <2> QED
    BY <1>1, <2>1 DEF Residual
<1>4. ASSUME v[2] \in Left, v[3] \in Left PROVE Improved(v) \in Left
  <2> DEFINE made == IF v[3].what = "delta" /\ v[3].of = v[2].of THEN v[3].made + 1 ELSE 1
  <2>1. made \in Nat /\ v[2].of \in Nat
    BY <1>4, LeftParts
  <2>2. Improved(v) \in {Made("delta", v[2].of, made), Garbage}
    BY DEF Improved
  <2> HIDE DEF made
  <2>3. Made("delta", v[2].of, made) \in Left
    BY <2>1, LeftType
  <2> QED
    BY <1>1, <2>2, <2>3
<1>5. Scattered(v)[1] \in Left /\ Scattered(v)[2] \in Left
  <2>1. Value("mat", v[1].of) \in Left /\ Value("rhs", v[1].of) \in Left
    BY <1>1, LeftType
  <2>2. Scattered(v) \in {<<Value("mat", v[1].of), Value("rhs", v[1].of)>>, <<Garbage, Garbage>>}
    BY DEF Scattered
  <2> QED
    BY <1>1, <2>1, <2>2
<1>6. Value("stacked", v[1].of) \in Left /\ Value("norm", v[1].of) \in Left
  BY <1>1, LeftType
<1> QED
  BY <1>1, <1>2, <1>3, <1>4, <1>5, <1>6

LEMMA SetsTyped ==
  ASSUME mem \in [Buffer -> Left], NEW b, NEW v \in Left, Sets(b, v)
  PROVE  mem' \in [Buffer -> Left]
BY DEF Sets

\* A kernel leaves such values.
LEMMA RunTyped ==
  ASSUME HostInv, FlightInv, mem \in [Buffer -> Left], NEW t \in pending,
         RunKernel(t, Results(t.kernel.op, Operands(t)))
  PROVE  mem' \in [Buffer -> Left]
<1>1. PICK p \in Due : t.kernel = At(p)
  BY DEF FlightInv
<1>2. p \in Places
  BY DueTypes
<1> DEFINE v == Operands(t)
           results == Results(t.kernel.op, Operands(t))
<1>3. CASE p \in {"structure", "guess", "rhs", "mat"} \/ (p = "ahead" /\ First)
  <2>1. Value("structure", 0) \in Left /\ Value("sol", 0) \in Left /\ Zero \in Left
    BY LeftType, LeftParts DEF Quantities
  <2> HIDE DEF At, First, Vector
  <2> QED
    BY <1>1, <1>2, <1>3, <2>1, RunNullary, SetsTyped
<1>4. {"sol", "rhs", "stacked", "mat", "structure", "res", "norm", Vector} \subseteq Buffer
      /\ (call > 0 => Target \in Buffer /\ Target # "res")
  BY Buffers DEF HostInv
<1>5. CASE (p = "ahead" /\ ~First) \/ p \in {"fill", "nrm2"}
  <2>1. Corrected(<<mem["sol"], mem[Vector]>>) \in Left
    <3> DEFINE w == <<mem["sol"], mem[Vector]>>
    <3>1. w[1] \in Left /\ w[2] \in Left
      BY <1>4
    <3> HIDE DEF w
    <3>2. Corrected(w) \in Left
      BY <3>1, MadeOfLeft
    <3> QED
      BY <3>2 DEF w
  <2>2. (IF mem["sol"].what = "sol" THEN Value("stacked", mem["sol"].of) ELSE Garbage) \in Left
    <3>1. mem["sol"] \in Left
      BY <1>4
    <3> QED
      BY <3>1, LeftType, LeftParts DEF Quantities
  <2>3. (IF mem["rhs"].what = "rhs" THEN Value("norm", mem["rhs"].of) ELSE Garbage) \in Left
    <3>1. mem["rhs"] \in Left
      BY <1>4
    <3> QED
      BY <3>1, LeftType, LeftParts DEF Quantities
  <2> HIDE DEF At, First, Vector, Corrected
  <2> QED
    BY <1>1, <1>2, <1>5, <2>1, <2>2, <2>3, RunUnary, SetsTyped
<1>6. t.kernel.args = <<>>
  BY <1>1, <1>2, NoScalars
<1>7. CASE p = "scatter"
  <2>1. /\ t.kernel.op = "scatter" /\ t.kernel.in = <<"stacked", "mat", "rhs">>
        /\ t.kernel.out = <<"mat", "rhs">>
    <3> HIDE DEF At
    <3> QED
      BY <1>1, <1>7, KernelIs
  <2>2. v[1] = mem["stacked"]
    BY <1>6, <2>1, ThreeOperands
  <2>3. v[1] \in Left
    BY <1>4, <2>2
  <2>4. results = Scattered(v)
    BY <2>1 DEF Results, ProblemResults
  <2> HIDE DEF v, results
  <2>5. results[1] \in Left /\ results[2] \in Left
    BY <2>3, <2>4, MadeOfLeft
  <2>6. mem' = [a \in DOMAIN mem |-> IF a = "mat" THEN results[1] ELSE IF a = "rhs" THEN results[2] ELSE mem[a]]
    BY <2>1, WritesTwo DEF results
  <2> QED
    BY <2>5, <2>6
<1>8. CASE p = "residual"
  <2>1. /\ t.kernel.op = "residual" /\ t.kernel.in = <<"structure", "mat", "rhs", Vector>>
        /\ t.kernel.out = <<"res">>
    <3> HIDE DEF At, Vector
    <3> QED
      BY <1>1, <1>8, KernelIs
  <2> HIDE DEF Vector
  <2>2. v[1] = mem["structure"] /\ v[2] = mem["mat"]
    BY <1>6, <2>1, FourOperands
  <2>3. v[1] \in Left /\ v[2] \in Left
    BY <1>4, <2>2
  <2>4. results[1] = Residual(v)
    BY <2>1 DEF Results
  <2> HIDE DEF v, results
  <2>5. results[1] \in Left
    BY <2>3, <2>4, MadeOfLeft
  <2>6. mem' = [a \in DOMAIN mem |-> IF a = "res" THEN results[1] ELSE mem[a]]
    BY <2>1, WritesOne DEF results
  <2> QED
    BY <2>5, <2>6
<1>9. CASE p = "improve"
  <2>1. /\ t.kernel.op = "improve" /\ t.kernel.in = <<"structure", "mat", Target, "res">>
        /\ t.kernel.out = <<Target, "res">>
    <3> HIDE DEF At, Target
    <3> QED
      BY <1>1, <1>9, KernelIs
  <2>2. call > 0
    BY <1>1, <1>9 DEF Due, HostInv, PoolInv
  <2> HIDE DEF Target
  <2>3. v[1] = mem["structure"] /\ v[2] = mem["mat"] /\ v[3] = mem[Target] /\ v[4] = mem["res"]
    BY <1>6, <2>1, FourOperands
  <2>4. v[1] \in Left /\ v[2] \in Left /\ v[3] \in Left /\ v[4] \in Left
    BY <1>4, <2>2, <2>3
  <2>5. results = <<Improved(v), v[4]>>
    BY <2>1 DEF Results
  <2> HIDE DEF v, results
  <2>6. results[1] = Improved(v) /\ results[2] = v[4]
    BY <2>5, Tuples
  <2>7. results[1] \in Left /\ results[2] \in Left
    BY <2>4, <2>6, MadeOfLeft
  <2>8. mem' = [a \in DOMAIN mem |-> IF a = Target THEN results[1] ELSE IF a = "res" THEN results[2] ELSE mem[a]]
    BY <1>4, <2>1, <2>2, WritesTwo DEF results
  <2> QED
    BY <2>7, <2>8
<1> HIDE DEF First
<1> QED
  BY <1>2, <1>3, <1>5, <1>7, <1>8, <1>9 DEF Places

\* The number of the last kernel, after a piece of work was enqueued.
LEMMA EnqueueNumbers ==
  ASSUME issued \in Nat, NEW work, Sequence(work), Enqueue(work)
  PROVE  issued' \in Nat
<1>1. Len(work) \in Nat
  BY SequenceDomain
<1> QED
  BY <1>1 DEF Enqueue

LEMMA AssembleNumbers ==
  ASSUME issued \in Nat, NEW a, Assemble(<<a>>)
  PROVE  issued' \in Nat /\ pc' \in {"resets", "norm"}
<1>1. Sequence(FillAndReset(<<a>>)) /\ Sequence(AssemblyGraph(<<a>>, <<Nrm2>>))
  BY AssemblyOn DEF WorkOn
<1> QED
  BY <1>1, EnqueueNumbers DEF Assemble

LEMMA ChainNumbers ==
  ASSUME issued \in Nat, NEW a, NEW b,
         Enqueue(InOrder("A", <<a>>)) \/ Enqueue(InOrder("A", <<a, b>>))
  PROVE  issued' \in Nat
<1>1. Sequence(InOrder("A", <<a>>)) /\ Sequence(InOrder("A", <<a, b>>))
  BY TupleSequences, InOrderOn DEF WorkOn
<1> QED
  BY <1>1, EnqueueNumbers

\* The linear solver is called when the norm is known and iterations are left.
LEMMA WhenCalled ==
  ASSUME HostInv, CountInv, Goes, call > 0
  PROVE  ~First /\ outer_iter + 1 <= Allowed
<1>1. Allowed = Request.max_iters /\ Allowed \in Nat
  BY AllowedType
<1>2. res_nrm2.what = "norm" /\ outer_iter < Request.max_iters
  BY DEF Goes
<1>3. FiniteMax.what = "finite max"
  BY DEF FiniteMax, Value, Made
<1>4. ~First
  BY <1>2, <1>3 DEF First
<1> QED
  BY <1>1, <1>2, <1>4 DEF CountInv

LEMMA SolveScalars ==
  ASSUME HostInv, ScalarsInv, CountInv, BeginSolve \/ Solve
  PROVE  ScalarsInv'
<1>1. /\ issued \in Nat /\ pc \in HostPlaces /\ mem \in [Buffer -> Left] /\ res_nrm2 \in Values
      /\ returned \in [res : Values, iters : Nat] /\ entered \in Nat
  BY DEF ScalarsInv
<1>2. "sol" \in Buffer /\ "norm" \in Buffer /\ "res" \in Buffer
  BY Buffers DEF HostInv
<1>3. mem["sol"].of \in Nat /\ mem["norm"] \in Values /\ mem["res"].of \in Nat
  BY <1>1, <1>2, LeftParts
<1>4. FiniteMax \in Values
  BY LeftParts
<1>5. issued' \in Nat /\ pc' \in HostPlaces
  <2>1. CASE BeginSolve
    BY <1>1, <2>1, AssembleNumbers DEF BeginSolve, HostPlaces
  <2>2. CASE ScatterAfterResets
    BY <1>1, <2>2, ChainNumbers DEF ScatterAfterResets, HostPlaces
  <2>3. CASE BeginApply
    BY <1>1, <2>3, ChainNumbers DEF BeginApply, HostPlaces
  <2>4. CASE ApplyIterates
    BY <1>1, <2>4, ChainNumbers DEF ApplyIterates, HostPlaces
  <2>5. CASE Correct
    BY <1>1, <2>5, AssembleNumbers DEF Correct, HostPlaces
  <2>6. CASE FirstNorm \/ NextNorm \/ ApplyReturnsGuess \/ ApplyReturns \/ ReturnSolution
    BY <1>1, <2>6 DEF FirstNorm, NextNorm, ApplyReturnsGuess, ApplyReturns, ReturnSolution, HostPlaces,
       deviceVars
  <2> QED
    BY <2>1, <2>2, <2>3, <2>4, <2>5, <2>6 DEF Solve
<1>6. mem' \in [Buffer -> Left]
  <2>1. CASE ApplyReturnsGuess
    <3>1. Made("delta", mem["res"].of, 0) \in Left
      BY <1>3, LeftType DEF Quantities
    <3> QED
      BY <1>1, <2>1, <3>1 DEF ApplyReturnsGuess
  <2>2. CASE ~ApplyReturnsGuess
    <3>1. mem' = mem
      BY <2>2 DEF BeginSolve, Solve, ScatterAfterResets, FirstNorm, NextNorm, BeginApply, ApplyIterates,
         ApplyReturns, Correct, ReturnSolution, deviceVars
    <3> QED
      BY <1>1, <3>1
  <2> QED
    BY <2>1, <2>2
<1>7. res_nrm2' \in Values /\ entered' \in Nat
  BY <1>1, <1>3, <1>4 DEF BeginSolve, Solve, ScatterAfterResets, FirstNorm, NextNorm, BeginApply,
     ApplyReturnsGuess, ApplyIterates, ApplyReturns, Correct, ReturnSolution
<1>8. returned' \in [res : Values, iters : Nat]
  <2>1. CASE ReturnSolution
    BY <1>1, <2>1 DEF ReturnSolution, CountInv
  <2>2. CASE ~ReturnSolution
    <3>1. returned' = returned
      BY <2>2 DEF BeginSolve, Solve, ScatterAfterResets, FirstNorm, NextNorm, BeginApply,
         ApplyReturnsGuess, ApplyIterates, ApplyReturns, Correct
    <3> QED
      BY <1>1, <3>1
  <2> QED
    BY <2>1, <2>2
<1> QED
  BY <1>5, <1>6, <1>7, <1>8 DEF ScalarsInv

LEMMA AllowedNumber == HostInv => Allowed \in Nat
BY AllowedType

\* How often the linear solver has returned in the current call.
LEMMA SolveCounts ==
  ASSUME HostInv, ScalarsInv, CountInv, BeginSolve \/ Solve
  PROVE  CountInv'
<1>1. /\ outer_iter \in Nat /\ inner \in 0 .. MaxInner /\ num_inner_iters \in Nat /\ MaxInner \in Nat
      /\ Applied <= Allowed /\ num_inner_iters <= Applied * MaxInner
  BY NewtonAssumption DEF CountInv
<1>2. HostInv' /\ session' = session
  BY NextHostInv DEF Next
<1>3. ASSUME call' = call PROVE Allowed' = Allowed
  BY <1>2, <1>3 DEF Allowed, Request
<1>4. CASE BeginSolve
  <2>1. /\ outer_iter' = 0 /\ num_inner_iters' = 0 /\ inner' = 0 /\ First' /\ Assemble(<<Reset(Delta[call + 1])>>)
    BY <1>4 DEF BeginSolve, First
  <2>2. pc' \in {"resets", "norm"}
    BY <2>1, AssembleNumbers DEF ScalarsInv
  <2>3. Applied' = 0
    BY <2>1, <2>2 DEF Applied
  <2>4. (Allowed \in Nat)'
    BY <1>2, AllowedNumber, PTL
  <2> QED
    BY <1>1, <2>1, <2>3, <2>4, Products DEF CountInv
<1>5. CASE ScatterAfterResets \/ FirstNorm \/ BeginApply \/ ReturnSolution \/ ApplyIterates
  <2>1. /\ call' = call /\ outer_iter' = outer_iter /\ num_inner_iters' = num_inner_iters
    BY <1>5 DEF ScatterAfterResets, FirstNorm, BeginApply, ReturnSolution, ApplyIterates
  <2>2. Applied' = Applied
    BY <1>5 DEF ScatterAfterResets, FirstNorm, BeginApply, ReturnSolution, ApplyIterates, Applied, First
  <2>3. inner' \in 0 .. MaxInner
    BY <1>1, <1>5 DEF ScatterAfterResets, FirstNorm, BeginApply, ReturnSolution, ApplyIterates
  <2> QED
    BY <1>1, <1>3, <2>1, <2>2, <2>3 DEF CountInv
<1>6. CASE NextNorm
  <2>1. /\ call' = call /\ outer_iter' = outer_iter + 1 /\ num_inner_iters' = num_inner_iters /\ inner' = inner
    BY <1>6 DEF NextNorm
  <2>2. Applied' = Applied
    BY <1>6 DEF NextNorm, Applied, First
  <2> QED
    BY <1>1, <1>3, <2>1, <2>2 DEF CountInv
<1>7. ASSUME pc \in {"guess", "iterate", "correct"}
      PROVE  ~First /\ outer_iter + 1 <= Allowed
  BY <1>7, WhenCalled DEF HostInv, GoesInv, PoolInv
<1>8. CASE ApplyReturnsGuess
  <2>1. /\ call' = call /\ outer_iter' = outer_iter /\ num_inner_iters' = num_inner_iters /\ inner' = inner
        /\ pc = "guess" /\ pc' = "correct"
    BY <1>8 DEF ApplyReturnsGuess
  <2>2. Applied = outer_iter /\ Applied' = outer_iter + 1
    BY <2>1 DEF Applied
  <2>3. outer_iter * MaxInner <= (outer_iter + 1) * MaxInner
        /\ outer_iter * MaxInner \in Nat /\ (outer_iter + 1) * MaxInner \in Nat
    BY <1>1, Products
  <2> QED
    BY <1>1, <1>3, <1>7, <2>1, <2>2, <2>3 DEF CountInv
<1>9. CASE ApplyReturns
  <2>1. /\ call' = call /\ outer_iter' = outer_iter /\ num_inner_iters' = num_inner_iters + inner
        /\ inner' = inner /\ pc = "iterate" /\ pc' = "correct"
    BY <1>9 DEF ApplyReturns
  <2>2. Applied = outer_iter /\ Applied' = outer_iter + 1
    BY <2>1 DEF Applied
  <2>3. (outer_iter + 1) * MaxInner = outer_iter * MaxInner + MaxInner /\ outer_iter * MaxInner \in Nat
    BY <1>1, Products
  <2>4. num_inner_iters' <= Applied' * MaxInner
    BY <1>1, <2>1, <2>2, <2>3
  <2> QED
    BY <1>1, <1>3, <1>7, <2>1, <2>2, <2>4 DEF CountInv
<1>10. CASE Correct
  <2>1. /\ call' = call /\ outer_iter' = outer_iter /\ num_inner_iters' = num_inner_iters
        /\ inner' = inner /\ pc = "correct" /\ res_nrm2' = res_nrm2 /\ Assemble(<<Subtract(Delta[call])>>)
    BY <1>10 DEF Correct
  <2>2. pc' \in {"resets", "norm"}
    BY <2>1, AssembleNumbers DEF ScalarsInv
  <2>3. ~First'
    BY <1>7, <2>1 DEF First
  <2>4. Applied' = Applied
    BY <2>1, <2>2, <2>3 DEF Applied
  <2> QED
    BY <1>1, <1>3, <2>1, <2>4 DEF CountInv
<1> QED
  BY <1>4, <1>5, <1>6, <1>8, <1>9, <1>10 DEF Solve

LEMMA InitTyped == Init => ScalarsInv /\ CountInv
<1> SUFFICES ASSUME Init PROVE ScalarsInv /\ CountInv
  OBVIOUS
<1>1. issued \in Nat
  <2>1. Sequence(InitWork)
    BY TupleSequences, InOrderOn DEF InitWork, WorkOn
  <2>2. Len(InitWork) \in Nat
    BY <2>1, SequenceDomain
  <2> QED
    BY <2>2 DEF Init
<1>2. mem \in [Buffer -> Left] /\ Unset \in Values /\ Garbage \in Values
  BY LeftParts DEF Init
<1>3. ScalarsInv
  BY <1>1, <1>2 DEF Init, ScalarsInv, HostPlaces
<1>4. Applied = 0 /\ Allowed = 0 /\ 0 * MaxInner = 0 /\ MaxInner \in Nat
  BY NewtonAssumption DEF Init, Applied, Allowed
<1> QED
  BY <1>3, <1>4 DEF Init, CountInv

LEMMA NextTyped ==
  HostInv /\ FlightInv /\ ScalarsInv /\ CountInv /\ [Next]_vars => ScalarsInv' /\ CountInv'
<1> SUFFICES ASSUME HostInv, FlightInv, ScalarsInv, CountInv, [Next]_vars
             PROVE  ScalarsInv' /\ CountInv'
  OBVIOUS
<1>1. CASE BeginSolve \/ Solve
  BY <1>1, SolveScalars, SolveCounts
<1>2. CASE RunOne
  <2>1. PICK t \in pending : RunKernel(t, Results(t.kernel.op, Operands(t)))
    BY <1>2 DEF RunOne
  <2>2. mem' \in [Buffer -> Left]
    BY <2>1, RunTyped DEF ScalarsInv
  <2>3. UNCHANGED hostVars /\ issued' = issued
    BY <1>2, <2>1 DEF RunOne, RunKernel
  <2> QED
    BY <2>2, <2>3 DEF hostVars, ScalarsInv, CountInv, Applied, Allowed, Request, First
<1>3. CASE UNCHANGED vars
  BY <1>3 DEF vars, deviceVars, hostVars, ScalarsInv, CountInv, Applied, Allowed, Request, First
<1> QED
  BY <1>1, <1>2, <1>3 DEF Next, Terminated

\* In any session a call makes at most max_iters iterations and has the linear solver
\* iterate no more than that many calls of it can, and holds nothing but quantities of
\* the problem (newton/Solver.hpp:42-63).
THEOREM TypeCorrect == Spec => []NewtonTypeOK
<1>1. Init => HostInv /\ FlightInv /\ ScalarsInv /\ CountInv
  BY InitHostInv, InitFlight, InitTyped
<1>2. HostInv /\ FlightInv /\ ScalarsInv /\ CountInv /\ [Next]_vars
        => HostInv' /\ FlightInv' /\ ScalarsInv' /\ CountInv'
  BY NextHostInv, NextFlight, NextTyped
<1> QED
  BY <1>1, <1>2, TypesOf, PTL DEF Spec

=============================================================================
