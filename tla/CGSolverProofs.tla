--------------------------- MODULE CGSolverProofs ---------------------------
(***************************************************************************)
(* Proofs about CGSolver, for any sessions.                                *)
(*                                                                         *)
(* Nothing is in flight when apply() returns.  That alone is not           *)
(* inductive: the invariant says for every place where the host thread may *)
(* wait on which streams work can be in flight there, so the fence of that *)
(* place leaves nothing behind that the next one does not know of.         *)
(*                                                                         *)
(* All variants are free of races.  In the queue variants, kernels of one  *)
(* stream are ordered; where both streams can be busy, each keeps to its   *)
(* own side of the solver's data.  In a graph, kernels that touch the same *)
(* data are linked by paths.                                               *)
(*                                                                         *)
(* All variants implement IterativeSolver.  An abstract number stands for  *)
(* the iterate in memory, so the invariant has to know which quantity of   *)
(* which iterate each buffer will hold: not when the kernels in flight are *)
(* run in one order or another, but once all of them have run (Leaves), in *)
(* the order of their numbers.  Any other order leaves the same, since     *)
(* kernels that touch the same data are ordered.  At every place of        *)
(* apply() that memory is the one the algorithm wants there (Holds).       *)
(*                                                                         *)
(* The type invariant needs that kernels in flight are typed, too, and     *)
(* that an iteration is only begun when one is left (TypedInv).            *)
(***************************************************************************)
EXTENDS CGSolver, KernelsProofs, WellFoundedInduction

\* The streams that may be busy, by what the host thread does next.
Busy ==
  CASE pc = "idle" -> {}
    [] pc = "loop" /\ session.graph -> {}
    [] pc \in {"norm", "next"} -> {"A", "B"}
    [] OTHER -> {"A"}

\* Graph and queue variants are at places of their own.
PlacesInv ==
  /\ pc \in {"submit", "evaluate"} => session.graph
  /\ pc \in {"residuals", "quadratic", "norm", "next"} => ~session.graph

\* A call is a call of the session; a graph was made for one of them.
SessionInv ==
  /\ session \in Sessions
  /\ call \in Nat
  /\ pc # "idle" => call \in DOMAIN session.calls
  /\ graph.num_sweeps \in Nat

StreamsInv == SessionInv /\ PlacesInv /\ InFlightOn(Busy)

-----------------------------------------------------------------------------
(***************************************************************************)
(* The pieces of work are on the streams they name.                        *)
(***************************************************************************)

LEMMA JacobiApplySequence ==
  ASSUME NEW num_sweeps \in Nat
  PROVE  Sequence(JacobiApply(num_sweeps))
<1> DEFINE from(i) == IF i % 2 = 1 THEN "res_p" ELSE "jacobi"
           to(i) == IF i % 2 = 1 THEN "jacobi" ELSE "res_p"
           first == <<Kernel("sweep", <<>>, <<"mat", "res">>, <<"res_p">>, {})>>
           more == [i \in 1 .. FurtherSweeps(num_sweeps) |->
                      Kernel("sweep", <<>>, <<"mat", "res", from(i)>>, <<to(i)>>, {})]
           copy == IF num_sweeps > 1 /\ num_sweeps % 2 = 0 THEN <<Copy("jacobi", "res_p")>> ELSE <<>>
<1>1. FurtherSweeps(num_sweeps) \in Nat
  BY DEF FurtherSweeps
<1>2. Sequence(more)
  BY <1>1, SequenceMade
<1>3. Sequence(first)
  BY TupleSequences
<1>4. Sequence(copy)
  BY TupleSequences
<1>5. JacobiApply(num_sweeps) = first \o more \o copy
  BY DEF JacobiApply
<1> HIDE DEF first, more, copy
<1> QED
  BY <1>2, <1>3, <1>4, <1>5, Concatenation

LEMMA PreconditionSequence ==
  ASSUME session \in Sessions, HasPrec, NEW num_sweeps \in Nat, NEW inverse
  PROVE  Sequence(Precondition(num_sweeps, inverse))
<1>1. session.prec \in {"identity", "diagonal", "jacobi"}
  BY SessionsAssumption DEF HasPrec
<1>2. CASE session.prec = "identity"
  BY <1>2, TupleSequences DEF Precondition
<1>3. CASE session.prec = "diagonal"
  BY <1>3, TupleSequences DEF Precondition
<1>4. CASE session.prec = "jacobi"
  BY <1>4, JacobiApplySequence DEF Precondition
<1> QED
  BY <1>1, <1>2, <1>3, <1>4

LEMMA GraphUpdatesOn ==
  ASSUME NEW sol
  PROVE  WorkOn(GraphUpdates(sol), {"A"})
<1> DEFINE alpha == InOrder("A",
                      <<Spmv, Dot("A", "tmp", "dir", "mat_dir"),
                        Kernel("alpha", <<>>, <<"dot_old", "tmp">>, <<"alpha", "alpha_neg">>, {})>>)
           solved == Then(alpha, "A", {3}, <<Axpby("alpha", "dir", sol)>>)
<1>1. WorkOn(alpha, {"A"})
  BY TupleSequences, InOrderOn
<1>2. WorkOn(solved, {"A"})
  <2> HIDE DEF alpha
  <2> QED
    BY <1>1, TupleSequences, ThenOn
<1>3. GraphUpdates(sol) = Then(solved, "A", {3}, <<Axpby("alpha_neg", "mat_dir", "res")>>)
  BY DEF GraphUpdates, InOrder
<1> HIDE DEF solved
<1> QED
  BY <1>2, <1>3, TupleSequences, ThenOn

LEMMA CGGraphWorkOn ==
  ASSUME NEW sol
  PROVE  WorkOn(CGGraphWork(sol), {"A"})
<1> DEFINE beta == Then(GraphUpdates(sol), "A", {5}, <<Dot("A", "tmp", "res", "res"), Beta>>)
<1>1. WorkOn(beta, {"A"})
  BY GraphUpdatesOn, TupleSequences, ThenOn
<1>2. CGGraphWork(sol) = Then(beta, "A", {4, Len(beta)}, <<Axpby("tmp", "res", "dir")>>)
  BY DEF CGGraphWork
<1> HIDE DEF beta
<1> QED
  BY <1>1, <1>2, TupleSequences, ThenOn

LEMMA PCGGraphWorkOn ==
  ASSUME session \in Sessions, HasPrec, NEW sol, NEW num_sweeps \in Nat, NEW inverse
  PROVE  WorkOn(PCGGraphWork(sol, num_sweeps, inverse), {"A"})
<1> DEFINE norm == Then(GraphUpdates(sol), "A", {5}, <<Dot("A", "res_dot", "res", "res")>>)
           prec == Then(norm, "A", {5}, Precondition(num_sweeps, inverse))
           beta == Then(prec, "A", Serialized({Len(prec)}, Len(norm)),
                        <<Dot("A", "tmp", "res_p", "res"), Beta>>)
<1>1. WorkOn(norm, {"A"})
  BY GraphUpdatesOn, TupleSequences, ThenOn
<1>2. WorkOn(prec, {"A"})
  <2> HIDE DEF norm
  <2> QED
    BY <1>1, PreconditionSequence, ThenOn
<1>3. WorkOn(beta, {"A"})
  <2> HIDE DEF norm, prec
  <2> QED
    BY <1>2, TupleSequences, ThenOn
<1>4. PCGGraphWork(sol, num_sweeps, inverse)
        = Then(beta, "A", {4, Len(beta)}, <<Axpby("tmp", "res_p", "dir")>>)
  BY DEF PCGGraphWork
<1> HIDE DEF beta
<1> QED
  BY <1>3, <1>4, TupleSequences, ThenOn

-----------------------------------------------------------------------------
(***************************************************************************)
(* The invariant holds initially and is preserved by every step.           *)
(***************************************************************************)

LEMMA InitStreamsInv == Init => StreamsInv
BY DEF Init, StreamsInv, SessionInv, PlacesInv, InFlightOn, NoGraph

\* The calls of a session have the parameters that the proofs need.
LEMMA RequestType ==
  ASSUME SessionInv
  PROVE  /\ DOMAIN session.calls = 1 .. Len(session.calls) /\ Len(session.calls) \in Nat
         /\ \A c \in DOMAIN session.calls : /\ session.calls[c].num_sweeps \in Nat
                                            /\ session.calls[c].sol \in Solutions
<1> DEFINE Asked == [sol : Solutions, num_sweeps : Nat, max_iters : Nat, first : Nat,
                     tie : BOOLEAN, keeps : BOOLEAN, invert : BOOLEAN]
<1>1. session.calls \in Seq(Asked)
  BY SessionsAssumption DEF SessionInv
<1>2. \A asked \in Asked : asked.num_sweeps \in Nat /\ asked.sol \in Solutions
  OBVIOUS
<1> HIDE DEF Asked
<1>3. /\ DOMAIN session.calls = 1 .. Len(session.calls) /\ Len(session.calls) \in Nat
      /\ session.calls \in [1 .. Len(session.calls) -> Asked]
  BY <1>1, LenProperties
<1> QED
  BY <1>2, <1>3

\* apply() begins with nothing in flight.
LEMMA BeginApplyInv ==
  ASSUME StreamsInv, BeginApply
  PROVE  StreamsInv'
<1> USE DEF BeginApply
<1>1. SessionInv'
  <2>1. call + 1 \in DOMAIN session.calls
    BY RequestType DEF StreamsInv, SessionInv
  <2> QED
    BY <2>1 DEF StreamsInv, SessionInv, NoGraph
<1>2. PlacesInv'
  BY DEF PlacesInv
<1>3. InFlightOn(Busy)'
  <2> DEFINE sol == session.calls[call + 1].sol
             ahead == IF session.calls[call + 1].invert THEN <<Invert>> ELSE <<>>
             kernels == ahead \o PrecomputeResidual(sol)
  <2>1. Sequence(ahead)
    BY TupleSequences
  <2>2. Sequence(PrecomputeResidual(sol))
    BY TupleSequences DEF PrecomputeResidual
  <2>3. WorkOn(InOrder("A", kernels), {"A"})
    <3> HIDE DEF ahead
    <3> QED
      BY <2>1, <2>2, Concatenation, InOrderOn
  <2>4. InFlightOn({"A"})
    BY DEF StreamsInv, Busy, InFlightOn
  <2>5. Enqueue(InOrder("A", kernels))
    OBVIOUS
  <2>6. InFlightOn({"A"})'
    <3> HIDE DEF kernels
    <3> QED
      BY <2>3, <2>4, <2>5, EnqueuedOn
  <2>7. Busy' = {"A"}
    BY DEF Busy
  <2> QED
    BY <2>6, <2>7 DEF InFlightOn
<1> QED
  BY <1>1, <1>2, <1>3 DEF StreamsInv

\* What has to be shown of a step of apply().
LEMMA GoInv ==
  ASSUME StreamsInv, NEW next, Go(next), pc # "idle", graph'.num_sweeps \in Nat,
         next \in {"submit", "evaluate"} => session.graph,
         next \in {"residuals", "quadratic", "norm", "next"} => ~session.graph,
         InFlightOn(Busy)'
  PROVE  StreamsInv'
BY DEF StreamsInv, SessionInv, PlacesInv, Go

\* A step that enqueues a chain on the first stream, where nothing else is busy.
LEMMA EnqueueOnA ==
  ASSUME NEW work, WorkOn(work, {"A"}), InFlightOn({"A"}), Enqueue(work), "A" \in Busy'
  PROVE  InFlightOn(Busy)'
<1>1. InFlightOn({"A"})'
  BY EnqueuedOn
<1> QED
  BY <1>1 DEF InFlightOn

\* Steps that enqueue nothing, after a fence of the only stream that is left.
LEMMA FenceInv ==
  ASSUME StreamsInv,
         ReturnGuess \/ QueueConverged \/ QueueReturn \/ EvaluateConvergence \/ GraphReturn
  PROVE  StreamsInv'
<1> USE DEF StreamsInv
<1>1. CASE ReturnGuess
  <2>1. pending' = {}
    BY <1>1 DEF ReturnGuess, Fenced, Busy, InFlightOn, deviceVars
  <2> QED
    BY <1>1, <2>1, GoInv DEF ReturnGuess, SessionInv, InFlightOn
<1>2. CASE QueueConverged
  <2>1. InFlightOn({"A"})'
    BY <1>2 DEF QueueConverged, Fenced, Busy, InFlightOn, deviceVars
  <2>2. Busy' = {"A"}
    BY <1>2 DEF QueueConverged, Go, Busy, PlacesInv
  <2>3. InFlightOn(Busy)'
    BY <2>1, <2>2 DEF InFlightOn
  <2> QED
    BY <1>2, <2>3, GoInv DEF QueueConverged, SessionInv
<1>3. CASE QueueReturn
  <2>1. pending' = {}
    BY <1>3 DEF QueueReturn, Fenced, Busy, InFlightOn, deviceVars
  <2> QED
    BY <1>3, <2>1, GoInv DEF QueueReturn, SessionInv, InFlightOn
<1>4. CASE EvaluateConvergence
  <2>1. pending' = {}
    BY <1>4 DEF EvaluateConvergence, Fenced, Busy, InFlightOn, deviceVars
  <2> QED
    BY <1>4, <2>1, GoInv DEF EvaluateConvergence, SessionInv, InFlightOn
<1>5. CASE GraphReturn
  <2>1. pending' = {}
    BY <1>5 DEF GraphReturn, Busy, InFlightOn, deviceVars
  <2> QED
    BY <1>5, <2>1, GoInv DEF GraphReturn, SessionInv, InFlightOn
<1> QED
  BY <1>1, <1>2, <1>3, <1>4, <1>5

\* Steps that enqueue work on the first stream, where nothing else is busy.
LEMMA StartCGInv ==
  ASSUME StreamsInv, StartCG
  PROVE  StreamsInv'
<1>1. InFlightOn({"A"}) /\ "A" \in Busy'
  BY DEF StreamsInv, StartCG, Go, Busy, InFlightOn
<1>2. WorkOn(InOrder("A", <<Direction("res")>>), {"A"})
  BY TupleSequences, InOrderOn
<1>3. InFlightOn(Busy)'
  BY <1>1, <1>2, EnqueueOnA DEF StartCG
<1> QED
  BY <1>3, GoInv DEF StartCG, StreamsInv, SessionInv

LEMMA StartPCGInv ==
  ASSUME StreamsInv, StartPCG
  PROVE  StreamsInv'
<1> DEFINE swept == Precondition(Request.num_sweeps, InverseOf(call))
           dots == IF session.graph
                     THEN <<Dot("A", "dot_old", "res_p", "res"), Direction("res_p")>>
                     ELSE <<Dot("A", "tmp", "res_p", "res")>>
<1>1. InFlightOn({"A"}) /\ "A" \in Busy'
  BY DEF StreamsInv, StartPCG, Go, Busy, InFlightOn
<1>2. Sequence(swept)
  BY RequestType, PreconditionSequence DEF StartPCG, StreamsInv, SessionInv, Request
<1>3. Sequence(dots)
  BY TupleSequences
<1>4. Enqueue(InOrder("A", swept \o dots))
  BY DEF StartPCG
<1>5. WorkOn(InOrder("A", swept \o dots), {"A"})
  <2> HIDE DEF swept, dots
  <2> QED
    BY <1>2, <1>3, Concatenation, InOrderOn
<1>6. InFlightOn(Busy)'
  <2> HIDE DEF swept, dots
  <2> QED
    BY <1>1, <1>4, <1>5, EnqueueOnA
<1> QED
  BY <1>6, GoInv DEF StartPCG, StreamsInv, SessionInv

LEMMA StartPCGQueueInv ==
  ASSUME StreamsInv, StartPCGQueue
  PROVE  StreamsInv'
<1>1. InFlightOn({"A"}) /\ "A" \in Busy'
  BY DEF StreamsInv, PlacesInv, StartPCGQueue, Go, Busy, InFlightOn
<1>2. WorkOn(InOrder("A", <<Direction("res_p")>>), {"A"})
  BY TupleSequences, InOrderOn
<1>3. InFlightOn(Busy)'
  BY <1>1, <1>2, EnqueueOnA DEF StartPCGQueue
<1> QED
  BY <1>3, GoInv DEF StartPCGQueue, StreamsInv, SessionInv

LEMMA QueueProductInv ==
  ASSUME StreamsInv, QueueProduct
  PROVE  StreamsInv'
<1>1. InFlightOn({"A"}) /\ "A" \in Busy'
  BY DEF StreamsInv, QueueProduct, Go, Busy, InFlightOn
<1>2. WorkOn(InOrder("A", <<Spmv, Dot("A", "tmp", "dir", "mat_dir")>>), {"A"})
  BY TupleSequences, InOrderOn
<1>3. InFlightOn(Busy)'
  BY <1>1, <1>2, EnqueueOnA DEF QueueProduct
<1> QED
  BY <1>3, GoInv DEF QueueProduct, StreamsInv, SessionInv

LEMMA SubmitGraphInv ==
  ASSUME StreamsInv, SubmitFirst \/ SubmitAgain
  PROVE  StreamsInv'
<1> DEFINE work == IF HasPrec
                     THEN PCGGraphWork(graph'.sol, graph'.num_sweeps, graph'.inverse)
                     ELSE CGGraphWork(graph'.sol)
<1>1. InFlightOn({"A"}) /\ "A" \in Busy'
  BY DEF StreamsInv, SubmitFirst, SubmitAgain, SubmitGraph, Go, Busy, InFlightOn
<1>2. graph'.num_sweeps \in Nat
  BY RequestType DEF StreamsInv, SessionInv, SubmitFirst, SubmitAgain, Request
<1>3. WorkOn(work, {"A"})
  BY <1>2, PCGGraphWorkOn, CGGraphWorkOn DEF StreamsInv, SessionInv
<1>4. Enqueue(work) /\ Go("evaluate")
  BY DEF SubmitFirst, SubmitAgain, SubmitGraph
<1>5. InFlightOn(Busy)'
  <2> HIDE DEF work
  <2> QED
    BY <1>1, <1>3, <1>4, EnqueueOnA
<1>6. session.graph /\ pc # "idle"
  BY DEF StreamsInv, PlacesInv, SubmitFirst, SubmitAgain
<1> QED
  BY <1>2, <1>4, <1>5, <1>6, GoInv

\* Steps of the queue variants that use both streams.
LEMMA QueueUpdateInv ==
  ASSUME StreamsInv, QueueUpdate
  PROVE  StreamsInv'
<1> DEFINE alpha == Results("alpha", <<res_dot_old, mem["tmp"]>>)
           solution == InOrder("A", <<AxpbyBy(alpha[1], "dir", Request.sol)>>)
           residual == <<AxpbyBy(alpha[2], "mat_dir", "res"), Dot("B", "tmp", "res", "res")>>
<1>1. WorkOn(solution, {"A", "B"})
  BY TupleSequences, InOrderOn
<1>2. Sequence(residual)
  BY TupleSequences
<1>3. Enqueue(Then(solution, "B", {}, residual))
  BY DEF QueueUpdate
<1>4. InFlightOn({"A", "B"}) /\ Busy' = {"A", "B"}
  BY DEF StreamsInv, QueueUpdate, Go, Busy, InFlightOn
<1>5. InFlightOn({"A", "B"})'
  <2> HIDE DEF solution, residual
  <2> QED
    BY <1>1, <1>2, <1>3, <1>4, ThenOn, EnqueuedOn
<1>6. InFlightOn(Busy)'
  BY <1>4, <1>5 DEF InFlightOn
<1> QED
  BY <1>6, GoInv DEF QueueUpdate, StreamsInv, SessionInv, PlacesInv

LEMMA PCGQueuePreconditionInv ==
  ASSUME StreamsInv, PCGQueuePrecondition
  PROVE  StreamsInv'
<1> DEFINE swept == Precondition(Request.num_sweeps, InverseOf(call))
           dots == <<Dot("B", "tmp", "res_p", "res")>>
<1>1. Sequence(swept)
  BY RequestType, PreconditionSequence DEF PCGQueuePrecondition, StreamsInv, SessionInv, Request
<1>2. Sequence(dots)
  BY TupleSequences
<1>3. Enqueue(InOrder("B", swept \o dots))
  BY DEF PCGQueuePrecondition
<1>4. InFlightOn({"A", "B"}) /\ Busy' = {"A", "B"}
  BY DEF StreamsInv, PCGQueuePrecondition, Go, Busy, InFlightOn
<1>5. InFlightOn({"A", "B"})'
  <2> HIDE DEF swept, dots
  <2> QED
    BY <1>1, <1>2, <1>3, <1>4, Concatenation, InOrderOn, EnqueuedOn
<1>6. InFlightOn(Busy)'
  BY <1>4, <1>5 DEF InFlightOn
<1> QED
  BY <1>6, GoInv DEF PCGQueuePrecondition, StreamsInv, SessionInv, PlacesInv

\* The second stream was fenced, the new direction is on the first one.
LEMMA QueueNextInv ==
  ASSUME StreamsInv, CGQueueNext \/ PCGQueueNext
  PROVE  StreamsInv'
<1> DEFINE kernels == <<AxpbyBy(Results("beta", <<res_dot_old, mem["tmp"]>>)[1], DirRes, "dir")>>
<1>1. ~session.graph /\ Go("loop") /\ pc # "idle"
  BY DEF StreamsInv, PlacesInv, CGQueueNext, PCGQueueNext
<1>2. InFlightOn({"A"})
  BY DEF StreamsInv, CGQueueNext, PCGQueueNext, Busy, InFlightOn, Fenced
<1>3. "A" \in Busy'
  BY <1>1 DEF Go, Busy
<1>4. Enqueue(InOrder("A", kernels))
  BY DEF CGQueueNext, PCGQueueNext, UpdateDirection
<1>5. WorkOn(InOrder("A", kernels), {"A"})
  BY TupleSequences, InOrderOn
<1>6. InFlightOn(Busy)'
  <2> HIDE DEF kernels
  <2> QED
    BY <1>2, <1>3, <1>4, <1>5, EnqueueOnA
<1> QED
  BY <1>1, <1>6, GoInv DEF CGQueueNext, PCGQueueNext, StreamsInv, SessionInv

LEMMA RunOneInv ==
  ASSUME StreamsInv, RunOne
  PROVE  StreamsInv'
<1>1. InFlightOn(Busy) /\ Busy' = Busy
  BY DEF StreamsInv, RunOne, hostVars, Busy
<1>2. InFlightOn(Busy)'
  BY <1>1 DEF RunOne, RunKernel, InFlightOn
<1> QED
  BY <1>2 DEF StreamsInv, RunOne, hostVars, SessionInv, PlacesInv

LEMMA NextStreamsInv == StreamsInv /\ [Next]_vars => StreamsInv'
<1> SUFFICES ASSUME StreamsInv, [Next]_vars
             PROVE  StreamsInv'
  OBVIOUS
<1>1. CASE BeginApply
  BY <1>1, BeginApplyInv
<1>2. CASE Solve
  BY <1>2, FenceInv, StartCGInv, StartPCGInv, StartPCGQueueInv, QueueProductInv, QueueUpdateInv,
     PCGQueuePreconditionInv, QueueNextInv, SubmitGraphInv DEF Solve
<1>3. CASE RunOne
  BY <1>3, RunOneInv
<1>4. CASE UNCHANGED vars
  BY <1>4 DEF vars, deviceVars, hostVars, StreamsInv, SessionInv, PlacesInv, Busy, InFlightOn
<1> QED
  BY <1>1, <1>2, <1>3, <1>4 DEF Next, Terminated

-----------------------------------------------------------------------------

\* Where the host thread waits tells on which streams work can be in flight
\* (cg/Queue.hpp:94-123, pcg/Queue.hpp:126-160, pcg/Graph.hpp:177-190).
THEOREM StreamsInvariance == Spec => []StreamsInv
<1> QED
  BY InitStreamsInv, NextStreamsInv, PTL DEF Spec

\* For any session, with any number of iterations and sweeps, nothing is in flight
\* when apply() returns (cg/Helpers.hpp:55-58).
THEOREM Settled == Spec => []SettledOnReturn
<1>1. StreamsInv => SettledOnReturn
  BY DEF StreamsInv, Busy, InFlightOn, SettledOnReturn
<1> QED
  BY <1>1, StreamsInvariance, PTL

-----------------------------------------------------------------------------
(***************************************************************************)
(* The queue variants: kernels that may run at the same time.  Those of    *)
(* one stream never do (OneReady).  Both streams are busy only between the *)
(* updates of solution and residual and the next direction: what is then   *)
(* on the first stream writes nothing but the solution, and what is on the *)
(* second one neither touches the solution nor writes the direction.       *)
(***************************************************************************)

SolutionSide(k) ==
  /\ Range(k.in) \subseteq Solutions \cup {"dir", "alpha"}
  /\ Range(k.out) \cup k.scratch \subseteq Solutions

ResidualSide(k) ==
  /\ (Range(k.in) \cup Range(k.out) \cup k.scratch) \cap Solutions = {}
  /\ {"dir", "alpha"} \cap (Range(k.out) \cup k.scratch) = {}

SidesInv ==
  pc \in {"norm", "next"} =>
    \A t \in pending : /\ t.stream = "A" => SolutionSide(t.kernel)
                       /\ t.stream = "B" => ResidualSide(t.kernel)

QueueInv == ~session.graph => StreamOrder /\ SidesInv

-----------------------------------------------------------------------------

\* There is a latest call of any kind up to call c, if only the first one.
LEMMA LatestCallChosen ==
  ASSUME NEW c \in Nat \ {0}, NEW called
  PROVE  LET d == LatestCall(c, called)
         IN d \in 1 .. c /\ (d = 1 \/ d \in called) /\ \A e \in (d + 1) .. c : e \notin called
<1> DEFINE Less == {ss \in Nat \X Nat : ss[1] < ss[2]}
           Candidates == {d \in 1 .. c : d = 1 \/ d \in called}
           T == {c - d : d \in Candidates}
<1>1. IsWellFoundedOn(Less, Nat)
  BY NatLessThanWellFounded DEF OpToRel
<1>2. T \subseteq Nat /\ c - 1 \in T
  BY SMT
<1>3. PICK x \in T : \A y \in T : <<y, x>> \notin Less
  <2> HIDE DEF Less, T
  <2> QED
    BY <1>1, <1>2, WFMin
<1>4. PICK d \in Candidates : x = c - d
  BY <1>3
<1>5. \A e \in (d + 1) .. c : e \notin called
  <2> SUFFICES ASSUME NEW e \in (d + 1) .. c, e \in called
               PROVE  FALSE
    OBVIOUS
  <2>1. c - e \in T /\ c - e < c - d
    BY <1>4
  <2>2. <<c - e, x>> \in Less
    BY <1>2, <1>4, <2>1
  <2> QED
    BY <1>3, <2>1, <2>2
<1>6. \E f \in 1 .. c : /\ f = 1 \/ f \in called
                        /\ \A e \in (f + 1) .. c : e \notin called
  BY <1>4, <1>5
<1> QED
  BY <1>6 DEF LatestCall

LEMMA LatestCallType ==
  ASSUME NEW c \in Nat \ {0}, NEW called
  PROVE  LatestCall(c, called) \in 1 .. c
BY LatestCallChosen

LEMMA InverseType ==
  ASSUME SessionInv, call \in DOMAIN session.calls
  PROVE  InverseOf(call) \in Range(Inverses)
<1>1. call \in 1 .. Len(session.calls) /\ Len(session.calls) \in Nat /\ call \in Nat \ {0}
  BY RequestType
<1>2. LatestCall(call, {d \in DOMAIN session.calls : session.calls[d].invert}) \in 1 .. call
  BY <1>1, LatestCallType
<1>3. 1 .. call \subseteq DOMAIN Inverses
  BY <1>1, RequestType, BuffersAssumption DEF SessionInv
<1> QED
  BY <1>2, <1>3 DEF InverseOf, Range

\* A kernel that writes one of the other views.
LEMMA OneResult ==
  ASSUME NEW op, NEW args, NEW in, Range(in) \cap Solutions = {},
         NEW x, x \notin Solutions \cup {"dir", "alpha"}
  PROVE  ResidualSide(Kernel(op, args, in, <<x>>, {}))
<1>1. Range(<<x>>) = {x}
  BY OneName
<1>2. (Range(in) \cup Range(<<x>>) \cup {}) \cap Solutions = {}
  BY <1>1
<1>3. {"dir", "alpha"} \cap (Range(<<x>>) \cup {}) = {}
  BY <1>1
<1> QED
  BY <1>2, <1>3 DEF ResidualSide, Kernel

\* What a preconditioner works on.
PreconditionerOnly(k) ==
  /\ Range(k.in) \subseteq {"mat", "res", "res_p", "jacobi"} \cup Range(Inverses)
  /\ Range(k.out) \subseteq {"res_p", "jacobi"}
  /\ k.scratch = {}

LEMMA OneOfPreconditioner ==
  ASSUME NEW op, NEW in, Range(in) \subseteq {"mat", "res", "res_p", "jacobi"} \cup Range(Inverses),
         NEW x \in {"res_p", "jacobi"}
  PROVE  PreconditionerOnly(Kernel(op, <<>>, in, <<x>>, {}))
<1>1. Range(<<x>>) \subseteq {"res_p", "jacobi"}
  BY OneName
<1> QED
  BY <1>1 DEF PreconditionerOnly, Kernel

LEMMA PreconditionOnly ==
  ASSUME session \in Sessions, HasPrec, NEW num_sweeps \in Nat, NEW inverse \in Range(Inverses),
         NEW k \in Range(Precondition(num_sweeps, inverse))
  PROVE  PreconditionerOnly(k)
<1>1. session.prec \in {"identity", "diagonal", "jacobi"}
  BY SessionsAssumption DEF HasPrec
<1>2. CASE session.prec = "identity"
  <2> DEFINE q == Kernel("identity", <<>>, <<"res">>, <<"res_p">>, {})
  <2>1. PreconditionerOnly(q)
    BY OneName, OneOfPreconditioner
  <2>2. Precondition(num_sweeps, inverse) = <<q>>
    BY <1>2 DEF Precondition
  <2> HIDE DEF q
  <2>3. k = q
    BY <2>2, OneName
  <2> QED
    BY <2>1, <2>3
<1>3. CASE session.prec = "diagonal"
  <2> DEFINE q == Kernel("scale", <<>>, <<inverse, "res">>, <<"res_p">>, {})
  <2>1. PreconditionerOnly(q)
    BY TwoNames, OneOfPreconditioner
  <2>2. Precondition(num_sweeps, inverse) = <<q>>
    BY <1>3 DEF Precondition
  <2> HIDE DEF q
  <2>3. k = q
    BY <2>2, OneName
  <2> QED
    BY <2>1, <2>3
<1>4. CASE session.prec = "jacobi"
  <2> DEFINE from(i) == IF i % 2 = 1 THEN "res_p" ELSE "jacobi"
             to(i) == IF i % 2 = 1 THEN "jacobi" ELSE "res_p"
             one == Kernel("sweep", <<>>, <<"mat", "res">>, <<"res_p">>, {})
             first == <<one>>
             more == [i \in 1 .. FurtherSweeps(num_sweeps) |->
                        Kernel("sweep", <<>>, <<"mat", "res", from(i)>>, <<to(i)>>, {})]
             copied == Copy("jacobi", "res_p")
             copy == IF num_sweeps > 1 /\ num_sweeps % 2 = 0 THEN <<copied>> ELSE <<>>
  <2>1. Sequence(first) /\ Sequence(copy)
    BY TupleSequences
  <2>2. FurtherSweeps(num_sweeps) \in Nat
    BY DEF FurtherSweeps
  <2>3. Sequence(more)
    BY <2>2, SequenceMade
  <2>4. \A q \in Range(first) : PreconditionerOnly(q)
    <3>1. PreconditionerOnly(one)
      BY TwoNames, OneOfPreconditioner
    <3> HIDE DEF one
    <3> QED
      BY <3>1, OneName
  <2>5. \A q \in Range(more) : PreconditionerOnly(q)
    <3> SUFFICES ASSUME NEW i \in 1 .. FurtherSweeps(num_sweeps)
                 PROVE  PreconditionerOnly(more[i])
      BY DEF Range
    <3>1. from(i) \in {"res_p", "jacobi"} /\ to(i) \in {"res_p", "jacobi"}
      OBVIOUS
    <3> HIDE DEF from, to
    <3>2. PreconditionerOnly(Kernel("sweep", <<>>, <<"mat", "res", from(i)>>, <<to(i)>>, {}))
      BY <3>1, ThreeNames, OneOfPreconditioner
    <3> QED
      BY <3>2 DEF from, to
  <2>6. \A q \in Range(copy) : PreconditionerOnly(q)
    <3>1. PreconditionerOnly(copied)
      BY OneName, OneOfPreconditioner DEF Copy
    <3> HIDE DEF copied
    <3> QED
      BY <3>1, NoName, OneName
  <2>7. Precondition(num_sweeps, inverse) = first \o more \o copy
    BY <1>4 DEF Precondition, JacobiApply
  <2> HIDE DEF first, more, copy
  <2>8. k \in Range(first) \cup Range(more) \cup Range(copy)
    BY <2>1, <2>3, <2>7, Concatenation
  <2> QED
    BY <2>4, <2>5, <2>6, <2>8
<1> QED
  BY <1>1, <1>2, <1>3, <1>4

\* A preconditioner stays away from the solution and the direction.
LEMMA PreconditionSide ==
  ASSUME NEW k, PreconditionerOnly(k)
  PROVE  ResidualSide(k)
BY BuffersAssumption DEF PreconditionerOnly, ResidualSide, Vectors

\* So does a dot product.
LEMMA DotSide ==
  ASSUME NEW stream \in {"A", "B"}, NEW x, NEW y, {x, y} \cap Solutions = {},
         NEW result \in Vectors \ {"dir", "alpha"}
  PROVE  ResidualSide(Dot(stream, result, x, y))
<1>1. Range(<<x, y>>) = {x, y} /\ Range(<<result>>) = {result}
  BY OneName, TwoNames
<1>2. Scratch(stream) \subseteq {"scratch of A", "scratch of B"}
  BY DEF Scratch, ScratchOf
<1>3. result \notin Solutions /\ {"scratch of A", "scratch of B"} \cap Solutions = {}
  BY BuffersAssumption DEF ScratchOf
<1>4. (Range(<<x, y>>) \cup Range(<<result>>) \cup Scratch(stream)) \cap Solutions = {}
  BY <1>1, <1>2, <1>3
<1>5. {"dir", "alpha"} \cap (Range(<<result>>) \cup Scratch(stream)) = {}
  BY <1>1, <1>2
<1> QED
  BY <1>4, <1>5 DEF ResidualSide, Dot, Kernel

LEMMA UpdateSides ==
  ASSUME NEW sol \in Solutions, NEW value
  PROVE  /\ SolutionSide(AxpbyBy(value, "dir", sol))
         /\ ResidualSide(AxpbyBy(value, "mat_dir", "res"))
         /\ ResidualSide(Dot("B", "tmp", "res", "res"))
<1>1. "mat_dir" \notin Solutions /\ "res" \notin Solutions
  BY BuffersAssumption DEF Vectors
<1>2. SolutionSide(AxpbyBy(value, "dir", sol))
  <2>1. Range(<<"dir", sol>>) = {"dir", sol} /\ Range(<<sol>>) = {sol}
    BY OneName, TwoNames
  <2>2. Range(<<"dir", sol>>) \subseteq Solutions \cup {"dir"} /\ Range(<<sol>>) \cup {} \subseteq Solutions
    BY <2>1
  <2> QED
    BY <2>2 DEF SolutionSide, AxpbyBy, Kernel
<1>3. ResidualSide(AxpbyBy(value, "mat_dir", "res"))
  <2>1. Range(<<"mat_dir", "res">>) \cap Solutions = {}
    BY <1>1, TwoNames
  <2> QED
    BY <1>1, <2>1, OneResult DEF AxpbyBy
<1>4. ResidualSide(Dot("B", "tmp", "res", "res"))
  BY <1>1, DotSide DEF Vectors
<1> QED
  BY <1>2, <1>3, <1>4

-----------------------------------------------------------------------------

\* The order of the streams is kept: a queue variant enqueues one chain after the
\* other on either stream.
LEMMA ChainOrder ==
  ASSUME StreamOrder, NEW stream, NEW kernels, Sequence(kernels),
         Enqueue(InOrder(stream, kernels))
  PROVE  StreamOrder'
<1>1. WorkInOrder(InOrder(stream, kernels))
  BY InOrderInOrder
<1> HIDE DEF InOrder
<1> QED
  BY <1>1, EnqueueInOrder

LEMMA BeginApplyOrder ==
  ASSUME StreamOrder, BeginApply
  PROVE  StreamOrder'
<1> DEFINE sol == session.calls[call + 1].sol
           ahead == IF session.calls[call + 1].invert THEN <<Invert>> ELSE <<>>
           kernels == ahead \o PrecomputeResidual(sol)
<1>1. Sequence(ahead)
  BY TupleSequences
<1>2. Sequence(PrecomputeResidual(sol))
  BY TupleSequences DEF PrecomputeResidual
<1>3. Sequence(kernels)
  <2> HIDE DEF ahead
  <2> QED
    BY <1>1, <1>2, Concatenation
<1>4. Enqueue(InOrder("A", kernels))
  BY DEF BeginApply
<1> HIDE DEF kernels
<1> QED
  BY <1>3, <1>4, ChainOrder

LEMMA PreconditionOrder ==
  ASSUME StreamsInv, StreamOrder, StartPCG \/ PCGQueuePrecondition
  PROVE  StreamOrder'
<1> DEFINE swept == Precondition(Request.num_sweeps, InverseOf(call))
           dots == IF session.graph
                     THEN <<Dot("A", "dot_old", "res_p", "res"), Direction("res_p")>>
                     ELSE <<Dot("A", "tmp", "res_p", "res")>>
           dot == <<Dot("B", "tmp", "res_p", "res")>>
<1>1. Sequence(swept)
  BY RequestType, PreconditionSequence
     DEF StartPCG, PCGQueuePrecondition, StreamsInv, SessionInv, Request
<1>2. Sequence(dots) /\ Sequence(dot)
  BY TupleSequences
<1>3. \/ Enqueue(InOrder("A", swept \o dots))
      \/ Enqueue(InOrder("B", swept \o dot))
  BY DEF StartPCG, PCGQueuePrecondition
<1> HIDE DEF swept, dots, dot
<1>4. Sequence(swept \o dots) /\ Sequence(swept \o dot)
  BY <1>1, <1>2, Concatenation
<1> QED
  BY <1>3, <1>4, ChainOrder

LEMMA QueueUpdateOrder ==
  ASSUME StreamOrder, QueueUpdate
  PROVE  StreamOrder'
<1> DEFINE alpha == Results("alpha", <<res_dot_old, mem["tmp"]>>)
           one == <<AxpbyBy(alpha[1], "dir", Request.sol)>>
           solution == InOrder("A", one)
           residual == <<AxpbyBy(alpha[2], "mat_dir", "res"), Dot("B", "tmp", "res", "res")>>
<1>1. Sequence(one) /\ Sequence(residual)
  BY TupleSequences
<1>2. Enqueue(Then(solution, "B", {}, residual))
  BY DEF QueueUpdate
<1> HIDE DEF one, residual
<1>3. WorkInOrder(solution) /\ \A w \in Range(solution) : w.stream # "B"
  BY <1>1, InOrderInOrder, InOrderElements
<1> HIDE DEF solution
<1>4. WorkInOrder(Then(solution, "B", {}, residual))
  BY <1>1, <1>3, ThenInOrder
<1> QED
  BY <1>2, <1>4, EnqueueInOrder

LEMMA RunOneOrder ==
  ASSUME StreamOrder, RunOne
  PROVE  StreamOrder'
<1>1. PICK t \in pending : RunKernel(t, Results(t.kernel.op, Operands(t)))
  BY DEF RunOne
<1> QED
  BY <1>1, RunInOrder

LEMMA NextOrder ==
  ASSUME StreamsInv, ~session.graph, StreamOrder, [Next]_vars
  PROVE  StreamOrder'
<1>1. CASE UNCHANGED deviceVars
  BY <1>1 DEF deviceVars, StreamOrder, Numbered
<1>2. CASE BeginApply
  BY <1>2, BeginApplyOrder
<1>3. CASE StartCG
  BY <1>3, TupleSequences, ChainOrder DEF StartCG
<1>4. CASE StartPCG \/ PCGQueuePrecondition
  BY <1>4, PreconditionOrder
<1>5. CASE StartPCGQueue
  BY <1>5, TupleSequences, ChainOrder DEF StartPCGQueue
<1>6. CASE QueueProduct
  BY <1>6, TupleSequences, ChainOrder DEF QueueProduct
<1>7. CASE QueueUpdate
  BY <1>7, QueueUpdateOrder
<1>8. CASE CGQueueNext \/ PCGQueueNext
  BY <1>8, TupleSequences, ChainOrder DEF CGQueueNext, PCGQueueNext, UpdateDirection
<1>9. CASE RunOne
  BY <1>9, RunOneOrder
<1>10. CASE SubmitFirst \/ SubmitAgain
  BY <1>10 DEF SubmitFirst, SubmitAgain, StreamsInv, PlacesInv
<1>11. CASE ReturnGuess \/ QueueConverged \/ QueueReturn \/ EvaluateConvergence \/ GraphReturn
  BY <1>1, <1>11 DEF ReturnGuess, QueueConverged, QueueReturn, EvaluateConvergence, GraphReturn
<1>12. CASE UNCHANGED vars
  BY <1>1, <1>12 DEF vars
<1> QED
  BY <1>2, <1>3, <1>4, <1>5, <1>6, <1>7, <1>8, <1>9, <1>10, <1>11, <1>12
     DEF Next, Solve, Terminated

-----------------------------------------------------------------------------

\* Each stream stays on its side.
LEMMA QueueUpdateSides ==
  ASSUME StreamsInv, QueueUpdate
  PROVE  SidesInv'
<1> DEFINE alpha == Results("alpha", <<res_dot_old, mem["tmp"]>>)
           update == AxpbyBy(alpha[1], "dir", Request.sol)
           rest == AxpbyBy(alpha[2], "mat_dir", "res")
           dot == Dot("B", "tmp", "res", "res")
           one == <<update>>
           solution == InOrder("A", one)
           residual == <<rest, dot>>
           work == Then(solution, "B", {}, residual)
<1>1. Request.sol \in Solutions
  BY RequestType DEF StreamsInv, SessionInv, QueueUpdate, Request
<1>2. SolutionSide(update) /\ ResidualSide(rest) /\ ResidualSide(dot)
  BY <1>1, UpdateSides
<1>3. pending = {}
  BY DEF StreamsInv, QueueUpdate, Busy, InFlightOn, Fenced
<1>4. Enqueue(work)
  BY DEF QueueUpdate
<1>5. Sequence(one) /\ Sequence(residual)
  BY TupleSequences
<1> HIDE DEF update, rest, dot
<1>6. Range(one) = {update} /\ Range(residual) = {rest, dot}
  BY OneName, TwoNames
<1> HIDE DEF one, residual
<1>7. /\ Sequence(solution)
      /\ \A w \in Range(solution) : w.stream = "A" /\ w.kernel = update
  BY <1>5, <1>6, InOrderElements
<1> HIDE DEF solution
<1>8. \A w \in Range(work) : \/ w.stream = "A" /\ w.kernel = update
                             \/ w.stream = "B" /\ w.kernel \in {rest, dot}
  BY <1>5, <1>6, <1>7, ThenElements
<1> HIDE DEF work
<1>9. ASSUME NEW t \in pending'
      PROVE  /\ t.stream = "A" => SolutionSide(t.kernel)
             /\ t.stream = "B" => ResidualSide(t.kernel)
  BY <1>2, <1>3, <1>4, <1>8, EnqueuedElements
<1> QED
  BY <1>9 DEF SidesInv

LEMMA PCGQueuePreconditionSides ==
  ASSUME StreamsInv, SidesInv, PCGQueuePrecondition
  PROVE  SidesInv'
<1> DEFINE swept == Precondition(Request.num_sweeps, InverseOf(call))
           dot == Dot("B", "tmp", "res_p", "res")
           last == <<dot>>
           work == InOrder("B", swept \o last)
<1>1. /\ session \in Sessions /\ HasPrec /\ Request.num_sweeps \in Nat
      /\ InverseOf(call) \in Range(Inverses)
  BY RequestType, InverseType DEF StreamsInv, SessionInv, PCGQueuePrecondition, Request
<1>2. \A k \in Range(swept) : ResidualSide(k)
  BY <1>1, PreconditionOnly, PreconditionSide
<1>3. ResidualSide(dot)
  BY BuffersAssumption, DotSide DEF Vectors
<1>4. Sequence(swept) /\ Sequence(last)
  BY <1>1, PreconditionSequence, TupleSequences
<1>5. Enqueue(work)
  BY DEF PCGQueuePrecondition
<1> HIDE DEF swept, dot
<1>6. Range(last) = {dot}
  BY OneName
<1> HIDE DEF last
<1>7. Sequence(swept \o last) /\ Range(swept \o last) \subseteq Range(swept) \cup {dot}
  BY <1>4, <1>6, Concatenation
<1>8. \A w \in Range(work) : w.stream = "B" /\ ResidualSide(w.kernel)
  BY <1>2, <1>3, <1>7, InOrderElements
<1> HIDE DEF work
<1>9. ASSUME NEW t \in pending'
      PROVE  /\ t.stream = "A" => SolutionSide(t.kernel)
             /\ t.stream = "B" => ResidualSide(t.kernel)
  BY <1>5, <1>8, EnqueuedElements DEF SidesInv, PCGQueuePrecondition
<1> QED
  BY <1>9 DEF SidesInv

LEMMA NextSides ==
  ASSUME StreamsInv, ~session.graph, SidesInv, [Next]_vars
  PROVE  SidesInv'
<1>1. CASE QueueUpdate
  BY <1>1, QueueUpdateSides
<1>2. CASE PCGQueuePrecondition
  BY <1>2, PCGQueuePreconditionSides
<1>3. CASE RunOne
  <2>1. pending' \subseteq pending /\ pc' = pc
    BY <1>3 DEF RunOne, RunKernel, hostVars
  <2> QED
    BY <2>1 DEF SidesInv
<1>4. CASE UNCHANGED vars
  BY <1>4 DEF vars, deviceVars, hostVars, SidesInv
<1>5. CASE BeginApply \/ (Solve /\ ~QueueUpdate /\ ~PCGQueuePrecondition)
  <2>1. pc' \notin {"norm", "next"}
    BY <1>5 DEF BeginApply, Solve, ReturnGuess, StartCG, StartPCG, StartPCGQueue, QueueProduct,
       QueueConverged, CGQueueNext, PCGQueueNext, QueueReturn, SubmitFirst, SubmitAgain,
       SubmitGraph, EvaluateConvergence, GraphReturn, Go
  <2> QED
    BY <2>1 DEF SidesInv
<1> QED
  BY <1>1, <1>2, <1>3, <1>4, <1>5 DEF Next, Terminated

LEMMA NextQueueInv == StreamsInv /\ QueueInv /\ [Next]_vars => QueueInv'
<1> SUFFICES ASSUME StreamsInv, QueueInv, [Next]_vars, ~session'.graph
             PROVE  StreamOrder' /\ SidesInv'
  BY DEF QueueInv
<1>1. session' = session
  BY DEF Next, Solve, BeginApply, ReturnGuess, StartCG, StartPCG, StartPCGQueue, QueueProduct,
     QueueUpdate, QueueConverged, CGQueueNext, PCGQueuePrecondition, PCGQueueNext, QueueReturn,
     SubmitFirst, SubmitAgain, SubmitGraph, EvaluateConvergence, GraphReturn, Go, RunOne,
     Terminated, vars, hostVars
<1>2. ~session.graph /\ StreamOrder /\ SidesInv
  BY <1>1 DEF QueueInv
<1> QED
  BY <1>2, NextOrder, NextSides

LEMMA InitQueueInv == Init => QueueInv
BY DEF Init, QueueInv, StreamOrder, Numbered, SidesInv

LEMMA SidesApart ==
  ASSUME NEW t, NEW u, SolutionSide(t.kernel), ResidualSide(u.kernel)
  PROVE  ~Conflict(t, u) /\ ~Conflict(u, t)
<1>1. {"dir", "alpha"} \cap Solutions = {}
  BY BuffersAssumption DEF Vectors
<1> QED
  BY <1>1 DEF SolutionSide, ResidualSide, Conflict, Reads, Writes

LEMMA QueueApart == StreamsInv /\ QueueInv => (~session.graph => NoConcurrentAccess)
<1> SUFFICES ASSUME StreamsInv, StreamOrder, SidesInv,
                    NEW t \in pending, NEW u \in pending, t # u, Ready(t), Ready(u)
             PROVE  ~Conflict(t, u)
  BY DEF QueueInv, NoConcurrentAccess, NoRace
<1>1. t.stream # u.stream
  BY OneReady
<1>2. pc \in {"norm", "next"} /\ {t.stream, u.stream} = {"A", "B"}
  BY <1>1 DEF StreamsInv, InFlightOn, Busy
<1>3. \/ SolutionSide(t.kernel) /\ ResidualSide(u.kernel)
      \/ SolutionSide(u.kernel) /\ ResidualSide(t.kernel)
  BY <1>2 DEF SidesInv
<1> QED
  BY <1>3, SidesApart

-----------------------------------------------------------------------------
(***************************************************************************)
(* The graph variants: two kernels of a graph that are not linked by a     *)
(* path do not touch the same memory.  These are the update of the         *)
(* solution and all that comes after the update of the residual, and the   *)
(* norm of the residual and the preconditioner, with what comes after the  *)
(* preconditioner unless both reductions share scratch space.              *)
(***************************************************************************)

SolutionUpdate(sol) == Axpby("alpha", "dir", sol)
ResidualUpdate == Axpby("alpha_neg", "mat_dir", "res")
Norm == Dot("A", "res_dot", "res", "res")
PreconditionedDot == Dot("A", "tmp", "res_p", "res")

LEMMA SolutionApart ==
  ASSUME NEW sol \in Solutions, NEW k, ResidualSide(k)
  PROVE  ~Collide(SolutionUpdate(sol), k)
<1>1. Range(<<"alpha", "dir", sol>>) = {"alpha", "dir", sol} /\ Range(<<sol>>) = {sol}
  BY OneName, ThreeNames
<1>2. {"alpha", "dir"} \cap Solutions = {}
  BY BuffersAssumption DEF Vectors
<1> QED
  BY <1>1, <1>2 DEF SolutionUpdate, Axpby, Kernel, ResidualSide, Collide

LEMMA GraphSides ==
  /\ ResidualSide(ResidualUpdate) /\ ResidualSide(Norm) /\ ResidualSide(PreconditionedDot)
  /\ ResidualSide(Dot("A", "tmp", "res", "res")) /\ ResidualSide(Beta)
<1>1. {"alpha_neg", "mat_dir", "res", "res_p", "dot_old", "tmp"} \cap Solutions = {}
  BY BuffersAssumption DEF Vectors
<1>2. ResidualSide(ResidualUpdate)
  <2>1. Range(<<"alpha_neg", "mat_dir", "res">>) \cap Solutions = {}
    BY <1>1, ThreeNames
  <2> QED
    BY <1>1, <2>1, OneResult DEF ResidualUpdate, Axpby
<1>3. ResidualSide(Norm) /\ ResidualSide(PreconditionedDot) /\ ResidualSide(Dot("A", "tmp", "res", "res"))
  BY <1>1, DotSide DEF Norm, PreconditionedDot, Vectors
<1>4. ResidualSide(Beta)
  <2>1. /\ Range(<<"dot_old", "tmp">>) = {"dot_old", "tmp"}
        /\ Range(<<"tmp", "dot_old">>) = {"dot_old", "tmp"}
    BY TwoNames
  <2> QED
    BY <1>1, <2>1 DEF Beta, Kernel, ResidualSide
<1> QED
  BY <1>2, <1>3, <1>4

LEMMA NormApart ==
  /\ \A k : PreconditionerOnly(k) => ~Collide(Norm, k)
  /\ ~session.gpu => \A k \in {PreconditionedDot, Beta, Axpby("tmp", "res_p", "dir")} : ~Collide(Norm, k)
<1>1. Norm = Kernel("dot", <<>>, <<"res", "res">>, <<"res_dot">>, Scratch("A"))
  BY DEF Norm, Dot
<1>2. Range(<<"res", "res">>) = {"res"} /\ Range(<<"res_dot">>) = {"res_dot"}
  BY OneName, TwoNames
<1>3. Scratch("A") \subseteq {"scratch of A"} /\ (~session.gpu => Scratch("A") = {})
  BY DEF Scratch, ScratchOf
<1>4. {"res", "res_dot", "scratch of A"} \cap Range(Inverses) = {}
  BY BuffersAssumption DEF Vectors, ScratchOf
<1>5. ASSUME NEW k, PreconditionerOnly(k)
      PROVE  ~Collide(Norm, k)
  BY <1>1, <1>2, <1>3, <1>4, <1>5 DEF Kernel, PreconditionerOnly, Collide
<1>6. ASSUME ~session.gpu
      PROVE  \A k \in {PreconditionedDot, Beta, Axpby("tmp", "res_p", "dir")} : ~Collide(Norm, k)
  <2>1. ~Collide(Norm, PreconditionedDot)
    <3>1. Range(<<"res_p", "res">>) = {"res_p", "res"} /\ Range(<<"tmp">>) = {"tmp"}
      BY OneName, TwoNames
    <3> QED
      BY <1>1, <1>2, <1>3, <1>6, <3>1 DEF PreconditionedDot, Dot, Kernel, Collide
  <2>2. ~Collide(Norm, Beta)
    <3>1. /\ Range(<<"dot_old", "tmp">>) = {"dot_old", "tmp"}
          /\ Range(<<"tmp", "dot_old">>) = {"dot_old", "tmp"}
      BY TwoNames
    <3> QED
      BY <1>1, <1>2, <1>3, <1>6, <3>1 DEF Beta, Kernel, Collide
  <2>3. ~Collide(Norm, Axpby("tmp", "res_p", "dir"))
    <3>1. Range(<<"tmp", "res_p", "dir">>) = {"tmp", "res_p", "dir"} /\ Range(<<"dir">>) = {"dir"}
      BY OneName, ThreeNames
    <3> QED
      BY <1>1, <1>2, <1>3, <1>6, <3>1 DEF Axpby, Kernel, Collide
  <2> QED
    BY <2>1, <2>2, <2>3
<1> QED
  BY <1>5, <1>6

-----------------------------------------------------------------------------

\* The nodes up to the two updates: all of them but the update of the solution are
\* before the update of the residual or are that update.
GraphBegun(work, before, sol) ==
  /\ LinkedBy(work, before) /\ Len(work) = 5
  /\ work[4].kernel = SolutionUpdate(sol)
  /\ {1, 2, 3, 5} \subseteq UpTo({5}, before)

LEMMA LinkedDomain ==
  ASSUME NEW work, NEW before, LinkedBy(work, before)
  PROVE  DOMAIN work = 1 .. Len(work) /\ Len(work) \in Nat
BY SequenceDomain DEF LinkedBy

LEMMA GraphUpdatesLinked ==
  ASSUME NEW sol \in Solutions
  PROVE  \E before : GraphBegun(GraphUpdates(sol), before, sol)
<1> DEFINE three == <<Spmv, Dot("A", "tmp", "dir", "mat_dir"),
                      Kernel("alpha", <<>>, <<"dot_old", "tmp">>, <<"alpha", "alpha_neg">>, {})>>
           one == <<SolutionUpdate(sol)>>
           last == <<ResidualUpdate>>
           alpha == Then(<<>>, "A", {}, three)
           solved == Then(alpha, "A", {3}, one)
           all == Then(solved, "A", {3}, last)
<1>1. /\ Sequence(three) /\ Len(three) = 3
      /\ Sequence(one) /\ Len(one) = 1 /\ one[1] = SolutionUpdate(sol) /\ Range(one) = {SolutionUpdate(sol)}
      /\ Sequence(last) /\ Len(last) = 1 /\ Range(last) = {ResidualUpdate}
  BY TupleSequences, OneName
<1>2. all = GraphUpdates(sol)
  BY DEF GraphUpdates, SolutionUpdate, ResidualUpdate
<1> HIDE DEF three, one, last, all
<1>3. PICK P1 : ChainLinkedTo(alpha, P1, <<>>, <<>>, {}, three)
  <2>1. LinkedBy(<<>>, <<>>) /\ {} \in SUBSET DOMAIN <<>> /\ DOMAIN <<>> = {}
    BY NothingLinked
  <2> HIDE DEF alpha
  <2> QED
    BY <1>1, <2>1, ThenLinked DEF alpha
<1> HIDE DEF alpha
<1>4. LinkedBy(alpha, P1) /\ Len(alpha) = 3 /\ {1, 2, 3} \subseteq UpTo({3}, P1)
  <2>1. LinkedBy(alpha, P1) /\ Len(alpha) = 0 + 3 /\ P1[0 + 3] = UpTo({}, <<>>) \cup (0 + 1) .. (0 + 3 - 1)
    BY <1>1, <1>3 DEF ChainLinkedTo
  <2> QED
    BY <2>1 DEF UpTo
<1>5. PICK P2 : ChainLinkedTo(solved, P2, alpha, P1, {3}, one)
  <2>1. {3} \in SUBSET DOMAIN alpha /\ DOMAIN alpha \subseteq UpTo({3}, P1)
    BY <1>4, LinkedDomain
  <2> QED
    BY <1>1, <1>4, <2>1, ThenLinked
<1> HIDE DEF solved
<1>6. /\ LinkedBy(solved, P2) /\ Len(solved) = 4 /\ solved[4].kernel = SolutionUpdate(sol)
      /\ {1, 2, 3} \subseteq UpTo({3}, P2)
  <2>1. LinkedBy(solved, P2) /\ Len(solved) = 3 + 1 /\ solved[3 + 1].kernel = one[1] /\ P2[3] = P1[3]
    BY <1>1, <1>4, <1>5 DEF ChainLinkedTo
  <2> QED
    BY <1>1, <1>4, <2>1 DEF UpTo
<1>7. \E P3 : ChainLinkedTo(all, P3, solved, P2, {3}, last)
  <2>1. {3} \in SUBSET DOMAIN solved
    BY <1>6, LinkedDomain
  <2>2. \A i \in DOMAIN solved \ UpTo({3}, P2) : i = 4
    BY <1>6, LinkedDomain
  <2>3. ~Collide(SolutionUpdate(sol), ResidualUpdate)
    BY SolutionApart, GraphSides
  <2> QED
    BY <1>1, <1>6, <2>1, <2>2, <2>3, ThenLinked DEF all
<1>8. PICK P3 : ChainLinkedTo(all, P3, solved, P2, {3}, last)
  BY <1>7
<1>9. /\ LinkedBy(all, P3) /\ Len(all) = 4 + 1 /\ all[4].kernel = solved[4].kernel
      /\ P3[4 + 1] = UpTo({3}, P2) \cup (4 + 1) .. (4 + 1 - 1)
  BY <1>1, <1>6, <1>8 DEF ChainLinkedTo
<1>10. {1, 2, 3, 5} \subseteq UpTo({5}, P3)
  BY <1>6, <1>9 DEF UpTo
<1>11. GraphBegun(all, P3, sol)
  BY <1>6, <1>9, <1>10 DEF GraphBegun
<1> QED
  BY <1>2, <1>11

LEMMA CGGraphLinked ==
  ASSUME NEW sol \in Solutions
  PROVE  Linked(CGGraphWork(sol))
<1> DEFINE begun == GraphUpdates(sol)
           two == <<Dot("A", "tmp", "res", "res"), Beta>>
           beta == Then(begun, "A", {5}, two)
           one == <<Axpby("tmp", "res", "dir")>>
           all == Then(beta, "A", {4, Len(beta)}, one)
<1>1. /\ Sequence(two) /\ Len(two) = 2 /\ Range(two) = {Dot("A", "tmp", "res", "res"), Beta}
      /\ Sequence(one)
  BY TupleSequences, TwoNames
<1>2. all = CGGraphWork(sol)
  BY DEF CGGraphWork
<1>3. PICK P : GraphBegun(begun, P, sol)
  BY GraphUpdatesLinked
<1> HIDE DEF begun, two, one, all
<1>4. PICK P1 : ChainLinkedTo(beta, P1, begun, P, {5}, two)
  <2>1. {5} \in SUBSET DOMAIN begun /\ \A i \in DOMAIN begun \ UpTo({5}, P) : i = 4
    BY <1>3, LinkedDomain DEF GraphBegun
  <2>2. \A k \in Range(two) : ~Collide(SolutionUpdate(sol), k)
    BY <1>1, SolutionApart, GraphSides
  <2> QED
    BY <1>1, <1>3, <2>1, <2>2, ThenLinked DEF GraphBegun
<1> HIDE DEF beta
<1>5. /\ LinkedBy(beta, P1) /\ Len(beta) = 5 + 2
      /\ P1[5 + 2] = UpTo({5}, P) \cup (5 + 1) .. (5 + 2 - 1)
  BY <1>1, <1>3, <1>4 DEF ChainLinkedTo, GraphBegun
<1>6. 1 .. 7 \subseteq UpTo({4, 7}, P1)
  BY <1>3, <1>5 DEF GraphBegun, UpTo
<1>7. \E after : ChainLinkedTo(all, after, beta, P1, {4, Len(beta)}, one)
  <2>1. {4, Len(beta)} \in SUBSET DOMAIN beta /\ DOMAIN beta \subseteq UpTo({4, Len(beta)}, P1)
    BY <1>5, <1>6, LinkedDomain
  <2> QED
    BY <1>1, <1>5, <2>1, ThenLinked DEF all
<1> QED
  BY <1>2, <1>7 DEF ChainLinkedTo, Linked

LEMMA PCGGraphLinked ==
  ASSUME session \in Sessions, HasPrec, NEW sol \in Solutions, NEW num_sweeps \in Nat,
         NEW inverse \in Range(Inverses)
  PROVE  Linked(PCGGraphWork(sol, num_sweeps, inverse))
<1> DEFINE begun == GraphUpdates(sol)
           first == <<Norm>>
           norm == Then(begun, "A", {5}, first)
           swept == Precondition(num_sweeps, inverse)
           s == Len(swept)
           prec == Then(norm, "A", {5}, swept)
           two == <<PreconditionedDot, Beta>>
           from == Serialized({Len(prec)}, Len(norm))
           beta == Then(prec, "A", from, two)
           direction == Axpby("tmp", "res_p", "dir")
           one == <<direction>>
           all == Then(beta, "A", {4, Len(beta)}, one)
<1>1. /\ Sequence(first) /\ Len(first) = 1 /\ first[1] = Norm /\ Range(first) = {Norm}
      /\ Sequence(two) /\ Len(two) = 2 /\ Range(two) = {PreconditionedDot, Beta}
      /\ Sequence(one) /\ Range(one) = {direction}
  BY TupleSequences, OneName, TwoNames
<1>2. all = PCGGraphWork(sol, num_sweeps, inverse)
  BY DEF PCGGraphWork, Norm, PreconditionedDot
<1>3. PICK P : GraphBegun(begun, P, sol)
  BY GraphUpdatesLinked
<1>4. Sequence(swept) /\ s \in Nat /\ \A k \in Range(swept) : PreconditionerOnly(k)
  BY PreconditionSequence, PreconditionOnly, SequenceDomain
<1>5. \A k : ResidualSide(k) => ~Collide(SolutionUpdate(sol), k)
  BY SolutionApart
<1> HIDE DEF begun, first, two, direction, one, swept, all
<1>6. PICK P1 : ChainLinkedTo(norm, P1, begun, P, {5}, first)
  <2>1. {5} \in SUBSET DOMAIN begun /\ \A i \in DOMAIN begun \ UpTo({5}, P) : i = 4
    BY <1>3, LinkedDomain DEF GraphBegun
  <2> QED
    BY <1>1, <1>3, <1>5, <2>1, GraphSides, ThenLinked DEF GraphBegun
<1> HIDE DEF norm
<1>7. /\ LinkedBy(norm, P1) /\ Len(norm) = 6
      /\ norm[4].kernel = SolutionUpdate(sol) /\ norm[6].kernel = Norm
      /\ {1, 2, 3, 5} \subseteq UpTo({5}, P1) /\ {1, 2, 3, 5} \subseteq P1[6]
  <2>1. /\ LinkedBy(norm, P1) /\ Len(norm) = 5 + 1
        /\ norm[4].kernel = begun[4].kernel /\ norm[5 + 1].kernel = first[1] /\ P1[5] = P[5]
        /\ P1[5 + 1] = UpTo({5}, P) \cup (5 + 1) .. (5 + 1 - 1)
    BY <1>1, <1>3, <1>6 DEF ChainLinkedTo, GraphBegun
  <2> QED
    BY <1>1, <1>3, <2>1 DEF GraphBegun, UpTo
<1>8. PICK P2 : ChainLinkedTo(prec, P2, norm, P1, {5}, swept)
  <2>1. {5} \in SUBSET DOMAIN norm /\ \A i \in DOMAIN norm \ UpTo({5}, P1) : i \in {4, 6}
    BY <1>7, LinkedDomain
  <2>2. \A k \in Range(swept) : ~Collide(SolutionUpdate(sol), k) /\ ~Collide(Norm, k)
    BY <1>4, <1>5, PreconditionSide, NormApart
  <2> QED
    BY <1>4, <1>7, <2>1, <2>2, ThenLinked
<1> HIDE DEF prec
<1>9. /\ LinkedBy(prec, P2) /\ Len(prec) = 6 + s
      /\ prec[4].kernel = SolutionUpdate(sol) /\ prec[6].kernel = Norm
  BY <1>7, <1>8 DEF ChainLinkedTo
<1>10. {1, 2, 3, 5} \cup 7 .. (6 + s) \subseteq UpTo({6 + s}, P2)
  <2>1. CASE s = 0
    <3>1. P2[6] = P1[6]
      BY <1>7, <1>8 DEF ChainLinkedTo
    <3> QED
      BY <1>7, <2>1, <3>1 DEF UpTo
  <2>2. CASE s # 0
    <3>1. s \in 1 .. s
      BY <1>4, <2>2
    <3>2. P2[6 + s] = UpTo({5}, P1) \cup (6 + 1) .. (6 + s - 1)
      BY <1>7, <1>8, <3>1 DEF ChainLinkedTo
    <3> HIDE DEF s
    <3> QED
      BY <1>4, <1>7, <3>2 DEF UpTo
  <2> QED
    BY <2>1, <2>2
<1> HIDE DEF s
<1>11. /\ from \in SUBSET DOMAIN prec
       /\ {1, 2, 3, 5} \cup 7 .. (6 + s) \subseteq UpTo(from, P2)
       /\ session.gpu => 6 \in UpTo(from, P2)
  <2>1. from = IF session.gpu THEN {6 + s, 6} ELSE {6 + s}
    BY <1>7, <1>9 DEF Serialized
  <2> HIDE DEF from
  <2>2. from \in SUBSET DOMAIN prec
    BY <1>4, <1>9, <2>1, LinkedDomain
  <2> QED
    BY <1>10, <2>1, <2>2 DEF UpTo
<1> HIDE DEF from
<1>12. \A i \in DOMAIN prec \ UpTo(from, P2) : i = 4 \/ (i = 6 /\ ~session.gpu)
  BY <1>4, <1>9, <1>11, LinkedDomain
<1>13. PICK P3 : ChainLinkedTo(beta, P3, prec, P2, from, two)
  <2>1. \A k \in Range(two) : /\ ~Collide(SolutionUpdate(sol), k)
                              /\ ~session.gpu => ~Collide(Norm, k)
    BY <1>1, <1>5, GraphSides, NormApart
  <2>2. \A i \in DOMAIN prec \ UpTo(from, P2) : \A k \in Range(two) : ~Collide(prec[i].kernel, k)
    BY <1>9, <1>12, <2>1
  <2> QED
    BY <1>1, <1>9, <1>11, <2>2, ThenLinked
<1> HIDE DEF beta
<1>14. /\ LinkedBy(beta, P3) /\ Len(beta) = 8 + s /\ beta[6].kernel = Norm
       /\ P3[8 + s] = UpTo(from, P2) \cup {7 + s}
  <2>1. Len(prec) + Len(two) = 8 + s /\ Len(prec) + 2 = 8 + s /\ 6 \in 1 .. Len(prec)
        /\ (Len(prec) + 1) .. (Len(prec) + 2 - 1) = {7 + s}
    BY <1>1, <1>4, <1>9
  <2>2. /\ LinkedBy(beta, P3) /\ Len(beta) = Len(prec) + Len(two) /\ beta[6].kernel = prec[6].kernel
        /\ P3[Len(prec) + 2] = UpTo(from, P2) \cup (Len(prec) + 1) .. (Len(prec) + 2 - 1)
    BY <1>1, <1>13, <2>1 DEF ChainLinkedTo
  <2> QED
    BY <1>9, <2>1, <2>2
<1>15. \A i \in 1 .. (8 + s) : i \in UpTo({4, 8 + s}, P3) \/ (i = 6 /\ ~session.gpu)
  BY <1>4, <1>11, <1>14 DEF UpTo
<1>16. \E after : ChainLinkedTo(all, after, beta, P3, {4, Len(beta)}, one)
  <2>1. {4, Len(beta)} \in SUBSET DOMAIN beta
    BY <1>4, <1>14, LinkedDomain
  <2>2. \A i \in DOMAIN beta \ UpTo({4, Len(beta)}, P3) : i = 6 /\ ~session.gpu
    BY <1>14, <1>15, LinkedDomain
  <2>3. ~session.gpu => ~Collide(Norm, direction)
    BY NormApart DEF direction
  <2>4. \A i \in DOMAIN beta \ UpTo({4, Len(beta)}, P3) : \A k \in Range(one) : ~Collide(beta[i].kernel, k)
    BY <1>1, <1>14, <2>2, <2>3
  <2> QED
    BY <1>1, <1>14, <2>1, <2>4, ThenLinked DEF all
<1> QED
  BY <1>2, <1>16 DEF ChainLinkedTo, Linked

-----------------------------------------------------------------------------

\* Every graph was made for a call of the session.
GraphMade == graph.sol \in Solutions /\ graph.inverse \in Range(Inverses)

\* In the graph variants, kernels that touch the same memory are linked.
GraphInv ==
  session.graph =>
    /\ PathOrder
    /\ graph = NoGraph \/ GraphMade
    /\ pc \in {"evaluate", "loop"} => GraphMade

LEMMA InitGraphInv == Init => GraphInv
<1> SUFFICES ASSUME Init PROVE PathOrder /\ graph = NoGraph /\ pc = "idle"
  BY DEF GraphInv
<1>1. pending = {}
  BY DEF Init
<1>2. <<>> \in [{} -> SUBSET {}] /\ WaitingIn({}, <<>>) /\ ApartIn({}, <<>>)
  BY DEF WaitingIn, ApartIn
<1> QED
  BY <1>1, <1>2 DEF Init, PathOrder, Numbered

\* A graph variant only uses the first stream.
LEMMA GraphStream ==
  ASSUME StreamsInv, session.graph
  PROVE  InFlightOn({"A"})
BY DEF StreamsInv, PlacesInv, Busy, InFlightOn

LEMMA ChainPaths ==
  ASSUME StreamsInv, session.graph, PathOrder, NEW kernels, Sequence(kernels),
         Enqueue(InOrder("A", kernels))
  PROVE  PathOrder'
<1>1. Linked(InOrder("A", kernels)) /\ WorkOn(InOrder("A", kernels), {"A"})
  BY ChainLinked, InOrderOn
<1> HIDE DEF InOrder
<1> QED
  BY <1>1, GraphStream, EnqueuePaths

LEMMA BeginApplyPaths ==
  ASSUME StreamsInv, session.graph, PathOrder, BeginApply
  PROVE  PathOrder'
<1> DEFINE sol == session.calls[call + 1].sol
           ahead == IF session.calls[call + 1].invert THEN <<Invert>> ELSE <<>>
           kernels == ahead \o PrecomputeResidual(sol)
<1>1. Sequence(ahead) /\ Sequence(PrecomputeResidual(sol))
  BY TupleSequences DEF PrecomputeResidual
<1>2. Sequence(kernels)
  <2> HIDE DEF ahead
  <2> QED
    BY <1>1, Concatenation
<1>3. Enqueue(InOrder("A", kernels))
  BY DEF BeginApply
<1> HIDE DEF kernels
<1> QED
  BY <1>2, <1>3, ChainPaths

LEMMA StartPCGPaths ==
  ASSUME StreamsInv, session.graph, PathOrder, StartPCG
  PROVE  PathOrder'
<1> DEFINE swept == Precondition(Request.num_sweeps, InverseOf(call))
           dots == <<Dot("A", "dot_old", "res_p", "res"), Direction("res_p")>>
<1>1. Sequence(swept)
  BY RequestType, PreconditionSequence DEF StartPCG, StreamsInv, SessionInv, Request
<1>2. Sequence(dots)
  BY TupleSequences
<1>3. Enqueue(InOrder("A", swept \o dots))
  BY DEF StartPCG
<1> HIDE DEF swept, dots
<1> QED
  BY <1>1, <1>2, <1>3, Concatenation, ChainPaths

LEMMA SubmitMade ==
  ASSUME StreamsInv, GraphInv, session.graph, SubmitFirst \/ SubmitAgain
  PROVE  GraphMade' /\ graph'.num_sweeps \in Nat
<1>1. SessionInv /\ call \in DOMAIN session.calls
  BY DEF StreamsInv, SessionInv, SubmitFirst, SubmitAgain
<1>2. CASE SubmitFirst
  <2>1. Request.sol \in Solutions /\ Request.num_sweeps \in Nat /\ InverseOf(call) \in Range(Inverses)
    BY <1>1, RequestType, InverseType DEF Request
  <2>2. \/ graph' = graph /\ graph # NoGraph
        \/ graph' = [sol |-> Request.sol, num_sweeps |-> Request.num_sweeps, inverse |-> InverseOf(call)]
    BY <1>2 DEF SubmitFirst
  <2> QED
    BY <1>1, <2>1, <2>2 DEF GraphInv, GraphMade, SessionInv
<1>3. CASE SubmitAgain
  BY <1>1, <1>3 DEF SubmitAgain, GraphInv, GraphMade, SessionInv
<1> QED
  BY <1>2, <1>3

LEMMA SubmitPaths ==
  ASSUME StreamsInv, GraphInv, session.graph, SubmitFirst \/ SubmitAgain
  PROVE  PathOrder'
<1> DEFINE work == IF HasPrec
                     THEN PCGGraphWork(graph'.sol, graph'.num_sweeps, graph'.inverse)
                     ELSE CGGraphWork(graph'.sol)
<1>1. graph'.sol \in Solutions /\ graph'.inverse \in Range(Inverses) /\ graph'.num_sweeps \in Nat
  BY SubmitMade DEF GraphMade
<1>2. session \in Sessions
  BY DEF StreamsInv, SessionInv
<1>3. Linked(work) /\ WorkOn(work, {"A"})
  BY <1>1, <1>2, CGGraphLinked, PCGGraphLinked, CGGraphWorkOn, PCGGraphWorkOn
<1>4. Enqueue(work)
  BY DEF SubmitFirst, SubmitAgain, SubmitGraph
<1> HIDE DEF work
<1> QED
  BY <1>3, <1>4, GraphStream, EnqueuePaths DEF GraphInv

LEMMA NextGraphInv == StreamsInv /\ GraphInv /\ [Next]_vars => GraphInv'
<1> SUFFICES ASSUME StreamsInv, GraphInv, [Next]_vars, session'.graph
             PROVE  /\ PathOrder'
                    /\ graph' = NoGraph \/ GraphMade'
                    /\ pc' \in {"evaluate", "loop"} => GraphMade'
  BY DEF GraphInv, NoGraph
<1>1. session' = session
  BY DEF Next, Solve, BeginApply, ReturnGuess, StartCG, StartPCG, StartPCGQueue, QueueProduct,
     QueueUpdate, QueueConverged, CGQueueNext, PCGQueuePrecondition, PCGQueueNext, QueueReturn,
     SubmitFirst, SubmitAgain, SubmitGraph, EvaluateConvergence, GraphReturn, Go, RunOne,
     Terminated, vars, hostVars
<1>2. session.graph /\ PathOrder
  BY <1>1 DEF GraphInv
<1>3. CASE SubmitFirst \/ SubmitAgain
  BY <1>2, <1>3, SubmitMade, SubmitPaths
<1>4. CASE RunOne
  <2>1. PICK t \in pending : RunKernel(t, Results(t.kernel.op, Operands(t)))
    BY <1>4 DEF RunOne
  <2>2. PathOrder'
    BY <1>2, <2>1, RunPaths
  <2> QED
    BY <1>2, <1>4, <2>2 DEF GraphInv, GraphMade, RunOne, hostVars
<1>5. CASE BeginApply
  BY <1>2, <1>5, BeginApplyPaths DEF BeginApply, GraphInv, GraphMade
<1>6. CASE StartCG
  <2>1. PathOrder'
    BY <1>2, <1>6, TupleSequences, ChainPaths DEF StartCG
  <2> QED
    BY <1>2, <1>6, <2>1 DEF StartCG, Go, GraphInv, GraphMade
<1>7. CASE StartPCG
  <2>1. PathOrder'
    BY <1>2, <1>7, StartPCGPaths
  <2> QED
    BY <1>2, <1>7, <2>1 DEF StartPCG, Go, GraphInv, GraphMade
<1>8. CASE ReturnGuess \/ EvaluateConvergence \/ GraphReturn \/ UNCHANGED vars
  BY <1>2, <1>8 DEF ReturnGuess, EvaluateConvergence, GraphReturn, Go, vars, deviceVars, hostVars,
     PathOrder, Numbered, GraphInv, GraphMade
<1>9. ASSUME StartPCGQueue \/ QueueProduct \/ QueueUpdate \/ QueueConverged \/ CGQueueNext
               \/ PCGQueuePrecondition \/ PCGQueueNext \/ QueueReturn
      PROVE  FALSE
  BY <1>2, <1>9 DEF StreamsInv, PlacesInv, StartPCGQueue, QueueProduct, QueueUpdate, QueueConverged,
     CGQueueNext, PCGQueuePrecondition, PCGQueueNext, QueueReturn
<1> QED
  BY <1>3, <1>4, <1>5, <1>6, <1>7, <1>8, <1>9 DEF Next, Solve, Terminated

\* In any session of any of the four solvers, kernels that may run at the same time do
\* not touch the same memory unless all of them only read it: those of the two streams
\* (cg/Queue.hpp:98-107, pcg/Queue.hpp:126-151), and the nodes of a graph, whichever
\* preconditioner it holds and however many sweeps it makes (cg/Graph.hpp:118-168,
\* pcg/Graph.hpp:103-170).
THEOREM RaceFree == Spec => []NoConcurrentAccess
<1>1. StreamsInv /\ QueueInv /\ GraphInv => NoConcurrentAccess
  BY QueueApart, PathsApart DEF GraphInv, NoConcurrentAccess
<1> QED
  BY <1>1, InitStreamsInv, InitQueueInv, InitGraphInv, NextStreamsInv, NextQueueInv, NextGraphInv,
     PTL DEF Spec

-----------------------------------------------------------------------------
(***************************************************************************)
(* What kernels in flight leave.  A kernel that may run does not touch     *)
(* what an earlier one is still to write, so memory ends up as if they had *)
(* run in the order in which they were enqueued.                           *)
(***************************************************************************)

\* The contents of the buffers.
Memory(m) == m = [b \in Buffer |-> m[b]]

\* Operands of kernel k in memory m, and the memory that it leaves.
Inputs(k, m) == k.args \o [i \in DOMAIN k.in |-> m[k.in[i]]]

Effect(k, m) ==
  [b \in Buffer |->
     IF b \in Range(k.out)
       THEN Results(k.op, Inputs(k, m))[CHOOSE i \in DOMAIN k.out : k.out[i] = b]
       ELSE m[b]]

\* M[i] is what is in memory after the kernels up to number i, had they run in order.
Serially(M, start, flight, last) ==
  /\ M[0] = start
  /\ \A i \in 0 .. last : Memory(M[i])
  /\ \A t \in flight : Range(t.kernel.in) \subseteq Buffer /\ M[t.id] = Effect(t.kernel, M[t.id - 1])
  /\ \A i \in 1 .. last : (\A t \in flight : t.id # i) => M[i] = M[i - 1]

\* The memory that kernels in flight will leave is `final`.
Leaves(final) == \E M : Serially(M, mem, pending, issued) /\ M[issued] = final

\* A kernel that is ready does not collide with an earlier one.
Ordered ==
  \A t, u \in pending : u.id < t.id /\ Ready(t) => ~Collide(u.kernel, t.kernel)

\* What holds of 0, and of every number up to n if of the one before, holds of n.
LEMMA UpToNumber ==
  ASSUME NEW n \in Nat, NEW S, 0 \in S, \A i \in 1 .. n : i - 1 \in S => i \in S
  PROVE  n \in S
<1> DEFINE Less == {ss \in Nat \X Nat : ss[1] < ss[2]}
           T == {i \in 0 .. n : i \notin S}
<1>1. IsWellFoundedOn(Less, Nat)
  BY NatLessThanWellFounded DEF OpToRel
<1> SUFFICES ASSUME n \notin S PROVE FALSE
  OBVIOUS
<1>2. T \subseteq Nat /\ n \in T
  OBVIOUS
<1>3. PICK x \in T : \A y \in T : <<y, x>> \notin Less
  <2> HIDE DEF Less, T
  <2> QED
    BY <1>1, <1>2, WFMin
<1>4. x \in 1 .. n /\ x - 1 \in 0 .. n
  BY <1>2
<1>5. x - 1 \in T
  BY <1>4
<1>6. <<x - 1, x>> \in Less
  BY <1>4
<1> QED
  BY <1>3, <1>5, <1>6

\* A kernel leaves a memory.
LEMMA EffectMemory ==
  ASSUME NEW k, NEW m
  PROVE  Memory(Effect(k, m))
BY DEF Effect, Memory

\* A buffer that no kernel up to number n writes.
LEMMA Unwritten ==
  ASSUME Numbered, NEW M, Serially(M, mem, pending, issued), NEW n \in 0 .. issued, NEW b \in Buffer,
         \A t \in pending : t.id <= n => b \notin Range(t.kernel.out)
  PROVE  M[n][b] = mem[b]
<1> DEFINE S == {i \in 0 .. n : M[i][b] = mem[b]}
<1>1. issued \in Nat /\ n \in Nat
  BY DEF Numbered
<1>2. 0 \in S
  BY <1>1 DEF Serially
<1>3. ASSUME NEW i \in 1 .. n, i - 1 \in S
      PROVE  i \in S
  <2>1. CASE \A t \in pending : t.id # i
    BY <1>1, <1>3, <2>1 DEF Serially
  <2>2. ASSUME NEW t \in pending, t.id = i
        PROVE  i \in S
    <3>1. M[i] = Effect(t.kernel, M[i - 1])
      BY <2>2 DEF Serially
    <3>2. b \notin Range(t.kernel.out)
      BY <1>1, <2>2
    <3> QED
      BY <1>1, <1>3, <3>1, <3>2 DEF Effect
  <2> QED
    BY <2>1, <2>2
<1> HIDE DEF S
<1>4. n \in S
  BY <1>1, <1>2, <1>3, UpToNumber
<1> QED
  BY <1>4 DEF S

\* Nothing in flight writes buffer b.
LEMMA LeftAlone ==
  ASSUME Numbered, NEW final, Leaves(final), NEW b \in Buffer,
         \A t \in pending : b \notin Range(t.kernel.out)
  PROVE  final[b] = mem[b]
<1>1. PICK M : Serially(M, mem, pending, issued) /\ M[issued] = final
  BY DEF Leaves
<1>2. issued \in 0 .. issued
  BY DEF Numbered
<1> QED
  BY <1>1, <1>2, Unwritten

\* With nothing in flight, memory is what was to be left.
LEMMA NothingLeft ==
  ASSUME Numbered, NEW final, Leaves(final), pending = {}
  PROVE  final = mem
<1>1. Memory(final) /\ Memory(mem)
  BY DEF Leaves, Serially, Numbered
<1>2. \A b \in Buffer : final[b] = mem[b]
  BY LeftAlone
<1> QED
  BY <1>1, <1>2 DEF Memory

\* A kernel that runs before earlier ones makes what it would have made after them.
LEMMA RunLeaves ==
  ASSUME Numbered, Ordered, NEW final, Leaves(final), session' = session,
         NEW r \in pending, RunKernel(r, Results(r.kernel.op, Operands(r)))
  PROVE  \E N : Serially(N, mem', pending', issued') /\ N[issued'] = final
<1>1. PICK M : Serially(M, mem, pending, issued) /\ M[issued] = final
  BY DEF Leaves
<1> DEFINE Made == Results(r.kernel.op, Operands(r))
           Put(m) == [b \in Buffer |-> IF b \in Range(r.kernel.out)
                        THEN Made[CHOOSE i \in DOMAIN r.kernel.out : r.kernel.out[i] = b]
                        ELSE m[b]]
           N == [i \in 0 .. issued |-> IF i < r.id THEN Put(M[i]) ELSE M[i]]
<1>2. /\ issued \in Nat /\ r.id \in 1 .. issued /\ r.id - 1 \in 0 .. issued
      /\ \A t \in pending : t.id \in 1 .. issued
  BY DEF Numbered
<1>3. \A t \in pending : t.id < r.id => ~Collide(t.kernel, r.kernel)
  BY DEF Ordered, RunKernel
<1>4. mem' = Put(mem)
  <2>1. DOMAIN mem = Buffer
    <3>1. Memory(mem)
      BY <1>1, <1>2 DEF Serially
    <3> QED
      BY <3>1 DEF Memory
  <2> QED
    BY <2>1 DEF RunKernel
<1>5. pending' = pending \ {r} /\ issued' = issued
  BY DEF RunKernel
<1>6. M[r.id] = Put(M[r.id - 1])
  <2>1. \A b \in Range(r.kernel.in) : M[r.id - 1][b] = mem[b]
    <3> TAKE b \in Range(r.kernel.in)
    <3>1. b \in Buffer
      BY <1>1 DEF Serially
    <3>2. \A t \in pending : t.id <= r.id - 1 => b \notin Range(t.kernel.out)
      BY <1>2, <1>3 DEF Collide
    <3> QED
      BY <1>1, <1>2, <3>1, <3>2, Unwritten
  <2>2. Inputs(r.kernel, M[r.id - 1]) = Operands(r)
    <3>1. [i \in DOMAIN r.kernel.in |-> M[r.id - 1][r.kernel.in[i]]]
            = [i \in DOMAIN r.kernel.in |-> mem[r.kernel.in[i]]]
      BY <2>1 DEF Range
    <3> QED
      BY <3>1 DEF Inputs, Operands
  <2>3. M[r.id] = Effect(r.kernel, M[r.id - 1])
    BY <1>1 DEF Serially
  <2> QED
    BY <2>2, <2>3 DEF Effect
<1> HIDE DEF Made
<1>7. /\ DOMAIN N = 0 .. issued
      /\ \A i \in 0 .. issued : N[i] = IF i < r.id THEN Put(M[i]) ELSE M[i]
  OBVIOUS
<1> HIDE DEF N
<1>8. N[0] = mem' /\ N[issued] = final
  <2>1. N[0] = Put(M[0])
    <3> HIDE DEF Put
    <3> QED
      BY <1>2, <1>7
  <2>2. N[issued] = M[issued]
    BY <1>2, <1>7
  <2> QED
    BY <1>1, <1>4, <2>1, <2>2 DEF Serially
<1>9. \A i \in 0 .. issued : Memory(N[i])
  <2> TAKE i \in 0 .. issued
  <2>1. Memory(Put(M[i])) /\ Memory(M[i])
    BY <1>1 DEF Memory, Serially
  <2> HIDE DEF Put
  <2> QED
    BY <1>7, <2>1
<1>10. ASSUME NEW t \in pending, t # r
       PROVE  N[t.id] = Effect(t.kernel, N[t.id - 1])
  <2>1. /\ t.id \in 1 .. issued /\ t.id - 1 \in 0 .. issued /\ t.id # r.id
        /\ M[t.id] = Effect(t.kernel, M[t.id - 1]) /\ Range(t.kernel.in) \subseteq Buffer
    BY <1>1, <1>10 DEF Numbered, Serially
  <2>2. CASE t.id < r.id
    <3>1. N[t.id] = Put(M[t.id]) /\ N[t.id - 1] = Put(M[t.id - 1])
      <4> HIDE DEF Put
      <4> QED
        BY <1>2, <1>7, <2>1, <2>2
    <3>2. /\ Range(r.kernel.out) \cap Range(t.kernel.in) = {}
          /\ Range(r.kernel.out) \cap Range(t.kernel.out) = {}
      BY <1>3, <2>2 DEF Collide
    <3>3. \A b \in Range(t.kernel.in) : Put(M[t.id - 1])[b] = M[t.id - 1][b]
      BY <2>1, <3>2
    <3>4. Inputs(t.kernel, Put(M[t.id - 1])) = Inputs(t.kernel, M[t.id - 1])
      <4>1. [i \in DOMAIN t.kernel.in |-> Put(M[t.id - 1])[t.kernel.in[i]]]
              = [i \in DOMAIN t.kernel.in |-> M[t.id - 1][t.kernel.in[i]]]
        BY <3>3 DEF Range
      <4> HIDE DEF Put
      <4> QED
        BY <4>1 DEF Inputs
    <3>5. Put(Effect(t.kernel, M[t.id - 1])) = Effect(t.kernel, Put(M[t.id - 1]))
      <4> SUFFICES ASSUME NEW b \in Buffer
                   PROVE  Put(Effect(t.kernel, M[t.id - 1]))[b] = Effect(t.kernel, Put(M[t.id - 1]))[b]
        BY DEF Effect
      <4>1. CASE b \in Range(t.kernel.out)
        BY <3>2, <3>4, <4>1 DEF Effect
      <4>2. CASE b \notin Range(t.kernel.out)
        BY <4>2 DEF Effect
      <4> QED
        BY <4>1, <4>2
    <3> HIDE DEF Put
    <3> QED
      BY <2>1, <3>1, <3>5
  <2>3. CASE t.id > r.id
    <3>1. N[t.id] = M[t.id] /\ N[t.id - 1] = M[t.id - 1]
      BY <1>2, <1>7, <2>1, <2>3
    <3> QED
      BY <2>1, <3>1
  <2> QED
    BY <1>2, <2>1, <2>2, <2>3
<1>11. ASSUME NEW i \in 1 .. issued, \A t \in pending \ {r} : t.id # i
       PROVE  N[i] = N[i - 1]
  <2>1. i \in 0 .. issued /\ i - 1 \in 0 .. issued
    BY <1>2
  <2>2. CASE i < r.id
    <3>1. M[i] = M[i - 1]
      BY <1>1, <1>2, <1>11, <2>2 DEF Serially
    <3>2. N[i] = Put(M[i]) /\ N[i - 1] = Put(M[i - 1])
      <4> HIDE DEF Put
      <4> QED
        BY <1>2, <1>7, <2>1, <2>2
    <3> HIDE DEF Put
    <3> QED
      BY <3>1, <3>2
  <2>3. CASE i = r.id
    <3>1. N[i] = M[i] /\ N[i - 1] = Put(M[i - 1])
      <4> HIDE DEF Put
      <4> QED
        BY <1>2, <1>7, <2>1, <2>3
    <3> HIDE DEF Put
    <3> QED
      BY <1>6, <2>3, <3>1
  <2>4. CASE i > r.id
    <3>1. M[i] = M[i - 1]
      BY <1>1, <1>2, <1>11, <2>4 DEF Serially
    <3>2. N[i] = M[i] /\ N[i - 1] = M[i - 1]
      BY <1>2, <1>7, <2>1, <2>4
    <3> QED
      BY <3>1, <3>2
  <2> QED
    BY <1>2, <2>1, <2>2, <2>3, <2>4
<1>12. Serially(N, mem', pending \ {r}, issued)
  BY <1>1, <1>8, <1>9, <1>10, <1>11 DEF Serially
<1> QED
  BY <1>5, <1>8, <1>12

\* The algorithm is that of the session.
LEMMA ValueKept ==
  ASSUME session' = session, NEW what, NEW c, NEW k
  PROVE  Value(what, c, k)' = Value(what, c, k)
<1>1. MatrixOf(c)' = MatrixOf(c) /\ Swept(c)' = Swept(c)
  BY DEF MatrixOf, Swept
<1> QED
  BY <1>1 DEF Value

\* So operations make what they made.
LEMMA ResultsKept ==
  ASSUME session' = session, NEW op, NEW v
  PROVE  Results(op, v)' = Results(op, v)
<1>1. \A what, c, k : Value(what, c, k)' = Value(what, c, k)
  BY ValueKept
<1>2. Rules(op)' = Rules(op)
  <2>1. DirRes' = DirRes /\ DirDot' = DirDot
    BY DEF DirRes, DirDot, HasPrec
  <2> QED
    BY <2>1 DEF Rules
<1>3. \A in, last : Wanted(in, last)' = Wanted(in, last)
  BY <1>1 DEF Wanted
<1>4. Sweep(v)' = Sweep(v)
  BY <1>1 DEF Sweep
<1> DEFINE F == {r \in Rules(op) : v = Wanted(r.in, Last(v))}
           G == {r \in Rules(op)' : v = Wanted(r.in, Last(v))'}
<1>5. F = G
  BY <1>2, <1>3
<1> HIDE DEF F, G
<1>6. (CHOOSE r \in F : TRUE) = (CHOOSE r \in G : TRUE)
  BY <1>5
<1>7. Results(op, v) =
       IF Garbage \in Range(v) THEN <<Garbage, Garbage>>
       ELSE CASE op = "copy" -> v
              [] op = "sweep" -> <<Sweep(v)>>
              [] op = "invert" -> <<[v[1] EXCEPT !.what = "inverse"]>>
              [] OTHER -> IF F = {} THEN <<Garbage, Garbage>>
                          ELSE Wanted((CHOOSE r \in F : TRUE).out, Last(v))
  BY DEF Results, F
<1>8. Results(op, v)' =
       IF Garbage \in Range(v) THEN <<Garbage, Garbage>>
       ELSE CASE op = "copy" -> v
              [] op = "sweep" -> <<Sweep(v)>>
              [] op = "invert" -> <<[v[1] EXCEPT !.what = "inverse"]>>
              [] OTHER -> IF G = {} THEN <<Garbage, Garbage>>
                          ELSE Wanted((CHOOSE r \in G : TRUE).out, Last(v))
  BY <1>3, <1>4 DEF Results, G
<1> QED
  BY <1>5, <1>6, <1>7, <1>8

\* And kernels leave what they left.
LEMMA EffectKept ==
  ASSUME session' = session, NEW k, NEW m
  PROVE  Effect(k, m)' = Effect(k, m)
<1>1. Results(k.op, Inputs(k, m))' = Results(k.op, Inputs(k, m))
  BY ResultsKept DEF Inputs
<1> QED
  BY <1>1 DEF Effect, Inputs

\* What kernels leave after a step, by the variables after it.
LEMMA LeavesNext ==
  ASSUME session' = session, NEW final,
         \E N : Serially(N, mem', pending', issued') /\ N[issued'] = final
  PROVE  Leaves(final)'
<1>1. \A k, m : Effect(k, m)' = Effect(k, m)
  BY EffectKept
<1>2. PICK N : Serially(N, mem', pending', issued') /\ N[issued'] = final
  OBVIOUS
<1>3. Serially(N, mem, pending, issued)'
  <2>1. N[0] = mem' /\ \A i \in 0 .. issued' : Memory(N[i])
    BY <1>2 DEF Serially
  <2>2. \A t \in pending' : Range(t.kernel.in) \subseteq Buffer /\ N[t.id] = Effect(t.kernel, N[t.id - 1])
    BY <1>2 DEF Serially
  <2>3. \A i \in 1 .. issued' : (\A t \in pending' : t.id # i) => N[i] = N[i - 1]
    BY <1>2 DEF Serially
  <2>4. \A t \in pending' : Effect(t.kernel, N[t.id - 1])' = Effect(t.kernel, N[t.id - 1])
    BY <1>1
  <2> QED
    BY <2>1, <2>2, <2>3, <1>1 DEF Serially
<1> QED
  BY <1>2, <1>3 DEF Leaves

-----------------------------------------------------------------------------
(***************************************************************************)
(* Kernels that run one after the other, and pieces of work.               *)
(***************************************************************************)

\* m[i] is what is in memory after the first i kernels.
Steps(kernels, m) ==
  /\ \A i \in 0 .. Len(kernels) : Memory(m[i])
  /\ \A i \in 1 .. Len(kernels) :
       Range(kernels[i].in) \subseteq Buffer /\ m[i] = Effect(kernels[i], m[i - 1])

\* Kernels, one after the other, make memory g of memory f.
Makes(kernels, f, g) == \E m : Steps(kernels, m) /\ m[0] = f /\ m[Len(kernels)] = g

KernelsOf(work) == [i \in DOMAIN work |-> work[i].kernel]

\* A single kernel.
LEMMA MakesOne ==
  ASSUME NEW k, Range(k.in) \subseteq Buffer, NEW f, Memory(f)
  PROVE  Makes(<<k>>, f, Effect(k, f))
<1> DEFINE m == [i \in 0 .. 1 |-> IF i = 0 THEN f ELSE Effect(k, f)]
<1>1. Len(<<k>>) = 1 /\ <<k>>[1] = k
  OBVIOUS
<1>2. m[0] = f /\ m[1] = Effect(k, f)
  OBVIOUS
<1>3. Memory(Effect(k, f))
  BY EffectMemory
<1> HIDE DEF m
<1>4. \A i \in 0 .. 1 : Memory(m[i])
  BY <1>2, <1>3
<1>5. \A i \in 1 .. 1 : i = 1 /\ i - 1 = 0
  OBVIOUS
<1>6. Steps(<<k>>, m)
  BY <1>1, <1>2, <1>4, <1>5 DEF Steps
<1> QED
  BY <1>1, <1>2, <1>6 DEF Makes

\* What kernels make is a memory.
LEMMA MakesMemory ==
  ASSUME NEW kernels, Sequence(kernels), NEW f, NEW g, Makes(kernels, f, g)
  PROVE  Memory(f) /\ Memory(g)
<1>1. Len(kernels) \in Nat
  BY SequenceDomain
<1> QED
  BY <1>1 DEF Makes, Steps

\* Two sequences, by position.
LEMMA Joined ==
  ASSUME NEW s, NEW t, Sequence(s), Sequence(t)
  PROVE  /\ Len(s \o t) = Len(s) + Len(t)
         /\ \A i \in 1 .. Len(s) : (s \o t)[i] = s[i]
         /\ \A i \in 1 .. Len(t) : (s \o t)[Len(s) + i] = t[i]
<1> DEFINE S == Range(s) \cup Range(t)
<1>1. s \in Seq(S) /\ t \in Seq(S)
  BY DEF Sequence, Range
<1>2. Len(s) \in Nat /\ Len(t) \in Nat
  BY SequenceDomain
<1>3. /\ Len(s \o t) = Len(s) + Len(t)
      /\ \A i \in 1 .. Len(s) + Len(t) : (s \o t)[i] = IF i <= Len(s) THEN s[i] ELSE t[i - Len(s)]
  BY <1>1, ConcatProperties
<1> QED
  BY <1>2, <1>3

\* What two sequences of kernels make, the second one after the first one.
LEMMA MakesJoin ==
  ASSUME NEW s, NEW t, Sequence(s), Sequence(t), NEW f, NEW g, NEW h, Makes(s, f, g), Makes(t, g, h)
  PROVE  Makes(s \o t, f, h)
<1>1. PICK p : Steps(s, p) /\ p[0] = f /\ p[Len(s)] = g
  BY DEF Makes
<1>2. PICK q : Steps(t, q) /\ q[0] = g /\ q[Len(t)] = h
  BY DEF Makes
<1> DEFINE a == Len(s)
           b == Len(t)
           all == s \o t
           m == [i \in 0 .. a + b |-> IF i <= a THEN p[i] ELSE q[i - a]]
<1>3. a \in Nat /\ b \in Nat
  BY SequenceDomain
<1>4. /\ Len(all) = a + b
      /\ \A i \in 1 .. a : all[i] = s[i]
      /\ \A i \in 1 .. b : all[a + i] = t[i]
  BY Joined
<1>5. /\ p[0] = f /\ p[a] = g /\ q[0] = g /\ q[b] = h
      /\ \A i \in 0 .. a : Memory(p[i])
      /\ \A i \in 0 .. b : Memory(q[i])
      /\ \A i \in 1 .. a : Range(s[i].in) \subseteq Buffer /\ p[i] = Effect(s[i], p[i - 1])
      /\ \A i \in 1 .. b : Range(t[i].in) \subseteq Buffer /\ q[i] = Effect(t[i], q[i - 1])
  BY <1>1, <1>2 DEF Steps
<1> HIDE DEF a, b, all
<1>6. /\ \A i \in 0 .. a : m[i] = p[i]
      /\ \A i \in 0 .. b : m[a + i] = q[i]
  <2>1. \A i \in 0 .. a : m[i] = p[i]
    BY <1>3
  <2>2. ASSUME NEW i \in 0 .. b
        PROVE  m[a + i] = q[i]
    <3>1. CASE i = 0
      BY <1>3, <1>5, <2>1, <3>1
    <3>2. CASE i # 0
      BY <1>3, <3>2
    <3> QED
      BY <3>1, <3>2
  <2> QED
    BY <2>1, <2>2
<1> HIDE DEF m
<1>7. \A i \in 0 .. a + b : i \in 0 .. a \/ \E j \in 1 .. b : i = a + j
  <2> TAKE i \in 0 .. a + b
  <2>1. CASE i <= a
    BY <1>3, <2>1
  <2>2. CASE ~(i <= a)
    <3>1. i - a \in 1 .. b /\ i = a + (i - a)
      BY <1>3, <2>2
    <3> QED
      BY <3>1
  <2> QED
    BY <2>1, <2>2
<1>8. \A i \in 0 .. a + b : Memory(m[i])
  BY <1>3, <1>5, <1>6, <1>7
<1>9. ASSUME NEW i \in 1 .. a + b
      PROVE  Range(all[i].in) \subseteq Buffer /\ m[i] = Effect(all[i], m[i - 1])
  <2>1. CASE i \in 1 .. a
    <3>1. i - 1 \in 0 .. a /\ i \in 0 .. a
      BY <1>3, <2>1
    <3> QED
      BY <1>4, <1>5, <1>6, <2>1, <3>1
  <2>2. ASSUME NEW j \in 1 .. b, i = a + j
        PROVE  Range(all[i].in) \subseteq Buffer /\ m[i] = Effect(all[i], m[i - 1])
    <3>1. j - 1 \in 0 .. b /\ j \in 0 .. b /\ i - 1 = a + (j - 1)
      BY <1>3, <2>2
    <3>2. m[i] = q[j] /\ m[i - 1] = q[j - 1] /\ all[i] = t[j]
      BY <1>4, <1>6, <2>2, <3>1
    <3> QED
      BY <1>5, <3>2
  <2> QED
    BY <1>3, <1>7, <2>1, <2>2
<1>10. Steps(all, m)
  BY <1>4, <1>8, <1>9 DEF Steps
<1>11. m[0] = f /\ m[Len(all)] = h
  BY <1>3, <1>4, <1>5, <1>6
<1> QED
  BY <1>10, <1>11 DEF Makes, all

\* The kernels of work are those of its parts.
LEMMA KernelsThen ==
  ASSUME NEW work, Sequence(work), NEW stream, NEW from, NEW kernels, Sequence(kernels)
  PROVE  /\ Sequence(KernelsOf(work))
         /\ KernelsOf(Then(work, stream, from, kernels)) = KernelsOf(work) \o kernels
<1> DEFINE w == Then(work, stream, from, kernels)
           all == KernelsOf(work) \o kernels
<1>1. Chained(w, work, stream, from, kernels)
  BY ThenIs
<1>2. /\ Len(work) \in Nat /\ DOMAIN work = 1 .. Len(work)
      /\ Len(kernels) \in Nat /\ DOMAIN kernels = 1 .. Len(kernels)
  BY SequenceDomain
<1>3. Sequence(KernelsOf(work)) /\ Len(KernelsOf(work)) = Len(work)
  <2>1. Sequence(KernelsOf(work))
    BY <1>2, SequenceMade DEF KernelsOf
  <2>2. DOMAIN KernelsOf(work) = 1 .. Len(work)
    BY <1>2 DEF KernelsOf
  <2>3. Len(KernelsOf(work)) \in Nat /\ DOMAIN KernelsOf(work) = 1 .. Len(KernelsOf(work))
    BY <2>1, SequenceDomain
  <2> QED
    BY <1>2, <2>1, <2>2, <2>3
<1>4. /\ Len(all) = Len(work) + Len(kernels)
      /\ \A i \in 1 .. Len(work) : all[i] = work[i].kernel
      /\ \A i \in 1 .. Len(kernels) : all[Len(work) + i] = kernels[i]
      /\ Sequence(all)
  <2>1. \A i \in 1 .. Len(work) : KernelsOf(work)[i] = work[i].kernel
    BY <1>2 DEF KernelsOf
  <2>2. /\ Len(all) = Len(KernelsOf(work)) + Len(kernels)
        /\ \A i \in 1 .. Len(KernelsOf(work)) : all[i] = KernelsOf(work)[i]
        /\ \A i \in 1 .. Len(kernels) : all[Len(KernelsOf(work)) + i] = kernels[i]
    <3>1. PICK s : s = KernelsOf(work)
      OBVIOUS
    <3>2. /\ Len(s \o kernels) = Len(s) + Len(kernels)
          /\ \A i \in 1 .. Len(s) : (s \o kernels)[i] = s[i]
          /\ \A i \in 1 .. Len(kernels) : (s \o kernels)[Len(s) + i] = kernels[i]
      BY <1>3, <3>1, Joined
    <3> QED
      BY <3>1, <3>2
  <2>3. Sequence(all)
    BY <1>3, Concatenation
  <2> HIDE DEF all
  <2> QED
    BY <1>3, <2>1, <2>2, <2>3
<1>5. /\ Sequence(w) /\ DOMAIN w = 1 .. Len(work) + Len(kernels)
      /\ \A i \in 1 .. Len(work) : w[i].kernel = work[i].kernel
      /\ \A i \in 1 .. Len(kernels) : w[Len(work) + i].kernel = kernels[i]
  <2>1. Sequence(w) /\ Len(w) = Len(work) + Len(kernels)
    BY <1>1 DEF Chained
  <2>2. DOMAIN w = 1 .. Len(w)
    BY <2>1, SequenceDomain
  <2> HIDE DEF w
  <2>3. \A i \in 1 .. Len(work) : w[i] = work[i]
    BY <1>1 DEF Chained
  <2>4. ASSUME NEW i \in 1 .. Len(kernels)
        PROVE  w[Len(work) + i].kernel = kernels[i]
    <3>1. w[Len(work) + i] = Entry(kernels[i], stream, IF i = 1 THEN from ELSE {Len(work) + i - 1})
      BY <1>1, <2>4 DEF Chained
    <3>2. ASSUME NEW k, NEW deps
          PROVE  Entry(k, stream, deps).kernel = k
      BY DEF Entry
    <3> QED
      BY <3>1, <3>2
  <2> QED
    BY <2>1, <2>2, <2>3, <2>4
<1>6. DOMAIN all = 1 .. Len(work) + Len(kernels)
  BY <1>4, SequenceDomain
<1> HIDE DEF w
<1>7. \A i \in 1 .. Len(work) + Len(kernels) :
        i \in 1 .. Len(work) \/ \E j \in 1 .. Len(kernels) : i = Len(work) + j
  <2> TAKE i \in 1 .. Len(work) + Len(kernels)
  <2>1. CASE i <= Len(work)
    BY <1>2, <2>1
  <2>2. CASE ~(i <= Len(work))
    <3>1. i - Len(work) \in 1 .. Len(kernels) /\ i = Len(work) + (i - Len(work))
      BY <1>2, <2>2
    <3> QED
      BY <3>1
  <2> QED
    BY <2>1, <2>2
<1> HIDE DEF all
<1>8. \A i \in 1 .. Len(work) + Len(kernels) : w[i].kernel = all[i]
  BY <1>4, <1>5, <1>7
<1>9. all = [i \in 1 .. Len(work) + Len(kernels) |-> all[i]]
  <2>1. all \in Seq(Range(all))
    BY <1>4 DEF Sequence
  <2> QED
    BY <1>6, <2>1
<1>10. KernelsOf(w) = [i \in 1 .. Len(work) + Len(kernels) |-> w[i].kernel]
  BY <1>5 DEF KernelsOf
<1>11. KernelsOf(w) = all
  BY <1>8, <1>9, <1>10
<1> QED
  BY <1>3, <1>11 DEF w, all

\* A chain consists of its kernels.
LEMMA KernelsInOrder ==
  ASSUME NEW stream, NEW kernels, Sequence(kernels)
  PROVE  KernelsOf(InOrder(stream, kernels)) = kernels
<1>1. Sequence(<<>>) /\ KernelsOf(<<>>) = <<>>
  <2>1. Sequence(<<>>) /\ DOMAIN <<>> = {}
    <3>1. Sequence(<<>>)
      BY TupleSequences
    <3> QED
      BY <3>1
  <2>2. DOMAIN KernelsOf(<<>>) = {}
    BY <2>1 DEF KernelsOf
  <2>3. Sequence(KernelsOf(<<>>))
    BY <2>1, TupleSequences, KernelsThen
  <2>4. Len(KernelsOf(<<>>)) = 0
    BY <2>2, <2>3, SequenceDomain
  <2>5. KernelsOf(<<>>) = <<>>
    BY <2>3, <2>4, EmptySeq DEF Sequence
  <2> QED
    BY <2>1, <2>5
<1>2. KernelsOf(InOrder(stream, kernels)) = KernelsOf(<<>>) \o kernels
  <2> HIDE DEF KernelsOf
  <2> QED
    BY <1>1, KernelsThen DEF InOrder
<1>3. <<>> \o kernels = kernels
  BY ConcatEmptySeq DEF Sequence
<1> QED
  BY <1>1, <1>2, <1>3

\* Work is enqueued: on an idle device whose memory the host thread may have written, or
\* after what is in flight.
LEMMA EnqueueLeaves ==
  ASSUME Numbered, NEW final, Leaves(final), NEW work, Sequence(work), Enqueue(work), session' = session,
         NEW f, NEW g, Makes(KernelsOf(work), f, g),
         \/ mem' = mem /\ f = final
         \/ pending = {} /\ f = mem'
  PROVE  Leaves(g)'
<1>1. PICK M : Serially(M, mem, pending, issued) /\ M[issued] = final
  BY DEF Leaves
<1>2. PICK new \in [DOMAIN work -> pending'] :
        /\ pending' = pending \cup {new[i] : i \in DOMAIN work} /\ issued' = Base + Len(work)
        /\ \A i \in DOMAIN work : new[i].id = Base + i /\ new[i].kernel = work[i].kernel
  BY EnqueuedAre
<1>3. /\ DOMAIN work = 1 .. Len(work) /\ Len(work) \in Nat
      /\ Base \in Nat /\ \A t \in pending : t.id \in 1 .. Base
  BY SequenceDomain DEF Numbered, Base
<1>4. PICK m : /\ m[0] = f /\ m[Len(work)] = g
               /\ \A i \in 0 .. Len(work) : Memory(m[i])
               /\ \A i \in 1 .. Len(work) : /\ Range(work[i].kernel.in) \subseteq Buffer
                                            /\ m[i] = Effect(work[i].kernel, m[i - 1])
  <2>1. Len(KernelsOf(work)) = Len(work) /\ \A i \in 1 .. Len(work) : KernelsOf(work)[i] = work[i].kernel
    <3>1. Sequence(KernelsOf(work)) /\ DOMAIN KernelsOf(work) = 1 .. Len(work)
      BY <1>3, SequenceMade DEF KernelsOf
    <3>2. Len(KernelsOf(work)) \in Nat /\ DOMAIN KernelsOf(work) = 1 .. Len(KernelsOf(work))
      BY <3>1, SequenceDomain
    <3>3. Len(KernelsOf(work)) = Len(work)
      BY <1>3, <3>1, <3>2
    <3> QED
      BY <1>3, <3>3 DEF KernelsOf
  <2>2. PICK m : Steps(KernelsOf(work), m) /\ m[0] = f /\ m[Len(KernelsOf(work))] = g
    BY DEF Makes
  <2> QED
    BY <2>1, <2>2 DEF Steps
<1>5. \E P : Serially(P, mem', pending, Base) /\ P[Base] = f
  <2>1. CASE pending = {}
    <3>1. f = mem' /\ Base = 0
      BY <2>1, NothingLeft DEF Base
    <3> DEFINE P == [i \in {0} |-> f]
    <3>2. P[0] = f /\ Memory(f)
      BY <1>3, <1>4
    <3> HIDE DEF P
    <3>3. Serially(P, mem', pending, Base)
      BY <2>1, <3>1, <3>2 DEF Serially
    <3> QED
      BY <3>1, <3>2, <3>3
  <2>2. CASE pending # {}
    BY <1>1, <2>2 DEF Base
  <2> QED
    BY <2>1, <2>2
<1>6. PICK P : Serially(P, mem', pending, Base) /\ P[Base] = f
  BY <1>5
<1> DEFINE a == Base
           b == Len(work)
           N == [i \in 0 .. a + b |-> IF i <= a THEN P[i] ELSE m[i - a]]
<1>7. a \in Nat /\ b \in Nat /\ issued' = a + b
  BY <1>2, <1>3
<1>8. /\ P[0] = mem' /\ \A i \in 0 .. a : Memory(P[i])
      /\ \A t \in pending : Range(t.kernel.in) \subseteq Buffer /\ P[t.id] = Effect(t.kernel, P[t.id - 1])
      /\ \A i \in 1 .. a : (\A t \in pending : t.id # i) => P[i] = P[i - 1]
  BY <1>6 DEF Serially
<1>9. P[a] = f /\ m[0] = f /\ m[b] = g /\ \A t \in pending : t.id \in 1 .. a
  BY <1>3, <1>4, <1>6
<1>10. /\ \A i \in 0 .. b : Memory(m[i])
       /\ \A i \in 1 .. b : /\ Range(new[i].kernel.in) \subseteq Buffer
                            /\ m[i] = Effect(new[i].kernel, m[i - 1])
                            /\ new[i].id = a + i
       /\ pending' = pending \cup {new[i] : i \in 1 .. b}
  BY <1>2, <1>3, <1>4
<1> HIDE DEF a, b
<1>11. /\ \A i \in 0 .. a : N[i] = P[i]
       /\ \A i \in 0 .. b : N[a + i] = m[i]
  <2>1. \A i \in 0 .. a : N[i] = P[i]
    BY <1>7
  <2>2. ASSUME NEW i \in 0 .. b
        PROVE  N[a + i] = m[i]
    <3>1. CASE i = 0
      BY <1>7, <1>9, <2>1, <3>1
    <3>2. CASE i # 0
      BY <1>7, <3>2
    <3> QED
      BY <3>1, <3>2
  <2> QED
    BY <2>1, <2>2
<1> HIDE DEF N
<1>12. \A i \in 0 .. a + b : i \in 0 .. a \/ \E j \in 1 .. b : i = a + j
  <2> TAKE i \in 0 .. a + b
  <2>1. CASE i <= a
    BY <1>7, <2>1
  <2>2. CASE ~(i <= a)
    <3>1. i - a \in 1 .. b /\ i = a + (i - a)
      BY <1>7, <2>2
    <3> QED
      BY <3>1
  <2> QED
    BY <2>1, <2>2
<1>13. N[0] = mem' /\ N[a + b] = g
  BY <1>7, <1>8, <1>9, <1>11
<1>14. \A i \in 0 .. a + b : Memory(N[i])
  BY <1>7, <1>8, <1>10, <1>11, <1>12
<1>15. ASSUME NEW t \in pending'
       PROVE  Range(t.kernel.in) \subseteq Buffer /\ N[t.id] = Effect(t.kernel, N[t.id - 1])
  <2>1. CASE t \in pending
    <3>1. t.id \in 0 .. a /\ t.id - 1 \in 0 .. a
      BY <1>7, <1>9, <2>1
    <3> QED
      BY <1>8, <1>11, <2>1, <3>1
  <2>2. ASSUME NEW i \in 1 .. b, t = new[i]
        PROVE  Range(t.kernel.in) \subseteq Buffer /\ N[t.id] = Effect(t.kernel, N[t.id - 1])
    <3>1. i - 1 \in 0 .. b /\ i \in 0 .. b /\ t.id = a + i /\ t.id - 1 = a + (i - 1)
      BY <1>7, <1>10, <2>2
    <3>2. N[t.id] = m[i] /\ N[t.id - 1] = m[i - 1]
      BY <1>11, <3>1
    <3> QED
      BY <1>10, <2>2, <3>2
  <2> QED
    BY <1>10, <2>1, <2>2
<1>16. ASSUME NEW i \in 1 .. a + b, \A t \in pending' : t.id # i
       PROVE  N[i] = N[i - 1]
  <2>1. i \in 1 .. a
    <3> SUFFICES ASSUME NEW j \in 1 .. b, i = a + j PROVE FALSE
      BY <1>7, <1>12
    <3>1. new[j] \in pending' /\ new[j].id = i
      BY <1>10
    <3> QED
      BY <1>16, <3>1
  <2>2. P[i] = P[i - 1]
    BY <1>8, <1>10, <1>16, <2>1
  <2>3. i \in 0 .. a /\ i - 1 \in 0 .. a
    BY <1>7, <2>1
  <2> QED
    BY <1>11, <2>2, <2>3
<1>17. Serially(N, mem', pending', issued') /\ N[issued'] = g
  BY <1>7, <1>13, <1>14, <1>15, <1>16 DEF Serially
<1> QED
  BY <1>17, LeavesNext

-----------------------------------------------------------------------------
(***************************************************************************)
(* What the operations of the algorithm make of the operands they want.    *)
(***************************************************************************)

\* The fields of a value.
LEMMA ValueFields ==
  ASSUME NEW what, NEW c, NEW k
  PROVE  /\ Value(what, c, k).what = what
         /\ what \notin {"mat", "inverse"} => Value(what, c, k).call = c
         /\ what \notin {"mat", "inverse", "rhs"} => Value(what, c, k).at = k
         /\ what \in {"mat", "inverse", "rhs"} => Value(what, c, k).at = 0
         /\ what # "garbage" => Value(what, c, k) # Garbage
BY DEF Value, Garbage

\* The matrix, its inverse and the right-hand side are not of an iterate.
LEMMA FixedValue ==
  ASSUME NEW what \in {"mat", "inverse", "rhs"}, NEW c, NEW k
  PROVE  Value(what, c, k) = Value(what, c, 0)
BY DEF Value

\* Operations that look up a rule.
Looked == {"residual", "identity", "scale", "direction", "spmv", "dot", "alpha", "beta", "axpby"}

\* A rule that fits, when all those that fit have the same results.
LEMMA Fits ==
  ASSUME NEW op \in Looked, NEW v, Garbage \notin Range(v), NEW r \in Rules(op),
         v = Wanted(r.in, Last(v)),
         \A q \in Rules(op) : v = Wanted(q.in, Last(v)) => q.out = r.out
  PROVE  Results(op, v) = Wanted(r.out, Last(v))
<1> DEFINE F == {q \in Rules(op) : v = Wanted(q.in, Last(v))}
           one == CHOOSE q \in F : TRUE
<1>1. r \in F
  OBVIOUS
<1> HIDE DEF F
<1>2. one \in F
  BY <1>1
<1> HIDE DEF one
<1>3. one.out = r.out
  BY <1>2 DEF F
<1>4. F # {}
  BY <1>1
<1>5. Results(op, v) = IF F = {} THEN <<Garbage, Garbage>> ELSE Wanted(one.out, Last(v))
  <2>1. op \notin {"copy", "sweep", "invert"}
    BY DEF Looked
  <2> QED
    BY <2>1 DEF Results, F, one
<1> QED
  BY <1>3, <1>4, <1>5

\* The first operand tells which rule applies.
LEMMA FitsTwo ==
  ASSUME NEW op \in Looked, NEW a, NEW i \in Int, NEW b, NEW out, Rule(<<Of(a, i), Of(b, 0)>>, out) \in Rules(op),
         NEW c \in Nat, NEW k \in Nat, a # "garbage", b \notin {"garbage", "mat", "inverse", "rhs"},
         \A q \in Rules(op) : q.in[1].what = a => q.out = out
  PROVE  Results(op, <<Value(a, c, k + i), Value(b, c, k)>>) = Wanted(out, Value(b, c, k))
<1> DEFINE x == Value(a, c, k + i)
           y == Value(b, c, k)
           v == <<x, y>>
           r == Rule(<<Of(a, i), Of(b, 0)>>, out)
<1>1. /\ x.what = a /\ x # Garbage
      /\ y.what = b /\ y.call = c /\ y.at = k /\ y # Garbage
  BY ValueFields
<1>2. Wanted(r.in, y) = v
  <2>1. r.in = <<Of(a, i), Of(b, 0)>>
    BY DEF Rule
  <2>2. k + 0 = k
    OBVIOUS
  <2>3. Wanted(<<Of(a, i), Of(b, 0)>>, y) = <<Value(a, y.call, y.at + i), Value(b, y.call, y.at + 0)>>
    BY DEF Wanted, Of
  <2> QED
    BY <1>1, <2>1, <2>2, <2>3
<1> HIDE DEF x, y
<1>3. Last(v) = y /\ Range(v) = {x, y}
  BY TwoNames DEF Last
<1>4. ASSUME NEW q \in Rules(op), v = Wanted(q.in, y)
      PROVE  q.out = out
  <2>1. 1 \in DOMAIN q.in /\ v[1] = Value(q.in[1].what, y.call, y.at + q.in[1].shift)
    BY <1>4 DEF Wanted
  <2>2. q.in[1].what = a
    BY <1>1, <2>1, ValueFields
  <2> QED
    BY <2>2
<1>5. r.out = out
  BY DEF Rule
<1> HIDE DEF r, v
<1>6. Results(op, v) = Wanted(out, y)
  BY <1>1, <1>2, <1>3, <1>4, <1>5, Fits DEF r
<1> QED
  BY <1>6 DEF v, x, y

\* Three operands fit a rule that wants them.
LEMMA FitsThree ==
  ASSUME NEW op \in Looked, NEW a, NEW i \in Int, NEW e, NEW j \in Int, NEW b, NEW out,
         Rule(<<Of(a, i), Of(e, j), Of(b, 0)>>, out) \in Rules(op),
         NEW c \in Nat, NEW k \in Nat, a # "garbage", e # "garbage", b \notin {"garbage", "mat", "inverse"},
         b = "rhs" => k = 0,
         \A q \in Rules(op) : q.in[1].what = a => q.out = out
  PROVE  Results(op, <<Value(a, c, k + i), Value(e, c, k + j), Value(b, c, k)>>) = Wanted(out, Value(b, c, k))
<1> DEFINE x == Value(a, c, k + i)
           z == Value(e, c, k + j)
           y == Value(b, c, k)
           v == <<x, z, y>>
           r == Rule(<<Of(a, i), Of(e, j), Of(b, 0)>>, out)
<1>1. /\ x.what = a /\ x # Garbage /\ z # Garbage
      /\ y.what = b /\ y.call = c /\ y.at = k /\ y # Garbage
  BY ValueFields
<1>2. Wanted(r.in, y) = v
  <2>1. r.in = <<Of(a, i), Of(e, j), Of(b, 0)>>
    BY DEF Rule
  <2>2. k + 0 = k
    OBVIOUS
  <2>3. Wanted(<<Of(a, i), Of(e, j), Of(b, 0)>>, y)
          = <<Value(a, y.call, y.at + i), Value(e, y.call, y.at + j), Value(b, y.call, y.at + 0)>>
    BY DEF Wanted, Of
  <2> QED
    BY <1>1, <2>1, <2>2, <2>3
<1> HIDE DEF x, y, z
<1>3. Last(v) = y /\ Range(v) = {x, z, y}
  BY ThreeNames DEF Last
<1>4. ASSUME NEW q \in Rules(op), v = Wanted(q.in, y)
      PROVE  q.out = out
  <2>1. 1 \in DOMAIN q.in /\ v[1] = Value(q.in[1].what, y.call, y.at + q.in[1].shift)
    BY <1>4 DEF Wanted
  <2>2. q.in[1].what = a
    BY <1>1, <2>1, ValueFields
  <2> QED
    BY <2>2
<1>5. r.out = out
  BY DEF Rule
<1> HIDE DEF r, v
<1>6. Results(op, v) = Wanted(out, y)
  BY <1>1, <1>2, <1>3, <1>4, <1>5, Fits DEF r
<1> QED
  BY <1>6 DEF v, x, y, z

\* So does a single one.
LEMMA FitsOne ==
  ASSUME NEW op \in Looked, NEW b, NEW out, Rule(<<Of(b, 0)>>, out) \in Rules(op),
         NEW c \in Nat, NEW k \in Nat, b \notin {"garbage", "mat", "inverse", "rhs"},
         \A q \in Rules(op) : q.in[1].what = b => q.out = out
  PROVE  Results(op, <<Value(b, c, k)>>) = Wanted(out, Value(b, c, k))
<1> DEFINE y == Value(b, c, k)
           v == <<y>>
           r == Rule(<<Of(b, 0)>>, out)
<1>1. y.what = b /\ y.call = c /\ y.at = k /\ y # Garbage
  BY ValueFields
<1>2. Wanted(r.in, y) = v
  <2>1. r.in = <<Of(b, 0)>>
    BY DEF Rule
  <2>2. k + 0 = k
    OBVIOUS
  <2>3. Wanted(<<Of(b, 0)>>, y) = <<Value(b, y.call, y.at + 0)>>
    BY DEF Wanted, Of
  <2> QED
    BY <1>1, <2>1, <2>2, <2>3
<1> HIDE DEF y
<1>3. Last(v) = y /\ Range(v) = {y}
  BY OneName DEF Last
<1>4. ASSUME NEW q \in Rules(op), v = Wanted(q.in, y)
      PROVE  q.out = out
  <2>1. 1 \in DOMAIN q.in /\ v[1] = Value(q.in[1].what, y.call, y.at + q.in[1].shift)
    BY <1>4 DEF Wanted
  <2>2. q.in[1].what = b
    BY <1>1, <2>1, ValueFields
  <2> QED
    BY <2>2
<1>5. r.out = out
  BY DEF Rule
<1> HIDE DEF r, v
<1>6. Results(op, v) = Wanted(out, y)
  BY <1>1, <1>2, <1>3, <1>4, <1>5, Fits DEF r
<1> QED
  BY <1>6 DEF v, y

\* Results of a rule, at the iterate of its last operand.
LEMMA WantedOne ==
  ASSUME NEW what, NEW b, b \notin {"mat", "inverse"}, NEW c, NEW k \in Nat, b = "rhs" => k = 0
  PROVE  Wanted(<<Of(what, 0)>>, Value(b, c, k)) = <<Value(what, c, k)>>
<1> DEFINE y == Value(b, c, k)
<1>1. y.call = c /\ y.at = k /\ k + 0 = k
  BY ValueFields
<1> HIDE DEF y
<1>2. Wanted(<<Of(what, 0)>>, y) = <<Value(what, y.call, y.at + 0)>>
  BY DEF Wanted, Of
<1> QED
  BY <1>1, <1>2 DEF y

\* At the next iterate.
LEMMA WantedNext ==
  ASSUME NEW what, NEW b, b \notin {"mat", "inverse"}, NEW c, NEW k \in Nat, b = "rhs" => k = 0
  PROVE  Wanted(<<Of(what, 1)>>, Value(b, c, k)) = <<Value(what, c, k + 1)>>
<1> DEFINE y == Value(b, c, k)
<1>1. y.call = c /\ y.at = k /\ k + 0 = k
  BY ValueFields
<1> HIDE DEF y
<1>2. Wanted(<<Of(what, 1)>>, y) = <<Value(what, y.call, y.at + 1)>>
  BY DEF Wanted, Of
<1> QED
  BY <1>1, <1>2 DEF y

\* Two results.
LEMMA WantedTwo ==
  ASSUME NEW what, NEW other, NEW b, b \notin {"mat", "inverse"}, NEW c, NEW k \in Nat, b = "rhs" => k = 0
  PROVE  Wanted(<<Of(what, 0), Of(other, 0)>>, Value(b, c, k)) = <<Value(what, c, k), Value(other, c, k)>>
<1> DEFINE y == Value(b, c, k)
<1>1. y.call = c /\ y.at = k /\ k + 0 = k
  BY ValueFields
<1> HIDE DEF y
<1>2. Wanted(<<Of(what, 0), Of(other, 0)>>, y) = <<Value(what, y.call, y.at + 0), Value(other, y.call, y.at + 0)>>
  BY DEF Wanted, Of
<1> QED
  BY <1>1, <1>2 DEF y

\* The operations of the algorithm.
LEMMA Algorithm ==
  ASSUME NEW c \in Nat, NEW k \in Nat
  PROVE  /\ Results("residual", <<Value("mat", c, 0), Value("sol", c, 0), Value("rhs", c, 0)>>)
              = <<Value("res", c, 0)>>
         /\ Results("identity", <<Value("res", c, k)>>) = <<Value("res_p", c, k)>>
         /\ Results("scale", <<Value("inverse", c, 0), Value("res", c, k)>>) = <<Value("res_p", c, k)>>
         /\ Results("direction", <<Value(DirRes, c, k)>>) = <<Value("dir", c, k)>>
         /\ Results("spmv", <<Value("mat", c, 0), Value("dir", c, k)>>) = <<Value("mat_dir", c, k)>>
         /\ Results("dot", <<Value("dir", c, k), Value("mat_dir", c, k)>>) = <<Value("dir_dot", c, k)>>
         /\ Results("dot", <<Value("res", c, k), Value("res", c, k)>>) = <<Value("res_dot", c, k)>>
         /\ Results("dot", <<Value(DirRes, c, k), Value("res", c, k)>>) = <<Value(DirDot, c, k)>>
         /\ Results("alpha", <<Value(DirDot, c, k), Value("dir_dot", c, k)>>)
              = <<Value("alpha", c, k), Value("alpha_neg", c, k)>>
         /\ Results("beta", <<Value(DirDot, c, k), Value(DirDot, c, k + 1)>>)
              = <<Value("beta", c, k + 1), Value(DirDot, c, k + 1)>>
         /\ Results("axpby", <<Value("alpha", c, k), Value("dir", c, k), Value("sol", c, k)>>)
              = <<Value("sol", c, k + 1)>>
         /\ Results("axpby", <<Value("alpha_neg", c, k), Value("mat_dir", c, k), Value("res", c, k)>>)
              = <<Value("res", c, k + 1)>>
         /\ Results("axpby", <<Value("beta", c, k + 1), Value(DirRes, c, k + 1), Value("dir", c, k)>>)
              = <<Value("dir", c, k + 1)>>
<1>0. /\ DirRes \in {"res", "res_p"} /\ DirDot \in {"res_dot", "res_p_dot"}
      /\ DirRes = "res" <=> DirDot = "res_dot"
  BY DEF DirRes, DirDot
<1>1. Results("residual", <<Value("mat", c, 0), Value("sol", c, 0), Value("rhs", c, 0)>>) = <<Value("res", c, 0)>>
  <2>1. Rule(<<Of("mat", 0), Of("sol", 0), Of("rhs", 0)>>, <<Of("res", 0)>>) \in Rules("residual")
    BY DEF Rules
  <2>2. \A q \in Rules("residual") : q.in[1].what = "mat" => q.out = <<Of("res", 0)>>
    BY DEF Rules, Rule, Of
  <2>3. Results("residual", <<Value("mat", c, 0 + 0), Value("sol", c, 0 + 0), Value("rhs", c, 0)>>)
          = Wanted(<<Of("res", 0)>>, Value("rhs", c, 0))
    BY <1>0, <2>1, <2>2, FitsThree DEF Looked
  <2>4. Wanted(<<Of("res", 0)>>, Value("rhs", c, 0))
          = <<Value("res", c, 0)>>
    BY <1>0, WantedOne, WantedNext, WantedTwo
  <2> QED
    BY <2>3, <2>4, FixedValue
<1>2. Results("identity", <<Value("res", c, k)>>) = <<Value("res_p", c, k)>>
  <2>1. Rule(<<Of("res", 0)>>, <<Of("res_p", 0)>>) \in Rules("identity")
    BY DEF Rules
  <2>2. \A q \in Rules("identity") : q.in[1].what = "res" => q.out = <<Of("res_p", 0)>>
    BY DEF Rules, Rule, Of
  <2>3. Results("identity", <<Value("res", c, k)>>)
          = Wanted(<<Of("res_p", 0)>>, Value("res", c, k))
    BY <1>0, <2>1, <2>2, FitsOne DEF Looked
  <2>4. Wanted(<<Of("res_p", 0)>>, Value("res", c, k))
          = <<Value("res_p", c, k)>>
    BY <1>0, WantedOne, WantedNext, WantedTwo
  <2> QED
    BY <2>3, <2>4, FixedValue
<1>3. Results("scale", <<Value("inverse", c, 0), Value("res", c, k)>>) = <<Value("res_p", c, k)>>
  <2>1. Rule(<<Of("inverse", 0), Of("res", 0)>>, <<Of("res_p", 0)>>) \in Rules("scale")
    BY DEF Rules
  <2>2. \A q \in Rules("scale") : q.in[1].what = "inverse" => q.out = <<Of("res_p", 0)>>
    BY DEF Rules, Rule, Of
  <2>3. Results("scale", <<Value("inverse", c, k + 0), Value("res", c, k)>>)
          = Wanted(<<Of("res_p", 0)>>, Value("res", c, k))
    BY <1>0, <2>1, <2>2, FitsTwo DEF Looked
  <2>4. Wanted(<<Of("res_p", 0)>>, Value("res", c, k))
          = <<Value("res_p", c, k)>>
    BY <1>0, WantedOne, WantedNext, WantedTwo
  <2> QED
    BY <2>3, <2>4, FixedValue
<1>4. Results("direction", <<Value(DirRes, c, k)>>) = <<Value("dir", c, k)>>
  <2>1. Rule(<<Of(DirRes, 0)>>, <<Of("dir", 0)>>) \in Rules("direction")
    BY DEF Rules
  <2>2. \A q \in Rules("direction") : q.in[1].what = DirRes => q.out = <<Of("dir", 0)>>
    BY <1>0 DEF Rules, Rule, Of
  <2>3. Results("direction", <<Value(DirRes, c, k)>>)
          = Wanted(<<Of("dir", 0)>>, Value(DirRes, c, k))
    BY <1>0, <2>1, <2>2, FitsOne DEF Looked
  <2>4. Wanted(<<Of("dir", 0)>>, Value(DirRes, c, k))
          = <<Value("dir", c, k)>>
    BY <1>0, WantedOne, WantedNext, WantedTwo
  <2> QED
    BY <2>3, <2>4, FixedValue
<1>5. Results("spmv", <<Value("mat", c, 0), Value("dir", c, k)>>) = <<Value("mat_dir", c, k)>>
  <2>1. Rule(<<Of("mat", 0), Of("dir", 0)>>, <<Of("mat_dir", 0)>>) \in Rules("spmv")
    BY DEF Rules
  <2>2. \A q \in Rules("spmv") : q.in[1].what = "mat" => q.out = <<Of("mat_dir", 0)>>
    BY DEF Rules, Rule, Of
  <2>3. Results("spmv", <<Value("mat", c, k + 0), Value("dir", c, k)>>)
          = Wanted(<<Of("mat_dir", 0)>>, Value("dir", c, k))
    BY <1>0, <2>1, <2>2, FitsTwo DEF Looked
  <2>4. Wanted(<<Of("mat_dir", 0)>>, Value("dir", c, k))
          = <<Value("mat_dir", c, k)>>
    BY <1>0, WantedOne, WantedNext, WantedTwo
  <2> QED
    BY <2>3, <2>4, FixedValue
<1>6. Results("dot", <<Value("dir", c, k), Value("mat_dir", c, k)>>) = <<Value("dir_dot", c, k)>>
  <2>1. Rule(<<Of("dir", 0), Of("mat_dir", 0)>>, <<Of("dir_dot", 0)>>) \in Rules("dot")
    BY DEF Rules
  <2>2. \A q \in Rules("dot") : q.in[1].what = "dir" => q.out = <<Of("dir_dot", 0)>>
    BY <1>0 DEF Rules, Rule, Of
  <2>3. Results("dot", <<Value("dir", c, k + 0), Value("mat_dir", c, k)>>)
          = Wanted(<<Of("dir_dot", 0)>>, Value("mat_dir", c, k))
    BY <1>0, <2>1, <2>2, FitsTwo DEF Looked
  <2>4. Wanted(<<Of("dir_dot", 0)>>, Value("mat_dir", c, k))
          = <<Value("dir_dot", c, k)>>
    BY <1>0, WantedOne, WantedNext, WantedTwo
  <2> QED
    BY <2>3, <2>4, FixedValue
<1>7. Results("dot", <<Value("res", c, k), Value("res", c, k)>>) = <<Value("res_dot", c, k)>>
  <2>1. Rule(<<Of("res", 0), Of("res", 0)>>, <<Of("res_dot", 0)>>) \in Rules("dot")
    BY DEF Rules
  <2>2. \A q \in Rules("dot") : q.in[1].what = "res" => q.out = <<Of("res_dot", 0)>>
    BY <1>0 DEF Rules, Rule, Of
  <2>3. Results("dot", <<Value("res", c, k + 0), Value("res", c, k)>>)
          = Wanted(<<Of("res_dot", 0)>>, Value("res", c, k))
    BY <1>0, <2>1, <2>2, FitsTwo DEF Looked
  <2>4. Wanted(<<Of("res_dot", 0)>>, Value("res", c, k))
          = <<Value("res_dot", c, k)>>
    BY <1>0, WantedOne, WantedNext, WantedTwo
  <2> QED
    BY <2>3, <2>4, FixedValue
<1>8. Results("dot", <<Value(DirRes, c, k), Value("res", c, k)>>) = <<Value(DirDot, c, k)>>
  <2>1. Rule(<<Of(DirRes, 0), Of("res", 0)>>, <<Of(DirDot, 0)>>) \in Rules("dot")
    BY DEF Rules
  <2>2. \A q \in Rules("dot") : q.in[1].what = DirRes => q.out = <<Of(DirDot, 0)>>
    BY <1>0 DEF Rules, Rule, Of
  <2>3. Results("dot", <<Value(DirRes, c, k + 0), Value("res", c, k)>>)
          = Wanted(<<Of(DirDot, 0)>>, Value("res", c, k))
    BY <1>0, <2>1, <2>2, FitsTwo DEF Looked
  <2>4. Wanted(<<Of(DirDot, 0)>>, Value("res", c, k))
          = <<Value(DirDot, c, k)>>
    BY <1>0, WantedOne, WantedNext, WantedTwo
  <2> QED
    BY <2>3, <2>4, FixedValue
<1>9. Results("alpha", <<Value(DirDot, c, k), Value("dir_dot", c, k)>>) = <<Value("alpha", c, k), Value("alpha_neg", c, k)>>
  <2>1. Rule(<<Of(DirDot, 0), Of("dir_dot", 0)>>, <<Of("alpha", 0), Of("alpha_neg", 0)>>) \in Rules("alpha")
    BY DEF Rules
  <2>2. \A q \in Rules("alpha") : q.in[1].what = DirDot => q.out = <<Of("alpha", 0), Of("alpha_neg", 0)>>
    BY <1>0 DEF Rules, Rule, Of
  <2>3. Results("alpha", <<Value(DirDot, c, k + 0), Value("dir_dot", c, k)>>)
          = Wanted(<<Of("alpha", 0), Of("alpha_neg", 0)>>, Value("dir_dot", c, k))
    BY <1>0, <2>1, <2>2, FitsTwo DEF Looked
  <2>4. Wanted(<<Of("alpha", 0), Of("alpha_neg", 0)>>, Value("dir_dot", c, k))
          = <<Value("alpha", c, k), Value("alpha_neg", c, k)>>
    BY <1>0, WantedOne, WantedNext, WantedTwo
  <2> QED
    BY <2>3, <2>4, FixedValue
<1>10. Results("beta", <<Value(DirDot, c, k), Value(DirDot, c, k + 1)>>) = <<Value("beta", c, k + 1), Value(DirDot, c, k + 1)>>
  <2>1. Rule(<<Of(DirDot, -1), Of(DirDot, 0)>>, <<Of("beta", 0), Of(DirDot, 0)>>) \in Rules("beta")
    BY DEF Rules
  <2>2. \A q \in Rules("beta") : q.in[1].what = DirDot => q.out = <<Of("beta", 0), Of(DirDot, 0)>>
    BY <1>0 DEF Rules, Rule, Of
  <2>3. Results("beta", <<Value(DirDot, c, (k + 1) + -1), Value(DirDot, c, k + 1)>>)
          = Wanted(<<Of("beta", 0), Of(DirDot, 0)>>, Value(DirDot, c, k + 1))
    BY <1>0, <2>1, <2>2, FitsTwo DEF Looked
  <2>4. Wanted(<<Of("beta", 0), Of(DirDot, 0)>>, Value(DirDot, c, k + 1))
          = <<Value("beta", c, k + 1), Value(DirDot, c, k + 1)>>
    BY <1>0, WantedOne, WantedNext, WantedTwo
  <2> QED
    BY <2>3, <2>4, FixedValue
<1>11. Results("axpby", <<Value("alpha", c, k), Value("dir", c, k), Value("sol", c, k)>>) = <<Value("sol", c, k + 1)>>
  <2>1. Rule(<<Of("alpha", 0), Of("dir", 0), Of("sol", 0)>>, <<Of("sol", 1)>>) \in Rules("axpby")
    BY DEF Rules
  <2>2. \A q \in Rules("axpby") : q.in[1].what = "alpha" => q.out = <<Of("sol", 1)>>
    BY <1>0 DEF Rules, Rule, Of
  <2>3. Results("axpby", <<Value("alpha", c, k + 0), Value("dir", c, k + 0), Value("sol", c, k)>>)
          = Wanted(<<Of("sol", 1)>>, Value("sol", c, k))
    BY <1>0, <2>1, <2>2, FitsThree DEF Looked
  <2>4. Wanted(<<Of("sol", 1)>>, Value("sol", c, k))
          = <<Value("sol", c, k + 1)>>
    BY <1>0, WantedOne, WantedNext, WantedTwo
  <2> QED
    BY <2>3, <2>4, FixedValue
<1>12. Results("axpby", <<Value("alpha_neg", c, k), Value("mat_dir", c, k), Value("res", c, k)>>) = <<Value("res", c, k + 1)>>
  <2>1. Rule(<<Of("alpha_neg", 0), Of("mat_dir", 0), Of("res", 0)>>, <<Of("res", 1)>>) \in Rules("axpby")
    BY DEF Rules
  <2>2. \A q \in Rules("axpby") : q.in[1].what = "alpha_neg" => q.out = <<Of("res", 1)>>
    BY <1>0 DEF Rules, Rule, Of
  <2>3. Results("axpby", <<Value("alpha_neg", c, k + 0), Value("mat_dir", c, k + 0), Value("res", c, k)>>)
          = Wanted(<<Of("res", 1)>>, Value("res", c, k))
    BY <1>0, <2>1, <2>2, FitsThree DEF Looked
  <2>4. Wanted(<<Of("res", 1)>>, Value("res", c, k))
          = <<Value("res", c, k + 1)>>
    BY <1>0, WantedOne, WantedNext, WantedTwo
  <2> QED
    BY <2>3, <2>4, FixedValue
<1>13. Results("axpby", <<Value("beta", c, k + 1), Value(DirRes, c, k + 1), Value("dir", c, k)>>) = <<Value("dir", c, k + 1)>>
  <2>1. Rule(<<Of("beta", 1), Of(DirRes, 1), Of("dir", 0)>>, <<Of("dir", 1)>>) \in Rules("axpby")
    BY DEF Rules
  <2>2. \A q \in Rules("axpby") : q.in[1].what = "beta" => q.out = <<Of("dir", 1)>>
    BY <1>0 DEF Rules, Rule, Of
  <2>3. Results("axpby", <<Value("beta", c, k + 1), Value(DirRes, c, k + 1), Value("dir", c, k)>>)
          = Wanted(<<Of("dir", 1)>>, Value("dir", c, k))
    BY <1>0, <2>1, <2>2, FitsThree DEF Looked
  <2>4. Wanted(<<Of("dir", 1)>>, Value("dir", c, k))
          = <<Value("dir", c, k + 1)>>
    BY <1>0, WantedOne, WantedNext, WantedTwo
  <2> QED
    BY <2>3, <2>4, FixedValue
<1> QED
  BY <1>1, <1>2, <1>3, <1>4, <1>5, <1>6, <1>7, <1>8, <1>9, <1>10, <1>11, <1>12, <1>13

-----------------------------------------------------------------------------
(***************************************************************************)
(* What kernels make of memory.                                            *)
(***************************************************************************)

\* Memory f with v in buffer b.
Put(f, b, v) == [a \in Buffer |-> IF a = b THEN v ELSE f[a]]

\* It is a memory, with v in b and what was there elsewhere.
LEMMA PutMemory ==
  ASSUME NEW f, NEW b, NEW v
  PROVE  Memory(Put(f, b, v)) /\ \A a \in Buffer : Put(f, b, v)[a] = IF a = b THEN v ELSE f[a]
BY DEF Put, Memory

\* A tuple is made of its elements.
LEMMA Tuples ==
  ASSUME NEW f, NEW x, NEW y, NEW z
  PROVE  /\ [i \in DOMAIN <<x>> |-> f[<<x>>[i]]] = <<f[x]>>
         /\ [i \in DOMAIN <<x, y>> |-> f[<<x, y>>[i]]] = <<f[x], f[y]>>
         /\ [i \in DOMAIN <<x, y, z>> |-> f[<<x, y, z>>[i]]] = <<f[x], f[y], f[z]>>
OBVIOUS

\* Tuples, one after the other.
LEMMA JoinedTuples ==
  ASSUME NEW a, NEW b, NEW c
  PROVE  /\ <<a>> \o <<b>> = <<a, b>>
         /\ <<a>> \o <<b, c>> = <<a, b, c>>
         /\ <<a, b>> \o <<c>> = <<a, b, c>>
<1> DEFINE S == {a, b, c}
<1>1. /\ <<a>> \in Seq(S) /\ <<b>> \in Seq(S) /\ <<c>> \in Seq(S)
      /\ <<a, b>> \in Seq(S) /\ <<b, c>> \in Seq(S) /\ <<a, b, c>> \in Seq(S)
  OBVIOUS
<1>2. ASSUME NEW s \in Seq(S), NEW t \in Seq(S), NEW u \in Seq(S), Len(u) = Len(s) + Len(t),
             \A i \in 1 .. Len(u) : u[i] = IF i <= Len(s) THEN s[i] ELSE t[i - Len(s)]
      PROVE  s \o t = u
  <2>1. /\ s \o t \in Seq(S) /\ Len(s \o t) = Len(s) + Len(t)
        /\ \A i \in 1 .. Len(s) + Len(t) : (s \o t)[i] = IF i <= Len(s) THEN s[i] ELSE t[i - Len(s)]
    BY ConcatProperties
  <2>2. PICK v \in Seq(S) : v = s \o t
    BY <2>1
  <2>3. v = u
    BY <1>2, <2>1, <2>2, SeqEqual
  <2> QED
    BY <2>2, <2>3
<1> HIDE DEF S
<1>3. <<a>> \o <<b>> = <<a, b>>
  <2>1. Len(<<a, b>>) = Len(<<a>>) + Len(<<b>>)
    OBVIOUS
  <2>2. \A i \in 1 .. Len(<<a, b>>) : <<a, b>>[i] = IF i <= Len(<<a>>) THEN <<a>>[i] ELSE <<b>>[i - Len(<<a>>)]
    OBVIOUS
  <2> QED
    BY <1>1, <1>2, <2>1, <2>2
<1>4. <<a>> \o <<b, c>> = <<a, b, c>>
  <2>1. Len(<<a, b, c>>) = Len(<<a>>) + Len(<<b, c>>)
    OBVIOUS
  <2>2. \A i \in 1 .. Len(<<a, b, c>>) :
          <<a, b, c>>[i] = IF i <= Len(<<a>>) THEN <<a>>[i] ELSE <<b, c>>[i - Len(<<a>>)]
    OBVIOUS
  <2> QED
    BY <1>1, <1>2, <2>1, <2>2
<1>5. <<a, b>> \o <<c>> = <<a, b, c>>
  <2>1. Len(<<a, b, c>>) = Len(<<a, b>>) + Len(<<c>>)
    OBVIOUS
  <2>2. \A i \in 1 .. Len(<<a, b, c>>) :
          <<a, b, c>>[i] = IF i <= Len(<<a, b>>) THEN <<a, b>>[i] ELSE <<c>>[i - Len(<<a, b>>)]
    OBVIOUS
  <2> QED
    BY <1>1, <1>2, <2>1, <2>2
<1> QED
  BY <1>3, <1>4, <1>5

\* Two tuples of one element.
LEMMA JoinedTwo ==
  ASSUME NEW a, NEW b
  PROVE  <<a>> \o <<b>> = <<a, b>>
BY JoinedTuples

\* The kernels of the solvers: no scalar and one, two or three operands, or a scalar and
\* two operands.
LEMMA InputsOne ==
  ASSUME NEW op, NEW x, NEW out, NEW scratch, NEW f
  PROVE  Inputs(Kernel(op, <<>>, <<x>>, out, scratch), f) = <<f[x]>>
<1>1. Inputs(Kernel(op, <<>>, <<x>>, out, scratch), f) = <<>> \o [i \in DOMAIN <<x>> |-> f[<<x>>[i]]]
  BY DEF Inputs, Kernel
<1>2. [i \in DOMAIN <<x>> |-> f[<<x>>[i]]] = <<f[x]>>
  BY Tuples
<1>3. <<>> \o <<f[x]>> = <<f[x]>>
  OBVIOUS
<1> QED
  BY <1>1, <1>2, <1>3

\* Operands that are in memory.
LEMMA InputsTwo ==
  ASSUME NEW op, NEW x, NEW y, NEW out, NEW scratch, NEW f
  PROVE  Inputs(Kernel(op, <<>>, <<x, y>>, out, scratch), f) = <<f[x], f[y]>>
<1>1. Inputs(Kernel(op, <<>>, <<x, y>>, out, scratch), f)
        = <<>> \o [i \in DOMAIN <<x, y>> |-> f[<<x, y>>[i]]]
  BY DEF Inputs, Kernel
<1>2. [i \in DOMAIN <<x, y>> |-> f[<<x, y>>[i]]] = <<f[x], f[y]>>
  BY Tuples
<1>3. <<>> \o <<f[x], f[y]>> = <<f[x], f[y]>>
  OBVIOUS
<1> QED
  BY <1>1, <1>2, <1>3

\* Three of them.
LEMMA InputsThree ==
  ASSUME NEW op, NEW x, NEW y, NEW z, NEW out, NEW scratch, NEW f
  PROVE  Inputs(Kernel(op, <<>>, <<x, y, z>>, out, scratch), f) = <<f[x], f[y], f[z]>>
<1>1. Inputs(Kernel(op, <<>>, <<x, y, z>>, out, scratch), f)
        = <<>> \o [i \in DOMAIN <<x, y, z>> |-> f[<<x, y, z>>[i]]]
  BY DEF Inputs, Kernel
<1>2. [i \in DOMAIN <<x, y, z>> |-> f[<<x, y, z>>[i]]] = <<f[x], f[y], f[z]>>
  BY Tuples
<1>3. <<>> \o <<f[x], f[y], f[z]>> = <<f[x], f[y], f[z]>>
  OBVIOUS
<1> QED
  BY <1>1, <1>2, <1>3

\* A scalar before two of them.
LEMMA InputsScalar ==
  ASSUME NEW op, NEW value, NEW x, NEW y, NEW out, NEW scratch, NEW f
  PROVE  Inputs(Kernel(op, <<value>>, <<x, y>>, out, scratch), f) = <<value, f[x], f[y]>>
<1>1. Inputs(Kernel(op, <<value>>, <<x, y>>, out, scratch), f)
        = <<value>> \o [i \in DOMAIN <<x, y>> |-> f[<<x, y>>[i]]]
  BY DEF Inputs, Kernel
<1>2. [i \in DOMAIN <<x, y>> |-> f[<<x, y>>[i]]] = <<f[x], f[y]>>
  BY Tuples
<1>3. <<value>> \o <<f[x], f[y]>> = <<value, f[x], f[y]>>
  BY JoinedTuples
<1> QED
  BY <1>1, <1>2, <1>3

\* A kernel that writes one buffer, or two.
LEMMA EffectOne ==
  ASSUME NEW k, NEW b, k.out = <<b>>, NEW f, NEW v, Results(k.op, Inputs(k, f)) = <<v>>
  PROVE  Effect(k, f) = Put(f, b, v)
<1>1. Range(k.out) = {b} /\ DOMAIN k.out = {1} /\ k.out[1] = b
  BY OneName
<1>2. (CHOOSE i \in DOMAIN k.out : k.out[i] = b) = 1
  BY <1>1
<1>3. Results(k.op, Inputs(k, f))[1] = v
  OBVIOUS
<1> QED
  BY <1>1, <1>2, <1>3 DEF Effect, Put

\* Two buffers are written.
LEMMA EffectTwo ==
  ASSUME NEW k, NEW a, NEW b, a # b, k.out = <<a, b>>, NEW f, NEW v, NEW w,
         Results(k.op, Inputs(k, f)) = <<v, w>>
  PROVE  Effect(k, f) = Put(Put(f, a, v), b, w)
<1>1. Range(k.out) = {a, b} /\ DOMAIN k.out = {1, 2} /\ k.out[1] = a /\ k.out[2] = b
  BY TwoNames
<1>2. (CHOOSE i \in DOMAIN k.out : k.out[i] = a) = 1 /\ (CHOOSE i \in DOMAIN k.out : k.out[i] = b) = 2
  BY <1>1
<1>3. Results(k.op, Inputs(k, f))[1] = v /\ Results(k.op, Inputs(k, f))[2] = w
  OBVIOUS
<1> QED
  BY <1>1, <1>2, <1>3 DEF Effect, Put

\* One operand.
LEMMA MakesBy1 ==
  ASSUME NEW op, NEW x \in Buffer, NEW b, NEW scratch, NEW f, Memory(f), NEW v,
         Results(op, <<f[x]>>) = <<v>>
  PROVE  Makes(<<Kernel(op, <<>>, <<x>>, <<b>>, scratch)>>, f, Put(f, b, v))
<1> DEFINE k == Kernel(op, <<>>, <<x>>, <<b>>, scratch)
<1>1. k.op = op /\ k.in = <<x>> /\ k.out = <<b>>
  BY DEF Kernel
<1>2. Inputs(k, f) = <<f[x]>>
  BY InputsOne
<1> HIDE DEF k
<1>3. Effect(k, f) = Put(f, b, v)
  BY <1>1, <1>2, EffectOne
<1>4. Range(k.in) \subseteq Buffer
  BY <1>1, OneName
<1> QED
  BY <1>3, <1>4, MakesOne DEF k

\* Two operands.
LEMMA MakesBy2 ==
  ASSUME NEW op, NEW x \in Buffer, NEW y \in Buffer, NEW b, NEW scratch, NEW f, Memory(f), NEW v,
         Results(op, <<f[x], f[y]>>) = <<v>>
  PROVE  Makes(<<Kernel(op, <<>>, <<x, y>>, <<b>>, scratch)>>, f, Put(f, b, v))
<1> DEFINE k == Kernel(op, <<>>, <<x, y>>, <<b>>, scratch)
<1>1. k.op = op /\ k.in = <<x, y>> /\ k.out = <<b>>
  BY DEF Kernel
<1>2. Inputs(k, f) = <<f[x], f[y]>>
  BY InputsTwo
<1> HIDE DEF k
<1>3. Effect(k, f) = Put(f, b, v)
  BY <1>1, <1>2, EffectOne
<1>4. Range(k.in) \subseteq Buffer
  BY <1>1, TwoNames
<1> QED
  BY <1>3, <1>4, MakesOne DEF k

\* Three operands.
LEMMA MakesBy3 ==
  ASSUME NEW op, NEW x \in Buffer, NEW y \in Buffer, NEW z \in Buffer, NEW b, NEW scratch,
         NEW f, Memory(f), NEW v, Results(op, <<f[x], f[y], f[z]>>) = <<v>>
  PROVE  Makes(<<Kernel(op, <<>>, <<x, y, z>>, <<b>>, scratch)>>, f, Put(f, b, v))
<1> DEFINE k == Kernel(op, <<>>, <<x, y, z>>, <<b>>, scratch)
<1>1. k.op = op /\ k.in = <<x, y, z>> /\ k.out = <<b>>
  BY DEF Kernel
<1>2. Inputs(k, f) = <<f[x], f[y], f[z]>>
  BY InputsThree
<1> HIDE DEF k
<1>3. Effect(k, f) = Put(f, b, v)
  BY <1>1, <1>2, EffectOne
<1>4. Range(k.in) \subseteq Buffer
  BY <1>1, ThreeNames
<1> QED
  BY <1>3, <1>4, MakesOne DEF k

\* A scalar and two operands.
LEMMA MakesByScalar ==
  ASSUME NEW op, NEW value, NEW x \in Buffer, NEW y \in Buffer, NEW b, NEW scratch,
         NEW f, Memory(f), NEW v, Results(op, <<value, f[x], f[y]>>) = <<v>>
  PROVE  Makes(<<Kernel(op, <<value>>, <<x, y>>, <<b>>, scratch)>>, f, Put(f, b, v))
<1> DEFINE k == Kernel(op, <<value>>, <<x, y>>, <<b>>, scratch)
<1>1. k.op = op /\ k.in = <<x, y>> /\ k.out = <<b>>
  BY DEF Kernel
<1>2. Inputs(k, f) = <<value, f[x], f[y]>>
  BY InputsScalar
<1> HIDE DEF k
<1>3. Effect(k, f) = Put(f, b, v)
  BY <1>1, <1>2, EffectOne
<1>4. Range(k.in) \subseteq Buffer
  BY <1>1, TwoNames
<1> QED
  BY <1>3, <1>4, MakesOne DEF k

\* Two operands and two results.
LEMMA MakesPair ==
  ASSUME NEW op, NEW x \in Buffer, NEW y \in Buffer, NEW a, NEW b, a # b, NEW scratch,
         NEW f, Memory(f), NEW v, NEW w, Results(op, <<f[x], f[y]>>) = <<v, w>>
  PROVE  Makes(<<Kernel(op, <<>>, <<x, y>>, <<a, b>>, scratch)>>, f, Put(Put(f, a, v), b, w))
<1> DEFINE k == Kernel(op, <<>>, <<x, y>>, <<a, b>>, scratch)
<1>1. k.op = op /\ k.in = <<x, y>> /\ k.out = <<a, b>>
  BY DEF Kernel
<1>2. Inputs(k, f) = <<f[x], f[y]>>
  BY InputsTwo
<1> HIDE DEF k
<1>3. Effect(k, f) = Put(Put(f, a, v), b, w)
  BY <1>1, <1>2, EffectTwo
<1>4. Range(k.in) \subseteq Buffer
  BY <1>1, TwoNames
<1> QED
  BY <1>3, <1>4, MakesOne DEF k

\* One kernel after the other.
LEMMA OneSequence ==
  ASSUME NEW a
  PROVE  Sequence(<<a>>)
BY DEF Sequence, Range

\* Two kernels.
LEMMA TwoInTurn ==
  ASSUME NEW a, NEW b, NEW f, NEW g, NEW h, Makes(<<a>>, f, g), Makes(<<b>>, g, h)
  PROVE  Makes(<<a, b>>, f, h)
<1>1. Makes(<<a>> \o <<b>>, f, h)
  BY OneSequence, MakesJoin
<1>2. <<a>> \o <<b>> = <<a, b>>
  BY JoinedTwo
<1> QED
  BY <1>1, <1>2

\* Three kernels.
LEMMA ThreeInTurn ==
  ASSUME NEW a, NEW b, NEW c, NEW f, NEW g, NEW h, NEW i,
         Makes(<<a>>, f, g), Makes(<<b>>, g, h), Makes(<<c>>, h, i)
  PROVE  Makes(<<a, b, c>>, f, i)
<1>1. Makes(<<a, b>>, f, h)
  BY TwoInTurn
<1>2. Sequence(<<a, b>>) /\ Sequence(<<c>>)
  BY OneSequence DEF Sequence, Range
<1>3. Makes(<<a, b>> \o <<c>>, f, i)
  BY <1>1, <1>2, MakesJoin
<1>4. <<a, b>> \o <<c>> = <<a, b, c>>
  BY JoinedTuples
<1> QED
  BY <1>3, <1>4

-----------------------------------------------------------------------------
(***************************************************************************)
(* What a call finds in its views, and the preconditioner.                 *)
(***************************************************************************)

\* The preconditioned residual of iterate k in call c after n sweeps.
Half(c, k, n) == [Value("res_p", c, k) EXCEPT !.sweeps = n]

\* A sweep over the matrix, the residual and the sweep before makes the next one.
LEMMA Sweeps ==
  ASSUME NEW c \in Nat, NEW k \in Nat, NEW n \in Nat
  PROVE  /\ Results("sweep", <<Value("mat", c, 0), Value("res", c, k)>>) = <<Half(c, k, 1)>>
         /\ Results("sweep", <<Value("mat", c, 0), Value("res", c, k), Half(c, k, n)>>) = <<Half(c, k, n + 1)>>
         /\ Results("copy", <<Half(c, k, n)>>) = <<Half(c, k, n)>>
<1> DEFINE a == Value("mat", c, 0)
           r == Value("res", c, k)
           h == Half(c, k, n)
           p == Value("res_p", c, k)
<1>1. /\ a # Garbage /\ r # Garbage /\ r.what = "res" /\ r.call = c /\ r.at = k
      /\ a = Value("mat", r.call, 0) /\ p = Value("res_p", r.call, r.at)
  BY ValueFields
<1>2. h = [p EXCEPT !.sweeps = n] /\ Half(c, k, 1) = [p EXCEPT !.sweeps = 1]
      /\ Half(c, k, n + 1) = [p EXCEPT !.sweeps = n + 1] /\ h # Garbage /\ h.sweeps = n
  BY DEF Half, Value, Garbage
<1>3. Half(c, k, 0 + 1) = Half(c, k, 1)
  OBVIOUS
<1> HIDE DEF a, r, h, p
<1>4. Sweep(<<a, r>>) = Half(c, k, 1)
  BY <1>1, <1>2 DEF Sweep
<1>5. Sweep(<<a, r, h>>) = Half(c, k, n + 1)
  BY <1>1, <1>2 DEF Sweep
<1>6. Garbage \notin Range(<<a, r>>) /\ Garbage \notin Range(<<a, r, h>>) /\ Garbage \notin Range(<<h>>)
  BY <1>1, <1>2, OneName, TwoNames, ThreeNames
<1>7. Results("sweep", <<a, r>>) = <<Sweep(<<a, r>>)>>
  BY <1>6 DEF Results
<1>8. Results("sweep", <<a, r, h>>) = <<Sweep(<<a, r, h>>)>>
  BY <1>6 DEF Results
<1>9. Results("copy", <<h>>) = <<h>>
  BY <1>6 DEF Results
<1> QED
  BY <1>4, <1>5, <1>7, <1>8, <1>9 DEF a, r, h

\* The first sweep.
LEMMA SweepFirst ==
  ASSUME NEW c \in Nat, NEW k \in Nat
  PROVE  Results("sweep", <<Value("mat", c, 0), Value("res", c, k)>>) = <<Half(c, k, 1)>>
<1>1. 0 \in Nat
  OBVIOUS
<1> QED
  BY <1>1, Sweeps

\* The ones after it.
LEMMA SweepNext ==
  ASSUME NEW c \in Nat, NEW k \in Nat, NEW n \in Nat
  PROVE  Results("sweep", <<Value("mat", c, 0), Value("res", c, k), Half(c, k, n)>>) = <<Half(c, k, n + 1)>>
BY Sweeps

\* A sweep may be copied.
LEMMA SweepCopied ==
  ASSUME NEW c \in Nat, NEW k \in Nat, NEW n \in Nat
  PROVE  Results("copy", <<Half(c, k, n)>>) = <<Half(c, k, n)>>
BY Sweeps

\* copy and invert.
LEMMA Copies ==
  ASSUME NEW c \in Nat
  PROVE  /\ Results("copy", <<Value("rhs", c, 0)>>) = <<Value("rhs", c, 0)>>
         /\ Results("invert", <<Value("mat", c, 0)>>) = <<Value("inverse", c, 0)>>
<1>1. Value("rhs", c, 0) # Garbage /\ Value("mat", c, 0) # Garbage
  BY ValueFields
<1>2. Results("copy", <<Value("rhs", c, 0)>>) = <<Value("rhs", c, 0)>>
  BY <1>1, OneName DEF Results
<1>3. Results("invert", <<Value("mat", c, 0)>>) = <<[Value("mat", c, 0) EXCEPT !.what = "inverse"]>>
  BY <1>1, OneName DEF Results
<1>4. [Value("mat", c, 0) EXCEPT !.what = "inverse"] = Value("inverse", c, 0)
  BY DEF Value
<1> QED
  BY <1>2, <1>3, <1>4

\* The views of call c.
LEMMA Views ==
  ASSUME SessionInv, NEW c \in DOMAIN session.calls
  PROVE  /\ c \in Nat \ {0}
         /\ session.calls[c].sol \in Buffer /\ session.calls[c].sol \in Solutions
         /\ session.calls[c].sol \notin Vectors
         /\ InverseOf(c) \in Buffer /\ InverseOf(c) \notin Vectors
         /\ InverseOf(c) # session.calls[c].sol /\ InverseOf(c) \in Range(Inverses)
         /\ Vectors \subseteq Buffer
<1>1. c \in 1 .. Len(session.calls) /\ Len(session.calls) \in Nat /\ c \in Nat \ {0}
  BY RequestType
<1>2. LatestCall(c, {d \in DOMAIN session.calls : session.calls[d].invert}) \in 1 .. c
  BY <1>1, LatestCallType
<1>3. 1 .. c \subseteq DOMAIN Inverses
  BY <1>1, RequestType, BuffersAssumption DEF SessionInv
<1>4. InverseOf(c) \in Range(Inverses)
  BY <1>2, <1>3 DEF InverseOf, Range
<1>5. session.calls[c].sol \in Solutions
  BY RequestType
<1> QED
  BY <1>1, <1>4, <1>5, BuffersAssumption DEF Buffer

\* In memory f are the matrix of call c and, if it is wanted, the inverse of its diagonal.
Given(f, c) ==
  /\ Memory(f) /\ f["mat"] = Value("mat", c, 0)
  /\ session.prec = "diagonal" => f[InverseOf(c)] = Value("inverse", c, 0)

\* So are iterate k and its residual.
Solves(f, c, k) ==
  /\ Given(f, c)
  /\ f[session.calls[c].sol] = Value("sol", c, k)
  /\ f["res"] = Value("res", c, k)

\* They stay when something else is written.
LEMMA PutSolves ==
  ASSUME SessionInv, NEW c \in DOMAIN session.calls, NEW f, NEW k, Solves(f, c, k),
         NEW b \in Vectors \ {"mat", "res"}, NEW v
  PROVE  Solves(Put(f, b, v), c, k)
<1>1. Memory(Put(f, b, v)) /\ \A a \in Buffer : Put(f, b, v)[a] = IF a = b THEN v ELSE f[a]
  BY PutMemory
<1>2. {"mat", "res"} \subseteq Buffer
  BY DEF Buffer, Vectors
<1> QED
  BY <1>1, <1>2, Views DEF Solves, Given

\* What a preconditioner leaves.
Preconditioned(g, f, c, k) ==
  /\ Memory(g) /\ g["res_p"] = Value("res_p", c, k)
  /\ \A b \in Buffer \ {"res_p", "jacobi"} : g[b] = f[b]

\* The buffers of sweeps alternate.
LEMMA Parity ==
  ASSUME NEW i \in Nat
  PROVE  /\ i % 2 \in {0, 1}
         /\ i % 2 = 0 => (i + 1) % 2 = 1
         /\ i % 2 = 1 => (i + 1) % 2 = 0
OBVIOUS

\* JacobiPreconditioner::apply, however many sweeps it makes.
LEMMA JacobiMakes ==
  ASSUME SessionInv, NEW c \in DOMAIN session.calls, NEW f, NEW k \in Nat, Solves(f, c, k)
  PROVE  \E g : /\ Makes(JacobiApply(session.calls[c].num_sweeps), f, g)
                /\ Preconditioned(g, f, c, k)
<1> DEFINE num == session.calls[c].num_sweeps
           n == FurtherSweeps(num)
           from(i) == IF i % 2 = 1 THEN "res_p" ELSE "jacobi"
           to(i) == IF i % 2 = 1 THEN "jacobi" ELSE "res_p"
           one == Kernel("sweep", <<>>, <<"mat", "res">>, <<"res_p">>, {})
           first == <<one>>
           sweep(i) == Kernel("sweep", <<>>, <<"mat", "res", from(i)>>, <<to(i)>>, {})
           more == [i \in 1 .. n |-> sweep(i)]
           copied == Copy("jacobi", "res_p")
           copy == IF num > 1 /\ num % 2 = 0 THEN <<copied>> ELSE <<>>
           f1 == Put(f, "res_p", Half(c, k, 1))
           In(j, b) == CASE b = "res_p" -> Half(c, k, IF j % 2 = 0 THEN j + 1 ELSE j)
                         [] b = "jacobi" -> IF j = 0 THEN f[b] ELSE Half(c, k, IF j % 2 = 0 THEN j ELSE j + 1)
                         [] OTHER -> f[b]
           m == [j \in 0 .. n |-> [b \in Buffer |-> In(j, b)]]
<1>1. /\ num \in Nat /\ n \in Nat /\ n + 1 = Swept(c)
      /\ c \in Nat /\ {"mat", "res", "res_p", "jacobi"} \subseteq Buffer
      /\ Memory(f) /\ f["mat"] = Value("mat", c, 0) /\ f["res"] = Value("res", c, k)
  BY RequestType, Views DEF FurtherSweeps, Swept, Vectors, Solves, Given
<1>2. Half(c, k, n + 1) = Value("res_p", c, k)
  BY <1>1 DEF Half, Value
<1>3. /\ num > 1 /\ num % 2 = 0 => n % 2 = 1
      /\ ~(num > 1 /\ num % 2 = 0) => n % 2 = 0
  BY <1>1 DEF FurtherSweeps
<1>4. JacobiApply(num) = first \o more \o copy
  BY DEF JacobiApply
<1> HIDE DEF num, n
<1>5. Makes(first, f, f1)
  <2>1. Results("sweep", <<f["mat"], f["res"]>>) = <<Half(c, k, 1)>>
    BY <1>1, SweepFirst
  <2> QED
    BY <1>1, <2>1, MakesBy2
<1>6. \A j \in 0 .. n : \A b \in Buffer : m[j][b] = In(j, b)
  OBVIOUS
<1>7. \A j \in 0 .. n : Memory(m[j])
  BY DEF Memory
<1>8. m[0] = f1
  <2>1. 0 \in 0 .. n /\ 0 % 2 = 0
    BY <1>1
  <2>2. \A b \in Buffer : In(0, b) = IF b = "res_p" THEN Half(c, k, 1) ELSE f[b]
    BY <2>1
  <2>3. m[0] = [b \in Buffer |-> In(0, b)]
    BY <2>1
  <2> HIDE DEF In, m
  <2> QED
    BY <2>2, <2>3 DEF Put
<1> HIDE DEF m
<1>9. ASSUME NEW i \in 1 .. n
      PROVE  Range(sweep(i).in) \subseteq Buffer /\ m[i] = Effect(sweep(i), m[i - 1])
  <2>1. /\ i \in Nat /\ i - 1 \in 0 .. n /\ i \in 0 .. n /\ i # 0
        /\ i % 2 \in {0, 1} /\ (i % 2 = 1 => (i - 1) % 2 = 0) /\ (i % 2 = 0 => (i - 1) % 2 = 1 /\ i - 1 # 0)
    BY <1>1
  <2>2. m[i - 1]["mat"] = f["mat"] /\ m[i - 1]["res"] = f["res"] /\ m[i - 1][from(i)] = Half(c, k, i)
    <3>1. \A b \in Buffer : m[i - 1][b] = In(i - 1, b)
      BY <1>6, <2>1
    <3>2. In(i - 1, "mat") = f["mat"] /\ In(i - 1, "res") = f["res"]
      OBVIOUS
    <3>3. In(i - 1, from(i)) = Half(c, k, i)
      <4>1. CASE i % 2 = 1
        BY <2>1, <4>1
      <4>2. CASE i % 2 = 0
        BY <2>1, <4>2
      <4> QED
        BY <2>1, <4>1, <4>2
    <3>4. from(i) \in Buffer
      BY <1>1
    <3> HIDE DEF In, from
    <3> QED
      BY <1>1, <3>1, <3>2, <3>3, <3>4
  <2>3. Results("sweep", <<m[i - 1]["mat"], m[i - 1]["res"], m[i - 1][from(i)]>>) = <<Half(c, k, i + 1)>>
    BY <1>1, <2>1, <2>2, SweepNext
  <2>4. sweep(i).op = "sweep" /\ sweep(i).in = <<"mat", "res", from(i)>> /\ sweep(i).out = <<to(i)>>
    BY DEF Kernel
  <2>5. Inputs(sweep(i), m[i - 1]) = <<m[i - 1]["mat"], m[i - 1]["res"], m[i - 1][from(i)]>>
    BY InputsThree
  <2>6. from(i) \in {"res_p", "jacobi"}
    OBVIOUS
  <2>7. Range(sweep(i).in) \subseteq Buffer
    <3> HIDE DEF from, sweep
    <3> QED
      BY <1>1, <2>4, <2>6, ThreeNames
  <2>8. Effect(sweep(i), m[i - 1]) = Put(m[i - 1], to(i), Half(c, k, i + 1))
    <3> HIDE DEF sweep, to, from
    <3> QED
      BY <2>3, <2>4, <2>5, EffectOne
  <2>9. m[i] = Put(m[i - 1], to(i), Half(c, k, i + 1))
    <3>1. \A b \in Buffer : In(i, b) = IF b = to(i) THEN Half(c, k, i + 1) ELSE In(i - 1, b)
      BY <2>1
    <3>2. \A b \in Buffer : m[i][b] = IF b = to(i) THEN Half(c, k, i + 1) ELSE m[i - 1][b]
      <4> HIDE DEF In, to
      <4> QED
        BY <1>6, <2>1, <3>1
    <3>3. m[i] = [b \in Buffer |-> m[i][b]]
      BY <1>7, <2>1 DEF Memory
    <3> HIDE DEF to
    <3> QED
      BY <3>2, <3>3 DEF Put
  <2> QED
    BY <2>7, <2>8, <2>9
<1>10. Sequence(more) /\ Len(more) = n
  <2>1. Sequence(more)
    BY <1>1, SequenceMade
  <2>2. DOMAIN more = 1 .. n
    OBVIOUS
  <2> HIDE DEF more
  <2>3. Len(more) \in Nat /\ DOMAIN more = 1 .. Len(more)
    BY <2>1, SequenceDomain
  <2> QED
    BY <1>1, <2>1, <2>2, <2>3
<1>11. Makes(more, f1, m[n])
  <2>1. \A i \in 1 .. n : more[i] = sweep(i)
    OBVIOUS
  <2> HIDE DEF more, sweep
  <2>2. Steps(more, m)
    BY <1>7, <1>9, <1>10, <2>1 DEF Steps
  <2> QED
    BY <1>8, <1>10, <2>2 DEF Makes
<1>12. Sequence(first) /\ Sequence(copy)
  BY TupleSequences
<1> HIDE DEF first, more, f1
<1>13. Makes(first \o more, f, m[n]) /\ Sequence(first \o more)
  BY <1>5, <1>10, <1>11, <1>12, MakesJoin, Concatenation
<1>14. n \in 0 .. n
  BY <1>1
<1>15. CASE num > 1 /\ num % 2 = 0
  <2> DEFINE g == Put(m[n], "res_p", Half(c, k, n + 1))
  <2>1. m[n]["jacobi"] = Half(c, k, n + 1)
    <3>1. n % 2 = 1 /\ n # 0
      BY <1>1, <1>3, <1>15
    <3> QED
      BY <1>1, <1>6, <1>14, <3>1
  <2>2. Results("copy", <<m[n]["jacobi"]>>) = <<Half(c, k, n + 1)>>
    BY <1>1, <2>1, SweepCopied
  <2>3. Makes(<<copied>>, m[n], g)
    BY <1>1, <1>7, <1>14, <2>2, MakesBy1 DEF Copy
  <2>4. copy = <<copied>>
    BY <1>15
  <2>5. Makes(first \o more \o copy, f, g)
    <3> HIDE DEF g, copy, copied
    <3> QED
      BY <1>12, <1>13, <2>3, <2>4, MakesJoin
  <2>6. Preconditioned(g, f, c, k)
    <3>1. Memory(g) /\ \A b \in Buffer : g[b] = IF b = "res_p" THEN Half(c, k, n + 1) ELSE m[n][b]
      BY PutMemory
    <3>2. \A b \in Buffer \ {"res_p", "jacobi"} : m[n][b] = f[b]
      BY <1>6, <1>14
    <3> HIDE DEF g
    <3> QED
      BY <1>1, <1>2, <3>1, <3>2 DEF Preconditioned
  <2> QED
    BY <1>4, <2>5, <2>6 DEF num
<1>16. CASE ~(num > 1 /\ num % 2 = 0)
  <2>1. copy = <<>>
    BY <1>16
  <2>2. first \o more \o copy = first \o more
    <3> HIDE DEF copy
    <3>1. PICK s : s = first \o more /\ Sequence(s)
      BY <1>13
    <3>2. s \o <<>> = s
      BY <3>1, ConcatEmptySeq DEF Sequence
    <3> QED
      BY <2>1, <3>1, <3>2
  <2>3. n % 2 = 0
    BY <1>3, <1>16
  <2>4. Preconditioned(m[n], f, c, k)
    <3>1. \A b \in Buffer \ {"res_p", "jacobi"} : m[n][b] = f[b]
      BY <1>6, <1>14
    <3>2. m[n]["res_p"] = Half(c, k, n + 1)
      BY <1>1, <1>6, <1>14, <2>3
    <3> QED
      BY <1>2, <1>7, <1>14, <3>1, <3>2 DEF Preconditioned
  <2> QED
    BY <1>4, <1>13, <2>2, <2>4 DEF num
<1> QED
  BY <1>15, <1>16

\* The preconditioned residual is written next to what solves.
LEMMA PreconditionedSolves ==
  ASSUME SessionInv, NEW c \in DOMAIN session.calls, NEW f, NEW k, Solves(f, c, k),
         NEW g, Preconditioned(g, f, c, k)
  PROVE  Solves(g, c, k)
<1>1. {"mat", "res"} \subseteq Buffer \ {"res_p", "jacobi"} /\ {"res_p", "jacobi"} \subseteq Vectors
  BY DEF Buffer, Vectors
<1> QED
  BY <1>1, Views DEF Solves, Given, Preconditioned

\* Every preconditioner makes the preconditioned residual of the iterate.
LEMMA PreconditionMakes ==
  ASSUME SessionInv, HasPrec, NEW c \in DOMAIN session.calls, NEW f, NEW k \in Nat, Solves(f, c, k),
         NEW n, session.prec = "jacobi" => n = session.calls[c].num_sweeps,
         NEW inverse, session.prec = "diagonal" => inverse = InverseOf(c)
  PROVE  \E g : Makes(Precondition(n, inverse), f, g) /\ Preconditioned(g, f, c, k)
<1>1. session.prec \in {"identity", "diagonal", "jacobi"}
  BY SessionsAssumption DEF HasPrec, SessionInv
<1>2. c \in Nat /\ Memory(f) /\ "res" \in Buffer /\ f["res"] = Value("res", c, k)
  BY Views DEF Solves, Given, Vectors
<1> DEFINE g == Put(f, "res_p", Value("res_p", c, k))
<1>3. Preconditioned(g, f, c, k)
  <2>1. Memory(g) /\ \A b \in Buffer : g[b] = IF b = "res_p" THEN Value("res_p", c, k) ELSE f[b]
    BY PutMemory
  <2>2. "res_p" \in Buffer
    BY DEF Buffer, Vectors
  <2> HIDE DEF g
  <2> QED
    BY <2>1, <2>2 DEF Preconditioned
<1>4. CASE session.prec = "identity"
  <2>1. Results("identity", <<f["res"]>>) = <<Value("res_p", c, k)>>
    BY <1>2, Algorithm
  <2>2. Makes(<<Kernel("identity", <<>>, <<"res">>, <<"res_p">>, {})>>, f, g)
    BY <1>2, <2>1, MakesBy1
  <2>3. Precondition(n, inverse) = <<Kernel("identity", <<>>, <<"res">>, <<"res_p">>, {})>>
    BY <1>4 DEF Precondition
  <2> HIDE DEF g
  <2> QED
    BY <1>3, <2>2, <2>3
<1>5. CASE session.prec = "diagonal"
  <2>1. inverse \in Buffer /\ f[inverse] = Value("inverse", c, 0)
    BY <1>5, Views DEF Solves, Given
  <2>2. Results("scale", <<f[inverse], f["res"]>>) = <<Value("res_p", c, k)>>
    BY <1>2, <2>1, Algorithm
  <2>3. Makes(<<Kernel("scale", <<>>, <<inverse, "res">>, <<"res_p">>, {})>>, f, g)
    BY <1>2, <2>1, <2>2, MakesBy2
  <2>4. Precondition(n, inverse) = <<Kernel("scale", <<>>, <<inverse, "res">>, <<"res_p">>, {})>>
    BY <1>5 DEF Precondition
  <2> HIDE DEF g
  <2> QED
    BY <1>3, <2>3, <2>4
<1>6. CASE session.prec = "jacobi"
  <2>1. Precondition(n, inverse) = JacobiApply(session.calls[c].num_sweeps)
    BY <1>6 DEF Precondition
  <2> QED
    BY <2>1, JacobiMakes
<1> QED
  BY <1>1, <1>4, <1>5, <1>6

-----------------------------------------------------------------------------
\* Work.
LEMMA ThenMakes ==
  ASSUME NEW work, Sequence(work), NEW stream, NEW from, NEW kernels, Sequence(kernels),
         NEW f, NEW g, NEW h, Makes(KernelsOf(work), f, g), Makes(kernels, g, h)
  PROVE  /\ Sequence(Then(work, stream, from, kernels))
         /\ Makes(KernelsOf(Then(work, stream, from, kernels)), f, h)
<1>1. /\ Sequence(KernelsOf(work))
      /\ KernelsOf(Then(work, stream, from, kernels)) = KernelsOf(work) \o kernels
  BY KernelsThen
<1>2. Makes(KernelsOf(work) \o kernels, f, h)
  BY <1>1, MakesJoin
<1> QED
  BY <1>1, <1>2, ThenElements

\* A chain makes what its kernels make.
LEMMA InOrderMakes ==
  ASSUME NEW stream, NEW kernels, Sequence(kernels), NEW f, NEW g, Makes(kernels, f, g)
  PROVE  /\ Sequence(InOrder(stream, kernels))
         /\ Makes(KernelsOf(InOrder(stream, kernels)), f, g)
BY KernelsInOrder, InOrderElements

-----------------------------------------------------------------------------
\* What the kernels of an iteration make.
LEMMA NormMakes ==
  ASSUME SessionInv, NEW c \in DOMAIN session.calls, NEW f, NEW k \in Nat, Solves(f, c, k), NEW stream, NEW b
  PROVE  Makes(<<Dot(stream, b, "res", "res")>>, f, Put(f, b, Value("res_dot", c, k)))
<1>1. c \in Nat /\ Memory(f) /\ "res" \in Buffer /\ f["res"] = Value("res", c, k)
  BY Views DEF Solves, Given, Vectors
<1>2. Results("dot", <<f["res"], f["res"]>>) = <<Value("res_dot", c, k)>>
  BY <1>1, Algorithm
<1> QED
  BY <1>1, <1>2, MakesBy2 DEF Dot

\* The reductions.
LEMMA DotMakes ==
  ASSUME SessionInv, HasPrec, NEW c \in DOMAIN session.calls, NEW f, NEW k \in Nat, Solves(f, c, k),
         f["res_p"] = Value("res_p", c, k), NEW stream, NEW b
  PROVE  Makes(<<Dot(stream, b, "res_p", "res")>>, f, Put(f, b, Value(DirDot, c, k)))
<1>1. /\ c \in Nat /\ Memory(f) /\ "res" \in Buffer /\ f["res"] = Value("res", c, k)
      /\ "res_p" \in Buffer /\ DirRes = "res_p"
  BY Views DEF Solves, Given, Vectors, DirRes
<1>2. Results("dot", <<f["res_p"], f["res"]>>) = <<Value(DirDot, c, k)>>
  BY <1>1, Algorithm
<1> QED
  BY <1>1, <1>2, MakesBy2 DEF Dot

\* The first direction.
LEMMA DirectionMakes ==
  ASSUME SessionInv, NEW c \in DOMAIN session.calls, NEW f, NEW k \in Nat, Memory(f),
         f[DirRes] = Value(DirRes, c, k)
  PROVE  Makes(<<Direction(DirRes)>>, f, Put(f, "dir", Value("dir", c, k)))
<1>1. c \in Nat /\ DirRes \in Buffer
  BY Views DEF Vectors, DirRes
<1>2. Results("direction", <<f[DirRes]>>) = <<Value("dir", c, k)>>
  BY <1>1, Algorithm
<1> QED
  BY <1>1, <1>2, MakesBy1 DEF Direction

\* The direction and the quadratic form, next to what solves.
Product(g, f, c, k) ==
  g = Put(Put(f, "mat_dir", Value("mat_dir", c, k)), "tmp", Value("dir_dot", c, k))

\* The product of the matrix and the direction, and the quadratic form.
LEMMA ProductMakes ==
  ASSUME SessionInv, NEW c \in DOMAIN session.calls, NEW f, NEW k \in Nat, Solves(f, c, k),
         f["dir"] = Value("dir", c, k), NEW g, Product(g, f, c, k)
  PROVE  Makes(<<Spmv, Dot("A", "tmp", "dir", "mat_dir")>>, f, g)
<1> DEFINE h == Put(f, "mat_dir", Value("mat_dir", c, k))
<1>1. /\ c \in Nat /\ Memory(f) /\ f["mat"] = Value("mat", c, 0)
      /\ {"mat", "dir", "mat_dir"} \subseteq Buffer
  BY Views DEF Solves, Given, Vectors
<1>2. Results("spmv", <<f["mat"], f["dir"]>>) = <<Value("mat_dir", c, k)>>
  BY <1>1, Algorithm
<1>3. Makes(<<Spmv>>, f, h)
  BY <1>1, <1>2, MakesBy2 DEF Spmv
<1>4. Memory(h) /\ h["dir"] = Value("dir", c, k) /\ h["mat_dir"] = Value("mat_dir", c, k)
  BY <1>1, PutMemory
<1> HIDE DEF h
<1>5. Results("dot", <<h["dir"], h["mat_dir"]>>) = <<Value("dir_dot", c, k)>>
  BY <1>1, <1>4, Algorithm
<1>6. Makes(<<Dot("A", "tmp", "dir", "mat_dir")>>, h, Put(h, "tmp", Value("dir_dot", c, k)))
  BY <1>1, <1>4, <1>5, MakesBy2 DEF Dot
<1>7. g = Put(h, "tmp", Value("dir_dot", c, k))
  BY DEF Product, h
<1> QED
  BY <1>3, <1>6, <1>7, TwoInTurn

\* Both updates of an iteration.
Updated(f, c, k) ==
  Put(Put(f, session.calls[c].sol, Value("sol", c, k + 1)), "res", Value("res", c, k + 1))

\* The iterate after both updates.
LEMMA UpdatedSolves ==
  ASSUME SessionInv, NEW c \in DOMAIN session.calls, NEW f, NEW k, Solves(f, c, k)
  PROVE  /\ Solves(Updated(f, c, k), c, k + 1)
         /\ \A b \in Vectors \ {"res"} : Updated(f, c, k)[b] = f[b]
<1> DEFINE h == Put(f, session.calls[c].sol, Value("sol", c, k + 1))
           g == Updated(f, c, k)
<1>1. Memory(h) /\ \A a \in Buffer : h[a] = IF a = session.calls[c].sol THEN Value("sol", c, k + 1) ELSE f[a]
  BY PutMemory
<1>2. Memory(g) /\ \A a \in Buffer : g[a] = IF a = "res" THEN Value("res", c, k + 1) ELSE h[a]
  <2> HIDE DEF h
  <2> QED
    BY PutMemory DEF Updated, h
<1>3. {"mat", "res"} \subseteq Vectors
  BY DEF Vectors
<1> HIDE DEF g, h
<1>4. Solves(g, c, k + 1)
  BY <1>1, <1>2, <1>3, Views DEF Solves, Given
<1>5. \A b \in Vectors \ {"res"} : g[b] = f[b]
  BY <1>1, <1>2, Views
<1> QED
  BY <1>4, <1>5 DEF g

\* They make the next iterate and its residual.
LEMMA UpdatesMake ==
  ASSUME SessionInv, NEW c \in DOMAIN session.calls, NEW f, NEW k \in Nat, Solves(f, c, k),
         f["dir"] = Value("dir", c, k), f["mat_dir"] = Value("mat_dir", c, k)
  PROVE  \E h : /\ Makes(<<AxpbyBy(Value("alpha", c, k), "dir", session.calls[c].sol)>>, f, h)
                /\ Makes(<<AxpbyBy(Value("alpha_neg", c, k), "mat_dir", "res")>>, h, Updated(f, c, k))
                /\ f["alpha"] = Value("alpha", c, k) =>
                     Makes(<<Axpby("alpha", "dir", session.calls[c].sol)>>, f, h)
                /\ f["alpha_neg"] = Value("alpha_neg", c, k) =>
                     Makes(<<Axpby("alpha_neg", "mat_dir", "res")>>, h, Updated(f, c, k))
<1> DEFINE sol == session.calls[c].sol
           h == Put(f, sol, Value("sol", c, k + 1))
<1>1. /\ c \in Nat /\ Memory(f) /\ f[sol] = Value("sol", c, k) /\ f["res"] = Value("res", c, k)
      /\ {"dir", "mat_dir", "res", "alpha", "alpha_neg", sol} \subseteq Buffer
      /\ sol \notin {"dir", "mat_dir", "res", "alpha", "alpha_neg"}
  BY Views DEF Solves, Given, Vectors
<1> HIDE DEF sol
<1>2. Results("axpby", <<Value("alpha", c, k), f["dir"], f[sol]>>) = <<Value("sol", c, k + 1)>>
  BY <1>1, Algorithm
<1>3. Makes(<<AxpbyBy(Value("alpha", c, k), "dir", sol)>>, f, h)
  BY <1>1, <1>2, MakesByScalar DEF AxpbyBy
<1>4. ASSUME f["alpha"] = Value("alpha", c, k)
      PROVE  Makes(<<Axpby("alpha", "dir", sol)>>, f, h)
  BY <1>1, <1>2, <1>4, MakesBy3 DEF Axpby
<1>5. Memory(h) /\ \A b \in {"dir", "mat_dir", "res", "alpha", "alpha_neg"} : h[b] = f[b]
  BY <1>1, PutMemory
<1>6. Updated(f, c, k) = Put(h, "res", Value("res", c, k + 1))
  BY DEF Updated, sol
<1> HIDE DEF h
<1>7. Results("axpby", <<Value("alpha_neg", c, k), h["mat_dir"], h["res"]>>) = <<Value("res", c, k + 1)>>
  <2>1. h["mat_dir"] = Value("mat_dir", c, k) /\ h["res"] = Value("res", c, k)
    BY <1>1, <1>5
  <2> QED
    BY <1>1, <2>1, Algorithm
<1>8. Makes(<<AxpbyBy(Value("alpha_neg", c, k), "mat_dir", "res")>>, h, Updated(f, c, k))
  BY <1>1, <1>5, <1>6, <1>7, MakesByScalar DEF AxpbyBy
<1>9. ASSUME f["alpha_neg"] = Value("alpha_neg", c, k)
      PROVE  Makes(<<Axpby("alpha_neg", "mat_dir", "res")>>, h, Updated(f, c, k))
  <2>1. h["alpha_neg"] = Value("alpha_neg", c, k)
    BY <1>5, <1>9
  <2> QED
    BY <1>1, <1>5, <1>6, <1>7, <2>1, MakesBy3 DEF Axpby
<1> QED
  BY <1>3, <1>4, <1>8, <1>9 DEF sol

\* The update of the direction.
LEMMA NextDirectionMakes ==
  ASSUME SessionInv, NEW c \in DOMAIN session.calls, NEW f, NEW k \in Nat, Memory(f),
         f[DirRes] = Value(DirRes, c, k + 1), f["dir"] = Value("dir", c, k)
  PROVE  /\ Makes(<<AxpbyBy(Value("beta", c, k + 1), DirRes, "dir")>>, f, Put(f, "dir", Value("dir", c, k + 1)))
         /\ f["tmp"] = Value("beta", c, k + 1) =>
              Makes(<<Axpby("tmp", DirRes, "dir")>>, f, Put(f, "dir", Value("dir", c, k + 1)))
<1>1. c \in Nat /\ DirRes \in Buffer /\ "dir" \in Buffer /\ "tmp" \in Buffer
  BY Views DEF Vectors, DirRes
<1>2. Results("axpby", <<Value("beta", c, k + 1), f[DirRes], f["dir"]>>) = <<Value("dir", c, k + 1)>>
  BY <1>1, Algorithm
<1>3. Makes(<<AxpbyBy(Value("beta", c, k + 1), DirRes, "dir")>>, f, Put(f, "dir", Value("dir", c, k + 1)))
  BY <1>1, <1>2, MakesByScalar DEF AxpbyBy
<1>4. ASSUME f["tmp"] = Value("beta", c, k + 1)
      PROVE  Makes(<<Axpby("tmp", DirRes, "dir")>>, f, Put(f, "dir", Value("dir", c, k + 1)))
  BY <1>1, <1>2, <1>4, MakesBy3 DEF Axpby
<1> QED
  BY <1>3, <1>4

\* DivideAndSwap.
LEMMA BetaMakes ==
  ASSUME SessionInv, NEW c \in DOMAIN session.calls, NEW f, NEW k \in Nat, Memory(f),
         f["dot_old"] = Value(DirDot, c, k), f["tmp"] = Value(DirDot, c, k + 1)
  PROVE  Makes(<<Beta>>, f, Put(Put(f, "tmp", Value("beta", c, k + 1)), "dot_old", Value(DirDot, c, k + 1)))
<1>1. c \in Nat /\ {"tmp", "dot_old"} \subseteq Buffer
  BY Views DEF Vectors
<1>2. Results("beta", <<f["dot_old"], f["tmp"]>>) = <<Value("beta", c, k + 1), Value(DirDot, c, k + 1)>>
  BY <1>1, Algorithm
<1> QED
  BY <1>1, <1>2, MakesPair DEF Beta

\* The step length of a graph.
LEMMA AlphaMakes ==
  ASSUME SessionInv, NEW c \in DOMAIN session.calls, NEW f, NEW k \in Nat, Memory(f),
         f["dot_old"] = Value(DirDot, c, k), f["tmp"] = Value("dir_dot", c, k)
  PROVE  Makes(<<Kernel("alpha", <<>>, <<"dot_old", "tmp">>, <<"alpha", "alpha_neg">>, {})>>,
               f, Put(Put(f, "alpha", Value("alpha", c, k)), "alpha_neg", Value("alpha_neg", c, k)))
<1>1. c \in Nat /\ {"tmp", "dot_old"} \subseteq Buffer
  BY Views DEF Vectors
<1>2. Results("alpha", <<f["dot_old"], f["tmp"]>>) = <<Value("alpha", c, k), Value("alpha_neg", c, k)>>
  BY <1>1, Algorithm
<1> QED
  BY <1>1, <1>2, MakesPair

-----------------------------------------------------------------------------
\* What the solver makes of the guess and the matrix.
LEMMA ResidualMakes ==
  ASSUME SessionInv, NEW c \in DOMAIN session.calls, NEW f, Given(f, c),
         f["rhs"] = Value("rhs", c, 0), f[session.calls[c].sol] = Value("sol", c, 0)
  PROVE  \E g : /\ Makes(PrecomputeResidual(session.calls[c].sol), f, g)
                /\ Solves(g, c, 0) /\ g["tmp"] = Value("res_dot", c, 0)
<1> DEFINE sol == session.calls[c].sol
           f1 == Put(f, "res", Value("rhs", c, 0))
           f2 == Put(f1, "res", Value("res", c, 0))
           g == Put(f2, "tmp", Value("res_dot", c, 0))
<1>1. /\ c \in Nat /\ Memory(f) /\ f["mat"] = Value("mat", c, 0)
      /\ {"mat", "rhs", "res", "tmp", sol} \subseteq Buffer /\ sol \notin Vectors
      /\ InverseOf(c) \in Buffer /\ InverseOf(c) \notin Vectors /\ {"mat", "rhs", "res", "tmp"} \subseteq Vectors
  BY Views DEF Given, Vectors
<1>2. Results("copy", <<f["rhs"]>>) = <<Value("rhs", c, 0)>>
  BY <1>1, Copies
<1>3. Makes(<<Copy("rhs", "res")>>, f, f1)
  BY <1>1, <1>2, MakesBy1 DEF Copy
<1>4. Memory(f1) /\ \A a \in Buffer : f1[a] = IF a = "res" THEN Value("rhs", c, 0) ELSE f[a]
  BY PutMemory
<1> HIDE DEF f1
<1>5. Results("residual", <<f1["mat"], f1[sol], f1["res"]>>) = <<Value("res", c, 0)>>
  <2>1. f1["mat"] = Value("mat", c, 0) /\ f1[sol] = Value("sol", c, 0) /\ f1["res"] = Value("rhs", c, 0)
    BY <1>1, <1>4
  <2>2. 0 \in Nat
    OBVIOUS
  <2> QED
    BY <1>1, <2>1, <2>2, Algorithm
<1> DEFINE subtract == Kernel("residual", <<>>, <<"mat", sol, "res">>, <<"res">>, {})
<1>6. Makes(<<subtract>>, f1, f2)
  BY <1>1, <1>4, <1>5, MakesBy3
<1>7. Memory(f2) /\ \A a \in Buffer : f2[a] = IF a = "res" THEN Value("res", c, 0) ELSE f1[a]
  BY PutMemory
<1> HIDE DEF f2
<1>8. Solves(f2, c, 0)
  BY <1>1, <1>4, <1>7 DEF Solves, Given
<1>9. Makes(<<Dot("A", "tmp", "res", "res")>>, f2, g)
  BY <1>8, NormMakes
<1>10. Solves(g, c, 0)
  BY <1>1, <1>8, PutSolves
<1>11. g["tmp"] = Value("res_dot", c, 0)
  BY <1>1, PutMemory
<1> HIDE DEF g
<1>12. PrecomputeResidual(sol) = <<Copy("rhs", "res"), subtract, Dot("A", "tmp", "res", "res")>>
  BY DEF PrecomputeResidual
<1> HIDE DEF subtract
<1>13. Makes(PrecomputeResidual(sol), f, g)
  BY <1>3, <1>6, <1>9, <1>12, ThreeInTurn
<1> QED
  BY <1>10, <1>11, <1>13

\* init() of the diagonal preconditioner.
LEMMA InvertMakes ==
  ASSUME SessionInv, NEW c \in DOMAIN session.calls, NEW f, Memory(f), f["mat"] = Value("mat", c, 0)
  PROVE  Makes(<<Kernel("invert", <<>>, <<"mat">>, <<InverseOf(c)>>, {})>>, f, Put(f, InverseOf(c), Value("inverse", c, 0)))
<1>1. c \in Nat /\ "mat" \in Buffer
  BY Views DEF Vectors
<1>2. Results("invert", <<f["mat"]>>) = <<Value("inverse", c, 0)>>
  BY <1>1, Copies
<1> QED
  BY <1>1, <1>2, MakesBy1

-----------------------------------------------------------------------------
(***************************************************************************)
(* What the pieces of work make, one lemma for each.                       *)
(***************************************************************************)

\* Both updates on their streams, and the norm.
MakesUpdate(work, f, c, k) ==
  /\ Sequence(work)
  /\ \E g : /\ Makes(KernelsOf(work), f, g)
            /\ Solves(g, c, k + 1) /\ g["tmp"] = Value("res_dot", c, k + 1)
            /\ g["dir"] = Value("dir", c, k)

\* Both updates and the norm, in the order in which they were enqueued.
LEMMA QueueUpdateMakes ==
  ASSUME SessionInv, NEW c \in DOMAIN session.calls, NEW f, NEW k \in Nat, Solves(f, c, k),
         f["dir"] = Value("dir", c, k), f["mat_dir"] = Value("mat_dir", c, k),
         NEW work, work = Then(InOrder("A", <<AxpbyBy(Value("alpha", c, k), "dir", session.calls[c].sol)>>), "B", {},
                               <<AxpbyBy(Value("alpha_neg", c, k), "mat_dir", "res"), Dot("B", "tmp", "res", "res")>>)
  PROVE  MakesUpdate(work, f, c, k)
<1> DEFINE one == AxpbyBy(Value("alpha", c, k), "dir", session.calls[c].sol)
           two == AxpbyBy(Value("alpha_neg", c, k), "mat_dir", "res")
           dot == Dot("B", "tmp", "res", "res")
           u == Updated(f, c, k)
           g == Put(u, "tmp", Value("res_dot", c, k + 1))
<1>1. PICK h : Makes(<<one>>, f, h) /\ Makes(<<two>>, h, u)
  BY UpdatesMake
<1>2. Solves(u, c, k + 1) /\ u["dir"] = Value("dir", c, k) /\ {"dir", "tmp"} \subseteq Buffer
  BY UpdatedSolves, Views DEF Vectors
<1>3. Makes(<<dot>>, u, g)
  BY <1>2, NormMakes
<1>4. Solves(g, c, k + 1) /\ g["tmp"] = Value("res_dot", c, k + 1) /\ g["dir"] = Value("dir", c, k)
  <2>1. Solves(g, c, k + 1)
    BY <1>2, PutSolves DEF Vectors
  <2>2. \A a \in Buffer : g[a] = IF a = "tmp" THEN Value("res_dot", c, k + 1) ELSE u[a]
    BY PutMemory
  <2> HIDE DEF g, u
  <2> QED
    BY <1>2, <2>1, <2>2
<1> HIDE DEF one, two, dot, u, g
<1>5. Makes(<<two, dot>>, h, g)
  BY <1>1, <1>3, TwoInTurn
<1>6. Sequence(<<one>>) /\ Sequence(<<two, dot>>)
  BY TupleSequences
<1>7. Sequence(InOrder("A", <<one>>)) /\ Makes(KernelsOf(InOrder("A", <<one>>)), f, h)
  BY <1>1, <1>6, InOrderMakes
<1> DEFINE ahead == InOrder("A", <<one>>)
           all == Then(ahead, "B", {}, <<two, dot>>)
<1> HIDE DEF ahead
<1>8. Sequence(all) /\ Makes(KernelsOf(all), f, g)
  BY <1>5, <1>6, <1>7, ThenMakes DEF ahead
<1>9. work = all
  BY DEF all, ahead, one, two, dot
<1> QED
  BY <1>4, <1>8, <1>9 DEF MakesUpdate

\* The preconditioned residual and its product with the residual, which goes to buffer b.
MakesDot(kernels, f, b, c, k) ==
  \E g : /\ Makes(kernels, f, g)
         /\ Solves(g, c, k) /\ g["res_p"] = Value("res_p", c, k)
         /\ g[b] = Value(DirDot, c, k) /\ g["dir"] = f["dir"]

\* The preconditioned residual, then its product with the residual.
LEMMA PreconditionedDotMakes ==
  ASSUME SessionInv, HasPrec, NEW c \in DOMAIN session.calls, NEW f, NEW k \in Nat, Solves(f, c, k),
         NEW n \in Nat, session.prec = "jacobi" => n = session.calls[c].num_sweeps,
         NEW inverse, session.prec = "diagonal" => inverse = InverseOf(c),
         NEW stream, NEW b \in {"tmp", "dot_old"}
  PROVE  MakesDot(Precondition(n, inverse) \o <<Dot(stream, b, "res_p", "res")>>, f, b, c, k)
<1> DEFINE swept == Precondition(n, inverse)
           last == <<Dot(stream, b, "res_p", "res")>>
<1>1. PICK p : Makes(swept, f, p) /\ Preconditioned(p, f, c, k)
  BY PreconditionMakes
<1>2. Sequence(swept) /\ Sequence(last)
  BY PreconditionSequence, TupleSequences DEF SessionInv
<1>3. Solves(p, c, k) /\ p["res_p"] = Value("res_p", c, k) /\ p["dir"] = f["dir"]
  <2>1. "dir" \in Buffer
    BY Views DEF Vectors
  <2> QED
    BY <1>1, <2>1, PreconditionedSolves DEF Preconditioned
<1> DEFINE g == Put(p, b, Value(DirDot, c, k))
<1>4. Makes(last, p, g)
  BY <1>3, DotMakes
<1>5. Solves(g, c, k) /\ g["res_p"] = Value("res_p", c, k) /\ g[b] = Value(DirDot, c, k) /\ g["dir"] = f["dir"]
  <2>1. Solves(g, c, k)
    BY <1>3, PutSolves DEF Vectors
  <2>2. \A a \in Buffer : g[a] = IF a = b THEN Value(DirDot, c, k) ELSE p[a]
    BY PutMemory
  <2>3. {"res_p", "dir", b} \subseteq Buffer /\ b \notin {"res_p", "dir"}
    BY Views DEF Vectors
  <2> HIDE DEF g
  <2> QED
    BY <1>3, <2>1, <2>2, <2>3
<1> HIDE DEF swept, last, g
<1>6. Makes(swept \o last, f, g) /\ Sequence(swept \o last)
  BY <1>1, <1>2, <1>4, MakesJoin, Concatenation
<1> QED
  BY <1>5, <1>6 DEF swept, last, MakesDot

\* With the first direction, in a graph variant.
MakesStart(kernels, f, c, k) ==
  \E g : Makes(kernels, f, g) /\ Solves(g, c, k) /\ g["dot_old"] = Value(DirDot, c, k) /\ g["dir"] = Value("dir", c, k)

\* What StartPCG enqueues in a graph variant.
LEMMA StartGraphMakes ==
  ASSUME SessionInv, HasPrec, NEW c \in DOMAIN session.calls, NEW f, NEW k \in Nat, Solves(f, c, k),
         NEW n \in Nat, session.prec = "jacobi" => n = session.calls[c].num_sweeps,
         NEW inverse, session.prec = "diagonal" => inverse = InverseOf(c),
         NEW kernels, kernels = Precondition(n, inverse) \o <<Dot("A", "dot_old", "res_p", "res"), Direction("res_p")>>
  PROVE  MakesStart(kernels, f, c, k)
<1> DEFINE swept == Precondition(n, inverse)
           dot == Dot("A", "dot_old", "res_p", "res")
           both == <<dot, Direction("res_p")>>
<1>1. PICK p : Makes(swept, f, p) /\ Preconditioned(p, f, c, k)
  BY PreconditionMakes
<1>2. Sequence(swept) /\ Sequence(both)
  BY PreconditionSequence, TupleSequences DEF SessionInv
<1>3. Solves(p, c, k) /\ p["res_p"] = Value("res_p", c, k)
  BY <1>1, PreconditionedSolves DEF Preconditioned
<1> DEFINE h == Put(p, "dot_old", Value(DirDot, c, k))
           g == Put(h, "dir", Value("dir", c, k))
<1>4. Makes(<<dot>>, p, h)
  BY <1>3, DotMakes
<1>5. Solves(h, c, k)
  BY <1>3, PutSolves DEF Vectors
<1>6. Memory(h) /\ \A a \in Buffer : h[a] = IF a = "dot_old" THEN Value(DirDot, c, k) ELSE p[a]
  BY PutMemory
<1>7. {"res_p", "dot_old", "dir"} \subseteq Buffer /\ DirRes = "res_p"
  BY Views DEF Vectors, DirRes
<1> HIDE DEF h
<1>8. h[DirRes] = Value(DirRes, c, k)
  BY <1>3, <1>6, <1>7
<1>9. Makes(<<Direction("res_p")>>, h, g)
  <2>1. Makes(<<Direction(DirRes)>>, h, Put(h, "dir", Value("dir", c, k)))
    BY <1>6, <1>8, DirectionMakes
  <2> QED
    BY <1>7, <2>1
<1>10. Solves(g, c, k) /\ g["dot_old"] = Value(DirDot, c, k) /\ g["dir"] = Value("dir", c, k)
  <2>1. Solves(g, c, k)
    BY <1>5, PutSolves DEF Vectors
  <2>2. \A a \in Buffer : g[a] = IF a = "dir" THEN Value("dir", c, k) ELSE h[a]
    BY PutMemory
  <2> HIDE DEF g
  <2> QED
    BY <1>6, <1>7, <2>1, <2>2
<1> HIDE DEF g, dot
<1>11. Makes(both, p, g)
  BY <1>4, <1>9, TwoInTurn
<1> HIDE DEF swept, both
<1>12. Makes(swept \o both, f, g) /\ Sequence(swept \o both)
  BY <1>1, <1>2, <1>11, MakesJoin, Concatenation
<1> QED
  BY <1>10, <1>12 DEF swept, both, dot, MakesStart

\* Where an iteration of a graph begins and ends.
Iterated(f, c, k) ==
  Solves(f, c, k) /\ f["dir"] = Value("dir", c, k) /\ f["dot_old"] = Value(DirDot, c, k)

\* The nodes up to both updates.
LEMMA GraphUpdatesMake ==
  ASSUME SessionInv, NEW c \in DOMAIN session.calls, NEW f, NEW k \in Nat, Iterated(f, c, k)
  PROVE  /\ Sequence(GraphUpdates(session.calls[c].sol))
         /\ \E g : /\ Makes(KernelsOf(GraphUpdates(session.calls[c].sol)), f, g)
                   /\ Solves(g, c, k + 1) /\ g["dir"] = Value("dir", c, k) /\ g["dot_old"] = Value(DirDot, c, k)
<1> DEFINE sol == session.calls[c].sol
           dot == Dot("A", "tmp", "dir", "mat_dir")
           divide == Kernel("alpha", <<>>, <<"dot_old", "tmp">>, <<"alpha", "alpha_neg">>, {})
           three == <<Spmv, dot, divide>>
           one == <<Axpby("alpha", "dir", sol)>>
           last == <<Axpby("alpha_neg", "mat_dir", "res")>>
           alpha == Then(<<>>, "A", {}, three)
           solved == Then(alpha, "A", {3}, one)
           all == Then(solved, "A", {3}, last)
           f1 == Put(f, "mat_dir", Value("mat_dir", c, k))
           f2 == Put(f1, "tmp", Value("dir_dot", c, k))
           f3 == Put(f2, "alpha", Value("alpha", c, k))
           f4 == Put(f3, "alpha_neg", Value("alpha_neg", c, k))
           g == Updated(f4, c, k)
<1>1. {"mat_dir", "tmp", "alpha", "alpha_neg", "dir", "dot_old"} \subseteq Buffer
  BY Views DEF Vectors
<1>2. Makes(<<Spmv, dot>>, f, f2)
  BY ProductMakes DEF Iterated, Product
<1>3. Solves(f4, c, k)
  <2>1. Solves(f1, c, k)
    BY PutSolves DEF Iterated, Vectors
  <2> HIDE DEF f1
  <2>2. Solves(f2, c, k)
    BY <2>1, PutSolves DEF Vectors
  <2> HIDE DEF f2
  <2>3. Solves(f3, c, k)
    BY <2>2, PutSolves DEF Vectors
  <2> HIDE DEF f3
  <2> QED
    BY <2>3, PutSolves DEF Vectors
<1>4. /\ Memory(f2) /\ f2["tmp"] = Value("dir_dot", c, k) /\ f2["dot_old"] = Value(DirDot, c, k)
      /\ f4["dir"] = Value("dir", c, k) /\ f4["mat_dir"] = Value("mat_dir", c, k)
      /\ f4["alpha"] = Value("alpha", c, k) /\ f4["alpha_neg"] = Value("alpha_neg", c, k)
      /\ f4["dot_old"] = Value(DirDot, c, k)
  <2>1. f["dir"] = Value("dir", c, k) /\ f["dot_old"] = Value(DirDot, c, k)
    BY DEF Iterated
  <2>2. \A a \in Buffer : f1[a] = IF a = "mat_dir" THEN Value("mat_dir", c, k) ELSE f[a]
    BY PutMemory
  <2> HIDE DEF f1
  <2>3. Memory(f2) /\ \A a \in Buffer : f2[a] = IF a = "tmp" THEN Value("dir_dot", c, k) ELSE f1[a]
    BY PutMemory
  <2> HIDE DEF f2
  <2>4. \A a \in Buffer : f3[a] = IF a = "alpha" THEN Value("alpha", c, k) ELSE f2[a]
    BY PutMemory
  <2> HIDE DEF f3
  <2>5. \A a \in Buffer : f4[a] = IF a = "alpha_neg" THEN Value("alpha_neg", c, k) ELSE f3[a]
    BY PutMemory
  <2> HIDE DEF f4
  <2> QED
    BY <1>1, <2>1, <2>2, <2>3, <2>4, <2>5
<1> HIDE DEF f1, f2
<1>5. Makes(<<divide>>, f2, f4)
  BY <1>4, AlphaMakes
<1> HIDE DEF f3, f4
<1>6. PICK h : Makes(one, f4, h) /\ Makes(last, h, g)
  BY <1>3, <1>4, UpdatesMake
<1>7. Solves(g, c, k + 1) /\ g["dir"] = Value("dir", c, k) /\ g["dot_old"] = Value(DirDot, c, k)
  BY <1>3, <1>4, UpdatedSolves DEF Vectors
<1>8. Sequence(three) /\ Sequence(one) /\ Sequence(last) /\ Sequence(<<Spmv, dot>>) /\ Sequence(<<divide>>)
  BY TupleSequences
<1>9. Makes(three, f, f4)
  <2>1. <<Spmv, dot>> \o <<divide>> = three
    BY JoinedTuples
  <2> HIDE DEF dot, divide
  <2>2. Makes(<<Spmv, dot>> \o <<divide>>, f, f4)
    BY <1>2, <1>5, <1>8, MakesJoin
  <2> QED
    BY <2>1, <2>2
<1>10. GraphUpdates(sol) = all
  BY DEF GraphUpdates
<1> HIDE DEF three, one, last, g, sol
<1>11. Sequence(alpha) /\ Makes(KernelsOf(alpha), f, f4)
  <2>1. alpha = InOrder("A", three)
    BY DEF InOrder
  <2> HIDE DEF alpha
  <2> QED
    BY <1>8, <1>9, <2>1, InOrderMakes
<1> HIDE DEF alpha
<1>12. Sequence(solved) /\ Makes(KernelsOf(solved), f, h)
  BY <1>6, <1>8, <1>11, ThenMakes
<1> HIDE DEF solved
<1>13. Sequence(all) /\ Makes(KernelsOf(all), f, g)
  BY <1>6, <1>8, <1>12, ThenMakes
<1> QED
  BY <1>7, <1>10, <1>13 DEF sol

\* The end of an iteration of a graph: beta and the new direction.
LEMMA TurnMakes ==
  ASSUME SessionInv, NEW c \in DOMAIN session.calls, NEW f, NEW k \in Nat, Solves(f, c, k + 1),
         f["dir"] = Value("dir", c, k), f["dot_old"] = Value(DirDot, c, k),
         f["tmp"] = Value(DirDot, c, k + 1), f[DirRes] = Value(DirRes, c, k + 1)
  PROVE  \E h, g : /\ Makes(<<Beta>>, f, h) /\ Makes(<<Axpby("tmp", DirRes, "dir")>>, h, g)
                   /\ Iterated(g, c, k + 1) /\ g["res_dot"] = f["res_dot"]
<1> DEFINE h1 == Put(f, "tmp", Value("beta", c, k + 1))
           h == Put(h1, "dot_old", Value(DirDot, c, k + 1))
           g == Put(h, "dir", Value("dir", c, k + 1))
<1>1. /\ {"dir", "dot_old", "tmp", "res_dot", DirRes} \subseteq Buffer
      /\ DirRes \notin {"dir", "dot_old", "tmp"} /\ Memory(f)
  BY Views DEF Vectors, DirRes, Solves, Given
<1>2. Makes(<<Beta>>, f, h)
  BY <1>1, BetaMakes
<1>3. \A a \in Buffer : h1[a] = IF a = "tmp" THEN Value("beta", c, k + 1) ELSE f[a]
  BY PutMemory
<1>4. Solves(h1, c, k + 1)
  BY PutSolves DEF Vectors
<1> HIDE DEF h1
<1>5. Memory(h) /\ \A a \in Buffer : h[a] = IF a = "dot_old" THEN Value(DirDot, c, k + 1) ELSE h1[a]
  BY PutMemory
<1>6. Solves(h, c, k + 1)
  BY <1>4, PutSolves DEF Vectors
<1> HIDE DEF h
<1>7. h[DirRes] = Value(DirRes, c, k + 1) /\ h["dir"] = Value("dir", c, k) /\ h["tmp"] = Value("beta", c, k + 1)
  BY <1>1, <1>3, <1>5
<1>8. Makes(<<Axpby("tmp", DirRes, "dir")>>, h, g)
  BY <1>5, <1>7, NextDirectionMakes
<1>9. \A a \in Buffer : g[a] = IF a = "dir" THEN Value("dir", c, k + 1) ELSE h[a]
  BY PutMemory
<1>10. Solves(g, c, k + 1)
  BY <1>6, PutSolves DEF Vectors
<1> HIDE DEF g
<1>11. g["dir"] = Value("dir", c, k + 1) /\ g["dot_old"] = Value(DirDot, c, k + 1) /\ g["res_dot"] = f["res_dot"]
  BY <1>1, <1>3, <1>5, <1>9
<1> QED
  BY <1>2, <1>8, <1>10, <1>11 DEF Iterated

\* An iteration of a graph.
MakesIteration(work, f, c, k) ==
  /\ Sequence(work)
  /\ \E g : /\ Makes(KernelsOf(work), f, g) /\ Iterated(g, c, k + 1)
            /\ HasPrec => g["res_dot"] = Value("res_dot", c, k + 1)

\* The graph of CGGraph makes the next iterate.
LEMMA CGGraphMakes ==
  ASSUME SessionInv, ~HasPrec, NEW c \in DOMAIN session.calls, NEW f, NEW k \in Nat, Iterated(f, c, k)
  PROVE  MakesIteration(CGGraphWork(session.calls[c].sol), f, c, k)
<1> DEFINE sol == session.calls[c].sol
           begun == GraphUpdates(sol)
           dot == Dot("A", "tmp", "res", "res")
           two == <<dot, Beta>>
           beta == Then(begun, "A", {5}, two)
           one == <<Axpby("tmp", "res", "dir")>>
           all == Then(beta, "A", {4, Len(beta)}, one)
<1>1. Sequence(begun)
  BY GraphUpdatesMake
<1>2. PICK u : /\ Makes(KernelsOf(begun), f, u)
               /\ Solves(u, c, k + 1) /\ u["dir"] = Value("dir", c, k) /\ u["dot_old"] = Value(DirDot, c, k)
  BY GraphUpdatesMake
<1> DEFINE v == Put(u, "tmp", Value("res_dot", c, k + 1))
<1>3. Makes(<<dot>>, u, v)
  BY <1>2, NormMakes
<1>4. /\ {"dir", "dot_old", "tmp", "res"} \subseteq Buffer
      /\ DirRes = "res" /\ DirDot = "res_dot"
  BY Views DEF Vectors, DirRes, DirDot
<1>5. Solves(v, c, k + 1)
  BY <1>2, PutSolves DEF Vectors
<1>6. /\ v["dir"] = Value("dir", c, k) /\ v["dot_old"] = Value(DirDot, c, k)
      /\ v["tmp"] = Value(DirDot, c, k + 1) /\ v[DirRes] = Value(DirRes, c, k + 1)
  <2>1. \A a \in Buffer : v[a] = IF a = "tmp" THEN Value("res_dot", c, k + 1) ELSE u[a]
    BY PutMemory
  <2>2. u["res"] = Value("res", c, k + 1)
    BY <1>2 DEF Solves
  <2> HIDE DEF v
  <2> QED
    BY <1>2, <1>4, <2>1, <2>2
<1> HIDE DEF v
<1>7. PICK h, g : /\ Makes(<<Beta>>, v, h) /\ Makes(<<Axpby("tmp", DirRes, "dir")>>, h, g)
                  /\ Iterated(g, c, k + 1)
  BY <1>5, <1>6, TurnMakes
<1>8. Sequence(two) /\ Sequence(one)
  BY TupleSequences
<1>9. all = CGGraphWork(sol)
  BY DEF CGGraphWork
<1>10. Makes(one, h, g)
  BY <1>4, <1>7
<1> HIDE DEF begun, dot, one, all, sol
<1>11. Makes(two, u, h)
  BY <1>3, <1>7, TwoInTurn
<1> HIDE DEF two
<1>12. Sequence(beta) /\ Makes(KernelsOf(beta), f, h)
  BY <1>1, <1>2, <1>8, <1>11, ThenMakes
<1> HIDE DEF beta
<1>13. Sequence(all) /\ Makes(KernelsOf(all), f, g)
  BY <1>8, <1>10, <1>12, ThenMakes DEF all
<1> QED
  BY <1>7, <1>9, <1>13 DEF sol, MakesIteration

\* So does the graph of PCGGraph.
LEMMA PCGGraphMakes ==
  ASSUME SessionInv, HasPrec, NEW c \in DOMAIN session.calls, NEW f, NEW k \in Nat, Iterated(f, c, k),
         NEW n \in Nat, session.prec = "jacobi" => n = session.calls[c].num_sweeps,
         NEW inverse, session.prec = "diagonal" => inverse = InverseOf(c)
  PROVE  MakesIteration(PCGGraphWork(session.calls[c].sol, n, inverse), f, c, k)
<1> DEFINE sol == session.calls[c].sol
           begun == GraphUpdates(sol)
           first == <<Dot("A", "res_dot", "res", "res")>>
           norm == Then(begun, "A", {5}, first)
           swept == Precondition(n, inverse)
           prec == Then(norm, "A", {5}, swept)
           dot == Dot("A", "tmp", "res_p", "res")
           two == <<dot, Beta>>
           beta == Then(prec, "A", Serialized({Len(prec)}, Len(norm)), two)
           one == <<Axpby("tmp", "res_p", "dir")>>
           all == Then(beta, "A", {4, Len(beta)}, one)
<1>1. Sequence(begun)
  BY GraphUpdatesMake
<1>2. PICK u : /\ Makes(KernelsOf(begun), f, u)
               /\ Solves(u, c, k + 1) /\ u["dir"] = Value("dir", c, k) /\ u["dot_old"] = Value(DirDot, c, k)
  BY GraphUpdatesMake
<1> DEFINE r == Put(u, "res_dot", Value("res_dot", c, k + 1))
<1>3. Makes(first, u, r)
  BY <1>2, NormMakes
<1>4. /\ {"dir", "dot_old", "tmp", "res_p", "res_dot"} \subseteq Buffer
      /\ DirRes = "res_p"
  BY Views DEF Vectors, DirRes
<1>5. Solves(r, c, k + 1)
  BY <1>2, PutSolves DEF Vectors
<1>6. \A a \in Buffer : r[a] = IF a = "res_dot" THEN Value("res_dot", c, k + 1) ELSE u[a]
  BY PutMemory
<1> HIDE DEF r
<1>7. PICK p : Makes(swept, r, p) /\ Preconditioned(p, r, c, k + 1)
  BY <1>5, PreconditionMakes
<1>8. Solves(p, c, k + 1)
  BY <1>5, <1>7, PreconditionedSolves
<1>9. /\ p["res_p"] = Value("res_p", c, k + 1) /\ p["res_dot"] = Value("res_dot", c, k + 1)
      /\ p["dir"] = Value("dir", c, k) /\ p["dot_old"] = Value(DirDot, c, k)
  BY <1>2, <1>4, <1>6, <1>7 DEF Preconditioned
<1> DEFINE v == Put(p, "tmp", Value(DirDot, c, k + 1))
<1>10. Makes(<<dot>>, p, v)
  BY <1>8, <1>9, DotMakes
<1>11. Solves(v, c, k + 1)
  BY <1>8, PutSolves DEF Vectors
<1>12. /\ v["dir"] = Value("dir", c, k) /\ v["dot_old"] = Value(DirDot, c, k)
       /\ v["tmp"] = Value(DirDot, c, k + 1) /\ v[DirRes] = Value(DirRes, c, k + 1)
       /\ v["res_dot"] = Value("res_dot", c, k + 1)
  <2>1. \A a \in Buffer : v[a] = IF a = "tmp" THEN Value(DirDot, c, k + 1) ELSE p[a]
    BY PutMemory
  <2> HIDE DEF v
  <2> QED
    BY <1>4, <1>9, <2>1
<1> HIDE DEF v
<1>13. PICK h, g : /\ Makes(<<Beta>>, v, h) /\ Makes(<<Axpby("tmp", DirRes, "dir")>>, h, g)
                   /\ Iterated(g, c, k + 1) /\ g["res_dot"] = v["res_dot"]
  BY <1>11, <1>12, TurnMakes
<1>14. Sequence(first) /\ Sequence(swept) /\ Sequence(two) /\ Sequence(one)
  BY TupleSequences, PreconditionSequence DEF SessionInv
<1>15. all = PCGGraphWork(sol, n, inverse)
  BY DEF PCGGraphWork
<1>16. Makes(one, h, g)
  BY <1>4, <1>13
<1> HIDE DEF begun, first, swept, dot, one, all, sol
<1>17. Makes(two, p, h)
  BY <1>10, <1>13, TwoInTurn
<1> HIDE DEF two
<1>18. Sequence(norm) /\ Makes(KernelsOf(norm), f, r)
  BY <1>1, <1>2, <1>3, <1>14, ThenMakes
<1> DEFINE last == Len(norm)
<1> HIDE DEF norm, last
<1>19. Sequence(prec) /\ Makes(KernelsOf(prec), f, p)
  BY <1>7, <1>14, <1>18, ThenMakes
<1> HIDE DEF prec
<1>20. Sequence(beta) /\ Makes(KernelsOf(beta), f, h)
  BY <1>14, <1>17, <1>19, ThenMakes
<1> HIDE DEF beta
<1>21. Sequence(all) /\ Makes(KernelsOf(all), f, g)
  BY <1>14, <1>16, <1>20, ThenMakes DEF all
<1> QED
  BY <1>12, <1>13, <1>15, <1>21 DEF sol, MakesIteration

\* What apply() enqueues first.
MakesGuess(kernels, f, c) ==
  \E g : Makes(kernels, f, g) /\ Solves(g, c, 0) /\ g["tmp"] = Value("res_dot", c, 0)

\* The residual of the guess and its norm.
LEMMA BeginMakes ==
  ASSUME SessionInv, NEW c \in DOMAIN session.calls, NEW f, Memory(f), f["mat"] = Value("mat", c, 0),
         f["rhs"] = Value("rhs", c, 0), f[session.calls[c].sol] = Value("sol", c, 0),
         session.prec = "diagonal" /\ ~session.calls[c].invert => f[InverseOf(c)] = Value("inverse", c, 0),
         NEW kernels, kernels = (IF session.calls[c].invert
                                   THEN <<Kernel("invert", <<>>, <<"mat">>, <<InverseOf(c)>>, {})>> ELSE <<>>)
                                \o PrecomputeResidual(session.calls[c].sol)
  PROVE  Sequence(kernels) /\ MakesGuess(kernels, f, c)
<1> DEFINE invert == <<Kernel("invert", <<>>, <<"mat">>, <<InverseOf(c)>>, {})>>
           rest == PrecomputeResidual(session.calls[c].sol)
<1>1. Sequence(invert) /\ Sequence(<<>>)
  BY TupleSequences
<1>2. Sequence(rest)
  BY TupleSequences DEF PrecomputeResidual
<1>3. CASE session.calls[c].invert
  <2> DEFINE h == Put(f, InverseOf(c), Value("inverse", c, 0))
  <2>1. Makes(invert, f, h)
    BY InvertMakes
  <2>2. Memory(h) /\ \A a \in Buffer : h[a] = IF a = InverseOf(c) THEN Value("inverse", c, 0) ELSE f[a]
    BY PutMemory
  <2>3. /\ {"mat", "rhs", session.calls[c].sol, InverseOf(c)} \subseteq Buffer
        /\ InverseOf(c) \notin {"mat", "rhs", session.calls[c].sol}
    BY Views DEF Vectors
  <2> HIDE DEF h
  <2>4. Given(h, c) /\ h["rhs"] = Value("rhs", c, 0) /\ h[session.calls[c].sol] = Value("sol", c, 0)
    BY <2>2, <2>3 DEF Given
  <2>5. PICK g : Makes(rest, h, g) /\ Solves(g, c, 0) /\ g["tmp"] = Value("res_dot", c, 0)
    BY <2>4, ResidualMakes
  <2>6. kernels = invert \o rest
    BY <1>3
  <2> HIDE DEF invert, rest
  <2> QED
    BY <1>1, <1>2, <2>1, <2>5, <2>6, MakesJoin, Concatenation DEF MakesGuess
<1>4. CASE ~session.calls[c].invert
  <2>1. Given(f, c)
    BY <1>4 DEF Given
  <2>2. PICK g : Makes(rest, f, g) /\ Solves(g, c, 0) /\ g["tmp"] = Value("res_dot", c, 0)
    BY <2>1, ResidualMakes
  <2> HIDE DEF rest
  <2>3. <<>> \o rest = rest
    BY <1>2, ConcatEmptySeq DEF Sequence
  <2>4. kernels = rest
    BY <1>4, <2>3 DEF rest
  <2> QED
    BY <1>2, <2>2, <2>4 DEF MakesGuess
<1> QED
  BY <1>3, <1>4

-----------------------------------------------------------------------------
(***************************************************************************)
(* What a call computes. The kernels in flight will leave the iterate that *)
(* the host thread counts on (Holds): each place of apply() says which     *)
(* quantities it finds in memory when the kernels before it have run.      *)
(***************************************************************************)

\* What the solvers support: the diagonal preconditioner is told of every new matrix
\* (init() of its constructor, or the caller's); a graph makes an iteration whatever the
\* caller asks for, and the one that is kept is the same in every call.
Suited ==
  /\ session.calls # <<>>
  /\ session.prec = "diagonal" =>
       \A c \in DOMAIN session.calls : session.calls[c].invert \/ (c > 1 /\ session.calls[c].keeps)
  /\ session.graph => \A c \in DOMAIN session.calls :
       LET asked == session.calls[c]
       IN IF asked.first = 0 THEN ~asked.tie ELSE asked.max_iters > 0
  /\ session.graph /\ HasPrec => \A c, d \in DOMAIN session.calls :
       /\ session.calls[c].sol = session.calls[d].sol
       /\ session.prec = "jacobi" => session.calls[c].num_sweeps = session.calls[d].num_sweeps
       /\ session.prec = "diagonal" => InverseOf(c) = InverseOf(d)

\* The graph that was built, if any, is one for this call.
GraphFits ==
  /\ graph.sol = Request.sol
  /\ session.prec = "jacobi" => graph.num_sweeps = Request.num_sweeps
  /\ session.prec = "diagonal" => graph.inverse = InverseOf(call)

\* Iterations of which both updates were enqueued.
Made == IF pc \in {"norm", "next"} THEN iter + 1 ELSE iter

\* What the host thread keeps of iterate k.
NormKept(k) == res_nrm2 = Value("res_dot", call, k)
DotKept(k) == res_dot_old = Value(DirDot, call, k)

\* One more iteration is wanted after k.
Wants(k) == k < Request.first /\ k < Request.max_iters

\* What memory `final`, which the kernels in flight leave, holds at the place where the
\* host thread is.
Holds(final) ==
  LET Has(b, what, k) == final[b] = Value(what, call, k)
  IN /\ pc # "idle" => Solves(final, call, Made)
     /\ pc = "guess" => Has("tmp", "res_dot", 0)
     /\ pc = "residuals" => Has("res_p", "res_p", 0) /\ Has("tmp", DirDot, 0)
     /\ pc = "submit" \/ (pc = "loop" /\ session.graph) \/ pc = "evaluate" => Iterated(final, call, iter)
     /\ pc = "evaluate" /\ HasPrec => Has("res_dot", "res_dot", iter)
     /\ pc = "loop" /\ ~session.graph /\ iter < Request.first => Has("dir", "dir", iter)
     /\ pc = "quadratic" =>
          Has("dir", "dir", iter) /\ Has("mat_dir", "mat_dir", iter) /\ Has("tmp", "dir_dot", iter)
     /\ pc = "norm" => Has("tmp", "res_dot", iter + 1) /\ Has("dir", "dir", iter)
     /\ pc = "next" =>
          Has("tmp", DirDot, iter + 1) /\ Has("dir", "dir", iter) /\ Has("res_p", "res_p", iter + 1)
     /\ pc = "idle" /\ call # 0 =>
          Given(final, call) /\ Has(Request.sol, "sol", iter)

\* What the host thread knows there.
HostInv ==
  /\ iter \in Nat
  /\ pc \in {"guess", "residuals", "submit"} => iter = 0
  /\ pc = "submit" \/ (pc \in {"quadratic", "norm", "next"}) => Wants(iter)
  /\ pc \in {"residuals", "next"} => HasPrec
  /\ pc \in {"residuals", "submit", "loop", "quadratic"} => NormKept(iter)
  /\ pc = "next" => NormKept(iter + 1) /\ iter + 1 < Request.first
  /\ (pc = "loop" /\ ~session.graph /\ iter < Request.first) \/ (pc \in {"quadratic", "norm", "next"}) =>
       DotKept(iter)
  /\ session.graph /\ call # 0 => graph = NoGraph \/ GraphFits
  /\ session.graph /\ pc \in {"evaluate", "loop"} => GraphFits
  /\ IF pc # "idle" THEN reported = -1
     ELSE IF call = 0 THEN reported = 0 /\ graph = NoGraph
          ELSE reported = iter /\ NormKept(iter)

\* At most one kernel is about to write the solution, with the last iterate wanted.
SolutionInv ==
  call # 0 =>
    LET writers == {t \in pending : Request.sol \in Range(t.kernel.out)}
    IN /\ \A t, u \in writers : t = u
       /\ writers # {} => /\ Made > 0 /\ Wants(Made - 1)
                          /\ mem[Request.sol] = Value("sol", call, Made - 1)

\* What the call that is being made computes.
ResultInv == Suited /\ HostInv /\ SolutionInv /\ \E final : Leaves(final) /\ Holds(final)

-----------------------------------------------------------------------------

\* The calls and the algorithm stay.
LEMMA SessionKept ==
  ASSUME [Next]_vars
  PROVE  session' = session
BY DEF Next, Solve, BeginApply, ReturnGuess, StartCG, StartPCG, StartPCGQueue, QueueProduct,
   QueueUpdate, QueueConverged, CGQueueNext, PCGQueuePrecondition, PCGQueueNext, QueueReturn,
   SubmitFirst, SubmitAgain, SubmitGraph, EvaluateConvergence, GraphReturn, Go, RunOne,
   Terminated, vars, hostVars

\* What memory holds does not depend on what the host thread does.
LEMMA SolvesKept ==
  ASSUME session' = session, NEW f, NEW c, NEW k
  PROVE  /\ Given(f, c)' = Given(f, c)
         /\ Solves(f, c, k)' = Solves(f, c, k)
         /\ Iterated(f, c, k)' = Iterated(f, c, k)
<1>1. DirDot' = DirDot
  BY DEF DirDot, HasPrec
<1> QED
  BY <1>1, ValueKept DEF Iterated, Solves, Given, InverseOf

\* Nor do the quantities that make directions.
LEMMA DirKept ==
  ASSUME session' = session
  PROVE  HasPrec' = HasPrec /\ DirDot' = DirDot /\ DirRes' = DirRes
BY DEF DirDot, DirRes, HasPrec

\* Nor does what the session asks for.
LEMMA SuitedKept ==
  ASSUME session' = session, Suited
  PROVE  Suited'
<1>1. HasPrec' = HasPrec /\ \A c : InverseOf(c)' = InverseOf(c)
  BY DEF HasPrec, InverseOf
<1> QED
  BY <1>1 DEF Suited

-----------------------------------------------------------------------------

\* Kernels have numbers of their own.
LEMMA InNumber ==
  ASSUME QueueInv, GraphInv
  PROVE  Numbered
BY DEF QueueInv, GraphInv, StreamOrder, PathOrder

\* The sides of an iteration do not collide.
LEMMA SidesOrdered ==
  ASSUME NEW k, NEW l, SolutionSide(k), ResidualSide(l)
  PROVE  ~Collide(k, l) /\ ~Collide(l, k)
<1>1. {"dir", "alpha"} \cap Solutions = {}
  BY BuffersAssumption DEF Vectors
<1> QED
  BY <1>1 DEF SolutionSide, ResidualSide, Collide

\* A kernel that may run does not collide with an earlier one.
LEMMA KernelsOrdered ==
  ASSUME StreamsInv, QueueInv, GraphInv
  PROVE  Ordered
<1> SUFFICES ASSUME NEW t \in pending, NEW u \in pending, u.id < t.id, Ready(t)
             PROVE  ~Collide(u.kernel, t.kernel)
  BY DEF Ordered
<1>1. CASE session.graph
  BY <1>1, PathsInOrder DEF GraphInv
<1>2. CASE ~session.graph
  <2>1. StreamOrder /\ SidesInv
    BY <1>2 DEF QueueInv
  <2>2. t.stream # u.stream
    BY <2>1 DEF StreamOrder, Ready
  <2>3. pc \in {"norm", "next"} /\ {t.stream, u.stream} = {"A", "B"}
    BY <2>2 DEF StreamsInv, InFlightOn, Busy
  <2>4. \/ SolutionSide(t.kernel) /\ ResidualSide(u.kernel)
        \/ SolutionSide(u.kernel) /\ ResidualSide(t.kernel)
    BY <2>1, <2>3 DEF SidesInv
  <2> QED
    BY <2>4, SidesOrdered
<1> QED
  BY <1>1, <1>2

-----------------------------------------------------------------------------
(***************************************************************************)
(* What the host thread sees behind a fence.                               *)
(***************************************************************************)

\* When nothing is in flight, memory holds all of it.
LEMMA AllSeen ==
  ASSUME Numbered, ResultInv, pending = {}
  PROVE  Leaves(mem) /\ Holds(mem)
BY NothingLeft DEF ResultInv

\* When the second stream is fenced, the reduction on it has run.
LEMMA DotSeen ==
  ASSUME StreamsInv, QueueInv, Numbered, NEW final, Leaves(final), pc \in {"norm", "next"}, Fenced("B")
  PROVE  final["tmp"] = mem["tmp"]
<1>1. ~session.graph /\ SidesInv
  BY DEF StreamsInv, PlacesInv, QueueInv
<1>2. \A t \in pending : SolutionSide(t.kernel)
  BY <1>1 DEF Fenced, StreamsInv, InFlightOn, Busy, SidesInv
<1>3. "tmp" \in Buffer /\ "tmp" \notin Solutions
  BY BuffersAssumption DEF Vectors, Buffer
<1>4. \A t \in pending : "tmp" \notin Range(t.kernel.out)
  BY <1>2, <1>3 DEF SolutionSide
<1> QED
  BY <1>3, <1>4, LeftAlone

-----------------------------------------------------------------------------
(***************************************************************************)
(* The kernels that write the solution.                                    *)
(***************************************************************************)

Aside(k) == Range(k.out) \cap Solutions = {}

\* Work of which all kernels but number n leave the solution alone.
LEMMA ThenAside ==
  ASSUME NEW work, Sequence(work), NEW n \in Nat, \A i \in DOMAIN work : i # n => Aside(work[i].kernel),
         NEW stream, NEW from, NEW kernels, Sequence(kernels),
         \A i \in DOMAIN kernels : Len(work) + i # n => Aside(kernels[i])
  PROVE  LET w == Then(work, stream, from, kernels)
         IN /\ Sequence(w) /\ Len(w) = Len(work) + Len(kernels)
            /\ \A i \in DOMAIN w : i # n => Aside(w[i].kernel)
<1> DEFINE w == Then(work, stream, from, kernels)
<1>1. Chained(w, work, stream, from, kernels)
  BY ThenIs
<1>2. /\ DOMAIN work = 1 .. Len(work) /\ Len(work) \in Nat
      /\ DOMAIN kernels = 1 .. Len(kernels) /\ Len(kernels) \in Nat
  BY SequenceDomain
<1> HIDE DEF w
<1>3. Sequence(w) /\ Len(w) = Len(work) + Len(kernels)
  BY <1>1 DEF Chained
<1>4. DOMAIN w = 1 .. (Len(work) + Len(kernels))
  BY <1>3, SequenceDomain
<1>5. ASSUME NEW i \in DOMAIN w, i # n
      PROVE  Aside(w[i].kernel)
  <2>1. CASE i \in 1 .. Len(work)
    <3>1. w[i] = work[i]
      BY <1>1, <2>1 DEF Chained
    <3> QED
      BY <1>2, <1>5, <2>1, <3>1
  <2>2. CASE i \notin 1 .. Len(work)
    <3> DEFINE j == i - Len(work)
    <3>1. j \in 1 .. Len(kernels) /\ i = Len(work) + j
      BY <1>2, <1>4, <2>2
    <3> HIDE DEF j
    <3>2. w[i] = Entry(kernels[j], stream, IF j = 1 THEN from ELSE {Len(work) + j - 1})
      BY <1>1, <3>1 DEF Chained
    <3> QED
      BY <1>2, <1>5, <3>1, <3>2 DEF Entry
  <2> QED
    BY <2>1, <2>2
<1>6. Sequence(w) /\ Len(w) = Len(work) + Len(kernels) /\ \A i \in DOMAIN w : i # n => Aside(w[i].kernel)
  BY <1>3, <1>5
<1> QED
  BY <1>6 DEF w

\* A chain of kernels that leave it alone.
LEMMA InOrderAside ==
  ASSUME NEW stream, NEW kernels, Sequence(kernels), \A k \in Range(kernels) : Aside(k)
  PROVE  /\ Sequence(InOrder(stream, kernels))
         /\ \A w \in Range(InOrder(stream, kernels)) : Aside(w.kernel)
<1>1. /\ Sequence(InOrder(stream, kernels))
      /\ \A w \in Range(InOrder(stream, kernels)) : w.stream = stream /\ w.kernel \in Range(kernels)
  BY InOrderElements
<1> QED
  BY <1>1

\* The solution is left to the kernel that is about to write it, if there is one.
LEMMA EnqueueAside ==
  ASSUME SessionInv, SolutionInv, session' = session, call' = call, call \in DOMAIN session.calls,
         NEW work, Sequence(work), \A w \in Range(work) : Aside(w.kernel), Enqueue(work),
         mem'[Request.sol] = mem[Request.sol], Made' = Made
  PROVE  SolutionInv'
<1>1. Request' = Request /\ Request.sol \in Solutions /\ call # 0
  BY RequestType, Views DEF Request
<1>2. \A t \in pending' : Request.sol \in Range(t.kernel.out) => t \in pending
  <2> TAKE t \in pending'
  <2>1. t \in pending \/ \E w \in Range(work) : t.kernel = w.kernel
    BY EnqueuedElements
  <2> QED
    BY <1>1, <2>1 DEF Aside
<1>3. Value("sol", call, Made - 1)' = Value("sol", call, Made - 1)
  BY ValueKept
<1>4. \A k : Wants(k)' = Wants(k)
  BY <1>1 DEF Wants
<1> QED
  BY <1>1, <1>2, <1>3, <1>4 DEF SolutionInv

\* One kernel is enqueued that writes it.
LEMMA EnqueueOneWriter ==
  ASSUME SessionInv, session' = session, call' = call, call \in DOMAIN session.calls,
         NEW work, Sequence(work), NEW n, \A i \in DOMAIN work : i # n => Aside(work[i].kernel),
         Enqueue(work), \A t \in pending : Request.sol \notin Range(t.kernel.out), mem' = mem,
         NEW k \in Nat, Made' = k + 1, Wants(k),
         mem[Request.sol] = Value("sol", call, k)
  PROVE  SolutionInv'
<1>1. Request' = Request /\ Request.sol \in Solutions /\ call # 0
  BY RequestType, Views DEF Request
<1>2. PICK new \in [DOMAIN work -> pending'] :
        /\ pending' = pending \cup {new[i] : i \in DOMAIN work}
        /\ \A i \in DOMAIN work : new[i].kernel = work[i].kernel
  BY EnqueuedAre
<1>3. \A t \in pending' : Request.sol \in Range(t.kernel.out) => t = new[n]
  BY <1>1, <1>2 DEF Aside
<1>4. Value("sol", call, Made - 1)' = Value("sol", call, k) /\ Wants(Made - 1)' /\ Made' > 0
  <2>1. Made' - 1 = k
    OBVIOUS
  <2> QED
    BY <1>1, <2>1, ValueKept DEF Wants
<1> QED
  BY <1>1, <1>3, <1>4 DEF SolutionInv

\* Nothing is in flight, or nothing is enqueued.
LEMMA NoWriter ==
  ASSUME pending' = {}
  PROVE  SolutionInv'
BY DEF SolutionInv

\* The host thread goes on.
LEMMA SameWriter ==
  ASSUME SolutionInv, session' = session, call' = call, UNCHANGED deviceVars, Made' = Made
  PROVE  SolutionInv'
<1>1. Request' = Request
  BY DEF Request
<1>2. Value("sol", call, Made - 1)' = Value("sol", call, Made - 1)
  BY ValueKept
<1>3. \A k : Wants(k)' = Wants(k)
  BY <1>1 DEF Wants
<1> QED
  BY <1>1, <1>2, <1>3 DEF SolutionInv, deviceVars

-----------------------------------------------------------------------------
(***************************************************************************)
(* No step breaks it, one lemma for each action.                           *)
(***************************************************************************)

\* What will be left does not depend on the host thread.
LEMMA LeavesStay ==
  ASSUME UNCHANGED deviceVars, session' = session, NEW final, Leaves(final)
  PROVE  Leaves(final)'
<1>1. PICK M : Serially(M, mem, pending, issued) /\ M[issued] = final
  BY DEF Leaves
<1>2. Serially(M, mem', pending', issued') /\ M[issued'] = final
  BY <1>1 DEF deviceVars
<1> QED
  BY <1>2, LeavesNext

\* The device works on its own.
LEMMA HostStays ==
  ASSUME UNCHANGED hostVars
  PROVE  /\ HostInv => HostInv'
         /\ \A final : Holds(final)' = Holds(final)
<1>1. /\ session' = session /\ call' = call /\ pc' = pc /\ iter' = iter /\ res_nrm2' = res_nrm2
      /\ res_dot_old' = res_dot_old /\ graph' = graph /\ reported' = reported
  BY DEF hostVars
<1>2. HasPrec' = HasPrec /\ DirDot' = DirDot /\ Request' = Request /\ Made' = Made
  BY <1>1, DirKept DEF Request, Made
<1>3. HostInv => HostInv'
  <2>1. \A k : NormKept(k)' = NormKept(k) /\ DotKept(k)' = DotKept(k) /\ Wants(k)' = Wants(k)
    BY <1>1, <1>2, ValueKept DEF NormKept, DotKept, Wants
  <2>2. GraphFits' = GraphFits
    BY <1>1, <1>2 DEF GraphFits, InverseOf
  <2> QED
    BY <1>1, <1>2, <2>1, <2>2 DEF HostInv
<1>4. ASSUME NEW final
      PROVE  Holds(final)' = Holds(final)
  <2>1. \A what, k : Value(what, call, k)' = Value(what, call, k)
    BY <1>1, ValueKept
  <2>2. \A k : /\ Solves(final, call, k)' = Solves(final, call, k)
               /\ Iterated(final, call, k)' = Iterated(final, call, k)
               /\ Given(final, call)' = Given(final, call)
    BY <1>1, SolvesKept
  <2> QED
    BY <1>1, <1>2, <2>1, <2>2 DEF Holds
<1> QED
  BY <1>3, <1>4

\* Nothing happens.
LEMMA StutterResult ==
  ASSUME ResultInv, UNCHANGED vars
  PROVE  ResultInv'
<1>1. UNCHANGED hostVars /\ UNCHANGED deviceVars /\ session' = session /\ call' = call /\ Made' = Made
  BY DEF vars, hostVars, Made
<1>2. Suited' /\ HostInv' /\ SolutionInv'
  BY <1>1, SuitedKept, HostStays, SameWriter DEF ResultInv
<1>3. (\E final : Leaves(final) /\ Holds(final))'
  BY <1>1, LeavesStay, HostStays DEF ResultInv
<1> QED
  BY <1>2, <1>3 DEF ResultInv

\* A kernel runs.
LEMMA RunOneResult ==
  ASSUME StreamsInv, QueueInv, GraphInv, ResultInv, RunOne
  PROVE  ResultInv'
<1>1. UNCHANGED hostVars /\ session' = session /\ call' = call /\ Made' = Made
  BY DEF RunOne, hostVars, Made
<1>2. PICK t \in pending : RunKernel(t, Results(t.kernel.op, Operands(t)))
  BY DEF RunOne
<1>3. PICK final : Leaves(final) /\ Holds(final)
  BY DEF ResultInv
<1>4. Leaves(final)'
  BY <1>1, <1>2, <1>3, InNumber, KernelsOrdered, RunLeaves, LeavesNext
<1>5. SolutionInv'
  <2>1. SessionInv /\ call \in DOMAIN session.calls /\ SolutionInv
    BY <1>2 DEF StreamsInv, SessionInv, Busy, InFlightOn, ResultInv
  <2>2. Request' = Request /\ Request.sol \in Buffer /\ call # 0
    BY <1>1, <2>1, Views DEF Request
  <2>3. DOMAIN mem = Buffer
    <3>1. Memory(mem)
      BY <1>3, InNumber DEF Leaves, Serially, Numbered
    <3> QED
      BY <3>1 DEF Memory
  <2>4. pending' = pending \ {t}
    BY <1>2 DEF RunKernel
  <2>5. CASE Request.sol \in Range(t.kernel.out)
    BY <2>1, <2>2, <2>4, <2>5 DEF SolutionInv
  <2>6. CASE Request.sol \notin Range(t.kernel.out)
    <3>1. mem'[Request.sol] = mem[Request.sol]
      BY <1>2, <2>2, <2>3, <2>6 DEF RunKernel
    <3>2. Value("sol", call, Made - 1)' = Value("sol", call, Made - 1) /\ \A k : Wants(k)' = Wants(k)
      BY <1>1, <2>2, ValueKept DEF Wants
    <3> QED
      BY <1>1, <2>1, <2>2, <2>4, <3>1, <3>2 DEF SolutionInv
  <2> QED
    BY <2>5, <2>6
<1>6. Suited' /\ HostInv' /\ Holds(final)'
  BY <1>1, <1>3, SuitedKept, HostStays DEF ResultInv
<1> QED
  BY <1>4, <1>5, <1>6 DEF ResultInv

\* A step of apply().
LEMMA Calling ==
  ASSUME StreamsInv, pc # "idle"
  PROVE  /\ SessionInv /\ session \in Sessions /\ call \in DOMAIN session.calls /\ call \in Nat \ {0}
         /\ Request.num_sweeps \in Nat /\ Request.sol \in Solutions /\ Request.sol \in Buffer
         /\ Request.sol \notin Vectors /\ Vectors \subseteq Buffer
         /\ InverseOf(call) \in Range(Inverses)
<1>1. SessionInv /\ call \in DOMAIN session.calls
  BY DEF StreamsInv, SessionInv
<1> QED
  BY <1>1, RequestType, Views, InverseType DEF Request, SessionInv

\* What was asked for stays.
LEMMA RequestKept ==
  ASSUME session' = session, call' = call
  PROVE  /\ Request' = Request /\ HasPrec' = HasPrec /\ InverseOf(call)' = InverseOf(call)
         /\ \A k : Wants(k)' = Wants(k)
         /\ graph' = graph => GraphFits' = GraphFits
<1>1. Request' = Request /\ HasPrec' = HasPrec /\ InverseOf(call)' = InverseOf(call)
  BY DEF Request, HasPrec, InverseOf
<1> QED
  BY <1>1 DEF Wants, GraphFits

\* What the host thread learns of a residual.
LEMMA NormRead ==
  ASSUME Request.first \in Nat, NEW k \in Nat
  PROVE  /\ Above(Value("res_dot", call, k)) <=> k < Request.first
         /\ Below(Value("res_dot", call, k)) => ~(k < Request.first)
         /\ ~Below(Value("res_dot", call, k)) => k < Request.first \/ (k = Request.first /\ Request.tie)
<1>1. Value("res_dot", call, k).what = "res_dot" /\ Value("res_dot", call, k).at = k
  BY ValueFields
<1> QED
  BY <1>1 DEF Above, Below

\* The numbers of a call.
LEMMA NumbersAsked ==
  ASSUME SessionInv, NEW c \in DOMAIN session.calls
  PROVE  session.calls[c].first \in Nat /\ session.calls[c].max_iters \in Nat
<1> DEFINE Asked == [sol : Solutions, num_sweeps : Nat, max_iters : Nat, first : Nat,
                     tie : BOOLEAN, keeps : BOOLEAN, invert : BOOLEAN]
<1>1. session.calls \in Seq(Asked)
  BY SessionsAssumption DEF SessionInv
<1>2. \A asked \in Asked : asked.first \in Nat /\ asked.max_iters \in Nat
  OBVIOUS
<1> HIDE DEF Asked
<1>3. session.calls \in [1 .. Len(session.calls) -> Asked]
  BY <1>1, LenProperties
<1> QED
  BY <1>2, <1>3, RequestType

\* The numbers of a request.
LEMMA RequestNumbers ==
  ASSUME SessionInv, call \in DOMAIN session.calls
  PROVE  Request.first \in Nat /\ Request.max_iters \in Nat
BY NumbersAsked DEF Request

\* apply() returns with the guess.
LEMMA ReturnGuessResult ==
  ASSUME StreamsInv, QueueInv, GraphInv, ResultInv, ReturnGuess
  PROVE  ResultInv'
<1>1. /\ session' = session /\ call' = call /\ pc = "guess" /\ pc' = "idle" /\ iter' = iter
      /\ graph' = graph /\ reported' = 0 /\ res_nrm2' = mem["tmp"] /\ UNCHANGED deviceVars /\ pending = {}
  BY DEF ReturnGuess, Go, StreamsInv, Busy, InFlightOn, Fenced
<1>2. call \in Nat \ {0} /\ HostInv /\ Suited
  BY <1>1, Calling DEF ResultInv
<1>3. Leaves(mem) /\ Holds(mem)
  BY <1>1, InNumber, AllSeen
<1>4. /\ iter = 0 /\ Made = 0 /\ Made' = 0 /\ Solves(mem, call, 0) /\ mem["tmp"] = Value("res_dot", call, 0)
  BY <1>1, <1>2, <1>3 DEF HostInv, Made, Holds
<1>5. Suited' /\ SolutionInv'
  BY <1>1, <1>2, SuitedKept, NoWriter DEF deviceVars
<1>6. HostInv'
  BY <1>1, <1>2, <1>4, RequestKept, ValueKept DEF HostInv, NormKept
<1>7. Holds(mem)'
  <2>1. mem' = mem /\ Request' = Request
    BY <1>1, RequestKept DEF deviceVars
  <2>2. Given(mem, call)' /\ (mem[Request.sol] = Value("sol", call, iter))'
    BY <1>1, <1>4, <2>1, SolvesKept, ValueKept DEF Solves, Request
  <2> QED
    BY <1>1, <2>1, <2>2 DEF Holds
<1>8. (\E final : Leaves(final) /\ Holds(final))'
  <2>1. PICK f : f = mem
    OBVIOUS
  <2>2. Leaves(f)' /\ Holds(f)'
    BY <1>1, <1>3, <1>7, <2>1, LeavesStay DEF deviceVars
  <2> QED
    BY <2>2
<1> QED
  BY <1>5, <1>6, <1>8 DEF ResultInv

\* Both ways to leave the loop.
LEMMA LoopReturnResult ==
  ASSUME StreamsInv, QueueInv, GraphInv, ResultInv, QueueReturn \/ GraphReturn
  PROVE  ResultInv'
<1>1. /\ session' = session /\ call' = call /\ pc = "loop" /\ pc' = "idle" /\ iter' = iter
      /\ graph' = graph /\ reported' = iter /\ res_nrm2' = res_nrm2 /\ UNCHANGED deviceVars /\ pending = {}
  BY DEF QueueReturn, GraphReturn, Go, StreamsInv, Busy, InFlightOn, Fenced
<1>2. call \in Nat \ {0} /\ HostInv /\ Suited
  BY <1>1, Calling DEF ResultInv
<1>3. Leaves(mem) /\ Holds(mem)
  BY <1>1, InNumber, AllSeen
<1>4. Solves(mem, call, iter) /\ res_nrm2 = Value("res_dot", call, iter)
  BY <1>1, <1>2, <1>3 DEF HostInv, Made, Holds, NormKept
<1>5. Suited' /\ SolutionInv'
  BY <1>1, <1>2, SuitedKept, NoWriter DEF deviceVars
<1>6. HostInv'
  <2>1. NormKept(iter)'
    BY <1>1, <1>4, ValueKept DEF NormKept
  <2> QED
    BY <1>1, <1>2, <2>1, RequestKept DEF HostInv
<1>7. Holds(mem)'
  <2>1. mem' = mem /\ Request' = Request
    BY <1>1, RequestKept DEF deviceVars
  <2>2. Given(mem, call)' /\ (mem[Request.sol] = Value("sol", call, iter))'
    BY <1>1, <1>4, <2>1, SolvesKept, ValueKept DEF Solves, Request
  <2> QED
    BY <1>1, <2>1, <2>2 DEF Holds
<1>8. (\E final : Leaves(final) /\ Holds(final))'
  <2>1. PICK f : f = mem
    OBVIOUS
  <2>2. Leaves(f)' /\ Holds(f)'
    BY <1>1, <1>3, <1>7, <2>1, LeavesStay DEF deviceVars
  <2> QED
    BY <2>2
<1> QED
  BY <1>5, <1>6, <1>8 DEF ResultInv

\* The residual is small enough.
LEMMA QueueConvergedResult ==
  ASSUME StreamsInv, QueueInv, GraphInv, ResultInv, QueueConverged
  PROVE  ResultInv'
<1>1. /\ session' = session /\ call' = call /\ pc = "norm" /\ pc' = "loop" /\ iter' = iter + 1
      /\ graph' = graph /\ reported' = reported /\ res_nrm2' = mem["tmp"] /\ UNCHANGED deviceVars
      /\ Fenced("B") /\ ~Above(mem["tmp"]) /\ ~session.graph
  BY DEF QueueConverged, Go, StreamsInv, PlacesInv
<1>2. call \in Nat \ {0} /\ HostInv /\ Suited /\ SolutionInv /\ Request.first \in Nat /\ iter \in Nat
  BY <1>1, Calling, RequestNumbers DEF ResultInv, HostInv
<1>3. PICK final : Leaves(final) /\ Holds(final)
  BY DEF ResultInv
<1>4. mem["tmp"] = Value("res_dot", call, iter + 1) /\ Solves(final, call, iter + 1)
  BY <1>1, <1>3, InNumber, DotSeen DEF Holds, Made
<1>5. ~(iter + 1 < Request.first)
  BY <1>1, <1>2, <1>4, NormRead
<1>6. Suited' /\ SolutionInv'
  BY <1>1, <1>2, SuitedKept, SameWriter DEF Made
<1>7. HostInv'
  <2>1. NormKept(iter)'
    BY <1>1, <1>4, ValueKept DEF NormKept
  <2> QED
    BY <1>1, <1>2, <1>5, <2>1, RequestKept DEF HostInv
<1>8. Holds(final)'
  BY <1>1, <1>4, <1>5, RequestKept, SolvesKept DEF Holds, Made
<1> QED
  BY <1>1, <1>3, <1>6, <1>7, <1>8, LeavesStay DEF ResultInv

\* The norm is read after a graph has run.
LEMMA EvaluateConvergenceResult ==
  ASSUME StreamsInv, QueueInv, GraphInv, ResultInv, EvaluateConvergence
  PROVE  ResultInv'
<1>1. /\ session' = session /\ call' = call /\ pc = "evaluate" /\ pc' = "loop" /\ iter' = iter
      /\ graph' = graph /\ reported' = reported /\ UNCHANGED deviceVars /\ pending = {} /\ session.graph
      /\ res_nrm2' = mem[IF HasPrec THEN "res_dot" ELSE "dot_old"]
  BY DEF EvaluateConvergence, Go, StreamsInv, PlacesInv, Busy, InFlightOn, Fenced
<1>2. call \in Nat \ {0} /\ HostInv /\ Suited /\ SolutionInv
  BY <1>1, Calling DEF ResultInv
<1>3. Leaves(mem) /\ Holds(mem)
  BY <1>1, InNumber, AllSeen
<1>4. /\ Solves(mem, call, iter) /\ Iterated(mem, call, iter)
      /\ HasPrec => mem["res_dot"] = Value("res_dot", call, iter)
      /\ mem["dot_old"] = Value(DirDot, call, iter)
  BY <1>1, <1>3 DEF Made, Holds, Iterated
<1>5. res_nrm2' = Value("res_dot", call, iter)
  BY <1>1, <1>4 DEF DirDot
<1>6. Suited' /\ SolutionInv'
  BY <1>1, <1>2, SuitedKept, SameWriter DEF Made
<1>7. HostInv'
  <2>1. NormKept(iter)'
    BY <1>1, <1>5, ValueKept DEF NormKept
  <2> QED
    BY <1>1, <1>2, <2>1, RequestKept DEF HostInv
<1>8. (\E final : Leaves(final) /\ Holds(final))'
  <2>1. PICK f : f = mem
    OBVIOUS
  <2>2. Solves(f, call, iter)' /\ Iterated(f, call, iter)'
    BY <1>1, <1>4, <2>1, SolvesKept
  <2>3. Leaves(f)' /\ Holds(f)'
    BY <1>1, <1>3, <2>1, <2>2, LeavesStay DEF Holds, Made
  <2> QED
    BY <2>3
<1> QED
  BY <1>6, <1>7, <1>8 DEF ResultInv

-----------------------------------------------------------------------------

\* CG begins to iterate.
LEMMA StartCGResult ==
  ASSUME StreamsInv, QueueInv, GraphInv, ResultInv, StartCG
  PROVE  ResultInv'
<1> DEFINE kernels == <<Direction("res")>>
           work == InOrder("A", kernels)
<1>1. /\ session' = session /\ call' = call /\ pc = "guess" /\ iter' = iter
      /\ pc' = (IF session.graph THEN "submit" ELSE "loop")
      /\ graph' = graph /\ reported' = reported /\ res_nrm2' = mem["tmp"] /\ res_dot_old' = mem["tmp"]
      /\ ~HasPrec /\ ~Below(mem["tmp"]) /\ pending = {} /\ Enqueue(work)
      /\ mem' = IF session.graph THEN [mem EXCEPT !["dot_old"] = mem["tmp"]] ELSE mem
  BY DEF StartCG, Go, StreamsInv, Busy, InFlightOn, Fenced
<1> HIDE DEF work
<1>2. /\ SessionInv /\ call \in DOMAIN session.calls /\ call \in Nat \ {0} /\ Request.sol \notin Vectors
      /\ Vectors \subseteq Buffer /\ HostInv /\ Suited /\ SolutionInv
      /\ Request.first \in Nat /\ Request.max_iters \in Nat
  BY <1>1, Calling, RequestNumbers DEF ResultInv
<1>3. Leaves(mem) /\ Holds(mem) /\ Numbered
  BY <1>1, InNumber, AllSeen
<1>4. /\ iter = 0 /\ Made = 0 /\ Made' = 0 /\ Solves(mem, call, 0) /\ mem["tmp"] = Value("res_dot", call, 0)
  BY <1>1, <1>2, <1>3 DEF HostInv, Made, Holds
<1>5. DirDot = "res_dot" /\ DirRes = "res"
  BY <1>1 DEF DirDot, DirRes
<1>6. /\ Solves(mem', call, 0) /\ mem'[Request.sol] = mem[Request.sol]
      /\ session.graph => mem'["dot_old"] = Value(DirDot, call, 0)
  <2>1. CASE ~session.graph
    BY <1>1, <1>4, <2>1
  <2>2. CASE session.graph
    <3>1. mem = [b \in Buffer |-> mem[b]]
      BY <1>4 DEF Solves, Given, Memory
    <3>2. mem' = Put(mem, "dot_old", mem["tmp"])
      BY <1>1, <2>2, <3>1 DEF Put
    <3>3. "dot_old" \in Vectors \ {"mat", "res"} /\ "dot_old" \in Buffer
      BY <1>2 DEF Vectors
    <3>4. Solves(mem', call, 0)
      BY <1>2, <1>4, <3>2, <3>3, PutSolves
    <3>5. \A a \in Buffer : mem'[a] = IF a = "dot_old" THEN mem["tmp"] ELSE mem[a]
      BY <3>2, PutMemory
    <3>6. Request.sol \in Buffer /\ Request.sol # "dot_old"
      BY <1>2, <3>3, Views DEF Request
    <3> QED
      BY <1>4, <1>5, <3>3, <3>4, <3>5, <3>6
  <2> QED
    BY <2>1, <2>2
<1>7. PICK f : f = mem'
  OBVIOUS
<1>8. PICK g : g = Put(f, "dir", Value("dir", call, 0))
  OBVIOUS
<1>9. Makes(kernels, f, g) /\ Sequence(kernels)
  <2>1. Memory(f) /\ f[DirRes] = Value(DirRes, call, 0)
    BY <1>5, <1>6, <1>7 DEF Solves, Given
  <2> QED
    BY <1>2, <1>5, <1>8, <2>1, DirectionMakes, OneSequence
<1>10. Sequence(work) /\ Makes(KernelsOf(work), f, g)
  BY <1>9, InOrderMakes DEF work
<1>11. Leaves(g)'
  BY <1>1, <1>3, <1>7, <1>10, EnqueueLeaves
<1>12. Solves(g, call, 0) /\ g["dir"] = Value("dir", call, 0) /\ g["dot_old"] = f["dot_old"]
  <2>1. "dir" \in Vectors \ {"mat", "res"} /\ "dir" \in Buffer /\ "dot_old" \in Buffer
    BY <1>2 DEF Vectors
  <2>2. Solves(g, call, 0)
    BY <1>2, <1>6, <1>7, <1>8, <2>1, PutSolves
  <2>3. \A a \in Buffer : g[a] = IF a = "dir" THEN Value("dir", call, 0) ELSE f[a]
    BY <1>8, PutMemory
  <2> QED
    BY <2>1, <2>2, <2>3
<1>13. session.graph => Wants(0)
  <2>1. 0 < Request.first \/ (0 = Request.first /\ Request.tie)
    BY <1>1, <1>2, <1>4, NormRead
  <2> QED
    BY <1>2, <2>1 DEF Suited, Wants, Request
<1>14. Suited'
  BY <1>1, <1>2, SuitedKept
<1>15. SolutionInv'
  <2>1. \A w \in Range(work) : Aside(w.kernel)
    <3>1. Aside(Direction("res"))
      <4>1. Range(<<"dir">>) = {"dir"} /\ "dir" \notin Solutions
        BY OneName, BuffersAssumption DEF Vectors
      <4> QED
        BY <4>1 DEF Aside, Direction, Kernel
    <3>2. \A k \in Range(kernels) : Aside(k)
      BY <3>1, OneName
    <3> QED
      BY <1>9, <3>2, InOrderAside DEF work
  <2> QED
    BY <1>1, <1>2, <1>4, <1>6, <1>10, <2>1, EnqueueAside
<1>16. HostInv'
  <2>1. NormKept(iter)' /\ DotKept(iter)'
    BY <1>1, <1>4, <1>5, ValueKept, DirKept DEF NormKept, DotKept
  <2> QED
    BY <1>1, <1>2, <1>4, <1>13, <2>1, RequestKept DEF HostInv
<1>17. Holds(g)'
  <2>1. Solves(g, call, 0)' /\ Value("dir", call, 0)' = Value("dir", call, 0)
    BY <1>1, <1>12, SolvesKept, ValueKept
  <2>2. session.graph => Iterated(g, call, 0)'
    BY <1>1, <1>6, <1>7, <1>12, SolvesKept DEF Iterated
  <2> QED
    BY <1>1, <1>4, <1>12, <2>1, <2>2 DEF Holds
<1> QED
  BY <1>11, <1>14, <1>15, <1>16, <1>17 DEF ResultInv

\* A chain that leaves the solution alone.
LEMMA ChainLeaves ==
  ASSUME Numbered, NEW f, Leaves(f), mem' = mem, session' = session, NEW stream, NEW kernels,
         Sequence(kernels), NEW g, Makes(kernels, f, g), Enqueue(InOrder(stream, kernels))
  PROVE  Leaves(g)'
<1>1. Sequence(InOrder(stream, kernels)) /\ Makes(KernelsOf(InOrder(stream, kernels)), f, g)
  BY InOrderMakes
<1> HIDE DEF InOrder
<1> QED
  BY <1>1, EnqueueLeaves

\* And the invariant of the solution stays.
LEMMA ChainAside ==
  ASSUME SessionInv, SolutionInv, session' = session, call' = call, call \in DOMAIN session.calls,
         NEW stream, NEW kernels, Sequence(kernels), \A k \in Range(kernels) : Aside(k),
         Enqueue(InOrder(stream, kernels)), mem' = mem, Made' = Made
  PROVE  SolutionInv'
<1>1. /\ Sequence(InOrder(stream, kernels))
      /\ \A w \in Range(InOrder(stream, kernels)) : Aside(w.kernel)
  BY InOrderAside
<1> HIDE DEF InOrder
<1>2. mem'[Request.sol] = mem[Request.sol]
  OBVIOUS
<1> QED
  BY <1>1, <1>2, EnqueueAside

\* A kernel that writes one of the solver's views.
LEMMA AsideOne ==
  ASSUME NEW op, NEW args, NEW in, NEW x \in Vectors, NEW scratch
  PROVE  Aside(Kernel(op, args, in, <<x>>, scratch))
<1>1. Range(<<x>>) = {x} /\ x \notin Solutions
  BY OneName, BuffersAssumption
<1> QED
  BY <1>1 DEF Aside, Kernel

\* The kernels of the algorithm but for one.
LEMMA KernelsAside ==
  /\ Aside(Spmv) /\ \A from : Aside(Direction(from))
  /\ \A stream, x, y : \A b \in Vectors : Aside(Dot(stream, b, x, y))
  /\ \A value : Aside(AxpbyBy(value, "mat_dir", "res")) /\ \A x : Aside(AxpbyBy(value, x, "dir"))
  /\ Aside(Axpby("alpha_neg", "mat_dir", "res")) /\ \A x : Aside(Axpby("tmp", x, "dir"))
<1>1. {"mat_dir", "dir", "res"} \subseteq Vectors
  BY DEF Vectors
<1>2. Aside(Spmv) /\ \A from : Aside(Direction(from))
  BY <1>1, AsideOne DEF Spmv, Direction
<1>3. \A stream, x, y : \A b \in Vectors : Aside(Dot(stream, b, x, y))
  BY AsideOne DEF Dot
<1>4. \A value : Aside(AxpbyBy(value, "mat_dir", "res")) /\ \A x : Aside(AxpbyBy(value, x, "dir"))
  BY <1>1, AsideOne DEF AxpbyBy
<1>5. Aside(Axpby("alpha_neg", "mat_dir", "res")) /\ \A x : Aside(Axpby("tmp", x, "dir"))
  BY <1>1, AsideOne DEF Axpby
<1> QED
  BY <1>2, <1>3, <1>4, <1>5

\* Those of the preconditioners.
LEMMA PreconditionAside ==
  ASSUME session \in Sessions, HasPrec, NEW n \in Nat, NEW inverse \in Range(Inverses)
  PROVE  \A k \in Range(Precondition(n, inverse)) : Aside(k)
<1>1. {"res_p", "jacobi"} \cap Solutions = {}
  BY BuffersAssumption DEF Vectors
<1>2. \A k \in Range(Precondition(n, inverse)) : PreconditionerOnly(k)
  BY PreconditionOnly
<1> QED
  BY <1>1, <1>2 DEF PreconditionerOnly, Aside

\* Kernels, then two more.
LEMMA TwoAside ==
  ASSUME NEW s, NEW t, Sequence(s), Sequence(t), \A k \in Range(s) : Aside(k), \A k \in Range(t) : Aside(k)
  PROVE  \A k \in Range(s \o t) : Aside(k)
BY Concatenation

-----------------------------------------------------------------------------

\* PCG begins to iterate.
LEMMA StartPCGResult ==
  ASSUME StreamsInv, QueueInv, GraphInv, ResultInv, StartPCG
  PROVE  ResultInv'
<1> DEFINE swept == Precondition(Request.num_sweeps, InverseOf(call))
           dots == IF session.graph
                     THEN <<Dot("A", "dot_old", "res_p", "res"), Direction("res_p")>>
                     ELSE <<Dot("A", "tmp", "res_p", "res")>>
           kernels == swept \o dots
<1>1. /\ session' = session /\ call' = call /\ pc = "guess" /\ iter' = iter /\ mem' = mem
      /\ pc' = (IF session.graph THEN "submit" ELSE "residuals")
      /\ graph' = graph /\ reported' = reported /\ res_nrm2' = mem["tmp"]
      /\ HasPrec /\ ~Below(mem["tmp"]) /\ pending = {} /\ Enqueue(InOrder("A", kernels))
  BY DEF StartPCG, Go, StreamsInv, Busy, InFlightOn, Fenced
<1>2. /\ SessionInv /\ call \in DOMAIN session.calls /\ call \in Nat \ {0} /\ session \in Sessions
      /\ Request.num_sweeps \in Nat /\ InverseOf(call) \in Range(Inverses)
      /\ HostInv /\ Suited /\ SolutionInv
      /\ Request.first \in Nat /\ Request.max_iters \in Nat
  BY <1>1, Calling, RequestNumbers DEF ResultInv
<1>3. Leaves(mem) /\ Holds(mem) /\ Numbered
  BY <1>1, InNumber, AllSeen
<1>4. /\ iter = 0 /\ Made = 0 /\ Made' = 0 /\ Solves(mem, call, 0) /\ mem["tmp"] = Value("res_dot", call, 0)
  BY <1>1, <1>2, <1>3 DEF HostInv, Made, Holds
<1>5. Request.num_sweeps = session.calls[call].num_sweeps
  BY DEF Request
<1>6. session.graph => Wants(0)
  <2>1. 0 < Request.first \/ (0 = Request.first /\ Request.tie)
    BY <1>1, <1>2, <1>4, NormRead
  <2> QED
    BY <1>2, <2>1 DEF Suited, Wants, Request
<1>7. Suited'
  BY <1>1, <1>2, SuitedKept
<1>8. NormKept(iter)'
  BY <1>1, <1>4, ValueKept DEF NormKept
<1>9. HostInv'
  BY <1>1, <1>2, <1>4, <1>6, <1>8, RequestKept DEF HostInv
<1>10. Sequence(swept) /\ Sequence(dots)
  BY <1>1, <1>2, PreconditionSequence, TupleSequences
<1>11. SolutionInv'
  <2>1. \A k \in Range(swept) : Aside(k)
    BY <1>1, <1>2, PreconditionAside
  <2>2. \A k \in Range(dots) : Aside(k)
    <3>1. {"tmp", "dot_old"} \subseteq Vectors
      BY DEF Vectors
    <3> QED
      BY <3>1, KernelsAside, OneName, TwoNames
  <2> HIDE DEF swept, dots
  <2>3. Sequence(kernels) /\ \A k \in Range(kernels) : Aside(k)
    BY <1>10, <2>1, <2>2, TwoAside, Concatenation
  <2> HIDE DEF kernels
  <2> QED
    BY <1>1, <1>2, <1>4, <2>3, ChainAside
<1>12. CASE session.graph
  <2>1. kernels = Precondition(Request.num_sweeps, InverseOf(call))
                    \o <<Dot("A", "dot_old", "res_p", "res"), Direction("res_p")>>
    BY <1>12
  <2> HIDE DEF kernels, swept, dots
  <2>2. PICK g : /\ Makes(kernels, mem, g)
                 /\ Solves(g, call, 0) /\ g["dot_old"] = Value(DirDot, call, 0) /\ g["dir"] = Value("dir", call, 0)
    <3>1. MakesStart(kernels, mem, call, 0)
      BY <1>1, <1>2, <1>4, <1>5, <2>1, StartGraphMakes
    <3> QED
      BY <3>1 DEF MakesStart
  <2>3. Sequence(kernels)
    BY <1>10, Concatenation DEF kernels
  <2>4. Leaves(g)'
    <3>1. PICK f : f = mem
      OBVIOUS
    <3> QED
      BY <1>1, <1>3, <2>2, <2>3, <3>1, ChainLeaves
  <2>5. Holds(g)'
    <3>1. Solves(g, call, 0)' /\ Iterated(g, call, 0)'
      BY <1>1, <2>2, SolvesKept DEF Iterated
    <3> QED
      BY <1>1, <1>4, <1>12, <3>1 DEF Holds
  <2> QED
    BY <1>7, <1>9, <1>11, <2>4, <2>5 DEF ResultInv
<1>13. CASE ~session.graph
  <2>1. kernels = Precondition(Request.num_sweeps, InverseOf(call)) \o <<Dot("A", "tmp", "res_p", "res")>>
    BY <1>13
  <2> HIDE DEF kernels, swept, dots
  <2>2. PICK g : /\ Makes(kernels, mem, g)
                 /\ Solves(g, call, 0) /\ g["res_p"] = Value("res_p", call, 0)
                 /\ g["tmp"] = Value(DirDot, call, 0)
    <3>1. MakesDot(kernels, mem, "tmp", call, 0)
      BY <1>1, <1>2, <1>4, <1>5, <2>1, PreconditionedDotMakes
    <3> QED
      BY <3>1 DEF MakesDot
  <2>3. Sequence(kernels)
    BY <1>10, Concatenation DEF kernels
  <2>4. Leaves(g)'
    <3>1. PICK f : f = mem
      OBVIOUS
    <3> QED
      BY <1>1, <1>3, <2>2, <2>3, <3>1, ChainLeaves
  <2>5. Holds(g)'
    <3>1. Solves(g, call, 0)' /\ (g["res_p"] = Value("res_p", call, 0))' /\ (g["tmp"] = Value(DirDot, call, 0))'
      BY <1>1, <2>2, SolvesKept, ValueKept, DirKept
    <3> QED
      BY <1>1, <1>4, <1>13, <3>1 DEF Holds
  <2> QED
    BY <1>7, <1>9, <1>11, <2>4, <2>5 DEF ResultInv
<1> QED
  BY <1>12, <1>13

\* PCGQueue has both products.
LEMMA StartPCGQueueResult ==
  ASSUME StreamsInv, QueueInv, GraphInv, ResultInv, StartPCGQueue
  PROVE  ResultInv'
<1> DEFINE kernels == <<Direction("res_p")>>
<1>1. /\ session' = session /\ call' = call /\ pc = "residuals" /\ pc' = "loop" /\ iter' = iter
      /\ mem' = mem /\ graph' = graph /\ reported' = reported /\ res_nrm2' = res_nrm2
      /\ res_dot_old' = mem["tmp"]
      /\ ~session.graph /\ pending = {} /\ Enqueue(InOrder("A", kernels))
  BY DEF StartPCGQueue, Go, StreamsInv, PlacesInv, Busy, InFlightOn, Fenced
<1>2. /\ SessionInv /\ call \in DOMAIN session.calls /\ call \in Nat \ {0} /\ Vectors \subseteq Buffer
      /\ HostInv /\ Suited /\ SolutionInv
  BY <1>1, Calling DEF ResultInv
<1>3. Leaves(mem) /\ Holds(mem) /\ Numbered
  BY <1>1, InNumber, AllSeen
<1>4. /\ iter = 0 /\ Made = 0 /\ Made' = 0 /\ Solves(mem, call, 0) /\ mem["tmp"] = Value(DirDot, call, 0)
      /\ mem["res_p"] = Value("res_p", call, 0) /\ HasPrec /\ res_nrm2 = Value("res_dot", call, 0)
  BY <1>1, <1>2, <1>3 DEF HostInv, NormKept, Made, Holds
<1>5. PICK g : g = Put(mem, "dir", Value("dir", call, 0))
  OBVIOUS
<1>6. Makes(kernels, mem, g) /\ Sequence(kernels)
  <2>1. DirRes = "res_p" /\ Memory(mem)
    BY <1>4 DEF DirRes, Solves, Given
  <2> QED
    BY <1>2, <1>4, <1>5, <2>1, DirectionMakes, OneSequence
<1>7. Leaves(g)'
  <2>1. PICK f : f = mem
    OBVIOUS
  <2> HIDE DEF kernels
  <2> QED
    BY <1>1, <1>3, <1>6, <2>1, ChainLeaves
<1>8. Solves(g, call, 0) /\ g["dir"] = Value("dir", call, 0)
  <2>1. "dir" \in Vectors \ {"mat", "res"} /\ "dir" \in Buffer
    BY <1>2 DEF Vectors
  <2>2. Solves(g, call, 0)
    BY <1>2, <1>4, <1>5, <2>1, PutSolves
  <2>3. \A a \in Buffer : g[a] = IF a = "dir" THEN Value("dir", call, 0) ELSE mem[a]
    BY <1>5, PutMemory
  <2> QED
    BY <2>1, <2>2, <2>3
<1>9. Suited'
  BY <1>1, <1>2, SuitedKept
<1>10. SolutionInv'
  <2>1. \A k \in Range(kernels) : Aside(k)
    BY KernelsAside, OneName
  <2> HIDE DEF kernels
  <2> QED
    BY <1>1, <1>2, <1>4, <1>6, <2>1, ChainAside
<1>11. HostInv'
  <2>1. NormKept(iter)' /\ DotKept(iter)'
    BY <1>1, <1>4, ValueKept, DirKept DEF NormKept, DotKept
  <2> QED
    BY <1>1, <1>2, <1>4, <2>1, RequestKept DEF HostInv
<1>12. Holds(g)'
  <2>1. Solves(g, call, 0)' /\ Value("dir", call, 0)' = Value("dir", call, 0)
    BY <1>1, <1>8, SolvesKept, ValueKept
  <2> QED
    BY <1>1, <1>4, <1>8, <2>1 DEF Holds
<1> QED
  BY <1>7, <1>9, <1>10, <1>11, <1>12 DEF ResultInv

\* The product and the quadratic form are enqueued.
LEMMA QueueProductResult ==
  ASSUME StreamsInv, QueueInv, GraphInv, ResultInv, QueueProduct
  PROVE  ResultInv'
<1> DEFINE kernels == <<Spmv, Dot("A", "tmp", "dir", "mat_dir")>>
<1>1. /\ session' = session /\ call' = call /\ pc = "loop" /\ pc' = "quadratic" /\ iter' = iter
      /\ mem' = mem /\ graph' = graph /\ reported' = reported /\ res_nrm2' = res_nrm2
      /\ res_dot_old' = res_dot_old /\ ~session.graph /\ Goes /\ Enqueue(InOrder("A", kernels))
  BY DEF QueueProduct, Go
<1>2. /\ SessionInv /\ call \in DOMAIN session.calls /\ call \in Nat \ {0} /\ Vectors \subseteq Buffer
      /\ HostInv /\ Suited /\ SolutionInv /\ Request.first \in Nat /\ iter \in Nat /\ Numbered
  BY <1>1, Calling, RequestNumbers, InNumber DEF ResultInv, HostInv
<1>3. PICK f : Leaves(f) /\ Holds(f)
  BY DEF ResultInv
<1>4. res_nrm2 = Value("res_dot", call, iter) /\ Made = iter /\ Made' = iter /\ Solves(f, call, iter)
  BY <1>1, <1>2, <1>3 DEF HostInv, NormKept, Made, Holds
<1>5. Wants(iter)
  BY <1>1, <1>2, <1>4, NormRead DEF Goes, Wants
<1>6. f["dir"] = Value("dir", call, iter) /\ DotKept(iter)
  BY <1>1, <1>2, <1>3, <1>5 DEF Holds, HostInv, Wants
<1> DEFINE h == Put(f, "mat_dir", Value("mat_dir", call, iter))
<1>7. PICK g : g = Put(h, "tmp", Value("dir_dot", call, iter))
  OBVIOUS
<1>8. Makes(kernels, f, g)
  BY <1>2, <1>4, <1>6, <1>7, ProductMakes DEF Product
<1>9. Sequence(kernels)
  BY TupleSequences
<1>10. Leaves(g)'
  <2> HIDE DEF kernels
  <2> QED
    BY <1>1, <1>2, <1>3, <1>8, <1>9, ChainLeaves
<1>11. /\ Solves(g, call, iter) /\ g["dir"] = Value("dir", call, iter)
       /\ g["mat_dir"] = Value("mat_dir", call, iter) /\ g["tmp"] = Value("dir_dot", call, iter)
  <2>1. {"mat_dir", "tmp"} \subseteq Vectors \ {"mat", "res"} /\ {"mat_dir", "tmp", "dir"} \subseteq Buffer
    BY <1>2 DEF Vectors
  <2>2. Solves(h, call, iter)
    BY <1>2, <1>4, <2>1, PutSolves
  <2>3. \A a \in Buffer : h[a] = IF a = "mat_dir" THEN Value("mat_dir", call, iter) ELSE f[a]
    BY PutMemory
  <2> HIDE DEF h
  <2>4. Solves(g, call, iter)
    BY <1>2, <1>7, <2>1, <2>2, PutSolves
  <2>5. \A a \in Buffer : g[a] = IF a = "tmp" THEN Value("dir_dot", call, iter) ELSE h[a]
    BY <1>7, PutMemory
  <2> QED
    BY <1>6, <2>1, <2>3, <2>4, <2>5
<1>12. Suited'
  BY <1>1, <1>2, SuitedKept
<1>13. SolutionInv'
  <2>1. \A k \in Range(kernels) : Aside(k)
    <3>1. "tmp" \in Vectors
      BY DEF Vectors
    <3> QED
      BY <3>1, KernelsAside, TwoNames
  <2> HIDE DEF kernels
  <2> QED
    BY <1>1, <1>2, <1>4, <1>9, <2>1, ChainAside
<1>14. HostInv'
  <2>1. DotKept(iter)' /\ Wants(iter)'
    BY <1>1, <1>5, <1>6, ValueKept, DirKept, RequestKept DEF DotKept
  <2>2. NormKept(iter)'
    BY <1>1, <1>4, ValueKept DEF NormKept
  <2> QED
    BY <1>1, <1>2, <2>1, <2>2, RequestKept DEF HostInv
<1>15. Holds(g)'
  <2>1. Solves(g, call, iter)'
    BY <1>1, <1>11, SolvesKept
  <2>2. /\ (g["dir"] = Value("dir", call, iter))' /\ (g["mat_dir"] = Value("mat_dir", call, iter))'
        /\ (g["tmp"] = Value("dir_dot", call, iter))'
    BY <1>1, <1>11, ValueKept
  <2> QED
    BY <1>1, <1>4, <2>1, <2>2 DEF Holds
<1> QED
  BY <1>10, <1>12, <1>13, <1>14, <1>15 DEF ResultInv

\* Both updates are enqueued.
LEMMA QueueUpdateResult ==
  ASSUME StreamsInv, QueueInv, GraphInv, ResultInv, QueueUpdate
  PROVE  ResultInv'
<1> DEFINE alpha == Results("alpha", <<res_dot_old, mem["tmp"]>>)
           one == <<AxpbyBy(alpha[1], "dir", Request.sol)>>
           two == <<AxpbyBy(alpha[2], "mat_dir", "res"), Dot("B", "tmp", "res", "res")>>
           ahead == InOrder("A", one)
           work == Then(ahead, "B", {}, two)
<1>1. /\ session' = session /\ call' = call /\ pc = "quadratic" /\ pc' = "norm" /\ iter' = iter
      /\ mem' = mem /\ graph' = graph /\ reported' = reported /\ res_nrm2' = res_nrm2
      /\ res_dot_old' = res_dot_old /\ ~session.graph /\ pending = {} /\ Enqueue(work)
  BY DEF QueueUpdate, Go, StreamsInv, PlacesInv, Busy, InFlightOn, Fenced
<1> HIDE DEF work
<1>2. /\ SessionInv /\ call \in DOMAIN session.calls /\ call \in Nat \ {0} /\ Vectors \subseteq Buffer
      /\ HostInv /\ Suited /\ iter \in Nat
  BY <1>1, Calling DEF ResultInv, HostInv
<1>3. Leaves(mem) /\ Holds(mem) /\ Numbered
  BY <1>1, InNumber, AllSeen
<1>4. /\ Made = iter /\ Made' = iter + 1 /\ Solves(mem, call, iter) /\ Wants(iter)
      /\ res_dot_old = Value(DirDot, call, iter) /\ mem["tmp"] = Value("dir_dot", call, iter)
      /\ mem["dir"] = Value("dir", call, iter) /\ mem["mat_dir"] = Value("mat_dir", call, iter)
  BY <1>1, <1>2, <1>3 DEF HostInv, Made, Holds, DotKept
<1>5. alpha = <<Value("alpha", call, iter), Value("alpha_neg", call, iter)>>
  BY <1>2, <1>4, Algorithm
<1>6. work = Then(InOrder("A", <<AxpbyBy(Value("alpha", call, iter), "dir", session.calls[call].sol)>>), "B", {},
                  <<AxpbyBy(Value("alpha_neg", call, iter), "mat_dir", "res"), Dot("B", "tmp", "res", "res")>>)
  <2>1. alpha[1] = Value("alpha", call, iter) /\ alpha[2] = Value("alpha_neg", call, iter)
    BY <1>5
  <2> HIDE DEF alpha
  <2> QED
    BY <2>1 DEF work, Request
<1>7. Sequence(one) /\ Len(one) = 1 /\ Sequence(two) /\ Len(two) = 2
  BY TupleSequences
<1>8. MakesUpdate(work, mem, call, iter)
  BY <1>2, <1>4, <1>6, QueueUpdateMakes
<1>9. PICK g : /\ Makes(KernelsOf(work), mem, g)
               /\ Solves(g, call, iter + 1) /\ g["tmp"] = Value("res_dot", call, iter + 1)
               /\ g["dir"] = Value("dir", call, iter)
  BY <1>8 DEF MakesUpdate
<1>10. /\ Sequence(work) /\ \A i \in DOMAIN work : i # 1 => Aside(work[i].kernel)
  <2>1. /\ Sequence(ahead) /\ Len(ahead) = 1 /\ \A i \in DOMAIN ahead : i # 1 => Aside(ahead[i].kernel)
    <3>1. Chained(ahead, <<>>, "A", {}, one)
      BY <1>7, TupleSequences, ThenIs DEF InOrder
    <3> HIDE DEF ahead
    <3>2. Sequence(ahead) /\ Len(ahead) = 1
      BY <1>7, <3>1 DEF Chained
    <3> QED
      BY <3>2, SequenceDomain
  <2>2. \A i \in DOMAIN two : Aside(two[i])
    <3>1. "tmp" \in Vectors
      BY DEF Vectors
    <3>2. Aside(two[1]) /\ Aside(two[2])
      BY <3>1, KernelsAside
    <3> HIDE DEF two
    <3> QED
      BY <1>7, <3>2, SequenceDomain
  <2> HIDE DEF two, ahead
  <2>3. LET w == Then(ahead, "B", {}, two)
        IN Sequence(w) /\ Len(w) = Len(ahead) + Len(two) /\ \A i \in DOMAIN w : i # 1 => Aside(w[i].kernel)
    BY <1>7, <2>1, <2>2, ThenAside
  <2> QED
    BY <2>3 DEF work
<1>11. Leaves(g)'
  <2>1. PICK f : f = mem
    OBVIOUS
  <2> QED
    BY <1>1, <1>3, <1>9, <1>10, <2>1, EnqueueLeaves
<1>12. Suited'
  BY <1>1, <1>2, SuitedKept
<1>13. SolutionInv'
  <2>1. mem[Request.sol] = Value("sol", call, iter)
    BY <1>4 DEF Solves, Request
  <2>2. PICK k : k = iter
    OBVIOUS
  <2>3. \A t \in pending : Request.sol \notin Range(t.kernel.out)
    BY <1>1
  <2> QED
    BY <1>1, <1>2, <1>4, <1>10, <2>1, <2>2, <2>3, EnqueueOneWriter
<1>14. HostInv'
  <2>1. DotKept(iter)' /\ Wants(iter)'
    BY <1>1, <1>4, ValueKept, DirKept, RequestKept DEF DotKept
  <2> QED
    BY <1>1, <1>2, <2>1, RequestKept DEF HostInv
<1>15. Holds(g)'
  <2>1. Solves(g, call, iter + 1)'
    BY <1>1, <1>9, SolvesKept
  <2>2. (g["dir"] = Value("dir", call, iter))' /\ (g["tmp"] = Value("res_dot", call, iter + 1))'
    BY <1>1, <1>9, ValueKept
  <2> QED
    BY <1>1, <1>4, <2>1, <2>2 DEF Holds
<1> QED
  BY <1>11, <1>12, <1>13, <1>14, <1>15 DEF ResultInv

\* The update of the direction is enqueued.
LEMMA QueueNextResult ==
  ASSUME StreamsInv, QueueInv, GraphInv, ResultInv, CGQueueNext \/ PCGQueueNext
  PROVE  ResultInv'
<1> DEFINE beta == Results("beta", <<res_dot_old, mem["tmp"]>>)
           kernels == <<AxpbyBy(beta[1], DirRes, "dir")>>
<1>1. /\ session' = session /\ call' = call /\ pc' = "loop" /\ iter' = iter + 1
      /\ mem' = mem /\ graph' = graph /\ reported' = reported /\ res_dot_old' = mem["tmp"]
      /\ Fenced("B") /\ Enqueue(InOrder("A", kernels)) /\ pc \in {"norm", "next"}
      /\ pc = "norm" => ~HasPrec /\ res_nrm2' = mem["tmp"]
      /\ pc = "next" => res_nrm2' = res_nrm2
  BY DEF CGQueueNext, PCGQueueNext, UpdateDirection, Go
<1>2. /\ SessionInv /\ call \in DOMAIN session.calls /\ call \in Nat \ {0} /\ Vectors \subseteq Buffer
      /\ HostInv /\ Suited /\ SolutionInv /\ iter \in Nat /\ Numbered /\ ~session.graph
  BY <1>1, Calling, InNumber DEF ResultInv, HostInv, StreamsInv, PlacesInv
<1>3. PICK f : Leaves(f) /\ Holds(f)
  BY DEF ResultInv
<1>4. /\ Made = iter + 1 /\ Made' = iter + 1 /\ Solves(f, call, iter + 1)
      /\ f["dir"] = Value("dir", call, iter) /\ res_dot_old = Value(DirDot, call, iter)
  BY <1>1, <1>2, <1>3 DEF HostInv, DotKept, Made, Holds
<1>5. f["tmp"] = mem["tmp"]
  BY <1>1, <1>2, <1>3, DotSeen
<1>6. /\ mem["tmp"] = Value(DirDot, call, iter + 1) /\ f[DirRes] = Value(DirRes, call, iter + 1)
      /\ res_nrm2' = Value("res_dot", call, iter + 1)
  <2>1. CASE pc = "norm"
    BY <1>1, <1>3, <1>4, <1>5, <2>1 DEF Holds, Solves, DirDot, DirRes
  <2>2. CASE pc = "next"
    BY <1>1, <1>2, <1>3, <1>5, <2>2 DEF Holds, HostInv, NormKept, DirDot, DirRes
  <2> QED
    BY <1>1, <2>1, <2>2
<1>7. beta[1] = Value("beta", call, iter + 1)
  <2>1. beta = <<Value("beta", call, iter + 1), Value(DirDot, call, iter + 1)>>
    <3>1. Results("beta", <<Value(DirDot, call, iter), Value(DirDot, call, iter + 1)>>)
            = <<Value("beta", call, iter + 1), Value(DirDot, call, iter + 1)>>
      BY <1>2, Algorithm
    <3> QED
      BY <1>4, <1>6, <3>1
  <2> HIDE DEF beta
  <2> QED
    BY <2>1
<1>8. PICK g : g = Put(f, "dir", Value("dir", call, iter + 1))
  OBVIOUS
<1>9. Makes(kernels, f, g) /\ Sequence(kernels)
  <2>1. Memory(f)
    BY <1>4 DEF Solves, Given
  <2>2. Makes(<<AxpbyBy(Value("beta", call, iter + 1), DirRes, "dir")>>, f, g)
    BY <1>2, <1>4, <1>6, <1>8, <2>1, NextDirectionMakes
  <2> HIDE DEF beta
  <2> QED
    BY <1>7, <2>2, OneSequence
<1>10. Leaves(g)'
  <2> HIDE DEF kernels
  <2> QED
    BY <1>1, <1>2, <1>3, <1>9, ChainLeaves
<1>11. Solves(g, call, iter + 1) /\ g["dir"] = Value("dir", call, iter + 1)
  <2>1. "dir" \in Vectors \ {"mat", "res"} /\ "dir" \in Buffer
    BY <1>2 DEF Vectors
  <2>2. Solves(g, call, iter + 1)
    BY <1>2, <1>4, <1>8, <2>1, PutSolves
  <2>3. \A a \in Buffer : g[a] = IF a = "dir" THEN Value("dir", call, iter + 1) ELSE f[a]
    BY <1>8, PutMemory
  <2> QED
    BY <2>1, <2>2, <2>3
<1>12. Suited'
  BY <1>1, <1>2, SuitedKept
<1>13. SolutionInv'
  <2>1. \A k \in Range(kernels) : Aside(k)
    <3> HIDE DEF beta
    <3> QED
      BY KernelsAside, OneName
  <2> HIDE DEF kernels
  <2> QED
    BY <1>1, <1>2, <1>4, <1>9, <2>1, ChainAside
<1>14. HostInv'
  <2>1. NormKept(iter)' /\ DotKept(iter)'
    BY <1>1, <1>6, ValueKept, DirKept DEF NormKept, DotKept
  <2> QED
    BY <1>1, <1>2, <2>1, RequestKept DEF HostInv
<1>15. Holds(g)'
  <2>1. Solves(g, call, iter)' /\ (g["dir"] = Value("dir", call, iter))'
    BY <1>1, <1>11, SolvesKept, ValueKept
  <2> QED
    BY <1>1, <1>2, <2>1 DEF Holds, Made
<1> QED
  BY <1>10, <1>12, <1>13, <1>14, <1>15 DEF ResultInv

\* The preconditioner is enqueued.
LEMMA PCGQueuePreconditionResult ==
  ASSUME StreamsInv, QueueInv, GraphInv, ResultInv, PCGQueuePrecondition
  PROVE  ResultInv'
<1> DEFINE swept == Precondition(Request.num_sweeps, InverseOf(call))
           last == <<Dot("B", "tmp", "res_p", "res")>>
           kernels == swept \o last
<1>1. /\ session' = session /\ call' = call /\ pc = "norm" /\ pc' = "next" /\ iter' = iter
      /\ mem' = mem /\ graph' = graph /\ reported' = reported /\ res_dot_old' = res_dot_old
      /\ res_nrm2' = mem["tmp"] /\ HasPrec /\ Above(mem["tmp"])
      /\ Fenced("B") /\ Enqueue(InOrder("B", kernels))
  BY DEF PCGQueuePrecondition, Go
<1>2. /\ SessionInv /\ call \in DOMAIN session.calls /\ call \in Nat \ {0} /\ session \in Sessions
      /\ Request.num_sweeps \in Nat /\ InverseOf(call) \in Range(Inverses)
      /\ HostInv /\ Suited /\ SolutionInv /\ iter \in Nat /\ Numbered /\ ~session.graph
      /\ Request.first \in Nat
  BY <1>1, Calling, RequestNumbers, InNumber DEF ResultInv, HostInv, StreamsInv, PlacesInv
<1>3. PICK f : Leaves(f) /\ Holds(f)
  BY DEF ResultInv
<1>4. /\ Made = iter + 1 /\ Made' = iter + 1 /\ Solves(f, call, iter + 1) /\ Wants(iter)
      /\ f["dir"] = Value("dir", call, iter) /\ res_dot_old = Value(DirDot, call, iter)
      /\ f["tmp"] = Value("res_dot", call, iter + 1)
  BY <1>1, <1>2, <1>3 DEF HostInv, DotKept, Made, Holds
<1>5. mem["tmp"] = Value("res_dot", call, iter + 1)
  BY <1>1, <1>2, <1>3, <1>4, DotSeen
<1>6. iter + 1 < Request.first
  BY <1>1, <1>2, <1>5, NormRead
<1>7. Sequence(swept) /\ Sequence(last)
  BY <1>1, <1>2, PreconditionSequence, TupleSequences
<1>8. Sequence(kernels) /\ \A k \in Range(kernels) : Aside(k)
  <2>1. \A k \in Range(swept) : Aside(k)
    BY <1>1, <1>2, PreconditionAside
  <2>2. \A k \in Range(last) : Aside(k)
    <3>1. "tmp" \in Vectors
      BY DEF Vectors
    <3> QED
      BY <3>1, KernelsAside, OneName
  <2> HIDE DEF swept, last
  <2> QED
    BY <1>7, <2>1, <2>2, TwoAside, Concatenation
<1>9. MakesDot(kernels, f, "tmp", call, iter + 1)
  <2>1. Request.num_sweeps = session.calls[call].num_sweeps
    BY DEF Request
  <2>2. PICK k \in Nat : k = iter + 1
    BY <1>2
  <2>3. MakesDot(Precondition(Request.num_sweeps, InverseOf(call)) \o <<Dot("B", "tmp", "res_p", "res")>>, f, "tmp", call, k)
    <3> HIDE DEF kernels, swept, last
    <3> QED
      BY <1>1, <1>2, <1>4, <2>1, <2>2, PreconditionedDotMakes
  <2> QED
    BY <2>2, <2>3
<1> HIDE DEF kernels
<1>10. PICK g : /\ Makes(kernels, f, g)
                /\ Solves(g, call, iter + 1) /\ g["res_p"] = Value("res_p", call, iter + 1)
                /\ g["tmp"] = Value(DirDot, call, iter + 1) /\ g["dir"] = f["dir"]
  BY <1>9 DEF MakesDot
<1>11. Leaves(g)'
  BY <1>1, <1>2, <1>3, <1>8, <1>10, ChainLeaves
<1>12. Suited'
  BY <1>1, <1>2, SuitedKept
<1>13. SolutionInv'
  BY <1>1, <1>2, <1>4, <1>8, ChainAside
<1>14. HostInv'
  <2>1. NormKept(iter + 1)' /\ DotKept(iter)' /\ Wants(iter)'
    BY <1>1, <1>4, <1>5, ValueKept, DirKept, RequestKept DEF NormKept, DotKept
  <2> QED
    BY <1>1, <1>2, <1>6, <2>1, RequestKept DEF HostInv
<1>15. Holds(g)'
  <2>1. Solves(g, call, iter + 1)'
    BY <1>1, <1>10, SolvesKept
  <2>2. /\ (g["tmp"] = Value(DirDot, call, iter + 1))' /\ (g["dir"] = Value("dir", call, iter))'
        /\ (g["res_p"] = Value("res_p", call, iter + 1))'
    BY <1>1, <1>4, <1>10, ValueKept, DirKept
  <2> QED
    BY <1>1, <1>4, <2>1, <2>2 DEF Holds
<1> QED
  BY <1>11, <1>12, <1>13, <1>14, <1>15 DEF ResultInv

\* In a graph, only the fourth node writes the solution.
OneWriter(work) == Sequence(work) /\ \A i \in DOMAIN work : i # 4 => Aside(work[i].kernel)

\* A chain is added.
LEMMA ThenOneWriter ==
  ASSUME NEW work, OneWriter(work), NEW stream, NEW from, NEW kernels, Sequence(kernels),
         \A i \in DOMAIN kernels : Len(work) + i # 4 => Aside(kernels[i])
  PROVE  /\ OneWriter(Then(work, stream, from, kernels))
         /\ Len(Then(work, stream, from, kernels)) = Len(work) + Len(kernels)
<1> DEFINE w == Then(work, stream, from, kernels)
<1>1. LET v == Then(work, stream, from, kernels)
      IN Sequence(v) /\ Len(v) = Len(work) + Len(kernels) /\ \A i \in DOMAIN v : i # 4 => Aside(v[i].kernel)
  BY ThenAside DEF OneWriter
<1>2. Sequence(w) /\ Len(w) = Len(work) + Len(kernels) /\ \A i \in DOMAIN w : i # 4 => Aside(w[i].kernel)
  BY <1>1
<1> HIDE DEF w
<1>3. OneWriter(w) /\ Len(w) = Len(work) + Len(kernels)
  BY <1>2 DEF OneWriter
<1> QED
  BY <1>3 DEF w

\* It leaves the solution alone.
LEMMA MoreAside ==
  ASSUME NEW work, OneWriter(work), NEW stream, NEW from, NEW kernels, Sequence(kernels),
         \A k \in Range(kernels) : Aside(k)
  PROVE  OneWriter(Then(work, stream, from, kernels))
<1>1. \A i \in DOMAIN kernels : Aside(kernels[i])
  BY DEF Range
<1> QED
  BY <1>1, ThenOneWriter

\* A kernel that writes two of the solver's views.
LEMMA PairAside ==
  ASSUME NEW a, NEW b \in Vectors, NEW c \in Vectors, a.out = <<b, c>>
  PROVE  Aside(a)
<1>1. Range(<<b, c>>) = {b, c} /\ {b, c} \cap Solutions = {}
  BY TwoNames, BuffersAssumption
<1> QED
  BY <1>1 DEF Aside

\* It is the update of the solution.
LEMMA GraphUpdatesWriter ==
  ASSUME NEW sol
  PROVE  OneWriter(GraphUpdates(sol))
<1> DEFINE divide == Kernel("alpha", <<>>, <<"dot_old", "tmp">>, <<"alpha", "alpha_neg">>, {})
           three == <<Spmv, Dot("A", "tmp", "dir", "mat_dir"), divide>>
           one == <<Axpby("alpha", "dir", sol)>>
           last == <<Axpby("alpha_neg", "mat_dir", "res")>>
           alpha == Then(<<>>, "A", {}, three)
           solved == Then(alpha, "A", {3}, one)
           all == Then(solved, "A", {3}, last)
<1>1. /\ Sequence(three) /\ Len(three) = 3 /\ Sequence(one) /\ Len(one) = 1 /\ Sequence(last)
      /\ OneWriter(<<>>) /\ Len(<<>>) = 0
  <2> HIDE DEF divide
  <2>1. Sequence(three) /\ Len(three) = 3 /\ Sequence(one) /\ Len(one) = 1 /\ Sequence(last)
    BY TupleSequences
  <2>2. Sequence(<<>>) /\ Len(<<>>) = 0
    BY TupleSequences
  <2>3. OneWriter(<<>>)
    BY <2>2 DEF OneWriter
  <2> QED
    BY <2>1, <2>2, <2>3
<1>2. {"tmp", "alpha", "alpha_neg"} \subseteq Vectors
  BY DEF Vectors
<1>3. Aside(divide)
  BY <1>2, PairAside DEF Kernel
<1>4. \A k \in Range(three) : Aside(k)
  <2> HIDE DEF divide
  <2> QED
    BY <1>2, <1>3, KernelsAside, ThreeNames
<1>5. \A k \in Range(last) : Aside(k)
  BY KernelsAside, OneName
<1>6. all = GraphUpdates(sol)
  BY DEF GraphUpdates
<1> HIDE DEF three, one, last
<1>7. OneWriter(alpha) /\ Len(alpha) = 3
  <2>1. \A i \in DOMAIN three : Aside(three[i])
    BY <1>4 DEF Range
  <2>2. OneWriter(Then(<<>>, "A", {}, three)) /\ Len(Then(<<>>, "A", {}, three)) = Len(<<>>) + Len(three)
    BY <1>1, <2>1, ThenOneWriter
  <2> QED
    BY <1>1, <2>2
<1> HIDE DEF alpha
<1>8. OneWriter(solved)
  <2>1. \A i \in DOMAIN one : Len(alpha) + i = 4
    BY <1>1, <1>7, SequenceDomain
  <2> QED
    BY <1>1, <1>7, <2>1, ThenOneWriter
<1> HIDE DEF solved
<1>9. OneWriter(all)
  BY <1>1, <1>5, <1>8, MoreAside
<1> QED
  BY <1>6, <1>9

\* In the graph of CGGraph.
LEMMA CGGraphWriter ==
  ASSUME NEW sol
  PROVE  OneWriter(CGGraphWork(sol))
<1> DEFINE begun == GraphUpdates(sol)
           two == <<Dot("A", "tmp", "res", "res"), Beta>>
           beta == Then(begun, "A", {5}, two)
           one == <<Axpby("tmp", "res", "dir")>>
           all == Then(beta, "A", {4, Len(beta)}, one)
<1>1. Sequence(two) /\ Sequence(one) /\ OneWriter(begun)
  BY TupleSequences, GraphUpdatesWriter
<1>2. {"tmp", "dot_old"} \subseteq Vectors
  BY DEF Vectors
<1>3. \A k \in Range(two) \cup Range(one) : Aside(k)
  <2>1. Aside(Beta)
    BY <1>2, PairAside DEF Beta, Kernel
  <2> QED
    BY <1>2, <2>1, KernelsAside, OneName, TwoNames
<1>4. all = CGGraphWork(sol)
  BY DEF CGGraphWork
<1> HIDE DEF begun, two, one
<1>5. OneWriter(beta)
  BY <1>1, <1>3, MoreAside
<1> HIDE DEF beta
<1> QED
  BY <1>1, <1>3, <1>4, <1>5, MoreAside

\* In the graph of PCGGraph.
LEMMA PCGGraphWriter ==
  ASSUME session \in Sessions, HasPrec, NEW sol, NEW n \in Nat, NEW inverse \in Range(Inverses)
  PROVE  OneWriter(PCGGraphWork(sol, n, inverse))
<1> DEFINE begun == GraphUpdates(sol)
           first == <<Dot("A", "res_dot", "res", "res")>>
           norm == Then(begun, "A", {5}, first)
           swept == Precondition(n, inverse)
           prec == Then(norm, "A", {5}, swept)
           two == <<Dot("A", "tmp", "res_p", "res"), Beta>>
           from == Serialized({Len(prec)}, Len(norm))
           beta == Then(prec, "A", from, two)
           one == <<Axpby("tmp", "res_p", "dir")>>
           all == Then(beta, "A", {4, Len(beta)}, one)
<1>1. Sequence(first) /\ Sequence(two) /\ Sequence(one) /\ Sequence(swept) /\ OneWriter(begun)
  BY TupleSequences, PreconditionSequence, GraphUpdatesWriter
<1>2. {"tmp", "dot_old", "res_dot"} \subseteq Vectors
  BY DEF Vectors
<1>3. \A k \in Range(first) \cup Range(two) \cup Range(one) : Aside(k)
  <2>1. Aside(Beta)
    BY <1>2, PairAside DEF Beta, Kernel
  <2> QED
    BY <1>2, <2>1, KernelsAside, OneName, TwoNames
<1>4. \A k \in Range(swept) : Aside(k)
  BY PreconditionAside
<1>5. all = PCGGraphWork(sol, n, inverse)
  BY DEF PCGGraphWork
<1> HIDE DEF begun, first, swept, two, one
<1>6. OneWriter(norm)
  BY <1>1, <1>3, MoreAside
<1> HIDE DEF norm
<1>7. OneWriter(prec)
  BY <1>1, <1>4, <1>6, MoreAside
<1> HIDE DEF prec, from
<1>8. OneWriter(beta)
  BY <1>1, <1>3, <1>7, MoreAside
<1> HIDE DEF beta
<1> QED
  BY <1>1, <1>3, <1>5, <1>8, MoreAside

-----------------------------------------------------------------------------

\* The first submission, and those of the loop.
LEMMA SubmitResult ==
  ASSUME StreamsInv, QueueInv, GraphInv, ResultInv, SubmitFirst \/ SubmitAgain
  PROVE  ResultInv'
<1> DEFINE work == IF HasPrec
                     THEN PCGGraphWork(graph'.sol, graph'.num_sweeps, graph'.inverse)
                     ELSE CGGraphWork(graph'.sol)
<1>1. /\ session' = session /\ call' = call /\ pc \in {"submit", "loop"} /\ pc' = "evaluate"
      /\ iter' = iter + 1 /\ mem' = mem /\ reported' = reported /\ res_nrm2' = res_nrm2
      /\ res_dot_old' = res_dot_old /\ Enqueue(work) /\ session.graph
      /\ pc = "submit" =>
           graph' = IF graph # NoGraph THEN graph
                    ELSE [sol |-> Request.sol, num_sweeps |-> Request.num_sweeps, inverse |-> InverseOf(call)]
      /\ pc = "loop" => graph' = graph /\ Goes
  BY DEF SubmitFirst, SubmitAgain, SubmitGraph, Go, StreamsInv, PlacesInv
<1>2. /\ SessionInv /\ call \in DOMAIN session.calls /\ call \in Nat \ {0} /\ session \in Sessions
      /\ HostInv /\ Suited /\ SolutionInv /\ iter \in Nat /\ Numbered /\ Request.first \in Nat
      /\ Request.sol \in Buffer
  BY <1>1, Calling, RequestNumbers, InNumber DEF ResultInv, HostInv
<1>3. PICK f : Leaves(f) /\ Holds(f)
  BY DEF ResultInv
<1>4. /\ Made = iter /\ Made' = iter + 1 /\ res_nrm2 = Value("res_dot", call, iter)
      /\ Iterated(f, call, iter) /\ Solves(f, call, iter)
  BY <1>1, <1>2, <1>3 DEF HostInv, NormKept, Made, Holds
<1>5. Wants(iter)
  BY <1>1, <1>2, <1>4, NormRead DEF HostInv, Goes, Wants
<1>6. /\ graph'.sol = Request.sol
      /\ session.prec = "jacobi" => graph'.num_sweeps = Request.num_sweeps
      /\ session.prec = "diagonal" => graph'.inverse = InverseOf(call)
  BY <1>1, <1>2 DEF HostInv, GraphFits
<1>7. graph'.sol \in Solutions /\ graph'.inverse \in Range(Inverses) /\ graph'.num_sweeps \in Nat
  BY <1>1, SubmitMade DEF GraphMade
<1>8. MakesIteration(work, f, call, iter)
  <2>1. Request.sol = session.calls[call].sol /\ Request.num_sweeps = session.calls[call].num_sweeps
    BY DEF Request
  <2>2. CASE HasPrec
    <3>1. PICK n, inverse : n = graph'.num_sweeps /\ inverse = graph'.inverse
      OBVIOUS
    <3>2. MakesIteration(PCGGraphWork(session.calls[call].sol, n, inverse), f, call, iter)
      BY <1>2, <1>4, <1>6, <1>7, <2>1, <2>2, <3>1, PCGGraphMakes
    <3> QED
      BY <1>6, <2>1, <2>2, <3>1, <3>2
  <2>3. CASE ~HasPrec
    <3>1. MakesIteration(CGGraphWork(session.calls[call].sol), f, call, iter)
      BY <1>2, <1>4, <2>3, CGGraphMakes
    <3> QED
      BY <1>6, <2>1, <2>3, <3>1
  <2> QED
    BY <2>2, <2>3
<1>9. OneWriter(work)
  BY <1>2, <1>7, CGGraphWriter, PCGGraphWriter
<1> HIDE DEF work
<1>10. PICK g : /\ Makes(KernelsOf(work), f, g) /\ Iterated(g, call, iter + 1)
                /\ HasPrec => g["res_dot"] = Value("res_dot", call, iter + 1)
  BY <1>8 DEF MakesIteration
<1>11. Leaves(g)'
  BY <1>1, <1>2, <1>3, <1>8, <1>10, EnqueueLeaves DEF MakesIteration
<1>12. Suited'
  BY <1>1, <1>2, SuitedKept
<1>13. SolutionInv'
  <2>1. \A t \in pending : Request.sol \notin Range(t.kernel.out)
    <3>1. CASE pc = "submit"
      BY <1>2, <1>4, <3>1 DEF HostInv, SolutionInv
    <3>2. CASE pc = "loop"
      BY <1>1, <3>2 DEF StreamsInv, InFlightOn, Busy
    <3> QED
      BY <1>1, <3>1, <3>2
  <2>2. f[Request.sol] = mem[Request.sol]
    BY <1>2, <1>3, <2>1, LeftAlone
  <2>3. mem[Request.sol] = Value("sol", call, iter)
    BY <1>4, <2>2 DEF Solves, Request
  <2>4. PICK k \in Nat : k = iter
    BY <1>2
  <2>5. Sequence(work) /\ \A i \in DOMAIN work : i # 4 => Aside(work[i].kernel)
    BY <1>9 DEF OneWriter
  <2> QED
    BY <1>1, <1>2, <1>4, <1>5, <2>1, <2>3, <2>4, <2>5, EnqueueOneWriter
<1>14. HostInv'
  <2>1. GraphFits'
    BY <1>1, <1>6, RequestKept DEF GraphFits
  <2> QED
    BY <1>1, <1>2, <2>1, RequestKept DEF HostInv
<1>15. Holds(g)'
  <2>1. iter' \in Nat /\ iter' = iter + 1
    BY <1>1, <1>2
  <2>2. /\ Iterated(g, call, iter')
        /\ HasPrec => g["res_dot"] = Value("res_dot", call, iter')
    BY <1>10, <2>1
  <2>3. Solves(g, call, iter') /\ Iterated(g, call, iter')
    BY <2>2 DEF Iterated
  <2>4. Solves(g, call, iter)' /\ Iterated(g, call, iter)'
    BY <1>1, <2>3, SolvesKept
  <2>5. HasPrec' => (g["res_dot"] = Value("res_dot", call, iter))'
    BY <1>1, <2>2, ValueKept, RequestKept
  <2> QED
    BY <1>1, <1>4, <2>4, <2>5 DEF Holds, Made
<1> QED
  BY <1>11, <1>12, <1>13, <1>14, <1>15 DEF ResultInv

-----------------------------------------------------------------------------
(***************************************************************************)
(* A call begins.                                                          *)
(***************************************************************************)

\* The latest of `called` up to call c is the one after which there is none.
LEMMA LatestCallIs ==
  ASSUME NEW c \in Nat \ {0}, NEW called, NEW d \in 1 .. c, d = 1 \/ d \in called,
         \A e \in (d + 1) .. c : e \notin called
  PROVE  d = LatestCall(c, called)
<1> DEFINE b == LatestCall(c, called)
<1>1. /\ b \in 1 .. c /\ (b = 1 \/ b \in called)
      /\ \A e \in (b + 1) .. c : e \notin called
  BY LatestCallChosen
<1> HIDE DEF b
<1>2. ~(d < b) /\ ~(b < d)
  BY <1>1
<1>3. d = b
  BY <1>1, <1>2
<1> QED
  BY <1>3 DEF b

\* It does not change with a call that is not one of them.
LEMMA LatestCallStays ==
  ASSUME NEW c \in Nat \ {0}, NEW called, c + 1 \notin called
  PROVE  LatestCall(c + 1, called) = LatestCall(c, called)
<1> DEFINE d == LatestCall(c, called)
<1>1. d \in 1 .. c /\ (d = 1 \/ d \in called) /\ \A e \in (d + 1) .. c : e \notin called
  BY LatestCallChosen
<1> HIDE DEF d
<1>3. \A e \in (d + 1) .. (c + 1) : e \notin called
  BY <1>1
<1>4. c + 1 \in Nat \ {0} /\ d \in 1 .. (c + 1)
  BY <1>1
<1>5. d = LatestCall(c + 1, called)
  BY <1>1, <1>3, <1>4, LatestCallIs
<1> QED
  BY <1>5 DEF d

\* A call with the matrix of the one before, of which the diagonal preconditioner is not
\* told, finds the inverse that it needs.
LEMMA InverseStays ==
  ASSUME NEW c \in Nat \ {0}, c + 1 \in DOMAIN session.calls
  PROVE  /\ session.calls[c + 1].keeps => Value("inverse", c + 1, 0) = Value("inverse", c, 0)
         /\ ~session.calls[c + 1].invert => InverseOf(c + 1) = InverseOf(c)
<1>1. c + 1 # 0 /\ c # 0
  OBVIOUS
<1>2. session.calls[c + 1].keeps => MatrixOf(c + 1) = MatrixOf(c)
  BY <1>1, LatestCallStays DEF MatrixOf
<1>3. session.calls[c + 1].keeps => Value("inverse", c + 1, 0) = Value("inverse", c, 0)
  BY <1>2 DEF Value
<1>4. ~session.calls[c + 1].invert => InverseOf(c + 1) = InverseOf(c)
  BY LatestCallStays DEF InverseOf
<1> QED
  BY <1>3, <1>4

\* What a caller gives to apply().
LEMMA Provided ==
  ASSUME StreamsInv, QueueInv, GraphInv, ResultInv, BeginApply, NEW c, c = call + 1
  PROVE  /\ SessionInv /\ c \in DOMAIN session.calls /\ c \in Nat \ {0} /\ pending = {}
         /\ call # 0 => call \in DOMAIN session.calls /\ call \in Nat \ {0}
         /\ Leaves(mem) /\ Memory(mem') /\ mem'["mat"] = Value("mat", c, 0)
         /\ mem'["rhs"] = Value("rhs", c, 0) /\ mem'[session.calls[c].sol] = Value("sol", c, 0)
         /\ session.prec = "diagonal" /\ ~session.calls[c].invert =>
              mem'[InverseOf(c)] = Value("inverse", c, 0)
<1>1. /\ SessionInv /\ pc = "idle" /\ pending = {} /\ call \in Nat /\ call < Len(session.calls)
      /\ mem' = [b \in DOMAIN mem |->
                   CASE b \in {"mat", "rhs"} -> Value(b, c, 0)
                     [] b = session.calls[c].sol -> Value("sol", c, 0)
                     [] OTHER -> IF b \in Members THEN mem[b] ELSE Garbage]
  BY DEF BeginApply, StreamsInv, SessionInv, Busy, InFlightOn
<1>2. /\ c \in DOMAIN session.calls /\ c \in Nat \ {0}
      /\ call # 0 => call \in DOMAIN session.calls /\ call \in Nat \ {0}
  BY <1>1, RequestType
<1>3. Leaves(mem) /\ Holds(mem)
  BY <1>1, InNumber, AllSeen
<1>4. Memory(mem) /\ DOMAIN mem = Buffer
  <2>1. Memory(mem)
    BY <1>3, InNumber DEF Leaves, Serially, Numbered
  <2> QED
    BY <2>1 DEF Memory
<1>5. /\ session.calls[c].sol \in Buffer /\ session.calls[c].sol \notin {"mat", "rhs"}
      /\ {"mat", "rhs"} \subseteq Buffer
      /\ InverseOf(c) \in Buffer /\ InverseOf(c) \notin Vectors /\ InverseOf(c) # session.calls[c].sol
  BY <1>1, <1>2, Views DEF Vectors
<1>6. /\ Memory(mem') /\ mem'["mat"] = Value("mat", c, 0)
      /\ mem'["rhs"] = Value("rhs", c, 0) /\ mem'[session.calls[c].sol] = Value("sol", c, 0)
  BY <1>1, <1>4, <1>5 DEF Memory
<1>7. ASSUME session.prec = "diagonal", ~session.calls[c].invert
      PROVE  mem'[InverseOf(c)] = Value("inverse", c, 0)
  <2>1. c > 1 /\ session.calls[c].keeps
    BY <1>2, <1>7 DEF ResultInv, Suited
  <2>2. call # 0 /\ call \in Nat \ {0}
    BY <1>2, <2>1
  <2>3. InverseOf(c) = InverseOf(call) /\ Value("inverse", c, 0) = Value("inverse", call, 0)
    BY <1>2, <1>7, <2>1, <2>2, InverseStays
  <2>4. mem[InverseOf(call)] = Value("inverse", call, 0)
    BY <1>1, <1>3, <1>7, <2>2 DEF Holds, Given
  <2>5. InverseOf(c) \in Members /\ InverseOf(c) \notin {"mat", "rhs"}
    BY <1>4, <1>5, <1>7 DEF Members, HasPrec, Vectors
  <2> QED
    BY <1>1, <1>4, <1>5, <2>3, <2>4, <2>5
<1> QED
  BY <1>1, <1>2, <1>3, <1>6, <1>7

\* The graph that is kept is one for the call that begins.
LEMMA GraphStillFits ==
  ASSUME StreamsInv, QueueInv, GraphInv, ResultInv, BeginApply, session.graph
  PROVE  graph' = NoGraph \/ GraphFits'
<1>1. PICK c : c = call + 1
  OBVIOUS
<1>2. /\ call' = c /\ session' = session /\ c \in DOMAIN session.calls /\ pc = "idle"
      /\ call # 0 => call \in DOMAIN session.calls
      /\ graph' = IF HasPrec THEN graph ELSE NoGraph
  BY <1>1, Provided DEF BeginApply
<1>3. CASE HasPrec /\ graph # NoGraph
  <2>1. call # 0 /\ GraphFits /\ graph' = graph
    BY <1>2, <1>3 DEF ResultInv, HostInv
  <2>2. /\ session.calls[c].sol = session.calls[call].sol
        /\ session.prec = "jacobi" => session.calls[c].num_sweeps = session.calls[call].num_sweeps
        /\ session.prec = "diagonal" => InverseOf(c) = InverseOf(call)
    BY <1>2, <1>3, <2>1 DEF ResultInv, Suited
  <2>3. /\ graph.sol = session.calls[c].sol
        /\ session.prec = "jacobi" => graph.num_sweeps = session.calls[c].num_sweeps
        /\ session.prec = "diagonal" => graph.inverse = InverseOf(c)
    BY <2>1, <2>2 DEF GraphFits, Request
  <2>4. Request' = session.calls[c] /\ InverseOf(call)' = InverseOf(c)
    BY <1>2 DEF Request, InverseOf
  <2> QED
    BY <1>2, <2>1, <2>3, <2>4 DEF GraphFits
<1> QED
  BY <1>2, <1>3

\* What is enqueued first leaves the solution alone.
LEMMA GuessAside ==
  ASSUME SessionInv, NEW c \in DOMAIN session.calls, NEW ahead, NEW kernels,
         ahead = IF session.calls[c].invert
                   THEN <<Kernel("invert", <<>>, <<"mat">>, <<InverseOf(c)>>, {})>> ELSE <<>>,
         kernels = ahead \o PrecomputeResidual(session.calls[c].sol)
  PROVE  \A k \in Range(kernels) : Aside(k)
<1> DEFINE sol == session.calls[c].sol
           rest == PrecomputeResidual(sol)
<1>1. Sequence(ahead) /\ \A k \in Range(ahead) : Aside(k)
  <2>1. Range(<<InverseOf(c)>>) = {InverseOf(c)} /\ InverseOf(c) \notin Solutions
    BY OneName, Views, BuffersAssumption
  <2>2. Aside(Kernel("invert", <<>>, <<"mat">>, <<InverseOf(c)>>, {}))
    BY <2>1 DEF Aside, Kernel
  <2> DEFINE told == Kernel("invert", <<>>, <<"mat">>, <<InverseOf(c)>>, {})
  <2>3. CASE session.calls[c].invert
    <3>1. ahead = <<told>> /\ Aside(told)
      BY <2>2, <2>3
    <3> HIDE DEF told
    <3>2. Range(<<told>>) = {told} /\ Sequence(<<told>>)
      BY OneName, TupleSequences
    <3> QED
      BY <3>1, <3>2
  <2>4. CASE ~session.calls[c].invert
    BY <2>4, NoName, TupleSequences
  <2> QED
    BY <2>3, <2>4
<1>2. Sequence(rest) /\ \A k \in Range(rest) : Aside(k)
  <2> DEFINE a == Copy("rhs", "res")
             b == Kernel("residual", <<>>, <<"mat", sol, "res">>, <<"res">>, {})
             d == Dot("A", "tmp", "res", "res")
  <2>1. {"res", "tmp"} \subseteq Vectors
    BY DEF Vectors
  <2>2. Aside(a) /\ Aside(b) /\ Aside(d)
    BY <2>1, AsideOne, KernelsAside DEF Copy
  <2>3. rest = <<a, b, d>>
    BY DEF PrecomputeResidual
  <2> HIDE DEF a, b, d, rest
  <2>4. Range(<<a, b, d>>) = {a, b, d} /\ Sequence(<<a, b, d>>)
    BY ThreeNames, TupleSequences
  <2> QED
    BY <2>2, <2>3, <2>4
<1> HIDE DEF rest, sol
<1> QED
  BY <1>1, <1>2, Concatenation DEF rest, sol

\* apply() is called.
LEMMA BeginApplyResult ==
  ASSUME StreamsInv, QueueInv, GraphInv, ResultInv, BeginApply
  PROVE  ResultInv'
<1>1. PICK c : c = call + 1
  OBVIOUS
<1> DEFINE ahead == IF session.calls[c].invert
                      THEN <<Kernel("invert", <<>>, <<"mat">>, <<InverseOf(c)>>, {})>> ELSE <<>>
           kernels == ahead \o PrecomputeResidual(session.calls[c].sol)
<1>2. /\ call' = c /\ session' = session /\ pc' = "guess" /\ iter' = 0 /\ reported' = -1
      /\ Enqueue(InOrder("A", kernels))
  BY <1>1 DEF BeginApply, Invert
<1>3. /\ SessionInv /\ c \in DOMAIN session.calls /\ c # 0 /\ pending = {} /\ Suited
      /\ Leaves(mem) /\ Memory(mem') /\ mem'["mat"] = Value("mat", c, 0)
      /\ mem'["rhs"] = Value("rhs", c, 0) /\ mem'[session.calls[c].sol] = Value("sol", c, 0)
      /\ session.prec = "diagonal" /\ ~session.calls[c].invert =>
           mem'[InverseOf(c)] = Value("inverse", c, 0)
  BY <1>1, Provided DEF ResultInv
<1>4. \A k \in Range(kernels) : Aside(k)
  BY <1>3, GuessAside
<1>5. Sequence(kernels) /\ MakesGuess(kernels, mem', c)
  BY <1>3, BeginMakes
<1> HIDE DEF kernels, ahead
<1>6. PICK g : Makes(kernels, mem', g) /\ Solves(g, c, 0) /\ g["tmp"] = Value("res_dot", c, 0)
  BY <1>5 DEF MakesGuess
<1>7. Leaves(g)'
  <2>1. Sequence(InOrder("A", kernels)) /\ Makes(KernelsOf(InOrder("A", kernels)), mem', g)
    BY <1>5, <1>6, InOrderMakes
  <2> HIDE DEF InOrder
  <2> QED
    BY <1>2, <1>3, <2>1, InNumber, EnqueueLeaves
<1>8. Suited'
  BY <1>2, <1>3, SuitedKept
<1>9. SolutionInv'
  <2>1. Request'.sol \in Solutions
    BY <1>2, <1>3, Views DEF Request
  <2>2. /\ Sequence(InOrder("A", kernels))
        /\ \A w \in Range(InOrder("A", kernels)) : Aside(w.kernel)
    BY <1>4, <1>5, InOrderAside
  <2> HIDE DEF InOrder
  <2>3. \A t \in pending' : \E w \in Range(InOrder("A", kernels)) : t.kernel = w.kernel
    BY <1>2, <1>3, <2>2, EnqueuedElements
  <2>4. \A t \in pending' : Request'.sol \notin Range(t.kernel.out)
    BY <2>1, <2>2, <2>3 DEF Aside
  <2> QED
    BY <2>4 DEF SolutionInv
<1>10. HostInv'
  <2>1. session.graph => graph' = NoGraph \/ GraphFits'
    BY GraphStillFits
  <2> QED
    BY <1>2, <2>1 DEF HostInv
<1>11. Holds(g)'
  <2>1. Solves(g, call, iter)'
    BY <1>2, <1>6, SolvesKept
  <2>2. (g["tmp"] = Value("res_dot", call, iter))'
    BY <1>2, <1>6, ValueKept
  <2> QED
    BY <1>2, <2>1, <2>2 DEF Holds, Made
<1> QED
  BY <1>7, <1>8, <1>9, <1>10, <1>11 DEF ResultInv

\* Nothing was computed.
LEMMA InitResult == Init /\ Suited => ResultInv
<1> SUFFICES ASSUME Init, Suited
             PROVE  ResultInv
  OBVIOUS
<1>1. /\ mem = [b \in Buffer |-> Garbage] /\ pending = {} /\ issued = 0 /\ call = 0 /\ pc = "idle"
      /\ iter = 0 /\ reported = 0 /\ graph = NoGraph
  BY DEF Init
<1>2. Leaves(mem)
  <2> DEFINE M == [i \in {0} |-> mem]
  <2>1. M[0] = mem /\ Memory(mem)
    BY <1>1 DEF Memory
  <2> HIDE DEF M
  <2>2. 0 .. issued = {0} /\ 1 .. issued = {}
    BY <1>1
  <2>3. Serially(M, mem, pending, issued) /\ M[issued] = mem
    BY <1>1, <2>1, <2>2 DEF Serially
  <2> QED
    BY <2>3 DEF Leaves
<1>3. Holds(mem)
  BY <1>1 DEF Holds
<1>4. HostInv /\ SolutionInv
  BY <1>1 DEF HostInv, SolutionInv
<1>5. PICK f : f = mem
  OBVIOUS
<1>6. Leaves(f) /\ Holds(f)
  BY <1>2, <1>3, <1>5
<1> QED
  BY <1>4, <1>6 DEF ResultInv

\* Every step keeps what was said of the call.
LEMMA NextResult ==
  ASSUME StreamsInv, QueueInv, GraphInv, ResultInv, [Next]_vars
  PROVE  ResultInv'
<1>1. CASE BeginApply
  BY <1>1, BeginApplyResult
<1>2. CASE ReturnGuess \/ StartCG \/ StartPCG \/ StartPCGQueue
  BY <1>2, ReturnGuessResult, StartCGResult, StartPCGResult, StartPCGQueueResult
<1>3. CASE QueueProduct \/ QueueUpdate \/ QueueConverged \/ CGQueueNext \/ PCGQueuePrecondition
             \/ PCGQueueNext
  BY <1>3, QueueProductResult, QueueUpdateResult, QueueConvergedResult, QueueNextResult,
     PCGQueuePreconditionResult
<1>4. CASE SubmitFirst \/ SubmitAgain \/ EvaluateConvergence
  BY <1>4, SubmitResult, EvaluateConvergenceResult
<1>5. CASE QueueReturn \/ GraphReturn
  BY <1>5, LoopReturnResult
<1>6. CASE RunOne
  BY <1>6, RunOneResult
<1>7. CASE UNCHANGED vars
  BY <1>7, StutterResult
<1> QED
  BY <1>1, <1>2, <1>3, <1>4, <1>5, <1>6, <1>7 DEF Next, Solve, Terminated

-----------------------------------------------------------------------------
(***************************************************************************)
(* The solvers keep the promise of IterativeSolver.                        *)
(***************************************************************************)

Kept == StreamsInv /\ QueueInv /\ GraphInv /\ ResultInv

\* The invariants hold in the beginning, and stay.
LEMMA InitKept == Init /\ Suited => Kept
BY InitStreamsInv, InitQueueInv, InitGraphInv, InitResult DEF Kept

\* Every step keeps all of them.
LEMMA NextKept == Kept /\ [Next]_vars => Kept'
BY NextStreamsInv, NextQueueInv, NextGraphInv, NextResult DEF Kept

\* A solution that no kernel is about to write is the last iterate that was made.
SolutionSeen ==
  call # 0 /\ (\A t \in pending : Request.sol \notin Range(t.kernel.out)) =>
    mem[Request.sol] = Value("sol", call, Made)

\* It is what the kernels in flight leave.
LEMMA KeptSeen == Kept => SolutionSeen
<1> SUFFICES ASSUME Kept, call # 0, \A t \in pending : Request.sol \notin Range(t.kernel.out)
             PROVE  mem[Request.sol] = Value("sol", call, Made)
  BY DEF SolutionSeen
<1>1. PICK f : Leaves(f) /\ Holds(f)
  BY DEF Kept, ResultInv
<1>2. Numbered /\ HostInv
  BY InNumber DEF Kept, ResultInv
<1>3. CASE pc = "idle"
  <2>1. pending = {}
    BY <1>3 DEF Kept, StreamsInv, Busy, InFlightOn
  <2>2. Leaves(mem) /\ Holds(mem)
    BY <1>2, <2>1, AllSeen DEF Kept
  <2> QED
    BY <1>3, <2>2 DEF Holds, Made
<1>4. CASE pc # "idle"
  <2>1. Request.sol \in Buffer
    BY <1>4, Calling DEF Kept
  <2>2. f[Request.sol] = mem[Request.sol]
    BY <1>1, <1>2, <2>1, LeftAlone
  <2> QED
    BY <1>1, <1>4, <2>2 DEF Holds, Solves, Request
<1> QED
  BY <1>3, <1>4

\* Memory is that of the buffers.
LEMMA KeptMemory == Kept => DOMAIN mem = Buffer
<1> SUFFICES ASSUME Kept PROVE DOMAIN mem = Buffer
  OBVIOUS
<1>1. PICK f : Leaves(f)
  BY DEF Kept, ResultInv
<1>2. Memory(mem)
  BY <1>1, InNumber DEF Kept, Leaves, Serially, Numbered
<1> QED
  BY <1>2 DEF Memory

\* The iterate that the promise is about.
LEMMA IterateIs ==
  ASSUME call # 0, NEW k \in Nat, mem[Request.sol] = Value("sol", call, k)
  PROVE  IterateHeld = k
<1>1. Value("sol", call, k).what = "sol" /\ Value("sol", call, k).call = call /\ Value("sol", call, k).at = k
  BY ValueFields
<1> QED
  BY <1>1 DEF IterateHeld

\* The last step of a call.
LEMMA ReturnImplements ==
  ASSUME Kept, Kept', ReturnGuess \/ QueueReturn \/ GraphReturn
  PROVE  Promise!Return
<1>1. /\ session' = session /\ call' = call /\ pc \in {"guess", "loop"} /\ pc' = "idle" /\ mem' = mem
      /\ iter' = iter /\ pending = {} /\ res_nrm2' = IF pc = "guess" THEN mem["tmp"] ELSE res_nrm2
      /\ pc = "guess" => Below(mem["tmp"])
      /\ pc = "loop" => ~Goes
  BY DEF ReturnGuess, QueueReturn, GraphReturn, Go, deviceVars, Kept, StreamsInv, Busy, InFlightOn, Fenced
<1>2. /\ call \in DOMAIN session.calls /\ call \in Nat \ {0} /\ HostInv /\ HostInv' /\ iter \in Nat
      /\ Request.first \in Nat /\ Request.max_iters \in Nat /\ SolutionSeen
  BY <1>1, Calling, RequestNumbers, KeptSeen DEF Kept, ResultInv, HostInv
<1>3. reported = -1 /\ reported' = iter /\ res_nrm2' = Value("res_dot", call, iter)
  <2>1. NormKept(iter)' /\ reported' = iter'
    BY <1>1, <1>2 DEF HostInv
  <2>2. res_nrm2' = Value("res_dot", call, iter)'
    BY <2>1 DEF NormKept
  <2> QED
    BY <1>1, <1>2, <2>1, <2>2, ValueKept DEF HostInv
<1>4. IterateHeld = iter /\ IterateHeld' = iter
  <2>1. IterateHeld = iter
    BY <1>1, <1>2, IterateIs DEF SolutionSeen, Made
  <2>2. IterateHeld' = IterateHeld
    BY <1>1 DEF IterateHeld, Request
  <2> QED
    BY <2>1, <2>2
<1>5. ResidualHeld' = iter
  <2>1. LET v == Value("res_dot", call, iter) IN v.what = "res_dot" /\ v.call = call /\ v.at = iter
    BY ValueFields
  <2> QED
    BY <1>1, <1>2, <1>3, <2>1 DEF ResidualHeld
<1>6. iter < Request.first => iter >= Request.max_iters
  <2>1. CASE pc = "guess"
    BY <1>1, <1>2, <1>3, <2>1, NormRead
  <2>2. CASE pc = "loop"
    BY <1>1, <1>2, <1>3, <2>2, NormRead DEF Goes
  <2> QED
    BY <1>1, <2>1, <2>2
<1> HIDE DEF IterateHeld, ResidualHeld
<1> QED
  BY <1>1, <1>2, <1>3, <1>4, <1>5, <1>6 DEF Promise!Return, Promise!Above, Request

\* apply() is called.
LEMMA BeginImplements ==
  ASSUME Kept, Kept', BeginApply
  PROVE  Promise!Begin
<1>1. PICK c : c = call + 1
  OBVIOUS
<1>2. call' = c /\ session' = session /\ pc = "idle" /\ reported' = -1
  BY <1>1 DEF BeginApply
<1>3. /\ SessionInv /\ c \in DOMAIN session.calls /\ c # 0
      /\ mem'[session.calls[c].sol] = Value("sol", c, 0)
  BY <1>1, Provided DEF Kept
<1>4. reported # -1
  BY <1>2 DEF Kept, ResultInv, HostInv
<1>5. IterateHeld' = 0
  <2>1. Value("sol", c, 0).what = "sol" /\ Value("sol", c, 0).call = c /\ Value("sol", c, 0).at = 0
    BY ValueFields
  <2> QED
    BY <1>2, <1>3, <2>1 DEF IterateHeld, Request
<1>6. session.calls[c].first \in Nat /\ session.calls[c].max_iters \in Nat
  BY <1>3, NumbersAsked
<1> HIDE DEF IterateHeld, ResidualHeld
<1> QED
  BY <1>1, <1>2, <1>3, <1>4, <1>5, <1>6 DEF Promise!Begin

\* What does not change the solution, and neither begins nor ends a call, is not noticed.
LEMMA Stutters ==
  ASSUME session' = session, call' = call, reported' = reported, res_nrm2' = res_nrm2 \/ reported = -1,
         call = 0 \/ mem'[Request.sol] = mem[Request.sol]
  PROVE  UNCHANGED Promise!solverVars
<1>1. IterateHeld' = IterateHeld
  BY DEF IterateHeld, Request
<1>2. (IF reported = -1 THEN -1 ELSE ResidualHeld)' = IF reported = -1 THEN -1 ELSE ResidualHeld
  BY DEF ResidualHeld
<1> HIDE DEF IterateHeld, ResidualHeld
<1> QED
  BY <1>1, <1>2 DEF Promise!solverVars

\* A kernel runs: it is the one that updates the solution, or the solution stays.
LEMMA RunImplements ==
  ASSUME Kept, Kept', RunOne
  PROVE  Promise!Iterate \/ UNCHANGED Promise!solverVars
<1>1. PICK t \in pending : RunKernel(t, Results(t.kernel.op, Operands(t)))
  BY DEF RunOne
<1>2. /\ UNCHANGED hostVars /\ session' = session /\ call' = call /\ iter' = iter /\ pc' = pc
      /\ Made' = Made /\ reported' = reported /\ res_nrm2' = res_nrm2
  BY DEF RunOne, hostVars, Made
<1>3. pc # "idle"
  BY <1>1 DEF Kept, StreamsInv, Busy, InFlightOn
<1>4. /\ call # 0 /\ Request.sol \in Buffer /\ SolutionInv /\ HostInv /\ Made \in Nat
      /\ Request' = Request /\ Numbered
  BY <1>2, <1>3, Calling, RequestKept, InNumber DEF Kept, ResultInv, HostInv, Made
<1>5. DOMAIN mem = Buffer
  BY KeptMemory
<1>6. CASE Request.sol \notin Range(t.kernel.out)
  <2>1. mem'[Request.sol] = mem[Request.sol]
    BY <1>1, <1>4, <1>5, <1>6 DEF RunKernel
  <2> QED
    BY <1>2, <2>1, Stutters
<1>7. CASE Request.sol \in Range(t.kernel.out)
  <2>1. /\ \A u \in pending : Request.sol \in Range(u.kernel.out) => u = t
        /\ Made > 0 /\ Wants(Made - 1) /\ mem[Request.sol] = Value("sol", call, Made - 1)
    BY <1>1, <1>4, <1>7 DEF SolutionInv
  <2>2. PICK k \in Nat : k = Made - 1
    BY <1>4, <2>1
  <2>3. IterateHeld = k
    BY <1>4, <2>1, <2>2, IterateIs
  <2>4. SolutionSeen'
    BY KeptSeen, PTL
  <2>5. \A u \in pending' : Request'.sol \notin Range(u.kernel.out)
    BY <1>1, <1>4, <2>1 DEF RunKernel
  <2>6. mem'[Request'.sol] = Value("sol", call, Made)'
    BY <1>2, <1>4, <2>4, <2>5 DEF SolutionSeen
  <2>7. mem'[Request'.sol] = Value("sol", call, k + 1)
    BY <1>2, <1>4, <2>2, <2>6, ValueKept
  <2>8. IterateHeld' = k + 1
    <3>1. LET v == Value("sol", call, k + 1) IN v.what = "sol" /\ v.call = call /\ v.at = k + 1
      BY ValueFields
    <3> QED
      BY <1>2, <1>4, <2>7, <3>1 DEF IterateHeld
  <2>9. reported = -1
    BY <1>3, <1>4 DEF HostInv
  <2>10. k < Request.first /\ k < Request.max_iters
    BY <2>1, <2>2 DEF Wants
  <2> HIDE DEF IterateHeld, ResidualHeld
  <2>11. Promise!Iterate
    BY <1>2, <1>4, <2>3, <2>8, <2>9, <2>10 DEF Promise!Iterate, Promise!Above, Request
  <2> QED
    BY <2>11
<1> QED
  BY <1>6, <1>7

\* The rest of the host thread's steps leave the solution alone.
LEMMA HostImplements ==
  ASSUME Kept, Solve, ~(ReturnGuess \/ QueueReturn \/ GraphReturn)
  PROVE  UNCHANGED Promise!solverVars
<1>1. /\ session' = session /\ call' = call /\ reported' = reported /\ pc # "idle"
      /\ ~StartCG => mem' = mem
  BY DEF Solve, StartCG, StartPCG, StartPCGQueue, QueueProduct, QueueUpdate, QueueConverged, CGQueueNext,
         PCGQueuePrecondition, PCGQueueNext, SubmitFirst, SubmitAgain, SubmitGraph, EvaluateConvergence,
         Go, deviceVars
<1>2. reported = -1
  BY <1>1 DEF Kept, ResultInv, HostInv
<1>3. mem'[Request.sol] = mem[Request.sol]
  <2>1. Request.sol # "dot_old" /\ Request.sol \in DOMAIN mem
    BY <1>1, Calling, KeptMemory DEF Kept, Vectors
  <2>2. mem' = mem \/ mem' = [mem EXCEPT !["dot_old"] = mem["tmp"]]
    BY <1>1 DEF StartCG
  <2> QED
    BY <2>1, <2>2
<1> QED
  BY <1>1, <1>2, <1>3, Stutters

\* No call was made.
LEMMA InitImplements == Init /\ Suited => Promise!Init
<1> SUFFICES ASSUME Init, Suited PROVE Promise!Init
  OBVIOUS
<1>1. call = 0 /\ reported = 0 /\ SessionInv
  BY InitStreamsInv DEF Init, StreamsInv
<1>2. 1 \in DOMAIN session.calls
  BY <1>1, RequestType, EmptySeq DEF Suited
<1>3. session.calls[1].first \in Nat /\ session.calls[1].max_iters \in Nat
  BY <1>1, <1>2, NumbersAsked
<1>4. IterateHeld = 0 /\ ResidualHeld = 0
  BY <1>1 DEF IterateHeld, ResidualHeld
<1> QED
  BY <1>1, <1>3, <1>4 DEF Promise!Init

\* Every step is one of the promise, or is not noticed.
LEMMA StepImplements ==
  ASSUME Kept, Kept', [Next]_vars
  PROVE  [Promise!Next]_(Promise!solverVars)
<1>1. CASE BeginApply
  BY <1>1, BeginImplements DEF Promise!Next
<1>2. CASE ReturnGuess \/ QueueReturn \/ GraphReturn
  BY <1>2, ReturnImplements DEF Promise!Next
<1>3. CASE Solve /\ ~(ReturnGuess \/ QueueReturn \/ GraphReturn)
  BY <1>3, HostImplements
<1>4. CASE RunOne
  BY <1>4, RunImplements DEF Promise!Next
<1>5. CASE UNCHANGED vars
  BY <1>5, Stutters DEF vars, deviceVars, hostVars
<1> QED
  BY <1>1, <1>2, <1>3, <1>4, <1>5 DEF Next, Terminated

\* What apply() is for: every solver, with every preconditioner, makes the iterates of the
\* conjugate gradient method one by one, stops at the first one that is good enough or at
\* max_iters, and returns with that iterate in the solution (cg/Base.hpp:27-34), for any
\* number of calls, iterations and sweeps, in every order in which the device may run the
\* kernels.  Of the queue variants this asks nothing but that a diagonal preconditioner
\* knows the matrix.
THEOREM Implements == Spec /\ Suited => SolvesAsPromised
<1>1. Init /\ Suited => Kept /\ Promise!Init
  BY InitKept, InitImplements
<1>2. Kept /\ [Next]_vars => Kept'
  BY NextKept
<1>3. Kept /\ Kept' /\ [Next]_vars => [Promise!Next]_(Promise!solverVars)
  BY StepImplements
<1> QED
  BY <1>1, <1>2, <1>3, PTL DEF Spec, SolvesAsPromised, Promise!Spec

-----------------------------------------------------------------------------

(***************************************************************************)
(* The type invariant.  It needs to know that kernels in flight have the   *)
(* operands that their operation works on, and that an iteration that was  *)
(* begun is one of those that are allowed.                                 *)
(***************************************************************************)

Operations == {"copy", "invert", "residual", "identity", "scale", "sweep", "direction", "spmv", "dot",
               "alpha", "beta", "axpby"}

\* How many results an operation has at least.
ResultsOf(op) == IF op \in {"alpha", "beta"} THEN 1 .. 2 ELSE {1}

KernelTyped(k) ==
  /\ k.op \in Operations
  /\ Sequence(k.args) /\ Range(k.args) \subseteq Values
  /\ Sequence(k.in) /\ Range(k.in) \subseteq Buffer
  /\ Len(k.args) + Len(k.in) > (IF k.op = "sweep" THEN 1 ELSE 0)
  /\ DOMAIN k.out \subseteq ResultsOf(k.op)

KernelsTyped == \A t \in pending : KernelTyped(t.kernel)

CountInv ==
  /\ pc \in {"guess", "residuals", "submit"} => iter = 0
  /\ pc \in {"quadratic", "norm", "next"} => iter < Request.max_iters

-----------------------------------------------------------------------------

\* A quantity is a value.
LEMMA QuantityType ==
  ASSUME SessionInv, NEW what \in Quantities, NEW c \in DOMAIN session.calls, NEW k \in Nat
  PROVE  Value(what, c, k) \in Values
<1>1. c \in Nat \ {0} /\ DOMAIN session.calls = 1 .. Len(session.calls) /\ Len(session.calls) \in Nat
      /\ session.calls[c].num_sweeps \in Nat
  BY RequestType
<1>2. MatrixOf(c) \in DOMAIN session.calls
  <2>1. LatestCall(c, {d \in DOMAIN session.calls : ~session.calls[d].keeps}) \in 1 .. c
    BY <1>1, LatestCallType
  <2> QED
    BY <1>1, <2>1 DEF MatrixOf
<1>3. Swept(c) \in Nat
  BY <1>1 DEF Swept
<1> QED
  BY <1>2, <1>3 DEF Value, Values

\* What the operations of the algorithm result in.
LEMMA RuleResults ==
  ASSUME NEW op \in Operations \ {"copy", "invert", "sweep"}, NEW r \in Rules(op), NEW i \in ResultsOf(op)
  PROVE  i \in DOMAIN r.out /\ r.out[i].what \in Quantities /\ r.out[i].shift \in {0, 1}
<1>1. DirRes \in Quantities /\ DirDot \in Quantities
  BY DEF DirRes, DirDot, Quantities
<1>2. CASE op \in {"residual", "identity", "scale"}
  BY <1>2 DEF Rules, Rule, Of, ResultsOf, Quantities
<1>3. CASE op \in {"direction", "spmv"}
  BY <1>3 DEF Rules, Rule, Of, ResultsOf, Quantities
<1>4. CASE op = "dot"
  BY <1>1, <1>4 DEF Rules, Rule, Of, ResultsOf, Quantities
<1>5. CASE op = "alpha"
  BY <1>1, <1>5 DEF Rules, Rule, Of, ResultsOf, Quantities
<1>6. CASE op = "beta"
  BY <1>1, <1>6 DEF Rules, Rule, Of, ResultsOf, Quantities
<1>7. CASE op = "axpby"
  BY <1>1, <1>7 DEF Rules, Rule, Of, ResultsOf, Quantities
<1> QED
  BY <1>2, <1>3, <1>4, <1>5, <1>6, <1>7 DEF Operations

\* A value that is not Garbage is a quantity of a call.
LEMMA ValueParts ==
  ASSUME NEW v \in Values, v # Garbage
  PROVE  v.what \in Quantities /\ v.call \in DOMAIN session.calls /\ v.at \in Nat /\ v.sweeps \in Nat
BY DEF Values

LEMMA SweepType ==
  ASSUME SessionInv, NEW v, Sequence(v), Range(v) \subseteq Values, Len(v) > 1, Garbage \notin Range(v)
  PROVE  Sweep(v) \in Values
<1>1. Len(v) \in Nat /\ DOMAIN v = 1 .. Len(v)
  BY LenProperties DEF Sequence
<1>2. v[2] \in Values /\ v[2] # Garbage /\ (Len(v) = 3 => v[3] \in Values /\ v[3] # Garbage)
  BY <1>1 DEF Range
<1> DEFINE y == Value("res_p", v[2].call, v[2].at)
           before == IF Len(v) = 3 THEN v[3].sweeps ELSE 0
<1>3. before \in Nat
  BY <1>2, ValueParts
<1>4. y \in Values
  BY <1>2, ValueParts, QuantityType DEF Quantities
<1>5. y # Garbage
  BY DEF Value, Garbage
<1>6. [y EXCEPT !.sweeps = before + 1] \in Values
  <2> HIDE DEF y, before
  <2> QED
    BY <1>3, <1>4, <1>5 DEF Values
<1>7. Sweep(v) = [y EXCEPT !.sweeps = before + 1] \/ Sweep(v) = Garbage
  BY DEF Sweep
<1> QED
  BY <1>6, <1>7 DEF Values

\* Garbage makes garbage.
LEMMA GarbageResults ==
  ASSUME NEW op, NEW v, Garbage \in Range(v)
  PROVE  Results(op, v) = <<Garbage, Garbage>>
BY DEF Results

\* What an operation leaves.
LEMMA ResultsType ==
  ASSUME SessionInv, NEW op \in Operations, NEW v, Sequence(v), Range(v) \subseteq Values,
         Len(v) > (IF op = "sweep" THEN 1 ELSE 0), NEW i \in ResultsOf(op)
  PROVE  Results(op, v)[i] \in Values
<1> DEFINE fitting == {r \in Rules(op) : v = Wanted(r.in, Last(v))}
<1>1. Garbage \in Values /\ i \in {1, 2}
  BY DEF Values, ResultsOf
<1>2. Len(v) \in Nat /\ DOMAIN v = 1 .. Len(v) /\ Len(v) > 0
  BY LenProperties DEF Sequence
<1>3. v[1] \in Values /\ Last(v) \in Values /\ v[1] \in Range(v) /\ Last(v) \in Range(v)
  BY <1>2 DEF Range, Last
<1>4. CASE Garbage \in Range(v)
  <2>1. Results(op, v) = <<Garbage, Garbage>>
    BY <1>4, GarbageResults
  <2> QED
    BY <1>1, <2>1
<1>5. CASE Garbage \notin Range(v) /\ op = "copy"
  BY <1>3, <1>5 DEF Results, ResultsOf
<1>6. CASE Garbage \notin Range(v) /\ op = "sweep"
  <2>1. Results(op, v) = <<Sweep(v)>> /\ i = 1
    BY <1>6 DEF Results, ResultsOf
  <2> QED
    BY <1>6, <2>1, SweepType
<1>7. CASE Garbage \notin Range(v) /\ op = "invert"
  <2>1. Results(op, v) = <<[v[1] EXCEPT !.what = "inverse"]>> /\ i = 1
    BY <1>7 DEF Results, ResultsOf
  <2>2. [v[1] EXCEPT !.what = "inverse"] \in Values
    BY <1>3, <1>7 DEF Values, Quantities
  <2> QED
    BY <2>1, <2>2
<1>8. CASE Garbage \notin Range(v) /\ op \notin {"copy", "sweep", "invert"}
  <2>1. CASE fitting = {}
    <3>1. Results(op, v) = <<Garbage, Garbage>>
      BY <1>8, <2>1 DEF Results
    <3> QED
      BY <1>1, <3>1
  <2>2. CASE fitting # {}
    <3> DEFINE r == CHOOSE rule \in fitting : TRUE
    <3>1. r \in Rules(op)
      BY <2>2
    <3>2. Results(op, v) = Wanted(r.out, Last(v))
      BY <1>8, <2>2 DEF Results
    <3> HIDE DEF r, fitting
    <3>3. i \in DOMAIN r.out /\ r.out[i].what \in Quantities /\ r.out[i].shift \in {0, 1}
      BY <1>8, <3>1, RuleResults
    <3>4. Last(v).call \in DOMAIN session.calls /\ Last(v).at \in Nat
      BY <1>3, <1>8, ValueParts
    <3>5. Last(v).at + r.out[i].shift \in Nat
      BY <3>3, <3>4
    <3>6. Results(op, v)[i] = Value(r.out[i].what, Last(v).call, Last(v).at + r.out[i].shift)
      BY <3>2, <3>3 DEF Wanted
    <3> QED
      BY <3>3, <3>4, <3>5, <3>6, QuantityType
  <2> QED
    BY <2>1, <2>2
<1> QED
  BY <1>4, <1>5, <1>6, <1>7, <1>8

\* Operands of a typed kernel, and what it leaves in memory.
LEMMA RunType ==
  ASSUME SessionInv, mem \in [Buffer -> Values], NEW t, KernelTyped(t.kernel),
         RunKernel(t, Results(t.kernel.op, Operands(t)))
  PROVE  mem' \in [Buffer -> Values]
<1> DEFINE args == t.kernel.args
           in == t.kernel.in
           found == [i \in DOMAIN in |-> mem[in[i]]]
           v == Operands(t)
           op == t.kernel.op
           out == t.kernel.out
<1>1. /\ op \in Operations /\ Sequence(args) /\ Range(args) \subseteq Values
      /\ Sequence(in) /\ Range(in) \subseteq Buffer /\ Len(args) + Len(in) > (IF op = "sweep" THEN 1 ELSE 0)
      /\ DOMAIN out \subseteq ResultsOf(op)
  BY DEF KernelTyped
<1>2. Len(in) \in Nat /\ DOMAIN in = 1 .. Len(in) /\ Len(args) \in Nat
  BY <1>1, LenProperties DEF Sequence
<1>3. found = [i \in 1 .. Len(in) |-> found[i]] /\ DOMAIN found = 1 .. Len(in)
  BY <1>2
<1>4. Range(found) \subseteq Values
  <2>1. \A i \in DOMAIN in : in[i] \in Buffer
    BY <1>1 DEF Range
  <2> QED
    BY <1>2, <1>3, <2>1 DEF Range
<1>5. Sequence(found) /\ v = args \o found
  <2>1. v = args \o found
    BY DEF Operands
  <2> HIDE DEF found, in, v
  <2> QED
    BY <1>2, <1>3, <2>1, SequenceMade
<1>6. Len(found) = Len(in)
  <2> HIDE DEF found, in
  <2> QED
    BY <1>2, <1>3, <1>5, LenProperties DEF Sequence
<1>7. Sequence(v) /\ Range(v) \subseteq Values /\ Len(v) = Len(args) + Len(in)
  <2> HIDE DEF found, in, args, v
  <2>1. Sequence(v) /\ Range(v) \subseteq Values
    BY <1>1, <1>4, <1>5, Concatenation
  <2>2. args \in Seq(Range(args) \cup Range(found)) /\ found \in Seq(Range(args) \cup Range(found))
    <3>1. args \in Seq(Range(args)) /\ found \in Seq(Range(found))
      BY <1>1, <1>5 DEF Sequence
    <3> QED
      BY <3>1
  <2>3. Len(args \o found) = Len(args) + Len(found)
    BY <2>2, ConcatProperties
  <2> QED
    BY <1>5, <1>6, <2>1, <2>3
<1> HIDE DEF v, found, args, in, op, out
<1>8. \A i \in ResultsOf(op) : Results(op, v)[i] \in Values
  BY <1>1, <1>7, ResultsType
<1>9. ASSUME NEW b \in Buffer, b \in Range(out)
      PROVE  (CHOOSE i \in DOMAIN out : out[i] = b) \in ResultsOf(op)
  BY <1>1, <1>9 DEF Range
<1>10. mem' = [b \in DOMAIN mem |-> IF b \in Range(out)
                                    THEN Results(op, v)[CHOOSE i \in DOMAIN out : out[i] = b]
                                    ELSE mem[b]]
  BY DEF RunKernel, out, op, v
<1> QED
  BY <1>8, <1>9, <1>10

\* Kernels with one, two or three operands in memory, and those with a scalar.
LEMMA OneTyped ==
  ASSUME NEW op \in Operations \ {"sweep"}, NEW a \in Buffer, NEW b, NEW scratch
  PROVE  KernelTyped(Kernel(op, <<>>, <<a>>, <<b>>, scratch))
<1>1. Range(<<>>) = {} /\ Range(<<a>>) = {a} /\ Sequence(<<>>) /\ Sequence(<<a>>)
  BY NoName, OneName, TupleSequences
<1>2. Len(<<>>) + Len(<<a>>) = 1 /\ DOMAIN <<b>> \subseteq ResultsOf(op)
  BY DEF ResultsOf
<1> QED
  BY <1>1, <1>2 DEF KernelTyped, Kernel

LEMMA TwoTyped ==
  ASSUME NEW op \in Operations, NEW a \in Buffer, NEW b \in Buffer, NEW c, NEW scratch
  PROVE  KernelTyped(Kernel(op, <<>>, <<a, b>>, <<c>>, scratch))
<1>1. Range(<<>>) = {} /\ Range(<<a, b>>) = {a, b} /\ Sequence(<<>>) /\ Sequence(<<a, b>>)
  BY NoName, TwoNames, TupleSequences
<1>2. Len(<<>>) + Len(<<a, b>>) = 2 /\ DOMAIN <<c>> \subseteq ResultsOf(op)
  BY DEF ResultsOf
<1> QED
  BY <1>1, <1>2 DEF KernelTyped, Kernel

LEMMA PairTyped ==
  ASSUME NEW op \in {"alpha", "beta"}, NEW a \in Buffer, NEW b \in Buffer, NEW c, NEW d, NEW scratch
  PROVE  KernelTyped(Kernel(op, <<>>, <<a, b>>, <<c, d>>, scratch))
<1>1. Range(<<>>) = {} /\ Range(<<a, b>>) = {a, b} /\ Sequence(<<>>) /\ Sequence(<<a, b>>)
  BY NoName, TwoNames, TupleSequences
<1>2. Len(<<>>) + Len(<<a, b>>) = 2 /\ DOMAIN <<c, d>> \subseteq ResultsOf(op) /\ op \in Operations
  BY DEF ResultsOf, Operations
<1> QED
  BY <1>1, <1>2 DEF KernelTyped, Kernel

LEMMA ThreeTyped ==
  ASSUME NEW op \in Operations, NEW a \in Buffer, NEW b \in Buffer, NEW c \in Buffer, NEW d, NEW scratch
  PROVE  KernelTyped(Kernel(op, <<>>, <<a, b, c>>, <<d>>, scratch))
<1>1. Range(<<>>) = {} /\ Range(<<a, b, c>>) = {a, b, c} /\ Sequence(<<>>) /\ Sequence(<<a, b, c>>)
  BY NoName, ThreeNames, TupleSequences
<1>2. Len(<<>>) + Len(<<a, b, c>>) = 3 /\ DOMAIN <<d>> \subseteq ResultsOf(op)
  BY DEF ResultsOf
<1> QED
  BY <1>1, <1>2 DEF KernelTyped, Kernel

LEMMA ScalarTyped ==
  ASSUME NEW value \in Values, NEW x \in Buffer, NEW y \in Buffer
  PROVE  KernelTyped(AxpbyBy(value, x, y))
<1>1. Range(<<value>>) = {value} /\ Range(<<x, y>>) = {x, y} /\ Sequence(<<value>>) /\ Sequence(<<x, y>>)
  BY OneName, TwoNames, TupleSequences
<1>2. Len(<<value>>) + Len(<<x, y>>) = 3 /\ DOMAIN <<y>> \subseteq ResultsOf("axpby")
  BY DEF ResultsOf
<1> QED
  BY <1>1, <1>2 DEF KernelTyped, Kernel, AxpbyBy, Operations

\* The kernels of the algorithm.
LEMMA KernelsOfSolvers ==
  ASSUME NEW sol \in Buffer, NEW s, NEW b
  PROVE  /\ \A x, y \in Vectors : KernelTyped(Dot(s, b, x, y))
         /\ \A x, y, z \in Vectors : KernelTyped(Axpby(x, y, z))
         /\ \A x, y \in Vectors : KernelTyped(Axpby(x, y, sol))
         /\ \A x \in Vectors : KernelTyped(Copy(x, b)) /\ KernelTyped(Direction(x))
         /\ KernelTyped(Spmv) /\ KernelTyped(Invert) /\ KernelTyped(Beta)
         /\ KernelTyped(Kernel("residual", <<>>, <<"mat", sol, "res">>, <<"res">>, {}))
         /\ KernelTyped(Kernel("alpha", <<>>, <<"dot_old", "tmp">>, <<"alpha", "alpha_neg">>, {}))
<1>1. \A x \in Vectors : x \in Buffer
  BY DEF Buffer
<1>2. {"mat", "res", "dir", "mat_dir", "tmp", "dot_old"} \subseteq Vectors
  BY DEF Vectors
<1>3. \A x, y \in Vectors : KernelTyped(Dot(s, b, x, y))
  BY <1>1, TwoTyped DEF Dot, Operations
<1>4. /\ \A x, y, z \in Vectors : KernelTyped(Axpby(x, y, z))
      /\ \A x, y \in Vectors : KernelTyped(Axpby(x, y, sol))
  BY <1>1, ThreeTyped DEF Axpby, Operations
<1>5. \A x \in Vectors : KernelTyped(Copy(x, b)) /\ KernelTyped(Direction(x))
  BY <1>1, OneTyped DEF Copy, Direction, Operations
<1>6. KernelTyped(Spmv)
  BY <1>1, <1>2, TwoTyped DEF Spmv, Operations
<1>7. KernelTyped(Invert)
  BY <1>1, <1>2, OneTyped DEF Invert, Operations
<1>8. KernelTyped(Beta) /\ KernelTyped(Kernel("alpha", <<>>, <<"dot_old", "tmp">>, <<"alpha", "alpha_neg">>, {}))
  BY <1>1, <1>2, PairTyped DEF Beta
<1>9. KernelTyped(Kernel("residual", <<>>, <<"mat", sol, "res">>, <<"res">>, {}))
  BY <1>1, <1>2, ThreeTyped DEF Operations
<1> QED
  BY <1>3, <1>4, <1>5, <1>6, <1>7, <1>8, <1>9

\* Kernels and pieces of work that are typed.
Typed(kernels) == Sequence(kernels) /\ \A k \in Range(kernels) : KernelTyped(k)
WorkTyped(work) == Sequence(work) /\ \A w \in Range(work) : KernelTyped(w.kernel)

LEMMA TypedTuples ==
  ASSUME NEW a, NEW b, NEW c, KernelTyped(a), KernelTyped(b), KernelTyped(c)
  PROVE  Typed(<<>>) /\ Typed(<<a>>) /\ Typed(<<a, b>>) /\ Typed(<<a, b, c>>)
BY TupleSequences, NoName, OneName, TwoNames, ThreeNames DEF Typed

LEMMA TypedJoined ==
  ASSUME NEW s, NEW t, Typed(s), Typed(t)
  PROVE  Typed(s \o t)
BY Concatenation DEF Typed

LEMMA ThenTyped ==
  ASSUME NEW work, WorkTyped(work), NEW stream, NEW from, NEW kernels, Typed(kernels)
  PROVE  WorkTyped(Then(work, stream, from, kernels))
BY ThenElements DEF Typed, WorkTyped

LEMMA InOrderTyped ==
  ASSUME NEW stream, NEW kernels, Typed(kernels)
  PROVE  WorkTyped(InOrder(stream, kernels))
BY InOrderElements DEF Typed, WorkTyped

LEMMA EnqueueTyped ==
  ASSUME KernelsTyped, issued \in Nat, NEW work, WorkTyped(work), Enqueue(work), session' = session
  PROVE  KernelsTyped' /\ issued' \in Nat
<1>1. \A k : KernelTyped(k)' <=> KernelTyped(k)
  BY DEF KernelTyped, Values
<1>2. \A t \in pending' : KernelTyped(t.kernel)
  BY EnqueuedElements DEF KernelsTyped, WorkTyped
<1>3. issued' \in Nat
  <2>1. Len(work) \in Nat
    BY SequenceDomain DEF WorkTyped
  <2> QED
    BY <2>1 DEF Enqueue
<1> QED
  BY <1>1, <1>2, <1>3 DEF KernelsTyped

\* The kernels of a preconditioner.
LEMMA SweepsTyped ==
  ASSUME NEW x \in {"res_p", "jacobi"}, NEW y \in {"res_p", "jacobi"}
  PROVE  /\ KernelTyped(Kernel("sweep", <<>>, <<"mat", "res">>, <<"res_p">>, {}))
         /\ KernelTyped(Kernel("sweep", <<>>, <<"mat", "res", x>>, <<y>>, {}))
<1>1. {"mat", "res", "res_p", "jacobi"} \subseteq Buffer
  BY DEF Buffer, Vectors
<1> QED
  BY <1>1, TwoTyped, ThreeTyped DEF Operations

LEMMA PreconditionTyped ==
  ASSUME session \in Sessions, HasPrec, NEW num_sweeps \in Nat, NEW inverse \in Range(Inverses)
  PROVE  Typed(Precondition(num_sweeps, inverse))
<1>1. session.prec \in {"identity", "diagonal", "jacobi"}
  BY SessionsAssumption DEF HasPrec
<1>2. {"mat", "res", "res_p", "jacobi", inverse} \subseteq Buffer
  BY DEF Buffer, Vectors
<1>3. CASE session.prec = "identity"
  <2> DEFINE q == Kernel("identity", <<>>, <<"res">>, <<"res_p">>, {})
  <2>1. KernelTyped(q)
    BY <1>2, OneTyped DEF Operations
  <2>2. Precondition(num_sweeps, inverse) = <<q>>
    BY <1>3 DEF Precondition
  <2> HIDE DEF q
  <2> QED
    BY <2>1, <2>2, TypedTuples
<1>4. CASE session.prec = "diagonal"
  <2> DEFINE q == Kernel("scale", <<>>, <<inverse, "res">>, <<"res_p">>, {})
  <2>1. KernelTyped(q)
    BY <1>2, TwoTyped DEF Operations
  <2>2. Precondition(num_sweeps, inverse) = <<q>>
    BY <1>4 DEF Precondition
  <2> HIDE DEF q
  <2> QED
    BY <2>1, <2>2, TypedTuples
<1>5. CASE session.prec = "jacobi"
  <2> DEFINE from(i) == IF i % 2 = 1 THEN "res_p" ELSE "jacobi"
             to(i) == IF i % 2 = 1 THEN "jacobi" ELSE "res_p"
             one == Kernel("sweep", <<>>, <<"mat", "res">>, <<"res_p">>, {})
             first == <<one>>
             more == [i \in 1 .. FurtherSweeps(num_sweeps) |->
                        Kernel("sweep", <<>>, <<"mat", "res", from(i)>>, <<to(i)>>, {})]
             copied == Copy("jacobi", "res_p")
             copy == IF num_sweeps > 1 /\ num_sweeps % 2 = 0 THEN <<copied>> ELSE <<>>
  <2>1. FurtherSweeps(num_sweeps) \in Nat
    BY DEF FurtherSweeps
  <2>2. Sequence(more)
    BY <2>1, SequenceMade
  <2>3. Typed(first)
    <3>1. KernelTyped(one)
      BY SweepsTyped
    <3> HIDE DEF one
    <3> QED
      BY <3>1, TypedTuples
  <2>4. \A q \in Range(more) : KernelTyped(q)
    <3> SUFFICES ASSUME NEW i \in 1 .. FurtherSweeps(num_sweeps)
                 PROVE  KernelTyped(more[i])
      BY DEF Range
    <3>1. from(i) \in {"res_p", "jacobi"} /\ to(i) \in {"res_p", "jacobi"}
      OBVIOUS
    <3> HIDE DEF from, to
    <3>2. KernelTyped(Kernel("sweep", <<>>, <<"mat", "res", from(i)>>, <<to(i)>>, {}))
      BY <3>1, SweepsTyped
    <3> QED
      BY <3>2 DEF from, to
  <2>5. Typed(copy)
    <3>1. KernelTyped(copied)
      BY <1>2, OneTyped DEF Copy, Operations
    <3> HIDE DEF copied
    <3> QED
      BY <3>1, TypedTuples
  <2>6. Precondition(num_sweeps, inverse) = first \o more \o copy
    BY <1>5 DEF Precondition, JacobiApply
  <2> HIDE DEF first, more, copy
  <2>7. Typed(more)
    BY <2>2, <2>4 DEF Typed
  <2> QED
    BY <2>3, <2>5, <2>6, <2>7, TypedJoined
<1> QED
  BY <1>1, <1>3, <1>4, <1>5

\* The kernels of the graphs.
LEMMA GraphUpdatesTyped ==
  ASSUME NEW sol \in Buffer
  PROVE  WorkTyped(GraphUpdates(sol))
<1> DEFINE spmv == Spmv
           dot == Dot("A", "tmp", "dir", "mat_dir")
           ratio == Kernel("alpha", <<>>, <<"dot_old", "tmp">>, <<"alpha", "alpha_neg">>, {})
           one == Axpby("alpha", "dir", sol)
           other == Axpby("alpha_neg", "mat_dir", "res")
           alpha == InOrder("A", <<spmv, dot, ratio>>)
           solved == Then(alpha, "A", {3}, <<one>>)
<1>1. KernelTyped(spmv) /\ KernelTyped(dot) /\ KernelTyped(ratio) /\ KernelTyped(one) /\ KernelTyped(other)
  BY KernelsOfSolvers DEF Vectors
<1>2. GraphUpdates(sol) = Then(solved, "A", {3}, <<other>>)
  BY DEF GraphUpdates, InOrder
<1> HIDE DEF spmv, dot, ratio, one, other
<1>3. WorkTyped(alpha)
  BY <1>1, TypedTuples, InOrderTyped
<1> HIDE DEF alpha
<1>4. WorkTyped(solved)
  BY <1>1, <1>3, TypedTuples, ThenTyped
<1> HIDE DEF solved
<1> QED
  BY <1>1, <1>2, <1>4, TypedTuples, ThenTyped

LEMMA CGGraphTyped ==
  ASSUME NEW sol \in Buffer
  PROVE  WorkTyped(CGGraphWork(sol))
<1> DEFINE dot == Dot("A", "tmp", "res", "res")
           dir == Axpby("tmp", "res", "dir")
           beta == Then(GraphUpdates(sol), "A", {5}, <<dot, Beta>>)
<1>1. KernelTyped(dot) /\ KernelTyped(dir) /\ KernelTyped(Beta)
  BY KernelsOfSolvers DEF Vectors
<1>2. CGGraphWork(sol) = Then(beta, "A", {4, Len(beta)}, <<dir>>)
  BY DEF CGGraphWork
<1> HIDE DEF dot, dir
<1>3. WorkTyped(beta)
  BY <1>1, GraphUpdatesTyped, TypedTuples, ThenTyped
<1> HIDE DEF beta
<1> QED
  BY <1>1, <1>2, <1>3, TypedTuples, ThenTyped

LEMMA PCGGraphTyped ==
  ASSUME session \in Sessions, HasPrec, NEW sol \in Buffer, NEW num_sweeps \in Nat,
         NEW inverse \in Range(Inverses)
  PROVE  WorkTyped(PCGGraphWork(sol, num_sweeps, inverse))
<1> DEFINE square == Dot("A", "res_dot", "res", "res")
           dot == Dot("A", "tmp", "res_p", "res")
           dir == Axpby("tmp", "res_p", "dir")
           norm == Then(GraphUpdates(sol), "A", {5}, <<square>>)
           prec == Then(norm, "A", {5}, Precondition(num_sweeps, inverse))
           beta == Then(prec, "A", Serialized({Len(prec)}, Len(norm)), <<dot, Beta>>)
<1>1. KernelTyped(square) /\ KernelTyped(dot) /\ KernelTyped(dir) /\ KernelTyped(Beta)
  BY KernelsOfSolvers DEF Vectors
<1>2. PCGGraphWork(sol, num_sweeps, inverse) = Then(beta, "A", {4, Len(beta)}, <<dir>>)
  BY DEF PCGGraphWork
<1> HIDE DEF square, dot, dir
<1>3. WorkTyped(norm)
  BY <1>1, GraphUpdatesTyped, TypedTuples, ThenTyped
<1> HIDE DEF norm
<1>4. WorkTyped(prec)
  BY <1>3, PreconditionTyped, ThenTyped
<1> HIDE DEF prec
<1>5. WorkTyped(beta)
  BY <1>1, <1>4, TypedTuples, ThenTyped
<1> HIDE DEF beta
<1> QED
  BY <1>1, <1>2, <1>5, TypedTuples, ThenTyped

\* The parts of the type invariant: memory and work in flight, and the host thread.
DeviceTyped == mem \in [Buffer -> Values] /\ KernelsTyped /\ issued \in Nat

Places == {"idle", "guess", "residuals", "loop", "quadratic", "norm", "next", "submit", "evaluate"}

Captured == [sol : Solutions \cup {"none"}, num_sweeps : Nat, inverse : Range(Inverses) \cup {"none"}]

HostTyped ==
  /\ call \in 0 .. Len(session.calls) /\ pc \in Places
  /\ iter \in 0 .. Allowed /\ reported \in -1 .. Allowed
  /\ res_nrm2 \in Values /\ res_dot_old \in Values
  /\ graph \in Captured
  /\ CountInv

TypedInv == DeviceTyped /\ HostTyped

LEMMA TypedIs == SessionInv /\ TypedInv => SolverTypeOK
<1>1. KernelsTyped => \A t \in pending : Range(t.kernel.args) \subseteq Values
  BY DEF KernelsTyped, KernelTyped
<1> QED
  BY <1>1 DEF TypedInv, DeviceTyped, HostTyped, Places, Captured, SolverTypeOK, SessionInv

\* The scalars that the host thread makes.
LEMMA ScalarsType ==
  ASSUME SessionInv, NEW op \in {"alpha", "beta"}, NEW x \in Values, NEW y \in Values
  PROVE  Results(op, <<x, y>>)[1] \in Values /\ Results(op, <<x, y>>)[2] \in Values
<1>1. Sequence(<<x, y>>) /\ Range(<<x, y>>) = {x, y} /\ Len(<<x, y>>) = 2
  BY TupleSequences, TwoNames
<1>2. op \in Operations /\ op # "sweep" /\ ResultsOf(op) = {1, 2}
  BY DEF Operations, ResultsOf
<1> QED
  BY <1>1, <1>2, ResultsType

\* What a call may ask for.
LEMMA AllowedType ==
  ASSUME StreamsInv, call \in 0 .. Len(session.calls)
  PROVE  /\ Allowed \in Nat
         /\ pc # "idle" => /\ Request.max_iters \in Nat /\ Request.max_iters <= Allowed
                           /\ session.graph => Allowed > 0
<1>1. SessionInv /\ DOMAIN session.calls = 1 .. Len(session.calls) /\ Len(session.calls) \in Nat
      /\ (pc # "idle" => call \in DOMAIN session.calls)
  BY RequestType DEF StreamsInv, SessionInv
<1>2. call # 0 => call \in DOMAIN session.calls
  BY <1>1
<1>3. call # 0 => Request.max_iters \in Nat
  BY <1>1, <1>2, RequestNumbers
<1>4. pc # "idle" => call # 0
  BY <1>1
<1> HIDE DEF Request
<1> QED
  BY <1>3, <1>4 DEF Allowed

\* Steps of a call: what they leave alone.
LEMMA CallKept ==
  ASSUME session' = session, call' = call
  PROVE  Values' = Values /\ Allowed' = Allowed /\ Request' = Request /\ HasPrec' = HasPrec
BY DEF Values, Allowed, Request, HasPrec

\* A step that enqueues work and leaves memory alone.
LEMMA EnqueueDevice ==
  ASSUME DeviceTyped, session' = session, mem' = mem, NEW work, WorkTyped(work), Enqueue(work)
  PROVE  DeviceTyped'
<1>1. Values' = Values
  BY DEF Values
<1> QED
  BY <1>1, EnqueueTyped DEF DeviceTyped

LEMMA SameDevice ==
  ASSUME DeviceTyped, session' = session, UNCHANGED deviceVars
  PROVE  DeviceTyped'
BY DEF DeviceTyped, deviceVars, KernelsTyped, KernelTyped, Values

\* What the host thread reads.
LEMMA ReadType ==
  ASSUME DeviceTyped
  PROVE  mem["tmp"] \in Values /\ mem["res_dot"] \in Values /\ mem["dot_old"] \in Values
BY DEF DeviceTyped, Buffer, Vectors

LEMMA ReturnsTyped ==
  ASSUME StreamsInv, TypedInv,
         ReturnGuess \/ QueueConverged \/ QueueReturn \/ EvaluateConvergence \/ GraphReturn
  PROVE  TypedInv'
<1>1. session' = session /\ call' = call /\ pc # "idle" /\ UNCHANGED deviceVars
      /\ res_dot_old' = res_dot_old /\ graph' = graph
  BY DEF ReturnGuess, QueueConverged, QueueReturn, EvaluateConvergence, GraphReturn, Go
<1>2. DeviceTyped'
  BY <1>1, SameDevice DEF TypedInv
<1>3. Values' = Values /\ Allowed' = Allowed /\ Request' = Request
  BY <1>1, CallKept
<1>4. Allowed \in Nat /\ Request.max_iters \in Nat /\ Request.max_iters <= Allowed
  BY <1>1, AllowedType DEF TypedInv, HostTyped
<1>5. res_nrm2' \in Values
  BY ReadType DEF TypedInv, HostTyped, ReturnGuess, QueueConverged, QueueReturn,
     EvaluateConvergence, GraphReturn
<1>6. iter' \in 0 .. Allowed /\ reported' \in -1 .. Allowed
  <2>1. CASE QueueConverged
    BY <1>4, <2>1 DEF TypedInv, HostTyped, CountInv, QueueConverged
  <2>2. CASE ReturnGuess \/ QueueReturn \/ EvaluateConvergence \/ GraphReturn
    BY <1>4, <2>2 DEF TypedInv, HostTyped, ReturnGuess, QueueReturn, EvaluateConvergence, GraphReturn
  <2> QED
    BY <2>1, <2>2
<1>7. pc' \in {"idle", "loop"}
  BY DEF ReturnGuess, QueueConverged, QueueReturn, EvaluateConvergence, GraphReturn, Go
<1>8. HostTyped'
  BY <1>1, <1>3, <1>5, <1>6, <1>7 DEF TypedInv, HostTyped, Places, Captured, CountInv
<1> QED
  BY <1>2, <1>8 DEF TypedInv

\* What has to be shown of the host thread when a step enqueues work.
LEMMA HostStep ==
  ASSUME TypedInv, session' = session, call' = call, reported' = reported, pc' \in Places,
         iter' \in 0 .. Allowed, res_nrm2' \in Values, res_dot_old' \in Values, graph' \in Captured,
         pc' \in {"guess", "residuals", "submit"} => iter' = 0,
         pc' \in {"quadratic", "norm", "next"} => iter' < Request.max_iters
  PROVE  HostTyped'
<1>1. Values' = Values /\ Allowed' = Allowed /\ Request' = Request
  BY CallKept
<1> QED
  BY <1>1 DEF TypedInv, HostTyped, Captured, CountInv

\* The kernels that start a direction.
LEMMA StartKernelsTyped ==
  /\ Typed(<<Direction("res")>>) /\ Typed(<<Direction("res_p")>>)
  /\ Typed(<<Spmv, Dot("A", "tmp", "dir", "mat_dir")>>)
  /\ Typed(<<Dot("A", "tmp", "res_p", "res")>>) /\ Typed(<<Dot("B", "tmp", "res_p", "res")>>)
  /\ Typed(<<Dot("A", "dot_old", "res_p", "res"), Direction("res_p")>>)
<1> DEFINE a == Direction("res")
           b == Direction("res_p")
           c == Spmv
           d == Dot("A", "tmp", "dir", "mat_dir")
           e == Dot("A", "tmp", "res_p", "res")
           f == Dot("B", "tmp", "res_p", "res")
           g == Dot("A", "dot_old", "res_p", "res")
<1>1. KernelTyped(a) /\ KernelTyped(b) /\ KernelTyped(c) /\ KernelTyped(d) /\ KernelTyped(e)
      /\ KernelTyped(f) /\ KernelTyped(g)
  <2>1. {"res", "res_p", "dir", "mat_dir"} \subseteq Vectors /\ "res" \in Buffer
    BY DEF Vectors, Buffer
  <2> QED
    BY <2>1, KernelsOfSolvers
<1> HIDE DEF a, b, c, d, e, f, g
<1>2. Typed(<<a>>) /\ Typed(<<b>>) /\ Typed(<<c, d>>) /\ Typed(<<e>>) /\ Typed(<<f>>) /\ Typed(<<g, b>>)
  BY <1>1, TypedTuples
<1> QED
  BY <1>2 DEF a, b, c, d, e, f, g

LEMMA StartCGTyped ==
  ASSUME StreamsInv, TypedInv, StartCG
  PROVE  TypedInv'
<1>1. /\ session' = session /\ call' = call /\ pc = "guess" /\ pc' \in {"submit", "loop"}
      /\ iter' = iter /\ reported' = reported /\ graph' = graph
      /\ res_nrm2' = mem["tmp"] /\ res_dot_old' = mem["tmp"]
      /\ mem' = IF session.graph THEN [mem EXCEPT !["dot_old"] = mem["tmp"]] ELSE mem
      /\ Enqueue(InOrder("A", <<Direction("res")>>))
  BY DEF StartCG, Go
<1>2. mem["tmp"] \in Values
  BY ReadType DEF TypedInv
<1>3. WorkTyped(InOrder("A", <<Direction("res")>>))
  BY StartKernelsTyped, InOrderTyped
<1>4. KernelsTyped' /\ issued' \in Nat
  <2> HIDE DEF InOrder
  <2> QED
    BY <1>1, <1>3, EnqueueTyped DEF TypedInv, DeviceTyped
<1>5. mem' \in [Buffer -> Values]'
  <2>1. Values' = Values
    BY <1>1, CallKept
  <2> QED
    BY <1>1, <1>2, <2>1 DEF TypedInv, DeviceTyped
<1>6. HostTyped'
  BY <1>1, <1>2, HostStep DEF TypedInv, HostTyped, CountInv, Places
<1> QED
  BY <1>4, <1>5, <1>6 DEF TypedInv, DeviceTyped

LEMMA PreconditionedTyped ==
  ASSUME StreamsInv, pc # "idle", HasPrec, NEW dots, Typed(dots), NEW stream
  PROVE  WorkTyped(InOrder(stream, Precondition(Request.num_sweeps, InverseOf(call)) \o dots))
<1>1. Typed(Precondition(Request.num_sweeps, InverseOf(call)))
  BY Calling, PreconditionTyped
<1> QED
  BY <1>1, TypedJoined, InOrderTyped

LEMMA StartPCGTyped ==
  ASSUME StreamsInv, TypedInv, StartPCG
  PROVE  TypedInv'
<1> DEFINE dots == IF session.graph
                     THEN <<Dot("A", "dot_old", "res_p", "res"), Direction("res_p")>>
                     ELSE <<Dot("A", "tmp", "res_p", "res")>>
           work == InOrder("A", Precondition(Request.num_sweeps, InverseOf(call)) \o dots)
<1>1. /\ session' = session /\ call' = call /\ pc = "guess" /\ pc' \in {"submit", "residuals"}
      /\ iter' = iter /\ reported' = reported /\ graph' = graph /\ mem' = mem
      /\ res_nrm2' = mem["tmp"] /\ res_dot_old' = res_dot_old /\ HasPrec
      /\ Enqueue(work)
  BY DEF StartPCG, Go
<1>2. Typed(dots)
  BY StartKernelsTyped
<1> HIDE DEF dots
<1>3. WorkTyped(work)
  BY <1>1, <1>2, PreconditionedTyped
<1> HIDE DEF work
<1>4. DeviceTyped'
  BY <1>1, <1>3, EnqueueDevice DEF TypedInv
<1>5. mem["tmp"] \in Values
  BY ReadType DEF TypedInv
<1>6. HostTyped'
  BY <1>1, <1>5, HostStep DEF TypedInv, HostTyped, CountInv, Places
<1> QED
  BY <1>4, <1>6 DEF TypedInv

LEMMA StartPCGQueueTyped ==
  ASSUME StreamsInv, TypedInv, StartPCGQueue
  PROVE  TypedInv'
<1> DEFINE work == InOrder("A", <<Direction("res_p")>>)
<1>1. /\ session' = session /\ call' = call /\ pc' = "loop"
      /\ iter' = iter /\ reported' = reported /\ graph' = graph /\ mem' = mem
      /\ res_nrm2' = res_nrm2 /\ res_dot_old' = mem["tmp"]
      /\ Enqueue(work)
  BY DEF StartPCGQueue, Go
<1>2. WorkTyped(work)
  BY StartKernelsTyped, InOrderTyped
<1> HIDE DEF work
<1>3. DeviceTyped'
  BY <1>1, <1>2, EnqueueDevice DEF TypedInv
<1>4. mem["tmp"] \in Values
  BY ReadType DEF TypedInv
<1>5. HostTyped'
  BY <1>1, <1>4, HostStep DEF TypedInv, HostTyped, Places
<1> QED
  BY <1>3, <1>5 DEF TypedInv

LEMMA QueueProductTyped ==
  ASSUME StreamsInv, TypedInv, QueueProduct
  PROVE  TypedInv'
<1> DEFINE work == InOrder("A", <<Spmv, Dot("A", "tmp", "dir", "mat_dir")>>)
<1>1. /\ session' = session /\ call' = call /\ pc' = "quadratic"
      /\ iter' = iter /\ reported' = reported /\ graph' = graph /\ mem' = mem
      /\ res_nrm2' = res_nrm2 /\ res_dot_old' = res_dot_old /\ iter < Request.max_iters
      /\ Enqueue(work)
  BY DEF QueueProduct, Go, Goes
<1>2. WorkTyped(work)
  BY StartKernelsTyped, InOrderTyped
<1> HIDE DEF work
<1>3. DeviceTyped'
  BY <1>1, <1>2, EnqueueDevice DEF TypedInv
<1>4. HostTyped'
  BY <1>1, HostStep DEF TypedInv, HostTyped, Places
<1> QED
  BY <1>3, <1>4 DEF TypedInv

LEMMA QueueUpdateTyped ==
  ASSUME StreamsInv, TypedInv, QueueUpdate
  PROVE  TypedInv'
<1> DEFINE alpha == Results("alpha", <<res_dot_old, mem["tmp"]>>)
           a == AxpbyBy(alpha[1], "dir", Request.sol)
           b == AxpbyBy(alpha[2], "mat_dir", "res")
           c == Dot("B", "tmp", "res", "res")
           solved == InOrder("A", <<a>>)
           work == Then(solved, "B", {}, <<b, c>>)
<1>1. /\ session' = session /\ call' = call /\ pc = "quadratic" /\ pc' = "norm"
      /\ iter' = iter /\ reported' = reported /\ graph' = graph /\ mem' = mem
      /\ res_nrm2' = res_nrm2 /\ res_dot_old' = res_dot_old
      /\ Enqueue(work)
  BY DEF QueueUpdate, Go
<1>2. alpha[1] \in Values /\ alpha[2] \in Values
  BY ScalarsType, ReadType DEF StreamsInv, TypedInv, HostTyped
<1>3. {"dir", "mat_dir", "res", Request.sol} \subseteq Buffer
  BY <1>1, Calling DEF Vectors
<1> HIDE DEF alpha
<1>4. KernelTyped(a) /\ KernelTyped(b)
  BY <1>2, <1>3, ScalarTyped
<1>5. KernelTyped(c)
  BY <1>3, KernelsOfSolvers DEF Vectors
<1> HIDE DEF a, b, c
<1>6. WorkTyped(solved)
  BY <1>4, TypedTuples, InOrderTyped
<1> HIDE DEF solved
<1>7. WorkTyped(work)
  BY <1>4, <1>5, <1>6, TypedTuples, ThenTyped
<1> HIDE DEF work
<1>8. DeviceTyped'
  BY <1>1, <1>7, EnqueueDevice DEF TypedInv
<1>9. HostTyped'
  BY <1>1, HostStep DEF TypedInv, HostTyped, CountInv, Places
<1> QED
  BY <1>8, <1>9 DEF TypedInv

LEMMA QueueNextTyped ==
  ASSUME StreamsInv, TypedInv, CGQueueNext \/ PCGQueueNext
  PROVE  TypedInv'
<1> DEFINE beta == Results("beta", <<res_dot_old, mem["tmp"]>>)
           a == AxpbyBy(beta[1], DirRes, "dir")
           work == InOrder("A", <<a>>)
<1>1. /\ session' = session /\ call' = call /\ pc \in {"norm", "next"} /\ pc' = "loop"
      /\ iter' = iter + 1 /\ reported' = reported /\ graph' = graph /\ mem' = mem
      /\ res_nrm2' \in {res_nrm2, mem["tmp"]} /\ res_dot_old' = mem["tmp"]
      /\ Enqueue(work)
  BY DEF CGQueueNext, PCGQueueNext, UpdateDirection, Go
<1>2. beta[1] \in Values /\ mem["tmp"] \in Values
  BY ScalarsType, ReadType DEF StreamsInv, TypedInv, HostTyped
<1>3. {"dir", DirRes} \subseteq Buffer
  BY DEF Buffer, Vectors, DirRes
<1> HIDE DEF beta
<1>4. KernelTyped(a)
  BY <1>2, <1>3, ScalarTyped
<1> HIDE DEF a
<1>5. WorkTyped(work)
  BY <1>4, TypedTuples, InOrderTyped
<1> HIDE DEF work
<1>6. DeviceTyped'
  BY <1>1, <1>5, EnqueueDevice DEF TypedInv
<1>7. iter' \in 0 .. Allowed
  <2>1. Allowed \in Nat /\ Request.max_iters \in Nat /\ Request.max_iters <= Allowed
    BY <1>1, AllowedType DEF TypedInv, HostTyped
  <2> QED
    BY <1>1, <2>1 DEF TypedInv, HostTyped, CountInv
<1>8. HostTyped'
  BY <1>1, <1>2, <1>7, HostStep DEF TypedInv, HostTyped, Places
<1> QED
  BY <1>6, <1>8 DEF TypedInv

LEMMA PCGQueuePreconditionTyped ==
  ASSUME StreamsInv, TypedInv, PCGQueuePrecondition
  PROVE  TypedInv'
<1> DEFINE dots == <<Dot("B", "tmp", "res_p", "res")>>
           work == InOrder("B", Precondition(Request.num_sweeps, InverseOf(call)) \o dots)
<1>1. /\ session' = session /\ call' = call /\ pc = "norm" /\ pc' = "next"
      /\ iter' = iter /\ reported' = reported /\ graph' = graph /\ mem' = mem
      /\ res_nrm2' = mem["tmp"] /\ res_dot_old' = res_dot_old /\ HasPrec
      /\ Enqueue(work)
  BY DEF PCGQueuePrecondition, Go
<1>2. Typed(dots)
  BY StartKernelsTyped
<1> HIDE DEF dots
<1>3. WorkTyped(work)
  BY <1>1, <1>2, PreconditionedTyped
<1> HIDE DEF work
<1>4. DeviceTyped'
  BY <1>1, <1>3, EnqueueDevice DEF TypedInv
<1>5. mem["tmp"] \in Values
  BY ReadType DEF TypedInv
<1>6. HostTyped'
  BY <1>1, <1>5, HostStep DEF TypedInv, HostTyped, CountInv, Places
<1> QED
  BY <1>4, <1>6 DEF TypedInv

LEMMA SubmitTyped ==
  ASSUME StreamsInv, GraphInv, TypedInv, SubmitFirst \/ SubmitAgain
  PROVE  TypedInv'
<1> DEFINE work == IF HasPrec
                     THEN PCGGraphWork(graph'.sol, graph'.num_sweeps, graph'.inverse)
                     ELSE CGGraphWork(graph'.sol)
<1>1. /\ session' = session /\ call' = call /\ pc \in {"submit", "loop"} /\ pc' = "evaluate"
      /\ iter' = iter + 1 /\ reported' = reported /\ mem' = mem
      /\ res_nrm2' = res_nrm2 /\ res_dot_old' = res_dot_old
      /\ pc = "loop" => iter < Request.max_iters
      /\ Enqueue(work)
  BY DEF SubmitFirst, SubmitAgain, SubmitGraph, Go, Goes
<1>2. session.graph
  BY DEF StreamsInv, PlacesInv, SubmitFirst, SubmitAgain
<1>3. graph'.sol \in Solutions /\ graph'.inverse \in Range(Inverses) /\ graph'.num_sweeps \in Nat
  BY <1>2, SubmitMade DEF GraphMade
<1>4. WorkTyped(work)
  BY <1>3, CGGraphTyped, PCGGraphTyped DEF StreamsInv, SessionInv, Buffer
<1> HIDE DEF work
<1>5. DeviceTyped'
  BY <1>1, <1>4, EnqueueDevice DEF TypedInv
<1>6. graph' \in Captured
  <2>1. \/ graph' = graph
        \/ graph' = [sol |-> Request.sol, num_sweeps |-> Request.num_sweeps, inverse |-> InverseOf(call)]
    BY DEF SubmitFirst, SubmitAgain
  <2> QED
    BY <1>3, <2>1 DEF TypedInv, HostTyped, Captured
<1>7. iter' \in 0 .. Allowed
  <2>1. /\ Allowed \in Nat /\ Request.max_iters \in Nat /\ Request.max_iters <= Allowed /\ Allowed > 0
    BY <1>1, <1>2, AllowedType DEF TypedInv, HostTyped
  <2> QED
    BY <1>1, <2>1 DEF TypedInv, HostTyped, CountInv
<1>8. HostTyped'
  BY <1>1, <1>6, <1>7, HostStep DEF TypedInv, HostTyped, Places
<1> QED
  BY <1>5, <1>8 DEF TypedInv

LEMMA BeginApplyTyped ==
  ASSUME StreamsInv, TypedInv, BeginApply
  PROVE  TypedInv'
<1> DEFINE sol == session.calls[call + 1].sol
           ahead == IF session.calls[call + 1].invert THEN <<Invert>> ELSE <<>>
           a == Copy("rhs", "res")
           b == Kernel("residual", <<>>, <<"mat", sol, "res">>, <<"res">>, {})
           c == Dot("A", "tmp", "res", "res")
           work == InOrder("A", ahead \o PrecomputeResidual(sol))
<1>1. /\ session' = session /\ call' = call + 1 /\ pc' = "guess"
      /\ iter' = 0 /\ reported' = -1 /\ graph' \in {graph, NoGraph}
      /\ res_nrm2' = res_nrm2 /\ res_dot_old' = res_dot_old /\ call < Len(session.calls)
      /\ Enqueue(work)
  BY DEF BeginApply
<1>2. SessionInv
  BY DEF StreamsInv
<1>3. call + 1 \in DOMAIN session.calls /\ call \in Nat /\ sol \in Solutions /\ Len(session.calls) \in Nat
  BY <1>1, <1>2, RequestType DEF SessionInv
<1>4. Values' = Values
  BY <1>1 DEF Values
<1>5. mem' \in [Buffer -> Values]
  <2>1. mem' = [q \in DOMAIN mem |->
                    CASE q \in {"mat", "rhs"} -> Value(q, call + 1, 0)
                      [] q = sol -> Value("sol", call + 1, 0)
                      [] OTHER -> IF q \in Members THEN mem[q] ELSE Garbage]
    BY DEF BeginApply
  <2>2. Value("mat", call + 1, 0) \in Values /\ Value("rhs", call + 1, 0) \in Values
        /\ Value("sol", call + 1, 0) \in Values /\ Garbage \in Values
    <3>1. {"mat", "rhs", "sol"} \subseteq Quantities /\ Garbage \in Values
      BY DEF Quantities, Values
    <3> QED
      BY <1>2, <1>3, <3>1, QuantityType
  <2>3. sol \notin {"mat", "rhs"}
    BY <1>3, BuffersAssumption DEF Vectors
  <2> HIDE DEF sol
  <2>4. mem \in [Buffer -> Values]
    BY DEF TypedInv, DeviceTyped
  <2>5. ASSUME NEW q \in Buffer
        PROVE  mem'[q] \in Values
    <3>1. CASE q \in {"mat", "rhs"}
      <4>1. mem'[q] = Value(q, call + 1, 0)
        BY <2>1, <2>3, <2>4, <2>5, <3>1
      <4> QED
        BY <2>2, <3>1, <4>1
    <3>2. CASE q = sol
      <4>1. mem'[q] = Value("sol", call + 1, 0)
        BY <2>1, <2>3, <2>4, <2>5, <3>2
      <4> QED
        BY <2>2, <4>1
    <3>3. CASE q \notin {"mat", "rhs"} /\ q # sol
      <4>1. mem'[q] = IF q \in Members THEN mem[q] ELSE Garbage
        BY <2>1, <2>4, <2>5, <3>3
      <4> QED
        BY <2>2, <2>4, <2>5, <4>1
    <3> QED
      BY <3>1, <3>2, <3>3
  <2> QED
    BY <2>1, <2>4, <2>5
<1>6. Typed(ahead)
  <2> DEFINE inv == Invert
  <2>1. KernelTyped(inv)
    BY <1>3, KernelsOfSolvers DEF Buffer
  <2>2. ahead \in {<<inv>>, <<>>}
    OBVIOUS
  <2> HIDE DEF inv, ahead
  <2> QED
    BY <2>1, <2>2, TypedTuples
<1>7. KernelTyped(a) /\ KernelTyped(b) /\ KernelTyped(c)
  <2>1. sol \in Buffer /\ {"rhs", "res"} \subseteq Vectors
    BY <1>3 DEF Buffer, Vectors
  <2> HIDE DEF sol
  <2> QED
    BY <2>1, KernelsOfSolvers
<1>8. PrecomputeResidual(sol) = <<a, b, c>>
  BY DEF PrecomputeResidual
<1>9. Typed(PrecomputeResidual(sol))
  <2> HIDE DEF a, b, c, sol
  <2> QED
    BY <1>7, <1>8, TypedTuples
<1>10. WorkTyped(work)
  <2> HIDE DEF ahead, sol
  <2> QED
    BY <1>6, <1>9, TypedJoined, InOrderTyped
<1> HIDE DEF work
<1>11. DeviceTyped'
  BY <1>1, <1>4, <1>5, <1>10, EnqueueTyped DEF TypedInv, DeviceTyped
<1>12. Allowed' \in Nat
  <2>1. session.calls[call + 1].max_iters \in Nat
    BY <1>2, <1>3, NumbersAsked
  <2>2. Allowed' = IF session.graph /\ session.calls[call + 1].max_iters = 0 THEN 1
                   ELSE session.calls[call + 1].max_iters
    BY <1>1, <1>3 DEF Allowed, Request
  <2> QED
    BY <2>1, <2>2
<1>13. HostTyped'
  <2>1. NoGraph \in Captured
    BY DEF NoGraph, Captured
  <2>2. graph' \in Captured
    BY <1>1, <2>1 DEF TypedInv, HostTyped
  <2>3. call' \in 0 .. Len(session.calls) /\ iter' \in 0 .. Allowed' /\ reported' \in -1 .. Allowed'
    BY <1>1, <1>3, <1>12
  <2> QED
    BY <1>1, <1>4, <2>2, <2>3 DEF TypedInv, HostTyped, Places, Captured, CountInv
<1> QED
  BY <1>11, <1>13 DEF TypedInv

LEMMA RunOneTyped ==
  ASSUME StreamsInv, TypedInv, RunOne
  PROVE  TypedInv'
<1>1. PICK t \in pending : RunKernel(t, Results(t.kernel.op, Operands(t)))
  BY DEF RunOne
<1>2. SessionInv /\ mem \in [Buffer -> Values] /\ KernelTyped(t.kernel)
  BY DEF StreamsInv, TypedInv, DeviceTyped, KernelsTyped
<1>3. mem' \in [Buffer -> Values]
  BY <1>1, <1>2, RunType
<1>4. UNCHANGED hostVars /\ session' = session /\ call' = call
  BY DEF RunOne, hostVars
<1>5. Values' = Values /\ Allowed' = Allowed /\ Request' = Request
  BY <1>4, CallKept
<1>6. KernelsTyped' /\ issued' \in Nat
  BY <1>1, <1>5 DEF RunKernel, TypedInv, DeviceTyped, KernelsTyped, KernelTyped
<1>7. HostTyped'
  BY <1>4, <1>5 DEF hostVars, TypedInv, HostTyped, CountInv
<1> QED
  BY <1>3, <1>5, <1>6, <1>7 DEF TypedInv, DeviceTyped

LEMMA InitTyped == Init => TypedInv
<1> SUFFICES ASSUME Init PROVE TypedInv
  OBVIOUS
<1>1. DeviceTyped
  BY DEF Init, DeviceTyped, KernelsTyped, Values
<1>2. SessionInv
  BY InitStreamsInv DEF StreamsInv
<1>3. HostTyped
  <2>1. Len(session.calls) \in Nat
    BY <1>2, RequestType
  <2>2. NoGraph \in Captured
    BY DEF NoGraph, Captured
  <2> QED
    BY <2>1, <2>2 DEF Init, HostTyped, CountInv, Places, Values, Allowed
<1> QED
  BY <1>1, <1>3 DEF TypedInv

LEMMA NextTyped == StreamsInv /\ GraphInv /\ TypedInv /\ [Next]_vars => TypedInv'
<1> SUFFICES ASSUME StreamsInv, GraphInv, TypedInv, [Next]_vars
             PROVE  TypedInv'
  OBVIOUS
<1>1. CASE BeginApply
  BY <1>1, BeginApplyTyped
<1>2. CASE Solve
  BY <1>2, ReturnsTyped, StartCGTyped, StartPCGTyped, StartPCGQueueTyped, QueueProductTyped,
     QueueUpdateTyped, QueueNextTyped, PCGQueuePreconditionTyped, SubmitTyped DEF Solve
<1>3. CASE RunOne
  BY <1>3, RunOneTyped
<1>4. CASE UNCHANGED vars
  <2>1. session' = session /\ call' = call /\ UNCHANGED deviceVars /\ UNCHANGED hostVars
    BY <1>4 DEF vars, hostVars
  <2>2. DeviceTyped'
    BY <2>1, SameDevice DEF TypedInv
  <2>3. HostTyped'
    BY <2>1, CallKept DEF hostVars, TypedInv, HostTyped, CountInv
  <2> QED
    BY <2>2, <2>3 DEF TypedInv
<1> QED
  BY <1>1, <1>2, <1>3, <1>4 DEF Next, Terminated

\* In any session the solver counts no more iterations than the call allows, and holds
\* nothing but quantities of the calls of that session, or what was made of memory that
\* nobody wrote: in memory, in the scalars that kernels captured, and on the host
\* (cg/Base.hpp:27-34, cg/Graph.hpp:181-191).
THEOREM TypeCorrect == Spec => []SolverTypeOK
<1>1. Init => StreamsInv /\ GraphInv /\ TypedInv
  BY InitStreamsInv, InitGraphInv, InitTyped
<1>2. StreamsInv /\ GraphInv /\ TypedInv /\ [Next]_vars => (StreamsInv /\ GraphInv /\ TypedInv)'
  BY NextStreamsInv, NextGraphInv, NextTyped
<1>3. StreamsInv /\ GraphInv /\ TypedInv => SolverTypeOK
  BY TypedIs DEF StreamsInv
<1> QED
  BY <1>1, <1>2, <1>3, PTL DEF Spec

=============================================================================
