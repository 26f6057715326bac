# TLA+ models of graph-dispatching

This directory specifies the part of the repository that dispatches work to a
device, and the programs in it that depend on the order of that work:

- senders that run on `Kokkos::Experimental::GraphContext`, which turn a chain of
  `stdexec` adaptors into one `Kokkos::Graph` that is instantiated once and
  submitted again and again;
- senders that enqueue each stage on an execution space;
- the conjugate gradient solvers, with and without a preconditioner, that are
  written with streams and with graphs;
- the Newton solver that calls them, on the heat transfer problem that it solves.

What the specifications say is model-checked with TLC. What matters most of it is
proved with TLAPS for every value of the constants: all safety properties of the
contexts, also under every sender; how a sender on graphs ends, and that nothing of
it is left on the device then; that a chain on graphs, and any sender on execution
spaces, do what senders promise, with an exception or without; that all variants of
the solvers leave nothing in flight, are free of races, and make and report the
iterates that they should.

    tlc -config GraphContext.cfg MCGraphContext        # contexts on their own
    tlc -config GraphSender.cfg  MCGraphSender         # senders, no failures
    tlc -config GraphFailure.cfg MCGraphSender         # senders, one failure
    tlc -config ExecSender.cfg   MCExecSender          # senders on execution spaces
    tlc -config CGSolver.cfg     MCCGSolver            # CG and PCG solvers
    tlc -config NewtonSolver.cfg MCNewtonSolver        # Newton solver, heat transfer
    tlapm GraphContextProofs.tla                       # contexts
    tlapm GraphSenderProofs.tla                        # contexts under any sender
    tlapm GraphSenderCompletion.tla                    # how senders on graphs end
    tlapm GraphSenderRefinement.tla                    # chains implement Pipeline
    tlapm ExecSenderProofs.tla                         # senders on execution spaces
    tlapm KernelsProofs.tla                            # facts about streams
    tlapm CGSolverProofs.tla                           # CG and PCG solvers
    tlapm NewtonSolverProofs.tla                       # Newton solver

## 1. The system

| component | state | operations | correct when |
|---|---|---|---|
| graph context (`kokkos_ext/impl/GraphContext.hpp`) | optional graph, `is_instantiated`, `is_submitted`, the execution space instance | `get_graph`, `submit`, `wait` | one launch in flight per context; a cleared flag means that the device is done; the graph is instantiated once and never changes for later launches |
| graph senders (`kokkos_ext/impl/graph/`) | one operation state per adaptor: node or exception, inner operation state, receiver | `connect` (builds the graph), `start`, `set_value`, `set_error`, `set_stopped` of `then`, `bulk`, `continues_on`, `schedule_from`, `when_all`, `fork_join`, `sync_wait` | stages run in the order of the sender, once per iteration; `sync_wait` returns when all is done, once, and reports exceptions; the program does not abort |
| environment queries (`env.hpp`, `get_exec.hpp`, `get_node.hpp`) | none (compile time) | `get_exec`, `get_node`, upserting and forwarding | the answer is the stream or node that the surrounding adaptors use |
| execution-space context and senders (`ExecutionSpaceContext.hpp`, `execution_space/`) | the instance; one operation state per closure | enqueue a closure, fence or skip the fence, `scoped_region` | a fence is skipped only if the successor enqueues on the same instance |
| earlier interface (`Kokkos_Graph_Execution.hpp`, `ChainHandler`, `PartialAlgorithm*`) | a node | the pipe syntax over Kokkos graphs | superseded by graph contexts |
| CG and PCG solvers (`algorithms/cg`, `algorithms/pcg`) | device vectors, pinned scalars; PCG keeps its graph between calls; the diagonal preconditioner keeps the inverse it made last | `apply` with two streams and fences, or with one graph submitted per iteration; `init` of the diagonal preconditioner; callers may set `num_sweeps` between calls | no two conflicting kernels are unordered; both variants do the same iterations; nothing is in flight on return |
| Newton solver (`algorithms/newton`) | the vector of corrections, allocated by each call | `solve`: assemble, norm, linear solve, correct | each correction is one of the current solution and is subtracted once; the residual that is returned is that of the solution |
| heat transfer (`apps/heat`) | solution, structure of the matrix, its values, right-hand side, element contributions, cached graph | `init`, `assemble` on three streams or in a graph | resets meet no reader, and the scatter starts from zero |
| pool (`utils/pool.hpp`) | a vector of instances | `get` | users follow the single-entry single-exit convention |
| tests, examples, benchmarks, build files | | | not part of the program |

**How they interact.** `stdexec::sync_wait` (customised for a sender that
completes on a graph) connects the sender to its receiver. Constructors of the
operation states run innermost first; each stage asks the one inside of it, or
its environment, for its node (`get_node`) and adds its own node after it.
`start` then walks inwards, and `set_value` walks outwards: the receiver of
each stage calls `State::submit`, which launches the graph of its context on
the stream, and completes the next receiver immediately, long before the device
has run anything. Where the sender leaves the graph, `schedule_from` waits,
unless the environment (`get_exec`) says that somebody further out will wait
for the same stream. Contexts are shared by all operation states through a raw
pointer, outlive them, and are the only state that survives a reconnection by
`exec::repeat_until`.

The solvers use neither senders nor contexts: they enqueue kernels on instances of
a pool, or submit a Kokkos graph of their own. The Newton solver calls `assemble`
of the problem, which resets the system on the second and third instance; it then
waits for the norm, calls `apply` of a linear solver on the same system, and
enqueues the correction on the first instance without waiting for it.

**What is hard.** Host and device run concurrently and agree only through
fences, most of which are skipped; the whole graph runs at the first `submit`,
including nodes of stages whose completion signals have not been sent;
reconnection meets a graph that must not change; contexts may share a stream;
an exception thrown in a constructor is kept until `start`. In the solvers, what
one call or iteration leaves in a vector, a graph or on a stream is met by the
next one. The list of hazards,
each at its line and with the properties that guard it, is in `PROJECT.json`.

## 2. Modules

### GraphContext

The state of every context and of the streams. `has_graph`, `is_instantiated`
and `is_submitted` are the members of `State`; `nodes` and `dep` stand for the
Kokkos graph, `instance` for what `instantiate()` froze of it, `queue[e]` for
what is enqueued on execution-space instance `e`. `GetGraph`, `Submit` and
`Wait` are the three member functions, guards and early returns included:
`Submit` does nothing without a graph or while the context is marked, `Wait`
blocks until the stream is empty only if the context is marked. `AddNode` is
what Kokkos does for a stage. Functors, labels and policies are left out.

The device (`RunNode`, `Retire`) works through each stream in order and runs the
nodes of one launch in any order their dependencies allow: what Kokkos promises
for a graph, no more. Streams do not wait for each other.

`ContextSpec` lets any client call any operation in any order, subject to the
discipline of `proceed()`: `BuildNode` does not touch an instantiated graph of
the stage's own context. A node goes to the graph its predecessor is in, which
after a change of context is not the graph of the stage's own context, hence
the two parameters `c` and `g`. `BuildAggregate` is `when_all`, which does not
ask `proceed()`.

### GraphSender

Composes those operations with the control flow of connect and start. A sender
is a finite sequence of operation states in order of construction; the module
comment gives the record. Connecting is one action per operation state
(`ConnectThen`, `ConnectThenThrows`, `ConnectContinuesOn`, `ConnectWhenAll`,
...). Running is one action per call: `calls` is the stack of calls the host
thread still has to make, and every function that calls `start`, `set_value`,
`set_error` or `set_stopped` of another pushes them in the order of the source.
A function that completes its receiver and then goes on, as `ThenOpState::start`
does, therefore pushes two calls.

| in the code | in the module |
|---|---|
| constructors of `ThenOpState`, `BulkOpState`, `create_node`, `proceed` | `ConnectThen`, `ConnectThenThrows`, `ConnectThenWithoutNode`, `Proceed` |
| `get_predecessor`, `query_node`, `query(get_node_t)`, `Kokkos::abort` | `Predecessor`, the `Answer` records in `anchor`, `ConnectAborts` |
| `ContinuesOnOpState` together with the `ScheduleFromReceiver` inside of it | `ConnectContinuesOn`, `StartInner`, `ValueContinuesOn`, `SkipScheduleFrom` |
| `WhenAllOpState`: constructor, `start`, `child_completed`, `child_error` | `ConnectWhenAll`, `StartWhenAll`, `ValueChild`, `ErrorChild`, `Joined` |
| `ForkJoinOpState` | two records: `fork` (constructor, `_complete`) and `fork_join` (the join side) |
| `SyncWaitReceiver`, `SyncWait` | `Complete`, `CompleteWithError`, `CompleteStopped`, `Return` |
| `get_exec` in the environments | `ExecEnv` |
| host schedulers, `stdexec::then`, `exec::repeat_until` | `ValueHostStage`, `ThrowHostStage`, `Repeat` (external, as the code uses them) |

One host thread is modelled, as in the code: host schedulers complete inline.
Every context has the same execution-space type, so the `same_as` tests on
types (`schedule_from.hpp:72`) are true and the comparison of instances decides.
An operation state keeps its shape at run time, so `Kind`, `CtxOf`, `Child` and
the environment are functions of the sender, which no action changes.

`WellFormed` says which sequences are senders: every operation state but the
outermost is inside of exactly one later one, each kind has as many inside as its
constructor takes, a stage is on the context of what it is inside of (unless that
has no scheduler), a
`fork_join` consists of its two halves, and all branches of a `when_all` are on one
graph, which the code assumes as well (`when_all.hpp:15`). `SenderAssumption`
requires it of all senders; TLC evaluates it for those of the instances.

`Careful` asks more of a sender, and not every one that the code accepts meets it:
what a stage launches is fenced somewhere on the way out (`Catches`: by a receiver
that waits for its context, or for another one of the same stream which a later
stage has submitted), and before a stage on the host that may throw and bypass the
fence. `Above`, the way out, is the sequence of receivers up to the consumer.
`Orderly` is a condition on chains under which stages run as they are written: a
chain does not come back to a stream that it left nor pass it to another context,
and it has its first stage on a graph on the context where it came to the graph.

### Pipeline

What a sender promises, without contexts, graphs, fences or streams: stages run
in order, in each of `rounds` rounds, `Return` needs every stage to have run in
every round, and nothing runs afterwards. `GraphSender` implements it:
`KeepsPromise` is `Pipeline!Spec` under the mapping of `runs` (on the device or
on the host) and of `phase`. A launched graph that runs a stage too early, a
fence skipped wrongly, a stage that is not run in some round, or a `sync_wait`
that returns early each break it.

### ExecSender

Senders on execution-space instances. There is no graph: a stage is enqueued
when its value signal arrives and completes its receiver at once, so all order
comes from instances being first in, first out and from the fences that are not
skipped. A sender is the sequence of receivers that the domain makes of the
adaptors (`Transform`, one clause per `transform_sender_for`); `signal[h]` is
what host thread `h` is about to deliver, and to which of them. Each action is
one call of `set_value`, `set_error` or `set_stopped`.

| in the code | in the module |
|---|---|
| `Domain`, `transform_sender_for<...>` | `Transform`, `Stage`, `Leave`, `Enter`, `Bracket` |
| `get_exec`, `upsert_in_env_or_join`, forwarding environments | `ExecEnv`, `NamesInstance`, `Queryable` |
| `OpStateBase::propagate_completion_signal` | `Execute`, `Throw`, `Continue` with `SkipContinuation`, `Forward` |
| `ScheduleFromReceiver`, `ContinuesOnReceiver` | `ScheduleFrom` with `SkipScheduleFrom`, `ContinuesOn`, `Forward` |
| `RegionReceiver` (push and pop) | `Region` |
| `SyncWaitReceiver`, and the `sync_wait` of stdexec for senders that end on the host | `Complete` (`Fenced(Host)` is true) |
| `when_all`, thread pools, `repeat_until` | `Join`, `Stop`, several `heads`, `Start` (external, as the code uses them) |

`WellFormed` says what `Transform` and the joins make: a chain of receivers or two
that meet in a join, with environments that name the instance of a stage or none.
`Careful` is the condition under which skipping fences is right: an error that is
raised while something may be in flight meets a fence later (`ErrorsFenced`), and
nothing is in flight when a host stage runs (`HostStagesWait`).

It implements `Pipeline`, like `GraphSender`. Unlike there, branches of a join
run on host threads of their own, and a functor that may throw is part of the
sender (`throws`), as `ThrowsWhenCopied` is in the tests.

### Kernels

Kernels in flight, the streams they are on and the buffers they read and write.
A kernel waits for what was enqueued before it on its stream and, as a node of a
graph, for its predecessors; `RunKernel` runs any kernel that need not wait. The
last operator, `NoRace`, compares those that could run at the same time. It is
a module of its own because everything that dispatches kernels can be written
with `Then`, `Enqueue` and `Fenced`.

### CGSolver

`CGQueue`, `CGGraph`, `PCGQueue` and `PCGGraph`, told apart by the session: in a
graph or not, and which preconditioner (`"none"` for the CG solvers). An action
is what the host thread does between two fences, in the order of `apply()`: `pc`
names where it waits. Scalars that the queue variants compute on the host are
captured by value (`AxpbyBy`), those of the graph variants live in a buffer
(`Axpby`).

| in the code | in the module |
|---|---|
| residual of the guess, first test | `BeginApply`, `ReturnGuess` |
| direction and first dot product | `StartCG`, `StartPCG`, `StartPCGQueue` |
| body of the queue loop, from fence to fence | `QueueProduct`, `QueueUpdate`, `QueueConverged`, `CGQueueNext`, `PCGQueuePrecondition`, `PCGQueueNext`, `QueueReturn` |
| definition of the graph | `GraphUpdates`, `CGGraphWork`, `PCGGraphWork`, `Serialized` |
| first submission, loop | `SubmitFirst`, `EvaluateConvergence`, `SubmitAgain`, `GraphReturn` |
| the identity, diagonal and Jacobi preconditioners | `Precondition`, `JacobiApply` |
| `init()` of the diagonal preconditioner: a new view, the inverse of the matrix at hand | `Invert`, `InverseOf` |
| what the graph of `PCGGraph` captured when it was built | `graph`: solution view, number of sweeps, inverse view |

Numbers are abstracted to what they are: a buffer holds "the residual of iterate
2 in call 1". `Rules` says which operands give which result, taken from the
functors (`DivideAndSwap`, `Axpby`, ...); anything else gives `Garbage`, also a
preconditioned residual after too few sweeps, or with the inverse of an earlier
matrix. Whether a residual is above the tolerance is a parameter of the call.
Kernels run in one step, so two that may overlap are not interleaved within;
`NoConcurrentAccess` shows that none of them touches what another one writes,
which is why one step is enough.

`BuffersAssumption` says that the views of callers and solver are different ones, and
that the view which `init()` of the diagonal preconditioner allocates is a new one.

### HeatTransfer

The problem: its views, the kernels that set them up (`InitWork`), and the two
ways of assembling the system at the current solution. A version of the solution
is the number of corrections made to it, and every quantity says at which version
it was computed. `Scatter` adds, so its result is a system only if both sums were
zero before. The element matrices and right-hand sides are one buffer, as `Fill`
writes and `Scatter` reads both.

### NewtonSolver

`solve()` on that problem, on a pool of three instances.

| in the code | in the module |
|---|---|
| allocation of `delta`, first `assemble()` | `BeginSolve` |
| `assemble()` without a graph, up to the fences and after them | `FillAndReset`, `ScatterAfterResets` |
| `assemble()` with a graph | `AssemblyGraph` |
| norm of the right-hand side, which blocks | `FirstNorm`, `NextNorm` |
| `apply()` of the linear solver | `BeginApply`, `ApplyReturnsGuess`, `ApplyIterates`, `ApplyReturns` |
| `sol -= delta`, `assemble()` of the next iteration | `Correct` |
| the loop and the return | `Goes`, `ReturnSolution` |

The linear solver is reduced to what `CGSolver` shows of it: it reads the system
and its guess, improves `delta` an iteration at a time on the first instance and
leaves nothing in flight; how many iterations it makes is open, up to `MaxInner`.
That `PCGGraph` goes on improving the vector of the call in which its graph was
built is kept (`captured`, `Target`). The code keeps the graph of the assembly; it
always captures the same views, so the model builds it anew each time.

### IterativeSolver

What a caller of any of the solvers may expect: iterates one by one while the
residual is above the tolerance and `max_iters` allows, in every call; their
number, and the residual of the solution that is returned, not of an earlier one.
`CGSolver` implements it with the iterate that the solution view holds,
`NewtonSolver` with the version of the solution counted from the call
(`SolvesAsPromised` in both).

### MCGraphContext, MCGraphSender, MCExecSender, MCCGSolver, MCNewtonSolver

The instances that TLC checks. `MCGraphSender` builds senders: all chains of up
to four adaptors, and the joins and forks of the tests. `MCExecSender` does the
same for execution spaces.

### Proofs

`GraphContextProofs`, `GraphSenderProofs`, `GraphSenderCompletion`,
`GraphSenderRefinement`, `ExecSenderProofs`, `KernelsProofs`, `CGSolverProofs` and
`NewtonSolverProofs` (section 4). Each extends the module it is about.

## 3. Runs

| run | instance | shows |
|---|---|---|
| `graph_context` | three contexts on two streams, three nodes, all call orders (114,162 states) | the flags suffice: `FlagCoversLaunches`, `OneLaunchPerContext`, `LaunchesRespectDependencies`, `InstantiatedOnce`, and every stream drains |
| `graph_sender` | 1,013 senders, no exceptions, up to three rounds (26,730 states) | senders implement `Pipeline`; nothing in flight on return; one completion; no abort; the graph is built in the first round only; `sync_wait` ends |
| `graph_failure` | the same and two stopped senders, at most one stage throws (45,055 states) | nothing in flight on any way out, but one that is named; exceptions reach the caller; no stage overtakes another unless the other is missing because of the failure; all these senders are `Careful`, so the proof about `NothingInFlight` applies to them; `sync_wait` ends |
| `exec_sender` | 2,406 senders on two instances and the host, stages that may throw, chains that end on the host run twice (38,651 states) | the fences that remain order all stages; nothing in flight on any way out; nothing runs after a stage that threw, and the caller hears of it; all these senders are `Careful`, which is what the proofs require; `sync_wait` ends |
| `cg_solver` | two calls of each solver: all orders of kernels, 0 to 4 sweeps or another preconditioner, 0, 1 or 3 iterations allowed, a guess that is good, a tie, or never good enough; queue variants with another solution view, another number of sweeps or a new matrix with its inverse in the second call (106,228 states) | no conflicting kernels overlap, nothing is in flight on return, all four implement `IterativeSolver`, and `apply()` returns |
| `newton` | two calls of `solve()` on one problem, with each way of assembling; 0, 1 or 3 iterations allowed, a solution that is good at once, after one or two corrections, or never; every number of inner iterations up to two (37,311 states) | resets and scatter meet nothing that conflicts; only the first instance is busy outside of `assemble()`, none on return; both ways implement `IterativeSolver`; `solve()` returns |

Six runs show where the code does not do what a comment or a test of the
repository says; each is a finding in `PROJECT.json` with the lines quoted.

| run | shows |
|---|---|
| `stage_after_failure` | after the node of a stage could not be built, a host stage that follows it runs |
| `repeated_join` | `when_all` under `repeat_until` aborts in its second iteration |
| `shared_stream` | two contexts on one stream: the first is not launched again in the second iteration |
| `second_apply` | `PCGGraph` ignores a new number of sweeps inside its loop |
| `unfenced_error` | an exception followed by a transition to the host: `sync_wait` throws while an earlier stage is in flight |
| `host_after_join` | a branch of `when_all` does not fence because of an instance behind the next host stage, which runs too early |

**Bounds.** Three contexts on two streams are the least with both a shared
stream and a second one; which of two contexts a third one meets first does not
matter. Three nodes give chains and joins of dependencies, and a node that is
added late. Four adaptors after the source are enough for every pair of
transitions with a stage between or after them. Three rounds distinguish the
first (builds), the second (finds the instance) and a later one (finds what a
round without building leaves). `MaxThrows = 1`: a second failure meets an
operation state that already has no node. `MaxOps` only sizes the set of nodes.

Two calls of a solver show what a call leaves to the next; three iterations use
`DivideAndSwap` on its own result. Four sweeps end in either buffer, with and
without a copy. `Scratch` is on in all sessions but some of `PCGGraph`, where
its absence takes a dependency away. The first call of each pair allows no, one or
three iterations, so the second one meets a solver that never iterated, that has
just built its graph, and that has used it.

`solve()` is called twice: the second call meets the solution, the system and, in
a graph, the captured vector of the first. With three versions each quantity is
computed from one that was replaced before. `MaxInner = 2` tells the first
iteration of the linear solver, which meets the guess, from a later one; a linear
solver that never iterates returns its guess.

**Which solver calls.** `cg_solver` gives graph solvers neither `max_iters = 0`,
for which they make an iteration all the same, nor a guess whose residual equals
the tolerance, for which they make one iteration and the queue variants none.
`PCGGraph` gets the same solution view, number of sweeps and inverse in both
calls: its graph holds those of the first (`second_apply` shows it for the
sweeps). For the same reason `newton` lets a solver with a graph call its linear
solver in one of the two calls only (`SolvesOnce`): in the second one `PCGGraph`
would improve the vector of the first.

**Which senders.** `graph_sender` and `graph_failure` leave out the senders for
which the code is known not to keep the promise, by the condition `Orderly` on
chains and the choice of branches in `Joins`:

- a chain that comes back to a stream it left, or hands over to a context that
  shares its stream (graph, host and the same graph again: the last stage runs before the host
  stage; `shared_stream` is the other case);
- a chain that comes to a graph on one context and has its first stage there on
  another: the node of the stage goes to the graph it came to first, which is never
  submitted;
- joins whose second branch begins on the host: the stage of the first branch
  launches the nodes of all branches;
- joins and forks under `repeat_until` (`repeated_join`).

The same holds for `when_all` over one context followed by `continues_on` to a
second one on another stream without an intermediate fence: `when_all` skips its
wait whichever stream the environment names (`when_all.hpp:86`).

`exec_sender` leaves out chains in which an error overtakes work that nobody
fences afterwards (`Sound` in `MCExecSender`; `unfenced_error` is the shortest),
and joins that end on an instance without its being the first thing that
follows (`host_after_join`). One branch of a join ends on the host, as in the
tests: what `when_all` advertises if all end on instances is a matter of
stdexec.

**Fairness.** `WF` on the step of the host thread: it is a thread of the
operating system that runs unless it is blocked in a fence, where `Wait` is not
enabled. `WF` on each stream: the device makes progress on what was enqueued,
which is what makes any `fence()` return. In `ExecSender`
the host step is that of any thread: each has finitely many, so none is starved
for good. In `CGSolver` the host and the device alternate, so one
`WF` on "either of them does something" is enough for `ApplyReturns`;
`NewtonSolver` has one `WF` for each. Neither assumes that `apply()` or `solve()`
is called again (`BeginApply`, `BeginSolve`): that is up to the caller. Nothing is
assumed about the order of different streams. What could keep `apply()` or `solve()` from
returning is a way round their loops that neither notes the residual nor counts the
iteration; the mutants of both properties are such ways. No strong fairness is needed: a step that is enabled stays
enabled until it is taken.

**Deadlock** is checked in every run. `Terminated` is the only step after the
end, and it requires the streams to be empty.

**Mutants.** Operators marked `Mutant` in the modules are defects one could
make in the definition below them. Each property is violated when one of them
takes its place.

**An abort.** With an exception, a sender can also end with `Kokkos::abort`: two
stages after the one whose node could not be built, the node of a stage without a
node is asked for. Nothing in the repository promises otherwise in general, so
`graph_failure` accepts it and `NeverAborts` is checked without exceptions only.

## 4. Proofs

**Contexts.** `GraphContextProofs` proves, for any sets of contexts, streams and
nodes and any assignment of contexts to streams (`ContextAssumption`), that
`ContextSpec` satisfies `ContextTypeOK`, `LaunchesRespectDependencies`,
`FlagCoversLaunches`, `OneLaunchPerContext` and `InstantiatedOnce`.

None but the type invariant is inductive. `FlagCoversLaunches` needs to know
that a fence of the context's stream empties the launches of the context, so
every launch must be on the stream of its context; `LaunchesRespectDependencies`
needs that instantiation freezes a set of nodes closed under dependencies, so
the graph itself must be closed, although it is extended after its
instantiation by `BuildAggregate` and by stages of other contexts. `IInv` adds
both:

- `GraphInv`: an instance is part of its graph, and both are closed under `dep`;
- `LaunchInv`: a launch is on the stream of its context, which is marked as
  submitted; it is the only one of the context there; what it has run is part of
  the instance and closed under `dep`.

The preservation proof has one lemma per action, on top of three lemmas about
sequences (appending, dropping the first, changing the first). `InstantiatedOnce`
follows step by step from `Submit` being the only action that writes `instance`,
and only when `is_instantiated` is not set.

**Contexts under senders.** `GraphSenderProofs` proves the same five for `Spec` of
`GraphSender`: for any set of well-formed senders (`SenderAssumption`), with any
shape, any number of rounds and any number of exceptions, and the type invariant
of the host thread's state with its stack of calls. This includes the senders that
the runs leave out because stages overtake each other.

A step of a sender is not a step of `ContextNext`: connecting a stage may look
several graphs up, and that the node it adds is a new one, whose predecessors are
in one graph, is a matter of the sender. `SenderInv` adds

- `AnchorInv`: what an operation state answers to `get_node` are nodes of one
  existing graph, of a context that the sender names up to there;
- `FreshInv`: nodes belong to earlier rounds or to operation states that were
  constructed before, so the next one has none.

The hard case is `when_all`, which joins answers of several branches: that they
are in one graph follows from `AnchorInv` and from the branches being on one
context. The lemmas about `IInv` are those of `GraphContextProofs`.

**How senders end.** `GraphSenderCompletion` proves five properties of `Spec` of
`GraphSender`, for any set of well-formed senders, any number of rounds and any
number of exceptions. All of them are about calls that are pending on the host
thread, so the first part derives from `WellFormed` what the way out of an operation
state is like (`AboveFacts`, `AbovePath`: two ways out that meet stay together), by
well-founded induction on positions. Each invariant then says where on that way the
pending calls are.

- `StackInv`: behind a call inside of a `when_all`, the code of that `when_all` is
  pending. Without it, nothing tells that the value of a child is not lost.
- `SenderCompletesOnce`: `CompletesOnce` unless `Broken`, that is unless a stage
  holds the exception of a node that could not be built; that stage goes on after
  it has reported the error and completes the consumer again. `OnceInv` says that
  only calls inside of a `when_all` have others behind them.
- `SenderNeverAborts`: `NeverAborts` in the first round and unless a stage has
  thrown. Both conditions are needed: `repeated_join` aborts in the second round,
  and two stages after one that threw there is an abort as well. `AbortInv`: then
  nothing is instantiated before the sender runs, and all answers are valid.
- `SenderErrorsReported`: `ErrorsAreReported` without further conditions. `ErrInv`
  says where errors come from, `ReportInv` that an exception which was thrown outside
  of every fork side is with the consumer, on its way there, held by a `when_all`
  whose code is pending, or held by a stage that is still to be started. The
  consumer keeps an error it holds, hence the second completion does not hide it.
- `SenderNothingInFlight`: `NothingInFlight` for senders that are `Careful`.
  `CoverInv` says that for each context with a launch on the device some pending
  call leads to the fence (`Carries`): a value on the way out of a stage of the
  context that has not met a fence for it yet, the code of a `when_all` around it,
  or the start of the join side after the fork side. The fence may be one of
  another context on the stream, which waits only if that context is marked; so
  `Carries` includes that contexts submitted on the way are still marked
  (`Marked`). The invariant has one exception, `Failing`: the error of a branch of
  a `when_all` replaces the value that would have led to the fence. The exception
  is part of the property, since the code leaves it open.
- `SenderGraphBuiltOnce`: `GraphBuiltOnce` for senders without branches (`Linear`),
  in any round and whatever throws; and `RepeatedNeverAborts`: in later rounds, such
  a sender does not abort either. `proceed()` only looks at the graph of the stage's
  own context, while its node goes to the graph of its predecessor; that this is
  enough follows from `RoundInv`: a value that came from inside of a stage has
  submitted the graph of the stage, so `repeat_until` connects anew only when the
  graphs of all stages are instantiated. A `when_all` does not ask `proceed()`: one
  whose branches have no stage of their own would add its node in every round.

**Chains implement `Pipeline`.** `GraphSenderRefinement` is about chains: senders
without branches (`Linear`), of any length, over any contexts and the host, repeated
any number of times. What a launch runs is decided when the sender is connected: one
submission runs every node of its graph, also those of stages that the value has not
reached, and a graph that holds nodes of stages on several contexts is submitted by
the stages of only one of them. So neither the order of values nor the order of nodes
is enough, and two invariants relate them.

- `BuildInv`: consecutive stages and transitions on graphs form a segment (`Start`),
  each of which asks the one before for its node. The nodes of a segment are in one
  graph, that of the context where the segment begins (`Home`), each after the node of
  the stage before; stages that have no node are those that could not be
  built, or come after one. An instance holds all nodes of its graph.
- `HostInv`: where the value is (`p`) tells which contexts are marked (`Marks`) and how
  often every stage has run (`Counts`): a stage on the host has run in this round if
  it is before `p`; one on a graph if some stage of its segment is before `p`, and so
  the segment was launched, unless the launch has not come to its node (`Left`).

They give `SkippedInChains`, for all orderly chains and whatever throws: if a stage ran
and one before it did not, then that one or one before it threw. The refinement,
`ChainKeepsPromise`, has further conditions, none of which can be left out:

- `Orderly`: `shared_stream` is a chain that passes its stream on to another
  context, and its stages do not run in order;
- not stopped on a graph: `graph::sync_wait` returns an engaged optional as well when
  it has received `set_stopped` (`Return`), so it returns although no stage has run;
- `[]~Broken`, no stage whose node could not be built: `stage_after_failure` shows that
  later stages run all the same. `QuietChainKeepsPromise` has no such condition on
  behaviours, since nothing throws there; it is the case that `graph_sender` checks.

A stage that throws when it runs on the host is allowed: by `HostInv` the consumer
holds a value only if nothing has thrown, and `OutcomeInv` says who tells it that the
sender was stopped. `ChainsAreCareful` shows that orderly chains meet
what `SenderNothingInFlight` asks for, which run `graph_failure` checks of its senders.

**Senders on execution spaces.** `ExecSenderProofs` holds for any set of senders that
are `WellFormed`, on any number of instances. `IInv` follows each host thread. What
is enqueued on an instance is in the order of the sender and upstream of the thread
that enqueued it; a stage that a thread has passed has run, is enqueued, or comes
after one that threw; and, the part that makes skipped fences right, a stage that
is in flight at a receiver is one that `MayFly` allows there: the environment of
the receiver names its instance, and nobody has fenced it in between. Without this
last part, no fence can be shown to be the last one needed.

- `ExecTypeCorrect` and `FailureStops` hold without further conditions.
- `Synchronized`: `LaunchedWorkIsSynchronized` on every way out but a throw, and on
  that one if errors meet a fence (`ErrorsFenced`). Run `unfenced_error` is a sender
  that is not of this kind.
- `Implements`: `Spec /\ Careful => KeepsPromise`. Each
  step of a host thread or of an instance is a step of `Pipeline` or a stutter:
  `RunStage` of a stage needs every stage upstream to have run in the round, which
  for a stage on the same instance is the order of its queue, and for any other one
  is that nothing is in flight at a receiver that names no instance or another
  one. Run `host_after_join` is a sender that does not meet `HostStagesWait`, and
  does not keep the promise. Run `exec_sender` checks `Careful` of all its senders.
- `ChainsAreCareful` says which chains are. `Orderly` is what `Chain` makes of adaptors:
  each receiver works at the place of the one before, and an instance is left through
  a `ScheduleFromReceiver`; it leaves no chain out. An orderly chain of any
  length over any number of instances is `Careful` if and only if its throws are fenced
  (`ThrowsAreFenced`): the instance of each stage before a stage that throws is left
  before it, or a region or `sync_wait` on that instance comes after the former.
  `HostStagesWait` needs no condition: work in flight has not been left (`FliesHere`). So
  `ChainsKeepPromise`: such chains implement `Pipeline` and leave nothing in flight.
  The condition `Sound` of `MCExecSender` is the same one, and so leaves out no chain
  for which the fences suffice.

**Kernels.** `KernelsProofs` states what the solvers' proofs need of `Kernels`: on
which streams work is in flight after a chain was enqueued, what each kernel of a
piece of work waits for (`Entry`, `Longer`, `EnqueuedAre`), what a kernel leaves in
memory, and the order on a stream. `StreamOrder` says that a kernel waits for any
earlier one of its stream that is in flight, or for one in between; hence two kernels
of one stream are never ready at once (`OneReady`). A kernel that ran is in nobody's
way because it was ready itself (`RunInOrder`). In a graph the order is one of paths:
`LinkedBy` says which kernels of a piece of work come before which, and that any two
that touch a buffer which one of them writes do (`Collide`). A chain appended to linked
work leaves it linked if it comes after what it collides with (`ThenLinked`); once
enqueued, the paths hold in flight (`PathOrder`), a kernel that runs is in the middle
of none of them (`RunPaths`), and two kernels on one path are never ready at once
(`PathsApart`).

**Conjugate gradient.** `CGSolverProofs` holds for any sessions: any number of calls,
iterations and sweeps, and every preconditioner. Only `Implements` asks for suited
ones.

- `SettledOnReturn` is not inductive: that the fence before the return is enough
  depends on what earlier fences left. `StreamsInv` says for every place of the host
  thread which streams can be busy there (`Busy`).
- `RaceFree` is `NoConcurrentAccess` for all four solvers. In the queue variants
  (`QueueInv`), kernels of one stream are in order. Where `Busy` has two streams, the
  first one writes nothing but the solution, which the second one does not touch, nor
  does it write the direction and the scalar that the first one reads. With
  `BuffersAssumption` this leaves no conflict.
- In the graph variants (`GraphInv`) the paths of the whole graph are built up chain by
  chain, for any number of sweeps, also none (`CGGraphLinked`, `PCGGraphLinked`).
  Not on a path are the update of the solution and all that follows the update of the
  residual, and the norm of the residual and the preconditioner; they share no buffer
  that is written. What follows the preconditioner is on a path from the norm only on a
  GPU, because of the edge of pcg/Graph.hpp:146-153; without a GPU there is no scratch
  space and no need of it. The proof fails without that edge, as the run does.
- `Implements` is `Spec /\ Suited => SolvesAsPromised`: all four solvers implement
  `IterativeSolver`, for any number of calls, iterations and sweeps. `IterativeSolver`
  knows an iterate by its number, so the invariant must say which quantity of which
  iterate is where, although in a graph kernels of an iteration are in flight in any
  order that paths leave. It does not follow them: `Leaves(f)` says that the kernels in
  flight, run one after the other by their numbers, leave memory `f`, and `ResultInv`
  says of `f` what the place of the host thread wants (`Holds`). When a kernel runs, `f`
  stays: it does not collide with the earlier ones, so running it first leaves the same
  (`RunLeaves`). This is where `RaceFree` is needed. When work is enqueued, `f` becomes
  what the work makes of it, one lemma for each piece of work (`UpdatesMake`,
  `JacobiMakes` for any number of sweeps, `PCGGraphMakes`, ...), from `Rules`. When the
  host thread reads a scalar, it has fenced the stream, and what it reads is in `f`
  (`DotSeen`, `AllSeen`). `SolutionInv` adds the one thing that `f` does not tell: that
  the solution in memory is at most one iterate behind, and that the kernel that brings
  it forward was wanted.
- `TypeCorrect`: no call counts more iterations than it allows, which is one for a
  graph that was asked for none; memory, the scalars that kernels captured and those of
  the host hold quantities of calls of the session, or what was made of memory that
  nobody wrote (`Garbage`). It needs no suited session. The invariant adds that kernels in flight have the operands that
  their operation works on (`KernelTyped`) and that an iteration that was begun is one of
  those allowed (`CountInv`).

`Suited` is what the solvers support, and TLC finds it of all sessions of `cg_solver`:
a session makes a call; a diagonal preconditioner was told of the matrix of each call,
by `init()`, which its constructor calls as well; a graph is not asked to make no
iteration when the guess is not good enough, nor given a guess whose residual equals the
tolerance (it makes its first iteration without a test); the graph that
`PCGGraph` keeps finds in every call the solution view, number of sweeps and inverse that
it was built with. Without the last two, `IterativeSolver` is not implemented (section
3). Nothing else is asked of the queue variants, nor of `CGGraph`.

**Newton solver.** `NewtonSolverProofs` holds for any sessions, and whatever the linear
solver does within its promise. Three invariants build on one another.

- `PoolInv` says which instances can be busy at each place of the host thread, and
  gives `SingleExit`.
- `FlightInv` says which kernels can be in flight. Kernels between two fences are named
  by what they do (`At`); those that are due at a place of the host thread (`Due`) wait
  for one another as `Waits` says, each is in flight at most once, and if one is, so
  are those that wait for it. The last part makes the relation enough: two kernels
  that are ready cannot be linked by a path of `Waits`, whose middle has not run. What
  is left (`Concurrent`) are the resets, with each other and with the filling, and
  these use no common buffer. `RaceFree` is `NoConcurrentAccess` for both ways of
  assembling, with no condition.
- `ValueInv` says what each buffer holds, by what is in flight: a kernel that has left
  the device has left its value. The version of the solution is the one that the
  call began with plus the corrections subtracted so far (`Version`), the sum is one
  of zeroes and of contributions at that version, and a correction that was left by the
  iteration before is of an older version until the linear solver has replaced it
  (`Before`). It rests on `FlightInv`: operands are what they should be because the
  kernels that make them have run.

`Implements` is `Spec /\ []OnTarget => SolvesAsPromised`. The step `Iterate` of
`IterativeSolver` is the kernel that subtracts, not a step of the host thread; when it
runs the host has gone round the loop already, so `AheadInv` keeps the condition under
which it did. `OnTarget` says that the linear solver improves the vector of the current
call. Nothing in `Solver.hpp` ensures it: the graph of `PCGGraph` belongs to the vector
of the first call. `SingleUse` shows that it holds for any number of calls without a
graph, and for one call with a graph. Two calls with a graph of which one finds the
solution good enough, which run `newton` contains, meet it too.

`TypeCorrect` holds for any sessions. That the linear solver makes no more iterations
than `max_iters` calls of it can needs their number: `Applied` counts the returns of the
linear solver, which is `outer_iter` or one more, by the place of the host thread. There
the first norm of a call must be told from the later ones, which the code does by the
value of `res_nrm2`; hence the invariant keeps that value out of memory (`Left`).

**Only model-checked.** `KeepsPromise` and `SkippedOnlyByFailure` of `GraphSender`
for senders with `when_all` or `fork_join`, where a segment is no longer a line: a
launch made on one branch runs nodes of the other ones. `Careful` of senders with
branches, in both modules: it is a condition on senders, and not every one meets it.
Liveness (`StreamsDrain`, `Ends`, `ApplyReturns`,
`SolveReturns`), which needs fairness and `ENABLED`.

## 5. Not modelled, and the plan

| module | content | abstract specification, theorems |
|---|---|---|
| `GraphSenderRefinement` | segments that branch and join | `SkippedOnlyByFailure`, `KeepsPromise` with `when_all` and `fork_join` |
| `NewtonSolver` | `apply()` of `CGSolver` in place of the reduced linear solver | the reduction, as a refinement |

Left out of the modelled components: `init()` of the heat transfer problem called
a second time, which the drivers do not do; several execution-space types at once
(the comparisons become compile-time `false`).

Left out altogether: `let_value` and `any_sender` on execution spaces (stdexec's
own, which forward the environment like any adaptor); several host threads on one
context (the code has no synchronisation for it and no test does it); profiling
events and labels; kernels as arithmetic; the earlier graph interface, a pipe
syntax whose functions return a node of a Kokkos graph or enqueue a kernel at
once, and which keeps no state between calls; build files and benchmarks.
