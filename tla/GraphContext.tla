---------------------------- MODULE GraphContext ----------------------------
(***************************************************************************)
(* The state behind the schedulers of Kokkos::Experimental::GraphContext   *)
(* (kokkos_ext/impl/GraphContext.hpp, struct State) and the device that    *)
(* runs what it submits.                                                   *)
(*                                                                         *)
(* A context owns at most one Kokkos graph, built lazily, instantiated at  *)
(* its first submission and submitted again at will.  Two flags are all it *)
(* knows of the device: is_submitted says that a launch may be in flight,  *)
(* and wait() fences the execution space only when it is set.  The device  *)
(* is asynchronous: each execution-space instance is a stream, a queue of  *)
(* launches that it works through in order; the nodes of one launch run in *)
(* any order that respects their dependencies.                             *)
(*                                                                         *)
(* The actions are operators on the variables below.  ContextNext lets any *)
(* client call them in any order; GraphSender composes the same operators  *)
(* with the senders and receivers that call them.                          *)
(***************************************************************************)
EXTENDS Naturals, Sequences

CONSTANTS
  Context,  \* the graph contexts
  Exec,     \* the execution-space instances (streams)
  ExecOf,   \* the instance each context was constructed with
  Node      \* the nodes that clients may ever create

ASSUME ContextAssumption == ExecOf \in [Context -> Exec]

VARIABLES
  has_graph,        \* contexts whose optional `graph` holds a value
  nodes,            \* nodes[g]: the nodes added to the graph of context g
  dep,              \* dep[n]: the nodes that node n was created after
  is_instantiated,  \* State::is_instantiated
  is_submitted,     \* State::is_submitted
  instance,         \* instance[c]: the nodes that instantiate() froze
  queue             \* queue[e]: the launches enqueued on stream e, oldest first

graphVars == <<has_graph, nodes, dep>>
flagVars == <<is_instantiated, is_submitted, instance>>
contextVars == <<has_graph, nodes, dep, is_instantiated, is_submitted, instance, queue>>

\* A launch of the graph of a context: the nodes it has already run.
Launch == [ctx : Context, done : SUBSET Node]

ContextTypeOK ==
  /\ has_graph \in SUBSET Context
  /\ nodes \in [Context -> SUBSET Node]
  /\ dep \in [Node -> SUBSET Node]
  /\ is_instantiated \in [Context -> BOOLEAN]
  /\ is_submitted \in [Context -> BOOLEAN]
  /\ instance \in [Context -> SUBSET Node]
  /\ queue \in [Exec -> Seq(Launch)]

ContextInit ==
  /\ has_graph = {}
  /\ nodes = [c \in Context |-> {}]
  /\ dep = [n \in Node |-> {}]
  /\ is_instantiated = [c \in Context |-> FALSE]
  /\ is_submitted = [c \in Context |-> FALSE]
  /\ instance = [c \in Context |-> {}]
  /\ queue = [e \in Exec |-> <<>>]

-----------------------------------------------------------------------------
(***************************************************************************)
(* Operations of State.                                                    *)
(***************************************************************************)

\* get_graph(): the graphs of the contexts in C are built if they were not.
GetGraph(C) == has_graph' = has_graph \cup C

\* Mutant: a node depends on the root of its graph as on any other node.
AddNodeAfterRoot(g, n, pred) ==
  /\ nodes' = [nodes EXCEPT ![g] = @ \cup {n}]
  /\ dep' = [dep EXCEPT ![n] = pred \cup {g}]

\* Kokkos adds node n, after the nodes in pred, to the graph of g.
AddNode(g, n, pred) ==
  /\ nodes' = [nodes EXCEPT ![g] = @ \cup {n}]
  /\ dep' = [dep EXCEPT ![n] = pred]

\* What submit() does once it goes ahead; the instance is frozen if `freeze`.
Launched(c, freeze) ==
  /\ is_instantiated' = [is_instantiated EXCEPT ![c] = TRUE]
  /\ instance' = [instance EXCEPT ![c] = IF freeze THEN nodes[c] ELSE @]
  /\ queue' = [queue EXCEPT ![ExecOf[c]] = Append(@, [ctx |-> c, done |-> {}])]
  /\ is_submitted' = [is_submitted EXCEPT ![c] = TRUE]

\* Mutant: a pending submission does not keep the graph from being launched.
SubmitAlways(c) ==
  /\ UNCHANGED graphVars
  /\ IF c \in has_graph THEN Launched(c, ~is_instantiated[c]) ELSE UNCHANGED <<flagVars, queue>>

\* Mutant: every submission instantiates.
SubmitInstantiates(c) ==
  /\ UNCHANGED graphVars
  /\ IF c \in has_graph /\ ~is_submitted[c]
       THEN Launched(c, TRUE)
       ELSE UNCHANGED <<flagVars, queue>>

\* submit(): no effect before a graph exists or while a submission is pending;
\* otherwise instantiate once, then enqueue a launch on the stream.
Submit(c) ==
  /\ UNCHANGED graphVars
  /\ IF c \in has_graph /\ ~is_submitted[c]
       THEN Launched(c, ~is_instantiated[c])
       ELSE UNCHANGED <<flagVars, queue>>

\* A fence of stream e returns once everything enqueued on it has completed.
Fenced(e) == queue[e] = <<>>

\* Mutant: the mark is cleared without a fence.
WaitWithoutFence(c) ==
  /\ is_submitted' = [is_submitted EXCEPT ![c] = FALSE]
  /\ UNCHANGED <<graphVars, is_instantiated, instance, queue>>

\* wait(): fence only if the graph is marked as submitted, then clear the mark.
Wait(c) ==
  /\ is_submitted[c] => Fenced(ExecOf[c])
  /\ is_submitted' = [is_submitted EXCEPT ![c] = FALSE]
  /\ UNCHANGED <<graphVars, is_instantiated, instance, queue>>

-----------------------------------------------------------------------------
(***************************************************************************)
(* The device.                                                             *)
(***************************************************************************)

\* The oldest launch of stream e runs node n, whose predecessors have run.
RunNode(e, n) ==
  /\ queue[e] # <<>>
  /\ LET l == Head(queue[e])
     IN /\ n \in instance[l.ctx] \ l.done
        /\ dep[n] \subseteq l.done
        /\ queue' = [queue EXCEPT ![e][1].done = @ \cup {n}]
  /\ UNCHANGED <<graphVars, flagVars>>

\* The oldest launch of stream e has run all its nodes: the next one may begin.
Retire(e) ==
  /\ queue[e] # <<>>
  /\ Head(queue[e]).done = instance[Head(queue[e]).ctx]
  /\ queue' = [queue EXCEPT ![e] = Tail(@)]
  /\ UNCHANGED <<graphVars, flagVars>>

-----------------------------------------------------------------------------
(***************************************************************************)
(* Clients that call the operations in any order.                          *)
(***************************************************************************)

\* n is created for the first time.
Fresh(n) == \A g \in Context : n \notin nodes[g]

\* Mutant: the predecessor may be in another graph than the node.
BuildNodeAnywhere(c, g, n, pred) ==
  /\ ~is_instantiated[c]
  /\ Fresh(n)
  /\ GetGraph({c, g})
  /\ AddNode(g, n, pred)
  /\ UNCHANGED <<flagVars, queue>>

\* Mutant: a stage that is connected anew builds its node anew.
BuildNodeAgain(c, g, n, pred) ==
  /\ pred \subseteq nodes[g]
  /\ GetGraph({c, g})
  /\ AddNode(g, n, pred)
  /\ UNCHANGED <<flagVars, queue>>

\* A stage whose scheduler belongs to c builds node n in the graph of g (its
\* own, or the graph its predecessor lives in); see proceed() in Helpers.hpp.
BuildNode(c, g, n, pred) ==
  /\ ~is_instantiated[c]
  /\ Fresh(n)
  /\ pred \subseteq nodes[g]
  /\ GetGraph({c, g})
  /\ AddNode(g, n, pred)
  /\ UNCHANGED <<flagVars, queue>>

\* Kokkos throws after the graphs were looked up, before a node was added; or a
\* stage only looks the graphs up.
LookUpGraph(C) ==
  /\ GetGraph(C)
  /\ UNCHANGED <<nodes, dep, flagVars, queue>>

\* when_all adds its aggregate node without asking whether the graph is
\* instantiated, after nodes that were just built in it.
BuildAggregate(g, n, pred) ==
  /\ Fresh(n)
  /\ pred \subseteq nodes[g]
  /\ AddNode(g, n, pred)
  /\ UNCHANGED <<has_graph, flagVars, queue>>

DeviceStep(e) == Retire(e) \/ \E n \in Node : RunNode(e, n)

ContextNext ==
  \/ \E c, g \in Context, n \in Node, pred \in SUBSET Node : BuildNode(c, g, n, pred)
  \/ \E g \in Context, n \in Node, pred \in SUBSET Node : BuildAggregate(g, n, pred)
  \/ \E C \in SUBSET Context : LookUpGraph(C)
  \/ \E c \in Context : Submit(c)
  \/ \E c \in Context : Wait(c)
  \/ \E e \in Exec : DeviceStep(e)

\* The device makes progress on whatever is enqueued.
DeviceFairness == \A e \in Exec : WF_contextVars(DeviceStep(e))

ContextSpec == ContextInit /\ [][ContextNext]_contextVars /\ DeviceFairness

-----------------------------------------------------------------------------
(***************************************************************************)
(* Properties.                                                             *)
(***************************************************************************)

\* The positions at which stream e holds a launch of context c.
LaunchesOf(c, e) == {k \in DOMAIN queue[e] : queue[e][k].ctx = c}

\* A cleared is_submitted means that the device is done with the graph: this is
\* what allows wait() (GraphContext.hpp:89) to skip the fence, and submit() to
\* launch again, without looking at the device.
FlagCoversLaunches ==
  \A c \in Context : ~is_submitted[c] => \A e \in Exec : LaunchesOf(c, e) = {}

\* However many stages call submit(), a context never has two launches in
\* flight, and only on the stream it was constructed with, also when several
\* contexts share a stream and one of them is drained by the fence of another.
OneLaunchPerContext ==
  \A c \in Context, e \in Exec :
    \A j, k \in LaunchesOf(c, e) : j = k /\ e = ExecOf[c]

\* Whatever a launch has run, it ran after all it depends on, and an
\* instantiated graph contains the predecessors of each of its nodes.
LaunchesRespectDependencies ==
  /\ \A c \in Context : \A n \in instance[c] : dep[n] \subseteq instance[c]
  /\ \A e \in Exec : \A k \in DOMAIN queue[e] :
       /\ queue[e][k].done \subseteq instance[queue[e][k].ctx]
       /\ \A n \in queue[e][k].done : dep[n] \subseteq queue[e][k].done

\* "Created once, submitted many times": what was instantiated is what every
\* later launch runs, whatever is added to the graph or submitted afterwards.
InstantiatedOnce ==
  [][\A c \in Context : is_instantiated[c] =>
       is_instantiated'[c] /\ instance'[c] = instance[c]]_contextVars

\* A fence returns: every stream with launches in flight is eventually empty,
\* so no wait() blocks forever.
StreamsDrain == \A e \in Exec : queue[e] # <<>> ~> queue[e] = <<>>

=============================================================================
