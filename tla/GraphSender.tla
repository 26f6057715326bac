----------------------------- MODULE GraphSender -----------------------------
(***************************************************************************)
(* Senders on GraphContext: what connect, start and the completion signals *)
(* of the adaptors in kokkos_ext/impl/graph/ do, for a whole sender handed *)
(* to sync_wait (optionally under exec::repeat_until).                     *)
(*                                                                         *)
(* A sender is the sequence of its operation states in the order in which  *)
(* their constructors finish: children before parents, the outermost last. *)
(* Each is a record                                                        *)
(*   kind   "schedule", "just", "just_stopped", "cache" (sources), "then"  *)
(*          (then and bulk), "continues_on", "when_all", "fork" and        *)
(*          "fork_join" (the two halves of ForkJoinOpState)                *)
(*   ctx    the context whose scheduler it completes on, Host for any      *)
(*          other scheduler, NoScheduler for when_all and cache            *)
(*   child  the operation states it starts, in order                       *)
(*   env    the "fork" whose node its environment carries, 0 if none       *)
(* and with it comes the number of rounds that repeat_until runs it for:   *)
(* 1 without repeat_until, and for a sender that does not end on the host, *)
(* since a stage on a graph has no value to end the repetition with.       *)
(*                                                                         *)
(* Connection is the one constructor after the other.  After it the host   *)
(* thread is a stack of pending calls: start(), a completion signal, or    *)
(* the code of when_all that runs after its children were started.  Every  *)
(* call of the code is a call here, so a missing return is one, too.       *)
(***************************************************************************)
EXTENDS GraphContext, FiniteSets, Functions

CONSTANTS
  Host,         \* stands for every scheduler that is not of a GraphContext
  NoScheduler,  \* a sender that has a completion domain but no scheduler
  Senders,      \* what may be handed to sync_wait: [ops : ..., rounds : ...]
  MaxThrows     \* bound on the stages that throw

OpState == [kind : {"schedule", "just", "just_stopped", "cache", "then", "continues_on",
                   "when_all", "fork", "fork_join"},
            ctx : Context \cup {Host, NoScheduler}, child : Seq(Nat), env : Nat]

Sources == {"schedule", "just", "just_stopped", "cache"}

\* What the adaptors make: each operation state but the outermost is inside of one
\* later one, a stage is on the context of what it is inside of if that has a
\* scheduler (then.hpp:146-150), fork_join is made of its two halves
\* (fork_join.hpp:104-108), and the branches of a when_all are on one context
\* (the note at when_all.hpp:16).
WellFormed(ops) ==
  /\ ops \in Seq(OpState) /\ ops # <<>>
  /\ \A i \in DOMAIN ops :
       LET Of(kinds) == ops[i].kind \in kinds
           KindIn(n) == ops[ops[i].child[n]].kind
           Outer == {j \in DOMAIN ops : i \in Range(ops[j].child)}
       IN /\ Range(ops[i].child) \subseteq 1 .. i - 1 /\ ops[i].env < i
          /\ i # Len(ops) => \E j \in DOMAIN ops : Outer = {j}
          /\ ops[i].env # 0 => ops[ops[i].env].kind = "fork"
          /\ Of(Sources) => ops[i].child = <<>>
          /\ Of({"cache"}) => ops[i].env # 0
          /\ Of({"then", "continues_on", "fork"}) => Len(ops[i].child) = 1
          /\ Of({"then"}) /\ KindIn(1) \notin {"when_all", "cache"} =>
               ops[ops[i].child[1]].ctx = ops[i].ctx
          /\ Of({"when_all"}) => ops[i].child # <<>>
          /\ Of({"fork_join"}) =>
               Len(ops[i].child) = 2 /\ KindIn(1) = "fork" /\ KindIn(2) = "when_all"
          /\ Of({"fork"}) => /\ i # Len(ops) /\ ops[i].ctx \in Context
                            /\ \A j \in Outer : ops[j].kind = "fork_join"
          /\ Of({"when_all"}) => \A j, m \in 1 .. i :
               {ops[j].ctx, ops[m].ctx} \subseteq Context => ops[j].ctx = ops[m].ctx

ASSUME SenderAssumption ==
  /\ {Host, NoScheduler} \cap Context = {}
  /\ \A s \in Senders :
       /\ WellFormed(s.ops) /\ s.rounds \in Nat \ {0}
       /\ s.rounds > 1 => s.ops[Len(s.ops)].ctx \notin Context
       /\ (1 .. Len(s.ops)) \X (1 .. s.rounds) \subseteq Node

VARIABLES
  sender,       \* the sender that is executed
  phase,        \* "connect", "run", "returned", "threw", "stopped" or "aborted"
  iter,         \* the current iteration of repeat_until
  cursor,       \* the next operation state to construct
  anchor,       \* anchor[i]: what operation state i answers to get_node
  error,        \* error[i]: the exception_ptr member of operation state i is set
  calls,        \* the calls the host thread still has to make, next one first
  completions,  \* completion signals the consumer has received
  result,       \* what the consumer holds: "none", "value", "error" or "stopped"
  runs,         \* runs[i]: how often the functor of stage i has run
  thrown        \* the stages that threw, when connected or when run

controlVars == <<sender, phase, iter, cursor, anchor, error, calls>>
outcomeVars == <<completions, result, runs, thrown>>
vars == <<contextVars, controlVars, outcomeVars>>

-----------------------------------------------------------------------------
(***************************************************************************)
(* The structure of a sender, fixed at compile time.                       *)
(***************************************************************************)

Ops == DOMAIN sender.ops
Outermost == Len(sender.ops)
Final == Len(sender.ops) + 1   \* the receiver of the consumer
Kind(i) == sender.ops[i].kind
CtxOf(i) == sender.ops[i].ctx
Child(i) == sender.ops[i].child
EnvFork(i) == sender.ops[i].env
Parent(i) == IF i = Outermost THEN Final ELSE CHOOSE j \in Ops : i \in Range(Child(j))

OnGraph(i) == CtxOf(i) \in Context
Stages == {i \in Ops : Kind(i) = "then"}

\* The operation states whose work precedes that of i.
Before ==
  LET inner(i) == Range(Child(i)) \cup IF Kind(i) = "cache" THEN {EnvFork(i)} ELSE {}
      before[i \in Ops] == inner(i) \cup UNION {before[j] : j \in inner(i)}
  IN before

\* The execution space that get_exec finds in the environment that operation
\* state i is connected to, {} if none: graph::sync_wait sets it, continues_on
\* and schedule_from set it for what is inside of them, the others forward it.
ExecEnv ==
  LET env[i \in 1 .. Final] ==
        IF i = Final
          THEN IF OnGraph(Outermost) THEN {ExecOf[CtxOf(Outermost)]} ELSE {}
          ELSE LET p == Parent(i)
                   moved == p # Final /\ Kind(p) = "continues_on"
               IN CASE moved /\ OnGraph(i) -> {ExecOf[CtxOf(i)]}
                    [] moved /\ ~OnGraph(i) /\ OnGraph(p) -> {ExecOf[CtxOf(p)]}
                    [] OTHER -> env[p]
  IN env

\* Mutant: schedule_from never waits if there is a stream in the environment.
SkipIfAnyStream(p) == (IF OnGraph(p) THEN {ExecOf[CtxOf(p)]} ELSE ExecEnv[p]) # {}

\* continues_on p follows a graph sender: its schedule_from does not wait if the
\* environment names the stream of that sender.
SkipScheduleFrom(p) ==
  (IF OnGraph(p) THEN {ExecOf[CtxOf(p)]} ELSE ExecEnv[p]) = {ExecOf[CtxOf(Child(p)[1])]}

\* when_all does not wait if the environment names any stream.
SkipWhenAll(i) == ExecEnv[i] # {}

-----------------------------------------------------------------------------
(***************************************************************************)
(* Answers to get_node.  An operation state may not be queryable at all,   *)
(* hold no node (asking aborts the program), or name the nodes a successor *)
(* is to be created after and the graph they are in.  To ask may build     *)
(* graphs on the way: those of the contexts in `built`.                    *)
(***************************************************************************)

NodeOf(i) == <<i, iter>>       \* the node that stage i creates when connected

Answer == [has : {"none", "invalid", "node"}, graph : Context \cup {Host},
           dep : SUBSET Node, built : SUBSET Context]
NotQueryable == [has |-> "none", graph |-> Host, dep |-> {}, built |-> {}]
Invalid == [has |-> "invalid", graph |-> Host, dep |-> {}, built |-> {}]
RootOf(c) == [has |-> "node", graph |-> c, dep |-> {}, built |-> {c}]
NodeIn(g, i) == [has |-> "node", graph |-> g, dep |-> {NodeOf(i)}, built |-> {}]

\* get_predecessor(): ask the operation state, else the environment (a branch of
\* fork_join carries the fork node), else take the root of the graph of c.
Predecessor(i, inner, c) ==
  CASE anchor[inner].has # "none" -> anchor[inner]
    [] anchor[inner].has = "none" /\ EnvFork(i) # 0 -> anchor[EnvFork(i)]
    [] OTHER -> RootOf(c)

\* Mutant: nodes are added whether or not the graph was instantiated.
ProceedAlways(i) == Kind(Child(i)[1]) = "then" => ~error[Child(i)[1]]

\* Mutant: a graph that exists is taken for one that is complete.
ProceedUnlessBuilt(i) ==
  /\ CtxOf(i) \notin has_graph
  /\ Kind(Child(i)[1]) = "then" => ~error[Child(i)[1]]

\* proceed(): nothing is added to an instantiated graph, nor right after an
\* operation state (then or bulk) whose own node could not be built.
Proceed(i) ==
  /\ ~is_instantiated[CtxOf(i)]
  /\ Kind(Child(i)[1]) = "then" => ~error[Child(i)[1]]

-----------------------------------------------------------------------------
(***************************************************************************)
(* connect.                                                                *)
(***************************************************************************)

Connecting(i, kinds) ==
  /\ phase = "connect" /\ cursor = i /\ i \in Ops /\ Kind(i) \in kinds
  /\ cursor' = cursor + 1
  /\ phase' = IF i = Outermost THEN "run" ELSE phase
  /\ calls' = IF i = Outermost THEN <<[sig |-> "start", op |-> i]>> ELSE <<>>
  /\ UNCHANGED <<sender, iter>>

\* Stage i throws an exception.
MayThrow(i) ==
  /\ Cardinality(thrown) < MaxThrows
  /\ thrown' = thrown \cup {i}

Answers(i, a) == anchor' = [anchor EXCEPT ![i] = a]

\* Sources, host stages and transitions to the host create no node.
ConnectPlain(i) ==
  /\ Connecting(i, {"schedule", "just", "just_stopped", "cache", "then", "continues_on"})
  /\ Kind(i) \in {"then", "continues_on"} => ~OnGraph(i)
  /\ Answers(i, NotQueryable)
  /\ UNCHANGED <<contextVars, error, outcomeVars>>

\* A then or bulk stage creates its node after its predecessor.
ConnectThen(i) ==
  LET pred == Predecessor(i, Child(i)[1], CtxOf(i))
  IN /\ Connecting(i, {"then"})
     /\ OnGraph(i) /\ Proceed(i) /\ pred.has = "node"
     /\ GetGraph({CtxOf(i)} \cup pred.built)
     /\ AddNode(pred.graph, NodeOf(i), pred.dep)
     /\ Answers(i, NodeIn(pred.graph, i))
     /\ UNCHANGED <<flagVars, queue, error, outcomeVars>>

\* Kokkos throws while it builds the node; the exception is kept for start().
ConnectThenThrows(i) ==
  LET pred == Predecessor(i, Child(i)[1], CtxOf(i))
  IN /\ Connecting(i, {"then"})
     /\ OnGraph(i) /\ Proceed(i) /\ pred.has = "node"
     /\ MayThrow(i)
     /\ LookUpGraph({CtxOf(i)} \cup pred.built)
     /\ Answers(i, Invalid)
     /\ error' = [error EXCEPT ![i] = TRUE]
     /\ UNCHANGED <<completions, result, runs>>

\* The graph is already instantiated, or the predecessor failed: no node.
ConnectThenWithoutNode(i) ==
  /\ Connecting(i, {"then"})
  /\ OnGraph(i) /\ ~Proceed(i)
  /\ Answers(i, Invalid)
  /\ UNCHANGED <<contextVars, error, outcomeVars>>

\* continues_on answers what is inside of it answers, and looks up its own graph
\* unless it goes through to a when_all.
ConnectContinuesOn(i) ==
  /\ Connecting(i, {"continues_on"})
  /\ OnGraph(i)
  /\ LET looks == IF Kind(Child(i)[1]) = "when_all" THEN {} ELSE {CtxOf(i)}
     IN Answers(i, [Predecessor(i, Child(i)[1], CtxOf(i)) EXCEPT !.built = @ \cup looks])
  /\ UNCHANGED <<contextVars, error, outcomeVars>>

\* fork_join stores the node its branches start from, then connects them.
ConnectFork(i) ==
  LET pred == Predecessor(i, Child(i)[1], CtxOf(i))
  IN /\ Connecting(i, {"fork"})
     /\ pred.has = "node"
     /\ LookUpGraph({CtxOf(i)} \cup pred.built)
     /\ Answers(i, [pred EXCEPT !.built = {}])
     /\ UNCHANGED <<error, outcomeVars>>

\* when_all adds an aggregate node after the nodes of all its children.
ConnectWhenAll(i) ==
  LET kids == Range(Child(i))
      in == anchor[Child(i)[1]].graph
  IN /\ Connecting(i, {"when_all"})
     /\ \A k \in kids : anchor[k].has = "node"
     /\ GetGraph(UNION {anchor[k].built : k \in kids})
     /\ AddNode(in, NodeOf(i), UNION {anchor[k].dep : k \in kids})
     /\ Answers(i, NodeIn(in, i))
     /\ UNCHANGED <<flagVars, queue, error, outcomeVars>>

\* fork_join answers what its when_all answers.
ConnectForkJoin(i) ==
  /\ Connecting(i, {"fork_join"})
  /\ Answers(i, anchor[Child(i)[2]])
  /\ UNCHANGED <<contextVars, error, outcomeVars>>

\* The node of an operation state that has none is asked for: Kokkos::abort.
ConnectAborts(i) ==
  LET asked == CASE Kind(i) = "then" /\ OnGraph(i) /\ Proceed(i) -> {Predecessor(i, Child(i)[1], CtxOf(i))}
                 [] Kind(i) = "fork" -> {Predecessor(i, Child(i)[1], CtxOf(i))}
                 [] Kind(i) = "when_all" -> {anchor[k] : k \in Range(Child(i))}
                 [] OTHER -> {}
  IN /\ phase = "connect" /\ cursor = i /\ i \in Ops
     /\ \E a \in asked : a.has = "invalid"
     /\ phase' = "aborted"
     /\ UNCHANGED <<contextVars, sender, iter, cursor, anchor, error, calls, outcomeVars>>

Connect ==
  \E i \in Ops :
    \/ ConnectPlain(i)
    \/ ConnectThen(i)
    \/ ConnectThenThrows(i)
    \/ ConnectThenWithoutNode(i)
    \/ ConnectContinuesOn(i)
    \/ ConnectFork(i)
    \/ ConnectWhenAll(i)
    \/ ConnectForkJoin(i)
    \/ ConnectAborts(i)

-----------------------------------------------------------------------------
(***************************************************************************)
(* start and the completion signals: one call of the host thread a step.   *)
(***************************************************************************)

Call(sig, i) == [sig |-> sig, op |-> i]
StartAll(s) == [k \in DOMAIN s |-> Call("start", s[k])]

\* The host thread makes the call it has to make next, sig on i; the calls made
\* by that call come before those that were pending already.
Calls(sig, i, made) ==
  /\ phase = "run" /\ calls # <<>> /\ Head(calls) = Call(sig, i)
  /\ calls' = made \o Tail(calls)
  /\ UNCHANGED <<sender, phase, iter, cursor, anchor>>

Nothing == UNCHANGED <<contextVars, outcomeVars>>

\* A source completes at once.
StartSource(i) ==
  /\ Kind(i) \in Sources
  /\ Calls("start", i,
           <<Call(IF Kind(i) = "just_stopped" THEN "stopped" ELSE "value", Parent(i))>>)
  /\ Nothing /\ UNCHANGED error

\* Mutants: the error of a failed construction is lost, or nothing is done at all.
StartThenSilently(i) ==
  /\ Kind(i) = "then"
  /\ Calls("start", i, StartAll(Child(i)))
  /\ Nothing /\ UNCHANGED error

StartThenGivesUp(i) ==
  /\ Kind(i) = "then"
  /\ Calls("start", i, IF error[i] THEN <<>> ELSE StartAll(Child(i)))
  /\ Nothing /\ UNCHANGED error

\* then and bulk report the error of a failed construction, then start what is
\* inside of them in any case.
StartThen(i) ==
  /\ Kind(i) = "then"
  /\ Calls("start", i,
           (IF error[i] THEN <<Call("error", Parent(i))>> ELSE <<>>) \o StartAll(Child(i)))
  /\ Nothing /\ UNCHANGED error

\* continues_on and the fork side of fork_join start what is inside of them.
StartInner(i) ==
  /\ Kind(i) \in {"continues_on", "fork", "fork_join"}
  /\ Calls("start", i, <<Call("start", Child(i)[1])>>)
  /\ Nothing /\ UNCHANGED error

\* Mutant: when_all leaves its completion to its children.
StartWhenAllOnly(i) ==
  /\ Kind(i) = "when_all"
  /\ Calls("start", i, StartAll(Child(i)))
  /\ Nothing /\ UNCHANGED error

\* when_all starts its children in order and then goes on itself.
StartWhenAll(i) ==
  /\ Kind(i) = "when_all"
  /\ Calls("start", i, StartAll(Child(i)) \o <<Call("joined", i)>>)
  /\ Nothing /\ UNCHANGED error

\* The receiver of a stage on a graph submits the graph, then completes.
ValueStage(i) ==
  /\ Kind(i) = "then" /\ OnGraph(i)
  /\ Calls("value", i, <<Call("value", Parent(i))>>)
  /\ Submit(CtxOf(i))
  /\ UNCHANGED <<error, outcomeVars>>

\* A stage on the host runs its functor, then completes.
ValueHostStage(i) ==
  /\ Kind(i) = "then" /\ ~OnGraph(i)
  /\ Calls("value", i, <<Call("value", Parent(i))>>)
  /\ runs' = [runs EXCEPT ![i] = @ + 1]
  /\ UNCHANGED <<contextVars, error, completions, result, thrown>>

\* The functor of a stage on the host throws.
ThrowHostStage(i) ==
  /\ Kind(i) = "then" /\ ~OnGraph(i)
  /\ MayThrow(i)
  /\ Calls("value", i, <<Call("error", Parent(i))>>)
  /\ UNCHANGED <<contextVars, error, completions, result, runs>>

\* Leaving a graph sender, schedule_from waits for its graph unless it may skip;
\* continues_on itself only forwards.
ValueContinuesOn(i) ==
  /\ Kind(i) = "continues_on"
  /\ Calls("value", i, <<Call("value", Parent(i))>>)
  /\ IF OnGraph(Child(i)[1]) /\ ~SkipScheduleFrom(i)
       THEN Wait(CtxOf(Child(i)[1]))
       ELSE UNCHANGED contextVars
  /\ UNCHANGED <<error, outcomeVars>>

\* Mutant: each child that completes also completes when_all.
ValueChildForwards(i) ==
  /\ Kind(i) = "when_all"
  /\ Calls("value", i, <<Call("value", Parent(i))>>)
  /\ Nothing /\ UNCHANGED error

\* A child of when_all completed: nothing happens until all were started.
ValueChild(i) ==
  /\ Kind(i) = "when_all"
  /\ Calls("value", i, <<>>)
  /\ Nothing /\ UNCHANGED error

\* The error of a child replaces the one when_all may hold already.
ErrorChild(i) ==
  /\ Kind(i) = "when_all"
  /\ Calls("error", i, <<>>)
  /\ error' = [error EXCEPT ![i] = TRUE]
  /\ Nothing

\* All children were started: wait unless there is a stream in the environment,
\* then complete.
Joined(i) ==
  /\ Calls("joined", i,
           <<Call(IF error[i] THEN "error" ELSE "value", Parent(i))>>)
  /\ IF SkipWhenAll(i) THEN UNCHANGED contextVars ELSE Wait(CtxOf(Child(i)[1]))
  /\ UNCHANGED <<error, outcomeVars>>

\* Whatever the fork side completes with, the join side is started.
Forked(i) ==
  /\ Kind(i) = "fork"
  /\ \E sig \in {"value", "error"} : Calls(sig, i, <<Call("start", Child(Parent(i))[2])>>)
  /\ Nothing /\ UNCHANGED error

\* fork_join forwards what its when_all completes with.
ValueForkJoin(i) ==
  /\ Kind(i) = "fork_join"
  /\ Calls("value", i, <<Call("value", Parent(i))>>)
  /\ Nothing /\ UNCHANGED error

\* Errors and stops are forwarded, and nothing is waited for.
Forwarded(i) ==
  /\ Kind(i) \in {"then", "continues_on", "fork_join"}
  /\ \E sig \in {"error", "stopped"} : Calls(sig, i, <<Call(sig, Parent(i))>>)
  /\ Nothing /\ UNCHANGED error

\* An error that the consumer holds already stays.
Receives(sig) ==
  /\ completions' = completions + 1
  /\ result' = IF result = "error" THEN result ELSE sig

\* Mutants: graph::sync_wait does not wait, or only if it was not completed yet.
CompleteWithoutWait ==
  /\ iter = sender.rounds \/ completions > 0
  /\ Calls("value", Final, <<>>)
  /\ Receives("value")
  /\ UNCHANGED <<contextVars, error, runs, thrown>>

CompleteOnlyOnce ==
  /\ iter = sender.rounds \/ completions > 0
  /\ Calls("value", Final, <<>>)
  /\ IF OnGraph(Outermost) /\ completions = 0
       THEN Wait(CtxOf(Outermost))
       ELSE UNCHANGED contextVars
  /\ Receives("value")
  /\ UNCHANGED <<error, runs, thrown>>

\* The consumer receives a value.  graph::sync_wait waits for its graph.
Complete ==
  /\ iter = sender.rounds \/ completions > 0
  /\ Calls("value", Final, <<>>)
  /\ IF OnGraph(Outermost) THEN Wait(CtxOf(Outermost)) ELSE UNCHANGED contextVars
  /\ Receives("value")
  /\ UNCHANGED <<error, runs, thrown>>

\* The consumer receives an error.
CompleteWithError ==
  /\ Calls("error", Final, <<>>)
  /\ Receives("error")
  /\ UNCHANGED <<contextVars, error, runs, thrown>>

\* The consumer is told that the sender was stopped.
CompleteStopped ==
  /\ Calls("stopped", Final, <<>>)
  /\ Receives("stopped")
  /\ UNCHANGED <<contextVars, error, runs, thrown>>

\* Mutant: one round too many.
RepeatOnceMore ==
  /\ phase = "run" /\ calls = <<Call("value", Final)>>
  /\ iter <= sender.rounds /\ completions = 0
  /\ phase' = "connect"
  /\ iter' = iter + 1
  /\ cursor' = 1
  /\ calls' = <<>>
  /\ anchor' = [i \in Ops |-> NotQueryable]
  /\ error' = [i \in Ops |-> FALSE]
  /\ UNCHANGED sender
  /\ Nothing

\* repeat_until is not done: it destroys the operation states and connects anew.
Repeat ==
  /\ phase = "run" /\ calls = <<Call("value", Final)>>
  /\ iter < sender.rounds /\ completions = 0
  /\ phase' = "connect"
  /\ iter' = iter + 1
  /\ cursor' = 1
  /\ calls' = <<>>
  /\ anchor' = [i \in Ops |-> NotQueryable]
  /\ error' = [i \in Ops |-> FALSE]
  /\ UNCHANGED sender
  /\ Nothing

\* start() has returned and the consumer was completed: sync_wait ends.  That of
\* a graph returns an engaged optional also if the sender was stopped.
Return ==
  /\ phase = "run" /\ calls = <<>> /\ completions > 0
  /\ phase' = CASE result = "error" -> "threw"
                [] result = "stopped" /\ ~OnGraph(Outermost) -> "stopped"
                [] OTHER -> "returned"
  /\ UNCHANGED <<sender, iter, cursor, anchor, error, calls>>
  /\ Nothing

Signal(i) ==
  \/ StartSource(i)
  \/ StartThen(i)
  \/ StartInner(i)
  \/ StartWhenAll(i)
  \/ ValueStage(i)
  \/ ValueHostStage(i)
  \/ ThrowHostStage(i)
  \/ ValueContinuesOn(i)
  \/ ValueChild(i)
  \/ ErrorChild(i)
  \/ Joined(i)
  \/ Forked(i)
  \/ ValueForkJoin(i)
  \/ Forwarded(i)

HostStep ==
  \/ Connect
  \/ \E i \in Ops : Signal(i)
  \/ Complete
  \/ CompleteWithError
  \/ CompleteStopped
  \/ Repeat
  \/ Return

-----------------------------------------------------------------------------
(***************************************************************************)
(* The device, and the whole system.                                       *)
(***************************************************************************)

\* Running the node of a stage runs its functor; the node of when_all is empty.
RunFunctor(e, n) ==
  /\ RunNode(e, n)
  /\ runs' = IF n[1] \in Stages THEN [runs EXCEPT ![n[1]] = @ + 1] ELSE runs
  /\ UNCHANGED <<controlVars, completions, result, thrown>>

RetireLaunch(e) ==
  /\ Retire(e)
  /\ UNCHANGED <<controlVars, outcomeVars>>

StreamStep(e) == RetireLaunch(e) \/ \E n \in Node : RunFunctor(e, n)

\* sync_wait has ended, one way or the other, and the streams are empty.
Ended == phase \in {"returned", "threw", "stopped", "aborted"}
Terminated ==
  /\ Ended /\ \A e \in Exec : queue[e] = <<>>
  /\ UNCHANGED vars

Init ==
  /\ ContextInit
  /\ sender \in Senders
  /\ phase = "connect"
  /\ iter = 1
  /\ cursor = 1
  /\ anchor = [i \in Ops |-> NotQueryable]
  /\ error = [i \in Ops |-> FALSE]
  /\ calls = <<>>
  /\ completions = 0
  /\ result = "none"
  /\ runs = [i \in Ops |-> 0]
  /\ thrown = {}

Next == HostStep \/ (\E e \in Exec : StreamStep(e)) \/ Terminated

\* The host thread runs unless it is blocked in a fence; the device works off
\* what is enqueued.
Fairness == WF_vars(HostStep) /\ \A e \in Exec : WF_vars(StreamStep(e))

Spec == Init /\ [][Next]_vars /\ Fairness

-----------------------------------------------------------------------------
(***************************************************************************)
(* Properties.                                                             *)
(***************************************************************************)

TypeOK ==
  /\ ContextTypeOK
  /\ phase \in {"connect", "run", "returned", "threw", "stopped", "aborted"}
  /\ iter \in 1 .. sender.rounds
  /\ cursor \in 1 .. Final
  /\ anchor \in [Ops -> Answer]
  /\ error \in [Ops -> BOOLEAN]
  /\ calls \in Seq([sig : {"start", "value", "error", "stopped", "joined"}, op : 1 .. Final])
  /\ completions \in Nat
  /\ result \in {"none", "value", "error", "stopped"}
  /\ runs \in [Ops -> Nat]
  /\ thrown \in SUBSET Ops

\* The stages on the graphs and on the host run in the order of the sender, each
\* once per iteration, although a whole graph is launched at once and most
\* fences are skipped; sync_wait returns after all of them.
Promise == INSTANCE Pipeline WITH
  stages <- Stages,
  before <- Before,
  rounds <- sender.rounds,
  runs <- [s \in Stages |-> runs[s]],
  outcome <- IF phase \in {"connect", "run"} THEN "pending" ELSE phase
KeepsPromise == Promise!Spec

\* What operation state i is inside of, up to the receiver of the consumer.
Above ==
  LET above[i \in 1 .. Final] == IF i = Final THEN {} ELSE {Parent(i)} \cup above[Parent(i)]
  IN above

\* When it receives a value, q calls wait() of context c.
WaitsOn(q, c) ==
  \/ q = Final /\ CtxOf(Outermost) = c
  \/ q \in Ops /\ CtxOf(Child(q)[1]) = c /\
       \/ Kind(q) = "continues_on" /\ ~SkipScheduleFrom(q)
       \/ Kind(q) = "when_all" /\ ~SkipWhenAll(q)

\* q fences the launch of stage k: it waits for the context of k, or for another
\* one on the same stream which a stage between the two submits.
Catches(q, k) ==
  \E c \in Context :
    /\ WaitsOn(q, c) /\ ExecOf[c] = ExecOf[CtxOf(k)]
    /\ c = CtxOf(k) \/ \E t \in Stages : CtxOf(t) = c /\ t \in Above[k] /\ q \in Above[t]

\* What stages launch is fenced, and before a stage on the host that may throw and
\* bypass the fence; the error of a branch is not taken for the value of a fork.
Careful ==
  /\ \A k \in Stages : OnGraph(k) => \E q \in Above[k] : Catches(q, k)
  /\ MaxThrows # 0 =>
       /\ \A i, k \in Stages : OnGraph(k) /\ ~OnGraph(i) /\ i \in Above[k] =>
            \E q \in Above[k] : i \in Above[q] /\ Catches(q, k)
       /\ \A w, f \in Ops : Kind(w) = "when_all" /\ Kind(f) = "fork" => f \notin Above[w]

\* What a chain must not do if its stages are to run as they are written: leave a
\* stream and come back to it, or pass it on to another context; and come to a graph
\* on one context and have its first stage there on another.
Orderly(ops) ==
  LET On(i) == ops[i].ctx \in Context
      Stage(i) == On(i) /\ ops[i].kind = "then"
      Moves(i) == On(i) /\ ops[i].kind = "continues_on"
  IN /\ \A i, j \in DOMAIN ops : i < j /\ On(i) /\ On(j) /\ ExecOf[ops[i].ctx] = ExecOf[ops[j].ctx] =>
          \A m \in i .. j : ops[m].ctx = ops[i].ctx
     /\ \A a, i \in DOMAIN ops :
          /\ a < i /\ Stage(i) /\ \A m \in a .. i - 1 : Moves(m)
          /\ a > 1 => ~Stage(a - 1) /\ ~Moves(a - 1)
          => ops[a].ctx = ops[i].ctx

\* When sync_wait has ended, nothing of the sender is left on the device: the
\* functors of its nodes refer to data of the caller.  One way out is left open
\* by the code: graph::sync_wait rethrows the error of a stage on the host in a
\* branch of when_all without waiting for the other branches.
InBranch(i) == \E w \in Ops : Kind(w) = "when_all" /\ i \in Before[w]
Drained == \A e \in Exec : queue[e] = <<>>
NothingInFlight ==
  /\ phase \in {"returned", "stopped"} => Drained
  /\ phase = "threw" => Drained \/ \E i \in thrown : InBranch(i)

\* An operation state completes its receiver once, with a value or an error.
CompletesOnce == completions <= 1

\* No operation state is asked for a node that it does not have.
NeverAborts == phase # "aborted"

\* "Create the graph only the first time": the reconnections of repeat_until add
\* nothing to a graph that was instantiated.
GraphBuiltOnce ==
  [][\A c \in Context : is_instantiated[c] => nodes'[c] = nodes[c]]_vars

\* An exception thrown while a node is built, or by a stage on the host, reaches
\* the caller of sync_wait, unless it is raised on the fork side of fork_join,
\* which starts its branches whatever it completes with (fork_join.hpp:129).
ErrorsAreReported ==
  phase = "returned" =>
    \A i \in thrown : \E f \in Ops : Kind(f) = "fork" /\ i \in Before[f]

\* Also if something fails, no stage runs before another that it comes after,
\* unless the other is missing because of the failure.
SkippedOnlyByFailure ==
  \A i, j \in Stages : j \in Before[i] /\ runs[j] < runs[i] =>
    \E f \in thrown : f = j \/ f \in Before[j]

\* An exception is propagated in place of the value of a stage: no stage that
\* comes after the one that threw runs.
NoStageAfterFailure ==
  \A i \in thrown, j \in Stages : i \in Before[j] => runs[j] < iter

\* sync_wait ends: no call waits for something that never happens.
Ends == <>Ended

=============================================================================
