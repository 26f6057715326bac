----------------------------- MODULE ExecSender -----------------------------
(***************************************************************************)
(* Senders that run on execution-space instances.  A sender is what the    *)
(* domain makes of the adaptors its user wrote: a sequence of receivers in *)
(* the order in which completion signals reach them, to[i] being the one   *)
(* that receiver i completes.  A stage is enqueued on its instance and     *)
(* completes its receiver at once, long before the device has run it;      *)
(* what keeps stages in order is that instances run first in, first out,   *)
(* and the fences, each of which some receiver may skip.                   *)
(***************************************************************************)
EXTENDS Naturals, Sequences, FiniteSets, SequencesExt

CONSTANTS
  Execs,    \* execution-space instances, all of one type
  Host,     \* where host schedulers (inline, thread pool) complete
  Senders   \* the senders a user may wait for

(***************************************************************************)
(* Adaptors and what becomes of them.  An adaptor is a record: then, bulk  *)
(* and parallel_for are [kind |-> "stage", throws |-> whether copying the  *)
(* functor may throw]; [kind |-> "continues_on", place |-> destination];   *)
(* push and pop are [kind |-> "region"].                                   *)
(***************************************************************************)
Op(kind, exec, throws) == [kind |-> kind, exec |-> exec, throws |-> throws]

\* The domain customises a stage when its predecessor completes on an instance.
Stage(a, place) ==
  <<Op(IF place = Host THEN "host_stage" ELSE "stage", place, a.throws)>>

\* Leaving an instance puts a ScheduleFromReceiver, entering one a
\* ContinuesOnReceiver.  What stdexec does for host schedulers does not synchronise.
Leave(place) == IF place = Host THEN <<>> ELSE <<Op("schedule_from", place, FALSE)>>
Enter(place) == <<Op(IF place = Host THEN "transfer" ELSE "continues_on", place, FALSE)>>

\* The receiver of push or pop fences the instance that its sender completes on.
Bracket(place) == <<Op("region", place, FALSE)>>

\* The receivers of adaptor a after a sender that completes at place.
Transform(a, place) ==
  CASE a.kind = "stage"        -> Stage(a, place)
    [] a.kind = "continues_on" -> Leave(place) \o Enter(a.place)
    [] a.kind = "region"       -> Bracket(place)

\* The completion scheduler of a chain of adaptors that begins at place, and
\* its receivers.
Chain(adaptors, place) ==
  FoldLeft(LAMBDA c, a :
             [ops   |-> c.ops \o Transform(a, c.place),
              place |-> IF a.kind = "continues_on" THEN a.place ELSE c.place],
           [ops |-> <<>>, place |-> place], adaptors)

\* sync_wait(schedule(place) | adaptors), under repeat_until if rounds > 1.
Waited(adaptors, place, rounds) ==
  LET c == Chain(adaptors, place)
      n == Len(c.ops) + 1
  IN  [ops    |-> Append(c.ops, Op("sync_wait", c.place, FALSE)),
       to     |-> [i \in 1 .. n |-> i + 1],
       heads  |-> {1},
       starts |-> "value",
       rounds |-> rounds]

\* sync_wait(when_all(b1, b2) | tail), with branches that begin on the host.  One
\* of them ends there, so that when_all has no completion scheduler.
WaitedJoin(b1, b2, tail) ==
  LET c1 == Chain(b1, Host)
      c2 == Chain(b2, Host)
      t  == Chain(tail, Host)
      n1 == Len(c1.ops)
      n  == n1 + Len(c2.ops)
      ops == c1.ops \o c2.ops \o <<Op("join", Host, FALSE)>> \o t.ops
               \o <<Op("sync_wait", t.place, FALSE)>>
  IN  [ops    |-> ops,
       to     |-> [i \in 1 .. Len(ops) |-> IF i = n1 THEN n + 1 ELSE i + 1],
       heads  |-> {1, n1 + 1},
       starts |-> "value",
       rounds |-> 1]

(***************************************************************************)
(* The environment of receiver i, as far as get_exec is concerned.  A      *)
(* stage and a ScheduleFromReceiver upsert their instance, a sync_wait on  *)
(* an instance names it, all others forward what they are asked.  Host if  *)
(* the environment cannot be queried.                                      *)
(***************************************************************************)
NamesInstance(op) == op.kind \in {"stage", "schedule_from", "sync_wait"}

ExecEnvOf(s) ==
  LET env[i \in DOMAIN s.ops] ==
        IF NamesInstance(s.ops[i]) THEN s.ops[i].exec ELSE env[s.to[i]]
  IN  env

(***************************************************************************)
(* What both make: a chain, or two branches 1 .. b - 1 and b .. j - 1 that *)
(* end in a join.  If what receives the value of a stage finds an instance *)
(* in its environment, it is the instance of the stage.                    *)
(***************************************************************************)
Receiver ==
  [kind : {"stage", "host_stage", "schedule_from", "continues_on", "transfer", "region",
           "join", "sync_wait"},
   exec : Execs \cup {Host}, throws : BOOLEAN]

IsChain(s) ==
  /\ s.heads = {1}
  /\ s.to = [i \in DOMAIN s.ops |-> i + 1]
  /\ \A i \in DOMAIN s.ops : s.ops[i].kind # "join"
  /\ s.starts \in {"value", "stopped"} /\ s.rounds \in Nat \ {0}

IsJoin(s) ==
  \E b, j \in DOMAIN s.ops :
    /\ 1 < b /\ b < j
    /\ s.heads = {1, b}
    /\ s.to = [i \in DOMAIN s.ops |-> IF i = b - 1 THEN j ELSE i + 1]
    /\ \A i \in DOMAIN s.ops : s.ops[i].kind = "join" <=> i = j
    /\ s.starts = "value" /\ s.rounds = 1

WellFormed(s) ==
  /\ s.ops \in Seq(Receiver) /\ s.ops # <<>>
  /\ \A i \in DOMAIN s.ops : s.ops[i].kind = "sync_wait" <=> i = Len(s.ops)
  /\ IsChain(s) \/ IsJoin(s)
  /\ \A i \in DOMAIN s.ops :
       /\ s.ops[i].kind \in {"stage", "schedule_from"} => s.ops[i].exec # Host
       /\ s.ops[i].kind = "stage" => ExecEnvOf(s)[s.to[i]] \in {s.ops[i].exec, Host}

ASSUME ExecAssumption ==
  /\ Host \notin Execs
  /\ \A s \in Senders : WellFormed(s)

VARIABLES
  sender,    \* the sender that is waited for
  round,     \* how often it was started
  signal,    \* signal[h]: the completion signal that the host thread which began
             \* with receiver h is about to deliver: [at |-> receiver, sig |-> ...]
  queue,     \* queue[e]: stages enqueued on instance e, first in, first out
  runs,      \* runs[i]: how often stage i has run
  failed,    \* the stages that threw
  joined,    \* how many branches of the join have completed
  joinFails, \* one of them with an error
  outcome    \* "pending", "returned", "threw" or "stopped"

vars == <<sender, round, signal, queue, runs, failed, joined, joinFails, outcome>>

Ops        == DOMAIN sender.ops
KindOf(i)  == sender.ops[i].kind
ExecOf(i)  == sender.ops[i].exec
To(i)      == sender.to[i]
StageOps   == {i \in Ops : KindOf(i) \in {"stage", "host_stage"}}

\* What receives the signals of i, sooner or later.
Downstream ==
  LET down[i \in Ops] == IF KindOf(i) = "sync_wait" THEN {} ELSE {To(i)} \cup down[To(i)]
  IN  down

Upstream == [i \in Ops |-> {j \in Ops : i \in Downstream[j]}]

ExecEnv == ExecEnvOf(sender)
Queryable(i) == ExecEnv[i] # Host

\* A stage leaves the fence to a successor that has an instance.
SkipContinuation(i) == Queryable(To(i))

MutantSkipsAnyInstance(i) ==
  KindOf(To(i)) = "continues_on" /\ Queryable(To(i))
MutantIgnoresDestination(i) == Queryable(To(i)) /\ ExecEnv[To(i)] = ExecOf(i)
SkipScheduleFrom(i) ==
  /\ KindOf(To(i)) = "continues_on"
  /\ Queryable(To(i))
  /\ ExecEnv[To(i)] = ExecOf(i)

Fenced(e) == e # Host => queue[e] = <<>>

-----------------------------------------------------------------------------
Init ==
  /\ sender \in Senders
  /\ round = 0
  /\ signal = [h \in sender.heads |-> [at |-> h, sig |-> "none"]]
  /\ queue = [e \in Execs |-> <<>>]
  /\ runs = [i \in StageOps |-> 0]
  /\ failed = {}
  /\ joined = 0
  /\ joinFails = FALSE
  /\ outcome = "pending"

Idle == \A h \in sender.heads : signal[h].sig = "none"

\* Thread h delivers one of sigs to a receiver of one of the kinds.
At(h, kinds, sigs) == KindOf(signal[h].at) \in kinds /\ signal[h].sig \in sigs
Here(h) == signal[h].at

\* Its receiver completes the next one with sig.
Pass(h, sig) == signal' = [signal EXCEPT ![h] = [at |-> To(@.at), sig |-> sig]]

unchangedData == UNCHANGED <<sender, round, runs, failed, joined, joinFails, outcome>>

\* The operation state is started, for the first time or by repeat_until, which
\* connects it again; schedule completes inline.
Start ==
  /\ outcome = "pending"
  /\ Idle
  /\ round < sender.rounds
  /\ round' = round + 1
  /\ signal' = [h \in sender.heads |-> [at |-> h, sig |-> sender.starts]]
  /\ UNCHANGED <<sender, queue, runs, failed, joined, joinFails, outcome>>

\* The closure of a stage is enqueued.
MutantExecutesTwice(h) ==
  /\ At(h, {"stage"}, {"value"})
  /\ queue' = [queue EXCEPT ![ExecOf(Here(h))] = @ \o <<Here(h), Here(h)>>]
  /\ signal' = [signal EXCEPT ![h].sig = "executed"]
  /\ unchangedData
Execute(h) ==
  /\ At(h, {"stage"}, {"value"})
  /\ queue' = [queue EXCEPT ![ExecOf(Here(h))] = Append(@, Here(h))]
  /\ signal' = [signal EXCEPT ![h].sig = "executed"]
  /\ unchangedData

\* A closure throws: the error takes the place of the value, without a fence.
MutantGoesOnAfterThrow(h) ==
  /\ At(h, {"stage", "host_stage"}, {"value"})
  /\ sender.ops[Here(h)].throws
  /\ failed' = failed \cup {Here(h)}
  /\ Pass(h, "value")
  /\ UNCHANGED <<sender, round, queue, runs, joined, joinFails, outcome>>
Throw(h) ==
  /\ At(h, {"stage", "host_stage"}, {"value"})
  /\ sender.ops[Here(h)].throws
  /\ failed' = failed \cup {Here(h)}
  /\ Pass(h, "error")
  /\ UNCHANGED <<sender, round, queue, runs, joined, joinFails, outcome>>

\* The receiver is completed, after a fence if nobody downstream has an instance.
Continue(h) ==
  /\ At(h, {"stage"}, {"executed"})
  /\ SkipContinuation(Here(h)) \/ Fenced(ExecOf(Here(h)))
  /\ Pass(h, "value")
  /\ UNCHANGED queue
  /\ unchangedData

HostStage(h) ==
  /\ At(h, {"host_stage"}, {"value"})
  /\ runs' = [runs EXCEPT ![Here(h)] = @ + 1]
  /\ Pass(h, "value")
  /\ UNCHANGED <<sender, round, queue, failed, joined, joinFails, outcome>>

ScheduleFrom(h) ==
  /\ At(h, {"schedule_from"}, {"value"})
  /\ SkipScheduleFrom(Here(h)) \/ Fenced(ExecOf(Here(h)))
  /\ Pass(h, "value")
  /\ UNCHANGED queue
  /\ unchangedData

ContinuesOn(h) ==
  /\ At(h, {"continues_on", "transfer"}, {"value"})
  /\ Pass(h, "value")
  /\ UNCHANGED queue
  /\ unchangedData

\* push and pop synchronise whatever the signal is.
Region(h) ==
  /\ At(h, {"region"}, {"value", "error"})
  /\ Fenced(ExecOf(Here(h)))
  /\ Pass(h, signal[h].sig)
  /\ UNCHANGED queue
  /\ unchangedData

\* All others pass on without a fence that something threw or was stopped.
Forward(h) ==
  /\ At(h, {"stage", "host_stage", "schedule_from", "continues_on", "transfer"},
           {"error", "stopped"})
  /\ Pass(h, signal[h].sig)
  /\ UNCHANGED queue
  /\ unchangedData

\* A thread pool does not begin a branch once the other one has failed.
Stop(h) ==
  /\ joinFails
  /\ signal[h] = [at |-> h, sig |-> "value"]
  /\ signal' = [signal EXCEPT ![h].sig = "stopped"]
  /\ UNCHANGED queue
  /\ unchangedData

\* when_all counts its branches; the last one completes it, with an error if
\* there was one.
MutantWaitsForOneMore(h) ==
  LET fails == joinFails \/ signal[h].sig = "error" IN
  /\ At(h, {"join"}, {"value", "error", "stopped"})
  /\ IF joined = Cardinality(sender.heads)
     THEN Pass(h, IF fails THEN "error" ELSE "value")
     ELSE signal' = [signal EXCEPT ![h].sig = "none"]
  /\ joined' = joined + 1
  /\ joinFails' = fails
  /\ UNCHANGED <<sender, round, queue, runs, failed, outcome>>
Join(h) ==
  LET fails == joinFails \/ signal[h].sig = "error" IN
  /\ At(h, {"join"}, {"value", "error", "stopped"})
  /\ IF joined + 1 = Cardinality(sender.heads)
     THEN Pass(h, IF fails THEN "error" ELSE "value")
     ELSE signal' = [signal EXCEPT ![h].sig = "none"]
  /\ joined' = joined + 1
  /\ joinFails' = fails
  /\ UNCHANGED <<sender, round, queue, runs, failed, outcome>>

\* SyncWaitReceiver: fence the instance the sender completes on, whatever the
\* signal; the thread that waits in the run loop is released.
MutantErrorSkipsFence(h) ==
  /\ At(h, {"sync_wait"}, {"value", "error", "stopped"})
  /\ signal[h].sig = "error" \/ Fenced(ExecOf(Here(h)))
  /\ signal' = [signal EXCEPT ![h].sig = "none"]
  /\ outcome' = CASE signal[h].sig = "error"   -> "threw"
                 [] signal[h].sig = "stopped" -> "stopped"
                 [] signal[h].sig = "value"   -> IF round < sender.rounds THEN "pending" ELSE "returned"
  /\ UNCHANGED <<sender, round, queue, runs, failed, joined, joinFails>>
Complete(h) ==
  /\ At(h, {"sync_wait"}, {"value", "error", "stopped"})
  /\ Fenced(ExecOf(Here(h)))
  /\ signal' = [signal EXCEPT ![h].sig = "none"]
  /\ outcome' = CASE signal[h].sig = "error"   -> "threw"
                 [] signal[h].sig = "stopped" -> "stopped"
                 [] signal[h].sig = "value"   -> IF round < sender.rounds THEN "pending" ELSE "returned"
  /\ UNCHANGED <<sender, round, queue, runs, failed, joined, joinFails>>

\* An instance finishes the stage it has been working on.
RunStage(e) ==
  /\ queue[e] # <<>>
  /\ runs' = [runs EXCEPT ![Head(queue[e])] = @ + 1]
  /\ queue' = [queue EXCEPT ![e] = Tail(@)]
  /\ UNCHANGED <<sender, round, signal, failed, joined, joinFails, outcome>>

\* sync_wait is over and the device has nothing left to do.
Terminated ==
  /\ outcome # "pending"
  /\ \A e \in Execs : queue[e] = <<>>
  /\ UNCHANGED vars

HostStep ==
  \/ Start
  \/ \E h \in sender.heads :
       \/ Execute(h) \/ Throw(h) \/ Continue(h) \/ HostStage(h)
       \/ ScheduleFrom(h) \/ ContinuesOn(h) \/ Region(h)
       \/ Forward(h) \/ Stop(h) \/ Join(h) \/ Complete(h)

Next == HostStep \/ (\E e \in Execs : RunStage(e)) \/ Terminated

\* Host threads run unless a fence blocks them; every instance makes progress.
Spec ==
  /\ Init /\ [][Next]_vars
  /\ WF_vars(HostStep)
  /\ \A e \in Execs : WF_vars(RunStage(e))

-----------------------------------------------------------------------------
(***************************************************************************)
(* Properties                                                              *)
(***************************************************************************)

\* Every variable has its type; what is enqueued on an instance is a stage of
\* that instance, and no stage is enqueued twice.
ExecTypeOK ==
  /\ sender \in Senders
  /\ round \in 0 .. sender.rounds
  /\ signal \in [sender.heads ->
                  [at : Ops, sig : {"none", "value", "executed", "error", "stopped"}]]
  /\ \A e \in Execs :
       /\ queue[e] \in Seq({i \in StageOps : ExecOf(i) = e})
       /\ IsInjective(queue[e])
  /\ runs \in [StageOps -> 0 .. sender.rounds]
  /\ failed \subseteq StageOps
  /\ joined \in 0 .. Cardinality(sender.heads)
  /\ joinFails \in BOOLEAN
  /\ outcome \in {"pending", "returned", "threw", "stopped"}

\* "Any parallel region successfully launched before the one that fails completes
\* correctly because it will be synchronized" (test_then.cpp:166), and on every
\* other way out of sync_wait as well: no stage is in flight when it returns or
\* throws.  The fences that run on an error are those of sync_wait and of regions.
LaunchedWorkIsSynchronized ==
  outcome # "pending" => \A e \in Execs : queue[e] = <<>>

\* "Any sender downstream will not launch its parallel region" (test_then.cpp:167):
\* nothing after a stage that threw runs or is enqueued in that round, and
\* sync_wait throws if a stage did, but not otherwise.
FailureStopsDownstream ==
  /\ \A f \in failed, i \in StageOps :
       i \in Downstream[f] =>
         /\ runs[i] = round - 1
         /\ \A e \in Execs : ~ Contains(queue[e], i)
  /\ outcome = "threw" => failed # {}
  /\ outcome = "returned" => failed = {}

(***************************************************************************)
(* What a sender has to be like, as far as its receivers tell.             *)
(***************************************************************************)

\* Receivers that fence the instance of their sender before they pass a value on.
Fences(m) ==
  \/ KindOf(m) = "stage" /\ ~ SkipContinuation(m)
  \/ KindOf(m) = "schedule_from" /\ ~ SkipScheduleFrom(m)
  \/ KindOf(m) \in {"region", "sync_wait"}

\* Stage k may still be in flight when a value reaches receiver p: the environment
\* of p names the instance of k, and none from k on has fenced it.
MayFly(k, p) ==
  /\ KindOf(k) = "stage" /\ p \in Downstream[k] /\ ExecEnv[p] = ExecOf(k)
  /\ \A m \in Ops :
       /\ m = k \/ m \in Downstream[k]
       /\ p \in Downstream[m]
       /\ ExecOf(m) = ExecOf(k)
       => ~ Fences(m)

\* From p on, a receiver fences the instance of stage k even on an error.
FencedFrom(p, k) ==
  \E m \in Ops :
    /\ m = p \/ m \in Downstream[p]
    /\ KindOf(m) \in {"region", "sync_wait"}
    /\ ExecOf(m) = ExecOf(k)

\* Receiver i may turn a value into an error.
Raises(i) ==
  \/ KindOf(i) \in {"stage", "host_stage"} /\ sender.ops[i].throws
  \/ KindOf(i) = "join" /\ \E f \in StageOps : sender.ops[f].throws /\ i \in Downstream[f]

\* What may be in flight when an error is raised is fenced after it.
ErrorsFenced ==
  \A i, k \in Ops : Raises(i) /\ MayFly(k, i) => FencedFrom(To(i), k)

\* Nothing may be in flight when a host thread runs a stage.
HostStagesWait ==
  \A i, k \in Ops : KindOf(i) = "host_stage" => ~ MayFly(k, i)

\* No error and no host stage overtakes what is in flight: for these senders,
\* skipping a fence wherever the environment names an instance is right.
Careful == ErrorsFenced /\ HostStagesWait

\* Instances, fences and signals implement what a sender promises: stages in the
\* order of the sender whatever instance they run on, each once a round, and
\* nothing after sync_wait.
Promise == INSTANCE Pipeline WITH
  stages <- StageOps, before <- Upstream, rounds <- sender.rounds
KeepsPromise == Promise!Spec

\* Every fence returns and sync_wait ends, whatever was thrown.
Ends == <>(outcome # "pending" /\ \A e \in Execs : queue[e] = <<>>)

=============================================================================
