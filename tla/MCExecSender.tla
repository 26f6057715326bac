---------------------------- MODULE MCExecSender ----------------------------
(***************************************************************************)
(* Senders to model-check ExecSender with: every chain of up to            *)
(* MaxAdaptors adaptors over two instances and the host, and joins put     *)
(* together from the branches of tests/kokkos_ext/execution_space/         *)
(* test_split.cpp and test_fork_join.cpp.                                  *)
(***************************************************************************)
EXTENDS ExecSender

CONSTANTS A, B, MaxAdaptors, MaxRounds

Works   == [kind |-> "stage", throws |-> FALSE]
Throws  == [kind |-> "stage", throws |-> TRUE]
Pushes  == [kind |-> "region"]
GoTo(p)  == [kind |-> "continues_on", place |-> p]
OnA     == <<GoTo(A), Works>>

-----------------------------------------------------------------------------
(***************************************************************************)
(* Chains.                                                                 *)
(***************************************************************************)
Adaptors == {Works, Throws, Pushes, GoTo(A), GoTo(B), GoTo(Host)}

\* Regions are for senders that complete on an instance.
Allowed(ops) == \A i \in DOMAIN ops : ops[i].kind = "region" => ops[i].exec # Host

\* An error is synchronised if the instance of every stage before it was left, or
\* is fenced after it by a region or by sync_wait.
Sound(ops) ==
  \A i \in DOMAIN ops : \A j \in 1 .. i - 1 :
    (ops[i].throws /\ ops[j].kind = "stage") =>
      \/ \E m \in j .. i : ops[m].exec # ops[j].exec
      \/ \E m \in j .. Len(ops) : ops[m].kind \in {"region", "sync_wait"} /\ ops[m].exec = ops[j].exec

\* repeat_until runs what ends on the host with a stage.
Rounds(ops) ==
  IF Len(ops) > 1 /\ ops[Len(ops) - 1].kind = "host_stage" THEN MaxRounds ELSE 1

Chains ==
  LET steps == UNION {[1 .. n -> Adaptors] : n \in 1 .. MaxAdaptors}
      built == {Waited(st, p, 1) : st \in steps, p \in {A, Host}}
  IN  {[w EXCEPT !.rounds = Rounds(w.ops)] :
         w \in {v \in built : Allowed(v.ops) /\ Sound(v.ops)}}

-----------------------------------------------------------------------------
(***************************************************************************)
(* Joins.                                                                  *)
(***************************************************************************)

\* What follows the join begins on the instance on which the branch ends, or never
\* meets an instance.
Joins ==
  {WaitedJoin(OnA, b, tail) :
     b \in {<<Works>>, <<GoTo(B), Works, GoTo(Host)>>, OnA \o <<GoTo(Host), Works>>},
     tail \in {<<>>, <<Works>>, OnA, OnA \o <<GoTo(Host), Works>>}}
  \cup
  {WaitedJoin(<<GoTo(B), Works>> \o OnA, <<Works>>, tail) : tail \in {<<Works>>, OnA}}

FailingJoins ==
  {WaitedJoin(<<GoTo(A)>> \o a, b, OnA) :
     a \in {<<Works>>, <<Works, Throws>>, <<Throws, Works>>},
     b \in {<<Works>>, <<Throws>>, <<GoTo(A), Throws, GoTo(Host)>>}}

\* just_stopped() | continues_on(A) | then | ...
Stopped ==
  {[Waited(OnA \o tail, Host, 1) EXCEPT !.starts = "stopped"] :
     tail \in {<<>>, <<GoTo(Host), Works>>}}

SoundSenders == Chains \cup Joins \cup FailingJoins \cup Stopped

-----------------------------------------------------------------------------
(***************************************************************************)
(* Senders that do not do what the repository says of them.                *)
(***************************************************************************)

\* schedule(A) | then | then that throws | continues_on(host) | then.
ThrowsBeforeHost == {Waited(<<Works, Throws, GoTo(Host), Works>>, A, 1)}

\* A host stage between a join and the next stage on the instance.
HostAfterJoin == {WaitedJoin(OnA, <<Works>>, <<Works>> \o OnA)}

=============================================================================
