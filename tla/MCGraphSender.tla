---------------------------- MODULE MCGraphSender ----------------------------
(***************************************************************************)
(* Senders to model-check GraphSender with: every chain of up to           *)
(* MaxAdaptors adaptors over three contexts and the host, and joins and    *)
(* forks put together from the branches that the tests under               *)
(* tests/kokkos_ext/graph/ use.  Contexts g and h have streams of their    *)
(* own, context k shares the stream of g.                                  *)
(***************************************************************************)
EXTENDS GraphSender

CONSTANTS g, h, k, s, t, MaxOps, MaxRounds, MaxAdaptors

MCExecOf == [c \in Context |-> IF c = h THEN t ELSE s]
MCNode == (1 .. MaxOps) \X (1 .. MaxRounds)

-----------------------------------------------------------------------------
(***************************************************************************)
(* Building blocks.                                                        *)
(***************************************************************************)

\* ops, and the given adaptors around its last operation state: <<kind, ctx>>
\* each, a source being inside of nothing.  f is the fork whose branch it is.
Grow(f, ops, adaptors) ==
  ops \o [i \in DOMAIN adaptors |->
            [kind |-> adaptors[i][1], ctx |-> adaptors[i][2], env |-> f,
             child |-> IF adaptors[i][1] \in {"schedule", "just", "just_stopped", "cache"}
                         THEN <<>> ELSE <<Len(ops) + i - 1>>]]
Chain(adaptors) == Grow(0, <<>>, adaptors)

Both(f, ops, kind, ctx, i, j) ==
  Append(ops, [kind |-> kind, ctx |-> ctx, child |-> <<i, j>>, env |-> f])

\* when_all(a, b) | tail.
JoinOf(a, b, tail) ==
  Grow(0, Both(0, Chain(a \o b), "when_all", NoScheduler, Len(a), Len(a) + Len(b)), tail)

\* prefix | fork_join(a, b) | tail.
ForkOf(prefix, a, b, tail) ==
  LET fork == Chain(prefix \o << <<"fork", g>> >>)
      f == Len(fork)
      cache == << <<"cache", NoScheduler>> >>
      branches == Grow(f, fork, cache \o a \o cache \o b)
      w == Len(branches) + 1
      join == Both(f, branches, "when_all", NoScheduler, f + 1 + Len(a), w - 1)
  IN Grow(0, Both(0, join, "fork_join", g, f, w), tail)

\* repeat_until runs what ends on the host with a stage, n times.
Repeated(n, ops) ==
  [ops |-> ops,
   rounds |-> IF ops[Len(ops)].kind = "then" /\ ops[Len(ops)].ctx = Host THEN n ELSE 1]
Once(ops) == Repeated(1, ops)

-----------------------------------------------------------------------------
(***************************************************************************)
(* Chains.                                                                 *)
(***************************************************************************)

\* A chain from a start along the given steps: "then", or where to continue.
Walk(start, steps) ==
  LET at[i \in 0 .. Len(steps)] ==
        IF i = 0 THEN start ELSE IF steps[i] = "then" THEN at[i - 1] ELSE steps[i]
  IN Chain(<< <<"schedule", start>> >> \o
           [i \in DOMAIN steps |->
              <<IF steps[i] = "then" THEN "then" ELSE "continues_on", at[i]>>])

Places == {g, h, k, Host}
Walks ==
  {Walk(c, steps) : c \in Places,
                    steps \in UNION {[1 .. n -> Places \cup {"then"}] : n \in 1 .. MaxAdaptors}}

Chains == {Repeated(MaxRounds, w) : w \in {v \in Walks : Orderly(v)}}

-----------------------------------------------------------------------------
(***************************************************************************)
(* Senders that fork and join.                                             *)
(***************************************************************************)

Plain == << <<"schedule", g>>, <<"then", g>> >>
Longer == << <<"schedule", g>>, <<"then", g>>, <<"then", g>> >>
Moved == << <<"just", Host>>, <<"continues_on", g>>, <<"then", g>> >>
Hosted == << <<"schedule", Host>>, <<"then", Host>>, <<"continues_on", g>>, <<"then", g>> >>

ToHost == << <<"continues_on", Host>>, <<"then", Host>> >>
ToGraph == << <<"continues_on", g>>, <<"then", g>> >>
ToNeighbour == << <<"continues_on", k>>, <<"then", k>> >>

\* test_when_all.cpp.  Only the first branch may begin on the host: the stage
\* of the first branch launches the nodes of all of them.
Joins ==
  {Once(JoinOf(a, b, tail)) : a \in {Plain, Longer, Moved, Hosted}, b \in {Plain, Moved},
                              tail \in {<<>>, ToHost, ToGraph, ToNeighbour}}

\* test_fork_join.cpp.
Forks ==
  {Once(ForkOf(prefix, a, ToGraph, tail)) :
     prefix \in {Plain, Moved, Hosted}, a \in {ToGraph, Append(ToGraph, <<"then", g>>)},
     tail \in {<<>>, << <<"then", g>> >>, ToHost}}

All == Chains \cup Joins \cup Forks

\* A sender that is stopped, waited for on the graph or on the host.
Stopped ==
  {Once(Chain(<< <<"just_stopped", Host>> >> \o ToGraph \o tail)) : tail \in {<<>>, ToHost}}
Faulty == All \cup Stopped

-----------------------------------------------------------------------------
(***************************************************************************)
(* Senders that do not do what the repository says of them.                *)
(***************************************************************************)

\* schedule | then | continues_on(host) | then.
ThrowsBeforeHost == {Once(Chain(Plain \o ToHost))}

\* A join, a transition between contexts that share a stream: repeated.
RepeatedJoin == {Repeated(2, JoinOf(Plain, Plain, ToHost))}
RepeatedNeighbour == {Repeated(2, Chain(Plain \o ToNeighbour \o ToHost))}

=============================================================================
