------------------------------ MODULE Kernels ------------------------------
(***************************************************************************)
(* Kernels in flight on execution-space instances (streams), and the       *)
(* memory they work on.  A kernel waits for what was enqueued before it on *)
(* its stream and, in a graph, for its predecessors; nothing else orders   *)
(* it.  Kernels that nothing orders may run at the same time.              *)
(***************************************************************************)
EXTENDS Naturals, Sequences, FiniteSets, Functions

VARIABLES
  mem,      \* mem[b]: what buffer b holds
  pending,  \* the kernels in flight
  issued    \* the number given to the last kernel that was enqueued

deviceVars == <<mem, pending, issued>>

\* A kernel: its operation, the scalars it captured by value, the buffers it
\* reads, those it writes, and those it uses as scratch space.
Kernel(op, args, in, out, scratch) ==
  [op |-> op, args |-> args, in |-> in, out |-> out, scratch |-> scratch]

Reads(t) == Range(t.kernel.in)
Writes(t) == Range(t.kernel.out) \cup t.kernel.scratch

\* Two accesses to one buffer, one of which writes.
Conflict(t, u) == Writes(t) \cap (Reads(u) \cup Writes(u)) # {}

-----------------------------------------------------------------------------

\* `work` followed by a chain of kernels on a stream: the first one waits for the
\* kernels at the positions in `from`, each other one for the one before it.
Then(work, stream, from, kernels) ==
  work \o [i \in DOMAIN kernels |->
             [kernel |-> kernels[i], stream |-> stream,
              deps |-> IF i = 1 THEN from ELSE {Len(work) + i - 1}]]

InOrder(stream, kernels) == Then(<<>>, stream, {}, kernels)

\* A piece of work is enqueued: sequences of [kernel, stream, deps], where deps
\* are positions in the sequence.  Kernels are numbered anew on an idle device.
Enqueue(work) ==
  LET base == IF pending = {} THEN 0 ELSE issued
      ahead(i) == {t.id : t \in {u \in pending : u.stream = work[i].stream}}
  IN /\ pending' = pending \cup
          {[id |-> base + i, stream |-> work[i].stream, kernel |-> work[i].kernel,
            after |-> ahead(i) \cup {base + j : j \in work[i].deps}] : i \in DOMAIN work}
     /\ issued' = base + Len(work)

\* A fence of stream e returns.
Fenced(e) == \A t \in pending : t.stream # e

Ready(t) == \A u \in pending : u.id \notin t.after

\* Operands of kernel t, scalars first.
Operands(t) == t.kernel.args \o [i \in DOMAIN t.kernel.in |-> mem[t.kernel.in[i]]]

\* Kernel t runs and leaves `results` in the buffers that it writes.
RunKernel(t, results) ==
  /\ Ready(t)
  /\ mem' = [b \in DOMAIN mem |->
               IF b \in Range(t.kernel.out)
                 THEN results[CHOOSE i \in DOMAIN t.kernel.out : t.kernel.out[i] = b]
                 ELSE mem[b]]
  /\ pending' = pending \ {t}
  /\ UNCHANGED issued

\* Kernels that could run at the same time do not touch the same buffer, unless
\* all of them only read it.
NoRace ==
  \A t, u \in pending : t # u /\ Ready(t) /\ Ready(u) => ~Conflict(t, u)

=============================================================================
