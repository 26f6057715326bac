------------------------- MODULE GraphContextProofs -------------------------
(***************************************************************************)
(* Proofs about GraphContext, for any contexts, streams and nodes.         *)
(*                                                                         *)
(* The safety properties follow from one inductive invariant.  Its first   *)
(* part relates the graph of a context to what was instantiated of it, its *)
(* second part relates every launch on a stream to the flag and to the     *)
(* instance of its context.  FlagCoversLaunches alone is not inductive: a  *)
(* fence of one stream empties the right one only because every launch of  *)
(* a context is on the stream of that context.                             *)
(***************************************************************************)
EXTENDS GraphContext, SequenceTheorems, TLAPS

\* What is instantiated is part of the graph, and both contain, with a node,
\* everything that node was created after.
GraphInv ==
  \A c \in Context :
    /\ instance[c] \subseteq nodes[c]
    /\ \A n \in nodes[c] : dep[n] \subseteq nodes[c]
    /\ \A n \in instance[c] : dep[n] \subseteq instance[c]

\* A launch is on the stream of its context, which is marked as submitted and
\* has no other launch there; what it has run is a part of the instance that
\* is closed under dependencies.
LaunchInv ==
  \A e \in Exec : \A j \in DOMAIN queue[e] :
    LET l == queue[e][j]
    IN /\ ExecOf[l.ctx] = e
       /\ is_submitted[l.ctx]
       /\ l.done \subseteq instance[l.ctx]
       /\ \A n \in l.done : dep[n] \subseteq l.done
       /\ \A i \in DOMAIN queue[e] : queue[e][i].ctx = l.ctx => i = j

IInv == ContextTypeOK /\ GraphInv /\ LaunchInv

-----------------------------------------------------------------------------
(***************************************************************************)
(* The three ways in which a queue changes.                                *)
(***************************************************************************)

\* Appending keeps the elements of a sequence where they are.
LEMMA AppendElements ==
  ASSUME NEW S, NEW q \in Seq(S), NEW x \in S
  PROVE  /\ Append(q, x) \in Seq(S)
         /\ DOMAIN Append(q, x) = DOMAIN q \cup {Len(q) + 1}
         /\ \A j \in DOMAIN q : Append(q, x)[j] = q[j]
         /\ Append(q, x)[Len(q) + 1] = x
         /\ Len(q) + 1 \notin DOMAIN q
<1>1. Append(q, x) \in Seq(S) /\ Len(Append(q, x)) = Len(q) + 1
  BY AppendProperties
<1>2. DOMAIN q = 1 .. Len(q) /\ DOMAIN Append(q, x) = 1 .. Len(q) + 1 /\ Len(q) \in Nat
  BY <1>1, LenProperties
<1> QED
  BY <1>1, <1>2, AppendProperties

\* The tail holds the elements but the first, each one position earlier.
LEMMA TailElements ==
  ASSUME NEW S, NEW q \in Seq(S), q # <<>>
  PROVE  /\ Tail(q) \in Seq(S)
         /\ \A j \in DOMAIN Tail(q) : j \in Nat /\ j + 1 \in DOMAIN q /\ Tail(q)[j] = q[j + 1]
<1>1. /\ Tail(q) \in Seq(S)
      /\ Len(Tail(q)) = Len(q) - 1
      /\ \A i \in 1 .. Len(Tail(q)) : Tail(q)[i] = q[i + 1]
  BY HeadTailProperties
<1>2. DOMAIN q = 1 .. Len(q) /\ DOMAIN Tail(q) = 1 .. Len(Tail(q)) /\ Len(q) \in Nat
  BY <1>1, LenProperties
<1> QED
  BY <1>1, <1>2

\* A queue that is not empty has a first launch, its head.
LEMMA HeadElement ==
  ASSUME NEW S, NEW q \in Seq(S), q # <<>>
  PROVE  1 \in DOMAIN q /\ Head(q) = q[1] /\ Head(q) \in S
<1>1. Len(q) \in Nat /\ Len(q) # 0 /\ DOMAIN q = 1 .. Len(q)
  BY EmptySeq, LenProperties
<1> QED
  BY <1>1, ElementOfSeq


-----------------------------------------------------------------------------
(***************************************************************************)
(* The invariant holds initially and is preserved by every operation.      *)
(***************************************************************************)

LEMMA InitIInv == ContextInit => IInv
BY EmptySeq DEF ContextInit, IInv, ContextTypeOK, GraphInv, LaunchInv

\* Adding a fresh node after nodes of the same graph.
LEMMA AddNodeIInv ==
  ASSUME IInv, NEW g \in Context, NEW n \in Node, NEW pred \in SUBSET Node,
         Fresh(n), pred \subseteq nodes[g], AddNode(g, n, pred),
         has_graph' \in SUBSET Context, UNCHANGED <<flagVars, queue>>
  PROVE  IInv'
<1> USE DEF flagVars
<1>1. ContextTypeOK'
  BY DEF IInv, ContextTypeOK, AddNode
<1>2. \A c \in Context : n \notin nodes[c] /\ n \notin instance[c]
  BY DEF Fresh, IInv, GraphInv
<1>3. \A c \in Context : nodes'[c] = IF c = g THEN nodes[c] \cup {n} ELSE nodes[c]
  BY DEF IInv, ContextTypeOK, AddNode
<1>4. \A m \in Node : dep'[m] = IF m = n THEN pred ELSE dep[m]
  BY DEF IInv, ContextTypeOK, AddNode
<1>5. GraphInv'
  <2> SUFFICES ASSUME NEW c \in Context
               PROVE  /\ instance[c] \subseteq nodes'[c]
                      /\ \A m \in nodes'[c] : dep'[m] \subseteq nodes'[c]
                      /\ \A m \in instance[c] : dep'[m] \subseteq instance[c]
    BY DEF GraphInv
  <2>1. nodes[c] \subseteq Node /\ instance[c] \subseteq Node
    BY DEF IInv, ContextTypeOK
  <2>2. \A m \in nodes[c] : dep'[m] = dep[m]
    BY <1>2, <1>4, <2>1
  <2>3. instance[c] \subseteq nodes[c] /\ nodes[c] \subseteq nodes'[c]
    BY <1>3 DEF IInv, GraphInv
  <2>4. ASSUME NEW m \in nodes'[c]
        PROVE  dep'[m] \subseteq nodes'[c]
    <3>1. CASE m \in nodes[c]
      BY <3>1, <2>2, <2>3 DEF IInv, GraphInv
    <3>2. CASE m \notin nodes[c]
      <4>1. m = n /\ c = g
        BY <3>2, <1>3
      <4> QED
        BY <4>1, <1>4, <2>3
    <3> QED
      BY <3>1, <3>2
  <2>5. ASSUME NEW m \in instance[c]
        PROVE  dep'[m] \subseteq instance[c]
    BY <2>2, <2>3 DEF IInv, GraphInv
  <2> QED
    BY <2>3, <2>4, <2>5
<1>6. LaunchInv'
  <2> SUFFICES ASSUME NEW e \in Exec, NEW j \in DOMAIN queue[e], NEW m \in queue[e][j].done
               PROVE  dep'[m] = dep[m]
    BY DEF LaunchInv, IInv
  <2>1. queue[e][j] \in Launch
    BY ElementOfSeq, LenProperties DEF IInv, ContextTypeOK
  <2>2. m \in Node /\ m \in instance[queue[e][j].ctx]
    BY <2>1 DEF IInv, LaunchInv, Launch
  <2> QED
    BY <1>2, <1>4, <2>1, <2>2 DEF Launch
<1> QED
  BY <1>1, <1>5, <1>6 DEF IInv

LEMMA SubmitIInv ==
  ASSUME IInv, NEW c \in Context, Submit(c)
  PROVE  IInv'
<1>1. CASE c \in has_graph /\ ~is_submitted[c]
  <2> DEFINE e == ExecOf[c]
             l == [ctx |-> c, done |-> {}]
             froze == IF is_instantiated[c] THEN instance[c] ELSE nodes[c]
  <2>1. /\ is_instantiated' = [is_instantiated EXCEPT ![c] = TRUE]
        /\ instance' = [instance EXCEPT ![c] = froze]
        /\ queue' = [queue EXCEPT ![e] = Append(@, l)]
        /\ is_submitted' = [is_submitted EXCEPT ![c] = TRUE]
        /\ UNCHANGED graphVars
    BY <1>1 DEF Submit, Launched
  <2>2. e \in Exec /\ l \in Launch /\ queue[e] \in Seq(Launch)
    BY ContextAssumption DEF Launch, IInv, ContextTypeOK
  <2>3. /\ Append(queue[e], l) \in Seq(Launch)
        /\ DOMAIN Append(queue[e], l) = DOMAIN queue[e] \cup {Len(queue[e]) + 1}
        /\ \A j \in DOMAIN queue[e] : Append(queue[e], l)[j] = queue[e][j]
        /\ Append(queue[e], l)[Len(queue[e]) + 1] = l
        /\ Len(queue[e]) + 1 \notin DOMAIN queue[e]
    BY <2>2, AppendElements
  <2>4. ContextTypeOK'
    BY <2>1, <2>2, <2>3 DEF IInv, ContextTypeOK, graphVars
  <2>5. instance[c] \subseteq froze /\ froze \subseteq nodes[c]
        /\ \A n \in froze : dep[n] \subseteq froze
    BY DEF IInv, GraphInv
  <2>6. \A d \in Context : instance'[d] = IF d = c THEN froze ELSE instance[d]
    BY <2>1 DEF IInv, ContextTypeOK
  <2>7. GraphInv'
    BY <2>1, <2>5, <2>6 DEF IInv, GraphInv, graphVars
  <2>8. \A f \in Exec : \A j \in DOMAIN queue[f] : queue[f][j].ctx \in Context /\ queue[f][j].ctx # c
    <3> SUFFICES ASSUME NEW f \in Exec, NEW j \in DOMAIN queue[f]
                 PROVE  queue[f][j].ctx \in Context /\ queue[f][j].ctx # c
      OBVIOUS
    <3>1. queue[f][j] \in Launch
      BY ElementOfSeq, LenProperties DEF IInv, ContextTypeOK
    <3> QED
      BY <1>1, <3>1 DEF IInv, LaunchInv, Launch
  <2>9. LaunchInv'
    <3> SUFFICES ASSUME NEW f \in Exec, NEW j \in DOMAIN queue'[f]
                 PROVE  /\ ExecOf[queue'[f][j].ctx] = f
                        /\ is_submitted'[queue'[f][j].ctx]
                        /\ queue'[f][j].done \subseteq instance'[queue'[f][j].ctx]
                        /\ \A n \in queue'[f][j].done : dep'[n] \subseteq queue'[f][j].done
                        /\ \A i \in DOMAIN queue'[f] : queue'[f][i].ctx = queue'[f][j].ctx => i = j
      BY DEF LaunchInv
    <3>1. dep' = dep /\ \A d \in Context : is_submitted'[d] = (d = c \/ is_submitted[d])
      BY <2>1 DEF graphVars, IInv, ContextTypeOK
    <3>2. queue'[f] = IF f = e THEN Append(queue[e], l) ELSE queue[f]
      BY <2>1, <2>2 DEF IInv, ContextTypeOK
    <3>3. CASE f = e /\ j = Len(queue[e]) + 1
      <4>1. queue'[f][j] = l
        BY <3>2, <3>3, <2>3
      <4>2. \A i \in DOMAIN queue'[f] : queue'[f][i].ctx = c => i = j
        BY <3>2, <3>3, <2>2, <2>3, <2>8
      <4>3. l.ctx = c /\ l.done = {}
        OBVIOUS
      <4>4. ExecOf[l.ctx] = f /\ is_submitted'[l.ctx]
        BY <4>3, <3>1, <3>3
      <4> QED
        BY <4>1, <4>2, <4>3, <4>4
    <3>4. CASE ~(f = e /\ j = Len(queue[e]) + 1)
      <4>1. j \in DOMAIN queue[f] /\ queue'[f][j] = queue[f][j]
        BY <3>2, <3>4, <2>3
      <4>2. queue[f][j].ctx \in Context /\ queue[f][j].ctx # c
        BY <4>1, <2>8
      <4>3. \A i \in DOMAIN queue'[f] : queue'[f][i].ctx = queue'[f][j].ctx => i = j
        <5> SUFFICES ASSUME NEW i \in DOMAIN queue'[f], queue'[f][i].ctx = queue'[f][j].ctx
                     PROVE  i = j
          OBVIOUS
        <5>1. CASE f = e /\ i = Len(queue[e]) + 1
          <6>1. queue'[f][i].ctx = c
            BY <5>1, <3>2, <2>3
          <6> QED
            BY <6>1, <4>1, <4>2
        <5>2. CASE ~(f = e /\ i = Len(queue[e]) + 1)
          <6>1. i \in DOMAIN queue[f] /\ queue'[f][i] = queue[f][i]
            BY <3>2, <5>2, <2>3
          <6> QED
            BY <6>1, <4>1 DEF IInv, LaunchInv
        <5> QED
          BY <5>1, <5>2
      <4>4. /\ ExecOf[queue[f][j].ctx] = f
            /\ is_submitted[queue[f][j].ctx]
            /\ queue[f][j].done \subseteq instance[queue[f][j].ctx]
            /\ \A n \in queue[f][j].done : dep[n] \subseteq queue[f][j].done
        BY <4>1 DEF IInv, LaunchInv
      <4>5. is_submitted'[queue[f][j].ctx] /\ instance'[queue[f][j].ctx] = instance[queue[f][j].ctx]
        BY <4>2, <4>4, <3>1, <2>6
      <4> HIDE DEF e, l, froze
      <4> QED
        BY <4>1, <4>3, <4>4, <4>5, <3>1
    <3> QED
      BY <3>3, <3>4
  <2> QED
    BY <2>4, <2>7, <2>9 DEF IInv
<1>2. CASE ~(c \in has_graph /\ ~is_submitted[c])
  BY <1>2 DEF Submit, IInv, ContextTypeOK, GraphInv, LaunchInv, graphVars, flagVars
<1> QED
  BY <1>1, <1>2

LEMMA WaitIInv ==
  ASSUME IInv, NEW c \in Context, Wait(c)
  PROVE  IInv'
<1>1. UNCHANGED <<has_graph, nodes, dep, is_instantiated, instance, queue>>
      /\ is_submitted' = [is_submitted EXCEPT ![c] = FALSE]
  BY DEF Wait, graphVars
<1>2. ContextTypeOK' /\ GraphInv'
  BY <1>1 DEF IInv, ContextTypeOK, GraphInv
<1>3. ASSUME NEW e \in Exec, NEW j \in DOMAIN queue[e]
      PROVE  is_submitted'[queue[e][j].ctx]
  <2>1. queue[e][j].ctx \in Context /\ is_submitted[queue[e][j].ctx] /\ ExecOf[queue[e][j].ctx] = e
    <3>1. queue[e][j] \in Launch
      BY ElementOfSeq, LenProperties DEF IInv, ContextTypeOK
    <3> QED
      BY <3>1 DEF IInv, LaunchInv, Launch
  <2>2. queue[e][j].ctx # c
    <3> SUFFICES ASSUME queue[e][j].ctx = c
                 PROVE  FALSE
      OBVIOUS
    <3>1. queue[e] = <<>>
      BY <2>1 DEF Wait, Fenced
    <3> QED
      BY <3>1
  <2> QED
    BY <1>1, <2>1, <2>2 DEF IInv, ContextTypeOK
<1>4. LaunchInv'
  BY <1>1, <1>3 DEF IInv, LaunchInv
<1> QED
  BY <1>2, <1>4 DEF IInv

LEMMA RunNodeIInv ==
  ASSUME IInv, NEW e \in Exec, NEW n \in Node, RunNode(e, n)
  PROVE  IInv'
<1> DEFINE l == queue[e][1]
           ran == [l EXCEPT !.done = @ \cup {n}]
<1>1. queue[e] \in Seq(Launch) /\ 1 \in DOMAIN queue[e] /\ Head(queue[e]) = l /\ l \in Launch
  BY HeadElement DEF RunNode, IInv, ContextTypeOK
<1>2. /\ n \in instance[l.ctx]
      /\ dep[n] \subseteq l.done
      /\ queue' = [queue EXCEPT ![e] = [@ EXCEPT ![1] = ran]]
      /\ UNCHANGED <<has_graph, nodes, dep, is_instantiated, is_submitted, instance>>
  BY <1>1 DEF RunNode, graphVars, flagVars
<1>3. ran \in Launch /\ ran.ctx = l.ctx /\ ran.done = l.done \cup {n}
  BY <1>1 DEF Launch
<1>4. queue'[e] = [queue[e] EXCEPT ![1] = ran] /\ \A f \in Exec : f # e => queue'[f] = queue[f]
  BY <1>2 DEF IInv, ContextTypeOK
<1> HIDE DEF l, ran
<1>5. /\ queue'[e] \in Seq(Launch)
      /\ DOMAIN queue'[e] = DOMAIN queue[e]
      /\ \A j \in DOMAIN queue[e] : queue'[e][j] = IF j = 1 THEN ran ELSE queue[e][j]
  <2>1. 1 \in 1 .. Len(queue[e])
    BY <1>1, LenProperties
  <2> QED
    BY <1>1, <1>3, <1>4, <2>1, ExceptSeq
<1>6. ContextTypeOK'
  BY <1>2, <1>4, <1>5 DEF IInv, ContextTypeOK
<1>7. GraphInv'
  BY <1>2 DEF IInv, GraphInv
<1>8. \A f \in Exec : DOMAIN queue'[f] = DOMAIN queue[f] /\ \A j \in DOMAIN queue[f] :
        /\ queue'[f][j].ctx = queue[f][j].ctx
        /\ queue'[f][j].done = IF f = e /\ j = 1 THEN l.done \cup {n} ELSE queue[f][j].done
  BY <1>3, <1>4, <1>5 DEF l
<1>9. LaunchInv'
  <2> SUFFICES ASSUME NEW f \in Exec, NEW j \in DOMAIN queue[f]
               PROVE  /\ ExecOf[queue'[f][j].ctx] = f
                      /\ is_submitted[queue'[f][j].ctx]
                      /\ queue'[f][j].done \subseteq instance[queue'[f][j].ctx]
                      /\ \A m \in queue'[f][j].done : dep[m] \subseteq queue'[f][j].done
                      /\ \A i \in DOMAIN queue[f] : queue'[f][i].ctx = queue'[f][j].ctx => i = j
    BY <1>2, <1>8 DEF LaunchInv
  <2>1. /\ ExecOf[queue[f][j].ctx] = f
        /\ is_submitted[queue[f][j].ctx]
        /\ queue[f][j].done \subseteq instance[queue[f][j].ctx]
        /\ \A m \in queue[f][j].done : dep[m] \subseteq queue[f][j].done
        /\ \A i \in DOMAIN queue[f] : queue[f][i].ctx = queue[f][j].ctx => i = j
    BY DEF IInv, LaunchInv
  <2>2. queue'[f][j].done \subseteq instance[queue[f][j].ctx]
    BY <1>2, <1>8, <2>1 DEF l
  <2>3. \A m \in queue'[f][j].done : dep[m] \subseteq queue'[f][j].done
    BY <1>2, <1>8, <2>1 DEF l
  <2> QED
    BY <1>8, <2>1, <2>2, <2>3
<1> QED
  BY <1>6, <1>7, <1>9 DEF IInv

LEMMA RetireIInv ==
  ASSUME IInv, NEW e \in Exec, Retire(e)
  PROVE  IInv'
<1>1. /\ queue[e] \in Seq(Launch) /\ queue[e] # <<>>
      /\ queue' = [queue EXCEPT ![e] = Tail(queue[e])]
      /\ UNCHANGED <<has_graph, nodes, dep, is_instantiated, is_submitted, instance>>
  BY DEF Retire, graphVars, flagVars, IInv, ContextTypeOK
<1>2. /\ Tail(queue[e]) \in Seq(Launch)
      /\ \A j \in DOMAIN Tail(queue[e]) :
           j \in Nat /\ j + 1 \in DOMAIN queue[e] /\ Tail(queue[e])[j] = queue[e][j + 1]
  BY <1>1, TailElements
<1>3. queue'[e] = Tail(queue[e]) /\ \A f \in Exec : f # e => queue'[f] = queue[f]
  BY <1>1 DEF IInv, ContextTypeOK
<1>4. ContextTypeOK' /\ GraphInv'
  BY <1>1, <1>2 DEF IInv, ContextTypeOK, GraphInv
<1>5. LaunchInv'
  <2> SUFFICES ASSUME NEW f \in Exec, NEW j \in DOMAIN queue'[f]
               PROVE  /\ ExecOf[queue'[f][j].ctx] = f
                      /\ is_submitted[queue'[f][j].ctx]
                      /\ queue'[f][j].done \subseteq instance[queue'[f][j].ctx]
                      /\ \A m \in queue'[f][j].done : dep[m] \subseteq queue'[f][j].done
                      /\ \A i \in DOMAIN queue'[f] : queue'[f][i].ctx = queue'[f][j].ctx => i = j
    BY <1>1 DEF LaunchInv
  <2>1. CASE f # e
    BY <2>1, <1>3 DEF IInv, LaunchInv
  <2>2. CASE f = e
    <3>1. j \in Nat /\ j + 1 \in DOMAIN queue[e] /\ queue'[e][j] = queue[e][j + 1]
      BY <2>2, <1>2, <1>3
    <3>2. ASSUME NEW i \in DOMAIN queue'[e], queue'[e][i].ctx = queue'[e][j].ctx
          PROVE  i = j
      <4>1. i \in Nat /\ i + 1 \in DOMAIN queue[e] /\ queue'[e][i] = queue[e][i + 1]
        BY <1>2, <1>3
      <4>2. i + 1 = j + 1
        BY <3>1, <3>2, <4>1 DEF IInv, LaunchInv
      <4> QED
        BY <3>1, <4>1, <4>2
    <3> QED
      BY <2>2, <3>1, <3>2 DEF IInv, LaunchInv
  <2> QED
    BY <2>1, <2>2
<1> QED
  BY <1>4, <1>5 DEF IInv

\* Every step that a client or the device may take preserves the invariant.
LEMMA NextIInv == IInv /\ [ContextNext]_contextVars => IInv'
<1> SUFFICES ASSUME IInv, [ContextNext]_contextVars
             PROVE  IInv'
  OBVIOUS
<1>1. ASSUME NEW c \in Context, NEW g \in Context, NEW n \in Node, NEW pred \in SUBSET Node,
             BuildNode(c, g, n, pred)
      PROVE  IInv'
  <2>1. has_graph' \in SUBSET Context
    BY <1>1 DEF BuildNode, GetGraph, IInv, ContextTypeOK
  <2> QED
    BY <1>1, <2>1, AddNodeIInv DEF BuildNode
<1>2. ASSUME NEW g \in Context, NEW n \in Node, NEW pred \in SUBSET Node,
             BuildAggregate(g, n, pred)
      PROVE  IInv'
  <2>1. has_graph' \in SUBSET Context
    BY <1>2 DEF BuildAggregate, IInv, ContextTypeOK
  <2> QED
    BY <1>2, <2>1, AddNodeIInv DEF BuildAggregate
<1>3. ASSUME NEW C \in SUBSET Context, LookUpGraph(C)
      PROVE  IInv'
  BY <1>3 DEF LookUpGraph, GetGraph, flagVars, IInv, ContextTypeOK, GraphInv, LaunchInv
<1>4. ASSUME NEW c \in Context, Submit(c)
      PROVE  IInv'
  BY <1>4, SubmitIInv
<1>5. ASSUME NEW c \in Context, Wait(c)
      PROVE  IInv'
  BY <1>5, WaitIInv
<1>6. ASSUME NEW e \in Exec, DeviceStep(e)
      PROVE  IInv'
  BY <1>6, RunNodeIInv, RetireIInv DEF DeviceStep
<1>7. CASE UNCHANGED contextVars
  BY <1>7 DEF contextVars, IInv, ContextTypeOK, GraphInv, LaunchInv
<1> QED
  BY <1>1, <1>2, <1>3, <1>4, <1>5, <1>6, <1>7 DEF ContextNext

\* The invariant holds in every reachable state.
THEOREM Invariance == ContextSpec => []IInv
<1>1. ContextInit => IInv
  BY InitIInv
<1>2. IInv /\ [ContextNext]_contextVars => IInv'
  BY NextIInv
<1> QED
  BY <1>1, <1>2, PTL DEF ContextSpec

-----------------------------------------------------------------------------
(***************************************************************************)
(* What follows from it.                                                   *)
(***************************************************************************)

\* The variables of State and of the device keep their types.
THEOREM TypeCorrect == ContextSpec => []ContextTypeOK
BY Invariance, PTL DEF IInv

\* What a launch has run is closed under dependencies, and so is every
\* instantiated graph: the device never runs a node before its predecessors.
THEOREM DependenciesRespected == ContextSpec => []LaunchesRespectDependencies
<1>1. IInv => LaunchesRespectDependencies
  BY DEF IInv, GraphInv, LaunchInv, LaunchesRespectDependencies
<1> QED
  BY <1>1, Invariance, PTL

\* wait() may trust is_submitted: if it is clear, the device holds no launch of
\* the graph, on any stream.
THEOREM FlagIsSafe == ContextSpec => []FlagCoversLaunches
<1>1. IInv => FlagCoversLaunches
  BY DEF IInv, LaunchInv, FlagCoversLaunches, LaunchesOf
<1> QED
  BY <1>1, Invariance, PTL

\* A graph is never in flight twice, nor on a stream of another context.
THEOREM OneLaunch == ContextSpec => []OneLaunchPerContext
<1>1. IInv => OneLaunchPerContext
  BY DEF IInv, LaunchInv, OneLaunchPerContext, LaunchesOf
<1> QED
  BY <1>1, Invariance, PTL

\* Once instantiated, a graph stays instantiated and is never frozen anew.
THEOREM FrozenOnce == ContextSpec => InstantiatedOnce
<1> DEFINE Frozen == \A c \in Context : is_instantiated[c] =>
                       is_instantiated'[c] /\ instance'[c] = instance[c]
<1>1. ASSUME IInv, [ContextNext]_contextVars
      PROVE  [Frozen]_contextVars
  <2> USE <1>1
  <2>1. ASSUME NEW d \in Context, Submit(d)
        PROVE  Frozen
    BY <2>1 DEF Submit, Launched, IInv, ContextTypeOK, flagVars
  <2>2. ASSUME UNCHANGED <<is_instantiated, instance>>
        PROVE  Frozen
    BY <2>2
  <2>3. CASE ContextNext
    BY <2>1, <2>2, <2>3 DEF ContextNext, BuildNode, BuildAggregate, LookUpGraph, Wait,
                            DeviceStep, RunNode, Retire, flagVars
  <2> QED
    BY <2>3
<1> QED
  BY <1>1, Invariance, PTL DEF ContextSpec, InstantiatedOnce

=============================================================================
