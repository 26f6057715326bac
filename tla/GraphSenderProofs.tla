-------------------------- MODULE GraphSenderProofs --------------------------
(***************************************************************************)
(* What is proved of contexts holds for every sender that is well-formed   *)
(* (SenderAssumption), whatever throws and however often it is repeated.   *)
(*                                                                         *)
(* A step of GraphSender need not be a step of ContextNext: a stage may    *)
(* look up several graphs at once, and nothing in ContextNext says which   *)
(* nodes are fresh.  Hence the invariant of the contexts is shown to be    *)
(* preserved again, with the lemmas of GraphContextProofs, and needs two   *)
(* facts about connect: an answer to get_node names nodes of one existing  *)
(* graph (AnchorInv), and the operation states that are still to be        *)
(* constructed have no node yet (FreshInv).                                *)
(***************************************************************************)
EXTENDS GraphSender, GraphContextProofs

\* What operation state i answers: nodes in the graph of a context that the
\* sender has named up to i.
GoodAnswer(a, i) ==
  a.has = "node" => /\ a.graph \in Context
                    /\ a.dep \subseteq nodes[a.graph]
                    /\ \E m \in 1 .. i : CtxOf(m) = a.graph

AnchorInv == \A i \in Ops : GoodAnswer(anchor[i], i)

\* The nodes are those of earlier rounds and of earlier operation states.
FreshInv ==
  \A c \in Context : \A n \in nodes[c] :
    /\ n[1] \in Nat /\ n[2] \in Nat
    /\ n[2] < iter \/ (n[2] = iter /\ n[1] < cursor)

ControlOK ==
  /\ sender \in Senders
  /\ iter \in 1 .. sender.rounds
  /\ cursor \in 1 .. Final
  /\ anchor \in [Ops -> Answer]

SenderInv == ControlOK /\ AnchorInv /\ FreshInv /\ IInv

-----------------------------------------------------------------------------
(***************************************************************************)
(* The shape of a sender.                                                  *)
(***************************************************************************)

LEMMA Shape ==
  ASSUME sender \in Senders
  PROVE  /\ Len(sender.ops) \in Nat \ {0}
         /\ Ops = 1 .. Len(sender.ops)
         /\ sender.rounds \in Nat \ {0}
         /\ \A i \in Ops, r \in 1 .. sender.rounds : <<i, r>> \in Node
         /\ \A i \in Ops : sender.ops[i] \in OpState
<1>1. /\ sender.ops \in Seq(OpState) /\ sender.ops # <<>>
      /\ sender.rounds \in Nat \ {0}
      /\ (1 .. Len(sender.ops)) \X (1 .. sender.rounds) \subseteq Node
  BY SenderAssumption DEF WellFormed
<1>2. Len(sender.ops) \in Nat \ {0} /\ DOMAIN sender.ops = 1 .. Len(sender.ops)
  BY <1>1, EmptySeq, LenProperties
<1>3. \A i \in DOMAIN sender.ops : sender.ops[i] \in OpState
  BY <1>1, <1>2, ElementOfSeq
<1> QED
  BY <1>1, <1>2, <1>3 DEF Ops

\* An operation state starts those that were constructed before it.
LEMMA Children ==
  ASSUME sender \in Senders, NEW i \in Ops
  PROVE  /\ Child(i) \in Seq(Nat)
         /\ Range(Child(i)) \subseteq 1 .. i - 1
         /\ EnvFork(i) \in 0 .. i - 1
         /\ Kind(i) \in {"then", "continues_on", "when_all", "fork"} => Child(i)[1] \in Range(Child(i))
         /\ Kind(i) = "fork_join" => {Child(i)[1], Child(i)[2]} \subseteq Range(Child(i))
<1>1. i \in 1 .. Len(sender.ops) /\ sender.ops[i] \in OpState /\ i \in DOMAIN sender.ops
  BY Shape DEF Ops
<1>2. Child(i) \in Seq(Nat) /\ EnvFork(i) \in Nat
  BY <1>1 DEF OpState, Child, EnvFork
<1>3. /\ Range(Child(i)) \subseteq 1 .. i - 1 /\ EnvFork(i) < i
      /\ Kind(i) \in {"then", "continues_on", "fork"} => Len(Child(i)) = 1
      /\ Kind(i) = "when_all" => Child(i) # <<>>
      /\ Kind(i) = "fork_join" => Len(Child(i)) = 2
  BY <1>1, SenderAssumption DEF WellFormed, Child, EnvFork, Kind
<1>4. DOMAIN Child(i) = 1 .. Len(Child(i)) /\ Len(Child(i)) \in Nat
  BY <1>2, LenProperties
<1>5. Child(i) # <<>> => Len(Child(i)) # 0
  BY <1>2, EmptySeq
<1> QED
  BY <1>1, <1>2, <1>3, <1>4, <1>5 DEF Range

\* Two operation states up to a when_all that are on contexts are on the same.
LEMMA OneContextPerJoin ==
  ASSUME sender \in Senders, NEW i \in Ops, Kind(i) = "when_all",
         NEW j \in 1 .. i, NEW m \in 1 .. i, CtxOf(j) \in Context, CtxOf(m) \in Context
  PROVE  CtxOf(j) = CtxOf(m)
BY SenderAssumption DEF WellFormed, Ops, Kind, CtxOf

-----------------------------------------------------------------------------
(***************************************************************************)
(* Answers to get_node.                                                    *)
(***************************************************************************)

\* An answer that is good for an operation state is good for those around it.
LEMMA GoodAbove ==
  ASSUME sender \in Senders, NEW a, NEW j \in Nat, NEW i \in Nat, j <= i, GoodAnswer(a, j)
  PROVE  GoodAnswer(a, i)
BY DEF GoodAnswer

\* Whichever of the three ways get_predecessor() takes, the answer is good.
LEMMA PredecessorGood ==
  ASSUME SenderInv, NEW i \in Ops, NEW inner \in 1 .. i - 1, CtxOf(i) \in Context
  PROVE  /\ Predecessor(i, inner, CtxOf(i)) \in Answer
         /\ GoodAnswer(Predecessor(i, inner, CtxOf(i)), i)
<1>1. sender \in Senders /\ anchor \in [Ops -> Answer] /\ AnchorInv
  BY DEF SenderInv, ControlOK
<1>2. i \in Nat /\ inner \in Ops /\ inner \in Nat /\ inner <= i
  BY <1>1, Shape
<1>3. CASE anchor[inner].has # "none"
  BY <1>1, <1>2, <1>3, GoodAbove DEF Predecessor, AnchorInv
<1>4. CASE anchor[inner].has = "none" /\ EnvFork(i) # 0
  <2>1. EnvFork(i) \in Ops /\ EnvFork(i) \in Nat /\ EnvFork(i) <= i
    BY <1>1, <1>2, <1>4, Shape, Children
  <2> QED
    BY <1>1, <1>2, <1>4, <2>1, GoodAbove DEF Predecessor, AnchorInv
<1>5. CASE anchor[inner].has = "none" /\ EnvFork(i) = 0
  <2>1. Predecessor(i, inner, CtxOf(i)) = RootOf(CtxOf(i))
    BY <1>5 DEF Predecessor
  <2>2. i \in 1 .. i
    BY <1>1, Shape
  <2> QED
    BY <2>1, <2>2 DEF RootOf, GoodAnswer, Answer
<1> QED
  BY <1>3, <1>4, <1>5

-----------------------------------------------------------------------------
(***************************************************************************)
(* connect.                                                                *)
(***************************************************************************)

\* The node of the operation state that is constructed next is a fresh one.
LEMMA NextNodeIsFresh ==
  ASSUME SenderInv, NEW i \in Ops, cursor = i
  PROVE  NodeOf(i) \in Node /\ Fresh(NodeOf(i))
<1>1. i \in Nat /\ iter \in 1 .. sender.rounds /\ iter \in Nat /\ NodeOf(i) \in Node
  BY Shape DEF SenderInv, ControlOK, NodeOf
<1>2. ASSUME NEW c \in Context, NodeOf(i) \in nodes[c]
      PROVE  FALSE
  BY <1>1, <1>2 DEF SenderInv, FreshInv, NodeOf
<1> QED
  BY <1>1, <1>2 DEF Fresh

\* Constructing an operation state, whether or not it adds its node, keeps the
\* answers good and the later nodes fresh.
LEMMA Constructed ==
  ASSUME SenderInv, NEW i \in Ops, NEW kinds, Connecting(i, kinds),
         NEW a \in Answer, Answers(i, a),
         \A c \in Context : nodes[c] \subseteq nodes'[c] /\ nodes'[c] \subseteq nodes[c] \cup {NodeOf(i)},
         a.has = "node" => /\ a.graph \in Context
                           /\ a.dep \subseteq nodes'[a.graph]
                           /\ \E m \in 1 .. i : CtxOf(m) = a.graph
  PROVE  ControlOK' /\ AnchorInv' /\ FreshInv'
<1>1. /\ cursor = i /\ cursor' = i + 1 /\ sender' = sender /\ iter' = iter
      /\ anchor' = [anchor EXCEPT ![i] = a]
  BY DEF Connecting, Answers
<1>2. /\ sender \in Senders /\ i \in 1 .. Len(sender.ops) /\ Len(sender.ops) \in Nat
      /\ iter \in 1 .. sender.rounds /\ iter \in Nat /\ anchor \in [Ops -> Answer]
  BY Shape DEF SenderInv, ControlOK
<1>3. Ops' = Ops /\ \A m : CtxOf(m)' = CtxOf(m)
  BY <1>1 DEF Ops, CtxOf
<1>4. ControlOK'
  BY <1>1, <1>2, <1>3 DEF ControlOK, Final
<1>5. AnchorInv'
  <2> SUFFICES ASSUME NEW j \in Ops
               PROVE  GoodAnswer(anchor[j], j)'
    BY <1>3 DEF AnchorInv
  <2>1. CASE j = i
    BY <1>1, <1>2, <1>3, <2>1 DEF GoodAnswer
  <2>2. CASE j # i
    <3>1. anchor'[j] = anchor[j] /\ GoodAnswer(anchor[j], j)
      BY <1>1, <1>2, <2>2 DEF SenderInv, AnchorInv
    <3> QED
      BY <1>3, <3>1 DEF GoodAnswer
  <2> QED
    BY <2>1, <2>2
<1>6. FreshInv'
  <2> SUFFICES ASSUME NEW c \in Context, NEW n \in nodes'[c]
               PROVE  /\ n[1] \in Nat /\ n[2] \in Nat
                      /\ n[2] < iter \/ (n[2] = iter /\ n[1] < i + 1)
    BY <1>1 DEF FreshInv
  <2>1. CASE n \in nodes[c]
    BY <1>1, <1>2, <2>1 DEF SenderInv, FreshInv
  <2>2. CASE n = NodeOf(i)
    BY <1>2, <2>2 DEF NodeOf
  <2> QED
    BY <2>1, <2>2
<1> QED
  BY <1>4, <1>5, <1>6

\* Steps that leave the contexts alone, or only look graphs up.
LEMMA SameContexts ==
  ASSUME IInv, UNCHANGED contextVars
  PROVE  IInv' /\ nodes' = nodes
BY NextIInv DEF contextVars

LEMMA LookUp ==
  ASSUME IInv, NEW C \in SUBSET Context, LookUpGraph(C)
  PROVE  IInv' /\ nodes' = nodes
BY NextIInv DEF ContextNext, LookUpGraph

\* Adding the next node after nodes of the same graph.
LEMMA AddNext ==
  ASSUME SenderInv, NEW i \in Ops, cursor = i, NEW C \in SUBSET Context, GetGraph(C),
         NEW x \in Context, NEW pred \in SUBSET Node, pred \subseteq nodes[x],
         AddNode(x, NodeOf(i), pred), UNCHANGED <<flagVars, queue>>
  PROVE  /\ IInv'
         /\ \A c \in Context : nodes[c] \subseteq nodes'[c] /\ nodes'[c] \subseteq nodes[c] \cup {NodeOf(i)}
         /\ NodeOf(i) \in nodes'[x]
<1>1. NodeOf(i) \in Node /\ Fresh(NodeOf(i)) /\ IInv
  BY NextNodeIsFresh DEF SenderInv
<1>2. has_graph' \in SUBSET Context
  BY <1>1 DEF GetGraph, IInv, ContextTypeOK
<1>3. IInv'
  BY <1>1, <1>2, AddNodeIInv
<1>4. nodes' = [nodes EXCEPT ![x] = @ \cup {NodeOf(i)}] /\ nodes \in [Context -> SUBSET Node]
  BY <1>1 DEF AddNode, IInv, ContextTypeOK
<1> QED
  BY <1>3, <1>4

\* Asking an operation state that is constructed what comes before it.
LEMMA AskedInside ==
  ASSUME SenderInv, NEW i \in Ops, Kind(i) \in {"then", "continues_on", "fork"},
         CtxOf(i) \in Context
  PROVE  LET pred == Predecessor(i, Child(i)[1], CtxOf(i))
         IN /\ pred \in Answer /\ GoodAnswer(pred, i)
            /\ pred.dep \in SUBSET Node /\ pred.built \in SUBSET Context
            /\ pred.has = "node" => pred.graph \in Context /\ pred.dep \subseteq nodes[pred.graph]
<1> DEFINE pred == Predecessor(i, Child(i)[1], CtxOf(i))
<1>1. Child(i)[1] \in 1 .. i - 1
  BY Children DEF SenderInv, ControlOK
<1>2. pred \in Answer /\ GoodAnswer(pred, i)
  BY <1>1, PredecessorGood
<1> HIDE DEF pred
<1>3. pred.dep \in SUBSET Node /\ pred.built \in SUBSET Context
  BY <1>2 DEF Answer
<1> QED
  BY <1>2, <1>3 DEF GoodAnswer, pred

LEMMA ForkOnGraph ==
  ASSUME sender \in Senders, NEW i \in Ops, Kind(i) = "fork"
  PROVE  CtxOf(i) \in Context
BY SenderAssumption DEF WellFormed, Ops, Kind, CtxOf

LEMMA ConnectPlainInv ==
  ASSUME SenderInv, NEW i \in Ops, ConnectPlain(i)
  PROVE  SenderInv'
<1>1. IInv' /\ nodes' = nodes
  BY SameContexts DEF ConnectPlain, SenderInv
<1>2. NotQueryable \in Answer /\ NotQueryable.has = "none"
  BY DEF NotQueryable, Answer
<1>3. ControlOK' /\ AnchorInv' /\ FreshInv'
  BY <1>1, <1>2, Constructed DEF ConnectPlain
<1> QED
  BY <1>1, <1>3 DEF SenderInv

LEMMA ConnectThenInv ==
  ASSUME SenderInv, NEW i \in Ops, ConnectThen(i)
  PROVE  SenderInv'
<1> DEFINE pred == Predecessor(i, Child(i)[1], CtxOf(i))
           a == NodeIn(pred.graph, i)
<1>1. /\ Connecting(i, {"then"}) /\ Kind(i) = "then" /\ cursor = i
      /\ CtxOf(i) \in Context /\ pred.has = "node"
      /\ GetGraph({CtxOf(i)} \cup pred.built)
      /\ AddNode(pred.graph, NodeOf(i), pred.dep)
      /\ Answers(i, a)
      /\ UNCHANGED <<flagVars, queue>>
  BY DEF ConnectThen, OnGraph, Connecting
<1>2. /\ GoodAnswer(pred, i)
      /\ pred.dep \in SUBSET Node /\ pred.built \in SUBSET Context
      /\ pred.graph \in Context /\ pred.dep \subseteq nodes[pred.graph]
  BY <1>1, AskedInside
<1>3. \E m \in 1 .. i : CtxOf(m) = pred.graph
  BY <1>1, <1>2 DEF GoodAnswer
<1> HIDE DEF pred
<1>4. {CtxOf(i)} \cup pred.built \in SUBSET Context
  BY <1>1, <1>2
<1>5. /\ IInv'
      /\ \A c \in Context : nodes[c] \subseteq nodes'[c] /\ nodes'[c] \subseteq nodes[c] \cup {NodeOf(i)}
      /\ NodeOf(i) \in nodes'[pred.graph]
  BY <1>1, <1>2, <1>4, AddNext
<1>6. NodeOf(i) \in Node
  BY <1>1, NextNodeIsFresh
<1>7. a \in Answer /\ a.graph = pred.graph /\ a.dep = {NodeOf(i)}
  BY <1>2, <1>6 DEF NodeIn, Answer
<1> HIDE DEF a
<1>8. ControlOK' /\ AnchorInv' /\ FreshInv'
  BY <1>1, <1>2, <1>3, <1>5, <1>7, Constructed
<1> QED
  BY <1>5, <1>8 DEF SenderInv

LEMMA ConnectThenThrowsInv ==
  ASSUME SenderInv, NEW i \in Ops, ConnectThenThrows(i)
  PROVE  SenderInv'
<1> DEFINE pred == Predecessor(i, Child(i)[1], CtxOf(i))
<1>1. /\ Connecting(i, {"then"}) /\ Kind(i) = "then" /\ CtxOf(i) \in Context
      /\ LookUpGraph({CtxOf(i)} \cup pred.built)
      /\ Answers(i, Invalid)
  BY DEF ConnectThenThrows, OnGraph, Connecting
<1>2. {CtxOf(i)} \cup pred.built \in SUBSET Context
  BY <1>1, AskedInside
<1>3. IInv' /\ nodes' = nodes
  BY <1>1, <1>2, LookUp DEF SenderInv
<1>4. Invalid \in Answer /\ Invalid.has = "invalid"
  BY DEF Invalid, Answer
<1>5. ControlOK' /\ AnchorInv' /\ FreshInv'
  BY <1>1, <1>3, <1>4, Constructed
<1> QED
  BY <1>3, <1>5 DEF SenderInv

LEMMA ConnectThenWithoutNodeInv ==
  ASSUME SenderInv, NEW i \in Ops, ConnectThenWithoutNode(i)
  PROVE  SenderInv'
<1>1. IInv' /\ nodes' = nodes
  BY SameContexts DEF ConnectThenWithoutNode, SenderInv
<1>2. Invalid \in Answer /\ Invalid.has = "invalid"
  BY DEF Invalid, Answer
<1>3. ControlOK' /\ AnchorInv' /\ FreshInv'
  BY <1>1, <1>2, Constructed DEF ConnectThenWithoutNode
<1> QED
  BY <1>1, <1>3 DEF SenderInv

LEMMA ConnectContinuesOnInv ==
  ASSUME SenderInv, NEW i \in Ops, ConnectContinuesOn(i)
  PROVE  SenderInv'
<1> DEFINE pred == Predecessor(i, Child(i)[1], CtxOf(i))
           looks == IF Kind(Child(i)[1]) = "when_all" THEN {} ELSE {CtxOf(i)}
           a == [pred EXCEPT !.built = @ \cup looks]
<1>1. /\ Connecting(i, {"continues_on"}) /\ Kind(i) = "continues_on" /\ CtxOf(i) \in Context
      /\ Answers(i, a) /\ UNCHANGED contextVars
  BY DEF ConnectContinuesOn, OnGraph, Connecting
<1>2. IInv' /\ nodes' = nodes
  BY <1>1, SameContexts DEF SenderInv
<1>3. pred \in Answer /\ GoodAnswer(pred, i) /\ looks \in SUBSET Context
  BY <1>1, AskedInside
<1> HIDE DEF pred, looks
<1>4. a \in Answer /\ a.has = pred.has /\ a.graph = pred.graph /\ a.dep = pred.dep
  BY <1>3 DEF Answer
<1> HIDE DEF a
<1>5. ControlOK' /\ AnchorInv' /\ FreshInv'
  BY <1>1, <1>2, <1>3, <1>4, Constructed DEF GoodAnswer
<1> QED
  BY <1>2, <1>5 DEF SenderInv

LEMMA ConnectForkInv ==
  ASSUME SenderInv, NEW i \in Ops, ConnectFork(i)
  PROVE  SenderInv'
<1> DEFINE pred == Predecessor(i, Child(i)[1], CtxOf(i))
           a == [pred EXCEPT !.built = {}]
<1>1. /\ Connecting(i, {"fork"}) /\ Kind(i) = "fork"
      /\ LookUpGraph({CtxOf(i)} \cup pred.built) /\ Answers(i, a)
  BY DEF ConnectFork, Connecting
<1>2. CtxOf(i) \in Context
  BY <1>1, ForkOnGraph DEF SenderInv, ControlOK
<1>3. pred \in Answer /\ GoodAnswer(pred, i) /\ {CtxOf(i)} \cup pred.built \in SUBSET Context
  BY <1>1, <1>2, AskedInside
<1> HIDE DEF pred
<1>4. IInv' /\ nodes' = nodes
  BY <1>1, <1>3, LookUp DEF SenderInv
<1>5. a \in Answer /\ a.has = pred.has /\ a.graph = pred.graph /\ a.dep = pred.dep
  BY <1>3 DEF Answer
<1> HIDE DEF a
<1>6. ControlOK' /\ AnchorInv' /\ FreshInv'
  BY <1>1, <1>3, <1>4, <1>5, Constructed DEF GoodAnswer
<1> QED
  BY <1>4, <1>6 DEF SenderInv

LEMMA ConnectForkJoinInv ==
  ASSUME SenderInv, NEW i \in Ops, ConnectForkJoin(i)
  PROVE  SenderInv'
<1> DEFINE j == Child(i)[2]
<1>1. /\ Connecting(i, {"fork_join"}) /\ Kind(i) = "fork_join"
      /\ Answers(i, anchor[j]) /\ UNCHANGED contextVars
  BY DEF ConnectForkJoin, Connecting
<1>2. IInv' /\ nodes' = nodes
  BY <1>1, SameContexts DEF SenderInv
<1>3. sender \in Senders /\ anchor \in [Ops -> Answer] /\ AnchorInv /\ i \in Nat
  BY Shape DEF SenderInv, ControlOK
<1>4. j \in 1 .. i - 1 /\ j \in Ops
  BY <1>1, <1>3, Children, Shape
<1>5. anchor[j] \in Answer /\ GoodAnswer(anchor[j], i)
  BY <1>3, <1>4, GoodAbove DEF AnchorInv
<1>6. ControlOK' /\ AnchorInv' /\ FreshInv'
  BY <1>1, <1>2, <1>5, Constructed DEF GoodAnswer
<1> QED
  BY <1>2, <1>6 DEF SenderInv

\* The branches of a when_all answer nodes of one graph, the one that the
\* aggregate node is added to.
LEMMA BranchesShareGraph ==
  ASSUME SenderInv, NEW i \in Ops, Kind(i) = "when_all",
         \A k \in Range(Child(i)) : anchor[k].has = "node"
  PROVE  LET in == anchor[Child(i)[1]].graph
         IN /\ in \in Context /\ \E m \in 1 .. i : CtxOf(m) = in
            /\ \A k \in Range(Child(i)) : /\ anchor[k].dep \subseteq nodes[in]
                                         /\ anchor[k].dep \in SUBSET Node
                                         /\ anchor[k].built \in SUBSET Context
<1> DEFINE first == Child(i)[1]
           in == anchor[first].graph
<1>1. sender \in Senders /\ anchor \in [Ops -> Answer] /\ AnchorInv /\ i \in Nat
  BY Shape DEF SenderInv, ControlOK
<1>2. ASSUME NEW k \in Range(Child(i))
      PROVE  /\ anchor[k] \in Answer /\ anchor[k].graph \in Context
             /\ anchor[k].dep \subseteq nodes[anchor[k].graph]
             /\ \E m \in 1 .. i : CtxOf(m) = anchor[k].graph
  <2>1. k \in 1 .. i - 1 /\ k \in Ops
    BY <1>1, Children, Shape
  <2>2. anchor[k] \in Answer /\ GoodAnswer(anchor[k], i)
    BY <1>1, <2>1, GoodAbove DEF AnchorInv
  <2> QED
    BY <2>2 DEF GoodAnswer
<1>3. first \in Range(Child(i))
  BY <1>1, Children
<1>4. in \in Context /\ \E m \in 1 .. i : CtxOf(m) = in
  BY <1>2, <1>3
<1>5. ASSUME NEW k \in Range(Child(i))
      PROVE  anchor[k].graph = in
  <2>1. PICK m \in 1 .. i : CtxOf(m) = anchor[k].graph
    BY <1>2
  <2>2. PICK j \in 1 .. i : CtxOf(j) = in
    BY <1>4
  <2>3. CtxOf(m) \in Context /\ CtxOf(j) \in Context
    BY <1>2, <1>4, <2>1, <2>2
  <2> HIDE DEF in
  <2>4. CtxOf(m) = CtxOf(j)
    BY <1>1, <2>3, OneContextPerJoin
  <2> QED
    BY <2>1, <2>2, <2>4
<1>6. \A k \in Range(Child(i)) : /\ anchor[k].dep \in SUBSET Node
                                /\ anchor[k].built \in SUBSET Context
  BY <1>2 DEF Answer
<1> QED
  BY <1>2, <1>4, <1>5, <1>6

LEMMA ConnectWhenAllInv ==
  ASSUME SenderInv, NEW i \in Ops, ConnectWhenAll(i)
  PROVE  SenderInv'
<1> DEFINE kids == Range(Child(i))
           in == anchor[Child(i)[1]].graph
           built == UNION {anchor[k].built : k \in kids}
           deps == UNION {anchor[k].dep : k \in kids}
           a == NodeIn(in, i)
<1>1. /\ Connecting(i, {"when_all"}) /\ Kind(i) = "when_all" /\ cursor = i
      /\ \A k \in kids : anchor[k].has = "node"
      /\ GetGraph(built) /\ AddNode(in, NodeOf(i), deps)
      /\ Answers(i, a)
      /\ UNCHANGED <<flagVars, queue>>
  BY DEF ConnectWhenAll, Connecting
<1>2. /\ in \in Context /\ \E m \in 1 .. i : CtxOf(m) = in
      /\ \A k \in kids : /\ anchor[k].dep \subseteq nodes[in]
                        /\ anchor[k].dep \in SUBSET Node
                        /\ anchor[k].built \in SUBSET Context
  BY <1>1, BranchesShareGraph
<1> HIDE DEF kids, in
<1>3. built \in SUBSET Context /\ deps \in SUBSET Node /\ deps \subseteq nodes[in]
  BY <1>2
<1> HIDE DEF built, deps
<1>4. /\ IInv'
      /\ \A c \in Context : nodes[c] \subseteq nodes'[c] /\ nodes'[c] \subseteq nodes[c] \cup {NodeOf(i)}
      /\ NodeOf(i) \in nodes'[in]
  BY <1>1, <1>2, <1>3, AddNext
<1>5. NodeOf(i) \in Node
  BY <1>1, NextNodeIsFresh
<1>6. a \in Answer /\ a.graph = in /\ a.dep = {NodeOf(i)}
  BY <1>2, <1>5 DEF NodeIn, Answer
<1> HIDE DEF a
<1>7. ControlOK' /\ AnchorInv' /\ FreshInv'
  BY <1>1, <1>2, <1>4, <1>6, Constructed
<1> QED
  BY <1>4, <1>7 DEF SenderInv

\* What does not construct an operation state leaves the answers, and the graphs
\* they are about, as they are.
LEMMA SameStructure ==
  ASSUME SenderInv, UNCHANGED <<sender, iter, cursor, anchor>>, nodes' = nodes, IInv'
  PROVE  SenderInv'
<1>1. Ops' = Ops /\ \A m : CtxOf(m)' = CtxOf(m)
  BY DEF Ops, CtxOf
<1>2. ControlOK'
  BY <1>1 DEF SenderInv, ControlOK, Final
<1>3. AnchorInv'
  BY <1>1 DEF SenderInv, AnchorInv, GoodAnswer
<1>4. FreshInv'
  BY DEF SenderInv, FreshInv
<1> QED
  BY <1>2, <1>3, <1>4 DEF SenderInv

LEMMA ConnectInv ==
  ASSUME SenderInv, Connect
  PROVE  SenderInv'
<1> PICK i \in Ops : \/ ConnectPlain(i) \/ ConnectThen(i) \/ ConnectThenThrows(i)
                     \/ ConnectThenWithoutNode(i) \/ ConnectContinuesOn(i) \/ ConnectFork(i)
                     \/ ConnectWhenAll(i) \/ ConnectForkJoin(i) \/ ConnectAborts(i)
  BY DEF Connect
<1>1. CASE ConnectAborts(i)
  <2>1. UNCHANGED contextVars /\ UNCHANGED <<sender, iter, cursor, anchor>>
    BY <1>1, Zenon DEF ConnectAborts
  <2>2. IInv' /\ nodes' = nodes
    BY <2>1, SameContexts DEF SenderInv
  <2> QED
    BY <2>1, <2>2, SameStructure
<1> QED
  BY <1>1, ConnectPlainInv, ConnectThenInv, ConnectThenThrowsInv, ConnectThenWithoutNodeInv,
     ConnectContinuesOnInv, ConnectForkInv, ConnectWhenAllInv, ConnectForkJoinInv

-----------------------------------------------------------------------------
(***************************************************************************)
(* start, the completion signals and the device.                           *)
(***************************************************************************)

\* wait() is only ever called of a context; of anything else it would not
\* change the contexts either.
LEMMA WaitKeeps ==
  ASSUME IInv, NEW c, Wait(c)
  PROVE  IInv' /\ nodes' = nodes
<1>1. nodes' = nodes
  BY DEF Wait, graphVars
<1>2. CASE c \in Context
  BY <1>1, <1>2, WaitIInv
<1>3. CASE c \notin Context
  <2>1. is_submitted' = is_submitted
    BY <1>3 DEF Wait, IInv, ContextTypeOK
  <2> QED
    BY <2>1, SameContexts DEF Wait, graphVars, contextVars
<1> QED
  BY <1>2, <1>3

\* A call of the host thread submits, waits or leaves the contexts alone.
LEMMA SignalInv ==
  ASSUME SenderInv, NEW i \in Ops, Signal(i)
  PROVE  SenderInv'
<1>1. UNCHANGED <<sender, iter, cursor, anchor>>
  BY DEF Signal, StartSource, StartThen, StartInner, StartWhenAll, ValueStage, ValueHostStage,
         ThrowHostStage, ValueContinuesOn, ValueChild, ErrorChild, Joined, Forked,
         ValueForkJoin, Forwarded, Calls
<1>2. \/ UNCHANGED contextVars
      \/ OnGraph(i) /\ Submit(CtxOf(i))
      \/ \E c : Wait(c)
  BY DEF Signal, StartSource, StartThen, StartInner, StartWhenAll, ValueStage, ValueHostStage,
         ThrowHostStage, ValueContinuesOn, ValueChild, ErrorChild, Joined, Forked,
         ValueForkJoin, Forwarded, Nothing
<1>3. IInv' /\ nodes' = nodes
  <2>1. CASE UNCHANGED contextVars
    BY <2>1, SameContexts DEF SenderInv
  <2>2. CASE OnGraph(i) /\ Submit(CtxOf(i))
    BY <2>2, SubmitIInv DEF SenderInv, OnGraph, Submit, graphVars
  <2>3. CASE \E c : Wait(c)
    BY <2>3, WaitKeeps DEF SenderInv
  <2> QED
    BY <1>2, <2>1, <2>2, <2>3
<1> QED
  BY <1>1, <1>3, SameStructure

LEMMA CompletionInv ==
  ASSUME SenderInv, Complete \/ CompleteWithError \/ CompleteStopped \/ Return
  PROVE  SenderInv'
<1>1. UNCHANGED <<sender, iter, cursor, anchor>>
  BY DEF Complete, CompleteWithError, CompleteStopped, Return, Calls
<1>2. UNCHANGED contextVars \/ \E c : Wait(c)
  BY DEF Complete, CompleteWithError, CompleteStopped, Return, Nothing
<1>3. IInv' /\ nodes' = nodes
  BY <1>2, SameContexts, WaitKeeps DEF SenderInv
<1> QED
  BY <1>1, <1>3, SameStructure

\* The operation states are destroyed; the nodes of the round that ends stay.
LEMMA RepeatInv ==
  ASSUME SenderInv, Repeat
  PROVE  SenderInv'
<1>1. /\ iter < sender.rounds /\ iter' = iter + 1 /\ cursor' = 1 /\ sender' = sender
      /\ anchor' = [j \in Ops |-> NotQueryable] /\ UNCHANGED contextVars
  BY DEF Repeat, Nothing
<1>2. IInv' /\ nodes' = nodes
  BY <1>1, SameContexts DEF SenderInv
<1>3. /\ sender \in Senders /\ iter \in 1 .. sender.rounds /\ sender.rounds \in Nat
      /\ Len(sender.ops) \in Nat /\ Ops' = Ops
  BY <1>1, Shape DEF SenderInv, ControlOK, Ops
<1>4. NotQueryable \in Answer /\ NotQueryable.has = "none"
  BY DEF NotQueryable, Answer
<1>5. ControlOK'
  BY <1>1, <1>3, <1>4 DEF ControlOK, Final
<1>6. AnchorInv'
  BY <1>1, <1>3, <1>4 DEF AnchorInv, GoodAnswer
<1>7. FreshInv'
  BY <1>1, <1>2, <1>3 DEF SenderInv, FreshInv
<1> QED
  BY <1>2, <1>5, <1>6, <1>7 DEF SenderInv

LEMMA StreamInv ==
  ASSUME SenderInv, NEW e \in Exec, StreamStep(e)
  PROVE  SenderInv'
<1>1. UNCHANGED <<sender, iter, cursor, anchor, nodes>>
  BY DEF StreamStep, RetireLaunch, RunFunctor, Retire, RunNode, controlVars, graphVars
<1>2. IInv'
  BY RunNodeIInv, RetireIInv DEF StreamStep, RetireLaunch, RunFunctor, SenderInv
<1> QED
  BY <1>1, <1>2, SameStructure

LEMMA InitSenderInv == Init => SenderInv
<1> SUFFICES ASSUME Init PROVE SenderInv
  OBVIOUS
<1>1. /\ sender \in Senders /\ iter = 1 /\ cursor = 1
      /\ anchor = [i \in Ops |-> NotQueryable] /\ nodes = [c \in Context |-> {}] /\ IInv
  BY InitIInv DEF Init, ContextInit
<1>2. NotQueryable \in Answer /\ NotQueryable.has = "none"
  BY DEF NotQueryable, Answer
<1>3. ControlOK
  BY <1>1, <1>2, Shape DEF ControlOK, Final
<1> QED
  BY <1>1, <1>2, <1>3 DEF SenderInv, AnchorInv, FreshInv, GoodAnswer

LEMMA NextSenderInv == SenderInv /\ [Next]_vars => SenderInv'
<1> SUFFICES ASSUME SenderInv, [Next]_vars PROVE SenderInv'
  OBVIOUS
<1>1. CASE HostStep
  BY <1>1, ConnectInv, SignalInv, CompletionInv, RepeatInv DEF HostStep
<1>2. CASE \E e \in Exec : StreamStep(e)
  BY <1>2, StreamInv
<1>3. CASE UNCHANGED vars
  <2>1. IInv' /\ nodes' = nodes
    BY <1>3, SameContexts DEF vars, SenderInv
  <2> QED
    BY <1>3, <2>1, SameStructure DEF vars, controlVars
<1> QED
  BY <1>1, <1>2, <1>3 DEF Next, Terminated

-----------------------------------------------------------------------------
(***************************************************************************)
(* What follows for every sender.                                          *)
(***************************************************************************)

\* Answers to get_node name existing nodes, and contexts keep their invariant.
THEOREM SenderInvariance == Spec => []SenderInv
BY InitSenderInv, NextSenderInv, PTL DEF Spec

\* Whatever the sender, a cleared is_submitted means that the device is done, so
\* a fence that wait() skips was not needed for that context.
THEOREM SenderFlagIsSafe == Spec => []FlagCoversLaunches
<1>1. SenderInv => FlagCoversLaunches
  BY DEF SenderInv, IInv, LaunchInv, FlagCoversLaunches, LaunchesOf
<1> QED
  BY <1>1, SenderInvariance, PTL

\* However many stages of a sender submit, its graphs are in flight once.
THEOREM SenderOneLaunch == Spec => []OneLaunchPerContext
<1>1. SenderInv => OneLaunchPerContext
  BY DEF SenderInv, IInv, LaunchInv, OneLaunchPerContext, LaunchesOf
<1> QED
  BY <1>1, SenderInvariance, PTL

\* The device runs the nodes that a sender connected in the order in which
\* get_node chained them.
THEOREM SenderDependencies == Spec => []LaunchesRespectDependencies
<1>1. SenderInv => LaunchesRespectDependencies
  BY DEF SenderInv, IInv, GraphInv, LaunchInv, LaunchesRespectDependencies
<1> QED
  BY <1>1, SenderInvariance, PTL

\* What a sender instantiated in its first round is what its later rounds
\* launch, whatever the reconnections do.
THEOREM SenderFrozenOnce == Spec => InstantiatedOnce
<1> DEFINE Frozen == \A c \in Context : is_instantiated[c] =>
                       is_instantiated'[c] /\ instance'[c] = instance[c]
<1>1. ASSUME SenderInv, [Next]_vars
      PROVE  [Frozen]_contextVars
  <2> USE <1>1
  <2>1. ASSUME NEW c \in Context, Submit(c)
        PROVE  Frozen
    BY <2>1 DEF Submit, Launched, SenderInv, IInv, ContextTypeOK, flagVars
  <2>2. ASSUME UNCHANGED <<is_instantiated, instance>>
        PROVE  Frozen
    BY <2>2
  <2>3. ASSUME NEW i \in Ops, Signal(i)
        PROVE  Frozen
    <3>1. \/ UNCHANGED contextVars
          \/ OnGraph(i) /\ Submit(CtxOf(i))
          \/ \E c : Wait(c)
      BY <2>3 DEF Signal, StartSource, StartThen, StartInner, StartWhenAll, ValueStage,
             ValueHostStage, ThrowHostStage, ValueContinuesOn, ValueChild, ErrorChild, Joined,
             Forked, ValueForkJoin, Forwarded, Nothing
    <3> QED
      BY <3>1, <2>1, <2>2 DEF OnGraph, contextVars, Wait
  <2>4. ASSUME Connect
        PROVE  UNCHANGED flagVars
    <3> PICK i \in Ops : \/ ConnectPlain(i) \/ ConnectThen(i) \/ ConnectThenThrows(i)
                         \/ ConnectThenWithoutNode(i) \/ ConnectContinuesOn(i) \/ ConnectFork(i)
                         \/ ConnectWhenAll(i) \/ ConnectForkJoin(i) \/ ConnectAborts(i)
      BY <2>4 DEF Connect
    <3>1. CASE ConnectAborts(i)
      <4>1. UNCHANGED contextVars
        BY <3>1, Zenon DEF ConnectAborts
      <4> QED
        BY <4>1 DEF contextVars, flagVars
    <3> QED
      BY <3>1 DEF ConnectPlain, ConnectThen, ConnectThenThrows, ConnectThenWithoutNode,
             ConnectContinuesOn, ConnectFork, ConnectWhenAll, ConnectForkJoin, LookUpGraph,
             contextVars, flagVars
  <2>5. CASE Complete \/ CompleteWithError \/ CompleteStopped \/ Repeat \/ Return
    BY <2>5, <2>2 DEF Complete, CompleteWithError, CompleteStopped, Repeat, Return, Nothing,
           Wait, contextVars
  <2>6. CASE \E e \in Exec : StreamStep(e)
    BY <2>6, <2>2 DEF StreamStep, RetireLaunch, RunFunctor, Retire, RunNode, flagVars
  <2>7. CASE UNCHANGED vars
    BY <2>7, <2>2 DEF vars, contextVars
  <2> QED
    BY <2>2, <2>3, <2>4, <2>5, <2>6, <2>7 DEF Next, HostStep, Terminated, flagVars
<1> QED
  BY <1>1, SenderInvariance, PTL DEF Spec, InstantiatedOnce

-----------------------------------------------------------------------------
(***************************************************************************)
(* Types of the host thread's part of the state.                           *)
(***************************************************************************)

CallRecord == [sig : {"start", "value", "error", "stopped", "joined"}, op : 1 .. Final]

HostTypeOK ==
  /\ phase \in {"connect", "run", "returned", "threw", "stopped", "aborted"}
  /\ error \in [Ops -> BOOLEAN]
  /\ calls \in Seq(CallRecord)
  /\ completions \in Nat
  /\ result \in {"none", "value", "error", "stopped"}
  /\ runs \in [Ops -> Nat]
  /\ thrown \in SUBSET Ops

\* Every operation state has a receiver: that of another one, or the consumer.
LEMMA ParentType ==
  ASSUME sender \in Senders, NEW i \in Ops
  PROVE  Parent(i) \in 1 .. Final
<1>1. i \in 1 .. Len(sender.ops) /\ Len(sender.ops) \in Nat \ {0} /\ Ops = 1 .. Len(sender.ops)
  BY Shape
<1>2. i # Outermost => \E j \in Ops : i \in Range(Child(j))
  BY SenderAssumption DEF WellFormed, Ops, Outermost, Child
<1> QED
  BY <1>1, <1>2 DEF Parent, Final, Outermost

LEMMA ChildType ==
  ASSUME sender \in Senders, NEW i \in Ops
  PROVE  /\ Range(Child(i)) \subseteq Ops /\ Ops \subseteq 1 .. Final
         /\ StartAll(Child(i)) \in Seq(CallRecord)
<1>1. /\ Child(i) \in Seq(Nat) /\ Range(Child(i)) \subseteq 1 .. i - 1
      /\ i \in 1 .. Len(sender.ops) /\ Len(sender.ops) \in Nat /\ Ops = 1 .. Len(sender.ops)
  BY Shape, Children
<1>2. Range(Child(i)) \subseteq Ops /\ Ops \subseteq 1 .. Final
  BY <1>1 DEF Final
<1>3. DOMAIN Child(i) = 1 .. Len(Child(i)) /\ Len(Child(i)) \in Nat
  BY <1>1, LenProperties
<1>4. \A x \in 1 .. Len(Child(i)) : Call("start", Child(i)[x]) \in CallRecord
  BY <1>2, <1>3 DEF Range, Call, CallRecord
<1>5. StartAll(Child(i)) \in [1 .. Len(Child(i)) -> CallRecord]
  BY <1>3, <1>4 DEF StartAll
<1> QED
  BY <1>2, <1>3, <1>5, SeqDef

\* Making a call replaces the next one by the calls that it makes.
LEMMA CallsType ==
  ASSUME HostTypeOK, NEW sig, NEW i, NEW made \in Seq(CallRecord), Calls(sig, i, made)
  PROVE  /\ calls' \in Seq(CallRecord)
         /\ UNCHANGED <<sender, phase, iter, cursor, anchor>>
<1>1. calls # <<>> /\ calls \in Seq(CallRecord) /\ calls' = made \o Tail(calls)
  BY DEF Calls, HostTypeOK
<1>2. Tail(calls) \in Seq(CallRecord)
  BY <1>1, TailElements
<1> QED
  BY <1>1, <1>2, ConcatProperties DEF Calls

\* The definitions that depend on the sender do not change.
LEMMA SameSender ==
  ASSUME sender' = sender
  PROVE  Ops' = Ops /\ Final' = Final /\ CallRecord' = CallRecord
BY DEF Ops, Final, CallRecord

LEMMA OneCall ==
  ASSUME sender \in Senders, NEW i \in Ops
  PROVE  /\ \A sig \in {"start", "value", "error", "stopped", "joined"} :
              <<Call(sig, Parent(i))>> \in Seq(CallRecord) /\ <<Call(sig, i)>> \in Seq(CallRecord)
         /\ \A j \in Range(Child(i)) : <<Call("start", j)>> \in Seq(CallRecord)
         /\ <<>> \in Seq(CallRecord)
<1>1. Parent(i) \in 1 .. Final /\ i \in 1 .. Final /\ Range(Child(i)) \subseteq 1 .. Final
  BY ParentType, ChildType
<1> QED
  BY <1>1 DEF Call, CallRecord

\* What fork calls when it completes: the join side of its fork_join.
LEMMA JoinSide ==
  ASSUME sender \in Senders, NEW i \in Ops, Kind(i) = "fork"
  PROVE  Child(Parent(i))[2] \in 1 .. Final
<1>1. /\ i # Outermost /\ \E j \in Ops : i \in Range(Child(j))
      /\ \A j \in Ops : i \in Range(Child(j)) => Kind(j) = "fork_join"
  BY SenderAssumption DEF WellFormed, Ops, Outermost, Child, Kind
<1>2. Parent(i) \in Ops /\ Kind(Parent(i)) = "fork_join"
  BY <1>1 DEF Parent
<1>3. Child(Parent(i))[2] \in Range(Child(Parent(i)))
  BY <1>2, Children
<1> QED
  BY <1>2, <1>3, ChildType

LEMMA SignalType ==
  ASSUME SenderInv, HostTypeOK, NEW i \in Ops, Signal(i)
  PROVE  HostTypeOK'
<1> USE DEF Nothing, outcomeVars
<1>0. sender \in Senders
  BY DEF SenderInv, ControlOK
<1>1. SUFFICES /\ calls' \in Seq(CallRecord)
               /\ UNCHANGED <<sender, phase, completions, result>>
               /\ error' = error \/ error' = [error EXCEPT ![i] = TRUE]
               /\ runs' = runs \/ runs' = [runs EXCEPT ![i] = @ + 1]
               /\ thrown' = thrown \/ thrown' = thrown \cup {i}
  <2>1. error' \in [Ops -> BOOLEAN]
    BY <1>1 DEF HostTypeOK
  <2>2. runs' \in [Ops -> Nat]
    BY <1>1 DEF HostTypeOK
  <2>3. thrown' \in SUBSET Ops
    BY <1>1 DEF HostTypeOK
  <2>4. Ops' = Ops /\ CallRecord' = CallRecord
    BY <1>1, SameSender
  <2> QED
    BY <1>1, <2>1, <2>2, <2>3, <2>4, Zenon DEF HostTypeOK
<1>2. CASE StartSource(i)
  BY <1>0, <1>2, CallsType, OneCall DEF StartSource
<1>3. CASE StartThen(i)
  <2>1. (IF error[i] THEN <<Call("error", Parent(i))>> ELSE <<>>) \o StartAll(Child(i))
          \in Seq(CallRecord)
    BY <1>0, OneCall, ChildType, ConcatProperties
  <2> QED
    BY <1>3, <2>1, CallsType DEF StartThen
<1>4. CASE StartInner(i)
  <2>1. Child(i)[1] \in Range(Child(i))
    BY <1>0, <1>4, Children DEF StartInner
  <2> QED
    BY <1>0, <1>4, <2>1, CallsType, OneCall DEF StartInner
<1>5. CASE StartWhenAll(i)
  <2>1. StartAll(Child(i)) \o <<Call("joined", i)>> \in Seq(CallRecord)
    BY <1>0, OneCall, ChildType, ConcatProperties
  <2> QED
    BY <1>5, <2>1, CallsType DEF StartWhenAll
<1>6. CASE ValueStage(i)
  BY <1>0, <1>6, CallsType, OneCall DEF ValueStage
<1>7. CASE ValueHostStage(i)
  BY <1>0, <1>7, CallsType, OneCall DEF ValueHostStage
<1>8. CASE ThrowHostStage(i)
  BY <1>0, <1>8, CallsType, OneCall DEF ThrowHostStage, MayThrow
<1>9. CASE ValueContinuesOn(i)
  BY <1>0, <1>9, CallsType, OneCall DEF ValueContinuesOn
<1>10. CASE ValueChild(i)
  BY <1>0, <1>10, CallsType, OneCall DEF ValueChild
<1>11. CASE ErrorChild(i)
  BY <1>0, <1>11, CallsType, OneCall DEF ErrorChild
<1>12. CASE Joined(i)
  BY <1>0, <1>12, CallsType, OneCall DEF Joined
<1>13. CASE Forked(i)
  <2>1. <<Call("start", Child(Parent(i))[2])>> \in Seq(CallRecord)
    BY <1>0, <1>13, JoinSide DEF Forked, Call, CallRecord
  <2> QED
    BY <1>13, <2>1, CallsType DEF Forked
<1>14. CASE ValueForkJoin(i)
  BY <1>0, <1>14, CallsType, OneCall DEF ValueForkJoin
<1>15. CASE Forwarded(i)
  BY <1>0, <1>15, CallsType, OneCall DEF Forwarded
<1> QED
  BY <1>2, <1>3, <1>4, <1>5, <1>6, <1>7, <1>8, <1>9, <1>10, <1>11, <1>12, <1>13, <1>14,
     <1>15 DEF Signal

LEMMA ConnectType ==
  ASSUME SenderInv, HostTypeOK, Connect
  PROVE  HostTypeOK'
<1> PICK i \in Ops : \/ ConnectPlain(i) \/ ConnectThen(i) \/ ConnectThenThrows(i)
                     \/ ConnectThenWithoutNode(i) \/ ConnectContinuesOn(i) \/ ConnectFork(i)
                     \/ ConnectWhenAll(i) \/ ConnectForkJoin(i) \/ ConnectAborts(i)
  BY DEF Connect
<1>1. sender \in Senders /\ i \in 1 .. Final
  BY ChildType DEF SenderInv, ControlOK
<1>2. CASE ConnectAborts(i)
  <2>1. phase' = "aborted" /\ UNCHANGED <<sender, error, calls, completions, result, runs, thrown>>
    BY <1>2, Zenon DEF ConnectAborts, outcomeVars
  <2>2. Ops' = Ops /\ CallRecord' = CallRecord
    BY <2>1, SameSender
  <2> QED
    BY <2>1, <2>2 DEF HostTypeOK
<1>3. CASE ~ConnectAborts(i)
  <2>1. \E kinds : Connecting(i, kinds)
    BY <1>3 DEF ConnectPlain, ConnectThen, ConnectThenThrows, ConnectThenWithoutNode,
           ConnectContinuesOn, ConnectFork, ConnectWhenAll, ConnectForkJoin
  <2>2. /\ phase' \in {phase, "run"} /\ sender' = sender
        /\ calls' = <<[sig |-> "start", op |-> i]>> \/ calls' = <<>>
    BY <2>1 DEF Connecting
  <2>3. calls' \in Seq(CallRecord)
    <3> DEFINE first == [sig |-> "start", op |-> i]
    <3>1. first \in CallRecord
      BY <1>1 DEF CallRecord
    <3>2. calls' = <<first>> \/ calls' = <<>>
      BY <2>2
    <3> HIDE DEF first
    <3>3. <<first>> \in Seq(CallRecord) /\ <<>> \in Seq(CallRecord)
      BY <3>1
    <3> QED
      BY <3>2, <3>3
  <2>4. /\ UNCHANGED <<completions, result, runs>>
        /\ error' = error \/ error' = [error EXCEPT ![i] = TRUE]
        /\ thrown' = thrown \/ thrown' = thrown \cup {i}
    BY <1>3 DEF ConnectPlain, ConnectThen, ConnectThenThrows, ConnectThenWithoutNode,
           ConnectContinuesOn, ConnectFork, ConnectWhenAll, ConnectForkJoin, MayThrow, outcomeVars
  <2>5. error' \in [Ops -> BOOLEAN]
    BY <2>4 DEF HostTypeOK
  <2>6. thrown' \in SUBSET Ops
    BY <2>4 DEF HostTypeOK
  <2>7. phase' \in {"connect", "run", "returned", "threw", "stopped", "aborted"}
    BY <2>2 DEF HostTypeOK
  <2>8. Ops' = Ops /\ CallRecord' = CallRecord
    BY <2>2, SameSender
  <2> QED
    BY <2>3, <2>4, <2>5, <2>6, <2>7, <2>8, Zenon DEF HostTypeOK
<1> QED
  BY <1>2, <1>3

LEMMA CompletionType ==
  ASSUME SenderInv, HostTypeOK,
         Complete \/ CompleteWithError \/ CompleteStopped \/ Repeat \/ Return
  PROVE  HostTypeOK'
<1>1. CASE Complete \/ CompleteWithError \/ CompleteStopped
  <2>1. \E sig : Calls(sig, Final, <<>>)
    BY <1>1 DEF Complete, CompleteWithError, CompleteStopped
  <2>2. calls' \in Seq(CallRecord) /\ UNCHANGED <<sender, phase>>
    <3>1. <<>> \in Seq(CallRecord)
      OBVIOUS
    <3> QED
      BY <2>1, <3>1, CallsType
  <2>3. /\ UNCHANGED <<error, runs, thrown>> /\ completions' = completions + 1
        /\ result' \in {result, "value", "error", "stopped"}
    BY <1>1 DEF Complete, CompleteWithError, CompleteStopped, Receives
  <2> QED
    BY <2>2, <2>3, SameSender DEF HostTypeOK
<1>2. CASE Repeat
  <2>1. /\ phase' = "connect" /\ calls' = <<>> /\ error' = [j \in Ops |-> FALSE]
        /\ UNCHANGED <<sender, completions, result, runs, thrown>>
    BY <1>2 DEF Repeat, Nothing, outcomeVars
  <2> QED
    BY <2>1, SameSender DEF HostTypeOK
<1>3. CASE Return
  <2>1. UNCHANGED <<sender, error, calls, completions, result, runs, thrown>>
    BY <1>3 DEF Return, Nothing, outcomeVars
  <2>2. phase' \in {"returned", "threw", "stopped"}
    BY <1>3, Zenon DEF Return
  <2> QED
    BY <2>1, <2>2, SameSender DEF HostTypeOK
<1> QED
  BY <1>1, <1>2, <1>3

LEMMA StreamType ==
  ASSUME HostTypeOK, NEW e \in Exec, StreamStep(e)
  PROVE  HostTypeOK'
<1>1. UNCHANGED <<sender, phase, error, calls, completions, result, thrown>>
  BY DEF StreamStep, RetireLaunch, RunFunctor, controlVars, outcomeVars
<1>2. runs' = runs \/ \E j \in Ops : runs' = [runs EXCEPT ![j] = @ + 1]
  BY DEF StreamStep, RetireLaunch, RunFunctor, outcomeVars, Stages
<1>3. runs' \in [Ops -> Nat]
  BY <1>2 DEF HostTypeOK
<1> QED
  BY <1>1, <1>3, SameSender DEF HostTypeOK

LEMMA NextHostType == SenderInv /\ HostTypeOK /\ [Next]_vars => HostTypeOK'
<1> SUFFICES ASSUME SenderInv, HostTypeOK, [Next]_vars PROVE HostTypeOK'
  OBVIOUS
<1>1. CASE HostStep
  BY <1>1, ConnectType, SignalType, CompletionType DEF HostStep
<1>2. CASE \E e \in Exec : StreamStep(e)
  BY <1>2, StreamType
<1>3. CASE UNCHANGED vars
  BY <1>3, SameSender DEF HostTypeOK, vars, controlVars, outcomeVars
<1> QED
  BY <1>1, <1>2, <1>3 DEF Next, Terminated

\* Every variable keeps its type: in particular, each call goes to an operation
\* state of the sender or to its consumer.
THEOREM SenderTypeCorrect == Spec => []TypeOK
<1>1. Init => HostTypeOK
  BY DEF Init, HostTypeOK
<1>2. SenderInv /\ HostTypeOK => TypeOK
  BY DEF SenderInv, IInv, ControlOK, HostTypeOK, CallRecord, TypeOK
<1> QED
  BY <1>1, <1>2, NextHostType, SenderInvariance, PTL DEF Spec

=============================================================================
