------------------------ MODULE GraphSenderRefinement ------------------------
(***************************************************************************)
(* Chains on graphs keep the promise of Pipeline if they are orderly.      *)
(*                                                                         *)
(* A chain is a line of operation states.  Along it, consecutive stages    *)
(* and transitions on graphs answer each other's get_node, hence share one *)
(* graph: such a segment is what the device runs at once.  The proof says  *)
(* which nodes a segment has and in which order they depend on each other  *)
(* (BuildInv), and relates the position of the value that travels along    *)
(* the chain to what is marked, what is on the device and what has run     *)
(* (HostInv).                                                              *)
(***************************************************************************)
EXTENDS GraphSenderCompletion

-----------------------------------------------------------------------------
(***************************************************************************)
(* A chain is a line of operation states.                                  *)
(***************************************************************************)

\* A set of operation states has a first and a last one.
LEMMA Extremes ==
  ASSUME sender \in Senders, NEW T \in SUBSET Ops, T # {}
  PROVE  /\ \E i \in T : \A j \in T : i <= j
         /\ \E i \in T : \A j \in T : j <= i
<1> DEFINE Less == {ss \in Nat \X Nat : ss[1] < ss[2]}
           D == {Final - i : i \in T}
<1>1. IsWellFoundedOn(Less, Nat)
  BY NatLessThanWellFounded DEF OpToRel
<1>2. \A i \in T : i \in Ops /\ i \in Nat /\ Final - i \in Nat /\ Final \in Nat
  <2> TAKE i \in T
  <2>1. i \in Ops /\ Ops = 1 .. Outermost /\ Outermost \in Nat /\ Final = Outermost + 1
    BY Tree
  <2> QED
    BY <2>1
<1>3. T \subseteq Nat /\ D \subseteq Nat /\ D # {}
  BY <1>2
<1>4. PICK x \in T : \A y \in T : <<y, x>> \notin Less
  <2> HIDE DEF Less, D
  <2> QED
    BY <1>1, <1>3, WFMin
<1>5. PICK z \in D : \A y \in D : <<y, z>> \notin Less
  <2> HIDE DEF Less, D
  <2> QED
    BY <1>1, <1>3, WFMin
<1>6. \A y \in T : x <= y
  <2> TAKE y \in T
  <2>1. ~(y < x) /\ x \in Nat /\ y \in Nat
    BY <1>3, <1>4
  <2> QED
    BY <2>1
<1>7. PICK m \in T : z = Final - m
  BY <1>5
<1>8. \A y \in T : y <= m
  <2> TAKE y \in T
  <2>1. Final - y \in D /\ Final - y \in Nat /\ z \in Nat
    BY <1>2, <1>7
  <2>2. ~(Final - y < z)
    BY <1>5, <2>1
  <2> QED
    BY <1>2, <1>7, <2>2
<1> QED
  BY <1>6, <1>8

\* Each operation state is inside of the next one.
LEMMA Line ==
  ASSUME sender \in Senders, Linear, NEW i \in Ops
  PROVE  /\ Parent(i) = i + 1
         /\ i > 1 => /\ i - 1 \in Ops /\ Child(i)[1] = i - 1 /\ Range(Child(i)) = {i - 1}
                     /\ Kind(i) \in {"then", "continues_on"}
         /\ i = 1 => Kind(i) \in Sources /\ Kind(i) # "cache"
         /\ Kind(i) \in {"then", "continues_on"} => i > 1
         /\ EnvFork(i) = 0
<1>1. \A j \in Ops : /\ j \in Nat /\ j > 0 /\ Outermost \in Nat /\ Final = Outermost + 1 /\ j <= Outermost
                     /\ Parent(j) \in Ops \cup {Final} /\ j < Parent(j)
                     /\ (j = Outermost <=> Parent(j) = Final) /\ Final \notin Ops
                     /\ (j # Outermost => j \in Range(Child(Parent(j))))
                     /\ Ops = 1 .. Outermost
  BY Tree
<1>2. \A j \in Ops : /\ Kind(j) \in {"schedule", "just", "just_stopped", "then", "continues_on"}
                     /\ Kind(j) # "fork" /\ EnvFork(j) = 0
  <2> TAKE j \in Ops
  <2>1. \A m \in Ops : Kind(m) # "fork" /\ Kind(m) # "when_all"
    BY LinearKinds DEF Linear
  <2>2. Kind(j) # "fork_join"
    <3> SUFFICES ASSUME Kind(j) = "fork_join"
                 PROVE  FALSE
      OBVIOUS
    <3>1. Child(j)[2] \in Ops /\ Kind(Child(j)[2]) = "when_all"
      BY Inside
    <3> QED
      BY <2>1, <3>1
  <2>3. EnvFork(j) \in 0 .. j - 1 /\ (EnvFork(j) # 0 => Kind(EnvFork(j)) = "fork")
    BY Children, SenderAssumption DEF WellFormed, Ops, EnvFork, Kind
  <2>4. EnvFork(j) = 0
    <3>1. EnvFork(j) # 0 => EnvFork(j) \in Ops
      BY <1>1, <2>3
    <3> QED
      BY <2>1, <2>3, <3>1
  <2>5. Kind(j) # "cache"
    <3>1. Kind(j) = "cache" => EnvFork(j) \in Ops
      BY Inside
    <3> QED
      BY <1>1, <2>4, <3>1
  <2> QED
    BY <2>1, <2>2, <2>4, <2>5, Inside
<1>3. \A j \in Ops : /\ Kind(j) \in {"then", "continues_on"} => Range(Child(j)) = {Child(j)[1]}
                     /\ Kind(j) \notin {"then", "continues_on"} => Range(Child(j)) = {}
  BY <1>2, Inside DEF Sources
<1>4. \A j \in Ops : Parent(j) = j + 1
  <2> DEFINE T == {j \in Ops : Parent(j) # j + 1}
  <2> SUFFICES ASSUME T # {}
               PROVE  FALSE
    OBVIOUS
  <2>1. PICK j \in T : \A m \in T : m <= j
    <3> HIDE DEF T
    <3>1. T \in SUBSET Ops
      BY DEF T
    <3> QED
      BY <3>1, Extremes
  <2>2. j \in Ops /\ Parent(j) # j + 1 /\ Parent(j) \in Ops /\ Parent(j) > j + 1 /\ Parent(j) \in Nat
    BY <1>1, <2>1
  <2> DEFINE p == Parent(j)
             m == p - 1
  <2>3. m \in Ops /\ m > j
    BY <1>1, <2>2
  <2>4. m \notin T
    BY <1>1, <2>1, <2>3
  <2>5. Parent(m) = p /\ m # Outermost /\ j # Outermost
    BY <1>1, <2>2, <2>3, <2>4
  <2>6. m \in Range(Child(p)) /\ j \in Range(Child(p))
    BY <1>1, <2>2, <2>3, <2>5
  <2>7. m = j
    BY <1>3, <2>2, <2>6
  <2> QED
    BY <1>1, <2>2, <2>3, <2>7
<1>5. i > 1 => i - 1 \in Ops /\ i - 1 \in Range(Child(i))
  BY <1>1, <1>4
<1>6. Range(Child(i)) \subseteq 1 .. i - 1
  BY Children
<1>7. i = 1 => Range(Child(i)) = {}
  BY <1>6
<1>8. i > 1 => Kind(i) \in {"then", "continues_on"} /\ Child(i)[1] = i - 1 /\ Range(Child(i)) = {i - 1}
  BY <1>3, <1>5
<1>9. Kind(i) \in {"then", "continues_on"} => i > 1
  <2>1. Kind(i) \in {"then", "continues_on"} => i # 1
    BY <1>3, <1>7
  <2> QED
    BY <1>1, <2>1
<1> QED
  BY <1>1, <1>2, <1>4, <1>5, <1>8, <1>9 DEF Sources

\* What is outside of an operation state, and what precedes it.
LEMMA LineOrder ==
  ASSUME sender \in Senders, Linear
  PROVE  /\ \A i \in Ops : \A p \in 1 .. Final : i < p => p \in Above[i]
         /\ \A i \in Ops : Before[i] \subseteq 1 .. i - 1
         /\ \A i, j \in Ops : i < j => i \in Before[j]
<1>1. \A j \in Ops : /\ j \in Nat /\ j > 0 /\ Outermost \in Nat /\ Final = Outermost + 1
                     /\ Ops = 1 .. Outermost /\ Parent(j) = j + 1 /\ (j > 1 => j - 1 \in Ops)
                     /\ Final \in Above[j] /\ Above[j] = {j + 1} \cup Above[j + 1]
  BY Tree, Line, AboveFacts
<1>2. ASSUME NEW p \in 1 .. Final
      PROVE  \A i \in Ops : i < p => p \in Above[i]
  <2> DEFINE T == {j \in Ops : j < p /\ p \notin Above[j]}
  <2> SUFFICES ASSUME T # {}
               PROVE  FALSE
    OBVIOUS
  <2>1. PICK j \in T : \A m \in T : m <= j
    <3> HIDE DEF T
    <3>1. T \in SUBSET Ops
      BY DEF T
    <3> QED
      BY <3>1, Extremes
  <2>2. j \in Ops /\ j < p /\ p \notin Above[j] /\ j + 1 \notin T
    BY <1>1, <2>1
  <2>3. j + 1 \in Ops \/ j + 1 = Final
    BY <1>1, <2>2
  <2> QED
    BY <1>1, <2>2, <2>3
<1>3. \A i \in Ops : Before[i] \subseteq 1 .. i - 1
  <2> DEFINE T == {j \in Ops : ~(Before[j] \subseteq 1 .. j - 1)}
  <2> SUFFICES ASSUME T # {}
               PROVE  FALSE
    OBVIOUS
  <2>1. PICK j \in T : \A m \in T : j <= m
    <3> HIDE DEF T
    <3>1. T \in SUBSET Ops
      BY DEF T
    <3> QED
      BY <3>1, Extremes
  <2>2. Inner(j) = IF j > 1 THEN {j - 1} ELSE {}
    <3>1. Kind(j) # "cache"
      BY <1>1, <2>1, Line DEF Sources
    <3>2. j = 1 => Range(Child(j)) = {}
      BY Line, Inside
    <3>3. j > 1 => Range(Child(j)) = {j - 1}
      BY Line
    <3>4. j = 1 \/ j > 1
      BY <1>1
    <3> QED
      BY <1>1, <3>1, <3>2, <3>3, <3>4 DEF Inner
  <2>3. Before[j] = Inner(j) \cup UNION {Before[m] : m \in Inner(j)}
    BY BeforeIs
  <2>4. j \in Ops /\ (j > 1 => j - 1 \in Ops /\ j - 1 \notin T)
    BY <1>1, <2>1
  <2>5. CASE j > 1
    <3>1. Before[j - 1] \subseteq 1 .. (j - 1) - 1
      BY <2>4, <2>5
    <3>2. Before[j] = {j - 1} \cup Before[j - 1]
      BY <2>2, <2>3, <2>5
    <3>3. Before[j] \subseteq 1 .. j - 1
      BY <1>1, <2>4, <2>5, <3>1, <3>2
    <3> QED
      BY <3>3
  <2>6. CASE ~(j > 1)
    BY <2>2, <2>3, <2>6
  <2> QED
    BY <2>5, <2>6
<1>4. \A i, j \in Ops : i < j => i \in Before[j]
  BY <1>1, <1>2, InBefore
<1> QED
  BY <1>2, <1>3, <1>4

-----------------------------------------------------------------------------
(***************************************************************************)
(* The segments of a chain.                                                *)
(***************************************************************************)

\* What may be asked for its node.
Queryable == {i \in Ops : OnGraph(i) /\ Kind(i) \in {"then", "continues_on"}}

\* The segment of i starts with a.
Opens(a, i) == a \in 1 .. i /\ a .. i \subseteq Queryable /\ a - 1 \notin Queryable

Start(i) == CHOOSE a \in Ops : Opens(a, i)

\* The context whose graph the nodes of the segment of i are in.
Home(i) == CtxOf(Start(i))

\* Each of them is in a segment, which has one start.
LEMMA Segment ==
  ASSUME sender \in Senders, Linear, NEW i \in Queryable
  PROVE  /\ i \in Ops /\ i \in Nat /\ i > 1 /\ i - 1 \in Ops
         /\ Start(i) \in Queryable /\ Start(i) \in Nat /\ Start(i) > 1 /\ Start(i) <= i
         /\ Start(i) .. i \subseteq Queryable /\ Start(i) - 1 \notin Queryable
         /\ Home(i) \in Context
         /\ \A a \in Nat : Opens(a, i) => a = Start(i)
<1>1. /\ Ops = 1 .. Outermost /\ Outermost \in Nat
      /\ Queryable \subseteq Ops /\ \A j \in Queryable : OnGraph(j) /\ Kind(j) \in {"then", "continues_on"}
  BY Tree DEF Queryable
<1>2. \A j \in Queryable : j \in Nat /\ j > 1 /\ j - 1 \in Ops
  BY <1>1, Line
<1> DEFINE T == {a \in Ops : a <= i /\ a .. i \subseteq Queryable}
<1>3. i \in T
  BY <1>1, <1>2
<1>4. PICK a \in T : \A m \in T : a <= m
  <2> HIDE DEF T
  <2>1. T \in SUBSET Ops
    BY DEF T
  <2> QED
    BY <1>3, <2>1, Extremes
<1>5. a \in Ops /\ a \in Nat /\ a <= i /\ a .. i \subseteq Queryable /\ a \in Queryable
  BY <1>1, <1>2, <1>4
<1>6. a - 1 \notin Queryable
  <2> SUFFICES ASSUME a - 1 \in Queryable
               PROVE  FALSE
    OBVIOUS
  <2>1. a - 1 \in Ops /\ a - 1 <= i /\ (a - 1) .. i \subseteq Queryable
    BY <1>1, <1>2, <1>5
  <2> QED
    BY <1>4, <1>5, <2>1
<1>7. Opens(a, i)
  BY <1>1, <1>5, <1>6 DEF Opens
<1>8. ASSUME NEW x \in Nat, NEW y \in Nat, Opens(x, i), Opens(y, i), x < y
      PROVE  FALSE
  <2>1. x .. i \subseteq Queryable /\ y - 1 \notin Queryable /\ y <= i
    BY <1>8 DEF Opens
  <2>2. y - 1 \in x .. i
    BY <1>2, <1>8, <2>1
  <2> QED
    BY <2>1, <2>2
<1>9. \A x, y \in Nat : Opens(x, i) /\ Opens(y, i) => x = y
  <2> TAKE x \in Nat, y \in Nat
  <2> HAVE Opens(x, i) /\ Opens(y, i)
  <2>1. x < y \/ y < x \/ x = y
    OBVIOUS
  <2> QED
    BY <1>8, <2>1
<1>10. Start(i) \in Ops /\ Opens(Start(i), i)
  BY <1>5, <1>7 DEF Start
<1>11. Start(i) \in Nat
  BY <1>1, <1>10
<1>12. \A x \in Nat : Opens(x, i) => x = Start(i)
  BY <1>9, <1>10, <1>11
<1>13. Start(i) = a
  BY <1>5, <1>7, <1>12
<1>14. CtxOf(a) \in Context
  BY <1>1, <1>5 DEF OnGraph
<1> QED
  BY <1>1, <1>2, <1>5, <1>6, <1>12, <1>13, <1>14 DEF Home

\* Two are in the same segment when all between them may be asked, and only then.
LEMMA SameSegment ==
  ASSUME sender \in Senders, Linear, NEW i \in Queryable, NEW j \in Queryable, j <= i
  PROVE  /\ Start(j) = Start(i) <=> j .. i \subseteq Queryable
         /\ Start(j) # Start(i) => j < Start(i)
         /\ Start(j) = Start(i) => Home(j) = Home(i)
<1>1. /\ \A k \in {i, j} : /\ k \in Nat /\ Start(k) \in Nat /\ Start(k) > 1 /\ Start(k) <= k
                           /\ Start(k) .. k \subseteq Queryable /\ Start(k) - 1 \notin Queryable
                           /\ \A a \in Nat : Opens(a, k) => a = Start(k)
  BY Segment
<1>2. ASSUME j .. i \subseteq Queryable
      PROVE  Start(j) = Start(i)
  <2>1. Start(j) .. i \subseteq Queryable
    <3> SUFFICES ASSUME NEW m \in Start(j) .. i
                 PROVE  m \in Queryable
      OBVIOUS
    <3>1. m \in Start(j) .. j \/ m \in j .. i
      BY <1>1
    <3> QED
      BY <1>1, <1>2, <3>1
  <2>2. Opens(Start(j), i)
    BY <1>1, <2>1 DEF Opens
  <2> QED
    BY <1>1, <2>2
<1>3. ASSUME Start(j) = Start(i)
      PROVE  j .. i \subseteq Queryable
  BY <1>1, <1>3
<1>4. ASSUME ~(j < Start(i))
      PROVE  j .. i \subseteq Queryable
  BY <1>1, <1>4
<1> QED
  BY <1>2, <1>3, <1>4 DEF Home

\* One either continues the segment of the operation state inside of it or starts one.
LEMMA NextInSegment ==
  ASSUME sender \in Senders, Linear, NEW i \in Queryable
  PROVE  /\ i - 1 \in Queryable => Start(i) = Start(i - 1) /\ Home(i) = Home(i - 1)
         /\ i - 1 \notin Queryable => Start(i) = i /\ Home(i) = CtxOf(i)
<1>1. i \in Nat /\ i > 1 /\ Start(i) \in Nat /\ Start(i) <= i /\ Start(i) .. i \subseteq Queryable
  BY Segment
<1>2. ASSUME i - 1 \in Queryable
      PROVE  Start(i) = Start(i - 1) /\ Home(i) = Home(i - 1)
  <2>1. i - 1 <= i /\ (i - 1) .. i \subseteq Queryable
    BY <1>1, <1>2
  <2> QED
    BY <1>2, <2>1, SameSegment
<1>3. ASSUME i - 1 \notin Queryable
      PROVE  Start(i) = i
  <2>1. Start(i) # i => i - 1 \in Start(i) .. i
    BY <1>1
  <2> QED
    BY <1>1, <1>3, <2>1
<1> QED
  BY <1>2, <1>3 DEF Home

\* A chain that is orderly.
Chain == Linear /\ Orderly(sender.ops)

\* What this says of streams and of the stages of a segment.
LEMMA Streams ==
  ASSUME sender \in Senders, Chain, NEW i \in Ops, NEW j \in Ops, i < j, OnGraph(i), OnGraph(j),
         ExecOf[CtxOf(i)] = ExecOf[CtxOf(j)], NEW m \in i .. j
  PROVE  CtxOf(m) = CtxOf(i)
BY DEF Chain, Orderly, Ops, OnGraph, CtxOf

LEMMA StageAtHome ==
  ASSUME sender \in Senders, Chain, NEW i \in GraphStages,
         \A m \in Start(i) .. i - 1 : m \notin GraphStages
  PROVE  CtxOf(i) = Home(i)
<1>1. i \in Ops /\ Kind(i) = "then" /\ OnGraph(i) /\ i \in Queryable
  BY DEF GraphStages, Stages, Queryable
<1> DEFINE a == Start(i)
<1>2. /\ a \in Nat /\ a > 1 /\ a <= i /\ a .. i \subseteq Queryable /\ a - 1 \notin Queryable
      /\ a \in Queryable /\ i \in Nat
  BY <1>1, Segment DEF Chain
<1>3. Ops = 1 .. Outermost /\ Outermost \in Nat /\ a \in Ops
  BY <1>1, <1>2, Tree DEF Queryable
<1>4. \A m \in a .. i - 1 : OnGraph(m) /\ Kind(m) = "continues_on"
  BY <1>2 DEF Queryable, GraphStages, Stages
<1>5. ~(OnGraph(a - 1) /\ Kind(a - 1) = "then") /\ ~(OnGraph(a - 1) /\ Kind(a - 1) = "continues_on")
  BY <1>2, <1>3 DEF Queryable
<1> HIDE DEF a
<1>6. a < i => CtxOf(a) = CtxOf(i)
  BY <1>1, <1>3, <1>4, <1>5 DEF Chain, Orderly, Ops, OnGraph, CtxOf, Kind
<1>7. a < i \/ a = i
  BY <1>2
<1> QED
  BY <1>6, <1>7 DEF Home, a

\* Hence the first stage of a segment is on the context of its graph.
LEMMA FirstStage ==
  ASSUME sender \in Senders, Chain, NEW j \in GraphStages
  PROVE  \E f \in GraphStages : f <= j /\ Start(f) = Start(j) /\ CtxOf(f) = Home(j)
<1>1. GraphStages \subseteq Queryable /\ GraphStages \subseteq Ops
  BY DEF GraphStages, Stages, Queryable
<1> DEFINE T == {m \in GraphStages : m <= j /\ Start(m) = Start(j)}
<1>2. j \in Nat /\ \A m \in GraphStages : m \in Nat /\ Start(m) \in Nat /\ Start(m) <= m
                                          /\ Start(m) .. m \subseteq Queryable
  BY <1>1, Segment DEF Chain
<1>3. j \in T
  BY <1>2
<1>4. PICK f \in T : \A m \in T : f <= m
  <2> HIDE DEF T
  <2>1. T \in SUBSET Ops
    BY <1>1 DEF T
  <2> QED
    BY <1>3, <2>1, Extremes
<1>5. f \in GraphStages /\ f <= j /\ Start(f) = Start(j) /\ f \in Queryable
  BY <1>1, <1>4
<1>6. ASSUME NEW m \in Start(f) .. f - 1, m \in GraphStages
      PROVE  FALSE
  <2>1. m < f /\ m \in Nat /\ m .. f \subseteq Queryable /\ m \in Queryable
    BY <1>1, <1>2, <1>5, <1>6
  <2>2. Start(m) = Start(f)
    BY <1>2, <1>5, <2>1, SameSegment DEF Chain
  <2>3. m \in T
    BY <1>2, <1>5, <1>6, <2>1, <2>2
  <2> QED
    BY <1>2, <1>4, <1>5, <2>1, <2>3
<1>7. CtxOf(f) = Home(f)
  BY <1>5, <1>6, StageAtHome
<1> QED
  BY <1>5, <1>7 DEF Home

\* No other segment has anything on the context of its graph.
LEMMA HomeUnique ==
  ASSUME sender \in Senders, Chain, NEW j \in Queryable, NEW k \in Queryable, CtxOf(j) = Home(k)
  PROVE  Start(j) = Start(k) /\ Home(j) = Home(k)
<1> DEFINE a == Start(k)
<1>1. /\ a \in Queryable /\ a \in Nat /\ j \in Nat /\ j > 1 /\ a - 1 \notin Queryable /\ a > 1
      /\ k \in Nat /\ a <= k /\ a .. k \subseteq Queryable
      /\ CtxOf(j) = CtxOf(a)
  BY Segment DEF Chain, Home
<1>2. Ops = 1 .. Outermost /\ Outermost \in Nat /\ a \in Ops /\ j \in Ops /\ OnGraph(a) /\ OnGraph(j)
  BY <1>1, Tree DEF Queryable
<1> HIDE DEF a
<1>3. ASSUME NEW x \in Ops, NEW y \in Ops, 1 < x, x < y, OnGraph(x), OnGraph(y), CtxOf(x) = CtxOf(y)
      PROVE  x .. y \subseteq Queryable
  <2> SUFFICES ASSUME NEW m \in x .. y
               PROVE  m \in Queryable
    OBVIOUS
  <2>1. m \in Ops /\ m > 1
    BY <1>2, <1>3
  <2>2. CtxOf(m) = CtxOf(x)
    BY <1>3, Streams
  <2>3. Kind(m) \in {"then", "continues_on"}
    BY <2>1, Line DEF Chain
  <2> QED
    BY <1>3, <2>1, <2>2, <2>3 DEF Queryable, OnGraph
<1>4. CASE j < a
  <2>1. j .. a \subseteq Queryable
    BY <1>1, <1>2, <1>3, <1>4
  <2>2. a - 1 \in j .. a
    BY <1>1, <1>4
  <2> QED
    BY <1>1, <2>1, <2>2
<1>5. CASE a <= j
  <2>1. a .. j \subseteq Queryable
    <3>1. a = j \/ a < j
      BY <1>1, <1>5
    <3>2. a = j => a .. j \subseteq Queryable
      BY <1>1
    <3> QED
      BY <1>1, <1>2, <1>3, <3>1, <3>2
  <2>2. Start(a) = Start(j)
    BY <1>1, <1>5, <2>1, SameSegment DEF Chain
  <2>3. Start(a) = Start(k)
    BY <1>1, SameSegment DEF Chain
  <2> QED
    BY <2>2, <2>3 DEF Home
<1> QED
  BY <1>1, <1>4, <1>5

-----------------------------------------------------------------------------
(***************************************************************************)
(* The fences of a chain.                                                  *)
(***************************************************************************)

\* The equation of ExecEnv along a chain.
LEMMA ExecEnvIs ==
  ASSUME sender \in Senders, Linear
  PROVE  /\ ExecEnv[Final] = IF OnGraph(Outermost) THEN {ExecOf[CtxOf(Outermost)]} ELSE {}
         /\ ExecEnv[Outermost] = ExecEnv[Final]
         /\ \A i \in Ops : i # Outermost =>
              \/ OnGraph(i) /\ ExecEnv[i] = {ExecOf[CtxOf(i)]}
              \/ OnGraph(i + 1) /\ ExecEnv[i] = {ExecOf[CtxOf(i + 1)]}
              \/ ExecEnv[i] = ExecEnv[i + 1]
<1> DEFINE I == 1 .. Final
           last == IF OnGraph(Outermost) THEN {ExecOf[CtxOf(Outermost)]} ELSE {}
           F(f) == [i \in I |->
                      IF i = Final
                        THEN last
                        ELSE LET p == Parent(i)
                                 moved == p # Final /\ Kind(p) = "continues_on"
                             IN CASE moved /\ OnGraph(i) -> {ExecOf[CtxOf(i)]}
                                  [] moved /\ ~OnGraph(i) /\ OnGraph(p) -> {ExecOf[CtxOf(p)]}
                                  [] OTHER -> f[p]]
           Moves(i) == i < Outermost /\ Kind(i + 1) = "continues_on" /\ (OnGraph(i) \/ OnGraph(i + 1))
           V(q) == IF q = Final THEN last ELSE IF OnGraph(q) THEN {ExecOf[CtxOf(q)]} ELSE {ExecOf[CtxOf(q + 1)]}
           Firsts(i) == {q \in I : i <= q /\ (q = Final \/ Moves(q)) /\ \A m \in I : i <= m /\ m < q => ~Moves(m)}
           d == [i \in I |-> UNION {V(q) : q \in Firsts(i)}]
<1>1. /\ Ops = 1 .. Outermost /\ Outermost \in Nat \ {0} /\ Final = Outermost + 1 /\ Outermost \in Ops
      /\ \A i \in Ops : Parent(i) = i + 1
  <2>1. Outermost \in Nat \ {0} /\ Ops = 1 .. Outermost
    BY Shape DEF Outermost
  <2> QED
    BY <2>1, Line DEF Final, Outermost
<1>2. Firsts(Final) = {Final}
  BY <1>1
<1>3. ASSUME NEW i \in Ops, Moves(i)
      PROVE  Firsts(i) = {i}
  <2>1. i \in Firsts(i)
    BY <1>1, <1>3
  <2>2. \A q \in Firsts(i) : ~(i < q)
    BY <1>1, <1>3
  <2>3. \A q \in Firsts(i) : q \in Nat /\ i <= q
    BY <1>1
  <2> HIDE DEF Firsts
  <2> QED
    BY <1>1, <2>1, <2>2, <2>3
<1>4. ASSUME NEW i \in Ops, ~Moves(i)
      PROVE  Firsts(i) = Firsts(i + 1)
  <2> HIDE DEF Moves
  <2>1. \A m \in I : i <= m <=> m = i \/ i + 1 <= m
    BY <1>1
  <2>2. i # Final /\ i \in I
    BY <1>1
  <2> QED
    BY <1>4, <2>1, <2>2
<1>5. ASSUME NEW i \in I
      PROVE  d[i] = IF i = Final
                      THEN last
                      ELSE LET p == Parent(i)
                               moved == p # Final /\ Kind(p) = "continues_on"
                           IN CASE moved /\ OnGraph(i) -> {ExecOf[CtxOf(i)]}
                                [] moved /\ ~OnGraph(i) /\ OnGraph(p) -> {ExecOf[CtxOf(p)]}
                                [] OTHER -> d[p]
  <2> HIDE DEF Firsts, last
  <2>1. d[Final] = last
    <3>1. Final \in I
      BY <1>1
    <3>2. d[Final] = V(Final)
      BY <1>2, <3>1
    <3> QED
      BY <3>2
  <2>2. CASE i = Final
    BY <2>1, <2>2
  <2>3. CASE i = Outermost
    <3>1. ~Moves(i) /\ i \in Ops /\ i + 1 = Final /\ i # Final /\ Parent(i) = Final
      BY <1>1, <2>3
    <3>2. Firsts(i) = Firsts(Final)
      BY <1>4, <3>1
    <3>3. d[i] = d[Final]
      BY <1>1, <3>2
    <3> HIDE DEF d
    <3> QED
      BY <3>1, <3>3
  <2>4. CASE i # Final /\ i # Outermost
    <3>1. i \in Ops /\ Parent(i) = i + 1 /\ i + 1 # Final /\ i + 1 \in I /\ i < Outermost
      BY <1>1, <2>4
    <3>2. CASE Moves(i)
      <4>1. d[i] = V(i)
        BY <1>3, <3>1, <3>2
      <4>2. d[i] = IF OnGraph(i) THEN {ExecOf[CtxOf(i)]} ELSE {ExecOf[CtxOf(i + 1)]}
        BY <2>4, <4>1
      <4> HIDE DEF d
      <4> QED
        BY <2>4, <3>1, <3>2, <4>2
    <3>3. CASE ~Moves(i)
      <4>1. d[i] = d[i + 1]
        BY <1>4, <3>1, <3>3
      <4> HIDE DEF d
      <4> QED
        BY <2>4, <3>1, <3>3, <4>1
    <3> QED
      BY <3>2, <3>3
  <2> QED
    BY <2>2, <2>3, <2>4
<1> HIDE DEF Firsts
<1>6. d = F(d)
  BY <1>5
<1> DEFINE e == CHOOSE f : f = F(f)
<1> HIDE DEF d
<1>7. e = F(e)
  BY <1>6
<1>8. ExecEnv = e
  BY DEF ExecEnv
<1> HIDE DEF e
<1>9. \A i \in I : ExecEnv[i] = F(ExecEnv)[i]
  BY <1>7, <1>8
<1>10. ExecEnv[Final] = last
  <2>1. Final \in I
    BY <1>1
  <2> HIDE DEF last
  <2> QED
    BY <1>9, <2>1
<1>11. ExecEnv[Outermost] = ExecEnv[Final]
  <2>1. Outermost \in I /\ Outermost # Final /\ Parent(Outermost) = Final
    BY <1>1
  <2> QED
    BY <1>9, <2>1
<1>12. ASSUME NEW i \in Ops, i # Outermost
       PROVE  \/ OnGraph(i) /\ ExecEnv[i] = {ExecOf[CtxOf(i)]}
              \/ OnGraph(i + 1) /\ ExecEnv[i] = {ExecOf[CtxOf(i + 1)]}
              \/ ExecEnv[i] = ExecEnv[i + 1]
  <2>1. i \in I /\ i # Final /\ Parent(i) = i + 1 /\ i + 1 # Final
    BY <1>1, <1>12
  <2> HIDE DEF last
  <2>2. ExecEnv[i] = CASE Kind(i + 1) = "continues_on" /\ OnGraph(i) -> {ExecOf[CtxOf(i)]}
                       [] Kind(i + 1) = "continues_on" /\ ~OnGraph(i) /\ OnGraph(i + 1) -> {ExecOf[CtxOf(i + 1)]}
                       [] OTHER -> ExecEnv[i + 1]
    BY <1>9, <2>1
  <2> QED
    BY <2>2
<1> QED
  BY <1>10, <1>11, <1>12

\* The environment names the stream of something further out.
LEMMA StreamOutside ==
  ASSUME sender \in Senders, Linear, NEW i \in Ops, ExecEnv[i] # {}
  PROVE  \E q \in Ops : i <= q /\ OnGraph(q) /\ ExecEnv[i] = {ExecOf[CtxOf(q)]}
<1> DEFINE Named(j) == \E q \in Ops : j <= q /\ OnGraph(q) /\ ExecEnv[j] = {ExecOf[CtxOf(q)]}
           T == {j \in Ops : ExecEnv[j] # {} /\ ~Named(j)}
<1> SUFFICES ASSUME T # {}
             PROVE  FALSE
  OBVIOUS
<1>1. PICK j \in T : \A m \in T : m <= j
  <2> HIDE DEF T
  <2>1. T \in SUBSET Ops
    BY DEF T
  <2> QED
    BY <2>1, Extremes
<1>2. /\ j \in Nat /\ Ops = 1 .. Outermost /\ Outermost \in Nat /\ Outermost \in Ops
      /\ j \in Ops /\ j <= Outermost /\ (j # Outermost => j + 1 \in Ops)
  BY <1>1, Tree
<1>3. CASE j = Outermost
  <2>1. ExecEnv[j] = IF OnGraph(Outermost) THEN {ExecOf[CtxOf(Outermost)]} ELSE {}
    BY <1>3, ExecEnvIs
  <2> QED
    BY <1>1, <1>2, <1>3, <2>1
<1>4. CASE j # Outermost
  <2>1. \/ OnGraph(j) /\ ExecEnv[j] = {ExecOf[CtxOf(j)]}
        \/ OnGraph(j + 1) /\ ExecEnv[j] = {ExecOf[CtxOf(j + 1)]}
        \/ ExecEnv[j] = ExecEnv[j + 1]
    BY <1>2, <1>4, ExecEnvIs
  <2>2. ExecEnv[j] = ExecEnv[j + 1]
    BY <1>1, <1>2, <1>4, <2>1
  <2>3. j + 1 \in Ops /\ ~(j + 1 <= j)
    BY <1>2, <1>4
  <2>4. ExecEnv[j + 1] = {} \/ Named(j + 1)
    <3>1. j + 1 \notin T
      BY <1>1, <2>3
    <3> QED
      BY <2>3, <3>1
  <2> QED
    BY <1>1, <1>2, <2>2, <2>4
<1> QED
  BY <1>3, <1>4

\* A chain that is orderly is waited for wherever it leaves a graph.
LEMMA LeavesWaiting ==
  ASSUME sender \in Senders, Chain, NEW i \in Ops, Kind(i) = "continues_on", OnGraph(i - 1)
  PROVE  SkipScheduleFrom(i) <=> CtxOf(i) = CtxOf(i - 1)
<1>1. i \in Nat /\ i > 1 /\ i - 1 \in Ops /\ Child(i)[1] = i - 1
  BY Line, Tree DEF Chain
<1>2. CtxOf(i - 1) \in Context
  BY DEF OnGraph
<1>3. ASSUME NEW q \in Ops, i <= q, OnGraph(q), ExecOf[CtxOf(q)] = ExecOf[CtxOf(i - 1)]
      PROVE  CtxOf(i) = CtxOf(i - 1)
  <2>1. q \in Nat /\ i - 1 < q /\ i \in i - 1 .. q
    BY <1>1, <1>3, Tree
  <2> QED
    BY <1>1, <1>3, <2>1, Streams
<1>4. CASE OnGraph(i)
  <2>1. SkipScheduleFrom(i) <=> ExecOf[CtxOf(i)] = ExecOf[CtxOf(i - 1)]
    BY <1>1, <1>4 DEF SkipScheduleFrom
  <2> QED
    BY <1>1, <1>3, <1>4, <2>1
<1>5. CASE ~OnGraph(i)
  <2>1. CtxOf(i) # CtxOf(i - 1)
    BY <1>2, <1>5 DEF OnGraph
  <2>2. SkipScheduleFrom(i) => ExecEnv[i] = {ExecOf[CtxOf(i - 1)]}
    BY <1>1, <1>5 DEF SkipScheduleFrom
  <2>3. ASSUME ExecEnv[i] = {ExecOf[CtxOf(i - 1)]}
        PROVE  FALSE
    <3>1. PICK q \in Ops : i <= q /\ OnGraph(q) /\ ExecEnv[i] = {ExecOf[CtxOf(q)]}
      BY <2>3, StreamOutside DEF Chain
    <3> QED
      BY <1>3, <2>1, <2>3, <3>1
  <2> QED
    BY <2>1, <2>2, <2>3
<1> QED
  BY <1>4, <1>5

-----------------------------------------------------------------------------
(***************************************************************************)
(* The graphs that a chain builds.                                         *)
(***************************************************************************)

\* The last stage on a graph from a on and before p, and its node.
Last(a, p) == {l \in GraphStages : a <= l /\ l < p /\ \A m \in GraphStages : ~(l < m /\ m < p)}
Dep(a, p) == {<<l, 1>> : l \in Last(a, p)}

Built(i) == <<i, 1>> \in nodes[Home(i)]

\* All nodes are created in the first round, those of a segment in one graph, each
\* after that of the stage before it.
NodesInv ==
  \A c \in Context : \A n \in nodes[c] : \E i \in GraphStages :
    n = <<i, 1>> /\ Home(i) = c /\ dep[n] = Dep(Start(i), i)

\* What has been constructed answers the node of the last stage of its segment, unless
\* that has none.
GoodNode(a, i) ==
  IF i \in Queryable
    THEN \/ a.has = "node" /\ a.graph = Home(i) /\ a.dep = Dep(Start(i), i + 1)
         \/ a.has = "invalid"
    ELSE a.has = "none"
AnswersInv == phase = "connect" /\ iter = 1 => \A i \in Ops : i < cursor => GoodNode(anchor[i], i)

\* Stage i has no node because of a stage that threw.
Missing(i) == iter = 1 /\ \E f \in thrown : f <= i /\ error[f]
BuiltInv ==
  phase # "aborted" =>
    \A i \in GraphStages : (phase = "connect" /\ iter = 1 => i < cursor) => Built(i) \/ Missing(i)

BuildInv ==
  /\ NodesInv /\ AnswersInv /\ BuiltInv
  /\ \A c \in Context : is_instantiated[c] => instance[c] = nodes[c]

\* None of this but the graphs and the answers changes.
LEMMA SameChain ==
  ASSUME sender' = sender
  PROVE  /\ Queryable' = Queryable /\ GraphStages' = GraphStages /\ Stages' = Stages
         /\ Ops' = Ops /\ Final' = Final /\ Outermost' = Outermost
         /\ \A i : /\ Start(i)' = Start(i) /\ Home(i)' = Home(i) /\ CtxOf(i)' = CtxOf(i)
                   /\ (OnGraph(i)' <=> OnGraph(i)) /\ Kind(i)' = Kind(i) /\ Parent(i)' = Parent(i)
         /\ (Chain' <=> Chain) /\ (Linear' <=> Linear)
         /\ \A a, p : Last(a, p)' = Last(a, p) /\ Dep(a, p)' = Dep(a, p)
<1>1. /\ Ops' = Ops /\ Final' = Final /\ Outermost' = Outermost /\ Stages' = Stages
      /\ \A i : CtxOf(i)' = CtxOf(i) /\ Kind(i)' = Kind(i) /\ (OnGraph(i)' <=> OnGraph(i))
  BY DEF Ops, Final, Outermost, Stages, CtxOf, Kind, OnGraph
<1>2. Queryable' = Queryable /\ GraphStages' = GraphStages
  BY <1>1 DEF Queryable, GraphStages
<1>3. \A i : Start(i)' = Start(i)
  BY DEF Start, Opens, Queryable, Ops, OnGraph, CtxOf, Kind
<1>4. \A i : Home(i)' = Home(i)
  BY <1>3 DEF Home, CtxOf
<1>5. \A i : Parent(i)' = Parent(i)
  BY DEF Parent, Outermost, Final, Ops, Child
<1>6. (Chain' <=> Chain) /\ (Linear' <=> Linear)
  BY DEF Chain, Linear, Orderly, Ops, Kind
<1>7. \A a, p : Last(a, p)' = Last(a, p) /\ Dep(a, p)' = Dep(a, p)
  BY <1>2 DEF Last, Dep
<1> QED
  BY <1>1, <1>2, <1>3, <1>4, <1>5, <1>6, <1>7

\* What precedes the node that is to be created next.
LEMMA LastStages ==
  ASSUME sender \in Senders, NEW i \in Ops, NEW a \in Nat, a <= i
  PROVE  /\ i \in GraphStages => Dep(a, i + 1) = {<<i, 1>>}
         /\ i \notin GraphStages => Dep(a, i + 1) = Dep(a, i)
         /\ Dep(i, i) = {}
<1>1. GraphStages \subseteq Nat /\ i \in Nat
  <2>1. Ops = 1 .. Outermost /\ Outermost \in Nat
    BY Tree
  <2> QED
    BY <2>1 DEF GraphStages, Stages
<1>2. i \in GraphStages => Last(a, i + 1) = {i}
  <2> SUFFICES ASSUME i \in GraphStages
               PROVE  Last(a, i + 1) = {i}
    OBVIOUS
  <2>1. i \in Last(a, i + 1)
    BY <1>1 DEF Last
  <2>2. \A l \in Last(a, i + 1) : ~(l < i) /\ l <= i
    BY <1>1 DEF Last
  <2>3. Last(a, i + 1) \subseteq Nat
    BY <1>1 DEF Last
  <2> QED
    BY <1>1, <2>1, <2>2, <2>3
<1>3. i \notin GraphStages => Last(a, i + 1) = Last(a, i)
  <2>1. i \notin GraphStages => \A m \in GraphStages : m < i + 1 <=> m < i
    BY <1>1
  <2> QED
    BY <2>1 DEF Last
<1>4. Last(i, i) = {}
  <2> SUFFICES ASSUME NEW l \in Last(i, i)
               PROVE  FALSE
    OBVIOUS
  <2>1. l \in Nat /\ i <= l /\ l < i
    BY <1>1 DEF Last
  <2> QED
    BY <1>1, <2>1
<1> QED
  BY <1>2, <1>3, <1>4 DEF Dep

\* The answer that an operation state on a graph gets.
LEMMA PredecessorIs ==
  ASSUME SenderInv, Chain, AnswersInv, phase = "connect", iter = 1, NEW i \in Queryable, cursor = i
  PROVE  LET pred == Predecessor(i, Child(i)[1], CtxOf(i))
         IN /\ pred \in Answer
            /\ \/ pred.has = "node" /\ pred.graph = Home(i) /\ pred.dep = Dep(Start(i), i)
               \/ pred.has = "invalid"
<1> DEFINE pred == Predecessor(i, Child(i)[1], CtxOf(i))
<1>1. sender \in Senders
  BY DEF SenderInv, ControlOK
<1>2. /\ i \in Ops /\ i \in Nat /\ i > 1 /\ i - 1 \in Ops /\ Child(i)[1] = i - 1 /\ EnvFork(i) = 0
      /\ i - 1 < i /\ i - 1 \in Nat /\ CtxOf(i) \in Context
  BY <1>1, Segment, Line DEF Chain, Queryable, OnGraph
<1>3. GoodNode(anchor[i - 1], i - 1)
  BY <1>2 DEF AnswersInv
<1>4. pred \in Answer
  <2>1. i - 1 \in 1 .. i - 1
    BY <1>2
  <2> QED
    BY <1>2, <2>1, PredecessorGood
<1>5. \/ pred.has = "node" /\ pred.graph = Home(i) /\ pred.dep = Dep(Start(i), i)
     \/ pred.has = "invalid"
  <2>1. CASE i - 1 \in Queryable
    <3>1. pred = anchor[i - 1]
      BY <1>2, <1>3, <2>1 DEF Predecessor, GoodNode
    <3>2. Start(i) = Start(i - 1) /\ Home(i) = Home(i - 1) /\ (i - 1) + 1 = i
      BY <1>1, <1>2, <2>1, NextInSegment DEF Chain
    <3> HIDE DEF pred
    <3> QED
      BY <1>3, <2>1, <3>1, <3>2 DEF GoodNode
  <2>2. CASE i - 1 \notin Queryable
    <3>1. pred = RootOf(CtxOf(i))
      BY <1>2, <1>3, <2>2 DEF Predecessor, GoodNode
    <3>2. Start(i) = i /\ Home(i) = CtxOf(i)
      BY <1>1, <2>2, NextInSegment DEF Chain
    <3>3. Dep(i, i) = {}
      BY <1>1, <1>2, LastStages
    <3> HIDE DEF pred
    <3> QED
      BY <3>1, <3>2, <3>3 DEF RootOf
  <2> QED
    BY <2>1, <2>2
<1> QED
  BY <1>4, <1>5

\* Construction in the first round: one more answer, and perhaps one more node.
LEMMA BuildStep ==
  ASSUME SenderInv, Chain, BuildInv, iter = 1, NEW i \in Ops, NEW kinds, Connecting(i, kinds),
         NEW a, Answers(i, a), GoodNode(a, i), NodesInv', \A c \in Context : nodes[c] \subseteq nodes'[c],
         \A c \in Context : ~is_instantiated'[c],
         thrown \subseteq thrown', \A k \in Ops : error[k] => error'[k], thrown \subseteq Ops,
         i \in GraphStages => \/ <<i, 1>> \in nodes'[Home(i)]
                              \/ \E f \in thrown' : f <= i /\ error'[f]
  PROVE  BuildInv'
<1>1. /\ phase = "connect" /\ cursor = i /\ cursor' = i + 1 /\ sender' = sender /\ iter' = iter
      /\ anchor' = [anchor EXCEPT ![i] = a] /\ anchor \in [Ops -> Answer] /\ sender \in Senders
      /\ phase' = IF i = Outermost THEN "run" ELSE "connect"
  BY DEF Connecting, Answers, SenderInv, ControlOK
<1>2. /\ Queryable' = Queryable /\ GraphStages' = GraphStages /\ Ops' = Ops
      /\ \A k : Start(k)' = Start(k) /\ Home(k)' = Home(k)
      /\ \A b, p : Dep(b, p)' = Dep(b, p)
  BY <1>1, SameChain
<1>3. Ops = 1 .. Outermost /\ Outermost \in Nat /\ i \in Nat
  <2>1. Ops = 1 .. Outermost /\ Outermost \in Nat
    BY <1>1, Tree
  <2> QED
    BY <2>1
<1>4. AnswersInv'
  <2> SUFFICES ASSUME NEW k \in Ops, k < i + 1
               PROVE  GoodNode(anchor[k], k)'
    BY <1>1, <1>2 DEF AnswersInv
  <2>1. k < i \/ k = i
    BY <1>3
  <2>2. GoodNode(anchor'[k], k)
    BY <1>1, <2>1 DEF BuildInv, AnswersInv
  <2> QED
    BY <1>2, <2>2 DEF GoodNode
<1>5. BuiltInv'
  <2> SUFFICES ASSUME NEW k \in GraphStages, k < i + 1
               PROVE  Built(k)' \/ Missing(k)'
    <3>1. \A k \in GraphStages : i = Outermost => k < i + 1
      BY <1>3 DEF GraphStages, Stages
    <3>2. phase' = "connect" \/ i = Outermost
      BY <1>1
    <3> QED
      BY <1>1, <1>2, <3>1, <3>2 DEF BuiltInv
  <2>1. k \in Ops /\ k \in Queryable /\ (k < i \/ k = i)
    BY <1>3 DEF GraphStages, Stages, Queryable
  <2>2. Home(k) \in Context
    BY <1>1, <2>1, Segment DEF Chain
  <2>3. CASE k = i
    BY <1>1, <1>2, <2>3 DEF Built, Missing
  <2>4. CASE k < i
    <3>1. Built(k) \/ Missing(k)
      BY <1>1, <2>4 DEF BuildInv, BuiltInv
    <3> QED
      BY <1>1, <1>2, <2>2, <3>1 DEF Built, Missing
  <2> QED
    BY <2>1, <2>3, <2>4
<1> QED
  BY <1>4, <1>5 DEF BuildInv

\* What leaves the graphs alone leaves their nodes.
LEMMA SameNodes ==
  ASSUME NodesInv, sender' = sender, UNCHANGED <<nodes, dep>>
  PROVE  NodesInv'
BY SameChain DEF NodesInv

\* A chain builds its graphs, in the first round and not again.
LEMMA ConnectBuild ==
  ASSUME SenderInv, HostTypeOK, ErrInv, AbortInv, RoundInv, Chain, BuildInv, Connect
  PROVE  BuildInv'
<1> PICK i \in Ops : \/ ConnectPlain(i) \/ ConnectThen(i) \/ ConnectThenThrows(i)
                     \/ ConnectThenWithoutNode(i) \/ ConnectContinuesOn(i) \/ ConnectFork(i)
                     \/ ConnectWhenAll(i) \/ ConnectForkJoin(i) \/ ConnectAborts(i)
  BY DEF Connect
<1> USE DEF flagVars, contextVars, graphVars
<1>1. /\ sender \in Senders /\ thrown \subseteq Ops /\ error \in [Ops -> BOOLEAN] /\ NodesInv
      /\ dep \in [Node -> SUBSET Node] /\ nodes \in [Context -> SUBSET Node]
      /\ anchor \in [Ops -> Answer]
  BY DEF SenderInv, ControlOK, HostTypeOK, BuildInv, IInv, ContextTypeOK
<1>2. /\ i \in Nat /\ Ops = 1 .. Outermost /\ Outermost \in Nat
      /\ Kind(i) \in Sources \cup {"then", "continues_on"}
      /\ Kind(i) \in {"then", "continues_on"} => i - 1 \in Ops /\ Child(i)[1] = i - 1
  <2>1. Ops = 1 .. Outermost /\ Outermost \in Nat
    BY <1>1, Tree
  <2>2. i \in Nat /\ (i = 1 \/ i > 1)
    BY <2>1
  <2> QED
    BY <1>1, <2>1, <2>2, Line DEF Chain
<1>3. /\ phase = "connect" /\ UNCHANGED <<sender, iter, is_instantiated, instance>>
      /\ phase' \in {"connect", "run", "aborted"}
  <2>1. phase = "connect" /\ UNCHANGED <<sender, iter>> /\ phase' \in {"connect", "run", "aborted"}
    BY DEF ConnectPlain, ConnectThen, ConnectThenThrows, ConnectThenWithoutNode,
           ConnectContinuesOn, ConnectFork, ConnectWhenAll, ConnectForkJoin, Connecting, ConnectAborts
  <2>2. UNCHANGED <<is_instantiated, instance>>
    BY DEF ConnectPlain, ConnectThen, ConnectThenThrows, ConnectThenWithoutNode, LookUpGraph,
           ConnectContinuesOn, ConnectFork, ConnectWhenAll, ConnectForkJoin, ConnectAborts
  <2> QED
    BY <2>1, <2>2
<1>4. iter \in Nat /\ (iter = 1 \/ iter > 1)
  BY <1>1, Shape DEF SenderInv, ControlOK
<1>5. CASE iter > 1
  <2>1. UNCHANGED <<nodes, dep>> /\ phase' # "aborted" /\ phase # "aborted"
    BY <1>3, <1>5, ConnectAgain DEF Chain
  <2>2. NodesInv'
    BY <1>1, <1>3, <2>1, SameNodes
  <2>3. BuiltInv'
    <3>1. \A k \in GraphStages : Built(k)
      BY <1>3, <1>5, <2>1 DEF BuildInv, BuiltInv, Missing
    <3>2. GraphStages' = GraphStages /\ \A k : Home(k)' = Home(k)
      BY <1>3, SameChain
    <3> QED
      BY <2>1, <3>1, <3>2 DEF BuiltInv, Built
  <2>4. AnswersInv'
    BY <1>3, <1>5 DEF AnswersInv
  <2> QED
    BY <1>3, <2>1, <2>2, <2>3, <2>4 DEF BuildInv
<1>6. CASE iter = 1 /\ ConnectAborts(i)
  <2>1. UNCHANGED <<nodes, dep>> /\ phase' = "aborted"
    BY <1>6, Zenon DEF ConnectAborts
  <2>2. NodesInv'
    BY <1>1, <1>3, <2>1, SameNodes
  <2> QED
    BY <1>3, <2>1, <2>2 DEF BuildInv, AnswersInv, BuiltInv
<1>7. CASE iter = 1 /\ ~ConnectAborts(i)
  <2>1. \A c \in Context : ~is_instantiated[c] /\ ~is_instantiated'[c]
    BY <1>3, <1>7 DEF AbortInv
  <2>2. ASSUME i \in Queryable
        PROVE  /\ cursor = i => LET pred == Predecessor(i, Child(i)[1], CtxOf(i))
                                IN /\ pred \in Answer
                                   /\ \/ pred.has = "node" /\ pred.graph = Home(i) /\ pred.dep = Dep(Start(i), i)
                                      \/ pred.has = "invalid"
               /\ Home(i) \in Context /\ Start(i) \in Nat /\ Start(i) <= i
               /\ i \in GraphStages => Dep(Start(i), i + 1) = {<<i, 1>>}
               /\ i \notin GraphStages => Dep(Start(i), i + 1) = Dep(Start(i), i)
    <3>1. Home(i) \in Context /\ Start(i) \in Nat /\ Start(i) <= i
      BY <1>1, <2>2, Segment DEF Chain
    <3>2. /\ i \in GraphStages => Dep(Start(i), i + 1) = {<<i, 1>>}
          /\ i \notin GraphStages => Dep(Start(i), i + 1) = Dep(Start(i), i)
      BY <1>1, <3>1, LastStages
    <3> QED
      BY <1>3, <1>7, <2>2, <3>1, <3>2, PredecessorIs DEF BuildInv
  <2>3. CASE ConnectPlain(i)
    <3>1. Connecting(i, {"schedule", "just", "just_stopped", "cache", "then", "continues_on"})
      BY <2>3 DEF ConnectPlain
    <3>2. i \notin Queryable /\ i \notin GraphStages
      BY <2>3 DEF ConnectPlain, Queryable, GraphStages, Stages
    <3>3. GoodNode(NotQueryable, i)
      BY <3>2 DEF GoodNode, NotQueryable
    <3>4. Answers(i, NotQueryable) /\ UNCHANGED <<nodes, dep, error, thrown>>
      BY <2>3 DEF ConnectPlain, outcomeVars
    <3>5. NodesInv'
      BY <1>1, <1>3, <3>4, SameNodes
    <3> QED
      BY <1>1, <1>7, <2>1, <3>1, <3>2, <3>3, <3>4, <3>5, BuildStep
  <2>4. CASE ConnectThen(i)
    <3> DEFINE pred == Predecessor(i, Child(i)[1], CtxOf(i))
    <3>1. /\ Connecting(i, {"then"}) /\ Kind(i) = "then" /\ cursor = i /\ OnGraph(i) /\ pred.has = "node"
          /\ AddNode(pred.graph, NodeOf(i), pred.dep) /\ Answers(i, NodeIn(pred.graph, i))
          /\ UNCHANGED <<error, thrown>>
      BY <2>4 DEF ConnectThen, Connecting, outcomeVars
    <3>2. i \in Queryable /\ i \in GraphStages
      BY <3>1 DEF Queryable, GraphStages, Stages
    <3>3. pred.graph = Home(i) /\ pred.dep = Dep(Start(i), i)
      BY <2>2, <3>1, <3>2
    <3>4. NodeOf(i) = <<i, 1>> /\ NodeOf(i) \in Node /\ Fresh(NodeOf(i))
      BY <1>7, <3>1, NextNodeIsFresh DEF NodeOf
    <3>5. /\ nodes' = [nodes EXCEPT ![Home(i)] = @ \cup {<<i, 1>>}]
          /\ dep' = [dep EXCEPT ![<<i, 1>>] = Dep(Start(i), i)]
          /\ Answers(i, NodeIn(Home(i), i))
      BY <3>1, <3>3, <3>4 DEF AddNode
    <3> HIDE DEF pred
    <3>6. GoodNode(NodeIn(Home(i), i), i)
      BY <2>2, <3>2, <3>4 DEF GoodNode, NodeIn
    <3>7. NodesInv'
      <4>1. /\ GraphStages' = GraphStages /\ \A k : Start(k)' = Start(k) /\ Home(k)' = Home(k)
            /\ \A b, p : Dep(b, p)' = Dep(b, p)
        BY <1>3, SameChain
      <4> SUFFICES ASSUME NEW c \in Context, NEW n \in nodes'[c]
                   PROVE  \E j \in GraphStages : n = <<j, 1>> /\ Home(j) = c /\ dep'[n] = Dep(Start(j), j)
        BY <4>1 DEF NodesInv
      <4>2. CASE n \in nodes[c]
        <5>1. n \in Node /\ n # <<i, 1>>
          BY <1>1, <3>4, <4>2 DEF Fresh
        <5>2. dep'[n] = dep[n]
          BY <1>1, <3>5, <5>1
        <5> QED
          BY <1>1, <4>2, <5>2 DEF NodesInv
      <4>3. CASE n \notin nodes[c]
        <5>1. n = <<i, 1>> /\ c = Home(i)
          BY <1>1, <3>5, <4>3
        <5>2. dep'[n] = Dep(Start(i), i)
          BY <1>1, <3>4, <3>5, <5>1
        <5> QED
          BY <3>2, <5>1, <5>2
      <4> QED
        BY <4>2, <4>3
    <3>8. (\A c \in Context : nodes[c] \subseteq nodes'[c]) /\ <<i, 1>> \in nodes'[Home(i)]
      BY <1>1, <2>2, <3>2, <3>5
    <3> QED
      BY <1>1, <1>7, <2>1, <3>1, <3>5, <3>6, <3>7, <3>8, BuildStep
  <2>5. CASE ConnectThenThrows(i)
    <3>1. /\ Connecting(i, {"then"}) /\ Kind(i) = "then" /\ OnGraph(i) /\ UNCHANGED <<nodes, dep>>
          /\ Answers(i, Invalid) /\ error' = [error EXCEPT ![i] = TRUE] /\ thrown' = thrown \cup {i}
      BY <2>5 DEF ConnectThenThrows, Connecting, MayThrow, LookUpGraph
    <3>2. i \in Queryable
      BY <3>1 DEF Queryable
    <3>3. GoodNode(Invalid, i)
      BY <3>2 DEF GoodNode, Invalid
    <3>4. NodesInv'
      BY <1>1, <1>3, <3>1, SameNodes
    <3>5. i \in thrown' /\ i <= i /\ error'[i] /\ \A k \in Ops : error[k] => error'[k]
      BY <1>1, <1>2, <3>1
    <3> QED
      BY <1>1, <1>7, <2>1, <3>1, <3>3, <3>4, <3>5, BuildStep
  <2>6. CASE ConnectThenWithoutNode(i)
    <3>1. /\ Connecting(i, {"then"}) /\ Kind(i) = "then" /\ OnGraph(i) /\ UNCHANGED <<nodes, dep, error, thrown>>
          /\ Answers(i, Invalid) /\ ~Proceed(i)
      BY <2>6 DEF ConnectThenWithoutNode, Connecting, outcomeVars
    <3>2. i \in Queryable
      BY <3>1 DEF Queryable
    <3>3. GoodNode(Invalid, i)
      BY <3>2 DEF GoodNode, Invalid
    <3>4. NodesInv'
      BY <1>1, <1>3, <3>1, SameNodes
    <3>5. Kind(i - 1) = "then" /\ error[i - 1] /\ i - 1 \in Ops
      BY <1>2, <2>1, <3>1 DEF Proceed, OnGraph
    <3>6. i - 1 \in thrown' /\ i - 1 <= i /\ error'[i - 1]
      BY <1>2, <3>1, <3>5 DEF ErrInv, WhenAlls
    <3> QED
      BY <1>1, <1>7, <2>1, <3>1, <3>3, <3>4, <3>6, BuildStep
  <2>7. CASE ConnectContinuesOn(i)
    <3> DEFINE pred == Predecessor(i, Child(i)[1], CtxOf(i))
               looks == IF Kind(Child(i)[1]) = "when_all" THEN {} ELSE {CtxOf(i)}
               a == [pred EXCEPT !.built = @ \cup looks]
    <3>1. /\ Connecting(i, {"continues_on"}) /\ Kind(i) = "continues_on" /\ OnGraph(i) /\ cursor = i
          /\ UNCHANGED <<nodes, dep, error, thrown>> /\ Answers(i, a)
      BY <2>7 DEF ConnectContinuesOn, Connecting, outcomeVars
    <3>2. i \in Queryable /\ i \notin GraphStages
      BY <3>1 DEF Queryable, GraphStages, Stages
    <3>3. /\ pred \in Answer
          /\ \/ pred.has = "node" /\ pred.graph = Home(i) /\ pred.dep = Dep(Start(i), i)
             \/ pred.has = "invalid"
      BY <2>2, <3>1, <3>2
    <3> HIDE DEF pred, looks
    <3>4. a.has = pred.has /\ a.graph = pred.graph /\ a.dep = pred.dep
      BY <3>3 DEF Answer
    <3> HIDE DEF a
    <3>5. GoodNode(a, i)
      BY <2>2, <3>2, <3>3, <3>4 DEF GoodNode
    <3>6. NodesInv'
      BY <1>1, <1>3, <3>1, SameNodes
    <3> QED
      BY <1>1, <1>7, <2>1, <3>1, <3>2, <3>5, <3>6, BuildStep
  <2>8. ~ConnectFork(i) /\ ~ConnectWhenAll(i) /\ ~ConnectForkJoin(i)
    BY <1>2 DEF ConnectFork, ConnectWhenAll, ConnectForkJoin, Connecting, Sources
  <2> QED
    BY <1>7, <2>3, <2>4, <2>5, <2>6, <2>7, <2>8
<1> QED
  BY <1>4, <1>5, <1>6, <1>7

-----------------------------------------------------------------------------
(***************************************************************************)
(* Where the value of a chain is, and what has run by then.                *)
(***************************************************************************)

\* The last stage before p is on context c, and all from there to p is, so the mark it
\* set is still there when p is reached.
Submits(c, p) == \E j \in GraphStages : j < p /\ \A m \in j .. p - 1 : CtxOf(m) = c

\* What is marked when a value comes to p.
Marks(p) == \A c \in Context : is_submitted[c] <=> Submits(c, p)
Quiet == \A c \in Context : ~is_submitted[c]

\* The node of stage i is in a launch that has not come to it.
Left(i) ==
  \E e \in Exec : \E n \in DOMAIN queue[e] : queue[e][n].ctx = Home(i) /\ <<i, 1>> \notin queue[e][n].done

\* What runs the functor of stage i happens before a value comes to p.
Reached(i, p) ==
  IF OnGraph(i) THEN Built(i) /\ \E j \in GraphStages : j < p /\ Start(j) = Start(i) ELSE i < p

\* What has run in this round when a value comes to p.
Counts(p) ==
  \A i \in Stages : runs[i] = IF Reached(i, p) /\ (OnGraph(i) => ~Left(i)) THEN iter ELSE iter - 1

At(p) == Marks(p) /\ Counts(p)
Past == Quiet /\ \E p \in 1 .. Final : Counts(p)

\* A start or a value is pending.
Carrying == \E d \in Pending : d.sig \in {"start", "value"}

\* It is the last call.
LoneInv == \A n \in DOMAIN calls : n < Len(calls) => calls[n].sig = "error"

HostInv ==
  /\ phase \in {"connect", "aborted"} => At(1)
  /\ phase = "run" => \A d \in Pending : (d.sig = "start" => At(1)) /\ (d.sig = "value" => At(d.op))
  /\ phase \in {"returned", "threw", "stopped"} \/ (phase = "run" /\ ~Carrying) => Past
  /\ phase = "connect" => result = "none"
  /\ phase = "run" /\ result = "value" =>
       thrown = {} /\ iter = sender.rounds /\ calls = <<>> /\ Counts(Final)
  /\ LoneInv

\* Before anything is reached, nothing is marked and nothing has run in this round.
LEMMA AtFirst ==
  SenderInv => /\ Marks(1) <=> Quiet
               /\ Counts(1) <=> \A i \in Stages : runs[i] = iter - 1
<1> SUFFICES ASSUME SenderInv
             PROVE  /\ Marks(1) <=> Quiet
                    /\ Counts(1) <=> \A i \in Stages : runs[i] = iter - 1
  OBVIOUS
<1>1. \A i \in Stages : i \in Nat /\ ~(i < 1)
  <2>1. sender \in Senders
    BY DEF SenderInv, ControlOK
  <2>2. Ops \subseteq 1 .. Len(sender.ops) /\ Len(sender.ops) \in Nat
    BY <2>1, Shape
  <2> QED
    BY <2>2 DEF Stages
<1>2. \A j \in GraphStages : ~(j < 1)
  BY <1>1 DEF GraphStages
<1>3. \A c \in Context : ~Submits(c, 1)
  BY <1>2 DEF Submits
<1>4. \A i \in Stages : ~Reached(i, 1)
  BY <1>1, <1>2 DEF Reached
<1> QED
  BY <1>3, <1>4 DEF Marks, Quiet, Counts

LEMMA FirstAgain ==
  ASSUME SenderInv, sender' = sender
  PROVE  /\ Quiet' /\ (\A i \in Stages : runs'[i] = iter' - 1) => At(1)'
         /\ At(1) /\ UNCHANGED <<is_submitted, runs, iter>> => At(1)'
<1>1. /\ GraphStages' = GraphStages /\ Stages' = Stages
      /\ \A i : Start(i)' = Start(i) /\ CtxOf(i)' = CtxOf(i) /\ (OnGraph(i)' <=> OnGraph(i))
  BY SameChain
<1>2. \A i \in Stages : i \in Nat /\ ~(i < 1)
  <2>1. sender \in Senders
    BY DEF SenderInv, ControlOK
  <2>2. Ops \subseteq 1 .. Len(sender.ops) /\ Len(sender.ops) \in Nat
    BY <2>1, Shape
  <2> QED
    BY <2>2 DEF Stages
<1>3. \A i \in Stages : ~Reached(i, 1)'
  BY <1>1, <1>2 DEF Reached, GraphStages
<1>4. ASSUME Quiet', \A i \in Stages : runs'[i] = iter' - 1
      PROVE  At(1)'
  <2>1. Marks(1)'
    BY <1>1, <1>2, <1>4 DEF Marks, Quiet, Submits, GraphStages
  <2> QED
    BY <1>1, <1>3, <1>4, <2>1 DEF At, Counts
<1>5. At(1) => Quiet /\ \A i \in Stages : runs[i] = iter - 1
  BY AtFirst DEF At
<1> QED
  BY <1>4, <1>5 DEF Quiet

\* Nothing of this changes but with the marks, the nodes, the device and the counts.
LEMMA SameHost ==
  ASSUME UNCHANGED <<sender, nodes, iter, runs, queue>>
  PROVE  /\ \A p : Counts(p)' <=> Counts(p)
         /\ \A c, p : Submits(c, p)' <=> Submits(c, p)
         /\ is_submitted' = is_submitted => (Quiet' <=> Quiet) /\ \A p : (Marks(p)' <=> Marks(p)) /\ (At(p)' <=> At(p))
<1>1. /\ GraphStages' = GraphStages /\ Stages' = Stages
      /\ \A i : /\ Start(i)' = Start(i) /\ Home(i)' = Home(i) /\ CtxOf(i)' = CtxOf(i)
                /\ OnGraph(i)' <=> OnGraph(i)
  BY SameChain
<1>2. \A i : (Built(i)' <=> Built(i)) /\ (Left(i)' <=> Left(i))
  BY <1>1 DEF Built, Left
<1>3. \A i, p : Reached(i, p)' <=> Reached(i, p)
  BY <1>1, <1>2 DEF Reached
<1>4. \A p : Counts(p)' <=> Counts(p)
  BY <1>1, <1>2, <1>3 DEF Counts
<1>5. \A c, p : Submits(c, p)' <=> Submits(c, p)
  BY <1>1 DEF Submits
<1> QED
  BY <1>4, <1>5 DEF Quiet, Marks, At

\* A stage is on the context of what is inside of it.
LEMMA StageInside ==
  ASSUME sender \in Senders, Linear, NEW i \in Ops, Kind(i) = "then"
  PROVE  i - 1 \in Ops /\ i \in Nat /\ i > 1 /\ CtxOf(i - 1) = CtxOf(i) /\ (OnGraph(i - 1) <=> OnGraph(i))
<1>1. i > 1 /\ i \in Nat /\ i - 1 \in Ops /\ Child(i)[1] = i - 1
  <2>1. Ops = 1 .. Outermost /\ Outermost \in Nat
    BY Tree
  <2>2. i \in Nat /\ i > 1
    BY <2>1, Line
  <2> QED
    BY <2>2, Line
<1>2. Kind(i - 1) \notin {"when_all", "cache"}
  <2>1. i - 1 = 1 \/ i - 1 > 1
    BY <1>1
  <2> QED
    BY <1>1, <2>1, Line DEF Linear
<1>3. CtxOf(Child(i)[1]) = CtxOf(i)
  BY <1>1, <1>2, SenderAssumption DEF WellFormed, Ops, Child, Kind, CtxOf
<1> QED
  BY <1>1, <1>3 DEF OnGraph

\* How far what was marked is still marked.
LEMMA SubmitsOn ==
  ASSUME sender \in Senders, Linear, NEW i \in Ops, NEW c \in Context
  PROVE  /\ Submits(c, i) => i - 1 \in Ops /\ CtxOf(i - 1) = c
         /\ Submits(c, i + 1) => CtxOf(i) = c
         /\ i \notin GraphStages => (Submits(c, i + 1) <=> Submits(c, i) /\ CtxOf(i) = c)
         /\ i \in GraphStages => (Submits(c, i + 1) <=> CtxOf(i) = c)
<1>1. Ops = 1 .. Outermost /\ Outermost \in Nat
  BY Tree
<1>2. i \in Nat /\ i > 0 /\ GraphStages \subseteq Ops /\ \A j \in Ops : j \in Nat /\ j > 0
  BY <1>1 DEF GraphStages, Stages
<1>3. \A j \in GraphStages : j < i => i - 1 \in j .. i - 1 /\ i - 1 \in Ops
  BY <1>1, <1>2
<1>4. \A j \in GraphStages : j < i + 1 => /\ i \in j .. (i + 1) - 1
                                          /\ \A m \in j .. (i + 1) - 1 : m = i \/ m \in j .. i - 1
                                          /\ \A m \in j .. i - 1 : m \in j .. (i + 1) - 1
                                          /\ j = i \/ j < i
  BY <1>2
<1>5. \A j \in GraphStages : j < i => j < i + 1
  BY <1>2
<1>6. Submits(c, i) => i - 1 \in Ops /\ CtxOf(i - 1) = c
  BY <1>3 DEF Submits
<1>7. Submits(c, i + 1) => CtxOf(i) = c
  BY <1>4 DEF Submits
<1>8. ASSUME i \notin GraphStages
      PROVE  Submits(c, i + 1) <=> Submits(c, i) /\ CtxOf(i) = c
  <2>1. Submits(c, i + 1) => Submits(c, i)
    BY <1>4, <1>8 DEF Submits
  <2>2. Submits(c, i) /\ CtxOf(i) = c => Submits(c, i + 1)
    BY <1>4, <1>5 DEF Submits
  <2> QED
    BY <1>7, <2>1, <2>2
<1>9. ASSUME i \in GraphStages, CtxOf(i) = c
      PROVE  Submits(c, i + 1)
  <2>1. i < i + 1 /\ \A m \in i .. (i + 1) - 1 : m = i
    BY <1>2
  <2> QED
    BY <1>9, <2>1 DEF Submits
<1> QED
  BY <1>6, <1>7, <1>8, <1>9

\* What does not submit adds nothing to what has run but, on the host, itself.
LEMMA CountsOn ==
  ASSUME SenderInv, HostTypeOK, Linear, NEW i \in Ops, i \notin GraphStages, Counts(i),
         UNCHANGED <<sender, nodes, iter, queue>>,
         \A k \in Stages : runs'[k] = IF k = i THEN runs[k] + 1 ELSE runs[k]
  PROVE  Counts(i + 1)'
<1>1. sender \in Senders /\ iter \in Nat /\ iter > 0
  BY Shape DEF SenderInv, ControlOK
<1>2. Ops = 1 .. Outermost /\ Outermost \in Nat
  BY <1>1, Tree
<1>3. \A k \in Stages : k \in Nat /\ k \in Ops /\ (k < i + 1 <=> k = i \/ k < i)
  BY <1>2 DEF Stages
<1>4. \A k \in GraphStages : k < i + 1 <=> k < i
  BY <1>3 DEF GraphStages
<1>5. /\ GraphStages' = GraphStages /\ Stages' = Stages
      /\ \A k : /\ Start(k)' = Start(k) /\ Home(k)' = Home(k) /\ CtxOf(k)' = CtxOf(k)
                /\ OnGraph(k)' <=> OnGraph(k)
  BY SameChain
<1>6. \A k : (Built(k)' <=> Built(k)) /\ (Left(k)' <=> Left(k))
  BY <1>5 DEF Built, Left
<1>7. ASSUME NEW k \in Stages, k # i
      PROVE  Reached(k, i + 1)' <=> Reached(k, i)
  BY <1>3, <1>4, <1>5, <1>6, <1>7 DEF Reached
<1>8. i \in Stages => ~OnGraph(i) /\ ~Reached(i, i) /\ Reached(i, i + 1)'
  BY <1>3, <1>5 DEF Reached, GraphStages
<1>9. \A k \in Stages : runs'[k] = IF Reached(k, i + 1)' /\ (OnGraph(k) => ~Left(k)') THEN iter ELSE iter - 1
  <2> TAKE k \in Stages
  <2>1. CASE k = i
    BY <1>1, <1>8, <2>1 DEF Counts
  <2>2. CASE k # i
    BY <1>6, <1>7, <2>2 DEF Counts
  <2> QED
    BY <2>1, <2>2
<1> QED
  BY <1>5, <1>9 DEF Counts

\* An earlier stage of a segment that is entered on its own context is still marked.
LEMMA MarkedBefore ==
  ASSUME sender \in Senders, Chain, NEW j \in GraphStages, NEW k \in GraphStages, k < j,
         Start(k) = Start(j), CtxOf(j) = Home(j)
  PROVE  Submits(CtxOf(j), j)
<1>1. PICK f \in GraphStages : f <= k /\ Start(f) = Start(k) /\ CtxOf(f) = Home(k)
  BY FirstStage
<1>2. /\ f \in Ops /\ j \in Ops /\ k \in Ops /\ OnGraph(f) /\ OnGraph(j) /\ CtxOf(f) = CtxOf(j)
      /\ f \in Nat /\ k \in Nat /\ j \in Nat
  <2>1. Ops = 1 .. Outermost /\ Outermost \in Nat
    BY Tree DEF GraphStages, Stages
  <2> QED
    BY <1>1, <2>1 DEF GraphStages, Stages, Home
<1>3. f < j
  BY <1>1, <1>2
<1>4. \A m \in f .. j - 1 : m \in f .. j
  BY <1>2
<1>5. \A m \in f .. j - 1 : CtxOf(m) = CtxOf(f)
  BY <1>2, <1>3, <1>4, Streams
<1> QED
  BY <1>2, <1>3, <1>5 DEF Submits

\* What a mark says of the segment: the value is in it, or has just left it.
LEMMA MarkReaches ==
  ASSUME sender \in Senders, Chain, NEW j \in GraphStages, Submits(CtxOf(j), j)
  PROVE  \E k \in GraphStages : k < j /\ Start(k) = Start(j)
<1>1. PICK k \in GraphStages : k < j /\ \A m \in k .. j - 1 : CtxOf(m) = CtxOf(j)
  BY DEF Submits
<1>2. Ops = 1 .. Outermost /\ Outermost \in Nat
  BY Tree DEF GraphStages, Stages
<1>3. j \in Ops /\ k \in Ops /\ j \in Queryable /\ k \in Queryable /\ k \in Nat /\ j \in Nat /\ k > 1
  <2>1. j \in Ops /\ k \in Ops /\ j \in Queryable /\ k \in Queryable
    BY DEF GraphStages, Stages, Queryable
  <2> QED
    BY <1>2, <2>1, Line DEF Chain, Queryable
<1>4. k .. j \subseteq Queryable
  <2> SUFFICES ASSUME NEW m \in k .. j
               PROVE  m \in Queryable
    OBVIOUS
  <2>1. m \in Ops /\ m > 1 /\ (m = j \/ m \in k .. j - 1)
    BY <1>2, <1>3
  <2>2. Kind(m) \in {"then", "continues_on"}
    BY <2>1, Line DEF Chain
  <2> QED
    BY <1>1, <1>3, <2>1, <2>2 DEF Queryable, OnGraph, GraphStages
<1>5. Start(k) = Start(j)
  BY <1>1, <1>3, <1>4, SameSegment DEF Chain
<1> QED
  BY <1>1, <1>5

\* A stage that submits marks its context; if it is the first one of its segment, the
\* nodes of the segment are left to run from then on.
LEMMA SubmitAt ==
  ASSUME SenderInv, HostTypeOK, Chain, NEW j \in GraphStages, CtxOf(j) \in has_graph, Submit(CtxOf(j)),
         At(j), UNCHANGED <<sender, iter, runs>>
  PROVE  At(j + 1)'
<1> DEFINE c == CtxOf(j)
<1>1. /\ sender \in Senders /\ Linear /\ iter \in Nat /\ IInv
      /\ is_submitted \in [Context -> BOOLEAN] /\ queue \in [Exec -> Seq(Launch)]
  BY Shape DEF SenderInv, ControlOK, Chain, IInv, ContextTypeOK
<1>2. j \in Ops /\ j \in Queryable /\ c \in Context /\ Kind(j) = "then" /\ GraphStages \subseteq Queryable
  BY DEF GraphStages, Stages, Queryable, OnGraph
<1>3. Ops = 1 .. Outermost /\ Outermost \in Nat
  BY <1>1, <1>2, Tree
<1>4. /\ GraphStages' = GraphStages /\ Stages' = Stages
      /\ \A k : /\ Start(k)' = Start(k) /\ Home(k)' = Home(k) /\ CtxOf(k)' = CtxOf(k)
                /\ OnGraph(k)' <=> OnGraph(k)
  BY SameChain
<1>5. nodes' = nodes
  BY DEF Submit, graphVars
<1>6. \A x, p : Submits(x, p)' <=> Submits(x, p)
  BY <1>4 DEF Submits
<1> HIDE DEF c
<1>7. Marks(j + 1)'
  <2> SUFFICES ASSUME NEW x \in Context
               PROVE  is_submitted'[x] <=> Submits(x, j + 1)
    BY <1>6 DEF Marks
  <2>1. Submits(x, j + 1) <=> x = c
    BY <1>1, <1>2, SubmitsOn DEF c
  <2>2. is_submitted'[x] <=> x = c \/ is_submitted[x]
    <3>1. c \in has_graph /\ Submit(c)
      BY DEF c
    <3> QED
      BY <1>1, <1>2, <3>1 DEF Submit, Launched, flagVars
  <2>3. is_submitted[x] => x = c
    <3>1. is_submitted[x] => CtxOf(j - 1) = x
      BY <1>1, <1>2, SubmitsOn DEF At, Marks
    <3> QED
      BY <1>1, <1>2, <3>1, StageInside DEF c
  <2> QED
    BY <2>1, <2>2, <2>3
<1>8. \A k \in GraphStages : /\ k \in Nat /\ j \in Nat /\ (k < j + 1 <=> k = j \/ k < j)
                             /\ Home(k) \in Context /\ k \in Queryable
  <2> TAKE k \in GraphStages
  <2>1. k \in Queryable /\ k \in Ops /\ j \in Ops
    BY <1>2 DEF GraphStages, Stages
  <2>2. k \in Nat /\ j \in Nat
    BY <1>3, <2>1
  <2> QED
    BY <1>1, <2>1, <2>2, Segment
<1>9. ASSUME NEW k \in Stages, OnGraph(k)
      PROVE  /\ Reached(k, j + 1)' <=> Built(k) /\ (Start(k) = Start(j) \/ Reached(k, j))
             /\ Reached(k, j) => Built(k)
  <2>1. k \in GraphStages
    BY <1>9 DEF GraphStages
  <2>2. Built(k)' <=> Built(k)
    BY <1>4, <1>5 DEF Built
  <2>3. Reached(k, j + 1)' <=> Built(k) /\ \E m \in GraphStages : m < j + 1 /\ Start(m) = Start(k)
    BY <1>4, <1>9, <2>2 DEF Reached
  <2>4. Reached(k, j) <=> Built(k) /\ \E m \in GraphStages : m < j /\ Start(m) = Start(k)
    BY <1>9 DEF Reached
  <2>5. (\E m \in GraphStages : m < j + 1 /\ Start(m) = Start(k))
          <=> Start(k) = Start(j) \/ \E m \in GraphStages : m < j /\ Start(m) = Start(k)
    BY <1>8
  <2> QED
    BY <2>3, <2>4, <2>5
<1>10. ASSUME NEW k \in Stages, ~OnGraph(k)
       PROVE  Reached(k, j + 1)' <=> Reached(k, j)
  <2>1. k \in Nat /\ j \in Nat /\ k # j
    BY <1>3, <1>10 DEF GraphStages, Stages
  <2> QED
    BY <1>4, <1>10, <2>1 DEF Reached
<1>11. CASE is_submitted[c]
  <2>1. queue' = queue
    <3>1. is_submitted[c] /\ Submit(c)
      BY <1>11 DEF c
    <3> QED
      BY <3>1 DEF Submit
  <2>2. \A k : Left(k)' <=> Left(k)
    BY <1>4, <2>1 DEF Left
  <2>3. PICK m \in GraphStages : m < j /\ Start(m) = Start(j)
    <3>1. Submits(c, j)
      BY <1>2, <1>11 DEF At, Marks
    <3> QED
      BY <1>1, <3>1, MarkReaches DEF c
  <2>4. \A k \in Stages : Reached(k, j + 1)' <=> Reached(k, j)
    <3> SUFFICES ASSUME NEW k \in Stages, OnGraph(k), Built(k), Start(k) = Start(j)
                 PROVE  Reached(k, j)
      BY <1>9, <1>10
    <3> QED
      BY <2>3 DEF Reached
  <2>5. Counts(j + 1)'
    BY <1>4, <2>2, <2>4 DEF At, Counts
  <2> QED
    BY <1>7, <2>5 DEF At
<1>12. CASE ~is_submitted[c]
  <2> DEFINE e == ExecOf[c]
             l == [ctx |-> c, done |-> {}]
  <2>1. queue' = [queue EXCEPT ![e] = Append(@, l)]
    <3>1. c \in has_graph /\ Submit(c)
      BY DEF c
    <3> QED
      BY <1>12, <3>1 DEF Submit, Launched
  <2>2. e \in Exec /\ l \in Launch /\ l.ctx = c /\ l.done = {} /\ queue[e] \in Seq(Launch)
    BY <1>1, <1>2, ContextAssumption DEF Launch
  <2> HIDE DEF e, l
  <2>3. /\ DOMAIN Append(queue[e], l) = DOMAIN queue[e] \cup {Len(queue[e]) + 1}
        /\ \A n \in DOMAIN queue[e] : Append(queue[e], l)[n] = queue[e][n]
        /\ Append(queue[e], l)[Len(queue[e]) + 1] = l
    BY <2>2, AppendElements
  <2>4. queue'[e] = Append(queue[e], l) /\ \A x \in Exec : x # e => queue'[x] = queue[x]
    BY <1>1, <2>1, <2>2
  <2>5. ASSUME NEW k
        PROVE  Left(k)' <=> Left(k) \/ Home(k) = c
    <3>1. Left(k) => Left(k)'
      BY <1>4, <2>2, <2>3, <2>4 DEF Left
    <3>2. Home(k) = c => Left(k)'
      BY <1>4, <2>2, <2>3, <2>4 DEF Left
    <3>3. Left(k)' => Left(k) \/ Home(k) = c
      BY <1>4, <2>2, <2>3, <2>4 DEF Left
    <3> QED
      BY <3>1, <3>2, <3>3
  <2>6. \A k \in GraphStages : Home(k) = c => Start(k) = Start(j) /\ Home(j) = c
    BY <1>1, <1>8, HomeUnique DEF c
  <2>7. CASE Home(j) = c
    <3>1. \A k \in GraphStages : k < j => Start(k) # Start(j)
      <4> SUFFICES ASSUME NEW k \in GraphStages, k < j, Start(k) = Start(j)
                   PROVE  FALSE
        OBVIOUS
      <4>1. Submits(c, j)
        BY <1>1, <2>7, MarkedBefore DEF c
      <4> QED
        BY <1>2, <1>12, <4>1 DEF At, Marks
    <3>2. \A k \in GraphStages : Start(k) = Start(j) => Home(k) = c
      BY <2>7 DEF Home
    <3>3. ASSUME NEW k \in Stages
          PROVE  (Reached(k, j + 1)' /\ (OnGraph(k) => ~Left(k)')) <=> (Reached(k, j) /\ (OnGraph(k) => ~Left(k)))
      <4>1. CASE ~OnGraph(k)
        BY <1>10, <4>1
      <4>2. CASE OnGraph(k) /\ Start(k) = Start(j)
        <5>1. k \in GraphStages
          BY <4>2 DEF GraphStages
        <5>2. ~Reached(k, j)
          BY <3>1, <4>2 DEF Reached
        <5>3. Left(k)'
          BY <2>5, <3>2, <4>2, <5>1
        <5> QED
          BY <4>2, <5>2, <5>3
      <4>3. CASE OnGraph(k) /\ Start(k) # Start(j)
        <5>1. k \in GraphStages
          BY <4>3 DEF GraphStages
        <5>2. Left(k)' <=> Left(k)
          BY <2>5, <2>6, <4>3, <5>1
        <5> QED
          BY <1>9, <4>3, <5>2
      <4> QED
        BY <4>1, <4>2, <4>3
    <3>4. Counts(j + 1)'
      BY <1>4, <3>3 DEF At, Counts
    <3> QED
      BY <1>7, <3>4 DEF At
  <2>8. CASE Home(j) # c
    <3>1. PICK f \in GraphStages : f < j /\ Start(f) = Start(j)
      <4>1. PICK f \in GraphStages : f <= j /\ Start(f) = Start(j) /\ CtxOf(f) = Home(j)
        BY FirstStage, <1>1
      <4>2. f # j
        BY <2>8, <4>1 DEF c
      <4> QED
        BY <1>8, <4>1, <4>2
    <3>2. \A k \in Stages : Reached(k, j + 1)' <=> Reached(k, j)
      <4> SUFFICES ASSUME NEW k \in Stages, OnGraph(k), Built(k), Start(k) = Start(j)
                   PROVE  Reached(k, j)
        BY <1>9, <1>10
      <4> QED
        BY <3>1 DEF Reached
    <3>3. \A k \in Stages : OnGraph(k) => (Left(k)' <=> Left(k))
      BY <2>5, <2>6, <2>8 DEF GraphStages
    <3>4. Counts(j + 1)'
      BY <1>4, <3>2, <3>3 DEF At, Counts
    <3> QED
      BY <1>7, <3>4 DEF At
  <2> QED
    BY <2>7, <2>8
<1> QED
  BY <1>11, <1>12

-----------------------------------------------------------------------------
(***************************************************************************)
(* The calls of a chain.                                                   *)
(***************************************************************************)

\* A call that is not an error is the only one.
LEMMA Alone ==
  ASSUME HostTypeOK, LoneInv, NEW sig, NEW i, NEW made \in Seq(CallRecord), Calls(sig, i, made),
         sig # "error"
  PROVE  /\ Pending = {Call(sig, i)}
         /\ Pending' = {made[n] : n \in DOMAIN made}
         /\ Len(calls') = Len(made)
<1>1. /\ DOMAIN calls = 1 .. Len(calls) /\ Len(calls) \in Nat /\ 1 \in DOMAIN calls /\ calls[1] = Call(sig, i)
      /\ DOMAIN made = 1 .. Len(made) /\ Len(made) \in Nat
      /\ DOMAIN calls' = 1 .. Len(calls') /\ Len(calls') = Len(made) + Len(calls) - 1
      /\ \A n \in DOMAIN made : n \in DOMAIN calls' /\ calls'[n] = made[n]
  BY Moved
<1>2. Len(calls) = 1
  <2>1. calls[1].sig # "error"
    BY <1>1 DEF Call
  <2>2. ~(1 < Len(calls))
    BY <1>1, <2>1 DEF LoneInv
  <2> QED
    BY <1>1, <2>2
<1>3. Pending = {Call(sig, i)}
  BY <1>1, <1>2 DEF Pending
<1>4. Len(calls') = Len(made) /\ DOMAIN calls' = DOMAIN made
  BY <1>1, <1>2
<1>5. Pending' = {made[n] : n \in DOMAIN made}
  BY <1>1, <1>4 DEF Pending
<1> QED
  BY <1>3, <1>4, <1>5

LEMMA AloneOne ==
  ASSUME HostTypeOK, LoneInv, NEW sig, NEW i, NEW c \in CallRecord, Calls(sig, i, <<c>>), sig # "error"
  PROVE  Pending = {Call(sig, i)} /\ Pending' = {c}
<1> DEFINE made == <<c>>
<1>1. made \in Seq(CallRecord) /\ DOMAIN made = {1} /\ made[1] = c
  OBVIOUS
<1>2. Calls(sig, i, made)
  OBVIOUS
<1> HIDE DEF made
<1>3. Pending = {Call(sig, i)} /\ Pending' = {made[n] : n \in DOMAIN made}
  BY <1>1, <1>2, Alone
<1> QED
  BY <1>1, <1>3

\* What a call adds are errors, but for the last one if it was not an error itself.
LEMMA LoneStep ==
  ASSUME HostTypeOK, LoneInv, NEW sig, NEW i, NEW made \in Seq(CallRecord), Calls(sig, i, made),
         \A n \in DOMAIN made : made[n].sig = "error" \/ (n = Len(made) /\ sig # "error")
  PROVE  LoneInv'
<1>1. /\ DOMAIN calls = 1 .. Len(calls) /\ Len(calls) \in Nat /\ 1 \in DOMAIN calls /\ calls[1] = Call(sig, i)
      /\ DOMAIN made = 1 .. Len(made) /\ Len(made) \in Nat
      /\ DOMAIN calls' = 1 .. Len(calls') /\ Len(calls') = Len(made) + Len(calls) - 1
      /\ \A n \in DOMAIN made : n \in DOMAIN calls' /\ calls'[n] = made[n]
      /\ \A n \in DOMAIN calls : n > 1 =>
           n - 1 + Len(made) \in DOMAIN calls' /\ calls'[n - 1 + Len(made)] = calls[n]
      /\ \A n \in DOMAIN calls' : \/ n \in DOMAIN made
                                  \/ \E m \in DOMAIN calls : m > 1 /\ n = m - 1 + Len(made)
  BY Moved
<1>2. sig # "error" => Len(calls) = 1
  <2> SUFFICES ASSUME sig # "error"
               PROVE  Len(calls) = 1
    OBVIOUS
  <2>1. calls[1].sig # "error"
    BY <1>1 DEF Call
  <2>2. ~(1 < Len(calls))
    BY <1>1, <2>1 DEF LoneInv
  <2> QED
    BY <1>1, <2>2
<1> SUFFICES ASSUME NEW n \in DOMAIN calls', n < Len(calls')
             PROVE  calls'[n].sig = "error"
  BY DEF LoneInv
<1>3. CASE n \in DOMAIN made
  <2>1. n = Len(made) => sig = "error"
    BY <1>1, <1>2
  <2> QED
    BY <1>1, <1>3, <2>1
<1>4. CASE n \notin DOMAIN made
  <2>1. PICK m \in DOMAIN calls : m > 1 /\ n = m - 1 + Len(made)
    BY <1>1, <1>4
  <2>2. m < Len(calls)
    BY <1>1, <2>1
  <2> QED
    BY <1>1, <2>1, <2>2 DEF LoneInv
<1> QED
  BY <1>3, <1>4

LEMMA LoneOne ==
  ASSUME HostTypeOK, LoneInv, NEW sig, NEW i, NEW c \in CallRecord, Calls(sig, i, <<c>>),
         c.sig = "error" \/ sig # "error"
  PROVE  LoneInv'
<1> DEFINE made == <<c>>
<1>1. made \in Seq(CallRecord) /\ DOMAIN made = {1} /\ made[1] = c /\ Len(made) = 1
  OBVIOUS
<1>2. Calls(sig, i, made)
  OBVIOUS
<1> HIDE DEF made
<1> QED
  BY <1>1, <1>2, LoneStep

LEMMA LoneNone ==
  ASSUME HostTypeOK, LoneInv, NEW sig, NEW i, Calls(sig, i, <<>>)
  PROVE  /\ LoneInv'
         /\ sig # "error" => Pending = {Call(sig, i)} /\ Pending' = {} /\ calls' = <<>>
<1> DEFINE made == <<>>
<1>1. made \in Seq(CallRecord) /\ DOMAIN made = {} /\ Len(made) = 0
  OBVIOUS
<1>2. Calls(sig, i, made)
  OBVIOUS
<1> HIDE DEF made
<1>3. LoneInv'
  BY <1>1, <1>2, LoneStep
<1>4. sig # "error" => Pending = {Call(sig, i)} /\ Pending' = {} /\ Len(calls') = 0
  BY <1>1, <1>2, Alone
<1>5. calls' \in Seq(CallRecord)
  BY <1>1, <1>2, Moved
<1> QED
  BY <1>3, <1>4, <1>5, EmptySeq

\* The calls that the operation states of a chain make.
LEMMA ChainSignals ==
  ASSUME SenderInv, HostTypeOK, StackInv, Linear, NEW i \in Ops, Signal(i)
  PROVE  /\ sender \in Senders /\ i \in Nat /\ Parent(i) = i + 1 /\ i \in 1 .. Final /\ i + 1 \in 1 .. Final
         /\ \A sig \in {"start", "value", "error", "stopped"} :
              Call(sig, i) \in CallRecord /\ Call(sig, i + 1) \in CallRecord
         /\ \/ (StartSource(i) /\ i = 1) \/ StartThen(i) \/ StartInner(i) \/ ValueStage(i) \/ ValueHostStage(i)
            \/ ThrowHostStage(i) \/ ValueContinuesOn(i) \/ Forwarded(i)
         /\ Kind(i) \in {"then", "continues_on"} => i > 1 /\ i - 1 \in Ops /\ Child(i)[1] = i - 1
         /\ Kind(i) \in Sources \cup {"then", "continues_on"}
<1>1. sender \in Senders
  BY DEF SenderInv, ControlOK
<1>2. Ops = 1 .. Outermost /\ Outermost \in Nat /\ Final = Outermost + 1
  BY <1>1, Tree
<1>3. i \in Nat /\ i \in 1 .. Final /\ i + 1 \in 1 .. Final
  BY <1>2
<1>4. /\ Parent(i) = i + 1
      /\ Kind(i) \in {"then", "continues_on"} => i > 1 /\ i - 1 \in Ops /\ Child(i)[1] = i - 1
      /\ i > 1 => Kind(i) \in {"then", "continues_on"}
      /\ i = 1 => Kind(i) \in Sources
  BY <1>1, Line
<1>5. i = 1 \/ i > 1
  BY <1>2
<1>6. Kind(i) \in Sources \cup {"then", "continues_on"} /\ (Kind(i) \in Sources => i = 1)
  BY <1>4, <1>5 DEF Sources
<1>7. ~Joined(i)
  <2> SUFFICES ASSUME Joined(i)
               PROVE  FALSE
    OBVIOUS
  <2>1. calls # <<>> /\ Head(calls) = Call("joined", i) /\ calls \in Seq(CallRecord)
    BY DEF Joined, Calls, HostTypeOK
  <2>2. 1 \in DOMAIN calls /\ calls[1] = Call("joined", i)
    BY <2>1
  <2>3. i \in WhenAlls
    BY <2>2 DEF StackInv, Call
  <2> QED
    BY <2>3 DEF Linear, WhenAlls
<1>8. ~StartWhenAll(i) /\ ~ValueChild(i) /\ ~ErrorChild(i) /\ ~Forked(i) /\ ~ValueForkJoin(i)
  BY <1>6 DEF StartWhenAll, ValueChild, ErrorChild, Forked, ValueForkJoin, Sources
<1>9. \A sig \in {"start", "value", "error", "stopped"} :
              Call(sig, i) \in CallRecord /\ Call(sig, i + 1) \in CallRecord
  BY <1>3 DEF Call, CallRecord
<1>10. \/ (StartSource(i) /\ i = 1) \/ StartThen(i) \/ StartInner(i) \/ ValueStage(i) \/ ValueHostStage(i)
       \/ ThrowHostStage(i) \/ ValueContinuesOn(i) \/ Forwarded(i)
  BY <1>6, <1>7, <1>8 DEF Signal, StartSource
<1> QED
  BY <1>1, <1>3, <1>4, <1>6, <1>9, <1>10

\* What a chain does once it is connected keeps track of its value.
LEMMA RunHost ==
  ASSUME phase = "run", phase' = "run", result' = result, LoneInv', result # "value",
         \/ \E d \in Pending' : d.sig \in {"start", "value"}
         \/ Past',
         \A d \in Pending' : (d.sig = "start" => At(1)') /\ (d.sig = "value" => At(d.op)')
  PROVE  HostInv'
BY DEF HostInv, Carrying

\* start() and the completion signals of a chain.
LEMMA SignalHost ==
  ASSUME SenderInv, HostTypeOK, StackInv, GraphsInv, Chain, HostInv, NEW i \in Ops, Signal(i)
  PROVE  HostInv'
<1> USE DEF Nothing
<1>1. /\ sender \in Senders /\ i \in Nat /\ Parent(i) = i + 1 /\ i \in 1 .. Final /\ i + 1 \in 1 .. Final
      /\ \A sig \in {"start", "value", "error", "stopped"} :
           Call(sig, i) \in CallRecord /\ Call(sig, i + 1) \in CallRecord
      /\ \/ (StartSource(i) /\ i = 1) \/ StartThen(i) \/ StartInner(i) \/ ValueStage(i) \/ ValueHostStage(i)
         \/ ThrowHostStage(i) \/ ValueContinuesOn(i) \/ Forwarded(i)
      /\ Kind(i) \in {"then", "continues_on"} => i > 1 /\ i - 1 \in Ops /\ Child(i)[1] = i - 1
      /\ Kind(i) \in Sources \cup {"then", "continues_on"}
  BY ChainSignals DEF Chain
<1>2. phase = "run" /\ phase' = "run" /\ sender' = sender /\ result' = result /\ Linear /\ LoneInv
  BY <1>1, SignalFrame DEF Chain, HostInv
<1>3. UNCHANGED <<iter, nodes>>
  <2>1. iter' = iter
    BY <1>1 DEF StartSource, StartThen, StartInner, ValueStage, ValueHostStage, ThrowHostStage,
           ValueContinuesOn, Forwarded, Calls
  <2>2. nodes' = nodes
    BY <1>1 DEF StartSource, StartThen, StartInner, ValueStage, ValueHostStage, ThrowHostStage,
           ValueContinuesOn, Forwarded, Nothing, contextVars, graphVars, Submit, Wait
  <2> QED
    BY <2>1, <2>2
<1>4. result # "value"
  <2>1. calls # <<>>
    BY <1>1 DEF StartSource, StartThen, StartInner, ValueStage, ValueHostStage, ThrowHostStage,
           ValueContinuesOn, Forwarded, Calls
  <2> QED
    BY <1>2, <2>1 DEF HostInv
<1>5. ASSUME NEW d \in Pending
      PROVE  (d.sig = "start" => At(1)) /\ (d.sig = "value" => At(d.op))
  BY <1>2 DEF HostInv
<1>6. i + 1 \in Nat /\ 1 \in 1 .. Final /\ Final' = Final /\ Linear
  <2>1. Final \in Nat /\ Final >= 1 /\ Final' = Final
    BY <1>1, <1>2, Tree, SameTree
  <2> QED
    BY <1>1, <1>2, <2>1
<1>7. (\A k \in Ops : CtxOf(k)' = CtxOf(k)) /\ Stages' = Stages
  BY <1>2, SameChain
<1>8. \A x : (Submits(x, i)' <=> Submits(x, i)) /\ (Submits(x, i + 1)' <=> Submits(x, i + 1))
  BY <1>2, SameChain DEF Submits
<1>9. \A x \in Context : /\ Submits(x, i) => i - 1 \in Ops /\ CtxOf(i - 1) = x
                         /\ Submits(x, i + 1) => CtxOf(i) = x
                         /\ i \notin GraphStages => (Submits(x, i + 1) <=> Submits(x, i) /\ CtxOf(i) = x)
  BY <1>1, <1>2, SubmitsOn
<1>10. \A d : (d = Call("value", i + 1) => d.sig = "value" /\ d.op = i + 1)
           /\ (d = Call("value", i) => d.sig = "value" /\ d.op = i)
           /\ (d = Call("start", i) => d.sig = "start")
           /\ \A y : (d = Call("error", y) => d.sig = "error") /\ (d = Call("stopped", y) => d.sig = "stopped")
                     /\ (d = Call("start", y) => d.sig = "start")
  BY DEF Call
<1>11. ASSUME NEW out \in {"value", "error", "stopped"}, NEW sig \in {"start", "value"},
              Calls(sig, i, <<Call(out, i + 1)>>)
       PROVE  LoneInv' /\ Pending = {Call(sig, i)} /\ Pending' = {Call(out, i + 1)}
  <2>1. Call(out, i + 1) \in CallRecord
    BY <1>1, <1>11
  <2>2. LoneInv'
    BY <1>2, <1>11, <2>1, LoneOne
  <2>3. Pending = {Call(sig, i)} /\ Pending' = {Call(out, i + 1)}
    BY <1>2, <1>11, <2>1, AloneOne
  <2> QED
    BY <2>2, <2>3
<1>12. ASSUME LoneInv', Pending' = {Call("value", i + 1)}, At(i + 1)'
       PROVE  HostInv'
  <2>1. \E d \in Pending' : d.sig \in {"start", "value"}
    BY <1>10, <1>12
  <2>2. \A d \in Pending' : (d.sig = "start" => At(1)') /\ (d.sig = "value" => At(d.op)')
    <3> SUFFICES ASSUME NEW d \in Pending'
                 PROVE  (d.sig = "start" => At(1)') /\ (d.sig = "value" => At(d.op)')
      OBVIOUS
    <3>1. d.sig = "value" /\ d.op = i + 1
      BY <1>10, <1>12
    <3>2. At(d.op)'
      BY <1>12, <3>1 DEF At, Marks, Counts, Submits, Reached
    <3> QED
      BY <3>1, <3>2
  <2> QED
    BY <1>2, <1>4, <1>12, <2>1, <2>2, RunHost
<1>13. CASE StartSource(i) /\ i = 1
  <2> DEFINE out == IF Kind(i) = "just_stopped" THEN "stopped" ELSE "value"
  <2>1. Calls("start", i, <<Call(out, i + 1)>>) /\ UNCHANGED <<contextVars, outcomeVars>> /\ Kind(i) \in Sources
    BY <1>1, <1>13 DEF StartSource
  <2>2. out \in {"value", "stopped"}
    OBVIOUS
  <2> HIDE DEF out
  <2>3. LoneInv' /\ Pending = {Call("start", i)} /\ Pending' = {Call(out, i + 1)}
    BY <1>11, <2>1, <2>2
  <2>4. At(1)
    BY <1>5, <1>10, <2>3
  <2>5. UNCHANGED <<queue, runs, is_submitted>>
    BY <2>1 DEF contextVars, flagVars, outcomeVars
  <2>6. i \notin GraphStages /\ i \notin Stages
    BY <2>1 DEF GraphStages, Stages, Sources
  <2>7. Quiet /\ Quiet' /\ Counts(1)'
    BY <1>2, <1>3, <2>4, <2>5, AtFirst, SameHost DEF At
  <2>8. At(i + 1)'
    <3>1. Counts(i + 1)'
      <4>1. Counts(i)
        BY <1>13, <2>4 DEF At
      <4>2. \A k \in Stages : runs'[k] = IF k = i THEN runs[k] + 1 ELSE runs[k]
        BY <2>5, <2>6
      <4> QED
        BY <1>2, <1>3, <2>5, <2>6, <4>1, <4>2, CountsOn
    <3>2. \A x \in Context : ~Submits(x, i)
      BY <1>13, <2>4, <2>7 DEF At, Marks, Quiet
    <3>3. Marks(i + 1)'
      BY <1>8, <1>9, <2>6, <2>7, <3>2 DEF Marks, Quiet
    <3> QED
      BY <3>1, <3>3 DEF At
  <2>9. CASE out = "value"
    BY <1>12, <2>3, <2>8, <2>9
  <2>10. CASE out = "stopped"
    <3>1. \A d \in Pending' : d.sig = "stopped"
      BY <1>10, <2>3, <2>10
    <3>2. Past'
      BY <1>6, <2>7 DEF Past
    <3> QED
      BY <1>2, <1>4, <2>3, <3>1, <3>2, RunHost
  <2> QED
    BY <2>2, <2>9, <2>10
<1>14. CASE StartThen(i) \/ StartInner(i)
  <2>1. UNCHANGED <<queue, runs, is_submitted>>
    BY <1>14 DEF StartThen, StartInner, contextVars, flagVars, outcomeVars
  <2>2. /\ LoneInv' /\ Pending = {Call("start", i)} /\ Call("start", i - 1) \in Pending'
        /\ Pending' \subseteq {Call("start", i - 1), Call("error", i + 1)}
    <3>1. Call("start", i - 1) \in CallRecord /\ Call("error", i + 1) \in CallRecord
      <4>1. i - 1 \in Ops
        BY <1>1, <1>14 DEF StartThen, StartInner, Sources
      <4>2. i - 1 \in 1 .. Final
        BY <1>1, <4>1, ChildType
      <4> QED
        BY <1>1, <4>2 DEF Call, CallRecord
    <3>2. CASE StartThen(i) /\ error[i]
      <4> DEFINE made == <<Call("error", i + 1), Call("start", i - 1)>>
      <4>1. Calls("start", i, made)
        BY <1>1, <3>2, ThenMade
      <4>2. made \in Seq(CallRecord) /\ DOMAIN made = {1, 2} /\ Len(made) = 2
            /\ made[1] = Call("error", i + 1) /\ made[2] = Call("start", i - 1)
        BY <3>1
      <4> HIDE DEF made
      <4>3. \A n \in DOMAIN made : made[n].sig = "error" \/ (n = Len(made) /\ "start" # "error")
        BY <1>10, <4>2
      <4>4. LoneInv'
        BY <1>2, <4>1, <4>2, <4>3, LoneStep
      <4>5. Pending = {Call("start", i)} /\ Pending' = {made[n] : n \in DOMAIN made}
        BY <1>2, <4>1, <4>2, Alone
      <4>6. Pending' = {Call("error", i + 1), Call("start", i - 1)}
        BY <4>2, <4>5
      <4> QED
        BY <4>4, <4>5, <4>6
    <3>3. CASE (StartThen(i) /\ ~error[i]) \/ StartInner(i)
      <4>1. Calls("start", i, <<Call("start", i - 1)>>)
        <5>1. CASE StartThen(i) /\ ~error[i]
          BY <1>1, <5>1, ThenMade
        <5>2. CASE StartInner(i)
          BY <1>1, <5>2 DEF StartInner, Sources
        <5> QED
          BY <3>3, <5>1, <5>2
      <4>2. LoneInv'
        BY <1>2, <3>1, <4>1, LoneOne
      <4>3. Pending = {Call("start", i)} /\ Pending' = {Call("start", i - 1)}
        BY <1>2, <3>1, <4>1, AloneOne
      <4> QED
        BY <4>2, <4>3
    <3> QED
      BY <1>14, <3>2, <3>3
  <2>3. At(1)'
    <3>1. At(1)
      BY <1>5, <1>10, <2>2
    <3> QED
      BY <1>2, <1>3, <2>1, <3>1, SameHost
  <2>4. \A d \in Pending' : d.sig \in {"start", "error"} /\ d.sig # "value"
    BY <1>10, <2>2
  <2>5. \E d \in Pending' : d.sig \in {"start", "value"}
    BY <1>10, <2>2
  <2>6. \A d \in Pending' : (d.sig = "start" => At(1)') /\ (d.sig = "value" => At(d.op)')
    BY <2>3, <2>4
  <2> QED
    BY <1>2, <1>4, <2>2, <2>5, <2>6, RunHost
<1>15. CASE ValueStage(i)
  <2>1. Calls("value", i, <<Call("value", i + 1)>>) /\ Submit(CtxOf(i)) /\ UNCHANGED outcomeVars
        /\ i \in GraphStages
    BY <1>1, <1>15 DEF ValueStage, GraphStages, Stages
  <2>2. LoneInv' /\ Pending = {Call("value", i)} /\ Pending' = {Call("value", i + 1)}
    BY <1>11, <2>1
  <2>3. At(i)
    BY <1>5, <1>10, <2>2
  <2>4. CtxOf(i) \in has_graph
    BY <1>2, <2>1 DEF GraphsInv
  <2>5. At(i + 1)'
    BY <1>2, <1>3, <2>1, <2>3, <2>4, SubmitAt DEF outcomeVars
  <2> QED
    BY <1>12, <2>2, <2>5
<1>16. ASSUME Kind(i) = "then", ~OnGraph(i), At(i), is_submitted' = is_submitted
       PROVE  Quiet /\ Quiet' /\ \A x \in Context : ~Submits(x, i + 1)
  <2>1. \A x \in Context : CtxOf(i - 1) # x /\ CtxOf(i) # x
    BY <1>1, <1>2, <1>16, StageInside DEF OnGraph
  <2> QED
    BY <1>9, <1>16, <2>1 DEF At, Marks, Quiet
<1>17. CASE ValueHostStage(i)
  <2>1. /\ Calls("value", i, <<Call("value", i + 1)>>) /\ runs' = [runs EXCEPT ![i] = @ + 1]
        /\ UNCHANGED <<queue, is_submitted>> /\ Kind(i) = "then" /\ ~OnGraph(i)
    BY <1>1, <1>17 DEF ValueHostStage, contextVars, flagVars
  <2>2. LoneInv' /\ Pending = {Call("value", i)} /\ Pending' = {Call("value", i + 1)}
    BY <1>11, <2>1
  <2>3. At(i)
    BY <1>5, <1>10, <2>2
  <2>4. Quiet' /\ \A x \in Context : ~Submits(x, i + 1)
    BY <1>16, <2>1, <2>3
  <2>5. Counts(i + 1)'
    <3>1. \A k \in Stages : runs'[k] = IF k = i THEN runs[k] + 1 ELSE runs[k]
      BY <2>1 DEF HostTypeOK, Stages
    <3>2. i \notin GraphStages /\ Counts(i)
      BY <2>1, <2>3 DEF GraphStages, At
    <3> QED
      BY <1>2, <1>3, <2>1, <3>1, <3>2, CountsOn
  <2>6. At(i + 1)'
    BY <1>8, <2>4, <2>5 DEF At, Marks, Quiet
  <2> QED
    BY <1>12, <2>2, <2>6
<1>18. CASE ThrowHostStage(i)
  <2>1. /\ Calls("value", i, <<Call("error", i + 1)>>) /\ runs' = runs
        /\ UNCHANGED <<queue, is_submitted>> /\ Kind(i) = "then" /\ ~OnGraph(i)
    BY <1>1, <1>18 DEF ThrowHostStage, contextVars, flagVars
  <2>2. LoneInv' /\ Pending = {Call("value", i)} /\ Pending' = {Call("error", i + 1)}
    BY <1>11, <2>1
  <2>3. At(i)
    BY <1>5, <1>10, <2>2
  <2>4. Quiet'
    BY <1>16, <2>1, <2>3
  <2>5. Counts(i)'
    BY <1>2, <1>3, <2>1, <2>3, SameHost DEF At
  <2>6. Past'
    BY <1>1, <1>6, <2>4, <2>5 DEF Past
  <2>7. \A d \in Pending' : d.sig = "error"
    BY <1>10, <2>2
  <2> QED
    BY <1>2, <1>4, <2>2, <2>6, <2>7, RunHost
<1>19. CASE ValueContinuesOn(i)
  <2>1. /\ Calls("value", i, <<Call("value", i + 1)>>) /\ Kind(i) = "continues_on" /\ runs' = runs
        /\ IF OnGraph(i - 1) /\ ~SkipScheduleFrom(i) THEN Wait(CtxOf(i - 1)) ELSE UNCHANGED contextVars
    BY <1>1, <1>19 DEF ValueContinuesOn, outcomeVars
  <2>2. LoneInv' /\ Pending = {Call("value", i)} /\ Pending' = {Call("value", i + 1)}
    BY <1>11, <2>1
  <2>3. At(i)
    BY <1>5, <1>10, <2>2
  <2>4. queue' = queue
    BY <2>1 DEF Wait, contextVars
  <2>5. i \notin GraphStages /\ i \notin Stages
    BY <2>1 DEF GraphStages, Stages
  <2>6. Counts(i + 1)'
    <3>1. \A k \in Stages : runs'[k] = IF k = i THEN runs[k] + 1 ELSE runs[k]
      BY <2>1, <2>5
    <3> QED
      BY <1>2, <1>3, <2>3, <2>4, <2>5, <3>1, CountsOn DEF At
  <2>7. Marks(i + 1)'
    <3> SUFFICES ASSUME NEW x \in Context
                 PROVE  is_submitted'[x] <=> Submits(x, i + 1)
      BY <1>8 DEF Marks
    <3>1. Submits(x, i + 1) <=> Submits(x, i) /\ CtxOf(i) = x
      BY <1>9, <2>5
    <3>2. is_submitted[x] <=> Submits(x, i)
      BY <2>3 DEF At, Marks
    <3>3. Submits(x, i) => CtxOf(i - 1) = x /\ OnGraph(i - 1)
      BY <1>9 DEF OnGraph
    <3>4. OnGraph(i - 1) => (SkipScheduleFrom(i) <=> CtxOf(i) = CtxOf(i - 1))
      BY <1>1, <2>1, LeavesWaiting
    <3>5. CASE OnGraph(i - 1) /\ ~SkipScheduleFrom(i)
      <4>1. Wait(CtxOf(i - 1)) /\ is_submitted \in [Context -> BOOLEAN]
        BY <2>1, <3>5 DEF SenderInv, IInv, ContextTypeOK
      <4>2. is_submitted'[x] <=> is_submitted[x] /\ x # CtxOf(i - 1)
        BY <4>1 DEF Wait
      <4> QED
        BY <3>1, <3>2, <3>3, <3>4, <3>5, <4>2
    <3>6. CASE ~(OnGraph(i - 1) /\ ~SkipScheduleFrom(i))
      <4>1. is_submitted' = is_submitted
        BY <2>1, <3>6 DEF contextVars, flagVars
      <4> QED
        BY <3>1, <3>2, <3>3, <3>4, <3>6, <4>1
    <3> QED
      BY <3>5, <3>6
  <2> QED
    BY <1>12, <2>2, <2>6, <2>7 DEF At
<1>20. CASE Forwarded(i)
  <2>1. PICK sig \in {"error", "stopped"} : Calls(sig, i, <<Call(sig, i + 1)>>)
    BY <1>1, <1>20 DEF Forwarded
  <2>2. UNCHANGED <<queue, runs, is_submitted>>
    BY <1>20 DEF Forwarded, contextVars, flagVars, outcomeVars
  <2>3. LoneInv' /\ Step(sig, i, {Call(sig, i + 1)})
    <3>1. Call(sig, i + 1) \in CallRecord /\ (Call(sig, i + 1).sig = "error" \/ sig # "error")
      BY <1>1, <2>1 DEF Call
    <3> QED
      BY <1>2, <2>1, <3>1, LoneOne, StepOne
  <2>4. \A d \in Pending' : d.sig \in {"start", "value"} => d \in Pending
    BY <2>3 DEF Step, Call
  <2>5. \A d \in Pending : d.sig \in {"start", "value"} => d \in Pending'
    BY <2>1, <2>3 DEF Step, Call
  <2>6. \A p : (At(p)' <=> At(p)) /\ (Counts(p)' <=> Counts(p))
    BY <1>2, <1>3, <2>2, SameHost
  <2>7. \A d \in Pending' : (d.sig = "start" => At(1)') /\ (d.sig = "value" => At(d.op)')
    <3> SUFFICES ASSUME NEW d \in Pending', d.sig \in {"start", "value"}
                 PROVE  (d.sig = "start" => At(1)') /\ (d.sig = "value" => At(d.op)')
      OBVIOUS
    <3>1. d \in Pending
      BY <2>4
    <3> QED
      BY <1>5, <2>6, <3>1
  <2>8. Carrying => \E d \in Pending' : d.sig \in {"start", "value"}
    BY <2>5 DEF Carrying
  <2>9. ~Carrying => Past'
    <3>1. ~Carrying => Past
      BY <1>2 DEF HostInv
    <3>2. Past => Past'
      BY <1>2, <1>3, <1>6, <2>2, <2>6, SameHost DEF Past
    <3> QED
      BY <3>1, <3>2
  <2> QED
    BY <1>2, <1>4, <2>3, <2>7, <2>8, <2>9, RunHost
<1> QED
  BY <1>1, <1>13, <1>14, <1>15, <1>17, <1>18, <1>19, <1>20

-----------------------------------------------------------------------------
(***************************************************************************)
(* The consumer of a chain.                                                *)
(***************************************************************************)

\* Without a mark there is nothing on the device.
LEMMA QuietEmpty ==
  ASSUME IInv, Quiet
  PROVE  \A i : ~Left(i)
<1> SUFFICES ASSUME NEW e \in Exec, NEW n \in DOMAIN queue[e]
             PROVE  FALSE
  BY DEF Left
<1>1. queue[e] \in Seq(Launch)
  BY DEF IInv, ContextTypeOK
<1>2. queue[e][n].ctx \in Context
  <2>1. queue[e][n] \in Launch
    BY <1>1, ElementOfSeq
  <2> QED
    BY <2>1 DEF Launch
<1>3. is_submitted[queue[e][n].ctx]
  BY DEF IInv, LaunchInv
<1> QED
  BY <1>2, <1>3 DEF Quiet

\* When nothing failed and nothing is in flight, each stage has run in this round.
LEMMA AllRun ==
  ASSUME SenderInv, Chain, BuildInv, phase = "run", thrown = {}, Quiet, Counts(Final)
  PROVE  \A i \in Stages : runs[i] = iter
<1>1. sender \in Senders /\ IInv
  BY DEF SenderInv, ControlOK
<1> SUFFICES ASSUME NEW i \in Stages
             PROVE  Reached(i, Final) /\ ~Left(i)
  BY DEF Counts
<1>2. i \in Ops /\ i < Final
  <2>1. i \in Ops
    BY DEF Stages
  <2>2. Ops = 1 .. Outermost /\ Outermost \in Nat /\ Final = Outermost + 1
    BY <1>1, <2>1, Tree
  <2> QED
    BY <2>1, <2>2
<1>3. OnGraph(i) => i \in GraphStages /\ Built(i)
  BY DEF GraphStages, BuildInv, BuiltInv, Missing
<1>4. Reached(i, Final)
  BY <1>2, <1>3 DEF Reached
<1> QED
  BY <1>1, <1>4, QuietEmpty

\* A value that reaches the consumer as the only call comes after no failure.
LEMMA NothingThrown ==
  ASSUME SenderInv, HostTypeOK, ErrInv, ReportInv, Linear, phase = "run", result # "error",
         Pending = {Call("value", Final)}
  PROVE  thrown = {} /\ ~Broken
<1>1. sender \in Senders
  BY DEF SenderInv, ControlOK
<1>2. Forks = {}
  BY <1>1, LinearKinds DEF Forks
<1>3. ASSUME NEW i \in thrown
      PROVE  FALSE
  <2>1. ~InFork(i)
    BY <1>2 DEF InFork
  <2>2. Reported(i)
    BY <2>1 DEF ReportInv
  <2>3. \A c \in Pending : c.sig = "value"
    BY DEF Call
  <2>4. \A c \in Pending : ~Starts(c, i)
    BY <1>2, <2>3 DEF Starts
  <2> QED
    BY <2>2, <2>3, <2>4 DEF Reported
<1>4. thrown = {}
  BY <1>3
<1> QED
  BY <1>4 DEF ErrInv, Broken

\* What the consumer of a chain receives.
LEMMA CompletionHost ==
  ASSUME SenderInv, HostTypeOK, StackInv, OnceInv, ErrInv, ReportInv, Chain, BuildInv, HostInv,
         Complete \/ CompleteWithError \/ CompleteStopped \/ Repeat \/ Return
  PROVE  HostInv'
<1>1. sender \in Senders /\ Linear /\ LoneInv /\ IInv
  BY DEF SenderInv, ControlOK, Chain, HostInv
<1>2. /\ Outermost \in Ops /\ Outermost \in Nat /\ Final = Outermost + 1 /\ Ops = 1 .. Outermost
      /\ Final \in 1 .. Final /\ 1 \in 1 .. Final
  <2>1. Outermost \in Nat \ {0} /\ Ops = 1 .. Outermost
    BY <1>1, Shape DEF Outermost
  <2> QED
    BY <2>1 DEF Final, Outermost
<1>3. phase = "run" /\ sender' = sender /\ UNCHANGED <<nodes, queue, runs, thrown>>
  BY DEF Complete, CompleteWithError, CompleteStopped, Repeat, Return, Calls, Nothing, outcomeVars,
         contextVars, Wait, graphVars
<1>4. Final' = Final
  BY <1>3, SameTree
<1>5. ASSUME UNCHANGED <<iter, is_submitted>>
      PROVE  (\A p : At(p)' <=> At(p)) /\ (Past => Past')
  <2>1. (Quiet' <=> Quiet) /\ \A p : (At(p)' <=> At(p)) /\ (Counts(p)' <=> Counts(p))
    BY <1>3, <1>5, SameHost
  <2> QED
    BY <1>4, <2>1 DEF Past
<1>6. At(Final) => \A x \in Context : is_submitted[x] => CtxOf(Outermost) = x
  BY <1>1, <1>2, SubmitsOn DEF At, Marks
<1>7. \A sig : Call(sig, Final).sig = sig /\ Call(sig, Final).op = Final
  BY DEF Call
<1>8. CASE Complete
  <2>1. /\ iter = sender.rounds \/ completions > 0
        /\ Calls("value", Final, <<>>) /\ iter' = iter /\ phase' = "run" /\ calls # <<>>
        /\ IF OnGraph(Outermost) THEN Wait(CtxOf(Outermost)) ELSE UNCHANGED contextVars
        /\ result' = IF result = "error" THEN result ELSE "value"
    BY <1>3, <1>8 DEF Complete, Receives, Calls
  <2>2. LoneInv' /\ Pending = {Call("value", Final)} /\ Pending' = {} /\ calls' = <<>>
    BY <1>1, <2>1, LoneNone
  <2>3. At(Final)
    BY <1>3, <1>7, <2>2 DEF HostInv
  <2>4. Quiet'
    <3> SUFFICES ASSUME NEW x \in Context
                 PROVE  ~is_submitted'[x]
      BY DEF Quiet
    <3>1. is_submitted[x] => CtxOf(Outermost) = x
      BY <1>6, <2>3
    <3>2. CASE OnGraph(Outermost)
      <4>1. Wait(CtxOf(Outermost)) /\ is_submitted \in [Context -> BOOLEAN]
        BY <1>1, <2>1, <3>2 DEF IInv, ContextTypeOK
      <4>2. is_submitted'[x] => is_submitted[x] /\ x # CtxOf(Outermost)
        BY <4>1 DEF Wait
      <4> QED
        BY <3>1, <4>2
    <3>3. CASE ~OnGraph(Outermost)
      <4>1. is_submitted' = is_submitted
        BY <2>1, <3>3 DEF contextVars, flagVars
      <4> QED
        BY <3>1, <3>3, <4>1 DEF OnGraph
    <3> QED
      BY <3>2, <3>3
  <2>5. Counts(Final)'
    <3>1. \A p : Counts(p)' <=> Counts(p)
      BY <1>3, <2>1, SameHost
    <3>2. Counts(Final) <=> Counts(Final)'
      BY <1>4, <3>1 DEF Counts, Reached
    <3> QED
      BY <2>3, <3>2 DEF At
  <2>6. Past'
    BY <1>2, <1>4, <2>4, <2>5 DEF Past
  <2>7. result' = "value" => thrown' = {} /\ iter' = sender'.rounds
    <3> SUFFICES ASSUME result' = "value"
                 PROVE  thrown' = {} /\ iter' = sender'.rounds
      OBVIOUS
    <3>1. result # "error"
      BY <2>1
    <3>2. thrown = {} /\ ~Broken
      BY <1>1, <1>3, <2>2, <3>1, NothingThrown
    <3>3. completions = 0
      BY <2>1, <3>2 DEF OnceInv
    <3> QED
      BY <1>3, <2>1, <3>2, <3>3
  <2>8. \A d \in Pending' : FALSE
    BY <2>2
  <2> QED
    BY <2>1, <2>2, <2>5, <2>6, <2>7, <2>8 DEF HostInv
<1>9. CASE CompleteWithError
  <2>1. /\ Calls("error", Final, <<>>) /\ iter' = iter /\ phase' = "run" /\ is_submitted' = is_submitted
        /\ result' = "error"
    BY <1>3, <1>9 DEF CompleteWithError, Receives, Calls, contextVars, flagVars
  <2>2. LoneInv' /\ Step("error", Final, {})
    BY <1>1, <2>1, LoneNone, StepNone
  <2>3. /\ \A d \in Pending' : d \in Pending
        /\ \A d \in Pending : d.sig \in {"start", "value"} => d \in Pending'
    BY <1>7, <2>2 DEF Step
  <2>4. \A d \in Pending' : (d.sig = "start" => At(1)') /\ (d.sig = "value" => At(d.op)')
    BY <1>3, <1>5, <2>1, <2>3 DEF HostInv
  <2>5. Carrying => \E d \in Pending' : d.sig \in {"start", "value"}
    BY <2>3 DEF Carrying
  <2>6. ~Carrying => Past'
    BY <1>3, <1>5, <2>1 DEF HostInv
  <2> QED
    BY <2>1, <2>2, <2>4, <2>5, <2>6 DEF HostInv, Carrying
<1>10. CASE CompleteStopped
  <2>1. /\ Calls("stopped", Final, <<>>) /\ iter' = iter /\ phase' = "run" /\ is_submitted' = is_submitted
        /\ result' \in {"error", "stopped"}
    BY <1>3, <1>10 DEF CompleteStopped, Receives, Calls, contextVars, flagVars
  <2>2. LoneInv' /\ Pending = {Call("stopped", Final)} /\ Pending' = {}
    BY <1>1, <2>1, LoneNone
  <2>3. ~Carrying
    BY <1>7, <2>2 DEF Carrying
  <2>4. Past'
    BY <1>3, <1>5, <2>1, <2>3 DEF HostInv
  <2> QED
    BY <2>1, <2>2, <2>4 DEF HostInv
<1>11. CASE Repeat
  <2>1. /\ calls = <<Call("value", Final)>> /\ iter < sender.rounds /\ completions = 0 /\ phase' = "connect"
        /\ iter' = iter + 1 /\ calls' = <<>> /\ UNCHANGED <<is_submitted, result>>
    BY <1>11 DEF Repeat, Nothing, contextVars, flagVars, outcomeVars
  <2>2. Pending = {Call("value", Final)}
    BY <2>1 DEF Pending
  <2>3. At(Final)
    BY <1>3, <1>7, <2>2 DEF HostInv
  <2>4. result = "none"
    BY <2>1 DEF ReportInv
  <2>5. thrown = {}
    BY <1>1, <1>3, <2>2, <2>4, NothingThrown
  <2>6. sender.rounds > 1 /\ iter \in Nat
    <3>1. iter \in 1 .. sender.rounds /\ sender.rounds \in Nat
      BY <1>1, Shape DEF SenderInv, ControlOK
    <3> QED
      BY <2>1, <3>1
  <2>7. CtxOf(Outermost) \notin Context
    BY <1>1, <2>6, SenderAssumption DEF CtxOf, Outermost
  <2>8. Quiet
    BY <1>6, <2>3, <2>7 DEF Quiet
  <2>9. \A i \in Stages : runs[i] = iter
    BY <1>3, <2>3, <2>5, <2>8, AllRun DEF At
  <2>10. At(1)'
    <3>1. \A i \in Stages : runs'[i] = iter' - 1
      BY <1>3, <2>1, <2>6, <2>9
    <3>2. Quiet'
      BY <2>1, <2>8 DEF Quiet
    <3> QED
      BY <1>3, <3>1, <3>2, FirstAgain
  <2>11. LoneInv'
    BY <2>1 DEF LoneInv
  <2> QED
    BY <2>1, <2>4, <2>10, <2>11 DEF HostInv
<1>12. CASE Return
  <2>1. /\ calls = <<>> /\ UNCHANGED <<iter, is_submitted, calls, result>>
    BY <1>12 DEF Return, Nothing, contextVars, flagVars, outcomeVars
  <2>2. phase' \in {"threw", "returned", "stopped"}
    BY <1>12, ReturnOutcome
  <2>3. Past'
    BY <1>3, <1>5, <2>1 DEF HostInv, Carrying, Pending
  <2>4. LoneInv'
    BY <2>1 DEF LoneInv
  <2> QED
    BY <2>2, <2>3, <2>4 DEF HostInv
<1> QED
  BY <1>8, <1>9, <1>10, <1>11, <1>12

-----------------------------------------------------------------------------
(***************************************************************************)
(* Connection and the device.                                              *)
(***************************************************************************)

\* Connecting a chain runs nothing.
LEMMA ConnectHost ==
  ASSUME SenderInv, HostTypeOK, StackInv, GraphsInv, HostInv, Connect
  PROVE  HostInv'
<1>1. UNCHANGED <<queue, is_submitted>>
  BY ConnectGraphs
<1> PICK i \in Ops : \/ ConnectPlain(i) \/ ConnectThen(i) \/ ConnectThenThrows(i)
                     \/ ConnectThenWithoutNode(i) \/ ConnectContinuesOn(i) \/ ConnectFork(i)
                     \/ ConnectWhenAll(i) \/ ConnectForkJoin(i) \/ ConnectAborts(i)
  BY DEF Connect
<1>2. CASE ConnectAborts(i)
  <2>1. /\ UNCHANGED <<sender, iter, calls, runs>> /\ phase = "connect" /\ phase' = "aborted"
    BY <1>2, Zenon DEF ConnectAborts, outcomeVars
  <2>2. At(1)'
    BY <1>1, <2>1, FirstAgain DEF HostInv
  <2>3. LoneInv'
    BY <2>1 DEF HostInv, LoneInv
  <2> QED
    BY <2>1, <2>2, <2>3 DEF HostInv
<1>3. CASE ~ConnectAborts(i)
  <2>1. \E kinds : Connecting(i, kinds)
    BY <1>3 DEF ConnectPlain, ConnectThen, ConnectThenThrows, ConnectThenWithoutNode,
           ConnectContinuesOn, ConnectFork, ConnectWhenAll, ConnectForkJoin
  <2>2. /\ phase = "connect" /\ UNCHANGED <<sender, iter>>
        /\ \/ phase' = "connect" /\ calls' = <<>>
           \/ phase' = "run" /\ calls' = <<Call("start", i)>>
    BY <2>1 DEF Connecting, Call
  <2>3. UNCHANGED <<runs, result>>
    BY <1>3 DEF ConnectPlain, ConnectThen, ConnectThenThrows, ConnectThenWithoutNode,
           ConnectContinuesOn, ConnectFork, ConnectWhenAll, ConnectForkJoin, outcomeVars
  <2>4. At(1)' /\ result = "none"
    BY <1>1, <2>2, <2>3, FirstAgain DEF HostInv
  <2>5. CASE phase' = "connect" /\ calls' = <<>>
    BY <2>3, <2>4, <2>5 DEF HostInv, LoneInv
  <2>6. CASE phase' = "run" /\ calls' = <<Call("start", i)>>
    <3>1. Pending' = {Call("start", i)} /\ Call("start", i).sig = "start"
      BY <2>6 DEF Pending, Call
    <3>2. LoneInv'
      BY <2>6 DEF LoneInv
    <3> QED
      BY <2>3, <2>4, <2>6, <3>1, <3>2 DEF HostInv, Carrying
  <2> QED
    BY <2>2, <2>5, <2>6
<1> QED
  BY <1>2, <1>3

\* Running a node adds it to what the oldest launch of its stream has run.
LEMMA RunQueue ==
  ASSUME IInv, NEW e \in Exec, NEW n, RunNode(e, n)
  PROVE  /\ 1 \in DOMAIN queue[e] /\ queue[e][1] \in Launch
         /\ n \in instance[queue[e][1].ctx] /\ n \notin queue[e][1].done /\ dep[n] \subseteq queue[e][1].done
         /\ \A f \in Exec : DOMAIN queue'[f] = DOMAIN queue[f] /\ \A j \in DOMAIN queue[f] :
              /\ queue'[f][j].ctx = queue[f][j].ctx
              /\ queue'[f][j].done = IF f = e /\ j = 1 THEN queue[f][j].done \cup {n} ELSE queue[f][j].done
<1> DEFINE l == queue[e][1]
           ran == [l EXCEPT !.done = @ \cup {n}]
<1>1. queue[e] \in Seq(Launch) /\ 1 \in DOMAIN queue[e] /\ Head(queue[e]) = l /\ l \in Launch
  BY HeadElement DEF RunNode, IInv, ContextTypeOK
<1>2. /\ n \in instance[l.ctx] /\ n \notin l.done
      /\ dep[n] \subseteq l.done
      /\ queue' = [queue EXCEPT ![e] = [@ EXCEPT ![1] = ran]]
  BY <1>1 DEF RunNode
<1>3. ran.ctx = l.ctx /\ ran.done = l.done \cup {n}
  BY <1>1 DEF Launch
<1>4. queue'[e] = [queue[e] EXCEPT ![1] = ran] /\ \A f \in Exec : f # e => queue'[f] = queue[f]
  BY <1>2 DEF IInv, ContextTypeOK
<1> HIDE DEF l, ran
<1>5. /\ DOMAIN queue'[e] = DOMAIN queue[e]
      /\ \A j \in DOMAIN queue[e] : queue'[e][j] = IF j = 1 THEN ran ELSE queue[e][j]
  BY <1>1, <1>4
<1>6. ASSUME NEW f \in Exec
      PROVE  DOMAIN queue'[f] = DOMAIN queue[f] /\ \A j \in DOMAIN queue[f] :
               /\ queue'[f][j].ctx = queue[f][j].ctx
               /\ queue'[f][j].done = IF f = e /\ j = 1 THEN queue[f][j].done \cup {n} ELSE queue[f][j].done
  <2>1. CASE f = e
    BY <1>3, <1>5, <2>1 DEF l
  <2>2. CASE f # e
    BY <1>4, <2>2
  <2> QED
    BY <2>1, <2>2
<1> QED
  BY <1>1, <1>2, <1>6 DEF l

\* Retiring a launch removes it, and nothing else.
LEMMA RetireQueue ==
  ASSUME IInv, NEW e \in Exec, Retire(e)
  PROVE  /\ 1 \in DOMAIN queue[e] /\ queue[e][1] \in Launch
         /\ queue[e][1].done = instance[queue[e][1].ctx]
         /\ \A f \in Exec : \A j \in DOMAIN queue'[f] : \E m \in DOMAIN queue[f] : queue'[f][j] = queue[f][m]
         /\ \A f \in Exec : \A m \in DOMAIN queue[f] :
              (f = e /\ m = 1) \/ \E j \in DOMAIN queue'[f] : queue'[f][j] = queue[f][m]
<1>1. /\ queue[e] \in Seq(Launch) /\ queue[e] # <<>>
      /\ queue' = [queue EXCEPT ![e] = Tail(queue[e])]
      /\ Head(queue[e]).done = instance[Head(queue[e]).ctx]
  BY DEF Retire, IInv, ContextTypeOK
<1>2. 1 \in DOMAIN queue[e] /\ Head(queue[e]) = queue[e][1] /\ queue[e][1] \in Launch
  BY <1>1, HeadElement
<1>3. queue'[e] = Tail(queue[e]) /\ \A f \in Exec : f # e => queue'[f] = queue[f]
  BY <1>1 DEF IInv, ContextTypeOK
<1>4. /\ Tail(queue[e]) \in Seq(Launch) /\ Len(Tail(queue[e])) = Len(queue[e]) - 1
      /\ \A k \in 1 .. Len(Tail(queue[e])) : Tail(queue[e])[k] = queue[e][k + 1]
      /\ DOMAIN queue[e] = 1 .. Len(queue[e]) /\ DOMAIN Tail(queue[e]) = 1 .. Len(Tail(queue[e]))
      /\ Len(queue[e]) \in Nat
  <2>1. Tail(queue[e]) \in Seq(Launch) /\ Len(Tail(queue[e])) = Len(queue[e]) - 1
        /\ \A k \in 1 .. Len(Tail(queue[e])) : Tail(queue[e])[k] = queue[e][k + 1]
    BY <1>1, HeadTailProperties
  <2> QED
    BY <1>1, <2>1, LenProperties
<1>5. \A j \in DOMAIN queue'[e] : \E m \in DOMAIN queue[e] : queue'[e][j] = queue[e][m]
  <2> TAKE j \in DOMAIN queue'[e]
  <2>1. j + 1 \in DOMAIN queue[e] /\ queue'[e][j] = queue[e][j + 1]
    BY <1>3, <1>4
  <2> QED
    BY <2>1
<1>6. \A m \in DOMAIN queue[e] : m = 1 \/ \E j \in DOMAIN queue'[e] : queue'[e][j] = queue[e][m]
  <2> TAKE m \in DOMAIN queue[e]
  <2>1. m # 1 => /\ m - 1 \in 1 .. Len(Tail(queue[e])) /\ (m - 1) + 1 = m
    BY <1>4
  <2>2. m # 1 => m - 1 \in DOMAIN queue'[e] /\ queue'[e][m - 1] = queue[e][m]
    BY <1>3, <1>4, <2>1
  <2> QED
    BY <2>2
<1> QED
  BY <1>1, <1>2, <1>3, <1>5, <1>6

\* What the device does while a value travels along a chain.
LEMMA DeviceCounts ==
  ASSUME SenderInv, HostTypeOK, RoundInv, Chain, BuildInv, NEW p \in 1 .. Final, At(p),
         NEW e \in Exec, StreamStep(e)
  PROVE  At(p)'
<1>1. /\ sender \in Senders /\ Linear /\ IInv /\ iter \in Nat /\ iter > 0
      /\ UNCHANGED <<sender, iter, nodes, is_submitted, instance>>
  <2>1. sender \in Senders /\ Linear /\ IInv /\ iter \in Nat /\ iter > 0
    BY Shape DEF SenderInv, ControlOK, Chain
  <2>2. UNCHANGED <<sender, iter, nodes, is_submitted, instance>>
    BY DEF StreamStep, RetireLaunch, RunFunctor, Retire, RunNode, controlVars, graphVars, flagVars
  <2> QED
    BY <2>1, <2>2
<1>2. /\ GraphStages' = GraphStages /\ Stages' = Stages
      /\ \A k : /\ Start(k)' = Start(k) /\ Home(k)' = Home(k) /\ CtxOf(k)' = CtxOf(k)
                /\ OnGraph(k)' <=> OnGraph(k)
  BY <1>1, SameChain
<1>3. (\A k : Built(k)' <=> Built(k)) /\ (\A k : Reached(k, p)' <=> Reached(k, p)) /\ Marks(p)'
  <2>1. \A k : Built(k)' <=> Built(k)
    BY <1>1, <1>2 DEF Built
  <2>2. \A k : Reached(k, p)' <=> Reached(k, p)
    BY <1>2, <2>1 DEF Reached
  <2>3. \A x : Submits(x, p)' <=> Submits(x, p)
    BY <1>2 DEF Submits
  <2> QED
    BY <1>1, <2>1, <2>2, <2>3 DEF At, Marks
<1>4. \A k \in GraphStages : k \in Queryable /\ k \in Stages /\ OnGraph(k) /\ Home(k) \in Context
  BY <1>1, Segment DEF GraphStages, Stages, Queryable
<1>5. ASSUME NEW f \in Exec, NEW j \in DOMAIN queue[f]
      PROVE  /\ queue[f][j] \in Launch /\ queue[f][j].ctx \in Context
             /\ ExecOf[queue[f][j].ctx] = f
             /\ is_submitted[queue[f][j].ctx]
             /\ instance[queue[f][j].ctx] = nodes[queue[f][j].ctx]
             /\ \A m \in DOMAIN queue[f] : queue[f][m].ctx = queue[f][j].ctx => m = j
  <2>1. queue[f] \in Seq(Launch)
    BY <1>1 DEF IInv, ContextTypeOK
  <2>2. queue[f][j] \in Launch
    BY <2>1, ElementOfSeq
  <2>3. queue[f][j].ctx \in Context
    BY <2>2 DEF Launch
  <2>4. /\ ExecOf[queue[f][j].ctx] = f
        /\ is_submitted[queue[f][j].ctx]
        /\ \A m \in DOMAIN queue[f] : queue[f][m].ctx = queue[f][j].ctx => m = j
    BY <1>1 DEF IInv, LaunchInv
  <2> QED
    BY <2>2, <2>3, <2>4 DEF RoundInv, BuildInv
<1>6. CASE RetireLaunch(e)
  <2>1. Retire(e) /\ runs' = runs
    BY <1>6 DEF RetireLaunch, outcomeVars
  <2>2. /\ 1 \in DOMAIN queue[e] /\ queue[e][1].done = nodes[queue[e][1].ctx]
        /\ \A f \in Exec : \A j \in DOMAIN queue'[f] : \E m \in DOMAIN queue[f] : queue'[f][j] = queue[f][m]
        /\ \A f \in Exec : \A m \in DOMAIN queue[f] :
              (f = e /\ m = 1) \/ \E j \in DOMAIN queue'[f] : queue'[f][j] = queue[f][m]
    BY <1>1, <1>5, <2>1, RetireQueue
  <2>3. ASSUME NEW k \in GraphStages, Built(k)
        PROVE  Left(k)' <=> Left(k)
    <3>1. Left(k)' => Left(k)
      BY <1>2, <2>2 DEF Left
    <3>2. Left(k) => Left(k)'
      <4> SUFFICES ASSUME NEW f \in Exec, NEW m \in DOMAIN queue[f], queue[f][m].ctx = Home(k),
                          <<k, 1>> \notin queue[f][m].done
                   PROVE  \E j \in DOMAIN queue'[f] : queue'[f][j] = queue[f][m]
        BY <1>2 DEF Left
      <4>1. ~(f = e /\ m = 1)
        BY <2>2, <2>3 DEF Built
      <4> QED
        BY <2>2, <4>1
    <3> QED
      BY <3>1, <3>2
  <2>4. ASSUME NEW k \in Stages
        PROVE  (Reached(k, p) /\ (OnGraph(k) => ~Left(k)')) <=> (Reached(k, p) /\ (OnGraph(k) => ~Left(k)))
    <3>1. OnGraph(k) /\ Reached(k, p) => k \in GraphStages /\ Built(k)
      BY DEF Reached, GraphStages
    <3> QED
      BY <2>3, <3>1
  <2>5. Counts(p)'
    BY <1>1, <1>2, <1>3, <2>1, <2>4 DEF At, Counts
  <2> QED
    BY <1>3, <2>5 DEF At
<1>7. CASE \E n \in Node : RunFunctor(e, n)
  <2>1. PICK n \in Node : RunNode(e, n) /\ runs' = IF n[1] \in Stages THEN [runs EXCEPT ![n[1]] = @ + 1] ELSE runs
    BY <1>7 DEF RunFunctor
  <2>2. /\ 1 \in DOMAIN queue[e] /\ n \in nodes[queue[e][1].ctx] /\ n \notin queue[e][1].done
        /\ \A f \in Exec : DOMAIN queue'[f] = DOMAIN queue[f] /\ \A j \in DOMAIN queue[f] :
              /\ queue'[f][j].ctx = queue[f][j].ctx
              /\ queue'[f][j].done = IF f = e /\ j = 1 THEN queue[f][j].done \cup {n} ELSE queue[f][j].done
    <3>1. RunNode(e, n) /\ IInv
      BY <1>1, <2>1
    <3>2. /\ 1 \in DOMAIN queue[e] /\ n \in instance[queue[e][1].ctx] /\ n \notin queue[e][1].done
          /\ \A f \in Exec : DOMAIN queue'[f] = DOMAIN queue[f] /\ \A j \in DOMAIN queue[f] :
              /\ queue'[f][j].ctx = queue[f][j].ctx
              /\ queue'[f][j].done = IF f = e /\ j = 1 THEN queue[f][j].done \cup {n} ELSE queue[f][j].done
      BY <3>1, RunQueue
    <3>3. instance[queue[e][1].ctx] = nodes[queue[e][1].ctx]
      BY <1>5, <3>2
    <3> QED
      BY <3>2, <3>3
  <2>0. ASSUME NEW k
        PROVE  Left(k)' <=> \E f \in Exec : \E j \in DOMAIN queue[f] :
                              queue[f][j].ctx = Home(k) /\ <<k, 1>> \notin queue'[f][j].done
    <3>1. Left(k)' <=> \E f \in Exec : \E j \in DOMAIN queue'[f] :
                         queue'[f][j].ctx = Home(k) /\ <<k, 1>> \notin queue'[f][j].done
      BY <1>2 DEF Left
    <3>2. ASSUME NEW f \in Exec
          PROVE  (\E j \in DOMAIN queue'[f] : queue'[f][j].ctx = Home(k) /\ <<k, 1>> \notin queue'[f][j].done)
             <=> \E j \in DOMAIN queue[f] : queue[f][j].ctx = Home(k) /\ <<k, 1>> \notin queue'[f][j].done
      BY <2>2
    <3> QED
      BY <3>1, <3>2
  <2>3. PICK i \in GraphStages : n = <<i, 1>> /\ Home(i) = queue[e][1].ctx
    BY <1>5, <2>2 DEF BuildInv, NodesInv
  <2>4. i \in Stages /\ OnGraph(i) /\ runs' = [runs EXCEPT ![i] = @ + 1] /\ Built(i) /\ Left(i)
    <3>1. i \in Stages /\ OnGraph(i) /\ n[1] = i
      BY <1>4, <2>3
    <3> QED
      BY <2>1, <2>2, <2>3, <3>1 DEF Built, Left
  <2>5. Reached(i, p)
    <3>1. Submits(Home(i), p)
      BY <1>4, <1>5, <2>2, <2>3 DEF At, Marks
    <3>2. PICK j \in GraphStages : j < p /\ \A m \in j .. p - 1 : CtxOf(m) = Home(i)
      BY <3>1 DEF Submits
    <3>3. j \in j .. p - 1
      <4>1. j \in Ops
        BY DEF GraphStages, Stages
      <4>2. j \in Nat /\ p \in Nat
        <5>1. Ops = 1 .. Outermost /\ Outermost \in Nat /\ Final = Outermost + 1
          BY <1>1, <4>1, Tree
        <5> QED
          BY <4>1, <5>1
      <4> QED
        BY <3>2, <4>2
    <3>4. Start(j) = Start(i)
      BY <1>1, <1>4, <3>2, <3>3, HomeUnique
    <3> QED
      BY <2>4, <3>2, <3>4 DEF Reached
  <2>6. ~Left(i)'
    <3> SUFFICES ASSUME NEW f \in Exec, NEW j \in DOMAIN queue[f], queue[f][j].ctx = Home(i)
                 PROVE  <<i, 1>> \in queue'[f][j].done
      BY <2>0
    <3>1. f = e /\ j = 1
      BY <1>5, <2>2, <2>3
    <3> QED
      BY <2>2, <2>3, <3>1
  <2>7. ASSUME NEW k, k # i
        PROVE  Left(k)' <=> Left(k)
    <3>1. <<k, 1>> # n
      BY <2>3, <2>7
    <3>2. \A f \in Exec : \A j \in DOMAIN queue[f] :
            <<k, 1>> \in queue'[f][j].done <=> <<k, 1>> \in queue[f][j].done
      <4> TAKE f \in Exec
      <4> TAKE j \in DOMAIN queue[f]
      <4>1. queue'[f][j].done = queue[f][j].done \/ queue'[f][j].done = queue[f][j].done \cup {n}
        BY <2>2
      <4> QED
        BY <3>1, <4>1
    <3> QED
      BY <2>0, <3>2 DEF Left
  <2>8. runs[i] = iter - 1 /\ \A k \in Stages : runs'[k] = IF k = i THEN runs[k] + 1 ELSE runs[k]
    BY <2>4 DEF At, Counts, HostTypeOK, Stages
  <2>9. ASSUME NEW k \in Stages
        PROVE  runs'[k] = IF Reached(k, p)' /\ (OnGraph(k)' => ~Left(k)') THEN iter' ELSE iter' - 1
    <3>1. CASE k = i
      BY <1>1, <1>2, <1>3, <2>5, <2>6, <2>8, <3>1
    <3>2. CASE k # i
      <4>1. runs'[k] = runs[k] /\ (Left(k)' <=> Left(k))
        BY <2>7, <2>8, <3>2
      <4>2. runs[k] = IF Reached(k, p) /\ (OnGraph(k) => ~Left(k)) THEN iter ELSE iter - 1
        BY DEF At, Counts
      <4> QED
        BY <1>1, <1>2, <1>3, <4>1, <4>2
    <3> QED
      BY <3>1, <3>2
  <2>10. Counts(p)'
    BY <1>2, <2>9 DEF Counts
  <2> QED
    BY <1>3, <2>10 DEF At
<1> QED
  BY <1>6, <1>7 DEF StreamStep

LEMMA DeviceHost ==
  ASSUME SenderInv, HostTypeOK, RoundInv, Chain, BuildInv, HostInv, NEW e \in Exec, StreamStep(e)
  PROVE  HostInv'
<1>1. UNCHANGED <<sender, phase, iter, calls, result, thrown, is_submitted>> /\ IInv
  BY DEF StreamStep, RetireLaunch, RunFunctor, Retire, RunNode, controlVars, outcomeVars, flagVars, SenderInv
<1>2. ~Quiet
  <2>1. queue[e] # <<>> /\ queue[e] \in Seq(Launch)
    BY <1>1 DEF StreamStep, RetireLaunch, RunFunctor, Retire, RunNode, IInv, ContextTypeOK
  <2>2. 1 \in DOMAIN queue[e] /\ queue[e][1] \in Launch
    BY <2>1, HeadElement
  <2>3. queue[e][1].ctx \in Context
    BY <2>2 DEF Launch
  <2>4. is_submitted[queue[e][1].ctx]
    BY <1>1, <2>2 DEF IInv, LaunchInv
  <2> QED
    BY <2>3, <2>4 DEF Quiet
<1>3. ~At(1) /\ ~Past
  BY <1>2, AtFirst DEF At, Past
<1>4. phase = "run" /\ Carrying
  BY <1>3 DEF HostInv, HostTypeOK
<1>5. \A d \in Pending : d.sig # "start" /\ (d.sig = "value" => At(d.op))
  BY <1>3, <1>4 DEF HostInv
<1>6. calls # <<>>
  BY <1>4 DEF Carrying, Pending
<1>7. result # "value"
  BY <1>4, <1>6 DEF HostInv
<1>8. LoneInv' /\ Pending' = Pending
  BY <1>1 DEF HostInv, LoneInv, Pending
<1>9. \A d \in Pending' : d.sig # "start" /\ (d.sig = "value" => At(d.op)')
  <2> SUFFICES ASSUME NEW d \in Pending, d.sig = "value"
               PROVE  At(d.op)'
    BY <1>5, <1>8
  <2>1. d.op \in 1 .. Final
    <3>1. PICK n \in DOMAIN calls : d = calls[n]
      BY DEF Pending
    <3>2. d \in CallRecord
      BY <3>1, ElementOfSeq DEF HostTypeOK
    <3> QED
      BY <3>2 DEF CallRecord
  <2>2. At(d.op)
    BY <1>5
  <2> QED
    BY <2>1, <2>2, DeviceCounts
<1> QED
  BY <1>1, <1>4, <1>7, <1>8, <1>9, RunHost DEF Carrying

-----------------------------------------------------------------------------
(***************************************************************************)
(* Both invariants hold of every orderly chain.                            *)
(***************************************************************************)

\* What leaves the graphs alone keeps what they are.
LEMMA KeepsBuild ==
  ASSUME BuildInv, UNCHANGED <<sender, nodes, dep>>, phase' # "aborted" => phase # "aborted",
         \/ UNCHANGED <<phase, cursor, anchor, iter>>
         \/ phase = "run" /\ (phase' = "connect" => iter' # 1),
         \A k \in GraphStages : Missing(k) => Missing(k)',
         \A c \in Context : is_instantiated'[c] => instance'[c] = nodes[c]
  PROVE  BuildInv'
<1>1. /\ GraphStages' = GraphStages /\ Ops' = Ops /\ Queryable' = Queryable
      /\ \A i : Start(i)' = Start(i) /\ Home(i)' = Home(i)
      /\ \A a, p : Dep(a, p)' = Dep(a, p)
  BY SameChain
<1>2. \A i : Built(i)' <=> Built(i)
  BY <1>1 DEF Built
<1>3. NodesInv'
  BY SameNodes DEF BuildInv
<1>4. AnswersInv'
  <2>1. CASE UNCHANGED <<phase, cursor, anchor, iter>>
    BY <1>1, <2>1 DEF BuildInv, AnswersInv, GoodNode
  <2>2. CASE phase = "run" /\ (phase' = "connect" => iter' # 1)
    BY <2>2 DEF AnswersInv
  <2> QED
    BY <2>1, <2>2
<1>5. BuiltInv'
  <2> SUFFICES ASSUME phase' # "aborted", NEW i \in GraphStages,
                      phase' = "connect" /\ iter' = 1 => i < cursor'
               PROVE  Built(i)' \/ Missing(i)'
    BY <1>1 DEF BuiltInv
  <2>1. phase = "connect" /\ iter = 1 => i < cursor
    OBVIOUS
  <2>2. Built(i) \/ Missing(i)
    BY <2>1 DEF BuildInv, BuiltInv
  <2> QED
    BY <1>2, <2>2
<1> QED
  BY <1>3, <1>4, <1>5 DEF BuildInv

\* What is instantiated is all of the graph, at once and for good.
LEMMA Instantiates ==
  ASSUME IInv, BuildInv, UNCHANGED contextVars \/ (\E c : Submit(c)) \/ (\E c : Wait(c))
  PROVE  /\ UNCHANGED <<nodes, dep>>
         /\ \A x \in Context : is_instantiated'[x] => instance'[x] = nodes[x]
<1> USE DEF contextVars, graphVars, flagVars
<1>1. \A x \in Context : is_instantiated[x] => instance[x] = nodes[x]
  BY DEF BuildInv
<1>2. CASE UNCHANGED <<nodes, dep, is_instantiated, instance>>
  BY <1>1, <1>2
<1>3. ASSUME NEW c, Launched(c, ~is_instantiated[c]), UNCHANGED <<nodes, dep>>
      PROVE  \A x \in Context : is_instantiated'[x] => instance'[x] = nodes[x]
  <2> TAKE x \in Context
  <2>1. /\ is_instantiated \in [Context -> BOOLEAN] /\ instance \in [Context -> SUBSET Node]
    BY DEF IInv, ContextTypeOK
  <2>2. CASE x = c
    <3>1. instance'[x] = IF ~is_instantiated[x] THEN nodes[x] ELSE instance[x]
      BY <1>3, <2>1, <2>2 DEF Launched
    <3> QED
      BY <1>1, <3>1
  <2>3. CASE x # c
    <3>1. instance'[x] = instance[x] /\ is_instantiated'[x] = is_instantiated[x]
      BY <1>3, <2>1, <2>3 DEF Launched
    <3> QED
      BY <1>1, <3>1
  <2> QED
    BY <2>2, <2>3
<1>4. ASSUME NEW c, Submit(c)
      PROVE  /\ UNCHANGED <<nodes, dep>>
             /\ \A x \in Context : is_instantiated'[x] => instance'[x] = nodes[x]
  <2>1. UNCHANGED <<nodes, dep>>
    BY <1>4 DEF Submit
  <2>2. Launched(c, ~is_instantiated[c]) \/ UNCHANGED <<is_instantiated, instance>>
    BY <1>4 DEF Submit
  <2> QED
    BY <1>2, <1>3, <2>1, <2>2
<1>5. CASE \E c : Wait(c)
  BY <1>2, <1>5 DEF Wait
<1> QED
  BY <1>2, <1>4, <1>5

LEMMA SignalBuild ==
  ASSUME SenderInv, HostTypeOK, BuildInv, NEW i \in Ops, Signal(i)
  PROVE  BuildInv'
<1>1. sender \in Senders /\ IInv
  BY DEF SenderInv, ControlOK
<1>2. UNCHANGED <<sender, phase, iter, cursor, anchor>>
  BY DEF Signal, StartSource, StartThen, StartInner, StartWhenAll, ValueStage, ValueHostStage,
         ThrowHostStage, ValueContinuesOn, ValueChild, ErrorChild, Joined, Forked,
         ValueForkJoin, Forwarded, Calls
<1>3. UNCHANGED contextVars \/ (\E c : Submit(c)) \/ (\E c : Wait(c))
  BY DEF Signal, StartSource, StartThen, StartInner, StartWhenAll, ValueStage, ValueHostStage,
         ThrowHostStage, ValueContinuesOn, ValueChild, ErrorChild, Joined, Forked,
         ValueForkJoin, Forwarded, Nothing
<1>4. thrown \subseteq thrown' /\ \A k \in Ops : error[k] => error'[k]
  BY <1>1, SignalFrame
<1>5. \A k : Missing(k) => Missing(k)'
  BY <1>2, <1>4 DEF Missing, HostTypeOK
<1> QED
  BY <1>1, <1>2, <1>3, <1>5, Instantiates, KeepsBuild

LEMMA CompletionBuild ==
  ASSUME SenderInv, HostTypeOK, ErrInv, ReportInv, Chain, BuildInv,
         Complete \/ CompleteWithError \/ CompleteStopped \/ Repeat \/ Return
  PROVE  BuildInv'
<1>1. sender \in Senders /\ IInv /\ Linear /\ iter \in Nat /\ iter > 0
  BY Shape DEF SenderInv, ControlOK, Chain
<1>2. UNCHANGED contextVars \/ \E c : Wait(c)
  BY DEF Complete, CompleteWithError, CompleteStopped, Repeat, Return, Nothing
<1>3. UNCHANGED <<nodes, dep>> /\ \A x \in Context : is_instantiated'[x] => instance'[x] = nodes[x]
  BY <1>1, <1>2, Instantiates
<1>4. CASE Complete \/ CompleteWithError \/ CompleteStopped \/ Return
  <2>1. UNCHANGED <<sender, iter, error, thrown>> /\ phase = "run"
    BY <1>4 DEF Complete, CompleteWithError, CompleteStopped, Return, Calls, Nothing, outcomeVars
  <2>2. phase' # "connect"
    BY <1>4, ReturnOutcome DEF Complete, CompleteWithError, CompleteStopped, Calls
  <2>3. \A k : Missing(k) => Missing(k)'
    BY <2>1 DEF Missing
  <2> QED
    BY <1>3, <2>1, <2>2, <2>3, KeepsBuild
<1>5. CASE Repeat
  <2>1. /\ phase = "run" /\ sender' = sender /\ iter' = iter + 1 /\ calls = <<Call("value", Final)>>
        /\ completions = 0
    BY <1>5 DEF Repeat
  <2>2. Pending = {Call("value", Final)} /\ result = "none"
    BY <2>1 DEF Pending, ReportInv
  <2>3. thrown = {}
    BY <1>1, <2>1, <2>2, NothingThrown
  <2>4. iter' # 1 /\ \A k : ~Missing(k)
    BY <1>1, <2>1, <2>3 DEF Missing
  <2> QED
    BY <1>3, <2>1, <2>4, KeepsBuild
<1> QED
  BY <1>4, <1>5

LEMMA DeviceBuild ==
  ASSUME BuildInv, (\E e \in Exec : StreamStep(e)) \/ UNCHANGED vars
  PROVE  BuildInv'
<1>1. UNCHANGED <<sender, nodes, dep, phase, cursor, anchor, iter, error, thrown, is_instantiated, instance>>
  BY DEF StreamStep, RetireLaunch, RunFunctor, Retire, RunNode, controlVars, outcomeVars, flagVars,
         graphVars, contextVars, vars
<1>2. \A k : Missing(k) => Missing(k)'
  BY <1>1 DEF Missing
<1>3. \A c \in Context : is_instantiated[c] => instance[c] = nodes[c]
  BY DEF BuildInv
<1> QED
  BY <1>1, <1>2, <1>3, KeepsBuild

\* All that the proof knows of a chain.
ChainInv ==
  /\ SenderInv /\ HostTypeOK /\ StackInv /\ OnceInv /\ ErrInv /\ AbortInv /\ ReportInv /\ GraphsInv
  /\ RoundInv
  /\ Chain => BuildInv /\ HostInv

LEMMA NextSender ==
  ASSUME [Next]_vars
  PROVE  sender' = sender
<1>1. CASE Connect
  BY <1>1 DEF Connect, ConnectPlain, ConnectThen, ConnectThenThrows, ConnectThenWithoutNode,
       ConnectContinuesOn, ConnectFork, ConnectWhenAll, ConnectForkJoin, Connecting, ConnectAborts
<1>2. ASSUME NEW i \in Ops, Signal(i)
      PROVE  sender' = sender
  BY <1>2 DEF Signal, StartSource, StartThen, StartInner, StartWhenAll, ValueStage,
       ValueHostStage, ThrowHostStage, ValueContinuesOn, ValueChild, ErrorChild, Joined, Forked,
       ValueForkJoin, Forwarded, Calls
<1>3. CASE Complete \/ CompleteWithError \/ CompleteStopped \/ Repeat \/ Return
  BY <1>3 DEF Complete, CompleteWithError, CompleteStopped, Repeat, Return, Calls
<1>4. CASE (\E e \in Exec : StreamStep(e)) \/ UNCHANGED vars
  BY <1>4 DEF StreamStep, RetireLaunch, RunFunctor, controlVars, vars
<1> QED
  BY <1>1, <1>2, <1>3, <1>4 DEF Next, HostStep, Terminated

LEMMA NextChain == ChainInv /\ [Next]_vars => ChainInv'
<1> SUFFICES ASSUME ChainInv, [Next]_vars
             PROVE  ChainInv'
  OBVIOUS
<1>1. /\ SenderInv /\ HostTypeOK /\ StackInv /\ OnceInv /\ ErrInv /\ AbortInv /\ ReportInv
      /\ GraphsInv /\ RoundInv
  BY DEF ChainInv
<1>2. /\ SenderInv' /\ HostTypeOK' /\ StackInv' /\ OnceInv' /\ ErrInv' /\ AbortInv' /\ ReportInv'
      /\ GraphsInv' /\ RoundInv'
  BY <1>1, NextSenderInv, NextHostType, NextStack, NextErr, NextAbort, NextReport, NextGraphs, NextRounds
<1>3. sender' = sender /\ (Chain' <=> Chain)
  BY NextSender, SameChain
<1>4. ASSUME Chain
      PROVE  BuildInv' /\ HostInv'
  <2>1. BuildInv /\ HostInv
    BY <1>4 DEF ChainInv
  <2>2. CASE Connect
    BY <1>1, <1>4, <2>1, <2>2, ConnectBuild, ConnectHost
  <2>3. ASSUME NEW i \in Ops, Signal(i)
        PROVE  BuildInv' /\ HostInv'
    BY <1>1, <1>4, <2>1, <2>3, SignalBuild, SignalHost
  <2>4. CASE Complete \/ CompleteWithError \/ CompleteStopped \/ Repeat \/ Return
    BY <1>1, <1>4, <2>1, <2>4, CompletionBuild, CompletionHost
  <2>5. CASE \E e \in Exec : StreamStep(e)
    BY <1>1, <1>4, <2>1, <2>5, DeviceBuild, DeviceHost
  <2>6. CASE UNCHANGED vars
    <3>1. BuildInv'
      BY <2>1, <2>6, DeviceBuild
    <3>2. UNCHANGED <<sender, nodes, iter, runs, queue, is_submitted, phase, calls, result, thrown>>
      BY <2>6 DEF vars, contextVars, controlVars, outcomeVars
    <3>3. /\ Quiet' <=> Quiet
          /\ \A p : (At(p)' <=> At(p)) /\ (Counts(p)' <=> Counts(p))
          /\ Final' = Final /\ Pending' = Pending
      BY <3>2, SameHost, SameChain DEF Pending
    <3>4. (Past' <=> Past) /\ (Carrying' <=> Carrying) /\ (LoneInv' <=> LoneInv)
      BY <3>2, <3>3 DEF Past, Carrying, LoneInv
    <3>5. Counts(Final)' <=> Counts(Final)
      BY <3>3 DEF Counts, Reached
    <3> QED
      BY <2>1, <3>1, <3>2, <3>3, <3>4, <3>5 DEF HostInv
  <2> QED
    BY <2>2, <2>3, <2>4, <2>5, <2>6 DEF Next, HostStep, Terminated
<1> QED
  BY <1>2, <1>3, <1>4 DEF ChainInv

LEMMA InitChain == Init => ChainInv
<1> SUFFICES ASSUME Init
             PROVE  ChainInv
  OBVIOUS
<1>1. /\ calls = <<>> /\ completions = 0 /\ DOMAIN calls = {} /\ error = [i \in Ops |-> FALSE]
      /\ anchor = [i \in Ops |-> NotQueryable] /\ phase = "connect" /\ thrown = {}
      /\ is_instantiated = [c \in Context |-> FALSE] /\ is_submitted = [c \in Context |-> FALSE]
      /\ iter = 1 /\ cursor = 1 /\ sender \in Senders /\ nodes = [c \in Context |-> {}]
      /\ result = "none" /\ runs = [i \in Ops |-> 0]
  BY DEF Init, ContextInit
<1>2. NotQueryable.has = "none"
  BY DEF NotQueryable
<1>3. SenderInv /\ HostTypeOK
  BY InitSenderInv DEF Init, HostTypeOK
<1>4. StackInv /\ OnceInv /\ ErrInv /\ AbortInv /\ ReportInv /\ RoundInv
  BY <1>1, <1>2 DEF StackInv, OnceInv, ErrInv, Pending, AbortInv, ReportInv, RoundInv
<1>5. \A k \in Ops : k \in Nat /\ ~(k < 1)
  <2>1. Ops \subseteq 1 .. Len(sender.ops) /\ Len(sender.ops) \in Nat
    BY <1>1, Shape
  <2> QED
    BY <2>1
<1>6. GraphsInv
  BY <1>1, <1>5 DEF GraphsInv, GraphStages, Stages
<1>7. BuildInv
  BY <1>1, <1>5 DEF BuildInv, NodesInv, AnswersInv, BuiltInv, GraphStages, Stages
<1>8. HostInv
  <2>1. Quiet
    BY <1>1 DEF Quiet
  <2>2. \A i \in Stages : runs[i] = iter - 1
    BY <1>1 DEF Stages
  <2>3. At(1)
    BY <1>3, <2>1, <2>2, AtFirst DEF At
  <2> QED
    BY <1>1, <2>3 DEF HostInv, LoneInv
<1> QED
  BY <1>3, <1>4, <1>6, <1>7, <1>8 DEF ChainInv

LEMMA ChainInvariant == Spec => []ChainInv
BY InitChain, NextChain, PTL DEF Spec

-----------------------------------------------------------------------------
(***************************************************************************)
(* What has run, has run in the order of the chain.                        *)
(***************************************************************************)

\* A launch that has run a node has run those of all stages before it in the segment.
LEMMA Closed ==
  ASSUME SenderInv, Chain, BuildInv, NEW e \in Exec, NEW n \in DOMAIN queue[e],
         NEW i \in GraphStages, NEW j \in GraphStages, j < i, Start(j) = Start(i),
         <<i, 1>> \in queue[e][n].done
  PROVE  <<j, 1>> \in queue[e][n].done
<1> DEFINE D == queue[e][n].done
           c == queue[e][n].ctx
<1>1. sender \in Senders /\ Linear /\ IInv /\ NodesInv
  BY DEF SenderInv, ControlOK, Chain, BuildInv
<1>2. D \subseteq nodes[c] /\ c \in Context /\ \A x \in D : dep[x] \subseteq D
  <2>1. queue[e] \in Seq(Launch)
    BY <1>1 DEF IInv, ContextTypeOK
  <2>2. queue[e][n] \in Launch
    BY <2>1, ElementOfSeq
  <2>3. c \in Context
    BY <2>2 DEF Launch
  <2>4. D \subseteq instance[c] /\ \A x \in D : dep[x] \subseteq D
    BY <1>1 DEF IInv, LaunchInv
  <2> QED
    BY <1>1, <2>3, <2>4 DEF IInv, GraphInv
<1>3. GraphStages \subseteq Ops /\ GraphStages \subseteq Queryable
  BY DEF GraphStages, Stages, Queryable
<1>4. \A x \in GraphStages : x \in Nat /\ Start(x) \in Nat /\ Start(x) <= x
  BY <1>1, <1>3, Segment
<1> HIDE DEF D, c
<1> DEFINE T == {m \in GraphStages : j < m /\ m <= i /\ Start(m) = Start(i) /\ <<m, 1>> \in D}
<1>5. i \in T
  BY <1>4 DEF D
<1>6. PICK m \in T : \A x \in T : m <= x
  <2> HIDE DEF T
  <2>1. T \in SUBSET Ops
    BY <1>3 DEF T
  <2> QED
    BY <1>1, <1>5, <2>1, Extremes
<1>7. m \in GraphStages /\ j < m /\ m <= i /\ Start(m) = Start(i) /\ <<m, 1>> \in D
  BY <1>6
<1>8. dep[<<m, 1>>] = Dep(Start(m), m)
  <2>1. PICK x \in GraphStages : <<m, 1>> = <<x, 1>> /\ dep[<<m, 1>>] = Dep(Start(x), x)
    BY <1>1, <1>2, <1>7 DEF NodesInv
  <2> QED
    BY <2>1
<1> DEFINE L == {x \in GraphStages : x < m}
<1>9. PICK l \in L : \A x \in L : x <= l
  <2>1. j \in L
    BY <1>7
  <2> HIDE DEF L
  <2>2. L \in SUBSET Ops
    BY <1>3 DEF L
  <2> QED
    BY <1>1, <2>1, <2>2, Extremes
<1>10. l \in GraphStages /\ l < m /\ j <= l /\ \A x \in GraphStages : ~(l < x /\ x < m)
  <2>1. l \in GraphStages /\ l < m /\ j <= l
    BY <1>7, <1>9
  <2>2. \A x \in GraphStages : ~(l < x /\ x < m)
    BY <1>4, <1>9
  <2> QED
    BY <2>1, <2>2
<1>11. Start(l) = Start(i) /\ Start(m) <= l
  <2>1. j .. m \subseteq Queryable
    BY <1>1, <1>3, <1>4, <1>7, SameSegment
  <2>2. j .. l \subseteq Queryable
    BY <1>4, <1>7, <1>10, <2>1
  <2>3. Start(j) = Start(l)
    BY <1>1, <1>3, <1>10, <2>2, SameSegment
  <2> QED
    BY <1>4, <1>7, <1>10, <2>3
<1>12. l \in Last(Start(m), m)
  BY <1>10, <1>11 DEF Last
<1>13. <<l, 1>> \in D
  BY <1>2, <1>7, <1>8, <1>12 DEF Dep
<1>14. l = j
  <2>1. j < l => l \in T
    BY <1>4, <1>7, <1>10, <1>11, <1>13
  <2> QED
    BY <1>4, <1>6, <1>7, <1>10, <2>1
<1> QED
  BY <1>13, <1>14 DEF D

\* There is always a place on the chain that tells what has run and what is marked.
LEMMA Somewhere ==
  ASSUME SenderInv, HostTypeOK, HostInv
  PROVE  \E p \in 1 .. Final : Counts(p) /\ (Marks(p) \/ Quiet)
<1>1. 1 \in 1 .. Final
  <2>1. sender \in Senders
    BY DEF SenderInv, ControlOK
  <2>2. Outermost \in Nat \ {0}
    BY <2>1, Shape DEF Outermost
  <2> QED
    BY <2>2 DEF Final, Outermost
<1>2. \A d \in Pending : d.op \in 1 .. Final
  <2> TAKE d \in Pending
  <2>1. PICK n \in DOMAIN calls : d = calls[n]
    BY DEF Pending
  <2>2. d \in CallRecord
    BY <2>1, ElementOfSeq DEF HostTypeOK
  <2> QED
    BY <2>2 DEF CallRecord
<1>3. CASE phase \in {"connect", "aborted"}
  BY <1>1, <1>3 DEF HostInv, At
<1>4. CASE phase = "run" /\ Carrying
  <2>1. PICK d \in Pending : d.sig \in {"start", "value"}
    BY <1>4 DEF Carrying
  <2>2. At(1) \/ At(d.op)
    BY <1>4, <2>1 DEF HostInv
  <2> QED
    BY <1>1, <1>2, <2>2 DEF At
<1>5. CASE ~(phase \in {"connect", "aborted"}) /\ ~(phase = "run" /\ Carrying)
  BY <1>5 DEF HostInv, HostTypeOK, Past
<1> QED
  BY <1>3, <1>4, <1>5

\* A stage that has run less often than a later one has no node.
LEMMA InOrder ==
  ASSUME SenderInv, HostTypeOK, Chain, BuildInv, HostInv,
         NEW i \in Stages, NEW j \in Stages, j < i, runs[j] < runs[i]
  PROVE  j \in GraphStages /\ ~Built(j) /\ phase \notin {"connect", "aborted"}
<1>1. sender \in Senders /\ Linear /\ IInv /\ iter \in Nat
  BY Shape DEF SenderInv, ControlOK, Chain
<1>2. PICK p \in 1 .. Final : Counts(p) /\ (Marks(p) \/ Quiet)
  BY Somewhere
<1>3. /\ i \in Ops /\ j \in Ops /\ Kind(i) = "then" /\ Kind(j) = "then"
      /\ Ops = 1 .. Outermost /\ Outermost \in Nat
  <2>1. i \in Ops /\ j \in Ops /\ Kind(i) = "then" /\ Kind(j) = "then"
    BY DEF Stages
  <2> QED
    BY <1>1, <2>1, Tree
<1>4. i \in Nat /\ j \in Nat /\ p \in Nat
  BY <1>2, <1>3
<1>5. GraphStages \subseteq Ops /\ GraphStages \subseteq Queryable
  BY DEF GraphStages, Stages, Queryable
<1>6. \A x \in GraphStages : /\ x \in Nat /\ x > 1 /\ Start(x) \in Nat /\ Start(x) <= x
                             /\ Start(x) - 1 \notin Queryable /\ Home(x) \in Context
  BY <1>1, <1>5, Segment
<1>7. \A x \in Queryable : OnGraph(x)
  BY DEF Queryable
<1>8. (i \in GraphStages <=> OnGraph(i)) /\ (j \in GraphStages <=> OnGraph(j))
  BY DEF GraphStages
<1>9. /\ Reached(i, p) /\ (OnGraph(i) => ~Left(i))
      /\ ~(Reached(j, p) /\ (OnGraph(j) => ~Left(j)))
  BY <1>1, <1>2 DEF Counts
<1>10. phase \notin {"connect", "aborted"}
  <2>1. phase \in {"connect", "aborted"} => runs[i] = iter - 1 /\ runs[j] = iter - 1
    BY AtFirst DEF HostInv, At
  <2> QED
    BY <1>1, <2>1
\* Stages that have been reached together with i.
<1>11. ASSUME NEW x \in Queryable, NEW y \in Queryable, x < y, Start(x) = Start(y)
       PROVE  x .. y \subseteq Queryable
  <2>1. x \in Nat /\ y \in Nat
    BY <1>1, Segment
  <2>2. x <= y
    BY <1>11, <2>1
  <2> QED
    BY <1>1, <1>11, <2>2, SameSegment
<1>12. ASSUME NEW k \in GraphStages, k < i, NEW x \in k .. i, OnGraph(i), Start(k) = Start(i)
       PROVE  x \in Queryable
  BY <1>5, <1>8, <1>11, <1>12
<1>13. CASE ~OnGraph(j)
  <2>1. p <= j
    BY <1>4, <1>9, <1>13 DEF Reached
  <2>2. OnGraph(i) /\ \E k \in GraphStages : k < p /\ Start(k) = Start(i)
    BY <1>4, <1>9, <2>1 DEF Reached
  <2>3. PICK k \in GraphStages : k < p /\ Start(k) = Start(i)
    BY <2>2
  <2>4. k < i /\ j \in k .. i
    BY <1>4, <1>6, <2>1, <2>3
  <2>5. j \in Queryable
    BY <1>12, <2>2, <2>3, <2>4
  <2> QED
    BY <1>7, <1>13, <2>5
<1>14. ASSUME OnGraph(j), Built(j)
       PROVE  FALSE
  <2>1. j \in GraphStages /\ j \in Queryable
    BY <1>5, <1>8, <1>14
  <2>2. CASE ~Reached(j, p)
    <3>1. \A k \in GraphStages : k < p => Start(k) # Start(j)
      BY <1>14, <2>2 DEF Reached
    <3>2. p <= j
      BY <1>4, <2>1, <3>1
    <3>3. OnGraph(i) /\ \E k \in GraphStages : k < p /\ Start(k) = Start(i)
      BY <1>4, <1>9, <3>2 DEF Reached
    <3>4. PICK k \in GraphStages : k < p /\ Start(k) = Start(i)
      BY <3>3
    <3>5. k < i /\ k <= j /\ \A x \in k .. j : x \in k .. i
      BY <1>4, <1>6, <3>2, <3>4
    <3>6. k .. j \subseteq Queryable
      BY <1>12, <3>3, <3>4, <3>5
    <3>7. Start(k) = Start(j)
      BY <1>1, <1>5, <2>1, <3>5, <3>6, SameSegment
    <3> QED
      BY <3>1, <3>4, <3>7
  <2>3. CASE Reached(j, p)
    <3>1. Left(j)
      BY <1>9, <2>3
    <3>2. PICK e \in Exec : \E n \in DOMAIN queue[e] : queue[e][n].ctx = Home(j) /\ <<j, 1>> \notin queue[e][n].done
      BY <3>1 DEF Left
    <3>3. PICK n \in DOMAIN queue[e] : queue[e][n].ctx = Home(j) /\ <<j, 1>> \notin queue[e][n].done
      BY <3>2
    <3>4. is_submitted[Home(j)]
      BY <1>1, <3>3 DEF IInv, LaunchInv
    <3>5. Submits(Home(j), p)
      BY <1>2, <1>6, <2>1, <3>4 DEF Quiet, Marks
    <3>6. PICK k \in GraphStages : k < p /\ \A m \in k .. p - 1 : CtxOf(m) = Home(j)
      BY <3>5 DEF Submits
    <3>7. CtxOf(k) = Home(j)
      <4>1. k \in k .. p - 1
        BY <1>4, <1>6, <3>6
      <4> QED
        BY <3>6, <4>1
    <3>8. Start(k) = Start(j) /\ k \in Queryable
      BY <1>1, <1>5, <2>1, <3>7, HomeUnique
    <3>9. CASE ~OnGraph(i)
      <4>1. i < p
        BY <1>9, <3>9 DEF Reached
      <4>2. i \notin k .. p - 1
        BY <1>6, <2>1, <3>6, <3>9 DEF OnGraph
      <4>3. i < k /\ j < k /\ i \in j .. k
        BY <1>4, <1>6, <4>1, <4>2
      <4>4. i \in Queryable
        BY <1>11, <2>1, <3>8, <4>3
      <4> QED
        BY <1>7, <3>9, <4>4
    <3>10. CASE OnGraph(i) /\ Start(i) = Start(j)
      <4>1. i \in Queryable /\ j <= i /\ i \in GraphStages
        BY <1>4, <1>5, <1>8, <3>10
      <4>2. Home(i) = Home(j)
        BY <1>1, <2>1, <3>10, <4>1, SameSegment
      <4>3. <<i, 1>> \in queue[e][n].done
        BY <1>9, <3>3, <3>10, <4>2 DEF Left
      <4> QED
        BY <2>1, <3>3, <3>10, <4>1, <4>3, Closed
    <3>11. CASE OnGraph(i) /\ Start(i) # Start(j)
      <4>1. i \in GraphStages /\ i \in Queryable
        BY <1>5, <1>8, <3>11
      <4>2. PICK f \in GraphStages : f < p /\ Start(f) = Start(i)
        BY <1>9, <3>11 DEF Reached
      <4>3. k < i
        <5>1. k # i
          BY <3>8, <3>11
        <5>2. i < k => j < k /\ j .. i \subseteq j .. k
          BY <1>4, <1>6
        <5>3. i < k => j .. i \subseteq Queryable
          BY <1>11, <2>1, <3>8, <5>2
        <5>4. i < k => Start(j) = Start(i)
          BY <1>1, <1>4, <2>1, <4>1, <5>3, SameSegment
        <5> QED
          BY <1>4, <1>6, <3>11, <5>1, <5>4
      <4>4. k < Start(i)
        BY <1>1, <1>4, <1>6, <3>8, <3>11, <4>1, <4>3, SameSegment
      <4> DEFINE b == Start(i) - 1
      <4>5. b \in k .. p - 1 /\ b \in Nat /\ b > 1 /\ b \notin Queryable /\ b < i
        BY <1>4, <1>6, <4>1, <4>2, <4>4
      <4>6. b \in Ops
        BY <1>3, <4>5
      <4>7. CtxOf(b) \in Context
        BY <1>6, <2>1, <3>6, <4>5
      <4> HIDE DEF b
      <4>8. Kind(b) \in {"then", "continues_on"}
        BY <1>1, <4>5, <4>6, Line
      <4> QED
        BY <4>5, <4>6, <4>7, <4>8 DEF Queryable, OnGraph
    <3> QED
      BY <3>9, <3>10, <3>11
  <2> QED
    BY <2>2, <2>3
<1> QED
  BY <1>8, <1>10, <1>13, <1>14

\* If nothing failed, every stage has run at least as often as any later one.
LEMMA StrictOrder ==
  ASSUME ChainInv, Chain, ~Broken
  PROVE  \A i, j \in Stages : j < i => runs[i] <= runs[j]
<1> SUFFICES ASSUME NEW i \in Stages, NEW j \in Stages, j < i, runs[j] < runs[i]
             PROVE  FALSE
  BY DEF ChainInv, HostTypeOK, Stages
<1>1. j \in GraphStages /\ ~Built(j) /\ phase \notin {"connect", "aborted"}
  BY InOrder DEF ChainInv
<1>2. Missing(j)
  BY <1>1 DEF ChainInv, BuildInv, BuiltInv
<1>3. PICK f \in thrown : error[f]
  BY <1>2 DEF Missing
<1>4. f \in Ops /\ Kind(f) = "then"
  BY DEF ChainInv, ErrInv, Stages
<1> QED
  BY <1>3, <1>4 DEF Broken

\* A stage of an orderly chain that has run less often than one after it has no node
\* because of a stage that threw: the sole cause for which the device skips a functor.
THEOREM SkippedInChains == Spec => [](Linear /\ Orderly(sender.ops) => SkippedOnlyByFailure)
<1>1. ASSUME ChainInv, Linear, Orderly(sender.ops)
      PROVE  SkippedOnlyByFailure
  <2> SUFFICES ASSUME NEW i \in Stages, NEW j \in Stages, j \in Before[i], runs[j] < runs[i]
               PROVE  \E f \in thrown : f = j \/ f \in Before[j]
    BY DEF SkippedOnlyByFailure
  <2>1. /\ sender \in Senders /\ Chain /\ i \in Ops /\ j \in Ops
    BY <1>1 DEF ChainInv, SenderInv, ControlOK, Chain, Stages
  <2>2. j < i
    <3>1. Before[i] \subseteq 1 .. i - 1 /\ Ops = 1 .. Outermost /\ Outermost \in Nat
      BY <1>1, <2>1, Tree, LineOrder
    <3> QED
      BY <2>1, <3>1
  <2>3. j \in GraphStages /\ ~Built(j) /\ phase \notin {"connect", "aborted"}
    BY <1>1, <2>1, <2>2, InOrder DEF ChainInv
  <2>4. Missing(j)
    BY <1>1, <2>1, <2>3 DEF ChainInv, BuildInv, BuiltInv
  <2>5. PICK f \in thrown : f <= j
    BY <2>4 DEF Missing
  <2>6. f \in Ops
    BY <1>1 DEF ChainInv, HostTypeOK
  <2>7. f = j \/ f < j
    <3>1. Ops = 1 .. Outermost /\ Outermost \in Nat
      BY <2>1, Tree
    <3> QED
      BY <2>1, <2>5, <2>6, <3>1
  <2> QED
    BY <1>1, <2>1, <2>6, <2>7, LineOrder
<1> QED
  BY <1>1, ChainInvariant, PTL

-----------------------------------------------------------------------------
(***************************************************************************)
(* How an orderly chain ends.                                              *)
(***************************************************************************)

\* It holds a source that is stopped.
Stops == \E i \in Ops : Kind(i) = "just_stopped"

\* Who tells the consumer that the sender was stopped, and why a program is aborted.
StopInv == (result = "stopped" \/ \E c \in Pending : c.sig = "stopped") => Stops
OutcomeInv ==
  /\ StopInv
  /\ completions > 0 => result # "none"
  /\ Chain /\ phase = "aborted" => Broken

LEMMA SignalStops ==
  ASSUME sender \in Senders, HostTypeOK, StopInv, NEW i \in Ops, Signal(i)
  PROVE  StopInv'
<1>1. sender' = sender /\ result' = result
  BY SignalFrame
<1>2. Stops' <=> Stops
  BY <1>1, SameChain DEF Stops
<1>3. \A sig, j : Call(sig, j).sig = sig
  BY DEF Call
<1>4. ASSUME \A c \in Pending' : c \in Pending \/ c.sig # "stopped" \/ Stops
      PROVE  StopInv'
  BY <1>1, <1>2, <1>4 DEF StopInv
<1>5. ASSUME NEW sig, NEW Made, Step(sig, i, Made), \A c \in Made : c.sig # "stopped" \/ Stops
      PROVE  StopInv'
  BY <1>4, <1>5 DEF Step
<1>6. CASE StartSource(i)
  <2> DEFINE out == IF Kind(i) = "just_stopped" THEN "stopped" ELSE "value"
  <2>1. Calls("start", i, <<Call(out, Parent(i))>>)
    BY <1>6 DEF StartSource
  <2>2. Call(out, Parent(i)) \in CallRecord
    BY ParentType DEF Call, CallRecord
  <2>3. out = "stopped" => Stops
    BY DEF Stops
  <2> HIDE DEF out
  <2>4. Step("start", i, {Call(out, Parent(i))})
    BY <2>1, <2>2, StepOne
  <2> QED
    BY <1>3, <1>5, <2>3, <2>4
<1>7. CASE Forwarded(i)
  <2>1. PICK sig \in {"error", "stopped"} : Step(sig, i, {Call(sig, Parent(i))})
    BY <1>7, Steps
  <2>2. sig = "stopped" => Stops
    BY <1>3, <2>1 DEF Step, StopInv
  <2> QED
    BY <1>3, <1>5, <2>1, <2>2
<1>8. CASE StartThen(i)
  <2>1. CASE error[i]
    <3>1. Step("start", i, {Call("error", Parent(i)), Call("start", Child(i)[1])})
      BY <1>8, <2>1, Steps
    <3> QED
      BY <1>3, <1>5, <3>1
  <2>2. CASE ~error[i]
    <3>1. Step("start", i, {Call("start", Child(i)[1])})
      BY <1>8, <2>2, Steps
    <3> QED
      BY <1>3, <1>5, <3>1
  <2> QED
    BY <2>1, <2>2
<1>9. CASE StartInner(i)
  <2>1. Step("start", i, {Call("start", Child(i)[1])})
    BY <1>9, Steps
  <2> QED
    BY <1>3, <1>5, <2>1
<1>10. CASE StartWhenAll(i)
  <2>1. Step("start", i, {Call("start", c) : c \in Range(Child(i))} \cup {Call("joined", i)})
    BY <1>10, Steps
  <2> QED
    BY <1>3, <1>5, <2>1
<1>11. CASE Forked(i)
  <2>1. PICK sig : Step(sig, i, {Call("start", Child(Parent(i))[2])})
    BY <1>11, Steps
  <2> QED
    BY <1>3, <1>5, <2>1
<1>12. CASE ValueStage(i) \/ ValueHostStage(i) \/ ValueContinuesOn(i) \/ ValueForkJoin(i)
  <2>1. Step("value", i, {Call("value", Parent(i))})
    BY <1>12, Steps
  <2> QED
    BY <1>3, <1>5, <2>1
<1>13. CASE ThrowHostStage(i)
  <2>1. Step("value", i, {Call("error", Parent(i))})
    BY <1>13, Steps
  <2> QED
    BY <1>3, <1>5, <2>1
<1>14. CASE ValueChild(i) \/ ErrorChild(i)
  <2>1. PICK sig : Step(sig, i, {})
    BY <1>14, Steps
  <2> QED
    BY <1>5, <2>1
<1>15. CASE Joined(i)
  <2>1. PICK out \in {"error", "value"} : Step("joined", i, {Call(out, Parent(i))})
    BY <1>15, Steps
  <2> QED
    BY <1>3, <1>5, <2>1
<1> QED
  BY <1>6, <1>7, <1>8, <1>9, <1>10, <1>11, <1>12, <1>13, <1>14, <1>15 DEF Signal

\* While a chain is connected it has not thrown unless a node could not be built.
LEMMA NoNodeThrown ==
  ASSUME HostTypeOK, StackInv, ErrInv, ReportInv, SenderInv, Chain, HostInv, phase = "connect", ~Broken
  PROVE  thrown = {}
<1>1. Forks = {}
  BY LinearKinds DEF Forks, Chain, SenderInv, ControlOK
<1>2. Pending = {} /\ result = "none"
  BY DEF StackInv, Pending, HostInv
<1>3. ASSUME NEW i \in thrown
      PROVE  FALSE
  <2>1. ~InFork(i)
    BY <1>1 DEF InFork
  <2>2. Reported(i)
    BY <2>1 DEF ReportInv
  <2>3. error[i]
    BY <1>2, <2>2 DEF Reported
  <2>4. i \in Ops /\ Kind(i) = "then"
    BY DEF ErrInv, Stages
  <2> QED
    BY <2>3, <2>4 DEF Broken
<1> QED
  BY <1>3

LEMMA NextOutcome == ChainInv /\ OutcomeInv /\ [Next]_vars => OutcomeInv'
<1> SUFFICES ASSUME ChainInv, OutcomeInv, [Next]_vars
             PROVE  OutcomeInv'
  OBVIOUS
<1>1. /\ SenderInv /\ HostTypeOK /\ StackInv /\ ErrInv /\ AbortInv /\ ReportInv /\ RoundInv
      /\ sender \in Senders /\ completions \in Nat
  BY DEF ChainInv, SenderInv, ControlOK, HostTypeOK
<1>2. sender' = sender /\ (Chain' <=> Chain) /\ (Stops' <=> Stops)
  BY NextSender, SameChain DEF Stops
<1>3. CASE Connect
  <2>1. /\ phase = "connect" /\ UNCHANGED <<result, completions>>
        /\ calls' = <<>> \/ \E j : calls' = <<[sig |-> "start", op |-> j]>>
    BY <1>1, <1>3 DEF Connect, ConnectPlain, ConnectThen, ConnectThenThrows, ConnectThenWithoutNode,
           ConnectContinuesOn, ConnectFork, ConnectWhenAll, ConnectForkJoin, Connecting,
           ConnectAborts, StackInv, outcomeVars
  <2>2. StopInv'
    <3>1. \A c \in Pending' : c.sig # "stopped"
      BY <2>1 DEF Pending
    <3> QED
      BY <1>2, <2>1, <3>1 DEF StopInv, OutcomeInv
  <2>3. Chain /\ phase' = "aborted" => Broken'
    <3> SUFFICES ASSUME Chain, phase' = "aborted", ~Broken'
                 PROVE  FALSE
      OBVIOUS
    <3>1. UNCHANGED <<error, iter, thrown, sender>>
      BY <1>3, <2>1 DEF Connect, ConnectPlain, ConnectThen, ConnectThenThrows, ConnectThenWithoutNode,
           ConnectContinuesOn, ConnectFork, ConnectWhenAll, ConnectForkJoin, Connecting,
           ConnectAborts, outcomeVars
    <3>2. ~Broken /\ iter = 1
      <4>1. Broken' <=> Broken
        BY <3>1 DEF Broken, Ops, Kind
      <4>2. iter = 1 \/ iter > 1
        BY <1>1, Shape DEF SenderInv, ControlOK
      <4> QED
        BY <1>1, <1>3, <4>1, <4>2, ConnectAgain DEF Chain
    <3>3. thrown = {}
      BY <1>1, <2>1, <3>2, NoNodeThrown DEF ChainInv
    <3>4. AbortInv'
      BY <1>1, <1>3, ConnectAbort
    <3> QED
      BY <3>1, <3>2, <3>3, <3>4 DEF AbortInv
  <2> QED
    BY <1>2, <2>1, <2>2, <2>3 DEF OutcomeInv
<1>4. ASSUME NEW i \in Ops, Signal(i)
      PROVE  OutcomeInv'
  <2>1. StopInv'
    BY <1>1, <1>4, SignalStops DEF OutcomeInv
  <2>2. phase' = "run" /\ UNCHANGED <<result, completions>>
    BY <1>4 DEF Signal, StartSource, StartThen, StartInner, StartWhenAll, ValueStage, ValueHostStage,
         ThrowHostStage, ValueContinuesOn, ValueChild, ErrorChild, Joined, Forked,
         ValueForkJoin, Forwarded, Nothing, outcomeVars, Calls
  <2> QED
    BY <2>1, <2>2 DEF OutcomeInv
<1>5. CASE Complete \/ CompleteWithError \/ CompleteStopped
  <2>1. PICK sig \in {"value", "error", "stopped"} : Calls(sig, Final, <<>>) /\ Receives(sig)
    BY <1>5 DEF Complete, CompleteWithError, CompleteStopped
  <2>2. Step(sig, Final, {})
    BY <1>1, <2>1, StepNone
  <2>3. phase' = "run" /\ Pending' \subseteq Pending /\ Call(sig, Final) \in Pending
    BY <2>2 DEF Step
  <2>4. result' = (IF result = "error" THEN result ELSE sig)
    BY <2>1 DEF Receives
  <2>5. StopInv'
    <3>1. Call(sig, Final).sig = sig
      BY DEF Call
    <3> QED
      BY <1>2, <2>3, <2>4, <3>1 DEF StopInv, OutcomeInv
  <2> QED
    BY <2>3, <2>4, <2>5 DEF OutcomeInv
<1>6. CASE Repeat \/ Return
  <2>1. /\ UNCHANGED <<result, completions>> /\ (calls' = <<>> \/ calls' = calls) /\ phase' # "aborted"
    BY <1>6, ReturnOutcome DEF Repeat, Return, Nothing, outcomeVars
  <2>2. Pending' \subseteq Pending
    BY <2>1 DEF Pending
  <2> QED
    BY <1>2, <2>1, <2>2 DEF OutcomeInv, StopInv
<1>7. CASE (\E e \in Exec : StreamStep(e)) \/ UNCHANGED vars
  <2>1. UNCHANGED <<result, completions, calls, phase, error, sender>>
    BY <1>7 DEF StreamStep, RetireLaunch, RunFunctor, controlVars, outcomeVars, vars
  <2>2. Pending' = Pending /\ (Broken' <=> Broken)
    BY <2>1 DEF Pending, Broken, Ops, Kind
  <2> QED
    BY <1>2, <2>1, <2>2 DEF OutcomeInv, StopInv
<1> QED
  BY <1>3, <1>4, <1>5, <1>6, <1>7 DEF Next, HostStep, Terminated

LEMMA OutcomeInvariant == Spec => [](ChainInv /\ OutcomeInv)
<1>1. Init => OutcomeInv
  BY DEF Init, OutcomeInv, StopInv, Pending
<1> QED
  BY <1>1, NextOutcome, ChainInvariant, PTL DEF Spec

-----------------------------------------------------------------------------
(***************************************************************************)
(* The steps of Pipeline.                                                  *)
(***************************************************************************)

\* What the functors of a chain have done, while no node is missing.
Ordered ==
  /\ phase # "aborted"
  /\ \A i \in Stages : runs[i] \in {iter - 1, iter}
  /\ \A i, j \in Stages : j \in Before[i] => runs[i] <= runs[j]

LEMMA OrderedChain ==
  ASSUME ChainInv, OutcomeInv, Chain, ~Broken
  PROVE  Ordered
<1>1. sender \in Senders /\ Linear
  BY DEF ChainInv, SenderInv, ControlOK, Chain
<1>2. \A i \in Stages : runs[i] \in {iter - 1, iter}
  <2>1. PICK p \in 1 .. Final : Counts(p)
    BY Somewhere DEF ChainInv
  <2> QED
    BY <2>1 DEF Counts
<1>3. ASSUME NEW i \in Stages, NEW j \in Stages, j \in Before[i]
      PROVE  runs[i] <= runs[j]
  <2>1. i \in Ops
    BY DEF Stages
  <2>2. Before[i] \subseteq 1 .. i - 1 /\ Ops = 1 .. Outermost /\ Outermost \in Nat
    BY <1>1, <2>1, Tree, LineOrder
  <2>3. j < i
    BY <1>3, <2>1, <2>2
  <2> QED
    BY <2>3, StrictOrder
<1> QED
  BY <1>2, <1>3 DEF Ordered, OutcomeInv

\* Stages, their order and the number of rounds do not change.
LEMMA SamePromise ==
  ASSUME sender' = sender
  PROVE  UNCHANGED Promise!shape /\ Stages' = Stages
BY SameTree DEF Promise!shape

\* A stage whose functor runs may run in the abstract specification.
LEMMA MayRun ==
  ASSUME SenderInv, HostTypeOK, Ordered, Ordered', UNCHANGED <<sender, iter, phase>>,
         phase \in {"connect", "run"}, NEW i \in Stages, runs' = [runs EXCEPT ![i] = @ + 1], i \notin Before[i]
  PROVE  Promise!Run(i)
<1>1. UNCHANGED Promise!shape /\ Stages' = Stages /\ Before' = Before /\ Stages \subseteq Ops
  BY SamePromise, SameTree DEF Stages
<1>2. /\ runs \in [Ops -> Nat] /\ iter \in Nat /\ iter <= sender.rounds /\ sender.rounds \in Nat
  BY Shape DEF HostTypeOK, SenderInv, ControlOK
<1>3. \A j \in Stages : /\ runs[j] \in {iter - 1, iter} /\ runs'[j] \in {iter - 1, iter}
                        /\ runs'[j] = IF j = i THEN runs[j] + 1 ELSE runs[j]
                        /\ runs[j] \in Nat
                        /\ j \in Before[i] => runs'[i] <= runs'[j]
  BY <1>1, <1>2 DEF Ordered
<1>4. runs[i] = iter - 1 /\ runs'[i] = iter
  BY <1>2, <1>3
<1>5. \A j \in Stages : runs[j] >= runs[i]
  BY <1>2, <1>3, <1>4
<1>6. \A j \in Stages \cap Before[i] : runs[j] > runs[i]
  BY <1>2, <1>3, <1>4
<1>7. [s \in Stages |-> runs[s]]' = [[s \in Stages |-> runs[s]] EXCEPT ![i] = @ + 1]
  BY <1>1, <1>2
<1> QED
  BY <1>1, <1>2, <1>4, <1>5, <1>6, <1>7 DEF Promise!Run

\* The device runs functors only while sync_wait has not ended.
LEMMA DeviceImplements ==
  ASSUME ChainInv, Chain, Ordered, Ordered', NEW e \in Exec, StreamStep(e)
  PROVE  [Promise!Next]_(Promise!pipelineVars)
<1>1. /\ SenderInv /\ HostTypeOK /\ IInv /\ NodesInv /\ HostInv /\ sender \in Senders /\ Linear
  BY DEF ChainInv, SenderInv, ControlOK, Chain, BuildInv
<1>2. UNCHANGED <<sender, iter, phase>>
  BY DEF StreamStep, RetireLaunch, RunFunctor, controlVars
<1>3. UNCHANGED Promise!shape /\ Stages' = Stages
  BY <1>2, SamePromise
<1>4. CASE RetireLaunch(e)
  <2>1. UNCHANGED runs
    BY <1>4 DEF RetireLaunch, outcomeVars
  <2> QED
    BY <1>2, <1>3, <2>1 DEF Promise!pipelineVars
<1>5. ASSUME NEW n \in Node, RunFunctor(e, n)
      PROVE  [Promise!Next]_(Promise!pipelineVars)
  <2>1. RunNode(e, n) /\ runs' = IF n[1] \in Stages THEN [runs EXCEPT ![n[1]] = @ + 1] ELSE runs
    BY <1>5 DEF RunFunctor
  <2>2. /\ 1 \in DOMAIN queue[e] /\ queue[e][1] \in Launch
        /\ n \in instance[queue[e][1].ctx]
    BY <1>1, <2>1, RunQueue
  <2> DEFINE c == queue[e][1].ctx
  <2>3. c \in Context
    BY <2>2 DEF Launch
  <2>4. is_submitted[c] /\ n \in nodes[c]
    BY <1>1, <2>2, <2>3 DEF IInv, LaunchInv, GraphInv
  <2>5. PICK i \in GraphStages : n = <<i, 1>>
    BY <1>1, <2>3, <2>4 DEF NodesInv
  <2>6. n[1] = i /\ i \in Stages
    BY <2>5 DEF GraphStages
  <2>7. phase \in {"connect", "run"}
    BY <1>1, <2>3, <2>4 DEF HostInv, Past, Quiet, HostTypeOK, Ordered
  <2>8. i \notin Before[i]
    <3>1. i \in Ops /\ Ops = 1 .. Outermost /\ Outermost \in Nat
      BY <1>1, <2>6, Tree DEF Stages
    <3>2. Before[i] \subseteq 1 .. i - 1
      BY <1>1, <3>1, LineOrder
    <3> QED
      BY <3>1, <3>2
  <2>9. Promise!Run(i)
    BY <1>1, <1>2, <2>1, <2>6, <2>7, <2>8, MayRun
  <2> QED
    BY <2>6, <2>9 DEF Promise!Next
<1> QED
  BY <1>4, <1>5 DEF StreamStep

\* The host thread runs functors in the calls it makes.
LEMMA SignalImplements ==
  ASSUME ChainInv, Chain, Ordered, Ordered', NEW i \in Ops, Signal(i)
  PROVE  [Promise!Next]_(Promise!pipelineVars)
<1>1. SenderInv /\ HostTypeOK /\ sender \in Senders /\ Linear
  BY DEF ChainInv, SenderInv, ControlOK, Chain
<1>2. phase = "run" /\ UNCHANGED <<sender, iter, phase>>
  BY DEF Signal, StartSource, StartThen, StartInner, StartWhenAll, ValueStage, ValueHostStage,
         ThrowHostStage, ValueContinuesOn, ValueChild, ErrorChild, Joined, Forked,
         ValueForkJoin, Forwarded, Calls
<1>3. UNCHANGED Promise!shape /\ Stages' = Stages
  BY <1>2, SamePromise
<1>4. CASE ValueHostStage(i)
  <2>1. i \in Stages /\ runs' = [runs EXCEPT ![i] = @ + 1]
    BY <1>4 DEF ValueHostStage, Stages
  <2>2. i \notin Before[i]
    <3>1. Ops = 1 .. Outermost /\ Outermost \in Nat
      BY <1>1, Tree
    <3>2. Before[i] \subseteq 1 .. i - 1
      BY <1>1, LineOrder
    <3> QED
      BY <3>1, <3>2
  <2>3. Promise!Run(i)
    BY <1>1, <1>2, <2>1, <2>2, MayRun
  <2> QED
    BY <2>1, <2>3 DEF Promise!Next
<1>5. CASE ~ValueHostStage(i)
  <2>1. UNCHANGED runs
    BY <1>5 DEF Signal, StartSource, StartThen, StartInner, StartWhenAll, ValueStage,
         ThrowHostStage, ValueContinuesOn, ValueChild, ErrorChild, Joined, Forked,
         ValueForkJoin, Forwarded, Nothing, outcomeVars
  <2> QED
    BY <1>2, <1>3, <2>1 DEF Promise!pipelineVars
<1> QED
  BY <1>4, <1>5

\* sync_wait returns a value after the last round, throws, or was stopped.
LEMMA ReturnImplements ==
  ASSUME ChainInv, OutcomeInv, Chain, ~(Stops /\ OnGraph(Outermost)), Return
  PROVE  Promise!Return \/ Promise!GiveUp
<1>1. SenderInv /\ BuildInv /\ HostInv /\ result \in {"none", "value", "error", "stopped"}
  BY DEF ChainInv, HostTypeOK
<1>2. phase = "run" /\ calls = <<>> /\ completions > 0 /\ UNCHANGED <<sender, runs>>
  BY DEF Return, Nothing, outcomeVars
<1>3. UNCHANGED Promise!shape /\ Stages' = Stages
  BY <1>2, SamePromise
<1>4. result # "none" /\ (result = "stopped" => Stops)
  BY <1>2 DEF OutcomeInv, StopInv
<1>5. phase' = CASE result = "error" -> "threw"
                 [] result = "stopped" /\ ~OnGraph(Outermost) -> "stopped"
                 [] OTHER -> "returned"
  BY Zenon DEF Return
<1>6. CASE result = "error"
  <2>1. phase' = "threw"
    BY <1>5, <1>6
  <2> QED
    BY <1>2, <1>3, <2>1 DEF Promise!GiveUp
<1>7. CASE result = "stopped"
  <2>1. phase' = "stopped"
    BY <1>4, <1>5, <1>7
  <2> QED
    BY <1>2, <1>3, <2>1 DEF Promise!GiveUp
<1>8. CASE result = "value"
  <2>1. phase' = "returned"
    BY <1>5, <1>8
  <2>2. thrown = {} /\ iter = sender.rounds /\ Counts(Final)
    BY <1>1, <1>2, <1>8 DEF HostInv
  <2>3. Quiet
    <3>1. ~Carrying
      BY <1>2 DEF Carrying, Pending
    <3> QED
      BY <1>1, <1>2, <3>1 DEF HostInv, Past
  <2>4. \A i \in Stages : runs[i] = sender.rounds
    BY <1>1, <1>2, <2>2, <2>3, AllRun
  <2> QED
    BY <1>2, <1>3, <2>1, <2>4 DEF Promise!Return
<1> QED
  BY <1>1, <1>4, <1>6, <1>7, <1>8

\* Every other step stutters.
LEMMA StepImplements ==
  ASSUME ChainInv, OutcomeInv, Chain, ~(Stops /\ OnGraph(Outermost)), Ordered, Ordered', [Next]_vars
  PROVE  [Promise!Next]_(Promise!pipelineVars)
<1>1. sender' = sender
  BY NextSender
<1>2. UNCHANGED Promise!shape /\ Stages' = Stages
  BY <1>1, SamePromise
<1>3. ASSUME UNCHANGED runs, phase \in {"connect", "run"}, phase' \in {"connect", "run"}
      PROVE  UNCHANGED Promise!pipelineVars
  BY <1>2, <1>3 DEF Promise!pipelineVars
<1>4. CASE Connect
  <2>1. phase = "connect" /\ phase' \in {"connect", "run", "aborted"} /\ UNCHANGED runs
    BY <1>4 DEF Connect, ConnectPlain, ConnectThen, ConnectThenThrows, ConnectThenWithoutNode,
         ConnectContinuesOn, ConnectFork, ConnectWhenAll, ConnectForkJoin, Connecting, ConnectAborts,
         outcomeVars
  <2> QED
    BY <1>3, <2>1 DEF Ordered
<1>5. ASSUME NEW i \in Ops, Signal(i)
      PROVE  [Promise!Next]_(Promise!pipelineVars)
  BY <1>5, SignalImplements
<1>6. CASE Complete \/ CompleteWithError \/ CompleteStopped \/ Repeat
  BY <1>3, <1>6 DEF Complete, CompleteWithError, CompleteStopped, Repeat, Calls, Nothing, outcomeVars
<1>7. CASE Return
  BY <1>7, ReturnImplements DEF Promise!Next
<1>8. CASE \E e \in Exec : StreamStep(e)
  BY <1>8, DeviceImplements
<1>9. CASE UNCHANGED vars
  <2>1. UNCHANGED <<runs, phase>>
    BY <1>9 DEF vars, controlVars, outcomeVars
  <2> QED
    BY <1>2, <2>1 DEF Promise!pipelineVars
<1> QED
  BY <1>4, <1>5, <1>6, <1>7, <1>8, <1>9 DEF Next, HostStep, Terminated

LEMMA InitImplements == Init => Promise!Init
BY DEF Init, Promise!Init, Stages

\* An orderly chain keeps its promise for any number of rounds, contexts and streams,
\* with the fences that its receivers skip: its stages run in their order, each once a
\* round, and sync_wait returns after all of them.  But not if the node of a stage cannot
\* be built, after which the rest is run all the same, and not if graph::sync_wait is
\* told that the sender was stopped, which it takes for a return.
THEOREM ChainKeepsPromise ==
  Spec /\ Linear /\ Orderly(sender.ops) /\ ~(Stops /\ OnGraph(Outermost)) /\ []~Broken => KeepsPromise
<1> DEFINE Sound == Chain /\ ~(Stops /\ OnGraph(Outermost))
<1>1. Init => Promise!Init
  BY InitImplements
<1>2. Sound /\ [Next]_vars => Sound'
  <2> SUFFICES ASSUME Sound, [Next]_vars
               PROVE  Sound'
    OBVIOUS
  <2>1. sender' = sender
    BY NextSender
  <2>2. (Chain' <=> Chain) /\ (Stops' <=> Stops) /\ Outermost' = Outermost
    BY <2>1, SameChain DEF Stops
  <2>3. OnGraph(Outermost)' <=> OnGraph(Outermost)
    BY <2>1 DEF OnGraph, CtxOf, Outermost
  <2> QED
    BY <2>2, <2>3
<1>3. ChainInv /\ OutcomeInv /\ Sound /\ ~Broken => Ordered
  BY OrderedChain
<1>4. ChainInv /\ OutcomeInv /\ Sound /\ Ordered /\ Ordered' /\ [Next]_vars
        => [Promise!Next]_(Promise!pipelineVars)
  BY StepImplements
<1>5. Linear /\ Orderly(sender.ops) /\ ~(Stops /\ OnGraph(Outermost)) => Sound
  BY DEF Chain
<1> HIDE DEF Sound
<1> QED
  BY <1>1, <1>2, <1>3, <1>4, <1>5, OutcomeInvariant, PTL DEF Spec, KeepsPromise, Promise!Spec

\* Nothing is broken where nothing may throw.
COROLLARY QuietChainKeepsPromise ==
  Spec /\ MaxThrows = 0 /\ Linear /\ Orderly(sender.ops) /\ ~(Stops /\ OnGraph(Outermost)) => KeepsPromise
<1> DEFINE Calm == MaxThrows = 0 /\ thrown = {}
<1>1. Init /\ MaxThrows = 0 => Calm
  BY DEF Init
<1>2. ChainInv /\ Calm /\ [Next]_vars => Calm'
  <2> SUFFICES ASSUME ChainInv, thrown = {}, [Next]_vars, thrown' # {}
               PROVE  MaxThrows # 0
    OBVIOUS
  <2>1. sender \in Senders /\ HostTypeOK
    BY DEF ChainInv, SenderInv, ControlOK
  <2>2. \E i : MayThrow(i)
    <3>1. CASE Connect
      BY <3>1, Zenon DEF Connect, ConnectPlain, ConnectThen, ConnectThenThrows, ConnectThenWithoutNode,
         ConnectContinuesOn, ConnectFork, ConnectWhenAll, ConnectForkJoin, ConnectAborts, outcomeVars
    <3>2. ASSUME NEW i \in Ops, Signal(i)
          PROVE  \E j : MayThrow(j)
      BY <3>2, Zenon DEF Signal, StartSource, StartThen, StartInner, StartWhenAll, ValueStage,
         ValueHostStage, ThrowHostStage, ValueContinuesOn, ValueChild, ErrorChild, Joined, Forked,
         ValueForkJoin, Forwarded, Nothing, outcomeVars
    <3>3. ~(Complete \/ CompleteWithError \/ CompleteStopped \/ Repeat \/ Return)
      BY DEF Complete, CompleteWithError, CompleteStopped, Repeat, Return, Nothing, outcomeVars
    <3>4. ~(\E e \in Exec : StreamStep(e)) /\ ~UNCHANGED vars
      BY DEF StreamStep, RetireLaunch, RunFunctor, outcomeVars, vars
    <3> QED
      BY <3>1, <3>2, <3>3, <3>4 DEF Next, HostStep, Terminated
  <2> QED
    BY <2>1, <2>2, ThrowsAllowed
<1>3. ChainInv /\ Calm => ~Broken
  BY DEF ChainInv, ErrInv, Broken, Stages
<1> HIDE DEF Calm
<1>4. Spec /\ MaxThrows = 0 => []~Broken
  BY <1>1, <1>2, <1>3, ChainInvariant, PTL DEF Spec
<1> QED
  BY <1>4, ChainKeepsPromise, PTL

-----------------------------------------------------------------------------
(***************************************************************************)
(* What an orderly chain leaves behind.                                    *)
(***************************************************************************)

\* Where such a chain leaves a context it fences, and it leaves one before a stage on
\* the host.
LEMMA OrderlyIsCareful ==
  ASSUME sender \in Senders, Chain
  PROVE  Careful
<1>1. Linear /\ \A w \in Ops : Kind(w) # "when_all"
  BY DEF Chain, Linear
<1>2. ASSUME NEW k \in Stages, OnGraph(k)
      PROVE  \E q \in Above[k] : /\ Catches(q, k)
                                 /\ \A i \in Stages : ~OnGraph(i) /\ i \in Above[k] => i \in Above[q]
  <2> DEFINE T == {m \in Ops : k <= m /\ \A x \in k .. m : CtxOf(x) = CtxOf(k)}
  <2>1. /\ k \in Ops /\ Kind(k) = "then" /\ Ops = 1 .. Outermost /\ Outermost \in Nat /\ Final = Outermost + 1
        /\ CtxOf(k) \in Context /\ Above[k] \subseteq 1 .. Final /\ \A i \in Above[k] : k < i
    <3>1. k \in Ops
      BY DEF Stages
    <3> QED
      BY <1>2, <3>1, Tree, AboveFacts DEF Stages, OnGraph
  <2>2. k \in T
    BY <2>1
  <2>3. PICK t \in T : \A x \in T : x <= t
    <3> HIDE DEF T
    <3>1. T \in SUBSET Ops
      BY DEF T
    <3> QED
      BY <2>2, <3>1, Extremes
  <2>4. t \in Ops /\ t \in Nat /\ k \in Nat /\ k <= t /\ CtxOf(t) = CtxOf(k) /\ \A x \in k .. t : CtxOf(x) = CtxOf(k)
    BY <2>1, <2>3
  <2> DEFINE q == t + 1
  <2>5. q \in 1 .. Final /\ k < q /\ q \in Above[k] /\ (t # Outermost => q \in Ops)
    BY <1>1, <2>1, <2>4, LineOrder
  <2>6. \A i \in Stages : ~OnGraph(i) /\ i \in Above[k] => i >= q /\ i \in Ops /\ i \in Nat
    <3> SUFFICES ASSUME NEW i \in Stages, ~OnGraph(i), i \in Above[k]
                 PROVE  i >= q /\ i \in Ops /\ i \in Nat
      OBVIOUS
    <3>1. i \in Ops /\ k < i /\ i \in Nat
      BY <2>1 DEF Stages
    <3>2. i \notin k .. t
      BY <2>1, <2>4 DEF OnGraph
    <3> QED
      BY <2>4, <3>1, <3>2
  <2>7. CASE t = Outermost
    <3>1. q = Final /\ WaitsOn(q, CtxOf(k))
      BY <2>1, <2>4, <2>7 DEF WaitsOn
    <3>2. Catches(q, k)
      BY <2>1, <3>1 DEF Catches
    <3>3. \A i \in Stages : ~(~OnGraph(i) /\ i \in Above[k])
      BY <2>1, <2>4, <2>6, <2>7
    <3> QED
      BY <2>5, <3>2, <3>3
  <2>8. CASE t # Outermost
    <3>1. q \in Ops /\ q \in Nat /\ q > 1 /\ q - 1 = t
      BY <2>1, <2>4, <2>5, <2>8
    <3>2. Kind(q) \in {"then", "continues_on"} /\ Child(q)[1] = t
      BY <1>1, <3>1, Line
    <3>3. CtxOf(q) # CtxOf(k)
      <4> SUFFICES ASSUME CtxOf(q) = CtxOf(k)
                   PROVE  FALSE
        OBVIOUS
      <4>1. \A x \in k .. q : x \in k .. t \/ x = q
        BY <2>4
      <4>2. q \in T
        BY <2>4, <2>5, <3>1, <4>1
      <4> QED
        BY <2>3, <2>4, <4>2
    <3>4. Kind(q) # "then"
      BY <1>1, <2>4, <3>1, <3>3, StageInside
    <3>5. Kind(q) = "continues_on" /\ OnGraph(t)
      BY <2>1, <2>4, <3>2, <3>4 DEF OnGraph
    <3>6. ~SkipScheduleFrom(q)
      BY <2>4, <3>1, <3>3, <3>5, LeavesWaiting
    <3>7. WaitsOn(q, CtxOf(k))
      BY <2>4, <3>1, <3>2, <3>5, <3>6 DEF WaitsOn
    <3>8. Catches(q, k)
      BY <2>1, <3>7 DEF Catches
    <3> HIDE DEF q
    <3>9. ASSUME NEW i \in Stages, ~OnGraph(i), i \in Above[k]
          PROVE  i \in Above[q]
      <4>1. i # q
        BY <3>4, <3>9 DEF Stages
      <4>2. q < i /\ i \in 1 .. Final
        BY <2>1, <2>6, <3>1, <3>9, <4>1
      <4> QED
        BY <1>1, <3>1, <4>2, LineOrder
    <3> QED
      BY <2>5, <3>8, <3>9
  <2> QED
    BY <2>7, <2>8
<1>3. \A k \in Stages : OnGraph(k) => \E q \in Above[k] : Catches(q, k)
  BY <1>2
<1>4. ASSUME NEW i \in Stages, NEW k \in Stages, OnGraph(k), ~OnGraph(i), i \in Above[k]
      PROVE  \E q \in Above[k] : i \in Above[q] /\ Catches(q, k)
  BY <1>2, <1>4
<1> QED
  BY <1>1, <1>3, <1>4 DEF Careful

\* The fences that are left are enough: whatever throws, when sync_wait of an orderly chain
\* has ended nothing of it is on the device.
THEOREM ChainsAreCareful == Spec => [](Linear /\ Orderly(sender.ops) => Careful /\ NothingInFlight)
<1>1. ChainInv /\ Linear /\ Orderly(sender.ops) => Careful
  BY OrderlyIsCareful DEF ChainInv, SenderInv, ControlOK, Chain
<1> QED
  BY <1>1, ChainInvariant, SenderNothingInFlight, PTL
=============================================================================
