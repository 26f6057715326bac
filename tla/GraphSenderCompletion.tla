------------------------ MODULE GraphSenderCompletion ------------------------
(***************************************************************************)
(* How a sender on graphs ends: it completes its consumer once, does not   *)
(* abort, reports what was thrown, and leaves nothing on the device.  And  *)
(* how it is repeated: the graphs of a chain are built once.               *)
(*                                                                         *)
(* All of it follows the calls that the host thread still has to make.  A  *)
(* sender is a tree, and a call travels along the path from an operation   *)
(* state to the consumer (Above).  Hence the first part derives from       *)
(* WellFormed what that path is like, and the invariants say where on it   *)
(* calls are: StackInv which call is pending behind which, ErrInv where    *)
(* errors come from, ReportInv where they have got to, CoverInv which one  *)
(* leads to the fence of what is on the device, RoundInv which graphs a    *)
(* value has submitted on its way.                                         *)
(***************************************************************************)
EXTENDS GraphSenderProofs, WellFoundedInduction, FiniteSetTheorems

-----------------------------------------------------------------------------
(***************************************************************************)
(* A sender is a tree of operation states.                                 *)
(***************************************************************************)

\* Operation state i is there and of that kind.
HasKind(i, kind) == i \in Ops /\ Kind(i) = kind

\* Every operation state but the outermost is inside of one other.
LEMMA Tree ==
  ASSUME sender \in Senders, NEW i \in Ops
  PROVE  /\ Ops = 1 .. Outermost /\ Outermost \in Ops /\ Outermost \in Nat /\ Final = Outermost + 1
         /\ Final \notin Ops /\ 1 .. Final = Ops \cup {Final}
         /\ Parent(i) \in 1 .. Final /\ i < Parent(i)
         /\ i = Outermost <=> Parent(i) = Final
         /\ i # Outermost => Parent(i) \in Ops /\ i \in Range(Child(Parent(i)))
         /\ \A j \in Ops : i \in Range(Child(j)) => j = Parent(i) /\ i # Outermost
<1>1. /\ Ops = 1 .. Outermost /\ Outermost \in Ops /\ Outermost \in Nat /\ Final = Outermost + 1
      /\ Final \notin Ops /\ 1 .. Final = Ops \cup {Final}
  BY Shape DEF Outermost, Final
<1>2. \A j \in Ops : Range(Child(j)) \subseteq 1 .. j - 1
  BY Children
<1>3. i # Outermost => \E j \in Ops : {m \in Ops : i \in Range(Child(m))} = {j}
  BY SenderAssumption DEF WellFormed, Ops, Outermost, Child
<1>4. CASE i = Outermost
  BY <1>1, <1>2, <1>4 DEF Parent
<1>5. CASE i # Outermost
  <2>1. PICK j \in Ops : {m \in Ops : i \in Range(Child(m))} = {j}
    BY <1>3, <1>5
  <2>2. Parent(i) = CHOOSE m \in Ops : i \in Range(Child(m))
    BY <1>5 DEF Parent
  <2>3. i \in Range(Child(j)) /\ \A m \in Ops : i \in Range(Child(m)) => m = j
    BY <2>1
  <2>4. Parent(i) = j
    BY <2>2, <2>3
  <2>5. i \in 1 .. j - 1
    BY <1>2, <2>3
  <2> QED
    BY <1>1, <1>5, <2>3, <2>4, <2>5
<1> QED
  BY <1>1, <1>4, <1>5

\* What is directly inside of an operation state of each kind.
LEMMA Inside ==
  ASSUME sender \in Senders, NEW i \in Ops
  PROVE  /\ Kind(i) \in {"schedule", "just", "just_stopped", "cache", "then", "continues_on",
                        "when_all", "fork", "fork_join"}
         /\ Child(i) \in Seq(Nat)
         /\ \A c \in Range(Child(i)) : c \in Ops /\ Parent(c) = i
         /\ Kind(i) \in Sources => Child(i) = <<>> /\ Range(Child(i)) = {}
         /\ Kind(i) \in {"then", "continues_on", "fork"} =>
              Child(i) = <<Child(i)[1]>> /\ Range(Child(i)) = {Child(i)[1]}
         /\ Kind(i) = "when_all" => Child(i) # <<>> /\ Child(i)[1] \in Range(Child(i))
         /\ Kind(i) = "fork_join" =>
              /\ Range(Child(i)) = {Child(i)[1], Child(i)[2]}
              /\ Kind(Child(i)[1]) = "fork" /\ Kind(Child(i)[2]) = "when_all"
         /\ Kind(i) = "fork" =>
              /\ CtxOf(i) \in Context
              /\ HasKind(Parent(i), "fork_join") /\ Child(Parent(i))[1] = i
         /\ Kind(i) = "cache" => EnvFork(i) \in Ops
<1>1. i \in 1 .. Len(sender.ops) /\ sender.ops[i] \in OpState /\ i \in DOMAIN sender.ops
  BY Shape DEF Ops
<1>2. Child(i) \in Seq(Nat) /\ Range(Child(i)) \subseteq 1 .. i - 1 /\ EnvFork(i) \in 0 .. i - 1
  BY Children
<1>3. \A j \in Ops :
        /\ Kind(j) \in Sources => Child(j) = <<>>
        /\ Kind(j) \in {"then", "continues_on", "fork"} => Len(Child(j)) = 1
        /\ Kind(j) = "when_all" => Child(j) # <<>>
        /\ Kind(j) = "fork_join" =>
             Len(Child(j)) = 2 /\ Kind(Child(j)[1]) = "fork" /\ Kind(Child(j)[2]) = "when_all"
        /\ Kind(j) = "cache" => EnvFork(j) # 0
        /\ Kind(j) = "fork" => j # Outermost /\ CtxOf(j) \in Context
        /\ Kind(j) = "fork" => \A m \in Ops : j \in Range(Child(m)) => Kind(m) = "fork_join"
  <2> TAKE j \in Ops
  <2> QED
    BY SenderAssumption DEF WellFormed, Ops, Outermost, Child, Kind, EnvFork, CtxOf
<1>4. \A j \in Ops : /\ Child(j) \in Seq(Nat) /\ Len(Child(j)) \in Nat
                     /\ DOMAIN Child(j) = 1 .. Len(Child(j))
                     /\ Child(j) # <<>> => Len(Child(j)) # 0
  <2> TAKE j \in Ops
  <2>1. Child(j) \in Seq(Nat)
    BY Children
  <2> QED
    BY <2>1, LenProperties, EmptySeq
<1>5. Kind(i) \in Sources => Child(i) = <<>> /\ Range(Child(i)) = {}
  BY <1>3, EmptySeq DEF Range
<1>6. Kind(i) \in {"then", "continues_on", "fork"} =>
              Child(i) = <<Child(i)[1]>> /\ Range(Child(i)) = {Child(i)[1]}
  BY <1>3, <1>4 DEF Range
<1>7. Kind(i) = "when_all" => Child(i) # <<>> /\ Child(i)[1] \in Range(Child(i))
  BY <1>3, <1>4 DEF Range
<1>8. \A j \in Ops : Kind(j) = "fork_join" => Range(Child(j)) = {Child(j)[1], Child(j)[2]}
  BY <1>3, <1>4 DEF Range
<1>9. Kind(i) = "fork" => HasKind(Parent(i), "fork_join") /\ Child(Parent(i))[1] = i
  <2> HAVE Kind(i) = "fork"
  <2>1. Parent(i) \in Ops /\ i \in Range(Child(Parent(i)))
    BY <1>3, Tree
  <2>2. Kind(Parent(i)) = "fork_join"
    BY <1>3, <2>1
  <2>3. i = Child(Parent(i))[1] \/ i = Child(Parent(i))[2]
    BY <1>8, <2>1, <2>2
  <2> QED
    BY <1>3, <2>1, <2>2, <2>3 DEF HasKind
<1>10. \A c \in Range(Child(i)) : c \in Ops /\ Parent(c) = i
  <2> TAKE c \in Range(Child(i))
  <2>1. c \in Ops
    BY <1>1, <1>2, Shape
  <2> QED
    BY <2>1, Tree
<1>11. Kind(i) = "cache" => EnvFork(i) \in Ops
  BY <1>1, <1>2, <1>3, Shape
<1>12. Kind(i) \in {"schedule", "just", "just_stopped", "cache", "then", "continues_on",
                        "when_all", "fork", "fork_join"}
  BY <1>1 DEF OpState, Kind
<1> QED
  BY <1>2, <1>3, <1>5, <1>6, <1>7, <1>8, <1>9, <1>10, <1>11, <1>12

\* A set of operation states has one whose parent is not in it.
LEMMA Climb ==
  ASSUME sender \in Senders, NEW T \in SUBSET Ops, T # {}
  PROVE  \E i \in T : Parent(i) \notin T
<1> DEFINE Less == {ss \in Nat \X Nat : ss[1] < ss[2]}
           D == {Final - i : i \in T}
<1>1. IsWellFoundedOn(Less, Nat)
  BY NatLessThanWellFounded DEF OpToRel
<1>2. \A i \in T : i \in Ops /\ Final - i \in Nat /\ i < Parent(i) /\ Parent(i) \in Nat
                   /\ Final \in Nat /\ i \in Nat /\ Parent(i) <= Final
  BY Tree
<1>3. D \subseteq Nat /\ D # {}
  BY <1>2
<1>4. PICK x \in D : \A y \in D : <<y, x>> \notin Less
  <2> HIDE DEF Less, D
  <2> QED
    BY <1>1, <1>3, WFMin
<1>5. PICK i \in T : x = Final - i
  BY <1>4
<1>6. ASSUME Parent(i) \in T
      PROVE  FALSE
  <2>1. Final - Parent(i) \in D /\ Final - Parent(i) < x /\ x \in Nat /\ Final - Parent(i) \in Nat
    BY <1>2, <1>5, <1>6
  <2> QED
    BY <1>4, <2>1
<1> QED
  BY <1>5, <1>6

\* The equation of Above.
LEMMA AboveIs ==
  ASSUME sender \in Senders
  PROVE  \A i \in 1 .. Final : Above[i] = IF i = Final THEN {} ELSE {Parent(i)} \cup Above[Parent(i)]
<1> DEFINE I == 1 .. Final
           F(f) == [i \in I |-> IF i = Final THEN {} ELSE {Parent(i)} \cup f[Parent(i)]]
           Closed(S) == \A j \in S : j # Final => Parent(j) \in S
           L == [i \in I |-> {p \in I : \A S \in SUBSET I :
                                  Closed(S) /\ (i # Final => Parent(i) \in S) => p \in S}]
<1>1. \A i \in I : i # Final => Parent(i) \in I
  BY Tree, Shape DEF Final
<1>2. ASSUME NEW i \in I
      PROVE  L[i] = IF i = Final THEN {} ELSE {Parent(i)} \cup L[Parent(i)]
  <2>1. CASE i = Final
    <3>1. {} \in SUBSET I /\ Closed({})
      OBVIOUS
    <3> QED
      BY <2>1, <3>1
  <2>2. CASE i # Final
    <3> DEFINE m == Parent(i)
               U == {m} \cup L[m]
    <3>1. m \in I
      BY <1>1, <2>2
    <3> HIDE DEF m
    <3>2. U \in SUBSET I /\ m \in U
      BY <3>1
    <3>3. Closed(U)
      <4> SUFFICES ASSUME NEW j \in U, j # Final
                   PROVE  Parent(j) \in L[m]
        BY DEF m
      <4>1. Parent(j) \in I
        BY <1>1, <3>2
      <4>2. ASSUME NEW S \in SUBSET I, Closed(S), m # Final => Parent(m) \in S
            PROVE  Parent(j) \in S
        BY <3>1, <4>2
      <4> QED
        BY <3>1, <4>1, <4>2
    <3>4. L[i] \subseteq U
      BY <2>2, <3>2, <3>3 DEF m
    <3>5. U \subseteq L[i]
      <4> SUFFICES ASSUME NEW p \in U, NEW S \in SUBSET I, Closed(S), Parent(i) \in S
                   PROVE  p \in S
        BY <2>2, <3>2
      <4>1. m \in S
        BY DEF m
      <4>2. m # Final => Parent(m) \in S
        BY <4>1
      <4> QED
        BY <3>1, <4>1, <4>2
    <3> HIDE DEF L
    <3> QED
      BY <2>2, <3>4, <3>5 DEF m
  <2> QED
    BY <2>1, <2>2
<1> HIDE DEF L
<1>3. L = [i \in I |-> L[i]]
  BY DEF L
<1>4. L = F(L)
  BY <1>2, <1>3
<1> DEFINE g == CHOOSE f : f = F(f)
<1>5. g = F(g)
  BY <1>4
<1>6. Above = g
  BY DEF Above
<1> HIDE DEF g
<1> QED
  BY <1>5, <1>6

\* Above[i] is the least set that holds the parents of i and of its members.
LEMMA AboveLeast ==
  ASSUME sender \in Senders
  PROVE  /\ Above[Final] = {}
         /\ \A i \in Ops : Above[i] = {Parent(i)} \cup Above[Parent(i)]
         /\ \A i \in Ops : \A S :
              Parent(i) \in S /\ (\A j \in S : j \in Ops => Parent(j) \in S) => Above[i] \subseteq S
<1>1. Above[Final] = {}
  <2>1. Final \in 1 .. Final
    BY Shape DEF Final
  <2> QED
    BY <2>1, AboveIs
<1>2. ASSUME NEW i \in Ops
      PROVE  Above[i] = {Parent(i)} \cup Above[Parent(i)]
  <2>1. i \in 1 .. Final /\ i # Final
    BY Tree
  <2> QED
    BY <2>1, AboveIs
<1>3. ASSUME NEW S, \A j \in S : j \in Ops => Parent(j) \in S
      PROVE  \A i \in Ops : Parent(i) \in S => Above[i] \subseteq S
  <2> DEFINE T == {j \in Ops : Parent(j) \in S /\ ~(Above[j] \subseteq S)}
  <2>1. ASSUME T # {}
        PROVE  FALSE
    <3>1. PICK j \in T : Parent(j) \notin T
      <4> HIDE DEF T
      <4>1. T \in SUBSET Ops
        BY DEF T
      <4> QED
        BY <2>1, <4>1, Climb
    <3>2. j \in Ops /\ Parent(j) \in S /\ ~(Above[j] \subseteq S)
      BY <3>1
    <3>3. Parent(j) \in Ops \/ Parent(j) = Final
      BY <3>2, Tree
    <3>4. Above[Parent(j)] \subseteq S
      BY <1>1, <1>3, <3>1, <3>2, <3>3
    <3> QED
      BY <1>2, <3>2, <3>4
  <2> QED
    BY <2>1
<1> QED
  BY <1>1, <1>2, <1>3

\* Above is the path from an operation state to the consumer.
LEMMA AboveFacts ==
  ASSUME sender \in Senders, NEW i \in Ops
  PROVE  /\ Above[Final] = {}
         /\ Above[i] = {Parent(i)} \cup Above[Parent(i)]
         /\ Above[i] \subseteq 1 .. Final /\ i \notin Above[i]
         /\ \A p \in Above[i] : i < p /\ Above[p] \subseteq Above[i]
         /\ Final \in Above[i]
         /\ i # Outermost => Outermost \in Above[i]
<1>1. /\ Above[Final] = {}
      /\ \A j \in Ops : Above[j] = {Parent(j)} \cup Above[Parent(j)]
      /\ \A j \in Ops : \A S :
           Parent(j) \in S /\ (\A m \in S : m \in Ops => Parent(m) \in S) => Above[j] \subseteq S
  BY AboveLeast
<1>2. \A j \in Ops : /\ j \in Nat /\ Final \in Nat /\ Parent(j) \in 1 .. Final /\ j < Parent(j)
                     /\ (j = Outermost <=> Parent(j) = Final) /\ Final \notin Ops
                     /\ (j # Outermost => Parent(j) \in Ops) /\ 1 .. Final = Ops \cup {Final}
  BY Tree
<1>3. Above[i] \subseteq (i + 1) .. Final
  <2> DEFINE S == (i + 1) .. Final
  <2>1. Parent(i) \in S /\ \A j \in S : j \in Ops => Parent(j) \in S
    BY <1>2
  <2> HIDE DEF S
  <2>2. Above[i] \subseteq S
    BY <1>1, <2>1
  <2> QED
    BY <2>2 DEF S
<1>4. \A p \in Above[i] : Above[p] \subseteq Above[i]
  <2> DEFINE S == {p \in Above[i] : Above[p] \subseteq Above[i]}
  <2>1. Parent(i) \in S
    BY <1>1
  <2>2. \A j \in S : j \in Ops => Parent(j) \in S
    BY <1>1
  <2> HIDE DEF S
  <2>3. Above[i] \subseteq S
    BY <1>1, <2>1, <2>2
  <2> QED
    BY <2>3 DEF S
<1>5. Final \in Above[i]
  <2> DEFINE T == {j \in Ops : Final \notin Above[j]}
  <2>1. ASSUME T # {}
        PROVE  FALSE
    <3> HIDE DEF T
    <3>0. T \in SUBSET Ops
      BY DEF T
    <3>1. PICK j \in T : Parent(j) \notin T
      BY <2>1, <3>0, Climb
    <3>2. j \in Ops /\ Final \notin Above[j] /\ (Parent(j) \in Ops => Final \in Above[Parent(j)])
      BY <3>1 DEF T
    <3> QED
      BY <1>1, <1>2, <3>2
  <2> QED
    BY <2>1
<1>6. ASSUME i # Outermost
      PROVE  Outermost \in Above[i]
  <2> DEFINE T == {j \in Ops : j # Outermost /\ Outermost \notin Above[j]}
  <2>1. ASSUME T # {}
        PROVE  FALSE
    <3> HIDE DEF T
    <3>0. T \in SUBSET Ops
      BY DEF T
    <3>1. PICK j \in T : Parent(j) \notin T
      BY <2>1, <3>0, Climb
    <3>2. /\ j \in Ops /\ j # Outermost /\ Outermost \notin Above[j]
          /\ Parent(j) \in Ops => Parent(j) = Outermost \/ Outermost \in Above[Parent(j)]
      BY <3>1 DEF T
    <3> QED
      BY <1>1, <1>2, <3>2
  <2> QED
    BY <1>6, <2>1
<1>7. \A p \in Above[i] : p \in 1 .. Final /\ i < p
  BY <1>2, <1>3
<1>8. i \notin Above[i]
  BY <1>2, <1>7
<1> QED
  BY <1>1, <1>4, <1>5, <1>6, <1>7, <1>8

\* On that path, one of two operation states is inside of the other, and between
\* i and one that it is inside of lies a child of the latter.
LEMMA AbovePath ==
  ASSUME sender \in Senders, NEW i \in Ops
  PROVE  /\ \A p, q \in Above[i] : p = q \/ p \in Above[q] \/ q \in Above[p]
         /\ \A p \in Above[i] : p \in Ops => \E c \in Range(Child(p)) : c = i \/ c \in Above[i]
<1>1. \A j \in Ops : /\ Above[Final] = {}
                     /\ Above[j] = {Parent(j)} \cup Above[Parent(j)]
                     /\ Parent(j) \in Ops \/ Parent(j) = Final
  BY AboveFacts, Tree
<1>2. \A p, q \in Above[i] : p = q \/ p \in Above[q] \/ q \in Above[p]
  <2> DEFINE T == {j \in Ops : \E p, q \in Above[j] : ~(p = q \/ p \in Above[q] \/ q \in Above[p])}
  <2>1. ASSUME T # {}
        PROVE  FALSE
    <3> HIDE DEF T
    <3>0. T \in SUBSET Ops
      BY DEF T
    <3>1. PICK j \in T : Parent(j) \notin T
      BY <2>1, <3>0, Climb
    <3>2. PICK p \in Above[j], q \in Above[j] : ~(p = q \/ p \in Above[q] \/ q \in Above[p])
      BY <3>1 DEF T
    <3>3. /\ j \in Ops
          /\ Parent(j) \in Ops => \A r, t \in Above[Parent(j)] : r = t \/ r \in Above[t] \/ t \in Above[r]
      BY <3>1 DEF T
    <3> QED
      BY <1>1, <3>2, <3>3
  <2> QED
    BY <2>1
<1>3. \A p \in Above[i] : p \in Ops => \E c \in Range(Child(p)) : c = i \/ c \in Above[i]
  <2> DEFINE S == {p \in Above[i] : p \in Ops => \E c \in Range(Child(p)) : c = i \/ c \in Above[i]}
  <2>1. Parent(i) \in S
    BY <1>1, Tree
  <2>2. \A j \in S : j \in Ops => Parent(j) \in S
    <3> SUFFICES ASSUME NEW j \in S, j \in Ops
                 PROVE  Parent(j) \in S
      OBVIOUS
    <3>1. Parent(j) \in Above[i]
      BY <1>1, AboveFacts
    <3>2. Parent(j) \in Ops => j \in Range(Child(Parent(j)))
      BY Tree
    <3> QED
      BY <3>1, <3>2
  <2> HIDE DEF S
  <2>3. Above[i] \subseteq S
    BY <2>1, <2>2, AboveLeast
  <2> QED
    BY <2>3 DEF S
<1> QED
  BY <1>2, <1>3

\* What directly precedes an operation state.
Inner(i) == Range(Child(i)) \cup IF Kind(i) = "cache" THEN {EnvFork(i)} ELSE {}

\* The equation of Before.
LEMMA BeforeIs ==
  ASSUME sender \in Senders
  PROVE  \A i \in Ops : Before[i] = Inner(i) \cup UNION {Before[j] : j \in Inner(i)}
<1> DEFINE F(h) == [i \in Ops |-> Inner(i) \cup UNION {h[j] : j \in Inner(i)}]
           Closed(S) == \A j \in S : Inner(j) \subseteq S
           L == [i \in Ops |-> {p \in Ops : \A S \in SUBSET Ops : Closed(S) /\ Inner(i) \subseteq S => p \in S}]
<1>1. \A i \in Ops : Inner(i) \subseteq Ops
  BY Inside DEF Inner
<1>2. ASSUME NEW i \in Ops
      PROVE  L[i] = Inner(i) \cup UNION {L[j] : j \in Inner(i)}
  <2> DEFINE U == Inner(i) \cup UNION {L[j] : j \in Inner(i)}
  <2>1. U \in SUBSET Ops /\ Inner(i) \subseteq U
    BY <1>1
  <2>2. Closed(U)
    <3> SUFFICES ASSUME NEW j \in U, NEW p \in Inner(j)
                 PROVE  p \in U
      OBVIOUS
    <3>0. p \in Ops /\ j \in Ops
      BY <1>1, <2>1
    <3>1. CASE j \in Inner(i)
      <4>1. p \in L[j]
        BY <3>0
      <4> QED
        BY <3>1, <4>1
    <3>2. CASE \E m \in Inner(i) : j \in L[m]
      <4>1. PICK m \in Inner(i) : j \in L[m]
        BY <3>2
      <4>2. m \in Ops
        BY <1>1
      <4>3. p \in L[m]
        <5> SUFFICES ASSUME NEW S \in SUBSET Ops, Closed(S), Inner(m) \subseteq S
                     PROVE  p \in S
          BY <3>0, <4>2
        <5>1. j \in S
          BY <4>1, <4>2
        <5> QED
          BY <5>1
      <4> HIDE DEF L
      <4> QED
        BY <4>3
    <3> QED
      BY <3>1, <3>2
  <2>3. L[i] \subseteq U
    BY <2>1, <2>2
  <2>4. U \subseteq L[i]
    <3> SUFFICES ASSUME NEW p \in U, NEW S \in SUBSET Ops, Closed(S), Inner(i) \subseteq S
                 PROVE  p \in S
      BY <2>1
    <3>1. CASE p \in Inner(i)
      BY <3>1
    <3>2. CASE \E m \in Inner(i) : p \in L[m]
      <4>1. PICK m \in Inner(i) : p \in L[m]
        BY <3>2
      <4>2. m \in Ops /\ Inner(m) \subseteq S
        BY <1>1
      <4> QED
        BY <4>1, <4>2
    <3> QED
      BY <3>1, <3>2
  <2> HIDE DEF L
  <2> QED
    BY <2>3, <2>4
<1> HIDE DEF L
<1>3. L = [i \in Ops |-> L[i]]
  BY DEF L
<1>4. L = F(L)
  BY <1>2, <1>3
<1> DEFINE g == CHOOSE h : h = F(h)
<1>5. g = F(g)
  BY <1>4
<1>6. Before = g
  BY DEF Before, Inner
<1> HIDE DEF g
<1> QED
  BY <1>5, <1>6

\* What an operation state is inside of comes after it.
LEMMA InBefore ==
  ASSUME sender \in Senders, NEW i \in Ops
  PROVE  \A w \in Above[i] : w \in Ops => i \in Before[w]
<1> DEFINE S == {w \in Above[i] : w \in Ops => i \in Before[w]}
<1>1. ASSUME NEW j \in Ops, NEW w \in Ops, Parent(j) = w, j = i \/ i \in Before[j]
      PROVE  i \in Before[w]
  <2>1. j \in Range(Child(w))
    BY <1>1, Tree
  <2> QED
    BY <1>1, <2>1, BeforeIs DEF Inner
<1>2. Parent(i) \in Above[i] /\ \A j \in Above[i] : j \in Ops => Parent(j) \in Above[i]
  BY AboveFacts
<1>3. Parent(i) \in S /\ \A j \in S : j \in Ops => Parent(j) \in S
  BY <1>1, <1>2
<1> HIDE DEF S
<1>4. Above[i] \subseteq S
  BY <1>3, AboveLeast
<1> QED
  BY <1>4 DEF S

-----------------------------------------------------------------------------
(***************************************************************************)
(* The pending calls.                                                      *)
(***************************************************************************)

\* The joins and the fork sides of the sender.
WhenAlls == {i \in Ops : Kind(i) = "when_all"}
Forks == {i \in Ops : Kind(i) = "fork"}

\* The join side of the fork_join that i is the fork side of.
Join(i) == Child(Parent(i))[2]

\* Nothing of this depends on more than the sender.
LEMMA SameTree ==
  ASSUME sender' = sender
  PROVE  /\ Above' = Above /\ Stages' = Stages /\ Before' = Before /\ ExecEnv' = ExecEnv
         /\ WhenAlls' = WhenAlls /\ Ops' = Ops /\ Final' = Final /\ Outermost' = Outermost
         /\ Forks' = Forks /\ \A i : Join(i)' = Join(i)
<1>1. Above' = Above
  BY DEF Above, Parent, Final, Outermost, Ops, Child
<1>2. Stages' = Stages
  BY DEF Stages, Ops, Kind
<1>3. Before' = Before
  BY DEF Before, Ops, Child, Kind, EnvFork
<1>4. ExecEnv' = ExecEnv
  BY DEF ExecEnv, Final, OnGraph, CtxOf, Parent, Outermost, Ops, Child, Kind
<1>5. WhenAlls' = WhenAlls
  BY DEF WhenAlls, Ops, Kind
<1>6. Forks' = Forks /\ \A i : Join(i)' = Join(i)
  BY DEF Forks, Ops, Kind, Join, Parent, Child, Final, Outermost
<1> QED
  BY <1>1, <1>2, <1>3, <1>4, <1>5, <1>6 DEF Ops, Final, Outermost

\* The operation states around the one that has made call c when c is over: the
\* parents of an operation state that is started, which is inside of them until
\* it completes, and a receiver that is called with its own parents.
Over(c) == IF c.sig \in {"start", "joined"} THEN Above[c.op] ELSE {c.op} \cup Above[c.op]

\* A call inside of a when_all has the code of that when_all pending after it.
StackInv ==
  /\ \A n \in DOMAIN calls :
       /\ calls[n].sig = "joined" => calls[n].op \in WhenAlls
       /\ calls[n].sig = "start" => calls[n].op \in Ops
       /\ \A w \in Over(calls[n]) \cap WhenAlls :
            \E m \in DOMAIN calls : n < m /\ calls[m] = Call("joined", w)
  /\ phase # "run" => calls = <<>>
  /\ phase = "connect" => completions = 0

\* A stage that failed while it was connected has still its error to report.
Broken == \E i \in Ops : Kind(i) = "then" /\ error[i]

\* Else, only a when_all keeps calls pending behind those of its children, and
\* the last call is the one that leads to the consumer.
OnceInv ==
  ~Broken =>
    /\ completions <= 1
    /\ calls # <<>> => completions = 0
    /\ \A n \in DOMAIN calls : n < Len(calls) => Over(calls[n]) \cap WhenAlls # {}

\* The calls that are pending after a call: those it makes, then the earlier ones.
LEMMA Moved ==
  ASSUME HostTypeOK, NEW sig, NEW i, NEW made \in Seq(CallRecord), Calls(sig, i, made)
  PROVE  /\ phase = "run" /\ UNCHANGED <<sender, phase, iter, cursor, anchor>>
         /\ calls # <<>> /\ 1 \in DOMAIN calls /\ calls[1] = Call(sig, i)
         /\ calls' \in Seq(CallRecord)
         /\ DOMAIN calls = 1 .. Len(calls) /\ Len(calls) \in Nat
         /\ DOMAIN made = 1 .. Len(made) /\ Len(made) \in Nat
         /\ DOMAIN calls' = 1 .. Len(calls') /\ Len(calls') = Len(made) + Len(calls) - 1
         /\ \A n \in DOMAIN made : n \in DOMAIN calls' /\ calls'[n] = made[n]
         /\ \A n \in DOMAIN calls : n > 1 =>
              n - 1 + Len(made) \in DOMAIN calls' /\ calls'[n - 1 + Len(made)] = calls[n]
         /\ \A n \in DOMAIN calls' :
              \/ n \in DOMAIN made
              \/ \E m \in DOMAIN calls : m > 1 /\ n = m - 1 + Len(made)
<1>1. /\ calls # <<>> /\ calls \in Seq(CallRecord) /\ calls' = made \o Tail(calls)
      /\ Head(calls) = Call(sig, i) /\ phase = "run"
      /\ UNCHANGED <<sender, phase, iter, cursor, anchor>>
  BY DEF Calls, HostTypeOK
<1>2. /\ Tail(calls) \in Seq(CallRecord) /\ Len(Tail(calls)) = Len(calls) - 1
      /\ \A n \in 1 .. Len(Tail(calls)) : Tail(calls)[n] = calls[n + 1]
      /\ Len(calls) \in Nat /\ DOMAIN calls = 1 .. Len(calls) /\ Len(calls) # 0
      /\ calls[1] = Call(sig, i)
  BY <1>1, HeadTailProperties, LenProperties, EmptySeq, HeadElement
<1>3. /\ calls' \in Seq(CallRecord) /\ Len(calls') = Len(made) + Len(calls) - 1
      /\ \A n \in 1 .. Len(made) : calls'[n] = made[n]
      /\ \A n \in (Len(made) + 1) .. (Len(made) + Len(calls) - 1) : calls'[n] = calls[n - Len(made) + 1]
      /\ Len(made) \in Nat /\ DOMAIN made = 1 .. Len(made) /\ DOMAIN calls' = 1 .. Len(calls')
  <2>1. /\ Len(calls') = Len(made) + Len(Tail(calls)) /\ calls' \in Seq(CallRecord)
        /\ \A n \in 1 .. Len(made) + Len(Tail(calls)) :
             calls'[n] = IF n <= Len(made) THEN made[n] ELSE Tail(calls)[n - Len(made)]
    BY <1>1, <1>2, ConcatProperties
  <2>2. Len(made) \in Nat /\ DOMAIN made = 1 .. Len(made) /\ DOMAIN calls' = 1 .. Len(calls')
    BY <2>1, LenProperties
  <2> QED
    BY <1>2, <2>1, <2>2
<1>4. ASSUME NEW n \in DOMAIN calls, n > 1
      PROVE  n - 1 + Len(made) \in DOMAIN calls' /\ calls'[n - 1 + Len(made)] = calls[n]
  <2> DEFINE k == n - 1 + Len(made)
  <2>1. k \in (Len(made) + 1) .. (Len(made) + Len(calls) - 1) /\ k - Len(made) + 1 = n
        /\ k \in 1 .. Len(calls')
    BY <1>2, <1>3, <1>4
  <2> HIDE DEF k
  <2>2. k \in DOMAIN calls' /\ calls'[k] = calls[n]
    BY <1>3, <2>1
  <2> QED
    BY <2>2 DEF k
<1>5. ASSUME NEW n \in DOMAIN calls', n \notin DOMAIN made
      PROVE  \E m \in DOMAIN calls : m > 1 /\ n = m - 1 + Len(made)
  <2>1. n - Len(made) + 1 \in DOMAIN calls /\ n - Len(made) + 1 > 1
        /\ n = (n - Len(made) + 1) - 1 + Len(made)
    BY <1>2, <1>3, <1>5
  <2> QED
    BY <2>1
<1> QED
  BY <1>1, <1>2, <1>3, <1>4, <1>5

\* A call keeps the stack in order if those it makes are inside of the same
\* when_alls as it was itself, or have theirs pending after them.
LEMMA Pushed ==
  ASSUME sender \in Senders, HostTypeOK, StackInv, OnceInv, NEW sig, NEW i,
         NEW made \in Seq(CallRecord), Calls(sig, i, made),
         \/ completions' = completions
         \/ completions' = completions + 1 /\ (~Broken => calls' = <<>>),
         \A n \in DOMAIN made :
           /\ made[n].sig = "joined" => made[n].op \in WhenAlls
           /\ made[n].sig = "start" => made[n].op \in Ops
           /\ \A w \in Over(made[n]) \cap WhenAlls :
                \/ w \in Over(Call(sig, i))
                \/ \E m \in DOMAIN made : n < m /\ made[m] = Call("joined", w),
         Broken <=> Broken',
         ~Broken => \A n \in DOMAIN made :
           \/ Over(made[n]) \cap WhenAlls # {}
           \/ n = Len(made) /\ Over(Call(sig, i)) \cap WhenAlls = {}
  PROVE  StackInv' /\ OnceInv'
<1>1. /\ phase = "run" /\ UNCHANGED <<sender, phase, iter, cursor, anchor>>
      /\ calls # <<>> /\ 1 \in DOMAIN calls /\ calls[1] = Call(sig, i)
      /\ calls' \in Seq(CallRecord)
      /\ DOMAIN calls = 1 .. Len(calls) /\ Len(calls) \in Nat
      /\ DOMAIN made = 1 .. Len(made) /\ Len(made) \in Nat
      /\ DOMAIN calls' = 1 .. Len(calls') /\ Len(calls') = Len(made) + Len(calls) - 1
      /\ \A n \in DOMAIN made : n \in DOMAIN calls' /\ calls'[n] = made[n]
      /\ \A n \in DOMAIN calls : n > 1 =>
           n - 1 + Len(made) \in DOMAIN calls' /\ calls'[n - 1 + Len(made)] = calls[n]
      /\ \A n \in DOMAIN calls' :
           \/ n \in DOMAIN made
           \/ \E m \in DOMAIN calls : m > 1 /\ n = m - 1 + Len(made)
  BY Moved
<1>2. /\ Above' = Above /\ WhenAlls' = WhenAlls /\ Ops' = Ops
      /\ \A c : Over(c)' = Over(c)
  <2>1. Above' = Above /\ WhenAlls' = WhenAlls /\ Ops' = Ops
    BY <1>1, SameTree
  <2> QED
    BY <2>1 DEF Over
<1>3. \A w \in Over(Call(sig, i)) \cap WhenAlls :
        \E m \in DOMAIN calls' : m > Len(made) /\ calls'[m] = Call("joined", w)
  <2> TAKE w \in Over(Call(sig, i)) \cap WhenAlls
  <2>1. PICK m \in DOMAIN calls : 1 < m /\ calls[m] = Call("joined", w)
    BY <1>1 DEF StackInv
  <2> QED
    BY <1>1, <2>1
<1>4. ASSUME NEW n \in DOMAIN calls'
      PROVE  /\ calls'[n].sig = "joined" => calls'[n].op \in WhenAlls
             /\ calls'[n].sig = "start" => calls'[n].op \in Ops
             /\ \A w \in Over(calls'[n]) \cap WhenAlls :
                  \E m \in DOMAIN calls' : n < m /\ calls'[m] = Call("joined", w)
  <2>1. CASE n \in DOMAIN made
    <3>1. calls'[n] = made[n] /\ n <= Len(made) /\ n \in Nat
      BY <1>1, <2>1
    <3>2. ASSUME NEW w \in Over(made[n]) \cap WhenAlls
          PROVE  \E m \in DOMAIN calls' : n < m /\ calls'[m] = Call("joined", w)
      <4>1. CASE w \in Over(Call(sig, i))
        BY <1>1, <1>3, <3>1, <4>1
      <4>2. CASE \E m \in DOMAIN made : n < m /\ made[m] = Call("joined", w)
        BY <1>1, <4>2
      <4> QED
        BY <2>1, <3>2, <4>1, <4>2
    <3> QED
      BY <2>1, <3>1, <3>2
  <2>2. CASE \E m \in DOMAIN calls : m > 1 /\ n = m - 1 + Len(made)
    <3>1. PICK m \in DOMAIN calls : m > 1 /\ n = m - 1 + Len(made)
      BY <2>2
    <3>2. calls'[n] = calls[m]
      BY <1>1, <3>1
    <3>3. ASSUME NEW w \in Over(calls[m]) \cap WhenAlls
          PROVE  \E k \in DOMAIN calls' : n < k /\ calls'[k] = Call("joined", w)
      <4>1. PICK k \in DOMAIN calls : m < k /\ calls[k] = Call("joined", w)
        BY DEF StackInv
      <4>2. k > 1 /\ n < k - 1 + Len(made)
        BY <1>1, <3>1, <4>1
      <4> QED
        BY <1>1, <4>1, <4>2
    <3> QED
      BY <3>2, <3>3 DEF StackInv
  <2> QED
    BY <1>1, <2>1, <2>2
<1>5. StackInv'
  BY <1>1, <1>2, <1>4 DEF StackInv
<1>6. ASSUME ~Broken, NEW n \in DOMAIN calls', n < Len(calls')
      PROVE  Over(calls'[n]) \cap WhenAlls # {}
  <2>1. CASE n \in DOMAIN made
    <3>1. calls'[n] = made[n]
      BY <1>1, <2>1
    <3>2. ASSUME n = Len(made)
          PROVE  Over(Call(sig, i)) \cap WhenAlls # {}
      BY <1>1, <1>6, <3>2 DEF OnceInv
    <3> QED
      BY <1>6, <2>1, <3>1, <3>2
  <2>2. CASE \E m \in DOMAIN calls : m > 1 /\ n = m - 1 + Len(made)
    <3>1. PICK m \in DOMAIN calls : m > 1 /\ n = m - 1 + Len(made)
      BY <2>2
    <3>2. calls'[n] = calls[m] /\ m < Len(calls)
      BY <1>1, <1>6, <3>1
    <3> QED
      BY <1>6, <3>2 DEF OnceInv
  <2> QED
    BY <1>1, <2>1, <2>2
<1>7. OnceInv'
  BY <1>1, <1>2, <1>6 DEF OnceInv
<1> QED
  BY <1>5, <1>7

\* What is around the calls that an operation state makes.
LEMMA OverCalls ==
  ASSUME sender \in Senders, NEW i \in Ops
  PROVE  /\ Over(Call("start", i)) = Above[i] /\ Over(Call("joined", i)) = Above[i]
         /\ \A sig \in {"value", "error", "stopped"} :
              Over(Call(sig, Parent(i))) = Above[i] /\ Over(Call(sig, i)) = {i} \cup Above[i]
         /\ \A c \in Range(Child(i)) : Over(Call("start", c)) = {i} \cup Above[i]
         /\ Kind(i) = "fork" => /\ Over(Call("start", Child(Parent(i))[2])) = Above[i]
                                /\ Child(Parent(i))[2] \in Ops
<1>1. Above[i] = {Parent(i)} \cup Above[Parent(i)]
  BY AboveFacts
<1>2. \A c \in Range(Child(i)) : Above[c] = {i} \cup Above[i]
  BY Inside, AboveFacts
<1>3. ASSUME Kind(i) = "fork"
      PROVE  /\ Above[Child(Parent(i))[2]] = Above[i]
             /\ Child(Parent(i))[2] \in Ops
  <2>1. Parent(i) \in Ops /\ Kind(Parent(i)) = "fork_join"
    BY <1>3, Inside DEF HasKind
  <2>2. Child(Parent(i))[2] \in Ops /\ Parent(Child(Parent(i))[2]) = Parent(i)
    BY <2>1, Inside
  <2> QED
    BY <1>1, <2>2, AboveFacts
<1> QED
  BY <1>1, <1>2, <1>3 DEF Over, Call

\* Only the construction of a stage breaks it; what a when_all stores does not.
LEMMA SameBroken ==
  ASSUME sender' = sender, HostTypeOK,
         error' = error \/ \E i \in WhenAlls : error' = [error EXCEPT ![i] = TRUE]
  PROVE  Broken' <=> Broken
<1>1. Ops' = Ops /\ \A j : Kind(j)' = Kind(j)
  BY DEF Ops, Kind
<1>2. \A j \in Ops : Kind(j) = "then" => error'[j] = error[j]
  BY DEF WhenAlls, HostTypeOK
<1> QED
  BY <1>1, <1>2 DEF Broken

\* A call that makes one other call inside of the same when_alls.
LEMMA PushedOne ==
  ASSUME sender \in Senders, HostTypeOK, StackInv, OnceInv, NEW sig, NEW i, NEW c \in CallRecord,
         Calls(sig, i, <<c>>), completions' = completions, error' = error,
         c.sig # "joined", c.sig = "start" => c.op \in Ops,
         Over(c) \cap WhenAlls = Over(Call(sig, i)) \cap WhenAlls
  PROVE  StackInv' /\ OnceInv'
<1> DEFINE made == <<c>>
<1>1. made \in Seq(CallRecord) /\ DOMAIN made = {1} /\ made[1] = c /\ Len(made) = 1
  OBVIOUS
<1>2. Broken' <=> Broken
  BY SameBroken DEF Calls
<1> HIDE DEF made
<1>3. Calls(sig, i, made)
  BY DEF made
<1> QED
  BY <1>1, <1>2, <1>3, Pushed

\* A receiver that is a when_all makes no call.
LEMMA PushedNone ==
  ASSUME sender \in Senders, HostTypeOK, StackInv, OnceInv, NEW sig, NEW i,
         Calls(sig, i, <<>>), completions' = completions,
         error' = error \/ \E w \in WhenAlls : error' = [error EXCEPT ![w] = TRUE]
  PROVE  StackInv' /\ OnceInv'
<1> DEFINE made == <<>>
<1>1. made \in Seq(CallRecord) /\ DOMAIN made = {}
  OBVIOUS
<1>2. Broken' <=> Broken
  BY SameBroken DEF Calls
<1> HIDE DEF made
<1>3. Calls(sig, i, made)
  BY DEF made
<1> QED
  BY <1>1, <1>2, <1>3, Pushed

\* when_all leaves itself pending behind its children, so each of their calls is
\* followed by that of the when_all.
LEMMA WhenAllStack ==
  ASSUME sender \in Senders, HostTypeOK, StackInv, OnceInv, NEW i \in Ops, StartWhenAll(i)
  PROVE  StackInv' /\ OnceInv'
<1> DEFINE starts == StartAll(Child(i))
           made == starts \o <<Call("joined", i)>>
<1>1. /\ Kind(i) = "when_all" /\ Calls("start", i, made) /\ UNCHANGED <<error, completions>>
  BY DEF StartWhenAll, Nothing, outcomeVars
<1>2. starts \in Seq(CallRecord) /\ made \in Seq(CallRecord)
  BY ChildType, OneCall, ConcatProperties
<1>3. /\ \A x \in DOMAIN starts : starts[x] = Call("start", Child(i)[x]) /\ x \in DOMAIN Child(i)
      /\ DOMAIN starts = 1 .. Len(starts) /\ Len(starts) \in Nat
  BY <1>2, LenProperties DEF StartAll
<1> HIDE DEF starts
<1>4. /\ Len(made) = Len(starts) + 1 /\ DOMAIN made = 1 .. Len(made)
      /\ made[Len(made)] = Call("joined", i)
      /\ \A n \in 1 .. Len(starts) : made[n] = starts[n]
  BY <1>2, <1>3, ConcatProperties, LenProperties
<1>5. \A n \in 1 .. Len(starts) : \E c \in Range(Child(i)) : made[n] = Call("start", c)
  BY <1>3, <1>4 DEF Range
<1> HIDE DEF made
<1>6. i \in WhenAlls
  BY <1>1 DEF WhenAlls
<1>7. Broken' <=> Broken
  BY <1>1, SameBroken DEF Calls
<1>8. ASSUME NEW n \in DOMAIN made
      PROVE  \/ /\ n < Len(made) /\ made[n].sig = "start" /\ made[n].op \in Ops
                /\ Over(made[n]) = {i} \cup Above[i]
             \/ n = Len(made) /\ made[n] = Call("joined", i) /\ Over(made[n]) = Above[i]
  <2>1. CASE n = Len(made)
    BY <1>4, <2>1, OverCalls
  <2>2. CASE n # Len(made)
    <3>1. PICK c \in Range(Child(i)) : made[n] = Call("start", c)
      BY <1>3, <1>4, <1>5, <2>2
    <3>2. Over(made[n]) = {i} \cup Above[i] /\ c \in Ops
      BY <3>1, OverCalls, Inside
    <3> QED
      BY <1>3, <1>4, <2>2, <3>1, <3>2 DEF Call
  <2> QED
    BY <2>1, <2>2
<1>9. Over(Call("start", i)) = Above[i]
  BY OverCalls
<1>10. \A n \in DOMAIN made :
         /\ made[n].sig = "joined" => made[n].op \in WhenAlls
         /\ made[n].sig = "start" => made[n].op \in Ops
         /\ \A w \in Over(made[n]) \cap WhenAlls :
              \/ w \in Over(Call("start", i))
              \/ \E m \in DOMAIN made : n < m /\ made[m] = Call("joined", w)
         /\ \/ Over(made[n]) \cap WhenAlls # {}
            \/ n = Len(made) /\ Over(Call("start", i)) \cap WhenAlls = {}
  <2> TAKE n \in DOMAIN made
  <2>1. CASE /\ n < Len(made) /\ made[n].sig = "start" /\ made[n].op \in Ops
             /\ Over(made[n]) = {i} \cup Above[i]
    <3>1. Len(made) \in DOMAIN made
      BY <1>3, <1>4
    <3> QED
      BY <1>4, <1>6, <1>9, <2>1, <3>1
  <2>2. CASE n = Len(made) /\ made[n] = Call("joined", i) /\ Over(made[n]) = Above[i]
    BY <1>6, <1>9, <2>2 DEF Call
  <2> QED
    BY <1>8, <2>1, <2>2
<1> QED
  BY <1>1, <1>2, <1>7, <1>10, Pushed

\* What holds of both calls of a pair holds of the calls of the sequence.
LEMMA TwoElements ==
  ASSUME NEW S, NEW x \in S, NEW y \in S
  PROVE  <<x>> \o <<y>> = <<x, y>>
<1> DEFINE a == <<x>>
           b == <<y>>
           z == <<x, y>>
<1>1. /\ a \in Seq(S) /\ b \in Seq(S) /\ z \in Seq(S)
      /\ Len(a) = 1 /\ Len(b) = 1 /\ Len(z) = 2
      /\ a[1] = x /\ b[1] = y /\ z[1] = x /\ z[2] = y
  OBVIOUS
<1> HIDE DEF a, b, z
<1>2. /\ a \o b \in Seq(S) /\ Len(a \o b) = 2
      /\ \A i \in 1 .. 2 : (a \o b)[i] = IF i <= 1 THEN a[i] ELSE b[i - 1]
  BY <1>1, ConcatProperties
<1>3. (a \o b)[1] = x /\ (a \o b)[2] = y
  BY <1>1, <1>2
<1>4. ASSUME NEW i \in 1 .. 2
      PROVE  (a \o b)[i] = z[i]
  <2>1. i = 1 \/ i = 2
    OBVIOUS
  <2> QED
    BY <1>1, <1>3, <2>1
<1>5. a \o b = z
  BY <1>1, <1>2, <1>4, SeqEqual
<1> QED
  BY <1>5 DEF a, b, z

\* What a stage calls when it is started.
LEMMA ThenMade ==
  ASSUME sender \in Senders, NEW i \in Ops, StartThen(i)
  PROVE  LET c == Child(i)[1]
         IN /\ Kind(i) = "then" /\ c \in Range(Child(i)) /\ c \in Ops
            /\ Call("error", Parent(i)) \in CallRecord /\ Call("start", c) \in CallRecord
            /\ error[i] => Calls("start", i, <<Call("error", Parent(i)), Call("start", c)>>)
            /\ ~error[i] => Calls("start", i, <<Call("start", c)>>)
            /\ UNCHANGED <<error, contextVars, completions, result, runs, thrown>>
<1> DEFINE c == Child(i)[1]
           last == Call("start", c)
<1>1. Kind(i) = "then" /\ UNCHANGED <<error, contextVars, completions, result, runs, thrown>>
  BY DEF StartThen, Nothing, outcomeVars
<1>2. Child(i) = <<c>> /\ c \in Range(Child(i)) /\ c \in Ops
  BY <1>1, Inside
<1> HIDE DEF c
<1>3. StartAll(Child(i)) = <<last>>
  BY <1>2 DEF StartAll
<1>4. Call("error", Parent(i)) \in CallRecord /\ last \in CallRecord
  BY <1>2, ParentType, ChildType DEF Call, CallRecord
<1> HIDE DEF last
<1>5. <<Call("error", Parent(i))>> \o <<last>> = <<Call("error", Parent(i)), last>>
  BY <1>4, TwoElements
<1>6. <<>> \o <<last>> = <<last>>
  <2> DEFINE one == <<last>>
  <2>1. one \in Seq(CallRecord)
    BY <1>4
  <2> HIDE DEF one
  <2>2. <<>> \o one = one
    BY <2>1, ConcatEmptySeq
  <2> QED
    BY <2>2 DEF one
<1>7. CASE error[i]
  <2>1. Calls("start", i, <<Call("error", Parent(i)), last>>)
    BY <1>3, <1>5, <1>7 DEF StartThen
  <2> QED
    BY <1>1, <1>2, <1>4, <1>7, <2>1 DEF c, last
<1>8. CASE ~error[i]
  <2>1. Calls("start", i, <<last>>)
    BY <1>3, <1>6, <1>8 DEF StartThen
  <2> QED
    BY <1>1, <1>2, <1>4, <1>8, <2>1 DEF c, last
<1> QED
  BY <1>7, <1>8

\* A stage that failed reports and starts what is inside of it: two calls, neither
\* of which is inside of a when_all that the stage is not inside of.
LEMMA ThenStack ==
  ASSUME sender \in Senders, HostTypeOK, StackInv, OnceInv, NEW i \in Ops, StartThen(i)
  PROVE  StackInv' /\ OnceInv'
<1> DEFINE c == Child(i)[1]
           made == <<Call("error", Parent(i)), Call("start", c)>>
<1>1. /\ Kind(i) = "then" /\ c \in Range(Child(i)) /\ c \in Ops
      /\ Call("error", Parent(i)) \in CallRecord /\ Call("start", c) \in CallRecord
      /\ error[i] => Calls("start", i, made)
      /\ ~error[i] => Calls("start", i, <<Call("start", c)>>)
      /\ UNCHANGED <<error, completions>>
  BY ThenMade
<1> HIDE DEF c
<1>2. /\ Over(Call("error", Parent(i))) = Above[i] /\ Over(Call("start", c)) = {i} \cup Above[i]
      /\ i \notin WhenAlls /\ Over(Call("start", i)) = Above[i]
  BY <1>1, OverCalls DEF WhenAlls
<1>3. CASE ~error[i]
  <2>1. Over(Call("start", c)) \cap WhenAlls = Over(Call("start", i)) \cap WhenAlls
    BY <1>2
  <2>2. Call("start", c).sig = "start" /\ Call("start", c).op = c
    BY DEF Call
  <2> QED
    BY <1>1, <1>3, <2>1, <2>2, PushedOne
<1>4. CASE error[i]
  <2>1. made \in Seq(CallRecord) /\ DOMAIN made = {1, 2} /\ made[1] = Call("error", Parent(i))
        /\ made[2] = Call("start", c) /\ Len(made) = 2 /\ Calls("start", i, made)
    BY <1>1, <1>4
  <2> HIDE DEF made
  <2>2. Broken
    BY <1>1, <1>4 DEF Broken
  <2>3. Broken' <=> Broken
    BY <1>1, <2>1, SameBroken DEF Calls
  <2>4. \A n \in DOMAIN made :
          /\ made[n].sig = "joined" => made[n].op \in WhenAlls
          /\ made[n].sig = "start" => made[n].op \in Ops
          /\ \A w \in Over(made[n]) \cap WhenAlls :
               \/ w \in Over(Call("start", i))
               \/ \E m \in DOMAIN made : n < m /\ made[m] = Call("joined", w)
    BY <1>1, <1>2, <2>1 DEF Call
  <2>5. ~Broken => \A n \in DOMAIN made :
          \/ Over(made[n]) \cap WhenAlls # {}
          \/ n = Len(made) /\ Over(Call("start", i)) \cap WhenAlls = {}
    BY <2>2
  <2>6. made \in Seq(CallRecord) /\ Calls("start", i, made) /\ completions' = completions
    BY <1>1, <2>1
  <2> QED
    BY <2>3, <2>4, <2>5, <2>6, Pushed
<1> QED
  BY <1>3, <1>4

\* Every call of the host thread keeps the stack in order.
LEMMA SignalStack ==
  ASSUME sender \in Senders, HostTypeOK, StackInv, OnceInv, NEW i \in Ops, Signal(i)
  PROVE  StackInv' /\ OnceInv'
<1> USE DEF Nothing, outcomeVars
<1>1. \A sig \in {"start", "value", "error", "stopped"} :
        \A j \in 1 .. Final :
          /\ Call(sig, j) \in CallRecord /\ Call(sig, j).sig = sig /\ Call(sig, j).op = j
  BY DEF Call, CallRecord
<1>2. /\ Over(Call("start", i)) = Above[i] /\ Over(Call("joined", i)) = Above[i]
      /\ \A sig \in {"value", "error", "stopped"} :
           Over(Call(sig, Parent(i))) = Above[i] /\ Over(Call(sig, i)) = {i} \cup Above[i]
      /\ \A c \in Range(Child(i)) : Over(Call("start", c)) = {i} \cup Above[i]
      /\ Kind(i) = "fork" => /\ Over(Call("start", Child(Parent(i))[2])) = Above[i]
                             /\ Child(Parent(i))[2] \in Ops
  BY OverCalls
<1>3. Parent(i) \in 1 .. Final /\ \A j \in Ops : j \in 1 .. Final
  BY ParentType, ChildType
<1>4. Kind(i) # "when_all" => i \notin WhenAlls
  BY DEF WhenAlls
\* From one signal of i to a signal of its receiver.
<1>5. ASSUME NEW sig \in {"start", "value", "error", "stopped", "joined"},
             NEW out \in {"value", "error", "stopped"},
             Calls(sig, i, <<Call(out, Parent(i))>>), UNCHANGED <<error, completions>>,
             sig \in {"start", "joined"} \/ Kind(i) # "when_all"
      PROVE  StackInv' /\ OnceInv'
  <2> DEFINE c == Call(out, Parent(i))
  <2>1. c \in CallRecord /\ c.sig # "joined" /\ c.sig # "start"
    BY <1>1, <1>3
  <2>2. Over(c) \cap WhenAlls = Over(Call(sig, i)) \cap WhenAlls
    BY <1>2, <1>4, <1>5
  <2>3. Calls(sig, i, <<c>>)
    BY <1>5
  <2> HIDE DEF c
  <2> QED
    BY <1>5, <2>1, <2>2, <2>3, PushedOne
<1>6. CASE StartSource(i)
  BY <1>5, <1>6 DEF StartSource
<1>7. CASE StartInner(i)
  <2> DEFINE c == Call("start", Child(i)[1])
  <2>1. Child(i)[1] \in Range(Child(i)) /\ Child(i)[1] \in Ops
    BY <1>7, Children, Inside DEF StartInner
  <2>2. c \in CallRecord /\ c.sig # "joined" /\ c.op \in Ops
    BY <1>1, <1>3, <2>1
  <2>3. Over(c) \cap WhenAlls = Over(Call("start", i)) \cap WhenAlls
    BY <1>2, <1>4, <1>7, <2>1 DEF StartInner
  <2>4. Calls("start", i, <<c>>) /\ UNCHANGED <<error, completions>>
    BY <1>7 DEF StartInner
  <2> HIDE DEF c
  <2> QED
    BY <2>2, <2>3, <2>4, PushedOne
<1>8. CASE ValueStage(i) \/ ValueHostStage(i) \/ ValueContinuesOn(i) \/ ValueForkJoin(i)
  <2>1. /\ Calls("value", i, <<Call("value", Parent(i))>>) /\ UNCHANGED <<error, completions>>
        /\ Kind(i) # "when_all"
    BY <1>8 DEF ValueStage, ValueHostStage, ValueContinuesOn, ValueForkJoin
  <2> QED
    BY <1>5, <2>1
<1>9. CASE ThrowHostStage(i)
  BY <1>5, <1>9 DEF ThrowHostStage
<1>10. CASE ValueChild(i) \/ ErrorChild(i)
  <2>1. \E sig : Calls(sig, i, <<>>)
    BY <1>10 DEF ValueChild, ErrorChild
  <2>2. /\ i \in WhenAlls /\ completions' = completions
        /\ error' = error \/ error' = [error EXCEPT ![i] = TRUE]
    BY <1>10 DEF ValueChild, ErrorChild, WhenAlls
  <2> QED
    BY <2>1, <2>2, PushedNone
<1>11. CASE Joined(i)
  BY <1>5, <1>11 DEF Joined
<1>12. CASE Forked(i)
  <2> DEFINE c == Call("start", Child(Parent(i))[2])
  <2>1. PICK sig \in {"value", "error"} : Calls(sig, i, <<c>>)
    BY <1>12 DEF Forked
  <2>2. Kind(i) = "fork" /\ UNCHANGED <<error, completions>>
    BY <1>12 DEF Forked
  <2>3. c \in CallRecord /\ c.sig # "joined" /\ c.op \in Ops
    BY <1>1, <1>2, <1>3, <2>2
  <2>4. Over(c) \cap WhenAlls = Over(Call(sig, i)) \cap WhenAlls
    BY <1>2, <1>4, <2>2
  <2> HIDE DEF c
  <2> QED
    BY <2>1, <2>2, <2>3, <2>4, PushedOne
<1>13. CASE Forwarded(i)
  <2>1. PICK sig \in {"error", "stopped"} : Calls(sig, i, <<Call(sig, Parent(i))>>)
    BY <1>13 DEF Forwarded
  <2>2. UNCHANGED <<error, completions>> /\ Kind(i) # "when_all"
    BY <1>13 DEF Forwarded
  <2> QED
    BY <1>5, <2>1, <2>2
<1> QED
  BY <1>6, <1>7, <1>8, <1>9, <1>10, <1>11, <1>12, <1>13, ThenStack, WhenAllStack DEF Signal

\* Construction makes no call but the start of the outermost operation state.
LEMMA ConnectStack ==
  ASSUME SenderInv, HostTypeOK, StackInv, OnceInv, Connect
  PROVE  StackInv' /\ OnceInv'
<1> PICK i \in Ops : \/ ConnectPlain(i) \/ ConnectThen(i) \/ ConnectThenThrows(i)
                     \/ ConnectThenWithoutNode(i) \/ ConnectContinuesOn(i) \/ ConnectFork(i)
                     \/ ConnectWhenAll(i) \/ ConnectForkJoin(i) \/ ConnectAborts(i)
  BY DEF Connect
<1>1. sender \in Senders
  BY DEF SenderInv, ControlOK
<1>2. CASE ConnectAborts(i)
  <2>1. /\ phase = "connect" /\ phase' = "aborted" /\ calls' = calls /\ completions' = completions
        /\ sender' = sender
    BY <1>2, Zenon DEF ConnectAborts, outcomeVars
  <2>2. calls = <<>> /\ completions = 0
    BY <2>1 DEF StackInv
  <2>3. DOMAIN calls' = {}
    BY <2>1, <2>2
  <2> QED
    BY <2>1, <2>2, <2>3 DEF StackInv, OnceInv
<1>3. CASE ~ConnectAborts(i)
  <2>1. (\E kinds : Connecting(i, kinds)) /\ completions' = completions
    BY <1>3 DEF ConnectPlain, ConnectThen, ConnectThenThrows, ConnectThenWithoutNode,
           ConnectContinuesOn, ConnectFork, ConnectWhenAll, ConnectForkJoin, MayThrow, outcomeVars
  <2>2. /\ phase = "connect" /\ sender' = sender
        /\ phase' = IF i = Outermost THEN "run" ELSE phase
        /\ calls' = IF i = Outermost THEN <<[sig |-> "start", op |-> i]>> ELSE <<>>
    BY <2>1 DEF Connecting
  <2>3. calls = <<>> /\ completions = 0
    BY <2>2 DEF StackInv
  <2>4. CASE i # Outermost
    <3>1. calls' = <<>> /\ DOMAIN calls' = {}
      BY <2>2, <2>4
    <3> QED
      BY <2>1, <2>2, <2>3, <3>1 DEF StackInv, OnceInv
  <2>5. CASE i = Outermost
    <3> DEFINE first == Call("start", i)
    <3>1. calls' = <<first>> /\ phase' = "run"
      BY <2>2, <2>5 DEF Call
    <3>2. first.sig = "start" /\ first.op \in Ops
      BY DEF Call
    <3>3. Over(first) = {Final}
      BY <1>1, <2>5, OverCalls, AboveFacts, Tree
    <3>4. Over(first) \cap WhenAlls = {}
      BY <1>1, <3>3, Tree DEF WhenAlls
    <3> HIDE DEF first
    <3>5. DOMAIN calls' = {1} /\ calls'[1] = first /\ Len(calls') = 1
      BY <3>1
    <3>6. /\ Above' = Above /\ WhenAlls' = WhenAlls /\ Ops' = Ops
          /\ \A c : Over(c)' = Over(c)
      BY <2>2, SameTree DEF Over
    <3> QED
      BY <2>1, <2>3, <3>1, <3>2, <3>4, <3>5, <3>6 DEF StackInv, OnceInv
  <2> QED
    BY <2>4, <2>5
<1> QED
  BY <1>2, <1>3

\* What the consumer does with a completion leaves the calls behind it pending.
LEMMA CompletionStack ==
  ASSUME SenderInv, HostTypeOK, StackInv, OnceInv,
         Complete \/ CompleteWithError \/ CompleteStopped \/ Repeat \/ Return
  PROVE  StackInv' /\ OnceInv'
<1>0. sender \in Senders
  BY DEF SenderInv, ControlOK
<1>1. CASE Complete \/ CompleteWithError \/ CompleteStopped
  <2>1. PICK sig \in {"value", "error", "stopped"} : Calls(sig, Final, <<>>)
    BY <1>1 DEF Complete, CompleteWithError, CompleteStopped
  <2>2. error' = error /\ completions' = completions + 1 /\ sender' = sender
    BY <1>1 DEF Complete, CompleteWithError, CompleteStopped, Receives, Calls
  <2>3. Over(Call(sig, Final)) \cap WhenAlls = {}
    <3>1. Outermost \in Ops
      BY <1>0, Shape DEF Outermost
    <3>2. Final \notin Ops /\ Above[Final] = {}
      BY <1>0, <3>1, Tree, AboveFacts
    <3> QED
      BY <3>2 DEF Over, Call, WhenAlls
  <2> DEFINE made == <<>>
  <2>4. made \in Seq(CallRecord) /\ DOMAIN made = {} /\ Len(made) = 0
    OBVIOUS
  <2> HIDE DEF made
  <2>5. Calls(sig, Final, made)
    BY <2>1 DEF made
  <2>6. ASSUME ~Broken
        PROVE  calls' = <<>>
    <3>1. /\ calls # <<>> /\ calls[1] = Call(sig, Final) /\ 1 \in DOMAIN calls
          /\ DOMAIN calls = 1 .. Len(calls) /\ Len(calls) \in Nat
          /\ Len(calls') = Len(made) + Len(calls) - 1 /\ calls' \in Seq(CallRecord)
      BY <2>4, <2>5, Moved
    <3>2. ~(1 < Len(calls))
      BY <2>3, <2>6, <3>1 DEF OnceInv
    <3>3. Len(calls') = 0
      BY <2>4, <3>1, <3>2, LenProperties
    <3> QED
      BY <3>1, <3>3, EmptySeq
  <2>7. Broken' <=> Broken
    BY <2>2, SameBroken
  <2> QED
    BY <1>0, <2>2, <2>4, <2>5, <2>6, <2>7, Pushed
<1>2. CASE Repeat
  <2>1. /\ phase' = "connect" /\ calls' = <<>> /\ sender' = sender
        /\ completions = 0 /\ completions' = completions /\ DOMAIN calls' = {}
    BY <1>2 DEF Repeat, Nothing, outcomeVars
  <2> QED
    BY <2>1 DEF StackInv, OnceInv
<1>3. CASE Return
  <2>1. UNCHANGED <<sender, calls, error, completions>> /\ calls = <<>>
    BY <1>3 DEF Return, Nothing, outcomeVars
  <2>2. phase' # "connect" /\ phase' # "run"
    BY <1>3, Zenon DEF Return
  <2>3. Broken' <=> Broken
    BY <2>1, SameBroken
  <2>4. DOMAIN calls' = {}
    BY <2>1
  <2> QED
    BY <2>1, <2>2, <2>3, <2>4 DEF StackInv, OnceInv
<1> QED
  BY <1>1, <1>2, <1>3

\* What leaves the host thread and the consumer alone.
LEMMA SameStack ==
  ASSUME StackInv, OnceInv, HostTypeOK, UNCHANGED <<sender, phase, error, calls, completions>>
  PROVE  StackInv' /\ OnceInv'
<1>1. /\ WhenAlls' = WhenAlls /\ Ops' = Ops /\ \A c : Over(c)' = Over(c)
  BY SameTree DEF Over
<1>2. Broken' <=> Broken
  BY SameBroken
<1> QED
  BY <1>1, <1>2 DEF StackInv, OnceInv

\* The order of the pending calls is an invariant.
LEMMA NextStack == SenderInv /\ HostTypeOK /\ StackInv /\ OnceInv /\ [Next]_vars => StackInv' /\ OnceInv'
<1> SUFFICES ASSUME SenderInv, HostTypeOK, StackInv, OnceInv, [Next]_vars
             PROVE  StackInv' /\ OnceInv'
  OBVIOUS
<1>1. CASE HostStep
  BY <1>1, ConnectStack, SignalStack, CompletionStack DEF HostStep, SenderInv, ControlOK
<1>2. CASE (\E e \in Exec : StreamStep(e)) \/ UNCHANGED vars
  <2>1. UNCHANGED <<sender, phase, error, calls, completions>>
    BY <1>2 DEF StreamStep, RetireLaunch, RunFunctor, controlVars, outcomeVars, vars
  <2> QED
    BY <2>1, SameStack
<1> QED
  BY <1>1, <1>2 DEF Next, Terminated

\* The consumer is completed once if no stage that failed when it was connected
\* reports that: then and bulk would go on and complete as well (then.hpp:106).
THEOREM SenderCompletesOnce == Spec => [](~Broken => CompletesOnce)
<1>1. Init => StackInv /\ OnceInv
  <2> SUFFICES ASSUME Init PROVE StackInv /\ OnceInv
    OBVIOUS
  <2>1. calls = <<>> /\ completions = 0 /\ DOMAIN calls = {}
    BY DEF Init
  <2> QED
    BY <2>1 DEF StackInv, OnceInv
<1>2. Init => HostTypeOK
  BY DEF Init, HostTypeOK
<1>3. StackInv /\ OnceInv => (~Broken => CompletesOnce)
  BY DEF OnceInv, CompletesOnce
<1> QED
  BY <1>1, <1>2, <1>3, NextStack, NextHostType, SenderInvariance, PTL DEF Spec

-----------------------------------------------------------------------------
(***************************************************************************)
(* The pending calls as a set.                                             *)
(***************************************************************************)

\* The calls that are pending, in whichever order.
Pending == {calls[n] : n \in DOMAIN calls}

\* The host thread makes the call sig on i, which makes the calls in Made.
Step(sig, i, Made) ==
  /\ Call(sig, i) \in Pending
  /\ Made \subseteq Pending' /\ Pending' \subseteq Made \cup Pending
  /\ Pending \subseteq Pending' \cup {Call(sig, i)}
  /\ phase = "run" /\ UNCHANGED <<sender, phase, iter, cursor, anchor>>

\* Pushing the calls of a sequence is a step that makes the calls of its range.
LEMMA CallsStep ==
  ASSUME HostTypeOK, NEW sig, NEW i, NEW made \in Seq(CallRecord), Calls(sig, i, made)
  PROVE  Step(sig, i, {made[n] : n \in DOMAIN made})
<1>1. /\ phase = "run" /\ UNCHANGED <<sender, phase, iter, cursor, anchor>>
      /\ calls # <<>> /\ 1 \in DOMAIN calls /\ calls[1] = Call(sig, i)
      /\ DOMAIN calls = 1 .. Len(calls) /\ Len(calls) \in Nat
      /\ \A n \in DOMAIN made : n \in DOMAIN calls' /\ calls'[n] = made[n]
      /\ \A n \in DOMAIN calls : n > 1 =>
           n - 1 + Len(made) \in DOMAIN calls' /\ calls'[n - 1 + Len(made)] = calls[n]
      /\ \A n \in DOMAIN calls' :
           \/ n \in DOMAIN made
           \/ \E m \in DOMAIN calls : m > 1 /\ n = m - 1 + Len(made)
  BY Moved
<1>2. \A n \in DOMAIN calls' :
           \/ n \in DOMAIN made /\ calls'[n] = made[n]
           \/ \E m \in DOMAIN calls : calls'[n] = calls[m]
  BY <1>1
<1>3. \A n \in DOMAIN calls : calls[n] = Call(sig, i) \/ \E m \in DOMAIN calls' : calls'[m] = calls[n]
  <2> TAKE n \in DOMAIN calls
  <2>1. n = 1 \/ n > 1
    BY <1>1
  <2> QED
    BY <1>1, <2>1
<1> QED
  BY <1>1, <1>2, <1>3 DEF Step, Pending

\* Operation states that make one call.
LEMMA StepOne ==
  ASSUME HostTypeOK, NEW sig, NEW i, NEW c \in CallRecord, Calls(sig, i, <<c>>)
  PROVE  Step(sig, i, {c})
<1> DEFINE made == <<c>>
<1>1. made \in Seq(CallRecord) /\ {made[n] : n \in DOMAIN made} = {c}
  OBVIOUS
<1>2. Step(sig, i, {made[n] : n \in DOMAIN made})
  <2>1. Calls(sig, i, made)
    OBVIOUS
  <2> HIDE DEF made
  <2> QED
    BY <1>1, <2>1, CallsStep
<1> QED
  BY <1>1, <1>2

\* Operation states that make none.
LEMMA StepNone ==
  ASSUME HostTypeOK, NEW sig, NEW i, Calls(sig, i, <<>>)
  PROVE  Step(sig, i, {})
<1> DEFINE made == <<>>
<1>1. made \in Seq(CallRecord) /\ {made[n] : n \in DOMAIN made} = {}
  OBVIOUS
<1>2. Step(sig, i, {made[n] : n \in DOMAIN made})
  <2>1. Calls(sig, i, made)
    OBVIOUS
  <2> HIDE DEF made
  <2> QED
    BY <1>1, <2>1, CallsStep
<1> QED
  BY <1>1, <1>2

\* The calls that each operation state makes.
LEMMA Steps ==
  ASSUME sender \in Senders, HostTypeOK, NEW i \in Ops
  PROVE  /\ StartSource(i) =>
              \E out \in {"value", "stopped"} : Step("start", i, {Call(out, Parent(i))})
         /\ StartThen(i) /\ error[i] =>
              Step("start", i, {Call("error", Parent(i)), Call("start", Child(i)[1])})
         /\ StartThen(i) /\ ~error[i] => Step("start", i, {Call("start", Child(i)[1])})
         /\ StartInner(i) => Step("start", i, {Call("start", Child(i)[1])})
         /\ StartWhenAll(i) =>
              Step("start", i, {Call("start", c) : c \in Range(Child(i))} \cup {Call("joined", i)})
         /\ ValueStage(i) \/ ValueHostStage(i) \/ ValueContinuesOn(i) \/ ValueForkJoin(i) =>
              Step("value", i, {Call("value", Parent(i))})
         /\ ThrowHostStage(i) => Step("value", i, {Call("error", Parent(i))})
         /\ ValueChild(i) => Step("value", i, {})
         /\ ErrorChild(i) => Step("error", i, {})
         /\ Joined(i) /\ error[i] => Step("joined", i, {Call("error", Parent(i))})
         /\ Joined(i) /\ ~error[i] => Step("joined", i, {Call("value", Parent(i))})
         /\ Forked(i) => \E sig \in {"value", "error"} :
              Step(sig, i, {Call("start", Child(Parent(i))[2])})
         /\ Forwarded(i) => \E sig \in {"error", "stopped"} : Step(sig, i, {Call(sig, Parent(i))})
<1>1. \A sig \in {"start", "value", "error", "stopped"} : \A j \in 1 .. Final :
        Call(sig, j) \in CallRecord
  BY DEF Call, CallRecord
<1>2. Parent(i) \in 1 .. Final /\ \A j \in Ops : j \in 1 .. Final
  BY ParentType, ChildType
<1>3. \A sig \in {"start", "value", "error", "stopped"} : Call(sig, Parent(i)) \in CallRecord
  BY <1>1, <1>2
<1>4. StartSource(i) => \E out \in {"value", "stopped"} : Step("start", i, {Call(out, Parent(i))})
  BY <1>3, StepOne DEF StartSource
<1>5. ASSUME StartThen(i)
      PROVE  /\ error[i] => Step("start", i, {Call("error", Parent(i)), Call("start", Child(i)[1])})
             /\ ~error[i] => Step("start", i, {Call("start", Child(i)[1])})
  <2> DEFINE x == Call("error", Parent(i))
             y == Call("start", Child(i)[1])
  <2>1. /\ x \in CallRecord /\ y \in CallRecord
        /\ error[i] => Calls("start", i, <<x, y>>)
        /\ ~error[i] => Calls("start", i, <<y>>)
    BY <1>5, ThenMade
  <2> HIDE DEF x, y
  <2>2. ASSUME error[i]
        PROVE  Step("start", i, {x, y})
    <3> DEFINE made == <<x, y>>
    <3>1. made \in Seq(CallRecord) /\ {made[n] : n \in DOMAIN made} = {x, y}
      BY <2>1
    <3>2. Calls("start", i, made)
      BY <2>1, <2>2
    <3> HIDE DEF made
    <3> QED
      BY <3>1, <3>2, CallsStep
  <2>3. ~error[i] => Step("start", i, {y})
    BY <2>1, StepOne
  <2> QED
    BY <2>2, <2>3 DEF x, y
<1>6. StartInner(i) => Step("start", i, {Call("start", Child(i)[1])})
  <2> HAVE StartInner(i)
  <2>1. Child(i)[1] \in Ops
    BY Children, Inside DEF StartInner
  <2>2. Call("start", Child(i)[1]) \in CallRecord
    BY <1>1, <1>2, <2>1
  <2> QED
    BY <2>2, StepOne DEF StartInner
<1>7. ASSUME StartWhenAll(i)
      PROVE  Step("start", i, {Call("start", c) : c \in Range(Child(i))} \cup {Call("joined", i)})
  <2> DEFINE starts == StartAll(Child(i))
             last == Call("joined", i)
             made == starts \o <<last>>
  <2>1. starts \in Seq(CallRecord) /\ made \in Seq(CallRecord) /\ last \in CallRecord
    BY <1>2, ChildType, OneCall, ConcatProperties DEF Call, CallRecord
  <2>2. {starts[n] : n \in DOMAIN starts} = {Call("start", c) : c \in Range(Child(i))}
    BY DEF StartAll, Range
  <2>3. Calls("start", i, made)
    BY <1>7 DEF StartWhenAll
  <2> HIDE DEF starts, last
  <2>4. /\ Len(made) = Len(starts) + 1 /\ DOMAIN made = 1 .. Len(made) /\ Len(starts) \in Nat
        /\ DOMAIN starts = 1 .. Len(starts)
        /\ made[Len(starts) + 1] = last
        /\ \A n \in 1 .. Len(starts) : made[n] = starts[n]
    BY <2>1, ConcatProperties, LenProperties
  <2> HIDE DEF made
  <2>5. {made[n] : n \in DOMAIN made} = {starts[n] : n \in DOMAIN starts} \cup {last}
    <3>1. \A n \in DOMAIN made : n = Len(starts) + 1 \/ n \in DOMAIN starts
      BY <2>4
    <3>2. Len(starts) + 1 \in DOMAIN made /\ DOMAIN starts \subseteq DOMAIN made
      BY <2>4
    <3> QED
      BY <2>4, <3>1, <3>2
  <2>6. Step("start", i, {made[n] : n \in DOMAIN made})
    BY <2>1, <2>3, CallsStep
  <2>7. Step("start", i, {starts[n] : n \in DOMAIN starts} \cup {last})
    BY <2>5, <2>6
  <2>8. Step("start", i, {Call("start", c) : c \in Range(Child(i))} \cup {last})
    BY <2>2, <2>7
  <2> QED
    BY <2>8 DEF last
<1>8. ValueStage(i) \/ ValueHostStage(i) \/ ValueContinuesOn(i) \/ ValueForkJoin(i) =>
        Step("value", i, {Call("value", Parent(i))})
  BY <1>3, StepOne DEF ValueStage, ValueHostStage, ValueContinuesOn, ValueForkJoin
<1>9. ThrowHostStage(i) => Step("value", i, {Call("error", Parent(i))})
  BY <1>3, StepOne DEF ThrowHostStage
<1>10. (ValueChild(i) => Step("value", i, {})) /\ (ErrorChild(i) => Step("error", i, {}))
  BY StepNone DEF ValueChild, ErrorChild
<1>11. /\ Joined(i) /\ error[i] => Step("joined", i, {Call("error", Parent(i))})
       /\ Joined(i) /\ ~error[i] => Step("joined", i, {Call("value", Parent(i))})
  BY <1>3, StepOne DEF Joined
<1>12. Forked(i) => \E sig \in {"value", "error"} : Step(sig, i, {Call("start", Child(Parent(i))[2])})
  <2> HAVE Forked(i)
  <2>1. Child(Parent(i))[2] \in 1 .. Final
    BY JoinSide DEF Forked
  <2> QED
    BY <1>1, <2>1, StepOne DEF Forked
<1>13. Forwarded(i) => \E sig \in {"error", "stopped"} : Step(sig, i, {Call(sig, Parent(i))})
  BY <1>3, StepOne DEF Forwarded
<1> QED
  BY <1>4, <1>5, <1>6, <1>7, <1>8, <1>9, <1>10, <1>11, <1>12, <1>13

-----------------------------------------------------------------------------
(***************************************************************************)
(* Where errors come from.                                                 *)
(***************************************************************************)

\* An error is held by the stage that threw or by a when_all around it, and is
\* on its way from there to the consumer.
ErrInv ==
  /\ \A i \in Ops : error[i] => \/ i \in Stages \cap thrown
                                \/ i \in WhenAlls /\ \E x \in thrown : i \in Above[x]
  /\ \A c \in Pending : c.sig = "error" => \E x \in thrown : c.op \in Above[x]
  /\ thrown \subseteq Stages

\* A step that sends no error and stores none but on the way of a thrown one keeps
\* the invariant.
LEMMA ErrStep ==
  ASSUME HostTypeOK, ErrInv, sender' = sender, thrown \subseteq thrown', thrown' \subseteq thrown \cup Stages,
         \A c \in Pending' :
           c \in Pending \/ c.sig # "error" \/ \E x \in thrown' : c.op \in Above[x],
         \A i \in Ops : error'[i] => \/ error[i]
                                     \/ i \in Stages \cap thrown'
                                     \/ i \in WhenAlls /\ \E x \in thrown' : i \in Above[x]
  PROVE  ErrInv'
<1>1. Above' = Above /\ WhenAlls' = WhenAlls /\ Ops' = Ops /\ Stages' = Stages
  BY SameTree
<1>4. thrown' \subseteq Stages
  BY DEF ErrInv
<1>2. \A i \in Ops : error'[i] => \/ i \in Stages \cap thrown'
                                  \/ i \in WhenAlls /\ \E x \in thrown' : i \in Above[x]
  <2> SUFFICES ASSUME NEW i \in Ops, error[i]
               PROVE  \/ i \in Stages \cap thrown'
                      \/ i \in WhenAlls /\ \E x \in thrown' : i \in Above[x]
    OBVIOUS
  <2> QED
    BY DEF ErrInv
<1>3. \A c \in Pending' : c.sig = "error" => \E x \in thrown' : c.op \in Above[x]
  BY DEF ErrInv
<1> QED
  BY <1>1, <1>2, <1>3, <1>4 DEF ErrInv

\* Each call keeps it: errors are forwarded outwards, and a when_all stores only
\* those of what is inside of it.
LEMMA SignalErr ==
  ASSUME sender \in Senders, HostTypeOK, ErrInv, NEW i \in Ops, Signal(i)
  PROVE  ErrInv'
<1> USE DEF Nothing, outcomeVars
<1>1. /\ Parent(i) \in Above[i]
      /\ \A x \in thrown : x \in Ops /\ (i \in Above[x] => Parent(i) \in Above[x])
  BY AboveFacts DEF HostTypeOK
<1>2. error \in [Ops -> BOOLEAN]
  BY DEF HostTypeOK
<1>3. \A sig, j : Call(sig, j).sig = sig /\ Call(sig, j).op = j
  BY DEF Call
\* The steps that neither throw nor store an error.
<1>4. ASSUME NEW sig, NEW Made, Step(sig, i, Made), UNCHANGED <<error, thrown>>,
             \A c \in Made : c.sig # "error" \/ (\E x \in thrown : c.op \in Above[x])
      PROVE  ErrInv'
  <2>1. sender' = sender /\ Pending' \subseteq Made \cup Pending
    BY <1>4 DEF Step
  <2> QED
    BY <1>2, <1>4, <2>1, ErrStep
<1>16. ASSUME NEW sig, NEW out, NEW j, Step(sig, i, {Call(out, j)}), UNCHANGED <<error, thrown>>,
              out # "error" \/ (\E x \in thrown : j \in Above[x])
       PROVE  ErrInv'
  <2> DEFINE Made == {Call(out, j)}
  <2>1. \A c \in Made : c.sig # "error" \/ (\E x \in thrown : c.op \in Above[x])
    BY <1>3, <1>16
  <2>2. Step(sig, i, Made)
    BY <1>16
  <2> HIDE DEF Made
  <2> QED
    BY <1>4, <1>16, <2>1, <2>2
<1>5. CASE StartSource(i)
  <2>1. PICK out \in {"value", "stopped"} : Step("start", i, {Call(out, Parent(i))})
    BY <1>5, Steps
  <2>2. UNCHANGED <<error, thrown>>
    BY <1>5 DEF StartSource
  <2> QED
    BY <1>16, <2>1, <2>2
<1>6. CASE StartThen(i)
  <2>1. UNCHANGED <<error, thrown>> /\ Kind(i) = "then"
    BY <1>6 DEF StartThen
  <2>2. CASE error[i]
    <3>1. i \in thrown
      BY <2>1, <2>2 DEF ErrInv, WhenAlls, Stages
    <3> DEFINE Made == {Call("error", Parent(i)), Call("start", Child(i)[1])}
    <3>2. Step("start", i, Made)
      BY <1>6, <2>2, Steps
    <3>3. \A c \in Made : c.sig # "error" \/ (\E x \in thrown : c.op \in Above[x])
      BY <1>1, <1>3, <3>1
    <3> HIDE DEF Made
    <3> QED
      BY <1>4, <2>1, <3>2, <3>3
  <2>3. CASE ~error[i]
    <3>1. Step("start", i, {Call("start", Child(i)[1])})
      BY <1>6, <2>3, Steps
    <3> QED
      BY <1>16, <2>1, <3>1
  <2> QED
    BY <2>2, <2>3
<1>7. CASE StartInner(i)
  <2>1. Step("start", i, {Call("start", Child(i)[1])}) /\ UNCHANGED <<error, thrown>>
    BY <1>7, Steps DEF StartInner
  <2> QED
    BY <1>16, <2>1
<1>8. CASE StartWhenAll(i)
  <2>1. UNCHANGED <<error, thrown>>
    BY <1>8 DEF StartWhenAll
  <2> DEFINE Made == {Call("start", b) : b \in Range(Child(i))} \cup {Call("joined", i)}
  <2>2. \A c \in Made : c.sig # "error"
    BY <1>3
  <2>3. Step("start", i, Made)
    BY <1>8, Steps
  <2> HIDE DEF Made
  <2> QED
    BY <1>4, <2>1, <2>2, <2>3
<1>9. CASE ValueStage(i) \/ ValueHostStage(i) \/ ValueContinuesOn(i) \/ ValueForkJoin(i)
  <2>1. UNCHANGED <<error, thrown>>
    BY <1>9 DEF ValueStage, ValueHostStage, ValueContinuesOn, ValueForkJoin
  <2> QED
    BY <1>9, <1>16, <2>1, Steps
<1>10. CASE ThrowHostStage(i)
  <2>1. /\ Step("value", i, {Call("error", Parent(i))}) /\ error' = error /\ thrown' = thrown \cup {i}
        /\ i \in Stages
    BY <1>10, Steps DEF ThrowHostStage, MayThrow, Stages
  <2>2. sender' = sender /\ Pending' \subseteq {Call("error", Parent(i))} \cup Pending
    BY <2>1 DEF Step
  <2> QED
    BY <1>1, <1>2, <1>3, <2>1, <2>2, ErrStep
<1>11. CASE ValueChild(i)
  <2>1. UNCHANGED <<error, thrown>> /\ Step("value", i, {})
    BY <1>11, Steps DEF ValueChild
  <2> QED
    BY <1>4, <2>1
<1>12. CASE ErrorChild(i)
  <2>1. /\ Step("error", i, {}) /\ thrown' = thrown /\ error' = [error EXCEPT ![i] = TRUE]
        /\ i \in WhenAlls
    BY <1>12, Steps DEF ErrorChild, WhenAlls
  <2>2. sender' = sender /\ Pending' \subseteq {} \cup Pending /\ Call("error", i) \in Pending
    BY <2>1 DEF Step
  <2>3. \E x \in thrown : i \in Above[x]
    BY <1>3, <2>2 DEF ErrInv
  <2>4. \A j \in Ops : error'[j] => error[j] \/ j = i
    BY <1>2, <2>1
  <2> QED
    BY <2>1, <2>2, <2>3, <2>4, ErrStep
<1>13. CASE Joined(i)
  <2>1. UNCHANGED <<error, thrown>>
    BY <1>13 DEF Joined
  <2>2. CASE error[i]
    <3>1. Step("joined", i, {Call("error", Parent(i))})
      BY <1>13, <2>2, Steps
    <3>2. \E x \in thrown : Parent(i) \in Above[x]
      BY <1>1, <2>2 DEF ErrInv
    <3> QED
      BY <1>16, <2>1, <3>1, <3>2
  <2>3. CASE ~error[i]
    <3>1. Step("joined", i, {Call("value", Parent(i))})
      BY <1>13, <2>3, Steps
    <3> QED
      BY <1>16, <2>1, <3>1
  <2> QED
    BY <2>2, <2>3
<1>14. CASE Forked(i)
  <2>1. PICK sig \in {"value", "error"} : Step(sig, i, {Call("start", Child(Parent(i))[2])})
    BY <1>14, Steps
  <2>2. UNCHANGED <<error, thrown>>
    BY <1>14 DEF Forked
  <2> QED
    BY <1>16, <2>1, <2>2
<1>15. CASE Forwarded(i)
  <2>1. PICK sig \in {"error", "stopped"} : Step(sig, i, {Call(sig, Parent(i))})
    BY <1>15, Steps
  <2>2. Call(sig, i) \in Pending
    BY <2>1 DEF Step
  <2>3. sig = "error" => \E x \in thrown : Parent(i) \in Above[x]
    BY <1>1, <1>3, <2>2 DEF ErrInv
  <2>4. UNCHANGED <<error, thrown>>
    BY <1>15 DEF Forwarded
  <2> QED
    BY <1>16, <2>1, <2>3, <2>4
<1> QED
  BY <1>5, <1>6, <1>7, <1>8, <1>9, <1>10, <1>11, <1>12, <1>13, <1>14, <1>15 DEF Signal

\* So does each construction: a stage that throws stores its own error.
LEMMA ConnectErr ==
  ASSUME SenderInv, HostTypeOK, StackInv, ErrInv, Connect
  PROVE  ErrInv'
<1> PICK i \in Ops : \/ ConnectPlain(i) \/ ConnectThen(i) \/ ConnectThenThrows(i)
                     \/ ConnectThenWithoutNode(i) \/ ConnectContinuesOn(i) \/ ConnectFork(i)
                     \/ ConnectWhenAll(i) \/ ConnectForkJoin(i) \/ ConnectAborts(i)
  BY DEF Connect
<1>1. sender \in Senders /\ error \in [Ops -> BOOLEAN]
  BY DEF SenderInv, ControlOK, HostTypeOK
<1>2. CASE ConnectAborts(i)
  <2>1. UNCHANGED <<sender, calls, error, thrown>>
    BY <1>2, Zenon DEF ConnectAborts, outcomeVars
  <2>2. Pending' = Pending
    BY <2>1 DEF Pending
  <2> QED
    BY <1>1, <2>1, <2>2, ErrStep
<1>3. CASE ~ConnectAborts(i)
  <2>1. \E kinds : Connecting(i, kinds)
    BY <1>3 DEF ConnectPlain, ConnectThen, ConnectThenThrows, ConnectThenWithoutNode,
           ConnectContinuesOn, ConnectFork, ConnectWhenAll, ConnectForkJoin
  <2>2. \/ UNCHANGED <<error, thrown>>
        \/ /\ error' = [error EXCEPT ![i] = TRUE] /\ thrown' = thrown \cup {i} /\ Kind(i) = "then"
    BY <1>3 DEF ConnectPlain, ConnectThen, ConnectThenThrows, ConnectThenWithoutNode,
           ConnectContinuesOn, ConnectFork, ConnectWhenAll, ConnectForkJoin, MayThrow, outcomeVars,
           Connecting
  <2>3. sender' = sender /\ (calls' = <<Call("start", i)>> \/ calls' = <<>>)
    BY <2>1 DEF Connecting, Call
  <2>4. Pending' \subseteq {Call("start", i)} \cup Pending
    BY <2>3 DEF Pending
  <2>5. \A c \in {Call("start", i)} : c.sig # "error"
    BY DEF Call
  <2>6. /\ thrown \subseteq thrown' /\ thrown' \subseteq thrown \cup Stages
        /\ \A j \in Ops : error'[j] => error[j] \/ j \in Stages \cap thrown'
    BY <1>1, <2>2 DEF Stages
  <2> QED
    BY <2>3, <2>4, <2>5, <2>6, ErrStep
<1> QED
  BY <1>2, <1>3

\* So does the consumer, which sends no errors; repeat_until drops those stored.
LEMMA CompletionErr ==
  ASSUME SenderInv, HostTypeOK, ErrInv,
         Complete \/ CompleteWithError \/ CompleteStopped \/ Repeat \/ Return
  PROVE  ErrInv'
<1>1. error \in [Ops -> BOOLEAN]
  BY DEF HostTypeOK
<1>2. CASE Complete \/ CompleteWithError \/ CompleteStopped
  <2>1. PICK sig : Calls(sig, Final, <<>>)
    BY <1>2 DEF Complete, CompleteWithError, CompleteStopped
  <2>2. sender' = sender /\ Pending' \subseteq Pending
    BY <2>1, StepNone DEF Step
  <2>3. UNCHANGED <<error, thrown>>
    BY <1>2 DEF Complete, CompleteWithError, CompleteStopped
  <2> QED
    BY <1>1, <2>2, <2>3, ErrStep
<1>3. CASE Repeat
  <2>1. /\ calls' = <<>> /\ sender' = sender /\ thrown' = thrown
        /\ error' = [j \in Ops |-> FALSE]
    BY <1>3 DEF Repeat, Nothing, outcomeVars
  <2>2. Pending' = {}
    BY <2>1 DEF Pending
  <2> QED
    BY <1>1, <2>1, <2>2, ErrStep
<1>4. CASE Return
  <2>1. UNCHANGED <<sender, calls, error, thrown>>
    BY <1>4 DEF Return, Nothing, outcomeVars
  <2>2. Pending' = Pending
    BY <2>1 DEF Pending
  <2> QED
    BY <1>1, <2>1, <2>2, ErrStep
<1> QED
  BY <1>2, <1>3, <1>4

\* Errors come from a stage that threw.
LEMMA NextErr == SenderInv /\ HostTypeOK /\ StackInv /\ ErrInv /\ [Next]_vars => ErrInv'
<1> SUFFICES ASSUME SenderInv, HostTypeOK, StackInv, ErrInv, [Next]_vars
             PROVE  ErrInv'
  OBVIOUS
<1>1. CASE HostStep
  BY <1>1, ConnectErr, SignalErr, CompletionErr DEF HostStep, SenderInv, ControlOK
<1>2. CASE (\E e \in Exec : StreamStep(e)) \/ UNCHANGED vars
  <2>1. UNCHANGED <<sender, calls, error, thrown>>
    BY <1>2 DEF StreamStep, RetireLaunch, RunFunctor, controlVars, outcomeVars, vars
  <2>2. Pending' = Pending /\ error \in [Ops -> BOOLEAN]
    BY <2>1 DEF Pending, HostTypeOK
  <2> QED
    BY <2>1, <2>2, ErrStep
<1> QED
  BY <1>1, <1>2 DEF Next, Terminated

-----------------------------------------------------------------------------
(***************************************************************************)
(* Nothing aborts in the first round unless something failed.              *)
(***************************************************************************)

\* In the first round no graph is instantiated while the sender is connected, so a
\* node is missing only where something threw.
AbortInv ==
  iter = 1 =>
    /\ phase = "connect" => \A c \in Context : ~is_instantiated[c]
    /\ thrown = {} => phase # "aborted" /\ \A i \in Ops : anchor[i].has # "invalid"

\* get_predecessor() asks an operation state that is constructed, or the graph.
LEMMA PredecessorValid ==
  ASSUME sender \in Senders, \A j \in Ops : anchor[j].has # "invalid",
         NEW i \in Ops, NEW inner \in Ops, NEW c
  PROVE  Predecessor(i, inner, c).has # "invalid"
<1>1. EnvFork(i) # 0 => EnvFork(i) \in Ops
  <2>1. EnvFork(i) \in 0 .. i - 1
    BY Children
  <2>2. Ops = 1 .. Outermost /\ Outermost \in Nat
    BY Tree
  <2> QED
    BY <2>1, <2>2
<1>2. RootOf(c).has = "node"
  BY DEF RootOf
<1>3. CASE anchor[inner].has # "none"
  BY <1>3 DEF Predecessor
<1>4. CASE anchor[inner].has = "none" /\ EnvFork(i) # 0
  BY <1>1, <1>4 DEF Predecessor
<1>5. CASE anchor[inner].has = "none" /\ EnvFork(i) = 0
  BY <1>2, <1>5 DEF Predecessor
<1> QED
  BY <1>3, <1>4, <1>5

\* Who is asked when Kokkos::abort is called.
LEMMA Asked ==
  ASSUME NEW i \in Ops, ConnectAborts(i)
  PROVE  \/ /\ Kind(i) \in {"then", "fork"}
            /\ Predecessor(i, Child(i)[1], CtxOf(i)).has = "invalid"
         \/ \E k \in Range(Child(i)) : anchor[k].has = "invalid"
<1> DEFINE pred == Predecessor(i, Child(i)[1], CtxOf(i))
           asked == CASE Kind(i) = "then" /\ OnGraph(i) /\ Proceed(i) -> {pred}
                      [] Kind(i) = "fork" -> {pred}
                      [] Kind(i) = "when_all" -> {anchor[k] : k \in Range(Child(i))}
                      [] OTHER -> {}
<1> HIDE DEF pred
<1>1. PICK a \in asked : a.has = "invalid"
  <2>1. \E a \in asked : a.has = "invalid"
    BY Zenon DEF ConnectAborts, pred
  <2> QED
    BY <2>1
<1>2. \/ Kind(i) \in {"then", "fork"} /\ asked = {pred}
      \/ asked = {anchor[k] : k \in Range(Child(i))}
      \/ asked = {}
  OBVIOUS
<1> HIDE DEF asked
<1> QED
  BY <1>1, <1>2 DEF pred

\* In the first round, each construction that asks for a node gets one.
LEMMA ConnectAbort ==
  ASSUME SenderInv, HostTypeOK, ErrInv, AbortInv, Connect
  PROVE  AbortInv'
<1> PICK i \in Ops : \/ ConnectPlain(i) \/ ConnectThen(i) \/ ConnectThenThrows(i)
                     \/ ConnectThenWithoutNode(i) \/ ConnectContinuesOn(i) \/ ConnectFork(i)
                     \/ ConnectWhenAll(i) \/ ConnectForkJoin(i) \/ ConnectAborts(i)
  BY DEF Connect
<1>1. sender \in Senders /\ anchor \in [Ops -> Answer]
  BY DEF SenderInv, ControlOK
<1>2. \A j \in Ops : \A k \in Range(Child(j)) : k \in Ops
  BY <1>1, Inside
<1>3. CASE ConnectAborts(i)
  <2>1. /\ phase' = "aborted" /\ UNCHANGED <<sender, iter, thrown>>
    BY <1>3, Zenon DEF ConnectAborts, outcomeVars
  <2>2. phase' # "connect"
    BY <2>1
  <2>3. ASSUME iter = 1, thrown = {}
        PROVE  FALSE
    <3>1. \A j \in Ops : anchor[j].has # "invalid"
      BY <2>3 DEF AbortInv
    <3>2. \A k \in Range(Child(i)) : anchor[k].has # "invalid"
      BY <1>2, <3>1
    <3>3. Kind(i) \in {"then", "fork"} => Child(i)[1] \in Ops
      BY <1>1, <1>2, Children
    <3>4. Kind(i) \in {"then", "fork"} => Predecessor(i, Child(i)[1], CtxOf(i)).has # "invalid"
      BY <1>1, <3>1, <3>3, PredecessorValid
    <3> QED
      BY <1>3, <3>2, <3>4, Asked
  <2> QED
    BY <2>1, <2>2, <2>3 DEF AbortInv
<1>4. CASE ~ConnectAborts(i)
  <2>1. PICK kinds : Connecting(i, kinds)
    BY <1>4 DEF ConnectPlain, ConnectThen, ConnectThenThrows, ConnectThenWithoutNode,
           ConnectContinuesOn, ConnectFork, ConnectWhenAll, ConnectForkJoin
  <2>2. /\ phase = "connect" /\ phase' \in {"connect", "run"} /\ UNCHANGED <<sender, iter>>
        /\ Ops' = Ops
    BY <2>1 DEF Connecting, Ops
  <2>3. is_instantiated' = is_instantiated /\ thrown \subseteq thrown'
    BY <1>4 DEF ConnectPlain, ConnectThen, ConnectThenThrows, ConnectThenWithoutNode,
           ConnectContinuesOn, ConnectFork, ConnectWhenAll, ConnectForkJoin, MayThrow, outcomeVars,
           contextVars, flagVars, LookUpGraph
  <2>4. ASSUME iter = 1, thrown' = {}, NEW j \in Ops
        PROVE  anchor'[j].has # "invalid"
    <3>1. /\ thrown = {} /\ \A k \in Ops : anchor[k].has # "invalid"
          /\ \A c \in Context : ~is_instantiated[c]
      BY <2>2, <2>3, <2>4 DEF AbortInv
    <3>2. \A k \in Ops : ~error[k]
      BY <3>1 DEF ErrInv
    <3> DEFINE pred == Predecessor(i, Child(i)[1], CtxOf(i))
    <3>3. /\ Kind(i) \in {"then", "continues_on", "fork"} => Child(i)[1] \in Ops
          /\ Kind(i) = "fork_join" => Child(i)[2] \in Ops
      BY <1>1, <1>2, Children
    <3>4. Kind(i) \in {"then", "continues_on", "fork"} => pred.has # "invalid"
      BY <1>1, <3>1, <3>3, PredecessorValid
    <3> HIDE DEF pred
    <3>5. ASSUME NEW a, Answers(i, a), a.has # "invalid"
          PROVE  anchor'[j].has # "invalid"
      BY <1>1, <3>1, <3>5 DEF Answers
    <3>6. NotQueryable.has # "invalid" /\ \A g : NodeIn(g, i).has # "invalid"
      BY DEF NotQueryable, NodeIn
    <3>7. CASE ConnectPlain(i) \/ ConnectThen(i) \/ ConnectWhenAll(i)
      BY <3>5, <3>6, <3>7 DEF ConnectPlain, ConnectThen, ConnectWhenAll
    <3>8. CASE ConnectThenThrows(i)
      <4>1. i \in thrown'
        BY <3>8 DEF ConnectThenThrows, MayThrow
      <4> QED
        BY <2>4, <4>1
    <3>9. CASE ConnectThenWithoutNode(i)
      <4>1. Kind(i) = "then" /\ CtxOf(i) \in Context /\ ~Proceed(i)
        BY <3>9 DEF ConnectThenWithoutNode, Connecting, OnGraph
      <4>2. ~is_instantiated[CtxOf(i)] /\ ~error[Child(i)[1]]
        BY <3>1, <3>2, <3>3, <4>1
      <4> QED
        BY <4>1, <4>2 DEF Proceed
    <3>10. CASE ConnectContinuesOn(i)
      <4>1. Kind(i) = "continues_on"
        BY <3>10 DEF ConnectContinuesOn, Connecting
      <4>2. PICK looks : Answers(i, [pred EXCEPT !.built = @ \cup looks])
        BY <3>10 DEF ConnectContinuesOn, pred
      <4>3. pred \in Answer
        BY <4>1, <3>10, AskedInside DEF ConnectContinuesOn, OnGraph, pred
      <4>4. [pred EXCEPT !.built = @ \cup looks].has = pred.has
        BY <4>3 DEF Answer
      <4> DEFINE a == [pred EXCEPT !.built = @ \cup looks]
      <4>5. Answers(i, a) /\ a.has # "invalid"
        BY <3>4, <4>1, <4>2, <4>4
      <4> HIDE DEF a
      <4> QED
        BY <3>5, <4>5
    <3>11. CASE ConnectFork(i)
      <4>1. Kind(i) = "fork"
        BY <3>11 DEF ConnectFork, Connecting
      <4> DEFINE a == [pred EXCEPT !.built = {}]
      <4>2. Answers(i, a)
        BY <3>11 DEF ConnectFork, pred
      <4>3. pred \in Answer
        BY <1>1, <4>1, ForkOnGraph, AskedInside DEF pred
      <4>4. a.has # "invalid"
        BY <3>4, <4>1, <4>3 DEF Answer
      <4> HIDE DEF a
      <4> QED
        BY <3>5, <4>2, <4>4
    <3>12. CASE ConnectForkJoin(i)
      BY <3>1, <3>3, <3>5, <3>12 DEF ConnectForkJoin, Connecting
    <3> QED
      BY <1>4, <3>7, <3>8, <3>9, <3>10, <3>11, <3>12
  <2> QED
    BY <2>2, <2>3, <2>4 DEF AbortInv
<1> QED
  BY <1>3, <1>4

\* No step of the first round asks for a node that is missing.
LEMMA NextAbort == SenderInv /\ HostTypeOK /\ ErrInv /\ AbortInv /\ [Next]_vars => AbortInv'
<1> SUFFICES ASSUME SenderInv, HostTypeOK, ErrInv, AbortInv, [Next]_vars
             PROVE  AbortInv'
  OBVIOUS
<1>1. CASE Connect
  BY <1>1, ConnectAbort
<1>2. ASSUME NEW i \in Ops, Signal(i)
      PROVE  AbortInv'
  <2>1. /\ phase = "run" /\ UNCHANGED <<sender, phase, iter, anchor>>
    BY <1>2 DEF Signal, StartSource, StartThen, StartInner, StartWhenAll, ValueStage, ValueHostStage,
         ThrowHostStage, ValueContinuesOn, ValueChild, ErrorChild, Joined, Forked,
         ValueForkJoin, Forwarded, Calls
  <2>2. thrown \subseteq thrown'
    BY <1>2 DEF Signal, StartSource, StartThen, StartInner, StartWhenAll, ValueStage, ValueHostStage,
         ThrowHostStage, ValueContinuesOn, ValueChild, ErrorChild, Joined, Forked,
         ValueForkJoin, Forwarded, Nothing, outcomeVars, MayThrow
  <2> QED
    BY <2>1, <2>2, SameTree DEF AbortInv
<1>3. CASE Complete \/ CompleteWithError \/ CompleteStopped
  <2>1. phase = "run" /\ UNCHANGED <<sender, phase, iter, anchor, thrown>>
    BY <1>3 DEF Complete, CompleteWithError, CompleteStopped, Calls
  <2> QED
    BY <2>1, SameTree DEF AbortInv
<1>4. CASE Repeat
  <2>1. iter' = iter + 1 /\ iter \in Nat /\ iter # 0
    BY <1>4, Shape DEF Repeat, SenderInv, ControlOK
  <2> QED
    BY <2>1 DEF AbortInv
<1>5. CASE Return
  <2>1. UNCHANGED <<sender, iter, anchor, thrown>>
    BY <1>5 DEF Return, Nothing, outcomeVars
  <2>2. phase' # "connect" /\ phase' # "aborted"
    BY <1>5, Zenon DEF Return
  <2> QED
    BY <2>1, <2>2, SameTree DEF AbortInv
<1>6. CASE (\E e \in Exec : StreamStep(e)) \/ UNCHANGED vars
  <2>1. UNCHANGED <<sender, phase, iter, anchor, thrown, is_instantiated>>
    BY <1>6 DEF StreamStep, RetireLaunch, RunFunctor, Retire, RunNode, flagVars, contextVars,
           controlVars, outcomeVars, vars
  <2> QED
    BY <2>1, SameTree DEF AbortInv
<1> QED
  BY <1>1, <1>2, <1>3, <1>4, <1>5, <1>6 DEF Next, HostStep, Terminated

\* In the first round an operation state is only asked for a node that it does
\* not have if something has thrown before: each node was built, and no graph was
\* instantiated yet.  In a later round proceed() keeps the stages from building
\* theirs, and a when_all that asks for them aborts.
THEOREM SenderNeverAborts == Spec => [](iter = 1 /\ thrown = {} => NeverAborts)
<1>1. Init => HostTypeOK
  BY DEF Init, HostTypeOK
<1>2. Init => StackInv /\ OnceInv /\ ErrInv /\ AbortInv
  <2> SUFFICES ASSUME Init PROVE StackInv /\ OnceInv /\ ErrInv /\ AbortInv
    OBVIOUS
  <2>1. /\ calls = <<>> /\ completions = 0 /\ DOMAIN calls = {} /\ error = [i \in Ops |-> FALSE]
        /\ anchor = [i \in Ops |-> NotQueryable] /\ phase = "connect" /\ thrown = {}
        /\ is_instantiated = [c \in Context |-> FALSE]
    BY DEF Init, ContextInit
  <2>2. NotQueryable.has = "none"
    BY DEF NotQueryable
  <2>3. StackInv /\ OnceInv /\ ErrInv
    BY <2>1 DEF StackInv, OnceInv, ErrInv, Pending
  <2>4. AbortInv
    BY <2>1, <2>2 DEF AbortInv
  <2> QED
    BY <2>3, <2>4
<1>3. AbortInv => (iter = 1 /\ thrown = {} => NeverAborts)
  BY DEF AbortInv, NeverAborts
<1> QED
  BY <1>1, <1>2, <1>3, NextStack, NextErr, NextAbort, NextHostType, SenderInvariance, PTL DEF Spec

-----------------------------------------------------------------------------
(***************************************************************************)
(* Where errors go.                                                        *)
(***************************************************************************)

\* Stage i is on the fork side of a fork_join.
InFork(i) == Above[i] \cap Forks # {}

\* Call c leads to the start of i: it starts what i is inside of, or it is made on
\* the fork side of a fork_join that i is on the join side of.
Starts(c, i) ==
  \/ c.sig = "start" /\ c.op \in {i} \cup Above[i]
  \/ \E f \in ({c.op} \cup Above[c.op]) \cap Forks : Join(f) \in {i} \cup Above[i]

\* The exception of stage i has reached the consumer, is on its way there, is held
\* by a when_all whose children were started, or by i, which is still to be started.
Reported(i) ==
  \/ result = "error"
  \/ \E c \in Pending : c.sig = "error" /\ c.op \in Above[i]
  \/ \E c \in Pending : c.sig = "joined" /\ c.op \in Above[i] /\ error[c.op]
  \/ error[i] /\ (phase = "connect" \/ \E c \in Pending : Starts(c, i))

\* Until sync_wait throws, every exception is reported or lost on a fork side.
ReportInv ==
  /\ completions = 0 => result = "none"
  /\ phase \in {"connect", "run", "returned", "stopped"} =>
       \A i \in thrown : InFork(i) \/ (Reported(i) /\ phase \in {"connect", "run"})

\* The join side of a fork_join is in it like the fork side.
LEMMA JoinFacts ==
  ASSUME sender \in Senders, NEW f \in Forks
  PROVE  /\ f \in Ops /\ Kind(f) = "fork" /\ Join(f) \in Ops /\ Join(f) \in WhenAlls
         /\ Parent(f) \in Ops /\ Kind(Parent(f)) = "fork_join"
         /\ Range(Child(Parent(f))) = {f, Join(f)} /\ Child(Parent(f))[1] = f
         /\ Parent(Join(f)) = Parent(f) /\ Above[Join(f)] = Above[f]
<1>1. f \in Ops /\ Kind(f) = "fork"
  BY DEF Forks
<1>2. Parent(f) \in Ops /\ Kind(Parent(f)) = "fork_join" /\ Child(Parent(f))[1] = f
  BY <1>1, Inside DEF HasKind
<1>3. Range(Child(Parent(f))) = {f, Join(f)} /\ Kind(Join(f)) = "when_all"
  BY <1>2, Inside DEF Join
<1>4. Join(f) \in Ops /\ Parent(Join(f)) = Parent(f)
  BY <1>2, <1>3, Inside
<1> QED
  BY <1>1, <1>2, <1>3, <1>4, AboveFacts DEF WhenAlls

\* What starts a stage that has an error to report makes another call that does,
\* or reports the error.
LEMMA StartsOn ==
  ASSUME sender \in Senders, HostTypeOK, StackInv, NEW i \in Ops, Kind(i) = "then", error[i], ~InFork(i),
         NEW j \in Ops, Signal(j), NEW c \in Pending, Starts(c, i)
  PROVE  \/ \E d \in Pending' : Starts(d, i)
         \/ \E d \in Pending' : d.sig = "error" /\ d.op \in Above[i]
<1>1. \A sig, k : Call(sig, k).sig = sig /\ Call(sig, k).op = k
  BY DEF Call
<1>2. Above[j] = {Parent(j)} \cup Above[Parent(j)] /\ Parent(i) \in Above[i]
  BY AboveFacts
<1>3. \A b \in Range(Child(j)) : b \in Ops /\ Above[b] = {j} \cup Above[j]
  BY Inside, AboveFacts
<1>4. j \in Above[i] => \E b \in Range(Child(j)) : b \in {i} \cup Above[i]
  BY AbovePath
<1>5. ASSUME NEW sig, NEW Made, Step(sig, j, Made), c # Call(sig, j)
      PROVE  c \in Pending'
  BY <1>5 DEF Step
<1>6. ASSUME NEW sig, NEW Made, Step(sig, j, Made)
      PROVE  Made \subseteq Pending'
  BY <1>6 DEF Step
\* A signal of the receiver of j.
<1>7. ASSUME NEW sig, NEW out, Step(sig, j, {Call(out, Parent(j))}), j \notin Forks,
             sig = "start" => j \notin {i} \cup Above[i]
      PROVE  \E d \in Pending' : Starts(d, i)
  <2>1. CASE c # Call(sig, j)
    BY <1>5, <1>7, <2>1
  <2>2. CASE c = Call(sig, j)
    <3>1. PICK f \in ({j} \cup Above[j]) \cap Forks : Join(f) \in {i} \cup Above[i]
      BY <1>1, <1>7, <2>2 DEF Starts
    <3>2. f \in ({Parent(j)} \cup Above[Parent(j)]) \cap Forks
      BY <1>2, <1>7, <3>1
    <3>3. Starts(Call(out, Parent(j)), i)
      BY <1>1, <3>1, <3>2 DEF Starts
    <3>4. Call(out, Parent(j)) \in Pending'
      BY <1>6, <1>7
    <3> QED
      BY <3>3, <3>4
  <2> QED
    BY <2>1, <2>2
\* The start of a child b of j, which i is inside of if it is inside of j.
<1>8. ASSUME NEW Made, Step("start", j, Made), NEW b \in Range(Child(j)), Call("start", b) \in Made,
             j # i, j \in Above[i] => b \in {i} \cup Above[i]
      PROVE  \E d \in Pending' : Starts(d, i)
  <2>1. CASE c # Call("start", j)
    BY <1>5, <1>8, <2>1
  <2>2. CASE c = Call("start", j)
    <3>1. Starts(Call("start", b), i)
      <4>1. CASE j \in Above[i]
        BY <1>1, <1>8, <4>1 DEF Starts
      <4>2. CASE j \notin Above[i]
        <5>1. PICK f \in ({j} \cup Above[j]) \cap Forks : Join(f) \in {i} \cup Above[i]
          BY <1>1, <1>8, <2>2, <4>2 DEF Starts
        <5>2. f \in ({b} \cup Above[b]) \cap Forks
          BY <1>3, <5>1
        <5> QED
          BY <1>1, <5>1, <5>2 DEF Starts
      <4> QED
        BY <4>1, <4>2
    <3> QED
      BY <1>6, <1>8, <3>1
  <2> QED
    BY <2>1, <2>2
<1>9. Kind(j) # "fork" => j \notin Forks
  BY DEF Forks
<1>10. CASE StartSource(j)
  <2>1. PICK out : Step("start", j, {Call(out, Parent(j))})
    BY <1>10, Steps
  <2>2. Kind(j) \in Sources /\ Range(Child(j)) = {}
    BY <1>10, Inside DEF StartSource
  <2>3. j \notin {i} \cup Above[i] /\ Kind(j) # "fork"
    BY <1>4, <2>2 DEF Sources
  <2> QED
    BY <1>7, <1>9, <2>1, <2>3
<1>11. CASE StartThen(j)
  <2> DEFINE b == Child(j)[1]
  <2>1. b \in Range(Child(j)) /\ Range(Child(j)) = {b}
    BY <1>11, Inside, Children DEF StartThen
  <2> HIDE DEF b
  <2>2. CASE j = i
    <3>1. Step("start", i, {Call("error", Parent(i)), Call("start", b)})
      BY <1>11, <2>2, Steps DEF b
    <3> QED
      BY <1>1, <1>2, <1>6, <2>2, <3>1
  <2>3. CASE j # i
    <3>1. \E Made : Step("start", j, Made) /\ Call("start", b) \in Made
      BY <1>11, Steps DEF b
    <3> QED
      BY <1>4, <1>8, <2>1, <2>3, <3>1
  <2> QED
    BY <2>2, <2>3
<1>12. CASE StartInner(j)
  <2> DEFINE b == Child(j)[1]
  <2>1. /\ b \in Range(Child(j)) /\ Step("start", j, {Call("start", b)})
        /\ Kind(j) \in {"continues_on", "fork", "fork_join"} /\ j # i
    BY <1>12, Steps, Children DEF StartInner
  <2>2. CASE Kind(j) # "fork_join"
    <3>1. Range(Child(j)) = {b}
      BY <2>1, <2>2, Inside
    <3> HIDE DEF b
    <3> QED
      BY <1>4, <1>8, <2>1, <3>1
  <2>3. CASE Kind(j) = "fork_join"
    <3>1. Range(Child(j)) = {b, Child(j)[2]} /\ Kind(b) = "fork" /\ b \in Ops /\ Parent(b) = j
      BY <2>1, <2>3, Inside
    <3>2. b \in Forks /\ Join(b) = Child(j)[2]
      BY <3>1 DEF Forks, Join
    <3> HIDE DEF b
    <3>3. b \notin {i} \cup Above[i]
      <4>1. b \notin Above[i]
        BY <3>2 DEF InFork
      <4> QED
        BY <3>1, <4>1
    <3>4. CASE j \in Above[i]
      <4>1. Join(b) \in {i} \cup Above[i]
        BY <1>4, <3>1, <3>2, <3>3, <3>4
      <4>2. Starts(Call("start", b), i)
        BY <1>1, <3>2, <4>1 DEF Starts
      <4> QED
        BY <1>6, <2>1, <4>2
    <3>5. CASE j \notin Above[i]
      BY <1>8, <2>1, <3>5
    <3> QED
      BY <3>4, <3>5
  <2> QED
    BY <2>2, <2>3
<1>13. CASE StartWhenAll(j)
  <2> DEFINE Made == {Call("start", b) : b \in Range(Child(j))} \cup {Call("joined", j)}
  <2>1. Step("start", j, Made) /\ Kind(j) = "when_all" /\ j # i
    BY <1>13, Steps DEF StartWhenAll
  <2>2. \A b \in Range(Child(j)) : Call("start", b) \in Made
    OBVIOUS
  <2> HIDE DEF Made
  <2>3. \E b \in Range(Child(j)) : j \in Above[i] => b \in {i} \cup Above[i]
    <3>1. Child(j)[1] \in Range(Child(j))
      BY <2>1, Inside
    <3> QED
      BY <1>4, <3>1
  <2> QED
    BY <1>8, <2>1, <2>2, <2>3
<1>14. CASE ValueStage(j) \/ ValueHostStage(j) \/ ValueContinuesOn(j) \/ ValueForkJoin(j)
  <2>1. Step("value", j, {Call("value", Parent(j))}) /\ Kind(j) # "fork"
    BY <1>14, Steps DEF ValueStage, ValueHostStage, ValueContinuesOn, ValueForkJoin
  <2> QED
    BY <1>7, <1>9, <2>1
<1>15. CASE ThrowHostStage(j)
  <2>1. Step("value", j, {Call("error", Parent(j))}) /\ Kind(j) # "fork"
    BY <1>15, Steps DEF ThrowHostStage
  <2> QED
    BY <1>7, <1>9, <2>1
<1>16. CASE ValueChild(j) \/ ErrorChild(j)
  <2>1. PICK sig \in {"value", "error"} : Step(sig, j, {})
    BY <1>16, Steps
  <2>2. j \in WhenAlls /\ j \notin Forks
    BY <1>16 DEF ValueChild, ErrorChild, WhenAlls, Forks
  <2>3. CASE c # Call(sig, j)
    BY <1>5, <2>1, <2>3
  <2>4. CASE c = Call(sig, j)
    <3>1. PICK f \in ({j} \cup Above[j]) \cap Forks : Join(f) \in {i} \cup Above[i]
      BY <1>1, <2>4 DEF Starts
    <3>2. Call("joined", j) \in Pending
      <4>1. j \in Over(c)
        BY <1>1, <2>4 DEF Over
      <4> QED
        BY <2>2, <4>1 DEF StackInv, Pending
    <3>3. Call("joined", j) \in Pending'
      <4>1. Call("joined", j) # Call(sig, j)
        BY <1>1
      <4> QED
        BY <2>1, <3>2, <4>1 DEF Step
    <3>4. Starts(Call("joined", j), i)
      BY <1>1, <3>1 DEF Starts
    <3> QED
      BY <3>3, <3>4
  <2> QED
    BY <2>3, <2>4
<1>17. CASE Joined(j)
  <2>1. \E out : Step("joined", j, {Call(out, Parent(j))})
    <3>1. CASE error[j]
      BY <1>17, <3>1, Steps
    <3>2. CASE ~error[j]
      BY <1>17, <3>2, Steps
    <3> QED
      BY <3>1, <3>2
  <2>2. Call("joined", j) \in Pending
    BY <2>1 DEF Step
  <2>3. j \in WhenAlls
    BY <1>1, <2>2 DEF StackInv, Pending
  <2>4. j \notin Forks
    BY <2>3 DEF WhenAlls, Forks
  <2> QED
    BY <1>7, <2>1, <2>4
<1>18. CASE Forked(j)
  <2>1. PICK sig \in {"value", "error"} : Step(sig, j, {Call("start", Join(j))})
    BY <1>18, Steps DEF Join
  <2>2. j \in Forks
    BY <1>18 DEF Forked, Forks
  <2>3. CASE c # Call(sig, j)
    BY <1>5, <2>1, <2>3
  <2>4. CASE c = Call(sig, j)
    <3>1. PICK f \in ({j} \cup Above[j]) \cap Forks : Join(f) \in {i} \cup Above[i]
      BY <1>1, <2>4 DEF Starts
    <3>2. Starts(Call("start", Join(j)), i)
      BY <1>1, <2>2, <3>1, JoinFacts DEF Starts
    <3> QED
      BY <1>6, <2>1, <3>2
  <2> QED
    BY <2>3, <2>4
<1>19. CASE Forwarded(j)
  <2>1. PICK sig \in {"error", "stopped"} : Step(sig, j, {Call(sig, Parent(j))})
    BY <1>19, Steps
  <2>2. Kind(j) # "fork"
    BY <1>19 DEF Forwarded
  <2> QED
    BY <1>7, <1>9, <2>1, <2>2
<1> QED
  BY <1>10, <1>11, <1>12, <1>13, <1>14, <1>15, <1>16, <1>17, <1>18, <1>19 DEF Signal

\* A report that is due stays due, in one form or another.
LEMMA SignalReported ==
  ASSUME sender \in Senders, HostTypeOK, StackInv, ErrInv, NEW i \in thrown, ~InFork(i), Reported(i),
         NEW j \in Ops, Signal(j)
  PROVE  Reported(i)'
<1>1. \A sig, k : Call(sig, k).sig = sig /\ Call(sig, k).op = k
  BY DEF Call
<1>2. i \in Ops /\ Kind(i) = "then" /\ (j \in Above[i] => Parent(j) \in Above[i])
  BY AboveFacts DEF ErrInv, Stages
<1>3. /\ phase = "run" /\ phase' = "run" /\ sender' = sender /\ result' = result
      /\ \E sig, Made : Step(sig, j, Made)
  <2>1. \E sig, Made : Step(sig, j, Made)
    BY Steps DEF Signal
  <2>2. result' = result
    BY DEF Signal, StartSource, StartThen, StartInner, StartWhenAll, ValueStage, ValueHostStage,
         ThrowHostStage, ValueContinuesOn, ValueChild, ErrorChild, Joined, Forked,
         ValueForkJoin, Forwarded, Nothing, outcomeVars
  <2> QED
    BY <2>1, <2>2 DEF Step
<1>4. /\ Above' = Above /\ Forks' = Forks /\ \A k : Join(k)' = Join(k)
      /\ \A c, k : Starts(c, k)' <=> Starts(c, k)
  <2>1. Above' = Above /\ Forks' = Forks /\ \A k : Join(k)' = Join(k)
    BY <1>3, SameTree
  <2> QED
    BY <2>1 DEF Starts
<1>5. \A k \in Ops : error[k] => error'[k]
  <2>1. error' = error \/ error' = [error EXCEPT ![j] = TRUE]
    BY DEF Signal, StartSource, StartThen, StartInner, StartWhenAll, ValueStage, ValueHostStage,
         ThrowHostStage, ValueContinuesOn, ValueChild, ErrorChild, Joined, Forked,
         ValueForkJoin, Forwarded
  <2> QED
    BY <2>1 DEF HostTypeOK
<1>6. SUFFICES \/ result = "error"
               \/ \E c \in Pending' : c.sig = "error" /\ c.op \in Above[i]
               \/ \E c \in Pending' : c.sig = "joined" /\ c.op \in Above[i] /\ error'[c.op]
               \/ error'[i] /\ \E c \in Pending' : Starts(c, i)
  BY <1>3, <1>4, <1>6 DEF Reported
<1>7. ASSUME NEW c \in Pending, c.sig = "error", c.op \in Above[i]
      PROVE  \/ \E d \in Pending' : d.sig = "error" /\ d.op \in Above[i]
             \/ \E d \in Pending' : d.sig = "joined" /\ d.op \in Above[i] /\ error'[d.op]
  <2>1. CASE c \in Pending'
    BY <1>7, <2>1
  <2>2. CASE c \notin Pending'
    <3>1. ASSUME NEW sig, NEW Made, Step(sig, j, Made)
          PROVE  sig = "error" /\ j \in Above[i]
      BY <1>1, <1>7, <2>2, <3>1 DEF Step
    <3>3. CASE Forwarded(j)
      <4>1. PICK sig \in {"error", "stopped"} : Step(sig, j, {Call(sig, Parent(j))})
        BY <3>3, Steps
      <4>2. sig = "error"
        BY <3>1, <4>1
      <4>3. Call("error", Parent(j)) \in Pending'
        BY <4>1, <4>2 DEF Step
      <4>4. Parent(j) \in Above[i]
        BY <1>2, <3>1, <4>1
      <4> DEFINE d == Call("error", Parent(j))
      <4>5. d.sig = "error" /\ d.op = Parent(j) /\ d \in Pending'
        BY <1>1, <4>3
      <4> HIDE DEF d
      <4> QED
        BY <4>4, <4>5
    <3>4. CASE Forked(j)
      <4>1. \E sig, Made : Step(sig, j, Made)
        BY <3>4, Steps
      <4> QED
        BY <3>1, <3>4, <4>1 DEF Forked, Forks, InFork
    <3>5. CASE ErrorChild(j)
      <4>1. Step("error", j, {}) /\ j \in WhenAlls /\ error'[j]
        <5>1. Step("error", j, {})
          BY <3>5, Steps
        <5>2. Kind(j) = "when_all" /\ error' = [error EXCEPT ![j] = TRUE]
          BY <3>5 DEF ErrorChild
        <5> QED
          BY <5>1, <5>2 DEF WhenAlls, HostTypeOK
      <4>2. Call("error", j) \in Pending
        BY <4>1 DEF Step
      <4>3. Call("joined", j) \in Pending
        <5>1. j \in Over(Call("error", j))
          BY <1>1 DEF Over
        <5> QED
          BY <4>1, <4>2, <5>1 DEF StackInv, Pending
      <4>4. Call("joined", j) \in Pending'
        <5>1. Call("joined", j) # Call("error", j)
          BY <1>1
        <5> QED
          BY <4>1, <4>3, <5>1 DEF Step
      <4> QED
        BY <1>1, <3>1, <4>1, <4>4
    <3>6. CASE StartSource(j) \/ StartThen(j) \/ StartInner(j) \/ StartWhenAll(j)
      <4>1. \E Made : Step("start", j, Made)
        BY <3>6, Steps
      <4> QED
        BY <3>1, <4>1
    <3>7. CASE \/ ValueStage(j) \/ ValueHostStage(j) \/ ValueContinuesOn(j) \/ ValueForkJoin(j)
               \/ ThrowHostStage(j) \/ ValueChild(j)
      <4>1. \E Made : Step("value", j, Made)
        BY <3>7, Steps
      <4> QED
        BY <3>1, <4>1
    <3>8. CASE Joined(j)
      <4>1. \E Made : Step("joined", j, Made)
        <5>1. error[j] \/ ~error[j]
          OBVIOUS
        <5> QED
          BY <3>8, <5>1, Steps
      <4> QED
        BY <3>1, <4>1
    <3> QED
      BY <3>3, <3>4, <3>5, <3>6, <3>7, <3>8 DEF Signal
  <2> QED
    BY <2>1, <2>2
<1>8. ASSUME NEW c \in Pending, c.sig = "joined", c.op \in Above[i], error[c.op]
      PROVE  \/ \E d \in Pending' : d.sig = "error" /\ d.op \in Above[i]
             \/ \E d \in Pending' : d.sig = "joined" /\ d.op \in Above[i] /\ error'[d.op]
  <2>1. c.op \in WhenAlls /\ c.op \in Ops
    BY <1>8 DEF StackInv, Pending, WhenAlls
  <2>2. CASE c \in Pending'
    BY <1>5, <1>8, <2>1, <2>2
  <2>3. CASE c \notin Pending'
    <3>1. ASSUME NEW sig, NEW Made, Step(sig, j, Made)
          PROVE  sig = "joined" /\ j = c.op
      BY <1>1, <1>8, <2>3, <3>1 DEF Step
    <3>2. CASE Joined(j)
      <4>1. error[j] => Step("joined", j, {Call("error", Parent(j))})
        BY <3>2, Steps
      <4>2. ~error[j] => Step("joined", j, {Call("value", Parent(j))})
        BY <3>2, Steps
      <4>3. error[j] /\ j \in Above[i]
        BY <1>8, <3>1, <4>1, <4>2
      <4> QED
        BY <1>1, <1>2, <4>1, <4>3 DEF Step
    <3>3. CASE ~Joined(j)
      <4>1. \E sig \in {"start", "value", "error", "stopped"} : \E Made : Step(sig, j, Made)
        <5>1. error[j] \/ ~error[j]
          OBVIOUS
        <5> QED
          BY <3>3, <5>1, Steps DEF Signal
      <4> QED
        BY <3>1, <4>1
    <3> QED
      BY <3>2, <3>3
  <2> QED
    BY <2>2, <2>3
<1>9. ASSUME error[i], NEW c \in Pending, Starts(c, i)
      PROVE  \/ error'[i] /\ \E d \in Pending' : Starts(d, i)
             \/ \E d \in Pending' : d.sig = "error" /\ d.op \in Above[i]
  BY <1>2, <1>5, <1>9, StartsOn
<1> QED
  BY <1>3, <1>7, <1>8, <1>9 DEF Reported

\* Each call keeps what is due to be reported, and a stage that throws reports.
LEMMA SignalReport ==
  ASSUME sender \in Senders, HostTypeOK, StackInv, ErrInv, ReportInv, NEW j \in Ops, Signal(j)
  PROVE  ReportInv'
<1>1. /\ phase = "run" /\ phase' = "run" /\ sender' = sender /\ UNCHANGED <<result, completions>>
      /\ thrown' = thrown \/ ThrowHostStage(j)
  BY DEF Signal, StartSource, StartThen, StartInner, StartWhenAll, ValueStage, ValueHostStage,
         ThrowHostStage, ValueContinuesOn, ValueChild, ErrorChild, Joined, Forked,
         ValueForkJoin, Forwarded, Nothing, outcomeVars, Calls
<1>2. /\ Above' = Above /\ \A k : InFork(k)' <=> InFork(k)
  <2>1. Above' = Above /\ Forks' = Forks
    BY <1>1, SameTree
  <2> QED
    BY <2>1 DEF InFork
<1>3. ASSUME NEW i \in thrown
      PROVE  InFork(i) \/ Reported(i)'
  BY <1>1, <1>3, SignalReported DEF ReportInv
<1>4. ASSUME ThrowHostStage(j)
      PROVE  Reported(j)' /\ thrown' = thrown \cup {j}
  <2>1. Step("value", j, {Call("error", Parent(j))}) /\ thrown' = thrown \cup {j}
    BY <1>4, Steps DEF ThrowHostStage, MayThrow
  <2>2. Call("error", Parent(j)) \in Pending' /\ Parent(j) \in Above[j]
    BY <2>1, AboveFacts DEF Step
  <2>3. Call("error", Parent(j)).sig = "error" /\ Call("error", Parent(j)).op = Parent(j)
    BY DEF Call
  <2>4. \E c \in Pending' : c.sig = "error" /\ c.op \in Above[j]
    BY <2>2, <2>3
  <2> QED
    BY <1>2, <2>1, <2>4 DEF Reported
<1>5. \A i \in thrown' : InFork(i)' \/ Reported(i)'
  BY <1>1, <1>2, <1>3, <1>4
<1> QED
  BY <1>1, <1>5 DEF ReportInv

\* A stage that throws while it is connected holds its error, and the outermost
\* operation state is started once all are connected.
LEMMA ConnectReport ==
  ASSUME SenderInv, HostTypeOK, StackInv, ErrInv, ReportInv, Connect
  PROVE  ReportInv'
<1> PICK i \in Ops : \/ ConnectPlain(i) \/ ConnectThen(i) \/ ConnectThenThrows(i)
                     \/ ConnectThenWithoutNode(i) \/ ConnectContinuesOn(i) \/ ConnectFork(i)
                     \/ ConnectWhenAll(i) \/ ConnectForkJoin(i) \/ ConnectAborts(i)
  BY DEF Connect
<1>1. sender \in Senders /\ error \in [Ops -> BOOLEAN] /\ thrown \subseteq Ops
  BY DEF SenderInv, ControlOK, HostTypeOK
<1>2. CASE ConnectAborts(i)
  <2>1. phase' = "aborted" /\ UNCHANGED <<completions, result>>
    BY <1>2, Zenon DEF ConnectAborts, outcomeVars
  <2> QED
    BY <2>1 DEF ReportInv
<1>3. CASE ~ConnectAborts(i)
  <2>1. \E kinds : Connecting(i, kinds)
    BY <1>3 DEF ConnectPlain, ConnectThen, ConnectThenThrows, ConnectThenWithoutNode,
           ConnectContinuesOn, ConnectFork, ConnectWhenAll, ConnectForkJoin
  <2>2. \/ UNCHANGED <<error, thrown>>
        \/ error' = [error EXCEPT ![i] = TRUE] /\ thrown' = thrown \cup {i}
    BY <1>3 DEF ConnectPlain, ConnectThen, ConnectThenThrows, ConnectThenWithoutNode,
           ConnectContinuesOn, ConnectFork, ConnectWhenAll, ConnectForkJoin, MayThrow, outcomeVars
  <2>3. UNCHANGED <<completions, result>>
    BY <1>3 DEF ConnectPlain, ConnectThen, ConnectThenThrows, ConnectThenWithoutNode,
           ConnectContinuesOn, ConnectFork, ConnectWhenAll, ConnectForkJoin, MayThrow, outcomeVars
  <2>4. /\ phase = "connect" /\ sender' = sender /\ phase' \in {"connect", "run"}
        /\ i = Outermost => phase' = "run" /\ calls' = <<Call("start", i)>>
        /\ i # Outermost => phase' = "connect"
    BY <2>1 DEF Connecting, Call
  <2>5. calls = <<>> /\ completions = 0 /\ result = "none"
    BY <2>4 DEF StackInv, ReportInv
  <2>6. Pending = {}
    BY <2>5 DEF Pending
  <2>7. /\ Above' = Above /\ Forks' = Forks /\ (\A k : InFork(k)' <=> InFork(k))
        /\ \A c, k : Starts(c, k)' <=> Starts(c, k)
    <3>1. Above' = Above /\ Forks' = Forks /\ \A k : Join(k)' = Join(k)
      BY <2>4, SameTree
    <3> QED
      BY <3>1 DEF Starts, InFork
  <2>8. ASSUME NEW k \in thrown', ~InFork(k)
        PROVE  Reported(k)'
    <3>1. k \in Ops /\ error'[k]
      <4>1. k \in thrown => error[k]
        BY <1>1, <2>4, <2>5, <2>6, <2>8 DEF ReportInv, Reported
      <4> QED
        BY <1>1, <2>2, <2>8, <4>1
    <3>2. CASE i # Outermost
      BY <2>4, <3>1, <3>2 DEF Reported
    <3>3. CASE i = Outermost
      <4>1. Call("start", i) \in Pending'
        <5>1. 1 \in DOMAIN calls' /\ calls'[1] = Call("start", i)
          BY <2>4, <3>3
        <5> QED
          BY <5>1 DEF Pending
      <4>2. i \in {k} \cup Above[k]
        BY <1>1, <3>1, <3>3, AboveFacts
      <4>3. Starts(Call("start", i), k)'
        BY <2>7, <4>2 DEF Starts, Call
      <4> QED
        BY <3>1, <4>1, <4>3 DEF Reported
    <3> QED
      BY <3>2, <3>3
  <2> QED
    BY <2>3, <2>4, <2>5, <2>7, <2>8 DEF ReportInv
<1> QED
  BY <1>2, <1>3

\* sync_wait throws just if the consumer holds an error.
LEMMA ReturnOutcome ==
  ASSUME Return
  PROVE  phase' = "threw" \/ (result # "error" /\ phase' \in {"returned", "stopped"})
<1>1. phase' = CASE result = "error" -> "threw"
                 [] result = "stopped" /\ ~OnGraph(Outermost) -> "stopped"
                 [] OTHER -> "returned"
  BY Zenon DEF Return
<1>2. CASE result = "error"
  BY <1>1, <1>2
<1>3. CASE result = "stopped" /\ ~OnGraph(Outermost)
  BY <1>1, <1>3
<1>4. CASE result # "error" /\ ~(result = "stopped" /\ ~OnGraph(Outermost))
  BY <1>1, <1>4
<1> QED
  BY <1>2, <1>3, <1>4

\* The consumer keeps the error it received, and is asked what it holds when no
\* call is left.
LEMMA CompletionReport ==
  ASSUME SenderInv, HostTypeOK, StackInv, ErrInv, ReportInv,
         Complete \/ CompleteWithError \/ CompleteStopped \/ Repeat \/ Return
  PROVE  ReportInv'
<1>1. sender \in Senders /\ thrown \subseteq Ops /\ completions \in Nat
  BY DEF SenderInv, ControlOK, HostTypeOK
<1>2. /\ sender' = sender /\ thrown' = thrown /\ phase = "run"
  BY DEF Complete, CompleteWithError, CompleteStopped, Repeat, Return, Nothing, outcomeVars, Calls
<1>3. /\ Above' = Above /\ Forks' = Forks /\ (\A k : InFork(k)' <=> InFork(k))
      /\ \A c, k : Starts(c, k)' <=> Starts(c, k)
  <2>1. Above' = Above /\ Forks' = Forks /\ \A k : Join(k)' = Join(k)
    BY <1>2, SameTree
  <2> QED
    BY <2>1 DEF Starts, InFork
<1>4. \A k \in thrown : k \in Ops /\ (InFork(k) \/ Reported(k))
  BY <1>1, <1>2 DEF ReportInv
<1>5. CASE Complete \/ CompleteWithError \/ CompleteStopped
  <2>1. PICK sig \in {"value", "error", "stopped"} : Calls(sig, Final, <<>>) /\ Receives(sig)
    BY <1>5 DEF Complete, CompleteWithError, CompleteStopped
  <2>2. Step(sig, Final, {})
    BY <2>1, StepNone
  <2>3. /\ phase' = "run" /\ Pending \subseteq Pending' \cup {Call(sig, Final)}
        /\ error' = error /\ completions' # 0
        /\ result' = (IF result = "error" THEN result ELSE sig)
    BY <1>1, <1>2, <1>5, <2>1, <2>2 DEF Step, Receives, Complete, CompleteWithError, CompleteStopped
  <2>4. ASSUME NEW k \in thrown, Reported(k)
        PROVE  Reported(k)'
    <3>1. CASE result = "error"
      BY <2>3, <3>1 DEF Reported
    <3>2. CASE \E c \in Pending : c.sig = "error" /\ c.op \in Above[k]
      <4>1. PICK c \in Pending : c.sig = "error" /\ c.op \in Above[k]
        BY <3>2
      <4>2. CASE c = Call(sig, Final)
        <5>1. sig = "error"
          BY <4>1, <4>2 DEF Call
        <5> QED
          BY <2>3, <5>1 DEF Reported
      <4>3. CASE c \in Pending'
        BY <1>3, <4>1, <4>3 DEF Reported
      <4> QED
        BY <2>3, <4>2, <4>3
    <3>3. CASE \E c \in Pending : c.sig = "joined" /\ c.op \in Above[k] /\ error[c.op]
      <4>1. PICK c \in Pending : c.sig = "joined" /\ c.op \in Above[k] /\ error[c.op]
        BY <3>3
      <4>2. c \in Pending'
        BY <2>1, <2>3, <4>1 DEF Call
      <4> QED
        BY <1>3, <2>3, <4>1, <4>2 DEF Reported
    <3>4. CASE error[k] /\ \E c \in Pending : Starts(c, k)
      <4>1. PICK c \in Pending : Starts(c, k)
        BY <3>4
      <4>2. CASE c = Call(sig, Final)
        <5>1. Above[Final] = {} /\ Final \notin Ops
          BY <1>1, <1>4, AboveFacts, Tree
        <5>2. c.sig # "start" /\ ({c.op} \cup Above[c.op]) \cap Forks = {}
          BY <2>1, <4>2, <5>1 DEF Call, Forks
        <5> QED
          BY <4>1, <5>2 DEF Starts
      <4>3. CASE c \in Pending'
        BY <1>3, <2>3, <3>4, <4>1, <4>3 DEF Reported
      <4> QED
        BY <2>3, <4>2, <4>3
    <3> QED
      BY <1>2, <2>4, <3>1, <3>2, <3>3, <3>4 DEF Reported
  <2> QED
    BY <1>2, <1>3, <1>4, <2>3, <2>4 DEF ReportInv
<1>6. CASE Repeat
  <2>1. /\ calls = <<Call("value", Final)>> /\ completions = 0 /\ UNCHANGED <<completions, result>>
        /\ phase' = "connect"
    BY <1>6 DEF Repeat, Nothing, outcomeVars
  <2>2. ASSUME NEW k \in thrown
        PROVE  InFork(k)
    <3>1. Pending = {Call("value", Final)}
      BY <2>1 DEF Pending
    <3>2. /\ Call("value", Final).sig = "value" /\ Call("value", Final).op = Final
          /\ Above[Final] = {} /\ Final \notin Forks
      BY <1>1, <1>4, AboveFacts, Tree DEF Call, Forks
    <3>3. ~Starts(Call("value", Final), k)
      BY <3>2 DEF Starts
    <3>4. ~Reported(k)
      BY <1>2, <2>1, <3>1, <3>2, <3>3 DEF Reported, ReportInv
    <3> QED
      BY <1>4, <3>4
  <2> QED
    BY <1>2, <1>3, <2>1, <2>2 DEF ReportInv
<1>7. CASE Return
  <2>1. /\ calls = <<>> /\ UNCHANGED <<completions, result>>
        /\ phase' = "threw" \/ (result # "error" /\ phase' \in {"returned", "stopped"})
    BY <1>7, ReturnOutcome DEF Return, Nothing, outcomeVars
  <2>2. Pending = {}
    BY <2>1 DEF Pending
  <2>3. CASE phase' = "threw"
    BY <2>1, <2>3 DEF ReportInv
  <2>4. CASE result # "error"
    <3>1. \A k \in thrown : ~Reported(k)
      BY <1>2, <2>2, <2>4 DEF Reported
    <3>2. \A k \in thrown' : InFork(k)'
      BY <1>2, <1>3, <1>4, <3>1
    <3> QED
      BY <2>1, <3>2 DEF ReportInv
  <2> QED
    BY <2>1, <2>3, <2>4
<1> QED
  BY <1>5, <1>6, <1>7

\* Every step keeps the reports.
LEMMA NextReport ==
  SenderInv /\ HostTypeOK /\ StackInv /\ ErrInv /\ ReportInv /\ [Next]_vars => ReportInv'
<1> SUFFICES ASSUME SenderInv, HostTypeOK, StackInv, ErrInv, ReportInv, [Next]_vars
             PROVE  ReportInv'
  OBVIOUS
<1>1. CASE HostStep
  BY <1>1, ConnectReport, SignalReport, CompletionReport DEF HostStep, SenderInv, ControlOK
<1>2. CASE (\E e \in Exec : StreamStep(e)) \/ UNCHANGED vars
  <2>1. UNCHANGED <<sender, phase, calls, error, thrown, result, completions>>
    BY <1>2 DEF StreamStep, RetireLaunch, RunFunctor, controlVars, outcomeVars, vars
  <2>2. /\ Pending' = Pending /\ Above' = Above /\ Forks' = Forks /\ \A k : Join(k)' = Join(k)
    BY <2>1, SameTree DEF Pending
  <2>3. \A k : (Reported(k)' <=> Reported(k)) /\ (InFork(k)' <=> InFork(k))
    BY <2>1, <2>2 DEF Reported, Starts, InFork
  <2> QED
    BY <2>1, <2>3 DEF ReportInv
<1> QED
  BY <1>1, <1>2 DEF Next, Terminated

\* sync_wait does not return normally if a stage threw, while it was connected or
\* when it ran, unless that stage is on the fork side of a fork_join.
THEOREM SenderErrorsReported == Spec => []ErrorsAreReported
<1>1. Init => HostTypeOK
  BY DEF Init, HostTypeOK
<1>2. Init => StackInv /\ OnceInv /\ ErrInv /\ ReportInv
  <2> SUFFICES ASSUME Init PROVE StackInv /\ OnceInv /\ ErrInv /\ ReportInv
    OBVIOUS
  <2>1. /\ calls = <<>> /\ completions = 0 /\ DOMAIN calls = {} /\ error = [i \in Ops |-> FALSE]
        /\ phase = "connect" /\ thrown = {} /\ result = "none"
    BY DEF Init
  <2> QED
    BY <2>1 DEF StackInv, OnceInv, ErrInv, ReportInv, Pending
<1>3. SenderInv /\ ErrInv /\ ReportInv => ErrorsAreReported
  <2> SUFFICES ASSUME SenderInv, ErrInv, ReportInv, phase = "returned", NEW i \in thrown
               PROVE  \E f \in Ops : Kind(f) = "fork" /\ i \in Before[f]
    BY DEF ErrorsAreReported
  <2>1. PICK f \in Above[i] : f \in Forks
    BY DEF ReportInv, InFork
  <2>2. sender \in Senders /\ i \in Ops /\ f \in Ops /\ Kind(f) = "fork"
    BY <2>1 DEF SenderInv, ControlOK, ErrInv, Stages, Forks
  <2> QED
    BY <2>1, <2>2, InBefore
<1> QED
  BY <1>1, <1>2, <1>3, NextStack, NextErr, NextReport, NextHostType, SenderInvariance, PTL DEF Spec

-----------------------------------------------------------------------------
(***************************************************************************)
(* What is on the device while the sender runs, and who will wait for it.  *)
(***************************************************************************)

\* The stages that submit.
GraphStages == {k \in Stages : OnGraph(k)}

\* A launch of context c is on its stream.
Flying(c) == \E n \in DOMAIN queue[ExecOf[c]] : queue[ExecOf[c]][n].ctx = c

\* On the way from stage k to p nobody fences the launch of k.
Reaches(k, p) == p \in Above[k] /\ \A q \in Above[k] : p \in Above[q] => ~Catches(q, k)

\* The stages that have submitted on that way are still marked, so that a fence of
\* their context further out will be one of the stream.
Marked(k, p) ==
  \A t \in GraphStages : t \in Above[k] /\ p \in Above[t] /\ ExecOf[CtxOf(t)] = ExecOf[CtxOf(k)] =>
    is_submitted[CtxOf(t)]

\* Call c will lead to whoever fences the launch of stage k: it is a value outside of
\* k, it is the code of a when_all around k, or it starts the join side of a
\* fork_join that has k on its fork side.
Carries(c, k) ==
  \/ c.sig \in {"value", "joined"} /\ Reaches(k, c.op) /\ Marked(k, c.op)
  \/ c.sig \in {"start", "joined"} /\
       \E f \in Forks : c.op = Join(f) /\ Reaches(k, f) /\ Marked(k, f)

\* Some pending call leads to the fence that a launch of context c needs.
Covered(c) == \E k \in GraphStages : CtxOf(k) = c /\ \E d \in Pending : Carries(d, k)

\* The error of a branch of a when_all has taken the place of its value.
Failing ==
  /\ \E i \in thrown : InBranch(i)
  /\ \/ result = "error"
     \/ \E c \in Pending : c.sig = "error" /\ ({c.op} \cup Above[c.op]) \cap Forks = {}
     \/ \E c \in Pending : c.sig = "joined" /\ error[c.op]

\* Stages that were constructed have a graph to submit.
GraphsInv ==
  /\ \A c \in Context : is_instantiated[c] => c \in has_graph
  /\ phase = "connect" => \A i \in GraphStages : i < cursor => CtxOf(i) \in has_graph
  /\ phase = "run" => \A i \in GraphStages : CtxOf(i) \in has_graph

\* What is on the device will be fenced, unless the sender fails with the error of a
\* branch; nothing is when it is over.
CoverInv ==
  Careful =>
    /\ thrown # {} => MaxThrows # 0
    /\ phase \in {"connect", "returned", "stopped"} => \A c \in Context : ~Flying(c)
    /\ phase = "run" => Failing \/ \A c \in Context : Flying(c) => Covered(c)
    /\ phase = "threw" => (\E i \in thrown : InBranch(i)) \/ \A c \in Context : ~Flying(c)

\* Nothing of this but the marks, the calls and the device changes.
LEMMA SameFences ==
  ASSUME sender' = sender
  PROVE  /\ GraphStages' = GraphStages /\ (\A i : CtxOf(i)' = CtxOf(i)) /\ (\A i : InBranch(i)' <=> InBranch(i))
         /\ \A q, k : Catches(q, k)' <=> Catches(q, k)
         /\ \A k, p : Reaches(k, p)' <=> Reaches(k, p)
         /\ Careful' <=> Careful
<1>1. /\ Above' = Above /\ Stages' = Stages /\ Before' = Before /\ ExecEnv' = ExecEnv
      /\ Ops' = Ops /\ Final' = Final /\ Outermost' = Outermost
  BY SameTree
<1>2. \A i : CtxOf(i)' = CtxOf(i) /\ Kind(i)' = Kind(i) /\ Child(i)' = Child(i)
  BY DEF CtxOf, Kind, Child
<1>3. \A i : OnGraph(i)' <=> OnGraph(i)
  BY <1>2 DEF OnGraph
<1>4. \A i : (SkipScheduleFrom(i)' <=> SkipScheduleFrom(i)) /\ (SkipWhenAll(i)' <=> SkipWhenAll(i))
  BY <1>1, <1>2, <1>3 DEF SkipScheduleFrom, SkipWhenAll
<1>5. \A q, c : WaitsOn(q, c)' <=> WaitsOn(q, c)
  BY <1>1, <1>2, <1>4 DEF WaitsOn
<1>6. \A q, k : Catches(q, k)' <=> Catches(q, k)
  BY <1>1, <1>2, <1>5 DEF Catches
<1>7. \A k, p : Reaches(k, p)' <=> Reaches(k, p)
  BY <1>1, <1>6 DEF Reaches
<1>8. GraphStages' = GraphStages
  BY <1>1, <1>3 DEF GraphStages
<1>9. Careful' <=> Careful
  BY <1>1, <1>2, <1>3, <1>6 DEF Careful
<1>10. \A i : InBranch(i)' <=> InBranch(i)
  BY <1>1, <1>2 DEF InBranch
<1> QED
  BY <1>2, <1>6, <1>7, <1>8, <1>9, <1>10

\* The way out of an operation state that does not fence leads to its receiver, with
\* no other one in between; a stage has its own receiver before it.
LEMMA Outwards ==
  ASSUME sender \in Senders, NEW i \in Ops
  PROVE  /\ Reaches(i, Parent(i)) /\ \A t \in Above[i] : Parent(i) \notin Above[t]
         /\ \A k \in Ops : Reaches(k, i) /\ ~Catches(i, k) =>
              /\ Reaches(k, Parent(i))
              /\ \A t \in Above[k] : Parent(i) \in Above[t] => t = i \/ i \in Above[t]
<1>1. /\ Above[i] = {Parent(i)} \cup Above[Parent(i)] /\ Above[i] \subseteq 1 .. Final
      /\ \A k \in Ops : Above[k] \subseteq 1 .. Final /\ \A p \in Above[k] : k < p /\ Above[p] \subseteq Above[k]
      /\ Above[Final] = {} /\ Final \in Nat /\ Ops \subseteq Nat /\ 1 .. Final = Ops \cup {Final}
  BY AboveFacts, Tree
<1>2. \A t \in Above[i] : Parent(i) \notin Above[t]
  <2> SUFFICES ASSUME NEW t \in Above[i], Parent(i) \in Above[t]
               PROVE  FALSE
    OBVIOUS
  <2>1. t \in Ops /\ t < Parent(i)
    BY <1>1
  <2>2. t \in Above[Parent(i)] => Parent(i) \in Ops /\ Parent(i) < t
    BY <1>1
  <2>3. t \in Nat /\ Parent(i) \in Nat
    BY <1>1, <2>1
  <2> QED
    BY <1>1, <2>1, <2>2, <2>3
<1>3. ASSUME NEW k \in Ops, i \in Above[k], NEW t \in Above[k], Parent(i) \in Above[t]
      PROVE  t = i \/ i \in Above[t]
  <2>1. t = i \/ i \in Above[t] \/ t \in Above[i]
    BY <1>3, AbovePath
  <2> QED
    BY <1>2, <1>3, <2>1
<1>4. ASSUME NEW k \in Ops, i \in Above[k]
      PROVE  Parent(i) \in Above[k]
  BY <1>1, <1>4
<1>5. ASSUME NEW k \in Ops, Reaches(k, i), ~Catches(i, k)
      PROVE  Reaches(k, Parent(i))
  BY <1>3, <1>4, <1>5 DEF Reaches
<1>6. Reaches(i, Parent(i))
  BY <1>1, <1>2 DEF Reaches
<1> QED
  BY <1>2, <1>3, <1>5, <1>6 DEF Reaches

\* A context with a launch on its stream is marked.
LEMMA FlyingMarked ==
  ASSUME IInv, NEW c \in Context, Flying(c)
  PROVE  is_submitted[c] /\ ExecOf[c] \in Exec
<1>1. ExecOf[c] \in Exec
  BY ContextAssumption
<1> QED
  BY <1>1 DEF Flying, IInv, LaunchInv

\* The device only takes launches away.
LEMMA DeviceFlying ==
  ASSUME IInv, NEW e \in Exec, DeviceStep(e), NEW c \in Context
  PROVE  (Flying(c)' => Flying(c)) /\ UNCHANGED is_submitted
<1>1. ExecOf[c] \in Exec /\ queue \in [Exec -> Seq(Launch)]
  BY ContextAssumption DEF IInv, ContextTypeOK
<1>2. CASE Retire(e)
  <2>1. queue' = [queue EXCEPT ![e] = Tail(@)] /\ UNCHANGED is_submitted /\ queue[e] # <<>>
    BY <1>2 DEF Retire, flagVars
  <2>2. \A j \in DOMAIN Tail(queue[e]) : j + 1 \in DOMAIN queue[e] /\ Tail(queue[e])[j] = queue[e][j + 1]
    BY <1>1, <2>1, TailElements
  <2> QED
    BY <1>1, <2>1, <2>2 DEF Flying
<1>3. CASE \E n \in Node : RunNode(e, n)
  <2>1. PICK n \in Node : RunNode(e, n)
    BY <1>3
  <2> DEFINE l == queue[e][1]
             ran == [l EXCEPT !.done = @ \cup {n}]
  <2>2. queue[e] \in Seq(Launch) /\ 1 \in DOMAIN queue[e] /\ Head(queue[e]) = l /\ l \in Launch
    BY <1>1, <2>1, HeadElement DEF RunNode
  <2>3. queue' = [queue EXCEPT ![e] = [@ EXCEPT ![1] = ran]] /\ UNCHANGED is_submitted
    BY <2>1, <2>2 DEF RunNode, flagVars
  <2>4. /\ DOMAIN queue'[e] = DOMAIN queue[e]
        /\ \A j \in DOMAIN queue[e] : queue'[e][j].ctx = queue[e][j].ctx
        /\ \A f \in Exec : f # e => queue'[f] = queue[f]
    <3>1. ran.ctx = l.ctx
      BY <2>2 DEF Launch
    <3> HIDE DEF ran
    <3> QED
      BY <1>1, <2>2, <2>3, <3>1
  <2> QED
    BY <1>1, <2>3, <2>4 DEF Flying
<1> QED
  BY <1>2, <1>3 DEF DeviceStep

\* A fence that is skipped changes no mark, and one that is not empties the stream.
LEMMA WaitFlying ==
  ASSUME IInv, NEW c, Wait(c), NEW d \in Context, Flying(d)'
  PROVE  /\ Flying(d)
         /\ c \in Context /\ ExecOf[c] = ExecOf[d] => ~is_submitted[c]
         /\ \A b \in Context : ExecOf[b] = ExecOf[d] /\ is_submitted[b] => is_submitted'[b]
<1>1. /\ queue' = queue /\ is_submitted' = [is_submitted EXCEPT ![c] = FALSE]
      /\ is_submitted[c] => queue[ExecOf[c]] = <<>>
      /\ is_submitted \in [Context -> BOOLEAN]
  BY DEF Wait, Fenced, IInv, ContextTypeOK
<1>2. Flying(d) /\ queue[ExecOf[d]] # <<>>
  BY <1>1 DEF Flying
<1>3. ASSUME NEW b \in Context, ExecOf[b] = ExecOf[d], is_submitted[b]
      PROVE  is_submitted'[b]
  <2>1. b # c
    BY <1>1, <1>2, <1>3
  <2> QED
    BY <1>1, <1>3, <2>1
<1> QED
  BY <1>1, <1>2, <1>3

\* Submission marks the context, and launches no other one.
LEMMA SubmitFlying ==
  ASSUME IInv, NEW c \in has_graph, Submit(c), NEW d \in Context
  PROVE  /\ Flying(d)' => Flying(d) \/ d = c
         /\ is_submitted'[c] /\ \A b \in Context : is_submitted[b] => is_submitted'[b]
<1>0. c \in Context /\ is_submitted \in [Context -> BOOLEAN] /\ queue \in [Exec -> Seq(Launch)]
  BY DEF IInv, ContextTypeOK
<1>1. CASE is_submitted[c]
  BY <1>0, <1>1 DEF Submit, flagVars, Flying
<1>2. CASE ~is_submitted[c]
  <2> DEFINE e == ExecOf[c]
             l == [ctx |-> c, done |-> {}]
  <2>1. /\ queue' = [queue EXCEPT ![e] = Append(@, l)]
        /\ is_submitted' = [is_submitted EXCEPT ![c] = TRUE]
    BY <1>2 DEF Submit, Launched
  <2>2. e \in Exec /\ ExecOf[d] \in Exec /\ l \in Launch /\ queue[e] \in Seq(Launch) /\ l.ctx = c
    BY <1>0, ContextAssumption DEF Launch
  <2> HIDE DEF e, l
  <2>3. /\ DOMAIN Append(queue[e], l) = DOMAIN queue[e] \cup {Len(queue[e]) + 1}
        /\ \A j \in DOMAIN queue[e] : Append(queue[e], l)[j] = queue[e][j]
        /\ Append(queue[e], l)[Len(queue[e]) + 1] = l
    BY <2>2, AppendElements
  <2>4. Flying(d)' => Flying(d) \/ d = c
    <3> SUFFICES ASSUME Flying(d)', d # c
                 PROVE  Flying(d)
      OBVIOUS
    <3>1. PICK n \in DOMAIN queue'[ExecOf[d]] : queue'[ExecOf[d]][n].ctx = d
      BY DEF Flying
    <3>2. CASE ExecOf[d] = e
      BY <1>0, <2>1, <2>2, <2>3, <3>1, <3>2 DEF Flying
    <3>3. CASE ExecOf[d] # e
      BY <1>0, <2>1, <2>2, <3>1, <3>3 DEF Flying
    <3> QED
      BY <3>2, <3>3
  <2> QED
    BY <1>0, <2>1, <2>4
<1> QED
  BY <1>1, <1>2

\* The streams are empty when nothing flies.
LEMMA NothingFlying ==
  ASSUME IInv, \A c \in Context : ~Flying(c)
  PROVE  Drained
<1> SUFFICES ASSUME NEW e \in Exec, queue[e] # <<>>
             PROVE  FALSE
  BY DEF Drained
<1>1. queue[e] \in Seq(Launch)
  BY DEF IInv, ContextTypeOK
<1>2. 1 \in DOMAIN queue[e] /\ queue[e][1] \in Launch
  BY <1>1, HeadElement
<1>3. queue[e][1].ctx \in Context /\ ExecOf[queue[e][1].ctx] = e
  BY <1>2 DEF IInv, LaunchInv, Launch
<1> QED
  BY <1>2, <1>3 DEF Flying

\* Whoever fences a launch on its way out empties its stream.
LEMMA FenceReached ==
  ASSUME sender \in Senders, IInv, NEW k \in GraphStages, NEW q, Marked(k, q), Catches(q, k),
         NEW d \in Context, d = CtxOf(k), Flying(d), \A c \in Context : WaitsOn(q, c) => Wait(c)
  PROVE  ~Flying(d)'
<1>1. is_submitted[d]
  BY FlyingMarked
<1>2. PICK c \in Context :
        /\ WaitsOn(q, c) /\ ExecOf[c] = ExecOf[d]
        /\ c = d \/ \E t \in Stages : CtxOf(t) = c /\ t \in Above[k] /\ q \in Above[t]
  BY DEF Catches
<1>3. is_submitted[c]
  BY <1>1, <1>2 DEF Marked, GraphStages, OnGraph
<1> QED
  BY <1>2, <1>3, WaitFlying

\* A stage after a stage is on the context of the latter.
LEMMA StageAfterStage ==
  ASSUME sender \in Senders, NEW i \in Ops, Kind(i) = "then", Kind(Child(i)[1]) = "then"
  PROVE  /\ Child(i)[1] \in Ops /\ Child(i)[1] < i
         /\ CtxOf(Child(i)[1]) = CtxOf(i)
<1>1. \A j \in Ops : Kind(j) = "then" /\ Kind(Child(j)[1]) = "then" => CtxOf(Child(j)[1]) = CtxOf(j)
  BY SenderAssumption DEF WellFormed, Ops, Child, Kind, CtxOf
<1>2. Child(i)[1] \in Range(Child(i)) /\ Range(Child(i)) \subseteq 1 .. i - 1
  BY Children
<1>3. Child(i)[1] \in Ops
  BY <1>2, Inside
<1> QED
  BY <1>1, <1>2, <1>3, Tree

\* Whoever constructs a stage has looked up its graph.
LEMMA ConnectGraphs ==
  ASSUME SenderInv, HostTypeOK, GraphsInv, Connect
  PROVE  GraphsInv' /\ UNCHANGED <<queue, is_submitted>>
<1> PICK i \in Ops : \/ ConnectPlain(i) \/ ConnectThen(i) \/ ConnectThenThrows(i)
                     \/ ConnectThenWithoutNode(i) \/ ConnectContinuesOn(i) \/ ConnectFork(i)
                     \/ ConnectWhenAll(i) \/ ConnectForkJoin(i) \/ ConnectAborts(i)
  BY DEF Connect
<1> USE DEF flagVars, contextVars
<1>1. sender \in Senders /\ Ops = 1 .. Outermost /\ Outermost \in Nat
  BY Tree DEF SenderInv, ControlOK
<1>2. CASE ConnectAborts(i)
  BY <1>2, Zenon DEF ConnectAborts, GraphsInv
<1>3. CASE ~ConnectAborts(i)
  <2>1. PICK kinds : Connecting(i, kinds)
    BY <1>3 DEF ConnectPlain, ConnectThen, ConnectThenThrows, ConnectThenWithoutNode,
           ConnectContinuesOn, ConnectFork, ConnectWhenAll, ConnectForkJoin
  <2>2. /\ phase = "connect" /\ sender' = sender /\ cursor = i /\ cursor' = i + 1
        /\ phase' \in {"connect", "run"} /\ (phase' = "run" => i = Outermost)
    BY <2>1 DEF Connecting
  <2>3. GraphStages' = GraphStages /\ \A k : CtxOf(k)' = CtxOf(k)
    BY <2>2, SameFences
  <2>4. UNCHANGED <<queue, is_submitted, is_instantiated>> /\ has_graph \subseteq has_graph'
    BY <1>3 DEF ConnectPlain, ConnectThen, ConnectThenThrows, ConnectThenWithoutNode, GetGraph,
           LookUpGraph, ConnectContinuesOn, ConnectFork, ConnectWhenAll, ConnectForkJoin
  <2>5. ASSUME i \in GraphStages
        PROVE  CtxOf(i) \in has_graph'
    <3>1. Kind(i) = "then" /\ OnGraph(i)
      BY <2>5 DEF GraphStages, Stages
    <3>2. ConnectThen(i) \/ ConnectThenThrows(i) \/ ConnectThenWithoutNode(i)
      BY <1>3, <3>1 DEF ConnectPlain, ConnectContinuesOn, ConnectFork, ConnectWhenAll,
             ConnectForkJoin, Connecting
    <3>3. CASE ConnectThen(i) \/ ConnectThenThrows(i)
      BY <3>3 DEF ConnectThen, ConnectThenThrows, GetGraph, LookUpGraph
    <3>4. CASE ConnectThenWithoutNode(i)
      <4>1. \/ is_instantiated[CtxOf(i)]
            \/ Kind(Child(i)[1]) = "then" /\ error[Child(i)[1]]
        BY <3>4 DEF ConnectThenWithoutNode, Proceed
      <4>2. CASE is_instantiated[CtxOf(i)]
        BY <2>4, <3>1, <4>2 DEF GraphsInv, OnGraph
      <4>3. CASE Kind(Child(i)[1]) = "then"
        <5>1. Child(i)[1] \in Ops /\ Child(i)[1] < i /\ CtxOf(Child(i)[1]) = CtxOf(i)
          BY <1>1, <3>1, <4>3, StageAfterStage
        <5>2. Child(i)[1] \in GraphStages
          BY <3>1, <4>3, <5>1 DEF GraphStages, Stages, OnGraph
        <5> QED
          BY <2>2, <2>4, <5>1, <5>2 DEF GraphsInv
      <4> QED
        BY <4>1, <4>2, <4>3
    <3> QED
      BY <3>2, <3>3, <3>4
  <2>6. \A k \in GraphStages : k < i + 1 => CtxOf(k) \in has_graph'
    <3> SUFFICES ASSUME NEW k \in GraphStages, k < i + 1
                 PROVE  CtxOf(k) \in has_graph'
      OBVIOUS
    <3>1. k < i \/ k = i
      BY <1>1 DEF GraphStages, Stages
    <3> QED
      BY <2>2, <2>4, <2>5, <3>1 DEF GraphsInv
  <2>7. phase' = "run" => \A k \in GraphStages : k < i + 1
    BY <1>1, <2>2 DEF GraphStages, Stages
  <2> QED
    BY <2>2, <2>3, <2>4, <2>6, <2>7 DEF GraphsInv
<1> QED
  BY <1>2, <1>3

\* What the host thread calls when it runs, and what the device does, builds no graph
\* and instantiates only those that exist.
LEMMA NextGraphs == SenderInv /\ HostTypeOK /\ GraphsInv /\ [Next]_vars => GraphsInv'
<1> SUFFICES ASSUME SenderInv, HostTypeOK, GraphsInv, [Next]_vars
             PROVE  GraphsInv'
  OBVIOUS
<1> USE DEF flagVars, contextVars, graphVars
<1>1. CASE Connect
  BY <1>1, ConnectGraphs
<1>2. CASE ~Connect
  <2>1. /\ has_graph' = has_graph /\ sender' = sender
        /\ \/ is_instantiated' = is_instantiated
           \/ \E c \in has_graph : is_instantiated' = [is_instantiated EXCEPT ![c] = TRUE]
        /\ phase' = "run" => phase = "run"
        /\ phase' = "connect" => cursor' = 1 \/ (phase = "connect" /\ cursor' = cursor)
    <3>1. CASE \E i \in Ops : Signal(i)
      <4>1. PICK i \in Ops : Signal(i)
        BY <3>1
      <4>2. CASE ValueStage(i)
        BY <4>2 DEF ValueStage, Calls, Submit, Launched
      <4>3. CASE ~ValueStage(i)
        <5>1. phase' = "run" /\ phase = "run" /\ sender' = sender
          BY <4>1 DEF Signal, StartSource, StartThen, StartInner, StartWhenAll, ValueStage, ValueHostStage,
             ThrowHostStage, ValueContinuesOn, ValueChild, ErrorChild, Joined, Forked,
             ValueForkJoin, Forwarded, Calls
        <5>2. UNCHANGED <<has_graph, is_instantiated>>
          BY <4>1, <4>3 DEF Signal, StartSource, StartThen, StartInner, StartWhenAll, ValueHostStage,
             ThrowHostStage, ValueContinuesOn, ValueChild, ErrorChild, Joined, Forked,
             ValueForkJoin, Forwarded, Nothing, Wait
        <5> QED
          BY <5>1, <5>2
      <4> QED
        BY <4>2, <4>3
    <3>2. CASE Complete \/ CompleteWithError \/ CompleteStopped \/ Repeat
      BY <3>2 DEF Complete, CompleteWithError, CompleteStopped, Repeat, Nothing, Calls, Wait
    <3>3. CASE Return
      <4>1. phase' # "run" /\ phase' # "connect" /\ UNCHANGED <<has_graph, sender, is_instantiated>>
        BY <3>3, ReturnOutcome DEF Return, Nothing
      <4> QED
        BY <4>1
    <3>4. CASE (\E e \in Exec : StreamStep(e)) \/ UNCHANGED vars
      BY <3>4 DEF StreamStep, RetireLaunch, RunFunctor, Retire, RunNode, controlVars, vars
    <3> QED
      BY <1>2, <3>1, <3>2, <3>3, <3>4 DEF Next, HostStep, Terminated
  <2>2. GraphStages' = GraphStages /\ \A k : CtxOf(k)' = CtxOf(k)
    BY <2>1, SameFences
  <2>3. \A c \in Context : is_instantiated'[c] => c \in has_graph
    <3>1. is_instantiated \in [Context -> BOOLEAN]
      BY DEF SenderInv, IInv, ContextTypeOK
    <3> QED
      BY <2>1, <3>1 DEF GraphsInv
  <2>4. \A k \in GraphStages : ~(k < 1)
    <3>1. Ops \subseteq 1 .. Len(sender.ops) /\ Len(sender.ops) \in Nat
      BY Shape DEF SenderInv, ControlOK
    <3> QED
      BY <3>1 DEF GraphStages, Stages
  <2> QED
    BY <2>1, <2>2, <2>3, <2>4 DEF GraphsInv
<1> QED
  BY <1>1, <1>2

\* An error never gets from a branch of a when_all to a fork.
LEMMA NoForkAround ==
  ASSUME sender \in Senders, Careful, MaxThrows # 0, NEW w \in WhenAlls
  PROVE  ({Parent(w)} \cup Above[Parent(w)]) \cap Forks = {}
<1>1. w \in Ops /\ Above[w] = {Parent(w)} \cup Above[Parent(w)]
  BY AboveFacts DEF WhenAlls
<1>2. \A f \in Forks : f \notin Above[w]
  BY DEF Careful, WhenAlls, Forks
<1> QED
  BY <1>1, <1>2

\* What each call leaves as it is.
LEMMA SignalFrame ==
  ASSUME sender \in Senders, HostTypeOK, NEW j \in Ops, Signal(j)
  PROVE  /\ phase = "run" /\ phase' = "run" /\ sender' = sender /\ result' = result
         /\ thrown \subseteq thrown' /\ \A k \in Ops : error[k] => error'[k]
         /\ \E sig, Made : Step(sig, j, Made)
<1>1. \E sig, Made : Step(sig, j, Made)
  BY Steps DEF Signal
<1>2. result' = result /\ thrown \subseteq thrown'
  BY DEF Signal, StartSource, StartThen, StartInner, StartWhenAll, ValueStage, ValueHostStage,
         ThrowHostStage, ValueContinuesOn, ValueChild, ErrorChild, Joined, Forked, MayThrow,
         ValueForkJoin, Forwarded, Nothing, outcomeVars
<1>3. error' = error \/ error' = [error EXCEPT ![j] = TRUE]
  BY DEF Signal, StartSource, StartThen, StartInner, StartWhenAll, ValueStage, ValueHostStage,
         ThrowHostStage, ValueContinuesOn, ValueChild, ErrorChild, Joined, Forked,
         ValueForkJoin, Forwarded
<1>4. \A k \in Ops : error[k] => error'[k]
  BY <1>3 DEF HostTypeOK
<1> QED
  BY <1>1, <1>2, <1>4 DEF Step

\* Which calls the operation states answer to.
LEMMA NotJoined ==
  ASSUME sender \in Senders, HostTypeOK, NEW j \in Ops, Signal(j)
  PROVE  /\ ~Joined(j) => \E sig \in {"start", "value", "error", "stopped"} : \E Made : Step(sig, j, Made)
         /\ ~(StartSource(j) \/ StartThen(j) \/ StartInner(j) \/ StartWhenAll(j)) =>
              \E sig \in {"joined", "value", "error", "stopped"} : \E Made : Step(sig, j, Made)
<1>1. CASE StartSource(j) \/ StartThen(j) \/ StartInner(j) \/ StartWhenAll(j)
  <2>1. \E Made : Step("start", j, Made)
    <3>1. error[j] \/ ~error[j]
      OBVIOUS
    <3> QED
      BY <1>1, <3>1, Steps
  <2> QED
    BY <1>1, <2>1
<1>2. CASE Forked(j) \/ Forwarded(j)
  <2>1. \E sig \in {"value", "error", "stopped"} : \E Made : Step(sig, j, Made)
    BY <1>2, Steps
  <2> QED
    BY <2>1
<1>3. CASE \/ ValueStage(j) \/ ValueHostStage(j) \/ ValueContinuesOn(j) \/ ValueForkJoin(j)
           \/ ThrowHostStage(j) \/ ValueChild(j)
  <2>1. \E Made : Step("value", j, Made)
    BY <1>3, Steps
  <2> QED
    BY <2>1
<1>4. CASE ErrorChild(j)
  <2>1. Step("error", j, {})
    BY <1>4, Steps
  <2> QED
    BY <2>1
<1>5. CASE Joined(j)
  <2>1. \E Made : Step("joined", j, Made)
    <3>1. error[j] \/ ~error[j]
      OBVIOUS
    <3> QED
      BY <1>5, <3>1, Steps
  <2> QED
    BY <1>5, <2>1
<1> QED
  BY <1>1, <1>2, <1>3, <1>4, <1>5 DEF Signal

\* The error of a branch stays on its way to the consumer.
LEMMA FailingStays ==
  ASSUME sender \in Senders, HostTypeOK, StackInv, Careful, thrown # {} => MaxThrows # 0,
         NEW j \in Ops, Signal(j), Failing
  PROVE  Failing'
<1>1. \A sig, k : Call(sig, k).sig = sig /\ Call(sig, k).op = k
  BY DEF Call
<1>2. Above[j] = {Parent(j)} \cup Above[Parent(j)]
  BY AboveFacts
<1>3. /\ phase = "run" /\ sender' = sender /\ result' = result /\ thrown \subseteq thrown'
      /\ \A k \in Ops : error[k] => error'[k]
  BY SignalFrame
<1>4. /\ Above' = Above /\ Forks' = Forks /\ \E i \in thrown' : InBranch(i)'
  BY <1>3, SameTree, SameFences DEF Failing
<1>5. MaxThrows # 0
  BY DEF Failing
<1>6. SUFFICES \/ result = "error"
               \/ \E c \in Pending' : c.sig = "error" /\ ({c.op} \cup Above[c.op]) \cap Forks = {}
               \/ \E c \in Pending' : c.sig = "joined" /\ error'[c.op]
  BY <1>3, <1>4, <1>6 DEF Failing
<1>7. ASSUME NEW sig, NEW Made, Step(sig, j, Made), Call("error", Parent(j)) \in Made, Above[j] \cap Forks = {}
      PROVE  \E c \in Pending' : c.sig = "error" /\ ({c.op} \cup Above[c.op]) \cap Forks = {}
  <2> DEFINE c == Call("error", Parent(j))
  <2>1. c \in Pending' /\ c.sig = "error" /\ c.op = Parent(j)
    BY <1>1, <1>7 DEF Step
  <2> HIDE DEF c
  <2> QED
    BY <1>2, <1>7, <2>1
<1>8. ASSUME NEW c \in Pending, c.sig = "error", ({c.op} \cup Above[c.op]) \cap Forks = {}, c \notin Pending'
      PROVE  \/ \E d \in Pending' : d.sig = "error" /\ ({d.op} \cup Above[d.op]) \cap Forks = {}
             \/ \E d \in Pending' : d.sig = "joined" /\ error'[d.op]
  <2>1. ASSUME NEW sig, NEW Made, Step(sig, j, Made)
        PROVE  sig = "error" /\ j = c.op
    BY <1>1, <1>8, <2>1 DEF Step
  <2>2. CASE Forwarded(j)
    <3>1. PICK sig \in {"error", "stopped"} : Step(sig, j, {Call(sig, Parent(j))})
      BY <2>2, Steps
    <3>2. sig = "error" /\ Above[j] \cap Forks = {}
      BY <1>8, <2>1, <3>1
    <3> QED
      BY <1>7, <3>1, <3>2
  <2>3. CASE Forked(j)
    <3>1. \E sig, Made : Step(sig, j, Made)
      BY SignalFrame
    <3> QED
      BY <1>8, <2>1, <2>3, <3>1 DEF Forked, Forks
  <2>4. CASE ErrorChild(j)
    <3>1. Step("error", j, {}) /\ j \in WhenAlls /\ error'[j]
      <4>1. Step("error", j, {})
        BY <2>4, Steps
      <4>2. Kind(j) = "when_all" /\ error' = [error EXCEPT ![j] = TRUE]
        BY <2>4 DEF ErrorChild
      <4> QED
        BY <4>1, <4>2 DEF WhenAlls, HostTypeOK
    <3>2. Call("error", j) \in Pending
      BY <3>1 DEF Step
    <3>3. Call("joined", j) \in Pending
      <4>1. j \in Over(Call("error", j))
        BY <1>1 DEF Over
      <4> QED
        BY <3>1, <3>2, <4>1 DEF StackInv, Pending
    <3>4. Call("joined", j) \in Pending'
      <4>1. Call("joined", j) # Call("error", j)
        BY <1>1
      <4> QED
        BY <3>1, <3>3, <4>1 DEF Step
    <3> QED
      BY <1>1, <3>1, <3>4
  <2>5. CASE StartSource(j) \/ StartThen(j) \/ StartInner(j) \/ StartWhenAll(j)
    <3>1. \E Made : Step("start", j, Made)
      BY <2>5, Steps
    <3> QED
      BY <2>1, <3>1
  <2>6. CASE \/ ValueStage(j) \/ ValueHostStage(j) \/ ValueContinuesOn(j) \/ ValueForkJoin(j)
             \/ ThrowHostStage(j) \/ ValueChild(j)
    <3>1. \E Made : Step("value", j, Made)
      BY <2>6, Steps
    <3> QED
      BY <2>1, <3>1
  <2>7. CASE Joined(j)
    <3>1. \E Made : Step("joined", j, Made)
      <4>1. error[j] \/ ~error[j]
        OBVIOUS
      <4> QED
        BY <2>7, <4>1, Steps
    <3> QED
      BY <2>1, <3>1
  <2> QED
    BY <2>2, <2>3, <2>4, <2>5, <2>6, <2>7 DEF Signal
<1>9. ASSUME NEW c \in Pending, c.sig = "joined", error[c.op]
      PROVE  \/ \E d \in Pending' : d.sig = "error" /\ ({d.op} \cup Above[d.op]) \cap Forks = {}
             \/ \E d \in Pending' : d.sig = "joined" /\ error'[d.op]
  <2>1. c.op \in WhenAlls /\ c.op \in Ops
    BY <1>9 DEF StackInv, Pending, WhenAlls
  <2>2. CASE c \in Pending'
    BY <1>3, <1>9, <2>1, <2>2
  <2>3. CASE c \notin Pending'
    <3>1. ASSUME NEW sig, NEW Made, Step(sig, j, Made)
          PROVE  sig = "joined" /\ j = c.op
      BY <1>1, <1>9, <2>3, <3>1 DEF Step
    <3>2. CASE Joined(j)
      <4>1. error[j] => Step("joined", j, {Call("error", Parent(j))})
        BY <3>2, Steps
      <4>2. ~error[j] => Step("joined", j, {Call("value", Parent(j))})
        BY <3>2, Steps
      <4>3. error[j] /\ j \in WhenAlls
        BY <1>9, <2>1, <3>1, <4>1, <4>2
      <4>4. Above[j] \cap Forks = {}
        BY <1>2, <1>5, <4>3, NoForkAround
      <4> QED
        BY <1>7, <4>1, <4>3, <4>4
    <3>3. CASE ~Joined(j)
      <4>1. \E sig \in {"start", "value", "error", "stopped"} : \E Made : Step(sig, j, Made)
        BY <3>3, NotJoined
      <4> QED
        BY <3>1, <4>1
    <3> QED
      BY <3>2, <3>3
  <2> QED
    BY <2>2, <2>3
<1> QED
  BY <1>8, <1>9 DEF Failing

\* Where stages may throw at all, MaxThrows says so.
LEMMA ThrowsAllowed ==
  ASSUME sender \in Senders, HostTypeOK, NEW i, MayThrow(i)
  PROVE  MaxThrows # 0
<1>1. Len(sender.ops) \in Nat /\ Ops = 1 .. Len(sender.ops)
  BY Shape
<1>2. IsFiniteSet(Ops)
  BY <1>1, FS_Interval
<1>3. Cardinality(thrown) \in Nat
  BY <1>2, FS_Subset, FS_CardinalityType DEF HostTypeOK
<1> QED
  BY <1>3 DEF MayThrow

\* As long as the marks stay on the stream, a call carries what it carried.
LEMMA CarriesOn ==
  ASSUME sender' = sender, NEW k \in GraphStages, NEW d \in Context, d = CtxOf(k),
         \A b \in Context : ExecOf[b] = ExecOf[d] /\ is_submitted[b] => is_submitted'[b]
  PROVE  /\ \A p : Marked(k, p) => Marked(k, p)'
         /\ \A c : Carries(c, k) => Carries(c, k)'
<1>1. /\ GraphStages' = GraphStages /\ (\A i : CtxOf(i)' = CtxOf(i))
      /\ \A i, p : Reaches(i, p)' <=> Reaches(i, p)
  BY SameFences
<1>2. Above' = Above /\ Forks' = Forks /\ \A i : Join(i)' = Join(i)
  BY SameTree
<1>3. \A t \in GraphStages : CtxOf(t) \in Context
  BY DEF GraphStages, OnGraph
<1>4. ASSUME NEW p, Marked(k, p)
      PROVE  Marked(k, p)'
  <2>1. ASSUME NEW t \in GraphStages, t \in Above[k], p \in Above[t], ExecOf[CtxOf(t)] = ExecOf[d]
        PROVE  is_submitted'[CtxOf(t)]
    BY <1>3, <1>4, <2>1 DEF Marked
  <2> QED
    BY <1>1, <1>2, <2>1 DEF Marked
<1> QED
  BY <1>1, <1>2, <1>4 DEF Carries

\* A value that does not meet a fence is carried on by the next one.
LEMMA CarriedOut ==
  ASSUME sender \in Senders, sender' = sender, NEW k \in GraphStages, NEW d \in Context, d = CtxOf(k),
         \A b \in Context : ExecOf[b] = ExecOf[d] /\ is_submitted[b] => is_submitted'[b],
         NEW j \in Ops, Reaches(k, j), Marked(k, j), ~Catches(j, k),
         j \in GraphStages /\ ExecOf[CtxOf(j)] = ExecOf[d] => is_submitted'[CtxOf(j)],
         Call("value", Parent(j)) \in Pending'
  PROVE  \E c \in Pending' : Carries(c, k)'
<1>1. k \in Ops
  BY DEF GraphStages, Stages
<1>2. /\ Reaches(k, Parent(j))
      /\ \A t \in Above[k] : Parent(j) \in Above[t] => t = j \/ j \in Above[t]
  BY <1>1, Outwards
<1>3. /\ GraphStages' = GraphStages /\ (\A i : CtxOf(i)' = CtxOf(i)) /\ Above' = Above
      /\ \A i, p : Reaches(i, p)' <=> Reaches(i, p)
  BY SameFences, SameTree
<1> DEFINE q == Parent(j)
           c == Call("value", q)
<1>4. \A t \in GraphStages : t \in Above[k] /\ q \in Above[t] /\ ExecOf[CtxOf(t)] = ExecOf[d] =>
        is_submitted'[CtxOf(t)]
  <2> SUFFICES ASSUME NEW t \in GraphStages, t \in Above[k], q \in Above[t], ExecOf[CtxOf(t)] = ExecOf[d]
               PROVE  is_submitted'[CtxOf(t)]
    OBVIOUS
  <2>1. CASE t = j
    BY <2>1
  <2>2. CASE j \in Above[t]
    <3>1. CtxOf(t) \in Context /\ is_submitted[CtxOf(t)]
      BY <2>2 DEF Marked, GraphStages, OnGraph
    <3> QED
      BY <3>1
  <2> QED
    BY <1>2, <2>1, <2>2
<1>5. c.sig = "value" /\ c.op = q /\ c \in Pending' /\ Reaches(k, q)
  BY <1>2 DEF Call
<1> HIDE DEF q, c
<1>6. ASSUME NEW x, x = q
      PROVE  Marked(k, x)'
  BY <1>3, <1>4, <1>6 DEF Marked
<1>7. ASSUME NEW x, x = c
      PROVE  Carries(x, k)'
  BY <1>3, <1>5, <1>6, <1>7 DEF Carries
<1> QED
  BY <1>5, <1>7

\* What a call does to a launch: only a stage submits, and marks go with the launches
\* of their stream.
LEMMA SignalLaunches ==
  ASSUME sender \in Senders, IInv, GraphsInv, NEW j \in Ops, Signal(j), NEW d \in Context, Flying(d)'
  PROVE  /\ \A b \in Context : ExecOf[b] = ExecOf[d] /\ is_submitted[b] => is_submitted'[b]
         /\ Flying(d) \/ (ValueStage(j) /\ d = CtxOf(j) /\ j \in GraphStages)
         /\ ValueStage(j) => is_submitted'[CtxOf(j)] /\ j \in GraphStages
<1>1. CASE ValueStage(j)
  <2>1. j \in GraphStages /\ Submit(CtxOf(j)) /\ phase = "run"
    BY <1>1 DEF ValueStage, GraphStages, Stages, Calls
  <2>2. CtxOf(j) \in has_graph
    BY <2>1 DEF GraphsInv
  <2> QED
    BY <1>1, <2>1, <2>2, SubmitFlying
<1>2. CASE ~ValueStage(j)
  <2>1. UNCHANGED contextVars \/ \E c : Wait(c)
    BY <1>2 DEF Signal, StartSource, StartThen, StartInner, StartWhenAll, ValueHostStage,
         ThrowHostStage, ValueContinuesOn, ValueChild, ErrorChild, Joined, Forked,
         ValueForkJoin, Forwarded, Nothing
  <2>2. CASE UNCHANGED contextVars
    BY <1>2, <2>2 DEF contextVars, Flying
  <2>3. CASE \E c : Wait(c)
    BY <1>2, <2>3, WaitFlying
  <2> QED
    BY <2>1, <2>2, <2>3
<1> QED
  BY <1>1, <1>2

\* The call that covers a launch hands that over when it is made.
LEMMA SignalCarries ==
  ASSUME sender \in Senders, HostTypeOK, IInv, StackInv, ErrInv, GraphsInv, Careful, ~Failing',
         thrown # {} => MaxThrows # 0,
         NEW j \in Ops, Signal(j), NEW d \in Context, Flying(d), Flying(d)',
         NEW k \in GraphStages, d = CtxOf(k), NEW c \in Pending, Carries(c, k)
  PROVE  \E b \in Pending' : Carries(b, k)'
<1>1. \A sig, i : Call(sig, i).sig = sig /\ Call(sig, i).op = i
  BY DEF Call
<1>2. /\ phase = "run" /\ phase' = "run" /\ sender' = sender /\ result' = result
      /\ thrown \subseteq thrown' /\ \A i \in Ops : error[i] => error'[i]
      /\ \E sig, Made : Step(sig, j, Made)
  BY SignalFrame
<1>3. /\ \A b \in Context : ExecOf[b] = ExecOf[d] /\ is_submitted[b] => is_submitted'[b]
      /\ ValueStage(j) => is_submitted'[CtxOf(j)] /\ j \in GraphStages
  BY SignalLaunches
<1>4. /\ \A p : Marked(k, p) => Marked(k, p)'
      /\ \A b : Carries(b, k) => Carries(b, k)'
  BY <1>2, <1>3, CarriesOn
<1>5. k \in Ops /\ k \in Stages /\ OnGraph(k)
  BY DEF GraphStages, Stages
<1>6. CASE c \in Pending'
  BY <1>4, <1>6
<1>7. ASSUME c \notin Pending'
      PROVE  \E b \in Pending' : Carries(b, k)'
  <2>1. ASSUME NEW sig, NEW Made, Step(sig, j, Made)
        PROVE  sig = c.sig /\ j = c.op /\ Made \subseteq Pending'
    BY <1>1, <1>7, <2>1 DEF Step
\* j is called with a value, or goes on after its children.
  <2>2. ASSUME Reaches(k, j), Marked(k, j), Call("value", Parent(j)) \in Pending',
               j \in GraphStages => ValueStage(j),
               \A b \in Context : WaitsOn(j, b) => Wait(b)
        PROVE  \E b \in Pending' : Carries(b, k)'
    <3>1. ~Catches(j, k)
      BY <2>2, FenceReached
    <3> QED
      BY <1>2, <1>3, <2>2, <3>1, CarriedOut
  <2>3. CASE c.sig = "value"
    <3>1. Reaches(k, j) /\ Marked(k, j) /\ Call("value", j) \in Pending
      BY <1>2, <2>1, <2>3 DEF Carries, Step
    <3>2. CASE ValueStage(j) \/ ValueHostStage(j) \/ ValueForkJoin(j)
      <4>1. Call("value", Parent(j)) \in Pending'
        BY <3>2, <2>1, Steps
      <4>2. /\ j \in GraphStages => ValueStage(j)
            /\ \A b \in Context : ~WaitsOn(j, b)
        BY <3>2, Tree DEF ValueStage, ValueHostStage, ValueForkJoin, GraphStages, Stages, WaitsOn
      <4> QED
        BY <2>2, <3>1, <4>1, <4>2
    <3>3. CASE ValueContinuesOn(j)
      <4>1. Call("value", Parent(j)) \in Pending'
        BY <3>3, <2>1, Steps
      <4>2. j \notin GraphStages
        BY <3>3 DEF ValueContinuesOn, GraphStages, Stages
      <4>3. ASSUME NEW b \in Context, WaitsOn(j, b)
            PROVE  Wait(b)
        <5>1. b = CtxOf(Child(j)[1]) /\ OnGraph(Child(j)[1]) /\ ~SkipScheduleFrom(j)
          BY <3>3, <4>3, Tree DEF WaitsOn, OnGraph, ValueContinuesOn
        <5> QED
          BY <3>3, <5>1 DEF ValueContinuesOn
      <4> QED
        BY <2>2, <3>1, <4>1, <4>2, <4>3
    <3>4. CASE ThrowHostStage(j)
      <4>1. MaxThrows # 0 /\ j \in Stages /\ ~OnGraph(j) /\ j \in Above[k]
        BY <3>1, <3>4, ThrowsAllowed DEF ThrowHostStage, Stages, Reaches
      <4>2. \E q \in Above[k] : j \in Above[q] /\ Catches(q, k)
        BY <1>5, <4>1 DEF Careful
      <4> QED
        BY <3>1, <4>2 DEF Reaches
    <3>5. CASE ValueChild(j)
      <4>1. j \in WhenAlls
        BY <3>5 DEF ValueChild, WhenAlls
      <4>2. Call("joined", j) \in Pending
        <5>1. j \in Over(Call("value", j))
          BY <1>1 DEF Over
        <5> QED
          BY <3>1, <4>1, <5>1 DEF StackInv, Pending
      <4>3. Call("joined", j) \in Pending'
        <5>1. Call("joined", j) # Call("value", j) /\ Step("value", j, {})
          <6>1. Call("joined", j).sig = "joined" /\ Call("value", j).sig = "value"
            BY <1>1
          <6>2. Step("value", j, {})
            BY <3>5, Steps
          <6> QED
            BY <6>1, <6>2
        <5> QED
          BY <4>2, <5>1 DEF Step
      <4>4. Carries(Call("joined", j), k)
        BY <1>1, <3>1 DEF Carries
      <4> QED
        BY <1>4, <4>3, <4>4
    <3>6. CASE Forked(j)
      <4>1. Call("start", Join(j)) \in Pending' /\ j \in Forks
        BY <2>1, <3>6, Steps DEF Join, Forked, Forks
      <4>2. Carries(Call("start", Join(j)), k)
        BY <1>1, <3>1, <4>1 DEF Carries
      <4> QED
        BY <1>4, <4>1, <4>2
    <3>7. CASE StartSource(j) \/ StartThen(j) \/ StartInner(j) \/ StartWhenAll(j)
      <4>1. \E Made : Step("start", j, Made)
        BY <3>7, Steps
      <4> QED
        BY <2>1, <2>3, <4>1
    <3>8. CASE ErrorChild(j)
      <4>1. Step("error", j, {})
        BY <3>8, Steps
      <4> QED
        BY <2>1, <2>3, <4>1
    <3>9. CASE Joined(j)
      <4>1. \E Made : Step("joined", j, Made)
        <5>1. error[j] \/ ~error[j]
          OBVIOUS
        <5> QED
          BY <3>9, <5>1, Steps
      <4> QED
        BY <2>1, <2>3, <4>1
    <3>10. CASE Forwarded(j)
      <4>1. \E sig \in {"error", "stopped"} : \E Made : Step(sig, j, Made)
        BY <3>10, Steps
      <4> QED
        BY <2>1, <2>3, <4>1
    <3> QED
      BY <3>2, <3>3, <3>4, <3>5, <3>6, <3>7, <3>8, <3>9, <3>10 DEF Signal
  <2>4. CASE c.sig = "joined"
    <3>1. j \in WhenAlls /\ Kind(j) = "when_all"
      BY <1>2, <2>1, <2>4 DEF StackInv, Pending, WhenAlls
    <3>2. Joined(j)
      <4>1. ~Joined(j) => \E sig \in {"start", "value", "error", "stopped"} : \E Made : Step(sig, j, Made)
        BY NotJoined
      <4> QED
        BY <2>1, <2>4, <4>1
    <3>3. CASE error[j]
      <4>1. /\ Step("joined", j, {Call("error", Parent(j))})
            /\ Call("error", Parent(j)) \in Pending'
        BY <2>1, <3>2, <3>3, Steps
      <4>2. PICK x \in thrown : j \in Above[x]
        BY <3>1, <3>3 DEF ErrInv, Stages
      <4>3. InBranch(x) /\ x \in thrown'
        BY <1>2, <3>1, <4>2, InBefore DEF InBranch, ErrInv, Stages
      <4>4. ({Parent(j)} \cup Above[Parent(j)]) \cap Forks = {}
        BY <3>1, <4>2, NoForkAround
      <4>5. Above' = Above /\ Forks' = Forks /\ InBranch(x)'
        BY <1>2, <4>3, SameTree, SameFences
      <4> DEFINE b == Call("error", Parent(j))
      <4>6. b \in Pending' /\ b.sig = "error" /\ b.op = Parent(j)
        BY <1>1, <4>1
      <4> HIDE DEF b
      <4>7. Failing'
        BY <4>3, <4>4, <4>5, <4>6 DEF Failing
      <4> QED
        BY <4>7
    <3>4. CASE ~error[j]
      <4>1. Call("value", Parent(j)) \in Pending'
        BY <2>1, <3>2, <3>4, Steps
      <4>2. CASE Reaches(k, j) /\ Marked(k, j)
        <5>1. ASSUME NEW b \in Context, WaitsOn(j, b)
              PROVE  Wait(b)
          <6>1. b = CtxOf(Child(j)[1]) /\ ~SkipWhenAll(j)
            BY <3>1, <5>1, Tree DEF WaitsOn
          <6> QED
            BY <3>2, <6>1 DEF Joined
        <5>2. j \notin GraphStages
          BY <3>1 DEF GraphStages, Stages
        <5> QED
          BY <2>2, <4>1, <4>2, <5>1, <5>2
      <4>3. CASE \E f \in Forks : j = Join(f) /\ Reaches(k, f) /\ Marked(k, f)
        <5>1. PICK f \in Forks : j = Join(f) /\ Reaches(k, f) /\ Marked(k, f)
          BY <4>3
        <5>2. /\ f \in Ops /\ Parent(f) = Parent(j) /\ f \notin GraphStages
              /\ ~Catches(f, k)
          <6>1. f \in Ops /\ Kind(f) = "fork" /\ Parent(Join(f)) = Parent(f) /\ f # Final
            BY JoinFacts, Tree
          <6> QED
            BY <5>1, <6>1 DEF GraphStages, Stages, Catches, WaitsOn
        <5> QED
          BY <1>2, <1>3, <4>1, <5>1, <5>2, CarriedOut
      <4> QED
        BY <2>1, <2>4, <4>2, <4>3, <1>2 DEF Carries
    <3> QED
      BY <3>3, <3>4
  <2>5. CASE c.sig = "start"
    <3>1. PICK f \in Forks : j = Join(f) /\ Reaches(k, f) /\ Marked(k, f)
      BY <1>2, <2>1, <2>5 DEF Carries
    <3>2. j \in WhenAlls
      BY <3>1, JoinFacts
    <3>3. StartWhenAll(j)
      <4>1. ~(StartSource(j) \/ StartThen(j) \/ StartInner(j))
        BY <3>2 DEF StartSource, StartThen, StartInner, WhenAlls, Sources
      <4>2. ASSUME ~StartWhenAll(j)
            PROVE  \E sig \in {"joined", "value", "error", "stopped"} : \E Made : Step(sig, j, Made)
        BY <4>1, <4>2, NotJoined
      <4> QED
        BY <2>1, <2>5, <4>2
    <3>4. Call("joined", j) \in Pending'
      <4> DEFINE Made == {Call("start", b) : b \in Range(Child(j))} \cup {Call("joined", j)}
      <4>1. Step("start", j, Made) /\ Call("joined", j) \in Made
        BY <3>3, Steps
      <4> HIDE DEF Made
      <4> QED
        BY <2>1, <4>1
    <3>5. Carries(Call("joined", j), k)
      BY <1>1, <3>1 DEF Carries
    <3> QED
      BY <1>4, <3>4, <3>5
  <2> QED
    BY <2>3, <2>4, <2>5 DEF Carries
<1> QED
  BY <1>6, <1>7

\* A stage that submits its graph has the next call carry it on.
LEMMA LaunchCarried ==
  ASSUME sender \in Senders, sender' = sender, NEW j \in GraphStages, Call("value", Parent(j)) \in Pending'
  PROVE  \E b \in Pending' : Carries(b, j)'
<1>1. j \in Ops
  BY DEF GraphStages, Stages
<1>2. Reaches(j, Parent(j)) /\ \A t \in Above[j] : Parent(j) \notin Above[t]
  BY <1>1, Outwards
<1>3. Above' = Above /\ \A i, p : Reaches(i, p)' <=> Reaches(i, p)
  BY SameTree, SameFences
<1> DEFINE q == Parent(j)
           c == Call("value", q)
<1>4. c \in Pending' /\ c.sig = "value" /\ c.op = q /\ Reaches(j, q)
  BY <1>2 DEF Call
<1>5. \A t \in Above[j] : q \notin Above[t]
  BY <1>2
<1> HIDE DEF q, c
<1>6. ASSUME NEW x, x = q
      PROVE  Marked(j, x)'
  BY <1>3, <1>5, <1>6 DEF Marked
<1>7. ASSUME NEW x, x = c
      PROVE  Carries(x, j)'
  BY <1>3, <1>4, <1>6, <1>7 DEF Carries
<1> QED
  BY <1>4, <1>7

\* Each call keeps what is on the device covered.
LEMMA SignalCover ==
  ASSUME sender \in Senders, IInv, HostTypeOK, StackInv, ErrInv, GraphsInv, CoverInv, NEW j \in Ops, Signal(j)
  PROVE  CoverInv'
<1>1. /\ phase = "run" /\ phase' = "run" /\ sender' = sender
  BY SignalFrame
<1>2. Careful' <=> Careful
  BY <1>1, SameFences
<1>3. SUFFICES ASSUME Careful
               PROVE  /\ thrown' # {} => MaxThrows # 0
                      /\ Failing' \/ \A d \in Context : Flying(d)' => Covered(d)'
  BY <1>1, <1>2, <1>3 DEF CoverInv
<1>4. /\ thrown # {} => MaxThrows # 0
      /\ Failing \/ \A d \in Context : Flying(d) => Covered(d)
  BY <1>1, <1>3 DEF CoverInv
<1>5. thrown' # {} => MaxThrows # 0
  <2>1. MayThrow(j) \/ thrown' = thrown
    BY DEF Signal, StartSource, StartThen, StartInner, StartWhenAll, ValueStage, ValueHostStage,
         ThrowHostStage, ValueContinuesOn, ValueChild, ErrorChild, Joined, Forked,
         ValueForkJoin, Forwarded, Nothing, outcomeVars
  <2> QED
    BY <1>4, <2>1, ThrowsAllowed
<1>6. CASE Failing
  BY <1>3, <1>4, <1>5, <1>6, FailingStays
<1>7. ASSUME ~Failing, ~Failing', NEW d \in Context, Flying(d)'
      PROVE  Covered(d)'
  <2>1. ASSUME NEW k \in GraphStages, CtxOf(k) = d, \E b \in Pending' : Carries(b, k)'
        PROVE  Covered(d)'
    <3>1. k \in GraphStages' /\ CtxOf(k)' = d
      BY <1>1, <2>1, SameFences
    <3> QED
      BY <2>1, <3>1 DEF Covered
  <2>2. CASE Flying(d)
    <3>1. PICK k \in GraphStages : CtxOf(k) = d /\ \E c \in Pending : Carries(c, k)
      BY <1>4, <1>7, <2>2 DEF Covered
    <3>2. PICK c \in Pending : Carries(c, k)
      BY <3>1
    <3>3. \E b \in Pending' : Carries(b, k)'
      BY <1>3, <1>4, <1>7, <2>2, <3>1, <3>2, SignalCarries
    <3> QED
      BY <2>1, <3>1, <3>3
  <2>3. CASE ValueStage(j) /\ d = CtxOf(j) /\ j \in GraphStages
    <3>1. Step("value", j, {Call("value", Parent(j))})
      BY <2>3, Steps
    <3>2. Call("value", Parent(j)) \in Pending'
      BY <3>1 DEF Step
    <3>3. \E b \in Pending' : Carries(b, j)'
      BY <1>1, <2>3, <3>2, LaunchCarried
    <3> QED
      BY <2>1, <2>3, <3>3
  <2> QED
    BY <1>7, <2>2, <2>3, SignalLaunches
<1> QED
  BY <1>5, <1>6, <1>7

\* A launch that was covered still is if the call that covers it stays pending.
LEMMA StaysCovered ==
  ASSUME sender' = sender, NEW d \in Context,
         \A b \in Context : ExecOf[b] = ExecOf[d] /\ is_submitted[b] => is_submitted'[b],
         NEW k \in GraphStages, CtxOf(k) = d, NEW c \in Pending', Carries(c, k)
  PROVE  Covered(d)'
<1>1. Carries(c, k)'
  BY CarriesOn
<1>2. k \in GraphStages' /\ CtxOf(k)' = d
  BY SameFences
<1> QED
  BY <1>1, <1>2 DEF Covered

\* Construction launches nothing.
LEMMA ConnectCover ==
  ASSUME SenderInv, HostTypeOK, GraphsInv, CoverInv, Connect
  PROVE  CoverInv'
<1> PICK i \in Ops : \/ ConnectPlain(i) \/ ConnectThen(i) \/ ConnectThenThrows(i)
                     \/ ConnectThenWithoutNode(i) \/ ConnectContinuesOn(i) \/ ConnectFork(i)
                     \/ ConnectWhenAll(i) \/ ConnectForkJoin(i) \/ ConnectAborts(i)
  BY DEF Connect
<1>1. sender \in Senders
  BY DEF SenderInv, ControlOK
<1>2. phase = "connect" /\ sender' = sender /\ phase' # "threw"
  BY DEF ConnectPlain, ConnectThen, ConnectThenThrows, ConnectThenWithoutNode, ConnectContinuesOn,
         ConnectFork, ConnectWhenAll, ConnectForkJoin, ConnectAborts, Connecting
<1>3. thrown' = thrown \/ MayThrow(i)
  BY DEF ConnectPlain, ConnectThen, ConnectThenThrows, ConnectThenWithoutNode, ConnectContinuesOn,
         ConnectFork, ConnectWhenAll, ConnectForkJoin, ConnectAborts, outcomeVars
<1>4. \A c \in Context : Flying(c)' <=> Flying(c)
  BY ConnectGraphs DEF Flying
<1>5. SUFFICES ASSUME Careful
               PROVE  /\ thrown' # {} => MaxThrows # 0
                      /\ \A c \in Context : ~Flying(c)'
  BY <1>2, <1>5, SameFences DEF CoverInv
<1>6. /\ thrown # {} => MaxThrows # 0
      /\ \A c \in Context : ~Flying(c)
  BY <1>2, <1>5 DEF CoverInv
<1> QED
  BY <1>1, <1>3, <1>4, <1>6, ThrowsAllowed

\* A launch that nobody has fenced on the way to the consumer is fenced by it.
LEMMA ConsumerCatches ==
  ASSUME sender \in Senders, Careful, NEW k \in GraphStages, Reaches(k, Final)
  PROVE  Catches(Final, k) /\ OnGraph(Outermost)
<1>1. k \in Ops /\ k \in Stages /\ OnGraph(k)
  BY DEF GraphStages, Stages
<1>2. PICK q \in Above[k] : Catches(q, k)
  BY <1>1 DEF Careful
<1>3. q = Final
  <2>1. q \in Ops \cup {Final}
    BY <1>1, <1>2, AboveFacts, Tree
  <2>2. q \in Ops => Final \in Above[q]
    BY AboveFacts
  <2> QED
    BY <1>2, <2>1, <2>2 DEF Reaches
<1>4. Final \notin Ops
  BY <1>1, Tree
<1> QED
  BY <1>2, <1>3, <1>4 DEF Catches, WaitsOn, OnGraph

\* The call to the consumer covers nothing any more when it was made.
LEMMA ConsumerCover ==
  ASSUME SenderInv, HostTypeOK, CoverInv, Careful, phase = "run",
         NEW sig \in {"value", "error", "stopped"}, Step(sig, Final, {}),
         thrown' = thrown, error' = error, result' = IF result = "error" THEN result ELSE sig,
         UNCHANGED contextVars \/ \E c : Wait(c),
         sig = "value" => \A c \in Context : WaitsOn(Final, c) => Wait(c)
  PROVE  Failing' \/ \A d \in Context : Flying(d)' => Covered(d)'
<1>1. Call(sig, Final).sig = sig /\ Call(sig, Final).op = Final
  BY DEF Call
<1>2. /\ sender \in Senders /\ sender' = sender /\ IInv
      /\ \A c \in Pending : c = Call(sig, Final) \/ c \in Pending'
  BY DEF Step, SenderInv, ControlOK
<1>3. /\ Above' = Above /\ Forks' = Forks /\ \A i : InBranch(i)' <=> InBranch(i)
  BY <1>2, SameTree, SameFences
<1>4. ({Final} \cup Above[Final]) \cap Forks = {}
  <2>1. Outermost \in Ops
    BY <1>2, Shape DEF Outermost
  <2>2. Above[Final] = {} /\ Final \notin Ops
    BY <1>2, <2>1, AboveFacts, Tree
  <2> QED
    BY <2>2 DEF Forks
<1>5. CASE Failing
  <2>1. \E i \in thrown' : InBranch(i)'
    BY <1>3, <1>5 DEF Failing
  <2>2. CASE result = "error" \/ sig = "error"
    BY <2>1, <2>2 DEF Failing
  <2>3. ASSUME sig # "error", NEW c \in Pending, c.sig = "error", ({c.op} \cup Above[c.op]) \cap Forks = {}
        PROVE  Failing'
    BY <1>1, <1>2, <1>3, <2>1, <2>3 DEF Failing
  <2>4. ASSUME NEW c \in Pending, c.sig = "joined", error[c.op]
        PROVE  Failing'
    BY <1>1, <1>2, <2>1, <2>4 DEF Failing
  <2> QED
    BY <1>5, <2>2, <2>3, <2>4 DEF Failing
<1>6. ASSUME ~Failing, NEW d \in Context, Flying(d)'
      PROVE  Covered(d)'
  <2>1. /\ Flying(d)
        /\ \A b \in Context : ExecOf[b] = ExecOf[d] /\ is_submitted[b] => is_submitted'[b]
    <3>1. CASE UNCHANGED contextVars
      BY <1>6, <3>1 DEF contextVars, flagVars, Flying
    <3>2. CASE \E c : Wait(c)
      BY <1>2, <1>6, <3>2, WaitFlying
    <3> QED
      BY <3>1, <3>2
  <2>2. PICK k \in GraphStages : CtxOf(k) = d /\ \E c \in Pending : Carries(c, k)
    BY <1>6, <2>1 DEF CoverInv, Covered
  <2>3. PICK c \in Pending : Carries(c, k)
    BY <2>2
  <2>4. CASE c \in Pending'
    BY <1>2, <2>1, <2>2, <2>3, <2>4, StaysCovered
  <2>5. CASE c = Call(sig, Final)
    <3>1. c.sig = sig /\ c.op = Final
      BY <1>1, <2>5
    <3>2. sig = "value" /\ Reaches(k, Final) /\ Marked(k, Final)
      BY <2>3, <3>1 DEF Carries
    <3>3. Catches(Final, k)
      BY <1>2, <3>2, ConsumerCatches
    <3>4. ~Flying(d)'
      BY <1>2, <2>1, <2>2, <3>2, <3>3, FenceReached
    <3> QED
      BY <1>6, <3>4
  <2> QED
    BY <1>2, <2>4, <2>5
<1> QED
  BY <1>5, <1>6

\* Nothing is left for the next round, nor when sync_wait has ended.
LEMMA CompletionCover ==
  ASSUME SenderInv, HostTypeOK, ReportInv, CoverInv,
         Complete \/ CompleteWithError \/ CompleteStopped \/ Repeat \/ Return
  PROVE  CoverInv'
<1>1. sender \in Senders /\ sender' = sender /\ IInv /\ phase = "run" /\ thrown' = thrown
  BY DEF SenderInv, ControlOK, Complete, CompleteWithError, CompleteStopped, Repeat, Return, Calls,
         Nothing, outcomeVars
<1>2. SUFFICES ASSUME Careful
               PROVE  CoverInv'
  BY <1>1, SameFences DEF CoverInv
<1>3. /\ thrown # {} => MaxThrows # 0
      /\ Failing \/ \A d \in Context : Flying(d) => Covered(d)
  BY <1>1, <1>2 DEF CoverInv
<1>4. \A i : InBranch(i)' <=> InBranch(i)
  BY <1>1, SameFences
<1>5. CASE Complete \/ CompleteWithError \/ CompleteStopped
  <2>1. PICK sig \in {"value", "error", "stopped"} :
          /\ Calls(sig, Final, <<>>) /\ Receives(sig) /\ error' = error
          /\ UNCHANGED contextVars \/ \E c : Wait(c)
          /\ sig = "value" => Complete
    BY <1>5 DEF Complete, CompleteWithError, CompleteStopped
  <2>2. Step(sig, Final, {}) /\ phase' = "run"
    BY <2>1, StepNone DEF Calls
  <2>3. ASSUME sig = "value", NEW c \in Context, WaitsOn(Final, c)
        PROVE  Wait(c)
    <3>1. Outermost \in Ops
      BY <1>1, Shape DEF Outermost
    <3>2. Final \notin Ops
      BY <1>1, <3>1, Tree
    <3>3. CtxOf(Outermost) = c /\ OnGraph(Outermost)
      BY <2>3, <3>2 DEF WaitsOn, OnGraph
    <3> QED
      BY <2>1, <2>3, <3>3 DEF Complete
  <2>4. Failing' \/ \A d \in Context : Flying(d)' => Covered(d)'
    BY <1>1, <1>2, <2>1, <2>2, <2>3, ConsumerCover DEF Receives
  <2> QED
    BY <1>1, <1>3, <2>2, <2>4 DEF CoverInv
<1>6. CASE Repeat
  <2>1. /\ calls = <<Call("value", Final)>> /\ completions = 0 /\ iter < sender.rounds
        /\ phase' = "connect" /\ UNCHANGED contextVars
    BY <1>6 DEF Repeat, Nothing
  <2>2. Pending = {Call("value", Final)} /\ Call("value", Final).sig = "value"
        /\ Call("value", Final).op = Final
    BY <2>1 DEF Pending, Call
  <2>3. ~Failing
    BY <2>1, <2>2 DEF Failing, ReportInv
  <2>4. ~OnGraph(Outermost)
    <3>1. sender.rounds \in Nat /\ (sender.rounds > 1 => CtxOf(Outermost) \notin Context)
      BY <1>1, SenderAssumption DEF CtxOf, Outermost
    <3>2. iter \in 1 .. sender.rounds
      BY DEF SenderInv, ControlOK
    <3> QED
      BY <2>1, <3>1, <3>2 DEF OnGraph
  <2>5. ASSUME NEW d \in Context
        PROVE  ~Flying(d)
    <3> SUFFICES ASSUME Flying(d)
                 PROVE  FALSE
      OBVIOUS
    <3>1. PICK k \in GraphStages : \E c \in Pending : Carries(c, k)
      BY <1>3, <2>3 DEF Covered
    <3>2. Reaches(k, Final)
      BY <2>2, <3>1 DEF Carries
    <3> QED
      BY <1>1, <1>2, <2>4, <3>2, ConsumerCatches
  <2>6. \A d \in Context : Flying(d)' <=> Flying(d)
    BY <2>1 DEF contextVars, flagVars, Flying
  <2> QED
    BY <1>1, <1>3, <2>1, <2>5, <2>6 DEF CoverInv
<1>7. CASE Return
  <2>1. /\ calls = <<>> /\ UNCHANGED contextVars
        /\ phase' = "threw" \/ (result # "error" /\ phase' \in {"returned", "stopped"})
    BY <1>7, ReturnOutcome DEF Return, Nothing
  <2>2. Pending = {}
    BY <2>1 DEF Pending
  <2>3. \A d \in Context : Flying(d)' <=> Flying(d)
    BY <2>1 DEF contextVars, flagVars, Flying
  <2>4. CASE Failing
    <3>1. phase' = "threw" /\ \E i \in thrown' : InBranch(i)'
      BY <1>1, <1>4, <2>1, <2>2, <2>4 DEF Failing
    <3> QED
      BY <1>1, <1>3, <3>1 DEF CoverInv
  <2>5. CASE ~Failing
    <3>1. ASSUME NEW d \in Context, Flying(d)
          PROVE  FALSE
      <4>1. \E c \in Pending : TRUE
        BY <1>3, <2>5, <3>1 DEF Covered
      <4> QED
        BY <2>2, <4>1
    <3>2. phase' \in {"threw", "returned", "stopped"}
      BY <2>1
    <3> QED
      BY <1>1, <1>3, <2>3, <3>1, <3>2 DEF CoverInv
  <2> QED
    BY <2>4, <2>5
<1> QED
  BY <1>5, <1>6, <1>7

\* Every step keeps the device covered.
LEMMA NextCover ==
  SenderInv /\ HostTypeOK /\ StackInv /\ ErrInv /\ ReportInv /\ GraphsInv /\ CoverInv /\ [Next]_vars
    => CoverInv'
<1> SUFFICES ASSUME SenderInv, HostTypeOK, StackInv, ErrInv, ReportInv, GraphsInv, CoverInv, [Next]_vars
             PROVE  CoverInv'
  OBVIOUS
<1>1. CASE HostStep
  BY <1>1, ConnectCover, SignalCover, CompletionCover DEF HostStep, SenderInv, ControlOK
<1>2. CASE (\E e \in Exec : StreamStep(e)) \/ UNCHANGED vars
  <2>1. UNCHANGED <<sender, phase, calls, error, thrown, result>>
    BY <1>2 DEF StreamStep, RetireLaunch, RunFunctor, controlVars, outcomeVars, vars
  <2>2. \A d \in Context : (Flying(d)' => Flying(d)) /\ UNCHANGED is_submitted
    <3>1. CASE \E e \in Exec : StreamStep(e)
      <4>1. PICK e \in Exec : DeviceStep(e)
        BY <3>1 DEF StreamStep, RetireLaunch, RunFunctor, DeviceStep
      <4> QED
        BY <4>1, DeviceFlying DEF SenderInv
    <3>2. CASE UNCHANGED vars
      BY <3>2 DEF vars, contextVars, flagVars, Flying
    <3> QED
      BY <1>2, <3>1, <3>2
  <2>3. /\ Pending' = Pending /\ Above' = Above /\ Forks' = Forks
        /\ (Careful' <=> Careful) /\ \A i : InBranch(i)' <=> InBranch(i)
    BY <2>1, SameTree, SameFences DEF Pending
  <2>4. Failing' <=> Failing
    BY <2>1, <2>3 DEF Failing
  <2>5. ASSUME NEW d \in Context, Flying(d)', Covered(d)
        PROVE  Covered(d)'
    <3>1. PICK k \in GraphStages : CtxOf(k) = d /\ \E c \in Pending : Carries(c, k)
      BY <2>5 DEF Covered
    <3>2. PICK c \in Pending : Carries(c, k)
      BY <3>1
    <3> QED
      BY <2>1, <2>2, <2>3, <3>1, <3>2, StaysCovered
  <2> QED
    BY <2>1, <2>2, <2>3, <2>4, <2>5 DEF CoverInv
<1> QED
  BY <1>1, <1>2 DEF Next, Terminated

\* When sync_wait has ended there is nothing of the sender on the device, which would
\* use data of its caller, for all senders that are Careful about their fences; the
\* error of a stage in a branch of a when_all is the one exception.
THEOREM SenderNothingInFlight == Spec => [](Careful => NothingInFlight)
<1>1. Init => HostTypeOK
  BY DEF Init, HostTypeOK
<1>2. Init => StackInv /\ OnceInv /\ ErrInv /\ ReportInv
  <2> SUFFICES ASSUME Init PROVE StackInv /\ OnceInv /\ ErrInv /\ ReportInv
    OBVIOUS
  <2>1. /\ calls = <<>> /\ completions = 0 /\ DOMAIN calls = {} /\ error = [i \in Ops |-> FALSE]
        /\ phase = "connect" /\ thrown = {} /\ result = "none"
    BY DEF Init
  <2> QED
    BY <2>1 DEF StackInv, OnceInv, ErrInv, ReportInv, Pending
<1>3. Init => GraphsInv /\ CoverInv
  <2> SUFFICES ASSUME Init PROVE GraphsInv /\ CoverInv
    OBVIOUS
  <2>1. /\ phase = "connect" /\ thrown = {} /\ cursor = 1 /\ sender \in Senders
        /\ is_instantiated = [c \in Context |-> FALSE] /\ queue = [e \in Exec |-> <<>>]
    BY DEF Init, ContextInit
  <2>2. ASSUME NEW c \in Context
        PROVE  ~Flying(c)
    <3>1. queue[ExecOf[c]] = <<>>
      BY <2>1, ContextAssumption
    <3>2. DOMAIN queue[ExecOf[c]] = {}
      BY <3>1
    <3> QED
      BY <3>2 DEF Flying
  <2>3. \A k \in GraphStages : ~(k < 1)
    <3>1. Ops \subseteq 1 .. Len(sender.ops) /\ Len(sender.ops) \in Nat
      BY <2>1, Shape
    <3> QED
      BY <3>1 DEF GraphStages, Stages
  <2> QED
    BY <2>1, <2>2, <2>3 DEF GraphsInv, CoverInv
<1>4. SenderInv /\ CoverInv => (Careful => NothingInFlight)
  <2> SUFFICES ASSUME SenderInv, CoverInv, Careful
               PROVE  NothingInFlight
    OBVIOUS
  <2>1. (\A c \in Context : ~Flying(c)) => Drained
    BY NothingFlying DEF SenderInv
  <2> QED
    BY <2>1 DEF CoverInv, NothingInFlight
<1> QED
  BY <1>1, <1>2, <1>3, <1>4, NextStack, NextErr, NextReport, NextGraphs, NextCover, NextHostType,
     SenderInvariance, PTL DEF Spec

-----------------------------------------------------------------------------
(***************************************************************************)
(* The rounds after the first one.                                         *)
(***************************************************************************)

\* A sender without branches.
Linear == \A i \in Ops : Kind(i) # "when_all"

\* A value that has come from inside of a stage has submitted its graph.  Hence a
\* chain is only repeated when the graphs of all its stages are instantiated.
RoundInv ==
  /\ \A c \in Context : is_submitted[c] => is_instantiated[c]
  /\ Linear =>
       /\ iter > 1 => phase # "aborted" /\ \A k \in GraphStages : is_instantiated[CtxOf(k)]
       /\ \A d \in Pending : d.sig = "value" =>
            \A k \in GraphStages : d.op \in Above[k] => is_instantiated[CtxOf(k)]

\* A chain has no fork_join, hence at most one child everywhere: what is inside of the
\* parent of i is i or inside of i.
LEMMA LinearPath ==
  ASSUME sender \in Senders, Linear, NEW i \in Ops, NEW k \in Ops, Parent(i) \in Above[k]
  PROVE  k = i \/ i \in Above[k]
<1>1. CASE Parent(i) = Final
  BY <1>1, Tree, AboveFacts
<1>2. CASE Parent(i) # Final
  <2> DEFINE p == Parent(i)
  <2>1. p \in Ops /\ i \in Range(Child(p))
    BY <1>2, Tree
  <2> HIDE DEF p
  <2>2. PICK c \in Range(Child(p)) : c = k \/ c \in Above[k]
    BY <2>1, AbovePath DEF p
  <2>3. Kind(p) # "fork_join"
    <3> SUFFICES ASSUME Kind(p) = "fork_join"
                 PROVE  FALSE
      OBVIOUS
    <3>1. Child(p)[2] \in Ops /\ Kind(Child(p)[2]) = "when_all"
      BY <2>1, Inside
    <3> QED
      BY <3>1 DEF Linear
  <2>4. Kind(p) \in {"then", "continues_on", "fork"} \/ Range(Child(p)) = {}
    BY <2>1, <2>3, Inside DEF Linear, Sources
  <2>5. c = i
    BY <2>1, <2>2, <2>4, Inside
  <2> QED
    BY <2>2, <2>5
<1> QED
  BY <1>1, <1>2

\* A chain has no forks either, and nothing precedes its source.
LEMMA LinearKinds ==
  ASSUME sender \in Senders, Linear, NEW i \in Ops
  PROVE  /\ Kind(i) # "fork"
         /\ Kind(i) \in Sources => \A k \in GraphStages : Parent(i) \notin Above[k]
<1>1. Kind(i) # "fork"
  <2> SUFFICES ASSUME Kind(i) = "fork"
               PROVE  FALSE
    OBVIOUS
  <2>1. Parent(i) \in Ops /\ Kind(Parent(i)) = "fork_join"
    BY Inside DEF HasKind
  <2>2. Child(Parent(i))[2] \in Ops /\ Kind(Child(Parent(i))[2]) = "when_all"
    BY <2>1, Inside
  <2> QED
    BY <2>2 DEF Linear
<1>2. ASSUME Kind(i) \in Sources, NEW k \in GraphStages, Parent(i) \in Above[k]
      PROVE  FALSE
  <2>1. k \in Ops /\ Kind(k) = "then"
    BY DEF GraphStages, Stages
  <2>2. k = i \/ i \in Above[k]
    BY <1>2, <2>1, LinearPath
  <2>3. Range(Child(i)) = {}
    BY <1>2, Inside
  <2>4. i \notin Above[k]
    BY <2>1, <2>3, AbovePath
  <2> QED
    BY <1>2, <2>1, <2>2, <2>4 DEF Sources
<1> QED
  BY <1>1, <1>2

\* Nothing is instantiated but by submit(), and nothing is freed.
LEMMA SubmitRounds ==
  ASSUME SenderInv, GraphsInv, RoundInv, NEW c \in Context, c \in has_graph, Submit(c)
  PROVE  /\ is_instantiated'[c]
         /\ \A x \in Context : is_instantiated[x] => is_instantiated'[x]
         /\ \A x \in Context : is_submitted'[x] => is_instantiated'[x]
<1>1. is_instantiated \in [Context -> BOOLEAN] /\ is_submitted \in [Context -> BOOLEAN]
  BY DEF SenderInv, IInv, ContextTypeOK
<1>2. CASE is_submitted[c]
  BY <1>2 DEF Submit, RoundInv, flagVars
<1>3. CASE ~is_submitted[c]
  BY <1>1, <1>3 DEF Submit, Launched, RoundInv
<1> QED
  BY <1>2, <1>3

\* Each signal carries on what has been instantiated.
LEMMA SignalRounds ==
  ASSUME SenderInv, HostTypeOK, StackInv, GraphsInv, RoundInv, NEW i \in Ops, Signal(i)
  PROVE  RoundInv'
<1>1. /\ sender \in Senders /\ phase = "run" /\ UNCHANGED <<sender, phase, iter>>
  BY DEF Signal, StartSource, StartThen, StartInner, StartWhenAll, ValueStage, ValueHostStage,
         ThrowHostStage, ValueContinuesOn, ValueChild, ErrorChild, Joined, Forked,
         ValueForkJoin, Forwarded, Calls, SenderInv, ControlOK
<1>2. /\ Above' = Above /\ GraphStages' = GraphStages /\ \A k : CtxOf(k)' = CtxOf(k)
      /\ Linear' <=> Linear
  BY <1>1, SameTree, SameFences DEF Linear, Kind
<1>3. /\ \A x \in Context : is_instantiated[x] => is_instantiated'[x]
      /\ \A x \in Context : is_submitted'[x] => is_instantiated'[x]
      /\ ValueStage(i) => is_instantiated'[CtxOf(i)]
  <2>1. CASE ValueStage(i)
    <3>1. i \in GraphStages /\ CtxOf(i) \in Context /\ Submit(CtxOf(i))
      BY <2>1 DEF ValueStage, GraphStages, Stages, OnGraph
    <3>2. CtxOf(i) \in has_graph
      BY <1>1, <3>1 DEF GraphsInv
    <3> QED
      BY <3>1, <3>2, SubmitRounds
  <2>2. CASE ~ValueStage(i)
    <3>1. UNCHANGED contextVars \/ \E c : Wait(c)
      BY <2>2 DEF Signal, StartSource, StartThen, StartInner, StartWhenAll, ValueHostStage,
           ThrowHostStage, ValueContinuesOn, ValueChild, ErrorChild, Joined, Forked,
           ValueForkJoin, Forwarded, Nothing
    <3>2. is_submitted \in [Context -> BOOLEAN]
      BY DEF SenderInv, IInv, ContextTypeOK
    <3>3. is_instantiated' = is_instantiated /\ \A x \in Context : is_submitted'[x] => is_submitted[x]
      BY <3>1, <3>2 DEF Wait, contextVars, flagVars
    <3> QED
      BY <2>2, <3>3 DEF RoundInv
  <2> QED
    BY <2>1, <2>2
<1>4. ASSUME Linear, NEW d \in Pending', d.sig = "value", NEW k \in GraphStages, d.op \in Above[k]
      PROVE  is_instantiated'[CtxOf(k)]
  <2>1. k \in Ops /\ Kind(k) = "then" /\ CtxOf(k) \in Context
    BY DEF GraphStages, Stages, OnGraph
  <2>2. CASE d \in Pending
    <3>1. is_instantiated[CtxOf(k)]
      BY <1>4, <2>2 DEF RoundInv
    <3> QED
      BY <1>3, <2>1, <3>1
  <2>3. CASE d \notin Pending
    <3>1. \A sig, j : Call(sig, j).sig = sig /\ Call(sig, j).op = j
      BY DEF Call
    <3>2. ~Joined(i)
      <4>1. Joined(i) => Call("joined", i) \in Pending
        BY <1>1, Steps DEF Step
      <4>2. WhenAlls = {}
        BY <1>4 DEF WhenAlls, Linear
      <4> QED
        BY <3>1, <4>1, <4>2 DEF StackInv, Pending
    <3>3. \/ StartSource(i) /\ d = Call("value", Parent(i))
          \/ /\ ValueStage(i) \/ ValueHostStage(i) \/ ValueContinuesOn(i) \/ ValueForkJoin(i)
             /\ Call("value", i) \in Pending /\ d = Call("value", Parent(i))
      <4>1. CASE StartSource(i)
        <5>1. PICK out : Step("start", i, {Call(out, Parent(i))})
          BY <1>1, <4>1, Steps
        <5>2. d = Call(out, Parent(i))
          BY <2>3, <5>1 DEF Step
        <5> QED
          BY <1>4, <3>1, <4>1, <5>2
      <4>2. CASE ValueStage(i) \/ ValueHostStage(i) \/ ValueContinuesOn(i) \/ ValueForkJoin(i)
        <5>1. Step("value", i, {Call("value", Parent(i))})
          BY <1>1, <4>2, Steps
        <5> QED
          BY <2>3, <4>2, <5>1 DEF Step
      <4>3. CASE StartThen(i) \/ StartInner(i) \/ StartWhenAll(i) \/ ThrowHostStage(i)
                   \/ ValueChild(i) \/ ErrorChild(i) \/ Forked(i) \/ Forwarded(i)
        <5>1. \A sig, x : Step(sig, i, {x}) => d = x
          BY <2>3 DEF Step
        <5>2. CASE StartThen(i)
          <6>1. CASE error[i]
            <7>1. Step("start", i, {Call("error", Parent(i)), Call("start", Child(i)[1])})
              BY <1>1, <5>2, <6>1, Steps
            <7>2. d = Call("error", Parent(i)) \/ d = Call("start", Child(i)[1])
              BY <2>3, <7>1 DEF Step
            <7> QED
              BY <1>4, <3>1, <7>2
          <6>2. CASE ~error[i]
            <7>1. Step("start", i, {Call("start", Child(i)[1])})
              BY <1>1, <5>2, <6>2, Steps
            <7>2. d = Call("start", Child(i)[1])
              BY <5>1, <7>1
            <7> QED
              BY <1>4, <3>1, <7>2
          <6> QED
            BY <6>1, <6>2
        <5>3. CASE StartInner(i) \/ ThrowHostStage(i)
          <6>1. \/ Step("start", i, {Call("start", Child(i)[1])})
                \/ Step("value", i, {Call("error", Parent(i))})
            BY <1>1, <5>3, Steps
          <6>2. d = Call("start", Child(i)[1]) \/ d = Call("error", Parent(i))
            BY <5>1, <6>1
          <6> QED
            BY <1>4, <3>1, <6>2
        <5>4. CASE StartWhenAll(i)
          BY <1>4, <5>4 DEF StartWhenAll, Linear
        <5>5. CASE ValueChild(i) \/ ErrorChild(i)
          BY <1>4, <5>5 DEF ValueChild, ErrorChild, Linear
        <5>6. CASE Forked(i)
          BY <1>1, <1>4, <5>6, LinearKinds DEF Forked
        <5>7. CASE Forwarded(i)
          <6>1. PICK sig \in {"error", "stopped"} : Step(sig, i, {Call(sig, Parent(i))})
            BY <1>1, <5>7, Steps
          <6>2. d = Call(sig, Parent(i))
            BY <5>1, <6>1
          <6> QED
            BY <1>4, <3>1, <6>2
        <5> QED
          BY <4>3, <5>2, <5>3, <5>4, <5>5, <5>6, <5>7
      <4> QED
        BY <3>2, <4>1, <4>2, <4>3 DEF Signal
    <3>4. CASE StartSource(i)
      <4>1. Kind(i) \in Sources /\ d.op = Parent(i)
        BY <3>1, <3>3, <3>4 DEF StartSource
      <4> QED
        BY <1>1, <1>4, <4>1, LinearKinds
    <3>5. CASE ValueStage(i) \/ ValueHostStage(i) \/ ValueContinuesOn(i) \/ ValueForkJoin(i)
      <4>1. Call("value", i) \in Pending /\ d.op = Parent(i)
        <5>1. CASE StartSource(i)
          BY <3>5, <5>1 DEF StartSource, Sources, ValueStage, ValueHostStage, ValueContinuesOn,
               ValueForkJoin
        <5> QED
          BY <3>1, <3>3, <5>1
      <4>2. k = i \/ i \in Above[k]
        BY <1>1, <1>4, <2>1, <4>1, LinearPath
      <4>3. CASE k = i
        <5>1. ValueStage(i)
          BY <2>1, <3>5, <4>3 DEF ValueHostStage, ValueContinuesOn, ValueForkJoin, OnGraph
        <5> QED
          BY <1>3, <4>3, <5>1
      <4>4. CASE i \in Above[k]
        <5>1. is_instantiated[CtxOf(k)]
          BY <1>4, <3>1, <4>1, <4>4 DEF RoundInv
        <5> QED
          BY <1>3, <2>1, <5>1
      <4> QED
        BY <4>2, <4>3, <4>4
    <3> QED
      BY <3>3, <3>4, <3>5
  <2> QED
    BY <2>2, <2>3
<1>5. \A k \in GraphStages : CtxOf(k) \in Context
  BY DEF GraphStages, OnGraph
<1> QED
  BY <1>1, <1>2, <1>3, <1>4, <1>5 DEF RoundInv

\* When a chain is connected again, nobody asks for a node: proceed() finds the graph
\* of each stage instantiated.
LEMMA ConnectAgain ==
  ASSUME SenderInv, RoundInv, Linear, iter > 1, Connect
  PROVE  UNCHANGED <<nodes, dep>> /\ phase' # "aborted"
<1> PICK i \in Ops : \/ ConnectPlain(i) \/ ConnectThen(i) \/ ConnectThenThrows(i)
                     \/ ConnectThenWithoutNode(i) \/ ConnectContinuesOn(i) \/ ConnectFork(i)
                     \/ ConnectWhenAll(i) \/ ConnectForkJoin(i) \/ ConnectAborts(i)
  BY DEF Connect
<1>1. sender \in Senders
  BY DEF SenderInv, ControlOK
<1>2. Kind(i) # "fork" /\ Kind(i) # "when_all"
  BY <1>1, LinearKinds DEF Linear
<1>3. ~(Kind(i) = "then" /\ OnGraph(i) /\ Proceed(i))
  BY DEF RoundInv, Proceed, GraphStages, Stages
<1>4. ~ConnectAborts(i)
  <2> DEFINE pred == Predecessor(i, Child(i)[1], CtxOf(i))
  <2> HIDE DEF pred
  <2>1. ASSUME ConnectAborts(i)
        PROVE  \E a \in CASE Kind(i) = "then" /\ OnGraph(i) /\ Proceed(i) -> {pred}
                          [] Kind(i) = "fork" -> {pred}
                          [] Kind(i) = "when_all" -> {anchor[k] : k \in Range(Child(i))}
                          [] OTHER -> {} : TRUE
    BY <2>1, Zenon DEF ConnectAborts, pred
  <2> QED
    BY <1>2, <1>3, <2>1
<1>5. ~ConnectThen(i) /\ ~ConnectThenThrows(i) /\ ~ConnectWhenAll(i)
  BY <1>2, <1>3 DEF ConnectThen, ConnectThenThrows, ConnectWhenAll, Connecting
<1>6. UNCHANGED <<nodes, dep>>
  BY <1>4, <1>5 DEF ConnectPlain, ConnectThenWithoutNode, ConnectContinuesOn, ConnectFork,
         ConnectForkJoin, LookUpGraph, contextVars, graphVars
<1>7. phase' # "aborted"
  <2>1. PICK kinds : Connecting(i, kinds)
    BY <1>4, <1>5 DEF ConnectPlain, ConnectThenWithoutNode, ConnectContinuesOn, ConnectFork,
         ConnectForkJoin
  <2> QED
    BY <2>1 DEF Connecting
<1> QED
  BY <1>6, <1>7

\* repeat_until connects anew once a value has come from inside of every stage.
LEMMA NextRounds ==
  SenderInv /\ HostTypeOK /\ StackInv /\ GraphsInv /\ RoundInv /\ [Next]_vars => RoundInv'
<1> SUFFICES ASSUME SenderInv, HostTypeOK, StackInv, GraphsInv, RoundInv, [Next]_vars
             PROVE  RoundInv'
  OBVIOUS
<1> USE DEF flagVars, contextVars, graphVars
<1>0. sender \in Senders /\ is_submitted \in [Context -> BOOLEAN]
  BY DEF SenderInv, ControlOK, IInv, ContextTypeOK
<1>1. CASE \E i \in Ops : Signal(i)
  BY <1>1, SignalRounds
<1>2. ASSUME sender' = sender, is_instantiated' = is_instantiated,
             \A x \in Context : is_submitted'[x] => is_submitted[x],
             Linear => \A d \in Pending' : d.sig = "value" => d \in Pending,
             Linear /\ iter' > 1 => /\ phase' # "aborted"
                                    /\ \A k \in GraphStages : is_instantiated[CtxOf(k)]
      PROVE  RoundInv'
  <2>1. /\ Above' = Above /\ GraphStages' = GraphStages /\ \A k : CtxOf(k)' = CtxOf(k)
        /\ Linear' <=> Linear
    BY <1>2, SameTree, SameFences DEF Linear, Kind
  <2> QED
    BY <1>2, <2>1 DEF RoundInv
<1>3. CASE Connect
  <2>1. /\ phase = "connect" /\ UNCHANGED <<sender, iter>>
        /\ calls' = <<>> \/ \E j : calls' = <<[sig |-> "start", op |-> j]>>
    BY <1>3 DEF Connect, ConnectPlain, ConnectThen, ConnectThenThrows, ConnectThenWithoutNode,
           ConnectContinuesOn, ConnectFork, ConnectWhenAll, ConnectForkJoin, Connecting,
           ConnectAborts, StackInv
  <2>2. UNCHANGED <<is_instantiated, is_submitted>>
    BY <1>3 DEF Connect, ConnectPlain, ConnectThen, ConnectThenThrows, ConnectThenWithoutNode,
           ConnectContinuesOn, ConnectFork, ConnectWhenAll, ConnectForkJoin, LookUpGraph,
           ConnectAborts
  <2>3. \A d \in Pending' : d.sig # "value"
    BY <2>1 DEF Pending
  <2>4. Linear /\ iter > 1 => phase' # "aborted"
    BY <1>3, ConnectAgain
  <2>5. Linear /\ iter > 1 => \A k \in GraphStages : is_instantiated[CtxOf(k)]
    BY DEF RoundInv
  <2> QED
    BY <1>2, <2>1, <2>2, <2>3, <2>4, <2>5
<1>4. CASE Complete \/ CompleteWithError \/ CompleteStopped
  <2>1. PICK sig : Calls(sig, Final, <<>>)
    BY <1>4 DEF Complete, CompleteWithError, CompleteStopped
  <2>2. UNCHANGED <<sender, iter, phase>> /\ Pending' \subseteq Pending
    BY <2>1, StepNone DEF Step
  <2>3. UNCHANGED contextVars \/ \E c : Wait(c)
    BY <1>4 DEF Complete, CompleteWithError, CompleteStopped
  <2>4. is_instantiated' = is_instantiated /\ \A x \in Context : is_submitted'[x] => is_submitted[x]
    BY <1>0, <2>3 DEF Wait
  <2> QED
    BY <1>2, <2>2, <2>4 DEF RoundInv
<1>5. CASE Repeat
  <2>1. /\ calls = <<Call("value", Final)>> /\ calls' = <<>> /\ phase' = "connect"
        /\ sender' = sender /\ UNCHANGED contextVars
    BY <1>5 DEF Repeat, Nothing
  <2>2. Pending' = {} /\ Call("value", Final) \in Pending
    BY <2>1 DEF Pending
  <2>3. Call("value", Final).sig = "value" /\ Call("value", Final).op = Final
    BY DEF Call
  <2>4. \A k \in GraphStages : Final \in Above[k]
    BY <1>0, AboveFacts DEF GraphStages, Stages
  <2>5. Linear => \A k \in GraphStages : is_instantiated[CtxOf(k)]
    BY <2>2, <2>3, <2>4 DEF RoundInv
  <2> QED
    BY <1>2, <2>1, <2>2, <2>5
<1>6. CASE Return
  <2>1. UNCHANGED <<sender, iter, calls>> /\ UNCHANGED contextVars /\ phase' # "aborted"
    BY <1>6, ReturnOutcome DEF Return, Nothing
  <2>2. Pending' = Pending
    BY <2>1 DEF Pending
  <2> QED
    BY <1>2, <2>1, <2>2 DEF RoundInv
<1>7. CASE (\E e \in Exec : StreamStep(e)) \/ UNCHANGED vars
  <2>1. UNCHANGED <<sender, iter, phase, calls, is_submitted, is_instantiated>>
    BY <1>7 DEF StreamStep, RetireLaunch, RunFunctor, Retire, RunNode, controlVars, vars
  <2>2. Pending' = Pending
    BY <2>1 DEF Pending
  <2> QED
    BY <1>2, <2>1, <2>2 DEF RoundInv
<1> QED
  BY <1>1, <1>3, <1>4, <1>5, <1>6, <1>7 DEF Next, HostStep, Terminated

\* All that is known where the graphs of a chain are instantiated.
LEMMA RoundsInvariant == Spec => [](SenderInv /\ HostTypeOK /\ AbortInv /\ RoundInv)
<1>1. Init => HostTypeOK
  BY DEF Init, HostTypeOK
<1>2. Init => StackInv /\ OnceInv /\ ErrInv /\ AbortInv /\ GraphsInv /\ RoundInv
  <2> SUFFICES ASSUME Init
               PROVE  StackInv /\ OnceInv /\ ErrInv /\ AbortInv /\ GraphsInv /\ RoundInv
    OBVIOUS
  <2>1. /\ calls = <<>> /\ completions = 0 /\ DOMAIN calls = {} /\ error = [i \in Ops |-> FALSE]
        /\ anchor = [i \in Ops |-> NotQueryable] /\ phase = "connect" /\ thrown = {}
        /\ is_instantiated = [c \in Context |-> FALSE] /\ is_submitted = [c \in Context |-> FALSE]
        /\ iter = 1 /\ cursor = 1 /\ sender \in Senders
    BY DEF Init, ContextInit
  <2>2. NotQueryable.has = "none"
    BY DEF NotQueryable
  <2>3. StackInv /\ OnceInv /\ ErrInv
    BY <2>1 DEF StackInv, OnceInv, ErrInv, Pending
  <2>4. AbortInv
    BY <2>1, <2>2 DEF AbortInv
  <2>5. GraphsInv
    <3>1. Ops \subseteq 1 .. Len(sender.ops) /\ Len(sender.ops) \in Nat
      BY <2>1, Shape
    <3>2. \A k \in GraphStages : ~(k < 1)
      BY <3>1 DEF GraphStages, Stages
    <3> QED
      BY <2>1, <3>2 DEF GraphsInv
  <2>6. RoundInv
    BY <2>1 DEF RoundInv, Pending
  <2> QED
    BY <2>3, <2>4, <2>5, <2>6
<1> QED
  BY <1>1, <1>2, NextStack, NextErr, NextAbort, NextGraphs, NextRounds, NextHostType,
     SenderInvariance, PTL DEF Spec

\* A chain may be repeated as often as one likes: in a later round no node is asked
\* for, since repeat_until has only come there when every graph was instantiated.
THEOREM RepeatedNeverAborts == Spec => [](Linear /\ (iter > 1 \/ thrown = {}) => NeverAborts)
<1>1. SenderInv /\ AbortInv /\ RoundInv => (Linear /\ (iter > 1 \/ thrown = {}) => NeverAborts)
  <2>1. SenderInv => iter = 1 \/ iter > 1
    BY Shape DEF SenderInv, ControlOK
  <2> QED
    BY <2>1 DEF AbortInv, RoundInv, NeverAborts
<1> QED
  BY <1>1, RoundsInvariant, PTL

\* The graphs of a chain stay as they were instantiated, whatever throws: in the first
\* round no graph is instantiated while nodes are built, and in a later one none is.
THEOREM SenderGraphBuiltOnce == Spec /\ Linear => GraphBuiltOnce
<1>1. ASSUME SenderInv, HostTypeOK, AbortInv, RoundInv, Linear, [Next]_vars
      PROVE  [\A c \in Context : is_instantiated[c] => nodes'[c] = nodes[c]]_vars
  <2>1. CASE Connect
    <3>1. phase = "connect"
      BY <2>1 DEF Connect, ConnectPlain, ConnectThen, ConnectThenThrows, ConnectThenWithoutNode,
           ConnectContinuesOn, ConnectFork, ConnectWhenAll, ConnectForkJoin, Connecting,
           ConnectAborts
    <3>2. iter = 1 \/ iter > 1
      BY <1>1, Shape DEF SenderInv, ControlOK
    <3> QED
      BY <1>1, <2>1, <3>1, <3>2, ConnectAgain DEF AbortInv
  <2>2. CASE ~Connect
    <3>1. UNCHANGED nodes
      <4> USE DEF flagVars, contextVars, graphVars
      <4>1. ASSUME NEW i \in Ops, Signal(i)
            PROVE  UNCHANGED nodes
        BY <4>1 DEF Signal, StartSource, StartThen, StartInner, StartWhenAll, ValueStage,
             ValueHostStage, ThrowHostStage, ValueContinuesOn, ValueChild, ErrorChild, Joined,
             Forked, ValueForkJoin, Forwarded, Nothing, Wait, Submit
      <4>2. CASE Complete \/ CompleteWithError \/ CompleteStopped \/ Repeat \/ Return
        BY <4>2 DEF Complete, CompleteWithError, CompleteStopped, Repeat, Return, Nothing, Wait
      <4>3. CASE (\E e \in Exec : StreamStep(e)) \/ UNCHANGED vars
        BY <4>3 DEF StreamStep, RetireLaunch, RunFunctor, Retire, RunNode, vars
      <4> QED
        BY <1>1, <2>2, <4>1, <4>2, <4>3 DEF Next, HostStep, Terminated
    <3> QED
      BY <3>1
  <2> QED
    BY <2>1, <2>2
<1>2. SenderInv /\ Linear /\ [Next]_vars => Linear'
  <2> SUFFICES ASSUME Linear, [Next]_vars, SenderInv
               PROVE  Linear'
    OBVIOUS
  <2>1. sender' = sender
    <3>1. CASE Connect
      BY <3>1 DEF Connect, ConnectPlain, ConnectThen, ConnectThenThrows, ConnectThenWithoutNode,
           ConnectContinuesOn, ConnectFork, ConnectWhenAll, ConnectForkJoin, Connecting,
           ConnectAborts
    <3>2. ASSUME NEW i \in Ops, Signal(i)
          PROVE  sender' = sender
      BY <3>2 DEF Signal, StartSource, StartThen, StartInner, StartWhenAll, ValueStage,
           ValueHostStage, ThrowHostStage, ValueContinuesOn, ValueChild, ErrorChild, Joined,
           Forked, ValueForkJoin, Forwarded, Calls
    <3>3. CASE Complete \/ CompleteWithError \/ CompleteStopped \/ Repeat \/ Return
      BY <3>3 DEF Complete, CompleteWithError, CompleteStopped, Repeat, Return, Calls
    <3>4. CASE (\E e \in Exec : StreamStep(e)) \/ UNCHANGED vars
      BY <3>4 DEF StreamStep, RetireLaunch, RunFunctor, controlVars, vars
    <3> QED
      BY <3>1, <3>2, <3>3, <3>4 DEF Next, HostStep, Terminated
  <2> QED
    BY <2>1 DEF Linear, Ops, Kind
<1> QED
  BY <1>1, <1>2, RoundsInvariant, PTL DEF Spec, GraphBuiltOnce
=============================================================================
