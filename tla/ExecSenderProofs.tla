-------------------------- MODULE ExecSenderProofs --------------------------
(***************************************************************************)
(* For every set of instances and every well-formed sender: the types, the *)
(* effect of a throw, and which senders have nothing in flight when        *)
(* sync_wait is over.                                                      *)
(*                                                                         *)
(* All of it rests on one inductive invariant, IInv.  Its parts say where  *)
(* the signals are and who completed the join (HeadInv, JoinInv), that a   *)
(* throw is on record as an error still on its way (FailInv), which stages *)
(* have been launched and run in this round (LaunchInv, CountInv), which   *)
(* signal has to get past a fence before a stage in flight is forgotten    *)
(* (CoverInv), and that instances hold stages in the order of the sender   *)
(* (OrderInv).                                                             *)
(***************************************************************************)
EXTENDS ExecSender, SequenceTheorems, FiniteSetTheorems, WellFoundedInduction, TLAPS

\* The receiver that sync_wait made.
LastOp == Len(sender.ops)

\* The receivers of one branch go from b to j - 1; a chain has none, which is
\* b = j = Last + 1.
Shape(b, j) ==
  /\ b \in Nat /\ j \in Nat /\ 1 < b /\ b <= j /\ j <= LastOp + 1
  /\ b = j => j = LastOp + 1
  /\ b # j => j < LastOp /\ sender.rounds = 1 /\ sender.starts = "value"
  /\ sender.heads = {i \in Ops : i = 1 \/ i = b}
  /\ \A i \in Ops : To(i) = IF i = b - 1 THEN j ELSE i + 1
  /\ \A i \in Ops : KindOf(i) = "join" <=> i = j

\* The receivers of a sender, the last of which is that of sync_wait.
LEMMA OpsType ==
  ASSUME sender \in Senders
  PROVE  /\ LastOp \in Nat \ {0}
         /\ Ops = 1 .. LastOp
         /\ \A i \in Ops : sender.ops[i] \in Receiver
         /\ \A i \in Ops : KindOf(i) = "sync_wait" <=> i = LastOp
         /\ sender.rounds \in Nat \ {0}
         /\ sender.starts \in {"value", "stopped"}
<1>1. WellFormed(sender)
  BY ExecAssumption
<1>2. sender.ops \in Seq(Receiver) /\ sender.ops # <<>>
  BY <1>1 DEF WellFormed
<1>3. LastOp \in Nat \ {0} /\ Ops = 1 .. LastOp
  BY <1>2, EmptySeq, LenProperties DEF LastOp, Ops
<1>4. \A i \in Ops : sender.ops[i] \in Receiver
  BY <1>2, <1>3, ElementOfSeq DEF LastOp
<1>5. \A i \in Ops : KindOf(i) = "sync_wait" <=> i = LastOp
  BY <1>1 DEF WellFormed, Ops, KindOf, LastOp
<1>6. sender.rounds \in Nat \ {0} /\ sender.starts \in {"value", "stopped"}
  <2>1. CASE IsChain(sender)
    BY <2>1 DEF IsChain
  <2>2. CASE IsJoin(sender)
    BY <2>2 DEF IsJoin
  <2> QED
    BY <1>1, <2>1, <2>2 DEF WellFormed
<1> QED
  BY <1>3, <1>4, <1>5, <1>6

\* A well-formed sender is a chain or has two branches.
LEMMA SomeShape ==
  ASSUME sender \in Senders
  PROVE  \E b, j \in Nat : Shape(b, j)
<1>1. WellFormed(sender)
  BY ExecAssumption
<1>2. CASE IsChain(sender)
  <2>1. Shape(LastOp + 1, LastOp + 1)
    BY <1>2, OpsType DEF Shape, IsChain, Ops, KindOf, To
  <2> QED
    BY <2>1, OpsType
<1>3. CASE IsJoin(sender)
  <2>1. PICK b, j \in Ops :
    /\ 1 < b /\ b < j
    /\ sender.heads = {1, b}
    /\ sender.to = [i \in DOMAIN sender.ops |-> IF i = b - 1 THEN j ELSE i + 1]
    /\ \A i \in DOMAIN sender.ops : sender.ops[i].kind = "join" <=> i = j
    /\ sender.starts = "value" /\ sender.rounds = 1
    BY <1>3 DEF IsJoin, Ops
  <2>2. j # LastOp
    BY <2>1, OpsType DEF KindOf, Ops
  <2>3. Shape(b, j)
    BY <2>1, <2>2, OpsType DEF Shape, Ops, KindOf, To
  <2> QED
    BY <2>1, <2>3, OpsType
<1> QED
  BY <1>1, <1>2, <1>3 DEF WellFormed

\* What is downstream, as a solution of its equation.
LEMMA DownstreamIs ==
  ASSUME sender \in Senders, NEW b \in Nat, NEW j \in Nat, Shape(b, j)
  PROVE  Downstream = [i \in Ops |-> {k \in Ops : i < k /\ ~(i < b /\ b <= k /\ k < j)}]
<1> DEFINE F(f) == [i \in Ops |-> IF KindOf(i) = "sync_wait" THEN {} ELSE {To(i)} \cup f[To(i)]]
           d == [i \in Ops |-> {k \in Ops : i < k /\ ~(i < b /\ b <= k /\ k < j)}]
<1>0. \A i \in Ops : KindOf(i) # "sync_wait" => To(i) \in Ops /\ i < To(i)
  BY OpsType DEF Shape
<1>1. d = F(d)
  <2>1. ASSUME NEW i \in Ops
        PROVE  d[i] = IF KindOf(i) = "sync_wait" THEN {} ELSE {To(i)} \cup d[To(i)]
    BY OpsType DEF Shape
  <2> QED
    BY <2>1
<1> DEFINE g == CHOOSE f : f = F(f)
<1>2. g = F(g)
  BY <1>1
<1>3. Downstream = g
  BY DEF Downstream
<1> HIDE DEF d, g
<1>4. ASSUME NEW bad \in Ops, g[bad] # d[bad]
      PROVE  FALSE
  <2> DEFINE Less == {ss \in Nat \X Nat : ss[1] < ss[2]}
             T == {LastOp - i : i \in {m \in Ops : g[m] # d[m]}}
  <2>1. IsWellFoundedOn(Less, Nat)
    BY NatLessThanWellFounded DEF OpToRel
  <2>2. T \subseteq Nat /\ LastOp - bad \in T
    BY <1>4, OpsType
  <2>3. PICK x \in T : \A y \in T : <<y, x>> \notin Less
    <3> HIDE DEF Less, T
    <3> QED
      BY <2>1, <2>2, WFMin
  <2>4. PICK i \in Ops : x = LastOp - i /\ g[i] # d[i]
    BY <2>3
  <2>5. g[i] = IF KindOf(i) = "sync_wait" THEN {} ELSE {To(i)} \cup g[To(i)]
    BY <1>2
  <2>6. d[i] = IF KindOf(i) = "sync_wait" THEN {} ELSE {To(i)} \cup d[To(i)]
    BY <1>1
  <2>7. KindOf(i) # "sync_wait" /\ g[To(i)] # d[To(i)]
    BY <2>4, <2>5, <2>6
  <2>8. To(i) \in Ops /\ i < To(i)
    BY <1>0, <2>7
  <2>9. LastOp - To(i) \in T /\ LastOp - To(i) < x
    BY <2>4, <2>7, <2>8, OpsType
  <2>10. <<LastOp - To(i), x>> \in Less
    BY <2>2, <2>3, <2>9
  <2> QED
    BY <2>3, <2>9, <2>10
<1>5. g = [i \in Ops |-> g[i]] /\ d = [i \in Ops |-> d[i]]
  BY <1>2 DEF d
<1> QED
  BY <1>3, <1>4, <1>5 DEF d

\* Nothing that a sender is made of changes.
LEMMA SameSender ==
  ASSUME sender' = sender
  PROVE  /\ Ops' = Ops /\ StageOps' = StageOps /\ LastOp' = LastOp
         /\ Downstream' = Downstream /\ ExecEnv' = ExecEnv
         /\ \A i : KindOf(i)' = KindOf(i) /\ ExecOf(i)' = ExecOf(i) /\ To(i)' = To(i)
<1>1. Ops' = Ops /\ LastOp' = LastOp
  BY DEF Ops, LastOp
<1>2. \A i : KindOf(i)' = KindOf(i) /\ ExecOf(i)' = ExecOf(i) /\ To(i)' = To(i)
  BY DEF KindOf, ExecOf, To
<1>3. StageOps' = StageOps
  BY <1>1, <1>2 DEF StageOps
<1>4. ExecEnv' = ExecEnv
  BY DEF ExecEnv
<1>5. Downstream' = Downstream
  BY DEF Downstream, Ops, KindOf, To
<1> QED
  BY <1>1, <1>2, <1>3, <1>4, <1>5
-----------------------------------------------------------------------------
(***************************************************************************)
(* The inductive invariant.                                                *)
(***************************************************************************)

Sig(h) == signal[h].sig

\* The branch of h has completed, the other one has not or completes the join.
Swallowed(h) == KindOf(Here(h)) = "join" /\ Sig(h) = "none"

\* A value is on its way; a branch that was swallowed brought a value.
Going(h)   == Sig(h) \in {"value", "executed"}
Brought(h) == Swallowed(h) /\ ~ joinFails

InFlight(k) == \E e \in Execs : \E n \in DOMAIN queue[e] : queue[e][n] = k
Launched(k) == round > 0 /\ (runs[k] = round \/ InFlight(k))

\* The receivers that the signal of h meets.
OnPath(h, p) == p = h \/ p \in Downstream[h]

\* What follows the join.
Beyond(i) == \E j \in Ops : KindOf(j) = "join" /\ i \in Downstream[j]

\* A signal of head h that has come to p passed k before; it has passed the stage
\* at which it is once that is enqueued.
Passed(h, p, k) == p \in Downstream[k] /\ (KindOf(p) = "join" => OnPath(h, k))
Behind(h, k)    == Passed(h, Here(h), k) \/ (Here(h) = k /\ Sig(h) = "executed")

TypeInv ==
  /\ sender \in Senders
  /\ round \in 0 .. sender.rounds
  /\ signal \in [sender.heads ->
                  [at : Ops, sig : {"none", "value", "executed", "error", "stopped"}]]
  /\ queue \in [Execs -> Seq(Ops)]
  /\ \A e \in Execs : \A n \in DOMAIN queue[e] :
       /\ KindOf(queue[e][n]) = "stage" /\ ExecOf(queue[e][n]) = e
       /\ \A m \in DOMAIN queue[e] : queue[e][m] = queue[e][n] => m = n
  /\ runs \in [StageOps -> Nat]
  /\ failed \subseteq StageOps
  /\ joined \in {0, 1, 2}
  /\ joinFails \in BOOLEAN
  /\ outcome \in {"pending", "returned", "threw", "stopped"}

\* Where the signals are.
HeadInv ==
  \A h \in sender.heads :
    /\ OnPath(h, Here(h))
    /\ Sig(h) = "executed" => KindOf(Here(h)) = "stage"
    /\ Sig(h) = "stopped" => joinFails \/ sender.starts = "stopped"
    /\ outcome # "pending" => Sig(h) = "none"
    /\ round = 0 => Here(h) = h /\ Sig(h) = "none"
    /\ round > 0 /\ Sig(h) = "none" => KindOf(Here(h)) \in {"join", "sync_wait"}

\* Who has completed the join.
JoinInv ==
  /\ round = 0 => outcome = "pending" /\ joined = 0 /\ ~ joinFails /\ failed = {}
  /\ joined = 0 => ~ joinFails /\ \A h \in sender.heads : ~ Swallowed(h)
  /\ joined > 0 => \E h \in sender.heads : Swallowed(h)
  /\ joined = 2 <=> \E h \in sender.heads : Beyond(Here(h))
  /\ \A g, h \in sender.heads : g # h =>
       ~ (Swallowed(g) /\ Swallowed(h)) /\ (Beyond(Here(h)) => Swallowed(g))

\* What it means that a stage threw.
FailInv ==
  /\ \A f \in failed : sender.ops[f].throws /\ \E h \in sender.heads : Behind(h, f)
  /\ failed # {} <=> joinFails \/ outcome = "threw" \/ \E h \in sender.heads : Sig(h) = "error"
  /\ joinFails /\ joined = 2 => outcome = "threw" \/ \E h \in sender.heads : Sig(h) = "error"
  /\ outcome = "returned" => failed = {}
  /\ \A h \in sender.heads, f \in failed :
       Going(h) /\ KindOf(Here(h)) # "join" => Here(h) # f /\ Here(h) \notin Downstream[f]

\* Which stages have been launched in this round.
LaunchInv ==
  /\ \A k \in StageOps : Launched(k) => \E h \in sender.heads : Behind(h, k)
  /\ \A k \in StageOps, h \in sender.heads :
       (Going(h) \/ Brought(h)) /\ Behind(h, k) => Launched(k)
  /\ \A k, t \in StageOps : Launched(k) /\ k \in Downstream[t] => Launched(t)
  /\ \A f \in failed, k \in StageOps : k = f \/ k \in Downstream[f] => ~ Launched(k)

\* How often they have run.
CountInv ==
  /\ round = 0 => \A k \in StageOps : runs[k] = 0 /\ ~ InFlight(k)
  /\ round > 0 => \A k \in StageOps :
       /\ runs[k] \in {round - 1, round}
       /\ InFlight(k) => runs[k] = round - 1
  /\ outcome = "returned" => \A k \in StageOps : runs[k] = sender.rounds
  /\ \A h \in sender.heads :
       KindOf(Here(h)) = "sync_wait" /\ Sig(h) = "none" /\ outcome = "pending" /\ round > 0 =>
         \A k \in StageOps : runs[k] = round /\ ~ InFlight(k)

\* The signal of h will not complete before stage k has run.
Covers(h, k) ==
  /\ Behind(h, k)
  /\ \/ Going(h) /\ (Here(h) = k \/ MayFly(k, Here(h)))
     \/ Sig(h) = "error" /\ (ErrorsFenced => FencedFrom(Here(h), k))
     \/ /\ Swallowed(h) /\ joined = 1
        /\ MayFly(k, Here(h)) \/ (joinFails /\ (ErrorsFenced => FencedFrom(Here(h), k)))

CoverInv ==
  /\ outcome = "pending" => \A k \in Ops : InFlight(k) => \E h \in sender.heads : Covers(h, k)
  /\ outcome # "pending" /\ (outcome = "threw" => ErrorsFenced) => \A k \in Ops : ~ InFlight(k)

\* Instances run stages in the order of the sender.
OrderInv ==
  /\ \A k, t \in Ops : InFlight(k) /\ InFlight(t) /\ k \in Downstream[t] => ExecOf(k) = ExecOf(t)
  /\ \A e \in Execs : \A n, m \in DOMAIN queue[e] :
       n < m => queue[e][n] \notin Downstream[queue[e][m]]

IInv == TypeInv /\ HeadInv /\ JoinInv /\ FailInv /\ LaunchInv /\ CountInv /\ CoverInv /\ OrderInv

-----------------------------------------------------------------------------
(***************************************************************************)
(* The ways of the signals.                                                *)
(***************************************************************************)

\* What is downstream of a receiver is what comes later and is not in the other branch.
LEMMA Ways ==
  ASSUME sender \in Senders
  PROVE  \E b, j \in Nat :
           /\ Shape(b, j)
           /\ \A i \in Ops : Downstream[i] \subseteq Ops
           /\ \A i, k \in Ops : k \in Downstream[i] <=> i < k /\ ~(i < b /\ b <= k /\ k < j)
<1>1. PICK b \in Nat, j \in Nat : Shape(b, j)
  BY SomeShape
<1>2. Downstream = [i \in Ops |-> {k \in Ops : i < k /\ ~(i < b /\ b <= k /\ k < j)}]
  BY <1>1, DownstreamIs
<1> QED
  BY <1>1, <1>2

\* Downstream is an order, with To(i) right after i and sync_wait at its end.
LEMMA DownstreamOrder ==
  ASSUME sender \in Senders, NEW i \in Ops
  PROVE  /\ i \notin Downstream[i] /\ Downstream[i] \subseteq Ops
         /\ \A k \in Downstream[i] : Downstream[k] \subseteq Downstream[i] /\ i \notin Downstream[k]
         /\ KindOf(i) # "sync_wait" =>
              /\ To(i) \in Ops /\ To(i) \in Downstream[i]
              /\ \A k \in Ops : k \in Downstream[i] <=> k = To(i) \/ k \in Downstream[To(i)]
         /\ KindOf(i) = "sync_wait" =>
              Downstream[i] = {} /\ \A k \in Ops : k # i => i \in Downstream[k]
<1>1. PICK b \in Nat, j \in Nat :
         /\ Shape(b, j)
         /\ \A m \in Ops : Downstream[m] \subseteq Ops
         /\ \A m, n \in Ops : n \in Downstream[m] <=> m < n /\ ~(m < b /\ b <= n /\ n < j)
  BY Ways
<1>2. i \notin Downstream[i] /\ Downstream[i] \subseteq Ops
  BY <1>1, OpsType
<1>3. \A k \in Downstream[i] : Downstream[k] \subseteq Downstream[i] /\ i \notin Downstream[k]
  BY <1>1, OpsType DEF Shape
<1>4. ASSUME KindOf(i) # "sync_wait"
      PROVE  /\ To(i) \in Ops /\ To(i) \in Downstream[i]
             /\ \A k \in Ops : k \in Downstream[i] <=> k = To(i) \/ k \in Downstream[To(i)]
  <2>1. To(i) \in Ops
    BY <1>1, <1>4, OpsType DEF Shape
  <2> QED
    BY <1>1, <2>1, OpsType DEF Shape
<1>5. ASSUME KindOf(i) = "sync_wait"
      PROVE  Downstream[i] = {} /\ \A k \in Ops : k # i => i \in Downstream[k]
  <2>1. i = LastOp /\ LastOp \in Nat /\ Ops = 1 .. LastOp
    BY <1>5, OpsType
  <2>2. \A k \in Ops : k \notin Downstream[i]
    BY <1>1, <2>1
  <2> QED
    BY <1>1, <1>2, <2>1, <2>2 DEF Shape
<1> QED
  BY <1>2, <1>3, <1>4, <1>5

\* A chain has one head; a join has two, runs once, and is the only one.
LEMMA Heads ==
  ASSUME sender \in Senders
  PROVE  /\ sender.heads \subseteq Ops /\ sender.heads # {}
         /\ \A h \in sender.heads : KindOf(h) # "join" /\ \A k \in Ops : h \notin Downstream[k]
         /\ (\A j \in Ops : KindOf(j) # "join") => sender.heads = {1}
         /\ \A j \in Ops : KindOf(j) = "join" =>
              /\ sender.rounds = 1 /\ sender.starts = "value"
              /\ \A i \in Ops : KindOf(i) = "join" => i = j
              /\ \A h \in sender.heads : j \in Downstream[h]
              /\ \E g, h \in sender.heads : g # h /\ sender.heads = {g, h}
<1>1. PICK b \in Nat, j \in Nat :
         /\ Shape(b, j)
         /\ \A m \in Ops : Downstream[m] \subseteq Ops
         /\ \A m, n \in Ops : n \in Downstream[m] <=> m < n /\ ~(m < b /\ b <= n /\ n < j)
  BY Ways
<1>2. CASE b = j
  BY <1>1, <1>2, OpsType DEF Shape
<1>3. CASE b # j
  <2>1. 1 \in Ops /\ b \in Ops /\ j \in Ops /\ b < j /\ 1 # b
    BY <1>1, <1>3, OpsType DEF Shape
  <2>2. sender.heads = {1, b}
    BY <1>1, <2>1 DEF Shape
  <2>3. \A i \in Ops : KindOf(i) = "join" <=> i = j
    BY <1>1 DEF Shape
  <2>4. j \in Downstream[1] /\ j \in Downstream[b]
    BY <1>1, <2>1, OpsType
  <2>5. \A k \in Ops : 1 \notin Downstream[k] /\ b \notin Downstream[k]
    BY <1>1, <2>1, OpsType
  <2> QED
    BY <1>1, <1>3, <2>1, <2>2, <2>3, <2>4, <2>5 DEF Shape
<1> QED
  BY <1>2, <1>3

\* when_all waits for as many branches as there are heads.
LEMMA HeadCount ==
  ASSUME sender \in Senders
  PROVE  /\ (\A j \in Ops : KindOf(j) # "join") => Cardinality(sender.heads) = 1
         /\ (\E j \in Ops : KindOf(j) = "join") => Cardinality(sender.heads) = 2
<1>1. ASSUME NEW g, NEW h, g # h
      PROVE  Cardinality({g}) = 1 /\ Cardinality({g, h}) = 2
  <2>1. IsFiniteSet({g}) /\ Cardinality({g}) = 1
    BY FS_Singleton
  <2>2. {g, h} = {g} \cup {h} /\ h \notin {g}
    BY <1>1
  <2> QED
    BY <2>1, <2>2, FS_AddElement
<1>2. ASSUME \A j \in Ops : KindOf(j) # "join"
      PROVE  Cardinality(sender.heads) = 1
  <2>1. sender.heads = {1}
    BY <1>2, Heads
  <2> QED
    BY <2>1, FS_Singleton
<1>3. ASSUME NEW j \in Ops, KindOf(j) = "join"
      PROVE  Cardinality(sender.heads) = 2
  <2>1. PICK g, h \in sender.heads : g # h /\ sender.heads = {g, h}
    BY <1>3, Heads
  <2>2. Cardinality({g, h}) = 2
    BY <1>1, <2>1
  <2> QED
    BY <2>1, <2>2
<1> QED
  BY <1>2, <1>3

\* A step along a branch passes one receiver.
LEMMA OneStep ==
  ASSUME sender \in Senders, NEW h \in sender.heads, NEW p \in Ops, OnPath(h, p),
         KindOf(p) \notin {"join", "sync_wait"}
  PROVE  /\ OnPath(h, To(p))
         /\ Beyond(To(p)) <=> Beyond(p)
         /\ \A k \in Ops : Passed(h, To(p), k) <=> Passed(h, p, k) \/ k = p
<1>1. PICK b \in Nat, j \in Nat :
         /\ Shape(b, j)
         /\ \A m \in Ops : Downstream[m] \subseteq Ops
         /\ \A m, n \in Ops : n \in Downstream[m] <=> m < n /\ ~(m < b /\ b <= n /\ n < j)
  BY Ways
<1>2. p # j /\ To(p) \in Ops
  BY <1>1, OpsType DEF Shape
<1>3. ASSUME NEW k \in Ops
      PROVE  Passed(h, To(p), k) <=> Passed(h, p, k) \/ k = p
  BY <1>1, <1>2, OpsType DEF Shape, OnPath, Passed
<1>4. Beyond(To(p)) <=> Beyond(p)
  BY <1>1, <1>2, OpsType DEF Beyond, Shape
<1>5. OnPath(h, To(p))
  <2>1. To(p) \in Downstream[p] /\ h \in Ops
    BY DownstreamOrder, Heads
  <2>2. p = h \/ Downstream[p] \subseteq Downstream[h]
    BY <2>1, DownstreamOrder DEF OnPath
  <2> QED
    BY <2>1, <2>2 DEF OnPath
<1> QED
  BY <1>3, <1>4, <1>5

\* The step of the join passes both branches.
LEMMA JoinStep ==
  ASSUME sender \in Senders, NEW g \in sender.heads, NEW h \in sender.heads, g # h,
         NEW p \in Ops, KindOf(p) = "join"
  PROVE  /\ OnPath(h, To(p)) /\ KindOf(To(p)) # "join" /\ Beyond(To(p)) /\ ~ Beyond(p)
         /\ \A k \in Ops :
              /\ Passed(h, To(p), k) <=> Passed(h, p, k) \/ Passed(g, p, k) \/ k = p
              /\ Passed(h, p, k) \/ Passed(g, p, k) <=> p \in Downstream[k]
<1>1. PICK b \in Nat, j \in Nat :
         /\ Shape(b, j)
         /\ \A m \in Ops : Downstream[m] \subseteq Ops
         /\ \A m, n \in Ops : n \in Downstream[m] <=> m < n /\ ~(m < b /\ b <= n /\ n < j)
  BY Ways
<1>2. p = j /\ To(p) = p + 1 /\ To(p) \in Ops /\ p \in Ops
  BY <1>1, OpsType DEF Shape
<1>3. OnPath(h, To(p)) /\ KindOf(To(p)) # "join"
  BY <1>1, <1>2, OpsType DEF Shape, OnPath
<1>4. Beyond(To(p)) /\ ~ Beyond(p)
  BY <1>1, <1>2, OpsType DEF Shape, Beyond
<1>5. ASSUME NEW k \in Ops
      PROVE  /\ Passed(h, To(p), k) <=> Passed(h, p, k) \/ Passed(g, p, k) \/ k = p
             /\ Passed(h, p, k) \/ Passed(g, p, k) <=> p \in Downstream[k]
  BY <1>1, <1>2, OpsType DEF Shape, OnPath, Passed
<1> QED
  BY <1>3, <1>4, <1>5

\* Two signals meet the same receivers only from the join on.
LEMMA Apart ==
  ASSUME sender \in Senders, NEW g \in sender.heads, NEW h \in sender.heads, g # h,
         NEW p \in Ops, OnPath(h, p), KindOf(p) # "join",
         NEW q \in Ops, OnPath(g, q), NEW k \in Ops
  PROVE  /\ (k = p \/ k \in Downstream[p]) /\ Passed(g, q, k) => Beyond(q)
         /\ (k = p \/ p \in Downstream[k]) /\ (q = k \/ Passed(g, q, k)) => Beyond(p) \/ Beyond(q)
         /\ (q = p \/ q \in Downstream[p]) /\ KindOf(q) # "join" => Beyond(q)
<1>1. PICK b \in Nat, j \in Nat :
         /\ Shape(b, j)
         /\ \A m \in Ops : Downstream[m] \subseteq Ops
         /\ \A m, n \in Ops : n \in Downstream[m] <=> m < n /\ ~(m < b /\ b <= n /\ n < j)
  BY Ways
<1>2. /\ {g, h} = {1, b} /\ b # j /\ j \in Ops /\ 1 \in Ops /\ b \in Ops
      /\ Ops \subseteq Nat /\ \A i \in Ops : KindOf(i) = "join" <=> i = j
  BY <1>1, OpsType DEF Shape
<1>3. \A i \in Ops : Beyond(i) <=> i > j
  BY <1>1, <1>2 DEF Beyond, Shape
<1>4. p # j
  BY <1>2
<1> HIDE DEF Beyond
<1>5. (k = p \/ k \in Downstream[p]) /\ Passed(g, q, k) => Beyond(q)
  BY <1>1, <1>2, <1>3, <1>4 DEF OnPath, Passed, Shape
<1>6. (k = p \/ p \in Downstream[k]) /\ (q = k \/ Passed(g, q, k)) => Beyond(p) \/ Beyond(q)
  BY <1>1, <1>2, <1>3, <1>4 DEF OnPath, Passed, Shape
<1>7. (q = p \/ q \in Downstream[p]) /\ KindOf(q) # "join" => Beyond(q)
  BY <1>1, <1>2, <1>3, <1>4 DEF OnPath, Shape
<1> QED
  BY <1>5, <1>6, <1>7

-----------------------------------------------------------------------------
(***************************************************************************)
(* The parts of the invariant after a step.                                *)
(***************************************************************************)

\* What a receiver will meet is a matter of the sender alone.
LEMMA SameWays ==
  ASSUME sender' = sender
  PROVE  /\ \A h, p : OnPath(h, p)' <=> OnPath(h, p)
         /\ \A p : Beyond(p)' <=> Beyond(p)
         /\ \A k, p : MayFly(k, p)' <=> MayFly(k, p)
         /\ \A k, p : FencedFrom(p, k)' <=> FencedFrom(p, k)
         /\ ErrorsFenced' <=> ErrorsFenced
<1> USE SameSender
<1>1. \A h, p : OnPath(h, p)' <=> OnPath(h, p)
  BY DEF OnPath
<1>2. \A p : Beyond(p)' <=> Beyond(p)
  BY DEF Beyond, KindOf
<1>3. \A m : Fences(m)' <=> Fences(m)
  BY DEF Fences, KindOf, SkipContinuation, SkipScheduleFrom, Queryable, To, ExecOf
<1>4. \A k, p : MayFly(k, p)' <=> MayFly(k, p)
  BY <1>3 DEF MayFly, KindOf, ExecOf
<1>5. \A k, p : FencedFrom(p, k)' <=> FencedFrom(p, k)
  BY DEF FencedFrom, KindOf, ExecOf
<1>6. \A i : Raises(i)' <=> Raises(i)
  BY DEF Raises, KindOf
<1>7. ErrorsFenced' <=> ErrorsFenced
  BY <1>4, <1>5, <1>6 DEF ErrorsFenced, To
<1> QED
  BY <1>1, <1>2, <1>4, <1>5, <1>7

\* What a step makes of what depends on the signal of h.
LEMMA After ==
  ASSUME sender' = sender, NEW h
  PROVE  LET at  == signal'[h].at
             sig == signal'[h].sig
         IN  /\ Here(h)' = at /\ Sig(h)' = sig
             /\ Going(h)' <=> sig \in {"value", "executed"}
             /\ Swallowed(h)' <=> KindOf(at) = "join" /\ sig = "none"
             /\ Beyond(Here(h))' <=> Beyond(at)
             /\ OnPath(h, Here(h))' <=> OnPath(h, at)
             /\ KindOf(Here(h))' = KindOf(at)
             /\ \A k : Behind(h, k)' <=> Passed(h, at, k) \/ (at = k /\ sig = "executed")
             /\ \A k : Covers(h, k)' <=>
                  /\ Behind(h, k)'
                  /\ \/ sig \in {"value", "executed"} /\ (at = k \/ MayFly(k, at))
                     \/ sig = "error" /\ (ErrorsFenced => FencedFrom(at, k))
                     \/ /\ KindOf(at) = "join" /\ sig = "none" /\ joined' = 1
                        /\ MayFly(k, at) \/ (joinFails' /\ (ErrorsFenced => FencedFrom(at, k)))
<1> DEFINE at  == signal'[h].at
           sig == signal'[h].sig
<1>1. \A k : Behind(h, k)' <=> Passed(h, at, k) \/ (at = k /\ sig = "executed")
  BY SameSender DEF Behind, Passed, OnPath, KindOf, Here, Sig
<1>2. Swallowed(h)' <=> KindOf(at) = "join" /\ sig = "none"
  BY SameSender DEF Swallowed, KindOf, Here, Sig
<1>3. Going(h)' <=> sig \in {"value", "executed"}
  BY DEF Going, Sig
<1>4. Beyond(Here(h))' <=> Beyond(at)
  BY SameSender DEF Beyond, KindOf, Here
<1>5. OnPath(h, Here(h))' <=> OnPath(h, at)
  BY SameSender DEF OnPath, Here
<1>6. \A k : MayFly(k, Here(h))' <=> MayFly(k, at)
  BY SameSender DEF MayFly, Fences, KindOf, ExecOf, Here, SkipContinuation, SkipScheduleFrom, Queryable, To
<1>7. \A k : FencedFrom(Here(h), k)' <=> FencedFrom(at, k)
  BY SameSender DEF FencedFrom, KindOf, ExecOf, Here
<1>8. ErrorsFenced' <=> ErrorsFenced
  BY SameWays
<1>9. Here(h)' = at /\ Sig(h)' = sig /\ KindOf(Here(h))' = KindOf(at)
  BY DEF Here, Sig, KindOf
<1> HIDE DEF at, sig
<1>10. ASSUME NEW k
       PROVE  Covers(h, k)' <=>
                /\ Behind(h, k)'
                /\ \/ sig \in {"value", "executed"} /\ (at = k \/ MayFly(k, at))
                   \/ sig = "error" /\ (ErrorsFenced => FencedFrom(at, k))
                   \/ /\ KindOf(at) = "join" /\ sig = "none" /\ joined' = 1
                      /\ MayFly(k, at) \/ (joinFails' /\ (ErrorsFenced => FencedFrom(at, k)))
  BY <1>2, <1>3, <1>6, <1>7, <1>8, <1>9 DEF Covers
<1> QED
  BY <1>1, <1>2, <1>3, <1>4, <1>5, <1>9, <1>10 DEF at, sig

\* Only the signal that is at a receiver which is not the join has passed what
\* precedes it, or will pass what follows it.
LEMMA Exclusive ==
  ASSUME IInv, NEW h \in sender.heads, KindOf(Here(h)) # "join", Sig(h) # "none",
         NEW g \in sender.heads, NEW k \in Ops
  PROVE  /\ k \in Downstream[Here(h)] \/ (k = Here(h) /\ Sig(h) # "executed") => ~ Behind(g, k)
         /\ g # h /\ (k = Here(h) \/ Here(h) \in Downstream[k]) => ~ Covers(g, k)
         /\ g # h => ~ Beyond(Here(g))
         /\ g # h /\ KindOf(Here(g)) # "join" => Here(g) # Here(h) /\ Here(g) \notin Downstream[Here(h)]
<1> DEFINE p == Here(h)
           q == Here(g)
<1>1. sender \in Senders /\ p \in Ops /\ q \in Ops
  BY DEF IInv, TypeInv, Here
<1>2. OnPath(h, p) /\ OnPath(g, q)
  BY DEF IInv, HeadInv
<1>3. g # h => ~ Beyond(q)
  BY DEF IInv, JoinInv, Swallowed
<1>4. g # h /\ Beyond(p) => Swallowed(g) /\ joined = 2
  BY DEF IInv, JoinInv
<1>5. Sig(g) = "executed" => KindOf(q) = "stage"
  BY DEF IInv, HeadInv
<1> HIDE DEF p, q
<1>6. g # h /\ (k = p \/ k \in Downstream[p]) => ~ Behind(g, k)
  <2> SUFFICES ASSUME g # h, k = p \/ k \in Downstream[p], Behind(g, k)
               PROVE  FALSE
    OBVIOUS
  <2>1. ~ Passed(g, q, k)
    BY <1>1, <1>2, <1>3, Apart DEF p
  <2>2. q = k /\ KindOf(q) = "stage"
    BY <2>1, <1>5 DEF Behind, q
  <2> QED
    BY <2>2, <1>1, <1>2, <1>3, Apart DEF p
<1>7. k \in Downstream[p] \/ (k = p /\ Sig(h) # "executed") => ~ Behind(h, k)
  BY <1>1, DownstreamOrder DEF Behind, Passed, p
<1>8. g # h /\ (k = p \/ p \in Downstream[k]) => ~ Covers(g, k)
  <2> SUFFICES ASSUME g # h, k = p \/ p \in Downstream[k], Covers(g, k)
               PROVE  FALSE
    OBVIOUS
  <2>1. Passed(g, q, k) \/ q = k
    BY DEF Covers, Behind, q
  <2>2. Beyond(p)
    BY <2>1, <1>1, <1>2, <1>3, Apart DEF p
  <2>3. Swallowed(g) /\ joined = 2
    BY <2>2, <1>4
  <2> QED
    BY <2>3 DEF Covers, Swallowed, Going
<1>9. g # h /\ KindOf(q) # "join" => q # p /\ q \notin Downstream[p]
  BY <1>1, <1>2, <1>3, Apart DEF p
<1> QED
  BY <1>3, <1>6, <1>7, <1>8, <1>9 DEF p, q

\* The environment of a receiver that does not name an instance is that of the next.
LEMMA ExecEnvIs ==
  ASSUME sender \in Senders
  PROVE  \A i \in Ops :
           ExecEnv[i] = IF NamesInstance(sender.ops[i]) THEN ExecOf(i) ELSE ExecEnv[To(i)]
<1> DEFINE Names(m) == NamesInstance(sender.ops[m])
           From(i, m) == m = i \/ m \in Downstream[i]
           First(i) == {m \in Ops : From(i, m) /\ Names(m)
                                      /\ \A n \in Ops : From(i, n) /\ m \in Downstream[n] => ~ Names(n)}
           Pick(i) == CHOOSE m : m \in First(i)
           E(f) == [i \in Ops |-> IF Names(i) THEN sender.ops[i].exec ELSE f[sender.to[i]]]
           d == [i \in Ops |-> sender.ops[Pick(i)].exec]
<1>1. ASSUME NEW i \in Ops, Names(i)
      PROVE  First(i) = {i}
  BY <1>1, DownstreamOrder
<1>2. ASSUME NEW i \in Ops, ~ Names(i)
      PROVE  To(i) \in Ops /\ First(i) = First(To(i))
  <2>1. KindOf(i) # "sync_wait"
    BY <1>2 DEF NamesInstance, KindOf
  <2>2. To(i) \in Ops
    BY <2>1, DownstreamOrder
  <2>3. ASSUME NEW m \in Ops
        PROVE  From(i, m) <=> m = i \/ From(To(i), m)
    BY <2>1, DownstreamOrder
  <2> HIDE DEF From, Names
  <2>4. ASSUME NEW m \in Ops
        PROVE  m \in First(i) <=> m \in First(To(i))
    <3>1. i \notin Downstream[m] \/ ~ From(To(i), m)
      BY <2>1, <2>2, DownstreamOrder DEF From
    <3>2. From(i, m) /\ m # i => From(To(i), m)
      BY <2>3
    <3>3. \A n \in Ops : From(To(i), n) => From(i, n)
      BY <2>3
    <3>4. \A n \in Ops : From(i, n) => n = i \/ From(To(i), n)
      BY <2>3
    <3> QED
      BY <1>2, <3>2, <3>3, <3>4
  <2> QED
    BY <2>2, <2>4
<1> HIDE DEF First
<1>3. ASSUME NEW i \in Ops
      PROVE  d[i] = IF Names(i) THEN sender.ops[i].exec ELSE d[sender.to[i]]
  <2>1. CASE Names(i)
    <3>1. Pick(i) = i
      BY <1>1, <2>1
    <3> HIDE DEF Pick
    <3> QED
      BY <2>1, <3>1
  <2>2. CASE ~ Names(i)
    <3>1. sender.to[i] \in Ops /\ Pick(i) = Pick(sender.to[i])
      BY <1>2, <2>2 DEF To
    <3> HIDE DEF Pick
    <3> QED
      BY <2>2, <3>1
  <2> QED
    BY <2>1, <2>2
<1> HIDE DEF Pick
<1>4. d = E(d)
  BY <1>3
<1> DEFINE env == CHOOSE f : f = E(f)
<1> HIDE DEF d
<1>5. env = E(env)
  BY <1>4
<1>6. ExecEnv = env
  BY DEF ExecEnv, ExecEnvOf, Ops
<1> HIDE DEF env
<1> QED
  BY <1>5, <1>6 DEF ExecOf, To

\* What may be in flight at a receiver that does not fence it may be in flight at
\* the next one.
LEMMA FlyOn ==
  ASSUME sender \in Senders, NEW p \in Ops, KindOf(p) # "sync_wait",
         NEW k \in Ops, KindOf(k) = "stage",
         k = p \/ MayFly(k, p),
         ~ (Fences(p) /\ ExecOf(p) = ExecOf(k))
  PROVE  MayFly(k, To(p))
<1>1. To(p) \in Ops /\ To(p) \in Downstream[k]
  BY DownstreamOrder DEF MayFly
<1>2. ASSUME NEW m \in Ops, m = k \/ m \in Downstream[k], To(p) \in Downstream[m]
      PROVE  m = p \/ (p \in Downstream[m] /\ k # p)
  <2>1. PICK b \in Nat, j \in Nat :
           /\ Shape(b, j)
           /\ \A i \in Ops : Downstream[i] \subseteq Ops
           /\ \A i, n \in Ops : n \in Downstream[i] <=> i < n /\ ~(i < b /\ b <= n /\ n < j)
    BY Ways
  <2>2. k = p \/ p \in Downstream[k]
    BY DEF MayFly
  <2> QED
    BY <1>1, <1>2, <2>1, <2>2, OpsType DEF Shape
<1>3. ASSUME NEW m \in Ops, m = k \/ m \in Downstream[k], To(p) \in Downstream[m],
             ExecOf(m) = ExecOf(k)
      PROVE  ~ Fences(m)
  BY <1>2, <1>3 DEF MayFly
<1>4. ExecEnv[To(p)] = ExecOf(k)
  <2>1. CASE KindOf(p) = "stage"
    <3>1. ExecOf(p) = ExecOf(k)
      BY <2>1, ExecEnvIs DEF MayFly, NamesInstance, KindOf
    <3>2. Queryable(To(p))
      BY <2>1, <3>1 DEF Fences, SkipContinuation
    <3>3. ExecEnv[To(p)] \in {ExecOf(p), Host}
      BY <2>1, ExecAssumption DEF WellFormed, ExecEnv, KindOf, ExecOf, To, Ops
    <3> QED
      BY <3>1, <3>2, <3>3 DEF Queryable
  <2>2. CASE KindOf(p) = "schedule_from"
    <3>1. ExecOf(p) = ExecOf(k)
      BY <2>2, ExecEnvIs DEF MayFly, NamesInstance, KindOf
    <3> QED
      BY <2>2, <3>1 DEF Fences, SkipScheduleFrom
  <2>3. CASE KindOf(p) \notin {"stage", "schedule_from"}
    BY <2>3, ExecEnvIs DEF MayFly, NamesInstance, KindOf
  <2> QED
    BY <2>1, <2>2, <2>3
<1> QED
  BY <1>1, <1>3, <1>4 DEF MayFly

-----------------------------------------------------------------------------
(***************************************************************************)
(* A signal passes a receiver.                                             *)
(***************************************************************************)

\* One signal changes.
LEMMA OneSignal ==
  ASSUME IInv, NEW h \in sender.heads, NEW x,
         signal' = [signal EXCEPT ![h] = x]
  PROVE  signal'[h] = x /\ \A g \in sender.heads : g # h => signal'[g] = signal[g]
BY DEF IInv, TypeInv

\* The signals of the other heads stay where they are.
LEMMA Others ==
  ASSUME IInv, sender' = sender, joined' = joined, joinFails' = joinFails,
         NEW g \in sender.heads, signal'[g] = signal[g]
  PROVE  /\ \A k : (Behind(g, k)' <=> Behind(g, k)) /\ (Covers(g, k)' <=> Covers(g, k))
         /\ Going(g)' <=> Going(g)
         /\ Swallowed(g)' <=> Swallowed(g)
         /\ Brought(g)' <=> Brought(g)
         /\ Beyond(Here(g))' <=> Beyond(Here(g))
         /\ OnPath(g, Here(g))' <=> OnPath(g, Here(g))
<1>1. /\ \A k : Behind(g, k)' <=> Behind(g, k)
      /\ Going(g)' <=> Going(g)
      /\ Swallowed(g)' <=> Swallowed(g)
      /\ Beyond(Here(g))' <=> Beyond(Here(g))
      /\ OnPath(g, Here(g))' <=> OnPath(g, Here(g))
  BY After DEF Behind, Going, Swallowed, Here, Sig
<1>2. \A k : Covers(g, k)' <=> Covers(g, k)
  BY <1>1, After DEF Covers, Here, Sig
<1>3. Brought(g)' <=> Brought(g)
  BY <1>1 DEF Brought
<1> QED
  BY <1>1, <1>2, <1>3

\* The signal of h passes a receiver that is not the join, as sig.
Passes(h, sig) ==
  /\ KindOf(Here(h)) \notin {"join", "sync_wait"}
  /\ Sig(h) # "none"
  /\ sig \in {"value", "error", "stopped"}
  /\ sig = "stopped" => Sig(h) = "stopped"
  /\ Pass(h, sig)
  /\ UNCHANGED <<sender, round, joined, joinFails, outcome>>

\* The signal of h is at the next receiver, the others are where they were.
LEMMA PassesSignal ==
  ASSUME IInv, NEW h \in sender.heads, NEW sig, Passes(h, sig)
  PROVE  /\ Here(h) \in Ops /\ KindOf(Here(h)) \in {"stage", "host_stage", "schedule_from",
                                                   "continues_on", "transfer", "region"}
         /\ To(Here(h)) \in Ops /\ round > 0 /\ outcome = "pending"
         /\ signal'[h] = [at |-> To(Here(h)), sig |-> sig]
         /\ signal' \in [sender.heads ->
                           [at : Ops, sig : {"none", "value", "executed", "error", "stopped"}]]
         /\ Here(h)' = To(Here(h)) /\ Sig(h)' = sig /\ KindOf(Here(h))' = KindOf(To(Here(h)))
         /\ \A g \in sender.heads : g # h =>
              /\ signal'[g] = signal[g] /\ Here(g)' = Here(g) /\ Sig(g)' = Sig(g)
              /\ KindOf(Here(g))' = KindOf(Here(g))
         /\ \A g \in sender.heads : \A k \in Ops :
              Behind(g, k)' <=> Behind(g, k) \/ (g = h /\ k = Here(h))
         /\ HeadInv' /\ JoinInv'
<1> DEFINE p == Here(h)
<1>1. sender \in Senders /\ p \in Ops /\ OnPath(h, p) /\ sender' = sender
  BY DEF IInv, TypeInv, HeadInv, Here, Passes
<1>2. p \in Ops /\ KindOf(p) \in {"stage", "host_stage", "schedule_from",
                                  "continues_on", "transfer", "region"}
  BY <1>1, OpsType DEF Passes, Receiver, KindOf
<1>3. To(p) \in Ops
  BY <1>1, DownstreamOrder DEF Passes
<1>4. /\ signal'[h] = [at |-> To(p), sig |-> sig]
      /\ \A g \in sender.heads : g # h => signal'[g] = signal[g]
  BY OneSignal DEF Passes, Pass, Here, To
<1>5. signal' \in [sender.heads ->
                     [at : Ops, sig : {"none", "value", "executed", "error", "stopped"}]]
  BY <1>3 DEF IInv, TypeInv, Passes, Pass, Here, To
<1>6. round > 0 /\ outcome = "pending"
  BY <1>1, OpsType DEF IInv, TypeInv, HeadInv, Passes
<1> HIDE DEF p
<1>7. ASSUME NEW g \in sender.heads, NEW k \in Ops
      PROVE  Behind(g, k)' <=> Behind(g, k) \/ (g = h /\ k = p)
  <2>1. CASE g = h
    BY <2>1, <1>1, <1>4, OneStep, After DEF Passes, Behind, p
  <2>2. CASE g # h
    BY <2>2, <1>1, <1>4, After DEF Behind, Here, Sig
  <2> QED
    BY <2>1, <2>2
<1>8. HeadInv'
  <2> SUFFICES ASSUME NEW g \in sender.heads
               PROVE  /\ OnPath(g, Here(g))'
                      /\ Sig(g)' = "executed" => KindOf(Here(g))' = "stage"
                      /\ Sig(g)' = "stopped" => joinFails \/ sender.starts = "stopped"
                      /\ outcome # "pending" => Sig(g)' = "none"
                      /\ Sig(g)' = "none" => KindOf(Here(g))' \in {"join", "sync_wait"}
    BY <1>1, <1>6 DEF HeadInv, Passes
  <2>1. CASE g = h
    BY <2>1, <1>1, <1>4, <1>6, OneStep, After DEF Passes, Sig, Here, HeadInv, IInv, p
  <2>2. CASE g # h
    BY <2>2, <1>1, <1>4, <1>6, After DEF IInv, HeadInv, KindOf, Sig, Here
  <2> QED
    BY <2>1, <2>2
<1>9. JoinInv'
  <2>1. \A g \in sender.heads : Swallowed(g)' <=> Swallowed(g)
    <3> TAKE g \in sender.heads
    <3>1. CASE g = h
      BY <3>1, <1>1, <1>4, After DEF Passes, Swallowed, p
    <3>2. CASE g # h
      BY <3>2, <1>1, <1>4, After DEF Swallowed, Here, Sig
    <3> QED
      BY <3>1, <3>2
  <2>2. \A g \in sender.heads : Beyond(Here(g))' <=> Beyond(Here(g))
    <3> TAKE g \in sender.heads
    <3>1. CASE g = h
      BY <3>1, <1>1, <1>4, OneStep, After DEF Passes, p
    <3>2. CASE g # h
      BY <3>2, <1>1, <1>4, After DEF Here
    <3> QED
      BY <3>1, <3>2
  <2> QED
    BY <1>1, <1>6, <2>1, <2>2 DEF IInv, JoinInv, Passes
<1>10. /\ Here(h)' = To(p) /\ Sig(h)' = sig /\ KindOf(Here(h))' = KindOf(To(p))
       /\ \A g \in sender.heads : g # h =>
            /\ Here(g)' = Here(g) /\ Sig(g)' = Sig(g) /\ KindOf(Here(g))' = KindOf(Here(g))
  BY <1>1, <1>4 DEF Here, Sig, KindOf
<1> QED
  BY <1>2, <1>3, <1>4, <1>5, <1>6, <1>7, <1>8, <1>9, <1>10 DEF p

\* A stage in flight is enqueued on its instance, which does not pass a fence.
LEMMA Flying ==
  ASSUME IInv, NEW k, InFlight(k)
  PROVE  /\ k \in Ops /\ k \in StageOps /\ KindOf(k) = "stage"
         /\ ExecOf(k) \in Execs /\ \E n \in DOMAIN queue[ExecOf(k)] : queue[ExecOf(k)][n] = k
         /\ ~ Fenced(ExecOf(k))
<1>1. PICK e \in Execs : \E n \in DOMAIN queue[e] : queue[e][n] = k
  BY DEF InFlight
<1>2. KindOf(k) = "stage" /\ ExecOf(k) = e /\ queue[e] \in Seq(Ops)
  BY <1>1 DEF IInv, TypeInv
<1>3. k \in Ops
  BY <1>1, <1>2, ElementOfSeq, LenProperties
<1>4. queue[e] # <<>>
  BY <1>1, <1>2, EmptySeq, LenProperties
<1>5. e # Host
  BY ExecAssumption
<1> QED
  BY <1>1, <1>2, <1>3, <1>4, <1>5 DEF StageOps, Fenced

\* While a signal is on its way no other one has come out of sync_wait.
LEMMA NoneOver ==
  ASSUME IInv, NEW h \in sender.heads, Sig(h) # "none", NEW g \in sender.heads
  PROVE  ~ (KindOf(Here(g)) = "sync_wait" /\ Sig(g) = "none")
<1> SUFFICES ASSUME KindOf(Here(g)) = "sync_wait", Sig(g) = "none"
             PROVE  FALSE
  OBVIOUS
<1>1. g # h /\ sender \in Senders /\ Here(g) \in Ops
  BY DEF IInv, TypeInv, Here
<1>2. PICK j \in Ops : KindOf(j) = "join"
  BY <1>1, Heads
<1>3. Here(g) \in Downstream[j]
  BY <1>1, <1>2, DownstreamOrder
<1>4. Swallowed(h)
  BY <1>1, <1>2, <1>3 DEF IInv, JoinInv, Beyond
<1> QED
  BY <1>4 DEF Swallowed

\* A stage that no signal has passed has not been launched.
LEMMA NotYet ==
  ASSUME IInv, NEW h \in sender.heads, KindOf(Here(h)) \in {"stage", "host_stage"},
         Sig(h) = "value"
  PROVE  /\ Here(h) \in StageOps /\ round > 0
         /\ ~ Launched(Here(h)) /\ ~ InFlight(Here(h)) /\ runs[Here(h)] = round - 1
<1>1. Here(h) \in StageOps /\ Here(h) \in Ops
  BY DEF IInv, TypeInv, Here, StageOps
<1>2. round > 0
  BY OpsType DEF IInv, TypeInv, HeadInv
<1>3. ~ Launched(Here(h))
  BY <1>1, Exclusive DEF IInv, LaunchInv
<1> QED
  BY <1>1, <1>2, <1>3 DEF Launched, IInv, CountInv

\* Continue, ScheduleFrom, ContinuesOn, Region and Forward: nothing but the signal
\* changes, and what the receiver fences is not in flight.
Moves(h) ==
  /\ Passes(h, IF Sig(h) = "executed" THEN "value" ELSE Sig(h))
  /\ Sig(h) = "value" => KindOf(Here(h)) \notin {"stage", "host_stage"}
  /\ (Going(h) /\ Fences(Here(h))) \/ KindOf(Here(h)) = "region" => Fenced(ExecOf(Here(h)))
  /\ UNCHANGED <<queue, runs, failed>>

\* A signal that moves on is still the record of who threw,
LEMMA MovesFail ==
  ASSUME IInv, NEW h \in sender.heads, Moves(h)
  PROVE  FailInv'
<1> DEFINE p   == Here(h)
           sig == IF Sig(h) = "executed" THEN "value" ELSE Sig(h)
<1>1. Passes(h, sig) /\ sender \in Senders
  BY DEF Moves, IInv, TypeInv
<1>2. failed' = failed /\ sender' = sender /\ joined' = joined /\ joinFails' = joinFails
      /\ outcome' = outcome /\ outcome = "pending"
  BY <1>1, PassesSignal DEF Moves, Passes
<1>3. \A g \in sender.heads : Sig(g)' = "error" <=> Sig(g) = "error"
  <2> TAKE g \in sender.heads
  <2>1. CASE g = h
    <3>1. sig = "error" <=> Sig(g) = "error"
      BY <2>1
    <3> HIDE DEF sig
    <3>2. Sig(g)' = sig
      BY <2>1, <1>1, PassesSignal DEF Sig
    <3> QED
      BY <3>1, <3>2
  <2>2. CASE g # h
    BY <2>2, <1>1, PassesSignal DEF Sig
  <2> QED
    BY <2>1, <2>2
<1>4. \A f \in failed : f \in Ops /\ \E g \in sender.heads : Behind(g, f)
  BY DEF IInv, TypeInv, FailInv, StageOps
<1>5. \A f \in failed : \E g \in sender.heads : Behind(g, f)'
  BY <1>1, <1>4, PassesSignal
<1>6. ASSUME NEW g \in sender.heads, NEW f \in failed, Going(g)', KindOf(Here(g))' # "join"
      PROVE  Here(g)' # f /\ Here(g)' \notin Downstream[f]
  <2>1. CASE g # h
    <3>1. Here(g)' = Here(g) /\ Going(g) /\ KindOf(Here(g)) # "join"
      BY <2>1, <1>1, <1>2, <1>6, PassesSignal DEF Here, KindOf, Going, Sig
    <3> QED
      BY <3>1 DEF IInv, FailInv
  <2>2. CASE g = h
    <3>1. Here(g)' = To(p) /\ KindOf(To(p)) # "join" /\ Sig(g)' = sig
      BY <2>2, <1>1, <1>6, PassesSignal
    <3>2. Going(h)
      BY <2>2, <3>1, <1>6 DEF Going
    <3>3. f # p /\ p \notin Downstream[f] /\ p \in Ops /\ KindOf(p) \notin {"join", "sync_wait"}
      BY <1>1, <3>2, PassesSignal DEF IInv, FailInv, Passes
    <3>4. To(p) \notin Downstream[f]
      BY <1>1, <1>4, <3>1, <3>3, OneStep DEF Passed, IInv, HeadInv
    <3>5. To(p) \in Downstream[p]
      BY <1>1, <3>3, DownstreamOrder
    <3>6. f # To(p)
      BY <1>1, <1>4, <3>5, Exclusive DEF Passes
    <3> QED
      BY <3>1, <3>4, <3>6
  <2> QED
    BY <2>1, <2>2
<1>7. /\ \A f \in failed : sender.ops[f].throws
      /\ failed # {} <=> joinFails \/ outcome = "threw" \/ \E g \in sender.heads : Sig(g)' = "error"
      /\ joinFails /\ joined = 2 => outcome = "threw" \/ \E g \in sender.heads : Sig(g)' = "error"
  BY <1>3 DEF IInv, FailInv
<1> HIDE DEF p, sig
<1> QED
  BY <1>2, <1>5, <1>6, <1>7, SameSender DEF FailInv

\* What is enqueued and has run stays the same.
LEMMA SameWork ==
  ASSUME IInv, UNCHANGED <<sender, round, runs, queue>>
  PROVE  /\ \A k : (InFlight(k)' <=> InFlight(k)) /\ (Launched(k)' <=> Launched(k))
         /\ OrderInv'
<1>1. \A k : InFlight(k)' <=> InFlight(k)
  BY DEF InFlight
<1>2. \A k : Launched(k)' <=> Launched(k)
  BY <1>1 DEF Launched
<1>3. OrderInv'
  BY <1>1, SameSender DEF IInv, OrderInv, ExecOf
<1> QED
  BY <1>1, <1>2, <1>3

\* No signal comes out of sync_wait in a step that one of them begins and ends on its way.
LEMMA StillNoneOver ==
  ASSUME IInv, sender' = sender, NEW h \in sender.heads, Sig(h) # "none",
         ~ (KindOf(signal'[h].at) = "sync_wait" /\ signal'[h].sig = "none"),
         \A g \in sender.heads : g # h => signal'[g] = signal[g]
  PROVE  \A g \in sender.heads : ~ (KindOf(Here(g))' = "sync_wait" /\ Sig(g)' = "none")
<1> TAKE g \in sender.heads
<1>1. CASE g = h
  BY <1>1, After DEF KindOf, Here, Sig
<1>2. CASE g # h
  BY <1>2, NoneOver DEF KindOf, Here, Sig
<1> QED
  BY <1>1, <1>2

\* has passed no stage that was not launched,
LEMMA MovesLaunch ==
  ASSUME IInv, NEW h \in sender.heads, Moves(h)
  PROVE  LaunchInv'
<1> DEFINE p   == Here(h)
           sig == IF Sig(h) = "executed" THEN "value" ELSE Sig(h)
<1>1. Passes(h, sig) /\ sender \in Senders
  BY DEF Moves, IInv, TypeInv
<1>2. /\ sender' = sender /\ round' = round /\ joined' = joined /\ joinFails' = joinFails
      /\ queue' = queue /\ runs' = runs /\ failed' = failed
  BY <1>1 DEF Moves, Passes
<1>3. StageOps \subseteq Ops /\ StageOps' = StageOps /\ Downstream' = Downstream
  BY <1>2, SameSender DEF StageOps
<1>4. \A k : Launched(k)' <=> Launched(k)
  BY <1>2, SameWork
<1>5. \A k \in StageOps : Launched(k)' => \E g \in sender.heads : Behind(g, k)'
  BY <1>1, <1>3, <1>4, PassesSignal DEF IInv, LaunchInv
<1>6. ASSUME NEW k \in StageOps, NEW g \in sender.heads, (Going(g) \/ Brought(g))', Behind(g, k)'
      PROVE  Launched(k)
  <2>1. CASE g # h
    BY <2>1, <1>1, <1>2, <1>6, PassesSignal, Others DEF IInv, LaunchInv
  <2>2. CASE g = h
    <3>1. Going(h)
      <4>0. signal'[h] = [at |-> To(p), sig |-> sig]
        BY <1>1, PassesSignal
      <4> HIDE DEF sig
      <4>1. signal'[g].sig = sig
        BY <2>2, <4>0
      <4>2. sig # "none"
        BY <1>1 DEF Passes
      <4>3. sig \in {"value", "executed"}
        BY <4>1, <4>2, <1>6 DEF Going, Brought, Swallowed, Sig
      <4> QED
        BY <4>3 DEF Going, sig
    <3>2. Behind(h, k)
      <4>1. Behind(h, k) \/ k = p
        BY <2>2, <1>1, <1>3, <1>6, PassesSignal
      <4>2. k = p => Sig(h) = "executed"
        BY <3>1 DEF Moves, Going, StageOps
      <4> QED
        BY <4>1, <4>2 DEF Behind
    <3> QED
      BY <3>1, <3>2 DEF IInv, LaunchInv
  <2> QED
    BY <2>1, <2>2
<1> HIDE DEF p, sig
<1> QED
  BY <1>2, <1>3, <1>4, <1>5, <1>6 DEF IInv, LaunchInv

\* and still has before it the fence of what is in flight.
LEMMA MovesCover ==
  ASSUME IInv, NEW h \in sender.heads, Moves(h)
  PROVE  CoverInv'
<1> DEFINE p   == Here(h)
           sig == IF Sig(h) = "executed" THEN "value" ELSE Sig(h)
<1>1. Passes(h, sig) /\ sender \in Senders /\ outcome = "pending"
  BY PassesSignal DEF Moves, IInv, TypeInv
<1>2. /\ UNCHANGED <<sender, round, queue, runs>>
      /\ joined' = joined /\ joinFails' = joinFails /\ outcome' = outcome
  BY <1>1 DEF Moves, Passes
<1>3. ASSUME NEW k \in Ops, InFlight(k)
      PROVE  \E g \in sender.heads : Covers(g, k)'
  <2>1. PICK g \in sender.heads : Covers(g, k)
    BY <1>1, <1>3 DEF IInv, CoverInv
  <2>2. CASE g # h
    BY <2>1, <2>2, <1>1, <1>2, PassesSignal, Others
  <2>3. CASE g = h
    <3>1. KindOf(k) = "stage" /\ ~ Fenced(ExecOf(k))
      BY <1>3, Flying
    <3>2. /\ p \in Ops /\ KindOf(p) \notin {"join", "sync_wait"} /\ To(p) \in Ops
          /\ signal'[h] = [at |-> To(p), sig |-> sig]
          /\ Behind(h, k)'
      BY <2>1, <2>3, <1>1, PassesSignal DEF Covers, Passes
    <3>3. CASE Going(h)
      <4>1. sig = "value"
        BY <3>3 DEF Going
      <4>2. ~ (Fences(p) /\ ExecOf(p) = ExecOf(k))
        BY <3>1, <3>3 DEF Moves
      <4>3. k = p \/ MayFly(k, p)
        BY <2>1, <2>3, <3>3 DEF Covers, Going, Swallowed
      <4>4. MayFly(k, To(p))
        BY <1>1, <3>1, <3>2, <4>2, <4>3, FlyOn
      <4> QED
        BY <1>2, <3>2, <4>1, <4>4, After
    <3>4. CASE Sig(h) = "error"
      <4>1. sig = "error" /\ (ErrorsFenced => FencedFrom(p, k))
        BY <2>1, <2>3, <3>4 DEF Covers, Going, Swallowed
      <4>2. ~ (KindOf(p) = "region" /\ ExecOf(p) = ExecOf(k))
        BY <3>1 DEF Moves
      <4>3. FencedFrom(p, k) => FencedFrom(To(p), k)
        BY <1>1, <3>2, <4>2, DownstreamOrder DEF FencedFrom
      <4> QED
        BY <1>2, <3>2, <4>1, <4>3, After
    <3>5. Going(h) \/ Sig(h) = "error"
      BY <2>1, <2>3, <3>2 DEF Covers, Swallowed
    <3> QED
      BY <3>3, <3>4, <3>5
  <2> QED
    BY <2>2, <2>3
<1>4. \A k : InFlight(k)' <=> InFlight(k)
  BY <1>2, SameWork
<1> HIDE DEF p, sig
<1> QED
  BY <1>1, <1>2, <1>3, <1>4, SameSender DEF CoverInv

\* The steps in which a signal passes a receiver, and neither a stage runs nor throws.
LEMMA MovesInv ==
  ASSUME IInv, NEW h \in sender.heads, Moves(h)
  PROVE  IInv'
<1> DEFINE sig == IF Sig(h) = "executed" THEN "value" ELSE Sig(h)
<1>1. Passes(h, sig) /\ UNCHANGED <<queue, runs, failed>>
  BY DEF Moves
<1>2. UNCHANGED <<sender, round, joined, joinFails, outcome>> /\ outcome = "pending" /\ sig # "none"
  BY <1>1, PassesSignal DEF Passes
<1>3. TypeInv'
  <2>1. signal' \in [sender.heads ->
                       [at : Ops, sig : {"none", "value", "executed", "error", "stopped"}]]
    BY <1>1, PassesSignal
  <2> HIDE DEF sig
  <2> QED
    BY <1>1, <1>2, <2>1, SameSender DEF IInv, TypeInv, KindOf, ExecOf
<1>4. CountInv'
  <2>1. \A k : InFlight(k)' <=> InFlight(k)
    BY <1>1, <1>2, SameWork
  <2>0. /\ signal'[h] = [at |-> To(Here(h)), sig |-> sig]
        /\ \A g \in sender.heads : g # h => signal'[g] = signal[g]
    BY <1>1, PassesSignal
  <2> HIDE DEF sig
  <2>2. signal'[h].sig = sig /\ \A g \in sender.heads : g # h => signal'[g] = signal[g]
    BY <2>0
  <2>3. \A g \in sender.heads : ~ (KindOf(Here(g))' = "sync_wait" /\ Sig(g)' = "none")
    <3>1. sender' = sender /\ Sig(h) # "none" /\ signal'[h].sig # "none"
      BY <1>1, <1>2, <2>2 DEF Passes
    <3> QED
      BY <3>1, <2>2, StillNoneOver
  <2> QED
    BY <1>1, <1>2, <2>1, <2>3, SameSender DEF IInv, CountInv
<1> QED
  BY <1>1, <1>2, <1>3, <1>4, PassesSignal, SameWork, MovesFail, MovesLaunch, MovesCover DEF IInv

\* A stage throws.
LEMMA ThrowInv ==
  ASSUME IInv, NEW h \in sender.heads, Throw(h)
  PROVE  IInv'
<1> DEFINE p == Here(h)
<1>1. /\ KindOf(p) \in {"stage", "host_stage"} /\ Sig(h) = "value" /\ sender.ops[p].throws
      /\ failed' = failed \cup {p}
      /\ UNCHANGED <<sender, round, queue, runs, joined, joinFails, outcome>>
      /\ sender \in Senders
  BY DEF Throw, At, Here, Sig, IInv, TypeInv, KindOf
<1>2. Passes(h, "error")
  BY <1>1 DEF Throw, Passes
<1>3. /\ p \in Ops /\ p \in StageOps /\ ~ Launched(p) /\ outcome = "pending" /\ round > 0
      /\ KindOf(p) \notin {"join", "sync_wait"}
  BY <1>1, <1>2, NotYet, PassesSignal DEF StageOps
<1>4. /\ signal'[h] = [at |-> To(p), sig |-> "error"]
      /\ \A g \in sender.heads : g # h => signal'[g] = signal[g]
      /\ \A g \in sender.heads : \A k \in Ops : Behind(g, k)' <=> Behind(g, k) \/ (g = h /\ k = p)
      /\ HeadInv' /\ JoinInv'
  BY <1>2, PassesSignal
<1>5. /\ \A k : (InFlight(k)' <=> InFlight(k)) /\ (Launched(k)' <=> Launched(k))
      /\ OrderInv' /\ StageOps' = StageOps /\ StageOps \subseteq Ops /\ Downstream' = Downstream
  BY <1>1, SameWork, SameSender DEF StageOps
<1>6. ~ Going(h)' /\ ~ Brought(h)' /\ Sig(h)' = "error"
  BY <1>1, <1>4, After DEF Brought
<1>7. \A g \in sender.heads : g # h =>
        /\ (Going(g)' <=> Going(g)) /\ (Brought(g)' <=> Brought(g))
        /\ Here(g)' = Here(g) /\ KindOf(Here(g))' = KindOf(Here(g))
        /\ \A k \in Ops : Covers(g, k)' <=> Covers(g, k)
  BY <1>1, <1>4, Others DEF Here, KindOf
<1> HIDE DEF p
<1>8. TypeInv'
  <2>1. signal' \in [sender.heads ->
                       [at : Ops, sig : {"none", "value", "executed", "error", "stopped"}]]
    BY <1>2, PassesSignal
  <2> QED
    BY <1>1, <1>3, <2>1, SameSender DEF IInv, TypeInv, KindOf, ExecOf
<1>9. FailInv'
  <2>1. ASSUME NEW f \in failed'
        PROVE  sender.ops[f].throws /\ \E g \in sender.heads : Behind(g, f)'
    BY <1>1, <1>3, <1>4, <1>5, <2>1 DEF IInv, FailInv, TypeInv
  <2>2. ASSUME NEW g \in sender.heads, NEW f \in failed', Going(g)', KindOf(Here(g))' # "join"
        PROVE  Here(g)' # f /\ Here(g)' \notin Downstream[f]
    <3>1. g # h /\ Going(g) /\ KindOf(Here(g)) # "join" /\ Here(g)' = Here(g)
      BY <1>6, <1>7, <2>2
    <3>2. CASE f \in failed
      BY <3>1, <3>2 DEF IInv, FailInv
    <3>3. CASE f = p
      BY <1>1, <1>3, <3>1, <3>3, Exclusive DEF p
    <3> QED
      BY <1>1, <3>2, <3>3
  <2> QED
    BY <1>1, <1>3, <1>6, <2>1, <2>2, SameSender DEF FailInv
<1>10. LaunchInv'
  <2>1. \A k \in StageOps : Launched(k)' => \E g \in sender.heads : Behind(g, k)'
    BY <1>4, <1>5 DEF IInv, LaunchInv
  <2>2. \A k \in StageOps, g \in sender.heads : (Going(g) \/ Brought(g))' /\ Behind(g, k)' => Launched(k)'
    BY <1>4, <1>5, <1>6, <1>7 DEF IInv, LaunchInv
  <2>3. ASSUME NEW f \in failed', NEW k \in StageOps, k = f \/ k \in Downstream[f]
        PROVE  ~ Launched(k)
    <3>1. CASE f \in failed
      BY <2>3, <3>1 DEF IInv, LaunchInv
    <3>2. CASE f = p
      <4>1. \A g \in sender.heads : ~ Behind(g, k)
        BY <1>1, <1>3, <1>5, <2>3, <3>2, Exclusive DEF p
      <4> QED
        BY <4>1 DEF IInv, LaunchInv
    <3> QED
      BY <1>1, <3>1, <3>2
  <2> QED
    BY <1>1, <1>5, <2>1, <2>2, <2>3 DEF IInv, LaunchInv
<1>11. CountInv'
  <2>1. \A g \in sender.heads : ~ (KindOf(Here(g))' = "sync_wait" /\ Sig(g)' = "none")
    BY <1>1, <1>4, StillNoneOver
  <2> QED
    BY <1>1, <1>3, <1>5, <2>1 DEF IInv, CountInv
<1>12. CoverInv'
  <2>1. ASSUME NEW k \in Ops, InFlight(k)
        PROVE  \E g \in sender.heads : Covers(g, k)'
    <3>1. PICK g \in sender.heads : Covers(g, k)
      BY <1>3, <2>1 DEF IInv, CoverInv
    <3>2. CASE g # h
      BY <1>7, <3>1, <3>2
    <3>3. CASE g = h
      <4>1. MayFly(k, p)
        <5>1. k # p
          BY <1>1, <1>3, <3>1, <3>3, Exclusive DEF Covers, p
        <5> QED
          BY <1>1, <3>1, <3>3, <5>1 DEF Covers, Swallowed, p
      <4>2. ErrorsFenced => FencedFrom(To(p), k)
        BY <1>1, <1>3, <4>1 DEF ErrorsFenced, Raises
      <4>3. Behind(h, k)'
        BY <1>4, <3>1, <3>3 DEF Covers
      <4> QED
        BY <1>1, <1>4, <4>2, <4>3, After
    <3> QED
      BY <3>2, <3>3
  <2> QED
    BY <1>1, <1>3, <1>5, <2>1, SameSender DEF CoverInv
<1> QED
  BY <1>4, <1>5, <1>8, <1>9, <1>10, <1>11, <1>12 DEF IInv

\* A host thread runs a stage.
LEMMA HostStageInv ==
  ASSUME IInv, NEW h \in sender.heads, HostStage(h)
  PROVE  IInv'
<1> DEFINE p == Here(h)
<1>1. /\ KindOf(p) = "host_stage" /\ Sig(h) = "value" /\ Going(h)
      /\ runs' = [runs EXCEPT ![p] = @ + 1]
      /\ UNCHANGED <<sender, round, queue, failed, joined, joinFails, outcome>>
      /\ sender \in Senders
  BY DEF HostStage, At, Here, Sig, IInv, TypeInv, KindOf, Going
<1>2. Passes(h, "value")
  BY <1>1 DEF HostStage, Passes
<1>3. /\ p \in Ops /\ p \in StageOps /\ outcome = "pending" /\ round > 0
      /\ ~ Launched(p) /\ ~ InFlight(p) /\ runs[p] = round - 1
      /\ KindOf(p) \notin {"join", "sync_wait"} /\ To(p) \in Ops
  BY <1>1, <1>2, NotYet, PassesSignal DEF StageOps
<1>4. /\ signal'[h] = [at |-> To(p), sig |-> "value"]
      /\ \A g \in sender.heads : g # h => signal'[g] = signal[g]
      /\ \A g \in sender.heads : \A k \in Ops : Behind(g, k)' <=> Behind(g, k) \/ (g = h /\ k = p)
      /\ HeadInv' /\ JoinInv'
  BY <1>2, PassesSignal
<1>5. StageOps' = StageOps /\ StageOps \subseteq Ops /\ Downstream' = Downstream
  BY <1>1, SameSender DEF StageOps
<1>6. /\ \A k \in StageOps : runs'[k] = IF k = p THEN round ELSE runs[k]
      /\ runs' \in [StageOps -> Nat]
      /\ round \in Nat
  BY <1>1, <1>3, OpsType DEF IInv, TypeInv
<1>7. \A k : InFlight(k)' <=> InFlight(k)
  BY <1>1 DEF InFlight
<1>8. \A k \in StageOps : Launched(k)' <=> Launched(k) \/ k = p
  BY <1>1, <1>3, <1>6, <1>7 DEF Launched
<1>9. \A g \in sender.heads : g # h =>
        /\ (Going(g)' <=> Going(g)) /\ (Brought(g)' <=> Brought(g))
        /\ Here(g)' = Here(g) /\ KindOf(Here(g))' = KindOf(Here(g))
        /\ \A k \in Ops : Covers(g, k)' <=> Covers(g, k)
  BY <1>1, <1>4, Others DEF Here, KindOf
<1> HIDE DEF p
<1>10. TypeInv'
  <2>1. signal' \in [sender.heads ->
                       [at : Ops, sig : {"none", "value", "executed", "error", "stopped"}]]
    BY <1>2, PassesSignal
  <2> QED
    BY <1>1, <1>3, <1>6, <2>1, SameSender DEF IInv, TypeInv, KindOf, ExecOf
<1>11. FailInv'
  <2>1. \A g \in sender.heads : Sig(g)' = "error" <=> Sig(g) = "error"
    <3> TAKE g \in sender.heads
    <3>1. CASE g = h
      BY <3>1, <1>1, <1>4 DEF Sig
    <3>2. CASE g # h
      BY <3>2, <1>4 DEF Sig
    <3> QED
      BY <3>1, <3>2
  <2>2. \A f \in failed : \E g \in sender.heads : Behind(g, f)'
    BY <1>4, <1>5 DEF IInv, FailInv, TypeInv
  <2>3. ASSUME NEW g \in sender.heads, NEW f \in failed, Going(g)', KindOf(Here(g))' # "join"
        PROVE  Here(g)' # f /\ Here(g)' \notin Downstream[f]
    <3>1. CASE g # h
      BY <1>9, <2>3, <3>1 DEF IInv, FailInv
    <3>2. CASE g = h
      <4>1. Here(g)' = To(p) /\ KindOf(To(p)) # "join"
        BY <1>1, <1>4, <2>3, <3>2, After
      <4>2. f # p /\ p \notin Downstream[f] /\ f \in Ops
        BY <1>1, <1>3, <1>5 DEF IInv, FailInv, TypeInv, p
      <4>3. To(p) \notin Downstream[f]
        BY <1>1, <1>3, <4>1, <4>2, OneStep DEF Passed, IInv, HeadInv, p
      <4>4. To(p) \in Downstream[p] /\ \E x \in sender.heads : Behind(x, f)
        BY <1>1, <1>3, DownstreamOrder DEF IInv, FailInv
      <4>5. f # To(p)
        BY <1>1, <1>3, <4>2, <4>4, Exclusive DEF p
      <4> QED
        BY <4>1, <4>3, <4>5
    <3> QED
      BY <3>1, <3>2
  <2>4. /\ \A f \in failed : sender.ops[f].throws
        /\ failed # {} <=> joinFails \/ outcome = "threw" \/ \E g \in sender.heads : Sig(g)' = "error"
        /\ joinFails /\ joined = 2 => outcome = "threw" \/ \E g \in sender.heads : Sig(g)' = "error"
    BY <2>1 DEF IInv, FailInv
  <2> QED
    BY <1>1, <1>3, <2>2, <2>3, <2>4, SameSender DEF FailInv
<1>12. LaunchInv'
  <2>1. \A k \in StageOps : Launched(k)' => \E g \in sender.heads : Behind(g, k)'
    BY <1>3, <1>4, <1>5, <1>8 DEF IInv, LaunchInv
  <2>2. \A k \in StageOps, g \in sender.heads : (Going(g) \/ Brought(g))' /\ Behind(g, k)' => Launched(k)'
    BY <1>1, <1>4, <1>5, <1>8, <1>9 DEF IInv, LaunchInv
  <2>3. ASSUME NEW k \in StageOps, NEW t \in StageOps, Launched(k)', k \in Downstream[t]
        PROVE  Launched(t)'
    <3>1. CASE k = p
      <4>1. Behind(h, t)
        BY <1>3, <2>3, <3>1 DEF Behind, Passed, p
      <4> QED
        BY <1>1, <1>8, <4>1 DEF IInv, LaunchInv
    <3>2. CASE k # p
      BY <1>8, <2>3, <3>2 DEF IInv, LaunchInv
    <3> QED
      BY <3>1, <3>2
  <2>4. \A f \in failed, k \in StageOps : k = f \/ k \in Downstream[f] => ~ Launched(k)'
    <3>1. \A f \in failed : p # f /\ p \notin Downstream[f]
      BY <1>1, <1>3 DEF IInv, FailInv, p
    <3> QED
      BY <1>8, <3>1 DEF IInv, LaunchInv
  <2> QED
    BY <1>1, <1>5, <2>1, <2>2, <2>3, <2>4 DEF LaunchInv
<1>13. CountInv'
  <2>1. \A g \in sender.heads : ~ (KindOf(Here(g))' = "sync_wait" /\ Sig(g)' = "none")
    BY <1>1, <1>4, StillNoneOver
  <2> QED
    BY <1>1, <1>3, <1>5, <1>6, <1>7, <2>1 DEF IInv, CountInv
<1>14. CoverInv'
  <2>1. ASSUME NEW k \in Ops, InFlight(k)
        PROVE  \E g \in sender.heads : Covers(g, k)'
    <3>1. PICK g \in sender.heads : Covers(g, k)
      BY <1>3, <2>1 DEF IInv, CoverInv
    <3>2. CASE g # h
      BY <1>9, <3>1, <3>2
    <3>3. CASE g = h
      <4>1. k # p /\ KindOf(k) = "stage"
        BY <1>3, <2>1, Flying
      <4>2. MayFly(k, p)
        BY <1>1, <3>1, <3>3, <4>1 DEF Covers, Swallowed, p
      <4>3. MayFly(k, To(p))
        BY <1>1, <1>3, <4>1, <4>2, FlyOn DEF Fences
      <4>4. Behind(h, k)'
        BY <1>4, <3>1, <3>3 DEF Covers
      <4> QED
        BY <1>1, <1>4, <4>3, <4>4, After
    <3> QED
      BY <3>2, <3>3
  <2> QED
    BY <1>1, <1>3, <1>7, <2>1, SameSender DEF CoverInv
<1>15. OrderInv'
  BY <1>1, <1>7, SameSender DEF IInv, OrderInv, ExecOf
<1> QED
  BY <1>4, <1>10, <1>11, <1>12, <1>13, <1>14, <1>15 DEF IInv

-----------------------------------------------------------------------------
(***************************************************************************)
(* The other steps.                                                        *)
(***************************************************************************)

\* Appending keeps the elements of a sequence where they are.
LEMMA AppendElements ==
  ASSUME NEW S, NEW q \in Seq(S), NEW x \in S
  PROVE  /\ Append(q, x) \in Seq(S)
         /\ DOMAIN Append(q, x) = DOMAIN q \cup {Len(q) + 1}
         /\ \A j \in DOMAIN q : j < Len(q) + 1 /\ Append(q, x)[j] = q[j]
         /\ Append(q, x)[Len(q) + 1] = x
         /\ Len(q) + 1 \notin DOMAIN q
<1>1. Append(q, x) \in Seq(S) /\ Len(Append(q, x)) = Len(q) + 1
  BY AppendProperties
<1>2. DOMAIN q = 1 .. Len(q) /\ DOMAIN Append(q, x) = 1 .. Len(q) + 1 /\ Len(q) \in Nat
  BY <1>1, LenProperties
<1> QED
  BY <1>1, <1>2, AppendProperties

\* The tail holds the elements but the first, each one position earlier.
LEMMA TailElements ==
  ASSUME NEW S, NEW q \in Seq(S), q # <<>>
  PROVE  /\ Tail(q) \in Seq(S) /\ 1 \in DOMAIN q /\ Head(q) = q[1]
         /\ \A j \in DOMAIN Tail(q) : j \in Nat \ {0} /\ j + 1 \in DOMAIN q /\ Tail(q)[j] = q[j + 1]
         /\ \A j \in DOMAIN q : j # 1 => j - 1 \in DOMAIN Tail(q) /\ Tail(q)[j - 1] = q[j]
<1>1. /\ Tail(q) \in Seq(S)
      /\ Len(Tail(q)) = Len(q) - 1
      /\ \A i \in 1 .. Len(Tail(q)) : Tail(q)[i] = q[i + 1]
  BY HeadTailProperties
<1>2. DOMAIN q = 1 .. Len(q) /\ DOMAIN Tail(q) = 1 .. Len(Tail(q)) /\ Len(q) \in Nat /\ Len(q) # 0
  BY <1>1, LenProperties, EmptySeq
<1> QED
  BY <1>1, <1>2

\* A stage is enqueued.
LEMMA ExecuteInv ==
  ASSUME IInv, NEW h \in sender.heads, Execute(h)
  PROVE  IInv'
<1> DEFINE p == Here(h)
           e == ExecOf(p)
<1>1. /\ KindOf(p) = "stage" /\ Sig(h) = "value" /\ Going(h)
      /\ queue' = [queue EXCEPT ![e] = Append(@, p)]
      /\ signal' = [signal EXCEPT ![h].sig = "executed"]
      /\ UNCHANGED <<sender, round, runs, failed, joined, joinFails, outcome>>
      /\ sender \in Senders /\ p \in Ops /\ OnPath(h, p)
  BY DEF Execute, At, Here, Sig, IInv, TypeInv, HeadInv, KindOf, Going, unchangedData
<1>2. p \in StageOps /\ round > 0 /\ ~ Launched(p) /\ ~ InFlight(p) /\ runs[p] = round - 1
  BY <1>1, NotYet
<1>3. e \in Execs
  BY <1>1, OpsType, ExecAssumption DEF WellFormed, Receiver, KindOf, ExecOf, Ops
<1>4. /\ signal'[h] = [at |-> p, sig |-> "executed"]
      /\ signal' \in [sender.heads ->
                       [at : Ops, sig : {"none", "value", "executed", "error", "stopped"}]]
      /\ \A g \in sender.heads : g # h => signal'[g] = signal[g]
  BY <1>1 DEF IInv, TypeInv, Here
<1>5. StageOps' = StageOps /\ StageOps \subseteq Ops /\ Ops' = Ops /\ Downstream' = Downstream
  BY <1>1, SameSender DEF StageOps
<1>6. /\ queue' \in [Execs -> Seq(Ops)]
      /\ \A x \in Execs : x # e => queue'[x] = queue[x]
      /\ DOMAIN queue'[e] = DOMAIN queue[e] \cup {Len(queue[e]) + 1}
      /\ \A n \in DOMAIN queue[e] : n < Len(queue[e]) + 1 /\ queue'[e][n] = queue[e][n]
      /\ queue'[e][Len(queue[e]) + 1] = p
      /\ Len(queue[e]) + 1 \notin DOMAIN queue[e]
  <2>1. queue[e] \in Seq(Ops) /\ queue'[e] = Append(queue[e], p)
    BY <1>1, <1>3 DEF IInv, TypeInv
  <2>2. \A x \in Execs : x # e => queue'[x] = queue[x]
    BY <1>1 DEF IInv, TypeInv
  <2>3. queue' \in [Execs -> Seq(Ops)]
    BY <1>1, <1>3, <2>1, AppendElements DEF IInv, TypeInv
  <2> QED
    BY <1>1, <2>1, <2>2, <2>3, AppendElements
<1> HIDE DEF p, e
<1>7. \A k : InFlight(k)' <=> InFlight(k) \/ k = p
  <2> TAKE k
  <2>1. InFlight(k) => InFlight(k)'
    BY <1>6 DEF InFlight
  <2>2. k = p => InFlight(k)'
    BY <1>3, <1>6 DEF InFlight
  <2>3. InFlight(k)' => InFlight(k) \/ k = p
    BY <1>6 DEF InFlight
  <2> QED
    BY <2>1, <2>2, <2>3
<1>8. \A k \in StageOps : Launched(k)' <=> Launched(k) \/ k = p
  BY <1>1, <1>2, <1>7 DEF Launched
<1>9. \A g \in sender.heads : g # h =>
        /\ (Going(g)' <=> Going(g)) /\ (Brought(g)' <=> Brought(g)) /\ (Swallowed(g)' <=> Swallowed(g))
        /\ \A k \in Ops : (Covers(g, k)' <=> Covers(g, k)) /\ (Behind(g, k)' <=> Behind(g, k))
  BY <1>1, <1>4, Others DEF Here, KindOf
<1>10. /\ Going(h)' /\ ~ Swallowed(h)' /\ ~ Swallowed(h) /\ Sig(h)' = "executed"
       /\ \A k \in Ops : Behind(h, k)' <=> Behind(h, k) \/ k = p
  BY <1>1, <1>4, After DEF Behind, Swallowed, p
<1>11. \A g \in sender.heads :
         /\ Here(g)' = Here(g) /\ KindOf(Here(g))' = KindOf(Here(g))
         /\ (OnPath(g, Here(g))' <=> OnPath(g, Here(g))) /\ (Beyond(Here(g))' <=> Beyond(Here(g)))
  <2> TAKE g \in sender.heads
  <2>1. signal'[g].at = signal[g].at
    BY <1>4 DEF p, Here
  <2> QED
    BY <1>1, <2>1, After DEF Here
<1>12. TypeInv'
  <2>1. ASSUME NEW x \in Execs, NEW n \in DOMAIN queue'[x]
        PROVE  /\ KindOf(queue'[x][n]) = "stage" /\ ExecOf(queue'[x][n]) = x
               /\ \A m \in DOMAIN queue'[x] : queue'[x][m] = queue'[x][n] => m = n
    <3>1. CASE x # e
      BY <1>6, <2>1, <3>1 DEF IInv, TypeInv
    <3>2. CASE x = e
      <4>1. \A m \in DOMAIN queue[e] : queue[e][m] # p
        BY <1>2, <1>3 DEF InFlight
      <4> QED
        BY <1>1, <1>3, <1>6, <2>1, <3>2, <4>1 DEF IInv, TypeInv, e
    <3> QED
      BY <3>1, <3>2
  <2> QED
    BY <1>1, <1>4, <1>5, <1>6, <2>1, SameSender DEF IInv, TypeInv, KindOf, ExecOf
<1>13. HeadInv'
  <2> SUFFICES ASSUME NEW g \in sender.heads
               PROVE  /\ OnPath(g, Here(g))'
                      /\ Sig(g)' = "executed" => KindOf(Here(g))' = "stage"
                      /\ Sig(g)' = "stopped" => joinFails \/ sender.starts = "stopped"
                      /\ outcome # "pending" => Sig(g)' = "none"
                      /\ Sig(g)' = "none" => KindOf(Here(g))' \in {"join", "sync_wait"}
    BY <1>1, <1>2 DEF HeadInv
  <2>1. CASE g = h
    BY <2>1, <1>1, <1>10, <1>11 DEF IInv, HeadInv, p, Going, Sig
  <2>2. CASE g # h
    BY <2>2, <1>1, <1>2, <1>4, <1>11 DEF IInv, HeadInv, Sig
  <2> QED
    BY <2>1, <2>2
<1>14. JoinInv'
  <2>1. \A g \in sender.heads : Swallowed(g)' <=> Swallowed(g)
    BY <1>9, <1>10
  <2> QED
    BY <1>1, <1>2, <1>11, <2>1 DEF IInv, JoinInv
<1>15. FailInv'
  <2>1. \A g \in sender.heads : (Sig(g)' = "error" <=> Sig(g) = "error") /\ (Going(g)' <=> Going(g))
    BY <1>1, <1>4, <1>10 DEF Sig, Going
  <2>2. \A g \in sender.heads : \A k \in Ops : Behind(g, k) => Behind(g, k)'
    BY <1>9, <1>10
  <2> QED
    BY <1>1, <1>5, <1>11, <2>1, <2>2 DEF IInv, FailInv, TypeInv
<1>16. LaunchInv'
  <2>1. \A k \in StageOps : Launched(k)' => \E g \in sender.heads : Behind(g, k)'
    BY <1>5, <1>8, <1>9, <1>10 DEF IInv, LaunchInv
  <2>2. \A k \in StageOps, g \in sender.heads : (Going(g) \/ Brought(g))' /\ Behind(g, k)' => Launched(k)'
    BY <1>1, <1>5, <1>8, <1>9, <1>10 DEF IInv, LaunchInv
  <2>3. ASSUME NEW k \in StageOps, NEW t \in StageOps, Launched(k)', k \in Downstream[t]
        PROVE  Launched(t)'
    <3>1. CASE k = p
      <4>1. Behind(h, t)
        BY <1>1, <2>3, <3>1 DEF Behind, Passed, p
      <4> QED
        BY <1>1, <1>8, <4>1 DEF IInv, LaunchInv
    <3>2. CASE k # p
      BY <1>8, <2>3, <3>2 DEF IInv, LaunchInv
    <3> QED
      BY <3>1, <3>2
  <2>4. \A f \in failed, k \in StageOps : k = f \/ k \in Downstream[f] => ~ Launched(k)'
    <3>1. \A f \in failed : p # f /\ p \notin Downstream[f]
      BY <1>1 DEF IInv, FailInv, p
    <3> QED
      BY <1>8, <3>1 DEF IInv, LaunchInv
  <2> QED
    BY <1>1, <1>5, <2>1, <2>2, <2>3, <2>4 DEF LaunchInv
<1>17. outcome = "pending"
  BY <1>1 DEF IInv, HeadInv
<1>18. CountInv'
  <2>1. \A g \in sender.heads : ~ (KindOf(Here(g))' = "sync_wait" /\ Sig(g)' = "none")
    BY <1>1, <1>4, StillNoneOver
  <2> QED
    BY <1>1, <1>2, <1>5, <1>7, <1>17, <2>1 DEF IInv, CountInv
<1>19. CoverInv'
  <2>1. ASSUME NEW k \in Ops, InFlight(k)'
        PROVE  \E g \in sender.heads : Covers(g, k)'
    <3>1. CASE k = p
      BY <1>1, <1>4, <1>10, <3>1, After
    <3>2. CASE k # p
      <4>1. PICK g \in sender.heads : Covers(g, k)
        BY <1>7, <1>17, <2>1, <3>2 DEF IInv, CoverInv
      <4>2. CASE g # h
        BY <1>9, <4>1, <4>2
      <4>3. CASE g = h
        <5>1. MayFly(k, p) /\ Behind(h, k)'
          BY <1>1, <1>10, <3>2, <4>1, <4>3 DEF Covers, Swallowed, p
        <5> QED
          BY <1>1, <1>4, <5>1, After
      <4> QED
        BY <4>2, <4>3
    <3> QED
      BY <3>1, <3>2
  <2> QED
    BY <1>1, <1>5, <1>17, <2>1 DEF CoverInv
<1>20. OrderInv'
  <2>1. ASSUME NEW k \in Ops, InFlight(k)
        PROVE  k \notin Downstream[p] /\ (p \in Downstream[k] => ExecOf(k) = e)
    <3>1. PICK g \in sender.heads : Covers(g, k)
      BY <1>17, <2>1 DEF IInv, CoverInv
    <3>2. k \notin Downstream[p]
      BY <1>1, <3>1, Exclusive DEF Covers, p
    <3>3. ASSUME p \in Downstream[k]
          PROVE  ExecOf(k) = e
      <4>1. g = h
        BY <1>1, <3>1, <3>3, Exclusive DEF p
      <4>2. MayFly(k, p)
        BY <1>1, <1>2, <2>1, <3>1, <4>1 DEF Covers, Swallowed, p
      <4> QED
        BY <1>1, <4>2, ExecEnvIs DEF MayFly, NamesInstance, KindOf, e
    <3> QED
      BY <3>2, <3>3
  <2>2. p \notin Downstream[p]
    BY <1>1, DownstreamOrder
  <2>3. ASSUME NEW k \in Ops, NEW t \in Ops, InFlight(k)', InFlight(t)', k \in Downstream[t]
        PROVE  ExecOf(k) = ExecOf(t)
    BY <1>7, <2>1, <2>2, <2>3 DEF IInv, OrderInv, e
  <2>4. ASSUME NEW x \in Execs, NEW n \in DOMAIN queue'[x], NEW m \in DOMAIN queue'[x], n < m
        PROVE  queue'[x][n] \notin Downstream[queue'[x][m]]
    <3>1. CASE x # e
      BY <1>6, <2>4, <3>1 DEF IInv, OrderInv
    <3>2. CASE x = e /\ m \in DOMAIN queue[e]
      <4>1. n \in DOMAIN queue[e]
        BY <1>6, <2>4, <3>2, LenProperties, <1>3 DEF IInv, TypeInv
      <4> QED
        BY <1>6, <1>3, <2>4, <3>2, <4>1 DEF IInv, OrderInv
    <3>3. CASE x = e /\ m = Len(queue[e]) + 1
      <4>1. n \in DOMAIN queue[e]
        BY <1>6, <2>4, <3>3
      <4>2. queue[e][n] \in Ops /\ InFlight(queue[e][n])
        BY <1>3, <4>1, ElementOfSeq, LenProperties DEF IInv, TypeInv, InFlight
      <4> QED
        BY <1>6, <2>1, <3>3, <4>1, <4>2
    <3> QED
      BY <1>6, <2>4, <3>1, <3>2, <3>3
  <2> QED
    BY <1>1, <1>5, <2>3, <2>4 DEF OrderInv, ExecOf
<1> QED
  BY <1>12, <1>13, <1>14, <1>15, <1>16, <1>18, <1>19, <1>20 DEF IInv

\* A branch is stopped before it begins.
LEMMA StopInv ==
  ASSUME IInv, NEW h \in sender.heads, Stop(h)
  PROVE  IInv'
<1>1. /\ joinFails /\ Here(h) = h /\ Sig(h) = "value"
      /\ signal' = [signal EXCEPT ![h].sig = "stopped"]
      /\ UNCHANGED <<sender, round, queue, runs, failed, joined, joinFails, outcome>>
      /\ sender \in Senders /\ StageOps \subseteq Ops
  BY DEF Stop, Here, Sig, IInv, TypeInv, unchangedData, StageOps
<1>2. /\ signal'[h] = [at |-> h, sig |-> "stopped"]
      /\ signal' \in [sender.heads ->
                       [at : Ops, sig : {"none", "value", "executed", "error", "stopped"}]]
      /\ \A g \in sender.heads : g # h => signal'[g] = signal[g]
  BY <1>1 DEF IInv, TypeInv, Here
<1>3. h \in Ops /\ KindOf(h) # "join" /\ \A k \in Ops : h \notin Downstream[k]
  BY <1>1, Heads
<1>4. /\ \A k : (InFlight(k)' <=> InFlight(k)) /\ (Launched(k)' <=> Launched(k))
      /\ OrderInv' /\ StageOps' = StageOps /\ Ops' = Ops /\ Downstream' = Downstream
  BY <1>1, SameWork, SameSender
<1>5. /\ ~ Going(h)' /\ ~ Brought(h)' /\ ~ Swallowed(h)' /\ ~ Swallowed(h)
      /\ \A k \in Ops : ~ Behind(h, k)' /\ ~ Behind(h, k)
  BY <1>1, <1>2, <1>3, After DEF Brought, Swallowed, Behind, Passed
<1>6. \A g \in sender.heads : g # h =>
        /\ (Going(g)' <=> Going(g)) /\ (Brought(g)' <=> Brought(g)) /\ (Swallowed(g)' <=> Swallowed(g))
        /\ \A k : (Covers(g, k)' <=> Covers(g, k)) /\ (Behind(g, k)' <=> Behind(g, k))
  BY <1>1, <1>2, Others
<1>7. \A g \in sender.heads :
         /\ Here(g)' = Here(g) /\ KindOf(Here(g))' = KindOf(Here(g))
         /\ (OnPath(g, Here(g))' <=> OnPath(g, Here(g))) /\ (Beyond(Here(g))' <=> Beyond(Here(g)))
  <2> TAKE g \in sender.heads
  <2>1. signal'[g].at = signal[g].at
    BY <1>1, <1>2 DEF Here
  <2> QED
    BY <1>1, <2>1, After DEF Here
<1>8. \A g \in sender.heads : (Sig(g)' = "error" <=> Sig(g) = "error") /\ (Going(g)' => Going(g))
  BY <1>1, <1>2 DEF Sig, Going
<1>9. outcome = "pending" /\ round > 0
  BY <1>1, OpsType DEF IInv, HeadInv, TypeInv
<1>10. TypeInv'
  BY <1>1, <1>2, <1>4, SameSender DEF IInv, TypeInv, KindOf, ExecOf
<1>11. HeadInv'
  BY <1>1, <1>2, <1>7, <1>9 DEF IInv, HeadInv, Sig
<1>12. JoinInv'
  <2>1. \A g \in sender.heads : Swallowed(g)' <=> Swallowed(g)
    BY <1>5, <1>6
  <2> QED
    BY <1>1, <1>9, <1>7, <2>1 DEF IInv, JoinInv
<1>13. FailInv'
  <2>1. \A g \in sender.heads : \A k \in Ops : Behind(g, k) => Behind(g, k)'
    BY <1>5, <1>6
  <2> QED
    BY <1>1, <1>4, <1>7, <1>8, <2>1 DEF IInv, FailInv, TypeInv
<1>14. LaunchInv'
  BY <1>1, <1>4, <1>5, <1>6 DEF IInv, LaunchInv
<1>15. CountInv'
  <2>1. \A g \in sender.heads : ~ (KindOf(Here(g))' = "sync_wait" /\ Sig(g)' = "none")
    BY <1>1, <1>2, StillNoneOver
  <2> QED
    BY <1>1, <1>4, <1>9, <2>1 DEF IInv, CountInv
<1>16. CoverInv'
  <2>1. \A g \in sender.heads : \A k \in Ops : Covers(g, k) => Covers(g, k)'
    BY <1>5, <1>6 DEF Covers
  <2> QED
    BY <1>1, <1>4, <1>9, <2>1 DEF IInv, CoverInv
<1> QED
  BY <1>4, <1>10, <1>11, <1>12, <1>13, <1>14, <1>15, <1>16 DEF IInv

\* An instance finishes a stage.
LEMMA RunStageInv ==
  ASSUME IInv, NEW e \in Execs, RunStage(e)
  PROVE  IInv'
<1> DEFINE s == Head(queue[e])
<1>1. /\ queue[e] # <<>>
      /\ runs' = [runs EXCEPT ![s] = @ + 1]
      /\ queue' = [queue EXCEPT ![e] = Tail(@)]
      /\ UNCHANGED <<sender, round, signal, failed, joined, joinFails, outcome>>
      /\ sender \in Senders
  BY DEF RunStage, IInv, TypeInv
<1>2. queue \in [Execs -> Seq(Ops)] /\ queue[e] \in Seq(Ops)
  BY DEF IInv, TypeInv
<1>3. /\ Tail(queue[e]) \in Seq(Ops) /\ 1 \in DOMAIN queue[e] /\ s = queue[e][1]
      /\ \A n \in DOMAIN Tail(queue[e]) :
           n \in Nat \ {0} /\ n + 1 \in DOMAIN queue[e] /\ Tail(queue[e])[n] = queue[e][n + 1]
      /\ \A n \in DOMAIN queue[e] : n # 1 => n - 1 \in DOMAIN Tail(queue[e]) /\ Tail(queue[e])[n - 1] = queue[e][n]
  BY <1>1, <1>2, TailElements
<1>4. /\ queue' \in [Execs -> Seq(Ops)] /\ queue'[e] = Tail(queue[e])
      /\ \A x \in Execs : x # e => queue'[x] = queue[x]
  BY <1>1, <1>2, <1>3
<1>5. InFlight(s)
  BY <1>3 DEF InFlight
<1>6. s \in Ops /\ s \in StageOps
  BY <1>5, Flying
<1>7. round > 0 /\ round \in Nat /\ runs[s] = round - 1
  BY <1>1, <1>5, <1>6, OpsType DEF IInv, TypeInv, CountInv
<1>8. runs' \in [StageOps -> Nat] /\ \A k \in StageOps : runs'[k] = IF k = s THEN round ELSE runs[k]
  BY <1>1, <1>6, <1>7 DEF IInv, TypeInv
<1> HIDE DEF s
<1>9. \A k : InFlight(k)' <=> InFlight(k) /\ k # s
  <2> TAKE k
  <2>1. InFlight(k)' => InFlight(k)
    <3> SUFFICES ASSUME NEW x \in Execs, NEW n \in DOMAIN queue'[x], queue'[x][n] = k
                 PROVE  InFlight(k)
      BY DEF InFlight
    <3>1. CASE x = e
      BY <1>3, <1>4, <3>1 DEF InFlight
    <3>2. CASE x # e
      BY <1>4, <3>2 DEF InFlight
    <3> QED
      BY <3>1, <3>2
  <2>2. k = s => ~ InFlight(k)'
    <3> SUFFICES ASSUME k = s, NEW x \in Execs, NEW n \in DOMAIN queue'[x], queue'[x][n] = k
                 PROVE  FALSE
      BY DEF InFlight
    <3>1. CASE x = e
      BY <1>3, <1>4, <3>1 DEF IInv, TypeInv
    <3>2. CASE x # e
      BY <1>3, <1>4, <3>2 DEF IInv, TypeInv
    <3> QED
      BY <3>1, <3>2
  <2>3. ASSUME InFlight(k), k # s
        PROVE  InFlight(k)'
    <3>1. PICK x \in Execs : \E n \in DOMAIN queue[x] : queue[x][n] = k
      BY <2>3 DEF InFlight
    <3>2. PICK n \in DOMAIN queue[x] : queue[x][n] = k
      BY <3>1
    <3>3. x = e => n - 1 \in DOMAIN queue'[x] /\ queue'[x][n - 1] = k
      BY <1>3, <1>4, <2>3, <3>2
    <3>4. x # e => n \in DOMAIN queue'[x] /\ queue'[x][n] = k
      BY <1>4, <3>2
    <3> QED
      BY <3>3, <3>4 DEF InFlight
  <2> QED
    BY <2>1, <2>2, <2>3
<1>10. \A k \in StageOps : Launched(k)' <=> Launched(k)
  BY <1>1, <1>5, <1>7, <1>8, <1>9 DEF Launched
<1>11. StageOps' = StageOps /\ StageOps \subseteq Ops /\ Ops' = Ops /\ Downstream' = Downstream
  BY <1>1, SameSender DEF StageOps
<1>12. \A g \in sender.heads :
         /\ (Going(g)' <=> Going(g)) /\ (Brought(g)' <=> Brought(g)) /\ (Swallowed(g)' <=> Swallowed(g))
         /\ \A k : (Covers(g, k)' <=> Covers(g, k)) /\ (Behind(g, k)' <=> Behind(g, k))
         /\ Here(g)' = Here(g) /\ KindOf(Here(g))' = KindOf(Here(g)) /\ Sig(g)' = Sig(g)
         /\ (OnPath(g, Here(g))' <=> OnPath(g, Here(g))) /\ (Beyond(Here(g))' <=> Beyond(Here(g)))
  BY <1>1, Others DEF Here, KindOf, Sig
<1>13. TypeInv'
  <2>1. ASSUME NEW x \in Execs, NEW n \in DOMAIN queue'[x]
        PROVE  /\ KindOf(queue'[x][n]) = "stage" /\ ExecOf(queue'[x][n]) = x
               /\ \A m \in DOMAIN queue'[x] : queue'[x][m] = queue'[x][n] => m = n
    <3>1. CASE x # e
      BY <1>4, <2>1, <3>1 DEF IInv, TypeInv
    <3>2. CASE x = e
      <4>1. n + 1 \in DOMAIN queue[e] /\ queue'[e][n] = queue[e][n + 1] /\ n \in Nat
        BY <1>3, <1>4, <2>1, <3>2
      <4>2. \A m \in DOMAIN queue'[e] : queue'[e][m] = queue'[e][n] => m + 1 = n + 1 /\ m \in Nat
        BY <1>3, <1>4, <4>1 DEF IInv, TypeInv
      <4> QED
        BY <3>2, <4>1, <4>2 DEF IInv, TypeInv
    <3> QED
      BY <3>1, <3>2
  <2> QED
    BY <1>1, <1>4, <1>8, <1>11, <2>1, SameSender DEF IInv, TypeInv, KindOf, ExecOf
<1>14. HeadInv' /\ JoinInv' /\ FailInv'
  <2>1. HeadInv'
    BY <1>1, <1>12 DEF IInv, HeadInv
  <2>2. JoinInv'
    BY <1>1, <1>12 DEF IInv, JoinInv
  <2>3. FailInv'
    BY <1>1, <1>11, <1>12 DEF IInv, FailInv
  <2> QED
    BY <2>1, <2>2, <2>3
<1>15. LaunchInv'
  <2>1. failed \subseteq StageOps
    BY DEF IInv, TypeInv
  <2> QED
    BY <1>1, <1>10, <1>11, <1>12, <2>1 DEF IInv, LaunchInv
<1>16. CountInv'
  <2>1. outcome # "returned"
    BY <1>5, <1>6 DEF IInv, CoverInv
  <2>2. \A g \in sender.heads : ~ (KindOf(Here(g)) = "sync_wait" /\ Sig(g) = "none" /\ outcome = "pending")
    BY <1>5, <1>6, <1>7 DEF IInv, CountInv
  <2> QED
    BY <1>1, <1>7, <1>8, <1>9, <1>11, <1>12, <2>1, <2>2 DEF IInv, CountInv
<1>17. CoverInv'
  BY <1>1, <1>9, <1>11, <1>12, SameWays DEF IInv, CoverInv
<1>18. OrderInv'
  <2>1. ASSUME NEW x \in Execs, NEW n \in DOMAIN queue'[x], NEW m \in DOMAIN queue'[x], n < m
        PROVE  queue'[x][n] \notin Downstream[queue'[x][m]]
    <3>1. CASE x # e
      BY <1>4, <2>1, <3>1 DEF IInv, OrderInv
    <3>2. CASE x = e
      <4>1. /\ n + 1 \in DOMAIN queue[e] /\ m + 1 \in DOMAIN queue[e] /\ n + 1 < m + 1
            /\ queue'[e][n] = queue[e][n + 1] /\ queue'[e][m] = queue[e][m + 1]
        BY <1>3, <1>4, <2>1, <3>2
      <4> QED
        BY <3>2, <4>1 DEF IInv, OrderInv
    <3> QED
      BY <3>1, <3>2
  <2> QED
    BY <1>1, <1>9, <1>11, <2>1, SameSender DEF IInv, OrderInv, ExecOf
<1> QED
  BY <1>13, <1>14, <1>15, <1>16, <1>17, <1>18 DEF IInv

\* A signal comes to the join: there are two of them, and one join.
LEMMA AtJoin ==
  ASSUME IInv, NEW h \in sender.heads, Join(h)
  PROVE  /\ Here(h) \in Ops /\ KindOf(Here(h)) = "join" /\ Sig(h) \in {"value", "error", "stopped"}
         /\ Cardinality(sender.heads) = 2 /\ sender.starts = "value"
         /\ \A i \in Ops : KindOf(i) = "join" => i = Here(h)
         /\ ~ Swallowed(h) /\ ~ Beyond(Here(h)) /\ joined \in {0, 1}
         /\ \E g \in sender.heads :
              /\ g # h /\ sender.heads = {g, h} /\ ~ Beyond(Here(g))
              /\ joined = 1 <=> Swallowed(g)
              /\ Swallowed(g) => Here(g) = Here(h)
         /\ round > 0 /\ outcome = "pending"
         /\ UNCHANGED <<sender, round, queue, runs, failed, outcome>>
         /\ joined' = joined + 1 /\ joinFails' = (joinFails \/ Sig(h) = "error")
<1> DEFINE j == Here(h)
<1>1. /\ KindOf(j) = "join" /\ Sig(h) \in {"value", "error", "stopped"}
      /\ UNCHANGED <<sender, round, queue, runs, failed, outcome>>
      /\ joined' = joined + 1 /\ joinFails' = (joinFails \/ Sig(h) = "error")
  BY DEF Join, At, Here, Sig
<1>2. sender \in Senders /\ j \in Ops
  BY DEF IInv, TypeInv, Here
<1>3. PICK g \in sender.heads : g # h /\ sender.heads = {g, h}
  BY <1>1, <1>2, Heads
<1>4. Cardinality(sender.heads) = 2 /\ sender.starts = "value" /\ \A i \in Ops : KindOf(i) = "join" => i = j
  BY <1>1, <1>2, Heads, HeadCount
<1>5. ~ Swallowed(h) /\ ~ Beyond(Here(g))
  BY <1>1, <1>3 DEF IInv, JoinInv, Swallowed
<1>6. ~ Beyond(j)
  BY <1>1, <1>2, <1>3, JoinStep
<1>7. joined \in {0, 1} /\ (joined = 1 <=> Swallowed(g))
  BY <1>3, <1>5, <1>6 DEF IInv, TypeInv, JoinInv
<1>8. Swallowed(g) => Here(g) = j
  BY <1>4 DEF Swallowed, IInv, TypeInv, Here
<1>9. round > 0 /\ outcome = "pending"
  BY <1>1, OpsType DEF IInv, TypeInv, HeadInv
<1> HIDE DEF j
<1> QED
  BY <1>1, <1>2, <1>3, <1>4, <1>5, <1>6, <1>7, <1>8, <1>9 DEF j

\* The first branch to complete is swallowed.
LEMMA SwallowInv ==
  ASSUME IInv, NEW h \in sender.heads, Join(h), joined = 0
  PROVE  IInv'
<1> DEFINE j == Here(h)
<1>1. /\ j \in Ops /\ KindOf(j) = "join" /\ Sig(h) \in {"value", "error", "stopped"}
      /\ sender.starts = "value" /\ round > 0 /\ outcome = "pending"
      /\ UNCHANGED <<sender, round, queue, runs, failed, outcome>>
      /\ joined' = 1 /\ joinFails' = (joinFails \/ Sig(h) = "error") /\ ~ joinFails
      /\ sender \in Senders /\ ~ Swallowed(h) /\ ~ Beyond(j)
  BY AtJoin DEF IInv, TypeInv, JoinInv
<1>2. PICK g \in sender.heads : g # h /\ sender.heads = {g, h} /\ ~ Beyond(Here(g)) /\ ~ Swallowed(g)
  BY AtJoin
<1>3. signal' = [signal EXCEPT ![h].sig = "none"]
  BY AtJoin DEF Join
<1>4. /\ signal'[h] = [at |-> j, sig |-> "none"] /\ signal'[g] = signal[g]
      /\ signal' \in [sender.heads ->
                       [at : Ops, sig : {"none", "value", "executed", "error", "stopped"}]]
  BY <1>2, <1>3 DEF IInv, TypeInv, Here
<1>5. /\ \A k : (InFlight(k)' <=> InFlight(k)) /\ (Launched(k)' <=> Launched(k))
      /\ OrderInv' /\ StageOps' = StageOps /\ StageOps \subseteq Ops /\ Ops' = Ops /\ Downstream' = Downstream
  BY <1>1, SameWork, SameSender DEF StageOps
<1>6. /\ ~ Going(h)' /\ Swallowed(h)' /\ Sig(h)' = "none"
      /\ \A k : k # j => (Behind(h, k)' <=> Behind(h, k))
      /\ Here(h)' = Here(h) /\ KindOf(Here(h))' = KindOf(Here(h))
      /\ (OnPath(h, Here(h))' <=> OnPath(h, Here(h))) /\ (Beyond(Here(h))' <=> Beyond(Here(h)))
  <2>1. signal'[h].at = signal[h].at /\ signal'[h].sig = "none" /\ signal[h].at = j
    BY <1>4 DEF Here
  <2>2. ~ Going(h)' /\ Swallowed(h)' /\ Sig(h)' = "none"
    BY <1>1, <2>1, After
  <2>3. \A k : k # j => (Behind(h, k)' <=> Behind(h, k))
    BY <1>1, <2>1, After DEF Behind, Here
  <2>4. /\ Here(h)' = Here(h) /\ KindOf(Here(h))' = KindOf(Here(h))
        /\ (OnPath(h, Here(h))' <=> OnPath(h, Here(h))) /\ (Beyond(Here(h))' <=> Beyond(Here(h)))
    BY <1>1, <2>1, After DEF Here
  <2> QED
    BY <2>2, <2>3, <2>4
<1>7. /\ (Going(g)' <=> Going(g)) /\ ~ Swallowed(g)' /\ ~ Brought(g)' /\ ~ Brought(g)
      /\ \A k : Behind(g, k)' <=> Behind(g, k)
      /\ Here(g)' = Here(g) /\ KindOf(Here(g))' = KindOf(Here(g)) /\ Sig(g)' = Sig(g)
      /\ (OnPath(g, Here(g))' <=> OnPath(g, Here(g))) /\ (Beyond(Here(g))' <=> Beyond(Here(g)))
  BY <1>1, <1>2, <1>4, After DEF Behind, Brought, Swallowed, Going, Here, Sig
<1>8. \A k \in StageOps : k # j
  BY <1>1 DEF StageOps
<1>9. Sig(h) = "stopped" => FALSE
  BY <1>1 DEF IInv, HeadInv
<1> HIDE DEF j
<1>10. TypeInv'
  BY <1>1, <1>4, <1>5, SameSender DEF IInv, TypeInv, KindOf, ExecOf
<1>11. HeadInv'
  BY <1>1, <1>2, <1>6, <1>7 DEF IInv, HeadInv, j
<1>12. JoinInv'
  BY <1>1, <1>2, <1>6, <1>7 DEF IInv, JoinInv, j
<1>13. FailInv'
  <2>1. failed # {} <=> joinFails' \/ Sig(g) = "error"
    BY <1>1, <1>2 DEF IInv, FailInv
  <2>2. \A f \in failed : sender.ops[f].throws /\ \E x \in sender.heads : Behind(x, f)'
    BY <1>2, <1>6, <1>7, <1>8 DEF IInv, FailInv, TypeInv
  <2>3. \A f \in failed : Going(g) /\ KindOf(Here(g)) # "join" => Here(g) # f /\ Here(g) \notin Downstream[f]
    BY DEF IInv, FailInv
  <2>4. failed' # {} <=> joinFails' \/ outcome' = "threw" \/ \E x \in sender.heads : Sig(x)' = "error"
    BY <1>1, <1>2, <1>6, <1>7, <2>1
  <2>5. \A x \in sender.heads, f \in failed :
          Going(x)' /\ KindOf(Here(x))' # "join" => Here(x)' # f /\ Here(x)' \notin Downstream[f]
    BY <1>2, <1>6, <1>7, <2>3
  <2> QED
    BY <1>1, <1>5, <2>2, <2>4, <2>5 DEF FailInv
<1>14. LaunchInv'
  <2>1. \A k \in StageOps : Launched(k)' => \E x \in sender.heads : Behind(x, k)'
    BY <1>2, <1>5, <1>6, <1>7, <1>8 DEF IInv, LaunchInv
  <2>2. Brought(h)' => Going(h)
    BY <1>1, <1>9 DEF Brought, Going
  <2>3. \A k \in StageOps, x \in sender.heads : (Going(x) \/ Brought(x))' /\ Behind(x, k)' => Launched(k)'
    BY <1>2, <1>5, <1>6, <1>7, <1>8, <2>2 DEF IInv, LaunchInv
  <2> QED
    BY <1>1, <1>5, <2>1, <2>3 DEF IInv, LaunchInv
<1>15. CountInv'
  <2>1. \A x \in sender.heads : ~ (KindOf(Here(x))' = "sync_wait" /\ Sig(x)' = "none")
    BY <1>1, <1>2, <1>4, StillNoneOver
  <2> QED
    BY <1>1, <1>5, <2>1 DEF IInv, CountInv
<1>16. CoverInv'
  <2>1. ASSUME NEW k \in Ops, InFlight(k)
        PROVE  \E x \in sender.heads : Covers(x, k)'
    <3>1. PICK x \in sender.heads : Covers(x, k)
      BY <1>1, <2>1 DEF IInv, CoverInv
    <3>2. k # j /\ KindOf(k) = "stage"
      BY <1>1, <2>1, Flying
    <3>3. CASE x = h
      <4>1. \/ Going(h) /\ MayFly(k, j)
            \/ Sig(h) = "error" /\ (ErrorsFenced => FencedFrom(j, k))
        BY <1>1, <3>1, <3>2, <3>3 DEF Covers, j
      <4>2. Behind(h, k)'
        BY <1>6, <3>1, <3>2, <3>3 DEF Covers
      <4>3. MayFly(k, j) \/ (joinFails' /\ (ErrorsFenced => FencedFrom(j, k)))
        BY <1>1, <4>1
      <4>4. signal'[h].at = j /\ signal'[h].sig = "none"
        BY <1>4
      <4> QED
        BY <1>1, <4>2, <4>3, <4>4, After
    <3>4. CASE x = g
      <4>1. \/ Going(g) /\ (Here(g) = k \/ MayFly(k, Here(g)))
            \/ Sig(g) = "error" /\ (ErrorsFenced => FencedFrom(Here(g), k))
        BY <1>2, <3>1, <3>4 DEF Covers
      <4>2. Behind(g, k)' /\ signal'[g].at = Here(g) /\ signal'[g].sig = Sig(g)
        BY <1>4, <1>7, <3>1, <3>4 DEF Covers, Here, Sig
      <4> QED
        BY <1>1, <4>1, <4>2, After DEF Going
    <3> QED
      BY <1>2, <3>3, <3>4
  <2> QED
    BY <1>1, <1>5, <2>1, SameWays DEF CoverInv
<1> QED
  BY <1>5, <1>10, <1>11, <1>12, <1>13, <1>14, <1>15, <1>16 DEF IInv

\* The second one completes the join.
LEMMA CompleteJoinInv ==
  ASSUME IInv, NEW h \in sender.heads, Join(h), joined # 0
  PROVE  IInv'
<1> DEFINE j     == Here(h)
           fails == joinFails \/ Sig(h) = "error"
           sig   == IF fails THEN "error" ELSE "value"
<1>1. /\ j \in Ops /\ KindOf(j) = "join" /\ Sig(h) \in {"value", "error", "stopped"}
      /\ sender.starts = "value" /\ round > 0 /\ outcome = "pending" /\ joined = 1
      /\ UNCHANGED <<sender, round, queue, runs, failed, outcome>>
      /\ joined' = 2 /\ joinFails' = fails
      /\ sender \in Senders /\ OnPath(h, j)
  BY AtJoin DEF IInv, TypeInv, HeadInv
<1>2. PICK g \in sender.heads :
        /\ g # h /\ sender.heads = {g, h} /\ ~ Beyond(Here(g)) /\ Swallowed(g) /\ Here(g) = j
  BY <1>1, AtJoin
<1>3. /\ To(j) \in Ops /\ To(j) \in Downstream[j]
      /\ \A k \in Ops : k \in Downstream[j] <=> k = To(j) \/ k \in Downstream[To(j)]
  BY <1>1, DownstreamOrder
<1>4. /\ OnPath(h, To(j)) /\ KindOf(To(j)) # "join" /\ Beyond(To(j))
      /\ \A k \in Ops :
           /\ Passed(h, To(j), k) <=> Passed(h, j, k) \/ Passed(g, j, k) \/ k = j
           /\ Passed(h, j, k) \/ Passed(g, j, k) => j \in Downstream[k]
  BY <1>1, <1>2, JoinStep
<1>5. signal' = [signal EXCEPT ![h] = [at |-> To(j), sig |-> sig]]
  BY <1>1, AtJoin DEF Join, Pass, Here, Sig, To
<1>6. sig \in {"value", "error"} /\ (sig = "error" <=> fails)
  OBVIOUS
<1> HIDE DEF sig
<1>7. /\ signal'[h] = [at |-> To(j), sig |-> sig] /\ signal'[g] = signal[g]
      /\ signal' \in [sender.heads ->
                       [at : Ops, sig : {"none", "value", "executed", "error", "stopped"}]]
  BY <1>2, <1>3, <1>5, <1>6 DEF IInv, TypeInv
<1>8. signal'[h].at = To(j) /\ signal'[h].sig = sig
  BY <1>7
<1>9. /\ \A k : (InFlight(k)' <=> InFlight(k)) /\ (Launched(k)' <=> Launched(k))
      /\ OrderInv' /\ StageOps' = StageOps /\ StageOps \subseteq Ops /\ Ops' = Ops /\ Downstream' = Downstream
  BY <1>1, SameWork, SameSender DEF StageOps
<1>10. Sig(g) = "none" /\ KindOf(Here(g)) = "join" /\ Sig(h) # "executed"
  BY <1>1, <1>2 DEF Swallowed
<1>11. \A k \in Ops : Behind(h, k)' <=> Behind(h, k) \/ Behind(g, k) \/ k = j
  BY <1>1, <1>2, <1>4, <1>6, <1>8, <1>10, After DEF Behind
<1>12. /\ ~ Swallowed(h)' /\ ~ Swallowed(h) /\ (Going(h)' <=> ~ fails) /\ (Sig(h)' = "error" <=> fails)
       /\ Sig(h)' = sig /\ Here(h)' = To(j) /\ KindOf(Here(h))' = KindOf(To(j))
       /\ OnPath(h, Here(h))' /\ Beyond(Here(h))'
  BY <1>1, <1>4, <1>6, <1>8, After DEF Swallowed
<1>13. /\ ~ Going(g)' /\ Swallowed(g)' /\ (Brought(g)' => Brought(g))
       /\ \A k : Behind(g, k)' <=> Behind(g, k)
       /\ Here(g)' = Here(g) /\ KindOf(Here(g))' = KindOf(Here(g)) /\ Sig(g)' = Sig(g)
       /\ (OnPath(g, Here(g))' <=> OnPath(g, Here(g))) /\ (Beyond(Here(g))' <=> Beyond(Here(g)))
  BY <1>1, <1>2, <1>7, <1>10, After DEF Behind, Brought, Swallowed, Going, Here, Sig
<1>14. failed # {} <=> fails
  BY <1>1, <1>2, <1>10 DEF IInv, FailInv
<1> HIDE DEF j
<1>15. TypeInv'
  BY <1>1, <1>7, <1>9, SameSender DEF IInv, TypeInv, KindOf, ExecOf
<1>16. HeadInv'
  <2>1. \A x \in sender.heads : OnPath(x, Here(x))'
    BY <1>2, <1>12, <1>13 DEF IInv, HeadInv
  <2>2. KindOf(Here(h))' # "join" /\ Sig(h)' \in {"value", "error"} /\ KindOf(Here(g))' = "join" /\ Sig(g)' = "none"
    BY <1>4, <1>6, <1>10, <1>12, <1>13
  <2> QED
    BY <1>1, <1>2, <2>1, <2>2 DEF HeadInv
<1>17. JoinInv'
  BY <1>1, <1>2, <1>12, <1>13 DEF IInv, JoinInv
<1>18. FailInv'
  <2>1. \A f \in failed : sender.ops[f].throws /\ \E x \in sender.heads : Behind(x, f)'
    BY <1>2, <1>9, <1>11, <1>13 DEF IInv, FailInv, TypeInv
  <2>2. failed' # {} <=> joinFails' \/ outcome' = "threw" \/ \E x \in sender.heads : Sig(x)' = "error"
    BY <1>1, <1>2, <1>10, <1>12, <1>13, <1>14
  <2>3. \A x \in sender.heads, f \in failed : ~ Going(x)'
    BY <1>2, <1>12, <1>13, <1>14
  <2> QED
    BY <1>1, <1>12, <2>1, <2>2, <2>3, SameSender DEF FailInv
<1>19. \A k \in StageOps : k # j
  BY <1>1 DEF StageOps
<1>20. LaunchInv'
  <2>1. \A k \in StageOps : Launched(k)' => \E x \in sender.heads : Behind(x, k)'
    BY <1>2, <1>9, <1>11, <1>13 DEF IInv, LaunchInv
  <2>2. ~ fails => Going(h) /\ Brought(g)
    BY <1>1, <1>2 DEF Going, Brought, IInv, HeadInv
  <2>3. \A k \in StageOps, x \in sender.heads : (Going(x) \/ Brought(x))' /\ Behind(x, k)' => Launched(k)'
    <3> SUFFICES ASSUME NEW k \in StageOps, NEW x \in sender.heads, (Going(x) \/ Brought(x))', Behind(x, k)'
                 PROVE  Launched(k)
      BY <1>9
    <3>1. CASE x = h
      <4>1. Going(h) /\ Brought(g)
        BY <1>12, <2>2, <3>1 DEF Brought
      <4>2. Behind(h, k) \/ Behind(g, k)
        BY <1>9, <1>11, <1>19, <3>1
      <4> QED
        BY <4>1, <4>2 DEF IInv, LaunchInv
    <3>2. CASE x = g
      BY <1>13, <3>2 DEF IInv, LaunchInv
    <3> QED
      BY <1>2, <3>1, <3>2
  <2> QED
    BY <1>1, <1>9, <2>1, <2>3 DEF IInv, LaunchInv
<1>21. CountInv'
  <2>1. Sig(h) # "none" /\ sig # "none" /\ \A x \in sender.heads : x # h => signal'[x] = signal[x]
    BY <1>1, <1>2, <1>6, <1>7
  <2>2. \A x \in sender.heads : ~ (KindOf(Here(x))' = "sync_wait" /\ Sig(x)' = "none")
    BY <1>1, <1>8, <2>1, StillNoneOver
  <2> QED
    BY <1>1, <1>9, <2>2 DEF IInv, CountInv
<1>22. CoverInv'
  <2>1. ASSUME NEW k \in Ops, InFlight(k)
        PROVE  Covers(h, k)'
    <3>1. PICK x \in sender.heads : Covers(x, k)
      BY <1>1, <2>1 DEF IInv, CoverInv
    <3>2. k # j /\ KindOf(k) = "stage"
      BY <1>1, <2>1, Flying
    <3>3. Behind(h, k)'
      BY <1>2, <1>11, <3>1 DEF Covers
    <3>4. \/ MayFly(k, j)
          \/ fails /\ (ErrorsFenced => FencedFrom(j, k))
      BY <1>2, <1>10, <3>1, <3>2 DEF Covers, j
    <3>5. CASE ~ fails
      <4>1. MayFly(k, To(j))
        BY <1>1, <3>2, <3>4, <3>5, FlyOn DEF Fences
      <4> QED
        BY <1>1, <1>6, <1>8, <3>3, <3>5, <4>1, After
    <3>6. CASE fails
      <4>1. Raises(j)
        <5>1. PICK f \in failed : f \in StageOps /\ f \in Ops /\ sender.ops[f].throws /\ \E y \in sender.heads : Behind(y, f)
          BY <1>9, <1>14, <3>6 DEF IInv, FailInv, TypeInv
        <5>2. Passed(h, j, f) \/ Passed(g, j, f)
          BY <1>2, <1>10, <5>1 DEF Behind, j
        <5>3. j \in Downstream[f]
          BY <1>4, <5>1, <5>2
        <5> QED
          BY <1>1, <5>1, <5>3 DEF Raises
      <4>2. FencedFrom(j, k) => FencedFrom(To(j), k)
        BY <1>1, <1>3 DEF FencedFrom
      <4>3. ErrorsFenced => FencedFrom(To(j), k)
        BY <1>1, <3>4, <4>1, <4>2 DEF ErrorsFenced
      <4> QED
        BY <1>1, <1>6, <1>8, <3>3, <3>6, <4>3, After
    <3> QED
      BY <3>5, <3>6
  <2> QED
    BY <1>1, <1>9, <2>1 DEF CoverInv
<1> QED
  BY <1>9, <1>15, <1>16, <1>17, <1>18, <1>20, <1>21, <1>22 DEF IInv

\* A signal comes to sync_wait: what is in flight then is what an error left behind.
LEMMA AtSyncWait ==
  ASSUME IInv, NEW h \in sender.heads, KindOf(Here(h)) = "sync_wait", Sig(h) # "none",
         Fenced(ExecOf(Here(h)))
  PROVE  /\ sender \in Senders /\ Here(h) \in Ops /\ round > 0 /\ outcome = "pending"
         /\ \A k : InFlight(k) => Sig(h) = "error" /\ ~ ErrorsFenced
         /\ \A k \in StageOps : Behind(h, k)
         /\ \A g \in sender.heads : g # h => Sig(g) = "none" /\ Swallowed(g)
         /\ failed # {} <=> Sig(h) = "error"
<1> DEFINE p == Here(h)
<1>1. sender \in Senders /\ p \in Ops
  BY DEF IInv, TypeInv, Here
<1>2. round > 0 /\ outcome = "pending"
  BY OpsType DEF IInv, TypeInv, HeadInv
<1>3. Downstream[p] = {} /\ \A k \in Ops : k # p => p \in Downstream[k]
  BY <1>1, DownstreamOrder
<1>4. ASSUME NEW j \in Ops, KindOf(j) = "join"
      PROVE  Beyond(p)
  BY <1>3, <1>4 DEF Beyond
<1>5. ASSUME NEW g \in sender.heads, g # h
      PROVE  Sig(g) = "none" /\ Swallowed(g)
  BY <1>1, <1>4, <1>5, Heads DEF IInv, JoinInv, Swallowed
<1>6. ASSUME NEW k \in StageOps
      PROVE  Behind(h, k)
  BY <1>3 DEF Behind, Passed, StageOps
<1>7. ASSUME NEW k, InFlight(k)
      PROVE  Sig(h) = "error" /\ ~ ErrorsFenced
  <2>1. k \in Ops /\ KindOf(k) = "stage" /\ ~ Fenced(ExecOf(k)) /\ p \in Downstream[k] /\ k # p
    BY <1>3, <1>7, Flying
  <2>2. ExecOf(k) # ExecOf(p)
    BY <2>1
  <2>3. PICK g \in sender.heads : Covers(g, k)
    BY <1>2, <1>7, <2>1 DEF IInv, CoverInv
  <2>4. g = h
    BY <2>1, <2>3, Exclusive
  <2>5. ~ MayFly(k, p)
    BY <1>1, <2>2, ExecEnvIs DEF MayFly, NamesInstance, KindOf
  <2>6. ~ FencedFrom(p, k)
    BY <1>3, <2>2 DEF FencedFrom
  <2> QED
    BY <2>1, <2>3, <2>4, <2>5, <2>6 DEF Covers, Swallowed
<1>8. failed # {} => Sig(h) = "error"
  <2>1. SUFFICES ASSUME failed # {}, Sig(h) # "error"
                 PROVE  FALSE
    OBVIOUS
  <2>2. \A g \in sender.heads : Sig(g) # "error"
    BY <1>5, <2>1
  <2>3. joinFails
    BY <1>2, <2>1, <2>2 DEF IInv, FailInv
  <2>4. joined # 2
    BY <1>2, <2>2, <2>3 DEF IInv, FailInv
  <2>5. PICK g \in sender.heads : Swallowed(g)
    BY <2>3 DEF IInv, JoinInv, TypeInv
  <2>6. Beyond(p)
    BY <1>4, <2>5 DEF Swallowed, IInv, TypeInv, Here
  <2> QED
    BY <2>4, <2>6 DEF IInv, JoinInv
<1>9. Sig(h) = "error" => failed # {}
  BY DEF IInv, FailInv
<1> HIDE DEF p
<1> QED
  BY <1>1, <1>2, <1>5, <1>6, <1>7, <1>8, <1>9 DEF p

\* The operation is over, or is repeated.
LEMMA CompleteInv ==
  ASSUME IInv, NEW h \in sender.heads, Complete(h)
  PROVE  IInv'
<1> DEFINE p == Here(h)
<1>1. /\ KindOf(p) = "sync_wait" /\ Sig(h) \in {"value", "error", "stopped"} /\ Fenced(ExecOf(p))
      /\ signal' = [signal EXCEPT ![h].sig = "none"]
      /\ UNCHANGED <<sender, round, queue, runs, failed, joined, joinFails>>
      /\ outcome' \in {"pending", "returned", "threw", "stopped"}
      /\ outcome' = "threw" <=> Sig(h) = "error"
      /\ outcome' \in {"pending", "returned"} <=> Sig(h) = "value"
      /\ outcome' = "returned" => ~ (round < sender.rounds)
  <2>1. /\ KindOf(p) = "sync_wait" /\ Sig(h) \in {"value", "error", "stopped"} /\ Fenced(ExecOf(p))
        /\ signal' = [signal EXCEPT ![h].sig = "none"]
        /\ UNCHANGED <<sender, round, queue, runs, failed, joined, joinFails>>
        /\ outcome' = CASE Sig(h) = "error"        -> "threw"
                        [] Sig(h) = "stopped"      -> "stopped"
                        [] Sig(h) = "value"        -> IF round < sender.rounds THEN "pending" ELSE "returned"
    BY DEF Complete, At, Here, Sig
  <2>2. CASE Sig(h) = "error"
    BY <2>1, <2>2
  <2>3. CASE Sig(h) = "stopped"
    BY <2>1, <2>3
  <2>4. CASE Sig(h) = "value" /\ round < sender.rounds
    BY <2>1, <2>4
  <2>5. CASE Sig(h) = "value" /\ ~ (round < sender.rounds)
    BY <2>1, <2>5
  <2> QED
    BY <2>1, <2>2, <2>3, <2>4, <2>5
<1>2. /\ sender \in Senders /\ p \in Ops /\ round > 0 /\ outcome = "pending"
      /\ \A k : InFlight(k) => Sig(h) = "error" /\ ~ ErrorsFenced
      /\ \A k \in StageOps : Behind(h, k)
      /\ \A g \in sender.heads : g # h => Sig(g) = "none" /\ Swallowed(g)
      /\ failed # {} <=> Sig(h) = "error"
  BY <1>1, AtSyncWait
<1>3. /\ signal'[h] = [at |-> p, sig |-> "none"]
      /\ \A g \in sender.heads : g # h => signal'[g] = signal[g]
      /\ signal' \in [sender.heads ->
                       [at : Ops, sig : {"none", "value", "executed", "error", "stopped"}]]
  BY <1>1 DEF IInv, TypeInv, Here
<1>4. /\ \A k : (InFlight(k)' <=> InFlight(k)) /\ (Launched(k)' <=> Launched(k))
      /\ OrderInv' /\ StageOps' = StageOps /\ StageOps \subseteq Ops /\ Ops' = Ops /\ Downstream' = Downstream
  BY <1>1, SameWork, SameSender DEF StageOps
<1>5. \A g \in sender.heads : Sig(g)' = "none"
  BY <1>2, <1>3 DEF Sig
<1>6. \A g \in sender.heads : signal'[g].at = signal[g].at
  BY <1>3 DEF p, Here
<1>7. \A g \in sender.heads :
         /\ Here(g)' = Here(g) /\ KindOf(Here(g))' = KindOf(Here(g))
         /\ (OnPath(g, Here(g))' <=> OnPath(g, Here(g))) /\ (Beyond(Here(g))' <=> Beyond(Here(g)))
  <2> TAKE g \in sender.heads
  <2> QED
    BY <1>1, <1>6, After DEF Here
<1>8. \A g \in sender.heads : ~ Going(g)' /\ (Swallowed(g)' <=> Swallowed(g)) /\ (Brought(g)' <=> Brought(g))
  <2> TAKE g \in sender.heads
  <2>1. ~ Going(g)'
    BY <1>5 DEF Going
  <2>2. Swallowed(g)' <=> Swallowed(g)
    <3>1. CASE g = h
      BY <1>1, <1>7, <3>1 DEF Swallowed
    <3>2. CASE g # h
      BY <1>2, <1>5, <1>7, <3>2 DEF Swallowed
    <3> QED
      BY <3>1, <3>2
  <2>3. Brought(g)' <=> Brought(g)
    BY <1>1, <2>2 DEF Brought
  <2> QED
    BY <2>1, <2>2, <2>3
<1>9. \A g \in sender.heads : \A k \in StageOps : Behind(g, k)' <=> Behind(g, k)
  <2> TAKE g \in sender.heads
  <2> TAKE k \in StageOps
  <2>1. Behind(g, k)' <=> Passed(g, Here(g), k)
    BY <1>1, <1>5, <1>6, After DEF Here, Sig
  <2>2. Sig(g) # "executed"
    BY <1>1, <1>2
  <2> QED
    BY <2>1, <2>2 DEF Behind
<1> HIDE DEF p
<1>10. TypeInv'
  BY <1>1, <1>3, <1>4, SameSender DEF IInv, TypeInv, KindOf, ExecOf
<1>11. HeadInv'
  <2>1. \A g \in sender.heads : Sig(g) = "none" => KindOf(Here(g)) \in {"join", "sync_wait"}
    BY <1>2 DEF IInv, HeadInv
  <2>2. \A g \in sender.heads : KindOf(Here(g)) \in {"join", "sync_wait"} /\ OnPath(g, Here(g))
    BY <1>1, <1>2, <2>1 DEF IInv, HeadInv, p
  <2> QED
    BY <1>1, <1>2, <1>5, <1>7, <2>2 DEF HeadInv
<1>12. JoinInv'
  BY <1>1, <1>2, <1>7, <1>8 DEF IInv, JoinInv
<1>13. FailInv'
  <2>1. \A f \in failed : sender.ops[f].throws /\ \E g \in sender.heads : Behind(g, f)'
    BY <1>9 DEF IInv, FailInv, TypeInv
  <2>2. joinFails => failed # {}
    BY DEF IInv, FailInv
  <2> QED
    BY <1>1, <1>2, <1>4, <1>5, <1>8, <2>1, <2>2 DEF FailInv
<1>14. LaunchInv'
  <2>1. failed \subseteq StageOps
    BY DEF IInv, TypeInv
  <2> QED
    BY <1>1, <1>4, <1>8, <1>9, <2>1 DEF IInv, LaunchInv
<1>15. CountInv'
  <2>1. Sig(h) = "value" => \A k \in StageOps : runs[k] = round /\ ~ InFlight(k)
    BY <1>2 DEF Going, Launched, IInv, LaunchInv
  <2>2. outcome' = "returned" => round = sender.rounds
    BY <1>1, <1>2, OpsType DEF IInv, TypeInv
  <2> QED
    BY <1>1, <1>2, <1>4, <2>1, <2>2 DEF IInv, CountInv
<1>16. CoverInv'
  BY <1>1, <1>2, <1>4, SameWays DEF CoverInv
<1> QED
  BY <1>4, <1>10, <1>11, <1>12, <1>13, <1>14, <1>15, <1>16 DEF IInv

\* The operation starts, again or for the first time.
LEMMA StartInv ==
  ASSUME IInv, Start
  PROVE  IInv'
<1>1. /\ outcome = "pending" /\ round < sender.rounds /\ round' = round + 1
      /\ signal' = [h \in sender.heads |-> [at |-> h, sig |-> sender.starts]]
      /\ UNCHANGED <<sender, queue, runs, failed, joined, joinFails, outcome>>
      /\ \A h \in sender.heads : Sig(h) = "none"
      /\ sender \in Senders /\ round \in Nat
  BY OpsType DEF Start, Idle, Sig, IInv, TypeInv
<1>2. /\ failed = {} /\ ~ joinFails /\ joined = 0
      /\ \A k \in StageOps : runs[k] = round
      /\ \A k : ~ InFlight(k)
  <2>1. CASE round = 0
    <3>1. \A k \in StageOps : runs[k] = 0 /\ ~ InFlight(k)
      BY <2>1 DEF IInv, CountInv
    <3> QED
      BY <2>1, <3>1, Flying DEF IInv, JoinInv
  <2>2. CASE round > 0
    <3>1. \A j \in Ops : KindOf(j) # "join"
      BY <1>1, <2>2, Heads
    <3>2. PICK h \in sender.heads : sender.heads = {h}
      BY <1>1, <3>1, Heads
    <3>3. ~ Swallowed(h)
      BY <3>1 DEF Swallowed, IInv, TypeInv, Here
    <3>4. joined = 0
      BY <3>2, <3>3 DEF IInv, JoinInv, TypeInv
    <3>5. ~ joinFails
      BY <3>4 DEF IInv, JoinInv
    <3>6. failed = {}
      BY <1>1, <3>5 DEF IInv, FailInv
    <3>7. KindOf(Here(h)) = "sync_wait"
      BY <1>1, <2>2, <3>3 DEF IInv, HeadInv, Swallowed
    <3>8. \A k \in StageOps : runs[k] = round /\ ~ InFlight(k)
      BY <1>1, <2>2, <3>7 DEF IInv, CountInv
    <3> QED
      BY <3>4, <3>5, <3>6, <3>8, Flying
  <2> QED
    BY <1>1, <2>1, <2>2
<1>3. /\ sender.starts \in {"value", "stopped"} /\ round' > 0 /\ round' - 1 = round
      /\ round' \in 0 .. sender.rounds /\ round' # round
  BY <1>1, OpsType
<1>4. \A h \in sender.heads :
        /\ h \in Ops /\ KindOf(h) # "join" /\ \A k \in Ops : h \notin Downstream[k]
  BY <1>1, Heads
<1>5. /\ StageOps' = StageOps /\ StageOps \subseteq Ops /\ Ops' = Ops /\ Downstream' = Downstream
      /\ \A k : InFlight(k)' <=> InFlight(k)
  BY <1>1, SameSender DEF StageOps, InFlight
<1>6. \A k \in StageOps : ~ Launched(k)'
  BY <1>1, <1>2, <1>3, <1>5 DEF Launched
<1>7. \A h \in sender.heads : signal'[h].at = h /\ signal'[h].sig = sender.starts
  BY <1>1
<1>8. \A h \in sender.heads :
        /\ Here(h)' = h /\ Sig(h)' = sender.starts /\ KindOf(Here(h))' = KindOf(h)
        /\ ~ Swallowed(h)' /\ OnPath(h, Here(h))' /\ ~ Beyond(Here(h))'
        /\ \A k \in Ops : ~ Behind(h, k)'
  <2> TAKE h \in sender.heads
  <2>1. /\ Here(h)' = h /\ Sig(h)' = sender.starts /\ KindOf(Here(h))' = KindOf(h)
        /\ ~ Swallowed(h)'
    BY <1>1, <1>3, <1>4, <1>7, After
  <2>2. OnPath(h, Here(h))' /\ ~ Beyond(Here(h))'
    BY <1>1, <1>4, <1>7, After DEF OnPath, Beyond
  <2>3. \A k \in Ops : ~ Behind(h, k)'
    BY <1>1, <1>3, <1>4, <1>7, After DEF Passed
  <2> QED
    BY <2>1, <2>2, <2>3
<1>9. TypeInv'
  <2>1. signal' \in [sender.heads ->
                      [at : Ops, sig : {"none", "value", "executed", "error", "stopped"}]]
    BY <1>1, <1>3, <1>4
  <2> QED
    BY <1>1, <1>3, <1>5, <2>1, SameSender DEF IInv, TypeInv, KindOf, ExecOf
<1>10. HeadInv'
  BY <1>1, <1>3, <1>8 DEF HeadInv
<1>11. JoinInv'
  BY <1>1, <1>2, <1>3, <1>8 DEF JoinInv
<1>12. FailInv'
  BY <1>1, <1>2, <1>3, <1>8 DEF FailInv
<1>13. LaunchInv'
  BY <1>1, <1>2, <1>5, <1>6, <1>8 DEF LaunchInv
<1>14. CountInv'
  BY <1>1, <1>2, <1>3, <1>5, <1>8 DEF CountInv
<1>15. CoverInv'
  BY <1>1, <1>2, <1>5 DEF CoverInv
<1>16. OrderInv'
  BY <1>1, <1>2, <1>5, SameSender DEF IInv, OrderInv
<1> QED
  BY <1>9, <1>10, <1>11, <1>12, <1>13, <1>14, <1>15, <1>16 DEF IInv

\* Nothing is enqueued, nothing has run, no signal is on its way.
LEMMA InitInv == Init => IInv
<1> SUFFICES ASSUME Init
             PROVE  IInv
  OBVIOUS
<1>1. /\ sender \in Senders /\ round = 0 /\ failed = {} /\ joined = 0 /\ joinFails = FALSE
      /\ outcome = "pending"
      /\ signal = [h \in sender.heads |-> [at |-> h, sig |-> "none"]]
      /\ queue = [e \in Execs |-> <<>>] /\ runs = [i \in StageOps |-> 0]
  BY DEF Init
<1>2. \A h \in sender.heads : h \in Ops /\ KindOf(h) # "join" /\ \A k \in Ops : h \notin Downstream[k]
  BY <1>1, Heads
<1>3. \A h \in sender.heads : Here(h) = h /\ Sig(h) = "none" /\ ~ Swallowed(h) /\ ~ Beyond(h)
  BY <1>1, <1>2 DEF Here, Sig, Swallowed, Beyond
<1>4. /\ \A e \in Execs : queue[e] = <<>> /\ DOMAIN queue[e] = {}
      /\ queue \in [Execs -> Seq(Ops)]
  BY <1>1, EmptySeq
<1>5. \A k : ~ InFlight(k)
  BY <1>4 DEF InFlight
<1>6. TypeInv
  <2>1. signal \in [sender.heads ->
                     [at : Ops, sig : {"none", "value", "executed", "error", "stopped"}]]
    BY <1>1, <1>2
  <2>2. round \in 0 .. sender.rounds /\ runs \in [StageOps -> Nat]
    BY <1>1, OpsType
  <2> QED
    BY <1>1, <1>4, <2>1, <2>2 DEF TypeInv
<1>7. HeadInv /\ JoinInv
  BY <1>1, <1>3 DEF HeadInv, OnPath, JoinInv
<1>8. FailInv /\ LaunchInv
  BY <1>1, <1>3 DEF FailInv, LaunchInv, Launched, Going, Brought
<1>9. CountInv /\ CoverInv
  BY <1>1, <1>5 DEF CountInv, CoverInv
<1>10. OrderInv
  BY <1>4, <1>5 DEF OrderInv
<1> QED
  BY <1>6, <1>7, <1>8, <1>9, <1>10 DEF IInv

\* The receivers that pass a signal on, after a fence or without.
LEMMA ForwardersMove ==
  ASSUME IInv, NEW h \in sender.heads,
         Continue(h) \/ ScheduleFrom(h) \/ ContinuesOn(h) \/ Region(h) \/ Forward(h)
  PROVE  Moves(h)
<1>1. CASE Continue(h)
  BY <1>1 DEF Continue, Moves, Passes, At, Here, Sig, unchangedData, Fences, Going
<1>2. CASE ScheduleFrom(h)
  BY <1>2 DEF ScheduleFrom, Moves, Passes, At, Here, Sig, unchangedData, Fences, Going
<1>3. CASE ContinuesOn(h)
  BY <1>3 DEF ContinuesOn, Moves, Passes, At, Here, Sig, unchangedData, Fences, Going
<1>4. CASE Region(h)
  BY <1>4 DEF Region, Moves, Passes, At, Here, Sig, unchangedData
<1>5. CASE Forward(h)
  BY <1>5 DEF Forward, Moves, Passes, At, Here, Sig, unchangedData, Going
<1> QED
  BY <1>1, <1>2, <1>3, <1>4, <1>5

\* One step of the next-state relation, action by action.
LEMMA NextInv == IInv /\ [Next]_vars => IInv'
<1> SUFFICES ASSUME IInv, [Next]_vars
             PROVE  IInv'
  OBVIOUS
<1>1. CASE Start
  BY <1>1, StartInv
<1>2. ASSUME NEW h \in sender.heads, Execute(h)
      PROVE  IInv'
  BY <1>2, ExecuteInv
<1>3. ASSUME NEW h \in sender.heads, Throw(h)
      PROVE  IInv'
  BY <1>3, ThrowInv
<1>4. ASSUME NEW h \in sender.heads, HostStage(h)
      PROVE  IInv'
  BY <1>4, HostStageInv
<1>5. ASSUME NEW h \in sender.heads,
             Continue(h) \/ ScheduleFrom(h) \/ ContinuesOn(h) \/ Region(h) \/ Forward(h)
      PROVE  IInv'
  BY <1>5, ForwardersMove, MovesInv
<1>6. ASSUME NEW h \in sender.heads, Stop(h)
      PROVE  IInv'
  BY <1>6, StopInv
<1>7. ASSUME NEW h \in sender.heads, Join(h)
      PROVE  IInv'
  BY <1>7, SwallowInv, CompleteJoinInv
<1>8. ASSUME NEW h \in sender.heads, Complete(h)
      PROVE  IInv'
  BY <1>8, CompleteInv
<1>9. ASSUME NEW e \in Execs, RunStage(e)
      PROVE  IInv'
  BY <1>9, RunStageInv
<1>10. CASE UNCHANGED vars
  <2>1. /\ UNCHANGED <<sender, round, signal, queue, runs, failed, joined, joinFails, outcome>>
    BY <1>10 DEF vars
  <2>2. /\ Ops' = Ops /\ StageOps' = StageOps /\ Downstream' = Downstream
        /\ \A i : KindOf(i)' = KindOf(i) /\ ExecOf(i)' = ExecOf(i) /\ To(i)' = To(i)
    BY <2>1, SameSender
  <2>3. TypeInv'
    BY <2>1, <2>2 DEF IInv, TypeInv, KindOf, ExecOf
  <2>4. HeadInv' /\ JoinInv'
    BY <2>1, <2>2 DEF IInv, HeadInv, JoinInv, OnPath, Here, Sig, Swallowed, Beyond, KindOf
  <2>5. \A h, k : Behind(h, k)' <=> Behind(h, k)
    BY <2>1, <2>2 DEF Behind, Passed, OnPath, Here, Sig, KindOf
  <2>6. FailInv'
    BY <2>1, <2>2, <2>5 DEF IInv, FailInv, Going, Here, Sig, KindOf
  <2>7. /\ \A k : (InFlight(k)' <=> InFlight(k)) /\ (Launched(k)' <=> Launched(k))
        /\ OrderInv'
    BY <2>1, SameWork
  <2>8. LaunchInv'
    BY <2>1, <2>2, <2>5, <2>7 DEF IInv, LaunchInv, Going, Brought, Swallowed, Here, Sig, KindOf
  <2>9. CountInv'
    BY <2>1, <2>2, <2>7 DEF IInv, CountInv, Here, Sig, KindOf
  <2>10. CoverInv'
    BY <2>1, <2>2, <2>5, <2>7, SameWays
       DEF IInv, CoverInv, Covers, Going, Swallowed, Here, Sig, KindOf
  <2> QED
    BY <2>3, <2>4, <2>6, <2>7, <2>8, <2>9, <2>10 DEF IInv
<1> QED
  BY <1>1, <1>2, <1>3, <1>4, <1>5, <1>6, <1>7, <1>8, <1>9, <1>10
     DEF Next, HostStep, Terminated

-----------------------------------------------------------------------------
(***************************************************************************)
(* What follows from the invariant.                                        *)
(***************************************************************************)

\* The inductive invariant holds in every reachable state of every set of senders.
THEOREM Invariant == Spec => []IInv
<1>1. Init => IInv
  BY InitInv
<1>2. IInv /\ [Next]_vars => IInv'
  BY NextInv
<1> QED
  BY <1>1, <1>2, PTL DEF Spec

\* The type invariant, with what it says of the queues of the instances.
THEOREM ExecTypeCorrect == Spec => []ExecTypeOK
<1>1. IInv => ExecTypeOK
  <2> SUFFICES ASSUME IInv
               PROVE  ExecTypeOK
    OBVIOUS
  <2>1. sender \in Senders /\ StageOps \subseteq Ops
    BY DEF IInv, TypeInv, StageOps
  <2>2. ASSUME NEW e \in Execs
        PROVE  queue[e] \in Seq({i \in StageOps : ExecOf(i) = e}) /\ IsInjective(queue[e])
    <3>1. queue[e] \in Seq(Ops)
      BY DEF IInv, TypeInv
    <3>2. \A n \in DOMAIN queue[e] : queue[e][n] \in {i \in StageOps : ExecOf(i) = e}
      BY <3>1, ElementOfSeq DEF IInv, TypeInv, StageOps
    <3>3. queue[e] \in Seq({i \in StageOps : ExecOf(i) = e})
      BY <3>1, <3>2, SeqDef, LenProperties
    <3>4. IsInjective(queue[e])
      BY DEF IsInjective, IInv, TypeInv
    <3> QED
      BY <3>3, <3>4
  <2>3. runs \in [StageOps -> 0 .. sender.rounds]
    <3>1. runs \in [StageOps -> Nat] /\ round \in 0 .. sender.rounds /\ sender.rounds \in Nat
      BY <2>1, OpsType DEF IInv, TypeInv
    <3>2. \A k \in StageOps : runs[k] \in 0 .. sender.rounds
      BY <3>1 DEF IInv, CountInv
    <3> QED
      BY <3>1, <3>2
  <2>4. joined \in 0 .. Cardinality(sender.heads)
    <3>1. CASE \E j \in Ops : KindOf(j) = "join"
      BY <2>1, <3>1, HeadCount DEF IInv, TypeInv
    <3>2. CASE \A j \in Ops : KindOf(j) # "join"
      <4>1. \A h \in sender.heads : ~ Swallowed(h)
        BY <3>2 DEF Swallowed, IInv, TypeInv, Here
      <4>2. joined = 0
        BY <4>1 DEF IInv, JoinInv, TypeInv
      <4> QED
        BY <2>1, <3>2, <4>2, HeadCount
    <3> QED
      BY <3>1, <3>2
  <2> QED
    BY <2>2, <2>3, <2>4 DEF ExecTypeOK, IInv, TypeInv
<1> QED
  BY <1>1, Invariant, PTL

\* Nothing downstream of a stage that threw is enqueued or runs, and sync_wait
\* throws if and only if a stage did.
THEOREM FailureStops == Spec => []FailureStopsDownstream
<1>1. IInv => FailureStopsDownstream
  <2> SUFFICES ASSUME IInv
               PROVE  FailureStopsDownstream
    OBVIOUS
  <2>1. ASSUME NEW f \in failed, NEW i \in StageOps, i \in Downstream[f]
        PROVE  runs[i] = round - 1 /\ \A e \in Execs : ~ Contains(queue[e], i)
    <3>1. round > 0
      BY <2>1 DEF IInv, JoinInv, TypeInv
    <3>2. ~ Launched(i)
      BY <2>1 DEF IInv, LaunchInv
    <3>3. runs[i] = round - 1 /\ ~ InFlight(i)
      BY <3>1, <3>2 DEF Launched, IInv, CountInv
    <3>4. ASSUME NEW e \in Execs, Contains(queue[e], i)
          PROVE  FALSE
      <4>1. queue[e] \in Seq(Ops)
        BY DEF IInv, TypeInv
      <4> QED
        BY <3>3, <3>4, <4>1, LenProperties DEF Contains, InFlight
    <3> QED
      BY <3>3, <3>4
  <2>2. outcome = "threw" => failed # {}
    BY DEF IInv, FailInv
  <2>3. outcome = "returned" => failed = {}
    BY DEF IInv, FailInv
  <2> QED
    BY <2>1, <2>2, <2>3 DEF FailureStopsDownstream
<1> QED
  BY <1>1, Invariant, PTL

\* On every way out of sync_wait but an exception.
SynchronizedUnlessThrown ==
  outcome \in {"returned", "stopped"} => \A e \in Execs : queue[e] = <<>>

\* Instances that hold no stage are idle.
LEMMA NothingFlies ==
  ASSUME IInv, \A k \in Ops : ~ InFlight(k), NEW e \in Execs
  PROVE  queue[e] = <<>>
<1>1. queue[e] \in Seq(Ops)
  BY DEF IInv, TypeInv
<1>2. SUFFICES ASSUME queue[e] # <<>>
               PROVE  FALSE
  OBVIOUS
<1>3. 1 \in DOMAIN queue[e] /\ queue[e][1] \in Ops
  BY <1>1, <1>2, TailElements, ElementOfSeq, LenProperties
<1> QED
  BY <1>3 DEF InFlight

\* No stage is in flight once sync_wait has returned, whatever fences were
\* skipped; nor if it throws, provided that the fences which run on an error are
\* where the error leaves something behind.
THEOREM Synchronized ==
  Spec => /\ [](ErrorsFenced => LaunchedWorkIsSynchronized)
          /\ []SynchronizedUnlessThrown
<1>1. IInv => (ErrorsFenced => LaunchedWorkIsSynchronized)
  BY NothingFlies DEF LaunchedWorkIsSynchronized, IInv, CoverInv
<1>2. IInv => SynchronizedUnlessThrown
  BY NothingFlies DEF SynchronizedUnlessThrown, IInv, CoverInv
<1> QED
  BY <1>1, <1>2, Invariant, PTL

-----------------------------------------------------------------------------
(***************************************************************************)
(* Senders on execution-space instances keep the promise of Pipeline if    *)
(* they are careful: a stage runs only when all stages before it have run, *)
(* although the host thread is far ahead of the instances.                 *)
(***************************************************************************)

\* No step changes the sender, nor what it has to be like.
LEMMA Stays ==
  ASSUME IInv, [Next]_vars
  PROVE  /\ sender' = sender
         /\ Careful => Careful'
<1>1. sender' = sender
  BY DEF Next, HostStep, vars, Start, Execute, Throw, Continue, HostStage, ScheduleFrom,
         ContinuesOn, Region, Forward, Stop, Join, Complete, RunStage, Terminated, unchangedData
<1>2. HostStagesWait' <=> HostStagesWait
  BY <1>1, SameSender, SameWays DEF HostStagesWait
<1> QED
  BY <1>1, <1>2, SameWays DEF Careful

\* Stages, their order and the number of rounds do not change.
LEMMA SamePromise ==
  ASSUME sender' = sender
  PROVE  UNCHANGED Promise!shape
BY SameSender DEF Promise!shape, Upstream

\* Where a stage may run, so may it in the abstract specification.
LEMMA Turn ==
  ASSUME IInv, NEW s \in StageOps, outcome = "pending", round > 0, runs[s] = round - 1,
         \A t \in StageOps : s \in Downstream[t] => Launched(t) /\ ~ InFlight(t),
         runs' = [runs EXCEPT ![s] = @ + 1], UNCHANGED <<sender, outcome>>
  PROVE  Promise!Run(s)
<1>1. sender \in Senders /\ round \in 0 .. sender.rounds /\ sender.rounds \in Nat
  BY OpsType DEF IInv, TypeInv
<1>2. \A t \in StageOps : runs[t] \in {round - 1, round}
  BY DEF IInv, CountInv
<1>3. \A t \in StageOps \cap Upstream[s] : runs[t] = round
  BY DEF Upstream, Launched, StageOps
<1>4. UNCHANGED Promise!shape
  BY SamePromise
<1> QED
  BY <1>1, <1>2, <1>3, <1>4 DEF Promise!Run

\* Instances run their stages first in, first out.
LEMMA RunStageImplements ==
  ASSUME IInv, Careful, NEW e \in Execs, RunStage(e)
  PROVE  \E s \in StageOps : Promise!Run(s)
<1> DEFINE s == Head(queue[e])
<1>1. queue[e] \in Seq(Ops) /\ queue[e] # <<>>
  BY DEF RunStage, IInv, TypeInv
<1>2. 1 \in DOMAIN queue[e] /\ s = queue[e][1]
  BY <1>1, LenProperties
<1>3. InFlight(s)
  BY <1>2 DEF InFlight
<1>4. s \in StageOps /\ s \in Ops /\ ExecOf(s) = e
  BY <1>2, <1>3, Flying DEF IInv, TypeInv
<1>5. outcome = "pending"
  BY <1>3, <1>4 DEF IInv, CoverInv, Careful
<1>6. round > 0 /\ runs[s] = round - 1
  BY <1>3, <1>4 DEF IInv, CountInv, TypeInv
<1>7. ASSUME NEW t \in StageOps, s \in Downstream[t]
      PROVE  Launched(t) /\ ~ InFlight(t)
  <2>1. Launched(t)
    BY <1>3, <1>4, <1>6, <1>7 DEF Launched, IInv, LaunchInv
  <2>2. ASSUME InFlight(t)
        PROVE  FALSE
    <3>1. t \in Ops /\ \E n \in DOMAIN queue[ExecOf(t)] : queue[ExecOf(t)][n] = t
      BY <2>2, Flying
    <3>2. ExecOf(t) = e
      BY <1>3, <1>4, <1>7, <2>2, <3>1 DEF IInv, OrderInv
    <3>3. PICK n \in DOMAIN queue[e] : queue[e][n] = t
      BY <3>1, <3>2
    <3>4. t # s
      BY <1>4, <1>7, DownstreamOrder DEF IInv, TypeInv
    <3>5. 1 < n
      BY <1>1, <1>2, <3>3, <3>4, LenProperties
    <3> QED
      BY <1>2, <1>7, <3>3, <3>5 DEF IInv, OrderInv
  <2> QED
    BY <2>1, <2>2
<1>8. runs' = [runs EXCEPT ![s] = @ + 1] /\ UNCHANGED <<sender, outcome>>
  BY DEF RunStage
<1> HIDE DEF s
<1> QED
  BY <1>4, <1>5, <1>6, <1>7, <1>8, Turn

\* A host thread runs a stage only once nothing before it is in flight.
LEMMA HostStageImplements ==
  ASSUME IInv, Careful, NEW h \in sender.heads, HostStage(h)
  PROVE  \E s \in StageOps : Promise!Run(s)
<1> DEFINE s == Here(h)
<1>1. /\ KindOf(s) = "host_stage" /\ Sig(h) = "value"
      /\ runs' = [runs EXCEPT ![s] = @ + 1] /\ UNCHANGED <<sender, outcome>>
  BY DEF HostStage, At, Here, Sig
<1>2. s \in StageOps /\ s \in Ops /\ round > 0 /\ runs[s] = round - 1
  BY <1>1, NotYet DEF StageOps
<1>3. outcome = "pending"
  BY <1>1 DEF IInv, HeadInv
<1>4. ASSUME NEW t \in StageOps, s \in Downstream[t]
      PROVE  Launched(t) /\ ~ InFlight(t)
  <2>1. Behind(h, t)
    BY <1>1, <1>4 DEF Behind, Passed
  <2>2. Launched(t)
    BY <1>1, <2>1 DEF Going, IInv, LaunchInv
  <2>3. ASSUME InFlight(t)
        PROVE  FALSE
    <3>1. t \in Ops
      BY <2>3, Flying
    <3>2. PICK g \in sender.heads : Covers(g, t)
      BY <1>3, <2>3, <3>1 DEF IInv, CoverInv
    <3>3. g = h
      BY <1>1, <1>4, <3>1, <3>2, Exclusive
    <3>4. Here(h) # t
      BY <1>2, <1>4, DownstreamOrder DEF IInv, TypeInv
    <3>5. MayFly(t, s)
      BY <1>1, <3>2, <3>3, <3>4 DEF Covers, Swallowed
    <3> QED
      BY <1>1, <1>2, <3>1, <3>5 DEF Careful, HostStagesWait
  <2> QED
    BY <2>2, <2>3
<1> HIDE DEF s
<1> QED
  BY <1>1, <1>2, <1>3, <1>4, Turn

\* sync_wait returns, or throws or tells that it was stopped, or goes round again.
LEMMA CompleteImplements ==
  ASSUME IInv, NEW h \in sender.heads, Complete(h)
  PROVE  Promise!Return \/ Promise!GiveUp \/ UNCHANGED Promise!pipelineVars
<1>1. UNCHANGED Promise!shape /\ UNCHANGED <<sender, runs>> /\ StageOps' = StageOps
  BY SamePromise, SameSender DEF Complete
<1>2. outcome = "pending"
  BY DEF Complete, At, IInv, HeadInv, Sig
<1>3. TypeInv' /\ CountInv'
  BY CompleteInv DEF IInv
<1>4. CASE outcome' = "returned"
  <2>1. \A k \in StageOps : runs[k] = sender.rounds
    BY <1>1, <1>3, <1>4 DEF CountInv
  <2> QED
    BY <1>1, <1>2, <1>4, <2>1 DEF Promise!Return
<1>5. CASE outcome' \in {"threw", "stopped"}
  BY <1>1, <1>2, <1>5 DEF Promise!GiveUp
<1>6. CASE outcome' = "pending"
  BY <1>1, <1>2, <1>6 DEF Promise!pipelineVars
<1> QED
  BY <1>3, <1>4, <1>5, <1>6 DEF TypeInv

\* No stage has run.
LEMMA InitImplements == Init => Promise!Init
BY DEF Init, Promise!Init

\* Every other step stutters.
LEMMA StepImplements ==
  ASSUME IInv, Careful, [Next]_vars
  PROVE  [Promise!Next]_(Promise!pipelineVars)
<1>1. UNCHANGED Promise!shape
  BY Stays, SamePromise
<1>2. ASSUME NEW h \in sender.heads, Complete(h)
      PROVE  [Promise!Next]_(Promise!pipelineVars)
  BY <1>2, CompleteImplements DEF Promise!Next
<1>3. ASSUME NEW h \in sender.heads, HostStage(h)
      PROVE  [Promise!Next]_(Promise!pipelineVars)
  BY <1>3, HostStageImplements DEF Promise!Next
<1>4. ASSUME NEW e \in Execs, RunStage(e)
      PROVE  [Promise!Next]_(Promise!pipelineVars)
  BY <1>4, RunStageImplements DEF Promise!Next
<1>5. CASE UNCHANGED <<runs, outcome>>
  BY <1>1, <1>5 DEF Promise!pipelineVars
<1>6. \/ \E h \in sender.heads : Complete(h) \/ HostStage(h)
      \/ \E e \in Execs : RunStage(e)
      \/ UNCHANGED <<runs, outcome>>
  BY DEF Next, HostStep, vars, Start, Execute, Throw, Continue, ScheduleFrom,
         ContinuesOn, Region, Forward, Stop, Join, Terminated, unchangedData
<1> QED
  BY <1>2, <1>3, <1>4, <1>5, <1>6

\* A sender that is careful keeps its promise on any number of instances, with all
\* the fences that its receivers skip: its stages run in their order, each once a
\* round, and none runs after sync_wait is over.
THEOREM Implements == Spec /\ Careful => KeepsPromise
<1>1. Init => Promise!Init
  BY InitImplements
<1>2. IInv /\ Careful /\ [Next]_vars => [Promise!Next]_(Promise!pipelineVars)
  BY StepImplements
<1>3. IInv /\ Careful /\ [Next]_vars => Careful'
  BY Stays
<1> QED
  BY <1>1, <1>2, <1>3, Invariant, PTL DEF Spec, KeepsPromise, Promise!Spec

-----------------------------------------------------------------------------
(***************************************************************************)
(* Which chains are careful.  What Chain makes of adaptors is orderly,     *)
(* whatever the adaptors; whether its errors find a fence is for the       *)
(* program to say.                                                         *)
(***************************************************************************)

\* Receivers that begin at another place than that of the receiver before.
Enters(i) == KindOf(i) \in {"continues_on", "transfer"}

\* What Chain makes of adaptors: each receiver works at the place of the one before it,
\* and an instance is left with a ScheduleFromReceiver.
Orderly ==
  /\ \A i \in Ops :
       /\ KindOf(i) # "join"
       /\ KindOf(i) = "host_stage" => ExecOf(i) = Host
       /\ KindOf(i) = "continues_on" => ExecOf(i) # Host
       /\ KindOf(i) = "transfer" => ExecOf(i) = Host
  /\ \A i \in Ops : KindOf(i) # "sync_wait" =>
       IF Enters(To(i)) THEN KindOf(i) = "schedule_from" \/ ExecOf(i) = Host
       ELSE KindOf(i) # "schedule_from" /\ ExecOf(To(i)) = ExecOf(i)

\* When a stage may throw, the instance of each stage before it was left, or is fenced
\* by a region or by sync_wait, before that throw or on the way of its error.
ThrowsAreFenced ==
  \A i, k \in Ops :
    /\ sender.ops[i].throws /\ KindOf(i) \in {"stage", "host_stage"}
    /\ KindOf(k) = "stage" /\ i \in Downstream[k]
    => \/ \E m \in Ops : m \in Downstream[k] /\ (m = i \/ i \in Downstream[m]) /\ ExecOf(m) # ExecOf(k)
       \/ FencedFrom(k, k)

\* A chain has no branches.
LEMMA Line ==
  ASSUME sender \in Senders, Orderly
  PROVE  /\ \A i \in Ops : KindOf(i) # "sync_wait" => To(i) = i + 1 /\ i + 1 \in Ops
         /\ \A i, k \in Ops : k \in Downstream[i] <=> i < k
<1>1. PICK b \in Nat, j \in Nat :
         /\ Shape(b, j)
         /\ \A i \in Ops : Downstream[i] \subseteq Ops
         /\ \A i, k \in Ops : k \in Downstream[i] <=> i < k /\ ~(i < b /\ b <= k /\ k < j)
  BY Ways
<1>2. j \notin Ops
  BY <1>1 DEF Shape, Orderly
<1>3. b = j /\ j = LastOp + 1
  BY <1>1, <1>2, OpsType DEF Shape
<1> QED
  BY <1>1, <1>3, OpsType DEF Shape

\* On an instance, the environment names it.
LEMMA EnvironmentIs ==
  ASSUME sender \in Senders, Orderly, NEW i \in Ops, ExecOf(i) # Host
  PROVE  ExecEnv[i] = ExecOf(i)
<1> DEFINE Bad == {m \in Ops : ExecOf(m) # Host /\ ExecEnv[m] # ExecOf(m)}
           Less == {ss \in Nat \X Nat : ss[1] < ss[2]}
           T == {LastOp - m : m \in Bad}
<1>1. SUFFICES ASSUME i \in Bad PROVE FALSE
  OBVIOUS
<1>2. IsWellFoundedOn(Less, Nat)
  BY NatLessThanWellFounded DEF OpToRel
<1>3. T \subseteq Nat /\ LastOp - i \in T
  BY <1>1, OpsType
<1>4. PICK x \in T : \A y \in T : <<y, x>> \notin Less
  <2> HIDE DEF Less, T
  <2> QED
    BY <1>2, <1>3, WFMin
<1>5. PICK m \in Bad : x = LastOp - m
  BY <1>4
<1>6. m \in Ops /\ ~NamesInstance(sender.ops[m]) /\ ExecEnv[m] = ExecEnv[To(m)]
  BY <1>5, ExecEnvIs
<1>7. /\ KindOf(m) # "sync_wait" /\ KindOf(m) # "schedule_from"
      /\ To(m) = m + 1 /\ m + 1 \in Ops
  BY <1>6, Line DEF NamesInstance, KindOf
<1>8. ~Enters(To(m)) /\ ExecOf(To(m)) = ExecOf(m)
  BY <1>5, <1>6, <1>7 DEF Orderly
<1>9. m + 1 \in Bad
  BY <1>5, <1>6, <1>7, <1>8
<1>10. LastOp - (m + 1) \in T /\ LastOp - (m + 1) < x
  BY <1>5, <1>6, <1>9, OpsType
<1>11. <<LastOp - (m + 1), x>> \in Less
  BY <1>3, <1>4, <1>10
<1> QED
  BY <1>4, <1>10, <1>11

\* What may be in flight has not been left.
LEMMA FliesHere ==
  ASSUME sender \in Senders, Orderly, NEW k \in Ops, NEW p \in Ops, MayFly(k, p)
  PROVE  \A m \in k .. p : ExecOf(m) = ExecOf(k)
<1> DEFINE Bad == {m \in k .. p : ExecOf(m) # ExecOf(k)}
           Less == {ss \in Nat \X Nat : ss[1] < ss[2]}
<1>1. KindOf(k) = "stage" /\ k < p /\ ExecOf(k) # Host
  BY Line, ExecAssumption DEF MayFly, WellFormed, KindOf, ExecOf, Ops
<1>2. SUFFICES ASSUME NEW bad \in Bad PROVE FALSE
  OBVIOUS
<1>3. IsWellFoundedOn(Less, Nat)
  BY NatLessThanWellFounded DEF OpToRel
<1>4. Bad \subseteq Nat /\ Bad \subseteq Ops
  BY OpsType
<1>5. PICK m \in Bad : \A y \in Bad : <<y, m>> \notin Less
  <2> HIDE DEF Less, Bad
  <2> QED
    BY <1>2, <1>3, <1>4, WFMin
<1>6. m \in k .. p /\ ExecOf(m) # ExecOf(k) /\ m # k /\ m \in Ops
  BY <1>4, <1>5
<1> DEFINE n == m - 1
<1>7. n \in k .. p /\ n \in Ops /\ m = n + 1 /\ n < m /\ n < p
  BY <1>6, OpsType
<1>8. n \notin Bad
  <2>1. n \in Nat /\ m \in Nat
    BY <1>6, <1>7, OpsType
  <2>2. <<n, m>> \in Less
    BY <1>7, <2>1
  <2> HIDE DEF Less, n, Bad
  <2> QED
    BY <1>5, <2>2
<1> HIDE DEF n
<1>9. ExecOf(n) = ExecOf(k)
  BY <1>7, <1>8
<1>10. KindOf(n) # "sync_wait" /\ To(n) = m
  BY <1>7, Line, OpsType
<1>11. KindOf(n) = "schedule_from"
  BY <1>1, <1>6, <1>7, <1>9, <1>10 DEF Orderly
<1>12. n # k /\ n \in Downstream[k] /\ p \in Downstream[n]
  BY <1>1, <1>7, <1>11, Line
<1>13. SkipScheduleFrom(n)
  BY <1>7, <1>9, <1>11, <1>12 DEF MayFly, Fences
<1>14. KindOf(m) = "continues_on" /\ ExecEnv[m] = ExecOf(k)
  BY <1>9, <1>10, <1>13 DEF SkipScheduleFrom
<1> QED
  BY <1>1, <1>6, <1>14, EnvironmentIs DEF Orderly

\* A chain is careful if what throws in it is fenced.
LEMMA OrderlyIsCareful ==
  ASSUME sender \in Senders, Orderly, ThrowsAreFenced
  PROVE  Careful
<1>1. HostStagesWait
  <2> SUFFICES ASSUME NEW i \in Ops, NEW k \in Ops, KindOf(i) = "host_stage", MayFly(k, i)
               PROVE  FALSE
    BY DEF HostStagesWait
  <2>1. KindOf(k) = "stage" /\ k < i /\ ExecOf(k) # Host
    BY Line, ExecAssumption DEF MayFly, WellFormed, KindOf, ExecOf, Ops
  <2>2. i \in k .. i
    BY <2>1, OpsType
  <2> QED
    BY <2>1, <2>2, FliesHere DEF Orderly
<1>2. ErrorsFenced
  <2> SUFFICES ASSUME NEW i \in Ops, NEW k \in Ops, Raises(i), MayFly(k, i)
               PROVE  FencedFrom(To(i), k)
    BY DEF ErrorsFenced
  <2>1. /\ KindOf(k) = "stage" /\ i \in Downstream[k]
        /\ KindOf(i) \in {"stage", "host_stage"} /\ sender.ops[i].throws
    BY DEF MayFly, Raises, Orderly
  <2>2. \A m \in Ops : m \in Downstream[k] /\ (m = i \/ i \in Downstream[m]) => ExecOf(m) = ExecOf(k)
    <3> SUFFICES ASSUME NEW m \in Ops, m \in Downstream[k], m = i \/ i \in Downstream[m]
                 PROVE  ExecOf(m) = ExecOf(k)
      OBVIOUS
    <3>1. m \in k .. i
      BY Line, OpsType
    <3> QED
      BY <3>1, FliesHere
  <2>3. FencedFrom(k, k)
    BY <2>1, <2>2 DEF ThrowsAreFenced
  <2>4. PICK m \in Ops :
          /\ m = k \/ m \in Downstream[k]
          /\ KindOf(m) \in {"region", "sync_wait"} /\ ExecOf(m) = ExecOf(k)
    BY <2>3 DEF FencedFrom
  <2>5. i \notin Downstream[m]
    BY <2>4 DEF MayFly, Fences
  <2>6. m # i /\ m # k /\ KindOf(i) # "sync_wait"
    BY <2>1, <2>4
  <2>7. k < i /\ k < m /\ i < m
    BY <2>1, <2>4, <2>5, <2>6, Line, OpsType
  <2>8. m = To(i) \/ m \in Downstream[To(i)]
    BY <2>6, <2>7, Line, DownstreamOrder
  <2> QED
    BY <2>4, <2>8 DEF FencedFrom
<1> QED
  BY <1>1, <1>2 DEF Careful

\* And only then.
LEMMA CarefulIsFenced ==
  ASSUME sender \in Senders, Orderly, Careful
  PROVE  ThrowsAreFenced
<1> SUFFICES ASSUME NEW i \in Ops, NEW k \in Ops,
                    sender.ops[i].throws, KindOf(i) \in {"stage", "host_stage"},
                    KindOf(k) = "stage", i \in Downstream[k],
                    \A m \in Ops : m \in Downstream[k] /\ (m = i \/ i \in Downstream[m]) => ExecOf(m) = ExecOf(k),
                    ~FencedFrom(k, k)
             PROVE  FALSE
  BY DEF ThrowsAreFenced
<1>1. ExecOf(k) # Host /\ k < i
  BY Line, ExecAssumption DEF WellFormed, KindOf, ExecOf, Ops
<1>2. ASSUME NEW m \in Ops, m = k \/ m \in Downstream[k], m = i \/ i \in Downstream[m]
      PROVE  ExecOf(m) = ExecOf(k) /\ ExecEnv[m] = ExecOf(k)
  BY <1>1, <1>2, EnvironmentIs
<1>3. ASSUME NEW m \in Ops, m = k \/ m \in Downstream[k], i \in Downstream[m]
      PROVE  ~Fences(m)
  <2>1. KindOf(m) \notin {"region", "sync_wait"}
    BY <1>2, <1>3 DEF FencedFrom
  <2>2. /\ To(m) = m + 1 /\ To(m) \in Ops
        /\ To(m) \in Downstream[k] /\ (To(m) = i \/ i \in Downstream[To(m)])
    BY <1>3, <2>1, Line, OpsType
  <2>3. ExecOf(To(m)) = ExecOf(k) /\ ExecEnv[To(m)] = ExecOf(k)
    BY <1>2, <2>2
  <2>4. KindOf(m) = "stage" => SkipContinuation(m)
    BY <1>1, <2>3 DEF SkipContinuation, Queryable
  <2>5. KindOf(m) = "schedule_from" => SkipScheduleFrom(m)
    <3> SUFFICES ASSUME KindOf(m) = "schedule_from" PROVE SkipScheduleFrom(m)
      OBVIOUS
    <3>1. KindOf(To(m)) \in {"continues_on", "transfer"}
      BY <2>1 DEF Orderly, Enters
    <3>2. KindOf(To(m)) = "continues_on"
      BY <1>1, <2>2, <2>3, <3>1 DEF Orderly
    <3> QED
      BY <1>1, <1>2, <1>3, <2>3, <3>2 DEF SkipScheduleFrom, Queryable
  <2> QED
    BY <2>1, <2>4, <2>5 DEF Fences
<1>4. MayFly(k, i)
  BY <1>2, <1>3 DEF MayFly
<1>5. FencedFrom(To(i), k) /\ KindOf(i) # "sync_wait"
  BY <1>4 DEF Careful, ErrorsFenced, Raises
<1>6. PICK m \in Ops :
        /\ m = To(i) \/ m \in Downstream[To(i)]
        /\ KindOf(m) \in {"region", "sync_wait"} /\ ExecOf(m) = ExecOf(k)
  BY <1>5 DEF FencedFrom
<1>7. m \in Downstream[k]
  BY <1>1, <1>5, <1>6, Line, DownstreamOrder, OpsType
<1> QED
  BY <1>6, <1>7 DEF FencedFrom

\* The fences that then() and schedule_from() leave in a chain, when the environment of
\* their receiver names an instance, are enough if and only if its throws are fenced.
THEOREM ChainsAreCareful == Spec => [](Orderly => (Careful <=> ThrowsAreFenced))
<1>1. IInv => (Orderly => (Careful <=> ThrowsAreFenced))
  BY OrderlyIsCareful, CarefulIsFenced DEF IInv, TypeInv
<1> QED
  BY <1>1, Invariant, PTL

\* Such a chain runs its stages in order on whatever instances they are, and leaves none of
\* them behind.
THEOREM ChainsKeepPromise ==
  Spec /\ Orderly /\ ThrowsAreFenced => KeepsPromise /\ []LaunchedWorkIsSynchronized
<1>1. Init /\ Orderly /\ ThrowsAreFenced => Careful
  BY InitInv, OrderlyIsCareful DEF IInv, TypeInv
<1>2. IInv /\ Careful /\ [Next]_vars => Careful'
  BY Stays
<1>3. Careful => ErrorsFenced
  BY DEF Careful
<1> QED
  BY <1>1, <1>2, <1>3, Invariant, Implements, Synchronized, PTL DEF Spec
=============================================================================
