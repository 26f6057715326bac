--------------------------- MODULE KernelsProofs ---------------------------
(***************************************************************************)
(* Facts about Kernels that the proofs about the solvers rest on: on which *)
(* streams work is in flight after it was enqueued, after a kernel has run *)
(* and after a fence.                                                      *)
(***************************************************************************)
EXTENDS Kernels, SequenceTheorems, TLAPS

\* Some sequence, whatever its elements are.
Sequence(s) == s \in Seq(Range(s))

\* A piece of work that only uses the streams in S.
WorkOn(work, S) == Sequence(work) /\ \A w \in Range(work) : w.stream \in S

\* Nothing is in flight but on the streams in S.
InFlightOn(S) == \A t \in pending : t.stream \in S

-----------------------------------------------------------------------------
(***************************************************************************)
(* Sequences.                                                              *)
(***************************************************************************)

\* A sequence is a function on an initial segment of the positive numbers.
LEMMA SequenceMade ==
  ASSUME NEW n \in Nat, NEW s, s = [i \in 1 .. n |-> s[i]]
  PROVE  Sequence(s)
<1>1. DOMAIN s = 1 .. n
  OBVIOUS
<1>2. \A i \in 1 .. n : s[i] \in Range(s)
  BY <1>1 DEF Range
<1>3. s \in [1 .. n -> Range(s)]
  BY <1>2
<1> QED
  BY <1>3, SeqDef DEF Sequence

LEMMA TupleSequences ==
  ASSUME NEW a, NEW b, NEW c
  PROVE  /\ Sequence(<<>>)
         /\ Sequence(<<a>>)
         /\ Sequence(<<a, b>>)
         /\ Sequence(<<a, b, c>>)
BY DEF Sequence, Range

\* Tuples of names.
LEMMA NoName == Range(<<>>) = {}
BY DEF Range

LEMMA OneName ==
  ASSUME NEW a
  PROVE  Range(<<a>>) = {a}
BY DEF Range

LEMMA TwoNames ==
  ASSUME NEW a, NEW b
  PROVE  Range(<<a, b>>) = {a, b}
BY DEF Range

LEMMA ThreeNames ==
  ASSUME NEW a, NEW b, NEW c
  PROVE  Range(<<a, b, c>>) = {a, b, c}
BY DEF Range

LEMMA SequenceDomain ==
  ASSUME NEW s, Sequence(s)
  PROVE  DOMAIN s = 1 .. Len(s) /\ Len(s) \in Nat
BY DEF Sequence

\* One sequence after another one.
LEMMA Concatenation ==
  ASSUME NEW s, NEW t, Sequence(s), Sequence(t)
  PROVE  Sequence(s \o t) /\ Range(s \o t) \subseteq Range(s) \cup Range(t)
<1> DEFINE S == Range(s) \cup Range(t)
<1>1. s \in Seq(S) /\ t \in Seq(S)
  BY DEF Sequence, Range
<1>2. s \o t \in [1 .. Len(s \o t) -> S] /\ Len(s \o t) \in Nat
  BY <1>1, ConcatProperties, LenProperties
<1>3. Sequence(s \o t)
  BY <1>2, SequenceMade
<1>4. Range(s \o t) \subseteq S
  BY <1>2 DEF Range
<1> QED
  BY <1>3, <1>4

-----------------------------------------------------------------------------
(***************************************************************************)
(* Work and streams.                                                       *)
(***************************************************************************)

\* A chain of kernels on one of the streams leaves work on them.
LEMMA ThenOn ==
  ASSUME NEW S, NEW work, WorkOn(work, S), NEW stream \in S, NEW from,
         NEW kernels, Sequence(kernels)
  PROVE  WorkOn(Then(work, stream, from, kernels), S)
<1> DEFINE new == [i \in DOMAIN kernels |->
                     [kernel |-> kernels[i], stream |-> stream,
                      deps |-> IF i = 1 THEN from ELSE {Len(work) + i - 1}]]
<1>1. Sequence(new)
  <2>1. PICK n \in Nat : DOMAIN kernels = 1 .. n
    BY SequenceDomain
  <2> QED
    BY <2>1, SequenceMade
<1>2. \A i \in DOMAIN new : new[i].stream = stream
  OBVIOUS
<1> HIDE DEF new
<1>3. Sequence(work \o new) /\ Range(work \o new) \subseteq Range(work) \cup Range(new)
  BY <1>1, Concatenation DEF WorkOn
<1>4. \A w \in Range(new) : w.stream \in S
  BY <1>2 DEF Range
<1> QED
  BY <1>3, <1>4 DEF Then, new, WorkOn

LEMMA InOrderOn ==
  ASSUME NEW S, NEW stream \in S, NEW kernels, Sequence(kernels)
  PROVE  WorkOn(InOrder(stream, kernels), S)
<1>1. Sequence(<<>>)
  BY TupleSequences
<1>2. WorkOn(<<>>, S)
  BY <1>1 DEF WorkOn, Range
<1> QED
  BY <1>2, ThenOn DEF InOrder

\* What is enqueued is in flight on its streams.
LEMMA EnqueuedOn ==
  ASSUME NEW S, NEW work, WorkOn(work, S), InFlightOn(S), Enqueue(work)
  PROVE  InFlightOn(S)'
<1>1. \A i \in DOMAIN work : work[i].stream \in S
  BY DEF WorkOn, Range
<1> QED
  BY <1>1 DEF Enqueue, InFlightOn

-----------------------------------------------------------------------------
(***************************************************************************)
(* The order on a stream.  A kernel waits for those that were enqueued     *)
(* before it, or for one that does: at most one kernel of a stream may run *)
(* at any time.                                                            *)
(***************************************************************************)

\* A piece of work in which each kernel waits for the one before it on its
\* stream, or for one that comes after that.
WorkInOrder(work) ==
  /\ Sequence(work)
  /\ \A i, j \in DOMAIN work : j < i /\ work[j].stream = work[i].stream =>
       \E m \in work[i].deps : /\ m \in DOMAIN work /\ j <= m /\ m < i
                               /\ work[m].stream = work[i].stream

\* Kernels have numbers of their own.
Numbered ==
  /\ issued \in Nat
  /\ \A t \in pending : t.id \in 1 .. issued
  /\ \A t, u \in pending : t.id = u.id => t = u

\* They wait along the order of their stream.
StreamOrder ==
  /\ Numbered
  /\ \A t, u \in pending : t.stream = u.stream /\ u.id < t.id =>
       \E w \in pending : /\ w.stream = t.stream /\ w.id \in t.after
                          /\ u.id <= w.id /\ w.id < t.id

\* Two kernels of a stream are never ready at the same time.
LEMMA OneReady ==
  ASSUME StreamOrder, NEW t \in pending, NEW u \in pending, t # u, t.stream = u.stream
  PROVE  ~(Ready(t) /\ Ready(u))
<1>1. t.id < u.id \/ u.id < t.id
  BY DEF StreamOrder, Numbered
<1> QED
  BY <1>1 DEF StreamOrder, Numbered, Ready

\* A chain on a stream that the work before it does not use.
LEMMA ThenInOrder ==
  ASSUME NEW work, WorkInOrder(work), NEW stream, \A w \in Range(work) : w.stream # stream,
         NEW from, NEW kernels, Sequence(kernels)
  PROVE  WorkInOrder(Then(work, stream, from, kernels))
<1> DEFINE n == Len(work)
           new == [i \in DOMAIN kernels |->
                     [kernel |-> kernels[i], stream |-> stream,
                      deps |-> IF i = 1 THEN from ELSE {n + i - 1}]]
           all == work \o new
           S == Range(work) \cup Range(new)
<1>1. PICK k \in Nat : DOMAIN kernels = 1 .. k
  BY SequenceDomain
<1>2. Sequence(new) /\ DOMAIN new = 1 .. k
  BY <1>1, SequenceMade
<1>3. /\ \A i \in 1 .. k : new[i].stream = stream
      /\ \A i \in 1 .. k : i # 1 => new[i].deps = {n + i - 1}
  BY <1>1
<1>4. DOMAIN work = 1 .. n /\ n \in Nat
  BY SequenceDomain DEF WorkInOrder
<1> HIDE DEF new, n
<1>5. work \in Seq(S) /\ new \in Seq(S) /\ Len(new) = k /\ Len(work) = n
  <2>1. Len(new) = k
    BY <1>2, SequenceDomain
  <2>2. work \in Seq(S) /\ new \in Seq(S)
    BY <1>2 DEF WorkInOrder, Sequence, Range
  <2> QED
    BY <2>1, <2>2 DEF n
<1>6. /\ DOMAIN all = 1 .. n + k
      /\ \A i \in 1 .. n : all[i] = work[i]
      /\ \A i \in 1 .. k : all[n + i] = new[i]
  <2>1. /\ all \in Seq(S) /\ Len(all) = n + k
        /\ \A i \in 1 .. n + k : all[i] = IF i <= n THEN work[i] ELSE new[i - n]
    BY <1>5, ConcatProperties
  <2>2. DOMAIN all = 1 .. n + k
    BY <2>1, LenProperties
  <2> HIDE DEF all
  <2> QED
    BY <1>4, <2>1, <2>2
<1>7. Sequence(all)
  BY <1>2, Concatenation DEF WorkInOrder
<1>8. \A i \in 1 .. n : work[i].stream # stream
  BY <1>4 DEF Range
<1> HIDE DEF all
<1>9. ASSUME NEW i \in DOMAIN all, NEW j \in DOMAIN all, j < i, all[j].stream = all[i].stream
      PROVE  \E m \in all[i].deps : /\ m \in DOMAIN all /\ j <= m /\ m < i
                                    /\ all[m].stream = all[i].stream
  <2>1. CASE i \in 1 .. n
    <3>1. j \in 1 .. n
      BY <1>4, <1>6, <1>9, <2>1
    <3>2. work[j].stream = work[i].stream
      BY <1>6, <1>9, <2>1, <3>1
    <3>3. PICK m \in work[i].deps : /\ m \in DOMAIN work /\ j <= m /\ m < i
                                    /\ work[m].stream = work[i].stream
      BY <1>4, <1>9, <2>1, <3>1, <3>2 DEF WorkInOrder
    <3> QED
      BY <1>4, <1>6, <2>1, <3>3
  <2>2. CASE i \notin 1 .. n
    <3>1. PICK q \in 1 .. k : i = n + q
      <4>1. i - n \in 1 .. k /\ i = n + (i - n)
        BY <1>1, <1>4, <1>6, <2>2
      <4> QED
        BY <4>1
    <3>2. all[i] = new[q] /\ all[i].stream = stream
      BY <1>3, <1>6, <3>1
    <3>3. j \notin 1 .. n
      BY <1>6, <1>8, <1>9, <3>2
    <3>4. n + q - 1 \in (n + 1) .. (n + k) /\ j <= n + q - 1 /\ q # 1
      BY <1>1, <1>4, <1>6, <1>9, <3>1, <3>3
    <3>5. n + q - 1 \in all[i].deps
      BY <1>3, <3>2, <3>4
    <3>6. all[n + q - 1].stream = stream /\ n + q - 1 \in DOMAIN all
      <4>1. q - 1 \in 1 .. k /\ n + q - 1 = n + (q - 1) /\ n + q - 1 \in 1 .. n + k
        BY <1>1, <1>4, <3>4
      <4>2. all[n + (q - 1)] = new[q - 1]
        BY <1>6, <4>1
      <4> QED
        BY <1>3, <1>6, <4>1, <4>2
    <3> QED
      BY <1>4, <3>1, <3>2, <3>4, <3>5, <3>6
  <2> QED
    BY <2>1, <2>2
<1> QED
  BY <1>7, <1>9 DEF WorkInOrder, Then, all, new, n

LEMMA InOrderInOrder ==
  ASSUME NEW stream, NEW kernels, Sequence(kernels)
  PROVE  WorkInOrder(InOrder(stream, kernels))
<1>1. Sequence(<<>>)
  BY TupleSequences
<1>2. WorkInOrder(<<>>) /\ Range(<<>>) = {}
  BY <1>1 DEF WorkInOrder, Range
<1> QED
  BY <1>2, ThenInOrder DEF InOrder

\* Enqueuing such a piece of work, on an idle device or after what is in flight.
LEMMA EnqueueInOrder ==
  ASSUME StreamOrder, NEW work, WorkInOrder(work), Enqueue(work)
  PROVE  StreamOrder'
<1> DEFINE base == IF pending = {} THEN 0 ELSE issued
           ahead(i) == {t.id : t \in {u \in pending : u.stream = work[i].stream}}
           new(i) == [id |-> base + i, stream |-> work[i].stream, kernel |-> work[i].kernel,
                      after |-> ahead(i) \cup {base + j : j \in work[i].deps}]
<1>1. /\ pending' = pending \cup {new(i) : i \in DOMAIN work}
      /\ issued' = base + Len(work)
  BY DEF Enqueue
<1>2. DOMAIN work = 1 .. Len(work) /\ Len(work) \in Nat
  BY SequenceDomain DEF WorkInOrder
<1>3. base \in Nat /\ \A t \in pending : t.id \in 1 .. base
  BY DEF StreamOrder, Numbered
<1>4. \A i \in DOMAIN work :
        /\ new(i).id = base + i /\ new(i).stream = work[i].stream
        /\ \A t \in pending : t.stream = work[i].stream => t.id \in new(i).after
        /\ \A j \in work[i].deps : base + j \in new(i).after
  OBVIOUS
<1> HIDE DEF base, new
<1>5. issued' \in Nat /\ \A t \in pending' : t.id \in 1 .. issued'
  BY <1>1, <1>2, <1>3, <1>4
<1>6. \A t, u \in pending' : t.id = u.id => t = u
  BY <1>1, <1>2, <1>3, <1>4 DEF StreamOrder, Numbered
<1>7. ASSUME NEW t \in pending', NEW u \in pending', t.stream = u.stream, u.id < t.id
      PROVE  \E w \in pending' : /\ w.stream = t.stream /\ w.id \in t.after
                                 /\ u.id <= w.id /\ w.id < t.id
  <2>1. CASE t \in pending
    <3>1. u \in pending
      <4> SUFFICES ASSUME NEW i \in DOMAIN work, u = new(i)
                   PROVE  FALSE
        BY <1>1
      <4> QED
        BY <1>2, <1>3, <1>4, <1>7, <2>1
    <3> QED
      BY <1>1, <1>7, <2>1, <3>1 DEF StreamOrder, Numbered
  <2>2. ASSUME NEW i \in DOMAIN work, t = new(i)
        PROVE  \E w \in pending' : /\ w.stream = t.stream /\ w.id \in t.after
                                   /\ u.id <= w.id /\ w.id < t.id
    <3>1. CASE u \in pending
      BY <1>1, <1>2, <1>3, <1>4, <1>7, <2>2, <3>1
    <3>2. ASSUME NEW j \in DOMAIN work, u = new(j)
          PROVE  \E w \in pending' : /\ w.stream = t.stream /\ w.id \in t.after
                                     /\ u.id <= w.id /\ w.id < t.id
      <4>1. j < i /\ work[j].stream = work[i].stream
        BY <1>2, <1>3, <1>4, <1>7, <2>2, <3>2
      <4>2. PICK m \in work[i].deps : /\ m \in DOMAIN work /\ j <= m /\ m < i
                                      /\ work[m].stream = work[i].stream
        BY <4>1 DEF WorkInOrder
      <4>3. new(m) \in pending'
        BY <1>1, <4>2
      <4>4. /\ new(m).stream = t.stream /\ new(m).id \in t.after
            /\ u.id <= new(m).id /\ new(m).id < t.id
        BY <1>2, <1>3, <1>4, <2>2, <3>2, <4>2
      <4> QED
        BY <4>3, <4>4
    <3> QED
      BY <1>1, <3>1, <3>2
  <2> QED
    BY <1>1, <2>1, <2>2
<1> QED
  BY <1>5, <1>6, <1>7 DEF StreamOrder, Numbered

\* A kernel that runs is not one that another one waits for in place of a third.
LEMMA RunInOrder ==
  ASSUME StreamOrder, NEW r \in pending, NEW results, RunKernel(r, results)
  PROVE  StreamOrder'
<1>1. pending' = pending \ {r} /\ issued' = issued /\ Ready(r)
  BY DEF RunKernel
<1>2. ASSUME NEW t \in pending', NEW u \in pending', t.stream = u.stream, u.id < t.id
      PROVE  \E w \in pending' : /\ w.stream = t.stream /\ w.id \in t.after
                                 /\ u.id <= w.id /\ w.id < t.id
  <2>1. PICK w \in pending : /\ w.stream = t.stream /\ w.id \in t.after
                             /\ u.id <= w.id /\ w.id < t.id
    BY <1>1, <1>2 DEF StreamOrder, Numbered
  <2>2. w # r
    <3> SUFFICES ASSUME w = r PROVE FALSE
      OBVIOUS
    <3>1. u \in pending /\ u # r /\ u.stream = r.stream /\ u.id <= r.id
      BY <1>1, <1>2, <2>1
    <3>2. u.id \in Nat /\ r.id \in Nat /\ u.id # r.id
      BY <3>1 DEF StreamOrder, Numbered
    <3>3. u.id < r.id
      BY <3>1, <3>2
    <3> QED
      BY <1>1, <3>1, <3>3 DEF StreamOrder, Numbered, Ready
  <2> QED
    BY <1>1, <2>1, <2>2
<1> QED
  BY <1>1, <1>2 DEF StreamOrder, Numbered

-----------------------------------------------------------------------------
(***************************************************************************)
(* What is enqueued.                                                       *)
(***************************************************************************)

LEMMA ThenElements ==
  ASSUME NEW work, Sequence(work), NEW stream, NEW from, NEW kernels, Sequence(kernels)
  PROVE  /\ Sequence(Then(work, stream, from, kernels))
         /\ \A w \in Range(Then(work, stream, from, kernels)) :
              w \in Range(work) \/ (w.stream = stream /\ w.kernel \in Range(kernels))
<1> DEFINE new == [i \in DOMAIN kernels |->
                     [kernel |-> kernels[i], stream |-> stream,
                      deps |-> IF i = 1 THEN from ELSE {Len(work) + i - 1}]]
<1>1. Sequence(new)
  <2>1. PICK n \in Nat : DOMAIN kernels = 1 .. n
    BY SequenceDomain
  <2> QED
    BY <2>1, SequenceMade
<1>2. \A w \in Range(new) : w.stream = stream /\ w.kernel \in Range(kernels)
  BY DEF Range
<1>3. Then(work, stream, from, kernels) = work \o new
  BY DEF Then
<1> HIDE DEF new
<1> QED
  BY <1>1, <1>2, <1>3, Concatenation

LEMMA InOrderElements ==
  ASSUME NEW stream, NEW kernels, Sequence(kernels)
  PROVE  /\ Sequence(InOrder(stream, kernels))
         /\ \A w \in Range(InOrder(stream, kernels)) :
              w.stream = stream /\ w.kernel \in Range(kernels)
<1>1. Sequence(<<>>)
  BY TupleSequences
<1>2. Range(<<>>) = {}
  BY DEF Range
<1> QED
  BY <1>1, <1>2, ThenElements DEF InOrder

\* What is in flight after a piece of work was enqueued.
LEMMA EnqueuedElements ==
  ASSUME NEW work, Enqueue(work), NEW t \in pending'
  PROVE  \/ t \in pending
         \/ \E w \in Range(work) : t.stream = w.stream /\ t.kernel = w.kernel
BY DEF Enqueue, Range

-----------------------------------------------------------------------------
(***************************************************************************)
(* What a kernel does.                                                     *)
(***************************************************************************)

\* The operands of a kernel that captured no scalars.
LEMMA OperandsAre ==
  ASSUME NEW t, t.kernel.args = <<>>, Sequence(t.kernel.in)
  PROVE  Operands(t) = [i \in DOMAIN t.kernel.in |-> mem[t.kernel.in[i]]]
<1> DEFINE found == [i \in DOMAIN t.kernel.in |-> mem[t.kernel.in[i]]]
<1>1. PICK n \in Nat : DOMAIN t.kernel.in = 1 .. n
  BY SequenceDomain
<1>2. found = [i \in 1 .. n |-> found[i]]
  BY <1>1
<1> HIDE DEF found
<1>3. found \in Seq(Range(found))
  BY <1>2, SequenceMade DEF Sequence
<1>4. <<>> \o found = found
  BY <1>3, ConcatEmptySeq
<1> QED
  BY <1>4 DEF Operands, found

\* A kernel that writes one buffer, or two.
LEMMA WritesOne ==
  ASSUME NEW t, NEW b, t.kernel.out = <<b>>, NEW results, RunKernel(t, results)
  PROVE  mem' = [a \in DOMAIN mem |-> IF a = b THEN results[1] ELSE mem[a]]
<1>1. Range(t.kernel.out) = {b} /\ DOMAIN t.kernel.out = {1} /\ t.kernel.out[1] = b
  BY OneName
<1>2. (CHOOSE i \in DOMAIN t.kernel.out : t.kernel.out[i] = b) = 1
  BY <1>1
<1> QED
  BY <1>1, <1>2 DEF RunKernel

LEMMA WritesTwo ==
  ASSUME NEW t, NEW b, NEW c, b # c, t.kernel.out = <<b, c>>, NEW results, RunKernel(t, results)
  PROVE  mem' = [a \in DOMAIN mem |->
                   IF a = b THEN results[1] ELSE IF a = c THEN results[2] ELSE mem[a]]
<1>1. /\ Range(t.kernel.out) = {b, c} /\ DOMAIN t.kernel.out = {1, 2}
      /\ t.kernel.out[1] = b /\ t.kernel.out[2] = c
  BY TwoNames
<1>2. /\ (CHOOSE i \in DOMAIN t.kernel.out : t.kernel.out[i] = b) = 1
      /\ (CHOOSE i \in DOMAIN t.kernel.out : t.kernel.out[i] = c) = 2
  BY <1>1
<1> QED
  BY <1>1, <1>2 DEF RunKernel

\* An element of a piece of work.
Entry(kernel, stream, deps) == [kernel |-> kernel, stream |-> stream, deps |-> deps]

\* w is `work` and a chain of kernels after it.
Chained(w, work, stream, from, kernels) ==
  /\ Sequence(w) /\ Len(w) = Len(work) + Len(kernels)
  /\ \A i \in 1 .. Len(work) : w[i] = work[i]
  /\ \A i \in 1 .. Len(kernels) :
       w[Len(work) + i] =
         Entry(kernels[i], stream, IF i = 1 THEN from ELSE {Len(work) + i - 1})

LEMMA ThenIs ==
  ASSUME NEW work, Sequence(work), NEW stream, NEW from, NEW kernels, Sequence(kernels)
  PROVE  Chained(Then(work, stream, from, kernels), work, stream, from, kernels)
<1> DEFINE n == Len(work)
           k == Len(kernels)
           new == [i \in DOMAIN kernels |->
                     [kernel |-> kernels[i], stream |-> stream,
                      deps |-> IF i = 1 THEN from ELSE {Len(work) + i - 1}]]
           all == work \o new
           S == Range(work) \cup Range(new)
<1>1. DOMAIN kernels = 1 .. k /\ k \in Nat /\ DOMAIN work = 1 .. n /\ n \in Nat
  BY SequenceDomain
<1>2. Sequence(new) /\ DOMAIN new = 1 .. k
  BY <1>1, SequenceMade
<1>3. \A i \in 1 .. k : new[i] = [kernel |-> kernels[i], stream |-> stream,
                                  deps |-> IF i = 1 THEN from ELSE {Len(work) + i - 1}]
  BY <1>1
<1>4. all = Then(work, stream, from, kernels)
  BY DEF Then
<1> HIDE DEF new
<1>5. work \in Seq(S) /\ new \in Seq(S) /\ Len(new) = k
  <2>1. Len(new) = k
    BY <1>1, <1>2, SequenceDomain
  <2>2. work \in Seq(S) /\ new \in Seq(S)
    BY <1>2 DEF Sequence, Range
  <2> QED
    BY <2>1, <2>2
<1> HIDE DEF n, k
<1>6. /\ Len(all) = n + k
      /\ \A i \in 1 .. n + k : all[i] = IF i <= n THEN work[i] ELSE new[i - n]
  <2>1. Len(all) = Len(work) + Len(new) /\ \A i \in 1 .. Len(work) + Len(new) :
          all[i] = IF i <= Len(work) THEN work[i] ELSE new[i - Len(work)]
    BY <1>5, ConcatProperties
  <2> QED
    BY <1>5, <2>1 DEF n
<1>7. Sequence(all)
  BY <1>2, Concatenation
<1> HIDE DEF all
<1>8. /\ \A i \in 1 .. n : all[i] = work[i]
      /\ \A i \in 1 .. k : all[n + i] = new[i]
  BY <1>1, <1>6
<1> QED
  BY <1>3, <1>4, <1>6, <1>7, <1>8 DEF n, k, Entry, Chained

\* w is `work` with one more entry, its n-th one.
Longer(w, n, work, entry) ==
  Sequence(w) /\ Len(w) = n /\ w[n] = entry /\ \A i \in 1 .. n - 1 : w[i] = work[i]

\* A chain of one kernel, and of two.
LEMMA ThenOne ==
  ASSUME NEW work, Sequence(work), NEW n \in Nat, n = Len(work) + 1, NEW stream, NEW from,
         NEW kernels, Sequence(kernels), Len(kernels) = 1
  PROVE  Longer(Then(work, stream, from, kernels), n, work, Entry(kernels[1], stream, from))
<1> DEFINE all == Then(work, stream, from, kernels)
<1>1. Len(work) \in Nat
  BY SequenceDomain
<1>2. Chained(all, work, stream, from, kernels)
  BY ThenIs
<1> HIDE DEF all
<1>3. all[Len(work) + 1] = Entry(kernels[1], stream, from)
  BY <1>2 DEF Chained
<1>4. Longer(all, n, work, Entry(kernels[1], stream, from))
  BY <1>1, <1>2, <1>3 DEF Longer, Chained
<1> QED
  BY <1>4 DEF all

LEMMA ThenTwo ==
  ASSUME NEW work, Sequence(work), NEW n \in Nat, n = Len(work) + 1, NEW stream, NEW from,
         NEW kernels, Sequence(kernels), Len(kernels) = 2
  PROVE  \E one : /\ Longer(one, n, work, Entry(kernels[1], stream, from))
                  /\ Longer(Then(work, stream, from, kernels), n + 1, one,
                            Entry(kernels[2], stream, {n}))
<1> DEFINE all == Then(work, stream, from, kernels)
           first == <<kernels[1]>>
           one == Then(work, stream, from, first)
<1>1. Len(work) \in Nat
  BY SequenceDomain
<1>2. Chained(all, work, stream, from, kernels)
  BY ThenIs
<1>3. Sequence(first) /\ Len(first) = 1 /\ first[1] = kernels[1]
  BY TupleSequences
<1> HIDE DEF all, first
<1>4. Longer(one, n, work, Entry(kernels[1], stream, from))
  BY <1>3, ThenOne
<1> HIDE DEF one
<1>5. /\ all[Len(work) + 1] = Entry(kernels[1], stream, from)
      /\ all[Len(work) + 2] = Entry(kernels[2], stream, {Len(work) + 2 - 1})
  BY <1>2 DEF Chained
<1>6. n + 1 = Len(work) + 2 /\ Len(work) + 2 - 1 = n
  BY <1>1
<1>7. all[n] = Entry(kernels[1], stream, from) /\ all[n + 1] = Entry(kernels[2], stream, {n})
  BY <1>5, <1>6
<1>8. Longer(all, n + 1, one, Entry(kernels[2], stream, {n}))
  BY <1>1, <1>2, <1>4, <1>6, <1>7 DEF Longer, Chained
<1> QED
  BY <1>4, <1>8 DEF all

\* The number of the last kernel in flight.
Base == IF pending = {} THEN 0 ELSE issued

\* What is in flight after a piece of work was enqueued, and what it waits for.
LEMMA EnqueuedAre ==
  ASSUME NEW work, Sequence(work), Enqueue(work)
  PROVE  \E new \in [DOMAIN work -> pending'] :
           /\ pending' = pending \cup {new[i] : i \in DOMAIN work} /\ issued' = Base + Len(work)
           /\ \A i \in DOMAIN work :
                /\ new[i].id = Base + i
                /\ new[i].kernel = work[i].kernel /\ new[i].stream = work[i].stream
                /\ \A t \in pending : t.stream = work[i].stream => t.id \in new[i].after
                /\ \A j \in DOMAIN work : j \in work[i].deps => new[j].id \in new[i].after
<1> DEFINE ahead(i) == {t.id : t \in {u \in pending : u.stream = work[i].stream}}
           new == [i \in DOMAIN work |->
                     [id |-> Base + i, stream |-> work[i].stream, kernel |-> work[i].kernel,
                      after |-> ahead(i) \cup {Base + j : j \in work[i].deps}]]
<1>1. pending' = pending \cup {new[i] : i \in DOMAIN work} /\ issued' = Base + Len(work)
  BY DEF Enqueue, Base
<1>2. new \in [DOMAIN work -> pending']
  BY <1>1
<1>3. \A i \in DOMAIN work :
        /\ new[i].id = Base + i
        /\ new[i].kernel = work[i].kernel /\ new[i].stream = work[i].stream
        /\ \A t \in pending : t.stream = work[i].stream => t.id \in new[i].after
        /\ \A j \in work[i].deps : Base + j \in new[i].after
  OBVIOUS
<1> HIDE DEF new
<1>4. \A i, j \in DOMAIN work : j \in work[i].deps => new[j].id \in new[i].after
  BY <1>3
<1> QED
  BY <1>1, <1>2, <1>3, <1>4

LEMMA EnqueueNumbered ==
  ASSUME Numbered, NEW work, Sequence(work), Enqueue(work)
  PROVE  Numbered'
<1>1. Base \in Nat /\ \A t \in pending : t.id \in 1 .. Base
  BY DEF Base, Numbered
<1>2. DOMAIN work = 1 .. Len(work) /\ Len(work) \in Nat
  BY SequenceDomain
<1>3. PICK new \in [DOMAIN work -> pending'] :
        /\ pending' = pending \cup {new[i] : i \in DOMAIN work} /\ issued' = Base + Len(work)
        /\ \A i \in DOMAIN work : new[i].id = Base + i
  BY EnqueuedAre
<1>4. \A t \in pending' : t \in pending \/ \E i \in 1 .. Len(work) : t = new[i] /\ t.id = Base + i
  BY <1>2, <1>3
<1>5. ASSUME NEW t \in pending'
      PROVE  t.id \in 1 .. issued'
  <2>1. issued' = Base + Len(work)
    BY <1>3
  <2>2. CASE t \in pending
    BY <1>1, <1>2, <2>1, <2>2
  <2>3. ASSUME NEW i \in 1 .. Len(work), t.id = Base + i
        PROVE  t.id \in 1 .. issued'
    BY <1>1, <1>2, <2>1, <2>3
  <2> QED
    BY <1>4, <2>2, <2>3
<1>6. \A t, u \in pending' : t.id = u.id => t = u
  BY <1>1, <1>2, <1>4 DEF Numbered
<1> QED
  BY <1>1, <1>2, <1>3, <1>5, <1>6 DEF Numbered

LEMMA RunNumbered ==
  ASSUME Numbered, NEW r \in pending, NEW results, RunKernel(r, results)
  PROVE  Numbered'
BY DEF RunKernel, Numbered

-----------------------------------------------------------------------------
(***************************************************************************)
(* Graphs.  Kernels of a graph are ordered by paths: a kernel waits for    *)
(* another one on the path, if not for the first one.                      *)
(***************************************************************************)

\* Two kernels use a buffer that one of them writes.
Collide(k, l) ==
  \/ (Range(k.out) \cup k.scratch) \cap (Range(l.in) \cup Range(l.out) \cup l.scratch) # {}
  \/ (Range(l.out) \cup l.scratch) \cap (Range(k.in) \cup Range(k.out) \cup k.scratch) # {}

\* The work before position j in a piece of work: linked to it by paths.
Paths(work, before) ==
  \A j \in DOMAIN work : \A i \in before[j] :
    \E m \in work[j].deps : m \in DOMAIN work /\ (m = i \/ i \in before[m])

\* Kernels that collide are linked.
LinkedBy(work, before) ==
  /\ Sequence(work)
  /\ before \in [DOMAIN work -> SUBSET DOMAIN work]
  /\ Paths(work, before)
  /\ \A i, j \in DOMAIN work :
       i < j /\ Collide(work[i].kernel, work[j].kernel) => i \in before[j]

Linked(work) == \E before : LinkedBy(work, before)

\* The positions in `from` and what is before them.
UpTo(from, before) == from \cup UNION {before[m] : m \in from}

\* The kernels in flight, `before` one of them: each one is one that it waits for, or is
\* before one that it waits for.
WaitingIn(flight, before) ==
  \A u \in flight : \A t \in before[u] :
    \E w \in flight : w.id \in u.after /\ (w = t \/ t \in before[w])

\* Of two kernels that collide the one that was enqueued first is before the other one.
ApartIn(flight, before) ==
  \A t, u \in flight : t.id < u.id /\ Collide(t.kernel, u.kernel) => t \in before[u]

PathOrder ==
  Numbered /\ \E before \in [pending -> SUBSET pending] :
    WaitingIn(pending, before) /\ ApartIn(pending, before)

\* A kernel that is ready does not collide with an earlier one.
LEMMA PathsInOrder ==
  ASSUME PathOrder, NEW t \in pending, NEW u \in pending, u.id < t.id, Ready(t)
  PROVE  ~Collide(u.kernel, t.kernel)
<1>1. PICK before \in [pending -> SUBSET pending] :
        WaitingIn(pending, before) /\ ApartIn(pending, before)
  BY DEF PathOrder
<1>2. u \notin before[t]
  BY <1>1 DEF WaitingIn, Ready
<1> QED
  BY <1>1, <1>2 DEF ApartIn

LEMMA PathsApart == PathOrder => NoRace
<1> SUFFICES ASSUME PathOrder, NEW t \in pending, NEW u \in pending, t # u, Ready(t), Ready(u), Conflict(t, u)
             PROVE  FALSE
  BY DEF NoRace
<1>1. Collide(t.kernel, u.kernel) /\ Collide(u.kernel, t.kernel)
  BY DEF Collide, Conflict, Reads, Writes
<1>2. t.id < u.id \/ u.id < t.id
  BY DEF PathOrder, Numbered
<1> QED
  BY <1>1, <1>2, PathsInOrder

\* A kernel that runs is in the middle of no path.
LEMMA RunPaths ==
  ASSUME PathOrder, NEW r \in pending, NEW results, RunKernel(r, results)
  PROVE  PathOrder'
<1>1. PICK before \in [pending -> SUBSET pending] :
        WaitingIn(pending, before) /\ ApartIn(pending, before)
  BY DEF PathOrder
<1>2. pending' = pending \ {r} /\ Ready(r)
  BY DEF RunKernel
<1> DEFINE rest == pending \ {r}
           S == [u \in rest |-> before[u] \ {r}]
<1>3. S \in [rest -> SUBSET rest]
  BY <1>1
<1>4. WaitingIn(rest, S)
  <2> SUFFICES ASSUME NEW u \in rest, NEW t \in before[u], t # r
               PROVE  \E w \in rest : w.id \in u.after /\ (w = t \/ t \in S[w])
    BY DEF WaitingIn
  <2>1. PICK w \in pending : w.id \in u.after /\ (w = t \/ t \in before[w])
    BY <1>1 DEF WaitingIn
  <2>2. \A v \in before[r] : FALSE
    BY <1>1, <1>2 DEF WaitingIn, Ready
  <2>3. w # r
    BY <2>1, <2>2
  <2> QED
    BY <2>1, <2>3
<1>5. ApartIn(rest, S)
  BY <1>1 DEF ApartIn
<1> HIDE DEF S
<1>6. \E b \in [rest -> SUBSET rest] : WaitingIn(rest, b) /\ ApartIn(rest, b)
  BY <1>3, <1>4, <1>5
<1>7. Numbered'
  BY RunNumbered DEF PathOrder
<1> QED
  BY <1>2, <1>6, <1>7 DEF PathOrder

\* A piece of work on the stream on which everything is that is in flight.
LEMMA EnqueuePaths ==
  ASSUME PathOrder, NEW stream, InFlightOn({stream}), NEW work, Linked(work), WorkOn(work, {stream}),
         Enqueue(work)
  PROVE  PathOrder'
<1>1. PICK before \in [pending -> SUBSET pending] :
        WaitingIn(pending, before) /\ ApartIn(pending, before)
  BY DEF PathOrder
<1>2. PICK P : LinkedBy(work, P)
  BY DEF Linked
<1>3. PICK new \in [DOMAIN work -> pending'] :
        /\ pending' = pending \cup {new[i] : i \in DOMAIN work}
        /\ \A i \in DOMAIN work :
             /\ new[i].id = Base + i
             /\ new[i].kernel = work[i].kernel /\ new[i].stream = work[i].stream
             /\ \A t \in pending : t.stream = work[i].stream => t.id \in new[i].after
             /\ \A j \in DOMAIN work : j \in work[i].deps => new[j].id \in new[i].after
  BY <1>2, EnqueuedAre DEF LinkedBy
<1>4. \A i \in DOMAIN work : \A t \in pending : t.id \in new[i].after
  BY <1>3 DEF WorkOn, InFlightOn, Range
<1> DEFINE Fresh == {new[i] : i \in DOMAIN work}
           flight == pending \cup Fresh
           Newer(u) == {t \in Fresh : \E i, j \in DOMAIN work : u = new[j] /\ t = new[i] /\ i \in P[j]}
           S == [u \in flight |-> {t \in pending : u \in pending /\ t \in before[u]}
                                    \cup {t \in pending : u \in Fresh} \cup Newer(u)]
<1>5. S \in [flight -> SUBSET flight]
  OBVIOUS
<1>6. WaitingIn(flight, S)
  <2> SUFFICES ASSUME NEW u \in flight, NEW t \in S[u]
               PROVE  \E w \in flight : w.id \in u.after /\ (w = t \/ t \in S[w])
    BY DEF WaitingIn
  <2>1. CASE u \in pending /\ t \in pending /\ t \in before[u]
    BY <1>1, <2>1 DEF WaitingIn
  <2>2. CASE t \in pending /\ u \in Fresh
    BY <1>4, <2>2
  <2>3. CASE t \in Newer(u)
    <3>1. PICK i \in DOMAIN work, j \in DOMAIN work : u = new[j] /\ t = new[i] /\ i \in P[j]
      BY <2>3
    <3>2. PICK m \in work[j].deps : m \in DOMAIN work /\ (m = i \/ i \in P[m])
      BY <1>2, <3>1 DEF LinkedBy, Paths
    <3>3. new[m].id \in u.after /\ new[m] \in flight
      BY <1>3, <3>1, <3>2
    <3>4. new[m] = t \/ t \in Newer(new[m])
      BY <3>1, <3>2
    <3>5. Newer(new[m]) \subseteq S[new[m]]
      BY <3>3
    <3> QED
      BY <3>3, <3>4, <3>5
  <2> QED
    BY <2>1, <2>2, <2>3
<1>7. ApartIn(flight, S)
  <2> SUFFICES ASSUME NEW t \in flight, NEW u \in flight, t.id < u.id, Collide(t.kernel, u.kernel)
               PROVE  t \in S[u]
    BY DEF ApartIn
  <2>0. /\ Base \in Nat /\ (\A v \in pending : v.id \in 1 .. Base)
        /\ DOMAIN work = 1 .. Len(work) /\ Len(work) \in Nat
    BY <1>2, SequenceDomain DEF PathOrder, Numbered, Base, LinkedBy
  <2>1. CASE t \in pending /\ u \in pending
    BY <1>1, <2>1 DEF ApartIn
  <2>2. CASE t \in pending /\ u \in Fresh
    BY <2>2
  <2>3. CASE t \in Fresh
    <3>1. PICK i \in DOMAIN work : t = new[i] /\ t.id = Base + i
      BY <1>3, <2>3
    <3>2. u \notin pending
      BY <2>0, <3>1
    <3>3. PICK j \in DOMAIN work : u = new[j] /\ u.id = Base + j
      BY <1>3, <3>2
    <3>4. i < j
      BY <2>0, <3>1, <3>3
    <3>5. Collide(work[i].kernel, work[j].kernel)
      BY <1>3, <3>1, <3>3
    <3>6. i \in P[j]
      BY <1>2, <3>4, <3>5 DEF LinkedBy
    <3>7. t \in Newer(u)
      BY <2>3, <3>1, <3>3, <3>6
    <3> QED
      BY <3>7
  <2> QED
    BY <2>1, <2>2, <2>3
<1>8. flight = pending'
  BY <1>3
<1> HIDE DEF S, flight
<1>9. \E b \in [flight -> SUBSET flight] : WaitingIn(flight, b) /\ ApartIn(flight, b)
  BY <1>5, <1>6, <1>7
<1>10. Numbered'
  BY <1>2, EnqueueNumbered DEF PathOrder, LinkedBy
<1> QED
  BY <1>8, <1>9, <1>10 DEF PathOrder

\* w is `work` and a chain of kernels after it; what is before each of them.
ChainLinkedTo(w, after, work, before, from, kernels) ==
  /\ LinkedBy(w, after) /\ Len(w) = Len(work) + Len(kernels)
  /\ \A i \in 1 .. Len(work) : w[i].kernel = work[i].kernel /\ after[i] = before[i]
  /\ \A i \in 1 .. Len(kernels) :
       /\ w[Len(work) + i].kernel = kernels[i]
       /\ after[Len(work) + i] = UpTo(from, before) \cup (Len(work) + 1) .. (Len(work) + i - 1)

\* A chain after linked work: its kernels collide only with those it comes after.
LEMMA ThenLinked ==
  ASSUME NEW work, NEW before, LinkedBy(work, before), NEW stream,
         NEW from \in SUBSET DOMAIN work, NEW kernels, Sequence(kernels),
         \A i \in DOMAIN work \ UpTo(from, before) : \A k \in Range(kernels) :
           ~Collide(work[i].kernel, k)
  PROVE  \E after : ChainLinkedTo(Then(work, stream, from, kernels), after, work, before, from, kernels)
<1> DEFINE n == Len(work)
           k == Len(kernels)
           w == Then(work, stream, from, kernels)
           up == UpTo(from, before)
           Q == [j \in 1 .. n + k |-> IF j <= n THEN before[j] ELSE up \cup (n + 1) .. (j - 1)]
<1>1. n \in Nat /\ k \in Nat /\ DOMAIN work = 1 .. n /\ DOMAIN kernels = 1 .. k
  BY SequenceDomain DEF LinkedBy
<1>2. Chained(w, work, stream, from, kernels)
  BY ThenIs DEF LinkedBy
<1> HIDE DEF w
<1>3. Sequence(w) /\ DOMAIN w = 1 .. n + k
  BY <1>2, SequenceDomain DEF Chained
<1>4. /\ \A i \in 1 .. n : w[i] = work[i]
      /\ \A i \in 1 .. k :
           /\ w[n + i].kernel = kernels[i]
           /\ w[n + i].deps = IF i = 1 THEN from ELSE {n + i - 1}
  <2>1. /\ \A i \in 1 .. n : w[i] = work[i]
        /\ \A i \in 1 .. k :
             w[n + i] = Entry(kernels[i], stream, IF i = 1 THEN from ELSE {n + i - 1})
    BY <1>2 DEF Chained
  <2>2. ASSUME NEW kernel, NEW deps
        PROVE  /\ Entry(kernel, stream, deps).kernel = kernel
               /\ Entry(kernel, stream, deps).deps = deps
    BY DEF Entry
  <2> HIDE DEF n, k
  <2> QED
    BY <2>1, <2>2
<1> HIDE DEF n, k
<1>5. \A j \in (n + 1) .. n + k : \E i \in 1 .. k : j = n + i
  <2> TAKE j \in (n + 1) .. n + k
  <2>1. j - n \in 1 .. k /\ j = n + (j - n)
    BY <1>1
  <2> QED
    BY <2>1
<1>6. up \subseteq 1 .. n
  BY <1>1 DEF UpTo, LinkedBy
<1>7. Q \in [1 .. n + k -> SUBSET (1 .. n + k)]
  <2> SUFFICES ASSUME NEW j \in 1 .. n + k
               PROVE  (IF j <= n THEN before[j] ELSE up \cup (n + 1) .. (j - 1)) \subseteq 1 .. n + k
    OBVIOUS
  <2>1. CASE j <= n
    <3>1. j \in DOMAIN work
      BY <1>1, <2>1
    <3> QED
      BY <1>1, <2>1, <3>1 DEF LinkedBy
  <2>2. CASE ~(j <= n)
    BY <1>1, <1>6, <2>2
  <2> QED
    BY <2>1, <2>2
<1>8. /\ \A j \in 1 .. n : Q[j] = before[j]
      /\ \A i \in 1 .. k : Q[n + i] = up \cup (n + 1) .. (n + i - 1)
  BY <1>1
<1> HIDE DEF Q
<1>9. ASSUME NEW j \in 1 .. n + k, NEW i \in Q[j]
      PROVE  \E m \in w[j].deps : m \in 1 .. n + k /\ (m = i \/ i \in Q[m])
  <2>1. CASE j \in 1 .. n
    <3>1. PICK m \in work[j].deps : m \in 1 .. n /\ (m = i \/ i \in before[m])
      BY <1>1, <1>8, <1>9, <2>1 DEF LinkedBy, Paths
    <3> QED
      BY <1>1, <1>4, <1>8, <2>1, <3>1
  <2>2. CASE j = n + 1
    <3>1. 1 \in 1 .. k /\ w[j].deps = from
      <4>1. 1 \in 1 .. k
        BY <1>1, <2>2
      <4> QED
        BY <1>4, <2>2, <4>1
    <3>2. Q[j] = up \cup (n + 1) .. (n + 1 - 1)
      BY <1>8, <2>2, <3>1
    <3>3. i \in up
      BY <1>1, <3>2
    <3>4. PICK m \in from : m = i \/ i \in before[m]
      BY <3>3 DEF UpTo
    <3>5. m \in 1 .. n
      BY <1>1
    <3> QED
      BY <1>1, <1>8, <3>1, <3>4, <3>5
  <2>3. CASE j > n + 1
    <3>1. PICK h \in 1 .. k : j = n + h
      BY <1>1, <1>5, <2>3
    <3>2. h - 1 \in 1 .. k /\ n + (h - 1) = n + h - 1
      BY <1>1, <2>3, <3>1
    <3>3. w[j].deps = {n + h - 1}
      <4>1. h # 1
        BY <1>1, <2>3, <3>1
      <4> QED
        BY <1>4, <3>1, <4>1
    <3>4. Q[n + h - 1] = up \cup (n + 1) .. (n + (h - 1) - 1)
      BY <1>8, <3>2
    <3>5. Q[j] = up \cup (n + 1) .. (n + h - 1)
      BY <1>8, <3>1
    <3>6. i = n + h - 1 \/ i \in Q[n + h - 1]
      BY <1>1, <1>9, <3>4, <3>5
    <3>7. n + h - 1 \in 1 .. n + k
      BY <1>1, <3>2
    <3> QED
      BY <3>3, <3>6, <3>7
  <2> QED
    BY <1>1, <2>1, <2>2, <2>3
<1>10. ASSUME NEW i \in 1 .. n + k, NEW j \in 1 .. n + k, i < j,
              Collide(w[i].kernel, w[j].kernel)
       PROVE  i \in Q[j]
  <2>1. CASE j \in 1 .. n
    <3>1. i \in 1 .. n
      BY <1>1, <1>10, <2>1
    <3> QED
      BY <1>1, <1>4, <1>8, <1>10, <2>1, <3>1 DEF LinkedBy
  <2>2. CASE j \notin 1 .. n
    <3>1. PICK h \in 1 .. k : j = n + h
      BY <1>1, <1>5, <2>2
    <3>2. CASE i \in 1 .. n
      <4>1. w[i].kernel = work[i].kernel /\ w[j].kernel = kernels[h] /\ kernels[h] \in Range(kernels)
        BY <1>1, <1>4, <3>1, <3>2 DEF Range
      <4>2. i \in up
        BY <1>1, <1>10, <3>2, <4>1
      <4> QED
        BY <1>8, <3>1, <4>2
    <3>3. CASE i \notin 1 .. n
      <4>1. i \in (n + 1) .. (n + h - 1)
        BY <1>1, <1>10, <3>1, <3>3
      <4> QED
        BY <1>8, <3>1, <4>1
    <3> QED
      BY <3>2, <3>3
  <2> QED
    BY <2>1, <2>2
<1>11. LinkedBy(w, Q)
  BY <1>3, <1>7, <1>9, <1>10 DEF LinkedBy, Paths
<1>12. Len(w) = n + k
  BY <1>2 DEF Chained, n, k
<1>13. ChainLinkedTo(w, Q, work, before, from, kernels)
  BY <1>4, <1>8, <1>11, <1>12 DEF ChainLinkedTo, n, k
<1> QED
  BY <1>13 DEF w

LEMMA NothingLinked == LinkedBy(<<>>, <<>>)
<1>1. Sequence(<<>>)
  BY TupleSequences
<1> QED
  BY <1>1 DEF LinkedBy, Paths

\* A chain.
LEMMA ChainLinked ==
  ASSUME NEW stream, NEW kernels, Sequence(kernels)
  PROVE  Linked(InOrder(stream, kernels))
<1>1. \E after : LinkedBy(Then(<<>>, stream, {}, kernels), after)
  <2>1. LinkedBy(<<>>, <<>>) /\ {} \in SUBSET DOMAIN <<>> /\ DOMAIN <<>> = {}
    BY NothingLinked
  <2> QED
    BY <2>1, ThenLinked DEF ChainLinkedTo
<1> QED
  BY <1>1 DEF Linked, InOrder

=============================================================================
