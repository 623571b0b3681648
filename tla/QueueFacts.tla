----------------------------- MODULE QueueFacts -----------------------------
(***************************************************************************)
(* Facts about queues, and about what goes from each number to the next,   *)
(* for the proofs about the modules that have some.                        *)
(***************************************************************************)
EXTENDS SequencesExt, SequenceTheorems, WellFoundedInduction, TLAPS

\* What Append and Tail do to the elements of a queue.
LEMMA QueueRange ==
  ASSUME NEW S, NEW q \in Seq(S)
  PROVE  /\ Range(q) \subseteq S
         /\ \A x \in S : Range(Append(q, x)) = Range(q) \cup {x}
         /\ q # <<>> => Head(q) \in Range(q) /\ Range(Tail(q)) \subseteq Range(q)
<1>1. ASSUME NEW x \in S PROVE Range(Append(q, x)) = Range(q) \cup {x}
  <2>1. Append(q, x) = q \o <<x>> /\ <<x>> \in Seq(S)
    BY AppendIsConcat
  <2>2. PICK one \in Seq(S) : one = <<x>>
    BY <2>1
  <2>3. Range(q \o one) = Range(q) \cup Range(one)
    BY RangeConcatenation
  <2>4. Range(one) = {x}
    BY <2>2 DEF Range
  <2> QED
    BY <2>1, <2>2, <2>3, <2>4
<1>2. ASSUME q # <<>> PROVE Head(q) \in Range(q) /\ Range(Tail(q)) \subseteq Range(q)
  BY <1>2, HeadTailProperties DEF Range
<1> QED
  BY <1>1, <1>2, RangeOfSeq

\* What a queue is after Append and Tail, for the provers' arithmetic.
LEMMA QueueShape ==
  ASSUME NEW S, NEW q \in Seq(S)
  PROVE  /\ Len(q) \in Nat /\ DOMAIN q = 1..Len(q)
         /\ \A i \in 1..Len(q) : q[i] \in S
         /\ q # <<>> =>
              /\ Len(q) > 0 /\ Head(q) = q[1] /\ Head(q) \in S
              /\ Tail(q) \in Seq(S) /\ DOMAIN Tail(q) = 1..(Len(q) - 1)
              /\ \A i \in 1..(Len(q) - 1) : Tail(q)[i] = q[i + 1]
         /\ \A x \in S :
              /\ Append(q, x) \in Seq(S) /\ DOMAIN Append(q, x) = 1..(Len(q) + 1)
              /\ \A i \in 1..Len(q) : Append(q, x)[i] = q[i]
              /\ Append(q, x)[Len(q) + 1] = x
<1>1. Len(q) \in Nat /\ DOMAIN q = 1..Len(q) /\ \A i \in 1..Len(q) : q[i] \in S
  BY LenProperties
<1>2. ASSUME q # <<>>
      PROVE  /\ Len(q) > 0 /\ Head(q) = q[1] /\ Head(q) \in S
             /\ Tail(q) \in Seq(S) /\ DOMAIN Tail(q) = 1..(Len(q) - 1)
             /\ \A i \in 1..(Len(q) - 1) : Tail(q)[i] = q[i + 1]
  <2>1. Tail(q) \in Seq(S) /\ Len(Tail(q)) = Len(q) - 1
        /\ \A i \in 1..Len(Tail(q)) : Tail(q)[i] = q[i + 1]
    BY <1>2, HeadTailProperties
  <2>2. Len(q) > 0 /\ Head(q) = q[1]
    BY <1>1, <1>2, EmptySeq
  <2> QED
    BY <1>1, <2>1, <2>2
<1>3. ASSUME NEW x \in S
      PROVE  /\ Append(q, x) \in Seq(S) /\ DOMAIN Append(q, x) = 1..(Len(q) + 1)
             /\ \A i \in 1..Len(q) : Append(q, x)[i] = q[i]
             /\ Append(q, x)[Len(q) + 1] = x
  BY AppendProperties
<1> QED
  BY <1>1, <1>2, <1>3

\* The elements of a queue are in the order that the relation R says.
Sorted(q, R) == \A i, j \in DOMAIN q : i < j => <<q[i], q[j]>> \in R

\* A queue stays sorted when a later element is appended or the first is taken.
LEMMA SortedQueue ==
  ASSUME NEW S, NEW q \in Seq(S), NEW R, Sorted(q, R)
  PROVE  /\ \A x \in S : (\A y \in Range(q) : <<y, x>> \in R) => Sorted(Append(q, x), R)
         /\ q # <<>> => /\ Sorted(Tail(q), R)
                        /\ \A y \in Range(Tail(q)) : <<Head(q), y>> \in R
<1>1. ASSUME NEW x \in S, \A y \in Range(q) : <<y, x>> \in R
      PROVE  Sorted(Append(q, x), R)
  BY <1>1, AppendProperties DEF Sorted, Range
<1>2. ASSUME q # <<>> PROVE Sorted(Tail(q), R)
  BY <1>2, QueueShape DEF Sorted
<1>3. ASSUME q # <<>>, NEW y \in Range(Tail(q)) PROVE <<Head(q), y>> \in R
  <2>1. PICK i \in 1..(Len(q) - 1) : y = q[i + 1]
    BY <1>3, QueueShape DEF Range
  <2> QED
    BY <1>3, <2>1, QueueShape DEF Sorted
<1> QED
  BY <1>1, <1>2, <1>3

-----------------------------------------------------------------------------
\* What holds of 0, and of each number up to n after one of which it holds.
LEMMA CountingUp ==
  ASSUME NEW n \in Nat, NEW S, 0 \in S, \A i \in 0..(n - 1) : i \in S => i + 1 \in S
  PROVE  0..n \subseteq S
<1> SUFFICES ASSUME NEW T, T = (0..n) \ S, T # {} PROVE FALSE
  OBVIOUS
<1>1. T \subseteq Nat
  OBVIOUS
<1>2. PICK k \in T : \A q \in T : ~(<<q, k>> \in OpToRel(<, Nat))
  BY <1>1, NatLessThanWellFounded, WFMin, Zenon
<1>3. k \in 0..n /\ k \notin S /\ k # 0 /\ \A q \in T : ~(q < k)
  BY <1>1, <1>2 DEF OpToRel
<1>4. k - 1 \in 0..(n - 1) /\ k - 1 < k
  BY <1>3
<1>5. k - 1 \in S
  BY <1>3, <1>4
<1> QED
  BY <1>3, <1>4, <1>5

\* Of the numbers in a set there is a least.
LEMMA LeastOf ==
  ASSUME NEW T \in SUBSET Nat, T # {}
  PROVE  \E k \in T : \A q \in T : k <= q
<1>1. PICK k \in T : \A q \in T : ~(<<q, k>> \in OpToRel(<, Nat))
  BY NatLessThanWellFounded, WFMin, Zenon
<1>2. k \in Nat /\ \A q \in T : q \in Nat /\ ~(q < k)
  BY <1>1 DEF OpToRel
<1>3. \A q \in T : k <= q
  BY <1>2
<1> QED
  BY <1>3

\* What a recursive definition makes of each index.
Follows(f, next, n) == \A i \in 1..n : f[i] = next[i][f[i - 1]]

\* A definition that goes from each index to the next has a value.
LEMMA RecursionHasValue ==
  ASSUME NEW n \in Nat, NEW V, NEW first \in V, NEW next \in [1..n -> [V -> V]]
  PROVE  \E f \in [0..n -> V] : f[0] = first /\ Follows(f, next, n)
<1> DEFINE Upto(k, f) == f[0] = first /\ \A i \in 1..k : f[i] = next[i][f[i - 1]]
           S == {k \in 0..n : \E f \in [0..n -> V] : Upto(k, f)}
<1>1. 0 \in S
  <2>1. PICK f \in [0..n -> V] : f = [i \in 0..n |-> first]
    OBVIOUS
  <2>2. Upto(0, f)
    BY <2>1
  <2> QED
    BY <2>2
<1>2. ASSUME NEW k \in 0..(n - 1), k \in S PROVE k + 1 \in S
  <2>1. PICK f \in [0..n -> V] : Upto(k, f)
    BY <1>2
  <2>2. k + 1 \in 1..n /\ k \in 0..n
    OBVIOUS
  <2>3. PICK v \in V : v = next[k + 1][f[k]]
    BY <2>2
  <2>4. PICK g \in [0..n -> V] : g = [f EXCEPT ![k + 1] = v]
    BY <2>2
  <2>5. g[k + 1] = v /\ \A i \in 0..k : g[i] = f[i]
    BY <2>2, <2>4
  <2>6. ASSUME NEW i \in 1..(k + 1) PROVE g[i] = next[i][g[i - 1]]
    <3>1. i - 1 \in 0..k /\ g[i - 1] = f[i - 1]
      BY <2>5
    <3>2. CASE i = k + 1
      BY <2>3, <2>5, <3>1, <3>2
    <3>3. CASE i \in 1..k
      BY <2>1, <2>5, <3>1, <3>3
    <3> QED
      BY <3>2, <3>3
  <2>7. g[0] = first
    BY <2>1, <2>5
  <2> QED
    BY <2>2, <2>6, <2>7
<1> HIDE DEF S
<1>3. 0..n \subseteq S
  BY <1>1, <1>2, CountingUp
<1>4. PICK f \in [0..n -> V] : Upto(n, f)
  BY <1>3 DEF S
<1> QED
  BY <1>4 DEF Follows

\* A sequence of sequences put together from its first to its last.
LEMMA Flattened ==
  ASSUME NEW S, NEW seqs \in Seq(Seq(S)), seqs # <<>>
  PROVE  \E f \in [1..Len(seqs) -> Seq(S)] :
           /\ f[1] = seqs[1] /\ \A i \in 2..Len(seqs) : f[i] = f[i - 1] \o seqs[i]
           /\ FlattenSeq(seqs) = f[Len(seqs)]
<1>1. PICK n \in Nat \ {0} : n = Len(seqs) /\ \A i \in 1..n : seqs[i] \in Seq(S)
  BY LenProperties, EmptySeq
<1>2. PICK V : V = Seq(S)
  OBVIOUS
<1>3. PICK e \in V : e = <<>>
  BY <1>2, EmptySeq
<1>4. PICK next : next = [i \in 1..n |-> [v \in V |-> v \o seqs[i]]]
  OBVIOUS
<1>5. next \in [1..n -> [V -> V]]
  <2>1. ASSUME NEW i \in 1..n, NEW v \in V PROVE v \o seqs[i] \in V
    BY <1>1, <1>2, ConcatProperties
  <2> QED
    BY <1>4, <2>1
<1>6. PICK g \in [0..n -> V] : g[0] = e /\ Follows(g, next, n)
  <2>1. n \in Nat /\ e \in V
    OBVIOUS
  <2> QED
    BY <1>5, <2>1, RecursionHasValue
<1>7. ASSUME NEW i \in 1..n PROVE g[i] \in V /\ g[i - 1] \in V /\ g[i] = g[i - 1] \o seqs[i]
  <2>1. i \in 0..n /\ i - 1 \in 0..n
    OBVIOUS
  <2>2. g[i] \in V /\ g[i - 1] \in V
    BY <2>1
  <2>3. g[i] = next[i][g[i - 1]]
    BY <1>6 DEF Follows
  <2> QED
    BY <1>4, <2>2, <2>3
<1>8. g[1] = seqs[1]
  <2>1. 1 \in 1..n /\ 1 - 1 = 0
    OBVIOUS
  <2>2. g[1] = e \o seqs[1] /\ seqs[1] \in Seq(S)
    BY <1>1, <1>6, <1>7, <2>1
  <2> QED
    BY <1>3, <2>2, ConcatEmptySeq
<1>9. PICK f \in [1..n -> V] : \A i \in 1..n : f[i] = g[i]
  <2>1. PICK f : f = [i \in 1..n |-> g[i]]
    OBVIOUS
  <2>2. \A i \in 1..n : g[i] \in V
    BY <1>7
  <2>3. f \in [1..n -> V]
    BY <2>1, <2>2
  <2> QED
    BY <2>1, <2>3
<1>10. f[1] = seqs[1] /\ \A i \in 2..n : f[i] = f[i - 1] \o seqs[i]
  <2>1. 1 \in 1..n /\ \A i \in 2..n : i \in 1..n /\ i - 1 \in 1..n
    OBVIOUS
  <2> QED
    BY <1>7, <1>8, <1>9, <2>1
<1>11. f = [i \in 1..n |-> IF i = 1 THEN seqs[i] ELSE f[i - 1] \o seqs[i]]
  <2>1. \A i \in 1..n : i = 1 \/ i \in 2..n
    OBVIOUS
  <2>2. \A i \in 1..n : f[i] = IF i = 1 THEN seqs[i] ELSE f[i - 1] \o seqs[i]
    BY <1>10, <2>1
  <2> QED
    BY <2>2
<1>12. PICK h : /\ h = [i \in 1..n |-> IF i = 1 THEN seqs[i] ELSE h[i - 1] \o seqs[i]]
                /\ FlattenSeq(seqs) = h[n]
  <2>1. \E h : h = [i \in 1..Len(seqs) |-> IF i = 1 THEN seqs[i] ELSE h[i - 1] \o seqs[i]]
    BY <1>1, <1>11
  <2>2. \E h : /\ h = [i \in 1..Len(seqs) |-> IF i = 1 THEN seqs[i] ELSE h[i - 1] \o seqs[i]]
               /\ FlattenSeq(seqs) = h[Len(seqs)]
    BY <1>1, <2>1 DEF FlattenSeq
  <2> QED
    BY <1>1, <2>2
<1>13. h[n] = f[n]
  <2>1. \A i \in 1..n : h[i] = IF i = 1 THEN seqs[i] ELSE h[i - 1] \o seqs[i]
    BY <1>12
  <2> DEFINE E == {k \in 0..n : k # 0 => h[k] = f[k]}
  <2>2. ASSUME NEW k \in 0..(n - 1), k \in E PROVE k + 1 \in E
    <3>1. CASE k = 0
      <4>1. 1 \in 1..n /\ h[1] = f[1]
        BY <1>10, <2>1
      <4> QED
        BY <3>1, <4>1
    <3>2. CASE k # 0
      <4>1. PICK j \in 2..n : j = k + 1 /\ j - 1 = k /\ j \in 1..n /\ j # 1 /\ h[k] = f[k]
        BY <2>2, <3>2
      <4>2. h[j] = h[k] \o seqs[j]
        BY <2>1, <4>1
      <4>3. f[j] = f[k] \o seqs[j]
        BY <1>10, <4>1
      <4>4. h[k + 1] = f[k + 1] /\ k + 1 \in 0..n
        BY <4>1, <4>2, <4>3
      <4> QED
        BY <4>4
    <3> QED
      BY <3>1, <3>2
  <2>3. 0 \in E
    OBVIOUS
  <2> HIDE DEF E
  <2>4. 0..n \subseteq E
    BY <2>2, <2>3, CountingUp
  <2>5. n \in E
    BY <2>4
  <2> QED
    BY <2>5 DEF E
<1> QED
  BY <1>1, <1>2, <1>9, <1>10, <1>12, <1>13

\* The same, as a recursive function is defined.
Recursive(f, first, next, n) == f = [k \in 0..n |-> IF k = 0 THEN first ELSE next[k][f[k - 1]]]

LEMMA Recursion ==
  ASSUME NEW n \in Nat, NEW V, NEW first \in V, NEW next \in [1..n -> [V -> V]]
  PROVE  \E f \in [0..n -> V] : Recursive(f, first, next, n)
<1>1. PICK f \in [0..n -> V] : f[0] = first /\ Follows(f, next, n)
  BY RecursionHasValue
<1>2. ASSUME NEW k \in 0..n PROVE f[k] = IF k = 0 THEN first ELSE next[k][f[k - 1]]
  <2>1. k = 0 \/ k \in 1..n
    OBVIOUS
  <2> QED
    BY <1>1, <2>1 DEF Follows
<1>3. Recursive(f, first, next, n)
  BY <1>2 DEF Recursive
<1> QED
  BY <1>3

\* Its value is unique.
StepAlike(f, h, n) == f[0] = h[0] /\ \A k \in 1..n : f[k - 1] = h[k - 1] => f[k] = h[k]

LEMMA SameRecursion ==
  ASSUME NEW n \in Nat, NEW f, NEW h, StepAlike(f, h, n)
  PROVE  f[n] = h[n] /\ \A k \in 0..n : f[k] = h[k]
<1>1. PICK S : S = {k \in 0..n : f[k] = h[k]}
  OBVIOUS
<1>2. 0 \in S
  BY <1>1 DEF StepAlike
<1>3. ASSUME NEW i \in 0..(n - 1), i \in S PROVE i + 1 \in S
  <2>1. i + 1 \in 1..n /\ i + 1 \in 0..n /\ (i + 1) - 1 = i
    OBVIOUS
  <2>2. f[i] = h[i]
    BY <1>1, <1>3
  <2> QED
    BY <1>1, <2>1, <2>2 DEF StepAlike
<1>4. 0..n \subseteq S
  BY <1>2, <1>3, CountingUp
<1> QED
  BY <1>1, <1>4

\* All queues are reached from the empty one by appending.
LEMMA QueuesFromEmpty ==
  ASSUME NEW S, NEW T, <<>> \in T, \A s \in Seq(S), e \in S : s \in T => Append(s, e) \in T
  PROVE  Seq(S) \subseteq T
<1> SUFFICES ASSUME NEW q \in Seq(S) PROVE q \in T
  OBVIOUS
<1>1. PICK n \in Nat : n = Len(q)
  BY LenProperties
<1>2. PICK L : L = {k \in 0..n : \A s \in Seq(S) : Len(s) = k => s \in T}
  OBVIOUS
<1>3. 0 \in L
  <2>1. \A s \in Seq(S) : Len(s) = 0 => s = <<>>
    BY EmptySeq
  <2> QED
    BY <1>2, <2>1
<1>4. ASSUME NEW k \in 0..(n - 1), k \in L PROVE k + 1 \in L
  <2>1. ASSUME NEW s \in Seq(S), Len(s) = k + 1 PROVE s \in T
    <3>1. s # <<>>
      BY <2>1, EmptySeq
    <3>2. PICK r \in Seq(S), e \in S : s = Append(r, e)
      BY <3>1, SequenceEmptyOrAppend
    <3>3. Len(r) \in Nat /\ Len(s) = Len(r) + 1
      BY <3>2, AppendProperties, LenProperties
    <3>4. Len(r) = k
      BY <2>1, <3>3
    <3>5. r \in T
      BY <1>2, <1>4, <3>4
    <3> QED
      BY <3>2, <3>5
  <2> QED
    BY <1>2, <2>1
<1>5. 0..n \subseteq L
  BY <1>3, <1>4, CountingUp
<1>6. n \in L
  BY <1>5
<1> QED
  BY <1>1, <1>2, <1>6

\* What Append does to a queue of queues put one after the other.
LEMMA FlattenAppended ==
  ASSUME NEW S
  PROVE  /\ FlattenSeq(<<>>) = <<>>
         /\ \A seqs \in Seq(Seq(S)), s \in Seq(S) :
              /\ FlattenSeq(seqs) \in Seq(S)
              /\ FlattenSeq(Append(seqs, s)) = FlattenSeq(seqs) \o s
<1>1. FlattenSeq(<<>>) = <<>>
  BY EmptySeq DEF FlattenSeq
<1>2. PICK V : V = Seq(S)
  OBVIOUS
<1>3. ASSUME NEW seqs \in Seq(V) PROVE FlattenSeq(seqs) \in V
  <2>1. CASE seqs = <<>>
    BY <1>1, <1>2, <2>1, EmptySeq
  <2>2. CASE seqs # <<>>
    <3>1. PICK f \in [1..Len(seqs) -> V] : FlattenSeq(seqs) = f[Len(seqs)]
      BY <1>2, <2>2, Flattened
    <3>2. Len(seqs) \in 1..Len(seqs)
      BY <2>2, EmptySeq
    <3> QED
      BY <3>1, <3>2
  <2> QED
    BY <2>1, <2>2
<1>4. ASSUME NEW seqs \in Seq(V), NEW s \in V
      PROVE  FlattenSeq(Append(seqs, s)) = FlattenSeq(seqs) \o s
  <2>1. PICK n \in Nat : n = Len(seqs)
    BY LenProperties
  <2>2. PICK more \in Seq(V) : more = Append(seqs, s)
    BY AppendProperties
  <2>3. /\ more # <<>> /\ Len(more) = n + 1 /\ more[n + 1] = s
        /\ \A i \in 1..n : more[i] = seqs[i]
    BY <2>1, <2>2, AppendProperties
  <2>g. PICK g : /\ g[1] = more[1] /\ \A i \in 2..(n + 1) : g[i] = g[i - 1] \o more[i]
                 /\ FlattenSeq(more) = g[n + 1]
    <3>1. PICK m : m = n + 1
      OBVIOUS
    <3>2. \E g : /\ g[1] = more[1] /\ \A i \in 2..m : g[i] = g[i - 1] \o more[i]
                 /\ FlattenSeq(more) = g[m]
      <4>1. more \in Seq(Seq(S)) /\ Len(more) = m
        BY <1>2, <2>2, <2>3, <3>1
      <4> QED
        BY <2>3, <4>1, Flattened
    <3> QED
      BY <3>1, <3>2
  <2>4. CASE seqs = <<>>
    <3>1. n = 0
      BY <2>1, <2>4, EmptySeq
    <3>2. FlattenSeq(more) = s
      BY <2>3, <2>g, <3>1
    <3>3. <<>> \o s = s
      BY <1>2, ConcatEmptySeq
    <3> QED
      BY <1>1, <2>2, <2>4, <3>2, <3>3
  <2>5. CASE seqs # <<>>
    <3>1. n \in Nat \ {0}
      BY <2>1, <2>5, EmptySeq
    <3>2. PICK f : /\ f[1] = seqs[1] /\ \A i \in 2..n : f[i] = f[i - 1] \o seqs[i]
                   /\ FlattenSeq(seqs) = f[n]
      BY <1>2, <2>1, <2>5, Flattened
    <3>3. PICK E : E = {i \in 0..n : i # 0 => f[i] = g[i]}
      OBVIOUS
    <3>4. ASSUME NEW i \in 0..(n - 1), i \in E PROVE i + 1 \in E
      <4>1. i + 1 \in 1..n /\ i + 1 \in 0..n
        OBVIOUS
      <4>2. CASE i = 0
        BY <2>3, <2>g, <3>1, <3>2, <3>3, <4>1, <4>2
      <4>3. CASE i # 0
        <5>1. i + 1 \in 2..n /\ i + 1 \in 2..(n + 1) /\ (i + 1) - 1 = i
          BY <4>3
        <5>2. f[i] = g[i] /\ more[i + 1] = seqs[i + 1]
          BY <2>3, <3>3, <3>4, <4>1, <4>3
        <5>3. f[i + 1] = f[i] \o seqs[i + 1] /\ g[i + 1] = g[i] \o more[i + 1]
          BY <2>g, <3>2, <5>1
        <5> QED
          BY <3>3, <4>1, <5>2, <5>3
      <4> QED
        BY <4>2, <4>3
    <3>5. 0 \in E
      BY <3>3
    <3>6. 0..n \subseteq E
      BY <3>4, <3>5, CountingUp
    <3>7. f[n] = g[n]
      BY <3>1, <3>3, <3>6
    <3>8. g[n + 1] = g[n] \o s
      <4>1. n + 1 \in 2..(n + 1) /\ (n + 1) - 1 = n
        BY <3>1
      <4> QED
        BY <2>3, <2>g, <4>1
    <3> QED
      BY <2>2, <2>g, <3>2, <3>7, <3>8
  <2> QED
    BY <2>4, <2>5
<1> QED
  BY <1>1, <1>2, <1>3, <1>4

\* Of three queues put together, it does not matter which two come first.
Associate(x, y, z) == (x \o y) \o z = x \o (y \o z)

LEMMA OneAfterAnother ==
  ASSUME NEW S, NEW x \in Seq(S), NEW y \in Seq(S), NEW z \in Seq(S)
  PROVE  Associate(x, y, z)
BY ConcatAssociative DEF Associate

=============================================================================
