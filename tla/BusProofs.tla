----------------------------- MODULE BusProofs ------------------------------
(***************************************************************************)
(* Theorems about Rs485: what its three properties need of the devices on  *)
(* the bus and of the frames between them, for every set of devices and    *)
(* messages, every number of packets, every length of the driver's buffer  *)
(* and every set of faults.                                                *)
(***************************************************************************)
EXTENDS Rs485, TLAPS, SequenceTheorems

-----------------------------------------------------------------------------
(* Queues: what Append and Tail do to what is in them and in which order.  *)

\* Some event of q is one of T; the last of them is in V; there is at most one.
Has(q, T)       == \E i \in 1 .. Len(q) : q[i] \in T
LastIn(q, T, V) == \A i \in 1 .. Len(q) : q[i] \in T /\ (\A j \in i + 1 .. Len(q) : q[j] \notin T) => q[i] \in V
AtMostOne(q, T) == \A i, j \in 1 .. Len(q) : q[i] \in T /\ q[j] \in T => i = j
Before(q, T, U) == \A i, j \in 1 .. Len(q) : q[i] \in T /\ q[j] \in U => i < j

\* The first event of T in q is in V; two of them with none between are in R.
FirstIn(q, T, V) ==
    \A j \in 1 .. Len(q) : q[j] \in T /\ (\A i \in 1 .. j - 1 : q[i] \notin T) => q[j] \in V
Adjacent(q, T, R) ==
    \A i, j \in 1 .. Len(q) :
        /\ i < j /\ q[i] \in T /\ q[j] \in T /\ \A k \in i + 1 .. j - 1 : q[k] \notin T
        => <<q[i], q[j]>> \in R

\* An event at the end of the queue.
LEMMA HasAppend ==
  ASSUME NEW S, NEW q \in Seq(S), NEW e \in S, NEW T
  PROVE  Has(Append(q, e), T) <=> Has(q, T) \/ e \in T
<1>1. /\ Len(Append(q, e)) = Len(q) + 1 /\ Append(q, e)[Len(q) + 1] = e /\ Len(q) \in Nat
      /\ \A i \in 1 .. Len(q) : Append(q, e)[i] = q[i]
  OBVIOUS
<1>2. \A i \in 1 .. Len(q) + 1 : i \in 1 .. Len(q) \/ i = Len(q) + 1
  BY <1>1
<1>3. 1 .. Len(q) \subseteq 1 .. Len(q) + 1 /\ Len(q) + 1 \in 1 .. Len(q) + 1
  BY <1>1
<1> QED
  BY <1>1, <1>2, <1>3, Zenon DEF Has

\* The last of T stays in V when an event that keeps it so is appended.
LEMMA LastInAppend ==
  ASSUME NEW S, NEW q \in Seq(S), NEW e \in S, NEW T, NEW V,
         e \in T \/ LastIn(q, T, V), e \in T => e \in V
  PROVE  LastIn(Append(q, e), T, V)
<1>1. /\ Len(Append(q, e)) = Len(q) + 1 /\ Append(q, e)[Len(q) + 1] = e /\ Len(q) \in Nat
      /\ \A i \in 1 .. Len(q) : Append(q, e)[i] = q[i]
  OBVIOUS
<1> DEFINE a == Append(q, e)
<1>2. SUFFICES ASSUME NEW i \in 1 .. Len(a), a[i] \in T, \A j \in i + 1 .. Len(a) : a[j] \notin T
               PROVE  a[i] \in V
  BY DEF LastIn
<1>3. CASE i = Len(q) + 1
  BY <1>1, <1>2, <1>3
<1>4. CASE i \in 1 .. Len(q)
  <2>1. Len(q) + 1 \in i + 1 .. Len(a)
    BY <1>1, <1>4
  <2>2. e \notin T
    BY <1>1, <1>2, <2>1
  <2>3. \A j \in i + 1 .. Len(q) : q[j] \notin T
    <3> TAKE j \in i + 1 .. Len(q)
    <3>1. j \in i + 1 .. Len(a) /\ j \in 1 .. Len(q)
      BY <1>1, <1>4
    <3> QED
      BY <1>1, <1>2, <3>1
  <2>4. q[i] \in T
    BY <1>1, <1>2, <1>4
  <2> QED
    BY <1>1, <1>4, <2>2, <2>3, <2>4, Zenon DEF LastIn
<1> QED
  BY <1>1, <1>3, <1>4

\* An event of T is appended where there is none: at most one is kept.
LEMMA AtMostOneAppend ==
  ASSUME NEW S, NEW q \in Seq(S), NEW e \in S, NEW T,
         AtMostOne(q, T), e \in T => ~Has(q, T)
  PROVE  AtMostOne(Append(q, e), T)
<1>1. /\ Len(Append(q, e)) = Len(q) + 1 /\ Append(q, e)[Len(q) + 1] = e /\ Len(q) \in Nat
      /\ \A i \in 1 .. Len(q) : Append(q, e)[i] = q[i]
  OBVIOUS
<1>2. \A i \in 1 .. Len(q) + 1 : i \in 1 .. Len(q) \/ i = Len(q) + 1
  BY <1>1
<1> QED
  BY <1>1, <1>2, Zenon DEF Has, AtMostOne

\* T stays before U when an event is appended that does not break the order.
LEMMA BeforeAppend ==
  ASSUME NEW S, NEW q \in Seq(S), NEW e \in S, NEW T, NEW U,
         Before(q, T, U), e \in T => ~Has(q, U) /\ e \notin U
  PROVE  Before(Append(q, e), T, U)
<1>1. /\ Len(Append(q, e)) = Len(q) + 1 /\ Append(q, e)[Len(q) + 1] = e /\ Len(q) \in Nat
      /\ \A i \in 1 .. Len(q) : Append(q, e)[i] = q[i]
  OBVIOUS
<1>2. \A i \in 1 .. Len(q) + 1 : i \in 1 .. Len(q) \/ i = Len(q) + 1
  BY <1>1
<1>3. \A i \in 1 .. Len(q) : i < Len(q) + 1
  BY <1>1
<1> QED
  BY <1>1, <1>2, <1>3, Zenon DEF Has, Before

\* The first event taken from the queue.
LEMMA TailFacts ==
  ASSUME NEW S, NEW q \in Seq(S), q # <<>>
  PROVE  /\ Tail(q) \in Seq(S) /\ Head(q) \in S /\ Head(q) = q[1] /\ Len(q) \in Nat
         /\ Len(Tail(q)) = Len(q) - 1 /\ Len(q) >= 1
         /\ \A i \in 1 .. Len(q) - 1 : Tail(q)[i] = q[i + 1]
OBVIOUS

\* What a queue has is at its head or behind it.
LEMMA HasTail ==
  ASSUME NEW S, NEW q \in Seq(S), q # <<>>, NEW T
  PROVE  Has(q, T) <=> Has(Tail(q), T) \/ Head(q) \in T
<1>1. /\ Head(q) = q[1] /\ Len(q) \in Nat
      /\ Len(Tail(q)) = Len(q) - 1 /\ Len(q) >= 1
      /\ \A i \in 1 .. Len(q) - 1 : Tail(q)[i] = q[i + 1]
  BY TailFacts
<1>2. ASSUME NEW i \in 1 .. Len(q), q[i] \in T PROVE Has(Tail(q), T) \/ Head(q) \in T
  <2>1. i = 1 \/ (i - 1 \in 1 .. Len(Tail(q)) /\ Tail(q)[i - 1] = q[i])
    BY <1>1
  <2> QED
    BY <1>1, <1>2, <2>1 DEF Has
<1>3. ASSUME NEW i \in 1 .. Len(Tail(q)), Tail(q)[i] \in T PROVE Has(q, T)
  <2>1. i + 1 \in 1 .. Len(q) /\ q[i + 1] \in T
    BY <1>1, <1>3
  <2> QED
    BY <2>1 DEF Has
<1>4. Head(q) \in T => Has(q, T)
  <2>1. 1 \in 1 .. Len(q)
    BY <1>1
  <2> QED
    BY <1>1, <2>1 DEF Has
<1> QED
  BY <1>2, <1>3, <1>4 DEF Has

\* The last of T stays the last when the head is taken.
LEMMA LastInTail ==
  ASSUME NEW S, NEW q \in Seq(S), q # <<>>, NEW T, NEW V, LastIn(q, T, V)
  PROVE  /\ LastIn(Tail(q), T, V)
         /\ Head(q) \in T /\ ~Has(Tail(q), T) => Head(q) \in V
<1>1. /\ Head(q) = q[1] /\ Len(q) \in Nat
      /\ Len(Tail(q)) = Len(q) - 1 /\ Len(q) >= 1
      /\ \A i \in 1 .. Len(q) - 1 : Tail(q)[i] = q[i + 1]
  BY TailFacts
<1>2. ASSUME NEW i \in 1 .. Len(Tail(q)), Tail(q)[i] \in T,
             \A j \in i + 1 .. Len(Tail(q)) : Tail(q)[j] \notin T
      PROVE  Tail(q)[i] \in V
  <2>1. i + 1 \in 1 .. Len(q) /\ q[i + 1] = Tail(q)[i]
    BY <1>1
  <2>2. \A j \in (i + 1) + 1 .. Len(q) : q[j] \notin T
    <3> TAKE j \in (i + 1) + 1 .. Len(q)
    <3>1. j - 1 \in i + 1 .. Len(Tail(q)) /\ Tail(q)[j - 1] = q[j]
      BY <1>1
    <3> QED
      BY <1>2, <3>1
  <2> QED
    BY <1>2, <2>1, <2>2, Zenon DEF LastIn
<1>3. ASSUME Head(q) \in T, ~Has(Tail(q), T) PROVE Head(q) \in V
  <2>1. 1 \in 1 .. Len(q) /\ q[1] \in T
    BY <1>1, <1>3
  <2>2. \A j \in 1 + 1 .. Len(q) : q[j] \notin T
    <3> TAKE j \in 1 + 1 .. Len(q)
    <3>1. j - 1 \in 1 .. Len(Tail(q)) /\ Tail(q)[j - 1] = q[j]
      BY <1>1
    <3> QED
      BY <1>3, <3>1 DEF Has
  <2> QED
    BY <1>1, <2>1, <2>2, Zenon DEF LastIn
<1>4. LastIn(Tail(q), T, V)
  BY <1>2 DEF LastIn
<1> QED
  BY <1>3, <1>4

\* At most one of T: none is left when the head was it.
LEMMA AtMostOneTail ==
  ASSUME NEW S, NEW q \in Seq(S), q # <<>>, NEW T, AtMostOne(q, T)
  PROVE  /\ AtMostOne(Tail(q), T)
         /\ Head(q) \in T => ~Has(Tail(q), T)
<1>1. /\ Head(q) = q[1] /\ Len(q) \in Nat
      /\ Len(Tail(q)) = Len(q) - 1 /\ Len(q) >= 1
      /\ \A i \in 1 .. Len(q) - 1 : Tail(q)[i] = q[i + 1]
  BY TailFacts
<1>2. ASSUME NEW i \in 1 .. Len(Tail(q)), NEW j \in 1 .. Len(Tail(q)), Tail(q)[i] \in T, Tail(q)[j] \in T
      PROVE  i = j
  <2>1. i + 1 \in 1 .. Len(q) /\ j + 1 \in 1 .. Len(q) /\ q[i + 1] \in T /\ q[j + 1] \in T
    BY <1>1, <1>2
  <2>2. i + 1 = j + 1
    BY <2>1 DEF AtMostOne
  <2> QED
    BY <2>2
<1>3. ASSUME Head(q) \in T, NEW i \in 1 .. Len(Tail(q)), Tail(q)[i] \in T PROVE FALSE
  <2>1. i + 1 \in 1 .. Len(q) /\ 1 \in 1 .. Len(q) /\ q[i + 1] \in T /\ q[1] \in T
    BY <1>1, <1>3
  <2>2. i + 1 = 1
    BY <2>1 DEF AtMostOne
  <2> QED
    BY <2>2
<1>4. AtMostOne(Tail(q), T)
  BY <1>2, Zenon DEF AtMostOne
<1> QED
  BY <1>3, <1>4, Zenon DEF Has

\* T stays before U when the head is taken; behind a U there is no T.
LEMMA BeforeTail ==
  ASSUME NEW S, NEW q \in Seq(S), q # <<>>, NEW T, NEW U, Before(q, T, U)
  PROVE  /\ Before(Tail(q), T, U)
         /\ Head(q) \in U => ~Has(Tail(q), T) /\ Head(q) \notin T
<1>1. /\ Head(q) = q[1] /\ Len(q) \in Nat
      /\ Len(Tail(q)) = Len(q) - 1 /\ Len(q) >= 1
      /\ \A i \in 1 .. Len(q) - 1 : Tail(q)[i] = q[i + 1]
  BY TailFacts
<1>2. ASSUME NEW i \in 1 .. Len(Tail(q)), NEW j \in 1 .. Len(Tail(q)), Tail(q)[i] \in T, Tail(q)[j] \in U
      PROVE  i < j
  <2>1. i + 1 \in 1 .. Len(q) /\ j + 1 \in 1 .. Len(q) /\ q[i + 1] \in T /\ q[j + 1] \in U
    BY <1>1, <1>2
  <2>2. i + 1 < j + 1
    BY <2>1 DEF Before
  <2> QED
    BY <2>2
<1>3. ASSUME Head(q) \in U, NEW i \in 1 .. Len(Tail(q)), Tail(q)[i] \in T PROVE FALSE
  <2>1. i + 1 \in 1 .. Len(q) /\ 1 \in 1 .. Len(q) /\ q[i + 1] \in T /\ q[1] \in U
    BY <1>1, <1>3
  <2>2. i + 1 < 1
    BY <2>1 DEF Before
  <2> QED
    BY <2>2
<1>4. ASSUME Head(q) \in U, Head(q) \in T PROVE FALSE
  <2>1. 1 \in 1 .. Len(q) /\ q[1] \in T /\ q[1] \in U
    BY <1>1, <1>4
  <2>2. 1 < 1
    BY <2>1, Zenon DEF Before
  <2> QED
    BY <2>2
<1>5. Before(Tail(q), T, U)
  BY <1>2, Zenon DEF Before
<1> QED
  BY <1>3, <1>4, <1>5, Zenon DEF Has

\* The empty queue.
LEMMA EmptyQueue ==
  ASSUME NEW T, NEW U, NEW V
  PROVE  /\ ~Has(<<>>, T) /\ LastIn(<<>>, T, V)
         /\ AtMostOne(<<>>, T) /\ Before(<<>>, T, U)
BY DEF Has, LastIn, AtMostOne, Before

\* The last word, when there is none, may be any.
LEMMA LastOfNone ==
  ASSUME NEW q, NEW T, NEW V, ~Has(q, T)
  PROVE  LastIn(q, T, V)
BY DEF Has, LastIn

\* What an append does to a queue, index by index.
LEMMA AppendFacts ==
  ASSUME NEW S, NEW q \in Seq(S), NEW e \in S
  PROVE  /\ Append(q, e) \in Seq(S) /\ Len(Append(q, e)) = Len(q) + 1 /\ Len(q) \in Nat
         /\ Append(q, e)[Len(q) + 1] = e
         /\ \A i \in 1 .. Len(q) : Append(q, e)[i] = q[i]
OBVIOUS

\* The first of T stays the first when an event is appended.
LEMMA FirstInAppend ==
  ASSUME NEW S, NEW q \in Seq(S), NEW e \in S, NEW T, NEW V,
         FirstIn(q, T, V), e \in T /\ ~Has(q, T) => e \in V
  PROVE  FirstIn(Append(q, e), T, V)
<1> DEFINE a == Append(q, e)
<1>1. /\ Len(a) = Len(q) + 1 /\ a[Len(q) + 1] = e /\ Len(q) \in Nat
      /\ \A i \in 1 .. Len(q) : a[i] = q[i]
  BY AppendFacts
<1> HIDE DEF a
<1> SUFFICES ASSUME NEW j \in 1 .. Len(a), a[j] \in T, \A i \in 1 .. j - 1 : a[i] \notin T
             PROVE  a[j] \in V
  BY Zenon DEF FirstIn, a
<1>2. CASE j \in 1 .. Len(q)
  <2>1. q[j] \in T /\ \A i \in 1 .. j - 1 : q[i] \notin T
    BY <1>1, <1>2
  <2> QED
    BY <1>1, <1>2, <2>1, Zenon DEF FirstIn
<1>3. CASE j = Len(q) + 1
  <2>1. ~Has(q, T)
    BY <1>1, <1>3 DEF Has
  <2> QED
    BY <1>1, <1>3, <2>1
<1> QED
  BY <1>1, <1>2, <1>3

\* The head aside, the first of T in the tail is the first of T.
LEMMA FirstInTail ==
  ASSUME NEW S, NEW q \in Seq(S), q # <<>>, NEW T, NEW V, FirstIn(q, T, V)
  PROVE  /\ Head(q) \in T => Head(q) \in V
         /\ Head(q) \notin T => FirstIn(Tail(q), T, V)
<1>1. /\ Head(q) = q[1] /\ Len(q) \in Nat
      /\ Len(Tail(q)) = Len(q) - 1 /\ Len(q) >= 1
      /\ \A i \in 1 .. Len(q) - 1 : Tail(q)[i] = q[i + 1]
  BY TailFacts
<1>2. ASSUME Head(q) \in T PROVE Head(q) \in V
  BY <1>1, <1>2 DEF FirstIn
<1>3. ASSUME Head(q) \notin T, NEW j \in 1 .. Len(Tail(q)), Tail(q)[j] \in T,
             \A i \in 1 .. j - 1 : Tail(q)[i] \notin T
      PROVE  Tail(q)[j] \in V
  <2>1. ASSUME NEW i \in 1 .. j PROVE q[i] \notin T
    <3>1. CASE i = 1
      BY <1>1, <1>3, <3>1
    <3>2. CASE i # 1
      <4>1. i - 1 \in 1 .. j - 1 /\ i - 1 \in 1 .. Len(q) - 1 /\ i = (i - 1) + 1
        BY <1>1, <1>3, <3>2
      <4>2. Tail(q)[i - 1] = q[i]
        BY <1>1, <4>1
      <4> QED
        BY <1>3, <4>1, <4>2
    <3> QED
      BY <3>1, <3>2
  <2>2. j + 1 \in 1 .. Len(q) /\ (j + 1) - 1 = j /\ Tail(q)[j] = q[j + 1]
    BY <1>1, <1>3
  <2> QED
    BY <1>3, <2>1, <2>2 DEF FirstIn
<1> QED
  BY <1>2, <1>3, Zenon DEF FirstIn

\* A new event of T follows the last one.
LEMMA AdjacentAppend ==
  ASSUME NEW S, NEW q \in Seq(S), NEW e \in S, NEW T, NEW V, NEW R,
         Adjacent(q, T, R), LastIn(q, T, V), e \in T => \A f \in V : <<f, e>> \in R
  PROVE  Adjacent(Append(q, e), T, R)
<1> DEFINE a == Append(q, e)
<1>1. /\ Len(a) = Len(q) + 1 /\ a[Len(q) + 1] = e /\ Len(q) \in Nat
      /\ \A i \in 1 .. Len(q) : a[i] = q[i]
  BY AppendFacts
<1> HIDE DEF a
<1> SUFFICES ASSUME NEW i \in 1 .. Len(a), NEW j \in 1 .. Len(a),
                    i < j, a[i] \in T, a[j] \in T, \A k \in i + 1 .. j - 1 : a[k] \notin T
             PROVE  <<a[i], a[j]>> \in R
  BY Zenon DEF Adjacent, a
<1>2. i \in 1 .. Len(q) /\ a[i] = q[i]
  BY <1>1
<1>3. CASE j \in 1 .. Len(q)
  <2>1. \A k \in i + 1 .. j - 1 : k \in 1 .. Len(q)
    BY <1>1, <1>2, <1>3
  <2>2. a[j] = q[j] /\ \A k \in i + 1 .. j - 1 : q[k] \notin T
    BY <1>1, <1>3, <2>1
  <2> QED
    BY <1>2, <1>3, <2>2, Zenon DEF Adjacent
<1>4. CASE j = Len(q) + 1
  <2>1. \A k \in i + 1 .. Len(q) : k \in 1 .. Len(q) /\ k \in i + 1 .. j - 1
    BY <1>1, <1>2, <1>4
  <2>2. q[i] \in V
    BY <1>1, <1>2, <2>1 DEF LastIn
  <2> QED
    BY <1>1, <1>2, <1>4, <2>2
<1> QED
  BY <1>1, <1>3, <1>4

\* The first of T in the tail follows the head.
LEMMA AdjacentTail ==
  ASSUME NEW S, NEW q \in Seq(S), q # <<>>, NEW T, NEW R, Adjacent(q, T, R)
  PROVE  /\ Adjacent(Tail(q), T, R)
         /\ Head(q) \in T => FirstIn(Tail(q), T, {g \in S : <<Head(q), g>> \in R})
<1> DEFINE t == Tail(q)
<1>1. /\ Head(q) = q[1] /\ Len(q) \in Nat /\ t \in Seq(S)
      /\ Len(t) = Len(q) - 1 /\ Len(q) >= 1
      /\ \A i \in 1 .. Len(q) - 1 : t[i] = q[i + 1]
  BY TailFacts
<1> HIDE DEF t
<1>2. ASSUME NEW i \in 1 .. Len(t), NEW j \in 1 .. Len(t),
             i < j, t[i] \in T, t[j] \in T, \A k \in i + 1 .. j - 1 : t[k] \notin T
      PROVE  <<t[i], t[j]>> \in R
  <2>1. /\ t[i] = q[i + 1] /\ t[j] = q[j + 1] /\ i + 1 \in 1 .. Len(q) /\ j + 1 \in 1 .. Len(q)
        /\ i + 1 < j + 1
    BY <1>1, <1>2
  <2>2. ASSUME NEW k \in (i + 1) + 1 .. (j + 1) - 1 PROVE q[k] \notin T
    <3>1. k - 1 \in i + 1 .. j - 1 /\ k - 1 \in 1 .. Len(q) - 1 /\ (k - 1) + 1 = k
      BY <1>1, <1>2
    <3>2. t[k - 1] = q[k]
      BY <1>1, <3>1
    <3> QED
      BY <1>2, <3>1, <3>2
  <2> QED
    BY <1>2, <2>1, <2>2 DEF Adjacent
<1>3. ASSUME Head(q) \in T, NEW j \in 1 .. Len(t), t[j] \in T,
             \A i \in 1 .. j - 1 : t[i] \notin T
      PROVE  t[j] \in {g \in S : <<Head(q), g>> \in R}
  <2>1. t[j] = q[j + 1] /\ j + 1 \in 1 .. Len(q) /\ 1 \in 1 .. Len(q) /\ 1 < j + 1
    BY <1>1, <1>3
  <2>2. ASSUME NEW k \in 1 + 1 .. (j + 1) - 1 PROVE q[k] \notin T
    <3>1. k - 1 \in 1 .. j - 1 /\ k - 1 \in 1 .. Len(q) - 1 /\ (k - 1) + 1 = k
      BY <1>1, <1>3
    <3>2. t[k - 1] = q[k]
      BY <1>1, <3>1
    <3> QED
      BY <1>3, <3>1, <3>2
  <2>3. <<q[1], q[j + 1]>> \in R
    BY <1>1, <1>3, <2>1, <2>2 DEF Adjacent
  <2>4. t[j] \in S
    BY <1>1
  <2> QED
    BY <1>1, <2>1, <2>3, <2>4
<1> QED
  BY <1>2, <1>3, Zenon DEF Adjacent, FirstIn, t

\* The conclusion of FirstIn and LastIn may be weakened, for events of T.
LEMMA FirstLastWeaker ==
  ASSUME NEW q, NEW T, NEW V, NEW W, \A e \in T : e \in V => e \in W
  PROVE  /\ FirstIn(q, T, V) => FirstIn(q, T, W)
         /\ LastIn(q, T, V) => LastIn(q, T, W)
BY Zenon DEF FirstIn, LastIn

-----------------------------------------------------------------------------
(* The bus: types.                                                          *)

Receivers == Nodes \union {RS485_BROADCAST}
BusFrames == {f \in [kind : {"data", "ack", "ping", "pong"}, from : Nodes, to : Receivers,
                     msg : Ids, total : Nat, pk : Nat] :
                 f.kind = "data" => f.pk \in 1 .. f.total}
DataFrames == {f \in BusFrames : f.kind = "data"}
\* The frames device n may have in its driver.
FramesFor(n) == {f \in BusFrames : /\ f.from # n /\ f.to \in {n, RS485_BROADCAST}
                                   /\ f.kind # "data" => f.to = n}

BusMsgs  == [id : Ids, to : Receivers, total : Nat \ {0}]
MsgOrNot == BusMsgs \union {NoOne}
BusCalls == {c \in [pc : {"idle", "wait"}, sem : {"null", "empty", "full"},
                    msg : MsgOrNot, queue : Seq(BusMsgs)] :
                c.pc = "wait" => c.msg \in BusMsgs}

Writing(t) == t.pc \in {"write", "clear", "ackwait", "count"}
BusTx == {t \in [pc : {"recv", "write", "clear", "ackwait", "count", "give"},
                 msg : MsgOrNot, pk : Nat, tries : Nat, sended : BOOLEAN, error : {0, 1}] :
             /\ t.tries <= TrySteps + 1
             /\ t.pc = "write" => t.tries <= TrySteps /\ t.sended
             /\ t.pc = "recv" => t.msg = NoOne
             /\ t.pc # "recv" => t.msg \in BusMsgs
             /\ Writing(t) => t.pk \in 1 .. t.msg.total}
BusAcks  == [ok : BOOLEAN, sem : {0, 1}]
BusEvs   == {e \in [pc : {"recv", "decode", "cbwait"}, frame : DataFrames \union {NoBus}] :
                e.pc # "recv" => e.frame \in DataFrames}
BusBufs  == [data : Seq(0 .. MaxOps), by : 0 .. MaxOps, cbsem : {0, 1}, waitsem : {0, 1}]
BusPings == [pc : {"idle", "clear", "wait"}, dev : Nodes \union {0}, round : 0 .. MaxOps,
             ok : BOOLEAN, sem : {0, 1}, by : 0 .. MaxOps, result : BOOLEAN]
BusHeard == [data : Seq(0 .. MaxOps), by : 0 .. MaxOps]
Upsets   == {"frame", "short", "lateack", "latepong", "latecall", "callback",
             "flush", "mix", "early"}

RxTypes == /\ rx \in [Nodes -> Seq(BusFrames)]
           /\ \A n \in Nodes : /\ Len(rx[n]) <= RxLength
                               /\ \A i \in 1 .. Len(rx[n]) : rx[n][i] \in FramesFor(n)
CallTypes  == call \in [Nodes -> BusCalls]
TxTypes    == tx \in [Nodes -> BusTx]
AckTypes   == ack \in [Nodes -> BusAcks]
EvTypes    == ev \in [Nodes -> BusEvs]
BufTypes   == buf \in [Nodes -> BusBufs]
PingTypes  == ping \in [Nodes -> BusPings]
GhostTypes == /\ offered \in 0 .. MaxOps
              /\ outcome \in [Ids -> {"none", "pending", "ok", "error"}]
              /\ heard \in [Nodes -> Seq(BusHeard)]
              /\ upset \subseteq Upsets
BusTypes ==
    RxTypes /\ CallTypes /\ TxTypes /\ AckTypes /\ EvTypes /\ BufTypes /\ PingTypes /\ GhostTypes

-----------------------------------------------------------------------------
(* The bus: a message is heard once.                                        *)

IdsIn(q)    == {q[i].id : i \in 1 .. Len(q)}
EachOnce(q) == \A i, j \in 1 .. Len(q) : q[i].id = q[j].id => i = j
\* The messages a device has queued, in hand, or last passed to Sender.
IdsWith(c, t) == (IdsIn(c.queue) \union {t.msg.id, c.msg.id}) \ {0}
QueueIds(n) == IdsIn(call[n].queue)
IdsOf(n)    == IdsWith(call[n], tx[n])

IdsApart ==
    /\ \A n \in Nodes : \A m \in IdsOf(n) : m <= offered
    /\ \A n, k \in Nodes : n # k => IdsOf(n) \intersect IdsOf(k) = {}
    /\ \A n \in Nodes : EachOnce(call[n].queue) /\ tx[n].msg.id \notin QueueIds(n)

\* The last packet of the message in hand is not on the bus yet.
Unwritten(t) ==
    /\ Writing(t)
    /\ t.pc = "write" \/ t.pk < t.msg.total \/ (t.pc = "count" /\ t.sended)
Unsent(m) ==
    \/ m > offered
    \/ \E k \in Nodes : m \in QueueIds(k) \/ (tx[k].msg.id = m /\ Unwritten(tx[k]))

Finals(m) == {f \in BusFrames : f.kind = "data" /\ f.msg = m /\ f.pk = f.total}
InEv(h, m) == ev[h].pc = "decode" /\ ev[h].frame \in Finals(m)
InBuf(h, m) == buf[h].cbsem = 1 /\ buf[h].by = m
InHeard(h, m) == \E i \in 1 .. Len(heard[h]) : heard[h][i].by = m

OnceAt(h, m) ==
    /\ AtMostOne(rx[h], Finals(m))
    /\ Has(rx[h], Finals(m)) => ~InEv(h, m) /\ ~InBuf(h, m) /\ ~InHeard(h, m)
    /\ InEv(h, m) => ~InBuf(h, m) /\ ~InHeard(h, m)
    /\ InBuf(h, m) => ~InHeard(h, m)
    /\ Unsent(m) => /\ ~Has(rx[h], Finals(m)) /\ ~InEv(h, m)
                    /\ ~InBuf(h, m) /\ ~InHeard(h, m)

BusOnce ==
    /\ \A h \in Nodes : \A m \in Ids : OnceAt(h, m)
    /\ \A h \in Nodes : \A i \in 1 .. Len(heard[h]) : heard[h][i].by \in Ids
    /\ \A h \in Nodes : buf[h].cbsem = 1 => buf[h].by \in Ids
    /\ HeardOnce

-----------------------------------------------------------------------------
(* The bus: a ping tells the truth.                                         *)

PingFrames(n) == {f \in BusFrames : \/ f.kind = "ping" /\ f.from = n
                                    \/ f.kind = "pong" /\ f.to = n}
Asked(n) == \E h \in Nodes : Has(rx[h], PingFrames(n))

OnePing(n) ==
    "latepong" \notin upset =>
        /\ Asked(n) => ping[n].pc # "idle" /\ ping[n].sem = 0
        /\ \A h \in Nodes : AtMostOne(rx[h], PingFrames(n))
        /\ \A h, k \in Nodes : Has(rx[h], PingFrames(n)) /\ Has(rx[k], PingFrames(n)) => h = k
        /\ \A h \in Nodes : \A i \in 1 .. Len(rx[h]) :
              rx[h][i] \in PingFrames(n) => rx[h][i].msg = ping[n].round
        /\ ping[n].sem = 1 => ping[n].pc # "idle"
        /\ ping[n].pc = "wait" /\ ping[n].ok => ping[n].by = ping[n].round

NoPingLost(n) ==
    upset = {} =>
        /\ ping[n].pc # "idle" => ping[n].sem = 1 \/ Asked(n)
        /\ ping[n].pc = "clear" /\ ping[n].sem = 1 => ping[n].ok /\ ping[n].by = ping[n].round
        /\ ping[n].pc = "wait" /\ ping[n].sem = 1 => ping[n].ok

BusPingInv == PingTruth /\ \A n \in Pingers : OnePing(n) /\ NoPingLost(n)

-----------------------------------------------------------------------------
(* The bus: types, step by step.                                            *)

\* Setting one value of a function.
LEMMA FunSet ==
  ASSUME NEW D, NEW R, NEW f \in [D -> R], NEW n \in D, NEW r \in R
  PROVE  /\ [f EXCEPT ![n] = r] \in [D -> R] /\ [f EXCEPT ![n] = r][n] = r
         /\ \A k \in D : k # n => [f EXCEPT ![n] = r][k] = f[k]
OBVIOUS

\* What a step leaves alone keeps its type.
LEMMA BusTypesKept ==
  ASSUME BusTypes
  PROVE  /\ rx' = rx => RxTypes'
         /\ call' = call => CallTypes'
         /\ tx' = tx => TxTypes'
         /\ ack' = ack => AckTypes'
         /\ ev' = ev => EvTypes'
         /\ buf' = buf => BufTypes'
         /\ ping' = ping => PingTypes'
         /\ UNCHANGED <<offered, outcome, heard, upset>> => GhostTypes'
<1> USE DEF BusTypes
<1>1. rx' = rx => RxTypes'
  BY DEF RxTypes
<1>2. call' = call => CallTypes'
  BY DEF CallTypes
<1>3. tx' = tx => TxTypes'
  BY DEF TxTypes
<1>4. ack' = ack => AckTypes'
  BY DEF AckTypes
<1>5. ev' = ev => EvTypes'
  BY DEF EvTypes
<1>6. buf' = buf => BufTypes'
  BY DEF BufTypes
<1>7. ping' = ping => PingTypes'
  BY DEF PingTypes
<1>8. UNCHANGED <<offered, outcome, heard, upset>> => GhostTypes'
  BY DEF GhostTypes
<1> QED
  BY <1>1, <1>2, <1>3, <1>4, <1>5, <1>6, <1>7, <1>8, Zenon

TxFields == [pc : {"recv", "write", "clear", "ackwait", "count", "give"},
             msg : MsgOrNot, pk : Nat, tries : Nat, sended : BOOLEAN, error : {0, 1}]

\* What _sender_task sets in its variables keeps their types.
LEMMA TxFieldsSet ==
  ASSUME NEW t \in TxFields, NEW p \in Nat, NEW r \in Nat, NEW b \in BOOLEAN,
         NEW c \in {"recv", "write", "clear", "ackwait", "count", "give"}
  PROVE  /\ [t EXCEPT !.pc = c, !.pk = p, !.tries = r, !.sended = b] \in TxFields
         /\ [t EXCEPT !.pc = c, !.tries = r, !.sended = b] \in TxFields
         /\ [t EXCEPT !.pc = c, !.sended = b] \in TxFields
         /\ [t EXCEPT !.pc = c, !.tries = r] \in TxFields
         /\ [t EXCEPT !.pc = c] \in TxFields
BY DEF TxFields

\* The next packet of a message is written, or there is none.
LEMMA AdvanceMeans ==
  ASSUME NEW t \in TxFields,
         t.msg \in BusMsgs, t.tries <= TrySteps + 1, t.pk <= t.msg.total
  PROVE  /\ Advance(t) \in BusTx /\ Advance(t).msg = t.msg
         /\ \/ /\ t.pk < t.msg.total /\ Advance(t).pc = "write" /\ Advance(t).pk = t.pk + 1
               /\ Advance(t).sended
            \/ t.pk = t.msg.total /\ Advance(t).pc = "give" /\ Advance(t).pk = t.pk
<1>1. t.msg.total \in Nat /\ t.pk \in Nat /\ TrySteps \in Nat
  BY BusAssumption DEF BusMsgs, TxFields
<1>2. CASE t.pk < t.msg.total
  <2>1. Advance(t) = [t EXCEPT !.pc = "write", !.pk = t.pk + 1, !.tries = 0, !.sended = TRUE]
    BY <1>2 DEF Advance
  <2> DEFINE a == [t EXCEPT !.pc = "write", !.pk = t.pk + 1, !.tries = 0, !.sended = TRUE]
  <2>2. a.pc = "write" /\ a.pk = t.pk + 1 /\ a.tries = 0 /\ a.sended = TRUE /\ a.msg = t.msg
    OBVIOUS
  <2>3. a \in TxFields
    <3>1. t.pk + 1 \in Nat /\ 0 \in Nat /\ TRUE \in BOOLEAN
      BY <1>1
    <3> QED
      BY <3>1, TxFieldsSet
  <2> HIDE DEF a
  <2>4. a.pk \in 1 .. a.msg.total /\ a.tries <= TrySteps
    BY <1>1, <1>2, <2>2
  <2>5. a.tries <= TrySteps + 1
    BY <1>1, <2>2
  <2>6. a \in BusTx
    BY <2>2, <2>3, <2>4, <2>5 DEF BusTx, TxFields
  <2> QED
    BY <1>2, <2>1, <2>2, <2>6 DEF a
<1>3. CASE ~(t.pk < t.msg.total)
  <2>1. Advance(t) = [t EXCEPT !.pc = "give"]
    BY <1>3 DEF Advance
  <2> DEFINE a == [t EXCEPT !.pc = "give"]
  <2>2. /\ a \in TxFields
        /\ a.pc = "give" /\ a.pk = t.pk /\ a.tries = t.tries /\ a.msg = t.msg
    BY DEF TxFields
  <2>4. a \in BusTx
    BY <2>2 DEF BusTx, TxFields, Writing
  <2> QED
    BY <1>1, <1>3, <2>1, <2>2, <2>4
<1> QED
  BY <1>2, <1>3

\* A frame put on the bus is appended where it arrives, and changes nothing
\* elsewhere; on a bus that loses nothing it arrives wherever it is heard.
LEMMA PutMeans ==
  ASSUME NEW f, NEW old, NEW S, Put(f, old, S), f \in BusFrames,
         old \in [Nodes -> Seq(BusFrames)], \A h \in Nodes : Len(old[h]) <= RxLength,
         \A h \in Nodes : \A i \in 1 .. Len(old[h]) : old[h][i] \in FramesFor(h),
         f.kind # "data" => f.to \in Nodes,
         upset \subseteq Upsets, S \subseteq Upsets
  PROVE  /\ RxTypes'
         /\ \A h \in Nodes : rx'[h] = old[h] \/ (h \in Hearers(f) /\ rx'[h] = Append(old[h], f))
         /\ upset \subseteq upset' /\ S \subseteq upset' /\ upset' \subseteq Upsets
         /\ "frame" \notin upset' => \A h \in Hearers(f) : rx'[h] = Append(old[h], f)
         /\ "mix" \notin upset' => ~Crossed(f)
         /\ upset' \subseteq upset \union S \union {"frame", "mix"}
<1>1. PICK lost \in SUBSET Hearers(f) :
        /\ \A n \in Hearers(f) : Len(old[n]) = RxLength => n \in lost
        /\ rx' = [n \in Nodes |-> IF n \in Hearers(f) \ lost THEN Append(old[n], f) ELSE old[n]]
        /\ Upset(S \union (IF lost # {} THEN {"frame"} ELSE {})
                   \union (IF Crossed(f) THEN {"mix"} ELSE {}))
  BY Zenon DEF Put
<1>2. Hearers(f) \subseteq Nodes /\ \A h \in Hearers(f) : h # f.from /\ f.to \in {h, RS485_BROADCAST}
  BY DEF Hearers
<1>3. ASSUME NEW h \in Nodes
      PROVE  /\ rx'[h] = old[h] \/ (h \in Hearers(f) /\ Len(old[h]) # RxLength /\ rx'[h] = Append(old[h], f))
             /\ lost = {} /\ h \in Hearers(f) => rx'[h] = Append(old[h], f)
  BY <1>1, <1>3
<1>4. ASSUME NEW h \in Nodes
      PROVE  /\ rx'[h] \in Seq(BusFrames) /\ Len(rx'[h]) <= RxLength
             /\ \A i \in 1 .. Len(rx'[h]) : rx'[h][i] \in FramesFor(h)
  <2>1. old[h] \in Seq(BusFrames) /\ Len(old[h]) <= RxLength
        /\ \A i \in 1 .. Len(old[h]) : old[h][i] \in FramesFor(h)
    BY <1>4
  <2>2. CASE rx'[h] = old[h]
    BY <2>1, <2>2
  <2>3. CASE h \in Hearers(f) /\ Len(old[h]) # RxLength /\ rx'[h] = Append(old[h], f)
    <3> DEFINE a == Append(old[h], f)
    <3>1. /\ a \in Seq(BusFrames) /\ Len(a) = Len(old[h]) + 1 /\ Len(old[h]) \in Nat
          /\ a[Len(old[h]) + 1] = f /\ \A i \in 1 .. Len(old[h]) : a[i] = old[h][i]
      BY <2>1, AppendFacts
    <3> HIDE DEF a
    <3>2. f \in FramesFor(h)
      BY <1>2, <2>3, BusAssumption DEF FramesFor
    <3>3. \A i \in 1 .. Len(a) : i \in 1 .. Len(old[h]) \/ i = Len(old[h]) + 1
      BY <3>1
    <3>4. \A i \in 1 .. Len(a) : a[i] \in FramesFor(h)
      BY <2>1, <3>1, <3>2, <3>3
    <3>5. Len(a) <= RxLength
      BY <2>1, <2>3, <3>1, BusAssumption
    <3> QED
      BY <2>3, <3>1, <3>4, <3>5 DEF a
  <2> QED
    BY <1>3, <2>2, <2>3
<1>5. rx' \in [Nodes -> Seq(BusFrames)]
  <2>1. DOMAIN rx' = Nodes /\ rx' = [n \in Nodes |-> rx'[n]]
    BY <1>1
  <2> QED
    BY <1>4, <2>1
<1>6. RxTypes'
  BY <1>4, <1>5 DEF RxTypes
<1>7. upset' = upset \union (S \union (IF lost # {} THEN {"frame"} ELSE {})
                   \union (IF Crossed(f) THEN {"mix"} ELSE {}))
  BY <1>1 DEF Upset
<1>8. /\ upset \subseteq upset' /\ S \subseteq upset' /\ upset' \subseteq Upsets
      /\ "frame" \notin upset' => lost = {}
      /\ "mix" \notin upset' => ~Crossed(f)
      /\ upset' \subseteq upset \union S \union {"frame", "mix"}
  <2> HIDE <1>1
  <2> QED
    BY <1>7 DEF Upsets
<1> QED
  BY <1>2, <1>3, <1>6, <1>8

\* A step on the record of one device leaves those of the others.
OnlyAt(n, old, new) == \A k \in Nodes : k # n => new[k] = old[k]

\* Sender hands a new message over.
LEMMA BusSenderMeans ==
  ASSUME BusTypes, NEW n \in Nodes, BusSender(n)
  PROVE  /\ BusTypes' /\ UNCHANGED <<rx, ack, ev, buf, ping, heard, upset>>
         /\ OnlyAt(n, call, call') /\ OnlyAt(n, tx, tx')
         /\ call[n].pc = "idle" /\ call'[n].pc = "wait" /\ call'[n].sem = "empty"
         /\ offered' = offered + 1 /\ offered + 1 \in Ids
         /\ call'[n].msg \in BusMsgs /\ call'[n].msg.id = offered + 1
         /\ call'[n].queue = Append(call[n].queue, call'[n].msg)
         /\ tx'[n].pc = tx[n].pc /\ tx'[n].msg = tx[n].msg /\ tx'[n].pk = tx[n].pk
         /\ tx'[n].sended = tx[n].sended
         /\ outcome' = [outcome EXCEPT ![offered + 1] = "pending"]
<1>1. PICK t \in {u \in Traffic : u.from = n} :
        /\ ~Busy(n) /\ offered < MaxOps
        /\ call' = [call EXCEPT ![n] = [pc |-> "wait", sem |-> "empty",
                      msg |-> [id |-> offered + 1, to |-> t.to, total |-> t.total],
                      queue |-> Append(call[n].queue, [id |-> offered + 1, to |-> t.to, total |-> t.total])]]
        /\ tx' = [tx EXCEPT ![n].error = 0]
        /\ offered' = offered + 1
        /\ outcome' = [outcome EXCEPT ![offered + 1] = "pending"]
        /\ UNCHANGED <<rx, ack, ev, buf, ping, heard, upset>>
  BY DEF BusSender
<1>2. offered + 1 \in Ids /\ offered \in Nat /\ offered + 1 \in 0 .. MaxOps
  BY <1>1, BusAssumption DEF BusTypes, GhostTypes, Ids
<1> DEFINE m == [id |-> offered + 1, to |-> t.to, total |-> t.total]
<1>3. m \in BusMsgs /\ m.id = offered + 1
  BY <1>1, <1>2, BusAssumption DEF BusMsgs, Receivers
<1> HIDE DEF m
<1> DEFINE c == [pc |-> "wait", sem |-> "empty", msg |-> m, queue |-> Append(call[n].queue, m)]
<1>4. call[n] \in BusCalls /\ tx[n] \in BusTx /\ call \in [Nodes -> BusCalls] /\ tx \in [Nodes -> BusTx]
  BY DEF BusTypes, CallTypes, TxTypes
<1>5. Append(call[n].queue, m) \in Seq(BusMsgs)
  BY <1>3, <1>4 DEF BusCalls
<1>6. c \in BusCalls /\ c.pc = "wait" /\ c.sem = "empty" /\ c.msg = m /\ c.queue = Append(call[n].queue, m)
  BY <1>3, <1>5 DEF BusCalls, MsgOrNot
<1> HIDE DEF c
<1>7. call' = [call EXCEPT ![n] = c]
  BY <1>1, Zenon DEF c, m
<1>8. call'[n] = c /\ OnlyAt(n, call, call') /\ CallTypes'
  BY <1>4, <1>6, <1>7, FunSet DEF OnlyAt, CallTypes
<1> DEFINE t2 == [tx[n] EXCEPT !.error = 0]
<1>9. t2 \in TxFields /\ t2.pc = tx[n].pc /\ t2.msg = tx[n].msg /\ t2.pk = tx[n].pk
      /\ t2.sended = tx[n].sended /\ t2.tries = tx[n].tries
  BY <1>4 DEF BusTx, TxFields
<1> HIDE DEF t2
<1>10. t2 \in BusTx
  BY <1>4, <1>9 DEF BusTx, Writing, TxFields
<1>11. tx' = [tx EXCEPT ![n] = t2]
  BY <1>1 DEF t2
<1>12. tx'[n] = t2 /\ OnlyAt(n, tx, tx') /\ TxTypes'
  BY <1>4, <1>10, <1>11, FunSet DEF OnlyAt, TxTypes
<1>13. GhostTypes'
  <2>1. outcome \in [Ids -> {"none", "pending", "ok", "error"}]
    BY DEF BusTypes, GhostTypes
  <2>2. outcome' \in [Ids -> {"none", "pending", "ok", "error"}]
    BY <1>1, <2>1
  <2>3. heard' = heard /\ upset' = upset
    BY <1>1
  <2> QED
    BY <1>1, <1>2, <2>2, <2>3 DEF BusTypes, GhostTypes
<1>14. BusTypes'
  BY <1>1, <1>8, <1>12, <1>13, BusTypesKept DEF BusTypes
<1>15. call[n].pc = "idle"
  BY <1>1, <1>4 DEF Busy, BusCalls
<1> QED
  BY <1>1, <1>2, <1>3, <1>6, <1>8, <1>9, <1>12, <1>14, <1>15

\* Sender returns.
LEMMA BusSenderEndMeans ==
  ASSUME BusTypes, NEW n \in Nodes, BusSenderEnd(n)
  PROVE  /\ BusTypes' /\ UNCHANGED <<rx, tx, ack, ev, buf, ping, offered, heard>>
         /\ OnlyAt(n, call, call')
         /\ call[n].pc = "wait" /\ call'[n].pc = "idle" /\ call'[n].sem = "null"
         /\ call'[n].msg = call[n].msg /\ call'[n].queue = call[n].queue
         /\ upset \subseteq upset' /\ (call[n].sem = "full" \/ "latecall" \in upset')
         /\ call[n].msg.id \in Ids
         /\ \A m \in Ids : m # call[n].msg.id => outcome'[m] = outcome[m]
<1>1. call[n] \in BusCalls /\ call \in [Nodes -> BusCalls]
  BY DEF BusTypes, CallTypes
<1>2. call[n].pc = "wait" /\ call[n].msg.id \in Ids
  BY <1>1 DEF BusSenderEnd, Busy, BusCalls, BusMsgs
<1> DEFINE c == [call[n] EXCEPT !.pc = "idle", !.sem = "null"]
<1>3. /\ c.pc = "idle" /\ c.sem = "null" /\ c.msg = call[n].msg /\ c.queue = call[n].queue
      /\ c \in BusCalls
  BY <1>1 DEF BusCalls
<1> HIDE DEF c
<1>4. call' = [call EXCEPT ![n] = c]
  BY DEF BusSenderEnd, c
<1>5. call'[n] = c /\ OnlyAt(n, call, call') /\ CallTypes'
  BY <1>1, <1>3, <1>4, FunSet DEF OnlyAt, CallTypes
<1>6. upset \subseteq upset' /\ (call[n].sem = "full" \/ "latecall" \in upset')
      /\ upset' \subseteq Upsets
  BY DEF BusSenderEnd, Upset, BusTypes, GhostTypes, Upsets
<1>7. /\ outcome' \in [Ids -> {"none", "pending", "ok", "error"}]
      /\ \A m \in Ids : m # call[n].msg.id => outcome'[m] = outcome[m]
  BY <1>2 DEF BusSenderEnd, BusTypes, GhostTypes
<1>8. UNCHANGED <<rx, tx, ack, ev, buf, ping, offered, heard>>
  BY DEF BusSenderEnd
<1>9. GhostTypes'
  BY <1>6, <1>7, <1>8 DEF BusTypes, GhostTypes
<1>10. BusTypes'
  BY <1>5, <1>8, <1>9, BusTypesKept DEF BusTypes
<1> QED
  BY <1>2, <1>3, <1>5, <1>6, <1>7, <1>8, <1>10

\* The sender task takes a message and turns to its first packet.
LEMMA TxReceiveMeans ==
  ASSUME BusTypes, NEW n \in Nodes, TxReceive(n)
  PROVE  /\ BusTypes' /\ UNCHANGED <<rx, ack, ev, buf, ping, offered, outcome, heard, upset>>
         /\ OnlyAt(n, call, call') /\ OnlyAt(n, tx, tx')
         /\ tx[n].pc = "recv" /\ call[n].queue # <<>> /\ Head(call[n].queue) \in BusMsgs
         /\ tx'[n].pc = "write" /\ tx'[n].pk = 1 /\ tx'[n].msg = Head(call[n].queue)
         /\ call'[n].queue = Tail(call[n].queue) /\ call'[n].pc = call[n].pc
         /\ call'[n].sem = call[n].sem /\ call'[n].msg = call[n].msg
<1>1. /\ tx[n].pc = "recv" /\ call[n].queue # <<>>
      /\ tx' = [tx EXCEPT ![n] = Advance([tx[n] EXCEPT !.pk = 0, !.msg = Head(call[n].queue)])]
      /\ call' = [call EXCEPT ![n].queue = Tail(call[n].queue)]
      /\ UNCHANGED <<rx, ack, ev, buf, ping, offered, outcome, heard, upset>>
  BY DEF TxReceive, TxOnly
<1>2. call[n] \in BusCalls /\ tx[n] \in BusTx /\ call \in [Nodes -> BusCalls] /\ tx \in [Nodes -> BusTx]
  BY DEF BusTypes, CallTypes, TxTypes
<1>3. call[n].queue \in Seq(BusMsgs) /\ Head(call[n].queue) \in BusMsgs /\ Tail(call[n].queue) \in Seq(BusMsgs)
  BY <1>1, <1>2 DEF BusCalls
<1> DEFINE m == Head(call[n].queue)
           t == [tx[n] EXCEPT !.pk = 0, !.msg = m]
           c == [call[n] EXCEPT !.queue = Tail(call[n].queue)]
<1>4. c \in BusCalls /\ c.queue = Tail(call[n].queue) /\ c.pc = call[n].pc
      /\ c.sem = call[n].sem /\ c.msg = call[n].msg
  BY <1>2, <1>3 DEF BusCalls
<1> HIDE DEF m, c
<1>5. t \in TxFields /\ t.msg = m /\ t.pk = 0 /\ t.tries = tx[n].tries
  BY <1>2, <1>3 DEF BusTx, TxFields, MsgOrNot, m
<1>6. m \in BusMsgs /\ m.total \in Nat \ {0} /\ tx[n].tries <= TrySteps + 1
  BY <1>2, <1>3 DEF BusMsgs, BusTx, m
<1> HIDE DEF t
<1>7. /\ Advance(t) \in BusTx /\ Advance(t).msg = m
      /\ Advance(t).pc = "write" /\ Advance(t).pk = 1
  BY <1>5, <1>6, AdvanceMeans
<1>8. tx' = [tx EXCEPT ![n] = Advance(t)] /\ call' = [call EXCEPT ![n] = c]
  BY <1>1 DEF t, c, m
<1>9. tx'[n] = Advance(t) /\ OnlyAt(n, tx, tx') /\ TxTypes'
  BY <1>2, <1>7, <1>8, FunSet DEF OnlyAt, TxTypes
<1>10. call'[n] = c /\ OnlyAt(n, call, call') /\ CallTypes'
  BY <1>2, <1>4, <1>8, FunSet DEF OnlyAt, CallTypes
<1>11. BusTypes'
  BY <1>1, <1>9, <1>10, BusTypesKept DEF BusTypes
<1> QED
  BY <1>1, <1>3, <1>4, <1>7, <1>9, <1>10, <1>11 DEF m

Flushed(n) == [rx EXCEPT ![n] = <<>>]

\* Throwing away what a device received leaves the others' frames.
LEMMA FlushedMeans ==
  ASSUME BusTypes, NEW n \in Nodes
  PROVE  /\ Flushed(n) \in [Nodes -> Seq(BusFrames)] /\ Flushed(n)[n] = <<>>
         /\ OnlyAt(n, rx, Flushed(n))
         /\ \A h \in Nodes : Len(Flushed(n)[h]) <= RxLength
         /\ \A h \in Nodes : \A i \in 1 .. Len(Flushed(n)[h]) : Flushed(n)[h][i] \in FramesFor(h)
<1>1. rx \in [Nodes -> Seq(BusFrames)] /\ <<>> \in Seq(BusFrames) /\ Len(<<>>) = 0 /\ 0 <= RxLength
  BY BusAssumption DEF BusTypes, RxTypes
<1>2. /\ Flushed(n) \in [Nodes -> Seq(BusFrames)] /\ Flushed(n)[n] = <<>>
      /\ OnlyAt(n, rx, Flushed(n))
  BY <1>1, FunSet DEF Flushed, OnlyAt
<1>3. ASSUME NEW h \in Nodes
      PROVE  /\ Len(Flushed(n)[h]) <= RxLength
             /\ \A i \in 1 .. Len(Flushed(n)[h]) : Flushed(n)[h][i] \in FramesFor(h)
  <2>1. CASE h = n
    BY <1>1, <1>2, <2>1
  <2>2. CASE h # n
    BY <1>2, <2>2 DEF OnlyAt, BusTypes, RxTypes
  <2> QED
    BY <2>1, <2>2
<1> QED
  BY <1>2, <1>3

\* A packet in hand makes a frame of its message.
LEMMA FrameMeans ==
  ASSUME BusTypes, NEW n \in Nodes, tx[n].pc = "write"
  PROVE  /\ Frame(n) \in DataFrames /\ Frame(n).kind = "data" /\ Frame(n).from = n
         /\ Frame(n).to = tx[n].msg.to /\ Frame(n).msg = tx[n].msg.id
         /\ Frame(n).total = tx[n].msg.total /\ Frame(n).pk = tx[n].pk
         /\ tx[n].msg \in BusMsgs /\ tx[n].pk \in 1 .. tx[n].msg.total
<1>1. tx[n] \in BusTx
  BY DEF BusTypes, TxTypes
<1>2. tx[n].msg \in BusMsgs /\ tx[n].pk \in 1 .. tx[n].msg.total /\ tx[n].pk \in Nat
  BY <1>1 DEF BusTx, Writing
<1>3. /\ Frame(n).kind = "data" /\ Frame(n).from = n
      /\ Frame(n).to = tx[n].msg.to /\ Frame(n).msg = tx[n].msg.id
      /\ Frame(n).total = tx[n].msg.total /\ Frame(n).pk = tx[n].pk
  BY DEF Frame
<1>4. tx[n].msg.to \in Receivers /\ tx[n].msg.id \in Ids /\ tx[n].msg.total \in Nat
  BY <1>2 DEF BusMsgs
<1>5. Frame(n) \in [kind : {"data", "ack", "ping", "pong"}, from : Nodes, to : Receivers,
                     msg : Ids, total : Nat, pk : Nat]
  BY <1>2, <1>4 DEF Frame
<1> HIDE DEF Frame
<1>6. Frame(n).pk \in 1 .. Frame(n).total
  BY <1>2, <1>3
<1> QED
  BY <1>2, <1>3, <1>5, <1>6 DEF BusFrames, DataFrames

\* What a write does with the message in hand.
LEMMA WrittenMeans ==
  ASSUME NEW t \in BusTx, t.pc = "write"
  PROVE  /\ Written(t) \in BusTx /\ Written(t).msg = t.msg /\ Written(t).pk = t.pk
         /\ \/ Written(t).pc = "count" /\ ~Written(t).sended
            \/ Written(t).pc = "clear"
         /\ [t EXCEPT !.pc = "count", !.tries = t.tries + 1] \in BusTx
<1>1. /\ t \in TxFields /\ t.tries <= TrySteps /\ t.msg \in BusMsgs /\ t.pk \in 1 .. t.msg.total
      /\ t.tries \in Nat /\ TrySteps \in Nat
  BY BusAssumption DEF BusTx, TxFields, Writing
<1>2. t.tries + 1 \in Nat /\ t.tries + 1 <= TrySteps + 1 /\ FALSE \in BOOLEAN
  BY <1>1
<1> DEFINE r == t.tries + 1
<1>3. r \in Nat /\ r <= TrySteps + 1
  BY <1>2
<1> HIDE DEF r
<1> DEFINE a == [t EXCEPT !.pc = "count", !.tries = r, !.sended = FALSE]
           b == [t EXCEPT !.pc = "clear", !.tries = r]
           c == [t EXCEPT !.pc = "count", !.tries = r]
<1>4. a \in TxFields /\ b \in TxFields /\ c \in TxFields
  BY <1>1, <1>2, <1>3, TxFieldsSet
<1>5. /\ a.pc = "count" /\ a.sended = FALSE /\ a.msg = t.msg /\ a.pk = t.pk /\ a.tries = r
      /\ b.pc = "clear" /\ b.msg = t.msg /\ b.pk = t.pk /\ b.tries = r
      /\ c.pc = "count" /\ c.msg = t.msg /\ c.pk = t.pk /\ c.tries = r
  BY <1>1 DEF TxFields
<1> HIDE DEF a, b, c
<1>6. a \in BusTx /\ b \in BusTx /\ c \in BusTx
  BY <1>1, <1>3, <1>4, <1>5 DEF BusTx, TxFields
<1>7. Written(t) = a \/ Written(t) = b
  BY DEF Written, a, b, r
<1> QED
  BY <1>5, <1>6, <1>7 DEF c, r

\* A packet is written: it is on the bus, or not, cut short.
LEMMA TxWriteMeans ==
  ASSUME BusTypes, NEW n \in Nodes, TxWrite(n)
  PROVE  /\ BusTypes' /\ UNCHANGED <<call, ack, ev, buf, ping, offered, outcome, heard>>
         /\ OnlyAt(n, tx, tx') /\ upset \subseteq upset'
         /\ rx[n] # <<>> => "flush" \in upset'
         /\ tx[n].pc = "write" /\ tx'[n].msg = tx[n].msg /\ tx'[n].pk = tx[n].pk
         /\ \/ /\ \/ tx'[n].pc = "count" /\ ~tx'[n].sended
                  \/ tx'[n].pc = "clear"
               /\ \A h \in Nodes : \/ rx'[h] = Flushed(n)[h]
                                   \/ /\ h \in Hearers(Frame(n))
                                      /\ rx'[h] = Append(Flushed(n)[h], Frame(n))
               /\ "frame" \notin upset' =>
                     \A h \in Hearers(Frame(n)) : rx'[h] = Append(Flushed(n)[h], Frame(n))
               /\ "mix" \notin upset' => ~Crossed(Frame(n))
            \/ /\ "short" \in upset' /\ rx' = Flushed(n)
               /\ tx'[n].pc = "count" /\ tx'[n].sended
<1> DEFINE S == IF rx[n] # <<>> THEN {"flush"} ELSE {}
<1>1. /\ tx[n].pc = "write"
      /\ UNCHANGED <<call, ack, ev, buf, ping, offered, outcome, heard>>
      /\ \/ Put(Frame(n), Flushed(n), S) /\ tx' = [tx EXCEPT ![n] = Written(tx[n])]
         \/ /\ rx' = Flushed(n) /\ Upset(S \union {"short"})
            /\ tx' = [tx EXCEPT ![n].pc = "count", ![n].tries = tx[n].tries + 1]
  BY DEF TxWrite, Flushed
<1>2. S \subseteq Upsets /\ upset \subseteq Upsets /\ (rx[n] # <<>> => "flush" \in S)
  BY DEF Upsets, BusTypes, GhostTypes
<1> HIDE DEF S
<1>3. tx[n] \in BusTx /\ tx \in [Nodes -> BusTx] /\ tx[n].sended
  BY <1>1 DEF BusTypes, TxTypes, BusTx
<1>4. Frame(n) \in BusFrames /\ Frame(n).kind = "data"
  BY <1>1, FrameMeans DEF DataFrames
<1>5. CASE Put(Frame(n), Flushed(n), S) /\ tx' = [tx EXCEPT ![n] = Written(tx[n])]
  <2>1. /\ RxTypes'
        /\ \A h \in Nodes : \/ rx'[h] = Flushed(n)[h]
                            \/ h \in Hearers(Frame(n)) /\ rx'[h] = Append(Flushed(n)[h], Frame(n))
        /\ upset \subseteq upset' /\ S \subseteq upset' /\ upset' \subseteq Upsets
        /\ "frame" \notin upset' => \A h \in Hearers(Frame(n)) : rx'[h] = Append(Flushed(n)[h], Frame(n))
        /\ "mix" \notin upset' => ~Crossed(Frame(n))
    <3>1. /\ Flushed(n) \in [Nodes -> Seq(BusFrames)]
          /\ \A h \in Nodes : Len(Flushed(n)[h]) <= RxLength
          /\ \A h \in Nodes : \A i \in 1 .. Len(Flushed(n)[h]) : Flushed(n)[h][i] \in FramesFor(h)
      BY FlushedMeans, Zenon
    <3>2. Frame(n).kind # "data" => Frame(n).to \in Nodes
      BY <1>4
    <3>3. Put(Frame(n), Flushed(n), S)
      BY <1>5
    <3> QED
      BY <1>2, <1>4, <3>1, <3>2, <3>3, PutMeans, Zenon
  <2>2. /\ Written(tx[n]) \in BusTx /\ Written(tx[n]).msg = tx[n].msg /\ Written(tx[n]).pk = tx[n].pk
        /\ \/ Written(tx[n]).pc = "count" /\ ~Written(tx[n]).sended
           \/ Written(tx[n]).pc = "clear"
    BY <1>1, <1>3, WrittenMeans
  <2>3. tx'[n] = Written(tx[n]) /\ OnlyAt(n, tx, tx') /\ TxTypes'
    BY <1>3, <1>5, <2>2, FunSet DEF OnlyAt, TxTypes
  <2>4. GhostTypes'
    BY <1>1, <2>1 DEF BusTypes, GhostTypes
  <2>5. BusTypes'
    BY <1>1, <2>1, <2>3, <2>4, BusTypesKept DEF BusTypes
  <2> QED
    BY <1>1, <1>2, <2>1, <2>2, <2>3, <2>5
<1>6. CASE /\ rx' = Flushed(n) /\ Upset(S \union {"short"})
           /\ tx' = [tx EXCEPT ![n].pc = "count", ![n].tries = tx[n].tries + 1]
  <2> DEFINE c == [tx[n] EXCEPT !.pc = "count", !.tries = tx[n].tries + 1]
  <2>1. c \in BusTx
    BY <1>1, <1>3, WrittenMeans
  <2>2. c.pc = "count" /\ c.msg = tx[n].msg /\ c.pk = tx[n].pk /\ c.sended = tx[n].sended
    BY <1>3 DEF BusTx
  <2>3. tx' = [tx EXCEPT ![n] = c]
    BY <1>6
  <2> HIDE DEF c
  <2>4. tx'[n] = c /\ OnlyAt(n, tx, tx') /\ TxTypes'
    BY <1>3, <2>1, <2>3, FunSet DEF OnlyAt, TxTypes
  <2>5. upset \subseteq upset' /\ S \subseteq upset' /\ upset' \subseteq Upsets /\ "short" \in upset'
    BY <1>2, <1>6 DEF Upset, Upsets
  <2>6. RxTypes'
    BY <1>6, FlushedMeans DEF RxTypes
  <2>7. GhostTypes'
    BY <1>1, <2>5 DEF BusTypes, GhostTypes
  <2>8. BusTypes'
    BY <1>1, <2>4, <2>6, <2>7, BusTypesKept DEF BusTypes
  <2> QED
    BY <1>1, <1>2, <1>3, <1>6, <2>2, <2>4, <2>5, <2>8
<1> QED
  BY <1>1, <1>5, <1>6

\* The wait for the acknowledgement begins.
LEMMA TxClearMeans ==
  ASSUME BusTypes, NEW n \in Nodes, TxClear(n)
  PROVE  /\ BusTypes' /\ UNCHANGED <<rx, call, ev, buf, ping, offered, outcome, heard, upset>>
         /\ OnlyAt(n, tx, tx')
         /\ tx[n].pc = "clear" /\ tx'[n].pc = "ackwait" /\ tx'[n].msg = tx[n].msg
         /\ tx'[n].pk = tx[n].pk
<1>1. tx[n] \in BusTx /\ tx \in [Nodes -> BusTx] /\ ack \in [Nodes -> BusAcks]
  BY DEF BusTypes, TxTypes, AckTypes
<1> DEFINE t == [tx[n] EXCEPT !.pc = "ackwait"]
<1>2. t \in TxFields /\ t.pc = "ackwait" /\ t.msg = tx[n].msg /\ t.pk = tx[n].pk /\ t.tries = tx[n].tries
  BY <1>1 DEF BusTx, TxFields
<1>3. tx' = [tx EXCEPT ![n] = t] /\ tx[n].pc = "clear"
  BY DEF TxClear
<1> HIDE DEF t
<1>4. t \in BusTx
  BY <1>1, <1>2, <1>3 DEF BusTx, Writing, TxFields
<1>5. tx'[n] = t /\ OnlyAt(n, tx, tx') /\ TxTypes'
  BY <1>1, <1>3, <1>4, FunSet DEF OnlyAt, TxTypes
<1>6. AckTypes'
  BY <1>1 DEF TxClear, AckTypes, BusAcks
<1>7. UNCHANGED <<rx, call, ev, buf, ping, offered, outcome, heard, upset>>
  BY DEF TxClear
<1>8. BusTypes'
  BY <1>5, <1>6, <1>7, BusTypesKept DEF BusTypes
<1> QED
  BY <1>2, <1>3, <1>5, <1>7, <1>8

\* It ends: the packet counts as sent, or the task goes on to the next one.
LEMMA TxAckWaitMeans ==
  ASSUME BusTypes, NEW n \in Nodes, TxAckWait(n)
  PROVE  /\ BusTypes' /\ UNCHANGED <<rx, call, ev, buf, ping, offered, outcome, heard>>
         /\ OnlyAt(n, tx, tx') /\ upset \subseteq upset'
         /\ tx[n].pc = "ackwait" /\ tx'[n].msg = tx[n].msg
         /\ \/ tx'[n].pc = "count" /\ ~tx'[n].sended /\ tx'[n].pk = tx[n].pk
            \/ /\ tx[n].pk < tx[n].msg.total /\ tx'[n].pc = "write" /\ tx'[n].pk = tx[n].pk + 1
            \/ tx[n].pk = tx[n].msg.total /\ tx'[n].pc = "give" /\ tx'[n].pk = tx[n].pk
<1>1. tx[n] \in BusTx /\ tx \in [Nodes -> BusTx] /\ ack \in [Nodes -> BusAcks]
  BY DEF BusTypes, TxTypes, AckTypes
<1>2. /\ tx[n].pc = "ackwait"
      /\ tx' = [tx EXCEPT ![n] = IF ack[n].ok THEN [tx[n] EXCEPT !.pc = "count", !.sended = FALSE]
                                 ELSE Advance(tx[n])]
      /\ ack' = [ack EXCEPT ![n].sem = 0]
      /\ UNCHANGED <<rx, call, ev, buf, ping, offered, outcome, heard>>
      /\ UNCHANGED upset \/ Upset({"lateack"})
  BY DEF TxAckWait, AfterNoAck
<1>3. /\ tx[n].msg \in BusMsgs /\ tx[n].pk \in 1 .. tx[n].msg.total /\ tx[n].tries <= TrySteps + 1
      /\ tx[n] \in TxFields
  BY <1>1, <1>2 DEF BusTx, Writing, TxFields
<1> DEFINE t == [tx[n] EXCEPT !.pc = "count", !.sended = FALSE]
           a == Advance(tx[n])
<1>4. /\ t \in TxFields /\ t.pc = "count" /\ t.sended = FALSE /\ t.msg = tx[n].msg
      /\ t.pk = tx[n].pk /\ t.tries = tx[n].tries
  BY <1>3 DEF TxFields
<1> HIDE DEF t
<1>5. t \in BusTx
  BY <1>3, <1>4 DEF BusTx, TxFields
<1>6. /\ a \in BusTx /\ a.msg = tx[n].msg
      /\ \/ tx[n].pk < tx[n].msg.total /\ a.pc = "write" /\ a.pk = tx[n].pk + 1
         \/ tx[n].pk = tx[n].msg.total /\ a.pc = "give" /\ a.pk = tx[n].pk
  BY <1>3, AdvanceMeans DEF BusMsgs
<1> HIDE DEF a
<1>7. tx' = [tx EXCEPT ![n] = t] \/ tx' = [tx EXCEPT ![n] = a]
  BY <1>2 DEF t, a
<1>8. (tx'[n] = t \/ tx'[n] = a) /\ OnlyAt(n, tx, tx') /\ TxTypes'
  BY <1>1, <1>5, <1>6, <1>7, FunSet DEF OnlyAt, TxTypes
<1>9. AckTypes'
  BY <1>1, <1>2 DEF AckTypes, BusAcks
<1>10. upset \subseteq upset' /\ GhostTypes'
  <2>1. upset \subseteq Upsets /\ upset' \in {upset, upset \union {"lateack"}}
    BY <1>2 DEF Upset, BusTypes, GhostTypes
  <2>2. upset \subseteq upset' /\ upset' \subseteq Upsets
    BY <2>1 DEF Upsets
  <2> QED
    BY <1>2, <2>2 DEF BusTypes, GhostTypes
<1>11. BusTypes'
  BY <1>2, <1>8, <1>9, <1>10, BusTypesKept DEF BusTypes
<1> QED
  BY <1>2, <1>4, <1>6, <1>8, <1>10, <1>11

\* The end of the loop over the writes of a packet: again, or the next packet.
LEMMA TxCountMeans ==
  ASSUME BusTypes, NEW n \in Nodes, TxCount(n)
  PROVE  /\ BusTypes' /\ UNCHANGED <<rx, call, ack, ev, buf, ping, offered, outcome, heard, upset>>
         /\ OnlyAt(n, tx, tx')
         /\ tx[n].pc = "count" /\ tx'[n].msg = tx[n].msg
         /\ \/ tx[n].sended /\ tx'[n].pc = "write" /\ tx'[n].pk = tx[n].pk
            \/ /\ tx[n].pk < tx[n].msg.total /\ tx'[n].pc = "write" /\ tx'[n].pk = tx[n].pk + 1
            \/ tx[n].pk = tx[n].msg.total /\ tx'[n].pc = "give" /\ tx'[n].pk = tx[n].pk
<1>1. tx[n] \in BusTx /\ tx \in [Nodes -> BusTx]
  BY DEF BusTypes, TxTypes
<1> DEFINE e == [tx[n] EXCEPT !.error = 1]
           w == [tx[n] EXCEPT !.pc = "write"]
<1>2. /\ tx[n].pc = "count"
      /\ tx' = [tx EXCEPT ![n] = IF tx[n].tries > TrySteps THEN Advance(e)
                                 ELSE IF tx[n].sended THEN w ELSE Advance(tx[n])]
      /\ UNCHANGED <<rx, call, ack, ev, buf, ping, offered, outcome, heard, upset>>
  BY DEF TxCount, TxOnly
<1>3. /\ tx[n].msg \in BusMsgs /\ tx[n].pk \in 1 .. tx[n].msg.total /\ tx[n].tries <= TrySteps + 1
      /\ tx[n] \in TxFields /\ tx[n].tries \in Nat /\ TrySteps \in Nat
  BY <1>1, <1>2, BusAssumption DEF BusTx, Writing, TxFields
<1>4. e \in TxFields /\ e.msg = tx[n].msg /\ e.pk = tx[n].pk /\ e.tries = tx[n].tries
  BY <1>3 DEF TxFields
<1>5. /\ w \in TxFields /\ w.pc = "write" /\ w.msg = tx[n].msg /\ w.pk = tx[n].pk
      /\ w.tries = tx[n].tries /\ w.sended = tx[n].sended
  BY <1>3 DEF TxFields
<1> HIDE DEF e, w
<1>6. /\ Advance(e) \in BusTx /\ Advance(e).msg = tx[n].msg
      /\ \/ tx[n].pk < tx[n].msg.total /\ Advance(e).pc = "write" /\ Advance(e).pk = tx[n].pk + 1
         \/ tx[n].pk = tx[n].msg.total /\ Advance(e).pc = "give" /\ Advance(e).pk = tx[n].pk
  BY <1>3, <1>4, AdvanceMeans DEF BusMsgs
<1>7. /\ Advance(tx[n]) \in BusTx /\ Advance(tx[n]).msg = tx[n].msg
      /\ \/ tx[n].pk < tx[n].msg.total /\ Advance(tx[n]).pc = "write" /\ Advance(tx[n]).pk = tx[n].pk + 1
         \/ tx[n].pk = tx[n].msg.total /\ Advance(tx[n]).pc = "give" /\ Advance(tx[n]).pk = tx[n].pk
  BY <1>3, AdvanceMeans DEF BusMsgs
<1>8. tx[n].tries <= TrySteps /\ tx[n].sended => w \in BusTx
  BY <1>3, <1>5 DEF BusTx, TxFields
<1>9. \/ tx' = [tx EXCEPT ![n] = Advance(e)]
      \/ tx' = [tx EXCEPT ![n] = w] /\ tx[n].tries <= TrySteps /\ tx[n].sended
      \/ tx' = [tx EXCEPT ![n] = Advance(tx[n])]
  <2>1. CASE tx[n].tries > TrySteps
    BY <1>2, <2>1, Zenon
  <2>2. CASE ~(tx[n].tries > TrySteps) /\ tx[n].sended
    <3>1. tx[n].tries <= TrySteps
      BY <1>3, <2>2
    <3> QED
      BY <1>2, <2>2, <3>1, Zenon
  <2>3. CASE ~(tx[n].tries > TrySteps) /\ ~tx[n].sended
    BY <1>2, <2>3, Zenon
  <2> QED
    BY <2>1, <2>2, <2>3, Zenon
<1>10. /\ OnlyAt(n, tx, tx') /\ TxTypes'
       /\ \/ tx'[n] = Advance(e) \/ tx'[n] = Advance(tx[n])
          \/ tx'[n] = w /\ tx[n].sended
  BY <1>1, <1>6, <1>7, <1>8, <1>9, FunSet DEF OnlyAt, TxTypes
<1>11. BusTypes'
  BY <1>2, <1>10, BusTypesKept DEF BusTypes
<1> QED
  BY <1>2, <1>5, <1>6, <1>7, <1>10, <1>11

\* The task is done with a message and wakes Sender.
LEMMA TxGiveMeans ==
  ASSUME BusTypes, NEW n \in Nodes, TxGive(n)
  PROVE  /\ BusTypes' /\ UNCHANGED <<rx, ack, ev, buf, ping, offered, outcome, heard, upset>>
         /\ OnlyAt(n, tx, tx') /\ OnlyAt(n, call, call')
         /\ tx[n].pc = "give" /\ tx'[n].pc = "recv" /\ tx'[n].msg = NoOne
         /\ call'[n].pc = call[n].pc /\ call'[n].msg = call[n].msg /\ call'[n].queue = call[n].queue
         /\ call'[n].sem = IF call[n].sem = "null" THEN "null" ELSE "full"
<1>1. tx[n] \in BusTx /\ tx \in [Nodes -> BusTx] /\ call[n] \in BusCalls /\ call \in [Nodes -> BusCalls]
  BY DEF BusTypes, TxTypes, CallTypes
<1> DEFINE t == [tx[n] EXCEPT !.pc = "recv", !.msg = NoOne, !.pk = 0]
           s == IF call[n].sem = "null" THEN "null" ELSE "full"
           c == [call[n] EXCEPT !.sem = s]
<1>2. /\ tx[n].pc = "give" /\ tx' = [tx EXCEPT ![n] = t] /\ call' = [call EXCEPT ![n] = c]
      /\ UNCHANGED <<rx, ack, ev, buf, ping, offered, outcome, heard, upset>>
  BY DEF TxGive, TxOnly
<1>3. t \in TxFields /\ t.pc = "recv" /\ t.msg = NoOne /\ t.tries = tx[n].tries
  BY <1>1 DEF BusTx, TxFields, MsgOrNot
<1>4. c \in BusCalls /\ c.pc = call[n].pc /\ c.msg = call[n].msg /\ c.queue = call[n].queue /\ c.sem = s
  BY <1>1 DEF BusCalls
<1> HIDE DEF t, c
<1>5. t \in BusTx
  BY <1>1, <1>3 DEF BusTx, TxFields, Writing
<1>6. tx'[n] = t /\ OnlyAt(n, tx, tx') /\ TxTypes'
  BY <1>1, <1>2, <1>5, FunSet DEF OnlyAt, TxTypes
<1>7. call'[n] = c /\ OnlyAt(n, call, call') /\ CallTypes'
  BY <1>1, <1>2, <1>4, FunSet DEF OnlyAt, CallTypes
<1>8. BusTypes'
  BY <1>2, <1>6, <1>7, BusTypesKept DEF BusTypes
<1> QED
  BY <1>2, <1>3, <1>4, <1>6, <1>7, <1>8

Popped(n) == [rx EXCEPT ![n] = Tail(rx[n])]

\* A frame read from the driver leaves the others.
LEMMA PoppedMeans ==
  ASSUME BusTypes, NEW n \in Nodes, rx[n] # <<>>
  PROVE  /\ Popped(n) \in [Nodes -> Seq(BusFrames)] /\ Popped(n)[n] = Tail(rx[n])
         /\ OnlyAt(n, rx, Popped(n)) /\ Head(rx[n]) \in FramesFor(n) /\ rx[n] \in Seq(BusFrames)
         /\ \A h \in Nodes : Len(Popped(n)[h]) <= RxLength
         /\ \A h \in Nodes : \A i \in 1 .. Len(Popped(n)[h]) : Popped(n)[h][i] \in FramesFor(h)
<1>1. rx \in [Nodes -> Seq(BusFrames)] /\ rx[n] \in Seq(BusFrames)
  BY DEF BusTypes, RxTypes
<1>2. /\ Tail(rx[n]) \in Seq(BusFrames) /\ Head(rx[n]) = rx[n][1] /\ Len(rx[n]) \in Nat
      /\ Len(Tail(rx[n])) = Len(rx[n]) - 1 /\ Len(rx[n]) >= 1
      /\ \A i \in 1 .. Len(rx[n]) - 1 : Tail(rx[n])[i] = rx[n][i + 1]
  BY <1>1, TailFacts
<1>3. /\ Popped(n) \in [Nodes -> Seq(BusFrames)] /\ Popped(n)[n] = Tail(rx[n])
      /\ OnlyAt(n, rx, Popped(n))
  BY <1>1, <1>2, FunSet DEF Popped, OnlyAt
<1>4. /\ \A h \in Nodes : Len(rx[h]) <= RxLength
      /\ \A h \in Nodes : \A i \in 1 .. Len(rx[h]) : rx[h][i] \in FramesFor(h)
  BY DEF BusTypes, RxTypes
<1>5. ASSUME NEW h \in Nodes
      PROVE  /\ Len(Popped(n)[h]) <= RxLength
             /\ \A i \in 1 .. Len(Popped(n)[h]) : Popped(n)[h][i] \in FramesFor(h)
  <2>1. CASE h = n
    <3>1. Len(Tail(rx[n])) <= RxLength
      BY <1>2, <1>4, BusAssumption
    <3>2. ASSUME NEW i \in 1 .. Len(Tail(rx[n])) PROVE Tail(rx[n])[i] \in FramesFor(n)
      <4>1. i + 1 \in 1 .. Len(rx[n]) /\ Tail(rx[n])[i] = rx[n][i + 1]
        BY <1>2
      <4> QED
        BY <1>4, <4>1
    <3> QED
      BY <1>3, <2>1, <3>1, <3>2
  <2>2. CASE h # n
    BY <1>3, <1>4, <2>2 DEF OnlyAt
  <2> QED
    BY <2>1, <2>2
<1>6. Head(rx[n]) \in FramesFor(n)
  BY <1>2, <1>4
<1> QED
  BY <1>1, <1>3, <1>5, <1>6

\* The answer to a frame goes to who sent it.
LEMMA ReplyMeans ==
  ASSUME NEW n \in Nodes, NEW f \in FramesFor(n), f.kind \in {"data", "ping"}
  PROVE  /\ Reply(f, n) \in BusFrames /\ Reply(f, n).kind # "data" /\ Reply(f, n).to = f.from
         /\ Reply(f, n).from = n /\ Reply(f, n).msg = f.msg /\ Reply(f, n).to \in Nodes
         /\ Reply(f, n).kind = IF f.kind = "data" THEN "ack" ELSE "pong"
         /\ Hearers(Reply(f, n)) = {f.from}
<1>1. /\ f \in [kind : {"data", "ack", "ping", "pong"}, from : Nodes, to : Receivers,
                msg : Ids, total : Nat, pk : Nat]
      /\ f.from # n
  BY DEF FramesFor, BusFrames
<1> DEFINE k == IF f.kind = "data" THEN "ack" ELSE "pong"
           r == [f EXCEPT !.from = n, !.to = f.from, !.kind = k]
<1>2. Reply(f, n) = r
  BY DEF Reply
<1>3. k \in {"ack", "pong"} /\ f.from \in Receivers /\ f.from \in Nodes
  BY <1>1 DEF Receivers
<1> HIDE DEF k
<1>4. /\ r \in [kind : {"data", "ack", "ping", "pong"}, from : Nodes, to : Receivers,
                msg : Ids, total : Nat, pk : Nat]
      /\ r.kind = k /\ r.from = n /\ r.to = f.from /\ r.msg = f.msg
  BY <1>1, <1>3
<1>5. r \in BusFrames
  BY <1>3, <1>4 DEF BusFrames
<1>6. Hearers(r) = {f.from}
  BY <1>1, <1>3, <1>4, BusAssumption DEF Hearers
<1> QED
  BY <1>2, <1>3, <1>4, <1>5, <1>6 DEF k

\* _event_task takes a frame.
LEMMA EvTakeMeans ==
  ASSUME BusTypes, NEW n \in Nodes, EvTake(n), NEW f, f = Head(rx[n])
  PROVE  /\ BusTypes' /\ UNCHANGED <<call, tx, buf, offered, outcome, heard>>
         /\ OnlyAt(n, ev, ev') /\ OnlyAt(n, ping, ping')
         /\ ev[n].pc = "recv" /\ rx[n] # <<>> /\ f \in FramesFor(n) /\ upset \subseteq upset'
         /\ \/ /\ f.to = n /\ f.kind \in {"data", "ping"} /\ f.from # n /\ f.from \in Nodes
               /\ \A h \in Nodes : \/ rx'[h] = Popped(n)[h]
                                   \/ h = f.from /\ rx'[h] = Append(Popped(n)[h], Reply(f, n))
               /\ "frame" \notin upset' => rx'[f.from] = Append(Popped(n)[f.from], Reply(f, n))
            \/ ~(f.to = n /\ f.kind \in {"data", "ping"}) /\ rx' = Popped(n) /\ upset' = upset
         /\ IF f.kind = "data" THEN ev'[n].pc = "decode" /\ ev'[n].frame = f ELSE ev'[n] = ev[n]
         /\ IF f.kind = "pong"
            THEN /\ ping'[n].ok /\ ping'[n].sem = 1 /\ ping'[n].by = f.msg /\ ping'[n].pc = ping[n].pc
                 /\ ping'[n].round = ping[n].round /\ ping'[n].result = ping[n].result
            ELSE ping'[n] = ping[n]
<1> DEFINE e == IF f.kind = "data" THEN [pc |-> "decode", frame |-> f] ELSE ev[n]
           p == IF f.kind = "pong" THEN [ping[n] EXCEPT !.ok = TRUE, !.sem = 1, !.by = f.msg] ELSE ping[n]
           a == IF f.kind = "ack" THEN [ok |-> TRUE, sem |-> 1] ELSE ack[n]
<1>1. /\ ev[n].pc = "recv" /\ rx[n] # <<>>
      /\ IF f.to = n /\ f.kind \in {"data", "ping"}
         THEN Put(Reply(f, n), Popped(n), {})
         ELSE rx' = Popped(n) /\ UNCHANGED upset
      /\ ack' = [ack EXCEPT ![n] = a] /\ ping' = [ping EXCEPT ![n] = p] /\ ev' = [ev EXCEPT ![n] = e]
      /\ UNCHANGED <<call, tx, buf, offered, outcome, heard>>
  BY DEF EvTake, Popped
<1>2. /\ ev \in [Nodes -> BusEvs] /\ ping \in [Nodes -> BusPings] /\ ack \in [Nodes -> BusAcks]
      /\ ev[n] \in BusEvs /\ ping[n] \in BusPings /\ ack[n] \in BusAcks /\ upset \subseteq Upsets
  BY DEF BusTypes, EvTypes, PingTypes, AckTypes, GhostTypes
<1>3. /\ Popped(n) \in [Nodes -> Seq(BusFrames)] /\ f \in FramesFor(n)
      /\ \A h \in Nodes : Len(Popped(n)[h]) <= RxLength
      /\ \A h \in Nodes : \A i \in 1 .. Len(Popped(n)[h]) : Popped(n)[h][i] \in FramesFor(h)
  BY <1>1, PoppedMeans, Zenon
<1>4. /\ f \in BusFrames /\ f.msg \in Ids /\ f.from \in Nodes /\ f.from # n
      /\ f.kind \in {"data", "ack", "ping", "pong"}
  BY <1>3 DEF FramesFor, BusFrames
<1>5. e \in BusEvs
  BY <1>2, <1>4 DEF BusEvs, DataFrames
<1>6. p \in BusPings /\ (f.kind = "pong" => /\ p.ok = TRUE /\ p.sem = 1 /\ p.by = f.msg /\ p.pc = ping[n].pc
                                            /\ p.round = ping[n].round /\ p.result = ping[n].result)
  <2>1. f.msg \in 0 .. MaxOps
    BY <1>4, BusAssumption DEF Ids
  <2> QED
    BY <1>2, <2>1 DEF BusPings
<1>7. a \in BusAcks
  BY <1>2 DEF BusAcks
<1>8. f.kind = "data" => e.pc = "decode" /\ e.frame = f
  OBVIOUS
<1>9. (f.kind # "data" => e = ev[n]) /\ (f.kind # "pong" => p = ping[n])
  OBVIOUS
<1> HIDE DEF e, p, a
<1>10. ev'[n] = e /\ OnlyAt(n, ev, ev') /\ EvTypes'
  BY <1>1, <1>2, <1>5, FunSet DEF OnlyAt, EvTypes
<1>11. ping'[n] = p /\ OnlyAt(n, ping, ping') /\ PingTypes'
  BY <1>1, <1>2, <1>6, FunSet DEF OnlyAt, PingTypes
<1>12. AckTypes'
  BY <1>1, <1>2, <1>7, FunSet DEF AckTypes
<1>13. /\ RxTypes' /\ upset \subseteq upset' /\ upset' \subseteq Upsets
       /\ \/ /\ f.to = n /\ f.kind \in {"data", "ping"} /\ f.from # n /\ f.from \in Nodes
             /\ \A h \in Nodes : \/ rx'[h] = Popped(n)[h]
                                 \/ h = f.from /\ rx'[h] = Append(Popped(n)[h], Reply(f, n))
             /\ "frame" \notin upset' => rx'[f.from] = Append(Popped(n)[f.from], Reply(f, n))
          \/ ~(f.to = n /\ f.kind \in {"data", "ping"}) /\ rx' = Popped(n) /\ upset' = upset
  <2>1. CASE f.to = n /\ f.kind \in {"data", "ping"}
    <3> DEFINE S == {}
               r == Reply(f, n)
               old == Popped(n)
    <3>1. Put(r, old, S)
      BY <1>1, <2>1
    <3>2. /\ r \in BusFrames /\ (r.kind # "data" => r.to \in Nodes) /\ Hearers(r) = {f.from}
      BY <1>3, <2>1, ReplyMeans, Zenon
    <3>3. S \subseteq Upsets
      OBVIOUS
    <3>4. /\ old \in [Nodes -> Seq(BusFrames)]
          /\ \A h \in Nodes : Len(old[h]) <= RxLength
          /\ \A h \in Nodes : \A i \in 1 .. Len(old[h]) : old[h][i] \in FramesFor(h)
      BY <1>3
    <3> HIDE DEF S, r, old
    <3>5. /\ RxTypes'
          /\ \A h \in Nodes : rx'[h] = old[h] \/ (h \in Hearers(r) /\ rx'[h] = Append(old[h], r))
          /\ upset \subseteq upset' /\ upset' \subseteq Upsets
          /\ "frame" \notin upset' => \A h \in Hearers(r) : rx'[h] = Append(old[h], r)
      BY <1>2, <3>1, <3>2, <3>3, <3>4, PutMeans, Zenon
    <3> QED
      BY <1>4, <2>1, <3>2, <3>5 DEF r, old
  <2>2. CASE ~(f.to = n /\ f.kind \in {"data", "ping"})
    <3>1. rx' = Popped(n) /\ upset' = upset
      BY <1>1, <2>2
    <3>2. RxTypes'
      BY <1>3, <3>1 DEF RxTypes
    <3> QED
      BY <1>2, <2>2, <3>1, <3>2
  <2> QED
    BY <2>1, <2>2
<1>14. GhostTypes'
  BY <1>1, <1>13 DEF BusTypes, GhostTypes
<1>15. BusTypes'
  BY <1>1, <1>10, <1>11, <1>12, <1>13, <1>14, BusTypesKept DEF BusTypes
<1>16. IF f.kind = "data" THEN ev'[n].pc = "decode" /\ ev'[n].frame = f ELSE ev'[n] = ev[n]
  BY <1>8, <1>9, <1>10
<1>17. IF f.kind = "pong"
       THEN /\ ping'[n].ok /\ ping'[n].sem = 1 /\ ping'[n].by = f.msg /\ ping'[n].pc = ping[n].pc
            /\ ping'[n].round = ping[n].round /\ ping'[n].result = ping[n].result
       ELSE ping'[n] = ping[n]
  BY <1>6, <1>9, <1>11
<1> QED
  BY <1>1, <1>3, <1>10, <1>11, <1>13, <1>15, <1>16, <1>17, Zenon

\* A packet goes into the buffer, and the last one hands it over.
LEMMA EvDecodeMeans ==
  ASSUME BusTypes, NEW n \in Nodes, EvDecode(n), NEW f, f = ev[n].frame
  PROVE  /\ BusTypes' /\ UNCHANGED <<rx, call, tx, ack, ping, offered, outcome, heard, upset>>
         /\ OnlyAt(n, ev, ev') /\ OnlyAt(n, buf, buf')
         /\ ev[n].pc = "decode" /\ f \in DataFrames
         /\ buf'[n].data = Placed(buf[n].data, f) /\ buf'[n].waitsem = buf[n].waitsem
         /\ IF Placed(buf[n].data, f) # <<>> /\ f.pk = f.total
            THEN /\ buf'[n].cbsem = 1 /\ buf'[n].by = f.msg
                 /\ ev'[n].pc = "cbwait" /\ ev'[n].frame = f
            ELSE buf'[n].cbsem = buf[n].cbsem /\ buf'[n].by = buf[n].by /\ ev'[n].pc = "recv"
<1>1. /\ ev \in [Nodes -> BusEvs] /\ ev[n] \in BusEvs /\ buf \in [Nodes -> BusBufs] /\ buf[n] \in BusBufs
  BY DEF BusTypes, EvTypes, BufTypes
<1> DEFINE data == Placed(buf[n].data, f)
           done == data # <<>> /\ f.pk = f.total
           b == [buf[n] EXCEPT !.data = data, !.cbsem = IF done THEN 1 ELSE buf[n].cbsem,
                               !.by = IF done THEN f.msg ELSE buf[n].by]
           e == IF done THEN [ev[n] EXCEPT !.pc = "cbwait"] ELSE [pc |-> "recv", frame |-> NoBus]
<1>2. /\ ev[n].pc = "decode"
      /\ UNCHANGED <<rx, call, tx, ack, ping, offered, outcome, heard, upset>>
      /\ buf' = [buf EXCEPT ![n] = b] /\ ev' = [ev EXCEPT ![n] = e]
  BY DEF EvDecode
<1>3. f \in DataFrames
  BY <1>1, <1>2 DEF BusEvs
<1>4. f.msg \in 0 .. MaxOps /\ f.total \in Nat /\ f.pk \in Nat /\ 0 \in 0 .. MaxOps
  BY <1>3, BusAssumption DEF DataFrames, BusFrames, Ids
<1>5. data \in Seq(0 .. MaxOps)
  <2> DEFINE z == [i \in 1 .. f.total |-> 0]
             d == IF f.pk = 1 THEN z ELSE buf[n].data
  <2>1. z \in Seq(0 .. MaxOps)
    <3>1. z \in [1 .. f.total -> 0 .. MaxOps]
      BY <1>4
    <3>2. Seq(0 .. MaxOps) = UNION {[1 .. k -> 0 .. MaxOps] : k \in Nat}
      BY SeqDef
    <3>3. z \in UNION {[1 .. k -> 0 .. MaxOps] : k \in Nat}
      BY <1>4, <3>1, Zenon
    <3> QED
      BY <3>2, <3>3, Zenon
  <2>2. d \in Seq(0 .. MaxOps)
    BY <1>1, <2>1 DEF BusBufs
  <2>3. data = IF f.pk \in DOMAIN d THEN [d EXCEPT ![f.pk] = f.msg] ELSE d
    BY DEF Placed
  <2> HIDE DEF d, data
  <2>4. ASSUME f.pk \in DOMAIN d PROVE [d EXCEPT ![f.pk] = f.msg] \in Seq(0 .. MaxOps)
    <3>1. DOMAIN d = 1 .. Len(d)
      BY <2>2
    <3> QED
      BY <1>4, <2>2, <2>4, <3>1, ExceptSeq
  <2> QED
    BY <2>2, <2>3, <2>4
<1> HIDE DEF data
<1>6. /\ b \in BusBufs /\ b.data = data /\ b.waitsem = buf[n].waitsem
      /\ done => b.cbsem = 1 /\ b.by = f.msg
      /\ ~done => b.cbsem = buf[n].cbsem /\ b.by = buf[n].by
  <2> DEFINE cs == IF done THEN 1 ELSE buf[n].cbsem
             by == IF done THEN f.msg ELSE buf[n].by
  <2>1. cs \in {0, 1} /\ by \in 0 .. MaxOps
    BY <1>1, <1>4 DEF BusBufs
  <2>2. (done => cs = 1 /\ by = f.msg) /\ (~done => cs = buf[n].cbsem /\ by = buf[n].by)
    OBVIOUS
  <2> HIDE DEF done, cs, by
  <2>3. b = [buf[n] EXCEPT !.data = data, !.cbsem = cs, !.by = by]
    BY DEF cs, by
  <2> HIDE DEF b
  <2>4. b \in BusBufs /\ b.data = data /\ b.waitsem = buf[n].waitsem /\ b.cbsem = cs /\ b.by = by
    BY <1>1, <1>5, <2>1, <2>3 DEF BusBufs
  <2> QED
    BY <2>2, <2>4
<1>7. /\ e \in BusEvs /\ (done => e.pc = "cbwait" /\ e.frame = f) /\ (~done => e.pc = "recv")
  <2>1. [ev[n] EXCEPT !.pc = "cbwait"] \in BusEvs /\ [ev[n] EXCEPT !.pc = "cbwait"].frame = f
        /\ [ev[n] EXCEPT !.pc = "cbwait"].pc = "cbwait"
    BY <1>1, <1>3 DEF BusEvs
  <2>2. [pc |-> "recv", frame |-> NoBus] \in BusEvs /\ [pc |-> "recv", frame |-> NoBus].pc = "recv"
    BY DEF BusEvs
  <2> HIDE DEF done
  <2>3. CASE done
    BY <2>1, <2>3, Zenon
  <2>4. CASE ~done
    BY <2>2, <2>4, Zenon
  <2> QED
    BY <2>3, <2>4
<1> HIDE DEF done, b, e
<1>8. buf'[n] = b /\ OnlyAt(n, buf, buf') /\ BufTypes'
  BY <1>1, <1>2, <1>6, FunSet DEF OnlyAt, BufTypes
<1>9. ev'[n] = e /\ OnlyAt(n, ev, ev') /\ EvTypes'
  BY <1>1, <1>2, <1>7, FunSet DEF OnlyAt, EvTypes
<1>10. BusTypes'
  BY <1>2, <1>8, <1>9, BusTypesKept DEF BusTypes
<1>11. IF done THEN /\ buf'[n].cbsem = 1 /\ buf'[n].by = f.msg
                    /\ ev'[n].pc = "cbwait" /\ ev'[n].frame = f
       ELSE buf'[n].cbsem = buf[n].cbsem /\ buf'[n].by = buf[n].by /\ ev'[n].pc = "recv"
  BY <1>6, <1>7, <1>8, <1>9
<1>12. buf'[n].data = data /\ buf'[n].waitsem = buf[n].waitsem
  BY <1>6, <1>8
<1> QED
  BY <1>2, <1>3, <1>8, <1>9, <1>10, <1>11, <1>12 DEF done, data

\* The event task has waited for the callback.
LEMMA EvCallbackMeans ==
  ASSUME BusTypes, NEW n \in Nodes, EvCallback(n)
  PROVE  /\ BusTypes' /\ UNCHANGED <<rx, call, tx, ack, ping, offered, outcome, heard>>
         /\ OnlyAt(n, ev, ev') /\ OnlyAt(n, buf, buf') /\ upset \subseteq upset'
         /\ ev[n].pc = "cbwait" /\ ev'[n].pc = "recv"
         /\ buf[n].waitsem = 1 \/ "callback" \in upset'
         /\ buf'[n].waitsem = 0 /\ buf'[n].cbsem = buf[n].cbsem
         /\ buf'[n].by = buf[n].by /\ buf'[n].data = buf[n].data
<1>1. /\ ev \in [Nodes -> BusEvs] /\ ev[n] \in BusEvs /\ buf \in [Nodes -> BusBufs] /\ buf[n] \in BusBufs
  BY DEF BusTypes, EvTypes, BufTypes
<1> DEFINE b == [buf[n] EXCEPT !.waitsem = 0]
           e == [pc |-> "recv", frame |-> NoBus]
<1>2. /\ ev[n].pc = "cbwait"
      /\ UNCHANGED <<rx, call, tx, ack, ping, offered, outcome, heard>>
      /\ buf' = [buf EXCEPT ![n] = b] /\ ev' = [ev EXCEPT ![n] = e]
  BY DEF EvCallback
<1>3. /\ b \in BusBufs /\ b.data = buf[n].data /\ b.waitsem = 0 /\ b.cbsem = buf[n].cbsem
      /\ b.by = buf[n].by /\ e \in BusEvs /\ e.pc = "recv"
  BY <1>1 DEF BusBufs, BusEvs
<1> HIDE DEF b, e
<1>4. buf'[n] = b /\ OnlyAt(n, buf, buf') /\ BufTypes'
  BY <1>1, <1>2, <1>3, FunSet DEF OnlyAt, BufTypes
<1>5. ev'[n] = e /\ OnlyAt(n, ev, ev') /\ EvTypes'
  BY <1>1, <1>2, <1>3, FunSet DEF OnlyAt, EvTypes
<1>6. upset \subseteq upset' /\ upset' \subseteq Upsets /\ (buf[n].waitsem = 1 \/ "callback" \in upset')
  BY DEF EvCallback, Upset, BusTypes, GhostTypes, Upsets
<1>7. GhostTypes'
  BY <1>2, <1>6 DEF BusTypes, GhostTypes
<1>8. BusTypes'
  BY <1>2, <1>4, <1>5, <1>7, BusTypesKept DEF BusTypes
<1> QED
  BY <1>2, <1>3, <1>4, <1>5, <1>6, <1>8

\* The callback task hands the buffer over.
LEMMA CbRunMeans ==
  ASSUME BusTypes, NEW n \in Nodes, CbRun(n)
  PROVE  /\ BusTypes' /\ UNCHANGED <<rx, call, tx, ack, ev, ping, offered, outcome, upset>>
         /\ OnlyAt(n, buf, buf') /\ OnlyAt(n, heard, heard')
         /\ buf[n].cbsem = 1 /\ buf'[n].cbsem = 0 /\ buf'[n].waitsem = 1
         /\ buf'[n].by = buf[n].by /\ buf'[n].data = buf[n].data
         /\ \E r \in BusHeard : /\ r.data = buf[n].data /\ r.by = buf[n].by
                                /\ heard'[n] = Append(heard[n], r)
         /\ heard[n] \in Seq(BusHeard)
<1>1. /\ heard \in [Nodes -> Seq(BusHeard)] /\ heard[n] \in Seq(BusHeard)
      /\ buf \in [Nodes -> BusBufs] /\ buf[n] \in BusBufs
  BY DEF BusTypes, GhostTypes, BufTypes
<1> DEFINE b == [buf[n] EXCEPT !.cbsem = 0, !.waitsem = 1]
           r == [data |-> buf[n].data, by |-> buf[n].by]
           a == Append(heard[n], r)
<1>2. /\ buf[n].cbsem = 1
      /\ UNCHANGED <<rx, call, tx, ack, ev, ping, offered, outcome, upset>>
      /\ buf' = [buf EXCEPT ![n] = b] /\ heard' = [heard EXCEPT ![n] = a]
  BY DEF CbRun
<1>3. /\ b \in BusBufs /\ b.data = buf[n].data /\ b.waitsem = 1 /\ b.cbsem = 0
      /\ b.by = buf[n].by /\ r \in BusHeard /\ r.data = buf[n].data /\ r.by = buf[n].by
  BY <1>1 DEF BusBufs, BusHeard
<1> HIDE DEF b, r
<1>4. a \in Seq(BusHeard)
  BY <1>1, <1>3
<1>5. buf'[n] = b /\ OnlyAt(n, buf, buf') /\ BufTypes'
  BY <1>1, <1>2, <1>3, FunSet DEF OnlyAt, BufTypes
<1>6. heard'[n] = a /\ OnlyAt(n, heard, heard') /\ heard' \in [Nodes -> Seq(BusHeard)]
  <2> HIDE DEF a
  <2> QED
    BY <1>1, <1>2, <1>4, FunSet DEF OnlyAt
<1>7. GhostTypes'
  BY <1>2, <1>6 DEF BusTypes, GhostTypes
<1>8. BusTypes'
  BY <1>2, <1>5, <1>7, BusTypesKept DEF BusTypes
<1> QED
  BY <1>1, <1>2, <1>3, <1>5, <1>6, <1>8

PingOf(n, d, m) == [NoBus EXCEPT !.kind = "ping", !.from = n, !.to = d, !.msg = m]

\* A ping is a frame to one device.
LEMMA PingOfMeans ==
  ASSUME NEW n \in Nodes, NEW d \in Nodes \ {n}, NEW m \in Ids
  PROVE  /\ PingOf(n, d, m) \in BusFrames /\ PingOf(n, d, m).kind = "ping"
         /\ PingOf(n, d, m).from = n /\ PingOf(n, d, m).to = d /\ PingOf(n, d, m).msg = m
         /\ Hearers(PingOf(n, d, m)) = {d}
<1> DEFINE p == PingOf(n, d, m)
<1>1. /\ p.kind = "ping" /\ p.from = n /\ p.to = d /\ p.msg = m
      /\ p \in [kind : {"data", "ack", "ping", "pong"}, from : Nodes, to : Receivers,
                msg : Ids, total : Nat, pk : Nat]
  BY DEF PingOf, NoBus, Receivers
<1> HIDE DEF p
<1>2. p \in BusFrames
  BY <1>1 DEF BusFrames
<1>3. Hearers(p) = {d}
  BY <1>1, BusAssumption DEF Hearers
<1> QED
  BY <1>1, <1>2, <1>3 DEF p

\* A ping is written, or cut short.
LEMMA PingWriteMeans ==
  ASSUME BusTypes, NEW n \in Nodes, PingWrite(n)
  PROVE  /\ BusTypes' /\ UNCHANGED <<call, tx, ack, ev, buf, outcome, heard>>
         /\ OnlyAt(n, ping, ping') /\ upset \subseteq upset'
         /\ n \in Pingers /\ ping[n].pc = "idle"
         /\ offered' = offered + 1 /\ offered + 1 \in Ids
         /\ ping'[n].round = offered + 1 /\ ping'[n].sem = ping[n].sem /\ ping'[n].by = ping[n].by
         /\ \/ /\ ping'[n].pc = "clear"
               /\ \E d \in Nodes \ {n} :
                     /\ \A h \in Nodes : \/ rx'[h] = rx[h]
                                         \/ h = d /\ rx'[h] = Append(rx[h], PingOf(n, d, offered + 1))
                     /\ "frame" \notin upset' => rx'[d] = Append(rx[d], PingOf(n, d, offered + 1))
            \/ /\ "short" \in upset' /\ ping'[n].pc = "idle" /\ ~ping'[n].result /\ rx' = rx
<1>1. /\ ping \in [Nodes -> BusPings] /\ ping[n] \in BusPings /\ upset \subseteq Upsets
      /\ offered \in Nat /\ MaxOps \in Nat /\ rx \in [Nodes -> Seq(BusFrames)]
      /\ \A h \in Nodes : Len(rx[h]) <= RxLength
      /\ \A h \in Nodes : \A i \in 1 .. Len(rx[h]) : rx[h][i] \in FramesFor(h)
  BY BusAssumption DEF BusTypes, PingTypes, GhostTypes, RxTypes
<1> DEFINE m == offered + 1
<1>2. PICK d \in Nodes \ {n} :
          \/ /\ ping' = [ping EXCEPT ![n].pc = "clear", ![n].dev = d, ![n].round = m]
             /\ Put(PingOf(n, d, m), rx, {})
          \/ /\ Upset({"short"})
             /\ ping' = [ping EXCEPT ![n].dev = d, ![n].round = m, ![n].result = FALSE]
             /\ UNCHANGED rx
  BY DEF PingWrite, PingOf
<1>3. /\ n \in Pingers /\ ping[n].pc = "idle" /\ offered < MaxOps /\ offered' = m
      /\ UNCHANGED <<call, tx, ack, ev, buf, outcome, heard>>
  BY DEF PingWrite
<1>4. m \in Ids /\ m \in 0 .. MaxOps
  BY <1>1, <1>3 DEF Ids
<1> HIDE DEF m
<1>5. CASE /\ ping' = [ping EXCEPT ![n].pc = "clear", ![n].dev = d, ![n].round = m]
           /\ Put(PingOf(n, d, m), rx, {})
  <2> DEFINE p == [ping[n] EXCEPT !.pc = "clear", !.dev = d, !.round = m]
  <2>1. /\ p \in BusPings /\ p.pc = "clear" /\ p.round = m /\ p.sem = ping[n].sem /\ p.by = ping[n].by
    BY <1>1, <1>4 DEF BusPings
  <2>2. ping' = [ping EXCEPT ![n] = p]
    BY <1>5
  <2> HIDE DEF p
  <2>3. ping'[n] = p /\ OnlyAt(n, ping, ping') /\ PingTypes'
    BY <1>1, <2>1, <2>2, FunSet DEF OnlyAt, PingTypes
  <2> DEFINE S == {}
             f == PingOf(n, d, m)
  <2>4. f \in BusFrames /\ (f.kind # "data" => f.to \in Nodes) /\ Hearers(f) = {d}
    BY <1>4, PingOfMeans
  <2>5. S \subseteq Upsets /\ Put(f, rx, S)
    BY <1>5
  <2> HIDE DEF S, f
  <2>6. /\ RxTypes'
        /\ \A h \in Nodes : rx'[h] = rx[h] \/ (h \in Hearers(f) /\ rx'[h] = Append(rx[h], f))
        /\ upset \subseteq upset' /\ upset' \subseteq Upsets
        /\ "frame" \notin upset' => \A h \in Hearers(f) : rx'[h] = Append(rx[h], f)
    BY <1>1, <2>4, <2>5, PutMeans, Zenon
  <2>7. /\ \A h \in Nodes : rx'[h] = rx[h] \/ (h = d /\ rx'[h] = Append(rx[h], f))
        /\ "frame" \notin upset' => rx'[d] = Append(rx[d], f)
    BY <2>4, <2>6
  <2>8. GhostTypes'
    BY <1>3, <1>4, <2>6 DEF BusTypes, GhostTypes
  <2>9. BusTypes'
    BY <1>3, <2>3, <2>6, <2>8, BusTypesKept DEF BusTypes
  <2> QED
    BY <1>3, <1>4, <2>1, <2>3, <2>6, <2>7, <2>9 DEF f, m
<1>6. CASE /\ Upset({"short"}) /\ UNCHANGED rx
           /\ ping' = [ping EXCEPT ![n].dev = d, ![n].round = m, ![n].result = FALSE]
  <2> DEFINE p == [ping[n] EXCEPT !.dev = d, !.round = m, !.result = FALSE]
  <2>1. /\ p \in BusPings /\ p.pc = ping[n].pc /\ p.round = m /\ p.sem = ping[n].sem
        /\ p.by = ping[n].by /\ p.result = FALSE
    BY <1>1, <1>4 DEF BusPings
  <2>2. ping' = [ping EXCEPT ![n] = p]
    BY <1>6
  <2> HIDE DEF p
  <2>3. ping'[n] = p /\ OnlyAt(n, ping, ping') /\ PingTypes'
    BY <1>1, <2>1, <2>2, FunSet DEF OnlyAt, PingTypes
  <2>4. upset \subseteq upset' /\ upset' \subseteq Upsets /\ "short" \in upset'
    BY <1>1, <1>6 DEF Upset, Upsets
  <2>5. GhostTypes'
    BY <1>3, <1>4, <2>4 DEF BusTypes, GhostTypes
  <2>6. BusTypes'
    BY <1>3, <1>6, <2>3, <2>5, BusTypesKept DEF BusTypes
  <2> QED
    BY <1>3, <1>4, <1>6, <2>1, <2>3, <2>4, <2>6 DEF m
<1> QED
  BY <1>2, <1>5, <1>6

\* ping_ok is cleared, after the ping was written.
LEMMA PingClearMeans ==
  ASSUME BusTypes, NEW n \in Nodes, PingClear(n)
  PROVE  /\ BusTypes' /\ UNCHANGED <<rx, call, tx, ack, ev, buf, offered, outcome, heard>>
         /\ OnlyAt(n, ping, ping') /\ upset \subseteq upset'
         /\ ping[n].pc = "clear" /\ ping'[n].pc = "wait" /\ ~ping'[n].ok
         /\ ping[n].ok /\ ping[n].by = ping[n].round => "early" \in upset'
         /\ ping'[n].round = ping[n].round /\ ping'[n].sem = ping[n].sem /\ ping'[n].by = ping[n].by
         /\ ping'[n].result = ping[n].result
<1>1. /\ ping \in [Nodes -> BusPings] /\ ping[n] \in BusPings /\ upset \subseteq Upsets
  BY DEF BusTypes, PingTypes, GhostTypes
<1> DEFINE p == [ping[n] EXCEPT !.pc = "wait", !.ok = FALSE]
<1>2. /\ p \in BusPings /\ p.pc = "wait" /\ p.ok = FALSE /\ p.round = ping[n].round
      /\ p.sem = ping[n].sem /\ p.by = ping[n].by /\ p.result = ping[n].result
  BY <1>1 DEF BusPings
<1>3. /\ ping[n].pc = "clear" /\ ping' = [ping EXCEPT ![n] = p]
      /\ UNCHANGED <<rx, call, tx, ack, ev, buf, offered, outcome, heard>>
      /\ upset' = upset \union (IF ping[n].ok /\ ping[n].by = ping[n].round THEN {"early"} ELSE {})
  BY DEF PingClear, Cleared, Upset
<1> HIDE DEF p
<1>4. ping'[n] = p /\ OnlyAt(n, ping, ping') /\ PingTypes'
  BY <1>1, <1>2, <1>3, FunSet DEF OnlyAt, PingTypes
<1>5. /\ upset \subseteq upset' /\ upset' \subseteq Upsets
      /\ ping[n].ok /\ ping[n].by = ping[n].round => "early" \in upset'
  BY <1>1, <1>3 DEF Upsets
<1>6. GhostTypes'
  BY <1>3, <1>5 DEF BusTypes, GhostTypes
<1>7. BusTypes'
  BY <1>3, <1>4, <1>6, BusTypesKept DEF BusTypes
<1> QED
  BY <1>2, <1>3, <1>4, <1>5, <1>7

\* The wait for the pong ends.
LEMMA PingWaitMeans ==
  ASSUME BusTypes, NEW n \in Nodes, PingWait(n)
  PROVE  /\ BusTypes' /\ UNCHANGED <<rx, call, tx, ack, ev, buf, offered, outcome, heard>>
         /\ OnlyAt(n, ping, ping') /\ upset \subseteq upset'
         /\ ping[n].pc = "wait" /\ ping'[n].pc = "idle" /\ ping'[n].sem = 0
         /\ ping'[n].result = ping[n].ok
         /\ ping'[n].round = ping[n].round /\ ping'[n].by = ping[n].by
         /\ ping[n].sem = 1 \/ ~Awaited(n, {"ping", "pong"}) \/ "latepong" \in upset'
<1>1. /\ ping \in [Nodes -> BusPings] /\ ping[n] \in BusPings /\ upset \subseteq Upsets
  BY DEF BusTypes, PingTypes, GhostTypes
<1> DEFINE p == [ping[n] EXCEPT !.pc = "idle", !.sem = 0, !.result = ping[n].ok]
<1>2. /\ p \in BusPings /\ p.pc = "idle" /\ p.round = ping[n].round
      /\ p.sem = 0 /\ p.by = ping[n].by /\ p.result = ping[n].ok
  BY <1>1 DEF BusPings
<1>3. /\ ping[n].pc = "wait" /\ ping' = [ping EXCEPT ![n] = p]
      /\ UNCHANGED <<rx, call, tx, ack, ev, buf, offered, outcome, heard>>
      /\ \/ ping[n].sem = 1 /\ UNCHANGED upset
         \/ IF Awaited(n, {"ping", "pong"}) THEN Upset({"latepong"}) ELSE UNCHANGED upset
  BY DEF PingWait
<1> HIDE DEF p
<1>4. ping'[n] = p /\ OnlyAt(n, ping, ping') /\ PingTypes'
  BY <1>1, <1>2, <1>3, FunSet DEF OnlyAt, PingTypes
<1>5. /\ upset \subseteq upset' /\ upset' \subseteq Upsets
      /\ ping[n].sem = 1 \/ ~Awaited(n, {"ping", "pong"}) \/ "latepong" \in upset'
  <2>1. \/ upset' = upset /\ (ping[n].sem = 1 \/ ~Awaited(n, {"ping", "pong"}))
        \/ upset' = upset \union {"latepong"}
    BY <1>3, Zenon DEF Upset
  <2> QED
    BY <1>1, <2>1 DEF Upsets
<1>6. GhostTypes'
  BY <1>3, <1>5 DEF BusTypes, GhostTypes
<1>7. BusTypes'
  BY <1>3, <1>4, <1>6, BusTypesKept DEF BusTypes
<1> QED
  BY <1>2, <1>3, <1>4, <1>5, <1>7

\* The types hold at the start.
LEMMA BusTypesInit == BusInit => BusTypes
<1> SUFFICES ASSUME BusInit PROVE BusTypes
  OBVIOUS
<1> USE DEF BusInit
<1>0. MaxOps \in Nat /\ RxLength \in Nat \ {0} /\ TrySteps \in Nat /\ <<>> \in Seq(BusFrames)
  BY BusAssumption
<1>1. RxTypes
  BY <1>0 DEF RxTypes
<1>2. CallTypes
  BY DEF CallTypes, BusCalls, MsgOrNot
<1>3. TxTypes
  <2> DEFINE t == [pc |-> "recv", msg |-> NoOne, pk |-> 0, tries |-> 0, sended |-> TRUE, error |-> 0]
  <2>1. t \in BusTx
    BY <1>0 DEF BusTx, MsgOrNot, Writing
  <2>2. tx = [n \in Nodes |-> t]
    OBVIOUS
  <2> HIDE DEF t
  <2> QED
    BY <2>1, <2>2 DEF TxTypes
<1>4. AckTypes /\ EvTypes
  BY DEF AckTypes, EvTypes, BusAcks, BusEvs
<1>5. BufTypes
  <2>1. <<>> \in Seq(0 .. MaxOps) /\ 0 \in 0 .. MaxOps
    BY <1>0
  <2> QED
    BY <2>1 DEF BufTypes, BusBufs
<1>6. PingTypes
  <2>1. 0 \in 0 .. MaxOps
    BY <1>0
  <2> QED
    BY <2>1 DEF PingTypes, BusPings
<1>7. GhostTypes
  <2>1. 0 \in 0 .. MaxOps /\ <<>> \in Seq(BusHeard)
    BY <1>0
  <2> QED
    BY <2>1 DEF GhostTypes
<1> QED
  BY <1>1, <1>2, <1>3, <1>4, <1>5, <1>6, <1>7 DEF BusTypes

\* Every step keeps them.
LEMMA BusTypesStep == BusTypes /\ BusNext => BusTypes'
<1> SUFFICES ASSUME BusTypes, BusNext PROVE BusTypes'
  OBVIOUS
<1>1. PICK n \in Nodes :
         \/ BusSender(n) \/ BusSenderEnd(n)
         \/ TxReceive(n) \/ TxWrite(n) \/ TxClear(n) \/ TxAckWait(n)
         \/ TxCount(n) \/ TxGive(n)
         \/ EvTake(n) \/ EvDecode(n) \/ EvCallback(n) \/ CbRun(n)
         \/ PingWrite(n) \/ PingClear(n) \/ PingWait(n)
  BY Zenon DEF BusNext
<1>2. CASE BusSender(n) \/ BusSenderEnd(n) \/ TxReceive(n) \/ TxWrite(n) \/ TxClear(n)
  BY <1>2, BusSenderMeans, BusSenderEndMeans, TxReceiveMeans, TxWriteMeans, TxClearMeans, Zenon
<1>3. CASE TxAckWait(n) \/ TxCount(n) \/ TxGive(n) \/ EvTake(n) \/ EvDecode(n)
  BY <1>3, TxAckWaitMeans, TxCountMeans, TxGiveMeans, EvTakeMeans, EvDecodeMeans, Zenon
<1>4. CASE EvCallback(n) \/ CbRun(n) \/ PingWrite(n) \/ PingClear(n) \/ PingWait(n)
  BY <1>4, EvCallbackMeans, CbRunMeans, PingWriteMeans, PingClearMeans, PingWaitMeans, Zenon
<1> QED
  BY <1>1, <1>2, <1>3, <1>4, Zenon

\* They are those of BusTypeOK, and more.
LEMMA BusTypesMeans == BusTypes => BusTypeOK
<1> SUFFICES ASSUME BusTypes PROVE BusTypeOK
  OBVIOUS
<1>1. ASSUME NEW n \in Nodes
      PROVE  /\ Len(rx[n]) <= RxLength
             /\ call[n].pc \in {"idle", "wait"} /\ call[n].sem \in {"null", "empty", "full"}
             /\ tx[n].pc \in {"recv", "write", "clear", "ackwait", "count", "give"}
             /\ tx[n].tries <= TrySteps + 1 /\ tx[n].error \in {0, 1}
             /\ ack[n] \in [ok : BOOLEAN, sem : {0, 1}]
             /\ ev[n].pc \in {"recv", "decode", "cbwait"}
             /\ buf[n].cbsem \in {0, 1} /\ buf[n].waitsem \in {0, 1}
             /\ ping[n].pc \in {"idle", "clear", "wait"}
  <2>1. Len(rx[n]) <= RxLength
    BY DEF BusTypes, RxTypes
  <2>2. call[n].pc \in {"idle", "wait"} /\ call[n].sem \in {"null", "empty", "full"}
    BY DEF BusTypes, CallTypes, BusCalls
  <2>3. /\ tx[n].pc \in {"recv", "write", "clear", "ackwait", "count", "give"}
        /\ tx[n].tries <= TrySteps + 1 /\ tx[n].error \in {0, 1}
    BY DEF BusTypes, TxTypes, BusTx
  <2>4. ack[n] \in [ok : BOOLEAN, sem : {0, 1}] /\ ev[n].pc \in {"recv", "decode", "cbwait"}
    BY DEF BusTypes, AckTypes, BusAcks, EvTypes, BusEvs
  <2>5. buf[n].cbsem \in {0, 1} /\ buf[n].waitsem \in {0, 1} /\ ping[n].pc \in {"idle", "clear", "wait"}
    BY DEF BusTypes, BufTypes, BusBufs, PingTypes, BusPings
  <2> QED
    BY <2>1, <2>2, <2>3, <2>4, <2>5
<1>2. outcome \in [Ids -> {"none", "pending", "ok", "error"}]
  BY DEF BusTypes, GhostTypes
<1> QED
  BY <1>1, <1>2, Zenon DEF BusTypeOK

-----------------------------------------------------------------------------
(* The bus: the ids of the messages.                                        *)

\* A new message at the end of a queue.
LEMMA IdsAppend ==
  ASSUME NEW q \in Seq(BusMsgs), NEW m \in BusMsgs
  PROVE  /\ IdsIn(Append(q, m)) = IdsIn(q) \union {m.id}
         /\ EachOnce(q) /\ m.id \notin IdsIn(q) => EachOnce(Append(q, m))
<1> DEFINE a == Append(q, m)
<1>1. /\ Len(a) = Len(q) + 1 /\ a[Len(q) + 1] = m /\ Len(q) \in Nat
      /\ \A i \in 1 .. Len(q) : a[i] = q[i]
  BY AppendFacts
<1> HIDE DEF a
<1>2. \A i \in 1 .. Len(a) : i \in 1 .. Len(q) \/ i = Len(q) + 1
  BY <1>1
<1>3. (\A i \in 1 .. Len(q) : i \in 1 .. Len(a)) /\ Len(q) + 1 \in 1 .. Len(a)
  BY <1>1
<1>4. IdsIn(a) = IdsIn(q) \union {m.id}
  BY <1>1, <1>2, <1>3 DEF IdsIn
<1>5. EachOnce(q) /\ m.id \notin IdsIn(q) => EachOnce(a)
  <2> SUFFICES ASSUME EachOnce(q), m.id \notin IdsIn(q), NEW i \in 1 .. Len(a), NEW j \in 1 .. Len(a),
                      a[i].id = a[j].id
               PROVE  i = j
    BY Zenon DEF EachOnce
  <2>1. \A k \in 1 .. Len(q) : q[k].id # m.id
    BY DEF IdsIn
  <2>2. CASE i \in 1 .. Len(q) /\ j \in 1 .. Len(q)
    BY <1>1, <2>2, Zenon DEF EachOnce
  <2>3. CASE i = Len(q) + 1 /\ j \in 1 .. Len(q)
    BY <1>1, <2>1, <2>3
  <2>4. CASE i \in 1 .. Len(q) /\ j = Len(q) + 1
    BY <1>1, <2>1, <2>4
  <2> QED
    BY <1>2, <2>2, <2>3, <2>4
<1> QED
  BY <1>4, <1>5 DEF a

\* The first message taken from a queue.
LEMMA IdsTail ==
  ASSUME NEW q \in Seq(BusMsgs), q # <<>>
  PROVE  /\ IdsIn(q) = IdsIn(Tail(q)) \union {Head(q).id}
         /\ EachOnce(q) => EachOnce(Tail(q)) /\ Head(q).id \notin IdsIn(Tail(q))
<1> DEFINE t == Tail(q)
<1>1. /\ Head(q) = q[1] /\ Len(q) \in Nat /\ Len(t) = Len(q) - 1 /\ Len(q) >= 1
      /\ \A i \in 1 .. Len(q) - 1 : t[i] = q[i + 1]
  BY TailFacts
<1> HIDE DEF t
<1>2. \A i \in 1 .. Len(t) : i + 1 \in 1 .. Len(q) /\ i + 1 # 1 /\ t[i] = q[i + 1]
  BY <1>1
<1>3. \A i \in 1 .. Len(q) : i = 1 \/ (i - 1 \in 1 .. Len(t) /\ t[i - 1] = q[i])
  BY <1>1
<1>4. 1 \in 1 .. Len(q)
  BY <1>1
<1>5. IdsIn(q) = IdsIn(t) \union {Head(q).id}
  <2>1. ASSUME NEW x \in IdsIn(q) PROVE x \in IdsIn(t) \union {Head(q).id}
    BY <1>1, <1>3, <2>1 DEF IdsIn
  <2>2. ASSUME NEW x \in IdsIn(t) PROVE x \in IdsIn(q)
    BY <1>2, <2>2 DEF IdsIn
  <2>3. Head(q).id \in IdsIn(q)
    BY <1>1, <1>4 DEF IdsIn
  <2> QED
    BY <2>1, <2>2, <2>3
<1>6. ASSUME EachOnce(q) PROVE EachOnce(t)
  <2> SUFFICES ASSUME NEW i \in 1 .. Len(t), NEW j \in 1 .. Len(t), t[i].id = t[j].id PROVE i = j
    BY Zenon DEF EachOnce
  <2>1. i + 1 \in 1 .. Len(q) /\ j + 1 \in 1 .. Len(q) /\ q[i + 1].id = q[j + 1].id
    BY <1>2
  <2>2. i + 1 = j + 1
    BY <1>6, <2>1, Zenon DEF EachOnce
  <2> QED
    BY <1>1, <2>2
<1>7. ASSUME EachOnce(q) PROVE Head(q).id \notin IdsIn(t)
  <2> SUFFICES ASSUME NEW i \in 1 .. Len(t), t[i].id = Head(q).id PROVE FALSE
    BY DEF IdsIn
  <2>1. i + 1 \in 1 .. Len(q) /\ i + 1 # 1 /\ q[i + 1].id = q[1].id
    BY <1>1, <1>2
  <2>2. i + 1 = 1
    BY <1>4, <1>7, <2>1, Zenon DEF EachOnce
  <2> QED
    BY <2>1, <2>2
<1> QED
  BY <1>5, <1>6, <1>7 DEF t

\* No id comes twice as long as no device gets a new one.
LEMMA IdsKept ==
  ASSUME IdsApart, \A k \in Nodes : IdsOf(k)' \subseteq IdsOf(k), offered' = offered,
         \A k \in Nodes : (EachOnce(call[k].queue) /\ tx[k].msg.id \notin QueueIds(k))'
  PROVE  IdsApart'
BY DEF IdsApart

\* The step of one device on its messages.
LEMMA IdsKeptAt ==
  ASSUME BusTypes, IdsApart, NEW n \in Nodes, OnlyAt(n, call, call'), OnlyAt(n, tx, tx'), offered' = offered,
         IdsWith(call'[n], tx'[n]) \subseteq IdsWith(call[n], tx[n]),
         EachOnce(call'[n].queue) /\ tx'[n].msg.id \notin IdsIn(call'[n].queue)
  PROVE  IdsApart'
<1>1. \A k \in Nodes : IdsOf(k)' \subseteq IdsOf(k)
  BY Zenon DEF IdsOf, OnlyAt
<1>2. \A k \in Nodes : (EachOnce(call[k].queue) /\ tx[k].msg.id \notin QueueIds(k))'
  <2> TAKE k \in Nodes
  <2>1. EachOnce(call[k].queue) /\ tx[k].msg.id \notin IdsIn(call[k].queue)
    BY Zenon DEF IdsApart, QueueIds
  <2>2. EachOnce(call'[k].queue) /\ tx'[k].msg.id \notin IdsIn(call'[k].queue)
    BY <2>1, Zenon DEF OnlyAt
  <2> QED
    BY <2>2, Zenon DEF QueueIds
<1> QED
  BY <1>1, <1>2, IdsKept, Zenon

\* What the sender and the tasks of a device do with its messages.
MsgsStay(n) ==
    /\ OnlyAt(n, call, call') /\ OnlyAt(n, tx, tx')
    /\ call'[n].queue = call[n].queue /\ call'[n].msg = call[n].msg
    /\ tx'[n].msg \in {tx[n].msg, NoOne}

\* As long as they only pass them on, the messages stay apart.
LEMMA BusIdsStay ==
  ASSUME BusTypes, IdsApart, NEW n \in Nodes, MsgsStay(n), offered' = offered
  PROVE  IdsApart'
<1>1. EachOnce(call[n].queue) /\ tx[n].msg.id \notin IdsIn(call[n].queue)
  BY Zenon DEF IdsApart, QueueIds
<1>2. call[n].queue \in Seq(BusMsgs)
  BY DEF BusTypes, CallTypes, BusCalls
<1>3. 0 \notin IdsIn(call[n].queue)
  <2>1. \A i \in 1 .. Len(call[n].queue) : call[n].queue[i] \in BusMsgs
    BY <1>2
  <2>2. \A x \in BusMsgs : x.id # 0
    BY BusAssumption DEF BusMsgs, Ids
  <2> QED
    BY <2>1, <2>2 DEF IdsIn
<1>4. tx'[n].msg.id = tx[n].msg.id \/ tx'[n].msg.id = 0
  BY DEF MsgsStay, NoOne
<1>5. IdsWith(call'[n], tx'[n]) \subseteq IdsWith(call[n], tx[n])
  BY <1>4 DEF MsgsStay, IdsWith
<1>6. EachOnce(call'[n].queue) /\ tx'[n].msg.id \notin IdsIn(call'[n].queue)
  BY <1>1, <1>3, <1>4 DEF MsgsStay
<1> QED
  BY <1>5, <1>6, IdsKeptAt, Zenon DEF MsgsStay

\* The sender task takes the first message.
LEMMA IdsReceive ==
  ASSUME BusTypes, IdsApart, NEW n \in Nodes, TxReceive(n)
  PROVE  IdsApart'
<1>1. /\ OnlyAt(n, call, call') /\ OnlyAt(n, tx, tx') /\ offered' = offered
      /\ call[n].queue # <<>> /\ tx'[n].msg = Head(call[n].queue)
      /\ call'[n].queue = Tail(call[n].queue) /\ call'[n].msg = call[n].msg
  BY TxReceiveMeans
<1>2. call[n].queue \in Seq(BusMsgs)
  BY DEF BusTypes, CallTypes, BusCalls
<1>3. EachOnce(call[n].queue)
  BY Zenon DEF IdsApart
<1>4. /\ IdsIn(call[n].queue) = IdsIn(Tail(call[n].queue)) \union {Head(call[n].queue).id}
      /\ EachOnce(Tail(call[n].queue)) /\ Head(call[n].queue).id \notin IdsIn(Tail(call[n].queue))
  BY <1>1, <1>2, <1>3, IdsTail
<1>5. IdsWith(call'[n], tx'[n]) \subseteq IdsWith(call[n], tx[n])
  BY <1>1, <1>4 DEF IdsWith
<1> QED
  BY <1>1, <1>4, <1>5, IdsKeptAt, Zenon

\* Sender numbers a new message.
LEMMA IdsSender ==
  ASSUME BusTypes, IdsApart, NEW n \in Nodes, BusSender(n)
  PROVE  IdsApart'
<1> DEFINE m == call'[n].msg
<1>1. /\ OnlyAt(n, call, call') /\ OnlyAt(n, tx, tx') /\ offered' = offered + 1
      /\ call'[n].msg \in BusMsgs /\ call'[n].msg.id = offered + 1
      /\ call'[n].queue = Append(call[n].queue, call'[n].msg) /\ tx'[n].msg = tx[n].msg
  BY BusSenderMeans
<1>2. call[n].queue \in Seq(BusMsgs) /\ offered \in Nat
  BY BusAssumption DEF BusTypes, CallTypes, BusCalls, GhostTypes
<1>3. /\ EachOnce(call[n].queue) /\ tx[n].msg.id \notin IdsIn(call[n].queue)
      /\ \A k \in Nodes : \A i \in IdsOf(k) : i <= offered
      /\ \A i, k \in Nodes : i # k => IdsOf(i) \intersect IdsOf(k) = {}
  BY Zenon DEF IdsApart, QueueIds
<1>4. IdsOf(n) = (IdsIn(call[n].queue) \union {tx[n].msg.id, call[n].msg.id}) \ {0}
  BY Zenon DEF IdsOf, IdsWith
<1>5. offered + 1 # 0 /\ \A k \in Nodes : offered + 1 \notin IdsOf(k)
  <2>1. offered + 1 # 0 /\ ~(offered + 1 <= offered)
    BY <1>2
  <2> QED
    BY <1>3, <2>1, Zenon
<1>6. offered + 1 \notin IdsIn(call[n].queue) /\ tx[n].msg.id # offered + 1
  BY <1>4, <1>5
<1>7. /\ IdsIn(call'[n].queue) = IdsIn(call[n].queue) \union {offered + 1}
      /\ EachOnce(call'[n].queue)
  BY <1>1, <1>2, <1>3, <1>6, IdsAppend
<1>8. IdsWith(call'[n], tx'[n]) \subseteq IdsOf(n) \union {offered + 1}
  BY <1>1, <1>4, <1>7 DEF IdsWith
<1>9. \A k \in Nodes : IdsOf(k)' \subseteq IdsOf(k) \union (IF k = n THEN {offered + 1} ELSE {})
  <2> TAKE k \in Nodes
  <2>1. CASE k = n
    BY <1>8, <2>1 DEF IdsOf
  <2>2. CASE k # n
    BY <1>1, <2>2 DEF IdsOf, OnlyAt
  <2> QED
    BY <2>1, <2>2
<1>10. ASSUME NEW k \in Nodes, NEW i \in IdsOf(k)' PROVE i <= offered'
  <2>1. i \in IdsOf(k) \/ i = offered + 1
    BY <1>9, <1>10
  <2>2. i \in IdsOf(k) => i <= offered /\ i \in Nat
    <3>1. IdsOf(k) \subseteq Nat
      <4>1. call[k] \in BusCalls /\ tx[k] \in BusTx
        BY DEF BusTypes, CallTypes, TxTypes
      <4>2. call[k].queue \in Seq(BusMsgs) /\ call[k].msg \in MsgOrNot /\ tx[k].msg \in MsgOrNot
        BY <4>1 DEF BusCalls, BusTx
      <4>3. \A x \in MsgOrNot : x.id \in Nat
        BY BusAssumption DEF MsgOrNot, BusMsgs, NoOne, Ids
      <4>4. IdsIn(call[k].queue) \subseteq Nat
        BY <4>2, <4>3 DEF IdsIn, MsgOrNot
      <4> QED
        BY <4>2, <4>3, <4>4 DEF IdsOf, IdsWith
    <3> QED
      BY <1>3, <3>1
  <2> QED
    BY <1>1, <1>2, <2>1, <2>2
<1>11. ASSUME NEW i \in Nodes, NEW k \in Nodes, i # k PROVE (IdsOf(i) \intersect IdsOf(k) = {})'
  BY <1>3, <1>5, <1>9, <1>11
<1>12. ASSUME NEW k \in Nodes PROVE (EachOnce(call[k].queue) /\ tx[k].msg.id \notin QueueIds(k))'
  <2>1. CASE k = n
    BY <1>1, <1>3, <1>6, <1>7, <2>1 DEF QueueIds
  <2>2. CASE k # n
    <3>1. EachOnce(call[k].queue) /\ tx[k].msg.id \notin IdsIn(call[k].queue)
      BY Zenon DEF IdsApart, QueueIds
    <3> QED
      BY <1>1, <2>2, <3>1 DEF QueueIds, OnlyAt
  <2> QED
    BY <2>1, <2>2
<1> QED
  BY <1>10, <1>11, <1>12, Zenon DEF IdsApart

\* A step of the bus, as the messages see it.
BusMove(n) ==
    \/ BusSender(n)
    \/ TxReceive(n)
    \/ MsgsStay(n) /\ offered' >= offered
       /\ (Unwritten(tx'[n]) => Unwritten(tx[n]) /\ tx'[n].msg = tx[n].msg)

\* Where neither the calls nor the sender tasks move.
LEMMA StillMoves ==
  ASSUME BusTypes, NEW n \in Nodes, call' = call, tx' = tx, offered' >= offered
  PROVE  BusMove(n)
BY DEF BusMove, MsgsStay, OnlyAt

\* Steps of the sender task that only move on within a message.
LEMMA TxMoves ==
  ASSUME BusTypes, NEW n \in Nodes, call' = call, offered' = offered, OnlyAt(n, tx, tx'),
         tx'[n].msg = tx[n].msg, Unwritten(tx'[n]) => Unwritten(tx[n])
  PROVE  BusMove(n)
<1>1. offered \in Nat
  BY BusAssumption DEF BusTypes, GhostTypes
<1> QED
  BY <1>1 DEF BusMove, MsgsStay, OnlyAt

\* Each step of the bus is such a move.
LEMMA BusMoves ==
  ASSUME BusTypes, BusNext
  PROVE  \E n \in Nodes : BusMove(n)
<1>1. PICK n \in Nodes :
         \/ BusSender(n) \/ BusSenderEnd(n)
         \/ TxReceive(n) \/ TxWrite(n) \/ TxClear(n) \/ TxAckWait(n)
         \/ TxCount(n) \/ TxGive(n)
         \/ EvTake(n) \/ EvDecode(n) \/ EvCallback(n) \/ CbRun(n)
         \/ PingWrite(n) \/ PingClear(n) \/ PingWait(n)
  BY Zenon DEF BusNext
<1>2. offered \in Nat /\ offered >= offered /\ offered + 1 >= offered
  BY BusAssumption DEF BusTypes, GhostTypes
<1>3. /\ tx[n] \in BusTx /\ tx[n].pk \in Nat
      /\ Writing(tx[n]) => tx[n].pk <= tx[n].msg.total /\ tx[n].msg.total \in Nat
  <2>1. tx[n] \in BusTx
    BY DEF BusTypes, TxTypes
  <2>2. Writing(tx[n]) => tx[n].msg \in BusMsgs /\ tx[n].pk \in 1 .. tx[n].msg.total
    BY <2>1 DEF BusTx, Writing
  <2>3. tx[n].pk \in Nat
    BY <2>1 DEF BusTx
  <2> QED
    BY <2>1, <2>2, <2>3 DEF BusMsgs
<1>4. CASE BusSender(n) \/ TxReceive(n)
  BY <1>4, Zenon DEF BusMove
<1>5. CASE BusSenderEnd(n)
  BY <1>2, <1>5, BusSenderEndMeans DEF BusMove, MsgsStay, OnlyAt
<1>6. CASE TxWrite(n)
  <2>1. /\ call' = call /\ offered' = offered /\ OnlyAt(n, tx, tx') /\ tx'[n].msg = tx[n].msg
        /\ tx[n].pc = "write"
    BY <1>6, TxWriteMeans
  <2>2. Unwritten(tx[n])
    BY <2>1 DEF Unwritten, Writing
  <2> QED
    BY <2>1, <2>2, TxMoves
<1>7. CASE TxClear(n)
  <2>1. /\ call' = call /\ offered' = offered /\ OnlyAt(n, tx, tx') /\ tx'[n].msg = tx[n].msg
        /\ tx[n].pc = "clear" /\ tx'[n].pc = "ackwait" /\ tx'[n].pk = tx[n].pk
    BY <1>7, TxClearMeans
  <2>2. Unwritten(tx'[n]) => Unwritten(tx[n])
    BY <2>1 DEF Unwritten, Writing
  <2> QED
    BY <2>1, <2>2, TxMoves
<1>8. CASE TxAckWait(n)
  <2>1. /\ call' = call /\ offered' = offered /\ OnlyAt(n, tx, tx') /\ tx'[n].msg = tx[n].msg
        /\ tx[n].pc = "ackwait"
        /\ \/ tx'[n].pc = "count" /\ ~tx'[n].sended /\ tx'[n].pk = tx[n].pk
           \/ /\ tx[n].pk < tx[n].msg.total /\ tx'[n].pc = "write" /\ tx'[n].pk = tx[n].pk + 1
           \/ tx[n].pk = tx[n].msg.total /\ tx'[n].pc = "give" /\ tx'[n].pk = tx[n].pk
    BY <1>8, TxAckWaitMeans
  <2>2. Unwritten(tx'[n]) => Unwritten(tx[n])
    BY <2>1 DEF Unwritten, Writing
  <2> QED
    BY <2>1, <2>2, TxMoves
<1>9. CASE TxCount(n)
  <2>1. /\ call' = call /\ offered' = offered /\ OnlyAt(n, tx, tx') /\ tx'[n].msg = tx[n].msg
        /\ tx[n].pc = "count"
        /\ \/ tx[n].sended /\ tx'[n].pc = "write" /\ tx'[n].pk = tx[n].pk
           \/ /\ tx[n].pk < tx[n].msg.total /\ tx'[n].pc = "write" /\ tx'[n].pk = tx[n].pk + 1
           \/ tx[n].pk = tx[n].msg.total /\ tx'[n].pc = "give" /\ tx'[n].pk = tx[n].pk
    BY <1>9, TxCountMeans
  <2>2. Unwritten(tx'[n]) => Unwritten(tx[n])
    BY <2>1 DEF Unwritten, Writing
  <2> QED
    BY <2>1, <2>2, TxMoves
<1>10. CASE TxGive(n)
  <2>1. /\ OnlyAt(n, tx, tx') /\ OnlyAt(n, call, call') /\ offered' = offered
        /\ tx'[n].pc = "recv" /\ tx'[n].msg = NoOne
        /\ call'[n].msg = call[n].msg /\ call'[n].queue = call[n].queue
    BY <1>10, TxGiveMeans
  <2>2. ~Unwritten(tx'[n])
    BY <2>1 DEF Unwritten, Writing
  <2> QED
    BY <1>2, <2>1, <2>2 DEF BusMove, MsgsStay
<1>11. CASE EvTake(n)
  BY <1>2, <1>11, EvTakeMeans, StillMoves
<1>12. CASE EvDecode(n) \/ EvCallback(n) \/ CbRun(n)
  <2>1. call' = call /\ tx' = tx /\ offered' = offered
    BY <1>12 DEF EvDecode, EvCallback, CbRun
  <2> QED
    BY <1>2, <2>1, StillMoves
<1>13. CASE PingWrite(n) \/ PingClear(n) \/ PingWait(n)
  <2>1. call' = call /\ tx' = tx /\ offered' \in {offered, offered + 1}
    BY <1>13 DEF PingWrite, PingClear, PingWait
  <2> QED
    BY <1>2, <2>1, StillMoves
<1> QED
  BY <1>1, <1>4, <1>5, <1>6, <1>7, <1>8, <1>9, <1>10, <1>11, <1>12, <1>13, Zenon

\* More pings leave the ids apart.
LEMMA IdsMore ==
  ASSUME BusTypes, IdsApart, NEW n \in Nodes, MsgsStay(n), offered' >= offered, offered' \in Nat
  PROVE  IdsApart'
<1>1. EachOnce(call[n].queue) /\ tx[n].msg.id \notin IdsIn(call[n].queue)
  BY Zenon DEF IdsApart, QueueIds
<1>2. /\ \A k \in Nodes : IdsOf(k)' \subseteq IdsOf(k)
      /\ \A k \in Nodes : (EachOnce(call[k].queue) /\ tx[k].msg.id \notin QueueIds(k))'
  <2>1. tx'[n].msg.id = tx[n].msg.id \/ tx'[n].msg.id = 0
    BY DEF MsgsStay, NoOne
  <2>2. 0 \notin IdsIn(call[n].queue)
    <3>1. call[n].queue \in Seq(BusMsgs)
      BY DEF BusTypes, CallTypes, BusCalls
    <3>2. \A i \in 1 .. Len(call[n].queue) : call[n].queue[i] \in BusMsgs
      BY <3>1
    <3>3. \A x \in BusMsgs : x.id # 0
      BY BusAssumption DEF BusMsgs, Ids
    <3> QED
      BY <3>2, <3>3 DEF IdsIn
  <2>3. IdsOf(n)' \subseteq IdsOf(n)
    BY <2>1 DEF MsgsStay, IdsWith, IdsOf
  <2>4. (EachOnce(call[n].queue) /\ tx[n].msg.id \notin QueueIds(n))'
    BY <1>1, <2>1, <2>2 DEF MsgsStay, QueueIds
  <2>5. ASSUME NEW k \in Nodes, k # n
        PROVE  IdsOf(k)' \subseteq IdsOf(k) /\ (EachOnce(call[k].queue) /\ tx[k].msg.id \notin QueueIds(k))'
    <3>1. EachOnce(call[k].queue) /\ tx[k].msg.id \notin IdsIn(call[k].queue)
      BY Zenon DEF IdsApart, QueueIds
    <3>2. call'[k] = call[k] /\ tx'[k] = tx[k]
      BY <2>5 DEF MsgsStay, OnlyAt
    <3> QED
      BY <3>1, <3>2 DEF IdsOf, QueueIds
  <2> QED
    BY <2>3, <2>4, <2>5
<1>3. \A k \in Nodes : IdsOf(k) \subseteq Nat
  <2> TAKE k \in Nodes
  <2>1. call[k] \in BusCalls /\ tx[k] \in BusTx
    BY DEF BusTypes, CallTypes, TxTypes
  <2>2. call[k].queue \in Seq(BusMsgs) /\ call[k].msg \in MsgOrNot /\ tx[k].msg \in MsgOrNot
    BY <2>1 DEF BusCalls, BusTx
  <2>3. \A x \in MsgOrNot : x.id \in Nat
    BY BusAssumption DEF MsgOrNot, BusMsgs, NoOne, Ids
  <2>4. IdsIn(call[k].queue) \subseteq Nat
    BY <2>2, <2>3 DEF IdsIn, MsgOrNot
  <2> QED
    BY <2>2, <2>3, <2>4 DEF IdsOf, IdsWith
<1>4. offered \in Nat
  BY BusAssumption DEF BusTypes, GhostTypes
<1>5. \A k \in Nodes : \A i \in IdsOf(k)' : i <= offered'
  <2> TAKE k \in Nodes
  <2> TAKE i \in IdsOf(k)'
  <2>1. i \in IdsOf(k) /\ i \in Nat
    BY <1>2, <1>3
  <2>2. i <= offered
    BY <2>1, Zenon DEF IdsApart
  <2> QED
    BY <1>4, <2>1, <2>2
<1>6. \A i, k \in Nodes : i # k => (IdsOf(i) \intersect IdsOf(k) = {})'
  BY <1>2 DEF IdsApart
<1> QED
  BY <1>2, <1>5, <1>6, Zenon DEF IdsApart

\* Every step keeps the ids apart.
LEMMA IdsApartStep == BusTypes /\ IdsApart /\ BusNext => IdsApart'
<1> SUFFICES ASSUME BusTypes, IdsApart, BusNext PROVE IdsApart'
  OBVIOUS
<1>1. PICK n \in Nodes : BusMove(n)
  BY BusMoves
<1>2. BusTypes' /\ offered' \in Nat
  <2>1. BusTypes'
    BY BusTypesStep
  <2> QED
    BY <2>1, BusAssumption DEF BusTypes, GhostTypes
<1> QED
  BY <1>1, <1>2, IdsSender, IdsReceive, IdsMore, Zenon DEF BusMove

-----------------------------------------------------------------------------
(* The bus: the last packet of a message is in one place.                   *)

\* No step makes a message unsent again.
LEMMA UnsentShrinks ==
  ASSUME BusTypes, NEW n \in Nodes, BusMove(n), offered' \in Nat,
         NEW m \in Ids, Unsent(m)'
  PROVE  Unsent(m)
<1> DEFINE Waits(c, t) == m \in IdsIn(c.queue) \/ (t.msg.id = m /\ Unwritten(t))
<1>1. Unsent(m) <=> m > offered \/ \E k \in Nodes : Waits(call[k], tx[k])
  BY Zenon DEF Unsent, QueueIds
<1>2. Unsent(m)' <=> m > offered' \/ \E k \in Nodes : Waits(call'[k], tx'[k])
  BY Zenon DEF Unsent, QueueIds
<1>3. call[n].queue \in Seq(BusMsgs) /\ offered \in Nat /\ m \in Nat /\ m # 0
  BY BusAssumption DEF BusTypes, CallTypes, BusCalls, GhostTypes, Ids
<1>4. CASE BusSender(n)
  <2>1. /\ OnlyAt(n, call, call') /\ OnlyAt(n, tx, tx') /\ offered' = offered + 1
        /\ call'[n].msg \in BusMsgs /\ call'[n].msg.id = offered + 1
        /\ call'[n].queue = Append(call[n].queue, call'[n].msg)
        /\ tx'[n].pc = tx[n].pc /\ tx'[n].msg = tx[n].msg /\ tx'[n].pk = tx[n].pk
        /\ tx'[n].sended = tx[n].sended
    BY <1>4, BusSenderMeans
  <2>2. IdsIn(call'[n].queue) = IdsIn(call[n].queue) \union {offered + 1}
    BY <1>3, <2>1, IdsAppend
  <2>3. Waits(call'[n], tx'[n]) => Waits(call[n], tx[n]) \/ m = offered + 1
    BY <2>1, <2>2 DEF Unwritten, Writing
  <2>4. m > offered' \/ m = offered + 1 => m > offered
    BY <1>3, <2>1
  <2>5. \A k \in Nodes : k # n => call'[k] = call[k] /\ tx'[k] = tx[k]
    BY <2>1, Zenon DEF OnlyAt
  <2> HIDE DEF Waits
  <2> QED
    BY <1>1, <1>2, <2>3, <2>4, <2>5, Zenon
<1>5. CASE TxReceive(n)
  <2>1. /\ OnlyAt(n, call, call') /\ OnlyAt(n, tx, tx') /\ offered' = offered
        /\ call[n].queue # <<>> /\ tx'[n].msg = Head(call[n].queue)
        /\ call'[n].queue = Tail(call[n].queue)
    BY <1>5, TxReceiveMeans
  <2>2. IdsIn(call[n].queue) = IdsIn(Tail(call[n].queue)) \union {Head(call[n].queue).id}
    BY <1>3, <2>1, IdsTail
  <2>3. Waits(call'[n], tx'[n]) => Waits(call[n], tx[n])
    BY <2>1, <2>2
  <2>5. \A k \in Nodes : k # n => call'[k] = call[k] /\ tx'[k] = tx[k]
    BY <2>1, Zenon DEF OnlyAt
  <2> HIDE DEF Waits
  <2> QED
    BY <1>1, <1>2, <2>1, <2>3, <2>5, Zenon
<1>6. CASE /\ MsgsStay(n) /\ offered' >= offered
           /\ (Unwritten(tx'[n]) => Unwritten(tx[n]) /\ tx'[n].msg = tx[n].msg)
  <2>0. offered' \in Nat
    OBVIOUS
  <2>1. Waits(call'[n], tx'[n]) => Waits(call[n], tx[n])
    BY <1>6, Zenon DEF MsgsStay
  <2>4. m > offered' => m > offered
    BY <1>3, <1>6, <2>0
  <2>5. \A k \in Nodes : k # n => call'[k] = call[k] /\ tx'[k] = tx[k]
    BY <1>6, Zenon DEF OnlyAt, MsgsStay
  <2> HIDE DEF Waits
  <2> QED
    BY <1>1, <1>2, <2>1, <2>4, <2>5, Zenon
<1> QED
  BY <1>4, <1>5, <1>6, Zenon DEF BusMove

\* A device in which the last packet of m has not come to a new place.
LEMMA OnceStay ==
  ASSUME NEW h \in Nodes, NEW m \in Ids, OnceAt(h, m), Unsent(m)' => Unsent(m),
         AtMostOne(rx'[h], Finals(m)),
         Has(rx'[h], Finals(m)) => Has(rx[h], Finals(m)),
         InEv(h, m)' => InEv(h, m), InBuf(h, m)' => InBuf(h, m), InHeard(h, m)' => InHeard(h, m)
  PROVE  OnceAt(h, m)'
<1>1. (Has(rx[h], Finals(m)))' <=> Has(rx'[h], Finals(m))
  BY DEF Has
<1>2. (AtMostOne(rx[h], Finals(m)))' <=> AtMostOne(rx'[h], Finals(m))
  BY DEF AtMostOne
<1> QED
  BY <1>1, <1>2, Zenon DEF OnceAt

\* The frames of a device, and what the step of another one may add.
LEMMA RxSeq ==
  ASSUME BusTypes, NEW h \in Nodes
  PROVE  rx[h] \in Seq(BusFrames) /\ (rx[h] # <<>> => Head(rx[h]) \in BusFrames /\ Tail(rx[h]) \in Seq(BusFrames))
<1>1. rx[h] \in Seq(BusFrames)
  BY DEF BusTypes, RxTypes
<1> QED
  BY <1>1

\* Reading the first frame keeps one of T at most.
LEMMA PoppedHas ==
  ASSUME BusTypes, NEW n \in Nodes, rx[n] # <<>>, NEW h \in Nodes, NEW T
  PROVE  /\ Popped(n)[h] \in Seq(BusFrames)
         /\ Has(Popped(n)[h], T) => Has(rx[h], T)
         /\ AtMostOne(rx[h], T) => AtMostOne(Popped(n)[h], T)
         /\ AtMostOne(rx[h], T) /\ h = n /\ Head(rx[n]) \in T => ~Has(Popped(n)[h], T)
<1>1. Popped(n)[n] = Tail(rx[n]) /\ OnlyAt(n, rx, Popped(n)) /\ Popped(n)[h] \in Seq(BusFrames)
  BY PoppedMeans
<1>2. CASE h = n
  <2>1. rx[h] \in Seq(BusFrames) /\ rx[h] # <<>>
    BY <1>2, RxSeq
  <2>2. Has(rx[h], T) <=> Has(Tail(rx[h]), T) \/ Head(rx[h]) \in T
    BY <2>1, HasTail, Zenon
  <2>3. AtMostOne(rx[h], T) => AtMostOne(Tail(rx[h]), T) /\ (Head(rx[h]) \in T => ~Has(Tail(rx[h]), T))
    BY <2>1, AtMostOneTail, Zenon
  <2> QED
    BY <1>1, <1>2, <2>2, <2>3, Zenon
<1>3. CASE h # n
  <2>1. Popped(n)[h] = rx[h]
    BY <1>1, <1>3, Zenon DEF OnlyAt
  <2> QED
    BY <1>1, <1>3, <2>1, Zenon
<1> QED
  BY <1>2, <1>3, Zenon

\* Throwing away what was received keeps one of T at most.
LEMMA FlushedHas ==
  ASSUME BusTypes, NEW n \in Nodes, NEW h \in Nodes, NEW T
  PROVE  /\ Flushed(n)[h] \in Seq(BusFrames)
         /\ Has(Flushed(n)[h], T) => Has(rx[h], T)
         /\ AtMostOne(rx[h], T) => AtMostOne(Flushed(n)[h], T)
<1>1. Flushed(n)[n] = <<>> /\ OnlyAt(n, rx, Flushed(n)) /\ Flushed(n)[h] \in Seq(BusFrames)
  BY FlushedMeans
<1>2. CASE h = n
  BY <1>1, <1>2, EmptyQueue, Zenon
<1>3. CASE h # n
  BY <1>1, <1>3, Zenon DEF OnlyAt
<1> QED
  BY <1>2, <1>3, Zenon

\* A frame that is not of T, behind others.
LEMMA OtherAppended ==
  ASSUME NEW q \in Seq(BusFrames), NEW f \in BusFrames, NEW T, f \notin T
  PROVE  /\ Has(Append(q, f), T) <=> Has(q, T)
         /\ AtMostOne(q, T) => AtMostOne(Append(q, f), T)
<1>1. Has(Append(q, f), T) <=> Has(q, T) \/ f \in T
  BY HasAppend, Zenon
<1>2. AtMostOne(q, T) => AtMostOne(Append(q, f), T)
  BY AtMostOneAppend, Zenon
<1> QED
  BY <1>1, <1>2, Zenon

\* The rest of what BusOnce says, where no callback runs and none is started.
LEMMA OnceRest ==
  ASSUME BusTypes, BusOnce, heard' = heard, \A h \in Nodes : \A m \in Ids : OnceAt(h, m)',
         \A h \in Nodes : buf'[h].cbsem = 1 => buf'[h].by \in Ids
  PROVE  BusOnce'
<1>1. (\A h \in Nodes : \A i \in 1 .. Len(heard[h]) : heard[h][i].by \in Ids) /\ HeardOnce
  BY Zenon DEF BusOnce
<1>2. (\A h \in Nodes : \A i \in 1 .. Len(heard[h]) : heard[h][i].by \in Ids)' /\ HeardOnce'
  BY <1>1 DEF HeardOnce
<1>3. (\A h \in Nodes : buf[h].cbsem = 1 => buf[h].by \in Ids)'
  OBVIOUS
<1>4. (\A h \in Nodes : \A m \in Ids : OnceAt(h, m))'
  OBVIOUS
<1> QED
  BY <1>2, <1>3, <1>4, Zenon DEF BusOnce

\* Steps that leave what the devices received where it is.
LEMMA OnceStill ==
  ASSUME BusTypes, BusOnce, \A m \in Ids : Unsent(m)' => Unsent(m),
         rx' = rx, ev' = ev, buf' = buf, heard' = heard
  PROVE  BusOnce'
<1>1. ASSUME NEW h \in Nodes, NEW m \in Ids
      PROVE  OnceAt(h, m)'
  <2>1. OnceAt(h, m)
    BY Zenon DEF BusOnce
  <2>2. AtMostOne(rx[h], Finals(m))
    BY <2>1, Zenon DEF OnceAt
  <2>3. /\ InEv(h, m)' => InEv(h, m)
        /\ InBuf(h, m)' => InBuf(h, m)
        /\ InHeard(h, m)' => InHeard(h, m)
    BY DEF InEv, InBuf, InHeard
  <2> QED
    BY <2>1, <2>2, <2>3, OnceStay, Zenon
<1>2. \A h \in Nodes : buf'[h].cbsem = 1 => buf'[h].by \in Ids
  BY Zenon DEF BusOnce
<1> QED
  BY <1>1, <1>2, OnceRest, Zenon

\* The last packet was unsent before it is written, and is not afterwards.
LEMMA FinalWritten ==
  ASSUME BusTypes, NEW n \in Nodes, TxWrite(n), IdsApart', NEW m \in Ids, Frame(n) \in Finals(m),
         \/ tx'[n].pc = "count" /\ ~tx'[n].sended
         \/ tx'[n].pc = "clear"
  PROVE  Unsent(m) /\ ~(Unsent(m)')
<1>1. /\ tx'[n].msg = tx[n].msg /\ tx'[n].pk = tx[n].pk /\ tx[n].pc = "write"
  BY TxWriteMeans
<1>2. Frame(n).msg = tx[n].msg.id /\ Frame(n).total = tx[n].msg.total /\ Frame(n).pk = tx[n].pk
  BY <1>1, FrameMeans
<1>3. tx[n].msg.id = m /\ tx[n].pk = tx[n].msg.total /\ tx[n].pk \in Nat
  <2>1. Frame(n).msg = m /\ Frame(n).pk = Frame(n).total /\ Frame(n).pk \in Nat
    BY DEF Finals, BusFrames
  <2> QED
    BY <1>2, <2>1
<1>4. Unsent(m)
  BY <1>1, <1>3 DEF Unsent, Unwritten, Writing
<1>5. ~Unwritten(tx'[n])
  BY <1>1, <1>3 DEF Unwritten
<1>6. m # 0 /\ m \in Nat /\ tx'[n].msg.id = m
  BY <1>1, <1>3, BusAssumption DEF Ids
<1>7. m \in IdsOf(n)'
  BY <1>6 DEF IdsOf, IdsWith
<1>8. offered' \in Nat
  <2>1. BusTypes'
    BY TxWriteMeans
  <2> QED
    BY <2>1, BusAssumption DEF BusTypes, GhostTypes
<1>9. m <= offered' /\ m \notin QueueIds(n)'
  BY <1>6, <1>7, Zenon DEF IdsApart
<1>10. ASSUME NEW k \in Nodes, k # n
       PROVE  m \notin QueueIds(k)' /\ tx'[k].msg.id # m
  <2>1. m \notin IdsOf(k)'
    BY <1>7, <1>10 DEF IdsApart
  <2> QED
    BY <1>6, <2>1 DEF IdsOf, IdsWith, QueueIds
<1>11. ~(m > offered')
  BY <1>6, <1>8, <1>9
<1>12. ~(\E k \in Nodes : m \in QueueIds(k)' \/ (tx'[k].msg.id = m /\ Unwritten(tx'[k])))
  BY <1>5, <1>9, <1>10, Zenon
<1>13. Unsent(m)' <=> m > offered' \/ \E k \in Nodes : m \in QueueIds(k)' \/ (tx'[k].msg.id = m /\ Unwritten(tx'[k]))
  BY Zenon DEF Unsent
<1> QED
  BY <1>4, <1>11, <1>12, <1>13, Zenon

\* A packet is written: the last one of its message for the first time.
LEMMA OnceWrite ==
  ASSUME BusTypes, BusOnce, IdsApart', \A m \in Ids : Unsent(m)' => Unsent(m),
         NEW n \in Nodes, TxWrite(n)
  PROVE  BusOnce'
<1> DEFINE f == Frame(n)
           old == Flushed(n)
           sent == \/ tx'[n].pc = "count" /\ ~tx'[n].sended
                   \/ tx'[n].pc = "clear"
<1>1. /\ ev' = ev /\ buf' = buf /\ heard' = heard /\ f \in BusFrames
      /\ \A h \in Nodes : rx'[h] = old[h] \/ (sent /\ rx'[h] = Append(old[h], f))
  <2>1. tx[n].pc = "write"
    BY TxWriteMeans
  <2>2. f \in BusFrames
    BY <2>1, FrameMeans DEF DataFrames
  <2>3. ev' = ev /\ buf' = buf /\ heard' = heard
    BY DEF TxWrite
  <2>4. /\ \/ /\ sent
              /\ \A h \in Nodes : \/ rx'[h] = Flushed(n)[h]
                                  \/ rx'[h] = Append(Flushed(n)[h], Frame(n))
           \/ rx' = Flushed(n)
    BY TxWriteMeans, Zenon
  <2> QED
    BY <2>2, <2>3, <2>4, Zenon
<1> HIDE DEF f, old, sent
<1>2. ASSUME NEW h \in Nodes, NEW m \in Ids
      PROVE  OnceAt(h, m)'
  <2>1. OnceAt(h, m)
    BY Zenon DEF BusOnce
  <2>2. AtMostOne(rx[h], Finals(m))
    BY <2>1, Zenon DEF OnceAt
  <2>3. /\ InEv(h, m)' <=> InEv(h, m)
        /\ InBuf(h, m)' <=> InBuf(h, m)
        /\ InHeard(h, m)' <=> InHeard(h, m)
    BY <1>1 DEF InEv, InBuf, InHeard
  <2>4. /\ old[h] \in Seq(BusFrames)
        /\ Has(old[h], Finals(m)) => Has(rx[h], Finals(m))
        /\ AtMostOne(old[h], Finals(m))
    BY <2>2, FlushedHas, Zenon DEF old
  <2>5. CASE rx'[h] = old[h]
    BY <2>1, <2>3, <2>4, <2>5, OnceStay, Zenon
  <2>6. CASE rx'[h] = Append(old[h], f) /\ f \notin Finals(m)
    <3>1. (Has(rx'[h], Finals(m)) <=> Has(old[h], Finals(m))) /\ AtMostOne(rx'[h], Finals(m))
      BY <1>1, <2>4, <2>6, OtherAppended, Zenon
    <3> QED
      BY <2>1, <2>3, <2>4, <3>1, OnceStay, Zenon
  <2>7. CASE sent /\ rx'[h] = Append(old[h], f) /\ f \in Finals(m)
    <3>1. Unsent(m) /\ ~(Unsent(m)')
      BY <2>7, FinalWritten, Zenon DEF f, sent
    <3>2. ~Has(rx[h], Finals(m)) /\ ~InEv(h, m) /\ ~InBuf(h, m) /\ ~InHeard(h, m)
      BY <2>1, <3>1, Zenon DEF OnceAt
    <3>3. AtMostOne(rx'[h], Finals(m))
      BY <1>1, <2>4, <2>7, <3>2, AtMostOneAppend, Zenon
    <3>4. (AtMostOne(rx[h], Finals(m)))' <=> AtMostOne(rx'[h], Finals(m))
      BY DEF AtMostOne
    <3> QED
      BY <2>3, <3>1, <3>2, <3>3, <3>4, Zenon DEF OnceAt
  <2> QED
    BY <1>1, <2>5, <2>6, <2>7, Zenon
<1>3. \A h \in Nodes : buf'[h].cbsem = 1 => buf'[h].by \in Ids
  BY <1>1, Zenon DEF BusOnce
<1> QED
  BY <1>1, <1>2, <1>3, OnceRest, Zenon

\* A ping is written: it is no last packet.
LEMMA OncePing ==
  ASSUME BusTypes, BusOnce, \A m \in Ids : Unsent(m)' => Unsent(m),
         NEW n \in Nodes, PingWrite(n)
  PROVE  BusOnce'
<1>1. PICK f \in BusFrames : /\ f.kind = "ping"
                             /\ \A h \in Nodes : rx'[h] = rx[h] \/ rx'[h] = Append(rx[h], f)
  <2>1. CASE rx' = rx
    <3>1. \A h \in Nodes : rx'[h] = rx[h]
      BY <2>1
    <3>2. \E f \in BusFrames : f.kind = "ping"
      <4>1. offered + 1 \in Ids
        BY PingWriteMeans
      <4>2. PICK d \in Nodes \ {n} : TRUE
        BY DEF PingWrite
      <4> QED
        BY <4>1, <4>2, PingOfMeans
    <3> QED
      BY <3>1, <3>2, Zenon
  <2>2. CASE \E d \in Nodes \ {n} : \A h \in Nodes :
                rx'[h] = rx[h] \/ rx'[h] = Append(rx[h], PingOf(n, d, offered + 1))
    <3> DEFINE r == offered + 1
    <3>1. PICK d \in Nodes \ {n} : \A h \in Nodes : rx'[h] = rx[h] \/ rx'[h] = Append(rx[h], PingOf(n, d, r))
      BY <2>2, Zenon
    <3>2. r \in Ids
      BY PingWriteMeans
    <3> HIDE DEF r
    <3>3. PingOf(n, d, r) \in BusFrames /\ PingOf(n, d, r).kind = "ping"
      BY <3>2, PingOfMeans
    <3> QED
      BY <3>1, <3>3, Zenon
  <2>3. \/ \E d \in Nodes \ {n} : \A h \in Nodes :
                rx'[h] = rx[h] \/ rx'[h] = Append(rx[h], PingOf(n, d, offered + 1))
        \/ rx' = rx
    <3> DEFINE P(h, d) == Append(rx[h], PingOf(n, d, offered + 1))
    <3> HIDE DEF P
    <3>1. \/ /\ ping'[n].pc = "clear"
             /\ \E d \in Nodes \ {n} :
                     /\ \A h \in Nodes : \/ rx'[h] = rx[h]
                                         \/ h = d /\ rx'[h] = P(h, d)
                     /\ "frame" \notin upset' => rx'[d] = P(d, d)
          \/ /\ "short" \in upset' /\ ping'[n].pc = "idle" /\ ~ping'[n].result /\ rx' = rx
      BY PingWriteMeans, Zenon DEF P
    <3>2. (\E d \in Nodes \ {n} : \A h \in Nodes : rx'[h] = rx[h] \/ rx'[h] = P(h, d)) \/ rx' = rx
      BY <3>1, Zenon
    <3> QED
      BY <3>2, Zenon DEF P
  <2> QED
    BY <2>1, <2>2, <2>3, Zenon
<1>2. ev' = ev /\ buf' = buf /\ heard' = heard
  BY DEF PingWrite
<1>3. ASSUME NEW h \in Nodes, NEW m \in Ids
      PROVE  OnceAt(h, m)'
  <2>1. OnceAt(h, m)
    BY Zenon DEF BusOnce
  <2>2. AtMostOne(rx[h], Finals(m))
    BY <2>1, Zenon DEF OnceAt
  <2>3. /\ InEv(h, m)' <=> InEv(h, m)
        /\ InBuf(h, m)' <=> InBuf(h, m)
        /\ InHeard(h, m)' <=> InHeard(h, m)
    BY <1>2 DEF InEv, InBuf, InHeard
  <2>4. f \notin Finals(m)
    BY <1>1 DEF Finals
  <2>5. rx[h] \in Seq(BusFrames)
    BY RxSeq, Zenon
  <2>6. (Has(rx'[h], Finals(m)) <=> Has(rx[h], Finals(m))) /\ AtMostOne(rx'[h], Finals(m))
    <3>1. (Has(Append(rx[h], f), Finals(m)) <=> Has(rx[h], Finals(m))) /\ AtMostOne(Append(rx[h], f), Finals(m))
      BY <2>2, <2>4, <2>5, OtherAppended, Zenon
    <3> QED
      BY <1>1, <2>2, <3>1, Zenon
  <2> QED
    BY <2>1, <2>3, <2>6, OnceStay, Zenon
<1>4. \A h \in Nodes : buf'[h].cbsem = 1 => buf'[h].by \in Ids
  BY <1>2, Zenon DEF BusOnce
<1> QED
  BY <1>2, <1>3, <1>4, OnceRest, Zenon

\* A last packet goes from the driver to the event task; an answer is none.
LEMMA OnceTake ==
  ASSUME BusTypes, BusOnce, \A m \in Ids : Unsent(m)' => Unsent(m),
         NEW n \in Nodes, EvTake(n)
  PROVE  BusOnce'
<1> DEFINE f == Head(rx[n])
           r == Reply(f, n)
           old == Popped(n)
<1>1. /\ UNCHANGED <<buf, heard>> /\ OnlyAt(n, ev, ev')
      /\ ev[n].pc = "recv" /\ rx[n] # <<>> /\ f \in FramesFor(n)
      /\ IF f.kind = "data" THEN ev'[n].pc = "decode" /\ ev'[n].frame = f ELSE ev'[n] = ev[n]
      /\ \/ /\ f.kind \in {"data", "ping"}
            /\ \A h \in Nodes : \/ rx'[h] = old[h]
                                \/ h = f.from /\ rx'[h] = Append(old[h], r)
         \/ rx' = old
  BY EvTakeMeans
<1>2. f \in BusFrames /\ \A m \in Ids : f.kind \in {"data", "ping"} => r \in BusFrames /\ r \notin Finals(m)
  BY <1>1, ReplyMeans DEF FramesFor, Finals
<1> HIDE DEF r, old
<1>3. ASSUME NEW h \in Nodes, NEW m \in Ids
      PROVE  OnceAt(h, m)'
  <2>1. OnceAt(h, m)
    BY Zenon DEF BusOnce
  <2>2. AtMostOne(rx[h], Finals(m))
    BY <2>1, Zenon DEF OnceAt
  <2>3. /\ InBuf(h, m)' <=> InBuf(h, m)
        /\ InHeard(h, m)' <=> InHeard(h, m)
    BY <1>1 DEF InBuf, InHeard
  <2>4. /\ old[h] \in Seq(BusFrames)
        /\ Has(old[h], Finals(m)) => Has(rx[h], Finals(m))
        /\ AtMostOne(old[h], Finals(m))
        /\ h = n /\ f \in Finals(m) => ~Has(old[h], Finals(m))
    BY <1>1, <2>2, PoppedHas, Zenon DEF old
  <2>5. (Has(rx'[h], Finals(m)) <=> Has(old[h], Finals(m))) /\ AtMostOne(rx'[h], Finals(m))
    <3>1. CASE rx'[h] = old[h]
      BY <2>4, <3>1, Zenon
    <3>2. CASE f.kind \in {"data", "ping"} /\ rx'[h] = Append(old[h], r)
      <4>1. (Has(Append(old[h], r), Finals(m)) <=> Has(old[h], Finals(m))) /\ AtMostOne(Append(old[h], r), Finals(m))
        BY <1>2, <2>4, <3>2, OtherAppended, Zenon
      <4> QED
        BY <3>2, <4>1, Zenon
    <3>3. rx' = old => rx'[h] = old[h]
      OBVIOUS
    <3> QED
      BY <1>1, <3>1, <3>2, <3>3, Zenon
  <2>6. CASE h = n /\ f \in Finals(m)
    <3>1. Has(rx[n], Finals(m))
      <4>1. rx[n] \in Seq(BusFrames)
        BY RxSeq, Zenon
      <4>2. Has(rx[n], Finals(m)) <=> Has(Tail(rx[n]), Finals(m)) \/ Head(rx[n]) \in Finals(m)
        BY <1>1, <4>1, HasTail, Zenon
      <4> QED
        BY <2>6, <4>2, Zenon
    <3>2. ~InBuf(h, m) /\ ~InHeard(h, m) /\ ~Unsent(m)
      BY <2>1, <2>6, <3>1, Zenon DEF OnceAt
    <3>3. ~Has(rx'[h], Finals(m))
      BY <2>4, <2>5, <2>6, Zenon
    <3>4. (AtMostOne(rx[h], Finals(m)))' <=> AtMostOne(rx'[h], Finals(m))
      BY DEF AtMostOne
    <3>5. (Has(rx[h], Finals(m)))' <=> Has(rx'[h], Finals(m))
      BY DEF Has
    <3> QED
      BY <2>3, <2>5, <3>2, <3>3, <3>4, <3>5, Zenon DEF OnceAt
  <2>7. CASE ~(h = n /\ f \in Finals(m))
    <3>1. InEv(h, m)' => InEv(h, m)
      BY <1>1, <2>7 DEF InEv, OnlyAt, Finals
    <3> QED
      BY <2>1, <2>3, <2>4, <2>5, <3>1, OnceStay, Zenon
  <2> QED
    BY <2>6, <2>7, Zenon
<1>4. \A h \in Nodes : buf'[h].cbsem = 1 => buf'[h].by \in Ids
  BY <1>1, Zenon DEF BusOnce
<1> QED
  BY <1>1, <1>3, <1>4, OnceRest, Zenon

\* The last packet goes from the event task to the buffer.
LEMMA OnceDecode ==
  ASSUME BusTypes, BusOnce, \A m \in Ids : Unsent(m)' => Unsent(m),
         NEW n \in Nodes, EvDecode(n)
  PROVE  BusOnce'
<1> DEFINE f == ev[n].frame
           done == Placed(buf[n].data, f) # <<>> /\ f.pk = f.total
<1>1. /\ rx' = rx /\ heard' = heard /\ OnlyAt(n, ev, ev') /\ OnlyAt(n, buf, buf')
      /\ ev[n].pc = "decode" /\ f \in DataFrames
      /\ IF done
         THEN /\ buf'[n].cbsem = 1 /\ buf'[n].by = f.msg
              /\ ev'[n].pc = "cbwait" /\ ev'[n].frame = f
         ELSE buf'[n].cbsem = buf[n].cbsem /\ buf'[n].by = buf[n].by /\ ev'[n].pc = "recv"
  BY EvDecodeMeans
<1> HIDE DEF done
<1>2. done => f.pk = f.total
  BY DEF done
<1>3. ASSUME NEW h \in Nodes, NEW m \in Ids
      PROVE  OnceAt(h, m)'
  <2>1. OnceAt(h, m)
    BY Zenon DEF BusOnce
  <2>2. AtMostOne(rx[h], Finals(m))
    BY <2>1, Zenon DEF OnceAt
  <2>3. /\ InHeard(h, m)' <=> InHeard(h, m)
        /\ Has(rx'[h], Finals(m)) <=> Has(rx[h], Finals(m))
        /\ AtMostOne(rx'[h], Finals(m))
    BY <1>1, <2>2 DEF InHeard
  <2>4. InEv(h, m)' => InEv(h, m) /\ h # n
    BY <1>1 DEF InEv, OnlyAt
  <2>5. CASE h = n /\ done /\ f.msg = m
    <3>1. f \in Finals(m)
      BY <1>1, <1>2, <2>5 DEF Finals, DataFrames
    <3>2. InEv(h, m)
      BY <1>1, <2>5, <3>1 DEF InEv
    <3>3. ~Has(rx[h], Finals(m)) /\ ~InHeard(h, m) /\ ~Unsent(m)
      BY <2>1, <3>2, Zenon DEF OnceAt
    <3>4. (AtMostOne(rx[h], Finals(m)))' <=> AtMostOne(rx'[h], Finals(m))
      BY DEF AtMostOne
    <3>5. (Has(rx[h], Finals(m)))' <=> Has(rx'[h], Finals(m))
      BY DEF Has
    <3> QED
      BY <2>3, <2>4, <2>5, <3>3, <3>4, <3>5, Zenon DEF OnceAt
  <2>6. CASE ~(h = n /\ done /\ f.msg = m)
    <3>1. InBuf(h, m)' => InBuf(h, m)
      BY <1>1, <2>6 DEF InBuf, OnlyAt
    <3> QED
      BY <2>1, <2>3, <2>4, <3>1, OnceStay, Zenon
  <2> QED
    BY <2>5, <2>6, Zenon
<1>4. ASSUME NEW h \in Nodes, buf'[h].cbsem = 1 PROVE buf'[h].by \in Ids
  <2>1. buf[h].cbsem = 1 => buf[h].by \in Ids
    BY Zenon DEF BusOnce
  <2>2. f.msg \in Ids
    BY <1>1 DEF DataFrames, BusFrames
  <2> QED
    BY <1>1, <1>4, <2>1, <2>2 DEF OnlyAt
<1> QED
  BY <1>1, <1>3, <1>4, OnceRest, Zenon

\* The event task has waited for the callback, or waits no longer.
LEMMA OnceCallback ==
  ASSUME BusTypes, BusOnce, \A m \in Ids : Unsent(m)' => Unsent(m),
         NEW n \in Nodes, EvCallback(n)
  PROVE  BusOnce'
<1>1. /\ rx' = rx /\ heard' = heard /\ OnlyAt(n, ev, ev') /\ OnlyAt(n, buf, buf') /\ ev'[n].pc = "recv"
      /\ buf'[n].cbsem = buf[n].cbsem /\ buf'[n].by = buf[n].by
  BY EvCallbackMeans
<1>2. ASSUME NEW h \in Nodes, NEW m \in Ids
      PROVE  OnceAt(h, m)'
  <2>1. OnceAt(h, m)
    BY Zenon DEF BusOnce
  <2>2. AtMostOne(rx[h], Finals(m))
    BY <2>1, Zenon DEF OnceAt
  <2>3. /\ InHeard(h, m)' => InHeard(h, m)
        /\ InEv(h, m)' => InEv(h, m)
        /\ InBuf(h, m)' => InBuf(h, m)
        /\ Has(rx'[h], Finals(m)) => Has(rx[h], Finals(m))
        /\ AtMostOne(rx'[h], Finals(m))
    BY <1>1, <2>2 DEF InHeard, InEv, InBuf, OnlyAt
  <2> QED
    BY <2>1, <2>3, OnceStay, Zenon
<1>3. ASSUME NEW h \in Nodes, buf'[h].cbsem = 1 PROVE buf'[h].by \in Ids
  <2>1. buf[h].cbsem = 1 => buf[h].by \in Ids
    BY Zenon DEF BusOnce
  <2> QED
    BY <1>1, <1>3, <2>1 DEF OnlyAt
<1> QED
  BY <1>1, <1>2, <1>3, OnceRest, Zenon

\* The message goes from the buffer to the callback.
LEMMA OnceRun ==
  ASSUME BusTypes, BusOnce, \A m \in Ids : Unsent(m)' => Unsent(m),
         NEW n \in Nodes, CbRun(n)
  PROVE  BusOnce'
<1>1. /\ rx' = rx /\ ev' = ev /\ OnlyAt(n, buf, buf') /\ OnlyAt(n, heard, heard')
      /\ buf[n].cbsem = 1 /\ buf'[n].cbsem = 0
      /\ heard[n] \in Seq(BusHeard)
  BY CbRunMeans
<1>2. PICK r \in BusHeard : r.by = buf[n].by /\ heard'[n] = Append(heard[n], r)
  BY CbRunMeans
<1>3. /\ Len(heard'[n]) = Len(heard[n]) + 1 /\ Len(heard[n]) \in Nat
      /\ heard'[n][Len(heard[n]) + 1] = r
      /\ \A i \in 1 .. Len(heard[n]) : heard'[n][i] = heard[n][i]
  BY <1>1, <1>2, AppendFacts
<1>4. \A i \in 1 .. Len(heard'[n]) : i \in 1 .. Len(heard[n]) \/ i = Len(heard[n]) + 1
  BY <1>3
<1>5. buf[n].by \in Ids
  BY <1>1, Zenon DEF BusOnce
<1>6. ASSUME NEW h \in Nodes, NEW m \in Ids
      PROVE  OnceAt(h, m)'
  <2>1. OnceAt(h, m)
    BY Zenon DEF BusOnce
  <2>2. AtMostOne(rx[h], Finals(m))
    BY <2>1, Zenon DEF OnceAt
  <2>3. /\ InEv(h, m)' <=> InEv(h, m)
        /\ Has(rx'[h], Finals(m)) <=> Has(rx[h], Finals(m))
        /\ AtMostOne(rx'[h], Finals(m))
        /\ InBuf(h, m)' => InBuf(h, m) /\ h # n
    BY <1>1, <2>2 DEF InEv, InBuf, OnlyAt
  <2>4. InHeard(h, m)' => InHeard(h, m) \/ (h = n /\ m = buf[n].by)
    <3>1. CASE h = n
      BY <1>2, <1>3, <1>4, <3>1 DEF InHeard
    <3>2. CASE h # n
      BY <1>1, <3>2 DEF InHeard, OnlyAt
    <3> QED
      BY <3>1, <3>2, Zenon
  <2>5. CASE h = n /\ m = buf[n].by
    <3>1. InBuf(h, m)
      BY <1>1, <2>5 DEF InBuf
    <3>2. ~Has(rx[h], Finals(m)) /\ ~InEv(h, m) /\ ~Unsent(m)
      BY <2>1, <3>1, Zenon DEF OnceAt
    <3>4. (AtMostOne(rx[h], Finals(m)))' <=> AtMostOne(rx'[h], Finals(m))
      BY DEF AtMostOne
    <3>5. (Has(rx[h], Finals(m)))' <=> Has(rx'[h], Finals(m))
      BY DEF Has
    <3> QED
      BY <2>3, <2>5, <3>2, <3>4, <3>5, Zenon DEF OnceAt
  <2>6. CASE ~(h = n /\ m = buf[n].by)
    BY <2>1, <2>3, <2>4, <2>6, OnceStay, Zenon
  <2> QED
    BY <2>5, <2>6, Zenon
<1>7. (\A h \in Nodes : \A m \in Ids : OnceAt(h, m))'
  BY <1>6
<1>8. ASSUME NEW h \in Nodes, NEW i \in 1 .. Len(heard'[h]) PROVE heard'[h][i].by \in Ids
  <2>1. \A j \in 1 .. Len(heard[h]) : heard[h][j].by \in Ids
    BY Zenon DEF BusOnce
  <2>2. CASE h = n
    BY <1>2, <1>3, <1>4, <1>5, <1>8, <2>1, <2>2
  <2>3. CASE h # n
    BY <1>1, <1>8, <2>1, <2>3 DEF OnlyAt
  <2> QED
    BY <2>2, <2>3
<1>9. ASSUME NEW h \in Nodes, buf'[h].cbsem = 1 PROVE buf'[h].by \in Ids
  <2>1. buf[h].cbsem = 1 => buf[h].by \in Ids
    BY Zenon DEF BusOnce
  <2> QED
    BY <1>1, <1>9, <2>1 DEF OnlyAt
<1>10. HeardOnce'
  <2>1. HeardOnce
    BY Zenon DEF BusOnce
  <2>2. \A i \in 1 .. Len(heard[n]) : heard[n][i].by # buf[n].by
    <3>1. OnceAt(n, buf[n].by) /\ InBuf(n, buf[n].by)
      BY <1>1, <1>5, Zenon DEF BusOnce, InBuf
    <3>2. ~InHeard(n, buf[n].by)
      BY <3>1, Zenon DEF OnceAt
    <3> QED
      BY <3>2 DEF InHeard
  <2> SUFFICES ASSUME NEW h \in Nodes, NEW i \in 1 .. Len(heard'[h]), NEW j \in 1 .. Len(heard'[h]), i # j
               PROVE  heard'[h][i].by # heard'[h][j].by
    BY DEF HeardOnce
  <2>3. CASE h = n
    <3>1. \A k, l \in 1 .. Len(heard[n]) : k # l => heard[n][k].by # heard[n][l].by
      BY <2>1, Zenon DEF HeardOnce
    <3>2. /\ \A k \in 1 .. Len(heard[n]) : heard'[n][k].by = heard[n][k].by
          /\ heard'[n][Len(heard[n]) + 1].by = buf[n].by
      BY <1>2, <1>3
    <3>3. i \in 1 .. Len(heard'[n]) /\ j \in 1 .. Len(heard'[n])
      BY <2>3
    <3>4. /\ i \in 1 .. Len(heard[n]) \/ i = Len(heard[n]) + 1
          /\ j \in 1 .. Len(heard[n]) \/ j = Len(heard[n]) + 1
      BY <1>4, <3>3, Zenon
    <3>5. heard'[n][i].by # heard'[n][j].by
      BY <2>2, <3>1, <3>2, <3>4, Zenon
    <3> QED
      BY <2>3, <3>5
  <2>4. CASE h # n
    BY <1>1, <2>1, <2>4 DEF HeardOnce, OnlyAt
  <2> QED
    BY <2>3, <2>4
<1>11. (\A h \in Nodes : \A i \in 1 .. Len(heard[h]) : heard[h][i].by \in Ids)'
  BY <1>8
<1>12. (\A h \in Nodes : buf[h].cbsem = 1 => buf[h].by \in Ids)'
  BY <1>9
<1> QED
  BY <1>7, <1>10, <1>11, <1>12, Zenon DEF BusOnce

\* Every step keeps the last packet of a message in one place.
LEMMA BusOnceStep == BusTypes /\ IdsApart /\ BusOnce /\ BusNext => BusOnce'
<1> SUFFICES ASSUME BusTypes, IdsApart, BusOnce, BusNext PROVE BusOnce'
  OBVIOUS
<1>1. IdsApart'
  BY IdsApartStep
<1>2. offered' \in Nat
  <2>1. BusTypes'
    BY BusTypesStep
  <2> QED
    BY <2>1, BusAssumption DEF BusTypes, GhostTypes
<1>3. \A m \in Ids : Unsent(m)' => Unsent(m)
  <2>1. PICK n \in Nodes : BusMove(n)
    BY BusMoves
  <2> QED
    BY <1>2, <2>1, UnsentShrinks, Zenon
<1>4. PICK n \in Nodes :
         \/ BusSender(n) \/ BusSenderEnd(n)
         \/ TxReceive(n) \/ TxWrite(n) \/ TxClear(n) \/ TxAckWait(n)
         \/ TxCount(n) \/ TxGive(n)
         \/ EvTake(n) \/ EvDecode(n) \/ EvCallback(n) \/ CbRun(n)
         \/ PingWrite(n) \/ PingClear(n) \/ PingWait(n)
  BY Zenon DEF BusNext
<1>5. CASE BusSender(n) \/ BusSenderEnd(n)
  <2>1. rx' = rx /\ ev' = ev /\ buf' = buf /\ heard' = heard
    BY <1>5 DEF BusSender, BusSenderEnd
  <2> QED
    BY <1>3, <2>1, OnceStill, Zenon
<1>6. CASE TxReceive(n) \/ TxClear(n) \/ TxAckWait(n) \/ TxCount(n) \/ TxGive(n)
  <2>1. rx' = rx /\ ev' = ev /\ buf' = buf /\ heard' = heard
    BY <1>6 DEF TxReceive, TxClear, TxAckWait, TxCount, TxGive, TxOnly
  <2> QED
    BY <1>3, <2>1, OnceStill, Zenon
<1>7. CASE PingClear(n) \/ PingWait(n)
  <2>1. rx' = rx /\ ev' = ev /\ buf' = buf /\ heard' = heard
    BY <1>7 DEF PingClear, PingWait
  <2> QED
    BY <1>3, <2>1, OnceStill, Zenon
<1>8. CASE TxWrite(n) \/ PingWrite(n)
  BY <1>1, <1>3, <1>8, OnceWrite, OncePing, Zenon
<1>9. CASE EvTake(n) \/ EvDecode(n) \/ EvCallback(n) \/ CbRun(n)
  BY <1>3, <1>9, OnceTake, OnceDecode, OnceCallback, OnceRun, Zenon
<1> QED
  BY <1>4, <1>5, <1>6, <1>7, <1>8, <1>9, Zenon

\* At the start nothing is anywhere.
LEMMA BusOnceInit == BusInit => IdsApart /\ BusOnce
<1> SUFFICES ASSUME BusInit PROVE IdsApart /\ BusOnce
  OBVIOUS
<1>1. \A n \in Nodes : /\ rx[n] = <<>> /\ call[n].queue = <<>> /\ call[n].msg = NoOne /\ tx[n].msg = NoOne
                       /\ tx[n].pc = "recv" /\ ev[n].pc = "recv" /\ buf[n].cbsem = 0 /\ heard[n] = <<>>
  BY DEF BusInit
<1>2. \A n \in Nodes : IdsOf(n) = {} /\ QueueIds(n) = {} /\ EachOnce(call[n].queue)
  <2> TAKE n \in Nodes
  <2>1. QueueIds(n) = {} /\ EachOnce(call[n].queue)
    BY <1>1 DEF QueueIds, IdsIn, EachOnce
  <2> QED
    BY <1>1, <2>1 DEF IdsOf, IdsWith, QueueIds, NoOne
<1>3. IdsApart
  BY <1>2 DEF IdsApart
<1>4. \A h \in Nodes : \A m \in Ids : OnceAt(h, m)
  BY <1>1 DEF OnceAt, AtMostOne, Has, InEv, InBuf, InHeard
<1>5. HeardOnce /\ \A h \in Nodes : \A i \in 1 .. Len(heard[h]) : heard[h][i].by \in Ids
  BY <1>1 DEF HeardOnce
<1> QED
  BY <1>1, <1>3, <1>4, <1>5 DEF BusOnce

-----------------------------------------------------------------------------
(* The bus: the ping of a device and the frames that could answer it.       *)

\* A frame of an earlier ping than round r.
StrayOf(n, r) == {f \in PingFrames(n) : f.msg # r}

\* What the devices received of the pings of n is as it was.
PingsStay(n) ==
    \A h \in Nodes : \A T \in SUBSET PingFrames(n) :
        /\ Has(rx'[h], T) => Has(rx[h], T)
        /\ AtMostOne(rx[h], T) => AtMostOne(rx'[h], T)
        /\ upset' = {} /\ Has(rx[h], T) => Has(rx'[h], T)

\* The parts of OnePing, over what they speak of.
PingRow(q, p, n) ==
    /\ (\E h \in Nodes : Has(q[h], PingFrames(n))) => p.pc # "idle" /\ p.sem = 0
    /\ \A h \in Nodes : AtMostOne(q[h], PingFrames(n))
    /\ \A h, k \in Nodes : Has(q[h], PingFrames(n)) /\ Has(q[k], PingFrames(n)) => h = k
    /\ \A h \in Nodes : ~Has(q[h], StrayOf(n, p.round))
    /\ p.sem = 1 => p.pc # "idle"
    /\ p.pc = "wait" /\ p.ok => p.by = p.round

\* No frame of another round of pings, index by index.
LEMMA StrayMeans ==
  ASSUME NEW q, NEW n, NEW r
  PROVE  ~Has(q, StrayOf(n, r)) <=> \A i \in 1 .. Len(q) : q[i] \in PingFrames(n) => q[i].msg = r
BY DEF Has, StrayOf

\* What is under way of one ping, as a fact about the values it is made of.
LEMMA OnePingMeans ==
  ASSUME NEW n
  PROVE  /\ OnePing(n) <=> ("latepong" \notin upset => PingRow(rx, ping[n], n))
         /\ OnePing(n)' <=> ("latepong" \notin upset' => PingRow(rx', ping'[n], n))
<1>1. OnePing(n) <=> ("latepong" \notin upset => PingRow(rx, ping[n], n))
  BY StrayMeans, Zenon DEF OnePing, PingRow, Asked
<1>2. OnePing(n)' <=> ("latepong" \notin upset' => PingRow(rx', ping'[n], n))
  <2>1. \A h : ~Has(rx'[h], StrayOf(n, ping'[n].round)) <=>
               \A i \in 1 .. Len(rx'[h]) : rx'[h][i] \in PingFrames(n) => rx'[h][i].msg = ping'[n].round
    BY StrayMeans, Zenon
  <2>2. /\ \A h : (Has(rx[h], PingFrames(n)))' <=> Has(rx'[h], PingFrames(n))
        /\ \A h : (AtMostOne(rx[h], PingFrames(n)))' <=> AtMostOne(rx'[h], PingFrames(n))
    BY DEF Has, AtMostOne
  <2> QED
    BY <2>1, <2>2, Zenon DEF OnePing, PingRow, Asked
<1> QED
  BY <1>1, <1>2, Zenon

\* A step that touches neither the ping nor its frames.
LEMMA PingKept ==
  ASSUME NEW n \in Nodes, OnePing(n), NoPingLost(n), ping'[n] = ping[n], upset \subseteq upset', PingsStay(n)
  PROVE  OnePing(n)' /\ NoPingLost(n)'
<1> DEFINE F == PingFrames(n)
           G == StrayOf(n, ping[n].round)
<1>1. F \in SUBSET PingFrames(n) /\ G \in SUBSET PingFrames(n)
  BY DEF StrayOf
<1>2. ASSUME "latepong" \notin upset', PingRow(rx, ping[n], n)
      PROVE  PingRow(rx', ping[n], n)
  <2> HIDE DEF F, G
  <2>1. \A h \in Nodes : /\ Has(rx'[h], F) => Has(rx[h], F)
                         /\ AtMostOne(rx[h], F) => AtMostOne(rx'[h], F)
                         /\ Has(rx'[h], G) => Has(rx[h], G)
    BY <1>1, Zenon DEF PingsStay
  <2> USE DEF F, G
  <2> QED
    BY <1>2, <2>1, Zenon DEF PingRow
<1>3. OnePing(n)'
  <2>1. "latepong" \notin upset' => "latepong" \notin upset
    OBVIOUS
  <2> QED
    BY <1>2, <2>1, OnePingMeans, Zenon
<1>4. upset' = {} => upset = {} /\ (Asked(n) => Asked(n)')
  <2>1. upset' = {} => upset = {}
    OBVIOUS
  <2> HIDE DEF F, G
  <2>2. ASSUME upset' = {} PROVE \A h \in Nodes : Has(rx[h], F) => Has(rx'[h], F)
    BY <1>1, <2>2, Zenon DEF PingsStay
  <2> USE DEF F, G
  <2>3. \A h : (Has(rx[h], PingFrames(n)))' <=> Has(rx'[h], PingFrames(n))
    BY DEF Has
  <2> QED
    BY <2>1, <2>2, <2>3, Zenon DEF Asked
<1>5. NoPingLost(n)'
  BY <1>4, Zenon DEF NoPingLost
<1> QED
  BY <1>3, <1>5

\* PingTruth of one device.
Truth(p, S) ==
    p.pc = "idle" /\ p.round > 0 =>
        /\ p.result => p.by = p.round \/ "latepong" \in S
        /\ ~p.result => S # {}

\* What the invariant says of the ping of one device.
PingAt(n) == Truth(ping[n], upset) /\ OnePing(n) /\ NoPingLost(n)

\* The invariant of the pings, device by device.
LEMMA PingAtMeans == (BusPingInv <=> \A n \in Pingers : PingAt(n)) /\ (BusPingInv' <=> \A n \in Pingers : PingAt(n)')
BY Zenon DEF BusPingInv, PingTruth, PingAt, Truth

\* A step that is no step of the ping of n and adds no frame of it.
LEMMA PingAtKept ==
  ASSUME NEW n \in Nodes, PingAt(n), ping'[n] = ping[n], upset \subseteq upset', PingsStay(n)
  PROVE  PingAt(n)'
<1>1. OnePing(n)' /\ NoPingLost(n)'
  BY PingKept, Zenon DEF PingAt
<1>2. Truth(ping[n], upset) /\ (upset # {} => upset' # {}) /\ ("latepong" \in upset => "latepong" \in upset')
  BY DEF PingAt
<1>3. Truth(ping[n], upset')
  BY <1>2, Zenon DEF Truth
<1>4. Truth(ping'[n], upset')
  BY <1>3, Zenon
<1> QED
  BY <1>1, <1>4, Zenon DEF PingAt

\* The steps after which the frames of a ping are where they were.
LEMMA PingsStaySame ==
  ASSUME NEW n \in Nodes, rx' = rx
  PROVE  PingsStay(n)
BY DEF PingsStay

\* A frame that is no ping of n, on the bus or not, after what the step left.
LEMMA PingsStayPut ==
  ASSUME BusTypes, NEW n \in Nodes, NEW f \in BusFrames, f \notin PingFrames(n),
         NEW old, \A h \in Nodes : rx'[h] = old[h] \/ rx'[h] = Append(old[h], f),
         \A h \in Nodes : \A T \in SUBSET PingFrames(n) :
            /\ old[h] \in Seq(BusFrames)
            /\ Has(old[h], T) => Has(rx[h], T)
            /\ AtMostOne(rx[h], T) => AtMostOne(old[h], T)
            /\ upset' = {} /\ Has(rx[h], T) => Has(old[h], T)
  PROVE  PingsStay(n)
<1> SUFFICES ASSUME NEW h \in Nodes, NEW T \in SUBSET PingFrames(n)
             PROVE  /\ Has(rx'[h], T) <=> Has(old[h], T)
                    /\ AtMostOne(old[h], T) => AtMostOne(rx'[h], T)
  BY Zenon DEF PingsStay
<1>1. old[h] \in Seq(BusFrames) /\ f \notin T
  OBVIOUS
<1>2. /\ Has(Append(old[h], f), T) <=> Has(old[h], T)
      /\ AtMostOne(old[h], T) => AtMostOne(Append(old[h], f), T)
  BY <1>1, OtherAppended, Zenon
<1> QED
  BY <1>2, Zenon

\* Writing a packet adds none.
LEMMA PingsStayWrite ==
  ASSUME BusTypes, NEW n \in Nodes, NEW k \in Nodes, TxWrite(k)
  PROVE  PingsStay(n)
<1> DEFINE f == Frame(k)
           old == Flushed(k)
<1>1. /\ f \in BusFrames /\ f \notin PingFrames(n)
  <2>1. tx[k].pc = "write"
    BY TxWriteMeans
  <2> QED
    BY <2>1, FrameMeans DEF DataFrames, PingFrames
<1>2. \A h \in Nodes : rx'[h] = old[h] \/ rx'[h] = Append(old[h], f)
  <2>1. \/ \A h \in Nodes : \/ rx'[h] = Flushed(k)[h]
                            \/ rx'[h] = Append(Flushed(k)[h], Frame(k))
        \/ rx' = Flushed(k)
    BY TxWriteMeans, Zenon
  <2> QED
    BY <2>1, Zenon
<1>3. upset' = {} => rx[k] = <<>>
  BY TxWriteMeans
<1>4. ASSUME upset' = {}, NEW h \in Nodes PROVE old[h] = rx[h]
  <2>1. old[k] = <<>> /\ OnlyAt(k, rx, old)
    BY FlushedMeans, Zenon
  <2> QED
    BY <1>3, <1>4, <2>1, Zenon DEF OnlyAt
<1> HIDE DEF f, old
<1>5. ASSUME NEW h \in Nodes, NEW T \in SUBSET PingFrames(n)
      PROVE  /\ old[h] \in Seq(BusFrames)
             /\ Has(old[h], T) => Has(rx[h], T)
             /\ AtMostOne(rx[h], T) => AtMostOne(old[h], T)
             /\ upset' = {} /\ Has(rx[h], T) => Has(old[h], T)
  BY <1>4, FlushedHas, Zenon DEF old
<1> QED
  BY <1>1, <1>2, <1>5, PingsStayPut, Zenon

\* The ping of another device adds none.
LEMMA PingsStayPing ==
  ASSUME BusTypes, NEW n \in Nodes, NEW k \in Nodes, k # n, PingWrite(k)
  PROVE  PingsStay(n)
<1> DEFINE r == offered + 1
<1>1. r \in Ids
  BY PingWriteMeans
<1>2. \/ \E d \in Nodes \ {k} : \A h \in Nodes :
                rx'[h] = rx[h] \/ rx'[h] = Append(rx[h], PingOf(k, d, r))
      \/ rx' = rx
  <2> DEFINE P(h, d) == Append(rx[h], PingOf(k, d, offered + 1))
  <2> HIDE DEF P
  <2>1. \/ /\ ping'[k].pc = "clear"
           /\ \E d \in Nodes \ {k} :
                     /\ \A h \in Nodes : \/ rx'[h] = rx[h]
                                         \/ h = d /\ rx'[h] = P(h, d)
                     /\ "frame" \notin upset' => rx'[d] = P(d, d)
        \/ /\ "short" \in upset' /\ ping'[k].pc = "idle" /\ ~ping'[k].result /\ rx' = rx
    BY PingWriteMeans, Zenon DEF P
  <2>2. (\E d \in Nodes \ {k} : \A h \in Nodes : rx'[h] = rx[h] \/ rx'[h] = P(h, d)) \/ rx' = rx
    BY <2>1, Zenon
  <2> QED
    BY <2>2, Zenon DEF P
<1> HIDE DEF r
<1>3. CASE rx' = rx
  BY <1>3, PingsStaySame, Zenon
<1>4. ASSUME NEW d \in Nodes \ {k},
             \A h \in Nodes : rx'[h] = rx[h] \/ rx'[h] = Append(rx[h], PingOf(k, d, r))
      PROVE  PingsStay(n)
  <2> DEFINE f == PingOf(k, d, r)
  <2>1. f \in BusFrames /\ f.kind = "ping" /\ f.from = k
    BY <1>1, PingOfMeans
  <2> HIDE DEF f
  <2>2. f \notin PingFrames(n)
    BY <2>1 DEF PingFrames
  <2>3. \A h \in Nodes : rx[h] \in Seq(BusFrames)
    BY RxSeq, Zenon
  <2>4. \A h \in Nodes : rx'[h] = rx[h] \/ rx'[h] = Append(rx[h], f)
    BY <1>4, Zenon DEF f
  <2> QED
    BY <2>1, <2>2, <2>3, <2>4, PingsStayPut, Zenon
<1> QED
  BY <1>2, <1>3, <1>4, Zenon

\* A frame is read that is no ping of n.
LEMMA PingsStayTake ==
  ASSUME BusTypes, NEW n \in Nodes, NEW k \in Nodes, EvTake(k), Head(rx[k]) \notin PingFrames(n)
  PROVE  PingsStay(n)
<1> DEFINE f == Head(rx[k])
           r == Reply(f, k)
           old == Popped(k)
<1>1. /\ rx[k] # <<>> /\ f \in FramesFor(k)
      /\ \/ /\ f.kind \in {"data", "ping"}
            /\ \A h \in Nodes : rx'[h] = old[h] \/ rx'[h] = Append(old[h], r)
         \/ rx' = old
  BY EvTakeMeans
<1>2. f.kind \in {"data", "ping"} => r \in BusFrames /\ r \notin PingFrames(n)
  <2>1. ASSUME f.kind \in {"data", "ping"}
        PROVE  /\ r \in BusFrames /\ r.kind # "ping"
               /\ r.kind = (IF f.kind = "data" THEN "ack" ELSE "pong")
               /\ r.to = f.from
    BY <1>1, <2>1, ReplyMeans
  <2>2. f \in BusFrames
    BY <1>1 DEF FramesFor
  <2>3. f.kind = "ping" => f.from # n
    BY <2>2 DEF PingFrames
  <2> QED
    BY <2>1, <2>3 DEF PingFrames
<1>4. f \in BusFrames
  BY <1>1 DEF FramesFor
<1>5. ASSUME NEW h \in Nodes, NEW T \in SUBSET PingFrames(n)
      PROVE  /\ old[h] \in Seq(BusFrames)
             /\ Has(old[h], T) => Has(rx[h], T)
             /\ AtMostOne(rx[h], T) => AtMostOne(old[h], T)
             /\ upset' = {} /\ Has(rx[h], T) => Has(old[h], T)
  <2>1. old[h] \in Seq(BusFrames) /\ (Has(old[h], T) => Has(rx[h], T)) /\ (AtMostOne(rx[h], T) => AtMostOne(old[h], T))
    BY <1>1, PoppedHas, Zenon
  <2>2. old[k] = Tail(rx[k]) /\ OnlyAt(k, rx, old) /\ rx[k] \in Seq(BusFrames)
    BY <1>1, PoppedMeans, Zenon
  <2>3. Has(rx[k], T) <=> Has(Tail(rx[k]), T) \/ f \in T
    BY <1>1, <2>2, HasTail, Zenon
  <2>4. f \notin T
    OBVIOUS
  <2>5. Has(rx[h], T) => Has(old[h], T)
    BY <2>2, <2>3, <2>4, Zenon DEF OnlyAt
  <2> QED
    BY <2>1, <2>5, Zenon
<1> HIDE DEF f, r, old
<1>6. CASE f.kind \in {"data", "ping"} /\ \A h \in Nodes : rx'[h] = old[h] \/ rx'[h] = Append(old[h], r)
  BY <1>2, <1>5, <1>6, PingsStayPut, Zenon
<1>7. CASE rx' = old
  BY <1>5, <1>7, Zenon DEF PingsStay
<1> QED
  BY <1>1, <1>6, <1>7, Zenon

\* No frame of the ping is left.
LEMMA NoneAsked ==
  ASSUME NEW n \in Nodes, ~Asked(n), NEW p, p.sem = 1 => p.pc # "idle", p.pc = "wait" /\ p.ok => p.by = p.round
  PROVE  PingRow(rx, p, n)
<1>1. \A h \in Nodes : ~Has(rx[h], PingFrames(n))
  BY Zenon DEF Asked
<1>2. \A h \in Nodes : AtMostOne(rx[h], PingFrames(n)) /\ ~Has(rx[h], StrayOf(n, p.round))
  BY <1>1 DEF AtMostOne, Has, StrayOf
<1> QED
  BY <1>1, <1>2, Zenon DEF PingRow

\* ping_ok is cleared.
LEMMA PingAtClear ==
  ASSUME BusTypes, NEW n \in Nodes, PingAt(n), PingClear(n)
  PROVE  PingAt(n)'
<1>1. /\ rx' = rx /\ upset \subseteq upset' /\ ping[n].pc = "clear" /\ ping'[n].pc = "wait" /\ ~ping'[n].ok
      /\ ping[n].ok /\ ping[n].by = ping[n].round => "early" \in upset'
      /\ ping'[n].round = ping[n].round /\ ping'[n].sem = ping[n].sem
  BY PingClearMeans
<1>2. OnePing(n) /\ NoPingLost(n)
  BY Zenon DEF PingAt
<1>3. ASSUME "latepong" \notin upset' PROVE PingRow(rx', ping'[n], n)
  <2>1. PingRow(rx, ping[n], n)
    <3>1. "latepong" \notin upset
      BY <1>1, <1>3
    <3> QED
      BY <1>2, <3>1, OnePingMeans, Zenon
  <2>2. ping'[n].pc # "idle" /\ ping[n].pc # "idle"
    BY <1>1
  <2> QED
    BY <1>1, <2>1, <2>2, Zenon DEF PingRow
<1>4. OnePing(n)'
  BY <1>3, OnePingMeans, Zenon
<1>5. Asked(n)' <=> Asked(n)
  BY <1>1 DEF Asked, Has
<1>6. NoPingLost(n)'
  <2>1. ASSUME upset' = {}
        PROVE  upset = {} /\ ~(ping[n].ok /\ ping[n].by = ping[n].round) /\ ping'[n].pc # "idle" /\ ping'[n].pc # "clear" /\ ping[n].pc # "idle"
    BY <1>1, <2>1
  <2> QED
    BY <1>1, <1>2, <1>5, <2>1, Zenon DEF NoPingLost
<1>7. Truth(ping'[n], upset')
  <2>1. ping'[n].pc # "idle"
    BY <1>1
  <2> QED
    BY <2>1, Zenon DEF Truth
<1> QED
  BY <1>4, <1>6, <1>7, Zenon DEF PingAt

\* The wait for the pong ends.
LEMMA PingAtWait ==
  ASSUME BusTypes, NEW n \in Nodes, PingAt(n), PingWait(n)
  PROVE  PingAt(n)'
<1>1. /\ rx' = rx /\ upset \subseteq upset' /\ ping[n].pc = "wait" /\ ping'[n].pc = "idle" /\ ping'[n].sem = 0
      /\ ping'[n].result = ping[n].ok
      /\ ping'[n].round = ping[n].round /\ ping'[n].by = ping[n].by
      /\ ping[n].sem = 1 \/ ~Awaited(n, {"ping", "pong"}) \/ "latepong" \in upset'
      /\ ping[n].sem \in {0, 1}
  <2>1. ping[n].sem \in {0, 1}
    BY DEF BusTypes, PingTypes, BusPings
  <2> QED
    BY <2>1, PingWaitMeans
<1>2. OnePing(n) /\ NoPingLost(n)
  BY Zenon DEF PingAt
<1>3. Asked(n) => Awaited(n, {"ping", "pong"})
  BY DEF Asked, Awaited, Has, PingFrames
<1>4. "latepong" \notin upset' => PingRow(rx, ping[n], n)
  <2>1. "latepong" \notin upset' => "latepong" \notin upset
    BY <1>1
  <2> QED
    BY <1>2, <2>1, OnePingMeans, Zenon
<1>5. ping[n].sem = 1 => ping[n].sem # 0
  OBVIOUS
<1>6. "latepong" \notin upset' => ~Asked(n)
  BY <1>1, <1>3, <1>4, <1>5, Zenon DEF PingRow, Asked
<1>7. ping'[n].sem # 1 /\ ping'[n].pc # "wait"
  BY <1>1
<1>8. OnePing(n)'
  <2>1. "latepong" \notin upset' => PingRow(rx, ping'[n], n)
    BY <1>6, <1>7, NoneAsked, Zenon
  <2> QED
    BY <1>1, <2>1, OnePingMeans, Zenon
<1>9. NoPingLost(n)'
  BY <1>1 DEF NoPingLost
<1>10. "latepong" \notin upset' /\ ping[n].ok => ping[n].by = ping[n].round
  BY <1>1, <1>4, Zenon DEF PingRow
<1>11. ASSUME upset' = {} PROVE ping[n].ok
  <2>1. upset = {} /\ "latepong" \notin upset' /\ ping[n].pc # "idle"
    BY <1>1, <1>11
  <2>2. ping[n].sem = 1
    BY <1>2, <1>6, <2>1, Zenon DEF NoPingLost
  <2> QED
    BY <1>1, <1>2, <2>1, <2>2, Zenon DEF NoPingLost
<1>12. Truth(ping'[n], upset')
  BY <1>1, <1>10, <1>11, Zenon DEF Truth
<1> QED
  BY <1>8, <1>9, <1>12, Zenon DEF PingAt

\* A pong arrives.
LEMMA PingAtPong ==
  ASSUME BusTypes, NEW n \in Nodes, PingAt(n), EvTake(n), Head(rx[n]).kind = "pong"
  PROVE  PingAt(n)'
<1> DEFINE f == Head(rx[n])
           F == PingFrames(n)
<1>1. /\ upset' = upset /\ rx' = Popped(n) /\ f \in FramesFor(n) /\ rx[n] # <<>>
      /\ ping'[n].ok /\ ping'[n].sem = 1 /\ ping'[n].by = f.msg /\ ping'[n].pc = ping[n].pc
      /\ ping'[n].round = ping[n].round /\ ping'[n].result = ping[n].result
  BY EvTakeMeans
<1>2. f \in F
  BY <1>1 DEF FramesFor, PingFrames
<1>3. OnePing(n) /\ NoPingLost(n) /\ Truth(ping[n], upset)
  BY Zenon DEF PingAt
<1>4. rx[n] \in Seq(BusFrames)
  BY RxSeq, Zenon
<1>5. Has(rx[n], F)
  <2>1. Has(rx[n], F) <=> Has(Tail(rx[n]), F) \/ Head(rx[n]) \in F
    BY <1>1, <1>4, HasTail, Zenon
  <2> QED
    BY <1>2, <2>1, Zenon
<1>6. ASSUME "latepong" \notin upset
      PROVE  /\ ping[n].pc # "idle" /\ f.msg = ping[n].round
             /\ \A h \in Nodes : ~Has(rx'[h], F)
  <2>1. PingRow(rx, ping[n], n)
    BY <1>3, <1>6, OnePingMeans, Zenon
  <2>2. ping[n].pc # "idle" /\ AtMostOne(rx[n], F) /\ ~Has(rx[n], StrayOf(n, ping[n].round))
        /\ \A h \in Nodes : Has(rx[h], F) => h = n
    BY <1>5, <2>1, Zenon DEF PingRow
  <2>3. f.msg = ping[n].round
    <3>1. f = rx[n][1] /\ 1 \in 1 .. Len(rx[n])
      BY <1>1, <1>4
    <3>2. rx[n][1] \in F => rx[n][1].msg = ping[n].round
      BY <2>2, <3>1 DEF Has, StrayOf
    <3> QED
      BY <1>2, <3>1, <3>2
  <2>4. ASSUME NEW h \in Nodes PROVE ~Has(Popped(n)[h], F)
    <3>1. /\ Has(Popped(n)[h], F) => Has(rx[h], F)
          /\ AtMostOne(rx[h], F) /\ h = n /\ Head(rx[n]) \in F => ~Has(Popped(n)[h], F)
      BY <1>1, PoppedHas, Zenon
    <3> QED
      BY <1>2, <2>2, <3>1, Zenon
  <2> QED
    BY <1>1, <2>2, <2>3, <2>4, Zenon
<1>7. OnePing(n)'
  <2>1. ASSUME "latepong" \notin upset
        PROVE  PingRow(rx', ping'[n], n)
    <3>1. \A h \in Nodes : AtMostOne(rx'[h], F) /\ ~Has(rx'[h], StrayOf(n, ping'[n].round)) /\ ~Has(rx'[h], F)
      BY <1>6, <2>1 DEF AtMostOne, Has, StrayOf
    <3>2. ping'[n].pc # "idle" /\ ping'[n].by = ping'[n].round
      BY <1>1, <1>6, <2>1
    <3> QED
      BY <3>1, <3>2, Zenon DEF PingRow
  <2> QED
    BY <1>1, <2>1, OnePingMeans, Zenon
<1>8. NoPingLost(n)'
  <2>1. upset = {} => f.msg = ping[n].round
    BY <1>6
  <2>2. ping'[n].sem = 1 /\ ping'[n].ok /\ (upset' = {} => ping'[n].by = ping'[n].round)
    BY <1>1, <2>1
  <2> QED
    BY <2>2, Zenon DEF NoPingLost
<1>9. Truth(ping'[n], upset')
  <2>1. CASE "latepong" \in upset
    <3>1. upset' # {} /\ "latepong" \in upset'
      BY <1>1, <2>1
    <3> QED
      BY <3>1, Zenon DEF Truth
  <2>2. CASE "latepong" \notin upset
    <3>1. ping'[n].pc # "idle"
      BY <1>1, <1>6, <2>2
    <3> QED
      BY <3>1, Zenon DEF Truth
  <2> QED
    BY <2>1, <2>2
<1> QED
  BY <1>7, <1>8, <1>9, Zenon DEF PingAt

\* A ping is read and answered.
LEMMA PingAtTaken ==
  ASSUME BusTypes, NEW n \in Nodes, PingAt(n), NEW k \in Nodes, EvTake(k),
         Head(rx[k]) \in PingFrames(n), Head(rx[k]).kind = "ping"
  PROVE  PingAt(n)'
<1> DEFINE f == Head(rx[k])
           F == PingFrames(n)
           r == Reply(f, k)
           old == Popped(k)
<1>1. /\ upset \subseteq upset' /\ f \in FramesFor(k) /\ rx[k] # <<>>
      /\ f.to = k /\ f.from = n /\ k # n /\ OnlyAt(k, ping, ping')
      /\ \A h \in Nodes : \/ rx'[h] = old[h]
                          \/ h = n /\ rx'[h] = Append(old[h], r)
      /\ "frame" \notin upset' => rx'[n] = Append(old[n], r)
  <2>1. /\ upset \subseteq upset' /\ f \in FramesFor(k) /\ rx[k] # <<>> /\ OnlyAt(k, ping, ping')
    BY EvTakeMeans
  <2>2. f.to = k /\ f.from = n /\ k # n
    BY <2>1 DEF FramesFor, PingFrames
  <2>3. /\ \A h \in Nodes : \/ rx'[h] = old[h]
                            \/ h = f.from /\ rx'[h] = Append(old[h], r)
        /\ "frame" \notin upset' => rx'[f.from] = Append(old[f.from], r)
    BY <2>2, EvTakeMeans
  <2> QED
    BY <2>1, <2>2, <2>3
<1>2. r \in BusFrames /\ r \in F /\ r.msg = f.msg
  BY <1>1, ReplyMeans DEF PingFrames
<1>3. OnePing(n) /\ NoPingLost(n) /\ Truth(ping[n], upset)
  BY Zenon DEF PingAt
<1>4. ping'[n] = ping[n]
  BY <1>1, Zenon DEF OnlyAt
<1>5. rx[k] \in Seq(BusFrames) /\ \A h \in Nodes : old[h] \in Seq(BusFrames)
  BY <1>1, RxSeq, PoppedHas, Zenon
<1>6. Has(rx[k], F)
  <2>1. Has(rx[k], F) <=> Has(Tail(rx[k]), F) \/ Head(rx[k]) \in F
    BY <1>1, <1>5, HasTail, Zenon
  <2> QED
    BY <2>1, Zenon
<1>7. ASSUME "latepong" \notin upset
      PROVE  /\ ping[n].pc # "idle" /\ ping[n].sem = 0 /\ f.msg = ping[n].round
             /\ \A h \in Nodes : ~Has(old[h], F)
  <2>1. PingRow(rx, ping[n], n)
    BY <1>3, <1>7, OnePingMeans, Zenon
  <2>2. ping[n].pc # "idle" /\ ping[n].sem = 0 /\ AtMostOne(rx[k], F) /\ ~Has(rx[k], StrayOf(n, ping[n].round))
        /\ \A h \in Nodes : Has(rx[h], F) => h = k
    BY <1>6, <2>1, Zenon DEF PingRow
  <2>3. f.msg = ping[n].round
    <3>1. f = rx[k][1] /\ 1 \in 1 .. Len(rx[k])
      BY <1>1, <1>5
    <3>2. rx[k][1] \in F => rx[k][1].msg = ping[n].round
      BY <2>2, <3>1 DEF Has, StrayOf
    <3> QED
      BY <3>1, <3>2
  <2>4. ASSUME NEW h \in Nodes PROVE ~Has(old[h], F)
    <3>1. /\ Has(old[h], F) => Has(rx[h], F)
          /\ AtMostOne(rx[h], F) /\ h = k /\ Head(rx[k]) \in F => ~Has(old[h], F)
      BY <1>1, PoppedHas, Zenon
    <3> QED
      BY <2>2, <3>1, Zenon
  <2> QED
    BY <2>2, <2>3, <2>4, Zenon
<1> HIDE DEF r, old
<1>8. ASSUME NEW h \in Nodes, NEW T, rx'[h] = Append(old[h], r)
      PROVE  /\ Has(rx'[h], T) <=> Has(old[h], T) \/ r \in T
             /\ AtMostOne(old[h], T) /\ ~Has(old[h], T) => AtMostOne(rx'[h], T)
  <2>1. Has(Append(old[h], r), T) <=> Has(old[h], T) \/ r \in T
    BY <1>2, <1>5, HasAppend, Zenon
  <2>2. AtMostOne(old[h], T) /\ ~Has(old[h], T) => AtMostOne(Append(old[h], r), T)
    BY <1>2, <1>5, AtMostOneAppend, Zenon
  <2> QED
    BY <1>8, <2>1, <2>2, Zenon
<1>9. OnePing(n)'
  <2>1. ASSUME "latepong" \notin upset'
        PROVE  PingRow(rx', ping[n], n)
    <3> DEFINE G == StrayOf(n, ping[n].round)
    <3>1. "latepong" \notin upset
      BY <1>1, <2>1
    <3>2. PingRow(rx, ping[n], n)
      BY <1>3, <3>1, OnePingMeans, Zenon
    <3>3. r \notin G
      BY <1>2, <1>7, <3>1 DEF StrayOf
    <3>4. ASSUME NEW h \in Nodes
          PROVE  /\ ~Has(old[h], F) /\ AtMostOne(old[h], F) /\ ~Has(old[h], G)
    <4>1. ~Has(old[h], F)
      BY <1>7, <3>1
    <4> QED
      BY <4>1 DEF Has, AtMostOne, StrayOf
    <3>5. ASSUME NEW h \in Nodes
          PROVE  /\ Has(rx'[h], F) => h = n
                 /\ AtMostOne(rx'[h], F) /\ ~Has(rx'[h], G)
      BY <1>1, <1>8, <3>3, <3>4, Zenon
    <3> QED
      BY <1>7, <3>1, <3>2, <3>5, Zenon DEF PingRow
  <2> QED
    BY <1>4, <2>1, OnePingMeans, Zenon
<1>10. NoPingLost(n)'
  <2>1. ASSUME upset' = {} PROVE upset = {} /\ Asked(n)'
    <3>1. upset = {} /\ "frame" \notin upset'
      BY <1>1, <2>1
    <3>2. Has(rx'[n], F)
      BY <1>1, <1>2, <1>8, <3>1, Zenon
    <3> QED
      BY <3>1, <3>2 DEF Asked, Has
  <2> QED
    BY <1>3, <1>4, <2>1, Zenon DEF NoPingLost
<1>11. Truth(ping'[n], upset')
  <2>1. (upset # {} => upset' # {}) /\ ("latepong" \in upset => "latepong" \in upset')
    BY <1>1
  <2>2. Truth(ping[n], upset')
    BY <1>3, <2>1, Zenon DEF Truth
  <2> QED
    BY <1>4, <2>2, Zenon
<1> QED
  BY <1>9, <1>10, <1>11, Zenon DEF PingAt

\* A ping is written.
LEMMA PingAtWrite ==
  ASSUME BusTypes, NEW n \in Nodes, PingAt(n), PingWrite(n)
  PROVE  PingAt(n)'
<1> DEFINE m == offered + 1
           F == PingFrames(n)
           P(h, d) == Append(rx[h], PingOf(n, d, m))
<1>1. m \in Ids /\ offered \in Nat
  BY PingWriteMeans, BusAssumption DEF BusTypes, GhostTypes
<1> HIDE DEF P
<1>2. /\ upset \subseteq upset' /\ ping[n].pc = "idle"
      /\ ping'[n].round = m /\ ping'[n].sem = ping[n].sem
      /\ \/ /\ ping'[n].pc = "clear"
            /\ \E d \in Nodes \ {n} :
                     /\ \A h \in Nodes : \/ rx'[h] = rx[h]
                                         \/ h = d /\ rx'[h] = P(h, d)
                     /\ "frame" \notin upset' => rx'[d] = P(d, d)
         \/ /\ "short" \in upset' /\ ping'[n].pc = "idle" /\ ~ping'[n].result /\ rx' = rx
  BY PingWriteMeans, Zenon DEF P
<1>3. OnePing(n) /\ NoPingLost(n)
  BY Zenon DEF PingAt
<1>4. ASSUME "latepong" \notin upset' PROVE ~Asked(n) /\ ping'[n].sem # 1
  <2>1. "latepong" \notin upset
    BY <1>2, <1>4
  <2>2. PingRow(rx, ping[n], n)
    BY <1>3, <2>1, OnePingMeans, Zenon
  <2> QED
    BY <1>2, <2>2, Zenon DEF PingRow, Asked
<1>5. CASE "short" \in upset' /\ ping'[n].pc = "idle" /\ ~ping'[n].result /\ rx' = rx
  <2>1. ping'[n].pc # "wait" /\ upset' # {}
    BY <1>5
  <2>2. OnePing(n)'
    <3>1. "latepong" \notin upset' => PingRow(rx, ping'[n], n)
      BY <1>4, <2>1, NoneAsked, Zenon
    <3> QED
      BY <1>5, <3>1, OnePingMeans, Zenon
  <2> QED
    BY <1>5, <2>1, <2>2, Zenon DEF PingAt, NoPingLost, Truth
<1>6. ASSUME NEW d \in Nodes \ {n}, ping'[n].pc = "clear",
             \A h \in Nodes : rx'[h] = rx[h] \/ (h = d /\ rx'[h] = P(h, d)),
             "frame" \notin upset' => rx'[d] = P(d, d)
      PROVE  PingAt(n)'
  <2> DEFINE f == PingOf(n, d, m)
  <2>1. f \in BusFrames /\ f.kind = "ping" /\ f.from = n /\ f.msg = m
    BY <1>1, PingOfMeans
  <2>2. \A h \in Nodes : P(h, d) = Append(rx[h], f)
    BY Zenon DEF P
  <2> HIDE DEF f
  <2>3. f \in F /\ f \notin StrayOf(n, m)
    BY <2>1 DEF PingFrames, StrayOf
  <2>4. ASSUME NEW h \in Nodes, NEW T
        PROVE  /\ Has(Append(rx[h], f), T) <=> Has(rx[h], T) \/ f \in T
               /\ AtMostOne(rx[h], T) /\ ~Has(rx[h], T) => AtMostOne(Append(rx[h], f), T)
    <3>1. rx[h] \in Seq(BusFrames)
      BY RxSeq, Zenon
    <3> QED
      BY <2>1, <3>1, HasAppend, AtMostOneAppend, Zenon
  <2>5. ping'[n].pc # "idle" /\ ping'[n].pc # "wait" /\ (ping'[n].sem # 1 => ping'[n].sem = 0)
    <3>1. ping'[n].sem \in {0, 1}
      BY PingWriteMeans DEF BusTypes, PingTypes, BusPings
    <3> QED
      BY <1>6, <3>1
  <2>6. OnePing(n)'
    <3>1. ASSUME "latepong" \notin upset' PROVE PingRow(rx', ping'[n], n)
      <4> DEFINE G == StrayOf(n, m)
      <4>1. ASSUME NEW h \in Nodes PROVE ~Has(rx[h], F) /\ AtMostOne(rx[h], F) /\ ~Has(rx[h], G)
        <5>1. ~Has(rx[h], F)
          BY <1>4, <3>1, Zenon DEF Asked
        <5> QED
          BY <5>1 DEF Has, AtMostOne, StrayOf
      <4> HIDE DEF F, G
      <4>2. f \in F /\ f \notin G
        BY <2>3, Zenon DEF F, G
      <4>3. ASSUME NEW h \in Nodes
            PROVE  (Has(rx'[h], F) => h = d) /\ AtMostOne(rx'[h], F) /\ ~Has(rx'[h], G)
        <5>1. CASE rx'[h] = rx[h]
          BY <4>1, <5>1, Zenon
        <5>2. CASE h = d /\ rx'[h] = Append(rx[h], f)
          <6>1. AtMostOne(Append(rx[h], f), F) /\ ~Has(Append(rx[h], f), G)
            BY <2>4, <4>1, <4>2, Zenon
          <6> QED
            BY <5>2, <6>1, Zenon
        <5> QED
          BY <1>6, <2>2, <5>1, <5>2, Zenon
      <4> USE DEF F, G
      <4>4. \A h \in Nodes : ~Has(rx'[h], StrayOf(n, ping'[n].round))
        BY <1>2, <4>3, Zenon
      <4>5. ping'[n].sem # 1 /\ ping'[n].sem = 0
        BY <1>4, <2>5, <3>1
      <4> QED
        BY <2>5, <4>3, <4>4, <4>5, Zenon DEF PingRow
    <3> QED
      BY <3>1, OnePingMeans, Zenon
  <2>7. NoPingLost(n)'
    <3>1. ASSUME upset' = {} PROVE Asked(n)' /\ ping'[n].sem # 1
      <4>1. "frame" \notin upset' /\ "latepong" \notin upset'
        BY <3>1
      <4>2. rx'[d] = Append(rx[d], f)
        BY <1>6, <2>2, <4>1, Zenon
      <4>3. Has(rx'[d], F)
        BY <2>3, <2>4, <4>2, Zenon
      <4> QED
        BY <1>4, <4>1, <4>3 DEF Asked, Has
    <3> QED
      BY <2>5, <3>1, Zenon DEF NoPingLost
  <2>8. Truth(ping'[n], upset')
    BY <2>5, Zenon DEF Truth
  <2> QED
    BY <2>6, <2>7, <2>8, Zenon DEF PingAt
<1> QED
  BY <1>2, <1>5, <1>6, Zenon

\* Every step keeps what is said of pings.
LEMMA BusPingStep == BusTypes /\ BusPingInv /\ BusNext => BusPingInv'
<1> SUFFICES ASSUME BusTypes, BusPingInv, BusNext, NEW n \in Pingers PROVE PingAt(n)'
  BY PingAtMeans, Zenon
<1>1. n \in Nodes /\ PingAt(n)
  BY PingAtMeans, BusAssumption
<1>2. PICK k \in Nodes :
         \/ BusSender(k) \/ BusSenderEnd(k)
         \/ TxReceive(k) \/ TxWrite(k) \/ TxClear(k) \/ TxAckWait(k)
         \/ TxCount(k) \/ TxGive(k)
         \/ EvTake(k) \/ EvDecode(k) \/ EvCallback(k) \/ CbRun(k)
         \/ PingWrite(k) \/ PingClear(k) \/ PingWait(k)
  BY Zenon DEF BusNext
<1>3. CASE \/ BusSender(k) \/ BusSenderEnd(k) \/ TxReceive(k) \/ TxClear(k) \/ TxAckWait(k)
           \/ TxCount(k) \/ TxGive(k) \/ EvDecode(k) \/ EvCallback(k) \/ CbRun(k)
  <2>1. rx' = rx /\ ping' = ping /\ upset \subseteq upset'
    BY <1>3 DEF BusSender, BusSenderEnd, TxReceive, TxClear, TxAckWait, TxCount, TxGive, TxOnly,
                EvDecode, EvCallback, CbRun, Upset
  <2>2. PingsStay(n) /\ ping'[n] = ping[n]
    BY <1>1, <2>1, PingsStaySame, Zenon
  <2> QED
    BY <1>1, <2>1, <2>2, PingAtKept, Zenon
<1>4. CASE TxWrite(k)
  <2>1. upset \subseteq upset' /\ ping'[n] = ping[n]
    BY <1>4, TxWriteMeans
  <2> QED
    BY <1>1, <1>4, <2>1, PingsStayWrite, PingAtKept, Zenon
<1>5. CASE EvTake(k) /\ Head(rx[k]) \notin PingFrames(n)
  <2> DEFINE f == Head(rx[k])
  <2>1. /\ upset \subseteq upset' /\ OnlyAt(k, ping, ping') /\ f \in FramesFor(k)
        /\ f.kind # "pong" => ping'[k] = ping[k]
    BY <1>5, EvTakeMeans
  <2>2. ping'[n] = ping[n]
    BY <1>1, <1>5, <2>1 DEF OnlyAt, FramesFor, PingFrames
  <2> QED
    BY <1>1, <1>5, <2>1, <2>2, PingsStayTake, PingAtKept, Zenon
<1>6. CASE EvTake(k) /\ Head(rx[k]) \in PingFrames(n)
  <2>1. Head(rx[k]) \in FramesFor(k)
    BY <1>6, EvTakeMeans
  <2>2. Head(rx[k]).kind = "ping" \/ (Head(rx[k]).kind = "pong" /\ k = n)
    BY <1>6, <2>1 DEF FramesFor, PingFrames
  <2> QED
    BY <1>1, <1>6, <2>2, PingAtTaken, PingAtPong, Zenon
<1>7. CASE (PingWrite(k) \/ PingClear(k) \/ PingWait(k)) /\ k = n
  BY <1>1, <1>7, PingAtWrite, PingAtClear, PingAtWait, Zenon
<1>8. CASE PingWrite(k) /\ k # n
  <2>1. upset \subseteq upset' /\ OnlyAt(k, ping, ping')
    BY <1>8, PingWriteMeans
  <2>2. PingsStay(n) /\ ping'[n] = ping[n]
    BY <1>1, <1>8, <2>1, PingsStayPing, Zenon DEF OnlyAt
  <2> QED
    BY <1>1, <2>1, <2>2, PingAtKept, Zenon
<1>9. CASE (PingClear(k) \/ PingWait(k)) /\ k # n
  <2>1. rx' = rx /\ upset \subseteq upset' /\ OnlyAt(k, ping, ping')
    BY <1>9, PingClearMeans, PingWaitMeans
  <2>2. PingsStay(n) /\ ping'[n] = ping[n]
    BY <1>1, <1>9, <2>1, PingsStaySame, Zenon DEF OnlyAt
  <2> QED
    BY <1>1, <2>1, <2>2, PingAtKept, Zenon
<1> QED
  BY <1>2, <1>3, <1>4, <1>5, <1>6, <1>7, <1>8, <1>9, Zenon

\* At the start no ping is under way.
LEMMA BusPingInit == BusInit => BusPingInv
<1> SUFFICES ASSUME BusInit, NEW n \in Pingers PROVE PingAt(n)
  BY PingAtMeans, Zenon
<1>1. n \in Nodes
  BY BusAssumption
<1>2. /\ ping[n].pc = "idle" /\ ping[n].round = 0 /\ ping[n].sem = 0
      /\ \A h \in Nodes : rx[h] = <<>>
  BY <1>1 DEF BusInit
<1>3. ~Asked(n)
  BY <1>2 DEF Asked, Has
<1>4. ping[n].sem # 1 /\ ping[n].pc # "wait" /\ ping[n].pc # "clear" /\ ~(ping[n].round > 0)
  BY <1>2
<1>5. OnePing(n)
  BY <1>1, <1>3, <1>4, NoneAsked, OnePingMeans, Zenon
<1> QED
  BY <1>2, <1>4, <1>5, Zenon DEF PingAt, NoPingLost, Truth

-----------------------------------------------------------------------------
(* The quiet bus: messages arrive whole.                                    *)

QuietBus == upset \subseteq {"early", "latepong", "lateack"}

\* One message of a device is under way at most.
OneCallOf(c, t) ==
    /\ t.pc = "count" => ~t.sended
    /\ IF c.pc = "idle"
       THEN c.sem = "null" /\ c.queue = <<>> /\ t.pc = "recv"
       ELSE \/ c.sem = "full" /\ c.queue = <<>> /\ t.pc = "recv"
            \/ c.sem = "empty" /\ c.queue = <<c.msg>> /\ t.pc = "recv"
            \/ c.sem = "empty" /\ c.queue = <<>> /\ t.pc # "recv" /\ t.msg = c.msg

\* The buffer of a message of t packets after w of them.
Filled(m, w, t) == [i \in 1 .. t |-> IF i <= w THEN m ELSE 0]

\* Packet g comes after packet f; or is the one that buffer d waits for.
Ensues(f, g) ==
    \/ g.pk = 1 /\ f.pk = f.total
    \/ g.pk = f.pk + 1 /\ g.msg = f.msg /\ g.total = f.total
FitsIn(d, g) ==
    \/ g.pk = 1 /\ IsWhole(d)
    \/ g.pk > 1 /\ d = Filled(g.msg, g.pk - 1, g.total)
Followers(e, d) == {g \in BusFrames : IF e.pc = "decode" THEN Ensues(e.frame, g) ELSE FitsIn(d, g)}
Pairs == {p \in BusFrames \X BusFrames : Ensues(p[1], p[2])}

\* From the buffer over the packet in hand to those not yet read, packets come
\* in the order of their messages.
StreamOf(q, e, d) ==
    /\ e.pc = "decode" => FitsIn(d, e.frame)
    /\ FirstIn(q, DataFrames, Followers(e, d))
    /\ Adjacent(q, DataFrames, Pairs)

\* The buffer is handed to one callback, which gives it back.
HandingOf(e, b) ==
    IF e.pc = "cbwait"
    THEN /\ e.frame.pk = e.frame.total
         /\ b.data = Filled(e.frame.msg, e.frame.total, e.frame.total)
         /\ b.cbsem + b.waitsem = 1
    ELSE b.cbsem = 0 /\ b.waitsem = 0

\* What a device got last is a frame of V; when nothing is left of it but the
\* buffer, B holds of that.
AtEnd(q, e, V, B) ==
    /\ LastIn(q, DataFrames, V)
    /\ ~Has(q, DataFrames) => IF e.pc = "decode" THEN e.frame \in V ELSE B
Wholes == {f \in BusFrames : f.pk = f.total}
Packet(m, w, t) == {f \in BusFrames : f.msg = m /\ f.pk = w /\ f.total = t}
EndsWhole(q, e, d) == AtEnd(q, e, Wholes, IsWhole(d))
EndsAfter(q, e, d, m, w, t) == AtEnd(q, e, Packet(m, w, t), d = Filled(m, w, t))

Addressed(m, k, h) == h # k /\ m.to \in {h, RS485_BROADCAST}
SentOf(t) == IF t.pc = "write" THEN t.pk - 1 ELSE t.pk
MidwayOf(t, k, h) == Writing(t) /\ SentOf(t) > 0 /\ Addressed(t.msg, k, h)
Ends(h) ==
    /\ (\A k \in Nodes : ~MidwayOf(tx[k], k, h)) => EndsWhole(rx[h], ev[h], buf[h].data)
    /\ \A k \in Nodes : MidwayOf(tx[k], k, h) =>
          EndsAfter(rx[h], ev[h], buf[h].data, tx[k].msg.id, SentOf(tx[k]), tx[k].msg.total)

\* Message m has come to a device with all its packets.
ReachedIn(H, e, b, q, m) ==
    \/ m \in {H[i].data[1] : i \in 1 .. Len(H)}
    \/ e.pc = "cbwait" /\ b.cbsem = 1 /\ e.frame.msg = m
    \/ e.pc = "decode" /\ e.frame \in Finals(m)
    \/ Has(q, Finals(m))
Reached(h, m) == ReachedIn(heard[h], ev[h], buf[h], rx[h], m)

Passed(t) == t.pc = "give" \/ (t.pc \in {"clear", "ackwait", "count"} /\ t.pk = t.msg.total)
Told(c, o) == c.sem = "full" \/ (c.msg.id # 0 /\ o[c.msg.id] = "ok")
Done(k) ==
    \A h \in Nodes :
        /\ Addressed(tx[k].msg, k, h) /\ Passed(tx[k]) => Reached(h, tx[k].msg.id)
        /\ Addressed(call[k].msg, k, h) /\ Told(call[k], outcome) => Reached(h, call[k].msg.id)

WholeHeard(H) == \A i \in 1 .. Len(H) : IsWhole(H[i].data)

QuietSent  == \A n \in Nodes : OneCallOf(call[n], tx[n]) /\ Done(n)
QuietHeard ==
    \A h \in Nodes : /\ StreamOf(rx[h], ev[h], buf[h].data) /\ HandingOf(ev[h], buf[h])
                     /\ Ends(h) /\ WholeHeard(heard[h])
QuietInv == QuietBus => QuietSent /\ QuietHeard

-----------------------------------------------------------------------------
(* Buffers.                                                                 *)

\* A buffer that is filled to the end is whole.
LEMMA FilledWhole ==
  ASSUME NEW m, m # 0, NEW t \in Nat \ {0}
  PROVE  IsWhole(Filled(m, t, t)) /\ Filled(m, t, t)[1] = m
BY DEF IsWhole, Filled

\* The packet a buffer waits for fills its place.
LEMMA PlacedFilled ==
  ASSUME NEW f \in DataFrames, NEW d, FitsIn(d, f)
  PROVE  Placed(d, f) = Filled(f.msg, f.pk, f.total) /\ Placed(d, f) # <<>>
<1>1. f.total \in Nat /\ f.pk \in 1 .. f.total /\ f.msg # 0
  BY BusAssumption DEF DataFrames, BusFrames, Ids
<1> DEFINE p == f.pk
           t == f.total
           m == f.msg
<1>2. ASSUME f.pk = 1 PROVE Placed(d, f) = Filled(m, p, t)
  <2>1. Placed(d, f) = [[i \in 1 .. t |-> 0] EXCEPT ![1] = m]
    BY <1>1, <1>2 DEF Placed
  <2>2. [[i \in 1 .. t |-> 0] EXCEPT ![1] = m] = [i \in 1 .. t |-> IF i <= 1 THEN m ELSE 0]
    BY <1>1, <1>2
  <2> QED
    BY <1>2, <2>1, <2>2 DEF Filled
<1>3. ASSUME f.pk > 1, d = Filled(m, p - 1, t) PROVE Placed(d, f) = Filled(m, p, t)
  <2>1. DOMAIN d = 1 .. t /\ ~(p = 1) /\ p \in 1 .. t
    BY <1>1, <1>3 DEF Filled
  <2>2. Placed(d, f) = [d EXCEPT ![p] = m]
    BY <2>1 DEF Placed
  <2>3. [d EXCEPT ![p] = m] = [i \in 1 .. t |-> IF i = p THEN m ELSE d[i]]
    BY <1>1, <2>1, <1>3 DEF Filled
  <2>4. \A i \in 1 .. t : (IF i = p THEN m ELSE d[i]) = IF i <= p THEN m ELSE 0
    BY <1>1, <1>3 DEF Filled
  <2>5. [i \in 1 .. t |-> IF i = p THEN m ELSE d[i]] = [i \in 1 .. t |-> IF i <= p THEN m ELSE 0]
    BY <2>4
  <2> QED
    BY <2>2, <2>3, <2>5 DEF Filled
<1>4. Filled(m, p, t) # <<>>
  <2>1. Filled(m, p, t)[1] = m /\ 1 \in 1 .. t /\ DOMAIN Filled(m, p, t) = 1 .. t
    BY <1>1 DEF Filled
  <2>2. DOMAIN <<>> = 1 .. 0
    OBVIOUS
  <2> QED
    BY <1>1, <2>1, <2>2
<1> QED
  BY <1>2, <1>3, <1>4, Zenon DEF FitsIn

\* What comes after a packet is what its buffer waits for.
LEMMA EnsuesFits ==
  ASSUME NEW f \in DataFrames, NEW g \in BusFrames, Ensues(f, g)
  PROVE  FitsIn(Filled(f.msg, f.pk, f.total), g)
<1>1. f.total \in Nat \ {0} /\ f.pk \in 1 .. f.total /\ f.msg # 0 /\ g.pk \in Nat
  BY BusAssumption DEF DataFrames, BusFrames, Ids
<1>2. CASE g.pk = 1 /\ f.pk = f.total
  <2>1. IsWhole(Filled(f.msg, f.total, f.total))
    BY <1>1, FilledWhole
  <2> QED
    BY <1>2, <2>1, Zenon DEF FitsIn
<1>3. CASE g.pk = f.pk + 1 /\ g.msg = f.msg /\ g.total = f.total
  <2>1. g.pk > 1 /\ g.pk - 1 = f.pk
    BY <1>1, <1>3
  <2> QED
    BY <1>3, <2>1, Zenon DEF FitsIn
<1> QED
  BY <1>2, <1>3 DEF Ensues

-----------------------------------------------------------------------------
(* The packets a device has before it, through the steps on them.           *)

\* A frame that is no packet comes in.
LEMMA StreamOther ==
  ASSUME NEW q \in Seq(BusFrames), NEW f \in BusFrames, f \notin DataFrames, NEW e, NEW d
  PROVE  /\ StreamOf(q, e, d) => StreamOf(Append(q, f), e, d)
         /\ \A V, B : AtEnd(q, e, V, B) => AtEnd(Append(q, f), e, V, B)
<1> DEFINE F == Followers(e, d)
           T == DataFrames
           R == Pairs
<1>1. LastIn(q, T, T)
  BY DEF LastIn
<1> HIDE DEF F, T, R
<1>2. f \notin T
  BY Zenon DEF T
<1>3. FirstIn(q, T, F) => FirstIn(Append(q, f), T, F)
  BY <1>2, FirstInAppend, Zenon
<1>4. Adjacent(q, T, R) => Adjacent(Append(q, f), T, R)
  BY <1>1, <1>2, AdjacentAppend, Zenon
<1>5. \A V : LastIn(q, T, V) => LastIn(Append(q, f), T, V)
  BY <1>2, LastInAppend, Zenon
<1>6. Has(Append(q, f), T) <=> Has(q, T)
  BY <1>2, HasAppend, Zenon
<1> QED
  BY <1>3, <1>4, <1>5, <1>6, Zenon DEF StreamOf, AtEnd, F, T, R

\* The packet that is awaited comes in.
LEMMA StreamPut ==
  ASSUME NEW q \in Seq(BusFrames), NEW f \in DataFrames, NEW e, NEW d, NEW V, NEW B, NEW W,
         StreamOf(q, e, d), AtEnd(q, e, V, B), f \in W,
         \A g \in V : <<g, f>> \in Pairs,
         e.pc = "decode" => (e.frame \in V => Ensues(e.frame, f)),
         e.pc # "decode" => (B => FitsIn(d, f))
  PROVE  /\ StreamOf(Append(q, f), e, d)
         /\ \A C : AtEnd(Append(q, f), e, W, C)
<1> DEFINE F == Followers(e, d)
           T == DataFrames
           R == Pairs
<1>1. f \in BusFrames /\ f \in T
  BY DEF DataFrames
<1>2. ~Has(q, T) => f \in F
  BY <1>1, Zenon DEF AtEnd, Followers
<1>3. LastIn(q, T, V) /\ FirstIn(q, T, F) /\ Adjacent(q, T, R) /\ \A g \in V : <<g, f>> \in R
  BY Zenon DEF AtEnd, StreamOf
<1> HIDE DEF F, T, R
<1>4. FirstIn(Append(q, f), T, F)
  BY <1>1, <1>2, <1>3, FirstInAppend, Zenon
<1>5. Adjacent(Append(q, f), T, R)
  BY <1>1, <1>3, AdjacentAppend, Zenon
<1>6. LastIn(Append(q, f), T, W)
  BY <1>1, LastInAppend, Zenon
<1>7. Has(Append(q, f), T)
  BY <1>1, HasAppend, Zenon
<1> QED
  BY <1>4, <1>5, <1>6, <1>7, Zenon DEF StreamOf, AtEnd, F, T, R

\* A frame that is no packet is read.
LEMMA StreamTail ==
  ASSUME NEW q \in Seq(BusFrames), q # <<>>, Head(q) \notin DataFrames, NEW e, NEW d
  PROVE  /\ StreamOf(q, e, d) => StreamOf(Tail(q), e, d)
         /\ \A V, B : AtEnd(q, e, V, B) => AtEnd(Tail(q), e, V, B)
<1> DEFINE F == Followers(e, d)
           T == DataFrames
           R == Pairs
<1>1. Head(q) \notin T
  BY Zenon DEF T
<1> HIDE DEF F, T, R
<1>2. FirstIn(q, T, F) => FirstIn(Tail(q), T, F)
  BY <1>1, FirstInTail, Zenon
<1>3. Adjacent(q, T, R) => Adjacent(Tail(q), T, R)
  BY AdjacentTail, Zenon
<1>4. \A V : LastIn(q, T, V) => LastIn(Tail(q), T, V)
  BY LastInTail, Zenon
<1>5. Has(q, T) <=> Has(Tail(q), T)
  BY <1>1, HasTail, Zenon
<1> QED
  BY <1>2, <1>3, <1>4, <1>5, Zenon DEF StreamOf, AtEnd, F, T, R

\* A packet is read.
LEMMA StreamTake ==
  ASSUME NEW q \in Seq(BusFrames), q # <<>>, Head(q) \in DataFrames, NEW e, NEW d, NEW x,
         e.pc # "decode", x.pc = "decode", x.frame = Head(q)
  PROVE  /\ StreamOf(q, e, d) => StreamOf(Tail(q), x, d)
         /\ \A V, B : AtEnd(q, e, V, B) => AtEnd(Tail(q), x, V, B)
<1> DEFINE F == Followers(e, d)
           G == Followers(x, d)
           T == DataFrames
           R == Pairs
           U == {g \in BusFrames : <<Head(q), g>> \in R}
<1>1. Head(q) \in T
  BY Zenon DEF T
<1>2. \A g \in T : g \in U => g \in G
  BY DEF Pairs, Followers
<1>3. Head(q) \in F => FitsIn(d, x.frame)
  BY DEF Followers
<1> HIDE DEF F, G, T, R
<1>4. /\ Adjacent(q, T, R) => Adjacent(Tail(q), T, R)
      /\ Adjacent(q, T, R) /\ Head(q) \in T => FirstIn(Tail(q), T, U)
  <2>1. Head(q) \in T
    BY <1>1
  <2>2. ASSUME Adjacent(q, T, R) PROVE FirstIn(Tail(q), T, {g \in BusFrames : <<Head(q), g>> \in R})
    BY <2>1, <2>2, AdjacentTail
  <2>3. Adjacent(q, T, R) => Adjacent(Tail(q), T, R)
    BY AdjacentTail, Zenon
  <2> QED
    BY <2>2, <2>3
<1> HIDE DEF U
<1>5. FirstIn(q, T, F) => Head(q) \in F
  BY <1>1, FirstInTail, Zenon
<1>6. FirstIn(Tail(q), T, U) => FirstIn(Tail(q), T, G)
  BY <1>2, FirstLastWeaker, Zenon
<1>7. \A V : LastIn(q, T, V) => LastIn(Tail(q), T, V) /\ (~Has(Tail(q), T) => Head(q) \in V)
  BY <1>1, LastInTail, Zenon
<1> QED
  BY <1>1, <1>3, <1>4, <1>5, <1>6, <1>7, Zenon DEF StreamOf, AtEnd, F, G, T, R

\* The packet in hand is put into its place.
LEMMA StreamDecode ==
  ASSUME NEW q, NEW e, NEW d, NEW x, NEW b, e.pc = "decode", e.frame \in DataFrames, x.pc # "decode",
         b = Filled(e.frame.msg, e.frame.pk, e.frame.total), StreamOf(q, e, d)
  PROVE  /\ StreamOf(q, x, b)
         /\ EndsWhole(q, e, d) => EndsWhole(q, x, b)
         /\ \A m, w, t : EndsAfter(q, e, d, m, w, t) => EndsAfter(q, x, b, m, w, t)
<1> DEFINE f == e.frame
<1>1. \A g \in DataFrames : g \in Followers(e, d) => g \in Followers(x, b)
  BY EnsuesFits, Zenon DEF Followers, DataFrames
<1>2. FirstIn(q, DataFrames, Followers(e, d)) => FirstIn(q, DataFrames, Followers(x, b))
  BY <1>1, FirstLastWeaker, Zenon
<1>3. StreamOf(q, x, b)
  BY <1>2, Zenon DEF StreamOf
<1>4. f \in Wholes => IsWhole(b)
  <2>1. f.total \in Nat \ {0} /\ f.msg # 0
    BY BusAssumption DEF DataFrames, BusFrames, Ids
  <2>2. IsWhole(Filled(f.msg, f.total, f.total))
    BY <2>1, FilledWhole
  <2> QED
    BY <2>2, Zenon DEF Wholes
<1>5. \A m, w, t : f \in Packet(m, w, t) => b = Filled(m, w, t)
  BY DEF Packet
<1> QED
  BY <1>3, <1>4, <1>5, Zenon DEF EndsWhole, EndsAfter, AtEnd

\* After the last packet the message is whole.
LEMMA EndsFull ==
  ASSUME NEW q, NEW e, NEW d, NEW m, m # 0, NEW t \in Nat \ {0}, EndsAfter(q, e, d, m, t, t)
  PROVE  EndsWhole(q, e, d)
<1>1. \A f : f \in Packet(m, t, t) => f \in Wholes
  BY DEF Packet, Wholes
<1>2. IsWhole(Filled(m, t, t))
  BY FilledWhole
<1>3. LastIn(q, DataFrames, Packet(m, t, t)) => LastIn(q, DataFrames, Wholes)
  BY <1>1, FirstLastWeaker, Zenon
<1> QED
  BY <1>1, <1>2, <1>3, Zenon DEF EndsAfter, EndsWhole, AtEnd

-----------------------------------------------------------------------------
(* The quiet bus: a device that receives.                                   *)

AtHome(h) == StreamOf(rx[h], ev[h], buf[h].data) /\ HandingOf(ev[h], buf[h]) /\ WholeHeard(heard[h])

\* A step keeps what device h has in order, and takes nothing back.
Keeps(h) ==
    /\ StreamOf(rx'[h], ev'[h], buf'[h].data) /\ HandingOf(ev'[h], buf'[h]) /\ WholeHeard(heard'[h])
    /\ EndsWhole(rx[h], ev[h], buf[h].data) => EndsWhole(rx'[h], ev'[h], buf'[h].data)
    /\ \A m, w, t : EndsAfter(rx[h], ev[h], buf[h].data, m, w, t)
                    => EndsAfter(rx'[h], ev'[h], buf'[h].data, m, w, t)
    /\ \A m : Reached(h, m) => ReachedIn(heard'[h], ev'[h], buf'[h], rx'[h], m)

\* A device to which nothing happens.
LEMMA KeepsSame ==
  ASSUME NEW h, AtHome(h), rx'[h] = rx[h], ev'[h] = ev[h], buf'[h] = buf[h], heard'[h] = heard[h]
  PROVE  Keeps(h)
BY Zenon DEF Keeps, AtHome, Reached

\* An answer or a ping comes in.
LEMMA KeepsOther ==
  ASSUME NEW h, AtHome(h), rx[h] \in Seq(BusFrames), NEW f \in BusFrames, f \notin DataFrames,
         rx'[h] = Append(rx[h], f), ev'[h] = ev[h], buf'[h] = buf[h], heard'[h] = heard[h]
  PROVE  Keeps(h)
<1> DEFINE q == Append(rx[h], f)
<1>1. /\ StreamOf(rx[h], ev[h], buf[h].data) => StreamOf(q, ev[h], buf[h].data)
      /\ \A V, B : AtEnd(rx[h], ev[h], V, B) => AtEnd(q, ev[h], V, B)
  BY StreamOther, Zenon
<1>2. \A m : Has(rx[h], Finals(m)) => Has(q, Finals(m))
  BY HasAppend, Zenon
<1> HIDE DEF q
<1>3. ASSUME NEW m, Reached(h, m) PROVE ReachedIn(heard[h], ev[h], buf[h], q, m)
  BY <1>2, <1>3, Zenon DEF Reached, ReachedIn
<1>4. rx'[h] = q
  BY DEF q
<1> QED
  BY <1>1, <1>3, <1>4, Zenon DEF Keeps, AtHome, EndsWhole, EndsAfter

\* The event task takes a frame.
LEMMA KeepsTake ==
  ASSUME BusTypes, NEW n \in Nodes, EvTake(n), AtHome(n)
  PROVE  Keeps(n)
<1> DEFINE f == Head(rx[n])
           q == Tail(rx[n])
<1>1. /\ UNCHANGED <<buf, heard>> /\ ev[n].pc = "recv" /\ rx[n] # <<>> /\ f \in FramesFor(n)
      /\ rx'[n] = Popped(n)[n]
      /\ IF f.kind = "data" THEN ev'[n].pc = "decode" /\ ev'[n].frame = f ELSE ev'[n] = ev[n]
  BY EvTakeMeans
<1>2. rx'[n] = q /\ rx[n] \in Seq(BusFrames)
  BY <1>1, PoppedMeans, Zenon
<1>3. f \in BusFrames
  BY <1>1 DEF FramesFor
<1>4. \A m : Has(rx[n], Finals(m)) => Has(q, Finals(m)) \/ f \in Finals(m)
  BY <1>1, <1>2, HasTail, Zenon
<1>5. CASE f.kind = "data"
  <2>1. ev[n].pc # "decode" /\ ev[n].pc # "cbwait" /\ ev'[n].pc # "cbwait" /\ f \in DataFrames
    BY <1>1, <1>3, <1>5 DEF DataFrames
  <2>2. ev'[n].pc = "decode" /\ ev'[n].frame = f
    BY <1>1, <1>5
  <2>3. /\ StreamOf(rx[n], ev[n], buf[n].data) => StreamOf(q, ev'[n], buf[n].data)
        /\ \A V, B : AtEnd(rx[n], ev[n], V, B) => AtEnd(q, ev'[n], V, B)
    BY <1>1, <1>2, <2>1, <2>2, StreamTake, Zenon
  <2> HIDE DEF f, q
  <2>4. ASSUME NEW m, Reached(n, m) PROVE ReachedIn(heard[n], ev'[n], buf[n], q, m)
    BY <1>4, <2>1, <2>2, <2>4, Zenon DEF Reached, ReachedIn
  <2>5. HandingOf(ev[n], buf[n]) => HandingOf(ev'[n], buf[n])
    BY <2>1, Zenon DEF HandingOf
  <2>6. buf'[n] = buf[n] /\ heard'[n] = heard[n]
    BY <1>1
  <2> QED
    BY <1>2, <2>3, <2>4, <2>5, <2>6, Zenon DEF Keeps, AtHome, EndsWhole, EndsAfter
<1>6. CASE f.kind # "data"
  <2>1. f \notin DataFrames /\ \A m : f \notin Finals(m)
    BY <1>6 DEF DataFrames, Finals
  <2>2. ev'[n] = ev[n] /\ buf'[n] = buf[n] /\ heard'[n] = heard[n]
    BY <1>1, <1>6
  <2>3. /\ StreamOf(rx[n], ev[n], buf[n].data) => StreamOf(q, ev[n], buf[n].data)
        /\ \A V, B : AtEnd(rx[n], ev[n], V, B) => AtEnd(q, ev[n], V, B)
    BY <1>1, <1>2, <2>1, StreamTail, Zenon
  <2> HIDE DEF f, q
  <2>4. ASSUME NEW m, Reached(n, m) PROVE ReachedIn(heard[n], ev[n], buf[n], q, m)
    BY <1>4, <2>1, <2>4, Zenon DEF Reached, ReachedIn
  <2> QED
    BY <1>2, <2>2, <2>3, <2>4, Zenon DEF Keeps, AtHome, EndsWhole, EndsAfter
<1> QED
  BY <1>5, <1>6, Zenon

\* The event task puts a packet into the buffer.
LEMMA KeepsDecode ==
  ASSUME BusTypes, NEW n \in Nodes, EvDecode(n), AtHome(n)
  PROVE  Keeps(n)
<1> DEFINE f == ev[n].frame
<1>1. /\ rx' = rx /\ heard' = heard /\ ev[n].pc = "decode" /\ f \in DataFrames
      /\ buf'[n].data = Placed(buf[n].data, f) /\ buf'[n].waitsem = buf[n].waitsem
      /\ IF Placed(buf[n].data, f) # <<>> /\ f.pk = f.total
         THEN /\ buf'[n].cbsem = 1
              /\ ev'[n].pc = "cbwait" /\ ev'[n].frame = f
         ELSE buf'[n].cbsem = buf[n].cbsem /\ ev'[n].pc = "recv"
  BY EvDecodeMeans
<1>2. StreamOf(rx[n], ev[n], buf[n].data) /\ FitsIn(buf[n].data, f) /\ HandingOf(ev[n], buf[n]) /\ WholeHeard(heard[n])
  BY <1>1, Zenon DEF AtHome, StreamOf
<1>3. Placed(buf[n].data, f) = Filled(f.msg, f.pk, f.total) /\ Placed(buf[n].data, f) # <<>>
  BY <1>1, <1>2, PlacedFilled, Zenon
<1>4. ev'[n].pc # "decode" /\ buf'[n].data = Filled(f.msg, f.pk, f.total)
  <2>1. CASE f.pk = f.total
    BY <1>1, <1>3, <2>1
  <2>2. CASE f.pk # f.total
    BY <1>1, <1>3, <2>2
  <2> QED
    BY <2>1, <2>2
<1>5. /\ StreamOf(rx[n], ev'[n], buf'[n].data)
      /\ EndsWhole(rx[n], ev[n], buf[n].data) => EndsWhole(rx[n], ev'[n], buf'[n].data)
      /\ \A m, w, t : EndsAfter(rx[n], ev[n], buf[n].data, m, w, t) => EndsAfter(rx[n], ev'[n], buf'[n].data, m, w, t)
  <2> DEFINE e == ev[n]
             d == buf[n].data
             x == ev'[n]
             b == buf'[n].data
  <2>1. /\ e.pc = "decode" /\ e.frame \in DataFrames /\ x.pc # "decode"
        /\ b = Filled(e.frame.msg, e.frame.pk, e.frame.total) /\ StreamOf(rx[n], e, d)
    BY <1>1, <1>2, <1>4, Zenon
  <2> HIDE DEF e, d, x, b
  <2>2. /\ StreamOf(rx[n], x, b)
        /\ EndsWhole(rx[n], e, d) => EndsWhole(rx[n], x, b)
        /\ \A m, w, t : EndsAfter(rx[n], e, d, m, w, t) => EndsAfter(rx[n], x, b, m, w, t)
    BY <2>1, StreamDecode
  <2> QED
    BY <2>2, Zenon DEF e, d, x, b
<1>6. buf[n].cbsem = 0 /\ buf[n].waitsem = 0
  <2>1. ev[n].pc # "cbwait"
    BY <1>1
  <2> QED
    BY <1>2, <2>1, Zenon DEF HandingOf
<1>7. HandingOf(ev'[n], buf'[n])
  <2>1. CASE f.pk = f.total
    <3>1. /\ buf'[n].cbsem = 1 /\ buf'[n].waitsem = 0 /\ ev'[n].pc = "cbwait" /\ ev'[n].frame = f
          /\ buf'[n].data = Filled(f.msg, f.total, f.total)
      BY <1>1, <1>3, <1>4, <1>6, <2>1
    <3> HIDE DEF f
    <3> QED
      BY <2>1, <3>1 DEF HandingOf
  <2>2. CASE f.pk # f.total
    <3>1. buf'[n].cbsem = 0 /\ buf'[n].waitsem = 0 /\ ev'[n].pc # "cbwait"
      BY <1>1, <1>6, <2>2
    <3> QED
      BY <3>1, Zenon DEF HandingOf
  <2> QED
    BY <2>1, <2>2
<1>8. ASSUME NEW m, f \in Finals(m) PROVE ev'[n].pc = "cbwait" /\ buf'[n].cbsem = 1 /\ ev'[n].frame.msg = m
  BY <1>1, <1>3, <1>8 DEF Finals
<1>9. ev[n].pc # "cbwait"
  BY <1>1
<1> HIDE DEF f
<1>10. ASSUME NEW m, Reached(n, m) PROVE ReachedIn(heard[n], ev'[n], buf'[n], rx[n], m)
  BY <1>8, <1>9, <1>10, Zenon DEF Reached, ReachedIn, f
<1>11. rx'[n] = rx[n] /\ heard'[n] = heard[n]
  BY <1>1
<1> QED
  BY <1>2, <1>5, <1>7, <1>10, <1>11, Zenon DEF Keeps

\* The event task goes on after the callback.
LEMMA KeepsCallback ==
  ASSUME BusTypes, NEW n \in Nodes, EvCallback(n), "callback" \notin upset', AtHome(n)
  PROVE  Keeps(n)
<1>1. /\ rx'[n] = rx[n] /\ heard'[n] = heard[n] /\ ev[n].pc = "cbwait" /\ ev'[n].pc = "recv" /\ buf[n].waitsem = 1
      /\ buf'[n].waitsem = 0 /\ buf'[n].cbsem = buf[n].cbsem /\ buf'[n].data = buf[n].data
  BY EvCallbackMeans
<1>2. buf[n].cbsem = 0
  <2>1. buf[n].cbsem + buf[n].waitsem = 1
    BY <1>1, Zenon DEF AtHome, HandingOf
  <2>2. buf[n].cbsem \in {0, 1}
    BY DEF BusTypes, BufTypes, BusBufs
  <2> QED
    BY <1>1, <2>1, <2>2
<1>3. HandingOf(ev'[n], buf'[n])
  BY <1>1, <1>2 DEF HandingOf
<1>4. ev[n].pc # "decode" /\ ev'[n].pc # "decode" /\ buf[n].cbsem # 1
  BY <1>1, <1>2
<1>5. \A d : Followers(ev'[n], d) = Followers(ev[n], d)
  BY <1>4 DEF Followers
<1>6. \A q, d : StreamOf(q, ev[n], d) => StreamOf(q, ev'[n], d)
  BY <1>4, <1>5, Zenon DEF StreamOf
<1>7. \A q, V, B : AtEnd(q, ev[n], V, B) => AtEnd(q, ev'[n], V, B)
  BY <1>4, Zenon DEF AtEnd
<1>8. ASSUME NEW m, Reached(n, m) PROVE ReachedIn(heard[n], ev'[n], buf'[n], rx[n], m)
  BY <1>4, <1>8, Zenon DEF Reached, ReachedIn
<1> QED
  BY <1>1, <1>3, <1>6, <1>7, <1>8, Zenon DEF Keeps, AtHome, EndsWhole, EndsAfter

\* The callback takes the buffer.
LEMMA KeepsRun ==
  ASSUME BusTypes, NEW n \in Nodes, CbRun(n), AtHome(n)
  PROVE  Keeps(n)
<1> DEFINE f == ev[n].frame
<1>1. /\ rx' = rx /\ ev' = ev /\ buf[n].cbsem = 1 /\ buf'[n].cbsem = 0 /\ buf'[n].waitsem = 1
      /\ buf'[n].data = buf[n].data /\ heard[n] \in Seq(BusHeard)
  BY CbRunMeans
<1>2. PICK r \in BusHeard : r.data = buf[n].data /\ heard'[n] = Append(heard[n], r)
  BY CbRunMeans
<1>3. HandingOf(ev[n], buf[n]) /\ buf[n].cbsem # 0
  BY <1>1 DEF AtHome
<1>4. /\ ev[n].pc = "cbwait" /\ f.pk = f.total /\ buf[n].data = Filled(f.msg, f.total, f.total)
      /\ buf[n].cbsem + buf[n].waitsem = 1
  BY <1>3, Zenon DEF HandingOf
<1>5. f.total \in Nat \ {0} /\ f.msg # 0
  <2>1. f \in DataFrames
    BY <1>4 DEF BusTypes, EvTypes, BusEvs
  <2> QED
    BY <2>1, BusAssumption DEF DataFrames, BusFrames, Ids
<1>6. IsWhole(buf[n].data) /\ buf[n].data[1] = f.msg
  BY <1>4, <1>5, FilledWhole
<1>7. /\ Len(heard'[n]) = Len(heard[n]) + 1 /\ Len(heard[n]) \in Nat
      /\ heard'[n][Len(heard[n]) + 1] = r
      /\ \A i \in 1 .. Len(heard[n]) : heard'[n][i] = heard[n][i]
  BY <1>1, <1>2, AppendFacts
<1>8. /\ \A i \in 1 .. Len(heard'[n]) : i \in 1 .. Len(heard[n]) \/ i = Len(heard[n]) + 1
      /\ \A i \in 1 .. Len(heard[n]) : i \in 1 .. Len(heard'[n])
      /\ Len(heard[n]) + 1 \in 1 .. Len(heard'[n])
  BY <1>7
<1>9. WholeHeard(heard'[n])
  <2>1. \A i \in 1 .. Len(heard[n]) : IsWhole(heard[n][i].data)
    BY Zenon DEF AtHome, WholeHeard
  <2>2. IsWhole(r.data)
    BY <1>2, <1>6
  <2> QED
    BY <1>7, <1>8, <2>1, <2>2, Zenon DEF WholeHeard
<1>10. /\ f.msg \in {heard'[n][i].data[1] : i \in 1 .. Len(heard'[n])}
       /\ \A m : m \in {heard[n][i].data[1] : i \in 1 .. Len(heard[n])}
                 => m \in {heard'[n][i].data[1] : i \in 1 .. Len(heard'[n])}
  <2>1. heard'[n][Len(heard[n]) + 1].data[1] = f.msg
    BY <1>2, <1>6, <1>7
  <2>2. f.msg \in {heard'[n][i].data[1] : i \in 1 .. Len(heard'[n])}
    BY <1>8, <2>1
  <2>3. \A i \in 1 .. Len(heard[n]) : heard'[n][i].data[1] = heard[n][i].data[1] /\ i \in 1 .. Len(heard'[n])
    BY <1>7, <1>8
  <2> QED
    BY <2>2, <2>3
<1>11. HandingOf(ev'[n], buf'[n])
  <2>1. ev'[n] = ev[n] /\ buf'[n].cbsem + buf'[n].waitsem = 1
    BY <1>1
  <2> QED
    BY <1>1, <1>4, <2>1, Zenon DEF HandingOf
<1>12. ev[n].pc # "decode"
  BY <1>4
<1> HIDE DEF f
<1>13. ASSUME NEW m, Reached(n, m) PROVE ReachedIn(heard'[n], ev'[n], buf'[n], rx'[n], m)
  BY <1>1, <1>10, <1>12, <1>13, Zenon DEF Reached, ReachedIn, f
<1>14. rx'[n] = rx[n] /\ ev'[n] = ev[n]
  BY <1>1
<1> QED
  BY <1>1, <1>9, <1>11, <1>13, <1>14, Zenon DEF Keeps, AtHome

-----------------------------------------------------------------------------
(* The quiet bus: a packet is written.                                      *)

\* A step brings device h the packet of device k.
Puts(k, h) ==
    /\ StreamOf(rx'[h], ev'[h], buf'[h].data) /\ HandingOf(ev'[h], buf'[h]) /\ WholeHeard(heard'[h])
    /\ EndsAfter(rx'[h], ev'[h], buf'[h].data, tx[k].msg.id, tx[k].pk, tx[k].msg.total)
    /\ \A m : Reached(h, m) => ReachedIn(heard'[h], ev'[h], buf'[h], rx'[h], m)
    /\ tx[k].pk = tx[k].msg.total => ReachedIn(heard'[h], ev'[h], buf'[h], rx'[h], tx[k].msg.id)

\* Where nobody else sends to h, nobody else is in the middle of a message to it.
LEMMA AloneMidway ==
  ASSUME BusTypes, NEW k \in Nodes, NEW f \in DataFrames, f.from = k, ~Crossed(f),
         NEW h \in Hearers(f), NEW j \in Nodes, j # k
  PROVE  ~MidwayOf(tx[j], j, h)
<1> SUFFICES ASSUME MidwayOf(tx[j], j, h) PROVE FALSE
  OBVIOUS
<1> DEFINE g == [f EXCEPT !.from = j, !.to = tx[j].msg.to]
<1>1. f.kind = "data" /\ tx[j].pc # "recv" /\ h \in Nodes /\ h # j /\ tx[j].msg.to \in {h, RS485_BROADCAST}
  BY DEF DataFrames, MidwayOf, Writing, Addressed, Hearers
<1>2. g.from = j /\ g.to = tx[j].msg.to
  BY DEF DataFrames, BusFrames
<1>3. h \in Hearers(g)
  BY <1>1, <1>2 DEF Hearers
<1>4. j \in Nodes \ {f.from}
  OBVIOUS
<1> QED
  BY <1>1, <1>3, <1>4 DEF Crossed

\* The packet before decides what device h is ready for.
LEMMA PutsPacket ==
  ASSUME BusTypes, NEW k \in Nodes, tx[k].pc = "write", ~Crossed(Frame(k)),
         NEW h \in Hearers(Frame(k)), AtHome(h), Ends(h),
         rx'[h] = Append(rx[h], Frame(k)), ev'[h] = ev[h], buf'[h] = buf[h], heard'[h] = heard[h]
  PROVE  Puts(k, h)
<1> DEFINE f == Frame(k)
           q == rx[h]
           e == ev[h]
           d == buf[h].data
           m == tx[k].msg.id
           t == tx[k].msg.total
           w == tx[k].pk
           W == Packet(m, w, t)
<1>1. /\ f \in DataFrames /\ f.from = k /\ f.to = tx[k].msg.to /\ f.msg = m /\ f.total = t /\ f.pk = w
      /\ tx[k].msg \in BusMsgs /\ w \in 1 .. t
  BY FrameMeans
<1>2. h \in Nodes /\ q \in Seq(BusFrames) /\ t \in Nat /\ w \in Nat /\ f \in BusFrames
  <2>1. h \in Nodes
    BY DEF Hearers
  <2> QED
    BY <1>1, <2>1, RxSeq DEF DataFrames, BusMsgs
<1>3. Addressed(tx[k].msg, k, h)
  BY <1>1 DEF Hearers, Addressed
<1>4. \A j \in Nodes : j # k => ~MidwayOf(tx[j], j, h)
  BY <1>1, AloneMidway, Zenon
<1>5. SentOf(tx[k]) = w - 1 /\ Writing(tx[k])
  BY DEF SentOf, Writing
<1>6. f \in W
  BY <1>1, <1>2 DEF Packet
<1>7. /\ StreamOf(Append(q, f), e, d)
      /\ EndsAfter(Append(q, f), e, d, m, w, t)
  <2>1. StreamOf(q, e, d)
    BY Zenon DEF AtHome
  <2>2. CASE w = 1
    <3>1. ~MidwayOf(tx[k], k, h)
      BY <1>5, <2>2 DEF MidwayOf
    <3>2. AtEnd(q, e, Wholes, IsWhole(d))
      BY <1>4, <3>1, Zenon DEF Ends, EndsWhole
    <3>3. \A g \in Wholes : <<g, f>> \in Pairs
      BY <1>1, <1>2, <2>2 DEF Pairs, Wholes, Ensues
    <3>4. e.frame \in Wholes => Ensues(e.frame, f)
      BY <1>1, <2>2 DEF Wholes, Ensues
    <3>5. IsWhole(d) => FitsIn(d, f)
      BY <1>1, <2>2, Zenon DEF FitsIn
    <3> DEFINE B == IsWhole(d)
               V == Wholes
    <3> HIDE DEF f, q, e, d, W, B, V
    <3>6. /\ StreamOf(q, e, d) /\ AtEnd(q, e, V, B) /\ (\A g \in V : <<g, f>> \in Pairs)
          /\ (e.frame \in V => Ensues(e.frame, f)) /\ (B => FitsIn(d, f))
      BY <2>1, <3>2, <3>3, <3>4, <3>5, Zenon DEF B, V
    <3>7. /\ StreamOf(Append(q, f), e, d)
          /\ \A C : AtEnd(Append(q, f), e, W, C)
      BY <1>1, <1>2, <1>6, <3>6, StreamPut, Zenon
    <3> QED
      BY <3>7, Zenon DEF EndsAfter, W
  <2>3. CASE w # 1
    <3>1. MidwayOf(tx[k], k, h) /\ w > 1
      BY <1>1, <1>2, <1>3, <1>5, <2>3 DEF MidwayOf
    <3> DEFINE V == Packet(m, w - 1, t)
               B == (d = Filled(m, w - 1, t))
    <3>2. AtEnd(q, e, V, B)
      BY <1>5, <3>1, Zenon DEF Ends, EndsAfter
    <3>3. \A g \in V : Ensues(g, f) /\ <<g, f>> \in Pairs
      BY <1>1, <1>2, <3>1 DEF Pairs, Packet, Ensues
    <3>4. B => FitsIn(d, f)
      BY <1>1, <1>2, <3>1, Zenon DEF FitsIn
    <3> HIDE DEF f, q, e, d, W, B, V
    <3>6. /\ StreamOf(q, e, d) /\ AtEnd(q, e, V, B) /\ (\A g \in V : <<g, f>> \in Pairs)
          /\ (e.frame \in V => Ensues(e.frame, f)) /\ (B => FitsIn(d, f))
      BY <2>1, <3>2, <3>3, <3>4, Zenon
    <3>7. /\ StreamOf(Append(q, f), e, d)
          /\ \A C : AtEnd(Append(q, f), e, W, C)
      BY <1>1, <1>2, <1>6, <3>6, StreamPut, Zenon
    <3> QED
      BY <3>7, Zenon DEF EndsAfter, W
  <2> QED
    BY <2>2, <2>3
<1>8. \A x : Has(Append(q, f), Finals(x)) <=> Has(q, Finals(x)) \/ f \in Finals(x)
  BY <1>2, HasAppend, Zenon
<1>9. w = t => f \in Finals(m)
  BY <1>1, <1>2 DEF Finals, DataFrames
<1> HIDE DEF f, w, t, m
<1>10. ASSUME NEW x, Reached(h, x) PROVE ReachedIn(heard[h], ev[h], buf[h], Append(q, f), x)
  BY <1>8, <1>10, Zenon DEF Reached, ReachedIn
<1>11. w = t => ReachedIn(heard[h], ev[h], buf[h], Append(q, f), m)
  BY <1>8, <1>9, Zenon DEF ReachedIn
<1>12. rx'[h] = Append(q, f)
  BY Zenon DEF f
<1>13. HandingOf(ev[h], buf[h]) /\ WholeHeard(heard[h])
  BY Zenon DEF AtHome
<1> QED
  BY <1>7, <1>10, <1>11, <1>12, <1>13, Zenon DEF Puts, w, t, m

-----------------------------------------------------------------------------
(* The quiet bus: every step, as a device that receives sees it.            *)

\* A bus that is quiet after a step was quiet before, and the step no fault.
LEMMA QuietBefore ==
  ASSUME QuietBus', upset \subseteq upset'
  PROVE  /\ QuietBus
         /\ {"frame", "flush", "mix", "short", "latecall", "callback"} \intersect upset' = {}
BY DEF QuietBus

\* Where the receivers are left alone.
LEMMA HomeStill ==
  ASSUME rx' = rx, ev' = ev, buf' = buf, heard' = heard, \A h \in Nodes : AtHome(h)
  PROVE  \A h \in Nodes : Keeps(h)
BY KeepsSame, Zenon

\* One device takes a frame and answers it.
LEMMA HomeTake ==
  ASSUME BusTypes, NEW n \in Nodes, EvTake(n), \A h \in Nodes : AtHome(h), NEW h \in Nodes
  PROVE  Keeps(h)
<1> DEFINE f == Head(rx[n])
           r == Reply(f, n)
<1>1. /\ UNCHANGED <<buf, heard>> /\ OnlyAt(n, ev, ev') /\ f \in FramesFor(n) /\ rx[n] # <<>>
      /\ \/ /\ f.kind \in {"data", "ping"}
            /\ \A k \in Nodes : \/ rx'[k] = Popped(n)[k]
                                \/ k = f.from /\ rx'[k] = Append(Popped(n)[k], r)
         \/ rx' = Popped(n)
  BY EvTakeMeans
<1>2. CASE h = n
  BY <1>2, KeepsTake, Zenon
<1>3. CASE h # n
  <2>1. Popped(n)[h] = rx[h] /\ ev'[h] = ev[h]
    BY <1>1, <1>3, PoppedMeans, Zenon DEF OnlyAt
  <2>2. f.kind \in {"data", "ping"} => r \in BusFrames /\ r \notin DataFrames
    BY <1>1, ReplyMeans DEF DataFrames
  <2>3. AtHome(h) /\ rx[h] \in Seq(BusFrames) /\ buf'[h] = buf[h] /\ heard'[h] = heard[h]
    BY <1>1, RxSeq
  <2>4. rx'[h] = rx[h] \/ (f.kind \in {"data", "ping"} /\ rx'[h] = Append(rx[h], r))
    BY <1>1, <2>1, Zenon
  <2> HIDE DEF r
  <2> QED
    BY <2>1, <2>2, <2>3, <2>4, KeepsSame, KeepsOther, Zenon
<1> QED
  BY <1>2, <1>3, Zenon

\* One device writes a ping.
LEMMA HomePing ==
  ASSUME BusTypes, NEW n \in Nodes, PingWrite(n), \A h \in Nodes : AtHome(h), NEW h \in Nodes
  PROVE  Keeps(h)
<1> DEFINE m == offered + 1
           P(k, d) == Append(rx[k], PingOf(n, d, m))
<1>1. m \in Ids /\ UNCHANGED <<ev, buf, heard>>
  BY PingWriteMeans
<1> HIDE DEF P
<1>2. \/ \E d \in Nodes \ {n} :
                     /\ \A k \in Nodes : \/ rx'[k] = rx[k]
                                         \/ k = d /\ rx'[k] = P(k, d)
                     /\ "frame" \notin upset' => rx'[d] = P(d, d)
      \/ rx' = rx
  BY PingWriteMeans, Zenon DEF P
<1>3. AtHome(h) /\ rx[h] \in Seq(BusFrames) /\ ev'[h] = ev[h] /\ buf'[h] = buf[h] /\ heard'[h] = heard[h]
  BY <1>1, RxSeq
<1>4. CASE rx'[h] = rx[h]
  BY <1>3, <1>4, KeepsSame, Zenon
<1>5. ASSUME NEW d \in Nodes \ {n}, rx'[h] = P(h, d) PROVE Keeps(h)
  <2> DEFINE f == PingOf(n, d, m)
  <2>1. f \in BusFrames /\ f \notin DataFrames
    BY <1>1, PingOfMeans DEF DataFrames
  <2>2. rx'[h] = Append(rx[h], f)
    BY <1>5, Zenon DEF P
  <2> HIDE DEF f
  <2> QED
    BY <1>3, <2>1, <2>2, KeepsOther, Zenon
<1> QED
  BY <1>2, <1>4, <1>5, Zenon

\* One device puts a packet away, or hands the buffer to its callback.
LEMMA HomeDecode ==
  ASSUME BusTypes, NEW n \in Nodes, EvDecode(n) \/ (EvCallback(n) /\ "callback" \notin upset') \/ CbRun(n),
         \A h \in Nodes : AtHome(h), NEW h \in Nodes
  PROVE  Keeps(h)
<1>1. CASE h = n
  BY <1>1, KeepsDecode, KeepsCallback, KeepsRun, Zenon
<1>2. CASE h # n
  <2>1. rx' = rx /\ OnlyAt(n, ev, ev') /\ OnlyAt(n, buf, buf') /\ OnlyAt(n, heard, heard')
    <3>1. CASE EvDecode(n)
      BY <3>1, EvDecodeMeans DEF OnlyAt
    <3>2. CASE EvCallback(n)
      BY <3>2, EvCallbackMeans DEF OnlyAt
    <3>3. CASE CbRun(n)
      BY <3>3, CbRunMeans DEF OnlyAt
    <3> QED
      BY <3>1, <3>2, <3>3
  <2>2. rx'[h] = rx[h] /\ ev'[h] = ev[h] /\ buf'[h] = buf[h] /\ heard'[h] = heard[h]
    BY <1>2, <2>1 DEF OnlyAt
  <2> QED
    BY <2>2, KeepsSame, Zenon
<1> QED
  BY <1>1, <1>2, Zenon

\* A packet is written: those who hear it get it, the others keep what they have.
LEMMA HomeWrite ==
  ASSUME BusTypes, NEW n \in Nodes, TxWrite(n), QuietBus',
         \A h \in Nodes : AtHome(h) /\ Ends(h), NEW h \in Nodes
  PROVE  /\ h \in Hearers(Frame(n)) => Puts(n, h)
         /\ h \notin Hearers(Frame(n)) => Keeps(h)
         /\ tx'[n].pc \in {"count", "clear"} /\ (tx'[n].pc = "count" => ~tx'[n].sended)
         /\ ~Crossed(Frame(n))
<1> DEFINE f == Frame(n)
<1>1. /\ UNCHANGED <<ev, buf, heard>> /\ upset \subseteq upset'
      /\ rx[n] # <<>> => "flush" \in upset'
      /\ tx[n].pc = "write"
      /\ \/ /\ \/ tx'[n].pc = "count" /\ ~tx'[n].sended
               \/ tx'[n].pc = "clear"
            /\ \A k \in Nodes : \/ rx'[k] = Flushed(n)[k]
                                \/ /\ k \in Hearers(f)
                                   /\ rx'[k] = Append(Flushed(n)[k], f)
            /\ "frame" \notin upset' => \A k \in Hearers(f) : rx'[k] = Append(Flushed(n)[k], f)
            /\ "mix" \notin upset' => ~Crossed(f)
         \/ "short" \in upset'
  BY TxWriteMeans
<1>2. "short" \notin upset' /\ "frame" \notin upset' /\ "mix" \notin upset' /\ "flush" \notin upset'
  BY <1>1, QuietBefore
<1>3. Flushed(n)[h] = rx[h]
  <2>1. rx[n] = <<>> /\ Flushed(n)[n] = <<>> /\ OnlyAt(n, rx, Flushed(n))
    BY <1>1, <1>2, FlushedMeans, Zenon
  <2> QED
    BY <2>1, Zenon DEF OnlyAt
<1>4. ev'[h] = ev[h] /\ buf'[h] = buf[h] /\ heard'[h] = heard[h]
  BY <1>1
<1>5. ~Crossed(f) /\ tx'[n].pc \in {"count", "clear"} /\ (tx'[n].pc = "count" => ~tx'[n].sended)
  BY <1>1, <1>2
<1>6. h \in Hearers(f) => rx'[h] = Append(rx[h], f)
  BY <1>1, <1>2, <1>3, Zenon
<1>7. h \notin Hearers(f) => rx'[h] = rx[h]
  BY <1>1, <1>2, <1>3, Zenon
<1>8. h \in Hearers(f) => Puts(n, h)
  BY <1>1, <1>4, <1>5, <1>6, PutsPacket, Zenon
<1>9. h \notin Hearers(f) => Keeps(h)
  BY <1>4, <1>7, KeepsSame, Zenon
<1> QED
  BY <1>5, <1>8, <1>9, Zenon

-----------------------------------------------------------------------------
(* The quiet bus: every step, as a device that sends sees it.               *)

\* A step leaves device k where it was in its message to h, or at its end.
SendKeeps(k, h) ==
    /\ MidwayOf(tx'[k], k, h) =>
          /\ MidwayOf(tx[k], k, h) /\ tx'[k].msg.id = tx[k].msg.id
          /\ SentOf(tx'[k]) = SentOf(tx[k]) /\ tx'[k].msg.total = tx[k].msg.total
    /\ MidwayOf(tx[k], k, h) /\ ~MidwayOf(tx'[k], k, h) => SentOf(tx[k]) = tx[k].msg.total

\* What a step does to the message that device k sends.
TxGoes(k) ==
    \/ tx'[k].pc = tx[k].pc /\ tx'[k].msg = tx[k].msg /\ tx'[k].pk = tx[k].pk
       /\ tx'[k].sended = tx[k].sended
    \/ tx[k].pc = "recv" /\ tx'[k].pc = "write" /\ tx'[k].pk = 1
    \/ tx[k].pc = "give" /\ tx'[k].pc = "recv"
    \/ /\ tx[k].pc \in {"clear", "ackwait", "count"} /\ tx'[k].msg = tx[k].msg
       /\ \/ tx'[k].pc = "ackwait" /\ tx'[k].pk = tx[k].pk
          \/ tx'[k].pc = "count" /\ ~tx'[k].sended /\ tx'[k].pk = tx[k].pk
          \/ tx[k].pk < tx[k].msg.total /\ tx'[k].pc = "write" /\ tx'[k].pk = tx[k].pk + 1
          \/ tx[k].pk = tx[k].msg.total /\ tx'[k].pc = "give" /\ tx'[k].pk = tx[k].pk

\* Going on like that, a device has as many packets of a message on the bus.
LEMMA TxGoesKeeps ==
  ASSUME BusTypes, NEW k \in Nodes, TxGoes(k)
  PROVE  \A h \in Nodes : SendKeeps(k, h)
<1>1. tx[k] \in BusTx /\ tx[k].pk \in Nat
  BY DEF BusTypes, TxTypes, BusTx
<1>2. CASE tx'[k].pc = tx[k].pc /\ tx'[k].msg = tx[k].msg /\ tx'[k].pk = tx[k].pk
  BY <1>2 DEF SendKeeps, MidwayOf, Writing, SentOf
<1>3. CASE tx[k].pc = "recv" /\ tx'[k].pc = "write" /\ tx'[k].pk = 1
  BY <1>3 DEF SendKeeps, MidwayOf, Writing, SentOf
<1>4. CASE tx[k].pc = "give" /\ tx'[k].pc = "recv"
  BY <1>4 DEF SendKeeps, MidwayOf, Writing, SentOf
<1>5. CASE /\ tx[k].pc \in {"clear", "ackwait", "count"} /\ tx'[k].msg = tx[k].msg
           /\ \/ tx'[k].pc = "ackwait" /\ tx'[k].pk = tx[k].pk
              \/ tx'[k].pc = "count" /\ ~tx'[k].sended /\ tx'[k].pk = tx[k].pk
              \/ tx[k].pk < tx[k].msg.total /\ tx'[k].pc = "write" /\ tx'[k].pk = tx[k].pk + 1
              \/ tx[k].pk = tx[k].msg.total /\ tx'[k].pc = "give" /\ tx'[k].pk = tx[k].pk
  BY <1>1, <1>5 DEF SendKeeps, MidwayOf, Writing, SentOf
<1> QED
  BY <1>2, <1>3, <1>4, <1>5 DEF TxGoes

\* Each step of the bus, but for a packet that is written, goes on like that, and
\* the device whose step it is has one message under way at most.
LEMMA SenderGoes ==
  ASSUME BusTypes, NEW n \in Nodes, OneCallOf(call[n], tx[n]), "latecall" \notin upset',
         \/ BusSender(n) \/ BusSenderEnd(n) \/ TxReceive(n) \/ TxClear(n) \/ TxAckWait(n)
         \/ TxCount(n) \/ TxGive(n)
  PROVE  /\ OnlyAt(n, tx, tx') /\ OnlyAt(n, call, call') /\ TxGoes(n) /\ OneCallOf(call'[n], tx'[n])
         /\ rx' = rx /\ ev' = ev /\ buf' = buf /\ heard' = heard
<1>1. CASE BusSender(n)
  <2>1. /\ OnlyAt(n, call, call') /\ OnlyAt(n, tx, tx') /\ UNCHANGED <<rx, ev, buf, heard>>
        /\ call[n].pc = "idle" /\ call'[n].pc = "wait" /\ call'[n].sem = "empty"
        /\ call'[n].queue = Append(call[n].queue, call'[n].msg)
        /\ tx'[n].pc = tx[n].pc /\ tx'[n].msg = tx[n].msg /\ tx'[n].pk = tx[n].pk
        /\ tx'[n].sended = tx[n].sended
    BY <1>1, BusSenderMeans
  <2>2. call[n].queue = <<>> /\ tx[n].pc = "recv"
    BY <2>1 DEF OneCallOf
  <2>3. call'[n].queue = <<call'[n].msg>>
    BY <2>1, <2>2
  <2>4. OneCallOf(call'[n], tx'[n])
    BY <2>1, <2>2, <2>3 DEF OneCallOf
  <2> QED
    BY <2>1, <2>4 DEF TxGoes
<1>2. CASE BusSenderEnd(n)
  <2>1. /\ OnlyAt(n, call, call') /\ tx' = tx /\ UNCHANGED <<rx, ev, buf, heard>>
        /\ call[n].pc = "wait" /\ call'[n].pc = "idle" /\ call'[n].sem = "null"
        /\ call'[n].queue = call[n].queue /\ call[n].sem = "full"
    BY <1>2, BusSenderEndMeans
  <2>2. OneCallOf(call'[n], tx'[n])
    BY <2>1 DEF OneCallOf
  <2> QED
    BY <2>1, <2>2 DEF TxGoes, OnlyAt
<1>3. CASE TxReceive(n)
  <2>1. /\ OnlyAt(n, call, call') /\ OnlyAt(n, tx, tx') /\ UNCHANGED <<rx, ev, buf, heard>>
        /\ tx[n].pc = "recv" /\ call[n].queue # <<>>
        /\ tx'[n].pc = "write" /\ tx'[n].pk = 1 /\ tx'[n].msg = Head(call[n].queue)
        /\ call'[n].queue = Tail(call[n].queue) /\ call'[n].pc = call[n].pc
        /\ call'[n].sem = call[n].sem /\ call'[n].msg = call[n].msg
    BY <1>3, TxReceiveMeans
  <2>2. call[n].pc # "idle" /\ call[n].sem = "empty" /\ call[n].queue = <<call[n].msg>>
    BY <2>1 DEF OneCallOf
  <2>3. call'[n].queue = <<>> /\ tx'[n].msg = call'[n].msg
    BY <2>1, <2>2
  <2>4. OneCallOf(call'[n], tx'[n])
    BY <2>1, <2>2, <2>3 DEF OneCallOf
  <2> QED
    BY <2>1, <2>4 DEF TxGoes
<1>4. CASE TxClear(n)
  <2>1. /\ call' = call /\ OnlyAt(n, tx, tx') /\ UNCHANGED <<rx, ev, buf, heard>>
        /\ tx[n].pc = "clear" /\ tx'[n].pc = "ackwait" /\ tx'[n].msg = tx[n].msg
        /\ tx'[n].pk = tx[n].pk
    BY <1>4, TxClearMeans
  <2>2. OneCallOf(call'[n], tx'[n])
    BY <2>1 DEF OneCallOf
  <2> QED
    BY <2>1, <2>2 DEF TxGoes, OnlyAt
<1>5. CASE TxAckWait(n)
  <2>1. /\ call' = call /\ OnlyAt(n, tx, tx') /\ UNCHANGED <<rx, ev, buf, heard>>
        /\ tx[n].pc = "ackwait" /\ tx'[n].msg = tx[n].msg
        /\ \/ tx'[n].pc = "count" /\ ~tx'[n].sended /\ tx'[n].pk = tx[n].pk
           \/ /\ tx[n].pk < tx[n].msg.total /\ tx'[n].pc = "write" /\ tx'[n].pk = tx[n].pk + 1
           \/ tx[n].pk = tx[n].msg.total /\ tx'[n].pc = "give" /\ tx'[n].pk = tx[n].pk
    BY <1>5, TxAckWaitMeans
  <2>2. OneCallOf(call'[n], tx'[n])
    BY <2>1 DEF OneCallOf
  <2> QED
    BY <2>1, <2>2 DEF TxGoes, OnlyAt
<1>6. CASE TxCount(n)
  <2>1. /\ call' = call /\ OnlyAt(n, tx, tx') /\ UNCHANGED <<rx, ev, buf, heard>>
        /\ tx[n].pc = "count" /\ tx'[n].msg = tx[n].msg
        /\ \/ tx[n].sended
           \/ /\ tx[n].pk < tx[n].msg.total /\ tx'[n].pc = "write" /\ tx'[n].pk = tx[n].pk + 1
           \/ tx[n].pk = tx[n].msg.total /\ tx'[n].pc = "give" /\ tx'[n].pk = tx[n].pk
    BY <1>6, TxCountMeans
  <2>2. ~tx[n].sended
    BY <2>1, Zenon DEF OneCallOf
  <2>3. OneCallOf(call'[n], tx'[n])
    BY <2>1, <2>2 DEF OneCallOf
  <2> QED
    BY <2>1, <2>2, <2>3 DEF TxGoes, OnlyAt
<1>7. CASE TxGive(n)
  <2>1. /\ OnlyAt(n, tx, tx') /\ OnlyAt(n, call, call') /\ UNCHANGED <<rx, ev, buf, heard>>
        /\ tx[n].pc = "give" /\ tx'[n].pc = "recv"
        /\ call'[n].pc = call[n].pc /\ call'[n].queue = call[n].queue
        /\ call'[n].sem = IF call[n].sem = "null" THEN "null" ELSE "full"
    BY <1>7, TxGiveMeans
  <2>2. call[n].pc # "idle" /\ call[n].sem = "empty" /\ call[n].queue = <<>>
    BY <2>1 DEF OneCallOf
  <2>3. OneCallOf(call'[n], tx'[n])
    BY <2>1, <2>2 DEF OneCallOf
  <2> QED
    BY <2>1, <2>3 DEF TxGoes
<1> QED
  BY <1>1, <1>2, <1>3, <1>4, <1>5, <1>6, <1>7

-----------------------------------------------------------------------------
(* The quiet bus: what was reported has arrived.                            *)

After(h, m) == ReachedIn(heard'[h], ev'[h], buf'[h], rx'[h], m)

\* What is to be shown of a step.
LEMMA DoneMeans ==
  ASSUME NEW k
  PROVE  Done(k)' <=> \A h \in Nodes :
            /\ Addressed(tx'[k].msg, k, h) /\ Passed(tx'[k]) => After(h, tx'[k].msg.id)
            /\ Addressed(call'[k].msg, k, h) /\ Told(call'[k], outcome') => After(h, call'[k].msg.id)
BY Zenon DEF Done, Reached, After

\* A device whose call and message stay, and what was reported of them.
LEMMA DoneStill ==
  ASSUME NEW k \in Nodes, Done(k), tx'[k] = tx[k], call'[k] = call[k],
         call[k].msg.id # 0 => outcome'[call[k].msg.id] = outcome[call[k].msg.id],
         \A h \in Nodes : \A m : Reached(h, m) => After(h, m)
  PROVE  Done(k)'
<1>1. Told(call[k], outcome') => Told(call[k], outcome)
  BY Zenon DEF Told
<1>2. ASSUME NEW h \in Nodes
      PROVE  /\ Addressed(tx[k].msg, k, h) /\ Passed(tx[k]) => After(h, tx[k].msg.id)
             /\ Addressed(call[k].msg, k, h) /\ Told(call[k], outcome') => After(h, call[k].msg.id)
  BY <1>1, Zenon DEF Done
<1> QED
  BY <1>2, DoneMeans, Zenon

\* What the reports of the others say stays.
LEMMA OutcomeOther ==
  ASSUME BusTypes, IdsApart, NEW n \in Nodes, NEW k \in Nodes, k # n, BusSender(n) \/ BusSenderEnd(n)
  PROVE  call[k].msg.id # 0 => outcome'[call[k].msg.id] = outcome[call[k].msg.id]
<1> SUFFICES ASSUME call[k].msg.id # 0 PROVE outcome'[call[k].msg.id] = outcome[call[k].msg.id]
  OBVIOUS
<1> DEFINE i == call[k].msg.id
<1>1. i \in Ids /\ i \in IdsOf(k)
  <2>1. call[k].msg \in MsgOrNot
    BY DEF BusTypes, CallTypes, BusCalls
  <2>2. i \in Ids
    BY <2>1 DEF MsgOrNot, BusMsgs, NoOne
  <2> QED
    BY <2>2 DEF IdsOf, IdsWith
<1>2. i <= offered /\ IdsOf(k) \intersect IdsOf(n) = {}
  BY <1>1, Zenon DEF IdsApart
<1>3. outcome \in [Ids -> {"none", "pending", "ok", "error"}] /\ offered \in Nat /\ i \in Nat
  BY <1>1, BusAssumption DEF BusTypes, GhostTypes, Ids
<1>4. CASE BusSender(n)
  <2>1. outcome' = [outcome EXCEPT ![offered + 1] = "pending"]
    BY <1>4, BusSenderMeans
  <2>2. i # offered + 1
    BY <1>2, <1>3
  <2> QED
    BY <1>1, <1>3, <2>1, <2>2
<1>5. CASE BusSenderEnd(n)
  <2>1. call[n].msg.id \in Ids /\ \A m \in Ids : m # call[n].msg.id => outcome'[m] = outcome[m]
    BY <1>5, BusSenderEndMeans
  <2>2. call[n].msg.id \in IdsOf(n)
    BY <2>1, BusAssumption DEF IdsOf, IdsWith, Ids
  <2>3. i # call[n].msg.id
    BY <1>1, <1>2, <2>2
  <2> QED
    BY <1>1, <2>1, <2>3
<1> QED
  BY <1>4, <1>5

\* The device whose step it is, where no packet is written.
LEMMA DoneSender ==
  ASSUME BusTypes, IdsApart, NEW n \in Nodes, OneCallOf(call[n], tx[n]), "latecall" \notin upset', Done(n),
         \/ BusSender(n) \/ BusSenderEnd(n) \/ TxReceive(n) \/ TxClear(n) \/ TxAckWait(n)
         \/ TxCount(n) \/ TxGive(n),
         \A h \in Nodes : \A m : Reached(h, m) => After(h, m)
  PROVE  Done(n)'
<1>1. CASE BusSender(n)
  <2>1. /\ call'[n].sem = "empty" /\ call'[n].msg.id = offered + 1 /\ offered + 1 \in Ids
        /\ outcome' = [outcome EXCEPT ![offered + 1] = "pending"]
        /\ tx'[n].pc = tx[n].pc /\ tx'[n].msg = tx[n].msg /\ tx'[n].pk = tx[n].pk
    BY <1>1, BusSenderMeans
  <2>2. outcome'[offered + 1] = "pending"
    BY <2>1 DEF BusTypes, GhostTypes
  <2>3. ~Told(call'[n], outcome')
    BY <2>1, <2>2 DEF Told
  <2>4. Passed(tx'[n]) <=> Passed(tx[n])
    BY <2>1, Zenon DEF Passed
  <2> QED
    BY <2>1, <2>3, <2>4, DoneMeans, Zenon DEF Done
<1>2. CASE BusSenderEnd(n)
  <2>1. tx' = tx /\ call[n].sem = "full" /\ call'[n].msg = call[n].msg
    BY <1>2, BusSenderEndMeans
  <2>2. Told(call[n], outcome)
    BY <2>1, Zenon DEF Told
  <2>3. tx'[n] = tx[n]
    BY <2>1
  <2> QED
    BY <2>1, <2>2, <2>3, DoneMeans, Zenon DEF Done
<1>3. CASE TxReceive(n)
  <2>1. /\ tx'[n].pc = "write" /\ call'[n].sem = call[n].sem /\ call'[n].msg = call[n].msg
        /\ outcome' = outcome
    BY <1>3, TxReceiveMeans
  <2>2. ~Passed(tx'[n]) /\ (Told(call'[n], outcome') <=> Told(call[n], outcome))
    BY <2>1 DEF Passed, Told
  <2> QED
    BY <2>1, <2>2, DoneMeans, Zenon DEF Done
<1>4. CASE TxGive(n)
  <2>1. /\ tx[n].pc = "give" /\ tx'[n].pc = "recv" /\ call'[n].msg = call[n].msg
    BY <1>4, TxGiveMeans
  <2>2. tx[n].msg = call[n].msg
    BY <2>1 DEF OneCallOf
  <2>3. Passed(tx[n]) /\ ~Passed(tx'[n])
    BY <2>1 DEF Passed
  <2> QED
    BY <2>1, <2>2, <2>3, DoneMeans, Zenon DEF Done
<1>5. CASE TxClear(n) \/ TxAckWait(n) \/ TxCount(n)
  <2>1. /\ tx[n].pc \in {"clear", "ackwait", "count"} /\ tx'[n].msg = tx[n].msg
        /\ call'[n] = call[n] /\ outcome' = outcome
        /\ tx'[n].pc # "write" => tx'[n].pk = tx[n].pk
        /\ tx'[n].pc = "give" => tx[n].pk = tx[n].msg.total
        /\ tx'[n].pc \in {"ackwait", "count", "write", "give"}
    <3>1. CASE TxClear(n)
      BY <3>1, TxClearMeans
    <3>2. CASE TxAckWait(n)
      <4>1. call'[n] = call[n] /\ outcome' = outcome
        BY <3>2, TxAckWaitMeans
      <4> QED
        BY <3>2, <4>1, TxAckWaitMeans
    <3>3. CASE TxCount(n)
      <4>1. call'[n] = call[n] /\ outcome' = outcome
        BY <3>3, TxCountMeans
      <4> QED
        BY <3>3, <4>1, TxCountMeans
    <3> QED
      BY <1>5, <3>1, <3>2, <3>3
  <2>2. Passed(tx'[n]) => Passed(tx[n])
    BY <2>1 DEF Passed
  <2> QED
    BY <2>1, <2>2, DoneMeans, Zenon DEF Done
<1> QED
  BY <1>1, <1>2, <1>3, <1>4, <1>5

\* The device that writes a packet.
LEMMA DoneWrite ==
  ASSUME BusTypes, NEW n \in Nodes, TxWrite(n), Done(n), \A h \in Hearers(Frame(n)) : Puts(n, h),
         \A h \in Nodes : \A m : Reached(h, m) => After(h, m)
  PROVE  Done(n)'
<1>1. /\ call'[n] = call[n] /\ outcome' = outcome /\ tx'[n].msg = tx[n].msg /\ tx'[n].pk = tx[n].pk
      /\ tx[n].pc = "write" /\ tx'[n].pc \in {"clear", "count"}
  BY TxWriteMeans
<1>2. \A h \in Nodes : Addressed(tx[n].msg, n, h) => h \in Hearers(Frame(n))
  BY <1>1, FrameMeans DEF Addressed, Hearers
<1>3. Passed(tx'[n]) => tx[n].pk = tx[n].msg.total
  BY <1>1 DEF Passed
<1>4. tx[n].pk = tx[n].msg.total => \A h \in Hearers(Frame(n)) : After(h, tx[n].msg.id)
  BY Zenon DEF Puts, After
<1> QED
  BY <1>1, <1>2, <1>3, <1>4, DoneMeans, Zenon DEF Done

-----------------------------------------------------------------------------
(* The quiet bus: what a device got last, through every step.               *)

\* What is to be shown of a step.
LEMMA EndsMeans ==
  ASSUME NEW h
  PROVE  Ends(h)' <=>
            /\ (\A k \in Nodes : ~MidwayOf(tx'[k], k, h)) => EndsWhole(rx'[h], ev'[h], buf'[h].data)
            /\ \A k \in Nodes : MidwayOf(tx'[k], k, h) =>
                  EndsAfter(rx'[h], ev'[h], buf'[h].data, tx'[k].msg.id, SentOf(tx'[k]), tx'[k].msg.total)
BY Zenon DEF Ends

\* A message that is being sent has a name and a length.
LEMMA MidwayTypes ==
  ASSUME BusTypes, NEW k \in Nodes, NEW h, MidwayOf(tx[k], k, h)
  PROVE  tx[k].msg.id # 0 /\ tx[k].msg.total \in Nat \ {0}
<1>1. tx[k] \in BusTx /\ Writing(tx[k])
  BY DEF BusTypes, TxTypes, MidwayOf
<1>2. tx[k].msg \in BusMsgs
  BY <1>1 DEF BusTx, Writing
<1> QED
  BY <1>2, BusAssumption DEF BusMsgs, Ids

\* A step that writes no packet for h.  Where a message ends, it is whole.
LEMMA EndsKept ==
  ASSUME BusTypes, NEW h, Ends(h), Keeps(h), \A k \in Nodes : SendKeeps(k, h)
  PROVE  Ends(h)'
<1>1. ASSUME NEW k \in Nodes, MidwayOf(tx'[k], k, h)
      PROVE  EndsAfter(rx'[h], ev'[h], buf'[h].data, tx'[k].msg.id, SentOf(tx'[k]), tx'[k].msg.total)
  <2>1. /\ MidwayOf(tx[k], k, h) /\ tx'[k].msg.id = tx[k].msg.id
        /\ SentOf(tx'[k]) = SentOf(tx[k]) /\ tx'[k].msg.total = tx[k].msg.total
    BY <1>1, Zenon DEF SendKeeps
  <2>2. EndsAfter(rx[h], ev[h], buf[h].data, tx[k].msg.id, SentOf(tx[k]), tx[k].msg.total)
    BY <2>1, Zenon DEF Ends
  <2>3. EndsAfter(rx'[h], ev'[h], buf'[h].data, tx[k].msg.id, SentOf(tx[k]), tx[k].msg.total)
    BY <2>2, Zenon DEF Keeps
  <2> QED
    BY <2>1, <2>3
<1>2. ASSUME \A k \in Nodes : ~MidwayOf(tx'[k], k, h)
      PROVE  EndsWhole(rx'[h], ev'[h], buf'[h].data)
  <2>1. CASE \A k \in Nodes : ~MidwayOf(tx[k], k, h)
    BY <2>1, Zenon DEF Ends, Keeps
  <2>2. ASSUME NEW k \in Nodes, MidwayOf(tx[k], k, h)
        PROVE  EndsWhole(rx'[h], ev'[h], buf'[h].data)
    <3>1. SentOf(tx[k]) = tx[k].msg.total
      BY <1>2, <2>2, Zenon DEF SendKeeps
    <3>2. EndsAfter(rx[h], ev[h], buf[h].data, tx[k].msg.id, tx[k].msg.total, tx[k].msg.total)
      BY <2>2, <3>1, Zenon DEF Ends
    <3>3. tx[k].msg.id # 0 /\ tx[k].msg.total \in Nat \ {0}
      BY <2>2, MidwayTypes, Zenon
    <3>4. EndsWhole(rx[h], ev[h], buf[h].data)
      BY <3>2, <3>3, EndsFull, Zenon
    <3> QED
      BY <3>4, Zenon DEF Keeps
  <2> QED
    BY <2>1, <2>2, Zenon
<1> QED
  BY <1>1, <1>2, EndsMeans, Zenon

\* Where a packet is written.
LEMMA EndsWrite ==
  ASSUME BusTypes, NEW n \in Nodes, TxWrite(n), ~Crossed(Frame(n)),
         tx'[n].pc \in {"count", "clear"}, NEW h \in Hearers(Frame(n)), Puts(n, h)
  PROVE  Ends(h)'
<1>1. /\ OnlyAt(n, tx, tx') /\ tx[n].pc = "write" /\ tx'[n].msg = tx[n].msg /\ tx'[n].pk = tx[n].pk
  BY TxWriteMeans
<1>2. Frame(n) \in DataFrames /\ Frame(n).from = n /\ Frame(n).to = tx[n].msg.to /\ tx[n].pk \in 1 .. tx[n].msg.total
      /\ tx[n].msg \in BusMsgs
  BY <1>1, FrameMeans
<1>3. \A k \in Nodes : k # n => tx'[k] = tx[k] /\ ~MidwayOf(tx[k], k, h)
  BY <1>1, <1>2, AloneMidway, Zenon DEF OnlyAt
<1>4. SentOf(tx'[n]) = tx[n].pk /\ MidwayOf(tx'[n], n, h)
  BY <1>1, <1>2 DEF SentOf, MidwayOf, Writing, Addressed, Hearers, BusMsgs
<1>5. EndsAfter(rx'[h], ev'[h], buf'[h].data, tx'[n].msg.id, SentOf(tx'[n]), tx'[n].msg.total)
  BY <1>1, <1>4, Zenon DEF Puts
<1> QED
  BY <1>3, <1>4, <1>5, EndsMeans, Zenon

\* A packet is written that h does not hear.
LEMMA EndsOthers ==
  ASSUME BusTypes, NEW n \in Nodes, TxWrite(n), tx'[n].pc \in {"count", "clear"},
         NEW h \in Nodes, h \notin Hearers(Frame(n)), Ends(h), Keeps(h)
  PROVE  Ends(h)'
<1>1. OnlyAt(n, tx, tx') /\ tx[n].pc = "write" /\ tx'[n].msg = tx[n].msg
  BY TxWriteMeans
<1>2. ~Addressed(tx[n].msg, n, h)
  BY <1>1, FrameMeans DEF Addressed, Hearers
<1>3. SendKeeps(n, h)
  BY <1>1, <1>2, Zenon DEF SendKeeps, MidwayOf
<1>4. \A k \in Nodes : k # n => SendKeeps(k, h)
  <2> TAKE k \in Nodes
  <2> HAVE k # n
  <2>1. tx'[k] = tx[k]
    BY <1>1, Zenon DEF OnlyAt
  <2> QED
    BY <2>1, Zenon DEF SendKeeps
<1> QED
  BY <1>3, <1>4, EndsKept, Zenon

-----------------------------------------------------------------------------
(* The quiet bus: the invariant.                                            *)

\* The order at the receivers, before and after a step.
LEMMA QuietHeardMeans ==
  /\ QuietHeard <=> \A h \in Nodes : AtHome(h) /\ Ends(h)
  /\ QuietHeard' <=> \A h \in Nodes :
        /\ StreamOf(rx'[h], ev'[h], buf'[h].data) /\ HandingOf(ev'[h], buf'[h]) /\ WholeHeard(heard'[h])
        /\ Ends(h)'
BY Zenon DEF QuietHeard, AtHome

\* What the senders know, after a step.
LEMMA QuietSentMeans ==
  QuietSent' <=> \A n \in Nodes : OneCallOf(call'[n], tx'[n]) /\ Done(n)'
BY Zenon DEF QuietSent

\* The devices receive, or ping.
LEMMA QuietReceive ==
  ASSUME BusTypes, QuietSent, QuietHeard, tx' = tx, call' = call, outcome' = outcome,
         \A h \in Nodes : Keeps(h)
  PROVE  QuietSent' /\ QuietHeard'
<1>1. \A k, h \in Nodes : SendKeeps(k, h)
  BY Zenon DEF SendKeeps
<1>2. \A h \in Nodes : Ends(h)'
  BY <1>1, QuietHeardMeans, EndsKept, Zenon
<1>3. \A h \in Nodes : \A m : Reached(h, m) => After(h, m)
  BY Zenon DEF Keeps, After
<1>4. \A k \in Nodes : Done(k)'
  <2> TAKE k \in Nodes
  <2>1. Done(k) /\ tx'[k] = tx[k] /\ call'[k] = call[k]
    BY Zenon DEF QuietSent
  <2> QED
    BY <1>3, <2>1, DoneStill, Zenon
<1>5. QuietHeard'
  BY <1>2, QuietHeardMeans, Zenon DEF Keeps
<1>6. QuietSent'
  BY <1>4, QuietSentMeans, Zenon DEF QuietSent
<1> QED
  BY <1>5, <1>6

\* A device goes on with its message.
LEMMA QuietGoes ==
  ASSUME BusTypes, IdsApart, QuietSent, QuietHeard, "latecall" \notin upset', NEW n \in Nodes,
         \/ BusSender(n) \/ BusSenderEnd(n) \/ TxReceive(n) \/ TxClear(n) \/ TxAckWait(n)
         \/ TxCount(n) \/ TxGive(n)
  PROVE  QuietSent' /\ QuietHeard'
<1>1. /\ OnlyAt(n, tx, tx') /\ OnlyAt(n, call, call') /\ TxGoes(n) /\ OneCallOf(call'[n], tx'[n])
      /\ rx' = rx /\ ev' = ev /\ buf' = buf /\ heard' = heard
  <2>1. OneCallOf(call[n], tx[n])
    BY Zenon DEF QuietSent
  <2> QED
    BY <2>1, SenderGoes, Zenon
<1>2. \A h \in Nodes : Keeps(h)
  BY <1>1, HomeStill, QuietHeardMeans, Zenon
<1>3. \A k, h \in Nodes : SendKeeps(k, h)
  <2> TAKE k, h \in Nodes
  <2>1. CASE k = n
    BY <1>1, <2>1, TxGoesKeeps, Zenon
  <2>2. CASE k # n
    <3>1. tx'[k] = tx[k]
      BY <1>1, <2>2, Zenon DEF OnlyAt
    <3> QED
      BY <3>1, Zenon DEF SendKeeps
  <2> QED
    BY <2>1, <2>2
<1>4. \A h \in Nodes : Ends(h)'
  BY <1>2, <1>3, QuietHeardMeans, EndsKept, Zenon
<1>5. \A h \in Nodes : \A m : Reached(h, m) => After(h, m)
  BY <1>2, Zenon DEF Keeps, After
<1>6. \A k \in Nodes : Done(k)'
  <2> TAKE k \in Nodes
  <2>1. Done(k) /\ OneCallOf(call[k], tx[k])
    BY Zenon DEF QuietSent
  <2>2. CASE k = n
    BY <1>5, <2>1, <2>2, DoneSender, Zenon
  <2>3. CASE k # n
    <3>1. tx'[k] = tx[k] /\ call'[k] = call[k]
      BY <1>1, <2>3, Zenon DEF OnlyAt
    <3>2. call[k].msg.id # 0 => outcome'[call[k].msg.id] = outcome[call[k].msg.id]
      <4>1. CASE BusSender(n) \/ BusSenderEnd(n)
        BY <2>3, <4>1, OutcomeOther, Zenon
      <4>2. CASE TxReceive(n) \/ TxClear(n) \/ TxAckWait(n) \/ TxCount(n) \/ TxGive(n)
        <5>1. outcome' = outcome
          BY <4>2 DEF TxReceive, TxClear, TxAckWait, TxCount, TxGive, TxOnly
        <5> QED
          BY <5>1
      <4> QED
        BY <4>1, <4>2, Zenon
    <3> QED
      BY <1>5, <2>1, <3>1, <3>2, DoneStill, Zenon
  <2> QED
    BY <2>2, <2>3
<1>7. \A k \in Nodes : OneCallOf(call'[k], tx'[k])
  <2> TAKE k \in Nodes
  <2>1. CASE k = n
    BY <1>1, <2>1, Zenon
  <2>2. CASE k # n
    <3>1. tx'[k] = tx[k] /\ call'[k] = call[k]
      BY <1>1, <2>2, Zenon DEF OnlyAt
    <3> QED
      BY <3>1, Zenon DEF QuietSent
  <2> QED
    BY <2>1, <2>2
<1>8. QuietHeard'
  BY <1>2, <1>4, QuietHeardMeans, Zenon DEF Keeps
<1> QED
  BY <1>6, <1>7, <1>8, QuietSentMeans, Zenon

\* A device writes a packet.
LEMMA QuietWrite ==
  ASSUME BusTypes, QuietSent, QuietHeard, QuietBus', NEW n \in Nodes, TxWrite(n)
  PROVE  QuietSent' /\ QuietHeard'
<1>1. \A h \in Nodes : AtHome(h) /\ Ends(h)
  BY QuietHeardMeans, Zenon
<1>2. \A h \in Nodes :
         /\ h \in Hearers(Frame(n)) => Puts(n, h)
         /\ h \notin Hearers(Frame(n)) => Keeps(h)
         /\ tx'[n].pc \in {"count", "clear"} /\ (tx'[n].pc = "count" => ~tx'[n].sended)
         /\ ~Crossed(Frame(n))
  BY <1>1, HomeWrite, Zenon
<1>3. /\ OnlyAt(n, tx, tx') /\ call' = call /\ outcome' = outcome /\ tx[n].pc = "write"
      /\ tx'[n].msg = tx[n].msg
  BY TxWriteMeans
<1>4. \A h \in Nodes : Ends(h)'
  BY <1>1, <1>2, EndsWrite, EndsOthers, Zenon
<1>5. \A h \in Nodes : \A m : Reached(h, m) => After(h, m)
  BY <1>2, Zenon DEF Keeps, Puts, After
<1>6. \A k \in Nodes : Done(k)'
  <2> TAKE k \in Nodes
  <2>1. Done(k)
    BY Zenon DEF QuietSent
  <2>2. CASE k = n
    <3>1. \A h \in Hearers(Frame(n)) : Puts(n, h)
      <4> TAKE h \in Hearers(Frame(n))
      <4>1. h \in Nodes
        BY DEF Hearers
      <4> QED
        BY <1>2, <4>1, Zenon
    <3> QED
      BY <1>5, <2>1, <2>2, <3>1, DoneWrite, Zenon
  <2>3. CASE k # n
    <3>1. tx'[k] = tx[k] /\ call'[k] = call[k]
      BY <1>3, <2>3, Zenon DEF OnlyAt
    <3> QED
      BY <1>3, <1>5, <2>1, <3>1, DoneStill, Zenon
  <2> QED
    BY <2>2, <2>3
<1>7. \A k \in Nodes : OneCallOf(call'[k], tx'[k])
  <2> TAKE k \in Nodes
  <2>1. OneCallOf(call[k], tx[k])
    BY Zenon DEF QuietSent
  <2>2. CASE k = n
    <3>1. call'[k] = call[k] /\ tx'[k].pc \in {"count", "clear"} /\ (tx'[k].pc = "count" => ~tx'[k].sended)
          /\ tx[k].pc = "write" /\ tx'[k].msg = tx[k].msg
      BY <1>2, <1>3, <2>2, Zenon
    <3> QED
      BY <2>1, <3>1 DEF OneCallOf
  <2>3. CASE k # n
    <3>1. tx'[k] = tx[k] /\ call'[k] = call[k]
      BY <1>3, <2>3, Zenon DEF OnlyAt
    <3> QED
      BY <2>1, <3>1, Zenon
  <2> QED
    BY <2>2, <2>3
<1>8. QuietHeard'
  <2> SUFFICES ASSUME NEW h \in Nodes
               PROVE  /\ StreamOf(rx'[h], ev'[h], buf'[h].data) /\ HandingOf(ev'[h], buf'[h])
                      /\ WholeHeard(heard'[h])
    BY <1>4, QuietHeardMeans, Zenon
  <2> QED
    BY <1>2, Zenon DEF Keeps, Puts
<1> QED
  BY <1>6, <1>7, <1>8, QuietSentMeans, Zenon

\* As long as the bus is quiet every step keeps the order.
LEMMA QuietStep == BusTypes /\ IdsApart /\ QuietInv /\ BusNext => QuietInv'
<1> SUFFICES ASSUME BusTypes, IdsApart, QuietInv, BusNext, QuietBus'
             PROVE  QuietSent' /\ QuietHeard'
  BY Zenon DEF QuietInv
<1>1. PICK n \in Nodes :
         \/ BusSender(n) \/ BusSenderEnd(n)
         \/ TxReceive(n) \/ TxWrite(n) \/ TxClear(n) \/ TxAckWait(n)
         \/ TxCount(n) \/ TxGive(n)
         \/ EvTake(n) \/ EvDecode(n) \/ EvCallback(n) \/ CbRun(n)
         \/ PingWrite(n) \/ PingClear(n) \/ PingWait(n)
  BY Zenon DEF BusNext
<1>2. upset \subseteq upset'
  <2>1. CASE \/ BusSender(n) \/ BusSenderEnd(n) \/ TxReceive(n) \/ TxClear(n) \/ TxAckWait(n)
             \/ TxCount(n) \/ TxGive(n) \/ EvDecode(n) \/ EvCallback(n) \/ CbRun(n)
    BY <2>1 DEF BusSender, BusSenderEnd, TxReceive, TxClear, TxAckWait, TxCount, TxGive, TxOnly,
                EvDecode, EvCallback, CbRun, Upset
  <2>2. CASE TxWrite(n) \/ EvTake(n)
    BY <2>2, TxWriteMeans, EvTakeMeans
  <2>3. CASE PingWrite(n) \/ PingClear(n) \/ PingWait(n)
    BY <2>3, PingWriteMeans, PingClearMeans, PingWaitMeans
  <2> QED
    BY <1>1, <2>1, <2>2, <2>3, Zenon
<1>3. /\ QuietSent /\ QuietHeard
      /\ "latecall" \notin upset' /\ "callback" \notin upset'
  <2>1. /\ QuietBus
        /\ {"frame", "flush", "mix", "short", "latecall", "callback"} \intersect upset' = {}
    BY <1>2, QuietBefore, Zenon
  <2>2. "latecall" \notin upset' /\ "callback" \notin upset'
    BY <2>1
  <2> QED
    BY <2>1, <2>2, Zenon DEF QuietInv
<1>4. \A h \in Nodes : AtHome(h)
  BY <1>3, QuietHeardMeans, Zenon
<1>5. CASE \/ BusSender(n) \/ BusSenderEnd(n) \/ TxReceive(n) \/ TxClear(n) \/ TxAckWait(n)
           \/ TxCount(n) \/ TxGive(n)
  BY <1>3, <1>5, QuietGoes, Zenon
<1>6. CASE TxWrite(n)
  BY <1>3, <1>6, QuietWrite, Zenon
<1>7. CASE \/ EvTake(n) \/ EvDecode(n) \/ EvCallback(n) \/ CbRun(n)
           \/ PingWrite(n) \/ PingClear(n) \/ PingWait(n)
  <2>1. tx' = tx /\ call' = call /\ outcome' = outcome
    BY <1>7 DEF EvTake, EvDecode, EvCallback, CbRun, PingWrite, PingClear, PingWait
  <2>2. CASE PingClear(n) \/ PingWait(n)
    <3>1. rx' = rx /\ ev' = ev /\ buf' = buf /\ heard' = heard
      BY <2>2 DEF PingClear, PingWait
    <3> QED
      BY <1>3, <1>4, <2>1, <3>1, HomeStill, QuietReceive, Zenon
  <2>3. CASE EvTake(n) \/ EvDecode(n) \/ EvCallback(n) \/ CbRun(n) \/ PingWrite(n)
    <3>1. \A h \in Nodes : Keeps(h)
      BY <1>3, <1>4, <2>3, HomeTake, HomePing, HomeDecode, Zenon
    <3> QED
      BY <1>3, <2>1, <3>1, QuietReceive, Zenon
  <2> QED
    BY <1>7, <2>2, <2>3, Zenon
<1> QED
  BY <1>1, <1>5, <1>6, <1>7, Zenon

\* At the start there is nothing to put in order.
LEMMA QuietInit == BusInit => QuietInv
<1> SUFFICES ASSUME BusInit, NEW n \in Nodes
             PROVE  /\ OneCallOf(call[n], tx[n]) /\ Done(n)
                    /\ StreamOf(rx[n], ev[n], buf[n].data) /\ HandingOf(ev[n], buf[n])
                    /\ Ends(n) /\ WholeHeard(heard[n])
  BY Zenon DEF QuietInv, QuietSent, QuietHeard
<1>1. \A k \in Nodes : tx[k].pc = "recv"
  BY DEF BusInit
<1>2. /\ rx[n] = <<>> /\ ev[n].pc = "recv" /\ buf[n].data = <<>> /\ buf[n].cbsem = 0
      /\ buf[n].waitsem = 0 /\ heard[n] = <<>> /\ call[n].pc = "idle" /\ call[n].sem = "null"
      /\ call[n].queue = <<>> /\ call[n].msg.id = 0
  BY DEF BusInit, NoOne
<1>3. OneCallOf(call[n], tx[n])
  BY <1>1, <1>2 DEF OneCallOf
<1>4. ~Passed(tx[n]) /\ ~Told(call[n], outcome)
  BY <1>1, <1>2 DEF Passed, Told
<1>5. StreamOf(rx[n], ev[n], buf[n].data)
  BY <1>2 DEF StreamOf, FirstIn, Adjacent
<1>6. HandingOf(ev[n], buf[n])
  BY <1>2 DEF HandingOf
<1>7. WholeHeard(heard[n])
  BY <1>2 DEF WholeHeard
<1>8. IsWhole(buf[n].data) /\ LastIn(rx[n], DataFrames, Wholes) /\ ev[n].pc # "decode"
  BY <1>2 DEF IsWhole, LastIn
<1>9. \A k \in Nodes : ~MidwayOf(tx[k], k, n)
  BY <1>1 DEF MidwayOf, Writing
<1>10. Ends(n)
  BY <1>8, <1>9, Zenon DEF Ends, EndsWhole, AtEnd
<1> QED
  BY <1>3, <1>4, <1>5, <1>6, <1>7, <1>10, Zenon DEF Done

\* The order gives what the property promises.
LEMMA QuietMeans == BusTypes /\ QuietInv => QuietBusDelivers
<1> SUFFICES ASSUME BusTypes, QuietInv, QuietBus
             PROVE  /\ \A n \in Nodes : \A i \in 1 .. Len(heard[n]) : IsWhole(heard[n][i].data)
                    /\ \A m \in Ids : outcome[m] = "ok" =>
                          \A k \in Nodes : call[k].msg.id = m =>
                             \A n \in Hearers([NoBus EXCEPT !.from = k, !.to = call[k].msg.to]) :
                                m \in HeardBy(n) \/ OnItsWay(n, m)
  BY Zenon DEF QuietBusDelivers, QuietBus
<1>1. QuietSent /\ QuietHeard
  BY Zenon DEF QuietInv
<1>2. \A n \in Nodes : \A i \in 1 .. Len(heard[n]) : IsWhole(heard[n][i].data)
  BY <1>1, Zenon DEF QuietHeard, WholeHeard
<1>3. ASSUME NEW m \in Ids, outcome[m] = "ok", NEW k \in Nodes, call[k].msg.id = m,
             NEW n \in Hearers([NoBus EXCEPT !.from = k, !.to = call[k].msg.to])
      PROVE  m \in HeardBy(n) \/ OnItsWay(n, m)
  <2>1. n \in Nodes /\ Addressed(call[k].msg, k, n)
    BY <1>3 DEF Hearers, NoBus, Addressed
  <2>2. Told(call[k], outcome)
    BY <1>3, BusAssumption DEF Told, Ids
  <2>3. Reached(n, m)
    BY <1>1, <1>3, <2>1, <2>2, Zenon DEF QuietSent, Done
  <2>4. CASE m \in {heard[n][i].data[1] : i \in 1 .. Len(heard[n])}
    BY <2>4, Zenon DEF HeardBy
  <2>5. CASE ev[n].pc = "cbwait" /\ buf[n].cbsem = 1 /\ ev[n].frame.msg = m
    BY <2>5 DEF OnItsWay
  <2>6. CASE ev[n].pc = "decode" /\ ev[n].frame \in Finals(m)
    BY <2>6 DEF OnItsWay, Finals
  <2>7. CASE Has(rx[n], Finals(m))
    BY <2>7 DEF OnItsWay, Has, Finals
  <2> QED
    BY <2>3, <2>4, <2>5, <2>6, <2>7, Zenon DEF Reached, ReachedIn
<1> QED
  BY <1>2, <1>3, Zenon

-----------------------------------------------------------------------------
(* The bus: the invariant as a whole.                                       *)

BusInv == BusTypes /\ IdsApart /\ BusOnce /\ BusPingInv /\ QuietInv

\* The invariant of the bus holds at the start.
LEMMA BusInvInit == BusInit => BusInv
BY BusTypesInit, BusOnceInit, BusPingInit, QuietInit, Zenon DEF BusInv

\* Every step of the bus keeps it.
LEMMA BusInvStep == BusInv /\ [BusNext]_busVars => BusInv'
<1> SUFFICES ASSUME BusInv, [BusNext]_busVars PROVE BusInv'
  OBVIOUS
<1>1. CASE BusNext
  BY <1>1, BusTypesStep, IdsApartStep, BusOnceStep, BusPingStep, QuietStep, Zenon DEF BusInv
<1>2. CASE UNCHANGED busVars
  <2>1. /\ rx' = rx /\ call' = call /\ tx' = tx /\ ack' = ack /\ ev' = ev /\ buf' = buf
        /\ ping' = ping /\ offered' = offered /\ outcome' = outcome /\ heard' = heard /\ upset' = upset
    BY <1>2 DEF busVars
  <2>2. BusTypes'
    BY <2>1, Zenon DEF BusInv, BusTypes, RxTypes, CallTypes, TxTypes, AckTypes, EvTypes, BufTypes,
                       PingTypes, GhostTypes
  <2>3. IdsApart'
    BY <2>1, Zenon DEF BusInv, IdsApart, IdsOf, QueueIds
  <2>4. \A m \in Ids : Unsent(m)' => Unsent(m)
    BY <2>1, Zenon DEF Unsent, QueueIds
  <2>5. BusOnce'
    BY <2>1, <2>4, OnceStill, Zenon DEF BusInv
  <2>6. BusPingInv'
    <3> SUFFICES ASSUME NEW n \in Pingers PROVE PingAt(n)'
      BY PingAtMeans, Zenon
    <3>1. n \in Nodes /\ PingAt(n) /\ ping'[n] = ping[n] /\ upset \subseteq upset'
      BY <2>1, PingAtMeans, BusAssumption DEF BusInv
    <3> QED
      BY <2>1, <3>1, PingsStaySame, PingAtKept, Zenon DEF BusInv
  <2>7. QuietInv'
    <3> SUFFICES ASSUME QuietBus' PROVE QuietSent' /\ QuietHeard'
      BY Zenon DEF QuietInv
    <3>1. QuietSent /\ QuietHeard
      BY <2>1, Zenon DEF QuietInv, QuietBus, BusInv
    <3>2. \A h \in Nodes : Keeps(h)
      BY <2>1, <3>1, HomeStill, QuietHeardMeans, Zenon
    <3> QED
      BY <2>1, <3>1, <3>2, QuietReceive, Zenon DEF BusInv
  <2> QED
    BY <2>2, <2>3, <2>5, <2>6, <2>7, Zenon DEF BusInv
<1> QED
  BY <1>1, <1>2

\* It gives the types and the three promises.
LEMMA BusInvMeans == BusInv => BusTypeOK /\ HeardOnce /\ QuietBusDelivers /\ PingTruth
<1>1. BusOnce => HeardOnce
  BY Zenon DEF BusOnce
<1>2. BusPingInv => PingTruth
  BY Zenon DEF BusPingInv
<1> QED
  BY <1>1, <1>2, QuietMeans, BusTypesMeans, Zenon DEF BusInv

\* The bus by itself: the types; a message is heard once, whatever is lost, late
\* or cut short; on a quiet bus it is heard whole, and everywhere Sender said it
\* was sent to; ping says what is true unless a pong outlived its wait.
THEOREM BusDelivers == BusSpec => [](BusTypeOK /\ HeardOnce /\ QuietBusDelivers /\ PingTruth)
<1>1. BusInit => BusInv
  BY BusInvInit
<1>2. BusInv /\ [BusNext]_busVars => BusInv'
  BY BusInvStep
<1>3. BusInv => BusTypeOK /\ HeardOnce /\ QuietBusDelivers /\ PingTruth
  BY BusInvMeans
<1> QED
  BY <1>1, <1>2, <1>3, PTL DEF BusSpec
=============================================================================
