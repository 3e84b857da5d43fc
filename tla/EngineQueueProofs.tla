-------------------------- MODULE EngineQueueProofs --------------------------
(***************************************************************************)
(* The queue, the drain loop and the recurring loop of the engine, proved  *)
(* for any number of rounds, fixes, ticks and commands.                    *)
(***************************************************************************)
EXTENDS EngineQueue, FiniteSetTheorems, WellFoundedInduction, SequenceTheorems, TLAPS

-----------------------------------------------------------------------------
(* Queues, seen as sets of jobs *)

\* Induction over a set: what contains 0 and the successor of each of its
\* members contains every natural number.  A smallest counterexample exists
\* because finite sets are well-founded under inclusion.
LEMMA SetInduction ==
  ASSUME NEW P \in SUBSET Nat, 0 \in P, \A n \in P : n + 1 \in P
  PROVE  \A n \in Nat : n \in P
<1> SUFFICES ASSUME NEW n \in Nat, n \notin P  PROVE FALSE
  OBVIOUS
<1> DEFINE S == 0..n
           T == {0..k : k \in {j \in 0..n : j \notin P}}
<1>1. IsWellFoundedOn(StrictSubsetOrdering(S), SUBSET S)
  <2>1. IsFiniteSet(S)
    BY FS_Interval
  <2>2. FiniteSubsetsOf(S) = SUBSET S
    BY <2>1, FS_FiniteSubsetsOfFinite
  <2>3. IsWellFoundedOn(StrictSubsetOrdering(S), FiniteSubsetsOf(S))
    BY FS_StrictSubsetOrderingWellFounded
  <2> QED  BY <2>2, <2>3
<1>2. T \subseteq SUBSET S /\ 0..n \in T
  OBVIOUS
<1> HIDE DEF S, T
<1>3. PICK x \in T : \A y \in T : <<y, x>> \notin StrictSubsetOrdering(S)
  BY <1>1, <1>2, WFMin
<1>4. PICK k \in 0..n : k \notin P /\ x = 0..k
  BY <1>3 DEF T
<1>5. k # 0
  BY <1>4
<1>6. k - 1 \in 0..n /\ (k - 1) + 1 = k
  BY <1>4, <1>5
<1>7. k - 1 \notin P
  BY <1>4, <1>6
<1>8. 0..(k - 1) \in T
  BY <1>6, <1>7 DEF T
<1>9. 0..(k - 1) \subseteq 0..k /\ 0..(k - 1) # 0..k
  <2>1. k \in 0..k /\ k \notin 0..(k - 1)
    BY <1>4
  <2> QED  BY <2>1, <1>6
<1>10. <<0..(k - 1), x>> \in StrictSubsetOrdering(S)
  <2>1. 0..k \in SUBSET S /\ 0..(k - 1) \in SUBSET S
    BY <1>4, <1>6 DEF S
  <2> QED  BY <2>1, <1>4, <1>9 DEF StrictSubsetOrdering
<1> QED  BY <1>3, <1>8, <1>10

\* What Without computes, step by step.
Dropping(q, kinds, n, f) ==
  f = [i \in 0..n |->
         IF i = 0 THEN <<>>
         ELSE IF q[i].kind \in kinds THEN f[i - 1] ELSE Append(f[i - 1], q[i])]

LEMMA AppendSet ==
  ASSUME NEW S, NEW q \in Seq(S), NEW j \in S
  PROVE  /\ Append(q, j) \in Seq(S) /\ Append(q, j) # <<>>
         /\ ToSet(Append(q, j)) = ToSet(q) \cup {j}
<1>1. /\ Append(q, j) \in Seq(S) /\ Len(Append(q, j)) = Len(q) + 1
      /\ \A i \in 1..Len(q) : Append(q, j)[i] = q[i]
      /\ Append(q, j)[Len(q) + 1] = j
  BY AppendProperties
<1>2. DOMAIN q = 1..Len(q) /\ DOMAIN Append(q, j) = 1..(Len(q) + 1) /\ Len(q) \in Nat
  BY <1>1, LenProperties
<1>3. DOMAIN Append(q, j) = DOMAIN q \cup {Len(q) + 1} /\ Len(q) + 1 \notin DOMAIN q
  BY <1>2
<1> QED  BY <1>1, <1>2, <1>3 DEF ToSet

Undropped(q, kinds, i) == {q[k] : k \in {m \in 1..i : q[m].kind \notin kinds}}

\* A function as Without's exists for every length.
LEMMA DroppingExists ==
  ASSUME NEW q, NEW kinds
  PROVE  \A n \in Nat : \E f : Dropping(q, kinds, n, f)
<1> DEFINE P == {n \in Nat : \E f : Dropping(q, kinds, n, f)}
<1>1. 0 \in P
  <2> DEFINE f == [i \in 0..0 |-> <<>>]
  <2>1. Dropping(q, kinds, 0, f)
    BY DEF Dropping
  <2> QED  BY <2>1
<1>2. ASSUME NEW n \in P  PROVE n + 1 \in P
  <2>0. n \in Nat
    OBVIOUS
  <2>1. PICK f : Dropping(q, kinds, n, f)
    OBVIOUS
  <2> DEFINE step == IF q[n + 1].kind \in kinds THEN f[n] ELSE Append(f[n], q[n + 1])
             g == [i \in 0..(n + 1) |-> IF i = n + 1 THEN step ELSE f[i]]
  <2>2. \A i \in 0..n : g[i] = f[i] /\ i # n + 1
    BY <2>0
  <2>3. g[n + 1] = step /\ g = [i \in 0..(n + 1) |-> g[i]]
    BY <2>0
  <2>4. f = [i \in 0..n |-> IF i = 0 THEN <<>>
              ELSE IF q[i].kind \in kinds THEN f[i - 1] ELSE Append(f[i - 1], q[i])]
    BY <2>1 DEF Dropping
  <2> HIDE DEF g
  <2>5. ASSUME NEW i \in 0..(n + 1)
        PROVE  g[i] = IF i = 0 THEN <<>>
                      ELSE IF q[i].kind \in kinds THEN g[i - 1] ELSE Append(g[i - 1], q[i])
    <3>1. CASE i = n + 1
      <4>1. i - 1 = n /\ i # 0 /\ n \in 0..n
        BY <3>1, <2>0
      <4> QED  BY <3>1, <4>1, <2>2, <2>3
    <3>2. CASE i # n + 1 /\ i # 0
      <4>1. i \in 0..n /\ i - 1 \in 0..n
        BY <3>2, <2>0
      <4>2. g[i] = f[i] /\ g[i - 1] = f[i - 1]
        BY <4>1, <2>2
      <4>3. f[i] = IF q[i].kind \in kinds THEN f[i - 1] ELSE Append(f[i - 1], q[i])
        BY <2>4, <4>1, <3>2
      <4> QED  BY <4>2, <4>3, <3>2
    <3>3. CASE i = 0
      <4>1. 0 \in 0..n /\ f[0] = <<>>
        BY <2>4, <2>0
      <4> QED  BY <4>1, <3>3, <2>2
    <3> QED  BY <3>1, <3>2, <3>3
  <2>6. Dropping(q, kinds, n + 1, g)
    BY <2>3, <2>5 DEF Dropping
  <2> QED  BY <2>0, <2>6
<1> HIDE DEF P
<1>3. P \in SUBSET Nat
  BY DEF P
<1>4. \A n \in Nat : n \in P
  BY <1>1, <1>2, <1>3, SetInduction
<1> QED  BY <1>4 DEF P

\* Each of its values holds the jobs of a prefix that are not dropped.
LEMMA DroppingValues ==
  ASSUME NEW S, NEW q \in Seq(S), NEW kinds, NEW f, Dropping(q, kinds, Len(q), f)
  PROVE  \A i \in 0..Len(q) :
           /\ f[i] \in Seq(S)
           /\ ToSet(f[i]) = Undropped(q, kinds, i)
<1> DEFINE n == Len(q)
           P == {i \in Nat : i <= n => f[i] \in Seq(S) /\ ToSet(f[i]) = Undropped(q, kinds, i)}
<1>1. n \in Nat
  BY LenProperties
<1>2. f = [i \in 0..n |-> IF i = 0 THEN <<>>
            ELSE IF q[i].kind \in kinds THEN f[i - 1] ELSE Append(f[i - 1], q[i])]
  BY DEF Dropping
<1>3. 0 \in P
  <2>1. 0 \in 0..n /\ f[0] = <<>>
    BY <1>1, <1>2
  <2>2. Undropped(q, kinds, 0) = {}
    BY DEF Undropped
  <2>3. <<>> \in Seq(S) /\ ToSet(<<>>) = {}
    BY DEF ToSet
  <2> QED  BY <2>1, <2>2, <2>3
<1>4. ASSUME NEW i \in P  PROVE i + 1 \in P
  <2>1. i \in Nat
    OBVIOUS
  <2> SUFFICES ASSUME i + 1 <= n
               PROVE  f[i + 1] \in Seq(S) /\ ToSet(f[i + 1]) = Undropped(q, kinds, i + 1)
    BY <2>1
  <2>2. f[i] \in Seq(S) /\ ToSet(f[i]) = Undropped(q, kinds, i)
    BY <2>1, <1>1
  <2>3. i + 1 \in 0..n /\ i + 1 # 0 /\ (i + 1) - 1 = i /\ i + 1 \in 1..n
    BY <2>1, <1>1
  <2>4. f[i + 1] = IF q[i + 1].kind \in kinds THEN f[i] ELSE Append(f[i], q[i + 1])
    BY <2>3, <1>2
  <2>5. q[i + 1] \in S
    BY <2>3, ElementOfSeq
  <2>6. 1..(i + 1) = 1..i \cup {i + 1}
    BY <2>1
  <2>7. CASE q[i + 1].kind \in kinds
    <3>1. {m \in 1..(i + 1) : q[m].kind \notin kinds} = {m \in 1..i : q[m].kind \notin kinds}
      BY <2>6, <2>7
    <3>2. Undropped(q, kinds, i + 1) = Undropped(q, kinds, i)
      BY <3>1 DEF Undropped
    <3> QED  BY <2>2, <2>4, <2>7, <3>2
  <2>8. CASE q[i + 1].kind \notin kinds
    <3>1. {m \in 1..(i + 1) : q[m].kind \notin kinds}
            = {m \in 1..i : q[m].kind \notin kinds} \cup {i + 1}
      BY <2>6, <2>8
    <3>2. Undropped(q, kinds, i + 1) = Undropped(q, kinds, i) \cup {q[i + 1]}
      BY <3>1 DEF Undropped
    <3>3. f[i + 1] = Append(f[i], q[i + 1])
      BY <2>4, <2>8
    <3>4. /\ Append(f[i], q[i + 1]) \in Seq(S)
          /\ ToSet(Append(f[i], q[i + 1])) = ToSet(f[i]) \cup {q[i + 1]}
      BY <2>2, <2>5, AppendSet
    <3> QED  BY <2>2, <3>2, <3>3, <3>4
  <2> QED  BY <2>7, <2>8
<1> HIDE DEF P
<1>5. P \in SUBSET Nat
  BY DEF P
<1>6. \A i \in Nat : i \in P
  BY <1>3, <1>4, <1>5, SetInduction
<1>7. ASSUME NEW i \in 0..n  PROVE f[i] \in Seq(S) /\ ToSet(f[i]) = Undropped(q, kinds, i)
  <2>1. i \in Nat /\ i <= n
    BY <1>1
  <2> QED  BY <2>1, <1>6 DEF P
<1> QED  BY <1>7

\* Dropping the jobs of some kinds leaves the others.
LEMMA WithoutSet ==
  ASSUME NEW S, NEW q \in Seq(S), NEW kinds
  PROVE  /\ Without(q, kinds) \in Seq(S)
         /\ ToSet(Without(q, kinds)) = {j \in ToSet(q) : j.kind \notin kinds}
<1> DEFINE n == Len(q)
           kept == CHOOSE f : Dropping(q, kinds, n, f)
<1>1. n \in Nat /\ n <= Len(q) /\ n \in 0..n /\ DOMAIN q = 1..n
  BY LenProperties
<1>2. \E f : Dropping(q, kinds, n, f)
  BY <1>1, DroppingExists
<1>3. Dropping(q, kinds, n, kept)
  BY <1>2
<1>4. Without(q, kinds) = kept[n]
  BY DEF Without, Dropping
<1> HIDE DEF kept
<1>5. kept[n] \in Seq(S) /\ ToSet(kept[n]) = Undropped(q, kinds, n)
  BY <1>1, <1>3, DroppingValues
<1>6. Undropped(q, kinds, n) = {j \in ToSet(q) : j.kind \notin kinds}
  BY <1>1 DEF ToSet, Undropped
<1> QED  BY <1>4, <1>5, <1>6

LEMMA EmptySet ==
  /\ ToSet(<<>>) = {}
  /\ \A S : <<>> \in Seq(S)
BY EmptySeq DEF ToSet

LEMMA HeadTailSet ==
  ASSUME NEW S, NEW q \in Seq(S), q # <<>>
  PROVE  /\ Head(q) \in S /\ Tail(q) \in Seq(S)
         /\ ToSet(q) = {Head(q)} \cup ToSet(Tail(q))
<1>1. /\ Head(q) \in S /\ Tail(q) \in Seq(S) /\ Len(Tail(q)) = Len(q) - 1
      /\ \A i \in 1..Len(Tail(q)) : Tail(q)[i] = q[i + 1]
  BY HeadTailProperties
<1>2. Len(q) \in Nat \ {0} /\ DOMAIN q = 1..Len(q) /\ DOMAIN Tail(q) = 1..(Len(q) - 1)
  BY <1>1, LenProperties, EmptySeq
<1>3. Head(q) = q[1]
  OBVIOUS
<1>4. ASSUME NEW j \in ToSet(q)  PROVE j \in {Head(q)} \cup ToSet(Tail(q))
  <2>1. PICK i \in 1..Len(q) : j = q[i]
    BY <1>2 DEF ToSet
  <2>2. CASE i = 1
    BY <2>1, <2>2, <1>3
  <2>3. CASE i # 1
    <3>1. i - 1 \in 1..(Len(q) - 1) /\ (i - 1) + 1 = i
      BY <2>1, <2>3, <1>2
    <3>2. Tail(q)[i - 1] = j
      BY <3>1, <1>1, <2>1
    <3> QED  BY <3>1, <3>2, <1>2 DEF ToSet
  <2> QED  BY <2>2, <2>3
<1>5. ASSUME NEW j \in ToSet(Tail(q))  PROVE j \in ToSet(q)
  <2>1. PICK i \in 1..(Len(q) - 1) : j = Tail(q)[i]
    BY <1>2 DEF ToSet
  <2>2. i + 1 \in 1..Len(q) /\ j = q[i + 1]
    BY <2>1, <1>1, <1>2
  <2> QED  BY <2>2, <1>2 DEF ToSet
<1>6. Head(q) \in ToSet(q)
  <2>1. 1 \in 1..Len(q)
    BY <1>2
  <2> QED  BY <2>1, <1>2, <1>3 DEF ToSet
<1> QED  BY <1>1, <1>4, <1>5, <1>6

\* Removing a job, and putting it in front.
LEMMA RemoveAtSet ==
  ASSUME NEW S, NEW q \in Seq(S), NEW i \in DOMAIN q
  PROVE  /\ q[i] \in S /\ RemoveAt(q, i) \in Seq(S)
         /\ ToSet(q) = {q[i]} \cup ToSet(RemoveAt(q, i))
         /\ <<q[i]>> \o RemoveAt(q, i) \in Seq(S)
         /\ ToSet(<<q[i]>> \o RemoveAt(q, i)) = ToSet(q)
<1> DEFINE n == Len(q)
           a == SubSeq(q, 1, i - 1)
           b == SubSeq(q, i + 1, n)
           r == a \o b
<1>1. n \in Nat /\ DOMAIN q = 1..n /\ i \in 1..n /\ q \in [1..n -> S]
  BY LenProperties
<1>2. q[i] \in S
  BY <1>1
<1>3. /\ a \in Seq(S) /\ Len(a) = i - 1
      /\ \A k \in 1..(i - 1) : a[k] = q[k]
  <2>1. \A k \in 1..(i - 1) : q[k] \in S
    BY <1>1
  <2>2. i - 1 \in Int /\ 1 \in Int /\ (i - 1) - 1 + 1 = i - 1
    BY <1>1
  <2>3. /\ a \in Seq(S) /\ Len(a) = IF 1 <= i - 1 THEN (i - 1) - 1 + 1 ELSE 0
        /\ \A k \in 1..((i - 1) - 1 + 1) : a[k] = q[1 + k - 1]
    BY <2>1, <2>2, SubSeqProperties
  <2>4. \A k \in 1..(i - 1) : 1 + k - 1 = k
    OBVIOUS
  <2> QED  BY <2>2, <2>3, <2>4, <1>1
<1>4. /\ b \in Seq(S) /\ Len(b) = n - i
      /\ \A k \in 1..(n - i) : b[k] = q[i + k]
  <2>1. \A k \in (i + 1)..n : q[k] \in S
    BY <1>1
  <2>2. i + 1 \in Int /\ n \in Int /\ n - (i + 1) + 1 = n - i
    BY <1>1
  <2>3. /\ b \in Seq(S) /\ Len(b) = IF i + 1 <= n THEN n - (i + 1) + 1 ELSE 0
        /\ \A k \in 1..(n - (i + 1) + 1) : b[k] = q[i + 1 + k - 1]
    BY <2>1, <2>2, SubSeqProperties
  <2>4. \A k \in 1..(n - i) : i + 1 + k - 1 = i + k
    BY <1>1
  <2> QED  BY <2>2, <2>3, <2>4, <1>1
<1> HIDE DEF a, b
<1>5. /\ r \in Seq(S) /\ Len(r) = (i - 1) + (n - i)
      /\ \A k \in 1..((i - 1) + (n - i)) : r[k] = IF k <= i - 1 THEN a[k] ELSE b[k - (i - 1)]
  <2>1. /\ a \o b \in Seq(S) /\ Len(a \o b) = Len(a) + Len(b)
        /\ \A k \in 1..(Len(a) + Len(b)) :
             (a \o b)[k] = IF k <= Len(a) THEN a[k] ELSE b[k - Len(a)]
    BY <1>3, <1>4, ConcatProperties
  <2> QED  BY <2>1, <1>3, <1>4
<1>6. RemoveAt(q, i) = r
  BY DEF RemoveAt, a, b
<1> HIDE DEF r
<1>7. DOMAIN r = 1..(n - 1) /\ Len(r) = n - 1
  <2>1. (i - 1) + (n - i) = n - 1
    BY <1>1
  <2> QED  BY <2>1, <1>5, LenProperties
<1>8. \A k \in 1..(n - 1) : r[k] = IF k <= i - 1 THEN q[k] ELSE q[k + 1]
  <2> SUFFICES ASSUME NEW k \in 1..(n - 1)
               PROVE  r[k] = IF k <= i - 1 THEN q[k] ELSE q[k + 1]
    OBVIOUS
  <2>1. k \in 1..((i - 1) + (n - i))
    BY <1>1
  <2>2. CASE k <= i - 1
    <3>1. k \in 1..(i - 1)
      BY <2>2, <1>1
    <3> QED  BY <3>1, <2>1, <2>2, <1>3, <1>5
  <2>3. CASE ~(k <= i - 1)
    <3>1. k - (i - 1) \in 1..(n - i) /\ i + (k - (i - 1)) = k + 1
      BY <2>3, <1>1
    <3> QED  BY <3>1, <2>1, <2>3, <1>4, <1>5
  <2> QED  BY <2>2, <2>3
<1>9. ASSUME NEW j \in ToSet(r)  PROVE j \in ToSet(q)
  <2>1. PICK k \in 1..(n - 1) : j = r[k]
    BY <1>7 DEF ToSet
  <2>2. k \in 1..n /\ k + 1 \in 1..n
    BY <1>1
  <2> QED  BY <2>1, <2>2, <1>1, <1>8 DEF ToSet
<1>10. ASSUME NEW j \in ToSet(q)  PROVE j = q[i] \/ j \in ToSet(r)
  <2>1. PICK k \in 1..n : j = q[k]
    BY <1>1 DEF ToSet
  <2>2. CASE k < i
    <3>1. k \in 1..(n - 1) /\ k <= i - 1
      BY <2>2, <1>1
    <3>2. r[k] = j
      BY <3>1, <2>1, <1>8
    <3> QED  BY <3>1, <3>2, <1>7 DEF ToSet
  <2>3. CASE k > i
    <3>1. k - 1 \in 1..(n - 1) /\ ~(k - 1 <= i - 1) /\ (k - 1) + 1 = k
      BY <2>3, <1>1
    <3>2. r[k - 1] = j
      BY <3>1, <2>1, <1>8
    <3> QED  BY <3>1, <3>2, <1>7 DEF ToSet
  <2>4. CASE k = i
    BY <2>1, <2>4
  <2> QED  BY <2>2, <2>3, <2>4, <1>1
<1>11. q[i] \in ToSet(q)
  BY DEF ToSet
<1>12. <<q[i]>> \o r \in Seq(S) /\ ToSet(<<q[i]>> \o r) = {q[i]} \cup ToSet(r)
  <2>1. <<q[i]>> \in Seq(S) /\ Len(<<q[i]>>) = 1
    BY <1>2
  <2> DEFINE c == <<q[i]>> \o r
  <2>2. /\ c \in Seq(S) /\ Len(c) = 1 + (n - 1)
        /\ \A k \in 1..(1 + (n - 1)) : c[k] = IF k <= 1 THEN <<q[i]>>[k] ELSE r[k - 1]
    BY <2>1, <1>5, <1>7, ConcatProperties
  <2> HIDE DEF c
  <2>3. DOMAIN c = 1..n /\ 1 + (n - 1) = n
    BY <2>2, <1>1, LenProperties
  <2>4. c[1] = q[i] /\ 1 \in 1..n
    <3>1. 1 \in 1..n
      BY <1>1
    <3>2. <<q[i]>>[1] = q[i]
      OBVIOUS
    <3> QED  BY <3>1, <3>2, <2>2, <2>3
  <2>5. \A k \in 1..(n - 1) : k + 1 \in 1..n /\ c[k + 1] = r[k]
    <3> SUFFICES ASSUME NEW k \in 1..(n - 1)  PROVE k + 1 \in 1..n /\ c[k + 1] = r[k]
      OBVIOUS
    <3>1. k + 1 \in 1..n /\ ~(k + 1 <= 1) /\ (k + 1) - 1 = k
      BY <1>1
    <3> QED  BY <3>1, <2>2, <2>3
  <2>6. ASSUME NEW k \in 1..n  PROVE c[k] \in {q[i]} \cup ToSet(r)
    <3>1. CASE k = 1
      BY <3>1, <2>4
    <3>2. CASE k # 1
      <4>1. k - 1 \in 1..(n - 1) /\ (k - 1) + 1 = k
        BY <3>2, <1>1
      <4>2. c[k] = r[k - 1]
        BY <4>1, <2>5
      <4> QED  BY <4>1, <4>2, <1>7 DEF ToSet
    <3> QED  BY <3>1, <3>2
  <2>7. ToSet(c) \subseteq {q[i]} \cup ToSet(r)
    BY <2>3, <2>6 DEF ToSet
  <2>8. {q[i]} \cup ToSet(r) \subseteq ToSet(c)
    BY <2>3, <2>4, <2>5, <1>7 DEF ToSet
  <2> QED  BY <2>2, <2>7, <2>8 DEF c
<1> QED  BY <1>2, <1>5, <1>6, <1>9, <1>10, <1>11, <1>12

LEMMA EmptyQueue ==
  ASSUME NEW S, NEW q \in Seq(S)
  PROVE  ToSet(q) = {} <=> q = <<>>
<1>1. CASE q = <<>>
  BY <1>1, EmptySet
<1>2. CASE q # <<>>
  BY <1>2, HeadTailSet
<1> QED  BY <1>1, <1>2

-----------------------------------------------------------------------------
(* The inductive invariant *)

GoalQueued == \E j \in ToSet(pending) : IsGoal(j)

\* The drain loop ends without a job in hand, and only when nothing waits.
QueueInv ==
  /\ at \in {"idle", "yield", "hook"} => active = None
  /\ at = "idle" => ToSet(pending) = {}

\* While the verdict of an assessment is awaited, the run it is for queues no
\* turn: what would do so is another run, and the epoch tells them apart.
GoalInv ==
  /\ ~run => ~GoalQueued
  /\ at = "assess" /\ run /\ epochKept => ~GoalQueued
  /\ run => clean <= 1

\* The controller, its iterations, queued or running, and one about to start
\* have an id that is not 0.
IdInv ==
  /\ loop = 0 <=> loopAt = "none"
  /\ loopAt = "timer" => ticks < MaxTicks
  /\ \A j \in ToSet(pending) : j.kind = "tick" => j.loop # 0
  /\ active.kind = "tick" => active.loop # 0
  /\ at = "other" => inputs # 0
  /\ \A j \in ToSet(pending) : j.kind = "other" => inputs # 0

\* A controller that awaits its iteration has it in the queue or in hand.
WaitInv ==
  loopAt = "awaiting" =>
    \/ active = Tick(loop) /\ at \in TurnPlace \cup {"continue", "check", "assess", "end"}
    \/ Tick(loop) \in ToSet(pending)

\* What a stop leaves behind is gone while a run is live, or a turn that was not
\* cancelled is followed up.
StopInv ==
  /\ run => ~userStop
  /\ /\ at \in {"turn", "gate", "review", "commit", "continue", "check", "assess"}
     /\ active.kind # "resume"
     => ~interrupted

OfRun(j) == (IsGoal(j) /\ j.kind # "resume") \/ j.kind = "fix"

\* A live run has a driver: the task chain that is armed, the plan turn that
\* runs or waits, the turn of a run that replaced the one being assessed, or what
\* its last turn queued before it ended.
DriverInv ==
  /\ at = "check" /\ planExec /\ active.kind # "resume" => ToSet(pending) # {}
  /\ run /\ phase = "plan" /\ ~closing =>
       \/ active.kind = "plan" /\ at # "next"
       \/ \E j \in ToSet(pending) : j.kind = "plan"
  /\ at = "assess" /\ run /\ ~epochKept /\ ~closing => GoalQueued
  /\ at = "other" => active.kind = "other"
  /\ at = "end" /\ OfRun(active) /\ run /\ ~aborted /\ ~closing =>
       ToSet(pending) # {} \/ fixPending \/ active.kind = "plan"

EngineInv ==
  EngineTypeOK /\ QueueInv /\ GoalInv /\ IdInv /\ WaitInv /\ StopInv /\ DriverInv

-----------------------------------------------------------------------------
(* Jobs, and what the shared helpers do to the queue *)

LEMMA JobForms ==
  /\ \A k \in Kind : Plain(k) \in Job /\ Plain(k).kind = k
  /\ \A k \in Kind, g \in Goal \cup {NoGoal} : ForGoal(k, g) \in Job /\ ForGoal(k, g).kind = k
  /\ \A l \in Nat : Tick(l) \in Job /\ Tick(l).kind = "tick" /\ Tick(l).loop = l
  /\ \A j \in Job : j.kind \in Kind /\ j.goal \in Goal \cup {NoGoal} /\ j.loop \in Nat
  /\ None.kind = "none"
BY DEF Job, Plain, ForGoal, Tick, None, Kind, TurnKind, GoalKind

LEMMA EnqueueSet ==
  ASSUME NEW q \in Seq(Job), NEW j \in Job, Enqueue(q, j)
  PROVE  pending' \in Seq(Job) /\ ToSet(pending') = ToSet(q) \cup {j}
BY AppendSet DEF Enqueue

LEMMA SweepSet ==
  ASSUME NEW q \in Seq(Job)
  PROVE  /\ Sweep(q) \in Seq(Job)
         /\ ToSet(Sweep(q)) = {j \in ToSet(q) : ~IsGoal(j)}
BY WithoutSet DEF Sweep, IsGoal

\* A pause keeps what is not the run's, drops what is, and leaves the run's
\* counts alone.
LEMMA PauseSet ==
  ASSUME GoalType, NEW q \in Seq(Job), PauseGoalRun(q)
  PROVE  /\ pending' \in Seq(Job) /\ ToSet(pending') \subseteq ToSet(q)
         /\ \A j \in ToSet(q) : ~IsGoal(j) => j \in ToSet(pending')
         /\ run => \A j \in ToSet(pending') : ~IsGoal(j)
         /\ run' = FALSE /\ epochKept' \in BOOLEAN
         /\ status' \in {"none", "paused", "verified", "accept", "met"}
         /\ UNCHANGED <<goal, phase, rounds, clean>>
<1>1. /\ Sweep(q) \in Seq(Job)
      /\ ToSet(Sweep(q)) = {j \in ToSet(q) : ~IsGoal(j)}
  BY SweepSet
<1> QED  BY <1>1 DEF PauseGoalRun, GoalType

LEMMA NothingSpentType == NothingSpent \in Spending
BY EngineAssumption DEF NothingSpent, Spending

\* A pause leaves the run's state of its type.
LEMMA PauseType ==
  ASSUME GoalType, NEW q, PauseGoalRun(q)
  PROVE  GoalType'
<1>1. run' = FALSE /\ epochKept' \in BOOLEAN
  BY DEF PauseGoalRun, GoalType
<1>2. status' \in {"none", "paused", "verified", "accept", "met"}
  BY DEF PauseGoalRun, GoalType
<1>3. UNCHANGED <<goal, phase, rounds, clean>>
  BY DEF PauseGoalRun
<1> QED  BY <1>1, <1>2, <1>3 DEF GoalType

LEMMA GoalQueuedAt == (\E i \in DOMAIN pending : IsGoal(pending[i])) <=> GoalQueued
BY DEF GoalQueued, ToSet

-----------------------------------------------------------------------------
(* The drain loop *)

LEMMA TakeSet ==
  ASSUME QueueType, NEW j, Take(j)
  PROVE  /\ pending' \in Seq(Job) /\ j \in Job
         /\ ToSet(pending) = {j} \cup ToSet(pending')
         /\ active' = j
BY HeadTailSet DEF Take, QueueType

LEMMA DrainStepInv ==
  ASSUME EngineInv, DrainStep
  PROVE  EngineInv'
<1> USE EngineAssumption, JobForms
    DEF EngineInv, EngineTypeOK, GoalQueued, IsGoal, OfRun,
        queueVars, goalVars, promptVars, endVars, sessionVars, planVars, loopVars, input,
        Kind, TurnKind, GoalKind, Place, Await, TurnPlace
<1>1. CASE TakePrompt
  <2>1. PICK j : Take(j) /\ TakePrompt!(j)
    BY <1>1 DEF TakePrompt
  <2>2. /\ pending' \in Seq(Job) /\ j \in Job
        /\ ToSet(pending) = {j} \cup ToSet(pending')
        /\ active' = j
    BY <2>1, TakeSet
  <2>3. QueueType'
    BY <2>1, <2>2 DEF Take, QueueType, GoalType
  <2>4. GoalType'
    BY <2>1, <2>2 DEF Take, GoalType, GoalInv
  <2>5. PromptType'
    BY <2>1, <2>2 DEF Take, PromptType
  <2>6. SessionType'
    BY <2>1, <2>2 DEF Take, SessionType
  <2>7. LoopType'
    BY <2>1, <2>2 DEF Take, LoopType, IdInv
  <2>8. QueueInv'
    BY <2>1, <2>2 DEF Take, QueueInv, QueueType
  <2>9. GoalInv'
    BY <2>1, <2>2 DEF Take, GoalInv, GoalType, LoopType
  <2>10. IdInv'
    BY <2>1, <2>2 DEF Take, IdInv, GoalType, LoopType, QueueType
  <2>11. WaitInv'
    BY <2>1, <2>2 DEF Take, WaitInv, IdInv, LoopType, QueueType
  <2>12. StopInv'
    BY <2>1, <2>2 DEF Take, StopInv, GoalType, PromptType, SessionType
  <2>13. DriverInv'
    BY <2>1, <2>2 DEF Take, DriverInv, StopInv, GoalInv, QueueInv, GoalType, QueueType, LoopType
  <2> QED  BY <2>3, <2>4, <2>5, <2>6, <2>7, <2>8, <2>9, <2>10, <2>11, <2>12, <2>13
<1>2. CASE TakeFix
  <2>1. PICK j : Take(j) /\ TakeFix!(j)
    BY <1>2 DEF TakeFix
  <2>2. /\ pending' \in Seq(Job) /\ j \in Job
        /\ ToSet(pending) = {j} \cup ToSet(pending')
        /\ active' = j
    BY <2>1, TakeSet
  <2>3. QueueType'
    BY <2>1, <2>2 DEF Take, QueueType, GoalType
  <2>4. GoalType'
    BY <2>1, <2>2 DEF Take, GoalType, GoalInv
  <2>5. PromptType'
    BY <2>1, <2>2 DEF Take, PromptType
  <2>6. SessionType'
    BY <2>1, <2>2 DEF Take, SessionType
  <2>7. LoopType'
    BY <2>1, <2>2 DEF Take, LoopType, IdInv
  <2>8. QueueInv'
    BY <2>1, <2>2 DEF Take, QueueInv, QueueType
  <2>9. GoalInv'
    BY <2>1, <2>2 DEF Take, GoalInv, GoalType, LoopType
  <2>10. IdInv'
    BY <2>1, <2>2 DEF Take, IdInv, GoalType, LoopType, QueueType
  <2>11. WaitInv'
    BY <2>1, <2>2 DEF Take, WaitInv, IdInv, LoopType, QueueType
  <2>12. StopInv'
    BY <2>1, <2>2 DEF Take, StopInv, GoalType, PromptType, SessionType
  <2>13. DriverInv'
    BY <2>1, <2>2 DEF Take, DriverInv, StopInv, GoalInv, QueueInv, GoalType, QueueType, LoopType
  <2> QED  BY <2>3, <2>4, <2>5, <2>6, <2>7, <2>8, <2>9, <2>10, <2>11, <2>12, <2>13
<1>3. CASE TakeRound
  <2>1. PICK j : Take(j) /\ TakeRound!(j)
    BY <1>3 DEF TakeRound
  <2>2. /\ pending' \in Seq(Job) /\ j \in Job
        /\ ToSet(pending) = {j} \cup ToSet(pending')
        /\ active' = j
    BY <2>1, TakeSet
  <2>3. QueueType'
    BY <2>1, <2>2 DEF Take, ResetPromptBudgets, NothingSpent, QueueType, GoalType
  <2>4. GoalType'
    BY <2>1, <2>2 DEF Take, ResetPromptBudgets, NothingSpent, GoalType, GoalInv
  <2>5. PromptType'
    <3>1. planExec' \in BOOLEAN
      BY <2>1, Zenon DEF ResetPromptBudgets
    <3>2. fixPending' = FALSE /\ userStop' = FALSE /\ spent' = NothingSpent
      BY <2>1 DEF ResetPromptBudgets
    <3>3. NothingSpent \in Spending
      BY NothingSpentType
    <3> QED  BY <3>1, <3>2, <3>3 DEF PromptType
  <2>6. SessionType'
    BY <2>1, <2>2 DEF Take, ResetPromptBudgets, NothingSpent, SessionType
  <2>7. LoopType'
    BY <2>1, <2>2 DEF Take, ResetPromptBudgets, NothingSpent, LoopType, IdInv
  <2>8. QueueInv'
    BY <2>1, <2>2 DEF Take, ResetPromptBudgets, NothingSpent, QueueInv, QueueType
  <2>9. GoalInv'
    BY <2>1, <2>2 DEF Take, ResetPromptBudgets, NothingSpent, GoalInv, GoalType, LoopType
  <2>10. IdInv'
    BY <2>1, <2>2 DEF Take, ResetPromptBudgets, NothingSpent, IdInv, GoalType, LoopType,
       QueueType
  <2>11. WaitInv'
    BY <2>1, <2>2 DEF Take, ResetPromptBudgets, NothingSpent, WaitInv, IdInv, LoopType,
       QueueType
  <2>12. StopInv'
    BY <2>1, <2>2 DEF Take, ResetPromptBudgets, NothingSpent, StopInv, GoalType, PromptType,
       SessionType
  <2>13. DriverInv'
    BY <2>1, <2>2 DEF Take, ResetPromptBudgets, NothingSpent, DriverInv, StopInv, GoalInv,
       QueueInv, GoalType, QueueType, LoopType
  <2> QED  BY <2>3, <2>4, <2>5, <2>6, <2>7, <2>8, <2>9, <2>10, <2>11, <2>12, <2>13
<1>4. CASE TakeResume
  <2>1. PICK j : Take(j) /\ TakeResume!(j)
    BY <1>4 DEF TakeResume
  <2>2. /\ pending' \in Seq(Job) /\ j \in Job
        /\ ToSet(pending) = {j} \cup ToSet(pending')
        /\ active' = j
    BY <2>1, TakeSet
  <2>3. QueueType'
    BY <2>1, <2>2 DEF Take, QueueType, GoalType
  <2>4. GoalType'
    BY <2>1, <2>2 DEF Take, GoalType, GoalInv
  <2>5. PromptType'
    BY <2>1, <2>2 DEF Take, PromptType
  <2>6. SessionType'
    BY <2>1, <2>2 DEF Take, SessionType
  <2>7. LoopType'
    BY <2>1, <2>2 DEF Take, LoopType, IdInv
  <2>8. QueueInv'
    BY <2>1, <2>2 DEF Take, QueueInv, QueueType
  <2>9. GoalInv'
    BY <2>1, <2>2 DEF Take, GoalInv, GoalType, LoopType
  <2>10. IdInv'
    BY <2>1, <2>2 DEF Take, IdInv, GoalType, LoopType, QueueType
  <2>11. WaitInv'
    BY <2>1, <2>2 DEF Take, WaitInv, IdInv, LoopType, QueueType
  <2>12. StopInv'
    BY <2>1, <2>2 DEF Take, StopInv, GoalType, PromptType, SessionType
  <2>13. DriverInv'
    BY <2>1, <2>2 DEF Take, DriverInv, StopInv, GoalInv, QueueInv, GoalType, QueueType, LoopType
  <2> QED  BY <2>3, <2>4, <2>5, <2>6, <2>7, <2>8, <2>9, <2>10, <2>11, <2>12, <2>13
<1>5. CASE TakeOther
  <2>1. PICK j : Take(j) /\ TakeOther!(j)
    BY <1>5 DEF TakeOther
  <2>2. /\ pending' \in Seq(Job) /\ j \in Job
        /\ ToSet(pending) = {j} \cup ToSet(pending')
        /\ active' = j
    BY <2>1, TakeSet
  <2>3. QueueType'
    BY <2>1, <2>2 DEF Take, QueueType, GoalType
  <2>4. GoalType'
    BY <2>1, <2>2 DEF Take, GoalType, GoalInv
  <2>5. PromptType'
    BY <2>1, <2>2 DEF Take, PromptType
  <2>6. SessionType'
    BY <2>1, <2>2 DEF Take, SessionType
  <2>7. LoopType'
    BY <2>1, <2>2 DEF Take, LoopType, IdInv
  <2>8. QueueInv'
    BY <2>1, <2>2 DEF Take, QueueInv, QueueType
  <2>9. GoalInv'
    BY <2>1, <2>2 DEF Take, GoalInv, GoalType, LoopType
  <2>10. IdInv'
    BY <2>1, <2>2 DEF Take, IdInv, GoalType, LoopType, QueueType
  <2>11. WaitInv'
    BY <2>1, <2>2 DEF Take, WaitInv, IdInv, LoopType, QueueType
  <2>12. StopInv'
    BY <2>1, <2>2 DEF Take, StopInv, GoalType, PromptType, SessionType
  <2>13. DriverInv'
    BY <2>1, <2>2 DEF Take, DriverInv, StopInv, GoalInv, QueueInv, GoalType, QueueType, LoopType
  <2> QED  BY <2>3, <2>4, <2>5, <2>6, <2>7, <2>8, <2>9, <2>10, <2>11, <2>12, <2>13
<1>6. CASE OtherEnds
  <2>1. QueueType'
    BY <1>6 DEF OtherEnds, QueueType, GoalType
  <2>2. GoalType'
    BY <1>6 DEF OtherEnds, GoalType, GoalInv
  <2>3. PromptType'
    BY <1>6 DEF OtherEnds, PromptType
  <2>4. SessionType'
    BY <1>6 DEF OtherEnds, SessionType
  <2>5. LoopType'
    BY <1>6 DEF OtherEnds, LoopType, IdInv
  <2>6. QueueInv'
    BY <1>6 DEF OtherEnds, QueueInv, QueueType
  <2>7. GoalInv'
    BY <1>6 DEF OtherEnds, GoalInv, GoalType, LoopType
  <2>8. IdInv'
    BY <1>6 DEF OtherEnds, IdInv, GoalType, LoopType, QueueType
  <2>9. WaitInv'
    BY <1>6 DEF OtherEnds, WaitInv, IdInv, LoopType, QueueType
  <2>10. StopInv'
    BY <1>6 DEF OtherEnds, StopInv, GoalType, PromptType, SessionType
  <2>11. DriverInv'
    BY <1>6 DEF OtherEnds, DriverInv, StopInv, GoalInv, QueueInv, GoalType, QueueType, LoopType
  <2> QED  BY <2>1, <2>2, <2>3, <2>4, <2>5, <2>6, <2>7, <2>8, <2>9, <2>10, <2>11
<1>7. CASE LoopStarts
  <2>1. Enqueue(pending, Tick(inputs)) =>
          /\ pending' \in Seq(Job)
          /\ ToSet(pending') = ToSet(pending) \cup {Tick(inputs)}
    BY EnqueueSet DEF QueueType, GoalType, LoopType
  <2>2. QueueType'
    BY <1>7, <2>1 DEF LoopStarts, QueueType, GoalType
  <2>3. GoalType'
    BY <1>7, <2>1 DEF LoopStarts, GoalType, GoalInv
  <2>4. PromptType'
    BY <1>7, <2>1 DEF LoopStarts, PromptType
  <2>5. SessionType'
    BY <1>7, <2>1 DEF LoopStarts, SessionType
  <2>6. LoopType'
    BY <1>7, <2>1 DEF LoopStarts, LoopType, IdInv
  <2>7. QueueInv'
    BY <1>7, <2>1 DEF LoopStarts, QueueInv, QueueType
  <2>8. GoalInv'
    BY <1>7, <2>1 DEF LoopStarts, GoalInv, GoalType, LoopType
  <2>9. IdInv'
    BY <1>7, <2>1 DEF LoopStarts, IdInv, GoalType, LoopType, QueueType
  <2>10. WaitInv'
    BY <1>7, <2>1 DEF LoopStarts, WaitInv, IdInv, LoopType, QueueType
  <2>11. StopInv'
    BY <1>7, <2>1 DEF LoopStarts, StopInv, GoalType, PromptType, SessionType
  <2>12. DriverInv'
    BY <1>7, <2>1 DEF LoopStarts, DriverInv, StopInv, GoalInv, QueueInv, GoalType, QueueType,
       LoopType
  <2> QED  BY <2>2, <2>3, <2>4, <2>5, <2>6, <2>7, <2>8, <2>9, <2>10, <2>11, <2>12
<1>8. CASE Drained
  <2>1. ToSet(pending) = {}
    BY <1>8, EmptySet DEF Drained
  <2>2. QueueType'
    BY <1>8, <2>1 DEF Drained, QueueType, GoalType
  <2>3. GoalType'
    BY <1>8, <2>1 DEF Drained, GoalType, GoalInv
  <2>4. PromptType'
    BY <1>8, <2>1 DEF Drained, PromptType
  <2>5. SessionType'
    BY <1>8, <2>1 DEF Drained, SessionType
  <2>6. LoopType'
    BY <1>8, <2>1 DEF Drained, LoopType, IdInv
  <2>7. QueueInv'
    BY <1>8, <2>1 DEF Drained, QueueInv, QueueType
  <2>8. GoalInv'
    BY <1>8, <2>1 DEF Drained, GoalInv, GoalType, LoopType
  <2>9. IdInv'
    BY <1>8, <2>1 DEF Drained, IdInv, GoalType, LoopType, QueueType
  <2>10. WaitInv'
    BY <1>8, <2>1 DEF Drained, WaitInv, IdInv, LoopType, QueueType
  <2>11. StopInv'
    BY <1>8, <2>1 DEF Drained, StopInv, GoalType, PromptType, SessionType
  <2>12. DriverInv'
    BY <1>8, <2>1 DEF Drained, DriverInv, StopInv, GoalInv, QueueInv, GoalType, QueueType,
       LoopType
  <2> QED  BY <2>2, <2>3, <2>4, <2>5, <2>6, <2>7, <2>8, <2>9, <2>10, <2>11, <2>12
<1>9. CASE Yielded
  <2>1. pending = <<>> <=> ToSet(pending) = {}
    BY EmptyQueue DEF QueueType
  <2>2. QueueType'
    BY <1>9, <2>1 DEF Yielded, QueueType, GoalType
  <2>3. GoalType'
    BY <1>9, <2>1 DEF Yielded, GoalType, GoalInv
  <2>4. PromptType'
    BY <1>9, <2>1 DEF Yielded, PromptType
  <2>5. SessionType'
    BY <1>9, <2>1 DEF Yielded, SessionType
  <2>6. LoopType'
    BY <1>9, <2>1 DEF Yielded, LoopType, IdInv
  <2>7. QueueInv'
    BY <1>9, <2>1 DEF Yielded, QueueInv, QueueType
  <2>8. GoalInv'
    BY <1>9, <2>1 DEF Yielded, GoalInv, GoalType, LoopType
  <2>9. IdInv'
    BY <1>9, <2>1 DEF Yielded, IdInv, GoalType, LoopType, QueueType
  <2>10. WaitInv'
    BY <1>9, <2>1 DEF Yielded, WaitInv, IdInv, LoopType, QueueType
  <2>11. StopInv'
    BY <1>9, <2>1 DEF Yielded, StopInv, GoalType, PromptType, SessionType
  <2>12. DriverInv'
    BY <1>9, <2>1 DEF Yielded, DriverInv, StopInv, GoalInv, QueueInv, GoalType, QueueType,
       LoopType
  <2> QED  BY <2>2, <2>3, <2>4, <2>5, <2>6, <2>7, <2>8, <2>9, <2>10, <2>11, <2>12
<1>10. ASSUME NEW continue \in BOOLEAN, HookReturns(continue)
       PROVE  EngineInv'
  <2>1. pending = <<>> <=> ToSet(pending) = {}
    BY EmptyQueue DEF QueueType
  <2>2. Enqueue(pending, Plain("idle")) =>
          /\ pending' \in Seq(Job)
          /\ ToSet(pending') = ToSet(pending) \cup {Plain("idle")}
    BY EnqueueSet DEF QueueType, GoalType, LoopType
  <2>3. QueueType'
    BY <1>10, <2>1, <2>2 DEF HookReturns, QueueType, GoalType
  <2>4. GoalType'
    BY <1>10, <2>1, <2>2 DEF HookReturns, GoalType, GoalInv
  <2>5. PromptType'
    BY <1>10, <2>1, <2>2 DEF HookReturns, PromptType, Spending
  <2>6. SessionType'
    BY <1>10, <2>1, <2>2 DEF HookReturns, SessionType
  <2>7. LoopType'
    BY <1>10, <2>1, <2>2 DEF HookReturns, LoopType, IdInv
  <2>8. QueueInv'
    BY <1>10, <2>1, <2>2 DEF HookReturns, QueueInv, QueueType
  <2>9. GoalInv'
    BY <1>10, <2>1, <2>2 DEF HookReturns, GoalInv, GoalType, LoopType
  <2>10. IdInv'
    BY <1>10, <2>1, <2>2 DEF HookReturns, IdInv, GoalType, LoopType, QueueType
  <2>11. WaitInv'
    BY <1>10, <2>1, <2>2 DEF HookReturns, WaitInv, IdInv, LoopType, QueueType
  <2>12. StopInv'
    BY <1>10, <2>1, <2>2 DEF HookReturns, StopInv, GoalType, PromptType, SessionType
  <2>13. DriverInv'
    BY <1>10, <2>1, <2>2 DEF HookReturns, DriverInv, StopInv, GoalInv, QueueInv, GoalType,
       QueueType, LoopType
  <2> QED  BY <2>3, <2>4, <2>5, <2>6, <2>7, <2>8, <2>9, <2>10, <2>11, <2>12, <2>13
<1> HIDE DEF EngineInv
<1> QED
  BY <1>1, <1>2, <1>3, <1>4, <1>5, <1>6, <1>7, <1>8, <1>9, <1>10 DEF DrainStep

-----------------------------------------------------------------------------
(* A turn, and what follows it *)

LEMMA TurnStepInv ==
  ASSUME EngineInv, TurnStep
  PROVE  EngineInv'
<1> USE EngineAssumption, JobForms
    DEF EngineInv, EngineTypeOK, GoalQueued, IsGoal, OfRun,
        queueVars, goalVars, promptVars, endVars, sessionVars, planVars, loopVars, input,
        Kind, TurnKind, GoalKind, Place, Await, TurnPlace
<1>0. PauseGoalRun(pending) =>
        /\ pending' \in Seq(Job) /\ ToSet(pending') \subseteq ToSet(pending)
        /\ \A j \in ToSet(pending) : ~IsGoal(j) => j \in ToSet(pending')
        /\ run => \A j \in ToSet(pending') : ~IsGoal(j)
        /\ run' = FALSE /\ epochKept' \in BOOLEAN
        /\ status' \in {"none", "paused", "verified", "accept", "met"}
        /\ UNCHANGED <<goal, phase, rounds, clean>>
  BY PauseSet DEF QueueType
<1>1. CASE TurnDenied
  <2>1. QueueType'
    BY <1>0, <1>1 DEF TurnDenied, QueueType, GoalType
  <2>2. GoalType'
    <3>1. CASE PauseGoalRun(pending)
      BY <3>1, PauseType
    <3>2. CASE UNCHANGED goalVars
      BY <3>2 DEF GoalType
    <3> QED  BY <1>1, <3>1, <3>2 DEF TurnDenied
  <2>3. PromptType'
    BY <1>0, <1>1 DEF TurnDenied, PromptType
  <2>4. SessionType'
    BY <1>0, <1>1 DEF TurnDenied, SessionType
  <2>5. LoopType'
    BY <1>0, <1>1 DEF TurnDenied, LoopType, IdInv
  <2>6. QueueInv'
    BY <1>0, <1>1 DEF TurnDenied, QueueInv, QueueType
  <2>7. GoalInv'
    BY <1>0, <1>1 DEF TurnDenied, GoalInv, GoalType, LoopType
  <2>8. IdInv'
    BY <1>0, <1>1 DEF TurnDenied, IdInv, GoalType, LoopType, QueueType
  <2>9. WaitInv'
    BY <1>0, <1>1 DEF TurnDenied, WaitInv, IdInv, LoopType, QueueType
  <2>10. StopInv'
    BY <1>0, <1>1 DEF TurnDenied, StopInv, GoalType, PromptType, SessionType
  <2>11. DriverInv'
    BY <1>0, <1>1 DEF TurnDenied, DriverInv, StopInv, GoalInv, QueueInv, GoalType, QueueType,
       LoopType
  <2> QED  BY <2>1, <2>2, <2>3, <2>4, <2>5, <2>6, <2>7, <2>8, <2>9, <2>10, <2>11
<1>2. CASE TurnAllowed
  <2>1. QueueType'
    BY <1>2 DEF TurnAllowed, QueueType, GoalType
  <2>2. GoalType'
    BY <1>2 DEF TurnAllowed, GoalType, GoalInv
  <2>3. PromptType'
    BY <1>2 DEF TurnAllowed, PromptType
  <2>4. SessionType'
    BY <1>2 DEF TurnAllowed, SessionType
  <2>5. LoopType'
    BY <1>2 DEF TurnAllowed, LoopType, IdInv
  <2>6. QueueInv'
    BY <1>2 DEF TurnAllowed, QueueInv, QueueType
  <2>7. GoalInv'
    BY <1>2 DEF TurnAllowed, GoalInv, GoalType, LoopType
  <2>8. IdInv'
    BY <1>2 DEF TurnAllowed, IdInv, GoalType, LoopType, QueueType
  <2>9. WaitInv'
    BY <1>2 DEF TurnAllowed, WaitInv, IdInv, LoopType, QueueType
  <2>10. StopInv'
    BY <1>2 DEF TurnAllowed, StopInv, GoalType, PromptType, SessionType
  <2>11. DriverInv'
    BY <1>2 DEF TurnAllowed, DriverInv, StopInv, GoalInv, QueueInv, GoalType, QueueType,
       LoopType
  <2> QED  BY <2>1, <2>2, <2>3, <2>4, <2>5, <2>6, <2>7, <2>8, <2>9, <2>10, <2>11
<1>3. CASE BeginTurn
  <2>1. QueueType'
    BY <1>3 DEF BeginTurn, QueueType, GoalType
  <2>2. GoalType'
    BY <1>3 DEF BeginTurn, GoalType, GoalInv
  <2>3. PromptType'
    BY <1>3 DEF BeginTurn, PromptType
  <2>4. SessionType'
    BY <1>3 DEF BeginTurn, SessionType
  <2>5. LoopType'
    BY <1>3 DEF BeginTurn, LoopType, IdInv
  <2>6. QueueInv'
    BY <1>3 DEF BeginTurn, QueueInv, QueueType
  <2>7. GoalInv'
    BY <1>3 DEF BeginTurn, GoalInv, GoalType, LoopType
  <2>8. IdInv'
    BY <1>3 DEF BeginTurn, IdInv, GoalType, LoopType, QueueType
  <2>9. WaitInv'
    BY <1>3 DEF BeginTurn, WaitInv, IdInv, LoopType, QueueType
  <2>10. StopInv'
    BY <1>3 DEF BeginTurn, StopInv, GoalType, PromptType, SessionType
  <2>11. DriverInv'
    BY <1>3 DEF BeginTurn, DriverInv, StopInv, GoalInv, QueueInv, GoalType, QueueType, LoopType
  <2> QED  BY <2>1, <2>2, <2>3, <2>4, <2>5, <2>6, <2>7, <2>8, <2>9, <2>10, <2>11
<1>4. CASE GateRed
  <2>1. EnqueueFix =>
          /\ pending' \in Seq(Job)
          /\ ToSet(pending') = ToSet(pending) \cup {Plain("fix")}
    BY EnqueueSet DEF EnqueueFix, QueueType
  <2>2. QueueType'
    BY <1>0, <1>4, <2>1 DEF GateRed, EnqueueFix, QueueType, GoalType
  <2>3. GoalType'
    <3>1. CASE PauseGoalRun(pending)
      BY <3>1, PauseType
    <3>2. CASE UNCHANGED goalVars
      BY <3>2 DEF GoalType
    <3> QED  BY <1>4, <3>1, <3>2 DEF GateRed
  <2>4. PromptType'
    <3>1. CASE /\ spent.gate < MaxGate /\ spent' = [spent EXCEPT !.gate = @ + 1]
                 /\ fixPending' = TRUE
      BY <1>4, <3>1 DEF GateRed, PromptType, Spending
    <3>2. CASE UNCHANGED <<spent, fixPending>>
      BY <1>4, <3>2 DEF GateRed, PromptType
    <3> QED  BY <1>4, <3>1, <3>2 DEF GateRed, EnqueueFix
  <2>5. SessionType'
    BY <1>0, <1>4, <2>1 DEF GateRed, EnqueueFix, SessionType
  <2>6. LoopType'
    BY <1>0, <1>4, <2>1 DEF GateRed, EnqueueFix, LoopType, IdInv
  <2>7. QueueInv'
    BY <1>0, <1>4, <2>1 DEF GateRed, EnqueueFix, QueueInv, QueueType
  <2>8. GoalInv'
    BY <1>0, <1>4, <2>1 DEF GateRed, EnqueueFix, GoalInv, GoalType, LoopType
  <2>9. IdInv'
    BY <1>0, <1>4, <2>1 DEF GateRed, EnqueueFix, IdInv, GoalType, LoopType, QueueType
  <2>10. WaitInv'
    BY <1>0, <1>4, <2>1 DEF GateRed, EnqueueFix, WaitInv, IdInv, LoopType, QueueType
  <2>11. StopInv'
    BY <1>0, <1>4, <2>1 DEF GateRed, EnqueueFix, StopInv, GoalType, PromptType, SessionType
  <2>12. DriverInv'
    BY <1>0, <1>4, <2>1 DEF GateRed, EnqueueFix, DriverInv, StopInv, GoalInv, QueueInv,
       GoalType, QueueType, LoopType
  <2> QED  BY <2>2, <2>3, <2>4, <2>5, <2>6, <2>7, <2>8, <2>9, <2>10, <2>11, <2>12
<1>5. CASE GatePasses
  <2>1. QueueType'
    BY <1>5 DEF GatePasses, QueueType, GoalType
  <2>2. GoalType'
    BY <1>5 DEF GatePasses, GoalType, GoalInv
  <2>3. PromptType'
    BY <1>5 DEF GatePasses, PromptType
  <2>4. SessionType'
    BY <1>5 DEF GatePasses, SessionType
  <2>5. LoopType'
    BY <1>5 DEF GatePasses, LoopType, IdInv
  <2>6. QueueInv'
    BY <1>5 DEF GatePasses, QueueInv, QueueType
  <2>7. GoalInv'
    BY <1>5 DEF GatePasses, GoalInv, GoalType, LoopType
  <2>8. IdInv'
    BY <1>5 DEF GatePasses, IdInv, GoalType, LoopType, QueueType
  <2>9. WaitInv'
    BY <1>5 DEF GatePasses, WaitInv, IdInv, LoopType, QueueType
  <2>10. StopInv'
    BY <1>5 DEF GatePasses, StopInv, GoalType, PromptType, SessionType
  <2>11. DriverInv'
    BY <1>5 DEF GatePasses, DriverInv, StopInv, GoalInv, QueueInv, GoalType, QueueType, LoopType
  <2> QED  BY <2>1, <2>2, <2>3, <2>4, <2>5, <2>6, <2>7, <2>8, <2>9, <2>10, <2>11
<1>6. CASE CommitEnds
  <2>1. QueueType'
    BY <1>6 DEF CommitEnds, QueueType, GoalType
  <2>2. GoalType'
    BY <1>6 DEF CommitEnds, GoalType, GoalInv
  <2>3. PromptType'
    BY <1>6 DEF CommitEnds, PromptType
  <2>4. SessionType'
    BY <1>6 DEF CommitEnds, SessionType
  <2>5. LoopType'
    BY <1>6 DEF CommitEnds, LoopType, IdInv
  <2>6. QueueInv'
    BY <1>6 DEF CommitEnds, QueueInv, QueueType
  <2>7. GoalInv'
    BY <1>6 DEF CommitEnds, GoalInv, GoalType, LoopType
  <2>8. IdInv'
    BY <1>6 DEF CommitEnds, IdInv, GoalType, LoopType, QueueType
  <2>9. WaitInv'
    BY <1>6 DEF CommitEnds, WaitInv, IdInv, LoopType, QueueType
  <2>10. StopInv'
    BY <1>6 DEF CommitEnds, StopInv, GoalType, PromptType, SessionType
  <2>11. DriverInv'
    BY <1>6 DEF CommitEnds, DriverInv, StopInv, GoalInv, QueueInv, GoalType, QueueType, LoopType
  <2> QED  BY <2>1, <2>2, <2>3, <2>4, <2>5, <2>6, <2>7, <2>8, <2>9, <2>10, <2>11
<1>7. CASE Throws
  <2>1. QueueType'
    BY <1>0, <1>7 DEF Throws, StopLoop, QueueType, GoalType
  <2>2. GoalType'
    <3>1. CASE IsGoal(active)
      BY <1>7, <3>1, PauseType DEF Throws
    <3>2. CASE ~IsGoal(active)
      BY <1>7, <3>2 DEF Throws, GoalType
    <3> QED  BY <3>1, <3>2
  <2>3. PromptType'
    BY <1>0, <1>7 DEF Throws, StopLoop, PromptType
  <2>4. SessionType'
    BY <1>0, <1>7 DEF Throws, StopLoop, SessionType
  <2>5. LoopType'
    BY <1>0, <1>7 DEF Throws, StopLoop, LoopType, IdInv
  <2>6. QueueInv'
    BY <1>0, <1>7 DEF Throws, StopLoop, QueueInv, QueueType
  <2>7. GoalInv'
    BY <1>0, <1>7 DEF Throws, StopLoop, GoalInv, GoalType, LoopType
  <2>8. IdInv'
    BY <1>0, <1>7 DEF Throws, StopLoop, IdInv, GoalType, LoopType, QueueType
  <2>9. WaitInv'
    <3>1. CASE active.kind = "tick" /\ loop = active.loop
      BY <1>7, <3>1 DEF Throws, StopLoop, WaitInv
    <3>2. CASE ~(active.kind = "tick" /\ loop = active.loop)
      <4>1. active # Tick(loop)
        BY <3>2 DEF LoopType
      <4>2. Tick(loop) \in ToSet(pending) => Tick(loop) \in ToSet(pending')
        BY <1>0, <1>7 DEF Throws, LoopType
      <4> QED  BY <1>7, <3>2, <4>1, <4>2 DEF Throws, WaitInv
    <3> QED  BY <3>1, <3>2
  <2>10. StopInv'
    BY <1>0, <1>7 DEF Throws, StopLoop, StopInv, GoalType, PromptType, SessionType
  <2>11. DriverInv'
    BY <1>0, <1>7 DEF Throws, StopLoop, DriverInv, StopInv, GoalInv, QueueInv, GoalType,
       QueueType, LoopType
  <2> QED  BY <2>1, <2>2, <2>3, <2>4, <2>5, <2>6, <2>7, <2>8, <2>9, <2>10, <2>11
<1>8. ASSUME NEW how \in {"ok", "interrupted", "error", "stall"},
             NEW mutated \in BOOLEAN, NEW needs \in BOOLEAN, TurnEnds(how, mutated, needs)
      PROVE  EngineInv'
  <2>1. Enqueue(pending, Plain("nudge")) =>
          /\ pending' \in Seq(Job)
          /\ ToSet(pending') = ToSet(pending) \cup {Plain("nudge")}
    BY EnqueueSet DEF QueueType, GoalType, LoopType
  <2>2. QueueType'
    BY <1>8, <2>1 DEF TurnEnds, TurnLeaves, Nudge, QueueType, GoalType
  <2>3. GoalType'
    BY <1>8, <2>1 DEF TurnEnds, TurnLeaves, Nudge, GoalType, GoalInv
  <2>4. PromptType'
    BY <1>8, <2>1 DEF TurnEnds, TurnLeaves, Nudge, PromptType
  <2>5. SessionType'
    <3>1. plan' \in BOOLEAN
      BY <1>8, Zenon DEF TurnEnds, TurnLeaves, SessionType
    <3>2. interrupted' \in BOOLEAN /\ lastError' \in BOOLEAN /\ aborted' \in BOOLEAN
      BY <1>8 DEF TurnEnds, TurnLeaves, SessionType
    <3>3. nudges' \in 0..MaxNudges
      BY <1>8 DEF TurnEnds, Nudge, SessionType
    <3>4. /\ tasks' \in {"none", "open", "done"} /\ UNCHANGED <<mode, turnMode, handoff>>
      BY <1>8 DEF TurnEnds, TurnLeaves, SessionType
    <3> QED  BY <3>1, <3>2, <3>3, <3>4 DEF SessionType
  <2>6. LoopType'
    BY <1>8, <2>1 DEF TurnEnds, TurnLeaves, Nudge, LoopType, IdInv
  <2>7. QueueInv'
    BY <1>8, <2>1 DEF TurnEnds, TurnLeaves, Nudge, QueueInv, QueueType
  <2>8. GoalInv'
    BY <1>8, <2>1 DEF TurnEnds, TurnLeaves, Nudge, GoalInv, GoalType, LoopType
  <2>9. IdInv'
    BY <1>8, <2>1 DEF TurnEnds, TurnLeaves, Nudge, IdInv, GoalType, LoopType, QueueType
  <2>10. WaitInv'
    BY <1>8, <2>1 DEF TurnEnds, TurnLeaves, Nudge, WaitInv, IdInv, LoopType, QueueType
  <2>11. StopInv'
    BY <1>8, <2>1 DEF TurnEnds, TurnLeaves, Nudge, StopInv, GoalType, PromptType, SessionType
  <2>12. DriverInv'
    BY <1>8, <2>1 DEF TurnEnds, TurnLeaves, Nudge, DriverInv, StopInv, GoalInv, QueueInv,
       GoalType, QueueType, LoopType
  <2> QED  BY <2>2, <2>3, <2>4, <2>5, <2>6, <2>7, <2>8, <2>9, <2>10, <2>11, <2>12
<1>9. ASSUME NEW flagged \in BOOLEAN, ReviewEnds(flagged)
      PROVE  EngineInv'
  <2>1. EnqueueFix =>
          /\ pending' \in Seq(Job)
          /\ ToSet(pending') = ToSet(pending) \cup {Plain("fix")}
    BY EnqueueSet DEF EnqueueFix, QueueType
  <2>2. QueueType'
    BY <1>9, <2>1 DEF ReviewEnds, EnqueueFix, QueueType, GoalType
  <2>3. GoalType'
    BY <1>9, <2>1 DEF ReviewEnds, EnqueueFix, GoalType, GoalInv
  <2>4. PromptType'
    <3>1. CASE /\ spent.review < MaxReview /\ spent' = [spent EXCEPT !.review = @ + 1]
                 /\ fixPending' = TRUE
      BY <1>9, <3>1 DEF ReviewEnds, PromptType, Spending
    <3>2. CASE UNCHANGED <<spent, fixPending>>
      BY <1>9, <3>2 DEF ReviewEnds, PromptType
    <3> QED  BY <1>9, <3>1, <3>2 DEF ReviewEnds, EnqueueFix
  <2>5. SessionType'
    BY <1>9, <2>1 DEF ReviewEnds, EnqueueFix, SessionType
  <2>6. LoopType'
    BY <1>9, <2>1 DEF ReviewEnds, EnqueueFix, LoopType, IdInv
  <2>7. QueueInv'
    BY <1>9, <2>1 DEF ReviewEnds, EnqueueFix, QueueInv, QueueType
  <2>8. GoalInv'
    BY <1>9, <2>1 DEF ReviewEnds, EnqueueFix, GoalInv, GoalType, LoopType
  <2>9. IdInv'
    BY <1>9, <2>1 DEF ReviewEnds, EnqueueFix, IdInv, GoalType, LoopType, QueueType
  <2>10. WaitInv'
    BY <1>9, <2>1 DEF ReviewEnds, EnqueueFix, WaitInv, IdInv, LoopType, QueueType
  <2>11. StopInv'
    BY <1>9, <2>1 DEF ReviewEnds, EnqueueFix, StopInv, GoalType, PromptType, SessionType
  <2>12. DriverInv'
    BY <1>9, <2>1 DEF ReviewEnds, EnqueueFix, DriverInv, StopInv, GoalInv, QueueInv, GoalType,
       QueueType, LoopType
  <2> QED  BY <2>2, <2>3, <2>4, <2>5, <2>6, <2>7, <2>8, <2>9, <2>10, <2>11, <2>12
<1>10. CASE ContinueTasks
  <2>1. Enqueue(pending, ForGoal("execute", goal)) =>
          /\ pending' \in Seq(Job)
          /\ ToSet(pending') = ToSet(pending) \cup {ForGoal("execute", goal)}
    BY EnqueueSet DEF QueueType, GoalType, LoopType
  <2>2. Enqueue(pending, Plain("continue")) =>
          /\ pending' \in Seq(Job)
          /\ ToSet(pending') = ToSet(pending) \cup {Plain("continue")}
    BY EnqueueSet DEF QueueType, GoalType, LoopType
  <2>3. QueueType'
    BY <1>10, <2>1, <2>2 DEF ContinueTasks, TasksLeft, TaskBudget, QueueType, GoalType
  <2>4. GoalType'
    BY <1>10, <2>1, <2>2 DEF ContinueTasks, TasksLeft, TaskBudget, GoalType, GoalInv
  <2>5. PromptType'
    BY <1>10, <2>1, <2>2 DEF ContinueTasks, TasksLeft, TaskBudget, PromptType,
       Spending
  <2>6. SessionType'
    BY <1>10, <2>1, <2>2 DEF ContinueTasks, TasksLeft, TaskBudget, SessionType
  <2>7. LoopType'
    BY <1>10, <2>1, <2>2 DEF ContinueTasks, TasksLeft, TaskBudget, LoopType, IdInv
  <2>8. QueueInv'
    BY <1>10, <2>1, <2>2 DEF ContinueTasks, TasksLeft, TaskBudget, QueueInv, QueueType
  <2>9. GoalInv'
    BY <1>10, <2>1, <2>2 DEF ContinueTasks, TasksLeft, TaskBudget, GoalInv, GoalType, LoopType
  <2>10. IdInv'
    BY <1>10, <2>1, <2>2 DEF ContinueTasks, TasksLeft, TaskBudget, IdInv, GoalType, LoopType,
       QueueType
  <2>11. WaitInv'
    BY <1>10, <2>1, <2>2 DEF ContinueTasks, TasksLeft, TaskBudget, WaitInv, IdInv, LoopType,
       QueueType
  <2>12. StopInv'
    BY <1>10, <2>1, <2>2 DEF ContinueTasks, TasksLeft, TaskBudget, StopInv, GoalType,
       PromptType, SessionType
  <2>13. DriverInv'
    BY <1>10, <2>1, <2>2 DEF ContinueTasks, TasksLeft, TaskBudget, DriverInv, StopInv, GoalInv,
       QueueInv, GoalType, QueueType, LoopType
  <2> QED  BY <2>3, <2>4, <2>5, <2>6, <2>7, <2>8, <2>9, <2>10, <2>11, <2>12, <2>13
<1>11. Enqueue(pending, ForGoal("round", goal)) =>
         /\ pending' \in Seq(Job)
         /\ ToSet(pending') = ToSet(pending) \cup {ForGoal("round", goal)}
  BY EnqueueSet DEF QueueType, GoalType
<1>12. ASSUME NotMet  PROVE GoalType'
  <2>1. CASE PauseGoalRun(pending)
    BY <2>1, PauseType
  <2>2. CASE /\ rounds < MaxRounds /\ rounds' = rounds + 1 /\ clean' = 0
             /\ UNCHANGED <<goal, run, phase, status, epochKept>>
    BY <2>2 DEF GoalType
  <2> QED  BY <1>12, <2>1, <2>2 DEF NotMet
<1>13. CASE CheckGoal
  <2>1. QueueType'
    BY <1>0, <1>11, <1>13, GoalQueuedAt DEF CheckGoal, NotMet, QueueType, GoalType
  <2>2. GoalType'
    <3>1. CASE NotMet
      BY <1>12, <3>1
    <3>2. CASE PauseGoalRun(pending)
      BY <3>2, PauseType
    <3>3. CASE /\ UNCHANGED <<goal, run, phase, rounds, clean, status>>
               /\ epochKept' \in {epochKept, TRUE}
      BY <3>3 DEF GoalType
    <3> QED  BY <1>13, <3>1, <3>2, <3>3 DEF CheckGoal
  <2>3. PromptType'
    BY <1>0, <1>11, <1>13, GoalQueuedAt DEF CheckGoal, NotMet, PromptType
  <2>4. SessionType'
    BY <1>0, <1>11, <1>13, GoalQueuedAt DEF CheckGoal, NotMet, SessionType
  <2>5. LoopType'
    BY <1>0, <1>11, <1>13, GoalQueuedAt DEF CheckGoal, NotMet, LoopType, IdInv
  <2>6. QueueInv'
    BY <1>0, <1>11, <1>13, GoalQueuedAt DEF CheckGoal, NotMet, QueueInv, QueueType
  <2>7. GoalInv'
    BY <1>0, <1>11, <1>13, GoalQueuedAt DEF CheckGoal, NotMet, GoalInv, GoalType, LoopType
  <2>8. IdInv'
    BY <1>0, <1>11, <1>13, GoalQueuedAt DEF CheckGoal, NotMet, IdInv, GoalType, LoopType,
       QueueType
  <2>9. WaitInv'
    BY <1>0, <1>11, <1>13, GoalQueuedAt DEF CheckGoal, NotMet, WaitInv, IdInv, LoopType,
       QueueType
  <2>10. StopInv'
    BY <1>0, <1>11, <1>13, GoalQueuedAt DEF CheckGoal, NotMet, StopInv, GoalType, PromptType,
       SessionType
  <2>11. DriverInv'
    <3>1. CASE (~run \/ GoalWaits) /\ at' = "end" /\ UNCHANGED <<pending, goalVars>>
      BY <1>13, <3>1 DEF CheckGoal, GoalWaits, DriverInv, StopInv, QueueType
    <3>2. CASE PauseGoalRun(pending) /\ at' = "end"
      BY <1>0, <3>2 DEF DriverInv
    <3>3. CASE /\ Enqueue(pending, ForGoal("round", goal)) /\ at' = "end"
               /\ UNCHANGED <<phase>> /\ run /\ phase # "plan"
      BY <1>11, <1>13, <3>3 DEF CheckGoal, DriverInv
    <3>4. CASE /\ run /\ (phase = "plan" \/ \E i \in DOMAIN pending : IsGoal(pending[i]))
               /\ at' = "end" /\ UNCHANGED <<pending, goalVars>>
      BY <1>13, <3>4, GoalQueuedAt DEF CheckGoal, DriverInv, QueueType
    <3>5. CASE /\ run /\ phase # "plan" /\ at' = "assess" /\ epochKept' = TRUE
               /\ UNCHANGED <<pending, phase>>
      BY <1>13, <3>5 DEF CheckGoal, DriverInv
    <3> QED  BY <1>13, <3>1, <3>2, <3>3, <3>4, <3>5 DEF CheckGoal, NotMet
  <2> QED  BY <2>1, <2>2, <2>3, <2>4, <2>5, <2>6, <2>7, <2>8, <2>9, <2>10, <2>11
<1>14. CASE JobEnds
  <2>1. Enqueue(pending, ForGoal("execute", active.goal)) /\ active \in Job =>
          /\ pending' \in Seq(Job)
          /\ ToSet(pending') = ToSet(pending) \cup {ForGoal("execute", active.goal)}
    BY EnqueueSet DEF QueueType, GoalType, LoopType
  <2>2. QueueType'
    BY <1>14, <2>1 DEF JobEnds, BeginGoalExecution, TickOver, StopLoop, QueueType, GoalType
  <2>3. GoalType'
    BY <1>14, <2>1 DEF JobEnds, BeginGoalExecution, TickOver, StopLoop, GoalType, GoalInv
  <2>4. PromptType'
    BY <1>14, <2>1 DEF JobEnds, BeginGoalExecution, TickOver, StopLoop, PromptType
  <2>5. SessionType'
    BY <1>14, <2>1 DEF JobEnds, BeginGoalExecution, TickOver, StopLoop, SessionType
  <2>6. LoopType'
    BY <1>14, <2>1 DEF JobEnds, BeginGoalExecution, TickOver, StopLoop, LoopType, IdInv
  <2>7. QueueInv'
    BY <1>14, <2>1 DEF JobEnds, BeginGoalExecution, TickOver, StopLoop, QueueInv, QueueType
  <2>8. GoalInv'
    BY <1>14, <2>1 DEF JobEnds, BeginGoalExecution, TickOver, StopLoop, GoalInv, GoalType,
       LoopType
  <2>9. IdInv'
    <3>1. /\ loop' = 0 <=> loopAt' = "none"
          /\ loopAt' = "timer" => ticks' < MaxTicks
      BY <1>14 DEF JobEnds, TickOver, StopLoop, IdInv, LoopType
    <3>2. \A j \in ToSet(pending') : j \in ToSet(pending) \/ IsGoal(j)
      BY <1>14, <2>1 DEF JobEnds, BeginGoalExecution, GoalType, QueueType
    <3>3. at' = "next" /\ UNCHANGED <<active, inputs>>
      BY <1>14 DEF JobEnds
    <3> QED  BY <3>1, <3>2, <3>3 DEF IdInv
  <2>10. WaitInv'
    BY <1>14, <2>1 DEF JobEnds, BeginGoalExecution, TickOver, StopLoop, WaitInv, IdInv,
       LoopType, QueueType
  <2>11. StopInv'
    BY <1>14, <2>1 DEF JobEnds, BeginGoalExecution, TickOver, StopLoop, StopInv, GoalType,
       PromptType, SessionType
  <2>12. DriverInv'
    BY <1>14, <2>1 DEF JobEnds, BeginGoalExecution, TickOver, StopLoop, DriverInv, StopInv,
       GoalInv, QueueInv, GoalType, QueueType, LoopType
  <2> QED  BY <2>2, <2>3, <2>4, <2>5, <2>6, <2>7, <2>8, <2>9, <2>10, <2>11, <2>12
<1>15. ASSUME NEW met \in BOOLEAN, NEW checks \in BOOLEAN, AssessEnds(met, checks)
       PROVE  EngineInv'
  <2>1. QueueType'
    BY <1>0, <1>11, <1>15 DEF AssessEnds, NotMet, QueueType, GoalType
  <2>2. GoalType'
    <3>1. CASE NotMet
      BY <1>12, <3>1
    <3>2. CASE UNCHANGED goalVars
      BY <3>2 DEF GoalType
    <3>3. CASE clean = 0 /\ clean' = 1 /\ UNCHANGED <<goal, run, phase, rounds, status,
       epochKept>>
      BY <3>3 DEF GoalType
    <3>4. CASE /\ run /\ clean' = clean + 1 /\ run' = FALSE
               /\ status' = (IF checks THEN "verified" ELSE "accept")
               /\ phase' = (IF checks THEN "none" ELSE "execute")
               /\ UNCHANGED <<goal, rounds, epochKept>>
      <4>1. clean' \in 0..2
        BY <3>4 DEF GoalType, GoalInv
      <4>2. /\ status' \in {"none", "paused", "verified", "accept", "met"}
            /\ phase' \in {"none", "plan", "execute"}
        BY <3>4
      <4> QED  BY <3>4, <4>1, <4>2 DEF GoalType
    <3> QED  BY <1>15, <3>1, <3>2, <3>3, <3>4 DEF AssessEnds
  <2>3. PromptType'
    BY <1>0, <1>11, <1>15 DEF AssessEnds, NotMet, PromptType
  <2>4. SessionType'
    BY <1>0, <1>11, <1>15 DEF AssessEnds, NotMet, SessionType
  <2>5. LoopType'
    BY <1>0, <1>11, <1>15 DEF AssessEnds, NotMet, LoopType, IdInv
  <2>6. QueueInv'
    BY <1>0, <1>11, <1>15 DEF AssessEnds, NotMet, QueueInv, QueueType
  <2>7. GoalInv'
    BY <1>0, <1>11, <1>15 DEF AssessEnds, NotMet, GoalInv, GoalType, LoopType
  <2>8. IdInv'
    BY <1>0, <1>11, <1>15 DEF AssessEnds, NotMet, IdInv, GoalType, LoopType, QueueType
  <2>9. WaitInv'
    BY <1>0, <1>11, <1>15 DEF AssessEnds, NotMet, WaitInv, IdInv, LoopType, QueueType
  <2>10. StopInv'
    BY <1>0, <1>11, <1>15 DEF AssessEnds, NotMet, StopInv, GoalType, PromptType, SessionType
  <2>11. DriverInv'
    <3>1. at = "assess" /\ at' = "end"
      BY <1>15 DEF AssessEnds
    <3>2. CASE run' = FALSE
      BY <3>1, <3>2 DEF DriverInv
    <3>3. CASE Enqueue(pending, ForGoal("round", goal)) /\ UNCHANGED <<run, phase>>
      BY <1>11, <1>15, <3>1, <3>3 DEF AssessEnds, NotMet, DriverInv
    <3>4. CASE ~(run /\ epochKept) /\ UNCHANGED <<pending, goalVars>>
      BY <1>15, <3>1, <3>4 DEF AssessEnds, DriverInv
    <3> QED  BY <1>15, <3>2, <3>3, <3>4 DEF AssessEnds, NotMet, PauseGoalRun
  <2> QED  BY <2>1, <2>2, <2>3, <2>4, <2>5, <2>6, <2>7, <2>8, <2>9, <2>10, <2>11
<1> HIDE DEF EngineInv
<1> QED
  BY <1>1, <1>2, <1>3, <1>4, <1>5, <1>6, <1>7, <1>8, <1>9, <1>10, <1>13, <1>14, <1>15
  DEF TurnStep
-----------------------------------------------------------------------------
(* The recurring loop *)

LEMMA LoopStepInv ==
  ASSUME EngineInv, LoopStep
  PROVE  EngineInv'
<1> USE EngineAssumption, JobForms
    DEF EngineInv, EngineTypeOK, GoalQueued, IsGoal, OfRun,
        queueVars, goalVars, promptVars, endVars, sessionVars, planVars, loopVars, input,
        Kind, TurnKind, GoalKind, Place, Await, TurnPlace
<1>1. CASE LoopFires
  <2>1. Enqueue(pending, Tick(loop)) =>
          /\ pending' \in Seq(Job)
          /\ ToSet(pending') = ToSet(pending) \cup {Tick(loop)}
    BY EnqueueSet DEF QueueType, GoalType, LoopType
  <2>2. QueueType'
    BY <1>1, <2>1 DEF LoopFires, Wake, QueueType, GoalType
  <2>3. GoalType'
    BY <1>1, <2>1 DEF LoopFires, Wake, GoalType, GoalInv
  <2>4. PromptType'
    BY <1>1, <2>1 DEF LoopFires, Wake, PromptType
  <2>5. SessionType'
    BY <1>1, <2>1 DEF LoopFires, Wake, SessionType
  <2>6. LoopType'
    BY <1>1, <2>1 DEF LoopFires, Wake, LoopType, IdInv
  <2>7. QueueInv'
    BY <1>1, <2>1 DEF LoopFires, Wake, QueueInv, QueueType
  <2>8. GoalInv'
    BY <1>1, <2>1 DEF LoopFires, Wake, GoalInv, GoalType, LoopType
  <2>9. IdInv'
    BY <1>1, <2>1 DEF LoopFires, Wake, IdInv, GoalType, LoopType, QueueType
  <2>10. WaitInv'
    BY <1>1, <2>1 DEF LoopFires, Wake, WaitInv, IdInv, LoopType, QueueType
  <2>11. StopInv'
    BY <1>1, <2>1 DEF LoopFires, Wake, StopInv, GoalType, PromptType, SessionType
  <2>12. DriverInv'
    BY <1>1, <2>1 DEF LoopFires, Wake, DriverInv, StopInv, GoalInv, QueueInv, GoalType,
       QueueType, LoopType
  <2> QED  BY <2>2, <2>3, <2>4, <2>5, <2>6, <2>7, <2>8, <2>9, <2>10, <2>11, <2>12
<1>2. ASSUME NEW done \in BOOLEAN, LoopJudged(done)
      PROVE  EngineInv'
  <2>1. QueueType'
    BY <1>2 DEF LoopJudged, TickOver, StopLoop, StopAborts, QueueType, GoalType
  <2>2. GoalType'
    BY <1>2 DEF LoopJudged, TickOver, StopLoop, StopAborts, GoalType, GoalInv
  <2>3. PromptType'
    BY <1>2 DEF LoopJudged, TickOver, StopLoop, StopAborts, PromptType
  <2>4. SessionType'
    BY <1>2 DEF LoopJudged, TickOver, StopLoop, StopAborts, SessionType
  <2>5. LoopType'
    BY <1>2 DEF LoopJudged, TickOver, StopLoop, StopAborts, LoopType, IdInv
  <2>6. QueueInv'
    BY <1>2 DEF LoopJudged, TickOver, StopLoop, StopAborts, QueueInv, QueueType
  <2>7. GoalInv'
    BY <1>2 DEF LoopJudged, TickOver, StopLoop, StopAborts, GoalInv, GoalType, LoopType
  <2>8. IdInv'
    BY <1>2 DEF LoopJudged, TickOver, StopLoop, StopAborts, IdInv, GoalType, LoopType, QueueType
  <2>9. WaitInv'
    BY <1>2 DEF LoopJudged, TickOver, StopLoop, StopAborts, WaitInv, IdInv, LoopType, QueueType
  <2>10. StopInv'
    BY <1>2 DEF LoopJudged, TickOver, StopLoop, StopAborts, StopInv, GoalType, PromptType,
       SessionType
  <2>11. DriverInv'
    BY <1>2 DEF LoopJudged, TickOver, StopLoop, StopAborts, DriverInv, StopInv, GoalInv,
       QueueInv, GoalType, QueueType, LoopType
  <2> QED  BY <2>1, <2>2, <2>3, <2>4, <2>5, <2>6, <2>7, <2>8, <2>9, <2>10, <2>11
<1> HIDE DEF EngineInv
<1> QED  BY <1>1, <1>2 DEF LoopStep

-----------------------------------------------------------------------------
(* The user's commands *)

\* A run that is armed anew is driven by the job it queues.
LEMMA ArmedIsDriven ==
  ASSUME DriverInv, at \in Await, Wake, UNCHANGED active,
         NEW j \in ToSet(pending'), IsGoal(j), phase' = "plan" => j.kind = "plan"
  PROVE  DriverInv'
<1>1. at' # "end" /\ at' # "check"
  BY DEF Wake, Await
<1>2. at' = "other" => active'.kind = "other"
  BY DEF Wake, DriverInv
<1>3. GoalQueued'
  BY DEF GoalQueued
<1> QED  BY <1>1, <1>2, <1>3 DEF DriverInv

LEMMA UserStepInv ==
  ASSUME EngineInv, UserStep
  PROVE  EngineInv'
<1> USE EngineAssumption, JobForms
    DEF EngineInv, EngineTypeOK, GoalQueued, IsGoal, OfRun,
        queueVars, goalVars, promptVars, endVars, sessionVars, planVars, loopVars, input,
        Kind, TurnKind, GoalKind, Place, Await, TurnPlace
<1>1. CASE SubmitPrompt
  <2>1. Enqueue(pending, Plain("handoff")) =>
          /\ pending' \in Seq(Job)
          /\ ToSet(pending') = ToSet(pending) \cup {Plain("handoff")}
    BY EnqueueSet DEF QueueType, GoalType, LoopType
  <2>2. Enqueue(pending, Plain("prompt")) =>
          /\ pending' \in Seq(Job)
          /\ ToSet(pending') = ToSet(pending) \cup {Plain("prompt")}
    BY EnqueueSet DEF QueueType, GoalType, LoopType
  <2>3. QueueType'
    BY <1>1, <2>1, <2>2 DEF SubmitPrompt, Command, Wake, QueueType, GoalType
  <2>4. GoalType'
    BY <1>1, <2>1, <2>2 DEF SubmitPrompt, Command, Wake, GoalType, GoalInv
  <2>5. PromptType'
    <3>1. planExec' = FALSE /\ fixPending' = FALSE /\ userStop' = FALSE /\ spent' = NothingSpent
      BY <1>1 DEF SubmitPrompt, ResetPromptBudgets
    <3>2. NothingSpent \in Spending
      BY NothingSpentType
    <3> QED  BY <3>1, <3>2 DEF PromptType
  <2>6. SessionType'
    BY <1>1, <2>1, <2>2 DEF SubmitPrompt, Command, Wake, SessionType
  <2>7. LoopType'
    BY <1>1, <2>1, <2>2 DEF SubmitPrompt, Command, Wake, LoopType, IdInv
  <2>8. QueueInv'
    BY <1>1, <2>1, <2>2 DEF SubmitPrompt, Command, Wake, QueueInv, QueueType
  <2>9. GoalInv'
    BY <1>1, <2>1, <2>2 DEF SubmitPrompt, Command, Wake, GoalInv, GoalType, LoopType
  <2>10. IdInv'
    BY <1>1, <2>1, <2>2 DEF SubmitPrompt, Command, Wake, IdInv, GoalType, LoopType, QueueType
  <2>11. WaitInv'
    BY <1>1, <2>1, <2>2 DEF SubmitPrompt, Command, Wake, WaitInv, IdInv, LoopType, QueueType
  <2>12. StopInv'
    BY <1>1 DEF SubmitPrompt, Command, Wake, ResetPromptBudgets, StopInv, PromptType
  <2>13. DriverInv'
    BY <1>1, <2>1, <2>2 DEF SubmitPrompt, Command, Wake, DriverInv, StopInv, GoalInv, QueueInv,
       GoalType, QueueType, LoopType
  <2> QED  BY <2>3, <2>4, <2>5, <2>6, <2>7, <2>8, <2>9, <2>10, <2>11, <2>12, <2>13
<1>2. CASE SubmitOther
  <2>1. Enqueue(pending, Plain("other")) =>
          /\ pending' \in Seq(Job)
          /\ ToSet(pending') = ToSet(pending) \cup {Plain("other")}
    BY EnqueueSet DEF QueueType, GoalType, LoopType
  <2>2. QueueType'
    BY <1>2, <2>1 DEF SubmitOther, Command, Wake, QueueType, GoalType
  <2>3. GoalType'
    BY <1>2, <2>1 DEF SubmitOther, Command, Wake, GoalType, GoalInv
  <2>4. PromptType'
    BY <1>2, <2>1 DEF SubmitOther, Command, Wake, PromptType
  <2>5. SessionType'
    BY <1>2, <2>1 DEF SubmitOther, Command, Wake, SessionType
  <2>6. LoopType'
    BY <1>2, <2>1 DEF SubmitOther, Command, Wake, LoopType, IdInv
  <2>7. QueueInv'
    BY <1>2, <2>1 DEF SubmitOther, Command, Wake, QueueInv, QueueType
  <2>8. GoalInv'
    BY <1>2, <2>1 DEF SubmitOther, Command, Wake, GoalInv, GoalType, LoopType
  <2>9. IdInv'
    BY <1>2, <2>1 DEF SubmitOther, Command, Wake, IdInv, GoalType, LoopType, QueueType
  <2>10. WaitInv'
    BY <1>2, <2>1 DEF SubmitOther, Command, Wake, WaitInv, IdInv, LoopType, QueueType
  <2>11. StopInv'
    BY <1>2, <2>1 DEF SubmitOther, Command, Wake, StopInv, GoalType, PromptType, SessionType
  <2>12. DriverInv'
    BY <1>2, <2>1 DEF SubmitOther, Command, Wake, DriverInv, StopInv, GoalInv, QueueInv,
       GoalType, QueueType, LoopType
  <2> QED  BY <2>2, <2>3, <2>4, <2>5, <2>6, <2>7, <2>8, <2>9, <2>10, <2>11, <2>12
<1>3. CASE Abort
  <2>0. <<>> \in Seq(Job) /\ ToSet(<<>>) = {}
    BY EmptySet
  <2>1. PauseGoalRun(<<>>) =>
          /\ pending' \in Seq(Job) /\ ToSet(pending') \subseteq ToSet(<<>>)
          /\ \A j \in ToSet(<<>>) : ~IsGoal(j) => j \in ToSet(pending')
          /\ run => \A j \in ToSet(pending') : ~IsGoal(j)
          /\ run' = FALSE /\ epochKept' \in BOOLEAN
          /\ status' \in {"none", "paused", "verified", "accept", "met"}
          /\ UNCHANGED <<goal, phase, rounds, clean>>
    BY <2>0, PauseSet
  <2>2. QueueType'
    BY <1>3, <2>0, <2>1 DEF Abort, Command, StopLoop, QueueType, GoalType
  <2>3. GoalType'
    BY <1>3, PauseType DEF Abort
  <2>4. PromptType'
    BY <1>3, <2>0, <2>1 DEF Abort, Command, StopLoop, PromptType
  <2>5. SessionType'
    BY <1>3, <2>0, <2>1 DEF Abort, Command, StopLoop, SessionType
  <2>6. LoopType'
    BY <1>3, <2>0, <2>1 DEF Abort, Command, StopLoop, LoopType, IdInv
  <2>7. QueueInv'
    BY <1>3, <2>0, <2>1 DEF Abort, Command, StopLoop, QueueInv, QueueType
  <2>8. GoalInv'
    BY <1>3, <2>0, <2>1 DEF Abort, Command, StopLoop, GoalInv, GoalType, LoopType
  <2>9. IdInv'
    BY <1>3, <2>0, <2>1 DEF Abort, Command, StopLoop, IdInv, GoalType, LoopType, QueueType
  <2>10. WaitInv'
    BY <1>3, <2>0, <2>1 DEF Abort, Command, StopLoop, WaitInv, IdInv, LoopType, QueueType
  <2>11. StopInv'
    BY <1>3, <2>0, <2>1 DEF Abort, Command, StopLoop, StopInv, GoalType, PromptType, SessionType
  <2>12. DriverInv'
    BY <1>3, <2>0, <2>1 DEF Abort, Command, StopLoop, DriverInv, StopInv, GoalInv, QueueInv,
       GoalType, QueueType, LoopType
  <2> QED  BY <2>2, <2>3, <2>4, <2>5, <2>6, <2>7, <2>8, <2>9, <2>10, <2>11, <2>12
<1>4. CASE ClearQueue
  <2>0. <<>> \in Seq(Job) /\ ToSet(<<>>) = {}
    BY EmptySet
  <2>1. PauseGoalRun(<<>>) =>
          /\ pending' \in Seq(Job) /\ ToSet(pending') \subseteq ToSet(<<>>)
          /\ \A j \in ToSet(<<>>) : ~IsGoal(j) => j \in ToSet(pending')
          /\ run => \A j \in ToSet(pending') : ~IsGoal(j)
          /\ run' = FALSE /\ epochKept' \in BOOLEAN
          /\ status' \in {"none", "paused", "verified", "accept", "met"}
          /\ UNCHANGED <<goal, phase, rounds, clean>>
    BY <2>0, PauseSet
  <2>2. QueueType'
    <3>1. pending' \in Seq(Job)
      BY <1>4, <2>0, <2>1 DEF ClearQueue
    <3> QED  BY <1>4, <3>1 DEF ClearQueue, QueueType
  <2>3. GoalType'
    <3>1. CASE PauseGoalRun(<<>>)
      BY <3>1, PauseType
    <3>2. CASE UNCHANGED goalVars
      BY <3>2 DEF GoalType
    <3> QED  BY <1>4, <3>1, <3>2 DEF ClearQueue
  <2>4. PromptType'
    BY <1>4, <2>0, <2>1, GoalQueuedAt DEF ClearQueue, Command, StopLoop, StopAborts, PromptType
  <2>5. SessionType'
    BY <1>4, <2>0, <2>1, GoalQueuedAt DEF ClearQueue, Command, StopLoop, StopAborts, SessionType
  <2>6. LoopType'
    BY <1>4, <2>0, <2>1, GoalQueuedAt DEF ClearQueue, Command, StopLoop, StopAborts, LoopType,
       IdInv
  <2>7. QueueInv'
    BY <1>4, <2>0, <2>1, GoalQueuedAt DEF ClearQueue, Command, StopLoop, StopAborts, QueueInv,
       QueueType
  <2>8. GoalInv'
    BY <1>4, <2>0, <2>1, GoalQueuedAt DEF ClearQueue, Command, StopLoop, StopAborts, GoalInv,
       GoalType, LoopType
  <2>9. IdInv'
    BY <1>4, <2>0, <2>1, GoalQueuedAt DEF ClearQueue, Command, StopLoop, StopAborts, IdInv,
       GoalType, LoopType, QueueType
  <2>10. WaitInv'
    BY <1>4, <2>0, <2>1, GoalQueuedAt DEF ClearQueue, Command, StopLoop, StopAborts, WaitInv,
       IdInv, LoopType, QueueType
  <2>11. StopInv'
    BY <1>4, <2>0, <2>1, GoalQueuedAt DEF ClearQueue, Command, StopLoop, StopAborts, StopInv,
       GoalType, PromptType, SessionType
  <2>12. DriverInv'
    BY <1>4, <2>0, <2>1, GoalQueuedAt DEF ClearQueue, Command, StopLoop, StopAborts, DriverInv,
       StopInv, GoalInv, QueueInv, GoalType, QueueType, LoopType
  <2> QED  BY <2>2, <2>3, <2>4, <2>5, <2>6, <2>7, <2>8, <2>9, <2>10, <2>11, <2>12
<1>5. CASE StopLoopNow
  <2>1. /\ Without(pending, {"tick"}) \in Seq(Job)
        /\ ToSet(Without(pending, {"tick"})) = {j \in ToSet(pending) : j.kind \notin {"tick"}}
    BY WithoutSet DEF QueueType
  <2>2. QueueType'
    BY <1>5, <2>1 DEF StopLoopNow, Command, StopLoop, StopAborts, QueueType, GoalType
  <2>3. GoalType'
    BY <1>5, <2>1 DEF StopLoopNow, Command, StopLoop, StopAborts, GoalType, GoalInv
  <2>4. PromptType'
    BY <1>5, <2>1 DEF StopLoopNow, Command, StopLoop, StopAborts, PromptType
  <2>5. SessionType'
    BY <1>5, <2>1 DEF StopLoopNow, Command, StopLoop, StopAborts, SessionType
  <2>6. LoopType'
    BY <1>5, <2>1 DEF StopLoopNow, Command, StopLoop, StopAborts, LoopType, IdInv
  <2>7. QueueInv'
    BY <1>5, <2>1 DEF StopLoopNow, Command, StopLoop, StopAborts, QueueInv, QueueType
  <2>8. GoalInv'
    BY <1>5, <2>1 DEF StopLoopNow, Command, StopLoop, StopAborts, GoalInv, GoalType, LoopType
  <2>9. IdInv'
    BY <1>5, <2>1 DEF StopLoopNow, Command, StopLoop, StopAborts, IdInv, GoalType, LoopType,
       QueueType
  <2>10. WaitInv'
    BY <1>5, <2>1 DEF StopLoopNow, Command, StopLoop, StopAborts, WaitInv, IdInv, LoopType,
       QueueType
  <2>11. StopInv'
    BY <1>5, <2>1 DEF StopLoopNow, Command, StopLoop, StopAborts, StopInv, GoalType,
       PromptType, SessionType
  <2>12. DriverInv'
    BY <1>5, <2>1 DEF StopLoopNow, Command, StopLoop, StopAborts, DriverInv, StopInv, GoalInv,
       QueueInv, GoalType, QueueType, LoopType
  <2> QED  BY <2>2, <2>3, <2>4, <2>5, <2>6, <2>7, <2>8, <2>9, <2>10, <2>11, <2>12
<1>6. ASSUME NEW i \in DOMAIN pending, Dequeue(i)
      PROVE  EngineInv'
  <2>1. /\ pending[i] \in Job /\ RemoveAt(pending, i) \in Seq(Job)
        /\ ToSet(pending) = {pending[i]} \cup ToSet(RemoveAt(pending, i))
        /\ <<pending[i]>> \o RemoveAt(pending, i) \in Seq(Job)
        /\ ToSet(<<pending[i]>> \o RemoveAt(pending, i)) = ToSet(pending)
    BY RemoveAtSet DEF QueueType
  <2>2. PauseGoalRun(RemoveAt(pending, i)) =>
          /\ pending' \in Seq(Job) /\ ToSet(pending') \subseteq ToSet(RemoveAt(pending, i))
          /\ \A j \in ToSet(RemoveAt(pending, i)) : ~IsGoal(j) => j \in ToSet(pending')
          /\ run => \A j \in ToSet(pending') : ~IsGoal(j)
          /\ run' = FALSE /\ epochKept' \in BOOLEAN
          /\ status' \in {"none", "paused", "verified", "accept", "met"}
          /\ UNCHANGED <<goal, phase, rounds, clean>>
    BY <2>1, PauseSet
  <2>3. QueueType'
    BY <1>6, <2>1, <2>2 DEF Dequeue, Command, StopLoop, StopAborts, QueueType, GoalType
  <2>4. GoalType'
    <3>1. CASE PauseGoalRun(RemoveAt(pending, i))
      BY <3>1, PauseType
    <3>2. CASE UNCHANGED goalVars
      BY <3>2 DEF GoalType
    <3> QED  BY <1>6, <3>1, <3>2 DEF Dequeue
  <2>5. PromptType'
    BY <1>6, <2>1, <2>2 DEF Dequeue, Command, StopLoop, StopAborts, PromptType
  <2>6. SessionType'
    BY <1>6, <2>1, <2>2 DEF Dequeue, Command, StopLoop, StopAborts, SessionType
  <2>7. LoopType'
    BY <1>6, <2>1, <2>2 DEF Dequeue, Command, StopLoop, StopAborts, LoopType, IdInv
  <2>8. QueueInv'
    BY <1>6, <2>1, <2>2 DEF Dequeue, Command, StopLoop, StopAborts, QueueInv, QueueType
  <2>9. GoalInv'
    BY <1>6, <2>1, <2>2 DEF Dequeue, Command, StopLoop, StopAborts, GoalInv, GoalType, LoopType
  <2>10. IdInv'
    BY <1>6, <2>1, <2>2 DEF Dequeue, Command, StopLoop, StopAborts, IdInv, GoalType, LoopType,
       QueueType
  <2>11. WaitInv'
    <3>1. CASE loop # 0 /\ pending[i] = Tick(loop)
      BY <1>6, <3>1 DEF Dequeue, StopLoop, WaitInv
    <3>2. CASE ~(loop # 0 /\ pending[i] = Tick(loop))
      <4>1. CASE loop = 0
        BY <1>6, <3>2, <4>1 DEF Dequeue, WaitInv, IdInv
      <4>2. Tick(loop) \in ToSet(pending) /\ loop # 0 => Tick(loop) \in ToSet(pending')
        BY <1>6, <2>1, <2>2, <3>2 DEF Dequeue, LoopType
      <4> QED  BY <1>6, <3>2, <4>1, <4>2 DEF Dequeue, WaitInv
    <3> QED  BY <3>1, <3>2
  <2>12. StopInv'
    BY <1>6, <2>1, <2>2 DEF Dequeue, Command, StopLoop, StopAborts, StopInv, GoalType,
       PromptType, SessionType
  <2>13. DriverInv'
    BY <1>6, <2>1, <2>2 DEF Dequeue, Command, StopLoop, StopAborts, DriverInv, StopInv,
       GoalInv, QueueInv, GoalType, QueueType, LoopType
  <2> QED  BY <2>3, <2>4, <2>5, <2>6, <2>7, <2>8, <2>9, <2>10, <2>11, <2>12, <2>13
<1>7. ASSUME NEW i \in DOMAIN pending, Steer(i)
      PROVE  EngineInv'
  <2>1. /\ pending[i] \in Job /\ RemoveAt(pending, i) \in Seq(Job)
        /\ ToSet(pending) = {pending[i]} \cup ToSet(RemoveAt(pending, i))
        /\ <<pending[i]>> \o RemoveAt(pending, i) \in Seq(Job)
        /\ ToSet(<<pending[i]>> \o RemoveAt(pending, i)) = ToSet(pending)
    BY RemoveAtSet DEF QueueType
  <2>2. QueueType'
    BY <1>7, <2>1 DEF Steer, Command, QueueType, GoalType
  <2>3. GoalType'
    BY <1>7, <2>1 DEF Steer, Command, GoalType, GoalInv
  <2>4. PromptType'
    BY <1>7, <2>1 DEF Steer, Command, PromptType
  <2>5. SessionType'
    BY <1>7, <2>1 DEF Steer, Command, SessionType
  <2>6. LoopType'
    BY <1>7, <2>1 DEF Steer, Command, LoopType, IdInv
  <2>7. QueueInv'
    BY <1>7, <2>1 DEF Steer, Command, QueueInv, QueueType
  <2>8. GoalInv'
    BY <1>7, <2>1 DEF Steer, Command, GoalInv, GoalType, LoopType
  <2>9. IdInv'
    BY <1>7, <2>1, SMTT(30) DEF Steer, Command, IdInv, LoopType, QueueType
  <2>10. WaitInv'
    BY <1>7, <2>1 DEF Steer, Command, WaitInv, IdInv, LoopType, QueueType
  <2>11. StopInv'
    BY <1>7, <2>1 DEF Steer, Command, StopInv, GoalType, PromptType, SessionType
  <2>12. DriverInv'
    BY <1>7, <2>1 DEF Steer, Command, DriverInv, StopInv, GoalInv, QueueInv, GoalType,
       QueueType, LoopType
  <2> QED  BY <2>2, <2>3, <2>4, <2>5, <2>6, <2>7, <2>8, <2>9, <2>10, <2>11, <2>12
<1>8. ASSUME NEW g \in Goal, SetGoal(g)
      PROVE  EngineInv'
  <2>1. /\ Sweep(pending) \in Seq(Job)
        /\ ToSet(Sweep(pending)) = {j \in ToSet(pending) : ~IsGoal(j)}
    BY SweepSet DEF QueueType
  <2>2. Enqueue(Sweep(pending), ForGoal(IF PlanFirst THEN "plan" ELSE "drive", g)) =>
          /\ pending' \in Seq(Job)
          /\ ToSet(pending')
               = ToSet(Sweep(pending)) \cup {ForGoal(IF PlanFirst THEN "plan" ELSE "drive", g)}
    BY <2>1, EnqueueSet DEF QueueType, GoalType, LoopType
  <2>3. QueueType'
    BY <1>8, <2>1, <2>2 DEF SetGoal, Armed, Command, Wake, QueueType, GoalType
  <2>4. GoalType'
    <3>1. goal' \in Goal \cup {NoGoal} /\ phase' \in {"none", "plan", "execute"}
      BY <1>8 DEF SetGoal, GoalType
    <3>2. run' = TRUE /\ epochKept' = FALSE /\ rounds' = 0 /\ clean' = 0 /\ status' = "none"
      BY <1>8 DEF SetGoal, Armed
    <3>3. 0 \in 0..MaxRounds /\ 0 \in 0..2
      OBVIOUS
    <3> QED  BY <3>1, <3>2, <3>3 DEF GoalType
  <2>5. PromptType'
    <3>1. planExec' = FALSE /\ fixPending' = FALSE /\ userStop' = FALSE /\ spent' = NothingSpent
      BY <1>8 DEF SetGoal, Armed, ResetPromptBudgets
    <3>2. NothingSpent \in Spending
      BY NothingSpentType
    <3> QED  BY <3>1, <3>2 DEF PromptType
  <2>6. SessionType'
    BY <1>8, <2>1, <2>2 DEF SetGoal, Armed, Command, Wake, SessionType
  <2>7. LoopType'
    BY <1>8, <2>1, <2>2 DEF SetGoal, Armed, Command, Wake, LoopType, IdInv
  <2>8. QueueInv'
    BY <1>8, <2>1, <2>2 DEF SetGoal, Armed, Command, Wake, QueueInv, QueueType
  <2>9. GoalInv'
    BY <1>8, <2>1, <2>2 DEF SetGoal, Armed, Command, Wake, GoalInv, GoalType, LoopType
  <2>10. IdInv'
    BY <1>8, <2>1, <2>2 DEF SetGoal, Armed, Command, Wake, IdInv, GoalType, LoopType, QueueType
  <2>11. WaitInv'
    BY <1>8, <2>1, <2>2 DEF SetGoal, Armed, Command, Wake, WaitInv, IdInv, LoopType, QueueType
  <2>12. StopInv'
    BY <1>8 DEF SetGoal, Armed, Command, Wake, ResetPromptBudgets, StopInv, PromptType
  <2>13. DriverInv'
    <3> DEFINE k == IF PlanFirst THEN "plan" ELSE "drive"
    <3>1. k \in GoalKind /\ (phase' = "plan" => k = "plan")
      BY <1>8 DEF SetGoal
    <3>2. ForGoal(k, g) \in ToSet(pending')
      BY <1>8, <2>2 DEF SetGoal
    <3> HIDE DEF k
    <3>3. ForGoal(k, g).kind = k
      BY <3>1
    <3>4. IsGoal(ForGoal(k, g)) /\ (phase' = "plan" => ForGoal(k, g).kind = "plan")
      BY <3>1, <3>3
    <3> QED  BY <1>8, <3>2, <3>4, ArmedIsDriven DEF SetGoal, Armed, Command
  <2> QED  BY <2>3, <2>4, <2>5, <2>6, <2>7, <2>8, <2>9, <2>10, <2>11, <2>12, <2>13
<1>9. CASE ClearGoal
  <2>1. /\ Sweep(pending) \in Seq(Job)
        /\ ToSet(Sweep(pending)) = {j \in ToSet(pending) : ~IsGoal(j)}
    BY SweepSet DEF QueueType
  <2>2. QueueType'
    BY <1>9, <2>1 DEF ClearGoal, Command, QueueType, GoalType
  <2>3. GoalType'
    BY <1>9, <2>1 DEF ClearGoal, Command, GoalType, GoalInv
  <2>4. PromptType'
    BY <1>9, <2>1 DEF ClearGoal, Command, PromptType
  <2>5. SessionType'
    BY <1>9, <2>1 DEF ClearGoal, Command, SessionType
  <2>6. LoopType'
    BY <1>9, <2>1 DEF ClearGoal, Command, LoopType, IdInv
  <2>7. QueueInv'
    BY <1>9, <2>1 DEF ClearGoal, Command, QueueInv, QueueType
  <2>8. GoalInv'
    BY <1>9, <2>1 DEF ClearGoal, Command, GoalInv, GoalType, LoopType
  <2>9. IdInv'
    BY <1>9, <2>1 DEF ClearGoal, Command, IdInv, GoalType, LoopType, QueueType
  <2>10. WaitInv'
    BY <1>9, <2>1 DEF ClearGoal, Command, WaitInv, IdInv, LoopType, QueueType
  <2>11. StopInv'
    BY <1>9, <2>1 DEF ClearGoal, Command, StopInv, GoalType, PromptType, SessionType
  <2>12. DriverInv'
    BY <1>9, <2>1 DEF ClearGoal, Command, DriverInv, StopInv, GoalInv, QueueInv, GoalType,
       QueueType, LoopType
  <2> QED  BY <2>2, <2>3, <2>4, <2>5, <2>6, <2>7, <2>8, <2>9, <2>10, <2>11, <2>12
<1>10. CASE ResumeGoal
  <2>1. Enqueue(pending, ForGoal(IF ResumedPhase = "plan" THEN "plan" ELSE "resume", goal)) =>
          /\ pending' \in Seq(Job)
          /\ ToSet(pending')
               = ToSet(pending) \cup {ForGoal(IF ResumedPhase = "plan" THEN "plan" ELSE "resume", goal)}
    BY EnqueueSet DEF QueueType, GoalType, LoopType
  <2>2. QueueType'
    BY <1>10, <2>1 DEF ResumeGoal, Armed, Command, Wake, QueueType, GoalType
  <2>3. GoalType'
    <3>1. goal' \in Goal \cup {NoGoal} /\ phase' \in {"none", "plan", "execute"}
      BY <1>10 DEF ResumeGoal, ResumedPhase, GoalType
    <3>2. run' = TRUE /\ epochKept' = FALSE /\ rounds' = 0 /\ clean' = 0 /\ status' = "none"
      BY <1>10 DEF ResumeGoal, Armed
    <3>3. 0 \in 0..MaxRounds /\ 0 \in 0..2
      OBVIOUS
    <3> QED  BY <3>1, <3>2, <3>3 DEF GoalType
  <2>4. PromptType'
    <3>1. planExec' = FALSE /\ fixPending' = FALSE /\ userStop' = FALSE /\ spent' = NothingSpent
      BY <1>10 DEF ResumeGoal, Armed, ResetPromptBudgets
    <3>2. NothingSpent \in Spending
      BY NothingSpentType
    <3> QED  BY <3>1, <3>2 DEF PromptType
  <2>5. SessionType'
    BY <1>10, <2>1 DEF ResumeGoal, Armed, Command, Wake, SessionType
  <2>6. LoopType'
    BY <1>10, <2>1 DEF ResumeGoal, Armed, Command, Wake, LoopType, IdInv
  <2>7. QueueInv'
    BY <1>10, <2>1 DEF ResumeGoal, Armed, Command, Wake, QueueInv, QueueType
  <2>8. GoalInv'
    BY <1>10, <2>1 DEF ResumeGoal, Armed, Command, Wake, GoalInv, GoalType, LoopType
  <2>9. IdInv'
    BY <1>10, <2>1 DEF ResumeGoal, Armed, Command, Wake, IdInv, GoalType, LoopType, QueueType
  <2>10. WaitInv'
    BY <1>10, <2>1 DEF ResumeGoal, Armed, Command, Wake, WaitInv, IdInv, LoopType, QueueType
  <2>11. StopInv'
    BY <1>10 DEF ResumeGoal, Armed, Command, Wake, ResetPromptBudgets, StopInv, PromptType
  <2>12. DriverInv'
    <3>1. PICK j \in Job : /\ ToSet(pending') = ToSet(pending) \cup {j} /\ IsGoal(j)
                           /\ phase' = "plan" => j.kind = "plan"
      <4> DEFINE k == IF ResumedPhase = "plan" THEN "plan" ELSE "resume"
      <4>1. k \in GoalKind /\ (phase' = "plan" => k = "plan")
        BY <1>10 DEF ResumeGoal
      <4>2. ToSet(pending') = ToSet(pending) \cup {ForGoal(k, goal)}
        BY <1>10, <2>1 DEF ResumeGoal
      <4> HIDE DEF k
      <4>3. ForGoal(k, goal) \in Job /\ ForGoal(k, goal).kind = k
        BY <4>1 DEF GoalType
      <4> QED  BY <4>1, <4>2, <4>3
    <3>2. j \in ToSet(pending')
      BY <3>1
    <3> QED  BY <1>10, <3>1, <3>2, ArmedIsDriven DEF ResumeGoal, Armed, Command
  <2> QED  BY <2>2, <2>3, <2>4, <2>5, <2>6, <2>7, <2>8, <2>9, <2>10, <2>11, <2>12
<1>11. CASE AcceptGoal
  <2>1. QueueType'
    BY <1>11 DEF AcceptGoal, Command, QueueType, GoalType
  <2>2. GoalType'
    BY <1>11 DEF AcceptGoal, Command, GoalType, GoalInv
  <2>3. PromptType'
    BY <1>11 DEF AcceptGoal, Command, PromptType
  <2>4. SessionType'
    BY <1>11 DEF AcceptGoal, Command, SessionType
  <2>5. LoopType'
    BY <1>11 DEF AcceptGoal, Command, LoopType, IdInv
  <2>6. QueueInv'
    BY <1>11 DEF AcceptGoal, Command, QueueInv, QueueType
  <2>7. GoalInv'
    BY <1>11 DEF AcceptGoal, Command, GoalInv, GoalType, LoopType
  <2>8. IdInv'
    BY <1>11 DEF AcceptGoal, Command, IdInv, GoalType, LoopType, QueueType
  <2>9. WaitInv'
    BY <1>11 DEF AcceptGoal, Command, WaitInv, IdInv, LoopType, QueueType
  <2>10. StopInv'
    BY <1>11 DEF AcceptGoal, Command, StopInv, GoalType, PromptType, SessionType
  <2>11. DriverInv'
    BY <1>11 DEF AcceptGoal, Command, DriverInv, StopInv, GoalInv, QueueInv, GoalType,
       QueueType, LoopType
  <2> QED  BY <2>1, <2>2, <2>3, <2>4, <2>5, <2>6, <2>7, <2>8, <2>9, <2>10, <2>11
<1>12. CASE EnterPlan
  <2>1. PauseGoalRun(pending) =>
          /\ pending' \in Seq(Job) /\ ToSet(pending') \subseteq ToSet(pending)
          /\ \A j \in ToSet(pending) : ~IsGoal(j) => j \in ToSet(pending')
          /\ run => \A j \in ToSet(pending') : ~IsGoal(j)
          /\ run' = FALSE /\ epochKept' \in BOOLEAN
          /\ status' \in {"none", "paused", "verified", "accept", "met"}
          /\ UNCHANGED <<goal, phase, rounds, clean>>
    BY PauseSet DEF QueueType
  <2>2. QueueType'
    BY <1>12, <2>1 DEF EnterPlan, Command, QueueType, GoalType
  <2>3. GoalType'
    BY <1>12, PauseType DEF EnterPlan
  <2>4. PromptType'
    BY <1>12, <2>1 DEF EnterPlan, Command, PromptType
  <2>5. SessionType'
    BY <1>12, <2>1 DEF EnterPlan, Command, SessionType
  <2>6. LoopType'
    BY <1>12, <2>1 DEF EnterPlan, Command, LoopType, IdInv
  <2>7. QueueInv'
    BY <1>12, <2>1 DEF EnterPlan, Command, QueueInv, QueueType
  <2>8. GoalInv'
    BY <1>12, <2>1 DEF EnterPlan, Command, GoalInv, GoalType, LoopType
  <2>9. IdInv'
    BY <1>12, <2>1 DEF EnterPlan, Command, IdInv, GoalType, LoopType, QueueType
  <2>10. WaitInv'
    BY <1>12, <2>1 DEF EnterPlan, Command, WaitInv, IdInv, LoopType, QueueType
  <2>11. StopInv'
    BY <1>12, <2>1 DEF EnterPlan, Command, StopInv, GoalType, PromptType, SessionType
  <2>12. DriverInv'
    BY <1>12, <2>1 DEF EnterPlan, Command, DriverInv, StopInv, GoalInv, QueueInv, GoalType,
       QueueType, LoopType
  <2> QED  BY <2>2, <2>3, <2>4, <2>5, <2>6, <2>7, <2>8, <2>9, <2>10, <2>11, <2>12
<1>13. CASE LeavePlan
  <2>1. QueueType'
    BY <1>13 DEF LeavePlan, Command, QueueType, GoalType
  <2>2. GoalType'
    BY <1>13 DEF LeavePlan, Command, GoalType, GoalInv
  <2>3. PromptType'
    BY <1>13 DEF LeavePlan, Command, PromptType
  <2>4. SessionType'
    BY <1>13 DEF LeavePlan, Command, SessionType
  <2>5. LoopType'
    BY <1>13 DEF LeavePlan, Command, LoopType, IdInv
  <2>6. QueueInv'
    BY <1>13 DEF LeavePlan, Command, QueueInv, QueueType
  <2>7. GoalInv'
    BY <1>13 DEF LeavePlan, Command, GoalInv, GoalType, LoopType
  <2>8. IdInv'
    BY <1>13 DEF LeavePlan, Command, IdInv, GoalType, LoopType, QueueType
  <2>9. WaitInv'
    BY <1>13 DEF LeavePlan, Command, WaitInv, IdInv, LoopType, QueueType
  <2>10. StopInv'
    BY <1>13 DEF LeavePlan, Command, StopInv, GoalType, PromptType, SessionType
  <2>11. DriverInv'
    BY <1>13 DEF LeavePlan, Command, DriverInv, StopInv, GoalInv, QueueInv, GoalType,
       QueueType, LoopType
  <2> QED  BY <2>1, <2>2, <2>3, <2>4, <2>5, <2>6, <2>7, <2>8, <2>9, <2>10, <2>11
<1>14. CASE ApprovePlan
  <2>1. Enqueue(pending, Plain("handoff")) =>
          /\ pending' \in Seq(Job)
          /\ ToSet(pending') = ToSet(pending) \cup {Plain("handoff")}
    BY EnqueueSet DEF QueueType, GoalType, LoopType
  <2>2. QueueType'
    BY <1>14, <2>1 DEF ApprovePlan, Command, Wake, QueueType, GoalType
  <2>3. GoalType'
    BY <1>14, <2>1 DEF ApprovePlan, Command, Wake, GoalType, GoalInv
  <2>4. PromptType'
    BY <1>14, <2>1 DEF ApprovePlan, Command, Wake, PromptType
  <2>5. SessionType'
    BY <1>14, <2>1 DEF ApprovePlan, Command, Wake, SessionType
  <2>6. LoopType'
    BY <1>14, <2>1 DEF ApprovePlan, Command, Wake, LoopType, IdInv
  <2>7. QueueInv'
    BY <1>14, <2>1 DEF ApprovePlan, Command, Wake, QueueInv, QueueType
  <2>8. GoalInv'
    BY <1>14, <2>1 DEF ApprovePlan, Command, Wake, GoalInv, GoalType, LoopType
  <2>9. IdInv'
    BY <1>14, <2>1 DEF ApprovePlan, Command, Wake, IdInv, GoalType, LoopType, QueueType
  <2>10. WaitInv'
    BY <1>14, <2>1 DEF ApprovePlan, Command, Wake, WaitInv, IdInv, LoopType, QueueType
  <2>11. StopInv'
    BY <1>14, <2>1 DEF ApprovePlan, Command, Wake, StopInv, GoalType, PromptType, SessionType
  <2>12. DriverInv'
    BY <1>14, <2>1 DEF ApprovePlan, Command, Wake, DriverInv, StopInv, GoalInv, QueueInv,
       GoalType, QueueType, LoopType
  <2> QED  BY <2>2, <2>3, <2>4, <2>5, <2>6, <2>7, <2>8, <2>9, <2>10, <2>11, <2>12
<1>15. ASSUME NEW edit \in BOOLEAN, RevisePlan(edit)
       PROVE  EngineInv'
  <2>1. Enqueue(pending, Plain("prompt")) =>
          /\ pending' \in Seq(Job)
          /\ ToSet(pending') = ToSet(pending) \cup {Plain("prompt")}
    BY EnqueueSet DEF QueueType, GoalType, LoopType
  <2>2. QueueType'
    BY <1>15, <2>1 DEF RevisePlan, Command, Wake, QueueType, GoalType
  <2>3. GoalType'
    BY <1>15, <2>1 DEF RevisePlan, Command, Wake, GoalType, GoalInv
  <2>4. PromptType'
    BY <1>15, <2>1 DEF RevisePlan, Command, Wake, PromptType
  <2>5. SessionType'
    BY <1>15, <2>1 DEF RevisePlan, Command, Wake, SessionType
  <2>6. LoopType'
    BY <1>15, <2>1 DEF RevisePlan, Command, Wake, LoopType, IdInv
  <2>7. QueueInv'
    BY <1>15, <2>1 DEF RevisePlan, Command, Wake, QueueInv, QueueType
  <2>8. GoalInv'
    BY <1>15, <2>1 DEF RevisePlan, Command, Wake, GoalInv, GoalType, LoopType
  <2>9. IdInv'
    BY <1>15, <2>1 DEF RevisePlan, Command, Wake, IdInv, GoalType, LoopType, QueueType
  <2>10. WaitInv'
    BY <1>15, <2>1 DEF RevisePlan, Command, Wake, WaitInv, IdInv, LoopType, QueueType
  <2>11. StopInv'
    BY <1>15, <2>1 DEF RevisePlan, Command, Wake, StopInv, GoalType, PromptType, SessionType
  <2>12. DriverInv'
    BY <1>15, <2>1 DEF RevisePlan, Command, Wake, DriverInv, StopInv, GoalInv, QueueInv,
       GoalType, QueueType, LoopType
  <2> QED  BY <2>2, <2>3, <2>4, <2>5, <2>6, <2>7, <2>8, <2>9, <2>10, <2>11, <2>12
<1>16. CASE Finalize
  <2>1. <<>> \in Seq(Job) /\ ToSet(<<>>) = {}
    BY EmptySet
  <2>2. QueueType'
    BY <1>16, <2>1 DEF Finalize, StopLoop, QueueType, GoalType
  <2>3. GoalType'
    BY <1>16, <2>1 DEF Finalize, StopLoop, GoalType, GoalInv
  <2>4. PromptType'
    BY <1>16, <2>1 DEF Finalize, StopLoop, PromptType
  <2>5. SessionType'
    BY <1>16, <2>1 DEF Finalize, StopLoop, SessionType
  <2>6. LoopType'
    BY <1>16, <2>1 DEF Finalize, StopLoop, LoopType, IdInv
  <2>7. QueueInv'
    BY <1>16, <2>1 DEF Finalize, StopLoop, QueueInv, QueueType
  <2>8. GoalInv'
    BY <1>16, <2>1 DEF Finalize, StopLoop, GoalInv, GoalType, LoopType
  <2>9. IdInv'
    BY <1>16, <2>1 DEF Finalize, StopLoop, IdInv, GoalType, LoopType, QueueType
  <2>10. WaitInv'
    BY <1>16, <2>1 DEF Finalize, StopLoop, WaitInv, IdInv, LoopType, QueueType
  <2>11. StopInv'
    BY <1>16, <2>1 DEF Finalize, StopLoop, StopInv, GoalType, PromptType, SessionType
  <2>12. DriverInv'
    BY <1>16, <2>1 DEF Finalize, StopLoop, DriverInv, StopInv, GoalInv, QueueInv, GoalType,
       QueueType, LoopType
  <2> QED  BY <2>2, <2>3, <2>4, <2>5, <2>6, <2>7, <2>8, <2>9, <2>10, <2>11, <2>12
<1> HIDE DEF EngineInv
<1> QED
  BY <1>1, <1>2, <1>3, <1>4, <1>5, <1>6, <1>7, <1>8, <1>9, <1>10, <1>11, <1>12, <1>13, <1>14,
     <1>15, <1>16
  DEF UserStep

-----------------------------------------------------------------------------
(* The theorems *)

LEMMA EngineInit_Inv ==
  ASSUME EngineInit
  PROVE  EngineInv
<1>1. <<>> \in Seq(Job) /\ ToSet(<<>>) = {}
  BY EmptySet
<1>2. NothingSpent \in Spending
  BY NothingSpentType
<1>3. EngineTypeOK
  <2>1. /\ {MaxRounds, MaxNudges, MaxInputs, MaxTicks} \subseteq Nat
        /\ 0 \in 0..MaxRounds /\ 0 \in 0..MaxNudges /\ 0 \in 0..MaxTicks /\ 0 \in 0..MaxInputs
        /\ 0 \in 0..2
    BY EngineAssumption
  <2>2. QueueType
    BY <1>1 DEF EngineInit, QueueType, Place, Await
  <2>3. GoalType
    BY <2>1 DEF EngineInit, GoalType
  <2>4. PromptType
    BY <1>2 DEF EngineInit, PromptType
  <2>5. SessionType
    BY <2>1 DEF EngineInit, SessionType
  <2>6. LoopType
    BY <2>1 DEF EngineInit, LoopType
  <2> QED  BY <2>2, <2>3, <2>4, <2>5, <2>6 DEF EngineTypeOK
<1>4. QueueInv /\ GoalInv /\ IdInv /\ WaitInv /\ StopInv /\ DriverInv
  BY <1>1, JobForms
  DEF EngineInit, QueueInv, GoalInv, IdInv, WaitInv, StopInv, DriverInv, GoalQueued, OfRun
<1> QED  BY <1>3, <1>4 DEF EngineInv

LEMMA EngineStutter_Inv ==
  ASSUME EngineInv, UNCHANGED vars
  PROVE  EngineInv'
BY DEF EngineInv, EngineTypeOK, QueueType, GoalType, PromptType, SessionType, LoopType,
   QueueInv,
       GoalInv, IdInv, WaitInv, StopInv, DriverInv, GoalQueued, vars, queueVars, goalVars,
          promptVars, sessionVars,
       planVars, loopVars

\* The strengthening holds: it holds at first and no step of the drain loop, of
\* a turn, of the recurring loop or of the user breaks it.
THEOREM EngineInvariant == EngineSpec => []EngineInv
<1>1. EngineInit => EngineInv
  BY EngineInit_Inv
<1>2. EngineInv /\ [EngineNext]_vars => EngineInv'
  BY TurnStepInv, DrainStepInv, LoopStepInv, UserStepInv, EngineStutter_Inv DEF EngineNext
<1> QED  BY <1>1, <1>2, PTL DEF EngineSpec

\* Every part of the engine's state has its type, and no budget (fixes, reviews,
\* continuations, goal rounds, clean passes, iterations) is overspent, however
\* many commands the user sends.
THEOREM EngineTypesHold == EngineSpec => []EngineTypeOK
<1>1. EngineInv => EngineTypeOK
  BY DEF EngineInv
<1> QED  BY <1>1, EngineInvariant, PTL

\* The drain loop does not end while a job waits (engine.ts, #runDrain).
THEOREM NothingIsStranded == EngineSpec => []IdleIsEmpty
<1>1. EngineInv => IdleIsEmpty
  BY EmptyQueue DEF EngineInv, EngineTypeOK, QueueType, QueueInv, IdleIsEmpty
<1> QED  BY <1>1, EngineInvariant, PTL

\* A stopped goal run leaves no turn in the queue (engine.ts, #pauseGoalRun,
\* #stopGoalRun and the verdict of #maybeContinueGoal).
THEOREM StoppedRunsAreSwept == EngineSpec => []StoppedRunIsSwept
<1>1. EngineInv => StoppedRunIsSwept
  BY GoalQueuedAt DEF EngineInv, GoalInv, StoppedRunIsSwept
<1> QED  BY <1>1, EngineInvariant, PTL

\* A live controller of the recurring loop never waits for an iteration that was
\* dropped (loop.ts, #tick; engine.ts, #handleLoop).
THEOREM LoopsStayAlive == EngineSpec => []LoopIsAlive
<1>1. EngineInv => LoopIsAlive
  BY DEF EngineInv, IdInv, WaitInv, LoopIsAlive, ToSet
<1> QED  BY <1>1, EngineInvariant, PTL

\* A turn of the goal run, or a fix turn, that ends without being cancelled
\* queues its successor or pauses the run (engine.ts, #afterTurn,
\* #maybeContinueGoal, #runGate).
THEOREM GoalTurnsLeaveDrivers == EngineSpec => GoalTurnLeavesDriver
<1> DEFINE A == GoalTurnEnds /\ run' /\ ~aborted => pending' # <<>> \/ fixPending'
<1>1. ASSUME EngineInv, EngineInv', EngineNext, GoalTurnEnds, run', ~aborted
      PROVE  pending' # <<>> \/ fixPending'
  <2> USE DEF IsGoal, GoalKind, queueVars, goalVars, promptVars
  <2>1. active.kind # "none" /\ at' = "next" /\ ~closing /\ at # "next" /\ OfRun(active)
    BY <1>1 DEF GoalTurnEnds, OfRun
  <2>2. active # None
    BY <2>1, JobForms
  <2>3. at \notin {"idle", "yield", "hook", "other"}
    BY <1>1, <2>1, <2>2 DEF EngineInv, QueueInv, DriverInv, OfRun
  <2>4. CASE JobEnds
    <3>1. at = "end" /\ (ToSet(pending) # {} \/ fixPending \/ active.kind = "plan")
      <4>1. at = "end" /\ run
        BY <2>4, <1>1 DEF JobEnds, BeginGoalExecution
      <4> QED  BY <4>1, <1>1, <2>1 DEF EngineInv, DriverInv
    <3>2. CASE active.kind = "plan"
      <4>1. Enqueue(pending, ForGoal("execute", active.goal))
        BY <2>4, <3>2, <1>1 DEF JobEnds, BeginGoalExecution
      <4>2. pending \in Seq(Job) /\ ForGoal("execute", active.goal) \in Job
        BY <2>2, <1>1, JobForms DEF EngineInv, EngineTypeOK, QueueType, Kind
      <4> QED  BY <4>1, <4>2, AppendSet DEF Enqueue
    <3>3. CASE active.kind # "plan"
      <4>1. UNCHANGED <<pending, fixPending>>
        BY <2>4, <3>3 DEF JobEnds
      <4> QED  BY <3>1, <3>3, <4>1, EmptySet
    <3> QED  BY <3>2, <3>3
  <2>5. CASE Throws
    <3>1. ~IsGoal(active) => at = "end"
      BY <1>1 DEF GoalTurnEnds
    <3> QED  BY <2>5, <3>1, <1>1 DEF Throws, PauseGoalRun
  <2>6. CASE TurnStep /\ ~JobEnds /\ ~Throws
    BY <2>1, <2>6 DEF TurnStep, TurnDenied, TurnAllowed, BeginTurn, GateRed, GatePasses,
       CommitEnds, TurnEnds, ReviewEnds, ContinueTasks, CheckGoal, AssessEnds
  <2>7. CASE DrainStep
    BY <2>1, <2>3, <2>7 DEF DrainStep, Take, TakePrompt, TakeFix, TakeRound, TakeResume,
       TakeOther,
       OtherEnds, LoopStarts, Drained, Yielded, HookReturns
  <2>8. CASE LoopStep \/ UserStep
    <3>1. at' = at \/ Wake
      BY <2>8 DEF LoopStep, LoopFires, LoopJudged, UserStep, SubmitPrompt, SubmitOther, Abort,
         ClearQueue, StopLoopNow, Dequeue, Steer, SetGoal, Armed, ClearGoal, ResumeGoal,
         AcceptGoal, EnterPlan, LeavePlan, ApprovePlan, RevisePlan, Finalize
    <3> QED  BY <3>1, <2>1, <2>3 DEF Wake
  <2> QED  BY <1>1, <2>4, <2>5, <2>6, <2>7, <2>8 DEF EngineNext
<1>2. EngineInv /\ EngineInv' /\ [EngineNext]_vars => [A]_vars
  BY <1>1
<1> QED  BY <1>2, EngineInvariant, PTL DEF EngineSpec, GoalTurnLeavesDriver
=============================================================================
