--------------------------- MODULE LimiterProofs ---------------------------
(***************************************************************************)
(* Proofs about Limiter, for every set of sessions, every ceiling and      *)
(* floor, every recovery rate, and whether or not the SDK abandons the     *)
(* tools of an aborted turn.                                               *)
(***************************************************************************)
EXTENDS Limiter, FiniteSetTheorems, SequenceTheorems, TLAPS

\* The elements of a queue, and that it lists none of them twice.
Listed(q) == {q[i] : i \in 1..Len(q)}
Distinct(q) == \A i, j \in 1..Len(q) : q[i] = q[j] => i = j

\* The turns of a given function that are in progress.
InProgress(t) == {c \in Session : t[c] = "running"}
Awaiting(t) == {c \in Session : t[c] = "queued"}

\* The sets the conservation law counts are finite.
LEMMA FiniteParts ==
  ASSUME NEW t
  PROVE  /\ IsFiniteSet(InProgress(t)) /\ Cardinality(InProgress(t)) \in Nat
         /\ IsFiniteSet(Lending) /\ Cardinality(Lending) \in Nat
         /\ IsFiniteSet(Lending') /\ Cardinality(Lending') \in Nat
<1>1. InProgress(t) \in SUBSET Session /\ Lending \in SUBSET Session
      /\ Lending' \in SUBSET Session
  BY DEF InProgress, Lending
<1> QED  BY <1>1, FS_Subset, FS_CardinalityType, LimiterAssumption

\* The first n entries of a queue without repetition are n elements.
LEMMA PrefixCardinality ==
  ASSUME NEW S, NEW q \in Seq(S), Distinct(q), NEW n \in 0..Len(q)
  PROVE  /\ IsFiniteSet({q[i] : i \in 1..n})
         /\ Cardinality({q[i] : i \in 1..n}) = n
<1> DEFINE T == {q[i] : i \in 1..n}
           f == [i \in 1..n |-> q[i]]
<1>1. n \in Nat /\ Len(q) \in Nat /\ n <= Len(q)  OBVIOUS
<1>2. f \in [1..n -> T]  OBVIOUS
<1>3. IsInjective(f)
  BY <1>1 DEF IsInjective, Distinct
<1>4. \A y \in T : \E x \in 1..n : f[x] = y  OBVIOUS
<1>5. f \in Bijection(1..n, T)
  BY <1>2, <1>3, <1>4 DEF Bijection, Injection, Surjection
<1>6. ExistsBijection(1..n, T)  BY <1>5 DEF ExistsBijection
<1>7. IsFiniteSet(1..n) /\ Cardinality(1..n) = n
  BY <1>1, FS_Interval
<1> QED  BY <1>6, <1>7, FS_Bijection

\* A pump keeps the queue equal to the queued turns, leaves nobody waiting
\* below the ceiling, and adds to the count exactly the turns it admits.
LEMMA PumpLemma ==
  ASSUME NEW lim \in Nat, NEW act \in Int, NEW turns \in [Session -> TurnState],
         waiters \in Seq(Session), Distinct(waiters),
         Listed(waiters) = Awaiting(turns),
         Pump(lim, act, turns)
  PROVE  /\ turn' \in [Session -> TurnState]
         /\ waiters' \in Seq(Session)
         /\ Distinct(waiters')
         /\ Listed(waiters') = Awaiting(turn')
         /\ active' \in Int
         /\ waiters' # <<>> => active' >= lim
         /\ active' - Cardinality(InProgress(turn'))
              = act - Cardinality(InProgress(turns))
<1> DEFINE free == IF act < lim THEN lim - act ELSE 0
           n == IF Len(waiters) < free THEN Len(waiters) ELSE free
           admitted == {waiters[i] : i \in 1..n}
<1>1. /\ active' = act + n
      /\ waiters' = SubSeq(waiters, n + 1, Len(waiters))
      /\ turn' = [c \in Session |-> IF c \in admitted THEN "running" ELSE turns[c]]
  BY DEF Pump
<1>2. free \in Nat /\ n \in 0..Len(waiters) /\ n <= free /\ Len(waiters) \in Nat
  OBVIOUS
<1> HIDE DEF free, n
<1>3. /\ waiters' \in Seq(Session)
      /\ Len(waiters') = Len(waiters) - n
      /\ \A i \in 1..Len(waiters') : waiters'[i] = waiters[n + i]
  <2>1. \A i \in (n + 1)..Len(waiters) : waiters[i] \in Session
    BY <1>2
  <2>2. /\ waiters' \in Seq(Session)
        /\ Len(waiters') = IF n + 1 <= Len(waiters) THEN Len(waiters) - (n + 1) + 1 ELSE 0
        /\ \A i \in 1..(Len(waiters) - (n + 1) + 1) : waiters'[i] = waiters[(n + 1) + i - 1]
    BY <1>1, <1>2, <2>1, SubSeqProperties
  <2>3. Len(waiters') = Len(waiters) - n  BY <1>2, <2>2
  <2>4. ASSUME NEW i \in 1..Len(waiters')  PROVE waiters'[i] = waiters[n + i]
    <3>1. i \in 1..(Len(waiters) - (n + 1) + 1) /\ (n + 1) + i - 1 = n + i
      BY <1>2, <2>3
    <3>2. waiters'[i] = waiters[(n + 1) + i - 1]  BY <2>2, <3>1
    <3> QED  BY <3>1, <3>2
  <2> QED  BY <2>2, <2>3, <2>4
<1>4. admitted \subseteq Awaiting(turns)
  BY <1>2 DEF Listed
<1>5. turn' \in [Session -> TurnState]
  BY <1>1 DEF TurnState
<1>6. Distinct(waiters')
  <2> SUFFICES ASSUME NEW i \in 1..Len(waiters'), NEW j \in 1..Len(waiters'),
                      waiters'[i] = waiters'[j]
               PROVE  i = j
    BY DEF Distinct
  <2>1. n + i \in 1..Len(waiters) /\ n + j \in 1..Len(waiters)
    BY <1>2, <1>3
  <2>2. waiters[n + i] = waiters[n + j]  BY <1>3
  <2>3. n + i = n + j  BY <2>1, <2>2 DEF Distinct
  <2> QED  BY <1>2, <2>3
<1>7. Listed(waiters') = Awaiting(turns) \ admitted
  <2>1. ASSUME NEW c \in Listed(waiters')  PROVE c \in Awaiting(turns) \ admitted
    <3>1. PICK i \in 1..Len(waiters') : c = waiters'[i]  BY <2>1 DEF Listed
    <3>2. n + i \in 1..Len(waiters) /\ c = waiters[n + i]  BY <1>2, <1>3, <3>1
    <3>3. c \in Awaiting(turns)  BY <3>2 DEF Listed
    <3>4. ASSUME NEW k \in 1..n, c = waiters[k]  PROVE FALSE
      <4>1. k \in 1..Len(waiters)  BY <1>2
      <4>2. k = n + i  BY <3>2, <3>4, <4>1 DEF Distinct
      <4> QED  BY <1>2, <4>2
    <3> QED  BY <3>3, <3>4
  <2>2. ASSUME NEW c \in Awaiting(turns) \ admitted  PROVE c \in Listed(waiters')
    <3>1. PICK k \in 1..Len(waiters) : c = waiters[k]  BY <2>2 DEF Listed
    <3>2. k \notin 1..n  BY <2>2, <3>1
    <3>3. k - n \in 1..Len(waiters') /\ n + (k - n) = k  BY <1>2, <1>3, <3>2
    <3>4. waiters'[k - n] = c  BY <1>3, <3>1, <3>3
    <3> QED  BY <3>3, <3>4 DEF Listed
  <2> QED  BY <2>1, <2>2
<1>8. Awaiting(turn') = Awaiting(turns) \ admitted
  BY <1>1 DEF Awaiting
<1>9. waiters' # <<>> => active' >= lim
  <2> SUFFICES ASSUME waiters' # <<>>  PROVE active' >= lim
    OBVIOUS
  <2>1. Len(waiters') # 0  BY <1>3, EmptySeq
  <2>2. n # Len(waiters)  BY <1>2, <1>3, <2>1
  <2>3. n = free  BY <2>2 DEF n
  <2> QED  BY <1>1, <1>2, <2>3 DEF free
<1>10. active' - Cardinality(InProgress(turn')) = act - Cardinality(InProgress(turns))
  <2>1. IsFiniteSet(admitted) /\ Cardinality(admitted) = n
    BY <1>2, PrefixCardinality
  <2>2. InProgress(turn') = InProgress(turns) \cup admitted
    BY <1>1, <1>4 DEF InProgress, Awaiting
  <2>3. InProgress(turns) \cap admitted = {}
    BY <1>4 DEF InProgress, Awaiting
  <2>4. Cardinality(InProgress(turns) \cap admitted) = 0  BY <2>3, FS_EmptySet
  <2>5. IsFiniteSet(InProgress(turns)) /\ Cardinality(InProgress(turns)) \in Nat
    BY FiniteParts
  <2>6. Cardinality(InProgress(turns) \cup admitted)
          = Cardinality(InProgress(turns)) + Cardinality(admitted)
              - Cardinality(InProgress(turns) \cap admitted)
    BY <2>1, <2>5, FS_Union
  <2>7. Cardinality(InProgress(turn')) = Cardinality(InProgress(turns)) + n
    BY <1>2, <2>1, <2>2, <2>4, <2>5, <2>6
  <2> QED  BY <1>1, <1>2, <2>5, <2>7
<1>11. active' \in Int  BY <1>1, <1>2
<1> QED  BY <1>3, <1>5, <1>6, <1>7, <1>8, <1>9, <1>10, <1>11

\* Removing an aborted waiter removes that waiter and nobody else.
LEMMA RemoveLemma ==
  ASSUME NEW S, NEW q \in Seq(S), Distinct(q), NEW k \in 1..Len(q)
  PROVE  /\ RemoveAt(q, k) \in Seq(S)
         /\ Distinct(RemoveAt(q, k))
         /\ Listed(RemoveAt(q, k)) = Listed(q) \ {q[k]}
         /\ RemoveAt(q, k) # <<>> => q # <<>>
<1> DEFINE front == SubSeq(q, 1, k - 1)
           back == SubSeq(q, k + 1, Len(q))
           r == RemoveAt(q, k)
<1>1. Len(q) \in Nat /\ k \in Nat /\ 1 <= k /\ k <= Len(q)  OBVIOUS
<1>2. /\ front \in Seq(S) /\ Len(front) = k - 1
      /\ \A i \in 1..(k - 1) : front[i] = q[i]
  <2>1. \A i \in 1..(k - 1) : q[i] \in S  BY <1>1
  <2>2. /\ front \in Seq(S)
        /\ Len(front) = IF 1 <= k - 1 THEN (k - 1) - 1 + 1 ELSE 0
        /\ \A i \in 1..((k - 1) - 1 + 1) : front[i] = q[1 + i - 1]
    BY <1>1, <2>1, SubSeqProperties
  <2> QED  BY <1>1, <2>2
<1>3. /\ back \in Seq(S) /\ Len(back) = Len(q) - k
      /\ \A i \in 1..(Len(q) - k) : back[i] = q[k + i]
  <2>1. \A i \in (k + 1)..Len(q) : q[i] \in S  BY <1>1
  <2>2. /\ back \in Seq(S)
        /\ Len(back) = IF k + 1 <= Len(q) THEN Len(q) - (k + 1) + 1 ELSE 0
        /\ \A i \in 1..(Len(q) - (k + 1) + 1) : back[i] = q[(k + 1) + i - 1]
    BY <1>1, <2>1, SubSeqProperties
  <2>3. ASSUME NEW i \in 1..(Len(q) - k)  PROVE back[i] = q[k + i]
    <3>1. i \in 1..(Len(q) - (k + 1) + 1) /\ (k + 1) + i - 1 = k + i  BY <1>1
    <3> QED  BY <2>2, <3>1
  <2> QED  BY <1>1, <2>2, <2>3
<1>4. r = front \o back  BY DEF RemoveAt
<1> HIDE DEF front, back, r
<1>5. /\ r \in Seq(S) /\ Len(r) = Len(q) - 1
      /\ \A i \in 1..Len(r) : r[i] = IF i < k THEN q[i] ELSE q[i + 1]
  <2>1. /\ r \in Seq(S) /\ Len(r) = (k - 1) + (Len(q) - k)
        /\ \A i \in 1..Len(r) : r[i] = IF i <= k - 1 THEN front[i] ELSE back[i - (k - 1)]
    <3>1. /\ front \o back \in Seq(S)
          /\ Len(front \o back) = Len(front) + Len(back)
          /\ \A i \in 1..(Len(front) + Len(back)) :
               (front \o back)[i] = IF i <= Len(front) THEN front[i] ELSE back[i - Len(front)]
      BY <1>2, <1>3, ConcatProperties
    <3> QED  BY <1>1, <1>2, <1>3, <1>4, <3>1
  <2>2. ASSUME NEW i \in 1..Len(r)  PROVE r[i] = IF i < k THEN q[i] ELSE q[i + 1]
    <3>1. CASE i < k
      <4>1. i \in 1..(k - 1)  BY <1>1, <2>1, <3>1
      <4> QED  BY <1>1, <1>2, <2>1, <3>1, <4>1
    <3>2. CASE ~(i < k)
      <4>1. i - (k - 1) \in 1..(Len(q) - k) /\ k + (i - (k - 1)) = i + 1
        BY <1>1, <2>1, <3>2
      <4>2. back[i - (k - 1)] = q[i + 1]  BY <1>3, <4>1
      <4> QED  BY <1>1, <2>1, <3>2, <4>2
    <3> QED  BY <3>1, <3>2
  <2> QED  BY <1>1, <2>1, <2>2
<1>6. Distinct(r)
  <2> SUFFICES ASSUME NEW i \in 1..Len(r), NEW j \in 1..Len(r), r[i] = r[j]
               PROVE  i = j
    BY DEF Distinct
  <2> DEFINE at(x) == IF x < k THEN x ELSE x + 1
  <2>1. at(i) \in 1..Len(q) /\ at(j) \in 1..Len(q)  BY <1>1, <1>5
  <2>2. q[at(i)] = q[at(j)]  BY <1>5
  <2>3. at(i) = at(j)  BY <2>1, <2>2 DEF Distinct
  <2> QED  BY <1>1, <1>5, <2>3
<1>7. Listed(r) = Listed(q) \ {q[k]}
  <2>1. ASSUME NEW c \in Listed(r)  PROVE c \in Listed(q) \ {q[k]}
    <3>1. PICK i \in 1..Len(r) : c = r[i]  BY <2>1 DEF Listed
    <3>2. PICK j \in 1..Len(q) : j # k /\ c = q[j]
      <4>1. CASE i < k
        <5>1. i \in 1..Len(q) /\ i # k /\ c = q[i]  BY <1>1, <1>5, <3>1, <4>1
        <5> QED  BY <5>1
      <4>2. CASE ~(i < k)
        <5>1. i + 1 \in 1..Len(q) /\ i + 1 # k /\ c = q[i + 1]
          BY <1>1, <1>5, <3>1, <4>2
        <5> QED  BY <5>1
      <4> QED  BY <4>1, <4>2
    <3> QED  BY <3>2 DEF Listed, Distinct
  <2>2. ASSUME NEW c \in Listed(q) \ {q[k]}  PROVE c \in Listed(r)
    <3>1. PICK j \in 1..Len(q) : c = q[j]  BY <2>2 DEF Listed
    <3>2. PICK i \in 1..Len(r) : c = r[i]
      <4>1. CASE j < k
        <5>1. j \in 1..Len(r) /\ c = r[j]  BY <1>1, <1>5, <3>1, <4>1
        <5> QED  BY <5>1
      <4>2. CASE ~(j < k)
        <5>1. j # k  BY <2>2, <3>1
        <5>2. j - 1 \in 1..Len(r) /\ ~(j - 1 < k) /\ (j - 1) + 1 = j
          BY <1>1, <1>5, <4>2, <5>1
        <5>3. r[j - 1] = q[j]  BY <1>5, <5>2
        <5> QED  BY <3>1, <5>2, <5>3
      <4> QED  BY <4>1, <4>2
    <3> QED  BY <3>2 DEF Listed
  <2> QED  BY <2>1, <2>2
<1>8. q # <<>>  BY <1>1
<1> QED  BY <1>5, <1>6, <1>7, <1>8 DEF r

----------------------------------------------------------------------------
\* The inductive invariant. NoIdleCapacity carries the queue's shape, which
\* the counting of Conservation needs: a pump admits as many distinct turns
\* as it adds to `active'.
\* No success counts toward a raise while the ceiling is at its maximum, so the
\* first overload starts a full recovery count (onSuccess).
CountRestarts == limit = Ceiling => successes = 0

IInv == TypeOK /\ Conservation /\ NoIdleCapacity /\ CountRestarts

\* The same invariant in the vocabulary of the lemmas.
LEMMA Vocabulary ==
  /\ NoIdleCapacity <=> /\ waiters # <<>> => active >= limit
                        /\ Listed(waiters) = Awaiting(turn)
                        /\ Distinct(waiters)
  /\ Conservation <=> active = Cardinality(InProgress(turn)) - Cardinality(Lending)
BY DEF NoIdleCapacity, Conservation, Listed, Awaiting, Distinct, InProgress, Running

LEMMA VocabularyNext ==
  /\ NoIdleCapacity' <=> /\ waiters' # <<>> => active' >= limit'
                         /\ Listed(waiters') = Awaiting(turn')
                         /\ Distinct(waiters')
  /\ Conservation' <=> active' = Cardinality(InProgress(turn')) - Cardinality(Lending')
BY DEF NoIdleCapacity, Conservation, Listed, Awaiting, Distinct, InProgress, Running

\* Ceiling changes keep the ceiling in its range and the count below the
\* recovery threshold, and restart the count at the maximum.
LEMMA CeilingLemma ==
  ASSUME TypeOK, CountRestarts
  PROVE  /\ RaisedLimit \in Floor..Ceiling /\ LoweredLimit \in Floor..Ceiling
         /\ CountedSuccesses \in 0..(IncreaseEvery - 1) /\ 0 \in 0..(IncreaseEvery - 1)
         /\ RaisedLimit = Ceiling => CountedSuccesses = 0
BY LimiterAssumption DEF TypeOK, CountRestarts, RaisedLimit, LoweredLimit, CountedSuccesses

LEMMA LimiterInit == Init => IInv
<1> SUFFICES ASSUME Init  PROVE IInv
  OBVIOUS
<1>1. TypeOK  BY LimiterAssumption DEF Init, TypeOK, TurnState
<1>2. InProgress(turn) = {} /\ Lending = {} /\ Awaiting(turn) = {}
  BY DEF Init, InProgress, Lending, Awaiting
<1>3. Cardinality(InProgress(turn)) = 0 /\ Cardinality(Lending) = 0
  BY <1>2, FS_EmptySet
<1>4. Listed(waiters) = {} /\ Distinct(waiters)  BY DEF Init, Listed, Distinct
<1>5. NoIdleCapacity  BY <1>2, <1>4, Vocabulary DEF Init
<1>6. Conservation  BY <1>3, Vocabulary DEF Init
<1>7. CountRestarts  BY DEF Init, CountRestarts
<1> QED  BY <1>1, <1>5, <1>6, <1>7 DEF IInv

\* A turn that leaves the gate is one turn fewer in progress.
LEMMA LeaveLemma ==
  ASSUME TypeOK, NEW c \in Session, turn[c] = "running"
  PROVE  LET t == [turn EXCEPT ![c] = "idle"]
         IN /\ t \in [Session -> TurnState]
            /\ Awaiting(t) = Awaiting(turn)
            /\ Cardinality(InProgress(t)) = Cardinality(InProgress(turn)) - 1
<1> DEFINE t == [turn EXCEPT ![c] = "idle"]
<1>1. t \in [Session -> TurnState] /\ Awaiting(t) = Awaiting(turn)
      /\ InProgress(t) = InProgress(turn) \ {c} /\ c \in InProgress(turn)
  BY DEF TypeOK, TurnState, Awaiting, InProgress
<1> QED  BY <1>1, FiniteParts, FS_RemoveElement

\* Lending one slot more, or one fewer.
LEMMA LendLemma ==
  ASSUME TypeOK, NEW c \in Session
  PROVE  /\ spans' = [spans EXCEPT ![c] = @ + 1] =>
              Cardinality(Lending') = IF spans[c] = 0 THEN Cardinality(Lending) + 1
                                                      ELSE Cardinality(Lending)
         /\ spans' = [spans EXCEPT ![c] = @ - 1] /\ spans[c] > 0 =>
              Cardinality(Lending') = IF spans[c] = 1 THEN Cardinality(Lending) - 1
                                                      ELSE Cardinality(Lending)
<1>0. spans \in [Session -> Nat]  BY LimiterAssumption DEF TypeOK
<1>1. ASSUME spans' = [spans EXCEPT ![c] = @ + 1]
      PROVE  /\ Lending' = Lending \cup {c}
             /\ c \in Lending <=> spans[c] # 0
  BY <1>0, <1>1 DEF Lending
<1>2. ASSUME spans' = [spans EXCEPT ![c] = @ - 1], spans[c] > 0
      PROVE  /\ Lending' = IF spans[c] = 1 THEN Lending \ {c} ELSE Lending
             /\ c \in Lending
  BY <1>0, <1>2 DEF Lending
<1>3. IsFiniteSet(Lending)  BY FiniteParts
<1> QED  BY <1>1, <1>2, <1>3, FS_AddElement, FS_RemoveElement

\* What a pump step does to the whole invariant.
LEMMA PumpStep ==
  ASSUME IInv, NEW lim \in Nat, NEW act \in Int, NEW turns \in [Session -> TurnState],
         Awaiting(turns) = Awaiting(turn), Pump(lim, act, turns), limit' = lim,
         act - Cardinality(InProgress(turns)) = 0 - Cardinality(Lending')
  PROVE  /\ NoIdleCapacity' /\ Conservation'
         /\ active' \in Int /\ waiters' \in Seq(Session)
         /\ turn' \in [Session -> TurnState]
<1>1. waiters \in Seq(Session) /\ Distinct(waiters) /\ Listed(waiters) = Awaiting(turns)
  BY Vocabulary DEF IInv, TypeOK
<1>2. /\ turn' \in [Session -> TurnState]
      /\ waiters' \in Seq(Session)
      /\ Distinct(waiters')
      /\ Listed(waiters') = Awaiting(turn')
      /\ active' \in Int
      /\ waiters' # <<>> => active' >= lim
      /\ active' - Cardinality(InProgress(turn')) = act - Cardinality(InProgress(turns))
  BY <1>1, PumpLemma
<1>3. /\ Cardinality(InProgress(turn')) \in Nat
      /\ Cardinality(InProgress(turns)) \in Nat
      /\ Cardinality(Lending') \in Nat
  BY FiniteParts
<1>4. active' = Cardinality(InProgress(turn')) - Cardinality(Lending')
  BY <1>2, <1>3
<1> QED  BY <1>2, <1>4, VocabularyNext

LEMMA LimiterStep == IInv /\ [Next]_vars => IInv'
<1> SUFFICES ASSUME IInv, [Next]_vars  PROVE IInv'
  OBVIOUS
<1> USE LimiterAssumption
<1>0. /\ TypeOK /\ CountRestarts
      /\ waiters \in Seq(Session)
      /\ waiters # <<>> => active >= limit
      /\ Listed(waiters) = Awaiting(turn)
      /\ Distinct(waiters)
      /\ active = Cardinality(InProgress(turn)) - Cardinality(Lending)
  BY Vocabulary DEF IInv, TypeOK
<1>a. /\ Cardinality(InProgress(turn)) \in Nat
      /\ Cardinality(Lending) \in Nat
      /\ Cardinality(Lending') \in Nat
  BY FiniteParts
<1>1. ASSUME NEW c \in Session, Begin(c)  PROVE IInv'
  <2>1. TypeOK' /\ CountRestarts'
    BY <1>0, <1>1 DEF TypeOK, TurnState, CountRestarts, Begin
  <2>2. /\ InProgress(turn') = InProgress(turn) /\ Awaiting(turn') = Awaiting(turn)
        /\ Lending' = Lending
    BY <1>0, <1>1 DEF TypeOK, Begin, InProgress, Awaiting, Lending
  <2>3. UNCHANGED <<limit, active, waiters>>  BY <1>1 DEF Begin
  <2> QED  BY <1>0, <2>1, <2>2, <2>3, VocabularyNext DEF IInv
<1>8. ASSUME NEW c \in Session, GiveUp(c)  PROVE IInv'
  <2>1. TypeOK' /\ CountRestarts'
    BY <1>0, <1>8 DEF TypeOK, TurnState, CountRestarts, GiveUp
  <2>2. /\ InProgress(turn') = InProgress(turn) /\ Awaiting(turn') = Awaiting(turn)
        /\ Lending' = Lending
    BY <1>0, <1>8 DEF TypeOK, GiveUp, InProgress, Awaiting, Lending
  <2>3. UNCHANGED <<limit, active, waiters>>  BY <1>8 DEF GiveUp
  <2> QED  BY <1>0, <2>1, <2>2, <2>3, VocabularyNext DEF IInv
<1>2. ASSUME NEW c \in Session, Acquire(c)  PROVE IInv'
  <2> USE DEF Acquire
  <2>1. Lending' = Lending /\ turn[c] = "preparing" /\ UNCHANGED limit
    BY <1>2 DEF Lending
  <2>3. CASE active < limit /\ active' = active + 1
             /\ turn' = [turn EXCEPT ![c] = "running"] /\ UNCHANGED waiters
    <3>1. TypeOK' /\ CountRestarts'
      BY <1>0, <1>2, <2>3 DEF TypeOK, TurnState, CountRestarts
    <3>2. /\ InProgress(turn') = InProgress(turn) \cup {c} /\ c \notin InProgress(turn)
          /\ Awaiting(turn') = Awaiting(turn)
      BY <1>0, <2>1, <2>3 DEF TypeOK, InProgress, Awaiting
    <3>3. Cardinality(InProgress(turn')) = Cardinality(InProgress(turn)) + 1
      BY <3>2, FiniteParts, FS_AddElement
    <3>4. waiters = <<>>  BY <1>0, <2>3 DEF TypeOK
    <3> QED  BY <1>0, <1>a, <2>1, <2>3, <3>1, <3>2, <3>3, <3>4, VocabularyNext DEF IInv
  <2>4. CASE active >= limit /\ waiters' = Append(waiters, c)
             /\ turn' = [turn EXCEPT ![c] = "queued"] /\ UNCHANGED active
    <3>1. /\ waiters' \in Seq(Session) /\ Len(waiters') = Len(waiters) + 1
          /\ \A i \in 1..Len(waiters) : waiters'[i] = waiters[i]
          /\ waiters'[Len(waiters) + 1] = c
      BY <1>0, <2>4, AppendProperties
    <3>2. TypeOK' /\ CountRestarts'
      BY <1>0, <1>2, <2>4, <3>1 DEF TypeOK, TurnState, CountRestarts
    <3>3. /\ InProgress(turn') = InProgress(turn)
          /\ Awaiting(turn') = Awaiting(turn) \cup {c} /\ c \notin Awaiting(turn)
      BY <1>0, <2>1, <2>4 DEF TypeOK, InProgress, Awaiting
    <3>4. Len(waiters) \in Nat /\ \A i \in 1..Len(waiters) : waiters[i] # c
      BY <1>0, <3>3 DEF Listed
    <3>5. Distinct(waiters')
      BY <1>0, <3>1, <3>4 DEF Distinct
    <3>6. Listed(waiters') = Listed(waiters) \cup {c}
      BY <3>1, <3>4 DEF Listed
    <3> QED  BY <1>0, <2>1, <2>4, <3>2, <3>3, <3>5, <3>6, VocabularyNext DEF IInv
  <2> QED  BY <1>2, <2>3, <2>4
<1>3. ASSUME NEW c \in Session, Abort(c)  PROVE IInv'
  <2> USE DEF Abort
  <2>1. Lending' = Lending /\ UNCHANGED <<limit, active, successes, spans>>
        /\ CountRestarts'
    BY <1>0, <1>3 DEF Lending, CountRestarts
  <2>2. CASE turn[c] = "queued"
    <3>1. PICK k \in 1..Len(waiters) : waiters[k] = c /\ waiters' = RemoveAt(waiters, k)
      BY <1>3, <2>2
    <3>2. turn' = [turn EXCEPT ![c] = "idle"]  BY <1>3, <2>2
    <3>3. /\ waiters' \in Seq(Session) /\ Distinct(waiters')
          /\ Listed(waiters') = Listed(waiters) \ {c}
          /\ waiters' # <<>> => waiters # <<>>
      BY <1>0, <3>1, RemoveLemma
    <3>4. InProgress(turn') = InProgress(turn) /\ Awaiting(turn') = Awaiting(turn) \ {c}
      BY <1>0, <2>2, <3>2 DEF TypeOK, InProgress, Awaiting
    <3>5. TypeOK'
      BY <1>0, <1>3, <3>2, <3>3 DEF TypeOK, TurnState
    <3> QED  BY <1>0, <2>1, <3>3, <3>4, <3>5, VocabularyNext DEF IInv
  <2>3. CASE turn[c] # "queued"
    <3>1. UNCHANGED <<waiters, turn>>  BY <1>3, <2>3
    <3>2. TypeOK'  BY <1>0, <1>3, <3>1 DEF TypeOK
    <3> QED  BY <1>0, <2>1, <3>1, <3>2, VocabularyNext DEF IInv
  <2> QED  BY <2>2, <2>3
<1>4. ASSUME NEW c \in Session, NEW o \in Outcome, EndTurn(c, o)  PROVE IInv'
  <2> DEFINE t == [turn EXCEPT ![c] = "idle"]
  <2>1. turn[c] = "running" /\ UNCHANGED <<spans, aborted>> /\ Pump(limit', active - 1, t)
    BY <1>4 DEF EndTurn, Settled
  <2>2. limit' \in Floor..Ceiling /\ successes' \in 0..(IncreaseEvery - 1) /\ CountRestarts'
    <3>1. CASE o = "success"
      BY <1>0, <1>4, <3>1, CeilingLemma DEF EndTurn, CountRestarts
    <3>2. CASE o = "overload"
      BY <1>0, <1>4, <3>2, CeilingLemma DEF EndTurn, CountRestarts
    <3>3. CASE o = "error"
      BY <1>0, <1>4, <3>3 DEF EndTurn, CountRestarts, TypeOK
    <3> QED  BY <3>1, <3>2, <3>3 DEF Outcome
  <2>3. /\ t \in [Session -> TurnState] /\ Awaiting(t) = Awaiting(turn)
        /\ Cardinality(InProgress(t)) = Cardinality(InProgress(turn)) - 1
    BY <1>0, <2>1, LeaveLemma
  <2>4. Lending' = Lending  BY <2>1 DEF Lending
  <2>5. (active - 1) - Cardinality(InProgress(t)) = 0 - Cardinality(Lending')
    BY <1>0, <1>a, <2>3, <2>4
  <2>6. limit' \in Nat /\ active - 1 \in Int  BY <1>0, <2>2 DEF TypeOK
  <2>7. /\ NoIdleCapacity' /\ Conservation'
        /\ active' \in Int /\ waiters' \in Seq(Session) /\ turn' \in [Session -> TurnState]
    BY <2>1, <2>3, <2>5, <2>6, PumpStep
  <2>8. TypeOK'  BY <1>0, <2>1, <2>2, <2>7 DEF TypeOK
  <2> QED  BY <2>2, <2>7, <2>8 DEF IInv
<1>5. ASSUME NEW c \in Session, NEW d \in Session, OpenSpan(c, d)  PROVE IInv'
  <2> DEFINE begun == [turn EXCEPT ![d] = "preparing"]
  <2>1. /\ spans' = [spans EXCEPT ![c] = @ + 1] /\ spans[c] < MaxSpans
        /\ UNCHANGED <<limit, successes>>
        /\ aborted' \in [Session -> BOOLEAN]
    BY <1>0, <1>5 DEF OpenSpan, TypeOK
  <2>2. spans' \in [Session -> 0..MaxSpans] /\ CountRestarts'
    BY <1>0, <2>1 DEF TypeOK, CountRestarts
  <2>3. /\ begun \in [Session -> TurnState]
        /\ Awaiting(begun) = Awaiting(turn) /\ InProgress(begun) = InProgress(turn)
    BY <1>0, <1>5 DEF OpenSpan, TypeOK, TurnState, Awaiting, InProgress
  <2>4. CASE spans[c] = 0
    <3>1. Pump(limit, active - 1, begun)  BY <1>5, <2>4 DEF OpenSpan
    <3>2. Cardinality(Lending') = Cardinality(Lending) + 1  BY <1>0, <2>1, <2>4, LendLemma
    <3>3. (active - 1) - Cardinality(InProgress(begun)) = 0 - Cardinality(Lending')
      BY <1>0, <1>a, <2>3, <3>2
    <3>4. limit \in Nat /\ active - 1 \in Int
      BY <1>0 DEF TypeOK
    <3>5. /\ NoIdleCapacity' /\ Conservation'
          /\ active' \in Int /\ waiters' \in Seq(Session) /\ turn' \in [Session -> TurnState]
      BY <2>1, <2>3, <3>1, <3>3, <3>4, PumpStep
    <3> QED  BY <1>0, <2>1, <2>2, <3>5 DEF IInv, TypeOK
  <2>5. CASE spans[c] # 0
    <3>1. turn' = begun /\ UNCHANGED <<active, waiters>>  BY <1>5, <2>5 DEF OpenSpan
    <3>2. Cardinality(Lending') = Cardinality(Lending)  BY <1>0, <2>1, <2>5, LendLemma
    <3>3. TypeOK'  BY <1>0, <2>1, <2>2, <2>3, <3>1 DEF TypeOK
    <3> QED  BY <1>0, <2>1, <2>2, <2>3, <3>1, <3>2, <3>3, VocabularyNext DEF IInv
  <2> QED  BY <2>4, <2>5
<1>6. ASSUME NEW c \in Session, CloseSpan(c)  PROVE IInv'
  <2>1. /\ spans' = [spans EXCEPT ![c] = @ - 1] /\ spans[c] > 0
        /\ UNCHANGED <<limit, successes, aborted>>
    BY <1>6 DEF CloseSpan
  <2>2. spans' \in [Session -> 0..MaxSpans] /\ CountRestarts'
    BY <1>0, <2>1 DEF TypeOK, CountRestarts
  <2>3. CASE spans[c] = 1
    <3>1. Pump(limit, active + 1, turn)  BY <1>6, <2>3 DEF CloseSpan
    <3>2. Cardinality(Lending') = Cardinality(Lending) - 1  BY <1>0, <2>1, <2>3, LendLemma
    <3>3. (active + 1) - Cardinality(InProgress(turn)) = 0 - Cardinality(Lending')
      BY <1>0, <1>a, <3>2
    <3>4. limit \in Nat /\ active + 1 \in Int /\ turn \in [Session -> TurnState]
      BY <1>0 DEF TypeOK
    <3>5. /\ NoIdleCapacity' /\ Conservation'
          /\ active' \in Int /\ waiters' \in Seq(Session) /\ turn' \in [Session -> TurnState]
      BY <2>1, <3>1, <3>3, <3>4, PumpStep
    <3> QED  BY <1>0, <2>1, <2>2, <3>5 DEF IInv, TypeOK
  <2>4. CASE spans[c] # 1
    <3>1. UNCHANGED <<active, waiters, turn>>  BY <1>6, <2>4 DEF CloseSpan
    <3>2. Cardinality(Lending') = Cardinality(Lending)  BY <1>0, <2>1, <2>4, LendLemma
    <3>3. TypeOK'  BY <1>0, <2>1, <2>2, <3>1 DEF TypeOK
    <3> QED  BY <1>0, <2>1, <2>2, <3>1, <3>2, <3>3, VocabularyNext DEF IInv
  <2> QED  BY <2>3, <2>4
<1>7. CASE UNCHANGED vars
  <2>1. InProgress(turn') = InProgress(turn) /\ Awaiting(turn') = Awaiting(turn)
        /\ Lending' = Lending
    BY <1>7 DEF vars, InProgress, Awaiting, Lending
  <2>2. TypeOK' /\ CountRestarts'
    BY <1>0, <1>7 DEF vars, TypeOK, CountRestarts
  <2>3. UNCHANGED <<limit, active, waiters>>  BY <1>7 DEF vars
  <2> QED  BY <1>0, <2>1, <2>2, <2>3, VocabularyNext DEF IInv
<1> QED  BY <1>1, <1>2, <1>3, <1>4, <1>5, <1>6, <1>7, <1>8 DEF Next

----------------------------------------------------------------------------
\* The inductive invariant holds of every behaviour.
THEOREM LimiterInvariant == Spec => []IInv
BY LimiterInit, LimiterStep, PTL DEF Spec

\* Every variable keeps its type; in particular the AIMD ceiling never leaves
\* Floor..Ceiling (limiter.ts onSuccess, onOverload).
THEOREM LimiterTypeCorrect == Spec => []TypeOK
<1>1. IInv => TypeOK  BY DEF IInv
<1> QED  BY <1>1, LimiterInvariant, PTL

\* The limiter's count is the turns in progress less the slots lent out.
THEOREM ConservationHolds == Spec => []Conservation
<1>1. IInv => Conservation  BY DEF IInv
<1> QED  BY <1>1, LimiterInvariant, PTL

\* Nobody waits while the ceiling leaves room, and the queue is exactly the
\* queued turns.
THEOREM NoIdleCapacityHolds == Spec => []NoIdleCapacity
<1>1. IInv => NoIdleCapacity  BY DEF IInv
<1> QED  BY <1>1, LimiterInvariant, PTL

\* The recovery count is zero whenever the ceiling is at its maximum.
THEOREM CountRestartsHolds == Spec => []CountRestarts
<1>1. IInv => CountRestarts  BY DEF IInv
<1> QED  BY <1>1, LimiterInvariant, PTL

\* A pump puts no turn in progress but the ones it takes off the queue.
LEMMA PumpAdmitsQueued ==
  ASSUME NEW lim \in Nat, NEW act \in Int, NEW turns \in [Session -> TurnState],
         waiters \in Seq(Session), Pump(lim, act, turns), NEW c \in Session,
         turn'[c] = "running"
  PROVE  turns[c] = "running" \/ c \in Listed(waiters)
BY DEF Pump, Listed

\* A pump admits a prefix of the queue: whoever is older was admitted too.
LEMMA PumpAdmitsPrefix ==
  ASSUME NEW lim \in Nat, NEW act \in Int, NEW turns \in [Session -> TurnState],
         waiters \in Seq(Session), Distinct(waiters), Pump(lim, act, turns),
         NEW i \in 1..Len(waiters), NEW j \in 1..Len(waiters), i < j,
         turns[waiters[j]] # "running", turn'[waiters[j]] = "running"
  PROVE  turn'[waiters[i]] = "running"
<1> DEFINE n == LET free == IF act < lim THEN lim - act ELSE 0
                IN IF Len(waiters) < free THEN Len(waiters) ELSE free
           admitted == {waiters[k] : k \in 1..n}
<1>1. n \in 0..Len(waiters)  OBVIOUS
<1>2. turn' = [c \in Session |-> IF c \in admitted THEN "running" ELSE turns[c]]
  BY DEF Pump
<1> HIDE DEF n
<1>3. waiters[i] \in Session /\ waiters[j] \in Session  OBVIOUS
<1>4. PICK k \in 1..n : waiters[j] = waiters[k]  BY <1>2, <1>3
<1>5. j = k  BY <1>1, <1>4 DEF Distinct
<1>6. i \in 1..n  BY <1>1, <1>5
<1> QED  BY <1>2, <1>3, <1>6

\* A queued turn's signal has not fired: firing it takes the turn off the queue.
QueuedIsLive == \A c \in Session : turn[c] = "queued" => ~aborted[c]

LEMMA QueuedIsLiveStep == IInv /\ QueuedIsLive /\ [Next]_vars => QueuedIsLive'
<1> SUFFICES ASSUME IInv, QueuedIsLive, [Next]_vars, NEW d \in Session,
                    turn'[d] = "queued"
             PROVE  ~aborted'[d]
  BY DEF QueuedIsLive
<1>0. /\ turn \in [Session -> TurnState] /\ aborted \in [Session -> BOOLEAN]
      /\ turn[d] = "queued" => ~aborted[d]
  BY DEF IInv, TypeOK, QueuedIsLive
<1>1. ASSUME NEW c \in Session, Begin(c)  PROVE ~aborted'[d]
  BY <1>0, <1>1 DEF Begin
<1>2. ASSUME NEW c \in Session, Acquire(c)  PROVE ~aborted'[d]
  BY <1>0, <1>2 DEF Acquire
<1>3. ASSUME NEW c \in Session, Abort(c)  PROVE ~aborted'[d]
  BY <1>0, <1>3 DEF Abort
<1>4. ASSUME NEW c \in Session, NEW o \in Outcome, EndTurn(c, o)  PROVE ~aborted'[d]
  BY <1>0, <1>4 DEF EndTurn, Pump
<1>5. ASSUME NEW c \in Session, NEW e \in Session, OpenSpan(c, e)  PROVE ~aborted'[d]
  BY <1>0, <1>5 DEF OpenSpan, Pump
<1>6. ASSUME NEW c \in Session, CloseSpan(c)  PROVE ~aborted'[d]
  BY <1>0, <1>6 DEF CloseSpan, Pump
<1>7. CASE UNCHANGED vars
  BY <1>0, <1>7 DEF vars
<1>8. ASSUME NEW c \in Session, GiveUp(c)  PROVE ~aborted'[d]
  BY <1>0, <1>8 DEF GiveUp
<1> QED  BY <1>1, <1>2, <1>3, <1>4, <1>5, <1>6, <1>7, <1>8 DEF Next

LEMMA QueuedIsLiveHolds == Spec => []QueuedIsLive
<1>1. Init => QueuedIsLive  BY DEF Init, QueuedIsLive
<1> QED  BY <1>1, QueuedIsLiveStep, LimiterInvariant, PTL DEF Spec

\* The facts the two action properties start from.
LEMMA QueueFacts ==
  ASSUME IInv
  PROVE  /\ limit \in Nat /\ active \in Int /\ waiters \in Seq(Session)
         /\ turn \in [Session -> TurnState] /\ aborted \in [Session -> BOOLEAN]
         /\ Distinct(waiters)
         /\ \A i \in 1..Len(waiters) : turn[waiters[i]] = "queued"
         /\ RaisedLimit \in Nat /\ LoweredLimit \in Nat
         /\ active < limit => waiters = <<>>
<1>1. /\ waiters \in Seq(Session) /\ Listed(waiters) = Awaiting(turn) /\ Distinct(waiters)
      /\ waiters # <<>> => active >= limit
      /\ active \in Int /\ limit \in Nat
  BY Vocabulary, LimiterAssumption DEF IInv, TypeOK
<1>2. \A i \in 1..Len(waiters) : turn[waiters[i]] = "queued"
  BY <1>1 DEF Listed, Awaiting
<1>3. RaisedLimit \in Nat /\ LoweredLimit \in Nat
  BY CeilingLemma, LimiterAssumption DEF IInv
<1> QED  BY <1>1, <1>2, <1>3 DEF IInv, TypeOK

\* What the ends of turns and the span edges hand to the pump.
LEMMA EndTurnPumps ==
  ASSUME IInv, NEW c \in Session, NEW o \in Outcome, EndTurn(c, o)
  PROVE  /\ limit' \in Nat /\ active - 1 \in Int
         /\ [turn EXCEPT ![c] = "idle"] \in [Session -> TurnState]
         /\ Pump(limit', active - 1, [turn EXCEPT ![c] = "idle"])
         /\ turn[c] = "running"
<1>1. limit' \in Nat  BY QueueFacts DEF EndTurn
<1> QED  BY <1>1, QueueFacts DEF EndTurn, Settled, TurnState

\* An aborted turn is never admitted, in any behaviour.
THEOREM AbortedIsNotAdmittedHolds == Spec => AbortedIsNotAdmitted
<1>1. IInv /\ QueuedIsLive /\ [Next]_vars => [AbortedStaysOut]_vars
  <2> SUFFICES ASSUME IInv, QueuedIsLive, Next, NEW d \in Session,
                      aborted[d], turn[d] \in {"preparing", "queued"},
                      turn'[d] = "running"
               PROVE  FALSE
    BY DEF AbortedStaysOut
  <2>0. /\ turn[d] = "preparing"
        /\ turn \in [Session -> TurnState] /\ aborted \in [Session -> BOOLEAN]
        /\ d \notin Listed(waiters) /\ turn[d] # "running"
    BY QueueFacts DEF QueuedIsLive, Listed
  <2>1. ASSUME NEW c \in Session, Begin(c)  PROVE FALSE
    BY <2>0, <2>1 DEF Begin
  <2>2. ASSUME NEW c \in Session, Acquire(c)  PROVE FALSE
    BY <2>0, <2>2 DEF Acquire
  <2>3. ASSUME NEW c \in Session, Abort(c)  PROVE FALSE
    BY <2>0, <2>3 DEF Abort
  <2>4. ASSUME NEW c \in Session, NEW o \in Outcome, EndTurn(c, o)  PROVE FALSE
    <3>1. [turn EXCEPT ![c] = "idle"][d] # "running"  BY <2>0
    <3> QED  BY <2>0, <2>4, <3>1, EndTurnPumps, PumpAdmitsQueued, QueueFacts
  <2>5. ASSUME NEW c \in Session, NEW e \in Session, OpenSpan(c, e)  PROVE FALSE
    <3>1. /\ [turn EXCEPT ![e] = "preparing"] \in [Session -> TurnState]
          /\ [turn EXCEPT ![e] = "preparing"][d] # "running"
      BY <2>0 DEF TurnState
    <3>2. \/ Pump(limit, active - 1, [turn EXCEPT ![e] = "preparing"])
          \/ turn' = [turn EXCEPT ![e] = "preparing"]
      BY <2>5 DEF OpenSpan
    <3>3. limit \in Nat /\ active - 1 \in Int /\ waiters \in Seq(Session)  BY QueueFacts
    <3>4. CASE Pump(limit, active - 1, [turn EXCEPT ![e] = "preparing"])
      BY <2>0, <3>1, <3>3, <3>4, PumpAdmitsQueued
    <3> QED  BY <3>1, <3>2, <3>4
  <2>6. ASSUME NEW c \in Session, CloseSpan(c)  PROVE FALSE
    BY <2>0, <2>6, PumpAdmitsQueued, QueueFacts DEF CloseSpan
  <2>7. ASSUME NEW c \in Session, GiveUp(c)  PROVE FALSE
    BY <2>0, <2>7 DEF GiveUp
  <2> QED  BY <2>1, <2>2, <2>3, <2>4, <2>5, <2>6, <2>7 DEF Next
<1> QED  BY <1>1, LimiterInvariant, QueuedIsLiveHolds, PTL DEF Spec, AbortedIsNotAdmitted

\* Slots are granted in queue order, in any behaviour.
THEOREM NoOvertakingHolds == Spec => NoOvertaking
<1> DEFINE Fresh == \A c \in Session :
                      turn[c] = "preparing" /\ turn'[c] = "running" => waiters = <<>>
           InOrder == \A i, j \in 1..Len(waiters) :
                        i < j /\ turn'[waiters[j]] = "running" => turn'[waiters[i]] # "queued"
<1>1. IInv /\ [Next]_vars => [Fresh /\ InOrder]_vars
  <2> SUFFICES ASSUME IInv, Next  PROVE Fresh /\ InOrder
    OBVIOUS
  <2> HIDE DEF Fresh, InOrder
  <2>0. turn \in [Session -> TurnState]  BY QueueFacts
  <2>1. ASSUME NEW c \in Session, Begin(c)  PROVE Fresh /\ InOrder
    BY <2>1, QueueFacts DEF Begin, Fresh, InOrder
  <2>2. ASSUME NEW c \in Session, Acquire(c)  PROVE Fresh /\ InOrder
    BY <2>2, QueueFacts DEF Acquire, Fresh, InOrder
  <2>3. ASSUME NEW c \in Session, Abort(c)  PROVE Fresh /\ InOrder
    BY <2>3, QueueFacts DEF Abort, Fresh, InOrder
  <2>4. ASSUME NEW lim \in Nat, NEW act \in Int, NEW turns \in [Session -> TurnState],
               Pump(lim, act, turns),
               \A c \in Session : turns[c] \in {turn[c], "idle", "preparing"}
        PROVE  Fresh /\ InOrder
    <3>1. Fresh
      <4> SUFFICES ASSUME NEW c \in Session, turn[c] = "preparing", turn'[c] = "running"
                   PROVE  FALSE
        BY DEF Fresh
      <4>1. turns[c] # "running" /\ c \notin Listed(waiters)
        BY <2>4, QueueFacts DEF Listed
      <4> QED  BY <2>4, <4>1, PumpAdmitsQueued, QueueFacts
    <3>2. InOrder
      <4> SUFFICES ASSUME NEW i \in 1..Len(waiters), NEW j \in 1..Len(waiters), i < j,
                          turn'[waiters[j]] = "running"
                   PROVE  turn'[waiters[i]] # "queued"
        BY DEF InOrder
      <4>1. waiters[j] \in Session /\ turns[waiters[j]] # "running"
        BY <2>4, QueueFacts
      <4> QED  BY <2>4, <4>1, PumpAdmitsPrefix, QueueFacts
    <3> QED  BY <3>1, <3>2
  <2>5. ASSUME NEW c \in Session, NEW o \in Outcome, EndTurn(c, o)  PROVE Fresh /\ InOrder
    <3>1. \A d \in Session : [turn EXCEPT ![c] = "idle"][d] \in {turn[d], "idle", "preparing"}
      BY <2>0
    <3> QED  BY <2>4, <2>5, <3>1, EndTurnPumps
  <2>6. ASSUME NEW d \in Session,
               turn' = [turn EXCEPT ![d] = "preparing"] \/ turn' = [turn EXCEPT ![d] = "idle"]
                 \/ UNCHANGED turn
        PROVE  Fresh /\ InOrder
    BY <2>0, <2>6, QueueFacts DEF Fresh, InOrder
  <2>7. ASSUME NEW c \in Session, NEW e \in Session, OpenSpan(c, e)  PROVE Fresh /\ InOrder
    <3>1. /\ [turn EXCEPT ![e] = "preparing"] \in [Session -> TurnState]
          /\ \A x \in Session :
               [turn EXCEPT ![e] = "preparing"][x] \in {turn[x], "idle", "preparing"}
      BY <2>0 DEF TurnState
    <3>2. \/ Pump(limit, active - 1, [turn EXCEPT ![e] = "preparing"])
          \/ turn' = [turn EXCEPT ![e] = "preparing"]
      BY <2>7 DEF OpenSpan
    <3>3. limit \in Nat /\ active - 1 \in Int  BY QueueFacts
    <3> QED  BY <2>4, <2>6, <3>1, <3>2, <3>3
  <2>8. ASSUME NEW c \in Session, CloseSpan(c)  PROVE Fresh /\ InOrder
    BY <2>0, <2>4, <2>6, <2>8, QueueFacts DEF CloseSpan
  <2>9. ASSUME NEW c \in Session, GiveUp(c)  PROVE Fresh /\ InOrder
    BY <2>6, <2>9 DEF GiveUp
  <2> QED  BY <2>1, <2>2, <2>3, <2>5, <2>7, <2>8, <2>9 DEF Next
<1> QED  BY <1>1, LimiterInvariant, PTL DEF Spec, NoOvertaking
=============================================================================
