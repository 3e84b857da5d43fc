---------------------------- MODULE FanOutProofs ----------------------------
(***************************************************************************)
(* The composition of gates and limiter implements the limiter, so what    *)
(* LimiterProofs proves of every use of the limiter holds of every agent   *)
(* tree.                                                                   *)
(***************************************************************************)
EXTENDS FanOut, LimiterProofs

\* What the gates' counters and queues say of one session.
GateOf(p) ==
  /\ gateActive[p] = Cardinality(Inside(p))
  /\ gateQueue[p] # <<>> => gateActive[p] = MaxParallel
  /\ Listed(gateQueue[p]) = Gated(p)
  /\ Distinct(gateQueue[p])

\* The ref-count of suspended slots is the number of awaited children that run
\* inside the gate, so a slot is lent exactly while its turn awaits a started
\* child (session.ts suspendLimiterSlot: "exactly once").
SpansAreChildren == \A p \in Session : spans[p] = Cardinality(Started(p))

\* The inductive invariant of the composition.
FanInv == FanTypeOK /\ IInv /\ GateAccounting /\ SpansAreChildren

LEMMA GateVocabulary ==
  /\ GateAccounting <=> \A p \in Session : GateOf(p)
  /\ GateAccounting' <=> \A p \in Session : GateOf(p)'
BY DEF GateAccounting, GateOf, Listed, Distinct

\* The sets the gates count are finite, now and after a step.
LEMMA FiniteGates ==
  ASSUME NEW p \in Session
  PROVE  /\ IsFiniteSet(Inside(p)) /\ Cardinality(Inside(p)) \in Nat
         /\ IsFiniteSet(Inside(p)') /\ Cardinality(Inside(p)') \in Nat
         /\ IsFiniteSet(Started(p)) /\ Cardinality(Started(p)) \in Nat
         /\ IsFiniteSet(Started(p)') /\ Cardinality(Started(p)') \in Nat
<1>1. /\ Inside(p) \in SUBSET Session /\ Inside(p)' \in SUBSET Session
      /\ Started(p) \in SUBSET Session /\ Started(p)' \in SUBSET Session
  BY DEF Inside, Started, ChildrenOf, Child
<1> QED  BY <1>1, FS_Subset, FS_CardinalityType, LimiterAssumption

\* Entering the gate is a limiter step: a span opened or a turn begun.
LEMMA EnterIsLimiterStep ==
  ASSUME NEW p \in Session, NEW s \in Session, Enter(p, s)
  PROVE  Next
BY DEF Enter, Next

\* Every step of the tree is a step of the limiter or leaves it alone.
LEMMA FanStepIsLimiterStep ==
  ASSUME FanTypeOK, [FanNext]_fanVars
  PROVE  [Next]_vars
<1>0. /\ Parent \in [Child -> Session] /\ Root \in Session
      /\ Child \subseteq Session
      /\ \A p \in Session : gateQueue[p] \in Seq(Child)
  BY FanOutAssumption DEF FanTypeOK, Child
<1>1. CASE RootTurn  BY <1>0, <1>1 DEF RootTurn, Next
<1>2. CASE Interrupt  BY <1>0, <1>2 DEF Interrupt, Next
<1>3. ASSUME NEW c \in Session, Admission(c)  PROVE Next
  BY <1>3 DEF Admission, Next
<1>4. ASSUME NEW c \in Session, Finish(c)  PROVE Next
  BY <1>4 DEF Finish, Next
<1>5. ASSUME NEW s \in Child, NEW d \in BOOLEAN, Spawn(Parent[s], s, d)
      PROVE  Next \/ UNCHANGED vars
  BY <1>0, <1>5, EnterIsLimiterStep DEF Spawn
<1>6. ASSUME NEW s \in Child, Settle(s)  PROVE Next \/ UNCHANGED vars
  BY <1>0, <1>6 DEF Settle, Next
<1>7. ASSUME NEW s \in Child, LeaveGate(s)  PROVE Next \/ UNCHANGED vars
  <2>1. CASE gateQueue[Parent[s]] = <<>>  BY <1>7, <2>1 DEF LeaveGate
  <2>2. CASE gateQueue[Parent[s]] # <<>>
    <3>1. Enter(Parent[s], Head(gateQueue[Parent[s]]))  BY <1>7, <2>2 DEF LeaveGate
    <3>2. gateQueue[Parent[s]] \in Seq(Child)  BY <1>0
    <3>3. Head(gateQueue[Parent[s]]) \in Child  BY <2>2, <3>2
    <3> QED  BY <1>0, <3>1, <3>3, EnterIsLimiterStep
  <2> QED  BY <2>1, <2>2
<1>8. ASSUME NEW s \in Child, Deliver(s) \/ Timeout(s)  PROVE Next \/ UNCHANGED vars
  BY <1>0, <1>8 DEF Deliver, Timeout, Dequeue, Next
<1>9. ASSUME NEW s \in Child, Cancel(s)  PROVE Next \/ UNCHANGED vars
  BY <1>0, <1>9 DEF Cancel, Dequeue, Next
<1>10. CASE UNCHANGED fanVars  BY <1>10 DEF fanVars
<1> QED
  BY <1>1, <1>2, <1>3, <1>4, <1>5, <1>6, <1>7, <1>8, <1>9, <1>10 DEF FanNext

----------------------------------------------------------------------------
\* The sets of one session are untouched by a step that moves only children
\* of another session, or none.
LEMMA OtherGates ==
  ASSUME NEW p \in Session,
         \A s \in ChildrenOf(p) : stage'[s] = stage[s] /\ kind'[s] = kind[s]
  PROVE  /\ Inside(p)' = Inside(p) /\ Gated(p)' = Gated(p) /\ Started(p)' = Started(p)
BY DEF Inside, Gated, Started, ChildrenOf

\* A step that moves no child keeps every gate and every span count.
LEMMA GatesUntouched ==
  ASSUME FanInv, UNCHANGED gateVars, UNCHANGED spans
  PROVE  GateAccounting' /\ SpansAreChildren'
<1>1. \A p \in Session :
        Inside(p)' = Inside(p) /\ Gated(p)' = Gated(p) /\ Started(p)' = Started(p)
  BY OtherGates DEF gateVars
<1>2. \A p \in Session : GateOf(p)'
  BY <1>1, GateVocabulary DEF FanInv, gateVars, GateOf
<1> QED  BY <1>1, <1>2, GateVocabulary DEF FanInv, SpansAreChildren

\* What the step of the gate of p must establish when only p's children move.
LEMMA OneGate ==
  ASSUME FanInv, NEW p \in Session,
         \A q \in Session \ {p} : /\ gateActive'[q] = gateActive[q]
                                  /\ gateQueue'[q] = gateQueue[q]
                                  /\ spans'[q] = spans[q],
         \A c \in Child \ ChildrenOf(p) : stage'[c] = stage[c] /\ kind'[c] = kind[c],
         GateOf(p)', spans'[p] = Cardinality(Started(p)')
  PROVE  GateAccounting' /\ SpansAreChildren'
<1>1. ASSUME NEW q \in Session, q # p
      PROVE  GateOf(q)' /\ spans'[q] = Cardinality(Started(q)')
  <2>1. ChildrenOf(q) \subseteq Child \ ChildrenOf(p)  BY <1>1 DEF ChildrenOf
  <2>2. Inside(q)' = Inside(q) /\ Gated(q)' = Gated(q) /\ Started(q)' = Started(q)
    BY <2>1, OtherGates
  <2>3. GateOf(q) /\ spans[q] = Cardinality(Started(q))
    BY GateVocabulary DEF FanInv, SpansAreChildren
  <2> QED  BY <1>1, <2>2, <2>3 DEF GateOf
<1> QED  BY <1>1, GateVocabulary DEF SpansAreChildren

\* Entering the gate opens a span exactly for an awaited child.
LEMMA EnterSpans ==
  ASSUME NEW p \in Session, NEW s \in Session, Enter(p, s)
  PROVE  spans' = IF kind'[s] = "awaited" THEN [spans EXCEPT ![p] = @ + 1] ELSE spans
BY DEF Enter, OpenSpan, Begin

\* The facts every gate step starts from.
LEMMA GateFacts ==
  ASSUME FanInv, NEW s \in Child
  PROVE  /\ Parent[s] \in Session /\ s \in ChildrenOf(Parent[s]) /\ s \in Session
         /\ GateOf(Parent[s])
         /\ spans \in [Session -> Nat] /\ spans[Parent[s]] = Cardinality(Started(Parent[s]))
         /\ stage \in [Child -> Stage] /\ kind \in [Child -> Kind]
         /\ gateActive \in [Session -> 0..MaxParallel] /\ MaxParallel \in Nat \ {0}
         /\ gateQueue \in [Session -> Seq(Child)]
         /\ \A p \in Session, c \in Child : c \in ChildrenOf(p) <=> Parent[c] = p
<1>1. Parent[s] \in Session /\ s \in Session /\ MaxParallel \in Nat \ {0}
  BY FanOutAssumption DEF Child
<1>2. s \in ChildrenOf(Parent[s])
      /\ \A p \in Session, c \in Child : c \in ChildrenOf(p) <=> Parent[c] = p
  BY DEF ChildrenOf
<1>3. spans \in [Session -> Nat]
  BY LimiterAssumption DEF FanInv, FanTypeOK, TypeOK
<1>4. spans[Parent[s]] = Cardinality(Started(Parent[s])) /\ GateOf(Parent[s])
  BY <1>1, GateVocabulary DEF FanInv, SpansAreChildren
<1>5. /\ stage \in [Child -> Stage] /\ kind \in [Child -> Kind]
      /\ gateActive \in [Session -> 0..MaxParallel]
      /\ gateQueue \in [Session -> Seq(Child)]
  BY DEF FanInv, FanTypeOK
<1> QED  BY <1>1, <1>2, <1>3, <1>4, <1>5

LEMMA SpawnStep ==
  ASSUME FanInv, NEW s \in Child, NEW d \in BOOLEAN, Spawn(Parent[s], s, d)
  PROVE  /\ stage' \in [Child -> Stage] /\ kind' \in [Child -> Kind]
         /\ gateActive' \in [Session -> 0..MaxParallel]
         /\ gateQueue' \in [Session -> Seq(Child)]
         /\ GateAccounting' /\ SpansAreChildren'
<1> DEFINE p == Parent[s]
<1>0. /\ p \in Session /\ s \in ChildrenOf(p) /\ s \in Session /\ GateOf(p)
      /\ spans \in [Session -> Nat] /\ spans[p] = Cardinality(Started(p))
      /\ stage \in [Child -> Stage] /\ kind \in [Child -> Kind]
      /\ gateActive \in [Session -> 0..MaxParallel] /\ MaxParallel \in Nat \ {0}
      /\ gateQueue \in [Session -> Seq(Child)]
      /\ \A q \in Session, c \in Child : c \in ChildrenOf(q) <=> Parent[c] = q
  BY GateFacts
<1>1. /\ stage[s] = "unborn"
      /\ \E k \in Kind : kind' = [kind EXCEPT ![s] = k]
  BY <1>0 DEF Spawn, Kind
<1>2. kind' \in [Child -> Kind]  BY <1>0, <1>1
<1>3. CASE /\ gateActive[p] < MaxParallel
           /\ gateActive' = [gateActive EXCEPT ![p] = @ + 1]
           /\ stage' = [stage EXCEPT ![s] = "inside"]
           /\ Enter(p, s)
           /\ UNCHANGED gateQueue
  <2>1. spans' = IF kind'[s] = "awaited" THEN [spans EXCEPT ![p] = @ + 1] ELSE spans
    BY <1>0, <1>3, EnterSpans
  <2>2. stage' \in [Child -> Stage] /\ gateActive' \in [Session -> 0..MaxParallel]
    BY <1>0, <1>3 DEF Stage
  <2>3. /\ Inside(p)' = Inside(p) \cup {s} /\ s \notin Inside(p)
        /\ Gated(p)' = Gated(p)
        /\ Started(p)' = IF kind'[s] = "awaited" THEN Started(p) \cup {s} ELSE Started(p)
        /\ s \notin Started(p)
    BY <1>0, <1>1, <1>3 DEF Inside, Gated, Started, ChildrenOf
  <2>4. Cardinality(Inside(p)') = Cardinality(Inside(p)) + 1
    BY <1>0, <2>3, FiniteGates, FS_AddElement
  <2>5. gateQueue[p] = <<>>  BY <1>0, <1>3 DEF GateOf
  <2>6. GateOf(p)'  BY <1>0, <1>3, <2>3, <2>4, <2>5 DEF GateOf
  <2>7. spans'[p] = Cardinality(Started(p)')
    <3>1. CASE kind'[s] = "awaited"
      <4>1. Cardinality(Started(p)') = Cardinality(Started(p)) + 1
        BY <1>0, <2>3, <3>1, FiniteGates, FS_AddElement
      <4> QED  BY <1>0, <2>1, <3>1, <4>1
    <3>2. CASE kind'[s] # "awaited"  BY <1>0, <2>1, <2>3, <3>2
    <3> QED  BY <3>1, <3>2
  <2>8. \A q \in Session \ {p} : gateActive'[q] = gateActive[q]
           /\ gateQueue'[q] = gateQueue[q] /\ spans'[q] = spans[q]
    BY <1>0, <1>3, <2>1
  <2>9. \A c \in Child \ ChildrenOf(p) : stage'[c] = stage[c] /\ kind'[c] = kind[c]
    BY <1>0, <1>1, <1>3
  <2> QED  BY <1>0, <1>2, <1>3, <2>2, <2>6, <2>7, <2>8, <2>9, OneGate
<1>4. CASE /\ gateActive[p] >= MaxParallel
           /\ gateQueue' = [gateQueue EXCEPT ![p] = Append(@, s)]
           /\ stage' = [stage EXCEPT ![s] = "gated"]
           /\ UNCHANGED <<vars, gateActive>>
  <2>1. /\ stage' \in [Child -> Stage] /\ gateActive' \in [Session -> 0..MaxParallel]
        /\ UNCHANGED spans /\ gateActive[p] = MaxParallel
    BY <1>0, <1>4 DEF Stage, vars
  <2> DEFINE q == gateQueue[p]
             r == Append(q, s)
  <2>2. q \in Seq(Child) /\ Distinct(q) /\ Listed(q) = Gated(p)  BY <1>0 DEF GateOf
  <2>3. /\ r \in Seq(Child) /\ Len(r) = Len(q) + 1
        /\ \A i \in 1..Len(q) : r[i] = q[i]
        /\ r[Len(q) + 1] = s
    BY <2>2, AppendProperties
  <2>4. gateQueue' \in [Session -> Seq(Child)] /\ gateQueue'[p] = r
    BY <1>0, <1>4, <2>3
  <2>5. /\ Inside(p)' = Inside(p) /\ Started(p)' = Started(p)
        /\ Gated(p)' = Gated(p) \cup {s} /\ s \notin Gated(p)
    BY <1>0, <1>1, <1>4 DEF Inside, Gated, Started, ChildrenOf
  <2> HIDE DEF r
  <2>6. Len(q) \in Nat /\ \A i \in 1..Len(q) : q[i] # s
    BY <2>2, <2>5 DEF Listed
  <2>7. Distinct(r)  BY <2>2, <2>3, <2>6 DEF Distinct
  <2>8. Listed(r) = Listed(q) \cup {s}  BY <2>3, <2>6 DEF Listed
  <2>9. GateOf(p)'
    BY <1>0, <1>4, <2>1, <2>2, <2>4, <2>5, <2>7, <2>8 DEF GateOf
  <2>10. \A x \in Session \ {p} : gateActive'[x] = gateActive[x]
           /\ gateQueue'[x] = gateQueue[x] /\ spans'[x] = spans[x]
    BY <1>0, <1>4, <2>1
  <2>11. \A c \in Child \ ChildrenOf(p) : stage'[c] = stage[c] /\ kind'[c] = kind[c]
    BY <1>0, <1>1, <1>4
  <2>12. spans'[p] = Cardinality(Started(p)')  BY <1>0, <2>1, <2>5
  <2> QED  BY <1>0, <1>2, <2>1, <2>4, <2>9, <2>10, <2>11, <2>12, OneGate
<1> QED  BY <1>3, <1>4 DEF Spawn

LEMMA SettleStep ==
  ASSUME FanInv, NEW s \in Child, Settle(s)
  PROVE  /\ stage' \in [Child -> Stage]
         /\ GateAccounting' /\ SpansAreChildren'
<1> DEFINE p == Parent[s]
<1>0. /\ p \in Session /\ s \in ChildrenOf(p) /\ GateOf(p)
      /\ spans \in [Session -> Nat] /\ spans[p] = Cardinality(Started(p))
      /\ stage \in [Child -> Stage]
      /\ \A q \in Session, c \in Child : c \in ChildrenOf(q) <=> Parent[c] = q
  BY GateFacts
<1>1. /\ stage[s] = "inside" /\ stage' = [stage EXCEPT ![s] = "leaving"]
      /\ UNCHANGED <<kind, gateActive, gateQueue>>
      /\ spans' = IF kind[s] = "awaited" THEN [spans EXCEPT ![p] = @ - 1] ELSE spans
  BY DEF Settle, CloseSpan, vars
<1>2. stage' \in [Child -> Stage]  BY <1>0, <1>1 DEF Stage
<1>3. /\ Inside(p)' = Inside(p) /\ Gated(p)' = Gated(p)
      /\ Started(p)' = Started(p) \ {s}
      /\ s \in Started(p) <=> kind[s] = "awaited"
  BY <1>0, <1>1 DEF Inside, Gated, Started, ChildrenOf
<1>4. GateOf(p)'  BY <1>0, <1>1, <1>3 DEF GateOf
<1>5. spans'[p] = Cardinality(Started(p)')
  <2>1. Cardinality(Started(p)') = IF s \in Started(p) THEN Cardinality(Started(p)) - 1
                                                       ELSE Cardinality(Started(p))
    BY <1>0, <1>3, FiniteGates, FS_RemoveElement
  <2> QED  BY <1>0, <1>1, <1>3, <2>1
<1>6. \A q \in Session \ {p} : gateActive'[q] = gateActive[q]
         /\ gateQueue'[q] = gateQueue[q] /\ spans'[q] = spans[q]
  BY <1>0, <1>1
<1>7. \A c \in Child \ ChildrenOf(p) : stage'[c] = stage[c] /\ kind'[c] = kind[c]
  BY <1>0, <1>1
<1> QED  BY <1>0, <1>2, <1>4, <1>5, <1>6, <1>7, OneGate

\* The head of a queue without repetition is in no other place of it.
LEMMA TailLemma ==
  ASSUME NEW S, NEW q \in Seq(S), Distinct(q), q # <<>>
  PROVE  /\ Head(q) \in Listed(q) /\ Head(q) \in S
         /\ Tail(q) \in Seq(S) /\ Distinct(Tail(q))
         /\ Listed(Tail(q)) = Listed(q) \ {Head(q)}
<1>1. /\ Len(q) \in Nat /\ Len(q) >= 1 /\ Head(q) = q[1]
      /\ Tail(q) \in Seq(S) /\ Len(Tail(q)) = Len(q) - 1
      /\ \A i \in 1..Len(Tail(q)) : Tail(q)[i] = q[i + 1]
  BY HeadTailProperties, LenProperties
<1>2. 1 \in 1..Len(q) /\ Head(q) \in S /\ Head(q) \in Listed(q)
  BY <1>1 DEF Listed
<1>3. Distinct(Tail(q))
  <2> SUFFICES ASSUME NEW i \in 1..Len(Tail(q)), NEW j \in 1..Len(Tail(q)),
                      Tail(q)[i] = Tail(q)[j]
               PROVE  i = j
    BY DEF Distinct
  <2>1. i + 1 \in 1..Len(q) /\ j + 1 \in 1..Len(q) /\ q[i + 1] = q[j + 1]  BY <1>1
  <2>2. i + 1 = j + 1  BY <2>1 DEF Distinct
  <2> QED  BY <1>1, <2>2
<1>4. ASSUME NEW c \in Listed(Tail(q))  PROVE c \in Listed(q) \ {Head(q)}
  <2>1. PICK i \in 1..Len(Tail(q)) : c = Tail(q)[i]  BY <1>4 DEF Listed
  <2>2. i + 1 \in 1..Len(q) /\ c = q[i + 1] /\ i + 1 # 1  BY <1>1, <2>1
  <2>3. c # q[1]  BY <1>2, <2>2 DEF Distinct
  <2> QED  BY <1>1, <2>2, <2>3 DEF Listed
<1>5. ASSUME NEW c \in Listed(q) \ {Head(q)}  PROVE c \in Listed(Tail(q))
  <2>1. PICK i \in 1..Len(q) : c = q[i]  BY <1>5 DEF Listed
  <2>2. i # 1  BY <1>1, <1>5, <2>1
  <2>3. i - 1 \in 1..Len(Tail(q)) /\ (i - 1) + 1 = i  BY <1>1, <2>2
  <2>4. Tail(q)[i - 1] = c  BY <1>1, <2>1, <2>3
  <2> QED  BY <2>3, <2>4 DEF Listed
<1> QED  BY <1>1, <1>2, <1>3, <1>4, <1>5

LEMMA LeaveGateStep ==
  ASSUME FanInv, NEW s \in Child, LeaveGate(s)
  PROVE  /\ stage' \in [Child -> Stage]
         /\ gateActive' \in [Session -> 0..MaxParallel]
         /\ gateQueue' \in [Session -> Seq(Child)]
         /\ GateAccounting' /\ SpansAreChildren'
<1> DEFINE p == Parent[s]
           q == gateQueue[p]
           n == Head(q)
<1>0. /\ p \in Session /\ s \in ChildrenOf(p) /\ GateOf(p)
      /\ spans \in [Session -> Nat] /\ spans[p] = Cardinality(Started(p))
      /\ stage \in [Child -> Stage] /\ kind \in [Child -> Kind]
      /\ gateActive \in [Session -> 0..MaxParallel] /\ MaxParallel \in Nat \ {0}
      /\ gateQueue \in [Session -> Seq(Child)]
      /\ \A x \in Session, c \in Child : c \in ChildrenOf(x) <=> Parent[c] = x
  BY GateFacts
<1>1. stage[s] = "leaving" /\ s \in Inside(p) /\ UNCHANGED kind
  BY <1>0 DEF LeaveGate, Inside
<1>2. CASE /\ q = <<>>
           /\ gateActive' = [gateActive EXCEPT ![p] = @ - 1]
           /\ stage' = [stage EXCEPT ![s] = "done"]
           /\ UNCHANGED <<vars, kind, gateQueue>>
  <2>1. UNCHANGED spans  BY <1>2 DEF vars
  <2>2. /\ Inside(p)' = Inside(p) \ {s} /\ Gated(p)' = Gated(p)
        /\ Started(p)' = Started(p)
    BY <1>0, <1>1, <1>2 DEF Inside, Gated, Started, ChildrenOf
  <2>3. Cardinality(Inside(p)') = Cardinality(Inside(p)) - 1
    <3>1. IsFiniteSet(Inside(p)) /\ s \in Inside(p)  BY <1>0, <1>1, FiniteGates
    <3>2. Cardinality(Inside(p) \ {s}) = Cardinality(Inside(p)) - 1
      BY <3>1, FS_RemoveElement
    <3> QED  BY <2>2, <3>2
  <2>4. gateActive[p] >= 1 /\ gateActive[p] - 1 \in 0..MaxParallel
    <3>1. Cardinality(Inside(p)) \in Nat /\ Cardinality(Inside(p)') \in Nat
      BY <1>0, FiniteGates
    <3>2. gateActive[p] = Cardinality(Inside(p))  BY <1>0 DEF GateOf
    <3>3. gateActive[p] \in 0..MaxParallel  BY <1>0
    <3> QED  BY <1>0, <2>3, <3>1, <3>2, <3>3
  <2>5. /\ stage' \in [Child -> Stage] /\ gateActive' \in [Session -> 0..MaxParallel]
        /\ gateQueue' \in [Session -> Seq(Child)]
    BY <1>0, <1>2, <2>4 DEF Stage
  <2>6. GateOf(p)'  BY <1>0, <1>2, <2>2, <2>3 DEF GateOf
  <2>7. spans'[p] = Cardinality(Started(p)')  BY <1>0, <2>1, <2>2
  <2>8. \A x \in Session \ {p} : gateActive'[x] = gateActive[x]
           /\ gateQueue'[x] = gateQueue[x] /\ spans'[x] = spans[x]
    BY <1>0, <1>2, <2>1
  <2>9. \A c \in Child \ ChildrenOf(p) : stage'[c] = stage[c] /\ kind'[c] = kind[c]
    BY <1>0, <1>2
  <2> QED  BY <1>0, <2>5, <2>6, <2>7, <2>8, <2>9, OneGate
<1>3. CASE /\ q # <<>>
           /\ gateQueue' = [gateQueue EXCEPT ![p] = Tail(@)]
           /\ stage' = [stage EXCEPT ![s] = "done", ![n] = "inside"]
           /\ UNCHANGED <<kind, gateActive>>
           /\ Enter(p, n)
  <2>1. q \in Seq(Child) /\ Distinct(q) /\ Listed(q) = Gated(p)  BY <1>0 DEF GateOf
  <2>2. /\ n \in Listed(q) /\ n \in Child
        /\ Tail(q) \in Seq(Child) /\ Distinct(Tail(q))
        /\ Listed(Tail(q)) = Listed(q) \ {n}
    BY <1>3, <2>1, TailLemma
  <2>3. n \in ChildrenOf(p) /\ stage[n] = "gated" /\ n # s /\ n \in Session
    BY <1>1, <2>1, <2>2 DEF Gated, Child
  <2>a. stage' = [[stage EXCEPT ![s] = "done"] EXCEPT ![n] = "inside"]
    BY <1>3
  <2> HIDE DEF n
  <2>4. /\ stage'[s] = "done" /\ stage'[n] = "inside" /\ stage' \in [Child -> Stage]
        /\ \A c \in Child \ {s, n} : stage'[c] = stage[c]
    BY <1>0, <2>a, <2>2, <2>3 DEF Stage
  <2>5. spans' = IF kind[n] = "awaited" THEN [spans EXCEPT ![p] = @ + 1] ELSE spans
    BY <1>0, <1>3, <2>3, EnterSpans
  <2>6. /\ Inside(p)' = (Inside(p) \ {s}) \cup {n} /\ n \notin Inside(p)
        /\ Gated(p)' = Gated(p) \ {n}
        /\ Started(p)' = IF kind[n] = "awaited" THEN Started(p) \cup {n} ELSE Started(p)
        /\ n \notin Started(p)
    BY <1>0, <1>1, <1>3, <2>3, <2>4 DEF Inside, Gated, Started, ChildrenOf
  <2>7. Cardinality(Inside(p)') = Cardinality(Inside(p))
    <3>1. /\ IsFiniteSet(Inside(p) \ {s})
          /\ Cardinality(Inside(p) \ {s}) = Cardinality(Inside(p)) - 1
      BY <1>0, <1>1, FiniteGates, FS_RemoveElement
    <3>2. Cardinality(Inside(p)') = Cardinality(Inside(p) \ {s}) + 1
      BY <2>6, <3>1, FS_AddElement
    <3> QED  BY <1>0, <3>1, <3>2, FiniteGates
  <2>8. gateActive[p] = MaxParallel  BY <1>0, <1>3 DEF GateOf
  <2>9. gateQueue' \in [Session -> Seq(Child)] /\ gateQueue'[p] = Tail(q)
    BY <1>0, <1>3, <2>2
  <2>10. GateOf(p)'
    BY <1>0, <1>3, <2>1, <2>2, <2>6, <2>7, <2>8, <2>9 DEF GateOf
  <2>11. spans'[p] = Cardinality(Started(p)')
    <3>1. CASE kind[n] = "awaited"
      <4>1. Cardinality(Started(p)') = Cardinality(Started(p)) + 1
        BY <1>0, <2>6, <3>1, FiniteGates, FS_AddElement
      <4> QED  BY <1>0, <2>5, <3>1, <4>1
    <3>2. CASE kind[n] # "awaited"  BY <1>0, <2>5, <2>6, <3>2
    <3> QED  BY <3>1, <3>2
  <2>12. \A x \in Session \ {p} : gateActive'[x] = gateActive[x]
           /\ gateQueue'[x] = gateQueue[x] /\ spans'[x] = spans[x]
    BY <1>0, <1>3, <2>5
  <2>13. \A c \in Child \ ChildrenOf(p) : stage'[c] = stage[c] /\ kind'[c] = kind[c]
    BY <1>0, <1>3, <2>3, <2>4
  <2> QED  BY <1>0, <1>3, <2>4, <2>9, <2>10, <2>11, <2>12, <2>13, OneGate
<1> QED  BY <1>2, <1>3 DEF LeaveGate

LEMMA DequeueStep ==
  ASSUME FanInv, NEW s \in Child, Dequeue(s), stage[s] = "gated",
         \A c \in Child : c # s => kind'[c] = kind[c]
  PROVE  /\ stage' \in [Child -> Stage]
         /\ gateActive' \in [Session -> 0..MaxParallel]
         /\ gateQueue' \in [Session -> Seq(Child)]
         /\ GateAccounting' /\ SpansAreChildren'
<1> DEFINE p == Parent[s]
           q == gateQueue[p]
<1>0. /\ p \in Session /\ s \in ChildrenOf(p) /\ GateOf(p)
      /\ spans \in [Session -> Nat] /\ spans[p] = Cardinality(Started(p))
      /\ stage \in [Child -> Stage]
      /\ gateActive \in [Session -> 0..MaxParallel]
      /\ gateQueue \in [Session -> Seq(Child)]
      /\ \A x \in Session, c \in Child : c \in ChildrenOf(x) <=> Parent[c] = x
  BY GateFacts
<1>1. PICK i \in 1..Len(q) :
        q[i] = s /\ gateQueue' = [gateQueue EXCEPT ![p] = RemoveAt(@, i)]
  BY DEF Dequeue
<1>2. /\ stage' = [stage EXCEPT ![s] = "done"] /\ UNCHANGED gateActive /\ UNCHANGED spans
  BY DEF Dequeue, vars
<1>3. q \in Seq(Child) /\ Distinct(q) /\ Listed(q) = Gated(p)  BY <1>0 DEF GateOf
<1>4. /\ RemoveAt(q, i) \in Seq(Child) /\ Distinct(RemoveAt(q, i))
      /\ Listed(RemoveAt(q, i)) = Listed(q) \ {s}
      /\ RemoveAt(q, i) # <<>> => q # <<>>
  BY <1>1, <1>3, RemoveLemma
<1>5. gateQueue' \in [Session -> Seq(Child)] /\ gateQueue'[p] = RemoveAt(q, i)
      /\ stage' \in [Child -> Stage]
  BY <1>0, <1>1, <1>2, <1>4 DEF Stage
<1>6. /\ Inside(p)' = Inside(p) /\ Started(p)' = Started(p)
      /\ Gated(p)' = Gated(p) \ {s}
  BY <1>0, <1>2 DEF Inside, Gated, Started, ChildrenOf
<1>7. GateOf(p)'  BY <1>0, <1>2, <1>3, <1>4, <1>5, <1>6 DEF GateOf
<1>8. \A x \in Session \ {p} : gateActive'[x] = gateActive[x]
         /\ gateQueue'[x] = gateQueue[x] /\ spans'[x] = spans[x]
  BY <1>0, <1>1, <1>2
<1>9. \A c \in Child \ ChildrenOf(p) : stage'[c] = stage[c] /\ kind'[c] = kind[c]
  BY <1>0, <1>2
<1>10. spans'[p] = Cardinality(Started(p)')  BY <1>0, <1>2, <1>6
<1> QED  BY <1>0, <1>2, <1>5, <1>7, <1>8, <1>9, <1>10, OneGate

\* Cancelling a child past the gate's queue moves it in no set the gates count.
LEMMA CancelStep ==
  ASSUME FanInv, NEW s \in Child, Cancel(s)
  PROVE  /\ stage' \in [Child -> Stage] /\ kind' \in [Child -> Kind]
         /\ gateActive' \in [Session -> 0..MaxParallel]
         /\ gateQueue' \in [Session -> Seq(Child)]
         /\ GateAccounting' /\ SpansAreChildren'
<1>0. /\ stage \in [Child -> Stage] /\ kind \in [Child -> Kind]
      /\ gateActive \in [Session -> 0..MaxParallel]
      /\ gateQueue \in [Session -> Seq(Child)]
  BY GateFacts
<1>1. kind[s] = "background" /\ kind' = [kind EXCEPT ![s] = "cancelled"]
  BY DEF Cancel
<1>2. kind' \in [Child -> Kind] /\ \A c \in Child : c # s => kind'[c] = kind[c]
  BY <1>0, <1>1 DEF Kind
<1>3. CASE stage[s] = "gated" /\ Dequeue(s)
  BY <1>2, <1>3, DequeueStep
<1>4. CASE UNCHANGED <<stage, gateActive, gateQueue, spans>>
  <2>1. \A p \in Session :
          Inside(p)' = Inside(p) /\ Gated(p)' = Gated(p) /\ Started(p)' = Started(p)
    BY <1>0, <1>1, <1>2, <1>4 DEF Inside, Gated, Started, ChildrenOf
  <2>2. \A p \in Session : GateOf(p)'
    BY <1>4, <2>1, GateVocabulary DEF FanInv, GateOf
  <2>3. SpansAreChildren'  BY <1>4, <2>1 DEF FanInv, SpansAreChildren
  <2> QED  BY <1>0, <1>2, <1>4, <2>2, <2>3, GateVocabulary
<1> QED  BY <1>3, <1>4 DEF Cancel, Abort, vars

LEMMA FanInitial == FanInit => FanInv
<1> SUFFICES ASSUME FanInit  PROVE FanInv
  OBVIOUS
<1>1. IInv /\ TypeOK  BY LimiterInit DEF FanInit, IInv
<1>2. FanTypeOK
  BY <1>1, FanOutAssumption DEF FanInit, FanTypeOK, Stage, Kind
<1>3. ASSUME NEW p \in Session
      PROVE  Inside(p) = {} /\ Gated(p) = {} /\ Started(p) = {}
  BY DEF FanInit, Inside, Gated, Started, ChildrenOf
<1>4. Cardinality({}) = 0  BY FS_EmptySet
<1>5. \A p \in Session : spans[p] = Cardinality(Started(p))
  BY <1>3, <1>4 DEF FanInit, Init
<1>6. ASSUME NEW p \in Session  PROVE GateOf(p)
  <2>1. gateActive[p] = 0 /\ gateQueue[p] = <<>>  BY DEF FanInit
  <2>2. Len(gateQueue[p]) = 0  BY <2>1
  <2>3. Listed(gateQueue[p]) = {} /\ Distinct(gateQueue[p])
    BY <2>2 DEF Listed, Distinct
  <2> QED  BY <1>3, <1>4, <2>1, <2>3 DEF GateOf
<1> QED  BY <1>1, <1>2, <1>5, <1>6, GateVocabulary DEF FanInv, SpansAreChildren

LEMMA FanStep == FanInv /\ [FanNext]_fanVars => FanInv'
<1> SUFFICES ASSUME FanInv, [FanNext]_fanVars  PROVE FanInv'
  OBVIOUS
<1>0. /\ stage \in [Child -> Stage] /\ kind \in [Child -> Kind]
      /\ gateActive \in [Session -> 0..MaxParallel]
      /\ gateQueue \in [Session -> Seq(Child)]
  BY DEF FanInv, FanTypeOK
<1>1. IInv' /\ TypeOK'
  BY FanStepIsLimiterStep, LimiterStep DEF FanInv, IInv
<1> DEFINE Goal == /\ stage' \in [Child -> Stage] /\ kind' \in [Child -> Kind]
                   /\ gateActive' \in [Session -> 0..MaxParallel]
                   /\ gateQueue' \in [Session -> Seq(Child)]
                   /\ GateAccounting' /\ SpansAreChildren'
<1>2. ASSUME UNCHANGED gateVars, UNCHANGED spans  PROVE Goal
  BY <1>0, <1>2, GatesUntouched DEF gateVars
<1>3. ASSUME RootTurn \/ Interrupt  PROVE Goal
  BY <1>2, <1>3 DEF RootTurn, Interrupt, Begin, Abort
<1>4. ASSUME NEW c \in Session, Admission(c) \/ Finish(c)  PROVE Goal
  BY <1>2, <1>4 DEF Admission, Finish, GiveUp, Acquire, EndTurn
<1>5. ASSUME NEW s \in Child, NEW d \in BOOLEAN, Spawn(Parent[s], s, d)  PROVE Goal
  BY <1>5, SpawnStep
<1>6. ASSUME NEW s \in Child, Settle(s)  PROVE Goal
  <2>1. UNCHANGED <<kind, gateActive, gateQueue>>  BY <1>6 DEF Settle
  <2> QED  BY <1>0, <1>6, <2>1, SettleStep
<1>7. ASSUME NEW s \in Child, LeaveGate(s)  PROVE Goal
  <2>1. UNCHANGED kind  BY <1>7 DEF LeaveGate
  <2> QED  BY <1>0, <1>7, <2>1, LeaveGateStep
<1>8. ASSUME NEW s \in Child, Deliver(s)  PROVE Goal
  <2>1. UNCHANGED kind  BY <1>8 DEF Deliver
  <2>2. CASE stage[s] = "gated" /\ Dequeue(s)
    BY <1>0, <2>1, <2>2, DequeueStep
  <2>3. CASE Abort(s) /\ UNCHANGED <<stage, gateActive, gateQueue>>
    BY <1>2, <2>1, <2>3 DEF Abort, gateVars
  <2> QED  BY <1>8, <2>2, <2>3 DEF Deliver
<1>9. ASSUME NEW s \in Child, Timeout(s)  PROVE Goal
  BY <1>2, <1>9 DEF Timeout, Abort
<1>10. ASSUME NEW s \in Child, Cancel(s)  PROVE Goal
  BY <1>10, CancelStep
<1>11. ASSUME UNCHANGED fanVars  PROVE Goal
  BY <1>2, <1>11 DEF fanVars, vars
<1>12. Goal
  BY <1>3, <1>4, <1>5, <1>6, <1>7, <1>8, <1>9, <1>10, <1>11 DEF FanNext
<1> QED  BY <1>1, <1>12 DEF FanInv, FanTypeOK

----------------------------------------------------------------------------
\* The inductive invariant holds in every reachable state of every agent tree.
THEOREM FanInvariant == FanSpec => []FanInv
BY FanInitial, FanStep, PTL DEF FanSpec

\* Every variable of the composition keeps its type; no gate ever holds more
\* than maxParallel children (toolset.ts createSemaphore).
THEOREM FanTypeCorrect == FanSpec => []FanTypeOK
<1>1. FanInv => FanTypeOK  BY DEF FanInv
<1> QED  BY <1>1, FanInvariant, PTL

\* Every gate counts exactly the children inside it and queues exactly the
\* ones waiting, through aborts, timeouts and cancellations.
THEOREM GateAccountingHolds == FanSpec => []GateAccounting
<1>1. FanInv => GateAccounting  BY DEF FanInv
<1> QED  BY <1>1, FanInvariant, PTL

\* A session's slot is lent exactly while it awaits a started child
\* (session.ts suspendLimiterSlot).
THEOREM SpansAreChildrenHolds == FanSpec => []SpansAreChildren
<1>1. FanInv => SpansAreChildren  BY DEF FanInv
<1> QED  BY <1>1, FanInvariant, PTL

\* Refinement: with the gates, the abort cascade, timeouts and background
\* children around it, the limiter behaves as module Limiter says.
THEOREM FanOutImplementsLimiter == FanSpec => ImplementsLimiter
<1>1. FanInit => Init  BY DEF FanInit
<1>2. FanInv /\ [FanNext]_fanVars => [Next]_vars
  BY FanStepIsLimiterStep DEF FanInv
<1> QED  BY <1>1, <1>2, FanInvariant, PTL DEF FanSpec, Spec, ImplementsLimiter

\* What is proved of every use of the limiter holds of every agent tree: slots
\* are conserved, never idle while a turn waits, and granted in order.
THEOREM TreeConservesSlots ==
  FanSpec => [](Conservation /\ NoIdleCapacity) /\ NoOvertaking /\ AbortedIsNotAdmitted
BY FanOutImplementsLimiter, ConservationHolds, NoIdleCapacityHolds,
   NoOvertakingHolds, AbortedIsNotAdmittedHolds, PTL DEF ImplementsLimiter

----------------------------------------------------------------------------
(* No orphans: what a turn that is over leaves behind.                     *)

\* A child that waits for a place has a running parent turn; one inside the gate
\* whose parent's turn is over has ended its own or heard its signal.
OrphanFree(s) ==
  kind[s] = "awaited" =>
    /\ stage[s] = "gated" => turn[Parent[s]] = "running"
    /\ stage[s] = "inside" /\ turn[Parent[s]] # "running" => turn[s] = "idle" \/ aborted[s]

OrphanInv == \A s \in Child : OrphanFree(s)

\* No running turn ends in this step.
RunsOn(c) == turn[c] = "running" => turn'[c] = "running"

\* In this step no turn begins and no signal is renewed.
StaysOver(c) == (turn[c] = "idle" => turn'[c] = "idle") /\ (aborted[c] => aborted'[c])

\* A pump moves only queued turns.
LEMMA PumpTurns ==
  ASSUME TypeOK, NoIdleCapacity, NEW lim \in Int, NEW act \in Int, NEW turns,
         Pump(lim, act, turns), NEW c \in Session, turn[c] # "queued"
  PROVE  turn'[c] = turns[c]
<1> DEFINE free == IF act < lim THEN lim - act ELSE 0
           n == IF Len(waiters) < free THEN Len(waiters) ELSE free
<1>1. Len(waiters) \in Nat /\ n \in Nat /\ n <= Len(waiters)
  BY LenProperties DEF TypeOK
<1>2. turn' = [x \in Session |-> IF x \in {waiters[i] : i \in 1..n} THEN "running" ELSE turns[x]]
  BY Zenon DEF Pump
<1> HIDE DEF n
<1>3. c \notin {waiters[i] : i \in 1..n}
  <2>1. c \notin {waiters[i] : i \in 1..Len(waiters)}
    BY DEF NoIdleCapacity
  <2> QED  BY <1>1, <2>1
<1> QED  BY <1>2, <1>3

\* The limiter's steps, but for the begin and the end of a turn, end no running
\* turn and begin none.
LEMMA TurnsKept ==
  ASSUME TypeOK, NoIdleCapacity, NEW c \in Session,
         \/ UNCHANGED vars
         \/ \E d \in Session : GiveUp(d) \/ Acquire(d) \/ Abort(d) \/ CloseSpan(d)
  PROVE  RunsOn(c) /\ StaysOver(c)
<1> USE DEF RunsOn, StaysOver
<1>1. CASE UNCHANGED vars
  BY <1>1 DEF vars
<1>2. ASSUME NEW d \in Session, GiveUp(d) \/ Acquire(d) \/ Abort(d)
      PROVE  RunsOn(c) /\ StaysOver(c)
  BY <1>2 DEF TypeOK, GiveUp, Acquire, Abort
<1>3. ASSUME NEW d \in Session, CloseSpan(d)
      PROVE  RunsOn(c) /\ StaysOver(c)
  <2>1. UNCHANGED aborted
    BY <1>3 DEF CloseSpan
  <2>2. CASE spans[d] # 1
    BY <1>3, <2>2 DEF CloseSpan
  <2>3. CASE spans[d] = 1
    <3>1. Pump(limit, active + 1, turn) /\ limit \in Int /\ active + 1 \in Int
      BY <1>3, <2>3, LimiterAssumption DEF CloseSpan, TypeOK
    <3>2. turn[c] # "queued" => turn'[c] = turn[c]
      BY <3>1, PumpTurns
    <3> QED  BY <2>1, <3>2
  <2> QED  BY <2>2, <2>3
<1> QED  BY <1>1, <1>2, <1>3

\* A step in which no turn begins or ends and no child enters a gate.
LEMMA OrphansKept ==
  ASSUME OrphanInv, Parent \in [Child -> Session],
         \A c \in Session : RunsOn(c), \A s \in Child : StaysOver(s),
         \A s \in Child : /\ stage'[s] \in {stage[s], "leaving", "done"}
                          /\ kind'[s] = "awaited" => kind[s] = "awaited"
  PROVE  OrphanInv'
BY DEF OrphanInv, OrphanFree, RunsOn, StaysOver

\* A child that enters the gate of a running turn begins its own.
LEMMA EnterKeeps ==
  ASSUME TypeOK, NoIdleCapacity, NEW p \in Session, NEW s \in Session, Enter(p, s),
         NEW c \in Session
  PROVE  /\ kind'[s] = "awaited" => turn[p] = "running"
         /\ RunsOn(c) /\ (c # s => StaysOver(c))
<1> USE DEF RunsOn, StaysOver
<1>1. CASE kind'[s] = "awaited"
  <2>1. OpenSpan(p, s) /\ turn[p] = "running" /\ turn[s] = "idle"
    BY <1>1 DEF Enter, OpenSpan
  <2>2. aborted' = [aborted EXCEPT ![s] = FALSE]
    BY <2>1 DEF OpenSpan
  <2> DEFINE begun == [turn EXCEPT ![s] = "preparing"]
  <2>3. turn[c] # "queued" => turn'[c] = begun[c]
    <3>1. CASE spans[p] # 0
      BY <2>1, <3>1 DEF OpenSpan
    <3>2. CASE spans[p] = 0
      <4>1. Pump(limit, active - 1, begun) /\ limit \in Int /\ active - 1 \in Int
        BY <2>1, <3>2, LimiterAssumption DEF OpenSpan, TypeOK
      <4> QED  BY <4>1, PumpTurns
    <3> QED  BY <3>1, <3>2
  <2>4. c # s => begun[c] = turn[c] /\ aborted'[c] = aborted[c]
    BY <2>2 DEF TypeOK
  <2> QED  BY <2>1, <2>3, <2>4
<1>2. CASE kind'[s] # "awaited"
  BY <1>2 DEF Enter, Begin, TypeOK
<1> QED  BY <1>1, <1>2

\* A child of p enters its gate, or queues for it while p's turn runs.
LEMMA OrphansEnter ==
  ASSUME FanInv, OrphanInv, NEW n \in Child,
         \/ Enter(Parent[n], n)
         \/ turn[Parent[n]] = "running" /\ UNCHANGED vars,
         \A c \in Child \ {n} : stage'[c] \in {stage[c], "done"} /\ kind'[c] = kind[c]
  PROVE  OrphanInv'
<1>1. /\ Parent \in [Child -> Session] /\ n \in Session /\ TypeOK /\ NoIdleCapacity
      /\ \A s \in Child : s \in Session
  BY FanOutAssumption DEF Child, FanInv, FanTypeOK, IInv
<1>2. /\ \A c \in Session : RunsOn(c)
      /\ \A c \in Child \ {n} : StaysOver(c)
  BY <1>1, EnterKeeps, TurnsKept
<1>3. kind'[n] = "awaited" => turn'[Parent[n]] = "running"
  BY <1>1, <1>2, EnterKeeps DEF RunsOn
<1> QED
  BY <1>1, <1>2, <1>3 DEF OrphanInv, OrphanFree, RunsOn, StaysOver

\* A turn that ends has no child in the gate's queue, and those inside it have
\* heard its signal.
LEMMA OrphansLeft ==
  ASSUME FanInv, OrphanInv, NEW p \in Session, Finish(p)
  PROVE  OrphanInv'
<1>1. /\ Parent \in [Child -> Session] /\ TypeOK /\ NoIdleCapacity
      /\ \A s \in Child : s \in Session
  BY FanOutAssumption DEF Child, FanInv, FanTypeOK, IInv
<1>2. PICK o \in Outcome : EndTurn(p, o)
  BY DEF Finish
<1>3. /\ turn[p] = "running" /\ UNCHANGED aborted /\ UNCHANGED <<stage, kind>>
      /\ Pump(limit', active - 1, [turn EXCEPT ![p] = "idle"])
  BY <1>2 DEF EndTurn, Settled, Finish, gateVars
<1>4. limit' \in Int /\ active - 1 \in Int
  BY FanStepIsLimiterStep, LimiterStep, LimiterAssumption DEF FanInv, IInv, TypeOK, FanNext
<1>5. \A c \in Session : turn[c] # "queued" =>
        turn'[c] = IF c = p THEN "idle" ELSE turn[c]
  <2> DEFINE ended == [turn EXCEPT ![p] = "idle"]
  <2>1. \A c \in Session : ended[c] = IF c = p THEN "idle" ELSE turn[c]
    BY <1>1 DEF TypeOK
  <2> HIDE DEF ended
  <2>2. Pump(limit', active - 1, ended)
    BY <1>3 DEF ended
  <2>3. \A c \in Session : turn[c] # "queued" => turn'[c] = ended[c]
    BY <1>1, <1>4, <2>2, PumpTurns
  <2> QED  BY <2>1, <2>3
<1>6. ASSUME NEW s \in Child, Parent[s] = p, kind[s] = "awaited"
      PROVE  /\ stage[s] # "gated"
             /\ stage[s] = "inside" => turn[s] = "idle" \/ aborted[s]
  BY <1>6 DEF Finish, Quiet, Listening, Awaited, ChildrenOf
<1>7. ASSUME NEW s \in Child, kind[s] = "awaited"
      PROVE  OrphanFree(s)'
  <2>1. turn[s] = "idle" => turn'[s] = "idle"
    BY <1>1, <1>5
  <2>2. CASE Parent[s] = p
    BY <1>3, <1>6, <1>7, <2>1, <2>2 DEF OrphanFree
  <2>3. CASE Parent[s] # p
    <3>1. turn[Parent[s]] = "running" => turn'[Parent[s]] = "running"
      BY <1>1, <1>5, <2>3
    <3> QED  BY <1>3, <1>7, <2>1, <3>1 DEF OrphanInv, OrphanFree
  <2> QED  BY <2>2, <2>3
<1> QED  BY <1>3, <1>7 DEF OrphanInv, OrphanFree

LEMMA OrphanStep == FanInv /\ OrphanInv /\ [FanNext]_fanVars => OrphanInv'
<1> SUFFICES ASSUME FanInv, OrphanInv, [FanNext]_fanVars  PROVE OrphanInv'
  OBVIOUS
<1>0. /\ Parent \in [Child -> Session] /\ Root \in Session /\ TypeOK /\ NoIdleCapacity
      /\ \A s \in Child : s \in Session /\ s # Root
      /\ stage \in [Child -> Stage] /\ kind \in [Child -> Kind]
  BY FanOutAssumption DEF Child, FanInv, FanTypeOK, IInv
<1>1. ASSUME \/ UNCHANGED vars
             \/ \E d \in Session : GiveUp(d) \/ Acquire(d) \/ Abort(d) \/ CloseSpan(d),
             \A s \in Child : /\ stage'[s] \in {stage[s], "leaving", "done"}
                              /\ kind'[s] = "awaited" => kind[s] = "awaited"
      PROVE  OrphanInv'
  <2>1. \A c \in Session : RunsOn(c) /\ StaysOver(c)
    BY <1>0, <1>1, TurnsKept
  <2> QED  BY <1>0, <1>1, <2>1, OrphansKept
<1>2. CASE RootTurn
  <2>1. /\ \A c \in Session : RunsOn(c)
        /\ \A s \in Child : StaysOver(s)
    BY <1>0, <1>2 DEF RootTurn, Begin, TypeOK, RunsOn, StaysOver
  <2> QED  BY <1>0, <1>2, <2>1, OrphansKept DEF RootTurn, gateVars
<1>3. CASE Interrupt
  BY <1>0, <1>1, <1>3 DEF Interrupt, gateVars
<1>4. ASSUME NEW c \in Session, Admission(c)  PROVE OrphanInv'
  BY <1>1, <1>4 DEF Admission, gateVars
<1>5. ASSUME NEW c \in Session, Finish(c)  PROVE OrphanInv'
  BY <1>5, OrphansLeft
<1>6. ASSUME NEW s \in Child, NEW d \in BOOLEAN, Spawn(Parent[s], s, d)
      PROVE  OrphanInv'
  BY <1>0, <1>6, OrphansEnter DEF Spawn
<1>7. ASSUME NEW s \in Child, Settle(s)  PROVE OrphanInv'
  BY <1>0, <1>1, <1>7 DEF Settle
<1>8. ASSUME NEW s \in Child, LeaveGate(s)  PROVE OrphanInv'
  <2> DEFINE q == gateQueue[Parent[s]]
             n == Head(q)
  <2>1. CASE q = <<>>
    BY <1>0, <1>1, <1>8, <2>1 DEF LeaveGate
  <2>2. CASE q # <<>>
    <3>1. /\ stage' = [stage EXCEPT ![s] = "done", ![n] = "inside"]
          /\ UNCHANGED kind /\ Enter(Parent[s], n)
      BY <1>8, <2>2 DEF LeaveGate
    <3>2. q \in Seq(Child) /\ Distinct(q) /\ Listed(q) = Gated(Parent[s])
      BY <1>8, GateFacts DEF GateOf
    <3>3. n \in Child /\ Parent[n] = Parent[s]
      BY <2>2, <3>2, TailLemma DEF Gated, ChildrenOf
    <3> HIDE DEF n
    <3>4. \A c \in Child \ {n} : stage'[c] \in {stage[c], "done"} /\ kind'[c] = kind[c]
      BY <1>0, <3>1
    <3> QED  BY <3>1, <3>3, <3>4, OrphansEnter
  <2> QED  BY <2>1, <2>2
<1>9. ASSUME NEW s \in Child, Deliver(s) \/ Timeout(s)  PROVE OrphanInv'
  BY <1>0, <1>1, <1>9 DEF Deliver, Timeout, Dequeue, gateVars
<1>10. ASSUME NEW s \in Child, Cancel(s)  PROVE OrphanInv'
  BY <1>0, <1>1, <1>10 DEF Cancel, Dequeue
<1>11. CASE UNCHANGED fanVars
  BY <1>1, <1>11 DEF fanVars, gateVars
<1> QED
  BY <1>2, <1>3, <1>4, <1>5, <1>6, <1>7, <1>8, <1>9, <1>10, <1>11 DEF FanNext

\* Nobody works or queues for a turn that is over, in every tree
\* (orchestrator-runner.ts runChildOnce, toolset.ts createSemaphore).
THEOREM NoOrphanHolds == FanSpec => []NoOrphan
<1>1. FanInit => OrphanInv
  BY DEF FanInit, OrphanInv, OrphanFree
<1>2. OrphanInv => NoOrphan
  BY DEF OrphanInv, OrphanFree, NoOrphan, Quiet, Listening
<1> QED  BY <1>1, <1>2, OrphanStep, FanInvariant, PTL DEF FanSpec
=============================================================================
