-------------------------- MODULE MobileFeedProofs --------------------------
(***************************************************************************)
(* The event feed of the phone keeps the promise of EventFeed, for rings,  *)
(* buffers and streams of any length and any number of faults and hosts.   *)
(***************************************************************************)
EXTENDS MobileFeed, FiniteSetTheorems, WellFoundedInduction, SequenceTheorems, TLAPS

LEMMA Bounds ==
  /\ Ring \in Nat /\ Buffer \in Nat \ {0} /\ MaxEvents \in Nat \ {0}
  /\ MaxHosts \in Nat \ {0} /\ MaxFaults \in Nat
BY MobileAssumption DEF MobileAssumption

USE Bounds

-----------------------------------------------------------------------------
(* The strengthening *)

\* What the phone knows of its connection: it is ready after the one ready frame
\* of a connection, knows the live host then, and asks nothing before.
LinkInv ==
  /\ ~up => ~booted /\ ~ready /\ down = << >>
  /\ ready => booted /\ known = host
  /\ ~ready => /\ asks = << >> /\ answers = << >> /\ reconcile = "no" /\ ~seeding
               /\ \A i \in DOMAIN down : down[i].type \in {"event", "ready"}
  /\ \A i \in DOMAIN down : down[i].type = "ready" =>
       booted /\ ~ready /\ \A j \in DOMAIN down : down[j].type = "ready" => j = i

\* Nothing on the wire or at the phone is ahead of the host.
BoundInv ==
  /\ known <= host
  /\ known = host => cursor <= emitted /\ held \subseteq 1..emitted
  /\ \A i \in DOMAIN down :
       /\ down[i].type = "event" => down[i].seq <= emitted
       /\ down[i].type \in {"events", "resync", "seed"} => down[i].last <= emitted
  /\ \A i \in DOMAIN answers : answers[i].last <= emitted

\* The snapshot a reconciliation awaits is not behind the phone's cursor, nor
\* behind a snapshot the app still awaits.
NotBehind(frame) ==
  /\ reconcile = "resync" /\ cursor <= frame.last
  /\ \A i \in DOMAIN asks : asks[i].call = "replay"
  /\ \A i \in DOMAIN answers : answers[i].type = "seed" => answers[i].last <= frame.last
  /\ \A i \in DOMAIN down : down[i].type = "seed" => down[i].last <= frame.last

\* At most one such snapshot is asked for, and the app's own is asked first.
ResyncInv ==
  /\ \A i \in DOMAIN asks : asks[i].call = "seed" => i = 1
  /\ \A i \in DOMAIN asks : asks[i].call = "resync" =>
       reconcile = "resync" /\ \A j \in DOMAIN asks : asks[j].call = "resync" => j = i
  /\ \A i \in DOMAIN answers : answers[i].type = "resync" =>
       /\ NotBehind(answers[i])
       /\ \A j \in DOMAIN answers : answers[j].type = "resync" => j = i
       /\ \A j \in DOMAIN down : down[j].type # "resync"
  /\ \A i \in DOMAIN down : down[i].type = "resync" =>
       /\ NotBehind(down[i])
       /\ \A j \in DOMAIN down : down[j].type = "resync" => j = i

MobileInv == MobileTypeOK /\ LinkInv /\ BoundInv /\ ResyncInv

-----------------------------------------------------------------------------
(* Sequences, sets of numbers *)

LEMMA AppendAt ==
  ASSUME NEW S, NEW s \in Seq(S), NEW e \in S
  PROVE  /\ Append(s, e) \in Seq(S) /\ Append(s, e) # << >>
         /\ Len(s) \in Nat /\ DOMAIN s = 1..Len(s)
         /\ DOMAIN Append(s, e) = DOMAIN s \cup {Len(s) + 1}
         /\ \A i \in DOMAIN s : Append(s, e)[i] = s[i] /\ i # Len(s) + 1
         /\ Append(s, e)[Len(s) + 1] = e
<1>1. /\ Append(s, e) \in Seq(S) /\ Append(s, e) # << >> /\ Len(Append(s, e)) = Len(s) + 1
      /\ \A i \in 1..Len(s) : Append(s, e)[i] = s[i]
      /\ Append(s, e)[Len(s) + 1] = e
  BY AppendProperties
<1>2. Len(s) \in Nat /\ DOMAIN s = 1..Len(s) /\ DOMAIN Append(s, e) = 1..(Len(s) + 1)
  BY <1>1, LenProperties
<1> QED  BY <1>1, <1>2

LEMMA TailAt ==
  ASSUME NEW S, NEW s \in Seq(S), s # << >>
  PROVE  /\ Head(s) \in S /\ Head(s) = s[1] /\ 1 \in DOMAIN s
         /\ Tail(s) \in Seq(S)
         /\ \A i \in DOMAIN Tail(s) :
              /\ i \in Nat \ {0} /\ i + 1 \in DOMAIN s /\ Tail(s)[i] = s[i + 1]
<1>1. /\ Head(s) \in S /\ Tail(s) \in Seq(S) /\ Len(Tail(s)) = Len(s) - 1
      /\ \A i \in 1..Len(Tail(s)) : Tail(s)[i] = s[i + 1]
  BY HeadTailProperties
<1>2. Len(s) \in Nat \ {0} /\ DOMAIN s = 1..Len(s) /\ DOMAIN Tail(s) = 1..(Len(s) - 1)
  BY <1>1, LenProperties, EmptySeq
<1>3. Head(s) = s[1]
  BY <1>2
<1> QED  BY <1>1, <1>2, <1>3

LEMMA NoneIn ==
  ASSUME NEW S
  PROVE  << >> \in Seq(S) /\ DOMAIN << >> = {}
<1>1. << >> \in Seq(S) /\ Len(<< >>) = 0
  BY EmptySeq
<1>2. DOMAIN << >> = 1..0
  BY <1>1, LenProperties
<1> QED  BY <1>1, <1>2

\* A set of natural numbers has a least member, because finite sets are
\* well-founded under inclusion.
LEMMA LeastMember ==
  ASSUME NEW S \in SUBSET Nat, NEW n \in S
  PROVE  \E m \in S : \A k \in S : m <= k
<1> DEFINE T == {0..k : k \in {j \in S : j <= n}}
<1>1. IsWellFoundedOn(StrictSubsetOrdering(0..n), SUBSET (0..n))
  <2>1. IsFiniteSet(0..n)
    BY FS_Interval
  <2>2. FiniteSubsetsOf(0..n) = SUBSET (0..n)
    BY <2>1, FS_FiniteSubsetsOfFinite
  <2> QED  BY <2>1, <2>2, FS_StrictSubsetOrderingWellFounded
<1>2. T \subseteq SUBSET (0..n) /\ 0..n \in T
  OBVIOUS
<1> HIDE DEF T
<1>3. PICK x \in T : \A y \in T : <<y, x>> \notin StrictSubsetOrdering(0..n)
  BY <1>1, <1>2, WFMin
<1>4. PICK m \in S : m <= n /\ x = 0..m
  BY <1>3 DEF T
<1>5. ASSUME NEW k \in S, k < m  PROVE FALSE
  <2>1. k <= n /\ 0..k \in T
    BY <1>4, <1>5 DEF T
  <2>2. m \in 0..m /\ m \notin 0..k /\ 0..k \subseteq 0..m
    BY <1>5
  <2>3. 0..k \in SUBSET (0..n) /\ 0..m \in SUBSET (0..n) /\ 0..k # 0..m
    BY <2>2, <1>4
  <2>4. <<0..k, x>> \in StrictSubsetOrdering(0..n)
    BY <2>2, <2>3, <1>4 DEF StrictSubsetOrdering
  <2> QED  BY <2>1, <2>4, <1>3
<1> QED  BY <1>5

\* Min of FiniteSetsExt, of a set that is not empty.
LEMMA MinIn ==
  ASSUME NEW S \in SUBSET Nat, S # {}
  PROVE  Min(S) \in S
<1>1. PICK n : n \in S
  OBVIOUS
<1>2. \E m \in S : \A k \in S : m <= k
  BY <1>1, LeastMember
<1> QED  BY <1>2 DEF Min

LEMMA MaxOf ==
  ASSUME NEW a \in Nat, NEW b \in Nat
  PROVE  Max({a, b}) \in {a, b} /\ a <= Max({a, b}) /\ b <= Max({a, b})
<1>1. \E x \in {a, b} : \A y \in {a, b} : x >= y
  OBVIOUS
<1>2. Max({a, b}) \in {a, b} /\ \A y \in {a, b} : Max({a, b}) >= y
  BY <1>1 DEF Max
<1> QED  BY <1>2

\* The run of events at hand after the cursor ends where the definition says.
LEMMA RunEndIs ==
  ASSUME cursor \in Nat, cursor <= MaxEvents,
         NEW Events \in SUBSET (0..MaxEvents)
  PROVE  /\ RunEnd(Events) \in cursor..MaxEvents
         /\ (cursor + 1)..RunEnd(Events) \subseteq Events
<1> DEFINE S == {e \in cursor..MaxEvents : e + 1 \notin Events}
<1>1. MaxEvents \in S /\ S \in SUBSET Nat
  OBVIOUS
<1> HIDE DEF S
<1>2. PICK e \in S : \A k \in S : e <= k
  BY <1>1, LeastMember
<1>3. e \in cursor..MaxEvents /\ e + 1 \notin Events
  BY <1>2 DEF S
<1>4. ASSUME NEW k \in (cursor + 1)..e  PROVE k \in Events
  <2>1. k - 1 \in cursor..MaxEvents /\ k - 1 < e /\ (k - 1) + 1 = k
    BY <1>3
  <2>2. k - 1 \notin S
    BY <2>1, <1>2, <1>3
  <2> QED  BY <2>1, <2>2 DEF S
<1>5. \E x \in cursor..MaxEvents : (cursor + 1)..x \subseteq Events /\ x + 1 \notin Events
  BY <1>3, <1>4
<1> QED  BY <1>5 DEF RunEnd

-----------------------------------------------------------------------------
(* Types *)

LEMMA FrameForms ==
  /\ \A n \in 1..MaxEvents : [type |-> "event", seq |-> n] \in Frame
  /\ [type |-> "ready"] \in Frame
  /\ \A c \in Call, n \in 0..MaxEvents : [call |-> c, after |-> n] \in Ask
  /\ \A n \in 0..MaxEvents, m \in 0..MaxEvents, t \in BOOLEAN :
       [type |-> "events", after |-> n, last |-> m, truncated |-> t] \in Answer
  /\ \A c \in Call \ {"replay"}, m \in 0..MaxEvents : [type |-> c, last |-> m] \in Answer
  /\ Answer \subseteq Frame
  /\ \A f \in Frame : f.type \in {"event", "ready", "events", "resync", "seed"}
  /\ \A f \in Frame : f.type = "event" => f.seq \in 1..MaxEvents
  /\ \A f \in Frame : f.type \in {"events", "resync", "seed"} => f \in Answer
  /\ \A f \in Answer : f.type \in {"events", "resync", "seed"} /\ f.last \in 0..MaxEvents
  /\ \A f \in Answer : f.type = "events" => f.after \in 0..MaxEvents
  /\ \A a \in Ask : a.call \in Call /\ a.after \in 0..MaxEvents
<1>1. Answer = [type : {"events"}, after : 0..MaxEvents, last : 0..MaxEvents, truncated : BOOLEAN]
                 \cup [type : {"resync", "seed"}, last : 0..MaxEvents]
  BY DEF Answer
<1>2. Frame = Answer \cup [type : {"ready"}] \cup [type : {"event"}, seq : 1..MaxEvents]
  BY DEF Frame
<1> QED  BY <1>1, <1>2 DEF Ask, Call

\* What is held stays a set of events that fits the buffer.
HeldOK(h) == h \subseteq 1..MaxEvents /\ Cardinality(h) <= Buffer

LEMMA HeldFits ==
  ASSUME HeldOK(held)
  PROVE  /\ IsFiniteSet(held) /\ Cardinality(held) \in Nat
         /\ HeldOK({})
         /\ \A h \in SUBSET held : HeldOK(h)
         /\ \A n \in 1..MaxEvents :
              HeldOK({n} \cup (IF Cardinality(held) < Buffer THEN held ELSE held \ {Min(held)}))
<1>1. IsFiniteSet(1..MaxEvents)
  BY FS_Interval
<1>2. IsFiniteSet(held) /\ Cardinality(held) \in Nat
  BY <1>1, FS_Subset, FS_CardinalityType DEF HeldOK
<1>3. ASSUME NEW h \in SUBSET held  PROVE HeldOK(h)
  <2>1. IsFiniteSet(h) /\ Cardinality(h) <= Cardinality(held) /\ Cardinality(h) \in Nat
    BY <1>2, FS_Subset, FS_CardinalityType
  <2> QED  BY <2>1, <1>2 DEF HeldOK
<1>4. ASSUME NEW n \in 1..MaxEvents, NEW h \in SUBSET held, Cardinality(h) < Buffer
      PROVE  HeldOK({n} \cup h)
  <2>1. IsFiniteSet(h) /\ Cardinality(h) \in Nat
    BY <1>2, FS_Subset, FS_CardinalityType
  <2>2. Cardinality(h \cup {n}) \in {Cardinality(h), Cardinality(h) + 1}
    BY <2>1, FS_AddElement
  <2>3. {n} \cup h = h \cup {n} /\ IsFiniteSet(h \cup {n}) /\ Cardinality(h \cup {n}) \in Nat
    BY <2>1, FS_AddElement, FS_CardinalityType
  <2>4. Cardinality({n} \cup h) <= Buffer
    BY <2>1, <2>2, <2>3, <1>4
  <2>5. {n} \cup h \subseteq 1..MaxEvents
    BY DEF HeldOK
  <2> QED  BY <2>4, <2>5 DEF HeldOK
<1>5. ASSUME ~(Cardinality(held) < Buffer)  PROVE Cardinality(held \ {Min(held)}) < Buffer
  <2>1. held # {}
    BY <1>5, FS_EmptySet
  <2>2. Min(held) \in held
    BY <2>1, MinIn DEF HeldOK
  <2>3. Cardinality(held \ {Min(held)}) = Cardinality(held) - 1
    BY <2>2, <1>2, FS_RemoveElement
  <2> QED  BY <2>3, <1>2 DEF HeldOK
<1>6. HeldOK({})
  BY <1>3
<1> QED  BY <1>2, <1>3, <1>4, <1>5, <1>6

\* What is handed over are events.
HandedOver(end) == handed \o [i \in 1..(end - cursor) |-> cursor + i]

LEMMA HandedType ==
  ASSUME handed \in Seq(1..MaxEvents), cursor \in 0..MaxEvents, NEW end \in cursor..MaxEvents
  PROVE  HandedOver(end) \in Seq(1..MaxEvents)
<1> DEFINE more == [i \in 1..(end - cursor) |-> cursor + i]
<1>1. more \in Seq(1..MaxEvents)
  <2>1. end - cursor \in Nat /\ \A i \in 1..(end - cursor) : cursor + i \in 1..MaxEvents
    OBVIOUS
  <2> QED  BY <2>1
<1> QED  BY <1>1, ConcatProperties DEF HandedOver

LEMMA TypesPart ==
  MobileTypeOK <=>
    /\ host \in 1..MaxHosts /\ emitted \in 0..MaxEvents
    /\ asks \in Seq(Ask) /\ answers \in Seq(Answer) /\ down \in Seq(Frame)
    /\ {up, booted, ready, seeding, bootError} \subseteq BOOLEAN
    /\ known \in 0..MaxHosts /\ cursor \in 0..MaxEvents
    /\ HeldOK(held)
    /\ reconcile \in {"no", "replay", "resync"}
    /\ handed \in Seq(1..MaxEvents)
    /\ faults \in 0..MaxFaults
BY DEF MobileTypeOK, HeldOK

\* The replayed and the held events, all of them the host's.
LEMMA ReplayedEvents ==
  ASSUME MobileInv, Received, Head(down).type = "events", reconcile = "replay",
         NEW Events, Events = ((Head(down).after + 1)..Head(down).last) \cup held
  PROVE  /\ ready /\ known = host /\ cursor <= emitted
         /\ Events \subseteq 1..emitted
         /\ RunEnd(Events) \in cursor..emitted
         /\ (cursor + 1)..RunEnd(Events) \subseteq Events
<1>1. /\ down \in Seq(Frame) /\ down # << >>
      /\ emitted \in 0..MaxEvents /\ cursor \in 0..MaxEvents
  BY DEF MobileInv, MobileTypeOK, Received
<1>2. Head(down) \in Frame /\ Head(down) = down[1] /\ 1 \in DOMAIN down
  BY <1>1, TailAt
<1>3. Head(down).after \in 0..MaxEvents /\ Head(down).last \in 0..MaxEvents
  BY <1>2, FrameForms
<1>4. ready /\ known = host /\ cursor <= emitted /\ held \subseteq 1..emitted
  BY DEF MobileInv, LinkInv, BoundInv
<1>5. Head(down).last <= emitted
  BY <1>2 DEF MobileInv, BoundInv
<1>6. Events \subseteq 1..emitted
  <2>1. ((Head(down).after + 1)..Head(down).last) \subseteq 1..emitted
    BY <1>1, <1>3, <1>5
  <2> QED  BY <2>1, <1>4
<1>7. RunEnd(Events) \in cursor..MaxEvents /\ (cursor + 1)..RunEnd(Events) \subseteq Events
  <2>1. Events \in SUBSET (0..MaxEvents) /\ cursor \in Nat /\ cursor <= MaxEvents
    BY <1>1, <1>6
  <2> QED  BY <2>1, RunEndIs
<1>8. RunEnd(Events) <= emitted
  <2> DEFINE end == RunEnd(Events)
  <2>1. end \in cursor..MaxEvents /\ (cursor + 1)..end \subseteq 1..emitted
    BY <1>6, <1>7
  <2> HIDE DEF end
  <2>2. end = cursor \/ end \in (cursor + 1)..end
    BY <1>1, <2>1
  <2>3. end <= emitted
    BY <2>1, <2>2, <1>1, <1>4
  <2> QED  BY <2>3 DEF end
<1>9. RunEnd(Events) \in cursor..emitted
  BY <1>1, <1>7, <1>8
<1> QED  BY <1>4, <1>6, <1>7, <1>9

LEMMA TypeStep ==
  ASSUME MobileInv, MobileNext
  PROVE  MobileTypeOK'
<1> USE DEF hostVars, wireVars, clientVars, appVars
<1>0. /\ host \in 1..MaxHosts /\ emitted \in 0..MaxEvents
      /\ asks \in Seq(Ask) /\ answers \in Seq(Answer) /\ down \in Seq(Frame)
      /\ {up, booted, ready, seeding, bootError} \subseteq BOOLEAN
      /\ known \in 0..MaxHosts /\ cursor \in 0..MaxEvents
      /\ HeldOK(held)
      /\ reconcile \in {"no", "replay", "resync"}
      /\ handed \in Seq(1..MaxEvents)
      /\ faults \in 0..MaxFaults
  BY DEF MobileInv, MobileTypeOK, HeldOK
<1>h. HeldOK(held') => held' \subseteq 1..MaxEvents /\ Cardinality(held') <= Buffer
  BY DEF HeldOK
<1>e. /\ << >> \in Seq(1..MaxEvents) /\ << >> \in Seq(Ask)
      /\ << >> \in Seq(Answer) /\ << >> \in Seq(Frame)
  BY NoneIn
<1>a. asks # << >> => Head(asks) \in Ask /\ Tail(asks) \in Seq(Ask)
  BY <1>0, TailAt
<1>b. answers # << >> => Head(answers) \in Answer /\ Tail(answers) \in Seq(Answer)
  BY <1>0, TailAt
<1>c. down # << >> => Head(down) \in Frame /\ Tail(down) \in Seq(Frame)
  BY <1>0, TailAt
<1>f. HeldOK({}) /\ \A h \in SUBSET held : HeldOK(h)
  BY <1>0, HeldFits
<1>g. \A c \in Call, n \in 0..MaxEvents : AskFor(c, n) => asks' \in Seq(Ask)
  BY <1>0, FrameForms, AppendAt DEF AskFor
<1>1. CASE Emit
  <2>1. down' \in Seq(Frame)
    BY <1>0, <1>1, FrameForms, AppendAt DEF Emit
  <2> QED  BY <1>0, <1>1, <1>h, <2>1 DEF Emit, MobileTypeOK
<1>2. CASE HostReplays
  <2>1. answers' \in Seq(Answer) /\ asks' \in Seq(Ask)
    <3>1. Head(asks).after \in 0..MaxEvents
      BY <1>2, <1>a, FrameForms DEF HostReplays
    <3>2. [type |-> "events", after |-> Head(asks).after, last |-> emitted,
           truncated |-> Head(asks).after + 1 < Oldest] \in Answer
      <4> DEFINE cut == Head(asks).after + 1 < Oldest
      <4>1. cut \in BOOLEAN
        OBVIOUS
      <4> HIDE DEF cut
      <4>2. [type |-> "events", after |-> Head(asks).after, last |-> emitted,
             truncated |-> cut] \in Answer
        BY <1>0, <3>1, <4>1, FrameForms
      <4> QED  BY <4>2 DEF cut
    <3> QED  BY <1>0, <1>2, <1>a, <3>2, AppendAt DEF HostReplays
  <2> QED  BY <1>0, <1>2, <1>h, <2>1 DEF HostReplays, MobileTypeOK
<1>3. CASE HostAnswers
  <2>1. answers' \in Seq(Answer) /\ asks' \in Seq(Ask)
    <3>1. Head(asks).call \in Call \ {"replay"}
      BY <1>3, <1>a, FrameForms DEF HostAnswers
    <3>2. [type |-> Head(asks).call, last |-> emitted] \in Answer
      BY <1>0, <3>1, FrameForms
    <3> QED  BY <1>0, <1>3, <1>a, <3>2, AppendAt DEF HostAnswers
  <2> QED  BY <1>0, <1>3, <1>h, <2>1 DEF HostAnswers, MobileTypeOK
<1>4. CASE RelayAnswers
  <2>1. answers' \in Seq(Answer) /\ down' \in Seq(Frame)
    BY <1>0, <1>4, <1>b, FrameForms, AppendAt DEF RelayAnswers
  <2> QED  BY <1>0, <1>4, <1>h, <2>1 DEF RelayAnswers, MobileTypeOK
<1>5. CASE RelayReady
  <2>1. down' \in Seq(Frame)
    BY <1>0, <1>5, FrameForms, AppendAt DEF RelayReady
  <2> QED  BY <1>0, <1>5, <1>h, <2>1 DEF RelayReady, MobileTypeOK
<1>6. CASE HostReplaced
  BY <1>0, <1>6, <1>h DEF HostReplaced, MobileTypeOK
<1>7. CASE LinkUp
  BY <1>0, <1>7, <1>h DEF LinkUp, MobileTypeOK
<1>s. SeedRejected => seeding' \in BOOLEAN /\ bootError' \in BOOLEAN
  BY Zenon DEF SeedRejected
<1>8. ASSUME NEW b \in BOOLEAN, ClientLeaves(b)
      PROVE  /\ ready' \in BOOLEAN /\ reconcile' = "no" /\ known' \in 0..MaxHosts
             /\ cursor' \in 0..MaxEvents /\ HeldOK(held') /\ handed' \in Seq(1..MaxEvents)
  <2>1. CASE known' = NoHost /\ cursor' = 0 /\ held' = {} /\ handed' = << >>
    <3>1. handed' \in Seq(1..MaxEvents)
      BY <1>e, <2>1, Zenon
    <3>2. HeldOK(held')
      BY <1>f, <2>1
    <3>3. known' \in 0..MaxHosts /\ cursor' \in 0..MaxEvents
      BY <2>1 DEF NoHost
    <3> QED  BY <1>8, <3>1, <3>2, <3>3 DEF ClientLeaves
  <2>2. CASE UNCHANGED <<known, cursor, held, handed>>
    BY <1>0, <1>8, <2>2 DEF ClientLeaves
  <2> QED  BY <1>8, <2>1, <2>2 DEF ClientLeaves
<1>w. WireGone => /\ {up', booted'} \subseteq BOOLEAN
                  /\ asks' \in Seq(Ask) /\ answers' \in Seq(Answer) /\ down' \in Seq(Frame)
  BY <1>e DEF WireGone
<1>9. CASE LinkLost
  <2>1. (reconcile # "no") \in BOOLEAN /\ ClientLeaves(reconcile # "no")
    BY <1>9 DEF LinkLost
  <2>2. /\ ready' \in BOOLEAN /\ reconcile' = "no" /\ known' \in 0..MaxHosts
        /\ cursor' \in 0..MaxEvents /\ HeldOK(held') /\ handed' \in Seq(1..MaxEvents)
    BY <2>1, <1>8
  <2> QED  BY <1>0, <1>9, <1>h, <1>s, <1>w, <2>2 DEF LinkLost, MobileTypeOK
<1>10. CASE CallFails
  <2>0. /\ seeding' \in BOOLEAN /\ bootError' \in BOOLEAN
        /\ faults' \in 0..MaxFaults /\ UNCHANGED hostVars
    BY <1>0, <1>10, <1>s DEF CallFails
  <2>1. CASE WireGone /\ ClientLeaves(TRUE)
    BY <1>0, <1>h, <1>w, <1>8, <2>0, <2>1 DEF MobileTypeOK
  <2>2. CASE UNCHANGED <<wireVars, clientVars>>
    BY <1>0, <1>h, <2>0, <2>2 DEF MobileTypeOK
  <2> QED  BY <1>10, <2>1, <2>2 DEF CallFails
<1>11. CASE ReceiveReady
  <2>1. HeldOK(held')
    BY <1>0, <1>11, <1>f DEF ReceiveReady
  <2>2. down' \in Seq(Frame) /\ asks' \in Seq(Ask)
    BY <1>0, <1>11, <1>c, <1>g DEF ReceiveReady, Received, Call
  <2>3. cursor' \in 0..MaxEvents /\ handed' \in Seq(1..MaxEvents)
    <3>1. CASE UNCHANGED <<cursor, held, handed>>
      BY <1>0, <3>1
    <3>2. CASE cursor' = 0 /\ held' = {} /\ handed' = << >>
      <4>1. handed' \in Seq(1..MaxEvents)
        BY <1>e, <3>2, Zenon
      <4> QED  BY <3>2, <4>1
    <3> QED  BY <1>11, <3>1, <3>2 DEF ReceiveReady
  <2>4. /\ ready' = TRUE /\ known' = host /\ seeding' = TRUE
        /\ UNCHANGED <<hostVars, answers, up, booted, reconcile, bootError, faults>>
    BY <1>11 DEF ReceiveReady
  <2> QED  BY <1>0, <1>h, <2>1, <2>2, <2>3, <2>4 DEF MobileTypeOK
<1>12. CASE ReceiveStale
  BY <1>0, <1>12, <1>h, <1>s, <1>w, <1>8 DEF ReceiveStale, MobileTypeOK
<1>13. CASE ReceiveNext
  <2>1. down' \in Seq(Frame) /\ cursor + 1 \in cursor..MaxEvents
    BY <1>0, <1>13, <1>c, FrameForms DEF ReceiveNext, Received
  <2>2. handed' \in Seq(1..MaxEvents) /\ cursor' = cursor + 1
    BY <1>0, <1>13, <2>1, HandedType DEF ReceiveNext, Deliver, HandedOver
  <2> QED  BY <1>0, <1>13, <1>h, <2>1, <2>2 DEF ReceiveNext, Deliver, MobileTypeOK
<1>14. CASE ReceiveAhead
  <2>1. HeldOK(held')
    BY <1>0, <1>14, <1>c, HeldFits, FrameForms DEF ReceiveAhead, Received
  <2>2. down' \in Seq(Frame) /\ asks' \in Seq(Ask) /\ reconcile' \in {"no", "replay", "resync"}
    BY <1>0, <1>14, <1>c, <1>g DEF ReceiveAhead, Received, Call
  <2> QED  BY <1>0, <1>14, <1>h, <2>1, <2>2 DEF ReceiveAhead, MobileTypeOK
<1>15. CASE ReceiveEvents
  <2>1. down' \in Seq(Frame) /\ asks' \in Seq(Ask) /\ reconcile' \in {"no", "replay", "resync"}
    BY <1>0, <1>15, <1>c, <1>g DEF ReceiveEvents, Received, Call
  <2>2. /\ HeldOK(held') /\ cursor' \in 0..MaxEvents /\ handed' \in Seq(1..MaxEvents)
        /\ UNCHANGED appVars
    <3> DEFINE Events == ((Head(down).after + 1)..Head(down).last) \cup held
               end == RunEnd(Events)
    <3>1. end \in cursor..emitted
      BY <1>15, ReplayedEvents DEF ReceiveEvents
    <3>2. \/ UNCHANGED <<cursor, held, handed, appVars>>
          \/ Deliver(end) /\ held' = {}
      BY <1>15 DEF ReceiveEvents
    <3> HIDE DEF end
    <3>3. end \in cursor..MaxEvents
      BY <1>0, <3>1
    <3>4. HandedOver(end) \in Seq(1..MaxEvents)
      BY <1>0, <3>3, HandedType
    <3>5. CASE UNCHANGED <<cursor, held, handed, appVars>>
      BY <1>0, <3>5
    <3>6. CASE Deliver(end) /\ held' = {}
      BY <1>0, <1>f, <3>3, <3>4, <3>6 DEF Deliver, HandedOver
    <3> QED  BY <3>2, <3>5, <3>6
  <2> QED  BY <1>0, <1>15, <1>h, <2>1, <2>2 DEF ReceiveEvents, MobileTypeOK
<1>16. CASE ReceiveResync
  <2>1. Head(down).last \in 0..MaxEvents
    BY <1>16, <1>c, FrameForms DEF ReceiveResync, Received
  <2>2. down' \in Seq(Frame) /\ asks' \in Seq(Ask) /\ reconcile' \in {"no", "replay", "resync"}
    BY <1>0, <1>16, <1>c, <1>g, <2>1 DEF ReceiveResync, Received, Call
  <2>3. HeldOK(held')
    BY <1>16, <1>f DEF ReceiveResync
  <2> QED  BY <1>0, <1>16, <1>h, <1>e, <2>1, <2>2, <2>3 DEF ReceiveResync, MobileTypeOK
<1>17. CASE ReceiveSeed
  <2>1. Head(down).last \in 0..MaxEvents
    BY <1>17, <1>c, FrameForms DEF ReceiveSeed, Received
  <2>2. Max({cursor, Head(down).last}) \in 0..MaxEvents
    <3>1. cursor \in Nat /\ Head(down).last \in Nat
      BY <1>0, <2>1
    <3> QED  BY <3>1, <1>0, <2>1, MaxOf
  <2>3. down' \in Seq(Frame) /\ HeldOK(held')
    BY <1>0, <1>17, <1>c, <1>f DEF ReceiveSeed, Received
  <2>4. /\ cursor' \in 0..MaxEvents /\ handed' \in Seq(1..MaxEvents)
        /\ {seeding', bootError'} \subseteq BOOLEAN
    BY <1>0, <1>17, <1>e, <2>2 DEF ReceiveSeed
  <2> QED  BY <1>0, <1>17, <1>h, <2>3, <2>4 DEF ReceiveSeed, MobileTypeOK
<1> QED
  BY <1>1, <1>2, <1>3, <1>4, <1>5, <1>6, <1>7, <1>9, <1>10, <1>11, <1>12, <1>13, <1>14, <1>15,
     <1>16, <1>17
  DEF MobileNext, HostStep, Receive

-----------------------------------------------------------------------------
(* The connection, the bounds, the snapshots *)

\* What a step that only takes the first frame away, or adds one at the end,
\* leaves on the wire.
LEMMA Taken ==
  ASSUME MobileTypeOK, down # << >>
  PROVE  /\ Head(down) \in Frame /\ Head(down) = down[1] /\ 1 \in DOMAIN down
         /\ \A i \in DOMAIN Tail(down) :
              i \in Nat \ {0} /\ i + 1 \in DOMAIN down /\ Tail(down)[i] = down[i + 1] /\ i + 1 # 1
<1>1. down \in Seq(Frame)
  BY DEF MobileTypeOK
<1> QED  BY <1>1, TailAt

LEMMA Asked ==
  ASSUME MobileTypeOK, NEW c \in Call, NEW n \in 0..MaxEvents, AskFor(c, n)
  PROVE  \A i \in DOMAIN asks' :
           \/ i \in DOMAIN asks /\ asks'[i] = asks[i]
           \/ i = Len(asks) + 1 /\ asks'[i] = [call |-> c, after |-> n] /\ i \notin DOMAIN asks
<1>1. asks \in Seq(Ask) /\ [call |-> c, after |-> n] \in Ask
  BY FrameForms DEF MobileTypeOK
<1> QED  BY <1>1, AppendAt DEF AskFor

LEMMA Sent ==
  ASSUME MobileTypeOK, NEW f \in Frame, down' = Append(down, f)
  PROVE  \A i \in DOMAIN down' :
           \/ i \in DOMAIN down /\ down'[i] = down[i]
           \/ i = Len(down) + 1 /\ down'[i] = f /\ i \notin DOMAIN down
<1>1. down \in Seq(Frame)
  BY DEF MobileTypeOK
<1> QED  BY <1>1, AppendAt

LEMMA Answered ==
  ASSUME MobileTypeOK, NEW f \in Answer, answers' = Append(answers, f)
  PROVE  \A i \in DOMAIN answers' :
           \/ i \in DOMAIN answers /\ answers'[i] = answers[i]
           \/ i = Len(answers) + 1 /\ answers'[i] = f /\ i \notin DOMAIN answers
<1>1. answers \in Seq(Answer)
  BY DEF MobileTypeOK
<1> QED  BY <1>1, AppendAt

LEMMA LinkStep ==
  ASSUME MobileInv, MobileNext
  PROVE  LinkInv'
<1> USE DEF hostVars, wireVars, clientVars, appVars, LinkInv
<1>0. MobileTypeOK /\ LinkInv
  BY DEF MobileInv
<1>b. /\ up \in BOOLEAN /\ booted \in BOOLEAN /\ ready \in BOOLEAN
      /\ known \in Nat /\ host \in Nat \ {0}
  BY <1>0 DEF MobileTypeOK
<1>t. Received => \A i \in DOMAIN down' :
                    i + 1 \in DOMAIN down /\ down'[i] = down[i + 1] /\ i + 1 # 1 /\ i \in Nat
  BY <1>0, Taken DEF Received
<1>h. Received => Head(down) = down[1] /\ 1 \in DOMAIN down
  BY <1>0, Taken DEF Received
<1>e. DOMAIN << >> = {}
  BY NoneIn
<1>1. CASE Emit
  <2>1. CASE up
    <3>1. emitted + 1 \in 1..MaxEvents /\ emitted' = emitted + 1
      BY <1>0, <1>1 DEF Emit, MobileTypeOK
    <3>2. down' = Append(down, [type |-> "event", seq |-> emitted'])
      BY <1>1, <2>1 DEF Emit
    <3>3. \A i \in DOMAIN down' :
            \/ i \in DOMAIN down /\ down'[i] = down[i]
            \/ down'[i].type = "event"
      BY <1>0, <3>1, <3>2, FrameForms, Sent
    <3> QED  BY <1>0, <1>1, <2>1, <3>3 DEF Emit
  <2>2. CASE ~up
    BY <1>0, <1>1, <2>2 DEF Emit
  <2> QED  BY <2>1, <2>2
<1>2. CASE HostReplays
  BY <1>0, <1>2 DEF HostReplays
<1>3. CASE HostAnswers
  BY <1>0, <1>3 DEF HostAnswers
<1>4. CASE RelayAnswers
  <2>1. Head(answers) \in Answer
    BY <1>0, <1>4, TailAt DEF RelayAnswers, MobileTypeOK
  <2>2. \A i \in DOMAIN down' :
          \/ i \in DOMAIN down /\ down'[i] = down[i]
          \/ down'[i].type # "ready"
    BY <1>0, <1>4, <2>1, FrameForms, Sent DEF RelayAnswers
  <2>3. ready /\ up
    BY <1>0, <1>b, <1>4 DEF RelayAnswers
  <2> QED  BY <1>0, <1>4, <2>2, <2>3 DEF RelayAnswers
<1>5. CASE RelayReady
  <2>1. \A i \in DOMAIN down' :
          \/ i \in DOMAIN down /\ down'[i] = down[i]
          \/ i = Len(down) + 1 /\ down'[i].type = "ready"
    BY <1>0, <1>5, FrameForms, Sent DEF RelayReady
  <2>2. \A i \in DOMAIN down : down[i].type = "event"
    BY <1>0, <1>b, <1>5 DEF RelayReady
  <2>3. ~ready
    BY <1>0, <1>b, <1>5 DEF RelayReady
  <2> QED  BY <1>0, <1>5, <2>1, <2>2, <2>3 DEF RelayReady
<1>6. CASE HostReplaced
  BY <1>0, <1>6 DEF HostReplaced
<1>7. CASE LinkUp
  BY <1>0, <1>7 DEF LinkUp
<1>8. ASSUME WireGone, ready' = FALSE, reconcile' = "no", SeedRejected  PROVE LinkInv'
  BY <1>8, <1>e DEF WireGone, SeedRejected
<1>9. CASE LinkLost
  BY <1>8, <1>9 DEF LinkLost, ClientLeaves
<1>10. CASE CallFails
  <2>1. CASE reconcile # "no" /\ WireGone /\ ClientLeaves(TRUE)
    BY <1>8, <1>10, <2>1 DEF CallFails, ClientLeaves
  <2>2. CASE seeding /\ UNCHANGED <<wireVars, clientVars>>
    BY <1>0, <1>10, <2>2 DEF CallFails, SeedRejected
  <2> QED  BY <1>10, <2>1, <2>2 DEF CallFails
<1>11. CASE ReceiveReady
  <2>1. booted /\ \A i \in DOMAIN down : down[i].type = "ready" => i = 1
    BY <1>0, <1>11, <1>h DEF ReceiveReady
  <2>2. up
    BY <1>11 DEF ReceiveReady, Received
  <2>3. \A i \in DOMAIN down' : down'[i].type # "ready"
    BY <1>11, <1>t, <2>1 DEF ReceiveReady
  <2> QED  BY <1>0, <1>11, <2>1, <2>2, <2>3 DEF ReceiveReady
<1>12. CASE ReceiveStale
  BY <1>8, <1>12 DEF ReceiveStale, ClientLeaves
<1>13. ASSUME Received, UNCHANGED <<host, booted, up, ready, known>>,
              ready \/ UNCHANGED <<asks, answers, reconcile, seeding>>
       PROVE  LinkInv'
  <2>1. \A i \in DOMAIN down' : down'[i].type = "ready" =>
          booted' /\ ~ready' /\ \A j \in DOMAIN down' : down'[j].type = "ready" => j = i
    BY <1>0, <1>t, <1>13
  <2>2. ~ready' => \A i \in DOMAIN down' : down'[i].type \in {"event", "ready"}
    BY <1>0, <1>t, <1>13
  <2>3. up'
    BY <1>13 DEF Received
  <2> QED  BY <1>0, <1>13, <2>1, <2>2, <2>3
<1>14. CASE ReceiveNext
  BY <1>13, <1>14 DEF ReceiveNext, Deliver
<1>15. CASE ReceiveAhead
  <2>1. ready \/ UNCHANGED <<asks, answers, reconcile, seeding>>
    BY <1>15 DEF ReceiveAhead
  <2> QED  BY <1>13, <1>15, <2>1 DEF ReceiveAhead
<1>16. ASSUME Received, Head(down).type \in {"events", "resync", "seed"}  PROVE ready
  BY <1>0, <1>h, <1>16
<1>17. CASE ReceiveEvents
  BY <1>13, <1>16, <1>17 DEF ReceiveEvents
<1>18. CASE ReceiveResync
  BY <1>13, <1>16, <1>18 DEF ReceiveResync
<1>19. CASE ReceiveSeed
  BY <1>13, <1>16, <1>19 DEF ReceiveSeed
<1> QED
  BY <1>1, <1>2, <1>3, <1>4, <1>5, <1>6, <1>7, <1>9, <1>10, <1>11, <1>12, <1>14, <1>15,
     <1>17, <1>18, <1>19
  DEF MobileNext, HostStep, Receive

LEMMA BoundStep ==
  ASSUME MobileInv, MobileNext
  PROVE  BoundInv'
<1> USE DEF hostVars, wireVars, clientVars, appVars, BoundInv
<1>0. MobileTypeOK /\ BoundInv /\ LinkInv
  BY DEF MobileInv
<1>b. /\ host \in Nat \ {0} /\ known \in Nat /\ emitted \in 0..MaxEvents
      /\ cursor \in 0..MaxEvents /\ held \subseteq 1..MaxEvents
      /\ down \in Seq(Frame) /\ answers \in Seq(Answer)
  BY <1>0 DEF MobileTypeOK
<1>t. Received => \A i \in DOMAIN down' : i + 1 \in DOMAIN down /\ down'[i] = down[i + 1]
  BY <1>0, Taken DEF Received
<1>h. Received => Head(down) \in Frame /\ Head(down) = down[1] /\ 1 \in DOMAIN down
  BY <1>0, Taken DEF Received
<1>e. DOMAIN << >> = {}
  BY NoneIn
<1>r. ready => known = host
  BY <1>0 DEF LinkInv
<1>1. CASE Emit
  <2>1. emitted' = emitted + 1 /\ emitted + 1 \in 1..MaxEvents
    BY <1>b, <1>1 DEF Emit
  <2>2. /\ known' = host' => cursor' <= emitted' /\ held' \subseteq 1..emitted'
        /\ known' <= host'
        /\ \A i \in DOMAIN answers' : answers'[i].last <= emitted'
    <3>1. \A i \in DOMAIN answers : answers[i].last \in Nat
      BY <1>b, LenProperties, FrameForms
    <3> QED  BY <1>0, <1>b, <1>1, <2>1, <3>1 DEF Emit
  <2>3. \A i \in DOMAIN down' :
          \/ i \in DOMAIN down /\ down'[i] = down[i]
          \/ down'[i].type = "event" /\ down'[i].seq = emitted'
    <3>1. CASE up
      <4>1. down' = Append(down, [type |-> "event", seq |-> emitted'])
        BY <1>1, <3>1 DEF Emit
      <4> QED  BY <1>0, <2>1, <4>1, FrameForms, Sent
    <3>2. CASE ~up
      BY <1>1, <3>2 DEF Emit
    <3> QED  BY <3>1, <3>2
  <2>4. \A i \in DOMAIN down :
          /\ down[i].type = "event" => down[i].seq \in Nat
          /\ down[i].type \in {"events", "resync", "seed"} => down[i].last \in Nat
    <3>1. \A i \in DOMAIN down : down[i] \in Frame
      BY <1>b, LenProperties
    <3> QED  BY <3>1, FrameForms
  <2>5. \A i \in DOMAIN down' :
          /\ down'[i].type = "event" => down'[i].seq <= emitted'
          /\ down'[i].type \in {"events", "resync", "seed"} => down'[i].last <= emitted'
    BY <1>0, <1>b, <2>1, <2>3, <2>4
  <2> QED  BY <2>2, <2>5
<1>2. ASSUME NEW f \in Answer, f.last = emitted, answers' = Append(answers, f),
             UNCHANGED <<hostVars, down, clientVars>>
      PROVE  BoundInv'
  <2>1. \A i \in DOMAIN answers' : answers'[i].last <= emitted'
    BY <1>0, <1>b, <1>2, Answered
  <2> QED  BY <1>0, <1>2, <2>1
<1>3. CASE HostReplays
  <2> DEFINE f == [type |-> "events", after |-> Head(asks).after, last |-> emitted,
                   truncated |-> Head(asks).after + 1 < Oldest]
  <2>1. f \in Answer
    <3> DEFINE cut == Head(asks).after + 1 < Oldest
    <3>1. cut \in BOOLEAN /\ Head(asks).after \in 0..MaxEvents
      BY <1>0, <1>3, TailAt, FrameForms DEF HostReplays, MobileTypeOK
    <3> HIDE DEF cut
    <3>2. [type |-> "events", after |-> Head(asks).after, last |-> emitted, truncated |-> cut]
             \in Answer
      BY <1>b, <3>1, FrameForms
    <3> QED  BY <3>2 DEF cut
  <2>2. f.last = emitted
    OBVIOUS
  <2>3. answers' = Append(answers, f) /\ UNCHANGED <<hostVars, down, clientVars>>
    BY <1>3 DEF HostReplays
  <2> HIDE DEF f
  <2> QED  BY <1>2, <2>1, <2>2, <2>3
<1>4. CASE HostAnswers
  <2> DEFINE f == [type |-> Head(asks).call, last |-> emitted]
  <2>1. f \in Answer
    <3>1. Head(asks).call \in Call \ {"replay"}
      BY <1>0, <1>4, TailAt, FrameForms DEF HostAnswers, MobileTypeOK
    <3> QED  BY <1>b, <3>1, FrameForms
  <2>2. f.last = emitted
    OBVIOUS
  <2>3. answers' = Append(answers, f) /\ UNCHANGED <<hostVars, down, clientVars>>
    BY <1>4 DEF HostAnswers
  <2> HIDE DEF f
  <2> QED  BY <1>2, <2>1, <2>2, <2>3
<1>5. CASE RelayAnswers
  <2>1. /\ Head(answers) \in Frame /\ Head(answers) = answers[1] /\ 1 \in DOMAIN answers
        /\ Head(answers).type \in {"events", "resync", "seed"}
        /\ \A i \in DOMAIN answers' : i + 1 \in DOMAIN answers /\ answers'[i] = answers[i + 1]
    BY <1>b, <1>5, TailAt, FrameForms DEF RelayAnswers
  <2>2. \A i \in DOMAIN down' :
          (i \in DOMAIN down /\ down'[i] = down[i]) \/ down'[i] = answers[1]
    BY <1>0, <1>5, <2>1, Sent DEF RelayAnswers
  <2> QED  BY <1>0, <1>5, <2>1, <2>2 DEF RelayAnswers
<1>6. CASE RelayReady
  <2>1. \A i \in DOMAIN down' :
          (i \in DOMAIN down /\ down'[i] = down[i]) \/ down'[i].type = "ready"
    BY <1>0, <1>6, FrameForms, Sent DEF RelayReady
  <2> QED  BY <1>0, <1>6, <2>1 DEF RelayReady
<1>7. CASE HostReplaced
  <2>1. known' # host' /\ known' <= host' /\ DOMAIN down' = {} /\ DOMAIN answers' = {}
    BY <1>0, <1>b, <1>7, <1>e DEF HostReplaced, LinkInv
  <2> QED  BY <2>1
<1>8. CASE LinkUp
  BY <1>0, <1>8 DEF LinkUp
<1>9. ASSUME WireGone, NEW b \in BOOLEAN, ClientLeaves(b), UNCHANGED hostVars
      PROVE  BoundInv'
  <2>1. DOMAIN down' = {} /\ DOMAIN answers' = {}
    BY <1>9, <1>e DEF WireGone
  <2>2. CASE known' = NoHost
    BY <1>b, <1>9, <2>1, <2>2 DEF NoHost
  <2>3. CASE UNCHANGED <<known, cursor, held, handed>>
    BY <1>0, <1>9, <2>1, <2>3
  <2> QED  BY <1>9, <2>2, <2>3 DEF ClientLeaves
<1>10. CASE LinkLost
  <2>1. (reconcile # "no") \in BOOLEAN
    OBVIOUS
  <2> QED  BY <1>9, <1>10, <2>1 DEF LinkLost
<1>11. CASE CallFails
  <2>1. CASE WireGone /\ ClientLeaves(TRUE)
    BY <1>9, <1>11, <2>1 DEF CallFails
  <2>2. CASE UNCHANGED <<wireVars, clientVars>>
    BY <1>0, <1>11, <2>2 DEF CallFails
  <2> QED  BY <1>11, <2>1, <2>2 DEF CallFails
<1>12. CASE ReceiveStale
  BY <1>9, <1>12 DEF ReceiveStale
<1>13. ASSUME Received, UNCHANGED <<host, emitted, answers>>, known' = host,
              cursor' <= emitted, held' \subseteq 1..emitted
       PROVE  BoundInv'
  BY <1>0, <1>b, <1>t, <1>13
<1>14. CASE ReceiveReady
  <2>1. CASE known = host /\ UNCHANGED <<cursor, held, handed>>
    BY <1>0, <1>13, <1>14, <2>1 DEF ReceiveReady
  <2>2. CASE cursor' = 0 /\ held' = {}
    <3>1. cursor' <= emitted /\ held' \subseteq 1..emitted
      BY <1>b, <2>2
    <3> QED  BY <1>13, <1>14, <3>1 DEF ReceiveReady
  <2> QED  BY <1>14, <2>1, <2>2 DEF ReceiveReady
<1>15. CASE ReceiveNext
  <2>1. cursor + 1 <= emitted
    BY <1>0, <1>h, <1>15 DEF ReceiveNext
  <2> QED  BY <1>0, <1>13, <1>15, <2>1 DEF ReceiveNext, Deliver
<1>16. CASE ReceiveAhead
  <2>1. Head(down).seq \in 1..emitted
    BY <1>0, <1>b, <1>h, <1>16, FrameForms DEF ReceiveAhead
  <2>2. held' \subseteq held \cup {Head(down).seq}
    BY <1>16 DEF ReceiveAhead
  <2>3. /\ known = host /\ known' = host /\ Received
        /\ UNCHANGED <<host, emitted, answers, cursor>>
    BY <1>16 DEF ReceiveAhead
  <2> QED  BY <1>0, <1>13, <2>1, <2>2, <2>3
<1>17. CASE ReceiveEvents
  <2> DEFINE Events == ((Head(down).after + 1)..Head(down).last) \cup held
             end == RunEnd(Events)
  <2>1. end \in cursor..emitted /\ known = host /\ cursor <= emitted
    BY <1>17, ReplayedEvents DEF ReceiveEvents
  <2>2. \/ UNCHANGED <<cursor, held, handed, appVars>>
        \/ Deliver(end) /\ held' = {}
    BY <1>17 DEF ReceiveEvents
  <2> HIDE DEF end
  <2>3. cursor' <= emitted /\ held' \subseteq 1..emitted
    <3>1. CASE UNCHANGED <<cursor, held, handed, appVars>>
      BY <1>0, <2>1, <3>1
    <3>2. CASE Deliver(end) /\ held' = {}
      <4>1. end <= emitted /\ cursor' = end
        BY <1>b, <2>1, <3>2 DEF Deliver
      <4> QED  BY <3>2, <4>1
    <3> QED  BY <2>2, <3>1, <3>2
  <2> QED  BY <1>13, <1>17, <2>1, <2>3 DEF ReceiveEvents
<1>s. ASSUME Received, Head(down).type \in {"resync", "seed"}
      PROVE  /\ ready /\ known = host
             /\ Head(down).last \in Nat /\ Head(down).last <= emitted
  <2>1. ready
    BY <1>0, <1>h, <1>s DEF LinkInv
  <2> QED  BY <1>0, <1>h, <1>r, <1>s, <2>1, FrameForms
<1>18. CASE ReceiveResync
  <2>1. known = host /\ Head(down).last <= emitted
    BY <1>s, <1>18 DEF ReceiveResync
  <2> QED  BY <1>0, <1>13, <1>18, <2>1 DEF ReceiveResync
<1>19. CASE ReceiveSeed
  <2>1. known = host /\ Head(down).last \in Nat /\ Head(down).last <= emitted
    BY <1>s, <1>19 DEF ReceiveSeed
  <2>2. Max({cursor, Head(down).last}) <= emitted
    <3>1. cursor \in Nat
      BY <1>b
    <3> QED  BY <1>0, <2>1, <3>1, MaxOf
  <2>3. cursor' <= emitted /\ held' \subseteq 1..emitted
    BY <1>0, <1>19, <2>1, <2>2 DEF ReceiveSeed
  <2> QED  BY <1>13, <1>19, <2>1, <2>3 DEF ReceiveSeed
<1> QED
  BY <1>1, <1>3, <1>4, <1>5, <1>6, <1>7, <1>8, <1>10, <1>11, <1>12, <1>14, <1>15, <1>16,
     <1>17, <1>18, <1>19
  DEF MobileNext, HostStep, Receive

\* Nothing is on its way that a reconciliation would take for its snapshot.
NoResync ==
  /\ \A i \in DOMAIN asks : asks[i].call # "resync"
  /\ \A i \in DOMAIN answers : answers[i].type # "resync"
  /\ \A i \in DOMAIN down : down[i].type # "resync"

LEMMA ResyncStep ==
  ASSUME MobileInv, MobileNext
  PROVE  ResyncInv'
<1> USE DEF hostVars, wireVars, clientVars, appVars
<1>0. MobileTypeOK /\ BoundInv /\ LinkInv /\ ResyncInv
  BY DEF MobileInv
<1>b. /\ host \in Nat \ {0} /\ known \in Nat /\ emitted \in 0..MaxEvents
      /\ cursor \in 0..MaxEvents /\ reconcile \in {"no", "replay", "resync"}
      /\ down \in Seq(Frame) /\ answers \in Seq(Answer) /\ asks \in Seq(Ask)
  BY <1>0 DEF MobileTypeOK
<1>t. Received => \A i \in DOMAIN down' :
                    i + 1 \in DOMAIN down /\ down'[i] = down[i + 1] /\ i + 1 # 1 /\ i \in Nat
  BY <1>0, Taken DEF Received
<1>h. Received => Head(down) \in Frame /\ Head(down) = down[1] /\ 1 \in DOMAIN down
  BY <1>0, Taken DEF Received
<1>a. asks # << >> =>
        /\ Head(asks) \in Ask /\ Head(asks) = asks[1] /\ 1 \in DOMAIN asks
        /\ \A i \in DOMAIN Tail(asks) :
             /\ i \in Nat \ {0} /\ i + 1 # 1
             /\ i + 1 \in DOMAIN asks /\ Tail(asks)[i] = asks[i + 1]
  BY <1>b, TailAt
<1>e. DOMAIN << >> = {}
  BY NoneIn
<1>n. reconcile # "resync" => NoResync
  BY <1>0 DEF ResyncInv, NotBehind, NoResync
<1>q. \A i \in DOMAIN asks : asks[i].call = "seed" => i = 1
  BY <1>0 DEF ResyncInv
<1> DEFINE After(f) ==
      /\ reconcile' = "resync" /\ cursor' <= f.last
      /\ \A i \in DOMAIN asks' : asks'[i].call = "replay"
      /\ \A i \in DOMAIN answers' : answers'[i].type = "seed" => answers'[i].last <= f.last
      /\ \A i \in DOMAIN down' : down'[i].type = "seed" => down'[i].last <= f.last
\* Without one on the wire before or after, or with the one that is asked for now.
<1>z. ASSUME \A i \in DOMAIN asks' : asks'[i].call = "seed" => i = 1,
             \A i \in DOMAIN asks' : asks'[i].call = "resync" =>
               reconcile' = "resync" /\ \A j \in DOMAIN asks' : asks'[j].call = "resync" => j = i,
             \A i \in DOMAIN answers' : answers'[i].type # "resync",
             \A i \in DOMAIN down' : down'[i].type # "resync"
      PROVE  ResyncInv'
  BY <1>z DEF ResyncInv
\* The frame that awaits being taken for it stays in place.
<1>k. ASSUME UNCHANGED reconcile,
             \A i \in DOMAIN asks' :
               asks'[i].call = "replay" \/ (i \in DOMAIN asks /\ asks'[i] = asks[i]),
             \A i \in DOMAIN answers' :
               answers'[i].type = "events" \/ (i \in DOMAIN answers /\ answers'[i] = answers[i]),
             \/ \A i \in DOMAIN down' : \/ down'[i].type \in {"event", "ready"}
                                        \/ i \in DOMAIN down /\ down'[i] = down[i]
             \/ \A i \in DOMAIN down' :
                  i + 1 \in DOMAIN down /\ down'[i] = down[i + 1] /\ i \in Nat,
             \A i \in DOMAIN answers : answers[i].type = "resync" => cursor' <= answers[i].last,
             \A i \in DOMAIN down : down[i].type = "resync" => cursor' <= down[i].last
      PROVE  ResyncInv'
  <2>1. \A i \in DOMAIN asks' : asks'[i].call = "seed" => i = 1
    BY <1>q, <1>k
  <2>2. \A i \in DOMAIN asks' : asks'[i].call = "resync" =>
          reconcile' = "resync" /\ \A j \in DOMAIN asks' : asks'[j].call = "resync" => j = i
    BY <1>0, <1>k DEF ResyncInv
  <2>3. ASSUME NEW f, NotBehind(f), cursor' <= f.last  PROVE After(f)
    <3>1. \A i \in DOMAIN down' : down'[i].type = "seed" =>
            \E j \in DOMAIN down : down'[i] = down[j]
      BY <1>k
    <3>2. \A i \in DOMAIN down' : down'[i].type = "seed" => down'[i].last <= f.last
      BY <3>1, <2>3 DEF NotBehind
    <3>3. \A i \in DOMAIN answers' : answers'[i].type = "seed" => answers'[i].last <= f.last
      BY <1>k, <2>3 DEF NotBehind
    <3>4. \A i \in DOMAIN asks' : asks'[i].call = "replay"
      BY <1>k, <2>3 DEF NotBehind
    <3> QED  BY <1>k, <2>3, <3>2, <3>3, <3>4 DEF NotBehind
  <2> HIDE DEF After
  <2>4. ASSUME NEW i \in DOMAIN answers', answers'[i].type = "resync"
        PROVE  /\ After(answers'[i])
               /\ \A j \in DOMAIN answers' : answers'[j].type = "resync" => j = i
               /\ \A j \in DOMAIN down' : down'[j].type # "resync"
    <3>1. i \in DOMAIN answers /\ answers'[i] = answers[i] /\ answers[i].type = "resync"
      BY <1>k, <2>4
    <3>2. /\ NotBehind(answers[i])
          /\ \A j \in DOMAIN answers : answers[j].type = "resync" => j = i
          /\ \A j \in DOMAIN down : down[j].type # "resync"
      BY <1>0, <3>1 DEF ResyncInv
    <3>3. cursor' <= answers[i].last
      BY <1>k, <3>1
    <3>4. After(answers'[i])
      BY <2>3, <3>1, <3>2, <3>3
    <3>5. \A j \in DOMAIN down' : down'[j].type # "resync"
      BY <1>k, <3>2
    <3>6. \A j \in DOMAIN answers' : answers'[j].type = "resync" => j = i
      <4>1. \A j \in DOMAIN answers' :
              answers'[j].type = "events" \/ (j \in DOMAIN answers /\ answers'[j] = answers[j])
        BY <1>k
      <4> QED  BY <3>2, <4>1
    <3> QED  BY <3>4, <3>5, <3>6
  <2>5. ASSUME NEW i \in DOMAIN down', down'[i].type = "resync"
        PROVE  /\ After(down'[i])
               /\ \A j \in DOMAIN down' : down'[j].type = "resync" => j = i
    <3>1. PICK k \in DOMAIN down : down'[i] = down[k]
      BY <1>k, <2>5
    <3>2. /\ NotBehind(down[k])
          /\ \A j \in DOMAIN down : down[j].type = "resync" => j = k
      BY <1>0, <2>5, <3>1 DEF ResyncInv
    <3>3. cursor' <= down[k].last
      BY <1>k, <2>5, <3>1
    <3>4. After(down'[i])
      BY <2>3, <3>1, <3>2, <3>3
    <3>5. \A j \in DOMAIN down' : down'[j].type = "resync" => j = i
      <4>1. CASE \A j \in DOMAIN down' : \/ down'[j].type \in {"event", "ready"}
                                         \/ j \in DOMAIN down /\ down'[j] = down[j]
        BY <2>5, <3>2, <4>1
      <4>2. CASE \A j \in DOMAIN down' :
                  j + 1 \in DOMAIN down /\ down'[j] = down[j + 1] /\ j \in Nat
        <5>1. ASSUME NEW j \in DOMAIN down', down'[j].type = "resync"  PROVE j = i
          <6>1. j + 1 = k /\ i + 1 = k /\ j \in Nat /\ i \in Nat
            BY <2>5, <3>2, <4>2, <5>1
          <6> QED  BY <6>1
        <5> QED  BY <5>1
      <4>3. (\A j \in DOMAIN down' : \/ down'[j].type \in {"event", "ready"}
                                     \/ j \in DOMAIN down /\ down'[j] = down[j])
            \/ (\A j \in DOMAIN down' :
                  j + 1 \in DOMAIN down /\ down'[j] = down[j + 1] /\ j \in Nat)
        BY <1>k
      <4> QED  BY <4>1, <4>2, <4>3
    <3> QED  BY <3>4, <3>5
  <2> QED  BY <2>1, <2>2, <2>4, <2>5 DEF ResyncInv, NotBehind, After
<1>c. /\ \A i \in DOMAIN answers : answers[i].type = "resync" => cursor <= answers[i].last
      /\ \A i \in DOMAIN down : down[i].type = "resync" => cursor <= down[i].last
  BY <1>0 DEF ResyncInv, NotBehind
<1> HIDE DEF After
<1>1. CASE Emit
  <2>1. CASE up
    <3>1. emitted + 1 \in 1..MaxEvents /\ emitted' = emitted + 1
      BY <1>b, <1>1 DEF Emit
    <3>2. down' = Append(down, [type |-> "event", seq |-> emitted'])
      BY <1>1, <2>1 DEF Emit
    <3>3. \A i \in DOMAIN down' :
            \/ down'[i].type \in {"event", "ready"}
            \/ i \in DOMAIN down /\ down'[i] = down[i]
      BY <1>0, <3>1, <3>2, FrameForms, Sent
    <3> QED  BY <1>1, <1>c, <1>k, <3>3 DEF Emit
  <2>2. CASE ~up
    BY <1>1, <1>c, <1>k, <2>2 DEF Emit
  <2> QED  BY <2>1, <2>2
<1>2. CASE HostReplays
  <2> DEFINE f == [type |-> "events", after |-> Head(asks).after, last |-> emitted,
                   truncated |-> Head(asks).after + 1 < Oldest]
  <2>1. f \in Answer
    <3> DEFINE cut == Head(asks).after + 1 < Oldest
    <3>1. cut \in BOOLEAN /\ Head(asks).after \in 0..MaxEvents
      BY <1>2, <1>a, FrameForms DEF HostReplays
    <3> HIDE DEF cut
    <3>2. [type |-> "events", after |-> Head(asks).after, last |-> emitted, truncated |-> cut]
             \in Answer
      BY <1>b, <3>1, FrameForms
    <3> QED  BY <3>2 DEF cut
  <2>2. f.type = "events"
    OBVIOUS
  <2>3. /\ answers' = Append(answers, f) /\ asks # << >> /\ asks' = Tail(asks)
        /\ UNCHANGED <<reconcile, cursor, down>>
    BY <1>2 DEF HostReplays
  <2> HIDE DEF f
  <2>4. \A i \in DOMAIN answers' :
          answers'[i].type = "events" \/ (i \in DOMAIN answers /\ answers'[i] = answers[i])
    BY <1>0, <2>1, <2>2, <2>3, Answered
  <2>5. \A i \in DOMAIN asks' :
          i + 1 \in DOMAIN asks /\ asks'[i] = asks[i + 1] /\ i + 1 # 1 /\ i \in Nat
    BY <1>a, <2>3
  <2>6. CASE reconcile # "resync"
    <3>1. NoResync
      BY <1>n, <2>6
    <3>2. \A i \in DOMAIN asks' : asks'[i].call \notin {"seed", "resync"}
      BY <1>q, <2>5, <3>1 DEF NoResync
    <3> QED  BY <1>z, <2>3, <2>4, <3>1, <3>2 DEF NoResync
  <2>7. CASE \E i \in DOMAIN asks : asks[i].call = "resync"
    <3>1. /\ \A i \in DOMAIN answers : answers[i].type # "resync"
          /\ \A i \in DOMAIN down : down[i].type # "resync"
      BY <1>0, <2>7 DEF ResyncInv, NotBehind
    <3>2. \A i \in DOMAIN asks' : asks'[i].call # "seed"
      BY <1>q, <2>5
    <3>3. ASSUME NEW i \in DOMAIN asks', asks'[i].call = "resync"
          PROVE  reconcile' = "resync" /\ \A j \in DOMAIN asks' : asks'[j].call = "resync" => j = i
      <4>1. i + 1 \in DOMAIN asks /\ asks[i + 1].call = "resync" /\ i \in Nat
        BY <2>5, <3>3
      <4>2. reconcile = "resync" /\ \A j \in DOMAIN asks : asks[j].call = "resync" => j = i + 1
        BY <1>0, <4>1 DEF ResyncInv
      <4>3. ASSUME NEW j \in DOMAIN asks', asks'[j].call = "resync"  PROVE j = i
        <5>1. j \in Nat /\ j + 1 = i + 1
          BY <2>5, <4>2, <4>3
        <5> QED  BY <4>1, <5>1
      <4> QED  BY <2>3, <4>2, <4>3
    <3>4. \A i \in DOMAIN answers' : answers'[i].type # "resync"
      BY <2>4, <3>1
    <3> QED  BY <1>z, <2>3, <3>1, <3>2, <3>3, <3>4
  <2>8. CASE \A i \in DOMAIN asks : asks[i].call # "resync"
    <3>1. \A i \in DOMAIN asks' : asks'[i].call = "replay"
      <4>1. \A i \in DOMAIN asks : asks[i].call \in Call
        BY <1>b, LenProperties, FrameForms
      <4> QED  BY <1>q, <2>5, <2>8, <4>1 DEF Call
    <3> QED  BY <1>c, <1>k, <2>3, <2>4, <3>1
  <2> QED  BY <2>7, <2>8
<1>3. CASE HostAnswers
  <2> DEFINE f == [type |-> Head(asks).call, last |-> emitted]
  <2>0. Head(asks) = asks[1] /\ 1 \in DOMAIN asks /\ Head(asks).call \in {"resync", "seed"}
    BY <1>3, <1>a, FrameForms DEF HostAnswers, Call
  <2>1. f \in Answer
    BY <1>b, <2>0, FrameForms DEF Call
  <2>2. f.type = asks[1].call /\ f.last = emitted
    BY <2>0
  <2>3. /\ answers' = Append(answers, f) /\ asks # << >> /\ asks' = Tail(asks)
        /\ UNCHANGED <<reconcile, cursor, down>>
    BY <1>3 DEF HostAnswers
  <2> HIDE DEF f
  <2>4. \A i \in DOMAIN answers' :
          \/ i \in DOMAIN answers /\ answers'[i] = answers[i]
          \/ i = Len(answers) + 1 /\ answers'[i] = f /\ i \notin DOMAIN answers
    BY <1>0, <2>1, <2>3, Answered
  <2>5. \A i \in DOMAIN asks' :
          i + 1 \in DOMAIN asks /\ asks'[i] = asks[i + 1] /\ i + 1 # 1 /\ i \in Nat
    BY <1>a, <2>3
  \* A snapshot answered means none was, for a reconciliation, before.
  <2>6. /\ \A i \in DOMAIN answers : answers[i].type # "resync"
        /\ \A i \in DOMAIN down : down[i].type # "resync"
    BY <1>0, <2>0 DEF ResyncInv, NotBehind
  <2>7. CASE asks[1].call = "seed"
    <3>1. \A i \in DOMAIN answers' : answers'[i].type # "resync"
      BY <2>2, <2>4, <2>6, <2>7
    <3>2. \A i \in DOMAIN asks' : asks'[i].call # "seed"
      BY <1>q, <2>5
    <3>3. ASSUME NEW i \in DOMAIN asks', asks'[i].call = "resync"
          PROVE  reconcile' = "resync" /\ \A j \in DOMAIN asks' : asks'[j].call = "resync" => j = i
      <4>1. i + 1 \in DOMAIN asks /\ asks[i + 1].call = "resync" /\ i \in Nat
        BY <2>5, <3>3
      <4>2. reconcile = "resync" /\ \A j \in DOMAIN asks : asks[j].call = "resync" => j = i + 1
        BY <1>0, <4>1 DEF ResyncInv
      <4>3. ASSUME NEW j \in DOMAIN asks', asks'[j].call = "resync"  PROVE j = i
        <5>1. j \in Nat /\ j + 1 = i + 1
          BY <2>5, <4>2, <4>3
        <5> QED  BY <4>1, <5>1
      <4> QED  BY <2>3, <4>2, <4>3
    <3> QED  BY <1>z, <2>3, <2>6, <3>1, <3>2, <3>3
  <2>8. CASE asks[1].call = "resync"
    <3>1. reconcile = "resync" /\ \A j \in DOMAIN asks : asks[j].call = "resync" => j = 1
      BY <1>0, <2>0, <2>8 DEF ResyncInv
    <3>2. \A i \in DOMAIN asks' : asks'[i].call = "replay"
      <4>1. \A i \in DOMAIN asks : asks[i].call \in Call
        BY <1>b, LenProperties, FrameForms
      <4> QED  BY <1>q, <2>5, <3>1, <4>1 DEF Call
    <3>3. cursor <= emitted
      BY <1>0, <3>1 DEF LinkInv, BoundInv
    <3>4. \A i \in DOMAIN answers' : answers'[i].last <= emitted
      BY <1>0, <1>b, <2>2, <2>4 DEF BoundInv
    <3>5. \A i \in DOMAIN down : down[i].type = "seed" => down[i].last <= emitted
      BY <1>0 DEF BoundInv
    <3>6. After(f)
      BY <2>2, <2>3, <3>1, <3>2, <3>3, <3>4, <3>5 DEF After
    <3>7. \A i \in DOMAIN answers' : answers'[i].type = "resync" =>
            answers'[i] = f /\ i = Len(answers) + 1
      BY <2>4, <2>6
    <3>8. \A i \in DOMAIN answers' : answers'[i].type = "resync" => After(answers'[i])
      BY <3>6, <3>7
    <3>9. \A i \in DOMAIN asks' : asks'[i].call \notin {"seed", "resync"}
      BY <3>2
    <3> QED  BY <2>3, <2>6, <3>7, <3>8, <3>9 DEF ResyncInv, NotBehind, After
  <2> QED  BY <2>0, <2>7, <2>8
<1>4. CASE RelayAnswers
  <2> DEFINE f == answers[1]
  <2>1. /\ f \in Frame /\ f = Head(answers) /\ 1 \in DOMAIN answers
        /\ f.type \in {"events", "resync", "seed"}
        /\ \A i \in DOMAIN answers' :
             i \in Nat /\ i + 1 # 1 /\ i + 1 \in DOMAIN answers /\ answers'[i] = answers[i + 1]
    BY <1>b, <1>4, TailAt, FrameForms DEF RelayAnswers
  <2>2. \A i \in DOMAIN down' :
          \/ i \in DOMAIN down /\ down'[i] = down[i]
          \/ i = Len(down) + 1 /\ down'[i] = f /\ i \notin DOMAIN down
    BY <1>0, <1>4, <2>1, Sent DEF RelayAnswers
  <2>3. UNCHANGED <<reconcile, cursor, asks>>
    BY <1>4 DEF RelayAnswers
  <2> HIDE DEF f
  <2>4. ASSUME NEW x, NotBehind(x)  PROVE After(x)
    <3>1. \A i \in DOMAIN answers' : answers'[i].type = "seed" => answers'[i].last <= x.last
      BY <2>1, <2>4 DEF NotBehind
    <3>2. f.type = "seed" => f.last <= x.last
      BY <2>1, <2>4 DEF NotBehind, f
    <3>3. \A i \in DOMAIN down' : down'[i].type = "seed" => down'[i].last <= x.last
      BY <2>2, <2>4, <3>2 DEF NotBehind
    <3> QED  BY <2>3, <2>4, <3>1, <3>3 DEF NotBehind, After
  <2>5. ASSUME NEW i \in DOMAIN answers', answers'[i].type = "resync"
        PROVE  /\ After(answers'[i])
               /\ \A j \in DOMAIN answers' : answers'[j].type = "resync" => j = i
               /\ \A j \in DOMAIN down' : down'[j].type # "resync"
    <3>1. i + 1 \in DOMAIN answers /\ answers'[i] = answers[i + 1] /\ i \in Nat /\ i + 1 # 1
      BY <2>1
    <3>2. /\ NotBehind(answers[i + 1])
          /\ \A j \in DOMAIN answers : answers[j].type = "resync" => j = i + 1
          /\ \A j \in DOMAIN down : down[j].type # "resync"
      BY <1>0, <2>5, <3>1 DEF ResyncInv
    <3>3. f.type # "resync"
      BY <2>1, <3>1, <3>2 DEF f
    <3>4. After(answers'[i])
      BY <2>4, <3>1, <3>2
    <3>5. \A j \in DOMAIN down' : down'[j].type # "resync"
      BY <2>2, <3>2, <3>3
    <3>6. ASSUME NEW j \in DOMAIN answers', answers'[j].type = "resync"  PROVE j = i
      <4>1. j \in Nat /\ j + 1 = i + 1
        BY <2>1, <3>2, <3>6
      <4> QED  BY <3>1, <4>1
    <3> QED  BY <3>4, <3>5, <3>6
  <2>6. ASSUME NEW i \in DOMAIN down', down'[i].type = "resync"
        PROVE  /\ After(down'[i])
               /\ \A j \in DOMAIN down' : down'[j].type = "resync" => j = i
    <3>1. CASE i \in DOMAIN down /\ down'[i] = down[i]
      <4>1. /\ NotBehind(down[i])
            /\ \A j \in DOMAIN down : down[j].type = "resync" => j = i
        BY <1>0, <2>6, <3>1 DEF ResyncInv
      <4>2. f.type # "resync"
        BY <1>0, <2>1, <2>6, <3>1 DEF ResyncInv, f
      <4>3. After(down'[i])
        BY <2>4, <3>1, <4>1
      <4>4. \A j \in DOMAIN down' : down'[j].type = "resync" => j = i
        BY <2>2, <4>1, <4>2
      <4> QED  BY <4>3, <4>4
    <3>2. CASE i = Len(down) + 1 /\ down'[i] = f
      <4>1. /\ NotBehind(f)
            /\ \A j \in DOMAIN down : down[j].type # "resync"
        BY <1>0, <2>1, <2>6, <3>2 DEF ResyncInv, f
      <4>2. After(down'[i])
        BY <2>4, <3>2, <4>1
      <4>3. \A j \in DOMAIN down' : down'[j].type = "resync" => j = i
        BY <2>2, <3>2, <4>1
      <4> QED  BY <4>2, <4>3
    <3> QED  BY <2>2, <3>1, <3>2
  <2>7. /\ \A i \in DOMAIN asks' : asks'[i].call = "seed" => i = 1
        /\ \A i \in DOMAIN asks' : asks'[i].call = "resync" =>
             reconcile' = "resync" /\ \A j \in DOMAIN asks' : asks'[j].call = "resync" => j = i
    BY <1>0, <2>3 DEF ResyncInv
  <2> QED  BY <2>5, <2>6, <2>7 DEF ResyncInv, NotBehind, After
<1>5. CASE RelayReady
  <2>1. \A i \in DOMAIN down' :
          down'[i].type \in {"event", "ready"} \/ (i \in DOMAIN down /\ down'[i] = down[i])
    BY <1>0, <1>5, FrameForms, Sent DEF RelayReady
  <2> QED  BY <1>5, <1>c, <1>k, <2>1 DEF RelayReady
<1>6. ASSUME UNCHANGED <<asks, answers, down, reconcile, cursor>>  PROVE ResyncInv'
  BY <1>6, <1>c, <1>k
<1>7. ASSUME WireGone  PROVE ResyncInv'
  <2>1. DOMAIN asks' = {} /\ DOMAIN answers' = {} /\ DOMAIN down' = {}
    BY <1>7, <1>e DEF WireGone
  <2> QED  BY <1>z, <2>1
<1>8. CASE HostReplaced \/ LinkUp
  BY <1>6, <1>8 DEF HostReplaced, LinkUp
<1>9. CASE LinkLost \/ CallFails \/ ReceiveStale
  BY <1>6, <1>7, <1>9 DEF LinkLost, CallFails, ReceiveStale
<1>u. Received => \A i \in DOMAIN down' :
                    i + 1 \in DOMAIN down /\ down'[i] = down[i + 1] /\ i \in Nat
  BY <1>t
<1>10. CASE ReceiveReady
  <2>1. ~ready
    BY <1>0, <1>h, <1>10 DEF ReceiveReady, LinkInv
  <2>2. /\ asks = << >> /\ answers = << >>
        /\ \A i \in DOMAIN down : down[i].type \in {"event", "ready"}
    BY <1>0, <2>1 DEF LinkInv
  <2>3. \A i \in DOMAIN asks' : i = 1 /\ asks'[i].call = "seed"
    <3>1. AskFor("seed", 0) /\ "seed" \in Call /\ 0 \in 0..MaxEvents
      BY <1>10 DEF ReceiveReady, Call
    <3>2. \A i \in DOMAIN asks' :
            \/ i \in DOMAIN asks
            \/ i = Len(asks) + 1 /\ asks'[i] = [call |-> "seed", after |-> 0]
      BY <1>0, <3>1, Asked
    <3>3. Len(asks) = 0
      BY <2>2, EmptySeq
    <3> QED  BY <1>e, <2>2, <3>2, <3>3
  <2>4. \A i \in DOMAIN down' : down'[i].type # "resync"
    BY <1>u, <1>10, <2>2 DEF ReceiveReady
  <2>5. DOMAIN answers' = {}
    BY <1>e, <1>10, <2>2 DEF ReceiveReady
  <2> QED  BY <1>z, <2>3, <2>4, <2>5
\* What is received while no snapshot is on its way.
<1>11. ASSUME Received, NoResync, UNCHANGED answers,
              \/ UNCHANGED asks
              \/ \E n \in 0..MaxEvents : AskFor("replay", n)
              \/ reconcile' = "resync" /\ AskFor("resync", 0)
       PROVE  ResyncInv'
  <2>1. \A i \in DOMAIN down' : down'[i].type # "resync"
    BY <1>u, <1>11 DEF NoResync
  <2>2. CASE UNCHANGED asks
    BY <1>q, <1>z, <1>11, <2>1, <2>2 DEF NoResync
  <2>3. CASE \E n \in 0..MaxEvents : AskFor("replay", n)
    <3>1. \A i \in DOMAIN asks' :
            (i \in DOMAIN asks /\ asks'[i] = asks[i]) \/ asks'[i].call = "replay"
      BY <1>0, <2>3, Asked DEF Call
    <3> QED  BY <1>q, <1>z, <1>11, <2>1, <3>1 DEF NoResync
  <2>4. CASE reconcile' = "resync" /\ AskFor("resync", 0)
    <3>1. \A i \in DOMAIN asks' :
            \/ i \in DOMAIN asks /\ asks'[i] = asks[i]
            \/ i = Len(asks) + 1 /\ asks'[i].call = "resync"
      BY <1>0, <2>4, Asked DEF Call
    <3> QED  BY <1>q, <1>z, <1>11, <2>1, <2>4, <3>1 DEF NoResync
  <2> QED  BY <1>11, <2>2, <2>3, <2>4
<1>12. CASE ReceiveNext
  BY <1>n, <1>11, <1>12 DEF ReceiveNext
<1>13. CASE ReceiveAhead
  <2>1. CASE reconcile = "no" /\ AskFor("replay", cursor)
    BY <1>b, <1>n, <1>11, <1>13, <2>1 DEF ReceiveAhead
  <2>2. CASE UNCHANGED <<reconcile, asks>>
    BY <1>c, <1>k, <1>u, <1>13, <2>2 DEF ReceiveAhead
  <2> QED  BY <1>13, <2>1, <2>2 DEF ReceiveAhead
<1>14. CASE ReceiveEvents
  <2>1. NoResync /\ Received /\ UNCHANGED answers
    BY <1>n, <1>14 DEF ReceiveEvents
  <2>2. UNCHANGED asks \/ (reconcile' = "resync" /\ AskFor("resync", 0))
    BY <1>14 DEF ReceiveEvents
  <2> QED  BY <1>11, <2>1, <2>2
<1>15. CASE ReceiveResync
  <2>1. /\ NotBehind(down[1])
        /\ \A j \in DOMAIN down : down[j].type = "resync" => j = 1
        /\ \A j \in DOMAIN answers : answers[j].type # "resync"
    <3>1. 1 \in DOMAIN down /\ down[1].type = "resync"
      BY <1>h, <1>15 DEF ReceiveResync
    <3> QED  BY <1>0, <3>1 DEF ResyncInv
  <2>2. \A i \in DOMAIN down' : down'[i].type # "resync"
    BY <1>t, <1>15, <2>1 DEF ReceiveResync
  <2>3. \A i \in DOMAIN asks : asks[i].call = "replay"
    BY <2>1 DEF NotBehind
  <2>4. \A i \in DOMAIN asks' : asks'[i].call = "replay"
    <3>1. CASE UNCHANGED asks
      BY <2>3, <3>1
    <3>2. CASE AskFor("replay", cursor')
      <4>1. cursor' \in 0..MaxEvents
        BY TypeStep DEF MobileTypeOK
      <4>2. PICK n \in 0..MaxEvents : AskFor("replay", n)
        BY <3>2, <4>1 DEF AskFor
      <4> QED  BY <1>0, <2>3, <4>2, Asked DEF Call
    <3> QED  BY <1>15, <3>1, <3>2 DEF ReceiveResync
  <2> QED  BY <1>z, <1>15, <2>1, <2>2, <2>4 DEF ReceiveResync
<1>16. CASE ReceiveSeed
  <2>1. UNCHANGED <<asks, answers, reconcile>> /\ Received
    BY <1>16 DEF ReceiveSeed
  <2>2. 1 \in DOMAIN down /\ down[1] = Head(down) /\ down[1].type = "seed" /\ down[1].last \in Nat
    BY <1>h, <1>16, FrameForms DEF ReceiveSeed
  <2>3. ASSUME NEW x, NotBehind(x), x.last \in Nat  PROVE cursor' <= x.last
    <3>1. cursor <= x.last /\ down[1].last <= x.last
      BY <2>2, <2>3 DEF NotBehind
    <3>2. Max({cursor, down[1].last}) \in {cursor, down[1].last}
      BY <1>b, <2>2, MaxOf
    <3> QED  BY <1>16, <2>2, <3>1, <3>2 DEF ReceiveSeed
  <2>4. /\ \A i \in DOMAIN answers : answers[i].type = "resync" => answers[i].last \in Nat
        /\ \A i \in DOMAIN down : down[i].type = "resync" => down[i].last \in Nat
    <3>1. /\ \A i \in DOMAIN answers : answers[i] \in Answer
          /\ \A i \in DOMAIN down : down[i] \in Frame
      BY <1>b, LenProperties
    <3> QED  BY <3>1, FrameForms
  <2>5. /\ \A i \in DOMAIN answers : answers[i].type = "resync" => cursor' <= answers[i].last
        /\ \A i \in DOMAIN down : down[i].type = "resync" => cursor' <= down[i].last
    BY <1>0, <2>3, <2>4 DEF ResyncInv
  <2> QED  BY <1>k, <1>u, <2>1, <2>5
<1> QED
  BY <1>1, <1>2, <1>3, <1>4, <1>5, <1>8, <1>9, <1>10, <1>12, <1>13, <1>14, <1>15, <1>16
  DEF MobileNext, HostStep, Receive

-----------------------------------------------------------------------------
(* The theorems *)

\* The strengthening holds: it holds at first and no step of the host, the relay
\* or the phone breaks it.
THEOREM MobileInvariant == MobileSpec => []MobileInv
<1>1. MobileInit => MobileInv
  <2> SUFFICES ASSUME MobileInit  PROVE MobileInv
    OBVIOUS
  <2>1. Cardinality({}) = 0 /\ DOMAIN << >> = {}
    BY FS_EmptySet, NoneIn
  <2>2. /\ << >> \in Seq(Ask) /\ << >> \in Seq(Answer)
        /\ << >> \in Seq(Frame) /\ << >> \in Seq(1..MaxEvents)
    BY NoneIn
  <2>3. MobileTypeOK
    <3>1. asks \in Seq(Ask) /\ answers \in Seq(Answer) /\ down \in Seq(Frame)
          /\ handed \in Seq(1..MaxEvents)
      BY <2>2, Zenon DEF MobileInit
    <3>2. HeldOK(held)
      BY <2>1 DEF MobileInit, HeldOK
    <3>3. /\ host \in 1..MaxHosts /\ emitted \in 0..MaxEvents
          /\ {up, booted, ready, seeding, bootError} \subseteq BOOLEAN
          /\ known \in 0..MaxHosts /\ cursor \in 0..MaxEvents
          /\ reconcile \in {"no", "replay", "resync"} /\ faults \in 0..MaxFaults
      <4>1. /\ host = 1 /\ emitted = 0 /\ known = 0 /\ cursor = 0 /\ faults = 0
            /\ reconcile = "no"
        BY DEF MobileInit, NoHost
      <4>2. {up, booted, ready, seeding, bootError} \subseteq BOOLEAN
        BY Zenon DEF MobileInit
      <4> QED  BY <4>1, <4>2
    <3> QED  BY <3>1, <3>2, <3>3, TypesPart
  <2>4. LinkInv /\ BoundInv /\ ResyncInv
    BY <2>1 DEF MobileInit, LinkInv, BoundInv, ResyncInv, NoHost
  <2> QED  BY <2>3, <2>4 DEF MobileInv
<1>2. MobileInv /\ UNCHANGED mobileVars => MobileInv'
  BY DEF MobileInv, MobileTypeOK, LinkInv, BoundInv, ResyncInv, NotBehind, mobileVars,
         hostVars, wireVars, clientVars, appVars
<1>3. MobileInv /\ [MobileNext]_mobileVars => MobileInv'
  BY <1>2, TypeStep, LinkStep, BoundStep, ResyncStep DEF MobileInv
<1> QED  BY <1>1, <1>3, PTL DEF MobileSpec

\* Sequence numbers stay in range and the buffer of held events within its limit
\* (RemoteEngineClient.ts, #acceptEventFrame), for every stream and buffer.
THEOREM MobileTypesHold == MobileSpec => []MobileTypeOK
<1>1. MobileInv => MobileTypeOK
  BY DEF MobileInv
<1> QED  BY <1>1, MobileInvariant, PTL

\* Every step of the phone's feed is a step of the abstract one, or none.
LEMMA FeedStep ==
  ASSUME MobileInv, MobileNext
  PROVE  [Feed!FeedNext]_Feed!feedVars
<1> USE DEF hostVars, wireVars, clientVars, appVars, Feed!feedVars, Feed!FeedNext
<1>0. MobileTypeOK /\ BoundInv /\ LinkInv /\ ResyncInv
  BY DEF MobileInv
<1>b. /\ host \in 1..MaxHosts /\ known \in Nat /\ emitted \in 0..MaxEvents
      /\ cursor \in 0..MaxEvents /\ handed \in Seq(1..MaxEvents)
  BY <1>0 DEF MobileTypeOK
<1>h. Received => Head(down) \in Frame /\ Head(down) = down[1] /\ 1 \in DOMAIN down
  BY <1>0, Taken DEF Received
<1>1. CASE Emit
  BY <1>1 DEF Emit, Feed!Publish
<1>2. CASE HostReplaced
  BY <1>b, <1>2 DEF HostReplaced, Feed!Replace
<1>3. CASE HostReplays \/ HostAnswers \/ RelayAnswers \/ RelayReady \/ LinkUp
  BY <1>3 DEF HostReplays, HostAnswers, RelayAnswers, RelayReady, LinkUp
<1>4. ASSUME NEW b \in BOOLEAN, ClientLeaves(b), UNCHANGED hostVars
      PROVE  [Feed!FeedNext]_Feed!feedVars
  <2>1. CASE known' = NoHost /\ cursor' = 0 /\ held' = {} /\ handed' = << >>
    BY <1>4, <2>1 DEF Feed!Forget, NoHost
  <2>2. CASE UNCHANGED <<known, cursor, held, handed>>
    BY <1>4, <2>2
  <2> QED  BY <1>4, <2>1, <2>2 DEF ClientLeaves
<1>5. CASE LinkLost
  <2>1. (reconcile # "no") \in BOOLEAN
    OBVIOUS
  <2> QED  BY <1>4, <1>5, <2>1 DEF LinkLost
<1>6. CASE CallFails
  <2>1. CASE ClientLeaves(TRUE)
    BY <1>4, <1>6, <2>1 DEF CallFails
  <2>2. CASE UNCHANGED <<wireVars, clientVars>>
    BY <1>6, <2>2 DEF CallFails
  <2> QED  BY <1>6, <2>1, <2>2 DEF CallFails
<1>7. CASE ReceiveStale
  BY <1>4, <1>7 DEF ReceiveStale
<1>8. CASE ReceiveReady
  <2>1. CASE known = host /\ UNCHANGED <<cursor, held, handed>>
    BY <1>8, <2>1 DEF ReceiveReady
  <2>2. CASE known # host /\ cursor' = 0 /\ held' = {} /\ handed' = << >>
    BY <1>8, <2>2 DEF ReceiveReady, Feed!Follow
  <2> QED  BY <1>8, <2>1, <2>2 DEF ReceiveReady
<1>9. CASE ReceiveNext
  <2>1. cursor + 1 \in (cursor + 1)..emitted
    BY <1>0, <1>b, <1>h, <1>9 DEF ReceiveNext, BoundInv
  <2>2. Feed!HandOver
    BY <1>9, <2>1 DEF ReceiveNext, Deliver, Feed!HandOver
  <2> QED  BY <2>2
<1>10. CASE ReceiveAhead
  BY <1>10 DEF ReceiveAhead
<1>11. CASE ReceiveEvents
  <2> DEFINE Events == ((Head(down).after + 1)..Head(down).last) \cup held
             end == RunEnd(Events)
  <2>1. end \in cursor..emitted /\ known = host
    BY <1>11, ReplayedEvents DEF ReceiveEvents
  <2>2. \/ UNCHANGED <<cursor, held, handed, appVars>>
        \/ Deliver(end) /\ held' = {}
    BY <1>11 DEF ReceiveEvents
  <2>3. UNCHANGED <<host, emitted, known>>
    BY <1>11 DEF ReceiveEvents
  <2> HIDE DEF end
  <2>4. CASE UNCHANGED <<cursor, held, handed, appVars>>
    BY <2>3, <2>4
  <2>5. CASE Deliver(end) /\ end = cursor
    <3>1. handed \o [i \in 1..(end - cursor) |-> cursor + i] = handed
      <4>1. [i \in 1..(end - cursor) |-> cursor + i] = << >>
        BY <1>b, <2>5
      <4> QED  BY <1>b, <4>1, ConcatEmptySeq
    <3> QED  BY <2>3, <2>5, <3>1 DEF Deliver
  <2>6. CASE Deliver(end) /\ end # cursor
    <3>1. end \in (cursor + 1)..emitted
      BY <1>b, <2>1, <2>6
    <3>2. Feed!HandOver
      BY <2>1, <2>3, <2>6, <3>1 DEF Deliver, Feed!HandOver
    <3> QED  BY <3>2
  <2> QED  BY <2>2, <2>4, <2>5, <2>6
<1>12. CASE ReceiveResync
  <2>1. 1 \in DOMAIN down /\ down[1] = Head(down) /\ down[1].type = "resync"
    BY <1>h, <1>12 DEF ReceiveResync
  <2>2. cursor <= down[1].last /\ down[1].last <= emitted /\ known = host
    <3>1. ready
      BY <1>0, <2>1 DEF LinkInv
    <3> QED  BY <1>0, <2>1, <3>1 DEF ResyncInv, NotBehind, BoundInv, LinkInv
  <2>3. down[1].last \in Nat
    BY <1>h, <1>12, <2>1, FrameForms DEF ReceiveResync
  <2>4. cursor' \in cursor..emitted /\ handed' = << >> /\ UNCHANGED <<host, emitted, known>>
    BY <1>b, <1>12, <2>1, <2>2, <2>3 DEF ReceiveResync
  <2> QED  BY <2>2, <2>4 DEF Feed!Adopt
<1>13. CASE ReceiveSeed
  <2>1. 1 \in DOMAIN down /\ down[1] = Head(down) /\ down[1].type = "seed"
    BY <1>h, <1>13 DEF ReceiveSeed
  <2>2. down[1].last <= emitted /\ known = host /\ cursor <= emitted
    <3>1. ready
      BY <1>0, <2>1 DEF LinkInv
    <3> QED  BY <1>0, <2>1, <3>1 DEF BoundInv, LinkInv
  <2>3. down[1].last \in Nat
    BY <1>h, <1>13, <2>1, FrameForms DEF ReceiveSeed
  <2>4. Max({cursor, down[1].last}) \in cursor..emitted
    <3>1. cursor \in Nat
      BY <1>b
    <3> QED  BY <1>b, <2>2, <2>3, <3>1, MaxOf
  <2>5. CASE seeding
    <3>1. cursor' \in cursor..emitted /\ handed' = << >> /\ UNCHANGED <<host, emitted, known>>
      BY <1>13, <2>1, <2>4, <2>5 DEF ReceiveSeed
    <3> QED  BY <2>2, <3>1 DEF Feed!Adopt
  <2>6. CASE ~seeding
    BY <1>13, <2>6 DEF ReceiveSeed
  <2> QED  BY <2>5, <2>6
<1> QED
  BY <1>1, <1>2, <1>3, <1>5, <1>6, <1>7, <1>8, <1>9, <1>10, <1>11, <1>12, <1>13
  DEF MobileNext, HostStep, Receive

\* Through gaps, replays, snapshots, lost connections and replaced hosts the app
\* is handed the events of the host it follows in order and once, or a snapshot
\* that stands for them (RemoteEngineClient.ts, useRemoteSession.ts).
THEOREM FeedImplemented == MobileSpec => ImplementsFeed
<1>1. MobileInit => Feed!FeedInit
  BY DEF MobileInit, Feed!FeedInit, NoHost
<1>2. MobileInv /\ [MobileNext]_mobileVars => [Feed!FeedNext]_Feed!feedVars
  <2>1. UNCHANGED mobileVars => UNCHANGED Feed!feedVars
    BY DEF mobileVars, hostVars, clientVars, Feed!feedVars
  <2> QED  BY <2>1, FeedStep
<1> QED  BY <1>1, <1>2, MobileInvariant, PTL DEF MobileSpec, ImplementsFeed, Feed!FeedSpec
=============================================================================
