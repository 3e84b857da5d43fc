-------------------------- MODULE SessionTurnProofs --------------------------
(***************************************************************************)
(* Every request of a session is well-formed, and between turns the model  *)
(* is told of exactly the prompts and the edits there are; a /redo brings  *)
(* back what its /undo took away: for turns, rewinds, compactions, saves   *)
(* and crashes of any number.                                              *)
(***************************************************************************)
EXTENDS SessionTurn, FiniteSetTheorems, WellFoundedInduction, SequenceTheorems, TLAPS

LEMMA Bounds ==
  /\ Keep \in Nat \ {0} /\ MaxTurns \in Nat /\ MaxSteps \in Nat /\ MaxRewinds \in Nat
  /\ MaxShrinks \in Nat /\ MaxGoalSaves \in Nat /\ MaxCrashes \in Nat
BY SessionAssumption DEF SessionAssumption

USE Bounds

-----------------------------------------------------------------------------
(* The strengthening *)

Lengths == [messages : Nat, history : 0..(2 * MaxTurns)]
Remembered == [tree : SUBSET Facts, mark : Lengths, green : BOOLEAN, epoch : Nat]
Tails ==
  [mark : Lengths, messages : Seq(Texts), history : Seq(Shows),
   was : [known : SUBSET Facts, history : Seq(Shows)], inLine : BOOLEAN]
RedoEntries == [tree : SUBSET Facts, reAdd : Seq(Remembered), payload : Seq(Tails)]
Generations ==
  [messages : Seq(Texts), history : Seq(Shows), whole : BOOLEAN, turn : Nat,
   epoch : Nat, forgot : SUBSET Facts, rewinds : Nat]

ListTypes == messages \in Seq(Texts) /\ history \in Seq(Shows)
TurnTypes ==
  /\ stage \in {"idle", "prompted", "prepared", "streaming", "ending", "saving"}
  /\ mode \in {"execute", "plan"} /\ ok \in BOOLEAN
  /\ userRef \in Texts \cup {NoMessage} /\ committed \in Seq(Texts)
  /\ open \in SUBSET Facts /\ tree \in SUBSET Facts /\ forgot \in SUBSET Facts
  /\ turns \in 0..MaxTurns /\ (stage # "idle" => turns # 0)
UndoTypes == checkpoints \in Seq(Remembered) /\ redo \in Seq(RedoEntries)
StoreTypes ==
  /\ disk \in Generations
  /\ epoch \in Nat /\ epochs \in Nat /\ rewinds \in Nat /\ intact \in BOOLEAN
  /\ goals \in Nat /\ crashes \in Nat

Typed == ListTypes /\ TurnTypes /\ UndoTypes /\ StoreTypes

\* What a redo line would bring back fits as well.
LineFits(line, bound) ==
  \A j \in 1..Len(line) : line[j].payload # << >> =>
    line[j].payload[1].mark.history + Len(line[j].payload[1].history) <= bound

\* The transcript holds at most two messages a prompt, also after a /redo or a crash.
LengthInv ==
  /\ Len(history) <= 2 * turns
  /\ stage \in {"prompted", "prepared", "streaming"} => Len(history) < 2 * turns
  /\ Len(disk.history) <= 2 * turns
  /\ LineFits(redo, 2 * turns)

\* Who may follow whom.
Follows(before, message) ==
  /\ message.role = "tool" <=> before.role = "call"
  /\ message.role = "user" => before.role # "user"
  /\ message.role = "assistant" => before.role # "assistant"

Linked(list) == \A i \in 2..Len(list) : Follows(list[i - 1], list[i])
Begun(list) == list # << >> => list[1].role = "user"
Closed(list) == list # << >> => list[Len(list)].role \in {"assistant", "tool"}
Settled(list) == Linked(list) /\ Begun(list) /\ Closed(list)

\* Cut at n, the rest begins with a prompt.
Opens(list, n) == n < Len(list) => list[n + 1].role = "user"

\* Every checkpoint that /undo may reach, now or after a /redo.
Reachable == Range(checkpoints) \cup UNION {Range(redo[j].reAdd) : j \in 1..Len(redo)}

\* Each conversation has an epoch of its own; a save knows of no later rewind.
EpochInv ==
  /\ epoch <= epochs /\ epochs <= MaxShrinks /\ disk.epoch <= epochs
  /\ disk.rewinds <= rewinds
  /\ \A cp \in Reachable : cp.epoch <= epochs \/ cp.epoch = NoEpoch

\* The list of messages, by stage.
ListInv ==
  /\ Linked(messages) /\ Begun(messages)
  /\ stage \in {"idle", "saving"} => Closed(messages)
  /\ stage \in {"prompted", "prepared", "streaming", "ending"} =>
       messages # << >> /\ userRef.role = "user"
  /\ stage \in {"prompted", "prepared", "streaming"} => Last(messages) = userRef
  /\ stage = "ending" =>
       Last(messages).role # "call" /\ (Last(messages).role = "user" => Last(messages) = userRef)

\* The steps of a turn that ended, if any: calls with their results.
StepInv ==
  /\ Linked(committed)
  /\ committed # << >> =>
       committed[1].role = "call" /\ committed[Len(committed)].role = "tool"

\* Checkpoints of this conversation are taken where a prompt begins, those that a
\* running turn finds before its own prompt.
MarkInv ==
  \A cp \in Reachable : cp.epoch = epoch =>
    /\ Opens(messages, cp.mark.messages)
    /\ stage \in {"prompted", "prepared", "streaming"} => cp.mark.messages < Len(messages)

\* So are those beyond the place where a tail was cut off.
TailInv ==
  \A j \in 1..Len(redo) : redo[j].payload # << >> =>
    LET tail == redo[j].payload[1] IN
      /\ Settled(tail.messages)
      /\ \A cp \in Reachable : \A n \in Nat :
           cp.epoch = epoch /\ cp.mark.messages = tail.mark.messages + n => Opens(tail.messages, n)

\* What a crash brings back: checkpoints of its conversation fit it too.
DiskInv ==
  disk.whole /\ disk.rewinds = rewinds =>
    /\ Settled(disk.messages)
    /\ \A cp \in Range(checkpoints) : cp.epoch = disk.epoch => Opens(disk.messages, cp.mark.messages)
    /\ disk.epoch = epoch => Len(disk.messages) <= Len(messages)
    /\ disk.epoch = epoch /\ InTurn => Len(disk.messages) < Len(messages)

IntactInv == intact => ListInv /\ StepInv /\ MarkInv /\ TailInv /\ DiskInv

SessionInv == Typed /\ LengthInv /\ EpochInv /\ IntactInv

-----------------------------------------------------------------------------
(* Sequences *)

LEMMA SeqAt ==
  ASSUME NEW S, NEW s \in Seq(S)
  PROVE  /\ Len(s) \in Nat /\ DOMAIN s = 1..Len(s)
         /\ \A i \in 1..Len(s) : s[i] \in S
         /\ s # << >> <=> Len(s) # 0
<1>1. Len(s) \in Nat /\ DOMAIN s = 1..Len(s) /\ \A i \in 1..Len(s) : s[i] \in S
  BY LenProperties, ElementOfSeq
<1>2. s # << >> => Len(s) # 0
  BY EmptySeq
<1> QED  BY <1>1, <1>2, EmptySeq

LEMMA NoneIn ==
  ASSUME NEW S
  PROVE  << >> \in Seq(S) /\ Len(<< >>) = 0 /\ DOMAIN << >> = {}
<1>1. << >> \in Seq(S) /\ Len(<< >>) = 0
  BY EmptySeq
<1> QED  BY <1>1, SeqAt

LEMMA OneIn ==
  ASSUME NEW S, NEW e \in S
  PROVE  <<e>> \in Seq(S) /\ Len(<<e>>) = 1 /\ <<e>>[1] = e /\ <<e>> # << >>
OBVIOUS

LEMMA TwoIn ==
  ASSUME NEW S, NEW e \in S, NEW f \in S
  PROVE  <<e, f>> \in Seq(S) /\ Len(<<e, f>>) = 2 /\ <<e, f>>[1] = e /\ <<e, f>>[2] = f
OBVIOUS

LEMMA AppendAt ==
  ASSUME NEW S, NEW s \in Seq(S), NEW e \in S
  PROVE  /\ Append(s, e) \in Seq(S) /\ Append(s, e) # << >>
         /\ Len(Append(s, e)) = Len(s) + 1
         /\ \A i \in 1..Len(s) : Append(s, e)[i] = s[i]
         /\ Append(s, e)[Len(s) + 1] = e
BY AppendProperties

LEMMA ConcatAt ==
  ASSUME NEW S, NEW s \in Seq(S), NEW t \in Seq(S)
  PROVE  /\ s \o t \in Seq(S)
         /\ Len(s \o t) = Len(s) + Len(t)
         /\ \A i \in 1..Len(s) : (s \o t)[i] = s[i]
         /\ \A i \in 1..Len(t) : (s \o t)[Len(s) + i] = t[i]
<1>1. /\ s \o t \in Seq(S) /\ Len(s \o t) = Len(s) + Len(t)
      /\ \A i \in 1..(Len(s) + Len(t)) : (s \o t)[i] = IF i <= Len(s) THEN s[i] ELSE t[i - Len(s)]
  BY ConcatProperties
<1>2. Len(s) \in Nat /\ Len(t) \in Nat
  BY SeqAt
<1>3. ASSUME NEW i \in 1..Len(s)  PROVE (s \o t)[i] = s[i]
  <2>1. i \in 1..(Len(s) + Len(t)) /\ i <= Len(s)
    BY <1>2
  <2> QED  BY <1>1, <2>1
<1>4. ASSUME NEW i \in 1..Len(t)  PROVE (s \o t)[Len(s) + i] = t[i]
  <2>1. Len(s) + i \in 1..(Len(s) + Len(t)) /\ ~(Len(s) + i <= Len(s)) /\ (Len(s) + i) - Len(s) = i
    BY <1>2
  <2> QED  BY <1>1, <2>1
<1> QED  BY <1>1, <1>3, <1>4

\* A prefix, of at most n.
LEMMA PrefixAt ==
  ASSUME NEW S, NEW s \in Seq(S), NEW n \in Nat
  PROVE  /\ Upto(s, n) \in Seq(S)
         /\ Len(Upto(s, n)) \in Nat /\ Len(Upto(s, n)) <= n /\ Len(Upto(s, n)) <= Len(s)
         /\ n <= Len(s) => Len(Upto(s, n)) = n
         /\ n >= Len(s) => Upto(s, n) = s
         /\ \A i \in 1..Len(Upto(s, n)) : Upto(s, n)[i] = s[i]
<1> DEFINE m == IF n < Len(s) THEN n ELSE Len(s)
<1>1. Len(s) \in Nat /\ \A i \in 1..m : s[i] \in S
  BY SeqAt
<1>2. m \in Nat /\ m <= n /\ m <= Len(s) /\ (n <= Len(s) => m = n) /\ (n >= Len(s) => m = Len(s))
  BY <1>1
<1> HIDE DEF m
<1>3. /\ SubSeq(s, 1, m) \in Seq(S) /\ Len(SubSeq(s, 1, m)) = IF 1 <= m THEN m - 1 + 1 ELSE 0
      /\ \A i \in 1..(m - 1 + 1) : SubSeq(s, 1, m)[i] = s[1 + i - 1]
  BY <1>1, <1>2, SubSeqProperties
<1>4. Len(SubSeq(s, 1, m)) = m /\ \A i \in 1..m : SubSeq(s, 1, m)[i] = s[i]
  BY <1>2, <1>3
<1>5. n >= Len(s) => SubSeq(s, 1, m) = s
  BY <1>2, SubSeqFull
<1>6. Upto(s, n) = SubSeq(s, 1, m)
  BY DEF Upto, m
<1> QED  BY <1>2, <1>3, <1>4, <1>5, <1>6

\* What is left after n.
LEMMA SuffixAt ==
  ASSUME NEW S, NEW s \in Seq(S), NEW n \in Nat
  PROVE  LET t == SubSeq(s, n + 1, Len(s))
         IN  /\ t \in Seq(S)
             /\ Len(t) = IF n < Len(s) THEN Len(s) - n ELSE 0
             /\ \A i \in 1..Len(t) : t[i] = s[n + i] /\ n + i \in 1..Len(s)
<1> DEFINE t == SubSeq(s, n + 1, Len(s))
<1>1. Len(s) \in Nat /\ \A i \in (n + 1)..Len(s) : s[i] \in S
  BY SeqAt
<1>2. /\ t \in Seq(S) /\ Len(t) = IF n + 1 <= Len(s) THEN Len(s) - (n + 1) + 1 ELSE 0
      /\ \A i \in 1..(Len(s) - (n + 1) + 1) : t[i] = s[(n + 1) + i - 1]
  BY <1>1, SubSeqProperties
<1>3. Len(t) = IF n < Len(s) THEN Len(s) - n ELSE 0
  BY <1>1, <1>2
<1>4. ASSUME NEW i \in 1..Len(t)  PROVE t[i] = s[n + i] /\ n + i \in 1..Len(s)
  BY <1>1, <1>2, <1>3
<1> QED  BY <1>2, <1>3, <1>4

LEMMA FrontAt ==
  ASSUME NEW S, NEW s \in Seq(S), s # << >>
  PROVE  /\ Front(s) \in Seq(S)
         /\ Len(s) \in Nat \ {0} /\ Len(Front(s)) = Len(s) - 1
         /\ \A i \in 1..Len(Front(s)) : Front(s)[i] = s[i] /\ i \in 1..Len(s)
<1>1. Len(s) \in Nat \ {0}
  BY SeqAt
<1>2. Front(s) = Upto(s, Len(s) - 1)
  BY <1>1 DEF Front, Upto
<1>3. PICK n \in Nat : n = Len(s) - 1
  BY <1>1
<1>4. n <= Len(s) /\ Front(s) = Upto(s, n)
  BY <1>1, <1>2, <1>3
<1>5. /\ Upto(s, n) \in Seq(S) /\ (n <= Len(s) => Len(Upto(s, n)) = n)
      /\ \A i \in 1..Len(Upto(s, n)) : Upto(s, n)[i] = s[i]
  BY PrefixAt
<1>6. \A i \in 1..n : i \in 1..Len(s)
  BY <1>1, <1>3
<1> QED  BY <1>1, <1>3, <1>4, <1>5, <1>6

LEMMA TailAt ==
  ASSUME NEW S, NEW s \in Seq(S), s # << >>
  PROVE  /\ Tail(s) \in Seq(S) /\ Len(s) \in Nat \ {0} /\ Len(Tail(s)) = Len(s) - 1
         /\ \A i \in 1..Len(Tail(s)) : Tail(s)[i] = s[i + 1]
<1>1. Len(s) \in Nat \ {0}
  BY SeqAt
<1> QED  BY <1>1, HeadTailProperties

\* Ranges
LEMMA InRange ==
  ASSUME NEW S, NEW s \in Seq(S)
  PROVE  /\ Range(s) \subseteq S
         /\ \A e : e \in Range(s) <=> \E i \in 1..Len(s) : e = s[i]
BY SeqAt DEF Range

LEMMA RangeOfOne ==
  ASSUME NEW e
  PROVE  Range(<<e>>) = {e}
BY DEF Range

LEMMA RangeOfAppend ==
  ASSUME NEW S, NEW s \in Seq(S), NEW e \in S
  PROVE  Range(Append(s, e)) = Range(s) \cup {e}
<1>1. Append(s, e) \in Seq(S) /\ Len(s) \in Nat /\ Len(Append(s, e)) = Len(s) + 1
      /\ (\A i \in 1..Len(s) : Append(s, e)[i] = s[i]) /\ Append(s, e)[Len(s) + 1] = e
  BY AppendAt, SeqAt
<1>2. \A x : x \in Range(Append(s, e)) <=> \E i \in 1..(Len(s) + 1) : x = Append(s, e)[i]
  <2>1. \A x : x \in Range(Append(s, e)) <=> \E i \in 1..Len(Append(s, e)) : x = Append(s, e)[i]
    BY <1>1, InRange
  <2> QED  BY <1>1, <2>1
<1>3. \A x : x \in Range(s) <=> \E i \in 1..Len(s) : x = s[i]
  BY InRange
<1>4. ASSUME NEW x \in Range(Append(s, e))  PROVE x \in Range(s) \cup {e}
  <2>1. PICK i \in 1..(Len(s) + 1) : x = Append(s, e)[i]
    BY <1>2
  <2>2. i \in 1..Len(s) \/ i = Len(s) + 1
    BY <1>1
  <2> QED  BY <1>1, <1>3, <2>1, <2>2
<1>5. ASSUME NEW x \in Range(s)  PROVE x \in Range(Append(s, e))
  <2>1. PICK i \in 1..Len(s) : x = s[i]
    BY <1>3
  <2>2. i \in 1..(Len(s) + 1) /\ x = Append(s, e)[i]
    BY <1>1, <2>1
  <2> QED  BY <1>2, <2>2
<1>6. Len(s) + 1 \in 1..(Len(s) + 1)
  BY <1>1
<1> QED  BY <1>1, <1>2, <1>4, <1>5, <1>6

LEMMA RangeOfConcat ==
  ASSUME NEW S, NEW s \in Seq(S), NEW t \in Seq(S)
  PROVE  Range(s \o t) \subseteq Range(s) \cup Range(t)
<1>1. /\ s \o t \in Seq(S) /\ Len(s \o t) = Len(s) + Len(t)
      /\ Len(s) \in Nat /\ Len(t) \in Nat
      /\ \A i \in 1..Len(s) : (s \o t)[i] = s[i]
      /\ \A i \in 1..Len(t) : (s \o t)[Len(s) + i] = t[i]
  BY ConcatAt, SeqAt
<1>2. ASSUME NEW e \in Range(s \o t)  PROVE e \in Range(s) \cup Range(t)
  <2>0. \A u \in Seq(S) : e \in Range(u) => \E i \in 1..Len(u) : e = u[i]
    BY InRange
  <2>1. PICK i \in 1..Len(s \o t) : e = (s \o t)[i]
    BY <1>1, <1>2, <2>0
  <2>2. CASE i \in 1..Len(s)
    BY <1>1, <2>1, <2>2, InRange
  <2>3. CASE i \notin 1..Len(s)
    <3>1. i - Len(s) \in 1..Len(t) /\ Len(s) + (i - Len(s)) = i
      BY <1>1, <2>1, <2>3
    <3>2. e = t[i - Len(s)]
      BY <1>1, <2>1, <3>1
    <3> QED  BY <3>1, <3>2, InRange
  <2> QED  BY <2>2, <2>3
<1> QED  BY <1>2
-----------------------------------------------------------------------------
(* Lists of messages *)

LEMMA TextAt ==
  ASSUME NEW m \in Texts
  PROVE  m.role \in {"user", "call", "tool", "assistant"}
BY DEF Texts

LEMMA LinkedConcat ==
  ASSUME NEW s \in Seq(Texts), NEW t \in Seq(Texts), Linked(s), Linked(t),
         s # << >> /\ t # << >> => Follows(s[Len(s)], t[1])
  PROVE  Linked(s \o t)
<1>1. Len(s) \in Nat /\ Len(t) \in Nat /\ (s # << >> <=> Len(s) # 0) /\ (t # << >> <=> Len(t) # 0)
  BY SeqAt
<1>2. /\ Len(s \o t) = Len(s) + Len(t)
      /\ \A i \in 1..Len(s) : (s \o t)[i] = s[i]
      /\ \A i \in 1..Len(t) : (s \o t)[Len(s) + i] = t[i]
  BY ConcatAt
<1>3. SUFFICES ASSUME NEW i \in 2..(Len(s) + Len(t))
               PROVE  Follows((s \o t)[i - 1], (s \o t)[i])
  BY <1>2 DEF Linked
<1>4. CASE i <= Len(s)
  <2>1. i \in 2..Len(s) /\ i \in 1..Len(s) /\ i - 1 \in 1..Len(s)
    BY <1>1, <1>4
  <2>2. (s \o t)[i] = s[i] /\ (s \o t)[i - 1] = s[i - 1]
    BY <1>2, <2>1
  <2>3. Follows(s[i - 1], s[i])
    BY <2>1 DEF Linked
  <2> QED  BY <2>2, <2>3
<1>5. CASE i = Len(s) + 1
  <2>1. Len(s) \in 1..Len(s) /\ 1 \in 1..Len(t) /\ i - 1 = Len(s) /\ Len(s) # 0 /\ Len(t) # 0
    BY <1>1, <1>5
  <2>2. (s \o t)[i] = t[1] /\ (s \o t)[i - 1] = s[Len(s)]
    BY <1>2, <1>5, <2>1
  <2> QED  BY <1>1, <2>1, <2>2
<1>6. CASE i > Len(s) + 1
  <2>1. PICK k \in 2..Len(t) : i = Len(s) + k
    <3>1. i - Len(s) \in 2..Len(t) /\ i = Len(s) + (i - Len(s))
      BY <1>1, <1>6
    <3> QED  BY <3>1
  <2>2. k \in 1..Len(t) /\ k - 1 \in 1..Len(t) /\ i - 1 = Len(s) + (k - 1)
    BY <1>1, <2>1
  <2>3. (s \o t)[i] = t[k] /\ (s \o t)[i - 1] = t[k - 1]
    BY <1>2, <2>1, <2>2
  <2>4. Follows(t[k - 1], t[k])
    BY <2>1 DEF Linked
  <2> QED  BY <2>3, <2>4
<1> QED  BY <1>1, <1>4, <1>5, <1>6

LEMMA SettledConcat ==
  ASSUME NEW s \in Seq(Texts), NEW t \in Seq(Texts), Settled(s), Settled(t)
  PROVE  Settled(s \o t)
<1>1. Len(s) \in Nat /\ Len(t) \in Nat /\ (s # << >> <=> Len(s) # 0) /\ (t # << >> <=> Len(t) # 0)
  BY SeqAt
<1>2. /\ s \o t \in Seq(Texts) /\ Len(s \o t) = Len(s) + Len(t)
      /\ \A i \in 1..Len(s) : (s \o t)[i] = s[i]
      /\ \A i \in 1..Len(t) : (s \o t)[Len(s) + i] = t[i]
  BY ConcatAt
<1>3. s # << >> /\ t # << >> => Follows(s[Len(s)], t[1])
  BY DEF Settled, Begun, Closed, Follows
<1>4. Linked(s \o t)
  BY <1>3, LinkedConcat DEF Settled
<1>5. Begun(s \o t)
  <2>1. CASE Len(s) # 0
    <3>1. 1 \in 1..Len(s)
      BY <1>1, <2>1
    <3> QED  BY <1>1, <1>2, <2>1, <3>1 DEF Settled, Begun
  <2>2. CASE Len(s) = 0 /\ Len(t) # 0
    <3>1. 1 \in 1..Len(t) /\ Len(s) + 1 = 1
      BY <1>1, <2>2
    <3> QED  BY <1>1, <1>2, <2>2, <3>1 DEF Settled, Begun
  <2>3. CASE Len(s) = 0 /\ Len(t) = 0
    BY <1>1, <1>2, <2>3, SeqAt DEF Begun
  <2> QED  BY <2>1, <2>2, <2>3
<1>6. Closed(s \o t)
  <2>1. CASE Len(t) # 0
    <3>1. Len(t) \in 1..Len(t)
      BY <1>1, <2>1
    <3>2. (s \o t)[Len(s \o t)] = t[Len(t)]
      BY <1>2, <3>1
    <3> QED  BY <1>1, <2>1, <3>2 DEF Settled, Closed
  <2>2. CASE Len(t) = 0 /\ Len(s) # 0
    <3>1. Len(s) \in 1..Len(s) /\ Len(s \o t) = Len(s)
      BY <1>1, <1>2, <2>2
    <3>2. (s \o t)[Len(s \o t)] = s[Len(s)]
      BY <1>2, <3>1
    <3> QED  BY <1>1, <2>2, <3>2 DEF Settled, Closed
  <2>3. CASE Len(s) = 0 /\ Len(t) = 0
    BY <1>1, <1>2, <2>3, SeqAt DEF Closed
  <2> QED  BY <2>1, <2>2, <2>3
<1> QED  BY <1>4, <1>5, <1>6 DEF Settled

\* A prefix that ends where a prompt begins.
LEMMA PrefixSettled ==
  ASSUME NEW s \in Seq(Texts), NEW n \in Nat, Settled(s), Opens(s, n)
  PROVE  Settled(Upto(s, n))
<1> DEFINE p == Upto(s, n)
<1>1. /\ p \in Seq(Texts) /\ Len(p) \in Nat /\ Len(p) <= n /\ Len(p) <= Len(s)
      /\ n <= Len(s) => Len(p) = n
      /\ n >= Len(s) => p = s
      /\ \A i \in 1..Len(p) : p[i] = s[i]
  BY PrefixAt
<1>2. Len(s) \in Nat /\ (s # << >> <=> Len(s) # 0) /\ (p # << >> <=> Len(p) # 0)
      /\ \A i \in 1..Len(s) : s[i] \in Texts
  BY <1>1, SeqAt
<1> HIDE DEF p
<1>3. CASE n >= Len(s)
  BY <1>1, <1>3 DEF p
<1>4. CASE n < Len(s)
  <2>1. Len(p) = n
    BY <1>1, <1>2, <1>4
  <2>2. Linked(p)
    <3>1. SUFFICES ASSUME NEW i \in 2..n  PROVE Follows(p[i - 1], p[i])
      BY <2>1 DEF Linked
    <3>2. i \in 1..n /\ i - 1 \in 1..n /\ i \in 2..Len(s)
      BY <1>2, <1>4
    <3>3. p[i] = s[i] /\ p[i - 1] = s[i - 1]
      BY <1>1, <2>1, <3>2
    <3> QED  BY <3>2, <3>3 DEF Settled, Linked
  <2>3. CASE n = 0
    BY <1>2, <2>1, <2>2, <2>3 DEF Settled, Begun, Closed, p
  <2>4. CASE n # 0
    <3>1. 1 \in 1..n /\ n \in 1..n /\ n \in 1..Len(s) /\ n + 1 \in 2..Len(s) /\ (n + 1) - 1 = n
      BY <1>2, <1>4, <2>4
    <3>2. p[1] = s[1] /\ p[n] = s[n] /\ s[n] \in Texts
      BY <1>1, <1>2, <2>1, <3>1
    <3>3. Follows(s[n], s[n + 1])
      BY <3>1 DEF Settled, Linked
    <3>4. s[n + 1].role = "user" /\ s[1].role = "user"
      BY <1>2, <1>4, <3>1 DEF Opens, Settled, Begun
    <3>5. p[n].role \in {"assistant", "tool"}
      BY <3>2, <3>3, <3>4, TextAt DEF Follows
    <3> QED  BY <2>1, <2>2, <3>2, <3>4, <3>5 DEF Settled, Begun, Closed, p
  <2> QED  BY <2>3, <2>4
<1> QED  BY <1>2, <1>3, <1>4

LEMMA SuffixLinked ==
  ASSUME NEW s \in Seq(Texts), NEW n \in Nat, Linked(s)
  PROVE  Linked(SubSeq(s, n + 1, Len(s)))
<1> DEFINE t == SubSeq(s, n + 1, Len(s))
<1>1. /\ t \in Seq(Texts) /\ Len(t) = IF n < Len(s) THEN Len(s) - n ELSE 0
      /\ \A i \in 1..Len(t) : t[i] = s[n + i] /\ n + i \in 1..Len(s)
  BY SuffixAt
<1>2. Len(s) \in Nat /\ Len(t) \in Nat
  BY <1>1, SeqAt
<1> HIDE DEF t
<1>3. ASSUME NEW i \in 2..Len(t)  PROVE Follows(t[i - 1], t[i])
  <2>1. i \in 1..Len(t) /\ i - 1 \in 1..Len(t) /\ n + i \in Nat /\ (n + i) - 1 = n + (i - 1)
    BY <1>2
  <2>2. t[i] = s[n + i] /\ t[i - 1] = s[n + (i - 1)] /\ n + i \in 1..Len(s)
    BY <1>1, <2>1
  <2>3. n + i \in 2..Len(s)
    BY <1>2, <2>2
  <2>4. Follows(s[(n + i) - 1], s[n + i])
    BY <2>3 DEF Linked
  <2> QED  BY <2>1, <2>2, <2>4
<1>4. Linked(t)
  BY <1>3 DEF Linked
<1> QED  BY <1>4 DEF t

\* What is cut off where a prompt begins.
LEMMA SuffixSettled ==
  ASSUME NEW s \in Seq(Texts), NEW n \in Nat, Settled(s), Opens(s, n)
  PROVE  Settled(SubSeq(s, n + 1, Len(s)))
<1> DEFINE t == SubSeq(s, n + 1, Len(s))
<1>1. /\ t \in Seq(Texts) /\ Len(t) = IF n < Len(s) THEN Len(s) - n ELSE 0
      /\ \A i \in 1..Len(t) : t[i] = s[n + i] /\ n + i \in 1..Len(s)
  BY SuffixAt
<1>2. Len(s) \in Nat /\ Len(t) \in Nat /\ (s # << >> <=> Len(s) # 0) /\ (t # << >> <=> Len(t) # 0)
  BY <1>1, SeqAt
<1>3. Linked(t)
  BY SuffixLinked DEF Settled
<1> HIDE DEF t
<1>4. CASE n < Len(s)
  <2>1. 1 \in 1..Len(t) /\ Len(t) \in 1..Len(t) /\ n + Len(t) = Len(s) /\ Len(s) # 0
    BY <1>1, <1>2, <1>4
  <2>2. t[1] = s[n + 1] /\ t[Len(t)] = s[n + Len(t)]
    BY <1>1, <2>1
  <2>3. t[1].role = "user" /\ t[Len(t)].role \in {"assistant", "tool"}
    BY <1>2, <1>4, <2>1, <2>2 DEF Opens, Settled, Closed
  <2> QED  BY <1>3, <2>3 DEF Settled, Begun, Closed, t
<1>5. CASE ~(n < Len(s))
  BY <1>1, <1>2, <1>3, <1>5 DEF Settled, Begun, Closed, t
<1> QED  BY <1>4, <1>5

\* A prompt without a reply is taken back.
LEMMA FrontSettled ==
  ASSUME NEW s \in Seq(Texts), Linked(s), Begun(s), s # << >>, Last(s).role = "user"
  PROVE  Settled(Front(s))
<1> DEFINE p == Front(s)
<1>1. /\ p \in Seq(Texts) /\ Len(s) \in Nat \ {0} /\ Len(p) = Len(s) - 1
      /\ \A i \in 1..Len(p) : p[i] = s[i] /\ i \in 1..Len(s)
  BY FrontAt
<1>2. (p # << >> <=> Len(p) # 0) /\ \A i \in 1..Len(s) : s[i] \in Texts
  BY <1>1, SeqAt
<1> HIDE DEF p
<1>3. Linked(p)
  <2>1. SUFFICES ASSUME NEW i \in 2..Len(p)  PROVE Follows(p[i - 1], p[i])
    BY DEF Linked
  <2>2. i \in 1..Len(p) /\ i - 1 \in 1..Len(p) /\ i \in 2..Len(s)
    BY <1>1
  <2>3. p[i] = s[i] /\ p[i - 1] = s[i - 1]
    BY <1>1, <2>2
  <2> QED  BY <2>2, <2>3 DEF Linked
<1>4. CASE Len(p) = 0
  BY <1>2, <1>3, <1>4 DEF Settled, Begun, Closed, p
<1>5. CASE Len(p) # 0
  <2>1. 1 \in 1..Len(p) /\ Len(p) \in 1..Len(p) /\ Len(s) \in 2..Len(s) /\ Len(s) - 1 = Len(p)
    BY <1>1, <1>5
  <2>2. p[1] = s[1] /\ p[Len(p)] = s[Len(s) - 1] /\ p[Len(p)] \in Texts
    BY <1>1, <1>2, <2>1
  <2>3. Follows(s[Len(s) - 1], s[Len(s)])
    BY <2>1 DEF Linked
  <2>4. p[1].role = "user" /\ p[Len(p)].role \in {"assistant", "tool"}
    BY <2>2, <2>3, TextAt DEF Follows, Last, Begun
  <2> QED  BY <1>3, <2>4 DEF Settled, Begun, Closed, p
<1> QED  BY <1>4, <1>5

LEMMA OpensPrefix ==
  ASSUME NEW S, NEW s \in Seq(S), NEW m \in Nat, NEW n \in Nat, Opens(s, n)
  PROVE  Opens(Upto(s, m), n)
<1>1. /\ Len(Upto(s, m)) \in Nat /\ Len(Upto(s, m)) <= Len(s) /\ Len(s) \in Nat
      /\ \A i \in 1..Len(Upto(s, m)) : Upto(s, m)[i] = s[i]
  BY PrefixAt, SeqAt
<1>2. SUFFICES ASSUME n < Len(Upto(s, m))  PROVE Upto(s, m)[n + 1].role = "user"
  BY DEF Opens
<1>3. n + 1 \in 1..Len(Upto(s, m)) /\ n < Len(s)
  BY <1>1, <1>2
<1> QED  BY <1>1, <1>3 DEF Opens

LEMMA OpensSuffix ==
  ASSUME NEW S, NEW s \in Seq(S), NEW m \in Nat, NEW n \in Nat, Opens(s, m + n)
  PROVE  Opens(SubSeq(s, m + 1, Len(s)), n)
<1> DEFINE t == SubSeq(s, m + 1, Len(s))
<1>1. /\ Len(t) = IF m < Len(s) THEN Len(s) - m ELSE 0
      /\ \A i \in 1..Len(t) : t[i] = s[m + i] /\ m + i \in 1..Len(s)
  BY SuffixAt
<1>2. Len(s) \in Nat
  BY SeqAt
<1> HIDE DEF t
<1>3. SUFFICES ASSUME n < Len(t)  PROVE t[n + 1].role = "user"
  BY DEF Opens, t
<1>4. n + 1 \in 1..Len(t) /\ m + n < Len(s) /\ m + (n + 1) = (m + n) + 1
  BY <1>1, <1>2, <1>3
<1>5. t[n + 1] = s[(m + n) + 1]
  BY <1>1, <1>4
<1> QED  BY <1>4, <1>5 DEF Opens

LEMMA OpensConcat ==
  ASSUME NEW S, NEW s \in Seq(S), NEW t \in Seq(S), NEW n \in Nat,
         Opens(s, n), \A k \in Nat : n = Len(s) + k => Opens(t, k)
  PROVE  Opens(s \o t, n)
<1>1. /\ Len(s \o t) = Len(s) + Len(t)
      /\ \A i \in 1..Len(s) : (s \o t)[i] = s[i]
      /\ \A i \in 1..Len(t) : (s \o t)[Len(s) + i] = t[i]
  BY ConcatAt
<1>2. Len(s) \in Nat /\ Len(t) \in Nat
  BY SeqAt
<1>3. SUFFICES ASSUME n < Len(s) + Len(t)  PROVE (s \o t)[n + 1].role = "user"
  BY <1>1 DEF Opens
<1>4. CASE n < Len(s)
  <2>1. n + 1 \in 1..Len(s)
    BY <1>2, <1>4
  <2> QED  BY <1>1, <1>4, <2>1 DEF Opens
<1>5. CASE n >= Len(s)
  <2>1. PICK k \in Nat : n = Len(s) + k
    <3>1. n - Len(s) \in Nat /\ n = Len(s) + (n - Len(s))
      BY <1>2, <1>5
    <3> QED  BY <3>1
  <2>2. k + 1 \in 1..Len(t) /\ k < Len(t) /\ n + 1 = Len(s) + (k + 1)
    BY <1>2, <1>3, <2>1
  <2>3. (s \o t)[n + 1] = t[k + 1]
    BY <1>1, <2>2
  <2> QED  BY <2>1, <2>2, <2>3 DEF Opens
<1>6. n < Len(s) \/ n >= Len(s)
  BY <1>2
<1> QED  BY <1>4, <1>5, <1>6

-----------------------------------------------------------------------------
(* Compaction *)

\* A set of natural numbers has a least member, because finite sets are
\* well-founded under inclusion.
LEMMA LeastMember ==
  ASSUME NEW S \in SUBSET Nat, NEW n \in S
  PROVE  \E m \in S : \A k \in S : m <= k
<1> DEFINE T == {0..k : k \in {j \in S : j <= n}}
<1>1. IsWellFoundedOn(StrictSubsetOrdering(0..n), SUBSET (0..n))
  <2>1. IsFiniteSet(0..n)
    BY FS_Interval
  <2>2. FiniteSubsetsOf(0..n) = SUBSET (0..n)
    BY <2>1, FS_FiniteSubsetsOfFinite
  <2> QED  BY <2>1, <2>2, FS_StrictSubsetOrderingWellFounded
<1>2. T \subseteq SUBSET (0..n) /\ 0..n \in T
  OBVIOUS
<1> HIDE DEF T
<1>3. PICK x \in T : \A y \in T : <<y, x>> \notin StrictSubsetOrdering(0..n)
  BY <1>1, <1>2, WFMin
<1>4. PICK m \in S : m <= n /\ x = 0..m
  BY <1>3 DEF T
<1>5. ASSUME NEW k \in S, k < m  PROVE FALSE
  <2>1. k <= n /\ 0..k \in T
    BY <1>4, <1>5 DEF T
  <2>2. m \in 0..m /\ m \notin 0..k /\ 0..k \subseteq 0..m
    BY <1>5
  <2>3. 0..k \in SUBSET (0..n) /\ 0..m \in SUBSET (0..n) /\ 0..k # 0..m
    BY <2>2, <1>4
  <2>4. <<0..k, x>> \in StrictSubsetOrdering(0..n)
    BY <2>2, <2>3, <1>4 DEF StrictSubsetOrdering
  <2> QED  BY <2>1, <2>4, <1>3
<1> QED  BY <1>5

\* So a set of numbers up to a bound has a greatest.
LEMMA GreatestMember ==
  ASSUME NEW n \in Nat, NEW S \in SUBSET (0..n), S # {}
  PROVE  \E m \in S : \A k \in S : k <= m
<1> DEFINE T == {n - k : k \in S}
<1>1. T \in SUBSET Nat /\ \E t : t \in T
  <2>1. \A k \in S : n - k \in Nat
    OBVIOUS
  <2>2. PICK k \in S : TRUE
    OBVIOUS
  <2> QED  BY <2>1, <2>2
<1>2. PICK t \in T : \A u \in T : t <= u
  BY <1>1, LeastMember
<1>3. PICK m \in S : t = n - m
  BY <1>2
<1>4. ASSUME NEW k \in S  PROVE k <= m
  <2>1. n - k \in T
    OBVIOUS
  <2>2. n - m <= n - k
    BY <1>2, <1>3, <2>1
  <2> QED  BY <2>2
<1> QED  BY <1>4

LEMMA CutIs ==
  ASSUME NEW list \in Seq(Texts), Cut(list) > 0
  PROVE  /\ Cut(list) \in Nat \ {0} /\ Cut(list) < Len(list)
         /\ list[Cut(list) + 1].role # "tool"
<1> DEFINE keep == IF Len(list) <= Keep THEN 1 ELSE Keep
           starts == {c \in 1..(Len(list) - keep) : list[c + 1].role # "tool"}
<1>1. Len(list) \in Nat /\ keep \in Nat \ {0}
  BY SeqAt
<1>2. starts # {} /\ Cut(list) = CHOOSE c \in starts : \A d \in starts : d <= c
  <2>1. Cut(list) = IF Len(list) < 3 \/ starts = {} THEN 0
                    ELSE CHOOSE c \in starts : \A d \in starts : d <= c
    BY DEF Cut
  <2>2. ~(Len(list) < 3 \/ starts = {})
    <3> HIDE DEF starts
    <3> QED  BY <2>1
  <2> QED  BY <2>1, <2>2
<1>3. starts \in SUBSET (0..Len(list))
  BY <1>1
<1>4. \E c \in starts : \A d \in starts : d <= c
  <2> HIDE DEF starts
  <2> QED  BY <1>1, <1>2, <1>3, GreatestMember
<1>5. Cut(list) \in starts
  BY <1>2, <1>4
<1> QED  BY <1>1, <1>5

LEMMA KnownAt ==
  ASSUME NEW list \in Seq(Texts)
  PROVE  /\ Known(list) \in SUBSET Facts
         /\ \A f : f \in Known(list) <=> \E i \in 1..Len(list) : f \in list[i].tells
<1>1. DOMAIN list = 1..Len(list) /\ \A i \in 1..Len(list) : list[i] \in Texts
  BY SeqAt
<1>2. \A m \in Texts : m.tells \in SUBSET Facts
  BY DEF Texts
<1>3. \A f : f \in Known(list) <=> \E i \in 1..Len(list) : f \in list[i].tells
  BY <1>1 DEF Known
<1>4. ASSUME NEW f \in Known(list)  PROVE f \in Facts
  <2>1. PICK i \in 1..Len(list) : f \in list[i].tells
    BY <1>3, <1>4
  <2> QED  BY <1>1, <1>2, <2>1
<1> QED  BY <1>3, <1>4

\* The first of the messages that are left, and the others.
SummaryFirst(list) ==
  LET past == Known(SubSeq(list, 1, Cut(list)))
      first == list[Cut(list) + 1]
  IN  IF first.role = "user" THEN [first EXCEPT !.tells = @ \cup past]
      ELSE [role |-> "user", turn |-> 0, tells |-> past]
KeptAfter(list) ==
  LET recent == SubSeq(list, Cut(list) + 1, Len(list))
  IN  IF list[Cut(list) + 1].role = "user" THEN Tail(recent) ELSE recent

LEMMA CompactedForm ==
  ASSUME NEW list \in Seq(Texts), Cut(list) > 0
  PROVE  /\ Compacted(list) = <<SummaryFirst(list)>> \o KeptAfter(list)
         /\ SummaryFirst(list) \in Texts /\ SummaryFirst(list).role = "user"
         /\ KeptAfter(list) \in Seq(Texts)
         /\ Linked(list) => Linked(KeptAfter(list))
         /\ KeptAfter(list) # << >> =>
              /\ KeptAfter(list)[Len(KeptAfter(list))] = list[Len(list)]
              /\ Linked(list) => Follows(SummaryFirst(list), KeptAfter(list)[1])
         /\ KeptAfter(list) = << >> => list[Len(list)].role = "user"
<1> DEFINE recent == SubSeq(list, Cut(list) + 1, Len(list))
           past == Known(SubSeq(list, 1, Cut(list)))
<1>1. Cut(list) \in Nat \ {0} /\ Cut(list) < Len(list) /\ list[Cut(list) + 1].role # "tool"
  BY CutIs
<1>2. Len(list) \in Nat /\ \A i \in 1..Len(list) : list[i] \in Texts
  BY SeqAt
<1>3. PICK cut \in Nat \ {0} : cut = Cut(list)
  BY <1>1
<1>4. /\ recent \in Seq(Texts) /\ Len(recent) = Len(list) - cut
      /\ \A i \in 1..Len(recent) : recent[i] = list[cut + i] /\ cut + i \in 1..Len(list)
  <2>1. LET t == SubSeq(list, cut + 1, Len(list))
        IN  /\ t \in Seq(Texts) /\ Len(t) = IF cut < Len(list) THEN Len(list) - cut ELSE 0
            /\ \A i \in 1..Len(t) : t[i] = list[cut + i] /\ cut + i \in 1..Len(list)
    BY SuffixAt
  <2> QED  BY <1>1, <1>3, <2>1
<1> HIDE DEF recent
<1>5. /\ Len(recent) \in Nat \ {0} /\ recent # << >> /\ recent[1] = list[cut + 1]
      /\ recent[Len(recent)] = list[Len(list)] /\ recent[1] \in Texts
      /\ 1 \in 1..Len(recent)
  <2>1. Len(recent) \in Nat \ {0}
    BY <1>1, <1>2, <1>3, <1>4
  <2>2. 1 \in 1..Len(recent) /\ Len(recent) \in 1..Len(recent) /\ cut + Len(recent) = Len(list)
    BY <1>2, <1>4, <2>1
  <2>3. recent[1] = list[cut + 1] /\ recent[Len(recent)] = list[Len(list)]
    BY <1>4, <2>2
  <2> QED  BY <1>4, <2>1, <2>2, <2>3, SeqAt
<1>6. Linked(list) => Linked(recent)
  <2>1. Linked(list) => Linked(SubSeq(list, cut + 1, Len(list)))
    BY SuffixLinked
  <2> QED  BY <1>3, <2>1 DEF recent
<1>7. past \in SUBSET Facts
  <2>1. \A i \in 1..Cut(list) : list[i] \in Texts
    BY <1>1, <1>2
  <2>2. SubSeq(list, 1, Cut(list)) \in Seq(Texts)
    BY <1>1, <2>1, SubSeqProperties
  <2> QED  BY <2>2, KnownAt
<1> HIDE DEF past
<1>8. CASE list[cut + 1].role = "user"
  <2>1. /\ Compacted(list) = <<SummaryFirst(list)>> \o KeptAfter(list)
        /\ SummaryFirst(list) = [recent[1] EXCEPT !.tells = @ \cup past]
        /\ KeptAfter(list) = Tail(recent)
    BY <1>3, <1>5, <1>8 DEF Compacted, SummaryFirst, KeptAfter, recent, past
  <2>2. SummaryFirst(list) \in Texts /\ SummaryFirst(list).role = "user"
    BY <1>5, <1>7, <1>8, <2>1 DEF Texts
  <2>3. /\ Tail(recent) \in Seq(Texts) /\ Len(Tail(recent)) = Len(recent) - 1
        /\ \A i \in 1..Len(Tail(recent)) : Tail(recent)[i] = recent[i + 1]
    BY <1>4, <1>5, TailAt
  <2>4. Tail(recent) # << >> <=> Len(recent) # 1
    <3>1. Tail(recent) # << >> <=> Len(Tail(recent)) # 0
      BY <2>3, SeqAt
    <3> QED  BY <1>5, <2>3, <3>1
  <2>5. Linked(recent) => Linked(Tail(recent))
    <3>1. SUFFICES ASSUME Linked(recent), NEW i \in 2..Len(Tail(recent))
                   PROVE  Follows(Tail(recent)[i - 1], Tail(recent)[i])
      BY DEF Linked
    <3>2. i \in 1..Len(Tail(recent)) /\ i - 1 \in 1..Len(Tail(recent)) /\ i + 1 \in 2..Len(recent)
          /\ (i + 1) - 1 = i /\ (i - 1) + 1 = i
      BY <1>5, <2>3
    <3>3. Tail(recent)[i] = recent[i + 1] /\ Tail(recent)[i - 1] = recent[i]
      BY <2>3, <3>2
    <3>4. Follows(recent[(i + 1) - 1], recent[i + 1])
      BY <3>1, <3>2 DEF Linked
    <3> QED  BY <3>2, <3>3, <3>4
  <2>6. ASSUME Len(recent) # 1
        PROVE  /\ Tail(recent)[Len(Tail(recent))] = list[Len(list)]
               /\ Linked(recent) => Follows(SummaryFirst(list), Tail(recent)[1])
    <3>1. 1 \in 1..Len(Tail(recent)) /\ Len(Tail(recent)) \in 1..Len(Tail(recent))
          /\ Len(Tail(recent)) + 1 = Len(recent) /\ 2 \in 2..Len(recent)
      BY <1>5, <2>3, <2>6
    <3>2. Tail(recent)[1] = recent[2] /\ Tail(recent)[Len(Tail(recent))] = recent[Len(recent)]
      BY <2>3, <3>1
    <3>3. Linked(recent) => Follows(recent[1], recent[2])
      BY <3>1 DEF Linked
    <3>4. recent[1].role = SummaryFirst(list).role
      BY <1>5, <1>8, <2>2
    <3> QED  BY <1>5, <3>2, <3>3, <3>4 DEF Follows
  <2>7. Len(recent) = 1 => list[Len(list)].role = "user"
    BY <1>5, <1>8
  <2> QED  BY <1>6, <2>1, <2>2, <2>3, <2>4, <2>5, <2>6, <2>7
<1>9. CASE list[cut + 1].role # "user"
  <2>1. /\ Compacted(list) = <<SummaryFirst(list)>> \o KeptAfter(list)
        /\ SummaryFirst(list) = [role |-> "user", turn |-> 0, tells |-> past]
        /\ KeptAfter(list) = recent
    BY <1>3, <1>5, <1>9 DEF Compacted, SummaryFirst, KeptAfter, recent, past
  <2>2. SummaryFirst(list) \in Texts /\ SummaryFirst(list).role = "user"
    BY <1>7, <2>1 DEF Texts
  <2>3. Follows(SummaryFirst(list), recent[1])
    BY <1>1, <1>3, <1>5, <1>9, <2>2 DEF Follows
  <2> QED  BY <1>4, <1>5, <1>6, <2>1, <2>2, <2>3
<1> QED  BY <1>8, <1>9

\* A compaction leaves a well-formed list that ends as the old one did.
LEMMA CompactedShape ==
  ASSUME NEW list \in Seq(Texts), Cut(list) > 0
  PROVE  /\ Compacted(list) \in Seq(Texts) /\ Compacted(list) # << >>
         /\ Begun(Compacted(list))
         /\ Last(Compacted(list)).role = Last(list).role
         /\ Linked(list) => Linked(Compacted(list))
<1> DEFINE first == SummaryFirst(list)
           rest == KeptAfter(list)
<1>1. /\ Compacted(list) = <<first>> \o rest /\ first \in Texts /\ first.role = "user"
      /\ rest \in Seq(Texts) /\ (Linked(list) => Linked(rest))
      /\ rest # << >> => /\ rest[Len(rest)] = list[Len(list)]
                         /\ Linked(list) => Follows(first, rest[1])
      /\ rest = << >> => list[Len(list)].role = "user"
  BY CompactedForm
<1> HIDE DEF first, rest
<1>2. <<first>> \in Seq(Texts) /\ Len(<<first>>) = 1 /\ <<first>>[1] = first /\ <<first>> # << >>
  BY <1>1, OneIn
<1>3. /\ <<first>> \o rest \in Seq(Texts) /\ Len(<<first>> \o rest) = 1 + Len(rest)
      /\ \A i \in 1..1 : (<<first>> \o rest)[i] = <<first>>[i]
      /\ \A i \in 1..Len(rest) : (<<first>> \o rest)[1 + i] = rest[i]
  BY <1>1, <1>2, ConcatAt
<1>4. Len(rest) \in Nat /\ (rest # << >> <=> Len(rest) # 0)
  BY <1>1, SeqAt
<1>5. Compacted(list) # << >> /\ Compacted(list)[1] = first
  <2>1. 1 \in 1..1 /\ 1 + Len(rest) # 0
    BY <1>4
  <2>2. <<first>> \o rest # << >>
    BY <1>3, <2>1, SeqAt
  <2> QED  BY <1>1, <1>2, <1>3, <2>1, <2>2
<1>6. Last(Compacted(list)).role = Last(list).role
  <2>1. CASE rest # << >>
    <3>1. Len(rest) \in 1..Len(rest)
      BY <1>4, <2>1
    <3>2. (<<first>> \o rest)[1 + Len(rest)] = rest[Len(rest)]
      BY <1>3, <3>1
    <3> QED  BY <1>1, <1>3, <2>1, <3>2 DEF Last
  <2>2. CASE rest = << >>
    <3>1. Len(rest) = 0 /\ 1 + Len(rest) = 1
      BY <1>4, <2>2
    <3> QED  BY <1>1, <1>3, <1>5, <2>2, <3>1 DEF Last
  <2> QED  BY <2>1, <2>2
<1>7. Linked(list) => Linked(Compacted(list))
  <2>1. Linked(<<first>>)
    BY <1>2 DEF Linked
  <2> QED  BY <1>1, <1>2, <2>1, LinkedConcat
<1> QED  BY <1>1, <1>3, <1>5, <1>6, <1>7 DEF Begun

-----------------------------------------------------------------------------
(* Types and lengths *)

LEMMA FunIsSeq ==
  ASSUME NEW S, NEW n \in Nat, NEW f \in [1..n -> S]
  PROVE  f \in Seq(S) /\ Len(f) = n
<1>1. f \in Seq(S)
  BY SeqDef
<1>2. DOMAIN f = 1..n /\ DOMAIN f = 1..Len(f) /\ Len(f) \in Nat
  BY <1>1, SeqAt
<1> QED  BY <1>1, <1>2

LEMMA CheckpointTyped ==
  ASSUME Typed, LengthInv, NEW green \in BOOLEAN
  PROVE  Checkpoint(green) \in Remembered
<1>1. Len(messages) \in Nat /\ Len(history) \in Nat
  BY SeqAt DEF Typed, ListTypes
<1>2. Len(history) <= 2 * MaxTurns
  BY <1>1 DEF LengthInv, Typed, TurnTypes
<1> QED  BY <1>1, <1>2 DEF Checkpoint, Remembered, Lengths, Mark, Typed, TurnTypes, StoreTypes

LEMMA OvertakenAt ==
  ASSUME NEW cps \in Seq(Remembered)
  PROVE  /\ Overtaken(cps) \in Seq(Remembered)
         /\ Len(Overtaken(cps)) = Len(cps) /\ DOMAIN Overtaken(cps) = 1..Len(cps)
         /\ \A i \in 1..Len(cps) :
              /\ Overtaken(cps)[i].mark = cps[i].mark
              /\ Overtaken(cps)[i].tree = cps[i].tree
              /\ Overtaken(cps)[i].green = cps[i].green
              /\ \/ Overtaken(cps)[i].epoch = NoEpoch
                 \/ /\ Overtaken(cps)[i].epoch = cps[i].epoch
                    /\ ~(cps[i].mark.messages > Len(messages))
                    /\ ~(cps[i].mark.history > Len(history))
<1>1. Len(cps) \in Nat /\ DOMAIN cps = 1..Len(cps) /\ \A i \in 1..Len(cps) : cps[i] \in Remembered
  BY SeqAt
<1> DEFINE e(i) == IF cps[i].mark.messages > Len(messages) \/ cps[i].mark.history > Len(history)
                   THEN [cps[i] EXCEPT !.epoch = NoEpoch] ELSE cps[i]
<1>2. Overtaken(cps) = [i \in 1..Len(cps) |-> e(i)]
  BY <1>1 DEF Overtaken
<1>3. ASSUME NEW i \in 1..Len(cps)
      PROVE  /\ e(i) \in Remembered
             /\ e(i).mark = cps[i].mark /\ e(i).tree = cps[i].tree /\ e(i).green = cps[i].green
             /\ \/ e(i).epoch = NoEpoch
                \/ /\ e(i).epoch = cps[i].epoch
                   /\ ~(cps[i].mark.messages > Len(messages)) /\ ~(cps[i].mark.history > Len(history))
  <2>1. cps[i] \in Remembered /\ NoEpoch \in Nat
    BY <1>1 DEF NoEpoch
  <2>2. CASE cps[i].mark.messages > Len(messages) \/ cps[i].mark.history > Len(history)
    <3>1. e(i) = [cps[i] EXCEPT !.epoch = NoEpoch]
      BY <2>2
    <3> HIDE DEF e
    <3> QED  BY <2>1, <3>1 DEF Remembered
  <2>3. CASE ~(cps[i].mark.messages > Len(messages) \/ cps[i].mark.history > Len(history))
    <3>1. e(i) = cps[i]
      BY <2>3
    <3> HIDE DEF e
    <3> QED  BY <2>1, <2>3, <3>1
  <2> QED  BY <2>2, <2>3
<1> HIDE DEF e
<1>4. Overtaken(cps) \in [1..Len(cps) -> Remembered] /\ \A i \in 1..Len(cps) : Overtaken(cps)[i] = e(i)
  BY <1>2, <1>3
<1>5. Overtaken(cps) \in Seq(Remembered) /\ Len(Overtaken(cps)) = Len(cps)
  BY <1>1, <1>4, FunIsSeq
<1> QED  BY <1>3, <1>4, <1>5

\* What a turn that takes no checkpoint does to the redo line.
LEMMA OvertakenLine ==
  ASSUME NEW line \in Seq(RedoEntries), NEW new,
         new = [i \in DOMAIN line |-> [line[i] EXCEPT !.reAdd = Overtaken(@)]]
  PROVE  /\ new \in Seq(RedoEntries) /\ Len(new) = Len(line)
         /\ \A i \in 1..Len(line) :
              /\ new[i].tree = line[i].tree /\ new[i].payload = line[i].payload
              /\ new[i].reAdd = Overtaken(line[i].reAdd)
<1>1. Len(line) \in Nat /\ DOMAIN line = 1..Len(line) /\ \A i \in 1..Len(line) : line[i] \in RedoEntries
  BY SeqAt
<1>2. ASSUME NEW i \in 1..Len(line)
      PROVE  /\ new[i] \in RedoEntries /\ new[i].tree = line[i].tree
             /\ new[i].payload = line[i].payload /\ new[i].reAdd = Overtaken(line[i].reAdd)
  <2>1. new[i] = [line[i] EXCEPT !.reAdd = Overtaken(@)] /\ line[i] \in RedoEntries
    BY <1>1
  <2>2. line[i].reAdd \in Seq(Remembered)
    BY <2>1 DEF RedoEntries
  <2>3. Overtaken(line[i].reAdd) \in Seq(Remembered)
    BY <2>2, OvertakenAt
  <2> QED  BY <2>1, <2>3 DEF RedoEntries
<1>3. new \in [1..Len(line) -> RedoEntries]
  BY <1>1, <1>2
<1> QED  BY <1>1, <1>2, <1>3, FunIsSeq

\* What /clear does to it.
LEMMA ClearedLine ==
  ASSUME NEW line \in Seq(RedoEntries), NEW new,
         new = [i \in DOMAIN line |-> [line[i] EXCEPT !.payload = << >>]]
  PROVE  /\ new \in Seq(RedoEntries) /\ Len(new) = Len(line)
         /\ \A i \in 1..Len(line) :
              new[i].tree = line[i].tree /\ new[i].payload = << >> /\ new[i].reAdd = line[i].reAdd
<1>1. Len(line) \in Nat /\ DOMAIN line = 1..Len(line) /\ \A i \in 1..Len(line) : line[i] \in RedoEntries
  BY SeqAt
<1>2. ASSUME NEW i \in 1..Len(line)
      PROVE  /\ new[i] \in RedoEntries /\ new[i].tree = line[i].tree
             /\ new[i].payload = << >> /\ new[i].reAdd = line[i].reAdd
  <2>1. new[i] = [line[i] EXCEPT !.payload = << >>] /\ line[i] \in RedoEntries
    BY <1>1
  <2>2. << >> \in Seq(Tails)
    BY NoneIn
  <2> QED  BY <2>1, <2>2 DEF RedoEntries
<1>3. new \in [1..Len(line) -> RedoEntries]
  BY <1>1, <1>2
<1> QED  BY <1>1, <1>2, <1>3, FunIsSeq

\* What a /redo that leaves its tail out does to it.
LEMMA BrokenLine ==
  ASSUME NEW line \in Seq(RedoEntries)
  PROVE  /\ Broken(line) \in Seq(RedoEntries) /\ Len(Broken(line)) = Len(line)
         /\ \A i \in 1..Len(line) :
              /\ Broken(line)[i].tree = line[i].tree /\ Broken(line)[i].reAdd = line[i].reAdd
              /\ line[i].payload = << >> => Broken(line)[i].payload = << >>
              /\ line[i].payload # << >> =>
                   /\ Broken(line)[i].payload # << >>
                   /\ Broken(line)[i].payload[1] = [line[i].payload[1] EXCEPT !.inLine = FALSE]
                   /\ line[i].payload[1] \in Tails
<1>1. Len(line) \in Nat /\ DOMAIN line = 1..Len(line) /\ \A i \in 1..Len(line) : line[i] \in RedoEntries
  BY SeqAt
<1>2. ASSUME NEW i \in 1..Len(line)
      PROVE  /\ Broken(line)[i] \in RedoEntries
             /\ Broken(line)[i].tree = line[i].tree /\ Broken(line)[i].reAdd = line[i].reAdd
             /\ line[i].payload = << >> => Broken(line)[i].payload = << >>
             /\ line[i].payload # << >> =>
                  /\ Broken(line)[i].payload # << >>
                  /\ Broken(line)[i].payload[1] = [line[i].payload[1] EXCEPT !.inLine = FALSE]
                  /\ line[i].payload[1] \in Tails
  <2>1. line[i] \in RedoEntries /\ line[i].payload \in Seq(Tails)
    BY <1>1 DEF RedoEntries
  <2>2. CASE line[i].payload = << >>
    <3>1. Broken(line)[i] = line[i]
      BY <1>1, <2>2 DEF Broken
    <3> QED  BY <2>1, <2>2, <3>1
  <2>3. CASE line[i].payload # << >>
    <3> DEFINE p == line[i].payload
               q == [p EXCEPT ![1] = [@ EXCEPT !.inLine = FALSE]]
    <3>1. Broken(line)[i] = [line[i] EXCEPT !.payload = q]
      BY <1>1, <2>3 DEF Broken
    <3>2. Len(p) \in Nat \ {0} /\ 1 \in 1..Len(p) /\ p[1] \in Tails
      BY <2>1, <2>3, SeqAt
    <3>3. [p[1] EXCEPT !.inLine = FALSE] \in Tails
      <4> HIDE DEF p
      <4> QED  BY <3>2 DEF Tails
    <3>4. q \in Seq(Tails) /\ Len(q) = Len(p) /\ q[1] = [p[1] EXCEPT !.inLine = FALSE]
      <4>1. p \in Seq(Tails)
        BY <2>1
      <4>2. PICK e \in Tails : e = [p[1] EXCEPT !.inLine = FALSE]
        BY <3>3
      <4> HIDE DEF p
      <4>3. [p EXCEPT ![1] = e] \in Seq(Tails) /\ Len([p EXCEPT ![1] = e]) = Len(p)
            /\ \A j \in 1..Len(p) : [p EXCEPT ![1] = e][j] = IF j = 1 THEN e ELSE p[j]
        BY <3>2, <4>1, ExceptSeq
      <4>4. q = [p EXCEPT ![1] = e]
        BY <4>2
      <4> QED  BY <3>2, <4>2, <4>3, <4>4
    <3>5. q # << >>
      BY <3>2, <3>4, NoneIn
    <3> HIDE DEF q
    <3> QED  BY <2>1, <2>3, <3>1, <3>2, <3>4, <3>5 DEF RedoEntries
  <2> QED  BY <2>2, <2>3
<1>3. Broken(line) \in [1..Len(line) -> RedoEntries]
  BY <1>1, <1>2 DEF Broken
<1> QED  BY <1>1, <1>2, <1>3, FunIsSeq

\* The redo steps of a rewind over several checkpoints give back those checkpoints
\* and their trees, newest first, after the tree as it is unless the newest has it;
\* they carry one tail at most, on the first of them.
StepsForm(steps, newer, d) ==
  /\ Len(steps) = Len(newer) + d /\ Len(steps) # 0
  /\ d = 1 => steps[1].tree = tree /\ steps[1].reAdd = << >>
  /\ d = 0 => newer[Len(newer)].tree = tree
  /\ \A j \in 1..Len(steps) : j > d =>
       LET i == Len(newer) + d + 1 - j
       IN  i \in 1..Len(newer) /\ steps[j].tree = newer[i].tree /\ steps[j].reAdd = <<newer[i]>>

LEMMA StepsAt ==
  ASSUME tree \in SUBSET Facts, NEW newer \in Seq(Remembered), NEW p \in Seq(Tails)
  PROVE  /\ Steps(newer, p) \in Seq(RedoEntries) /\ Len(Steps(newer, p)) \in Nat \ {0}
         /\ Steps(newer, p)[1].payload = p
         /\ \A j \in 2..Len(Steps(newer, p)) : Steps(newer, p)[j].payload = << >>
         /\ \A j \in 1..Len(Steps(newer, p)) : Range(Steps(newer, p)[j].reAdd) \subseteq Range(newer)
         /\ \E d \in {0, 1} : StepsForm(Steps(newer, p), newer, d)
<1> DEFINE e(j) == LET cp == newer[Len(newer) + 1 - j] IN RedoEntry(cp.tree, <<cp>>, << >>)
           own == [j \in DOMAIN newer |-> e(j)]
           covered == newer # << >> /\ Last(newer).tree = tree
           all == IF covered THEN own ELSE <<RedoEntry(tree, << >>, << >>)>> \o own
<1>1. /\ Len(newer) \in Nat /\ DOMAIN newer = 1..Len(newer)
      /\ \A i \in 1..Len(newer) : newer[i] \in Remembered
      /\ newer # << >> <=> Len(newer) # 0
  BY SeqAt
<1>2. << >> \in Seq(Tails) /\ << >> \in Seq(Remembered) /\ Range(<< >>) = {}
  BY NoneIn DEF Range
<1>3. ASSUME NEW j \in 1..Len(newer), NEW i \in 1..Len(newer), i = Len(newer) + 1 - j
      PROVE  /\ e(j) \in RedoEntries /\ e(j).payload = << >>
             /\ e(j).tree = newer[i].tree /\ e(j).reAdd = <<newer[i]>>
  <2>2. newer[i] \in Remembered /\ newer[i].tree \in SUBSET Facts
    BY <1>1 DEF Remembered
  <2>3. <<newer[i]>> \in Seq(Remembered)
    BY <2>2, OneIn
  <2>5. e(j) = RedoEntry(newer[i].tree, <<newer[i]>>, << >>)
    BY <1>3
  <2>6. /\ RedoEntry(newer[i].tree, <<newer[i]>>, << >>) \in RedoEntries
        /\ RedoEntry(newer[i].tree, <<newer[i]>>, << >>).tree = newer[i].tree
        /\ RedoEntry(newer[i].tree, <<newer[i]>>, << >>).reAdd = <<newer[i]>>
        /\ RedoEntry(newer[i].tree, <<newer[i]>>, << >>).payload = << >>
    BY <1>2, <2>2, <2>3 DEF RedoEntry, RedoEntries
  <2> QED  BY <2>5, <2>6
<1> HIDE DEF e
<1>4. \A j \in 1..Len(newer) : Len(newer) + 1 - j \in 1..Len(newer)
  BY <1>1
<1>5. own \in Seq(RedoEntries) /\ Len(own) = Len(newer) /\ \A j \in 1..Len(newer) : own[j] = e(j)
  <2>1. own \in [1..Len(newer) -> RedoEntries] /\ \A j \in 1..Len(newer) : own[j] = e(j)
    BY <1>1, <1>3, <1>4
  <2> HIDE DEF own
  <2> QED  BY <1>1, <2>1, FunIsSeq
<1> HIDE DEF own
<1>6. /\ all \in Seq(RedoEntries) /\ Len(all) \in Nat \ {0}
      /\ \A j \in 1..Len(all) : all[j].payload = << >>
      /\ \E d \in {0, 1} : StepsForm(all, newer, d)
  <2>1. CASE covered
    <3>1. newer[Len(newer)].tree = tree
      BY <1>1, <2>1 DEF Last
    <3>2. \A j \in 1..Len(newer) : Len(newer) + 0 + 1 - j = Len(newer) + 1 - j
      BY <1>1
    <3>3. \A j \in 1..Len(newer) :
            LET i == Len(newer) + 0 + 1 - j
            IN  i \in 1..Len(newer) /\ own[j].tree = newer[i].tree /\ own[j].reAdd = <<newer[i]>>
      BY <1>3, <1>4, <1>5, <3>2
    <3>4. StepsForm(own, newer, 0)
      BY <1>1, <1>5, <2>1, <3>1, <3>3 DEF StepsForm
    <3> QED  BY <1>1, <1>3, <1>4, <1>5, <2>1, <3>4
  <2>2. CASE ~covered
    <3> DEFINE first == RedoEntry(tree, << >>, << >>)
    <3>1. first \in RedoEntries /\ first.payload = << >> /\ first.reAdd = << >> /\ first.tree = tree
      BY <1>2 DEF RedoEntry, RedoEntries
    <3>2. all = <<first>> \o own
      BY <2>2
    <3> HIDE DEF first, all
    <3>3. <<first>> \in Seq(RedoEntries) /\ Len(<<first>>) = 1 /\ <<first>>[1] = first
      BY <3>1, OneIn
    <3>4. /\ all \in Seq(RedoEntries) /\ Len(all) = 1 + Len(newer)
          /\ \A j \in 1..1 : all[j] = <<first>>[j]
          /\ \A j \in 1..Len(newer) : all[1 + j] = own[j]
      BY <1>5, <3>2, <3>3, ConcatAt
    <3>5. all[1] = first
      BY <3>3, <3>4
    <3>6. ASSUME NEW j \in 1..Len(all), j > 1
          PROVE  LET i == Len(newer) + 1 + 1 - j
                 IN  /\ i \in 1..Len(newer) /\ all[j].tree = newer[i].tree /\ all[j].reAdd = <<newer[i]>>
                     /\ all[j].payload = << >>
      <4>1. PICK k \in 1..Len(newer) : j = 1 + k
        <5>1. j - 1 \in 1..Len(newer) /\ j = 1 + (j - 1)
          BY <1>1, <3>4, <3>6
        <5> QED  BY <5>1
      <4>2. all[j] = e(k)
        BY <1>5, <3>4, <4>1
      <4>3. Len(newer) + 1 + 1 - j = Len(newer) + 1 - k /\ Len(newer) + 1 - k \in 1..Len(newer)
        BY <1>1, <4>1
      <4>4. PICK i \in 1..Len(newer) : i = Len(newer) + 1 - k
        BY <4>3
      <4>5. e(k).tree = newer[i].tree /\ e(k).reAdd = <<newer[i]>> /\ e(k).payload = << >>
        BY <1>3, <4>4
      <4> QED  BY <4>2, <4>3, <4>4, <4>5
    <3>7. \A j \in 1..Len(all) : all[j].payload = << >>
      <4>1. \A j \in 1..Len(all) : j > 1 \/ j = 1
        BY <1>1, <3>4
      <4> QED  BY <3>1, <3>5, <3>6, <4>1
    <3>8. StepsForm(all, newer, 1)
      BY <1>1, <3>1, <3>4, <3>5, <3>6 DEF StepsForm
    <3>9. Len(all) \in Nat \ {0}
      BY <1>1, <3>4
    <3> QED  BY <3>4, <3>7, <3>8, <3>9
  <2> QED  BY <2>1, <2>2
<1>7. Steps(newer, p) = [all EXCEPT ![1].payload = p]
  BY DEF Steps, e, own
<1> HIDE DEF all
<1>8. 1 \in 1..Len(all) /\ all[1] \in RedoEntries /\ \A j \in 2..Len(all) : j \in 1..Len(all) /\ j # 1
  BY <1>6, SeqAt
<1>9. PICK f \in RedoEntries : f = [all[1] EXCEPT !.payload = p]
  BY <1>8 DEF RedoEntries
<1>10. f.payload = p /\ f.reAdd = all[1].reAdd /\ f.tree = all[1].tree
  BY <1>8, <1>9 DEF RedoEntries
<1>11. PICK steps \in Seq(RedoEntries) :
         /\ steps = Steps(newer, p) /\ Len(steps) = Len(all)
         /\ \A j \in 1..Len(all) : steps[j] = IF j = 1 THEN f ELSE all[j]
  <2>1. Steps(newer, p) = [all EXCEPT ![1] = f]
    BY <1>7, <1>9
  <2>2. /\ [all EXCEPT ![1] = f] \in Seq(RedoEntries) /\ Len([all EXCEPT ![1] = f]) = Len(all)
        /\ \A j \in 1..Len(all) : [all EXCEPT ![1] = f][j] = IF j = 1 THEN f ELSE all[j]
    BY <1>6, <1>8, <1>9, ExceptSeq
  <2> QED  BY <2>1, <2>2
<1>12. \A j \in 1..Len(all) : steps[j].tree = all[j].tree /\ steps[j].reAdd = all[j].reAdd
  BY <1>10, <1>11
<1>13. PICK d \in {0, 1} : StepsForm(all, newer, d)
  BY <1>6
<1>14. StepsForm(steps, newer, d)
  BY <1>8, <1>11, <1>12, <1>13 DEF StepsForm
<1>15. ASSUME NEW j \in 1..Len(steps)  PROVE Range(steps[j].reAdd) \subseteq Range(newer)
  <2>1. CASE j > d
    <3>1. PICK i \in 1..Len(newer) : steps[j].reAdd = <<newer[i]>>
      BY <1>14, <2>1 DEF StepsForm
    <3> QED  BY <1>1, <3>1, RangeOfOne DEF Range
  <2>2. CASE ~(j > d)
    <3>1. j = 1 /\ d = 1
      BY <1>6, <1>11, <2>2
    <3> QED  BY <1>2, <1>14, <3>1 DEF StepsForm
  <2> QED  BY <2>1, <2>2
<1> QED  BY <1>6, <1>8, <1>10, <1>11, <1>14, <1>15
\* A rewind cuts both lists; what is stashed with the redo step is what was cut off.
CutOff(cp) ==
  [mark |-> [messages |-> Len(messages'), history |-> Len(history')],
   messages |-> SubSeq(messages, cp.mark.messages + 1, Len(messages)),
   history |-> SubSeq(history, cp.mark.history + 1, Len(history)),
   was |-> [known |-> Known(messages), history |-> history],
   inLine |-> TRUE]

LEMMA RewindAt ==
  ASSUME Typed, LengthInv, NEW cp \in Remembered, Rewind(cp)
  PROVE  /\ messages' \in Seq(Texts) /\ history' \in Seq(Shows)
         /\ Len(history') \in Nat /\ Len(history') <= Len(history)
         /\ tree' \in SUBSET Facts /\ intact' \in BOOLEAN /\ rewinds' = rewinds + 1
         /\ Stashed(cp) \in Seq(Tails)
         /\ Stashed(cp) # << >> => Stashed(cp)[1] = CutOff(cp)
         /\ CutOff(cp) \in Tails
         /\ Len(history') + Len(CutOff(cp).history) <= 2 * turns
<1>1. /\ messages \in Seq(Texts) /\ history \in Seq(Shows) /\ turns \in 0..MaxTurns
      /\ Len(history) <= 2 * turns /\ Len(history) \in Nat
  BY SeqAt DEF Typed, ListTypes, TurnTypes, LengthInv
<1>2. /\ cp.mark.messages \in Nat /\ cp.mark.history \in Nat /\ cp.tree \in SUBSET Facts
  BY DEF Remembered, Lengths
<1>3. /\ messages' \in Seq(Texts) /\ Len(messages') \in Nat
  <2>1. PICK n \in Nat : n = cp.mark.messages
    BY <1>2
  <2>2. Upto(messages, n) \in Seq(Texts) /\ Len(Upto(messages, n)) \in Nat
    BY <1>1, PrefixAt
  <2> QED  BY <2>1, <2>2 DEF Rewind
<1>4. /\ history' \in Seq(Shows) /\ Len(history') \in Nat /\ Len(history') <= Len(history)
      /\ Len(history') <= cp.mark.history
  <2>1. PICK n \in Nat : n = cp.mark.history
    BY <1>2
  <2>2. /\ Upto(history, n) \in Seq(Shows) /\ Len(Upto(history, n)) \in Nat
        /\ Len(Upto(history, n)) <= n /\ Len(Upto(history, n)) <= Len(history)
    BY <1>1, PrefixAt
  <2> QED  BY <2>1, <2>2 DEF Rewind
<1>5. tree' \in SUBSET Facts /\ intact' \in BOOLEAN /\ rewinds' = rewinds + 1
  BY <1>2 DEF Rewind, Typed, StoreTypes
<1> DEFINE ms == SubSeq(messages, cp.mark.messages + 1, Len(messages))
           hs == SubSeq(history, cp.mark.history + 1, Len(history))
<1>6. ms \in Seq(Texts)
  BY <1>1, <1>2, SuffixAt
<1>7. hs \in Seq(Shows) /\ Len(hs) = IF cp.mark.history < Len(history) THEN Len(history) - cp.mark.history ELSE 0
  BY <1>1, <1>2, SuffixAt
<1>8. Known(messages) \in SUBSET Facts
  BY <1>1, KnownAt
<1>9. Len(history') + Len(hs) <= 2 * turns
  BY <1>1, <1>2, <1>4, <1>7
<1> HIDE DEF ms, hs
<1>10. CutOff(cp) = [mark |-> [messages |-> Len(messages'), history |-> Len(history')],
                     messages |-> ms, history |-> hs,
                     was |-> [known |-> Known(messages), history |-> history], inLine |-> TRUE]
  BY DEF CutOff, ms, hs
<1>11. Len(history') \in 0..(2 * MaxTurns)
  BY <1>1, <1>4
<1>12. CutOff(cp) \in Tails /\ CutOff(cp).history = hs
  BY <1>1, <1>3, <1>6, <1>7, <1>8, <1>10, <1>11 DEF Tails, Lengths
<1>13. CASE messages' = messages /\ history' = history
  <2>1. Stashed(cp) = << >>
    BY <1>13 DEF Stashed
  <2> QED  BY <1>3, <1>4, <1>5, <1>9, <1>12, <2>1, NoneIn
<1>14. CASE ~(messages' = messages /\ history' = history)
  <2>1. Stashed(cp) = <<CutOff(cp)>>
    BY <1>14 DEF Stashed, CutOff
  <2>2. <<CutOff(cp)>> \in Seq(Tails) /\ <<CutOff(cp)>>[1] = CutOff(cp)
    BY <1>12, OneIn
  <2> QED  BY <1>3, <1>4, <1>5, <1>9, <1>12, <2>1, <2>2
<1> QED  BY <1>13, <1>14

LEMMA LastAt ==
  ASSUME NEW S, NEW s \in Seq(S), s # << >>
  PROVE  Last(s) \in S /\ Len(s) \in 1..Len(s) /\ Last(s) = s[Len(s)]
BY SeqAt DEF Last

LEMMA SnapshotTyped ==
  ASSUME Typed
  PROVE  Snapshot \in Generations /\ Snapshot.history = history
<1>1. (IF InTurn THEN turns - 1 ELSE turns) \in Nat
  BY DEF Typed, TurnTypes, InTurn
<1>2. InTurn \in BOOLEAN
  BY DEF InTurn
<1> QED  BY <1>1, <1>2 DEF Snapshot, Generations, Typed, ListTypes, TurnTypes, StoreTypes

LEMMA SaidTyped ==
  ASSUME Typed, NEW role \in {"user", "call", "tool", "assistant"}, NEW tells \in SUBSET Facts
  PROVE  Said(role, tells) \in Texts /\ Said(role, tells).role = role
BY DEF Said, Texts, Typed, TurnTypes

LEMMA LinePart ==
  ASSUME NEW line \in Seq(RedoEntries), NEW b \in Nat, NEW c \in Nat, LineFits(line, b), b <= c
  PROVE  LineFits(line, c)
<1>1. SUFFICES ASSUME NEW j \in 1..Len(line), line[j].payload # << >>
               PROVE  line[j].payload[1].mark.history + Len(line[j].payload[1].history) <= c
  BY DEF LineFits
<1>2. line[j].payload[1] \in Tails
  <2>1. line[j] \in RedoEntries
    BY SeqAt
  <2>2. line[j].payload \in Seq(Tails)
    BY <2>1 DEF RedoEntries
  <2>3. Len(line[j].payload) \in Nat /\ Len(line[j].payload) # 0
    BY <1>1, <2>2, SeqAt
  <2>4. 1 \in 1..Len(line[j].payload)
    BY <2>3
  <2> QED  BY <2>2, <2>4, SeqAt
<1>3. PICK t \in Tails : t = line[j].payload[1]
  BY <1>2
<1>4. t.mark.history \in Nat /\ Len(t.history) \in Nat
  <2>1. t.mark \in Lengths /\ t.history \in Seq(Shows)
    BY DEF Tails
  <2> QED  BY <2>1, SeqAt DEF Lengths
<1>5. t.mark.history + Len(t.history) <= b
  BY <1>1, <1>3 DEF LineFits
<1>6. t.mark.history + Len(t.history) <= c
  BY <1>4, <1>5
<1> QED  BY <1>3, <1>6

\* A line none of whose tails is new.
LEMMA LineKept ==
  ASSUME NEW line, NEW new, NEW b,
         LineFits(line, b), Len(new) \in Nat,
         \A j \in 1..Len(new) : new[j].payload # << >> =>
           \E i \in 1..Len(line) :
             /\ line[i].payload # << >>
             /\ new[j].payload[1].mark = line[i].payload[1].mark
             /\ new[j].payload[1].history = line[i].payload[1].history
  PROVE  LineFits(new, b)
BY DEF LineFits

LEMMA LineJoined ==
  ASSUME NEW line \in Seq(RedoEntries), NEW more \in Seq(RedoEntries), NEW b,
         LineFits(line, b), LineFits(more, b)
  PROVE  LineFits(line \o more, b)
<1>1. /\ Len(line \o more) = Len(line) + Len(more) /\ Len(line) \in Nat /\ Len(more) \in Nat
      /\ \A i \in 1..Len(line) : (line \o more)[i] = line[i]
      /\ \A i \in 1..Len(more) : (line \o more)[Len(line) + i] = more[i]
  BY ConcatAt, SeqAt
<1>2. SUFFICES ASSUME NEW j \in 1..(Len(line) + Len(more)), (line \o more)[j].payload # << >>
               PROVE  (line \o more)[j].payload[1].mark.history
                        + Len((line \o more)[j].payload[1].history) <= b
  BY <1>1 DEF LineFits
<1>3. CASE j <= Len(line)
  <2>1. j \in 1..Len(line)
    BY <1>1, <1>3
  <2>2. (line \o more)[j] = line[j]
    BY <1>1, <2>1
  <2> QED  BY <1>2, <2>1, <2>2 DEF LineFits
<1>4. CASE ~(j <= Len(line))
  <2>1. PICK i \in 1..Len(more) : j = Len(line) + i
    <3>1. j - Len(line) \in 1..Len(more) /\ j = Len(line) + (j - Len(line))
      BY <1>1, <1>4
    <3> QED  BY <3>1
  <2>2. (line \o more)[j] = more[i]
    BY <1>1, <2>1
  <2> QED  BY <1>2, <2>2 DEF LineFits
<1> QED  BY <1>3, <1>4

LEMMA EmptyLine ==
  ASSUME NEW b
  PROVE  << >> \in Seq(RedoEntries) /\ LineFits(<< >>, b)
<1>1. << >> \in Seq(RedoEntries) /\ Len(<< >>) = 0
  BY NoneIn
<1> QED  BY <1>1 DEF LineFits

\* The facts of a turn are facts.
LEMMA FactsOfTurn ==
  ASSUME NEW n \in 1..MaxTurns
  PROVE  /\ <<n, 0>> \in Facts
         /\ \A k \in Nat : k < 2 * MaxSteps => <<n, k \div 2 + 1>> \in Facts
<1>1. <<n, 0>> \in Facts
  BY DEF Facts
<1>2. ASSUME NEW k \in Nat, k < 2 * MaxSteps  PROVE k \div 2 + 1 \in 0..MaxSteps
  BY <1>2
<1> QED  BY <1>1, <1>2 DEF Facts

LEMMA TypeBegin ==
  ASSUME Typed, LengthInv, NEW m \in {"execute", "plan"}, Begin(m)
  PROVE  Typed' /\ LengthInv'
<1>1. /\ messages \in Seq(Texts) /\ history \in Seq(Shows) /\ turns + 1 \in 1..MaxTurns
      /\ checkpoints \in Seq(Remembered) /\ redo \in Seq(RedoEntries) /\ turns \in Nat
      /\ Len(history) \in Nat /\ Len(history) <= 2 * turns /\ disk \in Generations
      /\ disk.history \in Seq(Shows) /\ Len(disk.history) \in Nat /\ Len(disk.history) <= 2 * turns
  <2>1. /\ messages \in Seq(Texts) /\ history \in Seq(Shows) /\ turns \in 0..MaxTurns
        /\ checkpoints \in Seq(Remembered) /\ redo \in Seq(RedoEntries) /\ disk \in Generations
    BY DEF Typed, ListTypes, TurnTypes, UndoTypes, StoreTypes
  <2>2. disk.history \in Seq(Shows)
    BY <2>1 DEF Generations
  <2>3. turns < MaxTurns
    BY DEF Begin
  <2>4. Len(history) <= 2 * turns /\ Len(disk.history) <= 2 * turns
    BY DEF LengthInv
  <2>5. Len(history) \in Nat /\ Len(disk.history) \in Nat
    BY <2>1, <2>2, SeqAt
  <2>6. turns + 1 \in 1..MaxTurns /\ turns \in Nat
    BY <2>1, <2>3
  <2> QED  BY <2>1, <2>2, <2>4, <2>5, <2>6
<1>2. userRef' \in Texts
  <2>1. {<<turns + 1, 0>>} \in SUBSET Facts
    BY <1>1, FactsOfTurn
  <2> QED  BY <1>1, <2>1 DEF Begin, Texts
<1>3. [role |-> "user", turn |-> turns + 1] \in Shows
  BY <1>1 DEF Shows
<1>4. ListTypes' /\ Len(history') = Len(history) + 1
  <2>1. messages' = Append(messages, userRef')
        /\ history' = Append(history, [role |-> "user", turn |-> turns + 1])
    BY DEF Begin
  <2> QED  BY <1>1, <1>2, <1>3, <2>1, AppendAt DEF ListTypes
<1>5. TurnTypes'
  <2>1. << >> \in Seq(Texts)
    BY NoneIn
  <2>2. /\ turns' = turns + 1 /\ mode' = m /\ ok' = FALSE /\ committed' = << >> /\ open' = {}
        /\ stage' = "prompted" /\ tree' = tree /\ forgot' = forgot
    BY DEF Begin, told
  <2>3. tree \in SUBSET Facts /\ forgot \in SUBSET Facts
    BY DEF Typed, TurnTypes
  <2>4. turns' \in 0..MaxTurns /\ turns' # 0
    BY <1>1, <2>2
  <2> QED  BY <1>2, <2>1, <2>2, <2>3, <2>4 DEF TurnTypes
<1>6. UndoTypes' /\ LineFits(redo', 2 * (turns + 1))
  <2>1. Overtaken(checkpoints) \in Seq(Remembered)
    BY <1>1, OvertakenAt
  <2>2. LineFits(redo, 2 * (turns + 1))
    BY <1>1, LinePart DEF LengthInv
  <2>3. CASE m = "execute"
    <3>1. Checkpoint(FALSE) \in Remembered
      BY CheckpointTyped
    <3>2. checkpoints' = Append(Overtaken(checkpoints), Checkpoint(FALSE)) /\ redo' = << >>
      BY <2>3 DEF Begin
    <3> QED  BY <2>1, <3>1, <3>2, AppendAt, EmptyLine DEF UndoTypes
  <2>4. CASE m # "execute"
    <3>1. /\ checkpoints' = Overtaken(checkpoints)
          /\ redo' = [i \in DOMAIN redo |-> [redo[i] EXCEPT !.reAdd = Overtaken(@)]]
      BY <2>4 DEF Begin
    <3>2. /\ redo' \in Seq(RedoEntries) /\ Len(redo') = Len(redo)
          /\ \A i \in 1..Len(redo) : redo'[i].payload = redo[i].payload
      BY <1>1, <3>1, OvertakenLine
    <3>3. LineFits(redo', 2 * (turns + 1))
      BY <2>2, <3>2 DEF LineFits
    <3> QED  BY <2>1, <3>1, <3>2, <3>3 DEF UndoTypes
  <2> QED  BY <2>3, <2>4
<1>7. StoreTypes'
  BY DEF Begin, storing, told, Typed, StoreTypes
<1>8. LengthInv'
  <2>1. turns' = turns + 1 /\ disk' = disk /\ stage' = "prompted"
    BY DEF Begin, storing
  <2>2. Len(history') <= 2 * (turns + 1) /\ Len(history') < 2 * (turns + 1)
        /\ Len(disk.history) <= 2 * (turns + 1)
    BY <1>1, <1>4
  <2> QED  BY <1>6, <2>1, <2>2 DEF LengthInv
<1> QED  BY <1>4, <1>5, <1>6, <1>7, <1>8 DEF Typed

\* A step that leaves the undo and redo lines, the disk and the turn's number
\* alone keeps the lengths if the transcript grows by a message at the end only.
LEMMA LengthKept ==
  ASSUME Typed, LengthInv, UNCHANGED <<redo, disk, turns>>,
         \/ Len(history') <= Len(history) /\ (stage' \notin {"prompted", "prepared", "streaming"} \/ stage \in {"prompted", "prepared", "streaming"})
         \/ /\ stage \in {"prompted", "prepared", "streaming"}
            /\ stage' \notin {"prompted", "prepared", "streaming"}
            /\ Len(history') = Len(history) + 1,
         history' \in Seq(Shows)
  PROVE  LengthInv'
<1>1. Len(history) \in Nat /\ Len(history') \in Nat /\ turns \in Nat
  BY SeqAt DEF Typed, ListTypes, TurnTypes
<1>2. Len(history') <= 2 * turns
  BY <1>1 DEF LengthInv
<1>3. stage' \in {"prompted", "prepared", "streaming"} => Len(history') < 2 * turns
  BY <1>1 DEF LengthInv
<1> QED  BY <1>2, <1>3 DEF LengthInv

LEMMA TypeQuiet ==
  ASSUME Typed, LengthInv, EndsEarly \/ FitSkipped \/ Send
  PROVE  Typed' /\ LengthInv'
<1>1. /\ UNCHANGED <<lists, running, tree, undoing, storing, turns, told>>
      /\ stage \in {"prompted", "prepared"} /\ stage' \in {"prepared", "streaming", "ending"}
  BY DEF EndsEarly, FitSkipped, Send
<1>2. Typed'
  <2>1. ListTypes'
    BY <1>1 DEF lists, Typed, ListTypes
  <2>2. TurnTypes'
    <3>1. /\ stage' \in {"idle", "prompted", "prepared", "streaming", "ending", "saving"}
          /\ stage # "idle" /\ stage' # "idle"
      BY <1>1
    <3>2. UNCHANGED <<mode, ok, userRef, committed, open, tree, forgot, turns>>
      BY <1>1 DEF running, told
    <3> QED  BY <3>1, <3>2 DEF Typed, TurnTypes
  <2>3. UndoTypes' /\ StoreTypes'
    BY <1>1 DEF undoing, storing, told, Typed, UndoTypes, StoreTypes
  <2> QED  BY <2>1, <2>2, <2>3 DEF Typed
<1>3. LengthInv'
  <2>1. UNCHANGED <<redo, disk, turns, history>>
    BY <1>1 DEF lists, undoing, storing
  <2>2. history \in Seq(Shows) /\ Len(history) \in Nat
    BY SeqAt DEF Typed, ListTypes
  <2>3. Len(history') <= Len(history) /\ history' \in Seq(Shows)
    BY <2>1, <2>2
  <2> QED  BY <1>1, <2>1, <2>3, LengthKept
<1> QED  BY <1>2, <1>3

LEMMA TypeShrink ==
  ASSUME Typed, LengthInv, Fit \/ CompactNow
  PROVE  Typed' /\ LengthInv'
<1>1. /\ Cut(messages) > 0 /\ messages' = Compacted(messages)
      /\ epochs' = epochs + 1 /\ epoch' = epochs + 1
      /\ UNCHANGED <<history, mode, ok, committed, open, tree, undoing, storing, turns, forgot, intact, rewinds>>
      /\ \/ stage = "prompted" /\ stage' = "prepared"
         \/ stage = "idle" /\ stage' = "idle"
      /\ userRef' \in {userRef, Last(messages')}
  <2>1. CASE Fit
    BY <2>1 DEF Fit, Shrink
  <2>2. CASE CompactNow
    BY <2>2 DEF CompactNow, Shrink, running
  <2> QED  BY <2>1, <2>2
<1>2. messages \in Seq(Texts) /\ history \in Seq(Shows) /\ Len(history) \in Nat
  BY SeqAt DEF Typed, ListTypes
<1>3. messages' \in Seq(Texts) /\ Last(messages') \in Texts
  <2>1. Compacted(messages) \in Seq(Texts) /\ Compacted(messages) # << >>
    BY <1>1, <1>2, CompactedShape
  <2> QED  BY <1>1, <2>1, LastAt
<1>4. TurnTypes'
  <2>1. userRef' \in Texts \cup {NoMessage}
    BY <1>1, <1>3 DEF Typed, TurnTypes
  <2>2. /\ stage' \in {"idle", "prompted", "prepared", "streaming", "ending", "saving"}
        /\ (stage' # "idle" => stage # "idle")
    BY <1>1
  <2>3. UNCHANGED <<mode, ok, committed, open, tree, forgot, turns>>
    BY <1>1
  <2> QED  BY <2>1, <2>2, <2>3 DEF Typed, TurnTypes
<1>5. UndoTypes' /\ StoreTypes'
  BY <1>1 DEF undoing, storing, Typed, UndoTypes, StoreTypes
<1>6. LengthInv'
  <2>1. UNCHANGED <<redo, disk, turns, history>>
    BY <1>1 DEF undoing, storing
  <2>2. Len(history') <= Len(history) /\ history' \in Seq(Shows)
    BY <1>2, <2>1
  <2> QED  BY <1>1, <2>1, <2>2, LengthKept
<1> QED  BY <1>1, <1>2, <1>3, <1>4, <1>5, <1>6 DEF Typed, ListTypes

LEMMA TypeStream ==
  ASSUME Typed, LengthInv, Edit \/ StepEnd
  PROVE  Typed' /\ LengthInv'
<1>1. /\ messages \in Seq(Texts) /\ history \in Seq(Shows) /\ committed \in Seq(Texts)
      /\ turns \in 0..MaxTurns /\ open \in SUBSET Facts /\ tree \in SUBSET Facts
      /\ Len(committed) \in Nat /\ Len(history) \in Nat
  BY SeqAt DEF Typed, ListTypes, TurnTypes
<1>2. /\ stage = "streaming" /\ stage' = "streaming" /\ turns # 0
      /\ UNCHANGED <<lists, mode, ok, userRef, undoing, storing, turns, told>>
  BY DEF Edit, StepEnd, Typed, TurnTypes
<1>3. open' \in SUBSET Facts /\ tree' \in SUBSET Facts /\ committed' \in Seq(Texts)
  <2>1. CASE Edit
    <3>1. /\ open' = {<<turns, Len(committed) \div 2 + 1>>} /\ tree' = tree \cup open'
          /\ committed' = committed /\ Len(committed) < 2 * MaxSteps
      BY <2>1 DEF Edit
    <3>2. turns \in 1..MaxTurns
      BY <1>1, <1>2
    <3>3. <<turns, Len(committed) \div 2 + 1>> \in Facts
      BY <1>1, <3>1, <3>2, FactsOfTurn
    <3> QED  BY <1>1, <3>1, <3>3
  <2>2. CASE StepEnd
    <3>1. /\ committed' = committed \o <<Said("call", open), Said("tool", open)>>
          /\ open' = {} /\ tree' = tree
      BY <2>2 DEF StepEnd
    <3>2. Said("call", open) \in Texts /\ Said("tool", open) \in Texts
      BY <1>1, SaidTyped
    <3>3. <<Said("call", open), Said("tool", open)>> \in Seq(Texts)
      BY <3>2, TwoIn
    <3>4. committed \o <<Said("call", open), Said("tool", open)>> \in Seq(Texts)
      BY <1>1, <3>3, ConcatAt
    <3> QED  BY <1>1, <3>1, <3>4
  <2> QED  BY <2>1, <2>2
<1>4. TurnTypes'
  BY <1>2, <1>3 DEF Typed, TurnTypes, told
<1>5. ListTypes' /\ UndoTypes' /\ StoreTypes'
  BY <1>2 DEF lists, undoing, storing, told, Typed, ListTypes, UndoTypes, StoreTypes
<1>6. LengthInv'
  <2>1. UNCHANGED <<redo, disk, turns, history>>
    BY <1>2 DEF undoing, storing, lists
  <2>2. Len(history') <= Len(history) /\ history' \in Seq(Shows)
    BY <1>1, <2>1
  <2> QED  BY <1>2, <2>1, <2>2, LengthKept
<1> QED  BY <1>4, <1>5, <1>6 DEF Typed

\* What a stream leaves in the lists, broken off or not.
LEMMA TypeStreamed ==
  ASSUME Typed, LengthInv, NEW text \in BOOLEAN, Reply(text) \/ Break(text)
  PROVE  Typed' /\ LengthInv'
<1>1. /\ messages \in Seq(Texts) /\ history \in Seq(Shows) /\ committed \in Seq(Texts)
      /\ turns \in 0..MaxTurns /\ open \in SUBSET Facts /\ forgot \in SUBSET Facts
      /\ Len(history) \in Nat
  BY SeqAt DEF Typed, ListTypes, TurnTypes
<1>2. /\ stage = "streaming" /\ stage' = "ending" /\ turns # 0
      /\ messages' = messages \o committed \o (IF text THEN <<Said("assistant", {})>> ELSE << >>)
      /\ history' = IF text \/ committed # << >> THEN Append(history, Shown("assistant")) ELSE history
      /\ UNCHANGED <<mode, userRef, committed, open, tree, undoing, storing, turns, epoch, epochs, intact, rewinds>>
      /\ ok' \in {TRUE, ok} /\ forgot' \in {forgot, forgot \cup open}
  BY DEF Reply, Break, running, told, Typed, TurnTypes
<1>3. messages' \in Seq(Texts)
  <2>1. messages \o committed \in Seq(Texts)
    BY <1>1, ConcatAt
  <2>2. (IF text THEN <<Said("assistant", {})>> ELSE << >>) \in Seq(Texts)
    <3>1. Said("assistant", {}) \in Texts
      BY SaidTyped
    <3> QED  BY <3>1, OneIn, NoneIn
  <2>3. (messages \o committed) \o (IF text THEN <<Said("assistant", {})>> ELSE << >>) \in Seq(Texts)
    BY <2>1, <2>2, ConcatAt
  <2> QED  BY <1>2, <2>3
<1>4. history' \in Seq(Shows) /\ (Len(history') = Len(history) + 1 \/ Len(history') <= Len(history))
  <2>1. Shown("assistant") \in Shows
    BY <1>1, <1>2 DEF Shown, Shows
  <2>2. Append(history, Shown("assistant")) \in Seq(Shows)
        /\ Len(Append(history, Shown("assistant"))) = Len(history) + 1
    BY <1>1, <2>1, AppendAt
  <2> QED  BY <1>1, <1>2, <2>2
<1>5. TurnTypes'
  BY <1>1, <1>2 DEF Typed, TurnTypes
<1>6. UndoTypes' /\ StoreTypes'
  BY <1>2 DEF undoing, storing, Typed, UndoTypes, StoreTypes
<1>7. LengthInv'
  <2>1. UNCHANGED <<redo, disk, turns>>
    BY <1>2 DEF undoing, storing
  <2> QED  BY <1>2, <1>4, <2>1, LengthKept
<1> QED  BY <1>3, <1>4, <1>5, <1>6, <1>7 DEF Typed, ListTypes

LEMMA TypeEnd ==
  ASSUME Typed, LengthInv, End
  PROVE  Typed' /\ LengthInv'
<1>1. /\ messages \in Seq(Texts) /\ history \in Seq(Shows) /\ turns \in 0..MaxTurns
      /\ forgot \in SUBSET Facts /\ userRef \in Texts \cup {NoMessage} /\ Len(history) \in Nat
  BY SeqAt DEF Typed, ListTypes, TurnTypes
<1>2. /\ stage = "ending" /\ stage' = "saving"
      /\ UNCHANGED <<running, tree, undoing, storing, turns, epoch, epochs, intact, rewinds>>
  BY DEF End
<1>3. ASSUME Orphaned
      PROVE  /\ messages' \in Seq(Texts) /\ history' \in Seq(Shows) /\ Len(history') <= Len(history)
             /\ forgot' \in SUBSET Facts
  <2>1. /\ messages # << >> /\ messages' = Front(messages)
        /\ history' = IF Last(history) = Shown("user") THEN Front(history) ELSE history
        /\ forgot' = forgot \cup (userRef.tells \ {<<turns, 0>>})
    BY <1>2, <1>3 DEF End, Orphaned
  <2>2. messages' \in Seq(Texts)
    BY <1>1, <2>1, FrontAt
  <2>3. history' \in Seq(Shows) /\ Len(history') <= Len(history)
    <3>1. CASE history = << >>
      <4>1. Len(history) = 0
        BY <3>1, NoneIn
      <4>2. PICK n \in Int : n = Len(history) - 1 /\ n < 1
        BY <4>1
      <4>3. Front(history) = << >>
        <5>1. SubSeq(history, 1, n) = << >>
          BY <4>2, SubSeqEmpty
        <5> QED  BY <4>2, <5>1 DEF Front
      <4>4. history' = history
        BY <2>1, <3>1, <4>3
      <4> QED  BY <1>1, <4>4
    <3>2. CASE history # << >>
      <4>1. Front(history) \in Seq(Shows) /\ Len(Front(history)) = Len(history) - 1
        BY <1>1, <3>2, FrontAt
      <4> QED  BY <1>1, <2>1, <4>1
    <3> QED  BY <3>1, <3>2
  <2>4. forgot' \in SUBSET Facts
    <3>1. userRef.tells \in SUBSET Facts
      BY <1>1 DEF Texts, NoMessage
    <3> QED  BY <1>1, <2>1, <3>1
  <2> QED  BY <2>2, <2>3, <2>4
<1>4. ASSUME ~Orphaned
      PROVE  UNCHANGED <<messages, history, forgot>>
  BY <1>4 DEF End
<1>5. messages' \in Seq(Texts) /\ history' \in Seq(Shows) /\ Len(history') <= Len(history)
      /\ forgot' \in SUBSET Facts
  BY <1>1, <1>3, <1>4
<1>6. TurnTypes'
  BY <1>2, <1>5 DEF Typed, TurnTypes, running
<1>7. UndoTypes' /\ StoreTypes'
  BY <1>2 DEF undoing, storing, Typed, UndoTypes, StoreTypes
<1>8. LengthInv'
  <2>1. UNCHANGED <<redo, disk, turns>>
    BY <1>2 DEF undoing, storing
  <2> QED  BY <1>2, <1>5, <2>1, LengthKept
<1> QED  BY <1>5, <1>6, <1>7, <1>8 DEF Typed, ListTypes

LEMMA NoTurnTyped ==
  ASSUME NoTurn
  PROVE  /\ mode' \in {"execute", "plan"} /\ ok' \in BOOLEAN /\ open' \in SUBSET Facts
         /\ userRef' \in Texts \cup {NoMessage} /\ committed' \in Seq(Texts)
<1>1. << >> \in Seq(Texts)
  BY NoneIn
<1> QED  BY <1>1 DEF NoTurn

LEMMA TypeSaved ==
  ASSUME Typed, LengthInv, NEW green \in BOOLEAN, Saved(green)
  PROVE  Typed' /\ LengthInv'
<1>1. /\ disk' = Snapshot /\ stage = "saving" /\ stage' = "idle" /\ NoTurn
      /\ UNCHANGED <<lists, tree, goals, crashes, turns, told>>
      /\ \/ /\ checkpoints' = Append(checkpoints, Checkpoint(TRUE)) /\ redo' = << >>
         \/ UNCHANGED undoing
  BY DEF Saved
<1>2. ListTypes'
  BY <1>1 DEF lists, Typed, ListTypes
<1>3. TurnTypes'
  <2>1. UNCHANGED <<tree, forgot, turns>>
    BY <1>1 DEF told
  <2> QED  BY <1>1, <2>1, NoTurnTyped DEF Typed, TurnTypes
<1>4. UndoTypes' /\ LineFits(redo', 2 * turns)
  <2>1. checkpoints \in Seq(Remembered) /\ redo \in Seq(RedoEntries) /\ LineFits(redo, 2 * turns)
    BY DEF Typed, UndoTypes, LengthInv
  <2>2. Checkpoint(TRUE) \in Remembered
    BY CheckpointTyped
  <2>3. Append(checkpoints, Checkpoint(TRUE)) \in Seq(Remembered)
    BY <2>1, <2>2, AppendAt
  <2>4. << >> \in Seq(RedoEntries) /\ LineFits(<< >>, 2 * turns)
    BY EmptyLine
  <2> QED  BY <1>1, <2>1, <2>3, <2>4 DEF UndoTypes, undoing
<1>5. StoreTypes' /\ disk'.history = history
  <2>1. disk' \in Generations /\ disk'.history = history
    BY <1>1, SnapshotTyped
  <2> QED  BY <1>1, <2>1 DEF told, Typed, StoreTypes
<1>6. LengthInv'
  <2>1. history' = history /\ turns' = turns /\ Len(history) <= 2 * turns
    BY <1>1 DEF lists, LengthInv
  <2> QED  BY <1>1, <1>4, <1>5, <2>1 DEF LengthInv
<1> QED  BY <1>2, <1>3, <1>4, <1>5, <1>6 DEF Typed

LEMMA TypeSetGoal ==
  ASSUME Typed, LengthInv, SetGoal
  PROVE  Typed' /\ LengthInv'
<1>1. /\ disk' = Snapshot /\ goals' = goals + 1
      /\ UNCHANGED <<lists, stage, running, tree, undoing, crashes, turns, told>>
  BY DEF SetGoal
<1>2. ListTypes' /\ TurnTypes' /\ UndoTypes'
  BY <1>1 DEF lists, running, undoing, told, Typed, ListTypes, TurnTypes, UndoTypes
<1>3. StoreTypes' /\ disk'.history = history
  <2>1. disk' \in Generations /\ disk'.history = history
    BY <1>1, SnapshotTyped
  <2> QED  BY <1>1, <2>1 DEF told, Typed, StoreTypes
<1>4. LengthInv'
  BY <1>1, <1>3 DEF lists, undoing, LengthInv
<1> QED  BY <1>2, <1>3, <1>4 DEF Typed

LEMMA TypeClear ==
  ASSUME Typed, LengthInv, Clear
  PROVE  Typed' /\ LengthInv'
<1>1. /\ messages' = << >> /\ history' = << >> /\ epochs' = epochs + 1 /\ epoch' = epochs + 1
      /\ redo' = [i \in DOMAIN redo |-> [redo[i] EXCEPT !.payload = << >>]]
      /\ forgot' = forgot \cup Known(messages) /\ stage = "idle"
      /\ UNCHANGED <<stage, running, tree, checkpoints, storing, turns, intact, rewinds>>
  BY DEF Clear, Shrink
<1>2. ListTypes' /\ Len(history') = 0
  BY <1>1, NoneIn DEF ListTypes
<1>3. TurnTypes'
  <2>1. Known(messages) \in SUBSET Facts
    BY KnownAt DEF Typed, ListTypes
  <2> QED  BY <1>1, <2>1 DEF running, Typed, TurnTypes
<1>4. UndoTypes' /\ LineFits(redo', 2 * turns)
  <2>1. /\ redo' \in Seq(RedoEntries) /\ Len(redo') = Len(redo)
        /\ \A i \in 1..Len(redo) : redo'[i].payload = << >>
    BY <1>1, ClearedLine DEF Typed, UndoTypes
  <2> QED  BY <1>1, <2>1 DEF Typed, UndoTypes, LineFits
<1>5. StoreTypes'
  BY <1>1 DEF storing, Typed, StoreTypes
<1>6. LengthInv'
  <2>1. disk' = disk /\ turns' = turns /\ turns \in Nat /\ Len(disk.history) <= 2 * turns
    BY <1>1 DEF storing, LengthInv, Typed, TurnTypes
  <2> QED  BY <1>1, <1>2, <1>4, <2>1 DEF LengthInv
<1> QED  BY <1>2, <1>3, <1>4, <1>5, <1>6 DEF Typed

LEMMA CheckpointsPart ==
  ASSUME NEW list \in Seq(Remembered), NEW m \in Int, NEW n \in Int,
         1 <= m, n <= Len(list)
  PROVE  SubSeq(list, m, n) \in Seq(Remembered) /\ Range(SubSeq(list, m, n)) \subseteq Range(list)
<1>1. Len(list) \in Nat /\ DOMAIN list = 1..Len(list) /\ \A i \in 1..Len(list) : list[i] \in Remembered
  BY SeqAt
<1>2. \A i \in m..n : list[i] \in Remembered
  BY <1>1
<1> DEFINE t == SubSeq(list, m, n)
<1>3. /\ t \in Seq(Remembered) /\ Len(t) = IF m <= n THEN n - m + 1 ELSE 0
      /\ \A i \in 1..(n - m + 1) : t[i] = list[m + i - 1]
  BY <1>2, SubSeqProperties
<1> HIDE DEF t
<1>4. ASSUME NEW e \in Range(t)  PROVE e \in Range(list)
  <2>1. PICK i \in 1..Len(t) : e = t[i]
    BY <1>3, <1>4, InRange
  <2>2. i \in 1..(n - m + 1) /\ m + i - 1 \in 1..Len(list)
    BY <1>1, <1>3, <2>1
  <2>3. e = list[m + i - 1]
    BY <1>3, <2>1, <2>2
  <2> QED  BY <1>1, <2>2, <2>3 DEF Range
<1> QED  BY <1>3, <1>4 DEF t

\* What /undo and /undo <n> have in common: the lists are cut at a checkpoint,
\* the list of checkpoints is cut too, and the redo line gets more steps, of
\* which the first carries what was cut off.
LEMMA RewindForm ==
  ASSUME Typed, LengthInv, Undo \/ RestoreTo
  PROVE  \E cp \in Range(checkpoints), more \in Seq(RedoEntries) :
           /\ Rewind(cp) /\ redo' = redo \o more
           /\ checkpoints' \in Seq(Remembered) /\ Range(checkpoints') \subseteq Range(checkpoints)
           /\ Len(more) \in Nat \ {0} /\ more[1].payload = Stashed(cp)
           /\ \A j \in 2..Len(more) : more[j].payload = << >>
           /\ \A j \in 1..Len(more) : Range(more[j].reAdd) \subseteq Range(checkpoints)
           /\ \E i \in 1..Len(checkpoints) :
                /\ cp = checkpoints[i]
                /\ \/ /\ checkpoints' = SubSeq(checkpoints, 1, i - 1)
                      /\ more = <<RedoEntry(tree, <<cp>>, Stashed(cp))>>
                   \/ /\ checkpoints' = SubSeq(checkpoints, 1, i)
                      /\ more = Steps(SubSeq(checkpoints, i + 1, Len(checkpoints)), Stashed(cp))
<1>1. /\ checkpoints \in Seq(Remembered) /\ redo \in Seq(RedoEntries) /\ tree \in SUBSET Facts
      /\ Len(checkpoints) \in Nat /\ DOMAIN checkpoints = 1..Len(checkpoints)
      /\ \A i \in 1..Len(checkpoints) : checkpoints[i] \in Remembered /\ checkpoints[i] \in Range(checkpoints)
  BY SeqAt DEF Typed, UndoTypes, TurnTypes, Range
<1>2. CASE Undo
  <2>1. PICK i \in 1..Len(checkpoints) :
          /\ Rewind(checkpoints[i])
          /\ checkpoints' = SubSeq(checkpoints, 1, i - 1)
          /\ redo' = Append(redo, RedoEntry(tree, <<checkpoints[i]>>, Stashed(checkpoints[i])))
    BY <1>1, <1>2 DEF Undo
  <2>2. PICK cp \in Remembered : cp = checkpoints[i]
    BY <1>1
  <2>3. Stashed(cp) \in Seq(Tails)
    BY <2>1, <2>2, RewindAt
  <2>4. <<cp>> \in Seq(Remembered) /\ Range(<<cp>>) = {cp}
    BY OneIn, RangeOfOne
  <2> DEFINE e == RedoEntry(tree, <<cp>>, Stashed(cp))
  <2>5. e \in RedoEntries /\ e.payload = Stashed(cp) /\ e.reAdd = <<cp>>
    BY <1>1, <2>3, <2>4 DEF RedoEntry, RedoEntries
  <2>6. redo' = Append(redo, e)
    BY <2>1, <2>2
  <2> HIDE DEF e
  <2>7. <<e>> \in Seq(RedoEntries) /\ Len(<<e>>) = 1 /\ <<e>>[1] = e
    BY <2>5, OneIn
  <2>8. redo' = redo \o <<e>>
    BY <1>1, <2>5, <2>6, AppendIsConcat
  <2>9. checkpoints' \in Seq(Remembered) /\ Range(checkpoints') \subseteq Range(checkpoints)
    <3>1. i - 1 \in Int /\ i - 1 <= Len(checkpoints)
      BY <1>1
    <3>2. /\ SubSeq(checkpoints, 1, i - 1) \in Seq(Remembered)
          /\ Range(SubSeq(checkpoints, 1, i - 1)) \subseteq Range(checkpoints)
      BY <1>1, <3>1, CheckpointsPart
    <3> QED  BY <2>1, <3>2
  <2>10. /\ Len(<<e>>) \in Nat \ {0} /\ <<e>>[1].payload = Stashed(cp)
         /\ \A j \in 2..Len(<<e>>) : <<e>>[j].payload = << >>
         /\ \A j \in 1..Len(<<e>>) : Range(<<e>>[j].reAdd) \subseteq Range(checkpoints)
    <3>1. \A j \in 1..Len(<<e>>) : <<e>>[j] = e
      BY <2>7
    <3>2. Range(e.reAdd) \subseteq Range(checkpoints)
      BY <1>1, <2>2, <2>4, <2>5
    <3> QED  BY <2>5, <2>7, <3>1, <3>2
  <2>11. cp \in Range(checkpoints) /\ Rewind(cp)
    BY <1>1, <2>1, <2>2
  <2>12. <<e>> = <<RedoEntry(tree, <<cp>>, Stashed(cp))>>
    BY DEF e
  <2> QED  BY <2>1, <2>2, <2>7, <2>8, <2>9, <2>10, <2>11, <2>12
<1>3. CASE RestoreTo
  <2>1. PICK i \in 1..Len(checkpoints) :
          /\ Rewind(checkpoints[i])
          /\ checkpoints' = SubSeq(checkpoints, 1, i)
          /\ redo' = redo \o Steps(SubSeq(checkpoints, i + 1, Len(checkpoints)), Stashed(checkpoints[i]))
    BY <1>1, <1>3 DEF RestoreTo
  <2>2. PICK cp \in Remembered : cp = checkpoints[i]
    BY <1>1
  <2>3. Stashed(cp) \in Seq(Tails)
    BY <2>1, <2>2, RewindAt
  <2> DEFINE newer == SubSeq(checkpoints, i + 1, Len(checkpoints))
             more == Steps(newer, Stashed(cp))
  <2>4. newer \in Seq(Remembered) /\ Range(newer) \subseteq Range(checkpoints)
    <3>1. i + 1 \in Int /\ 1 <= i + 1 /\ Len(checkpoints) \in Int
      BY <1>1
    <3> QED  BY <1>1, <3>1, CheckpointsPart
  <2>5. checkpoints' \in Seq(Remembered) /\ Range(checkpoints') \subseteq Range(checkpoints)
    <3>1. i \in Int /\ i <= Len(checkpoints)
      BY <1>1
    <3>2. /\ SubSeq(checkpoints, 1, i) \in Seq(Remembered)
          /\ Range(SubSeq(checkpoints, 1, i)) \subseteq Range(checkpoints)
      BY <1>1, <3>1, CheckpointsPart
    <3> QED  BY <2>1, <3>2
  <2> HIDE DEF newer
  <2>6. /\ more \in Seq(RedoEntries) /\ Len(more) \in Nat \ {0} /\ more[1].payload = Stashed(cp)
        /\ \A j \in 2..Len(more) : more[j].payload = << >>
        /\ \A j \in 1..Len(more) : Range(more[j].reAdd) \subseteq Range(newer)
    BY <1>1, <2>3, <2>4, StepsAt
  <2>7. redo' = redo \o more /\ cp \in Range(checkpoints) /\ Rewind(cp)
    BY <1>1, <2>1, <2>2 DEF newer
  <2>8. more = Steps(SubSeq(checkpoints, i + 1, Len(checkpoints)), Stashed(cp))
    BY DEF newer
  <2> HIDE DEF more
  <2> QED  BY <2>1, <2>2, <2>4, <2>5, <2>6, <2>7, <2>8
<1> QED  BY <1>2, <1>3

LEMMA TypeRewind ==
  ASSUME Typed, LengthInv, Undo \/ RestoreTo
  PROVE  Typed' /\ LengthInv'
<1>1. /\ UNCHANGED <<stage, running, storing, turns, epoch, epochs, forgot>> /\ stage = "idle"
  BY DEF Undo, RestoreTo
<1>2. PICK cp \in Range(checkpoints), more \in Seq(RedoEntries) :
        /\ Rewind(cp) /\ redo' = redo \o more
        /\ checkpoints' \in Seq(Remembered) /\ Len(more) \in Nat \ {0} /\ more[1].payload = Stashed(cp)
        /\ \A j \in 2..Len(more) : more[j].payload = << >>
  BY RewindForm
<1>3. /\ checkpoints \in Seq(Remembered) /\ redo \in Seq(RedoEntries) /\ Len(redo) \in Nat
      /\ LineFits(redo, 2 * turns)
  BY SeqAt DEF Typed, UndoTypes, LengthInv
<1>4. cp \in Remembered
  BY <1>2, <1>3, InRange
<1>5. /\ messages' \in Seq(Texts) /\ history' \in Seq(Shows)
      /\ Len(history') \in Nat /\ Len(history') <= Len(history)
      /\ tree' \in SUBSET Facts /\ intact' \in BOOLEAN /\ rewinds' = rewinds + 1
      /\ Stashed(cp) # << >> => Stashed(cp)[1] = CutOff(cp)
      /\ Len(history') + Len(CutOff(cp).history) <= 2 * turns
  BY <1>2, <1>4, RewindAt
<1>6. LineFits(more, 2 * turns)
  <2>1. SUFFICES ASSUME NEW j \in 1..Len(more), more[j].payload # << >>
                 PROVE  more[j].payload[1].mark.history + Len(more[j].payload[1].history) <= 2 * turns
    BY DEF LineFits
  <2>2. j = 1
    BY <1>2, <2>1
  <2>3. more[j].payload[1] = CutOff(cp) /\ CutOff(cp).mark.history = Len(history')
    BY <1>2, <1>5, <2>1, <2>2 DEF CutOff
  <2> QED  BY <1>5, <2>3
<1>7. UndoTypes' /\ LineFits(redo', 2 * turns)
  <2>1. redo \o more \in Seq(RedoEntries)
    BY <1>2, <1>3, ConcatAt
  <2>2. LineFits(redo \o more, 2 * turns)
    BY <1>2, <1>3, <1>6, LineJoined
  <2> QED  BY <1>2, <2>1, <2>2 DEF UndoTypes
<1>8. ListTypes' /\ TurnTypes'
  BY <1>1, <1>5 DEF running, ListTypes, Typed, TurnTypes
<1>9. StoreTypes'
  BY <1>1, <1>5 DEF storing, Typed, StoreTypes
<1>10. LengthInv'
  <2>1. /\ turns' = turns /\ disk' = disk /\ stage' = "idle" /\ Len(disk.history) <= 2 * turns
        /\ Len(history) <= 2 * turns
    BY <1>1 DEF storing, LengthInv
  <2>2. turns \in Nat /\ Len(history) \in Nat
    BY SeqAt DEF Typed, TurnTypes, ListTypes
  <2>3. Len(history') <= 2 * turns
    BY <1>5, <2>1, <2>2
  <2> QED  BY <1>7, <2>1, <2>3 DEF LengthInv
<1> QED  BY <1>7, <1>8, <1>9, <1>10 DEF Typed

LEMMA TailOf ==
  ASSUME NEW line \in Seq(RedoEntries), NEW j \in 1..Len(line), line[j].payload # << >>
  PROVE  line[j].payload[1] \in Tails
<1>1. line[j].payload \in Seq(Tails)
  <2>1. line[j] \in RedoEntries
    BY SeqAt
  <2> QED  BY <2>1 DEF RedoEntries
<1>2. Len(line[j].payload) \in Nat /\ Len(line[j].payload) # 0
  BY <1>1, SeqAt
<1>3. 1 \in 1..Len(line[j].payload)
  BY <1>2
<1> QED  BY <1>1, <1>3, SeqAt

\* What is left of the redo line after a /redo.
LEMMA RedoLine ==
  ASSUME Typed, Redo
  PROVE  /\ redo' \in Seq(RedoEntries) /\ Len(redo) \in Nat \ {0} /\ Len(redo') = Len(redo) - 1
         /\ \A j \in 1..Len(redo') :
              /\ j \in 1..Len(redo) /\ redo'[j].reAdd = redo[j].reAdd /\ redo'[j].tree = redo[j].tree
              /\ redo'[j].payload # << >> =>
                   /\ redo[j].payload # << >>
                   /\ redo'[j].payload[1].mark = redo[j].payload[1].mark
                   /\ redo'[j].payload[1].messages = redo[j].payload[1].messages
                   /\ redo'[j].payload[1].history = redo[j].payload[1].history
<1>1. redo \in Seq(RedoEntries) /\ redo # << >>
  BY DEF Typed, UndoTypes, Redo
<1>2. /\ Front(redo) \in Seq(RedoEntries) /\ Len(redo) \in Nat \ {0}
      /\ Len(Front(redo)) = Len(redo) - 1
      /\ \A j \in 1..Len(Front(redo)) : Front(redo)[j] = redo[j] /\ j \in 1..Len(redo)
  BY <1>1, FrontAt
<1>3. redo' = Front(redo) \/ redo' = Broken(Front(redo))
  BY DEF Redo
<1>4. CASE redo' = Front(redo)
  BY <1>2, <1>4
<1>5. CASE redo' = Broken(Front(redo))
  <2>1. /\ redo' \in Seq(RedoEntries) /\ Len(redo') = Len(Front(redo))
        /\ \A j \in 1..Len(Front(redo)) :
             /\ redo'[j].reAdd = Front(redo)[j].reAdd /\ redo'[j].tree = Front(redo)[j].tree
             /\ Front(redo)[j].payload = << >> => redo'[j].payload = << >>
             /\ Front(redo)[j].payload # << >> =>
                  /\ redo'[j].payload # << >>
                  /\ redo'[j].payload[1] = [Front(redo)[j].payload[1] EXCEPT !.inLine = FALSE]
                  /\ Front(redo)[j].payload[1] \in Tails
    BY <1>2, <1>5, BrokenLine
  <2>2. \A t \in Tails : LET u == [t EXCEPT !.inLine = FALSE]
                         IN  u.mark = t.mark /\ u.messages = t.messages /\ u.history = t.history
    BY DEF Tails
  <2>3. ASSUME NEW j \in 1..Len(redo')
        PROVE  /\ j \in 1..Len(redo) /\ redo'[j].reAdd = redo[j].reAdd /\ redo'[j].tree = redo[j].tree
               /\ redo'[j].payload # << >> =>
                    /\ redo[j].payload # << >>
                    /\ redo'[j].payload[1].mark = redo[j].payload[1].mark
                    /\ redo'[j].payload[1].messages = redo[j].payload[1].messages
                    /\ redo'[j].payload[1].history = redo[j].payload[1].history
    <3>1. Front(redo)[j] = redo[j] /\ j \in 1..Len(redo) /\ j \in 1..Len(Front(redo))
      BY <1>2, <2>1
    <3> QED  BY <2>1, <2>2, <3>1
  <2> QED  BY <1>2, <2>1, <2>3
<1> QED  BY <1>3, <1>4, <1>5

\* What a /redo does to the lists.
LEMMA RedoLists ==
  ASSUME Typed, Redo
  PROVE  /\ Last(redo) \in RedoEntries /\ Len(redo) \in 1..Len(redo) /\ Last(redo) = redo[Len(redo)]
         /\ \/ /\ Last(redo).payload # << >> /\ Last(redo).payload[1] \in Tails
               /\ Last(redo).payload[1].mark = Mark
               /\ messages' = messages \o Last(redo).payload[1].messages
               /\ history' = history \o Last(redo).payload[1].history
               /\ forgot' = forgot \ Known(Last(redo).payload[1].messages)
            \/ UNCHANGED lists /\ forgot' = forgot \cup (tree' \ Known(messages))
<1>1. redo \in Seq(RedoEntries) /\ redo # << >>
  BY DEF Typed, UndoTypes, Redo
<1>2. Last(redo) \in RedoEntries /\ Len(redo) \in 1..Len(redo) /\ Last(redo) = redo[Len(redo)]
  BY <1>1, LastAt
<1>3. Last(redo).payload # << >> => Last(redo).payload[1] \in Tails
  BY <1>1, <1>2, TailOf
<1>4. CASE Fits(Last(redo))
  <2>1. Last(redo).payload # << >> /\ Last(redo).payload[1].mark = Mark
    BY <1>4 DEF Fits
  <2> QED  BY <1>2, <1>3, <1>4, <2>1 DEF Redo
<1>5. CASE ~Fits(Last(redo))
  BY <1>2, <1>5 DEF Redo
<1> QED  BY <1>4, <1>5

LEMMA TypeRedo ==
  ASSUME Typed, LengthInv, Redo
  PROVE  Typed' /\ LengthInv'
<1>1. /\ messages \in Seq(Texts) /\ history \in Seq(Shows) /\ checkpoints \in Seq(Remembered)
      /\ redo \in Seq(RedoEntries) /\ turns \in Nat /\ forgot \in SUBSET Facts
      /\ Len(history) \in Nat
  BY SeqAt DEF Typed, ListTypes, TurnTypes, UndoTypes
<1>2. /\ stage = "idle" /\ tree' = Last(redo).tree /\ checkpoints' = checkpoints \o Last(redo).reAdd
      /\ rewinds' = rewinds + 1
      /\ UNCHANGED <<stage, running, storing, turns, epoch, epochs, intact>>
  BY DEF Redo
<1>3. Last(redo) \in RedoEntries /\ Len(redo) \in 1..Len(redo) /\ Last(redo) = redo[Len(redo)]
  BY RedoLists
<1>4. tree' \in SUBSET Facts /\ checkpoints' \in Seq(Remembered)
  <2>1. Last(redo).tree \in SUBSET Facts /\ Last(redo).reAdd \in Seq(Remembered)
    BY <1>3 DEF RedoEntries
  <2> QED  BY <1>1, <1>2, <2>1, ConcatAt
<1>5. messages' \in Seq(Texts) /\ history' \in Seq(Shows) /\ Len(history') <= 2 * turns
      /\ forgot' \in SUBSET Facts
  <2>1. CASE /\ Last(redo).payload # << >> /\ Last(redo).payload[1] \in Tails
             /\ Last(redo).payload[1].mark = Mark
             /\ messages' = messages \o Last(redo).payload[1].messages
             /\ history' = history \o Last(redo).payload[1].history
             /\ forgot' = forgot \ Known(Last(redo).payload[1].messages)
    <3>1. PICK t \in Tails : t = Last(redo).payload[1]
      BY <2>1
    <3>2. t.messages \in Seq(Texts) /\ t.history \in Seq(Shows) /\ t.mark.history = Len(history)
      BY <2>1, <3>1 DEF Tails, Mark
    <3>3. messages \o t.messages \in Seq(Texts)
      BY <1>1, <3>2, ConcatAt
    <3>4. history \o t.history \in Seq(Shows) /\ Len(history \o t.history) = Len(history) + Len(t.history)
      BY <1>1, <3>2, ConcatAt
    <3>5. t.mark.history + Len(t.history) <= 2 * turns
      BY <1>3, <2>1, <3>1 DEF LengthInv, LineFits
    <3> QED  BY <1>1, <2>1, <3>1, <3>2, <3>3, <3>4, <3>5
  <2>2. CASE UNCHANGED lists /\ forgot' = forgot \cup (tree' \ Known(messages))
    BY <1>1, <1>4, <2>2 DEF lists, LengthInv
  <2> QED  BY <2>1, <2>2, RedoLists
<1>6. redo' \in Seq(RedoEntries) /\ LineFits(redo', 2 * turns)
  <2>1. /\ redo' \in Seq(RedoEntries) /\ Len(redo') \in Nat
        /\ \A j \in 1..Len(redo') :
             /\ j \in 1..Len(redo)
             /\ redo'[j].payload # << >> =>
                  /\ redo[j].payload # << >>
                  /\ redo'[j].payload[1].mark = redo[j].payload[1].mark
                  /\ redo'[j].payload[1].history = redo[j].payload[1].history
    BY RedoLine, SeqAt
  <2> QED  BY <2>1, LineKept DEF LengthInv
<1>7. TurnTypes' /\ ListTypes'
  BY <1>2, <1>4, <1>5 DEF running, Typed, TurnTypes, ListTypes
<1>8. UndoTypes' /\ StoreTypes'
  BY <1>2, <1>4, <1>6 DEF storing, Typed, UndoTypes, StoreTypes
<1>9. LengthInv'
  BY <1>2, <1>5, <1>6 DEF storing, LengthInv
<1> QED  BY <1>7, <1>8, <1>9 DEF Typed

LEMMA TypeCrash ==
  ASSUME Typed, LengthInv, Crash
  PROVE  Typed' /\ LengthInv'
<1>1. /\ messages' = disk.messages /\ history' = disk.history /\ stage' = "idle" /\ redo' = << >>
      /\ NoTurn /\ intact' = (intact /\ disk.whole /\ disk.rewinds = rewinds)
      /\ forgot' = disk.forgot \cup {f \in tree : f[1] > disk.turn} /\ epoch' = disk.epoch
      /\ crashes' = crashes + 1
      /\ UNCHANGED <<tree, checkpoints, disk, goals, turns, epochs, rewinds>>
  BY DEF Crash
<1>2. /\ disk.messages \in Seq(Texts) /\ disk.history \in Seq(Shows) /\ disk.epoch \in Nat
      /\ disk.forgot \in SUBSET Facts
  BY DEF Typed, StoreTypes, Generations
<1>3. ListTypes'
  BY <1>1, <1>2 DEF ListTypes
<1>4. TurnTypes'
  <2>1. forgot' \in SUBSET Facts
    BY <1>1, <1>2 DEF Typed, TurnTypes
  <2> QED  BY <1>1, <2>1, NoTurnTyped DEF Typed, TurnTypes
<1>5. UndoTypes' /\ LineFits(redo', 2 * turns)
  BY <1>1, EmptyLine DEF Typed, UndoTypes
<1>6. StoreTypes'
  BY <1>1, <1>2 DEF Typed, StoreTypes
<1>7. LengthInv'
  BY <1>1, <1>5 DEF LengthInv
<1> QED  BY <1>3, <1>4, <1>5, <1>6, <1>7 DEF Typed

LEMMA TypeInit == SessionInit => Typed /\ LengthInv
<1> SUFFICES ASSUME SessionInit  PROVE Typed /\ LengthInv
  OBVIOUS
<1>1. /\ << >> \in Seq(Texts) /\ << >> \in Seq(Shows) /\ << >> \in Seq(Remembered)
      /\ Len(<< >>) = 0
  BY NoneIn
<1>2. << >> \in Seq(RedoEntries) /\ LineFits(<< >>, 0)
  BY EmptyLine
<1>3. ListTypes /\ UndoTypes
  BY <1>1, <1>2 DEF SessionInit, ListTypes, UndoTypes
<1>4. TurnTypes
  BY <1>1 DEF SessionInit, TurnTypes
<1>5. StoreTypes /\ disk.history = << >>
  BY <1>1 DEF SessionInit, StoreTypes, Snapshot, InTurn, Generations
<1>6. LengthInv
  BY <1>1, <1>2, <1>5 DEF SessionInit, LengthInv
<1> QED  BY <1>3, <1>4, <1>5, <1>6 DEF Typed

LEMMA TypeStep == Typed /\ LengthInv /\ [SessionNext]_vars => Typed' /\ LengthInv'
<1> SUFFICES ASSUME Typed, LengthInv, [SessionNext]_vars  PROVE Typed' /\ LengthInv'
  OBVIOUS
<1>1. ASSUME NEW m \in {"execute", "plan"}, Begin(m)  PROVE Typed' /\ LengthInv'
  BY <1>1, TypeBegin
<1>2. CASE EndsEarly \/ FitSkipped \/ Send
  BY <1>2, TypeQuiet
<1>3. CASE Fit \/ CompactNow
  BY <1>3, TypeShrink
<1>4. CASE Edit \/ StepEnd
  BY <1>4, TypeStream
<1>5. ASSUME NEW text \in BOOLEAN, Reply(text) \/ Break(text)  PROVE Typed' /\ LengthInv'
  BY <1>5, TypeStreamed
<1>6. CASE End
  BY <1>6, TypeEnd
<1>7. ASSUME NEW green \in BOOLEAN, Saved(green)  PROVE Typed' /\ LengthInv'
  BY <1>7, TypeSaved
<1>8. CASE Clear
  BY <1>8, TypeClear
<1>9. CASE Undo \/ RestoreTo
  BY <1>9, TypeRewind
<1>10. CASE Redo
  BY <1>10, TypeRedo
<1>11. CASE SetGoal
  BY <1>11, TypeSetGoal
<1>12. CASE Crash
  BY <1>12, TypeCrash
<1>13. CASE UNCHANGED vars
  <2>1. /\ UNCHANGED <<messages, history, stage, mode, ok, userRef, committed, open, tree, checkpoints>>
        /\ UNCHANGED <<redo, disk, goals, crashes, turns, epoch, epochs, forgot, intact, rewinds>>
    BY <1>13 DEF vars, lists, running, undoing, storing, told
  <2>2. Typed'
    BY <2>1 DEF Typed, ListTypes, TurnTypes, UndoTypes, StoreTypes
  <2>3. LengthInv'
    BY <2>1 DEF LengthInv
  <2> QED  BY <2>2, <2>3
<1> QED  BY <1>1, <1>2, <1>3, <1>4, <1>5, <1>6, <1>7, <1>8, <1>9, <1>10, <1>11, <1>12, <1>13
            DEF SessionNext

\* The lists, the turn, the tree and the checkpoints have their types always.
THEOREM SessionTypesHold == SessionSpec => []SessionTypeOK
<1>1. SessionInit => Typed /\ LengthInv
  BY TypeInit
<1>2. Typed /\ LengthInv /\ [SessionNext]_vars => Typed' /\ LengthInv'
  BY TypeStep
<1>3. Typed /\ LengthInv => SessionTypeOK
  <2> SUFFICES ASSUME Typed, LengthInv  PROVE SessionTypeOK
    OBVIOUS
  <2>1. /\ \A i \in DOMAIN messages : messages[i] \in Texts
        /\ \A i \in DOMAIN history : history[i] \in Shows
    BY SeqAt DEF Typed, ListTypes
  <2>2. \A i \in DOMAIN checkpoints : checkpoints[i].mark.history <= 2 * MaxTurns
    <3>1. \A i \in DOMAIN checkpoints : checkpoints[i] \in Remembered
      BY SeqAt DEF Typed, UndoTypes
    <3>2. \A r \in Remembered : r.mark.history <= 2 * MaxTurns
      BY DEF Remembered, Lengths
    <3> QED  BY <3>1, <3>2
  <2> QED  BY <2>1, <2>2 DEF SessionTypeOK, Typed, TurnTypes
<1> QED  BY <1>1, <1>2, <1>3, PTL DEF SessionSpec

-----------------------------------------------------------------------------
(* The checkpoints within reach *)

LEMMA ReachTyped ==
  ASSUME Typed
  PROVE  /\ Reachable \subseteq Remembered /\ Range(checkpoints) \subseteq Reachable
         /\ \A j \in 1..Len(redo) : Range(redo[j].reAdd) \subseteq Reachable
<1>1. Range(checkpoints) \subseteq Remembered
  BY InRange DEF Typed, UndoTypes
<1>2. ASSUME NEW j \in 1..Len(redo)  PROVE Range(redo[j].reAdd) \subseteq Remembered
  <2>1. redo[j] \in RedoEntries
    BY SeqAt DEF Typed, UndoTypes
  <2>2. redo[j].reAdd \in Seq(Remembered)
    BY <2>1 DEF RedoEntries
  <2> QED  BY <2>2, InRange
<1> QED  BY <1>1, <1>2 DEF Reachable

\* Overtaken forgets of which conversation some of them are, and nothing else.
LEMMA OvertakenOf ==
  ASSUME NEW cps \in Seq(Remembered), NEW cp \in Range(Overtaken(cps))
  PROVE  \E old \in Range(cps) :
           /\ cp.mark = old.mark /\ cp.tree = old.tree
           /\ \/ cp.epoch = NoEpoch
              \/ /\ cp.epoch = old.epoch
                 /\ ~(old.mark.messages > Len(messages)) /\ ~(old.mark.history > Len(history))
<1>1. /\ Overtaken(cps) \in Seq(Remembered) /\ Len(Overtaken(cps)) = Len(cps)
      /\ \A i \in 1..Len(cps) :
           /\ Overtaken(cps)[i].mark = cps[i].mark /\ Overtaken(cps)[i].tree = cps[i].tree
           /\ \/ Overtaken(cps)[i].epoch = NoEpoch
              \/ /\ Overtaken(cps)[i].epoch = cps[i].epoch
                 /\ ~(cps[i].mark.messages > Len(messages)) /\ ~(cps[i].mark.history > Len(history))
  BY OvertakenAt
<1>2. PICK i \in 1..Len(cps) : cp = Overtaken(cps)[i]
  BY <1>1, InRange
<1>3. cps[i] \in Range(cps)
  BY <1>2, InRange
<1> QED  BY <1>1, <1>2, <1>3

LEMMA ReachBegin ==
  ASSUME Typed, LengthInv, NEW m \in {"execute", "plan"}, Begin(m)
  PROVE  /\ \A cp \in Reachable' : (redo' = << >> /\ cp = Checkpoint(FALSE)) \/ \E old \in Reachable :
              /\ cp.mark = old.mark /\ cp.tree = old.tree
              /\ \/ cp.epoch = NoEpoch
                 \/ /\ cp.epoch = old.epoch
                    /\ ~(old.mark.messages > Len(messages)) /\ ~(old.mark.history > Len(history))
         /\ \A cp \in Range(checkpoints') : cp = Checkpoint(FALSE) \/ \E old \in Range(checkpoints) :
              /\ cp.mark = old.mark /\ cp.tree = old.tree
              /\ \/ cp.epoch = NoEpoch
                 \/ /\ cp.epoch = old.epoch
                    /\ ~(old.mark.messages > Len(messages)) /\ ~(old.mark.history > Len(history))
<1>1. checkpoints \in Seq(Remembered) /\ redo \in Seq(RedoEntries)
  BY DEF Typed, UndoTypes
<1>2. Overtaken(checkpoints) \in Seq(Remembered)
  BY <1>1, OvertakenAt
<1>3. \/ /\ checkpoints' = Append(Overtaken(checkpoints), Checkpoint(FALSE))
         /\ redo' = << >>
      \/ /\ checkpoints' = Overtaken(checkpoints)
         /\ redo' = [i \in DOMAIN redo |-> [redo[i] EXCEPT !.reAdd = Overtaken(@)]]
  BY DEF Begin
<1>4. \A cp \in Range(checkpoints') : (redo' = << >> /\ cp = Checkpoint(FALSE)) \/ cp \in Range(Overtaken(checkpoints))
  <2>1. Range(Append(Overtaken(checkpoints), Checkpoint(FALSE))) =
          Range(Overtaken(checkpoints)) \cup {Checkpoint(FALSE)}
    BY <1>2, CheckpointTyped, RangeOfAppend
  <2> QED  BY <1>3, <2>1
<1>5. \A j \in 1..Len(redo') : \A cp \in Range(redo'[j].reAdd) :
        j \in 1..Len(redo) /\ cp \in Range(Overtaken(redo[j].reAdd)) /\ redo[j].reAdd \in Seq(Remembered)
  <2>1. CASE redo' = << >>
    BY <2>1, NoneIn
  <2>2. CASE redo' = [i \in DOMAIN redo |-> [redo[i] EXCEPT !.reAdd = Overtaken(@)]]
    <3>1. /\ Len(redo') = Len(redo)
          /\ \A i \in 1..Len(redo) : redo'[i].reAdd = Overtaken(redo[i].reAdd)
      BY <1>1, <2>2, OvertakenLine
    <3>2. \A j \in 1..Len(redo) : redo[j] \in RedoEntries
      BY <1>1, SeqAt
    <3>3. \A e \in RedoEntries : e.reAdd \in Seq(Remembered)
      BY DEF RedoEntries
    <3> QED  BY <3>1, <3>2, <3>3
  <2> QED  BY <1>3, <2>1, <2>2
<1>6. \A cp \in Range(checkpoints') : (redo' = << >> /\ cp = Checkpoint(FALSE)) \/ \E old \in Range(checkpoints) :
        /\ cp.mark = old.mark /\ cp.tree = old.tree
        /\ \/ cp.epoch = NoEpoch
           \/ /\ cp.epoch = old.epoch
              /\ ~(old.mark.messages > Len(messages)) /\ ~(old.mark.history > Len(history))
  BY <1>1, <1>4, OvertakenOf
<1>7. ASSUME NEW j \in 1..Len(redo'), NEW cp \in Range(redo'[j].reAdd)
      PROVE  \E old \in Reachable :
               /\ cp.mark = old.mark /\ cp.tree = old.tree
               /\ \/ cp.epoch = NoEpoch
                  \/ /\ cp.epoch = old.epoch
                     /\ ~(old.mark.messages > Len(messages)) /\ ~(old.mark.history > Len(history))
  <2>1. j \in 1..Len(redo) /\ cp \in Range(Overtaken(redo[j].reAdd)) /\ redo[j].reAdd \in Seq(Remembered)
    BY <1>5
  <2>2. Range(redo[j].reAdd) \subseteq Reachable
    BY <2>1, ReachTyped
  <2> QED  BY <2>1, <2>2, OvertakenOf
<1>8. \A cp \in Reachable' :
        cp \in Range(checkpoints') \/ \E j \in 1..Len(redo') : cp \in Range(redo'[j].reAdd)
  BY DEF Reachable
<1> QED  BY <1>6, <1>7, <1>8, ReachTyped

LEMMA ReachSaved ==
  ASSUME Typed, LengthInv, NEW green \in BOOLEAN, Saved(green)
  PROVE  /\ \A cp \in Reachable' : (redo' = << >> /\ cp = Checkpoint(TRUE)) \/ cp \in Reachable
         /\ \A cp \in Range(checkpoints') : cp = Checkpoint(TRUE) \/ cp \in Range(checkpoints)
<1>1. \/ /\ checkpoints' = Append(checkpoints, Checkpoint(TRUE)) /\ redo' = << >>
      \/ UNCHANGED <<checkpoints, redo>>
  BY DEF Saved, undoing
<1>2. CASE checkpoints' = Append(checkpoints, Checkpoint(TRUE)) /\ redo' = << >>
  <2>1. Range(checkpoints') = Range(checkpoints) \cup {Checkpoint(TRUE)}
    BY <1>2, CheckpointTyped, RangeOfAppend DEF Typed, UndoTypes
  <2>2. Len(redo') = 0
    BY <1>2, NoneIn
  <2>3. Reachable' = Range(checkpoints')
    BY <2>2 DEF Reachable
  <2> QED  BY <1>2, <2>1, <2>3, ReachTyped
<1>3. CASE UNCHANGED <<checkpoints, redo>>
  BY <1>3 DEF Reachable
<1> QED  BY <1>1, <1>2, <1>3

\* Every other step may forget checkpoints.
LEMMA ReachKept ==
  ASSUME Typed, LengthInv,
         UNCHANGED <<checkpoints, redo>> \/ Clear \/ Undo \/ RestoreTo \/ Redo \/ Crash
  PROVE  Reachable' \subseteq Reachable
<1>0. /\ Range(checkpoints) \subseteq Reachable
      /\ \A j \in 1..Len(redo) : Range(redo[j].reAdd) \subseteq Reachable
      /\ checkpoints \in Seq(Remembered) /\ redo \in Seq(RedoEntries) /\ Len(redo) \in Nat
  BY ReachTyped, SeqAt DEF Typed, UndoTypes
<1> SUFFICES /\ Range(checkpoints') \subseteq Reachable
             /\ \A j \in 1..Len(redo') : Range(redo'[j].reAdd) \subseteq Reachable
  BY DEF Reachable
<1>1. CASE UNCHANGED <<checkpoints, redo>>
  BY <1>0, <1>1
<1>2. CASE Clear
  <2>1. /\ Len(redo') = Len(redo) /\ checkpoints' = checkpoints
        /\ \A i \in 1..Len(redo) : redo'[i].reAdd = redo[i].reAdd
    BY <1>0, <1>2, ClearedLine DEF Clear
  <2> QED  BY <1>0, <2>1
<1>3. CASE Undo \/ RestoreTo
  <2>1. PICK more \in Seq(RedoEntries) :
          /\ redo' = redo \o more /\ Range(checkpoints') \subseteq Range(checkpoints)
          /\ \A j \in 1..Len(more) : Range(more[j].reAdd) \subseteq Range(checkpoints)
    BY <1>3, RewindForm
  <2>2. /\ Len(redo') = Len(redo) + Len(more) /\ Len(more) \in Nat
        /\ \A i \in 1..Len(redo) : redo'[i] = redo[i]
        /\ \A i \in 1..Len(more) : redo'[Len(redo) + i] = more[i]
    BY <1>0, <2>1, ConcatAt, SeqAt
  <2>3. ASSUME NEW j \in 1..Len(redo')  PROVE Range(redo'[j].reAdd) \subseteq Reachable
    <3>1. CASE j \in 1..Len(redo)
      BY <1>0, <2>2, <3>1
    <3>2. CASE j \notin 1..Len(redo)
      <4>1. j - Len(redo) \in 1..Len(more) /\ Len(redo) + (j - Len(redo)) = j
        BY <1>0, <2>2, <3>2
      <4>2. redo'[j] = more[j - Len(redo)]
        BY <2>2, <4>1
      <4> QED  BY <1>0, <2>1, <4>1, <4>2
    <3> QED  BY <3>1, <3>2
  <2> QED  BY <1>0, <2>1, <2>3
<1>4. CASE Redo
  <2>1. /\ checkpoints' = checkpoints \o Last(redo).reAdd
        /\ Last(redo) \in RedoEntries /\ Len(redo) \in 1..Len(redo) /\ Last(redo) = redo[Len(redo)]
    BY <1>4, RedoLists DEF Redo
  <2>2. Last(redo).reAdd \in Seq(Remembered) /\ Range(Last(redo).reAdd) \subseteq Reachable
    BY <1>0, <2>1 DEF RedoEntries
  <2>3. Range(checkpoints') \subseteq Range(checkpoints) \cup Range(Last(redo).reAdd)
    BY <1>0, <2>1, <2>2, RangeOfConcat
  <2>4. \A j \in 1..Len(redo') : j \in 1..Len(redo) /\ redo'[j].reAdd = redo[j].reAdd
    BY <1>4, RedoLine
  <2> QED  BY <1>0, <2>2, <2>3, <2>4
<1>5. CASE Crash
  BY <1>0, <1>5, NoneIn DEF Crash
<1> QED  BY <1>1, <1>2, <1>3, <1>4, <1>5

LEMMA EpochKept ==
  ASSUME Typed, EpochInv,
         epochs' \in {epochs, epochs + 1}, epochs' <= MaxShrinks,
         epoch' \in Nat, epoch' <= epochs', rewinds' \in {rewinds, rewinds + 1},
         disk' \in {disk, Snapshot},
         \A cp \in Reachable' : cp.epoch \in {epoch, NoEpoch} \/ \E old \in Reachable : cp.epoch = old.epoch
  PROVE  EpochInv'
<1>1. /\ epoch \in Nat /\ epochs \in Nat /\ rewinds \in Nat
      /\ disk.epoch \in Nat /\ disk.rewinds \in Nat
      /\ Snapshot.epoch = epoch /\ Snapshot.rewinds = rewinds
  BY DEF Typed, StoreTypes, Generations, Snapshot
<1>2. /\ epoch <= epochs /\ disk.epoch <= epochs /\ disk.rewinds <= rewinds
      /\ \A cp \in Reachable : cp.epoch <= epochs \/ cp.epoch = NoEpoch
  BY DEF EpochInv
<1>3. disk'.epoch <= epochs' /\ disk'.rewinds <= rewinds'
  BY <1>1, <1>2
<1>4. ASSUME NEW cp \in Reachable'  PROVE cp.epoch <= epochs' \/ cp.epoch = NoEpoch
  <2>1. \A r \in Remembered : r.epoch \in Nat
    BY DEF Remembered
  <2>2. \A old \in Reachable : old.epoch \in Nat
    BY <2>1, ReachTyped
  <2>3. CASE cp.epoch \in {epoch, NoEpoch}
    BY <1>1, <1>2, <2>3
  <2>4. CASE \E old \in Reachable : cp.epoch = old.epoch
    BY <1>1, <1>2, <2>2, <2>4
  <2> QED  BY <1>4, <2>3, <2>4
<1> QED  BY <1>3, <1>4 DEF EpochInv

LEMMA EpochStep ==
  ASSUME Typed, LengthInv, EpochInv, [SessionNext]_vars
  PROVE  EpochInv'
<1>0. epochs \in Nat /\ epoch \in Nat /\ epoch <= epochs /\ epochs <= MaxShrinks /\ disk.epoch \in Nat
      /\ disk.epoch <= epochs
  BY DEF Typed, StoreTypes, EpochInv, Generations
<1>1. ASSUME NEW m \in {"execute", "plan"}, Begin(m)  PROVE EpochInv'
  <2>1. UNCHANGED <<epoch, epochs, rewinds, disk>>
    BY <1>1 DEF Begin, told, storing
  <2>2. \A cp \in Reachable' : cp = Checkpoint(FALSE) \/ cp.epoch = NoEpoch
                                 \/ \E old \in Reachable : cp.epoch = old.epoch
    BY <1>1, ReachBegin
  <2>3. Checkpoint(FALSE).epoch = epoch
    BY DEF Checkpoint
  <2> QED  BY <1>0, <2>1, <2>2, <2>3, EpochKept
<1>2. CASE EndsEarly \/ FitSkipped \/ Send \/ Edit \/ StepEnd \/ UNCHANGED vars
  <2>1. UNCHANGED <<epoch, epochs, rewinds, disk, checkpoints, redo>>
    BY <1>2 DEF EndsEarly, FitSkipped, Send, Edit, StepEnd, vars, told, storing, undoing
  <2> QED  BY <1>0, <2>1, ReachKept, EpochKept
<1>3. CASE Fit \/ CompactNow
  <2>1. /\ UNCHANGED <<rewinds, disk, checkpoints, redo>>
        /\ epochs < MaxShrinks /\ epochs' = epochs + 1 /\ epoch' = epochs + 1
    BY <1>3 DEF Fit, CompactNow, Shrink, storing, undoing
  <2> QED  BY <1>0, <2>1, ReachKept, EpochKept
<1>4. ASSUME NEW text \in BOOLEAN, Reply(text) \/ Break(text)  PROVE EpochInv'
  <2>1. UNCHANGED <<epoch, epochs, rewinds, disk, checkpoints, redo>>
    BY <1>4 DEF Reply, Break, told, storing, undoing
  <2> QED  BY <1>0, <2>1, ReachKept, EpochKept
<1>5. CASE End
  <2>1. UNCHANGED <<epoch, epochs, rewinds, disk, checkpoints, redo>>
    BY <1>5 DEF End, storing, undoing
  <2> QED  BY <1>0, <2>1, ReachKept, EpochKept
<1>6. ASSUME NEW green \in BOOLEAN, Saved(green)  PROVE EpochInv'
  <2>1. UNCHANGED <<epoch, epochs, rewinds>> /\ disk' = Snapshot
    BY <1>6 DEF Saved, told
  <2>2. \A cp \in Reachable' : cp = Checkpoint(TRUE) \/ \E old \in Reachable : cp.epoch = old.epoch
    BY <1>6, ReachSaved
  <2>3. Checkpoint(TRUE).epoch = epoch
    BY DEF Checkpoint
  <2> QED  BY <1>0, <2>1, <2>2, <2>3, EpochKept
<1>7. CASE Clear
  <2>1. /\ UNCHANGED <<rewinds, disk>>
        /\ epochs < MaxShrinks /\ epochs' = epochs + 1 /\ epoch' = epochs + 1
    BY <1>7 DEF Clear, Shrink, storing
  <2> QED  BY <1>0, <1>7, <2>1, ReachKept, EpochKept
<1>8. CASE Undo \/ RestoreTo \/ Redo
  <2>1. UNCHANGED <<epoch, epochs, disk>> /\ rewinds' = rewinds + 1
    BY <1>8 DEF Undo, RestoreTo, Redo, Rewind, storing
  <2> QED  BY <1>0, <1>8, <2>1, ReachKept, EpochKept
<1>9. CASE SetGoal
  <2>1. UNCHANGED <<epoch, epochs, rewinds, checkpoints, redo>> /\ disk' = Snapshot
    BY <1>9 DEF SetGoal, told, undoing
  <2> QED  BY <1>0, <2>1, ReachKept, EpochKept
<1>10. CASE Crash
  <2>1. UNCHANGED <<epochs, rewinds, disk>> /\ epoch' = disk.epoch
    BY <1>10 DEF Crash
  <2> QED  BY <1>0, <1>10, <2>1, ReachKept, EpochKept
<1> QED  BY <1>1, <1>2, <1>3, <1>4, <1>5, <1>6, <1>7, <1>8, <1>9, <1>10 DEF SessionNext

-----------------------------------------------------------------------------
(* What a step does to the lists of a session nothing was taken from *)

\* A conversation that begins anew is nobody's yet.
LEMMA FreshEpoch ==
  ASSUME Typed, EpochInv, epochs < MaxShrinks
  PROVE  disk.epoch # epochs + 1 /\ \A cp \in Reachable : cp.epoch # epochs + 1
<1>1. epochs \in Nat /\ disk.epoch \in Nat /\ disk.epoch <= epochs
  BY DEF Typed, StoreTypes, Generations, EpochInv
<1>2. \A cp \in Reachable : cp.epoch <= epochs \/ cp.epoch = NoEpoch
  BY DEF EpochInv
<1>3. \A cp \in Reachable : cp.epoch \in Nat
  BY ReachTyped DEF Remembered
<1> QED  BY <1>1, <1>2, <1>3 DEF NoEpoch

\* No live conversation is the one of no checkpoint.
LEMMA LiveEpoch ==
  ASSUME Typed, EpochInv
  PROVE  epoch # NoEpoch /\ disk.epoch # NoEpoch
BY DEF Typed, StoreTypes, Generations, EpochInv, NoEpoch

LEMMA MarkTyped ==
  ASSUME Typed, NEW cp \in Reachable
  PROVE  cp.mark.messages \in Nat /\ cp.epoch \in Nat
BY ReachTyped DEF Remembered, Lengths

\* While nothing happens to the lists, the checkpoints and the disk, what they
\* say of each other stays.
LEMMA ListsStay ==
  ASSUME Typed, MarkInv, TailInv, DiskInv,
         UNCHANGED <<messages, redo, disk, rewinds, epoch, checkpoints>>,
         stage' \in {"prompted", "prepared", "streaming"} => stage \in {"prompted", "prepared", "streaming"},
         InTurn' => InTurn
  PROVE  MarkInv' /\ TailInv' /\ DiskInv'
<1>1. Reachable' = Reachable
  BY DEF Reachable
<1>2. MarkInv'
  BY <1>1 DEF MarkInv
<1>3. TailInv'
  BY <1>1 DEF TailInv
<1>4. DiskInv'
  BY DEF DiskInv
<1> QED  BY <1>2, <1>3, <1>4

LEMMA IntactQuiet ==
  ASSUME Typed, ListInv, StepInv, MarkInv, TailInv, DiskInv,
         EndsEarly \/ FitSkipped \/ Send \/ Edit \/ UNCHANGED vars
  PROVE  ListInv' /\ StepInv' /\ MarkInv' /\ TailInv' /\ DiskInv'
<1>1. UNCHANGED <<messages, redo, disk, rewinds, epoch, checkpoints, userRef, committed>>
  BY DEF EndsEarly, FitSkipped, Send, Edit, vars, lists, running, undoing, storing, told
<1>2. \/ stage' = stage
      \/ /\ stage \in {"prompted", "prepared"}
         /\ stage' \in {"prepared", "streaming", "ending"}
  BY DEF EndsEarly, FitSkipped, Send, Edit, vars
<1>3. StepInv'
  BY <1>1 DEF StepInv
<1>4. ListInv'
  <2>1. CASE stage' = stage
    BY <1>1, <2>1 DEF ListInv
  <2>2. CASE stage \in {"prompted", "prepared"} /\ stage' \in {"prepared", "streaming", "ending"}
    <3>1. /\ Linked(messages) /\ Begun(messages) /\ messages # << >>
          /\ userRef.role = "user" /\ Last(messages) = userRef
      BY <2>2 DEF ListInv
    <3> QED  BY <1>1, <2>2, <3>1 DEF ListInv
  <2> QED  BY <1>2, <2>1, <2>2
<1>5. MarkInv' /\ TailInv' /\ DiskInv'
  <2>1. /\ stage' \in {"prompted", "prepared", "streaming"} => stage \in {"prompted", "prepared", "streaming"}
        /\ InTurn' => InTurn
    BY <1>2 DEF InTurn
  <2> QED  BY <1>1, <2>1, ListsStay
<1> QED  BY <1>3, <1>4, <1>5

LEMMA IntactStepEnd ==
  ASSUME Typed, ListInv, StepInv, MarkInv, TailInv, DiskInv, StepEnd
  PROVE  ListInv' /\ StepInv' /\ MarkInv' /\ TailInv' /\ DiskInv'
<1>1. /\ UNCHANGED <<messages, redo, disk, rewinds, epoch, checkpoints, userRef, stage>>
      /\ committed' = committed \o <<Said("call", open), Said("tool", open)>>
  BY DEF StepEnd, lists, running, undoing, storing, told
<1>2. ListInv'
  BY <1>1 DEF ListInv
<1>3. MarkInv' /\ TailInv' /\ DiskInv'
  BY <1>1, ListsStay DEF InTurn
<1>4. StepInv'
  <2>1. open \in SUBSET Facts /\ committed \in Seq(Texts)
    BY DEF Typed, TurnTypes
  <2>2. PICK c \in Texts : c = Said("call", open) /\ c.role = "call"
    BY <2>1, SaidTyped
  <2>3. PICK r \in Texts : r = Said("tool", open) /\ r.role = "tool"
    BY <2>1, SaidTyped
  <2> DEFINE t == <<c, r>>
  <2>4. t \in Seq(Texts) /\ Len(t) = 2 /\ t[1] = c /\ t[2] = r /\ t # << >>
    BY TwoIn
  <2> HIDE DEF t
  <2>5. Linked(t)
    BY <2>2, <2>3, <2>4 DEF Linked, Follows
  <2>6. /\ committed \o t \in Seq(Texts) /\ Len(committed \o t) = Len(committed) + 2
        /\ \A i \in 1..Len(committed) : (committed \o t)[i] = committed[i]
        /\ \A i \in 1..2 : (committed \o t)[Len(committed) + i] = t[i]
        /\ Len(committed) \in Nat /\ (committed # << >> <=> Len(committed) # 0)
    <3>1. /\ committed \o t \in Seq(Texts) /\ Len(committed \o t) = Len(committed) + Len(t)
          /\ \A i \in 1..Len(committed) : (committed \o t)[i] = committed[i]
          /\ \A i \in 1..Len(t) : (committed \o t)[Len(committed) + i] = t[i]
      <4>1. \A u \in Seq(Texts) :
              /\ committed \o u \in Seq(Texts) /\ Len(committed \o u) = Len(committed) + Len(u)
              /\ \A i \in 1..Len(committed) : (committed \o u)[i] = committed[i]
              /\ \A i \in 1..Len(u) : (committed \o u)[Len(committed) + i] = u[i]
        BY <2>1, ConcatAt
      <4> QED  BY <2>4, <4>1
    <3>2. Len(committed) \in Nat /\ (committed # << >> <=> Len(committed) # 0)
      BY <2>1, SeqAt
    <3> QED  BY <2>4, <3>1, <3>2
  <2>7. /\ Linked(committed)
        /\ committed # << >> => committed[1].role = "call" /\ committed[Len(committed)].role = "tool"
    BY DEF StepInv
  <2>8. committed # << >> => Follows(committed[Len(committed)], t[1])
    BY <2>2, <2>4, <2>7 DEF Follows
  <2>9. Linked(committed \o t)
    BY <2>1, <2>4, <2>5, <2>7, <2>8, LinkedConcat
  <2>10. (committed \o t)[1].role = "call"
    <3>1. CASE committed = << >>
      <4>1. Len(committed) = 0
        BY <2>6, <3>1
      <4>2. (committed \o t)[0 + 1] = t[1]
        BY <2>6, <4>1
      <4> QED  BY <2>2, <2>4, <4>2
    <3>2. CASE committed # << >>
      <4>1. 1 \in 1..Len(committed)
        BY <2>6, <3>2
      <4> QED  BY <2>6, <2>7, <3>2, <4>1
    <3> QED  BY <3>1, <3>2
  <2>11. (committed \o t)[Len(committed \o t)].role = "tool"
    <3>1. (committed \o t)[Len(committed) + 2] = t[2]
      BY <2>6
    <3> QED  BY <2>3, <2>4, <2>6, <3>1
  <2>12. committed' = committed \o t
    BY <1>1, <2>2, <2>3 DEF t
  <2> QED  BY <2>9, <2>10, <2>11, <2>12 DEF StepInv
<1> QED  BY <1>2, <1>3, <1>4

LEMMA IntactShrink ==
  ASSUME Typed, EpochInv, ListInv, StepInv, MarkInv, TailInv, DiskInv, Fit \/ CompactNow
  PROVE  ListInv' /\ StepInv' /\ MarkInv' /\ TailInv' /\ DiskInv'
<1>1. /\ UNCHANGED <<redo, disk, rewinds, checkpoints, committed>>
      /\ messages' = Compacted(messages) /\ Cut(messages) > 0
      /\ epochs < MaxShrinks /\ epoch' = epochs + 1
  BY DEF Fit, CompactNow, Shrink, running, undoing, storing
<1>2. messages \in Seq(Texts)
  BY DEF Typed, ListTypes
<1>3. /\ messages' \in Seq(Texts) /\ messages' # << >> /\ Begun(messages')
      /\ Last(messages').role = Last(messages).role /\ Linked(messages')
  BY <1>1, <1>2, CompactedShape DEF ListInv
<1>4. Reachable' = Reachable
  BY <1>1 DEF Reachable
<1>5. disk.epoch # epoch' /\ \A cp \in Reachable : cp.epoch # epoch'
  BY <1>1, FreshEpoch
<1>6. StepInv'
  BY <1>1 DEF StepInv
<1>7. MarkInv'
  BY <1>4, <1>5 DEF MarkInv
<1>8. TailInv'
  BY <1>1, <1>4, <1>5 DEF TailInv
<1>9. DiskInv'
  BY <1>1, <1>5 DEF DiskInv
<1>10. ListInv'
  <2>1. CASE Fit
    <3>1. Last(messages) = userRef /\ userRef.role = "user"
      BY <2>1 DEF Fit, ListInv
    <3>2. userRef' = Last(messages') /\ userRef'.role = "user" /\ stage' = "prepared"
      BY <1>3, <2>1, <3>1 DEF Fit
    <3> QED  BY <1>3, <3>2 DEF ListInv
  <2>2. CASE CompactNow
    <3>1. stage = "idle" /\ stage' = "idle" /\ Closed(messages)
      BY <2>2 DEF CompactNow, ListInv
    <3>2. messages # << >>
      <4>1. Len(messages) # 0
        BY <1>1, <1>2, CutIs, SeqAt
      <4> QED  BY <1>2, <4>1, SeqAt
    <3>3. Closed(messages')
      BY <1>3, <3>1, <3>2 DEF Closed, Last
    <3> QED  BY <1>3, <3>1, <3>3 DEF ListInv
  <2> QED  BY <2>1, <2>2
<1> QED  BY <1>6, <1>7, <1>8, <1>9, <1>10

LEMMA IntactBegin ==
  ASSUME Typed, LengthInv, EpochInv, ListInv, StepInv, MarkInv, TailInv, DiskInv,
         NEW m \in {"execute", "plan"}, Begin(m)
  PROVE  ListInv' /\ StepInv' /\ MarkInv' /\ TailInv' /\ DiskInv'
<1>1. /\ stage = "idle" /\ stage' = "prompted" /\ committed' = << >>
      /\ messages' = Append(messages, userRef')
      /\ userRef' = [role |-> "user", turn |-> turns + 1, tells |-> {<<turns + 1, 0>>}]
      /\ turns < MaxTurns /\ UNCHANGED <<disk, rewinds, epoch>>
  BY DEF Begin, storing, told
<1>2. messages \in Seq(Texts) /\ turns \in Nat
  BY DEF Typed, ListTypes, TurnTypes
<1>3. userRef' \in Texts /\ userRef'.role = "user"
  <2>1. turns + 1 \in 1..MaxTurns
    BY <1>1, <1>2
  <2>2. <<turns + 1, 0>> \in Facts
    BY <2>1, FactsOfTurn
  <2> QED  BY <1>1, <2>1, <2>2 DEF Texts
<1>4. /\ messages' \in Seq(Texts) /\ messages' # << >> /\ Len(messages') = Len(messages) + 1
      /\ \A i \in 1..Len(messages) : messages'[i] = messages[i]
      /\ messages'[Len(messages) + 1] = userRef'
  BY <1>1, <1>2, <1>3, AppendAt
<1>5. Len(messages) \in Nat /\ (messages # << >> <=> Len(messages) # 0)
  BY <1>2, SeqAt
<1>6. Linked(messages) /\ Begun(messages) /\ Closed(messages)
  BY <1>1 DEF ListInv
<1>7. ListInv'
  <2>1. Linked(messages')
    <3> SUFFICES ASSUME NEW i \in 2..Len(messages')
                 PROVE  Follows(messages'[i - 1], messages'[i])
      BY DEF Linked
    <3>1. CASE i \in 2..Len(messages)
      <4>1. messages'[i] = messages[i] /\ messages'[i - 1] = messages[i - 1]
        BY <1>4, <1>5, <3>1
      <4> QED  BY <1>6, <3>1, <4>1 DEF Linked
    <3>2. CASE i \notin 2..Len(messages)
      <4>1. i = Len(messages) + 1 /\ Len(messages) \in 1..Len(messages) /\ i - 1 = Len(messages)
        BY <1>4, <1>5, <3>2
      <4>2. messages'[i] = userRef' /\ messages'[i - 1] = messages[Len(messages)]
        BY <1>4, <4>1
      <4>3. messages[Len(messages)].role \in {"assistant", "tool"}
        BY <1>5, <1>6, <4>1 DEF Closed
      <4> QED  BY <1>3, <4>2, <4>3 DEF Follows
    <3> QED  BY <3>1, <3>2
  <2>2. Begun(messages')
    <3>1. CASE messages = << >>
      BY <1>3, <1>4, <1>5, <3>1 DEF Begun
    <3>2. CASE messages # << >>
      BY <1>4, <1>5, <1>6, <3>2 DEF Begun
    <3> QED  BY <3>1, <3>2
  <2>3. Last(messages') = userRef'
    BY <1>4 DEF Last
  <2> QED  BY <1>1, <1>3, <1>4, <2>1, <2>2, <2>3 DEF ListInv
<1>8. StepInv'
  BY <1>1, NoneIn DEF StepInv, Linked
<1>9. epoch # NoEpoch /\ disk.epoch # NoEpoch
  BY LiveEpoch
<1>10. /\ Checkpoint(FALSE).mark.messages = Len(messages) /\ Checkpoint(FALSE).epoch = epoch
  BY DEF Checkpoint, Mark
<1>11. MarkInv'
  <2> SUFFICES ASSUME NEW cp \in Reachable', cp.epoch = epoch
               PROVE  Opens(messages', cp.mark.messages) /\ cp.mark.messages < Len(messages')
    BY <1>1 DEF MarkInv
  <2>1. CASE cp = Checkpoint(FALSE)
    <3>1. cp.mark.messages = Len(messages)
      BY <1>10, <2>1
    <3>2. Opens(messages', Len(messages)) /\ Len(messages) < Len(messages')
      BY <1>3, <1>4, <1>5 DEF Opens
    <3> QED  BY <3>1, <3>2
  <2>2. CASE cp # Checkpoint(FALSE)
    <3>1. PICK old \in Reachable :
            cp.mark = old.mark /\ cp.epoch = old.epoch /\ ~(old.mark.messages > Len(messages))
      BY <1>9, <2>2, ReachBegin
    <3>2. PICK n \in Nat : n = old.mark.messages
      BY MarkTyped
    <3>3. n <= Len(messages) /\ Opens(messages, n)
      BY <1>5, <3>1, <3>2 DEF MarkInv
    <3>4. n < Len(messages) => n + 1 \in 1..Len(messages)
      BY <1>5
    <3>5. Opens(messages', n)
      BY <1>3, <1>4, <1>5, <3>3, <3>4 DEF Opens
    <3> QED  BY <1>4, <1>5, <3>1, <3>2, <3>3, <3>5
  <2> QED  BY <2>1, <2>2
<1>12. TailInv'
  <2>1. CASE redo' = << >>
    BY <2>1, NoneIn DEF TailInv
  <2>2. CASE redo' # << >>
    <3>1. /\ Len(redo') = Len(redo)
          /\ \A i \in 1..Len(redo) : redo'[i].payload = redo[i].payload
      <4>1. redo' = [i \in DOMAIN redo |-> [redo[i] EXCEPT !.reAdd = Overtaken(@)]]
        BY <2>2 DEF Begin
      <4>2. redo \in Seq(RedoEntries)
        BY DEF Typed, UndoTypes
      <4> QED  BY <4>1, <4>2, OvertakenLine
    <3>2. \A cp \in Reachable' : cp.epoch = epoch =>
            \E old \in Reachable : cp.mark = old.mark /\ old.epoch = epoch
      BY <1>9, <2>2, ReachBegin
    <3> QED  BY <1>1, <3>1, <3>2 DEF TailInv
  <2> QED  BY <2>1, <2>2
<1>13. DiskInv'
  <2> SUFFICES ASSUME disk.whole, disk.rewinds = rewinds
               PROVE  /\ Settled(disk.messages)
                      /\ \A cp \in Range(checkpoints') :
                           cp.epoch = disk.epoch => Opens(disk.messages, cp.mark.messages)
                      /\ disk.epoch = epoch => Len(disk.messages) < Len(messages')
    <3>1. Len(disk.messages) \in Nat /\ Len(messages') \in Nat
      BY <1>4, SeqAt DEF Typed, StoreTypes, Generations
    <3> QED  BY <1>1, <3>1 DEF DiskInv
  <2>1. /\ Settled(disk.messages)
        /\ \A cp \in Range(checkpoints) : cp.epoch = disk.epoch => Opens(disk.messages, cp.mark.messages)
        /\ disk.epoch = epoch => Len(disk.messages) <= Len(messages)
    BY DEF DiskInv
  <2>2. Len(disk.messages) \in Nat
    BY SeqAt DEF Typed, StoreTypes, Generations
  <2>3. ASSUME NEW cp \in Range(checkpoints'), cp.epoch = disk.epoch
        PROVE  Opens(disk.messages, cp.mark.messages)
    <3>1. CASE cp = Checkpoint(FALSE)
      <4>1. cp.mark.messages = Len(messages) /\ disk.epoch = epoch
        BY <1>10, <2>3, <3>1
      <4>2. Opens(disk.messages, Len(messages))
        BY <1>5, <2>1, <2>2, <4>1 DEF Opens
      <4> QED  BY <4>1, <4>2
    <3>2. CASE cp # Checkpoint(FALSE)
      <4>1. PICK old \in Range(checkpoints) : cp.mark = old.mark /\ cp.epoch = old.epoch
        BY <1>9, <2>3, <3>2, ReachBegin
      <4> QED  BY <2>1, <2>3, <4>1
    <3> QED  BY <3>1, <3>2
  <2> QED  BY <1>4, <1>5, <2>1, <2>2, <2>3
<1> QED  BY <1>7, <1>8, <1>11, <1>12, <1>13

\* A request: what was said and the steps of the turn so far.
LEMMA RequestLinked ==
  ASSUME Typed, ListInv, StepInv, stage = "streaming"
  PROVE  LET r == messages \o committed
         IN  /\ r \in Seq(Texts) /\ r # << >> /\ Len(r) >= Len(messages)
             /\ Linked(r) /\ Begun(r)
             /\ \A i \in 1..Len(messages) : r[i] = messages[i]
             /\ \/ r[Len(r)] = userRef /\ userRef.role = "user"
                \/ r[Len(r)].role = "tool"
<1>1. /\ messages \in Seq(Texts) /\ committed \in Seq(Texts)
      /\ Len(messages) \in Nat /\ Len(committed) \in Nat
      /\ (messages # << >> <=> Len(messages) # 0) /\ (committed # << >> <=> Len(committed) # 0)
  BY SeqAt DEF Typed, ListTypes, TurnTypes
<1>2. /\ Linked(messages) /\ Begun(messages) /\ messages # << >>
      /\ userRef.role = "user" /\ messages[Len(messages)] = userRef
  BY DEF ListInv, Last
<1>3. /\ Linked(committed)
      /\ committed # << >> => committed[1].role = "call" /\ committed[Len(committed)].role = "tool"
  BY DEF StepInv
<1> DEFINE r == messages \o committed
<1>4. /\ r \in Seq(Texts) /\ Len(r) = Len(messages) + Len(committed)
      /\ \A i \in 1..Len(messages) : r[i] = messages[i]
      /\ \A i \in 1..Len(committed) : r[Len(messages) + i] = committed[i]
  BY <1>1, ConcatAt
<1>5. Linked(r)
  <2>1. committed # << >> => Follows(messages[Len(messages)], committed[1])
    BY <1>2, <1>3 DEF Follows
  <2> QED  BY <1>1, <1>2, <1>3, <2>1, LinkedConcat
<1> HIDE DEF r
<1>6. r # << >> /\ Len(r) >= Len(messages)
  BY <1>1, <1>2, <1>4, SeqAt
<1>7. Begun(r)
  <2>1. r[1] = messages[1]
    BY <1>1, <1>2, <1>4
  <2> QED  BY <1>2, <2>1 DEF Begun
<1>8. \/ r[Len(r)] = userRef /\ userRef.role = "user"
      \/ r[Len(r)].role = "tool"
  <2>1. CASE committed = << >>
    <3>1. Len(r) = Len(messages) /\ Len(messages) \in 1..Len(messages)
      BY <1>1, <1>2, <1>4, <2>1
    <3> QED  BY <1>2, <1>4, <3>1
  <2>2. CASE committed # << >>
    <3>1. Len(committed) \in 1..Len(committed)
      BY <1>1, <2>2
    <3> QED  BY <1>3, <1>4, <2>2, <3>1
  <2> QED  BY <2>1, <2>2
<1> QED  BY <1>4, <1>5, <1>6, <1>7, <1>8 DEF r

LEMMA IntactStreamed ==
  ASSUME Typed, ListInv, StepInv, MarkInv, TailInv, DiskInv,
         NEW text \in BOOLEAN, Reply(text) \/ Break(text)
  PROVE  ListInv' /\ StepInv' /\ MarkInv' /\ TailInv' /\ DiskInv'
<1>1. /\ stage = "streaming" /\ stage' = "ending"
      /\ messages' = messages \o committed \o (IF text THEN <<Said("assistant", {})>> ELSE << >>)
      /\ UNCHANGED <<redo, disk, rewinds, epoch, checkpoints, userRef, committed>>
  BY DEF Reply, Break, running, undoing, storing, told
<1> DEFINE r == messages \o committed
<1>2. /\ r \in Seq(Texts) /\ r # << >> /\ Len(r) >= Len(messages)
      /\ Linked(r) /\ Begun(r)
      /\ \A i \in 1..Len(messages) : r[i] = messages[i]
      /\ \/ r[Len(r)] = userRef /\ userRef.role = "user"
         \/ r[Len(r)].role = "tool"
  BY <1>1, RequestLinked
<1>3. userRef.role = "user"
  BY <1>1 DEF ListInv
<1>4. messages' = r \/ messages' = r \o <<Said("assistant", {})>>
  <2>1. r \o << >> = r
    BY <1>2
  <2> QED  BY <1>1, <2>1
<1> HIDE DEF r
<1>5. Len(r) \in Nat /\ Len(r) # 0 /\ Len(messages) \in Nat /\ messages \in Seq(Texts)
  BY <1>2, SeqAt DEF Typed, ListTypes
<1>6. /\ messages' \in Seq(Texts) /\ messages' # << >> /\ Len(messages') >= Len(messages)
      /\ Len(messages') \in Nat
      /\ Linked(messages') /\ Begun(messages')
      /\ \A i \in 1..Len(messages) : messages'[i] = messages[i]
      /\ \/ messages'[Len(messages')] = userRef
         \/ messages'[Len(messages')].role \in {"tool", "assistant"}
  <2>1. CASE messages' = r
    BY <1>2, <1>5, <2>1
  <2>2. CASE messages' = r \o <<Said("assistant", {})>>
    <3>1. PICK a \in Texts : a = Said("assistant", {}) /\ a.role = "assistant"
      BY SaidTyped
    <3> DEFINE t == <<a>>
    <3>2. t \in Seq(Texts) /\ Len(t) = 1 /\ t[1] = a /\ t # << >> /\ messages' = r \o t
      BY <2>2, <3>1, OneIn
    <3> HIDE DEF t
    <3>3. /\ r \o t \in Seq(Texts) /\ Len(r \o t) = Len(r) + 1
          /\ \A i \in 1..Len(r) : (r \o t)[i] = r[i]
          /\ (r \o t)[Len(r) + 1] = a
      <4>1. \A u \in Seq(Texts) :
              /\ r \o u \in Seq(Texts) /\ Len(r \o u) = Len(r) + Len(u)
              /\ \A i \in 1..Len(r) : (r \o u)[i] = r[i]
              /\ \A i \in 1..Len(u) : (r \o u)[Len(r) + i] = u[i]
        BY <1>2, ConcatAt
      <4>2. 1 \in 1..Len(t)
        BY <3>2
      <4> QED  BY <3>2, <4>1, <4>2
    <3>4. Linked(t)
      BY <3>2 DEF Linked
    <3>5. r[Len(r)].role \in {"user", "tool"}
      BY <1>2
    <3>6. Follows(r[Len(r)], t[1])
      BY <3>1, <3>2, <3>5 DEF Follows
    <3>7. Linked(r \o t)
      BY <1>2, <3>2, <3>4, <3>6, LinkedConcat
    <3>8. Begun(r \o t)
      BY <1>2, <1>5, <3>3 DEF Begun
    <3>9. r \o t # << >>
      BY <1>5, <3>3, SeqAt
    <3> HIDE DEF t
    <3>10. \A i \in 1..Len(messages) : (r \o t)[i] = messages[i]
      BY <1>2, <1>5, <3>3
    <3> QED  BY <1>2, <1>5, <3>1, <3>2, <3>3, <3>7, <3>8, <3>9, <3>10
  <2> QED  BY <1>4, <2>1, <2>2
<1>7. ListInv'
  <2>1. Last(messages').role # "call" /\ (Last(messages').role = "user" => Last(messages') = userRef)
    BY <1>3, <1>6 DEF Last
  <2> QED  BY <1>1, <1>3, <1>6, <2>1 DEF ListInv
<1>8. StepInv'
  BY <1>1 DEF StepInv
<1>9. Reachable' = Reachable
  BY <1>1 DEF Reachable
<1>10. MarkInv'
  <2> SUFFICES ASSUME NEW cp \in Reachable, cp.epoch = epoch  PROVE Opens(messages', cp.mark.messages)
    BY <1>1, <1>9 DEF MarkInv
  <2>1. PICK n \in Nat : n = cp.mark.messages
    BY MarkTyped
  <2>2. Opens(messages, n) /\ n < Len(messages)
    BY <1>1, <2>1 DEF MarkInv
  <2>3. n + 1 \in 1..Len(messages)
    BY <1>5, <2>2
  <2>4. Opens(messages', n)
    BY <1>6, <2>2, <2>3 DEF Opens
  <2> QED  BY <2>1, <2>4
<1>11. TailInv'
  BY <1>1, <1>9 DEF TailInv
<1>12. DiskInv'
  <2>1. Len(disk.messages) \in Nat /\ InTurn
    BY <1>1, SeqAt DEF Typed, StoreTypes, Generations, InTurn
  <2> QED  BY <1>1, <1>5, <1>6, <2>1 DEF DiskInv
<1> QED  BY <1>7, <1>8, <1>10, <1>11, <1>12

LEMMA IntactEnd ==
  ASSUME Typed, ListInv, StepInv, MarkInv, TailInv, DiskInv, End
  PROVE  ListInv' /\ StepInv' /\ MarkInv' /\ TailInv' /\ DiskInv'
<1>1. /\ stage = "ending" /\ stage' = "saving"
      /\ UNCHANGED <<redo, disk, rewinds, epoch, checkpoints, userRef, committed>>
      /\ \/ Orphaned /\ messages' = Front(messages)
         \/ ~Orphaned /\ messages' = messages
  BY DEF End, running, undoing, storing
<1>2. /\ messages \in Seq(Texts) /\ messages # << >> /\ Len(messages) \in Nat /\ Len(messages) # 0
      /\ Linked(messages) /\ Begun(messages) /\ userRef.role = "user"
      /\ Last(messages).role # "call" /\ (Last(messages).role = "user" => Last(messages) = userRef)
  BY <1>1, SeqAt DEF ListInv, Typed, ListTypes
<1>3. StepInv'
  BY <1>1 DEF StepInv
<1>4. Settled(messages') /\ Len(messages') \in Nat /\ Len(messages') <= Len(messages)
      /\ Len(messages) <= Len(messages') + 1
      /\ \A i \in 1..Len(messages') : messages'[i] = messages[i]
  <2>1. CASE Orphaned /\ messages' = Front(messages)
    <3>1. Settled(messages')
      BY <1>2, <2>1, FrontSettled DEF Orphaned
    <3>2. /\ Front(messages) \in Seq(Texts) /\ Len(Front(messages)) = Len(messages) - 1
          /\ \A i \in 1..Len(Front(messages)) : Front(messages)[i] = messages[i]
      BY <1>2, FrontAt
    <3> QED  BY <1>2, <2>1, <3>1, <3>2
  <2>2. CASE ~Orphaned /\ messages' = messages
    <3>1. Last(messages) # userRef
      BY <1>2, <2>2 DEF Orphaned
    <3>2. messages[Len(messages)] \in Texts
      BY <1>2, SeqAt
    <3>3. messages[Len(messages)].role \in {"tool", "assistant"}
      BY <1>2, <3>1, <3>2, TextAt DEF Last
    <3> QED  BY <1>2, <2>2, <3>3 DEF Settled, Closed
  <2> QED  BY <1>1, <2>1, <2>2
<1>5. ListInv'
  BY <1>1, <1>4 DEF ListInv, Settled
<1>6. Reachable' = Reachable
  BY <1>1 DEF Reachable
<1>7. MarkInv'
  <2> SUFFICES ASSUME NEW cp \in Reachable, cp.epoch = epoch  PROVE Opens(messages', cp.mark.messages)
    BY <1>1, <1>6 DEF MarkInv
  <2>1. PICK n \in Nat : n = cp.mark.messages
    BY MarkTyped
  <2>2. Opens(messages, n)
    BY <2>1 DEF MarkInv
  <2>3. n < Len(messages') => n < Len(messages) /\ n + 1 \in 1..Len(messages')
    BY <1>2, <1>4
  <2>4. Opens(messages', n)
    BY <1>4, <2>2, <2>3 DEF Opens
  <2> QED  BY <2>1, <2>4
<1>8. TailInv'
  BY <1>1, <1>6 DEF TailInv
<1>9. DiskInv'
  <2>1. Len(disk.messages) \in Nat /\ InTurn /\ ~InTurn'
    BY <1>1, SeqAt DEF Typed, StoreTypes, Generations, InTurn
  <2> QED  BY <1>1, <1>2, <1>4, <2>1 DEF DiskInv
<1> QED  BY <1>3, <1>5, <1>7, <1>8, <1>9

\* A save between turns is of whole turns.
LEMMA SnapshotWhole ==
  ASSUME Typed, ListInv, MarkInv, ~InTurn
  PROVE  /\ Snapshot.messages = messages /\ Snapshot.epoch = epoch /\ Snapshot.rewinds = rewinds
         /\ Settled(messages)
<1>1. stage \in {"idle", "saving"}
  BY DEF InTurn, Typed, TurnTypes
<1> QED  BY <1>1 DEF Snapshot, ListInv, Settled

LEMMA IntactSaved ==
  ASSUME Typed, LengthInv, ListInv, StepInv, MarkInv, TailInv, DiskInv,
         NEW green \in BOOLEAN, Saved(green)
  PROVE  ListInv' /\ StepInv' /\ MarkInv' /\ TailInv' /\ DiskInv'
<1>1. /\ stage = "saving" /\ stage' = "idle" /\ disk' = Snapshot /\ committed' = << >>
      /\ UNCHANGED <<messages, rewinds, epoch>>
      /\ redo' = << >> \/ UNCHANGED <<checkpoints, redo>>
  BY DEF Saved, NoTurn, lists, undoing, told
<1>2. Linked(messages) /\ Begun(messages) /\ Closed(messages) /\ Len(messages) \in Nat
  BY <1>1, SeqAt DEF ListInv, Typed, ListTypes
<1>3. ListInv'
  BY <1>1, <1>2 DEF ListInv
<1>4. StepInv'
  BY <1>1, NoneIn DEF StepInv, Linked
<1>5. Checkpoint(TRUE).mark.messages = Len(messages)
  BY DEF Checkpoint, Mark
<1>6. \A cp \in Reachable' : cp.epoch = epoch => Opens(messages, cp.mark.messages)
  <2> SUFFICES ASSUME NEW cp \in Reachable', cp.epoch = epoch  PROVE Opens(messages, cp.mark.messages)
    OBVIOUS
  <2>1. CASE cp = Checkpoint(TRUE)
    <3>1. Opens(messages, Len(messages))
      BY <1>2 DEF Opens
    <3> QED  BY <1>5, <2>1, <3>1
  <2>2. CASE cp \in Reachable
    BY <2>2 DEF MarkInv
  <2> QED  BY <2>1, <2>2, ReachSaved
<1>7. MarkInv'
  BY <1>1, <1>6 DEF MarkInv
<1>8. TailInv'
  <2>1. CASE redo' = << >>
    BY <2>1, NoneIn DEF TailInv
  <2>2. CASE UNCHANGED <<checkpoints, redo>>
    <3>1. Reachable' = Reachable
      BY <2>2 DEF Reachable
    <3> QED  BY <1>1, <2>2, <3>1 DEF TailInv
  <2> QED  BY <1>1, <2>1, <2>2
<1>9. DiskInv'
  <2>1. Snapshot.messages = messages /\ Snapshot.epoch = epoch /\ Snapshot.rewinds = rewinds /\ Settled(messages)
    BY <1>1, SnapshotWhole DEF InTurn
  <2>2. disk'.messages = messages' /\ disk'.epoch = epoch' /\ ~InTurn'
    BY <1>1, <2>1 DEF InTurn
  <2>3. \A cp \in Range(checkpoints') : cp.epoch = disk'.epoch => Opens(disk'.messages, cp.mark.messages)
    BY <1>1, <1>6, <2>2 DEF Reachable
  <2> QED  BY <1>1, <1>2, <2>1, <2>2, <2>3 DEF DiskInv
<1> QED  BY <1>3, <1>4, <1>7, <1>8, <1>9

LEMMA IntactSetGoal ==
  ASSUME Typed, ListInv, StepInv, MarkInv, TailInv, DiskInv, SetGoal
  PROVE  ListInv' /\ StepInv' /\ MarkInv' /\ TailInv' /\ DiskInv'
<1>1. disk' = Snapshot /\ UNCHANGED <<messages, redo, rewinds, epoch, checkpoints, userRef, committed, stage>>
  BY DEF SetGoal, lists, running, undoing, told
<1>2. Reachable' = Reachable /\ InTurn' = InTurn
  BY <1>1 DEF Reachable, InTurn
<1>3. ListInv' /\ StepInv'
  BY <1>1 DEF ListInv, StepInv
<1>4. MarkInv' /\ TailInv'
  BY <1>1, <1>2 DEF MarkInv, TailInv
<1>5. DiskInv'
  <2>1. CASE InTurn
    BY <1>1, <2>1 DEF DiskInv, Snapshot
  <2>2. CASE ~InTurn
    <3>1. Snapshot.messages = messages /\ Snapshot.epoch = epoch /\ Snapshot.rewinds = rewinds /\ Settled(messages)
      BY <2>2, SnapshotWhole
    <3>2. \A cp \in Range(checkpoints) : cp.epoch = epoch => Opens(messages, cp.mark.messages)
      BY DEF MarkInv, Reachable
    <3>3. Len(messages) \in Nat
      BY SeqAt DEF Typed, ListTypes
    <3> QED  BY <1>1, <1>2, <2>2, <3>1, <3>2, <3>3 DEF DiskInv
  <2> QED  BY <2>1, <2>2
<1> QED  BY <1>3, <1>4, <1>5

LEMMA EmptyLists ==
  Linked(<< >>) /\ Begun(<< >>) /\ Closed(<< >>) /\ \A n \in Nat : Opens(<< >>, n)
BY NoneIn DEF Linked, Begun, Closed, Opens

LEMMA IntactClear ==
  ASSUME Typed, LengthInv, EpochInv, ListInv, StepInv, MarkInv, TailInv, DiskInv, Clear
  PROVE  ListInv' /\ StepInv' /\ MarkInv' /\ TailInv' /\ DiskInv'
<1>1. /\ messages' = << >> /\ epochs < MaxShrinks /\ epoch' = epochs + 1 /\ stage = "idle"
      /\ redo' = [i \in DOMAIN redo |-> [redo[i] EXCEPT !.payload = << >>]]
      /\ UNCHANGED <<stage, disk, rewinds, checkpoints, committed>>
  BY DEF Clear, Shrink, running, storing
<1>2. disk.epoch # epoch' /\ \A cp \in Reachable : cp.epoch # epoch'
  BY <1>1, FreshEpoch
<1>3. \A cp \in Reachable' : cp.epoch # epoch'
  BY <1>2, ReachKept
<1>4. ListInv' /\ StepInv'
  BY <1>1, EmptyLists DEF ListInv, StepInv
<1>5. MarkInv'
  BY <1>3 DEF MarkInv
<1>6. TailInv'
  <2>1. Len(redo') = Len(redo) /\ \A i \in 1..Len(redo) : redo'[i].payload = << >>
    BY <1>1, ClearedLine DEF Typed, UndoTypes
  <2> QED  BY <2>1 DEF TailInv
<1>7. DiskInv'
  BY <1>1, <1>2 DEF DiskInv
<1> QED  BY <1>4, <1>5, <1>6, <1>7

\* A rewind makes what was saved before it unfit to come back.
LEMMA DiskBehind ==
  ASSUME Typed, EpochInv, disk' = disk, rewinds' = rewinds + 1
  PROVE  DiskInv'
<1>1. disk.rewinds \in Nat /\ rewinds \in Nat /\ disk.rewinds <= rewinds
  BY DEF Typed, StoreTypes, Generations, EpochInv
<1> QED  BY <1>1 DEF DiskInv

LEMMA IntactRewind ==
  ASSUME Typed, LengthInv, EpochInv, ListInv, StepInv, MarkInv, TailInv, DiskInv,
         Undo \/ RestoreTo, intact'
  PROVE  ListInv' /\ StepInv' /\ MarkInv' /\ TailInv' /\ DiskInv'
<1>1. stage = "idle" /\ UNCHANGED <<stage, committed, disk, epoch>>
  BY DEF Undo, RestoreTo, running, storing
<1>2. PICK cp \in Range(checkpoints), more \in Seq(RedoEntries) :
        /\ Rewind(cp) /\ redo' = redo \o more
        /\ Len(more) \in Nat \ {0} /\ more[1].payload = Stashed(cp)
        /\ \A j \in 2..Len(more) : more[j].payload = << >>
  BY RewindForm
<1>3. cp \in Reachable /\ cp \in Remembered
  BY ReachTyped
<1>4. cp.epoch = epoch /\ messages' = Upto(messages, cp.mark.messages) /\ rewinds' = rewinds + 1
  BY <1>2 DEF Rewind
<1>5. PICK n \in Nat : n = cp.mark.messages
  BY <1>3, MarkTyped
<1>6. /\ messages \in Seq(Texts) /\ Len(messages) \in Nat
      /\ Settled(messages) /\ Opens(messages, n)
  BY <1>1, <1>3, <1>4, <1>5, SeqAt DEF Typed, ListTypes, ListInv, Settled, MarkInv
<1>7. Settled(messages') /\ messages' = Upto(messages, n)
  BY <1>4, <1>5, <1>6, PrefixSettled
<1>8. ListInv' /\ StepInv'
  BY <1>1, <1>7 DEF ListInv, StepInv, Settled
<1>9. Reachable' \subseteq Reachable
  BY ReachKept
<1>10. MarkInv'
  <2> SUFFICES ASSUME NEW c \in Reachable, c.epoch = epoch  PROVE Opens(messages', c.mark.messages)
    BY <1>1, <1>9 DEF MarkInv
  <2>1. PICK k \in Nat : k = c.mark.messages
    BY MarkTyped
  <2>2. Opens(messages, k)
    BY <2>1 DEF MarkInv
  <2> QED  BY <1>6, <1>7, <2>1, <2>2, OpensPrefix
<1>11. TailInv'
  <2>0. redo \in Seq(RedoEntries) /\ Len(redo) \in Nat
    BY SeqAt DEF Typed, UndoTypes
  <2>1. /\ Len(redo') = Len(redo) + Len(more)
        /\ \A i \in 1..Len(redo) : redo'[i] = redo[i]
        /\ \A i \in 1..Len(more) : redo'[Len(redo) + i] = more[i]
    BY <1>2, <2>0, ConcatAt
  <2> SUFFICES ASSUME NEW j \in 1..Len(redo'), redo'[j].payload # << >>
               PROVE  /\ Settled(redo'[j].payload[1].messages)
                      /\ \A c \in Reachable : \A k \in Nat :
                           c.epoch = epoch /\ c.mark.messages = redo'[j].payload[1].mark.messages + k
                             => Opens(redo'[j].payload[1].messages, k)
    BY <1>1, <1>9 DEF TailInv
  <2>2. CASE j \in 1..Len(redo)
    BY <2>1, <2>2 DEF TailInv
  <2>3. CASE j \notin 1..Len(redo)
    <3>1. j - Len(redo) \in 1..Len(more) /\ Len(redo) + (j - Len(redo)) = j
      BY <1>2, <2>0, <2>1, <2>3
    <3>2. redo'[j] = more[j - Len(redo)]
      BY <2>1, <3>1
    <3>3. j - Len(redo) = 1
      BY <1>2, <3>1, <3>2
    <3>4. redo'[j].payload[1] = CutOff(cp)
      BY <1>2, <1>3, <3>2, <3>3, RewindAt
    <3> DEFINE tail == SubSeq(messages, n + 1, Len(messages))
    <3>5. CutOff(cp).messages = tail /\ CutOff(cp).mark.messages = Len(messages')
      BY <1>5 DEF CutOff
    <3>6. Settled(tail)
      BY <1>6, SuffixSettled
    <3>7. ASSUME NEW c \in Reachable, NEW k \in Nat, c.epoch = epoch,
                 c.mark.messages = Len(messages') + k
          PROVE  Opens(tail, k)
      <4>1. CASE n <= Len(messages)
        <5>1. Len(messages') = n
          BY <1>6, <1>7, <4>1, PrefixAt
        <5>2. Opens(messages, n + k)
          BY <3>7, <5>1 DEF MarkInv
        <5> QED  BY <1>6, <5>2, OpensSuffix
      <4>2. CASE ~(n <= Len(messages))
        <5>1. Len(tail) = 0 /\ tail \in Seq(Texts)
          BY <1>6, <4>2, SuffixAt
        <5> HIDE DEF tail
        <5> QED  BY <5>1 DEF Opens
      <4> QED  BY <4>1, <4>2
    <3> HIDE DEF tail
    <3> QED  BY <3>4, <3>5, <3>6, <3>7
  <2> QED  BY <2>2, <2>3
<1>12. DiskInv'
  BY <1>1, <1>4, DiskBehind
<1> QED  BY <1>8, <1>10, <1>11, <1>12

LEMMA IntactRedo ==
  ASSUME Typed, LengthInv, EpochInv, ListInv, StepInv, MarkInv, TailInv, DiskInv, Redo
  PROVE  ListInv' /\ StepInv' /\ MarkInv' /\ TailInv' /\ DiskInv'
<1>1. stage = "idle" /\ rewinds' = rewinds + 1 /\ UNCHANGED <<stage, committed, disk, epoch>>
  BY DEF Redo, running, storing
<1>2. messages \in Seq(Texts) /\ Len(messages) \in Nat /\ Settled(messages)
  BY <1>1, SeqAt DEF Typed, ListTypes, ListInv, Settled
<1>3. Reachable' \subseteq Reachable
  BY ReachKept
<1>4. Settled(messages') /\ \A cp \in Reachable : cp.epoch = epoch => Opens(messages', cp.mark.messages)
  <2>1. CASE UNCHANGED messages
    BY <1>2, <2>1 DEF MarkInv
  <2>2. CASE /\ Last(redo).payload # << >> /\ Last(redo).payload[1] \in Tails
             /\ Last(redo).payload[1].mark = Mark
             /\ messages' = messages \o Last(redo).payload[1].messages
    <3>1. PICK t \in Tails : t = Last(redo).payload[1]
      BY <2>2
    <3>2. /\ t.messages \in Seq(Texts) /\ t.mark.messages = Len(messages)
          /\ messages' = messages \o t.messages
      BY <2>2, <3>1 DEF Tails, Mark
    <3>3. Len(redo) \in 1..Len(redo) /\ Last(redo) = redo[Len(redo)]
      BY RedoLists
    <3>4. /\ Settled(t.messages)
          /\ \A cp \in Reachable : \A n \in Nat :
               cp.epoch = epoch /\ cp.mark.messages = Len(messages) + n => Opens(t.messages, n)
      BY <2>2, <3>1, <3>2, <3>3 DEF TailInv
    <3>5. Settled(messages')
      BY <1>2, <3>2, <3>4, SettledConcat
    <3>6. ASSUME NEW cp \in Reachable, cp.epoch = epoch  PROVE Opens(messages', cp.mark.messages)
      <4>1. PICK n \in Nat : n = cp.mark.messages
        BY MarkTyped
      <4>2. Opens(messages, n)
        BY <3>6, <4>1 DEF MarkInv
      <4>3. \A k \in Nat : n = Len(messages) + k => Opens(t.messages, k)
        BY <3>4, <3>6, <4>1
      <4> QED  BY <1>2, <3>2, <4>1, <4>2, <4>3, OpensConcat
    <3> QED  BY <3>5, <3>6
  <2> QED  BY <2>1, <2>2, RedoLists DEF lists
<1>5. ListInv' /\ StepInv'
  BY <1>1, <1>4 DEF ListInv, StepInv, Settled
<1>6. MarkInv'
  BY <1>1, <1>3, <1>4 DEF MarkInv
<1>7. TailInv'
  <2>1. \A j \in 1..Len(redo') :
          /\ j \in 1..Len(redo)
          /\ redo'[j].payload # << >> =>
               /\ redo[j].payload # << >>
               /\ redo'[j].payload[1].mark = redo[j].payload[1].mark
               /\ redo'[j].payload[1].messages = redo[j].payload[1].messages
    BY RedoLine
  <2> QED  BY <1>1, <1>3, <2>1 DEF TailInv
<1>8. DiskInv'
  BY <1>1, DiskBehind
<1> QED  BY <1>5, <1>6, <1>7, <1>8

LEMMA IntactCrash ==
  ASSUME Typed, LengthInv, ListInv, StepInv, MarkInv, TailInv, DiskInv, Crash, intact'
  PROVE  ListInv' /\ StepInv' /\ MarkInv' /\ TailInv' /\ DiskInv'
<1>1. /\ messages' = disk.messages /\ stage' = "idle" /\ redo' = << >> /\ committed' = << >>
      /\ disk.whole /\ disk.rewinds = rewinds /\ epoch' = disk.epoch
      /\ UNCHANGED <<checkpoints, disk, rewinds>>
  BY DEF Crash, NoTurn
<1>2. /\ Settled(disk.messages)
      /\ \A cp \in Range(checkpoints) : cp.epoch = disk.epoch => Opens(disk.messages, cp.mark.messages)
  BY <1>1 DEF DiskInv
<1>3. Reachable' = Range(checkpoints)
  BY <1>1, NoneIn DEF Reachable
<1>4. ListInv' /\ StepInv'
  BY <1>1, <1>2, EmptyLists DEF ListInv, StepInv, Settled
<1>5. MarkInv'
  BY <1>1, <1>2, <1>3 DEF MarkInv
<1>6. TailInv'
  BY <1>1, NoneIn DEF TailInv
<1>7. DiskInv'
  <2>1. Len(disk.messages) \in Nat /\ ~InTurn'
    BY <1>1, SeqAt DEF Typed, StoreTypes, Generations, InTurn
  <2> QED  BY <1>1, <1>2, <2>1 DEF DiskInv
<1> QED  BY <1>4, <1>5, <1>6, <1>7

LEMMA IntactInit == SessionInit => EpochInv /\ IntactInv
<1> SUFFICES ASSUME SessionInit  PROVE EpochInv /\ ListInv /\ StepInv /\ MarkInv /\ TailInv /\ DiskInv
  BY DEF IntactInv
<1>1. /\ messages = << >> /\ committed = << >> /\ checkpoints = << >> /\ redo = << >> /\ stage = "idle"
      /\ epoch = 0 /\ epochs = 0 /\ rewinds = 0 /\ disk = Snapshot
  BY DEF SessionInit
<1>2. disk.messages = << >> /\ disk.epoch = 0 /\ disk.rewinds = 0
  BY <1>1 DEF Snapshot
<1>3. Reachable = {} /\ Range(checkpoints) = {} /\ Len(redo) = 0
  BY <1>1, NoneIn DEF Reachable, Range
<1>4. EpochInv
  BY <1>1, <1>2, <1>3 DEF EpochInv
<1>5. ListInv /\ StepInv
  BY <1>1, EmptyLists DEF ListInv, StepInv
<1>6. MarkInv /\ TailInv
  BY <1>3 DEF MarkInv, TailInv
<1>7. DiskInv
  BY <1>1, <1>2, <1>3, EmptyLists, NoneIn DEF DiskInv, Settled, InTurn
<1> QED  BY <1>4, <1>5, <1>6, <1>7

\* A step after which nothing is out of step starts where nothing was.
LEMMA IntactBefore ==
  ASSUME Typed, LengthInv, [SessionNext]_vars, intact'
  PROVE  intact
<1>1. intact \in BOOLEAN
  BY DEF Typed, StoreTypes
<1>2. CASE Undo \/ RestoreTo
  BY <1>1, <1>2, RewindForm DEF Rewind
<1>3. CASE Crash
  BY <1>1, <1>3 DEF Crash
<1>4. CASE ~(Undo \/ RestoreTo \/ Crash)
  BY <1>1, <1>4 DEF SessionNext, Begin, EndsEarly, FitSkipped, Fit, Send, Edit, StepEnd, Reply, Break,
                    End, Saved, CompactNow, Clear, Redo, SetGoal, vars, told
<1> QED  BY <1>2, <1>3, <1>4

LEMMA IntactStep ==
  Typed /\ LengthInv /\ EpochInv /\ IntactInv /\ [SessionNext]_vars => IntactInv'
<1> SUFFICES ASSUME Typed, LengthInv, EpochInv, [SessionNext]_vars, intact',
                    intact => ListInv /\ StepInv /\ MarkInv /\ TailInv /\ DiskInv
             PROVE  ListInv' /\ StepInv' /\ MarkInv' /\ TailInv' /\ DiskInv'
  BY DEF IntactInv
<1> DEFINE Kept == ListInv' /\ StepInv' /\ MarkInv' /\ TailInv' /\ DiskInv'
<1> SUFFICES Kept
  OBVIOUS
<1>0. ListInv /\ StepInv /\ MarkInv /\ TailInv /\ DiskInv
  <2>1. intact
    BY IntactBefore
  <2> QED  BY <2>1
<1> HIDE DEF Kept
<1>1. ASSUME NEW m \in {"execute", "plan"}, Begin(m)  PROVE Kept
  BY <1>0, <1>1, IntactBegin DEF Kept
<1>2. CASE EndsEarly \/ FitSkipped \/ Send \/ Edit \/ UNCHANGED vars
  BY <1>0, <1>2, IntactQuiet DEF Kept
<1>3. CASE StepEnd
  BY <1>0, <1>3, IntactStepEnd DEF Kept
<1>4. CASE Fit \/ CompactNow
  BY <1>0, <1>4, IntactShrink DEF Kept
<1>5. ASSUME NEW text \in BOOLEAN, Reply(text) \/ Break(text)  PROVE Kept
  BY <1>0, <1>5, IntactStreamed DEF Kept
<1>6. CASE End
  BY <1>0, <1>6, IntactEnd DEF Kept
<1>7. ASSUME NEW green \in BOOLEAN, Saved(green)  PROVE Kept
  BY <1>0, <1>7, IntactSaved DEF Kept
<1>8. CASE Clear
  BY <1>0, <1>8, IntactClear DEF Kept
<1>9. CASE Undo \/ RestoreTo
  BY <1>0, <1>9, IntactRewind DEF Kept
<1>10. CASE Redo
  BY <1>0, <1>10, IntactRedo DEF Kept
<1>11. CASE SetGoal
  BY <1>0, <1>11, IntactSetGoal DEF Kept
<1>12. CASE Crash
  BY <1>0, <1>12, IntactCrash DEF Kept
<1> QED  BY <1>1, <1>2, <1>3, <1>4, <1>5, <1>6, <1>7, <1>8, <1>9, <1>10, <1>11, <1>12 DEF SessionNext

\* The invariant of the session.
THEOREM SessionInvHolds == SessionSpec => []SessionInv
<1>1. SessionInit => SessionInv
  BY TypeInit, IntactInit DEF SessionInv
<1>2. SessionInv /\ [SessionNext]_vars => SessionInv'
  BY TypeStep, EpochStep, IntactStep DEF SessionInv
<1> QED  BY <1>1, <1>2, PTL DEF SessionSpec

\* As long as no /undo reached across a compaction and no crash lost one, every
\* request that is streamed is one a provider accepts.
THEOREM RequestsAreValid == SessionSpec => []RequestIsValid
<1>1. SessionInv => RequestIsValid
  <2> SUFFICES ASSUME Typed, ListInv, StepInv, stage = "streaming"
               PROVE  Valid(messages \o committed)
    BY DEF SessionInv, IntactInv, RequestIsValid
  <2> DEFINE r == messages \o committed
  <2>1. /\ r \in Seq(Texts) /\ r # << >> /\ Linked(r) /\ Begun(r)
        /\ r[Len(r)].role \in {"user", "tool"}
    BY RequestLinked
  <2> HIDE DEF r
  <2>2. Valid(r)
    BY <2>1 DEF Valid, Linked, Follows, Begun, Last
  <2> QED  BY <2>2 DEF r
<1> QED  BY <1>1, SessionInvHolds, PTL

-----------------------------------------------------------------------------
(* What the messages say: the second strengthening *)

Edits == {f \in Facts : f[2] # 0}
Past(facts, n) == \A f \in facts : f[1] <= n
PromptsOf(list) == {<<list[i].turn, 0>> : i \in DOMAIN list}
Beyond(n, k) == IF n > k THEN n - k ELSE 0
Waiting == stage \in {"prompted", "prepared", "streaming"}

\* A fact is told once, or by a call and its result; a turn is shown once, by its
\* prompt and its reply.
Once(list) ==
  \A i, j \in 1..Len(list) : i < j /\ list[i].tells \cap list[j].tells # {} =>
    j = i + 1 /\ list[i].role = "call"
ShownOnce(list) ==
  \A i, j \in 1..Len(list) : i < j /\ list[i].turn = list[j].turn =>
    j = i + 1 /\ list[j].role = "assistant"

\* The tree grows along the checkpoints, and from the present one along the redo line,
\* which a turn that may edit has dropped.
Grows(cps, top) ==
  /\ \A i, k \in 1..Len(cps) : i < k => cps[i].tree \subseteq cps[k].tree
  /\ \A i \in 1..Len(cps) : cps[i].tree \subseteq top
Climbs(line, base) ==
  \A j \in 1..Len(line) :
    /\ base \subseteq line[j].tree /\ Len(line[j].reAdd) <= 1
    /\ \A k \in 1..Len(line) : j < k => line[k].tree \subseteq line[j].tree
    /\ \A cp \in Range(line[j].reAdd) :
         /\ base \subseteq cp.tree /\ cp.tree \subseteq line[j].tree
         /\ \A k \in 1..Len(line) : j < k => line[k].tree \subseteq cp.tree
ChainInv ==
  /\ InTurn /\ mode = "execute" => redo = << >>
  /\ Grows(checkpoints, tree) /\ Climbs(redo, tree)

\* The tree from which a step of the redo line starts.
TreeBelow(j) == IF j = Len(redo) THEN tree ELSE redo[j + 1].tree

\* Nothing is told of turns to come, nor edited in them; a checkpoint and what is
\* saved know of no edit of the turn at hand.
Before == IF InTurn THEN turns - 1 ELSE turns
FreshNow ==
  /\ tree \subseteq Edits /\ Past(tree, turns) /\ Past(forgot, turns)
  /\ Past(Known(messages), turns) /\ Past(PromptsOf(history), turns)
  /\ Past(open, turns) /\ Past(Known(committed), turns)
FreshMarks == \A cp \in Reachable : cp.tree \subseteq Edits /\ Past(cp.tree, Before)
FreshLine(line, n) ==
  \A j \in 1..Len(line) :
    /\ line[j].tree \subseteq Edits /\ Past(line[j].tree, n)
    /\ line[j].payload # << >> =>
         /\ Past(Known(line[j].payload[1].messages), n)
         /\ Past(PromptsOf(line[j].payload[1].history), n)
FreshDisk ==
  /\ Past(Known(disk.messages), turns) /\ Past(PromptsOf(disk.history), turns)
  /\ Past(disk.forgot, turns) /\ disk.turn <= Before
FreshInv == FreshNow /\ FreshMarks /\ FreshLine(redo, turns) /\ FreshDisk

\* What the turn at hand has told, and what it is about to tell.
NothingYet ==
  (InTurn /\ mode = "plan") \/ stage \in {"prompted", "prepared"} => committed = << >> /\ open = {}
PromptTold == InTurn => <<turns, 0>> \in userRef.tells
StepsTold ==
  Waiting =>
    /\ Past(forgot, turns - 1) /\ Past(Known(messages) \ {<<turns, 0>>}, turns - 1)
    /\ \A f \in Known(committed) : f \in Edits /\ f[1] = turns /\ 2 * f[2] <= Len(committed)
    /\ open \subseteq tree \cap {<<turns, Len(committed) \div 2 + 1>>}
    /\ Past(tree \ (Known(committed) \cup open), turns - 1)
    /\ Once(committed)
PromptShown ==
  Waiting \/ (stage = "ending" /\ Last(messages) = userRef) =>
    history # << >> /\ Last(history) = Shown("user")
TurnInv == NothingYet /\ PromptTold /\ StepsTold /\ PromptShown

\* The model is told of the prompts and of the edits in the tree, and of each once.
ToldInv ==
  /\ ~Waiting => Known(messages) = (Prompts \cup tree) \ forgot
  /\ Waiting => Known(messages) \cup Known(committed) = (Prompts \cup (tree \ open)) \ forgot
  /\ Once(messages) /\ ShownOnce(history)

\* Where a checkpoint cuts the two lists, what comes before tells what the
\* checkpoint knows of, and what comes after does not.
Agrees(cp, texts, shows, m, h) ==
  /\ Known(Upto(texts, m)) \subseteq PromptsOf(Upto(shows, h)) \cup cp.tree
  /\ (PromptsOf(Upto(shows, h)) \cup cp.tree) \cap Known(texts) \subseteq Known(Upto(texts, m))

CutInv ==
  \A cp \in Reachable : cp.epoch = epoch =>
    /\ Agrees(cp, messages, history, cp.mark.messages, cp.mark.history)
    /\ Opens(history, cp.mark.history)
    /\ InTurn => cp.mark.messages < Len(messages) /\ cp.mark.history < Len(history)

\* A tail tells what the step of the redo line that carries it brings back, and
\* nobody else does.
Brings(j, tail) ==
  /\ Once(tail.messages) /\ ShownOnce(tail.history)
  /\ Known(tail.messages) \subseteq PromptsOf(tail.history) \cup redo[j].tree
  /\ (PromptsOf(tail.history) \cup redo[j].tree) \ Known(tail.messages) \subseteq forgot \cup TreeBelow(j)
  /\ Known(tail.messages) \cap Known(messages) = {}
  /\ PromptsOf(tail.history) \cap Prompts = {}
  /\ \A i \in 1..Len(redo) : i < j /\ redo[i].payload # << >> =>
       /\ Known(tail.messages) \cap Known(redo[i].payload[1].messages) = {}
       /\ PromptsOf(tail.history) \cap PromptsOf(redo[i].payload[1].history) = {}
  /\ \A cp \in Reachable : cp.epoch = epoch =>
       /\ Agrees(cp, tail.messages, tail.history, Beyond(cp.mark.messages, tail.mark.messages),
                 Beyond(cp.mark.history, tail.mark.history))
       /\ \A n \in Nat : cp.mark.history = tail.mark.history + n => Opens(tail.history, n)

LineInv == \A j \in 1..Len(redo) : redo[j].payload # << >> => Brings(j, redo[j].payload[1])

\* What a crash brings back is told of the same tree, but for later edits.
SavedInv ==
  disk.whole /\ disk.rewinds = rewinds =>
    /\ Once(disk.messages) /\ ShownOnce(disk.history)
    /\ Known(disk.messages) =
         (PromptsOf(disk.history) \cup {f \in tree : f[1] <= disk.turn}) \ disk.forgot
    /\ \A cp \in Range(checkpoints) : cp.epoch = disk.epoch =>
         /\ Agrees(cp, disk.messages, disk.history, cp.mark.messages, cp.mark.history)
         /\ Opens(disk.history, cp.mark.history)
    /\ disk.epoch = epoch => Len(disk.history) <= Len(history)
    /\ disk.epoch = epoch /\ InTurn => Len(disk.history) < Len(history)

Says == TurnInv /\ ToldInv /\ CutInv /\ LineInv /\ SavedInv
TellInv == intact => Says

\* What holds of lengths, roles and turns while nothing is out of step.
Sound ==
  /\ Typed /\ LengthInv /\ EpochInv /\ ChainInv /\ FreshInv
  /\ ListInv /\ StepInv /\ MarkInv /\ TailInv /\ DiskInv

-----------------------------------------------------------------------------
(* What lists tell and show, in parts *)

LEMMA SaysOf ==
  ASSUME NEW list
  PROVE  /\ \A f : f \in Known(list) <=> \E m \in Range(list) : f \in m.tells
         /\ \A f : f \in PromptsOf(list) <=> \E m \in Range(list) : f = <<m.turn, 0>>
<1>1. \A f : f \in Known(list) <=> \E m \in Range(list) : f \in m.tells
  BY DEF Known, Range
<1>2. \A f : f \in PromptsOf(list) <=> \E m \in Range(list) : f = <<m.turn, 0>>
  BY DEF PromptsOf, Range
<1> QED  BY <1>1, <1>2

\* Lists of the same messages say the same.
LEMMA SaysUnion ==
  ASSUME NEW list, NEW one, NEW other, Range(list) = Range(one) \cup Range(other)
  PROVE  /\ Known(list) = Known(one) \cup Known(other)
         /\ PromptsOf(list) = PromptsOf(one) \cup PromptsOf(other)
<1>1. \A f : f \in Known(list) <=> f \in Known(one) \/ f \in Known(other)
  BY SaysOf
<1>2. \A f : f \in PromptsOf(list) <=> f \in PromptsOf(one) \/ f \in PromptsOf(other)
  BY SaysOf
<1> QED  BY <1>1, <1>2

LEMMA SaysPart ==
  ASSUME NEW list, NEW part, Range(part) \subseteq Range(list)
  PROVE  Known(part) \subseteq Known(list) /\ PromptsOf(part) \subseteq PromptsOf(list)
<1>1. Range(list) = Range(list) \cup Range(part)
  OBVIOUS
<1>2. /\ Known(list) = Known(list) \cup Known(part)
      /\ PromptsOf(list) = PromptsOf(list) \cup PromptsOf(part)
  BY <1>1, SaysUnion
<1> QED  BY <1>2

LEMMA SaysSame ==
  ASSUME NEW list, NEW other, Range(list) = Range(other)
  PROVE  Known(list) = Known(other) /\ PromptsOf(list) = PromptsOf(other)
<1>1. Range(list) \subseteq Range(other) /\ Range(other) \subseteq Range(list)
  OBVIOUS
<1>2. Known(list) \subseteq Known(other) /\ PromptsOf(list) \subseteq PromptsOf(other)
  BY <1>1, SaysPart
<1>3. Known(other) \subseteq Known(list) /\ PromptsOf(other) \subseteq PromptsOf(list)
  BY <1>1, SaysPart
<1> QED  BY <1>2, <1>3

LEMMA SaysNothing == Known(<< >>) = {} /\ PromptsOf(<< >>) = {}
<1>1. DOMAIN << >> = {}
  BY NoneIn
<1> QED  BY <1>1 DEF Known, PromptsOf

LEMMA SaysOne ==
  ASSUME NEW e
  PROVE  Known(<<e>>) = e.tells /\ PromptsOf(<<e>>) = {<<e.turn, 0>>}
<1>1. Range(<<e>>) = {e}
  BY RangeOfOne
<1>2. \A f : f \in Known(<<e>>) <=> f \in e.tells
  BY <1>1, SaysOf
<1>3. \A f : f \in PromptsOf(<<e>>) <=> f = <<e.turn, 0>>
  BY <1>1, SaysOf
<1> QED  BY <1>2, <1>3

LEMMA RangeJoined ==
  ASSUME NEW S, NEW s \in Seq(S), NEW t \in Seq(S)
  PROVE  Range(s \o t) = Range(s) \cup Range(t)
<1>1. /\ s \o t \in Seq(S) /\ Len(s \o t) = Len(s) + Len(t)
      /\ \A i \in 1..Len(s) : (s \o t)[i] = s[i]
      /\ \A i \in 1..Len(t) : (s \o t)[Len(s) + i] = t[i]
  BY ConcatAt
<1>2. Len(s) \in Nat /\ Len(t) \in Nat
  BY SeqAt
<1>3. Range(s \o t) \subseteq Range(s) \cup Range(t)
  BY RangeOfConcat
<1>4. ASSUME NEW e \in Range(s)  PROVE e \in Range(s \o t)
  <2>1. PICK i \in 1..Len(s) : e = s[i]
    BY <1>4, InRange
  <2>2. i \in 1..Len(s \o t) /\ e = (s \o t)[i]
    BY <1>1, <1>2, <2>1
  <2> QED  BY <1>1, <2>2, InRange
<1>5. ASSUME NEW e \in Range(t)  PROVE e \in Range(s \o t)
  <2>1. PICK i \in 1..Len(t) : e = t[i]
    BY <1>5, InRange
  <2>2. Len(s) + i \in 1..Len(s \o t) /\ e = (s \o t)[Len(s) + i]
    BY <1>1, <1>2, <2>1
  <2> QED  BY <1>1, <2>2, InRange
<1> QED  BY <1>3, <1>4, <1>5

LEMMA SaysJoined ==
  ASSUME NEW S, NEW s \in Seq(S), NEW t \in Seq(S)
  PROVE  /\ Known(s \o t) = Known(s) \cup Known(t)
         /\ PromptsOf(s \o t) = PromptsOf(s) \cup PromptsOf(t)
<1>1. Range(s \o t) = Range(s) \cup Range(t)
  BY RangeJoined
<1> QED  BY <1>1, SaysUnion

LEMMA SaysAppended ==
  ASSUME NEW S, NEW s \in Seq(S), NEW e \in S
  PROVE  /\ Known(Append(s, e)) = Known(s) \cup e.tells
         /\ PromptsOf(Append(s, e)) = PromptsOf(s) \cup {<<e.turn, 0>>}
<1>1. Range(Append(s, e)) = Range(s) \cup Range(<<e>>)
  BY RangeOfAppend, RangeOfOne
<1> QED  BY <1>1, SaysUnion, SaysOne

\* A list cut in two.
LEMMA InPrefix ==
  ASSUME NEW S, NEW s \in Seq(S), NEW n \in Nat
  PROVE  \A e : e \in Range(Upto(s, n)) <=> \E i \in 1..Len(s) : i <= n /\ e = s[i]
<1> DEFINE p == Upto(s, n)
<1>1. /\ p \in Seq(S) /\ Len(p) \in Nat /\ Len(p) <= n /\ Len(p) <= Len(s)
      /\ (n <= Len(s) => Len(p) = n) /\ (n >= Len(s) => p = s)
      /\ \A i \in 1..Len(p) : p[i] = s[i]
  BY PrefixAt
<1>2. Len(s) \in Nat
  BY SeqAt
<1> HIDE DEF p
<1>3. \A e : e \in Range(p) <=> \E i \in 1..Len(p) : e = p[i]
  BY <1>1, InRange
<1>4. \A i \in 1..Len(s) : i <= n <=> i \in 1..Len(p)
  BY <1>1, <1>2
<1>5. \A i \in 1..Len(p) : i \in 1..Len(s)
  BY <1>1, <1>2
<1> QED  BY <1>1, <1>3, <1>4, <1>5 DEF p

LEMMA InSuffix ==
  ASSUME NEW S, NEW s \in Seq(S), NEW n \in Nat
  PROVE  \A e : e \in Range(SubSeq(s, n + 1, Len(s))) <=> \E i \in 1..Len(s) : i > n /\ e = s[i]
<1> DEFINE t == SubSeq(s, n + 1, Len(s))
<1>1. /\ t \in Seq(S) /\ Len(t) = IF n < Len(s) THEN Len(s) - n ELSE 0
      /\ \A i \in 1..Len(t) : t[i] = s[n + i] /\ n + i \in 1..Len(s)
  BY SuffixAt
<1>2. Len(s) \in Nat /\ Len(t) \in Nat
  BY <1>1, SeqAt
<1> HIDE DEF t
<1>3. \A e : e \in Range(t) <=> \E i \in 1..Len(t) : e = t[i]
  BY <1>1, InRange
<1>4. ASSUME NEW i \in 1..Len(s), i > n  PROVE \E k \in 1..Len(t) : t[k] = s[i]
  <2>1. i - n \in 1..Len(t) /\ n + (i - n) = i
    BY <1>1, <1>2, <1>4
  <2> QED  BY <1>1, <2>1
<1>5. ASSUME NEW k \in 1..Len(t)  PROVE n + k \in 1..Len(s) /\ n + k > n /\ t[k] = s[n + k]
  BY <1>1, <1>2
<1>6. ASSUME NEW e \in Range(t)  PROVE \E i \in 1..Len(s) : i > n /\ e = s[i]
  BY <1>3, <1>5, <1>6
<1>7. ASSUME NEW i \in 1..Len(s), i > n  PROVE s[i] \in Range(t)
  BY <1>3, <1>4, <1>7
<1>8. \A e : e \in Range(t) <=> \E i \in 1..Len(s) : i > n /\ e = s[i]
  BY <1>6, <1>7
<1> QED  BY <1>8 DEF t

LEMMA InTwo ==
  ASSUME NEW S, NEW s \in Seq(S), NEW n \in Nat
  PROVE  Range(s) = Range(Upto(s, n)) \cup Range(SubSeq(s, n + 1, Len(s)))
<1>1. \A e : e \in Range(s) <=> \E i \in 1..Len(s) : e = s[i]
  BY InRange
<1>2. \A e : e \in Range(Upto(s, n)) <=> \E i \in 1..Len(s) : i <= n /\ e = s[i]
  BY InPrefix
<1>3. \A e : e \in Range(SubSeq(s, n + 1, Len(s))) <=> \E i \in 1..Len(s) : i > n /\ e = s[i]
  BY InSuffix
<1>4. \A i \in 1..Len(s) : i <= n \/ i > n
  BY SeqAt
<1> QED  BY <1>1, <1>2, <1>3, <1>4

LEMMA SaysInTwo ==
  ASSUME NEW S, NEW s \in Seq(S), NEW n \in Nat
  PROVE  /\ Known(s) = Known(Upto(s, n)) \cup Known(SubSeq(s, n + 1, Len(s)))
         /\ PromptsOf(s) = PromptsOf(Upto(s, n)) \cup PromptsOf(SubSeq(s, n + 1, Len(s)))
BY InTwo, SaysUnion

\* A prefix of a prefix is the shorter of two prefixes, of which one holds the other.
LEMMA SaysTwice ==
  ASSUME NEW S, NEW s \in Seq(S), NEW m \in Nat, NEW n \in Nat
  PROVE  /\ Known(Upto(Upto(s, n), m)) = Known(Upto(s, m)) \cap Known(Upto(s, n))
         /\ PromptsOf(Upto(Upto(s, n), m)) = PromptsOf(Upto(s, m)) \cap PromptsOf(Upto(s, n))
<1>1. PICK p \in Seq(S) :
        /\ p = Upto(s, n) /\ Len(p) \in Nat /\ Len(p) <= n /\ Len(p) <= Len(s)
        /\ (n <= Len(s) => Len(p) = n) /\ (n >= Len(s) => Len(p) = Len(s))
        /\ \A i \in 1..Len(p) : p[i] = s[i]
  BY PrefixAt
<1>2. Len(s) \in Nat
  BY SeqAt
<1>3. \A e : e \in Range(Upto(s, n)) <=> \E i \in 1..Len(s) : i <= n /\ e = s[i]
  BY InPrefix
<1>4. \A e : e \in Range(Upto(s, m)) <=> \E i \in 1..Len(s) : i <= m /\ e = s[i]
  BY InPrefix
<1>5. \A e : e \in Range(Upto(p, m)) <=> \E i \in 1..Len(p) : i <= m /\ e = p[i]
  BY InPrefix
<1>6. \A i \in 1..Len(s) : i \in 1..Len(p) <=> i <= n
  BY <1>1, <1>2
<1>7. \A e : e \in Range(Upto(p, m)) <=> \E i \in 1..Len(s) : i <= n /\ i <= m /\ e = s[i]
  <2>1. \A i \in 1..Len(p) : i \in 1..Len(s)
    BY <1>1, <1>2
  <2> QED  BY <1>1, <1>5, <1>6, <2>1
<1>8. CASE m <= n
  <2>0. \A i \in 1..Len(s) : i <= m => i <= n
    BY <1>2, <1>8
  <2>1. Range(Upto(p, m)) = Range(Upto(s, m)) /\ Range(Upto(s, m)) \subseteq Range(Upto(s, n))
    BY <1>3, <1>4, <1>7, <2>0
  <2>2. /\ Known(Upto(p, m)) = Known(Upto(s, m))
        /\ PromptsOf(Upto(p, m)) = PromptsOf(Upto(s, m))
    BY <2>1, SaysSame
  <2>3. /\ Known(Upto(s, m)) \subseteq Known(Upto(s, n))
        /\ PromptsOf(Upto(s, m)) \subseteq PromptsOf(Upto(s, n))
    BY <2>1, SaysPart
  <2> QED  BY <1>1, <2>2, <2>3
<1>9. CASE m > n
  <2>0. \A i \in 1..Len(s) : i <= n => i <= m
    BY <1>2, <1>9
  <2>1. Range(Upto(p, m)) = Range(Upto(s, n)) /\ Range(Upto(s, n)) \subseteq Range(Upto(s, m))
    BY <1>3, <1>4, <1>7, <2>0
  <2>2. /\ Known(Upto(p, m)) = Known(Upto(s, n))
        /\ PromptsOf(Upto(p, m)) = PromptsOf(Upto(s, n))
    BY <2>1, SaysSame
  <2>3. /\ Known(Upto(s, n)) \subseteq Known(Upto(s, m))
        /\ PromptsOf(Upto(s, n)) \subseteq PromptsOf(Upto(s, m))
    BY <2>1, SaysPart
  <2> QED  BY <1>1, <2>2, <2>3
<1> QED  BY <1>8, <1>9

LEMMA BeyondIn ==
  ASSUME NEW n \in Nat, NEW k \in Nat
  PROVE  Beyond(n, k) \in Nat /\ (\A i \in Nat : i # 0 => (i <= Beyond(n, k) <=> k + i <= n))
BY DEF Beyond

\* A prefix that ends beyond a cut: all before the cut, and a prefix of what comes after.
LEMMA SaysAcross ==
  ASSUME NEW S, NEW s \in Seq(S), NEW m \in Nat, NEW n \in Nat
  PROVE  LET t == Upto(SubSeq(s, n + 1, Len(s)), Beyond(m, Len(Upto(s, n))))
         IN  /\ Known(t) \subseteq Known(Upto(s, m)) \cap Known(SubSeq(s, n + 1, Len(s)))
             /\ PromptsOf(t) \subseteq PromptsOf(Upto(s, m)) \cap PromptsOf(SubSeq(s, n + 1, Len(s)))
             /\ Known(Upto(s, m)) \subseteq Known(Upto(s, n)) \cup Known(t)
             /\ PromptsOf(Upto(s, m)) \subseteq PromptsOf(Upto(s, n)) \cup PromptsOf(t)
<1>a. PICK t \in Seq(S) : t = SubSeq(s, n + 1, Len(s))
  BY SuffixAt
<1>b. PICK k \in Nat : k = Len(Upto(s, n))
  BY PrefixAt
<1>1. k <= n /\ k <= Len(s) /\ (n <= Len(s) => k = n) /\ Len(s) \in Nat /\ Len(t) \in Nat
  BY <1>b, PrefixAt, SeqAt
<1>2. /\ n < Len(s) => Len(t) = Len(s) - n
      /\ n >= Len(s) => Len(t) = 0
      /\ \A i \in 1..Len(t) : t[i] = s[n + i] /\ n + i \in 1..Len(s)
  <2>1. LET u == SubSeq(s, n + 1, Len(s))
        IN  /\ u \in Seq(S) /\ Len(u) = IF n < Len(s) THEN Len(s) - n ELSE 0
            /\ \A i \in 1..Len(u) : u[i] = s[n + i] /\ n + i \in 1..Len(s)
    BY SuffixAt
  <2> QED  BY <1>a, <1>1, <2>1
<1> DEFINE b == Beyond(m, k)
<1>3. b \in Nat /\ (\A i \in Nat : i # 0 => (i <= b <=> k + i <= m))
  BY <1>1, BeyondIn
<1> HIDE DEF b
<1>4. \A e : e \in Range(Upto(t, b)) <=> \E i \in 1..Len(t) : i <= b /\ e = t[i]
  <2>1. \A u \in Seq(S), c \in Nat :
          \A e : e \in Range(Upto(u, c)) <=> \E i \in 1..Len(u) : i <= c /\ e = u[i]
    BY InPrefix
  <2> QED  BY <1>3, <2>1
<1>5. \A e : e \in Range(Upto(s, m)) <=> \E i \in 1..Len(s) : i <= m /\ e = s[i]
  BY InPrefix
<1>6. \A e : e \in Range(Upto(s, n)) <=> \E i \in 1..Len(s) : i <= n /\ e = s[i]
  BY InPrefix
<1>7. \A e : e \in Range(t) <=> \E i \in 1..Len(t) : e = t[i]
  <2>1. \A u \in Seq(S) : \A e : e \in Range(u) <=> \E i \in 1..Len(u) : e = u[i]
    BY InRange
  <2> QED  BY <2>1
<1>8. Range(Upto(t, b)) \subseteq Range(Upto(s, m))
  <2>1. SUFFICES ASSUME NEW i \in 1..Len(t), i <= b  PROVE t[i] \in Range(Upto(s, m))
    BY <1>4
  <2>2. n + i \in 1..Len(s) /\ t[i] = s[n + i] /\ k = n
    BY <1>1, <1>2
  <2>3. i \in Nat /\ i # 0
    BY <1>1
  <2>4. n + i <= m
    BY <1>3, <2>1, <2>2, <2>3
  <2> QED  BY <1>5, <2>2, <2>4
<1>9. Range(Upto(t, b)) \subseteq Range(t)
  BY <1>4, <1>7
<1>10. Range(Upto(s, m)) \subseteq Range(Upto(s, n)) \cup Range(Upto(t, b))
  <2>1. SUFFICES ASSUME NEW i \in 1..Len(s), i <= m, ~(i <= n)  PROVE s[i] \in Range(Upto(t, b))
    BY <1>5, <1>6
  <2>2. k = n /\ i - n \in 1..Len(t) /\ n + (i - n) = i
    BY <1>1, <1>2, <2>1
  <2>3. i - n \in Nat /\ i - n # 0 /\ t[i - n] = s[i] /\ k + (i - n) <= m
    BY <1>2, <2>1, <2>2
  <2>4. i - n <= b
    BY <1>3, <2>3
  <2> QED  BY <1>4, <2>2, <2>3, <2>4
<1>11. Known(Upto(t, b)) \subseteq Known(Upto(s, m)) /\ PromptsOf(Upto(t, b)) \subseteq PromptsOf(Upto(s, m))
  BY <1>8, SaysPart
<1>12. Known(Upto(t, b)) \subseteq Known(t) /\ PromptsOf(Upto(t, b)) \subseteq PromptsOf(t)
  BY <1>9, SaysPart
<1>13. \A f : f \in Known(Upto(s, m)) => f \in Known(Upto(s, n)) \/ f \in Known(Upto(t, b))
  BY <1>10, SaysOf
<1>14. \A f : f \in PromptsOf(Upto(s, m)) => f \in PromptsOf(Upto(s, n)) \/ f \in PromptsOf(Upto(t, b))
  BY <1>10, SaysOf
<1> QED  BY <1>a, <1>b, <1>11, <1>12, <1>13, <1>14 DEF b

LEMMA SaysJoinedUpto ==
  ASSUME NEW S, NEW s \in Seq(S), NEW t \in Seq(S), NEW m \in Nat
  PROVE  /\ Known(Upto(s \o t, m)) = Known(Upto(s, m)) \cup Known(Upto(t, Beyond(m, Len(s))))
         /\ PromptsOf(Upto(s \o t, m)) = PromptsOf(Upto(s, m)) \cup PromptsOf(Upto(t, Beyond(m, Len(s))))
<1> DEFINE u == s \o t
           b == Beyond(m, Len(s))
<1>1. /\ u \in Seq(S) /\ Len(u) = Len(s) + Len(t)
      /\ \A i \in 1..Len(s) : u[i] = s[i]
      /\ \A i \in 1..Len(t) : u[Len(s) + i] = t[i]
  BY ConcatAt
<1>2. Len(s) \in Nat /\ Len(t) \in Nat
  BY SeqAt
<1>3. b \in Nat /\ (\A i \in Nat : i # 0 => (i <= b <=> Len(s) + i <= m))
  BY <1>2, BeyondIn
<1> HIDE DEF u, b
<1>4. \A e : e \in Range(Upto(t, b)) <=> \E i \in 1..Len(t) : i <= b /\ e = t[i]
  BY <1>3, InPrefix
<1>5. \A e : e \in Range(Upto(s, m)) <=> \E i \in 1..Len(s) : i <= m /\ e = s[i]
  BY InPrefix
<1>6. \A e : e \in Range(Upto(u, m)) <=> \E i \in 1..Len(u) : i <= m /\ e = u[i]
  BY <1>1, InPrefix
<1>7. ASSUME NEW e \in Range(Upto(u, m))  PROVE e \in Range(Upto(s, m)) \cup Range(Upto(t, b))
  <2>1. PICK i \in 1..Len(u) : i <= m /\ e = u[i]
    BY <1>6, <1>7
  <2>2. CASE i <= Len(s)
    <3>1. i \in 1..Len(s) /\ e = s[i]
      BY <1>1, <1>2, <2>1, <2>2
    <3> QED  BY <1>5, <2>1, <3>1
  <2>3. CASE i > Len(s)
    <3>1. i - Len(s) \in 1..Len(t) /\ Len(s) + (i - Len(s)) = i
      BY <1>1, <1>2, <2>1, <2>3
    <3>2. e = t[i - Len(s)]
      BY <1>1, <2>1, <3>1
    <3>3. i - Len(s) \in Nat /\ i - Len(s) # 0
      BY <3>1
    <3>4. i - Len(s) <= b
      BY <1>3, <2>1, <3>1, <3>3
    <3> QED  BY <1>4, <3>1, <3>2, <3>4
  <2> QED  BY <1>2, <2>1, <2>2, <2>3
<1>8. ASSUME NEW e \in Range(Upto(s, m))  PROVE e \in Range(Upto(u, m))
  <2>1. PICK i \in 1..Len(s) : i <= m /\ e = s[i]
    BY <1>5, <1>8
  <2>2. i \in 1..Len(u) /\ e = u[i]
    BY <1>1, <1>2, <2>1
  <2> QED  BY <1>6, <2>1, <2>2
<1>9. ASSUME NEW e \in Range(Upto(t, b))  PROVE e \in Range(Upto(u, m))
  <2>1. PICK i \in 1..Len(t) : i <= b /\ e = t[i]
    BY <1>4, <1>9
  <2>2. Len(s) + i \in 1..Len(u) /\ e = u[Len(s) + i]
    BY <1>1, <1>2, <2>1
  <2>3. Len(s) + i <= m
    BY <1>2, <1>3, <2>1
  <2> QED  BY <1>6, <2>2, <2>3
<1>10. Range(Upto(u, m)) = Range(Upto(s, m)) \cup Range(Upto(t, b))
  BY <1>7, <1>8, <1>9
<1> QED  BY <1>10, SaysUnion DEF u, b

LEMMA KnownInTwo ==
  ASSUME NEW s \in Seq(Texts), NEW n \in Nat
  PROVE  /\ \A f : f \in Known(Upto(s, n)) => \E i \in 1..Len(s) : i <= n /\ f \in s[i].tells
         /\ \A f : f \in Known(SubSeq(s, n + 1, Len(s))) => \E i \in 1..Len(s) : i > n /\ f \in s[i].tells
<1>1. \A e : e \in Range(Upto(s, n)) <=> \E i \in 1..Len(s) : i <= n /\ e = s[i]
  BY InPrefix
<1>2. \A e : e \in Range(SubSeq(s, n + 1, Len(s))) <=> \E i \in 1..Len(s) : i > n /\ e = s[i]
  BY InSuffix
<1>3. ASSUME NEW f \in Known(Upto(s, n))  PROVE \E i \in 1..Len(s) : i <= n /\ f \in s[i].tells
  <2>1. PICK e \in Range(Upto(s, n)) : f \in e.tells
    BY <1>3, SaysOf
  <2> QED  BY <1>1, <2>1
<1>4. ASSUME NEW f \in Known(SubSeq(s, n + 1, Len(s)))  PROVE \E i \in 1..Len(s) : i > n /\ f \in s[i].tells
  <2>1. PICK e \in Range(SubSeq(s, n + 1, Len(s))) : f \in e.tells
    BY <1>4, SaysOf
  <2> QED  BY <1>2, <2>1
<1> QED  BY <1>3, <1>4

LEMMA ShownInTwo ==
  ASSUME NEW s \in Seq(Shows), NEW n \in Nat
  PROVE  /\ \A f : f \in PromptsOf(Upto(s, n)) => \E i \in 1..Len(s) : i <= n /\ f = <<s[i].turn, 0>>
         /\ \A f : f \in PromptsOf(SubSeq(s, n + 1, Len(s))) => \E i \in 1..Len(s) : i > n /\ f = <<s[i].turn, 0>>
<1>1. \A e : e \in Range(Upto(s, n)) <=> \E i \in 1..Len(s) : i <= n /\ e = s[i]
  BY InPrefix
<1>2. \A e : e \in Range(SubSeq(s, n + 1, Len(s))) <=> \E i \in 1..Len(s) : i > n /\ e = s[i]
  BY InSuffix
<1>3. ASSUME NEW f \in PromptsOf(Upto(s, n))  PROVE \E i \in 1..Len(s) : i <= n /\ f = <<s[i].turn, 0>>
  <2>1. PICK e \in Range(Upto(s, n)) : f = <<e.turn, 0>>
    BY <1>3, SaysOf
  <2> QED  BY <1>1, <2>1
<1>4. ASSUME NEW f \in PromptsOf(SubSeq(s, n + 1, Len(s)))
      PROVE  \E i \in 1..Len(s) : i > n /\ f = <<s[i].turn, 0>>
  <2>1. PICK e \in Range(SubSeq(s, n + 1, Len(s))) : f = <<e.turn, 0>>
    BY <1>4, SaysOf
  <2> QED  BY <1>2, <2>1
<1> QED  BY <1>3, <1>4

\* Where a list is cut before anything but the result of a tool, nothing is told twice.
LEMMA ToldApart ==
  ASSUME NEW s \in Seq(Texts), NEW n \in Nat, Linked(s), Once(s),
         n < Len(s) => s[n + 1].role # "tool"
  PROVE  Known(Upto(s, n)) \cap Known(SubSeq(s, n + 1, Len(s))) = {}
<1> SUFFICES ASSUME NEW f \in Known(Upto(s, n)), f \in Known(SubSeq(s, n + 1, Len(s)))  PROVE FALSE
  OBVIOUS
<1>1. PICK i \in 1..Len(s) : i <= n /\ f \in s[i].tells
  BY KnownInTwo
<1>2. PICK j \in 1..Len(s) : j > n /\ f \in s[j].tells
  BY KnownInTwo
<1>3. Len(s) \in Nat
  BY SeqAt
<1>4. i < j /\ s[i].tells \cap s[j].tells # {}
  BY <1>1, <1>2, <1>3
<1>5. j = i + 1 /\ s[i].role = "call"
  BY <1>4 DEF Once
<1>6. i = n /\ j = n + 1 /\ j \in 2..Len(s) /\ j - 1 = i /\ n < Len(s)
  BY <1>1, <1>2, <1>3, <1>5
<1>7. Follows(s[i], s[j])
  BY <1>6 DEF Linked
<1> QED  BY <1>5, <1>6, <1>7 DEF Follows

LEMMA ShownApart ==
  ASSUME NEW s \in Seq(Shows), NEW n \in Nat, ShownOnce(s), Opens(s, n)
  PROVE  PromptsOf(Upto(s, n)) \cap PromptsOf(SubSeq(s, n + 1, Len(s))) = {}
<1> SUFFICES ASSUME NEW f \in PromptsOf(Upto(s, n)), f \in PromptsOf(SubSeq(s, n + 1, Len(s)))
             PROVE  FALSE
  OBVIOUS
<1>1. PICK i \in 1..Len(s) : i <= n /\ f = <<s[i].turn, 0>>
  BY ShownInTwo
<1>2. PICK j \in 1..Len(s) : j > n /\ f = <<s[j].turn, 0>>
  BY ShownInTwo
<1>3. Len(s) \in Nat
  BY SeqAt
<1>4. i < j /\ s[i].turn = s[j].turn
  BY <1>1, <1>2, <1>3
<1>5. j = i + 1 /\ s[j].role = "assistant"
  BY <1>4 DEF ShownOnce
<1>6. i = n /\ j = n + 1 /\ n < Len(s)
  BY <1>1, <1>2, <1>3, <1>5
<1> QED  BY <1>5, <1>6 DEF Opens

\* A part of a list that tells, or shows, things once does so too.
LEMMA OncePart ==
  ASSUME NEW s, NEW t, NEW k \in Nat, Len(t) \in Nat, Len(s) \in Nat,
         \A i \in 1..Len(t) : t[i] = s[k + i] /\ k + i \in 1..Len(s)
  PROVE  (Once(s) => Once(t)) /\ (ShownOnce(s) => ShownOnce(t))
<1>1. ASSUME NEW i \in 1..Len(t), NEW j \in 1..Len(t)
      PROVE  /\ t[i] = s[k + i] /\ t[j] = s[k + j] /\ k + i \in 1..Len(s) /\ k + j \in 1..Len(s)
             /\ (i < j <=> k + i < k + j) /\ (j = i + 1 <=> k + j = (k + i) + 1)
  OBVIOUS
<1>2. Once(s) => Once(t)
  BY <1>1 DEF Once
<1>3. ASSUME ShownOnce(s)  PROVE ShownOnce(t)
  <2>1. SUFFICES ASSUME NEW i \in 1..Len(t), NEW j \in 1..Len(t), i < j, t[i].turn = t[j].turn
                 PROVE  j = i + 1 /\ t[j].role = "assistant"
    BY DEF ShownOnce
  <2>2. s[k + i].turn = s[k + j].turn /\ k + i < k + j
    BY <1>1, <2>1
  <2>3. k + j = (k + i) + 1 /\ s[k + j].role = "assistant"
    BY <1>1, <1>3, <2>2 DEF ShownOnce
  <2> QED  BY <1>1, <2>3
<1> QED  BY <1>2, <1>3

LEMMA OnceInTwo ==
  ASSUME NEW S, NEW s \in Seq(S), NEW n \in Nat
  PROVE  /\ Once(s) => Once(Upto(s, n)) /\ Once(SubSeq(s, n + 1, Len(s)))
         /\ ShownOnce(s) => ShownOnce(Upto(s, n)) /\ ShownOnce(SubSeq(s, n + 1, Len(s)))
<1>1. Len(s) \in Nat
  BY SeqAt
<1>2. PICK p \in Seq(S) : /\ p = Upto(s, n) /\ Len(p) \in Nat /\ Len(p) <= Len(s)
                          /\ \A i \in 1..Len(p) : p[i] = s[i]
  BY PrefixAt
<1>3. \A i \in 1..Len(p) : p[i] = s[0 + i] /\ 0 + i \in 1..Len(s)
  BY <1>1, <1>2
<1>4. (Once(s) => Once(p)) /\ (ShownOnce(s) => ShownOnce(p))
  BY <1>1, <1>2, <1>3, OncePart
<1>5. PICK t \in Seq(S) : /\ t = SubSeq(s, n + 1, Len(s))
                          /\ \A i \in 1..Len(t) : t[i] = s[n + i] /\ n + i \in 1..Len(s)
  BY SuffixAt
<1>6. Len(t) \in Nat
  BY SeqAt
<1>7. (Once(s) => Once(t)) /\ (ShownOnce(s) => ShownOnce(t))
  BY <1>1, <1>5, <1>6, OncePart
<1> QED  BY <1>2, <1>4, <1>5, <1>7

LEMMA OnceJoined ==
  ASSUME NEW s \in Seq(Texts), NEW t \in Seq(Texts), Once(s), Once(t), Known(s) \cap Known(t) = {}
  PROVE  Once(s \o t)
<1> DEFINE u == s \o t
<1>1. /\ u \in Seq(Texts) /\ Len(u) = Len(s) + Len(t)
      /\ \A i \in 1..Len(s) : u[i] = s[i]
      /\ \A i \in 1..Len(t) : u[Len(s) + i] = t[i]
  BY ConcatAt
<1>2. Len(s) \in Nat /\ Len(t) \in Nat
  BY SeqAt
<1> HIDE DEF u
<1> SUFFICES ASSUME NEW i \in 1..Len(u), NEW j \in 1..Len(u), i < j, u[i].tells \cap u[j].tells # {}
             PROVE  j = i + 1 /\ u[i].role = "call"
  BY DEF Once, u
<1>3. CASE j <= Len(s)
  <2>1. i \in 1..Len(s) /\ j \in 1..Len(s)
    BY <1>1, <1>2, <1>3
  <2> QED  BY <1>1, <2>1 DEF Once
<1>4. CASE i > Len(s)
  <2>1. /\ i - Len(s) \in 1..Len(t) /\ j - Len(s) \in 1..Len(t) /\ i - Len(s) < j - Len(s)
        /\ Len(s) + (i - Len(s)) = i /\ Len(s) + (j - Len(s)) = j
    BY <1>1, <1>2, <1>4
  <2>2. u[i] = t[i - Len(s)] /\ u[j] = t[j - Len(s)]
    BY <1>1, <2>1
  <2>3. j - Len(s) = (i - Len(s)) + 1 /\ t[i - Len(s)].role = "call"
    BY <2>1, <2>2 DEF Once
  <2> QED  BY <1>2, <2>2, <2>3
<1>5. CASE i <= Len(s) /\ j > Len(s)
  <2>1. i \in 1..Len(s) /\ j - Len(s) \in 1..Len(t) /\ Len(s) + (j - Len(s)) = j
    BY <1>1, <1>2, <1>5
  <2>2. u[i] = s[i] /\ u[j] = t[j - Len(s)]
    BY <1>1, <2>1
  <2>3. PICK f : f \in s[i].tells /\ f \in t[j - Len(s)].tells
    BY <2>2
  <2>4. f \in Known(s) /\ f \in Known(t)
    BY <2>1, <2>3, KnownAt
  <2> QED  BY <2>4
<1> QED  BY <1>1, <1>2, <1>3, <1>4, <1>5

LEMMA ShownOnceJoined ==
  ASSUME NEW s \in Seq(Shows), NEW t \in Seq(Shows), ShownOnce(s), ShownOnce(t),
         PromptsOf(s) \cap PromptsOf(t) = {}
  PROVE  ShownOnce(s \o t)
<1> DEFINE u == s \o t
<1>1. /\ u \in Seq(Shows) /\ Len(u) = Len(s) + Len(t)
      /\ \A i \in 1..Len(s) : u[i] = s[i]
      /\ \A i \in 1..Len(t) : u[Len(s) + i] = t[i]
  BY ConcatAt
<1>2. /\ Len(s) \in Nat /\ Len(t) \in Nat
      /\ DOMAIN s = 1..Len(s) /\ DOMAIN t = 1..Len(t)
  BY SeqAt
<1> HIDE DEF u
<1> SUFFICES ASSUME NEW i \in 1..Len(u), NEW j \in 1..Len(u), i < j, u[i].turn = u[j].turn
             PROVE  j = i + 1 /\ u[j].role = "assistant"
  BY DEF ShownOnce, u
<1>3. CASE j <= Len(s)
  <2>1. i \in 1..Len(s) /\ j \in 1..Len(s)
    BY <1>1, <1>2, <1>3
  <2> QED  BY <1>1, <2>1 DEF ShownOnce
<1>4. CASE i > Len(s)
  <2>1. /\ i - Len(s) \in 1..Len(t) /\ j - Len(s) \in 1..Len(t) /\ i - Len(s) < j - Len(s)
        /\ Len(s) + (i - Len(s)) = i /\ Len(s) + (j - Len(s)) = j
    BY <1>1, <1>2, <1>4
  <2>2. u[i] = t[i - Len(s)] /\ u[j] = t[j - Len(s)]
    BY <1>1, <2>1
  <2>3. j - Len(s) = (i - Len(s)) + 1 /\ t[j - Len(s)].role = "assistant"
    BY <2>1, <2>2 DEF ShownOnce
  <2> QED  BY <1>2, <2>2, <2>3
<1>5. CASE i <= Len(s) /\ j > Len(s)
  <2>1. i \in 1..Len(s) /\ j - Len(s) \in 1..Len(t) /\ Len(s) + (j - Len(s)) = j
    BY <1>1, <1>2, <1>5
  <2>2. u[i] = s[i] /\ u[j] = t[j - Len(s)]
    BY <1>1, <2>1
  <2>3. <<s[i].turn, 0>> \in PromptsOf(s) /\ <<t[j - Len(s)].turn, 0>> \in PromptsOf(t)
    BY <1>2, <2>1 DEF PromptsOf
  <2> QED  BY <2>2, <2>3
<1> QED  BY <1>1, <1>2, <1>3, <1>4, <1>5

LEMMA OnceNone == Once(<< >>) /\ ShownOnce(<< >>)
<1>1. Len(<< >>) = 0
  BY NoneIn
<1> QED  BY <1>1 DEF Once, ShownOnce

LEMMA OnceOne ==
  ASSUME NEW e
  PROVE  Once(<<e>>) /\ ShownOnce(<<e>>)
<1>1. Len(<<e>>) = 1
  OBVIOUS
<1>2. \A i, j \in 1..Len(<<e>>) : ~(i < j)
  BY <1>1
<1> QED  BY <1>2 DEF Once, ShownOnce

\* All but the last.
LEMMA FrontIsPrefix ==
  ASSUME NEW S, NEW s \in Seq(S), s # << >>
  PROVE  \E n \in Nat : /\ n + 1 = Len(s) /\ Front(s) = Upto(s, n)
                        /\ Range(SubSeq(s, n + 1, Len(s))) = {Last(s)} /\ s[n + 1] = Last(s)
<1>1. Len(s) \in Nat \ {0} /\ Last(s) = s[Len(s)]
  BY SeqAt, LastAt
<1>2. PICK n \in Nat : n + 1 = Len(s)
  BY <1>1
<1>3. Front(s) = SubSeq(s, 1, Len(s) - 1) /\ Len(s) - 1 = n
  BY <1>2 DEF Front
<1>4. Front(s) = Upto(s, n)
  BY <1>2, <1>3 DEF Upto
<1>5. \A e : e \in Range(SubSeq(s, n + 1, Len(s))) <=> \E i \in 1..Len(s) : i > n /\ e = s[i]
  BY InSuffix
<1>6. \A i \in 1..Len(s) : i > n <=> i = Len(s)
  BY <1>2
<1>7. Len(s) \in 1..Len(s)
  BY <1>1
<1>8. Range(SubSeq(s, n + 1, Len(s))) = {Last(s)}
  BY <1>1, <1>5, <1>6, <1>7
<1> QED  BY <1>1, <1>2, <1>4, <1>8

LEMMA TailApart ==
  ASSUME NEW s \in Seq(Texts), s # << >>
  PROVE  /\ Tail(s) \in Seq(Texts) /\ Known(s) = s[1].tells \cup Known(Tail(s))
         /\ Once(s) => Once(Tail(s))
         /\ Once(s) /\ s[1].role # "call" => s[1].tells \cap Known(Tail(s)) = {}
<1>1. /\ Tail(s) \in Seq(Texts) /\ Len(s) \in Nat \ {0} /\ Len(Tail(s)) = Len(s) - 1
      /\ \A i \in 1..Len(Tail(s)) : Tail(s)[i] = s[i + 1]
  BY TailAt
<1>2. \A i \in 1..Len(Tail(s)) : Tail(s)[i] = s[1 + i] /\ 1 + i \in 1..Len(s)
  BY <1>1
<1>3. Once(s) => Once(Tail(s))
  <2>1. Len(s) \in Nat /\ Len(Tail(s)) \in Nat /\ 1 \in Nat
    BY <1>1
  <2> QED  BY <1>2, <2>1, OncePart
<1>4. \A f : f \in Known(s) <=> \E i \in 1..Len(s) : f \in s[i].tells
  BY KnownAt
<1>5. \A f : f \in Known(Tail(s)) <=> \E i \in 1..Len(Tail(s)) : f \in Tail(s)[i].tells
  BY <1>1, KnownAt
<1>6. ASSUME NEW f \in Known(s)  PROVE f \in s[1].tells \cup Known(Tail(s))
  <2>1. PICK i \in 1..Len(s) : f \in s[i].tells
    BY <1>4, <1>6
  <2>2. CASE i # 1
    <3>1. i - 1 \in 1..Len(Tail(s)) /\ 1 + (i - 1) = i
      BY <1>1, <2>2
    <3>2. Tail(s)[i - 1] = s[i]
      BY <1>2, <3>1
    <3> QED  BY <1>5, <2>1, <3>1, <3>2
  <2> QED  BY <2>1, <2>2
<1>7. s[1].tells \subseteq Known(s)
  <2>1. 1 \in 1..Len(s)
    BY <1>1
  <2> QED  BY <1>4, <2>1
<1>8. ASSUME NEW f \in Known(Tail(s))
      PROVE  \E i \in 2..Len(s) : f \in s[i].tells
  <2>1. PICK i \in 1..Len(Tail(s)) : f \in Tail(s)[i].tells
    BY <1>5, <1>8
  <2>2. 1 + i \in 2..Len(s) /\ Tail(s)[i] = s[1 + i]
    BY <1>1, <1>2, <2>1
  <2> QED  BY <2>1, <2>2
<1>9. Known(Tail(s)) \subseteq Known(s)
  <2>1. \A i \in 2..Len(s) : i \in 1..Len(s)
    BY <1>1
  <2> QED  BY <1>4, <1>8, <2>1
<1>10. ASSUME Once(s), s[1].role # "call", NEW f \in s[1].tells, f \in Known(Tail(s))  PROVE FALSE
  <2>1. PICK i \in 2..Len(s) : f \in s[i].tells
    BY <1>8, <1>10
  <2>2. 1 \in 1..Len(s) /\ i \in 1..Len(s) /\ 1 < i /\ s[1].tells \cap s[i].tells # {}
    BY <1>1, <1>10, <2>1
  <2> QED  BY <1>10, <2>2 DEF Once
<1> QED  BY <1>1, <1>3, <1>6, <1>7, <1>9, <1>10

\* A summary tells what it replaces, and its prompt is still told last.
LEMMA CompactedSays ==
  ASSUME NEW list \in Seq(Texts), Cut(list) > 0
  PROVE  /\ Known(Compacted(list)) = Known(list)
         /\ Linked(list) /\ Once(list) => Once(Compacted(list))
         /\ Last(list).tells \subseteq Last(Compacted(list)).tells
<1>1. PICK cut \in Nat \ {0} : cut = Cut(list) /\ cut < Len(list) /\ list[cut + 1].role # "tool"
  BY CutIs
<1>2. Len(list) \in Nat /\ \A i \in 1..Len(list) : list[i] \in Texts
  BY SeqAt
<1>3. PICK past \in SUBSET Facts : past = Known(SubSeq(list, 1, Cut(list))) /\ past = Known(Upto(list, cut))
  <2>1. Upto(list, cut) \in Seq(Texts) /\ Upto(list, cut) = SubSeq(list, 1, Cut(list))
    BY <1>1, PrefixAt DEF Upto
  <2> QED  BY <2>1, KnownAt
<1>4. PICK recent \in Seq(Texts) :
        /\ recent = SubSeq(list, Cut(list) + 1, Len(list)) /\ recent = SubSeq(list, cut + 1, Len(list))
        /\ Len(recent) = Len(list) - cut
        /\ \A i \in 1..Len(recent) : recent[i] = list[cut + i] /\ cut + i \in 1..Len(list)
  <2>1. LET t == SubSeq(list, cut + 1, Len(list))
        IN  /\ t \in Seq(Texts) /\ Len(t) = IF cut < Len(list) THEN Len(list) - cut ELSE 0
            /\ \A i \in 1..Len(t) : t[i] = list[cut + i] /\ cut + i \in 1..Len(list)
    BY SuffixAt
  <2> QED  BY <1>1, <2>1
<1>5. recent # << >> /\ recent[1] = list[cut + 1] /\ recent[1] \in Texts
  <2>1. Len(recent) \in Nat \ {0} /\ 1 \in 1..Len(recent)
    BY <1>1, <1>2, <1>4
  <2> QED  BY <1>4, <2>1, SeqAt
<1>6. Known(list) = past \cup Known(recent)
  <2>1. Known(list) = Known(Upto(list, cut)) \cup Known(SubSeq(list, cut + 1, Len(list)))
    BY SaysInTwo
  <2> QED  BY <1>3, <1>4, <2>1
<1>7. Linked(list) /\ Once(list) => past \cap Known(recent) = {} /\ Once(recent)
  <2>1. Linked(list) /\ Once(list) => Known(Upto(list, cut)) \cap Known(SubSeq(list, cut + 1, Len(list))) = {}
    BY <1>1, ToldApart
  <2>2. Once(list) => Once(SubSeq(list, cut + 1, Len(list)))
    BY OnceInTwo
  <2> QED  BY <1>3, <1>4, <2>1, <2>2
<1>8. \E first \in Texts, rest \in Seq(Texts) :
        /\ first = SummaryFirst(list) /\ rest = KeptAfter(list)
        /\ first.tells \cup Known(rest) = Known(list)
        /\ Linked(list) /\ Once(list) => first.tells \cap Known(rest) = {} /\ Once(rest)
  <2>1. SummaryFirst(list) \in Texts /\ KeptAfter(list) \in Seq(Texts)
    BY CompactedForm
  <2>2. CASE list[cut + 1].role = "user"
    <3>1. SummaryFirst(list).tells = recent[1].tells \cup past /\ KeptAfter(list) = Tail(recent)
      <4>1. SummaryFirst(list) = [recent[1] EXCEPT !.tells = @ \cup past]
        BY <1>1, <1>3, <1>5, <2>2 DEF SummaryFirst
      <4>2. KeptAfter(list) = Tail(recent)
        BY <1>1, <1>4, <2>2 DEF KeptAfter
      <4> QED  BY <1>5, <4>1, <4>2 DEF Texts
    <3>2. /\ Known(recent) = recent[1].tells \cup Known(Tail(recent))
          /\ Once(recent) => Once(Tail(recent))
          /\ Once(recent) /\ recent[1].role # "call" => recent[1].tells \cap Known(Tail(recent)) = {}
      BY <1>5, TailApart
    <3> QED  BY <1>5, <1>6, <1>7, <2>1, <2>2, <3>1, <3>2
  <2>3. CASE list[cut + 1].role # "user"
    <3>1. SummaryFirst(list).tells = past /\ KeptAfter(list) = recent
      <4>1. SummaryFirst(list) = [role |-> "user", turn |-> 0, tells |-> past]
        BY <1>1, <1>3, <1>5, <2>3 DEF SummaryFirst
      <4>2. KeptAfter(list) = recent
        BY <1>1, <1>4, <2>3 DEF KeptAfter
      <4> QED  BY <4>1, <4>2
    <3> QED  BY <1>6, <1>7, <2>1, <3>1
  <2> QED  BY <2>2, <2>3
<1>9. PICK first \in Texts, rest \in Seq(Texts) :
        /\ first = SummaryFirst(list) /\ rest = KeptAfter(list)
        /\ first.tells \cup Known(rest) = Known(list)
        /\ Linked(list) /\ Once(list) => first.tells \cap Known(rest) = {} /\ Once(rest)
  BY <1>8
<1>10. PICK one \in Seq(Texts) : one = <<first>> /\ Len(one) = 1 /\ Known(one) = first.tells /\ Once(one)
  BY OneIn, SaysOne, OnceOne
<1>11. /\ Compacted(list) = one \o rest
       /\ rest # << >> => rest[Len(rest)] = list[Len(list)]
  BY <1>9, <1>10, CompactedForm
<1>12. Known(Compacted(list)) = Known(list)
  <2>1. Known(one \o rest) = Known(one) \cup Known(rest)
    BY SaysJoined
  <2> QED  BY <1>9, <1>10, <1>11, <2>1
<1>13. Linked(list) /\ Once(list) => Once(Compacted(list))
  BY <1>9, <1>10, <1>11, OnceJoined
<1>14. Last(list).tells \subseteq Last(Compacted(list)).tells
  <2>1. list # << >> /\ Last(list) = list[Len(list)] /\ Len(list) \in 1..Len(list)
    BY <1>1, <1>2, SeqAt, LastAt
  <2>2. /\ one \o rest \in Seq(Texts) /\ Len(one \o rest) = 1 + Len(rest) /\ Len(rest) \in Nat
        /\ \A i \in 1..Len(rest) : (one \o rest)[1 + i] = rest[i]
        /\ \A i \in 1..1 : (one \o rest)[i] = one[i]
    BY <1>10, ConcatAt, SeqAt
  <2>3. Last(one \o rest) = (one \o rest)[1 + Len(rest)]
    BY <2>2 DEF Last
  <2>4. CASE rest # << >>
    <3>1. Len(rest) \in 1..Len(rest)
      BY <2>2, <2>4, SeqAt
    <3> QED  BY <1>11, <2>1, <2>2, <2>3, <2>4, <3>1
  <2>5. CASE rest = << >>
    <3>1. Len(rest) = 0 /\ Known(rest) = {}
      BY <2>5, NoneIn, SaysNothing
    <3>2. 1 \in 1..1 /\ 1 + Len(rest) = 1 /\ one[1] = first
      BY <1>10, <3>1
    <3>3. Last(one \o rest) = first
      BY <2>2, <2>3, <3>2
    <3>4. Last(list).tells \subseteq Known(list)
      BY <2>1, KnownAt
    <3> QED  BY <1>9, <1>11, <3>1, <3>3, <3>4
  <2> QED  BY <2>4, <2>5
<1> QED  BY <1>12, <1>13, <1>14

-----------------------------------------------------------------------------
(* Where checkpoints cut the lists *)

LEMMA PromptsAreNoEdits ==
  ASSUME NEW list
  PROVE  PromptsOf(list) \cap Edits = {}
<1> SUFFICES ASSUME NEW f \in PromptsOf(list), f \in Edits  PROVE FALSE
  OBVIOUS
<1>1. PICK i \in DOMAIN list : f = <<list[i].turn, 0>>
  BY DEF PromptsOf
<1>2. f[2] # 0 /\ f[2] = 0
  BY <1>1 DEF Edits
<1> QED  BY <1>2

\* A checkpoint taken now knows of all that is told.
LEMMA AgreesAtEnd ==
  ASSUME NEW s \in Seq(Texts), NEW h \in Seq(Shows), NEW m \in Nat, NEW n \in Nat, NEW cp,
         m >= Len(s), n >= Len(h), Known(s) \subseteq PromptsOf(h) \cup cp.tree
  PROVE  Agrees(cp, s, h, m, n)
<1>1. Upto(s, m) = s /\ Upto(h, n) = h
  BY PrefixAt
<1> QED  BY <1>1 DEF Agrees

LEMMA SaysNoneUpto ==
  ASSUME NEW S, NEW s \in Seq(S), NEW t \in Seq(S), NEW m \in Nat, m <= Len(s)
  PROVE  /\ Known(Upto(s \o t, m)) = Known(Upto(s, m))
         /\ PromptsOf(Upto(s \o t, m)) = PromptsOf(Upto(s, m))
<1>1. Len(s) \in Nat
  BY SeqAt
<1>2. Beyond(m, Len(s)) = 0
  BY <1>1 DEF Beyond
<1>3. /\ Known(Upto(s \o t, m)) = Known(Upto(s, m)) \cup Known(Upto(t, 0))
      /\ PromptsOf(Upto(s \o t, m)) = PromptsOf(Upto(s, m)) \cup PromptsOf(Upto(t, 0))
  <2>1. /\ Known(Upto(s \o t, m)) = Known(Upto(s, m)) \cup Known(Upto(t, Beyond(m, Len(s))))
        /\ PromptsOf(Upto(s \o t, m)) = PromptsOf(Upto(s, m)) \cup PromptsOf(Upto(t, Beyond(m, Len(s))))
    BY SaysJoinedUpto
  <2> QED  BY <1>2, <2>1
<1>4. Upto(t, 0) = << >>
  <2>1. Upto(t, 0) \in Seq(S) /\ Len(Upto(t, 0)) \in Nat /\ Len(Upto(t, 0)) <= 0
    BY PrefixAt
  <2> QED  BY <2>1, SeqAt
<1> QED  BY <1>3, <1>4, SaysNothing

\* It stays so while the lists grow by what it does not know of.
LEMMA AgreesGrown ==
  ASSUME NEW s \in Seq(Texts), NEW t \in Seq(Texts), NEW h \in Seq(Shows), NEW u \in Seq(Shows),
         NEW m \in Nat, NEW n \in Nat, NEW cp, m <= Len(s), n <= Len(h), Agrees(cp, s, h, m, n),
         (PromptsOf(h) \cup cp.tree) \cap Known(t) = {}
  PROVE  Agrees(cp, s \o t, h \o u, m, n)
<1>1. Known(Upto(s \o t, m)) = Known(Upto(s, m))
  BY SaysNoneUpto
<1>2. PromptsOf(Upto(h \o u, n)) = PromptsOf(Upto(h, n))
  BY SaysNoneUpto
<1>3. Known(s \o t) = Known(s) \cup Known(t)
  BY SaysJoined
<1>4. PromptsOf(Upto(h, n)) \subseteq PromptsOf(h)
  BY SaysInTwo
<1> QED  BY <1>1, <1>2, <1>3, <1>4 DEF Agrees

\* When the lists are cut at one checkpoint, another still agrees with them,
LEMMA AgreesCut ==
  ASSUME NEW s \in Seq(Texts), NEW h \in Seq(Shows),
         NEW c, NEW k \in Nat, NEW l \in Nat, Agrees(c, s, h, k, l), c.tree \subseteq Edits,
         NEW cp, NEW m \in Nat, NEW n \in Nat, Agrees(cp, s, h, m, n), cp.tree \subseteq Edits
  PROVE  Agrees(cp, Upto(s, k), Upto(h, l), m, n)
<1>1. Known(Upto(Upto(s, k), m)) = Known(Upto(s, m)) \cap Known(Upto(s, k))
  BY SaysTwice
<1>2. PromptsOf(Upto(Upto(h, l), n)) = PromptsOf(Upto(h, n)) \cap PromptsOf(Upto(h, l))
  BY SaysTwice
<1>3. Known(Upto(s, k)) \subseteq Known(s)
  BY SaysInTwo
<1>4. PromptsOf(Upto(h, l)) \cap Edits = {} /\ PromptsOf(Upto(h, n)) \cap Edits = {}
  BY PromptsAreNoEdits
<1> QED  BY <1>1, <1>2, <1>3, <1>4 DEF Agrees

\* and with what was cut off.
LEMMA AgreesCutOff ==
  ASSUME NEW s \in Seq(Texts), NEW h \in Seq(Shows), Linked(s), Once(s),
         NEW c, NEW k \in Nat, NEW l \in Nat, Agrees(c, s, h, k, l), Opens(s, k),
         NEW cp, NEW m \in Nat, NEW n \in Nat, Agrees(cp, s, h, m, n)
  PROVE  Agrees(cp, SubSeq(s, k + 1, Len(s)), SubSeq(h, l + 1, Len(h)),
                Beyond(m, Len(Upto(s, k))), Beyond(n, Len(Upto(h, l))))
<1>1. PICK t \in Seq(Texts) : t = SubSeq(s, k + 1, Len(s))
  BY SuffixAt
<1>2. PICK u \in Seq(Shows) : u = SubSeq(h, l + 1, Len(h))
  BY SuffixAt
<1>3. PICK x \in Nat : x = Len(Upto(s, k))
  BY PrefixAt
<1>4. PICK y \in Nat : y = Len(Upto(h, l))
  BY PrefixAt
<1>5. /\ Known(Upto(t, Beyond(m, x))) \subseteq Known(Upto(s, m)) \cap Known(t)
      /\ Known(Upto(s, m)) \subseteq Known(Upto(s, k)) \cup Known(Upto(t, Beyond(m, x)))
  <2>1. LET v == Upto(SubSeq(s, k + 1, Len(s)), Beyond(m, Len(Upto(s, k))))
        IN  /\ Known(v) \subseteq Known(Upto(s, m)) \cap Known(SubSeq(s, k + 1, Len(s)))
            /\ Known(Upto(s, m)) \subseteq Known(Upto(s, k)) \cup Known(v)
    BY SaysAcross
  <2> QED  BY <1>1, <1>3, <2>1
<1>6. /\ PromptsOf(Upto(u, Beyond(n, y))) \subseteq PromptsOf(Upto(h, n)) \cap PromptsOf(u)
      /\ PromptsOf(Upto(h, n)) \subseteq PromptsOf(Upto(h, l)) \cup PromptsOf(Upto(u, Beyond(n, y)))
  <2>1. LET v == Upto(SubSeq(h, l + 1, Len(h)), Beyond(n, Len(Upto(h, l))))
        IN  /\ PromptsOf(v) \subseteq PromptsOf(Upto(h, n)) \cap PromptsOf(SubSeq(h, l + 1, Len(h)))
            /\ PromptsOf(Upto(h, n)) \subseteq PromptsOf(Upto(h, l)) \cup PromptsOf(v)
    BY SaysAcross
  <2> QED  BY <1>2, <1>4, <2>1
<1>7. Known(Upto(s, k)) \cap Known(t) = {}
  <2>1. k < Len(s) => s[k + 1].role # "tool"
    BY DEF Opens
  <2> QED  BY <1>1, <2>1, ToldApart
<1>8. Known(t) \subseteq Known(s)
  BY <1>1, SaysInTwo
<1>9. Agrees(cp, t, u, Beyond(m, x), Beyond(n, y))
  BY <1>5, <1>6, <1>7, <1>8 DEF Agrees
<1> QED  BY <1>1, <1>2, <1>3, <1>4, <1>9

\* What agrees with the lists and with a tail agrees with both together.
LEMMA AgreesJoined ==
  ASSUME NEW s \in Seq(Texts), NEW t \in Seq(Texts), NEW h \in Seq(Shows), NEW u \in Seq(Shows),
         NEW m \in Nat, NEW n \in Nat, NEW cp, Agrees(cp, s, h, m, n),
         Agrees(cp, t, u, Beyond(m, Len(s)), Beyond(n, Len(h))),
         Known(s) \subseteq PromptsOf(h) \cup Edits, Known(t) \subseteq PromptsOf(u) \cup Edits,
         PromptsOf(h) \cap PromptsOf(u) = {}
  PROVE  Agrees(cp, s \o t, h \o u, m, n)
<1>1. Known(Upto(s \o t, m)) = Known(Upto(s, m)) \cup Known(Upto(t, Beyond(m, Len(s))))
  BY SaysJoinedUpto
<1>2. PromptsOf(Upto(h \o u, n)) = PromptsOf(Upto(h, n)) \cup PromptsOf(Upto(u, Beyond(n, Len(h))))
  BY SaysJoinedUpto
<1>3. Known(s \o t) = Known(s) \cup Known(t)
  BY SaysJoined
<1>4. PromptsOf(Upto(h, n)) \subseteq PromptsOf(h)
  BY SaysInTwo
<1>5. PICK y \in Nat : y = Beyond(n, Len(h))
  BY BeyondIn, SeqAt
<1>6. PromptsOf(Upto(u, Beyond(n, Len(h)))) \subseteq PromptsOf(u)
  <2>1. PromptsOf(Upto(u, y)) \subseteq PromptsOf(u)
    BY SaysInTwo
  <2> QED  BY <1>5, <2>1
<1>7. PromptsOf(h) \cap Edits = {} /\ PromptsOf(u) \cap Edits = {}
  BY PromptsAreNoEdits
<1> QED  BY <1>1, <1>2, <1>3, <1>4, <1>6, <1>7 DEF Agrees

-----------------------------------------------------------------------------
(* The tree along the checkpoints and the redo line *)

LEMMA ClimbsSame ==
  ASSUME NEW line, NEW new, NEW base, Climbs(line, base), Len(new) = Len(line),
         \A j \in 1..Len(line) : new[j].tree = line[j].tree /\ new[j].reAdd = line[j].reAdd
  PROVE  Climbs(new, base)
BY DEF Climbs

LEMMA ClimbsJoined ==
  ASSUME NEW line \in Seq(RedoEntries), NEW more \in Seq(RedoEntries), more # << >>, NEW c,
         Climbs(line, more[1].tree), Climbs(more, c)
  PROVE  Climbs(line \o more, c)
<1> DEFINE u == line \o more
           t == more[1].tree
<1>1. /\ Len(u) = Len(line) + Len(more)
      /\ \A i \in 1..Len(line) : u[i] = line[i]
      /\ \A i \in 1..Len(more) : u[Len(line) + i] = more[i]
  BY ConcatAt
<1>2. Len(line) \in Nat /\ Len(more) \in Nat \ {0}
  BY SeqAt
<1>3. c \subseteq t /\ \A i \in 1..Len(more) : more[i].tree \subseteq t
  <2>1. \A i \in 1..Len(more) : i = 1 \/ 1 < i
    BY <1>2
  <2>2. 1 \in 1..Len(more)
    BY <1>2
  <2> QED  BY <2>1, <2>2 DEF Climbs
<1> HIDE DEF u, t
<1>4. ASSUME NEW j \in 1..Len(line)
      PROVE  /\ c \subseteq u[j].tree /\ Len(u[j].reAdd) <= 1
             /\ \A k \in 1..Len(u) : j < k => u[k].tree \subseteq u[j].tree
             /\ \A cp \in Range(u[j].reAdd) :
                  /\ c \subseteq cp.tree /\ cp.tree \subseteq u[j].tree
                  /\ \A k \in 1..Len(u) : j < k => u[k].tree \subseteq cp.tree
  <2>1. u[j] = line[j]
    BY <1>1
  <2>2. /\ t \subseteq line[j].tree /\ Len(line[j].reAdd) <= 1
        /\ \A k \in 1..Len(line) : j < k => line[k].tree \subseteq line[j].tree
        /\ \A cp \in Range(line[j].reAdd) :
             /\ t \subseteq cp.tree /\ cp.tree \subseteq line[j].tree
             /\ \A k \in 1..Len(line) : j < k => line[k].tree \subseteq cp.tree
    BY DEF Climbs, t
  <2>3. ASSUME NEW k \in 1..Len(u), j < k
        PROVE  u[k].tree \subseteq t \/ (k \in 1..Len(line) /\ u[k] = line[k])
    <3>1. CASE k <= Len(line)
      BY <1>1, <1>2, <3>1
    <3>2. CASE k > Len(line)
      <4>1. k - Len(line) \in 1..Len(more) /\ Len(line) + (k - Len(line)) = k
        BY <1>1, <1>2, <3>2
      <4>2. u[k] = more[k - Len(line)]
        BY <1>1, <4>1
      <4> QED  BY <1>3, <4>1, <4>2
    <3> QED  BY <1>1, <1>2, <3>1, <3>2
  <2> QED  BY <1>3, <2>1, <2>2, <2>3
<1>5. ASSUME NEW i \in 1..Len(more), NEW j, j = Len(line) + i
      PROVE  /\ c \subseteq u[j].tree /\ Len(u[j].reAdd) <= 1
             /\ \A k \in 1..Len(u) : j < k => u[k].tree \subseteq u[j].tree
             /\ \A cp \in Range(u[j].reAdd) :
                  /\ c \subseteq cp.tree /\ cp.tree \subseteq u[j].tree
                  /\ \A k \in 1..Len(u) : j < k => u[k].tree \subseteq cp.tree
  <2>1. u[j] = more[i]
    BY <1>1, <1>5
  <2>2. /\ c \subseteq more[i].tree /\ Len(more[i].reAdd) <= 1
        /\ \A k \in 1..Len(more) : i < k => more[k].tree \subseteq more[i].tree
        /\ \A cp \in Range(more[i].reAdd) :
             /\ c \subseteq cp.tree /\ cp.tree \subseteq more[i].tree
             /\ \A k \in 1..Len(more) : i < k => more[k].tree \subseteq cp.tree
    BY DEF Climbs
  <2>3. ASSUME NEW k \in 1..Len(u), j < k
        PROVE  k - Len(line) \in 1..Len(more) /\ i < k - Len(line) /\ u[k] = more[k - Len(line)]
    <3>1. k - Len(line) \in 1..Len(more) /\ Len(line) + (k - Len(line)) = k /\ i < k - Len(line)
      BY <1>1, <1>2, <1>5, <2>3
    <3> QED  BY <1>1, <3>1
  <2> QED  BY <2>1, <2>2, <2>3
<1>6. \A j \in 1..Len(u) : j \in 1..Len(line) \/ \E i \in 1..Len(more) : j = Len(line) + i
  <2>1. \A j \in 1..Len(u) : j \in 1..Len(line) \/ (j - Len(line) \in 1..Len(more) /\ j = Len(line) + (j - Len(line)))
    BY <1>1, <1>2
  <2> QED  BY <2>1
<1>7. Climbs(u, c)
  BY <1>4, <1>5, <1>6 DEF Climbs
<1> QED  BY <1>7 DEF u

\* A /redo takes the last step off; the tree is the one it brought back.
LEMMA ClimbsFront ==
  ASSUME NEW line, NEW new, NEW base, Climbs(line, base), Len(line) \in Nat \ {0}, Len(new) = Len(line) - 1,
         \A j \in 1..Len(new) : new[j].tree = line[j].tree /\ new[j].reAdd = line[j].reAdd
  PROVE  Climbs(new, line[Len(line)].tree)
<1>1. /\ Len(line) \in 1..Len(line)
      /\ \A j \in 1..Len(new) : j \in 1..Len(line) /\ j < Len(line)
  OBVIOUS
<1> QED  BY <1>1 DEF Climbs

LEMMA GrowsPart ==
  ASSUME NEW cps \in Seq(Remembered), NEW i \in 1..Len(cps), NEW n \in {i - 1, i}, NEW top, Grows(cps, top)
  PROVE  Grows(SubSeq(cps, 1, n), cps[i].tree)
<1>1. Len(cps) \in Nat /\ n \in Nat /\ n <= Len(cps) /\ n <= i
  BY SeqAt
<1>2. \A j \in 1..n : cps[j] \in Remembered
  BY <1>1, SeqAt
<1>3. Len(SubSeq(cps, 1, n)) = n /\ \A j \in 1..n : SubSeq(cps, 1, n)[j] = cps[j]
  BY <1>1, <1>2, SubSeqProperties
<1>4. \A j \in 1..n : j \in 1..Len(cps) /\ (j = i \/ j < i)
  BY <1>1
<1> QED  BY <1>3, <1>4 DEF Grows

LEMMA GrowsSame ==
  ASSUME NEW cps, NEW new, NEW top, NEW more, Grows(cps, top), top \subseteq more, Len(new) = Len(cps),
         \A i \in 1..Len(cps) : new[i].tree = cps[i].tree
  PROVE  Grows(new, more)
<1>1. ASSUME NEW i \in 1..Len(new)  PROVE new[i].tree \subseteq more
  BY <1>1 DEF Grows
<1>2. ASSUME NEW i \in 1..Len(new), NEW k \in 1..Len(new), i < k  PROVE new[i].tree \subseteq new[k].tree
  BY <1>2 DEF Grows
<1> QED  BY <1>1, <1>2 DEF Grows

LEMMA GrowsBy ==
  ASSUME NEW cps \in Seq(Remembered), NEW more \in Seq(Remembered), Len(more) <= 1,
         NEW t, NEW top, Grows(cps, t), t \subseteq top,
         \A cp \in Range(more) : t \subseteq cp.tree /\ cp.tree \subseteq top
  PROVE  Grows(cps \o more, top)
<1> DEFINE u == cps \o more
<1>1. /\ Len(u) = Len(cps) + Len(more)
      /\ \A i \in 1..Len(cps) : u[i] = cps[i]
      /\ \A i \in 1..Len(more) : u[Len(cps) + i] = more[i]
  BY ConcatAt
<1>2. Len(cps) \in Nat /\ Len(more) \in Nat
  BY SeqAt
<1> HIDE DEF u
<1>3. ASSUME NEW k \in 1..Len(u), ~(k \in 1..Len(cps))
      PROVE  t \subseteq u[k].tree /\ u[k].tree \subseteq top /\ \A i \in 1..Len(u) : i < k => i \in 1..Len(cps)
  <2>1. k - Len(cps) \in 1..Len(more) /\ Len(cps) + (k - Len(cps)) = k /\ k = Len(cps) + 1
    BY <1>1, <1>2, <1>3
  <2>2. u[k] = more[k - Len(cps)] /\ more[k - Len(cps)] \in Range(more)
    BY <1>1, <2>1, InRange
  <2>3. \A i \in 1..Len(u) : i < k => i \in 1..Len(cps)
    BY <1>1, <1>2, <2>1
  <2> QED  BY <2>2, <2>3
<1>4. \A i \in 1..Len(cps) : u[i].tree \subseteq t /\ u[i].tree \subseteq top
  BY <1>1 DEF Grows
<1>5. ASSUME NEW i \in 1..Len(u), NEW k \in 1..Len(u), i < k  PROVE u[i].tree \subseteq u[k].tree
  <2>1. CASE k \in 1..Len(cps)
    <3>1. i \in 1..Len(cps)
      BY <1>1, <1>2, <1>5, <2>1
    <3> QED  BY <1>1, <1>5, <2>1, <3>1 DEF Grows
  <2>2. CASE ~(k \in 1..Len(cps))
    BY <1>3, <1>4, <1>5, <2>2
  <2> QED  BY <2>1, <2>2
<1>6. Grows(u, top)
  BY <1>3, <1>4, <1>5 DEF Grows
<1> QED  BY <1>6 DEF u

LEMMA StepsClimb ==
  ASSUME NEW newer \in Seq(Remembered), NEW steps, Len(steps) \in Nat, NEW d \in {0, 1}, StepsForm(steps, newer, d),
         NEW c, c \subseteq tree, Grows(newer, tree), \A i \in 1..Len(newer) : c \subseteq newer[i].tree
  PROVE  Climbs(steps, c) /\ steps[1].tree = tree
<1>1. Len(newer) \in Nat
  BY SeqAt
<1>2. Len(steps) = Len(newer) + d /\ Len(steps) # 0
  BY DEF StepsForm
<1>3. ASSUME NEW j \in 1..Len(steps), j > d
      PROVE  \E i \in 1..Len(newer) :
               i = Len(newer) + d + 1 - j /\ steps[j].tree = newer[i].tree /\ steps[j].reAdd = <<newer[i]>>
  BY <1>3 DEF StepsForm
<1>4. ASSUME NEW j \in 1..Len(steps), ~(j > d)
      PROVE  j = 1 /\ d = 1 /\ steps[j].tree = tree /\ steps[j].reAdd = << >>
  <2>1. j = 1 /\ d = 1
    BY <1>4
  <2> QED  BY <2>1 DEF StepsForm
<1>5. \A i \in 1..Len(newer) : c \subseteq newer[i].tree /\ newer[i].tree \subseteq tree
  BY DEF Grows
<1>6. ASSUME NEW j \in 1..Len(steps)
      PROVE  c \subseteq steps[j].tree /\ steps[j].tree \subseteq tree
  BY <1>3, <1>4, <1>5
<1>7. ASSUME NEW j \in 1..Len(steps), NEW k \in 1..Len(steps), j < k
      PROVE  steps[k].tree \subseteq steps[j].tree
  <2>1. CASE j > d
    <3>1. PICK i \in 1..Len(newer) : i = Len(newer) + d + 1 - j /\ steps[j].tree = newer[i].tree
      BY <1>3, <2>1
    <3>2. k > d
      BY <1>7, <2>1
    <3>3. PICK l \in 1..Len(newer) : l = Len(newer) + d + 1 - k /\ steps[k].tree = newer[l].tree
      BY <1>3, <3>2
    <3>4. l < i
      BY <1>1, <1>7, <3>1, <3>3
    <3> QED  BY <3>1, <3>3, <3>4 DEF Grows
  <2>2. CASE ~(j > d)
    BY <1>4, <1>6, <2>2
  <2> QED  BY <2>1, <2>2
<1>8. ASSUME NEW j \in 1..Len(steps)
      PROVE  Len(steps[j].reAdd) <= 1 /\ \A cp \in Range(steps[j].reAdd) : cp.tree = steps[j].tree
  <2>1. CASE j > d
    <3>1. PICK i \in 1..Len(newer) : steps[j].tree = newer[i].tree /\ steps[j].reAdd = <<newer[i]>>
      BY <1>3, <2>1
    <3>2. Len(<<newer[i]>>) = 1 /\ Range(<<newer[i]>>) = {newer[i]}
      BY RangeOfOne
    <3> QED  BY <3>1, <3>2
  <2>2. CASE ~(j > d)
    <3>1. Len(<< >>) = 0 /\ Range(<< >>) = {}
      BY NoneIn DEF Range
    <3> QED  BY <1>4, <2>2, <3>1
  <2> QED  BY <2>1, <2>2
<1>9. Climbs(steps, c)
  BY <1>6, <1>7, <1>8 DEF Climbs
<1>10. steps[1].tree = tree
  <2>1. CASE d = 1
    BY <2>1 DEF StepsForm
  <2>2. CASE d = 0
    <3>1. 1 \in 1..Len(steps) /\ 1 > d /\ Len(newer) + d + 1 - 1 = Len(newer)
      BY <1>1, <1>2, <2>2
    <3>2. steps[1].tree = newer[Len(newer)].tree
      BY <1>3, <3>1
    <3> QED  BY <2>2, <3>2 DEF StepsForm
  <2> QED  BY <2>1, <2>2
<1> QED  BY <1>9, <1>10

\* After a rewind the line climbs from the tree of the checkpoint over the tree that was.
LEMMA RewindChain ==
  ASSUME Typed, LengthInv, ChainInv, Undo \/ RestoreTo
  PROVE  \E cp \in Range(checkpoints), more \in Seq(RedoEntries) :
           /\ Rewind(cp) /\ redo' = redo \o more
           /\ more # << >> /\ more[1].payload = Stashed(cp)
           /\ \A j \in 2..Len(more) : more[j].payload = << >>
           /\ cp.tree \subseteq tree /\ more[1].tree = tree
           /\ Climbs(more, cp.tree) /\ Grows(checkpoints', cp.tree)
<1>1. PICK cp \in Range(checkpoints), more \in Seq(RedoEntries) :
        /\ Rewind(cp) /\ redo' = redo \o more
        /\ Len(more) \in Nat \ {0} /\ more[1].payload = Stashed(cp)
        /\ \A j \in 2..Len(more) : more[j].payload = << >>
        /\ \E i \in 1..Len(checkpoints) :
             /\ cp = checkpoints[i]
             /\ \/ /\ checkpoints' = SubSeq(checkpoints, 1, i - 1)
                   /\ more = <<RedoEntry(tree, <<cp>>, Stashed(cp))>>
                \/ /\ checkpoints' = SubSeq(checkpoints, 1, i)
                   /\ more = Steps(SubSeq(checkpoints, i + 1, Len(checkpoints)), Stashed(cp))
  BY RewindForm
<1>2. PICK i \in 1..Len(checkpoints) :
        /\ cp = checkpoints[i]
        /\ \/ /\ checkpoints' = SubSeq(checkpoints, 1, i - 1)
              /\ more = <<RedoEntry(tree, <<cp>>, Stashed(cp))>>
           \/ /\ checkpoints' = SubSeq(checkpoints, 1, i)
              /\ more = Steps(SubSeq(checkpoints, i + 1, Len(checkpoints)), Stashed(cp))
  BY <1>1
<1>3. /\ checkpoints \in Seq(Remembered) /\ Len(checkpoints) \in Nat /\ tree \in SUBSET Facts
      /\ Grows(checkpoints, tree) /\ cp \in Remembered
  BY SeqAt, InRange DEF Typed, UndoTypes, TurnTypes, ChainInv
<1>4. cp.tree \subseteq tree
  BY <1>2, <1>3 DEF Grows
<1>5. Grows(checkpoints', cp.tree)
  <2>1. \A n \in {i - 1, i} : Grows(SubSeq(checkpoints, 1, n), checkpoints[i].tree)
    BY <1>3, GrowsPart
  <2> QED  BY <1>2, <2>1
<1>6. Climbs(more, cp.tree) /\ more[1].tree = tree
  <2>1. CASE more = <<RedoEntry(tree, <<cp>>, Stashed(cp))>>
    <3> DEFINE e == RedoEntry(tree, <<cp>>, Stashed(cp))
    <3>1. e.tree = tree /\ e.reAdd = <<cp>> /\ Len(<<cp>>) = 1 /\ Range(<<cp>>) = {cp}
      BY RangeOfOne DEF RedoEntry
    <3>2. more = <<e>>
      BY <2>1
    <3> HIDE DEF e
    <3>3. Len(more) = 1 /\ more[1] = e
      BY <3>2
    <3>4. \A j \in 1..Len(more) : more[j] = e /\ \A k \in 1..Len(more) : ~(j < k)
      BY <3>3
    <3>5. Climbs(more, cp.tree)
      BY <1>4, <3>1, <3>4 DEF Climbs
    <3> QED  BY <3>1, <3>3, <3>5
  <2>2. CASE more = Steps(SubSeq(checkpoints, i + 1, Len(checkpoints)), Stashed(cp))
    <3>1. PICK n \in Nat : n = i
      OBVIOUS
    <3>2. PICK newer \in Seq(Remembered) :
            /\ newer = SubSeq(checkpoints, i + 1, Len(checkpoints))
            /\ \A j \in 1..Len(newer) : newer[j] = checkpoints[n + j] /\ n + j \in 1..Len(checkpoints)
      <4>1. LET t == SubSeq(checkpoints, n + 1, Len(checkpoints))
            IN  t \in Seq(Remembered) /\ \A j \in 1..Len(t) : t[j] = checkpoints[n + j] /\ n + j \in 1..Len(checkpoints)
        BY <1>3, SuffixAt
      <4> QED  BY <3>1, <4>1
    <3>3. Len(newer) \in Nat /\ \A j \in 1..Len(newer) : i < n + j /\ \A k \in 1..Len(newer) : j < k => n + j < n + k
      BY <3>1, SeqAt
    <3>4. Grows(newer, tree) /\ \A j \in 1..Len(newer) : cp.tree \subseteq newer[j].tree
      BY <1>2, <1>3, <3>2, <3>3 DEF Grows
    <3>5. PICK p \in Seq(Tails) : p = Stashed(cp)
      BY <1>1, <1>3, RewindAt
    <3>6. \E d \in {0, 1} : StepsForm(Steps(newer, p), newer, d)
      BY <1>3, StepsAt
    <3>7. PICK d \in {0, 1} : StepsForm(more, newer, d)
      BY <2>2, <3>2, <3>5, <3>6
    <3>8. Len(more) \in Nat
      BY <1>1
    <3> QED  BY <1>4, <3>4, <3>7, <3>8, StepsClimb
  <2> QED  BY <1>2, <2>1, <2>2
<1>7. more # << >>
  BY <1>1, SeqAt
<1> QED  BY <1>1, <1>4, <1>5, <1>6, <1>7

LEMMA ChainStep ==
  ASSUME Typed, LengthInv, ChainInv, [SessionNext]_vars
  PROVE  ChainInv'
<1>0. /\ checkpoints \in Seq(Remembered) /\ redo \in Seq(RedoEntries)
      /\ Grows(checkpoints, tree) /\ Climbs(redo, tree)
      /\ InTurn /\ mode = "execute" => redo = << >>
  BY DEF Typed, UndoTypes, ChainInv
<1>a. Len(<< >>) = 0 /\ \A base : Climbs(<< >>, base)
  BY NoneIn DEF Climbs
<1>1. CASE EndsEarly \/ FitSkipped \/ Fit \/ Send \/ StepEnd \/ End \/ CompactNow \/ SetGoal \/ UNCHANGED vars
           \/ \E text \in BOOLEAN : Reply(text) \/ Break(text)
  <2>1. UNCHANGED <<checkpoints, redo, tree, mode>>
    BY <1>1 DEF EndsEarly, FitSkipped, Fit, Send, StepEnd, End, CompactNow, SetGoal, Reply, Break,
                vars, running, undoing
  <2>2. InTurn' => InTurn
    BY <1>1 DEF EndsEarly, FitSkipped, Fit, Send, StepEnd, End, CompactNow, SetGoal, Reply, Break,
                vars, InTurn
  <2> QED  BY <1>0, <2>1, <2>2 DEF ChainInv
<1>2. CASE Edit
  <2>1. redo = << >> /\ tree \subseteq tree' /\ UNCHANGED <<checkpoints, redo>>
    BY <1>0, <1>2 DEF Edit, InTurn, undoing
  <2>2. Grows(checkpoints, tree')
    BY <1>0, <2>1 DEF Grows
  <2> QED  BY <1>a, <2>1, <2>2 DEF ChainInv
<1>3. CASE \E m \in {"execute", "plan"} : Begin(m)
  <2>1. PICK m \in {"execute", "plan"} : Begin(m)
    BY <1>3
  <2>2. /\ tree' = tree /\ mode' = m
        /\ \/ /\ m = "execute" /\ redo' = << >>
              /\ checkpoints' = Append(Overtaken(checkpoints), Checkpoint(FALSE))
           \/ /\ m # "execute" /\ checkpoints' = Overtaken(checkpoints)
              /\ redo' = [i \in DOMAIN redo |-> [redo[i] EXCEPT !.reAdd = Overtaken(@)]]
    BY <2>1 DEF Begin
  <2>3. PICK old \in Seq(Remembered) : /\ old = Overtaken(checkpoints) /\ Len(old) = Len(checkpoints)
                                       /\ \A i \in 1..Len(checkpoints) : old[i].tree = checkpoints[i].tree
    BY <1>0, OvertakenAt
  <2>4. Grows(old, tree)
    BY <1>0, <2>3, GrowsSame
  <2>5. CASE m = "execute"
    <3>1. PICK cp \in Remembered : cp = Checkpoint(FALSE) /\ cp.tree = tree
      BY CheckpointTyped DEF Checkpoint
    <3>2. PICK one \in Seq(Remembered) : one = <<cp>> /\ Len(one) <= 1 /\ Range(one) = {cp}
      <4>1. <<cp>> \in Seq(Remembered) /\ Len(<<cp>>) <= 1
        OBVIOUS
      <4>2. Range(<<cp>>) = {cp}
        BY RangeOfOne
      <4> QED  BY <4>1, <4>2
    <3>3. Append(old, cp) = old \o one
      BY <3>2, AppendIsConcat
    <3>4. Grows(old \o one, tree)
      <4>1. \A c \in Range(one) : tree \subseteq c.tree /\ c.tree \subseteq tree
        BY <3>1, <3>2
      <4> QED  BY <2>4, <3>2, <4>1, GrowsBy
    <3>5. checkpoints' = old \o one /\ redo' = << >>
      BY <2>2, <2>3, <2>5, <3>1, <3>3
    <3> QED  BY <1>a, <2>2, <3>4, <3>5 DEF ChainInv
  <2>6. CASE m # "execute"
    <3>1. /\ redo' \in Seq(RedoEntries) /\ Len(redo') = Len(redo)
          /\ \A i \in 1..Len(redo) : redo'[i].tree = redo[i].tree /\ redo'[i].reAdd = Overtaken(redo[i].reAdd)
      <4>1. redo' = [i \in DOMAIN redo |-> [redo[i] EXCEPT !.reAdd = Overtaken(@)]]
        BY <2>2, <2>6
      <4> QED  BY <1>0, <4>1, OvertakenLine
    <3>2. ASSUME NEW j \in 1..Len(redo)
          PROVE  /\ Len(redo'[j].reAdd) = Len(redo[j].reAdd)
                 /\ \A cp \in Range(redo'[j].reAdd) : \E o \in Range(redo[j].reAdd) : cp.tree = o.tree
      <4>1. redo[j] \in RedoEntries
        BY <1>0, SeqAt
      <4>2. PICK cps \in Seq(Remembered) : cps = redo[j].reAdd
        BY <4>1 DEF RedoEntries
      <4>3. Len(Overtaken(cps)) = Len(cps)
        BY OvertakenAt
      <4>4. \A cp \in Range(Overtaken(cps)) : \E o \in Range(cps) : cp.tree = o.tree
        BY OvertakenOf
      <4> QED  BY <3>1, <4>2, <4>3, <4>4
    <3>3. Climbs(redo', tree)
      <4> SUFFICES ASSUME NEW j \in 1..Len(redo)
                   PROVE  /\ tree \subseteq redo'[j].tree /\ Len(redo'[j].reAdd) <= 1
                          /\ \A k \in 1..Len(redo) : j < k => redo'[k].tree \subseteq redo'[j].tree
                          /\ \A cp \in Range(redo'[j].reAdd) :
                               /\ tree \subseteq cp.tree /\ cp.tree \subseteq redo'[j].tree
                               /\ \A k \in 1..Len(redo) : j < k => redo'[k].tree \subseteq cp.tree
        BY <3>1 DEF Climbs
      <4>1. /\ tree \subseteq redo[j].tree /\ Len(redo[j].reAdd) <= 1
            /\ \A k \in 1..Len(redo) : j < k => redo[k].tree \subseteq redo[j].tree
            /\ \A cp \in Range(redo[j].reAdd) :
                 /\ tree \subseteq cp.tree /\ cp.tree \subseteq redo[j].tree
                 /\ \A k \in 1..Len(redo) : j < k => redo[k].tree \subseteq cp.tree
        BY <1>0 DEF Climbs
      <4>2. \A k \in 1..Len(redo) : redo'[k].tree = redo[k].tree
        BY <3>1
      <4>3. \A cp \in Range(redo'[j].reAdd) : \E o \in Range(redo[j].reAdd) : cp.tree = o.tree
        BY <3>2
      <4> QED  BY <3>2, <4>1, <4>2, <4>3
    <3> QED  BY <2>2, <2>3, <2>4, <2>6, <3>3 DEF ChainInv
  <2> QED  BY <2>5, <2>6
<1>4. CASE \E green \in BOOLEAN : Saved(green)
  <2>1. /\ tree' = tree /\ ~InTurn'
        /\ \/ checkpoints' = Append(checkpoints, Checkpoint(TRUE)) /\ redo' = << >>
           \/ UNCHANGED <<checkpoints, redo>>
    BY <1>4 DEF Saved, InTurn, undoing
  <2>2. CASE checkpoints' = Append(checkpoints, Checkpoint(TRUE)) /\ redo' = << >>
    <3>1. PICK cp \in Remembered : cp = Checkpoint(TRUE) /\ cp.tree = tree
      BY CheckpointTyped DEF Checkpoint
    <3>2. PICK one \in Seq(Remembered) : one = <<cp>> /\ Len(one) <= 1 /\ Range(one) = {cp}
      <4>1. <<cp>> \in Seq(Remembered) /\ Len(<<cp>>) <= 1
        OBVIOUS
      <4>2. Range(<<cp>>) = {cp}
        BY RangeOfOne
      <4> QED  BY <4>1, <4>2
    <3>3. Append(checkpoints, cp) = checkpoints \o one
      BY <1>0, <3>2, AppendIsConcat
    <3>4. Grows(checkpoints \o one, tree)
      <4>1. \A c \in Range(one) : tree \subseteq c.tree /\ c.tree \subseteq tree
        BY <3>1, <3>2
      <4> QED  BY <1>0, <3>2, <4>1, GrowsBy
    <3> QED  BY <1>a, <2>1, <2>2, <3>1, <3>3, <3>4 DEF ChainInv
  <2>3. CASE UNCHANGED <<checkpoints, redo>>
    BY <1>0, <2>1, <2>3 DEF ChainInv
  <2> QED  BY <2>1, <2>2, <2>3
<1>5. CASE Clear
  <2>1. /\ UNCHANGED <<tree, checkpoints, stage>> /\ stage = "idle"
        /\ redo' = [i \in DOMAIN redo |-> [redo[i] EXCEPT !.payload = << >>]]
    BY <1>5 DEF Clear
  <2>2. /\ Len(redo') = Len(redo)
        /\ \A i \in 1..Len(redo) : redo'[i].tree = redo[i].tree /\ redo'[i].reAdd = redo[i].reAdd
    BY <1>0, <2>1, ClearedLine
  <2>3. Climbs(redo', tree)
    BY <1>0, <2>2, ClimbsSame
  <2> QED  BY <1>0, <2>1, <2>3 DEF ChainInv, InTurn
<1>6. CASE Undo \/ RestoreTo
  <2>1. PICK cp \in Range(checkpoints), more \in Seq(RedoEntries) :
          /\ Rewind(cp) /\ redo' = redo \o more /\ more # << >> /\ more[1].tree = tree
          /\ Climbs(more, cp.tree) /\ Grows(checkpoints', cp.tree)
    BY <1>6, RewindChain
  <2>2. Climbs(redo \o more, cp.tree)
    BY <1>0, <2>1, ClimbsJoined
  <2>3. tree' = cp.tree /\ ~InTurn'
    BY <1>6, <2>1 DEF Rewind, Undo, RestoreTo, InTurn
  <2> QED  BY <2>1, <2>2, <2>3 DEF ChainInv
<1>7. CASE Redo
  <2>1. /\ Last(redo) \in RedoEntries /\ Len(redo) \in 1..Len(redo) /\ Last(redo) = redo[Len(redo)]
        /\ tree' = Last(redo).tree /\ checkpoints' = checkpoints \o Last(redo).reAdd /\ ~InTurn'
    BY <1>7, RedoLists DEF Redo, InTurn
  <2>2. /\ tree \subseteq tree' /\ Len(Last(redo).reAdd) <= 1
        /\ \A cp \in Range(Last(redo).reAdd) : tree \subseteq cp.tree /\ cp.tree \subseteq tree'
    BY <1>0, <2>1 DEF Climbs
  <2>3. PICK more \in Seq(Remembered) : more = Last(redo).reAdd
    BY <2>1 DEF RedoEntries
  <2>4. Grows(checkpoints \o more, tree')
    BY <1>0, <2>2, <2>3, GrowsBy
  <2>5. /\ Len(redo) \in Nat \ {0} /\ Len(redo') = Len(redo) - 1
        /\ \A j \in 1..Len(redo') : redo'[j].tree = redo[j].tree /\ redo'[j].reAdd = redo[j].reAdd
    BY <1>7, RedoLine
  <2>6. Climbs(redo', redo[Len(redo)].tree)
    BY <1>0, <2>5, ClimbsFront
  <2> QED  BY <2>1, <2>3, <2>4, <2>6 DEF ChainInv
<1>8. CASE Crash
  <2>1. redo' = << >> /\ UNCHANGED <<tree, checkpoints>> /\ ~InTurn'
    BY <1>8 DEF Crash, InTurn
  <2> QED  BY <1>0, <1>a, <2>1 DEF ChainInv
<1> QED  BY <1>1, <1>2, <1>3, <1>4, <1>5, <1>6, <1>7, <1>8 DEF SessionNext

-----------------------------------------------------------------------------
(* Nothing is told of turns to come *)

LEMMA PastLater ==
  ASSUME NEW a \in SUBSET Facts, NEW n \in Nat, NEW m \in Nat, n <= m, Past(a, n)
  PROVE  Past(a, m)
<1> SUFFICES ASSUME NEW f \in a  PROVE f[1] <= m
  BY DEF Past
<1>1. f[1] \in Nat
  BY DEF Facts
<1>2. f[1] <= n
  BY DEF Past
<1> QED  BY <1>1, <1>2

LEMMA PastPart ==
  ASSUME NEW a, NEW b, NEW n, a \subseteq b, Past(b, n)
  PROVE  Past(a, n)
BY DEF Past

LEMMA PastUnion ==
  ASSUME NEW a, NEW b, NEW n, Past(a, n), Past(b, n)
  PROVE  Past(a \cup b, n)
BY DEF Past

LEMMA SaysFacts ==
  /\ \A s \in Seq(Texts) : Known(s) \in SUBSET Facts
  /\ \A h \in Seq(Shows) : PromptsOf(h) \in SUBSET Facts
<1>1. ASSUME NEW s \in Seq(Texts)  PROVE Known(s) \in SUBSET Facts
  BY KnownAt
<1>2. ASSUME NEW h \in Seq(Shows)  PROVE PromptsOf(h) \in SUBSET Facts
  <2> SUFFICES ASSUME NEW f \in PromptsOf(h)  PROVE f \in Facts
    OBVIOUS
  <2>1. PICK m \in Range(h) : f = <<m.turn, 0>>
    BY SaysOf
  <2>2. m \in Shows
    BY InRange
  <2>3. m.turn \in 1..MaxTurns
    BY <2>2 DEF Shows
  <2> QED  BY <2>1, <2>3, FactsOfTurn
<1> QED  BY <1>1, <1>2

LEMMA LaterStep ==
  ASSUME Typed, LengthInv, [SessionNext]_vars
  PROVE  /\ turns \in Nat /\ turns' \in Nat /\ turns <= turns'
         /\ Before \in Nat /\ Before' \in Nat /\ Before <= Before'
         /\ Before <= turns /\ Before' <= turns'
<1>1. Typed'
  BY TypeStep
<1>2. /\ turns \in Nat /\ turns' \in Nat
      /\ (InTurn => turns # 0) /\ (InTurn' => turns' # 0)
  BY <1>1 DEF Typed, TurnTypes, InTurn
<1>3. \/ turns' = turns /\ (InTurn' => InTurn)
      \/ turns' = turns + 1 /\ ~InTurn
  <2>1. CASE \E m \in {"execute", "plan"} : Begin(m)
    BY <2>1 DEF Begin, InTurn
  <2>2. CASE EndsEarly \/ FitSkipped \/ Fit \/ Send \/ Edit \/ StepEnd \/ SetGoal \/ UNCHANGED vars
    BY <2>2 DEF EndsEarly, FitSkipped, Fit, Send, Edit, StepEnd, SetGoal, vars, InTurn
  <2>3. CASE (\E text \in BOOLEAN : Reply(text) \/ Break(text)) \/ End \/ CompactNow \/ Clear
    BY <2>3 DEF Reply, Break, End, CompactNow, Clear, InTurn
  <2>4. CASE (\E green \in BOOLEAN : Saved(green)) \/ Undo \/ RestoreTo \/ Redo \/ Crash
    BY <2>4 DEF Saved, Undo, RestoreTo, Redo, Crash, InTurn
  <2> QED  BY <2>1, <2>2, <2>3, <2>4 DEF SessionNext
<1>4. Before = (IF InTurn THEN turns - 1 ELSE turns) /\ Before' = (IF InTurn' THEN turns' - 1 ELSE turns')
  BY DEF Before
<1>5. CASE InTurn
  BY <1>2, <1>3, <1>4, <1>5
<1>6. CASE ~InTurn
  <2>1. CASE InTurn'
    <3>1. turns' = turns + 1
      BY <1>3, <1>6, <2>1
    <3>2. Before = turns /\ Before' = turns' - 1
      BY <1>4, <1>6, <2>1
    <3> QED  BY <1>2, <3>1, <3>2
  <2>2. CASE ~InTurn'
    <3>1. Before = turns /\ Before' = turns'
      BY <1>4, <1>6, <2>2
    <3> QED  BY <1>2, <1>3, <3>1
  <2> QED  BY <2>1, <2>2
<1> QED  BY <1>5, <1>6

LEMMA LinePast ==
  ASSUME NEW line \in Seq(RedoEntries), NEW n \in Nat, NEW m \in Nat, n <= m, FreshLine(line, n),
         NEW new, \A j \in 1..Len(new) : \E i \in 1..Len(line) :
           /\ new[j].tree = line[i].tree
           /\ new[j].payload # << >> =>
                /\ line[i].payload # << >>
                /\ new[j].payload[1].messages = line[i].payload[1].messages
                /\ new[j].payload[1].history = line[i].payload[1].history
  PROVE  FreshLine(new, m)
<1>1. ASSUME NEW i \in 1..Len(line)
      PROVE  /\ line[i].tree \subseteq Edits /\ Past(line[i].tree, m)
             /\ line[i].payload # << >> =>
                  /\ Past(Known(line[i].payload[1].messages), m)
                  /\ Past(PromptsOf(line[i].payload[1].history), m)
  <2>1. /\ line[i].tree \subseteq Edits /\ Past(line[i].tree, n)
        /\ line[i].payload # << >> =>
             /\ Past(Known(line[i].payload[1].messages), n)
             /\ Past(PromptsOf(line[i].payload[1].history), n)
    BY DEF FreshLine
  <2>2. line[i].tree \in SUBSET Facts
    <3>1. line[i] \in RedoEntries
      BY SeqAt
    <3> QED  BY <3>1 DEF RedoEntries
  <2>3. Past(line[i].tree, m)
    BY <2>1, <2>2, PastLater
  <2>4. ASSUME line[i].payload # << >>
        PROVE  /\ Past(Known(line[i].payload[1].messages), m)
               /\ Past(PromptsOf(line[i].payload[1].history), m)
    <3>1. PICK t \in Tails : t = line[i].payload[1]
      BY <2>4, TailOf
    <3>2. t.messages \in Seq(Texts) /\ t.history \in Seq(Shows)
      BY DEF Tails
    <3>3. Known(t.messages) \in SUBSET Facts /\ PromptsOf(t.history) \in SUBSET Facts
      BY <3>2, SaysFacts
    <3> QED  BY <2>1, <2>4, <3>1, <3>3, PastLater
  <2> QED  BY <2>1, <2>3, <2>4
<1> SUFFICES ASSUME NEW j \in 1..Len(new)
             PROVE  /\ new[j].tree \subseteq Edits /\ Past(new[j].tree, m)
                    /\ new[j].payload # << >> =>
                         /\ Past(Known(new[j].payload[1].messages), m)
                         /\ Past(PromptsOf(new[j].payload[1].history), m)
  BY DEF FreshLine
<1>2. PICK i \in 1..Len(line) :
        /\ new[j].tree = line[i].tree
        /\ new[j].payload # << >> =>
             /\ line[i].payload # << >>
             /\ new[j].payload[1].messages = line[i].payload[1].messages
             /\ new[j].payload[1].history = line[i].payload[1].history
  OBVIOUS
<1> QED  BY <1>1, <1>2

LEMMA FreshMarksStep ==
  ASSUME Typed, LengthInv, FreshInv, [SessionNext]_vars
  PROVE  FreshMarks'
<1>1. /\ turns \in Nat /\ turns' \in Nat /\ turns <= turns'
      /\ Before \in Nat /\ Before' \in Nat /\ Before <= Before'
  BY LaterStep
<1>2. ASSUME NEW cp, NEW old \in Reachable, cp.tree = old.tree
      PROVE  cp.tree \subseteq Edits /\ Past(cp.tree, Before')
  <2>1. old.tree \in SUBSET Facts
    BY ReachTyped DEF Remembered
  <2>2. old.tree \subseteq Edits /\ Past(old.tree, Before)
    BY DEF FreshInv, FreshMarks
  <2> QED  BY <1>1, <1>2, <2>1, <2>2, PastLater
<1>3. tree \subseteq Edits /\ Past(tree, turns)
  BY DEF FreshInv, FreshNow
<1>4. CASE \E m \in {"execute", "plan"} : Begin(m)
  <2>1. PICK m \in {"execute", "plan"} : Begin(m)
    BY <1>4
  <2>2. Before' = turns
    BY <1>1, <2>1 DEF Begin, Before, InTurn
  <2>3. \A cp \in Reachable' : cp = Checkpoint(FALSE) \/ \E old \in Reachable : cp.tree = old.tree
    BY <2>1, ReachBegin
  <2>4. Checkpoint(FALSE).tree = tree
    BY DEF Checkpoint
  <2> QED  BY <1>2, <1>3, <2>2, <2>3, <2>4 DEF FreshMarks
<1>5. CASE \E green \in BOOLEAN : Saved(green)
  <2>1. PICK green \in BOOLEAN : Saved(green)
    BY <1>5
  <2>2. Before' = turns
    BY <2>1 DEF Saved, Before, InTurn
  <2>3. \A cp \in Reachable' : cp = Checkpoint(TRUE) \/ cp \in Reachable
    BY <2>1, ReachSaved
  <2>4. Checkpoint(TRUE).tree = tree
    BY DEF Checkpoint
  <2> QED  BY <1>2, <1>3, <2>2, <2>3, <2>4 DEF FreshMarks
<1>6. CASE ~(\E m \in {"execute", "plan"} : Begin(m)) /\ ~(\E green \in BOOLEAN : Saved(green))
  <2>1. UNCHANGED <<checkpoints, redo>> \/ Clear \/ Undo \/ RestoreTo \/ Redo \/ Crash
    BY <1>6 DEF SessionNext, EndsEarly, FitSkipped, Fit, Send, Edit, StepEnd, Reply, Break, End,
                CompactNow, SetGoal, vars, undoing
  <2>2. Reachable' \subseteq Reachable
    BY <2>1, ReachKept
  <2> QED  BY <1>2, <2>2 DEF FreshMarks
<1> QED  BY <1>4, <1>5, <1>6

LEMMA FreshDiskStep ==
  ASSUME Typed, LengthInv, FreshInv, [SessionNext]_vars
  PROVE  FreshDisk'
<1>1. /\ turns \in Nat /\ turns' \in Nat /\ turns <= turns'
      /\ Before \in Nat /\ Before' \in Nat /\ Before <= Before'
  BY LaterStep
<1>2. /\ Past(Known(messages), turns) /\ Past(PromptsOf(history), turns) /\ Past(forgot, turns)
      /\ Past(Known(disk.messages), turns) /\ Past(PromptsOf(disk.history), turns)
      /\ Past(disk.forgot, turns) /\ disk.turn <= Before
  BY DEF FreshInv, FreshNow, FreshDisk
<1>3. /\ messages \in Seq(Texts) /\ history \in Seq(Shows) /\ forgot \in SUBSET Facts
      /\ disk.messages \in Seq(Texts) /\ disk.history \in Seq(Shows) /\ disk.forgot \in SUBSET Facts
      /\ disk.turn \in Nat
  BY DEF Typed, ListTypes, TurnTypes, StoreTypes, Generations
<1>4. /\ Known(messages) \in SUBSET Facts /\ PromptsOf(history) \in SUBSET Facts
      /\ Known(disk.messages) \in SUBSET Facts /\ PromptsOf(disk.history) \in SUBSET Facts
  BY <1>3, SaysFacts
<1>5. /\ Past(Known(messages), turns') /\ Past(PromptsOf(history), turns') /\ Past(forgot, turns')
      /\ Past(Known(disk.messages), turns') /\ Past(PromptsOf(disk.history), turns')
      /\ Past(disk.forgot, turns')
  BY <1>1, <1>2, <1>3, <1>4, PastLater
<1>6. CASE disk' = disk
  BY <1>1, <1>2, <1>3, <1>5, <1>6 DEF FreshDisk
<1>7. CASE disk' = Snapshot
  <2>1. /\ Snapshot.messages = messages /\ Snapshot.history = history
        /\ Snapshot.forgot = forgot /\ Snapshot.turn = Before
    BY DEF Snapshot, Before
  <2> QED  BY <1>1, <1>5, <1>7, <2>1 DEF FreshDisk
<1>8. disk' \in {disk, Snapshot}
  BY DEF SessionNext, Begin, EndsEarly, FitSkipped, Fit, Send, Edit, StepEnd, Reply, Break, End, Saved,
         CompactNow, Clear, Undo, RestoreTo, Redo, SetGoal, Crash, vars, storing
<1> QED  BY <1>6, <1>7, <1>8

LEMMA FreshLineStep ==
  ASSUME Typed, LengthInv, ChainInv, FreshInv, [SessionNext]_vars
  PROVE  FreshLine(redo', turns')
<1>1. turns \in Nat /\ turns' \in Nat /\ turns <= turns'
  BY LaterStep
<1>2. redo \in Seq(RedoEntries) /\ FreshLine(redo, turns) /\ Len(redo) \in Nat
  BY SeqAt DEF Typed, UndoTypes, FreshInv
<1>3. ASSUME \A j \in 1..Len(redo') : \E i \in 1..Len(redo) :
               /\ redo'[j].tree = redo[i].tree
               /\ redo'[j].payload # << >> =>
                    /\ redo[i].payload # << >>
                    /\ redo'[j].payload[1].messages = redo[i].payload[1].messages
                    /\ redo'[j].payload[1].history = redo[i].payload[1].history
      PROVE  FreshLine(redo', turns')
  <2>1. \A new : (\A j \in 1..Len(new) : \E i \in 1..Len(redo) :
               /\ new[j].tree = redo[i].tree
               /\ new[j].payload # << >> =>
                    /\ redo[i].payload # << >>
                    /\ new[j].payload[1].messages = redo[i].payload[1].messages
                    /\ new[j].payload[1].history = redo[i].payload[1].history)
          => FreshLine(new, turns')
    BY <1>1, <1>2, LinePast
  <2> QED  BY <1>3, <2>1
<1>4. CASE redo' = redo
  BY <1>3, <1>4
<1>5. CASE redo' = << >>
  BY <1>5, NoneIn DEF FreshLine
<1>6. CASE redo' = [i \in DOMAIN redo |-> [redo[i] EXCEPT !.reAdd = Overtaken(@)]]
  <2>1. /\ Len(redo') = Len(redo)
        /\ \A i \in 1..Len(redo) : redo'[i].tree = redo[i].tree /\ redo'[i].payload = redo[i].payload
    BY <1>2, <1>6, OvertakenLine
  <2> QED  BY <1>3, <2>1
<1>7. CASE Clear
  <2>1. redo' = [i \in DOMAIN redo |-> [redo[i] EXCEPT !.payload = << >>]]
    BY <1>7 DEF Clear
  <2>2. /\ Len(redo') = Len(redo)
        /\ \A i \in 1..Len(redo) : redo'[i].tree = redo[i].tree /\ redo'[i].payload = << >>
    BY <1>2, <2>1, ClearedLine
  <2> QED  BY <1>3, <2>2
<1>8. CASE Redo
  <2>1. \A j \in 1..Len(redo') :
          /\ j \in 1..Len(redo) /\ redo'[j].tree = redo[j].tree
          /\ redo'[j].payload # << >> =>
               /\ redo[j].payload # << >>
               /\ redo'[j].payload[1].messages = redo[j].payload[1].messages
               /\ redo'[j].payload[1].history = redo[j].payload[1].history
    BY <1>8, RedoLine
  <2> QED  BY <1>3, <2>1
<1>9. CASE Undo \/ RestoreTo
  <2>1. PICK cp \in Range(checkpoints), more \in Seq(RedoEntries) :
          /\ Rewind(cp) /\ redo' = redo \o more /\ more # << >> /\ more[1].payload = Stashed(cp)
          /\ \A j \in 2..Len(more) : more[j].payload = << >>
          /\ more[1].tree = tree /\ Climbs(more, cp.tree)
    BY <1>9, RewindChain
  <2>2. turns' = turns
    BY <1>9 DEF Undo, RestoreTo
  <2>3. Len(more) \in Nat \ {0}
    BY <2>1, SeqAt
  <2>4. /\ Len(redo') = Len(redo) + Len(more)
        /\ \A i \in 1..Len(redo) : redo'[i] = redo[i]
        /\ \A i \in 1..Len(more) : redo'[Len(redo) + i] = more[i]
    BY <1>2, <2>1, ConcatAt
  <2>5. tree \subseteq Edits /\ Past(tree, turns) /\ Past(Known(messages), turns) /\ Past(PromptsOf(history), turns)
    BY DEF FreshInv, FreshNow
  <2>6. ASSUME NEW j \in 1..Len(redo'), j > Len(redo)
        PROVE  /\ redo'[j].tree \subseteq Edits /\ Past(redo'[j].tree, turns)
               /\ redo'[j].payload # << >> =>
                    /\ Past(Known(redo'[j].payload[1].messages), turns)
                    /\ Past(PromptsOf(redo'[j].payload[1].history), turns)
    <3>1. PICK k \in 1..Len(more) : j = Len(redo) + k
      <4>1. j - Len(redo) \in 1..Len(more) /\ j = Len(redo) + (j - Len(redo))
        BY <1>2, <2>3, <2>4, <2>6
      <4> QED  BY <4>1
    <3>2. redo'[j] = more[k]
      BY <2>4, <3>1
    <3>3. more[k].tree \subseteq tree
      <4>1. k = 1 \/ 1 < k
        BY <2>3
      <4>2. 1 \in 1..Len(more)
        BY <2>3
      <4> QED  BY <2>1, <4>1, <4>2 DEF Climbs
    <3>4. ASSUME more[k].payload # << >>
          PROVE  /\ Past(Known(more[k].payload[1].messages), turns)
                 /\ Past(PromptsOf(more[k].payload[1].history), turns)
      <4>1. k = 1
        BY <2>1, <2>3, <3>4
      <4>2. cp \in Remembered
        BY ReachTyped, <2>1
      <4>3. more[k].payload[1] = CutOff(cp)
        BY <2>1, <3>4, <4>1, <4>2, RewindAt
      <4>4. PICK m \in Nat, n \in Nat : m = cp.mark.messages /\ n = cp.mark.history
        BY <4>2 DEF Remembered, Lengths
      <4>a. messages \in Seq(Texts) /\ history \in Seq(Shows)
        BY DEF Typed, ListTypes
      <4>5. Known(SubSeq(messages, m + 1, Len(messages))) \subseteq Known(messages)
        <5>1. Known(messages) = Known(Upto(messages, m)) \cup Known(SubSeq(messages, m + 1, Len(messages)))
          BY <4>a, SaysInTwo
        <5> QED  BY <5>1
      <4>6. PromptsOf(SubSeq(history, n + 1, Len(history))) \subseteq PromptsOf(history)
        <5>1. PromptsOf(history) = PromptsOf(Upto(history, n)) \cup PromptsOf(SubSeq(history, n + 1, Len(history)))
          BY <4>a, SaysInTwo
        <5> QED  BY <5>1
      <4>7. /\ CutOff(cp).messages = SubSeq(messages, m + 1, Len(messages))
            /\ CutOff(cp).history = SubSeq(history, n + 1, Len(history))
        BY <4>4 DEF CutOff
      <4> QED  BY <2>5, <4>3, <4>5, <4>6, <4>7, PastPart
    <3>5. more[k].tree \subseteq Edits /\ Past(more[k].tree, turns)
      BY <2>5, <3>3, PastPart
    <3> QED  BY <3>2, <3>4, <3>5
  <2>7. ASSUME NEW j \in 1..Len(redo'), ~(j > Len(redo))
        PROVE  /\ redo'[j].tree \subseteq Edits /\ Past(redo'[j].tree, turns)
               /\ redo'[j].payload # << >> =>
                    /\ Past(Known(redo'[j].payload[1].messages), turns)
                    /\ Past(PromptsOf(redo'[j].payload[1].history), turns)
    <3>1. j \in 1..Len(redo) /\ redo'[j] = redo[j]
      BY <1>2, <2>4, <2>7
    <3> QED  BY <1>2, <3>1 DEF FreshLine
  <2>8. FreshLine(redo', turns)
    BY <2>6, <2>7 DEF FreshLine
  <2> QED  BY <2>2, <2>8
<1>10. CASE \E m \in {"execute", "plan"} : Begin(m)
  BY <1>5, <1>6, <1>10 DEF Begin
<1>11. CASE EndsEarly \/ FitSkipped \/ Fit \/ Send \/ Edit \/ StepEnd \/ SetGoal \/ UNCHANGED vars
  BY <1>4, <1>11 DEF EndsEarly, FitSkipped, Fit, Send, Edit, StepEnd, SetGoal, vars, undoing
<1>12. CASE (\E text \in BOOLEAN : Reply(text) \/ Break(text)) \/ End \/ CompactNow \/ Crash
  BY <1>4, <1>5, <1>12 DEF Reply, Break, End, CompactNow, Crash, undoing
<1>13. CASE \E green \in BOOLEAN : Saved(green)
  BY <1>4, <1>5, <1>13 DEF Saved, undoing
<1> QED  BY <1>7, <1>8, <1>9, <1>10, <1>11, <1>12, <1>13 DEF SessionNext

\* What a turn leaves: the steps that ended and its reply, which tells nothing; at
\* most one more message is shown.
LEMMA StreamedForm ==
  ASSUME Typed, NEW text \in BOOLEAN, Reply(text) \/ Break(text)
  PROVE  \E rest \in Seq(Texts), shown \in Seq(Shows) :
           /\ messages' = messages \o rest /\ Known(rest) = Known(committed)
           /\ Once(committed) => Once(rest)
           /\ history' = history \o shown /\ (shown = << >> \/ shown = <<Shown("assistant")>>)
           /\ rest = << >> => shown = << >>
           /\ StepInv /\ rest # << >> => rest[Len(rest)].role # "user"
<1>1. /\ messages' = messages \o committed \o (IF text THEN <<Said("assistant", {})>> ELSE << >>)
      /\ history' = IF text \/ committed # << >> THEN Append(history, Shown("assistant")) ELSE history
      /\ stage = "streaming"
  BY DEF Reply, Break
<1>2. messages \in Seq(Texts) /\ committed \in Seq(Texts) /\ history \in Seq(Shows) /\ turns \in 1..MaxTurns
  BY <1>1 DEF Typed, ListTypes, TurnTypes
<1>3. PICK say \in Texts : say = Said("assistant", {}) /\ say.tells = {}
  <2>1. \A role \in {"user", "call", "tool", "assistant"}, tells \in SUBSET Facts : Said(role, tells) \in Texts
    BY SaidTyped
  <2>2. Said("assistant", {}) \in Texts
    BY <2>1
  <2>3. Said("assistant", {}).tells = {}
    BY DEF Said
  <2> QED  BY <2>2, <2>3
<1>4. PICK show \in Shows : show = Shown("assistant")
  BY <1>2 DEF Shown, Shows
<1>5. PICK last \in Seq(Texts) :
        /\ last = (IF text THEN <<Said("assistant", {})>> ELSE << >>) /\ Known(last) = {} /\ Once(last)
  <2>1. CASE text
    <3>1. <<say>> \in Seq(Texts) /\ Known(<<say>>) = {} /\ Once(<<say>>)
      BY <1>3, SaysOne, OnceOne
    <3> QED  BY <1>3, <2>1, <3>1
  <2>2. CASE ~text
    <3>1. << >> \in Seq(Texts) /\ Known(<< >>) = {} /\ Once(<< >>)
      BY NoneIn, SaysNothing, OnceNone
    <3> QED  BY <2>2, <3>1
  <2> QED  BY <2>1, <2>2
<1>6. PICK rest \in Seq(Texts) : rest = committed \o last
  <2>1. \A s, t \in Seq(Texts) : s \o t \in Seq(Texts)
    BY ConcatAt
  <2> QED  BY <1>2, <2>1
<1>7. messages' = messages \o rest
  <2>1. (messages \o committed) \o last = messages \o (committed \o last)
    BY <1>2, ConcatAssociative
  <2> QED  BY <1>1, <1>5, <1>6, <2>1
<1>8. Known(rest) = Known(committed)
  <2>1. Known(committed \o last) = Known(committed) \cup Known(last)
    BY <1>2, SaysJoined
  <2> QED  BY <1>5, <1>6, <2>1
<1>9. Once(committed) => Once(rest)
  BY <1>2, <1>5, <1>6, OnceJoined
<1>10. \E shown \in Seq(Shows) :
         /\ history' = history \o shown /\ (shown = << >> \/ shown = <<show>>)
         /\ ~text /\ committed = << >> => shown = << >>
  <2>1. <<show>> \in Seq(Shows) /\ << >> \in Seq(Shows) /\ history \o << >> = history
    BY <1>2
  <2>2. Append(history, show) = history \o <<show>>
    BY <1>2, AppendIsConcat
  <2> QED  BY <1>1, <1>4, <2>1, <2>2
<1>11. rest = << >> => ~text /\ committed = << >>
  <2>1. Len(rest) = Len(committed) + Len(last) /\ Len(committed) \in Nat /\ Len(last) \in Nat
    BY <1>2, <1>6, ConcatAt, SeqAt
  <2>2. text => Len(last) = 1
    BY <1>5
  <2>3. rest = << >> => Len(rest) = 0
    BY NoneIn
  <2>4. committed # << >> => Len(committed) # 0
    BY <1>2, SeqAt
  <2> QED  BY <2>1, <2>2, <2>3, <2>4
<1>12. ASSUME StepInv, rest # << >>  PROVE rest[Len(rest)].role # "user"
  <2>1. CASE text
    <3>1. last = <<say>>
      BY <1>3, <1>5, <2>1
    <3>2. rest = Append(committed, say)
      BY <1>2, <1>6, <3>1, AppendIsConcat
    <3>3. rest[Len(rest)] = say
      BY <1>2, <3>2, AppendAt
    <3>4. say.role = "assistant"
      BY <1>3 DEF Said
    <3> QED  BY <3>3, <3>4
  <2>2. CASE ~text
    <3>1. rest = committed
      BY <1>2, <1>5, <1>6, <2>2
    <3> QED  BY <1>12, <3>1 DEF StepInv
  <2> QED  BY <2>1, <2>2
<1> QED  BY <1>4, <1>7, <1>8, <1>9, <1>10, <1>11, <1>12

\* What a rollback takes back is a last message.
LEMMA EndForm ==
  ASSUME Typed, End
  PROVE  \/ /\ UNCHANGED <<messages, history, forgot>> /\ ~Orphaned
         \/ /\ Orphaned /\ messages # << >> /\ Last(messages) = userRef
            /\ messages' = Front(messages) /\ forgot' = forgot \cup (userRef.tells \ {<<turns, 0>>})
            /\ userRef.tells \subseteq Known(messages)
            /\ Range(history') \subseteq Range(history)
<1>1. messages \in Seq(Texts) /\ history \in Seq(Shows)
  BY DEF Typed, ListTypes
<1>2. CASE ~Orphaned
  BY <1>2 DEF End
<1>3. CASE Orphaned
  <2>1. /\ messages # << >> /\ Last(messages) = userRef
        /\ messages' = Front(messages) /\ forgot' = forgot \cup (userRef.tells \ {<<turns, 0>>})
        /\ history' = IF Last(history) = Shown("user") THEN Front(history) ELSE history
    BY <1>3 DEF End, Orphaned
  <2>2. userRef.tells \subseteq Known(messages)
    <3>1. Last(messages) = messages[Len(messages)] /\ Len(messages) \in 1..Len(messages)
      BY <1>1, <2>1, LastAt
    <3> QED  BY <1>1, <2>1, <3>1, KnownAt
  <2>3. Range(history') \subseteq Range(history)
    <3>1. CASE history' = history
      BY <3>1
    <3>2. CASE history' = Front(history) /\ history # << >>
      <4>1. \E n \in Nat : Front(history) = Upto(history, n)
        BY <1>1, <3>2, FrontIsPrefix
      <4>2. PICK n \in Nat : Front(history) = Upto(history, n)
        BY <4>1
      <4>3. Range(Upto(history, n)) \subseteq Range(history)
        BY <1>1, InTwo
      <4> QED  BY <3>2, <4>2, <4>3
    <3>3. CASE history' = Front(history) /\ history = << >>
      <4>1. Range(Front(<< >>)) = {}
        BY DEF Front, Range
      <4> QED  BY <3>3, <4>1
    <3> QED  BY <2>1, <3>1, <3>2, <3>3
  <2> QED  BY <1>3, <2>1, <2>2, <2>3
<1> QED  BY <1>2, <1>3

LEMMA FreshNowStep ==
  ASSUME Typed, LengthInv, FreshInv, [SessionNext]_vars
  PROVE  FreshNow'
<1>1. turns \in Nat /\ turns' \in Nat /\ turns <= turns'
  BY LaterStep
<1>2. /\ tree \subseteq Edits /\ Past(tree, turns) /\ Past(forgot, turns)
      /\ Past(Known(messages), turns) /\ Past(PromptsOf(history), turns)
      /\ Past(open, turns) /\ Past(Known(committed), turns)
  BY DEF FreshInv, FreshNow
<1>3. /\ messages \in Seq(Texts) /\ history \in Seq(Shows) /\ committed \in Seq(Texts)
      /\ tree \in SUBSET Facts /\ forgot \in SUBSET Facts /\ open \in SUBSET Facts
  BY DEF Typed, ListTypes, TurnTypes
<1>4. Typed'
  BY TypeStep
<1>5. Past({}, turns')
  BY DEF Past
<1>6. \A t : Past({<<turns', t>>}, turns')
  BY <1>1 DEF Past
<1>7. CASE turns' = turns /\ UNCHANGED <<messages, history, committed, open, tree, forgot>>
  BY <1>2, <1>7 DEF FreshNow
<1>8. CASE \E m \in {"execute", "plan"} : Begin(m)
  <2>1. /\ tree' = tree /\ forgot' = forgot /\ open' = {} /\ committed' = << >> /\ turns' = turns + 1
        /\ \E p \in Texts, q \in Shows :
             /\ messages' = Append(messages, p) /\ history' = Append(history, q)
             /\ p.tells = {<<turns', 0>>} /\ q.turn = turns'
    <3>1. PICK m \in {"execute", "plan"} : Begin(m)
      BY <1>8
    <3>2. PICK p : p = [role |-> "user", turn |-> turns + 1, tells |-> {<<turns + 1, 0>>}]
      OBVIOUS
    <3>3. PICK q : q = [role |-> "user", turn |-> turns + 1]
      OBVIOUS
    <3>4. turns' \in 1..MaxTurns /\ turns' = turns + 1
      BY <1>1, <3>1 DEF Begin
    <3>5. <<turns', 0>> \in Facts
      BY <3>4, FactsOfTurn
    <3>6. p \in Texts /\ q \in Shows
      BY <3>2, <3>3, <3>4, <3>5 DEF Texts, Shows
    <3>7. /\ messages' = Append(messages, p) /\ history' = Append(history, q)
          /\ tree' = tree /\ forgot' = forgot /\ open' = {} /\ committed' = << >>
      BY <3>1, <3>2, <3>3 DEF Begin, told
    <3> QED  BY <3>2, <3>3, <3>4, <3>6, <3>7
  <2>2. PICK p \in Texts, q \in Shows :
             /\ messages' = Append(messages, p) /\ history' = Append(history, q)
             /\ p.tells = {<<turns', 0>>} /\ q.turn = turns'
    BY <2>1
  <2>3. /\ Known(messages') = Known(messages) \cup {<<turns', 0>>}
        /\ PromptsOf(history') = PromptsOf(history) \cup {<<turns', 0>>}
    <3>1. Known(Append(messages, p)) = Known(messages) \cup p.tells
      BY <1>3, SaysAppended
    <3>2. PromptsOf(Append(history, q)) = PromptsOf(history) \cup {<<q.turn, 0>>}
      BY <1>3, SaysAppended
    <3> QED  BY <2>2, <3>1, <3>2
  <2>4. Known(messages) \in SUBSET Facts /\ PromptsOf(history) \in SUBSET Facts
    BY <1>3, SaysFacts
  <2>5. /\ Past(tree, turns') /\ Past(forgot, turns')
        /\ Past(Known(messages), turns') /\ Past(PromptsOf(history), turns')
    BY <1>1, <1>2, <1>3, <2>4, PastLater
  <2>6. Past(Known(messages'), turns') /\ Past(PromptsOf(history'), turns')
    <3>1. /\ Past(Known(messages) \cup {<<turns', 0>>}, turns')
          /\ Past(PromptsOf(history) \cup {<<turns', 0>>}, turns')
      BY <1>6, <2>5, PastUnion
    <3> QED  BY <2>3, <3>1
  <2> QED  BY <1>2, <1>5, <2>1, <2>5, <2>6, SaysNothing DEF FreshNow
<1>9. CASE EndsEarly \/ FitSkipped \/ Send \/ SetGoal \/ UNCHANGED vars
  BY <1>7, <1>9 DEF EndsEarly, FitSkipped, Send, SetGoal, vars, lists, running, told
<1>10. CASE Fit \/ CompactNow
  <2>1. /\ messages' = Compacted(messages) /\ Cut(messages) > 0
        /\ UNCHANGED <<turns, history, committed, open, tree, forgot>>
    BY <1>10 DEF Fit, CompactNow, Shrink, running
  <2>2. Known(messages') = Known(messages)
    BY <1>3, <2>1, CompactedSays
  <2> QED  BY <1>2, <2>1, <2>2 DEF FreshNow
<1>11. CASE Edit
  <2>1. PICK k \in Nat : k = Len(committed)
    BY <1>3, SeqAt
  <2>2. /\ open' = {<<turns, k \div 2 + 1>>} /\ tree' = tree \cup open' /\ turns' = turns
        /\ UNCHANGED <<messages, history, committed, forgot>>
    BY <1>11, <2>1 DEF Edit, lists, told
  <2>3. tree' \subseteq Edits
    <3>1. tree' \in SUBSET Facts
      BY <1>4 DEF Typed, TurnTypes
    <3>2. <<turns, k \div 2 + 1>>[2] # 0
      BY <2>1
    <3> QED  BY <1>2, <2>2, <3>1, <3>2 DEF Edits
  <2>4. Past(open', turns')
    BY <1>6, <2>2
  <2>5. Past(tree', turns')
    BY <1>2, <2>2, <2>4, PastUnion
  <2> QED  BY <1>2, <2>2, <2>3, <2>4, <2>5 DEF FreshNow
<1>12. CASE StepEnd
  <2>1. PICK c \in Texts, t \in Texts : c = Said("call", open) /\ t = Said("tool", open)
    BY <1>3, SaidTyped
  <2>2. /\ committed' = committed \o <<c, t>> /\ open' = {} /\ turns' = turns
        /\ UNCHANGED <<messages, history, tree, forgot>>
    BY <1>12, <2>1 DEF StepEnd, lists, told
  <2>3. Known(committed') = Known(committed) \cup open
    <3>1. <<c, t>> \in Seq(Texts) /\ Range(<<c, t>>) = {c, t}
      BY DEF Range
    <3>2. PICK two \in Seq(Texts) : two = <<c, t>> /\ Range(two) = {c, t}
      BY <3>1
    <3>3. c.tells = open /\ t.tells = open
      BY <2>1 DEF Said
    <3>4. \A f : f \in Known(two) <=> f \in open
      BY <3>2, <3>3, SaysOf
    <3>5. Known(committed \o two) = Known(committed) \cup Known(two)
      BY <1>3, SaysJoined
    <3> QED  BY <2>2, <3>2, <3>4, <3>5
  <2>4. Past(Known(committed'), turns)
    BY <1>2, <2>3, PastUnion
  <2> QED  BY <1>2, <1>5, <2>2, <2>4 DEF FreshNow
<1>13. CASE \E text \in BOOLEAN : Reply(text) \/ Break(text)
  <2>1. PICK text \in BOOLEAN : Reply(text) \/ Break(text)
    BY <1>13
  <2>2. /\ turns' = turns /\ UNCHANGED <<committed, open, tree>> /\ turns \in 1..MaxTurns
        /\ (forgot' = forgot \/ forgot' = forgot \cup open)
    BY <2>1 DEF Reply, Break, running, told, Typed, TurnTypes
  <2>3. PICK rest \in Seq(Texts), shown \in Seq(Shows) :
           /\ messages' = messages \o rest /\ Known(rest) = Known(committed)
           /\ history' = history \o shown /\ (shown = << >> \/ shown = <<Shown("assistant")>>)
    BY <2>1, StreamedForm
  <2>4. Known(messages \o rest) = Known(messages) \cup Known(rest)
    BY <1>3, SaysJoined
  <2>5. PromptsOf(history \o shown) = PromptsOf(history) \cup PromptsOf(shown)
    BY <1>3, SaysJoined
  <2>6. Past(PromptsOf(shown), turns)
    <3>1. PromptsOf(<<Shown("assistant")>>) = {<<turns', 0>>}
      BY <2>2, SaysOne DEF Shown
    <3> QED  BY <1>5, <1>6, <2>2, <2>3, <3>1, SaysNothing
  <2>7. Past(Known(messages'), turns) /\ Past(PromptsOf(history'), turns) /\ Past(forgot', turns)
    BY <1>2, <2>2, <2>3, <2>4, <2>5, <2>6 DEF Past
  <2> QED  BY <1>2, <2>2, <2>7 DEF FreshNow
<1>14. CASE End
  <2>1. turns' = turns /\ UNCHANGED <<committed, open, tree>>
    BY <1>14 DEF End, running
  <2>2. \/ UNCHANGED <<messages, history, forgot>>
        \/ /\ messages # << >> /\ messages' = Front(messages)
           /\ forgot' = forgot \cup (userRef.tells \ {<<turns, 0>>})
           /\ userRef.tells \subseteq Known(messages) /\ Range(history') \subseteq Range(history)
    BY <1>14, EndForm
  <2>3. CASE UNCHANGED <<messages, history, forgot>>
    BY <1>2, <2>1, <2>3 DEF FreshNow
  <2>4. CASE /\ messages # << >> /\ messages' = Front(messages)
             /\ forgot' = forgot \cup (userRef.tells \ {<<turns, 0>>})
             /\ userRef.tells \subseteq Known(messages) /\ Range(history') \subseteq Range(history)
    <3>1. Range(messages') \subseteq Range(messages)
      <4>1. \E n \in Nat : Front(messages) = Upto(messages, n)
        BY <1>3, <2>4, FrontIsPrefix
      <4>2. PICK n \in Nat : Front(messages) = Upto(messages, n)
        BY <4>1
      <4>3. Range(messages) = Range(Upto(messages, n)) \cup Range(SubSeq(messages, n + 1, Len(messages)))
        BY <1>3, InTwo
      <4> QED  BY <2>4, <4>2, <4>3
    <3>2. Known(messages') \subseteq Known(messages) /\ PromptsOf(history') \subseteq PromptsOf(history)
      <4>1. Known(messages') \subseteq Known(messages)
        BY <3>1, SaysPart
      <4>2. PromptsOf(history') \subseteq PromptsOf(history)
        BY <2>4, SaysPart
      <4> QED  BY <4>1, <4>2
    <3>3. Past(Known(messages'), turns) /\ Past(PromptsOf(history'), turns) /\ Past(forgot', turns)
      BY <1>2, <2>4, <3>2 DEF Past
    <3> QED  BY <1>2, <2>1, <3>3 DEF FreshNow
  <2> QED  BY <2>2, <2>3, <2>4
<1>15. CASE \E green \in BOOLEAN : Saved(green)
  <2>1. /\ turns' = turns /\ committed' = << >> /\ open' = {}
        /\ UNCHANGED <<messages, history, tree, forgot>>
    BY <1>15 DEF Saved, NoTurn, lists, told
  <2> QED  BY <1>2, <1>5, <2>1, SaysNothing DEF FreshNow
<1>16. CASE Clear
  <2>1. /\ turns' = turns /\ UNCHANGED <<committed, open, tree>>
        /\ messages' = << >> /\ history' = << >> /\ forgot' = forgot \cup Known(messages)
    BY <1>16 DEF Clear, Shrink, running
  <2>2. Past(forgot', turns)
    BY <1>2, <2>1, PastUnion
  <2> QED  BY <1>2, <1>5, <2>1, <2>2, SaysNothing DEF FreshNow
<1>17. CASE Undo \/ RestoreTo
  <2>1. PICK cp \in Range(checkpoints) : Rewind(cp)
    BY <1>17, RewindForm
  <2>2. turns' = turns /\ UNCHANGED <<committed, open, forgot>>
    BY <1>17 DEF Undo, RestoreTo, running
  <2>3. cp \in Reachable /\ cp \in Remembered
    BY <2>1, ReachTyped
  <2>4. PICK m \in Nat, n \in Nat : m = cp.mark.messages /\ n = cp.mark.history
    BY <2>3 DEF Remembered, Lengths
  <2>5. messages' = Upto(messages, m) /\ history' = Upto(history, n) /\ tree' = cp.tree
    BY <2>1, <2>4 DEF Rewind
  <2>6. /\ Known(messages) = Known(Upto(messages, m)) \cup Known(SubSeq(messages, m + 1, Len(messages)))
        /\ PromptsOf(history) = PromptsOf(Upto(history, n)) \cup PromptsOf(SubSeq(history, n + 1, Len(history)))
    <3>1. Known(messages) = Known(Upto(messages, m)) \cup Known(SubSeq(messages, m + 1, Len(messages)))
      BY <1>3, SaysInTwo
    <3>2. PromptsOf(history) = PromptsOf(Upto(history, n)) \cup PromptsOf(SubSeq(history, n + 1, Len(history)))
      BY <1>3, SaysInTwo
    <3> QED  BY <3>1, <3>2
  <2>7. Past(Known(messages'), turns) /\ Past(PromptsOf(history'), turns)
    BY <1>2, <2>5, <2>6 DEF Past
  <2>8. tree' \subseteq Edits /\ Past(tree', turns)
    <3>1. cp.tree \subseteq Edits /\ Past(cp.tree, Before)
      BY <2>3 DEF FreshInv, FreshMarks
    <3>2. Before \in Nat /\ Before <= turns /\ cp.tree \in SUBSET Facts
      BY <2>3, LaterStep DEF Remembered
    <3> QED  BY <1>1, <2>5, <3>1, <3>2, PastLater
  <2> QED  BY <1>2, <2>2, <2>7, <2>8 DEF FreshNow
<1>18. CASE Redo
  <2>1. turns' = turns /\ UNCHANGED <<committed, open>> /\ tree' = Last(redo).tree
    BY <1>18 DEF Redo, running
  <2>2. /\ Last(redo) \in RedoEntries /\ Len(redo) \in 1..Len(redo) /\ Last(redo) = redo[Len(redo)]
        /\ \/ /\ Last(redo).payload # << >> /\ Last(redo).payload[1] \in Tails
              /\ messages' = messages \o Last(redo).payload[1].messages
              /\ history' = history \o Last(redo).payload[1].history
              /\ forgot' = forgot \ Known(Last(redo).payload[1].messages)
           \/ UNCHANGED lists /\ forgot' = forgot \cup (tree' \ Known(messages))
    BY <1>18, RedoLists
  <2>3. /\ tree' \subseteq Edits /\ Past(tree', turns)
        /\ Last(redo).payload # << >> =>
             /\ Past(Known(Last(redo).payload[1].messages), turns)
             /\ Past(PromptsOf(Last(redo).payload[1].history), turns)
    BY <2>1, <2>2 DEF FreshInv, FreshLine
  <2>4. CASE /\ Last(redo).payload # << >> /\ Last(redo).payload[1] \in Tails
             /\ messages' = messages \o Last(redo).payload[1].messages
             /\ history' = history \o Last(redo).payload[1].history
             /\ forgot' = forgot \ Known(Last(redo).payload[1].messages)
    <3>1. PICK t \in Seq(Texts), h \in Seq(Shows) :
            t = Last(redo).payload[1].messages /\ h = Last(redo).payload[1].history
      BY <2>4 DEF Tails
    <3>2. Known(messages \o t) = Known(messages) \cup Known(t)
      BY <1>3, SaysJoined
    <3>3. PromptsOf(history \o h) = PromptsOf(history) \cup PromptsOf(h)
      BY <1>3, SaysJoined
    <3>4. Past(Known(messages'), turns) /\ Past(PromptsOf(history'), turns)
      BY <1>2, <2>3, <2>4, <3>1, <3>2, <3>3, PastUnion
    <3>5. Past(forgot', turns)
      BY <1>2, <2>4 DEF Past
    <3> QED  BY <1>2, <2>1, <2>3, <3>4, <3>5 DEF FreshNow
  <2>5. CASE UNCHANGED lists /\ forgot' = forgot \cup (tree' \ Known(messages))
    <3>1. Past(forgot', turns) /\ UNCHANGED <<messages, history>>
      BY <1>2, <2>3, <2>5 DEF Past, lists
    <3> QED  BY <1>2, <2>1, <2>3, <3>1 DEF FreshNow
  <2> QED  BY <2>2, <2>4, <2>5
<1>19. CASE Crash
  <2>1. /\ turns' = turns /\ tree' = tree /\ committed' = << >> /\ open' = {}
        /\ messages' = disk.messages /\ history' = disk.history
        /\ forgot' = disk.forgot \cup {f \in tree : f[1] > disk.turn}
    BY <1>19 DEF Crash, NoTurn
  <2>2. /\ Past(Known(disk.messages), turns) /\ Past(PromptsOf(disk.history), turns)
        /\ Past(disk.forgot, turns)
    BY DEF FreshInv, FreshDisk
  <2>3. Past(forgot', turns)
    BY <1>2, <2>1, <2>2 DEF Past
  <2> QED  BY <1>2, <1>5, <2>1, <2>2, <2>3, SaysNothing DEF FreshNow
<1> QED  BY <1>8, <1>9, <1>10, <1>11, <1>12, <1>13, <1>14, <1>15, <1>16, <1>17, <1>18, <1>19 DEF SessionNext

LEMMA FreshStep ==
  ASSUME Typed, LengthInv, ChainInv, FreshInv, [SessionNext]_vars
  PROVE  FreshInv'
BY FreshMarksStep, FreshDiskStep, FreshLineStep, FreshNowStep DEF FreshInv

-----------------------------------------------------------------------------
(* What stays as it was *)

LEMMA AgreesSame ==
  ASSUME NEW old, NEW cp, cp.tree = old.tree, NEW s, NEW h, NEW m, NEW n, Agrees(old, s, h, m, n)
  PROVE  Agrees(cp, s, h, m, n)
BY DEF Agrees

\* The prompts are those of the transcript.
LEMMA PromptsShown == Prompts = PromptsOf(history)
BY DEF Prompts, PromptsOf

\* A step of the redo line still brings back what it did, whatever else changes.
LEMMA BringsStill ==
  ASSUME NEW j \in 1..Len(redo), NEW tail, Brings(j, tail), NEW new,
         new.mark = tail.mark, new.messages = tail.messages, new.history = tail.history,
         redo'[j].tree = redo[j].tree,
         \A i \in 1..Len(redo') : i < j /\ redo'[i].payload # << >> =>
           /\ i \in 1..Len(redo) /\ redo[i].payload # << >>
           /\ redo'[i].payload[1].messages = redo[i].payload[1].messages
           /\ redo'[i].payload[1].history = redo[i].payload[1].history,
         \A cp \in Reachable' : cp.epoch = epoch' =>
           \E old \in Reachable : old.epoch = epoch /\ cp.mark = old.mark /\ cp.tree = old.tree,
         Known(tail.messages) \cap Known(messages') = {},
         PromptsOf(tail.history) \cap Prompts' = {},
         (PromptsOf(tail.history) \cup redo[j].tree) \ Known(tail.messages) \subseteq forgot' \cup TreeBelow(j)'
  PROVE  Brings(j, new)'
<1>1. /\ Once(tail.messages) /\ ShownOnce(tail.history)
      /\ Known(tail.messages) \subseteq PromptsOf(tail.history) \cup redo[j].tree
      /\ \A i \in 1..Len(redo) : i < j /\ redo[i].payload # << >> =>
           /\ Known(tail.messages) \cap Known(redo[i].payload[1].messages) = {}
           /\ PromptsOf(tail.history) \cap PromptsOf(redo[i].payload[1].history) = {}
      /\ \A cp \in Reachable : cp.epoch = epoch =>
           /\ Agrees(cp, tail.messages, tail.history, Beyond(cp.mark.messages, tail.mark.messages),
                     Beyond(cp.mark.history, tail.mark.history))
           /\ \A n \in Nat : cp.mark.history = tail.mark.history + n => Opens(tail.history, n)
  BY DEF Brings
<1>2. \A i \in 1..Len(redo') : i < j /\ redo'[i].payload # << >> =>
        /\ Known(tail.messages) \cap Known(redo'[i].payload[1].messages) = {}
        /\ PromptsOf(tail.history) \cap PromptsOf(redo'[i].payload[1].history) = {}
  BY <1>1
<1>3. ASSUME NEW cp \in Reachable', cp.epoch = epoch'
      PROVE  /\ Agrees(cp, tail.messages, tail.history, Beyond(cp.mark.messages, tail.mark.messages),
                       Beyond(cp.mark.history, tail.mark.history))
             /\ \A n \in Nat : cp.mark.history = tail.mark.history + n => Opens(tail.history, n)
  <2>1. PICK old \in Reachable : old.epoch = epoch /\ cp.mark = old.mark /\ cp.tree = old.tree
    BY <1>3
  <2> QED  BY <1>1, <2>1, AgreesSame
<1> QED  BY <1>1, <1>2, <1>3 DEF Brings

\* A line that keeps its steps, or all but the last, and loses no checkpoint it needs.
LEMMA LineStill ==
  ASSUME LineInv,
         \A j \in 1..Len(redo') :
           /\ j \in 1..Len(redo) /\ redo'[j].tree = redo[j].tree
           /\ redo'[j].payload # << >> =>
                /\ redo[j].payload # << >>
                /\ redo'[j].payload[1].mark = redo[j].payload[1].mark
                /\ redo'[j].payload[1].messages = redo[j].payload[1].messages
                /\ redo'[j].payload[1].history = redo[j].payload[1].history,
         \A cp \in Reachable' : cp.epoch = epoch' =>
           \E old \in Reachable : old.epoch = epoch /\ cp.mark = old.mark /\ cp.tree = old.tree,
         \A j \in 1..Len(redo') : redo'[j].payload # << >> =>
           LET tail == redo[j].payload[1] IN
             /\ Known(tail.messages) \cap Known(messages') = {}
             /\ PromptsOf(tail.history) \cap Prompts' = {}
             /\ (PromptsOf(tail.history) \cup redo[j].tree) \ Known(tail.messages) \subseteq forgot' \cup TreeBelow(j)'
  PROVE  LineInv'
<1> SUFFICES ASSUME NEW j \in 1..Len(redo'), redo'[j].payload # << >>
             PROVE  Brings(j, redo[j].payload[1])'
  BY DEF LineInv
<1>1. PICK tail : tail = redo[j].payload[1]
  OBVIOUS
<1>2. PICK new : new = redo'[j].payload[1]
  OBVIOUS
<1>3. j \in 1..Len(redo) /\ Brings(j, tail) /\ redo'[j].tree = redo[j].tree
  BY <1>1 DEF LineInv
<1>4. new.mark = tail.mark /\ new.messages = tail.messages /\ new.history = tail.history
  BY <1>1, <1>2
<1>5. /\ Known(tail.messages) \cap Known(messages') = {}
      /\ PromptsOf(tail.history) \cap Prompts' = {}
      /\ (PromptsOf(tail.history) \cup redo[j].tree) \ Known(tail.messages) \subseteq forgot' \cup TreeBelow(j)'
  BY <1>1
<1>6. Brings(j, new)'
  BY <1>3, <1>4, <1>5, BringsStill
<1> QED  BY <1>2, <1>6 DEF Brings

\* What a tail tells and shows by itself.
LEMMA TailSays ==
  ASSUME LineInv, NEW j \in 1..Len(redo), redo[j].payload # << >>
  PROVE  LET tail == redo[j].payload[1] IN
           /\ Known(tail.messages) \cap Known(messages) = {}
           /\ PromptsOf(tail.history) \cap Prompts = {}
           /\ (PromptsOf(tail.history) \cup redo[j].tree) \ Known(tail.messages) \subseteq forgot \cup TreeBelow(j)
BY DEF LineInv, Brings

\* Nothing but the turn changes.
LEMMA ListsSame ==
  ASSUME CutInv, LineInv, SavedInv,
         UNCHANGED <<messages, history, tree, checkpoints, redo, disk, epoch, rewinds, forgot>>,
         InTurn' => InTurn
  PROVE  CutInv' /\ LineInv' /\ SavedInv'
<1>1. Reachable' = Reachable /\ Prompts' = Prompts /\ \A j : TreeBelow(j)' = TreeBelow(j)
  BY DEF Reachable, Prompts, TreeBelow
<1>2. CutInv'
  BY <1>1 DEF CutInv
<1>3. LineInv'
  <2>1. \A j \in 1..Len(redo) : redo[j].payload # << >> =>
           LET tail == redo[j].payload[1] IN
             /\ Known(tail.messages) \cap Known(messages) = {}
             /\ PromptsOf(tail.history) \cap Prompts = {}
             /\ (PromptsOf(tail.history) \cup redo[j].tree) \ Known(tail.messages) \subseteq forgot \cup TreeBelow(j)
    BY TailSays
  <2> QED  BY <1>1, <2>1, LineStill
<1>4. SavedInv'
  BY DEF SavedInv
<1> QED  BY <1>2, <1>3, <1>4

LEMMA NoLine ==
  ASSUME redo' = << >>
  PROVE  LineInv'
BY NoneIn DEF LineInv

\* What is saved between turns is what a crash may bring back.
LEMMA SavedNow ==
  ASSUME Typed', ToldInv', CutInv', FreshInv', ~InTurn', ~Waiting',
         disk'.messages = messages', disk'.history = history', disk'.forgot = forgot',
         disk'.turn = turns', disk'.epoch = epoch'
  PROVE  SavedInv'
<1>1. tree' = {f \in tree' : f[1] <= turns'}
  BY DEF FreshInv, FreshNow, Past
<1>2. Prompts' = PromptsOf(history')
  BY DEF Prompts, PromptsOf
<1>3. /\ Once(messages') /\ ShownOnce(history')
      /\ Known(messages') = (PromptsOf(history') \cup {f \in tree' : f[1] <= turns'}) \ forgot'
  BY <1>1, <1>2 DEF ToldInv
<1>4. \A cp \in Range(checkpoints') : cp.epoch = epoch' =>
        /\ Agrees(cp, messages', history', cp.mark.messages, cp.mark.history)
        /\ Opens(history', cp.mark.history)
  BY DEF CutInv, Reachable
<1>5. Len(history') \in Nat
  BY SeqAt DEF Typed, ListTypes
<1> QED  BY <1>3, <1>4, <1>5 DEF SavedInv

\* Between turns nothing is asked of the turn.
LEMMA NoTurnNow ==
  ASSUME ~InTurn'
  PROVE  TurnInv' /\ ~Waiting'
BY DEF TurnInv, NothingYet, PromptTold, StepsTold, PromptShown, InTurn, Waiting

-----------------------------------------------------------------------------
(* One step after another *)

LEMMA SaysQuiet ==
  ASSUME Sound, Says, EndsEarly \/ FitSkipped \/ Send \/ UNCHANGED vars
  PROVE  Says'
<1>1. /\ UNCHANGED <<messages, history, tree, checkpoints, redo, disk, epoch, rewinds, forgot>>
      /\ UNCHANGED <<mode, userRef, committed, open, turns>>
  BY DEF EndsEarly, FitSkipped, Send, vars, lists, running, undoing, storing, told
<1>2. /\ InTurn' => InTurn
      /\ Waiting' => Waiting
      /\ Waiting /\ ~Waiting' => stage \in {"prompted", "prepared"}
      /\ stage' \in {"prompted", "prepared"} => stage \in {"prompted", "prepared"}
      /\ stage' = "ending" => Waiting \/ stage = "ending"
  BY DEF EndsEarly, FitSkipped, Send, vars, InTurn, Waiting
<1>3. CutInv' /\ LineInv' /\ SavedInv'
  BY <1>1, <1>2, ListsSame DEF Says
<1>4. Prompts' = Prompts
  BY <1>1 DEF Prompts
<1>5. ToldInv'
  <2>1. CASE Waiting' \/ ~Waiting
    BY <1>1, <1>2, <1>4, <2>1 DEF Says, ToldInv
  <2>2. CASE Waiting /\ ~Waiting'
    <3>1. committed = << >> /\ open = {}
      BY <1>2, <2>2 DEF Says, TurnInv, NothingYet
    <3>2. Known(messages) = (Prompts \cup tree) \ forgot
      BY <2>2, <3>1, SaysNothing DEF Says, ToldInv
    <3> QED  BY <1>1, <1>4, <2>2, <3>2 DEF Says, ToldInv
  <2> QED  BY <2>1, <2>2
<1>6. TurnInv'
  <2>1. TurnInv
    BY DEF Says
  <2>2. NothingYet'
    BY <1>1, <1>2, <2>1 DEF TurnInv, NothingYet
  <2>3. PromptTold'
    BY <1>1, <1>2, <2>1 DEF TurnInv, PromptTold
  <2>4. StepsTold'
    BY <1>1, <1>2, <2>1 DEF TurnInv, StepsTold
  <2>5. PromptShown'
    BY <1>1, <1>2, <2>1 DEF TurnInv, PromptShown, Shown
  <2> QED  BY <2>2, <2>3, <2>4, <2>5 DEF TurnInv
<1> QED  BY <1>3, <1>5, <1>6 DEF Says

\* The edit of a step is none that the model was told of before.
LEMMA NewEdit ==
  ASSUME Sound, Says, stage = "streaming", NEW k \in Nat, k = Len(committed)
  PROVE  /\ <<turns, k \div 2 + 1>> \notin Known(committed)
         /\ <<turns, k \div 2 + 1>> \notin forgot
         /\ <<turns, k \div 2 + 1>> \in tree => <<turns, k \div 2 + 1>> \in open
<1> DEFINE e == <<turns, k \div 2 + 1>>
<1>1. e[1] = turns /\ e[2] = k \div 2 + 1
  OBVIOUS
<1>2. turns \in Nat /\ ~(e[1] <= turns - 1) /\ ~(2 * e[2] <= k)
  BY <1>1 DEF Sound, Typed, TurnTypes
<1>3. /\ \A f \in Known(committed) : 2 * f[2] <= k
      /\ Past(forgot, turns - 1) /\ Past(tree \ (Known(committed) \cup open), turns - 1)
  BY DEF Says, TurnInv, StepsTold, Waiting
<1> HIDE DEF e
<1>4. e \notin Known(committed) /\ e \notin forgot /\ (e \in tree => e \in open)
  BY <1>2, <1>3 DEF Past
<1> QED  BY <1>4 DEF e

LEMMA SaysEdit ==
  ASSUME Sound, Sound', Says, Edit
  PROVE  Says'
<1>1. PICK k \in Nat : k = Len(committed)
  BY SeqAt DEF Sound, Typed, TurnTypes
<1>2. PICK e : e = <<turns, k \div 2 + 1>>
  OBVIOUS
<1>3. /\ stage = "streaming" /\ mode = "execute" /\ open = {} /\ open' = {e} /\ tree' = tree \cup {e}
      /\ UNCHANGED <<messages, history, stage, mode, userRef, committed, checkpoints, redo, disk,
                     epoch, rewinds, forgot, turns>>
  BY <1>1, <1>2 DEF Edit, lists, undoing, storing, told
<1>4. e \notin Known(committed) /\ e \notin forgot /\ e \notin tree
  BY <1>1, <1>2, <1>3, NewEdit
<1>5. InTurn /\ InTurn' /\ Waiting /\ Waiting' /\ Reachable' = Reachable /\ Prompts' = Prompts
  BY <1>3 DEF InTurn, Waiting, Reachable, Prompts
<1>6. TurnInv'
  <2>1. TurnInv
    BY DEF Says
  <2>2. Past(tree' \ (Known(committed) \cup open'), turns - 1)
    BY <1>3, <1>5, <2>1 DEF TurnInv, StepsTold, Past
  <2>3. open' \subseteq tree' \cap {<<turns, Len(committed) \div 2 + 1>>}
    BY <1>1, <1>2, <1>3
  <2>4. NothingYet'
    BY <1>3 DEF NothingYet
  <2>5. PromptTold'
    BY <1>3, <1>5, <2>1 DEF TurnInv, PromptTold
  <2>6. StepsTold'
    BY <1>3, <1>5, <2>1, <2>2, <2>3 DEF TurnInv, StepsTold
  <2>7. PromptShown'
    BY <1>3, <1>5, <2>1 DEF TurnInv, PromptShown, Shown
  <2> QED  BY <2>4, <2>5, <2>6, <2>7 DEF TurnInv
<1>7. ToldInv'
  <2>1. tree' \ open' = tree \ open
    BY <1>3, <1>4
  <2> QED  BY <1>3, <1>5, <2>1 DEF Says, ToldInv
<1>8. CutInv'
  BY <1>3, <1>5 DEF Says, CutInv
<1>9. LineInv'
  <2>1. redo' = << >>
    BY <1>3, <1>5 DEF Sound, ChainInv
  <2> QED  BY <2>1, NoLine
<1>10. SavedInv'
  <2>1. disk.turn \in Nat /\ disk.turn <= turns - 1 /\ turns \in Nat
    BY <1>5 DEF Sound, FreshInv, FreshDisk, Before, Typed, TurnTypes, StoreTypes, Generations
  <2>2. ~(e[1] <= disk.turn)
    BY <1>2, <2>1
  <2>3. {f \in tree' : f[1] <= disk.turn} = {f \in tree : f[1] <= disk.turn}
    BY <1>3, <2>2
  <2> QED  BY <1>3, <1>5, <2>3 DEF Says, SavedInv
<1> QED  BY <1>6, <1>7, <1>8, <1>9, <1>10 DEF Says

LEMMA SaysStepEnd ==
  ASSUME Sound, Sound', Says, StepEnd
  PROVE  Says'
<1>1. PICK k \in Nat : k = Len(committed)
  BY SeqAt DEF Sound, Typed, TurnTypes
<1>2. PICK e : e = <<turns, k \div 2 + 1>>
  OBVIOUS
<1>3. /\ stage = "streaming" /\ open # {} /\ open' = {}
      /\ committed' = committed \o <<Said("call", open), Said("tool", open)>>
      /\ UNCHANGED <<messages, history, stage, mode, userRef, tree, checkpoints, redo, disk,
                     epoch, rewinds, forgot, turns>>
  BY DEF StepEnd, lists, undoing, storing, told
<1>4. InTurn /\ InTurn' /\ Waiting /\ Waiting' /\ Prompts' = Prompts
  BY <1>3 DEF InTurn, Waiting, Prompts
<1>5. TurnInv /\ ToldInv
  BY DEF Says
<1>6. open = {e} /\ e \in tree
  BY <1>1, <1>2, <1>3, <1>4, <1>5 DEF TurnInv, StepsTold
<1>7. e \notin Known(committed) /\ e \notin forgot
  BY <1>1, <1>2, <1>3, NewEdit
<1>8. PICK two \in Seq(Texts) :
        /\ two = <<Said("call", open), Said("tool", open)>> /\ Len(two) = 2 /\ Known(two) = open /\ Once(two)
  <2>1. PICK c \in Texts, t \in Texts : c = Said("call", open) /\ t = Said("tool", open)
    BY SaidTyped DEF Sound, Typed, TurnTypes
  <2>2. c.tells = open /\ t.tells = open /\ c.role = "call"
    BY <2>1 DEF Said
  <2>3. /\ <<c, t>> \in Seq(Texts) /\ Len(<<c, t>>) = 2 /\ <<c, t>>[1] = c /\ <<c, t>>[2] = t
    BY TwoIn
  <2>4. PICK two : two = <<c, t>>
    OBVIOUS
  <2>5. /\ two \in Seq(Texts) /\ Len(two) = 2 /\ two[1] = c /\ two[2] = t
    BY <2>3, <2>4
  <2>6. \A f : f \in Known(two) <=> \E i \in 1..2 : f \in two[i].tells
    BY <2>5, KnownAt
  <2>7. Known(two) = open
    <3>1. \A i \in 1..2 : two[i].tells = open
      BY <2>2, <2>5
    <3>2. \A f : f \in Known(two) <=> f \in open
      BY <2>6, <3>1
    <3> QED  BY <3>2
  <2>8. Once(two)
    BY <2>2, <2>5 DEF Once
  <2> QED  BY <2>1, <2>4, <2>5, <2>7, <2>8
<1>9. committed \in Seq(Texts) /\ committed' = committed \o two
  BY <1>3, <1>8 DEF Sound, Typed, TurnTypes
<1>10. Known(committed') = Known(committed) \cup open
  <2>1. Known(committed \o two) = Known(committed) \cup Known(two)
    BY <1>9, SaysJoined
  <2> QED  BY <1>8, <1>9, <2>1
<1>11. Once(committed') /\ Len(committed') = k + 2
  <2>1. Known(committed) \cap Known(two) = {} /\ Once(committed)
    BY <1>4, <1>5, <1>6, <1>7, <1>8 DEF TurnInv, StepsTold
  <2>2. Once(committed \o two)
    BY <1>8, <1>9, <2>1, OnceJoined
  <2>3. Len(committed \o two) = Len(committed) + Len(two)
    BY <1>9, ConcatAt
  <2> QED  BY <1>1, <1>8, <1>9, <2>2, <2>3
<1>12. TurnInv'
  <2>1. mode # "plan"
    BY <1>3, <1>4, <1>5 DEF TurnInv, NothingYet
  <2>2. ASSUME NEW f \in Known(committed')  PROVE f \in Edits /\ f[1] = turns /\ 2 * f[2] <= k + 2
    <3>1. CASE f \in Known(committed)
      <4>1. f \in Edits /\ f[1] = turns /\ 2 * f[2] <= k
        BY <1>1, <1>4, <1>5, <3>1 DEF TurnInv, StepsTold
      <4>2. f[2] \in Nat
        BY <4>1 DEF Edits, Facts
      <4> QED  BY <4>1, <4>2
    <3>2. CASE f = e
      <4>1. e \in Edits
        BY <1>6 DEF Sound, FreshInv, FreshNow
      <4>2. e[1] = turns /\ e[2] = k \div 2 + 1
        BY <1>2
      <4>3. 2 * e[2] <= k + 2
        BY <4>2
      <4> QED  BY <3>2, <4>1, <4>2, <4>3
    <3> QED  BY <1>6, <1>10, <2>2, <3>1, <3>2
  <2>3. Past(tree \ (Known(committed') \cup {}), turns - 1)
    BY <1>4, <1>5, <1>10 DEF TurnInv, StepsTold, Past
  <2>4. NothingYet'
    BY <1>3, <2>1 DEF NothingYet
  <2>5. PromptTold'
    BY <1>3, <1>4, <1>5 DEF TurnInv, PromptTold
  <2>6. StepsTold'
    BY <1>3, <1>4, <1>5, <1>11, <2>2, <2>3 DEF TurnInv, StepsTold
  <2>7. PromptShown'
    BY <1>3, <1>4, <1>5 DEF TurnInv, PromptShown, Shown
  <2> QED  BY <2>4, <2>5, <2>6, <2>7 DEF TurnInv
<1>13. ToldInv'
  BY <1>3, <1>4, <1>5, <1>6, <1>7, <1>10 DEF ToldInv
<1>14. CutInv' /\ LineInv' /\ SavedInv'
  BY <1>3, <1>4, ListsSame DEF Says
<1> QED  BY <1>12, <1>13, <1>14 DEF Says

LEMMA SaysSetGoal ==
  ASSUME Sound, Sound', Says, SetGoal
  PROVE  Says'
<1>1. /\ disk' = Snapshot
      /\ UNCHANGED <<messages, history, tree, checkpoints, redo, epoch, rewinds, forgot>>
      /\ UNCHANGED <<stage, mode, userRef, committed, open, turns>>
  BY DEF SetGoal, lists, running, undoing, told
<1>2. /\ InTurn' = InTurn /\ Waiting' = Waiting /\ Prompts' = Prompts
      /\ Reachable' = Reachable /\ \A j : TreeBelow(j)' = TreeBelow(j)
  BY <1>1 DEF InTurn, Waiting, Prompts, Reachable, TreeBelow
<1>3. TurnInv'
  <2>1. TurnInv
    BY DEF Says
  <2>2. NothingYet'
    BY <1>1, <1>2, <2>1 DEF TurnInv, NothingYet
  <2>3. PromptTold'
    BY <1>1, <1>2, <2>1 DEF TurnInv, PromptTold
  <2>4. StepsTold'
    BY <1>1, <1>2, <2>1 DEF TurnInv, StepsTold
  <2>5. PromptShown'
    BY <1>1, <1>2, <2>1 DEF TurnInv, PromptShown, Shown
  <2> QED  BY <2>2, <2>3, <2>4, <2>5 DEF TurnInv
<1>4. ToldInv' /\ CutInv'
  BY <1>1, <1>2 DEF Says, ToldInv, CutInv
<1>5. LineInv'
  <2>1. \A j \in 1..Len(redo) : redo[j].payload # << >> =>
           LET tail == redo[j].payload[1] IN
             /\ Known(tail.messages) \cap Known(messages) = {}
             /\ PromptsOf(tail.history) \cap Prompts = {}
             /\ (PromptsOf(tail.history) \cup redo[j].tree) \ Known(tail.messages) \subseteq forgot \cup TreeBelow(j)
    BY TailSays DEF Says
  <2> QED  BY <1>1, <1>2, <2>1, LineStill DEF Says
<1>6. SavedInv'
  <2>1. CASE InTurn
    <3>1. ~disk'.whole
      BY <1>1, <2>1 DEF Snapshot
    <3> QED  BY <3>1 DEF SavedInv
  <2>2. CASE ~InTurn
    <3>1. /\ disk'.messages = messages' /\ disk'.history = history' /\ disk'.forgot = forgot'
          /\ disk'.turn = turns' /\ disk'.epoch = epoch'
      BY <1>1, <2>2 DEF Snapshot
    <3> QED  BY <1>2, <1>4, <2>2, <3>1, NoTurnNow, SavedNow DEF Sound
  <2> QED  BY <2>1, <2>2
<1> QED  BY <1>3, <1>4, <1>5, <1>6 DEF Says

LEMMA SaysSaved ==
  ASSUME Sound, Sound', Says, NEW green \in BOOLEAN, Saved(green)
  PROVE  Says'
<1>1. /\ stage = "saving" /\ stage' = "idle" /\ disk' = Snapshot
      /\ UNCHANGED <<messages, history, tree, epoch, forgot, turns>>
      /\ redo' = << >> \/ UNCHANGED <<checkpoints, redo>>
  BY DEF Saved, lists, undoing, told
<1>2. ~InTurn /\ ~InTurn' /\ ~Waiting /\ Prompts' = Prompts
  BY <1>1 DEF InTurn, Waiting, Prompts
<1>3. TurnInv' /\ ~Waiting'
  BY <1>2, NoTurnNow
<1>4. ToldInv'
  BY <1>1, <1>2, <1>3 DEF Says, ToldInv
<1>5. CutInv'
  <2>1. ASSUME NEW cp \in Reachable', cp.epoch = epoch
        PROVE  /\ Agrees(cp, messages, history, cp.mark.messages, cp.mark.history)
               /\ Opens(history, cp.mark.history)
    <3>1. CASE cp = Checkpoint(TRUE)
      <4>1. cp.tree = tree /\ cp.mark.messages = Len(messages) /\ cp.mark.history = Len(history)
        BY <3>1 DEF Checkpoint, Mark
      <4>2. messages \in Seq(Texts) /\ history \in Seq(Shows)
        BY DEF Sound, Typed, ListTypes
      <4>3. Known(messages) \subseteq PromptsOf(history) \cup tree
        BY <1>2, PromptsShown DEF Says, ToldInv
      <4>4. PICK m \in Nat, n \in Nat : m = Len(messages) /\ n = Len(history)
        BY <4>2, SeqAt
      <4>5. Agrees(cp, messages, history, m, n)
        BY <4>1, <4>2, <4>3, <4>4, AgreesAtEnd
      <4>6. Opens(history, n)
        BY <4>4 DEF Opens
      <4> QED  BY <4>1, <4>4, <4>5, <4>6
    <3>2. CASE cp \in Reachable
      BY <2>1, <3>2 DEF Says, CutInv
    <3> QED  BY <3>1, <3>2, ReachSaved DEF Sound
  <2> QED  BY <1>1, <1>2, <2>1 DEF CutInv
<1>6. LineInv'
  <2>1. CASE UNCHANGED <<checkpoints, redo>>
    <3>1. Reachable' = Reachable /\ \A j : TreeBelow(j)' = TreeBelow(j)
      BY <1>1, <2>1 DEF Reachable, TreeBelow
    <3>2. \A j \in 1..Len(redo) : redo[j].payload # << >> =>
           LET tail == redo[j].payload[1] IN
             /\ Known(tail.messages) \cap Known(messages) = {}
             /\ PromptsOf(tail.history) \cap Prompts = {}
             /\ (PromptsOf(tail.history) \cup redo[j].tree) \ Known(tail.messages) \subseteq forgot \cup TreeBelow(j)
      BY TailSays DEF Says
    <3> QED  BY <1>1, <1>2, <2>1, <3>1, <3>2, LineStill DEF Says
  <2> QED  BY <1>1, <2>1, NoLine
<1>7. SavedInv'
  <2>1. /\ disk'.messages = messages' /\ disk'.history = history' /\ disk'.forgot = forgot'
        /\ disk'.turn = turns' /\ disk'.epoch = epoch'
    BY <1>1, <1>2 DEF Snapshot
  <2> QED  BY <1>2, <1>3, <1>4, <1>5, <2>1, SavedNow DEF Sound
<1> QED  BY <1>3, <1>4, <1>5, <1>6, <1>7 DEF Says

\* A new epoch leaves no checkpoint that must agree with the lists.
LEMMA SaysNewEpoch ==
  ASSUME Sound, Says, epochs < MaxShrinks, epoch' = epochs + 1,
         UNCHANGED <<checkpoints, disk, tree, rewinds>>, Reachable' \subseteq Reachable
  PROVE  /\ CutInv' /\ SavedInv'
         /\ \A cp \in Reachable' : cp.epoch # epoch'
<1>1. disk.epoch # epoch' /\ \A cp \in Reachable : cp.epoch # epoch'
  BY FreshEpoch DEF Sound
<1>2. CutInv'
  BY <1>1 DEF CutInv
<1>3. SavedInv'
  BY <1>1 DEF Says, SavedInv
<1> QED  BY <1>1, <1>2, <1>3

LEMMA SaysShrink ==
  ASSUME Sound, Sound', Says, Fit \/ CompactNow
  PROVE  Says'
<1>1. /\ messages' = Compacted(messages) /\ Cut(messages) > 0
      /\ epochs < MaxShrinks /\ epoch' = epochs + 1
      /\ UNCHANGED <<history, tree, checkpoints, redo, disk, rewinds, forgot, mode, committed, open, turns>>
  BY DEF Fit, CompactNow, Shrink, running, undoing, storing
<1>2. Reachable' = Reachable /\ Prompts' = Prompts /\ \A j : TreeBelow(j)' = TreeBelow(j)
  BY <1>1 DEF Reachable, Prompts, TreeBelow
<1>3. messages \in Seq(Texts) /\ Linked(messages) /\ Once(messages)
  BY DEF Sound, Typed, ListTypes, ListInv, Says, ToldInv
<1>4. Known(messages') = Known(messages) /\ Once(messages') /\ Last(messages).tells \subseteq Last(messages').tells
  BY <1>1, <1>3, CompactedSays
<1>5. \/ /\ stage = "prompted" /\ stage' = "prepared"
         /\ userRef' = IF Last(messages').role = "user" THEN Last(messages') ELSE userRef
      \/ stage = "idle" /\ UNCHANGED <<stage, userRef>>
  BY DEF Fit, CompactNow, running
<1>6. Waiting' = Waiting /\ InTurn' = InTurn
  BY <1>5 DEF Waiting, InTurn
<1>7. ToldInv'
  BY <1>1, <1>2, <1>4, <1>6 DEF Says, ToldInv
<1>8. CutInv' /\ SavedInv' /\ \A cp \in Reachable' : cp.epoch # epoch'
  BY <1>1, <1>2, SaysNewEpoch
<1>9. LineInv'
  <2>1. \A j \in 1..Len(redo) : redo[j].payload # << >> =>
         LET tail == redo[j].payload[1] IN
           /\ Known(tail.messages) \cap Known(messages) = {}
           /\ PromptsOf(tail.history) \cap Prompts = {}
           /\ (PromptsOf(tail.history) \cup redo[j].tree) \ Known(tail.messages) \subseteq forgot \cup TreeBelow(j)
    BY TailSays DEF Says
  <2> QED  BY <1>1, <1>2, <1>4, <1>8, <2>1, LineStill DEF Says
<1>10. TurnInv'
  <2>1. CASE stage = "idle" /\ stage' = "idle"
    BY <2>1, NoTurnNow DEF InTurn
  <2>2. CASE /\ stage = "prompted" /\ stage' = "prepared"
             /\ userRef' = IF Last(messages').role = "user" THEN Last(messages') ELSE userRef
    <3>1. TurnInv
      BY DEF Says
    <3>2. Last(messages) = userRef /\ <<turns, 0>> \in userRef.tells
      BY <2>2, <3>1 DEF TurnInv, PromptTold, InTurn, Sound, ListInv
    <3>3. <<turns, 0>> \in userRef'.tells
      BY <1>4, <2>2, <3>2
    <3>4. NothingYet'
      BY <1>1, <2>2, <3>1 DEF TurnInv, NothingYet
    <3>5. PromptTold'
      BY <1>1, <3>3 DEF PromptTold
    <3>6. StepsTold'
      BY <1>1, <1>4, <1>6, <3>1 DEF TurnInv, StepsTold
    <3>7. PromptShown'
      BY <1>1, <1>6, <2>2, <3>1 DEF TurnInv, PromptShown, Shown, Waiting
    <3> QED  BY <3>4, <3>5, <3>6, <3>7 DEF TurnInv
  <2> QED  BY <1>5, <2>1, <2>2
<1> QED  BY <1>7, <1>8, <1>9, <1>10 DEF Says

LEMMA SaysClear ==
  ASSUME Sound, Sound', Says, Clear
  PROVE  Says'
<1>1. /\ messages' = << >> /\ history' = << >> /\ forgot' = forgot \cup Known(messages)
      /\ epochs < MaxShrinks /\ epoch' = epochs + 1 /\ stage = "idle" /\ stage' = "idle"
      /\ redo' = [i \in DOMAIN redo |-> [redo[i] EXCEPT !.payload = << >>]]
      /\ UNCHANGED <<tree, checkpoints, disk, rewinds>>
  BY DEF Clear, Shrink, storing
<1>2. ~InTurn' /\ ~Waiting
  BY <1>1 DEF InTurn, Waiting
<1>3. TurnInv' /\ ~Waiting'
  BY <1>2, NoTurnNow
<1>4. ToldInv'
  <2>1. Known(messages) = (Prompts \cup tree) \ forgot
    BY <1>2 DEF Says, ToldInv
  <2>2. Prompts' = {} /\ Known(messages') = {} /\ Once(messages') /\ ShownOnce(history')
    BY <1>1, SaysNothing, OnceNone DEF Prompts, PromptsOf
  <2> QED  BY <1>1, <1>3, <2>1, <2>2 DEF ToldInv
<1>5. Reachable' \subseteq Reachable
  BY ReachKept DEF Sound
<1>6. CutInv' /\ SavedInv'
  BY <1>1, <1>5, SaysNewEpoch
<1>7. LineInv'
  <2>1. Len(redo') = Len(redo) /\ \A i \in 1..Len(redo) : redo'[i].payload = << >>
    BY <1>1, ClearedLine DEF Sound, Typed, UndoTypes
  <2> QED  BY <2>1 DEF LineInv
<1> QED  BY <1>3, <1>4, <1>6, <1>7 DEF Says

LEMMA SaysCrash ==
  ASSUME Sound, Sound', Says, Crash, intact'
  PROVE  Says'
<1>1. /\ messages' = disk.messages /\ history' = disk.history /\ stage' = "idle" /\ redo' = << >>
      /\ disk.whole /\ disk.rewinds = rewinds /\ epoch' = disk.epoch
      /\ forgot' = disk.forgot \cup {f \in tree : f[1] > disk.turn}
      /\ UNCHANGED <<checkpoints, disk, rewinds, tree>>
  BY DEF Crash
<1>2. /\ Once(disk.messages) /\ ShownOnce(disk.history)
      /\ Known(disk.messages) =
           (PromptsOf(disk.history) \cup {f \in tree : f[1] <= disk.turn}) \ disk.forgot
      /\ \A cp \in Range(checkpoints) : cp.epoch = disk.epoch =>
           /\ Agrees(cp, disk.messages, disk.history, cp.mark.messages, cp.mark.history)
           /\ Opens(disk.history, cp.mark.history)
  BY <1>1 DEF Says, SavedInv
<1>3. ~InTurn'
  BY <1>1 DEF InTurn
<1>4. TurnInv' /\ ~Waiting'
  BY <1>3, NoTurnNow
<1>5. ToldInv'
  <2>1. \A f \in tree : f[1] <= disk.turn <=> ~(f[1] > disk.turn)
    <3>1. disk.turn \in Nat /\ tree \subseteq Facts
      BY DEF Sound, Typed, TurnTypes, StoreTypes, Generations
    <3> QED  BY <3>1 DEF Facts
  <2>2. PromptsOf(disk.history) \cap tree = {}
    BY PromptsAreNoEdits DEF Sound, FreshInv, FreshNow
  <2>3. Prompts' = PromptsOf(disk.history)
    BY <1>1 DEF Prompts, PromptsOf
  <2>4. Known(messages') = (Prompts' \cup tree') \ forgot'
    BY <1>1, <1>2, <2>1, <2>2, <2>3
  <2> QED  BY <1>1, <1>2, <1>4, <2>4 DEF ToldInv
<1>6. CutInv'
  <2>1. Reachable' = Range(checkpoints)
    BY <1>1, NoneIn DEF Reachable
  <2> QED  BY <1>1, <1>2, <1>3, <2>1 DEF CutInv
<1>7. LineInv'
  BY <1>1, NoLine
<1>8. SavedInv'
  <2>1. Len(disk.history) \in Nat
    BY SeqAt DEF Sound, Typed, StoreTypes, Generations
  <2> QED  BY <1>1, <1>2, <1>3, <2>1 DEF SavedInv
<1> QED  BY <1>4, <1>5, <1>6, <1>7, <1>8 DEF Says

\* Cut shorter, but beyond a checkpoint, the lists still agree with it.
LEMMA UptoWithin ==
  ASSUME NEW S, NEW s \in Seq(S), NEW m \in Nat, NEW k \in Nat, m <= k
  PROVE  Known(Upto(s, m)) \subseteq Known(Upto(s, k)) /\ PromptsOf(Upto(s, m)) \subseteq PromptsOf(Upto(s, k))
<1>1. \A e : e \in Range(Upto(s, m)) <=> \E i \in 1..Len(s) : i <= m /\ e = s[i]
  BY InPrefix
<1>2. \A e : e \in Range(Upto(s, k)) <=> \E i \in 1..Len(s) : i <= k /\ e = s[i]
  BY InPrefix
<1>3. Len(s) \in Nat
  BY SeqAt
<1>4. \A i \in 1..Len(s) : i <= m => i <= k
  BY <1>3
<1>5. Range(Upto(s, m)) \subseteq Range(Upto(s, k))
  BY <1>1, <1>2, <1>4
<1> QED  BY <1>5, SaysPart

LEMMA AgreesFront ==
  ASSUME NEW s \in Seq(Texts), NEW h \in Seq(Shows), NEW k \in Nat, NEW l \in Nat,
         NEW cp, NEW m \in Nat, NEW n \in Nat, m <= k, n <= l, Agrees(cp, s, h, m, n)
  PROVE  Agrees(cp, Upto(s, k), Upto(h, l), m, n)
<1>1. Known(Upto(Upto(s, k), m)) = Known(Upto(s, m)) \cap Known(Upto(s, k))
  BY SaysTwice
<1>2. PromptsOf(Upto(Upto(h, l), n)) = PromptsOf(Upto(h, n)) \cap PromptsOf(Upto(h, l))
  BY SaysTwice
<1>3. Known(Upto(s, m)) \subseteq Known(Upto(s, k))
  BY UptoWithin
<1>4. PromptsOf(Upto(h, n)) \subseteq PromptsOf(Upto(h, l))
  BY UptoWithin
<1>5. Known(s) = Known(Upto(s, k)) \cup Known(SubSeq(s, k + 1, Len(s)))
  BY SaysInTwo
<1> QED  BY <1>1, <1>2, <1>3, <1>4, <1>5 DEF Agrees

\* The marks of a checkpoint are numbers.
LEMMA MarksOf ==
  ASSUME Sound, NEW cp \in Reachable
  PROVE  \E m, n \in Nat : m = cp.mark.messages /\ n = cp.mark.history
<1>1. cp \in Remembered
  BY ReachTyped DEF Sound
<1> QED  BY <1>1 DEF Remembered, Lengths

LEMMA SaysEnd ==
  ASSUME Sound, Sound', Says, End
  PROVE  Says'
<1>1. /\ stage = "ending" /\ stage' = "saving"
      /\ UNCHANGED <<tree, checkpoints, redo, disk, epoch, rewinds, turns>>
  BY DEF End, undoing, storing
<1>2. InTurn /\ ~InTurn' /\ ~Waiting /\ Reachable' = Reachable /\ \A j : TreeBelow(j)' = TreeBelow(j)
  BY <1>1 DEF InTurn, Waiting, Reachable, TreeBelow
<1>3. TurnInv' /\ ~Waiting'
  BY <1>2, NoTurnNow
<1>4. CASE UNCHANGED <<messages, history, forgot>>
  <2>1. CutInv' /\ LineInv' /\ SavedInv'
    BY <1>1, <1>2, <1>4, ListsSame DEF Says
  <2>2. Prompts' = Prompts
    BY <1>4 DEF Prompts
  <2>3. ToldInv'
    BY <1>1, <1>2, <1>3, <1>4, <2>2 DEF Says, ToldInv
  <2> QED  BY <1>3, <2>1, <2>3 DEF Says
<1>5. CASE /\ messages # << >> /\ Last(messages) = userRef
           /\ messages' = Front(messages) /\ forgot' = forgot \cup (userRef.tells \ {<<turns, 0>>})
  <2>1. messages \in Seq(Texts) /\ history \in Seq(Shows) /\ Linked(messages) /\ userRef.role = "user"
    BY <1>1 DEF Sound, Typed, ListTypes, ListInv
  <2>2. TurnInv /\ ToldInv
    BY DEF Says
  <2>3. history # << >> /\ Last(history) = Shown("user") /\ <<turns, 0>> \in userRef.tells
    BY <1>1, <1>2, <1>5, <2>2 DEF TurnInv, PromptShown, PromptTold
  <2>4. history' = Front(history)
    BY <1>5, <2>3 DEF End, Orphaned
  <2>5. PICK k \in Nat : /\ k + 1 = Len(messages) /\ messages' = Upto(messages, k)
                         /\ Range(SubSeq(messages, k + 1, Len(messages))) = {userRef}
                         /\ messages[k + 1] = userRef
    BY <1>5, <2>1, FrontIsPrefix
  <2>6. PICK l \in Nat : /\ l + 1 = Len(history) /\ history' = Upto(history, l)
                         /\ Range(SubSeq(history, l + 1, Len(history))) = {Shown("user")}
                         /\ history[l + 1] = Shown("user")
    BY <2>1, <2>3, <2>4, FrontIsPrefix
  <2>7. Known(messages') = Known(messages) \ userRef.tells
    <3>1. Known(messages) = Known(Upto(messages, k)) \cup Known(SubSeq(messages, k + 1, Len(messages)))
      BY <2>1, SaysInTwo
    <3>2. Known(SubSeq(messages, k + 1, Len(messages))) = userRef.tells
      <4>1. \A f : f \in Known(SubSeq(messages, k + 1, Len(messages))) <=> f \in userRef.tells
        BY <2>5, SaysOf
      <4> QED  BY <4>1
    <3>3. Known(Upto(messages, k)) \cap Known(SubSeq(messages, k + 1, Len(messages))) = {}
      <4>1. k < Len(messages) => messages[k + 1].role # "tool"
        BY <2>1, <2>5
      <4> QED  BY <2>1, <2>2, <4>1, ToldApart DEF ToldInv
    <3> QED  BY <2>5, <3>1, <3>2, <3>3
  <2>8. Prompts' = Prompts \ {<<turns, 0>>}
    <3>1. PromptsOf(history) = PromptsOf(Upto(history, l)) \cup PromptsOf(SubSeq(history, l + 1, Len(history)))
      BY <2>1, SaysInTwo
    <3>2. PromptsOf(SubSeq(history, l + 1, Len(history))) = {<<turns, 0>>}
      <4>1. \A f : f \in PromptsOf(SubSeq(history, l + 1, Len(history))) <=> f = <<turns, 0>>
        BY <2>6, SaysOf DEF Shown
      <4> QED  BY <4>1
    <3>3. PromptsOf(Upto(history, l)) \cap PromptsOf(SubSeq(history, l + 1, Len(history))) = {}
      <4>1. Opens(history, l)
        BY <2>6 DEF Opens, Shown
      <4> QED  BY <2>1, <2>2, <4>1, ShownApart DEF ToldInv
    <3>4. Prompts' = PromptsOf(Upto(history, l)) /\ Prompts = PromptsOf(history)
      BY <2>6 DEF Prompts, PromptsOf
    <3> QED  BY <3>1, <3>2, <3>3, <3>4
  <2>9. ToldInv'
    <3>1. <<turns, 0>> \notin tree
      BY DEF Sound, FreshInv, FreshNow, Edits
    <3>2. Known(messages) = (Prompts \cup tree) \ forgot
      BY <1>2, <2>2 DEF ToldInv
    <3>3. Known(messages') = (Prompts' \cup tree) \ forgot'
      BY <1>5, <2>3, <2>7, <2>8, <3>1, <3>2
    <3>4. Once(messages') /\ ShownOnce(history')
      <4>1. Once(messages) => Once(Upto(messages, k))
        BY <2>1, OnceInTwo
      <4>2. ShownOnce(history) => ShownOnce(Upto(history, l))
        BY <2>1, OnceInTwo
      <4> QED  BY <2>2, <2>5, <2>6, <4>1, <4>2 DEF ToldInv
    <3> QED  BY <1>1, <1>3, <3>3, <3>4 DEF ToldInv
  <2>10. CutInv'
    <3>1. ASSUME NEW cp \in Reachable, cp.epoch = epoch
          PROVE  /\ Agrees(cp, messages', history', cp.mark.messages, cp.mark.history)
                 /\ Opens(history', cp.mark.history)
      <4>1. PICK m \in Nat, n \in Nat : m = cp.mark.messages /\ n = cp.mark.history
        BY MarksOf
      <4>2. Agrees(cp, messages, history, m, n) /\ Opens(history, n) /\ m < Len(messages) /\ n < Len(history)
        BY <1>2, <3>1, <4>1 DEF Says, CutInv
      <4>3. m <= k /\ n <= l
        BY <2>5, <2>6, <4>2
      <4>4. Agrees(cp, Upto(messages, k), Upto(history, l), m, n)
        BY <2>1, <4>2, <4>3, AgreesFront
      <4>5. Opens(Upto(history, l), n)
        BY <2>1, <4>2, OpensPrefix
      <4> QED  BY <2>5, <2>6, <4>1, <4>4, <4>5
    <3> QED  BY <1>1, <1>2, <3>1 DEF CutInv
  <2>11. LineInv'
    <3>1. \A j \in 1..Len(redo) : redo[j].payload # << >> =>
           LET tail == redo[j].payload[1] IN
             /\ Known(tail.messages) \cap Known(messages) = {}
             /\ PromptsOf(tail.history) \cap Prompts = {}
             /\ (PromptsOf(tail.history) \cup redo[j].tree) \ Known(tail.messages) \subseteq forgot \cup TreeBelow(j)
      BY TailSays DEF Says
    <3>2. Known(messages') \subseteq Known(messages) /\ Prompts' \subseteq Prompts /\ forgot \subseteq forgot'
      BY <1>5, <2>7, <2>8
    <3>3. \A j \in 1..Len(redo) : redo[j].payload # << >> =>
           LET tail == redo[j].payload[1] IN
             /\ Known(tail.messages) \cap Known(messages') = {}
             /\ PromptsOf(tail.history) \cap Prompts' = {}
             /\ (PromptsOf(tail.history) \cup redo[j].tree) \ Known(tail.messages) \subseteq forgot' \cup TreeBelow(j)
      BY <3>1, <3>2
    <3> QED  BY <1>1, <1>2, <3>3, LineStill DEF Says
  <2>12. SavedInv'
    <3>1. Len(history') = l
      BY <2>1, <2>6, PrefixAt
    <3>2. Len(disk.history) \in Nat
      BY SeqAt DEF Sound, Typed, StoreTypes, Generations
    <3>3. Len(disk.history) < Len(history) => Len(disk.history) <= Len(history')
      BY <2>6, <3>1, <3>2
    <3> QED  BY <1>1, <1>2, <3>3 DEF Says, SavedInv
  <2> QED  BY <1>3, <2>9, <2>10, <2>11, <2>12 DEF Says
<1> QED  BY <1>4, <1>5, EndForm DEF Sound

\* The reply is shown with the prompt it answers.
LEMMA ShownReply ==
  ASSUME NEW h \in Seq(Shows), NEW u \in Seq(Shows), ShownOnce(h), turns \in 1..MaxTurns,
         h # << >>, Last(h) = Shown("user"), u = << >> \/ u = <<Shown("assistant")>>
  PROVE  ShownOnce(h \o u) /\ PromptsOf(h \o u) = PromptsOf(h)
<1>1. Len(h) \in Nat \ {0} /\ h[Len(h)] = Shown("user") /\ Len(h) \in 1..Len(h)
  BY LastAt, SeqAt
<1>2. CASE u = << >>
  <2>1. h \o << >> = h
    OBVIOUS
  <2> QED  BY <1>2, <2>1
<1>3. CASE u = <<Shown("assistant")>>
  <2>1. PICK a \in Shows : a = Shown("assistant") /\ a.turn = turns /\ a.role = "assistant"
    <3>1. Shown("assistant") \in Shows
      BY DEF Shown, Shows
    <3>2. Shown("assistant").turn = turns /\ Shown("assistant").role = "assistant"
      BY DEF Shown
    <3> QED  BY <3>1, <3>2
  <2>2. PICK v \in Seq(Shows) : v = Append(h, a)
    BY AppendAt
  <2>3. /\ Len(v) = Len(h) + 1 /\ v[Len(h) + 1] = a
        /\ \A i \in 1..Len(h) : v[i] = h[i]
    BY <2>2, AppendAt
  <2>4. h \o u = v
    BY <1>3, <2>1, <2>2, AppendIsConcat
  <2>5. PromptsOf(v) = PromptsOf(h) \cup {<<turns, 0>>}
    BY <2>1, <2>2, SaysAppended
  <2>6. <<turns, 0>> \in PromptsOf(h)
    <3>1. h[Len(h)] \in Range(h) /\ h[Len(h)].turn = turns
      BY <1>1, InRange DEF Shown
    <3> QED  BY <3>1, SaysOf
  <2>7. ASSUME NEW i \in 1..Len(v), NEW j \in 1..Len(v), i < j, v[i].turn = v[j].turn
        PROVE  j = i + 1 /\ v[j].role = "assistant"
    <3>1. CASE j <= Len(h)
      <4>1. i \in 1..Len(h) /\ j \in 1..Len(h)
        BY <1>1, <2>7, <3>1
      <4> QED  BY <2>3, <2>7, <4>1 DEF ShownOnce
    <3>2. CASE j > Len(h)
      <4>1. j = Len(h) + 1 /\ i \in 1..Len(h)
        BY <1>1, <2>3, <2>7, <3>2
      <4>2. h[i].turn = h[Len(h)].turn /\ h[Len(h)].role = "user"
        BY <1>1, <2>1, <2>3, <2>7, <4>1 DEF Shown
      <4>3. ~(i < Len(h))
        BY <1>1, <4>1, <4>2 DEF ShownOnce
      <4> QED  BY <1>1, <2>1, <2>3, <4>1, <4>3
    <3> QED  BY <1>1, <2>3, <3>1, <3>2
  <2>8. ShownOnce(v)
    BY <2>7 DEF ShownOnce
  <2> QED  BY <2>4, <2>5, <2>6, <2>8
<1> QED  BY <1>2, <1>3

LEMMA SaysStreamed ==
  ASSUME Sound, Sound', Says, NEW text \in BOOLEAN, Reply(text) \/ Break(text)
  PROVE  Says'
<1>1. /\ stage = "streaming" /\ stage' = "ending" /\ forgot' = forgot \cup open
      /\ UNCHANGED <<mode, userRef, committed, open, tree, checkpoints, redo, disk, epoch, rewinds, turns>>
  <2>1. CASE Reply(text)
    BY <2>1 DEF Reply, undoing, storing, told
  <2>2. CASE Break(text)
    BY <2>2 DEF Break, running, undoing, storing
  <2> QED  BY <2>1, <2>2
<1>2. /\ InTurn /\ InTurn' /\ Waiting /\ ~Waiting' /\ Reachable' = Reachable
      /\ \A j : TreeBelow(j)' = TreeBelow(j)
  BY <1>1 DEF InTurn, Waiting, Reachable, TreeBelow
<1>3. /\ messages \in Seq(Texts) /\ history \in Seq(Shows) /\ turns \in 1..MaxTurns
      /\ userRef.role = "user" /\ StepInv
  BY <1>1 DEF Sound, Typed, ListTypes, TurnTypes, ListInv
<1>4. TurnInv /\ ToldInv
  BY DEF Says
<1>5. history # << >> /\ Last(history) = Shown("user") /\ ShownOnce(history) /\ Once(committed) /\ Once(messages)
  BY <1>2, <1>4 DEF TurnInv, PromptShown, StepsTold, ToldInv
<1>6. PICK rest \in Seq(Texts), shown \in Seq(Shows) :
           /\ messages' = messages \o rest /\ Known(rest) = Known(committed)
           /\ Once(committed) => Once(rest)
           /\ history' = history \o shown /\ (shown = << >> \/ shown = <<Shown("assistant")>>)
           /\ rest = << >> => shown = << >>
           /\ StepInv /\ rest # << >> => rest[Len(rest)].role # "user"
  BY StreamedForm DEF Sound
<1>7. Known(messages') = Known(messages) \cup Known(committed)
  <2>1. Known(messages \o rest) = Known(messages) \cup Known(rest)
    BY <1>3, SaysJoined
  <2> QED  BY <1>6, <2>1
<1>8. ShownOnce(history') /\ Prompts' = Prompts
  <2>1. ShownOnce(history \o shown) /\ PromptsOf(history \o shown) = PromptsOf(history)
    BY <1>3, <1>5, <1>6, ShownReply
  <2>2. Prompts' = PromptsOf(history') /\ Prompts = PromptsOf(history)
    BY DEF Prompts, PromptsOf
  <2> QED  BY <1>6, <2>1, <2>2
<1>9. \A f \in Known(committed) : f \in Edits /\ f[1] = turns /\ f[2] # 0 /\ ~(f[1] <= turns - 1)
  BY <1>2, <1>3, <1>4 DEF TurnInv, StepsTold, Edits
<1>10. Once(messages')
  <2>1. Known(messages) \cap Known(committed) = {}
    <3> SUFFICES ASSUME NEW f \in Known(committed), f \in Known(messages)  PROVE FALSE
      OBVIOUS
    <3>1. f # <<turns, 0>>
      BY <1>9
    <3>2. f[1] <= turns - 1
      BY <1>2, <1>4, <3>1 DEF TurnInv, StepsTold, Past
    <3> QED  BY <1>9, <3>2
  <2>2. Once(messages \o rest)
    BY <1>3, <1>5, <1>6, <2>1, OnceJoined
  <2> QED  BY <1>6, <2>2
<1>11. ToldInv'
  <2>1. Known(messages) \cup Known(committed) = (Prompts \cup (tree \ open)) \ forgot
    BY <1>2, <1>4 DEF ToldInv
  <2>2. Prompts \cap open = {}
    <3>1. open \subseteq Edits
      BY <1>2, <1>4 DEF TurnInv, StepsTold, Sound, FreshInv, FreshNow
    <3> QED  BY <3>1, PromptsAreNoEdits, PromptsShown
  <2>3. Known(messages') = (Prompts' \cup tree') \ forgot'
    BY <1>1, <1>7, <1>8, <2>1, <2>2
  <2> QED  BY <1>2, <1>8, <1>10, <2>3 DEF ToldInv
<1>12. TurnInv'
  <2>1. NothingYet'
    BY <1>1, <1>2, <1>4 DEF TurnInv, NothingYet
  <2>2. PromptTold'
    BY <1>1, <1>2, <1>4 DEF TurnInv, PromptTold
  <2>3. StepsTold'
    BY <1>2 DEF StepsTold
  <2>4. PromptShown'
    <3> SUFFICES ASSUME Last(messages') = userRef
                 PROVE  history' # << >> /\ Last(history') = Shown("user")
      BY <1>1, <1>2 DEF PromptShown, Shown
    <3>1. rest = << >>
      <4> SUFFICES ASSUME rest # << >>  PROVE FALSE
        OBVIOUS
      <4>1. /\ Len(messages \o rest) = Len(messages) + Len(rest) /\ messages \o rest \in Seq(Texts)
            /\ \A i \in 1..Len(rest) : (messages \o rest)[Len(messages) + i] = rest[i]
        BY <1>3, ConcatAt
      <4>2. Len(rest) \in 1..Len(rest) /\ Len(messages) \in Nat
        BY <1>3, SeqAt
      <4>3. Last(messages') = rest[Len(rest)]
        BY <1>6, <4>1, <4>2 DEF Last
      <4> QED  BY <1>3, <1>6, <4>3
    <3>2. history \o << >> = history
      BY <1>3
    <3> QED  BY <1>5, <1>6, <3>1, <3>2
  <2> QED  BY <2>1, <2>2, <2>3, <2>4 DEF TurnInv
<1>13. CutInv'
  <2>1. ASSUME NEW cp \in Reachable, cp.epoch = epoch
        PROVE  /\ Agrees(cp, messages', history', cp.mark.messages, cp.mark.history)
               /\ Opens(history', cp.mark.history)
               /\ cp.mark.messages < Len(messages') /\ cp.mark.history < Len(history')
    <3>1. PICK m \in Nat, n \in Nat : m = cp.mark.messages /\ n = cp.mark.history
      BY MarksOf
    <3>2. Agrees(cp, messages, history, m, n) /\ Opens(history, n) /\ m < Len(messages) /\ n < Len(history)
      BY <1>2, <2>1, <3>1 DEF Says, CutInv
    <3>3. Len(messages) \in Nat /\ Len(rest) \in Nat /\ Len(history) \in Nat /\ Len(shown) \in Nat
      BY <1>3, SeqAt
    <3>4. m <= Len(messages) /\ n <= Len(history)
      BY <3>2, <3>3
    <3>5. (PromptsOf(history) \cup cp.tree) \cap Known(rest) = {}
      <4>1. Known(rest) \cap PromptsOf(history) = {}
        BY <1>6, <1>9, PromptsAreNoEdits
      <4>2. Past(cp.tree, turns - 1)
        BY <1>2 DEF Sound, FreshInv, FreshMarks, Before
      <4>3. Known(rest) \cap cp.tree = {}
        BY <1>6, <1>9, <4>2 DEF Past
      <4> QED  BY <4>1, <4>3
    <3>6. Agrees(cp, messages \o rest, history \o shown, m, n)
      BY <1>3, <3>2, <3>4, <3>5, AgreesGrown
    <3>7. Opens(history \o shown, n)
      <4>1. \A k \in Nat : n = Len(history) + k => Opens(shown, k)
        BY <3>2, <3>3
      <4> QED  BY <1>3, <3>2, <4>1, OpensConcat
    <3>8. Len(messages \o rest) = Len(messages) + Len(rest)
      BY <1>3, ConcatAt
    <3>9. Len(history \o shown) = Len(history) + Len(shown)
      BY <1>3, ConcatAt
    <3>10. m < Len(messages') /\ n < Len(history')
      BY <1>6, <3>2, <3>3, <3>8, <3>9
    <3> QED  BY <1>6, <3>1, <3>6, <3>7, <3>10
  <2> QED  BY <1>1, <1>2, <2>1 DEF CutInv
<1>14. LineInv'
  <2>1. CASE mode = "execute"
    <3>1. redo' = << >>
      BY <1>1, <1>2, <2>1 DEF Sound, ChainInv
    <3> QED  BY <3>1, NoLine
  <2>2. CASE mode = "plan"
    <3>1. committed = << >> /\ open = {}
      BY <1>2, <1>4, <2>2 DEF TurnInv, NothingYet
    <3>2. Known(messages') = Known(messages) /\ forgot' = forgot
      BY <1>1, <1>7, <3>1, SaysNothing
    <3>3. \A j \in 1..Len(redo) : redo[j].payload # << >> =>
           LET tail == redo[j].payload[1] IN
             /\ Known(tail.messages) \cap Known(messages) = {}
             /\ PromptsOf(tail.history) \cap Prompts = {}
             /\ (PromptsOf(tail.history) \cup redo[j].tree) \ Known(tail.messages) \subseteq forgot \cup TreeBelow(j)
      BY TailSays DEF Says
    <3> QED  BY <1>1, <1>2, <1>8, <3>2, <3>3, LineStill DEF Says
  <2>3. mode \in {"execute", "plan"}
    BY DEF Sound, Typed, TurnTypes
  <2> QED  BY <2>1, <2>2, <2>3
<1>15. SavedInv'
  <2>1. Len(history') = Len(history) + Len(shown) /\ Len(history) \in Nat /\ Len(shown) \in Nat
    BY <1>3, <1>6, ConcatAt, SeqAt
  <2>2. Len(disk.history) \in Nat
    BY SeqAt DEF Sound, Typed, StoreTypes, Generations
  <2>3. /\ Len(disk.history) <= Len(history) => Len(disk.history) <= Len(history')
        /\ Len(disk.history) < Len(history) => Len(disk.history) < Len(history')
    BY <2>1, <2>2
  <2> QED  BY <1>1, <1>2, <2>3 DEF Says, SavedInv
<1> QED  BY <1>11, <1>12, <1>13, <1>14, <1>15 DEF Says

LEMMA SaysBegin ==
  ASSUME Sound, Sound', Says, NEW m \in {"execute", "plan"}, Begin(m)
  PROVE  Says'
<1> DEFINE p == <<turns + 1, 0>>
           P == [role |-> "user", turn |-> turns + 1, tells |-> {p}]
           Q == [role |-> "user", turn |-> turns + 1]
<1>1. /\ stage = "idle" /\ stage' = "prompted" /\ turns' = turns + 1 /\ mode' = m
      /\ committed' = << >> /\ open' = {} /\ userRef' = P
      /\ messages' = Append(messages, P) /\ history' = Append(history, Q)
      /\ UNCHANGED <<tree, disk, epoch, rewinds, forgot>>
      /\ \/ m = "execute" /\ redo' = << >>
         \/ redo' = [i \in DOMAIN redo |-> [redo[i] EXCEPT !.reAdd = Overtaken(@)]]
  BY DEF Begin, storing, told
<1>2. /\ ~InTurn /\ InTurn' /\ ~Waiting /\ Waiting'
      /\ turns \in Nat /\ turns + 1 \in 1..MaxTurns
  <2>1. turns' \in 1..MaxTurns
    BY <1>1 DEF Sound, Typed, TurnTypes
  <2> QED  BY <1>1, <2>1 DEF InTurn, Waiting, Sound, Typed, TurnTypes
<1>3. P \in Texts /\ Q \in Shows /\ P.tells = {p} /\ Q.turn = turns + 1 /\ Q.role = "user"
  <2>1. p \in Facts
    BY <1>2, FactsOfTurn
  <2> QED  BY <1>2, <2>1 DEF Texts, Shows
<1>4. messages \in Seq(Texts) /\ history \in Seq(Shows) /\ tree \in SUBSET Facts
  BY DEF Sound, Typed, ListTypes, TurnTypes
<1>5. ~(p[1] <= turns) /\ p[2] = 0
  BY <1>2
<1>6. /\ tree \subseteq Edits /\ Past(tree, turns) /\ Past(forgot, turns)
      /\ Past(Known(messages), turns) /\ Past(PromptsOf(history), turns)
  BY DEF Sound, FreshInv, FreshNow
<1> HIDE DEF p, P, Q
<1>7. p \notin tree /\ p \notin forgot /\ p \notin Known(messages) /\ p \notin PromptsOf(history)
  BY <1>5, <1>6 DEF Past
<1>8. PICK t \in Seq(Texts) : t = <<P>> /\ Known(t) = {p} /\ Once(t) /\ Len(t) = 1
  BY <1>3, OneIn, SaysOne, OnceOne
<1>9. PICK u \in Seq(Shows) : u = <<Q>> /\ PromptsOf(u) = {p} /\ ShownOnce(u) /\ Len(u) = 1 /\ u[1] = Q
  <2>1. <<Q>> \in Seq(Shows) /\ Len(<<Q>>) = 1 /\ <<Q>>[1] = Q
    BY <1>3, OneIn
  <2>2. PromptsOf(<<Q>>) = {p} /\ ShownOnce(<<Q>>)
    BY <1>3, SaysOne, OnceOne DEF p
  <2> QED  BY <2>1, <2>2
<1>10. messages' = messages \o t /\ history' = history \o u
  <2>1. Append(messages, P) = messages \o <<P>>
    BY <1>3, <1>4, AppendIsConcat
  <2>2. Append(history, Q) = history \o <<Q>>
    BY <1>3, <1>4, AppendIsConcat
  <2> QED  BY <1>1, <1>8, <1>9, <2>1, <2>2
<1>11. Known(messages') = Known(messages) \cup {p} /\ Prompts' = Prompts \cup {p} /\ Prompts = PromptsOf(history)
  <2>1. Known(messages \o t) = Known(messages) \cup Known(t)
    BY <1>4, SaysJoined
  <2>2. PromptsOf(history \o u) = PromptsOf(history) \cup PromptsOf(u)
    BY <1>4, SaysJoined
  <2>3. Prompts' = PromptsOf(history') /\ Prompts = PromptsOf(history)
    BY DEF Prompts, PromptsOf
  <2> QED  BY <1>8, <1>9, <1>10, <2>1, <2>2, <2>3
<1>12. ToldInv'
  <2>1. Known(messages) = (Prompts \cup tree) \ forgot /\ Once(messages) /\ ShownOnce(history)
    BY <1>2 DEF Says, ToldInv
  <2>2. Once(messages \o t)
    BY <1>4, <1>7, <1>8, <2>1, OnceJoined
  <2>3. ShownOnce(history \o u)
    BY <1>4, <1>7, <1>9, <2>1, ShownOnceJoined
  <2>4. Known(messages') \cup Known(committed') = (Prompts' \cup (tree' \ open')) \ forgot'
    BY <1>1, <1>7, <1>11, <2>1, SaysNothing
  <2> QED  BY <1>2, <1>10, <2>2, <2>3, <2>4 DEF ToldInv
<1>13. TurnInv'
  <2>1. NothingYet'
    BY <1>1 DEF NothingYet
  <2>2. PromptTold'
    BY <1>1, <1>3 DEF PromptTold, p
  <2>3. StepsTold'
    <3>1. turns' - 1 = turns /\ <<turns', 0>> = p
      BY <1>1, <1>2 DEF p
    <3>2. Known(committed') = {} /\ Once(committed')
      BY <1>1, SaysNothing, OnceNone
    <3>3. Past(Known(messages') \ {p}, turns) /\ Past(tree' \ (Known(committed') \cup open'), turns) /\ Past(forgot', turns)
      BY <1>1, <1>6, <1>11 DEF Past
    <3> QED  BY <1>1, <3>1, <3>2, <3>3 DEF StepsTold
  <2>4. PromptShown'
    <3>1. history' # << >> /\ Last(history') = Q
      BY <1>1, <1>3, <1>4, AppendAt DEF Last
    <3>2. Q = Shown("user")'
      BY <1>1 DEF Shown, Q
    <3> QED  BY <3>1, <3>2 DEF PromptShown
  <2> QED  BY <2>1, <2>2, <2>3, <2>4 DEF TurnInv
<1>14. epoch # NoEpoch /\ disk.epoch # NoEpoch
  BY LiveEpoch DEF Sound
<1>15. /\ Len(messages) \in Nat /\ Len(history) \in Nat
       /\ Len(messages') = Len(messages) + 1 /\ Len(history') = Len(history) + 1
  <2>1. Len(messages) \in Nat /\ Len(history) \in Nat
    BY <1>4, SeqAt
  <2>2. Len(messages \o t) = Len(messages) + Len(t)
    BY <1>4, ConcatAt
  <2>3. Len(history \o u) = Len(history) + Len(u)
    BY <1>4, ConcatAt
  <2> QED  BY <1>8, <1>9, <1>10, <2>1, <2>2, <2>3
<1>16. CutInv'
  <2>1. ASSUME NEW cp \in Reachable', cp.epoch = epoch
        PROVE  \E k, n \in Nat :
                 /\ k = cp.mark.messages /\ n = cp.mark.history
                 /\ k <= Len(messages) /\ n <= Len(history) /\ Past(cp.tree, turns)
                 /\ Agrees(cp, messages, history, k, n) /\ Opens(history, n)
    <3>1. CASE cp = Checkpoint(FALSE)
      <4>1. cp.tree = tree /\ cp.mark.messages = Len(messages) /\ cp.mark.history = Len(history)
        BY <3>1 DEF Checkpoint, Mark
      <4>2. Known(messages) \subseteq PromptsOf(history) \cup cp.tree
        BY <1>2, <1>11, <4>1 DEF Says, ToldInv
      <4>3. PICK k \in Nat, n \in Nat : k = Len(messages) /\ n = Len(history)
        BY <1>15
      <4>4. Agrees(cp, messages, history, k, n)
        BY <1>4, <4>2, <4>3, AgreesAtEnd
      <4>5. Opens(history, n)
        BY <4>3 DEF Opens
      <4> QED  BY <1>6, <4>1, <4>3, <4>4, <4>5
    <3>2. CASE \E old \in Reachable :
                 /\ cp.mark = old.mark /\ cp.tree = old.tree /\ cp.epoch = old.epoch
                 /\ ~(old.mark.messages > Len(messages)) /\ ~(old.mark.history > Len(history))
      <4>1. PICK old \in Reachable :
                 /\ cp.mark = old.mark /\ cp.tree = old.tree /\ cp.epoch = old.epoch
                 /\ ~(old.mark.messages > Len(messages)) /\ ~(old.mark.history > Len(history))
        BY <3>2
      <4>2. PICK k \in Nat, n \in Nat : k = old.mark.messages /\ n = old.mark.history
        BY MarksOf
      <4>3. Agrees(old, messages, history, k, n) /\ Opens(history, n)
        BY <2>1, <4>1, <4>2 DEF Says, CutInv
      <4>4. Agrees(cp, messages, history, k, n)
        BY <4>1, <4>3, AgreesSame
      <4>5. k <= Len(messages) /\ n <= Len(history)
        BY <1>15, <4>1, <4>2
      <4>6. Past(cp.tree, turns)
        BY <1>2, <4>1 DEF Sound, FreshInv, FreshMarks, Before
      <4> QED  BY <4>1, <4>2, <4>3, <4>4, <4>5, <4>6
    <3> QED  BY <1>14, <2>1, <3>1, <3>2, ReachBegin DEF Sound
  <2>2. ASSUME NEW cp \in Reachable', cp.epoch = epoch
        PROVE  /\ Agrees(cp, messages', history', cp.mark.messages, cp.mark.history)
               /\ Opens(history', cp.mark.history)
               /\ cp.mark.messages < Len(messages') /\ cp.mark.history < Len(history')
    <3>1. PICK k \in Nat, n \in Nat :
                 /\ k = cp.mark.messages /\ n = cp.mark.history
                 /\ k <= Len(messages) /\ n <= Len(history) /\ Past(cp.tree, turns)
                 /\ Agrees(cp, messages, history, k, n) /\ Opens(history, n)
      BY <2>1, <2>2
    <3>2. (PromptsOf(history) \cup cp.tree) \cap Known(t) = {}
      BY <1>5, <1>7, <1>8, <3>1 DEF Past
    <3>3. Agrees(cp, messages \o t, history \o u, k, n)
      BY <1>4, <3>1, <3>2, AgreesGrown
    <3>4. Opens(history \o u, n)
      <4>1. Opens(u, 0) /\ \A i \in Nat : n = Len(history) + i => i = 0
        BY <1>3, <1>9, <1>15, <3>1 DEF Opens
      <4> QED  BY <1>4, <3>1, <4>1, OpensConcat
    <3>5. k < Len(messages') /\ n < Len(history')
      BY <1>15, <3>1
    <3> QED  BY <1>10, <3>1, <3>3, <3>4, <3>5
  <2> QED  BY <1>1, <2>2 DEF CutInv
<1>17. LineInv'
  <2>1. CASE redo' = << >>
    BY <2>1, NoLine
  <2>2. CASE redo' # << >> /\ redo' = [i \in DOMAIN redo |-> [redo[i] EXCEPT !.reAdd = Overtaken(@)]]
    <3>1. /\ Len(redo') = Len(redo)
          /\ \A i \in 1..Len(redo) : redo'[i].tree = redo[i].tree /\ redo'[i].payload = redo[i].payload
      BY <2>2, OvertakenLine DEF Sound, Typed, UndoTypes
    <3>2. \A cp \in Reachable' : cp.epoch = epoch' =>
            \E old \in Reachable : old.epoch = epoch /\ cp.mark = old.mark /\ cp.tree = old.tree
      <4>1. \A cp \in Reachable' : (redo' = << >> /\ cp = Checkpoint(FALSE)) \/ \E old \in Reachable :
              /\ cp.mark = old.mark /\ cp.tree = old.tree
              /\ \/ cp.epoch = NoEpoch
                 \/ /\ cp.epoch = old.epoch
                    /\ ~(old.mark.messages > Len(messages)) /\ ~(old.mark.history > Len(history))
        BY ReachBegin DEF Sound
      <4>2. epoch' = epoch
        BY <1>1
      <4> QED  BY <1>14, <2>2, <4>1, <4>2
    <3>3. \A j \in 1..Len(redo) : TreeBelow(j)' = TreeBelow(j)
      <4>0. Len(redo) \in Nat
        BY SeqAt DEF Sound, Typed, UndoTypes
      <4>1. \A j \in 1..Len(redo) : j = Len(redo) \/ j + 1 \in 1..Len(redo)
        BY <4>0
      <4> QED  BY <1>1, <3>1, <4>1 DEF TreeBelow
    <3>4. \A j \in 1..Len(redo) : redo[j].payload # << >> =>
           LET tail == redo[j].payload[1] IN
             /\ Known(tail.messages) \cap Known(messages) = {}
             /\ PromptsOf(tail.history) \cap Prompts = {}
             /\ (PromptsOf(tail.history) \cup redo[j].tree) \ Known(tail.messages) \subseteq forgot \cup TreeBelow(j)
      BY TailSays DEF Says
    <3>5. \A j \in 1..Len(redo) : redo[j].payload # << >> =>
            p \notin Known(redo[j].payload[1].messages) /\ p \notin PromptsOf(redo[j].payload[1].history)
      BY <1>5 DEF Sound, FreshInv, FreshLine, Past
    <3>6. \A j \in 1..Len(redo) : redo[j].payload # << >> =>
           LET tail == redo[j].payload[1] IN
             /\ Known(tail.messages) \cap Known(messages') = {}
             /\ PromptsOf(tail.history) \cap Prompts' = {}
             /\ (PromptsOf(tail.history) \cup redo[j].tree) \ Known(tail.messages) \subseteq forgot' \cup TreeBelow(j)'
      BY <1>1, <1>11, <3>3, <3>4, <3>5
    <3> QED  BY <3>1, <3>2, <3>6, LineStill DEF Says
  <2> QED  BY <1>1, <2>1, <2>2
<1>18. SavedInv'
  <2> SUFFICES ASSUME disk.whole, disk.rewinds = rewinds
               PROVE  /\ \A cp \in Range(checkpoints') : cp.epoch = disk.epoch =>
                           /\ Agrees(cp, disk.messages, disk.history, cp.mark.messages, cp.mark.history)
                           /\ Opens(disk.history, cp.mark.history)
                      /\ disk.epoch = epoch => Len(disk.history) < Len(history') /\ Len(disk.history) <= Len(history')
    BY <1>1 DEF Says, SavedInv
  <2>1. disk.messages \in Seq(Texts) /\ disk.history \in Seq(Shows) /\ Len(disk.history) \in Nat
    BY SeqAt DEF Sound, Typed, StoreTypes, Generations
  <2>2. disk.epoch = epoch => Len(disk.messages) <= Len(messages) /\ Len(disk.history) <= Len(history)
    BY DEF Sound, DiskInv, Says, SavedInv
  <2>3. ASSUME NEW cp \in Range(checkpoints'), cp.epoch = disk.epoch
        PROVE  /\ Agrees(cp, disk.messages, disk.history, cp.mark.messages, cp.mark.history)
               /\ Opens(disk.history, cp.mark.history)
    <3>1. CASE cp = Checkpoint(FALSE)
      <4>1. /\ cp.tree = tree /\ cp.mark.messages = Len(messages) /\ cp.mark.history = Len(history)
            /\ cp.epoch = epoch
        BY <3>1 DEF Checkpoint, Mark
      <4>2. Len(messages) >= Len(disk.messages) /\ Len(history) >= Len(disk.history)
        BY <1>15, <2>1, <2>2, <2>3, <4>1
      <4>3. Known(disk.messages) \subseteq PromptsOf(disk.history) \cup cp.tree
        BY <4>1 DEF Says, SavedInv
      <4>4. PICK k \in Nat, n \in Nat : k = Len(messages) /\ n = Len(history)
        BY <1>15
      <4>5. Agrees(cp, disk.messages, disk.history, k, n)
        BY <2>1, <4>2, <4>3, <4>4, AgreesAtEnd
      <4>6. Opens(disk.history, n)
        BY <2>1, <4>2, <4>4 DEF Opens
      <4> QED  BY <4>1, <4>4, <4>5, <4>6
    <3>2. CASE \E old \in Range(checkpoints) : cp.mark = old.mark /\ cp.tree = old.tree /\ cp.epoch = old.epoch
      <4>1. PICK old \in Range(checkpoints) : cp.mark = old.mark /\ cp.tree = old.tree /\ cp.epoch = old.epoch
        BY <3>2
      <4>2. /\ Agrees(old, disk.messages, disk.history, old.mark.messages, old.mark.history)
            /\ Opens(disk.history, old.mark.history)
        BY <2>3, <4>1 DEF Says, SavedInv
      <4> QED  BY <4>1, <4>2, AgreesSame
    <3> QED  BY <1>14, <2>3, <3>1, <3>2, ReachBegin DEF Sound
  <2>4. disk.epoch = epoch => Len(disk.history) < Len(history') /\ Len(disk.history) <= Len(history')
    BY <1>15, <2>1, <2>2
  <2> QED  BY <2>3, <2>4
<1> QED  BY <1>12, <1>13, <1>16, <1>17, <1>18 DEF Says

\* What a checkpoint that agrees cuts off: the rest of the two lists tells the
\* rest of the tree.
LEMMA CutSays ==
  ASSUME Sound, Says, ~Waiting, NEW cp, cp.tree \subseteq tree, NEW m \in Nat, NEW n \in Nat,
         Opens(messages, m), Opens(history, n), Agrees(cp, messages, history, m, n)
  PROVE  LET s == Upto(messages, m)
             t == SubSeq(messages, m + 1, Len(messages))
             h == Upto(history, n)
             u == SubSeq(history, n + 1, Len(history))
         IN  /\ t \in Seq(Texts) /\ u \in Seq(Shows)
             /\ Once(s) /\ Once(t) /\ ShownOnce(h) /\ ShownOnce(u)
             /\ Known(s) = (PromptsOf(h) \cup cp.tree) \ forgot
             /\ Known(t) \subseteq PromptsOf(u) \cup tree
             /\ (PromptsOf(u) \cup tree) \ Known(t) \subseteq forgot \cup cp.tree
             /\ Known(s) \cup Known(t) = Known(messages) /\ Known(s) \cap Known(t) = {}
             /\ PromptsOf(h) \cup PromptsOf(u) = PromptsOf(history) /\ PromptsOf(h) \cap PromptsOf(u) = {}
<1>1. /\ messages \in Seq(Texts) /\ history \in Seq(Shows) /\ Linked(messages)
      /\ Once(messages) /\ ShownOnce(history)
  BY DEF Sound, Typed, ListTypes, ListInv, Says, ToldInv
<1>2. Known(messages) = (PromptsOf(history) \cup tree) \ forgot /\ tree \subseteq Edits
  BY PromptsShown DEF Sound, FreshInv, FreshNow, Says, ToldInv
<1>3. PICK s \in Seq(Texts) : s = Upto(messages, m)
  <2>1. Upto(messages, m) \in Seq(Texts)
    BY <1>1, PrefixAt
  <2> QED  BY <2>1
<1>4. PICK t \in Seq(Texts) : t = SubSeq(messages, m + 1, Len(messages))
  BY <1>1, SuffixAt
<1>5. PICK h \in Seq(Shows) : h = Upto(history, n)
  <2>1. Upto(history, n) \in Seq(Shows)
    BY <1>1, PrefixAt
  <2> QED  BY <2>1
<1>6. PICK u \in Seq(Shows) : u = SubSeq(history, n + 1, Len(history))
  BY <1>1, SuffixAt
<1>7. Once(s) /\ Once(t) /\ ShownOnce(h) /\ ShownOnce(u)
  <2>1. Once(Upto(messages, m)) /\ Once(SubSeq(messages, m + 1, Len(messages)))
    BY <1>1, OnceInTwo
  <2>2. ShownOnce(Upto(history, n)) /\ ShownOnce(SubSeq(history, n + 1, Len(history)))
    BY <1>1, OnceInTwo
  <2> QED  BY <1>3, <1>4, <1>5, <1>6, <2>1, <2>2
<1>8. Known(s) \cup Known(t) = Known(messages) /\ Known(s) \cap Known(t) = {}
  <2>1. Known(messages) = Known(Upto(messages, m)) \cup Known(SubSeq(messages, m + 1, Len(messages)))
    BY <1>1, SaysInTwo
  <2>2. m < Len(messages) => messages[m + 1].role # "tool"
    BY <1>1 DEF Opens
  <2>3. Known(Upto(messages, m)) \cap Known(SubSeq(messages, m + 1, Len(messages))) = {}
    BY <1>1, <2>2, ToldApart
  <2> QED  BY <1>3, <1>4, <2>1, <2>3
<1>9. PromptsOf(h) \cup PromptsOf(u) = PromptsOf(history) /\ PromptsOf(h) \cap PromptsOf(u) = {}
  <2>1. PromptsOf(history) = PromptsOf(Upto(history, n)) \cup PromptsOf(SubSeq(history, n + 1, Len(history)))
    BY <1>1, SaysInTwo
  <2>2. PromptsOf(Upto(history, n)) \cap PromptsOf(SubSeq(history, n + 1, Len(history))) = {}
    BY <1>1, ShownApart
  <2> QED  BY <1>5, <1>6, <2>1, <2>2
<1>10. /\ Known(s) \subseteq PromptsOf(h) \cup cp.tree
       /\ (PromptsOf(h) \cup cp.tree) \cap Known(messages) \subseteq Known(s)
  BY <1>1, <1>3, <1>5 DEF Agrees
<1>11. PromptsOf(h) \cap tree = {}
  BY <1>2, PromptsAreNoEdits
<1>12. Known(s) = (PromptsOf(h) \cup cp.tree) \ forgot
  BY <1>2, <1>8, <1>9, <1>10
<1>13. Known(t) \subseteq PromptsOf(u) \cup tree
  BY <1>2, <1>8, <1>9, <1>10
<1>14. (PromptsOf(u) \cup tree) \ Known(t) \subseteq forgot \cup cp.tree
  BY <1>2, <1>8, <1>9, <1>10, <1>11
<1> QED  BY <1>3, <1>4, <1>5, <1>6, <1>7, <1>8, <1>9, <1>12, <1>13, <1>14

LEMMA SaysRewind ==
  ASSUME Sound, Sound', Says, Undo \/ RestoreTo, intact'
  PROVE  Says'
<1>1. stage = "idle" /\ UNCHANGED <<stage, disk, epoch, forgot, turns>>
  BY DEF Undo, RestoreTo, storing
<1>2. ~InTurn /\ ~InTurn' /\ ~Waiting
  BY <1>1 DEF InTurn, Waiting
<1>3. TurnInv' /\ ~Waiting'
  BY <1>2, NoTurnNow
<1>4. PICK cp \in Range(checkpoints), more \in Seq(RedoEntries) :
        /\ Rewind(cp) /\ redo' = redo \o more
        /\ more # << >> /\ more[1].payload = Stashed(cp)
        /\ \A j \in 2..Len(more) : more[j].payload = << >>
        /\ cp.tree \subseteq tree /\ more[1].tree = tree
        /\ Climbs(more, cp.tree)
  BY RewindChain DEF Sound
<1>5. cp \in Reachable /\ cp \in Remembered
  BY ReachTyped DEF Sound
<1>6. PICK m \in Nat, n \in Nat : m = cp.mark.messages /\ n = cp.mark.history
  BY <1>5, MarksOf
<1>7. /\ cp.epoch = epoch /\ rewinds' = rewinds + 1 /\ tree' = cp.tree
      /\ messages' = Upto(messages, m) /\ history' = Upto(history, n)
  BY <1>4, <1>6 DEF Rewind
<1>8. /\ messages \in Seq(Texts) /\ history \in Seq(Shows) /\ Linked(messages) /\ Once(messages)
      /\ Opens(messages, m) /\ Agrees(cp, messages, history, m, n) /\ Opens(history, n)
  BY <1>2, <1>5, <1>6, <1>7 DEF Sound, Typed, ListTypes, ListInv, MarkInv, Says, CutInv, ToldInv
<1>9. PICK t \in Seq(Texts), u \in Seq(Shows) :
        /\ t = SubSeq(messages, m + 1, Len(messages)) /\ u = SubSeq(history, n + 1, Len(history))
        /\ Once(messages') /\ Once(t) /\ ShownOnce(history') /\ ShownOnce(u)
        /\ Known(messages') = (PromptsOf(history') \cup cp.tree) \ forgot
        /\ Known(t) \subseteq PromptsOf(u) \cup tree
        /\ (PromptsOf(u) \cup tree) \ Known(t) \subseteq forgot \cup cp.tree
        /\ Known(messages') \cup Known(t) = Known(messages) /\ Known(messages') \cap Known(t) = {}
        /\ PromptsOf(history') \cup PromptsOf(u) = PromptsOf(history)
        /\ PromptsOf(history') \cap PromptsOf(u) = {}
  <2>0. ~Waiting /\ cp.tree \subseteq tree /\ Opens(messages, m) /\ Opens(history, n) /\ Agrees(cp, messages, history, m, n)
    BY <1>2, <1>4, <1>8
  <2>1. LET s == Upto(messages, m)
            t == SubSeq(messages, m + 1, Len(messages))
            h == Upto(history, n)
            u == SubSeq(history, n + 1, Len(history))
        IN  /\ t \in Seq(Texts) /\ u \in Seq(Shows)
            /\ Once(s) /\ Once(t) /\ ShownOnce(h) /\ ShownOnce(u)
            /\ Known(s) = (PromptsOf(h) \cup cp.tree) \ forgot
            /\ Known(t) \subseteq PromptsOf(u) \cup tree
            /\ (PromptsOf(u) \cup tree) \ Known(t) \subseteq forgot \cup cp.tree
            /\ Known(s) \cup Known(t) = Known(messages) /\ Known(s) \cap Known(t) = {}
            /\ PromptsOf(h) \cup PromptsOf(u) = PromptsOf(history) /\ PromptsOf(h) \cap PromptsOf(u) = {}
    BY <2>0, CutSays
  <2> QED  BY <1>7, <2>1
<1>10. Prompts = PromptsOf(history) /\ Prompts' = PromptsOf(history')
  BY DEF Prompts, PromptsOf
<1>11. ToldInv'
  BY <1>1, <1>3, <1>7, <1>9, <1>10 DEF ToldInv
<1>12. Reachable' \subseteq Reachable
  BY ReachKept DEF Sound
<1>13. \A c \in Reachable : c.tree \subseteq Edits
  BY DEF Sound, FreshInv, FreshMarks
<1>14. CutInv'
  <2> SUFFICES ASSUME NEW c \in Reachable, c.epoch = epoch
               PROVE  /\ Agrees(c, messages', history', c.mark.messages, c.mark.history)
                      /\ Opens(history', c.mark.history)
    BY <1>1, <1>2, <1>12 DEF CutInv
  <2>1. PICK k \in Nat, l \in Nat : k = c.mark.messages /\ l = c.mark.history
    BY MarksOf
  <2>2. Agrees(c, messages, history, k, l) /\ Opens(history, l)
    BY <2>1 DEF Says, CutInv
  <2>3. Agrees(c, Upto(messages, m), Upto(history, n), k, l)
    BY <1>5, <1>8, <1>13, <2>2, AgreesCut
  <2>4. Opens(Upto(history, n), l)
    BY <1>8, <2>2, OpensPrefix
  <2> QED  BY <1>7, <2>1, <2>3, <2>4
<1>15. redo \in Seq(RedoEntries) /\ Len(redo) \in Nat /\ Len(more) \in Nat \ {0}
  BY <1>4, SeqAt DEF Sound, Typed, UndoTypes
<1>16. /\ Len(redo') = Len(redo) + Len(more)
       /\ \A i \in 1..Len(redo) : redo'[i] = redo[i]
       /\ \A i \in 1..Len(more) : redo'[Len(redo) + i] = more[i]
  BY <1>4, <1>15, ConcatAt
<1>17. PICK top \in Nat : top = Len(redo) + 1
  BY <1>15
<1>18. top \in 1..Len(redo') /\ redo'[top] = more[1] /\ redo'[top].tree = tree
  <2>1. 1 \in 1..Len(more)
    BY <1>15
  <2> QED  BY <1>4, <1>15, <1>16, <1>17, <2>1
<1>19. \A j \in 1..Len(redo) : TreeBelow(j)' = TreeBelow(j)
  <2> SUFFICES ASSUME NEW j \in 1..Len(redo)  PROVE TreeBelow(j)' = TreeBelow(j)
    OBVIOUS
  <2>1. j # Len(redo')
    BY <1>15, <1>16
  <2>2. CASE j = Len(redo)
    BY <1>17, <1>18, <2>1, <2>2 DEF TreeBelow
  <2>3. CASE j # Len(redo)
    <3>1. j + 1 \in 1..Len(redo)
      BY <1>15, <2>3
    <3>2. redo'[j + 1].tree = redo[j + 1].tree
      BY <1>16, <3>1
    <3> QED  BY <2>1, <2>3, <3>2 DEF TreeBelow
  <2> QED  BY <2>2, <2>3
<1>20. cp.tree \subseteq TreeBelow(top)'
  <2>1. CASE top = Len(redo')
    BY <1>7, <2>1 DEF TreeBelow
  <2>2. CASE top # Len(redo')
    <3>1. 2 \in 1..Len(more) /\ Len(redo) + 2 = top + 1
      BY <1>15, <1>16, <1>17, <2>2
    <3>2. redo'[top + 1] = more[2] /\ cp.tree \subseteq more[2].tree
      BY <1>4, <1>16, <3>1 DEF Climbs
    <3> QED  BY <2>2, <3>2 DEF TreeBelow
  <2> QED  BY <2>1, <2>2
<1>21. ASSUME NEW j \in 1..Len(redo), redo[j].payload # << >>
       PROVE  \A tail : tail = redo[j].payload[1] => Brings(j, tail)'
  <2> TAKE tail
  <2>1. HAVE tail = redo[j].payload[1]
  <2>2. Brings(j, tail)
    BY <1>21, <2>1 DEF Says, LineInv
  <2>3. /\ Known(tail.messages) \cap Known(messages) = {} /\ PromptsOf(tail.history) \cap Prompts = {}
        /\ (PromptsOf(tail.history) \cup redo[j].tree) \ Known(tail.messages) \subseteq forgot \cup TreeBelow(j)
    BY <2>2 DEF Brings
  <2>4. /\ Known(tail.messages) \cap Known(messages') = {} /\ PromptsOf(tail.history) \cap Prompts' = {}
        /\ (PromptsOf(tail.history) \cup redo[j].tree) \ Known(tail.messages) \subseteq forgot' \cup TreeBelow(j)'
    BY <1>1, <1>9, <1>10, <1>19, <2>3
  <2>5. redo'[j].tree = redo[j].tree
    BY <1>16
  <2>6. \A i \in 1..Len(redo') : i < j /\ redo'[i].payload # << >> =>
          /\ i \in 1..Len(redo) /\ redo[i].payload # << >>
          /\ redo'[i].payload[1].messages = redo[i].payload[1].messages
          /\ redo'[i].payload[1].history = redo[i].payload[1].history
    <3>1. \A i \in 1..Len(redo') : i < j => i \in 1..Len(redo)
      BY <1>15, <1>16
    <3> QED  BY <1>16, <3>1
  <2>7. \A c \in Reachable' : c.epoch = epoch' =>
          \E old \in Reachable : old.epoch = epoch /\ c.mark = old.mark /\ c.tree = old.tree
    BY <1>1, <1>12
  <2>8. Brings(j, tail)'
    BY <2>2, <2>4, <2>5, <2>6, <2>7, BringsStill
  <2> QED  BY <2>8
<1>22. ASSUME NEW new, new = CutOff(cp)
       PROVE  Brings(top, new)'
  <2>1. /\ new.messages = t /\ new.history = u
        /\ new.mark.messages = Len(messages') /\ new.mark.history = Len(history')
    BY <1>6, <1>9, <1>22 DEF CutOff
  <2>2. /\ Once(t) /\ ShownOnce(u)
        /\ Known(t) \subseteq PromptsOf(u) \cup redo'[top].tree
        /\ (PromptsOf(u) \cup redo'[top].tree) \ Known(t) \subseteq forgot' \cup TreeBelow(top)'
        /\ Known(t) \cap Known(messages') = {}
        /\ PromptsOf(u) \cap Prompts' = {}
    BY <1>1, <1>9, <1>10, <1>18, <1>20
  <2>3. ASSUME NEW i \in 1..Len(redo'), i < top, redo'[i].payload # << >>
        PROVE  /\ Known(t) \cap Known(redo'[i].payload[1].messages) = {}
               /\ PromptsOf(u) \cap PromptsOf(redo'[i].payload[1].history) = {}
    <3>1. i \in 1..Len(redo) /\ redo'[i] = redo[i]
      BY <1>15, <1>16, <1>17, <2>3
    <3>2. /\ Known(redo[i].payload[1].messages) \cap Known(messages) = {}
          /\ PromptsOf(redo[i].payload[1].history) \cap Prompts = {}
      BY <2>3, <3>1, TailSays DEF Says
    <3> QED  BY <1>9, <1>10, <3>1, <3>2
  <2>4. ASSUME NEW c \in Reachable, c.epoch = epoch
        PROVE  /\ Agrees(c, t, u, Beyond(c.mark.messages, Len(messages')), Beyond(c.mark.history, Len(history')))
               /\ \A k \in Nat : c.mark.history = Len(history') + k => Opens(u, k)
    <3>1. PICK k \in Nat, l \in Nat : k = c.mark.messages /\ l = c.mark.history
      BY MarksOf
    <3>2. Agrees(c, messages, history, k, l) /\ Opens(history, l)
      BY <2>4, <3>1 DEF Says, CutInv
    <3>3. Agrees(c, SubSeq(messages, m + 1, Len(messages)), SubSeq(history, n + 1, Len(history)),
                 Beyond(k, Len(Upto(messages, m))), Beyond(l, Len(Upto(history, n))))
      BY <1>8, <3>2, AgreesCutOff
    <3>4. ASSUME NEW i \in Nat, l = Len(history') + i  PROVE Opens(u, i)
      <4>0. Len(history) \in Nat
        BY <1>8, SeqAt
      <4>1. CASE n <= Len(history)
        <5>1. Len(history') = n
          BY <1>7, <1>8, <4>1, PrefixAt
        <5>2. Opens(history, n + i)
          BY <3>2, <3>4, <5>1
        <5> QED  BY <1>9, <1>8, <5>2, OpensSuffix
      <4>2. CASE ~(n <= Len(history))
        <5>1. Len(u) = 0
          BY <1>9, <1>8, <4>0, <4>2, SuffixAt
        <5> QED  BY <5>1 DEF Opens
      <4> QED  BY <4>1, <4>2
    <3> QED  BY <1>7, <1>9, <3>1, <3>3, <3>4
  <2>5. \A c \in Reachable' : c.epoch = epoch' =>
          /\ Agrees(c, new.messages, new.history, Beyond(c.mark.messages, new.mark.messages),
                    Beyond(c.mark.history, new.mark.history))
          /\ \A k \in Nat : c.mark.history = new.mark.history + k => Opens(new.history, k)
    BY <1>1, <1>12, <2>1, <2>4
  <2> HIDE <1>22
  <2> QED  BY <2>1, <2>2, <2>3, <2>5 DEF Brings
<1>23. LineInv'
  <2> SUFFICES ASSUME NEW j \in 1..Len(redo'), redo'[j].payload # << >>
               PROVE  Brings(j, redo[j].payload[1])'
    BY DEF LineInv
  <2>1. PICK new : new = redo'[j].payload[1]
    OBVIOUS
  <2>2. Brings(j, new)'
    <3>1. CASE j \in 1..Len(redo)
      BY <1>16, <1>21, <2>1, <3>1
    <3>2. CASE j \notin 1..Len(redo)
      <4>1. j - Len(redo) \in 1..Len(more) /\ Len(redo) + (j - Len(redo)) = j
        BY <1>15, <1>16, <3>2
      <4>2. redo'[j] = more[j - Len(redo)]
        BY <1>16, <4>1
      <4>3. j = top
        BY <1>4, <1>15, <1>17, <4>1, <4>2
      <4>4. more[1].payload[1] = CutOff(cp)
        BY <1>4, <1>5, <1>18, <4>3, RewindAt DEF Sound
      <4> QED  BY <1>18, <1>22, <2>1, <4>3, <4>4
    <3> QED  BY <3>1, <3>2
  <2> QED  BY <2>1, <2>2 DEF Brings
<1>24. SavedInv'
  <2>1. disk.rewinds \in Nat /\ rewinds \in Nat /\ disk.rewinds <= rewinds
    BY DEF Sound, Typed, StoreTypes, Generations, EpochInv
  <2> QED  BY <1>1, <1>7, <2>1 DEF SavedInv
<1> QED  BY <1>3, <1>11, <1>14, <1>23, <1>24 DEF Says

LEMMA SaysRedo ==
  ASSUME Sound, Sound', Says, Redo
  PROVE  Says'
<1>1. stage = "idle" /\ UNCHANGED <<stage, disk, epoch, turns>> /\ rewinds' = rewinds + 1 /\ tree' = Last(redo).tree
  BY DEF Redo, storing
<1>2. ~InTurn /\ ~InTurn' /\ ~Waiting
  BY <1>1 DEF InTurn, Waiting
<1>3. TurnInv' /\ ~Waiting'
  BY <1>2, NoTurnNow
<1>4. PICK top \in Nat \ {0} : top = Len(redo) /\ Len(redo') = top - 1
  BY RedoLine DEF Sound
<1>5. \A j \in 1..Len(redo') :
        /\ j \in 1..Len(redo) /\ redo'[j].tree = redo[j].tree
        /\ redo'[j].payload # << >> =>
             /\ redo[j].payload # << >>
             /\ redo'[j].payload[1].mark = redo[j].payload[1].mark
             /\ redo'[j].payload[1].messages = redo[j].payload[1].messages
             /\ redo'[j].payload[1].history = redo[j].payload[1].history
  BY RedoLine DEF Sound
<1>6. Last(redo) = redo[top] /\ top \in 1..Len(redo) /\ tree' = redo[top].tree
  BY <1>1, <1>4, RedoLists DEF Sound
<1>7. /\ messages \in Seq(Texts) /\ history \in Seq(Shows)
      /\ Known(messages) = (PromptsOf(history) \cup tree) \ forgot
      /\ Once(messages) /\ ShownOnce(history)
      /\ tree \subseteq Edits
  BY <1>2, PromptsShown DEF Sound, Typed, ListTypes, FreshInv, FreshNow, Says, ToldInv
<1>8. Prompts = PromptsOf(history) /\ Prompts' = PromptsOf(history')
  BY DEF Prompts, PromptsOf
<1>9. tree \subseteq redo[top].tree
  BY <1>6 DEF Sound, ChainInv, Climbs
<1>10. \A j \in 1..Len(redo) : redo[j].tree \subseteq Edits
  BY DEF Sound, FreshInv, FreshLine
<1>11. Reachable' \subseteq Reachable
  BY ReachKept DEF Sound
<1>12. \A cp \in Reachable' : cp.epoch = epoch' =>
         \E old \in Reachable : old.epoch = epoch /\ cp.mark = old.mark /\ cp.tree = old.tree
  BY <1>1, <1>11
<1>13. \A j \in 1..Len(redo') :
         /\ TreeBelow(j)' = TreeBelow(j) /\ redo[top].tree \subseteq TreeBelow(j)
         /\ j < top
  <2> SUFFICES ASSUME NEW j \in 1..Len(redo')
               PROVE  TreeBelow(j)' = TreeBelow(j) /\ redo[top].tree \subseteq TreeBelow(j) /\ j < top
    OBVIOUS
  <2>1. j < top /\ j # Len(redo) /\ j + 1 \in 1..Len(redo)
    BY <1>4
  <2>2. TreeBelow(j) = redo[j + 1].tree
    BY <2>1 DEF TreeBelow
  <2>3. CASE j = Len(redo')
    <3>1. j + 1 = top
      BY <1>4, <2>3
    <3> QED  BY <1>6, <2>1, <2>2, <2>3, <3>1 DEF TreeBelow
  <2>4. CASE j # Len(redo')
    <3>1. j + 1 \in 1..Len(redo') /\ j + 1 < top
      BY <1>4, <2>1, <2>4
    <3>2. redo[top].tree \subseteq redo[j + 1].tree
      BY <1>6, <2>1, <3>1 DEF Sound, ChainInv, Climbs
    <3>3. TreeBelow(j)' = redo[j + 1].tree
      BY <1>5, <2>4, <3>1 DEF TreeBelow
    <3> QED  BY <2>1, <2>2, <3>2, <3>3
  <2> QED  BY <2>3, <2>4
<1>14. \A j \in 1..Len(redo) : redo[j].payload # << >> =>
         LET tail == redo[j].payload[1] IN
           /\ Known(tail.messages) \cap Known(messages) = {}
           /\ PromptsOf(tail.history) \cap Prompts = {}
           /\ (PromptsOf(tail.history) \cup redo[j].tree) \ Known(tail.messages) \subseteq forgot \cup TreeBelow(j)
  BY TailSays DEF Says
<1>15. SavedInv'
  <2>1. disk.rewinds \in Nat /\ rewinds \in Nat /\ disk.rewinds <= rewinds
    BY DEF Sound, Typed, StoreTypes, Generations, EpochInv
  <2> QED  BY <1>1, <2>1 DEF SavedInv
<1>16. CASE UNCHANGED lists /\ forgot' = forgot \cup (tree' \ Known(messages))
  <2>1. messages' = messages /\ history' = history /\ forgot \subseteq forgot'
    BY <1>16 DEF lists
  <2>2. ToldInv'
    <3>1. Known(messages) = (PromptsOf(history) \cup tree') \ forgot'
      BY <1>6, <1>7, <1>9, <1>16
    <3> QED  BY <1>3, <1>7, <1>8, <2>1, <3>1 DEF ToldInv
  <2>3. CutInv'
    BY <1>1, <1>2, <1>11, <2>1 DEF Says, CutInv
  <2>4. \A j \in 1..Len(redo') : redo'[j].payload # << >> =>
           LET tail == redo[j].payload[1] IN
             /\ Known(tail.messages) \cap Known(messages') = {}
             /\ PromptsOf(tail.history) \cap Prompts' = {}
             /\ (PromptsOf(tail.history) \cup redo[j].tree) \ Known(tail.messages) \subseteq forgot' \cup TreeBelow(j)'
    BY <1>5, <1>8, <1>13, <1>14, <2>1
  <2>5. LineInv'
    BY <1>5, <1>12, <2>4, LineStill DEF Says
  <2> QED  BY <1>3, <1>15, <2>2, <2>3, <2>5 DEF Says
<1>17. CASE /\ Last(redo).payload # << >> /\ Last(redo).payload[1] \in Tails
            /\ Last(redo).payload[1].mark = Mark
            /\ messages' = messages \o Last(redo).payload[1].messages
            /\ history' = history \o Last(redo).payload[1].history
            /\ forgot' = forgot \ Known(Last(redo).payload[1].messages)
  <2>1. PICK tail \in Tails : tail = redo[top].payload[1]
    BY <1>6, <1>17
  <2>2. Brings(top, tail) /\ tail.mark = Mark
    BY <1>6, <1>17, <2>1 DEF Says, LineInv
  <2>3. PICK t \in Seq(Texts), u \in Seq(Shows) : t = tail.messages /\ u = tail.history
    BY DEF Tails
  <2>4. messages' = messages \o t /\ history' = history \o u /\ forgot' = forgot \ Known(t)
    BY <1>6, <1>17, <2>1, <2>3
  <2>5. /\ Once(t) /\ ShownOnce(u)
        /\ Known(t) \subseteq PromptsOf(u) \cup redo[top].tree
        /\ (PromptsOf(u) \cup redo[top].tree) \ Known(t) \subseteq forgot \cup tree
        /\ Known(t) \cap Known(messages) = {}
        /\ PromptsOf(u) \cap PromptsOf(history) = {}
    <3>1. TreeBelow(top) = tree
      BY <1>4 DEF TreeBelow
    <3> QED  BY <1>8, <2>2, <2>3, <3>1 DEF Brings
  <2>6. \A i \in 1..Len(redo) : i < top /\ redo[i].payload # << >> =>
          /\ Known(t) \cap Known(redo[i].payload[1].messages) = {}
          /\ PromptsOf(u) \cap PromptsOf(redo[i].payload[1].history) = {}
    BY <2>2, <2>3 DEF Brings
  <2>7. Known(messages') = Known(messages) \cup Known(t) /\ PromptsOf(history') = PromptsOf(history) \cup PromptsOf(u)
    <3>1. Known(messages \o t) = Known(messages) \cup Known(t)
      BY <1>7, SaysJoined
    <3>2. PromptsOf(history \o u) = PromptsOf(history) \cup PromptsOf(u)
      BY <1>7, SaysJoined
    <3> QED  BY <2>4, <3>1, <3>2
  <2>8. ToldInv'
    <3>1. Once(messages \o t)
      BY <1>7, <2>5, OnceJoined
    <3>2. ShownOnce(history \o u)
      BY <1>7, <2>5, ShownOnceJoined
    <3>3. Known(messages') = (PromptsOf(history') \cup tree') \ forgot'
      BY <1>6, <1>7, <1>9, <2>4, <2>5, <2>7
    <3> QED  BY <1>3, <1>8, <2>4, <3>1, <3>2, <3>3 DEF ToldInv
  <2>9. CutInv'
    <3> SUFFICES ASSUME NEW cp \in Reachable, cp.epoch = epoch
                 PROVE  /\ Agrees(cp, messages', history', cp.mark.messages, cp.mark.history)
                        /\ Opens(history', cp.mark.history)
      BY <1>1, <1>2, <1>11 DEF CutInv
    <3>1. PICK m \in Nat, n \in Nat : m = cp.mark.messages /\ n = cp.mark.history
      BY MarksOf
    <3>2. Agrees(cp, messages, history, m, n) /\ Opens(history, n)
      BY <3>1 DEF Says, CutInv
    <3>3. tail.mark.messages = Len(messages) /\ tail.mark.history = Len(history)
      BY <2>2 DEF Mark
    <3>4. /\ Agrees(cp, t, u, Beyond(m, Len(messages)), Beyond(n, Len(history)))
          /\ \A k \in Nat : n = Len(history) + k => Opens(u, k)
      BY <2>2, <2>3, <3>1, <3>3 DEF Brings
    <3>5. Known(messages) \subseteq PromptsOf(history) \cup Edits /\ Known(t) \subseteq PromptsOf(u) \cup Edits
      BY <1>6, <1>7, <1>10, <2>5
    <3>6. PromptsOf(history) \cap PromptsOf(u) = {}
      BY <2>5
    <3>7. Agrees(cp, messages \o t, history \o u, m, n)
      BY <1>7, <3>2, <3>4, <3>5, <3>6, AgreesJoined
    <3>8. Opens(history \o u, n)
      BY <1>7, <3>2, <3>4, OpensConcat
    <3> QED  BY <2>4, <3>1, <3>7, <3>8
  <2>10. ASSUME NEW j \in 1..Len(redo'), redo'[j].payload # << >>, NEW old, old = redo[j].payload[1]
         PROVE  /\ Known(old.messages) \cap Known(messages') = {}
                /\ PromptsOf(old.history) \cap Prompts' = {}
                /\ (PromptsOf(old.history) \cup redo[j].tree) \ Known(old.messages) \subseteq forgot' \cup TreeBelow(j)'
    <3>1. j \in 1..Len(redo) /\ j < top /\ redo[j].payload # << >> /\ redo[j].tree \subseteq Edits
      BY <1>5, <1>10, <1>13, <2>10
    <3>2. /\ Known(t) \cap Known(old.messages) = {} /\ PromptsOf(u) \cap PromptsOf(old.history) = {}
      BY <2>6, <2>10, <3>1
    <3>3. /\ Known(old.messages) \cap Known(messages) = {} /\ PromptsOf(old.history) \cap Prompts = {}
          /\ (PromptsOf(old.history) \cup redo[j].tree) \ Known(old.messages) \subseteq forgot \cup TreeBelow(j)
      BY <1>14, <2>10, <3>1
    <3>4. PromptsOf(u) \cap Edits = {}
      BY PromptsAreNoEdits
    <3>5. TreeBelow(j)' = TreeBelow(j) /\ redo[top].tree \subseteq TreeBelow(j)
      BY <1>13
    <3>6. (PromptsOf(old.history) \cup redo[j].tree) \cap Known(t) \subseteq TreeBelow(j)
      BY <2>5, <3>1, <3>2, <3>4, <3>5
    <3>7. (PromptsOf(old.history) \cup redo[j].tree) \ Known(old.messages) \subseteq forgot' \cup TreeBelow(j)'
      BY <2>4, <3>3, <3>5, <3>6
    <3> QED  BY <1>8, <2>7, <3>2, <3>3, <3>7
  <2>11. \A j \in 1..Len(redo') : redo'[j].payload # << >> =>
           LET old == redo[j].payload[1] IN
             /\ Known(old.messages) \cap Known(messages') = {}
             /\ PromptsOf(old.history) \cap Prompts' = {}
             /\ (PromptsOf(old.history) \cup redo[j].tree) \ Known(old.messages) \subseteq forgot' \cup TreeBelow(j)'
    BY <2>10
  <2>12. LineInv'
    BY <1>5, <1>12, <2>11, LineStill DEF Says
  <2> QED  BY <1>3, <1>15, <2>8, <2>9, <2>12 DEF Says
<1> QED  BY <1>16, <1>17, RedoLists DEF Sound

-----------------------------------------------------------------------------
(* What the model is told holds throughout *)

LEMMA SaysInit == SessionInit => ChainInv /\ FreshInv /\ Says
<1> SUFFICES ASSUME SessionInit  PROVE ChainInv /\ FreshInv /\ Says
  OBVIOUS
<1>1. /\ messages = << >> /\ history = << >> /\ stage = "idle" /\ committed = << >> /\ open = {}
      /\ tree = {} /\ forgot = {} /\ checkpoints = << >> /\ redo = << >> /\ turns = 0
  BY DEF SessionInit
<1>2. ~InTurn /\ ~Waiting /\ Before = 0
  BY <1>1 DEF InTurn, Waiting, Before
<1>3. /\ disk.messages = << >> /\ disk.history = << >> /\ disk.forgot = {} /\ disk.turn = 0
      /\ disk.epoch = epoch
  BY <1>1, <1>2 DEF SessionInit, Snapshot
<1>4. Range(checkpoints) = {} /\ Len(redo) = 0 /\ Reachable = {} /\ Len(checkpoints) = 0 /\ Len(history) = 0
  BY <1>1, NoneIn DEF Reachable, Range
<1>5. Known(messages) = {} /\ Known(committed) = {} /\ PromptsOf(history) = {} /\ Prompts = {}
  BY <1>1, SaysNothing, PromptsShown
<1>6. Once(messages) /\ ShownOnce(history)
  BY <1>1, OnceNone
<1>7. ChainInv
  BY <1>1, <1>2, <1>4 DEF ChainInv, Grows, Climbs
<1>8. FreshInv
  <2>1. FreshNow
    BY <1>1, <1>5 DEF FreshNow, Past
  <2>2. FreshMarks /\ FreshLine(redo, turns)
    BY <1>4 DEF FreshMarks, FreshLine
  <2>3. FreshDisk
    BY <1>2, <1>3, SaysNothing DEF FreshDisk, Past
  <2> QED  BY <2>1, <2>2, <2>3 DEF FreshInv
<1>9. TurnInv
  BY <1>1, <1>2 DEF TurnInv, NothingYet, PromptTold, StepsTold, PromptShown
<1>10. ToldInv
  BY <1>1, <1>2, <1>5, <1>6 DEF ToldInv
<1>11. CutInv /\ LineInv
  BY <1>4 DEF CutInv, LineInv
<1>12. SavedInv
  <2>1. Known(disk.messages) = {} /\ PromptsOf(disk.history) = {} /\ Len(disk.history) = Len(history)
    BY <1>1, <1>3, SaysNothing
  <2>2. Once(disk.messages) /\ ShownOnce(disk.history)
    BY <1>3, OnceNone
  <2>3. Known(disk.messages) = (PromptsOf(disk.history) \cup {f \in tree : f[1] <= disk.turn}) \ disk.forgot
    BY <1>1, <2>1
  <2>4. Len(disk.history) <= Len(history)
    BY <1>4, <2>1
  <2> QED  BY <1>2, <1>4, <2>2, <2>3, <2>4 DEF SavedInv
<1> QED  BY <1>7, <1>8, <1>9, <1>10, <1>11, <1>12 DEF Says

LEMMA SaysStep ==
  ASSUME Sound, Sound', Says, [SessionNext]_vars, intact'
  PROVE  Says'
<1>1. ASSUME NEW m \in {"execute", "plan"}, Begin(m)  PROVE Says'
  BY <1>1, SaysBegin
<1>2. CASE EndsEarly \/ FitSkipped \/ Send \/ UNCHANGED vars
  BY <1>2, SaysQuiet
<1>3. CASE Edit
  BY <1>3, SaysEdit
<1>4. CASE StepEnd
  BY <1>4, SaysStepEnd
<1>5. CASE Fit \/ CompactNow
  BY <1>5, SaysShrink
<1>6. ASSUME NEW text \in BOOLEAN, Reply(text) \/ Break(text)  PROVE Says'
  BY <1>6, SaysStreamed
<1>7. CASE End
  BY <1>7, SaysEnd
<1>8. ASSUME NEW green \in BOOLEAN, Saved(green)  PROVE Says'
  BY <1>8, SaysSaved
<1>9. CASE Clear
  BY <1>9, SaysClear
<1>10. CASE Undo \/ RestoreTo
  BY <1>10, SaysRewind
<1>11. CASE Redo
  BY <1>11, SaysRedo
<1>12. CASE SetGoal
  BY <1>12, SaysSetGoal
<1>13. CASE Crash
  BY <1>13, SaysCrash
<1> QED  BY <1>1, <1>2, <1>3, <1>4, <1>5, <1>6, <1>7, <1>8, <1>9, <1>10, <1>11, <1>12, <1>13 DEF SessionNext

\* All that holds of the session.
TellingInv == SessionInv /\ ChainInv /\ FreshInv /\ TellInv

LEMMA TellingStep == TellingInv /\ [SessionNext]_vars => TellingInv'
<1> SUFFICES ASSUME SessionInv, ChainInv, FreshInv, TellInv, [SessionNext]_vars  PROVE TellingInv'
  BY DEF TellingInv
<1>1. Typed' /\ LengthInv' /\ EpochInv' /\ IntactInv' /\ SessionInv'
  BY TypeStep, EpochStep, IntactStep DEF SessionInv
<1>2. ChainInv' /\ FreshInv'
  BY ChainStep, FreshStep DEF SessionInv
<1>3. ASSUME intact'  PROVE Says'
  <2>1. intact
    BY <1>3, IntactBefore DEF SessionInv
  <2>2. Sound
    BY <2>1 DEF Sound, SessionInv, IntactInv
  <2>3. Sound'
    BY <1>1, <1>2, <1>3 DEF Sound, IntactInv
  <2> QED  BY <1>3, <2>1, <2>2, <2>3, SaysStep DEF TellInv
<1> QED  BY <1>1, <1>2, <1>3 DEF TellingInv, TellInv

\* The invariant of what the model is told.
THEOREM TellingInvHolds == SessionSpec => []TellingInv
<1>1. SessionInit => TellingInv
  BY TypeInit, IntactInit, SaysInit DEF TellingInv, SessionInv, TellInv
<1>2. TellingInv /\ [SessionNext]_vars => TellingInv'
  BY TellingStep
<1> QED  BY <1>1, <1>2, PTL DEF SessionSpec

\* As long as no /undo reached across a compaction and no crash lost one, the model
\* is told between turns of exactly the prompts in the transcript and the edits in
\* the working tree, but for those it was told to forget.
THEOREM ContextMatches == SessionSpec => []ContextMatchesTree
<1>1. TellingInv => ContextMatchesTree
  <2> SUFFICES ASSUME Says, stage = "idle"  PROVE Known(messages) = (Prompts \cup tree) \ forgot
    BY DEF TellingInv, TellInv, ContextMatchesTree
  <2> QED  BY DEF Says, ToldInv, Waiting
<1> QED  BY <1>1, TellingInvHolds, PTL

-----------------------------------------------------------------------------
(* What /redo adds: the third strengthening *)

Stashes(entry) == entry.payload # << >>
InLine(entry) == Stashes(entry) /\ entry.payload[1].inLine

\* A tail put back after these lists gives the conversation it was cut off from,
\* if the lengths are those it was cut off at; a list of no messages, left by a
\* rollback of all that there was, has that length only if it always had.
Rejoins(tail, known, size, shows) ==
  /\ tail.mark.history <= Len(shows)
  /\ Upto(shows, tail.mark.history) \o tail.history = tail.was.history
  /\ Len(shows) = tail.mark.history => size = 0 \/ known \cup Known(tail.messages) = tail.was.known

\* Between turns the lists are those present; in a turn that does not edit, those
\* it leaves if it is rolled back, until it is answered.
Unanswered(tail) ==
  /\ messages # << >> /\ Last(messages) = userRef /\ userRef.role = "user"
  /\ history # << >> /\ Last(history) = Shown("user")
  /\ Rejoins(tail, Known(Front(messages)), Len(Front(messages)), Front(history))
Answered(tail) ==
  /\ stage = "ending" /\ ~Orphaned
  /\ tail.mark.history < Len(history)
  /\ Upto(history, tail.mark.history) \o tail.history = tail.was.history
RejoinsNow(tail) ==
  /\ InTurn => Unanswered(tail) \/ Answered(tail)
  /\ ~InTurn => Rejoins(tail, Known(messages), Len(messages), history)

\* A plan turn has no step that edits.  Above a tail in line all tails are; the one
\* cut off next was cut off from a conversation that the tail rejoins.
PlanInv == InTurn /\ mode = "plan" => committed = << >> /\ open = {}
Topmost(j, line) == \A k \in 1..Len(line) : j < k => ~Stashes(line[k])
NextAbove(j, k, line) ==
  j < k /\ Stashes(line[k]) /\ \A i \in 1..Len(line) : j < i /\ i < k => ~Stashes(line[i])
Rejoined(j, line) ==
  LET tail == line[j].payload[1] IN
    /\ tail.mark.messages = 0 => Known(tail.messages) = tail.was.known
    /\ \A k \in 1..Len(line) : j < k /\ Stashes(line[k]) => InLine(line[k])
    /\ \A k \in 1..Len(line) : NextAbove(j, k, line) =>
         LET above == line[k].payload[1] IN
           Rejoins(tail, above.was.known, above.mark.messages + Len(above.messages), above.was.history)
ExactInv ==
  /\ PlanInv
  /\ \A j \in 1..Len(redo) : InLine(redo[j]) =>
       /\ Rejoined(j, redo)
       /\ Topmost(j, redo) => RejoinsNow(redo[j].payload[1])

LEMMA SplitJoined ==
  ASSUME NEW S, NEW s \in Seq(S), NEW n \in Nat
  PROVE  LET p == Upto(s, n)
             r == SubSeq(s, n + 1, Len(s))
         IN  /\ p \o r = s /\ Len(p) + Len(r) = Len(s)
             /\ Len(p) = 0 => r = s
<1>0. /\ Upto(s, n) \in Seq(S)
      /\ Len(Upto(s, n)) \in Nat /\ Len(Upto(s, n)) <= n /\ Len(Upto(s, n)) <= Len(s)
      /\ n <= Len(s) => Len(Upto(s, n)) = n
      /\ n >= Len(s) => Upto(s, n) = s
      /\ \A i \in 1..Len(Upto(s, n)) : Upto(s, n)[i] = s[i]
  BY PrefixAt
<1>1. PICK p \in Seq(S) : p = Upto(s, n)
  BY <1>0
<1>2. PICK r \in Seq(S) : r = SubSeq(s, n + 1, Len(s))
  <2>1. SubSeq(s, n + 1, Len(s)) \in Seq(S)
    BY SuffixAt
  <2> QED  BY <2>1
<1>3. /\ Len(p) \in Nat /\ (n <= Len(s) => Len(p) = n) /\ (n >= Len(s) => p = s)
      /\ \A i \in 1..Len(p) : p[i] = s[i]
  BY <1>0, <1>1
<1>4. /\ Len(r) = IF n < Len(s) THEN Len(s) - n ELSE 0
      /\ \A i \in 1..Len(r) : r[i] = s[n + i]
  BY <1>2, SuffixAt
<1>5. Len(s) \in Nat
  BY SeqAt
<1>6. Len(p) + Len(r) = Len(s) /\ (n >= Len(s) => Len(r) = 0)
  <2>1. CASE n < Len(s)
    <3>1. Len(p) = n /\ Len(r) = Len(s) - n
      BY <1>3, <1>4, <1>5, <2>1
    <3> QED  BY <1>5, <2>1, <3>1
  <2>2. CASE ~(n < Len(s))
    <3>1. Len(r) = 0 /\ n >= Len(s)
      BY <1>4, <1>5, <2>2
    <3>2. Len(p) = Len(s)
      BY <1>3, <3>1
    <3> QED  BY <1>5, <3>1, <3>2
  <2> QED  BY <2>1, <2>2
<1>7. /\ p \o r \in Seq(S) /\ Len(p \o r) = Len(p) + Len(r)
      /\ \A i \in 1..Len(p) : (p \o r)[i] = p[i]
      /\ \A i \in 1..Len(r) : (p \o r)[Len(p) + i] = r[i]
  BY ConcatAt
<1>8. \A i \in 1..Len(p \o r) : (p \o r)[i] = s[i]
  <2> SUFFICES ASSUME NEW i \in 1..Len(p \o r)  PROVE (p \o r)[i] = s[i]
    OBVIOUS
  <2>1. CASE i <= Len(p)
    <3>1. i \in 1..Len(p)
      BY <1>3, <2>1
    <3> QED  BY <1>3, <1>7, <3>1
  <2>2. CASE ~(i <= Len(p))
    <3>1. n < Len(s)
      BY <1>3, <1>5, <1>6, <1>7, <2>2
    <3>2. Len(p) = n /\ i - n \in 1..Len(r) /\ n + (i - n) = i
      BY <1>3, <1>4, <1>5, <1>6, <1>7, <2>2, <3>1
    <3> QED  BY <1>4, <1>7, <3>2
  <2> QED  BY <2>1, <2>2
<1>9. p \o r = s
  BY <1>6, <1>7, <1>8, SeqEqual
<1>10. Len(p) = 0 => r = s
  <2> SUFFICES ASSUME Len(p) = 0  PROVE r = s
    OBVIOUS
  <2>1. p = << >>
    BY SeqAt
  <2> QED  BY <1>9, <2>1
<1> QED  BY <1>1, <1>2, <1>6, <1>9, <1>10

\* Of a longer list, the beginning is the same.
LEMMA UptoLonger ==
  ASSUME NEW S, NEW s \in Seq(S), NEW t \in Seq(S), NEW n \in Nat, n <= Len(s)
  PROVE  Upto(s \o t, n) = Upto(s, n)
<1>1. PICK j \in Seq(S) :
        /\ j = s \o t /\ Len(j) = Len(s) + Len(t)
        /\ \A i \in 1..Len(s) : j[i] = s[i]
  <2>1. /\ s \o t \in Seq(S) /\ Len(s \o t) = Len(s) + Len(t)
        /\ \A i \in 1..Len(s) : (s \o t)[i] = s[i]
    BY ConcatAt
  <2> QED  BY <2>1
<1>2. Len(s) \in Nat /\ Len(t) \in Nat
  BY SeqAt
<1>3. /\ Upto(s, n) \in Seq(S) /\ Len(Upto(s, n)) = n
      /\ \A i \in 1..Len(Upto(s, n)) : Upto(s, n)[i] = s[i]
  BY PrefixAt
<1>4. /\ Upto(j, n) \in Seq(S) /\ Len(Upto(j, n)) = n
      /\ \A i \in 1..Len(Upto(j, n)) : Upto(j, n)[i] = j[i]
  <2>1. n <= Len(j)
    BY <1>1, <1>2
  <2> QED  BY <2>1, PrefixAt
<1>5. \A i \in 1..n : Upto(j, n)[i] = Upto(s, n)[i]
  <2>1. \A i \in 1..n : i \in 1..Len(s)
    BY <1>2
  <2> QED  BY <1>1, <1>3, <1>4, <2>1
<1>6. Upto(j, n) = Upto(s, n)
  BY <1>3, <1>4, <1>5, SeqEqual
<1> QED  BY <1>1, <1>6

LEMMA FrontOfAppend ==
  ASSUME NEW S, NEW s \in Seq(S), NEW e \in S
  PROVE  Front(Append(s, e)) = s /\ Last(Append(s, e)) = e /\ Append(s, e) # << >>
<1>1. PICK a \in Seq(S) :
        /\ a = Append(s, e) /\ a # << >> /\ Len(a) = Len(s) + 1
        /\ \A i \in 1..Len(s) : a[i] = s[i]
        /\ a[Len(s) + 1] = e
  <2>1. /\ Append(s, e) \in Seq(S) /\ Append(s, e) # << >> /\ Len(Append(s, e)) = Len(s) + 1
        /\ \A i \in 1..Len(s) : Append(s, e)[i] = s[i]
        /\ Append(s, e)[Len(s) + 1] = e
    BY AppendAt
  <2> QED  BY <2>1
<1>2. Len(s) \in Nat
  BY SeqAt
<1>3. /\ Front(a) \in Seq(S) /\ Len(Front(a)) = Len(a) - 1
      /\ \A i \in 1..Len(Front(a)) : Front(a)[i] = a[i]
  BY <1>1, FrontAt
<1>4. Front(a) = s
  <2>1. Len(Front(a)) = Len(s)
    BY <1>1, <1>2, <1>3
  <2>2. \A i \in 1..Len(Front(a)) : Front(a)[i] = s[i]
    BY <1>1, <1>3, <2>1
  <2> QED  BY <1>3, <2>1, <2>2, SeqEqual
<1> QED  BY <1>1, <1>4 DEF Last

LEMMA UptoOfFront ==
  ASSUME NEW S, NEW s \in Seq(S), s # << >>, NEW n \in Nat, n <= Len(Front(s))
  PROVE  Upto(s, n) = Upto(Front(s), n)
<1>1. PICK f \in Seq(S) :
        /\ f = Front(s) /\ Len(s) \in Nat \ {0} /\ Len(f) = Len(s) - 1
        /\ \A i \in 1..Len(f) : f[i] = s[i]
  BY FrontAt
<1>2. s[Len(s)] \in S
  BY <1>1, SeqAt
<1>3. s = f \o <<s[Len(s)]>>
  <2>1. PICK t \in Seq(S) : t = <<s[Len(s)]>> /\ Len(t) = 1 /\ t[1] = s[Len(s)]
    BY <1>2, OneIn
  <2>2. /\ f \o t \in Seq(S) /\ Len(f \o t) = Len(s)
        /\ \A i \in 1..Len(f) : (f \o t)[i] = f[i]
        /\ \A i \in 1..Len(t) : (f \o t)[Len(f) + i] = t[i]
    <3>1. /\ f \o t \in Seq(S) /\ Len(f \o t) = Len(f) + Len(t)
          /\ \A i \in 1..Len(f) : (f \o t)[i] = f[i]
          /\ \A i \in 1..Len(t) : (f \o t)[Len(f) + i] = t[i]
      BY ConcatAt
    <3> QED  BY <1>1, <2>1, <3>1
  <2>3. (f \o t)[Len(s)] = s[Len(s)]
    <3>1. 1 \in 1..Len(t) /\ Len(f) + 1 = Len(s)
      BY <1>1, <2>1
    <3> QED  BY <2>1, <2>2, <3>1
  <2>4. \A i \in 1..Len(f \o t) : i \in 1..Len(f) \/ i = Len(s)
    BY <1>1, <2>2
  <2>5. \A i \in 1..Len(f \o t) : (f \o t)[i] = s[i]
    BY <1>1, <2>2, <2>3, <2>4
  <2>6. f \o t = s
    BY <2>2, <2>5, SeqEqual
  <2> QED  BY <2>1, <2>6
<1>4. <<s[Len(s)]>> \in Seq(S)
  BY <1>2, OneIn
<1>5. Upto(f \o <<s[Len(s)]>>, n) = Upto(f, n)
  BY <1>1, <1>4, UptoLonger
<1> QED  BY <1>1, <1>3, <1>5

LEMMA KnownOfFront ==
  ASSUME NEW s \in Seq(Texts), s # << >>
  PROVE  \A f : f \in Known(Front(s)) <=> \E i \in 1..(Len(s) - 1) : f \in s[i].tells
<1>1. /\ Front(s) \in Seq(Texts) /\ Len(s) \in Nat \ {0} /\ Len(Front(s)) = Len(s) - 1
      /\ \A i \in 1..Len(Front(s)) : Front(s)[i] = s[i]
  BY FrontAt
<1>2. \A f : f \in Known(Front(s)) <=> \E i \in 1..Len(Front(s)) : f \in Front(s)[i].tells
  BY <1>1, KnownAt
<1> QED  BY <1>1, <1>2

\* A compaction leaves nothing before the last message, or all that was told there.
LEMMA CompactedFront ==
  ASSUME NEW list \in Seq(Texts), Cut(list) > 0
  PROVE  /\ list # << >> /\ Len(Front(list)) # 0
         /\ Compacted(list) \in Seq(Texts) /\ Compacted(list) # << >>
         /\ \/ Len(Front(Compacted(list))) = 0
            \/ /\ Last(Compacted(list)) = Last(list)
               /\ Known(Front(Compacted(list))) = Known(Front(list))
<1>1. PICK cut \in Nat \ {0} : cut = Cut(list) /\ cut < Len(list)
  BY CutIs
<1>2. Len(list) \in Nat /\ Len(list) # 0 /\ list # << >> /\ cut + 1 \in 1..Len(list)
  BY <1>1, SeqAt
<1>3. Len(Front(list)) # 0
  <2>1. Len(Front(list)) = Len(list) - 1
    BY <1>2, FrontAt
  <2> QED  BY <1>1, <1>2, <2>1
<1>4. PICK first \in Texts, rest \in Seq(Texts) :
        /\ first = SummaryFirst(list) /\ rest = KeptAfter(list)
        /\ Compacted(list) = <<first>> \o rest
        /\ rest # << >> => rest[Len(rest)] = list[Len(list)]
  BY CompactedForm
<1>5. Compacted(list) \in Seq(Texts) /\ Compacted(list) # << >>
  BY CompactedShape
<1>6. PICK all \in Seq(Texts) :
        /\ all = Compacted(list) /\ all # << >> /\ Len(all) = 1 + Len(rest)
        /\ Len(rest) \in Nat
        /\ all[1] = first /\ \A i \in 1..Len(rest) : all[1 + i] = rest[i]
  <2>1. PICK one \in Seq(Texts) : one = <<first>> /\ Len(one) = 1 /\ one[1] = first
    BY OneIn
  <2>2. /\ Len(one \o rest) = Len(one) + Len(rest)
        /\ \A i \in 1..Len(one) : (one \o rest)[i] = one[i]
        /\ \A i \in 1..Len(rest) : (one \o rest)[Len(one) + i] = rest[i]
    BY ConcatAt
  <2>3. Len(rest) \in Nat
    BY SeqAt
  <2>4. PICK all \in Seq(Texts) : all = Compacted(list) /\ all = one \o rest /\ all # << >>
    BY <1>4, <1>5, <2>1
  <2>5. /\ Len(all) = 1 + Len(rest) /\ \A i \in 1..Len(rest) : all[1 + i] = rest[i]
        /\ all[1] = first
    <3>1. 1 \in 1..Len(one)
      BY <2>1
    <3> QED  BY <2>1, <2>2, <2>4, <3>1
  <2> QED  BY <2>3, <2>4, <2>5
<1>7. CASE rest = << >>
  <2>1. Len(all) = 1
    BY <1>6, <1>7, NoneIn
  <2>2. Len(Front(all)) = 0
    <3>1. Len(Front(all)) = Len(all) - 1
      BY <1>6, FrontAt
    <3> QED  BY <2>1, <3>1
  <2> QED  BY <1>2, <1>3, <1>5, <1>6, <2>2
<1>8. CASE rest # << >>
  <2>1. Len(rest) # 0 /\ Len(rest) \in 1..Len(rest)
    BY <1>6, <1>8, SeqAt
  <2>2. Last(all) = Last(list)
    BY <1>4, <1>6, <1>8, <2>1 DEF Last
  <2>3. PICK past : past = Known(SubSeq(list, 1, Cut(list)))
    OBVIOUS
  <2>4. \A f : f \in past <=> \E i \in 1..cut : f \in list[i].tells
    <3>1. /\ Upto(list, cut) \in Seq(Texts) /\ Len(Upto(list, cut)) = cut
          /\ \A i \in 1..Len(Upto(list, cut)) : Upto(list, cut)[i] = list[i]
      <4>1. /\ Upto(list, cut) \in Seq(Texts) /\ (cut <= Len(list) => Len(Upto(list, cut)) = cut)
            /\ \A i \in 1..Len(Upto(list, cut)) : Upto(list, cut)[i] = list[i]
        BY PrefixAt
      <4>2. cut <= Len(list)
        BY <1>1, <1>2
      <4> QED  BY <4>1, <4>2
    <3>2. Upto(list, cut) = SubSeq(list, 1, Cut(list))
      BY <1>1 DEF Upto
    <3>3. \A f : f \in Known(Upto(list, cut)) <=> \E i \in 1..Len(Upto(list, cut)) : f \in Upto(list, cut)[i].tells
      BY <3>1, KnownAt
    <3> QED  BY <2>3, <3>1, <3>2, <3>3
  <2>5. PICK recent \in Seq(Texts) :
          /\ recent = SubSeq(list, Cut(list) + 1, Len(list)) /\ Len(recent) = Len(list) - cut
          /\ \A i \in 1..Len(recent) : recent[i] = list[cut + i]
    <3>1. LET t == SubSeq(list, cut + 1, Len(list))
          IN  /\ t \in Seq(Texts) /\ Len(t) = IF cut < Len(list) THEN Len(list) - cut ELSE 0
              /\ \A i \in 1..Len(t) : t[i] = list[cut + i]
      BY SuffixAt
    <3> QED  BY <1>1, <3>1
  <2>6. recent # << >> /\ list[cut + 1] \in Texts
    <3>1. Len(recent) # 0
      BY <1>1, <1>2, <2>5
    <3> QED  BY <1>2, <3>1, SeqAt
  <2>7. \A f : f \in Known(Front(all)) <=>
               f \in first.tells \/ \E i \in 1..(Len(rest) - 1) : f \in rest[i].tells
    <3>1. \A f : f \in Known(Front(all)) <=> \E i \in 1..Len(rest) : f \in all[i].tells
      <4>1. \A f : f \in Known(Front(all)) <=> \E i \in 1..(Len(all) - 1) : f \in all[i].tells
        BY <1>6, KnownOfFront
      <4> QED  BY <1>6, <4>1
    <3>2. \A i \in 1..Len(rest) : i = 1 \/ (i - 1 \in 1..(Len(rest) - 1) /\ 1 + (i - 1) = i /\ i - 1 \in 1..Len(rest))
      BY <1>6
    <3>3. \A i \in 1..Len(rest) : i = 1 \/ (i - 1 \in 1..(Len(rest) - 1) /\ all[i] = rest[i - 1])
      BY <1>6, <3>2
    <3>4. \A i \in 1..(Len(rest) - 1) : 1 + i \in 1..Len(rest) /\ all[1 + i] = rest[i]
      BY <1>6
    <3>5. 1 \in 1..Len(rest)
      BY <1>6, <2>1
    <3> QED  BY <1>6, <3>1, <3>3, <3>4, <3>5
  <2>8. \A f : f \in Known(Front(list)) <=> \E i \in 1..(Len(list) - 1) : f \in list[i].tells
    BY <1>2, KnownOfFront
  <2>9. \A i : i \in 1..(Len(list) - 1) <=> (i \in 1..cut \/ \E k \in 1..(Len(recent) - 1) : i = cut + k)
    <3>1. \A i \in 1..(Len(list) - 1) : i \in 1..cut \/ (i - cut \in 1..(Len(recent) - 1) /\ i = cut + (i - cut))
      BY <1>1, <1>2, <2>5
    <3>2. \A i \in 1..cut : i \in 1..(Len(list) - 1)
      BY <1>1, <1>2
    <3>3. \A k \in 1..(Len(recent) - 1) : cut + k \in 1..(Len(list) - 1)
      BY <1>1, <1>2, <2>5
    <3> QED  BY <3>1, <3>2, <3>3
  <2>10. \A f : f \in Known(Front(list)) <=> f \in past \/ \E k \in 1..(Len(recent) - 1) : f \in recent[k].tells
    <3>1. \A k \in 1..(Len(recent) - 1) : recent[k] = list[cut + k]
      BY <1>1, <1>2, <2>5
    <3> QED  BY <2>4, <2>8, <2>9, <3>1
  <2>11. CASE list[cut + 1].role = "user"
    <3>1. first.tells = recent[1].tells \cup past /\ rest = Tail(recent)
      <4>0. recent[1] = list[cut + 1]
        BY <1>1, <1>2, <2>5
      <4>1. first = [list[cut + 1] EXCEPT !.tells = @ \cup past]
        BY <1>1, <1>4, <2>3, <2>11 DEF SummaryFirst
      <4>2. rest = Tail(recent)
        BY <1>1, <1>4, <2>5, <2>11 DEF KeptAfter
      <4> QED  BY <2>6, <4>0, <4>1, <4>2 DEF Texts
    <3>2. Len(rest) = Len(recent) - 1 /\ \A i \in 1..Len(rest) : rest[i] = recent[i + 1]
      BY <2>6, <3>1, TailAt
    <3>3. \A i \in 1..(Len(rest) - 1) : i + 1 \in 1..(Len(recent) - 1) /\ rest[i] = recent[i + 1]
      BY <1>6, <3>2
    <3>4. \A k \in 1..(Len(recent) - 1) : k = 1 \/ (k - 1 \in 1..(Len(rest) - 1) /\ (k - 1) + 1 = k)
      BY <1>6, <3>2
    <3>5. \A k \in 1..(Len(recent) - 1) : k = 1 \/ (k - 1 \in 1..(Len(rest) - 1) /\ rest[k - 1] = recent[k])
      BY <3>3, <3>4
    <3>6. 1 \in 1..(Len(recent) - 1)
      BY <1>6, <2>1, <3>2
    <3>7. ASSUME NEW f, f \in Known(Front(all))  PROVE f \in Known(Front(list))
      <4>1. CASE f \in first.tells
        BY <2>10, <3>1, <3>6, <4>1
      <4>2. CASE \E i \in 1..(Len(rest) - 1) : f \in rest[i].tells
        BY <2>10, <3>3, <4>2
      <4> QED  BY <2>7, <3>7, <4>1, <4>2
    <3>8. ASSUME NEW f, f \in Known(Front(list))  PROVE f \in Known(Front(all))
      <4>1. CASE f \in past
        BY <2>7, <3>1, <4>1
      <4>2. CASE \E k \in 1..(Len(recent) - 1) : f \in recent[k].tells
        <5>1. PICK k \in 1..(Len(recent) - 1) : f \in recent[k].tells
          BY <4>2
        <5>2. CASE k = 1
          BY <2>7, <3>1, <5>1, <5>2
        <5>3. CASE k # 1
          <6>1. PICK i \in 1..(Len(rest) - 1) : rest[i] = recent[k]
            BY <3>5, <5>3
          <6> QED  BY <2>7, <5>1, <6>1
        <5> QED  BY <5>2, <5>3
      <4> QED  BY <2>10, <3>8, <4>1, <4>2
    <3> QED  BY <1>2, <1>3, <1>5, <1>6, <2>2, <3>7, <3>8
  <2>12. CASE list[cut + 1].role # "user"
    <3>1. first.tells = past /\ rest = recent
      <4>1. first = [role |-> "user", turn |-> 0, tells |-> past]
        BY <1>1, <1>4, <2>3, <2>12 DEF SummaryFirst
      <4>2. rest = recent
        BY <1>1, <1>4, <2>5, <2>12 DEF KeptAfter
      <4> QED  BY <4>1, <4>2
    <3>2. \A f : f \in Known(Front(all)) <=> f \in Known(Front(list))
      BY <2>7, <2>10, <3>1
    <3> QED  BY <1>2, <1>3, <1>5, <1>6, <2>2, <3>2
  <2> QED  BY <2>11, <2>12
<1> QED  BY <1>7, <1>8

LEMMA TailsInLine ==
  ASSUME Typed, NEW j \in 1..Len(redo), Stashes(redo[j])
  PROVE  redo[j].payload[1] \in Tails
BY TailOf DEF Typed, UndoTypes, Stashes

LEMMA RejoinedSame ==
  ASSUME NEW line, NEW new, Len(new) = Len(line),
         \A i \in 1..Len(line) : new[i].payload = line[i].payload
  PROVE  \A j \in 1..Len(line) :
           /\ InLine(new[j]) = InLine(line[j])
           /\ Topmost(j, line) => Topmost(j, new)
           /\ Topmost(j, new) => Topmost(j, line)
           /\ Rejoined(j, line) => Rejoined(j, new)
<1> SUFFICES ASSUME NEW j \in 1..Len(line)
             PROVE  /\ InLine(new[j]) = InLine(line[j])
                    /\ Topmost(j, line) => Topmost(j, new)
                    /\ Topmost(j, new) => Topmost(j, line)
                    /\ Rejoined(j, line) => Rejoined(j, new)
  OBVIOUS
<1>1. \A i \in 1..Len(line) : Stashes(new[i]) = Stashes(line[i]) /\ InLine(new[i]) = InLine(line[i])
  BY DEF Stashes, InLine
<1>2. (Topmost(j, line) => Topmost(j, new)) /\ (Topmost(j, new) => Topmost(j, line))
  BY <1>1 DEF Topmost
<1>3. ASSUME Rejoined(j, line)  PROVE Rejoined(j, new)
  <2>1. \A k \in 1..Len(line) : NextAbove(j, k, new) => NextAbove(j, k, line)
    BY <1>1 DEF NextAbove
  <2> QED  BY <1>1, <1>3, <2>1 DEF Rejoined
<1> QED  BY <1>1, <1>2, <1>3

\* A step that keeps the tails and the place of the topmost one.
LEMMA ExactStill ==
  ASSUME ExactInv, PlanInv', Len(redo') = Len(redo),
         \A i \in 1..Len(redo) : redo'[i].payload = redo[i].payload,
         \A j \in 1..Len(redo) : InLine(redo[j]) =>
           \A tail : tail = redo[j].payload[1] /\ RejoinsNow(tail) => RejoinsNow(tail)'
  PROVE  ExactInv'
<1>1. ASSUME NEW j \in 1..Len(redo'), InLine(redo'[j])
      PROVE  /\ Rejoined(j, redo')
             /\ Topmost(j, redo') => RejoinsNow(redo[j].payload[1])'
  <2>1. /\ j \in 1..Len(redo) /\ InLine(redo[j]) /\ (Topmost(j, redo') => Topmost(j, redo))
        /\ Rejoined(j, redo) => Rejoined(j, redo')
    BY <1>1, RejoinedSame
  <2>2. Rejoined(j, redo) /\ (Topmost(j, redo) => RejoinsNow(redo[j].payload[1]))
    BY <2>1 DEF ExactInv
  <2>3. PICK tail : tail = redo[j].payload[1] /\ tail = redo'[j].payload[1]
    BY <2>1
  <2>4. ASSUME Topmost(j, redo')  PROVE RejoinsNow(redo[j].payload[1])'
    <3>1. RejoinsNow(tail)'
      BY <2>1, <2>2, <2>3, <2>4
    <3> QED  BY <2>3, <3>1 DEF RejoinsNow, Unanswered, Answered
  <2> QED  BY <2>1, <2>2, <2>4
<1> QED  BY <1>1 DEF ExactInv

LEMMA NoTails ==
  ASSUME PlanInv', \A j \in 1..Len(redo') : ~InLine(redo'[j])
  PROVE  ExactInv'
BY DEF ExactInv

LEMMA EmptyTails ==
  ASSUME PlanInv', redo' = << >>
  PROVE  ExactInv'
<1>1. Len(redo') = 0
  BY NoneIn
<1> QED  BY <1>1 DEF ExactInv

LEMMA ExactBegin ==
  ASSUME Typed, Typed', LengthInv, ChainInv, ExactInv, NEW m \in {"execute", "plan"}, Begin(m)
  PROVE  ExactInv'
<1> DEFINE P == [role |-> "user", turn |-> turns + 1, tells |-> {<<turns + 1, 0>>}]
           Q == [role |-> "user", turn |-> turns + 1]
<1>1. /\ stage = "idle" /\ stage' = "prompted" /\ turns' = turns + 1 /\ mode' = m
      /\ committed' = << >> /\ open' = {} /\ userRef' = P
      /\ messages' = Append(messages, P) /\ history' = Append(history, Q)
      /\ \/ m = "execute" /\ redo' = << >>
         \/ redo' = [i \in DOMAIN redo |-> [redo[i] EXCEPT !.reAdd = Overtaken(@)]]
  BY DEF Begin
<1>2. PlanInv'
  BY <1>1 DEF PlanInv
<1>3. ~InTurn /\ InTurn' /\ turns + 1 \in 1..MaxTurns
  BY <1>1 DEF InTurn, Typed, TurnTypes
<1>4. P \in Texts /\ Q \in Shows /\ P.role = "user" /\ Q = Shown("user")'
  <2>1. <<turns + 1, 0>> \in Facts
    BY <1>3, FactsOfTurn
  <2>2. Q = Shown("user")'
    BY <1>1 DEF Shown
  <2> QED  BY <1>3, <2>1, <2>2 DEF Texts, Shows
<1> HIDE DEF P, Q
<1>5. /\ Front(messages') = messages /\ Last(messages') = userRef' /\ messages' # << >>
      /\ Front(history') = history /\ Last(history') = Q /\ history' # << >>
  <2>1. messages \in Seq(Texts) /\ history \in Seq(Shows)
    BY DEF Typed, ListTypes
  <2>2. Front(Append(messages, P)) = messages /\ Last(Append(messages, P)) = P /\ Append(messages, P) # << >>
    BY <1>4, <2>1, FrontOfAppend
  <2>3. Front(Append(history, Q)) = history /\ Last(Append(history, Q)) = Q /\ Append(history, Q) # << >>
    BY <1>4, <2>1, FrontOfAppend
  <2> QED  BY <1>1, <2>2, <2>3
<1>6. CASE redo' = << >>
  BY <1>2, <1>6, EmptyTails
<1>7. CASE redo' = [i \in DOMAIN redo |-> [redo[i] EXCEPT !.reAdd = Overtaken(@)]]
  <2>1. Len(redo') = Len(redo) /\ \A i \in 1..Len(redo) : redo'[i].payload = redo[i].payload
    BY <1>7, OvertakenLine DEF Typed, UndoTypes
  <2>2. ASSUME NEW tail, RejoinsNow(tail)  PROVE RejoinsNow(tail)'
    <3>1. Rejoins(tail, Known(messages), Len(messages), history)
      BY <1>3, <2>2 DEF RejoinsNow
    <3>2. Rejoins(tail, Known(Front(messages')), Len(Front(messages')), Front(history'))
      BY <1>5, <3>1
    <3>3. Unanswered(tail)'
      BY <1>1, <1>4, <1>5, <3>2 DEF Unanswered
    <3> QED  BY <1>3, <3>3 DEF RejoinsNow
  <2> QED  BY <1>2, <2>1, <2>2, ExactStill
<1> QED  BY <1>1, <1>6, <1>7

LEMMA ExactQuiet ==
  ASSUME Typed, ExactInv,
         EndsEarly \/ FitSkipped \/ Send \/ SetGoal \/ UNCHANGED vars
           \/ (Saved(TRUE) /\ redo' = << >>) \/ (\E green \in BOOLEAN : Saved(green) /\ UNCHANGED undoing)
  PROVE  ExactInv'
<1>1. CASE \E green \in BOOLEAN : Saved(green)
  <2>1. /\ stage = "saving" /\ stage' = "idle" /\ UNCHANGED <<messages, history>>
        /\ redo' = << >> \/ UNCHANGED redo
    BY <1>1 DEF Saved, lists, undoing
  <2>2. ~InTurn /\ ~InTurn' /\ PlanInv'
    BY <2>1 DEF InTurn, PlanInv
  <2>3. \A tail : RejoinsNow(tail) => RejoinsNow(tail)'
    BY <2>1, <2>2 DEF RejoinsNow
  <2> QED  BY <2>1, <2>2, <2>3, EmptyTails, ExactStill
<1>2. CASE EndsEarly \/ FitSkipped \/ Send \/ SetGoal \/ UNCHANGED vars
  <2>1. UNCHANGED <<messages, history, userRef, committed, open, mode, redo, turns>>
    BY <1>2 DEF EndsEarly, FitSkipped, Send, SetGoal, lists, running, undoing, vars
  <2>2. stage' = stage \/ (stage \in {"prompted", "prepared"} /\ stage' \in {"prepared", "streaming", "ending"})
    BY <1>2 DEF EndsEarly, FitSkipped, Send, SetGoal, vars
  <2>3. InTurn' = InTurn /\ (stage = "ending" => stage' = "ending")
    BY <2>2 DEF InTurn
  <2>4. PlanInv'
    BY <2>1, <2>3 DEF ExactInv, PlanInv
  <2>5. ASSUME NEW tail, RejoinsNow(tail)  PROVE RejoinsNow(tail)'
    <3>1. Unanswered(tail) => Unanswered(tail)'
      BY <2>1 DEF Unanswered, Shown
    <3>2. Answered(tail) => Answered(tail)'
      BY <2>1, <2>3 DEF Answered, Orphaned
    <3> QED  BY <2>1, <2>3, <2>5, <3>1, <3>2 DEF RejoinsNow
  <2> QED  BY <2>1, <2>4, <2>5, ExactStill
<1> QED  BY <1>1, <1>2

LEMMA ExactStream ==
  ASSUME Typed, ChainInv, ExactInv, Edit \/ StepEnd
  PROVE  ExactInv'
<1>1. stage = "streaming" /\ UNCHANGED <<mode, redo>> /\ (mode = "execute" \/ open # {})
  BY DEF Edit, StepEnd, undoing
<1>2. mode = "execute" /\ InTurn
  BY <1>1 DEF ExactInv, PlanInv, InTurn, Typed, TurnTypes
<1>3. redo' = << >> /\ PlanInv'
  BY <1>1, <1>2 DEF ChainInv, PlanInv
<1> QED  BY <1>3, EmptyTails

LEMMA ExactShrink ==
  ASSUME Typed, Typed', ExactInv, Fit \/ CompactNow
  PROVE  ExactInv'
<1>1. /\ Cut(messages) > 0 /\ messages' = Compacted(messages)
      /\ UNCHANGED <<history, mode, committed, open, redo, turns>>
  BY DEF Fit, CompactNow, Shrink, running, undoing
<1>2. /\ messages \in Seq(Texts) /\ messages # << >> /\ Len(Front(messages)) # 0
      /\ messages' # << >>
      /\ \/ Len(Front(messages')) = 0
         \/ Last(messages') = Last(messages) /\ Known(Front(messages')) = Known(Front(messages))
      /\ Last(messages').role = Last(messages).role
      /\ Known(messages') = Known(messages) /\ Len(messages) # 0
  <2>1. messages \in Seq(Texts)
    BY DEF Typed, ListTypes
  <2> QED  BY <1>1, <2>1, CompactedFront, CompactedShape, CompactedSays, SeqAt
<1>3. CASE Fit
  <2>1. /\ stage = "prompted" /\ stage' = "prepared"
        /\ userRef' = IF Last(messages').role = "user" THEN Last(messages') ELSE userRef
    BY <1>3 DEF Fit
  <2>2. InTurn /\ InTurn'
    BY <2>1 DEF InTurn
  <2>3. PlanInv'
    BY <1>1, <2>2 DEF ExactInv, PlanInv
  <2>4. ASSUME NEW tail, RejoinsNow(tail)  PROVE RejoinsNow(tail)'
    <3>1. Unanswered(tail)
      BY <2>1, <2>2, <2>4 DEF RejoinsNow, Answered
    <3>2. userRef' = Last(messages') /\ userRef'.role = "user"
      BY <1>2, <2>1, <3>1 DEF Unanswered
    <3>3. Rejoins(tail, Known(Front(messages)), Len(Front(messages)), Front(history))
      BY <3>1 DEF Unanswered
    <3>4. Rejoins(tail, Known(Front(messages')), Len(Front(messages')), Front(history))
      BY <1>2, <3>3 DEF Rejoins
    <3>5. Unanswered(tail)'
      BY <1>1, <1>2, <3>1, <3>2, <3>4 DEF Unanswered, Shown
    <3> QED  BY <2>2, <3>5 DEF RejoinsNow
  <2> QED  BY <1>1, <2>3, <2>4, ExactStill
<1>4. CASE CompactNow
  <2>1. ~InTurn /\ ~InTurn'
    BY <1>4 DEF CompactNow, InTurn
  <2>2. PlanInv'
    BY <2>1 DEF PlanInv
  <2>3. ASSUME NEW tail, RejoinsNow(tail)  PROVE RejoinsNow(tail)'
    <3>1. Rejoins(tail, Known(messages), Len(messages), history)
      BY <2>1, <2>3 DEF RejoinsNow
    <3>2. Rejoins(tail, Known(messages'), Len(messages'), history')
      BY <1>1, <1>2, <3>1 DEF Rejoins
    <3> QED  BY <2>1, <3>2 DEF RejoinsNow
  <2> QED  BY <1>1, <2>2, <2>3, ExactStill
<1> QED  BY <1>3, <1>4

LEMMA JoinNothing ==
  ASSUME NEW S, NEW s \in Seq(S)
  PROVE  s \o << >> = s
<1>1. << >> \in Seq(S) /\ Len(<< >>) = 0
  BY NoneIn
<1>2. PICK none \in Seq(S) : none = << >> /\ Len(none) = 0
  BY <1>1
<1>3. /\ s \o none \in Seq(S) /\ Len(s \o none) = Len(s) + Len(none)
      /\ \A i \in 1..Len(s) : (s \o none)[i] = s[i]
  BY ConcatAt
<1>4. Len(s) \in Nat
  BY SeqAt
<1>5. Len(s \o none) = Len(s)
  BY <1>2, <1>3, <1>4
<1>6. s \o none = s
  BY <1>3, <1>5, SeqEqual
<1> QED  BY <1>2, <1>6

LEMMA ExactStreamed ==
  ASSUME Typed, Typed', ChainInv, ExactInv, NEW text \in BOOLEAN, Reply(text) \/ Break(text)
  PROVE  ExactInv'
<1>1. /\ stage = "streaming" /\ stage' = "ending"
      /\ UNCHANGED <<mode, userRef, committed, open, redo, turns>>
      /\ messages' = messages \o committed \o (IF text THEN <<Said("assistant", {})>> ELSE << >>)
      /\ history' = IF text \/ committed # << >> THEN Append(history, Shown("assistant")) ELSE history
  BY DEF Reply, Break, running, undoing
<1>2. InTurn /\ InTurn' /\ messages \in Seq(Texts) /\ history \in Seq(Shows)
  BY <1>1 DEF InTurn, Typed, ListTypes
<1>3. PlanInv'
  BY <1>1, <1>2 DEF ExactInv, PlanInv
<1>4. CASE redo = << >>
  BY <1>1, <1>3, <1>4, EmptyTails
<1>5. CASE redo # << >>
  <2>1. committed = << >>
    BY <1>2, <1>5 DEF ChainInv, ExactInv, PlanInv, Typed, TurnTypes
  <2>2. messages \o committed = messages
    BY <1>2, <2>1, JoinNothing
  <2>3. ASSUME NEW j \in 1..Len(redo), InLine(redo[j]),
               NEW tail, tail = redo[j].payload[1], RejoinsNow(tail)
        PROVE  RejoinsNow(tail)'
    <3>1. Unanswered(tail)
      BY <1>1, <1>2, <2>3 DEF RejoinsNow, Answered
    <3>2. CASE ~text
      <4>1. messages' = messages
        BY <1>1, <1>2, <2>2, <3>2, JoinNothing
      <4>2. history' = history
        BY <1>1, <2>1, <3>2
      <4>3. Unanswered(tail)'
        BY <1>1, <3>1, <4>1, <4>2 DEF Unanswered, Shown
      <4> QED  BY <1>2, <4>3 DEF RejoinsNow
    <3>3. CASE text
      <4>1. PICK reply \in Texts : reply = Said("assistant", {}) /\ reply.role = "assistant"
        BY SaidTyped
      <4>2. /\ messages' # << >> /\ Last(messages') = reply
        <5>1. PICK one \in Seq(Texts) : one = <<reply>> /\ Len(one) = 1 /\ one[1] = reply
          BY OneIn
        <5>2. /\ messages \o one \in Seq(Texts) /\ Len(messages \o one) = Len(messages) + Len(one)
              /\ \A i \in 1..Len(one) : (messages \o one)[Len(messages) + i] = one[i]
          BY <1>2, ConcatAt
        <5>3. messages' = messages \o one
          BY <1>1, <2>2, <3>3, <4>1, <5>1
        <5>4. Len(messages) \in Nat
          BY <1>2, SeqAt
        <5>5. /\ messages' \in Seq(Texts) /\ Len(messages') = Len(messages) + 1
              /\ messages'[Len(messages) + 1] = reply
          <6>1. 1 \in 1..Len(one)
            BY <5>1
          <6> QED  BY <5>1, <5>2, <5>3, <6>1
        <5>6. messages' # << >>
          <6>1. Len(messages') # 0
            BY <5>4, <5>5
          <6> QED  BY <5>5, <6>1, SeqAt
        <5> QED  BY <5>5, <5>6 DEF Last
      <4>3. ~Orphaned'
        BY <1>1, <3>1, <4>1, <4>2 DEF Orphaned, Unanswered
      <4>4. PICK n \in Nat : n = tail.mark.history
        BY <2>3, TailsInLine DEF InLine, Tails, Lengths
      <4>5. /\ history # << >> /\ n <= Len(Front(history))
            /\ Upto(Front(history), n) \o tail.history = tail.was.history
        BY <3>1, <4>4 DEF Unanswered, Rejoins
      <4>6. PICK shown \in Shows : shown = Shown("assistant")
        <5>1. turns \in 1..MaxTurns
          BY <1>1 DEF Typed, TurnTypes
        <5> QED  BY <5>1 DEF Shown, Shows
      <4>7. PICK grown \in Seq(Shows) :
              /\ grown = history' /\ grown # << >> /\ Front(grown) = history
              /\ Len(grown) = Len(history) + 1
        <5>1. Front(Append(history, shown)) = history /\ Append(history, shown) # << >>
          BY <1>2, FrontOfAppend
        <5>2. Append(history, shown) \in Seq(Shows) /\ Len(Append(history, shown)) = Len(history) + 1
          BY <1>2, AppendAt
        <5>3. history' = Append(history, shown)
          BY <1>1, <3>3, <4>6
        <5> QED  BY <5>1, <5>2, <5>3
      <4>8. Len(history) \in Nat \ {0} /\ Len(Front(history)) = Len(history) - 1
        BY <1>2, <4>5, FrontAt
      <4>9. n <= Len(Front(grown)) /\ n < Len(grown)
        BY <4>5, <4>7, <4>8
      <4>10. Upto(grown, n) = Upto(Front(grown), n)
        BY <4>7, <4>9, UptoOfFront
      <4>11. Upto(history, n) = Upto(Front(history), n)
        BY <1>2, <4>5, UptoOfFront
      <4>12. Upto(grown, n) \o tail.history = tail.was.history
        BY <4>5, <4>7, <4>10, <4>11
      <4>13. Answered(tail)'
        BY <1>1, <4>3, <4>4, <4>7, <4>9, <4>12 DEF Answered
      <4> QED  BY <1>2, <4>13 DEF RejoinsNow
    <3> QED  BY <3>2, <3>3
  <2>4. Len(redo') = Len(redo) /\ \A i \in 1..Len(redo) : redo'[i].payload = redo[i].payload
    BY <1>1
  <2> QED  BY <1>3, <2>3, <2>4, ExactStill
<1> QED  BY <1>4, <1>5

LEMMA ExactEnd ==
  ASSUME Typed, ExactInv, End
  PROVE  ExactInv'
<1>1. stage = "ending" /\ stage' = "saving" /\ UNCHANGED redo
  BY DEF End, undoing
<1>2. InTurn /\ ~InTurn' /\ PlanInv'
  BY <1>1 DEF InTurn, PlanInv
<1>3. ASSUME NEW j \in 1..Len(redo), InLine(redo[j]),
             NEW tail, tail = redo[j].payload[1], RejoinsNow(tail)
      PROVE  RejoinsNow(tail)'
  <2>1. Unanswered(tail) \/ Answered(tail)
    BY <1>2, <1>3 DEF RejoinsNow
  <2>2. CASE Unanswered(tail)
    <3>1. messages' = Front(messages) /\ history' = Front(history)
      BY <2>2 DEF Unanswered, End, Orphaned
    <3>2. Rejoins(tail, Known(Front(messages)), Len(Front(messages)), Front(history))
      BY <2>2 DEF Unanswered
    <3>3. Rejoins(tail, Known(messages'), Len(messages'), history')
      BY <3>1, <3>2
    <3> QED  BY <1>2, <3>3 DEF RejoinsNow
  <2>3. CASE Answered(tail)
    <3>1. UNCHANGED history
      BY <2>3 DEF Answered, End
    <3>2. tail.mark.history \in Nat /\ Len(history) \in Nat
      <4>1. tail \in Tails
        BY <1>3, TailsInLine DEF InLine
      <4>2. Len(history) \in Nat
        BY SeqAt DEF Typed, ListTypes
      <4> QED  BY <4>1, <4>2 DEF Tails, Lengths
    <3>3. /\ tail.mark.history < Len(history)
          /\ Upto(history, tail.mark.history) \o tail.history = tail.was.history
      BY <2>3 DEF Answered
    <3>4. tail.mark.history <= Len(history) /\ ~(Len(history) = tail.mark.history)
      BY <3>2, <3>3
    <3>5. Rejoins(tail, Known(messages'), Len(messages'), history)
      BY <3>3, <3>4 DEF Rejoins
    <3> QED  BY <1>2, <3>1, <3>5 DEF RejoinsNow
  <2> QED  BY <2>1, <2>2, <2>3
<1>4. Len(redo') = Len(redo) /\ \A i \in 1..Len(redo) : redo'[i].payload = redo[i].payload
  BY <1>1
<1> QED  BY <1>2, <1>3, <1>4, ExactStill

LEMMA ExactClear ==
  ASSUME Typed, Clear
  PROVE  ExactInv'
<1>1. stage = "idle" /\ UNCHANGED stage /\ redo' = [i \in DOMAIN redo |-> [redo[i] EXCEPT !.payload = << >>]]
  BY DEF Clear
<1>2. PlanInv'
  BY <1>1 DEF PlanInv, InTurn
<1>3. \A j \in 1..Len(redo') : redo'[j].payload = << >>
  BY <1>1, ClearedLine DEF Typed, UndoTypes
<1>4. \A j \in 1..Len(redo') : ~InLine(redo'[j])
  BY <1>3 DEF InLine, Stashes
<1> QED  BY <1>2, <1>4, NoTails

LEMMA ExactCrash ==
  ASSUME Crash
  PROVE  ExactInv'
<1>1. stage' = "idle" /\ redo' = << >>
  BY DEF Crash
<1>2. PlanInv'
  BY <1>1 DEF PlanInv, InTurn
<1> QED  BY <1>1, <1>2, EmptyTails

\* What is above a tail in part of the line was above it in the line.
LEMMA RejoinedPart ==
  ASSUME NEW line, NEW new, NEW j, j \in 1..Len(line), j \in 1..Len(new),
         \A i \in 1..Len(new) : Stashes(new[i]) => i \in 1..Len(line),
         \A i \in 1..Len(line) : i \in 1..Len(new) => new[i] = line[i],
         \A i \in 1..Len(line), k \in 1..Len(new) : i < k => i \in 1..Len(new),
         Rejoined(j, line)
  PROVE  Rejoined(j, new)
<1>1. new[j] = line[j]
  OBVIOUS
<1>2. \A k \in 1..Len(new) : Stashes(new[k]) => k \in 1..Len(line) /\ Stashes(line[k]) /\ new[k] = line[k]
  OBVIOUS
<1>3. ASSUME NEW k \in 1..Len(new), NextAbove(j, k, new)  PROVE NextAbove(j, k, line)
  <2>1. j < k /\ k \in 1..Len(line) /\ Stashes(line[k])
    BY <1>2, <1>3 DEF NextAbove
  <2>2. \A i \in 1..Len(line) : j < i /\ i < k => ~Stashes(line[i])
    BY <1>3 DEF NextAbove
  <2> QED  BY <2>1, <2>2 DEF NextAbove
<1>4. \A k \in 1..Len(new) : j < k /\ Stashes(new[k]) => InLine(new[k])
  BY <1>2 DEF Rejoined
<1>5. ASSUME NEW k \in 1..Len(new), NextAbove(j, k, new)
      PROVE  LET above == new[k].payload[1] IN
               Rejoins(new[j].payload[1], above.was.known, above.mark.messages + Len(above.messages), above.was.history)
  <2>1. NextAbove(j, k, line) /\ k \in 1..Len(line) /\ new[k] = line[k]
    BY <1>2, <1>3, <1>5 DEF NextAbove
  <2> QED  BY <1>1, <2>1 DEF Rejoined
<1> QED  BY <1>1, <1>4, <1>5 DEF Rejoined

\* The tail that a rewind cuts off, and where it belongs.
LEMMA CutOffRejoins ==
  ASSUME Typed, LengthInv, NEW cp \in Remembered, Rewind(cp)
  PROVE  LET tail == CutOff(cp) IN
         /\ Rejoins(tail, Known(messages'), Len(messages'), history')
         /\ tail.mark.messages + Len(tail.messages) = Len(messages)
         /\ tail.mark.messages = 0 => Known(tail.messages) = Known(messages)
<1>1. PICK m \in Nat, n \in Nat : m = cp.mark.messages /\ n = cp.mark.history
  BY DEF Remembered, Lengths
<1>2. messages' = Upto(messages, m) /\ history' = Upto(history, n)
  BY <1>1 DEF Rewind
<1>3. messages \in Seq(Texts) /\ history \in Seq(Shows)
  BY DEF Typed, ListTypes
<1>4. PICK texts \in Seq(Texts) : texts = SubSeq(messages, m + 1, Len(messages))
  <2>1. SubSeq(messages, m + 1, Len(messages)) \in Seq(Texts)
    BY <1>3, SuffixAt
  <2> QED  BY <2>1
<1>5. PICK shows \in Seq(Shows) : shows = SubSeq(history, n + 1, Len(history))
  <2>1. SubSeq(history, n + 1, Len(history)) \in Seq(Shows)
    BY <1>3, SuffixAt
  <2> QED  BY <2>1
<1>6. /\ Len(messages') + Len(texts) = Len(messages)
      /\ Len(messages') = 0 => texts = messages
  <2>1. LET p == Upto(messages, m)
            r == SubSeq(messages, m + 1, Len(messages))
        IN  /\ p \o r = messages /\ Len(p) + Len(r) = Len(messages)
            /\ Len(p) = 0 => r = messages
    BY <1>3, SplitJoined
  <2> QED  BY <1>2, <1>4, <2>1
<1>7. history' \o shows = history
  <2>1. LET p == Upto(history, n)
            r == SubSeq(history, n + 1, Len(history))
        IN  /\ p \o r = history /\ Len(p) + Len(r) = Len(history)
            /\ Len(p) = 0 => r = history
    BY <1>3, SplitJoined
  <2> QED  BY <1>2, <1>5, <2>1
<1>8. Known(messages') \cup Known(texts) = Known(messages)
  <2>1. /\ Known(messages) = Known(Upto(messages, m)) \cup Known(SubSeq(messages, m + 1, Len(messages)))
        /\ PromptsOf(messages) = PromptsOf(Upto(messages, m)) \cup PromptsOf(SubSeq(messages, m + 1, Len(messages)))
    BY <1>3, SaysInTwo
  <2> QED  BY <1>2, <1>4, <2>1
<1>9. Upto(history', Len(history')) = history' /\ Len(history') \in Nat
  <2>1. PICK h \in Seq(Shows) : h = history'
    BY <1>2, <1>3, PrefixAt
  <2>2. Len(h) \in Nat
    BY SeqAt
  <2>3. PICK k \in Nat : k = Len(h)
    BY <2>2
  <2>4. k >= Len(h) => Upto(h, k) = h
    BY PrefixAt
  <2>5. Upto(h, k) = h
    BY <2>3, <2>4
  <2> QED  BY <2>1, <2>2, <2>3, <2>5
<1>10. PICK tail : tail = CutOff(cp)
  OBVIOUS
<1>11. /\ tail.mark.messages = Len(messages') /\ tail.mark.history = Len(history')
       /\ tail.messages = texts /\ tail.history = shows
       /\ tail.was.known = Known(messages) /\ tail.was.history = history
  BY <1>1, <1>4, <1>5, <1>10 DEF CutOff
<1>12. Rejoins(tail, Known(messages'), Len(messages'), history')
  <2>1. tail.mark.history <= Len(history')
    BY <1>9, <1>11
  <2>2. Upto(history', tail.mark.history) \o tail.history = tail.was.history
    BY <1>7, <1>9, <1>11
  <2>3. Known(messages') \cup Known(tail.messages) = tail.was.known
    BY <1>8, <1>11
  <2> QED  BY <2>1, <2>2, <2>3 DEF Rejoins
<1> QED  BY <1>6, <1>10, <1>11, <1>12

LEMMA ExactRewind ==
  ASSUME Typed, LengthInv, ExactInv, Undo \/ RestoreTo
  PROVE  ExactInv'
<1>1. PICK cp \in Range(checkpoints), more \in Seq(RedoEntries) :
        /\ Rewind(cp) /\ redo' = redo \o more
        /\ Len(more) \in Nat \ {0} /\ more[1].payload = Stashed(cp)
        /\ \A j \in 2..Len(more) : more[j].payload = << >>
  BY RewindForm
<1>2. ~InTurn /\ ~InTurn' /\ PlanInv'
  BY DEF Undo, RestoreTo, InTurn, PlanInv
<1>3. cp \in Remembered /\ redo \in Seq(RedoEntries)
  BY InRange DEF Typed, UndoTypes
<1>4. PICK size \in Nat : size = Len(redo)
  BY <1>3, SeqAt
<1>5. /\ Len(redo') = size + Len(more) /\ \A i \in 1..size : redo'[i] = redo[i]
      /\ redo'[size + 1].payload = Stashed(cp)
      /\ \A i \in 1..Len(redo') : i <= size \/ i = size + 1 \/ redo'[i].payload = << >>
  <2>1. /\ Len(redo \o more) = Len(redo) + Len(more)
        /\ \A i \in 1..Len(redo) : (redo \o more)[i] = redo[i]
        /\ \A i \in 1..Len(more) : (redo \o more)[Len(redo) + i] = more[i]
    BY <1>3, ConcatAt
  <2>2. Len(redo') = size + Len(more) /\ \A i \in 1..size : redo'[i] = redo[i]
    BY <1>1, <1>4, <2>1
  <2>3. \A i \in 1..Len(more) : redo'[size + i] = more[i]
    BY <1>1, <1>4, <2>1
  <2>4. redo'[size + 1].payload = Stashed(cp)
    <3>1. 1 \in 1..Len(more)
      BY <1>1
    <3> QED  BY <1>1, <2>3, <3>1
  <2>5. ASSUME NEW i \in 1..Len(redo')  PROVE i <= size \/ i = size + 1 \/ redo'[i].payload = << >>
    <3> SUFFICES ASSUME ~(i <= size), i # size + 1  PROVE redo'[i].payload = << >>
      OBVIOUS
    <3>1. i - size \in 2..Len(more) /\ i - size \in 1..Len(more) /\ size + (i - size) = i
      BY <1>1, <2>2
    <3>2. redo'[size + (i - size)] = more[i - size] /\ more[i - size].payload = << >>
      BY <1>1, <2>3, <3>1
    <3> QED  BY <3>1, <3>2
  <2> QED  BY <2>2, <2>4, <2>5
<1>6. /\ size + 1 \in 1..Len(redo') /\ \A i \in 1..size : i \in 1..Len(redo) /\ i \in 1..Len(redo') /\ i < size + 1
      /\ \A i \in 1..Len(redo') : Stashes(redo'[i]) => i \in 1..size \/ i = size + 1
      /\ \A i \in 1..Len(redo') : i < size + 1 => i \in 1..size
  <2>1. \A i \in 1..Len(redo') : i <= size => i \in 1..size
    OBVIOUS
  <2>2. Len(redo') \in Nat /\ size + 1 <= Len(redo')
    BY <1>1, <1>5
  <2> QED  BY <1>1, <1>4, <1>5, <2>1, <2>2 DEF Stashes
<1>7. Stashes(redo'[size + 1]) <=> Stashed(cp) # << >>
  BY <1>5 DEF Stashes
<1>8. \A j \in 1..size : InLine(redo[j]) =>
        Rejoined(j, redo) /\ (Topmost(j, redo) => Rejoins(redo[j].payload[1], Known(messages), Len(messages), history))
  BY <1>2, <1>6 DEF ExactInv, RejoinsNow
<1>9. CASE Stashed(cp) = << >>
  <2>1. UNCHANGED <<messages, history>>
    BY <1>9 DEF Stashed
  <2>2. ASSUME NEW j \in 1..Len(redo'), InLine(redo'[j])
        PROVE  Rejoined(j, redo') /\ (Topmost(j, redo') => RejoinsNow(redo[j].payload[1])')
    <3>1. j \in 1..size /\ redo'[j] = redo[j] /\ InLine(redo[j])
      BY <1>5, <1>6, <1>7, <1>9, <2>2 DEF InLine
    <3>2. Rejoined(j, redo')
      <4>1. \A i \in 1..Len(redo') : Stashes(redo'[i]) => i \in 1..Len(redo)
        BY <1>4, <1>6, <1>7, <1>9
      <4>2. \A i \in 1..Len(redo) : i \in 1..Len(redo') /\ redo'[i] = redo[i]
        BY <1>4, <1>5, <1>6
      <4>3. j \in 1..Len(redo) /\ Rejoined(j, redo)
        BY <1>4, <1>8, <3>1
      <4> QED  BY <4>1, <4>2, <4>3, RejoinedPart
    <3>3. ASSUME Topmost(j, redo')  PROVE RejoinsNow(redo[j].payload[1])'
      <4>1. Topmost(j, redo)
        BY <1>4, <1>5, <1>6, <3>3 DEF Topmost
      <4>2. PICK tail : tail = redo[j].payload[1] /\ tail = redo'[j].payload[1]
        BY <3>1
      <4>3. Rejoins(tail, Known(messages'), Len(messages'), history')
        BY <1>8, <2>1, <3>1, <4>1, <4>2
      <4> QED  BY <1>2, <4>2, <4>3 DEF RejoinsNow
    <3> QED  BY <3>2, <3>3
  <2> QED  BY <1>2, <2>2 DEF ExactInv
<1>10. CASE Stashed(cp) # << >>
  <2>1. PICK top : top = CutOff(cp)
    OBVIOUS
  <2>2. /\ redo'[size + 1].payload[1] = top /\ InLine(redo'[size + 1]) /\ Stashes(redo'[size + 1])
        /\ top.was.known = Known(messages) /\ top.was.history = history
    <3>1. Stashed(cp)[1] = CutOff(cp)
      BY <1>1, <1>3, <1>10, RewindAt
    <3> QED  BY <1>5, <1>7, <1>10, <2>1, <3>1 DEF InLine, CutOff
  <2>3. /\ Rejoins(top, Known(messages'), Len(messages'), history')
        /\ top.mark.messages + Len(top.messages) = Len(messages)
        /\ top.mark.messages = 0 => Known(top.messages) = Known(messages)
    BY <1>1, <1>3, <2>1, CutOffRejoins
  <2>4. ASSUME NEW j \in 1..size, InLine(redo[j])  PROVE Rejoined(j, redo')
    <3>1. j \in 1..Len(redo') /\ j \in 1..Len(redo) /\ j < size + 1 /\ redo'[j] = redo[j]
      BY <1>5, <1>6
    <3>2. Rejoined(j, redo)
      BY <1>8, <2>4
    <3>3. ASSUME NEW k \in 1..Len(redo'), j < k /\ Stashes(redo'[k])  PROVE InLine(redo'[k])
      <4>1. CASE k = size + 1
        BY <2>2, <4>1
      <4>2. CASE k \in 1..size
        BY <1>5, <1>6, <3>2, <3>3, <4>2 DEF Rejoined
      <4> QED  BY <1>6, <3>3, <4>1, <4>2
    <3>4. ASSUME NEW k \in 1..Len(redo'), NextAbove(j, k, redo')
          PROVE  LET above == redo'[k].payload[1] IN
                   Rejoins(redo'[j].payload[1], above.was.known, above.mark.messages + Len(above.messages), above.was.history)
      <4>1. CASE k = size + 1
        <5>1. \A i \in 1..Len(redo) : j < i => ~Stashes(redo[i])
          BY <1>4, <1>5, <1>6, <3>4, <4>1 DEF NextAbove
        <5>2. Rejoins(redo[j].payload[1], Known(messages), Len(messages), history)
          BY <1>8, <2>4, <5>1 DEF Topmost
        <5> QED  BY <2>2, <2>3, <3>1, <4>1, <5>2
      <4>2. CASE k \in 1..size
        <5>1. k \in 1..Len(redo) /\ redo'[k] = redo[k] /\ j < k /\ Stashes(redo[k])
          BY <1>5, <1>6, <3>4, <4>2 DEF NextAbove
        <5>2. \A i \in 1..Len(redo) : j < i /\ i < k => ~Stashes(redo[i])
          BY <1>4, <1>5, <1>6, <3>4 DEF NextAbove
        <5>3. NextAbove(j, k, redo)
          BY <5>1, <5>2 DEF NextAbove
        <5> QED  BY <3>1, <3>2, <5>1, <5>3 DEF Rejoined
      <4> QED  BY <1>6, <3>4, <4>1, <4>2 DEF NextAbove
    <3>5. redo'[j].payload[1].mark.messages = 0 => Known(redo'[j].payload[1].messages) = redo'[j].payload[1].was.known
      BY <3>1, <3>2 DEF Rejoined
    <3> QED  BY <3>3, <3>4, <3>5 DEF Rejoined
  <2>5. Rejoined(size + 1, redo')
    <3>1. \A k \in 1..Len(redo') : size + 1 < k => ~Stashes(redo'[k])
      BY <1>6
    <3>2. \A k \in 1..Len(redo') : ~NextAbove(size + 1, k, redo')
      BY <3>1 DEF NextAbove
    <3>3. redo'[size + 1].payload[1].mark.messages = 0 =>
            Known(redo'[size + 1].payload[1].messages) = redo'[size + 1].payload[1].was.known
      BY <2>2, <2>3
    <3> QED  BY <3>1, <3>2, <3>3 DEF Rejoined
  <2>6. ASSUME NEW j \in 1..Len(redo'), InLine(redo'[j])
        PROVE  Rejoined(j, redo') /\ (Topmost(j, redo') => RejoinsNow(redo[j].payload[1])')
    <3>1. CASE j = size + 1
      <4>1. PICK tail : tail = redo'[j].payload[1] /\ tail = top
        BY <2>2, <3>1
      <4>2. RejoinsNow(tail)'
        BY <1>2, <2>3, <4>1 DEF RejoinsNow
      <4>3. RejoinsNow(redo[j].payload[1])'
        BY <4>1, <4>2 DEF RejoinsNow, Unanswered, Answered
      <4> QED  BY <2>5, <3>1, <4>3
    <3>2. CASE j \in 1..size
      <4>1. InLine(redo[j])
        BY <1>5, <2>6, <3>2
      <4>2. ~Topmost(j, redo')
        BY <1>6, <2>2, <3>2 DEF Topmost
      <4> QED  BY <2>4, <3>2, <4>1, <4>2
    <3> QED  BY <1>6, <2>6, <3>1, <3>2 DEF InLine
  <2> QED  BY <1>2, <2>6 DEF ExactInv
<1> QED  BY <1>9, <1>10

\* The tail of the topmost step, put back where it was cut off.
LEMMA RedoneIsExact ==
  ASSUME Typed, ExactInv, Redo, Fits(Last(redo)), Last(redo).payload[1].inLine
  PROVE  LET tail == Last(redo).payload[1] IN
         /\ Known(messages') = tail.was.known /\ history' = tail.was.history
         /\ Len(messages') = tail.mark.messages + Len(tail.messages)
<1>1. PICK top \in Nat : top = Len(redo) /\ top \in 1..Len(redo) /\ Last(redo) = redo[top]
  BY RedoLists, SeqAt DEF Typed, UndoTypes
<1>2. Stashes(redo[top]) /\ InLine(redo[top]) /\ redo[top].payload[1].mark = Mark
  BY <1>1 DEF Fits, Stashes, InLine
<1>3. PICK tail \in Tails : tail = redo[top].payload[1]
  BY <1>1, <1>2, TailsInLine
<1>4. stage = "idle" /\ messages' = messages \o tail.messages /\ history' = history \o tail.history
  BY <1>1, <1>3 DEF Redo
<1>5. tail.mark.messages = Len(messages) /\ tail.mark.history = Len(history)
  BY <1>2, <1>3 DEF Mark
<1>6. /\ messages \in Seq(Texts) /\ history \in Seq(Shows)
      /\ tail.messages \in Seq(Texts) /\ tail.history \in Seq(Shows)
  BY DEF Typed, ListTypes, Tails
<1>7. Topmost(top, redo)
  BY <1>1 DEF Topmost
<1>8. Rejoined(top, redo) /\ RejoinsNow(tail)
  BY <1>1, <1>2, <1>3, <1>7 DEF ExactInv
<1>9. Rejoins(tail, Known(messages), Len(messages), history)
  BY <1>4, <1>8 DEF RejoinsNow, InTurn
<1>10. history' = tail.was.history
  <2>1. PICK n \in Nat : n = Len(history)
    BY <1>6, SeqAt
  <2>2. n >= Len(history) => Upto(history, n) = history
    BY <1>6, PrefixAt
  <2>3. Upto(history, Len(history)) = history
    BY <2>1, <2>2
  <2>4. Upto(history, Len(history)) \o tail.history = tail.was.history
    BY <1>5, <1>9 DEF Rejoins
  <2> QED  BY <1>4, <2>3, <2>4
<1>11. Known(messages') = Known(messages) \cup Known(tail.messages)
  <2>1. PICK more \in Seq(Texts) : more = tail.messages
    BY <1>6
  <2>2. Known(messages \o more) = Known(messages) \cup Known(more)
    BY <1>6, SaysJoined
  <2> QED  BY <1>4, <2>1, <2>2
<1>12. Known(messages') = tail.was.known
  <2>1. CASE Len(messages) = 0
    <3>1. messages = << >>
      BY <1>6, <2>1, SeqAt
    <3>2. Known(messages) = {}
      BY <3>1, SaysNothing
    <3>3. Known(tail.messages) = tail.was.known
      BY <1>3, <1>5, <1>8, <2>1 DEF Rejoined
    <3> QED  BY <1>11, <3>2, <3>3
  <2>2. CASE Len(messages) # 0
    BY <1>5, <1>9, <1>11, <2>2 DEF Rejoins
  <2> QED  BY <2>1, <2>2
<1>13. Len(messages') = tail.mark.messages + Len(tail.messages)
  <2>1. PICK more \in Seq(Texts) : more = tail.messages
    BY <1>6
  <2>2. Len(messages \o more) = Len(messages) + Len(more)
    BY <1>6, ConcatAt
  <2> QED  BY <1>4, <1>5, <2>1, <2>2
<1> QED  BY <1>1, <1>3, <1>10, <1>12, <1>13

LEMMA ExactRedo ==
  ASSUME Typed, ExactInv, Redo
  PROVE  ExactInv'
<1>1. PICK top \in Nat : top = Len(redo) /\ top \in 1..Len(redo) /\ Last(redo) = redo[top]
  BY RedoLists, SeqAt DEF Typed, UndoTypes
<1>2. ~InTurn /\ ~InTurn' /\ PlanInv'
  BY DEF Redo, InTurn, PlanInv
<1>3. PICK rest \in Seq(RedoEntries) :
        /\ rest = Front(redo) /\ Len(rest) = top - 1
        /\ \A i \in 1..Len(rest) : rest[i] = redo[i]
  <2>1. redo \in Seq(RedoEntries) /\ redo # << >>
    BY DEF Typed, UndoTypes, Redo
  <2>2. /\ Front(redo) \in Seq(RedoEntries) /\ Len(Front(redo)) = Len(redo) - 1
        /\ \A i \in 1..Len(Front(redo)) : Front(redo)[i] = redo[i]
    BY <2>1, FrontAt
  <2> QED  BY <1>1, <2>2
<1>4. \A i \in 1..Len(redo) : i \in 1..Len(rest) \/ i = top
  BY <1>1, <1>3
<1>5. \A i \in 1..Len(rest) : i \in 1..Len(redo) /\ i < top
  BY <1>1, <1>3
<1>6. ASSUME NEW j \in 1..Len(rest), InLine(rest[j])
      PROVE  /\ Rejoined(j, redo) /\ InLine(redo[j]) /\ Rejoined(j, rest)
             /\ Topmost(j, redo) => RejoinsNow(redo[j].payload[1])
  <2>1. j \in 1..Len(redo) /\ InLine(redo[j])
    BY <1>3, <1>5, <1>6
  <2>2. Rejoined(j, redo) /\ (Topmost(j, redo) => RejoinsNow(redo[j].payload[1]))
    BY <2>1 DEF ExactInv
  <2>3. Rejoined(j, rest)
    <3>1. \A i \in 1..Len(redo), k \in 1..Len(rest) : i < k => i \in 1..Len(rest)
      BY <1>3, <1>4, <1>5
    <3>2. \A i \in 1..Len(rest) : Stashes(rest[i]) => i \in 1..Len(redo)
      BY <1>5
    <3>3. \A i \in 1..Len(redo) : i \in 1..Len(rest) => rest[i] = redo[i]
      BY <1>3
    <3> QED  BY <2>1, <2>2, <3>1, <3>2, <3>3, RejoinedPart
  <2> QED  BY <2>1, <2>2, <2>3
<1>7. CASE ~Stashes(redo[top])
  <2>1. redo' = rest /\ UNCHANGED <<messages, history>>
    BY <1>1, <1>3, <1>7 DEF Redo, Fits, Stashes, lists
  <2>2. ASSUME NEW j \in 1..Len(rest), InLine(rest[j]), Topmost(j, rest)
        PROVE  RejoinsNow(redo[j].payload[1])'
    <3>1. Topmost(j, redo)
      BY <1>3, <1>4, <1>7, <2>2 DEF Topmost
    <3>2. PICK tail : tail = redo[j].payload[1] /\ tail = redo'[j].payload[1]
      BY <1>3, <2>1
    <3>3. RejoinsNow(tail)
      BY <1>6, <2>2, <3>1, <3>2
    <3>4. Rejoins(tail, Known(messages'), Len(messages'), history')
      BY <1>2, <2>1, <3>3 DEF RejoinsNow
    <3> QED  BY <1>2, <3>2, <3>4 DEF RejoinsNow
  <2> QED  BY <1>2, <1>6, <2>1, <2>2 DEF ExactInv
<1>8. CASE Stashes(redo[top]) /\ ~Fits(redo[top])
  <2>1. redo' = Broken(rest)
    BY <1>1, <1>3, <1>8 DEF Redo, Stashes
  <2>2. ASSUME NEW j \in 1..Len(redo')  PROVE ~InLine(redo'[j])
    <3>1. j \in 1..Len(rest)
      BY <2>1, BrokenLine
    <3>2. /\ rest[j].payload = << >> => redo'[j].payload = << >>
          /\ rest[j].payload # << >> =>
               redo'[j].payload[1] = [rest[j].payload[1] EXCEPT !.inLine = FALSE] /\ rest[j].payload[1] \in Tails
      BY <2>1, <3>1, BrokenLine
    <3> QED  BY <3>2 DEF InLine, Stashes, Tails
  <2> QED  BY <1>2, <2>2, NoTails
<1>9. CASE Stashes(redo[top]) /\ Fits(redo[top])
  <2>1. redo' = rest
    BY <1>1, <1>3, <1>9 DEF Redo
  <2>2. CASE ~InLine(redo[top])
    <3>1. ASSUME NEW j \in 1..Len(rest), InLine(rest[j])  PROVE FALSE
      <4>1. Rejoined(j, redo)
        BY <1>6, <3>1
      <4>2. top \in 1..Len(redo) /\ j < top
        BY <1>1, <1>5
      <4> QED  BY <1>9, <2>2, <4>1, <4>2 DEF Rejoined
    <3> QED  BY <1>2, <2>1, <3>1, NoTails
  <2>3. CASE InLine(redo[top])
    <3>1. PICK above : above = redo[top].payload[1]
      OBVIOUS
    <3>2. /\ Known(messages') = above.was.known /\ history' = above.was.history
          /\ Len(messages') = above.mark.messages + Len(above.messages)
      BY <1>1, <1>9, <2>3, <3>1, RedoneIsExact DEF InLine
    <3>3. ASSUME NEW j \in 1..Len(rest), InLine(rest[j]), Topmost(j, rest)
          PROVE  RejoinsNow(redo[j].payload[1])'
      <4>1. NextAbove(j, top, redo)
        BY <1>1, <1>3, <1>4, <1>5, <1>9, <3>3 DEF NextAbove, Topmost
      <4>2. PICK tail : tail = redo[j].payload[1] /\ tail = redo'[j].payload[1]
        BY <1>3, <2>1
      <4>3. Rejoins(tail, above.was.known, above.mark.messages + Len(above.messages), above.was.history)
        BY <1>1, <1>6, <3>1, <3>3, <4>1, <4>2 DEF Rejoined
      <4>4. Rejoins(tail, Known(messages'), Len(messages'), history')
        BY <3>2, <4>3
      <4> QED  BY <1>2, <4>2, <4>4 DEF RejoinsNow
    <3> QED  BY <1>2, <1>6, <2>1, <3>3 DEF ExactInv
  <2> QED  BY <2>2, <2>3
<1> QED  BY <1>7, <1>8, <1>9

LEMMA ExactStep ==
  ASSUME Typed, Typed', LengthInv, ChainInv, ExactInv, [SessionNext]_vars
  PROVE  ExactInv'
<1>1. ASSUME NEW m \in {"execute", "plan"}, Begin(m)  PROVE ExactInv'
  BY <1>1, ExactBegin
<1>2. CASE EndsEarly \/ FitSkipped \/ Send \/ SetGoal \/ UNCHANGED vars
  BY <1>2, ExactQuiet
<1>3. CASE Edit \/ StepEnd
  BY <1>3, ExactStream
<1>4. CASE Fit \/ CompactNow
  BY <1>4, ExactShrink
<1>5. ASSUME NEW text \in BOOLEAN, Reply(text) \/ Break(text)  PROVE ExactInv'
  BY <1>5, ExactStreamed
<1>6. CASE End
  BY <1>6, ExactEnd
<1>7. ASSUME NEW green \in BOOLEAN, Saved(green)  PROVE ExactInv'
  BY <1>7, ExactQuiet DEF Saved
<1>8. CASE Clear
  BY <1>8, ExactClear
<1>9. CASE Undo \/ RestoreTo
  BY <1>9, ExactRewind
<1>10. CASE Redo
  BY <1>10, ExactRedo
<1>11. CASE Crash
  BY <1>11, ExactCrash
<1> QED  BY <1>1, <1>2, <1>3, <1>4, <1>5, <1>6, <1>7, <1>8, <1>9, <1>10, <1>11 DEF SessionNext

\* All that a /redo relies on.
RedoingInv == Typed /\ LengthInv /\ ChainInv /\ ExactInv

\* A /redo that brings back a tail brings back the conversation as it was at the
\* /undo, if every /redo since then brought back its own: for any number of turns,
\* rewinds, compactions and crashes in between.
THEOREM RedoesAreExact == SessionSpec => RedoIsExact
<1>1. SessionInit => RedoingInv
  <2> SUFFICES ASSUME SessionInit  PROVE RedoingInv
    OBVIOUS
  <2>1. Typed /\ LengthInv /\ ChainInv
    BY TypeInit, SaysInit
  <2>2. redo = << >> /\ stage = "idle"
    BY DEF SessionInit
  <2>3. Len(redo) = 0
    BY <2>2, NoneIn
  <2> QED  BY <2>1, <2>2, <2>3 DEF RedoingInv, ExactInv, PlanInv, InTurn
<1>2. RedoingInv /\ [SessionNext]_vars => RedoingInv'
  BY TypeStep, ChainStep, ExactStep DEF RedoingInv
<1>3. RedoingInv /\ [SessionNext]_vars =>
        [Redo /\ Fits(Last(redo)) /\ Last(redo).payload[1].inLine => IsExact(Last(redo))]_vars
  BY RedoneIsExact DEF RedoingInv, IsExact
<1> QED  BY <1>1, <1>2, <1>3, PTL DEF SessionSpec, RedoIsExact
====
