------------------------------ MODULE Limiter ------------------------------
(***************************************************************************)
(* The tree-global AIMD gate on agent turns (core/src/limiter.ts) together *)
(* with the way a session uses it (core/src/session.ts): a turn holds one  *)
(* slot for its whole length, and a turn that awaits spawned children      *)
(* lends its slot back for the span of the await (suspendLimiterSlot).     *)
(*                                                                         *)
(* Each action is one synchronous stretch of JavaScript: nothing can       *)
(* interleave inside it, everything can interleave between two of them.    *)
(***************************************************************************)
EXTENDS Integers, FiniteSets, SequencesExt

CONSTANTS
  Session,        \* the sessions of one agent tree
  Ceiling,            \* subagent.providerConcurrency: initial and maximal ceiling
  Floor,            \* floor of the ceiling, already clamped to Ceiling
  IncreaseEvery,  \* successes between two additive increases
  MaxSpans,       \* BOUND: spawn tools one session keeps in flight at once
  AbandonsTools   \* may the SDK end an aborted turn while tools still run?

ASSUME LimiterAssumption ==
  /\ IsFiniteSet(Session)
  /\ Ceiling \in Nat \ {0}
  /\ Floor \in 1..Ceiling
  /\ IncreaseEvery \in Nat \ {0}
  /\ MaxSpans \in Nat \ {0}
  /\ AbandonsTools \in BOOLEAN

VARIABLES
  limit,      \* current ceiling
  active,     \* slots in use, as the limiter counts them
  successes,  \* successes since the last change of the ceiling
  waiters,    \* FIFO queue of sessions whose acquire is pending
  turn,       \* where each session's turn is
  spans,      \* each session's #limiterSuspends: spawn tools awaiting a child
  aborted     \* has the current turn's abort signal fired?

vars == <<limit, active, successes, waiters, turn, spans, aborted>>

TurnState == {"idle", "preparing", "queued", "running"}

Running == {c \in Session : turn[c] = "running"}
Lending == {c \in Session : spans[c] > 0}

----------------------------------------------------------------------------
(* limiter.ts *)

Init ==
  /\ limit = Ceiling
  /\ active = 0
  /\ successes = 0
  /\ waiters = <<>>
  /\ turn = [c \in Session |-> "idle"]
  /\ spans = [c \in Session |-> 0]
  /\ aborted = [c \in Session |-> FALSE]

\* Mutant of Pump: the newest waiter is popped instead of the oldest shifted.
PumpNewest(lim, act, turns) ==
  LET free == IF act < lim THEN lim - act ELSE 0
      n    == IF Len(waiters) < free THEN Len(waiters) ELSE free
      rest == Len(waiters) - n
  IN /\ active' = act + n
     /\ waiters' = SubSeq(waiters, 1, rest)
     /\ turn' = [c \in Session |->
                   IF \E i \in (rest + 1)..Len(waiters) : waiters[i] = c THEN "running" ELSE turns[c]]

\* pump(): admit queued waiters, oldest first, while the ceiling `lim' allows.
\* `act' and `turns' are the count and the turns just before the pump.
Pump(lim, act, turns) ==
  LET free == IF act < lim THEN lim - act ELSE 0
      n    == IF Len(waiters) < free THEN Len(waiters) ELSE free
      admitted == {waiters[i] : i \in 1..n}
  IN /\ active' = act + n
     /\ waiters' = SubSeq(waiters, n + 1, Len(waiters))
     /\ turn' = [c \in Session |-> IF c \in admitted THEN "running" ELSE turns[c]]

\* onSuccess(): one more success; enough of them raise the ceiling by one.
\* At the maximum nothing is counted.
RaisedLimit == IF limit < Ceiling /\ successes + 1 >= IncreaseEvery THEN limit + 1 ELSE limit
CountedSuccesses ==
  IF limit >= Ceiling THEN successes
  ELSE IF successes + 1 >= IncreaseEvery THEN 0 ELSE successes + 1

\* Mutant of LoweredLimit: the floor is forgotten.
HalvedLimit == limit \div 2

\* onOverload(): halve the ceiling, never below the floor.
LoweredLimit == IF limit \div 2 > Floor THEN limit \div 2 ELSE Floor

----------------------------------------------------------------------------
(* A session's turn *)

\* run(): a fresh abort controller, then model resolution, compaction, ...
Begin(c) ==
  /\ turn[c] = "idle"
  /\ turn' = [turn EXCEPT ![c] = "preparing"]
  /\ aborted' = [aborted EXCEPT ![c] = FALSE]
  /\ UNCHANGED <<limit, active, successes, waiters, spans>>

\* The turn ends before it asks for a slot: the budget refuses it, the model
\* does not resolve, or acquire() finds the signal already aborted.
GiveUp(c) ==
  /\ turn[c] = "preparing"
  /\ turn' = [turn EXCEPT ![c] = "idle"]
  /\ UNCHANGED <<limit, active, successes, waiters, spans, aborted>>

\* limiter.run() -> acquire(signal): a free slot is taken at once, otherwise
\* the turn queues.
Acquire(c) ==
  /\ turn[c] = "preparing" /\ ~aborted[c]
  /\ \/ /\ active < limit
        /\ active' = active + 1
        /\ turn' = [turn EXCEPT ![c] = "running"]
        /\ UNCHANGED waiters
     \/ /\ active >= limit
        /\ waiters' = Append(waiters, c)
        /\ turn' = [turn EXCEPT ![c] = "queued"]
        /\ UNCHANGED active
  /\ UNCHANGED <<limit, successes, spans, aborted>>

\* Mutant of Abort: the pending acquire does not listen to the signal.
AbortDeaf(c) ==
  /\ turn[c] # "idle" /\ ~aborted[c]
  /\ aborted' = [aborted EXCEPT ![c] = TRUE]
  /\ UNCHANGED <<limit, active, successes, waiters, turn, spans>>

\* abort(): fire the turn's signal. A pending acquire removes itself from the
\* queue and rejects, which ends the turn; a running turn goes on unwinding.
Abort(c) ==
  /\ turn[c] # "idle" /\ ~aborted[c]
  /\ aborted' = [aborted EXCEPT ![c] = TRUE]
  /\ \/ /\ turn[c] = "queued"
        /\ \E i \in 1..Len(waiters) :
             waiters[i] = c /\ waiters' = RemoveAt(waiters, i)
        /\ turn' = [turn EXCEPT ![c] = "idle"]
     \/ /\ turn[c] # "queued"
        /\ UNCHANGED <<waiters, turn>>
  /\ UNCHANGED <<limit, active, successes, spans>>

\* The turn's function settled: onSuccess() or onOverload() or neither, then
\* release() in the finally. Pumping after both is pumping after each.
\* The turn awaits its spawn tools unless it was aborted and the SDK gave up
\* on them.
Settled(c) ==
  /\ turn[c] = "running"
  /\ spans[c] = 0 \/ (aborted[c] /\ AbandonsTools)

\* Mutant of EndTurn: release() forgets to pump.
EndTurnNoPump(c, outcome) ==
  /\ Settled(c)
  /\ limit' = IF outcome = "overload" THEN LoweredLimit ELSE limit
  /\ active' = active - 1
  /\ turn' = [turn EXCEPT ![c] = "idle"]
  /\ UNCHANGED <<successes, waiters, spans, aborted>>

EndTurn(c, outcome) ==
  /\ Settled(c)
  /\ limit' = CASE outcome = "success"  -> RaisedLimit
                [] outcome = "overload" -> LoweredLimit
                [] OTHER                -> limit
  /\ successes' = CASE outcome = "success"  -> CountedSuccesses
                    [] outcome = "overload" -> 0
                    [] OTHER                -> successes
  /\ Pump(limit', active - 1, [turn EXCEPT ![c] = "idle"])
  /\ UNCHANGED <<spans, aborted>>

\* Mutant of OpenSpan: every span lends the slot, the first one or not.
OpenSpanUncounted(c, d) ==
  /\ turn[c] = "running" /\ ~aborted[c]
  /\ turn[d] = "idle"
  /\ spans[c] < MaxSpans
  /\ spans' = [spans EXCEPT ![c] = @ + 1]
  /\ Pump(limit, active - 1, [turn EXCEPT ![d] = "preparing"])
  /\ aborted' = [aborted EXCEPT ![d] = FALSE]
  /\ UNCHANGED <<limit, successes>>

\* suspendLimiterSlot(invoke), up to its first await: only the first open span
\* of c lends c's slot, and the turn of the child d it runs begins inside it.
OpenSpan(c, d) ==
  /\ turn[c] = "running" /\ ~aborted[c]
  /\ turn[d] = "idle"
  /\ spans[c] < MaxSpans
  /\ spans' = [spans EXCEPT ![c] = @ + 1]
  /\ LET begun == [turn EXCEPT ![d] = "preparing"]
     IN IF spans[c] = 0 THEN Pump(limit, active - 1, begun)
        ELSE turn' = begun /\ UNCHANGED <<active, waiters>>
  /\ aborted' = [aborted EXCEPT ![d] = FALSE]
  /\ UNCHANGED <<limit, successes>>

\* suspendLimiterSlot(), the finally: only the last open span reclaims it, by
\* reacquireSlot(), which never queues.
CloseSpan(c) ==
  /\ spans[c] > 0
  /\ spans' = [spans EXCEPT ![c] = @ - 1]
  /\ IF spans[c] = 1 THEN Pump(limit, active + 1, turn)
                     ELSE UNCHANGED <<active, waiters, turn>>
  /\ UNCHANGED <<limit, successes, aborted>>

Outcome == {"success", "overload", "error"}

Next ==
  \E c \in Session :
    \/ Begin(c) \/ GiveUp(c) \/ Acquire(c) \/ Abort(c)
    \/ \E o \in Outcome : EndTurn(c, o)
    \/ \E d \in Session : OpenSpan(c, d)
    \/ CloseSpan(c)

Spec == Init /\ [][Next]_vars

\* A turn takes boundedly many steps (stopWhen: maxSteps), so one that can end
\* again and again does end; a child that was spawned settles.
Fairness ==
  \A c \in Session :
    /\ WF_vars(GiveUp(c) \/ Acquire(c))
    /\ SF_vars(\E o \in Outcome : EndTurn(c, o))
    /\ WF_vars(CloseSpan(c))

FairSpec == Spec /\ Fairness

----------------------------------------------------------------------------
(* Properties *)

\* Every variable has its type; the queue lists each queued session once.
TypeOK ==
  /\ limit \in Floor..Ceiling
  /\ active \in Int
  /\ successes \in 0..(IncreaseEvery - 1)
  /\ waiters \in Seq(Session)
  /\ turn \in [Session -> TurnState]
  /\ spans \in [Session -> 0..MaxSpans]
  /\ aborted \in [Session -> BOOLEAN]

\* The counter is exactly the turns in progress less the slots lent out, over
\* any order of aborts, ceiling changes, nested spans and abandoned tools
\* (limiter.test.ts: "balanced so `active` returns to 0").
Conservation == active = Cardinality(Running) - Cardinality(Lending)

\* No lost wakeup: a turn waits only while the ceiling is reached, and the
\* queue is exactly the queued turns (limiter.ts pump).
NoIdleCapacity ==
  /\ waiters # <<>> => active >= limit
  /\ {waiters[i] : i \in 1..Len(waiters)} = {c \in Session : turn[c] = "queued"}
  /\ \A i, j \in 1..Len(waiters) : waiters[i] = waiters[j] => i = j

\* A turn whose signal fired is never given a slot: neither out of the queue
\* nor from its preparation (session.ts abort: an abort during prep is kept).
AbortedStaysOut ==
  \A c \in Session :
    aborted[c] /\ turn[c] \in {"preparing", "queued"} => turn'[c] # "running"
AbortedIsNotAdmitted == [][AbortedStaysOut]_vars

\* Slots are granted first come, first served: a fresh turn never takes a slot
\* past a queued one, and a queued one never passes an older one.
NoOvertaking ==
  [][/\ \A c \in Session :
          turn[c] = "preparing" /\ turn'[c] = "running" => waiters = <<>>
     /\ \A i, j \in 1..Len(waiters) :
          i < j /\ turn'[waiters[j]] = "running" => turn'[waiters[i]] # "queued"]_vars

\* A queued turn is eventually granted its slot or aborted, although others
\* may lend and reclaim theirs past the queue.
QueuedIsServed == \A c \in Session : turn[c] = "queued" ~> turn[c] # "queued"

=============================================================================
