------------------------------- MODULE FanOut -------------------------------
(***************************************************************************)
(* How one agent tree runs its subagents: the tree-global limiter (module  *)
(* Limiter) composed with each session's own fan-out gate, the semaphore   *)
(* of tools/src/toolset.ts that orchestrator-runner.ts creates per session *)
(* (#childGate).  A child first takes a place in its parent's gate, and    *)
(* only then, inside the gate, is the parent's limiter slot lent and the   *)
(* child's turn begun.  A background (detached) child takes a place in the *)
(* same gate but lends nothing.  Aborts cascade down the tree.             *)
(***************************************************************************)
EXTENDS Limiter

CONSTANTS
  Root,         \* the root session
  Parent,       \* the session each other one is forked from
  MaxDepth,     \* subagent.maxDepth: how deep the tree may nest
  MaxParallel,  \* subagent.maxParallel: places in one session's gate
  MaxDetached,  \* subagent.maxDetached: background children at once
  Timeouts      \* is subagent.timeoutMs non-zero?

Child == Session \ {Root}

ASSUME FanOutAssumption ==
  /\ Root \in Session
  /\ Parent \in [Child -> Session]
  /\ \A s \in Child : Parent[s] # s
  /\ MaxDepth \in Nat \ {0}
  \* the engine floors the ceiling at maxDepth + 1, clamped to the maximum
  /\ Floor = IF MaxDepth + 1 < Ceiling THEN MaxDepth + 1 ELSE Ceiling
  /\ MaxParallel \in Nat \ {0}
  /\ MaxDetached \in Nat
  /\ Timeouts \in BOOLEAN

VARIABLES
  stage,      \* where each child's run is
  kind,       \* awaited by its parent, or in the background (maybe cancelled)
  gateActive, \* each session's semaphore: places taken
  gateQueue   \* each session's semaphore: children waiting for a place

gateVars == <<stage, kind, gateActive, gateQueue>>
fanVars == <<vars, gateVars>>

\* "leaving": the child's run settled, the gate has not been released yet.
Stage == {"unborn", "gated", "inside", "leaving", "done"}
Kind == {"awaited", "background", "cancelled"}

ChildrenOf(p) == {s \in Child : Parent[s] = p}
Inside(p) == {s \in ChildrenOf(p) : stage[s] \in {"inside", "leaving"}}
Gated(p) == {s \in ChildrenOf(p) : stage[s] = "gated"}
Started(p) == {s \in ChildrenOf(p) : kind[s] = "awaited" /\ stage[s] = "inside"}
Awaited(p) == {s \in ChildrenOf(p) : kind[s] = "awaited" /\ stage[s] \notin {"unborn", "done"}}
Background == {s \in Child : kind[s] = "background" /\ stage[s] \notin {"unborn", "done"}}

\* The abort listeners of one signal run in one synchronous dispatch: while a
\* child that listens to a fired signal has not been told, nothing else runs.
\* A queued child listens in the gate, a started one through child.abort().
\* Mutant of Listening: a started child is not told of its parent's abort.
ListeningGated(s) ==
  kind[s] = "awaited" /\ aborted[Parent[s]] /\ stage[s] = "gated"

Listening(s) ==
  /\ kind[s] = "awaited" /\ aborted[Parent[s]]
  /\ \/ stage[s] = "gated"
     \/ stage[s] = "inside" /\ turn[s] # "idle" /\ ~aborted[s]
Quiet == \A s \in Child : ~Listening(s)

FanInit ==
  /\ Init
  /\ stage = [s \in Child |-> "unborn"]
  /\ kind = [s \in Child |-> "awaited"]
  /\ gateActive = [p \in Session |-> 0]
  /\ gateQueue = [p \in Session |-> <<>>]

----------------------------------------------------------------------------
(* The gate *)

\* runChildOnce, inside the gate: suspendLimiterSlot(invoke), or plain invoke
\* for a background child.
Enter(p, s) == IF kind'[s] = "awaited" THEN OpenSpan(p, s) ELSE Begin(s)

\* Mutant of Spawn: off by one on the size of the gate.
SpawnOneMore(p, s, detach) ==
  /\ Quiet
  /\ s \in ChildrenOf(p) /\ stage[s] = "unborn"
  /\ turn[p] = "running" /\ ~aborted[p]
  /\ ~detach /\ gateActive[p] <= MaxParallel
  /\ kind' = [kind EXCEPT ![s] = "awaited"]
  /\ gateActive' = [gateActive EXCEPT ![p] = @ + 1]
  /\ stage' = [stage EXCEPT ![s] = "inside"]
  /\ Enter(p, s)
  /\ UNCHANGED gateQueue

\* A spawn tool of p's running turn asks for a place for s. detach is honoured
\* for the root only and below the ceiling of background children.
Spawn(p, s, detach) ==
  /\ Quiet
  /\ s \in ChildrenOf(p) /\ stage[s] = "unborn"
  /\ turn[p] = "running" /\ ~aborted[p]
  /\ detach => p = Root /\ Cardinality(Background) < MaxDetached
  /\ kind' = [kind EXCEPT ![s] = IF detach THEN "background" ELSE "awaited"]
  /\ \/ /\ gateActive[p] < MaxParallel
        /\ gateActive' = [gateActive EXCEPT ![p] = @ + 1]
        /\ stage' = [stage EXCEPT ![s] = "inside"]
        /\ Enter(p, s)
        /\ UNCHANGED gateQueue
     \/ /\ gateActive[p] >= MaxParallel
        /\ gateQueue' = [gateQueue EXCEPT ![p] = Append(@, s)]
        /\ stage' = [stage EXCEPT ![s] = "gated"]
        /\ UNCHANGED <<vars, gateActive>>

\* Mutant of Settle: the span is counted off but the slot is not taken back.
SettleNoReclaim(s) ==
  /\ Quiet
  /\ stage[s] = "inside" /\ turn[s] = "idle"
  /\ stage' = [stage EXCEPT ![s] = "leaving"]
  /\ IF kind[s] = "awaited"
     THEN /\ spans' = [spans EXCEPT ![Parent[s]] = @ - 1]
          /\ UNCHANGED <<limit, active, successes, waiters, turn, aborted>>
     ELSE UNCHANGED vars
  /\ UNCHANGED <<kind, gateActive, gateQueue>>

\* The child's turn is over: suspendLimiterSlot's finally reclaims the slot.
Settle(s) ==
  /\ Quiet
  /\ stage[s] = "inside" /\ turn[s] = "idle"
  /\ stage' = [stage EXCEPT ![s] = "leaving"]
  /\ IF kind[s] = "awaited" THEN CloseSpan(Parent[s]) ELSE UNCHANGED vars
  /\ UNCHANGED <<kind, gateActive, gateQueue>>

\* Mutant of LeaveGate: the place is released but no waiter is started.
LeaveGateSilent(s) ==
  /\ Quiet
  /\ stage[s] = "leaving"
  /\ gateActive' = [gateActive EXCEPT ![Parent[s]] = @ - 1]
  /\ stage' = [stage EXCEPT ![s] = "done"]
  /\ UNCHANGED <<vars, kind, gateQueue>>

\* The semaphore's finally: release the place and start the oldest waiter.
LeaveGate(s) ==
  LET p == Parent[s] IN
  /\ Quiet
  /\ stage[s] = "leaving"
  /\ \/ /\ gateQueue[p] = <<>>
        /\ gateActive' = [gateActive EXCEPT ![p] = @ - 1]
        /\ stage' = [stage EXCEPT ![s] = "done"]
        /\ UNCHANGED <<vars, kind, gateQueue>>
     \/ /\ gateQueue[p] # <<>>
        /\ gateQueue' = [gateQueue EXCEPT ![p] = Tail(@)]
        /\ stage' = [stage EXCEPT ![s] = "done", ![Head(gateQueue[p])] = "inside"]
        /\ UNCHANGED <<kind, gateActive>>
        /\ Enter(p, Head(gateQueue[p]))

----------------------------------------------------------------------------
(* Aborts *)

\* Mutant of Dequeue: the rejected child stays in the queue.
DequeueKeeps(s) ==
  /\ stage' = [stage EXCEPT ![s] = "done"]
  /\ UNCHANGED <<vars, gateActive, gateQueue>>

\* The semaphore's onAbort: a queued child leaves the queue and is rejected.
Dequeue(s) ==
  LET p == Parent[s] IN
  /\ \E i \in 1..Len(gateQueue[p]) :
       /\ gateQueue[p][i] = s
       /\ gateQueue' = [gateQueue EXCEPT ![p] = RemoveAt(@, i)]
  /\ stage' = [stage EXCEPT ![s] = "done"]
  /\ UNCHANGED <<vars, gateActive>>

\* The user interrupts the root's turn.
Interrupt == Quiet /\ Abort(Root) /\ UNCHANGED gateVars

\* The parent's signal reaches a child, in the gate's queue or past it.
Deliver(s) ==
  /\ Listening(s)
  /\ UNCHANGED kind
  /\ \/ stage[s] = "gated" /\ Dequeue(s)
     \/ stage[s] = "inside" /\ Abort(s) /\ UNCHANGED <<stage, gateActive, gateQueue>>

\* The per-child wall clock, armed when the child's run is invoked.
Timeout(s) ==
  Timeouts /\ Quiet /\ stage[s] = "inside" /\ Abort(s) /\ UNCHANGED gateVars

\* check_task({cancel: true}) on a background child: its own controller fires.
Cancel(s) ==
  /\ Quiet
  /\ kind[s] = "background" /\ stage[s] \in {"gated", "inside", "leaving"}
  /\ kind' = [kind EXCEPT ![s] = "cancelled"]
  /\ \/ stage[s] = "gated" /\ Dequeue(s)
     \/ /\ stage[s] # "gated"
        /\ \/ stage[s] = "inside" /\ Abort(s)
           \/ stage[s] = "leaving" /\ UNCHANGED vars
           \/ (turn[s] = "idle" \/ aborted[s]) /\ UNCHANGED vars
        /\ UNCHANGED <<stage, gateActive, gateQueue>>

----------------------------------------------------------------------------
(* Turns *)

RootTurn == Quiet /\ Begin(Root) /\ UNCHANGED gateVars

Admission(c) == Quiet /\ (GiveUp(c) \/ Acquire(c)) /\ UNCHANGED gateVars

\* A turn ends when its spawn tools have returned, those still waiting in the
\* gate included, or when it was aborted and the SDK gives up on them.
Finish(c) ==
  /\ Quiet
  /\ Awaited(c) = {} \/ (aborted[c] /\ AbandonsTools)
  /\ \E o \in Outcome : EndTurn(c, o)
  /\ UNCHANGED gateVars

FanNext ==
  \/ RootTurn \/ Interrupt
  \/ \E c \in Session : Admission(c) \/ Finish(c)
  \/ \E s \in Child :
       \/ \E detach \in BOOLEAN : Spawn(Parent[s], s, detach)
       \/ Settle(s) \/ LeaveGate(s)
       \/ Deliver(s) \/ Timeout(s) \/ Cancel(s)

FanSpec == FanInit /\ [][FanNext]_fanVars

\* Promise continuations and timers run; a turn whose tools return ends.
FanFairness ==
  /\ \A c \in Session : WF_fanVars(Admission(c)) /\ SF_fanVars(Finish(c))
  /\ \A s \in Child : /\ WF_fanVars(Settle(s)) /\ WF_fanVars(LeaveGate(s))
                      /\ WF_fanVars(Deliver(s))

FairFanSpec == FanSpec /\ FanFairness

----------------------------------------------------------------------------
(* Properties *)

FanTypeOK ==
  /\ TypeOK
  /\ stage \in [Child -> Stage]
  /\ kind \in [Child -> Kind]
  /\ gateActive \in [Session -> 0..MaxParallel]
  /\ gateQueue \in [Session -> Seq(Child)]

\* Every gate counts exactly the children inside it, never loses a wakeup, and
\* keeps exactly its gated children queued, whatever was aborted or cancelled
\* while waiting (toolset.ts createSemaphore).
GateAccounting ==
  \A p \in Session :
    LET queue == gateQueue[p]
    IN /\ gateActive[p] = Cardinality(Inside(p))
       /\ queue # <<>> => gateActive[p] = MaxParallel
       /\ {queue[i] : i \in 1..Len(queue)} = Gated(p)
       /\ \A i, j \in 1..Len(queue) : queue[i] = queue[j] => i = j

\* Nobody works or queues for a turn that is over: a started child whose awaiting
\* parent's turn ended has had its own signal fired, however deep in the tree it
\* is (orchestrator-runner.ts runChildOnce: parentSignal's onAbort -> child.abort),
\* and a place in the gate is handed out only on behalf of a live turn
\* (toolset.ts: a parent abort "immediately cancels queued children").
NoOrphan ==
  \A s \in Child : kind[s] = "awaited" =>
    /\ stage[s] = "inside" /\ turn[Parent[s]] # "running" => turn[s] = "idle" \/ aborted[s]
    /\ Quiet /\ stage[s] = "gated" => turn[Parent[s]] = "running" /\ ~aborted[Parent[s]]

\* Composed with the gates, the limiter still behaves as module Limiter says.
ImplementsLimiter == Spec

\* Every spawned child's run comes to an end: the fan-out cannot wedge.
EveryChildSettles == \A s \in Child : stage[s] # "unborn" ~> stage[s] = "done"
=============================================================================
