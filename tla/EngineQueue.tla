----------------------------- MODULE EngineQueue -----------------------------
(***************************************************************************)
(* The engine's FIFO of work and what drives it (core/src/engine.ts): the  *)
(* drain loop and the turn each queued item runs, the green gate and its   *)
(* fix turns, the plan-execution chain, the autonomous goal run, the       *)
(* recurring loop (core/src/loop.ts), and the user's commands, which       *)
(* arrive at any await and act at once.                                    *)
(*                                                                         *)
(* A job is a queued item: its kind says which closure it runs.  "at" is   *)
(* the place where the drain loop stands; between two awaits (Await) it    *)
(* runs synchronously, so no command lands there.                          *)
(***************************************************************************)
EXTENDS Naturals, Sequences, SequencesExt

CONSTANTS
  Goal,        \* goal texts the user may set
  NoGoal,
  MaxRounds,   \* goal.maxRounds
  MaxGate,     \* build.gate.maxRounds
  MaxReview,   \* build.review.maxRounds
  MaxIdle,     \* MAX_IDLE_CONTINUES
  MaxNudges,   \* MAX_PLAN_PRESENT_NUDGES
  MaxTicks,    \* loop.defaultMax; not 0, which the code reads as no limit
  PlanFirst,   \* goal.planFirst
  IdleHook,    \* is a session.idle hook configured?
  Denies,      \* may a user.prompt.submit hook veto a turn?
  Stalls,      \* does the stream watchdog run (headless sessions)?
  MaxInputs    \* bound: user commands in a behaviour

ASSUME EngineAssumption ==
  /\ NoGoal \notin Goal
  /\ {MaxRounds, MaxGate, MaxReview, MaxIdle, MaxNudges, MaxInputs} \subseteq Nat
  /\ MaxTicks \in Nat \ {0}
  /\ {PlanFirst, IdleHook, Denies, Stalls} \subseteq BOOLEAN

VARIABLES
  pending,     \* #pending: the jobs that wait
  active,      \* #active: the job the drain loop runs
  at,          \* where the drain loop stands
  goal,        \* session.goal
  run,         \* #goalRunActive
  phase,       \* #goalPhase
  rounds,      \* #goalContinueRounds
  clean,       \* #goalCleanPasses
  status,      \* #goalCompletionStatus, with "accept" while acceptance is awaited
  epochKept,   \* is #goalRunEpoch what it was when the assessment began?
  planExec,    \* #planExecutionActive
  fixPending,  \* #fixPending
  userStop,    \* #userStop
  spent,       \* the rounds spent of one prompt's budgets
  interrupted, \* session.interrupted
  lastError,   \* session.lastError # null
  aborted,     \* is the session's abort signal fired?
  tasks,       \* session.tasks: "none", some "open", all "done"
  mode,        \* session.mode
  turnMode,    \* session.turnMode: the mode the last turn started in
  plan,        \* #lastPlan # undefined
  handoff,     \* #pendingHandoff
  nudges,      \* #planPresentNudgeRounds
  loop,        \* the id of the LoopController, 0 when there is none
  loopAt,      \* where that controller stands
  ticks,       \* its iteration
  closing,     \* #shutdownRequested
  inputs       \* user commands so far

queueVars == <<pending, active, at>>
goalVars == <<goal, run, phase, rounds, clean, status, epochKept>>
promptVars == <<planExec, fixPending, userStop, spent>>
endVars == <<interrupted, lastError, aborted>>
sessionVars == <<interrupted, lastError, aborted, tasks, mode, turnMode>>
planVars == <<plan, handoff, nudges>>
loopVars == <<loop, loopAt, ticks>>
input == <<closing, inputs>>
vars == <<queueVars, goalVars, promptVars, sessionVars, planVars, loopVars, closing, inputs>>

GoalKind == {"plan", "drive", "execute", "round", "resume"}
TurnKind == (GoalKind \ {"resume"}) \cup
            {"prompt", "handoff", "fix", "continue", "nudge", "idle", "tick"}
Kind == GoalKind \cup TurnKind \cup {"other"}
Job == [kind : Kind, goal : Goal \cup {NoGoal}, loop : Nat]
None == [kind |-> "none", goal |-> NoGoal, loop |-> 0]

Plain(k) == [kind |-> k, goal |-> NoGoal, loop |-> 0]
ForGoal(k, g) == [kind |-> k, goal |-> g, loop |-> 0]
Tick(l) == [kind |-> "tick", goal |-> NoGoal, loop |-> l]
IsGoal(j) == j.kind \in GoalKind

\* "veto": the prompt hook; "prep": checkpoint, recall, attachments; "turn":
\* session.run; "gate": the repository's checks; "review": visual and diff
\* review; "commit": commit on green; "assess": the goal assessor; "other": a
\* slash command, compaction; "yield" and "hook": the queue is empty, the drain
\* loop has not ended.
Await == {"idle", "veto", "prep", "turn", "gate", "review", "commit", "assess", "other",
          "yield", "hook"}
Place == Await \cup {"next", "continue", "check", "end"}

NothingSpent == [gate |-> 0, review |-> 0, task |-> 0, idle |-> 0]

EngineInit ==
  /\ pending = <<>> /\ active = None /\ at = "idle"
  /\ goal = NoGoal /\ run = FALSE /\ phase = "none" /\ rounds = 0 /\ clean = 0
  /\ status = "none" /\ epochKept = FALSE
  /\ planExec = FALSE /\ fixPending = FALSE /\ userStop = FALSE /\ spent = NothingSpent
  /\ interrupted = FALSE /\ lastError = FALSE /\ aborted = FALSE
  /\ tasks = "none" /\ mode \in {"plan", "execute"} /\ turnMode = mode
  /\ plan = FALSE /\ handoff = FALSE /\ nudges = 0
  /\ loop = 0 /\ loopAt = "none" /\ ticks = 0
  /\ closing = FALSE /\ inputs = 0

----------------------------------------------------------------------------
(* What several handlers share *)

\* #enqueue: append, and start the drain loop when it is not running.
Enqueue(q, j) == pending' = Append(q, j)
Wake == at' = IF at = "idle" THEN "next" ELSE at

\* What is left of a queue when the jobs of some kinds are dropped.
Without(q, kinds) ==
  LET kept[n \in 0..Len(q)] ==
        IF n = 0 THEN <<>>
        ELSE IF q[n].kind \in kinds THEN kept[n - 1] ELSE Append(kept[n - 1], q[n])
  IN  kept[Len(q)]

\* #sweepQueuedGoalTurns
Sweep(q) == Without(q, GoalKind)

\* #resetPromptBudgets
ResetPromptBudgets(chain) ==
  /\ spent' = NothingSpent
  /\ planExec' = chain
  /\ fixPending' = FALSE
  /\ userStop' = FALSE

\* Mutant of PauseGoalRun: the queued turns of the run are not swept.
PauseUnswept(q) ==
  /\ run' = FALSE
  /\ epochKept' = (epochKept /\ ~run)
  /\ status' = IF run THEN "paused" ELSE status
  /\ pending' = q
  /\ UNCHANGED <<goal, phase, rounds, clean>>

\* #pauseGoalRun: nothing to do without a live run.
PauseGoalRun(q) ==
  /\ run' = FALSE
  /\ epochKept' = (epochKept /\ ~run)
  /\ status' = IF run THEN "paused" ELSE status
  /\ pending' = IF run THEN Sweep(q) ELSE q
  /\ UNCHANGED <<goal, phase, rounds, clean>>

\* LoopController.stop, whose onStop aborts the turn of a tick that runs.
StopLoop == loop' = 0 /\ loopAt' = "none" /\ ticks' = 0
TurnPlace == {"veto", "prep", "turn", "gate", "review", "commit"}
StopAborts == loop # 0 /\ active.kind = "tick" /\ at \in TurnPlace

----------------------------------------------------------------------------
(* The drain loop *)

\* #runDrain takes the oldest job and calls its closure.
Take(j) ==
  /\ at = "next" /\ pending # <<>> /\ j = Head(pending)
  /\ pending' = Tail(pending)
  /\ active' = j
  /\ UNCHANGED <<goalVars, sessionVars, planVars, loopVars, input>>

TakePrompt ==
  \E j \in ToSet(pending) :
    /\ Take(j)
    /\ j.kind \in {"prompt", "handoff", "plan", "drive", "continue", "nudge", "idle", "tick"}
    /\ at' = "veto"
    /\ UNCHANGED promptVars

\* #enqueueFix: the flag is cleared before the fix turn runs.
TakeFix ==
  \E j \in ToSet(pending) :
    /\ Take(j)
    /\ j.kind = "fix"
    /\ at' = "veto"
    /\ fixPending' = FALSE
    /\ UNCHANGED <<planExec, userStop, spent>>

\* A round of the goal run gets fresh budgets and re-arms the task chain.
TakeRound ==
  \E j \in ToSet(pending) :
    /\ Take(j)
    /\ j.kind \in {"execute", "round"}
    /\ at' = "veto"
    /\ ResetPromptBudgets(j.kind = "execute" \/ tasks = "open")

\* "goal: resume" assesses without a turn.
TakeResume ==
  \E j \in ToSet(pending) :
    /\ Take(j)
    /\ j.kind = "resume"
    /\ at' = "check"
    /\ UNCHANGED promptVars

TakeOther ==
  \E j \in ToSet(pending) :
    /\ Take(j)
    /\ j.kind = "other"
    /\ at' = "other"
    /\ UNCHANGED promptVars

OtherEnds ==
  /\ at = "other"
  /\ at' = "end"
  /\ UNCHANGED <<pending, active, goalVars, promptVars, sessionVars, planVars, loopVars, input>>

\* The queue is empty: the active job is cleared and a macrotask yielded.
Drained ==
  /\ at = "next" /\ pending = <<>>
  /\ at' = "yield"
  /\ active' = None
  /\ UNCHANGED <<pending, goalVars, promptVars, sessionVars, planVars, loopVars, input>>

\* After the yield: more work, no consultation after a stop, or the idle hook.
Yielded ==
  /\ at = "yield"
  /\ IF pending # <<>> THEN at' = "next"
     ELSE IF IdleHook /\ ~closing /\ ~interrupted /\ ~userStop THEN at' = "hook"
     ELSE at' = "idle"
  /\ UNCHANGED <<pending, active, goalVars, promptVars, sessionVars, planVars, loopVars, input>>

\* Mutant of HookReturns: the queue is not looked at again after the hook.
HookReturnsBlind(continue) ==
  /\ at = "hook"
  /\ \/ /\ continue /\ spent.idle < MaxIdle
        /\ spent' = [spent EXCEPT !.idle = @ + 1]
        /\ Enqueue(pending, Plain("idle"))
        /\ at' = "next"
     \/ /\ ~continue \/ spent.idle >= MaxIdle
        /\ at' = "idle"
        /\ UNCHANGED <<pending, spent>>
  /\ UNCHANGED <<active, goalVars, planExec, fixPending, userStop, sessionVars, planVars,
                 loopVars, input>>

\* #maybeContinueOnIdle after its await, and the outer loop's condition.
HookReturns(continue) ==
  /\ at = "hook"
  /\ \/ /\ continue /\ spent.idle < MaxIdle
        /\ spent' = [spent EXCEPT !.idle = @ + 1]
        /\ Enqueue(pending, Plain("idle"))
        /\ at' = "next"
     \/ /\ ~continue \/ spent.idle >= MaxIdle
        /\ at' = IF pending # <<>> THEN "next" ELSE "idle"
        /\ UNCHANGED <<pending, spent>>
  /\ UNCHANGED <<active, goalVars, planExec, fixPending, userStop, sessionVars, planVars,
                 loopVars, input>>

----------------------------------------------------------------------------
(* A turn *)

\* #handlePrompt: a hook vetoes the turn. A vetoed handoff stays approved; a
\* vetoed turn of the goal run, or a vetoed fix turn, pauses the run.
TurnDenied ==
  /\ Denies
  /\ at = "veto"
  /\ at' = "end"
  /\ handoff' = (handoff \/ active.kind = "handoff")
  /\ IF IsGoal(active) \/ active.kind = "fix"
     THEN PauseGoalRun(pending)
     ELSE UNCHANGED <<pending, goalVars>>
  /\ UNCHANGED <<active, promptVars, sessionVars, plan, nudges, loopVars, input>>

\* The hook lets it pass. A handoff arms the task chain and spends the plan.
TurnAllowed ==
  /\ at = "veto"
  /\ at' = "prep"
  /\ planExec' = (planExec \/ active.kind = "handoff")
  /\ plan' = (plan /\ active.kind # "handoff")
  /\ UNCHANGED <<pending, active, goalVars, fixPending, userStop, spent, sessionVars, handoff,
                 nudges, loopVars, input>>

\* session.run: the flags of the last turn are reset and a new abort
\* controller installed.
BeginTurn ==
  /\ at = "prep"
  /\ at' = "turn"
  /\ interrupted' = FALSE /\ lastError' = FALSE /\ aborted' = FALSE
  /\ turnMode' = mode
  /\ UNCHANGED <<pending, active, goalVars, promptVars, tasks, mode, planVars, loopVars, input>>

\* What a turn leaves: a cancelled turn is "interrupted", a fault (and a
\* stalled stream, whose watchdog fires the signal itself) is "lastError".
TurnLeaves(how) ==
  /\ \/ how = "ok" /\ UNCHANGED <<endVars>>
     \/ how = "interrupted" /\ aborted /\ interrupted' = TRUE /\ UNCHANGED <<lastError, aborted>>
     \/ how = "error" /\ ~aborted /\ lastError' = TRUE /\ UNCHANGED <<interrupted, aborted>>
     \/ how = "stall" /\ Stalls /\ lastError' = TRUE /\ aborted' = TRUE /\ UNCHANGED interrupted
  \* update_tasks; present_plan in a plan turn
  /\ tasks' \in {tasks, "open", "done"}
  /\ plan' \in {plan, turnMode = "plan" \/ plan}
  /\ UNCHANGED <<mode, turnMode, handoff>>

\* #maybeNudgePresentPlan: one follow-up turn that asks for present_plan.
Nudge(needs) ==
  \/ /\ mode = "plan" /\ needs /\ nudges < MaxNudges
     /\ nudges' = nudges + 1
     /\ Enqueue(pending, Plain("nudge"))
  \/ /\ mode = "plan" /\ needs /\ nudges >= MaxNudges
     /\ UNCHANGED <<nudges, pending>>
  \/ /\ mode # "plan" \/ ~needs
     /\ nudges' = 0
     /\ UNCHANGED pending

\* #afterTurn up to its first await: nothing after a stop; the gate when an
\* execute turn (or a background child) changed the tree; the chains otherwise.
TurnEnds(how, mutated, needs) ==
  /\ at = "turn"
  /\ TurnLeaves(how)
  /\ \/ /\ userStop \/ interrupted'
        /\ at' = "end"
        /\ UNCHANGED <<pending, nudges>>
     \/ /\ ~userStop /\ ~interrupted' /\ mutated /\ turnMode = "execute"
        /\ at' = "gate"
        /\ UNCHANGED <<pending, nudges>>
     \/ /\ ~userStop /\ ~interrupted' /\ ~(mutated /\ turnMode = "execute")
        /\ at' = "continue"
        /\ Nudge(needs /\ plan' = plan)
  /\ UNCHANGED <<active, goalVars, promptVars, loopVars, input>>

\* #enqueueFix
EnqueueFix == fixPending' = TRUE /\ Enqueue(pending, Plain("fix"))

\* Mutant of GateRed: the fix budget is spent and the run is left as it is.
GateRedSilent ==
  /\ at = "gate" /\ ~aborted
  /\ at' = "end"
  /\ \/ /\ spent.gate < MaxGate
        /\ spent' = [spent EXCEPT !.gate = @ + 1]
        /\ EnqueueFix
        /\ UNCHANGED goalVars
     \/ /\ spent.gate >= MaxGate
        /\ UNCHANGED <<pending, goalVars, spent, fixPending>>
  /\ UNCHANGED <<active, planExec, userStop, sessionVars, planVars, loopVars, input>>

\* #runGate, red: a bounded fix turn, or the end of the goal run.
GateRed ==
  /\ at = "gate" /\ ~aborted
  /\ at' = "end"
  /\ \/ /\ spent.gate < MaxGate
        /\ spent' = [spent EXCEPT !.gate = @ + 1]
        /\ EnqueueFix
        /\ UNCHANGED goalVars
     \/ /\ spent.gate >= MaxGate
        /\ PauseGoalRun(pending)
        /\ UNCHANGED <<spent, fixPending>>
  /\ UNCHANGED <<active, planExec, userStop, sessionVars, planVars, loopVars, input>>

\* Aborted: no verdict. Unverified: #afterTurn goes on. Green: to the review.
GatePasses ==
  /\ at = "gate"
  /\ \/ aborted /\ at' = "end"
     \/ at' = IF fixPending \/ userStop THEN "end" ELSE "continue"
     \/ ~aborted /\ at' = "review"
  /\ UNCHANGED <<pending, active, goalVars, promptVars, sessionVars, planVars, loopVars, input>>

\* #maybeReview: flagged work, or a visual finding, is worth a fix turn.
ReviewEnds(flagged) ==
  /\ at = "review"
  /\ at' = "commit"
  /\ \/ /\ flagged /\ spent.review < MaxReview
        /\ spent' = [spent EXCEPT !.review = @ + 1]
        /\ EnqueueFix
     \/ ~flagged /\ UNCHANGED <<spent, fixPending, pending>>
  /\ UNCHANGED <<active, goalVars, planExec, userStop, sessionVars, planVars, loopVars, input>>

\* #commitOnGreen is over: the chains go on unless a fix waits or the user
\* stopped meanwhile.
CommitEnds ==
  /\ at = "commit"
  /\ at' = IF fixPending \/ userStop THEN "end" ELSE "continue"
  /\ UNCHANGED <<pending, active, goalVars, promptVars, sessionVars, planVars, loopVars, input>>

\* The turn's pipeline throws: a goal turn pauses the run, a tick stops its
\* loop, the drain loop logs and goes on.
Throws ==
  /\ at \in {"veto", "prep", "gate", "review", "commit"}
  /\ at' = "next"
  /\ IF IsGoal(active) THEN PauseGoalRun(pending) ELSE UNCHANGED <<pending, goalVars>>
  /\ IF active.kind = "tick" /\ loop = active.loop THEN StopLoop ELSE UNCHANGED loopVars
  /\ UNCHANGED <<active, promptVars, sessionVars, planVars, input>>

----------------------------------------------------------------------------
(* The task chain and the goal run, after a turn *)

\* #maybeContinueTasks: open tasks of the plan in execution get another round,
\* charged to the goal run when there is one.
TasksLeft == planExec /\ mode = "execute" /\ tasks = "open"
TaskBudget == IF run THEN rounds < MaxRounds ELSE spent.task < MaxGate

\* Mutant of ContinueTasks: a continuation is not charged to the goal run.
ContinueTasksFree ==
  /\ at = "continue"
  /\ at' = "check"
  /\ planExec' = (TasksLeft /\ TaskBudget)
  /\ \/ /\ TasksLeft /\ TaskBudget /\ run
        /\ Enqueue(pending, ForGoal("execute", goal))
        /\ UNCHANGED <<rounds, spent>>
     \/ /\ TasksLeft /\ TaskBudget /\ ~run
        /\ spent' = [spent EXCEPT !.task = @ + 1]
        /\ Enqueue(pending, Plain("continue"))
        /\ UNCHANGED rounds
     \/ ~(TasksLeft /\ TaskBudget) /\ UNCHANGED <<rounds, pending, spent>>
  /\ UNCHANGED <<active, goal, run, phase, clean, status, epochKept, fixPending, userStop,
                 sessionVars, planVars, loopVars, input>>

ContinueTasks ==
  /\ at = "continue"
  /\ at' = "check"
  /\ planExec' = (TasksLeft /\ TaskBudget)
  /\ \/ /\ TasksLeft /\ TaskBudget /\ run
        /\ rounds' = rounds + 1
        /\ Enqueue(pending, ForGoal("execute", goal))
        /\ UNCHANGED spent
     \/ /\ TasksLeft /\ TaskBudget /\ ~run
        /\ spent' = [spent EXCEPT !.task = @ + 1]
        /\ Enqueue(pending, Plain("continue"))
        /\ UNCHANGED rounds
     \/ ~(TasksLeft /\ TaskBudget) /\ UNCHANGED <<rounds, pending, spent>>
  /\ UNCHANGED <<active, goal, run, phase, clean, status, epochKept, fixPending, userStop,
                 sessionVars, planVars, loopVars, input>>

\* Not met: another round, or the end of the budget.
NotMet ==
  \/ /\ rounds < MaxRounds
     /\ rounds' = rounds + 1
     /\ clean' = 0
     /\ Enqueue(pending, ForGoal("round", goal))
     /\ UNCHANGED <<goal, run, phase, status, epochKept>>
  \/ /\ rounds >= MaxRounds
     /\ PauseGoalRun(pending)

GoalWaits == planExec \/ fixPending \/ interrupted \/ userStop

\* #maybeContinueGoal up to its await. Open tasks are not met without asking.
CheckGoal ==
  /\ at = "check"
  /\ \/ /\ ~run \/ GoalWaits
        /\ at' = "end"
        /\ UNCHANGED <<pending, goalVars>>
     \/ /\ run /\ ~GoalWaits /\ lastError
        /\ at' = "end"
        /\ PauseGoalRun(pending)
     \/ /\ run /\ ~GoalWaits /\ ~lastError
        /\ phase = "plan" \/ \E i \in DOMAIN pending : IsGoal(pending[i])
        /\ at' = "end"
        /\ UNCHANGED <<pending, goalVars>>
     \/ /\ run /\ ~GoalWaits /\ ~lastError /\ phase # "plan"
        /\ ~\E i \in DOMAIN pending : IsGoal(pending[i])
        /\ \/ tasks = "open" /\ at' = "end" /\ NotMet
           \/ /\ tasks # "open"
              /\ at' = "assess"
              /\ epochKept' = TRUE
              /\ UNCHANGED <<pending, goal, run, phase, rounds, clean, status>>
  /\ UNCHANGED <<active, promptVars, sessionVars, planVars, loopVars, input>>

\* Mutant of AssessEnds: the verdict is acted on without another look at the run.
AssessEndsBlind(met, checks) ==
  /\ at = "assess"
  /\ at' = "end"
  /\ \/ ~met /\ NotMet
     \/ /\ met
        /\ clean' = clean + 1
        /\ Enqueue(pending, ForGoal("round", goal))
        /\ UNCHANGED <<goal, run, phase, rounds, status, epochKept>>
  /\ UNCHANGED <<active, promptVars, sessionVars, planVars, loopVars, input>>

\* The assessment is back: a stale one is dropped; the first clean pass buys a
\* turn that verifies, the second ends the run.
AssessEnds(met, checks) ==
  /\ at = "assess"
  /\ at' = "end"
  /\ \/ ~(run /\ epochKept) /\ UNCHANGED <<pending, goalVars>>
     \/ run /\ epochKept /\ ~met /\ NotMet
     \/ /\ run /\ epochKept /\ met /\ clean = 0
        /\ clean' = 1
        /\ Enqueue(pending, ForGoal("round", goal))
        /\ UNCHANGED <<goal, run, phase, rounds, status, epochKept>>
     \/ /\ run /\ epochKept /\ met /\ clean > 0
        /\ clean' = clean + 1
        /\ run' = FALSE
        /\ status' = IF checks THEN "verified" ELSE "accept"
        /\ phase' = IF checks THEN "none" ELSE "execute"
        /\ UNCHANGED <<pending, goal, rounds, epochKept>>
  /\ UNCHANGED <<active, promptVars, sessionVars, planVars, loopVars, input>>

\* #beginGoalExecution, after the plan turn of a run that is still armed.
BeginGoalExecution ==
  /\ tasks' = IF tasks = "none" THEN "open" ELSE tasks
  /\ phase' = "execute"
  /\ Enqueue(pending, ForGoal("execute", active.goal))
  /\ UNCHANGED <<goal, run, rounds, clean, status, epochKept>>

\* LoopController.#tick after its iteration, or after its condition.
TickOver == IF ticks >= MaxTicks THEN StopLoop ELSE loopAt' = "timer" /\ UNCHANGED <<loop, ticks>>

\* The job's closure returns to the drain loop.
JobEnds ==
  /\ at = "end"
  /\ at' = "next"
  /\ IF active.kind = "plan" /\ run
     THEN BeginGoalExecution
     ELSE UNCHANGED <<pending, goalVars, tasks>>
  /\ IF active.kind = "tick" /\ loop = active.loop
     THEN TickOver \/ (loopAt' = "evaluating" /\ UNCHANGED <<loop, ticks>>)
     ELSE UNCHANGED loopVars
  /\ UNCHANGED <<active, promptVars, endVars, mode, turnMode, planVars, input>>

----------------------------------------------------------------------------
(* The recurring loop *)

\* The interval is over: the next iteration is queued.
LoopFires ==
  /\ at \in Await /\ loopAt = "timer"
  /\ loopAt' = "awaiting" /\ ticks' = ticks + 1
  /\ Enqueue(pending, Tick(loop))
  /\ Wake
  /\ UNCHANGED <<active, goalVars, promptVars, sessionVars, planVars, loop, input>>

\* The --until condition is judged (it could not be: "not yet", until that has
\* happened too often in a row, which stops the loop like a verdict).
LoopJudged(done) ==
  /\ at \in Await /\ loopAt = "evaluating"
  /\ IF done THEN StopLoop ELSE TickOver
  /\ aborted' = (aborted \/ (done /\ StopAborts))
  /\ UNCHANGED <<queueVars, goalVars, promptVars, interrupted, lastError, tasks, mode, turnMode,
                 planVars, input>>

\* /loop reaches the head of the queue: refused while another loop runs.
LoopStarts ==
  /\ at = "other" /\ loop = 0
  /\ at' = "end"
  /\ loop' = inputs /\ loopAt' = "awaiting" /\ ticks' = 1
  /\ Enqueue(pending, Tick(inputs))
  /\ UNCHANGED <<active, goalVars, promptVars, sessionVars, planVars, input>>

----------------------------------------------------------------------------
(* The user's commands (send) *)

Command ==
  /\ at \in Await
  /\ ~closing
  /\ inputs < MaxInputs /\ inputs' = inputs + 1
  /\ UNCHANGED closing

\* submit-prompt: fresh budgets; in a goal run it is a steer, with fresh rounds.
\* An approved plan that waits for a message is bound to this job.
SubmitPrompt ==
  /\ Command
  /\ ResetPromptBudgets(FALSE)
  /\ rounds' = IF run THEN 0 ELSE rounds
  /\ clean' = IF run THEN 0 ELSE clean
  /\ Enqueue(pending, Plain(IF handoff THEN "handoff" ELSE "prompt"))
  /\ handoff' = FALSE
  /\ Wake
  /\ UNCHANGED <<active, goal, run, phase, status, epochKept, sessionVars, plan, nudges, loopVars>>

\* A slash command, or /compact: queued like a prompt.
SubmitOther ==
  /\ Command
  /\ Enqueue(pending, Plain("other"))
  /\ Wake
  /\ UNCHANGED <<active, goalVars, promptVars, sessionVars, planVars, loopVars>>

\* What #startGoalRun and #resumeGoalRun share: the run is armed anew.
Armed ==
  /\ run' = TRUE /\ epochKept' = FALSE
  /\ rounds' = 0 /\ clean' = 0 /\ status' = "none"
  /\ ResetPromptBudgets(FALSE)
  /\ mode' = "execute"
  /\ Wake

\* set-goal, #startGoalRun: it replaces the run that may be live.
SetGoal(g) ==
  /\ Command
  /\ Armed
  /\ goal' = g
  /\ phase' = IF PlanFirst THEN "plan" ELSE "none"
  /\ Enqueue(Sweep(pending), ForGoal(IF PlanFirst THEN "plan" ELSE "drive", g))
  /\ tasks' = "none" /\ plan' = FALSE
  /\ UNCHANGED <<active, endVars, turnMode, handoff, nudges, loopVars>>

\* set-goal without a text, #stopGoalRun
ClearGoal ==
  /\ Command
  /\ goal' = NoGoal
  /\ run' = FALSE /\ epochKept' = FALSE /\ phase' = "none" /\ status' = "none"
  /\ pending' = Sweep(pending)
  /\ UNCHANGED <<active, at, rounds, clean, promptVars, sessionVars, planVars, loopVars>>

\* The phase a paused run is resumed in: without tasks it plans again.
ResumedPhase ==
  IF ~PlanFirst THEN phase
  ELSE IF phase = "plan" \/ tasks = "none" THEN "plan" ELSE "execute"

\* resume-goal, #resumeGoalRun: of a paused run whose goal is still set.
ResumeGoal ==
  /\ Command
  /\ goal # NoGoal /\ ~run
  /\ Armed
  /\ phase' = ResumedPhase
  /\ interrupted' = FALSE /\ lastError' = FALSE
  /\ tasks' = IF ResumedPhase = "plan" THEN "none" ELSE tasks
  /\ Enqueue(pending, ForGoal(IF ResumedPhase = "plan" THEN "plan" ELSE "resume", goal))
  /\ UNCHANGED <<active, goal, aborted, turnMode, planVars, loopVars>>

\* accept-goal-completion: of a run that is met but unverified.
AcceptGoal ==
  /\ Command
  /\ ~run /\ status = "accept"
  /\ status' = "met" /\ phase' = "none"
  /\ UNCHANGED <<queueVars, goal, run, rounds, clean, epochKept, promptVars, sessionVars, planVars,
                 loopVars>>

\* Mutant of Abort: the loop's controller is not stopped.
AbortLoopLives ==
  /\ Command
  /\ userStop' = TRUE /\ fixPending' = FALSE /\ aborted' = TRUE
  /\ PauseGoalRun(<<>>)
  /\ UNCHANGED <<active, at, planExec, spent, interrupted, lastError, tasks, mode, turnMode, planVars,
                 loopVars>>

\* abort (Esc): stop the chains, the run and the loop, drop what waits, cancel
\* the turn in flight.
Abort ==
  /\ Command
  /\ userStop' = TRUE /\ fixPending' = FALSE /\ aborted' = TRUE
  /\ PauseGoalRun(<<>>)
  /\ StopLoop
  /\ UNCHANGED <<active, at, planExec, spent, interrupted, lastError, tasks, mode, turnMode, planVars>>

\* dequeue: removing a turn of the goal run pauses it, a tick stops its loop.
Dequeue(i) ==
  /\ Command
  /\ i \in DOMAIN pending
  /\ IF IsGoal(pending[i])
     THEN PauseGoalRun(RemoveAt(pending, i))
     ELSE pending' = RemoveAt(pending, i) /\ UNCHANGED goalVars
  /\ IF loop # 0 /\ pending[i] = Tick(loop)
     THEN StopLoop /\ aborted' = (aborted \/ StopAborts)
     ELSE UNCHANGED <<loopVars, aborted>>
  /\ UNCHANGED <<active, at, promptVars, interrupted, lastError, tasks, mode, turnMode, planVars>>

\* steer: the job jumps the queue and the turn in flight is cancelled.
Steer(i) ==
  /\ Command
  /\ i \in DOMAIN pending
  /\ pending' = <<pending[i]>> \o RemoveAt(pending, i)
  /\ aborted' = TRUE
  /\ UNCHANGED <<active, at, goalVars, promptVars, interrupted, lastError, tasks, mode, turnMode, planVars,
                 loopVars>>

\* /queue clear: a loop is stopped, a goal run whose turn is dropped is paused.
ClearQueue ==
  /\ Command
  /\ IF \E i \in DOMAIN pending : IsGoal(pending[i])
     THEN PauseGoalRun(<<>>)
     ELSE pending' = <<>> /\ UNCHANGED goalVars
  /\ StopLoop
  /\ aborted' = (aborted \/ StopAborts)
  /\ UNCHANGED <<active, at, promptVars, interrupted, lastError, tasks, mode, turnMode, planVars>>

\* /loop stop: sweep the queued tick, stop the controller.
StopLoopNow ==
  /\ Command
  /\ loop # 0
  /\ pending' = Without(pending, {"tick"})
  /\ StopLoop
  /\ aborted' = (aborted \/ StopAborts)
  /\ UNCHANGED <<active, at, goalVars, promptVars, interrupted, lastError, tasks, mode, turnMode, planVars>>

\* set-mode plan: a deferred approval is revoked, chain and run stop.
EnterPlan ==
  /\ Command
  /\ mode' = "plan"
  /\ handoff' = FALSE /\ planExec' = FALSE
  /\ PauseGoalRun(pending)
  /\ UNCHANGED <<active, at, fixPending, userStop, spent, endVars, tasks, turnMode,
                 plan, nudges, loopVars>>

\* set-mode execute: refused while a plan waits for approval.
LeavePlan ==
  /\ Command
  /\ mode = "plan" /\ ~plan
  /\ mode' = "execute"
  /\ UNCHANGED <<queueVars, goalVars, promptVars, endVars, tasks, turnMode, planVars,
                 loopVars>>

\* #resolvePlan accept, #approvePlan: the plan's list is seeded (when it has
\* one) and the handoff turn queued. The plan card is refused while a goal run
\* owns the tasks; /execute (set-mode with start) asks for plan mode instead.
ApprovePlan ==
  /\ Command
  /\ plan /\ (~run \/ mode = "plan")
  /\ plan' = FALSE /\ handoff' = FALSE
  /\ mode' = "execute"
  /\ tasks' \in {tasks, "open"}
  /\ Enqueue(pending, Plain("handoff"))
  /\ Wake
  /\ UNCHANGED <<active, goalVars, promptVars, endVars, turnMode, nudges, loopVars>>

\* #resolvePlan edit: the feedback runs as a prompt in plan mode;
\* keep-planning: nothing runs.
RevisePlan(edit) ==
  /\ Command
  /\ plan' = FALSE
  /\ handoff' = (handoff /\ edit /\ mode = "plan")
  /\ mode' = "plan"
  /\ IF edit THEN Enqueue(pending, Plain("prompt")) /\ Wake ELSE UNCHANGED <<pending, at>>
  /\ UNCHANGED <<active, goalVars, promptVars, endVars, tasks, turnMode, nudges,
                 loopVars>>

\* finalize: drop what waits, cancel the turn in flight, stop the loop; the
\* rest of the teardown waits for the drain loop.
Finalize ==
  /\ at \in Await /\ ~closing
  /\ closing' = TRUE
  /\ pending' = <<>>
  /\ aborted' = TRUE
  /\ StopLoop
  /\ UNCHANGED <<active, at, goalVars, promptVars, interrupted, lastError, tasks, mode, turnMode, planVars,
                 inputs>>

----------------------------------------------------------------------------
(* The specification *)

TurnStep ==
  \/ TurnDenied \/ TurnAllowed \/ BeginTurn \/ GateRed \/ GatePasses \/ CommitEnds \/ Throws
  \/ \E how \in {"ok", "interrupted", "error", "stall"}, mutated, needs \in BOOLEAN :
       TurnEnds(how, mutated, needs)
  \/ \E flagged \in BOOLEAN : ReviewEnds(flagged)
  \/ ContinueTasks \/ CheckGoal \/ JobEnds
  \/ \E met, checks \in BOOLEAN : AssessEnds(met, checks)

DrainStep ==
  \/ TakePrompt \/ TakeFix \/ TakeRound \/ TakeResume \/ TakeOther \/ OtherEnds \/ LoopStarts
  \/ Drained \/ Yielded
  \/ \E continue \in BOOLEAN : HookReturns(continue)

LoopStep == LoopFires \/ \E done \in BOOLEAN : LoopJudged(done)

UserStep ==
  \/ SubmitPrompt \/ SubmitOther \/ Abort \/ ClearQueue \/ StopLoopNow
  \/ \E i \in DOMAIN pending : Dequeue(i) \/ Steer(i)
  \/ \E g \in Goal : SetGoal(g)
  \/ ClearGoal \/ ResumeGoal \/ AcceptGoal
  \/ EnterPlan \/ LeavePlan \/ ApprovePlan \/ \E edit \in BOOLEAN : RevisePlan(edit)
  \/ Finalize

EngineNext == TurnStep \/ DrainStep \/ LoopStep \/ UserStep

EngineSpec == EngineInit /\ [][EngineNext]_vars

\* Every await of the engine settles: provider calls, checks and hooks have
\* deadlines or follow the abort signal; timers fire. The user owes nothing.
FairEngineSpec ==
  /\ EngineSpec
  /\ WF_vars(TurnStep \/ DrainStep)
  /\ WF_vars(LoopStep)

----------------------------------------------------------------------------
(* Properties *)

QueueType ==
  pending \in Seq(Job) /\ active \in Job \cup {None} /\ at \in Place

GoalType ==
  /\ goal \in Goal \cup {NoGoal} /\ run \in BOOLEAN
  /\ phase \in {"none", "plan", "execute"} /\ rounds \in 0..MaxRounds /\ clean \in 0..2
  /\ status \in {"none", "paused", "verified", "accept", "met"} /\ epochKept \in BOOLEAN

Spending == [gate : 0..MaxGate, review : 0..MaxReview, task : 0..MaxGate, idle : 0..MaxIdle]

PromptType ==
  /\ planExec \in BOOLEAN /\ fixPending \in BOOLEAN /\ userStop \in BOOLEAN
  /\ spent \in Spending

SessionType ==
  /\ interrupted \in BOOLEAN /\ lastError \in BOOLEAN /\ aborted \in BOOLEAN
  /\ tasks \in {"none", "open", "done"}
  /\ mode \in {"plan", "execute"} /\ turnMode \in {"plan", "execute"}
  /\ plan \in BOOLEAN /\ handoff \in BOOLEAN /\ nudges \in 0..MaxNudges

LoopType ==
  /\ loop \in Nat /\ loopAt \in {"none", "timer", "awaiting", "evaluating"}
  /\ ticks \in 0..MaxTicks
  /\ closing \in BOOLEAN /\ inputs \in 0..MaxInputs

\* Every part of the engine's state has its type, budgets are not overspent and
\* an iteration count does not pass its maximum.
EngineTypeOK == QueueType /\ GoalType /\ PromptType /\ SessionType /\ LoopType

\* The drain loop never ends with work in the queue: a prompt sent in its last
\* awaits (the macrotask, the session.idle hook) is not stranded.
IdleIsEmpty == at = "idle" => pending = <<>> /\ active = None

\* A goal run that stopped, for whatever reason and in whatever await, has no
\* turn left in the queue.
StoppedRunIsSwept == ~run => \A i \in DOMAIN pending : ~IsGoal(pending[i])

\* A loop that calls itself active will tick again or stop: its controller waits
\* for its timer, for its condition, or for an iteration that is in the queue
\* or runs; never for one that was dropped.
LoopIsAlive ==
  /\ loop = 0 <=> loopAt = "none"
  /\ loopAt = "awaiting" =>
       \/ active = Tick(loop) /\ at \in TurnPlace \cup {"continue", "check", "assess", "end"}
       \/ \E i \in DOMAIN pending : pending[i] = Tick(loop)

\* A turn of the goal run, or a fix turn its checks asked for, that nobody
\* cancelled never leaves the run armed with an empty queue: it queues its
\* successor or pauses the run.
GoalTurnEnds ==
  /\ at' = "next" /\ ~closing
  /\ \/ IsGoal(active) /\ active.kind # "resume" /\ at # "next"
     \/ active.kind = "fix" /\ at = "end"
GoalTurnLeavesDriver ==
  [][GoalTurnEnds /\ run' /\ ~aborted => pending' # <<>> \/ fixPending']_vars

\* Rounds, fixes, continuations and ticks are bounded together: whatever the
\* turns, the checks and the assessor answer, the queue empties and the engine
\* reports idle, once the user stops typing.
EngineSettles == []<>(at = "idle")
=============================================================================
