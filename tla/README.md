# A TLA+ model of vibe-codr

vibe-codr is a coding agent: a session talks to a language model, runs the tools
the model asks for, and may fork subagents, run a plan of dependent tasks in
parallel, let tasks work in git worktrees and merge them into one tree, persist
all of that, resume it after a crash, and hand its control to a phone. This directory
models the parts of the engine where those things meet, from the limiter every
turn passes up to the link of the phone, checks them with TLC and proves their
safety with TLAPS.

Contents: [1 The system](#1-the-system) · [2 The plan](#2-the-plan) ·
[3 Modules](#3-modules) · [4 Runs](#4-runs) · [5 Fairness](#5-fairness) ·
[6 Proofs](#6-proofs) · [7 Findings](#7-findings) ·
[8 What is not modelled](#8-what-is-not-modelled) · [9 Reproducing](#9-reproducing)

Paths below are relative to `src/packages/` unless they start with `apps/`.

## 1 The system

One JavaScript process hosts an engine; everything in it runs on one event loop.
So the atomic unit of every model here is *one synchronous stretch of code*,
from one `await` (or callback) to the next, and the hard behaviour is what other
callers do in between. Real concurrency exists between processes: several
engines over one project directory, a desktop shell and its host processes, git.

How the parts of the core interact:

    engine queue --runs--> session turn --acquires a slot--> limiter (one per tree)
                               | tools
                               v
        spawn_subagent --> child gate (one per session) --> child's turn
        spawn_tasks ----> runDag --runTask--> worktree | ensemble | shared task
                            |                    | merge lock (one per session tree)
                            v                    v
                   journal, report files     main tree: index and files (git)

    phone client <--socket--> relay <--stdio--> host: numbers the events of the engine

The calls a turn makes are awaited, its abort signal is passed on by listeners,
and the journal is the only link between a plan and the plan resumed after a
crash.

### 1.1 Engine core

**Provider concurrency limiter** (`core/src/limiter.ts`). State: the ceiling
`limit`, the count `active`, the count of `successes`, the FIFO of waiters.
Operations: `acquire`/`run` with an abort signal, `release`, `lendSlot` and
`reacquireSlot`, `onSuccess`, `onOverload`, `pump`. Called by each turn of the
tree and, through `suspendLimiterSlot` (`session.ts`), by each spawning tool.
Hard: aborts that cross a hand-over, lends that nest or outlive their turn, a
ceiling that moves while turns wait. Correct when slots are neither lost nor
forged, no turn waits beside a free slot, nobody is overtaken, an aborted turn is
never admitted, and every waiter is served.

**Subagent fan-out** (`core/src/orchestration/orchestrator-runner.ts`,
`child-registry.ts`). State: per session a semaphore (`#childGate`,
`createSemaphore` of `tools/src/toolset.ts`), the run of each child, the
registry of children. Operations: spawn awaited or detached, continue, check and
cancel, per-child timeout, cascade of aborts, retention. Hard: two kinds of
gates crossed by parents that wait for children; aborts, timeouts and promotions
in any order. Correct when gates count exactly, no child is orphaned, every
child settles.

**Task scheduler** (`core/src/orchestrator.ts`, `build/journal.ts`). State:
`results`, `inflight`, the append-only journal, report files. Operations:
`validateDag`, the dispatch loop, `runTask`, `recordFinished`, seeding on
resubmission. Hard: crashes between settlement and journaling, best-effort
writes, ids that several plans share. Correct when tasks run only after their
dependencies, are skipped only for cause, results fit together after a resume,
finished work is not repeated, and the plan returns.

**Task strategies and the shared tree** (`orchestrator-runner.ts`,
`build/gitops.ts`, `build/gate.ts`). State: the main tree's index and files, one
worktree per task, the merge lock, the merged files of each task. Operations:
fork, commit, squash-merge, gate, review, restore, retry, remove; ensemble
attempts and their judge; shared tasks. Hard: merges, verdicts and restores of
siblings; interrupts and crashes between any two of them. Correct when staged
work always has an owner, completed work is never undone by a sibling, a verdict
is about one tree, nothing leaks and every task settles.

**Session turn** (`core/src/session.ts`, `session-tools.ts`, `compaction.ts`,
`microcompaction.ts`). State: two message lists (what the provider is sent, what
the user is shown), budget, abort controller, suspended slots, open tool calls.
Operations: `run`, `abort`, the orphan rollback, compaction, `clear`, rewinding
and restoring of a tail, persistence. Hard: a rollback by identity after a
compaction replaced the list, lengths remembered across changes of the list, a
save in the middle of a turn. Correct when each request is well-formed, the model
knows what is in the working tree and nothing else, each prompt is kept or rolled
back as a whole, and slots balance.

**Tool adapter and locks** (`tools/src/toolset.ts`). State: semaphores, serial
locks, write claims per path, permission promises. Operations: `toAISDKTool`
(validation, plan mode, permission, hooks, execution), claims of paths. Hard:
checks made before an `await` and used after it. Correct when two agents never
write one path at a time, and a tool runs only in a mode that allows it.

**Engine queue and goal run** (`core/src/engine.ts`, `engine-commands.ts`,
`goal-contract.ts`). State: the queue, the drain flag, the goal's phase, plan
handoff, steering buffer, wall-clock ceilings. Operations: submit, steer, clear,
pause and resume of goals, approve or reject a plan, model switches. Hard:
commands that arrive while an item runs; a ceiling that starts the next item
while the previous one unwinds. Correct when every queued item runs once and in
order, a goal ends in one of its final phases, and no two turns of one session
overlap.

**Loop scheduler** (`core/src/loop.ts`). State: the armed timer, iteration
counts. Re-submits a prompt on an interval until its stop condition holds.
Correct when a stopped loop never fires again and iterations do not overlap.

**Event bus** (`core/src/event-bus.ts`, `shared/src/stream.ts`). State: a bounded
history, one asynchronous queue per subscriber. Correct when a late subscriber
sees the kept history and then every event once, in order.

**Blackboard and report store** (`core/src/blackboard.ts`,
`orchestration/report-store.ts`). State: a bounded list of notes; report files
named by session and task. Correct when a report is of the run it is filed under.

**Permissions and plan gate** (`core/src/permissions.ts`, `plan-gate.ts`). State:
rules, remembered approvals, the plan gate's counter. Correct when a denial wins
over any allowance, and the gate closes when its plan is complete.

**Checkpoints** (`core/src/checkpoints.ts`). State: a list of snapshots and a
redo stack, persisted and shared by processes under a lock directory. Correct
when undo then redo is the identity and no process drops another's snapshots.

**Session store and lease** (`core/src/store.ts`, `state-dir.ts`). State: session
files replaced atomically, a lease file with a PID. Hard: two processes that both
find a dead lease. Correct when one session has one live owner.

**Portable session and handoff** (`core/src/portable-session.ts`,
`apps/desktop/src/main/cloud/`, `cloud-agentd/src/server.ts`). State: ownership
generation, bundles, workspace transfers. Correct when exactly one side owns a
session after any failed or repeated handoff.

**Memory and recall** (`core/src/memory-store.ts`, `memory-service.ts`,
`recall.ts`, `vector-store.ts`). State: text records and embeddings. Correct when
a saved memory is found again; almost all of it is data.

**MCP, LSP and vision clients** (`core/src/mcp.ts`, `mcp-oauth.ts`, `lsp/`,
`vision-relay.ts`). State: connections, pending requests by id. Correct when each
request gets its own answer or a timeout, and reconnects are bounded.

**Config, hooks and system prompt** (`config/src/`, `core/src/config-hooks.ts`,
`config-nl.ts`, `system-prompt.ts`). No state of their own. Correct when scopes
merge by precedence.

**Build tools** (`core/src/build/`). Runs checks, parses their output, keeps a
ledger of edits. Correct when a verdict is green only if every check passed.

### 1.2 Around the engine

**Builtin tools and sandbox** (`tools/src/`): background jobs with bounded
output, atomic file writes, stale-write detection, search and network tools.
Correct when an edit never overwrites a file that changed since it was read.

**Providers** (`providers/src/`): registries, manifests, OAuth tokens. Correct
when one refresh serves concurrent requests.

**Runtime and run events** (`runtime/src/`): an append-only log of run events with
recovery of a torn last record. Correct when a reader sees a prefix of what was
written.

**Protocol and loopback server** (`protocol/src/`, `server/src/`): numbered events
and replay for clients that reconnect. Correct when no event is lost or repeated.

**Command line and worker engine** (`cli/src/`): the engine in a worker; requests
correlated by id, finalisation on exit. Correct when each request settles once.

**ACP agent, SDK and editor extension** (`acp/src/`, `sdk/src/`,
`src/extensions/vscode/`): adapters over the protocol. Correct when a
prompt turn ends with exactly one stop reason.

**Automation** (`automation/src/`): claims, leases and expiry of scheduled runs
under a file lock. Correct when one due run is claimed once and an expired
claim's late completion changes nothing.

**Plugins** (`plugins/src/`): plugin workers and lifecycle. Correct when a crashed
worker's calls are rejected and disposal is complete.

**Desktop transports** (`apps/desktop/src/main/`, `apps/desktop/src/shared/`): host
processes, their recycling, sequence-numbered replay, a pool of runtimes, a
write queue per host. Correct when frames reach the renderer once and in order
over any reconnect, and a retired host gets nothing of its successor's.

**Mobile client and relay** (`apps/desktop/mobile/`, `apps/desktop/relay/`): the
phone takes over the session of a desktop. State: sockets at both ends, one
controller slot, the phone's cursor and buffer of held events. Hard: half-open
sockets, retries that meet a return to the foreground, timeouts of replaced
attempts, gaps and answers overtaken by events. Correct when the phone in the end
holds the slot with a socket it listens to, and is handed each event once and in
order or a snapshot instead.

**User interfaces** (`tui/src/`, `apps/desktop/src/renderer/`): rendering; pure
reducers over UI events. Correct when the view is a function of the events.

**macOS bridge and evaluation** (`macos-bridge/src/`, `eval/src/`): a native host
adapter and a scoring harness.

### 1.3 What is hard to test here

`PROJECT.json` lists each hazard at its line with the properties that would
catch it. In short: slots and places handed over while their receiver is being
aborted; parents that wait in one queue for children that wait in another;
results combined from different submissions of a plan; files staged by one task
and taken back by another; interrupts and crashes between a merge and its
verdict; commands that land between the awaits of a goal run; a conversation that
is compacted, rolled back, undone and redone; a link whose two ends learn of its
death apart. Those are modelled. Open: locks and leases between processes, write
claims and permissions of tools, and the handoff to the cloud.

## 2 The plan

Order: what every turn passes first (the limiter), then what forks turns, then
what schedules forks, then what they do to shared state; after that the engine's
own loop and the conversation, and last the boundaries between processes.

| # | modules | abstract specification | status |
|---|---|---|---|
| 1 | `Limiter` | itself, for 2 | checked, proved |
| 2 | `FanOut`, composed of `Limiter` and the child gates | `Limiter!Spec` | checked, proved; `continue_subagent` and retention open |
| 3 | `TaskDag` | `TaskPlan` | checked, proved |
| 4 | `WorktreeMerge` | `MergeLedger` | checked, proved; the ensemble judge and the diff shown to reviewers open |
| 5 | `EngineQueue`: queue, drain loop, gates, goal run, plan handoff, loops | its invariants | checked, proved |
| 6 | `SessionTurn`: message lists, compaction, undo and redo, saves | its invariants | checked, proved |
| 7 | `PhoneLink`: sockets, retries, the controller slot | its invariants | checked, proved |
| 8 | `MobileFeed`: gaps, replays, snapshots | `EventFeed` | checked, proved |
| 9 | `FileLock`, `ToolCall`: write claims; the pipeline of a tool call | mutual exclusion per path | open |
| 10 | `Checkpoints`, `SessionLease`, `AutomationLease`: processes over lock files | one owner | open |
| 11 | `Handoff`: ownership generations between desktop and cloud | one owner | open |
| 12 | `ChildRegistry`, `RunLog` | one turn per child; a prefix of what was written | open |

Composition: `FanOut` extends `Limiter` and calls its actions; `TaskDag` extends
`TaskPlan`'s constants and is checked against it; `WorktreeMerge` stands for what
`runTask` does inside `TaskDag`, with a plan that is already validated, and is
checked against `MergeLedger`. `EngineQueue` drives turns and sees of each only how
it ends; `SessionTurn` is the inside of one session's turns and sees of the engine
only that turns follow each other, which is what the drain loop guarantees.
`PhoneLink` says whether there is a connection, `MobileFeed` what is carried over
it: its `LinkUp` relies on `Reattaches`. A direct product of these pairs is not
planned: they meet in one bit each.

Theorems worth proving next: what the modules 9 to 12 promise. Of the modules
there are, every safety property that a passing run checks is proved.

## 3 Modules

Each module names the code it stands for; `PROJECT.json` maps every definition
to its lines. A definition whose comment begins with "Mutant of" is a plausible
bug, used to show that a property can fail; it is no part of the specification.

### 3.1 `Limiter`

One action per synchronous stretch of `limiter.ts` and of its callers in
`session.ts`.

| state | code |
|---|---|
| `limit`, `active`, `successes`, `waiters` | the private fields of the limiter; a waiter is named by its session |
| `turn[c]` | `idle`; `preparing` from `run()` to `acquire`; `queued` in `acquire`; `running` inside the limiter's callback |
| `spans[c]` | `#limiterSuspends`, the spawning tools that await a child |
| `aborted[c]` | the turn's abort signal |

`Begin`, `GiveUp`, `Acquire` are the stretches of a turn up to its slot; `Abort`
fires the signal and, for a queued turn, removes the waiter and ends the turn in
the same dispatch; `EndTurn` is `onSuccess` or `onOverload`, then `release`, each
with its pump (pumping twice admits the same waiters as pumping once after
both); `OpenSpan` and `CloseSpan` are the two halves of `suspendLimiterSlot`
around its await. `reacquireSlot` never queues: after a lend, `active` may exceed
`limit`, and the counter itself may go below zero while abandoned tools still
hold spans. Both are in the model; `Conservation` says exactly how far.

### 3.2 `FanOut`

`Limiter` plus one semaphore per session. `stage[s]` follows a child: queued in
its parent's gate, inside it, leaving it, done. `Spawn` is a spawning tool up to
its first await: it takes a place (and then, inside the gate, lends the slot and
begins the child's turn) or queues. `Settle` is the end of the child's run with
the reclaim of the slot; `LeaveGate` releases the place and promotes the oldest
waiter, whose own stretch runs inside it. `Deliver` is one abort listener; as
all listeners of a signal run in one dispatch, nothing else may run while one of
them is due (`Quiet`). `Timeout` is the per-child clock, `Cancel` is
`check_task({cancel})`. A turn that was aborted may end although its tools still
run (`AbandonsTools`): the SDK stops waiting for them.

### 3.3 `TaskPlan`, `TaskDag`

`TaskPlan` is the promise: run after all dependencies, skip for cause, outcomes
are final until the plan is submitted again. `TaskDag` is `runDag`: `Submit`
seeds from the journal (the fixpoint of the loop at `orchestrator.ts`, written as
the largest closed set of journaled tasks), `Dispatch` is one pass of the `while`
loop with skips, launches and the branch that gives up the rest; `Complete` and
`Fail` are a task's end. `Complete` journals or, if `Lossy`, loses the event: the
append is best-effort. `OtherPlan` is another plan of the session that reuses a
task id and overwrites its report file. To tell results apart, completions of an id are numbered (`runs`) and
`inputs` records which results a run started from; these and `lost` are history
that the code does not keep.

### 3.4 `MergeLedger`, `WorktreeMerge`

`MergeLedger` is what the shared tree promises: a staged file is on trial for one
task, kept for one completed task, or stray. `WorktreeMerge` is the code. A
file's content is a value: `Base` (in HEAD) or something a task wrote. `index` is
the staged content, `dirty` the files with unstaged edits, `tree` the tasks with
a worktree, `line` the FIFO of the merge lock whose head holds it, `merged[t]`
the local `mergedFiles`. `stage[t]` walks through the function
`#runWorktreeTask`: working, merging (queued for the lock or holding it), gating,
reviewing, reverting, removing, done. Each attempt ends in `RetryBehind` or
`SettleBehind`, the `continue` and the `return` of the loop, the latter with the
`finally` clause. `AcceptBehind` is the way past a green gate. Tasks of the main
tree (`#runSharedTask`) share the children, gate and review and have nothing to
restore. `Crash` is the death of the process followed by a resubmission: what
is journaled as completed is kept, the repository stays as it was.

What is assumed of git, which is not under test: HEAD does not move while a plan
runs (agents do not commit; the engine commits between turns); therefore a
squash-merge of a branch forked from HEAD either applies or is refused whole, and
is refused exactly if it touches a file with unstaged edits or with other staged
content. `Checked` presupposes a repository profile, without which the code
skips the gate. The winner of an ensemble is a worktree task of one attempt
without a review.

### 3.5 `EngineQueue`

`pending` is the queue, `active` the item that runs, and `at` the place where the
drain loop and the turn inside it stand: `veto` (the prompt hook), `prep`
(checkpoint and attachments), `turn`, `gate`, `review`, `commit`, `assess` (of a goal
round), `other` (a command that is queued), `yield` (the macrotask after an item) and
`hook` (the `session.idle` hook) are its awaits; between them lie `next`, `continue`,
`check` and `end`, where no command can land. Commands act at once on the fields
of the engine, as `send()` does, and what they queue runs later. A job is a record
whose `kind` names the closure that was queued: `prompt`, `handoff` (an approved
plan), `fix`, `continue`, `nudge` and `idle` for what the engine queues itself, `plan`,
`drive`, `execute`, `round` and `resume` for the goal run, `tick` for a loop's iteration,
`other` for `/compact` and slash commands. The comments of the
`VARIABLES` name each private field. A turn is known by how it ends: with or
without changes, done, failed, interrupted or with its tasks open; the verdicts
of gate, review, assessor and loop condition are nondeterministic. `StopLoop`,
`LoopFires` and `LoopJudged` are `LoopController` of `loop.ts`, which lives beside
the drain loop and meets it through the queue.

### 3.6 `PhoneLink`

A socket has two ends: `side` is the phone's (`RemoteEngineClient`), `relay` the
relay's (`server.ts`), `cut` holds sockets whose path is broken, which each end
finds out on its own: the phone by a close event or a failing send, the relay by
its heartbeat. `attempt[s]` is the asynchronous function that opened `s` and has
not returned (`opening`: in `#openSocket`; `waiting`: in `#waitForReady`) and `by[s]`
who called it: the app's `connect`, the reconnect timer, or the return to the
foreground. Rejecting a promise runs the attempt's catch before the phone's next
event, so it is part of the action that rejects (`Abandon`, `Reschedule`). The
history variable `hasty` remembers that the user acted while the client was
busy connecting; three properties speak of behaviours without it, and the run
`phone_lockout` shows why (section 7).

### 3.7 `EventFeed`, `MobileFeed`

`EventFeed` is the promise: the events of one host in order and once, or a
snapshot that stands for them. `MobileFeed` has the host's counter and the calls
it must answer, the relay's pending answers, the frames on their way, and the
client: `known` and `cursor` (`#hostInstanceId`, `#lastEventSeq`), the buffer `held` of
events beyond a gap, the call `#reconcileEventGap` awaits (`reconcile`), and the
app's own snapshot request (`seeding`, `bootError`). The ring of the host is the
last `Ring` events before `emitted`. A frame the relay writes at once may overtake
the answer of an earlier call, because an answer is written when its promise has
run. `LinkUp` and `LinkLost` are all that is left of the connection. The refinement
maps `known` to the host followed and `cursor` to the place in its events;
`handed`, what the sinks were given, is the history both share.

### 3.8 `SessionTurn`

`messages` is `#modelMessages`, `history` is `#history`. A message has a role
(`user`, `call`: an assistant message that calls a tool, `tool`: its result,
`assistant`: text) and the facts it `tells`: the prompt of turn t and its k-th edit.
A summary tells the facts of what it replaces, so forgetting shows. `tree` is the
set of edits in the working tree, `checkpoints` and `redo` the stacks of
`checkpoints.ts` with the marks (lengths of both lists) and the stashed tails of
`engine-commands.ts`. `stage` follows `run()`: `prompted` (both lists have the prompt),
`prepared` (compaction is over), `streaming`, `ending` (the `finally` clause is next),
`saving`. The history variables say which prompts and edits the messages do not
tell for a reason (`forgot`: `/clear`, an edit that was cut off), and whether
the lists are still in step (`intact`: FALSE after an undo to a checkpoint whose
lengths are about another conversation, because of a compaction, a `/clear` or a
tail that was not brought back, and after a resume from a save made in the middle
of a turn or before the last undo or redo). Section 7 says what happens then.

## 4 Runs

States are distinct states found by TLC.

| run | checks | bounds | states |
|---|---|---|---|
| `limiter` | `TypeOK`, `Conservation`, `NoIdleCapacity`, `AbortedIsNotAdmitted`, `NoOvertaking`, `QueuedIsServed` | 3 sessions, ceiling 1..3, a raise every 2 successes, 2 spans per session | 29,472 |
| `fanout` | `FanTypeOK`, `GateAccounting`, `NoOrphan`, `ImplementsLimiter`, `EveryChildSettles` | a root, two children, a grandchild; ceiling 2, gates of 1 place, 1 background child, timeouts that may come | 12,110 |
| `taskdag` | `DagTypeOK`, `SkippedForCause`, `NoStaleInput`, `WorkIsKept`, `ImplementsPlan`, `PlanReturns` | 5 tasks (a chain of three and a join), 2 submissions, lost events, other plans | 336,171 |
| `worktree` | `MergeTypeOK`, `StagedIsAccounted`, `CompletedIsWhole`, `GateSeesOneTree`, `ImplementsLedger`, `EveryTaskSettles` | 2 worktree tasks (one of 2 attempts with gate and review, one of 1 attempt without), a gated task of the main tree after one of them; 2 files; an interrupt, a crash, failing forks | 415,766 |
| `engine` | `EngineTypeOK`, `IdleIsEmpty`, `StoppedRunIsSwept`, `GoalTurnLeavesDriver` | 4 commands, one goal text (setting it again replaces the run); 1 goal round, 1 gate fix, 1 loop iteration; plan first; a hook that vetoes | 4,236,091 |
| `engine_live` | `LoopIsAlive`, `EngineSettles` | 2 commands; 1 goal round, 1 gate fix, 1 review round, 1 idle continuation, 1 nudge, 2 loop iterations; a hook that vetoes; stalling turns | 2,275,621 |
| `phone_link` | `LinkTypeOK`, `NoDeafController`, `WaiterIsOwn`, `Reattaches` | 3 sockets alive at once, 3 faults, 2 acts of the user | 760,602 |
| `mobile_feed` | `MobileTypeOK`, `ImplementsFeed`, `CatchesUp` | a ring and a buffer of 2 events, 6 events, 2 hosts, 3 faults | 216,225 |
| `session` | `SessionTypeOK`, `RequestIsValid`, `ContextMatchesTree`, `RedoIsExact` | 3 prompts, 1 edit each, compactions that keep 6 messages, 3 undo or redo, 1 compaction or clear on command, 1 goal save, 1 crash | 14,121,358 |

and three runs that end in a violation, `phone_lockout`, `session_wiped` and
`redo_spliced` (section 7).

What they show, and why the bounds are enough:

* `limiter`: no order of aborts, overloads, nested lends and abandoned tools loses
  or forges a slot. Three sessions are one that holds, one that waits and one
  that passes or overtakes; the ceiling moves through its floor, an inner value and
  its maximum; two spans tell the first and last span from the others. The
  safety properties are proved for all values, so only `QueuedIsServed` depends
  on the bounds.
* `fanout`: the counts of both kinds of gates stay exact in a tree whose gates
  fill up (two children for one place), with a second level below, through
  aborts, timeouts, cancels and promotions in any order. `NoOrphan` says that an
  abort reaches the whole subtree, whether a child is queued or started. With a
  ceiling of 2 every spawned child settles even if no timeout ever comes, although
  gates hold both kinds of children: a child of the inner level waits behind its
  parent's gate, the limiter and an uncle. Ceiling 1 is not enough (section 7). The
  safety properties are proved for every tree, so only `EveryChildSettles` depends
  on the bounds.
* `taskdag`: the scheduler keeps the promise of `TaskPlan` over crashes and
  resumes, and returns; what one resume puts together fits even when events are
  lost. The chain reaches the branch that gives up tasks nobody looked at, the
  join takes part in a journal that survived in any closed or open part. Two
  resumes after a loss break `NoStaleInput` (section 7).
* `worktree`: two worktree tasks are enough for a merge under a review, a merge
  that meets the other's file, a restore beside the other's result; the task of
  the main tree takes part in the gate's lock and edits under everybody's feet.
  Two contents of one task tell its attempts apart. The safety properties are
  proved for any number of tasks.
* `engine`: whatever a user does at four awaits of the engine, the drain loop does
  not end over a waiting item, a goal run that stopped has no turn left in the
  queue, and a turn of the run never ends with the run armed and nothing queued
  to carry it on. Four commands are what the longest known interplay takes: set
  a goal, interrupt it, resume it, and one more while the resumed turn runs. The limits
  on rounds, fixes, continuations, nudges and iterations are the code's own
  settings; at 1, each budget has its first and its exhausting use. The properties
  are proved for any settings.
* `engine_live`: with every automatic continuation switched on at once, the
  continuations cannot feed each other for ever, and the controller of a loop is
  never left waiting for an iteration that was swept, cleared or dropped.
* `phone_link`: two acts of the user and three faults let a return to the
  foreground meet an attempt of the timer and a half-open socket at the relay.
  Three sockets are the phone's current one, one it forgot, and one on its way.
* `mobile_feed`: gaps inside and beyond the ring, a full buffer, a replaced host,
  answers overtaken by events, calls that fail: the app is handed each event once
  and in order or adopts a snapshot, and in the end it is up to date or shows its
  error. Six events fill ring and buffer and go past both.
* `session`: whichever way turns end, and wherever a compaction cuts, each request
  is one a provider accepts, and what the model is told is what the user sees and
  what is in the tree. Three prompts are the fewest for which a compaction has
  something to summarise before, in and after the turn an `/undo 2` takes back.
  `RedoIsExact` speaks of a tail as long as each `/redo` since the `/undo` that cut it
  off brought its own tail back (`inLine`); `redo_spliced` shows why. All four
  properties are proved for any number of turns, commands and crashes.

CHECK_DEADLOCK is off where the system may rest: a scheduler that returned for the
last time, tasks that are all done, an engine whose user has no command left, a
phone that is attached or closed, a session between turns.

BOUNDS named in the modules: `MaxSpans` (spawning tools in flight; in `FanOut`
never reached first, as a gate has fewer places), `MaxSubmits`, `MaxRuns`,
`MaxCrashes`, `MaxInputs`, `MaxSockets`, `MaxActs`, `MaxFaults`, `MaxEvents`,
`MaxHosts`, `MaxTurns`, `MaxSteps`, `MaxRewinds`, `MaxShrinks`, `MaxGoalSaves`.

## 5 Fairness

* `Limiter`: a prepared turn asks for its slot or gives up (weak fairness: a
  continuation that is ready runs); a turn that can end again and again ends
  (strong: `stopWhen` bounds its steps, but each new span disables its end for a
  while); an open span closes, since the child it awaits ends.
* `FanOut`: the same of admissions and ends; settling, leaving the gate,
  and delivering an abort are continuations or callbacks that are ready. Nothing
  is assumed of spawns, aborts by the user, cancels or timeouts: a child settles
  without its clock.
* `TaskDag`: a pass that is due runs; a task in flight completes or fails, which
  is `EveryChildSettles` of module `FanOut`, and holds of the code only as far as
  that property does. Crashes are not prevented: their number is bounded by
  the submissions.
* `WorktreeMerge`: a task that can advance does. Children and reviewers end as
  above, checks have timeouts, git commands return. A task waiting for the lock
  cannot advance, so that lock's order is what the liveness result is about.
* `EngineQueue`: the drain loop, and the turn it awaits, take their next step
  (provider calls, checks and hooks have deadlines or follow the abort signal), and
  so does the loop's controller, whose timer fires. Commands are not assumed.
* `PhoneLink`: an armed timer fires, the relay's heartbeat runs (an interval), a
  replay is answered or lost (its call has a timeout), and whatever is due on a
  socket happens: an open succeeds, fails or times out, a close event or a frame is
  handled. Faults and acts of the user are not assumed, and both are bounded: a
  network that never holds still proves nothing.
* `MobileFeed`: host and relay answer, frames that arrived are handled, and a lost
  connection comes back, which is `Reattaches` of `PhoneLink`.
* `SessionTurn` states no fairness: its properties are about safety.

## 6 Proofs

All theorems hold for every value of the constants that satisfies the modules'
assumptions (`LimiterAssumption`, `FanOutAssumption`, `PlanAssumption`,
`DagAssumption`, `MergeAssumption`, `EngineAssumption`, `LinkAssumption`,
`MobileAssumption`, `SessionAssumption`); TLC evaluates these in every run.

**`LimiterProofs`.** The inductive invariant `IInv` is `TypeOK`, `Conservation`,
`NoIdleCapacity` and `CountRestarts` together. None is inductive alone: that a pump
admits the right number needs the queue to list exactly the queued turns, each
once (part of `NoIdleCapacity`), and the count to be what `Conservation` says. The
heart is `PumpLemma`, on what a prefix of a duplicate-free queue does to the
cardinality of the running turns, and `RemoveLemma`, on an abort from the middle
of it. `AbortedIsNotAdmitted` needs in addition that queued turns are live
(`QueuedIsLive`), `NoOvertaking` that a pump admits a prefix.

**`FanOutProofs`.** `FanInv` adds the gates and the span counts to `IInv`. That
every step of the composition is a step of the limiter or leaves it alone
(`FanStepIsLimiterStep`) needs only the types and that a span is opened inside
the gate; from it follow `FanOutImplementsLimiter` and, by the theorems above,
everything known of the limiter (`TreeConservesSlots`). `NoOrphan` needs `OrphanInv`
as well: an awaited child queues at a gate only while its parent's turn runs, and a
child inside whose parent's turn is over runs no turn or was told to stop. A turn that ends
has no awaited child inside, or was aborted; and no turn ends while a listener is
due, so its children have heard of the abort by then.

**`TaskDagProofs`.** `DagInv` is the types, `Justified` (why a task has its
outcome) and `AllOrNothing` (between submissions the plan is settled whole or not at
all). The step that needs work is the pass
that skips (`PassSkips`): a task given up as unreachable has a dependency that
did not complete, because with nothing in flight a dependency without an outcome
is skipped by the same pass. Resumption has its own invariant, `ResumeInv`: the journal is closed
under dependencies and current, results are journaled, runs in flight are
computed from current results. It holds until an event is lost, so
`NoStaleInputHolds` assumes that events are never lost (`Lossy = FALSE`);
`WorkIsKeptHolds` assumes nothing, since the property itself speaks of the time
until the first loss and of ids no other plan reuses.

**`WorktreeMergeProofs`.** `OwnerInv`: an outcome comes late (the task is being
removed or done), only a task on trial or completed has merged files, no file
has two owners, and a file is staged exactly if it has one. `StagedIsAccounted`
follows, and with it that every step is a step of `MergeLedger`. The restore of a
file cannot hit a sibling because owners are single. `CompletedIsWholeHolds` is
about contents and needs an assumption, `DistinctWork`, that no two tasks
produce the same contents. Without it the property is false: git leaves a file
alone that is already staged with the same content, so the second task does not
own it, and the first one's restore removes it under a second task that has
completed.

**`EngineQueueProofs`.** The properties ask which jobs are queued, not in which
order, so the first lemmas say of each operation on the queue (append, head and
tail, removal at a place, dropping some kinds) which set of jobs it leaves. `Without`
is a recursive function over the length of the queue, and the induction its lemma
needs runs over a set of numbers (`SetInduction`), because the library's
induction takes an operator the provers cannot instantiate. The invariant
`EngineInv` has one part per question. `QueueInv`: the places where the drain loop
has found the queue empty. `GoalInv`: a run that is not active has nothing queued, and
neither has the run whose verdict is awaited, unless the epoch changed: a verdict
that stops a run sweeps only when the epoch is kept, so without the second half
the first is not inductive. `IdInv` and `WaitInv`: an iteration that is awaited is in
the queue or in hand, and ids are those of live controllers. `StopInv` and `DriverInv`:
where a live run has its successor at each await. They say that a stop leaves no
mark on a run armed later, that the task chain of a goal turn is carried on by what
it queued, that a run in its planning phase has its plan turn, and that
a turn of the run ends in a queued job, a pending fix, or a plan turn whose execution
begins on return. With them `GoalTurnLeavesDriver` follows action by action.

**`PhoneLinkProofs`.** That the relay has one controller is inductive as it stands. The
two other invariants need the shape of a client that was never used hastily
(`Calmly`): every socket it holds is the current one, at most one attempt runs and it is
about that socket (or the client was shut down under it), a waiter belongs to the waiting
attempt, and a retry is armed or a replay awaited only without an attempt. Each
half needs the others: a timer that fires opens a second socket unless it was armed at
rest, and it was because an attempt that fails discards the current socket, which
is its own because no other attempt runs. The run `phone_lockout` is what happens
outside this shape.

**`MobileFeedProofs`.** That every step of the phone is a step of `EventFeed`
needs `MobileInv`, the types and three things no single action shows. `LinkInv`: the
client is ready only after the one ready frame of its connection, follows the
host that is live, and asks nothing before; so nothing on the wire can speak of
another host. `BoundInv`: no frame, answer or held event is ahead of the host, so
the cursor never is. `ResyncInv`: at most one snapshot of a reconciliation is on its way,
and the app's own was asked first; since the host answers in order, neither moves
the cursor back. Whether a frame overtakes an answer does not matter to any of
the three. The run of held events that are handed over (`RunEnd`) and the smallest
held event exist because finite sets of naturals have least members
(`LeastMember`).

**`SessionTurnProofs`.** A request is well-formed because the list of messages is
(`ListInv`: who may follow whom, by stage) and because the steps of the turn are pairs
of a call and its result (`StepInv`). Most actions keep that by themselves, also
compaction, wherever it cuts (`CompactedShape`). What cuts or appends to the
list in another turn than the one that wrote it does not: an undo cuts at a
number remembered long ago, a redo appends a tail cut off long ago, a crash
brings back a list saved long ago under checkpoints taken since. So `MarkInv` says that every
checkpoint of the present conversation that `/undo` could reach, now or after a
`/redo`, marks a place where a prompt begins or the end of the list; `TailInv` the same of
the tails in the redo line, with the checkpoints beyond the place of the cut; and
`DiskInv` the same of the saved generation. `EpochInv` keeps conversations apart: a
compaction begins one that no checkpoint and no save is about. All this
holds while `intact` does, and `RequestIsValid` speaks of such states
only. `LengthInv` bounds the transcript, also what a redo would bring back, by
two messages a prompt.

`ContextMatchesTree` needs a second invariant, `TellingInv`, about what the messages
say rather than who says it. That it speaks of the time between turns is why: inside a
turn the same equation holds with the steps that have ended and without the step that
is open (`ToldInv`, `TurnInv`). An undo cuts two lists at two remembered lengths and
puts back a third thing, a remembered tree, so `CutInv` says of every checkpoint of the
present conversation that where its two lengths cut, what comes before tells what
the prompts before and its tree say, and what comes after tells nothing of them. A
redo appends a tail, so `LineInv` says the same of each tail, and that tails tell
nothing that the list tells, nor each other; a crash restores lists but not the tree, so
`SavedInv` says which part of the tree the saved lists are about. These would not be
inductive without two facts that hold always. `ChainInv`: the trees of the checkpoints
grow with their place and the redo line climbs from the present tree, so that an
undo gives up edits and never brings any back. `FreshInv`: nothing is told, edited or
remembered of a turn to come, so a new prompt and a new edit are told once. The
invariants ask that each fact is told once (`Once`), by a call and its result if it is
an edit: only then does a cut separate what is before from what is after.

`RedoIsExact` needs a third, `ExactInv`, and of the others only types, lengths and
`ChainInv`; it holds in states that are not `intact`, too. The topmost tail that is
in line gives, put back after the present lists, the conversation it was cut off
from, provided the lengths are those it was cut off at (`Rejoins`); and so does each
tail below with respect to what the tail above it will bring back
(`Rejoined`). In a turn the first half speaks of the lists its rollback would leave,
until a reply makes the transcript longer than at the cut (`RejoinsNow`). An empty
list of messages is apart: a rollback of a prompt that holds a summary may leave one
that is not what it was, but then only a tail cut off at length 0 goes back, and
that told all there was. `ExactInv` fails as soon as a `/redo` leaves its
tail out, which is run `redo_spliced`; the condition `inLine` is what remains.

TLC checked the three invariants on small instances before they were proved.

| theorem | says |
|---|---|
| `LimiterInvariant`, `LimiterTypeCorrect`, `ConservationHolds`, `NoIdleCapacityHolds` | the invariants of run `limiter`, and that the count of successes restarts where it must (`CountRestarts`) |
| `AbortedIsNotAdmittedHolds`, `NoOvertakingHolds` | its action properties |
| `FanInvariant`, `FanTypeCorrect`, `GateAccountingHolds`, `SpansAreChildrenHolds` | the gates are exact in every tree, and a turn's lent spans are its awaited children |
| `NoOrphanHolds` | no subtree outlives the turn it belongs to, in every tree |
| `FanOutImplementsLimiter`, `TreeConservesSlots` | the tree is a limiter, and inherits its theorems |
| `DagTypeCorrect`, `SkippedForCauseHolds`, `DagImplementsPlan` | the scheduler keeps the plan's promise |
| `NoStaleInputHolds`, `WorkIsKeptHolds` | resumption, as long as the journal is complete |
| `OwnersInvariant`, `MergeTypeCorrect`, `StagedIsAccountedHolds`, `GateSeesOneTreeHolds` | owners, and one tree per verdict |
| `LedgerImplemented`, `CompletedIsWholeHolds` | the ledger; completed work stays |
| `EngineInvariant`, `EngineTypesHold` | the strengthening; types and budgets, for every limit |
| `NothingIsStranded`, `StoppedRunsAreSwept` | nothing waits in an engine at rest; a stopped run has no turn queued |
| `LoopsStayAlive`, `GoalTurnsLeaveDrivers` | loops and goal runs are carried on until they are stopped |
| `LinkTypesHold`, `CalmInvariant` | one controller, whatever happens; the shape of a calm client |
| `NoDeafControllerHolds`, `WaiterIsOwnHolds` | unless the user was hasty, the phone does not lock itself out and no attempt settles another |
| `MobileInvariant`, `MobileTypesHold` | the strengthening; types and the phone's bounded buffer, for every ring, buffer and stream |
| `FeedImplemented` | the phone's copy of the stream keeps the promise of `EventFeed`, whatever is lost, refused or overtaken |
| `SessionTypesHold`, `SessionInvHolds` | types and the length of the transcript; the strengthening |
| `RequestsAreValid` | every request is one a provider accepts, for any number of turns, compactions, rewinds, saves and crashes |
| `TellingInvHolds`, `ContextMatches` | the second strengthening; between turns the model is told of exactly the prompts in the transcript and the edits in the tree |
| `RedoesAreExact` | a `/redo` that brings back a tail brings back the conversation as it was at the `/undo`, if each before it did |

Only model-checked: all liveness (`QueuedIsServed`, `EveryChildSettles`,
`PlanReturns`, `EveryTaskSettles`, `EngineSettles`, `Reattaches`, `CatchesUp`), because
the prover has no rules for fairness and ENABLED. No module declares a recursive operator; the one
fixpoint of the code, seeding, is the union of the closed sets.

## 7 Findings

Three runs check what the repository says of itself and find that the code does
something else.

* `session_wiped` / `RollbackDropsOnlyThePrompt`. `compaction.ts:183-186`: a hiccup
  of the summariser "must not cost the conversation its past". A prompt that
  overflows the window while the list has at most `COMPACT_KEEP_RECENT` messages
  causes an emergency compaction, which keeps one message, that prompt, and folds
  the summary of all others into it. `session.ts:1269-1271` binds `userMsgRef` to the
  new object, and if the turn ends before a reply the `finally` clause (line 1946)
  pops it: the model forgets everything, and the save that follows makes it
  permanent, while the transcript still shows it all.
* `phone_lockout` / `AlwaysReattaches`. `apps/desktop/mobile/README.md:22`: drops
  "retry for the lifetime of active phone ownership ... and reattach to the same
  relay engine". When the user returns to the app, or connects again, while an
  attempt is under way, or a late failure of an older attempt arms the timer beside
  a live socket, `#openSocket` replaces `#socket` without closing it. The forgotten
  socket stays open and answers the relay's pings, so the relay keeps it as its
  controller and refuses (4002) all further attempts of the same phone.

* `redo_spliced` / `RedoDetectsMutation`. `engine-commands.ts:1586-1587`: the stash of an
  `/undo` holds the mark its tail belongs at, "so /redo can detect an intervening
  mutation". It compares lengths only. Two turns, `/undo`, `/undo`, and a turn in plan
  mode, which takes no checkpoint and leaves the redo line: the lists are as
  long as after the first `/undo`. The first `/redo` finds other lengths and leaves its
  tail out; the second finds its own lengths and appends the tail of the second turn
  after the third. `RedoIsExact` states what does hold.

Observed while modelling, with TLC on variants of the modules or by reading, and
not among the runs:

Plans and subagents

* `engine.ts:503-504` says "hold-and-wait is structurally eliminated". The slot is
  lent inside the child gate only. With `maxParallel` 1, `providerConcurrency` 1 and
  the child timeout off (`fanout` with ceiling 1), a background child takes the
  root's only place and queues for the slot the root holds; the root's next,
  awaited child queues for the place.
* `orchestrator.ts:165-168` says that seeding never retains a dependent's result
  beside a fresh one of its dependency. When the event of a dependency was lost
  (`journal.ts:97`), the first resume runs it again; a crash before its dependent
  runs lets the second resume seed the new result with the old dependent. `taskdag`
  allows losses but only one resume, where `NoStaleInput` holds.
* `orchestrator.ts:19-20`: a resumed run "seeds ONLY from its own plan's prior
  completions". Events are filtered by plan, report files are named by session
  and task only (`journal.ts:113`), so another plan's report may be read.
* `orchestrator.ts:280-281`: the branch that gives up the rest "shouldn't happen". It
  does in a chain of three whose first task fails with nothing else in flight, and
  the skips it decides never reach `onStatus` (line 81).
* A resumed task of a plan with overlapping files is shown as `running` after it
  was shown as `completed` (`orchestrator.ts:226`).
* `orchestrator-runner.ts:1205-1206`: a rejected review must restore "or main keeps
  rejected edits while the task reports failed". An interrupt that meets the
  reviewer in the queue of the child gate makes `gate` reject; the exception passes
  the restore (line 1242).
* `orchestrator-runner.ts:1122` advises "sequential deps" for files that clash. The
  worktree of a dependent is forked from HEAD (`gitops.ts:154`), where the staged
  result of its dependency is not, so the same file is refused again.
* The header of `limiter.ts` (lines 5-7) says it bounds concurrent turns.
  `reacquireSlot` never queues, so the number of turns that run at once may pass
  the ceiling for a while; its own comment (174-177) says so.
* A gate's verdict is about the tree at that moment (`GateSeesOneTree`, of the
  index). A sibling's later restore may change what was verified together, and
  children of the main tree edit files during a gate without the lock. The diff
  shown to a reviewer is of the whole main tree when a task declares no files. A
  restore also drops later unstaged edits of a main-tree task to that file.
* A crash between merge and verdict leaves unverified staged files (`stray` in
  the model); a crash between the journaled outcome and the removal leaves a
  worktree.

The engine's queue (most are behaviours of `EngineQueue`)

* A headless turn of a goal run that stalls after it changed the tree is seen as
  an aborted gate (`session.ts:2547-2551`, `gate.ts:64`): the run stays armed with an
  empty queue. `GoalTurnLeavesDriver` speaks of turns that were not aborted.
* `#beginGoalExecution` (`engine.ts:3632`) does not look at the run's epoch, which
  the comment at 3401-3403 says protects a replaced run.
* `/goal clear` during an execute turn leaves `#planExecutionActive` set; a
  `session.idle` hook continues after Esc; Esc while a turn prepares, then an
  approved plan, leaves `#userStop` set for the plan's execution.
* Dequeuing or clearing a gate's fix leaves the goal run armed with nothing queued,
  as does a fix turn or a steering turn of the run that throws (3477-3485).
* A prompt submitted during `#commitOnGreen` clears `#fixPending` of a fix that is
  queued; `edit` and `keep` of a plan outside plan mode do not pause a run; a
  resume during a handoff turn that throws keeps the old chain's flag.
* Shutdown during an assessment lets the verdict queue one more turn after the
  queue was emptied.

The phone

* A close with 4003 or with 1000 and "desktop-control" is terminal for a client
  that is ready, but one that still waits for `ready` only sees its waiter rejected
  and retries for ever (`RemoteEngineClient.ts:435`).
* An event delivered while the app awaits its snapshot is applied a second time,
  and events between the capture of `engine.snapshot()` and the read of
  `lastEventSeq` (`host.ts:512-540`) are never shown (`useRemoteSession.ts:616`).
* A return to the foreground during a replay discards the socket it has just
  opened; the ready timeout of one attempt clears another attempt's waiter; an event
  that overtakes `ready` on a client that knows no host starts a recovery.

The conversation

* `/undo 2`, one `/redo`, a turn in plan mode, `/undo` cuts that turn in its middle: the
  redone checkpoint's lengths are about a tail that was not brought back
  (`engine-commands.ts:1575`). `Overtaken` marks such checkpoints, and the
  properties exclude what follows; likewise the marks outlive a compaction and
  `/clear`.
* Undo, redo, clear and compact are not saved: quit and resume, and the turn is
  back. Setting a goal in the middle of a turn saves its prompt without a reply;
  after a crash the next request has two user messages in a row.
* An edit of a step that had not ended when the turn broke off is in the tree and
  told to nobody; a redo of files alone leaves its edits unknown to the model.
  Notices of finished background children (`session.ts:1210`) are lost with a
  prompt that is rolled back.

## 8 What is not modelled

* `Limiter` to `WorktreeMerge`: `continue_subagent` and retention of children; the
  judging of ensemble attempts; branch-mode commits after a plan; untracked files
  a reset leaves behind; a detached plan running beside a root turn that edits.
  Results, reports, diffs and messages are versions or values, not text.
* `EngineQueue`: the wall-clock ceiling of an item (off by default), spend limits, the
  verify command that precedes the gate in old configurations, goals accepted
  without checks under the `compat` setting, the text of verdicts, `engine.json` and
  its restoration, batches of commands, model switches.
* `PhoneLink` and `MobileFeed`: a bootstrap for another session on a live client, a
  relay without a managing desktop, a host replaced while the phone is connected,
  byte limits of ring and buffer, the app's view and the events it keeps while it
  boots.
* `SessionTurn`: saves are atomic and succeed; an `/undo` refused because background
  children run, checkpoints lost to pruning, offloading and micro-compaction (which
  replace results by shorter ones in place), a turn refused for its budget, the
  attachments and the system prompt of a request.
* The components of section 1 without a module are planned (section 2) or left
  out: memory and recall, configuration, providers, build tools' parsers, the
  user interfaces and the evaluation harness are I/O, tables or pure data
  transformations with little state to check. They are most of the repository's
  lines: the definitions here stand for a small part of its size and for much of
  its concurrency.
* Time is not measured: a timer may fire whenever it is armed. Sizes of budgets,
  tokens and texts are not modelled.

## 9 Reproducing

    tlc -config Limiter.cfg MCLimiter        # likewise for each run
    tlapm LimiterProofs.tla                  # likewise for each *Proofs module

The longest runs (`engine`, `engine_live`, `session`) take about three minutes each
on two cores, all proofs together a few minutes. `PROJECT.json` lists the runs, for
each property a change of one definition that TLC finds to violate it, and the
source lines of every definition.
