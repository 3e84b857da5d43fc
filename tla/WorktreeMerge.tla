--------------------------- MODULE WorktreeMerge ---------------------------
(***************************************************************************)
(* How tasks share the one main tree of a session                          *)
(* (core/src/orchestration/orchestrator-runner.ts: #runWorktreeTask,       *)
(* #runEnsembleTask, #runSharedTask, and core/src/build/gitops.ts).        *)
(*                                                                         *)
(* A task with worktree:true works in a git worktree forked from HEAD; its *)
(* branch is squash-merged into the main tree, which stages the changes    *)
(* without committing them; the repository's checks run on the merged      *)
(* tree, then a reviewer reads the diff.  A failed verdict takes the       *)
(* staged files back.  Merges, checks, restores and removals run one at a  *)
(* time in the order of a FIFO lock, children and reviewers outside it.    *)
(* Other tasks edit the main tree directly.  The winner of an ensemble is  *)
(* a worktree task of one attempt without a review.                        *)
(*                                                                         *)
(* HEAD does not move: agents do not commit, and the engine commits only   *)
(* between turns.  Hence a merge either applies or is refused as a whole.  *)
(***************************************************************************)
EXTENDS Naturals, Sequences, FiniteSets

CONSTANTS
  Task, Deps,   \* the plan
  File,         \* paths of the repository
  Blob, Base,   \* what a file may hold, and what it holds in HEAD
  Wrote,        \* the contents each task may produce
  Isolated,     \* tasks that ask for a worktree
  Checked,      \* tasks with check or verify, in a repository with a profile
  Reviewed,     \* tasks with verify
  Attempts,     \* verifyMaxAttempts or structuredMaxAttempts, per task
  MayDegrade,   \* whether git may fail to create a worktree
  Interrupts,   \* whether the user may interrupt the plan
  MaxCrashes    \* bound on process deaths

ASSUME MergeAssumption ==
  /\ Deps \in [Task -> SUBSET Task]
  /\ Wrote \in [Task -> SUBSET Blob]
  /\ Base \notin Blob
  /\ Isolated \subseteq Task /\ Checked \subseteq Task /\ Reviewed \subseteq Task
  /\ Attempts \in [Task -> Nat \ {0}]
  /\ MayDegrade \in BOOLEAN /\ Interrupts \in BOOLEAN /\ MaxCrashes \in Nat

VARIABLES
  index,    \* the staged content of each file
  dirty,    \* files with unstaged edits
  tree,     \* tasks that have a worktree on disk
  outcome,  \* the journaled outcome of each task
  stage,    \* where each task is
  attempt,  \* how often its child was started
  touched,  \* files the child changed in its worktree
  wrote,    \* what it wrote there
  merged,   \* mergedFiles: what its squash-merge newly staged
  line,     \* the tasks queued for the merge lock; the first one holds it
  aborted,  \* the turn's signal has fired
  stray,    \* history: files staged by tasks that were stopped
  crashes

repo == <<index, dirty, tree>>
taskVars == <<outcome, stage, attempt, touched, wrote, merged>>
mergeVars == <<repo, taskVars, line, aborted, stray, crashes>>

Outcomes == {"none", "completed", "failed", "skipped"}
Stages == {"idle", "working", "merging", "gating", "reviewing", "reverting", "removing", "done"}

MergeInit ==
  /\ index = [f \in File |-> Base]
  /\ dirty = {} /\ tree = {}
  /\ outcome = [t \in Task |-> "none"]
  /\ stage = [t \in Task |-> "idle"]
  /\ attempt = [t \in Task |-> 0]
  /\ touched = [t \in Task |-> {}]
  /\ wrote = [t \in Task |-> Base]
  /\ merged = [t \in Task |-> {}]
  /\ line = <<>>
  /\ aborted = FALSE
  /\ stray = {} /\ crashes = 0

----------------------------------------------------------------------------
(* Shared steps *)

\* settle, and in the same tick the finally clause: the outcome is journaled
\* and a task that has a worktree queues for its removal behind queue q.
SettleBehind(t, o, q) ==
  /\ outcome' = [outcome EXCEPT ![t] = o]
  /\ stage' = [stage EXCEPT ![t] = IF t \in tree THEN "removing" ELSE "done"]
  /\ line' = IF t \in tree THEN Append(q, t) ELSE q
  /\ UNCHANGED attempt

\* Mutant of RetryBehind: one attempt too many.
RetryBehindOnceMore(t, q) ==
  \/ /\ attempt[t] <= Attempts[t]
     /\ attempt' = [attempt EXCEPT ![t] = @ + 1]
     /\ stage' = [stage EXCEPT ![t] = "working"]
     /\ line' = q
     /\ UNCHANGED outcome
  \/ /\ attempt[t] > Attempts[t]
     /\ SettleBehind(t, "failed", q)

\* The next attempt, or failure when there is none left.
RetryBehind(t, q) ==
  \/ /\ attempt[t] < Attempts[t]
     /\ attempt' = [attempt EXCEPT ![t] = @ + 1]
     /\ stage' = [stage EXCEPT ![t] = "working"]
     /\ line' = q
     /\ UNCHANGED outcome
  \/ /\ attempt[t] >= Attempts[t]
     /\ SettleBehind(t, "failed", q)

\* What follows a merge that stands and a gate that is green.
AcceptBehind(t, q) ==
  \/ /\ t \in Reviewed
     /\ stage' = [stage EXCEPT ![t] = "reviewing"]
     /\ line' = q
     /\ UNCHANGED <<outcome, attempt>>
  \/ /\ t \notin Reviewed
     /\ SettleBehind(t, "completed", q)

Holds(t) == line # <<>> /\ line[1] = t

\* gitRestoreFiles: the files go back to HEAD, staged and unstaged edits alike.
Restore(F) ==
  /\ index' = [f \in File |-> IF f \in F THEN Base ELSE index[f]]
  /\ dirty' = dirty \ F

----------------------------------------------------------------------------
(* Dispatch (runDag) and the children *)

\* The dependencies are done; a worktree is forked from HEAD, in place of one a
\* dead process left, or the task falls back to the main tree.
Start(t) ==
  /\ stage[t] = "idle"
  /\ \A d \in Deps[t] : stage[d] = "done" /\ outcome[d] = "completed"
  /\ stage' = [stage EXCEPT ![t] = "working"]
  /\ attempt' = [attempt EXCEPT ![t] = 1]
  /\ \/ t \in Isolated /\ tree' = tree \cup {t}
     \/ t \in Isolated /\ MayDegrade /\ tree' = tree \ {t}
     \/ t \notin Isolated /\ UNCHANGED tree
  /\ touched' = [touched EXCEPT ![t] = {}]
  /\ wrote' = [wrote EXCEPT ![t] = Base]
  /\ UNCHANGED <<index, dirty, outcome, merged, line, aborted, stray, crashes>>

Skip(t) ==
  /\ stage[t] = "idle"
  /\ \A d \in Deps[t] : stage[d] = "done"
  /\ \E d \in Deps[t] : outcome[d] # "completed"
  /\ stage' = [stage EXCEPT ![t] = "done"]
  /\ outcome' = [outcome EXCEPT ![t] = "skipped"]
  /\ UNCHANGED <<repo, attempt, touched, wrote, merged, line, aborted, stray, crashes>>

\* A child of the main tree edits a file of it, without the merge lock.
Edit(t, f) ==
  /\ stage[t] = "working" /\ t \notin tree
  /\ dirty' = dirty \cup {f}
  /\ UNCHANGED <<index, tree, taskVars, line, aborted, stray, crashes>>

\* The spawn ceiling, an error, a timeout, or an interrupted child.
ChildFails(t) ==
  /\ stage[t] = "working"
  /\ SettleBehind(t, "failed", line)
  /\ UNCHANGED <<repo, touched, wrote, merged, aborted, stray, crashes>>

\* enforceSchema refuses the final message.
ReportRefused(t) ==
  /\ stage[t] = "working" /\ ~aborted
  /\ RetryBehind(t, line)
  /\ UNCHANGED <<repo, touched, wrote, merged, aborted, stray, crashes>>

\* The child of a worktree ends; its task queues for the merge lock.
ChildDelivers(t) ==
  /\ stage[t] = "working" /\ ~aborted /\ t \in tree
  /\ \E F \in SUBSET File, b \in Wrote[t] :
       /\ touched' = [touched EXCEPT ![t] = F]
       /\ wrote' = [wrote EXCEPT ![t] = b]
  /\ stage' = [stage EXCEPT ![t] = "merging"]
  /\ line' = Append(line, t)
  /\ UNCHANGED <<repo, outcome, attempt, merged, aborted, stray, crashes>>

\* The child of the main tree ends; its task queues for the gate, if it has one.
SharedDelivers(t) ==
  /\ stage[t] = "working" /\ ~aborted /\ t \notin tree
  /\ \/ /\ t \in Checked
        /\ stage' = [stage EXCEPT ![t] = "gating"]
        /\ line' = Append(line, t)
        /\ UNCHANGED <<outcome, attempt>>
     \/ /\ t \notin Checked
        /\ AcceptBehind(t, line)
  /\ UNCHANGED <<repo, touched, wrote, merged, aborted, stray, crashes>>

----------------------------------------------------------------------------
(* Merge, gate, review *)

\* Mutant of Mergeable: a file somebody else staged is overwritten.
MergeableOver(t) == touched[t] \cap dirty = {}

\* git refuses a squash-merge that touches a file with unstaged edits or with
\* other staged content; content already staged as such is left as it is.
Mergeable(t) ==
  \A f \in touched[t] : (index[f] = Base /\ f \notin dirty) \/ index[f] = wrote[t]

\* Mutant of Staging: the whole delta of the branch, whoever staged it.
StagingAll(t) == touched[t]

\* The staged set after the merge minus the one before it.
Staging(t) == {f \in touched[t] : index[f] = Base}

\* commitWorktree has nothing to commit, or the merge is refused.
MergeRefused(t) ==
  /\ stage[t] = "merging" /\ Holds(t)
  /\ touched[t] = {} \/ ~Mergeable(t)
  /\ RetryBehind(t, Tail(line))
  /\ UNCHANGED <<repo, touched, wrote, merged, aborted, stray, crashes>>

\* The merge applies. A task with a gate keeps the lock.
MergeApplies(t) ==
  /\ stage[t] = "merging" /\ Holds(t)
  /\ touched[t] # {} /\ Mergeable(t)
  /\ merged' = [merged EXCEPT ![t] = Staging(t)]
  /\ index' = [f \in File |-> IF f \in touched[t] THEN wrote[t] ELSE index[f]]
  /\ \/ /\ t \in Checked
        /\ stage' = [stage EXCEPT ![t] = "gating"]
        /\ UNCHANGED <<outcome, attempt, line>>
     \/ /\ t \notin Checked
        /\ AcceptBehind(t, Tail(line))
  /\ UNCHANGED <<dirty, tree, touched, wrote, aborted, stray, crashes>>

GateGreen(t) ==
  /\ stage[t] = "gating" /\ Holds(t) /\ ~aborted
  /\ AcceptBehind(t, Tail(line))
  /\ UNCHANGED <<repo, touched, wrote, merged, aborted, stray, crashes>>

\* Mutant of GateWithdraws: an interrupted gate leaves the merge in place.
GateWithdrawsRed(t) ==
  /\ stage[t] = "gating" /\ Holds(t) /\ t \in tree
  /\ Restore(IF aborted THEN {} ELSE merged[t])
  /\ merged' = [merged EXCEPT ![t] = {}]
  /\ RetryBehind(t, Tail(line))
  /\ UNCHANGED <<tree, touched, wrote, aborted, stray, crashes>>

\* Red, interrupted or unverified: the merged files are restored.
GateWithdraws(t) ==
  /\ stage[t] = "gating" /\ Holds(t) /\ t \in tree
  /\ Restore(merged[t])
  /\ merged' = [merged EXCEPT ![t] = {}]
  /\ RetryBehind(t, Tail(line))
  /\ UNCHANGED <<tree, touched, wrote, aborted, stray, crashes>>

\* In the main tree nothing is restored: red is worth another attempt, an
\* interrupted or unverified gate is final.
GateRefusesShared(t) ==
  /\ stage[t] = "gating" /\ Holds(t) /\ t \notin tree
  /\ \/ ~aborted /\ RetryBehind(t, Tail(line))
     \/ SettleBehind(t, "failed", Tail(line))
  /\ UNCHANGED <<repo, touched, wrote, merged, aborted, stray, crashes>>

ReviewClean(t) ==
  /\ stage[t] = "reviewing"
  /\ SettleBehind(t, "completed", line)
  /\ UNCHANGED <<repo, touched, wrote, merged, aborted, stray, crashes>>

\* Mutant of ReviewDirty: the files are restored without the lock.
ReviewDirtyUnlocked(t) ==
  /\ stage[t] = "reviewing"
  /\ Restore(merged[t])
  /\ merged' = [merged EXCEPT ![t] = {}]
  /\ RetryBehind(t, line)
  /\ UNCHANGED <<tree, touched, wrote, aborted, stray, crashes>>

\* The reviewer found issues: a task with merged files queues to restore them.
ReviewDirty(t) ==
  /\ stage[t] = "reviewing"
  /\ \/ /\ merged[t] # {}
        /\ stage' = [stage EXCEPT ![t] = "reverting"]
        /\ line' = Append(line, t)
        /\ UNCHANGED <<outcome, attempt>>
     \/ /\ merged[t] = {}
        /\ RetryBehind(t, line)
  /\ UNCHANGED <<repo, touched, wrote, merged, aborted, stray, crashes>>

\* The reviewer is still to be admitted by the fan-out gate when the signal
\* fires: the gate rejects, and the exception ends the task where it is.
ReviewThrows(t) ==
  /\ stage[t] = "reviewing" /\ aborted
  /\ SettleBehind(t, "failed", line)
  /\ stray' = stray \cup merged[t]
  /\ merged' = [merged EXCEPT ![t] = {}]
  /\ UNCHANGED <<repo, touched, wrote, aborted, crashes>>

Revert(t) ==
  /\ stage[t] = "reverting" /\ Holds(t)
  /\ Restore(merged[t])
  /\ merged' = [merged EXCEPT ![t] = {}]
  /\ RetryBehind(t, Tail(line))
  /\ UNCHANGED <<tree, touched, wrote, aborted, stray, crashes>>

\* Mutant of Remove: the removal never leaves the lock.
RemoveHoldsOn(t) ==
  /\ stage[t] = "removing" /\ Holds(t)
  /\ tree' = tree \ {t}
  /\ stage' = [stage EXCEPT ![t] = "done"]
  /\ UNCHANGED <<line, index, dirty, outcome, attempt, touched, wrote, merged, aborted, stray, crashes>>

\* gitRemoveWorktree: only now runDag sees the result.
Remove(t) ==
  /\ stage[t] = "removing" /\ Holds(t)
  /\ tree' = tree \ {t}
  /\ stage' = [stage EXCEPT ![t] = "done"]
  /\ line' = Tail(line)
  /\ UNCHANGED <<index, dirty, outcome, attempt, touched, wrote, merged, aborted, stray, crashes>>

----------------------------------------------------------------------------
(* The environment *)

Interrupt ==
  /\ Interrupts /\ ~aborted
  /\ aborted' = TRUE
  /\ UNCHANGED <<repo, taskVars, line, stray, crashes>>

OnTrial(t) == t \in tree /\ stage[t] \in {"gating", "reviewing", "reverting"}

\* What the resume takes over from the journal (module TaskDag).
Kept == {t \in Task : outcome[t] = "completed"}

\* The process dies and the plan is submitted again; the repository is as the
\* dead process left it.
Crash ==
  /\ crashes < MaxCrashes
  /\ crashes' = crashes + 1
  /\ outcome' = [t \in Task |-> IF t \in Kept THEN outcome[t] ELSE "none"]
  /\ stage' = [t \in Task |-> IF t \in Kept THEN "done" ELSE "idle"]
  /\ attempt' = [t \in Task |-> 0]
  /\ stray' = stray \cup UNION {merged[t] : t \in Task \ Kept}
  /\ merged' = [t \in Task |-> IF t \in Kept THEN merged[t] ELSE {}]
  /\ line' = <<>>
  /\ aborted' = FALSE
  /\ UNCHANGED <<repo, touched, wrote>>

ChildEnds(t) == ChildFails(t) \/ ReportRefused(t) \/ ChildDelivers(t) \/ SharedDelivers(t)
MergeEnds(t) == MergeRefused(t) \/ MergeApplies(t)
GateEnds(t) == GateGreen(t) \/ GateWithdraws(t) \/ GateRefusesShared(t)
ReviewEnds(t) == ReviewClean(t) \/ ReviewDirty(t) \/ ReviewThrows(t)

Advance(t) ==
  Start(t) \/ Skip(t) \/ ChildEnds(t) \/ MergeEnds(t) \/ GateEnds(t) \/ ReviewEnds(t)
  \/ Revert(t) \/ Remove(t)

MergeNext ==
  \/ Interrupt \/ Crash
  \/ \E t \in Task : Advance(t) \/ \E f \in File : Edit(t, f)

MergeSpec == MergeInit /\ [][MergeNext]_mergeVars

\* Promise continuations run; children and reviewers end (module FanOut);
\* git and the checks end, the latter by their timeout.
FairMergeSpec == MergeSpec /\ \A t \in Task : WF_mergeVars(Advance(t))

----------------------------------------------------------------------------
(* Properties *)

\* Types; the lock is queued for exactly by the tasks that need it, once.
MergeTypeOK ==
  /\ index \in [File -> Blob \cup {Base}]
  /\ dirty \subseteq File /\ tree \subseteq Task
  /\ outcome \in [Task -> Outcomes]
  /\ stage \in [Task -> Stages]
  /\ attempt \in [Task -> Nat]
  /\ touched \in [Task -> SUBSET File]
  /\ wrote \in [Task -> Blob \cup {Base}]
  /\ merged \in [Task -> SUBSET File]
  /\ line \in Seq(Task)
  /\ aborted \in BOOLEAN
  /\ stray \subseteq File /\ crashes \in Nat
  /\ \A t \in Task : attempt[t] <= Attempts[t]

\* Every staged file is there for a reason: a completed task put it there, or
\* one that still has its verdict to come, or a task that was stopped
\* (orchestrator-runner.ts, #runWorktreeTask: a failed gate or review reverts).
StagedIsAccounted ==
  \A f \in File : index[f] # Base =>
    \/ f \in stray
    \/ \E t \in Task : f \in merged[t] /\ (outcome[t] = "completed" \/ OnTrial(t))

\* A task that completed in a worktree finds all its changes in the main tree,
\* whatever its siblings merge and take back (gitRestoreFiles: "a sibling
\* task's disjoint changes survive").
CompletedIsWhole ==
  \A t \in Task : outcome[t] = "completed" =>
    \A f \in touched[t] : index[f] = wrote[t]

\* While a task's checks run, nobody stages or restores anything: the verdict is
\* about one tree (#mergeLock: "the whole shared-tree critical section - merges
\* and gates alike - must run one-at-a-time").
GateSeesOneTree ==
  [][\A t \in Task : Holds(t) /\ stage[t] = "gating" /\ stage'[t] = "gating" =>
       index' = index]_mergeVars

\* Every task settles, whoever else waits for the lock, and leaves no worktree
\* behind, whichever way it failed, unless the process died in between
\* (orchestrator-runner.ts #runWorktreeTask: the finally block).
EveryTaskSettles ==
  <>[](\A t \in Task : stage[t] = "done" /\ (crashes = 0 => t \notin tree))

\* Every staged file has one owner; what a completed task staged stays.
Ledger == INSTANCE MergeLedger WITH
  trial <- [t \in Task |-> IF OnTrial(t) THEN merged[t] ELSE {}],
  kept <- [t \in Task |-> IF outcome[t] = "completed" THEN merged[t] ELSE {}]

ImplementsLedger == Ledger!LedgerSpec
=============================================================================
