------------------------------ MODULE TaskDag ------------------------------
(***************************************************************************)
(* The task-DAG scheduler (core/src/orchestrator.ts runDag) and the        *)
(* orchestration journal it resumes from (core/src/build/journal.ts), for  *)
(* one plan that a session submits again and again: after a crash, or to   *)
(* retry what failed.                                                      *)
(*                                                                         *)
(* runDag is one loop of synchronous passes.  Between two passes any       *)
(* number of tasks may settle; a pass then dispatches what became ready.   *)
(* A task's completions are numbered by a history counter, `runs', so that *)
(* a result says which results of its dependencies it was computed from.   *)
(***************************************************************************)
EXTENDS Integers, TaskPlan

CONSTANTS
  Lossy,        \* may a journal event be lost (append is best-effort)?
  MaxSubmits,   \* BOUND: submissions of the plan
  MaxRuns       \* BOUND: completions of one task id over the whole history

ASSUME DagAssumption ==
  /\ Lossy \in BOOLEAN
  /\ MaxSubmits \in Nat /\ MaxRuns \in Nat

VARIABLES
  phase,     \* "idle", "dispatching" (awake) or "waiting" (in Promise.race)
  inflight,  \* tasks whose runTask has not settled
  version,   \* the completion each task's current result comes from, or 0
  text,      \* the completion its report text comes from, or 0
  inputs,    \* the versions of its dependencies' results a run started from
  submits,   \* submissions so far
  runs,      \* completions of each task id so far
  journal,   \* the version of the last journaled completion, or 0
  basis,     \* the inputs of that completion
  report,    \* the completion that wrote the report file of each task id, or 0
  lost       \* has a journal event of the plan been lost? (a history variable)

volatile == <<phase, outcome, inflight, version, text, inputs>>
durable == <<runs, journal, basis, report, lost>>
dagVars == <<volatile, durable, submits>>

Phase == {"idle", "dispatching", "waiting"}
Versions == [Task -> Nat]
AnotherPlans == MaxRuns + 1  \* no completion of this plan: another plan's report
NoVersion == [t \in Task |-> 0]

DagInit ==
  /\ PlanInit
  /\ phase = "idle"
  /\ inflight = {}
  /\ version = NoVersion
  /\ text = NoVersion
  /\ inputs = [t \in Task |-> NoVersion]
  /\ submits = 0
  /\ runs = NoVersion
  /\ journal = NoVersion
  /\ basis = [t \in Task |-> NoVersion]
  /\ report = NoVersion
  /\ lost = FALSE

----------------------------------------------------------------------------
(* Seeding *)

\* loadCompletedTasks: the tasks with a journaled completion of this plan.
Journaled == {t \in Task : journal[t] # 0}

\* Mutant of Seeded: dependencies are not asked to be seeded as well.
SeededAlone == Journaled

\* The fixpoint of the seeding loop: a completion is taken over only once
\* everything it depends on is.
Seeded == UNION {S \in SUBSET Journaled : \A t \in S : Deps[t] \subseteq S}

\* spawn_tasks -> runDag, up to its first pass: results are seeded.
Submit ==
  /\ phase = "idle" /\ submits < MaxSubmits
  /\ submits' = submits + 1
  /\ phase' = "dispatching"
  /\ outcome' = [t \in Task |-> IF t \in Seeded THEN "completed" ELSE "none"]
  /\ version' = [t \in Task |-> IF t \in Seeded THEN journal[t] ELSE 0]
  /\ text' = [t \in Task |-> IF t \in Seeded THEN report[t] ELSE 0]
  /\ inputs' = [t \in Task |-> IF t \in Seeded THEN basis[t] ELSE NoVersion]
  /\ inflight' = {}
  /\ UNCHANGED durable

----------------------------------------------------------------------------
(* The loop *)

Ready == {t \in Task \ (Settled \cup inflight) : Deps[t] \subseteq Settled}

\* Mutant of Blocked: a skipped dependency does not stop a task.
BlockedByFailure == {t \in Ready : \E d \in Deps[t] : outcome[d] = "failed"}

Blocked == {t \in Ready : \E d \in Deps[t] : outcome[d] # "completed"}
Launched == Ready \ Blocked

\* Mutant of Unreachable: the loop returns with tasks it never looked at.
UnreachableLeft == {}

\* With nothing in flight after the pass, what is left is given up: it is
\* skipped without its status being reported.
Unreachable ==
  IF inflight \cup Launched = {} THEN Task \ (Settled \cup Blocked) ELSE {}

\* Mutant of Dispatch: the pass forgets to give up what is left.
DispatchForever ==
  /\ phase = "dispatching"
  /\ outcome' = [t \in Task |-> IF t \in Blocked THEN "skipped" ELSE outcome[t]]
  /\ inflight' = inflight \cup Launched
  /\ inputs' = [t \in Task |-> IF t \in Launched
                  THEN [d \in Task |-> IF d \in Deps[t] THEN version[d] ELSE 0]
                  ELSE inputs[t]]
  /\ phase' = IF \A t \in Task : outcome'[t] # "none" THEN "idle" ELSE "waiting"
  /\ UNCHANGED <<version, text, durable, submits>>

\* One pass of the while loop, up to Promise.race or to the return.
Dispatch ==
  /\ phase = "dispatching"
  /\ outcome' = [t \in Task |-> IF t \in Blocked \cup Unreachable THEN "skipped" ELSE outcome[t]]
  /\ inflight' = inflight \cup Launched
  /\ inputs' = [t \in Task |-> IF t \in Launched
                  THEN [d \in Task |-> IF d \in Deps[t] THEN version[d] ELSE 0]
                  ELSE inputs[t]]
  /\ phase' = IF inflight' = {} THEN "idle" ELSE "waiting"
  /\ UNCHANGED <<version, text, durable, submits>>

\* Mutant of Complete: the report is persisted but the finish not journaled.
CompleteUnjournaled(t) ==
  /\ phase # "idle" /\ t \in inflight /\ runs[t] < MaxRuns
  /\ outcome' = [outcome EXCEPT ![t] = "completed"]
  /\ runs' = [runs EXCEPT ![t] = @ + 1]
  /\ version' = [version EXCEPT ![t] = runs'[t]]
  /\ text' = [text EXCEPT ![t] = runs'[t]]
  /\ report' = [report EXCEPT ![t] = runs'[t]]
  /\ UNCHANGED <<inputs, journal, basis, lost, submits>>
  /\ inflight' = inflight \ {t}
  /\ phase' = "dispatching"

\* runTask completes: recordFinished persists the report and journals the
\* finish, then the result is set and the loop woken.
Complete(t) ==
  /\ phase # "idle" /\ t \in inflight /\ runs[t] < MaxRuns
  /\ outcome' = [outcome EXCEPT ![t] = "completed"]
  /\ runs' = [runs EXCEPT ![t] = @ + 1]
  /\ version' = [version EXCEPT ![t] = runs'[t]]
  /\ text' = [text EXCEPT ![t] = runs'[t]]
  /\ report' = [report EXCEPT ![t] = runs'[t]]
  /\ \/ /\ journal' = [journal EXCEPT ![t] = runs'[t]]
        /\ basis' = [basis EXCEPT ![t] = inputs[t]]
        /\ UNCHANGED lost
     \/ /\ Lossy /\ lost' = TRUE
        /\ UNCHANGED <<journal, basis>>
  /\ inflight' = inflight \ {t}
  /\ phase' = "dispatching"
  /\ UNCHANGED <<inputs, submits>>

\* Mutant of Fail: a failed task is not taken out of the tasks in flight.
FailStaysInflight(t) ==
  /\ phase # "idle" /\ t \in inflight
  /\ outcome' = [outcome EXCEPT ![t] = "failed"]
  /\ phase' = "dispatching"
  /\ UNCHANGED <<inflight, version, text, inputs, durable, submits>>

\* runTask fails or throws: a journaled failure is never a seed and removes none.
Fail(t) ==
  /\ phase # "idle" /\ t \in inflight
  /\ outcome' = [outcome EXCEPT ![t] = "failed"]
  /\ inflight' = inflight \ {t}
  /\ phase' = "dispatching"
  /\ UNCHANGED <<version, text, inputs, durable, submits>>

----------------------------------------------------------------------------
(* The environment *)

\* The process dies: only the journal and the report files survive.
Crash ==
  /\ phase # "idle"
  /\ phase' = "idle"
  /\ outcome' = [t \in Task |-> "none"]
  /\ inflight' = {}
  /\ version' = NoVersion
  /\ text' = NoVersion
  /\ inputs' = [t \in Task |-> NoVersion]
  /\ UNCHANGED <<durable, submits>>

\* Another plan of the session completes a task of the same id: its journal
\* event carries another plan's identity, its report file has the same name.
OtherPlan(t) ==
  /\ phase = "idle"
  /\ report' = [report EXCEPT ![t] = AnotherPlans]
  /\ UNCHANGED <<volatile, runs, journal, basis, lost, submits>>

DagNext ==
  \/ Submit \/ Dispatch \/ Crash
  \/ \E t \in Task : Complete(t) \/ Fail(t) \/ OtherPlan(t)

DagSpec == DagInit /\ [][DagNext]_dagVars

\* Promise continuations run, and every child's run settles (module FanOut).
FairDagSpec ==
  /\ DagSpec
  /\ WF_dagVars(Dispatch)
  /\ \A t \in Task : WF_dagVars(Complete(t) \/ Fail(t))

----------------------------------------------------------------------------
(* Properties *)

\* Types; what is in flight has no outcome, and nothing is when runDag returned.
DagTypeOK ==
  /\ outcome \in [Task -> Outcome]
  /\ phase \in Phase
  /\ inflight \in SUBSET Task
  /\ version \in Versions /\ text \in Versions
  /\ inputs \in [Task -> Versions]
  /\ runs \in Versions /\ journal \in Versions /\ report \in Versions
  /\ basis \in [Task -> Versions]
  /\ submits \in Nat /\ lost \in BOOLEAN
  /\ inflight \cap Settled = {}
  /\ phase = "idle" => inflight = {}

\* The scheduler keeps the plan's promises, crashes and resumes included
\* (orchestrator.ts: "skipped rather than run on bad inputs").
ImplementsPlan == PlanSpec

\* When the plan is done, a task was skipped exactly if a dependency of it did
\* not complete: nothing is given up that could have run, although the last
\* pass gives up tasks whose dependencies it has not looked at.
SkippedForCause ==
  phase = "idle" => \A t \in Task :
    outcome[t] = "skipped" <=> \E d \in Deps[t] : outcome[d] \in {"failed", "skipped"}

\* A result was computed from the very results its dependencies now have: no
\* resume keeps a dependent against a dependency that ran again
\* (orchestrator.ts, seeding: "a dependent's stale result would be retained").
\* It holds without lost journal events, and with them over one resume.
NoStaleInput ==
  \A t \in Task : outcome[t] = "completed" \/ t \in inflight =>
    \A d \in Deps[t] : inputs[t][d] = version[d]

\* Nothing is lost to a crash: as long as no journal event was lost, a task runs
\* to completion once, over all submissions of its plan, and its dependents are
\* handed the report of that run, unless another plan of the session has
\* overwritten the file (journal.ts: one report file per task id).
WorkIsKept ==
  ~lost => \A t \in Task :
    /\ runs[t] <= 1
    /\ outcome[t] = "completed" => text[t] \in {version[t], AnotherPlans}

\* Every submission of a plan returns.
PlanReturns == phase # "idle" ~> phase = "idle"
=============================================================================
