------------------------------ MODULE TaskPlan ------------------------------
(***************************************************************************)
(* What a task plan promises, whoever schedules it                         *)
(* (core/src/orchestrator.ts): a task completes or fails only after every  *)
(* dependency completed, it is skipped only because one did not, and an    *)
(* outcome is final until the plan is submitted again.  A submission may   *)
(* start from outcomes of an earlier one, if it takes all they rest on.    *)
(***************************************************************************)
EXTENDS FiniteSets

CONSTANTS
  Task,   \* the ids of one plan
  Deps    \* the dependencies of each task

\* validateDag: every dependency is a task, and there is no cycle, which is to
\* say that every set of tasks has one that depends on none of them.
ValidDag ==
  /\ Deps \in [Task -> SUBSET Task]
  /\ \A S \in SUBSET Task : S # {} => \E t \in S : Deps[t] \cap S = {}

ASSUME PlanAssumption == IsFiniteSet(Task) /\ ValidDag

VARIABLE outcome  \* of each task in the current submission

Outcome == {"none", "completed", "failed", "skipped"}

Settled == {t \in Task : outcome[t] # "none"}

PlanInit == outcome = [t \in Task |-> "none"]

\* A submission starts from the completions in S, which contains with a task
\* everything it depends on.
Resubmit ==
  \E S \in SUBSET Task :
    /\ \A t \in S : Deps[t] \subseteq S
    /\ outcome' = [t \in Task |-> IF t \in S THEN "completed" ELSE "none"]

\* A task's run ends.
RunEnds ==
  \E t \in Task, o \in {"completed", "failed"} :
    /\ outcome[t] = "none"
    /\ \A d \in Deps[t] : outcome[d] = "completed"
    /\ outcome' = [outcome EXCEPT ![t] = o]

\* Tasks are skipped, each because of a dependency that did not complete or is
\* skipped with it.
Skip ==
  \E S \in SUBSET (Task \ Settled) :
    /\ outcome' = [t \in Task |-> IF t \in S THEN "skipped" ELSE outcome[t]]
    /\ \A t \in S : \E d \in Deps[t] : outcome'[d] \in {"failed", "skipped"}

PlanNext == Resubmit \/ RunEnds \/ Skip

PlanSpec == PlanInit /\ [][PlanNext]_outcome
=============================================================================
