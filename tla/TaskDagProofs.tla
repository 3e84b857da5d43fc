--------------------------- MODULE TaskDagProofs ---------------------------
(***************************************************************************)
(* The scheduler implements the task plan for every set of tasks and every *)
(* dependency relation; and when no journal event is lost, a resume never  *)
(* keeps a stale result and never repeats finished work.                   *)
(***************************************************************************)
EXTENDS TaskDag, TLAPS

----------------------------------------------------------------------------
(* Outcomes *)

\* Why a task has the outcome it has, and may be in flight.
Justified ==
  \A t \in Task :
    /\ t \in inflight \/ outcome[t] \in {"completed", "failed"}
         => \A d \in Deps[t] : outcome[d] = "completed"
    /\ outcome[t] = "skipped" => \E d \in Deps[t] : outcome[d] \in {"failed", "skipped"}

\* Between submissions either nothing has an outcome or everything has.
AllOrNothing == phase = "idle" => Settled = {} \/ Settled = Task

DagInv == DagTypeOK /\ Justified /\ AllOrNothing

LEMMA DepsAreTasks == \A t \in Task : Deps[t] \subseteq Task
BY PlanAssumption DEF ValidDag

\* What is seeded is journaled, and so is all it depends on.
LEMMA SeededClosed ==
  /\ Seeded \subseteq Journaled /\ Seeded \subseteq Task
  /\ \A t \in Seeded : Deps[t] \subseteq Seeded
BY DEF Seeded, Journaled

\* A pass skips only tasks with a dependency that did not complete, or that is
\* skipped by the same pass.
LEMMA PassSkips ==
  ASSUME DagInv, Dispatch, NEW t \in Blocked \cup Unreachable
  PROVE  \E d \in Deps[t] : outcome'[d] \in {"failed", "skipped"}
<1>0. /\ outcome \in [Task -> Outcome] /\ t \in Task /\ Deps[t] \subseteq Task
      /\ \A u \in Task : outcome'[u] = IF u \in Blocked \cup Unreachable
                                       THEN "skipped" ELSE outcome[u]
  BY DepsAreTasks DEF DagInv, DagTypeOK, Dispatch, Blocked, Unreachable, Ready
<1>1. CASE t \in Blocked
  <2>1. PICK d \in Deps[t] : outcome[d] # "completed" /\ outcome[d] # "none"
    BY <1>0, <1>1 DEF Blocked, Ready, Settled
  <2>2. d \in Task /\ outcome'[d] \in {"failed", "skipped"}
    BY <1>0, <2>1 DEF Outcome
  <2> QED  BY <2>2
<1>2. CASE t \in Unreachable /\ t \notin Blocked
  <2>1. /\ inflight = {} /\ Launched = {}
        /\ Unreachable = Task \ (Settled \cup Blocked) /\ t \notin Settled
    BY <1>2 DEF Unreachable
  <2>2. Ready = Blocked  BY <2>1 DEF Launched, Blocked
  <2>3. PICK d \in Deps[t] : d \notin Settled
    BY <1>0, <1>2, <2>1, <2>2 DEF Ready
  <2>4. d \in Blocked \cup Unreachable  BY <1>0, <2>1, <2>3
  <2> QED  BY <1>0, <2>3, <2>4
<1> QED  BY <1>1, <1>2

\* A pass leaves outcomes and flights that are justified.
LEMMA PassJustified ==
  ASSUME DagInv, Dispatch
  PROVE  DagTypeOK' /\ Justified' /\ AllOrNothing'
<1>0. /\ outcome \in [Task -> Outcome]
      /\ outcome' = [u \in Task |-> IF u \in Blocked \cup Unreachable
                                    THEN "skipped" ELSE outcome[u]]
      /\ inflight' = inflight \cup Launched
      /\ phase' = IF inflight' = {} THEN "idle" ELSE "waiting"
      /\ Blocked \subseteq Task /\ Unreachable \subseteq Task /\ Launched \subseteq Task
      /\ inflight \subseteq Task
      /\ \A u \in Task : Deps[u] \subseteq Task
  BY DepsAreTasks
     DEF DagInv, DagTypeOK, Dispatch, Blocked, Unreachable, Launched, Ready
<1>1. \A u \in Task : outcome[u] # "none" => outcome'[u] = outcome[u]
  BY <1>0 DEF Blocked, Unreachable, Ready, Settled
<1>2. inflight' \cap (Blocked \cup Unreachable) = {} /\ inflight' \cap Settled = {}
  BY <1>0 DEF DagInv, DagTypeOK, Launched, Blocked, Unreachable, Ready
<1>3. inflight' \cap Settled' = {}
  BY <1>0, <1>2 DEF Settled
<1>4. DagTypeOK'
  <2>1. outcome' \in [Task -> Outcome] /\ phase' \in Phase /\ inflight' \in SUBSET Task
    BY <1>0 DEF Outcome, Phase
  <2>2. inputs' \in [Task -> Versions]
    BY DEF DagInv, DagTypeOK, Dispatch, Versions
  <2>4. UNCHANGED <<version, text, durable, submits>>  BY DEF Dispatch
  <2>5. phase' = "idle" => inflight' = {}  BY <1>0
  <2> QED  BY <1>3, <2>1, <2>2, <2>4, <2>5 DEF DagInv, DagTypeOK, durable
<1>5. Justified'
  <2> SUFFICES ASSUME NEW t \in Task
               PROVE  /\ t \in inflight' \/ outcome'[t] \in {"completed", "failed"}
                           => \A d \in Deps[t] : outcome'[d] = "completed"
                      /\ outcome'[t] = "skipped"
                           => \E d \in Deps[t] : outcome'[d] \in {"failed", "skipped"}
    BY DEF Justified
  <2>1. CASE t \in Blocked \cup Unreachable
    BY <1>0, <1>2, <2>1, PassSkips
  <2>2. CASE t \in Launched
    <3>1. \A d \in Deps[t] : outcome[d] = "completed"
      BY <2>2 DEF Launched, Blocked
    <3>2. outcome'[t] = "none"
      BY <1>0, <1>2, <2>2 DEF Launched, Ready, Settled
    <3> QED  BY <1>0, <1>1, <3>1, <3>2
  <2>3. CASE t \notin Blocked \cup Unreachable \cup Launched
    <3>1. outcome'[t] = outcome[t] /\ (t \in inflight' <=> t \in inflight)
      BY <1>0, <2>3
    <3>2. /\ t \in inflight \/ outcome[t] \in {"completed", "failed"}
               => \A d \in Deps[t] : outcome[d] = "completed"
          /\ outcome[t] = "skipped"
               => \E d \in Deps[t] : outcome[d] \in {"failed", "skipped"}
      BY DEF DagInv, Justified
    <3> QED  BY <1>0, <1>1, <3>1, <3>2
  <2> QED  BY <2>1, <2>2, <2>3
<1>6. AllOrNothing'
  <2> SUFFICES ASSUME phase' = "idle"  PROVE Settled' = Task
    BY DEF AllOrNothing
  <2>1. inflight \cup Launched = {}  BY <1>0
  <2>2. \A u \in Task : u \in Settled \cup Blocked \cup Unreachable
    BY <2>1 DEF Unreachable
  <2> QED  BY <1>0, <2>2 DEF Settled
<1> QED  BY <1>4, <1>5, <1>6

\* A task in flight settles: what a step of Complete and Fail have in common.
LEMMA SettlesJustified ==
  ASSUME DagInv, NEW t \in inflight, NEW o \in {"completed", "failed"},
         outcome' = [outcome EXCEPT ![t] = o], inflight' = inflight \ {t},
         phase' = "dispatching"
  PROVE  /\ outcome[t] = "none" /\ \A d \in Deps[t] : outcome[d] = "completed"
         /\ outcome' \in [Task -> Outcome] /\ phase' \in Phase
         /\ inflight' \in SUBSET Task /\ inflight' \cap Settled' = {}
         /\ Justified' /\ AllOrNothing'
<1>0. /\ t \in Task /\ outcome \in [Task -> Outcome] /\ outcome[t] = "none"
      /\ inflight \in SUBSET Task /\ inflight \cap Settled = {}
      /\ \A u \in Task : Deps[u] \subseteq Task
  BY DepsAreTasks DEF DagInv, DagTypeOK, Settled
<1>1. \A d \in Deps[t] : outcome[d] = "completed"  BY <1>0 DEF DagInv, Justified
<1>2. \A u \in Task : outcome[u] # "none" => outcome'[u] = outcome[u]  BY <1>0
<1>3. Justified'
  <2> SUFFICES ASSUME NEW u \in Task
               PROVE  /\ u \in inflight' \/ outcome'[u] \in {"completed", "failed"}
                           => \A d \in Deps[u] : outcome'[d] = "completed"
                      /\ outcome'[u] = "skipped"
                           => \E d \in Deps[u] : outcome'[d] \in {"failed", "skipped"}
    BY DEF Justified
  <2>1. /\ u \in inflight \/ outcome[u] \in {"completed", "failed"}
             => \A d \in Deps[u] : outcome[d] = "completed"
        /\ outcome[u] = "skipped"
             => \E d \in Deps[u] : outcome[d] \in {"failed", "skipped"}
    BY DEF DagInv, Justified
  <2>2. CASE u = t  BY <1>0, <1>1, <1>2, <2>2
  <2>3. CASE u # t  BY <1>0, <1>2, <2>1, <2>3
  <2> QED  BY <2>2, <2>3
<1> QED  BY <1>0, <1>1, <1>3 DEF Outcome, Phase, Settled, AllOrNothing

LEMMA DagInitial == DagInit => DagInv
<1> SUFFICES ASSUME DagInit  PROVE DagInv
  OBVIOUS
<1>1. lost \in BOOLEAN  BY DEF DagInit
<1> QED
  BY <1>1 DEF DagInit, PlanInit, DagInv, DagTypeOK, Justified, AllOrNothing, Outcome, Phase,
              Versions, NoVersion, Settled

LEMMA DagStep == DagInv /\ [DagNext]_dagVars => DagInv'
<1> SUFFICES ASSUME DagInv, [DagNext]_dagVars  PROVE DagInv'
  OBVIOUS
<1>0. /\ version \in Versions /\ text \in Versions /\ inputs \in [Task -> Versions]
      /\ runs \in Versions /\ journal \in Versions
      /\ report \in Versions /\ basis \in [Task -> Versions] /\ submits \in Nat
      /\ inflight \in SUBSET Task
  BY DEF DagInv, DagTypeOK
<1>b. lost \in BOOLEAN  BY DEF DagInv, DagTypeOK
<1>1. CASE Submit
  <2>1. DagTypeOK'
    BY <1>0, <1>b, <1>1 DEF Submit, DagTypeOK, Outcome, Phase, Versions, NoVersion,
                      durable, Settled
  <2>2. Justified'
    BY <1>1, SeededClosed, DepsAreTasks DEF Submit, Justified
  <2>3. AllOrNothing'  BY <1>1 DEF Submit, AllOrNothing
  <2> QED  BY <2>1, <2>2, <2>3 DEF DagInv
<1>2. CASE Dispatch  BY <1>2, PassJustified DEF DagInv
<1>3. CASE Crash
  BY <1>0, <1>3 DEF Crash, DagInv, DagTypeOK, Justified, AllOrNothing, Outcome, Phase,
                    Versions, NoVersion, durable, Settled
<1>4. ASSUME NEW t \in Task, Complete(t)  PROVE DagInv'
  <2>1. /\ t \in inflight /\ outcome' = [outcome EXCEPT ![t] = "completed"]
        /\ inflight' = inflight \ {t} /\ phase' = "dispatching"
    BY <1>4 DEF Complete
  <2>2. /\ outcome' \in [Task -> Outcome] /\ phase' \in Phase
        /\ inflight' \in SUBSET Task /\ inflight' \cap Settled' = {}
        /\ Justified' /\ AllOrNothing'
    BY <2>1, SettlesJustified
  <2>a. /\ runs' = [runs EXCEPT ![t] = @ + 1]
        /\ version' = [version EXCEPT ![t] = runs'[t]]
        /\ text' = [text EXCEPT ![t] = runs'[t]]
        /\ report' = [report EXCEPT ![t] = runs'[t]]
        /\ journal' = [journal EXCEPT ![t] = runs'[t]] \/ journal' = journal
        /\ basis' = [basis EXCEPT ![t] = inputs[t]] \/ basis' = basis
        /\ UNCHANGED <<inputs, submits>>
    BY <1>4 DEF Complete
  <2>3. /\ runs' \in Versions /\ version' \in Versions /\ text' \in Versions
        /\ report' \in Versions /\ journal' \in Versions /\ basis' \in [Task -> Versions]
        /\ UNCHANGED <<inputs, submits>>
    <3>1. runs' \in Versions /\ runs'[t] \in Nat  BY <1>0, <2>a DEF Versions
    <3>2. /\ version' \in Versions /\ text' \in Versions
          /\ report' \in Versions /\ journal' \in Versions
      BY <1>0, <2>a, <3>1 DEF Versions
    <3>3. basis' \in [Task -> Versions]  BY <1>0, <2>a
    <3> QED  BY <2>a, <3>1, <3>2, <3>3
  <2>4. lost' = lost \/ lost' = TRUE  BY <1>4 DEF Complete
  <2>5. lost' \in BOOLEAN  BY <1>b, <2>4
  <2> QED  BY <1>0, <2>1, <2>2, <2>3, <2>5 DEF DagInv, DagTypeOK
<1>5. ASSUME NEW t \in Task, Fail(t)  PROVE DagInv'
  <2>1. /\ t \in inflight /\ outcome' = [outcome EXCEPT ![t] = "failed"]
        /\ inflight' = inflight \ {t} /\ phase' = "dispatching"
    BY <1>5 DEF Fail
  <2>2. /\ outcome' \in [Task -> Outcome] /\ phase' \in Phase
        /\ inflight' \in SUBSET Task /\ inflight' \cap Settled' = {}
        /\ Justified' /\ AllOrNothing'
    BY <2>1, SettlesJustified
  <2>3. UNCHANGED <<version, text, inputs, durable, submits>>
    BY <1>0, <1>5 DEF Fail
  <2> QED  BY <1>0, <2>1, <2>2, <2>3 DEF DagInv, DagTypeOK, durable
<1>6. ASSUME NEW t \in Task, OtherPlan(t)  PROVE DagInv'
  BY <1>0, <1>6, DagAssumption
     DEF OtherPlan, AnotherPlans, DagInv, DagTypeOK, Justified, AllOrNothing, Versions,
         volatile, Settled
<1>7. CASE UNCHANGED dagVars
  BY <1>7 DEF dagVars, volatile, durable, DagInv, DagTypeOK, Justified, AllOrNothing, Settled
<1> QED  BY <1>1, <1>2, <1>3, <1>4, <1>5, <1>6, <1>7 DEF DagNext

\* Types, and nothing in flight once the plan returned, for every plan.
THEOREM DagTypeCorrect == DagSpec => []DagTypeOK
<1>1. DagInv => DagTypeOK  BY DEF DagInv
<1> QED  BY <1>1, DagInitial, DagStep, PTL DEF DagSpec

\* When a plan returned, exactly the tasks with a dependency that did not
\* complete were skipped.
THEOREM SkippedForCauseHolds == DagSpec => []SkippedForCause
<1>1. ASSUME DagInv  PROVE SkippedForCause
  <2> SUFFICES ASSUME phase = "idle", NEW t \in Task, NEW d \in Deps[t],
                      outcome[d] \in {"failed", "skipped"}
               PROVE  outcome[t] = "skipped"
    BY <1>1 DEF SkippedForCause, DagInv, Justified
  <2>1. d \in Task /\ d \in Settled  BY DepsAreTasks DEF Settled
  <2>2. t \in Settled  BY <1>1, <2>1 DEF DagInv, AllOrNothing
  <2>3. outcome[t] \in Outcome /\ outcome[t] # "none"
    BY <1>1, <2>2 DEF DagInv, DagTypeOK, Settled
  <2>4. outcome[t] \notin {"completed", "failed"}  BY <1>1 DEF DagInv, Justified
  <2> QED  BY <2>3, <2>4 DEF Outcome
<1> QED  BY <1>1, DagInitial, DagStep, PTL DEF DagSpec

LEMMA DagStepIsPlanStep == DagInv /\ [DagNext]_dagVars => [PlanNext]_outcome
<1> SUFFICES ASSUME DagInv, [DagNext]_dagVars  PROVE PlanNext \/ UNCHANGED outcome
  OBVIOUS
<1>0. outcome \in [Task -> Outcome] /\ inflight \in SUBSET Task
  BY DEF DagInv, DagTypeOK
<1>1. CASE Submit
  <2>1. Seeded \in SUBSET Task /\ \A t \in Seeded : Deps[t] \subseteq Seeded
    BY SeededClosed
  <2> QED  BY <1>1, <2>1 DEF Submit, Resubmit, PlanNext
<1>2. CASE Dispatch
  <2> DEFINE S == Blocked \cup Unreachable
  <2>1. S \in SUBSET (Task \ Settled)
    BY DEF Blocked, Unreachable, Ready
  <2>2. outcome' = [t \in Task |-> IF t \in S THEN "skipped" ELSE outcome[t]]
    BY <1>2 DEF Dispatch
  <2>3. \A t \in S : \E d \in Deps[t] : outcome'[d] \in {"failed", "skipped"}
    BY <1>2, PassSkips
  <2> HIDE DEF S
  <2> QED  BY <2>1, <2>2, <2>3 DEF Skip, PlanNext
<1>3. CASE Crash
  <2>1. {} \in SUBSET Task /\ \A t \in {} : Deps[t] \subseteq {}
    OBVIOUS
  <2>2. outcome' = [t \in Task |-> IF t \in {} THEN "completed" ELSE "none"]
    BY <1>3 DEF Crash
  <2> QED  BY <2>1, <2>2 DEF Resubmit, PlanNext
<1>4. ASSUME NEW t \in Task, NEW o \in {"completed", "failed"}, t \in inflight,
             outcome' = [outcome EXCEPT ![t] = o], inflight' = inflight \ {t},
             phase' = "dispatching"
      PROVE  PlanNext
  BY <1>4, SettlesJustified DEF RunEnds, PlanNext
<1>5. ASSUME NEW t \in Task, Complete(t)  PROVE PlanNext
  BY <1>4, <1>5 DEF Complete
<1>6. ASSUME NEW t \in Task, Fail(t)  PROVE PlanNext
  BY <1>4, <1>6 DEF Fail
<1>7. ASSUME NEW t \in Task, OtherPlan(t)  PROVE UNCHANGED outcome
  BY <1>7 DEF OtherPlan, volatile
<1>8. CASE UNCHANGED dagVars  BY <1>8 DEF dagVars, volatile
<1> QED  BY <1>1, <1>2, <1>3, <1>5, <1>6, <1>7, <1>8 DEF DagNext

\* Refinement: runDag with its journal, seeding, crashes and resubmissions
\* keeps the promises of module TaskPlan, whatever the plan.
THEOREM DagImplementsPlan == DagSpec => ImplementsPlan
<1>1. DagInit => PlanInit  BY DEF DagInit
<1> QED
  BY <1>1, DagInitial, DagStep, DagStepIsPlanStep, PTL DEF DagSpec, PlanSpec, ImplementsPlan

----------------------------------------------------------------------------
(* Resuming *)

\* The journal takes over with a completion the very ones it was computed from.
JournalClosed ==
  \A t \in Task : journal[t] # 0 =>
    \A d \in Deps[t] : journal[d] # 0 /\ basis[t][d] = journal[d]

\* What completed is journaled; while a submission runs, what is journaled
\* completed.
JournalIsCurrent ==
  \A t \in Task :
    /\ phase # "idle" /\ journal[t] # 0 => outcome[t] = "completed"
    /\ outcome[t] = "completed" => journal[t] # 0

\* Every completed result is journaled, with its version and inputs.
ResultsAreJournaled ==
  \A t \in Task : outcome[t] = "completed" =>
    journal[t] = version[t] /\ basis[t] = inputs[t]

\* What a run in flight read is what its dependencies have.
FlightsAreFresh ==
  \A t \in inflight : \A d \in Deps[t] : inputs[t][d] = version[d]

\* A task that is not journaled never completed; the report file of one that did
\* is its own or another plan's, and so is the report it hands on.
RunsAreJournaled ==
  \A t \in Task :
    /\ runs[t] = IF journal[t] = 0 THEN 0 ELSE 1
    /\ report[t] \in {journal[t], AnotherPlans}
    /\ outcome[t] = "completed" => text[t] \in {version[t], AnotherPlans}

ResumeInv ==
  /\ DagInv
  /\ JournalClosed /\ JournalIsCurrent /\ ResultsAreJournaled /\ FlightsAreFresh

\* A journal that is closed is seeded whole.
LEMMA ClosedIsSeeded ==
  ASSUME JournalClosed
  PROVE  Seeded = Journaled
<1>1. \A t \in Journaled : Deps[t] \subseteq Journaled
  BY DepsAreTasks DEF JournalClosed, Journaled
<1> QED  BY <1>1, SeededClosed DEF Seeded

LEMMA ResumeStep ==
  ASSUME lost' = FALSE, ResumeInv, [DagNext]_dagVars
  PROVE  ResumeInv'
<1>0. /\ outcome \in [Task -> Outcome] /\ inflight \in SUBSET Task
      /\ version \in Versions /\ inputs \in [Task -> Versions]
      /\ journal \in Versions /\ basis \in [Task -> Versions] /\ runs \in Versions
      /\ inflight \cap Settled = {} /\ \A t \in Task : Deps[t] \subseteq Task
      /\ phase = "idle" => inflight = {}
  BY DepsAreTasks DEF ResumeInv, DagInv, DagTypeOK
<1>1. DagInv'  BY DagStep DEF ResumeInv
<1> DEFINE Goal == JournalClosed' /\ JournalIsCurrent' /\ ResultsAreJournaled' /\ FlightsAreFresh'
<1>2. ASSUME Submit  PROVE Goal
  <2>1. /\ UNCHANGED <<journal, basis>> /\ inflight' = {}
        /\ outcome' = [t \in Task |-> IF t \in Seeded THEN "completed" ELSE "none"]
        /\ version' = [t \in Task |-> IF t \in Seeded THEN journal[t] ELSE 0]
        /\ inputs' = [t \in Task |-> IF t \in Seeded THEN basis[t] ELSE NoVersion]
    BY <1>2 DEF Submit, durable
  <2>2. \A t \in Task : t \in Seeded <=> journal[t] # 0
    BY ClosedIsSeeded DEF ResumeInv, Journaled
  <2> QED
    BY <1>0, <2>1, <2>2
       DEF ResumeInv, JournalClosed, JournalIsCurrent, ResultsAreJournaled, FlightsAreFresh
<1>3. ASSUME Dispatch  PROVE Goal
  <2>1. /\ UNCHANGED <<journal, basis, version>> /\ phase # "idle"
        /\ inflight' = inflight \cup Launched
        /\ outcome' = [t \in Task |-> IF t \in Blocked \cup Unreachable
                                      THEN "skipped" ELSE outcome[t]]
        /\ inputs' = [t \in Task |-> IF t \in Launched
                        THEN [d \in Task |-> IF d \in Deps[t] THEN version[d] ELSE 0]
                        ELSE inputs[t]]
    BY <1>3 DEF Dispatch, durable
  <2>2. /\ \A t \in Blocked \cup Unreachable : outcome[t] # "completed"
        /\ \A t \in Launched : outcome[t] # "completed" /\ t \in Task /\ t \notin inflight
    BY DEF Blocked, Unreachable, Launched, Ready, Settled
  <2>3. \A t \in Task : outcome'[t] = "completed" <=> outcome[t] = "completed"
    BY <1>0, <2>1, <2>2
  <2>4. JournalClosed'  BY <2>1 DEF ResumeInv, JournalClosed
  <2>5. JournalIsCurrent'  BY <2>1, <2>3 DEF ResumeInv, JournalIsCurrent
  <2>6. ResultsAreJournaled'
    BY <1>0, <2>1, <2>2, <2>3 DEF ResumeInv, ResultsAreJournaled
  <2>7. FlightsAreFresh'
    <3> SUFFICES ASSUME NEW t \in inflight', NEW d \in Deps[t]
                 PROVE  inputs'[t][d] = version[d]
      BY <2>1 DEF FlightsAreFresh
    <3>1. CASE t \in Launched  BY <1>0, <2>1, <2>2, <3>1
    <3>2. CASE t \notin Launched
      BY <1>0, <2>1, <3>2 DEF ResumeInv, FlightsAreFresh
    <3> QED  BY <3>1, <3>2
  <2> QED  BY <2>4, <2>5, <2>6, <2>7
<1>4. ASSUME Crash  PROVE Goal
  BY <1>0, <1>4 DEF Crash, durable, ResumeInv, JournalClosed, JournalIsCurrent,
                    ResultsAreJournaled, FlightsAreFresh
<1>5. ASSUME NEW u \in Task, Complete(u)  PROVE Goal
  <2>1. /\ u \in inflight /\ phase # "idle" /\ inflight' = inflight \ {u}
        /\ outcome' = [outcome EXCEPT ![u] = "completed"]
        /\ version' = [version EXCEPT ![u] = runs[u] + 1]
        /\ journal' = [journal EXCEPT ![u] = runs[u] + 1]
        /\ basis' = [basis EXCEPT ![u] = inputs[u]]
        /\ UNCHANGED inputs
    BY <1>0, <1>5 DEF Complete, Versions
  <2>2. outcome[u] = "none" /\ journal[u] = 0
    BY <1>0, <2>1 DEF ResumeInv, JournalIsCurrent, Settled
  <2>3. runs[u] + 1 # 0  BY <1>0 DEF Versions
  <2>4. \A d \in Deps[u] : /\ outcome[d] = "completed" /\ d # u /\ d \in Task
                           /\ journal[d] # 0 /\ inputs[u][d] = journal[d]
    BY <1>0, <2>1, <2>2 DEF ResumeInv, DagInv, Justified, FlightsAreFresh,
                            ResultsAreJournaled, JournalIsCurrent
  <2>5. \A t \in Task : journal[t] # 0 => t # u /\ u \notin Deps[t]
    BY <2>2 DEF ResumeInv, JournalClosed
  <2>6. JournalClosed'
    <3> SUFFICES ASSUME NEW t \in Task, journal'[t] # 0, NEW d \in Deps[t]
                 PROVE  journal'[d] # 0 /\ basis'[t][d] = journal'[d]
      BY DEF JournalClosed
    <3>1. CASE t = u  BY <1>0, <2>1, <2>4, <3>1 DEF Versions
    <3>2. CASE t # u
      <4>1. journal[t] # 0 /\ d # u /\ d \in Task
        BY <1>0, <2>1, <2>5, <3>2 DEF Versions
      <4> QED  BY <1>0, <2>1, <3>2, <4>1 DEF ResumeInv, JournalClosed, Versions
    <3> QED  BY <3>1, <3>2
  <2>7. JournalIsCurrent'
    BY <1>0, <2>1, <2>3 DEF ResumeInv, JournalIsCurrent, Versions
  <2>8. ResultsAreJournaled'
    BY <1>0, <2>1 DEF ResumeInv, ResultsAreJournaled, Versions
  <2>9. FlightsAreFresh'
    <3> SUFFICES ASSUME NEW t \in inflight, t # u, NEW d \in Deps[t]
                 PROVE  inputs[t][d] = version'[d]
      BY <2>1 DEF FlightsAreFresh
    <3>1. outcome[d] = "completed" /\ d \in Task
      BY <1>0 DEF ResumeInv, DagInv, Justified
    <3>2. d # u  BY <2>2, <3>1
    <3> QED  BY <1>0, <2>1, <3>1, <3>2 DEF ResumeInv, FlightsAreFresh, Versions
  <2> QED  BY <2>6, <2>7, <2>8, <2>9
<1>6. ASSUME NEW u \in Task, Fail(u)  PROVE Goal
  <2>1. /\ u \in inflight /\ phase # "idle" /\ inflight' = inflight \ {u}
        /\ outcome' = [outcome EXCEPT ![u] = "failed"]
        /\ UNCHANGED <<version, inputs, journal, basis>>
    BY <1>6 DEF Fail, durable
  <2>2. \A t \in Task : outcome'[t] = "completed" <=> outcome[t] = "completed"
    BY <1>0, <2>1 DEF Settled
  <2> QED
    BY <1>0, <2>1, <2>2
       DEF ResumeInv, JournalClosed, JournalIsCurrent, ResultsAreJournaled, FlightsAreFresh
<1>7. ASSUME NEW u \in Task, OtherPlan(u)  PROVE Goal
  BY <1>7 DEF OtherPlan, volatile, ResumeInv, JournalClosed, JournalIsCurrent,
              ResultsAreJournaled, FlightsAreFresh
<1>8. ASSUME UNCHANGED dagVars  PROVE Goal
  BY <1>8 DEF dagVars, volatile, durable, ResumeInv, JournalClosed, JournalIsCurrent,
              ResultsAreJournaled, FlightsAreFresh
<1>9. Goal
  BY <1>2, <1>3, <1>4, <1>5, <1>6, <1>7, <1>8 DEF DagNext
<1> QED  BY <1>1, <1>9 DEF ResumeInv

\* Once an event is lost nothing is claimed, and only a lossy journal loses one.
WhileKept == DagInv /\ (lost => Lossy) /\ (~lost => ResumeInv)

LEMMA WhileKeptHolds == DagSpec => []WhileKept
<1>1. ASSUME DagInit  PROVE WhileKept
  <2>1. DagInv  BY <1>1, DagInitial
  <2> QED
    BY <1>1, <2>1 DEF DagInit, PlanInit, NoVersion, WhileKept, ResumeInv, JournalClosed,
                      JournalIsCurrent, ResultsAreJournaled, FlightsAreFresh
<1>2. ASSUME WhileKept, [DagNext]_dagVars  PROVE WhileKept'
  <2>1. DagInv'  BY <1>2, DagStep DEF WhileKept
  <2>2. lost \in BOOLEAN /\ lost' \in BOOLEAN
    BY <1>2, <2>1 DEF WhileKept, DagInv, DagTypeOK
  <2>3. (lost => lost') /\ (lost' => lost \/ Lossy)
    BY <1>2, <2>2 DEF DagNext, Submit, Dispatch, Crash, Complete, Fail, OtherPlan, durable,
                      dagVars
  <2>4. ~lost' => ResumeInv'  BY <1>2, <2>2, <2>3, ResumeStep DEF WhileKept
  <2> QED  BY <1>2, <2>1, <2>3, <2>4 DEF WhileKept
<1> QED  BY <1>1, <1>2, PTL DEF DagSpec

\* As long as no journal event is lost, no number of crashes and resubmissions
\* makes a result stand against a dependency that ran again.
THEOREM NoStaleInputHolds ==
  ASSUME Lossy = FALSE
  PROVE  DagSpec => []NoStaleInput
<1>1. ASSUME WhileKept  PROVE NoStaleInput
  <2>0. ResumeInv  BY <1>1 DEF WhileKept
  <2> SUFFICES ASSUME NEW t \in Task, outcome[t] = "completed" \/ t \in inflight,
                      NEW d \in Deps[t]
               PROVE  inputs[t][d] = version[d]
    BY DEF NoStaleInput
  <2>1. CASE t \in inflight  BY <2>0, <2>1 DEF ResumeInv, FlightsAreFresh
  <2>2. CASE outcome[t] = "completed" /\ t \notin inflight
    <3>1. d \in Task /\ outcome[d] = "completed"
      BY <2>0, <2>2, DepsAreTasks DEF ResumeInv, DagInv, Justified
    <3>2. journal[t] # 0
      BY <2>0, <2>2 DEF ResumeInv, JournalIsCurrent
    <3>3. journal[t] = version[t] /\ basis[t] = inputs[t] /\ journal[d] = version[d]
      BY <2>0, <2>2, <3>1 DEF ResumeInv, ResultsAreJournaled
    <3> QED  BY <2>0, <3>2, <3>3 DEF ResumeInv, JournalClosed
  <2> QED  BY <2>1, <2>2
<1> QED  BY <1>1, WhileKeptHolds, PTL

\* And before an event was lost no finished task is run again and none loses its
\* report but to another plan: a completion survives every crash.
THEOREM WorkIsKeptHolds == DagSpec => []WorkIsKept
<1> DEFINE Inv == WhileKept /\ (~lost => RunsAreJournaled)
<1>1. DagInit => (~lost => RunsAreJournaled)
  BY DEF DagInit, PlanInit, NoVersion, RunsAreJournaled
<1>2. ASSUME Inv, [DagNext]_dagVars, WhileKept'  PROVE (~lost => RunsAreJournaled)'
  <2> SUFFICES ASSUME ~lost'  PROVE RunsAreJournaled'
    OBVIOUS
  <2>0. /\ lost' = FALSE /\ lost = FALSE
        /\ journal \in Versions /\ runs \in Versions /\ inflight \in SUBSET Task
        /\ version \in Versions /\ text \in Versions /\ report \in Versions
        /\ outcome \in [Task -> Outcome]
        /\ inflight \cap Settled = {} /\ ResumeInv /\ RunsAreJournaled
    BY <1>2 DEF WhileKept, DagInv, DagTypeOK, DagNext, Submit, Dispatch, Crash, Complete,
                Fail, OtherPlan, durable, dagVars
  <2>1. ASSUME NEW u \in Task, Complete(u)  PROVE RunsAreJournaled'
    <3>1. /\ u \in inflight /\ phase # "idle" /\ runs' = [runs EXCEPT ![u] = @ + 1]
          /\ journal' = [journal EXCEPT ![u] = runs'[u]]
          /\ report' = [report EXCEPT ![u] = runs'[u]]
          /\ text' = [text EXCEPT ![u] = runs'[u]]
          /\ version' = [version EXCEPT ![u] = runs'[u]]
          /\ outcome' = [outcome EXCEPT ![u] = "completed"]
      BY <2>0, <2>1 DEF Complete
    <3>2. journal[u] = 0
      BY <2>0, <3>1 DEF ResumeInv, JournalIsCurrent, Settled
    <3>3. runs[u] = 0  BY <2>0, <3>2 DEF RunsAreJournaled
    <3> QED
      BY <2>0, <3>1, <3>3 DEF RunsAreJournaled, Versions, AnotherPlans
  <2>2. ASSUME Submit  PROVE RunsAreJournaled'
    BY <2>0, <2>2 DEF Submit, durable, RunsAreJournaled, AnotherPlans
  <2>3. ASSUME Dispatch  PROVE RunsAreJournaled'
    BY <2>0, <2>3 DEF Dispatch, durable, RunsAreJournaled, AnotherPlans
  <2>4. ASSUME Crash  PROVE RunsAreJournaled'
    BY <2>0, <2>4 DEF Crash, durable, RunsAreJournaled, AnotherPlans
  <2>5. ASSUME NEW u \in Task, Fail(u)  PROVE RunsAreJournaled'
    BY <2>0, <2>5 DEF Fail, durable, RunsAreJournaled, AnotherPlans
  <2>6. ASSUME NEW u \in Task, OtherPlan(u)  PROVE RunsAreJournaled'
    BY <2>0, <2>6 DEF OtherPlan, volatile, RunsAreJournaled, AnotherPlans, Versions
  <2>7. ASSUME UNCHANGED dagVars  PROVE RunsAreJournaled'
    BY <2>0, <2>7 DEF dagVars, volatile, durable, RunsAreJournaled, AnotherPlans
  <2> QED  BY <1>2, <2>1, <2>2, <2>3, <2>4, <2>5, <2>6, <2>7 DEF DagNext
<1>3. (~lost => RunsAreJournaled) => WorkIsKept
  <2> SUFFICES ASSUME ~lost, RunsAreJournaled, NEW t \in Task
               PROVE  /\ runs[t] <= 1
                      /\ outcome[t] = "completed" => text[t] \in {version[t], AnotherPlans}
    BY DEF WorkIsKept
  <2> QED  BY DEF RunsAreJournaled
<1> QED  BY <1>1, <1>2, <1>3, WhileKeptHolds, PTL DEF DagSpec
=============================================================================
