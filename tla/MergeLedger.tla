---------------------------- MODULE MergeLedger ----------------------------
(***************************************************************************)
(* What the shared tree promises to the tasks that merge into it           *)
(* (core/src/orchestration/orchestrator-runner.ts): every staged file is   *)
(* on trial for one task, or kept for one task that completed, or stray,   *)
(* left there by a task that could not take it back.  What is kept stays.  *)
(***************************************************************************)
CONSTANTS Task, File

VARIABLES
  trial,  \* per task, the files it staged and may still withdraw
  kept,   \* per task, the files it staged for good
  stray   \* staged files that no task answers for

ledger == <<trial, kept, stray>>

NoFiles == [t \in Task |-> {}]

LedgerInit == trial = NoFiles /\ kept = NoFiles /\ stray = {}

Free == {f \in File \ stray : \A t \in Task : f \notin trial[t] /\ f \notin kept[t]}

\* A task's changes land on files nobody else has staged, to be verified.
Land(t) ==
  /\ trial[t] = {}
  /\ \E S \in SUBSET Free : trial' = [trial EXCEPT ![t] = S]
  /\ UNCHANGED <<kept, stray>>

\* They land and nothing remains to be verified.
LandForGood(t) ==
  /\ trial[t] = {}
  /\ \E S \in SUBSET Free : kept' = [kept EXCEPT ![t] = S \cup @]
  /\ UNCHANGED <<trial, stray>>

Keep(t) ==
  /\ kept' = [kept EXCEPT ![t] = trial[t] \cup @]
  /\ trial' = [trial EXCEPT ![t] = {}]
  /\ UNCHANGED stray

Withdraw(t) ==
  /\ trial' = [trial EXCEPT ![t] = {}]
  /\ UNCHANGED <<kept, stray>>

\* Tasks are stopped before they keep or withdraw what they have on trial.
Strand ==
  \E S \in SUBSET Task :
    /\ stray' = stray \cup UNION {trial[t] : t \in S}
    /\ trial' = [t \in Task |-> IF t \in S THEN {} ELSE trial[t]]
    /\ UNCHANGED kept

LedgerNext ==
  \/ Strand
  \/ \E t \in Task : Land(t) \/ LandForGood(t) \/ Keep(t) \/ Withdraw(t)

LedgerSpec == LedgerInit /\ [][LedgerNext]_ledger
=============================================================================
