------------------------ MODULE WorktreeMergeProofs ------------------------
(***************************************************************************)
(* For every plan, every repository and any number of crashes: a staged    *)
(* file always has exactly one owner, the tasks implement the ledger of    *)
(* module MergeLedger, and what a completed task changed stays whole.      *)
(***************************************************************************)
EXTENDS WorktreeMerge, TLAPS

----------------------------------------------------------------------------
(* Types *)

\* The variables that settle, retry and accept assign, and the others.
ControlOK ==
  /\ outcome \in [Task -> Outcomes]
  /\ stage \in [Task -> Stages]
  /\ attempt \in [Task -> Nat]
  /\ \A t \in Task : attempt[t] <= Attempts[t]
  /\ line \in Seq(Task)

DataOK ==
  /\ index \in [File -> Blob \cup {Base}]
  /\ dirty \subseteq File /\ tree \subseteq Task
  /\ touched \in [Task -> SUBSET File]
  /\ wrote \in [Task -> Blob \cup {Base}]
  /\ merged \in [Task -> SUBSET File]
  /\ aborted \in BOOLEAN
  /\ stray \subseteq File /\ crashes \in Nat

LEMMA TailTyped ==
  ASSUME line \in Seq(Task), NEW t \in Task, Holds(t)
  PROVE  Tail(line) \in Seq(Task)
BY DEF Holds

LEMMA SettleTyped ==
  ASSUME ControlOK, NEW t \in Task, NEW o \in Outcomes, NEW q \in Seq(Task),
         SettleBehind(t, o, q)
  PROVE  ControlOK'
<1>1. line' \in Seq(Task)  BY DEF SettleBehind
<1>2. /\ outcome' \in [Task -> Outcomes] /\ stage' \in [Task -> Stages]
      /\ attempt' = attempt
  BY DEF SettleBehind, ControlOK, Stages
<1> QED  BY <1>1, <1>2 DEF ControlOK

LEMMA RetryTyped ==
  ASSUME ControlOK, NEW t \in Task, NEW q \in Seq(Task), RetryBehind(t, q)
  PROVE  ControlOK'
<1>1. CASE attempt[t] < Attempts[t] /\ line' = q /\ UNCHANGED outcome
           /\ attempt' = [attempt EXCEPT ![t] = @ + 1]
           /\ stage' = [stage EXCEPT ![t] = "working"]
  <2>1. \A u \in Task : Attempts[u] \in Nat /\ attempt[u] \in Nat /\ attempt[u] <= Attempts[u]
    BY MergeAssumption DEF ControlOK
  <2>2. \A u \in Task : attempt'[u] = IF u = t THEN attempt[t] + 1 ELSE attempt[u]
    BY <1>1 DEF ControlOK
  <2>3. \A u \in Task : attempt'[u] \in Nat /\ attempt'[u] <= Attempts[u]
    BY <1>1, <2>1, <2>2
  <2>4. attempt' \in [Task -> Nat]
    BY <1>1, <2>1 DEF ControlOK
  <2>5. /\ outcome' \in [Task -> Outcomes] /\ line' \in Seq(Task)
        /\ stage' \in [Task -> Stages]
    BY <1>1 DEF ControlOK, Stages
  <2> QED  BY <2>3, <2>4, <2>5 DEF ControlOK
<1>2. CASE SettleBehind(t, "failed", q)
  BY <1>2, SettleTyped DEF Outcomes
<1> QED  BY <1>1, <1>2 DEF RetryBehind

LEMMA AcceptTyped ==
  ASSUME ControlOK, NEW t \in Task, NEW q \in Seq(Task), AcceptBehind(t, q)
  PROVE  ControlOK'
<1>1. CASE line' = q /\ UNCHANGED <<outcome, attempt>>
           /\ stage' = [stage EXCEPT ![t] = "reviewing"]
  BY <1>1 DEF ControlOK, Stages
<1>2. CASE SettleBehind(t, "completed", q)
  BY <1>2, SettleTyped DEF Outcomes
<1> QED  BY <1>1, <1>2 DEF AcceptBehind

LEMMA RestoreTyped ==
  ASSUME DataOK, NEW F \in SUBSET File, Restore(F)
  PROVE  index' \in [File -> Blob \cup {Base}] /\ dirty' \subseteq File
BY DEF DataOK, Restore

LEMMA TypeInductive == MergeTypeOK /\ [MergeNext]_mergeVars => MergeTypeOK'
<1> SUFFICES ASSUME ControlOK, DataOK, [MergeNext]_mergeVars
             PROVE  ControlOK' /\ DataOK'
  BY DEF MergeTypeOK, ControlOK, DataOK
<1> USE DEF repo, taskVars
<1>q. line \in Seq(Task) /\ \A t \in Task : Holds(t) => Tail(line) \in Seq(Task)
  BY TailTyped DEF ControlOK
<1>1. ASSUME NEW t \in Task, Start(t) PROVE ControlOK' /\ DataOK'
  <2>0. 1 \in Nat /\ \A u \in Task : 1 <= Attempts[u]
    BY MergeAssumption
  <2>1. ControlOK'
    <3>1. attempt' \in [Task -> Nat] /\ \A u \in Task : attempt'[u] <= Attempts[u]
      BY <1>1, <2>0 DEF Start, ControlOK
    <3>2. /\ outcome' \in [Task -> Outcomes] /\ line' \in Seq(Task)
          /\ stage' \in [Task -> Stages]
      BY <1>1 DEF Start, ControlOK, Stages
    <3> QED  BY <3>1, <3>2 DEF ControlOK
  <2>2. DataOK'
    BY <1>1, MergeAssumption DEF Start, DataOK
  <2> QED  BY <2>1, <2>2
<1>2. ASSUME NEW t \in Task, Skip(t) PROVE ControlOK' /\ DataOK'
  BY <1>2 DEF Skip, ControlOK, DataOK, Stages, Outcomes
<1>3. ASSUME NEW t \in Task, NEW f \in File, Edit(t, f) PROVE ControlOK' /\ DataOK'
  BY <1>3 DEF Edit, ControlOK, DataOK
<1>4. ASSUME NEW t \in Task, ChildFails(t) PROVE ControlOK' /\ DataOK'
  <2>1. ControlOK'  BY <1>4, <1>q, SettleTyped DEF ChildFails, Outcomes
  <2>2. DataOK'  BY <1>4 DEF ChildFails, DataOK
  <2> QED  BY <2>1, <2>2
<1>5. ASSUME NEW t \in Task, ReportRefused(t) PROVE ControlOK' /\ DataOK'
  <2>1. ControlOK'  BY <1>5, <1>q, RetryTyped DEF ReportRefused
  <2>2. DataOK'  BY <1>5 DEF ReportRefused, DataOK
  <2> QED  BY <2>1, <2>2
<1>6. ASSUME NEW t \in Task, ChildDelivers(t) PROVE ControlOK' /\ DataOK'
  <2>1. ControlOK'  BY <1>6, <1>q DEF ChildDelivers, ControlOK, Stages
  <2>2. PICK F \in SUBSET File, b \in Wrote[t] :
          /\ touched' = [touched EXCEPT ![t] = F]
          /\ wrote' = [wrote EXCEPT ![t] = b]
    BY <1>6 DEF ChildDelivers
  <2>3. b \in Blob  BY MergeAssumption
  <2>4. touched' \in [Task -> SUBSET File] /\ wrote' \in [Task -> Blob \cup {Base}]
    BY <2>2, <2>3 DEF DataOK
  <2>5. DataOK'  BY <1>6, <2>4 DEF ChildDelivers, DataOK
  <2> QED  BY <2>1, <2>5
<1>7. ASSUME NEW t \in Task, SharedDelivers(t) PROVE ControlOK' /\ DataOK'
  <2>1. CASE t \in Checked
    <3>1. ControlOK'
      <4>1. /\ stage' = [stage EXCEPT ![t] = "gating"] /\ line' = Append(line, t)
            /\ UNCHANGED <<outcome, attempt>>
        BY <1>7, <2>1 DEF SharedDelivers
      <4>2. line' \in Seq(Task) /\ stage' \in [Task -> Stages]
        BY <1>q, <4>1 DEF ControlOK, Stages
      <4> QED  BY <4>1, <4>2 DEF ControlOK
    <3>2. DataOK'  BY <1>7 DEF SharedDelivers, DataOK
    <3> QED  BY <3>1, <3>2
  <2>2. CASE t \notin Checked
    <3>1. ControlOK'  BY <1>7, <1>q, <2>2, AcceptTyped DEF SharedDelivers
    <3>2. DataOK'  BY <1>7 DEF SharedDelivers, DataOK
    <3> QED  BY <3>1, <3>2
  <2> QED  BY <2>1, <2>2
<1>8. ASSUME NEW t \in Task, MergeRefused(t) PROVE ControlOK' /\ DataOK'
  <2>1. ControlOK'  BY <1>8, <1>q, RetryTyped DEF MergeRefused
  <2>2. DataOK'  BY <1>8 DEF MergeRefused, DataOK
  <2> QED  BY <2>1, <2>2
<1>9. ASSUME NEW t \in Task, MergeApplies(t) PROVE ControlOK' /\ DataOK'
  <2>1. DataOK'  BY <1>9 DEF MergeApplies, DataOK, Staging
  <2>2. CASE t \in Checked
    BY <1>9, <2>1, <2>2 DEF MergeApplies, ControlOK, Stages
  <2>3. CASE t \notin Checked
    BY <1>9, <1>q, <2>1, <2>3, AcceptTyped DEF MergeApplies
  <2> QED  BY <2>2, <2>3
<1>10. ASSUME NEW t \in Task, GateGreen(t) PROVE ControlOK' /\ DataOK'
  <2>1. ControlOK'  BY <1>10, <1>q, AcceptTyped DEF GateGreen
  <2>2. DataOK'  BY <1>10 DEF GateGreen, DataOK
  <2> QED  BY <2>1, <2>2
<1>11. ASSUME NEW t \in Task, GateWithdraws(t) \/ Revert(t) PROVE ControlOK' /\ DataOK'
  <2>1. ControlOK'  BY <1>11, <1>q, RetryTyped DEF GateWithdraws, Revert
  <2>2. merged[t] \in SUBSET File /\ Restore(merged[t])
    BY <1>11 DEF GateWithdraws, Revert, DataOK
  <2>3. index' \in [File -> Blob \cup {Base}] /\ dirty' \subseteq File
    BY <2>2, RestoreTyped
  <2>4. DataOK'  BY <1>11, <2>3 DEF GateWithdraws, Revert, DataOK
  <2> QED  BY <2>1, <2>4
<1>12. ASSUME NEW t \in Task, GateRefusesShared(t) PROVE ControlOK' /\ DataOK'
  <2>1. ControlOK'
    BY <1>12, <1>q, RetryTyped, SettleTyped DEF GateRefusesShared, Outcomes
  <2>2. DataOK'  BY <1>12 DEF GateRefusesShared, DataOK
  <2> QED  BY <2>1, <2>2
<1>13. ASSUME NEW t \in Task, ReviewClean(t) PROVE ControlOK' /\ DataOK'
  <2>1. ControlOK'  BY <1>13, <1>q, SettleTyped DEF ReviewClean, Outcomes
  <2>2. DataOK'  BY <1>13 DEF ReviewClean, DataOK
  <2> QED  BY <2>1, <2>2
<1>14. ASSUME NEW t \in Task, ReviewDirty(t) PROVE ControlOK' /\ DataOK'
  <2>1. DataOK'  BY <1>14 DEF ReviewDirty, DataOK
  <2>2. CASE merged[t] # {}
    <3>1. /\ stage' = [stage EXCEPT ![t] = "reverting"] /\ line' = Append(line, t)
          /\ UNCHANGED <<outcome, attempt>>
      BY <1>14, <2>2 DEF ReviewDirty
    <3>2. line' \in Seq(Task) /\ stage' \in [Task -> Stages]
      BY <1>q, <3>1 DEF ControlOK, Stages
    <3>3. ControlOK'  BY <3>1, <3>2 DEF ControlOK
    <3> QED  BY <2>1, <3>3
  <2>3. CASE merged[t] = {}
    BY <1>14, <1>q, <2>1, <2>3, RetryTyped DEF ReviewDirty
  <2> QED  BY <2>2, <2>3
<1>15. ASSUME NEW t \in Task, ReviewThrows(t) PROVE ControlOK' /\ DataOK'
  <2>1. ControlOK'  BY <1>15, <1>q, SettleTyped DEF ReviewThrows, Outcomes
  <2>2. DataOK'  BY <1>15 DEF ReviewThrows, DataOK
  <2> QED  BY <2>1, <2>2
<1>16. ASSUME NEW t \in Task, Remove(t) PROVE ControlOK' /\ DataOK'
  BY <1>16, <1>q DEF Remove, ControlOK, DataOK, Stages
<1>17. CASE Interrupt
  BY <1>17 DEF Interrupt, ControlOK, DataOK
<1>18. CASE Crash
  <2>1. ControlOK'
    BY <1>18, MergeAssumption DEF Crash, ControlOK, Stages, Outcomes
  <2>2. /\ stray' \subseteq File /\ merged' \in [Task -> SUBSET File]
        /\ crashes' \in Nat /\ aborted' \in BOOLEAN
    <3>1. \A t \in Task : merged[t] \subseteq File  BY DEF DataOK
    <3>2. UNION {merged[t] : t \in Task \ Kept} \subseteq File  BY <3>1
    <3>3. stray' \subseteq File  BY <1>18, <3>2 DEF Crash, DataOK
    <3>4. merged' \in [Task -> SUBSET File]  BY <1>18, <3>1 DEF Crash
    <3>5. crashes \in Nat /\ crashes' = crashes + 1  BY <1>18 DEF Crash, DataOK
    <3>6. aborted' \in BOOLEAN  BY <1>18, Zenon DEF Crash
    <3> QED  BY <3>3, <3>4, <3>5, <3>6
  <2>3. DataOK'  BY <1>18, <2>2 DEF Crash, DataOK
  <2> QED  BY <2>1, <2>3
<1>19. CASE UNCHANGED mergeVars
  BY <1>19 DEF mergeVars, ControlOK, DataOK
<1> QED
  BY <1>1, <1>2, <1>3, <1>4, <1>5, <1>6, <1>7, <1>8, <1>9, <1>10, <1>11, <1>12,
     <1>13, <1>14, <1>15, <1>16, <1>17, <1>18, <1>19
     DEF MergeNext, Advance, ChildEnds, MergeEnds, GateEnds, ReviewEnds

LEMMA TypesInitially == MergeInit => MergeTypeOK
<1>1. \A t \in Task : 0 \in Nat /\ 0 <= Attempts[t]  BY MergeAssumption
<1>2. <<>> \in Seq(Task)  OBVIOUS
<1>3. MergeInit => ControlOK
  BY <1>1, <1>2 DEF MergeInit, ControlOK, Outcomes, Stages
<1>4. MergeInit => DataOK
  <2>1. MergeInit => aborted \in BOOLEAN  BY Zenon DEF MergeInit
  <2>2. MergeInit => stray \subseteq File /\ crashes \in Nat /\ dirty \subseteq File /\ tree \subseteq Task
    BY DEF MergeInit
  <2>3. MergeInit => /\ index \in [File -> Blob \cup {Base}]
                     /\ touched \in [Task -> SUBSET File]
                     /\ wrote \in [Task -> Blob \cup {Base}]
                     /\ merged \in [Task -> SUBSET File]
    BY DEF MergeInit
  <2> QED  BY <2>1, <2>2, <2>3 DEF DataOK
<1> QED  BY <1>3, <1>4 DEF MergeTypeOK, ControlOK, DataOK

\* The variables keep their types, and no task starts its child more often than
\* its attempts allow.
THEOREM MergeTypeCorrect == MergeSpec => []MergeTypeOK
BY TypesInitially, TypeInductive, PTL DEF MergeSpec

----------------------------------------------------------------------------
(* Every staged file has exactly one owner *)

\* An outcome comes with the end of the task's work.
Late == \A t \in Task : outcome[t] # "none" => stage[t] \in {"removing", "done"}

\* What merges, takes back and removes has a worktree, and what merges has
\* contents of its own.
Treed ==
  \A t \in Task :
    /\ stage[t] \in {"merging", "reverting", "removing"} => t \in tree
    /\ stage[t] = "merging" => wrote[t] \in Blob

\* Merged files are those of a task on trial or of one that completed.
Answered == \A t \in Task : merged[t] # {} => OnTrial(t) \/ outcome[t] = "completed"

\* No file has two owners.
Single ==
  /\ \A t, u \in Task : t # u => merged[t] \cap merged[u] = {}
  /\ \A t \in Task : merged[t] \cap stray = {}

\* A file is staged exactly if it has an owner.
Owned == \A f \in File : index[f] # Base <=> f \in stray \/ \E t \in Task : f \in merged[t]

OwnerInv == MergeTypeOK /\ Late /\ Treed /\ Answered /\ Single /\ Owned

Moves(t, s, o) ==
  /\ stage' = [stage EXCEPT ![t] = s]
  /\ outcome' = [outcome EXCEPT ![t] = o]

\* Where a task may be sent that neither starts nor queues to merge.
Legal(t, s, o) ==
  /\ s \in {"working", "gating", "reviewing", "reverting", "removing", "done"}
  /\ o \in Outcomes
  /\ o # "none" => s \in {"removing", "done"}
  /\ s \in {"reverting", "removing"} => t \in tree

LEMMA SettleMoves ==
  ASSUME NEW t \in Task, NEW o \in Outcomes, NEW q, SettleBehind(t, o, q)
  PROVE  \E s \in {"removing", "done"} : Moves(t, s, o) /\ Legal(t, s, o)
<1>1. CASE t \in tree
  BY <1>1 DEF SettleBehind, Moves, Legal
<1>2. CASE t \notin tree
  BY <1>2 DEF SettleBehind, Moves, Legal
<1> QED  BY <1>1, <1>2

LEMMA SameOutcome ==
  ASSUME MergeTypeOK, NEW t \in Task, NEW s, stage' = [stage EXCEPT ![t] = s],
         UNCHANGED outcome, outcome[t] = "none"
  PROVE  Moves(t, s, "none")
BY DEF MergeTypeOK, Moves

LEMMA RetryMoves ==
  ASSUME MergeTypeOK, NEW t \in Task, NEW q, RetryBehind(t, q), outcome[t] = "none"
  PROVE  \E s \in Stages, o \in {"none", "failed"} : Moves(t, s, o) /\ Legal(t, s, o)
<1>1. CASE stage' = [stage EXCEPT ![t] = "working"] /\ UNCHANGED outcome
  <2>1. Moves(t, "working", "none")  BY <1>1, SameOutcome
  <2>2. Legal(t, "working", "none")  BY DEF Legal, Outcomes
  <2> QED  BY <2>1, <2>2 DEF Stages
<1>2. CASE SettleBehind(t, "failed", q)
  BY <1>2, SettleMoves DEF Outcomes, Stages
<1> QED  BY <1>1, <1>2 DEF RetryBehind

LEMMA RetryQuits ==
  ASSUME MergeTypeOK, NEW t \in Task, NEW q, RetryBehind(t, q), outcome[t] = "none"
  PROVE  \E s \in {"working", "removing", "done"}, o \in {"none", "failed"} : Moves(t, s, o)
<1>1. CASE stage' = [stage EXCEPT ![t] = "working"] /\ UNCHANGED outcome
  BY <1>1, SameOutcome
<1>2. CASE SettleBehind(t, "failed", q)
  BY <1>2, SettleMoves DEF Outcomes
<1> QED  BY <1>1, <1>2 DEF RetryBehind

LEMMA AcceptMoves ==
  ASSUME MergeTypeOK, NEW t \in Task, NEW q, AcceptBehind(t, q), outcome[t] = "none"
  PROVE  \E s \in Stages, o \in Outcomes :
           /\ Moves(t, s, o) /\ Legal(t, s, o)
           /\ o = "completed" \/ (o = "none" /\ s = "reviewing")
<1>1. CASE stage' = [stage EXCEPT ![t] = "reviewing"] /\ UNCHANGED outcome
  <2>1. Moves(t, "reviewing", "none")  BY <1>1, SameOutcome
  <2>2. Legal(t, "reviewing", "none")  BY DEF Legal, Outcomes
  <2> QED  BY <2>1, <2>2 DEF Stages, Outcomes
<1>2. CASE SettleBehind(t, "completed", q)
  BY <1>2, SettleMoves DEF Outcomes, Stages
<1> QED  BY <1>1, <1>2 DEF AcceptBehind

\* A task that is not done has no outcome, and merged files only on trial.
LEMMA Unsettled ==
  ASSUME OwnerInv, NEW t \in Task, stage[t] \notin {"removing", "done"}
  PROVE  /\ outcome[t] = "none"
         /\ merged[t] # {} => t \in tree /\ stage[t] \in {"gating", "reviewing", "reverting"}
<1>1. outcome[t] = "none"  BY DEF OwnerInv, Late
<1> QED  BY <1>1 DEF OwnerInv, Answered, OnTrial

\* A move that stages and restores nothing.
LEMMA MoveKeepsOwners ==
  ASSUME OwnerInv, MergeTypeOK', NEW t \in Task, NEW s, NEW o,
         Moves(t, s, o), Legal(t, s, o),
         UNCHANGED <<index, tree, wrote, merged, stray>>,
         merged[t] # {} => o = "completed" \/ (t \in tree /\ s \in {"gating", "reviewing", "reverting"})
  PROVE  OwnerInv'
<1>1. /\ stage'[t] = s /\ outcome'[t] = o
      /\ \A u \in Task : u # t => stage'[u] = stage[u] /\ outcome'[u] = outcome[u]
  BY DEF Moves, OwnerInv, MergeTypeOK
<1>2. Late'  BY <1>1 DEF OwnerInv, Late, Legal
<1>3. Treed'  BY <1>1 DEF OwnerInv, Treed, Legal
<1>4. Answered'  BY <1>1 DEF OwnerInv, Answered, OnTrial
<1>5. Single' /\ Owned'  BY DEF OwnerInv, Single, Owned
<1> QED  BY <1>2, <1>3, <1>4, <1>5 DEF OwnerInv

\* A task takes back all it has merged.
LEMMA RestoreKeepsOwners ==
  ASSUME OwnerInv, MergeTypeOK', NEW t \in Task, NEW s, NEW o,
         Moves(t, s, o), Legal(t, s, o), o # "completed",
         Restore(merged[t]), merged' = [merged EXCEPT ![t] = {}],
         UNCHANGED <<tree, wrote, stray>>
  PROVE  OwnerInv'
<1>1. /\ stage'[t] = s /\ outcome'[t] = o
      /\ \A u \in Task : u # t => stage'[u] = stage[u] /\ outcome'[u] = outcome[u]
      /\ merged'[t] = {} /\ \A u \in Task : u # t => merged'[u] = merged[u]
  BY DEF Moves, OwnerInv, MergeTypeOK
<1>2. Late'  BY <1>1 DEF OwnerInv, Late, Legal
<1>3. Treed'  BY <1>1 DEF OwnerInv, Treed, Legal
<1>4. Answered'  BY <1>1 DEF OwnerInv, Answered, OnTrial
<1>5. Single'  BY <1>1 DEF OwnerInv, Single
<1>6. Owned'
  <2> SUFFICES ASSUME NEW f \in File
               PROVE  index'[f] # Base <=> f \in stray \/ \E u \in Task : f \in merged'[u]
    BY DEF Owned
  <2>1. index'[f] = IF f \in merged[t] THEN Base ELSE index[f]  BY DEF Restore
  <2>2. CASE f \in merged[t]
    BY <1>1, <2>1, <2>2 DEF OwnerInv, Single
  <2>3. CASE f \notin merged[t]
    BY <1>1, <2>1, <2>3 DEF OwnerInv, Owned
  <2> QED  BY <2>2, <2>3
<1> QED  BY <1>2, <1>3, <1>4, <1>5, <1>6 DEF OwnerInv

LEMMA MergeKeepsOwners ==
  ASSUME OwnerInv, MergeTypeOK', NEW t \in Task, MergeApplies(t)
  PROVE  OwnerInv'
<1>0. /\ stage[t] = "merging" /\ t \in tree /\ wrote[t] \in Blob /\ wrote[t] # Base
      /\ outcome[t] = "none" /\ merged[t] = {}
  BY Unsettled, MergeAssumption DEF MergeApplies, OwnerInv, Treed
<1>1. PICK s \in Stages, o \in Outcomes :
        /\ Moves(t, s, o) /\ Legal(t, s, o)
        /\ o = "completed" \/ (o = "none" /\ s \in {"gating", "reviewing"})
  <2>1. CASE t \in Checked
    <3>1. stage' = [stage EXCEPT ![t] = "gating"] /\ UNCHANGED outcome
      BY <2>1 DEF MergeApplies
    <3>2. Moves(t, "gating", "none")  BY <3>1, <1>0, SameOutcome DEF OwnerInv
    <3>3. Legal(t, "gating", "none")  BY DEF Legal, Outcomes
    <3> QED  BY <3>2, <3>3 DEF Stages, Outcomes
  <2>2. CASE t \notin Checked
    BY <2>2, <1>0, AcceptMoves DEF MergeApplies, OwnerInv
  <2> QED  BY <2>1, <2>2
<1>2. /\ stage'[t] = s /\ outcome'[t] = o
      /\ \A u \in Task : u # t => stage'[u] = stage[u] /\ outcome'[u] = outcome[u]
      /\ merged'[t] = Staging(t) /\ \A u \in Task : u # t => merged'[u] = merged[u]
      /\ UNCHANGED <<tree, wrote, stray>>
  BY <1>1 DEF Moves, OwnerInv, MergeTypeOK, MergeApplies
<1>3. Late'  BY <1>1, <1>2 DEF OwnerInv, Late, Legal
<1>4. Treed'  BY <1>1, <1>2 DEF OwnerInv, Treed, Legal
<1>5. Answered'  BY <1>0, <1>1, <1>2 DEF OwnerInv, Answered, OnTrial
<1>6. \A f \in Staging(t) : f \in File /\ index[f] = Base
  BY DEF Staging, OwnerInv, MergeTypeOK
<1>7. /\ Staging(t) \cap stray = {}
      /\ \A u \in Task : Staging(t) \cap merged[u] = {}
  BY <1>6 DEF OwnerInv, Owned
<1>8. Single'  BY <1>2, <1>7 DEF OwnerInv, Single
<1>9. Owned'
  <2> SUFFICES ASSUME NEW f \in File
               PROVE  index'[f] # Base <=> f \in stray \/ \E u \in Task : f \in merged'[u]
    BY <1>2 DEF Owned
  <2>1. index'[f] = IF f \in touched[t] THEN wrote[t] ELSE index[f]  BY DEF MergeApplies
  <2>2. CASE f \in touched[t] /\ index[f] = Base
    BY <1>0, <1>2, <2>1, <2>2 DEF Staging
  <2>3. CASE f \in touched[t] /\ index[f] # Base
    BY <1>0, <1>2, <2>1, <2>3 DEF OwnerInv, Owned
  <2>4. CASE f \notin touched[t]
    BY <1>0, <1>2, <2>1, <2>4 DEF OwnerInv, Owned, Staging
  <2> QED  BY <2>2, <2>3, <2>4
<1> QED  BY <1>3, <1>4, <1>5, <1>8, <1>9 DEF OwnerInv

LEMMA ThrowKeepsOwners ==
  ASSUME OwnerInv, MergeTypeOK', NEW t \in Task, ReviewThrows(t)
  PROVE  OwnerInv'
<1>0. PICK s \in {"removing", "done"} : Moves(t, s, "failed") /\ Legal(t, s, "failed")
  BY SettleMoves DEF ReviewThrows, Outcomes
<1>1. /\ stage'[t] = s /\ outcome'[t] = "failed"
      /\ \A u \in Task : u # t => stage'[u] = stage[u] /\ outcome'[u] = outcome[u]
      /\ merged'[t] = {} /\ \A u \in Task : u # t => merged'[u] = merged[u]
      /\ stray' = stray \cup merged[t]
      /\ UNCHANGED <<index, tree, wrote>>
  BY <1>0 DEF Moves, OwnerInv, MergeTypeOK, ReviewThrows, repo
<1>2. Late' /\ Treed'  BY <1>0, <1>1 DEF OwnerInv, Late, Treed, Legal
<1>3. Answered'  BY <1>1 DEF OwnerInv, Answered, OnTrial
<1>4. Single'  BY <1>1 DEF OwnerInv, Single
<1>5. Owned'  BY <1>1 DEF OwnerInv, Owned
<1> QED  BY <1>2, <1>3, <1>4, <1>5 DEF OwnerInv

LEMMA CrashKeepsOwners ==
  ASSUME OwnerInv, MergeTypeOK', Crash
  PROVE  OwnerInv'
<1>1. /\ \A u \in Task : u \in Kept =>
           stage'[u] = "done" /\ outcome'[u] = "completed" /\ merged'[u] = merged[u]
      /\ \A u \in Task : u \notin Kept =>
           stage'[u] = "idle" /\ outcome'[u] = "none" /\ merged'[u] = {}
      /\ \A f : f \in stray' <=> f \in stray \/ \E u \in Task : u \notin Kept /\ f \in merged[u]
      /\ UNCHANGED <<index, tree, wrote>>
  BY DEF Crash, Kept, repo
<1>2. Late' /\ Treed'  BY <1>1 DEF Late, Treed
<1>3. Answered'  BY <1>1 DEF Answered, OnTrial
<1>4. Single'  BY <1>1 DEF OwnerInv, Single
<1>5. Owned'  BY <1>1 DEF OwnerInv, Owned
<1> QED  BY <1>2, <1>3, <1>4, <1>5 DEF OwnerInv

LEMMA OwnersInductive == OwnerInv /\ [MergeNext]_mergeVars => OwnerInv'
<1> SUFFICES ASSUME OwnerInv, [MergeNext]_mergeVars PROVE OwnerInv'
  OBVIOUS
<1> USE DEF repo, taskVars
<1>t. MergeTypeOK /\ MergeTypeOK'  BY TypeInductive DEF OwnerInv
<1>1. ASSUME NEW t \in Task, Start(t) PROVE OwnerInv'
  <2>1. outcome[t] = "none" /\ merged[t] = {}  BY <1>1, Unsettled DEF Start
  <2>2. /\ stage'[t] = "working" /\ \A u \in Task : u # t => stage'[u] = stage[u]
        /\ wrote'[t] = Base /\ \A u \in Task : u # t => wrote'[u] = wrote[u] /\ (u \in tree' <=> u \in tree)
        /\ UNCHANGED <<index, outcome, merged, stray>>
    BY <1>1, <1>t DEF Start, MergeTypeOK
  <2>3. Late' /\ Treed'  BY <2>1, <2>2 DEF OwnerInv, Late, Treed
  <2>4. Answered'  BY <2>1, <2>2 DEF OwnerInv, Answered, OnTrial
  <2>5. Single' /\ Owned'  BY <2>2 DEF OwnerInv, Single, Owned
  <2> QED  BY <1>t, <2>3, <2>4, <2>5 DEF OwnerInv
<1>2. ASSUME NEW t \in Task, Skip(t) PROVE OwnerInv'
  <2>1. Moves(t, "done", "skipped") /\ Legal(t, "done", "skipped")
    BY <1>2 DEF Skip, Moves, Legal, Outcomes
  <2>2. merged[t] = {}  BY <1>2, Unsettled DEF Skip
  <2>3. UNCHANGED <<index, tree, wrote, merged, stray>>  BY <1>2 DEF Skip
  <2> QED  BY <1>t, <2>1, <2>2, <2>3, MoveKeepsOwners
<1>3. ASSUME NEW t \in Task, NEW f \in File, Edit(t, f) PROVE OwnerInv'
  BY <1>3, <1>t DEF Edit, OwnerInv, Late, Treed, Answered, OnTrial, Single, Owned
<1>4. ASSUME NEW t \in Task, ChildFails(t) PROVE OwnerInv'
  <2>1. merged[t] = {}  BY <1>4, Unsettled DEF ChildFails
  <2>2. UNCHANGED <<index, tree, wrote, merged, stray>>  BY <1>4 DEF ChildFails
  <2>3. PICK s \in {"removing", "done"} : Moves(t, s, "failed") /\ Legal(t, s, "failed")
    BY <1>4, SettleMoves DEF ChildFails, Outcomes
  <2> QED  BY <1>t, <2>1, <2>2, <2>3, MoveKeepsOwners
<1>5. ASSUME NEW t \in Task, ReportRefused(t) \/ MergeRefused(t) PROVE OwnerInv'
  <2>1. outcome[t] = "none" /\ merged[t] = {}
    BY <1>5, Unsettled DEF ReportRefused, MergeRefused
  <2>2. UNCHANGED <<index, tree, wrote, merged, stray>>
    BY <1>5 DEF ReportRefused, MergeRefused
  <2>3. PICK s \in Stages, o \in {"none", "failed"} : Moves(t, s, o) /\ Legal(t, s, o)
    BY <1>5, <1>t, <2>1, RetryMoves DEF ReportRefused, MergeRefused
  <2> QED  BY <1>t, <2>1, <2>2, <2>3, MoveKeepsOwners
<1>6. ASSUME NEW t \in Task, ChildDelivers(t) PROVE OwnerInv'
  <2>1. outcome[t] = "none" /\ merged[t] = {}  BY <1>6, Unsettled DEF ChildDelivers
  <2>2. wrote'[t] \in Blob /\ \A u \in Task : u # t => wrote'[u] = wrote[u]
    BY <1>6, <1>t, MergeAssumption DEF ChildDelivers, MergeTypeOK
  <2>3. /\ stage'[t] = "merging" /\ t \in tree
        /\ \A u \in Task : u # t => stage'[u] = stage[u]
        /\ UNCHANGED <<index, tree, outcome, merged, stray>>
    BY <1>6, <1>t DEF ChildDelivers, MergeTypeOK
  <2>4. Late' /\ Treed'  BY <2>1, <2>2, <2>3 DEF OwnerInv, Late, Treed
  <2>5. Answered'  BY <2>1, <2>3 DEF OwnerInv, Answered, OnTrial
  <2>6. Single' /\ Owned'  BY <2>3 DEF OwnerInv, Single, Owned
  <2> QED  BY <1>t, <2>4, <2>5, <2>6 DEF OwnerInv
<1>7. ASSUME NEW t \in Task, SharedDelivers(t) PROVE OwnerInv'
  <2>1. outcome[t] = "none" /\ merged[t] = {}  BY <1>7, Unsettled DEF SharedDelivers
  <2>2. UNCHANGED <<index, tree, wrote, merged, stray>>  BY <1>7 DEF SharedDelivers
  <2>3. \E s \in Stages, o \in Outcomes : Moves(t, s, o) /\ Legal(t, s, o)
    <3>1. CASE t \in Checked
      <4>1. stage' = [stage EXCEPT ![t] = "gating"] /\ UNCHANGED outcome
        BY <1>7, <3>1 DEF SharedDelivers
      <4>2. Moves(t, "gating", "none")  BY <4>1, <1>t, <2>1, SameOutcome
      <4>3. Legal(t, "gating", "none")  BY DEF Legal, Outcomes
      <4> QED  BY <4>2, <4>3 DEF Stages, Outcomes
    <3>2. CASE t \notin Checked
      BY <1>7, <1>t, <2>1, <3>2, AcceptMoves DEF SharedDelivers
    <3> QED  BY <3>1, <3>2
  <2> QED  BY <1>t, <2>1, <2>2, <2>3, MoveKeepsOwners
<1>8. ASSUME NEW t \in Task, GateGreen(t) PROVE OwnerInv'
  <2>1. outcome[t] = "none" /\ (merged[t] # {} => t \in tree)
    BY <1>8, Unsettled DEF GateGreen
  <2>2. UNCHANGED <<index, tree, wrote, merged, stray>>  BY <1>8 DEF GateGreen
  <2>3. PICK s \in Stages, o \in Outcomes :
          /\ Moves(t, s, o) /\ Legal(t, s, o)
          /\ o = "completed" \/ (o = "none" /\ s = "reviewing")
    BY <1>8, <1>t, <2>1, AcceptMoves DEF GateGreen
  <2> QED  BY <1>t, <2>1, <2>2, <2>3, MoveKeepsOwners
<1>9. ASSUME NEW t \in Task, GateWithdraws(t) \/ Revert(t) PROVE OwnerInv'
  <2>1. outcome[t] = "none"  BY <1>9, Unsettled DEF GateWithdraws, Revert
  <2>2. PICK s \in Stages, o \in {"none", "failed"} : Moves(t, s, o) /\ Legal(t, s, o)
    BY <1>9, <1>t, <2>1, RetryMoves DEF GateWithdraws, Revert
  <2>3. /\ Restore(merged[t]) /\ merged' = [merged EXCEPT ![t] = {}]
        /\ UNCHANGED <<tree, wrote, stray>>
    BY <1>9 DEF GateWithdraws, Revert
  <2> QED  BY <1>t, <2>2, <2>3, RestoreKeepsOwners
<1>10. ASSUME NEW t \in Task, GateRefusesShared(t) PROVE OwnerInv'
  <2>1. outcome[t] = "none" /\ merged[t] = {}
    BY <1>10, Unsettled DEF GateRefusesShared
  <2>2. UNCHANGED <<index, tree, wrote, merged, stray>>  BY <1>10 DEF GateRefusesShared
  <2>3. \E s \in Stages, o \in {"none", "failed"} : Moves(t, s, o) /\ Legal(t, s, o)
    BY <1>10, <1>t, <2>1, RetryMoves, SettleMoves DEF GateRefusesShared, Outcomes, Stages
  <2> QED  BY <1>t, <2>1, <2>2, <2>3, MoveKeepsOwners
<1>11. ASSUME NEW t \in Task, ReviewClean(t) PROVE OwnerInv'
  <2>1. UNCHANGED <<index, tree, wrote, merged, stray>>  BY <1>11 DEF ReviewClean
  <2>2. PICK s \in {"removing", "done"} : Moves(t, s, "completed") /\ Legal(t, s, "completed")
    BY <1>11, SettleMoves DEF ReviewClean, Outcomes
  <2> QED  BY <1>t, <2>1, <2>2, MoveKeepsOwners
<1>12. ASSUME NEW t \in Task, ReviewDirty(t) PROVE OwnerInv'
  <2>1. outcome[t] = "none" /\ (merged[t] # {} => t \in tree)
    BY <1>12, Unsettled DEF ReviewDirty
  <2>2. UNCHANGED <<index, tree, wrote, merged, stray>>  BY <1>12 DEF ReviewDirty
  <2>3. CASE merged[t] # {}
    <3>1. stage' = [stage EXCEPT ![t] = "reverting"] /\ UNCHANGED outcome
      BY <1>12, <2>3 DEF ReviewDirty
    <3>2. Moves(t, "reverting", "none")  BY <3>1, <1>t, <2>1, SameOutcome
    <3>3. Legal(t, "reverting", "none")  BY <2>1, <2>3 DEF Legal, Outcomes
    <3> QED  BY <1>t, <2>1, <2>2, <2>3, <3>2, <3>3, MoveKeepsOwners
  <2>4. CASE merged[t] = {}
    <3>1. PICK s \in Stages, o \in {"none", "failed"} : Moves(t, s, o) /\ Legal(t, s, o)
      BY <1>12, <1>t, <2>1, <2>4, RetryMoves DEF ReviewDirty
    <3> QED  BY <1>t, <2>2, <2>4, <3>1, MoveKeepsOwners
  <2> QED  BY <2>3, <2>4
<1>13. ASSUME NEW t \in Task, Remove(t) PROVE OwnerInv'
  <2>1. /\ stage[t] = "removing" /\ stage'[t] = "done"
        /\ \A u \in Task : u # t => stage'[u] = stage[u] /\ (u \in tree' <=> u \in tree)
        /\ UNCHANGED <<index, outcome, wrote, merged, stray>>
    BY <1>13, <1>t DEF Remove, MergeTypeOK
  <2>2. Late' /\ Treed'  BY <2>1 DEF OwnerInv, Late, Treed
  <2>3. Answered'  BY <2>1 DEF OwnerInv, Answered, OnTrial
  <2>4. Single' /\ Owned'  BY <2>1 DEF OwnerInv, Single, Owned
  <2> QED  BY <1>t, <2>2, <2>3, <2>4 DEF OwnerInv
<1>14. CASE Interrupt \/ UNCHANGED mergeVars
  <2>1. UNCHANGED <<index, tree, taskVars, stray>>  BY <1>14 DEF Interrupt, mergeVars
  <2> QED  BY <1>t, <2>1 DEF OwnerInv, Late, Treed, Answered, OnTrial, Single, Owned
<1> QED
  BY <1>t, <1>1, <1>2, <1>3, <1>4, <1>5, <1>6, <1>7, <1>8, <1>9, <1>10, <1>11, <1>12,
     <1>13, <1>14, MergeKeepsOwners, ThrowKeepsOwners, CrashKeepsOwners
     DEF MergeNext, Advance, ChildEnds, MergeEnds, GateEnds, ReviewEnds

LEMMA OwnersInitially == MergeInit => OwnerInv
<1> SUFFICES ASSUME MergeInit PROVE OwnerInv
  OBVIOUS
<1>1. MergeTypeOK  BY TypesInitially
<1>2. /\ \A t \in Task : outcome[t] = "none" /\ stage[t] = "idle" /\ merged[t] = {}
      /\ \A f \in File : index[f] = Base
      /\ stray = {}
  BY DEF MergeInit
<1>3. Late /\ Treed /\ Answered /\ Single /\ Owned
  BY <1>2 DEF Late, Treed, Answered, Single, Owned
<1> QED  BY <1>1, <1>3 DEF OwnerInv

\* Owners are kept track of by every step of the system.
THEOREM OwnersInvariant == MergeSpec => []OwnerInv
BY OwnersInitially, OwnersInductive, PTL DEF MergeSpec

\* Whatever fails, is interrupted or crashes, a staged file belongs to a task
\* that completed or is still judged, or is known to be stray.
THEOREM StagedIsAccountedHolds == MergeSpec => []StagedIsAccounted
<1>1. OwnerInv => StagedIsAccounted
  <2> SUFFICES ASSUME OwnerInv, NEW f \in File, index[f] # Base, f \notin stray
               PROVE  \E t \in Task : f \in merged[t] /\ (outcome[t] = "completed" \/ OnTrial(t))
    BY DEF StagedIsAccounted
  <2>1. PICK t \in Task : f \in merged[t]  BY DEF OwnerInv, Owned
  <2> QED  BY <2>1 DEF OwnerInv, Answered
<1> QED  BY <1>1, OwnersInvariant, PTL

\* The merge lock: checks run on a tree nobody stages into or restores.
THEOREM GateSeesOneTreeHolds == MergeSpec => GateSeesOneTree
<1>1. MergeTypeOK /\ Late /\ [MergeNext]_mergeVars =>
        [\A t \in Task : Holds(t) /\ stage[t] = "gating" /\ stage'[t] = "gating"
           => index' = index]_mergeVars
  <2> SUFFICES ASSUME MergeTypeOK, Late, MergeNext,
                      NEW t \in Task, Holds(t), stage[t] = "gating", index' # index
               PROVE  stage'[t] # "gating"
    BY DEF mergeVars, repo
  <2>1. PICK u \in Task : MergeApplies(u) \/ GateWithdraws(u) \/ Revert(u)
    BY DEF MergeNext, Advance, ChildEnds, MergeEnds, GateEnds, ReviewEnds, Start, Skip, Edit,
           ChildFails, ReportRefused, ChildDelivers, SharedDelivers, MergeRefused, GateGreen,
           GateRefusesShared, ReviewClean, ReviewDirty, ReviewThrows, Remove, Interrupt, Crash, repo
  <2>2. u = t  BY <2>1 DEF MergeApplies, GateWithdraws, Revert, Holds
  <2>3. RetryBehind(t, Tail(line))
    BY <2>1, <2>2 DEF MergeApplies, GateWithdraws, Revert
  <2>4. outcome[t] = "none"  BY DEF Late, MergeTypeOK
  <2>5. PICK s \in Stages, o \in {"none", "failed"} : Moves(t, s, o) /\ s # "gating"
    <3>1. CASE stage' = [stage EXCEPT ![t] = "working"] /\ UNCHANGED outcome
      BY <3>1, <2>4, SameOutcome DEF Stages
    <3>2. CASE SettleBehind(t, "failed", Tail(line))
      BY <3>2, SettleMoves DEF Outcomes, Stages
    <3> QED  BY <2>3, <3>1, <3>2 DEF RetryBehind
  <2> QED  BY <2>5 DEF Moves, MergeTypeOK
<1>2. OwnerInv => MergeTypeOK /\ Late  BY DEF OwnerInv
<1> QED  BY <1>1, <1>2, OwnersInvariant, PTL DEF MergeSpec, GateSeesOneTree

----------------------------------------------------------------------------
(* The tasks implement the ledger *)

TrialFiles == [t \in Task |-> IF OnTrial(t) THEN merged[t] ELSE {}]
KeptFiles == [t \in Task |-> IF outcome[t] = "completed" THEN merged[t] ELSE {}]

LedgerStep == Ledger!LedgerNext \/ UNCHANGED <<TrialFiles, KeptFiles, stray>>

\* While an outcome is open, all merged files are on trial.
LEMMA LedgerView ==
  OwnerInv => /\ TrialFiles = [t \in Task |-> IF outcome[t] = "completed" THEN {} ELSE merged[t]]
              /\ KeptFiles = [t \in Task |-> IF outcome[t] = "completed" THEN merged[t] ELSE {}]
<1> SUFFICES ASSUME OwnerInv, NEW t \in Task
             PROVE  (IF OnTrial(t) THEN merged[t] ELSE {})
                      = IF outcome[t] = "completed" THEN {} ELSE merged[t]
  BY DEF TrialFiles, KeptFiles
<1> QED  BY DEF OwnerInv, Answered, Late, OnTrial

LEMMA LedgerViewNext ==
  OwnerInv' => /\ TrialFiles' = [t \in Task |-> IF outcome'[t] = "completed" THEN {} ELSE merged'[t]]
               /\ KeptFiles' = [t \in Task |-> IF outcome'[t] = "completed" THEN merged'[t] ELSE {}]
<1> SUFFICES ASSUME OwnerInv', NEW t \in Task
             PROVE  (IF OnTrial(t)' THEN merged'[t] ELSE {})
                      = IF outcome'[t] = "completed" THEN {} ELSE merged'[t]
  BY DEF TrialFiles, KeptFiles
<1> QED  BY DEF OwnerInv, Answered, Late, OnTrial

\* The same, file set by file set.
LEMMA LedgerAt ==
  ASSUME OwnerInv, OwnerInv'
  PROVE  /\ \A u \in Task :
              /\ TrialFiles[u] = IF outcome[u] = "completed" THEN {} ELSE merged[u]
              /\ KeptFiles[u] = IF outcome[u] = "completed" THEN merged[u] ELSE {}
              /\ TrialFiles'[u] = IF outcome'[u] = "completed" THEN {} ELSE merged'[u]
              /\ KeptFiles'[u] = IF outcome'[u] = "completed" THEN merged'[u] ELSE {}
<1>1. \A u \in Task :
        /\ TrialFiles[u] = IF outcome[u] = "completed" THEN {} ELSE merged[u]
        /\ KeptFiles[u] = IF outcome[u] = "completed" THEN merged[u] ELSE {}
        /\ TrialFiles'[u] = IF outcome'[u] = "completed" THEN {} ELSE merged'[u]
        /\ KeptFiles'[u] = IF outcome'[u] = "completed" THEN merged'[u] ELSE {}
  BY LedgerView, LedgerViewNext
<1> QED  BY <1>1

\* Both mappings change at most at one task.
LEMMA LedgerChange ==
  ASSUME NEW t \in Task,
         \A u \in Task : u # t => TrialFiles'[u] = TrialFiles[u] /\ KeptFiles'[u] = KeptFiles[u]
  PROVE  /\ TrialFiles' = [TrialFiles EXCEPT ![t] = TrialFiles'[t]]
         /\ KeptFiles' = [KeptFiles EXCEPT ![t] = KeptFiles'[t]]
         /\ TrialFiles'[t] = TrialFiles[t] => TrialFiles' = TrialFiles
         /\ KeptFiles'[t] = KeptFiles[t] => KeptFiles' = KeptFiles
<1> DEFINE T == TrialFiles
           T1 == TrialFiles'
           K == KeptFiles
           K1 == KeptFiles'
<1>1. /\ T = [u \in Task |-> T[u]] /\ T1 = [u \in Task |-> T1[u]]
      /\ K = [u \in Task |-> K[u]] /\ K1 = [u \in Task |-> K1[u]]
  BY DEF TrialFiles, KeptFiles
<1>2. \A u \in Task : u # t => T1[u] = T[u] /\ K1[u] = K[u]
  OBVIOUS
<1> HIDE DEF T, T1, K, K1
<1>3. /\ T1 = [T EXCEPT ![t] = T1[t]] /\ K1 = [K EXCEPT ![t] = K1[t]]
      /\ T1[t] = T[t] => T1 = T
      /\ K1[t] = K[t] => K1 = K
  BY <1>1, <1>2
<1> QED  BY <1>3 DEF T, T1, K, K1

\* Nothing is staged or restored: at most a task completes.
LEMMA QuietMaps ==
  ASSUME OwnerInv, OwnerInv', NEW t \in Task, outcome[t] = "none",
         \A u \in Task : u # t => outcome'[u] = outcome[u],
         UNCHANGED <<merged, stray>>
  PROVE  LedgerStep
<1>1. CASE outcome'[t] = "completed"
  <2>1. /\ KeptFiles' = [KeptFiles EXCEPT ![t] = TrialFiles[t] \cup @]
        /\ TrialFiles' = [TrialFiles EXCEPT ![t] = {}]
    <3>1. /\ TrialFiles'[t] = {} /\ KeptFiles'[t] = TrialFiles[t] \cup KeptFiles[t]
          /\ \A u \in Task : u # t => TrialFiles'[u] = TrialFiles[u] /\ KeptFiles'[u] = KeptFiles[u]
      BY <1>1, LedgerAt
    <3> QED  BY <3>1, LedgerChange
  <2>2. Ledger!Keep(t)
    BY <2>1 DEF Ledger!Keep, TrialFiles, KeptFiles
  <2> QED  BY <2>2 DEF LedgerStep, Ledger!LedgerNext
<1>2. CASE outcome'[t] # "completed"
  <2>1. TrialFiles' = TrialFiles /\ KeptFiles' = KeptFiles
    BY <1>2, LedgerView, LedgerViewNext
  <2> QED  BY <2>1 DEF LedgerStep
<1> QED  BY <1>1, <1>2

LEMMA SameMaps ==
  ASSUME OwnerInv, OwnerInv', UNCHANGED <<outcome, merged, stray>>
  PROVE  LedgerStep
<1>1. TrialFiles' = TrialFiles /\ KeptFiles' = KeptFiles
  BY LedgerView, LedgerViewNext
<1> QED  BY <1>1 DEF LedgerStep

LEMMA RestoreMaps ==
  ASSUME OwnerInv, OwnerInv', NEW t \in Task, outcome[t] = "none", outcome'[t] # "completed",
         \A u \in Task : u # t => outcome'[u] = outcome[u],
         merged' = [merged EXCEPT ![t] = {}], UNCHANGED stray
  PROVE  LedgerStep
<1>0. merged'[t] = {} /\ \A u \in Task : u # t => merged'[u] = merged[u]
  BY DEF OwnerInv, MergeTypeOK
<1>1. /\ TrialFiles' = [TrialFiles EXCEPT ![t] = {}] /\ KeptFiles' = KeptFiles
  <2>1. /\ TrialFiles'[t] = {} /\ KeptFiles'[t] = KeptFiles[t]
        /\ \A u \in Task : u # t => TrialFiles'[u] = TrialFiles[u] /\ KeptFiles'[u] = KeptFiles[u]
    BY <1>0, LedgerAt
  <2> QED  BY <2>1, LedgerChange
<1>2. Ledger!Withdraw(t)
  BY <1>1 DEF Ledger!Withdraw, TrialFiles, KeptFiles
<1> QED  BY <1>2 DEF LedgerStep, Ledger!LedgerNext

LEMMA MergeMaps ==
  ASSUME OwnerInv, OwnerInv', NEW t \in Task, outcome[t] = "none", merged[t] = {},
         \A u \in Task : u # t => outcome'[u] = outcome[u],
         merged' = [merged EXCEPT ![t] = Staging(t)], UNCHANGED stray
  PROVE  LedgerStep
<1>1. Staging(t) \subseteq Ledger!Free
  <2> SUFFICES ASSUME NEW f \in Staging(t) PROVE f \in Ledger!Free
    OBVIOUS
  <2>1. f \in File /\ index[f] = Base  BY DEF Staging, OwnerInv, MergeTypeOK
  <2>2. f \notin stray /\ \A u \in Task : f \notin merged[u]
    BY <2>1 DEF OwnerInv, Owned
  <2>3. \A u \in Task : f \notin TrialFiles[u] /\ f \notin KeptFiles[u]
    BY <2>2 DEF TrialFiles, KeptFiles
  <2> QED  BY <2>1, <2>2, <2>3 DEF Ledger!Free, TrialFiles, KeptFiles
<1>2. /\ TrialFiles[t] = {} /\ KeptFiles[t] = {}
      /\ merged'[t] = Staging(t) /\ \A u \in Task : u # t => merged'[u] = merged[u]
  BY DEF TrialFiles, KeptFiles, OwnerInv, MergeTypeOK
<1>3. CASE outcome'[t] = "completed"
  <2>1. /\ KeptFiles' = [KeptFiles EXCEPT ![t] = Staging(t) \cup @]
        /\ TrialFiles' = TrialFiles
    <3>1. /\ TrialFiles'[t] = TrialFiles[t] /\ KeptFiles'[t] = Staging(t) \cup KeptFiles[t]
          /\ \A u \in Task : u # t => TrialFiles'[u] = TrialFiles[u] /\ KeptFiles'[u] = KeptFiles[u]
      BY <1>2, <1>3, LedgerAt
    <3> QED  BY <3>1, LedgerChange
  <2>2. Ledger!LandForGood(t)
    BY <1>1, <1>2, <2>1 DEF Ledger!LandForGood, TrialFiles, KeptFiles
  <2> QED  BY <2>2 DEF LedgerStep, Ledger!LedgerNext
<1>4. CASE outcome'[t] # "completed"
  <2>1. /\ TrialFiles' = [TrialFiles EXCEPT ![t] = Staging(t)]
        /\ KeptFiles' = KeptFiles
    <3>1. /\ TrialFiles'[t] = Staging(t) /\ KeptFiles'[t] = KeptFiles[t]
          /\ \A u \in Task : u # t => TrialFiles'[u] = TrialFiles[u] /\ KeptFiles'[u] = KeptFiles[u]
      BY <1>2, <1>4, LedgerAt
    <3> QED  BY <3>1, LedgerChange
  <2>2. Ledger!Land(t)
    BY <1>1, <1>2, <2>1 DEF Ledger!Land, TrialFiles, KeptFiles
  <2> QED  BY <2>2 DEF LedgerStep, Ledger!LedgerNext
<1> QED  BY <1>3, <1>4

LEMMA ThrowMaps ==
  ASSUME OwnerInv, OwnerInv', NEW t \in Task, outcome[t] = "none", outcome'[t] = "failed",
         \A u \in Task : u # t => outcome'[u] = outcome[u],
         merged' = [merged EXCEPT ![t] = {}], stray' = stray \cup merged[t]
  PROVE  LedgerStep
<1>1. TrialFiles[t] = merged[t]  BY LedgerView
<1>2. stray' = stray \cup UNION {TrialFiles[u] : u \in {t}}
  BY <1>1
<1>3. /\ TrialFiles' = [u \in Task |-> IF u \in {t} THEN {} ELSE TrialFiles[u]]
      /\ KeptFiles' = KeptFiles
  <2>1. merged'[t] = {} /\ \A u \in Task : u # t => merged'[u] = merged[u]
    BY DEF OwnerInv, MergeTypeOK
  <2>2. /\ TrialFiles' = [u \in Task |-> TrialFiles'[u]]
        /\ \A u \in Task : TrialFiles'[u] = IF u \in {t} THEN {} ELSE TrialFiles[u]
    BY <2>1, LedgerAt DEF TrialFiles
  <2>3. /\ KeptFiles'[t] = KeptFiles[t]
        /\ \A u \in Task : u # t => TrialFiles'[u] = TrialFiles[u] /\ KeptFiles'[u] = KeptFiles[u]
    BY <2>1, LedgerAt
  <2> QED  BY <2>2, <2>3, LedgerChange
<1>4. Ledger!Strand
  BY <1>2, <1>3 DEF Ledger!Strand, TrialFiles, KeptFiles
<1> QED  BY <1>4 DEF LedgerStep, Ledger!LedgerNext

LEMMA CrashMaps ==
  ASSUME OwnerInv, OwnerInv', Crash
  PROVE  LedgerStep
<1>1. /\ stray' = stray \cup UNION {merged[t] : t \in Task \ Kept}
      /\ \A u \in Task : outcome'[u] = IF u \in Kept THEN "completed" ELSE "none"
      /\ \A u \in Task : merged'[u] = IF u \in Kept THEN merged[u] ELSE {}
  BY DEF Crash, Kept
<1>2. \A u \in Task : TrialFiles[u] = IF u \in Kept THEN {} ELSE merged[u]
  BY LedgerView DEF Kept
<1>3. UNION {merged[t] : t \in Task \ Kept} = UNION {TrialFiles[u] : u \in Task}
  BY <1>2
<1>4. /\ TrialFiles' = [u \in Task |-> IF u \in Task THEN {} ELSE TrialFiles[u]]
      /\ KeptFiles' = KeptFiles
  BY <1>1, LedgerView, LedgerViewNext DEF Kept
<1>5. Ledger!Strand
  BY <1>1, <1>3, <1>4 DEF Ledger!Strand, TrialFiles, KeptFiles
<1> QED  BY <1>5 DEF LedgerStep, Ledger!LedgerNext

LEMMA OthersStay ==
  ASSUME MergeTypeOK, NEW t \in Task, NEW s, NEW o, Moves(t, s, o)
  PROVE  outcome'[t] = o /\ \A u \in Task : u # t => outcome'[u] = outcome[u]
BY DEF Moves, MergeTypeOK

LEMMA StepMaps ==
  ASSUME OwnerInv, OwnerInv', MergeNext
  PROVE  LedgerStep
<1> USE DEF repo, taskVars
<1>t. MergeTypeOK  BY DEF OwnerInv
<1>1. ASSUME NEW t \in Task, Start(t) PROVE LedgerStep
  BY <1>1, SameMaps DEF Start
<1>2. ASSUME NEW t \in Task, Skip(t) PROVE LedgerStep
  <2>1. outcome[t] = "none"  BY <1>2, Unsettled DEF Skip
  <2>2. \A u \in Task : u # t => outcome'[u] = outcome[u]
    BY <1>2, <1>t DEF Skip, MergeTypeOK
  <2> QED  BY <1>2, <2>1, <2>2, QuietMaps DEF Skip
<1>3. ASSUME NEW t \in Task, NEW f \in File, Edit(t, f) PROVE LedgerStep
  BY <1>3, SameMaps DEF Edit
<1>4. ASSUME NEW t \in Task,
             ChildFails(t) \/ ReviewClean(t) \/ (\E o \in Outcomes : GateRefusesShared(t)
                                                    /\ SettleBehind(t, o, Tail(line)))
      PROVE  LedgerStep
  <2>1. outcome[t] = "none"
    BY <1>4, Unsettled DEF ChildFails, ReviewClean, GateRefusesShared
  <2>2. UNCHANGED <<merged, stray>>
    BY <1>4 DEF ChildFails, ReviewClean, GateRefusesShared
  <2>3. PICK s \in Stages, o \in Outcomes : Moves(t, s, o)
    BY <1>4, SettleMoves DEF ChildFails, ReviewClean, GateRefusesShared, Outcomes, Stages
  <2>4. \A u \in Task : u # t => outcome'[u] = outcome[u]
    BY <1>t, <2>3, OthersStay
  <2> QED  BY <2>1, <2>2, <2>4, QuietMaps
<1>5. ASSUME NEW t \in Task, NEW q, RetryBehind(t, q), UNCHANGED <<merged, stray>>,
             stage[t] \notin {"removing", "done"}
      PROVE  LedgerStep
  <2>1. outcome[t] = "none"  BY <1>5, Unsettled
  <2>2. PICK s \in Stages, o \in {"none", "failed"} : Moves(t, s, o)
    BY <1>5, <1>t, <2>1, RetryMoves
  <2>3. \A u \in Task : u # t => outcome'[u] = outcome[u]
    BY <1>t, <2>2, OthersStay
  <2> QED  BY <1>5, <2>1, <2>3, QuietMaps
<1>6. ASSUME NEW t \in Task, ChildDelivers(t) PROVE LedgerStep
  BY <1>6, SameMaps DEF ChildDelivers
<1>7. ASSUME NEW t \in Task, NEW q, AcceptBehind(t, q), UNCHANGED <<merged, stray>>,
             stage[t] \notin {"removing", "done"}
      PROVE  LedgerStep
  <2>1. outcome[t] = "none"  BY <1>7, Unsettled
  <2>2. PICK s \in Stages, o \in Outcomes : Moves(t, s, o)
    BY <1>7, <1>t, <2>1, AcceptMoves
  <2>3. \A u \in Task : u # t => outcome'[u] = outcome[u]
    BY <1>t, <2>2, OthersStay
  <2> QED  BY <1>7, <2>1, <2>3, QuietMaps
<1>8. ASSUME NEW t \in Task, SharedDelivers(t) PROVE LedgerStep
  <2>1. CASE t \in Checked
    BY <1>8, <2>1, SameMaps DEF SharedDelivers
  <2>2. CASE t \notin Checked
    BY <1>8, <1>7, <2>2 DEF SharedDelivers
  <2> QED  BY <2>1, <2>2
<1>9. ASSUME NEW t \in Task, GateWithdraws(t) \/ Revert(t) PROVE LedgerStep
  <2>1. outcome[t] = "none"  BY <1>9, Unsettled DEF GateWithdraws, Revert
  <2>2. PICK s \in Stages, o \in {"none", "failed"} : Moves(t, s, o)
    BY <1>9, <1>t, <2>1, RetryMoves DEF GateWithdraws, Revert
  <2>3. outcome'[t] # "completed" /\ \A u \in Task : u # t => outcome'[u] = outcome[u]
    BY <1>t, <2>2, OthersStay
  <2> QED  BY <1>9, <2>1, <2>3, RestoreMaps DEF GateWithdraws, Revert
<1>10. ASSUME NEW t \in Task, MergeApplies(t) PROVE LedgerStep
  <2>1. outcome[t] = "none" /\ merged[t] = {}
    BY <1>10, Unsettled DEF MergeApplies
  <2>2. \A u \in Task : u # t => outcome'[u] = outcome[u]
    <3>1. CASE t \in Checked  BY <1>10, <3>1 DEF MergeApplies
    <3>2. CASE t \notin Checked
      <4>1. PICK s \in Stages, o \in Outcomes : Moves(t, s, o)
        BY <1>10, <1>t, <2>1, <3>2, AcceptMoves DEF MergeApplies
      <4> QED  BY <1>t, <4>1, OthersStay
    <3> QED  BY <3>1, <3>2
  <2> QED  BY <1>10, <2>1, <2>2, MergeMaps DEF MergeApplies
<1>11. ASSUME NEW t \in Task, ReviewDirty(t) PROVE LedgerStep
  <2>1. CASE merged[t] # {}
    BY <1>11, <2>1, SameMaps DEF ReviewDirty
  <2>2. CASE merged[t] = {}
    BY <1>11, <1>5, <2>2 DEF ReviewDirty
  <2> QED  BY <2>1, <2>2
<1>12. ASSUME NEW t \in Task, ReviewThrows(t) PROVE LedgerStep
  <2>1. outcome[t] = "none"  BY <1>12, Unsettled DEF ReviewThrows
  <2>2. PICK s \in {"removing", "done"} : Moves(t, s, "failed")
    BY <1>12, SettleMoves DEF ReviewThrows, Outcomes
  <2>3. outcome'[t] = "failed" /\ \A u \in Task : u # t => outcome'[u] = outcome[u]
    BY <1>t, <2>2, OthersStay
  <2> QED  BY <1>12, <2>1, <2>3, ThrowMaps DEF ReviewThrows
<1>13. ASSUME NEW t \in Task, Remove(t) PROVE LedgerStep
  BY <1>13, SameMaps DEF Remove
<1>14. CASE Interrupt
  BY <1>14, SameMaps DEF Interrupt
<1>15. ASSUME NEW t \in Task, ReportRefused(t) \/ MergeRefused(t) PROVE LedgerStep
  BY <1>15, <1>5 DEF ReportRefused, MergeRefused
<1>16. ASSUME NEW t \in Task, GateGreen(t) PROVE LedgerStep
  BY <1>16, <1>7 DEF GateGreen
<1>17. ASSUME NEW t \in Task, GateRefusesShared(t) PROVE LedgerStep
  BY <1>17, <1>4, <1>5 DEF GateRefusesShared, Outcomes
<1> QED
  BY <1>1, <1>2, <1>3, <1>4, <1>6, <1>8, <1>9, <1>10, <1>11, <1>12, <1>13, <1>14, <1>15,
     <1>16, <1>17, CrashMaps
     DEF MergeNext, Advance, ChildEnds, MergeEnds, GateEnds, ReviewEnds

\* The tasks implement the ledger: files land only where nobody has staged, and
\* what a completed task staged stays staged for it.
THEOREM LedgerImplemented == MergeSpec => ImplementsLedger
<1>1. MergeInit => Ledger!LedgerInit
  BY DEF MergeInit, OnTrial, Ledger!LedgerInit, Ledger!NoFiles
<1>2. OwnerInv /\ OwnerInv' /\ [MergeNext]_mergeVars => [Ledger!LedgerNext]_(Ledger!ledger)
  <2> SUFFICES ASSUME OwnerInv, OwnerInv', [MergeNext]_mergeVars
               PROVE  LedgerStep
    BY DEF LedgerStep, TrialFiles, KeptFiles, Ledger!ledger
  <2>1. CASE UNCHANGED mergeVars
    BY <2>1, SameMaps DEF mergeVars, taskVars
  <2> QED  BY <2>1, StepMaps
<1> QED  BY <1>1, <1>2, OwnersInvariant, PTL DEF MergeSpec, ImplementsLedger, Ledger!LedgerSpec

----------------------------------------------------------------------------
(* What a completed task changed stays whole *)

\* No two tasks produce the same contents of a file.
DistinctWork == \A t, u \in Task : t # u => Wrote[t] \cap Wrote[u] = {}

\* A task whose changes are in the main tree finds them all there; its contents
\* are its own; a task without a worktree has none.
WholeInv ==
  \A t \in Task :
    /\ OnTrial(t) \/ outcome[t] = "completed" =>
         merged[t] \subseteq touched[t] /\ \A f \in touched[t] : index[f] = wrote[t]
    /\ touched[t] # {} => wrote[t] \in Wrote[t]
    /\ t \notin tree /\ stage[t] \notin {"idle", "done"} => touched[t] = {}

\* A task moves on; nothing is staged, and what it stands for was there before.
LEMMA MoveKeepsWhole ==
  ASSUME OwnerInv, WholeInv, NEW t \in Task, NEW s, NEW o, Moves(t, s, o),
         UNCHANGED <<index, tree, touched, wrote>>,
         \A u \in Task : merged'[u] \subseteq merged[u],
         stage[t] \notin {"idle", "done"},
         o = "completed" \/ (t \in tree /\ s \in {"gating", "reviewing", "reverting"})
           => OnTrial(t) \/ (t \notin tree /\ merged[t] = {})
  PROVE  WholeInv'
<1>1. /\ stage'[t] = s /\ outcome'[t] = o
      /\ \A u \in Task : u # t => stage'[u] = stage[u] /\ outcome'[u] = outcome[u]
  BY DEF Moves, OwnerInv, MergeTypeOK
<1> SUFFICES ASSUME NEW u \in Task
             PROVE  /\ OnTrial(u)' \/ outcome'[u] = "completed" =>
                         merged'[u] \subseteq touched[u] /\ \A f \in touched[u] : index[f] = wrote[u]
                    /\ touched[u] # {} => wrote[u] \in Wrote[u]
                    /\ u \notin tree /\ stage'[u] \notin {"idle", "done"} => touched[u] = {}
  BY DEF WholeInv
<1>2. CASE u = t
  BY <1>1, <1>2 DEF WholeInv, OnTrial
<1>3. CASE u # t
  BY <1>1, <1>3 DEF WholeInv, OnTrial
<1> QED  BY <1>2, <1>3

\* A merge overwrites nobody's files: they hold other contents than its own.
LEMMA MergeKeepsWhole ==
  ASSUME DistinctWork, OwnerInv, OwnerInv', WholeInv, NEW t \in Task, MergeApplies(t)
  PROVE  WholeInv'
<1>1. /\ \A u \in Task : u # t => stage'[u] = stage[u] /\ outcome'[u] = outcome[u]
                                  /\ merged'[u] = merged[u]
      /\ merged'[t] = Staging(t) /\ Staging(t) \subseteq touched[t]
      /\ UNCHANGED <<tree, touched, wrote>>
  BY DEF MergeApplies, AcceptBehind, SettleBehind, OwnerInv, MergeTypeOK, Staging
<1>2. /\ \A f \in File : index'[f] = IF f \in touched[t] THEN wrote[t] ELSE index[f]
      /\ t \in tree /\ wrote[t] \in Wrote[t]
      /\ \A f \in touched[t] : index[f] = Base \/ index[f] = wrote[t]
      /\ \A u \in Task : touched[u] \subseteq File
  BY DEF MergeApplies, Mergeable, OwnerInv, Treed, WholeInv, MergeTypeOK
<1> SUFFICES ASSUME NEW u \in Task
             PROVE  /\ OnTrial(u)' \/ outcome'[u] = "completed" =>
                         merged'[u] \subseteq touched[u] /\ \A f \in touched[u] : index'[f] = wrote[u]
                    /\ touched[u] # {} => wrote[u] \in Wrote[u]
                    /\ u \notin tree /\ stage'[u] \notin {"idle", "done"} => touched[u] = {}
  BY <1>1 DEF WholeInv
<1>3. CASE u = t
  BY <1>1, <1>2, <1>3 DEF WholeInv
<1>4. CASE u # t
  <2>1. touched[u] # {} => wrote[u] \in Wrote[u] /\ wrote[u] # wrote[t] /\ wrote[u] # Base
    BY <1>2, <1>4, MergeAssumption DEF WholeInv, DistinctWork
  <2>2. OnTrial(u)' \/ outcome'[u] = "completed" => OnTrial(u) \/ outcome[u] = "completed"
    BY <1>1, <1>4 DEF OnTrial
  <2>3. OnTrial(u) \/ outcome[u] = "completed" =>
          merged[u] \subseteq touched[u] /\ \A f \in touched[u] : index[f] = wrote[u]
    BY DEF WholeInv
  <2>4. OnTrial(u) \/ outcome[u] = "completed" => touched[u] \cap touched[t] = {}
    BY <1>2, <2>1, <2>3
  <2>5. OnTrial(u) \/ outcome[u] = "completed" => \A f \in touched[u] : index'[f] = wrote[u]
    BY <1>2, <2>3, <2>4
  <2> QED  BY <1>1, <1>4, <2>2, <2>3, <2>5 DEF WholeInv
<1> QED  BY <1>3, <1>4

\* A task takes back only what nobody else stands for.
LEMMA RestoreKeepsWhole ==
  ASSUME DistinctWork, OwnerInv, WholeInv, NEW t \in Task, OnTrial(t),
         NEW s, NEW o, Moves(t, s, o), o # "completed",
         s \in {"working", "removing", "done"},
         Restore(merged[t]), merged' = [merged EXCEPT ![t] = {}],
         UNCHANGED <<tree, touched, wrote>>
  PROVE  WholeInv'
<1>1. /\ stage'[t] = s /\ outcome'[t] = o
      /\ \A u \in Task : u # t => stage'[u] = stage[u] /\ outcome'[u] = outcome[u]
                                  /\ merged'[u] = merged[u]
  BY DEF Moves, OwnerInv, MergeTypeOK
<1>2. /\ \A f \in File : index'[f] = IF f \in merged[t] THEN Base ELSE index[f]
      /\ \A u \in Task : touched[u] \subseteq File
  BY DEF Restore, OwnerInv, MergeTypeOK
<1>3. \A f \in merged[t] : index[f] = wrote[t] /\ wrote[t] \in Wrote[t]
  BY DEF WholeInv
<1> SUFFICES ASSUME NEW u \in Task
             PROVE  /\ OnTrial(u)' \/ outcome'[u] = "completed" =>
                         merged'[u] \subseteq touched[u] /\ \A f \in touched[u] : index'[f] = wrote[u]
                    /\ touched[u] # {} => wrote[u] \in Wrote[u]
                    /\ u \notin tree /\ stage'[u] \notin {"idle", "done"} => touched[u] = {}
  BY DEF WholeInv
<1>4. CASE u = t
  BY <1>1, <1>4 DEF WholeInv, OnTrial
<1>5. CASE u # t
  <2>1. OnTrial(u)' \/ outcome'[u] = "completed" => OnTrial(u) \/ outcome[u] = "completed"
    BY <1>1, <1>5 DEF OnTrial
  <2>2. OnTrial(u) \/ outcome[u] = "completed" =>
          merged[u] \subseteq touched[u] /\ \A f \in touched[u] : index[f] = wrote[u]
    BY DEF WholeInv
  <2>3. touched[u] # {} => wrote[u] \in Wrote[u] /\ wrote[u] \notin Wrote[t]
    BY <1>5 DEF WholeInv, DistinctWork
  <2>4. OnTrial(u) \/ outcome[u] = "completed" => \A f \in touched[u] : f \notin merged[t]
    BY <1>3, <2>2, <2>3
  <2>5. OnTrial(u) \/ outcome[u] = "completed" => \A f \in touched[u] : index'[f] = wrote[u]
    BY <1>2, <2>2, <2>4
  <2> QED  BY <1>1, <1>5, <2>1, <2>2, <2>5 DEF WholeInv
<1> QED  BY <1>4, <1>5

LEMMA WholeInductive ==
  ASSUME DistinctWork, OwnerInv, OwnerInv', WholeInv, [MergeNext]_mergeVars
  PROVE  WholeInv'
<1> USE DEF repo, taskVars
<1>t. MergeTypeOK  BY DEF OwnerInv
<1>1. ASSUME NEW t \in Task, Start(t) PROVE WholeInv'
  <2>1. outcome[t] = "none"  BY <1>1, Unsettled DEF Start
  <2>2. /\ stage'[t] = "working" /\ touched'[t] = {}
        /\ \A u \in Task : u # t => /\ stage'[u] = stage[u] /\ touched'[u] = touched[u]
                                    /\ wrote'[u] = wrote[u] /\ (u \in tree' <=> u \in tree)
        /\ UNCHANGED <<index, outcome, merged>>
    BY <1>1, <1>t DEF Start, MergeTypeOK
  <2> QED  BY <2>1, <2>2 DEF WholeInv, OnTrial
<1>2. ASSUME NEW t \in Task, Skip(t) PROVE WholeInv'
  <2>1. /\ stage'[t] = "done" /\ outcome'[t] = "skipped"
        /\ \A u \in Task : u # t => stage'[u] = stage[u] /\ outcome'[u] = outcome[u]
        /\ UNCHANGED <<index, tree, touched, wrote, merged>>
    BY <1>2, <1>t DEF Skip, MergeTypeOK
  <2> QED  BY <2>1 DEF WholeInv, OnTrial
<1>3. ASSUME NEW t \in Task, NEW f \in File, Edit(t, f) PROVE WholeInv'
  BY <1>3 DEF Edit, WholeInv, OnTrial
<1>4. ASSUME NEW t \in Task, ChildFails(t) PROVE WholeInv'
  <2>1. stage[t] = "working" /\ UNCHANGED <<index, tree, touched, wrote, merged>>
    BY <1>4 DEF ChildFails
  <2>2. PICK s \in {"removing", "done"} : Moves(t, s, "failed")
    BY <1>4, SettleMoves DEF ChildFails, Outcomes
  <2> QED  BY <2>1, <2>2, MoveKeepsWhole
<1>5. ASSUME NEW t \in Task, ReportRefused(t) \/ MergeRefused(t) PROVE WholeInv'
  <2>1. /\ stage[t] \in {"working", "merging"} /\ outcome[t] = "none"
        /\ UNCHANGED <<index, tree, touched, wrote, merged>>
    BY <1>5, Unsettled DEF ReportRefused, MergeRefused
  <2>2. PICK s \in {"working", "removing", "done"}, o \in {"none", "failed"} : Moves(t, s, o)
    BY <1>5, <1>t, <2>1, RetryQuits DEF ReportRefused, MergeRefused
  <2> QED  BY <2>1, <2>2, MoveKeepsWhole
<1>6. ASSUME NEW t \in Task, ChildDelivers(t) PROVE WholeInv'
  <2>1. outcome[t] = "none"  BY <1>6, Unsettled DEF ChildDelivers
  <2>2. /\ stage'[t] = "merging" /\ wrote'[t] \in Wrote[t] /\ t \in tree
        /\ \A u \in Task : u # t => /\ stage'[u] = stage[u] /\ touched'[u] = touched[u]
                                    /\ wrote'[u] = wrote[u]
        /\ UNCHANGED <<index, tree, outcome, merged>>
    BY <1>6, <1>t DEF ChildDelivers, MergeTypeOK
  <2> QED  BY <2>1, <2>2 DEF WholeInv, OnTrial
<1>7. ASSUME NEW t \in Task, SharedDelivers(t) PROVE WholeInv'
  <2>1. /\ outcome[t] = "none" /\ merged[t] = {} /\ t \notin tree /\ stage[t] = "working"
        /\ UNCHANGED <<index, tree, touched, wrote, merged>>
    BY <1>7, Unsettled DEF SharedDelivers
  <2>2. \E s \in Stages, o \in Outcomes : Moves(t, s, o)
    <3>1. CASE t \in Checked
      BY <1>7, <1>t, <2>1, <3>1, SameOutcome DEF SharedDelivers, Stages, Outcomes
    <3>2. CASE t \notin Checked
      BY <1>7, <1>t, <2>1, <3>2, AcceptMoves DEF SharedDelivers
    <3> QED  BY <3>1, <3>2
  <2> QED  BY <2>1, <2>2, MoveKeepsWhole
<1>8. ASSUME NEW t \in Task, GateGreen(t) PROVE WholeInv'
  <2>1. /\ outcome[t] = "none" /\ stage[t] = "gating"
        /\ OnTrial(t) \/ (t \notin tree /\ merged[t] = {})
        /\ UNCHANGED <<index, tree, touched, wrote, merged>>
    BY <1>8, Unsettled DEF GateGreen, OnTrial
  <2>2. PICK s \in Stages, o \in Outcomes : Moves(t, s, o)
    BY <1>8, <1>t, <2>1, AcceptMoves DEF GateGreen
  <2> QED  BY <2>1, <2>2, MoveKeepsWhole
<1>9. ASSUME NEW t \in Task, GateWithdraws(t) \/ Revert(t) PROVE WholeInv'
  <2>1. outcome[t] = "none" /\ OnTrial(t)
    BY <1>9, Unsettled DEF GateWithdraws, Revert, OnTrial, OwnerInv, Treed
  <2>2. PICK s \in {"working", "removing", "done"}, o \in {"none", "failed"} : Moves(t, s, o)
    BY <1>9, <1>t, <2>1, RetryQuits DEF GateWithdraws, Revert
  <2>3. /\ Restore(merged[t]) /\ merged' = [merged EXCEPT ![t] = {}]
        /\ UNCHANGED <<tree, touched, wrote>>
    BY <1>9 DEF GateWithdraws, Revert
  <2> QED  BY <2>1, <2>2, <2>3, RestoreKeepsWhole
<1>10. ASSUME NEW t \in Task, GateRefusesShared(t) PROVE WholeInv'
  <2>1. /\ outcome[t] = "none" /\ stage[t] = "gating" /\ t \notin tree
        /\ UNCHANGED <<index, tree, touched, wrote, merged>>
    BY <1>10, Unsettled DEF GateRefusesShared
  <2>2. \E s \in {"working", "removing", "done"}, o \in {"none", "failed"} : Moves(t, s, o)
    BY <1>10, <1>t, <2>1, RetryQuits, SettleMoves DEF GateRefusesShared, Outcomes
  <2> QED  BY <2>1, <2>2, MoveKeepsWhole
<1>11. ASSUME NEW t \in Task, ReviewClean(t) PROVE WholeInv'
  <2>1. /\ stage[t] = "reviewing"
        /\ OnTrial(t) \/ (t \notin tree /\ merged[t] = {})
        /\ UNCHANGED <<index, tree, touched, wrote, merged>>
    BY <1>11, Unsettled DEF ReviewClean, OnTrial
  <2>2. PICK s \in {"removing", "done"} : Moves(t, s, "completed")
    BY <1>11, SettleMoves DEF ReviewClean, Outcomes
  <2> QED  BY <2>1, <2>2, MoveKeepsWhole
<1>12. ASSUME NEW t \in Task, ReviewDirty(t) PROVE WholeInv'
  <2>1. /\ outcome[t] = "none" /\ stage[t] = "reviewing"
        /\ OnTrial(t) \/ (t \notin tree /\ merged[t] = {})
        /\ UNCHANGED <<index, tree, touched, wrote, merged>>
    BY <1>12, Unsettled DEF ReviewDirty, OnTrial
  <2>2. \E s \in Stages, o \in {"none", "failed"} : Moves(t, s, o)
    <3>1. CASE merged[t] # {}
      BY <1>12, <1>t, <2>1, <3>1, SameOutcome DEF ReviewDirty, Stages
    <3>2. CASE merged[t] = {}
      BY <1>12, <1>t, <2>1, <3>2, RetryMoves DEF ReviewDirty
    <3> QED  BY <3>1, <3>2
  <2> QED  BY <2>1, <2>2, MoveKeepsWhole
<1>13. ASSUME NEW t \in Task, ReviewThrows(t) PROVE WholeInv'
  <2>1. /\ stage[t] = "reviewing" /\ merged' = [merged EXCEPT ![t] = {}]
        /\ UNCHANGED <<index, tree, touched, wrote>>
    BY <1>13 DEF ReviewThrows
  <2>2. PICK s \in {"removing", "done"} : Moves(t, s, "failed")
    BY <1>13, SettleMoves DEF ReviewThrows, Outcomes
  <2>3. \A u \in Task : merged'[u] \subseteq merged[u]
    BY <1>t, <2>1 DEF MergeTypeOK
  <2> QED  BY <2>1, <2>2, <2>3, MoveKeepsWhole
<1>14. ASSUME NEW t \in Task, Remove(t) PROVE WholeInv'
  <2>1. /\ stage'[t] = "done"
        /\ \A u \in Task : u # t => stage'[u] = stage[u] /\ (u \in tree' <=> u \in tree)
        /\ UNCHANGED <<index, outcome, touched, wrote, merged>>
    BY <1>14, <1>t DEF Remove, MergeTypeOK
  <2> QED  BY <2>1 DEF WholeInv, OnTrial
<1>15. CASE Crash
  <2>1. /\ \A u \in Task : u \in Kept => stage'[u] = "done" /\ outcome[u] = "completed"
                                         /\ merged'[u] = merged[u]
        /\ \A u \in Task : u \notin Kept => stage'[u] = "idle" /\ outcome'[u] = "none"
        /\ UNCHANGED <<index, tree, touched, wrote>>
    BY <1>15 DEF Crash, Kept
  <2> QED  BY <2>1 DEF WholeInv, OnTrial
<1>16. CASE Interrupt \/ UNCHANGED mergeVars
  <2>1. UNCHANGED <<index, tree, taskVars>>  BY <1>16 DEF Interrupt, mergeVars
  <2> QED  BY <2>1 DEF WholeInv, OnTrial
<1> QED
  BY <1>1, <1>2, <1>3, <1>4, <1>5, <1>6, <1>7, <1>8, <1>9, <1>10, <1>11, <1>12,
     <1>13, <1>14, <1>15, <1>16, MergeKeepsWhole
     DEF MergeNext, Advance, ChildEnds, MergeEnds, GateEnds, ReviewEnds

\* Where tasks do not produce the same contents, what one of them delivered is
\* never undone, neither by another's merge nor by another's restore.
THEOREM CompletedIsWholeHolds == DistinctWork => (MergeSpec => []CompletedIsWhole)
<1> SUFFICES ASSUME DistinctWork PROVE MergeSpec => []CompletedIsWhole
  OBVIOUS
<1>1. MergeInit => WholeInv
  BY DEF MergeInit, WholeInv, OnTrial
<1>2. OwnerInv /\ OwnerInv' /\ WholeInv /\ [MergeNext]_mergeVars => WholeInv'
  BY WholeInductive
<1>3. WholeInv => CompletedIsWhole
  BY DEF WholeInv, CompletedIsWhole
<1> QED  BY <1>1, <1>2, <1>3, OwnersInvariant, PTL DEF MergeSpec
=============================================================================
