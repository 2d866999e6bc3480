-------------------------- MODULE ControllerProofs --------------------------
(***************************************************************************)
(* Theorems about RemediationController, for any number of processes in    *)
(* any modes, any types, any MaxIncidents, MAX_ATTEMPTS and fault budget.  *)
(***************************************************************************)
EXTENDS ControllerProperties, SequenceTheorems, TLAPS

USE DEF Ids

\* Every plan the planner makes is a sequence of allowlisted tools, and has at
\* least one step.
LEMMA PlanForType ==
  ASSUME NEW t, NEW n \in Nat
  PROVE  PlanFor(t, n) \in Seq(Tools) /\ PlanFor(t, n) # <<>>
PROOF
<1>1. NginxConfigErrorPlan \in Seq(Tools) /\ Len(NginxConfigErrorPlan) = 5
  BY DEF NginxConfigErrorPlan, Tools
<1>2. AppCrashLoopPlan \in Seq(Tools) /\ Len(AppCrashLoopPlan) = 3
  BY DEF AppCrashLoopPlan, Tools
<1>3. BasePlan(t) \in Seq(Tools) /\ Len(BasePlan(t)) > 0
  BY <1>1, <1>2 DEF BasePlan
<1>4. << "noop" >> \in Seq(Tools) /\ Len(<< "noop" >>) = 1
  BY DEF Tools
<1>5. << "noop" >> \o BasePlan(t) \in Seq(Tools)
      /\ Len(<< "noop" >> \o BasePlan(t)) = 1 + Len(BasePlan(t))
  BY <1>3, <1>4, ConcatProperties
<1>6. PlanFor(t, n) \in Seq(Tools) /\ Len(PlanFor(t, n)) > 0
  BY <1>3, <1>5, LenProperties DEF PlanFor
<1>7. QED
  BY <1>6

-----------------------------------------------------------------------------
(* Types                                                                   *)

\* The reasons one by one.
LEMMA ErrorKinds ==
  Errors = { "none", "evidence", "step_failed", "verification_failed",
             "max_attempts_exhausted", "planning_failed", "missing_plan",
             "agent_restarted_while_in_progress" }
BY DEF Errors, EscalationReasons, FailureReasons, RecoveryReasons

\* transition_incident keeps the types of the store.
LEMMA TransitionType ==
  ASSUME StoreTypeOK, NEW i \in Ids, Exists(i), NEW to \in Statuses, NEW n \in Nat,
         NEW e \in Errors, TransitionIncident(i, to, n, e)
  PROVE  StoreTypeOK'
BY DEF StoreTypeOK, TransitionIncident, Exists, Rows

\* So does mark_in_progress_needs_human,
LEMMA MarkType ==
  ASSUME StoreTypeOK, MarkInProgressNeedsHuman
  PROVE  StoreTypeOK'
<1>1. ASSUME NEW row \in Rows
      PROVE  NeedsHuman(row) \in Rows
  BY <1>1, ErrorKinds DEF NeedsHuman, Rows, Statuses
<1>2. QED
  BY <1>1 DEF StoreTypeOK, MarkInProgressNeedsHuman, HasStatus, Exists

\* create_incidents_from_candidates,
LEMMA CreateType ==
  ASSUME StoreTypeOK, NEW c \in SUBSET Types, CreateIncidents(c)
  PROVE  StoreTypeOK'
BY ErrorKinds DEF StoreTypeOK, CreateIncidents, NewRow, Rows, Statuses

\* insert_plan,
LEMMA InsertPlanType ==
  ASSUME StoreTypeOK, NEW i \in Ids, NEW plan \in Seq(Tools), InsertPlan(i, plan)
  PROVE  StoreTypeOK'
<1>1. Append(plans[i], plan) \in Seq(Seq(Tools))
  BY AppendProperties DEF StoreTypeOK
<1>2. QED
  BY <1>1 DEF StoreTypeOK, InsertPlan

\* insert_action,
LEMMA InsertActionType ==
  ASSUME StoreTypeOK, NEW i \in Ids, NEW plan \in Nat, NEW step \in Nat,
         InsertAction(i, plan, step)
  PROVE  StoreTypeOK'
<1>1. [plan |-> plan, step |-> step, status |-> "STARTED"] \in Actions
  BY DEF Actions
<1>2. Append(actions[i], [plan |-> plan, step |-> step, status |-> "STARTED"]) \in Seq(Actions)
  BY <1>1, AppendProperties DEF StoreTypeOK
<1>3. QED
  BY <1>2 DEF StoreTypeOK, InsertAction

\* and update_action_execution.
LEMMA UpdateActionType ==
  ASSUME StoreTypeOK, NEW i \in Ids, NEW row \in Nat, NEW status \in {"SUCCEEDED", "FAILED"},
         UpdateAction(i, row, status)
  PROVE  StoreTypeOK'
<1>1. actions[i] \in Seq(Actions)
  BY DEF StoreTypeOK
<1>2. [actions[i] EXCEPT ![row].status = status] \in Seq(Actions)
  <2>1. CASE row \in DOMAIN actions[i]
    <3>1. row \in 1 .. Len(actions[i])
      BY <1>1, <2>1, LenProperties
    <3>2. actions[i][row] \in Actions
      BY <1>1, <3>1, ElementOfSeq
    <3>3. [actions[i][row] EXCEPT !.status = status] \in Actions
      BY <3>2 DEF Actions
    <3>4. QED
      BY <1>1, <3>1, <3>3, ExceptSeq
  <2>2. CASE row \notin DOMAIN actions[i]
    <3>1. [actions[i] EXCEPT ![row].status = status] = actions[i]
      BY <1>1, <2>2
    <3>2. QED
      BY <1>1, <3>1
  <2>3. QED
    BY <2>1, <2>2
<1>3. QED
  BY <1>2 DEF StoreTypeOK, UpdateAction

\* A step that leaves the store alone keeps its types.
LEMMA StoreStutterType ==
  ASSUME StoreTypeOK, UNCHANGED storeVars
  PROVE  StoreTypeOK'
BY DEF StoreTypeOK, storeVars

\* A worker has somewhere to go at the end of a pass.
LEMMA PassEndType ==
  \A p : PassEnd(p) \in Pcs
BY DEF PassEnd, Pcs

\* The variables of TypeOK that are not the store's.
LocalTypeOK ==
  /\ pc \in [Procs -> Pcs]
  /\ api \in [Procs -> {"off", "starting", "serving", "stopping"}]
  /\ cands \in [Procs -> SUBSET Types]
  /\ queue \in [Procs -> SUBSET Snapshots]
  /\ cur \in [Procs -> Snapshots \cup {NoIncident}]
  /\ job \in [Procs -> Jobs]
  /\ faults \in Nat

\* What get_incident returns of a row that exists is a record.
LEMMA SnapshotType ==
  ASSUME StoreTypeOK, NEW i \in Ids, Exists(i)
  PROVE  Snapshot(i) \in Snapshots
<1>1. incidents[i] \in Rows
  BY DEF StoreTypeOK, Exists
<1>2. QED
  BY <1>1 DEF Snapshot, Snapshots, Rows

\* A worker that lets go of all it holds keeps the types,
LEMMA DropLocalsType ==
  ASSUME LocalTypeOK, NEW p \in Procs, DropLocals(p),
         pc' \in [Procs -> Pcs], UNCHANGED api, faults' \in Nat
  PROVE  LocalTypeOK'
BY DEF LocalTypeOK, DropLocals, NoJob, Jobs

\* and so does one whose pass fails,
LEMMA AbortPassType ==
  ASSUME LocalTypeOK, NEW p \in Procs, AbortPass(p), UNCHANGED <<api, faults>>
  PROVE  LocalTypeOK'
<1>1. pc' \in [Procs -> Pcs]
  BY PassEndType DEF LocalTypeOK, AbortPass, Goto
<1>2. QED
  BY <1>1, DropLocalsType DEF AbortPass, LocalTypeOK

\* or that turns to the next incident.
LEMMA NextIncidentType ==
  ASSUME LocalTypeOK, NEW p \in Procs, NextIncident(p), UNCHANGED <<api, faults>>
  PROVE  LocalTypeOK'
BY DEF LocalTypeOK, NextIncident, Goto, NoJob, Jobs, Pcs

\* A step that moves one worker and leaves its records alone.
LEMMA GotoType ==
  ASSUME LocalTypeOK, NEW p \in Procs, NEW next \in Pcs, Goto(p, next),
         UNCHANGED <<api, locals, faults>>
  PROVE  LocalTypeOK'
BY DEF LocalTypeOK, Goto, locals

\* The worker holds a record of a row that exists, wherever it uses one.
LEMMA HeldExists ==
  ASSUME TypeOK, HeldRecords, NEW p \in Procs, pc[p] \in HoldingPcs
  PROVE  /\ cur[p] \in Snapshots
         /\ cur[p].id \in Ids
         /\ Exists(cur[p].id)
         /\ incidents[cur[p].id] \in Rows
BY DEF HeldRecords, Held, OnceRead, Snapshots, TypeOK, StoreTypeOK, Exists

\* Each call of transition_incident by a worker keeps the types, won or lost.
LEMMA WriteType ==
  ASSUME TypeOK, HeldRecords, NEW p \in Procs, pc[p] \in HoldingPcs,
         NEW from, NEW to \in Statuses, NEW n \in Nat, NEW e \in Errors, NEW next \in Pcs,
         Write(p, from, to, n, e, next)
  PROVE  TypeOK'
<1>1. StoreTypeOK /\ LocalTypeOK
  BY DEF TypeOK, LocalTypeOK
<1>2. StoreTypeOK'
  BY <1>1, HeldExists, TransitionType DEF Write
<1>3. LocalTypeOK'
  BY <1>1, GotoType DEF Write
<1>4. QED
  BY <1>2, <1>3 DEF TypeOK, LocalTypeOK

\* A step of the processes that does not touch the store.
LEMMA StutterType ==
  ASSUME TypeOK, UNCHANGED storeVars, LocalTypeOK'
  PROVE  TypeOK'
BY StoreStutterType DEF TypeOK, LocalTypeOK

\* Every step keeps the types, given that workers hold records of rows that
\* exist.
LEMMA TypeStep ==
  ASSUME TypeOK, HeldRecords, [Next]_vars
  PROVE  TypeOK'
<1>0. StoreTypeOK /\ LocalTypeOK
  BY DEF TypeOK, LocalTypeOK
<1>1. ASSUME NEW p \in Procs, Start(p) PROVE TypeOK'
  BY <1>0, <1>1, StutterType DEF Start, LocalTypeOK, Goto, locals, Pcs, StorePcs, ExecutingPcs, ReadBackPcs
<1>2. ASSUME NEW p \in Procs, Recover(p) PROVE TypeOK'
  <2>1. StoreTypeOK'
    BY <1>0, <1>2, MarkType DEF Recover
  <2>2. LocalTypeOK'
    BY <1>0, <1>2 DEF Recover, LocalTypeOK, Goto, locals, Pcs, StorePcs, ExecutingPcs, ReadBackPcs
  <2>3. QED
    BY <2>1, <2>2 DEF TypeOK, LocalTypeOK
<1>3. ASSUME NEW p \in Procs, LifespanRecover(p) PROVE TypeOK'
  <2>1. StoreTypeOK'
    BY <1>0, <1>3, MarkType DEF LifespanRecover
  <2>2. LocalTypeOK'
    BY <1>0, <1>3 DEF LifespanRecover, LocalTypeOK, locals
  <2>3. QED
    BY <2>1, <2>2 DEF TypeOK, LocalTypeOK
<1>4. ASSUME NEW p \in Procs, StopWorker(p) PROVE TypeOK'
  BY <1>0, <1>4, StutterType DEF StopWorker, LocalTypeOK, Goto, locals, Pcs, StorePcs, ExecutingPcs, ReadBackPcs
<1>5. ASSUME NEW p \in Procs, Exit(p) PROVE TypeOK'
  BY <1>0, <1>5, StutterType DEF Exit, LocalTypeOK, Goto, locals, Pcs, StorePcs, ExecutingPcs, ReadBackPcs, DropLocals, NoJob, Jobs
<1>6. ASSUME NEW p \in Procs, Poll(p) PROVE TypeOK'
  BY <1>0, <1>6, StutterType DEF Poll, LocalTypeOK, Goto, locals, Pcs, StorePcs, ExecutingPcs, ReadBackPcs
<1>7. ASSUME NEW p \in Procs, Observe(p) PROVE TypeOK'
  BY <1>0, <1>7, StutterType DEF Observe, LocalTypeOK, Goto, locals, Pcs, StorePcs, ExecutingPcs, ReadBackPcs
<1>8. ASSUME NEW p \in Procs, ObserveFails(p) PROVE TypeOK'
  BY <1>0, <1>8, StutterType, AbortPassType DEF ObserveFails
<1>9. ASSUME NEW p \in Procs, EscalateLost(p) PROVE TypeOK'
  BY <1>0, <1>9, StutterType, AbortPassType DEF EscalateLost
<1>10. ASSUME NEW p \in Procs, FinalizeLost(p) PROVE TypeOK'
  BY <1>0, <1>10, StutterType, AbortPassType DEF FinalizeLost
<1>11. ASSUME NEW p \in Procs, Persist(p) PROVE TypeOK'
  <2>1. StoreTypeOK'
    BY <1>0, <1>11, CreateType DEF Persist, LocalTypeOK
  <2>2. LocalTypeOK'
    BY <1>0, <1>11 DEF Persist, LocalTypeOK, Goto, Pcs, StorePcs, ExecutingPcs, ReadBackPcs
  <2>3. QED
    BY <2>1, <2>2 DEF TypeOK, LocalTypeOK
<1>12. ASSUME NEW p \in Procs, List(p) PROVE TypeOK'
  <2>1. IncidentsByStatuses(ActionableStatuses) \subseteq Snapshots
    BY <1>0, SnapshotType DEF IncidentsByStatuses, HasStatus
  <2>2. LocalTypeOK'
    BY <1>0, <2>1, <1>12 DEF List, LocalTypeOK, Goto, Pcs, StorePcs, ExecutingPcs, ReadBackPcs
  <2>3. QED
    BY <2>2, <1>12, StutterType DEF List
<1>13. ASSUME NEW p \in Procs, Take(p) PROVE TypeOK'
  <2>1. PICK s \in queue[p] : Take(p)!2!(s)
    BY <1>13 DEF Take
  <2>2. s \in Snapshots
    BY <1>0 DEF LocalTypeOK
  <2>3. queue' \in [Procs -> SUBSET Snapshots]
    BY <1>0, <2>1 DEF LocalTypeOK
  <2>4. CASE s.status \in {"FAILED", "OPEN", "PLANNED"}
    <3>1. LocalTypeOK'
      BY <1>0, <2>1, <2>2, <2>3, <2>4, <1>13 DEF Take, LocalTypeOK, Goto, Pcs, StorePcs, ExecutingPcs, ReadBackPcs
    <3>2. QED
      BY <3>1, <1>13, StutterType DEF Take
  <2>5. CASE s.status \notin {"FAILED", "OPEN", "PLANNED"}
    <3>1. LocalTypeOK'
      BY <1>0, <2>1, <2>3, <2>5, <1>13 DEF Take, LocalTypeOK
    <3>2. QED
      BY <3>1, <1>13, StutterType DEF Take
  <2>6. QED
    BY <2>4, <2>5
<1>14. ASSUME NEW p \in Procs, EndPass(p) PROVE TypeOK'
  BY <1>0, <1>14, StutterType, PassEndType, GotoType DEF EndPass
<1>15. ASSUME NEW p \in Procs, ReadBack(p) PROVE TypeOK'
  <2> DEFINE row  == Snapshot(cur[p].id)
             next == Resume(p, row.status)
  <2>1. pc[p] \in HoldingPcs
    BY <1>15 DEF ReadBack, HoldingPcs
  <2>2. row \in Snapshots
    BY <1>0, <2>1, HeldExists, SnapshotType
  <2>3. CASE next = "next"
    BY <1>0, <2>3, <1>15, StutterType, NextIncidentType DEF ReadBack
  <2>4. CASE next # "next"
    <3>1. next \in Pcs
      BY DEF Resume, Pcs, StorePcs, ExecutingPcs, ReadBackPcs
    <3>2. /\ Goto(p, next)
          /\ cur' = [cur EXCEPT ![p] = row]
          /\ job' = IF next = "record"
                     THEN [job EXCEPT ![p].claim = row.version]
                     ELSE job
          /\ UNCHANGED <<storeVars, api, cands, queue, faults>>
      BY <2>4, <1>15 DEF ReadBack
    <3>3. job' \in [Procs -> Jobs]
      BY <1>0, <2>2, <3>2 DEF LocalTypeOK, Jobs, Snapshots
    <3>4. LocalTypeOK'
      BY <1>0, <2>2, <3>1, <3>2, <3>3 DEF LocalTypeOK, Goto
    <3>5. QED
      BY <3>2, <3>4, StutterType
  <2>5. QED
    BY <2>3, <2>4
<1>16. ASSUME NEW p \in Procs, Escalate(p) PROVE TypeOK'
  <2>1. pc[p] \in HoldingPcs
    BY <1>16 DEF Escalate, EscalationReason, HoldingPcs
  <2>2. EscalationReason(p) \in Errors
    BY ErrorKinds DEF EscalationReason
  <2>3. QED
    BY <2>1, <2>2, <1>16, WriteType DEF Escalate, Statuses, Pcs, StorePcs, ExecutingPcs, ReadBackPcs
<1>17. ASSUME NEW p \in Procs, SkipBackoff(p) PROVE TypeOK'
  BY <1>0, <1>17, StutterType, NextIncidentType DEF SkipBackoff
<1>18. ASSUME NEW p \in Procs, RequeueLost(p) PROVE TypeOK'
  BY <1>0, <1>18, StutterType, NextIncidentType DEF RequeueLost
<1>19. ASSUME NEW p \in Procs, CommitPlanLost(p) PROVE TypeOK'
  BY <1>0, <1>19, StutterType, NextIncidentType DEF CommitPlanLost
<1>20. ASSUME NEW p \in Procs, Requeue(p) PROVE TypeOK'
  BY <1>20, WriteType, ErrorKinds DEF Requeue, BackoffOver, HoldingPcs, Statuses, Pcs, StorePcs, ExecutingPcs, ReadBackPcs
<1>21. ASSUME NEW p \in Procs, CommitPlan(p) PROVE TypeOK'
  BY <1>21, WriteType, ErrorKinds DEF CommitPlan, HoldingPcs, Statuses, Pcs, StorePcs, ExecutingPcs, ReadBackPcs
<1>22. ASSUME NEW p \in Procs, Claim(p) PROVE TypeOK'
  BY <1>22, WriteType, ErrorKinds DEF Claim, HoldingPcs, Statuses, Pcs, StorePcs, ExecutingPcs, ReadBackPcs
<1>23. ASSUME NEW p \in Procs, CreatePlan(p) PROVE TypeOK'
  <2>1. pc[p] \in HoldingPcs
    BY <1>23 DEF CreatePlan, HoldingPcs
  <2>2. PlanFor(incidents[cur[p].id].type, cur[p].attempt_count) \in Seq(Tools)
    BY <2>1, HeldExists, PlanForType DEF Snapshots
  <2>3. StoreTypeOK'
    BY <1>0, <2>1, <2>2, <1>23, HeldExists, InsertPlanType DEF CreatePlan
  <2>4. LocalTypeOK'
    BY <1>0, <1>23, GotoType DEF CreatePlan, Pcs, StorePcs, ExecutingPcs, ReadBackPcs
  <2>5. QED
    BY <2>3, <2>4 DEF TypeOK, LocalTypeOK
<1>24. ASSUME NEW p \in Procs, FetchPlan(p) PROVE TypeOK'
  <2>1. cur[p].id \in Ids
    BY <1>24, HeldExists DEF FetchPlan, HoldingPcs
  <2>2. LatestPlan(cur[p].id) \in Nat
    BY <1>0, <2>1, LenProperties DEF StoreTypeOK, LatestPlan
  <2>3. LocalTypeOK'
    BY <1>0, <2>2, <1>24 DEF FetchPlan, LocalTypeOK, Goto, Jobs, Pcs, StorePcs, ExecutingPcs, ReadBackPcs
  <2>4. QED
    BY <2>3, <1>24, StutterType DEF FetchPlan
<1>25. ASSUME NEW p \in Procs, ClaimLost(p) PROVE TypeOK'
  BY <1>0, <1>25, StutterType, GotoType DEF ClaimLost, Pcs, StorePcs, ExecutingPcs, ReadBackPcs
<1>26. ASSUME NEW p \in Procs, RecordStarted(p) PROVE TypeOK'
  <2>1. cur[p].id \in Ids
    BY <1>26, HeldExists DEF RecordStarted, HoldingPcs, ExecutingPcs
  <2>2. job[p] \in Jobs
    BY <1>0 DEF LocalTypeOK
  <2>3. StoreTypeOK'
    BY <1>0, <2>1, <2>2, <1>26, InsertActionType DEF RecordStarted, Jobs
  <2>4. Len(actions[cur[p].id]) + 1 \in Nat
    BY <1>0, <2>1, LenProperties DEF StoreTypeOK
  <2>5. LocalTypeOK'
    BY <1>0, <2>4, <1>26 DEF RecordStarted, LocalTypeOK, Goto, Jobs, Pcs, StorePcs, ExecutingPcs, ReadBackPcs
  <2>6. QED
    BY <2>3, <2>5 DEF TypeOK, LocalTypeOK
<1>27. ASSUME NEW p \in Procs, RunTool(p) PROVE TypeOK'
  <2>1. PICK result \in Outcomes(Steps(p)[job[p].step]) : job' = [job EXCEPT ![p].outcome = result]
    BY <1>27 DEF RunTool
  <2>2. result \in {"ok", "step_failed", "verification_failed"}
    BY DEF Outcomes
  <2>3. job' \in [Procs -> Jobs]
    BY <1>0, <2>1, <2>2 DEF LocalTypeOK, Jobs
  <2>4. LocalTypeOK'
    BY <1>0, <2>3, <1>27 DEF RunTool, LocalTypeOK, Goto, Pcs, StorePcs, ExecutingPcs, ReadBackPcs
  <2>5. QED
    BY <2>4, <1>27, StutterType DEF RunTool
<1>28. ASSUME NEW p \in Procs, FinishAction(p) PROVE TypeOK'
  <2>1. cur[p].id \in Ids
    BY <1>28, HeldExists DEF FinishAction, HoldingPcs, ExecutingPcs
  <2>2. job[p] \in Jobs
    BY <1>0 DEF LocalTypeOK
  <2>3. StoreTypeOK'
    BY <1>0, <2>1, <2>2, <1>28, UpdateActionType DEF FinishAction, Jobs
  <2>4. job' \in [Procs -> Jobs]
    BY <1>0, <2>2, <1>28 DEF FinishAction, LocalTypeOK, Jobs
  <2>5. LocalTypeOK'
    BY <1>0, <2>4, <1>28 DEF FinishAction, LocalTypeOK, Goto, Pcs, StorePcs, ExecutingPcs, ReadBackPcs
  <2>6. QED
    BY <2>3, <2>5 DEF TypeOK, LocalTypeOK
<1>29. ASSUME NEW p \in Procs, ReadCurrent(p) PROVE TypeOK'
  <2>1. Snapshot(cur[p].id) \in Snapshots
    BY <1>0, <1>29, HeldExists, SnapshotType DEF ReadCurrent, HoldingPcs, ExecutingPcs
  <2>2. LocalTypeOK'
    BY <1>0, <2>1, <1>29 DEF ReadCurrent, LocalTypeOK, Goto, Pcs, StorePcs, ExecutingPcs, ReadBackPcs
  <2>3. QED
    BY <2>2, <1>29, StutterType DEF ReadCurrent
<1>30. ASSUME NEW p \in Procs, Finalize(p) PROVE TypeOK'
  <2>1. FinalStatus(p) \in Statuses
    BY DEF FinalStatus, Statuses
  <2>2. FinalError(p) \in Errors
    BY <1>0, ErrorKinds DEF FinalError, Succeeded, LocalTypeOK, Jobs
  <2>3. QED
    BY <2>1, <2>2, <1>30, WriteType DEF Finalize, HoldingPcs, Pcs, StorePcs, ExecutingPcs, ReadBackPcs
<1>31. ASSUME NEW p \in Procs, Crash(p) PROVE TypeOK'
  BY <1>0, <1>31, StutterType DEF Crash, LocalTypeOK, Goto, locals, Pcs, StorePcs, ExecutingPcs, ReadBackPcs, DropLocals, NoJob, Jobs, Fault
<1>32. ASSUME NEW p \in Procs, Shutdown(p) PROVE TypeOK'
  BY <1>0, <1>32, StutterType DEF Shutdown, LocalTypeOK, Goto, locals, Pcs, StorePcs, ExecutingPcs, ReadBackPcs, Fault
<1>33. ASSUME NEW p \in Procs, StoreError(p) PROVE TypeOK'
  BY <1>0, <1>33, StutterType, PassEndType DEF StoreError, LocalTypeOK, Goto, DropLocals, NoJob, Jobs, Fault, Pcs, StorePcs, ExecutingPcs, ReadBackPcs
<1>34. ASSUME NEW p \in Procs, LifespanError(p) PROVE TypeOK'
  BY <1>0, <1>34, StutterType DEF LifespanError, LocalTypeOK, Goto, locals, Pcs, StorePcs, ExecutingPcs, ReadBackPcs, Fault
<1>35. CASE Tick
  BY <1>0, <1>35 DEF Tick, TypeOK, StoreTypeOK, LocalTypeOK, locals
<1>36. CASE UNCHANGED vars
  BY <1>0, <1>36 DEF vars, TypeOK, StoreTypeOK
<1>37. QED
  BY <1>1, <1>2, <1>3, <1>4, <1>5, <1>6, <1>7, <1>8, <1>9, <1>10, <1>11, <1>12, <1>13, <1>14, <1>15, <1>16, <1>17, <1>18, <1>19, <1>20, <1>21, <1>22, <1>23, <1>24, <1>25, <1>26, <1>27, <1>28, <1>29, <1>30, <1>31, <1>32, <1>33, <1>34, <1>35, <1>36 DEF Next, WorkerStep

-----------------------------------------------------------------------------
(* What a step may do to the incidents table                               *)

\* A row is not the mark of a missing row.
LEMMA RowExists ==
  \A r \in Rows : r # NoIncident
BY NoIncidentAssumption

\* A row that exists is a row of the table.
LEMMA RowType ==
  ASSUME StoreTypeOK, NEW i \in Ids, Exists(i)
  PROVE  incidents[i] \in Rows
BY DEF StoreTypeOK, Exists

\* The five calls of transition_incident.
RowWrite(p) ==
  \/ Escalate(p) \/ Requeue(p) \/ CommitPlan(p) \/ Claim(p) \/ Finalize(p)

\* The table changes only by start-up recovery, by new candidates and by
\* transition_incident.
LEMMA IncidentsEffect ==
  ASSUME [Next]_vars
  PROVE  \/ UNCHANGED incidents
         \/ MarkInProgressNeedsHuman
         \/ \E p \in Procs : Persist(p) \/ RowWrite(p)
BY DEF Next, WorkerStep, vars, storeVars, RowWrite, Start, Recover, LifespanRecover, StopWorker,
       Exit, Poll, Observe, ObserveFails, List, Take, EndPass, ReadBack, EscalateLost, SkipBackoff,
       RequeueLost, CreatePlan, InsertPlan, CommitPlanLost, FetchPlan, ClaimLost, RecordStarted,
       InsertAction, RunTool, FinishAction, UpdateAction, ReadCurrent, FinalizeLost, Crash,
       Shutdown, StoreError, LifespanError, Tick

\* A row stays, keeps its type, and every change of it raises its version.
RowGrows(i) ==
  /\ Exists(i)'
  /\ incidents'[i].type = incidents[i].type
  /\ incidents'[i] = incidents[i] \/ incidents'[i].version > incidents[i].version

\* transition_incident raises the version of the row it changes.
LEMMA TransitionGrows ==
  ASSUME StoreTypeOK, NEW j \in Ids, Exists(j), NEW to \in Statuses, NEW n \in Nat,
         NEW e \in Errors, TransitionIncident(j, to, n, e), NEW i \in Ids, Exists(i)
  PROVE  RowGrows(i)
<1>1. incidents[i] \in Rows /\ incidents[j] \in Rows
  BY RowType
<1>2. StoreTypeOK'
  BY TransitionType
<1>3. incidents'[j].version = incidents[j].version + 1 /\ incidents'[j].type = incidents[j].type
      /\ incidents'[j] \in Rows
  BY <1>1, <1>2 DEF TransitionIncident, StoreTypeOK, Rows
<1>4. i # j => incidents'[i] = incidents[i]
  BY DEF TransitionIncident, StoreTypeOK
<1>5. QED
  BY <1>1, <1>3, <1>4, RowExists DEF RowGrows, Exists, Rows

\* mark_in_progress_needs_human raises the version of every row it changes.
LEMMA MarkGrows ==
  ASSUME StoreTypeOK, MarkInProgressNeedsHuman, NEW i \in Ids, Exists(i)
  PROVE  RowGrows(i)
<1>1. incidents[i] \in Rows
  BY RowType
<1>2. NeedsHuman(incidents[i]) \in Rows
  BY <1>1, ErrorKinds DEF NeedsHuman, Rows, Statuses
<1>3. CASE HasStatus(i, {"IN_PROGRESS"})
  <2>1. incidents'[i] = NeedsHuman(incidents[i])
    BY <1>3 DEF MarkInProgressNeedsHuman
  <2>2. QED
    BY <1>1, <1>2, <2>1, RowExists DEF RowGrows, Exists, NeedsHuman, Rows
<1>4. CASE ~ HasStatus(i, {"IN_PROGRESS"})
  BY <1>4 DEF MarkInProgressNeedsHuman, RowGrows, Exists
<1>5. QED
  BY <1>3, <1>4

\* New candidates change no row that exists.
LEMMA CreateGrows ==
  ASSUME StoreTypeOK, NEW c, CreateIncidents(c), NEW i \in Ids, Exists(i)
  PROVE  RowGrows(i)
BY DEF CreateIncidents, RowGrows, Exists

\* What each of the five writes is, as one call of Write.
LEMMA RowWriteIsWrite ==
  ASSUME TypeOK, HeldRecords, NEW p \in Procs, RowWrite(p)
  PROVE  /\ pc[p] \in HoldingPcs
         /\ \E to \in Statuses, n \in {0, 1}, e \in Errors :
              TransitionIncident(cur[p].id, to, n, e)
<1>1. CASE Escalate(p)
  <2>1. pc[p] \in HoldingPcs
    BY <1>1 DEF Escalate, EscalationReason, HoldingPcs
  <2>2. EscalationReason(p) \in Errors /\ "NEEDS_HUMAN" \in Statuses
    BY ErrorKinds DEF EscalationReason, Statuses
  <2>3. QED
    BY <1>1, <2>1, <2>2 DEF Escalate, Write
<1>2. CASE Requeue(p)
  BY <1>2, ErrorKinds DEF Requeue, BackoffOver, Write, HoldingPcs, Statuses
<1>3. CASE CommitPlan(p)
  BY <1>3, ErrorKinds DEF CommitPlan, Write, HoldingPcs, Statuses
<1>4. CASE Claim(p)
  BY <1>4, ErrorKinds DEF Claim, Write, HoldingPcs, Statuses
<1>5. CASE Finalize(p)
  <2>1. FinalStatus(p) \in Statuses
    BY DEF FinalStatus, Statuses
  <2>2. FinalError(p) \in Errors
    BY ErrorKinds DEF TypeOK, FinalError, Succeeded, Jobs
  <2>3. pc[p] \in HoldingPcs
    BY <1>5 DEF Finalize, HoldingPcs, ExecutingPcs
  <2>4. QED
    BY <1>5, <2>1, <2>2, <2>3 DEF Finalize, Write
<1>6. QED
  BY <1>1, <1>2, <1>3, <1>4, <1>5 DEF RowWrite

\* Every step leaves a row as it is or raises its version: the optimistic lock
\* cannot be fooled by a row that went away and came back.
LEMMA RowsGrow ==
  ASSUME TypeOK, HeldRecords, [Next]_vars, NEW i \in Ids, Exists(i)
  PROVE  RowGrows(i)
<1>0. StoreTypeOK
  BY DEF TypeOK
<1>1. CASE UNCHANGED incidents
  BY <1>1 DEF RowGrows, Exists
<1>2. CASE MarkInProgressNeedsHuman
  BY <1>0, <1>2, MarkGrows
<1>3. ASSUME NEW p \in Procs, Persist(p) PROVE RowGrows(i)
  BY <1>0, <1>3, CreateGrows DEF Persist
<1>4. ASSUME NEW p \in Procs, RowWrite(p) PROVE RowGrows(i)
  <2>1. pc[p] \in HoldingPcs
    BY <1>4, RowWriteIsWrite
  <2>2. PICK to \in Statuses, n \in {0, 1}, e \in Errors : TransitionIncident(cur[p].id, to, n, e)
    BY <1>4, RowWriteIsWrite
  <2>3. QED
    BY <1>0, <2>1, <2>2, HeldExists, TransitionGrows
<1>5. QED
  BY <1>1, <1>2, <1>3, <1>4, IncidentsEffect

\* create_plan leaves the incident with a plan.
LEMMA CreatePlanHasPlan ==
  ASSUME TypeOK, HeldRecords, NEW p \in Procs, CreatePlan(p)
  PROVE  plans'[cur[p].id] # <<>>
<1>1. cur[p] \in Snapshots /\ cur[p].id \in Ids
  BY HeldExists DEF CreatePlan, HoldingPcs
<1>2. PICK plan \in Seq(Tools) : plans' = [plans EXCEPT ![cur[p].id] = Append(@, plan)]
  BY <1>1, PlanForType DEF CreatePlan, InsertPlan, Snapshots
<1>3. plans[cur[p].id] \in Seq(Seq(Tools))
  BY <1>1 DEF TypeOK, StoreTypeOK
<1>4. Append(plans[cur[p].id], plan) # <<>>
  BY <1>3, AppendProperties
<1>5. QED
  BY <1>1, <1>2, <1>4 DEF TypeOK, StoreTypeOK

\* Plans are only added.
LEMMA PlansGrow ==
  ASSUME TypeOK, HeldRecords, [Next]_vars, NEW i \in Ids, plans[i] # <<>>
  PROVE  plans'[i] # <<>>
<1>1. CASE UNCHANGED plans
  BY <1>1
<1>2. ASSUME NEW p \in Procs, CreatePlan(p) PROVE plans'[i] # <<>>
  <2>1. CASE i = cur[p].id
    BY <1>2, <2>1, CreatePlanHasPlan
  <2>2. CASE i # cur[p].id
    BY <1>2, <2>2 DEF CreatePlan, InsertPlan, TypeOK, StoreTypeOK
  <2>3. QED
    BY <2>1, <2>2
<1>3. UNCHANGED plans \/ \E p \in Procs : CreatePlan(p)
  <2>1. ASSUME NEW c, CreateIncidents(c) PROVE UNCHANGED plans
    BY <2>1 DEF CreateIncidents
  <2>2. ASSUME NEW i_1, NEW to, NEW n, NEW e, TransitionIncident(i_1, to, n, e) PROVE UNCHANGED plans
    BY <2>2 DEF TransitionIncident
  <2>3. MarkInProgressNeedsHuman => UNCHANGED plans
    BY DEF MarkInProgressNeedsHuman
  <2>4. QED
    BY <2>1, <2>2, <2>3
       DEF Next, WorkerStep, vars, storeVars, Start, Recover, LifespanRecover, StopWorker, Exit,
       Poll, Observe, ObserveFails, Persist, List, Take, EndPass, ReadBack, Escalate,
       EscalateLost, SkipBackoff, Requeue, RequeueLost, CommitPlan, CommitPlanLost, FetchPlan,
       Claim, ClaimLost, RecordStarted, InsertAction, RunTool, FinishAction, UpdateAction,
       ReadCurrent, Finalize, FinalizeLost, Write, Crash, Shutdown, StoreError, LifespanError, Tick
<1>4. QED
  BY <1>1, <1>2, <1>3

-----------------------------------------------------------------------------
(* The records workers hold                                                *)

\* The steps of one process.
ProcStep(p) ==
  \/ WorkerStep(p)
  \/ Start(p) \/ LifespanRecover(p) \/ Exit(p)
  \/ ObserveFails(p) \/ StoreError(p) \/ LifespanError(p)
  \/ Crash(p) \/ Shutdown(p)

\* A step is that of one process, a tick of the clock, or no step.
LEMMA NextIsProcStep ==
  ASSUME [Next]_vars
  PROVE  (\E p \in Procs : ProcStep(p)) \/ Tick \/ UNCHANGED vars
BY DEF Next, ProcStep

\* A process moves no worker but its own.
Unmoved(q) ==
  /\ pc'[q] = pc[q]
  /\ queue'[q] = queue[q]
  /\ cur'[q] = cur[q]
  /\ job'[q] = job[q]

\* A step of one process leaves what the others hold alone.
LEMMA OthersUnmoved ==
  ASSUME TypeOK, NEW p \in Procs, ProcStep(p), NEW q \in Procs, q # p
  PROVE  Unmoved(q)
BY DEF TypeOK, ProcStep, Unmoved, WorkerStep, Start, Recover, LifespanRecover, StopWorker, Exit,
       Poll, Observe, ObserveFails, Persist, List, Take, EndPass, ReadBack, Escalate,
       EscalateLost, SkipBackoff, Requeue, RequeueLost, CreatePlan, CommitPlan, CommitPlanLost,
       FetchPlan, Claim, ClaimLost, RecordStarted, RunTool, FinishAction,
       ReadCurrent, Finalize, FinalizeLost, Write, Crash, Shutdown, StoreError, LifespanError,
       Goto, AbortPass, DropLocals, NextIncident, locals

\* What was once read of a row stays something that was once read: the row has
\* the version of the record and is unchanged, or a later one.
LEMMA KeepsOnceRead ==
  ASSUME TypeOK, HeldRecords, [Next]_vars, NEW s \in Snapshots, OnceRead(s)
  PROVE  OnceRead(s)'
<1>1. s.id \in Ids /\ Exists(s.id)
  BY DEF OnceRead, Snapshots
<1>2. RowGrows(s.id)
  BY <1>1, RowsGrow
<1>3. incidents[s.id] \in Rows /\ incidents'[s.id] \in Rows
  BY <1>1, <1>2, TypeStep DEF TypeOK, StoreTypeOK, RowGrows, Exists
<1>4. QED
  BY <1>1, <1>2, <1>3 DEF RowGrows, OnceRead, Rows, Snapshots

\* A record read now is the row.
LEMMA ReadsRow ==
  ASSUME StoreTypeOK, NEW i \in Ids, Exists(i)
  PROVE  /\ OnceRead(Snapshot(i))
         /\ Snapshot(i) \in Snapshots
         /\ Snapshot(i).id = i
         /\ Snapshot(i).status = incidents[i].status
BY RowType, SnapshotType DEF OnceRead, Snapshot, Exists, Rows

\* A worker that lets go of its record, or keeps it and is not about to act on
\* its status, still holds a true one.
LEMMA KeepHeld ==
  ASSUME TypeOK, HeldRecords, [Next]_vars, NEW q \in Procs,
         queue'[q] \subseteq queue[q],
         \/ pc'[q] \notin HoldingPcs
         \/ /\ cur'[q] = cur[q]
            /\ pc[q] \in HoldingPcs
            /\ \/ pc'[q] = pc[q]
               \/ pc'[q] \notin {"retry", "plan", "plan_commit", "fetch", "claim"}
  PROVE  Held(q)'
<1>1. Held(q) /\ queue[q] \subseteq Snapshots
  BY DEF HeldRecords, TypeOK
<1>2. \A s \in Snapshots : OnceRead(s) => OnceRead(s)'
  BY KeepsOnceRead
<1>3. \A s \in Snapshots : HasPlan(s) => HasPlan(s)'
  BY PlansGrow DEF HasPlan, Snapshots
<1>4. \A s \in queue'[q] : OnceRead(s)' /\ (s.status = "PLANNED" => HasPlan(s)')
  BY <1>1, <1>2, <1>3 DEF Held
<1>5. CASE pc'[q] \notin HoldingPcs
  BY <1>4, <1>5 DEF Held, HoldingPcs
<1>6. CASE /\ cur'[q] = cur[q]
           /\ pc[q] \in HoldingPcs
           /\ \/ pc'[q] = pc[q]
              \/ pc'[q] \notin {"retry", "plan", "plan_commit", "fetch", "claim"}
  <2>1. cur'[q] \in Snapshots /\ OnceRead(cur[q])' /\ (HasPlan(cur[q]) => HasPlan(cur[q])')
    BY <1>1, <1>2, <1>3, <1>6 DEF Held
  <2>2. QED
    BY <1>1, <1>4, <1>6, <2>1 DEF Held
<1>7. QED
  BY <1>5, <1>6

\* The record a worker takes up, or reads back, is a true one in the status the
\* next call requires.
LEMMA HeldStep ==
  ASSUME TypeOK, HeldRecords, PlannedHasPlan, [Next]_vars
  PROVE  HeldRecords'
<1>0. TypeOK'
  BY TypeStep
<1>1. ASSUME NEW p \in Procs, Start(p) PROVE Held(p)'
  BY <1>1, KeepHeld DEF Start, TypeOK, Goto, locals, HoldingPcs, ExecutingPcs, ReadBackPcs
<1>2. ASSUME NEW p \in Procs, Recover(p) PROVE Held(p)'
  BY <1>2, KeepHeld DEF Recover, TypeOK, Goto, locals, HoldingPcs, ExecutingPcs, ReadBackPcs
<1>3. ASSUME NEW p \in Procs, StopWorker(p) PROVE Held(p)'
  BY <1>3, KeepHeld DEF StopWorker, TypeOK, Goto, locals, HoldingPcs, ExecutingPcs, ReadBackPcs
<1>4. ASSUME NEW p \in Procs, Poll(p) PROVE Held(p)'
  BY <1>4, KeepHeld DEF Poll, TypeOK, Goto, locals, HoldingPcs, ExecutingPcs, ReadBackPcs
<1>5. ASSUME NEW p \in Procs, Observe(p) PROVE Held(p)'
  BY <1>5, KeepHeld DEF Observe, TypeOK, Goto, locals, HoldingPcs, ExecutingPcs, ReadBackPcs
<1>6. ASSUME NEW p \in Procs, Persist(p) PROVE Held(p)'
  BY <1>6, KeepHeld DEF Persist, TypeOK, Goto, locals, HoldingPcs, ExecutingPcs, ReadBackPcs
<1>7. ASSUME NEW p \in Procs, LifespanRecover(p) PROVE Held(p)'
  BY <1>7, KeepHeld DEF LifespanRecover, TypeOK, Goto, locals, HoldingPcs, ExecutingPcs, ReadBackPcs
<1>8. ASSUME NEW p \in Procs, Exit(p) PROVE Held(p)'
  BY <1>8, KeepHeld DEF Exit, TypeOK, Goto, AbortPass, DropLocals, PassEnd, HoldingPcs, ExecutingPcs, ReadBackPcs
<1>9. ASSUME NEW p \in Procs, ObserveFails(p) PROVE Held(p)'
  BY <1>9, KeepHeld DEF ObserveFails, TypeOK, Goto, AbortPass, DropLocals, PassEnd, HoldingPcs, ExecutingPcs, ReadBackPcs
<1>10. ASSUME NEW p \in Procs, EscalateLost(p) PROVE Held(p)'
  BY <1>10, KeepHeld DEF EscalateLost, TypeOK, Goto, AbortPass, DropLocals, PassEnd, HoldingPcs, ExecutingPcs, ReadBackPcs
<1>11. ASSUME NEW p \in Procs, FinalizeLost(p) PROVE Held(p)'
  BY <1>11, KeepHeld DEF FinalizeLost, TypeOK, Goto, AbortPass, DropLocals, PassEnd, HoldingPcs, ExecutingPcs, ReadBackPcs
<1>12. ASSUME NEW p \in Procs, StoreError(p) PROVE Held(p)'
  BY <1>12, KeepHeld DEF StoreError, TypeOK, Goto, AbortPass, DropLocals, PassEnd, HoldingPcs, ExecutingPcs, ReadBackPcs
<1>13. ASSUME NEW p \in Procs, Crash(p) PROVE Held(p)'
  BY <1>13, KeepHeld DEF Crash, TypeOK, Goto, AbortPass, DropLocals, PassEnd, HoldingPcs, ExecutingPcs, ReadBackPcs
<1>14. ASSUME NEW p \in Procs, EndPass(p) PROVE Held(p)'
  BY <1>14, KeepHeld DEF EndPass, TypeOK, Goto, locals, PassEnd, HoldingPcs, ExecutingPcs, ReadBackPcs
<1>15. ASSUME NEW p \in Procs, SkipBackoff(p) PROVE Held(p)'
  BY <1>15, KeepHeld DEF SkipBackoff, TypeOK, Goto, NextIncident, BackoffPending, BackoffOver, HoldingPcs, ExecutingPcs, ReadBackPcs
<1>16. ASSUME NEW p \in Procs, RequeueLost(p) PROVE Held(p)'
  BY <1>16, KeepHeld DEF RequeueLost, TypeOK, Goto, NextIncident, BackoffPending, BackoffOver, HoldingPcs, ExecutingPcs, ReadBackPcs
<1>17. ASSUME NEW p \in Procs, CommitPlanLost(p) PROVE Held(p)'
  BY <1>17, KeepHeld DEF CommitPlanLost, TypeOK, Goto, NextIncident, BackoffPending, BackoffOver, HoldingPcs, ExecutingPcs, ReadBackPcs
<1>18. ASSUME NEW p \in Procs, Requeue(p) PROVE Held(p)'
  BY <1>18, KeepHeld DEF Requeue, TypeOK, Goto, Write, locals, BackoffOver, HoldingPcs, ExecutingPcs, ReadBackPcs
<1>19. ASSUME NEW p \in Procs, CommitPlan(p) PROVE Held(p)'
  BY <1>19, KeepHeld DEF CommitPlan, TypeOK, Goto, Write, locals, BackoffOver, HoldingPcs, ExecutingPcs, ReadBackPcs
<1>20. ASSUME NEW p \in Procs, Claim(p) PROVE Held(p)'
  BY <1>20, KeepHeld DEF Claim, TypeOK, Goto, Write, locals, BackoffOver, HoldingPcs, ExecutingPcs, ReadBackPcs
<1>21. ASSUME NEW p \in Procs, Finalize(p) PROVE Held(p)'
  BY <1>21, KeepHeld DEF Finalize, TypeOK, Goto, Write, locals, BackoffOver, HoldingPcs, ExecutingPcs, ReadBackPcs
<1>22. ASSUME NEW p \in Procs, Escalate(p) PROVE Held(p)'
  BY <1>22, KeepHeld DEF Escalate, TypeOK, Goto, Write, locals, EscalationReason, HoldingPcs, ExecutingPcs, ReadBackPcs
<1>23. ASSUME NEW p \in Procs, ClaimLost(p) PROVE Held(p)'
  BY <1>23, KeepHeld DEF ClaimLost, TypeOK, Goto, locals, HoldingPcs, ExecutingPcs, ReadBackPcs
<1>24. ASSUME NEW p \in Procs, RecordStarted(p) PROVE Held(p)'
  BY <1>24, KeepHeld DEF RecordStarted, TypeOK, Goto, locals, HoldingPcs, ExecutingPcs, ReadBackPcs
<1>25. ASSUME NEW p \in Procs, RunTool(p) PROVE Held(p)'
  BY <1>25, KeepHeld DEF RunTool, TypeOK, Goto, locals, HoldingPcs, ExecutingPcs, ReadBackPcs
<1>26. ASSUME NEW p \in Procs, FinishAction(p) PROVE Held(p)'
  BY <1>26, KeepHeld DEF FinishAction, TypeOK, Goto, locals, HoldingPcs, ExecutingPcs, ReadBackPcs
<1>27. ASSUME NEW p \in Procs, LifespanError(p) PROVE Held(p)'
  BY <1>27, KeepHeld DEF LifespanError, TypeOK, Goto, locals, HoldingPcs, ExecutingPcs, ReadBackPcs
<1>28. ASSUME NEW p \in Procs, Shutdown(p) PROVE Held(p)'
  BY <1>28, KeepHeld DEF Shutdown, TypeOK, Goto, locals, HoldingPcs, ExecutingPcs, ReadBackPcs
<1>29. ASSUME NEW p \in Procs, List(p) PROVE Held(p)'
  <2>1. pc'[p] = "next" /\ queue'[p] = IncidentsByStatuses(ActionableStatuses)
    BY <1>29 DEF List, Goto, TypeOK
  <2>2. ASSUME NEW s \in queue'[p]
        PROVE  OnceRead(s)' /\ (s.status = "PLANNED" => HasPlan(s)')
    <3>1. PICK i \in Ids : Exists(i) /\ s = Snapshot(i)
      BY <2>1 DEF IncidentsByStatuses, HasStatus
    <3>2. OnceRead(s) /\ s.id = i /\ s.status = incidents[i].status
      BY <3>1, ReadsRow DEF TypeOK
    <3>3. s.status = "PLANNED" => HasPlan(s)
      BY <3>1, <3>2 DEF PlannedHasPlan, HasStatus, HasPlan
    <3>4. QED
      BY <3>2, <3>3, <1>29 DEF List, storeVars, OnceRead, Exists, HasPlan
  <2>3. QED
    BY <2>1, <2>2 DEF Held, HoldingPcs, ExecutingPcs, ReadBackPcs
<1>30. ASSUME NEW p \in Procs, Take(p) PROVE Held(p)'
  <2>1. PICK s \in queue[p] : Take(p)!2!(s)
    BY <1>30 DEF Take
  <2>2. /\ s \in Snapshots
        /\ OnceRead(s)
        /\ s.status = "PLANNED" => HasPlan(s)
    BY DEF HeldRecords, Held, TypeOK
  <2>3. CASE s.status \in {"FAILED", "OPEN", "PLANNED"}
    <3>1. /\ cur'[p] = s
          /\ queue'[p] \subseteq queue[p]
          /\ pc'[p] = CASE s.status = "FAILED"  -> "retry"
                         [] s.status = "OPEN"    -> "plan"
                         [] s.status = "PLANNED" -> "fetch"
      BY <2>1, <2>3 DEF TypeOK, Goto
    <3>2. \A r \in queue'[p] : OnceRead(r)' /\ (r.status = "PLANNED" => HasPlan(r)')
      BY <3>1, <1>30 DEF Take, storeVars, HeldRecords, Held, OnceRead, Exists, HasPlan
    <3>3. OnceRead(s)' /\ (HasPlan(s) => HasPlan(s)')
      BY <2>2, <1>30 DEF Take, storeVars, OnceRead, Exists, HasPlan
    <3>4. CASE s.status = "FAILED"
      <4>1. pc'[p] = "retry"
        BY <3>1, <3>4
      <4>2. QED
        BY <2>2, <3>1, <3>2, <3>3, <3>4, <4>1 DEF Held, OnceRead, Exists
    <3>5. CASE s.status = "OPEN"
      <4>1. pc'[p] = "plan"
        BY <3>1, <3>5
      <4>2. QED
        BY <2>2, <3>1, <3>2, <3>3, <3>5, <4>1 DEF Held, OnceRead, Exists
    <3>6. CASE s.status = "PLANNED"
      <4>1. pc'[p] = "fetch"
        BY <3>1, <3>6
      <4>2. QED
        BY <2>2, <3>1, <3>2, <3>3, <3>6, <4>1 DEF Held, OnceRead, Exists, HasPlan
    <3>7. QED
      BY <2>3, <3>4, <3>5, <3>6
  <2>4. CASE s.status \notin {"FAILED", "OPEN", "PLANNED"}
    BY <2>1, <2>4, <1>30, KeepHeld DEF Take, TypeOK, HoldingPcs, ExecutingPcs, ReadBackPcs
  <2>5. QED
    BY <2>3, <2>4
<1>31. ASSUME NEW p \in Procs, ReadBack(p) PROVE Held(p)'
  <2> DEFINE row  == Snapshot(cur[p].id)
             next == Resume(p, row.status)
  <2>1. pc[p] \in HoldingPcs
    BY <1>31 DEF ReadBack, HoldingPcs
  <2>2. OnceRead(row) /\ row \in Snapshots /\ row.status = incidents[row.id].status
    BY <2>1, HeldExists, ReadsRow DEF TypeOK
  <2>3. CASE next = "next"
    BY <2>3, <1>31, KeepHeld DEF ReadBack, NextIncident, Goto, TypeOK, HoldingPcs, ExecutingPcs, ReadBackPcs
  <2>4. CASE next # "next"
    <3>1. /\ pc'[p] = next
          /\ cur'[p] = row
          /\ queue'[p] = queue[p]
          /\ UNCHANGED storeVars
      BY <2>4, <1>31 DEF ReadBack, Goto, TypeOK
    <3>2. \A r \in queue'[p] : OnceRead(r)' /\ (r.status = "PLANNED" => HasPlan(r)')
      BY <3>1 DEF storeVars, HeldRecords, Held, OnceRead, Exists, HasPlan
    <3>3. OnceRead(cur[p])' /\ cur'[p] \in Snapshots
      BY <2>2, <3>1 DEF storeVars, OnceRead, Exists
    <3>4. \/ next = "record"
          \/ next = "plan" /\ row.status = "OPEN"
          \/ next = "fetch" /\ row.status = "PLANNED"
      BY <2>4 DEF Resume
    <3>5. row.status = "PLANNED" => HasPlan(cur[p])'
      BY <2>2, <3>1 DEF storeVars, PlannedHasPlan, HasStatus, HasPlan, OnceRead, Snapshots
    <3>6. QED
      BY <3>1, <3>2, <3>3, <3>4, <3>5 DEF Held
  <2>5. QED
    BY <2>3, <2>4
<1>32. ASSUME NEW p \in Procs, CreatePlan(p) PROVE Held(p)'
  <2>1. /\ Held(p)
        /\ cur[p].id \in Ids
        /\ cur[p] \in Snapshots
    BY <1>32, HeldExists DEF HeldRecords, CreatePlan, HoldingPcs
  <2>2. /\ pc'[p] = "plan_commit"
        /\ UNCHANGED <<cur, queue, incidents>>
    BY <1>32 DEF CreatePlan, Goto, TypeOK, locals, InsertPlan
  <2>3. plans'[cur[p].id] # <<>>
    BY <1>32, CreatePlanHasPlan
  <2>4. \A r \in queue[p] : r.status = "PLANNED" => HasPlan(r)'
    BY <2>1, PlansGrow DEF Held, HasPlan, Snapshots, TypeOK
  <2>5. QED
    BY <2>1, <2>2, <2>3, <2>4, <1>32 DEF CreatePlan, Held, OnceRead, Exists, HasPlan, HoldingPcs
<1>33. ASSUME NEW p \in Procs, FetchPlan(p) PROVE Held(p)'
  <2>1. /\ pc[p] = "fetch"
        /\ pc'[p] = "claim"
        /\ UNCHANGED <<cur, queue, incidents, plans>>
    BY <1>33 DEF FetchPlan, Goto, TypeOK, storeVars
  <2>2. QED
    BY <2>1 DEF HeldRecords, Held, OnceRead, Exists, HasPlan, HoldingPcs
<1>34. ASSUME NEW p \in Procs, ReadCurrent(p) PROVE Held(p)'
  <2>1. pc[p] \in HoldingPcs
    BY <1>34 DEF ReadCurrent, HoldingPcs, ExecutingPcs
  <2>2. OnceRead(Snapshot(cur[p].id)) /\ Snapshot(cur[p].id) \in Snapshots
    BY <2>1, HeldExists, ReadsRow DEF TypeOK
  <2>3. /\ pc'[p] = "final_commit"
        /\ cur'[p] = Snapshot(cur[p].id)
        /\ UNCHANGED <<queue, incidents, plans>>
    BY <1>34 DEF ReadCurrent, Goto, TypeOK, storeVars
  <2>4. QED
    BY <2>2, <2>3 DEF HeldRecords, Held, OnceRead, Exists, HasPlan
<1>35. ASSUME NEW p \in Procs, ProcStep(p) PROVE Held(p)'
  BY <1>35, <1>1, <1>2, <1>3, <1>4, <1>5, <1>6, <1>7, <1>8, <1>9, <1>10, <1>11, <1>12, <1>13, <1>14, <1>15, <1>16, <1>17, <1>18, <1>19, <1>20, <1>21, <1>22, <1>23, <1>24, <1>25, <1>26, <1>27, <1>28, <1>29, <1>30, <1>31, <1>32, <1>33, <1>34 DEF ProcStep, WorkerStep
<1>36. ASSUME NEW p \in Procs, ProcStep(p), NEW q \in Procs, q # p PROVE Held(q)'
  BY <1>36, OthersUnmoved, KeepHeld DEF Unmoved
<1>37. CASE Tick \/ UNCHANGED vars
  BY <1>37, KeepHeld DEF Tick, vars, locals, HeldRecords
<1>38. QED
  BY <1>35, <1>36, <1>37, NextIsProcStep DEF HeldRecords


-----------------------------------------------------------------------------
(* What a won compare-and-swap does                                        *)

\* transition_incident, seen from the row.
RowChange(i, from, to, n, e) ==
  /\ HasStatus(i, {from})
  /\ incidents'[i].type = incidents[i].type
  /\ incidents'[i].status = to
  /\ incidents'[i].attempt_count = incidents[i].attempt_count + n
  /\ incidents'[i].last_error = e

\* A worker that wins a write holds the row: its status and its attempts are
\* those it has decided by.
LEMMA WonIsRow ==
  ASSUME TypeOK, HeldRecords, NEW p \in Procs, pc[p] \in HoldingPcs,
         NEW from, NEW to, NEW n, NEW e, NEW next, Write(p, from, to, n, e, next)
  PROVE  /\ cur[p].status = from
         /\ cur[p].attempt_count = incidents[cur[p].id].attempt_count
         /\ RowChange(cur[p].id, from, to, n, e)
         /\ \A j \in Ids : j # cur[p].id => incidents'[j] = incidents[j]
<1>1. OnceRead(cur[p]) /\ cur[p].id \in Ids
  BY HeldExists DEF HeldRecords, Held
<1>2. QED
  BY <1>1 DEF OnceRead, Write, CanWrite, HasStatus, TransitionIncident, RowChange, TypeOK, StoreTypeOK

\* Incidents are given up out of attempts, or because no planner knows them;
\* never for want of a plan.
LEMMA EscalateEffect ==
  ASSUME TypeOK, HeldRecords, NEW p \in Procs, Escalate(p)
  PROVE  \E e \in {"max_attempts_exhausted", "planning_failed"} :
           \/ /\ RowChange(cur[p].id, "FAILED", "NEEDS_HUMAN", 0, e)
              /\ incidents[cur[p].id].attempt_count >= MAX_ATTEMPTS
           \/ RowChange(cur[p].id, "OPEN", "NEEDS_HUMAN", 0, e)
<1>1. pc[p] \in {"retry", "plan", "fetch"} /\ pc[p] \in HoldingPcs
  BY DEF Escalate, EscalationReason, HoldingPcs
<1>2. pc[p] # "fetch"
  <2>1. pc[p] = "fetch" => plans[cur[p].id] # <<>>
    BY DEF HeldRecords, Held, HasPlan
  <2>2. pc[p] = "fetch" => cur[p].id \in Ids
    BY <1>1, HeldExists
  <2>3. pc[p] = "fetch" => LatestPlan(cur[p].id) # 0
    BY <2>1, <2>2, EmptySeq DEF LatestPlan, TypeOK, StoreTypeOK
  <2>4. QED
    BY <2>3 DEF Escalate, EscalationReason
<1>3. EscalationReason(p) \in {"max_attempts_exhausted", "planning_failed"}
  BY <1>1, <1>2 DEF Escalate, EscalationReason
<1>4. /\ cur[p].attempt_count = incidents[cur[p].id].attempt_count
      /\ RowChange(cur[p].id, cur[p].status, "NEEDS_HUMAN", 0, EscalationReason(p))
  BY <1>1, WonIsRow DEF Escalate
<1>5. CASE pc[p] = "retry"
  BY <1>3, <1>4, <1>5 DEF HeldRecords, Held, Escalate, EscalationReason, Exhausted
<1>6. CASE pc[p] = "plan"
  BY <1>3, <1>4, <1>6 DEF HeldRecords, Held
<1>7. QED
  BY <1>1, <1>2, <1>5, <1>6

\* A requeue that wins moves a FAILED row with attempts left to OPEN.
LEMMA RequeueEffect ==
  ASSUME TypeOK, HeldRecords, NEW p \in Procs, Requeue(p)
  PROVE  /\ RowChange(cur[p].id, "FAILED", "OPEN", 0, "none")
         /\ incidents[cur[p].id].attempt_count < MAX_ATTEMPTS
<1>1. pc[p] \in HoldingPcs
  BY DEF Requeue, BackoffOver, HoldingPcs
<1>2. cur[p].attempt_count \in Nat
  BY <1>1, HeldExists DEF Snapshots
<1>3. QED
  BY <1>1, <1>2, WonIsRow, ControllerAssumption DEF Requeue, BackoffOver, Exhausted

\* A PLANNED write that wins moves an OPEN row, and its plan is there.
LEMMA CommitPlanEffect ==
  ASSUME TypeOK, HeldRecords, NEW p \in Procs, CommitPlan(p)
  PROVE  RowChange(cur[p].id, "OPEN", "PLANNED", 0, "none") /\ plans[cur[p].id] # <<>>
<1>1. pc[p] \in HoldingPcs /\ HasPlan(cur[p])
  BY DEF CommitPlan, HoldingPcs, HeldRecords, Held
<1>2. QED
  BY <1>1, WonIsRow DEF CommitPlan, HasPlan

\* A claim that wins moves a PLANNED row to IN_PROGRESS and counts the attempt.
LEMMA ClaimEffect ==
  ASSUME TypeOK, HeldRecords, NEW p \in Procs, Claim(p)
  PROVE  RowChange(cur[p].id, "PLANNED", "IN_PROGRESS", 1, "none")
<1>1. pc[p] \in HoldingPcs
  BY DEF Claim, HoldingPcs
<1>2. QED
  BY <1>1, WonIsRow DEF Claim

\* A last write that wins ends an execution, with the error of its outcome.
LEMMA FinalizeEffect ==
  ASSUME TypeOK, HeldRecords, OutcomeKnown, NEW p \in Procs, Finalize(p)
  PROVE  \/ RowChange(cur[p].id, "IN_PROGRESS", "RESOLVED", 0, "none")
         \/ \E e \in {"step_failed", "verification_failed"} :
              RowChange(cur[p].id, "IN_PROGRESS", "FAILED", 0, e)
<1>1. pc[p] = "final_commit" /\ pc[p] \in HoldingPcs
  BY DEF Finalize, HoldingPcs, ExecutingPcs
<1>2. RowChange(cur[p].id, "IN_PROGRESS", FinalStatus(p), 0, FinalError(p))
  BY <1>1, WonIsRow DEF Finalize
<1>3. job[p].outcome \in {"ok", "step_failed", "verification_failed"}
  BY <1>1 DEF OutcomeKnown, TypeOK, Jobs
<1>4. QED
  BY <1>2, <1>3 DEF FinalStatus, FinalError, Succeeded

\* A write changes the row of the incident its worker holds, and no other.
LEMMA WritesOneRow ==
  ASSUME TypeOK, HeldRecords, NEW p \in Procs, RowWrite(p)
  PROVE  \A j \in Ids : j # cur[p].id => incidents'[j] = incidents[j]
<1>1. PICK to \in Statuses, n \in {0, 1}, e \in Errors : TransitionIncident(cur[p].id, to, n, e)
  BY RowWriteIsWrite
<1>2. QED
  BY <1>1 DEF TransitionIncident, TypeOK, StoreTypeOK

\* create_incidents_from_candidates and mark_in_progress_needs_human, likewise.
Inserted(i) ==
  /\ ~ Exists(i)
  /\ incidents'[i].status = "OPEN"
  /\ incidents'[i].attempt_count = 0
  /\ incidents'[i].last_error = "evidence"
  /\ incidents'[i].type \in Types

Recovered(i) ==
  \E e \in {incidents[i].last_error, "agent_restarted_while_in_progress"} :
    /\ RowChange(i, "IN_PROGRESS", "NEEDS_HUMAN", 0, e)
    /\ e # "none"

\* Everything a step can do to one row.
RowSteps(i) ==
  \/ incidents'[i] = incidents[i]
  \/ Inserted(i)
  \/ Recovered(i)
  \/ \E e \in {"max_attempts_exhausted", "planning_failed"} :
       \/ RowChange(i, "FAILED", "NEEDS_HUMAN", 0, e) /\ incidents[i].attempt_count >= MAX_ATTEMPTS
       \/ RowChange(i, "OPEN", "NEEDS_HUMAN", 0, e)
  \/ RowChange(i, "FAILED", "OPEN", 0, "none") /\ incidents[i].attempt_count < MAX_ATTEMPTS
  \/ RowChange(i, "OPEN", "PLANNED", 0, "none") /\ plans[i] # <<>>
  \/ RowChange(i, "PLANNED", "IN_PROGRESS", 1, "none")
  \/ RowChange(i, "IN_PROGRESS", "RESOLVED", 0, "none")
  \/ \E e \in {"step_failed", "verification_failed"} : RowChange(i, "IN_PROGRESS", "FAILED", 0, e)

\* New candidates leave a row alone or insert it OPEN.
LEMMA CreateEffect ==
  ASSUME NEW c \in SUBSET Types, CreateIncidents(c), NEW i \in Ids
  PROVE  incidents'[i] = incidents[i] \/ Inserted(i)
<1>1. \/ incidents'[i] = incidents[i]
      \/ ~ Exists(i) /\ \E t \in Types : incidents'[i] = NewRow(t)
  BY DEF CreateIncidents
<1>2. ASSUME NEW t \in Types
      PROVE  /\ NewRow(t).type = t
             /\ NewRow(t).status = "OPEN"
             /\ NewRow(t).attempt_count = 0
             /\ NewRow(t).last_error = "evidence"
  BY DEF NewRow
<1>3. QED
  BY <1>1, <1>2 DEF Inserted

\* All that a step can do to a row: RowSteps is complete.
LEMMA RowEffect ==
  ASSUME TypeOK, HeldRecords, OutcomeKnown, [Next]_vars, NEW i \in Ids
  PROVE  RowSteps(i)
<1>1. CASE UNCHANGED incidents
  BY <1>1 DEF RowSteps
<1>2. CASE MarkInProgressNeedsHuman
  <2>1. CASE HasStatus(i, {"IN_PROGRESS"})
    <3>1. incidents'[i] = NeedsHuman(incidents[i])
      BY <1>2, <2>1 DEF MarkInProgressNeedsHuman
    <3>2. incidents[i] \in Rows
      BY <2>1, RowType DEF TypeOK, HasStatus
    <3>3. Recovered(i)
      BY <2>1, <3>1, <3>2 DEF NeedsHuman, Recovered, RowChange, Rows
    <3>4. QED
      BY <3>3 DEF RowSteps
  <2>2. CASE ~ HasStatus(i, {"IN_PROGRESS"})
    BY <1>2, <2>2 DEF RowSteps, MarkInProgressNeedsHuman
  <2>3. QED
    BY <2>1, <2>2
<1>3. ASSUME NEW p \in Procs, Persist(p) PROVE RowSteps(i)
  <2>1. cands[p] \in SUBSET Types /\ CreateIncidents(cands[p])
    BY <1>3 DEF Persist, TypeOK
  <2>2. QED
    BY <2>1, CreateEffect DEF RowSteps
<1>4. ASSUME NEW p \in Procs, RowWrite(p) PROVE RowSteps(i)
  <2>1. CASE i # cur[p].id
    BY <1>4, <2>1, WritesOneRow DEF RowSteps
  <2>2. CASE i = cur[p].id
    BY <1>4, <2>2, EscalateEffect, RequeueEffect, CommitPlanEffect, ClaimEffect, FinalizeEffect
       DEF RowSteps, RowWrite
  <2>3. QED
    BY <2>1, <2>2
<1>5. QED
  BY <1>1, <1>2, <1>3, <1>4, IncidentsEffect

-----------------------------------------------------------------------------
(* What an execution is made of                                            *)

\* How a worker can come to be, or stay, in an execution.
ExecutionStep(p) ==
  \/ Unmoved(p)
  \/ Claim(p)
  \/ ReadBack(p) /\ pc[p] = "claim_read" /\ pc'[p] = "record"
  \/ RecordStarted(p)
  \/ RunTool(p)
  \/ FinishAction(p)
  \/ ReadCurrent(p)

\* A worker that is executing after its own step took a step of an execution.
LEMMA ExecutionSteps ==
  ASSUME TypeOK, NEW p \in Procs, ProcStep(p), pc'[p] \in ExecutingPcs
  PROVE  ExecutionStep(p)
<1>1. ASSUME ReadBack(p) PROVE pc[p] = "claim_read" /\ pc'[p] = "record"
  BY <1>1 DEF ReadBack, NextIncident, Goto, Resume, ExecutingPcs, TypeOK
<1>2. ASSUME Take(p) PROVE FALSE
  BY <1>2 DEF Take, Goto, ExecutingPcs, TypeOK
<1>3. QED
  BY <1>1, <1>2
     DEF ProcStep, WorkerStep, ExecutionStep, Unmoved, ExecutingPcs, TypeOK, Start, Recover,
       LifespanRecover, StopWorker, Exit, Poll, Observe, ObserveFails, Persist, List, EndPass,
       Escalate, EscalateLost, SkipBackoff, Requeue, RequeueLost, CreatePlan, CommitPlan,
       CommitPlanLost, FetchPlan, ClaimLost, Finalize, FinalizeLost, Write, Crash, Shutdown,
       StoreError, LifespanError, Goto, AbortPass, PassEnd, NextIncident, locals

\* The steps of an execution after its claim leave the table alone, and the
\* worker keeps its incident.
LEMMA ExecutionKeepsIncident ==
  ASSUME TypeOK, NEW p \in Procs, ProcStep(p), pc'[p] \in ExecutingPcs, ~ Claim(p)
  PROVE  /\ pc[p] \in ExecutingPcs
         /\ cur'[p].id = cur[p].id
         /\ pc[p] # "claim_read" => job'[p].claim = job[p].claim
<1>1. ExecutionStep(p)
  BY ExecutionSteps
<1>2. QED
  BY <1>1 DEF ExecutionStep, Unmoved, ReadBack, Resume, RecordStarted, RunTool, FinishAction,
       ReadCurrent, Snapshot, ExecutingPcs, TypeOK, Jobs, locals

\* A worker that is about to end an execution knows how it went.
LEMMA OutcomeStep ==
  ASSUME TypeOK, OutcomeKnown, [Next]_vars
  PROVE  OutcomeKnown'
<1> DEFINE Known(q) == pc[q] \in {"finish", "final", "final_commit"} => job[q].outcome # "none"
<1>1. ASSUME NEW p \in Procs, ProcStep(p) PROVE Known(p)'
  <2> SUFFICES ASSUME pc'[p] \in {"finish", "final", "final_commit"}
               PROVE  job'[p].outcome # "none"
    OBVIOUS
  <2>1. ExecutionStep(p)
    BY <1>1, ExecutionSteps DEF ExecutingPcs
  <2>2. CASE Unmoved(p)
    BY <2>2 DEF Unmoved, OutcomeKnown
  <2>3. CASE RunTool(p)
    BY <2>3 DEF RunTool, Outcomes, TypeOK, Jobs
  <2>4. CASE FinishAction(p)
    BY <2>4 DEF FinishAction, OutcomeKnown, TypeOK, Goto
  <2>5. CASE ReadCurrent(p)
    BY <2>5 DEF ReadCurrent, OutcomeKnown, TypeOK, Goto
  <2>6. QED
    BY <2>1, <2>2, <2>3, <2>4, <2>5
       DEF ExecutionStep, Claim, Write, ReadBack, RecordStarted, Goto, TypeOK
<1>2. ASSUME NEW p \in Procs, ProcStep(p), NEW q \in Procs, q # p PROVE Known(q)'
  BY <1>2, OthersUnmoved DEF OutcomeKnown, Unmoved
<1>3. CASE Tick \/ UNCHANGED vars
  BY <1>3 DEF Tick, vars, locals, OutcomeKnown
<1>4. \A q \in Procs : Known(q)'
  BY <1>1, <1>2, <1>3, NextIsProcStep DEF OutcomeKnown
<1>5. QED
  BY <1>4 DEF OutcomeKnown

-----------------------------------------------------------------------------
(* The invariants of rows                                                  *)

\* A planned incident keeps its plan.
LEMMA PlannedStep ==
  ASSUME TypeOK, HeldRecords, OutcomeKnown, PlannedHasPlan, [Next]_vars
  PROVE  PlannedHasPlan'
<1> SUFFICES ASSUME NEW i \in Ids, HasStatus(i, {"PLANNED"})' PROVE plans'[i] # <<>>
  BY DEF PlannedHasPlan
<1>1. RowSteps(i)
  BY RowEffect
<1>2. HasStatus(i, {"PLANNED"}) \/ plans[i] # <<>>
  BY <1>1 DEF RowSteps, RowChange, Inserted, Recovered, HasStatus, Exists
<1>3. QED
  BY <1>2, PlansGrow DEF PlannedHasPlan

\* No step makes an incident exceed its attempts.
LEMMA BudgetStep ==
  ASSUME TypeOK, HeldRecords, OutcomeKnown, AttemptBudget, [Next]_vars
  PROVE  AttemptBudget'
<1> SUFFICES ASSUME NEW i \in Ids, Exists(i)'
             PROVE  /\ incidents'[i].attempt_count <= MAX_ATTEMPTS
                    /\ incidents'[i].status \in {"OPEN", "PLANNED"}
                         => incidents'[i].attempt_count < MAX_ATTEMPTS
  BY DEF AttemptBudget
<1>1. RowSteps(i)
  BY RowEffect
<1>2. Exists(i) => incidents[i].attempt_count \in Nat
  BY DEF TypeOK, StoreTypeOK, Exists, Rows
<1>3. QED
  BY <1>1, <1>2, ControllerAssumption
     DEF RowSteps, RowChange, Inserted, Recovered, HasStatus, Exists, AttemptBudget

\* No step parts an incident's error from its status.
LEMMA ErrorStep ==
  ASSUME TypeOK, HeldRecords, OutcomeKnown, ErrorExplainsStatus, [Next]_vars
  PROVE  ErrorExplainsStatus'
<1> DEFINE Explains(status) ==
      CASE status = "OPEN"        -> {"evidence", "none"}
        [] status = "FAILED"      -> {"step_failed", "verification_failed"}
        [] status = "NEEDS_HUMAN" ->
             {"max_attempts_exhausted", "planning_failed", "agent_restarted_while_in_progress"}
        [] OTHER                  -> {"none"}
<1> SUFFICES ASSUME NEW i \in Ids, Exists(i)'
             PROVE  incidents'[i].last_error \in Explains(incidents'[i].status)
  BY DEF ErrorExplainsStatus
<1>1. RowSteps(i)
  BY RowEffect
<1>2. Exists(i) => incidents[i].last_error \in Explains(incidents[i].status)
  BY DEF ErrorExplainsStatus
<1>3. HasStatus(i, {"IN_PROGRESS"}) => incidents[i].last_error = "none"
  BY <1>2 DEF HasStatus
<1>4. QED
  BY <1>1, <1>2, <1>3 DEF RowSteps, RowChange, Inserted, Recovered, HasStatus, Exists

\* No step but the insertion of candidates makes an incident that was settled,
\* or was not there, count against its type.
LEMMA ActiveStep ==
  ASSUME TypeOK, HeldRecords, OutcomeKnown, [Next]_vars, NEW i \in Ids,
         HasStatus(i, Statuses \ {"RESOLVED"})'
  PROVE  \/ /\ HasStatus(i, Statuses \ {"RESOLVED"})
            /\ incidents'[i].type = incidents[i].type
         \/ ~ Exists(i)
<1>1. RowSteps(i)
  BY RowEffect
<1>2. QED
  BY <1>1 DEF RowSteps, RowChange, Recovered, Inserted, HasStatus, Exists, Statuses

\* The candidates inserted are of types the index finds free, one of each.
LEMMA CreateUnique ==
  ASSUME TypeOK, UniqueActive, NEW c \in SUBSET Types, CreateIncidents(c)
  PROVE  UniqueActive'
<1> DEFINE fresh == c \ ActiveTypes
           free  == {i \in Ids : ~ Exists(i)}
<1>0. PICK new \in SUBSET free : \E type \in [new -> fresh] :
        /\ \A i, j \in new : type[i] = type[j] => i = j
        /\ incidents' = [i \in Ids |-> IF i \in new THEN NewRow(type[i]) ELSE incidents[i]]
  BY DEF CreateIncidents
<1>1. PICK type \in [new -> fresh] :
        /\ \A i, j \in new : type[i] = type[j] => i = j
        /\ incidents' = [i \in Ids |-> IF i \in new THEN NewRow(type[i]) ELSE incidents[i]]
  BY <1>0
<1>2. \A i \in Ids : HasStatus(i, Statuses \ {"RESOLVED"}) => incidents[i].type \in ActiveTypes
  <2>1. \A i \in Ids : HasStatus(i, Statuses \ {"RESOLVED"}) => HasStatus(i, ActiveStatuses)
    BY DEF HasStatus, Statuses, ActiveStatuses
  <2>2. QED
    BY <2>1 DEF ActiveTypes
<1>3. \A i \in new : incidents'[i].type \notin ActiveTypes /\ incidents'[i].type = type[i]
  BY <1>1 DEF NewRow
<1>4. \A i \in Ids \ new : incidents'[i] = incidents[i]
  BY <1>1
<1>5. \A i \in Ids \ new : HasStatus(i, Statuses \ {"RESOLVED"})' => HasStatus(i, Statuses \ {"RESOLVED"})
  BY <1>4 DEF HasStatus, Exists
<1>6. ASSUME NEW i \in Ids, NEW j \in Ids,
             HasStatus(i, Statuses \ {"RESOLVED"})',
             HasStatus(j, Statuses \ {"RESOLVED"})',
             incidents'[i].type = incidents'[j].type
      PROVE  i = j
  <2>1. CASE i \in new /\ j \in new
    BY <1>1, <1>3, <1>6, <2>1
  <2>2. CASE i \in new /\ j \notin new
    BY <1>2, <1>3, <1>4, <1>5, <1>6, <2>2
  <2>3. CASE i \notin new /\ j \in new
    BY <1>2, <1>3, <1>4, <1>5, <1>6, <2>3
  <2>4. CASE i \notin new /\ j \notin new
    BY <1>4, <1>5, <1>6, <2>4 DEF UniqueActive
  <2>5. QED
    BY <2>1, <2>2, <2>3, <2>4
<1>7. QED
  BY <1>6 DEF UniqueActive

\* No step makes a second active incident of a type.
LEMMA UniqueStep ==
  ASSUME TypeOK, HeldRecords, OutcomeKnown, UniqueActive, [Next]_vars
  PROVE  UniqueActive'
<1>1. ASSUME NEW p \in Procs, Persist(p) PROVE UniqueActive'
  BY <1>1, CreateUnique DEF Persist, TypeOK
<1>2. CASE \A i \in Ids : Exists(i)' => Exists(i)
  BY <1>2, ActiveStep DEF UniqueActive, HasStatus
<1>3. CASE UNCHANGED incidents
  BY <1>2, <1>3 DEF Exists
<1>4. CASE MarkInProgressNeedsHuman
  BY <1>2, <1>4 DEF MarkInProgressNeedsHuman, Exists, HasStatus
<1>5. ASSUME NEW p \in Procs, RowWrite(p) PROVE UniqueActive'
  <2>1. cur[p].id \in Ids /\ Exists(cur[p].id)
    BY <1>5, RowWriteIsWrite, HeldExists
  <2>2. \A i \in Ids : i # cur[p].id => incidents'[i] = incidents[i]
    BY <1>5, WritesOneRow
  <2>3. QED
    BY <1>2, <2>1, <2>2 DEF Exists
<1>6. QED
  BY <1>1, <1>3, <1>4, <1>5, IncidentsEffect

-----------------------------------------------------------------------------
(* Claims                                                                  *)

\* Only the last write of an execution ends it well or badly.
LEMMA EndsByFinalize ==
  ASSUME TypeOK, HeldRecords, OutcomeKnown, [Next]_vars, NEW i \in Ids,
         HasStatus(i, {"IN_PROGRESS"}), incidents'[i].status \in {"RESOLVED", "FAILED"}
  PROVE  \E p \in Procs : Finalize(p) /\ cur[p].id = i
<1>1. incidents'[i] # incidents[i]
  BY DEF HasStatus
<1>2. ASSUME MarkInProgressNeedsHuman PROVE FALSE
  <2>1. incidents'[i] = NeedsHuman(incidents[i])
    BY <1>2 DEF MarkInProgressNeedsHuman
  <2>2. incidents'[i].status = "NEEDS_HUMAN"
    BY <2>1 DEF NeedsHuman
  <2>3. QED
    BY <2>2
<1>3. ASSUME NEW p \in Procs, Persist(p) PROVE FALSE
  <2>1. incidents'[i] = incidents[i]
    BY <1>3 DEF Persist, CreateIncidents, HasStatus
  <2>2. QED
    BY <1>1, <2>1
<1>4. PICK p \in Procs : RowWrite(p)
  BY <1>1, <1>2, <1>3, IncidentsEffect
<1>5. cur[p].id = i
  BY <1>1, <1>4, WritesOneRow
<1>6. ~ Escalate(p) /\ ~ Requeue(p) /\ ~ CommitPlan(p) /\ ~ Claim(p)
  BY <1>5, EscalateEffect, RequeueEffect, CommitPlanEffect, ClaimEffect DEF RowChange, HasStatus
<1>7. QED
  BY <1>4, <1>5, <1>6 DEF RowWrite

\* A row in execution stays as it is until it is finalized or recovered, and a
\* row handed to a human stays as it is.
LEMMA ExecutedRow ==
  ASSUME TypeOK, HeldRecords, OutcomeKnown, [Next]_vars, NEW i \in Ids,
         HasStatus(i, {"IN_PROGRESS", "NEEDS_HUMAN"}),
         ~ \E p \in Procs : Finalize(p) /\ cur[p].id = i
  PROVE  \/ incidents'[i] = incidents[i]
         \/ incidents'[i].status = "NEEDS_HUMAN"
<1>1. RowSteps(i)
  BY RowEffect
<1>2. ~ (HasStatus(i, {"IN_PROGRESS"}) /\ incidents'[i].status \in {"RESOLVED", "FAILED"})
  BY EndsByFinalize
<1>3. QED
  BY <1>1, <1>2 DEF RowSteps, RowChange, Recovered, Inserted, HasStatus

\* A worker that was executing and still is keeps its claim.
LEMMA ClaimKept ==
  ASSUME TypeOK, HeldRecords, OutcomeKnown, Claims, [Next]_vars, NEW q \in Procs,
         Executing(q), Executing(q)', cur'[q].id = cur[q].id,
         pc[q] # "claim_read" => job'[q].claim = job[q].claim,
         pc'[q] # "claim_read" /\ pc[q] = "claim_read" => ReadBack(q)
  PROVE  /\ HasStatus(cur[q].id, {"IN_PROGRESS", "NEEDS_HUMAN"})'
         /\ HasStatus(cur[q].id, {"IN_PROGRESS"})' /\ pc'[q] # "claim_read"
              => job'[q].claim = incidents'[cur'[q].id].version
<1> DEFINE i == cur[q].id
<1>1. i \in Ids
  BY HeldExists DEF Executing, HoldingPcs
<1>2. HasStatus(i, {"IN_PROGRESS", "NEEDS_HUMAN"})
  BY DEF Claims
<1>3. ~ \E p \in Procs : Finalize(p) /\ cur[p].id = i
  <2> SUFFICES ASSUME NEW p \in Procs, Finalize(p), cur[p].id = i PROVE FALSE
    OBVIOUS
  <2>1. Executing(p)
    BY DEF Finalize, Executing, ExecutingPcs
  <2>2. p = q
    BY <2>1 DEF Claims
  <2>3. pc'[q] = "final_read"
    BY <2>2 DEF Finalize, Write, Goto, TypeOK
  <2>4. QED
    BY <2>3 DEF Executing, ExecutingPcs
<1>4. incidents'[i] = incidents[i] \/ incidents'[i].status = "NEEDS_HUMAN"
  BY <1>1, <1>2, <1>3, ExecutedRow
<1>5. Exists(i)'
  BY <1>1, <1>2, RowsGrow DEF HasStatus, RowGrows, Exists
<1>6. incidents'[i] # NoIncident /\ incidents'[i].status \in {"IN_PROGRESS", "NEEDS_HUMAN"}
  BY <1>2, <1>4, <1>5 DEF HasStatus, Exists
<1>7. incidents'[i].status = "IN_PROGRESS" /\ pc'[q] # "claim_read"
        => job'[q].claim = incidents'[i].version
  <2> SUFFICES ASSUME incidents'[i].status = "IN_PROGRESS", pc'[q] # "claim_read"
               PROVE  job'[q].claim = incidents'[i].version
    OBVIOUS
  <2>1. incidents'[i] = incidents[i] /\ HasStatus(i, {"IN_PROGRESS"})
    BY <1>2, <1>4 DEF HasStatus
  <2>2. CASE pc[q] = "claim_read"
    BY <2>1, <2>2 DEF ReadBack, Resume, Snapshot, TypeOK, Jobs
  <2>3. CASE pc[q] # "claim_read"
    BY <2>1, <2>3 DEF Claims
  <2>4. QED
    BY <2>2, <2>3
<1>8. QED
  BY <1>6, <1>7 DEF HasStatus, Exists

\* An executing worker holds the version it claimed until recovery takes the row
\* away, and no two workers execute the same incident.
LEMMA ClaimsStep ==
  ASSUME TypeOK, HeldRecords, OutcomeKnown, Claims, [Next]_vars
  PROVE  Claims'
<1> DEFINE Mine(q) ==
      Executing(q) =>
        /\ HasStatus(cur[q].id, {"IN_PROGRESS", "NEEDS_HUMAN"})
        /\ HasStatus(cur[q].id, {"IN_PROGRESS"}) /\ pc[q] # "claim_read"
             => job[q].claim = incidents[cur[q].id].version
\* A worker that executes after the step did so before, or has just claimed.
<1>1. ASSUME NEW q \in Procs, Executing(q)', ~ Claim(q)
      PROVE  /\ Executing(q)
             /\ cur'[q].id = cur[q].id
             /\ pc[q] # "claim_read" => job'[q].claim = job[q].claim
             /\ pc'[q] # "claim_read" /\ pc[q] = "claim_read" => ReadBack(q)
  <2>1. CASE ProcStep(q)
    <3>1. ExecutionStep(q)
      BY <1>1, <2>1, ExecutionSteps DEF Executing
    <3>2. pc'[q] # "claim_read" /\ pc[q] = "claim_read" => ReadBack(q)
      BY <1>1, <3>1 DEF ExecutionStep, Unmoved, RecordStarted, RunTool, FinishAction, ReadCurrent
    <3>3. QED
      BY <1>1, <2>1, <3>2, ExecutionKeepsIncident DEF Executing
  <2>2. CASE ~ ProcStep(q)
    <3>1. Unmoved(q)
      BY <2>2, NextIsProcStep, OthersUnmoved DEF Tick, vars, locals, Unmoved
    <3>2. QED
      BY <1>1, <3>1 DEF Unmoved, Executing
  <2>3. QED
    BY <2>1, <2>2
<1>2. ASSUME NEW q \in Procs, Claim(q)
      PROVE  /\ HasStatus(cur[q].id, {"PLANNED"})
             /\ Mine(q)'
             /\ cur'[q].id = cur[q].id
  <2>1. RowChange(cur[q].id, "PLANNED", "IN_PROGRESS", 1, "none")
    BY <1>2, ClaimEffect
  <2>2. pc'[q] = "claim_read" /\ cur' = cur
    BY <1>2 DEF Claim, Write, Goto, TypeOK, locals
  <2>3. cur[q].id \in Ids /\ Exists(cur[q].id)
    BY <1>2, HeldExists DEF Claim, HoldingPcs
  <2>4. Exists(cur[q].id)'
    BY <2>2, <2>3, RowsGrow DEF RowGrows, Exists
  <2>5. QED
    BY <2>1, <2>2, <2>4 DEF RowChange, HasStatus, Exists
<1>3. ASSUME NEW q \in Procs PROVE Mine(q)'
  <2>1. CASE Claim(q)
    BY <1>2, <2>1
  <2>2. CASE ~ Claim(q) /\ Executing(q)'
    <3>1. HasStatus(cur[q].id, {"IN_PROGRESS", "NEEDS_HUMAN"})'
          /\ (HasStatus(cur[q].id, {"IN_PROGRESS"})' /\ pc'[q] # "claim_read"
                => job'[q].claim = incidents'[cur'[q].id].version)
      BY <1>1, <2>2, ClaimKept
    <3>2. QED
      BY <3>1
  <2>3. QED
    BY <2>1, <2>2
<1>4. ASSUME NEW p \in Procs, NEW q \in Procs, Executing(p)', Executing(q)', cur'[p].id = cur'[q].id
      PROVE  p = q
  <2>1. CASE ~ Claim(p) /\ ~ Claim(q)
    BY <1>1, <1>4, <2>1 DEF Claims
  <2>2. ASSUME NEW r \in Procs, NEW s \in Procs, Claim(r), Executing(s)', cur'[r].id = cur'[s].id, r # s
        PROVE  FALSE
    <3>1. ~ Claim(s)
      BY <2>2, OthersUnmoved DEF ProcStep, WorkerStep, Unmoved, Claim, Write, Goto, TypeOK
    <3>2. Executing(s) /\ cur[s].id = cur[r].id
      BY <1>1, <1>2, <2>2, <3>1
    <3>3. HasStatus(cur[r].id, {"IN_PROGRESS", "NEEDS_HUMAN"})
      BY <3>2 DEF Claims
    <3>4. QED
      BY <1>2, <2>2, <3>3 DEF HasStatus
  <2>3. QED
    BY <1>4, <2>1, <2>2
<1>5. QED
  BY <1>3, <1>4 DEF Claims

-----------------------------------------------------------------------------
(* Actions                                                                 *)

\* A worker that executes after the step did so before, or has just claimed.
LEMMA StaysExecuting ==
  ASSUME TypeOK, [Next]_vars, NEW q \in Procs, Executing(q)', ~ Claim(q)
  PROVE  /\ Executing(q)
         /\ cur'[q].id = cur[q].id
         /\ ExecutionStep(q)
<1>1. CASE ProcStep(q)
  BY <1>1, ExecutionSteps, ExecutionKeepsIncident DEF Executing
<1>2. CASE ~ ProcStep(q)
  <2>1. Unmoved(q)
    BY <1>2, NextIsProcStep, OthersUnmoved DEF Tick, vars, locals, Unmoved
  <2>2. QED
    BY <2>1 DEF Unmoved, Executing, ExecutionStep
<1>3. QED
  BY <1>1, <1>2

\* Only record_action and its update touch the actions.
LEMMA ActionsEffect ==
  ASSUME [Next]_vars
  PROVE  UNCHANGED actions \/ \E p \in Procs : RecordStarted(p) \/ FinishAction(p)
<1>1. ASSUME NEW p \in Procs, ProcStep(p)
      PROVE  UNCHANGED actions \/ RecordStarted(p) \/ FinishAction(p)
  BY <1>1 DEF ProcStep, WorkerStep, Start, Recover, LifespanRecover, StopWorker, Exit, Poll,
       Observe, ObserveFails, Persist, List, Take, EndPass, ReadBack, Escalate, EscalateLost,
       SkipBackoff, Requeue, RequeueLost, CreatePlan, CommitPlan, CommitPlanLost, FetchPlan,
       Claim, ClaimLost, RunTool, ReadCurrent, Finalize, FinalizeLost, Write, Crash, Shutdown,
       StoreError, LifespanError, storeVars, TransitionIncident, CreateIncidents, InsertPlan,
       MarkInProgressNeedsHuman
<1>2. QED
  BY <1>1, NextIsProcStep DEF Tick, vars

Started(i, k) == k \in DOMAIN actions[i] /\ actions[i][k].status = "STARTED"

\* A recorded action is the only new STARTED one.
LEMMA RecordEffect ==
  ASSUME TypeOK, NEW p \in Procs, RecordStarted(p), cur[p].id \in Ids,
         NEW i \in Ids, NEW k, Started(i, k)'
  PROVE  Started(i, k) \/ (i = cur[p].id /\ k = job'[p].row)
<1> DEFINE a == [plan |-> job[p].plan, step |-> job[p].step, status |-> "STARTED"]
           s == actions[cur[p].id]
<1>1. actions' = [actions EXCEPT ![cur[p].id] = Append(s, a)]
  BY DEF RecordStarted, InsertAction
<1>2. CASE i # cur[p].id
  BY <1>1, <1>2 DEF Started, TypeOK, StoreTypeOK
<1>3. CASE i = cur[p].id
  <2>1. s \in Seq(Actions) /\ a \in Actions
    BY DEF TypeOK, StoreTypeOK, Jobs, Actions
  <2>2. actions'[i] = Append(s, a)
    BY <1>1, <1>3 DEF TypeOK, StoreTypeOK
  <2>3. /\ Len(Append(s, a)) = Len(s) + 1
        /\ \A j \in 1 .. Len(s) : Append(s, a)[j] = s[j]
        /\ DOMAIN Append(s, a) = 1 .. Len(s) + 1
        /\ DOMAIN s = 1 .. Len(s)
        /\ Len(s) \in Nat
    BY <2>1, AppendProperties, LenProperties
  <2>4. job'[p].row = Len(s) + 1
    BY DEF RecordStarted, TypeOK, Jobs
  <2>5. k \in 1 .. Len(s) + 1
    BY <2>2, <2>3 DEF Started
  <2>6. CASE k = Len(s) + 1
    BY <1>3, <2>4, <2>6
  <2>7. CASE k \in 1 .. Len(s)
    BY <1>3, <2>2, <2>3, <2>7 DEF Started
  <2>8. QED
    BY <2>3, <2>5, <2>6, <2>7
<1>4. QED
  BY <1>2, <1>3

\* A finished action is STARTED no more, and no other becomes so.
LEMMA FinishEffect ==
  ASSUME TypeOK, NEW p \in Procs, FinishAction(p), cur[p].id \in Ids,
         NEW i \in Ids, NEW k, Started(i, k)'
  PROVE  Started(i, k) /\ ~ (i = cur[p].id /\ k = job[p].row)
<1>1. PICK status \in {"SUCCEEDED", "FAILED"} :
        actions' = [actions EXCEPT ![cur[p].id][job[p].row].status = status]
  BY DEF FinishAction, UpdateAction
<1>2. CASE i # cur[p].id
  BY <1>1, <1>2 DEF Started, TypeOK, StoreTypeOK
<1>3. CASE i = cur[p].id
  <2>1. actions'[i] = [actions[i] EXCEPT ![job[p].row].status = status]
    BY <1>1, <1>3 DEF TypeOK, StoreTypeOK
  <2>2. DOMAIN actions'[i] = DOMAIN actions[i]
    BY <2>1
  <2>3. k \in DOMAIN actions[i]
    BY <2>2 DEF Started
  <2>4. CASE k # job[p].row
    BY <2>1, <2>3, <2>4 DEF Started
  <2>5. CASE k = job[p].row
    <3>1. actions'[i][k] = [actions[i][k] EXCEPT !.status = status]
      BY <2>1, <2>3, <2>5
    <3>2. actions[i] \in Seq(Actions)
      BY DEF TypeOK, StoreTypeOK
    <3>3. actions[i][k] \in Actions
      BY <2>3, <3>2, ElementOfSeq, LenProperties
    <3>4. actions'[i][k].status = status
      BY <3>1, <3>3 DEF Actions
    <3>5. QED
      BY <3>4 DEF Started
  <2>6. QED
    BY <2>4, <2>5
<1>4. QED
  BY <1>2, <1>3

\* An action STARTED after a step was so before and is not being finished, or
\* is the one just recorded.
LEMMA StartedEffect ==
  ASSUME TypeOK, HeldRecords, [Next]_vars, NEW i \in Ids, NEW k, Started(i, k)'
  PROVE  \/ /\ Started(i, k)
            /\ ~ \E p \in Procs : FinishAction(p) /\ cur[p].id = i /\ job[p].row = k
         \/ \E p \in Procs : RecordStarted(p) /\ cur[p].id = i /\ job'[p].row = k
<1>1. \A p \in Procs : pc[p] \in ExecutingPcs => cur[p].id \in Ids
  BY HeldExists DEF HoldingPcs
<1>2. ASSUME NEW p \in Procs, FinishAction(p)
      PROVE  Started(i, k) /\ ~ (i = cur[p].id /\ k = job[p].row)
  <2>1. cur[p].id \in Ids
    BY <1>1, <1>2 DEF FinishAction, ExecutingPcs
  <2>2. QED
    BY <1>2, <2>1, FinishEffect
<1>3. ASSUME NEW p \in Procs, RecordStarted(p)
      PROVE  Started(i, k) \/ (cur[p].id = i /\ job'[p].row = k)
  <2>1. cur[p].id \in Ids
    BY <1>1, <1>3 DEF RecordStarted, ExecutingPcs
  <2>2. QED
    BY <1>3, <2>1, RecordEffect
<1>4. UNCHANGED actions => Started(i, k)
  BY DEF Started
<1>5. QED
  BY <1>2, <1>3, <1>4, ActionsEffect

\* A STARTED action of a live execution stays the one its worker is running.
LEMMA StartedStep ==
  ASSUME TypeOK, HeldRecords, OutcomeKnown, Claims, NoDanglingAction, StartedIsCurrent, [Next]_vars
  PROVE  StartedIsCurrent'
<1> SUFFICES ASSUME NEW q \in Procs, Executing(q)', NEW k, Started(cur[q].id, k)'
                    , cur'[q].id = cur[q].id
             PROVE  pc'[q] \in {"tool", "finish"} /\ k = job'[q].row
  <2>1. ASSUME NEW q \in Procs, Executing(q)' PROVE cur'[q].id = cur[q].id
    <3>1. CASE Claim(q)
      BY <3>1 DEF Claim, Write, locals
    <3>2. CASE ~ Claim(q)
      BY <2>1, <3>2, StaysExecuting
    <3>3. QED
      BY <3>1, <3>2
  <2>2. QED
    BY <2>1 DEF StartedIsCurrent, Started
<1> DEFINE i == cur[q].id
<1>1. CASE Claim(q)
  <2>1. HasStatus(i, {"PLANNED"}) /\ i \in Ids
    BY <1>1, ClaimEffect, HeldExists DEF RowChange, Claim, HoldingPcs
  <2>2. ~ Started(i, k)
    BY <2>1 DEF NoDanglingAction, Started, HasStatus
  <2>3. UNCHANGED actions
    BY <1>1 DEF Claim, Write, TransitionIncident
  <2>4. QED
    BY <2>2, <2>3 DEF Started
<1>2. CASE ~ Claim(q)
  <2>1. Executing(q) /\ ExecutionStep(q)
    BY <1>2, StaysExecuting
  <2>2. i \in Ids
    BY <2>1, HeldExists DEF Executing, HoldingPcs
  <2>3. CASE \E p \in Procs : RecordStarted(p) /\ cur[p].id = i /\ job'[p].row = k
    <3>1. PICK p \in Procs : RecordStarted(p) /\ cur[p].id = i /\ job'[p].row = k
      BY <2>3
    <3>2. p = q
      BY <2>1, <3>1 DEF Claims, RecordStarted, Executing, ExecutingPcs
    <3>3. QED
      BY <3>1, <3>2 DEF RecordStarted, Goto, TypeOK
  <2>4. CASE /\ Started(i, k)
             /\ ~ \E p \in Procs : FinishAction(p) /\ cur[p].id = i /\ job[p].row = k
    <3>1. pc[q] \in {"tool", "finish"} /\ k = job[q].row
      BY <2>1, <2>4 DEF StartedIsCurrent, Started
    <3>2. CASE Unmoved(q)
      BY <3>1, <3>2 DEF Unmoved
    <3>3. CASE RunTool(q)
      BY <3>1, <3>3 DEF RunTool, Goto, TypeOK, Jobs
    <3>4. QED
      BY <1>2, <2>1, <2>4, <3>1, <3>2, <3>3
         DEF ExecutionStep, RecordStarted, FinishAction, ReadCurrent
  <2>5. QED
    BY <2>2, <2>3, <2>4, StartedEffect
<1>3. QED
  BY <1>1, <1>2

\* An incident that ends leaves no action STARTED.
LEMMA DanglingStep ==
  ASSUME TypeOK, HeldRecords, OutcomeKnown, Claims, NoDanglingAction, StartedIsCurrent,
         ActionsOfRows, [Next]_vars
  PROVE  NoDanglingAction'
<1> SUFFICES ASSUME NEW i \in Ids, HasStatus(i, {"OPEN", "PLANNED", "FAILED", "RESOLVED"})',
                    NEW k, Started(i, k)'
             PROVE  FALSE
  BY DEF NoDanglingAction, Started
<1>1. CASE \E p \in Procs : RecordStarted(p) /\ cur[p].id = i
  <2>1. PICK p \in Procs : RecordStarted(p) /\ cur[p].id = i
    BY <1>1
  <2>2. HasStatus(i, {"IN_PROGRESS", "NEEDS_HUMAN"})
    BY <2>1 DEF Claims, RecordStarted, Executing, ExecutingPcs
  <2>3. UNCHANGED incidents
    BY <2>1 DEF RecordStarted, InsertAction
  <2>4. QED
    BY <2>2, <2>3 DEF HasStatus
<1>2. CASE Started(i, k)
  <2>1. Exists(i) /\ ~ HasStatus(i, {"OPEN", "PLANNED", "FAILED", "RESOLVED"})
    BY <1>2 DEF NoDanglingAction, ActionsOfRows, Started
  <2>2. incidents[i] \in Rows
    BY <2>1, RowType DEF TypeOK
  <2>3. HasStatus(i, {"IN_PROGRESS", "NEEDS_HUMAN"})
    BY <2>1, <2>2 DEF HasStatus, Rows, Statuses
  <2>4. PICK p \in Procs : Finalize(p) /\ cur[p].id = i
    BY <2>1, <2>3, ExecutedRow DEF HasStatus, Exists
  <2>5. pc[p] \in {"tool", "finish"}
    BY <1>2, <2>4 DEF StartedIsCurrent, Started, Finalize, Executing, ExecutingPcs
  <2>6. QED
    BY <2>4, <2>5 DEF Finalize
<1>3. QED
  BY <1>1, <1>2, StartedEffect

\* Actions belong to rows that exist.
LEMMA RowlessStep ==
  ASSUME TypeOK, HeldRecords, ActionsOfRows, [Next]_vars
  PROVE  ActionsOfRows'
<1> SUFFICES ASSUME NEW i \in Ids, ~ Exists(i)' PROVE actions'[i] = <<>>
  BY DEF ActionsOfRows
<1>1. ~ Exists(i)
  BY RowsGrow DEF RowGrows
<1>2. actions[i] = <<>>
  BY <1>1 DEF ActionsOfRows
<1>3. ASSUME NEW p \in Procs, RecordStarted(p) \/ FinishAction(p) PROVE actions'[i] = actions[i]
  <2>1. cur[p].id # i
    BY <1>1, <1>3, HeldExists DEF RecordStarted, FinishAction, HoldingPcs, ExecutingPcs
  <2>2. QED
    BY <1>3, <2>1 DEF RecordStarted, InsertAction, FinishAction, UpdateAction, TypeOK, StoreTypeOK
<1>4. QED
  BY <1>2, <1>3, ActionsEffect

-----------------------------------------------------------------------------
(* The inductive invariant, and the properties it gives                    *)

\* The invariant holds of the empty database with every process off,
LEMMA InitInvariant ==
  ASSUME Init
  PROVE  IInv
<1>1. TypeOK
  <2>1. StoreTypeOK
    BY EmptySeq DEF Init, StoreInit, StoreTypeOK
  <2>2. LocalTypeOK
    BY DEF Init, LocalTypeOK, Pcs, NoJob, Jobs
  <2>3. QED
    BY <2>1, <2>2 DEF TypeOK, LocalTypeOK
<1>2. \A i \in Ids : ~ Exists(i) /\ actions[i] = <<>>
  BY DEF Init, StoreInit, Exists
<1>3. \A p \in Procs : pc[p] = "off" /\ queue[p] = {}
  BY DEF Init
<1>4. HeldRecords
  BY <1>3 DEF HeldRecords, Held, HoldingPcs, ExecutingPcs, ReadBackPcs
<1>5. PlannedHasPlan /\ UniqueActive /\ AttemptBudget /\ ErrorExplainsStatus /\ NoDanglingAction
  BY <1>2 DEF PlannedHasPlan, UniqueActive, AttemptBudget, ErrorExplainsStatus, NoDanglingAction,
       HasStatus
<1>6. Claims /\ OutcomeKnown /\ StartedIsCurrent
  BY <1>3 DEF Claims, OutcomeKnown, StartedIsCurrent, Executing, ExecutingPcs
<1>7. ActionsOfRows
  BY <1>2 DEF ActionsOfRows
<1>8. QED
  BY <1>1, <1>4, <1>5, <1>6, <1>7 DEF IInv

\* and every step keeps it.
LEMMA StepInvariant ==
  ASSUME IInv, [Next]_vars
  PROVE  IInv'
BY TypeStep, HeldStep, PlannedStep, UniqueStep, BudgetStep, ClaimsStep, OutcomeStep, ErrorStep,
   DanglingStep, StartedStep, RowlessStep DEF IInv

\* IInv, the conjunction of TypeOK and of what workers know of the rows they
\* hold, is an invariant: every step of worker, API and fault keeps it.
THEOREM Invariance == Spec => []IInv
<1>1. Init => IInv
  BY InitInvariant
<1>2. IInv /\ [Next]_vars => IInv'
  BY StepInvariant
<1>3. QED
  BY <1>1, <1>2, PTL DEF Spec

\* Every variable keeps its type: no step writes a status, reason, attempt
\* count, plan or action that is not one.
THEOREM TypeCorrect == Spec => []TypeOK
<1>1. IInv => TypeOK
  BY DEF IInv
<1>2. QED
  BY <1>1, Invariance, PTL

\* create_incidents_from_candidates and the partial unique index keep a type
\* from having two incidents that are not RESOLVED.
THEOREM UniqueActiveAlways == Spec => []UniqueActive
<1>1. IInv => UniqueActive
  BY DEF IInv
<1>2. QED
  BY <1>1, Invariance, PTL

\* No interleaving of workers, crashes, lost races and requeues makes an
\* incident cost more than MAX_ATTEMPTS executions.
THEOREM AttemptBudgetAlways == Spec => []AttemptBudget
<1>1. IInv => AttemptBudget
  BY DEF IInv
<1>2. QED
  BY <1>1, Invariance, PTL

\* last_error_json gives the reason for the status the row has now.
THEOREM ErrorExplainsStatusAlways == Spec => []ErrorExplainsStatus
<1>1. IInv => ErrorExplainsStatus
  BY DEF IInv
<1>2. QED
  BY <1>1, Invariance, PTL

\* A row that is not IN_PROGRESS or NEEDS_HUMAN has no action left STARTED.
THEOREM NoDanglingActionAlways == Spec => []NoDanglingAction
<1>1. IInv => NoDanglingAction
  BY DEF IInv
<1>2. QED
  BY <1>1, Invariance, PTL

\* Two workers never execute remediations of one type at once: each executes a
\* row that is not RESOLVED, a type has one such row, and a row has one
\* executing worker.
THEOREM ExclusiveExecutionAlways == Spec => []ExclusiveExecution
<1>1. ASSUME IInv PROVE ExclusiveExecution
  <2> SUFFICES ASSUME NEW p \in Procs, NEW q \in Procs, Executing(p), Executing(q),
                      incidents[cur[p].id].type = incidents[cur[q].id].type
               PROVE  p = q
    BY DEF ExclusiveExecution
  <2>1. cur[p].id \in Ids /\ cur[q].id \in Ids
    BY <1>1, HeldExists DEF IInv, Executing, HoldingPcs
  <2>2. HasStatus(cur[p].id, Statuses \ {"RESOLVED"}) /\ HasStatus(cur[q].id, Statuses \ {"RESOLVED"})
    BY <1>1 DEF IInv, Claims, HasStatus, Statuses
  <2>3. cur[p].id = cur[q].id
    BY <1>1, <2>1, <2>2 DEF IInv, UniqueActive
  <2>4. QED
    BY <1>1, <2>3 DEF IInv, Claims
<1>2. QED
  BY <1>1, Invariance, PTL

\* Only the worker that claimed an execution ends it RESOLVED or FAILED, and
\* the row it ends is still the one its claim wrote.
THEOREM EndedByClaimantAlways == Spec => EndedByClaimant
<1>1. ASSUME IInv, [Next]_vars, NEW i \in Ids,
             HasStatus(i, {"IN_PROGRESS"}), incidents'[i].status \in {"RESOLVED", "FAILED"}
      PROVE  \E p \in Procs :
               /\ ExecutedBy(i, p) /\ job[p].claim = incidents[i].version
               /\ pc[p] = "final_commit" /\ pc'[p] = "final_read"
  <2>1. PICK p \in Procs : Finalize(p) /\ cur[p].id = i
    BY <1>1, EndsByFinalize DEF IInv
  <2>2. ExecutedBy(i, p) /\ pc[p] = "final_commit" /\ pc'[p] = "final_read"
    BY <1>1, <2>1 DEF Finalize, Write, Goto, IInv, TypeOK, ExecutedBy, Executing, ExecutingPcs
  <2>3. job[p].claim = incidents[i].version
    BY <1>1, <2>2 DEF IInv, Claims, ExecutedBy
  <2>4. QED
    BY <2>2, <2>3
<1>2. IInv /\ [Next]_vars =>
        [\A i \in Ids :
           HasStatus(i, {"IN_PROGRESS"}) /\ incidents'[i].status \in {"RESOLVED", "FAILED"} =>
             \E p \in Procs :
               /\ ExecutedBy(i, p) /\ job[p].claim = incidents[i].version
               /\ pc[p] = "final_commit" /\ pc'[p] = "final_read"]_vars
  BY <1>1
<1>3. QED
  BY <1>2, Invariance, PTL DEF Spec, EndedByClaimant

\* A row that is RESOLVED or NEEDS_HUMAN never changes again, whatever the
\* workers that still remember it do.
THEOREM SettledAlways == Spec => SettledStaysSettled
<1>1. ASSUME IInv, [Next]_vars, NEW i \in Ids, HasStatus(i, {"RESOLVED", "NEEDS_HUMAN"})
      PROVE  incidents'[i] = incidents[i]
  <2>1. RowSteps(i)
    BY <1>1, RowEffect DEF IInv
  <2>2. QED
    BY <1>1, <2>1 DEF RowSteps, RowChange, Recovered, Inserted, HasStatus
<1>2. IInv /\ [Next]_vars =>
        [\A i \in Ids : HasStatus(i, {"RESOLVED", "NEEDS_HUMAN"}) => incidents'[i] = incidents[i]]_vars
  BY <1>1
<1>3. QED
  BY <1>2, Invariance, PTL DEF Spec, SettledStaysSettled

\* Only a requeue takes a FAILED row back to OPEN.
LEMMA RetriedByRequeue ==
  ASSUME TypeOK, HeldRecords, OutcomeKnown, [Next]_vars, NEW i \in Ids,
         HasStatus(i, {"FAILED"}), incidents'[i].status = "OPEN"
  PROVE  \E p \in Procs : Requeue(p) /\ cur[p].id = i
<1>1. incidents'[i] # incidents[i]
  BY DEF HasStatus
<1>2. ~ MarkInProgressNeedsHuman
  BY <1>1 DEF MarkInProgressNeedsHuman, HasStatus
<1>3. ASSUME NEW p \in Procs PROVE ~ Persist(p)
  BY <1>1 DEF Persist, CreateIncidents, HasStatus
<1>4. PICK p \in Procs : RowWrite(p)
  BY <1>1, <1>2, <1>3, IncidentsEffect
<1>5. cur[p].id = i
  BY <1>1, <1>4, WritesOneRow
<1>6. ~ Escalate(p) /\ ~ CommitPlan(p) /\ ~ Claim(p) /\ ~ Finalize(p)
  BY <1>5, EscalateEffect, CommitPlanEffect, ClaimEffect, FinalizeEffect DEF RowChange, HasStatus
<1>7. QED
  BY <1>4, <1>5, <1>6 DEF RowWrite

\* A retry comes after the back-off of the attempt that failed last, whoever
\* made that attempt and whatever the retrying worker remembers.
THEOREM RetriesWaitAlways == Spec => RetriesWait
<1>1. ASSUME IInv, [Next]_vars, NEW i \in Ids,
             HasStatus(i, {"FAILED"}), incidents'[i].status = "OPEN"
      PROVE  age[i] >= Backoff(incidents[i].attempt_count)
  <2>1. PICK p \in Procs : Requeue(p) /\ cur[p].id = i
    BY <1>1, RetriedByRequeue DEF IInv
  <2>2. pc[p] \in HoldingPcs
    BY <2>1 DEF Requeue, BackoffOver, HoldingPcs
  <2>3. cur[p].attempt_count = incidents[i].attempt_count
    BY <1>1, <2>1, <2>2, WonIsRow DEF Requeue, IInv
  <2>4. Fresh(p)
    BY <2>1 DEF Requeue, Write, CanWrite, Fresh
  <2>5. QED
    BY <2>1, <2>3, <2>4 DEF Requeue, BackoffOver
<1>2. IInv /\ [Next]_vars =>
        [\A i \in Ids :
           HasStatus(i, {"FAILED"}) /\ incidents'[i].status = "OPEN" =>
             age[i] >= Backoff(incidents[i].attempt_count)]_vars
  BY <1>1
<1>3. QED
  BY <1>2, Invariance, PTL DEF Spec, RetriesWait

-----------------------------------------------------------------------------
(* Refinement                                                              *)

LifeOf(row) == [type |-> row.type, status |-> row.status, attempts |-> row.attempt_count]

\* The state the life cycle sees is one of its states.
LEMMA LifeType ==
  ASSUME TypeOK, NEW i \in Ids
  PROVE  /\ Exists(i) => /\ life[i] = LifeOf(incidents[i])
                          /\ life[i] # NoIncident
                          /\ life[i].type = incidents[i].type
                          /\ life[i].status = incidents[i].status
                          /\ life[i].attempts = incidents[i].attempt_count
         /\ ~ Exists(i) => life[i] = NoIncident
<1>1. ASSUME Exists(i) PROVE life[i] # NoIncident
  <2>1. incidents[i] \in Rows
    BY <1>1, RowType DEF TypeOK
  <2>2. LifeOf(incidents[i]) \in [type : Types, status : Statuses, attempts : Nat]
    BY <2>1 DEF LifeOf, Rows
  <2>3. QED
    BY <1>1, <2>2, LifeAssumption DEF life, LifeOf
<1>2. QED
  BY <1>1 DEF life, LifeOf

\* The life cycle sees the status of every row that exists.
LEMMA LifeStatus ==
  ASSUME TypeOK, NEW i \in Ids, NEW s
  PROVE  Lifecycle!Is(i, s) <=> HasStatus(i, {s})
<1>1. CASE Exists(i)
  <2>1. life[i] # NoIncident /\ life[i].status = incidents[i].status
    BY <1>1, LifeType
  <2>2. QED
    BY <1>1, <2>1 DEF Lifecycle!Is, HasStatus
<1>2. CASE ~ Exists(i)
  BY <1>2, LifeType DEF Lifecycle!Is, HasStatus
<1>3. QED
  BY <1>1, <1>2

\* The table changed in one row, seen by the life cycle.
LifeMoves(i, from, to, n) ==
  /\ Lifecycle!Is(i, from)
  /\ life[i].attempts = incidents[i].attempt_count
  /\ life' = [life EXCEPT ![i] = Lifecycle!Moved(i, to, n)]

\* A change of one row is seen as a change of one incident.
LEMMA LifeChange ==
  ASSUME TypeOK, TypeOK', NEW i \in Ids, NEW from, NEW to, NEW n \in {0, 1}, NEW e,
         RowChange(i, from, to, n, e), Exists(i)',
         \A j \in Ids : j # i => incidents'[j] = incidents[j]
  PROVE  LifeMoves(i, from, to, n)
<1>1. Lifecycle!Is(i, from) /\ Exists(i)
  BY LifeStatus DEF RowChange, HasStatus
<1>2. life[i] = LifeOf(incidents[i]) /\ incidents[i] \in Rows
  BY <1>1, LifeType, RowType DEF TypeOK
<1>3. life'[i] = [type |-> incidents[i].type, status |-> to,
                  attempts |-> incidents[i].attempt_count + n]
  BY DEF RowChange, life
<1>4. \A j \in Ids : j # i => life'[j] = life[j]
  BY DEF life, Exists
<1>5. /\ DOMAIN life = Ids /\ DOMAIN life' = Ids
      /\ life = [j \in Ids |-> life[j]] /\ life' = [j \in Ids |-> life'[j]]
  BY DEF life
<1>6. life'[i] = Lifecycle!Moved(i, to, n)
  BY <1>2, <1>3 DEF LifeOf, Lifecycle!Moved
<1>7. life' = [life EXCEPT ![i] = Lifecycle!Moved(i, to, n)]
  BY <1>4, <1>5, <1>6
<1>8. QED
  BY <1>1, <1>2, <1>7, LifeType DEF LifeMoves

\* Start-up recovery is the life cycle's Restart.
LEMMA RecoveryIsRestart ==
  ASSUME TypeOK, TypeOK', MarkInProgressNeedsHuman, \A i \in Ids : Exists(i) => Exists(i)'
  PROVE  Lifecycle!Restart
<1>1. ASSUME NEW i \in Ids, HasStatus(i, {"IN_PROGRESS"})
      PROVE  life'[i] = Lifecycle!Moved(i, "NEEDS_HUMAN", 0)
  <2>1. incidents'[i] = NeedsHuman(incidents[i]) /\ Exists(i)' /\ Exists(i)
    BY <1>1 DEF MarkInProgressNeedsHuman, HasStatus
  <2>2. /\ incidents'[i].type = incidents[i].type
        /\ incidents'[i].status = "NEEDS_HUMAN"
        /\ incidents'[i].attempt_count = incidents[i].attempt_count
    BY <2>1 DEF NeedsHuman
  <2>3. life'[i] = [type |-> incidents[i].type, status |-> "NEEDS_HUMAN",
                    attempts |-> incidents[i].attempt_count]
    BY <2>1, <2>2 DEF life
  <2>4. incidents[i] \in Rows
    BY <2>1, RowType DEF TypeOK
  <2>5. /\ life[i].type = incidents[i].type
        /\ life[i].attempts + 0 = incidents[i].attempt_count
    BY <2>1, <2>4, LifeType DEF Rows
  <2>6. QED
    BY <2>3, <2>5 DEF Lifecycle!Moved
<1>2. ASSUME NEW i \in Ids, ~ HasStatus(i, {"IN_PROGRESS"})
      PROVE  life'[i] = life[i]
  BY <1>2 DEF MarkInProgressNeedsHuman, life, Exists
<1>3. life' = [i \in Ids |-> IF Lifecycle!Is(i, "IN_PROGRESS")
                             THEN Lifecycle!Moved(i, "NEEDS_HUMAN", 0)
                             ELSE life[i]]
  <2>1. life' = [i \in Ids |-> life'[i]]
    BY DEF life
  <2>2. QED
    BY <1>1, <1>2, <2>1, LifeStatus
<1>4. QED
  BY <1>3 DEF Lifecycle!Restart

\* Persisting candidates is its Detect.
LEMMA CreateIsDetect ==
  ASSUME TypeOK, TypeOK', NEW c \in SUBSET Types, CreateIncidents(c)
  PROVE  Lifecycle!Detect
<1> DEFINE fresh == c \ ActiveTypes
           free  == {i \in Ids : ~ Exists(i)}
<1>1. PICK new \in SUBSET free : \E type \in [new -> fresh] :
        /\ \A i, j \in new : type[i] = type[j] => i = j
        /\ incidents' = [i \in Ids |-> IF i \in new THEN NewRow(type[i]) ELSE incidents[i]]
  BY DEF CreateIncidents
<1>2. PICK type \in [new -> fresh] :
        /\ \A i, j \in new : type[i] = type[j] => i = j
        /\ incidents' = [i \in Ids |-> IF i \in new THEN NewRow(type[i]) ELSE incidents[i]]
  BY <1>1
<1>3. new \in SUBSET {i \in Ids : life[i] = NoIncident}
  BY LifeType
<1>4. \A t \in Types : Lifecycle!Taken(t) => t \in ActiveTypes
  <2> SUFFICES ASSUME NEW i \in Ids, life[i] # NoIncident, life[i].status # "RESOLVED"
               PROVE  life[i].type \in ActiveTypes
    BY DEF Lifecycle!Taken
  <2>1. Exists(i) /\ life[i] = LifeOf(incidents[i]) /\ incidents[i] \in Rows
    BY LifeType, RowType DEF TypeOK
  <2>2. incidents[i].status # "RESOLVED" /\ life[i].type = incidents[i].type
    BY <2>1 DEF LifeOf
  <2>3. HasStatus(i, ActiveStatuses)
    BY <2>1, <2>2 DEF HasStatus, ActiveStatuses, Rows, Statuses
  <2>4. QED
    BY <2>2, <2>3 DEF ActiveTypes
<1>5. type \in [new -> {t \in Types : ~ Lifecycle!Taken(t)}]
  BY <1>4
<1>6. ASSUME NEW i \in new PROVE life'[i] = Lifecycle!Open(type[i])
  <2>1. NewRow(type[i]) \in Rows /\ type[i] \in Types
    BY ErrorKinds DEF NewRow, Rows, Statuses
  <2>2. incidents'[i] = NewRow(type[i]) /\ Exists(i)'
    BY <1>2, <2>1, RowExists DEF Exists
  <2>3. incidents'[i].type = type[i] /\ incidents'[i].status = "OPEN"
        /\ incidents'[i].attempt_count = 0
    BY <2>2 DEF NewRow
  <2>4. QED
    BY <2>2, <2>3 DEF life, Lifecycle!Open
<1>7. ASSUME NEW i \in Ids \ new PROVE life'[i] = life[i]
  BY <1>2 DEF life, Exists
<1>8. life' = [i \in Ids |-> IF i \in new THEN Lifecycle!Open(type[i]) ELSE life[i]]
  <2>1. life' = [i \in Ids |-> life'[i]]
    BY DEF life
  <2>2. QED
    BY <1>6, <1>7, <2>1
<1>9. QED
  BY <1>2, <1>3, <1>5, <1>8 DEF Lifecycle!Detect

\* A write that wins is one of its moves.
LEMMA WriteIsMove ==
  ASSUME IInv, IInv', [Next]_vars, NEW p \in Procs, RowWrite(p)
  PROVE  Lifecycle!Next
<1>0. cur[p].id \in Ids
  BY RowWriteIsWrite, HeldExists DEF IInv
<1>1. PICK i \in Ids :
        /\ i = cur[p].id
        /\ Exists(i)
        /\ \A j \in Ids : j # i => incidents'[j] = incidents[j]
  BY <1>0, RowWriteIsWrite, HeldExists, WritesOneRow DEF IInv
<1>2. TypeOK /\ HeldRecords /\ TypeOK' /\ Exists(i)'
  <2>1. TypeOK /\ HeldRecords /\ TypeOK'
    BY DEF IInv
  <2>2. RowGrows(i)
    BY <1>1, <2>1, RowsGrow
  <2>3. QED
    BY <2>1, <2>2 DEF RowGrows
<1>3. ASSUME NEW from, NEW to, NEW n \in {0, 1}, NEW e, RowChange(i, from, to, n, e)
      PROVE  LifeMoves(i, from, to, n)
  BY <1>1, <1>2, <1>3, LifeChange
<1>4. \A s : HasStatus(i, {s}) /\ s \in {"OPEN", "PLANNED"} =>
               incidents[i].attempt_count < MAX_ATTEMPTS
  BY <1>1 DEF IInv, AttemptBudget, HasStatus
<1>5. CASE Escalate(p)
  <2>1. Lifecycle!GiveUp(i)
    BY <1>1, <1>3, <1>5, EscalateEffect DEF IInv, Lifecycle!GiveUp, Lifecycle!Move, LifeMoves
  <2>2. QED
    BY <1>1, <2>1 DEF Lifecycle!Next
<1>6. CASE Requeue(p)
  <2>1. Lifecycle!Retry(i)
    BY <1>1, <1>3, <1>6, RequeueEffect DEF IInv, Lifecycle!Retry, Lifecycle!Move, LifeMoves
  <2>2. QED
    BY <1>1, <2>1 DEF Lifecycle!Next
<1>7. CASE CommitPlan(p)
  <2>1. RowChange(i, "OPEN", "PLANNED", 0, "none")
    BY <1>1, <1>7, CommitPlanEffect DEF IInv
  <2>2. Lifecycle!Plan(i)
    BY <1>3, <1>4, <2>1 DEF RowChange, Lifecycle!Plan, Lifecycle!Move, LifeMoves
  <2>3. QED
    BY <1>1, <2>2 DEF Lifecycle!Next
<1>8. CASE Claim(p)
  <2>1. RowChange(i, "PLANNED", "IN_PROGRESS", 1, "none")
    BY <1>1, <1>8, ClaimEffect DEF IInv
  <2>2. Lifecycle!Attempt(i)
    BY <1>3, <1>4, <2>1 DEF RowChange, Lifecycle!Attempt, LifeMoves
  <2>3. QED
    BY <1>1, <2>2 DEF Lifecycle!Next
<1>9. CASE Finalize(p)
  <2>1. Lifecycle!Resolve(i) \/ Lifecycle!Fail(i)
    BY <1>1, <1>3, <1>9, FinalizeEffect DEF IInv, Lifecycle!Resolve, Lifecycle!Fail,
         Lifecycle!Move, LifeMoves
  <2>2. QED
    BY <1>1, <2>1 DEF Lifecycle!Next
<1>10. QED
  BY <1>5, <1>6, <1>7, <1>8, <1>9 DEF RowWrite

\* Whatever processes run, in whatever modes, with whatever faults, what they do
\* to the incidents table is the life cycle of IncidentLifecycle.
THEOREM ImplementsLifecycleAlways == Spec => ImplementsLifecycle
<1>1. Init => Lifecycle!Init
  BY DEF Init, StoreInit, life, Exists, Lifecycle!Init
<1>2. IInv /\ IInv' /\ [Next]_vars => [Lifecycle!Next]_life
  <2> SUFFICES ASSUME IInv, IInv', [Next]_vars PROVE [Lifecycle!Next]_life
    OBVIOUS
  <2>1. CASE UNCHANGED incidents
    BY <2>1 DEF life, Exists
  <2>2. CASE MarkInProgressNeedsHuman
    <3>1. \A i \in Ids : Exists(i) => Exists(i)'
      BY RowsGrow DEF IInv, RowGrows
    <3>2. Lifecycle!Restart
      BY <2>2, <3>1, RecoveryIsRestart DEF IInv
    <3>3. QED
      BY <3>2 DEF Lifecycle!Next
  <2>3. ASSUME NEW p \in Procs, Persist(p) PROVE Lifecycle!Next
    <3>1. Lifecycle!Detect
      BY <2>3, CreateIsDetect DEF Persist, IInv, TypeOK
    <3>2. QED
      BY <3>1 DEF Lifecycle!Next
  <2>4. ASSUME NEW p \in Procs, RowWrite(p) PROVE Lifecycle!Next
    BY <2>4, WriteIsMove
  <2>5. QED
    BY <2>1, <2>2, <2>3, <2>4, IncidentsEffect
<1>3. QED
  BY <1>1, <1>2, Invariance, PTL DEF Spec, ImplementsLifecycle, Lifecycle!Spec

=============================================================================
