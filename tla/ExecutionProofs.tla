--------------------------- MODULE ExecutionProofs ---------------------------
(***************************************************************************)
(* Theorems about executions in RemediationController, on top of the       *)
(* invariant of ControllerProofs: nothing is left IN_PROGRESS by a process *)
(* that has not failed, what a RESOLVED incident's trail shows, and, where *)
(* one worker uses the database, which plan is executed.                   *)
(***************************************************************************)
EXTENDS ControllerProofs

-----------------------------------------------------------------------------
(* Plans                                                                   *)

\* Only create_plan touches the plans.
LEMMA PlansEffect ==
  ASSUME [Next]_vars
  PROVE  UNCHANGED plans \/ \E p \in Procs : CreatePlan(p)
<1>1. ASSUME NEW p \in Procs, ProcStep(p)
      PROVE  UNCHANGED plans \/ CreatePlan(p)
  BY <1>1 DEF ProcStep, WorkerStep, Start, Recover, LifespanRecover, StopWorker, Exit, Poll,
       Observe, ObserveFails, Persist, List, Take, EndPass, ReadBack, Escalate, EscalateLost,
       SkipBackoff, Requeue, RequeueLost, CommitPlan, CommitPlanLost, FetchPlan,
       Claim, ClaimLost, RecordStarted, RunTool, FinishAction, ReadCurrent, Finalize, FinalizeLost,
       Write, Crash, Shutdown, StoreError, LifespanError, storeVars, TransitionIncident,
       CreateIncidents, InsertAction, UpdateAction, MarkInProgressNeedsHuman
<1>2. QED
  BY <1>1, NextIsProcStep DEF Tick, vars

\* create_plan appends a plan of the planner to those of the incident, and to
\* those of no other.
LEMMA CreatePlanEffect ==
  ASSUME TypeOK, HeldRecords, NEW p \in Procs, CreatePlan(p), NEW i \in Ids
  PROVE  /\ cur[p].id \in Ids
         /\ cur[p].attempt_count \in 0 .. MAX_ATTEMPTS
         /\ plans[i] \in Seq(Seq(Tools))
         /\ i # cur[p].id => plans'[i] = plans[i]
         /\ i = cur[p].id =>
              /\ plans'[i] = Append(plans[i], PlanFor(incidents[i].type, cur[p].attempt_count))
              /\ Len(plans'[i]) = Len(plans[i]) + 1
              /\ DOMAIN plans'[i] = 1 .. Len(plans[i]) + 1
              /\ \A k \in 1 .. Len(plans[i]) : plans'[i][k] = plans[i][k]
              /\ plans'[i][Len(plans[i]) + 1] = PlanFor(incidents[i].type, cur[p].attempt_count)
<1>1. cur[p] \in Snapshots /\ cur[p].id \in Ids
  BY HeldExists DEF CreatePlan, HoldingPcs
<1>2. cur[p].attempt_count \in 0 .. MAX_ATTEMPTS
  BY <1>1, ControllerAssumption DEF CreatePlan, Exhausted, Snapshots
<1>3. plans[i] \in Seq(Seq(Tools)) /\ plans \in [Ids -> Seq(Seq(Tools))]
  BY DEF TypeOK, StoreTypeOK
<1>4. PlanFor(incidents[i].type, cur[p].attempt_count) \in Seq(Tools)
  BY <1>2, PlanForType
<1>5. plans' = [plans EXCEPT ![cur[p].id] =
                  Append(@, PlanFor(incidents[cur[p].id].type, cur[p].attempt_count))]
  BY DEF CreatePlan, InsertPlan
<1>6. CASE i # cur[p].id
  BY <1>1, <1>2, <1>3, <1>5, <1>6
<1>7. CASE i = cur[p].id
  <2>1. plans'[i] = Append(plans[i], PlanFor(incidents[i].type, cur[p].attempt_count))
    BY <1>3, <1>5, <1>7
  <2>2. QED
    BY <1>1, <1>2, <1>3, <1>4, <1>7, <2>1, AppendProperties
<1>8. QED
  BY <1>6, <1>7

\* A plan stays the plan it is.
LEMMA PlansKept ==
  ASSUME TypeOK, HeldRecords, [Next]_vars, NEW i \in Ids, NEW k \in DOMAIN plans[i]
  PROVE  k \in DOMAIN plans'[i] /\ plans'[i][k] = plans[i][k]
<1>1. CASE UNCHANGED plans
  BY <1>1
<1>2. ASSUME NEW p \in Procs, CreatePlan(p)
      PROVE  k \in DOMAIN plans'[i] /\ plans'[i][k] = plans[i][k]
  <2>1. plans[i] \in Seq(Seq(Tools))
    BY DEF TypeOK, StoreTypeOK
  <2>2. k \in 1 .. Len(plans[i]) /\ Len(plans[i]) \in Nat
    BY <2>1, LenProperties
  <2>3. CASE i # cur[p].id
    BY <1>2, <2>3, CreatePlanEffect
  <2>4. CASE i = cur[p].id
    BY <1>2, <2>2, <2>4, CreatePlanEffect
  <2>5. QED
    BY <2>3, <2>4
<1>3. QED
  BY <1>1, <1>2, PlansEffect

\* A new plan is for the type of its incident, since it is made from the row.
LEMMA PlansForTypeStep ==
  ASSUME TypeOK, HeldRecords, PlansForType, [Next]_vars
  PROVE  PlansForType'
<1> SUFFICES ASSUME NEW i \in Ids, NEW k \in DOMAIN plans'[i]
             PROVE  /\ Exists(i)'
                    /\ \E n \in 0 .. MAX_ATTEMPTS : plans'[i][k] = PlanFor(incidents'[i].type, n)
  BY DEF PlansForType
<1>1. CASE k \in DOMAIN plans[i]
  <2>1. Exists(i) /\ \E n \in 0 .. MAX_ATTEMPTS : plans[i][k] = PlanFor(incidents[i].type, n)
    BY <1>1 DEF PlansForType
  <2>2. RowGrows(i) /\ plans'[i][k] = plans[i][k]
    BY <1>1, <2>1, RowsGrow, PlansKept
  <2>3. QED
    BY <2>1, <2>2 DEF RowGrows
<1>2. CASE k \notin DOMAIN plans[i]
  <2>1. PICK p \in Procs : CreatePlan(p)
    BY <1>2, PlansEffect
  <2>2. i = cur[p].id
    BY <1>2, <2>1, CreatePlanEffect
  <2>3. plans[i] \in Seq(Seq(Tools)) /\ Len(plans[i]) \in Nat /\ DOMAIN plans[i] = 1 .. Len(plans[i])
    BY LenProperties DEF TypeOK, StoreTypeOK
  <2>4. k = Len(plans[i]) + 1
    BY <1>2, <2>1, <2>2, <2>3, CreatePlanEffect
  <2>5. Exists(i)
    BY <2>1, <2>2, HeldExists DEF CreatePlan, HoldingPcs
  <2>6. RowGrows(i)
    BY <2>5, RowsGrow
  <2>7. QED
    BY <2>1, <2>2, <2>4, <2>6, CreatePlanEffect DEF RowGrows
<1>3. QED
  BY <1>1, <1>2

\* A plan is a sequence of allowlisted tools with at least one step.
LEMMA PlansType ==
  ASSUME TypeOK, PlansForType, NEW i \in Ids, NEW k \in DOMAIN plans[i]
  PROVE  plans[i][k] \in Seq(Tools) /\ plans[i][k] # <<>> /\ Len(plans[i][k]) \in Nat \ {0}
<1>1. PICK n \in 0 .. MAX_ATTEMPTS : plans[i][k] = PlanFor(incidents[i].type, n)
  BY DEF PlansForType
<1>2. plans[i][k] \in Seq(Tools) /\ plans[i][k] # <<>>
  BY <1>1, PlanForType, ControllerAssumption
<1>3. QED
  BY <1>2, EmptySeq, LenProperties

-----------------------------------------------------------------------------
(* Faults                                                                  *)

\* A step that leaves the fault count at zero is no fault.
LEMMA NoFault ==
  ASSUME TypeOK, [Next]_vars, faults' = 0
  PROVE  /\ faults = 0
         /\ \A p \in Procs : ~ Crash(p) /\ ~ StoreError(p) /\ ~ Shutdown(p) /\ ~ LifespanError(p)
<1>1. faults \in Nat
  BY DEF TypeOK
<1>2. \A p \in Procs : ~ Crash(p) /\ ~ StoreError(p) /\ ~ Shutdown(p) /\ ~ LifespanError(p)
  BY <1>1 DEF Crash, StoreError, Shutdown, LifespanError, Fault
<1>3. UNCHANGED faults
  BY <1>2 DEF Next, vars, Tick, WorkerStep, Start, Recover, LifespanRecover, StopWorker, Exit, Poll,
       Observe, ObserveFails, Persist, List, Take, EndPass, ReadBack, Escalate, EscalateLost,
       SkipBackoff, Requeue, RequeueLost, CreatePlan, CommitPlan, CommitPlanLost, FetchPlan,
       Claim, ClaimLost, RecordStarted, RunTool, FinishAction, ReadCurrent, Finalize, FinalizeLost,
       Write
<1>4. QED
  BY <1>2, <1>3

\* A service is told to stop, or stopped by its lifespan, only by a fault.
LEMMA StoppingStep ==
  ASSUME TypeOK, StoppingIsFault, [Next]_vars
  PROVE  StoppingIsFault'
<1> SUFFICES ASSUME faults' = 0, NEW q \in Procs
             PROVE  api'[q] # "stopping"
  BY DEF StoppingIsFault
<1>1. faults = 0 /\ api[q] # "stopping"
  BY NoFault DEF StoppingIsFault
<1>2. ASSUME NEW p \in Procs, ProcStep(p) PROVE api'[q] # "stopping"
  <2>1. ~ Crash(p) /\ ~ StoreError(p) /\ ~ Shutdown(p) /\ ~ LifespanError(p)
    BY NoFault
  <2>2. QED
    BY <1>1, <1>2, <2>1
       DEF TypeOK, ProcStep, WorkerStep, Start, Recover, LifespanRecover, StopWorker, Exit, Poll,
       Observe, ObserveFails, Persist, List, Take, EndPass, ReadBack, Escalate, EscalateLost,
       SkipBackoff, Requeue, RequeueLost, CreatePlan, CommitPlan, CommitPlanLost, FetchPlan,
       Claim, ClaimLost, RecordStarted, RunTool, FinishAction, ReadCurrent, Finalize, FinalizeLost,
       Write
<1>3. QED
  BY <1>1, <1>2, NextIsProcStep DEF Tick, vars

-----------------------------------------------------------------------------
(* How an execution begins and ends                                        *)

\* Only a claim begins one.
LEMMA BeginsByClaim ==
  ASSUME TypeOK, HeldRecords, OutcomeKnown, [Next]_vars, NEW i \in Ids,
         HasStatus(i, {"IN_PROGRESS"})', ~ HasStatus(i, {"IN_PROGRESS"})
  PROVE  \E p \in Procs : Claim(p) /\ cur[p].id = i
<1>1. incidents'[i] # incidents[i] /\ incidents'[i].status = "IN_PROGRESS"
  BY DEF HasStatus, Exists
<1>2. ~ MarkInProgressNeedsHuman
  BY <1>1 DEF MarkInProgressNeedsHuman
<1>3. ASSUME NEW p \in Procs, Persist(p) PROVE FALSE
  <2>1. cands[p] \in SUBSET Types /\ CreateIncidents(cands[p])
    BY <1>3 DEF Persist, TypeOK
  <2>2. QED
    BY <1>1, <2>1, CreateEffect DEF Inserted
<1>4. PICK p \in Procs : RowWrite(p)
  BY <1>1, <1>2, <1>3, IncidentsEffect
<1>5. cur[p].id = i
  BY <1>1, <1>4, WritesOneRow
<1>6. ~ Escalate(p) /\ ~ Requeue(p) /\ ~ CommitPlan(p) /\ ~ Finalize(p)
  BY <1>1, <1>5, EscalateEffect, RequeueEffect, CommitPlanEffect, FinalizeEffect DEF RowChange
<1>7. QED
  BY <1>4, <1>5, <1>6 DEF RowWrite

\* The ways an executing worker lets go of its incident.
LEMMA LetsGo ==
  ASSUME TypeOK, NEW p \in Procs, ProcStep(p), Executing(p)
  PROVE  \/ Executing(p)' /\ cur'[p].id = cur[p].id
         \/ Finalize(p) \/ FinalizeLost(p) \/ Exit(p) \/ Crash(p) \/ StoreError(p)
<1>1. ASSUME ReadBack(p) PROVE Executing(p)' /\ cur'[p].id = cur[p].id
  BY <1>1 DEF ReadBack, Resume, Snapshot, Goto, Executing, ExecutingPcs, ReadBackPcs, TypeOK
<1>2. ASSUME RecordStarted(p) \/ RunTool(p) \/ FinishAction(p) \/ ReadCurrent(p)
      PROVE  Executing(p)' /\ cur'[p].id = cur[p].id
  BY <1>2 DEF RecordStarted, RunTool, FinishAction, ReadCurrent, Snapshot, Goto, Executing,
       ExecutingPcs, TypeOK
<1>3. ~ (\/ Start(p) \/ Recover(p) \/ StopWorker(p) \/ Poll(p) \/ Observe(p) \/ ObserveFails(p)
         \/ Persist(p) \/ List(p) \/ Take(p) \/ EndPass(p) \/ Escalate(p) \/ EscalateLost(p)
         \/ SkipBackoff(p) \/ Requeue(p) \/ RequeueLost(p) \/ CreatePlan(p) \/ CommitPlan(p)
         \/ CommitPlanLost(p) \/ FetchPlan(p) \/ Claim(p) \/ ClaimLost(p))
  BY DEF Executing, ExecutingPcs, Start, Recover, StopWorker, Poll, Observe, ObserveFails, Persist,
       List, Take, EndPass, Escalate, EscalateLost, EscalationReason, SkipBackoff, BackoffPending,
       Requeue, RequeueLost, BackoffOver, CreatePlan, CommitPlan, CommitPlanLost, FetchPlan, Claim,
       ClaimLost
<1>4. ASSUME LifespanRecover(p) \/ Shutdown(p) \/ LifespanError(p)
      PROVE  Executing(p)' /\ cur'[p].id = cur[p].id
  BY <1>4 DEF LifespanRecover, Shutdown, LifespanError, locals, Executing
<1>5. QED
  BY <1>1, <1>2, <1>3, <1>4 DEF ProcStep, WorkerStep

\* Who executes an incident executes it alone, and what it executes is neither
\* OPEN, PLANNED, FAILED nor RESOLVED.
LEMMA ExecutesAlone ==
  ASSUME IInv, NEW p \in Procs, Executing(p)
  PROVE  /\ cur[p].id \in Ids
         /\ Exists(cur[p].id)
         /\ HasStatus(cur[p].id, {"IN_PROGRESS", "NEEDS_HUMAN"})
         /\ \A q \in Procs : Executing(q) /\ cur[q].id = cur[p].id => q = p
BY HeldExists DEF IInv, Claims, Executing, HoldingPcs

\* While a worker stays in an execution its row stays as it is, unless recovery
\* takes it away.
LEMMA StaysRow ==
  ASSUME IInv, [Next]_vars, NEW q \in Procs, Executing(q), Executing(q)'
  PROVE  \/ incidents'[cur[q].id] = incidents[cur[q].id]
         \/ incidents'[cur[q].id].status = "NEEDS_HUMAN"
<1>1. ASSUME NEW p \in Procs, Finalize(p), cur[p].id = cur[q].id PROVE FALSE
  <2>1. Executing(p) /\ pc'[p] = "final_read"
    BY <1>1 DEF Finalize, Write, Goto, Executing, ExecutingPcs, IInv, TypeOK
  <2>2. p = q
    BY <1>1, <2>1, ExecutesAlone
  <2>3. QED
    BY <2>1, <2>2 DEF Executing, ExecutingPcs
<1>2. QED
  BY <1>1, ExecutesAlone, ExecutedRow DEF IInv

\* The version read before the last write stays the row's.
LEMMA FinalRecordStep ==
  ASSUME IInv, FinalRecord, [Next]_vars
  PROVE  FinalRecord'
<1> SUFFICES ASSUME NEW q \in Procs, pc'[q] = "final_commit", HasStatus(cur[q].id, {"IN_PROGRESS"})'
             PROVE  cur'[q].version = incidents'[cur'[q].id].version
  BY DEF FinalRecord
<1>0. TypeOK
  BY DEF IInv
<1>1. Executing(q)' /\ ~ Claim(q)
  BY <1>0 DEF Executing, ExecutingPcs, Claim, Write, Goto, TypeOK
<1>2. Executing(q) /\ cur'[q].id = cur[q].id /\ ExecutionStep(q)
  BY <1>0, <1>1, StaysExecuting
<1>3. CASE Unmoved(q)
  <2>1. incidents'[cur[q].id] = incidents[cur[q].id]
    BY <1>1, <1>2, StaysRow DEF HasStatus
  <2>2. pc[q] = "final_commit" /\ cur'[q] = cur[q]
    BY <1>3 DEF Unmoved
  <2>3. HasStatus(cur[q].id, {"IN_PROGRESS"})
    BY <2>1, <2>2 DEF HasStatus, Exists
  <2>4. QED
    BY <2>1, <2>2, <2>3 DEF FinalRecord
<1>4. CASE ReadCurrent(q)
  BY <1>0, <1>4 DEF ReadCurrent, storeVars, Snapshot, TypeOK
<1>5. QED
  BY <1>0, <1>2, <1>3, <1>4
     DEF ExecutionStep, RecordStarted, RunTool, FinishAction, ReadBack, Claim, Write, Goto, TypeOK

\* Where nothing fails, only the write that ends an execution lets go of it:
\* that write cannot lose, since the row is the one the claim won.
LEMMA NoOrphanStep ==
  ASSUME IInv, FinalRecord, StoppingIsFault, NoOrphanWithoutFault, [Next]_vars
  PROVE  NoOrphanWithoutFault'
<1> SUFFICES ASSUME faults' = 0, NEW i \in Ids, HasStatus(i, {"IN_PROGRESS"})'
             PROVE  \E p \in Procs : ExecutedBy(i, p)'
  BY DEF NoOrphanWithoutFault
<1>0. TypeOK /\ HeldRecords /\ OutcomeKnown
  BY DEF IInv
<1>1. /\ faults = 0
      /\ \A p \in Procs : ~ Crash(p) /\ ~ StoreError(p)
  BY <1>0, NoFault
<1>2. CASE ~ HasStatus(i, {"IN_PROGRESS"})
  <2>1. PICK p \in Procs : Claim(p) /\ cur[p].id = i
    BY <1>0, <1>2, BeginsByClaim
  <2>2. ExecutedBy(i, p)'
    BY <1>0, <2>1 DEF Claim, Write, Goto, locals, ExecutedBy, Executing, ExecutingPcs, TypeOK
  <2>3. QED
    BY <2>2
<1>3. CASE HasStatus(i, {"IN_PROGRESS"})
  <2>1. PICK p \in Procs : Executing(p) /\ cur[p].id = i
    BY <1>1, <1>3 DEF NoOrphanWithoutFault, ExecutedBy
  <2>2. CASE Unmoved(p)
    BY <2>1, <2>2 DEF Unmoved, ExecutedBy, Executing
  <2>3. CASE ProcStep(p)
    <3>1. ~ Finalize(p)
      <4>1. ASSUME Finalize(p) PROVE FALSE
        <5>1. incidents'[i].status \in {"RESOLVED", "FAILED"}
          BY <1>0, <2>1, <4>1, FinalizeEffect DEF RowChange
        <5>2. QED
          BY <5>1 DEF HasStatus
      <4>2. QED
        BY <4>1
    <3>2. ~ FinalizeLost(p)
      BY <1>3, <2>1 DEF FinalizeLost, LosesRace, CanWrite, FinalRecord, FinalStatus, CanTransition,
           Transitions
    <3>3. ~ Exit(p)
      BY <1>1 DEF Exit, StoppingIsFault
    <3>4. QED
      BY <1>0, <1>1, <2>1, <2>3, <3>1, <3>2, <3>3, LetsGo DEF ExecutedBy, Executing
  <2>4. QED
    BY <1>0, <2>2, <2>3, NextIsProcStep, OthersUnmoved DEF Tick, vars, locals, Unmoved
<1>4. QED
  BY <1>2, <1>3

-----------------------------------------------------------------------------
(* The trail of an execution                                               *)

\* Nothing has to be there for no steps.
LEMMA TrailEmpty ==
  ASSUME NEW s, NEW plan, NEW m \in Nat
  PROVE  Trail(s, plan, 0, m)
BY DEF Trail

\* A new action leaves the trail before it as it is.
LEMMA TrailBefore ==
  ASSUME NEW s \in Seq(Actions), NEW a \in Actions, NEW plan, NEW len \in Nat,
         Trail(s, plan, len, Len(s))
  PROVE  /\ Len(Append(s, a)) = Len(s) + 1
         /\ Append(s, a)[Len(s) + 1] = a
         /\ Trail(Append(s, a), plan, len, Len(s))
<1>1. /\ Len(s) \in Nat
      /\ Len(Append(s, a)) = Len(s) + 1
      /\ Append(s, a)[Len(s) + 1] = a
      /\ \A j \in 1 .. Len(s) : Append(s, a)[j] = s[j]
  BY AppendProperties, LenProperties
<1>2. ASSUME NEW k \in 1 .. len
      PROVE  Append(s, a)[Len(s) - len + k] = s[Len(s) - len + k]
  <2>1. Len(s) - len + k \in 1 .. Len(s)
    BY <1>1 DEF Trail
  <2>2. QED
    BY <1>1, <2>1
<1>3. QED
  BY <1>1, <1>2 DEF Trail

\* An action that has succeeded makes the trail one step longer.
LEMMA TrailLonger ==
  ASSUME NEW s \in Seq(Actions), Len(s) > 0, NEW plan, NEW step \in Nat \ {0},
         s[Len(s)] = [plan |-> plan, step |-> step, status |-> "STARTED"],
         Trail(s, plan, step - 1, Len(s) - 1)
  PROVE  /\ Len([s EXCEPT ![Len(s)].status = "SUCCEEDED"]) = Len(s)
         /\ Trail([s EXCEPT ![Len(s)].status = "SUCCEEDED"], plan, step, Len(s))
<1> DEFINE n == Len(s)
           t == [s EXCEPT ![n].status = "SUCCEEDED"]
<1>1. n \in Nat \ {0} /\ DOMAIN s = 1 .. n /\ DOMAIN t = 1 .. n
  BY LenProperties
<1>2. t[n] = [plan |-> plan, step |-> step, status |-> "SUCCEEDED"]
  <2>1. t[n] = [s[n] EXCEPT !.status = "SUCCEEDED"]
    BY <1>1
  <2>2. QED
    BY <2>1
<1>3. \A j \in 1 .. n - 1 : t[j] = s[j]
  BY <1>1
<1>4. Len(t) = n
  <2>1. [plan |-> plan, step |-> step, status |-> "SUCCEEDED"] \in Actions
    <3>1. s[n] \in Actions
      BY <1>1, ElementOfSeq
    <3>2. QED
      BY <3>1 DEF Actions
  <2>2. t = [s EXCEPT ![n] = [plan |-> plan, step |-> step, status |-> "SUCCEEDED"]]
    BY <1>1, <1>2
  <2>3. QED
    BY <1>1, <2>1, <2>2, ExceptSeq
<1>5. ASSUME NEW k \in 1 .. step
      PROVE  t[n - step + k] = [plan |-> plan, step |-> k, status |-> "SUCCEEDED"]
  <2>1. CASE k = step
    BY <1>1, <1>2, <2>1
  <2>2. CASE k # step
    <3>1. /\ k \in 1 .. step - 1
          /\ n - step + k \in 1 .. n - 1
          /\ (n - 1) - (step - 1) + k = n - step + k
      BY <1>1, <2>2 DEF Trail
    <3>2. s[(n - 1) - (step - 1) + k] = [plan |-> plan, step |-> k, status |-> "SUCCEEDED"]
      BY <3>1 DEF Trail
    <3>3. QED
      BY <1>3, <3>1, <3>2
  <2>3. QED
    BY <2>1, <2>2
<1>6. step <= n
  BY <1>1 DEF Trail
<1>7. QED
  BY <1>4, <1>5, <1>6 DEF Trail

\* A worker gets past the first step only in a plan.
LEMMA FirstStep ==
  ASSUME TypeOK, AtFirstStep, [Next]_vars
  PROVE  AtFirstStep'
<1> DEFINE Later == {"record", "tool", "finish", "final", "final_commit", "final_read"}
<1>1. ASSUME NEW p \in Procs, ProcStep(p), pc'[p] \notin Later
      PROVE  job'[p].step = 1
  <2>0. pc[p] \notin Later => job[p].step = 1
    BY DEF AtFirstStep
  <2>1. CASE DropLocals(p) \/ NextIncident(p)
    BY <2>1 DEF DropLocals, NextIncident, NoJob, TypeOK
  <2>2. CASE ReadBack(p) /\ ~ NextIncident(p)
    <3>1. pc[p] \notin Later \/ pc[p] = "final_read"
      BY <2>2 DEF ReadBack, ReadBackPcs
    <3>2. /\ pc[p] # "final_read"
          /\ job'[p].step = job[p].step
      BY <1>1, <2>2 DEF ReadBack, Resume, Goto, TypeOK, Jobs
    <3>3. QED
      BY <2>0, <3>1, <3>2
  <2>3. CASE FetchPlan(p)
    BY <2>0, <2>3 DEF FetchPlan, TypeOK, Jobs
  <2>4. CASE LifespanRecover(p) \/ Shutdown(p) \/ LifespanError(p)
    BY <1>1, <2>0, <2>4 DEF LifespanRecover, Shutdown, LifespanError, locals
  <2>5. CASE Take(p) \/ Escalate(p)
    <3>1. pc[p] \notin Later
      BY <2>5 DEF Take, Escalate, EscalationReason
    <3>2. QED
      BY <2>0, <2>5, <3>1 DEF Take, Escalate, Write, locals
  <2>6. CASE \/ Start(p) \/ Recover(p) \/ StopWorker(p) \/ Poll(p) \/ Observe(p) \/ Persist(p)
             \/ List(p) \/ EndPass(p) \/ Requeue(p) \/ CreatePlan(p) \/ CommitPlan(p)
             \/ Claim(p) \/ ClaimLost(p)
    BY <2>0, <2>6 DEF Start, Recover, StopWorker, Poll, Observe, Persist, List, EndPass, Requeue,
         BackoffOver, CreatePlan, CommitPlan, Claim, ClaimLost, Write, locals
  <2>7. ~ (\/ RecordStarted(p) \/ RunTool(p) \/ FinishAction(p) \/ ReadCurrent(p) \/ Finalize(p))
    BY <1>1 DEF RecordStarted, RunTool, FinishAction, ReadCurrent, Finalize, Write, Goto, TypeOK
  <2>8. QED
    BY <1>1, <2>1, <2>2, <2>3, <2>4, <2>5, <2>6, <2>7
       DEF ProcStep, WorkerStep, Exit, ObserveFails, EscalateLost, FinalizeLost, AbortPass,
         SkipBackoff, RequeueLost, CommitPlanLost, Crash, StoreError
<1>2. ASSUME NEW p \in Procs, ProcStep(p), NEW q \in Procs, q # p, pc'[q] \notin Later
      PROVE  job'[q].step = 1
  BY <1>2, OthersUnmoved DEF AtFirstStep, Unmoved
<1>3. CASE Tick \/ UNCHANGED vars
  BY <1>3 DEF AtFirstStep, Tick, vars, locals
<1>4. QED
  BY <1>1, <1>2, <1>3, NextIsProcStep DEF AtFirstStep

\* The worker about to claim holds a plan of its incident.
LEMMA ClaimHoldsPlan ==
  ASSUME IInv, TrailSoFar, [Next]_vars, NEW q \in Procs, pc'[q] = "claim"
  PROVE  HoldsPlan(q)'
<1>0. TypeOK /\ HeldRecords
  BY DEF IInv
<1>1. CASE Unmoved(q)
  <2>1. pc[q] = "claim" /\ job'[q] = job[q] /\ cur'[q] = cur[q]
    BY <1>1 DEF Unmoved
  <2>2. cur[q].id \in Ids /\ job[q].plan \in DOMAIN plans[cur[q].id]
    BY <1>0, <2>1, HeldExists DEF HoldingPcs, TrailSoFar, HoldsPlan
  <2>3. QED
    BY <1>0, <2>1, <2>2, PlansKept DEF HoldsPlan
<1>2. CASE FetchPlan(q)
  <2>1. /\ cur[q].id \in Ids
        /\ job'[q].plan = Len(plans[cur[q].id])
        /\ Len(plans[cur[q].id]) # 0
        /\ cur' = cur /\ plans' = plans
    BY <1>0, <1>2, HeldExists DEF FetchPlan, HoldingPcs, LatestPlan, TypeOK, Jobs, storeVars
  <2>2. plans[cur[q].id] \in Seq(Seq(Tools))
    BY <1>0, <2>1 DEF TypeOK, StoreTypeOK
  <2>3. Len(plans[cur[q].id]) \in DOMAIN plans[cur[q].id]
    BY <2>1, <2>2, LenProperties
  <2>4. QED
    BY <2>1, <2>3 DEF HoldsPlan
<1>3. CASE ProcStep(q) /\ ~ Unmoved(q)
  <2>1. ~ ReadBack(q) /\ ~ Take(q)
    BY <1>0, <1>3 DEF ReadBack, NextIncident, Resume, Take, Goto, TypeOK
  <2>2. FetchPlan(q)
    BY <1>0, <1>3, <2>1
       DEF ProcStep, WorkerStep, Unmoved, TypeOK, Start, Recover, LifespanRecover, StopWorker, Exit,
         Poll, Observe, ObserveFails, Persist, List, EndPass, Escalate, EscalateLost, SkipBackoff,
         Requeue, RequeueLost, CreatePlan, CommitPlan, CommitPlanLost, Claim, ClaimLost,
         RecordStarted, RunTool, FinishAction, ReadCurrent, Finalize, FinalizeLost, Write, Crash,
         Shutdown, StoreError, LifespanError, Goto, AbortPass, PassEnd, NextIncident, locals
  <2>3. QED
    BY <1>2, <2>2
<1>4. QED
  BY <1>0, <1>1, <1>2, <1>3, NextIsProcStep, OthersUnmoved DEF Tick, vars, locals, Unmoved

\* The actions of an incident are those its executing worker has recorded.
LEMMA ActionsOfExecution ==
  ASSUME IInv, [Next]_vars, NEW q \in Procs, Executing(q), ~ RecordStarted(q), ~ FinishAction(q)
  PROVE  actions'[cur[q].id] = actions[cur[q].id]
<1>1. CASE UNCHANGED actions
  BY <1>1
<1>2. ASSUME NEW p \in Procs, RecordStarted(p) \/ FinishAction(p)
      PROVE  actions'[cur[q].id] = actions[cur[q].id]
  <2>1. Executing(p) /\ p # q
    BY <1>2 DEF RecordStarted, FinishAction, Executing, ExecutingPcs
  <2>2. cur[p].id # cur[q].id
    BY <2>1, ExecutesAlone
  <2>3. cur[q].id \in Ids
    BY ExecutesAlone
  <2>4. QED
    BY <1>2, <2>2, <2>3
       DEF RecordStarted, InsertAction, FinishAction, UpdateAction, IInv, TypeOK, StoreTypeOK
<1>3. QED
  BY <1>1, <1>2, ActionsEffect

\* Nor are those of an incident nobody executes touched.
LEMMA ActionsOfOthers ==
  ASSUME IInv, [Next]_vars, NEW i \in Ids, ~ HasStatus(i, {"IN_PROGRESS", "NEEDS_HUMAN"})
  PROVE  actions'[i] = actions[i]
<1>1. CASE UNCHANGED actions
  BY <1>1
<1>2. ASSUME NEW p \in Procs, RecordStarted(p) \/ FinishAction(p)
      PROVE  actions'[i] = actions[i]
  <2>1. Executing(p)
    BY <1>2 DEF RecordStarted, FinishAction, Executing, ExecutingPcs
  <2>2. cur[p].id # i
    BY <2>1, ExecutesAlone
  <2>3. QED
    BY <1>2, <2>2
       DEF RecordStarted, InsertAction, FinishAction, UpdateAction, IInv, TypeOK, StoreTypeOK
<1>3. QED
  BY <1>1, <1>2, ActionsEffect

\* A worker in an execution keeps its plan, and its place in it is a step of it.
LEMMA KeepsPlan ==
  ASSUME IInv, [Next]_vars, NEW q \in Procs, HoldsPlan(q), cur[q].id \in Ids,
         cur'[q].id = cur[q].id, job'[q].plan = job[q].plan
  PROVE  HoldsPlan(q)' /\ Steps(q)' = Steps(q)
BY PlansKept DEF IInv, HoldsPlan, Steps

\* Each step of an execution writes the trail on: record_action appends the
\* step's action, its update completes it, and no other worker writes there.
LEMMA TrailingStep ==
  ASSUME IInv, AtFirstStep, PlansForType, TrailSoFar, [Next]_vars,
         NEW q \in Procs, Executing(q)'
  PROVE  Trailing(q)'
<1>0. TypeOK /\ HeldRecords
  BY DEF IInv
<1>1. CASE Claim(q)
  <2>1. /\ pc[q] = "claim" /\ pc'[q] = "claim_read"
        /\ cur'[q] = cur[q] /\ job'[q] = job[q]
        /\ cur[q].id \in Ids
        /\ plans' = plans /\ actions' = actions
    BY <1>0, <1>1, HeldExists
       DEF Claim, Write, TransitionIncident, Goto, locals, TypeOK, HoldingPcs
  <2>2. HoldsPlan(q) /\ job[q].step = 1
    BY <2>1 DEF TrailSoFar, AtFirstStep
  <2>3. Len(Steps(q)) \in Nat \ {0}
    BY <1>0, <2>1, <2>2, PlansType DEF HoldsPlan, Steps
  <2>4. Len(actions[cur[q].id]) \in Nat
    BY <1>0, <2>1, LenProperties DEF TypeOK, StoreTypeOK
  <2>5. Trail(actions[cur[q].id], job[q].plan, 0, Len(actions[cur[q].id]))
    BY <2>4, TrailEmpty
  <2>6. QED
    BY <2>1, <2>2, <2>3, <2>5 DEF Trailing, HoldsPlan, Steps
<1>2. CASE ~ Claim(q)
  <2>0. Executing(q) /\ cur'[q].id = cur[q].id /\ ExecutionStep(q)
    BY <1>0, <1>2, StaysExecuting
  <2>1. /\ Trailing(q) /\ HoldsPlan(q) /\ job[q].step \in 1 .. Len(Steps(q))
        /\ cur[q].id \in Ids /\ job[q] \in Jobs
    BY <1>0, <2>0, ExecutesAlone DEF TrailSoFar, Trailing, TypeOK
  <2>2. Len(Steps(q)) \in Nat \ {0}
    BY <1>0, <2>1, PlansType DEF HoldsPlan, Steps
  <2> DEFINE i == cur[q].id
             s == actions[i]
             n == Len(s)
  <2>3. s \in Seq(Actions) /\ n \in Nat
    BY <1>0, <2>1, LenProperties DEF TypeOK, StoreTypeOK
  <2>4. CASE Unmoved(q)
    <3>1. actions'[i] = s
      <4>1. ~ RecordStarted(q) /\ ~ FinishAction(q)
        BY <1>0, <2>4 DEF Unmoved, RecordStarted, FinishAction, Goto, TypeOK
      <4>2. QED
        BY <2>0, <4>1, ActionsOfExecution
    <3>2. HoldsPlan(q)' /\ Steps(q)' = Steps(q)
      BY <2>0, <2>1, <2>4, KeepsPlan DEF Unmoved
    <3>3. QED
      BY <2>0, <2>1, <2>4, <3>1, <3>2 DEF Trailing, Unmoved, Succeeded
  <2>5. CASE ReadBack(q) /\ pc[q] = "claim_read" /\ pc'[q] = "record"
    <3>1. /\ job'[q].plan = job[q].plan /\ job'[q].step = job[q].step
          /\ actions' = actions
      BY <1>0, <2>5 DEF ReadBack, NextIncident, Goto, Resume, storeVars, TypeOK, Jobs
    <3>2. HoldsPlan(q)' /\ Steps(q)' = Steps(q)
      BY <2>0, <2>1, <3>1, KeepsPlan
    <3>3. QED
      BY <2>0, <2>1, <2>5, <3>1, <3>2 DEF Trailing
  <2>6. CASE RecordStarted(q)
    <3> DEFINE a == [plan |-> job[q].plan, step |-> job[q].step, status |-> "STARTED"]
    <3>1. /\ pc[q] = "record" /\ pc'[q] = "tool"
          /\ job'[q].plan = job[q].plan /\ job'[q].step = job[q].step /\ job'[q].row = n + 1
          /\ actions'[i] = Append(s, a)
      BY <1>0, <2>1, <2>6 DEF RecordStarted, InsertAction, Goto, TypeOK, StoreTypeOK, Jobs
    <3>2. a \in Actions /\ job[q].step - 1 \in Nat
      BY <2>1 DEF Actions, Jobs
    <3>3. Trail(s, job[q].plan, job[q].step - 1, n)
      BY <2>1, <3>1 DEF Trailing
    <3>4. /\ Len(Append(s, a)) = n + 1
          /\ Append(s, a)[n + 1] = a
          /\ Trail(Append(s, a), job[q].plan, job[q].step - 1, n)
      BY <2>3, <3>2, <3>3, TrailBefore
    <3>5. HoldsPlan(q)' /\ Steps(q)' = Steps(q)
      BY <2>0, <2>1, <3>1, KeepsPlan
    <3>6. QED
      BY <2>0, <2>1, <2>3, <3>1, <3>4, <3>5 DEF Trailing
  <2>7. CASE RunTool(q)
    <3>1. /\ pc[q] = "tool" /\ pc'[q] = "finish"
          /\ job'[q].plan = job[q].plan /\ job'[q].step = job[q].step /\ job'[q].row = job[q].row
          /\ actions' = actions
      BY <1>0, <2>7 DEF RunTool, Goto, storeVars, TypeOK, Jobs
    <3>2. HoldsPlan(q)' /\ Steps(q)' = Steps(q)
      BY <2>0, <2>1, <3>1, KeepsPlan
    <3>3. QED
      BY <2>0, <2>1, <3>1, <3>2 DEF Trailing
  <2>8. CASE FinishAction(q) /\ ~ Succeeded(q)
    <3>1. /\ pc'[q] = "final" /\ job' = job
      BY <1>0, <2>8 DEF FinishAction, Goto, TypeOK
    <3>2. HoldsPlan(q)' /\ Steps(q)' = Steps(q)
      BY <2>0, <2>1, <3>1, KeepsPlan
    <3>3. QED
      BY <2>0, <2>1, <2>8, <3>1, <3>2 DEF Trailing, Succeeded
  <2>9. CASE FinishAction(q) /\ Succeeded(q)
    <3> DEFINE t == [s EXCEPT ![n].status = "SUCCEEDED"]
    <3>1. /\ pc[q] = "finish" /\ n > 0 /\ job[q].row = n
          /\ s[n] = [plan |-> job[q].plan, step |-> job[q].step, status |-> "STARTED"]
          /\ Trail(s, job[q].plan, job[q].step - 1, n - 1)
      BY <2>1, <2>9 DEF Trailing, FinishAction
    <3>2. actions'[i] = t
      BY <1>0, <2>1, <2>9, <3>1 DEF FinishAction, UpdateAction, TypeOK, StoreTypeOK
    <3>3. Len(t) = n /\ Trail(t, job[q].plan, job[q].step, n)
      <4>1. s \in Seq(Actions) /\ n = Len(s) /\ job[q].step \in Nat \ {0}
        BY <2>1, <2>2, <2>3
      <4> HIDE DEF s
      <4>2. QED
        BY <3>1, <4>1, TrailLonger
    <3>4. CASE LastStep(q)
      <4>1. pc'[q] = "final" /\ job' = job
        BY <1>0, <2>9, <3>4 DEF FinishAction, Goto, TypeOK
      <4>2. HoldsPlan(q)' /\ Steps(q)' = Steps(q)
        BY <2>0, <2>1, <4>1, KeepsPlan
      <4>3. QED
        BY <2>0, <2>1, <3>2, <3>3, <3>4, <4>1, <4>2 DEF Trailing, LastStep
    <3>5. CASE ~ LastStep(q)
      <4>1. /\ pc'[q] = "record"
            /\ job'[q].plan = job[q].plan /\ job'[q].step = job[q].step + 1
        BY <1>0, <2>9, <3>5 DEF FinishAction, Goto, TypeOK, Jobs
      <4>2. HoldsPlan(q)' /\ Steps(q)' = Steps(q)
        BY <2>0, <2>1, <4>1, KeepsPlan
      <4>3. job[q].step + 1 \in 1 .. Len(Steps(q))
        BY <2>1, <2>2, <3>5 DEF LastStep
      <4>4. Trail(t, job'[q].plan, job'[q].step - 1, Len(t))
        <5>1. job'[q].step - 1 = job[q].step
          <6>1. job[q].step \in Nat
            BY <2>1 DEF Jobs
          <6>2. QED
            BY <4>1, <6>1
        <5> HIDE DEF t
        <5>2. QED
          BY <3>3, <4>1, <5>1
      <4>5. job'[q].step \in 1 .. Len(Steps(q)')
        BY <4>1, <4>2, <4>3
      <4>6. QED
        BY <2>0, <3>2, <4>1, <4>2, <4>4, <4>5 DEF Trailing
    <3>6. QED
      BY <3>4, <3>5
  <2>10. CASE ReadCurrent(q)
    <3>1. /\ pc[q] = "final" /\ pc'[q] = "final_commit"
          /\ job' = job /\ actions' = actions
      BY <1>0, <2>10 DEF ReadCurrent, Goto, storeVars, TypeOK
    <3>2. HoldsPlan(q)' /\ Steps(q)' = Steps(q)
      BY <2>0, <2>1, <3>1, KeepsPlan
    <3>3. QED
      BY <2>0, <2>1, <3>1, <3>2 DEF Trailing, Succeeded
  <2>11. QED
    BY <1>2, <2>0, <2>4, <2>5, <2>6, <2>7, <2>8, <2>9, <2>10 DEF ExecutionStep
<1>3. QED
  BY <1>1, <1>2

\* Every worker's trail is as its place in the plan says.
LEMMA TrailStep ==
  ASSUME IInv, AtFirstStep, PlansForType, TrailSoFar, [Next]_vars
  PROVE  TrailSoFar'
BY TrailingStep, ClaimHoldsPlan DEF TrailSoFar

\* A RESOLVED incident got so by a plan all of whose steps had succeeded, and
\* nobody writes to its trail after that.
LEMMA ResolvedStep ==
  ASSUME IInv, PlansForType, TrailSoFar, ResolvedByPlan, [Next]_vars
  PROVE  ResolvedByPlan'
<1> SUFFICES ASSUME NEW i \in Ids, HasStatus(i, {"RESOLVED"})'
             PROVE  \E plan \in DOMAIN plans'[i] :
                      /\ plans'[i][plan] # <<>>
                      /\ Trail(actions'[i], plan, Len(plans'[i][plan]), Len(actions'[i]))
  BY DEF ResolvedByPlan
<1>0. TypeOK /\ HeldRecords /\ OutcomeKnown
  BY DEF IInv
<1>1. CASE HasStatus(i, {"RESOLVED"})
  <2>1. actions'[i] = actions[i]
    BY <1>1, ActionsOfOthers DEF HasStatus
  <2>2. PICK plan \in DOMAIN plans[i] :
          /\ plans[i][plan] # <<>>
          /\ Trail(actions[i], plan, Len(plans[i][plan]), Len(actions[i]))
    BY <1>1 DEF ResolvedByPlan
  <2>3. plan \in DOMAIN plans'[i] /\ plans'[i][plan] = plans[i][plan]
    BY <1>0, PlansKept
  <2>4. QED
    BY <2>1, <2>2, <2>3
<1>2. CASE ~ HasStatus(i, {"RESOLVED"})
  <2>1. RowSteps(i) /\ incidents'[i].status = "RESOLVED" /\ Exists(i)'
    BY <1>0, RowEffect DEF HasStatus
  <2>2. HasStatus(i, {"IN_PROGRESS"})
    BY <1>2, <2>1 DEF RowSteps, RowChange, Recovered, Inserted, HasStatus, Exists
  <2>3. PICK p \in Procs : Finalize(p) /\ cur[p].id = i
    BY <1>0, <2>1, <2>2, EndsByFinalize
  <2>4. Executing(p) /\ pc[p] = "final_commit"
    BY <2>3 DEF Finalize, Executing, ExecutingPcs
  <2>5. Succeeded(p)
    <3>1. RowChange(i, "IN_PROGRESS", FinalStatus(p), 0, FinalError(p))
      BY <1>0, <2>3, <2>4, WonIsRow DEF Finalize, HoldingPcs, ExecutingPcs
    <3>2. QED
      BY <2>1, <3>1 DEF RowChange, FinalStatus
  <2>6. HoldsPlan(p) /\ Trail(actions[i], job[p].plan, Len(Steps(p)), Len(actions[i]))
    BY <2>3, <2>4, <2>5 DEF TrailSoFar, Trailing
  <2>7. plans[i][job[p].plan] # <<>> /\ plans' = plans /\ actions' = actions
    BY <1>0, <2>3, <2>6, PlansType DEF HoldsPlan, Finalize, Write, TransitionIncident
  <2>8. QED
    BY <2>3, <2>6, <2>7 DEF HoldsPlan, Steps
<1>3. QED
  BY <1>1, <1>2

\* In the initial state there is nothing to execute and nothing executed,
LEMMA InitExecution ==
  ASSUME Init
  PROVE  ExecutionInv
<1>1. IInv
  BY InitInvariant
<1>2. \A i \in Ids : ~ Exists(i) /\ plans[i] = <<>>
  BY DEF Init, StoreInit, Exists
<1>3. \A p \in Procs : pc[p] = "off" /\ api[p] = "off" /\ job[p] = NoJob
  BY DEF Init
<1>4. StoppingIsFault /\ FinalRecord /\ AtFirstStep /\ TrailSoFar
  BY <1>3 DEF StoppingIsFault, FinalRecord, AtFirstStep, TrailSoFar, Executing, ExecutingPcs, NoJob
<1>5. NoOrphanWithoutFault /\ ResolvedByPlan
  BY <1>2 DEF NoOrphanWithoutFault, ResolvedByPlan, HasStatus
<1>6. PlansForType
  BY <1>2 DEF PlansForType
<1>7. QED
  BY <1>1, <1>4, <1>5, <1>6 DEF ExecutionInv

\* and every step keeps what is true of executions.
LEMMA StepExecution ==
  ASSUME ExecutionInv, [Next]_vars
  PROVE  ExecutionInv'
<1>1. IInv /\ TypeOK /\ HeldRecords
  BY DEF ExecutionInv, IInv
<1>2. IInv'
  BY <1>1, StepInvariant
<1>3. StoppingIsFault' /\ FinalRecord' /\ NoOrphanWithoutFault'
  BY <1>1, StoppingStep, FinalRecordStep, NoOrphanStep DEF ExecutionInv
<1>4. PlansForType' /\ AtFirstStep' /\ TrailSoFar' /\ ResolvedByPlan'
  BY <1>1, PlansForTypeStep, FirstStep, TrailStep, ResolvedStep DEF ExecutionInv
<1>5. QED
  BY <1>2, <1>3, <1>4 DEF ExecutionInv

\* ExecutionInv holds in every state, with any number of workers.
THEOREM ExecutionInvariance == Spec => []ExecutionInv
<1>1. Init => ExecutionInv
  BY InitExecution
<1>2. ExecutionInv /\ [Next]_vars => ExecutionInv'
  BY StepExecution
<1>3. QED
  BY <1>1, <1>2, PTL DEF Spec

\* Until a crash, a shutdown or a store error happens, every row IN_PROGRESS is
\* being executed by a worker: no path of execute_plan, not the one that loses
\* its last write either, drops an incident it has claimed.
THEOREM NoOrphanWithoutFaultAlways == Spec => []NoOrphanWithoutFault
<1>1. ExecutionInv => NoOrphanWithoutFault
  BY DEF ExecutionInv
<1>2. QED
  BY <1>1, ExecutionInvariance, PTL

\* A RESOLVED row's actions end with all the steps of one plan, in order, each
\* SUCCEEDED: the audit trail proves the repair, whoever else raced for the row.
THEOREM ResolvedTrailAlways == Spec => []ResolvedTrail
<1>1. ASSUME ExecutionInv PROVE ResolvedTrail
  <2> SUFFICES ASSUME NEW i \in Ids, HasStatus(i, {"RESOLVED"})
               PROVE  LET n    == Len(actions[i])
                          plan == actions[i][n].plan
                          len  == Len(plans[i][plan])
                      IN /\ n >= len
                         /\ \A k \in 1 .. len :
                              actions[i][n - len + k] =
                                [plan |-> plan, step |-> k, status |-> "SUCCEEDED"]
    BY DEF ResolvedTrail
  <2>1. PICK plan \in DOMAIN plans[i] :
          Trail(actions[i], plan, Len(plans[i][plan]), Len(actions[i]))
    BY <1>1 DEF ExecutionInv, ResolvedByPlan
  <2> DEFINE n   == Len(actions[i])
             len == Len(plans[i][plan])
  <2>2. len \in Nat \ {0} /\ n \in Nat
    BY <1>1, PlansType, LenProperties DEF ExecutionInv, IInv, TypeOK, StoreTypeOK
  <2>3. /\ n >= len
        /\ \A k \in 1 .. len :
             actions[i][n - len + k] = [plan |-> plan, step |-> k, status |-> "SUCCEEDED"]
    BY <2>1, <2>2 DEF Trail
  <2>4. actions[i][n].plan = plan
    <3>1. len \in 1 .. len /\ n - len + len = n
      BY <2>2
    <3>2. actions[i][n] = [plan |-> plan, step |-> len, status |-> "SUCCEEDED"]
      BY <2>3, <3>1
    <3>3. QED
      BY <3>2
  <2>5. QED
    BY <2>3, <2>4
<1>2. QED
  BY <1>1, ExecutionInvariance, PTL

-----------------------------------------------------------------------------
(* One worker                                                              *)

\* The API alone takes no step of a worker.
LEMMA ApiStep ==
  ASSUME TypeOK, NoWorkerInApi, [Next]_vars
  PROVE  NoWorkerInApi'
<1>1. ASSUME NEW p \in Procs, ProcStep(p), Mode[p] = "api"
      PROVE  pc'[p] = "off" /\ queue'[p] = {}
  <2>1. pc[p] = "off" /\ queue[p] = {}
    BY <1>1 DEF NoWorkerInApi
  <2>2. Start(p) \/ LifespanRecover(p) \/ Exit(p) \/ LifespanError(p) \/ Crash(p) \/ Shutdown(p)
    BY <1>1, <2>1
       DEF ProcStep, WorkerStep, Recover, StopWorker, Poll, Observe, ObserveFails, Persist, List,
         Take, EndPass, ReadBack, Escalate, EscalateLost, EscalationReason, SkipBackoff, Requeue,
         BackoffPending, BackoffOver, RequeueLost, CreatePlan, CommitPlan, CommitPlanLost, FetchPlan,
         Claim, ClaimLost, RecordStarted, RunTool, FinishAction, ReadCurrent, Finalize, FinalizeLost,
         StoreError, StorePcs, ExecutingPcs, ReadBackPcs
  <2>3. QED
    BY <1>1, <2>1, <2>2 DEF Start, LifespanRecover, Exit, LifespanError, Crash, Shutdown, DropLocals,
         Goto, locals, TypeOK
<1>2. ASSUME NEW p \in Procs, ProcStep(p), NEW q \in Procs, q # p, Mode[q] = "api"
      PROVE  pc'[q] = "off" /\ queue'[q] = {}
  BY <1>2, OthersUnmoved DEF NoWorkerInApi, Unmoved
<1>3. CASE Tick \/ UNCHANGED vars
  BY <1>3 DEF NoWorkerInApi, Tick, vars, locals
<1>4. QED
  BY <1>1, <1>2, <1>3, NextIsProcStep DEF NoWorkerInApi

\* A row nobody executes changes only by a write of the one worker, of the
\* incident it holds.
LEMMA OnlyOwnRow ==
  ASSUME OneWorker, IInv, NoWorkerInApi, [Next]_vars, NEW q \in Procs, Mode[q] # "api",
         NEW i \in Ids, Exists(i), incidents[i].status # "IN_PROGRESS",
         incidents'[i] # incidents[i]
  PROVE  RowWrite(q) /\ cur[q].id = i
<1>0. TypeOK /\ HeldRecords
  BY DEF IInv
<1>1. ~ MarkInProgressNeedsHuman
  BY DEF MarkInProgressNeedsHuman, HasStatus
<1>2. \A p \in Procs : ~ Persist(p)
  BY DEF Persist, CreateIncidents
<1>3. PICK p \in Procs : RowWrite(p)
  BY <1>1, <1>2, IncidentsEffect
<1>4. pc[p] # "off"
  BY <1>0, <1>3, RowWriteIsWrite DEF HoldingPcs, ExecutingPcs, ReadBackPcs
<1>5. p = q
  BY <1>4 DEF NoWorkerInApi, OneWorker
<1>6. QED
  BY <1>0, <1>3, <1>5, WritesOneRow

\* And the plans grow only for the incident it holds.
LEMMA OnlyOwnPlan ==
  ASSUME OneWorker, IInv, NoWorkerInApi, [Next]_vars, NEW q \in Procs, Mode[q] # "api",
         NEW i \in Ids, plans'[i] # plans[i]
  PROVE  CreatePlan(q) /\ cur[q].id = i
<1>1. PICK p \in Procs : CreatePlan(p)
  BY PlansEffect
<1>2. p = q
  BY <1>1 DEF CreatePlan, NoWorkerInApi, OneWorker
<1>3. QED
  BY <1>1, <1>2, CreatePlanEffect DEF IInv

\* What is on a worker's list later was on it before, or is read now; and the
\* incident a worker holds later it held before, or has just taken.
LEMMA ListSteps ==
  ASSUME TypeOK, NEW p \in Procs, ProcStep(p)
  PROVE  /\ queue'[p] \subseteq queue[p] \/ List(p)
         /\ pc'[p] \in HoldingPcs =>
              \/ Take(p)
              \/ pc[p] \in HoldingPcs /\ cur'[p].id = cur[p].id
<1>1. CASE Take(p)
  BY <1>1 DEF Take, TypeOK
<1>2. CASE List(p)
  BY <1>2 DEF List, Goto, HoldingPcs, ExecutingPcs, ReadBackPcs, TypeOK
<1>3. CASE DropLocals(p) /\ pc'[p] \in {"off", "idle"}
  BY <1>3 DEF DropLocals, HoldingPcs, ExecutingPcs, ReadBackPcs, TypeOK
<1>4. CASE NextIncident(p)
  BY <1>4 DEF NextIncident, Goto, HoldingPcs, ExecutingPcs, ReadBackPcs, TypeOK
<1>5. CASE ReadBack(p) /\ ~ NextIncident(p)
  BY <1>5 DEF ReadBack, Snapshot, HoldingPcs, TypeOK
<1>6. CASE \/ Start(p) \/ Recover(p) \/ StopWorker(p) \/ Poll(p) \/ Observe(p) \/ Persist(p)
           \/ EndPass(p)
  BY <1>6 DEF Start, Recover, StopWorker, Poll, Observe, Persist, EndPass, PassEnd, Goto, locals,
       HoldingPcs, ExecutingPcs, ReadBackPcs, TypeOK
<1>7. CASE Escalate(p)
  BY <1>7 DEF Escalate, EscalationReason, Write, locals, HoldingPcs
<1>8. CASE \/ Requeue(p) \/ CreatePlan(p) \/ CommitPlan(p) \/ FetchPlan(p) \/ Claim(p)
           \/ ClaimLost(p) \/ RecordStarted(p) \/ RunTool(p) \/ FinishAction(p) \/ Finalize(p)
  BY <1>8 DEF Requeue, BackoffOver, CreatePlan, CommitPlan, FetchPlan, Claim, ClaimLost,
       RecordStarted, RunTool, FinishAction, Finalize, Write, locals, HoldingPcs, ExecutingPcs
<1>9. CASE ReadCurrent(p)
  BY <1>9 DEF ReadCurrent, Snapshot, HoldingPcs, ExecutingPcs, TypeOK
<1>10. CASE LifespanRecover(p) \/ LifespanError(p) \/ Shutdown(p)
  BY <1>10 DEF LifespanRecover, LifespanError, Shutdown, locals
<1>11. QED
  BY <1>1, <1>2, <1>3, <1>4, <1>5, <1>6, <1>7, <1>8, <1>9, <1>10
     DEF ProcStep, WorkerStep, Exit, ObserveFails, EscalateLost, FinalizeLost, AbortPass, PassEnd,
       SkipBackoff, RequeueLost, CommitPlanLost, Crash, StoreError, Goto, TypeOK

\* What the list says of an incident stays so until the worker takes it.
LEMMA FreshQueueStep ==
  ASSUME OneWorker, IInv, NoWorkerInApi, FreshQueue, [Next]_vars
  PROVE  FreshQueue'
<1>0. TypeOK /\ HeldRecords /\ NoWorkerInApi'
  BY ApiStep DEF IInv
<1> DEFINE Fresh1(p) == \A s \in queue[p] :
                          /\ s.status # "IN_PROGRESS" => s = Snapshot(s.id)
                          /\ pc[p] \in HoldingPcs => s.id # cur[p].id
           Fresh2(p) == \A s, r \in queue[p] : s.id = r.id => s = r
<1>1. ASSUME NEW q \in Procs, Mode[q] = "api" PROVE Fresh1(q)' /\ Fresh2(q)'
  BY <1>0, <1>1 DEF NoWorkerInApi
<1>2. ASSUME NEW q \in Procs, Mode[q] # "api", queue'[q] \subseteq queue[q], ~ Take(q),
             pc'[q] \in HoldingPcs => pc[q] \in HoldingPcs /\ cur'[q].id = cur[q].id
      PROVE  Fresh1(q)' /\ Fresh2(q)'
  <2>1. ASSUME NEW s \in queue'[q], s.status # "IN_PROGRESS" PROVE s = Snapshot(s.id)'
    <3>1. s = Snapshot(s.id) /\ s.id \in Ids /\ Exists(s.id)
      BY <1>0, <1>2, <2>1 DEF FreshQueue, HeldRecords, Held, OnceRead, TypeOK, Snapshots
    <3>2. incidents[s.id].status # "IN_PROGRESS"
      BY <2>1, <3>1 DEF Snapshot
    <3>3. incidents'[s.id] = incidents[s.id]
      <4>1. ASSUME RowWrite(q), cur[q].id = s.id PROVE FALSE
        BY <1>0, <1>2, <2>1, <4>1, RowWriteIsWrite DEF FreshQueue
      <4>2. QED
        BY <1>2, <3>1, <3>2, <4>1, OnlyOwnRow
    <3>4. QED
      BY <3>1, <3>3 DEF Snapshot
  <2>2. QED
    BY <1>2, <2>1 DEF FreshQueue
<1>3. ASSUME NEW q \in Procs, Mode[q] # "api", List(q) PROVE Fresh1(q)' /\ Fresh2(q)'
  <2>1. /\ queue'[q] = IncidentsByStatuses(ActionableStatuses) /\ pc'[q] = "next"
        /\ incidents' = incidents
    BY <1>0, <1>3 DEF List, Goto, storeVars, TypeOK
  <2>2. \A s \in queue'[q] : s = Snapshot(s.id)
    BY <2>1 DEF IncidentsByStatuses, Snapshot
  <2>3. QED
    BY <2>1, <2>2 DEF Snapshot, HoldingPcs, ExecutingPcs, ReadBackPcs
<1>4. ASSUME NEW q \in Procs, Mode[q] # "api", Take(q) PROVE Fresh1(q)' /\ Fresh2(q)'
  <2>1. PICK s \in queue[q] : Take(q)!2!(s)
    BY <1>4 DEF Take
  <2>2. /\ queue'[q] = queue[q] \ {s} /\ incidents' = incidents
        /\ pc'[q] \in HoldingPcs => cur'[q] = s
    BY <1>0, <1>4, <2>1
       DEF Take, storeVars, TypeOK, Goto, HoldingPcs, ExecutingPcs, ReadBackPcs
  <2>3. QED
    BY <2>2 DEF FreshQueue, Snapshot
<1>5. ASSUME NEW q \in Procs PROVE Fresh1(q)' /\ Fresh2(q)'
  <2>1. CASE ProcStep(q)
    BY <1>0, <1>1, <1>2, <1>3, <1>4, <2>1, ListSteps
  <2>2. CASE Unmoved(q) /\ ~ Take(q)
    BY <1>1, <1>2, <2>2 DEF Unmoved
  <2>3. QED
    BY <1>0, <2>1, <2>2, NextIsProcStep, OthersUnmoved
       DEF Tick, vars, locals, Unmoved, ProcStep, WorkerStep
<1>6. QED
  BY <1>5 DEF FreshQueue

\* Up to the claim the worker's record is the row.
LEMMA FreshRecordStep ==
  ASSUME OneWorker, IInv, NoWorkerInApi, FreshQueue, FreshRecord, [Next]_vars
  PROVE  FreshRecord'
<1> DEFINE Early == {"retry", "plan", "plan_commit", "fetch", "claim"}
<1>0. TypeOK /\ HeldRecords /\ NoWorkerInApi'
  BY ApiStep DEF IInv
<1> SUFFICES ASSUME NEW q \in Procs, pc'[q] \in Early
             PROVE  cur'[q] = Snapshot(cur[q].id)'
  BY DEF FreshRecord
<1>1. Mode[q] # "api"
  BY <1>0 DEF NoWorkerInApi
<1>2. ASSUME pc[q] \in Early, cur'[q] = cur[q], ~ RowWrite(q)
      PROVE  cur'[q] = Snapshot(cur[q].id)'
  <2>1. cur[q] = Snapshot(cur[q].id) /\ cur[q].id \in Ids /\ Exists(cur[q].id)
    BY <1>0, <1>2, HeldExists DEF FreshRecord, HoldingPcs
  <2>2. incidents[cur[q].id].status # "IN_PROGRESS"
    <3>1. cur[q].status # "IN_PROGRESS"
      BY <1>0, <1>2 DEF HeldRecords, Held
    <3>2. QED
      BY <2>1, <3>1 DEF Snapshot
  <2>3. incidents'[cur[q].id] = incidents[cur[q].id]
    BY <1>1, <1>2, <2>1, <2>2, OnlyOwnRow
  <2>4. QED
    BY <1>2, <2>1, <2>3 DEF Snapshot
<1>3. CASE Take(q)
  <2>1. PICK s \in queue[q] : Take(q)!2!(s)
    BY <1>3 DEF Take
  <2>2. cur'[q] = s /\ s.status # "IN_PROGRESS" /\ incidents' = incidents
    BY <1>0, <1>3, <2>1 DEF Take, storeVars, TypeOK, Goto
  <2>3. QED
    BY <2>2 DEF FreshQueue, Snapshot
<1>4. CASE ReadBack(q)
  BY <1>0, <1>4 DEF ReadBack, NextIncident, Goto, storeVars, Snapshot, TypeOK
<1>5. CASE CreatePlan(q) \/ FetchPlan(q)
  <2>1. pc[q] \in Early /\ cur'[q] = cur[q] /\ ~ RowWrite(q)
    BY <1>0, <1>5 DEF CreatePlan, FetchPlan, Goto, locals, RowWrite, Escalate, EscalationReason,
         Requeue, BackoffOver, CommitPlan, Claim, Finalize, Write, TypeOK
  <2>2. QED
    BY <1>2, <2>1
<1>6. CASE Unmoved(q)
  <2>1. ~ RowWrite(q)
    BY <1>0, <1>6 DEF Unmoved, RowWrite, Escalate, EscalationReason, Requeue, BackoffOver,
         CommitPlan, Claim, Finalize, Write, Goto, TypeOK
  <2>2. QED
    BY <1>2, <1>6, <2>1 DEF Unmoved
<1>7. CASE ProcStep(q)
  <2>1. ~ RowWrite(q)
    BY <1>0 DEF RowWrite, Escalate, Requeue, CommitPlan, Claim, Finalize, Write, Goto, TypeOK
  <2>2. \/ Unmoved(q) \/ Take(q) \/ ReadBack(q) \/ CreatePlan(q) \/ FetchPlan(q)
    BY <1>0, <1>7, <2>1
       DEF ProcStep, WorkerStep, Unmoved, RowWrite, TypeOK, Start, Recover, LifespanRecover,
         StopWorker, Exit, Poll, Observe, ObserveFails, Persist, List, EndPass, EscalateLost,
         SkipBackoff, RequeueLost, CommitPlanLost, ClaimLost, RecordStarted, RunTool, FinishAction,
         ReadCurrent, FinalizeLost, Crash, Shutdown, StoreError, LifespanError, Goto, AbortPass,
         PassEnd, NextIncident, locals
  <2>3. QED
    BY <1>3, <1>4, <1>5, <1>6, <2>2
<1>8. QED
  BY <1>0, <1>6, <1>7, NextIsProcStep, OthersUnmoved DEF Tick, vars, locals, Unmoved

\* The latest plan is for the attempt the row has next, from create_plan to the
\* claim.
LEMMA LatestPlanStep ==
  ASSUME OneWorker, IInv, NoWorkerInApi, FreshRecord, LatestPlanIsNext, [Next]_vars
  PROVE  LatestPlanIsNext'
<1>0. TypeOK /\ HeldRecords /\ OutcomeKnown /\ NoWorkerInApi'
  BY ApiStep DEF IInv
<1>1. ASSUME NEW i \in Ids, LatestIsNext(i), plans'[i] = plans[i],
             incidents'[i].type = incidents[i].type,
             incidents'[i].attempt_count = incidents[i].attempt_count
      PROVE  LatestIsNext(i)'
  BY <1>1 DEF LatestIsNext
<1>2. ASSUME NEW p \in Procs, CreatePlan(p)
      PROVE  cur[p].id \in Ids /\ incidents[cur[p].id].status = "OPEN"
  <2>1. cur[p] = Snapshot(cur[p].id) /\ cur[p].status = "OPEN" /\ cur[p].id \in Ids
    BY <1>0, <1>2, HeldExists DEF CreatePlan, FreshRecord, HeldRecords, Held, HoldingPcs
  <2>2. QED
    BY <2>1 DEF Snapshot
<1>3. ASSUME NEW i \in Ids, HasStatus(i, {"PLANNED"})' PROVE LatestIsNext(i)'
  <2>1. CASE incidents'[i] = incidents[i]
    <3>1. HasStatus(i, {"PLANNED"})
      BY <1>3, <2>1 DEF HasStatus, Exists
    <3>2. \A p \in Procs : CreatePlan(p) => cur[p].id # i
      BY <1>2, <3>1 DEF HasStatus
    <3>3. plans'[i] = plans[i]
      BY <1>0, <3>2, PlansEffect, CreatePlanEffect
    <3>4. QED
      BY <1>1, <2>1, <3>1, <3>3 DEF LatestPlanIsNext
  <2>2. CASE incidents'[i] # incidents[i]
    <3>1. incidents'[i].status = "PLANNED" /\ Exists(i)'
      BY <1>3 DEF HasStatus
    <3>2. PICK p \in Procs : RowWrite(p)
      <4>1. ~ MarkInProgressNeedsHuman
        BY <2>2, <3>1 DEF MarkInProgressNeedsHuman, NeedsHuman
      <4>2. ASSUME NEW p \in Procs, Persist(p) PROVE FALSE
        <5>1. cands[p] \in SUBSET Types /\ CreateIncidents(cands[p])
          BY <1>0, <4>2 DEF Persist, TypeOK
        <5>2. QED
          BY <2>2, <3>1, <5>1, CreateEffect DEF Inserted
      <4>3. QED
        BY <2>2, <4>1, <4>2, IncidentsEffect
    <3>3. cur[p].id = i
      BY <1>0, <2>2, <3>2, WritesOneRow
    <3>4. CommitPlan(p)
      BY <1>0, <3>1, <3>2, <3>3, EscalateEffect, RequeueEffect, ClaimEffect, FinalizeEffect
         DEF RowWrite, RowChange
    <3>5. RowChange(i, "OPEN", "PLANNED", 0, "none") /\ plans' = plans /\ LatestIsNext(i)
      BY <1>0, <3>3, <3>4, CommitPlanEffect
         DEF CommitPlan, Write, TransitionIncident, LatestPlanIsNext
    <3>6. incidents[i].attempt_count + 0 = incidents[i].attempt_count
      <4>1. incidents[i].attempt_count \in Nat
        BY <1>0, <3>5, RowType DEF TypeOK, RowChange, HasStatus, Rows
      <4>2. QED
        BY <4>1
    <3>7. QED
      BY <1>1, <3>5, <3>6 DEF RowChange
  <2>3. QED
    BY <2>1, <2>2
<1>4. ASSUME NEW q \in Procs, Unmoved(q), pc[q] \in {"plan_commit", "claim"}
      PROVE  /\ plans'[cur[q].id] = plans[cur[q].id]
             /\ incidents'[cur[q].id] = incidents[cur[q].id]
  <2>1. ~ RowWrite(q) /\ ~ CreatePlan(q)
    BY <1>0, <1>4 DEF Unmoved, RowWrite, Escalate, EscalationReason, Requeue, BackoffOver,
         CommitPlan, Claim, Finalize, CreatePlan, Write, Goto, TypeOK
  <2>2. /\ Mode[q] # "api"
        /\ cur[q].id \in Ids /\ Exists(cur[q].id)
        /\ cur[q] = Snapshot(cur[q].id)
        /\ cur[q].status # "IN_PROGRESS"
    BY <1>0, <1>4, HeldExists DEF NoWorkerInApi, FreshRecord, HeldRecords, Held, HoldingPcs
  <2>3. incidents[cur[q].id].status # "IN_PROGRESS"
    BY <2>2 DEF Snapshot
  <2>4. QED
    BY <2>1, <2>2, <2>3, OnlyOwnRow, OnlyOwnPlan
<1>5. ASSUME NEW q \in Procs, pc'[q] = "plan_commit" PROVE LatestIsNext(cur[q].id)'
  <2>1. CASE Unmoved(q)
    <3>1. pc[q] = "plan_commit" /\ cur'[q] = cur[q] /\ cur[q].id \in Ids
      BY <1>0, <1>5, <2>1, HeldExists DEF Unmoved, HoldingPcs
    <3>2. QED
      BY <1>1, <1>4, <2>1, <3>1 DEF LatestPlanIsNext, LatestIsNext
  <2>2. CASE CreatePlan(q)
    <3> DEFINE i == cur[q].id
    <3>1. /\ i \in Ids /\ cur'[q] = cur[q] /\ incidents' = incidents
          /\ cur[q].attempt_count = incidents[i].attempt_count
          /\ plans[i] \in Seq(Seq(Tools)) /\ Len(plans[i]) \in Nat
      <4>1. i \in Ids /\ cur' = cur /\ incidents' = incidents /\ pc[q] = "plan"
        BY <1>2, <2>2 DEF CreatePlan, InsertPlan, locals
      <4>2. cur[q] = Snapshot(i)
        BY <4>1 DEF FreshRecord
      <4>3. cur[q].attempt_count = incidents[i].attempt_count
        BY <4>2 DEF Snapshot
      <4>4. QED
        BY <1>0, <4>1, <4>3, LenProperties DEF TypeOK, StoreTypeOK
    <3>2. /\ Len(plans'[i]) = Len(plans[i]) + 1
          /\ plans'[i][Len(plans[i]) + 1] = PlanFor(incidents[i].type, incidents[i].attempt_count)
      BY <1>0, <2>2, <3>1, CreatePlanEffect
    <3>3. plans'[i] # <<>>
      BY <1>0, <2>2, CreatePlanHasPlan
    <3>4. QED
      BY <3>1, <3>2, <3>3 DEF LatestIsNext
  <2>3. CASE ProcStep(q) /\ ~ Unmoved(q)
    <3>1. ~ ReadBack(q) /\ ~ Take(q)
      BY <1>0, <1>5 DEF ReadBack, NextIncident, Resume, Take, Goto, TypeOK
    <3>2. CreatePlan(q)
      BY <1>0, <1>5, <2>3, <3>1
         DEF ProcStep, WorkerStep, Unmoved, TypeOK, Start, Recover, LifespanRecover, StopWorker, Exit,
           Poll, Observe, ObserveFails, Persist, List, EndPass, Escalate, EscalateLost, SkipBackoff,
           Requeue, RequeueLost, FetchPlan, CommitPlan, CommitPlanLost, Claim, ClaimLost,
           RecordStarted, RunTool, FinishAction, ReadCurrent, Finalize, FinalizeLost, Write, Crash,
           Shutdown, StoreError, LifespanError, Goto, AbortPass, PassEnd, NextIncident, locals
    <3>3. QED
      BY <2>2, <3>2
  <2>4. QED
    BY <1>0, <2>1, <2>3, NextIsProcStep, OthersUnmoved DEF Tick, vars, locals, Unmoved
<1>6. ASSUME NEW q \in Procs, pc'[q] = "claim"
      PROVE  job'[q].plan = LatestPlan(cur[q].id)'
  <2>1. CASE Unmoved(q)
    BY <1>4, <1>6, <2>1 DEF Unmoved, LatestPlanIsNext, LatestPlan
  <2>2. CASE FetchPlan(q)
    BY <1>0, <2>2 DEF FetchPlan, LatestPlan, storeVars, TypeOK, Jobs
  <2>3. CASE ProcStep(q) /\ ~ Unmoved(q)
    <3>1. ~ ReadBack(q) /\ ~ Take(q)
      BY <1>0, <1>6 DEF ReadBack, NextIncident, Resume, Take, Goto, TypeOK
    <3>2. FetchPlan(q)
      BY <1>0, <1>6, <2>3, <3>1
         DEF ProcStep, WorkerStep, Unmoved, TypeOK, Start, Recover, LifespanRecover, StopWorker, Exit,
           Poll, Observe, ObserveFails, Persist, List, EndPass, Escalate, EscalateLost, SkipBackoff,
           Requeue, RequeueLost, CreatePlan, CommitPlan, CommitPlanLost, Claim, ClaimLost,
           RecordStarted, RunTool, FinishAction, ReadCurrent, Finalize, FinalizeLost, Write, Crash,
           Shutdown, StoreError, LifespanError, Goto, AbortPass, PassEnd, NextIncident, locals
    <3>3. QED
      BY <2>2, <3>2
  <2>4. QED
    BY <1>0, <2>1, <2>3, NextIsProcStep, OthersUnmoved DEF Tick, vars, locals, Unmoved
<1>7. QED
  BY <1>3, <1>5, <1>6 DEF LatestPlanIsNext

\* The plan an execution runs stays the one made for its attempt.
LEMMA CurrentPlanStep ==
  ASSUME IInv, TrailSoFar, LatestPlanIsNext, ExecutesCurrentPlan, [Next]_vars
  PROVE  ExecutesCurrentPlan'
<1> SUFFICES ASSUME NEW q \in Procs, Executing(q)'
             PROVE  Steps(q)' = PlanFor(incidents'[cur'[q].id].type,
                                        incidents'[cur'[q].id].attempt_count - 1)
  BY DEF ExecutesCurrentPlan
<1>0. TypeOK /\ HeldRecords /\ OutcomeKnown
  BY DEF IInv
<1>1. CASE Claim(q)
  <2> DEFINE i == cur[q].id
  <2>1. /\ pc[q] = "claim" /\ i \in Ids /\ incidents[i] \in Rows
        /\ cur'[q] = cur[q] /\ job'[q] = job[q] /\ plans' = plans
    BY <1>0, <1>1, HeldExists
       DEF Claim, Write, TransitionIncident, locals, HoldingPcs
  <2>2. RowChange(i, "PLANNED", "IN_PROGRESS", 1, "none")
    BY <1>0, <1>1, ClaimEffect
  <2>3. Steps(q) = PlanFor(incidents[i].type, incidents[i].attempt_count)
    BY <2>1, <2>2 DEF LatestPlanIsNext, LatestIsNext, LatestPlan, Steps, RowChange
  <2>4. /\ incidents'[i].type = incidents[i].type
        /\ incidents'[i].attempt_count - 1 = incidents[i].attempt_count
    BY <2>1, <2>2 DEF RowChange, Rows
  <2>5. Steps(q)' = Steps(q)
    BY <2>1 DEF Steps
  <2>6. QED
    BY <2>1, <2>3, <2>4, <2>5
<1>2. CASE ~ Claim(q)
  <2>1. Executing(q) /\ cur'[q].id = cur[q].id /\ ExecutionStep(q)
    BY <1>0, <1>2, StaysExecuting
  <2> DEFINE i == cur[q].id
  <2>2. i \in Ids /\ HasStatus(i, {"IN_PROGRESS", "NEEDS_HUMAN"}) /\ incidents[i] \in Rows
    BY <1>0, <2>1, ExecutesAlone, HeldExists DEF Executing, HoldingPcs
  <2>3. job'[q].plan = job[q].plan
    BY <1>0, <1>2, <2>1 DEF ExecutionStep, Unmoved, ReadBack, NextIncident, Goto, Resume,
         RecordStarted, RunTool, FinishAction, ReadCurrent, TypeOK, Jobs
  <2>4. Steps(q)' = Steps(q)
    BY <2>1, <2>2, <2>3, KeepsPlan DEF TrailSoFar, Trailing
  <2>5. /\ incidents'[i].type = incidents[i].type
        /\ incidents'[i].attempt_count = incidents[i].attempt_count
    <3>1. RowSteps(i)
      BY <1>0, <2>2, RowEffect
    <3>2. \/ incidents'[i] = incidents[i]
          \/ incidents'[i].status = "NEEDS_HUMAN"
      BY <2>1, StaysRow
    <3>3. incidents'[i] = incidents[i] \/ Recovered(i)
      BY <2>2, <3>1, <3>2 DEF RowSteps, RowChange, Recovered, Inserted, HasStatus
    <3>4. QED
      BY <2>2, <3>3 DEF Recovered, RowChange, Rows
  <2>6. QED
    BY <2>1, <2>4, <2>5 DEF ExecutesCurrentPlan
<1>3. QED
  BY <1>1, <1>2

\* Where one process has a worker, the plan it executes is the one made for
\* this attempt, whatever passes died between create_plan and its transition.
\* With two workers it need not be: the one that lost the planning race may
\* have inserted a later plan, for fewer attempts.
THEOREM ExecutesCurrentPlanAlways ==
  ASSUME OneWorker
  PROVE  Spec => []ExecutesCurrentPlan
<1>1. Init => OneWorkerInv
  <2> SUFFICES ASSUME Init PROVE OneWorkerInv
    OBVIOUS
  <2>1. \A p \in Procs : pc[p] = "off" /\ queue[p] = {}
    BY DEF Init
  <2>2. \A i \in Ids : ~ Exists(i)
    BY DEF Init, StoreInit, Exists
  <2>3. NoWorkerInApi /\ FreshQueue /\ FreshRecord /\ LatestPlanIsNext /\ ExecutesCurrentPlan
    BY <2>1, <2>2 DEF NoWorkerInApi, FreshQueue, FreshRecord, LatestPlanIsNext, HasStatus,
         ExecutesCurrentPlan, Executing, ExecutingPcs
  <2>4. QED
    BY <2>3, InitExecution DEF OneWorkerInv
<1>2. OneWorkerInv /\ [Next]_vars => OneWorkerInv'
  <2> SUFFICES ASSUME OneWorkerInv, [Next]_vars PROVE OneWorkerInv'
    OBVIOUS
  <2>1. ExecutionInv /\ IInv /\ TypeOK /\ TrailSoFar
    BY DEF OneWorkerInv, ExecutionInv, IInv
  <2>2. ExecutionInv'
    BY <2>1, StepExecution
  <2>3. NoWorkerInApi' /\ FreshQueue' /\ FreshRecord'
    BY <2>1, ApiStep, FreshQueueStep, FreshRecordStep DEF OneWorkerInv
  <2>4. LatestPlanIsNext' /\ ExecutesCurrentPlan'
    BY <2>1, LatestPlanStep, CurrentPlanStep DEF OneWorkerInv
  <2>5. QED
    BY <2>2, <2>3, <2>4 DEF OneWorkerInv
<1>3. OneWorkerInv => ExecutesCurrentPlan
  BY DEF OneWorkerInv
<1>4. QED
  BY <1>1, <1>2, <1>3, PTL DEF Spec

=============================================================================
