----------------------- MODULE RemediationController -----------------------
(***************************************************************************)
(* The remediation controller: agent processes that share one database     *)
(* file.  A process is started in one of four modes:                       *)
(*                                                                         *)
(*   service  agent.core.service: a worker thread and the API              *)
(*   loop     agent.core.worker --loop: the worker alone                   *)
(*   once     agent.core.worker --once: one observation pass, then exit    *)
(*   api      uvicorn agent.api.main:app: the API alone                    *)
(*                                                                         *)
(* The worker is modelled call by call: pc says which store, Docker or     *)
(* tool call it makes next, and every value it carries from one call to    *)
(* the next is a variable, since other processes and the API's start-up    *)
(* recovery write the same rows in between.  The API is its lifespan; its  *)
(* request handlers only read.                                             *)
(***************************************************************************)
EXTENDS IncidentStore

CONSTANTS
  Procs,         \* agent processes
  Mode,          \* how each is started
  MAX_ATTEMPTS,  \* executions an incident may cost
  Faults,        \* which of "crash", "shutdown", "store" can happen
  MaxFaults      \* bound: how often, in all

ASSUME ControllerAssumption ==
  /\ Mode \in [Procs -> {"service", "loop", "once", "api"}]
  /\ MAX_ATTEMPTS \in Nat \ {0}
  /\ MaxFaults \in Nat

VARIABLES
  pc,      \* per process: the worker's next call; "off" when no worker runs
  api,     \* per process: the API's lifespan
  cands,   \* run_pass: the candidates detected, not yet persisted
  queue,   \* process_ready_incidents: what is left of the list it read
  cur,     \* the IncidentRecord the worker holds
  job,     \* execute_plan: the plan, the step, the action and the claim
  faults   \* faults so far

locals == <<cands, queue, cur, job>>
vars == <<incidents, age, plans, actions, pc, api, cands, queue, cur, job, faults>>

NoJob == [plan |-> 0, step |-> 1, row |-> 0, outcome |-> "none", claim |-> 0]

Jobs ==
  [plan : Nat, step : Nat, row : Nat, claim : Nat,
   outcome : {"none", "ok", "step_failed", "verification_failed"}]

\* pc of a worker that has claimed an incident and not yet let go of it.
ExecutingPcs == {"claim_read", "record", "tool", "finish", "final", "final_commit"}

\* pc of a worker that is about to read a row back.
ReadBackPcs ==
  {"escalate_read", "retry_read", "plan_read", "claim_read", "claim_lost", "final_read"}

\* pc of a worker whose next call, or whose last call's read-back, uses the store.
StorePcs ==
  {"boot", "persist", "list", "retry", "plan", "plan_commit", "fetch", "claim"}
    \cup ExecutingPcs \cup ReadBackPcs

Pcs == {"off", "idle", "observe", "next"} \cup StorePcs

TypeOK ==
  /\ StoreTypeOK
  /\ pc \in [Procs -> Pcs]
  /\ api \in [Procs -> {"off", "starting", "serving", "stopping"}]
  /\ cands \in [Procs -> SUBSET Types]
  /\ queue \in [Procs -> SUBSET Snapshots]
  /\ cur \in [Procs -> Snapshots \cup {NoIncident}]
  /\ job \in [Procs -> Jobs]
  /\ faults \in Nat

Init ==
  /\ StoreInit
  /\ pc = [p \in Procs |-> "off"]
  /\ api = [p \in Procs |-> "off"]
  /\ cands = [p \in Procs |-> {}]
  /\ queue = [p \in Procs |-> {}]
  /\ cur = [p \in Procs |-> NoIncident]
  /\ job = [p \in Procs |-> NoJob]
  /\ faults = 0

-----------------------------------------------------------------------------
(* Control                                                                 *)

Goto(p, next) == pc' = [pc EXCEPT ![p] = next]

\* Forget what the pass carried.
DropLocals(p) ==
  /\ cands' = [cands EXCEPT ![p] = {}]
  /\ queue' = [queue EXCEPT ![p] = {}]
  /\ cur' = [cur EXCEPT ![p] = NoIncident]
  /\ job' = [job EXCEPT ![p] = NoJob]

\* Where a pass that is over leaves the worker: --once exits.
PassEnd(p) == IF Mode[p] = "once" THEN "off" ELSE "idle"

\* An exception leaves run_pass or process_ready_incidents.  The polling loop
\* logs it and goes on; --once dies of it.
AbortPass(p) ==
  /\ Goto(p, PassEnd(p))
  /\ DropLocals(p)

\* process_ready_incidents is done with the incident it holds.
NextIncident(p) ==
  /\ Goto(p, "next")
  /\ cur' = [cur EXCEPT ![p] = NoIncident]
  /\ job' = [job EXCEPT ![p] = NoJob]
  /\ UNCHANGED <<cands, queue>>

-----------------------------------------------------------------------------
(* Start, start-up recovery and stop                                       *)

\* The service starts its worker thread before uvicorn runs the lifespan.
Start(p) ==
  /\ pc[p] = "off"
  /\ api[p] = "off"
  /\ Goto(p, IF Mode[p] = "api" THEN "off" ELSE "boot")
  /\ api' = [api EXCEPT ![p] = IF Mode[p] \in {"service", "api"} THEN "starting" ELSE "off"]
  /\ UNCHANGED <<storeVars, locals, faults>>

\* recover_startup_state, in the worker.
Recover(p) ==
  /\ pc[p] = "boot"
  /\ MarkInProgressNeedsHuman
  /\ Goto(p, IF Mode[p] = "once" THEN "observe" ELSE "idle")
  /\ UNCHANGED <<api, locals, faults>>

\* The same recovery in the API's lifespan, whatever the worker is doing.
LifespanRecover(p) ==
  /\ api[p] = "starting"
  /\ MarkInProgressNeedsHuman
  /\ api' = [api EXCEPT ![p] = "serving"]
  /\ UNCHANGED <<pc, locals, faults>>

\* The loop sees stop_event; the service then exits, or exits after the five
\* seconds join waits for a worker that has not seen it.
StopWorker(p) ==
  /\ pc[p] = "idle"
  /\ api[p] = "stopping"
  /\ Goto(p, "off")
  /\ UNCHANGED <<storeVars, api, locals, faults>>

Exit(p) ==
  /\ api[p] = "stopping"
  /\ Goto(p, "off")
  /\ api' = [api EXCEPT ![p] = "off"]
  /\ DropLocals(p)
  /\ UNCHANGED <<storeVars, faults>>

-----------------------------------------------------------------------------
(* Observe, detect, persist                                                *)

Poll(p) ==
  /\ pc[p] = "idle"
  /\ api[p] # "stopping"
  /\ Goto(p, "observe")
  /\ UNCHANGED <<storeVars, api, locals, faults>>

\* observe_once and detect: any set of candidates.
Observe(p) ==
  /\ pc[p] = "observe"
  /\ \E found \in SUBSET Types : cands' = [cands EXCEPT ![p] = found]
  /\ Goto(p, "persist")
  /\ UNCHANGED <<storeVars, api, queue, cur, job, faults>>

\* Docker's container list, or the health check, raises.
ObserveFails(p) ==
  /\ pc[p] = "observe"
  /\ AbortPass(p)
  /\ UNCHANGED <<storeVars, api, faults>>

Persist(p) ==
  /\ pc[p] = "persist"
  /\ CreateIncidents(cands[p])
  /\ cands' = [cands EXCEPT ![p] = {}]
  /\ Goto(p, IF Mode[p] = "once" THEN "off" ELSE "list")
  /\ UNCHANGED <<api, queue, cur, job, faults>>

-----------------------------------------------------------------------------
(* process_ready_incidents                                                 *)

List(p) ==
  /\ pc[p] = "list"
  /\ queue' = [queue EXCEPT ![p] = IncidentsByStatuses(ActionableStatuses)]
  /\ Goto(p, "next")
  /\ UNCHANGED <<storeVars, api, cands, cur, job, faults>>

\* The oldest incident on the list, by what the list said of it.  An incident
\* IN_PROGRESS is listed, and passed over.
Take(p) ==
  /\ pc[p] = "next"
  /\ \E s \in queue[p] :
       /\ \A r \in queue[p] : s.id <= r.id
       /\ queue' = [queue EXCEPT ![p] = @ \ {s}]
       /\ IF s.status \in {"FAILED", "OPEN", "PLANNED"}
          THEN /\ cur' = [cur EXCEPT ![p] = s]
               /\ Goto(p, CASE s.status = "FAILED"  -> "retry"
                            [] s.status = "OPEN"    -> "plan"
                            [] s.status = "PLANNED" -> "fetch")
          ELSE UNCHANGED <<pc, cur>>
  /\ UNCHANGED <<storeVars, api, cands, job, faults>>

EndPass(p) ==
  /\ pc[p] = "next"
  /\ queue[p] = {}
  /\ Goto(p, PassEnd(p))
  /\ UNCHANGED <<storeVars, api, locals, faults>>

\* transition_incident from the record held, up to the commit.
Write(p, from, to, attempts, error, next) ==
  /\ CanWrite(cur[p].id, from, to, cur[p].version)
  /\ TransitionIncident(cur[p].id, to, attempts, error)
  /\ Goto(p, next)
  /\ UNCHANGED <<api, locals, faults>>

\* The same call when it raises OptimisticLockError.
LosesRace(p, from, to) == ~ CanWrite(cur[p].id, from, to, cur[p].version)

\* transition_incident's second connection, get_incident: the record the caller
\* gets is the row as it is now, which may be newer than the caller's write.
\* What the loop does with it depends on its status; execute_plan does not look.
Resume(p, status) ==
  CASE pc[p] = "claim_read"                                        -> "record"
    [] pc[p] = "retry_read" /\ status = "OPEN"                     -> "plan"
    [] pc[p] \in {"retry_read", "plan_read"} /\ status = "PLANNED" -> "fetch"
    [] OTHER                                                       -> "next"

ReadBack(p) ==
  /\ pc[p] \in ReadBackPcs
  /\ LET row  == Snapshot(cur[p].id)
         next == Resume(p, row.status)
     IN IF next = "next"
        THEN NextIncident(p)
        ELSE /\ Goto(p, next)
             /\ cur' = [cur EXCEPT ![p] = row]
             /\ job' = IF next = "record" THEN [job EXCEPT ![p].claim = row.version] ELSE job
             /\ UNCHANGED <<cands, queue>>
  /\ UNCHANGED <<storeVars, api, faults>>

-----------------------------------------------------------------------------
(* Escalation to NEEDS_HUMAN                                               *)

\* Faulty variant: one attempt too few.
ExhaustedTooEarly(p) == cur[p].attempt_count + 1 >= MAX_ATTEMPTS

\* Faulty variant: one attempt too many.
ExhaustedTooLate(p) == cur[p].attempt_count > MAX_ATTEMPTS

Exhausted(p) == cur[p].attempt_count >= MAX_ATTEMPTS

Plannable(p) == incidents[cur[p].id].type \in Registered

\* The three calls that give up, and why.
EscalationReason(p) ==
  CASE pc[p] \in {"retry", "plan"} /\ Exhausted(p)        -> "max_attempts_exhausted"
    [] pc[p] = "plan" /\ ~ Exhausted(p) /\ ~ Plannable(p) -> "planning_failed"
    [] pc[p] = "fetch" /\ LatestPlan(cur[p].id) = 0       -> "missing_plan"
    [] OTHER                                              -> "none"

Escalate(p) ==
  /\ EscalationReason(p) # "none"
  /\ Write(p, cur[p].status, "NEEDS_HUMAN", 0, EscalationReason(p), "escalate_read")

\* None of the three catches OptimisticLockError.
EscalateLost(p) ==
  /\ EscalationReason(p) # "none"
  /\ LosesRace(p, cur[p].status, "NEEDS_HUMAN")
  /\ AbortPass(p)
  /\ UNCHANGED <<storeVars, api, faults>>

-----------------------------------------------------------------------------
(* retry_failed_incident                                                   *)

Backoff(attemptCount) == 2 ^ (attemptCount + 1)

\* Whether the record held is still the row, so that age is the record's age.
Fresh(p) == incidents[cur[p].id].version = cur[p].version

\* A record that is no longer the row has an updated_at the model does not
\* keep: it may be old enough or not.
BackoffPending(p) ==
  /\ pc[p] = "retry"
  /\ ~ Exhausted(p)
  /\ Fresh(p) => age[cur[p].id] < Backoff(cur[p].attempt_count)

BackoffOver(p) ==
  /\ pc[p] = "retry"
  /\ ~ Exhausted(p)
  /\ Fresh(p) => age[cur[p].id] >= Backoff(cur[p].attempt_count)

SkipBackoff(p) ==
  /\ BackoffPending(p)
  /\ NextIncident(p)
  /\ UNCHANGED <<storeVars, api, faults>>

Requeue(p) ==
  /\ BackoffOver(p)
  /\ Write(p, "FAILED", "OPEN", 0, "none", "retry_read")

RequeueLost(p) ==
  /\ BackoffOver(p)
  /\ LosesRace(p, "FAILED", "OPEN")
  /\ NextIncident(p)
  /\ UNCHANGED <<storeVars, api, faults>>

-----------------------------------------------------------------------------
(* plan_open_incident                                                      *)

\* plan_for and create_plan: the plan is committed on its own.
CreatePlan(p) ==
  /\ pc[p] = "plan"
  /\ ~ Exhausted(p)
  /\ Plannable(p)
  /\ InsertPlan(cur[p].id, PlanFor(incidents[cur[p].id].type, cur[p].attempt_count))
  /\ Goto(p, "plan_commit")
  /\ UNCHANGED <<api, locals, faults>>

CommitPlan(p) ==
  /\ pc[p] = "plan_commit"
  /\ Write(p, "OPEN", "PLANNED", 0, "none", "plan_read")

CommitPlanLost(p) ==
  /\ pc[p] = "plan_commit"
  /\ LosesRace(p, "OPEN", "PLANNED")
  /\ NextIncident(p)
  /\ UNCHANGED <<storeVars, api, faults>>

-----------------------------------------------------------------------------
(* execute_planned_incident and execute_plan                               *)

FetchPlan(p) ==
  /\ pc[p] = "fetch"
  /\ LatestPlan(cur[p].id) # 0
  /\ job' = [job EXCEPT ![p].plan = LatestPlan(cur[p].id)]
  /\ Goto(p, "claim")
  /\ UNCHANGED <<storeVars, api, cands, queue, cur, faults>>

\* The steps of the plan the worker holds.
Steps(p) == plans[cur[p].id][job[p].plan]

\* Faulty variant: the attempt is not counted when it begins.
ClaimForFree(p) ==
  /\ pc[p] = "claim"
  /\ Write(p, "PLANNED", "IN_PROGRESS", 0, "none", "claim_read")

Claim(p) ==
  /\ pc[p] = "claim"
  /\ Write(p, "PLANNED", "IN_PROGRESS", 1, "none", "claim_read")

ClaimLost(p) ==
  /\ pc[p] = "claim"
  /\ LosesRace(p, "PLANNED", "IN_PROGRESS")
  /\ Goto(p, "claim_lost")
  /\ UNCHANGED <<storeVars, api, locals, faults>>

RecordStarted(p) ==
  /\ pc[p] = "record"
  /\ InsertAction(cur[p].id, job[p].plan, job[p].step)
  /\ job' = [job EXCEPT ![p].row = Len(actions[cur[p].id]) + 1]
  /\ Goto(p, "tool")
  /\ UNCHANGED <<api, cands, queue, cur, faults>>

RunTool(p) ==
  /\ pc[p] = "tool"
  /\ \E result \in Outcomes(Steps(p)[job[p].step]) :
       job' = [job EXCEPT ![p].outcome = result]
  /\ Goto(p, "finish")
  /\ UNCHANGED <<storeVars, api, cands, queue, cur, faults>>

\* Faulty variant: a step's exception is lost.
SucceedsAlways(p) == TRUE

Succeeded(p) == job[p].outcome = "ok"

\* Faulty variant: the loop over the steps ends one early.
StopsBeforeLastStep(p) == job[p].step + 1 = Len(Steps(p))

LastStep(p) == job[p].step = Len(Steps(p))

\* finish_action, then the next step, or the end of the execution.
FinishAction(p) ==
  /\ pc[p] = "finish"
  /\ UpdateAction(cur[p].id, job[p].row, IF Succeeded(p) THEN "SUCCEEDED" ELSE "FAILED")
  /\ IF Succeeded(p) /\ ~ LastStep(p)
     THEN /\ Goto(p, "record")
          /\ job' = [job EXCEPT ![p].step = @ + 1]
     ELSE /\ Goto(p, "final")
          /\ UNCHANGED job
  /\ UNCHANGED <<api, cands, queue, cur, faults>>

\* transition_from_in_progress reads the row again, and writes with the version
\* it finds there, not with the version the claim returned.
ReadCurrent(p) ==
  /\ pc[p] = "final"
  /\ cur' = [cur EXCEPT ![p] = Snapshot(cur[p].id)]
  /\ Goto(p, "final_commit")
  /\ UNCHANGED <<storeVars, api, cands, queue, job, faults>>

\* Faulty variant: a failed execution goes straight back to OPEN, which the
\* transition table refuses.
ReopensOnFailure(p) == IF Succeeded(p) THEN "RESOLVED" ELSE "OPEN"

FinalStatus(p) == IF Succeeded(p) THEN "RESOLVED" ELSE "FAILED"

\* Faulty variant: a success is written down as a reason too.
OutcomeAsError(p) == job[p].outcome

FinalError(p) == IF Succeeded(p) THEN "none" ELSE job[p].outcome

Finalize(p) ==
  /\ pc[p] = "final_commit"
  /\ Write(p, "IN_PROGRESS", FinalStatus(p), 0, FinalError(p), "final_read")

\* execute_plan logs the OptimisticLockError and raises it again.
FinalizeLost(p) ==
  /\ pc[p] = "final_commit"
  /\ LosesRace(p, "IN_PROGRESS", FinalStatus(p))
  /\ AbortPass(p)
  /\ UNCHANGED <<storeVars, api, faults>>

-----------------------------------------------------------------------------
(* Faults and time                                                         *)

Fault(kind) ==
  /\ kind \in Faults
  /\ faults < MaxFaults
  /\ faults' = faults + 1

\* The process is killed: the worker thread and the API go together.
Crash(p) ==
  /\ pc[p] # "off" \/ api[p] # "off"
  /\ Fault("crash")
  /\ Goto(p, "off")
  /\ api' = [api EXCEPT ![p] = "off"]
  /\ DropLocals(p)
  /\ UNCHANGED storeVars

\* uvicorn gets SIGTERM or SIGINT: stop_event is set.
Shutdown(p) ==
  /\ api[p] = "serving"
  /\ Fault("shutdown")
  /\ api' = [api EXCEPT ![p] = "stopping"]
  /\ UNCHANGED <<storeVars, pc, locals>>

\* A store call raises (the file stays locked for five seconds, the disk is
\* full).  At boot it ends the worker thread, which the service does not
\* notice; later it ends the pass.
StoreError(p) ==
  /\ pc[p] \in StorePcs
  /\ Fault("store")
  /\ Goto(p, IF pc[p] = "boot" THEN "off" ELSE PassEnd(p))
  /\ DropLocals(p)
  /\ UNCHANGED <<storeVars, api>>

\* In the lifespan it ends uvicorn, and so the service.
LifespanError(p) ==
  /\ api[p] = "starting"
  /\ Fault("store")
  /\ api' = [api EXCEPT ![p] = "stopping"]
  /\ UNCHANGED <<storeVars, pc, locals>>

\* A second passes for the rows whose back-off is running, or would be if the
\* incident had an attempt left; beyond that age decides nothing.
Waiting(i) ==
  /\ HasStatus(i, {"FAILED"})
  /\ age[i] < Backoff(incidents[i].attempt_count)

Tick ==
  /\ \E i \in Ids : Waiting(i)
  /\ age' = [i \in Ids |-> IF Waiting(i) THEN age[i] + 1 ELSE age[i]]
  /\ UNCHANGED <<incidents, plans, actions, pc, api, locals, faults>>

-----------------------------------------------------------------------------

\* What the worker does while nothing fails around it.
WorkerStep(p) ==
  \/ Recover(p) \/ Poll(p) \/ StopWorker(p)
  \/ Observe(p) \/ Persist(p)
  \/ List(p) \/ Take(p) \/ EndPass(p) \/ ReadBack(p)
  \/ Escalate(p) \/ EscalateLost(p)
  \/ SkipBackoff(p) \/ Requeue(p) \/ RequeueLost(p)
  \/ CreatePlan(p) \/ CommitPlan(p) \/ CommitPlanLost(p)
  \/ FetchPlan(p) \/ Claim(p) \/ ClaimLost(p)
  \/ RecordStarted(p) \/ RunTool(p) \/ FinishAction(p)
  \/ ReadCurrent(p) \/ Finalize(p) \/ FinalizeLost(p)

Next ==
  \/ \E p \in Procs :
       \/ WorkerStep(p)
       \/ Start(p) \/ LifespanRecover(p) \/ Exit(p)
       \/ ObserveFails(p) \/ StoreError(p) \/ LifespanError(p)
       \/ Crash(p) \/ Shutdown(p)
  \/ Tick

Spec == Init /\ [][Next]_vars

\* Threads are scheduled, time passes, tools and store calls return; Docker and
\* the health endpoint do not fail every pass for ever.  Nothing restarts a
\* process: the compose file gives the agent no restart policy.
Fairness ==
  /\ \A p \in Procs :
       /\ WF_vars(WorkerStep(p))
       /\ SF_vars(Observe(p))
       /\ WF_vars(LifespanRecover(p))
       /\ WF_vars(Exit(p))
  /\ WF_vars(Tick)

FairSpec == Spec /\ Fairness

=============================================================================
