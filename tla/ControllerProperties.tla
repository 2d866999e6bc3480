------------------------ MODULE ControllerProperties ------------------------
(***************************************************************************)
(* What is required of RemediationController, and the life cycle it        *)
(* implements.                                                             *)
(***************************************************************************)
EXTENDS RemediationController

Executing(p) == pc[p] \in ExecutingPcs

ExecutedBy(i, p) == Executing(p) /\ cur[p].id = i

\* The life cycle of the incidents table.
life ==
  [i \in Ids |->
     IF Exists(i)
     THEN [type |-> incidents[i].type, status |-> incidents[i].status,
           attempts |-> incidents[i].attempt_count]
     ELSE NoIncident]

ASSUME LifeAssumption ==
  NoIncident \notin [type : Types, status : Statuses, attempts : Nat]

Lifecycle ==
  INSTANCE IncidentLifecycle
    WITH life <- life, Types <- Types, Ids <- Ids, MAX_ATTEMPTS <- MAX_ATTEMPTS,
         NoIncident <- NoIncident

-----------------------------------------------------------------------------
(* Invariants                                                              *)

\* However many workers detect the same fault at the same time, a type has at
\* most one incident that is not RESOLVED.
UniqueActive ==
  \A i, j \in Ids :
    /\ HasStatus(i, Statuses \ {"RESOLVED"})
    /\ HasStatus(j, Statuses \ {"RESOLVED"})
    /\ incidents[i].type = incidents[j].type
    => i = j

\* Two workers never run the steps of remediations of the same type at once:
\* not when both hold the same record, nor when start-up recovery has taken
\* the incident away from a worker that is still running its plan.
ExclusiveExecution ==
  \A p, q \in Procs :
    /\ Executing(p)
    /\ Executing(q)
    /\ incidents[cur[p].id].type = incidents[cur[q].id].type
    => p = q

\* Crashes, lost races and requeues never make an incident cost more than
\* MAX_ATTEMPTS executions, and one that can still be executed has an attempt
\* left.
AttemptBudget ==
  \A i \in Ids :
    Exists(i) =>
      /\ incidents[i].attempt_count <= MAX_ATTEMPTS
      /\ incidents[i].status \in {"OPEN", "PLANNED"} => incidents[i].attempt_count < MAX_ATTEMPTS

\* Once an execution is over as far as the incidents table says, no action of
\* the incident is left STARTED; only NEEDS_HUMAN may hide an unfinished one.
NoDanglingAction ==
  \A i \in Ids :
    HasStatus(i, {"OPEN", "PLANNED", "FAILED", "RESOLVED"}) =>
      \A k \in DOMAIN actions[i] : actions[i][k].status # "STARTED"

\* A RESOLVED incident's trail ends with every step of one plan, each once and
\* in order, all SUCCEEDED.
ResolvedTrail ==
  \A i \in Ids :
    HasStatus(i, {"RESOLVED"}) =>
      LET n    == Len(actions[i])
          plan == actions[i][n].plan
          len  == Len(plans[i][plan])
      IN /\ n >= len
         /\ \A k \in 1 .. len :
              actions[i][n - len + k] = [plan |-> plan, step |-> k, status |-> "SUCCEEDED"]

\* The reason on the row is the reason for the status it has now, never one
\* left over from an earlier status.
ErrorExplainsStatus ==
  \A i \in Ids :
    Exists(i) =>
      incidents[i].last_error \in
        CASE incidents[i].status = "OPEN"        -> {"evidence", "none"}
          [] incidents[i].status = "FAILED"      -> {"step_failed", "verification_failed"}
          [] incidents[i].status = "NEEDS_HUMAN" ->
               {"max_attempts_exhausted", "planning_failed", "agent_restarted_while_in_progress"}
          [] OTHER                               -> {"none"}

\* A worker runs the plan made for this attempt, not one left behind by an
\* earlier attempt or by a pass that died between create_plan and the
\* transition: the steps are those the planner gives for the attempts spent
\* before the claim.
ExecutesCurrentPlan ==
  \A p \in Procs :
    Executing(p) =>
      LET row == incidents[cur[p].id]
      IN Steps(p) = PlanFor(row.type, row.attempt_count - 1)

\* While nothing has failed, an incident IN_PROGRESS is being executed by some
\* worker: the code has no path that lets go of one.
NoOrphanWithoutFault ==
  faults = 0 =>
    \A i \in Ids : HasStatus(i, {"IN_PROGRESS"}) => \E p \in Procs : ExecutedBy(i, p)

-----------------------------------------------------------------------------
(* Action properties                                                       *)

\* An execution is ended only by the last write of the worker whose claim it is,
\* although transition_from_in_progress ignores the claimed version and writes
\* with the version it has just read.
EndedByClaimant ==
  [][\A i \in Ids :
       HasStatus(i, {"IN_PROGRESS"}) /\ incidents'[i].status \in {"RESOLVED", "FAILED"} =>
         \E p \in Procs :
           /\ ExecutedBy(i, p) /\ job[p].claim = incidents[i].version
           /\ pc[p] = "final_commit" /\ pc'[p] = "final_read"]_vars

\* What is RESOLVED, or handed to a human, stays as it was left, although a
\* worker whose incident recovery took away runs on to the end of its plan and
\* then writes with the version it finds in the row.
SettledStaysSettled ==
  [][\A i \in Ids :
       HasStatus(i, {"RESOLVED", "NEEDS_HUMAN"}) => incidents'[i] = incidents[i]]_vars

\* No incident is retried before its back-off for the attempts it has had is
\* over: a worker that read the row after an earlier failure, and finds that
\* back-off over, does not requeue it after another worker's attempt has failed.
RetriesWait ==
  [][\A i \in Ids :
       HasStatus(i, {"FAILED"}) /\ incidents'[i].status = "OPEN" =>
         age[i] >= Backoff(incidents[i].attempt_count)]_vars

\* The controller implements the life cycle: whatever a step of a process does
\* to the incidents table is one step of IncidentLifecycle, or none.
ImplementsLifecycle == Lifecycle!Spec

-----------------------------------------------------------------------------
(* Liveness                                                                *)

\* IN_PROGRESS with nobody executing it: what a store error can leave behind,
\* and what only the next start of a process ends.
Orphaned(i) ==
  HasStatus(i, {"IN_PROGRESS"}) /\ \A p \in Procs : ~ ExecutedBy(i, p)

NoWorker == \A p \in Procs : pc[p] = "off"

\* Every incident is resolved or handed to a human, unless the workers are gone
\* or a store error has orphaned it.
Settles ==
  \A i \in Ids :
    Exists(i) ~> (HasStatus(i, {"RESOLVED", "NEEDS_HUMAN"}) \/ Orphaned(i) \/ NoWorker)

-----------------------------------------------------------------------------
(* The inductive invariant                                                 *)

\* pc of a worker that holds an incident record.
HoldingPcs ==
  {"retry", "plan", "plan_commit", "fetch", "claim"} \cup ExecutingPcs \cup ReadBackPcs

\* s was the row once: it is no newer, and if it is not older it is the row.
OnceRead(s) ==
  /\ Exists(s.id)
  /\ s.version <= incidents[s.id].version
  /\ s.version = incidents[s.id].version =>
       /\ s.status = incidents[s.id].status
       /\ s.attempt_count = incidents[s.id].attempt_count

HasPlan(s) == plans[s.id] # <<>>

\* Every record a worker remembers is a row as it once was, in the status its
\* place in the loop requires; this is what makes a won compare-and-swap mean
\* that the record is the row.
Held(p) ==
  /\ \A s \in queue[p] : OnceRead(s) /\ (s.status = "PLANNED" => HasPlan(s))
  /\ pc[p] \in HoldingPcs => cur[p] \in Snapshots /\ OnceRead(cur[p])
  /\ pc[p] = "retry" => cur[p].status = "FAILED"
  /\ pc[p] \in {"plan", "plan_commit"} => cur[p].status = "OPEN"
  /\ pc[p] = "plan_commit" => HasPlan(cur[p])
  /\ pc[p] \in {"fetch", "claim"} => cur[p].status = "PLANNED" /\ HasPlan(cur[p])

HeldRecords == \A p \in Procs : Held(p)

\* An incident that got as far as PLANNED has a plan.
PlannedHasPlan ==
  \A i \in Ids : HasStatus(i, {"PLANNED"}) => plans[i] # <<>>

\* A worker executes an incident nobody else executes, and which is its own
\* claim unless recovery has taken it away.
Claims ==
  /\ \A p \in Procs :
       Executing(p) =>
         /\ HasStatus(cur[p].id, {"IN_PROGRESS", "NEEDS_HUMAN"})
         /\ HasStatus(cur[p].id, {"IN_PROGRESS"}) /\ pc[p] # "claim_read"
              => job[p].claim = incidents[cur[p].id].version
  /\ \A p, q \in Procs : Executing(p) /\ Executing(q) /\ cur[p].id = cur[q].id => p = q

\* An outcome is known from the end of the tool call on.
OutcomeKnown ==
  \A p \in Procs : pc[p] \in {"finish", "final", "final_commit"} => job[p].outcome # "none"

\* The one action that may be STARTED is the one the executing worker is at.
StartedIsCurrent ==
  \A p \in Procs :
    Executing(p) =>
      \A k \in DOMAIN actions[cur[p].id] :
        actions[cur[p].id][k].status = "STARTED" =>
          pc[p] \in {"tool", "finish"} /\ k = job[p].row

\* Actions are recorded for incidents only.
ActionsOfRows == \A i \in Ids : ~ Exists(i) => actions[i] = <<>>

\* What is true after every step because it was true before it: the invariants
\* above, with what a worker knows of the rows it remembers.
IInv ==
  /\ TypeOK
  /\ HeldRecords
  /\ PlannedHasPlan
  /\ UniqueActive
  /\ AttemptBudget
  /\ Claims
  /\ OutcomeKnown
  /\ ErrorExplainsStatus
  /\ NoDanglingAction
  /\ StartedIsCurrent
  /\ ActionsOfRows

-----------------------------------------------------------------------------
(* What is true of an execution on top of IInv                             *)

\* A service is stopping because something has failed.
StoppingIsFault == faults = 0 => \A p \in Procs : api[p] # "stopping"

\* The version an execution is about to end with is the row's, as long as
\* recovery has not taken the row away.
FinalRecord ==
  \A p \in Procs :
    pc[p] = "final_commit" /\ HasStatus(cur[p].id, {"IN_PROGRESS"}) =>
      cur[p].version = incidents[cur[p].id].version

\* Every plan is one the planner makes for the type of its incident.
PlansForType ==
  \A i \in Ids : \A k \in DOMAIN plans[i] :
    Exists(i) /\ \E n \in 0 .. MAX_ATTEMPTS : plans[i][k] = PlanFor(incidents[i].type, n)

\* The last len of the first m actions of s are steps 1 to len of the plan, done.
Trail(s, plan, len, m) ==
  /\ len <= m
  /\ \A k \in 1 .. len :
       s[m - len + k] = [plan |-> plan, step |-> k, status |-> "SUCCEEDED"]

HoldsPlan(p) == job[p].plan \in DOMAIN plans[cur[p].id]

\* A worker that is not in the middle of a plan is at its first step.
AtFirstStep ==
  \A p \in Procs :
    pc[p] \notin {"record", "tool", "finish", "final", "final_commit", "final_read"} =>
      job[p].step = 1

\* The trail of an execution, so far.
Trailing(p) ==
  LET s == actions[cur[p].id]
      n == Len(s)
  IN /\ HoldsPlan(p)
     /\ job[p].step \in 1 .. Len(Steps(p))
     /\ pc[p] \in {"claim_read", "record"} => Trail(s, job[p].plan, job[p].step - 1, n)
     /\ pc[p] \in {"tool", "finish"} =>
          /\ n > 0
          /\ job[p].row = n
          /\ s[n] = [plan |-> job[p].plan, step |-> job[p].step, status |-> "STARTED"]
          /\ Trail(s, job[p].plan, job[p].step - 1, n - 1)
     /\ pc[p] \in {"final", "final_commit"} /\ Succeeded(p) =>
          Trail(s, job[p].plan, Len(Steps(p)), n)

TrailSoFar ==
  \A p \in Procs :
    /\ Executing(p) => Trailing(p)
    /\ pc[p] = "claim" => HoldsPlan(p)

\* The plan a RESOLVED incident was resolved by.
ResolvedByPlan ==
  \A i \in Ids :
    HasStatus(i, {"RESOLVED"}) =>
      \E plan \in DOMAIN plans[i] :
        /\ plans[i][plan] # <<>>
        /\ Trail(actions[i], plan, Len(plans[i][plan]), Len(actions[i]))

ExecutionInv ==
  /\ IInv
  /\ StoppingIsFault
  /\ FinalRecord
  /\ NoOrphanWithoutFault
  /\ PlansForType
  /\ AtFirstStep
  /\ TrailSoFar
  /\ ResolvedByPlan

-----------------------------------------------------------------------------
(* What is true besides where only one worker uses the database            *)

OneWorker == \A p, q \in Procs : Mode[p] # "api" /\ Mode[q] # "api" => p = q

\* The API alone has no worker, and so no list.
NoWorkerInApi == \A p \in Procs : Mode[p] = "api" => pc[p] = "off" /\ queue[p] = {}

\* Nobody changes what is on the worker's list, but for recovery.
FreshQueue ==
  \A p \in Procs :
    /\ \A s \in queue[p] :
         /\ s.status # "IN_PROGRESS" => s = Snapshot(s.id)
         /\ pc[p] \in HoldingPcs => s.id # cur[p].id
    /\ \A s, r \in queue[p] : s.id = r.id => s = r

\* Nor what it holds, up to the claim.
FreshRecord ==
  \A p \in Procs :
    pc[p] \in {"retry", "plan", "plan_commit", "fetch", "claim"} => cur[p] = Snapshot(cur[p].id)

\* The latest plan of i is the one for the attempt that is next.
LatestIsNext(i) ==
  /\ plans[i] # <<>>
  /\ plans[i][Len(plans[i])] = PlanFor(incidents[i].type, incidents[i].attempt_count)

LatestPlanIsNext ==
  /\ \A i \in Ids : HasStatus(i, {"PLANNED"}) => LatestIsNext(i)
  /\ \A p \in Procs :
       /\ pc[p] = "plan_commit" => LatestIsNext(cur[p].id)
       /\ pc[p] = "claim" => job[p].plan = LatestPlan(cur[p].id)

OneWorkerInv ==
  /\ ExecutionInv
  /\ NoWorkerInApi
  /\ FreshQueue
  /\ FreshRecord
  /\ LatestPlanIsNext
  /\ ExecutesCurrentPlan

=============================================================================
