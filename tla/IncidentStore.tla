--------------------------- MODULE IncidentStore ---------------------------
(***************************************************************************)
(* The SQLite database behind SQLiteStore (src/agent/storage), as the      *)
(* tables incidents, plans and actions and the statements that change      *)
(* them.  One operator is one committed transaction: SQLite serialises     *)
(* writers, so each is one atomic step; a store method that reads its own  *)
(* write back in a second connection is two steps of its caller.           *)
(*                                                                         *)
(* Incidents are numbered in the order created_at puts them in, so the     *)
(* ORDER BY created_at ASC, id ASC of the worker's list is the order of    *)
(* Ids.  The plans and actions of an incident are kept in insertion order  *)
(* and are named by their position.  Observations are write-only data.     *)
(***************************************************************************)
EXTENDS Integers, Sequences, FiniteSets, IncidentStateMachine, Planner

CONSTANTS
  Types,         \* incident types that can be recorded
  MaxIncidents,  \* bound: rows the incidents table can hold
  NoIncident     \* a row that has not been inserted

ASSUME MaxIncidentsAssumption == MaxIncidents \in Nat

Ids == 1 .. MaxIncidents

\* What last_error_json says, by its failure_reason; NULL is "none".  The
\* orchestrator, execute_plan and recovery each have reasons of their own.
EscalationReasons == {"max_attempts_exhausted", "planning_failed", "missing_plan"}
FailureReasons == {"step_failed", "verification_failed"}
RecoveryReasons == {"agent_restarted_while_in_progress"}

Errors ==
  {"none", "evidence"} \cup EscalationReasons \cup FailureReasons \cup RecoveryReasons

Rows ==
  [type : Types, status : Statuses, version : Nat, attempt_count : Nat,
   last_error : Errors]

\* An IncidentRecord, as much of it as decides anything: what a reader
\* remembers of a row.
Snapshots ==
  [id : Ids, status : Statuses, version : Nat, attempt_count : Nat]

Actions ==
  [plan : Nat, step : Nat, status : {"STARTED", "SUCCEEDED", "FAILED"}]

ASSUME NoIncidentAssumption == NoIncident \notin Rows /\ NoIncident \notin Snapshots

VARIABLES
  incidents,  \* the incidents table
  age,        \* seconds since a row's updated_at, counted for FAILED rows only
  plans,      \* per incident, the plans created for it
  actions     \* per incident, the actions recorded for it

storeVars == <<incidents, age, plans, actions>>

StoreTypeOK ==
  /\ incidents \in [Ids -> Rows \cup {NoIncident}]
  /\ age \in [Ids -> Nat]
  /\ plans \in [Ids -> Seq(Seq(Tools))]
  /\ actions \in [Ids -> Seq(Actions)]

\* A database file that _create_schema has just made.
StoreInit ==
  /\ incidents = [i \in Ids |-> NoIncident]
  /\ age = [i \in Ids |-> 0]
  /\ plans = [i \in Ids |-> <<>>]
  /\ actions = [i \in Ids |-> <<>>]

-----------------------------------------------------------------------------
(* Reading                                                                 *)

Exists(i) == incidents[i] # NoIncident

HasStatus(i, S) == Exists(i) /\ incidents[i].status \in S

\* get_incident.
Snapshot(i) ==
  [id |-> i, status |-> incidents[i].status, version |-> incidents[i].version,
   attempt_count |-> incidents[i].attempt_count]

\* list_incidents_by_statuses.
IncidentsByStatuses(S) == {Snapshot(i) : i \in {j \in Ids : HasStatus(j, S)}}

\* Faulty variant: ordered the wrong way, the first plan is the latest.
OldestPlan(i) == IF plans[i] = <<>> THEN 0 ELSE 1

\* latest_plan_for_incident; 0 when there is none.
LatestPlan(i) == Len(plans[i])

-----------------------------------------------------------------------------
(* Writing                                                                 *)

\* Faulty variant: an incident waiting for its retry does not hold its type.
ActiveWithoutFailed == {"OPEN", "PLANNED", "IN_PROGRESS", "NEEDS_HUMAN"}

\* The statuses the partial unique index uq_incidents_type_active covers.
ActiveStatuses == {"OPEN", "PLANNED", "IN_PROGRESS", "FAILED", "NEEDS_HUMAN"}

ActiveTypes == {incidents[i].type : i \in {j \in Ids : HasStatus(j, ActiveStatuses)}}

NewRow(t) ==
  [type |-> t, status |-> "OPEN", version |-> 0, attempt_count |-> 0,
   last_error |-> "evidence"]

\* create_incidents_from_candidates: INSERT OR IGNORE drops the candidates
\* whose type has an active incident.  Incidents created together have the same
\* created_at and a random id, hence come in any order.  When the table is
\* full (the bound MaxIncidents) the remaining candidates are dropped.
CreateIncidents(candidates) ==
  LET fresh == candidates \ ActiveTypes
      free  == {i \in Ids : ~ Exists(i)}
  IN \E new \in SUBSET free : \E type \in [new -> fresh] :
       /\ \A i \in new, j \in free : j < i => j \in new
       /\ \A i, j \in new : type[i] = type[j] => i = j
       /\ new = free \/ \A t \in fresh : \E i \in new : type[i] = t
       /\ incidents' = [i \in Ids |-> IF i \in new THEN NewRow(type[i]) ELSE incidents[i]]
       /\ UNCHANGED <<age, plans, actions>>

\* Faulty variant: the version alone is compared.
CanWriteByVersion(i, from, to, version) ==
  /\ CanTransition(from, to)
  /\ Exists(i)
  /\ incidents[i].version = version

\* Faulty variant: the version is not compared.
CanWriteByStatus(i, from, to, version) == CanTransition(from, to) /\ HasStatus(i, {from})

\* The WHERE clause of transition_incident, after assert_can_transition.
CanWrite(i, from, to, version) ==
  /\ CanTransition(from, to)
  /\ HasStatus(i, {from})
  /\ incidents[i].version = version

\* Faulty variant: COALESCE keeps the old reason when none is given.
TransitionKeepingError(i, to, attempts, error) ==
  /\ incidents' =
       [incidents EXCEPT ![i] =
          [type |-> @.type, status |-> to, version |-> @.version + 1,
           attempt_count |-> @.attempt_count + attempts,
           last_error |-> IF error = "none" THEN @.last_error ELSE error]]
  /\ age' = [age EXCEPT ![i] = 0]
  /\ UNCHANGED <<plans, actions>>

\* The UPDATE of transition_incident.
TransitionIncident(i, to, attempts, error) ==
  /\ incidents' =
       [incidents EXCEPT ![i] =
          [type |-> @.type, status |-> to, version |-> @.version + 1,
           attempt_count |-> @.attempt_count + attempts, last_error |-> error]]
  /\ age' = [age EXCEPT ![i] = 0]
  /\ UNCHANGED <<plans, actions>>

\* Faulty variant: recovery queues the incident again.
RecoveredToOpen(row) ==
  [type |-> row.type, status |-> "OPEN", version |-> row.version + 1,
   attempt_count |-> row.attempt_count, last_error |-> row.last_error]

\* mark_in_progress_needs_human, which keeps a last_error_json that is not NULL.
NeedsHuman(row) ==
  [type |-> row.type, status |-> "NEEDS_HUMAN", version |-> row.version + 1,
   attempt_count |-> row.attempt_count,
   last_error |-> IF row.last_error = "none"
                  THEN "agent_restarted_while_in_progress"
                  ELSE row.last_error]

MarkInProgressNeedsHuman ==
  /\ incidents' =
       [i \in Ids |->
          IF HasStatus(i, {"IN_PROGRESS"}) THEN NeedsHuman(incidents[i]) ELSE incidents[i]]
  /\ UNCHANGED <<age, plans, actions>>

\* create_plan.
InsertPlan(i, plan) ==
  /\ plans' = [plans EXCEPT ![i] = Append(@, plan)]
  /\ UNCHANGED <<incidents, age, actions>>

\* record_action_started; the new row is the last one.
InsertAction(i, plan, step) ==
  /\ actions' = [actions EXCEPT ![i] = Append(@, [plan |-> plan, step |-> step, status |-> "STARTED"])]
  /\ UNCHANGED <<incidents, age, plans>>

\* Faulty variant: a failed step is not written back.
UpdateSucceededOnly(i, row, status) ==
  /\ actions' = IF status = "SUCCEEDED"
                THEN [actions EXCEPT ![i][row].status = status]
                ELSE actions
  /\ UNCHANGED <<incidents, age, plans>>

\* finish_action.
UpdateAction(i, row, status) ==
  /\ actions' = [actions EXCEPT ![i][row].status = status]
  /\ UNCHANGED <<incidents, age, plans>>

=============================================================================
