# Verification of docker-incident-controller

TLA+ models of the remediation controller in `agent/` and of the sandbox it
repairs, the TLC runs that check them, and proofs of their theorems. Line numbers are
those of the files under `src/`.

## 1. The system

An agent watches the containers of a small Docker Compose sandbox, records an
incident when it recognises a fault, makes a plan for it, executes the plan's
steps and verifies the result. Everything it decides by is in one SQLite file.

### Components

| Component | State | Operations | Talks to |
| :-- | :-- | :-- | :-- |
| State machine (`models/state_machine.py`) | none (a table) | `can_transition`, `assert_can_transition`, `actionable_statuses` | called by the store and the orchestrator |
| Store (`storage/sqlite_store.py`) | tables `incidents`, `plans`, `actions`, `observations`; the partial unique index on active types | create incidents, versioned transition, recovery, create plan, record and finish action, reads | every writer opens a connection per call; SQLite serialises them |
| Orchestrator (`pipeline/orchestrator.py`) | what a pass carries: candidates, the list it read, the record it holds | `run_pass`, `process_ready_incidents`, `retry_failed_incident`, `plan_open_incident`, `execute_planned_incident`, polling loop | observer, detector, store, planner, executor |
| Executor (`executor/runner.py`) | claimed record, current step, action row, outcome | `execute_plan`, `transition_from_in_progress` | store, tools |
| Worker, service, API life cycle (`core/worker.py`, `core/service.py`, `api/main.py`) | worker thread, API lifespan, stop event | start, recovery (twice), stop, `--once` | store, orchestrator |
| Planner (`planner/`) | registered strategies | `plan_for`, retry-aware wrapper | orchestrator |
| Tools (`tools/`) | files in two volumes, containers | seven allowlisted tools | Docker, health endpoint, volumes |
| Observer, Docker and health clients (`observer/`) | none between passes | `observe_once`, one HTTP call per Docker operation, `get`, the log decoder | Docker proxy, nginx |
| Detector (`detector/rules.py`) | none | two rules | orchestrator |
| API handlers, metrics, logs | none | read-only queries, counters | store |
| Sandbox (`services/`, `fault_injection/`) | nginx configuration, crash flag, container states | start, crash, restart | Docker |

### What is hard in it

* **Several writers, no lock.** The service is a worker thread and an API; the
  API's lifespan runs the same recovery as the worker, *after* the worker has
  been started (`service.py:17-23`, `api/main.py:21`). `worker --once` runs it as
  well. Nothing prevents a second worker. All of them rely on a version number
  and a status in a WHERE clause.
* **Records used long after they were read.** The list of incidents is read once
  per pass (`orchestrator.py:71`); a record on it is used after the plans of
  those before it have run. `transition_incident` returns a row it reads in a
  second connection (`sqlite_store.py:431`). The executor's last write takes the
  version from a fresh read, not from its claim (`runner.py:106-113`).
* **Several transactions for one thing.** A plan and the PLANNED status; each
  step's action before and after the tool; the final status. A crash, a kill
  after the five-second join, or a store error can fall between any two.
* **Calls whose effect is unknown.** The Docker client gives up on a call after
  three seconds, whatever the engine makes of it; a restart may take ten
  (`docker_socket.py:78`, `remediation.py:94`). A tool fails half way and the next
  attempt starts from what it left behind.
* **Sampling.** A pass inspects one container after the other while they restart;
  a verification sees the endpoint once a second. Both decide about what happens
  between their samples. Both remediations are verified by one endpoint that needs
  both services.
* **Retries.** An attempt is counted when it begins, bounded in two places, and
  separated by a back-off measured with the wall clock.

`PROJECT.json` lists the hazards with the line each bites at and the properties
that would catch it; a hazard without a property has a note that says why.

### What makes it correct

* *Store*: one unresolved incident per type; a versioned write changes a row only
  from the status it names.
* *Orchestrator and executor*: no two workers remediate one type at a time, an
  incident costs at most `MAX_ATTEMPTS` executions, the plan executed is the one
  for this attempt, a RESOLVED row has a complete trail, the reason on a row
  explains its status, only the claimant ends an execution.
* *Life cycle*: recovery never resumes an execution and never reopens what is
  settled; every incident settles while a worker lives.
* *Tools*: a verification succeeds only after a window of good samples without a
  gap, fails only with a cause, and ends; a candidate is installed only if nginx
  accepted it; a test container is not left behind by a failure of the tool.
* *Observer and detector*: a fault that shows throughout a pass is found by it,
  whatever fails for the other container; log bodies are cut up as they were made.
* *The system*: RESOLVED means repaired, a fault is reported once, retries absorb
  what fails, what was found ends repaired or with a human.

## 2. Modules

| Module | Models |
| :-- | :-- |
| `IncidentStateMachine` | statuses, transition table, actionable statuses |
| `Planner` | tool sequences of the strategies, the retry-aware prefix, how each tool can end |
| `IncidentStore` | the tables and the statements on them, one operator per transaction |
| `RemediationController` | processes: worker, API lifespan, faults, time; one action per call |
| `IncidentLifecycle` | abstract specification: what is promised of an incident |
| `ControllerProperties` | properties, the refinement mapping `life`, the inductive invariants |
| `ControllerProofs`, `ExecutionProofs` | theorems and proofs about the controller |
| `HealthVerification`, `HealthProofs` | the tool `verify_health_stable` with the health client, on a clock |
| `ConfigTest`, `ConfigTestProofs` | the tool `nginx_configtest`, one Docker call at a time |
| `LogFrames`, `LogFramesProofs` | `decode_docker_log_bytes`, one frame at a time |
| `Sandbox` | the containers, the files they read, Docker's restarts, fault injection |
| `Observer` | an observation pass over the sandbox, and detection |
| `System` | the controller whose observations and tools are those of the sandbox |
| `SystemProofs`, `CountProofs`, `AbsorptionProofs` | theorems about the system: what is repaired, what is reported, what a failure costs |
| `MCController`, `MCLogFrames`, `MCSystem` | instances for TLC |
| `ControllerFindings` | statements of the repository that the code contradicts |

`IncidentStore` EXTENDS the state machine and the planner, `RemediationController`
EXTENDS the store, `ControllerProperties` EXTENDS the controller and instantiates
`IncidentLifecycle` with `life`. `Observer` EXTENDS `Sandbox`, and `System` EXTENDS
`ControllerProperties` and `Observer`: its steps are joint steps of the two.
`HealthVerification`, `ConfigTest` and `LogFrames` stand alone; `System` uses what they
establish (below).

Before some definitions stands a *faulty variant* of it with the same parameters
(for instance `ExhaustedTooLate` before `Exhausted`). Nothing uses them; put in the
place of the definition, each makes TLC report a property of some run. They say
which mistake in the code the property would catch.

### State and actions against the code

| Variable | Code |
| :-- | :-- |
| `incidents` | table `incidents`: type, status, version, attempt_count, and `failure_reason` of last_error_json. A new row's evidence is `"evidence"`, NULL is `"none"` |
| `age` | seconds since `updated_at`, for FAILED rows, the only ones whose age decides anything |
| `plans`, `actions` | tables, per incident and in insertion order; a plan is its tools |
| `pc` | the next store, Docker or tool call of the worker |
| `api` | off, starting (before recovery in the lifespan), serving, stopping (stop event set) |
| `cands`, `queue`, `cur`, `job` | locals of `run_pass`, `process_ready_incidents`, the orchestrator's methods, `execute_plan` |
| `faults` | crashes, shutdowns and store errors so far (bound) |

A store call that commits is one step. One that commits and then reads back is
two, because another process can write in between: `Claim` and `ReadBack` for the
claim, likewise for every transition. The read-backs of plan and action rows
always find what was inserted (nobody changes those rows) and are not steps of
their own; that they can *fail* is kept, since `StoreError` is possible at the pc
after them. `transition_incident` raising OptimisticLockError is an action of its
own at each of its call sites: `RequeueLost` and `CommitPlanLost` skip the
incident, `ClaimLost` reads the row and goes on, `EscalateLost` and
`FinalizeLost` let the exception end the pass, as the code does.

`process_ready_incidents` is `List`, then `Take` in the order of
`created_at, id` until `EndPass`. Between two calls of one worker any other
process may take any step.

**`HealthVerification`.** `pc` is the place in the loop: `check` (the loop condition),
`request` and `reply` (inside `get`, before and after the endpoint has answered),
`sleep`. `health` is what a GET answered at this moment ends as, and changes at any
time; the tool learns the answer up to `RequestMax` ticks after it called. `raises`
is the error `get` does not catch, which ends the tool as `step_failed`. Time passes in
GETs and sleeps only. `disturbed` and `answers` are history variables.

**`ConfigTest`.** One action per Docker call. A call is answered, refused, done with its
answer lost, or done after the client gave up (`LateCall`, for a call that changes
something). An exception inside the `try` block goes through `Remove`, the `finally`
clause; `Create` stands before it. The inspections of `wait_container` are counted in
place of its clock. nginx may hang, and rejects a good candidate while the app's
name does not resolve.

**`LogFrames`.** `TakeFrame` is an iteration of the loop, `Decode` the decision after it.
Chunks are offsets into the body, so that what is dropped can be said.

**`Sandbox`.** `conf`, `candidate`, `crash` are the contents of `site.conf`, `site.conf.tmp`
and `flags.json` as far as anything depends on them. A container starts, serves,
exits while it starts (which raises Docker's RestartCount), waits for Docker to
retry, or is stopped for a requested restart (which resets the count). app exits if
`crash_on_start` is set (`services/app/main.py:35-37`); nginx if its file is not valid or
`app` does not resolve (`site.conf:6` names it as upstream). A script
is two steps: it writes its file (`Inject`), and then asks for the restart, which may fail
(`ScriptEnds`); the agent and Docker go on in between. `injected` and `ended` count them.
Requests for one container that Docker has not carried out are one: its engine
takes them one after the other, so the agent's call returns after both.

**`Observer`.** One action per call of `observe_once`. Any inspection can fail and leaves
its container out; logs can fail and change nothing, since the log patterns choose
a candidate's evidence and never whether there is one. The health request raises if
nginx stops while it is answering.

**`System`.** `ToolStarts` and `ToolEnds` enclose a tool that waits for Docker or for the
endpoint; the sandbox goes on between them. `ToolEnds` is `RunTool` of the controller
with an outcome the sandbox justifies: `Succeeds` with the tool's effect, `Refuses`
because of what the tool finds, `Breaks` for a reason of its own (a volume, Docker, the proxy,
or an endpoint that is slow or answers 5xx although both containers serve), `Unverified` at the end of `max_wait_s`.
`claimedAt` and `endedAt` note the two counts of the scripts at the claim.
`Observed` is `Observe` with `Detect(seen)` for its candidates, or `ObserveFails`.
`ControllerStep` is any other step of the controller. While a tool call is waiting for Docker
or for the endpoint the worker stays in it, unless its process ends; the process's API goes
on beside it.

### Abstractions

* Ids are numbered in `created_at, id` order. Incidents created by one pass share
  a `created_at` and have random ids, so `CreateIncidents` gives them free numbers
  in any order.
* Plans are in insertion order; the code orders by `created_at`. The two agree
  unless the wall clock steps back between two plans of one incident.
* A record that is no longer the row has an `updated_at` the model does not keep;
  its back-off may be over or not (`Fresh` in `BackoffPending`, `BackoffOver`). The
  write after it loses the race in either case.
* An observation and its detection give any set of candidates (`Observe`) or raise
  (`ObserveFails`). A tool ends in any outcome it can have: `noop` succeeds, health
  verification can raise VerificationFailed, every tool but `noop` can raise
  something else.
* In `System` a verification succeeds on a good endpoint. It fails while a
  container is exiting whenever it starts and no script is between its two steps, or as one of
  the failures that `MaxToolFaults` counts. `HealthVerification` shows both: a success
  ends on a good sample (`VerifiedWindow`), and a failure needs a disturbance late before
  the deadline (`FailureHasCause`), which restarts on request and scripts, done in seconds, do not
  cause within 60. In the same way `Refuses` and `Succeeds` of `nginx_configtest` rest on
  `AcceptedWasTested`; a candidate that was cut short may pass `nginx -t`, too, or be refused.
* Docker's RestartCount is counted up to the threshold it is compared with; its
  growing delays between retries have no lower bound here.
* Observations, JSON, dates, metrics and log lines are left out: nothing decides
  by them.
* A process that is off can start again at any time (an operator does that). A
  worker killed by a service that gave up joining after five seconds is `Exit` at
  any pc.

### Bounds

For the controller: `MaxIncidents` rows (a full table drops candidates), `MaxFaults` faults in all,
and `age`, which stops at the back-off it is compared with. `MAX_ATTEMPTS` is 3 in
the code; runs that are not about the budget take 1 or 2 to leave room for more
processes. Versions, plans and actions need no bound of their own: they grow with
attempts only.

`RequestMax` and `Delay` bound what is slow in `HealthVerification`; the properties are
stated with them. `MaxPolls` counts the inspections of `wait_container`. In the sandbox
`MaxInjections` says how often each script is run, `MaxToolFaults` how many tools fail
for reasons of their own, and `CrashThreshold` is 3 in the code and 1 or 2 in the runs, to
leave room for the rest. `Bodies` are what the log decoder may be given.

## 3. Runs

| Run | Instance | Shows |
| :-- | :-- | :-- |
| `service` | service and `--once` passes, 2 types, 2 rows, 1 attempt, no faults | types; `UniqueActive` under concurrent detection; `ErrorExplainsStatus`; nothing is left IN_PROGRESS unexecuted, although recovery races the worker (`NoOrphanWithoutFault`); the late write of a worker whose incident was taken away is refused (`SettledStaysSettled`) |
| `retries` | service, 1 row, 3 attempts, 2 faults of any kind, fairness | `AttemptBudget`, `NoDanglingAction`, `ResolvedTrail`, `ExecutesCurrentPlan` over a whole life with restarts; the life cycle is implemented; `Settles` |
| `two_workers` | service and a `--loop` worker, 1 type, 1 row, 2 attempts, no faults | `ExclusiveExecution`, `EndedByClaimant`, with the recovery of either process during the other's execution and a retry either may take; `RetriesWait`, for a worker that holds the record of an earlier failure; the life cycle is implemented with two writers; the inductive invariant `IInv` |
| `health` | window 2, deadline 9, GETs up to 1 and sleeps up to 1 too long, fairness | `VerifiedWindow`, `FailureHasCause`, `EndsInTime`, `Ends`, the inductive invariant `VerificationInv` |
| `configtest` | 3 inspections, any call failing in any way, fairness | `AcceptedWasTested`, `LeakHasCause`, `Ends`, the inductive invariant `ConfigTestInv` |
| `system_nginx` | one worker, nginx script up to twice, 1 tool failure, 1 crash with any number of starts, any three of these four together, 3 attempts | `FaultsAbsorbed`: no human is asked, or else by the recovery after the crash; `ResolvedIsRepaired`; the inductive invariant `AbsorbInv`, which holds those of the repair and of the counts |
| `system_both` | one worker, each script up to once, 3 rows, 2 attempts | `OneIncidentPerInjection`, `DetectsSteadyFaults`, `FaultsAbsorbed` |
| `system_heals` | one worker, nginx script once, 1 tool failure, 2 attempts, fairness | `FoundIsHandled` |
| `logframes` | all sequences of 3 out of 10 pieces | `FramesRecognised`, `NothingButHeadersDropped` |

For the controller, one row is enough for races about a row: everything a worker does
concerns the row it holds, and rows meet only in the unique index and in the list a
pass works through (both in `service`). The API started by itself (`Mode` is
`"api"`) only recovers; no run has it, the theorems about the controller cover it. Three attempts (`retries`) are the code's number and reach the plan with
the `noop` step. Two faults give a crash in the recovery from a crash. In `health`
the deadline leaves room for a window to be disturbed and begun again, without which `FailureHasCause`
could not fail. Two injections of one script fall at any two moments: a second
one during the repair, after RESOLVED, or in the next attempt. `ThreeTroubles` leaves out
only that everything happens in one behaviour, which triples the states; three attempts are
spent by three of them. The crash of `system_nginx` falls
between any two steps of a repair, and between Docker's. In `system_both` a third row
is free for an incident that should not be there. The pieces of `logframes` hold
empty and truncated frames, text that looks like a header, headers of a stream
that does not exist and sizes that lead past the end.

`CHECK_DEADLOCK FALSE` is set where store errors occur: an error at boot ends the
worker thread (`worker.py:101-102`), the service does not notice, and nothing is
left to happen. It is also set in `health`, `configtest` and `logframes`: a tool
that has ended, and a decoded log, stay as they are.

### Fairness

`FairSpec` assumes that threads are scheduled and calls return (`WF` of
`WorkerStep`, `LifespanRecover`, `Exit`), that time passes (`WF` of `Tick`), and
that Docker and the health endpoint do not fail *every* pass (`SF` of `Observe`;
`ObserveFails` is enabled wherever `Observe` is). `StoreError`, `Crash` and
`Shutdown` are never fair. `Start` is not fair either: the compose file gives the
agent no restart policy. So `Settles` excepts a worker that is gone. It also
excepts an incident that a store error left IN_PROGRESS with nobody executing it:
that is what the code does (finding 2).

`FairSpec` of `HealthVerification` and of `ConfigTest` assumes that the tool goes on: every
GET, Docker call and sleep ends, by its timeout if need be. Nothing is assumed of the
endpoint or of the engine; `Ends` holds if nginx hangs.

`FairSystemSpec` assumes that the agent's thread runs and its calls return (`WF`), that a
tool which could end again and again does end (`SF` of `ToolEnds`: whether a sample is
good comes and goes), that Docker does not refuse every listing (`SF`), that Docker
carries out what it has been asked for and its restart policy, that a script which has
written its file comes to its end, and that time passes (`WF`).
That a script is run, or a process started, is never fair.

### Findings

Each is a run that TLC refutes.

1. **Start-up recovery hits live executions** (`lifespan_race`). In one service
   process: the worker thread boots, recovers, detects, plans and claims; then
   uvicorn runs the lifespan and marks the claimed incident NEEDS_HUMAN. Its plan
   runs to the end, its last write loses, and since NEEDS_HUMAN counts as active
   and has no way out, the type is not detected again.
2. **An orphaned incident is listed and never processed** (`orphaned`). A store
   error during an execution ends the pass with the row IN_PROGRESS. Later passes
   list it among the actionable ones and skip it.
3. **A closed connection loses the pass** (`health_reset`). `get` catches HTTPError,
   URLError and TimeoutError (`health.py:29-40`). urlopen wraps an error in *sending*
   the request as URLError; one in reading the answer, such as ConnectionResetError,
   RemoteDisconnected or IncompleteRead, is raised as it is. If nginx stops while it
   answers, `observe_once` raises, what it has observed of both containers is lost,
   and with it the pass's work on incidents already known (`orchestrator.py:217`).
   The polling loop's own `except` makes the next pass possible. In `verify_health_stable` the same
   error ends the step as `step_failed` at once, without the 60 s it has; `FailureHasCause` is
   about `verification_failed` only.

Three comments disagree with the code in ways the model shows at once and no run
is spent on. The class docstring of the state machine (lines 12-13) lists
FAILED among the terminal states; the table (line 38) and the orchestrator retry it. The
comment at `orchestrator.py:110` says the back-off is 2, 4, 8 s; `2 ** (attempt_count + 1)` with
a count that is already 1 gives 4 s and 8 s, and the third failure escalates. And
`README.md:55-56` has planning inside the transaction that persists incidents;
`create_plan` commits in one of its own before the status is written, and `ExecutesCurrentPlan` shows
that with one worker no harm comes of the plan a crash leaves behind.

`README.md:168` of the repository warns that concurrent workers cause "duplicate
execution". Incidents are not executed twice: `ExclusiveExecution` holds, and is
proved, for any number of workers on one database. What two workers can
get wrong is *which* plan is executed: one that lost the planning race may insert its plan after the
winner's, and a retry later the latest plan can be an earlier attempt's.
`ExecutesCurrentPlan` is therefore proved for one worker; TLC refutes it for two with three attempts.

## 4. Proofs

`ControllerProofs` and `ExecutionProofs` prove, for every set of processes in every mix
of modes, every set of types, table size, attempt limit and fault budget:

| Theorem | States |
| :-- | :-- |
| `Invariance` | `Spec => []IInv` |
| `TypeCorrect` | `[]TypeOK` |
| `UniqueActiveAlways` | `[]UniqueActive` |
| `AttemptBudgetAlways` | `[]AttemptBudget` |
| `ErrorExplainsStatusAlways` | `[]ErrorExplainsStatus` |
| `NoDanglingActionAlways` | `[]NoDanglingAction` |
| `ExclusiveExecutionAlways` | `[]ExclusiveExecution` |
| `EndedByClaimantAlways` | `EndedByClaimant` |
| `RetriesWaitAlways` | `RetriesWait` |
| `SettledAlways` | `SettledStaysSettled` |
| `ImplementsLifecycleAlways` | `Spec => Lifecycle!Spec` |
| `ExecutionInvariance` | `Spec => []ExecutionInv` |
| `NoOrphanWithoutFaultAlways` | `[]NoOrphanWithoutFault` |
| `ResolvedTrailAlways` | `[]ResolvedTrail` |
| `ExecutesCurrentPlanAlways` | `[]ExecutesCurrentPlan`, assuming `OneWorker` |

The other proof modules:

| Theorem | States |
| :-- | :-- |
| `HealthInvariance`, `VerifiedWindowAlways`, `FailureHasCauseAlways`, `EndsInTimeAlways` (`HealthProofs`) | the invariants of `HealthVerification`, for every window, deadline, interval and delay |
| `LoopInvariant`, `FramesRecognisedAlways`, `NothingButHeadersDroppedAlways` (`LogFramesProofs`) | the invariants of `LogFrames`, for every set of bodies |
| `ConfigTestInvariance`, `AcceptedWasTestedAlways`, `LeakHasCauseAlways` (`ConfigTestProofs`) | the invariants of `ConfigTest`, for any number of polls |
| `ImplementsController` (`SystemProofs`) | `SystemSpec => Spec` |
| `SystemExecutesCurrentPlan` (`SystemProofs`) | `SystemSpec => []ExecutesCurrentPlan` |
| `RepairInvariance`, `ResolvedIsRepairedAlways` (`SystemProofs`) | `[]RepairInv` and `ResolvedIsRepaired` |
| `DetectsSteadyFaultsAlways` (`CountProofs`) | `[]DetectsSteadyFaults` |
| `CountInvariance`, `OneIncidentPerInjectionAlways` (`CountProofs`) | `[]CountInv`, with the types of every variable, and `[]OneIncidentPerInjection` |
| `AbsorbInvariance`, `FaultsAbsorbedAlways` (`AbsorptionProofs`) | `[]AbsorbInv` and `[]FaultsAbsorbed` |

Those about the system hold for any mode of the agent, any number of injections, tool
failures, faults of the process, attempts and rows, and any crash threshold. Together the
theorems state every invariant and action property that the passing runs check.

Assumptions: `MaxIncidents` is a natural number, `MAX_ATTEMPTS` a positive one,
`Mode` gives each process one of the four modes, and `NoIncident` is none of the
records it stands beside. `TimesAssumption`, `BodiesAssumption` and `SandboxAssumption`
type the constants of the other modules; `SystemAssumption` adds that there is one agent.

**The argument.** None of the properties is inductive, because a worker writes from
what it remembers. The core of `IInv` is `HeldRecords`: every record in a worker's
list or hands *was the row once* (`OnceRead`: it is no newer than the row, and if the
versions agree, so do status and attempts), and its status is the one the worker's
place in the loop requires. It is kept because every change of a row raises its
version (`RowsGrow`). It makes a won compare-and-swap mean that the record *is* the
row (`WonIsRow`), so the decision taken from the record, such as "an attempt is
left", holds of the row. Each of the five writes then has an exact effect on a row
(`EscalateEffect`, `RequeueEffect`, `CommitPlanEffect`, `ClaimEffect`,
`FinalizeEffect`), and with insertion and recovery these are all (`RowEffect`). The
invariants about rows and the refinement follow from `RowEffect` alone.

`Claims` says that a worker in an execution holds a row that is IN_PROGRESS with
the version it claimed, or one recovery has made NEEDS_HUMAN, and that nobody else
executes it. A row in execution can only be finalized by its executor or recovered
(`ExecutedRow`), and a claim starts from PLANNED, which a row in execution is not.
With `UniqueActive` this gives `ExclusiveExecution`, and `EndedByClaimant` although the
code compares with the version just read. `RetriesWait` is the same argument at the requeue: a
status comes back, FAILED after FAILED, but a version does not, so the back-off that is over is that of
the row. `StartedIsCurrent` adds that a STARTED
action is the one its worker is at, whence `NoDanglingAction`. `PlannedHasPlan`
shows that the code's `missing_plan` escalation never happens.

**Executions.** `ResolvedTrail` needs what a worker has behind it: `TrailSoFar` says that the
last actions of the incident are steps 1 to k of the plan in hand, all successful, with
k fixed by the worker's place. It is kept by others' steps because nobody else writes
actions of a row in execution (`Claims`), and gives `ResolvedByPlan` at the one step
that makes a row RESOLVED. `NoOrphanWithoutFault` needs `FinalRecord`: without recovery the
version read before the last write is still the row's, so a worker stops
executing only by ending the incident. With one worker nobody but recovery moves a row
between a worker's read and its write (`FreshQueue`, `FreshRecord`), so the plan it
has just made is the latest and is for the attempt count on the row (`LatestPlanIsNext`).

**Verification.** `VerifiedWindow` is about all samples at once, so its invariant keeps two of
them: from `first` on every answer was good and none is missing, and `last` is recent
(`Streak`). `FailureHasCause` is kept by a budget: `DisturbanceSeen` bounds, for each place in
the loop, how long ago the last disturbance can be if the window has not begun, and
how late the window began if it has.

**Configuration test.** `NothingFailed` says that until a call fails the client's place in the
tool and Docker's container agree, so the exit code it reads is that of the candidate's own
test. After a failure only the way out through `finally` is left (`Control`), and a container that
outlives it was made, or not removed, behind the client's back (`LeakExplained`).

**Log frames.** `Framing` says that a body *can* be cut into frames; the loop must find out
without going back. `CutSoFar` is the cutting it has made, `NoOtherCut` that
any cutting of the whole body passes through the loop's index: the next frame is
determined by the one before it. At the end the two give both directions.

**The system.** Each step of `System` is a step of the controller or leaves it alone
(`ImplementsController`), so what is proved of arbitrary observations and outcomes holds
of real ones. `RepairSoFar` adds that what the steps done so far have put right (the
candidate rendered, the file replaced, the flag written) stays right while no script
has written since the claim (`Unspoiled`): only the agent's own tools write otherwise. As an execution succeeds at its last step
(`EndsAtLastStep`) and both plans contain the repairing step, RESOLVED means repaired.

**A pass.** `PassSoFar`: a fault that has shown since the listing still shows, and for its
container the pass has found it, skipped the container, or has yet to inspect it. Since one
view of a container is enough for either rule (`DetectOne`), nothing found about the other
container takes it away.

**What is reported.** A restart that repairs a container looks like the fault it repairs, to a pass
that inspects it on the way: `OneIncidentPerInjection` holds only because by the time an
incident is RESOLVED its container serves again. `SuspicionAccounted` counts: whatever
*could* look like a fault of type t (a container not settled, a view of it in a pass, a
candidate) is matched by a script that has ended and that no RESOLVED incident accounts for:
a file alone makes no fault, before somebody restarts its container. With the
unique index (`UniqueActive`) there is room in the count for the incident that may come of
it. An execution keeps the count by `ClaimAccounted` (the incidents of its type are no more than
the scripts that had ended at the claim) and `SettledSoFar`: unless another has ended since (`Undisturbed`), after
`restart_container` the restart is over and after `verify_health_stable` the
container is up, as an endpoint that answers needs both. So at `Finalize` either the container is
settled and suspicion is gone, or a new restart by a script pays for it. `Places` ties the pass, the candidates
and the waiting call to the worker's pc, so that none survives where it could be read later.

**What a failure costs.** `FaultsAbsorbed` is about one broken service (`Only`). Then the other
container is settled and every incident is of the broken one's type (`OnlyAlone`).
`AttemptsPaid` says that the attempts of an incident that may be executed again are fewer
than the tools' failures and the scripts that have ended together; the first of these is the incident's own.
`ExecutionPaid` carries this through an execution: an attempt that
fails has met a tool's failure or the end of another script, because otherwise no tool
finds a reason (`NothingToRefuse`): the configuration test meets its own candidate and a name
that resolves (`RepairSoFar`), the container starts once it has been asked to (`StartsSoFar`), and nobody
cuts the verification short. A FAILED incident that is out of attempts therefore has all of them
paid for, an OPEN one is never out of them (`OnlyRetriesGiveUp`), and what is left is recovery
(`RecoveryStep`): in the worker's boot, when nothing is executing unless a fault left it so
(`NoOrphanWithoutFault`), or in a service's lifespan, at any time (finding 1).

The assumption of one agent is needed for all of this: a worker whose incident recovery has
taken away may go on writing files and restarting containers.

**Model-checked only.** `Settles`, `Ends` (twice) and `FoundIsHandled`: liveness under
fairness is out of this prover's reach.

## 5. Not modelled

* API request handlers (they only read), metrics and logs, `create_incident` and the
  other store methods no agent code calls, the rows of `observations`, JSON and date
  encodings.
* A wall clock that steps back between two plans of one incident: the code orders plans by
  `created_at`, the model by insertion.
* The Docker client's Unix socket transport (the deployment sets `DOCKER_HOST` to the
  proxy's TCP address) and the parsing of that variable; what the proxy refuses.
* nginx keeping an address of `app` that changed in a restart: it resolves its
  upstream when it starts, and the containers keep their addresses unless others are
  started in between.
* A file that is half written when its service reads it: the tools that replace a file do so
  at once, and a script's write is one step.
* `restart_container` finding its container by role (`docker_socket.py:54-69`): one container has
  each role; a failed inspection is a tool that `Breaks`.
* Path and key checks of the tools (`assert_within_dir`, the allowlists): every plan passes them,
  as the parameters are constants.
* Tool failures beside a broken app are in no run (`system_nginx` has them beside a
  broken nginx); both services broken *and* a tool failing is beyond the time a run may take.
  `ResolvedIsRepaired` and `OneIncidentPerInjection` are proved for all of these, and
  `FaultsAbsorbed` wherever one service is broken.
