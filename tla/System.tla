------------------------------- MODULE System -------------------------------
(***************************************************************************)
(* The controller in its sandbox: one agent whose passes observe the       *)
(* containers (Observer) and whose tools change them and the files they    *)
(* read (Sandbox), while Docker and the fault injection scripts go on.     *)
(*                                                                         *)
(* RemediationController lets an observation find anything and a tool end  *)
(* in any way.  Here both depend on the sandbox: each step of the system   *)
(* is a step of the controller with the result the sandbox gives it, or    *)
(* one of the sandbox or of a pass that leaves the controller alone.       *)
(***************************************************************************)
EXTENDS ControllerProperties, Observer

CONSTANT MaxToolFaults  \* bound: tool calls that fail for reasons of their own

\* docker-compose.yml runs one agent.
ASSUME SystemAssumption ==
  /\ \E p \in Procs : Procs = {p}
  /\ MaxToolFaults \in Nat
  /\ Types = Registered

VARIABLES
  call,        \* the tool call that is waiting for Docker or for the endpoint
  toolFaults,  \* tool calls that have failed for reasons of their own
  claimedAt,   \* the injections written when the agent last claimed an incident
  endedAt      \* the scripts that had ended then

claimVars == <<claimedAt, endedAt>>
systemVars == <<vars, sandboxVars, observerVars, call, toolFaults, claimVars>>

agent == CHOOSE p \in Procs : TRUE

\* "cut": nginx has stopped while verify_health_stable was sampling it.
SystemTypeOK ==
  /\ TypeOK
  /\ SandboxTypeOK
  /\ ObserverTypeOK
  /\ call \in {"none", "restart", "verify", "cut"}
  /\ toolFaults \in Nat
  /\ claimedAt \in [Containers -> Nat]
  /\ endedAt \in [Containers -> Nat]

SystemInit ==
  /\ Init
  /\ SandboxInit
  /\ ObserverInit
  /\ call = "none"
  /\ toolFaults = 0
  /\ claimedAt = injected
  /\ endedAt = ended

-----------------------------------------------------------------------------
(* The tools                                                               *)

Tool == Steps(agent)[job[agent].step]

\* The container the plan of the incident restarts.
Target == ContainerOf(incidents[cur[agent].id].type)

SandboxBut(changed) ==
  /\ changed # "conf" => UNCHANGED conf
  /\ changed \notin {"conf", "candidate"} => UNCHANGED candidate
  /\ changed # "crash" => UNCHANGED crash
  /\ UNCHANGED <<state, restarts, requested, scriptVars>>

\* A tool that takes a while begins: Docker is asked for the restart, or the
\* endpoint is sampled for the first time.
ToolStarts ==
  /\ pc[agent] = "tool"
  /\ call = "none"
  /\ \/ /\ Tool = "restart_container"
        /\ call' = "restart"
        /\ requested' = requested \cup {Target}
     \/ /\ Tool = "verify_health_stable"
        /\ call' = "verify"
        /\ UNCHANGED requested
  /\ UNCHANGED <<vars, observerVars, conf, candidate, crash, state, restarts, scriptVars,
                 toolFaults, claimVars>>

\* What a tool does when it returns.  A restart is answered when Docker is done
\* with it; a verification ends on a good sample.  What is left of a candidate
\* cut short may be a configuration, too.
Succeeds ==
  CASE Tool = "render_known_good_nginx_config" -> candidate' = "good" /\ SandboxBut("candidate")
    [] Tool = "nginx_configtest"     -> candidate # "none" /\ Resolvable("app")
                                          /\ SandboxBut("nothing")
    [] Tool = "atomic_replace"       -> candidate # "none" /\ conf' = candidate
                                          /\ candidate' = "none" /\ SandboxBut("conf")
    [] Tool = "restart_container"    -> call = "restart" /\ Target \notin requested
                                          /\ SandboxBut("nothing")
    [] Tool = "write_runtime_flags"  -> crash' = FALSE /\ SandboxBut("crash")
    [] Tool = "verify_health_stable" -> call \in {"verify", "cut"} /\ Healthy
                                          /\ SandboxBut("nothing")
    [] Tool = "noop"                 -> SandboxBut("nothing")

\* The tool raises because of what it finds: nginx -t rejects the candidate, the
\* candidate is not there, the connection to the endpoint is closed.
Refuses ==
  /\ CASE Tool = "nginx_configtest"     -> ~ (candidate = "good" /\ Resolvable("app"))
       [] Tool = "atomic_replace"       -> candidate = "none"
       [] Tool = "verify_health_stable" -> call = "cut"
       [] OTHER                         -> FALSE
  /\ SandboxBut("nothing")

\* max_wait_s is over.  Scripts and Docker's restarts on request end long before
\* it, so what is still down is a container that exits whenever it starts.
Unverified ==
  /\ call \in {"verify", "cut"}
  /\ ended = injected
  /\ \E c \in Containers : state[c] = "restarting"
  /\ SandboxBut("nothing")

\* The tool raises for reasons of its own: the volume, Docker or the proxy
\* fails, or the endpoint does although both containers serve.  A file may then
\* be half written; a restart may not have been asked for, or may still happen
\* after the client has given up on it.
Breaks ==
  /\ toolFaults < MaxToolFaults
  /\ Tool # "noop"
  /\ \/ SandboxBut("nothing")
     \/ Tool = "render_known_good_nginx_config" /\ candidate' = "partial" /\ SandboxBut("candidate")

\* RunTool, with the outcome the sandbox gives.
ToolEnds ==
  /\ RunTool(agent)
  /\ LET outcome == job'[agent].outcome
     IN \/ outcome = "ok" /\ Succeeds /\ UNCHANGED toolFaults
        \/ outcome = "step_failed" /\ Refuses /\ UNCHANGED toolFaults
        \/ outcome = "verification_failed" /\ Unverified /\ UNCHANGED toolFaults
        \/ outcome # "ok" /\ Breaks /\ toolFaults' = toolFaults + 1
  /\ call' = "none"
  /\ UNCHANGED <<observerVars, claimVars>>

-----------------------------------------------------------------------------
(* The other steps                                                         *)

Unobserved == UNCHANGED <<vars, call, toolFaults, claimVars>>

\* A call of the pass the agent is in.
PassStep ==
  /\ pc[agent] = "observe"
  /\ ObserverStep
  /\ UNCHANGED sandboxVars
  /\ Unobserved

\* The pass is over: run_pass has the candidates, or the exception.
Observed ==
  /\ \/ opc = "found" /\ Observe(agent) /\ cands'[agent] = Detect(seen)
     \/ opc = "lost" /\ ObserveFails(agent)
  /\ PassEnds
  /\ UNCHANGED <<sandboxVars, call, toolFaults, claimVars>>

\* Any other step of the controller.  A worker that waits for a tool does so
\* until its process ends.  A process that ends takes its pass and its tool call
\* with it; Docker goes on with what it has been asked for.
ControllerStep ==
  /\ Next
  /\ call # "none" => pc'[agent] \in {"tool", "off"}
  /\ ~ (pc[agent] = "tool" /\ pc'[agent] = "finish")
  /\ ~ (pc[agent] = "observe" /\ pc'[agent] \in {"persist", "idle"})
  /\ UNCHANGED <<sandboxVars, toolFaults>>
  /\ IF pc'[agent] = "off"
     THEN call' = "none" /\ PassEnds
     ELSE UNCHANGED <<call, observerVars>>
  /\ IF pc[agent] = "claim"
     THEN claimedAt' = injected /\ endedAt' = ended
     ELSE UNCHANGED claimVars

\* Docker and the scripts.
SandboxStep ==
  /\ Meanwhile
  /\ call' = IF call = "verify" /\ state["nginx"] = "up" /\ state'["nginx"] # "up"
             THEN "cut"
             ELSE call
  /\ UNCHANGED <<vars, toolFaults, claimVars>>

SystemNext == ToolStarts \/ ToolEnds \/ PassStep \/ Observed \/ ControllerStep \/ SandboxStep

SystemSpec == SystemInit /\ [][SystemNext]_systemVars

\* The agent's thread runs and its calls return, every verification by its
\* deadline; Docker goes on, does not fail every listing, a script that runs
\* ends, and time passes.  Nobody has to run a script or to start a process.
SystemFairness ==
  /\ WF_systemVars(ToolStarts \/ PassStep \/ Observed \/ (ControllerStep /\ WorkerStep(agent)))
  /\ SF_systemVars(ToolEnds)
  /\ SF_systemVars(PassStep /\ ListContainers)
  /\ WF_systemVars(ControllerStep /\ Tick)
  /\ \A c \in Containers :
       /\ WF_systemVars(SandboxStep /\ Boots(c))
       /\ WF_systemVars(SandboxStep /\ StopOnRequest(c))
       /\ WF_systemVars(SandboxStep /\ StartOnRequest(c))
       /\ WF_systemVars(SandboxStep /\ ScriptEnds(c))

FairSystemSpec == SystemSpec /\ SystemFairness

-----------------------------------------------------------------------------
(* Properties                                                              *)

OfType(t) == {i \in Ids : Exists(i) /\ incidents[i].type = t}

\* A fault is never blamed on the other service, and is reported once: there are
\* no more incidents of a type than scripts that have injected the fault and
\* restarted the container.
OneIncidentPerInjection ==
  \A t \in Registered : Cardinality(OfType(t)) <= ended[ContainerOf(t)]

\* When an incident is resolved what caused it is repaired, unless it was
\* injected again after the agent had claimed the incident.
Repaired(t) == IF t = "APP_CRASH_LOOP" THEN ~ crash ELSE conf = "good"

ResolvedIsRepaired ==
  [][\A i \in Ids :
       HasStatus(i, {"IN_PROGRESS"}) /\ incidents'[i].status = "RESOLVED" =>
         LET t == incidents[i].type
         IN injected[ContainerOf(t)] = claimedAt[ContainerOf(t)] => Repaired(t)]_systemVars

\* No container is broken but c.
Only(c) == \A d \in Containers \ {c} : injected[d] = 0

\* Where only one of the services is broken, the retries absorb what fails: each
\* failure of a tool, and each script run after the first, costs one attempt and
\* no more, so no human is asked while there is an attempt for each.  But for
\* recovery, which asks for one whenever it finds an execution: a service's API
\* may, and a restart after a fault of the process.
FaultsAbsorbed ==
  \A c \in Containers :
    Only(c) /\ ended[c] + toolFaults <= MAX_ATTEMPTS =>
      \A i \in Ids :
        HasStatus(i, {"NEEDS_HUMAN"}) =>
          /\ incidents[i].last_error = "agent_restarted_while_in_progress"
          /\ Mode[agent] = "service" \/ faults > 0

\* A fault that a pass finds is repaired and the endpoint healthy again, or a
\* human is asked, unless the worker is gone.
FoundIsHandled ==
  \A t \in Registered :
    opc = "found" /\ t \in Detect(seen) ~>
      \/ Repaired(t) /\ Healthy
      \/ \E i \in OfType(t) : HasStatus(i, {"NEEDS_HUMAN"})
      \/ NoWorker

-----------------------------------------------------------------------------
(* The inductive invariant of the repair                                   *)

\* Whether the execution the agent is in has done step k of its plan,
Done(k) ==
  \/ k < job[agent].step
  \/ /\ k = job[agent].step
     /\ pc[agent] \in {"finish", "final", "final_commit"}
     /\ Succeeded(agent)

\* or a step that calls tool.
Did(tool) == \E k \in DOMAIN Steps(agent) : Steps(agent)[k] = tool /\ Done(k)

\* Since the claim no script has written the file of the container,
Unspoiled == injected[Target] = claimedAt[Target]

\* or has restarted it.
Undisturbed == ended[Target] = endedAt[Target]

\* What the steps done so far have put right stays right: the candidate in any
\* case, the file until a script writes it.
RepairSoFar ==
  Executing(agent) =>
    IF Target = "app"
    THEN Did("write_runtime_flags") /\ Unspoiled => ~ crash
    ELSE /\ Did("render_known_good_nginx_config") /\ ~ Did("atomic_replace") => candidate = "good"
         /\ Did("atomic_replace") /\ Unspoiled => conf = "good"

\* An execution succeeds at its last step.
EndsAtLastStep ==
  pc[agent] \in {"final", "final_commit"} /\ Succeeded(agent) => LastStep(agent)

\* Scripts end after they have written, and claims look back.
ScriptsCounted ==
  /\ {injected, ended, claimedAt, endedAt} \subseteq [Containers -> Nat]
  /\ \A c \in Containers :
       /\ ended[c] <= injected[c]
       /\ claimedAt[c] <= injected[c]
       /\ endedAt[c] <= ended[c]
       /\ endedAt[c] <= claimedAt[c]

RepairInv ==
  /\ ExecutionInv
  /\ ScriptsCounted
  /\ RepairSoFar
  /\ EndsAtLastStep

-----------------------------------------------------------------------------
(* The inductive invariant of the counts                                   *)

ResolvedOf(t) == {i \in OfType(t) : HasStatus(i, {"RESOLVED"})}

\* A container in which nothing goes on that could look like a fault.
Settled(c) == state[c] = "up" /\ c \notin requested

\* What looks like a fault of type t, in the container or in what the agent has
\* got from it.
Suspected(t) ==
  ~ Settled(ContainerOf(t)) \/ t \in Detect(seen) \/ t \in cands[agent]

\* Passes, candidates and tool calls belong to one place of the worker's loop.
Places ==
  /\ opc # "list" => pc[agent] = "observe"
  /\ cands[agent] # {} => pc[agent] = "persist"
  /\ call # "none" => pc[agent] = "tool"
  /\ call = "restart" => Tool = "restart_container"
  /\ call \in {"verify", "cut"} => Tool = "verify_health_stable"

\* What looks like a fault is one that no RESOLVED incident accounts for,
SuspicionAccounted ==
  \A t \in Registered :
    Suspected(t) => Cardinality(ResolvedOf(t)) < ended[ContainerOf(t)]

\* an execution can resolve no more than the scripts before it have made,
ClaimAccounted ==
  Executing(agent) =>
    Cardinality(OfType(incidents[cur[agent].id].type)) <= endedAt[Target]

\* and leaves the container settled, as long as no script restarts it again.
SettledSoFar ==
  Executing(agent) /\ Undisturbed =>
    /\ Did("restart_container") => Target \notin requested
    /\ Did("verify_health_stable") => state[Target] = "up"

CountInv ==
  /\ RepairInv
  /\ SystemTypeOK
  /\ PassSoFar
  /\ Places
  /\ OneIncidentPerInjection
  /\ SuspicionAccounted
  /\ ClaimAccounted
  /\ SettledSoFar

-----------------------------------------------------------------------------
(* The inductive invariant of the attempts                                 *)

\* Where nothing is broken but the container under repair, nothing disturbs its
\* verification as long as no script restarts it, and it starts as long as none
\* writes its file.
StartsSoFar ==
  Executing(agent) /\ Only(Target) =>
    /\ Undisturbed => call # "cut"
    /\ (Did("restart_container") \/ call = "restart") /\ Unspoiled =>
         Target \in requested \/ state[Target] \in {"starting", "up"}

\* Every attempt that has failed was paid for, by a tool's failure or by an
\* script other than the one that made the incident,
AttemptsPaid ==
  \A c \in Containers : Only(c) =>
    \A i \in Ids :
      HasStatus(i, {"OPEN", "PLANNED", "FAILED"}) =>
        incidents[i].attempt_count < toolFaults + ended[c]

\* and so is the present one, as soon as it has failed.
ExecutionPaid ==
  Executing(agent) /\ Only(Target) /\ HasStatus(cur[agent].id, {"IN_PROGRESS"}) =>
    /\ incidents[cur[agent].id].attempt_count <= toolFaults + endedAt[Target]
    /\ pc[agent] \in {"finish", "final", "final_commit"} /\ ~ Succeeded(agent) =>
         incidents[cur[agent].id].attempt_count < toolFaults + ended[Target]

\* An API runs only where the mode says so.
ApiInMode == api[agent] # "off" => Mode[agent] \in {"service", "api"}

AbsorbInv ==
  /\ CountInv
  /\ StartsSoFar
  /\ AttemptsPaid
  /\ ExecutionPaid
  /\ NoWorkerInApi
  /\ ApiInMode
  /\ FaultsAbsorbed

=============================================================================
