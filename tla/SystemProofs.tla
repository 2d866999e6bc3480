---------------------------- MODULE SystemProofs ----------------------------
(***************************************************************************)
(* Theorems about System, for any mode of the agent, any number of         *)
(* incidents, attempts, faults and fault injections: the controller in its *)
(* sandbox is the controller, and what it reports as RESOLVED is repaired. *)
(***************************************************************************)
EXTENDS System, ExecutionProofs

\* There is one agent.
LEMMA OneAgent ==
  agent \in Procs /\ \A p \in Procs : p = agent
<1>1. PICK p \in Procs : Procs = {p}
  BY SystemAssumption
<1>2. QED
  BY <1>1 DEF agent

-----------------------------------------------------------------------------
(* Refinement                                                              *)

\* A step of the system is a step of the controller, or leaves it alone.
LEMMA StepImplements ==
  ASSUME [SystemNext]_systemVars
  PROVE  [Next]_vars
<1>1. ToolStarts \/ PassStep \/ SandboxStep => UNCHANGED vars
  BY DEF ToolStarts, PassStep, Unobserved, SandboxStep
<1>2. ToolEnds => Next
  BY OneAgent DEF ToolEnds, Next, WorkerStep
<1>3. Observed => Next
  BY OneAgent DEF Observed, Next, WorkerStep
<1>4. ControllerStep => Next
  BY DEF ControllerStep
<1>5. QED
  BY <1>1, <1>2, <1>3, <1>4 DEF SystemNext, systemVars

\* The agent in its sandbox is a RemediationController, so that every theorem
\* about the controller holds of it: its containers, tools and observations
\* only choose among the outcomes the controller allows for.
THEOREM ImplementsController == SystemSpec => Spec
<1>1. SystemInit => Init
  BY DEF SystemInit
<1>2. [SystemNext]_systemVars => [Next]_vars
  BY StepImplements
<1>3. QED
  BY <1>1, <1>2, PTL DEF SystemSpec, Spec

\* In the sandbox the agent always runs the plan made for this attempt.
THEOREM SystemExecutesCurrentPlan == SystemSpec => []ExecutesCurrentPlan
<1>1. OneWorker
  BY OneAgent DEF OneWorker
<1>2. Spec => []ExecutesCurrentPlan
  BY <1>1, ExecutesCurrentPlanAlways
<1>3. QED
  BY <1>2, ImplementsController, PTL

-----------------------------------------------------------------------------
(* The plans                                                               *)

\* A retried plan is the plan after a noop.
LEMMA AfterNoop ==
  ASSUME NEW n \in Nat, n >= RetryThreshold, NEW t
  PROVE  /\ DOMAIN PlanFor(t, n) = 1 .. Len(BasePlan(t)) + 1
         /\ PlanFor(t, n)[1] = "noop"
         /\ \A k \in 1 .. Len(BasePlan(t)) : PlanFor(t, n)[k + 1] = BasePlan(t)[k]
<1>1. BasePlan(t) \in Seq(Tools) /\ Len(BasePlan(t)) \in Nat
  <2>1. NginxConfigErrorPlan \in Seq(Tools)
    BY DEF NginxConfigErrorPlan, Tools
  <2>2. AppCrashLoopPlan \in Seq(Tools)
    BY DEF AppCrashLoopPlan, Tools
  <2>3. QED
    BY <2>1, <2>2, LenProperties DEF BasePlan
<1>2. << "noop" >> \in Seq(Tools) /\ Len(<< "noop" >>) = 1 /\ << "noop" >>[1] = "noop"
  BY DEF Tools
<1>3. PlanFor(t, n) = << "noop" >> \o BasePlan(t)
  BY DEF PlanFor
<1>4. /\ PlanFor(t, n) \in Seq(Tools)
      /\ Len(PlanFor(t, n)) = 1 + Len(BasePlan(t))
      /\ \A i \in 1 .. 1 + Len(BasePlan(t)) :
           PlanFor(t, n)[i] = IF i <= 1 THEN << "noop" >>[i] ELSE BasePlan(t)[i - 1]
  BY <1>1, <1>2, <1>3, ConcatProperties
<1>5. DOMAIN PlanFor(t, n) = 1 .. Len(BasePlan(t)) + 1
  BY <1>1, <1>4, LenProperties
<1>6. QED
  BY <1>1, <1>2, <1>4, <1>5

\* The plan for nginx renders one candidate and then puts it in place, once.
LEMMA NginxPlan ==
  ASSUME NEW n \in Nat
  PROVE  \E r, a \in DOMAIN PlanFor("NGINX_CONFIG_ERROR", n) :
           /\ r < a
           /\ PlanFor("NGINX_CONFIG_ERROR", n)[r] = "render_known_good_nginx_config"
           /\ PlanFor("NGINX_CONFIG_ERROR", n)[a] = "atomic_replace"
           /\ \A k \in DOMAIN PlanFor("NGINX_CONFIG_ERROR", n) :
                /\ PlanFor("NGINX_CONFIG_ERROR", n)[k] = "render_known_good_nginx_config" => k = r
                /\ PlanFor("NGINX_CONFIG_ERROR", n)[k] = "atomic_replace" => k = a
<1> DEFINE plan == PlanFor("NGINX_CONFIG_ERROR", n)
<1>1. BasePlan("NGINX_CONFIG_ERROR") = NginxConfigErrorPlan
  BY DEF BasePlan
<1>2. CASE n >= RetryThreshold
  <2>1. /\ DOMAIN plan = 1 .. 6 /\ plan[1] = "noop"
        /\ \A k \in 1 .. 5 : plan[k + 1] = NginxConfigErrorPlan[k]
    <3>1. Len(NginxConfigErrorPlan) = 5
      BY DEF NginxConfigErrorPlan
    <3>2. /\ DOMAIN plan = 1 .. Len(NginxConfigErrorPlan) + 1
          /\ plan[1] = "noop"
          /\ \A k \in 1 .. Len(NginxConfigErrorPlan) : plan[k + 1] = NginxConfigErrorPlan[k]
      <4>1. /\ DOMAIN plan = 1 .. Len(BasePlan("NGINX_CONFIG_ERROR")) + 1
            /\ plan[1] = "noop"
            /\ \A k \in 1 .. Len(BasePlan("NGINX_CONFIG_ERROR")) :
                 plan[k + 1] = BasePlan("NGINX_CONFIG_ERROR")[k]
        BY <1>2, AfterNoop, Zenon
      <4>2. QED
        BY <1>1, <4>1, Zenon
    <3> HIDE DEF plan
    <3>3. QED
      BY <3>1, <3>2
  <2>2. /\ DOMAIN plan = 1 .. 6
        /\ plan[1] = "noop" /\ plan[2] = "render_known_good_nginx_config"
        /\ plan[3] = "nginx_configtest" /\ plan[4] = "atomic_replace"
        /\ plan[5] = "restart_container" /\ plan[6] = "verify_health_stable"
    <3> HIDE DEF plan
    <3>1. /\ plan[1 + 1] = NginxConfigErrorPlan[1] /\ plan[2 + 1] = NginxConfigErrorPlan[2]
          /\ plan[3 + 1] = NginxConfigErrorPlan[3] /\ plan[4 + 1] = NginxConfigErrorPlan[4]
          /\ plan[5 + 1] = NginxConfigErrorPlan[5]
      BY <2>1
    <3>2. QED
      BY <2>1, <3>1 DEF NginxConfigErrorPlan
  <2> HIDE DEF plan
  <2>3. /\ 2 \in DOMAIN plan /\ 4 \in DOMAIN plan /\ 2 < 4
        /\ \A k \in DOMAIN plan :
             /\ plan[k] = "render_known_good_nginx_config" => k = 2
             /\ plan[k] = "atomic_replace" => k = 4
    BY <2>2
  <2>4. QED
    BY <2>2, <2>3 DEF plan
<1>3. CASE ~ (n >= RetryThreshold)
  <2>1. plan = << "render_known_good_nginx_config", "nginx_configtest", "atomic_replace",
                  "restart_container", "verify_health_stable" >>
    BY <1>1, <1>3 DEF PlanFor, NginxConfigErrorPlan
  <2>2. /\ DOMAIN plan = 1 .. 5
        /\ plan[1] = "render_known_good_nginx_config"
        /\ plan[2] = "nginx_configtest" /\ plan[3] = "atomic_replace"
        /\ plan[4] = "restart_container" /\ plan[5] = "verify_health_stable"
    BY <2>1
  <2> HIDE DEF plan
  <2>3. /\ 1 \in DOMAIN plan /\ 3 \in DOMAIN plan /\ 1 < 3
        /\ \A k \in DOMAIN plan :
             /\ plan[k] = "render_known_good_nginx_config" => k = 1
             /\ plan[k] = "atomic_replace" => k = 3
    BY <2>2
  <2>4. QED
    BY <2>2, <2>3 DEF plan
<1>4. QED
  BY <1>2, <1>3

\* The plan for app writes the flags.
LEMMA AppPlan ==
  ASSUME NEW n \in Nat
  PROVE  \E k \in DOMAIN PlanFor("APP_CRASH_LOOP", n) :
           PlanFor("APP_CRASH_LOOP", n)[k] = "write_runtime_flags"
<1> DEFINE plan == PlanFor("APP_CRASH_LOOP", n)
<1>1. BasePlan("APP_CRASH_LOOP") = AppCrashLoopPlan
  BY DEF BasePlan
<1>2. CASE n >= RetryThreshold
  <2>1. DOMAIN plan = 1 .. 4 /\ \A k \in 1 .. 3 : plan[k + 1] = AppCrashLoopPlan[k]
    <3>1. Len(AppCrashLoopPlan) = 3
      BY DEF AppCrashLoopPlan
    <3>2. /\ DOMAIN plan = 1 .. Len(AppCrashLoopPlan) + 1
          /\ plan[1] = "noop"
          /\ \A k \in 1 .. Len(AppCrashLoopPlan) : plan[k + 1] = AppCrashLoopPlan[k]
      <4>1. /\ DOMAIN plan = 1 .. Len(BasePlan("APP_CRASH_LOOP")) + 1
            /\ plan[1] = "noop"
            /\ \A k \in 1 .. Len(BasePlan("APP_CRASH_LOOP")) :
                 plan[k + 1] = BasePlan("APP_CRASH_LOOP")[k]
        BY <1>2, AfterNoop, Zenon
      <4>2. QED
        BY <1>1, <4>1, Zenon
    <3> HIDE DEF plan
    <3>3. QED
      BY <3>1, <3>2
  <2>2. 2 \in DOMAIN plan /\ plan[1 + 1] = AppCrashLoopPlan[1]
    BY <2>1
  <2>3. QED
    BY <2>2 DEF AppCrashLoopPlan
<1>3. CASE ~ (n >= RetryThreshold)
  <2>1. plan = << "write_runtime_flags", "restart_container", "verify_health_stable" >>
    BY <1>1, <1>3 DEF PlanFor, AppCrashLoopPlan
  <2>2. 1 \in DOMAIN plan /\ plan[1] = "write_runtime_flags"
    BY <2>1
  <2>3. QED
    BY <2>2
<1>4. QED
  BY <1>2, <1>3

\* What the agent executes is a plan for the incident it has claimed.
LEMMA ExecutedPlan ==
  ASSUME ExecutionInv, Executing(agent)
  PROVE  /\ cur[agent].id \in Ids
         /\ incidents[cur[agent].id].type \in {"NGINX_CONFIG_ERROR", "APP_CRASH_LOOP"}
         /\ \E n \in Nat : Steps(agent) = PlanFor(incidents[cur[agent].id].type, n)
         /\ Steps(agent) \in Seq(Tools)
         /\ DOMAIN Steps(agent) = 1 .. Len(Steps(agent))
         /\ Len(Steps(agent)) \in Nat
         /\ job[agent].step \in DOMAIN Steps(agent)
<1>1. IInv /\ TypeOK /\ HeldRecords /\ PlansForType
  BY DEF ExecutionInv, IInv
<1>2. cur[agent].id \in Ids /\ incidents[cur[agent].id] \in Rows
  BY <1>1, OneAgent, HeldExists DEF Executing, HoldingPcs
<1>3. incidents[cur[agent].id].type \in {"NGINX_CONFIG_ERROR", "APP_CRASH_LOOP"}
  BY <1>2, SystemAssumption DEF Rows, Registered
<1>4. HoldsPlan(agent) /\ job[agent].step \in 1 .. Len(Steps(agent))
  BY OneAgent DEF ExecutionInv, TrailSoFar, Trailing
<1>5. Steps(agent) \in Seq(Tools) /\ Len(Steps(agent)) \in Nat
  BY <1>1, <1>2, <1>4, PlansType DEF HoldsPlan, Steps
<1>6. \E n \in Nat : Steps(agent) = PlanFor(incidents[cur[agent].id].type, n)
  BY <1>2, <1>4, ControllerAssumption DEF HoldsPlan, Steps, ExecutionInv, PlansForType
<1>7. QED
  BY <1>2, <1>3, <1>4, <1>5, <1>6, LenProperties

-----------------------------------------------------------------------------
(* What a resolved incident is worth                                       *)

\* While the agent stays in an execution, the incident, its type and the plan
\* stay the same.
LEMMA StaysInPlan ==
  ASSUME ExecutionInv, [Next]_vars, Executing(agent)', ~ Claim(agent)
  PROVE  /\ Executing(agent)
         /\ ExecutionStep(agent)
         /\ Steps(agent)' = Steps(agent)
         /\ Target' = Target
<1>0. IInv /\ TypeOK /\ HeldRecords /\ agent \in Procs
  BY OneAgent DEF ExecutionInv, IInv
<1>1. Executing(agent) /\ ExecutionStep(agent) /\ cur'[agent].id = cur[agent].id
  BY <1>0, StaysExecuting
<1>2. HoldsPlan(agent) /\ cur[agent].id \in Ids /\ Exists(cur[agent].id)
  BY <1>0, <1>1, ExecutesAlone DEF ExecutionInv, TrailSoFar, Trailing
<1>3. job'[agent].plan = job[agent].plan
  BY <1>0, <1>1 DEF ExecutionStep, Unmoved, ReadBack, NextIncident, Goto, Resume,
       Claim, RecordStarted, RunTool, FinishAction, ReadCurrent, TypeOK, Jobs
<1>4. Steps(agent)' = Steps(agent)
  BY <1>0, <1>1, <1>2, <1>3, KeepsPlan
<1>5. incidents'[cur[agent].id].type = incidents[cur[agent].id].type
  BY <1>0, <1>2, RowsGrow DEF RowGrows
<1>6. QED
  BY <1>1, <1>4, <1>5 DEF Target

\* An execution ends with success only at its last step.
LEMMA EndsAtLastStepStep ==
  ASSUME ExecutionInv, EndsAtLastStep, [Next]_vars
  PROVE  EndsAtLastStep'
<1> SUFFICES ASSUME pc'[agent] \in {"final", "final_commit"}, Succeeded(agent)'
             PROVE  LastStep(agent)'
  BY DEF EndsAtLastStep
<1>0. TypeOK /\ agent \in Procs
  BY OneAgent DEF ExecutionInv, IInv
<1>1. Executing(agent)' /\ ~ Claim(agent)
  BY <1>0 DEF Executing, ExecutingPcs, Claim, Write, Goto, TypeOK
<1>2. ExecutionStep(agent) /\ Steps(agent)' = Steps(agent)
  BY <1>1, StaysInPlan
<1>3. CASE Unmoved(agent)
  BY <1>2, <1>3 DEF Unmoved, EndsAtLastStep, Succeeded, LastStep
<1>4. CASE FinishAction(agent)
  <2>1. job' = job
    BY <1>0, <1>4 DEF FinishAction, Goto, TypeOK
  <2>2. Succeeded(agent)
    BY <2>1 DEF Succeeded
  <2>3. LastStep(agent)
    BY <1>0, <1>4, <2>2 DEF FinishAction, Goto, TypeOK
  <2>4. QED
    BY <1>2, <2>1, <2>3 DEF LastStep
<1>5. CASE ReadCurrent(agent)
  BY <1>2, <1>5 DEF ReadCurrent, EndsAtLastStep, Succeeded, LastStep
<1>6. QED
  BY <1>0, <1>1, <1>2, <1>3, <1>4, <1>5
     DEF ExecutionStep, ReadBack, RecordStarted, RunTool, Goto, TypeOK

\* What a tool call changes: a file, when it succeeds; a half-written candidate,
\* when it breaks.
LEMMA ToolEffect ==
  ASSUME ToolEnds, Tool \in Tools
  PROVE  /\ UNCHANGED <<scriptVars, claimVars>>
         /\ job'[agent].outcome = "ok" =>
              /\ crash' = IF Tool = "write_runtime_flags" THEN FALSE ELSE crash
              /\ conf' = IF Tool = "atomic_replace" THEN candidate ELSE conf
              /\ Tool = "render_known_good_nginx_config" => candidate' = "good"
              /\ Tool \notin {"render_known_good_nginx_config", "atomic_replace"} =>
                   candidate' = candidate
         /\ job'[agent].outcome # "ok" =>
              /\ crash' = crash /\ conf' = conf
              /\ Tool # "render_known_good_nginx_config" => candidate' = candidate
<1>1. UNCHANGED claimVars
  BY DEF ToolEnds
<1>2. CASE job'[agent].outcome = "ok"
  <2>1. Succeeds
    BY <1>2 DEF ToolEnds
  <2>2. QED
    BY <1>1, <1>2, <2>1 DEF Succeeds, SandboxBut, Tools
<1>3. CASE job'[agent].outcome # "ok"
  <2>1. Refuses \/ Breaks \/ Unverified
    BY <1>3 DEF ToolEnds
  <2>2. QED
    BY <1>1, <1>3, <2>1 DEF Refuses, Breaks, Unverified, SandboxBut
<1>4. QED
  BY <1>2, <1>3

\* The counts at the claim are never ahead of the counts.
LEMMA ClaimedStep ==
  ASSUME RepairInv, [SystemNext]_systemVars
  PROVE  ScriptsCounted'
<1>0. ScriptsCounted
  BY DEF RepairInv
<1>1. CASE UNCHANGED <<scriptVars, claimVars>>
  BY <1>0, <1>1 DEF ScriptsCounted, scriptVars, claimVars
<1>2. CASE ToolEnds
  <2>1. Tool \in Tools
    <3>1. Executing(agent)
      BY <1>2 DEF ToolEnds, RunTool, Executing, ExecutingPcs
    <3>2. QED
      BY <3>1, ExecutedPlan, ElementOfSeq DEF RepairInv, Tool
  <2>2. QED
    BY <1>1, <1>2, <2>1, ToolEffect
<1>3. CASE ControllerStep
  <2>1. /\ injected' = injected /\ ended' = ended
        /\ \/ claimedAt' = injected /\ endedAt' = ended
           \/ claimedAt' = claimedAt /\ endedAt' = endedAt
    BY <1>3 DEF ControllerStep, sandboxVars, scriptVars, claimVars
  <2>2. QED
    BY <1>0, <2>1 DEF ScriptsCounted
<1>4. CASE SandboxStep
  <2>1. claimedAt' = claimedAt /\ endedAt' = endedAt
    BY <1>4 DEF SandboxStep, claimVars
  <2>2. \/ UNCHANGED scriptVars
        \/ \E c \in Containers : injected' = [injected EXCEPT ![c] = @ + 1] /\ ended' = ended
        \/ \E c \in Containers : ScriptEnds(c)
    BY <1>4 DEF SandboxStep, Meanwhile, SandboxNext, Boots, StartSucceeds, StartFails,
         DockerRetries, StopOnRequest, StartOnRequest, BreakNginxConfig, EnableAppCrash, Inject,
         Containers
  <2>3. CASE UNCHANGED scriptVars
    BY <1>1, <2>1, <2>3 DEF claimVars
  <2>4. ASSUME NEW c \in Containers, injected' = [injected EXCEPT ![c] = @ + 1], ended' = ended
        PROVE  ScriptsCounted'
    BY <1>0, <2>1, <2>4 DEF ScriptsCounted
  <2>5. ASSUME NEW c \in Containers, ScriptEnds(c)
        PROVE  ScriptsCounted'
    BY <1>0, <2>1, <2>5 DEF ScriptsCounted, ScriptEnds
  <2>6. QED
    BY <2>2, <2>3, <2>4, <2>5
<1>5. CASE ToolStarts \/ PassStep \/ Observed \/ UNCHANGED systemVars
  BY <1>1, <1>5 DEF ToolStarts, PassStep, Unobserved, Observed, sandboxVars, systemVars
<1>6. QED
  BY <1>2, <1>3, <1>4, <1>5 DEF SystemNext

\* Docker and the scripts repair nothing and spoil nothing behind the agent's
\* back that they do not count.
LEMMA SandboxKeepsRepair ==
  ASSUME RepairInv, SandboxStep
  PROVE  RepairSoFar'
<1>0. /\ injected \in [Containers -> Nat] /\ claimedAt \in [Containers -> Nat]
      /\ \A c \in Containers : claimedAt[c] <= injected[c]
      /\ RepairSoFar
  BY DEF RepairInv, ScriptsCounted
<1>1. UNCHANGED vars /\ claimedAt' = claimedAt /\ candidate' = candidate
  BY DEF SandboxStep, Meanwhile, SandboxNext, Boots, StartSucceeds, StartFails,
         DockerRetries, StopOnRequest, StartOnRequest, ScriptEnds, BreakNginxConfig,
         EnableAppCrash, Inject, claimVars
<1>2. /\ Executing(agent)' <=> Executing(agent)
      /\ Target' = Target
      /\ \A tool : Did(tool)' <=> Did(tool)
  BY <1>1 DEF vars, Executing, Target, Did, Done, Steps, Succeeded
<1>3. CASE injected' = injected /\ conf' = conf /\ crash' = crash
  BY <1>0, <1>1, <1>2, <1>3 DEF RepairSoFar, Unspoiled
<1>4. CASE BreakNginxConfig
  <2>1. injected' = [injected EXCEPT !["nginx"] = @ + 1] /\ crash' = crash
    BY <1>4 DEF BreakNginxConfig, Inject
  <2>2. /\ claimedAt["nginx"] <= injected["nginx"]
        /\ injected["nginx"] \in Nat /\ claimedAt["nginx"] \in Nat
        /\ injected'["nginx"] = injected["nginx"] + 1 /\ injected'["app"] = injected["app"]
    BY <1>0, <2>1 DEF Containers
  <2>3. injected'["nginx"] # claimedAt["nginx"]
    BY <2>2
  <2>4. Target \in {"nginx", "app"}
    BY DEF Target, ContainerOf
  <2>5. QED
    BY <1>0, <1>1, <1>2, <2>1, <2>2, <2>3, <2>4 DEF RepairSoFar, Unspoiled
<1>5. CASE EnableAppCrash
  <2>1. injected' = [injected EXCEPT !["app"] = @ + 1] /\ conf' = conf
    BY <1>5 DEF EnableAppCrash, Inject
  <2>2. /\ claimedAt["app"] <= injected["app"]
        /\ injected["app"] \in Nat /\ claimedAt["app"] \in Nat
        /\ injected'["app"] = injected["app"] + 1 /\ injected'["nginx"] = injected["nginx"]
    BY <1>0, <2>1 DEF Containers
  <2>3. injected'["app"] # claimedAt["app"]
    BY <2>2
  <2>4. Target \in {"nginx", "app"}
    BY DEF Target, ContainerOf
  <2>5. QED
    BY <1>0, <1>1, <1>2, <2>1, <2>2, <2>3, <2>4 DEF RepairSoFar, Unspoiled
<1>6. QED
  BY <1>3, <1>4, <1>5 DEF SandboxStep, Meanwhile, SandboxNext, Boots, StartSucceeds, StartFails,
       DockerRetries, StopOnRequest, StartOnRequest, ScriptEnds, scriptVars

\* A claim begins an execution that has done nothing yet.
LEMMA ClaimHasDoneNothing ==
  ASSUME ExecutionInv, ExecutionInv', Claim(agent)
  PROVE  \A tool : ~ Did(tool)'
<1>1. job' = job /\ pc'[agent] = "claim_read" /\ job[agent].step = 1
  BY OneAgent DEF Claim, Write, locals, Goto, ExecutionInv, IInv, TypeOK, AtFirstStep
<1>2. Executing(agent)'
  BY <1>1 DEF Executing, ExecutingPcs
<1>3. HoldsPlan(agent)' /\ cur'[agent].id \in Ids /\ plans' \in [Ids -> Seq(Seq(Tools))]
  BY <1>2, OneAgent, HeldExists
     DEF ExecutionInv, IInv, TypeOK, StoreTypeOK, TrailSoFar, Trailing, Executing, HoldingPcs,
       HeldRecords, Held, OnceRead, Snapshots
<1>4. Steps(agent)' \in Seq(Tools)
  BY <1>3 DEF HoldsPlan, Steps
<1>5. \A k \in DOMAIN Steps(agent)' : ~ (k < 1)
  BY <1>4
<1>6. QED
  BY <1>1, <1>5 DEF Did, Done

\* Between its tool calls the agent only keeps count of what it has done.
LEMMA CountsSteps ==
  ASSUME ExecutionInv, [Next]_vars, Executing(agent)', ~ Claim(agent), ~ RunTool(agent)
  PROVE  \A tool : Did(tool)' <=> Did(tool)
<1>0. TypeOK /\ agent \in Procs
  BY OneAgent DEF ExecutionInv, IInv
<1>1. Executing(agent) /\ ExecutionStep(agent) /\ Steps(agent)' = Steps(agent)
  BY StaysInPlan
<1>2. /\ DOMAIN Steps(agent) = 1 .. Len(Steps(agent)) /\ Len(Steps(agent)) \in Nat
      /\ job[agent].step \in Nat
  BY <1>0, <1>1, ExecutedPlan DEF TypeOK, Jobs
<1>3. \A k \in DOMAIN Steps(agent) : Done(k)' <=> Done(k)
  <2>1. CASE Unmoved(agent)
    BY <2>1 DEF Unmoved, Done, Succeeded
  <2>2. CASE ReadBack(agent) /\ pc[agent] = "claim_read" /\ pc'[agent] = "record"
    <3>1. job'[agent].step = job[agent].step
      BY <1>0, <2>2 DEF ReadBack, NextIncident, Goto, TypeOK, Jobs
    <3>2. QED
      BY <2>2, <3>1 DEF Done
  <2>3. CASE RecordStarted(agent)
    <3>1. job'[agent].step = job[agent].step /\ pc'[agent] = "tool" /\ pc[agent] = "record"
      BY <1>0, <2>3 DEF RecordStarted, Goto, TypeOK, Jobs
    <3>2. QED
      BY <3>1 DEF Done
  <2>4. CASE FinishAction(agent) /\ Succeeded(agent) /\ ~ LastStep(agent)
    <3>1. /\ job'[agent].step = job[agent].step + 1
          /\ pc'[agent] = "record" /\ pc[agent] = "finish"
      BY <1>0, <2>4 DEF FinishAction, Goto, TypeOK, Jobs
    <3>2. QED
      BY <1>2, <2>4, <3>1 DEF Done
  <2>5. CASE FinishAction(agent) /\ ~ (Succeeded(agent) /\ ~ LastStep(agent))
    <3>1. job' = job /\ pc'[agent] = "final" /\ pc[agent] = "finish"
      BY <1>0, <2>5 DEF FinishAction, Goto, TypeOK
    <3>2. QED
      BY <3>1 DEF Done, Succeeded
  <2>6. CASE ReadCurrent(agent)
    <3>1. job' = job /\ pc'[agent] = "final_commit" /\ pc[agent] = "final"
      BY <1>0, <2>6 DEF ReadCurrent, Goto, TypeOK
    <3>2. QED
      BY <3>1 DEF Done, Succeeded
  <2>7. QED
    BY <1>1, <2>1, <2>2, <2>3, <2>4, <2>5, <2>6 DEF ExecutionStep
<1>4. QED
  BY <1>1, <1>3 DEF Did

\* So the controller's other steps leave the repair where it is.
LEMMA ControllerKeepsRepair ==
  ASSUME RepairInv, ExecutionInv', ControllerStep
  PROVE  RepairSoFar'
<1> SUFFICES ASSUME Executing(agent)'
             PROVE  IF Target' = "app"
                    THEN Did("write_runtime_flags")' /\ Unspoiled' => ~ crash'
                    ELSE /\ Did("render_known_good_nginx_config")' /\ ~ Did("atomic_replace")'
                              => candidate' = "good"
                         /\ Did("atomic_replace")' /\ Unspoiled' => conf' = "good"
  BY DEF RepairSoFar
<1>0. ExecutionInv /\ RepairSoFar /\ Next
  BY DEF RepairInv, ControllerStep
<1>1. CASE Claim(agent)
  BY <1>0, <1>1, ClaimHasDoneNothing
<1>2. CASE ~ Claim(agent)
  <2>1. Executing(agent) /\ Target' = Target
    BY <1>0, <1>2, StaysInPlan
  <2>2. ~ RunTool(agent)
    BY OneAgent, <1>0 DEF ControllerStep, RunTool, Goto, ExecutionInv, IInv, TypeOK
  <2>3. \A tool : Did(tool)' <=> Did(tool)
    BY <1>0, <1>2, <2>2, CountsSteps
  <2>4. UNCHANGED <<conf, candidate, crash, injected, claimedAt>>
    <3>1. pc[agent] # "claim"
      BY <2>1 DEF Executing, ExecutingPcs
    <3>2. QED
      BY <3>1 DEF ControllerStep, sandboxVars, scriptVars, claimVars
  <2>5. QED
    BY <1>0, <2>1, <2>3, <2>4 DEF RepairSoFar, Unspoiled
<1>3. QED
  BY <1>1, <1>2

\* A tool that ends well adds its step to what is done.
LEMMA ToolCounts ==
  ASSUME ExecutionInv, ToolEnds, Executing(agent)', NEW tool
  PROVE  /\ pc[agent] = "tool" /\ Executing(agent) /\ job[agent].step \in DOMAIN Steps(agent)
         /\ Target' = Target
         /\ Did(tool)' <=> Did(tool) \/ (Tool = tool /\ job'[agent].outcome = "ok")
<1>0. TypeOK /\ agent \in Procs /\ RunTool(agent) /\ Next
  BY OneAgent DEF ExecutionInv, IInv, ToolEnds, Next, WorkerStep
<1>1. /\ pc[agent] = "tool" /\ pc'[agent] = "finish" /\ job'[agent].step = job[agent].step
      /\ Executing(agent) /\ ~ Claim(agent)
  BY <1>0 DEF RunTool, Goto, TypeOK, Jobs, Executing, ExecutingPcs, Claim
<1>2. Steps(agent)' = Steps(agent) /\ Target' = Target
  BY <1>0, <1>1, StaysInPlan
<1>3. job[agent].step \in DOMAIN Steps(agent)
  BY <1>1, ExecutedPlan
<1>4. /\ \A k : Done(k) <=> k < job[agent].step
      /\ \A k : Done(k)' <=> \/ k < job[agent].step
                             \/ k = job[agent].step /\ job'[agent].outcome = "ok"
  BY <1>1 DEF Done, Succeeded
<1>5. QED
  BY <1>1, <1>2, <1>3, <1>4 DEF Did, Tool

\* What has been done is done before the step the agent is at.
LEMMA DoneBefore ==
  ASSUME pc[agent] = "tool", NEW tool
  PROVE  Did(tool) <=> \E k \in DOMAIN Steps(agent) : Steps(agent)[k] = tool /\ k < job[agent].step
BY DEF Did, Done

\* A tool puts right what it is for: when atomic_replace succeeds the candidate
\* it moves is the one render_known_good_nginx_config has written.
LEMMA ToolKeepsRepair ==
  ASSUME RepairInv, ToolEnds
  PROVE  RepairSoFar'
<1> SUFFICES ASSUME Executing(agent)'
             PROVE  IF Target' = "app"
                    THEN Did("write_runtime_flags")' /\ Unspoiled' => ~ crash'
                    ELSE /\ Did("render_known_good_nginx_config")' /\ ~ Did("atomic_replace")'
                              => candidate' = "good"
                         /\ Did("atomic_replace")' /\ Unspoiled' => conf' = "good"
  BY DEF RepairSoFar
<1>0. ExecutionInv /\ RepairSoFar
  BY DEF RepairInv
<1>1. pc[agent] = "tool" /\ Executing(agent) /\ Target' = Target
  BY <1>0, ToolCounts
<1>2. /\ Tool \in Tools
      /\ job[agent].step \in DOMAIN Steps(agent)
      /\ DOMAIN Steps(agent) = 1 .. Len(Steps(agent)) /\ Len(Steps(agent)) \in Nat
      /\ incidents[cur[agent].id].type \in {"NGINX_CONFIG_ERROR", "APP_CRASH_LOOP"}
      /\ \E n \in Nat : Steps(agent) = PlanFor(incidents[cur[agent].id].type, n)
  BY <1>0, <1>1, ExecutedPlan, ElementOfSeq DEF Tool
<1>3. Unspoiled' <=> Unspoiled
  BY <1>1, <1>2, ToolEffect DEF Unspoiled, scriptVars, claimVars
<1>4. CASE Target = "app"
  <2>1. Did("write_runtime_flags") /\ Unspoiled => ~ crash
    BY <1>0, <1>1, <1>4 DEF RepairSoFar
  <2>2. Did("write_runtime_flags")' <=>
          \/ Did("write_runtime_flags")
          \/ Tool = "write_runtime_flags" /\ job'[agent].outcome = "ok"
    BY <1>0, ToolCounts
  <2>3. /\ crash' = crash \/ ~ crash'
        /\ Tool = "write_runtime_flags" /\ job'[agent].outcome = "ok" => ~ crash'
    BY <1>2, ToolEffect
  <2>4. QED
    BY <1>1, <1>3, <1>4, <2>1, <2>2, <2>3
<1>5. CASE Target # "app"
  <2> DEFINE render == "render_known_good_nginx_config"
             replace == "atomic_replace"
  <2>1. /\ Did(render) /\ ~ Did(replace) => candidate = "good"
        /\ Did(replace) /\ Unspoiled => conf = "good"
    BY <1>0, <1>1, <1>5 DEF RepairSoFar
  <2>2. /\ Did(render)' <=> Did(render) \/ (Tool = render /\ job'[agent].outcome = "ok")
        /\ Did(replace)' <=> Did(replace) \/ (Tool = replace /\ job'[agent].outcome = "ok")
    BY <1>0, ToolCounts
  <2>3. PICK n \in Nat : Steps(agent) = PlanFor("NGINX_CONFIG_ERROR", n)
    BY <1>2, <1>5 DEF Target, ContainerOf
  <2>4. PICK r, a \in DOMAIN Steps(agent) :
          /\ r < a
          /\ Steps(agent)[r] = render
          /\ Steps(agent)[a] = replace
          /\ \A k \in DOMAIN Steps(agent) :
               /\ Steps(agent)[k] = render => k = r
               /\ Steps(agent)[k] = replace => k = a
    BY <2>3, NginxPlan
  <2>5. /\ Did(render) <=> r < job[agent].step
        /\ Did(replace) <=> a < job[agent].step
    BY <1>1, <2>4, DoneBefore
  <2>6. /\ Tool = render => job[agent].step = r
        /\ Tool = replace => job[agent].step = a
    BY <1>2, <2>4 DEF Tool
  <2>7. r \in Nat /\ a \in Nat /\ job[agent].step \in Nat
    BY <1>2
  <2>8. /\ Tool = render => ~ Did(render) /\ ~ Did(replace)
        /\ Tool = replace => Did(render) /\ ~ Did(replace)
    BY <2>4, <2>5, <2>6, <2>7
  <2>9. CASE job'[agent].outcome = "ok"
    <3>1. /\ conf' = IF Tool = replace THEN candidate ELSE conf
          /\ Tool = render => candidate' = "good"
          /\ Tool \notin {render, replace} => candidate' = candidate
      BY <1>2, <2>9, ToolEffect
    <3>2. QED
      BY <1>1, <1>3, <1>5, <2>1, <2>2, <2>8, <2>9, <3>1
  <2>10. CASE job'[agent].outcome # "ok"
    <3>1. conf' = conf /\ (Tool # render => candidate' = candidate)
      BY <1>2, <2>10, ToolEffect
    <3>2. QED
      BY <1>1, <1>3, <1>5, <2>1, <2>2, <2>8, <2>10, <3>1
  <2>11. QED
    BY <2>9, <2>10
<1>6. QED
  BY <1>4, <1>5

\* RepairInv holds initially,
LEMMA InitRepair ==
  ASSUME SystemInit
  PROVE  RepairInv
<1>1. ExecutionInv
  BY InitExecution DEF SystemInit
<1>2. pc[agent] = "off"
  BY OneAgent DEF SystemInit, Init
<1>3. /\ injected = [c \in Containers |-> 0] /\ ended = [c \in Containers |-> 0]
      /\ claimedAt = injected /\ endedAt = ended
  BY DEF SystemInit, SandboxInit
<1>4. ScriptsCounted
  BY <1>3 DEF ScriptsCounted
<1>5. QED
  BY <1>1, <1>2, <1>3, <1>4 DEF RepairInv, RepairSoFar, EndsAtLastStep, Executing, ExecutingPcs

\* and every step keeps it.
LEMMA StepRepair ==
  ASSUME RepairInv, [SystemNext]_systemVars
  PROVE  RepairInv'
<1>1. ExecutionInv /\ ExecutionInv' /\ EndsAtLastStep'
  BY StepImplements, StepExecution, EndsAtLastStepStep DEF RepairInv
<1>2. CASE ToolStarts \/ PassStep \/ UNCHANGED systemVars
  <2>1. UNCHANGED <<vars, conf, candidate, crash, injected, claimedAt>>
    BY <1>2 DEF ToolStarts, PassStep, Unobserved, sandboxVars, scriptVars, claimVars, systemVars
  <2>2. /\ Executing(agent)' <=> Executing(agent)
        /\ Target' = Target
        /\ \A tool : Did(tool)' <=> Did(tool)
    BY <2>1 DEF vars, Executing, Target, Did, Done, Steps, Succeeded
  <2>3. QED
    BY <2>1, <2>2, <1>1, ClaimedStep DEF RepairInv, RepairSoFar, Unspoiled
<1>3. CASE Observed
  <2>1. ~ Executing(agent)'
    BY <1>1, <1>3, OneAgent DEF Observed, Observe, ObserveFails, AbortPass, PassEnd, Goto,
         ExecutionInv, IInv, TypeOK, Executing, ExecutingPcs
  <2>2. QED
    BY <2>1, <1>1, ClaimedStep DEF RepairInv, RepairSoFar
<1>4. CASE ToolEnds \/ ControllerStep \/ SandboxStep
  <2>1. RepairSoFar'
    BY <1>1, <1>4, ToolKeepsRepair, ControllerKeepsRepair, SandboxKeepsRepair
  <2>2. QED
    BY <2>1, <1>1, ClaimedStep DEF RepairInv
<1>5. QED
  BY <1>2, <1>3, <1>4 DEF SystemNext

\* RepairInv is an invariant of the system.
THEOREM RepairInvariance == SystemSpec => []RepairInv
<1>1. SystemInit => RepairInv
  BY InitRepair
<1>2. RepairInv /\ [SystemNext]_systemVars => RepairInv'
  BY StepRepair
<1>3. QED
  BY <1>1, <1>2, PTL DEF SystemSpec

\* Whatever Docker, the containers, the tools and the fault injection scripts
\* do, an incident is RESOLVED only when what caused it is repaired: it runs its
\* whole plan, in order, and nothing but the injection of the same fault undoes
\* a step of it.
THEOREM ResolvedIsRepairedAlways == SystemSpec => ResolvedIsRepaired
<1>1. ASSUME RepairInv, [SystemNext]_systemVars, NEW i \in Ids,
             HasStatus(i, {"IN_PROGRESS"}), incidents'[i].status = "RESOLVED",
             injected[ContainerOf(incidents[i].type)] = claimedAt[ContainerOf(incidents[i].type)]
      PROVE  Repaired(incidents[i].type)
  <2>0. ExecutionInv /\ TypeOK /\ HeldRecords /\ OutcomeKnown /\ [Next]_vars
    BY <1>1, StepImplements DEF RepairInv, ExecutionInv, IInv
  <2>1. PICK p \in Procs : Finalize(p) /\ cur[p].id = i
    BY <1>1, <2>0, EndsByFinalize
  <2>2. Finalize(agent) /\ cur[agent].id = i
    BY <2>1, OneAgent
  <2>3. Succeeded(agent) /\ pc[agent] = "final_commit" /\ Executing(agent)
    <3>1. pc[agent] = "final_commit" /\ Executing(agent)
      BY <2>2 DEF Finalize, Executing, ExecutingPcs
    <3>2. incidents'[i].status = FinalStatus(agent)
      BY <2>0, <2>2 DEF Finalize, Write, TransitionIncident, TypeOK, StoreTypeOK
    <3>3. QED
      BY <1>1, <3>1, <3>2 DEF FinalStatus
  <2>4. job[agent].step = Len(Steps(agent))
    BY <1>1, <2>3 DEF RepairInv, EndsAtLastStep, LastStep
  <2>5. /\ incidents[i].type \in {"NGINX_CONFIG_ERROR", "APP_CRASH_LOOP"}
        /\ \E n \in Nat : Steps(agent) = PlanFor(incidents[i].type, n)
        /\ DOMAIN Steps(agent) = 1 .. Len(Steps(agent)) /\ Len(Steps(agent)) \in Nat
    BY <2>0, <2>2, <2>3, ExecutedPlan
  <2>6. \A k \in DOMAIN Steps(agent) : Done(k)
    BY <2>3, <2>4, <2>5 DEF Done
  <2>7. Target = ContainerOf(incidents[i].type)
    BY <2>2 DEF Target
  <2>8. CASE incidents[i].type = "APP_CRASH_LOOP"
    <3>1. Did("write_runtime_flags")
      BY <2>5, <2>6, <2>8, AppPlan DEF Did
    <3>2. Target = "app"
      BY <2>7, <2>8 DEF ContainerOf
    <3>3. QED
      BY <1>1, <2>3, <2>7, <2>8, <3>1, <3>2 DEF RepairInv, RepairSoFar, Unspoiled, Repaired
  <2>9. CASE incidents[i].type = "NGINX_CONFIG_ERROR"
    <3>1. Did("atomic_replace")
      <4>1. PICK n \in Nat : Steps(agent) = PlanFor("NGINX_CONFIG_ERROR", n)
        BY <2>5, <2>9
      <4>2. \E a \in DOMAIN Steps(agent) : Steps(agent)[a] = "atomic_replace"
        BY <4>1, NginxPlan
      <4>3. QED
        BY <2>6, <4>2 DEF Did
    <3>2. Target = "nginx"
      BY <2>7, <2>9 DEF ContainerOf
    <3>3. QED
      BY <1>1, <2>3, <2>7, <2>9, <3>1, <3>2 DEF RepairInv, RepairSoFar, Unspoiled, Repaired
  <2>10. QED
    BY <2>5, <2>8, <2>9
<1>2. RepairInv /\ [SystemNext]_systemVars =>
        [\A i \in Ids :
           HasStatus(i, {"IN_PROGRESS"}) /\ incidents'[i].status = "RESOLVED" =>
             LET t == incidents[i].type
             IN injected[ContainerOf(t)] = claimedAt[ContainerOf(t)] => Repaired(t)]_systemVars
  BY <1>1
<1>3. QED
  BY <1>2, RepairInvariance, PTL DEF SystemSpec, ResolvedIsRepaired

=============================================================================
