----------------------------- MODULE CountProofs -----------------------------
(***************************************************************************)
(* Theorems about what the agent observes in its sandbox, for any number   *)
(* of incidents, attempts, faults and injections: a pass finds the faults  *)
(* that show all through it, and raises no incident that no injection      *)
(* accounts for.                                                           *)
(***************************************************************************)
EXTENDS SystemProofs, FiniteSetTheorems

\* A tool that ends leaves the containers to Docker.
LEMMA ToolLeavesContainers ==
  ASSUME ExecutionInv, ToolEnds
  PROVE  /\ pc[agent] = "tool" /\ Executing(agent) /\ Tool \in Tools
         /\ UNCHANGED <<state, restarts, requested, scriptVars, observerVars, claimVars>>
<1>1. pc[agent] = "tool" /\ Executing(agent)
  BY DEF ToolEnds, RunTool, Executing, ExecutingPcs
<1>2. Tool \in Tools
  BY <1>1, ExecutedPlan, ElementOfSeq DEF Tool
<1>3. CASE Succeeds
  BY <1>1, <1>2, <1>3 DEF ToolEnds, Succeeds, SandboxBut, Tools
<1>4. CASE Refuses \/ Breaks \/ Unverified
  BY <1>1, <1>2, <1>4 DEF ToolEnds, Refuses, Breaks, Unverified, SandboxBut
<1>5. QED
  BY <1>3, <1>4 DEF ToolEnds

-----------------------------------------------------------------------------
(* Passes                                                                  *)

\* A fault is found in a bundle when it is found in one observation of it.
LEMMA DetectMore ==
  ASSUME NEW A, NEW B, A \subseteq B
  PROVE  Detect(A) \subseteq Detect(B)
BY DEF Detect

\* Each fault is seen in its own container only.
LEMMA DetectOne ==
  ASSUME NEW c \in Containers, NEW S, NEW t \in Detect(S \cup {View(c)}), t \notin Detect(S)
  PROVE  t \in Registered /\ t \in Detect({View(c)}) /\ ContainerOf(t) = c
<1>1. /\ t \in {"NGINX_CONFIG_ERROR", "APP_CRASH_LOOP"}
      /\ IF t = "APP_CRASH_LOOP" THEN AppCrashLoop(View(c)) ELSE NginxBadState(View(c))
  BY DEF Detect
<1>2. View(c).source = c
  BY DEF View
<1>3. QED
  BY <1>1, <1>2 DEF Detect, AppCrashLoop, NginxBadState, ContainerOf, Registered

\* What is visible shows in the container it is about.
LEMMA VisibleShows ==
  ASSUME NEW t \in Visible
  PROVE  t \in Detect({View(ContainerOf(t))}) /\ ContainerOf(t) \in Containers
<1>1. PICK c \in Containers :
        IF t = "APP_CRASH_LOOP" THEN AppCrashLoop(View(c)) ELSE NginxBadState(View(c))
  BY DEF Visible, Detect
<1>2. View(c).source = c
  BY DEF View
<1>3. ContainerOf(t) = c
  BY <1>1, <1>2 DEF AppCrashLoop, NginxBadState, ContainerOf
<1>4. QED
  BY <1>1, <1>3 DEF Detect, Visible

\* What is visible depends on the containers alone.
LEMMA VisibleKept ==
  ASSUME UNCHANGED <<state, restarts>>
  PROVE  Visible' = Visible
BY DEF Visible, Detect, View, AppCrashLoop, NginxBadState, IsRestarting, IsRunning

\* A call of a pass keeps what the pass owes.
LEMMA PassStepKeeps ==
  ASSUME PassSoFar, ObserverStep, UNCHANGED sandboxVars
  PROVE  PassSoFar'
<1>1. Visible' = Visible
  BY VisibleKept DEF sandboxVars
<1>2. CASE ListContainers
  <2>1. \A t \in Visible : ContainerOf(t) \in Containers
    BY VisibleShows
  <2>2. QED
    BY <1>1, <1>2, <2>1 DEF ListContainers, PassSoFar
<1>3. CASE ListFails
  BY <1>1, <1>3 DEF ListFails, PassSoFar
<1>4. ASSUME NEW c \in Containers, Inspect(c)
      PROVE  PassSoFar'
  <2>1. \A t \in steady : ContainerOf(t) \in left' \cup skipped' \/ t \in Detect(seen')
    <3>1. TAKE t \in steady
    <3>2. CASE ContainerOf(t) = c
      <4>1. t \in Detect({View(c)})
        BY <3>2, VisibleShows DEF PassSoFar
      <4>2. QED
        BY <1>4, <4>1, DetectMore DEF Inspect
    <3>3. CASE ContainerOf(t) # c
      <4>1. Detect(seen) \subseteq Detect(seen')
        BY <1>4, DetectMore DEF Inspect
      <4>2. QED
        BY <1>4, <3>3, <4>1 DEF Inspect, PassSoFar, recordVars
    <3>4. QED
      BY <3>2, <3>3
  <2>2. QED
    BY <1>1, <1>4, <2>1 DEF Inspect, PassSoFar, recordVars
<1>5. ASSUME NEW c \in Containers, InspectFails(c)
      PROVE  PassSoFar'
  BY <1>1, <1>5 DEF InspectFails, PassSoFar
<1>6. CASE Logs
  BY <1>1, <1>6 DEF Logs, PassSoFar, recordVars
<1>7. CASE AskHealth
  BY <1>1, <1>7 DEF AskHealth, PassSoFar, recordVars
<1>8. CASE HealthAnswers
  BY <1>1, <1>8 DEF HealthAnswers, PassSoFar, recordVars
<1>9. CASE HealthRaises
  BY <1>1, <1>9 DEF HealthRaises, PassSoFar, recordVars
<1>10. QED
  BY <1>2, <1>3, <1>4, <1>5, <1>6, <1>7, <1>8, <1>9 DEF ObserverStep

\* So does every step of the system.
LEMMA PassSoFarStep ==
  ASSUME ExecutionInv, PassSoFar, [SystemNext]_systemVars
  PROVE  PassSoFar'
<1>1. CASE UNCHANGED <<observerVars, state, restarts>>
  <2>1. Visible' = Visible
    BY <1>1, VisibleKept
  <2>2. QED
    BY <1>1, <2>1 DEF PassSoFar, observerVars, passVars, recordVars
<1>2. CASE PassEnds
  BY <1>2 DEF PassEnds, PassSoFar
<1>3. CASE ToolStarts \/ UNCHANGED systemVars
  BY <1>1, <1>3 DEF ToolStarts, systemVars, sandboxVars
<1>4. CASE ToolEnds
  BY <1>1, <1>4, ToolLeavesContainers
<1>5. CASE PassStep
  BY <1>5, PassStepKeeps DEF PassStep
<1>6. CASE Observed
  BY <1>2, <1>6 DEF Observed
<1>7. CASE ControllerStep
  BY <1>1, <1>2, <1>7 DEF ControllerStep, sandboxVars
<1>8. CASE SandboxStep
  BY <1>8 DEF SandboxStep, Meanwhile, PassSoFar, passVars
<1>9. QED
  BY <1>3, <1>4, <1>5, <1>6, <1>7, <1>8 DEF SystemNext

\* PassSoFar is an invariant of the system.
LEMMA PassInvariance == SystemSpec => []PassSoFar
<1>1. SystemInit => PassSoFar
  BY DEF SystemInit, ObserverInit, PassSoFar
<1>2. ExecutionInv /\ PassSoFar /\ [SystemNext]_systemVars => PassSoFar'
  BY PassSoFarStep
<1>3. Spec => []ExecutionInv
  BY ExecutionInvariance
<1>4. QED
  BY <1>1, <1>2, <1>3, ImplementsController, PTL DEF SystemSpec

\* A fault that shows from the beginning of a pass to its end is found by it,
\* unless its own container could not be inspected, whatever else fails and
\* whatever the other container does meanwhile.
THEOREM DetectsSteadyFaultsAlways == SystemSpec => []DetectsSteadyFaults
<1>1. PassSoFar => DetectsSteadyFaults
  BY DEF PassSoFar, DetectsSteadyFaults
<1>2. QED
  BY <1>1, PassInvariance, PTL

-----------------------------------------------------------------------------
(* The order of a plan                                                     *)

\* The plan for nginx, after a noop on a retry.
NginxShape(plan, o) ==
  /\ DOMAIN plan = 1 .. o + 5
  /\ o = 1 => plan[1] = "noop"
  /\ plan[o + 1] = "render_known_good_nginx_config"
  /\ plan[o + 2] = "nginx_configtest"
  /\ plan[o + 3] = "atomic_replace"
  /\ plan[o + 4] = "restart_container"
  /\ plan[o + 5] = "verify_health_stable"

\* The plan for app, likewise.
AppShape(plan, o) ==
  /\ DOMAIN plan = 1 .. o + 3
  /\ o = 1 => plan[1] = "noop"
  /\ plan[o + 1] = "write_runtime_flags"
  /\ plan[o + 2] = "restart_container"
  /\ plan[o + 3] = "verify_health_stable"

\* The planner gives nothing else.
LEMMA PlanShapes ==
  ASSUME NEW n \in Nat
  PROVE  /\ \E o \in {0, 1} : NginxShape(PlanFor("NGINX_CONFIG_ERROR", n), o)
         /\ \E o \in {0, 1} : AppShape(PlanFor("APP_CRASH_LOOP", n), o)
<1>1. /\ BasePlan("NGINX_CONFIG_ERROR") = NginxConfigErrorPlan
      /\ BasePlan("APP_CRASH_LOOP") = AppCrashLoopPlan
  BY DEF BasePlan
<1>2. /\ Len(NginxConfigErrorPlan) = 5 /\ DOMAIN NginxConfigErrorPlan = 1 .. 5
      /\ Len(AppCrashLoopPlan) = 3 /\ DOMAIN AppCrashLoopPlan = 1 .. 3
  BY DEF NginxConfigErrorPlan, AppCrashLoopPlan
<1>3. /\ NginxConfigErrorPlan[1] = "render_known_good_nginx_config"
      /\ NginxConfigErrorPlan[2] = "nginx_configtest"
      /\ NginxConfigErrorPlan[3] = "atomic_replace"
      /\ NginxConfigErrorPlan[4] = "restart_container"
      /\ NginxConfigErrorPlan[5] = "verify_health_stable"
      /\ AppCrashLoopPlan[1] = "write_runtime_flags"
      /\ AppCrashLoopPlan[2] = "restart_container"
      /\ AppCrashLoopPlan[3] = "verify_health_stable"
  BY DEF NginxConfigErrorPlan, AppCrashLoopPlan
<1>4. CASE n >= RetryThreshold
  <2>1. ASSUME NEW plan, plan = PlanFor("NGINX_CONFIG_ERROR", n)
        PROVE  NginxShape(plan, 1)
    <3>1. /\ DOMAIN plan = 1 .. 5 + 1
          /\ plan[1] = "noop"
          /\ \A k \in 1 .. 5 : plan[k + 1] = NginxConfigErrorPlan[k]
      <4>1. /\ DOMAIN plan = 1 .. Len(NginxConfigErrorPlan) + 1
            /\ plan[1] = "noop"
            /\ \A k \in 1 .. Len(NginxConfigErrorPlan) : plan[k + 1] = NginxConfigErrorPlan[k]
        <5>1. /\ DOMAIN plan = 1 .. Len(BasePlan("NGINX_CONFIG_ERROR")) + 1
              /\ plan[1] = "noop"
              /\ \A k \in 1 .. Len(BasePlan("NGINX_CONFIG_ERROR")) :
                   plan[k + 1] = BasePlan("NGINX_CONFIG_ERROR")[k]
          <6>1. /\ DOMAIN PlanFor("NGINX_CONFIG_ERROR", n) = 1 .. Len(BasePlan("NGINX_CONFIG_ERROR")) + 1
                /\ PlanFor("NGINX_CONFIG_ERROR", n)[1] = "noop"
                /\ \A k \in 1 .. Len(BasePlan("NGINX_CONFIG_ERROR")) :
                     PlanFor("NGINX_CONFIG_ERROR", n)[k + 1] = BasePlan("NGINX_CONFIG_ERROR")[k]
            BY <1>4, AfterNoop, Zenon
          <6>2. QED
            BY <2>1, <6>1, Zenon
        <5>2. QED
          BY <1>1, <5>1, Zenon
      <4>2. QED
        BY <1>2, <4>1
    <3>2. /\ plan[1 + 1] = NginxConfigErrorPlan[1] /\ plan[2 + 1] = NginxConfigErrorPlan[2]
          /\ plan[3 + 1] = NginxConfigErrorPlan[3] /\ plan[4 + 1] = NginxConfigErrorPlan[4]
          /\ plan[5 + 1] = NginxConfigErrorPlan[5]
      BY <3>1
    <3>3. QED
      BY <1>3, <3>1, <3>2 DEF NginxShape
  <2>2. ASSUME NEW plan, plan = PlanFor("APP_CRASH_LOOP", n)
        PROVE  AppShape(plan, 1)
    <3>1. /\ DOMAIN plan = 1 .. 3 + 1
          /\ plan[1] = "noop"
          /\ \A k \in 1 .. 3 : plan[k + 1] = AppCrashLoopPlan[k]
      <4>1. /\ DOMAIN plan = 1 .. Len(AppCrashLoopPlan) + 1
            /\ plan[1] = "noop"
            /\ \A k \in 1 .. Len(AppCrashLoopPlan) : plan[k + 1] = AppCrashLoopPlan[k]
        <5>1. /\ DOMAIN plan = 1 .. Len(BasePlan("APP_CRASH_LOOP")) + 1
              /\ plan[1] = "noop"
              /\ \A k \in 1 .. Len(BasePlan("APP_CRASH_LOOP")) :
                   plan[k + 1] = BasePlan("APP_CRASH_LOOP")[k]
          <6>1. /\ DOMAIN PlanFor("APP_CRASH_LOOP", n) = 1 .. Len(BasePlan("APP_CRASH_LOOP")) + 1
                /\ PlanFor("APP_CRASH_LOOP", n)[1] = "noop"
                /\ \A k \in 1 .. Len(BasePlan("APP_CRASH_LOOP")) :
                     PlanFor("APP_CRASH_LOOP", n)[k + 1] = BasePlan("APP_CRASH_LOOP")[k]
            BY <1>4, AfterNoop, Zenon
          <6>2. QED
            BY <2>2, <6>1, Zenon
        <5>2. QED
          BY <1>1, <5>1, Zenon
      <4>2. QED
        BY <1>2, <4>1
    <3>2. /\ plan[1 + 1] = AppCrashLoopPlan[1] /\ plan[2 + 1] = AppCrashLoopPlan[2]
          /\ plan[3 + 1] = AppCrashLoopPlan[3]
      BY <3>1
    <3>3. QED
      BY <1>3, <3>1, <3>2 DEF AppShape
  <2>3. QED
    BY <2>1, <2>2
<1>5. CASE ~ (n >= RetryThreshold)
  <2>1. /\ PlanFor("NGINX_CONFIG_ERROR", n) = NginxConfigErrorPlan
        /\ PlanFor("APP_CRASH_LOOP", n) = AppCrashLoopPlan
    BY <1>1, <1>5 DEF PlanFor
  <2>2. NginxShape(NginxConfigErrorPlan, 0) /\ AppShape(AppCrashLoopPlan, 0)
    BY <1>2, <1>3 DEF NginxShape, AppShape
  <2>3. QED
    BY <2>1, <2>2
<1>6. QED
  BY <1>4, <1>5

\* The container an execution repairs, and the order of its steps.
LEMMA TargetPlan ==
  ASSUME ExecutionInv, Executing(agent)
  PROVE  \/ /\ Target = "nginx"
            /\ incidents[cur[agent].id].type = "NGINX_CONFIG_ERROR"
            /\ \E o \in {0, 1} : NginxShape(Steps(agent), o)
         \/ /\ Target = "app"
            /\ incidents[cur[agent].id].type = "APP_CRASH_LOOP"
            /\ \E o \in {0, 1} : AppShape(Steps(agent), o)
<1>1. /\ incidents[cur[agent].id].type \in {"NGINX_CONFIG_ERROR", "APP_CRASH_LOOP"}
      /\ \E n \in Nat : Steps(agent) = PlanFor(incidents[cur[agent].id].type, n)
  BY ExecutedPlan
<1>2. CASE incidents[cur[agent].id].type = "NGINX_CONFIG_ERROR"
  <2>1. \E o \in {0, 1} : NginxShape(Steps(agent), o)
    BY <1>1, <1>2, PlanShapes
  <2>2. QED
    BY <1>2, <2>1 DEF Target, ContainerOf
<1>3. CASE incidents[cur[agent].id].type = "APP_CRASH_LOOP"
  <2>1. \E o \in {0, 1} : AppShape(Steps(agent), o)
    BY <1>1, <1>3, PlanShapes
  <2>2. QED
    BY <1>3, <2>1 DEF Target, ContainerOf
<1>4. QED
  BY <1>1, <1>2, <1>3

\* The steps before the last one done are done.
LEMMA DoneDown ==
  ASSUME ExecutionInv, Executing(agent), NEW k \in DOMAIN Steps(agent),
         NEW j \in DOMAIN Steps(agent), j < k, Done(k)
  PROVE  Done(j)
<1>1. job[agent].step \in Nat /\ j \in Nat /\ k \in Nat
  BY ExecutedPlan
<1>2. QED
  BY <1>1 DEF Done

\* The repair comes before the restart, the restart before the verification.
LEMMA DidBefore ==
  ASSUME ExecutionInv, Executing(agent)
  PROVE  /\ Did("verify_health_stable") => Did("restart_container")
         /\ Did("restart_container") =>
              IF Target = "app" THEN Did("write_runtime_flags") ELSE Did("atomic_replace")
<1>1. CASE Target = "nginx"
  <2>1. PICK o \in {0, 1} : NginxShape(Steps(agent), o)
    BY <1>1, TargetPlan
  <2>2. /\ \A k \in DOMAIN Steps(agent) :
             /\ Steps(agent)[k] = "verify_health_stable" => o + 4 \in DOMAIN Steps(agent) /\ o + 4 < k
             /\ Steps(agent)[k] = "restart_container" => o + 3 \in DOMAIN Steps(agent) /\ o + 3 < k
        /\ Steps(agent)[o + 4] = "restart_container"
        /\ Steps(agent)[o + 3] = "atomic_replace"
    BY <2>1 DEF NginxShape
  <2>3. QED
    BY <1>1, <2>2, DoneDown DEF Did
<1>2. CASE Target = "app"
  <2>1. PICK o \in {0, 1} : AppShape(Steps(agent), o)
    BY <1>2, TargetPlan
  <2>2. /\ \A k \in DOMAIN Steps(agent) :
             /\ Steps(agent)[k] = "verify_health_stable" => o + 2 \in DOMAIN Steps(agent) /\ o + 2 < k
             /\ Steps(agent)[k] = "restart_container" => o + 1 \in DOMAIN Steps(agent) /\ o + 1 < k
        /\ Steps(agent)[o + 2] = "restart_container"
        /\ Steps(agent)[o + 1] = "write_runtime_flags"
    BY <2>1 DEF AppShape
  <2>3. QED
    BY <1>2, <2>2, DoneDown DEF Did
<1>3. QED
  BY <1>1, <1>2, TargetPlan

\* What is done, and what is not, when a tool is called.
LEMMA DidAtTool ==
  ASSUME ExecutionInv, pc[agent] = "tool"
  PROVE  /\ Tool = "restart_container" =>
              /\ ~ Did("restart_container")
              /\ IF Target = "app" THEN Did("write_runtime_flags") ELSE Did("atomic_replace")
         /\ Tool = "verify_health_stable" => Did("restart_container")
         /\ Tool \in {"nginx_configtest", "atomic_replace"} =>
              /\ Target = "nginx"
              /\ Did("render_known_good_nginx_config")
              /\ ~ Did("atomic_replace")
<1>0. Executing(agent) /\ job[agent].step \in DOMAIN Steps(agent)
  BY ExecutedPlan DEF Executing, ExecutingPcs
<1> DEFINE s == job[agent].step
<1>1. CASE Target = "nginx"
  <2>1. PICK o \in {0, 1} : NginxShape(Steps(agent), o)
    BY <1>0, <1>1, TargetPlan
  <2>2. /\ \A k \in DOMAIN Steps(agent) :
             /\ Steps(agent)[k] = "restart_container" => k = o + 4
             /\ Steps(agent)[k] = "atomic_replace" => k = o + 3
             /\ Steps(agent)[k] = "verify_health_stable" => k = o + 5
             /\ Steps(agent)[k] = "nginx_configtest" => k = o + 2
        /\ \A j \in {1, 3, 4} : o + j \in DOMAIN Steps(agent)
        /\ Steps(agent)[o + 1] = "render_known_good_nginx_config"
        /\ Steps(agent)[o + 3] = "atomic_replace"
        /\ Steps(agent)[o + 4] = "restart_container"
    BY <2>1 DEF NginxShape
  <2>3. /\ Did("restart_container") <=> o + 4 < s
        /\ Did("atomic_replace") <=> o + 3 < s
        /\ o + 1 < s => Did("render_known_good_nginx_config")
    BY <2>2, DoneBefore
  <2>4. QED
    BY <1>0, <1>1, <2>2, <2>3 DEF Tool
<1>2. CASE Target = "app"
  <2>1. PICK o \in {0, 1} : AppShape(Steps(agent), o)
    BY <1>0, <1>2, TargetPlan
  <2>2. /\ \A k \in DOMAIN Steps(agent) :
             /\ Steps(agent)[k] = "restart_container" => k = o + 2
             /\ Steps(agent)[k] = "verify_health_stable" => k = o + 3
             /\ Steps(agent)[k] \notin {"nginx_configtest", "atomic_replace"}
        /\ \A j \in {1, 2} : o + j \in DOMAIN Steps(agent)
        /\ Steps(agent)[o + 1] = "write_runtime_flags"
        /\ Steps(agent)[o + 2] = "restart_container"
    BY <2>1 DEF AppShape
  <2>3. /\ Did("restart_container") <=> o + 2 < s
        /\ o + 1 < s => Did("write_runtime_flags")
    BY <2>2, DoneBefore
  <2>4. QED
    BY <1>0, <1>2, <2>2, <2>3 DEF Tool
<1>3. QED
  BY <1>0, <1>1, <1>2, TargetPlan

-----------------------------------------------------------------------------
(* Types                                                                   *)

\* Docker and the scripts keep the types of the sandbox.
LEMMA SandboxType ==
  ASSUME SandboxTypeOK, SandboxNext
  PROVE  SandboxTypeOK'
<1>0. CrashThreshold \in Nat \ {0}
  BY SandboxAssumption
<1>1. ASSUME NEW c \in Containers, Boots(c) \/ StopOnRequest(c) \/ StartOnRequest(c)
      PROVE  SandboxTypeOK'
  <2>1. ASSUME NEW s \in States, Becomes(c, s)
        PROVE  state' \in [Containers -> States]
    BY <2>1 DEF SandboxTypeOK, Becomes
  <2>2. CASE StartSucceeds(c) \/ DockerRetries(c) \/ StopOnRequest(c)
    BY <2>1, <2>2 DEF SandboxTypeOK, StartSucceeds, DockerRetries, StopOnRequest, scriptVars, States
  <2>3. CASE StartFails(c)
    BY <1>0, <2>1, <2>3 DEF SandboxTypeOK, StartFails, scriptVars, States
  <2>4. CASE StartOnRequest(c)
    BY <1>0, <2>1, <2>4 DEF SandboxTypeOK, StartOnRequest, scriptVars, States
  <2>5. QED
    BY <1>1, <2>2, <2>3, <2>4 DEF Boots
<1>2. CASE BreakNginxConfig \/ EnableAppCrash
  <2>1. ASSUME NEW c \in Containers, Inject(c)
        PROVE  /\ injected' \in [Containers -> Nat]
               /\ UNCHANGED <<candidate, state, restarts, requested, ended>>
    BY <2>1 DEF SandboxTypeOK, Inject
  <2>2. "nginx" \in Containers /\ "app" \in Containers
    BY DEF Containers
  <2>3. QED
    BY <1>2, <2>1, <2>2 DEF SandboxTypeOK, BreakNginxConfig, EnableAppCrash
<1>3. ASSUME NEW c \in Containers, ScriptEnds(c)
      PROVE  SandboxTypeOK'
  BY <1>3 DEF SandboxTypeOK, ScriptEnds
<1>4. QED
  BY <1>1, <1>2, <1>3 DEF SandboxNext

\* A pass keeps its own.
LEMMA ObserverType ==
  ASSUME SandboxTypeOK, ObserverTypeOK, ObserverStep
  PROVE  ObserverTypeOK'
<1>1. \A c \in Containers : View(c) \in Views
  BY DEF View, Views, SandboxTypeOK
<1>2. Visible \subseteq {"NGINX_CONFIG_ERROR", "APP_CRASH_LOOP"}
  BY DEF Visible, Detect
<1>3. ASSUME NEW c \in Containers, Inspect(c) \/ InspectFails(c)
      PROVE  ObserverTypeOK'
  BY <1>1, <1>3 DEF ObserverTypeOK, Inspect, InspectFails, recordVars
<1>4. CASE ListContainers \/ ListFails \/ Logs \/ AskHealth \/ HealthAnswers \/ HealthRaises
  BY <1>2, <1>4 DEF ObserverTypeOK, ListContainers, ListFails, Logs, AskHealth, HealthAnswers,
       HealthRaises, recordVars
<1>5. QED
  BY <1>3, <1>4 DEF ObserverStep

\* The end of a pass leaves the observer as it began.
LEMMA PassEndsType ==
  ASSUME PassEnds
  PROVE  ObserverTypeOK'
BY DEF PassEnds, ObserverTypeOK, Containers

\* Every step keeps the types of the whole system.
LEMMA SystemTypeStep ==
  ASSUME RepairInv, SystemTypeOK, [SystemNext]_systemVars
  PROVE  SystemTypeOK'
<1>0. /\ TypeOK' /\ SandboxTypeOK /\ ObserverTypeOK /\ ExecutionInv
      /\ call \in {"none", "restart", "verify", "cut"}
      /\ toolFaults \in Nat
  BY StepRepair DEF RepairInv, ExecutionInv, IInv, SystemTypeOK
<1>1. claimedAt' \in [Containers -> Nat] /\ endedAt' \in [Containers -> Nat]
  BY ClaimedStep DEF ScriptsCounted
<1>2. CASE ToolStarts
  <2>1. Target \in Containers
    BY DEF Target, ContainerOf, Containers
  <2>2. SandboxTypeOK' /\ ObserverTypeOK' /\ call' \in {"restart", "verify"} /\ toolFaults' = toolFaults
    BY <1>0, <1>2, <2>1 DEF ToolStarts, SandboxTypeOK, ObserverTypeOK, scriptVars, observerVars,
         passVars, recordVars
  <2>3. QED
    BY <1>0, <1>1, <2>2 DEF SystemTypeOK
<1>3. CASE ToolEnds
  <2>1. /\ Tool \in Tools
        /\ UNCHANGED <<state, restarts, requested, scriptVars, observerVars>>
    BY <1>0, <1>3, ToolLeavesContainers
  <2>2. conf' \in {"good", "bad", "partial"} /\ candidate' \in {"none", "good", "partial"} /\ crash' \in BOOLEAN
    <3>1. CASE Succeeds
      BY <1>0, <2>1, <3>1 DEF Succeeds, SandboxBut, Tools, SandboxTypeOK
    <3>2. CASE Refuses \/ Breaks \/ Unverified
      BY <1>0, <3>2 DEF Refuses, Breaks, Unverified, SandboxBut, SandboxTypeOK
    <3>3. QED
      BY <1>3, <3>1, <3>2 DEF ToolEnds
  <2>3. SandboxTypeOK' /\ ObserverTypeOK'
    BY <1>0, <2>1, <2>2 DEF SandboxTypeOK, ObserverTypeOK, scriptVars, observerVars, passVars, recordVars
  <2>4. call' = "none" /\ toolFaults' \in Nat
    BY <1>0, <1>3 DEF ToolEnds
  <2>5. QED
    BY <1>0, <1>1, <2>3, <2>4 DEF SystemTypeOK
<1>4. CASE PassStep
  <2>1. ObserverTypeOK'
    BY <1>0, <1>4, ObserverType DEF PassStep
  <2>2. QED
    BY <1>0, <1>1, <1>4, <2>1 DEF SystemTypeOK, PassStep, Unobserved, SandboxTypeOK, sandboxVars,
         scriptVars
<1>5. CASE Observed \/ ControllerStep
  <2>1. ObserverTypeOK'
    BY <1>0, <1>5, PassEndsType
       DEF Observed, ControllerStep, ObserverTypeOK, observerVars, passVars, recordVars
  <2>2. SandboxTypeOK' /\ call' \in {call, "none"} /\ toolFaults' = toolFaults
    BY <1>0, <1>5 DEF Observed, ControllerStep, SandboxTypeOK, sandboxVars, scriptVars
  <2>3. QED
    BY <1>0, <1>1, <2>1, <2>2 DEF SystemTypeOK
<1>6. CASE SandboxStep
  <2>1. SandboxTypeOK'
    BY <1>0, <1>6, SandboxType DEF SandboxStep, Meanwhile
  <2>2. ObserverTypeOK'
    BY <1>0, <1>6 DEF SandboxStep, Meanwhile, ObserverTypeOK, passVars
  <2>3. QED
    BY <1>0, <1>1, <1>6, <2>1, <2>2 DEF SystemTypeOK, SandboxStep
<1>7. CASE UNCHANGED systemVars
  BY <1>0, <1>1, <1>7 DEF systemVars, SystemTypeOK, SandboxTypeOK, sandboxVars, scriptVars, claimVars,
       ObserverTypeOK, observerVars, passVars, recordVars
<1>8. QED
  BY <1>2, <1>3, <1>4, <1>5, <1>6, <1>7 DEF SystemNext

-----------------------------------------------------------------------------
(* How many incidents there are                                            *)

\* Incidents are finitely many.
LEMMA Counts ==
  ASSUME NEW A \in SUBSET Ids, NEW B \in SUBSET A
  PROVE  /\ Cardinality(A) \in Nat /\ Cardinality(B) \in Nat
         /\ Cardinality(B) <= Cardinality(A)
         /\ B # A => Cardinality(B) < Cardinality(A)
<1>1. IsFiniteSet(Ids)
  BY MaxIncidentsAssumption, FS_Interval DEF Ids
<1>2. IsFiniteSet(A) /\ IsFiniteSet(B)
  BY <1>1, FS_Subset
<1>3. /\ Cardinality(A) \in Nat /\ Cardinality(B) \in Nat
      /\ Cardinality(B) <= Cardinality(A)
      /\ Cardinality(A) = Cardinality(B) => A = B
  BY <1>2, FS_Subset, FS_CardinalityType
<1>4. QED
  BY <1>3

LEMMA CountsOneMore ==
  ASSUME NEW A \in SUBSET Ids, NEW x, NEW B \in SUBSET (A \cup {x})
  PROVE  Cardinality(B) <= Cardinality(A) + 1
<1>1. IsFiniteSet(Ids)
  BY MaxIncidentsAssumption, FS_Interval DEF Ids
<1>2. IsFiniteSet(A) /\ Cardinality(A) \in Nat
  BY <1>1, FS_Subset, FS_CardinalityType
<1>3. IsFiniteSet(A \cup {x}) /\ Cardinality(A \cup {x}) <= Cardinality(A) + 1
  <2>1. /\ IsFiniteSet(A \cup {x})
        /\ Cardinality(A \cup {x}) = IF x \in A THEN Cardinality(A) ELSE Cardinality(A) + 1
    BY <1>2, FS_AddElement, Zenon
  <2>2. QED
    BY <1>2, <2>1
<1>4. IsFiniteSet(B) /\ Cardinality(B) <= Cardinality(A \cup {x})
  BY <1>3, FS_Subset
<1>5. Cardinality(B) \in Nat /\ Cardinality(A \cup {x}) \in Nat
  BY <1>3, <1>4, FS_CardinalityType
<1>6. QED
  BY <1>2, <1>3, <1>4, <1>5

\* Both sets are sets of incidents.
LEMMA SetsOfIncidents ==
  ASSUME NEW t
  PROVE  OfType(t) \in SUBSET Ids /\ ResolvedOf(t) \in SUBSET OfType(t)
BY DEF OfType, ResolvedOf

\* Only new candidates make incidents.
LEMMA SameRows ==
  ASSUME ExecutionInv, [Next]_vars, ~ Persist(agent), NEW t
  PROVE  OfType(t)' = OfType(t)
<1>0. TypeOK /\ HeldRecords /\ StoreTypeOK
  BY DEF ExecutionInv, IInv, TypeOK
<1>1. ASSUME NEW i \in Ids, Exists(i)
      PROVE  Exists(i)' /\ incidents'[i].type = incidents[i].type
  BY <1>0, <1>1, RowsGrow DEF RowGrows
<1>2. ASSUME NEW i \in Ids, ~ Exists(i)
      PROVE  ~ Exists(i)'
  <2>1. CASE UNCHANGED incidents
    BY <1>2, <2>1 DEF Exists
  <2>2. CASE MarkInProgressNeedsHuman
    BY <1>2, <2>2 DEF MarkInProgressNeedsHuman, Exists, HasStatus
  <2>3. ASSUME NEW p \in Procs, RowWrite(p)
        PROVE  ~ Exists(i)'
    <3>1. i # cur[p].id
      BY <1>0, <1>2, <2>3, RowWriteIsWrite, HeldExists
    <3>2. QED
      BY <1>0, <1>2, <2>3, <3>1, WritesOneRow DEF Exists
  <2>4. QED
    BY <2>1, <2>2, <2>3, IncidentsEffect, OneAgent
<1>3. QED
  BY <1>1, <1>2 DEF OfType

\* Only an execution that ends well resolves one, its own.
LEMMA SameResolved ==
  ASSUME ExecutionInv, [Next]_vars, NEW t,
         ~ (Finalize(agent) /\ Succeeded(agent) /\ incidents[cur[agent].id].type = t)
  PROVE  ResolvedOf(t)' = ResolvedOf(t)
<1>0. TypeOK /\ HeldRecords /\ OutcomeKnown
  BY DEF ExecutionInv, IInv
<1>1. ASSUME NEW i \in Ids, HasStatus(i, {"RESOLVED"})
      PROVE  incidents'[i] = incidents[i]
  BY <1>0, <1>1, RowEffect DEF RowSteps, RowChange, Inserted, Recovered, HasStatus
<1>2. ASSUME NEW i \in Ids, HasStatus(i, {"RESOLVED"})', incidents'[i].type = t
      PROVE  HasStatus(i, {"RESOLVED"})
  <2>1. CASE RowChange(i, "IN_PROGRESS", "RESOLVED", 0, "none")
    <3>1. PICK p \in Procs : Finalize(p) /\ cur[p].id = i
      BY <1>0, <2>1, EndsByFinalize DEF RowChange
    <3>2. Finalize(agent) /\ cur[agent].id = i
      BY <3>1, OneAgent
    <3>3. incidents'[i].status = FinalStatus(agent)
      BY <1>0, <3>2 DEF Finalize, Write, TransitionIncident, TypeOK, StoreTypeOK
    <3>4. Succeeded(agent)
      BY <2>1, <3>3 DEF RowChange, FinalStatus
    <3>5. incidents[i].type = t
      BY <1>2, <2>1 DEF RowChange
    <3>6. QED
      BY <3>2, <3>4, <3>5
  <2>2. CASE ~ RowChange(i, "IN_PROGRESS", "RESOLVED", 0, "none")
    BY <1>0, <1>2, <2>2, RowEffect DEF RowSteps, RowChange, Inserted, Recovered, HasStatus, Exists
  <2>3. QED
    BY <2>1, <2>2
<1>3. QED
  BY <1>1, <1>2 DEF ResolvedOf, OfType, HasStatus, Exists

\* A type gets an incident, one, when its fault is among the candidates and
\* every incident of it is RESOLVED.
LEMMA PersistAdds ==
  ASSUME TypeOK, Persist(agent), NEW t, OfType(t)' # OfType(t)
  PROVE  /\ t \in cands[agent]
         /\ OfType(t) = ResolvedOf(t)
         /\ \E x : OfType(t)' \in SUBSET (OfType(t) \cup {x})
<1> DEFINE fresh == cands[agent] \ ActiveTypes
           free  == {i \in Ids : ~ Exists(i)}
<1>1. PICK new \in SUBSET free : \E type \in [new -> fresh] :
        /\ \A i, j \in new : type[i] = type[j] => i = j
        /\ incidents' = [i \in Ids |-> IF i \in new THEN NewRow(type[i]) ELSE incidents[i]]
  BY DEF Persist, CreateIncidents
<1>2. PICK type \in [new -> fresh] :
        /\ \A i, j \in new : type[i] = type[j] => i = j
        /\ incidents' = [i \in Ids |-> IF i \in new THEN NewRow(type[i]) ELSE incidents[i]]
  BY <1>1
<1>3. \A i \in new : i \in Ids /\ ~ Exists(i) /\ incidents'[i] = NewRow(type[i]) /\ incidents'[i].type = type[i]
  BY <1>2 DEF NewRow
<1>4. \A i \in Ids : i \notin new => incidents'[i] = incidents[i]
  BY <1>2
<1>5. \A i \in new : NewRow(type[i]) # NoIncident
  <2>1. \A i \in new : NewRow(type[i]) \in Rows
    <3>1. fresh \subseteq Types
      BY OneAgent DEF TypeOK
    <3>2. \A t2 \in Types : NewRow(t2) \in Rows
      BY ErrorKinds DEF NewRow, Rows, Statuses
    <3>3. QED
      BY <1>2, <3>1, <3>2
  <2>2. QED
    BY <2>1, NoIncidentAssumption
<1>6. \A i \in Ids \ new : i \in OfType(t)' <=> i \in OfType(t)
  BY <1>4 DEF OfType, Exists
<1>7. \A i \in new : i \notin OfType(t)
  BY DEF OfType
<1>8. PICK x \in new : x \in OfType(t)'
  BY <1>3, <1>6, <1>7 DEF OfType
<1>9. type[x] = t /\ t \in fresh
  BY <1>2, <1>3, <1>8 DEF OfType
<1>10. \A i \in new : i \in OfType(t)' => i = x
  BY <1>2, <1>3, <1>9 DEF OfType
<1>11. OfType(t)' \in SUBSET (OfType(t) \cup {x})
  BY <1>6, <1>10 DEF OfType
<1>12. OfType(t) = ResolvedOf(t)
  <2>1. \A i \in Ids : Exists(i) => incidents[i].status \in Statuses
    BY RowType DEF TypeOK, Rows
  <2>2. \A i \in OfType(t) : ~ HasStatus(i, ActiveStatuses)
    BY <1>9 DEF ActiveTypes, OfType
  <2>3. QED
    BY <2>1, <2>2 DEF OfType, ResolvedOf, HasStatus, ActiveStatuses, Statuses
<1>13. QED
  BY <1>9, <1>11, <1>12

-----------------------------------------------------------------------------
(* Where the agent is                                                      *)

\* A worker that is neither observing nor waiting for a tool makes its steps by
\* itself.
LEMMA StepsAlone ==
  ASSUME [SystemNext]_systemVars, pc[agent] \notin {"tool", "observe"}, pc' # pc
  PROVE  ControllerStep
<1>1. ~ ToolStarts /\ ~ ToolEnds /\ ~ PassStep
  BY DEF ToolStarts, ToolEnds, RunTool, PassStep
<1>2. ~ Observed
  BY DEF Observed, Observe, ObserveFails
<1>3. ~ SandboxStep /\ ~ UNCHANGED systemVars
  BY DEF SandboxStep, systemVars, vars
<1>4. QED
  BY <1>1, <1>2, <1>3 DEF SystemNext

\* Claims and writes are such steps.
LEMMA WritesAlone ==
  ASSUME TypeOK, [SystemNext]_systemVars, Claim(agent) \/ Finalize(agent) \/ Persist(agent)
  PROVE  ControllerStep
<1>1. /\ pc[agent] \in {"claim", "final_commit", "persist"}
      /\ pc'[agent] \in {"claim_read", "final_read", "off", "list"}
  BY OneAgent DEF Claim, Finalize, Persist, Write, Goto, TypeOK
<1>2. pc' # pc
  BY <1>1
<1>3. QED
  BY <1>1, <1>2, StepsAlone

\* A pass that begins ends with candidates, or with the end of the worker's
\* pass.
LEMMA LeavesObserve ==
  ASSUME TypeOK, [Next]_vars, pc[agent] = "observe"
  PROVE  pc'[agent] \in {"observe", "persist", "idle", "off"}
<1>1. ASSUME ProcStep(agent)
      PROVE  pc'[agent] \in {"observe", "persist", "idle", "off"}
  BY <1>1, OneAgent
     DEF ProcStep, WorkerStep, TypeOK, Start, Recover, LifespanRecover, StopWorker, Exit, Poll,
       Observe, ObserveFails, Persist, List, Take, EndPass, ReadBack, ReadBackPcs, Escalate,
       EscalateLost, EscalationReason, SkipBackoff, BackoffPending, Requeue, RequeueLost,
       BackoffOver, CreatePlan, CommitPlan, CommitPlanLost, FetchPlan, Claim, ClaimLost,
       RecordStarted, RunTool, FinishAction, ReadCurrent, Finalize, FinalizeLost, Crash, Shutdown,
       StoreError, StorePcs, ExecutingPcs, LifespanError, Goto, AbortPass, PassEnd
<1>2. CASE Tick \/ UNCHANGED vars
  BY <1>2 DEF Tick, vars
<1>3. QED
  BY <1>1, <1>2, NextIsProcStep, OneAgent

\* Candidates are what the last pass has found, until they are persisted.
LEMMA CandsStep ==
  ASSUME TypeOK, [Next]_vars, ~ Observe(agent), cands[agent] # {} => pc[agent] = "persist"
  PROVE  /\ cands'[agent] \subseteq cands[agent]
         /\ cands'[agent] # {} => pc'[agent] = "persist"
<1>1. ASSUME ProcStep(agent)
      PROVE  \/ cands'[agent] = {}
             \/ cands'[agent] = cands[agent] /\ (pc'[agent] = pc[agent] \/ pc[agent] # "persist")
  BY <1>1, OneAgent
     DEF ProcStep, WorkerStep, TypeOK, Start, Recover, LifespanRecover, StopWorker, Exit, Poll,
       Observe, ObserveFails, Persist, List, Take, EndPass, ReadBack, ReadBackPcs, Escalate,
       EscalateLost, EscalationReason, SkipBackoff, BackoffPending, Requeue, RequeueLost,
       BackoffOver, CreatePlan, CommitPlan, CommitPlanLost, FetchPlan, Claim, ClaimLost,
       RecordStarted, RunTool, FinishAction, ReadCurrent, Finalize, FinalizeLost, Crash, Shutdown,
       StoreError, StorePcs, ExecutingPcs, LifespanError, Goto, AbortPass, DropLocals,
       NextIncident, Write, locals
<1>2. CASE Tick \/ UNCHANGED vars
  BY <1>2 DEF Tick, vars, locals
<1>3. QED
  BY <1>1, <1>2, NextIsProcStep, OneAgent

\* A worker that goes on waiting for a tool waits for the same one.
LEMMA ToolStays ==
  ASSUME ExecutionInv, [Next]_vars, pc[agent] = "tool", pc'[agent] = "tool"
  PROVE  Tool' = Tool
<1>0. TypeOK /\ agent \in Procs
  BY OneAgent DEF ExecutionInv, IInv
<1>1. Executing(agent)' /\ ~ Claim(agent)
  BY DEF Executing, ExecutingPcs, Claim
<1>2. ExecutionStep(agent) /\ Steps(agent)' = Steps(agent)
  BY <1>1, StaysInPlan
<1>3. job'[agent] = job[agent]
  BY <1>0, <1>2 DEF ExecutionStep, Unmoved, ReadBack, RecordStarted, RunTool, FinishAction,
       ReadCurrent, Claim, Goto, TypeOK
<1>4. QED
  BY <1>2, <1>3 DEF Tool

\* Passes, candidates and tool calls stay in their places.
LEMMA PlacesStep ==
  ASSUME ExecutionInv, Places, [SystemNext]_systemVars
  PROVE  Places'
<1>0. TypeOK /\ [Next]_vars
  BY StepImplements DEF ExecutionInv, IInv
<1>1. CASE UNCHANGED <<vars, observerVars, call>>
  <2>1. Tool' = Tool
    BY <1>1 DEF Tool, Steps, vars
  <2>2. QED
    BY <1>1, <2>1 DEF Places, vars, observerVars, passVars
<1>2. CASE ToolStarts
  <2>1. UNCHANGED <<vars, observerVars>> /\ pc[agent] = "tool"
    BY <1>2 DEF ToolStarts
  <2>2. Tool' = Tool
    BY <2>1 DEF Tool, Steps, vars
  <2>3. \/ call' = "restart" /\ Tool = "restart_container"
        \/ call' = "verify" /\ Tool = "verify_health_stable"
    BY <1>2 DEF ToolStarts
  <2>4. QED
    BY <2>1, <2>2, <2>3 DEF Places, vars, observerVars, passVars
<1>3. CASE ToolEnds
  <2>1. opc' = opc /\ pc[agent] = "tool" /\ call' = "none" /\ cands' = cands
    BY <1>3 DEF ToolEnds, RunTool, observerVars, passVars
  <2>2. QED
    BY <2>1 DEF Places
<1>4. CASE PassStep
  BY <1>4 DEF PassStep, Unobserved, vars, locals, Places
<1>5. CASE Observed
  <2>1. opc' = "list" /\ call' = call /\ pc[agent] = "observe"
    BY <1>5 DEF Observed, PassEnds, Observe, ObserveFails
  <2>2. cands'[agent] # {} => pc'[agent] = "persist"
    BY <1>0, <1>5, OneAgent DEF Observed, Observe, ObserveFails, AbortPass, DropLocals, Goto, TypeOK
  <2>3. QED
    BY <2>1, <2>2 DEF Places
<1>6. CASE ControllerStep
  <2>1. ~ Observe(agent)
    BY <1>0, <1>6, OneAgent DEF ControllerStep, Observe, Goto, TypeOK
  <2>2. cands'[agent] # {} => pc'[agent] = "persist"
    BY <1>0, <2>1, CandsStep DEF Places
  <2>3. opc' # "list" => pc'[agent] = "observe"
    BY <1>0, <1>6, LeavesObserve DEF ControllerStep, PassEnds, Places, observerVars, passVars
  <2>4. call' # "none" => call' = call /\ pc[agent] = "tool" /\ pc'[agent] = "tool"
    BY <1>6 DEF ControllerStep, Places
  <2>5. call' # "none" => Tool' = Tool
    BY <1>0, <2>4, ToolStays
  <2>6. QED
    BY <2>2, <2>3, <2>4, <2>5 DEF Places
<1>7. CASE SandboxStep
  <2>1. UNCHANGED <<vars, passVars>> /\ (call' = call \/ (call = "verify" /\ call' = "cut"))
    <3>1. UNCHANGED vars /\ UNCHANGED passVars
      BY <1>7 DEF SandboxStep, Meanwhile
    <3>2. call' = call \/ (call = "verify" /\ call' = "cut")
      BY <1>7 DEF SandboxStep
    <3>3. QED
      BY <3>1, <3>2
  <2>2. Tool' = Tool
    BY <2>1 DEF Tool, Steps, vars
  <2>3. QED
    BY <2>1, <2>2 DEF Places, vars, passVars
<1>8. CASE UNCHANGED systemVars
  BY <1>1, <1>8 DEF systemVars
<1>9. QED
  BY <1>2, <1>3, <1>4, <1>5, <1>6, <1>7, <1>8 DEF SystemNext

-----------------------------------------------------------------------------
(* What looks like a fault                                                 *)

\* What Docker and the scripts do to a container: as long as no script restarts
\* it, it stays settled, and nobody but the agent asks for its restart.
LEMMA SandboxMoves ==
  ASSUME SandboxTypeOK, SandboxNext, NEW c \in Containers
  PROVE  /\ injected'[c] \in {injected[c], injected[c] + 1}
         /\ ended'[c] \in {ended[c], ended[c] + 1}
         /\ ended'[c] = ended[c] =>
              /\ c \notin requested => c \notin requested'
              /\ Settled(c) => Settled(c)'
<1>0. /\ injected \in [Containers -> Nat] /\ ended \in [Containers -> Nat]
      /\ state \in [Containers -> States]
      /\ "nginx" \in Containers /\ "app" \in Containers
  BY DEF SandboxTypeOK, Containers
<1>1. ASSUME NEW d \in Containers, Boots(d) \/ StopOnRequest(d) \/ StartOnRequest(d)
      PROVE  /\ UNCHANGED scriptVars /\ requested' \subseteq requested
             /\ Settled(c) => state'[c] = "up"
  <2>1. UNCHANGED scriptVars /\ requested' \subseteq requested
    BY <1>1 DEF Boots, StartSucceeds, StartFails, DockerRetries, StopOnRequest, StartOnRequest
  <2>2. CASE d = c
    BY <1>0, <1>1, <2>1, <2>2 DEF Boots, StartSucceeds, StartFails, DockerRetries, StopOnRequest,
         StartOnRequest, Settled
  <2>3. CASE d # c
    <3>1. state'[c] = state[c]
      BY <1>0, <1>1, <2>3 DEF Boots, StartSucceeds, StartFails, DockerRetries, StopOnRequest,
           StartOnRequest, Becomes
    <3>2. QED
      BY <2>1, <3>1 DEF Settled
  <2>4. QED
    BY <2>2, <2>3, <2>1
<1>2. ASSUME NEW d \in Containers, Inject(d)
      PROVE  /\ injected'[c] \in {injected[c], injected[c] + 1} /\ ended' = ended
             /\ UNCHANGED <<state, requested>>
  BY <1>0, <1>2 DEF Inject
<1>3. CASE BreakNginxConfig \/ EnableAppCrash
  <2>1. PICK d \in Containers : Inject(d)
    BY <1>0, <1>3 DEF BreakNginxConfig, EnableAppCrash
  <2>2. QED
    BY <1>2, <2>1 DEF Settled
<1>4. ASSUME NEW d \in Containers, ScriptEnds(d)
      PROVE  /\ injected' = injected /\ state' = state
             /\ ended'[c] \in {ended[c], ended[c] + 1}
             /\ ended'[c] = ended[c] => (c \in requested' <=> c \in requested)
  <2>1. ended'[c] = IF c = d THEN ended[c] + 1 ELSE ended[c]
    BY <1>0, <1>4 DEF ScriptEnds
  <2>2. injected' = injected /\ state' = state /\ requested' \in {requested, requested \cup {d}}
    BY <1>4 DEF ScriptEnds
  <2>3. ended[c] \in Nat
    BY <1>0
  <2>4. CASE c = d
    BY <2>1, <2>2, <2>3, <2>4
  <2>5. CASE c # d
    BY <2>1, <2>2, <2>5
  <2>6. QED
    BY <2>4, <2>5
<1>5. QED
  BY <1>1, <1>3, <1>4 DEF SandboxNext, Settled, scriptVars

\* So the counts of the scripts only grow,
LEMMA ScriptsGrow ==
  ASSUME RepairInv, SystemTypeOK, [SystemNext]_systemVars, NEW c \in Containers
  PROVE  /\ ended'[c] = ended[c] \/ (SandboxStep /\ ended'[c] > ended[c])
         /\ injected'[c] >= injected[c]
<1>0. ExecutionInv /\ injected[c] \in Nat /\ ended[c] \in Nat
  BY DEF RepairInv, ScriptsCounted
<1>1. CASE SandboxStep
  <2>1. ended'[c] \in {ended[c], ended[c] + 1} /\ injected'[c] \in {injected[c], injected[c] + 1}
    BY <1>1, SandboxMoves DEF SandboxStep, Meanwhile, SystemTypeOK
  <2>2. QED
    BY <1>0, <1>1, <2>1
<1>2. CASE UNCHANGED scriptVars
  BY <1>0, <1>2 DEF scriptVars
<1>3. CASE ToolEnds
  BY <1>0, <1>2, <1>3, ToolLeavesContainers
<1>4. CASE ToolStarts \/ PassStep \/ Observed \/ ControllerStep \/ UNCHANGED systemVars
  BY <1>2, <1>4 DEF ToolStarts, PassStep, Observed, ControllerStep, sandboxVars, systemVars
<1>5. QED
  BY <1>1, <1>3, <1>4 DEF SystemNext

\* A container that is up shows no fault,
LEMMA UpShowsNothing ==
  ASSUME NEW c \in Containers, NEW t, t \in Detect({View(c)})
  PROVE  state[c] # "up"
<1>1. AppCrashLoop(View(c)) \/ NginxBadState(View(c))
  BY DEF Detect
<1>2. View(c).status # "running"
  BY <1>1 DEF AppCrashLoop, NginxBadState, IsRestarting, IsRunning
<1>3. QED
  BY <1>2 DEF View

\* each fault has a container of its own,
LEMMA OwnContainer ==
  ASSUME NEW t \in Registered
  PROVE  /\ ContainerOf(t) \in Containers
         /\ \A u \in Registered : ContainerOf(u) = ContainerOf(t) => u = t
BY DEF Registered, ContainerOf, Containers

\* and what looks like one arises from a script's restart, or from the one the
\* agent asks for itself.
LEMMA SuspicionArises ==
  ASSUME ExecutionInv, SystemTypeOK, Places, [SystemNext]_systemVars, NEW t \in Registered,
         ~ Suspected(t), Suspected(t)'
  PROVE  \/ ended'[ContainerOf(t)] # ended[ContainerOf(t)]
         \/ ToolStarts /\ Target = ContainerOf(t)
<1> DEFINE c == ContainerOf(t)
<1>0. /\ TypeOK /\ [Next]_vars /\ c \in Containers
      /\ Settled(c) /\ t \notin Detect(seen) /\ t \notin cands[agent]
  BY StepImplements, OwnContainer DEF ExecutionInv, IInv, Suspected
<1>1. CASE UNCHANGED <<vars, state, requested, observerVars>>
  BY <1>0, <1>1 DEF Suspected, Settled, Detect, vars, locals, observerVars, passVars
<1>2. CASE ToolStarts
  <2>1. UNCHANGED <<vars, observerVars, state>>
    BY <1>2 DEF ToolStarts
  <2>2. requested' = requested \/ requested' = requested \cup {Target}
    BY <1>2 DEF ToolStarts
  <2>3. CASE Target = c
    BY <1>2, <2>3
  <2>4. CASE Target # c
    BY <1>0, <2>1, <2>2, <2>4 DEF Suspected, Settled, Detect, vars, locals, observerVars, passVars
  <2>5. QED
    BY <2>3, <2>4
<1>3. CASE ToolEnds
  <2>1. UNCHANGED <<state, requested, observerVars>>
    BY <1>3, ToolLeavesContainers
  <2>2. cands' = cands
    BY <1>3 DEF ToolEnds, RunTool
  <2>3. QED
    BY <1>0, <2>1, <2>2 DEF Suspected, Settled, Detect, observerVars, passVars
<1>4. CASE PassStep
  <2>1. UNCHANGED <<vars, state, requested>>
    BY <1>4 DEF PassStep, Unobserved, sandboxVars
  <2>2. t \notin Detect(seen')
    <3>1. ASSUME NEW d \in Containers, Inspect(d)
          PROVE  t \notin Detect(seen')
      <4>1. SUFFICES ASSUME t \in Detect(seen \cup {View(d)})
                     PROVE  FALSE
        BY <3>1 DEF Inspect
      <4>2. t \in Detect({View(d)}) /\ ContainerOf(t) = d
        BY <1>0, <4>1, DetectOne
      <4>3. QED
        BY <1>0, <4>2, UpShowsNothing DEF Settled
    <3>2. ASSUME ~ \E d \in Containers : Inspect(d)
          PROVE  seen' = seen \/ seen' = {}
      BY <1>4, <3>2 DEF PassStep, ObserverStep, ListContainers, ListFails, InspectFails, Logs,
           AskHealth, HealthAnswers, HealthRaises
    <3>3. QED
      BY <1>0, <3>1, <3>2 DEF Detect
  <2>3. Detect(seen)' = Detect(seen')
    BY DEF Detect, AppCrashLoop, NginxBadState, IsRestarting, IsRunning
  <2>4. QED
    BY <1>0, <2>1, <2>2, <2>3 DEF Suspected, Settled, vars, locals
<1>5. CASE Observed
  <2>1. seen' = {} /\ UNCHANGED <<state, requested>>
    BY <1>5 DEF Observed, PassEnds, sandboxVars
  <2>2. cands'[agent] = {} \/ cands'[agent] = Detect(seen)
    BY <1>0, <1>5, OneAgent DEF Observed, ObserveFails, AbortPass, DropLocals, TypeOK
  <2>3. QED
    BY <1>0, <2>1, <2>2 DEF Suspected, Settled, Detect
<1>6. CASE ControllerStep
  <2>1. UNCHANGED <<state, requested>> /\ (seen' = seen \/ seen' = {})
    BY <1>6 DEF ControllerStep, PassEnds, sandboxVars, observerVars, passVars
  <2>2. cands'[agent] \subseteq cands[agent]
    <3>1. ~ Observe(agent)
      BY <1>0, <1>6, OneAgent DEF ControllerStep, Observe, Goto, TypeOK
    <3>2. QED
      BY <1>0, <3>1, CandsStep DEF Places
  <2>3. QED
    BY <1>0, <2>1, <2>2 DEF Suspected, Settled, Detect
<1>7. CASE SandboxStep
  <2>1. UNCHANGED vars /\ UNCHANGED passVars /\ SandboxNext
    BY <1>7 DEF SandboxStep, Meanwhile
  <2>2. ended'[c] = ended[c] => Settled(c)'
    BY <1>0, <2>1, SandboxMoves DEF SystemTypeOK
  <2>3. QED
    BY <1>0, <2>1, <2>2 DEF Suspected, Detect, vars, locals, passVars
<1>8. CASE UNCHANGED systemVars
  BY <1>1, <1>8 DEF systemVars, sandboxVars
<1>9. QED
  BY <1>2, <1>3, <1>4, <1>5, <1>6, <1>7, <1>8 DEF SystemNext

\* The end of an execution that succeeds leaves nothing that looks like its
\* fault, unless a script has restarted the container since the claim.
LEMMA ResolvedUnsuspected ==
  ASSUME CountInv, Executing(agent), pc[agent] = "final_commit", Succeeded(agent),
         ended[Target] = endedAt[Target]
  PROVE  /\ Settled(Target)
         /\ Detect(seen) = {}
         /\ cands[agent] = {}
<1>0. ExecutionInv /\ SettledSoFar /\ Places /\ PassSoFar
  BY DEF CountInv, RepairInv
<1>1. LastStep(agent)
  BY DEF CountInv, RepairInv, EndsAtLastStep
<1>2. DOMAIN Steps(agent) = 1 .. Len(Steps(agent)) /\ Len(Steps(agent)) \in Nat
      /\ job[agent].step \in DOMAIN Steps(agent)
  BY <1>0, ExecutedPlan
<1>3. Done(Len(Steps(agent))) /\ Len(Steps(agent)) \in DOMAIN Steps(agent)
  BY <1>1, <1>2 DEF Done, LastStep
<1>4. Steps(agent)[Len(Steps(agent))] = "verify_health_stable"
  <2>1. CASE Target = "nginx"
    <3>1. PICK o \in {0, 1} : NginxShape(Steps(agent), o)
      BY <1>0, <2>1, TargetPlan
    <3>2. Len(Steps(agent)) = o + 5
      <4>1. DOMAIN Steps(agent) = 1 .. o + 5
        BY <3>1 DEF NginxShape
      <4>2. o + 5 <= Len(Steps(agent)) /\ Len(Steps(agent)) <= o + 5
        BY <1>2, <1>3, <4>1
      <4>3. o + 5 \in Nat /\ Len(Steps(agent)) \in Nat
        BY <1>2
      <4>4. QED
        BY <4>2, <4>3
    <3>3. QED
      BY <3>1, <3>2 DEF NginxShape
  <2>2. CASE Target = "app"
    <3>1. PICK o \in {0, 1} : AppShape(Steps(agent), o)
      BY <1>0, <2>2, TargetPlan
    <3>2. Len(Steps(agent)) = o + 3
      <4>1. DOMAIN Steps(agent) = 1 .. o + 3
        BY <3>1 DEF AppShape
      <4>2. o + 3 <= Len(Steps(agent)) /\ Len(Steps(agent)) <= o + 3
        BY <1>2, <1>3, <4>1
      <4>3. o + 3 \in Nat /\ Len(Steps(agent)) \in Nat
        BY <1>2
      <4>4. QED
        BY <4>2, <4>3
    <3>3. QED
      BY <3>1, <3>2 DEF AppShape
  <2>3. QED
    BY <1>0, <2>1, <2>2, TargetPlan
<1>5. Did("verify_health_stable")
  BY <1>3, <1>4 DEF Did
<1>6. Did("restart_container")
  BY <1>0, <1>5, DidBefore
<1>7. Settled(Target)
  BY <1>0, <1>5, <1>6 DEF SettledSoFar, Undisturbed, Settled
<1>8. seen = {} /\ cands[agent] = {}
  BY <1>0 DEF Places, PassSoFar
<1>9. QED
  BY <1>7, <1>8 DEF Detect

\* What looks like a fault is always one that no RESOLVED incident accounts for.
LEMMA SuspicionStep ==
  ASSUME CountInv, [SystemNext]_systemVars
  PROVE  SuspicionAccounted'
<1> SUFFICES ASSUME NEW t \in Registered, Suspected(t)'
             PROVE  Cardinality(ResolvedOf(t)') < ended'[ContainerOf(t)]
  BY DEF SuspicionAccounted, ContainerOf
<1> DEFINE c == ContainerOf(t)
<1>0. /\ RepairInv /\ ExecutionInv /\ SystemTypeOK /\ Places /\ TypeOK /\ HeldRecords /\ OutcomeKnown /\ [Next]_vars
      /\ c \in Containers /\ ended[c] \in Nat /\ ended'[c] \in Nat /\ endedAt[c] \in Nat
      /\ endedAt[c] <= ended[c]
  BY StepImplements, OwnContainer, ClaimedStep DEF CountInv, RepairInv, ScriptsCounted, ExecutionInv, IInv
<1>1. ended[c] <= ended'[c]
  BY <1>0, ScriptsGrow
<1>2. /\ Cardinality(OfType(t)) \in Nat /\ Cardinality(ResolvedOf(t)) \in Nat
      /\ Cardinality(ResolvedOf(t)) <= Cardinality(OfType(t))
      /\ ResolvedOf(t) # OfType(t) => Cardinality(ResolvedOf(t)) < Cardinality(OfType(t))
  BY SetsOfIncidents, Counts
<1>3. Cardinality(OfType(t)) <= ended[c]
  BY DEF CountInv, OneIncidentPerInjection
<1>4. CASE Finalize(agent) /\ Succeeded(agent) /\ incidents[cur[agent].id].type = t
  <2>1. /\ ControllerStep /\ pc[agent] = "final_commit" /\ Executing(agent) /\ Target = c
        /\ ~ Persist(agent) /\ ~ Observe(agent)
    BY <1>0, <1>4, WritesAlone DEF Finalize, Persist, Observe, Executing, ExecutingPcs, Target
  <2>2. OfType(t)' = OfType(t)
    BY <1>0, <2>1, SameRows
  <2>3. OfType(t)' \in SUBSET Ids /\ ResolvedOf(t)' \in SUBSET OfType(t)'
    BY DEF OfType, ResolvedOf
  <2>4. Cardinality(ResolvedOf(t)') <= Cardinality(OfType(t)) /\ Cardinality(ResolvedOf(t)') \in Nat
    BY <2>2, <2>3, Counts
  <2>5. Cardinality(OfType(t)) <= endedAt[c]
    BY <1>4, <2>1 DEF CountInv, ClaimAccounted
  <2>6. ended[c] # endedAt[c]
    <3>1. SUFFICES ASSUME ended[c] = endedAt[c]
                   PROVE  FALSE
      OBVIOUS
    <3>2. Settled(c) /\ Detect(seen) = {} /\ cands[agent] = {}
      BY <1>4, <2>1, <3>1, ResolvedUnsuspected
    <3>3. Settled(c)' /\ (seen' = seen \/ seen' = {})
      BY <2>1, <3>2 DEF ControllerStep, PassEnds, sandboxVars, observerVars, passVars, Settled
    <3>4. cands'[agent] = {}
      BY <1>0, <2>1, <3>2, CandsStep
    <3>5. QED
      BY <3>2, <3>3, <3>4 DEF Suspected, Detect
  <2>7. QED
    BY <1>0, <1>1, <1>2, <2>4, <2>5, <2>6
<1>5. CASE ~ (Finalize(agent) /\ Succeeded(agent) /\ incidents[cur[agent].id].type = t)
  <2>1. ResolvedOf(t)' = ResolvedOf(t)
    BY <1>0, <1>5, SameResolved
  <2>2. CASE Suspected(t)
    <3>1. Cardinality(ResolvedOf(t)) < ended[c]
      BY <2>2 DEF CountInv, SuspicionAccounted
    <3>2. QED
      BY <1>0, <1>1, <1>2, <2>1, <3>1
  <2>3. CASE ended'[c] # ended[c]
    BY <1>0, <1>1, <1>2, <1>3, <2>1, <2>3
  <2>4. CASE ToolStarts /\ Target = c
    <3>1. Executing(agent)
      BY <2>4 DEF ToolStarts, Executing, ExecutingPcs
    <3>2. incidents[cur[agent].id].type = t
      <4>1. incidents[cur[agent].id].type \in Registered
        BY <1>0, <3>1, ExecutedPlan DEF Registered
      <4>2. QED
        BY <2>4, <4>1, OwnContainer DEF Target
    <3>3. cur[agent].id \in OfType(t) /\ cur[agent].id \notin ResolvedOf(t)
      <4>1. cur[agent].id \in Ids /\ HasStatus(cur[agent].id, {"IN_PROGRESS", "NEEDS_HUMAN"})
        BY <1>0, <3>1, OneAgent, ExecutesAlone DEF ExecutionInv
      <4>2. QED
        BY <3>2, <4>1 DEF OfType, ResolvedOf, HasStatus
    <3>4. QED
      BY <1>0, <1>1, <1>2, <1>3, <2>1, <3>3
  <2>5. QED
    BY <1>0, <2>2, <2>3, <2>4, SuspicionArises
<1>6. QED
  BY <1>4, <1>5

\* A new incident is accounted for by a script no other incident of its type is:
\* the candidate it comes from looked like a fault.
LEMMA OneIncidentStep ==
  ASSUME CountInv, [SystemNext]_systemVars
  PROVE  OneIncidentPerInjection'
<1> SUFFICES ASSUME NEW t \in Registered
             PROVE  Cardinality(OfType(t)') <= ended'[ContainerOf(t)]
  BY DEF OneIncidentPerInjection, ContainerOf
<1> DEFINE c == ContainerOf(t)
<1>0. /\ RepairInv /\ ExecutionInv /\ SystemTypeOK /\ TypeOK /\ [Next]_vars
      /\ c \in Containers /\ ended[c] \in Nat /\ ended'[c] \in Nat
  BY StepImplements, OwnContainer, ClaimedStep DEF CountInv, RepairInv, ScriptsCounted, ExecutionInv, IInv
<1>1. ended[c] <= ended'[c]
  BY <1>0, ScriptsGrow
<1>2. Cardinality(OfType(t)) \in Nat /\ Cardinality(OfType(t)) <= ended[c]
  BY SetsOfIncidents, Counts DEF CountInv, OneIncidentPerInjection
<1>3. CASE OfType(t)' = OfType(t)
  BY <1>0, <1>1, <1>2, <1>3
<1>4. CASE OfType(t)' # OfType(t)
  <2>1. Persist(agent)
    BY <1>0, <1>4, SameRows
  <2>2. PICK x : /\ t \in cands[agent]
                 /\ OfType(t) = ResolvedOf(t)
                 /\ OfType(t)' \in SUBSET (OfType(t) \cup {x})
    BY <1>0, <1>4, <2>1, PersistAdds
  <2>3. Cardinality(OfType(t)) < ended[c]
    BY <2>2 DEF CountInv, SuspicionAccounted, Suspected
  <2>4. Cardinality(OfType(t)') <= Cardinality(OfType(t)) + 1
    BY <2>2, SetsOfIncidents, CountsOneMore
  <2>5. Cardinality(OfType(t)') \in Nat
    BY Counts DEF OfType
  <2>6. QED
    BY <1>0, <1>1, <1>2, <2>3, <2>4, <2>5
<1>5. QED
  BY <1>3, <1>4

-----------------------------------------------------------------------------
(* What an execution leaves behind                                         *)

\* What the agent has counted when it claimed stays, until it claims again.
LEMMA ClaimedAtKept ==
  ASSUME ExecutionInv, [SystemNext]_systemVars, Executing(agent)', ~ Claim(agent)
  PROVE  UNCHANGED claimVars
<1>1. Executing(agent)
  BY StepImplements, StaysInPlan
<1>2. pc[agent] # "claim"
  BY <1>1 DEF Executing, ExecutingPcs
<1>3. QED
  BY <1>2 DEF SystemNext, ToolStarts, ToolEnds, PassStep, Observed, Unobserved, ControllerStep,
     SandboxStep, systemVars

\* When it claims, it counts the scripts so far.
LEMMA ClaimCounts ==
  ASSUME TypeOK, [SystemNext]_systemVars, Claim(agent)
  PROVE  /\ ControllerStep /\ claimedAt' = injected /\ endedAt' = ended /\ UNCHANGED scriptVars
         /\ cur'[agent] = cur[agent] /\ pc[agent] = "claim"
<1>1. ControllerStep /\ pc[agent] = "claim" /\ cur' = cur
  BY WritesAlone DEF Claim, Write, locals
<1>2. QED
  BY <1>1 DEF ControllerStep, sandboxVars

\* There are no more incidents of the type under repair than scripts had ended at
\* the claim.
LEMMA ClaimAccountedStep ==
  ASSUME CountInv, OneIncidentPerInjection', [SystemNext]_systemVars
  PROVE  ClaimAccounted'
<1> SUFFICES ASSUME Executing(agent)'
             PROVE  Cardinality(OfType(incidents[cur[agent].id].type)') <= endedAt'[Target']
  BY DEF ClaimAccounted
<1>0. /\ RepairInv /\ ExecutionInv /\ IInv /\ TypeOK /\ HeldRecords /\ [Next]_vars /\ agent \in Procs
  BY StepImplements, OneAgent DEF CountInv, RepairInv, ExecutionInv, IInv
<1> DEFINE i == cur[agent].id
           t == incidents[i].type
<1>1. CASE Claim(agent)
  <2>1. endedAt' = ended' /\ cur'[agent] = cur[agent] /\ pc[agent] = "claim"
    BY <1>0, <1>1, ClaimCounts DEF scriptVars
  <2>2. Exists(i) /\ i \in Ids /\ t \in Registered
    BY <1>0, <2>1, HeldExists, SystemAssumption DEF HoldingPcs, Rows
  <2>3. t' = t
    BY <1>0, <2>1, <2>2, RowsGrow DEF RowGrows
  <2>4. Target' = ContainerOf(t) /\ OfType(t)' = {j \in Ids : Exists(j)' /\ incidents'[j].type = t}
    BY <2>3 DEF Target, OfType, ContainerOf
  <2>5. Cardinality({j \in Ids : Exists(j)' /\ incidents'[j].type = t}) <= ended'[ContainerOf(t)]
    BY <2>2 DEF OneIncidentPerInjection, OfType, ContainerOf
  <2>6. QED
    BY <2>1, <2>4, <2>5
<1>2. CASE ~ Claim(agent)
  <2>1. Executing(agent) /\ Target' = Target /\ cur'[agent].id = i
    BY <1>0, <1>2, StaysInPlan, StaysExecuting
  <2>2. endedAt' = endedAt
    BY <1>0, <1>2, ClaimedAtKept DEF claimVars
  <2>3. i \in Ids /\ Exists(i)
    BY <1>0, <2>1, ExecutesAlone
  <2>4. t' = t
    BY <1>0, <2>1, <2>3, RowsGrow DEF RowGrows
  <2>5. ~ Persist(agent)
    BY <2>1 DEF Persist, Executing, ExecutingPcs
  <2>6. {j \in Ids : Exists(j)' /\ incidents'[j].type = t} = OfType(t)
    BY <1>0, <2>5, SameRows DEF OfType
  <2>7. OfType(t)' = {j \in Ids : Exists(j)' /\ incidents'[j].type = t}
    BY <2>4 DEF OfType
  <2>8. Cardinality(OfType(t)) <= endedAt[Target]
    BY <2>1 DEF CountInv, ClaimAccounted
  <2>9. QED
    BY <2>1, <2>2, <2>6, <2>7, <2>8
<1>3. QED
  BY <1>1, <1>2

\* A step of an execution, as the sandbox sees it: a tool ends, or nothing is
\* done; the agent asks for a restart only before it has done it.
LEMMA SettledStep ==
  ASSUME CountInv, ExecutionInv', [SystemNext]_systemVars
  PROVE  SettledSoFar'
<1> SUFFICES ASSUME Executing(agent)', ended'[Target'] = endedAt'[Target']
             PROVE  /\ Did("restart_container")' => Target' \notin requested'
                    /\ Did("verify_health_stable")' => state'[Target'] = "up"
  BY DEF SettledSoFar, Undisturbed
<1>0. /\ RepairInv /\ ExecutionInv /\ TypeOK /\ SystemTypeOK /\ SettledSoFar /\ [Next]_vars
      /\ \A c \in Containers : endedAt[c] \in Nat /\ ended[c] \in Nat /\ endedAt[c] <= ended[c]
      /\ \A c \in Containers : ended'[c] \in Nat
  BY StepImplements, ClaimedStep DEF CountInv, RepairInv, ScriptsCounted, ExecutionInv, IInv
<1>1. CASE Claim(agent)
  BY <1>0, <1>1, ClaimHasDoneNothing
<1>2. CASE ~ Claim(agent)
  <2>1. Executing(agent) /\ Target' = Target /\ endedAt' = endedAt
    BY <1>0, <1>2, StaysInPlan, ClaimedAtKept DEF claimVars
  <2>2. Target \in Containers
    BY DEF Target, ContainerOf, Containers
  <2>3. ended'[Target] = ended[Target] /\ ended[Target] = endedAt[Target]
    <3>1. ended'[Target] = ended[Target] \/ ended'[Target] > ended[Target]
      BY <1>0, <2>2, ScriptsGrow
    <3>2. QED
      BY <1>0, <2>1, <2>2, <3>1
  <2>4. /\ Did("restart_container") => Target \notin requested
        /\ Did("verify_health_stable") => state[Target] = "up"
        /\ Did("verify_health_stable") => Did("restart_container")
    BY <1>0, <2>1, <2>3, DidBefore DEF SettledSoFar, Undisturbed
  <2>5. CASE ToolEnds
    <3>1. UNCHANGED <<state, requested>> /\ Tool \in Tools
      BY <1>0, <2>5, ToolLeavesContainers
    <3>2. /\ Did("restart_container")' <=>
               Did("restart_container") \/ (Tool = "restart_container" /\ job'[agent].outcome = "ok")
          /\ Did("verify_health_stable")' <=>
               Did("verify_health_stable") \/ (Tool = "verify_health_stable" /\ job'[agent].outcome = "ok")
      BY <1>0, <2>5, ToolCounts
    <3>3. job'[agent].outcome = "ok" => Succeeds
      BY <2>5 DEF ToolEnds
    <3>4. /\ Tool = "restart_container" /\ Succeeds => Target \notin requested
          /\ Tool = "verify_health_stable" /\ Succeeds => state[Target] = "up"
      BY <2>2 DEF Succeeds, Healthy, Containers
    <3>5. QED
      BY <2>1, <2>4, <3>1, <3>2, <3>3, <3>4
  <2>6. CASE ~ ToolEnds
    <3>1. ~ RunTool(agent)
      <4>1. SUFFICES ASSUME RunTool(agent)
                     PROVE  FALSE
        OBVIOUS
      <4>2. pc[agent] = "tool" /\ pc'[agent] = "finish"
        BY <1>0, <4>1, OneAgent DEF RunTool, Goto, TypeOK
      <4>3. QED
        BY <2>6, <4>2 DEF SystemNext, ToolStarts, PassStep, Observed, ControllerStep, SandboxStep,
           Observe, ObserveFails, vars, systemVars
    <3>2. \A tool : Did(tool)' <=> Did(tool)
      BY <1>0, <1>2, <3>1, CountsSteps
    <3>3. CASE ToolStarts
      <4>1. state' = state /\ pc[agent] = "tool"
        BY <3>3 DEF ToolStarts
      <4>2. requested' = requested \/ Tool = "restart_container"
        BY <3>3 DEF ToolStarts
      <4>3. Tool = "restart_container" => ~ Did("restart_container")
        BY <1>0, <4>1, DidAtTool
      <4>4. QED
        BY <2>1, <2>4, <3>2, <4>1, <4>2, <4>3
    <3>4. CASE SandboxStep
      <4>1. /\ Target \notin requested => Target \notin requested'
            /\ Settled(Target) => Settled(Target)'
        <5>1. Target \notin requested => Target \notin requested'
          BY <1>0, <2>2, <2>3, <3>4, SandboxMoves DEF SandboxStep, Meanwhile, SystemTypeOK
        <5>2. Settled(Target) => state'[Target] = "up" /\ Target \notin requested'
          BY <1>0, <2>1, <2>2, <2>3, <3>4, SandboxMoves
             DEF SandboxStep, Meanwhile, SystemTypeOK, Settled
        <5>3. QED
          BY <2>1, <5>1, <5>2 DEF Settled
      <4>2. QED
        BY <2>1, <2>4, <3>2, <4>1 DEF Settled
    <3>5. CASE PassStep \/ Observed \/ ControllerStep \/ UNCHANGED systemVars
      <4>1. UNCHANGED <<state, requested>>
        BY <3>5 DEF PassStep, Observed, ControllerStep, sandboxVars, systemVars
      <4>2. QED
        BY <2>1, <2>4, <3>2, <4>1
    <3>6. QED
      BY <2>6, <3>3, <3>4, <3>5 DEF SystemNext
  <2>7. QED
    BY <2>5, <2>6
<1>3. QED
  BY <1>1, <1>2

\* CountInv holds initially,
LEMMA InitCount ==
  ASSUME SystemInit
  PROVE  CountInv
<1>1. RepairInv /\ TypeOK
  BY InitRepair DEF RepairInv, ExecutionInv, IInv
<1>2. SystemTypeOK
  <2>1. SandboxTypeOK
    <3>1. 0 \in 0 .. CrashThreshold /\ 0 \in Nat /\ "up" \in States
      BY SandboxAssumption DEF States
    <3>2. QED
      BY <3>1 DEF SystemInit, SandboxInit, SandboxTypeOK
  <2>2. ObserverTypeOK
    BY DEF SystemInit, ObserverInit, ObserverTypeOK, Containers
  <2>3. QED
    BY <1>1, <2>1, <2>2 DEF SystemInit, SystemTypeOK, RepairInv, ScriptsCounted
<1>3. PassSoFar
  BY DEF SystemInit, ObserverInit, PassSoFar
<1>4. pc[agent] = "off" /\ cands[agent] = {} /\ opc = "list" /\ seen = {} /\ call = "none"
  BY OneAgent DEF SystemInit, Init, ObserverInit
<1>5. \A t : OfType(t) = {}
  BY DEF SystemInit, Init, StoreInit, OfType, Exists
<1>6. OneIncidentPerInjection
  <2>1. ASSUME NEW t \in Registered
        PROVE  Cardinality(OfType(t)) <= ended[ContainerOf(t)]
    <3>1. OfType(t) = {} /\ Cardinality({}) = 0
      BY <1>5, FS_EmptySet
    <3>2. ContainerOf(t) \in Containers
      BY OwnContainer
    <3>3. ended[ContainerOf(t)] \in Nat
      BY <1>2, <3>2 DEF SystemTypeOK, SandboxTypeOK
    <3>4. QED
      BY <3>1, <3>3
  <2>2. QED
    BY <2>1 DEF OneIncidentPerInjection
<1>7. SuspicionAccounted
  <2>1. \A t \in Registered : Settled(ContainerOf(t))
    BY OwnContainer DEF SystemInit, SandboxInit, Settled
  <2>2. QED
    BY <1>4, <2>1 DEF SuspicionAccounted, Suspected, Detect
<1>8. ~ Executing(agent)
  BY <1>4 DEF Executing, ExecutingPcs
<1>9. QED
  BY <1>1, <1>2, <1>3, <1>4, <1>6, <1>7, <1>8 DEF CountInv, Places, ClaimAccounted, SettledSoFar

\* and every step keeps it.
LEMMA StepCount ==
  ASSUME CountInv, [SystemNext]_systemVars
  PROVE  CountInv'
<1>1. RepairInv' /\ ExecutionInv /\ ExecutionInv'
  BY StepRepair DEF CountInv, RepairInv
<1>2. SystemTypeOK' /\ PassSoFar' /\ Places'
  BY <1>1, SystemTypeStep, PassSoFarStep, PlacesStep DEF CountInv
<1>3. OneIncidentPerInjection' /\ SuspicionAccounted'
  BY OneIncidentStep, SuspicionStep
<1>4. ClaimAccounted' /\ SettledSoFar'
  BY <1>1, <1>3, ClaimAccountedStep, SettledStep
<1>5. QED
  BY <1>1, <1>2, <1>3, <1>4 DEF CountInv

\* CountInv is an invariant of the system; with it, every variable of the
\* agent, its passes and its sandbox keeps its type.
THEOREM CountInvariance == SystemSpec => []CountInv
<1>1. SystemInit => CountInv
  BY InitCount
<1>2. CountInv /\ [SystemNext]_systemVars => CountInv'
  BY StepCount
<1>3. QED
  BY <1>1, <1>2, PTL DEF SystemSpec

\* There are never more incidents of a type than scripts have injected its fault
\* and restarted the container: the restart that repairs a container is not
\* taken for a new fault, a failed pass or a retry reports nothing twice, and no
\* fault is blamed on the other service.
THEOREM OneIncidentPerInjectionAlways == SystemSpec => []OneIncidentPerInjection
<1>1. CountInv => OneIncidentPerInjection
  BY DEF CountInv
<1>2. QED
  BY <1>1, CountInvariance, PTL

=============================================================================
