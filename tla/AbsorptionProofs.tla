-------------------------- MODULE AbsorptionProofs --------------------------
(***************************************************************************)
(* Theorems about what a failure costs, for any mode of the agent and any  *)
(* number of incidents, attempts, faults and injections: where one service *)
(* is broken at a time, an attempt fails only because a tool failed or the *)
(* fault was injected again, and recovery is the only other thing that     *)
(* asks for a human.                                                       *)
(***************************************************************************)
EXTENDS CountProofs

\* Where only c is broken, the other container is settled and every incident is
\* about c.
LEMMA OnlyAlone ==
  ASSUME CountInv, NEW c \in Containers, Only(c)
  PROVE  /\ \A d \in Containers : d # c => Settled(d)
         /\ \A i \in Ids : Exists(i) => ContainerOf(incidents[i].type) = c
<1>0. TypeOK /\ OneIncidentPerInjection /\ SuspicionAccounted /\ ScriptsCounted
  BY DEF CountInv, RepairInv, ExecutionInv, IInv
<1>1. ASSUME NEW t \in Registered, ContainerOf(t) # c
      PROVE  Settled(ContainerOf(t)) /\ OfType(t) = {}
  <2>1. ended[ContainerOf(t)] = 0
    <3>1. injected[ContainerOf(t)] = 0 /\ ContainerOf(t) \in Containers
      BY <1>1, OwnContainer DEF Only
    <3>2. QED
      BY <1>0, <3>1 DEF ScriptsCounted
  <2>2. Cardinality(OfType(t)) <= 0 /\ (Suspected(t) => Cardinality(ResolvedOf(t)) < 0)
    BY <1>0, <2>1 DEF OneIncidentPerInjection, SuspicionAccounted
  <2>3. Cardinality(OfType(t)) \in Nat /\ Cardinality(ResolvedOf(t)) \in Nat
    BY SetsOfIncidents, Counts
  <2>4. ~ Suspected(t)
    BY <2>2, <2>3
  <2>5. OfType(t) = {}
    <3>1. Cardinality({}) = 0
      BY FS_EmptySet
    <3>2. OfType(t) # {} => Cardinality({}) < Cardinality(OfType(t))
      BY SetsOfIncidents, Counts
    <3>3. QED
      BY <2>2, <2>3, <3>1, <3>2
  <2>6. QED
    BY <2>4, <2>5 DEF Suspected
<1>2. ASSUME NEW d \in Containers, d # c
      PROVE  Settled(d)
  <2>1. \E t \in Registered : ContainerOf(t) = d
    BY DEF Containers, Registered, ContainerOf
  <2>2. QED
    BY <1>1, <1>2, <2>1
<1>3. ASSUME NEW i \in Ids, Exists(i), ContainerOf(incidents[i].type) # c
      PROVE  FALSE
  <2>1. incidents[i].type \in Registered
    BY <1>0, <1>3, RowType, SystemAssumption DEF TypeOK, Rows
  <2>2. i \in OfType(incidents[i].type)
    BY <1>3 DEF OfType
  <2>3. QED
    BY <1>1, <1>3, <2>1, <2>2
<1>4. QED
  BY <1>2, <1>3

\* What has been injected and what has failed stays counted.
LEMMA CostsGrow ==
  ASSUME CountInv, [SystemNext]_systemVars
  PROVE  /\ toolFaults \in Nat /\ toolFaults' \in Nat /\ toolFaults <= toolFaults'
         /\ \A c \in Containers :
              /\ injected[c] \in Nat /\ injected'[c] \in Nat /\ claimedAt[c] \in Nat
              /\ injected[c] <= injected'[c] /\ claimedAt[c] <= injected[c]
              /\ ended[c] \in Nat /\ ended'[c] \in Nat /\ endedAt[c] \in Nat
              /\ ended[c] <= ended'[c] /\ endedAt[c] <= ended[c]
              /\ Only(c)' => Only(c)
<1>0. RepairInv /\ SystemTypeOK /\ SystemTypeOK'
  BY SystemTypeStep DEF CountInv
<1>1. toolFaults' = toolFaults \/ toolFaults' = toolFaults + 1
  BY DEF SystemNext, ToolStarts, ToolEnds, PassStep, Unobserved, Observed, ControllerStep,
     SandboxStep, systemVars
<1>2. \A c \in Containers :
        /\ injected[c] \in Nat /\ injected'[c] \in Nat /\ claimedAt[c] \in Nat
        /\ claimedAt[c] <= injected[c]
        /\ ended[c] \in Nat /\ ended'[c] \in Nat /\ endedAt[c] \in Nat
        /\ endedAt[c] <= ended[c]
  BY <1>0, ClaimedStep DEF RepairInv, ScriptsCounted
<1>3. \A c \in Containers : injected[c] <= injected'[c] /\ ended[c] <= ended'[c]
  BY <1>0, <1>2, ScriptsGrow
<1>4. ASSUME NEW c \in Containers, Only(c)'
      PROVE  Only(c)
  <2>1. ASSUME NEW d \in Containers \ {c}
        PROVE  injected[d] = 0
    <3>1. injected'[d] = 0
      BY <1>4 DEF Only
    <3>2. QED
      BY <1>2, <1>3, <3>1
  <2>2. QED
    BY <2>1 DEF Only
<1>5. QED
  BY <1>0, <1>1, <1>2, <1>3, <1>4 DEF SystemTypeOK

\* A container under repair.
LEMMA TargetContainer ==
  Target \in Containers
BY DEF Target, ContainerOf, Containers

\* While the agent stays in an execution: the container it repairs, what it had
\* counted when it claimed, and, until a script goes on, the counts.
LEMMA StaysCounted ==
  ASSUME CountInv, [SystemNext]_systemVars, Executing(agent)', ~ Claim(agent)
  PROVE  /\ Executing(agent) /\ Target' = Target /\ UNCHANGED claimVars
         /\ cur'[agent].id = cur[agent].id
         /\ Unspoiled' => Unspoiled /\ injected'[Target] = injected[Target]
         /\ Undisturbed' => Undisturbed /\ ended'[Target] = ended[Target]
<1>0. ExecutionInv /\ TypeOK /\ [Next]_vars /\ agent \in Procs
  BY StepImplements, OneAgent DEF CountInv, RepairInv, ExecutionInv, IInv
<1>1. Executing(agent) /\ Target' = Target /\ UNCHANGED claimVars /\ cur'[agent].id = cur[agent].id
  BY <1>0, StaysInPlan, StaysExecuting, ClaimedAtKept
<1>2. QED
  BY <1>1, CostsGrow, TargetContainer DEF Unspoiled, Undisturbed, claimVars

\* Only a tool that ends moves the worker on from its call.
LEMMA ToolsEndThemselves ==
  ASSUME TypeOK, [SystemNext]_systemVars, ~ ToolEnds
  PROVE  ~ RunTool(agent)
<1>1. SUFFICES ASSUME RunTool(agent)
               PROVE  FALSE
  OBVIOUS
<1>2. pc[agent] = "tool" /\ pc'[agent] = "finish"
  BY <1>1, OneAgent DEF RunTool, Goto, TypeOK
<1>3. QED
  BY <1>2 DEF SystemNext, ToolStarts, PassStep, Observed, ControllerStep, SandboxStep,
     Observe, ObserveFails, vars, systemVars

-----------------------------------------------------------------------------
(* A repaired container starts                                             *)

\* Once it has been asked to restart, the container under repair can serve.
LEMMA RepairedServes ==
  ASSUME CountInv, Executing(agent), Only(Target), Unspoiled,
         Did("restart_container") \/ call = "restart"
  PROVE  CanServe(Target)
<1>0. ExecutionInv /\ RepairSoFar /\ Places
  BY DEF CountInv, RepairInv
<1>1. IF Target = "app" THEN Did("write_runtime_flags") ELSE Did("atomic_replace")
  <2>1. CASE Did("restart_container")
    BY <1>0, <2>1, DidBefore
  <2>2. CASE call = "restart"
    <3>1. pc[agent] = "tool" /\ Tool = "restart_container"
      BY <1>0, <2>2 DEF Places
    <3>2. QED
      BY <1>0, <3>1, DidAtTool
  <2>3. QED
    BY <2>1, <2>2
<1>2. CASE Target = "app"
  BY <1>0, <1>1, <1>2 DEF RepairSoFar, CanServe
<1>3. CASE Target # "app"
  <2>1. conf = "good"
    BY <1>0, <1>1, <1>3 DEF RepairSoFar
  <2>2. Settled("app")
    BY <1>3, OnlyAlone, TargetContainer DEF Containers
  <2>3. QED
    BY <1>3, <2>1, <2>2 DEF CanServe, Resolvable, Settled
<1>4. QED
  BY <1>2, <1>3

\* What Docker does to a container that is to start, or has started, and can.
LEMMA Restarting ==
  ASSUME SandboxTypeOK, SandboxNext, NEW c \in Containers, CanServe(c),
         c \in requested \/ state[c] \in {"starting", "up"}
  PROVE  c \in requested' \/ state'[c] \in {"starting", "up"}
<1>0. state \in [Containers -> States]
  BY DEF SandboxTypeOK
<1>1. ASSUME NEW d \in Containers, Boots(d) \/ StopOnRequest(d) \/ StartOnRequest(d)
      PROVE  c \in requested' \/ state'[c] \in {"starting", "up"}
  <2>1. CASE d = c
    BY <1>0, <1>1, <2>1 DEF Boots, StartSucceeds, StartFails, DockerRetries, StopOnRequest,
         StartOnRequest, Becomes
  <2>2. CASE d # c
    BY <1>0, <1>1, <2>2 DEF Boots, StartSucceeds, StartFails, DockerRetries, StopOnRequest,
         StartOnRequest, Becomes
  <2>3. QED
    BY <2>1, <2>2
<1>2. CASE BreakNginxConfig \/ EnableAppCrash
  BY <1>2 DEF BreakNginxConfig, EnableAppCrash, Inject
<1>3. ASSUME NEW d \in Containers, ScriptEnds(d)
      PROVE  c \in requested' \/ state'[c] \in {"starting", "up"}
  BY <1>3 DEF ScriptEnds
<1>4. QED
  BY <1>1, <1>2, <1>3 DEF SandboxNext

\* StartsSoFar is kept: nothing stops nginx during a verification, and a
\* container that has been repaired does not exit when it starts.
LEMMA StartsStep ==
  ASSUME CountInv, CountInv', StartsSoFar, [SystemNext]_systemVars
  PROVE  StartsSoFar'
<1> SUFFICES ASSUME Executing(agent)', Only(Target)'
             PROVE  /\ Undisturbed' => call' # "cut"
                    /\ (Did("restart_container")' \/ call' = "restart") /\ Unspoiled' =>
                         Target' \in requested' \/ state'[Target'] \in {"starting", "up"}
  BY DEF StartsSoFar
<1>0. /\ ExecutionInv /\ ExecutionInv' /\ TypeOK /\ SystemTypeOK /\ Places /\ Places'
      /\ SettledSoFar /\ ScriptsCounted /\ ScriptsCounted' /\ [Next]_vars /\ agent \in Procs
  BY StepImplements, OneAgent DEF CountInv, RepairInv, ExecutionInv, IInv
<1>1. CASE Claim(agent)
  <2>1. pc'[agent] = "claim_read"
    BY <1>0, <1>1 DEF Claim, Write, Goto, TypeOK
  <2>2. QED
    BY <1>0, <1>1, <2>1, ClaimHasDoneNothing DEF Places
<1>2. CASE ~ Claim(agent)
  <2>1. /\ Executing(agent) /\ Target' = Target
        /\ Unspoiled' => Unspoiled
        /\ Undisturbed' => Undisturbed /\ ended'[Target] = ended[Target]
    BY <1>2, StaysCounted
  <2>2. Target \in Containers /\ Only(Target)
    <3>1. \A d \in Containers : Only(d)' => Only(d)
      BY CostsGrow
    <3>2. Only(Target)' => \A d \in Containers \ {Target} : injected'[d] = 0
      BY <2>1 DEF Only
    <3>3. QED
      BY <3>2, CostsGrow, TargetContainer DEF Only
  <2>3. Undisturbed' => \A d \in Containers : ended'[d] = ended[d]
    <3>1. ASSUME NEW d \in Containers, d # Target
          PROVE  ended'[d] = ended[d]
      <4>1. injected[d] = 0 /\ injected'[d] = 0
        BY <2>1, <2>2, <3>1 DEF Only
      <4>2. QED
        BY <1>0, <4>1 DEF ScriptsCounted
    <3>2. QED
      BY <2>1, <3>1
  <2>4. /\ Undisturbed => call # "cut"
        /\ (Did("restart_container") \/ call = "restart") /\ Unspoiled =>
             Target \in requested \/ state[Target] \in {"starting", "up"}
    BY <2>1, <2>2 DEF StartsSoFar
  <2>5. CASE ToolEnds
    <3>1. UNCHANGED <<state, requested>> /\ call' = "none"
      BY <1>0, <2>5, ToolLeavesContainers DEF ToolEnds
    <3>2. Did("restart_container")' <=>
            Did("restart_container") \/ (Tool = "restart_container" /\ job'[agent].outcome = "ok")
      BY <1>0, <2>5, ToolCounts
    <3>3. Tool = "restart_container" /\ job'[agent].outcome = "ok" => call = "restart"
      BY <2>5 DEF ToolEnds, Succeeds
    <3>4. QED
      BY <2>1, <2>4, <3>1, <3>2, <3>3
  <2>6. CASE ~ ToolEnds
    <3>1. Did("restart_container")' <=> Did("restart_container")
      BY <1>0, <1>2, <2>6, ToolsEndThemselves, CountsSteps
    <3>2. CASE ToolStarts
      <4>1. /\ state' = state
            /\ \/ call' = "restart" /\ Target \in requested'
               \/ call' = "verify" /\ requested' = requested
        BY <3>2 DEF ToolStarts
      <4>2. QED
        BY <2>1, <2>4, <3>1, <4>1
    <3>3. CASE SandboxStep
      <4>0. SandboxNext /\ SandboxTypeOK
        BY <1>0, <3>3 DEF SandboxStep, Meanwhile, SystemTypeOK
      <4>1. Undisturbed' /\ call' = "cut" =>
              call = "verify" /\ state["nginx"] = "up" /\ state'["nginx"] # "up"
        BY <2>1, <2>4, <3>3 DEF SandboxStep
      <4>2. ~ (Undisturbed' /\ call = "verify" /\ state["nginx"] = "up" /\ state'["nginx"] # "up")
        <5>1. SUFFICES ASSUME Undisturbed', call = "verify", state["nginx"] = "up",
                              state'["nginx"] # "up"
                       PROVE  FALSE
          OBVIOUS
        <5>2. Settled("nginx")
          <6>1. CASE Target = "nginx"
            <7>1. Did("restart_container")
              BY <1>0, <5>1, DidAtTool DEF Places
            <7>2. QED
              BY <1>0, <2>1, <5>1, <6>1, <7>1 DEF SettledSoFar, Settled
          <6>2. CASE Target # "nginx"
            BY <2>2, <6>2, OnlyAlone DEF Containers
          <6>3. QED
            BY <6>1, <6>2
        <5>3. QED
          BY <2>3, <4>0, <5>1, <5>2, SandboxMoves DEF Containers, Settled
      <4>3. call' = "restart" => call = "restart"
        BY <3>3 DEF SandboxStep
      <4>4. (Did("restart_container") \/ call = "restart") /\ Unspoiled =>
              Target \in requested' \/ state'[Target] \in {"starting", "up"}
        BY <2>1, <2>2, <2>4, <4>0, RepairedServes, Restarting
      <4>5. QED
        BY <2>1, <3>1, <4>1, <4>2, <4>3, <4>4
    <3>4. CASE PassStep \/ Observed \/ ControllerStep \/ UNCHANGED systemVars
      <4>1. UNCHANGED <<state, requested>> /\ call' \in {call, "none"}
        BY <3>4 DEF PassStep, Unobserved, Observed, ControllerStep, sandboxVars, systemVars
      <4>2. QED
        BY <2>1, <2>4, <3>1, <4>1
    <3>5. QED
      BY <2>6, <3>2, <3>3, <3>4 DEF SystemNext
  <2>7. QED
    BY <2>5, <2>6
<1>3. QED
  BY <1>1, <1>2

-----------------------------------------------------------------------------
(* What a failure costs                                                    *)

\* Where only the container under repair is broken and no script has restarted it
\* since the claim, no tool finds a reason to fail.
LEMMA NothingToRefuse ==
  ASSUME CountInv, StartsSoFar, pc[agent] = "tool", Executing(agent), Only(Target), Undisturbed
  PROVE  ~ Refuses /\ ~ Unverified
<1>0. ExecutionInv /\ RepairSoFar /\ Places /\ SettledSoFar /\ ScriptsCounted
  BY DEF CountInv, RepairInv
<1>1. /\ call # "cut"
      /\ Did("restart_container") /\ Unspoiled => Target \in requested \/ state[Target] \in {"starting", "up"}
  BY DEF StartsSoFar
<1>2. ASSUME Tool \in {"nginx_configtest", "atomic_replace"}
      PROVE  candidate = "good" /\ Resolvable("app")
  <2>1. /\ Target = "nginx"
        /\ Did("render_known_good_nginx_config") /\ ~ Did("atomic_replace")
    BY <1>0, <1>2, DidAtTool
  <2>2. candidate = "good"
    BY <1>0, <2>1 DEF RepairSoFar
  <2>3. Settled("app")
    BY <2>1, OnlyAlone DEF Containers
  <2>4. QED
    BY <2>2, <2>3 DEF Settled, Resolvable
<1>3. ~ Refuses
  BY <1>1, <1>2 DEF Refuses
<1>4. ~ Unverified
  <2>1. SUFFICES ASSUME Unverified
                 PROVE  FALSE
    OBVIOUS
  <2>2. PICK c \in Containers : state[c] = "restarting"
    BY <2>1 DEF Unverified
  <2>3. Did("restart_container")
    <3>1. Tool = "verify_health_stable"
      BY <1>0, <2>1 DEF Unverified, Places
    <3>2. QED
      BY <1>0, <3>1, DidAtTool
  <2>4. CASE c = Target
    <3>1. ended[Target] = injected[Target] /\ ended[Target] = endedAt[Target]
      BY <2>1 DEF Unverified, Undisturbed
    <3>2. /\ {injected[Target], ended[Target], claimedAt[Target], endedAt[Target]} \subseteq Nat
          /\ claimedAt[Target] <= injected[Target] /\ endedAt[Target] <= claimedAt[Target]
      BY <1>0, TargetContainer DEF ScriptsCounted
    <3>3. Unspoiled
      BY <3>1, <3>2 DEF Unspoiled
    <3>4. QED
      BY <1>0, <1>1, <2>2, <2>3, <2>4, <3>1, <3>3 DEF SettledSoFar
  <2>5. CASE c # Target
    BY <2>2, <2>5, OnlyAlone, TargetContainer DEF Settled
  <2>6. QED
    BY <2>4, <2>5
<1>5. QED
  BY <1>3, <1>4

\* An execution's failure is paid for.
LEMMA ExecutionPaidStep ==
  ASSUME CountInv, StartsSoFar, AttemptsPaid, ExecutionPaid, [SystemNext]_systemVars
  PROVE  ExecutionPaid'
<1> SUFFICES ASSUME Executing(agent)', Only(Target)', HasStatus(cur[agent].id, {"IN_PROGRESS"})'
             PROVE  /\ incidents'[cur'[agent].id].attempt_count <= toolFaults' + endedAt'[Target']
                    /\ pc'[agent] \in {"finish", "final", "final_commit"} /\ ~ Succeeded(agent)' =>
                         incidents'[cur'[agent].id].attempt_count < toolFaults' + ended'[Target']
  BY DEF ExecutionPaid
<1> DEFINE i == cur[agent].id
           n == incidents[i].attempt_count
<1>0. /\ ExecutionInv /\ IInv /\ TypeOK /\ HeldRecords /\ [Next]_vars /\ agent \in Procs
  BY StepImplements, OneAgent DEF CountInv, RepairInv, ExecutionInv, IInv
<1>1. CASE Claim(agent)
  <2>1. /\ ControllerStep /\ endedAt' = ended /\ UNCHANGED scriptVars
        /\ cur'[agent] = cur[agent] /\ pc[agent] = "claim"
    BY <1>0, <1>1, ClaimCounts
  <2>2. RowChange(i, "PLANNED", "IN_PROGRESS", 1, "none") /\ pc'[agent] = "claim_read"
    BY <1>0, <1>1, ClaimEffect DEF Claim, Write, Goto, TypeOK
  <2>3. i \in Ids /\ Exists(i) /\ n \in Nat
    BY <1>0, <2>1, HeldExists DEF HoldingPcs, Rows
  <2>4. Target' = ContainerOf(incidents[i].type) /\ incidents'[i].attempt_count = n + 1
    BY <2>1, <2>2 DEF RowChange, Target, ContainerOf
  <2>5. ContainerOf(incidents[i].type) \in Containers
    BY DEF ContainerOf, Containers
  <2>6. Only(ContainerOf(incidents[i].type))
    <3>1. \A d \in Containers \ {ContainerOf(incidents[i].type)} : injected'[d] = 0
      BY <2>4 DEF Only
    <3>2. QED
      BY <2>1, <3>1 DEF Only, scriptVars
  <2>7. n < toolFaults + ended[ContainerOf(incidents[i].type)]
    BY <2>2, <2>3, <2>5, <2>6 DEF AttemptsPaid, RowChange, HasStatus
  <2>8. toolFaults' = toolFaults
    BY <2>1 DEF ControllerStep
  <2>9. QED
    BY <2>1, <2>2, <2>3, <2>4, <2>5, <2>7, <2>8, CostsGrow
<1>2. CASE ~ Claim(agent)
  <2>1. Executing(agent) /\ Target' = Target /\ UNCHANGED claimVars /\ cur'[agent].id = i
    BY <1>2, StaysCounted
  <2>2. i \in Ids /\ Exists(i) /\ HasStatus(i, {"IN_PROGRESS"}) /\ incidents'[i] = incidents[i]
    <3>1. i \in Ids /\ Exists(i) /\ HasStatus(i, {"IN_PROGRESS", "NEEDS_HUMAN"})
      BY <1>0, <2>1, ExecutesAlone
    <3>2. incidents'[i].status = "IN_PROGRESS"
      BY <2>1 DEF HasStatus
    <3>3. QED
      BY <1>0, <2>1, <3>1, <3>2, StaysRow DEF HasStatus
  <2>3. n \in Nat
    BY <1>0, <2>2, RowType DEF TypeOK, Rows
  <2>4. Target \in Containers /\ Only(Target)
    <3>1. \A d \in Containers \ {Target} : injected'[d] = 0
      BY <2>1 DEF Only
    <3>2. QED
      BY <3>1, CostsGrow, TargetContainer DEF Only
  <2>5. /\ n <= toolFaults + endedAt[Target]
        /\ pc[agent] \in {"finish", "final", "final_commit"} /\ ~ Succeeded(agent) =>
             n < toolFaults + ended[Target]
    BY <2>1, <2>2, <2>4 DEF ExecutionPaid
  <2>6. /\ toolFaults \in Nat /\ toolFaults' \in Nat /\ toolFaults <= toolFaults'
        /\ ended[Target] \in Nat /\ ended'[Target] \in Nat /\ endedAt[Target] \in Nat
        /\ ended[Target] <= ended'[Target] /\ endedAt[Target] <= ended[Target]
    BY <2>4, CostsGrow
  <2>7. ASSUME pc'[agent] \in {"finish", "final", "final_commit"}, ~ Succeeded(agent)'
        PROVE  n < toolFaults' + ended'[Target]
    <3>1. CASE ToolEnds
      <4>1. pc[agent] = "tool"
        BY <1>0, <3>1, ToolLeavesContainers
      <4>2. Refuses \/ Unverified \/ toolFaults' = toolFaults + 1
        BY <2>7, <3>1 DEF ToolEnds, Succeeded
      <4>3. CASE toolFaults' = toolFaults + 1
        BY <2>3, <2>5, <2>6, <4>3
      <4>4. CASE ~ Undisturbed
        BY <2>3, <2>5, <2>6, <4>4 DEF Undisturbed
      <4>5. QED
        BY <2>1, <2>4, <4>1, <4>2, <4>3, <4>4, NothingToRefuse
    <3>2. CASE ~ ToolEnds
      <4>1. ExecutionStep(agent) /\ ~ RunTool(agent)
        BY <1>0, <1>2, <3>2, StaysInPlan, ToolsEndThemselves
      <4>2. pc[agent] \in {"finish", "final", "final_commit"} /\ ~ Succeeded(agent)
        BY <1>0, <1>2, <2>7, <4>1 DEF ExecutionStep, Unmoved, ReadBack, RecordStarted, FinishAction,
             ReadCurrent, Goto, TypeOK, Succeeded
      <4>3. QED
        BY <2>3, <2>5, <2>6, <4>2
    <3>3. QED
      BY <3>1, <3>2
  <2>8. QED
    BY <2>1, <2>2, <2>3, <2>5, <2>6, <2>7 DEF claimVars
<1>3. QED
  BY <1>1, <1>2

\* A type has an incident only when its fault has been injected.
LEMMA CountsOne ==
  ASSUME NEW S \in SUBSET Ids, NEW x \in S, NEW k \in Nat, Cardinality(S) <= k
  PROVE  k > 0
<1>1. Cardinality({}) < Cardinality(S) /\ Cardinality(S) \in Nat
  BY Counts
<1>2. Cardinality({}) = 0
  BY FS_EmptySet
<1>3. QED
  BY <1>1, <1>2

\* So is every attempt of an incident that may be executed again.
LEMMA AttemptsPaidStep ==
  ASSUME CountInv, CountInv', AttemptsPaid, ExecutionPaid, [SystemNext]_systemVars
  PROVE  AttemptsPaid'
<1> SUFFICES ASSUME NEW c \in Containers, Only(c)', NEW i \in Ids,
                    HasStatus(i, {"OPEN", "PLANNED", "FAILED"})'
             PROVE  incidents'[i].attempt_count < toolFaults' + ended'[c]
  BY DEF AttemptsPaid
<1>0. /\ ExecutionInv /\ TypeOK /\ TypeOK' /\ HeldRecords /\ OutcomeKnown /\ [Next]_vars /\ agent \in Procs
      /\ OneIncidentPerInjection'
  BY StepImplements, OneAgent DEF CountInv, RepairInv, ExecutionInv, IInv
<1>1. /\ Only(c) /\ toolFaults \in Nat /\ toolFaults' \in Nat /\ toolFaults <= toolFaults'
      /\ ended[c] \in Nat /\ ended'[c] \in Nat /\ ended[c] <= ended'[c]
  BY CostsGrow
<1>2. RowSteps(i)
  BY <1>0, RowEffect
<1>3. CASE ~ Exists(i)
  <2>1. incidents'[i].attempt_count = 0 /\ incidents'[i].type \in Registered /\ Exists(i)'
    BY <1>2, <1>3, SystemAssumption
       DEF RowSteps, Inserted, Recovered, RowChange, HasStatus, Exists
  <2>2. PICK t : t = incidents'[i].type
    OBVIOUS
  <2>3. t \in Registered /\ i \in OfType(t)' /\ OfType(t)' \in SUBSET Ids
    BY <2>1, <2>2 DEF OfType
  <2>4. ContainerOf(t) \in Containers /\ ended'[ContainerOf(t)] \in Nat
    BY <2>3, OwnContainer, CostsGrow
  <2>5. Cardinality(OfType(t)') <= ended'[ContainerOf(t)]
    BY <1>0, <2>3 DEF OneIncidentPerInjection, ContainerOf
  <2>6. ended'[ContainerOf(t)] > 0
    BY <2>3, <2>4, <2>5, CountsOne
  <2>7. injected'[ContainerOf(t)] # 0
    <3>1. injected'[ContainerOf(t)] \in Nat /\ ended'[ContainerOf(t)] <= injected'[ContainerOf(t)]
      BY <2>4 DEF CountInv, RepairInv, ScriptsCounted
    <3>2. QED
      BY <2>4, <2>6, <3>1
  <2>8. ContainerOf(t) = c
    BY <2>4, <2>7 DEF Only
  <2>9. QED
    BY <1>1, <2>1, <2>6, <2>8
<1>4. CASE Exists(i)
  <2>1. incidents[i].attempt_count \in Nat
    BY <1>0, <1>4, RowType DEF TypeOK, Rows
  <2>2. CASE HasStatus(i, {"OPEN", "PLANNED", "FAILED"})
    <3>1. incidents'[i].attempt_count = incidents[i].attempt_count
      BY <1>2, <1>4, <2>1, <2>2
         DEF RowSteps, Inserted, Recovered, RowChange, HasStatus
    <3>2. incidents[i].attempt_count < toolFaults + ended[c]
      BY <1>1, <2>2 DEF AttemptsPaid
    <3>3. QED
      BY <1>1, <2>1, <3>1, <3>2
  <2>3. CASE ~ HasStatus(i, {"OPEN", "PLANNED", "FAILED"})
    <3>1. /\ HasStatus(i, {"IN_PROGRESS"}) /\ incidents'[i].status = "FAILED"
          /\ incidents'[i].attempt_count = incidents[i].attempt_count
      BY <1>2, <1>4, <2>1, <2>3
         DEF RowSteps, Inserted, Recovered, RowChange, HasStatus
    <3>2. Finalize(agent) /\ cur[agent].id = i
      BY <1>0, <3>1, EndsByFinalize, OneAgent
    <3>3. pc[agent] = "final_commit" /\ Executing(agent)
      BY <3>2 DEF Finalize, Executing, ExecutingPcs
    <3>4. ~ Succeeded(agent)
      <4>1. incidents'[i].status = FinalStatus(agent)
        BY <1>0, <3>2 DEF Finalize, Write, TransitionIncident, TypeOK, StoreTypeOK
      <4>2. QED
        BY <3>1, <4>1 DEF FinalStatus
    <3>5. Target = c
      BY <1>1, <1>4, <3>2, OnlyAlone DEF Target
    <3>6. incidents[i].attempt_count < toolFaults + ended[c]
      BY <1>1, <3>1, <3>2, <3>3, <3>4, <3>5 DEF ExecutionPaid
    <3>7. QED
      BY <1>1, <2>1, <3>1, <3>6
  <2>4. QED
    BY <2>2, <2>3
<1>5. QED
  BY <1>3, <1>4

-----------------------------------------------------------------------------
(* Who asks for a human                                                    *)

\* An API runs only where it is started.
LEMMA ApiModeStep ==
  ASSUME TypeOK, ApiInMode, [Next]_vars
  PROVE  ApiInMode'
<1> SUFFICES ASSUME api'[agent] # "off", Mode[agent] \notin {"service", "api"}
             PROVE  FALSE
  BY DEF ApiInMode
<1>0. api[agent] = "off" /\ agent \in Procs
  BY OneAgent DEF ApiInMode
<1>1. ASSUME NEW p \in Procs, ProcStep(p)
      PROVE  FALSE
  <2>1. p = agent
    BY OneAgent
  <2>2. ~ (LifespanRecover(p) \/ LifespanError(p) \/ Shutdown(p) \/ StopWorker(p))
    BY <1>0, <2>1 DEF LifespanRecover, LifespanError, Shutdown, StopWorker
  <2>3. QED
    BY <1>0, <1>1, <2>1, <2>2
       DEF TypeOK, ProcStep, WorkerStep, Start, Recover, Exit, Poll, Observe, ObserveFails, Persist,
       List, Take, EndPass, ReadBack, Escalate, EscalateLost, SkipBackoff, Requeue, RequeueLost,
       CreatePlan, CommitPlan, CommitPlanLost, FetchPlan, Claim, ClaimLost, RecordStarted, RunTool,
       FinishAction, ReadCurrent, Finalize, FinalizeLost, Write, Crash, StoreError
<1>2. CASE Tick \/ UNCHANGED vars
  BY <1>0, <1>2 DEF Tick, vars
<1>3. QED
  BY <1>1, <1>2, NextIsProcStep

\* An execution is handed to a human only by start-up recovery.
LEMMA RecoveryStep ==
  ASSUME TypeOK, HeldRecords, OutcomeKnown, [Next]_vars, NEW i \in Ids,
         HasStatus(i, {"IN_PROGRESS"}), incidents'[i].status = "NEEDS_HUMAN"
  PROVE  \E p \in Procs : Recover(p) \/ LifespanRecover(p)
<1>1. ~ UNCHANGED incidents
  BY DEF HasStatus
<1>2. ASSUME NEW p \in Procs
      PROVE  ~ Persist(p)
  <2>1. SUFFICES ASSUME Persist(p)
                 PROVE  FALSE
    OBVIOUS
  <2>2. cands[p] \in SUBSET Types /\ CreateIncidents(cands[p])
    BY <2>1 DEF Persist, TypeOK
  <2>3. QED
    BY <2>2, CreateEffect DEF Inserted, HasStatus
<1>3. ASSUME NEW p \in Procs
      PROVE  ~ RowWrite(p)
  <2>1. SUFFICES ASSUME RowWrite(p)
                 PROVE  FALSE
    OBVIOUS
  <2>2. i = cur[p].id
    BY <2>1, WritesOneRow DEF HasStatus
  <2>3. QED
    BY <2>1, <2>2, EscalateEffect, RequeueEffect, CommitPlanEffect, ClaimEffect, FinalizeEffect
       DEF RowWrite, RowChange, HasStatus
<1>4. QED
  BY <1>1, <1>2, <1>3
     DEF Next, WorkerStep, vars, storeVars, RowWrite, Start, StopWorker,
       Exit, Poll, Observe, ObserveFails, List, Take, EndPass, ReadBack, EscalateLost, SkipBackoff,
       RequeueLost, CreatePlan, InsertPlan, CommitPlanLost, FetchPlan, ClaimLost, RecordStarted,
       InsertAction, RunTool, FinishAction, UpdateAction, ReadCurrent, FinalizeLost, Crash,
       Shutdown, StoreError, LifespanError, Tick

\* In the sandbox every type has a planner and an OPEN incident has an attempt
\* left: only a retry gives up.
LEMMA OnlyRetriesGiveUp ==
  ASSUME IInv, [Next]_vars, NEW i \in Ids, HasStatus(i, {"OPEN"})
  PROVE  incidents'[i].status # "NEEDS_HUMAN"
<1> SUFFICES ASSUME incidents'[i].status = "NEEDS_HUMAN"
             PROVE  FALSE
  OBVIOUS
<1>0. TypeOK /\ HeldRecords /\ OutcomeKnown /\ AttemptBudget
  BY DEF IInv
<1>1. ~ UNCHANGED incidents /\ ~ MarkInProgressNeedsHuman
  BY DEF HasStatus, MarkInProgressNeedsHuman
<1>2. ASSUME NEW p \in Procs, Persist(p)
      PROVE  FALSE
  <2>1. cands[p] \in SUBSET Types /\ CreateIncidents(cands[p])
    BY <1>0, <1>2 DEF Persist, TypeOK
  <2>2. QED
    BY <2>1, CreateEffect DEF Inserted, HasStatus
<1>3. ASSUME NEW p \in Procs, RowWrite(p)
      PROVE  FALSE
  <2>1. i = cur[p].id
    BY <1>0, <1>3, WritesOneRow DEF HasStatus
  <2>2. Escalate(p)
    BY <1>0, <1>3, <2>1, RequeueEffect, CommitPlanEffect, ClaimEffect, FinalizeEffect
       DEF RowWrite, RowChange, HasStatus
  <2>3. pc[p] \in {"retry", "plan", "fetch"} /\ pc[p] \in HoldingPcs
    BY <2>2 DEF Escalate, EscalationReason, HoldingPcs
  <2>4. cur[p].status = "OPEN" /\ cur[p].attempt_count = incidents[i].attempt_count
    BY <1>0, <2>1, <2>2, <2>3, WonIsRow DEF Escalate, RowChange, HasStatus
  <2>5. pc[p] = "plan"
    BY <1>0, <2>3, <2>4 DEF HeldRecords, Held
  <2>6. incidents[i].attempt_count \in Nat /\ incidents[i].type \in Types
    BY <1>0, RowType DEF TypeOK, Rows, HasStatus
  <2>7. incidents[i].attempt_count < MAX_ATTEMPTS
    BY <1>0 DEF AttemptBudget, HasStatus
  <2>8. ~ Exhausted(p) /\ Plannable(p)
    BY <2>1, <2>4, <2>6, <2>7, ControllerAssumption, SystemAssumption DEF Exhausted, Plannable
  <2>9. QED
    BY <2>2, <2>5, <2>8 DEF Escalate, EscalationReason
<1>4. QED
  BY <1>1, <1>2, <1>3, IncidentsEffect

\* FaultsAbsorbed is kept: an incident is given up for its attempts only when
\* more has failed than there are attempts, and recovery finds an execution only
\* beside a worker or after a fault.
LEMMA AbsorbedStep ==
  ASSUME AbsorbInv, CountInv', [SystemNext]_systemVars
  PROVE  FaultsAbsorbed'
<1> SUFFICES ASSUME NEW c \in Containers, Only(c)', ended'[c] + toolFaults' <= MAX_ATTEMPTS,
                    NEW i \in Ids, HasStatus(i, {"NEEDS_HUMAN"})'
             PROVE  /\ incidents'[i].last_error = "agent_restarted_while_in_progress"
                    /\ Mode[agent] = "service" \/ faults' > 0
  BY DEF FaultsAbsorbed
<1>0. /\ CountInv /\ ExecutionInv /\ IInv /\ TypeOK /\ TypeOK' /\ HeldRecords /\ OutcomeKnown
      /\ [Next]_vars /\ agent \in Procs
  BY StepImplements, OneAgent DEF AbsorbInv, CountInv, RepairInv, ExecutionInv, IInv
<1>1. /\ Only(c) /\ toolFaults \in Nat /\ toolFaults' \in Nat /\ toolFaults <= toolFaults'
      /\ ended[c] \in Nat /\ ended'[c] \in Nat /\ ended[c] <= ended'[c]
  BY <1>0, CostsGrow
<1>2. ended[c] + toolFaults <= MAX_ATTEMPTS
  BY <1>1, ControllerAssumption
<1>3. RowSteps(i)
  BY <1>0, RowEffect
<1>4. CASE HasStatus(i, {"NEEDS_HUMAN"})
  <2>1. incidents'[i] = incidents[i]
    BY <1>3, <1>4 DEF RowSteps, Inserted, Recovered, RowChange, HasStatus
  <2>2. /\ incidents[i].last_error = "agent_restarted_while_in_progress"
        /\ Mode[agent] = "service" \/ faults > 0
    BY <1>1, <1>2, <1>4 DEF AbsorbInv, FaultsAbsorbed
  <2>3. faults' > 0 \/ faults = 0
    BY <1>0, NoFault DEF TypeOK
  <2>4. QED
    BY <1>0, <2>1, <2>2, <2>3 DEF TypeOK
<1>5. CASE HasStatus(i, {"FAILED"})
  <2>1. incidents[i].attempt_count >= MAX_ATTEMPTS /\ incidents[i].attempt_count \in Nat
    BY <1>0, <1>3, <1>5, RowType DEF RowSteps, Inserted, Recovered, RowChange, HasStatus, TypeOK, Rows
  <2>2. incidents[i].attempt_count < toolFaults + ended[c]
    BY <1>1, <1>5 DEF AbsorbInv, AttemptsPaid, HasStatus
  <2>3. QED
    BY <1>1, <1>2, <2>1, <2>2, ControllerAssumption
<1>6. CASE HasStatus(i, {"IN_PROGRESS"})
  <2>1. incidents'[i].last_error = "agent_restarted_while_in_progress"
    <3>1. incidents[i].last_error = "none"
      BY <1>0, <1>6 DEF IInv, ErrorExplainsStatus, HasStatus
    <3>2. Recovered(i)
      BY <1>3, <1>6 DEF RowSteps, Inserted, RowChange, HasStatus
    <3>3. QED
      BY <3>1, <3>2 DEF Recovered, RowChange
  <2>2. ASSUME Mode[agent] # "service", faults' = 0
        PROVE  FALSE
    <3>1. faults = 0
      BY <1>0, <2>2, NoFault
    <3>2. Executing(agent)
      BY <1>0, <1>6, <3>1, OneAgent DEF ExecutionInv, NoOrphanWithoutFault, ExecutedBy
    <3>3. Recover(agent) \/ LifespanRecover(agent)
      BY <1>0, <1>6, RecoveryStep, OneAgent DEF HasStatus
    <3>4. ~ Recover(agent)
      BY <3>2 DEF Recover, Executing, ExecutingPcs
    <3>5. ~ LifespanRecover(agent)
      BY <1>0, <2>2, <3>2 DEF LifespanRecover, AbsorbInv, ApiInMode, NoWorkerInApi, Executing, ExecutingPcs
    <3>6. QED
      BY <3>3, <3>4, <3>5
  <2>3. QED
    BY <1>0, <2>1, <2>2 DEF TypeOK
<1>7. CASE HasStatus(i, {"OPEN"})
  BY <1>0, <1>7, OnlyRetriesGiveUp DEF HasStatus
<1>8. HasStatus(i, {"NEEDS_HUMAN", "FAILED", "IN_PROGRESS", "OPEN"})
  BY <1>3 DEF RowSteps, Inserted, Recovered, RowChange, HasStatus, Exists
<1>9. QED
  BY <1>4, <1>5, <1>6, <1>7, <1>8 DEF HasStatus

-----------------------------------------------------------------------------
(* The invariant                                                           *)

\* The invariant holds initially,
LEMMA InitAbsorb ==
  ASSUME SystemInit
  PROVE  AbsorbInv
<1>1. CountInv
  BY InitCount
<1>2. /\ pc = [p \in Procs |-> "off"] /\ api = [p \in Procs |-> "off"]
      /\ queue = [p \in Procs |-> {}] /\ incidents = [i \in Ids |-> NoIncident]
  BY DEF SystemInit, Init, StoreInit
<1>3. ~ Executing(agent) /\ api[agent] = "off"
  BY <1>2, OneAgent DEF Executing, ExecutingPcs
<1>4. NoWorkerInApi
  BY <1>2 DEF NoWorkerInApi
<1>5. \A i \in Ids : \A S : ~ HasStatus(i, S)
  BY <1>2 DEF HasStatus, Exists
<1>6. QED
  BY <1>1, <1>3, <1>4, <1>5
     DEF AbsorbInv, StartsSoFar, AttemptsPaid, ExecutionPaid, ApiInMode, FaultsAbsorbed

\* and every step keeps it.
LEMMA StepAbsorb ==
  ASSUME AbsorbInv, [SystemNext]_systemVars
  PROVE  AbsorbInv'
<1>0. CountInv /\ TypeOK /\ [Next]_vars
  BY StepImplements DEF AbsorbInv, CountInv, RepairInv, ExecutionInv, IInv
<1>1. CountInv'
  BY <1>0, StepCount
<1>2. StartsSoFar' /\ AttemptsPaid' /\ ExecutionPaid'
  BY <1>0, <1>1, StartsStep, AttemptsPaidStep, ExecutionPaidStep DEF AbsorbInv
<1>3. NoWorkerInApi' /\ ApiInMode'
  BY <1>0, ApiStep, ApiModeStep DEF AbsorbInv
<1>4. FaultsAbsorbed'
  BY <1>1, AbsorbedStep
<1>5. QED
  BY <1>1, <1>2, <1>3, <1>4 DEF AbsorbInv

\* AbsorbInv is an invariant of the system.
THEOREM AbsorbInvariance == SystemSpec => []AbsorbInv
<1>1. SystemInit => AbsorbInv
  BY InitAbsorb
<1>2. AbsorbInv /\ [SystemNext]_systemVars => AbsorbInv'
  BY StepAbsorb
<1>3. QED
  BY <1>1, <1>2, PTL DEF SystemSpec

\* Where one service is broken, the retries absorb what fails: no human is asked
\* while there is an attempt for each script run and each failure of a tool, but
\* by start-up recovery, which hands over whatever execution it finds.
THEOREM FaultsAbsorbedAlways == SystemSpec => []FaultsAbsorbed
<1>1. AbsorbInv => FaultsAbsorbed
  BY DEF AbsorbInv
<1>2. QED
  BY <1>1, AbsorbInvariance, PTL

=============================================================================
