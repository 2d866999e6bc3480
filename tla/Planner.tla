------------------------------ MODULE Planner ------------------------------
(***************************************************************************)
(* The planner registry and its two strategies, each wrapped in the        *)
(* RetryAwarePlanner (src/agent/planner).  A plan is the sequence of the   *)
(* tools it calls; parameters, rationale and risk level are data no        *)
(* property reads.                                                         *)
(***************************************************************************)
EXTENDS Integers, Sequences

\* The allowlist of tools a step may name (TOOL_REGISTRY).
Tools ==
  { "render_known_good_nginx_config", "nginx_configtest", "atomic_replace",
    "restart_container", "write_runtime_flags", "verify_health_stable",
    "noop" }

NginxConfigErrorPlan ==
  << "render_known_good_nginx_config", "nginx_configtest", "atomic_replace",
     "restart_container", "verify_health_stable" >>

\* Faulty variant: the app is restarted with the flag still set.
AppRestartPlan == << "restart_container", "verify_health_stable" >>

AppCrashLoopPlan ==
  << "write_runtime_flags", "restart_container", "verify_health_stable" >>

\* The strategies build_orchestrator registers, by the type they can handle.
Registered == {"NGINX_CONFIG_ERROR", "APP_CRASH_LOOP"}

BasePlan(type) ==
  IF type = "NGINX_CONFIG_ERROR" THEN NginxConfigErrorPlan ELSE AppCrashLoopPlan

RetryThreshold == 2

\* PlannerRegistry.plan_for on an incident of a registered type that has been
\* attempted attemptCount times: from the second retry on, RetryAwarePlanner
\* puts a noop step in front.
PlanFor(type, attemptCount) ==
  IF attemptCount >= RetryThreshold
  THEN << "noop" >> \o BasePlan(type)
  ELSE BasePlan(type)

\* How a call of a tool can end in the executor.  noop cannot fail; only the
\* verification step raises VerificationFailed, and like every other tool that
\* touches a volume, Docker or the network it can raise something else too.
Outcomes(tool) ==
  CASE tool = "noop"                 -> {"ok"}
    [] tool = "verify_health_stable" -> {"ok", "verification_failed", "step_failed"}
    [] OTHER                         -> {"ok", "step_failed"}

=============================================================================
