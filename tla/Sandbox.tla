------------------------------ MODULE Sandbox ------------------------------
(***************************************************************************)
(* What the agent watches and repairs: the containers nginx and app, the   *)
(* two files they read when they start (nginx's site.conf and app's        *)
(* flags.json), the fault injection scripts that spoil them, and Docker,   *)
(* which restarts a container that exits (restart: unless-stopped) and     *)
(* restarts one when it is asked to.                                       *)
(*                                                                         *)
(* app and its start-up are src/services/app/main.py, nginx's              *)
(* configuration is src/services/nginx/site.conf; Docker and the nginx     *)
(* program are not part of the repository and are modelled by what the     *)
(* agent and these files rely on.                                          *)
(***************************************************************************)
EXTENDS Integers

CONSTANTS
  MaxInjections,   \* bound: per container, how often its script is run
  CrashThreshold   \* restart_threshold: restarts that make a crash loop

ASSUME SandboxAssumption ==
  /\ MaxInjections \in [{"nginx", "app"} -> Nat]
  /\ CrashThreshold \in Nat \ {0}

VARIABLES
  conf,       \* /nginx_conf/site.conf
  candidate,  \* /nginx_conf/site.conf.tmp
  crash,      \* crash_on_start in /runtime/flags.json
  state,      \* per container, what it is doing
  restarts,   \* per container, Docker's RestartCount, counted to the threshold
  requested,  \* containers Docker has been asked to restart and has not yet
  injected,   \* how often each script has written its file
  ended       \* how often each script has come to its end

scriptVars == <<injected, ended>>
sandboxVars == <<conf, candidate, crash, state, restarts, requested, scriptVars>>

Containers == {"nginx", "app"}

\* "starting": its process runs but does not serve yet; "restarting": the
\* process exited and Docker waits before it starts it again; "stopped": Docker
\* has stopped it on request.
States == {"starting", "up", "restarting", "stopped"}

SandboxTypeOK ==
  /\ conf \in {"good", "bad", "partial"}
  /\ candidate \in {"none", "good", "partial"}
  /\ crash \in BOOLEAN
  /\ state \in [Containers -> States]
  /\ restarts \in [Containers -> 0 .. CrashThreshold]
  /\ requested \subseteq Containers
  /\ injected \in [Containers -> Nat]
  /\ ended \in [Containers -> Nat]

\* docker compose up has just started the services.
SandboxInit ==
  /\ conf = "good"
  /\ candidate = "none"
  /\ crash = FALSE
  /\ state = [c \in Containers |-> "up"]
  /\ restarts = [c \in Containers |-> 0]
  /\ requested = {}
  /\ injected = [c \in Containers |-> 0]
  /\ ended = [c \in Containers |-> 0]

\* The health endpoint: nginx passes it on to app.
Healthy == state["nginx"] = "up" /\ state["app"] = "up"

\* nginx refuses a configuration whose upstream host has no address; Docker's
\* name server knows running containers only.
Resolvable(c) == state[c] \in {"starting", "up"}

CanServe(c) ==
  IF c = "app" THEN ~ crash ELSE conf = "good" /\ Resolvable("app")

-----------------------------------------------------------------------------
(* The containers and Docker                                               *)

Becomes(c, s) == state' = [state EXCEPT ![c] = s]

StartSucceeds(c) ==
  /\ state[c] = "starting"
  /\ CanServe(c)
  /\ Becomes(c, "up")
  /\ UNCHANGED <<conf, candidate, crash, restarts, requested, scriptVars>>

\* The process exits while it starts.
StartFails(c) ==
  /\ state[c] = "starting"
  /\ ~ CanServe(c)
  /\ Becomes(c, "restarting")
  /\ restarts' = [restarts EXCEPT ![c] = IF @ < CrashThreshold THEN @ + 1 ELSE @]
  /\ UNCHANGED <<conf, candidate, crash, requested, scriptVars>>

\* The restart policy.
DockerRetries(c) ==
  /\ state[c] = "restarting"
  /\ Becomes(c, "starting")
  /\ UNCHANGED <<conf, candidate, crash, restarts, requested, scriptVars>>

\* A restart on request, which also sets RestartCount to zero.
StopOnRequest(c) ==
  /\ c \in requested
  /\ state[c] # "stopped"
  /\ Becomes(c, "stopped")
  /\ UNCHANGED <<conf, candidate, crash, restarts, requested, scriptVars>>

StartOnRequest(c) ==
  /\ c \in requested
  /\ state[c] = "stopped"
  /\ Becomes(c, "starting")
  /\ restarts' = [restarts EXCEPT ![c] = 0]
  /\ requested' = requested \ {c}
  /\ UNCHANGED <<conf, candidate, crash, scriptVars>>

-----------------------------------------------------------------------------
(* Fault injection                                                         *)

\* A script writes the file of its container,
Inject(c) ==
  /\ injected[c] < MaxInjections[c]
  /\ injected' = [injected EXCEPT ![c] = @ + 1]
  /\ UNCHANGED <<candidate, state, restarts, requested, ended>>

\* break_nginx_config:
BreakNginxConfig ==
  /\ Inject("nginx")
  /\ conf' = "bad"
  /\ UNCHANGED crash

\* enable_app_crash:
EnableAppCrash ==
  /\ Inject("app")
  /\ crash' = TRUE
  /\ UNCHANGED conf

\* and then asks for its restart, which may fail (|| true).
ScriptEnds(c) ==
  /\ ended[c] < injected[c]
  /\ ended' = [ended EXCEPT ![c] = @ + 1]
  /\ requested' \in {requested, requested \cup {c}}
  /\ UNCHANGED <<conf, candidate, crash, state, restarts, injected>>

-----------------------------------------------------------------------------

\* What a container does by itself, with the restart policy.
Boots(c) == StartSucceeds(c) \/ StartFails(c) \/ DockerRetries(c)

SandboxNext ==
  \/ \E c \in Containers : Boots(c) \/ StopOnRequest(c) \/ StartOnRequest(c) \/ ScriptEnds(c)
  \/ BreakNginxConfig
  \/ EnableAppCrash

=============================================================================
