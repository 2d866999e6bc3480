------------------------------ MODULE Observer ------------------------------
(***************************************************************************)
(* An observation pass: observe_once (src/agent/observer/observer.py)      *)
(* lists the containers, inspects each, reads its log and asks the health  *)
(* endpoint, one call after the other, while the containers go on; detect  *)
(* (src/agent/detector/rules.py) then looks for faults in what it got.     *)
(*                                                                         *)
(* The variables from steady on record what went on during the pass, for   *)
(* the properties; the agent does not read them.                           *)
(***************************************************************************)
EXTENDS Sandbox

VARIABLES
  opc,      \* the pass's next call; "list" between passes
  left,     \* the containers listed and not yet inspected
  current,  \* the container whose log is read next
  seen,     \* the container observations of the bundle
  asked,    \* whether nginx was up when the health request reached it
  steady,   \* types whose fault has been visible all through the pass
  skipped,  \* containers an inspection of which failed
  refused   \* whether Docker failed to list the containers

passVars == <<opc, left, current, seen, asked>>
recordVars == <<steady, skipped, refused>>
observerVars == <<passVars, recordVars>>

\* What an inspection says of a container.
View(c) ==
  [source |-> c,
   status |-> CASE state[c] = "restarting" -> "restarting"
                [] state[c] = "stopped"    -> "exited"
                [] OTHER                   -> "running",
   restart_count |-> restarts[c]]

Views ==
  [source : Containers, status : {"restarting", "exited", "running"},
   restart_count : 0 .. CrashThreshold]

\* Docker calls a restarting container running, too.
IsRestarting(o) == o.status = "restarting"
IsRunning(o) == o.status \in {"running", "restarting"}

ObserverTypeOK ==
  /\ opc \in {"list", "inspect", "logs", "reply", "found", "lost"}
  /\ left \subseteq Containers
  /\ current \in Containers
  /\ seen \subseteq Views
  /\ asked \in BOOLEAN
  /\ steady \subseteq {"NGINX_CONFIG_ERROR", "APP_CRASH_LOOP"}
  /\ skipped \subseteq Containers
  /\ refused \in BOOLEAN

ObserverInit ==
  /\ opc = "list"
  /\ left = {}
  /\ current = "nginx"
  /\ seen = {}
  /\ asked = FALSE
  /\ steady = {}
  /\ skipped = {}
  /\ refused = FALSE

-----------------------------------------------------------------------------
(* Detection                                                               *)

\* nginx_bad_state_evidence.
NginxBadState(o) ==
  /\ o.source = "nginx"
  /\ o.restart_count > 0
  /\ IsRestarting(o) \/ (~ IsRunning(o) /\ o.status # "running")

\* detect_app_crash_loop.
AppCrashLoop(o) ==
  /\ o.source = "app"
  /\ IsRestarting(o)
  /\ o.restart_count >= CrashThreshold

Detect(bundle) ==
  {t \in {"NGINX_CONFIG_ERROR", "APP_CRASH_LOOP"} :
     \E o \in bundle : IF t = "APP_CRASH_LOOP" THEN AppCrashLoop(o) ELSE NginxBadState(o)}

\* The faults an inspection would show at this moment.
Visible == Detect({View(c) : c \in Containers})

-----------------------------------------------------------------------------
(* The pass                                                                *)

\* list_labeled_containers lists stopped containers as well.
ListContainers ==
  /\ opc = "list"
  /\ opc' = "inspect"
  /\ left' = Containers
  /\ seen' = {}
  /\ steady' = Visible
  /\ skipped' = {}
  /\ refused' = FALSE
  /\ UNCHANGED <<current, asked>>

ListFails ==
  /\ opc = "list"
  /\ opc' = "lost"
  /\ refused' = TRUE
  /\ UNCHANGED <<left, current, seen, asked, steady, skipped>>

Inspect(c) ==
  /\ opc = "inspect"
  /\ c \in left
  /\ opc' = "logs"
  /\ left' = left \ {c}
  /\ current' = c
  /\ seen' = seen \cup {View(c)}
  /\ UNCHANGED <<asked, recordVars>>

\* Faulty variant: the loop ends where it should go on.
InspectFailsAndStops(c) ==
  /\ opc = "inspect"
  /\ c \in left
  /\ left' = {}
  /\ skipped' = skipped \cup {c}
  /\ UNCHANGED <<opc, current, seen, asked, steady, refused>>

\* Any exception of inspect_container is caught; the container is left out.
InspectFails(c) ==
  /\ opc = "inspect"
  /\ c \in left
  /\ left' = left \ {c}
  /\ skipped' = skipped \cup {c}
  /\ UNCHANGED <<opc, current, seen, asked, steady, refused>>

\* container_logs, read or not: the container's observation is there already,
\* and the rules look at the log for their evidence only.
Logs ==
  /\ opc = "logs"
  /\ opc' = "inspect"
  /\ UNCHANGED <<left, current, seen, asked, recordVars>>

AskHealth ==
  /\ opc = "inspect"
  /\ left = {}
  /\ opc' = "reply"
  /\ asked' = (state["nginx"] = "up")
  /\ UNCHANGED <<left, current, seen, recordVars>>

\* get turns whatever it is answered, or not, into a HealthResult,
HealthAnswers ==
  /\ opc = "reply"
  /\ opc' = "found"
  /\ UNCHANGED <<left, current, seen, asked, recordVars>>

\* but for the exception of a connection that nginx closes while it stops.
HealthRaises ==
  /\ opc = "reply"
  /\ asked
  /\ state["nginx"] # "up"
  /\ opc' = "lost"
  /\ UNCHANGED <<left, current, seen, asked, recordVars>>

\* run_pass takes the candidates, or the exception, and the pass is over.
PassEnds ==
  /\ opc' = "list"
  /\ left' = {}
  /\ current' = "nginx"
  /\ seen' = {}
  /\ asked' = FALSE
  /\ steady' = {}
  /\ skipped' = {}
  /\ refused' = FALSE

ObserverStep ==
  \/ ListContainers \/ ListFails
  \/ \E c \in Containers : Inspect(c) \/ InspectFails(c)
  \/ Logs \/ AskHealth \/ HealthAnswers \/ HealthRaises

\* The rest goes on during a pass.
Meanwhile ==
  /\ SandboxNext
  /\ steady' = steady \cap Visible'
  /\ UNCHANGED <<passVars, skipped, refused>>

-----------------------------------------------------------------------------
(* Properties                                                              *)

ContainerOf(type) == IF type = "APP_CRASH_LOOP" THEN "app" ELSE "nginx"

\* A fault that shows all through a pass is found by it, whatever happens to the
\* other container, to its inspection or to the logs: a pass skips the container
\* it cannot inspect and nothing else.
DetectsSteadyFaults ==
  opc = "found" =>
    \A t \in steady : ContainerOf(t) \notin skipped => t \in Detect(seen)

\* "While the loop skips temporarily faulty containers, prolonged unavailability
\* of the docker-socket-proxy will halt observation entirely" (README.md, line
\* 171): a pass in which Docker answers is not lost.
FaultyContainersAreSkipped == opc = "lost" => refused

-----------------------------------------------------------------------------
(* The inductive invariant of a pass                                       *)

\* A fault that has shown so far shows now, and the pass has found it, or
\* skipped its container, or has yet to come to it.
PassSoFar ==
  /\ opc = "list" => seen = {} /\ steady = {}
  /\ opc \in {"reply", "found"} => left = {}
  /\ steady \subseteq Visible
  /\ \A t \in steady : ContainerOf(t) \in left \cup skipped \/ t \in Detect(seen)

=============================================================================
