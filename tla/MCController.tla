---------------------------- MODULE MCController ----------------------------
(***************************************************************************)
(* Instances of the controller for TLC: which processes run, and how.      *)
(***************************************************************************)
EXTENDS ControllerProperties, TLC

\* The deployment of docker-compose.yml: every process is the service.
ServiceOnly == [p \in Procs |-> "service"]

CONSTANTS agent, worker

\* The service, and beside it a second worker or one-shot passes, started by hand.
ServiceAndLoop == agent :> "service" @@ worker :> "loop"
ServiceAndOnce == agent :> "service" @@ worker :> "once"

=============================================================================
