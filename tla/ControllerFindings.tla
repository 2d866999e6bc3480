------------------------- MODULE ControllerFindings -------------------------
(***************************************************************************)
(* What documents of the repository say of the controller and its code     *)
(* does not do.  TLC refutes each of these; README.md explains the         *)
(* counterexamples.                                                        *)
(***************************************************************************)
EXTENDS MCController

\* README.md:158: "On startup, any incident left in the IN_PROGRESS state due to
\* a shutdown is transitioned".  Recovery takes nothing away from a worker that
\* is alive; in the service the API's lifespan does, since the worker thread is
\* already running.
RecoversOnlyLeftovers ==
  [][\A i \in Ids :
       HasStatus(i, {"IN_PROGRESS"}) /\ incidents'[i].status = "NEEDS_HUMAN" =>
         \A p \in Procs : ~ ExecutedBy(i, p)]_vars

\* state_machine.py:60-61: the actionable statuses are the "statuses the worker
\* loop should actively process", IN_PROGRESS among them.  The loop passes over
\* an incident a store error has left IN_PROGRESS, for as long as it runs.
InProgressIsProcessed ==
  \A i \in Ids : HasStatus(i, {"IN_PROGRESS"}) ~> (~ HasStatus(i, {"IN_PROGRESS"}) \/ NoWorker)

=============================================================================
