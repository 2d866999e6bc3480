------------------------------ MODULE MCSystem ------------------------------
(***************************************************************************)
(* Instances of the controller in its sandbox for TLC.                     *)
(***************************************************************************)
EXTENDS System, TLC

\* The worker alone, without the API and its start-up recovery.
LoopOnly == [p \in Procs |-> "loop"]

BothTypes == Registered

OneOfEach == [c \in Containers |-> 1]
NginxTwice == "nginx" :> 2 @@ "app" :> 0
NginxOnce == "nginx" :> 1 @@ "app" :> 0

\* Of two runs of a script, a tool that fails and a crash, any three.
Troubles == injected["nginx"] + injected["app"] + toolFaults + faults
ThreeTroubles == SystemInit /\ [][SystemNext /\ Troubles' <= 3]_systemVars

=============================================================================
