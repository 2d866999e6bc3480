----------------------------- MODULE ConfigTest -----------------------------
(***************************************************************************)
(* The tool nginx_configtest (src/agent/tools/remediation.py): a container *)
(* is created, started, waited for, read and removed through the Docker    *)
(* client (src/agent/observer/docker_socket.py), one HTTP call each.  The  *)
(* client gives up on a call after three seconds; whether the engine has   *)
(* done what was asked, will do it later or never does, it cannot tell.    *)
(*                                                                         *)
(* failed records the calls that raised, for the properties.               *)
(***************************************************************************)
EXTENDS Integers

CONSTANT MaxPolls  \* inspections wait_container makes before its timeout

ASSUME MaxPollsAssumption == MaxPolls \in Nat \ {0}

VARIABLES
  pc,         \* the next call of the tool
  container,  \* the test container, in the engine
  pending,    \* calls the client has given up on and the engine will still do
  candidate,  \* whether nginx accepts the candidate file
  verdict,    \* how the last run of nginx -t ended
  polls,      \* inspections made by wait_container
  exit_code,  \* what wait_container read; 0 until then
  raised,     \* an exception is on its way through the finally clause
  result,     \* how the tool ended
  failed      \* the calls that raised, and how

vars == <<pc, container, pending, candidate, verdict, polls, exit_code, raised, result,
          failed>>

\* What becomes of a call: it is answered; it is refused, or fails before it
\* reaches the engine; it is done but the answer is lost; it is done after the
\* client has given up.
Hows == {"answered", "refused", "lost", "late"}

Calls == {"create", "start", "inspect", "logs", "remove"}

TypeOK ==
  /\ pc \in Calls \cup {"done"}
  /\ container \in {"none", "created", "running", "exited"}
  /\ pending \subseteq {"create", "start", "remove"}
  /\ candidate \in {"good", "bad"}
  /\ verdict \in {"none", "pass", "fail"}
  /\ polls \in 0 .. MaxPolls
  /\ exit_code \in {0, 1}
  /\ raised \in BOOLEAN
  /\ result \in {"none", "ok", "step_failed"}
  /\ failed \subseteq Calls \X Hows

Init ==
  /\ pc = "create"
  /\ container = "none"
  /\ pending = {}
  /\ candidate \in {"good", "bad"}
  /\ verdict = "none"
  /\ polls = 0
  /\ exit_code = 0
  /\ raised = FALSE
  /\ result = "none"
  /\ failed = {}

-----------------------------------------------------------------------------
(* The engine                                                              *)

\* What a call makes of the container; on one that is gone it does nothing.
After(call, c) ==
  CASE call = "create"                 -> "created"
    [] call = "start" /\ c = "created" -> "running"
    [] call = "remove"                 -> "none"
    [] OTHER                           -> c

\* One HTTP call, up to the answer or the exception.
Request(call, how) ==
  /\ container' = IF how \in {"answered", "lost"} THEN After(call, container) ELSE container
  /\ pending' = IF how = "late" /\ call \notin {"inspect", "logs"}
                THEN pending \cup {call} ELSE pending
  /\ failed' = IF how = "answered" THEN failed ELSE failed \cup {<<call, how>>}
  /\ UNCHANGED <<candidate, verdict>>

LateCall ==
  /\ \E call \in pending :
       /\ container' = After(call, container)
       /\ pending' = pending \ {call}
  /\ UNCHANGED <<pc, candidate, verdict, polls, exit_code, raised, result, failed>>

\* nginx -t ends.  It rejects a good candidate too while the host name of the
\* app does not resolve.
NginxEnds ==
  /\ container = "running"
  /\ container' = "exited"
  /\ \E v \in {"pass", "fail"} :
       /\ candidate = "bad" => v = "fail"
       /\ verdict' = v
  /\ UNCHANGED <<pc, pending, candidate, polls, exit_code, raised, result, failed>>

\* Faulty variant: the answer is taken for the end of the test.
NeverRunning == FALSE

\* What an inspection says of the container.  Docker gives an exit code of 0 as
\* long as there is none.
Running == container = "running"

TimedOut == polls + 1 = MaxPolls

ExitCode == IF container = "exited" /\ verdict = "fail" THEN 1 ELSE 0

-----------------------------------------------------------------------------
(* The tool                                                                *)

Goto(next) == pc' = next /\ UNCHANGED <<raised, result>>

\* An exception inside the try block: on to the finally clause.
Raise == pc' = "remove" /\ raised' = TRUE /\ UNCHANGED result

Return(outcome) == pc' = "done" /\ result' = outcome /\ UNCHANGED raised

\* create_container stands before the try block.
Create ==
  /\ pc = "create"
  /\ \E how \in Hows :
       /\ Request("create", how)
       /\ IF how = "answered" THEN Goto("start") ELSE Return("step_failed")
  /\ UNCHANGED <<polls, exit_code>>

\* Faulty variant: start_container stands before the try block too.
StartOutsideTry ==
  /\ pc = "start"
  /\ \E how \in Hows :
       /\ Request("start", how)
       /\ IF how = "answered" THEN Goto("inspect") ELSE Return("step_failed")
  /\ UNCHANGED <<polls, exit_code>>

Start ==
  /\ pc = "start"
  /\ \E how \in Hows :
       /\ Request("start", how)
       /\ IF how = "answered" THEN Goto("inspect") ELSE Raise
  /\ UNCHANGED <<polls, exit_code>>

\* Faulty variant: the wait has no deadline.
InspectForEver ==
  /\ pc = "inspect"
  /\ \E how \in Hows :
       /\ Request("inspect", how)
       /\ IF how # "answered" THEN Raise ELSE Goto(IF container = "running" THEN "inspect" ELSE "logs")
  /\ polls' = (polls + 1) % MaxPolls
  /\ exit_code' = ExitCode

\* wait_container: a container that is not running has ended.
Inspect ==
  /\ pc = "inspect"
  /\ \E how \in Hows :
       /\ Request("inspect", how)
       /\ CASE how # "answered"                          -> Raise
            [] how = "answered" /\ ~ Running             -> Goto("logs")
            [] how = "answered" /\ Running /\ TimedOut   -> Raise
            [] how = "answered" /\ Running /\ ~ TimedOut -> Goto("inspect")
       /\ polls' = IF how = "answered" /\ Running THEN polls + 1 ELSE polls
       /\ exit_code' = IF how = "answered" /\ ~ Running THEN ExitCode ELSE exit_code

\* Faulty variant: the exit code is not looked at.
LogsWithoutCode ==
  /\ pc = "logs"
  /\ \E how \in Hows :
       /\ Request("logs", how)
       /\ IF how = "answered" THEN Goto("remove") ELSE Raise
  /\ UNCHANGED <<polls, exit_code>>

\* The logs are read before the exit code is looked at.
Logs ==
  /\ pc = "logs"
  /\ \E how \in Hows :
       /\ Request("logs", how)
       /\ IF how = "answered" /\ exit_code = 0 THEN Goto("remove") ELSE Raise
  /\ UNCHANGED <<polls, exit_code>>

\* The finally clause: an exception of its own replaces the result.
Remove ==
  /\ pc = "remove"
  /\ \E how \in Hows :
       /\ Request("remove", how)
       /\ Return(IF raised \/ how # "answered" THEN "step_failed" ELSE "ok")
  /\ UNCHANGED <<polls, exit_code>>

Tool == Create \/ Start \/ Inspect \/ Logs \/ Remove

Next == Tool \/ LateCall \/ NginxEnds

Spec == Init /\ [][Next]_vars

\* Every call returns or times out; the engine owes nothing.
FairSpec == Spec /\ WF_vars(Tool)

-----------------------------------------------------------------------------
(* Properties                                                              *)

\* Only a candidate that nginx -t accepted goes on to be installed, and its
\* container is gone by then.
AcceptedWasTested ==
  result = "ok" => candidate = "good" /\ verdict = "pass" /\ container = "none" /\ pending = {}

\* A container outlives its test only when the engine made it without the
\* client getting to know, or refused to remove it; failing at any other call
\* leaves none.
LeakHasCause ==
  pc = "done" /\ pending = {} /\ container # "none" =>
    failed \cap {<<"create", "lost">>, <<"create", "late">>, <<"remove", "refused">>} # {}

\* The tool ends, also when nginx -t hangs.
Ends == <>(pc = "done")

-----------------------------------------------------------------------------
(* The inductive invariant                                                 *)

\* As long as no call has failed the client knows the container, and the last
\* inspection has shown how its test ended.
NothingFailed ==
  ~ raised /\ pc # "done" =>
    /\ failed = {}
    /\ pending = {}
    /\ pc = "create" => container = "none"
    /\ pc = "start" => container = "created"
    /\ pc = "inspect" => container \in {"running", "exited"}
    /\ pc \in {"logs", "remove"} => container = "exited" /\ exit_code = ExitCode
    /\ pc = "remove" => exit_code = 0

\* nginx accepts good candidates only, and a container that has exited has a verdict.
VerdictIsTrue ==
  /\ verdict = "pass" => candidate = "good"
  /\ container = "exited" => verdict # "none"

\* The wait is not over as long as it goes on.
PollsLeft == pc \in {"create", "start", "inspect"} => polls < MaxPolls

\* An exception leads through the finally clause to the end of the tool.
Control ==
  /\ raised => pc \in {"remove", "done"}
  /\ result = "none" <=> pc # "done"

\* A container that nobody removes any more, and one that is still to come, were
\* made behind the client's back.
LeakExplained ==
  /\ "create" \in pending => <<"create", "late">> \in failed
  /\ pc = "done" /\ "remove" \notin pending /\ container # "none" =>
       failed \cap {<<"create", "lost">>, <<"create", "late">>, <<"remove", "refused">>} # {}

ConfigTestInv ==
  /\ TypeOK
  /\ PollsLeft
  /\ NothingFailed
  /\ VerdictIsTrue
  /\ Control
  /\ LeakExplained
  /\ AcceptedWasTested

=============================================================================
