-------------------------- MODULE ConfigTestProofs --------------------------
(***************************************************************************)
(* Theorems about ConfigTest, for any number of inspections: which         *)
(* candidates nginx_configtest lets through, and what it leaves behind,    *)
(* whatever becomes of its Docker calls.                                   *)
(***************************************************************************)
EXTENDS ConfigTest, TLAPS

USE MaxPollsAssumption

\* What one Docker call may do to the container, to the calls still owed and to
\* the record of failures.
LEMMA RequestEffect ==
  ASSUME TypeOK, NEW call \in Calls, NEW how \in Hows, Request(call, how)
  PROVE  /\ container' \in {container, After(call, container)}
         /\ how \in {"answered", "lost"} => container' = After(call, container)
         /\ how \in {"refused", "late"} => container' = container
         /\ pending' \in {pending, pending \cup {call}}
         /\ call \in {"inspect", "logs"} \/ how # "late" => pending' = pending
         /\ how = "late" /\ call \notin {"inspect", "logs"} => pending' = pending \cup {call}
         /\ how = "answered" => failed' = failed
         /\ how # "answered" => failed' = failed \cup {<<call, how>>}
         /\ candidate' = candidate /\ verdict' = verdict
         /\ container' \in {"none", "created", "running", "exited"}
         /\ pending' \subseteq {"create", "start", "remove"}
         /\ failed' \subseteq Calls \X Hows
BY DEF TypeOK, Request, After, Calls, Hows

\* Every step keeps the types, as the wait ends at its last inspection.
LEMMA TypePreserved ==
  ASSUME TypeOK, PollsLeft, [Next]_vars
  PROVE  TypeOK' /\ PollsLeft'
<1> USE DEF TypeOK, PollsLeft, Goto, Raise, Return, Calls
<1>1. CASE Create
  BY <1>1, RequestEffect DEF Create
<1>2. CASE Start
  BY <1>2, RequestEffect DEF Start
<1>3. CASE Inspect
  <2>1. PICK how \in Hows :
          /\ Request("inspect", how)
          /\ CASE how # "answered"                          -> Raise
               [] how = "answered" /\ ~ Running             -> Goto("logs")
               [] how = "answered" /\ Running /\ TimedOut   -> Raise
               [] how = "answered" /\ Running /\ ~ TimedOut -> Goto("inspect")
          /\ polls' = IF how = "answered" /\ Running THEN polls + 1 ELSE polls
          /\ exit_code' = IF how = "answered" /\ ~ Running THEN ExitCode ELSE exit_code
    BY <1>3 DEF Inspect
  <2>2. polls \in 0 .. MaxPolls - 1 /\ pc = "inspect"
    BY <1>3 DEF Inspect
  <2>3. /\ container' \in {"none", "created", "running", "exited"}
        /\ pending' \subseteq {"create", "start", "remove"}
        /\ failed' \subseteq Calls \X Hows
        /\ candidate' = candidate /\ verdict' = verdict
    BY <2>1, RequestEffect
  <2>4. polls' \in 0 .. MaxPolls
    BY <2>1, <2>2
  <2>5. /\ pc' \in {"inspect", "logs", "remove"}
        /\ raised' \in BOOLEAN /\ result' = result
        /\ pc' = "inspect" => how = "answered" /\ Running /\ ~ TimedOut
    BY <2>1
  <2>6. pc' = "inspect" => polls' < MaxPolls
    BY <2>1, <2>2, <2>5 DEF TimedOut
  <2>7. exit_code' \in {0, 1}
    BY <2>1 DEF ExitCode
  <2>8. QED
    BY <2>3, <2>4, <2>5, <2>6, <2>7
<1>4. CASE Logs
  BY <1>4, RequestEffect DEF Logs
<1>5. CASE Remove
  BY <1>5, RequestEffect DEF Remove
<1>6. CASE LateCall
  BY <1>6 DEF LateCall, After
<1>7. CASE NginxEnds
  BY <1>7 DEF NginxEnds
<1>8. CASE UNCHANGED vars
  BY <1>8 DEF vars
<1>9. QED
  BY <1>1, <1>2, <1>3, <1>4, <1>5, <1>6, <1>7, <1>8 DEF Next, Tool

\* A verdict comes with the end of nginx -t, and is true.
LEMMA VerdictPreserved ==
  ASSUME TypeOK, VerdictIsTrue, [Next]_vars
  PROVE  VerdictIsTrue'
<1>1. CASE UNCHANGED <<verdict, candidate>> /\ (container' = "exited" => container = "exited")
  BY <1>1 DEF VerdictIsTrue
<1>2. CASE NginxEnds
  BY <1>2 DEF NginxEnds, VerdictIsTrue, TypeOK
<1>3. CASE LateCall
  <2>1. container' = "exited" => container = "exited"
    BY <1>3 DEF LateCall, After
  <2>2. QED
    BY <1>1, <1>3, <2>1 DEF LateCall
<1>4. CASE Tool
  <2>1. PICK call \in Calls, how \in Hows : Request(call, how)
    BY <1>4 DEF Tool, Create, Start, Inspect, Logs, Remove, Calls
  <2>2. UNCHANGED <<verdict, candidate>> /\ container' \in {container, After(call, container)}
    BY <2>1, RequestEffect
  <2>3. container' = "exited" => container = "exited"
    BY <2>2 DEF After
  <2>4. QED
    BY <1>1, <2>2, <2>3
<1>5. CASE UNCHANGED vars
  BY <1>1, <1>5 DEF vars
<1>6. QED
  BY <1>2, <1>3, <1>4, <1>5 DEF Next

\* An exception leads to the end, and only the end is a result.
LEMMA ControlPreserved ==
  ASSUME TypeOK, Control, [Next]_vars
  PROVE  Control'
<1> USE DEF Control, Goto, Raise, Return
<1>1. CASE Create
  BY <1>1 DEF Create, TypeOK
<1>2. CASE Start
  BY <1>2 DEF Start
<1>3. CASE Inspect
  BY <1>3 DEF Inspect
<1>4. CASE Logs
  BY <1>4 DEF Logs
<1>5. CASE Remove
  BY <1>5 DEF Remove
<1>6. CASE LateCall \/ NginxEnds \/ UNCHANGED vars
  BY <1>6 DEF LateCall, NginxEnds, vars
<1>7. QED
  BY <1>1, <1>2, <1>3, <1>4, <1>5, <1>6 DEF Next, Tool

\* As long as every call is answered the client knows what it deals with.
LEMMA NothingFailedPreserved ==
  ASSUME TypeOK, NothingFailed, VerdictIsTrue, Control, [Next]_vars
  PROVE  NothingFailed'
<1> SUFFICES ASSUME ~ raised', pc' # "done"
             PROVE  /\ failed' = {}
                    /\ pending' = {}
                    /\ pc' = "create" => container' = "none"
                    /\ pc' = "start" => container' = "created"
                    /\ pc' = "inspect" => container' \in {"running", "exited"}
                    /\ pc' \in {"logs", "remove"} => container' = "exited" /\ exit_code' = ExitCode'
                    /\ pc' = "remove" => exit_code' = 0
  BY DEF NothingFailed
<1> USE DEF Goto, Raise, Return, Calls, Hows
<1>1. CASE Create
  <2>1. Request("create", "answered") /\ pc' = "start"
    BY <1>1 DEF Create
  <2>2. container' = "created" /\ failed' = failed /\ pending' = pending
    BY <2>1, RequestEffect DEF After
  <2>3. QED
    BY <1>1, <2>1, <2>2 DEF Create, NothingFailed, Control
<1>2. CASE Start
  <2>1. Request("start", "answered") /\ pc' = "inspect" /\ ~ raised /\ pc = "start"
    BY <1>2 DEF Start
  <2>2. container' = After("start", container) /\ failed' = failed /\ pending' = pending
    BY <2>1, RequestEffect
  <2>3. container = "created" /\ failed = {} /\ pending = {}
    BY <2>1 DEF NothingFailed
  <2>4. QED
    BY <2>1, <2>2, <2>3 DEF After
<1>3. CASE Inspect
  <2>1. /\ Request("inspect", "answered") /\ ~ raised /\ pc = "inspect"
        /\ pc' \in {"inspect", "logs"}
        /\ pc' = "inspect" => Running
        /\ pc' = "logs" => ~ Running /\ exit_code' = ExitCode
    BY <1>3 DEF Inspect
  <2>2. container' = container /\ failed' = failed /\ pending' = pending /\ verdict' = verdict
    BY <2>1, RequestEffect DEF After
  <2>3. container \in {"running", "exited"} /\ failed = {} /\ pending = {}
    BY <2>1 DEF NothingFailed
  <2>4. QED
    BY <2>1, <2>2, <2>3 DEF Running, ExitCode
<1>4. CASE Logs
  <2>1. /\ Request("logs", "answered") /\ ~ raised /\ pc = "logs" /\ pc' = "remove"
        /\ exit_code = 0 /\ exit_code' = exit_code
    BY <1>4 DEF Logs
  <2>2. container' = container /\ failed' = failed /\ pending' = pending /\ verdict' = verdict
    BY <2>1, RequestEffect DEF After
  <2>3. QED
    BY <2>1, <2>2 DEF NothingFailed, ExitCode
<1>5. CASE Remove
  BY <1>5 DEF Remove
<1>6. CASE LateCall
  BY <1>6 DEF LateCall, NothingFailed
<1>7. CASE NginxEnds
  BY <1>7 DEF NginxEnds, NothingFailed
<1>8. CASE UNCHANGED vars
  BY <1>8 DEF vars, NothingFailed, ExitCode
<1>9. QED
  BY <1>1, <1>2, <1>3, <1>4, <1>5, <1>6, <1>7, <1>8 DEF Next, Tool

\* A candidate that gets through has passed, and leaves nothing behind.
LEMMA AcceptedPreserved ==
  ASSUME TypeOK, NothingFailed, VerdictIsTrue, Control, AcceptedWasTested, [Next]_vars
  PROVE  AcceptedWasTested'
<1>1. CASE Create \/ Start \/ Inspect \/ Logs
  <2>1. result' # "ok"
    BY <1>1 DEF Create, Start, Inspect, Logs, Goto, Raise, Return, Control
  <2>2. QED
    BY <2>1 DEF AcceptedWasTested
<1>2. CASE Remove
  <2> SUFFICES ASSUME result' = "ok"
               PROVE  AcceptedWasTested'
    BY DEF AcceptedWasTested
  <2>1. Request("remove", "answered") /\ ~ raised /\ pc = "remove"
    BY <1>2 DEF Remove, Return
  <2>2. /\ container' = "none" /\ pending' = pending
        /\ candidate' = candidate /\ verdict' = verdict
    BY <2>1, RequestEffect DEF After, Calls, Hows
  <2>3. container = "exited" /\ exit_code = 0 /\ exit_code = ExitCode /\ pending = {}
    BY <2>1 DEF NothingFailed
  <2>4. verdict = "pass" /\ candidate = "good"
    BY <2>3 DEF VerdictIsTrue, ExitCode, TypeOK
  <2>5. QED
    BY <2>2, <2>3, <2>4 DEF AcceptedWasTested
<1>3. CASE LateCall
  BY <1>3 DEF LateCall, AcceptedWasTested
<1>4. CASE NginxEnds
  BY <1>4 DEF NginxEnds, AcceptedWasTested
<1>5. CASE UNCHANGED vars
  BY <1>5 DEF vars, AcceptedWasTested
<1>6. QED
  BY <1>1, <1>2, <1>3, <1>4, <1>5 DEF Next, Tool

\* Nothing makes a container any more that the client does not know of, but for
\* a create that it has given up on.
LEMMA LeakPreserved ==
  ASSUME TypeOK, NothingFailed, Control, LeakExplained, [Next]_vars
  PROVE  LeakExplained'
<1> DEFINE causes == {<<"create", "lost">>, <<"create", "late">>, <<"remove", "refused">>}
<1> USE DEF Goto, Raise, Return, Calls, Hows
<1>1. CASE Create
  <2>1. PICK how \in Hows : /\ Request("create", how)
                            /\ IF how = "answered" THEN Goto("start") ELSE Return("step_failed")
    BY <1>1 DEF Create
  <2>2. pc = "create" /\ container = "none" /\ pending = {} /\ failed = {}
    BY <1>1 DEF Create, NothingFailed, Control
  <2>3. CASE how = "answered"
    BY <2>1, <2>2, <2>3, RequestEffect DEF LeakExplained
  <2>4. CASE how \in {"lost", "late"}
    BY <2>1, <2>2, <2>4, RequestEffect DEF LeakExplained
  <2>5. CASE how = "refused"
    BY <2>1, <2>2, <2>5, RequestEffect DEF LeakExplained
  <2>6. QED
    BY <2>3, <2>4, <2>5
<1>2. CASE Start \/ Inspect \/ Logs
  <2>1. PICK call \in {"start", "inspect", "logs"}, how \in Hows : Request(call, how)
    BY <1>2 DEF Start, Inspect, Logs
  <2>2. /\ "create" \in pending' => "create" \in pending
        /\ failed \subseteq failed'
    BY <2>1, RequestEffect
  <2>3. pc' # "done"
    BY <1>2 DEF Start, Inspect, Logs
  <2>4. QED
    BY <2>2, <2>3 DEF LeakExplained
<1>3. CASE Remove
  <2>1. PICK how \in Hows : Request("remove", how)
    BY <1>3 DEF Remove
  <2>2. ("create" \in pending' => "create" \in pending) /\ failed \subseteq failed'
    BY <2>1, RequestEffect
  <2>3. CASE how \in {"answered", "lost"}
    BY <2>1, <2>2, <2>3, RequestEffect DEF LeakExplained, After
  <2>4. CASE how = "refused"
    <3>1. <<"remove", "refused">> \in failed'
      BY <2>1, <2>4, RequestEffect
    <3>2. QED
      BY <2>2, <3>1 DEF LeakExplained
  <2>5. CASE how = "late"
    BY <2>1, <2>2, <2>5, RequestEffect DEF LeakExplained
  <2>6. QED
    BY <2>3, <2>4, <2>5
<1>4. CASE LateCall
  <2>1. PICK call \in pending : container' = After(call, container) /\ pending' = pending \ {call}
    BY <1>4 DEF LateCall
  <2>2. call \in {"create", "start", "remove"} /\ pc' = pc /\ failed' = failed
    BY <1>4, <2>1 DEF LateCall, TypeOK
  <2>3. CASE call = "create"
    <3>1. <<"create", "late">> \in failed
      BY <2>1, <2>3 DEF LeakExplained
    <3>2. QED
      BY <2>2, <3>1 DEF LeakExplained
  <2>4. CASE call = "start"
    BY <2>1, <2>2, <2>4 DEF LeakExplained, After
  <2>5. CASE call = "remove"
    BY <2>1, <2>2, <2>5 DEF LeakExplained, After
  <2>6. QED
    BY <2>2, <2>3, <2>4, <2>5
<1>5. CASE NginxEnds
  BY <1>5 DEF NginxEnds, LeakExplained
<1>6. CASE UNCHANGED vars
  BY <1>6 DEF vars, LeakExplained
<1>7. QED
  BY <1>1, <1>2, <1>3, <1>4, <1>5, <1>6 DEF Next, Tool

\* ConfigTestInv is an invariant of nginx_configtest.
THEOREM ConfigTestInvariance == Spec => []ConfigTestInv
<1>1. ASSUME Init
      PROVE  ConfigTestInv
  <2>1. TypeOK /\ PollsLeft
    <3>1. polls \in 0 .. MaxPolls /\ polls < MaxPolls
      BY <1>1 DEF Init
    <3>2. QED
      BY <1>1, <3>1 DEF Init, TypeOK, PollsLeft, Calls
  <2>2. NothingFailed /\ VerdictIsTrue /\ Control
    BY <1>1 DEF Init, NothingFailed, VerdictIsTrue, Control
  <2>3. LeakExplained /\ AcceptedWasTested
    BY <1>1 DEF Init, LeakExplained, AcceptedWasTested
  <2>4. QED
    BY <2>1, <2>2, <2>3 DEF ConfigTestInv
<1>2. ASSUME ConfigTestInv, [Next]_vars
      PROVE  ConfigTestInv'
  BY <1>2, TypePreserved, NothingFailedPreserved, VerdictPreserved, ControlPreserved,
     LeakPreserved, AcceptedPreserved DEF ConfigTestInv
<1>3. QED
  BY <1>1, <1>2, PTL DEF Spec

\* What nginx_configtest lets through nginx has accepted, and the test container
\* is gone, however the Docker calls before ended.
THEOREM AcceptedWasTestedAlways == Spec => []AcceptedWasTested
<1>1. ConfigTestInv => AcceptedWasTested
  BY DEF ConfigTestInv
<1>2. QED
  BY <1>1, ConfigTestInvariance, PTL

\* A test container is left behind only by a create whose answer was lost or
\* late, or by a removal that was refused.
THEOREM LeakHasCauseAlways == Spec => []LeakHasCause
<1>1. ConfigTestInv => LeakHasCause
  BY DEF ConfigTestInv, LeakExplained, LeakHasCause
<1>2. QED
  BY <1>1, ConfigTestInvariance, PTL

=============================================================================
