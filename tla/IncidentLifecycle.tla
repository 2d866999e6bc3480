------------------------- MODULE IncidentLifecycle -------------------------
(***************************************************************************)
(* What the controller promises of an incident, whoever works on it: it is *)
(* opened when nothing else is open for its type, planned, attempted at    *)
(* most MAX_ATTEMPTS times, and ends RESOLVED or NEEDS_HUMAN.  This is the *)
(* life cycle of README.md (lines 141-158) with the attempt budget the     *)
(* orchestrator adds.  There is no worker, queue, version, plan or action  *)
(* here: RemediationController is shown to implement it.                   *)
(***************************************************************************)
EXTENDS Integers

CONSTANTS Types, Ids, MAX_ATTEMPTS, NoIncident

VARIABLE life  \* per incident: its type, its status, the attempts it has cost

Open(t) == [type |-> t, status |-> "OPEN", attempts |-> 0]

Is(i, status) == life[i] # NoIncident /\ life[i].status = status

\* An incident that is not RESOLVED keeps its type taken.
Taken(t) ==
  \E i \in Ids : life[i] # NoIncident /\ life[i].type = t /\ life[i].status # "RESOLVED"

Init == life = [i \in Ids |-> NoIncident]

\* The entry of i with another status, and maybe one attempt more.
Moved(i, status, n) ==
  [type |-> life[i].type, status |-> status, attempts |-> life[i].attempts + n]

Move(i, status) == life' = [life EXCEPT ![i] = Moved(i, status, 0)]

\* One pass opens incidents for any number of types that have none.
Detect ==
  \E opened \in SUBSET {i \in Ids : life[i] = NoIncident} :
    \E type \in [opened -> {t \in Types : ~ Taken(t)}] :
      /\ \A i, j \in opened : type[i] = type[j] => i = j
      /\ life' = [i \in Ids |-> IF i \in opened THEN Open(type[i]) ELSE life[i]]

Plan(i) == Is(i, "OPEN") /\ life[i].attempts < MAX_ATTEMPTS /\ Move(i, "PLANNED")

\* An execution costs an attempt when it begins, not when it ends.
Attempt(i) ==
  /\ Is(i, "PLANNED")
  /\ life[i].attempts < MAX_ATTEMPTS
  /\ life' = [life EXCEPT ![i] = Moved(i, "IN_PROGRESS", 1)]

Resolve(i) == Is(i, "IN_PROGRESS") /\ Move(i, "RESOLVED")

Fail(i) == Is(i, "IN_PROGRESS") /\ Move(i, "FAILED")

Retry(i) == Is(i, "FAILED") /\ life[i].attempts < MAX_ATTEMPTS /\ Move(i, "OPEN")

\* Out of attempts, or no planner knows the type.
GiveUp(i) ==
  /\ \/ Is(i, "FAILED") /\ life[i].attempts >= MAX_ATTEMPTS
     \/ Is(i, "OPEN")
  /\ Move(i, "NEEDS_HUMAN")

\* A start of any process hands every execution in progress to a human.
Restart ==
  life' = [i \in Ids |-> IF Is(i, "IN_PROGRESS")
                         THEN Moved(i, "NEEDS_HUMAN", 0)
                         ELSE life[i]]

Next ==
  \/ Detect
  \/ Restart
  \/ \E i \in Ids : \/ Plan(i) \/ Attempt(i) \/ Resolve(i) \/ Fail(i)
                    \/ Retry(i) \/ GiveUp(i)

Spec == Init /\ [][Next]_life

=============================================================================
