SPECIFICATION FairSpec
CONSTANTS
  agent = agent
  worker = worker
  Procs = {agent}
  Mode <- ServiceOnly
  Types = {"APP_CRASH_LOOP"}
  MaxIncidents = 1
  NoIncident = NoIncident
  MAX_ATTEMPTS = 3
  Faults = {"crash", "store", "shutdown"}
  MaxFaults = 2
INVARIANTS
  AttemptBudget
  NoDanglingAction
  ResolvedTrail
  ExecutesCurrentPlan
PROPERTIES
  ImplementsLifecycle
  Settles
\* A worker thread that dies at boot leaves the service with nothing to do.
CHECK_DEADLOCK FALSE
