SPECIFICATION Spec
CONSTANTS
  agent = agent
  worker = worker
  Procs = {agent, worker}
  Mode <- ServiceAndLoop
  Types = {"APP_CRASH_LOOP"}
  MaxIncidents = 1
  NoIncident = NoIncident
  MAX_ATTEMPTS = 2
  Faults = {}
  MaxFaults = 0
INVARIANTS
  ExclusiveExecution
  IInv
PROPERTIES
  EndedByClaimant
  RetriesWait
  ImplementsLifecycle
