SPECIFICATION Spec
CONSTANTS
  agent = agent
  worker = worker
  Procs = {agent, worker}
  Mode <- ServiceAndOnce
  Types = {"APP_CRASH_LOOP", "NGINX_CONFIG_ERROR"}
  MaxIncidents = 2
  NoIncident = NoIncident
  MAX_ATTEMPTS = 1
  Faults = {}
  MaxFaults = 0
INVARIANTS
  TypeOK
  UniqueActive
  ErrorExplainsStatus
  NoOrphanWithoutFault
PROPERTY
  SettledStaysSettled
