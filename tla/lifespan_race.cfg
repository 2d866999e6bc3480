SPECIFICATION Spec
CONSTANTS
  agent = agent
  worker = worker
  Procs = {agent}
  Mode <- ServiceOnly
  Types = {"APP_CRASH_LOOP"}
  MaxIncidents = 1
  NoIncident = NoIncident
  MAX_ATTEMPTS = 2
  Faults = {}
  MaxFaults = 0
PROPERTY
  RecoversOnlyLeftovers
