SPECIFICATION FairSpec
CONSTANTS
  agent = agent
  worker = worker
  Procs = {agent}
  Mode <- ServiceOnly
  Types = {"APP_CRASH_LOOP"}
  MaxIncidents = 1
  NoIncident = NoIncident
  MAX_ATTEMPTS = 2
  Faults = {"store"}
  MaxFaults = 1
PROPERTY
  InProgressIsProcessed
\* A worker thread that dies at boot leaves the service with nothing to do.
CHECK_DEADLOCK FALSE
