SPECIFICATION FairSystemSpec
CONSTANTS
  Procs = {a}
  NoIncident = NoIncident
  Mode <- LoopOnly
  Types <- BothTypes
  MaxIncidents = 1
  MAX_ATTEMPTS = 2
  Faults = {}
  MaxFaults = 0
  MaxInjections <- NginxOnce
  CrashThreshold = 1
  MaxToolFaults = 1
PROPERTY
  FoundIsHandled
