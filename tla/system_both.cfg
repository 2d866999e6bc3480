SPECIFICATION SystemSpec
CONSTANTS
  Procs = {a}
  NoIncident = NoIncident
  Mode <- LoopOnly
  Types <- BothTypes
  MaxIncidents = 3
  MAX_ATTEMPTS = 2
  Faults = {}
  MaxFaults = 0
  MaxInjections <- OneOfEach
  CrashThreshold = 2
  MaxToolFaults = 0
INVARIANTS
  OneIncidentPerInjection
  DetectsSteadyFaults
  FaultsAbsorbed
