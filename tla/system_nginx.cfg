SPECIFICATION ThreeTroubles
CONSTANTS
  Procs = {a}
  NoIncident = NoIncident
  Mode <- LoopOnly
  Types <- BothTypes
  MaxIncidents = 2
  MAX_ATTEMPTS = 3
  Faults = {"crash"}
  MaxFaults = 1
  MaxInjections <- NginxTwice
  CrashThreshold = 1
  MaxToolFaults = 1
INVARIANTS
  AbsorbInv
  FaultsAbsorbed
PROPERTY
  ResolvedIsRepaired
