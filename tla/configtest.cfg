SPECIFICATION FairSpec
CONSTANT MaxPolls = 3
INVARIANTS
  ConfigTestInv
  AcceptedWasTested
  LeakHasCause
PROPERTY
  Ends
CHECK_DEADLOCK FALSE
