SPECIFICATION FairSpec
CONSTANTS
  Window = 2
  MaxWait = 9
  PollInterval = 1
  RequestMax = 1
  Delay = 1
PROPERTY
  Ends
INVARIANTS
  VerificationInv
  VerifiedWindow
  FailureHasCause
  EndsInTime
CHECK_DEADLOCK FALSE
