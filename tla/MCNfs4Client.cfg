SPECIFICATION Spec
CONSTANTS
  Thread <- MCThread
  CallsOf <- MCCallsOf
  MaxLinks = 2
  MaxPages = 2
  MaxRetry = 2
CHECK_DEADLOCK FALSE
INVARIANTS
  ExactlyOneAnswer
  ResourcesReturned
  FrameLive
  CompoundsRight
  OpenLedger
