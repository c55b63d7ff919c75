SPECIFICATION Spec
CONSTANTS
  Thread <- MCThread
  CallsOf <- MCLiveCallsOf
  MaxLinks = 2
  MaxPages = 0
  MaxRetry = 0
CHECK_DEADLOCK FALSE
PROPERTIES
  Answered
  MutexReleased
