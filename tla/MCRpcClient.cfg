SPECIFICATION Spec
CONSTANTS
  t1 = t1
  t2 = t2
  c1 = c1
  c2 = c2
  c3 = c3
  Null = Null
  Client <- MCClient
  Thread <- MCThread
  Retries = 1
ACTION_CONSTRAINT MCBound
CHECK_DEADLOCK FALSE
INVARIANTS
  MisuseExplained
  ClientsKept
  ExecsBounded
PROPERTIES
  CallReturns
