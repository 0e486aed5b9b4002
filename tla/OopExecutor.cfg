SPECIFICATION FairOopSpec
CONSTANTS
  MaxExecutions = 2  Hosts <- AllSandboxes
  Request = 2  Response = 2  MaxMishaps = 1
INVARIANTS OwnWork
PROPERTY EndsOrHeldUp
CHECK_DEADLOCK FALSE
