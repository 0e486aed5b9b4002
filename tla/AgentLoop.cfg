SPECIFICATION FairLoopSpec
CONSTANTS
  a = a  b = b
  Runs = {a, b}  Streaming = {b}  MaxErrors = 0  Scenarios <- All
INVARIANTS RequestRepaired OwnCallsAnswered QueuedReadOnce
PROPERTY EveryRunEnds
CHECK_DEADLOCK FALSE
