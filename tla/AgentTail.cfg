SPECIFICATION FairLoopSpec
CONSTANTS
  a = a  b = b
  Runs = {a, b}  Streaming = {b}  MaxErrors = 0  Scenarios <- Second
PROPERTY TailKept
CHECK_DEADLOCK FALSE
