CONSTANTS
  s1 = s1
  Slave = {s1}
  MaxTotal = 2
  MaxPool = 6
SPECIFICATION Spec
INVARIANTS
  UntouchedAgentIsCovered
  RatioIsShare
  RatioCountsAllocation
\* The system stops at MaxPool, and where a CHECK ends the program.
CHECK_DEADLOCK FALSE
