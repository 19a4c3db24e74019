CONSTANTS
  s1 = s1
  Slave = {s1}
  MaxTotal = 2
  MaxPool = 4
SPECIFICATION Spec
INVARIANT BooksCoverAgents
\* The system stops at MaxPool, and where a CHECK ends the program.
CHECK_DEADLOCK FALSE
