CONSTANTS
  s1 = s1
  s2 = s2
  Slave = {s1, s2}
  MaxExpected = 2
  MaxMailbox = 2
SPECIFICATION Spec
INVARIANTS
  OneRunOnItsWay
  LoopWaitsForRun
  PausedWhileTooFew
PROPERTIES
  NoRunWhileRecovering
  EventuallyResumes
  AgentsAreConsidered
  CandidatesAreServed
