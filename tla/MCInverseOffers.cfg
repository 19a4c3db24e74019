SPECIFICATION Spec
CONSTANTS
  Framework = {f1}
  Slave = {s1}
  MaxVersion = 3
  MaxFilters = 2
  MaxMailbox = 2
INVARIANTS OneInverseOffer FrameworksReassess
PROPERTIES AskedAgain
