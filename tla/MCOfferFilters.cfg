SPECIFICATION Spec
CONSTANTS
  Framework = {f1}
  Role = {r1}
  Slave = {s1}
  Amount = 2
  AllocationInterval = 2
  DefaultRefuse = 1
  MaxRefuse = 3
  RefuseSeconds <- MCRefuseSeconds
  MaxRefusals = 2
  None = None
  MaxMailbox = 2
PROPERTIES OutlivesNextRun RefusalIsHonoured FiltersGo
