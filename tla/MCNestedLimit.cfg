CONSTANTS
  s1 = s1
  s2 = s2
  a = a
  b = b
  c = c
  Root = Root
  Framework = {f1}
  Unreserved = Unreserved
  Slave = {s1, s2}
  Role = {a, c}
  Parent <- Nested
  MaxTotal <- OneUnit
  Quotas <- SomeQuotas
SPECIFICATION Spec
PROPERTY LimitsAreKept
