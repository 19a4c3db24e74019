CONSTANTS
  s1 = s1
  s2 = s2
  a = a
  b = b
  c = c
  Root = Root
  Framework = {f1}
  Unreserved = Unreserved
  Slave = {s1, s2}
  Role = {a, b}
  Parent <- Flat
  MaxTotal <- TwoAndOne
  Quotas <- SomeQuotas
SPECIFICATION Spec
SYMMETRY Symmetry
INVARIANTS
  RoleTreeIsExact
  ConsumedIsExact
  HeadroomIsThere
  HeadroomIsEnough
PROPERTIES
  DeficitNeverGrows
  LimitsAreKept
