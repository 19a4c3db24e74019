CONSTANTS
  f1 = f1
  f2 = f2
  r1 = r1
  r2 = r2
  s1 = s1
  s2 = s2
  Framework = {f1, f2}
  Role = {r1, r2}
  Slave = {s1}
  MaxTotal <- OneUnit
SPECIFICATION Spec
SYMMETRY Symmetry
INVARIANTS
  TypeOK
  RolesConsistent
  SubscribedIsTracked
  ActiveClientWantsOffers
  WantedRoleIsActive
  RoleSorterSumsClients
PROPERTY UpdateSetsSuppressed
