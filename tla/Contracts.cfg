SPECIFICATION Spec
CONSTANTS
  Domains = {d1}
  Limits = {1, 2}
  Users = {u1}
  MinUsers = 1
  Turns = {t1, t2}
  Operators = {o1, o2}
  Pass = pass
  MaxVersions = 3
SYMMETRY Symmetry
INVARIANTS TypeOK WideningNeedsDenial SpentStaysSpent GovernedUnlessDeleted VersionsInStep
CHECK_DEADLOCK FALSE
