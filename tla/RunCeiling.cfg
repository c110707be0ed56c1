SPECIFICATION Spec
CONSTANTS
  Domains = {d1}
  Limits = {1}
  Users = {u1}
  MinUsers = 1
  Turns = {t1, t2}
  Operators = {}
  Pass = pass
  MaxVersions = 1
PROPERTIES RunCeiling
CHECK_DEADLOCK FALSE
