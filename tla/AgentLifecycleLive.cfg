SPECIFICATION FairSpec
CONSTANTS
  Agents = {a1, a2}
  Users = {u1}
  Turns = {t1, t2}
  Calls = {c1}
  NoTurn = NoTurn
  NoAgent = NoAgent
  NoUser = NoUser
  MaxCrashes = 0
  MaxFaults = 0
PROPERTIES
  NothingHangs
CHECK_DEADLOCK FALSE
