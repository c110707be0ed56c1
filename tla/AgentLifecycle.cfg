SPECIFICATION Spec
CONSTANTS
  Agents = {a1}
  Users = {u1, u2}
  Turns = {t1, t2, t3}
  Calls = {c1}
  NoTurn = NoTurn
  NoAgent = NoAgent
  NoUser = NoUser
  MaxCrashes = 1
  MaxFaults = 1
INVARIANTS
  TypeOK
  RunsKeptApart
  StoreTellsTruth
  UnsettledIsTracked
  StopsReachTheirRuns
PROPERTIES
  OutcomesAreFinal
SYMMETRY Symmetry
CHECK_DEADLOCK FALSE
