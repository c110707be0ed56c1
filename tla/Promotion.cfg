SPECIFICATION Spec
CONSTANTS
  Users = {u1, u2}
  Wordings = {w1, w2}
  NoWording = none
  Grants = {key}
  Secrets = {key}
  GrantSecrets = FALSE
  Footprints = {{key}}
  MinOccurrences = 2
  MinUsers = 2
  Operators = {o1}
  Passes = {p1, p2}
  MaxPrompts = 3
  MaxDetections = 2
SYMMETRY Symmetry
INVARIANTS TypeOK RestsOnEvidence OneContractPerCandidate
PROPERTIES DecisionsStand
CHECK_DEADLOCK FALSE
