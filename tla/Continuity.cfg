\* Three turns; three attempts for a text; four failures; a cache of four of seven texts.
SPECIFICATION Spec
CONSTANTS
  Turns = {t1, t2, t3}
  trim = trim brief = brief close = close named = named
  c1 = c1 c2 = c2 q1 = q1
  Texts = {trim, brief, close, named}
  NoText = NoText
  Corrections = {c1, c2}
  Requests = {q1}
  Traits <- MCTraits
  Near <- MCNear
  Margin = 3
  Attempts = 3
  CacheLimit = 4
  MaxFailures = 4
SYMMETRY Symmetry
INVARIANTS TypeOK VerdictsAreEarned OutageIsForgotten
CHECK_DEADLOCK FALSE
