\* Three contracts, two specialists, two principals; two answers,
\* two changes by operators.
SPECIFICATION Spec
CONSTANTS
  general = general s1 = s1 s2 = s2
  k1 = k1 k2 = k2 k3 = k3
  e1 = e1 e2 = e2 e3 = e3 e4 = e4
  Users = {u1, u2}
  Agents = {general, s1, s2}
  Conversations = {general, s1}
  Contracts = {k1, k2, k3}
  NoContract = NoContract
  NoAgent = NoAgent
  Stored <- MCStored
  OwnerOf <- MCOwnerOf
  Exemplars <- MCExemplars
  Prompts <- MCPrompts
  NearScore = 1
  Line = 2
  TieMargin = 2
  MaxAnswers = 2
  MaxChanges = 2
SYMMETRY Symmetry
INVARIANTS TypeOK RoutedWhenClear SpecialistIsBound
