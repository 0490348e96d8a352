CONSTANTS
  k1 = k1
  k2 = k2
  e1 = e1
  e2 = e2
  e3 = e3
  NoFact = NoFact
  Keys <- MCKeys
  Points <- MCPoints
  MaxIds = 2
  MaxMerges = 1
  Page = 3
  Top = 2
SYMMETRY MCSymmetry
SPECIFICATION Spec
INVARIANTS TypeOK KeepsATwin
PROPERTIES NoResurrection LeavesNoTwins
CHECK_DEADLOCK FALSE
