CONSTANTS
  p1 = p1
  p2 = p2
  t1 = t1
  t2 = t2
  t3 = t3
  NoTurn = NoTurn
  Pages <- MCOnePage
  Turns <- MCTwoTurns
  Limit = 2
  Existing = 1
  MaxMoves = 0
SPECIFICATION Spec
INVARIANTS SeesQuestion
CHECK_DEADLOCK FALSE
