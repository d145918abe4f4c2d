\* Expected to be violated: see the comment of SplitIsReal.
SPECIFICATION Spec
CONSTANTS
  Monsters = {g1, g2, g3}
  NoOne = NoOne
  Enemies = {e1, e2}
  Slots = {1, 2}
  MaxFollowers = 2
SYMMETRY Recruitable
PROPERTY
  SplitIsReal
CHECK_DEADLOCK FALSE
