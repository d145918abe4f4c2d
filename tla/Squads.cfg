\* Three monsters, with and without a common netname, squads of up to three.
SPECIFICATION Spec
CONSTANTS
  Monsters = {g1, g2, g3}
  NoOne = NoOne
  Enemies = {e1, e2}
  Slots = {1, 2}
  MaxFollowers = 2
SYMMETRY Recruitable
INVARIANTS
  TypeOK
  SquadsAgree
  SlotsAreBacked
PROPERTY
  SquadsLast
CHECK_DEADLOCK FALSE
