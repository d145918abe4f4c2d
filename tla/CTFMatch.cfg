\* Six slots, slices of three players: slices overlap, and one may end one
\* short of the last slot.
SPECIFICATION Spec
CONSTANTS
  MaxClients = 6
  LastStat = 2
  ChatTime = 1
  MaxIntermission = 3
INVARIANTS
  StatsReachAllButLast
PROPERTIES
  IntermissionEnds
