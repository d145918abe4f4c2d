\* Two players, twin items and a lone one.
SPECIFICATION Spec
CONSTANTS
  MaxClients = 2
  NumItems = 3
  Classes = {"longjump", "backpack"}
  ClassOf <- TwinClasses
  TeamOf <- FirstForTeam1
INVARIANTS
  PowerupIsBacked
  PowerupCarrierFights
  LonePowerupAgrees
PROPERTIES
  DroppedItemMoves
  LostItemReturns
