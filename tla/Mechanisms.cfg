SPECIFICATION Spec
CONSTANTS
  Buttons = {"push", "plate", "valve"}
  Doors = {"hatch", "door", "wing"}
  Sources = {"both", "either"}
  None = None
  Names = {"gate"}
  Name <- MCName
  Target <- MCTarget
  Opens <- MCOpens
  Master <- MCMaster
  Inputs <- MCInputs
  Last <- MCLast
  Toggle = {"plate", "valve", "wing"}
  Stay = {"wing"}
  TouchOnly = {"plate"}
  Shootable = {"valve"}
  UseOnly = {"wing"}
  Delayed = {"valve"}
  MaxPending = 1
INVARIANTS InputsTellMovers
PROPERTIES DoorsWaitForAll EverythingComesBack
CHECK_DEADLOCK FALSE
