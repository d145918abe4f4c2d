SPECIFICATION Spec
CONSTANTS
  Length = 3
  MaxClients = 2
  MaxFiles = 1
  Limits <- SmallLimits
PROPERTIES
  UnlimitedMapsRecur
  NoSuitableMapIsPassedOver
