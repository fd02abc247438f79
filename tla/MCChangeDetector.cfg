SPECIFICATION DetectorSpec
CONSTANTS
  Kinds = {"journal", "budget"}
  PageSize = 1
  MaxPages = 2
  MaxFaults = 2
  MaxChanges = 4
INVARIANTS
  NothingPassedOver
PROPERTIES
  EveryChangeNoticed
