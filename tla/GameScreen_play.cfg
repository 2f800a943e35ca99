CONSTANTS
  MapFile = {"field", "cave"}
  Content <- SmallMaps
  StartFile = "field"
  NoMap = ""
  CutName = "ca"
  FrameTicks = {2, 3}
  MaxTicks = 5
  MaxEvents = 3
SPECIFICATION Spec
INVARIANTS
  IInv
  LastMapKept
PROPERTIES
  FloorHolds
  RunIsWalkable
