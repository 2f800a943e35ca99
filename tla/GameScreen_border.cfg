CONSTANTS
  MapFile = {"garden"}
  Content <- BorderMaps
  StartFile = "garden"
  NoMap = ""
  CutName = "ga"
  FrameTicks = {2}
  MaxTicks = 5
  MaxEvents = 1
SPECIFICATION Spec
PROPERTY GroundKept
