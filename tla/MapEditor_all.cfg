CONSTANTS
  Path = {f1, f2}
  NoPath = NoPath
  NoMap = NoMap
  Absent = Absent
  Broken = Broken
  Point = {"a", "b", "c", "d", "e"}
  Clicked = {"c"}
  NoPoint = NoPoint
  MaxEvents = 2
SYMMETRY Symmetry
SPECIFICATION Spec
INVARIANTS
  IInv
  CleanIsOnDisk
  SelectionTracks
  IdsAreFresh
