CONSTANTS
  ActionCount = 3
  Key = {LAlt, q, w}
  LAlt = LAlt
  NoKey = NoKey
  Absent = Absent
  Broken = Broken
  MaxFailures = 1
SYMMETRY Symmetry
SPECIFICATION Spec
INVARIANTS
  IInv
  ActionsOnce
  SettingsKept
