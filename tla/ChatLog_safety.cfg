CONSTANTS
  Client = {c1, c2}
  MaxLines = 2
  kMaxQueuedEntries = 2
  kMaxBatchRows = 2
  MaxFaults = 1
SPECIFICATION Spec
SYMMETRY Symmetry
INVARIANTS
  IInv
  WriterHasDb
  Accounting
  OrderKept
  StopDrains
  WrittenIsStored
PROPERTY ImplementsLog
