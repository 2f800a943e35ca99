CONSTANTS
  Client = {c1}
  MaxLines = 3
  kMaxQueuedEntries = 2
  kMaxBatchRows = 2
  MaxFaults = 1
SPECIFICATION FairSpec
PROPERTIES QueuedIsWritten StopReturns
