CONSTANTS
  Job <- MCChunk
  Chunk <- MCChunk
  NoJob = NoJob
  Clean = Clean
  Capacity = 1
  Coalesce = 1
  MaxLatency = 1
  MaxSnapshots = 1
  MaxTick = 2
SPECIFICATION FairSpec
PROPERTIES
  ControlReturns
  WriterEmptiesQueue
CHECK_DEADLOCK FALSE
