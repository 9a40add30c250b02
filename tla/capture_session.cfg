CONSTANTS
  Job <- MCChunk
  Chunk <- MCChunk
  NoJob = NoJob
  Clean = Clean
  Capacity = 1
  Coalesce = 1
  MaxLatency = 2
  MaxSnapshots = 1
  MaxTick = 4
SPECIFICATION Spec
INVARIANTS
  NothingForgotten
  BoundedLatency
  LostToFullSpool
  RecordsWithConsent
  DrainedMeansHandled
CHECK_DEADLOCK FALSE
