CONSTANTS
  cli = cli
  window = window
  a1 = a1
  a2 = a2
  o1 = o1
  b1 = b1
  Block = {"stone", "kelp", "kelp_plant", "copper", "kelp_top", "gold", "air"}
  Biome = {"plains", "grove", "forest", "the_void"}
  Entity = {"sign"}
  SectionY <- MCSectionY
  Position = {1, 2}
  Program = {cli, window}
  Window = window
  Chunk = {a1, a2, o1, b1}
  RegionOf <- MCRegionOf
  Regions = 2
  Observed <- MCObserved
  Worlds <- MCWorlds
  Requests <- MCRequests
  Unwritable <- MCUnwritable
  Flawed <- MCFlawed
  Scopes <- MCScopes
  MaxPlays = 1
  Absent = Absent
  Blank = Blank
  Short = Short
  Empty = Empty
  Theirs = Theirs
  Damaged = Damaged
  NoConversion = NoConversion
SPECIFICATION Spec
INVARIANTS
  GivesUpForCause
  ReportWritesAllOrNothing
  LosslessMeansSame
PROPERTIES
  OthersChunksKept
CHECK_DEADLOCK FALSE
