CONSTANTS
  o1 = o1
  o2 = o2
  o3 = o3
  c1 = c1
  c2 = c2
  x1 = x1
  x2 = x2
  Proc = {p1, p2}
  Importers = {p1, p2}
  Purgers = {p2}
  Rebuilders = {p1}
  Obs = {o1, o2}
  Chunk = {c1, c2}
  Object = {x1, x2}
  ChunkOf <- MCChunkOf
  Refs <- MCRefs
  Nobody = Nobody
  NoJournal = NoJournal
  NoObs = NoObs
SPECIFICATION FairSpec
INVARIANTS
  TypeOK
  ListedHasRecord
  UnlistedIsPending
  AckedSurvives
  WithdrawnIsErased
PROPERTIES
  OnlyUnreferencedRemoved
  RebuildRepairs
  LockIsReleased
