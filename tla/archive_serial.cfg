CONSTANTS
  o1 = o1
  o2 = o2
  o3 = o3
  c1 = c1
  c2 = c2
  x1 = x1
  x2 = x2
  Proc = {p1}
  Importers = {p1}
  Purgers = {p1}
  Rebuilders = {}
  Obs = {o1, o2, o3}
  Chunk = {c1, c2}
  Object = {x1, x2}
  ChunkOf <- MCChunkOf
  Refs <- MCRefs
  Nobody = Nobody
  NoJournal = NoJournal
  NoObs = NoObs
SPECIFICATION Spec
INVARIANTS
  NoDanglingReference
  PurgedStaysGone
PROPERTIES
  OpenHandsOutClean
  ImplementsLedger
