CONSTANTS
  here = here
  there = there
  v1 = v1
  w1 = w1
  c1 = c1
  c2 = c2
  o1 = o1
  o2 = o2
  o3 = o3
  x1 = x1
  x2 = x2
  Site = {here, there}
  Server = {v1}
  World = {w1}
  ServerOf <- MCServerOf
  Chunk = {c1, c2}
  Obs = {o1, o2, o3}
  Object = {x1, x2}
  WorldOf <- MCWorldOf
  ChunkOf <- MCChunkOf
  Refs <- MCRefs
  Captured <- MCCaptured
  Scope <- ScopeShared
  Purgers = {here, there}
  Signable <- SignsOne
  Mortal = {here, there}
  MaxSends <- OneWay
  NoFile = NoFile
  Idle = Idle
SPECIFICATION Spec
INVARIANTS
  RefusedForCause
  SignedHasRecord
PROPERTIES
  WithheldStaysHome
  Delivers
