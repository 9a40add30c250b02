CONSTANTS
  ann = ann
  Ann = Ann
  bob = bob
  cat = cat
  c1 = c1
  c2 = c2
  Label = {ann, Ann, bob, cat}
  Key <- MCKey
  Chunk = {c1, c2}
  State = {1, 2}
  Id <- MCId
  MaxTime = 3
  Window = 1
  Nothing = Nothing
  Position <- MCPosition
  Hour = 2
  MaxPixels = 5
  Captures <- MCCaptures
  Scopes <- MCScopes
  MaxRecords = 3
SPECIFICATION Spec
INVARIANTS
  SelectsTheLatest
  DiffHalvesAgree
  ComparisonAgrees
  WithheldIsNowhere
  ReadersAgree
PROPERTIES
  HistoryIsStable
