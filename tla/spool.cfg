CONSTANTS
  b1 = b1
  b2 = b2
  b3 = b3
  Bundle = {b1, b2, b3}
  Component = {x}
  Manifest = Manifest
  Ingester = {cli, window}
  Deleters = {cli}
  Markers = {window}
  MaxSize = 1
  Interval = 2
  Free = Free
  NoBundle = NoBundle
  NoCall = NoCall
SPECIFICATION Spec
INVARIANTS
  OnlyCopyKept
  LiveTempKept
  Bounded
PROPERTIES
  RecoveryClears
SYMMETRY MCSymmetry
