SPECIFICATION Spec
CONSTANTS
  NoFile = NoFile
  Supplied <- MCSupplied
  MaxEdits = 2
  MaxFaults = 1
CHECK_DEADLOCK FALSE
INVARIANTS
  UndoRestoresEdits
