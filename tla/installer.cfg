SPECIFICATION Spec
CONSTANTS
  NoFile = NoFile
  Supplied <- MCSupplied
  MaxEdits = 2
  MaxFaults = 2
CHECK_DEADLOCK FALSE
INVARIANTS
  KeptSomewhere
  RecordIsExact
  UndoRestores
