SPECIFICATION Spec
CONSTANTS
  MaxRecords = 2
  MaxEdits = 1
INVARIANTS TypeOK StaysWellFormed ShownIsWhole
PROPERTY PackKeeps
