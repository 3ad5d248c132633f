SPECIFICATION Spec
CONSTANTS
  MaxCuts = 1
  Streams <- MCStreams
  KnownTypes <- MCKnownTypes
  Preferences <- MCPreferences
INVARIANTS
  TypeOK
  BufferIsContiguous
  WaitsForSomething
  NothingSkipped
PROPERTIES
  Delivers
  AllReturned
CHECK_DEADLOCK FALSE
