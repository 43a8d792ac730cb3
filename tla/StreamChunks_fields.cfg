CONSTANTS
  Streams <- MixedFieldStreams
  MaxPending = 60
SPECIFICATION Spec
INVARIANT EveryDataValueOnce
CHECK_DEADLOCK FALSE
