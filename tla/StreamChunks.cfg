CONSTANTS
  Streams <- MCStreams
  MaxPending = 24
SPECIFICATION Spec
INVARIANTS
  DeliveredWhateverTheCut
  ClientReadsEveryPiece
  EmittedAtOnce
  NothingEmittedInPart
  LimitIsOnTheUnfinished
CHECK_DEADLOCK FALSE
