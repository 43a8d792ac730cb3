CONSTANTS
  Streams = {s1, s2}
  Shutdowns = {d1}
  Faults = {"closeHost", "closePlugin"}
  MaxOut = 1
SPECIFICATION FairSpec
PROPERTIES
  ShutdownEnds
  FinishedWorkersLeave
