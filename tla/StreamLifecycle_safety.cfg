CONSTANTS
  Streams = {s1, s2}
  Shutdowns = {d1, d2}
  Faults = {"setup", "read", "emit"}
  MaxOut = 1
SPECIFICATION Spec
SYMMETRY Symmetry
INVARIANTS
  TypeOK
  Accounting
  QuietAfterShutdown
  BlockedWorkersReleased
PROPERTIES
  NoAddDuringWait
  OutcomeSelectedOnce
  ImplementsService
