SPECIFICATION Spec
CONSTANTS
  Bodies <- MCBodies
  Model = "orig"
CHECK_DEADLOCK FALSE
INVARIANTS
  RequestNamesOneModel
  ResponseNamesTheClientsModel
  ChangesAreReported
