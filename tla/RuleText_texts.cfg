SPECIFICATION Spec
CONSTANT Writers <- MCWriters
CHECK_DEADLOCK FALSE
INVARIANTS
  ScannersAgree
  RulesCanBeWritten
  AcceptedRulesAreSafe
