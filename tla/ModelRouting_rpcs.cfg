SPECIFICATION MCSpec
CONSTANTS
  Model <- MCModel
  EmptyModel = ""
  Scope = {"s1", "s2"}
  NoScope = "s0"
  NoMatch = "no match"
  Bad = Bad
  Requests = {r1}
  Lifecycles = {l1, l2}
  Questions <- MCQuestions
  Candidates <- MCCandidates
  InitialConfigs <- MCConfigs
CHECK_DEADLOCK FALSE
INVARIANTS
  DecidesUnderOneConfiguration
  PublishedIsWhole
  NeverNativePastARule
  DeclinesOnlyAfterChange
  SkipsWhatItCannotCheck
