CONSTANTS
  s1 = s1
  s2 = s2
  p1 = p1
  p2 = p2
  Callers = {c1, c2}
  Scopes <- MCScopes
  Patterns <- MCPatterns
  Positions = {1, 2}
  Match <- MCMatch
  GenerationSize = 2
SPECIFICATION Spec
SYMMETRY Symmetry
INVARIANTS
  Bounded
  AnswersOwnQuestion
PROPERTIES
  EvictsOnlyOldest
