SPECIFICATION Spec
CONSTANTS
  Character = {"a", "b"}
  MaxName = 5
  MaxTokens = 4
  MaxLiteral = 2
  Names <- MCNames
  Patterns <- MCPatterns
CHECK_DEADLOCK FALSE
INVARIANTS
  AcceptsAsDocumented
  CapturesEveryWildcard
  RebuildsTheName
