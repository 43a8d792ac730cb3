SPECIFICATION NativeSpec
CONSTANTS
  Streams = {s1}
  Calls = {c1}
  MaxInits = 3
  Lengths = {0,2,3,4}
  MaxCInt = 3
  MaxResponse = 2
CHECK_DEADLOCK FALSE
INVARIANTS
  StreamsCallALiveHost
  ReadyIsFresh
  NothingLeftBehind
  AnswersGoBack
  ResponsesHaveOneOwner
  WholeOrRefused
