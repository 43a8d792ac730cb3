CONSTANTS
  Streams = {s1}
  Shutdowns = {d1, d2}
  Faults = {"setup", "read", "chunk", "rewrite", "emit", "flush", "closeHost", "closePlugin"}
  MaxOut = 2
SPECIFICATION Spec
SYMMETRY Symmetry
INVARIANTS
  CleanCloseIsComplete
  SelectedErrorReported
  CloseDiscipline
