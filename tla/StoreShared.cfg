\* The same requests on the default store, warmed up.
SPECIFICATION Spec
CONSTANTS
  r1 = r1
  r2 = r2
  NoRun = NoRun
  Runs <- MCRuns
  Threads = 3
  PoolSize = 1
  OneConnection = TRUE
  Cold = FALSE
SYMMETRY MCSymmetry
INVARIANTS
  AcceptedRowPersists
