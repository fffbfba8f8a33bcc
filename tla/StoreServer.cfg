\* Two runs, their clients and a wrong id, on two connections and three threads.
CHECK_DEADLOCK FALSE
SPECIFICATION FairSpec
CONSTANTS
  r1 = r1
  r2 = r2
  NoRun = NoRun
  Runs <- MCRuns
  Threads = 3
  PoolSize = 2
  OneConnection = FALSE
  Cold = TRUE
INVARIANTS
  AcceptedRowPersists
  SuccessHasResult
  OutcomeIsStored
  ToldIsStored
PROPERTIES
  AcceptedIsTold
