\* Three attempts at one run, resumable at any status.
SPECIFICATION AttemptsSpec
CONSTANTS
  MaxAttempts = 3
  Resumed = {"absent", "created", "running", "completed", "failed", "capped"}
  MaxIterations = 2
  TokenBudget = 2
  TimeoutS = 1
  ReadTool = ReadTool
  ShellTool = ShellTool
  NoTool = NoTool
  Tools <- MCTools
  Whitelist <- MCWhitelist
  Replies <- MCReplies
  ChatErrors = {"error"}
  ChatYields = TRUE
  DbFaults = TRUE
  Wirings <- MCWirings
  Priors = {}
INVARIANTS
  StoredLogIsSound
  CompletedHasAnswer
  EachAttemptIsCapped
PROPERTIES
  StoredLogOnlyGrows
