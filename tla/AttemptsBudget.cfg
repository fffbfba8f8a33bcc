\* One resumption of an interrupted run.
SPECIFICATION AttemptsSpec
CONSTANTS
  MaxAttempts = 2
  Resumed = {"running"}
  MaxIterations = 2
  TokenBudget = 2
  TimeoutS = 1
  ReadTool = ReadTool
  ShellTool = ShellTool
  NoTool = NoTool
  Tools <- MCTools
  Whitelist <- MCWhitelist
  Replies <- MCReplies
  ChatErrors = {"error"}
  ChatYields = TRUE
  DbFaults = TRUE
  Wirings <- MCWirings
  Priors = {}
INVARIANTS
  LoggedTokensWithinBudget
