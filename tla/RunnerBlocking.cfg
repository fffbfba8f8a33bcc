\* A chat that does not yield while it waits.
SPECIFICATION FairSpec
CONSTANTS
  MaxIterations = 2
  TokenBudget = 2
  TimeoutS = 1
  ReadTool = ReadTool
  ShellTool = ShellTool
  NoTool = NoTool
  Tools <- MCTools
  Whitelist <- MCWhitelist
  Replies <- TimedReplies
  ChatErrors = {"error"}
  ChatYields = FALSE
  DbFaults = FALSE
  Wirings <- FreshOnly
  Priors <- MCPriors
PROPERTIES
  Terminates
