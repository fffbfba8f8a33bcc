\* Database errors, no crash.
SPECIFICATION FairServiceSpec
CONSTANTS
  MaxIterations = 2
  TokenBudget = 2
  TimeoutS = 1
  ReadTool = ReadTool
  ShellTool = ShellTool
  NoTool = NoTool
  Tools <- MCTools
  Whitelist <- MCWhitelist
  Replies <- MCReplies
  ChatErrors = {"error", "timeout"}
  ChatYields = TRUE
  DbFaults = TRUE
  Crashes = FALSE
  ServiceWiring <- MCServiceWiring
  Wirings <- MCWirings
  Priors <- MCPriors
PROPERTIES
  EveryErrorIsRecorded
