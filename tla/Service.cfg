\* Crashes, failing reads and failing commits around a run of up to three
\* iterations; the gateway may never answer.
SPECIFICATION FairServiceSpec
CONSTANTS
  MaxIterations = 3
  TokenBudget = 3
  TimeoutS = 2
  ReadTool = ReadTool
  ShellTool = ShellTool
  NoTool = NoTool
  Tools <- MCTools
  Whitelist <- MCWhitelist
  Replies <- MCReplies
  ChatErrors = {"error", "timeout"}
  ChatYields = TRUE
  DbFaults = TRUE
  Crashes = TRUE
  ServiceWiring <- MCServiceWiring
  Wirings <- MCWirings
  Priors <- MCPriors
INVARIANTS
  ServiceTypeOK
  AcceptedRunIsFound
  GatewayServesAcceptedRuns
  LogComesWithOutcome
  OutcomeIsTheRunners
  PollTellsTheOutcome
PROPERTIES
  ImplementsRunLifecycle
  AcceptedRunEnds
