\* Three iterations, three tokens and two clock units: the budget breaks on the
\* first, second and third reply, the deadline passes before, between and during
\* chats; every wiring and prior row, every way a chat can end or hang.
SPECIFICATION FairSpec
CONSTANTS
  MaxIterations = 3
  TokenBudget = 3
  TimeoutS = 2
  ReadTool = ReadTool
  ShellTool = ShellTool
  NoTool = NoTool
  Tools <- MCTools
  Whitelist <- MCWhitelist
  Replies <- MCReplies
  ChatErrors <- MCChatErrors
  ChatYields = TRUE
  DbFaults = TRUE
  Wirings <- MCWirings
  Priors <- MCPriors
INVARIANTS
  TypeOK
  SpendingIsCapped
  CapIsReal
  TokensAreAccounted
  StepLogIsSound
  FinalAnswerIsLogged
  OutcomeIsOnTheRow
  LedgerMatchesLog
  ContextIsFenced
  SpansMatch
PROPERTIES
  Terminates
  ImplementsBoundedRun
