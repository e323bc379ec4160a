SPECIFICATION Spec
CONSTANTS
  short = short
  long = long
  alice = alice
  system = system
  NoSession = NoSession
  Contents = {short}
  TokensIn <- MCTokensIn
  Users = {alice, system}
  SharedUser = system
  MaxTurns = 2
  MaxTokens = 9
  SessionTimeout = 1
  SummarizeThreshold = 2
  SummarySizes = {1}
  MinSummaryTokens = 1
  MaxSummaryTokens = 2
  MaxPendingFlushes = 1
  MaxHistory = 4
  MaxNow = 1
  MaxInFlight = 2
  MaxTasks = 2
INVARIANT
  StaleTurnsAreFlushed
