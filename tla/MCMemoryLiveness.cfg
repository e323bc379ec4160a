SPECIFICATION FairSpec
CONSTANTS
  short = short
  long = long
  alice = alice
  system = system
  NoSession = NoSession
  Contents = {short}
  TokensIn <- MCTokensIn
  Users = {alice}
  SharedUser = system
  MaxTurns = 1
  MaxTokens = 9
  SessionTimeout = 1
  SummarizeThreshold = 0
  SummarySizes = {1}
  MinSummaryTokens = 1
  MaxSummaryTokens = 2
  MaxPendingFlushes = 1
  MaxHistory = 3
  MaxNow = 1
  MaxInFlight = 1
  MaxTasks = 2
PROPERTIES
  ExpiredSessionsAreClosed
  ClosedTurnsSettle
