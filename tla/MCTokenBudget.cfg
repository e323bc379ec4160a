SPECIFICATION Spec
CONSTANTS
  short = short
  long = long
  alice = alice
  system = system
  NoSession = NoSession
  Contents = {short, long}
  TokensIn <- MCTokensIn
  Users = {alice, system}
  SharedUser = system
  MaxTurns = 4
  MaxTokens = 3
  SessionTimeout = 1
  SummarizeThreshold = 3
  SummarySizes = {2}
  MinSummaryTokens = 1
  MaxSummaryTokens = 2
  MaxPendingFlushes = 1
  MaxHistory = 4
  MaxNow = 1
  MaxInFlight = 2
  MaxTasks = 2
INVARIANT
  TokenBudgetLosesNoTurn
