SPECIFICATION Spec
CONSTANTS
  short = short
  long = long
  alice = alice
  system = system
  NoSession = NoSession
  Contents = {short, long}
  TokensIn <- MCTokensIn
  Users = {system}
  SharedUser = system
  MaxTurns = 3
  MaxTokens = 4
  SessionTimeout = 2
  SummarizeThreshold = 2
  SummarySizes = {0, 1}
  MinSummaryTokens = 1
  MaxSummaryTokens = 2
  MaxPendingFlushes = 1
  MaxHistory = 5
  MaxNow = 2
  MaxInFlight = 2
  MaxTasks = 0
INVARIANTS
  TypeOK
  SummariesPrecedeTurns
  SummariesTellTheirTurns
  BufferWithinLimits
  NoSilenceInsideASession

