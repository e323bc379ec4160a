\* Two turns at once, two schedules, a reaction to outages, an overrun channel; two
\* consolidation runs over two users; two Matrix messages, a repeat and a stop.
SPECIFICATION BackgroundSpec
CONSTANTS
  Variants = {"CircuitOpen", "ToolFailure", "RateLimitHit"}
  Capacity = 1
  Turns = {t1, t2}
  Agentic = TRUE
  Threshold = 2
  MaxCalls = 1
  MaxTurns = 2
  Cron <- MCCron
  Triggers <- MCTriggers
  Window = 2
  MaxNow = 2
  ConsolidationRuns = {r1, r2}
  NoRun = NoRun
  LastUser = 2
  Contradictions = {}
  OtherActions = {}
  SeenCap = 2
  SeenKeep = 1
  MaxChunks = 2
  MaxEvents = 2
  MaxRedeliveries = 1
  MaxStops = 1
INVARIANTS
  TypeOK
  OneRoutineAtATime
  OccurrencesRunOnce
PROPERTIES
  OpensAfterThreshold
  DueRoutinesRun
  RunsFinish
  HandlersFinish
  OutagesAreHandled
CHECK_DEADLOCK FALSE
