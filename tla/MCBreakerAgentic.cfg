\* A turn whose agentic answer succeeds after another turn has failed.
SPECIFICATION Spec
CONSTANTS
  Variants = {"CircuitOpen", "ToolFailure", "RateLimitHit"}
  Capacity = 1
  Turns = {t1, t2}
  Agentic = TRUE
  Threshold = 2
  MaxCalls = 1
  MaxTurns = 2
  Cron <- MCCron
  Triggers <- MCTriggers
  Window = 2
  MaxNow = 2
PROPERTIES
  SuccessResetsCount
CHECK_DEADLOCK FALSE
