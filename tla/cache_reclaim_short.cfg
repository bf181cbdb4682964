CONSTANTS
  CacheCount = 3
  Batched = {1}
  Deferred = {3}
  Priority <- MCPriority
  Weight <- MCWeight
  Sizes = {3}
  Budgets = {4}
  MaxBytes = 3
  MaxAttempts = 8
  MaxCalls = 1
SPECIFICATION CacheSpec
INVARIANT ReclaimFreesWhatIsAsked
CHECK_DEADLOCK FALSE
