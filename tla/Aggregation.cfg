SPECIFICATION Spec
CONSTANTS
  Registry <- MCRegistry
  Events <- MCEvents
  Budgets <- MCBudgets
  kMaxAllowedAggregationDays = 2
  kMaxAllowedAggregationHours = 1
  backfill_days = 1
  FirstDay = 4
  Zones = {1}
  NotFound = NotFound
INVARIANTS
  NoDuplicates
  
  
  DeletedIsErased
  QuietStaysEmpty
CHECK_DEADLOCK FALSE
