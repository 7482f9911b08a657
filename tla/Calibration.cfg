SPECIFICATION Spec
CONSTANTS
  NULL = NULL
  Requests = {"r1", "r2"}
  PoolSize = 2
  MovingSpeed = 3
  MaxPointGap = 1
  Spike = 1
  DayLength = 2
  WibOffset = 1
  MonthLength = 2
  Budgets <- MCBudgets
CHECK_DEADLOCK FALSE
INVARIANTS
  TypeOK
  StretchesAreDisjoint
  MetricsAddUp
PROPERTIES
  EveryRequestAnswers
