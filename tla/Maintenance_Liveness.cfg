SPECIFICATION FairSpec
CONSTANTS
  NULL = NULL
  TicksPerDay = 1
  WibOffset = 0
  PreExpiryDays = 1
  MaxFineDays = 1
  DailyFine = 1
  Users = {1, 2}
  Legacy = {2}
  Blocked = {}
  PeriodTicks = 2
  Horizon = 4
  MaxPayments = 1
  MaxFailures = 1
PROPERTIES
  LapsedBecomesPastDue
