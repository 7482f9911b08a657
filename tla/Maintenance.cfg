SPECIFICATION Spec
CONSTANTS
  NULL = NULL
  TicksPerDay = 2
  WibOffset = 1
  PreExpiryDays = 2
  MaxFineDays = 1
  DailyFine = 1
  Users = {1, 2}
  Legacy = {2}
  Blocked = {1}
  PeriodTicks = 5
  Horizon = 10
  MaxPayments = 1
  MaxFailures = 1
INVARIANTS
  TypeOK
  SanctionConsistent
  FineWithinQuote
  OnlyStaleRecordsPunish
  RepeatsOnlyIfUnmarked
  ApiAgreesWithJob
PROPERTIES
  NoLeniencyWithoutPayment
