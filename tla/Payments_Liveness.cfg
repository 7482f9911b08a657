SPECIFICATION FairSpec
CONSTANTS
  NULL = NULL
  u1 = u1
  o1 = o1
  h1 = h1
  h2 = h2
  Users = {u1}
  Registered = {u1}
  Orders = {o1}
  Handlers = {h1, h2}
  PeriodTicks = 2
  Horizon = 1
  MaxFailures = 1
CHECK_DEADLOCK FALSE
PROPERTIES
  SettledIsCredited
