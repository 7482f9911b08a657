SPECIFICATION Spec
CONSTANTS
  NULL = NULL
  u1 = u1
  o1 = o1
  o2 = o2
  h1 = h1
  h2 = h2
  Users = {u1}
  Registered = {}
  Orders = {o1, o2}
  Handlers = {h1, h2}
  PeriodTicks = 2
  Horizon = 2
  MaxFailures = 0
CHECK_DEADLOCK FALSE
PROPERTIES
  SecondPaymentExtends
