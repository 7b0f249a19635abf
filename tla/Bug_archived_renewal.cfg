\* Auto-renewal of a key whose server was archived, one operation at a time.
SPECIFICATION Spec
CONSTANTS
  None = None
  DayTicks = 1
  MinPlanData = 2
  MinPlanDays = 3
  RunningLowRemaining = 2
  RunningLowDaysLeft = 1
  Keys = {k1}
  CronRuns = {c1}
  Requests = {r1}
  Handlers = {"archive"}
  Overlap = FALSE
  InitialKeys <- OnlyAutoRenewed
  InitialDefault = None
  Margin = 1
  Cap = None
  MonthTicks = 2
  Allowances = {2}
  Limits = {3}
  Terms = {1}
  Prices = {}
  Toggles = {}
  DefaultPrice = None
  MaxTime = 3
  MaxTraffic = 2
  MaxFailures = 0
  MaxRequests = 1
INVARIANTS
  RenewalsLogged
CHECK_DEADLOCK FALSE
