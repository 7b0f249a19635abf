\* A renewal overtaken by a sync that had read the row before it.
SPECIFICATION Spec
CONSTANTS
  None = None
  DayTicks = 1
  MinPlanData = 2
  MinPlanDays = 3
  RunningLowRemaining = 2
  RunningLowDaysLeft = 1
  Keys = {k1}
  CronRuns = {c1}
  Requests = {r1}
  Handlers = {"renew"}
  Overlap = TRUE
  InitialKeys <- OnlySold
  InitialDefault = None
  Margin = 1
  Cap = None
  MonthTicks = 2
  Allowances = {2}
  Limits = {3}
  Terms = {1}
  Prices = {}
  Toggles = {}
  DefaultPrice = None
  MaxTime = 0
  MaxTraffic = 2
  MaxFailures = 0
  MaxRequests = 1
INVARIANTS
  EnforcedAtRest
CHECK_DEADLOCK FALSE
