\* A cron run and a request of any kind overlapping, with a failure or a crash.
SPECIFICATION FairSpec
CONSTANTS
  None = None
  DayTicks = 1
  MinPlanData = 2
  MinPlanDays = 1
  RunningLowRemaining = 2
  RunningLowDaysLeft = 1
  Keys = {k1}
  CronRuns = {c1}
  Requests = {r1}
  Handlers = {"renew", "edit", "reenable", "default", "sync"}
  Overlap = TRUE
  InitialKeys <- OnlySold
  InitialDefault = None
  Margin = 1
  Cap = 2
  MonthTicks = 2
  Allowances = {2}
  Limits = {3}
  Terms = {1}
  Prices = {}
  Toggles = {}
  DefaultPrice = None
  MaxTime = 2
  MaxTraffic = 2
  MaxFailures = 1
  MaxRequests = 1
INVARIANTS
  CutOffNamesItsReason
  UsageNotAhead
PROPERTIES
  Converges
CHECK_DEADLOCK FALSE
