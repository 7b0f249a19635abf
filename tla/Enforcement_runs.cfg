\* Two cron runs overlapping (the one started with the process and the scheduled
\* one), auto-renewing and tripping the switch, with a re-enable and an archiving.
SPECIFICATION FairSpec
CONSTANTS
  None = None
  DayTicks = 1
  MinPlanData = 2
  MinPlanDays = 3
  RunningLowRemaining = 2
  RunningLowDaysLeft = 1
  Keys = {k1}
  CronRuns = {c1, c2}
  Requests = {r1}
  Handlers = {"reenable", "archive"}
  Overlap = TRUE
  InitialKeys <- OnlyAutoRenewed
  InitialDefault = None
  Margin = 1
  Cap = 2
  MonthTicks = 2
  Allowances = {2}
  Limits = {3}
  Terms = {1}
  Prices = {}
  Toggles = {}
  DefaultPrice = None
  MaxTime = 0
  MaxTraffic = 1
  MaxFailures = 0
  MaxRequests = 2
PROPERTIES
  Converges
CHECK_DEADLOCK FALSE
