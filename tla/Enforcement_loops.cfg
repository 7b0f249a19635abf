\* One operation at a time over two keys: the loops over keys of the syncs, the
\* kill switch, the re-enable, the auto-renewals and the default limit.
SPECIFICATION Spec
CONSTANTS
  None = None
  DayTicks = 1
  MinPlanData = 2
  MinPlanDays = 3
  RunningLowRemaining = 2
  RunningLowDaysLeft = 1
  Keys = {k1, k2}
  CronRuns = {c1}
  Requests = {r1}
  Handlers = {"reenable", "default", "edit", "archive"}
  Overlap = FALSE
  InitialKeys <- AutoOrAdopted
  InitialDefault = None
  Margin = 1
  Cap = 2
  MonthTicks = 2
  Allowances = {2}
  Limits = {3}
  Terms = {1}
  Prices = {}
  Toggles = {TRUE}
  DefaultPrice = None
  MaxTime = 1
  MaxTraffic = 1
  MaxFailures = 1
  MaxRequests = 1
INVARIANTS
  EnforcedAtRest
CHECK_DEADLOCK FALSE
