\* One operation at a time, one key, two requests of any kind, a price, a cap
\* that is reached, a change of month, a failure or a crash.  The bounds stop the
\* clock and the traffic; the cron never stops, but it may.
SPECIFICATION Spec
CONSTANTS
  None = None
  DayTicks = 1
  MinPlanData = 2
  MinPlanDays = 3
  RunningLowRemaining = 2
  RunningLowDaysLeft = 1
  Keys = {k1}
  CronRuns = {c1}
  Requests = {r1}
  Handlers = {"renew", "edit", "reenable", "default", "sync"}
  Overlap = FALSE
  InitialKeys <- SoldAutoOrAdopted
  InitialDefault = None
  Margin = 1
  Cap = 3
  MonthTicks = 2
  Allowances = {2}
  Limits = {3}
  Terms = {1}
  Prices = {3}
  Toggles = {}
  DefaultPrice = 2
  MaxTime = 2
  MaxTraffic = 3
  MaxFailures = 1
  MaxRequests = 2
INVARIANTS
  TypeOK
  EnforcedAtRest
  RenewalsLogged
PROPERTIES
  UsageNeverRegresses
  OnlyComebacksReadDisabled
  EditKeepsWhatItDoesNotName
  NoTripAfterReenable
  AutoRenewalSuffices
CHECK_DEADLOCK FALSE
