\* Days of two ticks, so that part of a day can remain; a gigabyte's tenth of
\* two data units, so that part of one can.
SPECIFICATION Spec
CONSTANTS
  None = None
  DayTicks = 2
  MinPlanData = 4
  MinPlanDays = 3
  RunningLowRemaining = 2
  RunningLowDaysLeft = 2
  SoonDays = 2
  Tenth = 2
  Default = 3
  Asked <- AroundTheFloor
  AskedDays <- AroundTheTerm
  Ends <- SomeEnds
  MaxTime = 10
  MaxUsed = 8
INVARIANTS
  TypeOK
  DerivedFieldsAgree
  CellsAgreeWithStatus
  PreviewIsGranted
  CarriedPlanKeepsWhatIsLeft
PROPERTIES
  DisabledByFailedPushOnly
  RenewalRestores
CHECK_DEADLOCK FALSE
