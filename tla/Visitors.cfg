SPECIFICATION Spec
CONSTANTS
  Passcodes = {p1, p2}
  ShareMaxAttempts = 2
  Visits = {1, 2}
  Tab = 1
  MaxVisits = 4
  MaxLoads = 2
  MaxUpsets = 1
  None = None
  OTPMaxAttempts = 2
  Logins = {1, 2}
  MaxCodes = 2
  MaxTries = 4
  MaxFailures = 1
INVARIANTS
  TypeOK
  AttemptsAreBounded
  PasscodeIsTheOneChosen
  CodeSignsInOnce
PROPERTIES
  PagesComeToRest
CHECK_DEADLOCK FALSE
