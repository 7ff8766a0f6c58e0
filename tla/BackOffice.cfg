SPECIFICATION FairSpec
CONSTANTS
  ann = ann
  bob = bob
  cy = cy
  None = None
  People = {ann, bob, cy}
  MaxCalls = 4
  Scopes <- Mixes
  InitPeople <- Employees
  InitByMail = {ann}
  InitManagers = {bob}
  InitCertified = {ann}
  InitSeated = {ann}
  InitWorked = {bob}
  ShiftStart = 1
  ShiftEnd = 1
  EarlyClockIn = 1
  CutoffHours = 0
  MaxNow = 2
  MaxStalls = 1
  Faults = TRUE
CHECK_DEADLOCK FALSE
INVARIANTS
  TypeOK
  OnlyLateTokens
  RotationSpendsToken
  StampsInOrder
  LogTellsTheWeek
  RightPeopleTold
  MailHasNotice
  CreatedOnce
PROPERTIES
  EverythingSettles
