SPECIFICATION Spec
CONSTANTS
  p1 = p1
  p2 = p2
  s1 = s1
  s2 = s2
  s3 = s3
  None = None
  Staff = {p1, p2}
  Shifts = {s1, s2, s3}
  Requests = {r1, r2, r3}
  Handlers = {h1}
  Worker = h1
  Windows <- WeekWindows
  Needs = {1}
  MinRest = 2
  LookBehind = 3
  LookAhead = 3
  MaxPending = 2
  CutoffHours = 1
  ExpiryHours = 1
  MaxNow = 2
  Endpoints = {"swap", "drop", "accept", "decline", "claim", "cancel", "approve", "reject"}
  Faults = FALSE
  InitWindow <- WeekShifts
  InitLive = {s1, s2, s3}
  InitRoster <- FullRoster
SYMMETRY HandlerSymmetry
INVARIANTS CapRespected OneActivePerAssignment ExpiredWasUnclaimed
PROPERTY ResolvedIsFinal
CHECK_DEADLOCK FALSE
