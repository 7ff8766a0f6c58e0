SPECIFICATION Spec
CONSTANTS
  p1 = p1
  p2 = p2
  s1 = s1
  s2 = s2
  s3 = s3
  None = None
  Staff = {p1, p2}
  Shifts = {s1, s2}
  Requests = {r1}
  Handlers = {h1}
  Worker = h1
  Windows <- DayWindows
  Needs = {1}
  MinRest = 2
  LookBehind = 3
  LookAhead = 3
  MaxPending = 1
  CutoffHours = 1
  ExpiryHours = 1
  MaxNow = 0
  Endpoints = {"assign", "edit"}
  Faults = FALSE
  InitWindow <- DayShifts
  InitLive = {s1, s2}
  InitRoster <- HalfRoster
INVARIANT NoClash
CHECK_DEADLOCK FALSE
