SPECIFICATION FairSpec
CONSTANTS
  p1 = p1
  p2 = p2
  s1 = s1
  s2 = s2
  s3 = s3
  None = None
  Staff = {p1, p2}
  Shifts = {s1, s2}
  Requests = {r1}
  Handlers = {h1, h2}
  Worker = w
  Windows <- BriefWindows
  Needs = {1}
  MinRest = 0
  LookBehind = 3
  LookAhead = 3
  MaxPending = 1
  CutoffHours = 1
  ExpiryHours = 1
  MaxNow = 2
  Endpoints = {"assign", "drop", "claim", "cancel", "approve"}
  Faults = FALSE
  InitWindow <- BriefShifts
  InitLive = {s1, s2}
  InitRoster <- DayRoster
PROPERTIES HandlersFinish DropsAreResolved
CHECK_DEADLOCK FALSE
