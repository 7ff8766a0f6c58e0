SPECIFICATION Spec
CONSTANTS
  DayLength = 12
  Candidates <- Week
  InitRules <- AllWeek
  RuleChoices = {}
  ExceptionChoices = {}
  OverrideChoices = {}
  MinRest = 5
  DailyWarning = 4
  DailyBlock = 6
  WeeklyWarning = 17
  WeeklyOvertime = 20
  UtcOffset <- WestCoast
INVARIANT NoUndocumentedStreak
