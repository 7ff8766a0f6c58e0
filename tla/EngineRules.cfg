SPECIFICATION Spec
CONSTANTS
  DayLength = 12
  Candidates <- MixedShifts
  InitRules <- MixedRules
  RuleChoices <- AroundDay2
  ExceptionChoices <- SomeExceptions
  OverrideChoices = {0, 1}
  MinRest = 5
  DailyWarning = 4
  DailyBlock = 6
  WeeklyWarning = 17
  WeeklyOvertime = 20
  UtcOffset <- WestCoast
INVARIANT DailyLimitKept
PROPERTIES GivenOnlyWhenIn StreakNeedsOverride WarningsAreReported
