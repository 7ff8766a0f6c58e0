-------------------------- MODULE ConstraintEngine --------------------------
(***************************************************************************)
(* The constraint engine over the calendar of one staff member: which     *)
(* shifts it fetches around a candidate, what it computes from them, the  *)
(* rules it applies, and the calls that change what it reads.  Calls do   *)
(* not overlap here: Scheduling is about those that do.                   *)
(*                                                                        *)
(* Time is the staff member's local time in ticks, DayLength of them in a *)
(* day, day 0 a Sunday.  A tick stands for the minute of the code, at     *)
(* whose grain availability is kept.  Skill and certification are left to *)
(* Scheduling.                                                            *)
(***************************************************************************)
EXTENDS Integers, FiniteSets, FiniteSetsExt

CONSTANTS
  DayLength,
  Candidates,        \* the shifts managers try to assign: [start, end)
  InitRules,         \* recurring rules at the start: first and last tick of a weekday
  RuleChoices,       \* those the staff member may set or remove
  ExceptionChoices,  \* exceptions for one date, for the whole day or from first to last tick
  OverrideChoices,   \* weeks that may have a documented seventh-day override
  MinRest, DailyWarning, DailyBlock, WeeklyWarning, WeeklyOvertime,
  UtcOffset          \* of the home time zone: local time minus UTC

VARIABLES
  held,        \* shifts the staff member is assigned to
  rules,       \* active AvailabilityRule rows
  exceptions,  \* AvailabilityException rows
  overrides,   \* weeks with a ScheduleOverride row; no call writes one
  response     \* rules named by the violations in the last response

vars == <<held, rules, exceptions, overrides, response>>

ASSUME CalendarAssumption ==
  /\ DayLength \in Nat \ {0}
  /\ Candidates \subseteq {w \in [start: Nat, end: Nat] : w.start < w.end}
  /\ UtcOffset \in Int /\ -DayLength < UtcOffset /\ UtcOffset < DayLength

\* The limits are whole numbers, as the validation of the environment asks.
ASSUME LimitsAssumption == {DailyBlock, WeeklyWarning, WeeklyOvertime} \subseteq Nat

ASSUME AvailabilityAssumption ==
  /\ InitRules \cup RuleChoices \subseteq
       [dayOfWeek: 0..6, first: 0..DayLength - 1, last: 0..DayLength - 1]
  /\ ExceptionChoices \subseteq
       [day: Nat, type: {"AVAILABLE", "UNAVAILABLE"}, whole: BOOLEAN,
        first: 0..DayLength - 1, last: 0..DayLength - 1]

LookBehind == 9 * DayLength
LookAhead == 2 * DayLength

-----------------------------------------------------------------------------
(* Calendar *)

DayOf(t) == t \div DayLength
WeekOf(day) == day \div 7
DayOfWeek(day) == day % 7
Hours(w) == w.end - w.start
StartDay(w) == DayOf(w.start)

OnlyFirstDay(w) == {StartDay(w)}

LocalDays(w) == StartDay(w)..DayOf(w.end)

\* splitIntoLocalDaySegments: a shift that ends at midnight has an empty last segment.
Segments(w) ==
  {[day |-> d,
    from |-> IF d = StartDay(w) THEN w.start % DayLength ELSE 0,
    to |-> IF d = DayOf(w.end) THEN w.end % DayLength ELSE DayLength] : d \in LocalDays(w)}

-----------------------------------------------------------------------------
(* Availability *)

\* The last tick of a window belongs to it.
InclusiveEnd(window) == window.last + 1

Within(segment, window) == window.first =< segment.from /\ InclusiveEnd(window) >= segment.to

Blocks(e, segment) ==
  /\ e.type = "UNAVAILABLE" /\ e.day = segment.day
  /\ e.whole \/ (e.first < segment.to /\ InclusiveEnd(e) > segment.from)

Opens(e, segment) ==
  /\ e.type = "AVAILABLE" /\ e.day = segment.day
  /\ e.whole \/ Within(segment, e)

IsAvailable(w) ==
  \A g \in Segments(w) :
    /\ \A e \in exceptions : ~Blocks(e, g)
    /\ \/ \E e \in exceptions : Opens(e, g)
       \/ \E r \in rules : r.dayOfWeek = DayOfWeek(g.day) /\ Within(g, r)

-----------------------------------------------------------------------------
(* What the engine fetches and computes *)

FetchedOneDay(w) ==
  {v \in held \ {w} : v.start < w.end + LookAhead /\ v.end > w.start - DayLength}

Fetched(w) == {v \in held \ {w} : v.start < w.end + LookAhead /\ v.end > w.start - LookBehind}

Overlaps(v, w) == v.start < w.end /\ v.end > w.start

RestGap(v, w) == IF v.end =< w.start THEN w.start - v.end ELSE v.start - w.end

Total(shifts) == MapThenSumSet(Hours, shifts)

\* All hours of a shift count for the day and the week it starts in.
HoursByEnd(shifts, day) == Total({v \in shifts : DayOf(v.end) = day})

HoursOn(shifts, day) == Total({v \in shifts : StartDay(v) = day})

HoursIn(shifts, week) == Total({v \in shifts : WeekOf(StartDay(v)) = week})

\* Consecutive worked days right before a day.
StreakBefore(shifts, day) ==
  LET worked == {StartDay(v) : v \in shifts}
      unbroken(n) == \A i \in 1..n : day - i \in worked
  IN  Max({n \in 0..Cardinality(worked) : unbroken(n)})

\* evaluateConstraints: the names of the violated rules.
Violations(w) ==
  LET near == Fetched(w)
      overlap == \E v \in near : Overlaps(v, w)
      daily == HoursOn(near, StartDay(w)) + Hours(w)
      weekly == HoursIn(near, WeekOf(StartDay(w))) + Hours(w)
      streak == StreakBefore(near, StartDay(w)) + 1
      broken ==
        [UNAVAILABLE |-> ~IsAvailable(w),
         DOUBLE_BOOKED |-> overlap,
         MIN_REST_HOURS |-> ~overlap /\ \E v \in near : RestGap(v, w) < MinRest,
         DAILY_HOURS_HARD_BLOCK |-> daily > DailyBlock,
         DAILY_HOURS_WARNING |-> daily > DailyWarning /\ daily =< DailyBlock,
         WEEKLY_HOURS_OVERTIME |-> weekly > WeeklyOvertime,
         WEEKLY_HOURS_WARNING |-> weekly > WeeklyWarning /\ weekly =< WeeklyOvertime,
         SEVENTH_CONSECUTIVE_DAY |-> streak >= 7 /\ WeekOf(StartDay(w)) \notin overrides,
         SIXTH_CONSECUTIVE_DAY |-> streak = 6]
  IN  {rule \in DOMAIN broken : broken[rule]}

Warnings == {"DAILY_HOURS_WARNING", "WEEKLY_HOURS_OVERTIME", "WEEKLY_HOURS_WARNING",
             "SIXTH_CONSECUTIVE_DAY"}

Accepted(w) == Violations(w) \subseteq Warnings

-----------------------------------------------------------------------------
(* The weekly overtime report *)

Utc(t) == t - UtcOffset

SundayOf(week) == 7 * week * DayLength

ExactWeek(week) ==
  {v \in held : SundayOf(week) =< Utc(v.start) /\ Utc(v.start) < SundayOf(week + 1)}

\* Fetched by UTC, with a day to spare on both sides for the time zone.
AroundWeek(week) ==
  {v \in held : /\ SundayOf(week) - DayLength =< Utc(v.start)
                /\ Utc(v.start) < SundayOf(week + 1) + DayLength}

\* getWeeklyOvertimeReport: the status of the week; costs follow from the hours.
ReportStatus(week) ==
  LET weekly == Total({v \in AroundWeek(week) : WeekOf(StartDay(v)) = week})
  IN  CASE weekly > WeeklyOvertime -> "OVERTIME"
        [] weekly > WeeklyWarning /\ weekly =< WeeklyOvertime -> "WARNING"
        [] OTHER -> "OK"

-----------------------------------------------------------------------------
(* Calls *)

Assign(w) ==
  /\ w \notin held
  /\ held' = IF Accepted(w) THEN held \cup {w} ELSE held
  /\ response' = Violations(w)
  /\ UNCHANGED <<rules, exceptions, overrides>>

Unassign(w) ==
  /\ w \in held
  /\ held' = held \ {w}
  /\ response' = {}
  /\ UNCHANGED <<rules, exceptions, overrides>>

\* createRule, deleteRule and updateRule; new times for a rule are a removal and an addition.
SetRule(r) ==
  /\ rules' = IF r \in rules THEN rules \ {r} ELSE rules \cup {r}
  /\ response' = {}
  /\ UNCHANGED <<held, exceptions, overrides>>

SetException(e) ==
  /\ exceptions' = IF e \in exceptions THEN exceptions \ {e} ELSE exceptions \cup {e}
  /\ response' = {}
  /\ UNCHANGED <<held, rules, overrides>>

Init ==
  /\ held = {}
  /\ rules = InitRules
  /\ exceptions = {}
  /\ overrides \in SUBSET OverrideChoices
  /\ response = {}

Next ==
  \/ \E w \in Candidates : Assign(w) \/ Unassign(w)
  \/ \E r \in RuleChoices : SetRule(r)
  \/ \E e \in ExceptionChoices : SetException(e)

Spec == Init /\ [][Next]_vars

-----------------------------------------------------------------------------
(* Properties *)

Given(w) == w \notin held /\ w \in held'

\* The reference for availability, tick by tick: the staff member is in at t.
InAt(t) ==
  LET tick == t % DayLength
      open(x) == x.first =< tick /\ tick =< x.last
      onDay(e) == e.day = DayOf(t) /\ (e.whole \/ open(e))
  IN  /\ ~\E e \in exceptions : e.type = "UNAVAILABLE" /\ onDay(e)
      /\ \/ \E e \in exceptions : e.type = "AVAILABLE" /\ onDay(e)
         \/ \E r \in rules : r.dayOfWeek = DayOfWeek(DayOf(t)) /\ open(r)

\* A shift is only given to a staff member who is in for every tick of it, over midnight
\* as well: the split into local days loses no part of the shift.
GivenOnlyWhenIn ==
  [][\A w \in Candidates : Given(w) => \A t \in w.start..w.end - 1 : InAt(t)]_vars

\* Whatever the order of assignments, the shifts that start on one day never add up to
\* more than the hard daily limit.
DailyLimitKept ==
  \A w \in held : Total({v \in held : StartDay(v) = StartDay(w)}) =< DailyBlock

\* Nobody is given a shift that makes today the seventh day in a row, or a later one,
\* unless the week has an override: the fetched days reach back far enough.
StreakNeedsOverride ==
  [][\A w \in Candidates :
       Given(w) /\ (\A i \in 1..6 : \E v \in held : StartDay(v) = StartDay(w) - i)
         => WeekOf(StartDay(w)) \in overrides]_vars

\* A response never warns of more hours than the weekly report then shows: the report
\* fetches by UTC, and must not lose a shift at either end of the local week.
WarningsAreReported ==
  [][\A w \in Candidates :
       LET status == ReportStatus(WeekOf(StartDay(w)))'
       IN  Given(w) =>
             /\ "WEEKLY_HOURS_OVERTIME" \in response' => status = "OVERTIME"
             /\ "WEEKLY_HOURS_WARNING" \in response' => status # "OK"]_vars

\* When the report of a shift's week shows overtime after the shift is assigned, the
\* response to that assignment announced it.
OvertimeIsAnnounced ==
  [][\A w \in Candidates :
       Given(w) /\ ReportStatus(WeekOf(StartDay(w)))' = "OVERTIME"
         => "WEEKLY_HOURS_OVERTIME" \in response']_vars

\* Nobody works seven days in a row in weeks without a documented override.
NoUndocumentedStreak ==
  \A w \in held :
    (\A i \in 0..6 : \E v \in held : StartDay(v) = StartDay(w) - i)
      => \E i \in 0..6 : WeekOf(StartDay(w) - i) \in overrides
=============================================================================
