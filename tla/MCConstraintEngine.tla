------------------------- MODULE MCConstraintEngine -------------------------
(* Instances of ConstraintEngine for TLC: a tick is two hours. *)
EXTENDS ConstraintEngine

Shift(day, from, to) == [start |-> 12 * day + from, end |-> 12 * day + to]

\* Eight hours from eight o'clock, on each of some days.
Days(days) == {Shift(d, 4, 8) : d \in days}

\* Seven days over the turn of the week, a Saturday evening that is Sunday in UTC, an
\* early shift on day 2 and a night shift from day 2 to day 3, with enough rest between
\* them and too many hours.
MixedShifts == Days((1..7) \ {6}) \cup {Shift(6, 8, 11), Shift(2, 0, 3), Shift(2, 10, 14)}

\* Pacific time.
WestCoast == -4
Week == Days(0..6)

Open(day, first, last) == [dayOfWeek |-> day, first |-> first, last |-> last]
AllWeek == {Open(d, 0, 11) : d \in 0..6}
AroundDay2 == {Open(2, 0, 11), Open(3, 0, 3)}
MixedRules == {r \in AllWeek : r.dayOfWeek \notin {2, 3}} \cup AroundDay2

Exception(day, type, whole, first, last) ==
  [day |-> day, type |-> type, whole |-> whole, first |-> first, last |-> last]

SomeExceptions == {Exception(2, "UNAVAILABLE", FALSE, 4, 5), Exception(3, "AVAILABLE", TRUE, 0, 0)}
=============================================================================
