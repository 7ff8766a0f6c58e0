---------------------------- MODULE MCScheduling ----------------------------
(* Instances of Scheduling for TLC.  A unit of time is about five hours. *)
EXTENDS Scheduling, TLC

CONSTANTS p1, p2, s1, s2, s3

Win(a, b) == [start |-> a, end |-> b]

\* Two shifts at Dawn overlap, as do two at Dusk; one of each leaves just enough rest.
Dawn == Win(2, 4)
Dusk == Win(6, 8)

DayWindows == {Dawn, Dusk}
DayShifts == s1 :> Dawn @@ s2 :> Dusk
Night == Win(10, 12)
WeekShifts == s1 :> Dawn @@ s2 :> Dusk @@ s3 :> Night
WeekWindows == {Dawn, Dusk, Night}
TwoAtDusk == s1 :> Dawn @@ s2 :> Dusk @@ s3 :> Dusk

\* Short shifts close together, so that the clock passes every start within its bound.
BriefWindows == {Win(1, 2), Win(2, 3)}
BriefShifts == s1 :> Win(1, 2) @@ s2 :> Win(2, 3)

\* Who is assigned at the start.
EmptyRoster == {}
HalfRoster == {<<s1, p1>>}
DayRoster == {<<s1, p1>>, <<s2, p2>>}
FullRoster == {s1, s2, s3} \X {p1}
BusyRoster == {<<s1, p1>>, <<s2, p2>>, <<s3, p1>>}

\* Permuting staff is a symmetry only of an empty roster.
HandlerSymmetry == Permutations(Handlers) \cup Permutations(Requests)
StaffSymmetry == HandlerSymmetry \cup Permutations(Staff)
=============================================================================
