---------------------------- MODULE RosterProofs ----------------------------
(***************************************************************************)
(* Scheduling implements the abstract Roster: whatever calls overlap and   *)
(* whoever dies, seats are taken, handed over and given up one at a time,  *)
(* and only by people whose other shifts leave room.                       *)
(***************************************************************************)
EXTENDS SchedulingProofs

-----------------------------------------------------------------------------
(* What the invariant of SchedulingProofs does not say *)

\* Only taken seats are marked as moved since the verdict.
EditedIsHeld == \A s \in Shifts, p \in Staff : <<s, p>> \in edited => Holds(p, s)

\* Once assign has counted, its staff member is not on the shift: whoever would put
\* them there needs their lock.
CountedSteps == {"assign_check", "assign_write"}

CountHolds == \A h \in Procs : job[h].pc \in CountedSteps => ~Holds(job[h].to, job[h].shift)

SeatInv == EditedIsHeld /\ CountHolds

\* The seats of the refinement mapping.
Seats == {seat \in Shifts \X Staff : Holds(seat[2], seat[1])}

-----------------------------------------------------------------------------
(* How a step of handler h may touch the roster *)

SameRoster == UNCHANGED <<window, assignment, edited>>

OthersStay(h) == \A g \in Procs \ {h} : job'[g] = job[g]

\* Seats h is about to give itself have been counted.
CountedAfter(h) ==
  job'[h].pc \in CountedSteps => ~Holds(job[h].to, job[h].shift)'

LEMMA RosterUnchanged ==
  ASSUME IInv, SeatInv, NEW h \in Procs, SameRoster, OthersStay(h), CountedAfter(h)
  PROVE  SeatInv' /\ UNCHANGED R!roster
<1>1. SeatInv'
  BY DEF SeatInv, EditedIsHeld, CountHolds, Holds, SameRoster, OthersStay, CountedAfter
<1>2. UNCHANGED R!roster
  BY DEF R!roster, SameRoster, Holds
<1> QED
  BY <1>1, <1>2

\* A seat is taken, with the staff member's lock.
LEMMA TakeRefines ==
  ASSUME IInv, SeatInv, NEW h \in Procs, OthersStay(h), job'[h].pc \notin CountedSteps,
         NEW s \in Shifts, NEW p \in Staff, NEW w \in Windows,
         ~Holds(p, s), userLock[p] = h, UNCHANGED window,
         \A t \in Shifts \ {s} : Holds(p, t) /\ Clash(window[t], w) => <<t, p>> \in edited,
         Seat(s, p, w)
  PROVE  SeatInv' /\ R!Take(s, p, w)
<1>1. \A t \in Shifts, q \in Staff : Holds(q, t)' <=> Holds(q, t) \/ (t = s /\ q = p)
  BY DEF Seat, Holds, IInv, TypeOK
<1>2. edited \subseteq Shifts \X Staff
  BY DEF IInv, TypeOK
<1>3. EditedIsHeld'
  BY <1>1 DEF Seat, Judged, SeatInv, EditedIsHeld
<1>4. CountHolds'
  <2> SUFFICES ASSUME NEW g \in Procs, job'[g].pc \in CountedSteps
               PROVE  ~Holds(job[g].to, job[g].shift)'
    BY DEF CountHolds
  <2>1. g # h /\ job'[g] = job[g]
    BY DEF OthersStay
  <2>2. /\ job[g].to \in Staff /\ job[g].shift \in Shifts /\ userLock[job[g].to] = g
        /\ ~Holds(job[g].to, job[g].shift)
    BY <2>1 DEF CountedSteps, IInv, JobsOK, JobOK, AssignSteps, LocksHeld, LockedSteps,
                SeatInv, CountHolds
  <2> QED
    BY <1>1, <2>1, <2>2
<1>5. R!Take(s, p, w)
  <2>1. R!Fits(s, p, w)
    BY DEF R!Fits, R!HoldsOnly
  <2>2. Seats' = Seats \cup {<<s, p>>}
    BY <1>1 DEF Seats
  <2>3. <<s, p>> \notin Seats
    BY DEF Seats
  <2>4. edited' = IF w = window[s] THEN (edited \cap Seats) \ {<<s, p>>}
                  ELSE (edited \cap Seats) \cup {<<s, p>>}
    <3>1. edited \cap Seats = edited
      BY <1>2 DEF SeatInv, EditedIsHeld, Seats
    <3> QED
      BY <3>1 DEF Seat, Judged
  <2> QED
    BY <2>1, <2>2, <2>3, <2>4 DEF R!Take, R!VettedSeat, Seats
<1> QED
  BY <1>3, <1>4, <1>5 DEF SeatInv

\* A seat is handed over, with the lock of whom it is handed to.
LEMMA HandOverRefines ==
  ASSUME IInv, SeatInv, NEW h \in Procs, OthersStay(h), job'[h].pc \notin CountedSteps,
         NEW s \in Shifts, NEW p \in Staff, NEW q \in Staff, NEW w \in Windows,
         p # q, userLock[q] = h, UNCHANGED window,
         \A t \in Shifts \ {s} : Holds(q, t) /\ Clash(window[t], w) => <<t, q>> \in edited,
         assignment' = [assignment EXCEPT ![s][p] = "CANCELLED", ![s][q] = "ASSIGNED"],
         edited' = Judged(s, q, w) \ {<<s, p>>}
  PROVE  SeatInv' /\ R!HandOver(s, p, q, w)
<1>1. \A t \in Shifts, x \in Staff :
         Holds(x, t)' <=> (Holds(x, t) /\ ~(t = s /\ x = p)) \/ (t = s /\ x = q)
  BY DEF Holds, IInv, TypeOK
<1>2. edited \subseteq Shifts \X Staff
  BY DEF IInv, TypeOK
<1>3. EditedIsHeld'
  BY <1>1 DEF Judged, SeatInv, EditedIsHeld
<1>4. CountHolds'
  <2> SUFFICES ASSUME NEW g \in Procs, job'[g].pc \in CountedSteps
               PROVE  ~Holds(job[g].to, job[g].shift)'
    BY DEF CountHolds, OthersStay
  <2>1. g # h /\ job'[g] = job[g]
    BY DEF OthersStay
  <2>2. /\ job[g].to \in Staff /\ job[g].shift \in Shifts /\ userLock[job[g].to] = g
        /\ ~Holds(job[g].to, job[g].shift)
    BY <2>1 DEF CountedSteps, IInv, JobsOK, JobOK, AssignSteps, LocksHeld, LockedSteps,
                SeatInv, CountHolds
  <2> QED
    BY <1>1, <2>1, <2>2
<1>5. R!HandOver(s, p, q, w)
  <2> DEFINE others == Seats \ {<<s, p>>}
  <2>1. R!Fits(s, q, w)
    BY DEF R!Fits, R!HoldsOnly
  <2>2. Seats' = others \cup {<<s, q>>}
    BY <1>1 DEF Seats
  <2>3. edited' = IF w = window[s] THEN (edited \cap others) \ {<<s, q>>}
                  ELSE (edited \cap others) \cup {<<s, q>>}
    <3>1. edited \cap others = edited \ {<<s, p>>}
      BY <1>2 DEF SeatInv, EditedIsHeld, Seats
    <3> QED
      BY <3>1 DEF Judged
  <2> QED
    BY <2>1, <2>2, <2>3 DEF R!HandOver, R!VettedSeat, Seats
<1> QED
  BY <1>3, <1>4, <1>5 DEF SeatInv

\* A step that goes on with local variables j is a step of h alone.
LEMMA OneHandlerMoves ==
  ASSUME IInv, NEW h \in Procs, NEW j, Continue(h, j)
  PROVE  OthersStay(h) /\ job'[h] = j
BY DEF Continue, OthersStay, IInv, TypeOK

\* Seats change hands by nobody's being seated: whoever has counted is unaffected.
LEMMA CountsSurvive ==
  ASSUME IInv, SeatInv, NEW h \in Procs, OthersStay(h), job'[h].pc \notin CountedSteps,
         \A t \in Shifts, p \in Staff : Holds(p, t)' => Holds(p, t)
  PROVE  CountHolds'
<1> SUFFICES ASSUME NEW g \in Procs, job'[g].pc \in CountedSteps
             PROVE  ~Holds(job[g].to, job[g].shift)'
  BY DEF CountHolds
<1>1. g # h /\ job'[g] = job[g]
  BY DEF OthersStay
<1>2. /\ job[g].to \in Staff /\ job[g].shift \in Shifts
      /\ ~Holds(job[g].to, job[g].shift)
  BY <1>1 DEF CountedSteps, IInv, JobsOK, JobOK, AssignSteps, SeatInv, CountHolds
<1> QED
  BY <1>1, <1>2

-----------------------------------------------------------------------------
(* The steps that write the roster *)

LEMMA AssignWriteRefines ==
  ASSUME IInv, SeatInv, NEW h \in Procs, AssignWrite(h), ~Refuse(h)
  PROVE  SeatInv' /\ R!RNext
<1> DEFINE s == job[h].shift
           p == job[h].to
           w == job[h].win
<1>1. job[h].pc = "assign_write" /\ JobOK(job[h])
  BY DEF AssignWrite, At, IInv, JobsOK
<1>2. s \in Shifts /\ p \in Staff /\ w \in Windows
  BY <1>1 DEF JobOK, AssignSteps
<1>3. VerdictHolds(job[h]) /\ userLock[p] = h /\ ~Holds(p, s)
  BY <1>1 DEF IInv, VerdictsHold, LocksHeld, CommitSteps, LockedSteps, SeatInv, CountHolds,
              CountedSteps
<1>4. Seat(s, p, w) /\ Finish(h) /\ UNCHANGED window
  BY DEF AssignWrite, shiftVars
<1>5. OthersStay(h) /\ job'[h].pc \notin CountedSteps
  BY <1>4, OneHandlerMoves, NoJobIsIdle DEF Finish, CountedSteps
<1>6. \A t \in Shifts \ {s} : Holds(p, t) /\ Clash(window[t], w) => <<t, p>> \in edited
  BY <1>3 DEF VerdictHolds
<1> HIDE DEF s, p, w
<1>7. SeatInv' /\ R!Take(s, p, w)
  BY <1>2, <1>3, <1>4, <1>5, <1>6, TakeRefines
<1> QED
  BY <1>2, <1>7 DEF R!RNext

LEMMA TransferWriteRefines ==
  ASSUME IInv, SeatInv, NEW h \in Procs, TransferWrite(h), ~Refuse(h)
  PROVE  SeatInv' /\ R!RNext
<1> DEFINE s == job[h].shift
           p == job[h].from
           q == job[h].to
           w == job[h].win
<1>1. job[h].pc = "transfer_write" /\ JobOK(job[h])
  BY DEF TransferWrite, At, IInv, JobsOK
<1>2. s \in Shifts /\ p \in Staff /\ q \in Staff /\ p # q /\ w \in Windows
  BY <1>1 DEF JobOK, TransferSteps
<1>3. VerdictHolds(job[h]) /\ userLock[q] = h
  BY <1>1 DEF IInv, VerdictsHold, LocksHeld, CommitSteps, LockedSteps
<1>4. /\ assignment' = [assignment EXCEPT ![s][p] = "CANCELLED", ![s][q] = "ASSIGNED"]
      /\ edited' = Judged(s, q, w) \ {<<s, p>>}
      /\ Continue(h, AfterTransfer(h)) /\ UNCHANGED window
  BY DEF TransferWrite, Transfer, shiftVars
<1>5. AfterTransfer(h).pc \notin CountedSteps
  BY DEF AfterTransfer, TransferJob, NoJob, CountedSteps
<1>6. OthersStay(h) /\ job'[h].pc \notin CountedSteps
  BY <1>4, <1>5, OneHandlerMoves
<1>7. \A t \in Shifts \ {s} : Holds(q, t) /\ Clash(window[t], w) => <<t, q>> \in edited
  BY <1>3 DEF VerdictHolds
<1> HIDE DEF s, p, q, w
<1>8. SeatInv' /\ R!HandOver(s, p, q, w)
  BY <1>2, <1>3, <1>4, <1>6, <1>7, HandOverRefines
<1> QED
  BY <1>2, <1>8 DEF R!RNext

LEMMA UnassignWriteRefines ==
  ASSUME IInv, SeatInv, NEW h \in Procs, UnassignWrite(h), ~Refuse(h)
  PROVE  SeatInv' /\ R!RNext
<1> DEFINE s == job[h].shift
           p == job[h].to
<1>1. s \in Shifts /\ p \in Staff
  BY DEF UnassignWrite, At, IInv, JobsOK, JobOK, CancelSteps
<1>2. Unseat(s, p) /\ UNCHANGED window
  BY DEF UnassignWrite, shiftVars
<1>3. OthersStay(h) /\ job'[h].pc \notin CountedSteps
  <2>1. Continue(h, [NoJob EXCEPT !.pc = "cancel_find", !.shift = s, !.rows = {p}])
    BY DEF UnassignWrite
  <2> QED
    BY <2>1 DEF Continue, NoJob, CountedSteps, OthersStay, IInv, TypeOK
<1> HIDE DEF s, p
<1>4. \A t \in Shifts, x \in Staff : Holds(x, t)' <=> Holds(x, t) /\ ~(t = s /\ x = p)
  BY <1>1, <1>2 DEF Unseat, Holds, IInv, TypeOK
<1>5. SeatInv'
  <2>1. EditedIsHeld'
    BY <1>2, <1>4 DEF Unseat, SeatInv, EditedIsHeld
  <2> QED
    BY <1>3, <1>4, <2>1, CountsSurvive DEF SeatInv
<1>6. R!Release(s, p)
  <2>1. Seats' = Seats \ {<<s, p>>}
    BY <1>4 DEF Seats
  <2> QED
    BY <1>2, <2>1 DEF R!Release, Unseat, Seats
<1> QED
  BY <1>1, <1>5, <1>6 DEF R!RNext

\* A shift with holders p is moved to the times w.
LEMMA MoveRefines ==
  ASSUME IInv, SeatInv, NEW h \in Procs, OthersStay(h), job'[h].pc \notin CountedSteps,
         NEW s \in Shifts, NEW w \in Windows, UNCHANGED assignment,
         window' = [window EXCEPT ![s] = w],
         edited' = edited \cup MovedHolders(s, w)
  PROVE  SeatInv' /\ R!RNext
<1>1. MovedHolders(s, w) = IF w = window[s] THEN {} ELSE Seats \cap ({s} \X Staff)
  BY DEF MovedHolders, HoldersOf, Seats
<1>2. \A t \in Shifts, x \in Staff : Holds(x, t)' <=> Holds(x, t)
  BY DEF Holds
<1>3. SeatInv'
  <2>1. EditedIsHeld'
    BY <1>1, <1>2 DEF SeatInv, EditedIsHeld, Seats
  <2> QED
    BY <1>2, <2>1, CountsSurvive DEF SeatInv
<1>4. R!Move(s, w)
  <2>1. Seats' = Seats
    BY <1>2 DEF Seats
  <2> QED
    BY <1>1, <2>1 DEF R!Move, Seats
<1> QED
  BY <1>3, <1>4 DEF R!RNext

LEMMA EditWriteRefines ==
  ASSUME IInv, SeatInv, NEW h \in Procs, EditWrite(h), ~Refuse(h)
  PROVE  SeatInv' /\ R!RNext
<1>1. job[h].shift \in Shifts /\ job[h].win \in Windows
  BY DEF EditWrite, At, IInv, JobsOK, JobOK, ShiftSteps
<1>2. OthersStay(h) /\ job'[h].pc \notin CountedSteps
  <2>1. Continue(h, [NoJob EXCEPT !.pc = "edit_rows", !.shift = job[h].shift])
    BY DEF EditWrite
  <2> QED
    BY <2>1 DEF Continue, NoJob, CountedSteps, OthersStay, IInv, TypeOK
<1> QED
  BY <1>1, <1>2, MoveRefines DEF EditWrite

LEMMA CreateWriteRefines ==
  ASSUME IInv, SeatInv, NEW h \in Procs, CreateWrite(h)
  PROVE  SeatInv' /\ R!RNext
<1>1. job[h].pc = "create_write" /\ JobOK(job[h])
  BY DEF CreateWrite, At, IInv, JobsOK
<1>2. job[h].shift \in Shifts /\ job[h].win \in Windows /\ life[job[h].shift] = "FRESH"
  BY <1>1 DEF JobOK, ShiftSteps, IInv, ShiftsDiffer, At
<1>3. OthersStay(h) /\ job'[h].pc \notin CountedSteps
  BY OneHandlerMoves, NoJobIsIdle DEF CreateWrite, Finish, CountedSteps
<1>4. MovedHolders(job[h].shift, job[h].win) = {}
  BY <1>2 DEF MovedHolders, HoldersOf, Holds, IInv, FreshIsEmpty
<1> QED
  BY <1>2, <1>3, <1>4, MoveRefines DEF CreateWrite, rosterVars

LEMMA RemoveDeleteRefines ==
  ASSUME IInv, SeatInv, NEW h \in Procs, RemoveDelete(h), ~Refuse(h)
  PROVE  SeatInv' /\ R!RNext
<1>1. PICK s \in Shifts : s = job[h].shift
  BY DEF RemoveDelete, At, IInv, JobsOK, JobOK, ShiftSteps
<1>2. /\ assignment' = [assignment EXCEPT ![s] = [p \in Staff |-> "NONE"]]
      /\ edited' = edited \ ({s} \X Staff)
      /\ Finish(h) /\ UNCHANGED window
  BY <1>1 DEF RemoveDelete
<1>3. OthersStay(h) /\ job'[h].pc \notin CountedSteps
  BY <1>2, OneHandlerMoves, NoJobIsIdle DEF Finish, CountedSteps
<1>4. \A t \in Shifts, x \in Staff : Holds(x, t)' <=> Holds(x, t) /\ t # s
  BY <1>2 DEF Holds, IInv, TypeOK
<1>5. SeatInv'
  <2>1. EditedIsHeld'
    BY <1>2, <1>4 DEF SeatInv, EditedIsHeld
  <2> QED
    BY <1>3, <1>4, <2>1, CountsSurvive DEF SeatInv
<1>6. R!Delete(s)
  <2>1. Seats' = Seats \ ({s} \X Staff)
    BY <1>4 DEF Seats
  <2> QED
    BY <1>2, <2>1 DEF R!Delete, Seats
<1> QED
  BY <1>5, <1>6 DEF R!RNext

-----------------------------------------------------------------------------
(* The steps that leave the roster as it is *)

Stutters == SeatInv' /\ UNCHANGED R!roster

GoesOn(h) == OthersStay(h) /\ job'[h].pc \notin CountedSteps

LEMMA GoesQuietly ==
  ASSUME IInv, SeatInv, NEW h \in Procs, SameRoster, GoesOn(h)
  PROVE  Stutters
<1>1. OthersStay(h) /\ CountedAfter(h)
  BY DEF GoesOn, CountedAfter
<1> QED
  BY <1>1, RosterUnchanged DEF Stutters

LEMMA QuietlyOn ==
  ASSUME IInv, SeatInv, NEW h \in Procs, SameRoster,
         NEW j, Continue(h, j), j.pc \notin CountedSteps
  PROVE  Stutters
BY OneHandlerMoves, GoesQuietly DEF GoesOn

LEMMA RefusalStutters ==
  ASSUME IInv, SeatInv, NEW h \in Procs, Refuse(h)
  PROVE  Stutters
<1>1. SameRoster /\ Continue(h, NoJob) /\ NoJob.pc \notin CountedSteps
  BY NoJobIsIdle DEF Refuse, Finish, SameRoster, shiftVars, rosterVars, CountedSteps
<1> QED
  BY <1>1, QuietlyOn

\* assign counts the seats of the shift and looks for one of the staff member, and
\* then asks the engine, all under the lock.
LEMMA AssignStepsStutter ==
  ASSUME IInv, SeatInv, NEW h \in Procs, AssignLock(h) \/ AssignCount(h) \/ AssignCheck(h)
  PROVE  Stutters
<1>1. CASE Refuse(h)
  BY <1>1, RefusalStutters
<1>2. CASE AssignLock(h)
  <2>1. Advance(h, "assign_count") /\ SameRoster
    BY <1>2 DEF AssignLock, TakeLockAndGoTo, SameRoster, shiftVars, rosterVars
  <2>2. [job[h] EXCEPT !.pc = "assign_count"].pc \notin CountedSteps
    BY DEF CountedSteps, IInv, TypeOK, Job
  <2> QED
    BY <2>1, <2>2, QuietlyOn DEF Advance
<1>3. ASSUME NEW pc \in CountedSteps, Advance(h, pc), OnlyJob, ~Holds(job[h].to, job[h].shift)
      PROVE  Stutters
  <2>1. SameRoster
    BY <1>3 DEF OnlyJob, SameRoster, shiftVars, rosterVars
  <2>2. OthersStay(h) /\ job'[h] = [job[h] EXCEPT !.pc = pc] /\ job[h] \in Job
    BY <1>3, OneHandlerMoves DEF Advance, IInv, TypeOK
  <2>3. job'[h].to = job[h].to /\ job'[h].shift = job[h].shift
    BY <2>2 DEF Job
  <2>4. CountedAfter(h)
    BY <1>3, <2>1, <2>3 DEF CountedAfter, SameRoster, Holds
  <2> QED
    BY <2>1, <2>2, <2>4, RosterUnchanged DEF Stutters
<1>4. CASE CountAccepts(h) /\ Advance(h, "assign_check") /\ OnlyJob
  BY <1>3, <1>4 DEF CountAccepts, CountedSteps
<1>5. CASE At(h, "assign_check") /\ Advance(h, "assign_write") /\ OnlyJob
  BY <1>3, <1>5 DEF At, SeatInv, CountHolds, CountedSteps
<1> QED
  BY <1>1, <1>2, <1>4, <1>5 DEF AssignCount, AssignCheck

\* The rest of a manager's calls on shifts.
LEMMA ShiftStepsStutter ==
  ASSUME IInv, SeatInv, NEW h \in Procs,
         \/ CancelFind(h) \/ CancelAll(h) \/ EditRows(h) \/ RemoveCount(h)
         \/ PublishWrite(h) \/ UnpublishWrite(h)
  PROVE  Stutters
<1>1. CASE Refuse(h)
  BY <1>1, RefusalStutters
<1>2. CASE CancelFind(h)
  <2>1. SameRoster
    BY <1>2 DEF CancelFind, OnlyJob, SameRoster, shiftVars, rosterVars
  <2>2. PICK found : \/ Continue(h, NoJob)
                     \/ Continue(h, [job[h] EXCEPT !.pc = "cancel_all", !.hits = found])
    BY <1>2 DEF CancelFind
  <2>3. [job[h] EXCEPT !.pc = "cancel_all", !.hits = found].pc \notin CountedSteps
    BY DEF CountedSteps, IInv, TypeOK, Job
  <2> QED
    BY <2>1, <2>2, <2>3, QuietlyOn, NoJobIsIdle DEF CountedSteps
<1>3. CASE EditRows(h)
  <2>1. SameRoster
    BY <1>3 DEF EditRows, OnlyJob, SameRoster, shiftVars, rosterVars
  <2>2. PICK rows : \/ Continue(h, NoJob)
                    \/ Continue(h, [job[h] EXCEPT !.pc = "cancel_find", !.rows = rows])
    BY <1>3 DEF EditRows
  <2>3. [job[h] EXCEPT !.pc = "cancel_find", !.rows = rows].pc \notin CountedSteps
    BY DEF CountedSteps, IInv, TypeOK, Job
  <2> QED
    BY <2>1, <2>2, <2>3, QuietlyOn, NoJobIsIdle DEF CountedSteps
<1>4. CASE RemoveCount(h) /\ Advance(h, "remove_delete") /\ OnlyJob
  <2>1. SameRoster
    BY <1>4 DEF OnlyJob, SameRoster, shiftVars, rosterVars
  <2>2. [job[h] EXCEPT !.pc = "remove_delete"].pc \notin CountedSteps
    BY DEF CountedSteps, IInv, TypeOK, Job
  <2> QED
    BY <1>4, <2>1, <2>2, QuietlyOn DEF Advance
<1>5. CASE CancelAll(h) \/ PublishWrite(h) \/ UnpublishWrite(h)
  <2>1. SameRoster /\ Continue(h, NoJob)
    BY <1>5 DEF CancelAll, PublishWrite, UnpublishWrite, SetPublished, Finish, SameRoster,
                shiftVars, rosterVars
  <2> QED
    BY <2>1, QuietlyOn, NoJobIsIdle DEF CountedSteps
<1> QED
  BY <1>1, <1>2, <1>3, <1>4, <1>5 DEF RemoveCount

\* Requests are made, answered and resolved without touching the roster.
LEMMA SwapStepsStutter ==
  ASSUME IInv, SeatInv, NEW h \in Procs,
         \/ SwapCreate(h) \/ DropCreate(h) \/ DropEnqueue(h) \/ StalledJob(h)
         \/ AcceptWrite(h) \/ DeclineWrite(h) \/ ClaimWrite(h)
         \/ CancelWrite(h) \/ CancelJob(h) \/ RejectWrite(h) \/ ExpireWrite(h)
         \/ TransferLock(h) \/ TransferCheck(h) \/ ApproveWrite(h)
  PROVE  Stutters
<1>1. ASSUME NEW pc \in Steps \ CountedSteps, Advance(h, pc), SameRoster
      PROVE  Stutters
  <2>1. [job[h] EXCEPT !.pc = pc].pc \notin CountedSteps
    BY <1>1 DEF IInv, TypeOK, Job
  <2> QED
    BY <1>1, <2>1, QuietlyOn DEF Advance
<1>2. ASSUME Finish(h), SameRoster
      PROVE  Stutters
  BY <1>2, QuietlyOn, NoJobIsIdle DEF Finish, CountedSteps
<1>3. /\ {"drop_enqueue", "cancel_job", "transfer_check", "transfer_write"}
             \subseteq Steps \ CountedSteps
      /\ UNCHANGED <<shiftVars, rosterVars>> => SameRoster
  BY DEF Steps, LockedSteps, CountedSteps, SameRoster, shiftVars, rosterVars
<1>4. CASE Refuse(h)
  BY <1>4, RefusalStutters
<1>5. CASE SwapCreate(h) \/ DropCreate(h)
  BY <1>1, <1>2, <1>3, <1>4, <1>5 DEF SwapCreate, DropCreate, DropCreateThen
<1>6. CASE DropEnqueue(h) \/ StalledJob(h) \/ CancelJob(h) \/ ClaimWrite(h)
  BY <1>2, <1>3, <1>6 DEF DropEnqueue, StalledJob, CancelJob, ClaimWrite
<1>7. CASE \/ AcceptWrite(h) \/ DeclineWrite(h) \/ CancelWrite(h)
           \/ RejectWrite(h) \/ ExpireWrite(h) \/ ApproveWrite(h)
  BY <1>1, <1>2, <1>3, <1>7
     DEF AcceptWrite, DeclineWrite, CancelWrite, RejectWrite, ExpireWrite, ApproveWrite, StatusStep
<1>8. CASE TransferLock(h) \/ TransferCheck(h)
  BY <1>1, <1>3, <1>4, <1>8 DEF TransferLock, TransferCheck, TakeLockAndGoTo, OnlyJob
<1> QED
  BY <1>5, <1>6, <1>7, <1>8

\* A call begins.
LEMMA CallsStutter ==
  ASSUME IInv, SeatInv, NEW h \in Procs, AssignmentCall(h) \/ SwapCall(h)
  PROVE  Stutters
<1>1. SameRoster
  BY DEF AssignmentCall, SwapCall, AssignStart, UnassignStart, CreateStart, EditStart, BeginEdit,
         RemoveStart, PublishStart, UnpublishStart, SwapStart, DropStart, AcceptStart,
         DeclineStart, CancelStart, ApproveStart, RejectStart, ClaimStart, OnlyJob, SameRoster,
         shiftVars, rosterVars
<1>2. CASE AssignmentCall(h)
  <2>1. GoesOn(h)
    <3>1. ASSUME NEW s \in Shifts, NEW p \in Staff, AssignStart(h, s, p) \/ UnassignStart(h, s, p)
          PROVE  GoesOn(h)
      BY <3>1 DEF AssignStart, UnassignStart, Continue, NoJob, CountedSteps, GoesOn, OthersStay,
                  IInv, TypeOK
    <3>2. ASSUME NEW s \in Shifts, NEW w \in Windows, NEW n \in Needs,
                 CreateStart(h, s, w, n) \/ EditStart(h, s, w, n)
          PROVE  GoesOn(h)
      BY <3>2 DEF CreateStart, EditStart, BeginEdit, Continue, NoJob, CountedSteps, GoesOn, OthersStay,
                  IInv, TypeOK
    <3>3. ASSUME NEW s \in Shifts, RemoveStart(h, s)
          PROVE  GoesOn(h)
      BY <3>3 DEF RemoveStart, Continue, NoJob, CountedSteps, GoesOn, OthersStay,
                  IInv, TypeOK
    <3>4. ASSUME PublishStart(h) \/ UnpublishStart(h)
          PROVE  GoesOn(h)
      BY <3>4 DEF PublishStart, UnpublishStart, Continue, NoJob, CountedSteps, GoesOn, OthersStay,
                  IInv, TypeOK
    <3> QED
      BY <1>2, <3>1, <3>2, <3>3, <3>4 DEF AssignmentCall
  <2> QED
    BY <1>1, <2>1, GoesQuietly
<1>3. CASE SwapCall(h)
  <2>1. GoesOn(h)
    <3>1. ASSUME NEW r \in Requests, NEW p \in Staff, NEW q \in Staff, NEW s \in Shifts,
                 NEW b \in Shifts \cup {None}, SwapStart(h, r, p, s, q, b)
          PROVE  GoesOn(h)
      BY <3>1 DEF SwapStart, Continue, NoJob, CountedSteps, GoesOn, OthersStay,
                  IInv, TypeOK
    <3>2. ASSUME NEW r \in Requests, NEW p \in Staff, NEW s \in Shifts, DropStart(h, r, p, s)
          PROVE  GoesOn(h)
      BY <3>2 DEF DropStart, Continue, NoJob, CountedSteps, GoesOn, OthersStay,
                  IInv, TypeOK
    <3>3. ASSUME NEW r \in Requests,
                 AcceptStart(h, r) \/ DeclineStart(h, r) \/ CancelStart(h, r) \/ RejectStart(h, r)
          PROVE  GoesOn(h)
      BY <3>3 DEF AcceptStart, DeclineStart, CancelStart, RejectStart, Begin, Continue, NoJob, CountedSteps, GoesOn, OthersStay,
                  IInv, TypeOK
    <3>4. ASSUME NEW r \in Requests, ApproveStart(h, r)
          PROVE  GoesOn(h)
      BY <3>4 DEF ApproveStart, BeginApproval, TransferJob, Continue, NoJob, CountedSteps, GoesOn, OthersStay,
                  IInv, TypeOK
    <3>5. ASSUME NEW r \in Requests, NEW q \in Staff, ClaimStart(h, r, q)
          PROVE  GoesOn(h)
      BY <3>5 DEF ClaimStart, Continue, NoJob, CountedSteps, GoesOn, OthersStay,
                  IInv, TypeOK
    <3> QED
      BY <1>3, <3>1, <3>2, <3>3, <3>4, <3>5 DEF SwapCall
  <2> QED
    BY <1>1, <2>1, GoesQuietly
<1> QED
  BY <1>2, <1>3

\* The worker takes a job, time passes, staff qualify, or nothing happens.
LEMMA WorldStutters ==
  ASSUME IInv, SeatInv,
         \/ \E r \in Requests : ExpireStart(r)
         \/ \E p \in Staff : Requalify(p)
         \/ Tick
         \/ UNCHANGED vars
  PROVE  Stutters
<1>1. SameRoster
  BY DEF ExpireStart, Requalify, Tick, vars, SameRoster, shiftVars, rosterVars
<1>2. CASE UNCHANGED job
  BY <1>1, <1>2 DEF Stutters, SeatInv, EditedIsHeld, CountHolds, Holds, SameRoster, R!roster
<1>3. ASSUME NEW r \in Requests, Begin(Worker, r, "expire_write")
      PROVE  Stutters
  <2>1. GoesOn(Worker)
    BY <1>3 DEF Begin, Continue, NoJob, CountedSteps, GoesOn, OthersStay, IInv, TypeOK, Procs
  <2> QED
    BY <1>1, <2>1, GoesQuietly DEF Procs
<1> QED
  BY <1>2, <1>3 DEF ExpireStart, Requalify, Tick, vars

-----------------------------------------------------------------------------
(* The whole system *)

LEMMA NextRefines ==
  IInv /\ SeatInv /\ [Next]_vars => SeatInv' /\ [R!RNext]_(R!roster)
<1> SUFFICES ASSUME IInv, SeatInv, [Next]_vars
             PROVE  SeatInv' /\ [R!RNext]_(R!roster)
  OBVIOUS
<1>1. ASSUME NEW h \in Procs, Refuse(h)
      PROVE  SeatInv' /\ [R!RNext]_(R!roster)
  BY <1>1, RefusalStutters DEF Stutters
<1>2. ASSUME NEW h \in Procs, HandlerStep(h) \/ Fault(h) \/ StalledJob(h), ~Refuse(h)
      PROVE  SeatInv' /\ [R!RNext]_(R!roster)
  BY <1>2, AssignWriteRefines, TransferWriteRefines, UnassignWriteRefines, EditWriteRefines,
     CreateWriteRefines, RemoveDeleteRefines, AssignStepsStutter, ShiftStepsStutter,
     SwapStepsStutter
     DEF HandlerStep, AssignmentStep, SwapStep, Fault, Stutters
<1>3. ASSUME NEW h \in Handlers, AssignmentCall(h) \/ SwapCall(h)
      PROVE  SeatInv' /\ [R!RNext]_(R!roster)
  BY <1>3, CallsStutter DEF Procs, Stutters
<1> QED
  BY <1>1, <1>2, <1>3, WorldStutters DEF Next, Stutters

LEMMA InitRefines == Init => SeatInv /\ R!RInit
<1> SUFFICES ASSUME Init PROVE SeatInv /\ R!RInit
  OBVIOUS
<1>1. SeatInv
  BY NoJobIsIdle DEF Init, SeatInv, EditedIsHeld, CountHolds, CountedSteps
<1>2. \A s \in Shifts, p \in Staff : Holds(p, s) => <<s, p>> \in InitRoster
  BY DEF Init, Holds
<1>3. \A p \in Staff : \A s, t \in Shifts :
         s # t /\ Holds(p, s) /\ Holds(p, t) => ~Clash(window[t], window[s])
  <2> SUFFICES ASSUME NEW p \in Staff, NEW s \in Shifts, NEW t \in Shifts, s # t,
                      Holds(p, s), Holds(p, t)
               PROVE  ~Clash(window[t], window[s])
    OBVIOUS
  <2>1. <<s, p>> \in InitRoster /\ <<t, p>> \in InitRoster
    BY <1>2
  <2>2. ~Clash(InitWindow[t], InitWindow[s])
    BY <2>1, InitAssumption
  <2> QED
    BY <2>2 DEF Init
<1>4. R!RInit
  <2>1. window \in [Shifts -> Windows] /\ edited = {}
    BY InitAssumption DEF Init
  <2> QED
    BY <1>3, <2>1 DEF R!RInit, R!Fits, R!HoldsOnly
<1> QED
  BY <1>1, <1>4

\* The services implement the abstract roster, for any number of concurrent calls and
\* with handlers dying at any await: assign, unassign, transferAssignment, update,
\* create and remove each change the roster by the one step it allows, and no other
\* step of any handler, of the worker or of the clock changes it.
THEOREM RosterImplemented == Spec => ImplementsRoster
<1>1. Init => SeatInv /\ R!RInit
  BY InitRefines
<1>2. IInv /\ SeatInv /\ [Next]_vars => SeatInv' /\ [R!RNext]_(R!roster)
  BY NextRefines
<1> QED
  BY <1>1, <1>2, InvariantHolds, PTL DEF Spec, ImplementsRoster, R!RSpec
=============================================================================
