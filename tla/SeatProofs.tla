----------------------------- MODULE SeatProofs -----------------------------
(***************************************************************************)
(* What holds of the roster as long as calls do not overlap: nobody is    *)
(* added to a full shift, and nothing of a published week changes past    *)
(* its cutoff but by a transfer.                                          *)
(***************************************************************************)
EXTENDS InTurnProofs

-----------------------------------------------------------------------------
(* The next position of a handler *)

\* The calls on requests, and what they begin with.
LEMMA SwapCallBegins ==
  ASSUME IInv, NEW h \in Procs, SwapCall(h)
  PROVE  /\ OnlyJob /\ OthersStay(h) /\ Idle(h)
         /\ job'[h].pc \in RowCreations \cup {"transfer_lock"} \cup
              {"accept_write", "decline_write", "claim_write", "cancel_write", "reject_write"}
<1>1. PICK r \in Requests :
        \/ \E p, q \in Staff, s \in Shifts, b \in Shifts \cup {None} : SwapStart(h, r, p, s, q, b)
        \/ \E p \in Staff, s \in Shifts : DropStart(h, r, p, s)
        \/ AcceptStart(h, r) \/ DeclineStart(h, r) \/ CancelStart(h, r)
        \/ ApproveStart(h, r) \/ RejectStart(h, r)
        \/ \E q \in Staff : ClaimStart(h, r, q)
  BY Zenon DEF SwapCall
<1> USE DEF Continue, NoJob, OthersStay, RowCreations, IInv, TypeOK
<1>2. CASE AcceptStart(h, r) \/ DeclineStart(h, r) \/ CancelStart(h, r) \/ RejectStart(h, r)
  <2>1. PICK pc \in {"accept_write", "decline_write", "cancel_write", "reject_write"} :
           Begin(h, r, pc) /\ OnlyJob /\ Idle(h)
    BY <1>2 DEF AcceptStart, DeclineStart, CancelStart, RejectStart
  <2>2. OthersStay(h) /\ job'[h].pc = pc
    BY <2>1 DEF Begin
  <2> QED
    BY <2>1, <2>2
<1>3. CASE ApproveStart(h, r)
  BY <1>3 DEF ApproveStart, BeginApproval, TransferJob
<1>4. ASSUME NEW q \in Staff, ClaimStart(h, r, q)
      PROVE  OnlyJob /\ OthersStay(h) /\ Idle(h) /\ job'[h].pc = "claim_write"
  BY <1>4 DEF ClaimStart
<1>5. ASSUME NEW p \in Staff, NEW q \in Staff, NEW s \in Shifts, NEW b \in Shifts \cup {None},
             SwapStart(h, r, p, s, q, b)
      PROVE  OnlyJob /\ OthersStay(h) /\ Idle(h) /\ job'[h].pc = "swap_create"
  BY <1>5 DEF SwapStart
<1>6. ASSUME NEW p \in Staff, NEW s \in Shifts, DropStart(h, r, p, s)
      PROVE  OnlyJob /\ OthersStay(h) /\ Idle(h) /\ job'[h].pc = "drop_create"
  BY <1>6 DEF DropStart
<1> HIDE DEF Continue, NoJob, OthersStay, IInv, TypeOK
<1> QED
  BY <1>1, <1>2, <1>3, <1>4, <1>5, <1>6

\* The steps that write requests, or the queue, and nothing of the roster.
RequestSteps(h) ==
  \/ SwapCreate(h) \/ DropCreate(h) \/ DropEnqueue(h) \/ StalledJob(h)
  \/ AcceptWrite(h) \/ DeclineWrite(h) \/ ClaimWrite(h)
  \/ CancelWrite(h) \/ CancelJob(h) \/ RejectWrite(h) \/ ExpireWrite(h) \/ ApproveWrite(h)

LEMMA RequestStepsEnd ==
  ASSUME IInv, NEW h \in Procs, RequestSteps(h)
  PROVE  /\ UNCHANGED <<shiftVars, rosterVars, moved, worldVars>> /\ OthersStay(h)
         /\ job[h].pc \in CreationSteps \cup AnswerSteps
         /\ job'[h].pc \in {"idle", "drop_enqueue", "cancel_job"}
<1>1. UNCHANGED <<shiftVars, rosterVars, moved, worldVars>> /\ job[h].pc \in CreationSteps \cup AnswerSteps
  BY DEF RequestSteps, SwapCreate, DropCreate, DropCreateThen, DropEnqueue, StalledJob,
         AcceptWrite, DeclineWrite, ClaimWrite, CancelWrite, CancelJob, RejectWrite, ExpireWrite,
         ApproveWrite, StatusStep, Refuse, At, CreationSteps, AnswerSteps, swapVars
<1>2. Finish(h) \/ Advance(h, "drop_enqueue") \/ Advance(h, "cancel_job")
  BY DEF RequestSteps, SwapCreate, DropCreate, DropCreateThen, DropEnqueue, StalledJob,
         AcceptWrite, DeclineWrite, ClaimWrite, CancelWrite, CancelJob, RejectWrite, ExpireWrite,
         ApproveWrite, StatusStep, Refuse
<1>3. CASE Finish(h)
  BY <1>1, <1>3, NoJobIsIdle DEF Finish, Continue, OthersStay, IInv, TypeOK
<1>4. ASSUME NEW pc \in {"drop_enqueue", "cancel_job"}, Advance(h, pc)
      PROVE  OthersStay(h) /\ job'[h].pc = pc
  BY <1>4, AdvanceIsOneStep DEF Steps
<1> QED
  BY <1>1, <1>2, <1>3, <1>4

-----------------------------------------------------------------------------
(* Headcount and cutoff: the inductive invariants *)

\* What assign has read of the shift is still true, and the shift that a transfer hands
\* over is still its owner's.
CountOK(j) ==
  /\ j.pc \in AssignSteps => j.need = need[j.shift]
  /\ j.pc \in {"assign_check", "assign_write"} => HasRoom(j.shift, j.need)
  /\ j.pc = "transfer_write" => Holds(j.from, j.shift)

CountsHold == \A h \in Procs : CountOK(job[h])

\* The shift that a manager's call is about to change is still editable.
EditSteps == AssignSteps \cup {"unassign_write", "edit_write", "remove_count", "remove_delete"}

TimeOK(j) == j.pc \in EditSteps => Editable(window[j.shift].start)

TimesHold == \A h \in Procs : TimeOK(job[h])

\* The clock stands still while a call is in flight.
ClockWaits == now' = now \/ \A h \in Procs : Idle(h)

\* What a step may do to the seats.
Counted ==
  \A s \in Shifts : Cardinality(HoldersOf(s)') > Cardinality(HoldersOf(s))
     => Cardinality(HoldersOf(s)') =< need'[s]

Frozen ==
  \A s \in Shifts : Live(s) /\ ~Editable(window[s].start) =>
     /\ window'[s] = window[s] /\ need'[s] = need[s] /\ life'[s] = life[s]
     /\ assignment'[s] # assignment[s] =>
          \E h \in Procs : At(h, "transfer_write") /\ job[h].shift = s

Kept == CountsHold' /\ Counted /\ (TimesHold => TimesHold' /\ Frozen)

SeatSteps == EditSteps \cup {"transfer_write"}

Off(h) == job'[h].pc \notin SeatSteps

LEMMA HoldersAreFew ==
  ASSUME NEW s \in Shifts
  PROVE  /\ IsFiniteSet(HoldersOf(s)) /\ Cardinality(HoldersOf(s)) \in Nat
         /\ IsFiniteSet(HoldersOf(s)') /\ Cardinality(HoldersOf(s)') \in Nat
<1>1. HoldersOf(s) \subseteq Staff /\ HoldersOf(s)' \subseteq Staff
  BY DEF HoldersOf
<1> QED
  BY <1>1, StaffAssumption, FS_Subset, FS_CardinalityType

\* Nobody is seated.
LEMMA EmptyingIsCounted ==
  ASSUME \A s \in Shifts, p \in Staff : Holds(p, s)' => Holds(p, s)
  PROVE  Counted
<1> SUFFICES ASSUME NEW s \in Shifts PROVE Cardinality(HoldersOf(s)') =< Cardinality(HoldersOf(s))
  BY HoldersAreFew DEF Counted
<1>1. HoldersOf(s)' \subseteq HoldersOf(s)
  BY DEF HoldersOf
<1> QED
  BY <1>1, HoldersAreFew, FS_Subset

\* h leaves the shifts and the seats alone.
LEMMA ReadKeepsSeats ==
  ASSUME IInv, CountsHold, NEW h \in Procs, OthersStay(h),
         UNCHANGED <<shiftVars, rosterVars, published, now>>,
         CountOK(job[h])', TimesHold => TimeOK(job[h])'
  PROVE  Kept
<1>1. CountsHold'
  <2> SUFFICES ASSUME NEW g \in Procs, g # h PROVE CountOK(job[g])'
    BY DEF CountsHold
  <2>1. job'[g] = job[g] /\ CountOK(job[g])
    BY DEF CountsHold, OthersStay
  <2> QED
    BY <2>1 DEF CountOK, HasRoom, HoldersOf, Holds, shiftVars, rosterVars
<1>2. ASSUME TimesHold PROVE TimesHold'
  <2> SUFFICES ASSUME NEW g \in Procs, g # h PROVE TimeOK(job[g])'
    BY <1>2 DEF TimesHold
  <2>1. job'[g] = job[g] /\ TimeOK(job[g])
    BY <1>2 DEF TimesHold, OthersStay
  <2> QED
    BY <2>1 DEF TimeOK, Editable, shiftVars
<1>3. Counted
  BY EmptyingIsCounted DEF Holds, rosterVars
<1>4. Frozen
  BY DEF Frozen, shiftVars, rosterVars
<1> QED
  BY <1>1, <1>2, <1>3, <1>4 DEF Kept

LEMMA OffIsSafe ==
  ASSUME NEW h \in Procs, Off(h)
  PROVE  CountOK(job[h])' /\ TimeOK(job[h])'
BY DEF Off, CountOK, TimeOK, SeatSteps, EditSteps, AssignSteps

LEMMA OffKeepsSeats ==
  ASSUME IInv, CountsHold, NEW h \in Procs, OthersStay(h), Off(h),
         UNCHANGED <<shiftVars, rosterVars, published, now>>
  PROVE  Kept
BY OffIsSafe, ReadKeepsSeats

\* h writes while nobody else is in flight.
LEMMA WriteKeepsSeats ==
  ASSUME InTurn, NEW h \in Procs, ~Idle(h), OthersStay(h), Off(h), Counted, TimesHold => Frozen
  PROVE  Kept
<1>1. ASSUME NEW g \in Procs PROVE CountOK(job[g])' /\ TimeOK(job[g])'
  <2>1. CASE g = h
    BY <2>1, OffIsSafe
  <2>2. CASE g # h
    <3>1. job'[g].pc = "idle"
      BY <2>2 DEF InTurn, Idle, OthersStay
    <3> QED
      BY <3>1 DEF CountOK, TimeOK, EditSteps, AssignSteps
  <2> QED
    BY <2>1, <2>2
<1> QED
  BY <1>1 DEF Kept, CountsHold, TimesHold
-----------------------------------------------------------------------------
(* Steps that leave the shifts and the seats alone *)

\* What a read leaves unchanged.
SeatsAlone == UNCHANGED <<shiftVars, rosterVars, published, now>>

LEMMA LocalIsAlone ==
  ASSUME OnlyJob
  PROVE  SeatsAlone
BY DEF OnlyJob, SeatsAlone, worldVars

LEMMA FinishIsOff ==
  ASSUME IInv, NEW h \in Procs, Finish(h)
  PROVE  OthersStay(h) /\ Off(h)
BY NoJobIsIdle
   DEF Finish, Continue, Off, SeatSteps, EditSteps, AssignSteps, OthersStay, IInv, TypeOK

LEMMA RefusalKeepsSeats ==
  ASSUME IInv, CountsHold, NEW h \in Procs, Refuse(h)
  PROVE  Kept
<1>1. OthersStay(h) /\ Off(h)
  BY FinishIsOff DEF Refuse
<1> QED
  BY <1>1, OffKeepsSeats DEF Refuse, worldVars

LEMMA AdvanceKeepsJob ==
  ASSUME IInv, NEW h \in Procs, NEW pc \in Steps, Advance(h, pc)
  PROVE  /\ OthersStay(h) /\ job'[h].pc = pc /\ job'[h].shift = job[h].shift
         /\ job'[h].from = job[h].from /\ job'[h].need = job[h].need
BY DEF Advance, Continue, OthersStay, IInv, TypeOK, Job

\* assign reads the shift, and from then on counts the seats under the lock.
LEMMA AssignReadsKeepSeats ==
  ASSUME IInv, CountsHold, NEW h \in Procs,
         AssignLock(h) \/ AssignCount(h) \/ AssignCheck(h)
  PROVE  Kept
<1>1. CASE Refuse(h)
  BY <1>1, RefusalKeepsSeats
<1>2. ASSUME NEW pc \in {"assign_count", "assign_check", "assign_write"},
             Advance(h, pc), SeatsAlone, job[h].pc \in AssignSteps,
             pc \in {"assign_check", "assign_write"} => HasRoom(job[h].shift, job[h].need)
      PROVE  Kept
  <2>1. /\ OthersStay(h) /\ job'[h].pc = pc /\ job'[h].shift = job[h].shift
        /\ job'[h].need = job[h].need
    BY <1>2, AdvanceKeepsJob DEF Steps, LockedSteps
  <2>2. job[h].need = need[job[h].shift]
    BY <1>2 DEF CountsHold, CountOK
  <2>3. CountOK(job[h])'
    BY <1>2, <2>1, <2>2
       DEF CountOK, SeatsAlone, shiftVars, rosterVars, HasRoom, HoldersOf, Holds
  <2>4. TimesHold => TimeOK(job[h])'
    BY <1>2, <2>1 DEF TimesHold, TimeOK, EditSteps, SeatsAlone, shiftVars, Editable
  <2> QED
    BY <1>2, <2>1, <2>3, <2>4, ReadKeepsSeats DEF SeatsAlone
<1>3. CASE AssignLock(h)
  BY <1>2, <1>3 DEF AssignLock, At, AssignSteps, TakeLockAndGoTo, SeatsAlone, worldVars
<1>4. CASE AssignCount(h) /\ ~Refuse(h)
  BY <1>2, <1>4, LocalIsAlone DEF AssignCount, CountAccepts, At, AssignSteps
<1>5. CASE AssignCheck(h) /\ ~Refuse(h)
  <2>1. HasRoom(job[h].shift, job[h].need)
    BY <1>5 DEF AssignCheck, At, CountsHold, CountOK
  <2> QED
    BY <1>2, <1>5, <2>1, LocalIsAlone DEF AssignCheck, At, AssignSteps
<1> QED
  BY <1>1, <1>3, <1>4, <1>5

\* A transfer finds its shift in the hands of whom it takes it from.
LEMMA TransferReadsKeepSeats ==
  ASSUME IInv, CountsHold, NEW h \in Procs,
         TransferLock(h) \/ TransferCheck(h)
  PROVE  Kept
<1>1. CASE Refuse(h)
  BY <1>1, RefusalKeepsSeats
<1>2. CASE TransferLock(h)
  <2>1. OthersStay(h) /\ Off(h)
    BY <1>2, AdvanceKeepsJob
       DEF TransferLock, TakeLockAndGoTo, Steps, LockedSteps, Off, SeatSteps, EditSteps, AssignSteps
  <2> QED
    BY <1>2, <2>1, OffKeepsSeats DEF TransferLock, TakeLockAndGoTo, worldVars
<1>3. CASE TransferCheck(h) /\ ~Refuse(h)
  <2>1. /\ OthersStay(h) /\ job'[h].pc = "transfer_write" /\ job'[h].shift = job[h].shift
        /\ job'[h].from = job[h].from
    BY <1>3, AdvanceKeepsJob DEF TransferCheck, Steps, LockedSteps
  <2>2. SeatsAlone /\ Holds(job[h].from, job[h].shift)
    BY <1>3, LocalIsAlone DEF TransferCheck, TransferAccepts
  <2>3. CountOK(job[h])' /\ TimeOK(job[h])'
    BY <2>1, <2>2
       DEF CountOK, TimeOK, AssignSteps, EditSteps, SeatsAlone, rosterVars, Holds
  <2> QED
    BY <2>1, <2>2, <2>3, ReadKeepsSeats DEF SeatsAlone
<1> QED
  BY <1>1, <1>2, <1>3

\* Looking for holders and for their requests.
LEMMA SearchesKeepSeats ==
  ASSUME IInv, CountsHold, NEW h \in Procs, CancelFind(h) \/ EditRows(h)
  PROVE  Kept
<1>1. SeatsAlone
  BY LocalIsAlone DEF CancelFind, EditRows
<1>2. OthersStay(h) /\ Off(h)
  <2>1. PICK x : \/ Finish(h)
                 \/ Continue(h, [job[h] EXCEPT !.pc = "cancel_all", !.hits = x])
                 \/ Continue(h, [job[h] EXCEPT !.pc = "cancel_find", !.rows = x])
    BY DEF CancelFind, EditRows, Finish
  <2>2. ASSUME Continue(h, [job[h] EXCEPT !.pc = "cancel_all", !.hits = x])
        PROVE  OthersStay(h) /\ Off(h)
    BY <2>2 DEF Continue, OthersStay, Off, SeatSteps, EditSteps, AssignSteps, IInv, TypeOK, Job
  <2>3. ASSUME Continue(h, [job[h] EXCEPT !.pc = "cancel_find", !.rows = x])
        PROVE  OthersStay(h) /\ Off(h)
    BY <2>3 DEF Continue, OthersStay, Off, SeatSteps, EditSteps, AssignSteps, IInv, TypeOK, Job
  <2> QED
    BY <2>1, <2>2, <2>3, FinishIsOff
<1> QED
  BY <1>1, <1>2, OffKeepsSeats DEF SeatsAlone

LEMMA RemoveCountKeepsSeats ==
  ASSUME IInv, CountsHold, NEW h \in Procs, RemoveCount(h)
  PROVE  Kept
<1>1. CASE Refuse(h)
  BY <1>1, RefusalKeepsSeats
<1>2. CASE ~Refuse(h)
  <2>1. /\ OthersStay(h) /\ job'[h].pc = "remove_delete" /\ job'[h].shift = job[h].shift
    BY <1>2, AdvanceKeepsJob DEF RemoveCount, Steps
  <2>2. SeatsAlone /\ job[h].pc = "remove_count"
    BY <1>2, LocalIsAlone DEF RemoveCount, At
  <2>3. CountOK(job[h])'
    BY <2>1 DEF CountOK, AssignSteps
  <2>4. TimesHold => TimeOK(job[h])'
    BY <2>1, <2>2 DEF TimesHold, TimeOK, EditSteps, SeatsAlone, shiftVars, Editable
  <2> QED
    BY <2>1, <2>2, <2>3, <2>4, ReadKeepsSeats DEF SeatsAlone
<1> QED
  BY <1>1, <1>2

\* A manager's call has read the shift it is going to change, and found it editable.
LEMMA ManagerCallKeepsSeats ==
  ASSUME IInv, CountsHold, NEW h \in Procs, AssignmentCall(h)
  PROVE  Kept
<1>1. ASSUME NEW s \in Shifts, NEW pc \in {"assign_lock", "unassign_write", "edit_write", "remove_count"},
             SeatsAlone, OthersStay(h), job'[h].pc = pc, job'[h].shift = s,
             Editable(window[s].start), pc = "assign_lock" => job'[h].need = need[s]
      PROVE  Kept
  <2>1. CountOK(job[h])' /\ TimeOK(job[h])'
    BY <1>1 DEF CountOK, TimeOK, AssignSteps, SeatsAlone, shiftVars, Editable
  <2> QED
    BY <1>1, <2>1, ReadKeepsSeats DEF SeatsAlone
<1>2. ASSUME NEW pc \in {"create_write", "publish_write", "unpublish_write"},
             SeatsAlone, OthersStay(h), job'[h].pc = pc
      PROVE  Kept
  BY <1>2, OffKeepsSeats DEF Off, SeatSteps, EditSteps, AssignSteps, SeatsAlone
<1>3. ASSUME NEW s \in Shifts, NEW p \in Staff, AssignStart(h, s, p) PROVE Kept
  <2>1. /\ OthersStay(h) /\ job'[h].pc = "assign_lock" /\ job'[h].shift = s
        /\ job'[h].need = need[s]
    BY <1>3 DEF AssignStart, Continue, NoJob, OthersStay, IInv, TypeOK
  <2> QED
    BY <1>1, <1>3, <2>1, LocalIsAlone DEF AssignStart
<1>4. ASSUME NEW s \in Shifts, NEW p \in Staff, UnassignStart(h, s, p) PROVE Kept
  <2>1. OthersStay(h) /\ job'[h].pc = "unassign_write" /\ job'[h].shift = s
    BY <1>4 DEF UnassignStart, Continue, NoJob, OthersStay, IInv, TypeOK
  <2> QED
    BY <1>1, <1>4, <2>1, LocalIsAlone DEF UnassignStart
<1>5. ASSUME NEW s \in Shifts, NEW w \in Windows, NEW n \in Needs, CreateStart(h, s, w, n)
      PROVE  Kept
  <2>1. OthersStay(h) /\ job'[h].pc = "create_write"
    BY <1>5 DEF CreateStart, Continue, NoJob, OthersStay, IInv, TypeOK
  <2> QED
    BY <1>2, <1>5, <2>1, LocalIsAlone DEF CreateStart
<1>6. ASSUME NEW s \in Shifts, NEW w \in Windows, NEW n \in Needs, EditStart(h, s, w, n)
      PROVE  Kept
  <2>1. OthersStay(h) /\ job'[h].pc = "edit_write" /\ job'[h].shift = s
    BY <1>6 DEF EditStart, BeginEdit, Continue, NoJob, OthersStay, IInv, TypeOK
  <2> QED
    BY <1>1, <1>6, <2>1, LocalIsAlone DEF EditStart, BeginEdit
<1>7. ASSUME NEW s \in Shifts, RemoveStart(h, s) PROVE Kept
  <2>1. OthersStay(h) /\ job'[h].pc = "remove_count" /\ job'[h].shift = s
    BY <1>7 DEF RemoveStart, Continue, NoJob, OthersStay, IInv, TypeOK
  <2> QED
    BY <1>1, <1>7, <2>1, LocalIsAlone DEF RemoveStart
<1>8. ASSUME PublishStart(h) \/ UnpublishStart(h) PROVE Kept
  <2>1. PICK pc \in {"publish_write", "unpublish_write"} :
           Continue(h, [NoJob EXCEPT !.pc = pc]) /\ OnlyJob
    BY <1>8 DEF PublishStart, UnpublishStart
  <2>2. OthersStay(h) /\ job'[h].pc = pc
    BY <2>1 DEF Continue, NoJob, OthersStay, IInv, TypeOK
  <2> QED
    BY <1>2, <2>1, <2>2, LocalIsAlone
<1> QED
  BY <1>3, <1>4, <1>5, <1>6, <1>7, <1>8 DEF AssignmentCall

\* Requests are made, answered and resolved without touching the roster.
LEMMA RequestStepsKeepSeats ==
  ASSUME IInv, CountsHold, NEW h \in Procs,
         RequestSteps(h) \/ SwapCall(h) \/ CancelAll(h)
  PROVE  Kept
<1> USE DEF Off, SeatSteps, EditSteps, AssignSteps
<1>1. CASE RequestSteps(h)
  BY <1>1, RequestStepsEnd, OffKeepsSeats DEF worldVars
<1>2. CASE SwapCall(h)
  BY <1>2, SwapCallBegins, OffKeepsSeats DEF OnlyJob, worldVars, RowCreations
<1>3. CASE CancelAll(h)
  BY <1>3, FinishIsOff, OffKeepsSeats DEF CancelAll, worldVars
<1> QED
  BY <1>1, <1>2, <1>3

LEMMA ExpiryKeepsSeats ==
  ASSUME IInv, CountsHold, NEW r \in Requests, ExpireStart(r)
  PROVE  Kept
<1>1. Worker \in Procs
  BY DEF Procs
<1>2. OthersStay(Worker) /\ Off(Worker)
  BY <1>1 DEF ExpireStart, Begin, Continue, NoJob, Idle, OthersStay, Off, SeatSteps, EditSteps,
              AssignSteps, IInv, TypeOK
<1> QED
  BY <1>1, <1>2, OffKeepsSeats DEF ExpireStart, worldVars
-----------------------------------------------------------------------------
(* Steps that write the shifts or the seats *)

LEMMA OneMore ==
  ASSUME NEW S, IsFiniteSet(S), NEW x
  PROVE  Cardinality(S \cup {x}) =< Cardinality(S) + 1
<1>1. Cardinality(S) \in Nat
  BY FS_CardinalityType
<1>2. Cardinality(S \cup {x}) = IF x \in S THEN Cardinality(S) ELSE Cardinality(S) + 1
  BY FS_AddElement
<1> QED
  BY <1>1, <1>2

\* A seat is taken on a shift with room.
LEMMA TakingIsCounted ==
  ASSUME IInv, NEW s \in Shifts, NEW p \in Staff, HasRoom(s, need[s]),
         UNCHANGED need, \A t \in Shifts, q \in Staff :
                           Holds(q, t)' <=> Holds(q, t) \/ (t = s /\ q = p)
  PROVE  Counted
<1> SUFFICES ASSUME NEW t \in Shifts, Cardinality(HoldersOf(t)') > Cardinality(HoldersOf(t))
             PROVE  Cardinality(HoldersOf(t)') =< need[t]
  BY DEF Counted
<1>1. t = s
  <2> SUFFICES ASSUME t # s PROVE HoldersOf(t)' = HoldersOf(t)
    BY HoldersAreFew
  <2> QED
    BY DEF HoldersOf
<1>2. HoldersOf(s)' = HoldersOf(s) \cup {p}
  BY DEF HoldersOf
<1>3. Cardinality(HoldersOf(s)') =< Cardinality(HoldersOf(s)) + 1
  <2>1. IsFiniteSet(HoldersOf(s)) /\ Cardinality(HoldersOf(s)) \in Nat
    BY HoldersAreFew
  <2> QED
    BY <1>2, <2>1, OneMore
<1>4. need[s] \in Nat /\ Cardinality(HoldersOf(s)) < need[s]
  BY RulesAssumption DEF IInv, TypeOK, HasRoom
<1> QED
  BY <1>1, <1>3, <1>4, HoldersAreFew

\* A seat changes hands.
LEMMA HandingOverIsCounted ==
  ASSUME IInv, NEW s \in Shifts, NEW p \in Staff, NEW q \in Staff,
         p # q, Holds(p, s),
         \A t \in Shifts, x \in Staff :
            Holds(x, t)' <=> (Holds(x, t) /\ ~(t = s /\ x = p)) \/ (t = s /\ x = q)
  PROVE  Counted
<1> SUFFICES ASSUME NEW t \in Shifts PROVE Cardinality(HoldersOf(t)') =< Cardinality(HoldersOf(t))
  BY HoldersAreFew DEF Counted
<1>1. CASE t # s
  <2>1. HoldersOf(t)' = HoldersOf(t)
    BY <1>1 DEF HoldersOf
  <2> QED
    BY <2>1, HoldersAreFew
<1>2. CASE t = s
  <2> DEFINE rest == HoldersOf(s) \ {p}
  <2>1. HoldersOf(s)' = rest \cup {q} /\ p \in HoldersOf(s)
    BY DEF HoldersOf
  <2>2. IsFiniteSet(rest) /\ Cardinality(rest) = Cardinality(HoldersOf(s)) - 1
    BY <2>1, HoldersAreFew, FS_RemoveElement
  <2>3. Cardinality(rest \cup {q}) =< Cardinality(rest) + 1
    BY <2>2, OneMore
  <2> HIDE DEF rest
  <2> QED
    BY <1>2, <2>1, <2>2, <2>3, HoldersAreFew
<1> QED
  BY <1>1, <1>2

\* assign seats within the headcount it has read and on a shift that is editable.
LEMMA AssignWriteKeepsSeats ==
  ASSUME IInv, InTurn, CountsHold, NEW h \in Procs, AssignWrite(h)
  PROVE  Kept
<1> DEFINE s == job[h].shift
           p == job[h].to
<1>1. CASE Refuse(h)
  BY <1>1, RefusalKeepsSeats
<1>2. CASE ~Refuse(h)
  <2>1. s \in Shifts /\ p \in Staff /\ job[h].pc = "assign_write"
    BY DEF AssignWrite, At, IInv, JobsOK, JobOK, AssignSteps
  <2>2. Seat(s, p, job[h].win) /\ Finish(h) /\ UNCHANGED <<shiftVars, worldVars>>
    BY <1>2 DEF AssignWrite
  <2>3. HasRoom(s, need[s])
    BY <2>1 DEF CountsHold, CountOK, AssignSteps
  <2>4. /\ \A t \in Shifts, q \in Staff : Holds(q, t)' <=> Holds(q, t) \/ (t = s /\ q = p)
        /\ \A t \in Shifts \ {s} : assignment'[t] = assignment[t]
    BY <2>1, <2>2 DEF Seat, Holds, IInv, TypeOK
  <2>5. Counted
    BY <2>1, <2>2, <2>3, <2>4, TakingIsCounted DEF shiftVars
  <2>6. TimesHold => Frozen
    <3>1. TimesHold => Editable(window[s].start)
      BY <2>1 DEF TimesHold, TimeOK, EditSteps, AssignSteps
    <3> QED
      BY <2>2, <2>4, <3>1 DEF Frozen, shiftVars
  <2>7. OthersStay(h) /\ Off(h) /\ ~Idle(h)
    BY <2>1, <2>2, FinishIsOff DEF Idle
  <2> QED
    BY <2>5, <2>6, <2>7, WriteKeepsSeats
<1> QED
  BY <1>1, <1>2

\* A transfer takes the seat from whom it was found to hold it.
LEMMA TransferWriteKeepsSeats ==
  ASSUME IInv, InTurn, CountsHold, NEW h \in Procs, TransferWrite(h)
  PROVE  Kept
<1> DEFINE s == job[h].shift
           p == job[h].from
           q == job[h].to
<1>1. CASE Refuse(h)
  BY <1>1, RefusalKeepsSeats
<1>2. CASE ~Refuse(h)
  <2>1. s \in Shifts /\ p \in Staff /\ q \in Staff /\ p # q /\ job[h].pc = "transfer_write"
    BY DEF TransferWrite, At, IInv, JobsOK, JobOK, TransferSteps
  <2>2. /\ assignment' = [assignment EXCEPT ![s][p] = "CANCELLED", ![s][q] = "ASSIGNED"]
        /\ Continue(h, AfterTransfer(h)) /\ UNCHANGED <<shiftVars, worldVars>>
    BY <1>2 DEF TransferWrite, Transfer
  <2>3. Holds(p, s)
    BY <2>1 DEF CountsHold, CountOK
  <2>4. /\ \A t \in Shifts, x \in Staff :
             Holds(x, t)' <=> (Holds(x, t) /\ ~(t = s /\ x = p)) \/ (t = s /\ x = q)
        /\ \A t \in Shifts \ {s} : assignment'[t] = assignment[t]
    BY <2>1, <2>2 DEF Holds, IInv, TypeOK
  <2>5. Counted
    BY <2>1, <2>3, <2>4, HandingOverIsCounted
  <2>6. Frozen
    BY <2>1, <2>2, <2>4 DEF Frozen, shiftVars, At
  <2>7. OthersStay(h) /\ job'[h] = AfterTransfer(h)
    BY <2>2 DEF Continue, OthersStay, IInv, TypeOK
  <2>8. Off(h)
    BY <2>7, TransferJobFields DEF AfterTransfer, NoJob, Off, SeatSteps, EditSteps, AssignSteps
  <2> QED
    BY <2>1, <2>5, <2>6, <2>7, <2>8, WriteKeepsSeats DEF Idle
<1> QED
  BY <1>1, <1>2

LEMMA UnassignWriteKeepsSeats ==
  ASSUME IInv, InTurn, CountsHold, NEW h \in Procs, UnassignWrite(h)
  PROVE  Kept
<1> DEFINE s == job[h].shift
           p == job[h].to
<1>1. CASE Refuse(h)
  BY <1>1, RefusalKeepsSeats
<1>2. CASE ~Refuse(h)
  <2>1. s \in Shifts /\ p \in Staff /\ job[h].pc = "unassign_write"
    BY DEF UnassignWrite, At, IInv, JobsOK, JobOK, CancelSteps
  <2>2. /\ assignment' = [assignment EXCEPT ![s][p] = "CANCELLED"] /\ UNCHANGED shiftVars
        /\ Continue(h, [NoJob EXCEPT !.pc = "cancel_find", !.shift = s, !.rows = {p}])
    BY <1>2 DEF UnassignWrite, Unseat
  <2>3. /\ \A t \in Shifts, q \in Staff : Holds(q, t)' => Holds(q, t)
        /\ \A t \in Shifts \ {s} : assignment'[t] = assignment[t]
    BY <2>1, <2>2 DEF Holds, IInv, TypeOK
  <2>4. TimesHold => Frozen
    <3>1. TimesHold => Editable(window[s].start)
      BY <2>1 DEF TimesHold, TimeOK, EditSteps
    <3> QED
      BY <2>2, <2>3, <3>1 DEF Frozen, shiftVars
  <2>5. OthersStay(h) /\ Off(h)
    BY <2>2 DEF Continue, NoJob, OthersStay, Off, SeatSteps, EditSteps, AssignSteps, IInv, TypeOK
  <2> QED
    BY <2>1, <2>3, <2>4, <2>5, EmptyingIsCounted, WriteKeepsSeats DEF Idle
<1> QED
  BY <1>1, <1>2

\* A new shift is not live before it is written.
LEMMA CreateWriteKeepsSeats ==
  ASSUME IInv, InTurn, CountsHold, NEW h \in Procs, CreateWrite(h)
  PROVE  Kept
<1>1. /\ job[h].shift \in Shifts /\ life[job[h].shift] = "FRESH" /\ ~Idle(h)
  BY DEF CreateWrite, At, Idle, IInv, JobsOK, JobOK, ShiftSteps, ShiftsDiffer
<1>2. Counted
  BY EmptyingIsCounted DEF CreateWrite, rosterVars, Holds
<1>3. Frozen
  BY <1>1 DEF Frozen, Live, CreateWrite, rosterVars, IInv, TypeOK
<1>4. OthersStay(h) /\ Off(h)
  BY FinishIsOff DEF CreateWrite
<1> QED
  BY <1>1, <1>2, <1>3, <1>4, WriteKeepsSeats

LEMMA EditWriteKeepsSeats ==
  ASSUME IInv, InTurn, CountsHold, NEW h \in Procs, EditWrite(h)
  PROVE  Kept
<1> DEFINE s == job[h].shift
<1>1. CASE Refuse(h)
  BY <1>1, RefusalKeepsSeats
<1>2. CASE ~Refuse(h)
  <2>1. s \in Shifts /\ job[h].pc = "edit_write"
    BY DEF EditWrite, At, IInv, JobsOK, JobOK, ShiftSteps
  <2>2. /\ UNCHANGED <<life, assignment>>
        /\ \A t \in Shifts \ {s} : window'[t] = window[t] /\ need'[t] = need[t]
        /\ Continue(h, [NoJob EXCEPT !.pc = "edit_rows", !.shift = s])
    BY <1>2, <2>1 DEF EditWrite, IInv, TypeOK
  <2>3. Counted
    BY <2>2, EmptyingIsCounted DEF Holds
  <2>4. TimesHold => Frozen
    <3>1. TimesHold => Editable(window[s].start)
      BY <2>1 DEF TimesHold, TimeOK, EditSteps
    <3> QED
      BY <2>2, <3>1 DEF Frozen
  <2>5. OthersStay(h) /\ Off(h)
    BY <2>2 DEF Continue, NoJob, OthersStay, Off, SeatSteps, EditSteps, AssignSteps, IInv, TypeOK
  <2> QED
    BY <2>1, <2>3, <2>4, <2>5, WriteKeepsSeats DEF Idle
<1> QED
  BY <1>1, <1>2

LEMMA RemoveDeleteKeepsSeats ==
  ASSUME IInv, InTurn, CountsHold, NEW h \in Procs, RemoveDelete(h)
  PROVE  Kept
<1> DEFINE s == job[h].shift
<1>1. CASE Refuse(h)
  BY <1>1, RefusalKeepsSeats
<1>2. CASE ~Refuse(h)
  <2>1. s \in Shifts /\ job[h].pc = "remove_delete"
    BY DEF RemoveDelete, At, IInv, JobsOK, JobOK, ShiftSteps
  <2>2. /\ life' = [life EXCEPT ![s] = "DELETED"]
        /\ assignment' = [assignment EXCEPT ![s] = [p \in Staff |-> "NONE"]]
        /\ Finish(h) /\ UNCHANGED <<window, need>>
    BY <1>2 DEF RemoveDelete
  <2>3. /\ \A t \in Shifts, q \in Staff : Holds(q, t)' => Holds(q, t)
        /\ \A t \in Shifts \ {s} : assignment'[t] = assignment[t] /\ life'[t] = life[t]
    BY <2>1, <2>2 DEF Holds, IInv, TypeOK
  <2>4. TimesHold => Frozen
    <3>1. TimesHold => Editable(window[s].start)
      BY <2>1 DEF TimesHold, TimeOK, EditSteps
    <3> QED
      BY <2>2, <2>3, <3>1 DEF Frozen
  <2>5. OthersStay(h) /\ Off(h)
    BY <2>2, FinishIsOff
  <2> QED
    BY <2>1, <2>3, <2>4, <2>5, EmptyingIsCounted, WriteKeepsSeats DEF Idle
<1> QED
  BY <1>1, <1>2

\* Publishing and unpublishing touch no shift, and nobody relies on the cutoff meanwhile.
LEMMA PublishingKeepsSeats ==
  ASSUME IInv, InTurn, NEW h \in Procs, PublishWrite(h) \/ UnpublishWrite(h)
  PROVE  Kept
<1>1. Finish(h) /\ UNCHANGED <<shiftVars, rosterVars>> /\ ~Idle(h)
  BY DEF PublishWrite, UnpublishWrite, SetPublished, At, Idle
<1>2. Counted /\ Frozen
  BY <1>1, EmptyingIsCounted DEF Frozen, Holds, shiftVars, rosterVars
<1> QED
  BY <1>1, <1>2, FinishIsOff, WriteKeepsSeats

-----------------------------------------------------------------------------
(* The whole system *)

LEMMA NextKeepsSeats ==
  ASSUME IInv, InTurn, CountsHold, [Next]_vars
  PROVE  CountsHold' /\ Counted /\ (TimesHold /\ ClockWaits => TimesHold' /\ Frozen)
<1>1. ASSUME NEW h \in Procs, AssignmentStep(h) PROVE Kept
  BY <1>1, AssignReadsKeepSeats, AssignWriteKeepsSeats, UnassignWriteKeepsSeats,
     SearchesKeepSeats, RequestStepsKeepSeats, CreateWriteKeepsSeats, EditWriteKeepsSeats,
     RemoveCountKeepsSeats, RemoveDeleteKeepsSeats, PublishingKeepsSeats
     DEF AssignmentStep
<1>2. ASSUME NEW h \in Procs, SwapStep(h) PROVE Kept
  BY <1>2, RequestStepsKeepSeats, TransferReadsKeepSeats, TransferWriteKeepsSeats
     DEF SwapStep, RequestSteps
<1>3. ASSUME NEW h \in Procs, Fault(h) \/ StalledJob(h) PROVE Kept
  BY <1>3, RefusalKeepsSeats, RequestStepsKeepSeats DEF Fault, RequestSteps
<1>4. ASSUME NEW h \in Handlers, AssignmentCall(h) \/ SwapCall(h) PROVE Kept
  BY <1>4, ManagerCallKeepsSeats, RequestStepsKeepSeats DEF Procs
<1>5. ASSUME NEW r \in Requests, ExpireStart(r) PROVE Kept
  BY <1>5, ExpiryKeepsSeats
<1>6. CASE Tick \/ (\E p \in Staff : Requalify(p)) \/ UNCHANGED vars
  <2>1. UNCHANGED <<shiftVars, rosterVars, published, job>>
    BY <1>6 DEF Tick, Requalify, vars, shiftVars, rosterVars
  <2>2. CountsHold'
    BY <2>1 DEF CountsHold, CountOK, HasRoom, HoldersOf, Holds, shiftVars, rosterVars
  <2>3. Counted /\ Frozen
    BY <2>1, EmptyingIsCounted DEF Frozen, Holds, shiftVars, rosterVars
  <2>4. TimesHold /\ ClockWaits => TimesHold'
    <3>1. CASE UNCHANGED now
      BY <2>1, <3>1 DEF TimesHold, TimeOK, Editable, shiftVars
    <3>2. CASE \A h \in Procs : Idle(h)
      BY <2>1, <3>2 DEF TimesHold, TimeOK, Idle, EditSteps, AssignSteps
    <3> QED
      BY <3>1, <3>2 DEF ClockWaits
  <2> QED
    BY <2>2, <2>3, <2>4
<1> QED
  BY <1>1, <1>2, <1>3, <1>4, <1>5, <1>6 DEF Next, HandlerStep, Kept

LEMMA InitSeats == Init => CountsHold /\ TimesHold
<1> SUFFICES ASSUME Init PROVE CountsHold /\ TimesHold
  OBVIOUS
<1>1. \A h \in Procs : job[h].pc = "idle"
  BY NoJobIsIdle DEF Init
<1> QED
  BY <1>1 DEF CountsHold, TimesHold, CountOK, TimeOK, EditSteps, AssignSteps

\* As long as calls do not overlap, nobody is added to a full shift, for any headcounts
\* and any number of people: assign counts before it writes, and a transfer puts one
\* person in the place of another.
THEOREM HeadcountInTurn == Spec /\ []InTurn => HeadcountRespected
<1>1. Init => CountsHold
  BY InitSeats
<1>2. IInv /\ InTurn /\ CountsHold /\ [Next]_vars => CountsHold'
  BY NextKeepsSeats
<1>3. IInv /\ InTurn /\ CountsHold /\ [Next]_vars =>
        [\A s \in Shifts : Cardinality(HoldersOf(s)') > Cardinality(HoldersOf(s))
           => Cardinality(HoldersOf(s)') =< need'[s]]_vars
  BY NextKeepsSeats DEF Counted
<1> QED
  BY <1>1, <1>2, <1>3, InvariantHolds, PTL DEF Spec, HeadcountRespected

\* As long as calls do not overlap and each is quicker than the clock, nothing of a
\* published week changes past its cutoff but by a transfer.
THEOREM FrozenInTurn == Spec /\ []InTurn /\ [][ClockWaits]_vars => FrozenAfterCutoff
<1>1. Init => CountsHold /\ TimesHold
  BY InitSeats
<1>2. IInv /\ InTurn /\ CountsHold /\ TimesHold /\ [Next]_vars /\ [ClockWaits]_vars =>
        CountsHold' /\ TimesHold'
  <2>1. UNCHANGED vars => ClockWaits
    BY DEF vars, ClockWaits
  <2> QED
    BY <2>1, NextKeepsSeats
<1>3. IInv /\ InTurn /\ CountsHold /\ TimesHold /\ [Next]_vars /\ [ClockWaits]_vars =>
        [\A s \in Shifts : Live(s) /\ ~Editable(window[s].start) =>
           /\ window'[s] = window[s] /\ need'[s] = need[s] /\ life'[s] = life[s]
           /\ assignment'[s] # assignment[s] =>
                \E h \in Procs : At(h, "transfer_write") /\ job[h].shift = s]_vars
  BY NextKeepsSeats DEF Frozen
<1> QED
  BY <1>1, <1>2, <1>3, InvariantHolds, PTL DEF Spec, FrozenAfterCutoff
=============================================================================
