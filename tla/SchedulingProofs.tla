-------------------------- MODULE SchedulingProofs --------------------------
(***************************************************************************)
(* Proofs about Scheduling, for any number of handlers, staff, shifts and *)
(* requests, any set of times and any endpoints, with and without faults. *)
(***************************************************************************)
EXTENDS Scheduling, TLAPS

-----------------------------------------------------------------------------
(* The inductive invariant *)

AssignSteps == {"assign_lock", "assign_count", "assign_check", "assign_write"}
TransferSteps == {"transfer_lock", "transfer_check", "transfer_write"}
CancelSteps == {"unassign_write", "cancel_find", "cancel_all"}
ShiftSteps == {"create_write", "edit_write", "edit_rows", "remove_count", "remove_delete"}
CreationSteps == {"swap_create", "drop_create", "drop_enqueue"}
AnswerSteps == {"accept_write", "decline_write", "claim_write", "cancel_write", "cancel_job",
                "reject_write", "expire_write", "approve_write"}
RowCreations == {"swap_create", "drop_create"}
CommitSteps == {"assign_write", "transfer_write"}

\* The local variables that a handler has set by the time it reaches a step.
JobOK(j) ==
  /\ j.pc \in AssignSteps \cup TransferSteps \cup CancelSteps \cup ShiftSteps
                \cup {"swap_create", "drop_create"} => j.shift \in Shifts
  /\ j.pc \in AssignSteps \cup TransferSteps \cup {"unassign_write", "swap_create", "claim_write"}
       => j.to \in Staff
  /\ j.pc \in AssignSteps \cup TransferSteps \cup {"create_write", "edit_write"}
       => j.win \in Windows
  /\ j.pc \in {"create_write", "edit_write"} => j.need \in Needs
  /\ j.pc \in TransferSteps \cup {"swap_create", "drop_create"} => j.from \in Staff
  /\ j.pc \in TransferSteps \cup {"swap_create"} => j.from # j.to
  /\ j.pc \in TransferSteps /\ j.back # None => j.backWin \in Windows
  /\ j.pc \in TransferSteps \cup CreationSteps \cup AnswerSteps => j.req \in Requests

JobsOK == \A h \in Procs : JobOK(job[h])

\* A handler that writes to a request found it in the table, and a claimant is not
\* the initiator.
TargetOK(j) ==
  /\ j.pc \in TransferSteps \cup AnswerSteps => request[j.req].status # "NONE"
  /\ j.pc = "cancel_all" => \A r \in j.hits : request[r].status # "NONE"
  /\ j.pc = "claim_write" => request[j.req].initiator # j.to

TargetsOK == \A h \in Procs : TargetOK(job[h])

RequestOK(q) ==
  q.status # "NONE" => q.initiator \in Staff /\ q.shift \in Shifts /\ q.initiator # q.counterparty

RequestsOK == \A r \in Requests : RequestOK(request[r])

\* Nobody is on a shift that does not exist yet.
FreshIsEmpty ==
  \A s \in Shifts, p \in Staff : life[s] = "FRESH" => assignment[s][p] = "NONE"

\* What a handler is about to create does not exist, and nobody else creates it.
ShiftsDiffer ==
  \A h \in Procs : At(h, "create_write") =>
     /\ life[job[h].shift] = "FRESH"
     /\ \A g \in Procs : g # h /\ At(g, "create_write") => job[g].shift # job[h].shift

RequestsDiffer ==
  \A h \in Procs : job[h].pc \in RowCreations =>
     /\ request[job[h].req].status = "NONE"
     /\ \A g \in Procs : g # h /\ job[g].pc \in RowCreations => job[g].req # job[h].req

\* Inside the transaction the staff member's row is locked.
LocksHeld == \A h \in Procs : job[h].pc \in LockedSteps => userLock[job[h].to] = h

\* Between the engine's verdict and the write, the staff member's other shifts stay
\* compatible with the shift as judged, or have been moved meanwhile.
VerdictHolds(j) ==
  \A t \in Shifts \ {j.shift} :
     Holds(j.to, t) /\ Clash(window[t], j.win) => <<t, j.to>> \in edited

VerdictsHold == \A h \in Procs : job[h].pc \in CommitSteps => VerdictHolds(job[h])

IInv ==
  /\ TypeOK /\ JobsOK /\ TargetsOK /\ RequestsOK
  /\ FreshIsEmpty /\ ShiftsDiffer /\ RequestsDiffer
  /\ LocksHeld /\ VerdictsHold /\ NoUncheckedClash

-----------------------------------------------------------------------------
(* What every step has in common *)

\* Handler h goes on with local variables j that keep their part of the invariant.
StepTo(h, j) ==
  /\ j \in Job /\ JobOK(j)
  /\ job' = [job EXCEPT ![h] = j]
  /\ j.pc \in TransferSteps \cup AnswerSteps => request'[j.req].status # "NONE"
  /\ j.pc = "cancel_all" => \A r \in j.hits : request'[r].status # "NONE"
  /\ j.pc = "claim_write" => request'[j.req].initiator # j.to
  /\ j.pc = "create_write" =>
       life'[j.shift] = "FRESH" /\ \A g \in Procs : job[g].shift # j.shift
  /\ j.pc \in RowCreations =>
       request'[j.req].status = "NONE" /\ \A g \in Procs : job[g].req # j.req
  /\ j.pc \in LockedSteps => userLock'[j.to] = h

\* Request rows stay well formed, keep their initiators, and are created by a handler
\* that is about to create them.
RowsKept(h) ==
  /\ request' \in [Requests -> SwapRequest]
  /\ \A r \in Requests :
       /\ RequestOK(request'[r])
       /\ request[r].status # "NONE" =>
            request'[r].status # "NONE" /\ request'[r].initiator = request[r].initiator
       /\ request[r].status = "NONE" /\ request'[r].status # "NONE" =>
            job[h].pc \in RowCreations /\ r = job[h].req

\* Only its own locks and free ones are touched by h.
LocksKept(h) ==
  /\ userLock' \in [Staff -> Procs \cup {None}]
  /\ \A p \in Staff : userLock[p] \notin {h, None} => userLock'[p] = userLock[p]

\* A shift comes to life only where h creates it.
LivesKept(h) ==
  \A s \in Shifts : life[s] = "FRESH" /\ life'[s] # "FRESH" =>
                      At(h, "create_write") /\ s = job[h].shift

LEMMA Bookkeeping ==
  ASSUME IInv, NEW h \in Procs, NEW j, StepTo(h, j), RowsKept(h), LocksKept(h), LivesKept(h)
  PROVE  /\ job' \in [Procs -> Job]
         /\ JobsOK' /\ TargetsOK' /\ RequestsOK'
         /\ ShiftsDiffer' /\ RequestsDiffer' /\ LocksHeld'
<1> USE DEF IInv
<1>1. job' \in [Procs -> Job] /\ job'[h] = j /\ \A g \in Procs \ {h} : job'[g] = job[g]
  BY DEF StepTo, TypeOK
<1>2. JobsOK'
  BY <1>1 DEF StepTo, JobsOK
<1>3. RequestsOK'
  BY DEF RowsKept, RequestsOK
<1>4. TargetsOK'
  <2> SUFFICES ASSUME NEW g \in Procs PROVE TargetOK(job[g])'
    BY DEF TargetsOK
  <2>1. CASE g = h
    BY <2>1, <1>1 DEF StepTo, TargetOK
  <2>2. CASE g # h
    <3>1. job'[g] = job[g] /\ TargetOK(job[g]) /\ JobOK(job[g]) /\ job[g] \in Job
      BY <2>2, <1>1 DEF TargetsOK, JobsOK, TypeOK
    <3>2. job[g].hits \subseteq Requests
      BY <3>1 DEF Job
    <3>3. job[g].pc \in TransferSteps \cup AnswerSteps => job[g].req \in Requests
      BY <3>1 DEF JobOK
    <3> QED
      BY <3>1, <3>2, <3>3 DEF TargetOK, RowsKept, AnswerSteps
  <2> QED
    BY <2>1, <2>2
<1>5. LocksHeld'
  <2> SUFFICES ASSUME NEW g \in Procs, job'[g].pc \in LockedSteps
               PROVE  userLock'[job'[g].to] = g
    BY DEF LocksHeld
  <2>1. CASE g = h
    BY <2>1, <1>1 DEF StepTo
  <2>2. CASE g # h
    <3>1. job'[g] = job[g] /\ JobOK(job[g])
      BY <2>2, <1>1 DEF JobsOK
    <3>2. job[g].to \in Staff
      BY <3>1 DEF JobOK, LockedSteps, AssignSteps, TransferSteps
    <3>3. userLock[job[g].to] = g
      BY <3>1 DEF LocksHeld
    <3>4. g # None
      BY NoneAssumption
    <3> QED
      BY <2>2, <3>1, <3>2, <3>3, <3>4 DEF LocksKept
  <2> QED
    BY <2>1, <2>2
<1>6. ShiftsDiffer'
  <2> SUFFICES ASSUME NEW g \in Procs, job'[g].pc = "create_write"
               PROVE  /\ life'[job'[g].shift] = "FRESH"
                      /\ \A f \in Procs : f # g /\ job'[f].pc = "create_write"
                                            => job'[f].shift # job'[g].shift
    BY DEF ShiftsDiffer, At
  <2>1. CASE g = h
    BY <2>1, <1>1 DEF StepTo
  <2>2. CASE g # h
    <3>1. job'[g] = job[g] /\ JobOK(job[g])
      BY <2>2, <1>1 DEF JobsOK
    <3>2. job[g].shift \in Shifts /\ life[job[g].shift] = "FRESH"
      BY <3>1 DEF JobOK, ShiftSteps, ShiftsDiffer, At
    <3>3. life'[job[g].shift] = "FRESH"
      BY <2>2, <3>1, <3>2 DEF LivesKept, ShiftsDiffer, At
    <3>4. ASSUME NEW f \in Procs, f # g, job'[f].pc = "create_write"
          PROVE  job'[f].shift # job[g].shift
      BY <2>2, <3>1, <3>4, <1>1 DEF StepTo, ShiftsDiffer, At
    <3> QED
      BY <3>1, <3>3, <3>4
  <2> QED
    BY <2>1, <2>2
<1>7. RequestsDiffer'
  <2> SUFFICES ASSUME NEW g \in Procs, job'[g].pc \in RowCreations
               PROVE  /\ request'[job'[g].req].status = "NONE"
                      /\ \A f \in Procs : f # g /\ job'[f].pc \in RowCreations
                                            => job'[f].req # job'[g].req
    BY DEF RequestsDiffer
  <2>1. CASE g = h
    BY <2>1, <1>1 DEF StepTo
  <2>2. CASE g # h
    <3>1. job'[g] = job[g] /\ JobOK(job[g])
      BY <2>2, <1>1 DEF JobsOK
    <3>2. job[g].req \in Requests /\ request[job[g].req].status = "NONE"
      BY <3>1 DEF JobOK, RowCreations, CreationSteps, RequestsDiffer
    <3>3. request'[job[g].req].status = "NONE"
      BY <2>2, <3>1, <3>2 DEF RowsKept, RequestsDiffer
    <3>4. ASSUME NEW f \in Procs, f # g, job'[f].pc \in RowCreations
          PROVE  job'[f].req # job[g].req
      BY <2>2, <3>1, <3>4, <1>1 DEF StepTo, RequestsDiffer
    <3> QED
      BY <3>1, <3>3, <3>4
  <2> QED
    BY <2>1, <2>2
<1> QED
  BY <1>1, <1>2, <1>3, <1>4, <1>5, <1>6, <1>7

\* The tables of shifts and assignments do not change, and the rest of the world keeps
\* its types.
Quiet ==
  /\ UNCHANGED <<shiftVars, rosterVars>>
  /\ published' \in BOOLEAN /\ qualified' \subseteq Staff /\ now' \in 0..MaxNow
  /\ queue' \subseteq Requests /\ moved' = moved

LEMMA QuietStep ==
  ASSUME IInv, NEW h \in Procs, NEW j, StepTo(h, j), RowsKept(h), LocksKept(h), Quiet,
         j.pc \in CommitSteps => VerdictHolds(j)
  PROVE  IInv'
<1>1. LivesKept(h)
  BY DEF LivesKept, Quiet, shiftVars
<1>2. /\ job' \in [Procs -> Job]
      /\ JobsOK' /\ TargetsOK' /\ RequestsOK'
      /\ ShiftsDiffer' /\ RequestsDiffer' /\ LocksHeld'
  BY <1>1, Bookkeeping
<1>3. TypeOK'
  BY <1>2 DEF IInv, TypeOK, Quiet, RowsKept, LocksKept, shiftVars, rosterVars
<1>4. FreshIsEmpty' /\ NoUncheckedClash'
  BY DEF IInv, FreshIsEmpty, NoUncheckedClash, Holds, Quiet, shiftVars, rosterVars
<1>5. VerdictsHold'
  <2>1. job'[h] = j /\ \A g \in Procs \ {h} : job'[g] = job[g]
    BY DEF StepTo, IInv, TypeOK
  <2> QED
    BY <2>1 DEF IInv, VerdictsHold, VerdictHolds, Holds, Quiet, shiftVars, rosterVars
<1> QED
  BY <1>2, <1>3, <1>4, <1>5 DEF IInv

\* Four things that most steps do.
LEMMA RequestsUntouched ==
  ASSUME IInv, NEW h \in Procs, UNCHANGED request
  PROVE  RowsKept(h)
BY DEF IInv, TypeOK, RequestsOK, RowsKept

LEMMA LocksUntouched ==
  ASSUME IInv, NEW h \in Procs, UNCHANGED userLock \/ ReleaseLocks(h)
  PROVE  LocksKept(h)
BY DEF IInv, TypeOK, LocksKept, ReleaseLocks

LEMMA NoJobIsIdle ==
  /\ NoJob \in Job /\ NoJob.pc = "idle"
  /\ JobOK(NoJob)
BY DEF NoJob, Job, Steps, JobOK, AssignSteps, TransferSteps, CancelSteps, ShiftSteps,
       CreationSteps, AnswerSteps

LEMMA FinishIsAStep ==
  ASSUME IInv, NEW h \in Procs, Finish(h)
  PROVE  StepTo(h, NoJob)
BY NoJobIsIdle
   DEF Finish, Continue, StepTo, LockedSteps, RowCreations, TransferSteps, AnswerSteps

LEMMA RefusalIsSafe ==
  ASSUME IInv, NEW h \in Procs, Refuse(h)
  PROVE  IInv'
<1>1. StepTo(h, NoJob)
  BY FinishIsAStep DEF Refuse
<1>2. RowsKept(h) /\ LocksKept(h)
  BY RequestsUntouched, LocksUntouched DEF Refuse, swapVars
<1>3. Quiet
  BY DEF Refuse, Quiet, IInv, TypeOK, swapVars, worldVars
<1> QED
  BY <1>1, <1>2, <1>3, QuietStep, NoJobIsIdle DEF CommitSteps

-----------------------------------------------------------------------------
(* The engine's arithmetic *)

\* The order in which two shifts are compared does not matter.
LEMMA ClashIsSymmetric ==
  ASSUME NEW v \in Windows, NEW w \in Windows
  PROVE  Clash(v, w) <=> Clash(w, v)
<1>1. /\ v.start \in Int /\ v.end \in Int /\ v.start < v.end
      /\ w.start \in Int /\ w.end \in Int /\ w.start < w.end
  BY WindowsAssumption
<1> QED
  BY <1>1, EngineAssumption DEF Clash, Overlaps, RestGap

\* fetchNearbyAssignments leaves out no shift that could clash: the lookback and the
\* lookahead are at least the minimum rest.
LEMMA FarIsNoClash ==
  ASSUME NEW v \in Windows, NEW w \in Windows, ~Nearby(v, w)
  PROVE  ~Clash(v, w)
<1>1. /\ v.start \in Int /\ v.end \in Int /\ v.start < v.end
      /\ w.start \in Int /\ w.end \in Int /\ w.start < w.end
  BY WindowsAssumption
<1> QED
  BY <1>1, EngineAssumption DEF Clash, Overlaps, RestGap, Nearby

\* What the engine accepts fits among all shifts of the staff member.
LEMMA AcceptedFits ==
  ASSUME IInv, NEW p \in Staff, NEW s \in Shifts, NEW w \in Windows, EngineAccepts(p, s, w)
  PROVE  \A t \in Shifts \ {s} : Holds(p, t) => ~Clash(window[t], w)
<1> TAKE t \in Shifts \ {s}
<1>1. window[t] \in Windows
  BY DEF IInv, TypeOK
<1>2. CASE Nearby(window[t], w)
  BY <1>2 DEF EngineAccepts, NearbyShifts
<1>3. CASE ~Nearby(window[t], w)
  BY <1>1, <1>3, FarIsNoClash
<1> QED
  BY <1>2, <1>3

-----------------------------------------------------------------------------
(* Steps that change nothing but the handler's own variables *)

LEMMA LocalStep ==
  ASSUME IInv, NEW h \in Procs, NEW j, StepTo(h, j), OnlyJob,
         j.pc \in CommitSteps => VerdictHolds(j)
  PROVE  IInv'
<1>1. RowsKept(h) /\ LocksKept(h)
  BY RequestsUntouched, LocksUntouched DEF OnlyJob, swapVars
<1>2. Quiet
  BY DEF OnlyJob, Quiet, IInv, TypeOK, swapVars, worldVars
<1> QED
  BY <1>1, <1>2, QuietStep

\* Taking the staff member's lock.
LEMMA LockStep ==
  ASSUME IInv, NEW h \in Procs, NEW pc \in LockedSteps \ CommitSteps,
         job[h].to \in Staff, JobOK([job[h] EXCEPT !.pc = pc]),
         pc \in TransferSteps => request[job[h].req].status # "NONE",
         TakeLockAndGoTo(h, pc)
  PROVE  IInv'
<1> DEFINE j == [job[h] EXCEPT !.pc = pc]
<1>1. job[h] \in Job /\ userLock \in [Staff -> Procs \cup {None}]
  BY DEF IInv, TypeOK
<1>2. j \in Job /\ j.pc = pc /\ j.to = job[h].to /\ j.req = job[h].req
  BY <1>1 DEF Job, Steps, LockedSteps
<1>3. LocksKept(h)
  BY <1>1 DEF LocksKept, TakeLockAndGoTo
<1>4. StepTo(h, j)
  <2>1. userLock'[j.to] = h
    BY <1>1, <1>2 DEF TakeLockAndGoTo
  <2>2. request' = request /\ job' = [job EXCEPT ![h] = j]
    BY DEF TakeLockAndGoTo, swapVars, Advance, Continue
  <2> QED
    BY <1>2, <2>1, <2>2
       DEF StepTo, LockedSteps, RowCreations, AnswerSteps
<1>5. RowsKept(h)
  BY RequestsUntouched DEF TakeLockAndGoTo, swapVars
<1>6. Quiet
  BY DEF TakeLockAndGoTo, Quiet, IInv, TypeOK, swapVars, worldVars
<1> QED
  BY <1>2, <1>3, <1>4, <1>5, <1>6, QuietStep

-----------------------------------------------------------------------------
(* Assigning *)

LEMMA AssignStartSafe ==
  ASSUME IInv, NEW h \in Procs, NEW s \in Shifts, NEW p \in Staff, AssignStart(h, s, p)
  PROVE  IInv'
<1> DEFINE j == [NoJob EXCEPT !.pc = "assign_lock", !.shift = s, !.to = p,
                              !.win = window[s], !.need = need[s]]
<1>1. window[s] \in Windows /\ need[s] \in Needs
  BY DEF IInv, TypeOK
<1>2. /\ j \in Job /\ j.pc = "assign_lock"
      /\ j.shift = s /\ j.to = p /\ j.win = window[s]
  BY <1>1, NoJobIsIdle DEF NoJob, Job, Steps
<1>3. JobOK(j)
  BY <1>1, <1>2
     DEF JobOK, AssignSteps, TransferSteps, CancelSteps, ShiftSteps, CreationSteps, AnswerSteps
<1>4. StepTo(h, j)
  BY <1>2, <1>3
     DEF AssignStart, Continue, StepTo, TransferSteps, AnswerSteps, LockedSteps, RowCreations
<1> QED
  BY <1>2, <1>4, LocalStep DEF AssignStart, CommitSteps

LEMMA AssignLockSafe ==
  ASSUME IInv, NEW h \in Procs, AssignLock(h)
  PROVE  IInv'
<1>1. job[h] \in Job /\ JobOK(job[h]) /\ job[h].pc = "assign_lock"
  BY DEF IInv, TypeOK, JobsOK, AssignLock, At
<1>2. job[h].to \in Staff /\ JobOK([job[h] EXCEPT !.pc = "assign_count"])
  BY <1>1 DEF JobOK, Job, AssignSteps, TransferSteps, CancelSteps, ShiftSteps, CreationSteps, AnswerSteps
<1> QED
  BY <1>2, LockStep DEF AssignLock, LockedSteps, CommitSteps, TransferSteps

\* From one locked step of a handler to the next.
LEMMA LockedAdvance ==
  ASSUME IInv, NEW h \in Procs, NEW pc \in LockedSteps, job[h].pc \in LockedSteps,
         JobOK([job[h] EXCEPT !.pc = pc]),
         pc \in TransferSteps => request[job[h].req].status # "NONE",
         pc \in CommitSteps => VerdictHolds(job[h]),
         Advance(h, pc), OnlyJob
  PROVE  IInv'
<1> DEFINE j == [job[h] EXCEPT !.pc = pc]
<1>1. job[h] \in Job /\ userLock[job[h].to] = h
  BY DEF IInv, TypeOK, LocksHeld
<1>2. /\ j \in Job /\ j.pc = pc /\ j.to = job[h].to /\ j.req = job[h].req
      /\ j.shift = job[h].shift /\ j.win = job[h].win
  BY <1>1 DEF Job, Steps, LockedSteps
<1>3. StepTo(h, j)
  BY <1>1, <1>2
     DEF StepTo, Advance, Continue, OnlyJob, swapVars, LockedSteps, RowCreations, AnswerSteps
<1>4. pc \in CommitSteps => VerdictHolds(j)
  BY <1>2 DEF VerdictHolds
<1> QED
  BY <1>2, <1>3, <1>4, LocalStep

LEMMA AssignCountSafe ==
  ASSUME IInv, NEW h \in Procs, AssignCount(h)
  PROVE  IInv'
<1>1. CASE Refuse(h)
  BY <1>1, RefusalIsSafe
<1>2. CASE Advance(h, "assign_check") /\ OnlyJob
  <2>1. job[h] \in Job /\ JobOK(job[h]) /\ job[h].pc = "assign_count"
    BY DEF IInv, TypeOK, JobsOK, AssignCount, At
  <2>2. JobOK([job[h] EXCEPT !.pc = "assign_check"])
    BY <2>1 DEF JobOK, Job, AssignSteps, TransferSteps, CancelSteps, ShiftSteps, CreationSteps, AnswerSteps
  <2> QED
    BY <1>2, <2>1, <2>2, LockedAdvance DEF LockedSteps, CommitSteps, TransferSteps
<1> QED
  BY <1>1, <1>2 DEF AssignCount

LEMMA AssignCheckSafe ==
  ASSUME IInv, NEW h \in Procs, AssignCheck(h)
  PROVE  IInv'
<1>1. CASE Refuse(h)
  BY <1>1, RefusalIsSafe
<1>2. CASE AssignVerdict(h) /\ Advance(h, "assign_write") /\ OnlyJob
  <2>1. job[h] \in Job /\ JobOK(job[h]) /\ job[h].pc = "assign_check"
    BY DEF IInv, TypeOK, JobsOK, AssignCheck, At
  <2>2. JobOK([job[h] EXCEPT !.pc = "assign_write"])
    BY <2>1 DEF JobOK, Job, AssignSteps, TransferSteps, CancelSteps, ShiftSteps, CreationSteps, AnswerSteps
  <2>3. job[h].to \in Staff /\ job[h].shift \in Shifts /\ job[h].win \in Windows
    BY <2>1 DEF JobOK, AssignSteps
  <2>4. VerdictHolds(job[h])
    BY <1>2, <2>3, AcceptedFits DEF VerdictHolds, AssignVerdict
  <2> QED
    BY <1>2, <2>1, <2>2, <2>4, LockedAdvance DEF LockedSteps, TransferSteps
<1> QED
  BY <1>1, <1>2 DEF AssignCheck

-----------------------------------------------------------------------------
(* Steps that write the roster or the shifts *)

\* Nobody is seated, and every seat that is moved is recorded as moved.
LEMMA UnseatingIsSafe ==
  ASSUME IInv, NEW h \in Procs, NEW j, StepTo(h, j), j.pc \notin CommitSteps,
         \A t \in Shifts, p \in Staff : Holds(p, t)' =>
            /\ Holds(p, t)
            /\ <<t, p>> \in edited => <<t, p>> \in edited'
            /\ window'[t] # window[t] => <<t, p>> \in edited'
  PROVE  NoUncheckedClash' /\ VerdictsHold'
<1>1. NoUncheckedClash'
  BY DEF IInv, NoUncheckedClash
<1>2. VerdictsHold'
  <2> SUFFICES ASSUME NEW g \in Procs, job'[g].pc \in CommitSteps
               PROVE  VerdictHolds(job[g])'
    BY DEF VerdictsHold
  <2>1. job'[g] = job[g] /\ JobOK(job[g]) /\ VerdictHolds(job[g])
    BY DEF StepTo, IInv, TypeOK, JobsOK, VerdictsHold
  <2>2. job[g].to \in Staff
    BY <2>1 DEF JobOK, CommitSteps, AssignSteps, TransferSteps
  <2> QED
    BY <2>1, <2>2 DEF VerdictHolds
<1> QED
  BY <1>1, <1>2

\* Handler h, which has q locked, seats q on s as judged by the times w, and may
\* free other seats.
LEMMA SeatingIsSafe ==
  ASSUME IInv, NEW h \in Procs, NEW j, StepTo(h, j), j.pc \notin CommitSteps,
         NEW s \in Shifts, NEW q \in Staff, NEW w \in Windows,
         userLock[q] = h, window' = window,
         \A t \in Shifts \ {s} : Holds(q, t) /\ Clash(window[t], w) => <<t, q>> \in edited,
         w # window[s] => <<s, q>> \in edited',
         \A t \in Shifts, p \in Staff : Holds(p, t)' /\ <<t, p>> # <<s, q>> =>
            Holds(p, t) /\ (<<t, p>> \in edited => <<t, p>> \in edited')
  PROVE  NoUncheckedClash' /\ VerdictsHold'
<1>1. NoUncheckedClash'
  <2> SUFFICES ASSUME NEW p \in Staff, NEW t \in Shifts, NEW u \in Shifts, t # u,
                      Holds(p, t)', Holds(p, u)', Clash(window[t], window[u])
               PROVE  <<t, p>> \in edited' \/ <<u, p>> \in edited'
    BY DEF NoUncheckedClash
  <2>1. window[t] \in Windows /\ window[u] \in Windows
    BY DEF IInv, TypeOK
  <2>2. CASE <<t, p>> = <<s, q>>
    <3>1. Holds(q, u) /\ (<<u, q>> \in edited => <<u, q>> \in edited') /\ u \in Shifts \ {s}
      BY <2>2
    <3>2. CASE w = window[s]
      <4>1. Clash(window[u], w)
        BY <2>1, <2>2, <3>2, ClashIsSymmetric
      <4> QED
        BY <2>2, <3>1, <4>1
    <3> QED
      BY <2>2, <3>2
  <2>3. CASE <<u, p>> = <<s, q>>
    <3>1. Holds(q, t) /\ (<<t, q>> \in edited => <<t, q>> \in edited') /\ t \in Shifts \ {s}
      BY <2>3
    <3> QED
      BY <2>3, <3>1
  <2>4. CASE <<t, p>> # <<s, q>> /\ <<u, p>> # <<s, q>>
    BY <2>4 DEF IInv, NoUncheckedClash
  <2> QED
    BY <2>2, <2>3, <2>4
<1>2. VerdictsHold'
  <2> SUFFICES ASSUME NEW g \in Procs, job'[g].pc \in CommitSteps
               PROVE  VerdictHolds(job[g])'
    BY DEF VerdictsHold
  <2>1. g # h /\ job'[g] = job[g] /\ JobOK(job[g]) /\ VerdictHolds(job[g])
    BY DEF StepTo, IInv, TypeOK, JobsOK, VerdictsHold
  <2>2. job[g].to \in Staff /\ userLock[job[g].to] = g
    BY <2>1 DEF JobOK, CommitSteps, AssignSteps, TransferSteps, IInv, LocksHeld, LockedSteps
  <2>3. job[g].to # q
    BY <2>1, <2>2
  <2> QED
    BY <2>1, <2>2, <2>3 DEF VerdictHolds
<1> QED
  BY <1>1, <1>2

\* The parts of the invariant that a step on the roster keeps in every case.
LEMMA RosterStep ==
  ASSUME IInv, NEW h \in Procs, NEW j, StepTo(h, j),
         RowsKept(h), LocksKept(h), LivesKept(h),
         NoUncheckedClash' /\ VerdictsHold',
         life' \in [Shifts -> {"FRESH", "LIVE", "DELETED"}],
         window' \in [Shifts -> Windows], need' \in [Shifts -> Needs],
         assignment' \in [Shifts -> [Staff -> AssignmentStatus]],
         edited' \subseteq Shifts \X Staff,
         moved' \in [Requests -> SUBSET (Shifts \X Staff \X Staff)],
         UNCHANGED <<worldVars, queue>>,
         \A s \in Shifts : life'[s] = "FRESH" =>
            life[s] = "FRESH" /\ assignment'[s] = assignment[s]
  PROVE  IInv'
<1>1. /\ job' \in [Procs -> Job]
      /\ JobsOK' /\ TargetsOK' /\ RequestsOK'
      /\ ShiftsDiffer' /\ RequestsDiffer' /\ LocksHeld'
  BY Bookkeeping
<1>2. TypeOK'
  BY <1>1 DEF IInv, TypeOK, RowsKept, LocksKept, worldVars
<1>3. FreshIsEmpty'
  BY DEF IInv, FreshIsEmpty
<1> QED
  BY <1>1, <1>2, <1>3 DEF IInv

LEMMA AssignWriteSafe ==
  ASSUME IInv, NEW h \in Procs, AssignWrite(h)
  PROVE  IInv'
<1>1. CASE Refuse(h)
  BY <1>1, RefusalIsSafe
<1>2. CASE /\ Live(job[h].shift)
           /\ Seat(job[h].shift, job[h].to, job[h].win)
           /\ Finish(h)
           /\ ReleaseLocks(h)
           /\ UNCHANGED <<shiftVars, swapVars, worldVars, queue>>
  <2> DEFINE s == job[h].shift
             q == job[h].to
             w == job[h].win
  <2>1. job[h].pc = "assign_write" /\ JobOK(job[h])
    BY DEF AssignWrite, At, IInv, JobsOK
  <2>2. s \in Shifts /\ q \in Staff /\ w \in Windows
    BY <2>1 DEF JobOK, AssignSteps
  <2>3. VerdictHolds(job[h]) /\ userLock[q] = h
    BY <2>1 DEF IInv, VerdictsHold, LocksHeld, CommitSteps, LockedSteps
  <2>4. StepTo(h, NoJob) /\ RowsKept(h) /\ LocksKept(h) /\ LivesKept(h)
    BY <1>2, FinishIsAStep, RequestsUntouched, LocksUntouched DEF LivesKept, swapVars, shiftVars
  <2>5. /\ assignment' = [assignment EXCEPT ![s][q] = "ASSIGNED"]
        /\ edited' = IF w = window[s] THEN edited \ {<<s, q>>} ELSE edited \cup {<<s, q>>}
        /\ assignment \in [Shifts -> [Staff -> AssignmentStatus]]
        /\ edited \subseteq Shifts \X Staff
    BY <1>2 DEF Seat, Judged, IInv, TypeOK
  <2>6. \A t \in Shifts, p \in Staff : Holds(p, t)' /\ <<t, p>> # <<s, q>> =>
          Holds(p, t) /\ (<<t, p>> \in edited => <<t, p>> \in edited')
    BY <2>2, <2>5 DEF Holds
  <2>7. NoUncheckedClash' /\ VerdictsHold'
    <3>1. \A t \in Shifts \ {s} : Holds(q, t) /\ Clash(window[t], w) => <<t, q>> \in edited
      BY <2>3 DEF VerdictHolds
    <3>2. w # window[s] => <<s, q>> \in edited'
      BY <2>2, <2>5
    <3>3. window' = window /\ NoJob.pc \notin CommitSteps
      BY <1>2, NoJobIsIdle DEF shiftVars, CommitSteps
    <3> HIDE DEF s, q, w
    <3> QED
      BY <2>2, <2>3, <2>4, <2>6, <3>1, <3>2, <3>3, SeatingIsSafe DEF q
  <2>8. assignment' \in [Shifts -> [Staff -> AssignmentStatus]] /\ edited' \subseteq Shifts \X Staff
    BY <2>2, <2>5 DEF AssignmentStatus
  <2>9. \A t \in Shifts : life'[t] = "FRESH" => life[t] = "FRESH" /\ assignment'[t] = assignment[t]
    BY <1>2, <2>2, <2>5 DEF Live, shiftVars
  <2> QED
    BY <1>2, <2>4, <2>7, <2>8, <2>9, RosterStep DEF shiftVars, swapVars, IInv, TypeOK
<1> QED
  BY <1>1, <1>2 DEF AssignWrite

-----------------------------------------------------------------------------
(* Unassigning, and the cancellation that follows *)

\* Positions of a handler that holds no lock, is about to create no row and has no
\* verdict to keep.
Free(pc) == pc \notin LockedSteps \cup RowCreations \cup {"create_write", "cancel_all", "claim_write"}

\* A handler's next local variables, when nothing depends on them but their own type.
LEMMA PlainStep ==
  ASSUME IInv, NEW h \in Procs, NEW j \in Job, JobOK(j), Continue(h, j), Free(j.pc),
         j.pc \in TransferSteps \cup AnswerSteps => request'[j.req].status # "NONE"
  PROVE  StepTo(h, j) /\ j.pc \notin CommitSteps
BY DEF StepTo, Continue, Free, CommitSteps, LockedSteps

LEMMA UnassignStartSafe ==
  ASSUME IInv, NEW h \in Procs, NEW s \in Shifts, NEW p \in Staff, UnassignStart(h, s, p)
  PROVE  IInv'
<1> DEFINE j == [NoJob EXCEPT !.pc = "unassign_write", !.shift = s, !.to = p]
<1>1. j \in Job /\ j.pc = "unassign_write" /\ j.shift = s /\ j.to = p
  BY NoJobIsIdle DEF NoJob, Job, Steps
<1>2. JobOK(j)
  BY <1>1 DEF JobOK, AssignSteps, TransferSteps, CancelSteps, ShiftSteps, CreationSteps, AnswerSteps
<1>3. StepTo(h, j) /\ j.pc \notin CommitSteps
  BY <1>1, <1>2, PlainStep
     DEF UnassignStart, Free, LockedSteps, RowCreations, TransferSteps, AnswerSteps
<1> QED
  BY <1>3, LocalStep DEF UnassignStart

LEMMA UnassignWriteSafe ==
  ASSUME IInv, NEW h \in Procs, UnassignWrite(h)
  PROVE  IInv'
<1> DEFINE s == job[h].shift
           q == job[h].to
           j == [NoJob EXCEPT !.pc = "cancel_find", !.shift = s, !.rows = {q}]
<1>1. CASE Refuse(h)
  BY <1>1, RefusalIsSafe
<1>2. CASE /\ Live(s)
           /\ Unseat(s, q)
           /\ Continue(h, j)
           /\ UNCHANGED <<shiftVars, swapVars, worldVars, userLock, queue>>
  <2>1. s \in Shifts /\ q \in Staff
    BY DEF UnassignWrite, At, IInv, JobsOK, JobOK, CancelSteps
  <2>2. j \in Job /\ j.pc = "cancel_find" /\ j.shift = s
    BY <2>1, NoJobIsIdle DEF NoJob, Job, Steps
  <2>3. JobOK(j)
    BY <2>1, <2>2 DEF JobOK, AssignSteps, TransferSteps, CancelSteps, ShiftSteps, CreationSteps, AnswerSteps
  <2>4. StepTo(h, j) /\ j.pc \notin CommitSteps
    BY <1>2, <2>2, <2>3, PlainStep DEF Free, LockedSteps, RowCreations, TransferSteps, AnswerSteps
  <2>5. RowsKept(h) /\ LocksKept(h) /\ LivesKept(h)
    BY <1>2, RequestsUntouched, LocksUntouched DEF LivesKept, swapVars, shiftVars
  <2>6. /\ assignment' = [assignment EXCEPT ![s][q] = "CANCELLED"]
        /\ edited' = edited \ {<<s, q>>}
        /\ assignment \in [Shifts -> [Staff -> AssignmentStatus]]
        /\ edited \subseteq Shifts \X Staff
    BY <1>2 DEF Unseat, IInv, TypeOK
  <2>7. NoUncheckedClash' /\ VerdictsHold'
    <3>1. \A t \in Shifts, p \in Staff : Holds(p, t)' =>
             Holds(p, t) /\ (<<t, p>> \in edited => <<t, p>> \in edited')
      BY <2>1, <2>6 DEF Holds
    <3>2. window' = window
      BY <1>2 DEF shiftVars
    <3> HIDE DEF j
    <3> QED
      BY <2>4, <3>1, <3>2, UnseatingIsSafe
  <2>8. assignment' \in [Shifts -> [Staff -> AssignmentStatus]] /\ edited' \subseteq Shifts \X Staff
    BY <2>1, <2>6 DEF AssignmentStatus
  <2>9. \A t \in Shifts : life'[t] = "FRESH" => life[t] = "FRESH" /\ assignment'[t] = assignment[t]
    BY <1>2, <2>1, <2>6 DEF Live, shiftVars
  <2> HIDE DEF j
  <2> QED
    BY <1>2, <2>4, <2>5, <2>7, <2>8, <2>9, RosterStep DEF shiftVars, swapVars, IInv, TypeOK
<1> QED
  BY <1>1, <1>2 DEF UnassignWrite

LEMMA CancelFindSafe ==
  ASSUME IInv, NEW h \in Procs, CancelFind(h)
  PROVE  IInv'
<1>1. PICK found \in SUBSET Requests : found = PendingFor(job[h].shift, job[h].rows)
  BY DEF PendingFor
<1> DEFINE j == [job[h] EXCEPT !.pc = "cancel_all", !.hits = found]
<1>2. CASE found = {}
  BY <1>1, <1>2, FinishIsAStep, NoJobIsIdle, LocalStep DEF CancelFind, Finish, CommitSteps
<1>3. CASE found # {}
  <2>1. job[h] \in Job /\ JobOK(job[h]) /\ job[h].pc = "cancel_find"
    BY DEF IInv, TypeOK, JobsOK, CancelFind, At
  <2>2. \A r \in found : request[r].status # "NONE"
    BY <1>1 DEF PendingFor, Active, ActiveStatuses
  <2>3. request' = request /\ Continue(h, j) /\ OnlyJob
    BY <1>1, <1>3 DEF CancelFind, OnlyJob, swapVars
  <2>4. j \in Job /\ j.pc = "cancel_all" /\ j.hits = found /\ j.shift = job[h].shift
    <3>1. "cancel_all" \in Steps /\ job[h] \in Job
      BY <2>1 DEF Steps
    <3>2. j \in Job
      BY <3>1 DEF Job
    <3> QED
      BY <3>1, <3>2 DEF Job
  <2>5. JobOK(j)
    BY <2>1, <2>4 DEF JobOK, AssignSteps, TransferSteps, CancelSteps, ShiftSteps, CreationSteps, AnswerSteps
  <2>6. StepTo(h, j)
    BY <2>2, <2>3, <2>4, <2>5
       DEF StepTo, Continue, TransferSteps, AnswerSteps, LockedSteps, RowCreations
  <2> HIDE DEF j
  <2> QED
    BY <2>3, <2>4, <2>6, LocalStep DEF CommitSteps
<1> QED
  BY <1>2, <1>3

LEMMA CancelAllSafe ==
  ASSUME IInv, NEW h \in Procs, CancelAll(h)
  PROVE  IInv'
<1>1. \A r \in job[h].hits : request[r].status # "NONE"
  BY DEF CancelAll, At, IInv, TargetsOK, TargetOK
<1>2. RowsKept(h)
  <2>1. request \in [Requests -> SwapRequest] /\ \A r \in Requests : RequestOK(request[r])
    BY DEF IInv, TypeOK, RequestsOK
  <2>2. \A r \in Requests : request'[r] = IF r \in job[h].hits
                                          THEN [request[r] EXCEPT !.status = "CANCELLED"]
                                          ELSE request[r]
    BY DEF CancelAll
  <2>3. request' \in [Requests -> SwapRequest]
    BY <2>1 DEF CancelAll, SwapRequest, ResolvedStatuses
  <2> QED
    BY <1>1, <2>1, <2>2, <2>3 DEF RowsKept, RequestOK, SwapRequest
<1>3. StepTo(h, NoJob) /\ LocksKept(h)
  BY FinishIsAStep, LocksUntouched DEF CancelAll
<1>4. Quiet
  BY DEF CancelAll, Quiet, IInv, TypeOK, worldVars
<1> QED
  BY <1>2, <1>3, <1>4, QuietStep, NoJobIsIdle DEF CommitSteps

-----------------------------------------------------------------------------
(* Shifts *)

LEMMA CreateStartSafe ==
  ASSUME IInv, NEW h \in Procs, NEW s \in Shifts, NEW w \in Windows, NEW n \in Needs,
         CreateStart(h, s, w, n)
  PROVE  IInv'
<1> DEFINE j == [NoJob EXCEPT !.pc = "create_write", !.shift = s, !.win = w, !.need = n]
<1>1. j \in Job /\ j.pc = "create_write" /\ j.shift = s /\ j.win = w /\ j.need = n
  BY NoJobIsIdle DEF NoJob, Job, Steps
<1>2. JobOK(j)
  BY <1>1 DEF JobOK, AssignSteps, TransferSteps, CancelSteps, ShiftSteps, CreationSteps, AnswerSteps
<1>3. StepTo(h, j)
  BY <1>1, <1>2
     DEF CreateStart, Continue, OnlyJob, shiftVars, Unclaimed, StepTo, TransferSteps,
         AnswerSteps, LockedSteps, RowCreations
<1> HIDE DEF j
<1> QED
  BY <1>1, <1>3, LocalStep DEF CreateStart, CommitSteps

LEMMA CreateWriteSafe ==
  ASSUME IInv, NEW h \in Procs, CreateWrite(h)
  PROVE  IInv'
<1> DEFINE s == job[h].shift
<1>1. job[h].pc = "create_write" /\ JobOK(job[h])
  BY DEF CreateWrite, At, IInv, JobsOK
<1>2. s \in Shifts /\ job[h].win \in Windows /\ job[h].need \in Needs /\ life[s] = "FRESH"
  BY <1>1 DEF JobOK, ShiftSteps, IInv, ShiftsDiffer, At
<1>3. /\ StepTo(h, NoJob) /\ RowsKept(h) /\ LocksKept(h) /\ LivesKept(h)
      /\ NoJob.pc \notin CommitSteps
  BY <1>1, NoJobIsIdle, FinishIsAStep, RequestsUntouched, LocksUntouched
     DEF CreateWrite, LivesKept, swapVars, CommitSteps, IInv, TypeOK
<1>4. \A p \in Staff : ~Holds(p, s)
  BY <1>2 DEF Holds, IInv, FreshIsEmpty
<1>5. NoUncheckedClash' /\ VerdictsHold'
  <2>1. \A t \in Shifts, p \in Staff : Holds(p, t)' =>
           Holds(p, t) /\ window'[t] = window[t] /\ edited' = edited
    BY <1>2, <1>4 DEF CreateWrite, Holds, rosterVars, IInv, TypeOK
  <2> QED
    BY <1>3, <2>1, UnseatingIsSafe
<1>6. /\ life' \in [Shifts -> {"FRESH", "LIVE", "DELETED"}]
      /\ window' \in [Shifts -> Windows] /\ need' \in [Shifts -> Needs]
  BY <1>2 DEF CreateWrite, IInv, TypeOK
<1>7. \A t \in Shifts : life'[t] = "FRESH" => life[t] = "FRESH" /\ assignment'[t] = assignment[t]
  BY <1>2 DEF CreateWrite, rosterVars, IInv, TypeOK
<1> QED
  BY <1>3, <1>5, <1>6, <1>7, RosterStep DEF CreateWrite, rosterVars, swapVars, IInv, TypeOK

LEMMA EditStartSafe ==
  ASSUME IInv, NEW h \in Procs, NEW s \in Shifts, NEW w \in Windows, NEW n \in Needs,
         EditStart(h, s, w, n)
  PROVE  IInv'
<1> DEFINE j == [NoJob EXCEPT !.pc = "edit_write", !.shift = s, !.win = w, !.need = n]
<1>1. j \in Job /\ j.pc = "edit_write" /\ j.shift = s /\ j.win = w /\ j.need = n
  BY NoJobIsIdle DEF NoJob, Job, Steps
<1>2. JobOK(j)
  BY <1>1 DEF JobOK, AssignSteps, TransferSteps, CancelSteps, ShiftSteps, CreationSteps, AnswerSteps
<1>3. Continue(h, j) /\ OnlyJob
  BY DEF EditStart, BeginEdit
<1>4. StepTo(h, j) /\ j.pc \notin CommitSteps
  BY <1>1, <1>2, <1>3, PlainStep
     DEF Free, LockedSteps, RowCreations, TransferSteps, AnswerSteps
<1> HIDE DEF j
<1> QED
  BY <1>3, <1>4, LocalStep

LEMMA EditWriteSafe ==
  ASSUME IInv, NEW h \in Procs, EditWrite(h)
  PROVE  IInv'
<1> DEFINE s == job[h].shift
           w == job[h].win
           j == [NoJob EXCEPT !.pc = "edit_rows", !.shift = s]
<1>1. CASE Refuse(h)
  BY <1>1, RefusalIsSafe
<1>2. CASE /\ Live(s)
           /\ window' = [window EXCEPT ![s] = w]
           /\ need' = [need EXCEPT ![s] = job[h].need]
           /\ edited' = edited \cup MovedHolders(s, w)
           /\ Continue(h, j)
           /\ UNCHANGED <<life, assignment, swapVars, worldVars, userLock, queue>>
  <2>1. s \in Shifts /\ w \in Windows /\ job[h].need \in Needs
    BY DEF EditWrite, At, IInv, JobsOK, JobOK, ShiftSteps
  <2>2. j \in Job /\ j.pc = "edit_rows" /\ j.shift = s
    BY <2>1, NoJobIsIdle DEF NoJob, Job, Steps
  <2>3. JobOK(j)
    BY <2>1, <2>2 DEF JobOK, AssignSteps, TransferSteps, CancelSteps, ShiftSteps, CreationSteps, AnswerSteps
  <2>4. StepTo(h, j) /\ j.pc \notin CommitSteps
    BY <1>2, <2>2, <2>3, PlainStep DEF Free, LockedSteps, RowCreations, TransferSteps, AnswerSteps
  <2>5. RowsKept(h) /\ LocksKept(h) /\ LivesKept(h)
    BY <1>2, RequestsUntouched, LocksUntouched DEF LivesKept, swapVars
  <2>6. NoUncheckedClash' /\ VerdictsHold'
    <3>1. ASSUME NEW t \in Shifts, NEW p \in Staff, Holds(p, t)'
          PROVE  /\ Holds(p, t)
                 /\ <<t, p>> \in edited => <<t, p>> \in edited'
                 /\ window'[t] # window[t] => <<t, p>> \in edited'
      BY <1>2, <2>1, <3>1 DEF Holds, MovedHolders, HoldersOf, IInv, TypeOK
    <3> HIDE DEF j
    <3> QED
      BY <2>4, <3>1, UnseatingIsSafe
  <2>7. /\ window' \in [Shifts -> Windows] /\ need' \in [Shifts -> Needs]
        /\ edited' \subseteq Shifts \X Staff
    BY <1>2, <2>1 DEF MovedHolders, HoldersOf, IInv, TypeOK
  <2> HIDE DEF j
  <2> QED
    BY <1>2, <2>4, <2>5, <2>6, <2>7, RosterStep DEF swapVars, IInv, TypeOK
<1> QED
  BY <1>1, <1>2 DEF EditWrite

LEMMA EditRowsSafe ==
  ASSUME IInv, NEW h \in Procs, EditRows(h)
  PROVE  IInv'
<1>1. PICK holders \in SUBSET Staff : holders = HoldersOf(job[h].shift)
  BY DEF HoldersOf
<1> DEFINE j == [job[h] EXCEPT !.pc = "cancel_find", !.rows = holders]
<1>2. CASE holders = {}
  BY <1>1, <1>2, FinishIsAStep, NoJobIsIdle, LocalStep DEF EditRows, Finish, CommitSteps
<1>3. CASE holders # {}
  <2>1. job[h] \in Job /\ JobOK(job[h]) /\ job[h].pc = "edit_rows"
    BY DEF IInv, TypeOK, JobsOK, EditRows, At
  <2>2. Continue(h, j) /\ OnlyJob
    BY <1>1, <1>3 DEF EditRows
  <2>3. j \in Job
    BY <2>1 DEF Job, Steps
  <2>4. j.pc = "cancel_find" /\ j.shift = job[h].shift
    BY <2>1 DEF Job
  <2>5. JobOK(j)
    BY <2>1, <2>4 DEF JobOK, AssignSteps, TransferSteps, CancelSteps, ShiftSteps, CreationSteps, AnswerSteps
  <2>6. StepTo(h, j) /\ j.pc \notin CommitSteps
    BY <2>2, <2>3, <2>4, <2>5, PlainStep
       DEF Free, LockedSteps, RowCreations, TransferSteps, AnswerSteps
  <2> HIDE DEF j
  <2> QED
    BY <2>2, <2>6, LocalStep
<1> QED
  BY <1>2, <1>3

LEMMA RemoveStartSafe ==
  ASSUME IInv, NEW h \in Procs, NEW s \in Shifts, RemoveStart(h, s)
  PROVE  IInv'
<1>1. PICK rows \in SUBSET Staff : rows = RowsOf(s)
  BY DEF RowsOf
<1> DEFINE j == [NoJob EXCEPT !.pc = "remove_count", !.shift = s, !.rows = rows]
<1>2. j \in Job /\ j.pc = "remove_count" /\ j.shift = s
  BY NoJobIsIdle DEF NoJob, Job, Steps
<1>3. JobOK(j)
  BY <1>2 DEF JobOK, AssignSteps, TransferSteps, CancelSteps, ShiftSteps, CreationSteps, AnswerSteps
<1>4. Continue(h, j) /\ OnlyJob
  BY <1>1 DEF RemoveStart
<1>5. StepTo(h, j) /\ j.pc \notin CommitSteps
  BY <1>2, <1>3, <1>4, PlainStep
     DEF Free, LockedSteps, RowCreations, TransferSteps, AnswerSteps
<1> HIDE DEF j
<1> QED
  BY <1>4, <1>5, LocalStep

\* From one step to another that has no more to keep.
LEMMA PlainAdvance ==
  ASSUME IInv, NEW h \in Procs, NEW pc \in Steps, Advance(h, pc), Free(pc),
         JobOK([job[h] EXCEPT !.pc = pc]),
         pc \in TransferSteps \cup AnswerSteps => request'[job[h].req].status # "NONE"
  PROVE  \E j : StepTo(h, j) /\ j.pc \notin CommitSteps
<1> DEFINE j == [job[h] EXCEPT !.pc = pc]
<1>1. j \in Job /\ j.pc = pc /\ j.req = job[h].req
  BY DEF Job, IInv, TypeOK
<1>2. StepTo(h, j) /\ j.pc \notin CommitSteps
  BY <1>1, PlainStep DEF Advance
<1> QED
  BY <1>2

LEMMA RemoveCountSafe ==
  ASSUME IInv, NEW h \in Procs, RemoveCount(h)
  PROVE  IInv'
<1>1. CASE Refuse(h)
  BY <1>1, RefusalIsSafe
<1>2. CASE Advance(h, "remove_delete") /\ OnlyJob
  <2>1. job[h] \in Job /\ JobOK(job[h]) /\ job[h].pc = "remove_count"
    BY DEF IInv, TypeOK, JobsOK, RemoveCount, At
  <2>2. JobOK([job[h] EXCEPT !.pc = "remove_delete"])
    BY <2>1 DEF JobOK, Job, AssignSteps, TransferSteps, CancelSteps, ShiftSteps, CreationSteps, AnswerSteps
  <2>3. PICK j : StepTo(h, j) /\ j.pc \notin CommitSteps
    BY <1>2, <2>2, PlainAdvance
       DEF Free, Steps, LockedSteps, RowCreations, TransferSteps, AnswerSteps
  <2> QED
    BY <1>2, <2>3, LocalStep
<1> QED
  BY <1>1, <1>2 DEF RemoveCount

LEMMA RemoveDeleteSafe ==
  ASSUME IInv, NEW h \in Procs, RemoveDelete(h)
  PROVE  IInv'
<1> DEFINE s == job[h].shift
<1>1. CASE Refuse(h)
  BY <1>1, RefusalIsSafe
<1>2. CASE /\ Live(s)
           /\ life' = [life EXCEPT ![s] = "DELETED"]
           /\ assignment' = [assignment EXCEPT ![s] = [p \in Staff |-> "NONE"]]
           /\ edited' = edited \ ({s} \X Staff)
           /\ request' = [r \in Requests |-> IF request[r].back = s
                                             THEN [request[r] EXCEPT !.back = None]
                                             ELSE request[r]]
           /\ Finish(h)
           /\ UNCHANGED <<window, need, moved, worldVars, userLock, queue>>
  <2>1. s \in Shifts
    BY DEF RemoveDelete, At, IInv, JobsOK, JobOK, ShiftSteps
  <2>2. StepTo(h, NoJob) /\ LocksKept(h) /\ NoJob.pc \notin CommitSteps
    BY <1>2, FinishIsAStep, LocksUntouched, NoJobIsIdle DEF CommitSteps
  <2>3. RowsKept(h)
    <3>1. request \in [Requests -> SwapRequest] /\ \A r \in Requests : RequestOK(request[r])
      BY DEF IInv, TypeOK, RequestsOK
    <3>2. \A r \in Requests : /\ request'[r].status = request[r].status
                              /\ request'[r].initiator = request[r].initiator
                              /\ request'[r].shift = request[r].shift
                              /\ request'[r].counterparty = request[r].counterparty
      BY <1>2, <3>1 DEF SwapRequest
    <3>3. request' \in [Requests -> SwapRequest]
      BY <1>2, <3>1 DEF SwapRequest
    <3> QED
      BY <3>1, <3>2, <3>3 DEF RowsKept, RequestOK
  <2>4. LivesKept(h)
    BY <1>2, <2>1 DEF LivesKept, Live, IInv, TypeOK
  <2>5. NoUncheckedClash' /\ VerdictsHold'
    <3>1. \A t \in Shifts, p \in Staff : Holds(p, t)' =>
             Holds(p, t) /\ (<<t, p>> \in edited => <<t, p>> \in edited') /\ window'[t] = window[t]
      BY <1>2, <2>1 DEF Holds, IInv, TypeOK
    <3> QED
      BY <2>2, <3>1, UnseatingIsSafe
  <2>6. /\ life' \in [Shifts -> {"FRESH", "LIVE", "DELETED"}]
        /\ assignment' \in [Shifts -> [Staff -> AssignmentStatus]]
        /\ edited' \subseteq Shifts \X Staff
    BY <1>2, <2>1 DEF AssignmentStatus, IInv, TypeOK
  <2>7. \A t \in Shifts : life'[t] = "FRESH" => life[t] = "FRESH" /\ assignment'[t] = assignment[t]
    BY <1>2, <2>1 DEF IInv, TypeOK
  <2> QED
    BY <1>2, <2>2, <2>3, <2>4, <2>5, <2>6, <2>7, RosterStep DEF IInv, TypeOK
<1> QED
  BY <1>1, <1>2 DEF RemoveDelete

LEMMA PublishingSafe ==
  ASSUME IInv, NEW h \in Procs,
         PublishStart(h) \/ PublishWrite(h) \/ UnpublishStart(h) \/ UnpublishWrite(h)
  PROVE  IInv'
<1>1. ASSUME NEW pc \in {"publish_write", "unpublish_write"},
             Continue(h, [NoJob EXCEPT !.pc = pc]), OnlyJob
      PROVE  IInv'
  <2> DEFINE j == [NoJob EXCEPT !.pc = pc]
  <2>1. j \in Job /\ j.pc = pc
    BY NoJobIsIdle DEF NoJob, Job, Steps
  <2>2. JobOK(j)
    BY <2>1 DEF JobOK, AssignSteps, TransferSteps, CancelSteps, ShiftSteps, CreationSteps, AnswerSteps
  <2>3. StepTo(h, j) /\ j.pc \notin CommitSteps
    BY <1>1, <2>1, <2>2, PlainStep DEF Free, LockedSteps, RowCreations, TransferSteps, AnswerSteps
  <2> HIDE DEF j
  <2> QED
    BY <1>1, <2>3, LocalStep
<1>2. ASSUME NEW value \in BOOLEAN, SetPublished(h, value)
      PROVE  IInv'
  <2>1. StepTo(h, NoJob) /\ RowsKept(h) /\ LocksKept(h) /\ NoJob.pc \notin CommitSteps
    BY <1>2, FinishIsAStep, RequestsUntouched, LocksUntouched, NoJobIsIdle
       DEF SetPublished, swapVars, CommitSteps
  <2>2. Quiet
    BY <1>2 DEF SetPublished, Quiet, IInv, TypeOK, swapVars
  <2> QED
    BY <2>1, <2>2, QuietStep
<1> QED
  BY <1>1, <1>2 DEF PublishStart, PublishWrite, UnpublishStart, UnpublishWrite

-----------------------------------------------------------------------------
(* Requesting a swap or a drop *)

LEMMA SwapStartSafe ==
  ASSUME IInv, NEW h \in Procs, NEW r \in Requests, NEW p \in Staff, NEW q \in Staff,
         NEW s \in Shifts, NEW b \in Shifts \cup {None}, SwapStart(h, r, p, s, q, b)
  PROVE  IInv'
<1> DEFINE j == [NoJob EXCEPT !.pc = "swap_create", !.req = r, !.shift = s,
                              !.from = p, !.to = q, !.back = b]
<1>1. /\ j \in Job /\ j.pc = "swap_create" /\ j.req = r /\ j.shift = s
      /\ j.from = p /\ j.to = q /\ j.back = b
  BY NoJobIsIdle DEF NoJob, Job, Steps
<1>2. JobOK(j)
  BY <1>1 DEF SwapStart, JobOK, AssignSteps, TransferSteps, CancelSteps, ShiftSteps, CreationSteps, AnswerSteps
<1>3. StepTo(h, j)
  BY <1>1, <1>2
     DEF SwapStart, Continue, OnlyJob, swapVars, Unused, StepTo, TransferSteps,
         AnswerSteps, LockedSteps, RowCreations
<1> HIDE DEF j
<1> QED
  BY <1>1, <1>3, LocalStep DEF SwapStart, CommitSteps

LEMMA DropStartSafe ==
  ASSUME IInv, NEW h \in Procs, NEW r \in Requests, NEW p \in Staff, NEW s \in Shifts,
         DropStart(h, r, p, s)
  PROVE  IInv'
<1>1. PICK e \in Int : e = DropExpiry(window[s].start)
  <2>1. window[s].start \in Int
    BY WindowsAssumption DEF IInv, TypeOK
  <2> QED
    BY <2>1, RulesAssumption DEF DropExpiry
<1> DEFINE j == [NoJob EXCEPT !.pc = "drop_create", !.req = r, !.shift = s,
                              !.from = p, !.expiresAt = e]
<1>2. j \in Job /\ j.pc = "drop_create" /\ j.req = r /\ j.shift = s /\ j.from = p
  BY NoJobIsIdle DEF NoJob, Job, Steps
<1>3. JobOK(j)
  BY <1>2 DEF JobOK, AssignSteps, TransferSteps, CancelSteps, ShiftSteps, CreationSteps, AnswerSteps
<1>4. Continue(h, j) /\ OnlyJob /\ Unused(r)
  BY <1>1 DEF DropStart
<1>5. StepTo(h, j)
  BY <1>2, <1>3, <1>4
     DEF Continue, OnlyJob, swapVars, Unused, StepTo, TransferSteps,
         AnswerSteps, LockedSteps, RowCreations
<1> HIDE DEF j
<1> QED
  BY <1>2, <1>4, <1>5, LocalStep DEF CommitSteps

\* A handler that creates a row writes one that is well formed where none was.
LEMMA CreationKeepsRows ==
  ASSUME IInv, NEW h \in Procs, job[h].pc \in RowCreations,
         NEW q \in SwapRequest, RequestOK(q), q.status # "NONE",
         request' = [request EXCEPT ![job[h].req] = q]
  PROVE  RowsKept(h)
<1>1. job[h].req \in Requests
  BY DEF IInv, JobsOK, JobOK, RowCreations, CreationSteps
<1>2. request[job[h].req].status = "NONE"
  BY DEF IInv, RequestsDiffer
<1>3. /\ request' \in [Requests -> SwapRequest] /\ request'[job[h].req] = q
      /\ \A r \in Requests \ {job[h].req} : request'[r] = request[r]
  BY <1>1 DEF IInv, TypeOK
<1> QED
  BY <1>1, <1>2, <1>3 DEF RowsKept, IInv, RequestsOK

LEMMA SwapCreateSafe ==
  ASSUME IInv, NEW h \in Procs, SwapCreate(h)
  PROVE  IInv'
<1> DEFINE q == [type |-> "SWAP", status |-> "PENDING_TARGET", initiator |-> job[h].from,
                 shift |-> job[h].shift, counterparty |-> job[h].to, back |-> job[h].back,
                 expiresAt |-> 0]
<1>1. CASE Refuse(h)
  BY <1>1, RefusalIsSafe
<1>2. CASE /\ request' = [request EXCEPT ![job[h].req] = q]
           /\ Finish(h)
           /\ UNCHANGED <<shiftVars, rosterVars, moved, worldVars, userLock, queue>>
  <2>1. job[h].pc = "swap_create" /\ job[h] \in Job /\ JobOK(job[h])
    BY DEF SwapCreate, At, IInv, JobsOK, TypeOK
  <2>2. /\ job[h].from \in Staff /\ job[h].to \in Staff /\ job[h].from # job[h].to
        /\ job[h].shift \in Shifts /\ job[h].back \in Shifts \cup {None}
    BY <2>1 DEF JobOK, Job
  <2>3. q \in SwapRequest
    BY <2>2 DEF SwapRequest, ActiveStatuses
  <2>4. RequestOK(q) /\ q.status # "NONE"
    BY <2>2 DEF RequestOK
  <2> HIDE DEF q
  <2>5. RowsKept(h)
    BY <1>2, <2>1, <2>3, <2>4, CreationKeepsRows DEF RowCreations
  <2>6. StepTo(h, NoJob) /\ LocksKept(h) /\ NoJob.pc \notin CommitSteps
    BY <1>2, FinishIsAStep, LocksUntouched, NoJobIsIdle DEF CommitSteps
  <2>7. Quiet
    BY <1>2 DEF Quiet, IInv, TypeOK, worldVars
  <2> QED
    BY <2>5, <2>6, <2>7, QuietStep
<1> QED
  BY <1>1, <1>2 DEF SwapCreate

LEMMA DropCreateSafe ==
  ASSUME IInv, NEW h \in Procs, DropCreate(h)
  PROVE  IInv'
<1> DEFINE q == [type |-> "DROP", status |-> "PENDING", initiator |-> job[h].from,
                 shift |-> job[h].shift, counterparty |-> None, back |-> None,
                 expiresAt |-> job[h].expiresAt]
<1>1. CASE Refuse(h)
  BY <1>1, RefusalIsSafe
<1>2. CASE /\ request' = [request EXCEPT ![job[h].req] = q]
           /\ Advance(h, "drop_enqueue")
           /\ UNCHANGED <<shiftVars, rosterVars, moved, worldVars, userLock, queue>>
  <2>1. job[h].pc = "drop_create" /\ job[h] \in Job /\ JobOK(job[h])
    BY DEF DropCreate, DropCreateThen, At, IInv, JobsOK, TypeOK
  <2>2. job[h].from \in Staff /\ job[h].shift \in Shifts /\ job[h].expiresAt \in Int
    BY <2>1 DEF JobOK, Job
  <2>3. q \in SwapRequest
    BY <2>2 DEF SwapRequest, ActiveStatuses
  <2>4. RequestOK(q) /\ q.status # "NONE"
    BY <2>2, NoneAssumption DEF RequestOK
  <2> HIDE DEF q
  <2>5. RowsKept(h) /\ LocksKept(h)
    BY <1>2, <2>1, <2>3, <2>4, CreationKeepsRows, LocksUntouched DEF RowCreations
  <2>6. JobOK([job[h] EXCEPT !.pc = "drop_enqueue"])
    BY <2>1 DEF JobOK, Job, AssignSteps, TransferSteps, CancelSteps, ShiftSteps, CreationSteps, AnswerSteps
  <2>7. PICK j : StepTo(h, j) /\ j.pc \notin CommitSteps
    BY <1>2, <2>6, PlainAdvance
       DEF Free, Steps, LockedSteps, RowCreations, TransferSteps, AnswerSteps
  <2>8. Quiet
    BY <1>2 DEF Quiet, IInv, TypeOK, worldVars
  <2> QED
    BY <2>5, <2>7, <2>8, QuietStep
<1> QED
  BY <1>1, <1>2 DEF DropCreate, DropCreateThen

\* Adding a job to the queue or removing one.
LEMMA QueueSafe ==
  ASSUME IInv, NEW h \in Procs, Finish(h), queue' \subseteq Requests,
         UNCHANGED <<shiftVars, rosterVars, swapVars, worldVars, userLock>>
  PROVE  IInv'
<1>1. StepTo(h, NoJob) /\ RowsKept(h) /\ LocksKept(h) /\ NoJob.pc \notin CommitSteps
  BY FinishIsAStep, RequestsUntouched, LocksUntouched, NoJobIsIdle DEF swapVars, CommitSteps
<1>2. Quiet
  BY DEF Quiet, IInv, TypeOK, swapVars, worldVars
<1> QED
  BY <1>1, <1>2, QuietStep

LEMMA QueueStepsSafe ==
  ASSUME IInv, NEW h \in Procs, DropEnqueue(h) \/ CancelJob(h) \/ StalledJob(h)
  PROVE  IInv'
<1>1. Finish(h) /\ queue' \subseteq Requests
  BY DEF DropEnqueue, CancelJob, StalledJob, At, IInv, TypeOK, JobsOK, JobOK,
         CreationSteps, AnswerSteps
<1> QED
  BY <1>1, QueueSafe DEF DropEnqueue, CancelJob, StalledJob

-----------------------------------------------------------------------------
(* Answering a request *)

LEMMA BeginIsAStep ==
  ASSUME IInv, NEW h \in Procs, NEW r \in Requests, NEW pc \in AnswerSteps \ {"claim_write"},
         Begin(h, r, pc), request'[r].status # "NONE"
  PROVE  \E j : StepTo(h, j) /\ j.pc \notin CommitSteps
<1> DEFINE j == [NoJob EXCEPT !.pc = pc, !.req = r]
<1>1. j \in Job /\ j.pc = pc /\ j.req = r
  BY NoJobIsIdle DEF NoJob, Job, Steps, AnswerSteps
<1>2. JobOK(j)
  BY <1>1 DEF JobOK, AssignSteps, TransferSteps, CancelSteps, ShiftSteps, CreationSteps, AnswerSteps
<1>3. StepTo(h, j) /\ j.pc \notin CommitSteps
  BY <1>1, <1>2, PlainStep DEF Begin, Free, LockedSteps, RowCreations, AnswerSteps
<1> QED
  BY <1>3

LEMMA AnswerStartSafe ==
  ASSUME IInv, NEW h \in Procs, NEW r \in Requests,
         AcceptStart(h, r) \/ DeclineStart(h, r) \/ CancelStart(h, r) \/ RejectStart(h, r)
  PROVE  IInv'
<1>1. PICK pc \in AnswerSteps \ {"claim_write"} : Begin(h, r, pc) /\ OnlyJob
  BY DEF AcceptStart, DeclineStart, CancelStart, RejectStart, AnswerSteps
<1>2. request'[r].status # "NONE"
  BY DEF AcceptStart, DeclineStart, CancelStart, RejectStart, AwaitsTarget, Active,
         ActiveStatuses, OnlyJob, swapVars
<1>3. PICK j : StepTo(h, j) /\ j.pc \notin CommitSteps
  BY <1>1, <1>2, BeginIsAStep
<1> QED
  BY <1>1, <1>3, LocalStep

LEMMA ClaimStartSafe ==
  ASSUME IInv, NEW h \in Procs, NEW r \in Requests, NEW q \in Staff, ClaimStart(h, r, q)
  PROVE  IInv'
<1> DEFINE j == [NoJob EXCEPT !.pc = "claim_write", !.req = r, !.to = q]
<1>1. j \in Job /\ j.pc = "claim_write" /\ j.req = r /\ j.to = q
  BY NoJobIsIdle DEF NoJob, Job, Steps
<1>2. JobOK(j)
  BY <1>1 DEF JobOK, AssignSteps, TransferSteps, CancelSteps, ShiftSteps, CreationSteps, AnswerSteps
<1>3. /\ Continue(h, j) /\ OnlyJob /\ request' = request
      /\ request[r].status = "PENDING" /\ request[r].initiator # q
  BY DEF ClaimStart, OnlyJob, swapVars
<1>4. StepTo(h, j)
  BY <1>1, <1>2, <1>3 DEF Continue, StepTo, LockedSteps, RowCreations
<1> HIDE DEF j
<1> QED
  BY <1>1, <1>3, <1>4, LocalStep DEF CommitSteps

LEMMA ClaimWriteSafe ==
  ASSUME IInv, NEW h \in Procs, ClaimWrite(h)
  PROVE  IInv'
<1> DEFINE r == job[h].req
           q == job[h].to
<1>1. r \in Requests /\ q \in Staff /\ request[r].status # "NONE" /\ request[r].initiator # q
  BY DEF ClaimWrite, At, IInv, JobsOK, JobOK, AnswerSteps, TargetsOK, TargetOK
<1>2. RowsKept(h)
  <2>1. request \in [Requests -> SwapRequest] /\ \A x \in Requests : RequestOK(request[x])
    BY DEF IInv, TypeOK, RequestsOK
  <2>2. /\ request'[r] = [request[r] EXCEPT !.status = "PENDING_MANAGER", !.counterparty = q]
        /\ \A x \in Requests \ {r} : request'[x] = request[x]
    BY <1>1, <2>1 DEF ClaimWrite
  <2>3. request'[r] \in SwapRequest
    BY <1>1, <2>1, <2>2 DEF SwapRequest, ActiveStatuses
  <2>4. request' \in [Requests -> SwapRequest]
    BY <2>1, <2>2, <2>3 DEF ClaimWrite
  <2>5. /\ request'[r].status = "PENDING_MANAGER" /\ request'[r].counterparty = q
        /\ request'[r].initiator = request[r].initiator /\ request'[r].shift = request[r].shift
    BY <1>1, <2>1, <2>2 DEF SwapRequest
  <2> QED
    BY <1>1, <2>1, <2>2, <2>4, <2>5 DEF RowsKept, RequestOK
<1>3. StepTo(h, NoJob) /\ LocksKept(h) /\ NoJob.pc \notin CommitSteps
  BY FinishIsAStep, LocksUntouched, NoJobIsIdle DEF ClaimWrite, CommitSteps
<1>4. Quiet
  BY DEF ClaimWrite, Quiet, IInv, TypeOK, worldVars
<1> QED
  BY <1>2, <1>3, <1>4, QuietStep

\* Every other answer changes the status of one request.
LEMMA StatusStepSafe ==
  ASSUME IInv, NEW h \in Procs, NEW at \in AnswerSteps,
         NEW status \in ActiveStatuses \cup ResolvedStatuses,
         NEW then \in {"idle", "cancel_job"}, StatusStep(h, at, status, then)
  PROVE  IInv'
<1> DEFINE r == job[h].req
<1>1. r \in Requests /\ request[r].status # "NONE" /\ job[h] \in Job /\ JobOK(job[h])
  BY DEF StatusStep, At, IInv, TypeOK, JobsOK, JobOK, TargetsOK, TargetOK
<1>2. RowsKept(h) /\ request'[r].status # "NONE"
  <2>1. request \in [Requests -> SwapRequest] /\ \A x \in Requests : RequestOK(request[x])
    BY DEF IInv, TypeOK, RequestsOK
  <2>2. /\ request'[r] = [request[r] EXCEPT !.status = status]
        /\ \A x \in Requests \ {r} : request'[x] = request[x]
    BY <1>1, <2>1 DEF StatusStep, SetStatus
  <2>3. request' \in [Requests -> SwapRequest]
    BY <1>1, <2>1 DEF StatusStep, SetStatus, SwapRequest
  <2>4. /\ request'[r].status = status /\ request'[r].counterparty = request[r].counterparty
        /\ request'[r].initiator = request[r].initiator /\ request'[r].shift = request[r].shift
    BY <1>1, <2>1, <2>2 DEF SwapRequest
  <2>5. request'[r].status # "NONE"
    BY <2>4 DEF ActiveStatuses, ResolvedStatuses
  <2>6. RequestOK(request'[r])
    BY <1>1, <2>1, <2>4, <2>5 DEF RequestOK
  <2> QED
    BY <1>1, <2>1, <2>2, <2>3, <2>4, <2>5, <2>6 DEF RowsKept
<1>3. LocksKept(h) /\ Quiet
  BY LocksUntouched DEF StatusStep, Quiet, IInv, TypeOK, worldVars
<1>4. CASE Finish(h)
  BY <1>2, <1>3, <1>4, FinishIsAStep, NoJobIsIdle, QuietStep DEF CommitSteps
<1>5. CASE Advance(h, "cancel_job")
  <2>1. JobOK([job[h] EXCEPT !.pc = "cancel_job"])
    BY <1>1 DEF JobOK, Job, AssignSteps, TransferSteps, CancelSteps, ShiftSteps, CreationSteps, AnswerSteps
  <2>2. PICK j : StepTo(h, j) /\ j.pc \notin CommitSteps
    BY <1>2, <1>5, <2>1, PlainAdvance DEF Free, Steps, LockedSteps, RowCreations
  <2> QED
    BY <1>2, <1>3, <2>2, QuietStep
<1> QED
  BY <1>4, <1>5 DEF StatusStep

LEMMA AnswerWriteSafe ==
  ASSUME IInv, NEW h \in Procs,
         \/ AcceptWrite(h) \/ DeclineWrite(h) \/ CancelWrite(h)
         \/ RejectWrite(h) \/ ExpireWrite(h) \/ ApproveWrite(h)
  PROVE  IInv'
BY StatusStepSafe
   DEF AcceptWrite, DeclineWrite, CancelWrite, RejectWrite, ExpireWrite, ApproveWrite,
       AnswerSteps, ActiveStatuses, ResolvedStatuses

LEMMA ExpireStartSafe ==
  ASSUME IInv, NEW r \in Requests, ExpireStart(r)
  PROVE  IInv'
<1>1. Worker \in Procs /\ job \in [Procs -> Job] /\ queue \subseteq Requests
  BY DEF Procs, IInv, TypeOK
<1>2. RowsKept(Worker) /\ LocksKept(Worker)
  BY <1>1, RequestsUntouched, LocksUntouched DEF ExpireStart, swapVars
<1>3. Quiet
  BY <1>1 DEF ExpireStart, Quiet, IInv, TypeOK, swapVars, worldVars
<1>4. CASE request[r].status = "PENDING"
  <2>1. Begin(Worker, r, "expire_write") /\ request'[r].status # "NONE"
    BY <1>4 DEF ExpireStart, swapVars
  <2>2. PICK j : StepTo(Worker, j) /\ j.pc \notin CommitSteps
    BY <1>1, <2>1, BeginIsAStep DEF AnswerSteps
  <2> QED
    BY <1>1, <1>2, <1>3, <2>2, QuietStep
<1>5. CASE request[r].status # "PENDING"
  <2>1. UNCHANGED job /\ job[Worker].pc = "idle" /\ JobOK(job[Worker])
    BY <1>1, <1>5 DEF ExpireStart, Idle, IInv, JobsOK
  <2>2. job' = [job EXCEPT ![Worker] = job[Worker]]
    BY <1>1, <2>1
  <2>3. StepTo(Worker, job[Worker]) /\ job[Worker].pc \notin CommitSteps
    BY <1>1, <2>1, <2>2, PlainStep
       DEF Continue, Free, LockedSteps, RowCreations, TransferSteps, AnswerSteps
  <2> QED
    BY <1>1, <1>2, <1>3, <2>3, QuietStep
<1> QED
  BY <1>4, <1>5

-----------------------------------------------------------------------------
(* Approving a request *)

LEMMA TransferJobIsTyped ==
  ASSUME NEW r \in Requests, NEW s \in Shifts, NEW p \in Staff, NEW q \in Staff,
         NEW w \in Windows, NEW b \in Shifts \cup {None}, NEW bw \in Windows \cup {None},
         p # q, b # None => bw \in Windows
  PROVE  LET j == TransferJob(r, s, p, q, w, b, bw)
         IN  j \in Job /\ JobOK(j) /\ j.pc = "transfer_lock" /\ j.req = r
<1> DEFINE j == TransferJob(r, s, p, q, w, b, bw)
<1>1. /\ j \in Job /\ j.pc = "transfer_lock" /\ j.req = r /\ j.shift = s /\ j.from = p
      /\ j.to = q /\ j.win = w /\ j.back = b /\ j.backWin = bw
  BY NoJobIsIdle DEF NoJob, TransferJob, Job, Steps
<1>2. JobOK(j)
  <2> HIDE DEF j
  <2> QED
    BY <1>1
       DEF JobOK, AssignSteps, TransferSteps, CancelSteps, ShiftSteps, CreationSteps, AnswerSteps
<1> QED
  BY <1>1, <1>2

\* A handler may go on to a transfer for a request that is in the table.
LEMMA TransferJobIsAStep ==
  ASSUME IInv, NEW h \in Procs,
         NEW r \in Requests, NEW s \in Shifts, NEW p \in Staff, NEW q \in Staff,
         NEW w \in Windows, NEW b \in Shifts \cup {None}, NEW bw \in Windows \cup {None},
         p # q, b # None => bw \in Windows,
         Continue(h, TransferJob(r, s, p, q, w, b, bw)), request'[r].status # "NONE"
  PROVE  \E j : StepTo(h, j) /\ j.pc \notin CommitSteps
BY TransferJobIsTyped, PlainStep DEF Free, LockedSteps, RowCreations

LEMMA ApproveStartSafe ==
  ASSUME IInv, NEW h \in Procs, NEW r \in Requests, ApproveStart(h, r)
  PROVE  IInv'
<1> DEFINE q == request[r]
<1>1. /\ q \in SwapRequest /\ RequestOK(q) /\ q.status = "PENDING_MANAGER"
      /\ q.counterparty # None
  BY DEF ApproveStart, IInv, TypeOK, RequestsOK
<1>2. /\ q.initiator \in Staff /\ q.counterparty \in Staff /\ q.initiator # q.counterparty
      /\ q.shift \in Shifts /\ q.back \in Shifts \cup {None}
  BY <1>1 DEF RequestOK, SwapRequest
<1>3. PICK bw \in Windows \cup {None} :
         /\ bw = IF q.back = None THEN None ELSE window[q.back]
         /\ q.back # None => bw \in Windows
  BY <1>2 DEF IInv, TypeOK
<1>4. window[q.shift] \in Windows
  BY <1>2 DEF IInv, TypeOK
<1>5. /\ Continue(h, TransferJob(r, q.shift, q.initiator, q.counterparty, window[q.shift],
                                 q.back, bw))
      /\ OnlyJob /\ request' = request
  BY <1>3 DEF ApproveStart, BeginApproval, OnlyJob, swapVars
<1>6. PICK j : StepTo(h, j) /\ j.pc \notin CommitSteps
  BY <1>1, <1>2, <1>3, <1>4, <1>5, TransferJobIsAStep
<1> QED
  BY <1>5, <1>6, LocalStep

LEMMA TransferLockSafe ==
  ASSUME IInv, NEW h \in Procs, TransferLock(h)
  PROVE  IInv'
<1>1. /\ job[h] \in Job /\ JobOK(job[h]) /\ job[h].pc = "transfer_lock"
      /\ request[job[h].req].status # "NONE"
  BY DEF IInv, TypeOK, JobsOK, TransferLock, At, TargetsOK, TargetOK, TransferSteps
<1>2. job[h].to \in Staff /\ JobOK([job[h] EXCEPT !.pc = "transfer_check"])
  BY <1>1 DEF JobOK, Job, AssignSteps, TransferSteps, CancelSteps, ShiftSteps, CreationSteps, AnswerSteps
<1> QED
  BY <1>1, <1>2, LockStep DEF TransferLock, LockedSteps, CommitSteps

LEMMA TransferCheckSafe ==
  ASSUME IInv, NEW h \in Procs, TransferCheck(h)
  PROVE  IInv'
<1>1. CASE Refuse(h)
  BY <1>1, RefusalIsSafe
<1>2. CASE TransferAccepts(h) /\ Advance(h, "transfer_write") /\ OnlyJob
  <2>1. /\ job[h] \in Job /\ JobOK(job[h]) /\ job[h].pc = "transfer_check"
        /\ request[job[h].req].status # "NONE"
    BY DEF IInv, TypeOK, JobsOK, TransferCheck, At, TargetsOK, TargetOK, TransferSteps
  <2>2. JobOK([job[h] EXCEPT !.pc = "transfer_write"])
    BY <2>1 DEF JobOK, Job, AssignSteps, TransferSteps, CancelSteps, ShiftSteps, CreationSteps, AnswerSteps
  <2>3. job[h].to \in Staff /\ job[h].shift \in Shifts /\ job[h].win \in Windows
    BY <2>1 DEF JobOK, TransferSteps
  <2>4. VerdictHolds(job[h])
    BY <1>2, <2>3, AcceptedFits DEF VerdictHolds, TransferAccepts
  <2> QED
    BY <1>2, <2>1, <2>2, <2>4, LockedAdvance DEF LockedSteps
<1> QED
  BY <1>1, <1>2 DEF TransferCheck

\* After the first transfer comes the one of the return shift, or the resolution.
LEMMA AfterTransferIsAStep ==
  ASSUME IInv, NEW h \in Procs, job[h].pc = "transfer_write",
         Continue(h, AfterTransfer(h)), UNCHANGED request
  PROVE  \E j : StepTo(h, j) /\ j.pc \notin CommitSteps
<1>1. /\ job[h] \in Job /\ JobOK(job[h])
      /\ job[h].req \in Requests /\ request[job[h].req].status # "NONE"
  BY DEF IInv, TypeOK, JobsOK, JobOK, TargetsOK, TargetOK, TransferSteps
<1>2. CASE job[h].back = None
  <2>1. Begin(h, job[h].req, "approve_write")
    BY <1>2 DEF AfterTransfer, Begin
  <2> QED
    BY <1>1, <2>1, BeginIsAStep DEF AnswerSteps
<1>3. CASE job[h].back # None
  <2>1. /\ job[h].back \in Shifts /\ job[h].backWin \in Windows
        /\ job[h].from \in Staff /\ job[h].to \in Staff /\ job[h].from # job[h].to
    BY <1>1, <1>3 DEF JobOK, Job, TransferSteps
  <2>2. Continue(h, TransferJob(job[h].req, job[h].back, job[h].to, job[h].from,
                                job[h].backWin, None, None))
    BY <1>3 DEF AfterTransfer
  <2> QED
    BY <1>1, <2>1, <2>2, TransferJobIsAStep
<1> QED
  BY <1>2, <1>3

LEMMA TransferWriteSafe ==
  ASSUME IInv, NEW h \in Procs, TransferWrite(h)
  PROVE  IInv'
<1> DEFINE s == job[h].shift
           p == job[h].from
           q == job[h].to
           w == job[h].win
<1>1. CASE Refuse(h)
  BY <1>1, RefusalIsSafe
<1>2. CASE /\ Live(s)
           /\ Transfer(h, s, p, q)
           /\ Continue(h, AfterTransfer(h))
           /\ ReleaseLocks(h)
           /\ UNCHANGED <<shiftVars, request, worldVars, queue>>
  <2>1. job[h].pc = "transfer_write" /\ JobOK(job[h])
    BY DEF TransferWrite, At, IInv, JobsOK
  <2>2. s \in Shifts /\ p \in Staff /\ q \in Staff /\ p # q /\ w \in Windows /\ job[h].req \in Requests
    BY <2>1 DEF JobOK, TransferSteps
  <2>3. VerdictHolds(job[h]) /\ userLock[q] = h
    BY <2>1 DEF IInv, VerdictsHold, LocksHeld, CommitSteps, LockedSteps
  <2>4. PICK j : StepTo(h, j) /\ j.pc \notin CommitSteps
    BY <1>2, <2>1, AfterTransferIsAStep
  <2>5. RowsKept(h) /\ LocksKept(h) /\ LivesKept(h)
    BY <1>2, RequestsUntouched, LocksUntouched DEF LivesKept, shiftVars
  <2>6. /\ assignment' = [assignment EXCEPT ![s][p] = "CANCELLED", ![s][q] = "ASSIGNED"]
        /\ edited' = (IF w = window[s] THEN edited \ {<<s, q>>} ELSE edited \cup {<<s, q>>})
                       \ {<<s, p>>}
        /\ moved' = [moved EXCEPT ![job[h].req] = @ \cup {<<s, p, q>>}]
        /\ assignment \in [Shifts -> [Staff -> AssignmentStatus]]
        /\ edited \subseteq Shifts \X Staff
        /\ moved \in [Requests -> SUBSET (Shifts \X Staff \X Staff)]
    BY <1>2 DEF Transfer, Judged, IInv, TypeOK
  <2>7. \A t \in Shifts, x \in Staff : Holds(x, t)' /\ <<t, x>> # <<s, q>> =>
          Holds(x, t) /\ (<<t, x>> \in edited => <<t, x>> \in edited')
    BY <2>2, <2>6 DEF Holds
  <2>8. NoUncheckedClash' /\ VerdictsHold'
    <3>1. \A t \in Shifts \ {s} : Holds(q, t) /\ Clash(window[t], w) => <<t, q>> \in edited
      BY <2>3 DEF VerdictHolds
    <3>2. w # window[s] => <<s, q>> \in edited'
      BY <2>2, <2>6
    <3>3. window' = window
      BY <1>2 DEF shiftVars
    <3> HIDE DEF s, q, w
    <3> QED
      BY <2>2, <2>3, <2>4, <2>7, <3>1, <3>2, <3>3, SeatingIsSafe DEF q
  <2>9. /\ assignment' \in [Shifts -> [Staff -> AssignmentStatus]]
        /\ edited' \subseteq Shifts \X Staff
        /\ moved' \in [Requests -> SUBSET (Shifts \X Staff \X Staff)]
    BY <2>2, <2>6 DEF AssignmentStatus
  <2>10. \A t \in Shifts : life'[t] = "FRESH" => life[t] = "FRESH" /\ assignment'[t] = assignment[t]
    BY <1>2, <2>2, <2>6 DEF Live, shiftVars
  <2> QED
    BY <1>2, <2>4, <2>5, <2>8, <2>9, <2>10, RosterStep DEF shiftVars, IInv, TypeOK
<1> QED
  BY <1>1, <1>2 DEF TransferWrite

-----------------------------------------------------------------------------
(* The whole system *)

LEMMA InitIsSafe == Init => IInv
<1> SUFFICES ASSUME Init PROVE IInv
  OBVIOUS
<1> USE InitAssumption, RulesAssumption, NoneAssumption, NoJobIsIdle
<1>1. TypeOK
  <2>1. NoRequest \in SwapRequest
    BY DEF NoRequest, SwapRequest
  <2>2. /\ assignment \in [Shifts -> [Staff -> AssignmentStatus]]
        /\ request \in [Requests -> SwapRequest]
    BY <2>1 DEF Init, AssignmentStatus
  <2>3. now \in 0..MaxNow /\ job \in [Procs -> Job]
    BY DEF Init
  <2> QED
    BY <2>2, <2>3 DEF Init, TypeOK
<1>2. JobsOK /\ TargetsOK /\ ShiftsDiffer /\ RequestsDiffer /\ LocksHeld /\ VerdictsHold
  BY DEF Init, JobsOK, TargetsOK, TargetOK, ShiftsDiffer, RequestsDiffer, LocksHeld,
         VerdictsHold, At, TransferSteps, AnswerSteps, RowCreations, LockedSteps, CommitSteps
<1>3. RequestsOK
  BY DEF Init, RequestsOK, RequestOK, NoRequest
<1>4. \A s \in Shifts, p \in Staff :
         assignment[s][p] = IF <<s, p>> \in InitRoster THEN "ASSIGNED" ELSE "NONE"
  BY DEF Init
<1>5. FreshIsEmpty
  BY <1>4 DEF Init, FreshIsEmpty
<1>6. NoUncheckedClash
  <2>1. \A s \in Shifts, p \in Staff : Holds(p, s) => <<s, p>> \in InitRoster
    BY <1>4 DEF Holds
  <2>2. ASSUME NEW p \in Staff, NEW s \in Shifts, NEW t \in Shifts, s # t,
               Holds(p, s), Holds(p, t)
        PROVE  ~Clash(window[s], window[t])
    <3>1. <<s, p>> \in InitRoster /\ <<t, p>> \in InitRoster
      BY <2>1, <2>2
    <3>2. ~Clash(InitWindow[s], InitWindow[t])
      BY <2>2, <3>1
    <3> QED
      BY <3>2 DEF Init
  <2> QED
    BY <2>2 DEF NoUncheckedClash
<1> QED
  BY <1>1, <1>2, <1>3, <1>5, <1>6 DEF IInv

\* The steps outside the handlers, and steps that change nothing.
LEMMA WorldSafe ==
  ASSUME IInv, Tick \/ (\E p \in Staff : Requalify(p)) \/ UNCHANGED vars
  PROVE  IInv'
<1>1. /\ UNCHANGED <<life, window, need, assignment, edited, request, userLock, job>>
      /\ published' \in BOOLEAN /\ qualified' \subseteq Staff /\ now' \in 0..MaxNow
      /\ queue' \subseteq Requests /\ moved' = moved
  BY RulesAssumption
     DEF Tick, Requalify, vars, shiftVars, rosterVars, swapVars, IInv, TypeOK
<1>2. TypeOK'
  BY <1>1 DEF IInv, TypeOK
<1>3. /\ JobsOK' /\ TargetsOK' /\ RequestsOK' /\ FreshIsEmpty'
      /\ ShiftsDiffer' /\ RequestsDiffer' /\ LocksHeld'
  BY <1>1 DEF IInv, JobsOK, TargetsOK, TargetOK, RequestsOK, FreshIsEmpty, ShiftsDiffer,
              RequestsDiffer, LocksHeld, At
<1>4. VerdictsHold' /\ NoUncheckedClash'
  BY <1>1 DEF IInv, VerdictsHold, VerdictHolds, NoUncheckedClash, Holds
<1> QED
  BY <1>2, <1>3, <1>4 DEF IInv

LEMMA AssignmentStepSafe ==
  ASSUME IInv, NEW h \in Procs, AssignmentStep(h)
  PROVE  IInv'
BY AssignLockSafe, AssignCountSafe, AssignCheckSafe, AssignWriteSafe, UnassignWriteSafe,
   CancelFindSafe, CancelAllSafe, CreateWriteSafe, EditWriteSafe, EditRowsSafe,
   RemoveCountSafe, RemoveDeleteSafe, PublishingSafe
   DEF AssignmentStep

LEMMA SwapStepSafe ==
  ASSUME IInv, NEW h \in Procs, SwapStep(h)
  PROVE  IInv'
BY SwapCreateSafe, DropCreateSafe, QueueStepsSafe, AnswerWriteSafe, ClaimWriteSafe,
   TransferLockSafe, TransferCheckSafe, TransferWriteSafe
   DEF SwapStep

LEMMA AssignmentCallSafe ==
  ASSUME IInv, NEW h \in Procs, AssignmentCall(h)
  PROVE  IInv'
BY AssignStartSafe, UnassignStartSafe, CreateStartSafe, EditStartSafe, RemoveStartSafe,
   PublishingSafe
   DEF AssignmentCall

LEMMA SwapCallSafe ==
  ASSUME IInv, NEW h \in Procs, SwapCall(h)
  PROVE  IInv'
BY SwapStartSafe, DropStartSafe, AnswerStartSafe, ApproveStartSafe, ClaimStartSafe
   DEF SwapCall

LEMMA NextIsSafe == IInv /\ [Next]_vars => IInv'
<1> SUFFICES ASSUME IInv, [Next]_vars PROVE IInv'
  OBVIOUS
<1>1. ASSUME NEW h \in Procs, HandlerStep(h) \/ Fault(h) \/ StalledJob(h)
      PROVE  IInv'
  BY <1>1, AssignmentStepSafe, SwapStepSafe, RefusalIsSafe, QueueStepsSafe
     DEF HandlerStep, Fault
<1>2. ASSUME NEW h \in Handlers, AssignmentCall(h) \/ SwapCall(h)
      PROVE  IInv'
  BY <1>2, AssignmentCallSafe, SwapCallSafe DEF Procs
<1>3. ASSUME NEW r \in Requests, ExpireStart(r)
      PROVE  IInv'
  BY <1>3, ExpireStartSafe
<1> QED
  BY <1>1, <1>2, <1>3, WorldSafe DEF Next

LEMMA InvariantHolds == Spec => []IInv
<1>1. Init => IInv
  BY InitIsSafe
<1>2. IInv /\ [Next]_vars => IInv'
  BY NextIsSafe
<1> QED
  BY <1>1, <1>2, PTL DEF Spec

\* Every reachable state has well-typed tables, locks, queue and handlers: no service
\* writes a status, a reference or a time outside its column's domain.
THEOREM TypeCorrect == Spec => []TypeOK
<1>1. IInv => TypeOK
  BY DEF IInv
<1> QED
  BY <1>1, InvariantHolds, PTL

\* The services' central promise, for any number of concurrent calls and with
\* handlers dying at any await: the engine's verdict still holds when assign or
\* transferAssignment commits, so a clash needs a manager's later edit.
THEOREM RosterIsSafe == Spec => []NoUncheckedClash
<1>1. IInv => NoUncheckedClash
  BY DEF IInv
<1> QED
  BY <1>1, InvariantHolds, PTL
=============================================================================
